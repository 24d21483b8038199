----------------------------- MODULE Lifecycle ------------------------------
(***************************************************************************)
(* The threads of one node process: Node's constructor, start and stop,    *)
(* main's wait for a signal, the restart of the mining thread in the       *)
(* handler of NEW_BLOCK, and the destructor (core/node.cpp, the node mode  *)
(* of main.cpp).  One action is what a thread does between two accesses to *)
(* running_, mining_, mining_thread_ or the state of another thread.       *)
(*                                                                         *)
(* mining_thread_ is a std::thread that main and the io thread both assign *)
(* and join.  Assigning to one that is joinable ends the process           *)
(* (std::terminate).  A join throws when the other thread is in join or    *)
(* has joined meanwhile: the io thread catches that in the callback of     *)
(* Peer::read, main does not.                                              *)
(*                                                                         *)
(* Left out: what the threads do to the chain (BlockSync, ChainRace,       *)
(* Ledger), the sockets, and a signal that comes while main is not in      *)
(* sigwait (with SIGTERM the process just ends, as in Crash of ChainRace). *)
(***************************************************************************)
EXTENDS Naturals, FiniteSets

CONSTANTS
  Background,     \* periodic threads in background_threads_: gossip, GET_PEERS, sync
  Cleaner, Ping,  \* mempool_cleaner_thread_, and the thread start() detaches
  Slot,           \* mining threads; a slot is used again once its thread is gone
  None

ASSUME ThreadAssumption ==
  /\ Cleaner \notin Background /\ Ping \notin Background /\ Cleaner # Ping
  /\ None \notin Slot /\ IsFiniteSet(Slot) /\ Cardinality(Slot) >= 2

VARIABLES
  process,   \* "running" or "aborted" (std::terminate)
  pc,        \* pc[t]: what main, the io thread and the HTTP thread do next
  loop,      \* loop[t]: where a periodic thread is
  miner,     \* miner[m]: where the mine_loop in slot m is
  handle,    \* the thread mining_thread_ holds, or None
  created,   \* created[t]: the thread t has created and not yet assigned
  running,   \* Node::running_
  mining,    \* Node::mining_
  stopped,   \* ioContext_ has been stopped
  missed,    \* history: the HTTP thread could not bind or looked before start()
  early,     \* history: start() assigned mining_thread_ under a NEW_BLOCK handler
  late       \* history: a NEW_BLOCK handler assigned it after stop()'s join

vars == <<process, pc, loop, miner, handle, created, running, mining, stopped, missed, early, late>>
flags == <<running, mining, stopped>>
histories == <<missed, early, late>>

-----------------------------------------------------------------------------
Periodic == Background \cup {Cleaner, Ping}

\* The threads that have mining_thread_ in their hands.
Owner == {"main", "io"}

\* The points main and the io thread share: the parts of start() and stop() that
\* the handler of NEW_BLOCK repeats.
SharedPoint == {"stopMining", "joinable", "enter", "wait", "mining", "create", "assign"}
MainPoint == SharedPoint \cup {"construct", "io", "loops", "serving", "stop",
                               "stopIo", "joinIo", "background", "destroy"}
IoPoint == SharedPoint \cup {"off", "idle", "ended"}
HttpPoint == {"bind", "look", "accept", "read", "ended"}

TypeOK ==
  /\ process \in {"running", "aborted"}
  /\ DOMAIN pc = {"main", "io", "http"}
  /\ pc["main"] \in MainPoint /\ pc["io"] \in IoPoint /\ pc["http"] \in HttpPoint
  /\ loop \in [Periodic -> {"off", "sleep", "work", "ended"}]
  /\ miner \in [Slot -> {"off", "loop", "round", "ended"}]
  /\ handle \in Slot \cup {None}
  /\ created \in [Owner -> Slot \cup {None}]
  /\ {running, mining, stopped, missed, early, late} \subseteq BOOLEAN

\* The constructor has run: it starts the HTTP thread, and no other.
Init ==
  /\ process = "running"
  /\ pc = [main |-> "construct", io |-> "off", http |-> "bind"]
  /\ loop = [t \in Periodic |-> "off"]
  /\ miner = [m \in Slot |-> "off"]
  /\ handle = None /\ created = [t \in Owner |-> None]
  /\ running = FALSE /\ mining = FALSE /\ stopped = FALSE
  /\ missed = FALSE /\ early = FALSE /\ late = FALSE

At(t, point) == process = "running" /\ pc[t] = point
Goto(t, point) == pc' = [pc EXCEPT ![t] = point]

\* std::terminate: all threads are gone.
Abort == process' = "aborted" /\ UNCHANGED pc

OtherOwner(t) == IF t = "main" THEN "io" ELSE "main"

\* Where a thread goes on after joining the mining thread, and after starting one.
AfterJoin(t) == IF t = "main" THEN "stopIo" ELSE "mining"

\* Mutant of AfterStart: start() goes on as the handler does.
AfterStartIdle(t) == "idle"

AfterStart(t) == IF t = "main" THEN "serving" ELSE "idle"

-----------------------------------------------------------------------------
(* mining_ and mining_thread_, in the hands of main or of the io thread. *)

StopMining(t) ==
  /\ At(t, "stopMining")
  /\ mining' = FALSE
  /\ Goto(t, "joinable")
  /\ UNCHANGED <<process, loop, miner, handle, created, running, stopped, histories>>

\* Mutant of Joinable: the handler does not wait for the thread it replaces.
JoinableMainOnly(t) ==
  /\ At(t, "joinable")
  /\ Goto(t, IF handle = None \/ t = "io" THEN AfterJoin(t) ELSE "enter")
  /\ UNCHANGED <<process, loop, miner, handle, created, flags, histories>>

\* if (mining_thread_.joinable()) ...
Joinable(t) ==
  /\ At(t, "joinable")
  /\ Goto(t, IF handle = None THEN AfterJoin(t) ELSE "enter")
  /\ UNCHANGED <<process, loop, miner, handle, created, flags, histories>>

\* ... mining_thread_.join(): the call throws when it is not the only one.
EnterJoin(t) ==
  /\ At(t, "enter")
  /\ IF handle # None /\ pc[OtherOwner(t)] # "wait"
     THEN Goto(t, "wait") /\ UNCHANGED process
     ELSE IF t = "main" THEN Abort ELSE Goto(t, "idle") /\ UNCHANGED process
  /\ UNCHANGED <<loop, miner, handle, created, flags, histories>>

\* Mutant of Joined: the thread is detached.
Detached(t) ==
  /\ At(t, "wait")
  /\ handle' = None
  /\ Goto(t, AfterJoin(t))
  /\ UNCHANGED <<process, loop, miner, created, flags, histories>>

Joined(t) ==
  /\ At(t, "wait") /\ miner[handle] = "ended"
  /\ miner' = [miner EXCEPT ![handle] = "off"]
  /\ handle' = None
  /\ Goto(t, AfterJoin(t))
  /\ UNCHANGED <<process, loop, created, flags, histories>>

StartMining(t) ==
  /\ At(t, "mining")
  /\ mining' = TRUE
  /\ Goto(t, "create")
  /\ UNCHANGED <<process, loop, miner, handle, created, running, stopped, histories>>

\* std::thread(...) starts a mine_loop before it is assigned to anything.
Create(t) ==
  /\ At(t, "create")
  /\ \E m \in Slot :
       /\ miner[m] = "off"
       /\ miner' = [miner EXCEPT ![m] = "loop"]
       /\ created' = [created EXCEPT ![t] = m]
  /\ Goto(t, "assign")
  /\ UNCHANGED <<process, loop, handle, flags, histories>>

Assign(t) ==
  /\ At(t, "assign")
  /\ IF handle # None
     THEN Abort /\ UNCHANGED <<handle, created, histories>>
     ELSE /\ handle' = created[t]
          /\ created' = [created EXCEPT ![t] = None]
          /\ early' = (early \/ (t = "main" /\ pc["io"] \in {"joinable", "mining", "create", "assign"}))
          /\ late' = (late \/ (t = "io" /\ pc["main"] \in {"stopIo", "joinIo"}))
          /\ Goto(t, AfterStart(t))
          /\ UNCHANGED <<process, missed>>
  /\ UNCHANGED <<loop, miner, flags>>

Share(t) ==
  \/ StopMining(t) \/ Joinable(t) \/ EnterJoin(t) \/ Joined(t)
  \/ StartMining(t) \/ Create(t) \/ Assign(t)

-----------------------------------------------------------------------------
(* main: Node::start, sigwait, Node::stop, Node::~Node. *)

Start ==
  /\ At("main", "construct")
  /\ running' = TRUE
  /\ Goto("main", "io")
  /\ UNCHANGED <<process, loop, miner, handle, created, mining, stopped, histories>>

StartIo ==
  /\ At("main", "io")
  /\ pc' = [pc EXCEPT !["main"] = "loops", !["io"] = "idle"]
  /\ UNCHANGED <<process, loop, miner, handle, created, flags, histories>>

StartLoops ==
  /\ At("main", "loops")
  /\ loop' = [t \in Periodic |-> "sleep"]
  /\ Goto("main", "mining")
  /\ UNCHANGED <<process, miner, handle, created, flags, histories>>

\* Somebody wants the node to end.
Signal ==
  /\ At("main", "serving")
  /\ Goto("main", "stop")
  /\ UNCHANGED <<process, loop, miner, handle, created, flags, histories>>

Stop ==
  /\ At("main", "stop")
  /\ running' = FALSE
  /\ Goto("main", "stopMining")
  /\ UNCHANGED <<process, loop, miner, handle, created, mining, stopped, histories>>

StopIo ==
  /\ At("main", "stopIo")
  /\ stopped' = TRUE
  /\ Goto("main", "joinIo")
  /\ UNCHANGED <<process, loop, miner, handle, created, running, mining, histories>>

\* server_->stop() then closes sockets only.
JoinIo ==
  /\ At("main", "joinIo") /\ pc["io"] = "ended"
  /\ Goto("main", "background")
  /\ UNCHANGED <<process, loop, miner, handle, created, flags, histories>>

\* Mutant of JoinBackground: the periodic threads are not waited for.
JoinHttpOnly ==
  /\ At("main", "background") /\ pc["http"] = "ended"
  /\ Goto("main", "destroy")
  /\ UNCHANGED <<process, loop, miner, handle, created, flags, histories>>

\* All of background_threads_, the HTTP thread among them.
JoinBackground ==
  /\ At("main", "background") /\ pc["http"] = "ended"
  /\ \A t \in Background : loop[t] = "ended"
  /\ Goto("main", "destroy")
  /\ UNCHANGED <<process, loop, miner, handle, created, flags, histories>>

\* main returns: ~Node calls stop(), which finds running_ false and returns.  The
\* members are destroyed from the last to the first, and the destructor of
\* mempool_cleaner_thread_, which is joinable because nobody has joined it, ends
\* the process by std::terminate: there is no other way out of main.
Destroy ==
  /\ At("main", "destroy")
  /\ Abort
  /\ UNCHANGED <<loop, miner, handle, created, flags, histories>>

MainStep ==
  \/ Share("main") \/ Start \/ StartIo \/ StartLoops
  \/ Stop \/ StopIo \/ JoinIo \/ JoinBackground \/ Destroy

-----------------------------------------------------------------------------
(* The io thread: ioContext_.run(). *)

\* A NEW_BLOCK that addBlock or replaceLastBlock has taken.
NewBlock ==
  /\ At("io", "idle") /\ ~stopped
  /\ Goto("io", "stopMining")
  /\ UNCHANGED <<process, loop, miner, handle, created, flags, histories>>

EndIo ==
  /\ At("io", "idle") /\ stopped
  /\ Goto("io", "ended")
  /\ UNCHANGED <<process, loop, miner, handle, created, flags, histories>>

-----------------------------------------------------------------------------
(* The other threads. *)

Bind ==
  /\ At("http", "bind")
  /\ \/ Goto("http", "look") /\ UNCHANGED missed
     \/ Goto("http", "ended") /\ missed' = TRUE
  /\ UNCHANGED <<process, loop, miner, handle, created, flags, early, late>>

\* while (running_): the constructor has started the thread, start() comes later.
Look ==
  /\ At("http", "look")
  /\ Goto("http", IF running THEN "accept" ELSE "ended")
  /\ missed' = (missed \/ pc["main"] = "construct")
  /\ UNCHANGED <<process, loop, miner, handle, created, flags, early, late>>

\* accept returns when a client connects ...
Accept ==
  /\ At("http", "accept")
  /\ Goto("http", "read")
  /\ UNCHANGED <<process, loop, miner, handle, created, flags, histories>>

\* Mutant of Request: an empty body ends the thread instead of the request.
RequestOnce ==
  /\ At("http", "read")
  /\ Goto("http", "ended")
  /\ UNCHANGED <<process, loop, miner, handle, created, flags, histories>>

\* ... and read when it says something or closes; whatever it asks, the loop goes on.
Request ==
  /\ At("http", "read")
  /\ Goto("http", "look")
  /\ UNCHANGED <<process, loop, miner, handle, created, flags, histories>>

\* Mutant of Tick: the loop does not look at running_.
TickOn(t) ==
  /\ process = "running" /\ loop[t] \in {"sleep", "work"}
  /\ loop' = [loop EXCEPT ![t] = IF @ = "sleep" THEN "work" ELSE "sleep"]
  /\ UNCHANGED <<process, pc, miner, handle, created, flags, histories>>

\* while (running_) { sleep; if (!running_) break; work; }
Tick(t) ==
  /\ process = "running" /\ loop[t] \in {"sleep", "work"}
  /\ loop' = [loop EXCEPT ![t] = IF ~running THEN "ended" ELSE IF @ = "sleep" THEN "work" ELSE "sleep"]
  /\ UNCHANGED <<process, pc, miner, handle, created, flags, histories>>

\* Mutant of Mine: the loop does not look at mining_.
MineOn(m) ==
  /\ process = "running" /\ miner[m] \in {"loop", "round"}
  /\ miner' = [miner EXCEPT ![m] = IF @ = "round" THEN "loop" ELSE "round"]
  /\ UNCHANGED <<process, pc, loop, handle, created, flags, histories>>

\* Node::mine_loop: a round is cut short, or not begun, without mining_.
Mine(m) ==
  /\ process = "running" /\ miner[m] \in {"loop", "round"}
  /\ miner' = [miner EXCEPT ![m] = IF @ = "round" THEN "loop" ELSE IF mining THEN "round" ELSE "ended"]
  /\ UNCHANGED <<process, pc, loop, handle, created, flags, histories>>

\* systemd starts the node again (scripts/systemd.txt: Restart=always).
Restart ==
  /\ process # "running"
  /\ process' = "running"
  /\ pc' = [main |-> "construct", io |-> "off", http |-> "bind"]
  /\ loop' = [t \in Periodic |-> "off"] /\ miner' = [m \in Slot |-> "off"]
  /\ handle' = None /\ created' = [t \in Owner |-> None]
  /\ running' = FALSE /\ mining' = FALSE /\ stopped' = FALSE
  /\ missed' = FALSE /\ early' = FALSE /\ late' = FALSE

-----------------------------------------------------------------------------
Next ==
  \/ MainStep \/ Signal
  \/ Share("io") \/ NewBlock \/ EndIo
  \/ Bind \/ Look \/ Accept \/ Request
  \/ \E t \in Periodic : Tick(t)
  \/ \E m \in Slot : Mine(m)
  \/ Restart

Spec == Init /\ [][Next]_vars

\* Every thread runs on.  That a block or a signal comes is not assumed, nor that anybody
\* connects to the HTTP port, or says something once connected: accept and read have
\* no timeout.
LiveSpec ==
  /\ Spec
  /\ WF_vars(MainStep) /\ WF_vars(Share("io") \/ EndIo)
  /\ WF_vars(Bind \/ Look)
  /\ \A t \in Periodic : WF_vars(Tick(t))
  /\ \A m \in Slot : WF_vars(Mine(m))

-----------------------------------------------------------------------------
(* Properties. *)

Mining == {m \in Slot : process = "running" /\ miner[m] \in {"loop", "round"}}

\* There are never two mine_loops, however start(), stop() and NEW_BLOCK overlap,
\* but for the moment in which a second one has been created and its assignment
\* is about to end the process (or the first is not assigned either).
OneMiner == Cardinality(Mining) > 1 => \E t \in Owner : At(t, "assign")

\* When stop() has returned, the threads it is there for are over, and a mine_loop
\* goes on only if a NEW_BLOCK handler put it into mining_thread_ after stop() had
\* looked there.  (The cleaner and the ping thread may go on.)
StopWaits ==
  At("main", "destroy") =>
    /\ pc["io"] = "ended" /\ pc["http"] = "ended"
    /\ \A t \in Background : loop[t] = "ended"
    /\ Mining # {} => late

\* While the node serves, its HTTP thread has not ended, unless it has missed the
\* start: it could not bind, or has looked at running_ before start() set it.  (It may
\* wait for a client that says nothing, and answers no other then.)
ApiUp == At("main", "serving") /\ pc["http"] = "ended" => missed

\* Between start() and a signal, no handler ends the process, unless it was already
\* running when start() assigned mining_thread_ (the io thread starts before).
ServingSurvives == [][At("main", "serving") /\ process' = "aborted" => early]_vars

\* The two ways to hold stop(): a NEW_BLOCK handler has set mining_ again before stop()
\* joins the mining thread, or the HTTP thread waits for a client.
HeldByMiner == At("main", "wait") /\ mining
HeldByClient == At("main", "background") /\ pc["http"] \in {"accept", "read"}

\* A node that is to stop ends, unless one of the two holds it for ever: no loop, handler
\* or join does it otherwise.
StopReturns == At("main", "stop") ~> (process # "running" \/ []HeldByMiner \/ []HeldByClient)

\* The handler of NEW_BLOCK, and with it the io thread, does not hang in its join,
\* whatever stop() does at the time; start() must not have set mining_ and
\* mining_thread_ under it.
HandlerReturns == At("io", "wait") ~> (~At("io", "wait") \/ early)
=============================================================================
