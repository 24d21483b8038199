-------------------------- MODULE Lifecycle_proofs --------------------------
(***************************************************************************)
(* Proofs about Lifecycle, for any periodic threads and slots.  The        *)
(* inductive invariant says where the mine_loops are (each in              *)
(* mining_thread_, or created and about to be assigned), what main has     *)
(* behind it at each of its points, and what the three history variables   *)
(* except.                                                                 *)
(***************************************************************************)
EXTENDS Lifecycle, FiniteSetTheorems, TLAPS

\* main between its assignment to running_ in start() and the one in stop(): it is
\* in "mining", "create" and "assign" for start() only.
Started == {"io", "loops", "mining", "create", "assign", "serving", "stop"}

\* main has looked at mining_thread_ in stop().
PastJoin == {"stopIo", "joinIo", "background", "destroy"}

\* A thread object is in a thread's hands between its creation and its assignment.
CreatedInHand == \A t \in Owner : pc[t] # "assign" => created[t] = None

\* A mine_loop that has begun is held by somebody.
MinersHeld == \A m \in Slot : miner[m] # "off" => handle = m \/ \E t \in Owner : created[t] = m

\* running_ is set while main is in between.
RunningWhileStarted == pc["main"] \in Started => running

\* The HTTP thread has not gone before start() and stop(), but by missing the start.
HttpMissed == pc["main"] \in Started \cup {"construct"} /\ pc["http"] = "ended" => missed

\* When the io thread is about to assign, mining_thread_ is empty.
HandlerFindsNone ==
  pc["main"] = "serving" /\ pc["io"] \in {"mining", "create", "assign"} => handle = None \/ early

\* stop() leaves nothing in mining_thread_, and waits for the threads one by one.
EmptyAfterJoin == pc["main"] \in PastJoin => handle = None \/ late
IoWaitedFor == pc["main"] \in {"background", "destroy"} => pc["io"] = "ended"
OthersWaitedFor ==
  pc["main"] = "destroy" => pc["http"] = "ended" /\ \A t \in Background : loop[t] = "ended"

\* There is no io thread before start().
IoNotYet == pc["main"] \in {"construct", "io"} => pc["io"] = "off"

Held == CreatedInHand /\ MinersHeld
Serving == IoNotYet /\ RunningWhileStarted /\ HttpMissed /\ HandlerFindsNone
Stopping == EmptyAfterJoin /\ IoWaitedFor /\ OthersWaitedFor

IInv == TypeOK /\ Held /\ Serving /\ Stopping

USE DEF Owner, SharedPoint, MainPoint, IoPoint, HttpPoint, Periodic, At, Goto, Abort, flags, histories

-----------------------------------------------------------------------------
(* Steps. *)

LEMMA InitIInv == Init => IInv
<1> SUFFICES ASSUME Init PROVE IInv
  OBVIOUS
<1>0. DOMAIN pc = {"main", "io", "http"} /\ pc["main"] = "construct" /\ pc["io"] = "off" /\ pc["http"] = "bind"
  BY DEF Init
<1>1. TypeOK
  BY <1>0 DEF Init, TypeOK
<1>2. Held
  BY <1>0 DEF Init, Held, CreatedInHand, MinersHeld
<1>3. Serving
  BY <1>0 DEF Init, Serving, IoNotYet, RunningWhileStarted, HttpMissed, HandlerFindsNone, Started
<1>4. Stopping
  BY <1>0 DEF Init, Stopping, EmptyAfterJoin, IoWaitedFor, OthersWaitedFor, PastJoin
<1> QED
  BY <1>1, <1>2, <1>3, <1>4 DEF IInv

LEMMA StopMiningStep == ASSUME IInv, NEW t \in Owner, StopMining(t) PROVE IInv'
<1>1. TypeOK'
  BY DEF IInv, TypeOK, StopMining
<1>2. Held'
  BY DEF IInv, TypeOK, Held, CreatedInHand, MinersHeld, StopMining
<1>3. Serving'
  BY DEF IInv, TypeOK, Serving, IoNotYet, RunningWhileStarted, HttpMissed, HandlerFindsNone, Started, StopMining
<1>4. Stopping'
  BY DEF IInv, TypeOK, Stopping, EmptyAfterJoin, IoWaitedFor, OthersWaitedFor, PastJoin, StopMining
<1> QED
  BY <1>1, <1>2, <1>3, <1>4 DEF IInv

LEMMA JoinableStep == ASSUME IInv, NEW t \in Owner, Joinable(t) PROVE IInv'
<1>1. TypeOK'
  BY DEF IInv, TypeOK, Joinable, AfterJoin
<1>2. Held'
  BY DEF IInv, TypeOK, Held, CreatedInHand, MinersHeld, Joinable, AfterJoin
<1>3. Serving'
  BY DEF IInv, TypeOK, Serving, IoNotYet, RunningWhileStarted, HttpMissed, HandlerFindsNone, Started, Joinable, AfterJoin
<1>4. Stopping'
  BY DEF IInv, TypeOK, Stopping, EmptyAfterJoin, IoWaitedFor, OthersWaitedFor, PastJoin, Joinable, AfterJoin
<1> QED
  BY <1>1, <1>2, <1>3, <1>4 DEF IInv

LEMMA EnterJoinStep == ASSUME IInv, NEW t \in Owner, EnterJoin(t) PROVE IInv'
<1>1. TypeOK'
  BY DEF IInv, TypeOK, EnterJoin, OtherOwner
<1>2. Held'
  BY DEF IInv, TypeOK, Held, CreatedInHand, MinersHeld, EnterJoin, OtherOwner
<1>3. Serving'
  BY DEF IInv, TypeOK, Serving, IoNotYet, RunningWhileStarted, HttpMissed, HandlerFindsNone, Started, EnterJoin, OtherOwner
<1>4. Stopping'
  BY DEF IInv, TypeOK, Stopping, EmptyAfterJoin, IoWaitedFor, OthersWaitedFor, PastJoin, EnterJoin, OtherOwner
<1> QED
  BY <1>1, <1>2, <1>3, <1>4 DEF IInv

LEMMA JoinedStep == ASSUME IInv, NEW t \in Owner, Joined(t) PROVE IInv'
<1>1. TypeOK'
  BY DEF IInv, TypeOK, Joined, AfterJoin
<1>2. Held'
  BY DEF IInv, TypeOK, Held, CreatedInHand, MinersHeld, Joined, AfterJoin
<1>3. Serving'
  BY DEF IInv, TypeOK, Serving, IoNotYet, RunningWhileStarted, HttpMissed, HandlerFindsNone, Started, Joined, AfterJoin
<1>4. Stopping'
  BY DEF IInv, TypeOK, Stopping, EmptyAfterJoin, IoWaitedFor, OthersWaitedFor, PastJoin, Joined, AfterJoin
<1> QED
  BY <1>1, <1>2, <1>3, <1>4 DEF IInv

LEMMA StartMiningStep == ASSUME IInv, NEW t \in Owner, StartMining(t) PROVE IInv'
<1>1. TypeOK'
  BY DEF IInv, TypeOK, StartMining
<1>2. Held'
  BY DEF IInv, TypeOK, Held, CreatedInHand, MinersHeld, StartMining
<1>3. Serving'
  BY DEF IInv, TypeOK, Serving, IoNotYet, RunningWhileStarted, HttpMissed, HandlerFindsNone, Started, StartMining
<1>4. Stopping'
  BY DEF IInv, TypeOK, Stopping, EmptyAfterJoin, IoWaitedFor, OthersWaitedFor, PastJoin, StartMining
<1> QED
  BY <1>1, <1>2, <1>3, <1>4 DEF IInv

LEMMA CreateStep == ASSUME IInv, NEW t \in Owner, Create(t) PROVE IInv'
<1>1. TypeOK'
  BY DEF IInv, TypeOK, Create
<1>2. Held'
  BY ThreadAssumption DEF IInv, TypeOK, Held, CreatedInHand, MinersHeld, Create
<1>3. Serving'
  BY DEF IInv, TypeOK, Serving, IoNotYet, RunningWhileStarted, HttpMissed, HandlerFindsNone, Started, Create
<1>4. Stopping'
  BY DEF IInv, TypeOK, Stopping, EmptyAfterJoin, IoWaitedFor, OthersWaitedFor, PastJoin, Create
<1> QED
  BY <1>1, <1>2, <1>3, <1>4 DEF IInv

LEMMA AssignStep == ASSUME IInv, NEW t \in Owner, Assign(t) PROVE IInv'
<1>1. TypeOK'
  <2>1. {early', late'} \subseteq BOOLEAN
    BY DEF IInv, TypeOK, Assign
  <2>2. handle' \in Slot \cup {None} /\ created' \in [Owner -> Slot \cup {None}]
    BY DEF IInv, TypeOK, Assign
  <2>3. process' \in {"running", "aborted"} /\ pc' \in {pc, [pc EXCEPT ![t] = AfterStart(t)]}
    BY DEF IInv, TypeOK, Assign
  <2> QED
    BY <2>1, <2>2, <2>3 DEF IInv, TypeOK, Assign, AfterStart
<1>2. Held'
  BY DEF IInv, TypeOK, Held, CreatedInHand, MinersHeld, Assign, AfterStart
<1>3. Serving'
  BY DEF IInv, TypeOK, Serving, IoNotYet, RunningWhileStarted, HttpMissed, HandlerFindsNone, Started, Assign, AfterStart
<1>4. Stopping'
  BY DEF IInv, TypeOK, Stopping, EmptyAfterJoin, IoWaitedFor, OthersWaitedFor, PastJoin, Assign, AfterStart
<1> QED
  BY <1>1, <1>2, <1>3, <1>4 DEF IInv

LEMMA StartStep == ASSUME IInv, Start PROVE IInv'
<1>1. TypeOK'
  BY DEF IInv, TypeOK, Start
<1>2. Held'
  BY DEF IInv, TypeOK, Held, CreatedInHand, MinersHeld, Start
<1>3. Serving'
  BY DEF IInv, TypeOK, Serving, IoNotYet, RunningWhileStarted, HttpMissed, HandlerFindsNone, Started, Start
<1>4. Stopping'
  BY DEF IInv, TypeOK, Stopping, EmptyAfterJoin, IoWaitedFor, OthersWaitedFor, PastJoin, Start
<1> QED
  BY <1>1, <1>2, <1>3, <1>4 DEF IInv

LEMMA StartIoStep == ASSUME IInv, StartIo PROVE IInv'
<1>1. TypeOK'
  BY DEF IInv, TypeOK, StartIo
<1>2. Held'
  BY DEF IInv, TypeOK, Serving, IoNotYet, Held, CreatedInHand, MinersHeld, StartIo
<1>3. Serving'
  BY DEF IInv, TypeOK, Serving, IoNotYet, RunningWhileStarted, HttpMissed, HandlerFindsNone, Started, StartIo
<1>4. Stopping'
  BY DEF IInv, TypeOK, Stopping, EmptyAfterJoin, IoWaitedFor, OthersWaitedFor, PastJoin, StartIo
<1> QED
  BY <1>1, <1>2, <1>3, <1>4 DEF IInv

LEMMA StartLoopsStep == ASSUME IInv, StartLoops PROVE IInv'
<1>1. TypeOK'
  BY DEF IInv, TypeOK, StartLoops
<1>2. Held'
  BY DEF IInv, TypeOK, Held, CreatedInHand, MinersHeld, StartLoops
<1>3. Serving'
  BY DEF IInv, TypeOK, Serving, IoNotYet, RunningWhileStarted, HttpMissed, HandlerFindsNone, Started, StartLoops
<1>4. Stopping'
  BY DEF IInv, TypeOK, Stopping, EmptyAfterJoin, IoWaitedFor, OthersWaitedFor, PastJoin, StartLoops
<1> QED
  BY <1>1, <1>2, <1>3, <1>4 DEF IInv

LEMMA SignalStep == ASSUME IInv, Signal PROVE IInv'
<1>1. TypeOK'
  BY DEF IInv, TypeOK, Signal
<1>2. Held'
  BY DEF IInv, TypeOK, Held, CreatedInHand, MinersHeld, Signal
<1>3. Serving'
  BY DEF IInv, TypeOK, Serving, IoNotYet, RunningWhileStarted, HttpMissed, HandlerFindsNone, Started, Signal
<1>4. Stopping'
  BY DEF IInv, TypeOK, Stopping, EmptyAfterJoin, IoWaitedFor, OthersWaitedFor, PastJoin, Signal
<1> QED
  BY <1>1, <1>2, <1>3, <1>4 DEF IInv

LEMMA StopStep == ASSUME IInv, Stop PROVE IInv'
<1>1. TypeOK'
  BY DEF IInv, TypeOK, Stop
<1>2. Held'
  BY DEF IInv, TypeOK, Held, CreatedInHand, MinersHeld, Stop
<1>3. Serving'
  BY DEF IInv, TypeOK, Serving, IoNotYet, RunningWhileStarted, HttpMissed, HandlerFindsNone, Started, Stop
<1>4. Stopping'
  BY DEF IInv, TypeOK, Stopping, EmptyAfterJoin, IoWaitedFor, OthersWaitedFor, PastJoin, Stop
<1> QED
  BY <1>1, <1>2, <1>3, <1>4 DEF IInv

LEMMA StopIoStep == ASSUME IInv, StopIo PROVE IInv'
<1>1. TypeOK'
  BY DEF IInv, TypeOK, StopIo
<1>2. Held'
  BY DEF IInv, TypeOK, Held, CreatedInHand, MinersHeld, StopIo
<1>3. Serving'
  BY DEF IInv, TypeOK, Serving, IoNotYet, RunningWhileStarted, HttpMissed, HandlerFindsNone, Started, StopIo
<1>4. Stopping'
  BY DEF IInv, TypeOK, Stopping, EmptyAfterJoin, IoWaitedFor, OthersWaitedFor, PastJoin, StopIo
<1> QED
  BY <1>1, <1>2, <1>3, <1>4 DEF IInv

LEMMA JoinIoStep == ASSUME IInv, JoinIo PROVE IInv'
<1>1. TypeOK'
  BY DEF IInv, TypeOK, JoinIo
<1>2. Held'
  BY DEF IInv, TypeOK, Held, CreatedInHand, MinersHeld, JoinIo
<1>3. Serving'
  BY DEF IInv, TypeOK, Serving, IoNotYet, RunningWhileStarted, HttpMissed, HandlerFindsNone, Started, JoinIo
<1>4. Stopping'
  BY DEF IInv, TypeOK, Stopping, EmptyAfterJoin, IoWaitedFor, OthersWaitedFor, PastJoin, JoinIo
<1> QED
  BY <1>1, <1>2, <1>3, <1>4 DEF IInv

LEMMA JoinBackgroundStep == ASSUME IInv, JoinBackground PROVE IInv'
<1>1. TypeOK'
  BY DEF IInv, TypeOK, JoinBackground
<1>2. Held'
  BY DEF IInv, TypeOK, Held, CreatedInHand, MinersHeld, JoinBackground
<1>3. Serving'
  BY DEF IInv, TypeOK, Serving, IoNotYet, RunningWhileStarted, HttpMissed, HandlerFindsNone, Started, JoinBackground
<1>4. Stopping'
  BY DEF IInv, TypeOK, Stopping, EmptyAfterJoin, IoWaitedFor, OthersWaitedFor, PastJoin, JoinBackground
<1> QED
  BY <1>1, <1>2, <1>3, <1>4 DEF IInv

LEMMA DestroyStep == ASSUME IInv, Destroy PROVE IInv'
<1>1. TypeOK'
  BY DEF IInv, TypeOK, Destroy
<1>2. Held'
  BY DEF IInv, TypeOK, Held, CreatedInHand, MinersHeld, Destroy
<1>3. Serving'
  BY DEF IInv, TypeOK, Serving, IoNotYet, RunningWhileStarted, HttpMissed, HandlerFindsNone, Started, Destroy
<1>4. Stopping'
  BY DEF IInv, TypeOK, Stopping, EmptyAfterJoin, IoWaitedFor, OthersWaitedFor, PastJoin, Destroy
<1> QED
  BY <1>1, <1>2, <1>3, <1>4 DEF IInv

LEMMA NewBlockStep == ASSUME IInv, NewBlock PROVE IInv'
<1>1. TypeOK'
  BY DEF IInv, TypeOK, NewBlock
<1>2. Held'
  BY DEF IInv, TypeOK, Held, CreatedInHand, MinersHeld, NewBlock
<1>3. Serving'
  BY DEF IInv, TypeOK, Serving, IoNotYet, RunningWhileStarted, HttpMissed, HandlerFindsNone, Started, NewBlock
<1>4. Stopping'
  BY DEF IInv, TypeOK, Stopping, EmptyAfterJoin, IoWaitedFor, OthersWaitedFor, PastJoin, NewBlock
<1> QED
  BY <1>1, <1>2, <1>3, <1>4 DEF IInv

LEMMA EndIoStep == ASSUME IInv, EndIo PROVE IInv'
<1>1. TypeOK'
  BY DEF IInv, TypeOK, EndIo
<1>2. Held'
  BY DEF IInv, TypeOK, Held, CreatedInHand, MinersHeld, EndIo
<1>3. Serving'
  BY DEF IInv, TypeOK, Serving, IoNotYet, RunningWhileStarted, HttpMissed, HandlerFindsNone, Started, EndIo
<1>4. Stopping'
  BY DEF IInv, TypeOK, Stopping, EmptyAfterJoin, IoWaitedFor, OthersWaitedFor, PastJoin, EndIo
<1> QED
  BY <1>1, <1>2, <1>3, <1>4 DEF IInv

LEMMA BindStep == ASSUME IInv, Bind PROVE IInv'
<1>1. TypeOK'
  BY DEF IInv, TypeOK, Bind
<1>2. Held'
  BY DEF IInv, TypeOK, Held, CreatedInHand, MinersHeld, Bind
<1>3. Serving'
  BY DEF IInv, TypeOK, Serving, IoNotYet, RunningWhileStarted, HttpMissed, HandlerFindsNone, Started, Bind
<1>4. Stopping'
  BY DEF IInv, TypeOK, Stopping, EmptyAfterJoin, IoWaitedFor, OthersWaitedFor, PastJoin, Bind
<1> QED
  BY <1>1, <1>2, <1>3, <1>4 DEF IInv

LEMMA LookStep == ASSUME IInv, Look PROVE IInv'
<1>1. TypeOK'
  BY DEF IInv, TypeOK, Look
<1>2. Held'
  BY DEF IInv, TypeOK, Held, CreatedInHand, MinersHeld, Look
<1>3. Serving'
  BY DEF IInv, TypeOK, Serving, IoNotYet, RunningWhileStarted, HttpMissed, HandlerFindsNone, Started, Look
<1>4. Stopping'
  BY DEF IInv, TypeOK, Stopping, EmptyAfterJoin, IoWaitedFor, OthersWaitedFor, PastJoin, Look
<1> QED
  BY <1>1, <1>2, <1>3, <1>4 DEF IInv

LEMMA AcceptStep == ASSUME IInv, Accept PROVE IInv'
<1>1. TypeOK'
  BY DEF IInv, TypeOK, Accept
<1>2. Held'
  BY DEF IInv, TypeOK, Held, CreatedInHand, MinersHeld, Accept
<1>3. Serving'
  BY DEF IInv, TypeOK, Serving, IoNotYet, RunningWhileStarted, HttpMissed, HandlerFindsNone, Started, Accept
<1>4. Stopping'
  BY DEF IInv, TypeOK, Stopping, EmptyAfterJoin, IoWaitedFor, OthersWaitedFor, PastJoin, Accept
<1> QED
  BY <1>1, <1>2, <1>3, <1>4 DEF IInv

LEMMA RequestStep == ASSUME IInv, Request PROVE IInv'
<1>1. TypeOK'
  BY DEF IInv, TypeOK, Request
<1>2. Held'
  BY DEF IInv, TypeOK, Held, CreatedInHand, MinersHeld, Request
<1>3. Serving'
  BY DEF IInv, TypeOK, Serving, IoNotYet, RunningWhileStarted, HttpMissed, HandlerFindsNone, Started, Request
<1>4. Stopping'
  BY DEF IInv, TypeOK, Stopping, EmptyAfterJoin, IoWaitedFor, OthersWaitedFor, PastJoin, Request
<1> QED
  BY <1>1, <1>2, <1>3, <1>4 DEF IInv

LEMMA TickStep == ASSUME IInv, NEW t \in Periodic, Tick(t) PROVE IInv'
<1>1. TypeOK'
  BY DEF IInv, TypeOK, Tick
<1>2. Held'
  BY DEF IInv, TypeOK, Held, CreatedInHand, MinersHeld, Tick
<1>3. Serving'
  BY DEF IInv, TypeOK, Serving, IoNotYet, RunningWhileStarted, HttpMissed, HandlerFindsNone, Started, Tick
<1>4. Stopping'
  BY DEF IInv, TypeOK, Stopping, EmptyAfterJoin, IoWaitedFor, OthersWaitedFor, PastJoin, Tick
<1> QED
  BY <1>1, <1>2, <1>3, <1>4 DEF IInv

LEMMA MineStep == ASSUME IInv, NEW m \in Slot, Mine(m) PROVE IInv'
<1>1. TypeOK'
  BY DEF IInv, TypeOK, Mine
<1>2. Held'
  BY DEF IInv, TypeOK, Held, CreatedInHand, MinersHeld, Mine
<1>3. Serving'
  BY DEF IInv, TypeOK, Serving, IoNotYet, RunningWhileStarted, HttpMissed, HandlerFindsNone, Started, Mine
<1>4. Stopping'
  BY DEF IInv, TypeOK, Stopping, EmptyAfterJoin, IoWaitedFor, OthersWaitedFor, PastJoin, Mine
<1> QED
  BY <1>1, <1>2, <1>3, <1>4 DEF IInv

LEMMA RestartStep == ASSUME Restart PROVE IInv'
<1>0. DOMAIN pc' = {"main", "io", "http"} /\ pc'["main"] = "construct" /\ pc'["io"] = "off" /\ pc'["http"] = "bind"
  BY DEF Restart
<1>1. TypeOK'
  BY <1>0 DEF Restart, TypeOK
<1>2. Held'
  BY <1>0 DEF Restart, Held, CreatedInHand, MinersHeld
<1>3. Serving'
  BY <1>0 DEF Restart, Serving, IoNotYet, RunningWhileStarted, HttpMissed, HandlerFindsNone, Started
<1>4. Stopping'
  BY <1>0 DEF Restart, Stopping, EmptyAfterJoin, IoWaitedFor, OthersWaitedFor, PastJoin
<1> QED
  BY <1>1, <1>2, <1>3, <1>4 DEF IInv

LEMMA NextIInv == IInv /\ [Next]_vars => IInv'
<1> SUFFICES ASSUME IInv, [Next]_vars PROVE IInv'
  OBVIOUS
<1>1. ASSUME NEW t \in Owner, Share(t) PROVE IInv'
  BY <1>1, StopMiningStep, JoinableStep, EnterJoinStep, JoinedStep, StartMiningStep, CreateStep, AssignStep
     DEF Share
<1>2. CASE MainStep
  BY <1>1, <1>2, StartStep, StartIoStep, StartLoopsStep, StopStep, StopIoStep, JoinIoStep, JoinBackgroundStep,
     DestroyStep DEF MainStep
<1>3. CASE Signal \/ Share("io") \/ NewBlock \/ EndIo
  BY <1>1, <1>3, SignalStep, NewBlockStep, EndIoStep
<1>4. CASE Bind \/ Look \/ Accept \/ Request
  BY <1>4, BindStep, LookStep, AcceptStep, RequestStep
<1>5. CASE \/ \E t \in Periodic : Tick(t)
           \/ \E m \in Slot : Mine(m)
  BY <1>5, TickStep, MineStep
<1>6. CASE Restart
  BY <1>6, RestartStep
<1>7. CASE UNCHANGED vars
  BY <1>7 DEF vars, IInv, TypeOK, Held, CreatedInHand, MinersHeld,
              Serving, IoNotYet, RunningWhileStarted, HttpMissed, HandlerFindsNone,
              Stopping, EmptyAfterJoin, IoWaitedFor, OthersWaitedFor
<1> QED
  BY <1>2, <1>3, <1>4, <1>5, <1>6, <1>7 DEF Next

LEMMA Invariance == Spec => []IInv
BY InitIInv, NextIInv, PTL DEF Spec

-----------------------------------------------------------------------------
(* Theorems. *)

\* The members of Node that the threads share keep their types.
THEOREM TypeCorrect == Spec => []TypeOK
<1>1. IInv => TypeOK
  BY DEF IInv
<1> QED
  BY <1>1, Invariance, PTL

\* However often NEW_BLOCK restarts the mining thread while start() and stop() do the
\* same, two mine_loops run only where one of them is not assigned yet (handleMessage,
\* start, stop: join, then assign).
THEOREM OneMinerAtATime == Spec => []OneMiner
<1>1. IInv => OneMiner
  <2> SUFFICES ASSUME IInv, \A t \in Owner : ~At(t, "assign") PROVE ~(Cardinality(Mining) > 1)
    BY DEF OneMiner
  <2>1. CASE process # "running"
    <3>1. Mining = {}
      BY <2>1 DEF Mining
    <3> QED
      BY <3>1, FS_EmptySet
  <2>2. CASE process = "running"
    <3>1. \A m \in Slot : miner[m] # "off" => m = handle
      BY <2>2, ThreadAssumption DEF IInv, Held, CreatedInHand, MinersHeld
    <3>2. Mining \subseteq {handle}
      BY <3>1 DEF Mining
    <3>3. IsFiniteSet({handle}) /\ Cardinality({handle}) = 1
      BY FS_Singleton
    <3>4. Cardinality(Mining) <= 1 /\ Cardinality(Mining) \in Nat
      BY <3>2, <3>3, FS_Subset, FS_CardinalityType
    <3> QED
      BY <3>4
  <2> QED
    BY <2>1, <2>2
<1> QED
  BY <1>1, Invariance, PTL

\* When stop() is past its joins, the threads it is there for are over (Node::stop).
THEOREM StopWaitsForThreads == Spec => []StopWaits
<1>1. IInv => StopWaits
  <2> SUFFICES ASSUME IInv, At("main", "destroy")
               PROVE  /\ pc["io"] = "ended" /\ pc["http"] = "ended"
                      /\ \A t \in Background : loop[t] = "ended"
                      /\ Mining # {} => late
    BY DEF StopWaits
  <2>1. pc["main"] = "destroy"
    OBVIOUS
  <2>2. /\ pc["io"] = "ended" /\ pc["http"] = "ended"
        /\ \A t \in Background : loop[t] = "ended"
    BY <2>1 DEF IInv, Stopping, IoWaitedFor, OthersWaitedFor
  <2>3. \A t \in Owner : created[t] = None
    BY <2>1, <2>2 DEF IInv, Held, CreatedInHand
  <2>4. handle = None \/ late
    BY <2>1 DEF IInv, Stopping, EmptyAfterJoin, PastJoin
  <2>5. handle = None => Mining = {}
    BY <2>3, ThreadAssumption DEF IInv, Held, MinersHeld, Mining
  <2> QED
    BY <2>2, <2>4, <2>5
<1> QED
  BY <1>1, Invariance, PTL

\* The HTTP thread of a node that serves has not ended, unless it has missed the start
\* (startHttpServer looks at running_, which start() sets).
THEOREM ApiUpWhileServing == Spec => []ApiUp
<1>1. IInv => ApiUp
  BY DEF IInv, Serving, HttpMissed, Started, ApiUp
<1> QED
  BY <1>1, Invariance, PTL

\* No handler ends the process of a node that serves, unless it was running while
\* start() assigned mining_thread_ (handleMessage's and start's assignments).
THEOREM HandlersDoNotAbort == Spec => ServingSurvives
<1>1. IInv /\ [Next]_vars => [At("main", "serving") /\ process' = "aborted" => early]_vars
  <2> SUFFICES ASSUME IInv, Next, At("main", "serving"), process' = "aborted" PROVE early
    OBVIOUS
  <2>0. pc["main"] = "serving" /\ process = "running"
    OBVIOUS
  <2>1. CASE Share("io")
    <3>1. Assign("io")
      BY <2>0, <2>1 DEF Share, StopMining, Joinable, EnterJoin, Joined, StartMining, Create
    <3>2. handle # None /\ pc["io"] = "assign"
      BY <2>0, <3>1 DEF Assign
    <3>3. HandlerFindsNone
      BY DEF IInv, Serving
    <3> QED
      BY <2>0, <3>2, <3>3 DEF HandlerFindsNone
  <2>2. ~MainStep
    BY <2>0 DEF MainStep, Share, StopMining, Joinable, EnterJoin, Joined, StartMining, Create, Assign,
                Start, StartIo, StartLoops, Stop, StopIo, JoinIo, JoinBackground, Destroy
  <2>3. ~(Signal \/ NewBlock \/ EndIo \/ Bind \/ Look \/ Accept \/ Request \/ Restart)
    BY <2>0 DEF Signal, NewBlock, EndIo, Bind, Look, Accept, Request, Restart
  <2>4. ~(\E t \in Periodic : Tick(t)) /\ ~(\E m \in Slot : Mine(m))
    BY <2>0 DEF Tick, Mine
  <2> QED
    BY <2>1, <2>2, <2>3, <2>4 DEF Next
<1> QED
  BY <1>1, Invariance, PTL DEF Spec, ServingSurvives
=============================================================================
