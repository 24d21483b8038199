------------------------------ MODULE Overlay -------------------------------
(***************************************************************************)
(* How a network of nodes comes about: the dialling in Node's constructor  *)
(* and main, Server's accept loop, Node::handleConnection, the HANDSHAKE,  *)
(* and the exchange of peer lists (core/node.cpp, network/).               *)
(*                                                                         *)
(* The constructor dials the seeds before it creates the Server, so that a *)
(* node listens only when all its calls have been answered; an address on  *)
(* the command line is dialled after start().  A call is made once.  The   *)
(* table of saved peers stays empty (NoListTravels), so the seeds are what *)
(* the constructor dials.                                                  *)
(*                                                                         *)
(* Left out: the messages of BlockSync, PING and PONG (a time stamp), the  *)
(* handler of PEERS_LIST with the `peers' table and its time stamps, which *)
(* NoListTravels shows to be idle, and addresses nobody has.               *)
(***************************************************************************)
EXTENDS Naturals, FiniteSets, Sequences, SequencesExt

CONSTANTS
  Node,
  Host,       \* Host[n]: the IP address of node n
  PeerPort,   \* PeerPort[n]: its p2pPort_
  Seeds,      \* the nodes whose addresses are in the constructor's list
  Argument,   \* Argument[n]: the node n's command line names, or None
  Port,       \* the ephemeral ports the kernel chooses from
  None,
  MaxStops,   \* bound: ends of nodes
  MaxWire     \* bound: periodic messages wait while this much is in flight

ASSUME AddressAssumption ==
  /\ DOMAIN Host = Node /\ PeerPort \in [Node -> Nat]
  /\ Seeds \subseteq Node
  /\ Argument \in [Node -> Node \cup {None}] /\ None \notin Node
  /\ \A n \in Node : Argument[n] # n
  /\ MaxStops \in Nat /\ MaxWire \in Nat

\* The calls nodes make.  A seed with a node's own port is taken for the node itself,
\* on whichever host it is.
Link ==
  {c \in [dialer : Node, acceptor : Node, via : {"seed", "argument"}] :
     IF c.via = "seed" THEN c.acceptor \in Seeds /\ PeerPort[c.acceptor] # PeerPort[c.dialer]
     ELSE Argument[c.dialer] = c.acceptor}

ASSUME NoneAssumption == None \notin Link

VARIABLES
  phase,    \* phase[n]: "down", "dialing" (in the constructor) or "up" (listening)
  link,     \* link[c]: "idle" (to be dialled), "dialled", "open", "failed" or "closed"
  port,     \* port[c]: the dialer's port of the last connection of link c
  backlog,  \* backlog[n]: connections the kernel has accepted for n
  clients,  \* clients[n]: Node::clients_, and what is known of each peer
  ready,    \* the links whose dialer has got a HANDSHAKE
  wire,     \* wire[c][n]: messages on link c on their way to node n
  greeting, \* the nodes inside handleConnection: the last of clients_ gets a HANDSHAKE yet
  overtaken,\* history: links where another thread's message went out before the HANDSHAKE
  stops     \* bound counter

vars == <<phase, link, port, backlog, clients, ready, wire, greeting, overtaken, stops>>

-----------------------------------------------------------------------------
Entry == [link : Link, port : Port, alive : BOOLEAN, known : BOOLEAN]

Message == [type : {"HANDSHAKE", "GET_PEERS"}] \cup [type : {"PEERS_LIST"}, payload : SUBSET Node]

TypeOK ==
  /\ phase \in [Node -> {"down", "dialing", "up"}]
  /\ link \in [Link -> {"idle", "dialled", "open", "failed", "closed"}]
  /\ port \in [Link -> Port]
  /\ backlog \in [Node -> Seq(Entry)] /\ clients \in [Node -> Seq(Entry)]
  /\ ready \in SUBSET Link
  /\ wire \in [Link -> [Node -> Seq(Message)]]
  /\ greeting \in SUBSET Node /\ overtaken \in SUBSET Link
  /\ stops \in 0..MaxStops

Init ==
  /\ phase = [n \in Node |-> "down"]
  /\ link = [c \in Link |-> "idle"]
  /\ port \in {[c \in Link |-> p] : p \in Port}
  /\ backlog = [n \in Node |-> <<>>] /\ clients = [n \in Node |-> <<>>]
  /\ ready = {}
  /\ wire = [c \in Link |-> [n \in Node |-> <<>>]]
  /\ greeting = {} /\ overtaken = {} /\ stops = 0

Other(c, n) == IF n = c.dialer THEN c.acceptor ELSE c.dialer
Quiet == [n \in Node |-> <<>>]

\* Mutant of Dead: a read error does not change the peer's state.
DeadUnnoticed(gone, entries) == entries

\* Peer::disconnect at both ends of the links in `gone'.
Dead(gone, entries) ==
  [n \in Node |-> [i \in DOMAIN entries[n] |->
     IF entries[n][i].link \in gone THEN [entries[n][i] EXCEPT !.alive = FALSE] ELSE entries[n][i]]]
Silent(gone) == [c \in Link |-> IF c \in gone THEN Quiet ELSE wire[c]]

-----------------------------------------------------------------------------
(* Peer lists. *)

\* The peers a node tells others about: those in clients_ whose HANDSHAKE it has got,
\* connected or not.
Known(n) == {i \in DOMAIN clients[n] : clients[n][i].known}
PeersOf(n, entries) == {clients[n][i].link.dialer : i \in entries}

\* Client::send of msg to the given entries of clients_.
SendTo(w, n, entries, msg) ==
  [c \in Link |-> IF \E i \in entries : clients[n][i].link = c /\ clients[n][i].alive
                  THEN [w[c] EXCEPT ![c.dialer] = Append(@, msg)]
                  ELSE w[c]]

\* Node::broadcastPeers and broadcastPeersToAll.
BroadcastPeers(w, n) ==
  IF Known(n) = {} THEN w
  ELSE SendTo(w, n, DOMAIN clients[n], [type |-> "PEERS_LIST", payload |-> PeersOf(n, Known(n))])

InFlight(n) == {c \in Link : n \in {c.dialer, c.acceptor} /\ Len(wire[c][Other(c, n)]) >= MaxWire}

\* A thread of node n puts the messages of w on the wire, as it pleases: before the
\* HANDSHAKE of a link too that is in clients_ already.
Send(n, w) ==
  /\ wire' = w
  /\ overtaken' = overtaken \cup
       {c \in Link : n \in greeting /\ Last(clients[n]).link = c /\ w[c] # wire[c]}
  /\ UNCHANGED <<phase, link, port, backlog, clients, ready, greeting, stops>>

\* The thread that asks for peer lists every 45 seconds.  (To a HANDSHAKE, a PING or a
\* mined block does the same.)
RequestPeers(n) ==
  /\ phase[n] = "up" /\ InFlight(n) = {}
  /\ \E i \in DOMAIN clients[n] : clients[n][i].alive
  /\ Send(n, SendTo(wire, n, DOMAIN clients[n], [type |-> "GET_PEERS"]))

\* The sync thread's broadcast, every 30 seconds.
PeriodicPeers(n) ==
  /\ phase[n] = "up" /\ InFlight(n) = {}
  /\ clients[n] # <<>>
  /\ Send(n, BroadcastPeers(wire, n))

\* Node::gossipPeers: one entry of at least two is told of the others.
Gossip(n) ==
  /\ phase[n] = "up" /\ InFlight(n) = {}
  /\ Len(clients[n]) >= 2
  /\ \E target \in DOMAIN clients[n] :
       LET others == Known(n) \ {target} IN
       Send(n, IF others = {} THEN wire
               ELSE SendTo(wire, n, {target}, [type |-> "PEERS_LIST", payload |-> PeersOf(n, others)]))

-----------------------------------------------------------------------------
(* Handlers of a running node: the messages of a link, in their order.  They, and the *)
(* accept loop, wait for the io thread to come out of handleConnection.               *)

IoFree(n) == phase[n] = "up" /\ n \notin greeting
Ready(c, n, type) == IoFree(n) /\ wire[c][n] # <<>> /\ Head(wire[c][n]).type = type
Consumed(c, n) == [wire EXCEPT ![c][n] = Tail(@)]

\* The peer's port is known from now on; when the peer is in clients_, it is listed.
ReceiveHandshake(c, n) ==
  /\ Ready(c, n, "HANDSHAKE")
  /\ ready' = IF n = c.dialer THEN ready \cup {c} ELSE ready
  /\ clients' = [clients EXCEPT ![n] = [i \in DOMAIN @ |->
                   IF @[i].link = c /\ @[i].alive /\ n = c.acceptor THEN [@[i] EXCEPT !.known = TRUE] ELSE @[i]]]
  /\ wire' = BroadcastPeers(Consumed(c, n), n)
  /\ UNCHANGED <<phase, link, port, backlog, greeting, overtaken, stops>>

\* The list goes to all of the node's own clients_, not to the peer that asks.
ReceiveGetPeers(c, n) ==
  /\ Ready(c, n, "GET_PEERS")
  /\ wire' = BroadcastPeers(Consumed(c, n), n)
  /\ UNCHANGED <<phase, link, port, backlog, clients, ready, greeting, overtaken, stops>>

\* Mutant of Swallow: the line itself is lost.
SwallowFirst(c, n) ==
  /\ phase[n] = "up" /\ wire[c][n] # <<>>
  /\ wire' = Consumed(c, n)
  /\ UNCHANGED <<phase, link, port, backlog, clients, ready, greeting, overtaken, stops>>

\* Peer::read takes the line it hands over out of the buffer twice: what the same
\* segment brought behind it is lost.
Swallow(c, n) ==
  /\ phase[n] = "up" /\ Len(wire[c][n]) >= 2
  /\ wire' = [wire EXCEPT ![c][n] = <<Head(@)>> \o Tail(Tail(@))]
  /\ UNCHANGED <<phase, link, port, backlog, clients, ready, greeting, overtaken, stops>>

-----------------------------------------------------------------------------
(* Connections. *)

\* The process starts: Node's constructor.
Begin(n) ==
  /\ phase[n] = "down"
  /\ phase' = [phase EXCEPT ![n] = "dialing"]
  /\ UNCHANGED <<link, port, backlog, clients, ready, wire, greeting, overtaken, stops>>

\* The ports that the kernel cannot give to a connection from n's host to node m.
Taken(n, m) ==
  {port[c] : c \in {c \in Link : /\ Host[c.dialer] = Host[n] /\ c.acceptor = m
                                 /\ link[c] \in {"dialled", "open"}}}
  \cup {backlog[m][i].port : i \in {i \in DOMAIN backlog[m] : Host[backlog[m][i].link.dialer] = Host[n]}}

CanDial(c) ==
  /\ link[c] = "idle"
  /\ phase[c.dialer] = IF c.via = "seed" THEN "dialing" ELSE "up"

\* Mutant of Dial: the dialer's end is bound to its own p2pPort_.
DialFromListeningPort(c) ==
  /\ CanDial(c) /\ phase[c.acceptor] = "up"
  /\ LET p == PeerPort[c.dialer] IN
       /\ port' = [port EXCEPT ![c] = p]
       /\ backlog' = [backlog EXCEPT ![c.acceptor] =
                        Append(@, [link |-> c, port |-> p, alive |-> TRUE, known |-> FALSE])]
  /\ link' = [link EXCEPT ![c] = "dialled"]
  /\ UNCHANGED <<phase, clients, ready, wire, greeting, overtaken, stops>>

\* Client::connect, which waits for the answer: the kernel of a listening node takes
\* the connection.
Dial(c) ==
  /\ CanDial(c) /\ phase[c.acceptor] = "up"
  /\ \E p \in Port \ Taken(c.dialer, c.acceptor) :
       /\ port' = [port EXCEPT ![c] = p]
       /\ backlog' = [backlog EXCEPT ![c.acceptor] =
                        Append(@, [link |-> c, port |-> p, alive |-> TRUE, known |-> FALSE])]
  /\ link' = [link EXCEPT ![c] = "dialled"]
  /\ UNCHANGED <<phase, clients, ready, wire, greeting, overtaken, stops>>

\* Any error ends the call: nobody listens there yet, or any more, or the network fails
\* it.  There is no second try.
DialFails(c) ==
  /\ CanDial(c)
  /\ link' = [link EXCEPT ![c] = "failed"]
  /\ UNCHANGED <<phase, port, backlog, clients, ready, wire, greeting, overtaken, stops>>

\* The constructor goes on to create the Server, start() to accept.
Listen(n) ==
  /\ phase[n] = "dialing"
  /\ \A c \in Link : c.dialer = n /\ c.via = "seed" => link[c] # "idle"
  /\ phase' = [phase EXCEPT ![n] = "up"]
  /\ UNCHANGED <<link, port, backlog, clients, ready, wire, greeting, overtaken, stops>>

\* Mutant of SamePeer: a second connection from one address is refused.
SameAddress(e, f) == Host[e.link.dialer] = Host[f.link.dialer]

\* Two connections with the same remote address and port.
SamePeer(e, f) == Host[e.link.dialer] = Host[f.link.dialer] /\ e.port = f.port

\* handleConnection's test for a peer that is already connected.
AlreadyThere(n, e) == \E i \in DOMAIN clients[n] : SamePeer(clients[n][i], e)

\* Server::handle_accept and Node::handleConnection: the connection is entered in
\* clients_ ...  The dialer may be gone by then; where the kernel has forgotten its
\* address too, remote_endpoint throws through the io thread, and the process ends (End).
Admit(n) ==
  /\ IoFree(n) /\ backlog[n] # <<>>
  /\ LET e == Head(backlog[n]) IN
     /\ ~AlreadyThere(n, e)
     /\ clients' = [clients EXCEPT ![n] = Append(@, e)]
     /\ link' = IF e.alive THEN [link EXCEPT ![e.link] = "open"] ELSE link
  /\ backlog' = [backlog EXCEPT ![n] = Tail(@)]
  /\ greeting' = greeting \cup {n}
  /\ UNCHANGED <<phase, port, ready, wire, overtaken, stops>>

\* Mutant of Greet: both sides call their connection handlers and shake hands.
GreetBoth(n) ==
  /\ n \in greeting
  /\ LET c == Last(clients[n]).link IN
     wire' = IF Last(clients[n]).alive
             THEN [wire EXCEPT ![c] = [m \in Node |->
                     IF m \in {c.dialer, n} THEN Append(@[m], [type |-> "HANDSHAKE"]) ELSE @[m]]]
             ELSE wire
  /\ greeting' = greeting \ {n}
  /\ UNCHANGED <<phase, link, port, backlog, clients, ready, overtaken, stops>>

\* ... and gets a HANDSHAKE.
Greet(n) ==
  /\ n \in greeting
  /\ wire' = SendTo(wire, n, {Len(clients[n])}, [type |-> "HANDSHAKE"])
  /\ greeting' = greeting \ {n}
  /\ UNCHANGED <<phase, link, port, backlog, clients, ready, overtaken, stops>>

\* "already connected, rejecting"
Refuse(n) ==
  /\ IoFree(n) /\ backlog[n] # <<>>
  /\ LET e == Head(backlog[n]) IN
     /\ AlreadyThere(n, e)
     /\ link' = IF e.alive THEN [link EXCEPT ![e.link] = "closed"] ELSE link
  /\ backlog' = [backlog EXCEPT ![n] = Tail(@)]
  /\ UNCHANGED <<phase, port, clients, ready, wire, greeting, overtaken, stops>>

\* Mutant of Break: the entry is taken out of clients_.
BreakRemoving(c) ==
  /\ link[c] = "open"
  /\ link' = [link EXCEPT ![c] = "closed"]
  /\ clients' = [n \in Node |-> SelectSeq(clients[n], LAMBDA e : ~(e.link = c /\ e.alive))]
  /\ ready' = ready \ {c} /\ overtaken' = overtaken \ {c}
  /\ wire' = Silent({c})
  /\ UNCHANGED <<phase, port, backlog, greeting, stops>>

\* The connection fails, and both ends see it.
Break(c) ==
  /\ link[c] = "open"
  /\ link' = [link EXCEPT ![c] = "closed"]
  /\ clients' = Dead({c}, clients)
  /\ ready' = ready \ {c} /\ overtaken' = overtaken \ {c}
  /\ wire' = Silent({c})
  /\ UNCHANGED <<phase, port, backlog, greeting, stops>>

\* The process ends, and the kernel closes its connections.
End(n) ==
  LET gone == {c \in Link : n \in {c.dialer, c.acceptor} /\ link[c] \in {"dialled", "open"}} IN
  /\ phase[n] # "down" /\ stops < MaxStops
  /\ stops' = stops + 1
  /\ phase' = [phase EXCEPT ![n] = "down"]
  /\ link' = [c \in Link |-> IF c.dialer = n THEN "idle" ELSE IF c \in gone THEN "closed" ELSE link[c]]
  /\ clients' = [Dead(gone, clients) EXCEPT ![n] = <<>>]
  /\ backlog' = [Dead(gone, backlog) EXCEPT ![n] = <<>>]
  /\ ready' = ready \ gone /\ overtaken' = overtaken \ gone
  /\ wire' = Silent(gone)
  /\ greeting' = greeting \ {n}
  /\ UNCHANGED port

-----------------------------------------------------------------------------
Next ==
  \/ \E n \in Node :
       \/ Begin(n) \/ Listen(n) \/ End(n)
       \/ Admit(n) \/ Greet(n) \/ Refuse(n)
       \/ RequestPeers(n) \/ PeriodicPeers(n) \/ Gossip(n)
  \/ \E c \in Link : Dial(c) \/ DialFails(c) \/ Break(c)
  \/ \E c \in Link, n \in Node : ReceiveHandshake(c, n) \/ ReceiveGetPeers(c, n) \/ Swallow(c, n)

Spec == Init /\ [][Next]_vars

\* A running process goes on: its io thread accepts and handles what has arrived, and its
\* threads come around.
LiveSpec ==
  /\ Spec
  /\ \A n \in Node : WF_vars(Listen(n)) /\ WF_vars(Admit(n) \/ Greet(n) \/ Refuse(n))
  /\ \A n \in Node : WF_vars(RequestPeers(n)) /\ WF_vars(PeriodicPeers(n)) /\ WF_vars(Gossip(n))
  /\ \A c \in Link : WF_vars(Dial(c) \/ DialFails(c))
  /\ \A c \in Link, n \in Node : WF_vars(ReceiveHandshake(c, n) \/ ReceiveGetPeers(c, n))

-----------------------------------------------------------------------------
(* Properties. *)

\* No node of this code ever sends a list of peers: lists hold the peers whose
\* HANDSHAKE has come, and nobody who dials sends one.  This is why the handler of
\* PEERS_LIST can be left out; that lists are promised is what run no_lists is about.
NoListTravels ==
  /\ \A n \in Node : Known(n) = {}
  /\ \A c \in Link, n \in Node : \A i \in DOMAIN wire[c][n] : wire[c][n][i].type # "PEERS_LIST"

\* A connection is never refused for one that is open: as no two open connections
\* have the same two ends, handleConnection only ever finds what is left of one
\* that is over.
OnlyGhostsRefuse ==
  [][\A n \in Node : Refuse(n) =>
       \A i \in DOMAIN clients[n] :
         SamePeer(clients[n][i], Head(backlog[n])) => ~clients[n][i].alive]_vars

\* The acceptor's HANDSHAKE reaches the dialer, or the connection is over, unless another
\* thread was first to send on it: a read may lose what is behind another message, and
\* the connection is in clients_ before the HANDSHAKE is sent.
HandshakeArrives == \A c \in Link : link[c] = "open" ~> (c \in ready \cup overtaken \/ link[c] # "open")

\* A node sends those who are connected to it a list of peers now and then.
PeersAreSent ==
  \A n \in Node :
    (\E i \in DOMAIN clients[n] : clients[n][i].alive) ~>
      \/ \A i \in DOMAIN clients[n] : ~clients[n][i].alive
      \/ \E c \in Link : c.acceptor = n /\ \E i \in DOMAIN wire[c][c.dialer] : wire[c][c.dialer][i].type = "PEERS_LIST"

\* Abstractly: clients_ is the list of the accepted links, see module Links.
Promise == INSTANCE Links WITH
  Dialer <- [c \in Link |-> c.dialer],
  Acceptor <- [c \in Link |-> c.acceptor],
  link <- [c \in Link |-> IF link[c] = "dialled" THEN "idle" ELSE IF link[c] = "failed" THEN "closed" ELSE link[c]],
  clients <- [n \in Node |-> [i \in DOMAIN clients[n] |->
                IF clients[n][i].alive THEN clients[n][i].link ELSE None]]

ImplementsLinks == Promise!Spec

\* A message to all of clients_ reaches every open link's dialer exactly once.
EachLinkOnce == Promise!EachOnce
=============================================================================
