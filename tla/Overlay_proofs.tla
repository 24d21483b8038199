--------------------------- MODULE Overlay_proofs ---------------------------
(***************************************************************************)
(* Proofs about Overlay, for all nodes, addresses, seeds and arguments.    *)
(*                                                                         *)
(* Unheard says why discovery does not begin: acceptors are sent nothing   *)
(* at all (WireInv), so no entry of clients_, each of which an acceptor    *)
(* made, is ever completed by a HANDSHAKE.                                 *)
(*                                                                         *)
(* Books says what the lists of a node have to do with the links it        *)
(* accepts: each link in use has one entry in use, in clients_ when it is  *)
(* open, with the kernel when it is dialled, and no waiting connection has *)
(* the address of another one that waits or is in use.  From it follow the *)
(* refinement of Links and that only connections that are over stand in    *)
(* the way of new ones.                                                    *)
(***************************************************************************)
EXTENDS Overlay, SequenceTheorems, TLAPS

Unknown == {e \in Entry : ~e.known}
Said == [type : {"HANDSHAKE", "GET_PEERS"}]

WireInv(w) ==
  /\ w \in [Link -> [Node -> Seq(Said)]]
  /\ \A c \in Link, n \in Node : n # c.dialer => w[c][n] = <<>>

Unheard ==
  /\ clients \in [Node -> Seq(Unknown)]
  /\ backlog \in [Node -> Seq(Unknown)]
  /\ WireInv(wire)

-----------------------------------------------------------------------------
\* Nobody dials itself: seeds with the own port are left out.
LEMMA TwoEnds == \A c \in Link : c.dialer \in Node /\ c.acceptor \in Node /\ c.dialer # c.acceptor
BY AddressAssumption DEF Link

LEMMA NobodyKnown == ASSUME Unheard, NEW n \in Node PROVE Known(n) = {}
<1>1. \A i \in DOMAIN clients[n] : clients[n][i] \in Unknown
  BY DEF Unheard
<1> QED
  BY <1>1 DEF Known, Unknown

\* With no peer known, nothing is broadcast.
LEMMA NoBroadcast == ASSUME Unheard, NEW n \in Node, NEW w PROVE BroadcastPeers(w, n) = w
BY NobodyKnown DEF BroadcastPeers

\* A message goes to dialers.
LEMMA SentToDialers ==
  ASSUME WireInv(wire), NEW n \in Node, NEW entries, NEW msg \in Said
  PROVE  WireInv(SendTo(wire, n, entries, msg))
<1> DEFINE w == SendTo(wire, n, entries, msg)
<1>1. ASSUME NEW c \in Link
      PROVE  w[c] \in [Node -> Seq(Said)] /\ \A m \in Node : m # c.dialer => w[c][m] = <<>>
  <2>1. c.dialer \in Node
    BY TwoEnds
  <2>2. wire[c] \in [Node -> Seq(Said)] /\ \A m \in Node : m # c.dialer => wire[c][m] = <<>>
    BY DEF WireInv
  <2>3. Append(wire[c][c.dialer], msg) \in Seq(Said)
    BY <2>1, <2>2
  <2>4. w[c] \in {wire[c], [wire[c] EXCEPT ![c.dialer] = Append(@, msg)]}
    BY DEF SendTo
  <2> QED
    BY <2>1, <2>2, <2>3, <2>4
<1>2. w = [c \in Link |-> w[c]]
  BY DEF SendTo
<1> HIDE DEF w
<1>3. w \in [Link -> [Node -> Seq(Said)]]
  BY <1>1, <1>2
<1>4. WireInv(w)
  BY <1>1, <1>3 DEF WireInv
<1> QED
  BY <1>4 DEF w

\* A message is taken off the wire, by the dialer.
LEMMA OnlyDialersHear ==
  ASSUME WireInv(wire), NEW c \in Link, NEW n \in Node, wire[c][n] # <<>>
  PROVE  n = c.dialer /\ WireInv(Consumed(c, n))
<1>1. n = c.dialer
  BY DEF WireInv
<1>2. wire[c][n] \in Seq(Said) /\ Tail(wire[c][n]) \in Seq(Said)
  BY DEF WireInv
<1> QED
  BY <1>1, <1>2 DEF WireInv, Consumed

\* A line is lost behind the one a dialer reads.
LEMMA LineLost ==
  ASSUME WireInv(wire), NEW c \in Link, NEW n \in Node, Swallow(c, n)
  PROVE  WireInv(wire')
<1>1. wire' = [wire EXCEPT ![c][n] = <<Head(@)>> \o Tail(Tail(@))]
  BY DEF Swallow
<1>2. wire[c][n] \in Seq(Said) /\ Len(wire[c][n]) >= 2
  BY DEF WireInv, Swallow
<1>3. n = c.dialer
  <2>1. wire[c][n] # <<>>
    BY <1>2
  <2> QED
    BY <2>1 DEF WireInv
<1>4. Head(wire[c][n]) \in Said /\ Tail(Tail(wire[c][n])) \in Seq(Said)
  <2> SUFFICES ASSUME NEW s \in Seq(Said), Len(s) >= 2
               PROVE  Head(s) \in Said /\ Tail(Tail(s)) \in Seq(Said)
    BY <1>2
  <2>1. s # <<>> /\ Tail(s) \in Seq(Said) /\ Len(Tail(s)) = Len(s) - 1
    OBVIOUS
  <2>2. Len(s) \in Nat /\ Len(Tail(s)) # Len(<<>>)
    <3>1. Len(s) \in Nat /\ Len(<<>>) = 0
      OBVIOUS
    <3> QED
      BY <2>1, <3>1
  <2>3. Tail(s) # <<>>
    BY <2>2, Zenon
  <2> QED
    BY <2>1, <2>3
<1>5. <<Head(wire[c][n])>> \in Seq(Said)
  BY <1>4
<1>6. <<Head(wire[c][n])>> \o Tail(Tail(wire[c][n])) \in Seq(Said)
  BY <1>4, <1>5
<1> QED
  BY <1>1, <1>3, <1>6 DEF WireInv

\* Closing connections leaves entries as unknown as they were.
LEMMA DeadUnknown ==
  ASSUME NEW gone, NEW entries \in [Node -> Seq(Unknown)]
  PROVE  Dead(gone, entries) \in [Node -> Seq(Unknown)]
<1>1. ASSUME NEW n \in Node PROVE Dead(gone, entries)[n] \in Seq(Unknown)
  <2>1. entries[n] \in Seq(Unknown) /\ DOMAIN entries[n] = 1..Len(entries[n]) /\ Len(entries[n]) \in Nat
    OBVIOUS
  <2> DEFINE closed(i) == IF entries[n][i].link \in gone THEN [entries[n][i] EXCEPT !.alive = FALSE] ELSE entries[n][i]
  <2>2. Dead(gone, entries)[n] = [i \in DOMAIN entries[n] |-> closed(i)]
    BY DEF Dead
  <2>3. \A i \in 1..Len(entries[n]) : closed(i) \in Unknown
    <3>1. ASSUME NEW e \in Unknown PROVE [e EXCEPT !.alive = FALSE] \in Unknown
      BY DEF Unknown, Entry
    <3>2. \A i \in 1..Len(entries[n]) : entries[n][i] \in Unknown
      BY <2>1
    <3> QED
      BY <3>1, <3>2
  <2> HIDE DEF closed
  <2> QED
    BY <2>1, <2>2, <2>3, IsASeq
<1> QED
  BY <1>1 DEF Dead

LEMMA SilentWire == ASSUME WireInv(wire), NEW gone PROVE WireInv(Silent(gone))
<1>1. <<>> \in Seq(Said)
  OBVIOUS
<1>2. Quiet \in [Node -> Seq(Said)] /\ \A n \in Node : Quiet[n] = <<>>
  BY <1>1 DEF Quiet
<1>3. \A c \in Link : Silent(gone)[c] \in {Quiet, wire[c]}
  BY DEF Silent
<1>4. Silent(gone) = [c \in Link |-> Silent(gone)[c]]
  BY DEF Silent
<1> QED
  BY <1>2, <1>3, <1>4 DEF WireInv

-----------------------------------------------------------------------------
(* Steps. *)

LEMMA InitUnheard == Init => Unheard
<1>1. <<>> \in Seq(Unknown) /\ <<>> \in Seq(Said)
  OBVIOUS
<1> QED
  BY <1>1 DEF Init, Unheard, WireInv

LEMMA PeriodicStep ==
  ASSUME Unheard, NEW n \in Node, RequestPeers(n) \/ PeriodicPeers(n) \/ Gossip(n)
  PROVE  Unheard'
<1>1. clients' = clients /\ backlog' = backlog
  BY DEF RequestPeers, PeriodicPeers, Gossip, Send
<1>2. CASE RequestPeers(n)
  <2>1. [type |-> "GET_PEERS"] \in Said
    BY DEF Said
  <2>2. wire' = SendTo(wire, n, DOMAIN clients[n], [type |-> "GET_PEERS"])
    BY <1>2 DEF RequestPeers, Send
  <2>3. WireInv(wire')
    BY <2>1, <2>2, SentToDialers DEF Unheard
  <2> QED
    BY <1>1, <2>3 DEF Unheard
<1>3. CASE PeriodicPeers(n)
  <2>1. wire' = wire
    BY <1>3, NoBroadcast DEF PeriodicPeers, Send
  <2> QED
    BY <1>1, <2>1 DEF Unheard
<1>4. CASE Gossip(n)
  <2>1. wire' = wire
    BY <1>4, NobodyKnown DEF Gossip, Send
  <2> QED
    BY <1>1, <2>1 DEF Unheard
<1> QED
  BY <1>2, <1>3, <1>4

LEMMA HandlerStep ==
  ASSUME Unheard, NEW c \in Link, NEW n \in Node, ReceiveHandshake(c, n) \/ ReceiveGetPeers(c, n)
  PROVE  Unheard' /\ clients' = clients
<1>1. wire[c][n] # <<>>
  BY DEF ReceiveHandshake, ReceiveGetPeers, Ready
<1>2. n = c.dialer /\ WireInv(Consumed(c, n))
  BY <1>1, OnlyDialersHear DEF Unheard
<1>3. wire' = Consumed(c, n)
  BY NoBroadcast DEF ReceiveHandshake, ReceiveGetPeers
<1>4. backlog' = backlog
  BY DEF ReceiveHandshake, ReceiveGetPeers
<1>5. clients' = clients
  <2>1. CASE ReceiveHandshake(c, n)
    <3>1. n # c.acceptor
      BY <1>2, TwoEnds
    <3>2. clients' = [clients EXCEPT ![n] = [i \in DOMAIN clients[n] |-> clients[n][i]]]
      BY <2>1, <3>1 DEF ReceiveHandshake, Unheard
    <3>3. [i \in DOMAIN clients[n] |-> clients[n][i]] = clients[n]
      <4>1. clients[n] \in Seq(Unknown)
        BY DEF Unheard
      <4> QED
        BY <4>1
    <3> QED
      BY <3>2, <3>3 DEF Unheard
  <2>2. CASE ReceiveGetPeers(c, n)
    BY <2>2 DEF ReceiveGetPeers
  <2> QED
    BY <2>1, <2>2
<1> QED
  BY <1>2, <1>3, <1>4, <1>5 DEF Unheard

LEMMA DialStep == ASSUME Unheard, NEW c \in Link, Dial(c) PROVE Unheard'
<1>1. PICK p \in Port :
        backlog' = [backlog EXCEPT ![c.acceptor] =
                      Append(@, [link |-> c, port |-> p, alive |-> TRUE, known |-> FALSE])]
  BY DEF Dial
<1>2. [link |-> c, port |-> p, alive |-> TRUE, known |-> FALSE] \in Unknown
  BY DEF Unknown, Entry
<1>3. c.acceptor \in Node
  BY TwoEnds
<1>4. backlog' \in [Node -> Seq(Unknown)]
  BY <1>1, <1>2, <1>3 DEF Unheard
<1>5. clients' = clients /\ wire' = wire
  BY DEF Dial
<1> QED
  BY <1>4, <1>5 DEF Unheard

LEMMA AcceptStep == ASSUME Unheard, NEW n \in Node, Admit(n) \/ Refuse(n) PROVE Unheard'
<1> DEFINE e == Head(backlog[n])
<1>1. backlog[n] \in Seq(Unknown) /\ backlog[n] # <<>>
  BY DEF Unheard, Admit, Refuse
<1>2. e \in Unknown /\ Tail(backlog[n]) \in Seq(Unknown)
  BY <1>1
<1>3. backlog' = [backlog EXCEPT ![n] = Tail(@)]
  BY DEF Admit, Refuse
<1>4. backlog' \in [Node -> Seq(Unknown)]
  BY <1>2, <1>3 DEF Unheard
<1>5. CASE Refuse(n)
  BY <1>4, <1>5 DEF Refuse, Unheard
<1>6. CASE Admit(n)
  <2>1. clients' = [clients EXCEPT ![n] = Append(@, e)]
    BY <1>6 DEF Admit
  <2>2. clients' \in [Node -> Seq(Unknown)]
    <3>1. Append(clients[n], e) \in Seq(Unknown)
      BY <1>2 DEF Unheard
    <3> QED
      BY <2>1, <3>1 DEF Unheard
  <2>3. wire' = wire
    BY <1>6 DEF Admit
  <2> QED
    BY <1>4, <2>2, <2>3 DEF Unheard
<1> QED
  BY <1>5, <1>6

\* A HANDSHAKE goes to a dialer, too.
LEMMA GreetStep == ASSUME Unheard, NEW n \in Node, Greet(n) PROVE Unheard'
<1>1. [type |-> "HANDSHAKE"] \in Said
  BY DEF Said
<1>2. wire' = SendTo(wire, n, {Len(clients[n])}, [type |-> "HANDSHAKE"]) /\ UNCHANGED <<clients, backlog>>
  BY DEF Greet
<1>3. WireInv(wire')
  BY <1>1, <1>2, SentToDialers DEF Unheard
<1> QED
  BY <1>2, <1>3 DEF Unheard

LEMMA SwallowStep == ASSUME Unheard, NEW c \in Link, NEW n \in Node, Swallow(c, n) PROVE Unheard'
<1>1. UNCHANGED <<clients, backlog>>
  BY DEF Swallow
<1> QED
  BY <1>1, LineLost DEF Unheard

LEMMA EndStep ==
  ASSUME Unheard,
         \/ \E c \in Link : Break(c)
         \/ \E n \in Node : End(n)
  PROVE  Unheard'
<1>0. <<>> \in Seq(Unknown)
  OBVIOUS
<1>1. ASSUME NEW c \in Link, Break(c) PROVE Unheard'
  <2>1. clients' = Dead({c}, clients) /\ wire' = Silent({c}) /\ backlog' = backlog
    BY <1>1 DEF Break
  <2> QED
    BY <2>1, DeadUnknown, SilentWire DEF Unheard
<1>2. ASSUME NEW n \in Node, End(n) PROVE Unheard'
  <2> DEFINE gone == {c \in Link : n \in {c.dialer, c.acceptor} /\ link[c] \in {"dialled", "open"}}
  <2>1. /\ clients' = [Dead(gone, clients) EXCEPT ![n] = <<>>]
        /\ backlog' = [Dead(gone, backlog) EXCEPT ![n] = <<>>]
        /\ wire' = Silent(gone)
    BY <1>2 DEF End
  <2> HIDE DEF gone
  <2>2. Dead(gone, clients) \in [Node -> Seq(Unknown)] /\ Dead(gone, backlog) \in [Node -> Seq(Unknown)]
    BY DeadUnknown DEF Unheard
  <2>3. WireInv(wire')
    BY <2>1, SilentWire DEF Unheard
  <2> QED
    BY <1>0, <2>1, <2>2, <2>3 DEF Unheard
<1> QED
  BY <1>1, <1>2

LEMMA NextUnheard == Unheard /\ [Next]_vars => Unheard'
<1> SUFFICES ASSUME Unheard, [Next]_vars PROVE Unheard'
  OBVIOUS
<1>1. ASSUME NEW n \in Node, Begin(n) \/ Listen(n) PROVE Unheard'
  BY <1>1 DEF Begin, Listen, Unheard
<1>2. ASSUME NEW c \in Link, DialFails(c) PROVE Unheard'
  BY <1>2 DEF DialFails, Unheard
<1>3. CASE UNCHANGED vars
  BY <1>3 DEF vars, Unheard
<1> QED
  BY <1>1, <1>2, <1>3, PeriodicStep, HandlerStep, DialStep, AcceptStep, GreetStep, SwallowStep, EndStep DEF Next

LEMMA NobodyHeard == Spec => []Unheard
BY InitUnheard, NextUnheard, PTL DEF Spec

\* No network of this code, whatever its seeds and arguments, ever sends a list of
\* peers (broadcastPeers, broadcastPeersToAll and gossipPeers find nobody to list).
THEOREM DiscoveryNeverBegins == Spec => []NoListTravels
<1>1. Unheard => NoListTravels
  <2> SUFFICES ASSUME Unheard PROVE NoListTravels
    OBVIOUS
  <2>1. \A n \in Node : Known(n) = {}
    BY NobodyKnown
  <2>2. ASSUME NEW c \in Link, NEW n \in Node, NEW i \in DOMAIN wire[c][n]
        PROVE  wire[c][n][i].type # "PEERS_LIST"
    <3>1. wire[c][n] \in Seq(Said)
      BY DEF Unheard, WireInv
    <3>2. wire[c][n][i] \in Said
      BY <3>1
    <3> QED
      BY <3>2 DEF Said
  <2> QED
    BY <2>1, <2>2 DEF NoListTravels
<1> QED
  BY <1>1, NobodyHeard, PTL

-----------------------------------------------------------------------------
(* The lists of a node and the links it accepts. *)

\* cl and bl are the entries of node n, lk and pt say of every link what has become of
\* it and which port it has.  Entries in use are the links in use, once each; the queue
\* of the kernel holds no two with one remote address, and none that is in use.
Kept(n, cl, bl, lk, pt) ==
  /\ \A i \in DOMAIN cl : cl[i].link.acceptor = n
  /\ \A i \in DOMAIN bl : bl[i].link.acceptor = n
  /\ \A i \in DOMAIN cl : cl[i].alive => lk[cl[i].link] = "open" /\ pt[cl[i].link] = cl[i].port
  /\ \A i \in DOMAIN bl : bl[i].alive => lk[bl[i].link] = "dialled" /\ pt[bl[i].link] = bl[i].port
  /\ \A c \in Link : c.acceptor = n /\ lk[c] = "open" => \E i \in DOMAIN cl : cl[i].alive /\ cl[i].link = c
  /\ \A c \in Link : c.acceptor = n /\ lk[c] = "dialled" => \E i \in DOMAIN bl : bl[i].alive /\ bl[i].link = c
  /\ \A i, j \in DOMAIN cl : cl[i].alive /\ cl[j].alive /\ cl[i].link = cl[j].link => i = j
  /\ \A i, j \in DOMAIN bl : SamePeer(bl[i], bl[j]) => i = j
  /\ \A i \in DOMAIN cl, j \in DOMAIN bl : cl[i].alive => ~SamePeer(cl[i], bl[j])

Books == \A n \in Node : Kept(n, clients[n], backlog[n], link, port)

Typed ==
  /\ phase \in [Node -> {"down", "dialing", "up"}]
  /\ link \in [Link -> {"idle", "dialled", "open", "failed", "closed"}]
  /\ port \in [Link -> Port]
  /\ ready \in SUBSET Link
  /\ greeting \in SUBSET Node /\ overtaken \in SUBSET Link
  /\ stops \in 0..MaxStops

IInv == Unheard /\ Typed /\ Books

\* The facts about sequences that the steps need.
LEMMA Tails ==
  ASSUME NEW s \in Seq(Unknown), s # <<>>
  PROVE  /\ Len(s) \in Nat /\ DOMAIN s = 1..Len(s) /\ 1 \in DOMAIN s /\ Head(s) = s[1]
         /\ Tail(s) \in Seq(Unknown) /\ DOMAIN Tail(s) = 1..(Len(s) - 1)
         /\ \A i \in DOMAIN Tail(s) : i + 1 \in DOMAIN s /\ Tail(s)[i] = s[i + 1]
         /\ \A i \in DOMAIN s : i = 1 \/ (i - 1 \in DOMAIN Tail(s) /\ Tail(s)[i - 1] = s[i])
<1>1. Len(s) \in Nat /\ DOMAIN s = 1..Len(s) /\ Len(s) > 0 /\ Head(s) = s[1]
  OBVIOUS
<1>2. Tail(s) \in Seq(Unknown) /\ Len(Tail(s)) = Len(s) - 1 /\ \A i \in 1..(Len(s) - 1) : Tail(s)[i] = s[i + 1]
  OBVIOUS
<1>3. DOMAIN Tail(s) = 1..(Len(s) - 1)
  BY <1>2
<1> QED
  BY <1>1, <1>2, <1>3

LEMMA Appends ==
  ASSUME NEW s \in Seq(Unknown), NEW e \in Unknown
  PROVE  /\ Len(s) \in Nat /\ DOMAIN s = 1..Len(s) /\ Append(s, e) \in Seq(Unknown)
         /\ DOMAIN Append(s, e) = 1..(Len(s) + 1)
         /\ \A i \in DOMAIN s : Append(s, e)[i] = s[i]
         /\ Append(s, e)[Len(s) + 1] = e
<1>1. Append(s, e) \in Seq(Unknown) /\ Len(Append(s, e)) = Len(s) + 1
  OBVIOUS
<1>2. Len(s) \in Nat /\ DOMAIN s = 1..Len(s)
  OBVIOUS
<1> QED
  BY <1>1, <1>2

LEMMA Members ==
  ASSUME NEW s \in Seq(Unknown), NEW i \in DOMAIN s
  PROVE  s[i] \in Unknown /\ s[i].link \in Link /\ s[i].port \in Port /\ s[i].alive \in BOOLEAN
<1>1. s[i] \in Unknown
  OBVIOUS
<1> QED
  BY <1>1 DEF Unknown, Entry

LEMMA NoEntry == <<>> \in Seq(Unknown) /\ DOMAIN <<>> = {}
OBVIOUS

\* t is the list s when the links in `gone' are over.
Without(s, t, gone) ==
  /\ DOMAIN t = DOMAIN s
  /\ \A i \in DOMAIN s : /\ t[i].link = s[i].link /\ t[i].port = s[i].port
                         /\ t[i].alive <=> s[i].alive /\ s[i].link \notin gone

\* To node n, which accepts them, nothing happens but the end of the links in `gone'.
Ended(n, lk, lk2, gone) ==
  \A c \in Link : c.acceptor = n =>
    IF c \in gone THEN lk2[c] \notin {"open", "dialled"}
    ELSE lk2[c] = lk[c] \/ {lk[c], lk2[c]} \cap {"open", "dialled"} = {}

LEMMA KeptAfterEnd ==
  ASSUME NEW n \in Node, NEW gone, NEW lk, NEW lk2, NEW pt,
         NEW cl \in Seq(Unknown), NEW bl \in Seq(Unknown), NEW cl2, NEW bl2,
         Kept(n, cl, bl, lk, pt),
         Without(cl, cl2, gone), Without(bl, bl2, gone), Ended(n, lk, lk2, gone)
  PROVE  Kept(n, cl2, bl2, lk2, pt)
<1> USE DEF Without, Ended
<1>1. \A i \in DOMAIN cl : cl[i].link \in Link /\ cl[i].link.acceptor = n
  BY Members DEF Kept
<1>2. \A i \in DOMAIN bl : bl[i].link \in Link /\ bl[i].link.acceptor = n
  BY Members DEF Kept
<1>0. \A c \in Link : c.acceptor = n /\ c \notin gone /\ lk[c] \in {"open", "dialled"} => lk2[c] = lk[c]
  OBVIOUS
<1>3. /\ \A i \in DOMAIN cl2 : cl2[i].link.acceptor = n
      /\ \A i \in DOMAIN bl2 : bl2[i].link.acceptor = n
      /\ \A i \in DOMAIN cl2 : cl2[i].alive => lk2[cl2[i].link] = "open" /\ pt[cl2[i].link] = cl2[i].port
      /\ \A i \in DOMAIN bl2 : bl2[i].alive => lk2[bl2[i].link] = "dialled" /\ pt[bl2[i].link] = bl2[i].port
  BY <1>0, <1>1, <1>2 DEF Kept
<1>4. \A c \in Link : c.acceptor = n /\ lk2[c] = "open" => \E i \in DOMAIN cl2 : cl2[i].alive /\ cl2[i].link = c
  <2> SUFFICES ASSUME NEW c \in Link, c.acceptor = n, lk2[c] = "open"
               PROVE  \E i \in DOMAIN cl2 : cl2[i].alive /\ cl2[i].link = c
    OBVIOUS
  <2>1. c \notin gone /\ lk[c] = "open"
    OBVIOUS
  <2> QED
    BY <2>1 DEF Kept
<1>5. \A c \in Link : c.acceptor = n /\ lk2[c] = "dialled" => \E i \in DOMAIN bl2 : bl2[i].alive /\ bl2[i].link = c
  <2> SUFFICES ASSUME NEW c \in Link, c.acceptor = n, lk2[c] = "dialled"
               PROVE  \E i \in DOMAIN bl2 : bl2[i].alive /\ bl2[i].link = c
    OBVIOUS
  <2>1. c \notin gone /\ lk[c] = "dialled"
    OBVIOUS
  <2> QED
    BY <2>1 DEF Kept
<1>6. /\ \A i, j \in DOMAIN cl2 : cl2[i].alive /\ cl2[j].alive /\ cl2[i].link = cl2[j].link => i = j
      /\ \A i, j \in DOMAIN bl2 : SamePeer(bl2[i], bl2[j]) => i = j
      /\ \A i \in DOMAIN cl2, j \in DOMAIN bl2 : cl2[i].alive => ~SamePeer(cl2[i], bl2[j])
  BY DEF Kept, SamePeer
<1> QED
  BY <1>3, <1>4, <1>5, <1>6 DEF Kept

\* Other nodes' links change.
LEMMA KeptElsewhere ==
  ASSUME NEW n \in Node, NEW lk, NEW lk2, NEW pt, NEW pt2,
         NEW cl \in Seq(Unknown), NEW bl \in Seq(Unknown),
         Kept(n, cl, bl, lk, pt),
         \A c \in Link : c.acceptor = n => lk2[c] = lk[c] /\ pt2[c] = pt[c]
  PROVE  Kept(n, cl, bl, lk2, pt2)
<1>1. \A i \in DOMAIN cl : cl[i].link \in Link /\ cl[i].link.acceptor = n
  BY Members DEF Kept
<1>2. \A i \in DOMAIN bl : bl[i].link \in Link /\ bl[i].link.acceptor = n
  BY Members DEF Kept
<1> QED
  BY <1>1, <1>2 DEF Kept

\* A new call is queued.
Dialled(e, lk, lk2, pt, pt2) ==
  /\ lk[e.link] = "idle" /\ lk2[e.link] = "dialled" /\ pt2[e.link] = e.port
  /\ \A c \in Link : c # e.link => lk2[c] = lk[c] /\ pt2[c] = pt[c]

LEMMA KeptDialled ==
  ASSUME NEW n \in Node, NEW lk, NEW lk2, NEW pt, NEW pt2,
         NEW cl \in Seq(Unknown), NEW bl \in Seq(Unknown), NEW e \in Unknown,
         Kept(n, cl, bl, lk, pt),
         e.alive, e.link.acceptor = n, Dialled(e, lk, lk2, pt, pt2),
         \A i \in DOMAIN cl : cl[i].alive => ~SamePeer(cl[i], e),
         \A i \in DOMAIN bl : ~SamePeer(bl[i], e)
  PROVE  Kept(n, cl, Append(bl, e), lk2, pt2)
<1> USE DEF Dialled
<1> DEFINE bl2 == Append(bl, e)
           k == Len(bl)
<1>1. /\ k \in Nat /\ DOMAIN bl = 1..k /\ DOMAIN bl2 = 1..(k + 1)
      /\ \A i \in DOMAIN bl : bl2[i] = bl[i]
      /\ bl2[k + 1] = e
  BY Appends
<1>2. \A j \in DOMAIN bl2 : j = k + 1 \/ j \in DOMAIN bl
  BY <1>1
<1>2a. \A j \in DOMAIN bl : j \in DOMAIN bl2 /\ bl2[j] = bl[j]
  BY <1>1
<1>2b. k + 1 \in DOMAIN bl2 /\ e.link \in Link
  BY <1>1 DEF Unknown, Entry
<1>3. \A i \in DOMAIN cl : cl[i].link \in Link
  BY Members
<1>4. \A i \in DOMAIN bl : bl[i].link \in Link
  BY Members
<1>5. /\ \A i \in DOMAIN cl : cl[i].alive => cl[i].link # e.link
      /\ \A i \in DOMAIN bl : bl[i].alive => bl[i].link # e.link
  BY DEF Kept
<1> HIDE DEF bl2, k
<1>6. /\ \A i \in DOMAIN cl : cl[i].alive => lk2[cl[i].link] = "open" /\ pt2[cl[i].link] = cl[i].port
      /\ \A c \in Link : c.acceptor = n /\ lk2[c] = "open" => \E i \in DOMAIN cl : cl[i].alive /\ cl[i].link = c
  BY <1>3, <1>5 DEF Kept
<1>7. \A i \in DOMAIN bl2 : bl2[i].link.acceptor = n
  BY <1>1, <1>2 DEF Kept
<1>8. \A i \in DOMAIN bl2 : bl2[i].alive => lk2[bl2[i].link] = "dialled" /\ pt2[bl2[i].link] = bl2[i].port
  BY <1>1, <1>2, <1>4, <1>5 DEF Kept
<1>9. \A c \in Link : c.acceptor = n /\ lk2[c] = "dialled" => \E i \in DOMAIN bl2 : bl2[i].alive /\ bl2[i].link = c
  <2> SUFFICES ASSUME NEW c \in Link, c.acceptor = n, lk2[c] = "dialled"
               PROVE  \E i \in DOMAIN bl2 : bl2[i].alive /\ bl2[i].link = c
    OBVIOUS
  <2>1. CASE c = e.link
    BY <1>1, <1>2b, <2>1
  <2>2. CASE c # e.link
    <3>1. lk[c] = "dialled"
      BY <2>2
    <3> QED
      BY <1>2a, <3>1 DEF Kept
  <2> QED
    BY <2>1, <2>2
<1>10. \A i, j \in DOMAIN bl2 : SamePeer(bl2[i], bl2[j]) => i = j
  BY <1>1, <1>2 DEF Kept, SamePeer
<1>11. \A i \in DOMAIN cl, j \in DOMAIN bl2 : cl[i].alive => ~SamePeer(cl[i], bl2[j])
  BY <1>1, <1>2 DEF Kept
<1> QED
  BY <1>6, <1>7, <1>8, <1>9, <1>10, <1>11 DEF Kept, bl2

\* The first entry of the queue is taken off it, and what was its link is another's or closed.
LEMMA KeptRefused ==
  ASSUME NEW n \in Node, NEW lk, NEW lk2, NEW pt,
         NEW cl \in Seq(Unknown), NEW bl \in Seq(Unknown), bl # <<>>,
         Kept(n, cl, bl, lk, pt),
         Head(bl).alive => lk2[Head(bl).link] = "closed",
         \A c \in Link : (Head(bl).alive /\ c = Head(bl).link) \/ lk2[c] = lk[c]
  PROVE  Kept(n, cl, Tail(bl), lk2, pt)
<1> DEFINE bl2 == Tail(bl)
           e == bl[1]
<1>1. /\ 1 \in DOMAIN bl /\ Head(bl) = e /\ DOMAIN bl \subseteq Nat
      /\ \A i \in DOMAIN bl2 : i + 1 \in DOMAIN bl /\ i \in Nat /\ i # 0 /\ bl2[i] = bl[i + 1]
      /\ \A i \in DOMAIN bl : i = 1 \/ (i - 1 \in DOMAIN bl2 /\ bl2[i - 1] = bl[i])
  BY Tails
<1>2. \A i \in DOMAIN cl : cl[i].link \in Link
  BY Members
<1>3. \A i \in DOMAIN bl : bl[i].link \in Link
  BY Members
<1>4. \A i \in DOMAIN cl : cl[i].alive => ~(e.alive /\ cl[i].link = e.link)
  BY <1>1 DEF Kept
<1>5. \A i \in DOMAIN bl : bl[i].alive /\ i # 1 => ~(e.alive /\ bl[i].link = e.link)
  BY <1>1 DEF Kept, SamePeer
<1>5a. \A c \in Link : (e.alive /\ c = e.link) \/ lk2[c] = lk[c]
  BY <1>1
<1> HIDE DEF bl2, e
<1>6. /\ \A i \in DOMAIN cl : cl[i].alive => lk2[cl[i].link] = "open" /\ pt[cl[i].link] = cl[i].port
      /\ \A c \in Link : c.acceptor = n /\ lk2[c] = "open" => \E i \in DOMAIN cl : cl[i].alive /\ cl[i].link = c
  BY <1>2, <1>4, <1>5a DEF Kept
<1>7. \A i \in DOMAIN bl2 : i + 1 \in DOMAIN bl /\ i + 1 # 1 /\ bl2[i] = bl[i + 1]
  BY <1>1
<1>8. \A i \in DOMAIN bl2 :
        /\ bl2[i].link.acceptor = n
        /\ bl2[i].alive => lk2[bl2[i].link] = "dialled" /\ pt[bl2[i].link] = bl2[i].port
  <2> SUFFICES ASSUME NEW i \in DOMAIN bl2
               PROVE  /\ bl2[i].link.acceptor = n
                      /\ bl2[i].alive => lk2[bl2[i].link] = "dialled" /\ pt[bl2[i].link] = bl2[i].port
    OBVIOUS
  <2>1. PICK j \in DOMAIN bl : j # 1 /\ bl2[i] = bl[j]
    BY <1>7
  <2> QED
    BY <1>3, <1>5, <1>5a, <2>1 DEF Kept
<1>9. \A c \in Link : c.acceptor = n /\ lk2[c] = "dialled" => \E i \in DOMAIN bl2 : bl2[i].alive /\ bl2[i].link = c
  <2> SUFFICES ASSUME NEW c \in Link, c.acceptor = n, lk2[c] = "dialled"
               PROVE  \E i \in DOMAIN bl2 : bl2[i].alive /\ bl2[i].link = c
    OBVIOUS
  <2>1. ~(e.alive /\ c = e.link) /\ lk[c] = "dialled"
    BY <1>1, <1>5a
  <2>2. PICK j \in DOMAIN bl : bl[j].alive /\ bl[j].link = c
    BY <2>1 DEF Kept
  <2>3. j # 1
    BY <2>1, <2>2 DEF e
  <2> QED
    BY <1>1, <2>2, <2>3
<1>10. \A i, j \in DOMAIN bl2 : SamePeer(bl2[i], bl2[j]) => i = j
  <2> SUFFICES ASSUME NEW i \in DOMAIN bl2, NEW j \in DOMAIN bl2, SamePeer(bl2[i], bl2[j]) PROVE i = j
    OBVIOUS
  <2>1. i + 1 = j + 1
    BY <1>7 DEF Kept
  <2> QED
    BY <1>1, <2>1
<1>11. \A i \in DOMAIN cl, j \in DOMAIN bl2 : cl[i].alive => ~SamePeer(cl[i], bl2[j])
  BY <1>7 DEF Kept
<1> QED
  BY <1>6, <1>8, <1>9, <1>10, <1>11 DEF Kept, bl2

\* ... or is entered in clients_.
LEMMA KeptAdmitted ==
  ASSUME NEW n \in Node, NEW lk, NEW lk2, NEW pt,
         NEW cl \in Seq(Unknown), NEW bl \in Seq(Unknown), bl # <<>>,
         Kept(n, cl, bl, lk, pt),
         Head(bl).alive => lk2[Head(bl).link] = "open",
         \A c \in Link : (Head(bl).alive /\ c = Head(bl).link) \/ lk2[c] = lk[c]
  PROVE  Kept(n, Append(cl, Head(bl)), Tail(bl), lk2, pt)
<1> DEFINE bl2 == Tail(bl)
           e == Head(bl)
           cl2 == Append(cl, e)
           k == Len(cl)
<1>1. /\ 1 \in DOMAIN bl /\ e = bl[1]
      /\ \A i \in DOMAIN bl2 : i + 1 \in DOMAIN bl /\ i \in Nat /\ i # 0 /\ bl2[i] = bl[i + 1]
      /\ \A i \in DOMAIN bl : i = 1 \/ (i - 1 \in DOMAIN bl2 /\ bl2[i - 1] = bl[i])
  BY Tails
<1>2. e \in Unknown /\ e.link \in Link /\ e.link.acceptor = n
  BY <1>1, Members DEF Kept
<1>3. /\ k \in Nat /\ DOMAIN cl = 1..k /\ DOMAIN cl2 = 1..(k + 1)
      /\ \A i \in DOMAIN cl : cl2[i] = cl[i]
      /\ cl2[k + 1] = e
  BY <1>2, Appends
<1>4. \A i \in DOMAIN cl2 : i = k + 1 \/ i \in DOMAIN cl
  BY <1>3
<1>5. \A i \in DOMAIN cl : i \in DOMAIN cl2 /\ cl2[i] = cl[i] /\ i # k + 1
  BY <1>3
<1>6. k + 1 \in DOMAIN cl2 /\ cl2[k + 1] = e
  BY <1>3
<1>7. \A i \in DOMAIN cl : cl[i].link \in Link
  BY Members
<1>8. \A i \in DOMAIN bl : bl[i].link \in Link
  BY Members
<1>9. e.alive => /\ lk[e.link] = "dialled" /\ lk2[e.link] = "open" /\ pt[e.link] = e.port
                 /\ \A i \in DOMAIN cl : cl[i].alive => cl[i].link # e.link
                 /\ \A i \in DOMAIN bl : bl[i].alive /\ i # 1 => bl[i].link # e.link
  BY <1>1 DEF Kept, SamePeer
<1> HIDE DEF bl2, e, cl2, k
<1>10. \A i \in DOMAIN bl2 : i + 1 \in DOMAIN bl /\ i + 1 # 1 /\ bl2[i] = bl[i + 1]
  BY <1>1
<1>11. \A c \in Link : (e.alive /\ c = e.link) \/ lk2[c] = lk[c]
  BY DEF e
<1>12. \A i \in DOMAIN cl2 :
         /\ cl2[i].link.acceptor = n
         /\ cl2[i].alive => lk2[cl2[i].link] = "open" /\ pt[cl2[i].link] = cl2[i].port
  <2>1. ASSUME NEW i \in DOMAIN cl
        PROVE  cl[i].link.acceptor = n /\ (cl[i].alive => lk2[cl[i].link] = "open" /\ pt[cl[i].link] = cl[i].port)
    BY <1>7, <1>9, <1>11 DEF Kept
  <2> QED
    BY <1>2, <1>4, <1>5, <1>6, <1>9, <2>1
<1>13. \A i \in DOMAIN bl2 :
         /\ bl2[i].link.acceptor = n
         /\ bl2[i].alive => lk2[bl2[i].link] = "dialled" /\ pt[bl2[i].link] = bl2[i].port
  <2> SUFFICES ASSUME NEW i \in DOMAIN bl2
               PROVE  /\ bl2[i].link.acceptor = n
                      /\ bl2[i].alive => lk2[bl2[i].link] = "dialled" /\ pt[bl2[i].link] = bl2[i].port
    OBVIOUS
  <2>1. PICK j \in DOMAIN bl : j # 1 /\ bl2[i] = bl[j]
    BY <1>10
  <2> QED
    BY <1>8, <1>9, <1>11, <2>1 DEF Kept
<1>14. \A c \in Link : c.acceptor = n /\ lk2[c] = "open" => \E i \in DOMAIN cl2 : cl2[i].alive /\ cl2[i].link = c
  <2> SUFFICES ASSUME NEW c \in Link, c.acceptor = n, lk2[c] = "open"
               PROVE  \E i \in DOMAIN cl2 : cl2[i].alive /\ cl2[i].link = c
    OBVIOUS
  <2>1. CASE e.alive /\ c = e.link
    BY <1>6, <2>1
  <2>2. CASE lk2[c] = lk[c]
    BY <1>5, <2>2 DEF Kept
  <2> QED
    BY <1>11, <2>1, <2>2
<1>15. \A c \in Link : c.acceptor = n /\ lk2[c] = "dialled" => \E i \in DOMAIN bl2 : bl2[i].alive /\ bl2[i].link = c
  <2> SUFFICES ASSUME NEW c \in Link, c.acceptor = n, lk2[c] = "dialled"
               PROVE  \E i \in DOMAIN bl2 : bl2[i].alive /\ bl2[i].link = c
    OBVIOUS
  <2>1. ~(e.alive /\ c = e.link) /\ lk[c] = "dialled"
    BY <1>9, <1>11
  <2>2. PICK j \in DOMAIN bl : bl[j].alive /\ bl[j].link = c
    BY <2>1 DEF Kept
  <2>3. j # 1
    BY <1>1, <2>1, <2>2
  <2> QED
    BY <1>1, <2>2, <2>3
<1>16. \A i, j \in DOMAIN cl2 : cl2[i].alive /\ cl2[j].alive /\ cl2[i].link = cl2[j].link => i = j
  BY <1>4, <1>5, <1>6, <1>9 DEF Kept
<1>17. \A i, j \in DOMAIN bl2 : SamePeer(bl2[i], bl2[j]) => i = j
  <2> SUFFICES ASSUME NEW i \in DOMAIN bl2, NEW j \in DOMAIN bl2, SamePeer(bl2[i], bl2[j]) PROVE i = j
    OBVIOUS
  <2>1. i + 1 = j + 1
    BY <1>10 DEF Kept
  <2> QED
    BY <1>1, <2>1
<1>18. \A i \in DOMAIN cl2, j \in DOMAIN bl2 : cl2[i].alive => ~SamePeer(cl2[i], bl2[j])
  <2>1. ASSUME NEW j \in DOMAIN bl2 PROVE ~SamePeer(e, bl2[j])
    BY <1>1, <1>10 DEF Kept
  <2>2. ASSUME NEW i \in DOMAIN cl, NEW j \in DOMAIN bl2, cl[i].alive PROVE ~SamePeer(cl[i], bl2[j])
    BY <1>10, <2>2 DEF Kept
  <2> QED
    BY <1>4, <1>5, <1>6, <2>1, <2>2
<1> QED
  BY <1>12, <1>13, <1>14, <1>15, <1>16, <1>17, <1>18 DEF Kept, cl2, bl2, e

-----------------------------------------------------------------------------
(* Steps, once more. *)

LEMMA InitBooks == Init => Typed /\ Books
<1> SUFFICES ASSUME Init PROVE Typed /\ Books
  OBVIOUS
<1>1. PICK p \in Port : port = [c \in Link |-> p]
  BY DEF Init
<1>2. Typed
  BY <1>1, AddressAssumption DEF Init, Typed
<1>3. Books
  BY NoEntry DEF Init, Books, Kept
<1> QED
  BY <1>2, <1>3

LEMMA HeadEntry ==
  ASSUME Unheard, NEW n \in Node, backlog[n] # <<>>
  PROVE  /\ backlog[n] \in Seq(Unknown) /\ clients[n] \in Seq(Unknown)
         /\ Head(backlog[n]) \in Unknown /\ Head(backlog[n]).link \in Link
         /\ 1 \in DOMAIN backlog[n] /\ Head(backlog[n]) = backlog[n][1]
<1>1. backlog[n] \in Seq(Unknown) /\ clients[n] \in Seq(Unknown)
  BY DEF Unheard
<1> QED
  BY <1>1, Tails, Members

LEMMA NextTyped == ASSUME Unheard, Typed, [Next]_vars PROVE Typed'
<1>1. ASSUME NEW n \in Node, Begin(n) \/ Listen(n) PROVE Typed'
  BY <1>1 DEF Begin, Listen, Typed
<1>2. ASSUME NEW n \in Node, End(n) PROVE Typed'
  BY <1>2, AddressAssumption DEF End, Typed
<1>3. ASSUME NEW n \in Node, Admit(n) \/ Refuse(n) PROVE Typed'
  <2>1. backlog[n] # <<>>
    BY <1>3 DEF Admit, Refuse
  <2>2. Head(backlog[n]).link \in Link
    BY <2>1, HeadEntry
  <2>3. UNCHANGED <<phase, port, ready, overtaken, stops>> /\ greeting' \subseteq greeting \cup {n}
    BY <1>3 DEF Admit, Refuse
  <2>4. link' = link \/ \E fate \in {"open", "closed"} : link' = [link EXCEPT ![Head(backlog[n]).link] = fate]
    BY <1>3 DEF Admit, Refuse
  <2> QED
    BY <2>2, <2>3, <2>4 DEF Typed
<1>4. ASSUME NEW n \in Node, RequestPeers(n) \/ PeriodicPeers(n) \/ Gossip(n) PROVE Typed'
  BY <1>4 DEF RequestPeers, PeriodicPeers, Gossip, Send, Typed
<1>5. ASSUME NEW c \in Link, Dial(c) PROVE Typed'
  BY <1>5 DEF Dial, Typed
<1>6. ASSUME NEW c \in Link, DialFails(c) \/ Break(c) PROVE Typed'
  BY <1>6 DEF DialFails, Break, Typed
<1>7. ASSUME NEW c \in Link, NEW n \in Node, ReceiveHandshake(c, n) \/ ReceiveGetPeers(c, n) PROVE Typed'
  BY <1>7 DEF ReceiveHandshake, ReceiveGetPeers, Typed
<1>8. ASSUME NEW n \in Node, Greet(n) PROVE Typed'
  BY <1>8 DEF Greet, Typed
<1>9. ASSUME NEW c \in Link, NEW n \in Node, Swallow(c, n) PROVE Typed'
  BY <1>9 DEF Swallow, Typed
<1>10. CASE UNCHANGED vars
  BY <1>10 DEF vars, Typed
<1> QED
  BY <1>1, <1>2, <1>3, <1>4, <1>5, <1>6, <1>7, <1>8, <1>9, <1>10 DEF Next

\* Disconnecting changes nothing but who is still there.
LEMMA DeadEntries ==
  ASSUME NEW gone, NEW entries \in [Node -> Seq(Unknown)], NEW n \in Node
  PROVE  Without(entries[n], Dead(gone, entries)[n], gone)
<1>1. Dead(gone, entries)[n] =
        [i \in DOMAIN entries[n] |-> IF entries[n][i].link \in gone
                                     THEN [entries[n][i] EXCEPT !.alive = FALSE] ELSE entries[n][i]]
  BY DEF Dead
<1>2. ASSUME NEW e \in Unknown
      PROVE  /\ [e EXCEPT !.alive = FALSE].link = e.link
             /\ [e EXCEPT !.alive = FALSE].port = e.port
             /\ ~[e EXCEPT !.alive = FALSE].alive
  BY DEF Unknown, Entry
<1>3. \A i \in DOMAIN entries[n] : entries[n][i] \in Unknown
  BY Members
<1> QED
  BY <1>1, <1>2, <1>3 DEF Without

LEMMA DialBooks == ASSUME IInv, NEW c \in Link, Dial(c) PROVE Books'
<1>1. PICK p \in Port \ Taken(c.dialer, c.acceptor) :
        /\ port' = [port EXCEPT ![c] = p]
        /\ backlog' = [backlog EXCEPT ![c.acceptor] =
                         Append(@, [link |-> c, port |-> p, alive |-> TRUE, known |-> FALSE])]
  BY DEF Dial
<1>2. link[c] = "idle" /\ link' = [link EXCEPT ![c] = "dialled"] /\ clients' = clients
  BY DEF Dial, CanDial
<1> DEFINE m == c.acceptor
           e == [link |-> c, port |-> p, alive |-> TRUE, known |-> FALSE]
<1>3. m \in Node /\ c.dialer \in Node
  BY TwoEnds
<1>4. e \in Unknown /\ e.link = c /\ e.port = p /\ e.alive
  BY DEF Unknown, Entry
<1>5. clients[m] \in Seq(Unknown) /\ backlog[m] \in Seq(Unknown) /\ Kept(m, clients[m], backlog[m], link, port)
  BY <1>3 DEF IInv, Unheard, Books
<1>6. \A d \in Link : d # c => link'[d] = link[d] /\ port'[d] = port[d]
  BY <1>1, <1>2 DEF IInv, Typed
<1>7. link'[c] = "dialled" /\ port'[c] = p
  BY <1>1, <1>2 DEF IInv, Typed
<1>8. \A i \in DOMAIN backlog[m] : ~SamePeer(backlog[m][i], e)
  BY <1>1, <1>4 DEF Taken, SamePeer
<1>9. \A i \in DOMAIN clients[m] : clients[m][i].alive => ~SamePeer(clients[m][i], e)
  <2> SUFFICES ASSUME NEW i \in DOMAIN clients[m], clients[m][i].alive, SamePeer(clients[m][i], e) PROVE FALSE
    OBVIOUS
  <2>1. clients[m][i].link \in Link /\ clients[m][i].link.acceptor = m
    BY <1>5, Members DEF Kept
  <2>2. link[clients[m][i].link] = "open" /\ port[clients[m][i].link] = p
    BY <1>4, <1>5 DEF Kept, SamePeer
  <2>3. Host[clients[m][i].link.dialer] = Host[c.dialer]
    BY <1>4 DEF SamePeer
  <2> QED
    BY <1>1, <2>1, <2>2, <2>3 DEF Taken
<1>10. ASSUME NEW n \in Node PROVE Kept(n, clients'[n], backlog'[n], link', port')
  <2>1. CASE n = m
    <3>1. backlog'[m] = Append(backlog[m], e)
      BY <1>1, <1>3 DEF IInv, Unheard
    <3> HIDE DEF m, e
    <3>2. e.link.acceptor = m
      BY <1>4 DEF m
    <3>3. Dialled(e, link, link', port, port')
      BY <1>2, <1>4, <1>6, <1>7 DEF Dialled
    <3>4. Kept(m, clients[m], Append(backlog[m], e), link', port')
      BY <1>3, <1>4, <1>5, <1>8, <1>9, <3>2, <3>3, KeptDialled
    <3> QED
      BY <1>2, <2>1, <3>1, <3>4
  <2>2. CASE n # m
    <3>1. backlog'[n] = backlog[n] /\ clients'[n] = clients[n]
      BY <1>1, <1>2, <2>2 DEF IInv, Unheard
    <3>2. clients[n] \in Seq(Unknown) /\ backlog[n] \in Seq(Unknown) /\ Kept(n, clients[n], backlog[n], link, port)
      BY DEF IInv, Unheard, Books
    <3>3. \A d \in Link : d.acceptor = n => link'[d] = link[d] /\ port'[d] = port[d]
      BY <1>6, <2>2
    <3> QED
      BY <3>1, <3>2, <3>3, KeptElsewhere
  <2> QED
    BY <2>1, <2>2
<1> QED
  BY <1>10 DEF Books

\* A call that fails leaves no trace at the other side.
LEMMA DialFailsBooks == ASSUME IInv, NEW c \in Link, DialFails(c) PROVE Books'
<1>1. link[c] = "idle" /\ link' = [link EXCEPT ![c] = "failed"] /\ UNCHANGED <<clients, backlog, port>>
  BY DEF DialFails, CanDial
<1>2. \A d \in Link : link'[d] = link[d] \/ {link[d], link'[d]} \cap {"open", "dialled"} = {}
  BY <1>1 DEF IInv, Typed
<1>3. ASSUME NEW n \in Node PROVE Kept(n, clients[n], backlog[n], link', port)
  <2>1. clients[n] \in Seq(Unknown) /\ backlog[n] \in Seq(Unknown) /\ Kept(n, clients[n], backlog[n], link, port)
    BY DEF IInv, Unheard, Books
  <2>2. Without(clients[n], clients[n], {}) /\ Without(backlog[n], backlog[n], {})
    BY <2>1, Members DEF Without
  <2>3. Ended(n, link, link', {})
    BY <1>2 DEF Ended
  <2> QED
    BY <2>1, <2>2, <2>3, KeptAfterEnd
<1> QED
  BY <1>1, <1>3 DEF Books

LEMMA AcceptBooks == ASSUME IInv, NEW n \in Node, Admit(n) \/ Refuse(n) PROVE Books'
<1> DEFINE e == Head(backlog[n])
<1>1. backlog[n] # <<>> /\ backlog' = [backlog EXCEPT ![n] = Tail(@)] /\ port' = port
  BY DEF Admit, Refuse
<1>2. /\ backlog[n] \in Seq(Unknown) /\ clients[n] \in Seq(Unknown)
      /\ e \in Unknown /\ e.link \in Link /\ e.link.acceptor = n
  BY <1>1, HeadEntry DEF IInv, Books, Kept
<1>3. Kept(n, clients[n], backlog[n], link, port)
  BY DEF IInv, Books
<1>4. \A d \in Link : (e.alive /\ d = e.link) \/ link'[d] = link[d]
  BY <1>2 DEF Admit, Refuse, IInv, Typed
<1>5. backlog'[n] = Tail(backlog[n])
  BY <1>1 DEF IInv, Unheard
<1>6. Kept(n, clients'[n], backlog'[n], link', port')
  <2>1. CASE Admit(n)
    <3>1. clients'[n] = Append(clients[n], e)
      BY <2>1 DEF Admit, IInv, Unheard
    <3>2. e.alive => link'[e.link] = "open"
      BY <1>2, <2>1 DEF Admit, IInv, Typed
    <3> QED
      BY <1>1, <1>2, <1>3, <1>4, <1>5, <3>1, <3>2, KeptAdmitted
  <2>2. CASE Refuse(n)
    <3>1. clients'[n] = clients[n]
      BY <2>2 DEF Refuse
    <3>2. e.alive => link'[e.link] = "closed"
      BY <1>2, <2>2 DEF Refuse, IInv, Typed
    <3> QED
      BY <1>1, <1>2, <1>3, <1>4, <1>5, <3>1, <3>2, KeptRefused
  <2> QED
    BY <2>1, <2>2
<1>7. ASSUME NEW m \in Node, m # n PROVE Kept(m, clients'[m], backlog'[m], link', port')
  <2>1. clients'[m] = clients[m] /\ backlog'[m] = backlog[m]
    BY <1>1, <1>7 DEF Admit, Refuse, IInv, Unheard
  <2>2. clients[m] \in Seq(Unknown) /\ backlog[m] \in Seq(Unknown) /\ Kept(m, clients[m], backlog[m], link, port)
    BY DEF IInv, Unheard, Books
  <2>3. \A d \in Link : d.acceptor = m => link'[d] = link[d] /\ port'[d] = port[d]
    BY <1>1, <1>2, <1>4, <1>7
  <2> QED
    BY <2>1, <2>2, <2>3, KeptElsewhere
<1> QED
  BY <1>6, <1>7 DEF Books

LEMMA BreakBooks == ASSUME IInv, NEW c \in Link, Break(c) PROVE Books'
<1>1. /\ link[c] = "open" /\ link' = [link EXCEPT ![c] = "closed"]
      /\ clients' = Dead({c}, clients) /\ backlog' = backlog /\ port' = port
  BY DEF Break
<1>2. link'[c] = "closed" /\ \A d \in Link : d # c => link'[d] = link[d]
  BY <1>1 DEF IInv, Typed
<1>3. ASSUME NEW n \in Node PROVE Kept(n, clients'[n], backlog[n], link', port)
  <2>1. clients[n] \in Seq(Unknown) /\ backlog[n] \in Seq(Unknown) /\ Kept(n, clients[n], backlog[n], link, port)
    BY DEF IInv, Unheard, Books
  <2>2. Without(backlog[n], backlog[n], {c})
    <3>1. \A i \in DOMAIN backlog[n] : backlog[n][i].alive => backlog[n][i].link # c
      BY <1>1, <2>1 DEF Kept
    <3> QED
      BY <2>1, <3>1, Members DEF Without
  <2>3. Ended(n, link, link', {c})
    BY <1>2 DEF Ended
  <2>4. Without(clients[n], clients'[n], {c})
    BY <1>1, DeadEntries DEF IInv, Unheard
  <2> QED
    BY <2>1, <2>2, <2>3, <2>4, KeptAfterEnd
<1> QED
  BY <1>1, <1>3 DEF Books

LEMMA EndBooks == ASSUME IInv, NEW n \in Node, End(n) PROVE Books'
<1> DEFINE gone == {c \in Link : n \in {c.dialer, c.acceptor} /\ link[c] \in {"dialled", "open"}}
<1>1. /\ link' = [c \in Link |-> IF c.dialer = n THEN "idle" ELSE IF c \in gone THEN "closed" ELSE link[c]]
      /\ clients' = [Dead(gone, clients) EXCEPT ![n] = <<>>]
      /\ backlog' = [Dead(gone, backlog) EXCEPT ![n] = <<>>]
      /\ port' = port
  BY DEF End
<1>2. clients \in [Node -> Seq(Unknown)] /\ backlog \in [Node -> Seq(Unknown)]
  BY DEF IInv, Unheard
<1>3. \A c \in gone : n \in {c.dialer, c.acceptor} /\ link'[c] \in {"idle", "closed"}
  BY <1>1
<1>4. \A c \in Link \ gone : IF c.dialer = n THEN link'[c] = "idle" /\ link[c] \notin {"dialled", "open"}
                             ELSE link'[c] = link[c] /\ (c.acceptor = n => link[c] \notin {"dialled", "open"})
  BY <1>1
<1> HIDE DEF gone
<1>5. Kept(n, clients'[n], backlog'[n], link', port')
  <2>1. clients'[n] = <<>> /\ backlog'[n] = <<>>
    BY <1>1, <1>2 DEF Dead
  <2>2. \A c \in Link : c.acceptor = n => link'[c] \notin {"dialled", "open"}
    BY <1>3, <1>4
  <2> QED
    BY <2>1, <2>2, NoEntry DEF Kept
<1>6. ASSUME NEW m \in Node, m # n PROVE Kept(m, clients'[m], backlog'[m], link', port)
  <2>1. clients'[m] = Dead(gone, clients)[m] /\ backlog'[m] = Dead(gone, backlog)[m]
    BY <1>1, <1>6 DEF Dead
  <2>2. clients[m] \in Seq(Unknown) /\ backlog[m] \in Seq(Unknown) /\ Kept(m, clients[m], backlog[m], link, port)
    BY <1>2 DEF IInv, Books
  <2>3. Without(clients[m], clients'[m], gone) /\ Without(backlog[m], backlog'[m], gone)
    BY <1>2, <2>1, DeadEntries
  <2>4. Ended(m, link, link', gone)
    BY <1>3, <1>4, <1>6 DEF Ended
  <2> QED
    BY <2>2, <2>3, <2>4, KeptAfterEnd
<1> QED
  BY <1>1, <1>5, <1>6 DEF Books

LEMMA NextIInv == IInv /\ [Next]_vars => IInv'
<1> SUFFICES ASSUME IInv, [Next]_vars PROVE IInv'
  OBVIOUS
<1>1. Unheard' /\ Typed'
  BY NextUnheard, NextTyped DEF IInv
<1>2. ASSUME UNCHANGED <<link, port, clients, backlog>> PROVE Books'
  BY <1>2 DEF IInv, Books
<1>3. ASSUME NEW n \in Node,
             \/ Begin(n) \/ Listen(n) \/ Greet(n)
             \/ RequestPeers(n) \/ PeriodicPeers(n) \/ Gossip(n)
      PROVE  Books'
  BY <1>2, <1>3 DEF Begin, Listen, Greet, RequestPeers, PeriodicPeers, Gossip, Send
<1>4. ASSUME NEW c \in Link, NEW n \in Node, ReceiveHandshake(c, n) \/ ReceiveGetPeers(c, n) PROVE Books'
  <2>1. clients' = clients
    BY <1>4, HandlerStep DEF IInv
  <2> QED
    BY <1>2, <1>4, <2>1 DEF ReceiveHandshake, ReceiveGetPeers
<1>5. ASSUME UNCHANGED vars PROVE Books'
  BY <1>2, <1>5 DEF vars
<1>6. ASSUME NEW n \in Node, Admit(n) \/ Refuse(n) \/ End(n) PROVE Books'
  BY <1>6, AcceptBooks, EndBooks
<1>7. ASSUME NEW c \in Link, Dial(c) \/ DialFails(c) \/ Break(c) PROVE Books'
  BY <1>7, DialBooks, DialFailsBooks, BreakBooks
<1>7a. ASSUME NEW c \in Link, NEW n \in Node, Swallow(c, n) PROVE Books'
  BY <1>2, <1>7a DEF Swallow
<1>8. Books'
  BY <1>3, <1>4, <1>5, <1>6, <1>7, <1>7a DEF Next
<1> QED
  BY <1>1, <1>8 DEF IInv

LEMMA Invariance == Spec => []IInv
<1>1. Init => IInv
  BY InitUnheard, InitBooks DEF IInv
<1> QED
  BY <1>1, NextIInv, PTL DEF Spec

-----------------------------------------------------------------------------
(* Overlay implements Links. *)

barLink ==
  [c \in Link |-> IF link[c] = "dialled" THEN "idle" ELSE IF link[c] = "failed" THEN "closed" ELSE link[c]]
Shown(s) == [i \in DOMAIN s |-> IF s[i].alive THEN s[i].link ELSE None]
barClients == [n \in Node |-> Shown(clients[n])]

L == INSTANCE Links WITH
  Dialer <- [c \in Link |-> c.dialer], Acceptor <- [c \in Link |-> c.acceptor],
  link <- barLink, clients <- barClients

\* Entering a connection, and the end of links, as Links sees them.
LEMMA ShownAppend ==
  ASSUME NEW s \in Seq(Unknown), NEW e \in Unknown
  PROVE  Shown(Append(s, e)) = Append(Shown(s), IF e.alive THEN e.link ELSE None)
<1> DEFINE x == IF e.alive THEN e.link ELSE None
           t == Shown(s)
<1>1. /\ Len(s) \in Nat /\ DOMAIN s = 1..Len(s)
      /\ DOMAIN Append(s, e) = 1..(Len(s) + 1)
      /\ \A i \in DOMAIN s : Append(s, e)[i] = s[i]
      /\ Append(s, e)[Len(s) + 1] = e
  BY Appends
<1>2. x \in Link \cup {None}
  BY DEF Unknown, Entry
<1>3. \A i \in 1..Len(s) : t[i] \in Link \cup {None}
  BY <1>1, Members DEF Shown
<1>4. t = [i \in 1..Len(s) |-> t[i]]
  BY <1>1 DEF Shown
<1> HIDE DEF x, t
<1>5. t \in Seq(Link \cup {None}) /\ Len(t) = Len(s)
  BY <1>1, <1>3, <1>4, IsASeq
<1>6. /\ DOMAIN Append(t, x) = 1..(Len(s) + 1)
      /\ \A i \in 1..Len(s) : Append(t, x)[i] = t[i]
      /\ Append(t, x)[Len(s) + 1] = x
      /\ Append(t, x) \in Seq(Link \cup {None})
  BY <1>1, <1>2, <1>5
<1>7. Shown(Append(s, e)) = [i \in 1..(Len(s) + 1) |-> IF i = Len(s) + 1 THEN x ELSE t[i]]
  BY <1>1 DEF Shown, t, x
<1>8. Append(t, x) = [i \in 1..(Len(s) + 1) |-> Append(t, x)[i]]
  <2>1. Append(t, x) \in [1..Len(Append(t, x)) -> Link \cup {None}]
    BY <1>6, LenProperties
  <2>2. 1..Len(Append(t, x)) = 1..(Len(s) + 1)
    BY <1>6, <2>1
  <2> QED
    BY <2>1, <2>2
<1>9. Append(t, x) = [i \in 1..(Len(s) + 1) |-> IF i = Len(s) + 1 THEN x ELSE t[i]]
  BY <1>1, <1>6, <1>8
<1> QED
  BY <1>7, <1>9 DEF x, t

\* What Links makes of a list when links are over.
Shut(shown, over) == [i \in DOMAIN shown |-> IF shown[i] \in over THEN None ELSE shown[i]]

\* The links in `gone' and those in `over' are the same as far as list s goes.
Agree(s, gone, over) ==
  /\ over \subseteq Link
  /\ \A i \in DOMAIN s : s[i].alive => (s[i].link \in gone <=> s[i].link \in over)

LEMMA ShownEnd ==
  ASSUME NEW s \in Seq(Unknown), NEW t, NEW gone, NEW over,
         Without(s, t, gone), Agree(s, gone, over)
  PROVE  Shown(t) = Shut(Shown(s), over)
<1> USE DEF Agree, Shut
<1>1. DOMAIN Shown(s) = DOMAIN s /\ DOMAIN t = DOMAIN s
  BY DEF Without, Shown
<1>2. \A i \in DOMAIN s : (IF t[i].alive THEN t[i].link ELSE None)
                          = IF Shown(s)[i] \in over THEN None ELSE Shown(s)[i]
  BY NoneAssumption DEF Without, Shown
<1> QED
  BY <1>1, <1>2 DEF Shown

LEMMA NextLinks == ASSUME IInv, [Next]_vars PROVE [L!Next]_(L!vars)
<1> USE DEF L!vars
<1>1. ASSUME UNCHANGED <<link, clients>> PROVE [L!Next]_(L!vars)
  BY <1>1 DEF barLink, barClients
<1>2. ASSUME NEW n \in Node,
             \/ Begin(n) \/ Listen(n) \/ Greet(n)
             \/ RequestPeers(n) \/ PeriodicPeers(n) \/ Gossip(n)
      PROVE  [L!Next]_(L!vars)
  BY <1>1, <1>2 DEF Begin, Listen, Greet, RequestPeers, PeriodicPeers, Gossip, Send
<1>3. ASSUME NEW c \in Link, NEW n \in Node, ReceiveHandshake(c, n) \/ ReceiveGetPeers(c, n)
      PROVE  [L!Next]_(L!vars)
  <2>1. clients' = clients
    BY <1>3, HandlerStep DEF IInv
  <2> QED
    BY <1>1, <1>3, <2>1 DEF ReceiveHandshake, ReceiveGetPeers
<1>3a. ASSUME NEW c \in Link, NEW n \in Node, Swallow(c, n) PROVE [L!Next]_(L!vars)
  BY <1>1, <1>3a DEF Swallow
<1>4. ASSUME NEW c \in Link, Dial(c) PROVE [L!Next]_(L!vars)
  <2>1. link[c] = "idle" /\ link' = [link EXCEPT ![c] = "dialled"] /\ clients' = clients
    BY <1>4 DEF Dial, CanDial
  <2>2. \A d \in Link : (IF link'[d] = "dialled" THEN "idle" ELSE IF link'[d] = "failed" THEN "closed" ELSE link'[d])
                        = IF link[d] = "dialled" THEN "idle" ELSE IF link[d] = "failed" THEN "closed" ELSE link[d]
    BY <2>1 DEF IInv, Typed
  <2>3. barLink' = barLink
    BY <2>2 DEF barLink
  <2> QED
    BY <2>1, <2>3 DEF barClients
<1>5. ASSUME NEW c \in Link, DialFails(c) PROVE L!Fail(c)
  <2>1. link[c] = "idle" /\ link' = [link EXCEPT ![c] = "failed"] /\ clients' = clients
    BY <1>5 DEF DialFails, CanDial
  <2>2. barLink[c] = "idle" /\ barLink' = [barLink EXCEPT ![c] = "closed"]
    BY <2>1 DEF barLink, IInv, Typed
  <2> QED
    BY <2>1, <2>2 DEF barClients, L!Fail
<1>6. ASSUME NEW c \in Link, Break(c) PROVE L!Close(c)
  <2>1. /\ link[c] = "open" /\ link' = [link EXCEPT ![c] = "closed"]
        /\ clients' = Dead({c}, clients)
    BY <1>6 DEF Break
  <2>2. barLink[c] = "open" /\ barLink' = [barLink EXCEPT ![c] = "closed"]
    BY <2>1 DEF barLink, IInv, Typed
  <2>3. ASSUME NEW n \in Node
        PROVE  Shown(clients'[n]) = Shut(Shown(clients[n]), {c})
    <3>1. clients[n] \in Seq(Unknown) /\ Without(clients[n], clients'[n], {c})
      BY <2>1, DeadEntries DEF IInv, Unheard
    <3>2. Agree(clients[n], {c}, {c})
      BY DEF Agree
    <3> QED
      BY <3>1, <3>2, ShownEnd
  <2>4. barClients' = L!Hung({c})
    BY <2>3 DEF barClients, L!Hung, Shut
  <2> QED
    BY <2>2, <2>4 DEF L!Close
<1>7. ASSUME NEW n \in Node, Admit(n)
      PROVE  L!Stillborn(n) \/ \E c \in Link : L!Open(c)
  <2> DEFINE e == Head(backlog[n])
  <2>1. /\ backlog[n] # <<>> /\ clients' = [clients EXCEPT ![n] = Append(@, e)]
        /\ link' = IF e.alive THEN [link EXCEPT ![e.link] = "open"] ELSE link
    BY <1>7 DEF Admit
  <2>2. e \in Unknown /\ e.link \in Link /\ clients[n] \in Seq(Unknown)
    BY <2>1, HeadEntry DEF IInv
  <2>3. e.alive => link[e.link] = "dialled" /\ e.link.acceptor = n
    BY <2>1, HeadEntry DEF IInv, Books, Kept
  <2> HIDE DEF e
  <2>4. Shown(clients'[n]) = Append(Shown(clients[n]), IF e.alive THEN e.link ELSE None)
    BY <2>1, <2>2, ShownAppend DEF IInv, Unheard
  <2>5. barClients' = [barClients EXCEPT ![n] = Append(@, IF e.alive THEN e.link ELSE None)]
    BY <2>1, <2>4 DEF barClients, IInv, Unheard
  <2>6. CASE e.alive
    <3>1. barLink[e.link] = "idle" /\ barLink' = [barLink EXCEPT ![e.link] = "open"]
      BY <2>1, <2>2, <2>3, <2>6 DEF barLink, IInv, Typed
    <3> QED
      BY <2>2, <2>3, <2>5, <2>6, <3>1 DEF L!Open
  <2>7. CASE ~e.alive
    BY <2>1, <2>5, <2>7 DEF L!Stillborn, barLink
  <2> QED
    BY <2>6, <2>7
<1>8. ASSUME NEW n \in Node, Refuse(n)
      PROVE  [L!Next]_(L!vars)
  <2> DEFINE e == Head(backlog[n])
  <2>1. /\ backlog[n] # <<>> /\ clients' = clients
        /\ link' = IF e.alive THEN [link EXCEPT ![e.link] = "closed"] ELSE link
    BY <1>8 DEF Refuse
  <2>2. e.link \in Link /\ (e.alive => link[e.link] = "dialled")
    BY <2>1, HeadEntry DEF IInv, Books, Kept
  <2> HIDE DEF e
  <2>3. CASE e.alive
    <3>1. barLink[e.link] = "idle" /\ barLink' = [barLink EXCEPT ![e.link] = "closed"]
      BY <2>1, <2>2, <2>3 DEF barLink, IInv, Typed
    <3>2. L!Fail(e.link)
      BY <2>1, <3>1 DEF L!Fail, barClients
    <3> QED
      BY <2>2, <3>2 DEF L!Next
  <2>4. CASE ~e.alive
    BY <1>1, <2>1, <2>4
  <2> QED
    BY <2>3, <2>4
<1>9. ASSUME NEW n \in Node, End(n) PROVE L!Restart(n)
  <2> DEFINE over == {c \in Link : n \in {c.dialer, c.acceptor} /\ link[c] \in {"dialled", "open"}}
             gone == {c \in Link : n \in {c.dialer, c.acceptor} /\ barLink[c] = "open"}
             waiting == {c \in Link : c.acceptor = n /\ barLink[c] = "idle"}
             dropped == {c \in Link : c.acceptor = n /\ link[c] = "dialled"}
  <2>1. /\ link' = [c \in Link |-> IF c.dialer = n THEN "idle" ELSE IF c \in over THEN "closed" ELSE link[c]]
        /\ clients' = [Dead(over, clients) EXCEPT ![n] = <<>>]
    BY <1>9 DEF End
  <2>2. \A c \in Link : barLink[c] = IF link[c] = "dialled" THEN "idle" ELSE IF link[c] = "failed" THEN "closed" ELSE link[c]
    BY DEF barLink
  <2>3. dropped \in SUBSET waiting
    BY <2>2
  <2>4. barLink' = [c \in Link |-> IF c.dialer = n THEN "idle" ELSE IF c \in gone \cup dropped THEN "closed" ELSE barLink[c]]
    <3>1. ASSUME NEW c \in Link
          PROVE  (IF link'[c] = "dialled" THEN "idle" ELSE IF link'[c] = "failed" THEN "closed" ELSE link'[c])
                 = IF c.dialer = n THEN "idle" ELSE IF c \in gone \cup dropped THEN "closed" ELSE barLink[c]
      BY <2>1, <2>2
    <3> QED
      BY <3>1 DEF barLink
  <2>5. ASSUME NEW m \in Node, m # n
        PROVE  Shown(clients'[m]) = Shut(Shown(clients[m]), gone)
    <3>1. clients[m] \in Seq(Unknown) /\ clients'[m] = Dead(over, clients)[m]
      BY <2>1, <2>5 DEF IInv, Unheard, Dead
    <3>2. Without(clients[m], clients'[m], over)
      BY <3>1, DeadEntries DEF IInv, Unheard
    <3>3. \A i \in DOMAIN clients[m] : clients[m][i].alive => clients[m][i].link \in Link /\ link[clients[m][i].link] = "open"
      BY <3>1, Members DEF IInv, Books, Kept
    <3>4. \A i \in DOMAIN clients[m] : clients[m][i].alive => (clients[m][i].link \in over <=> clients[m][i].link \in gone)
      BY <2>2, <3>3
    <3>5. Agree(clients[m], over, gone)
      BY <3>4 DEF Agree
    <3> HIDE DEF gone, over
    <3> QED
      BY <3>1, <3>2, <3>5, ShownEnd
  <2>6. Shown(clients'[n]) = <<>>
    BY <2>1 DEF Shown, IInv, Unheard, Dead
  <2>7. barClients' = [L!Hung(gone) EXCEPT ![n] = <<>>]
    <3> HIDE DEF gone
    <3>1. L!Hung(gone) = [m \in Node |-> Shut(Shown(clients[m]), gone)]
      BY DEF barClients, L!Hung, Shut
    <3>2. barClients' = [m \in Node |-> Shown(clients'[m])]
      BY DEF barClients
    <3> QED
      BY <2>5, <2>6, <3>1, <3>2
  <2>8. \A c \in Link : [d \in Link |-> d.dialer][c] = c.dialer /\ [d \in Link |-> d.acceptor][c] = c.acceptor
    OBVIOUS
  <2> QED
    BY <2>3, <2>4, <2>7, <2>8 DEF L!Restart
<1>10. ASSUME UNCHANGED vars PROVE [L!Next]_(L!vars)
  BY <1>1, <1>10 DEF vars
<1>11. ASSUME NEW c \in Link, L!Open(c) \/ L!Fail(c) \/ L!Close(c) PROVE L!Next
  BY <1>11 DEF L!Next
<1>12. ASSUME NEW n \in Node, L!Stillborn(n) \/ L!Restart(n) PROVE L!Next
  BY <1>12 DEF L!Next
<1> QED
  BY <1>2, <1>3, <1>3a, <1>4, <1>5, <1>6, <1>7, <1>8, <1>9, <1>10, <1>11, <1>12 DEF Next

-----------------------------------------------------------------------------
(* Theorems. *)

\* Every variable keeps its type; above all, the lists hold entries and nothing else.
THEOREM TypeCorrect == Spec => []TypeOK
<1>1. IInv => TypeOK
  <2> SUFFICES ASSUME IInv PROVE TypeOK
    OBVIOUS
  <2>1. clients \in [Node -> Seq(Entry)] /\ backlog \in [Node -> Seq(Entry)]
    <3>1. Seq(Unknown) \subseteq Seq(Entry)
      BY DEF Unknown
    <3> QED
      BY <3>1 DEF IInv, Unheard
  <2>2. wire \in [Link -> [Node -> Seq(Message)]]
    <3>1. Said \subseteq Message
      BY DEF Said, Message
    <3>2. Seq(Said) \subseteq Seq(Message)
      BY <3>1
    <3> QED
      BY <3>2 DEF IInv, Unheard, WireInv
  <2> QED
    BY <2>1, <2>2 DEF IInv, Typed, TypeOK
<1> QED
  BY <1>1, Invariance, PTL

\* "already connected" is said of connections that are over only (handleConnection
\* compares with entries nobody removes).
THEOREM RefusedForGhosts == Spec => OnlyGhostsRefuse
<1> DEFINE Ghosts == \A n \in Node : Refuse(n) =>
             \A i \in DOMAIN clients[n] :
               SamePeer(clients[n][i], Head(backlog[n])) => ~clients[n][i].alive
<1>1. IInv => Ghosts
  <2> SUFFICES ASSUME IInv, NEW n \in Node, Refuse(n), NEW i \in DOMAIN clients[n],
                      SamePeer(clients[n][i], Head(backlog[n]))
               PROVE  ~clients[n][i].alive
    OBVIOUS
  <2>1. 1 \in DOMAIN backlog[n] /\ Head(backlog[n]) = backlog[n][1]
    BY HeadEntry DEF IInv, Refuse
  <2> QED
    BY <2>1 DEF IInv, Books, Kept
<1> QED
  BY <1>1, Invariance, PTL DEF OnlyGhostsRefuse

\* clients_ is the list of accepted links that module Links describes, with calls that
\* wait, fail or are refused, and connections whose dialer is gone before accept().
THEOREM ImplementationOfLinks == Spec => ImplementsLinks
<1>1. Init => Promise!Init
  BY DEF Init, Promise!Init
<1>2. IInv /\ [Next]_vars => [Promise!Next]_(Promise!vars)
  <2>1. [L!Next]_(L!vars) => [Promise!Next]_(Promise!vars)
    BY DEF L!Next, L!Open, L!Fail, L!Stillborn, L!Close, L!Restart, L!Hung, L!vars,
           Promise!Next, Promise!Open, Promise!Fail, Promise!Stillborn, Promise!Close,
           Promise!Restart, Promise!Hung, Promise!vars, barLink, barClients, Shown
  <2> QED
    BY <2>1, NextLinks
<1> QED
  BY <1>1, <1>2, Invariance, PTL DEF Spec, ImplementsLinks, Promise!Spec

\* A message to all of clients_ goes to the dialer of each open link the node accepted,
\* once, and to nobody else.
THEOREM EachAcceptedLinkOnce == Spec => []EachLinkOnce
<1>1. IInv => L!EachOnce
  <2> SUFFICES ASSUME IInv, NEW n \in Node
               PROVE  /\ \A i, j \in DOMAIN barClients[n] :
                           barClients[n][i] = barClients[n][j] => i = j \/ barClients[n][i] = None
                      /\ \A c \in Link : (\E i \in DOMAIN barClients[n] : barClients[n][i] = c)
                                         <=> (barLink[c] = "open" /\ [d \in Link |-> d.acceptor][c] = n)
    BY DEF L!EachOnce
  <2>1. /\ DOMAIN barClients[n] = DOMAIN clients[n]
        /\ \A i \in DOMAIN clients[n] : barClients[n][i] = IF clients[n][i].alive THEN clients[n][i].link ELSE None
    BY DEF barClients, Shown
  <2>2. clients[n] \in Seq(Unknown) /\ Kept(n, clients[n], backlog[n], link, port)
    BY DEF IInv, Unheard, Books
  <2>3. \A c \in Link : barLink[c] = "open" <=> link[c] = "open"
    BY DEF barLink, IInv, Typed
  <2>4. \A i \in DOMAIN clients[n] : clients[n][i].link \in Link
    BY <2>2, Members
  <2> QED
    BY <2>1, <2>2, <2>3, <2>4, NoneAssumption DEF Kept
<1>2. L!EachOnce => EachLinkOnce
  BY DEF L!EachOnce, EachLinkOnce, Promise!EachOnce, barLink, barClients, Shown
<1> QED
  BY <1>1, <1>2, Invariance, PTL
=============================================================================
