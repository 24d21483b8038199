------------------------------- MODULE Links --------------------------------
(***************************************************************************)
(* What the nodes may rely on about their connections: Node::clients_ is a *)
(* list of the links this node accepted, in the order in which it did.  An *)
(* entry never moves and is never removed while the process runs; when its *)
(* connection ends, it stays behind as an empty one.  (The periodic        *)
(* synchronisation asks the first entry, whatever has become of it.)       *)
(*                                                                         *)
(* BlockSync and Overlay implement this specification.                     *)
(***************************************************************************)
EXTENDS Naturals, Sequences

CONSTANTS Node, Link, Dialer, Acceptor, None

VARIABLES link, clients

vars == <<link, clients>>

Init ==
  /\ link = [c \in Link |-> "idle"]
  /\ clients = [n \in Node |-> <<>>]

\* The entries of the links in `gone' become empty.
Hung(gone) == [n \in Node |-> [i \in DOMAIN clients[n] |->
                 IF clients[n][i] \in gone THEN None ELSE clients[n][i]]]

Open(c) ==
  /\ link[c] = "idle"
  /\ link' = [link EXCEPT ![c] = "open"]
  /\ clients' = [clients EXCEPT ![Acceptor[c]] = Append(@, c)]

\* Nobody listens, or the acceptor refuses.
Fail(c) ==
  /\ link[c] = "idle"
  /\ link' = [link EXCEPT ![c] = "closed"]
  /\ UNCHANGED clients

\* The dialer is gone before the acceptor gets to its connection.
Stillborn(n) ==
  /\ clients' = [clients EXCEPT ![n] = Append(@, None)]
  /\ UNCHANGED link

Close(c) ==
  /\ link[c] = "open"
  /\ link' = [link EXCEPT ![c] = "closed"]
  /\ clients' = Hung({c})

\* Node n ends and starts anew.  It dials its links again, nobody else does; some
\* may have been about to be accepted by it.
Restart(n) ==
  LET gone == {c \in Link : n \in {Dialer[c], Acceptor[c]} /\ link[c] = "open"} IN
  /\ \E dropped \in SUBSET {c \in Link : Acceptor[c] = n /\ link[c] = "idle"} :
       link' = [c \in Link |-> IF Dialer[c] = n THEN "idle"
                               ELSE IF c \in gone \cup dropped THEN "closed" ELSE link[c]]
  /\ clients' = [Hung(gone) EXCEPT ![n] = <<>>]

Next ==
  \/ \E c \in Link : Open(c) \/ Fail(c) \/ Close(c)
  \/ \E n \in Node : Stillborn(n) \/ Restart(n)

Spec == Init /\ [][Next]_vars

-----------------------------------------------------------------------------
\* The entries of a node that are not empty are the open links it accepted, each of
\* them once: a message to all of clients_ reaches every such dialer exactly once.
EachOnce ==
  \A n \in Node :
    /\ \A i, j \in DOMAIN clients[n] :
         clients[n][i] = clients[n][j] => i = j \/ clients[n][i] = None
    /\ \A c \in Link :
         (\E i \in DOMAIN clients[n] : clients[n][i] = c) <=> (link[c] = "open" /\ Acceptor[c] = n)
=============================================================================
