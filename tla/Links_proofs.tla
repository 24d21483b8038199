---------------------------- MODULE Links_proofs ----------------------------
(***************************************************************************)
(* Proofs about Links, for any nodes, links and None that is no link: a    *)
(* list that only grows at its end, and whose entries only become empty,   *)
(* holds every open link once.                                             *)
(***************************************************************************)
EXTENDS Links, SequenceTheorems, TLAPS

NamesOK ==
  /\ None \notin Link
  /\ Acceptor \in [Link -> Node]

TypeInv ==
  /\ link \in [Link -> {"idle", "open", "closed"}]
  /\ clients \in [Node -> Seq(Link \cup {None})]

IInv == TypeInv /\ EachOnce

\* Making entries empty keeps the types and empties those entries only.
LEMMA HungEntries ==
  ASSUME TypeInv, NEW gone
  PROVE  /\ Hung(gone) \in [Node -> Seq(Link \cup {None})]
         /\ \A n \in Node : DOMAIN Hung(gone)[n] = DOMAIN clients[n]
         /\ \A n \in Node : \A i \in DOMAIN clients[n] :
              Hung(gone)[n][i] = IF clients[n][i] \in gone THEN None ELSE clients[n][i]
<1>1. ASSUME NEW n \in Node
      PROVE  /\ Hung(gone)[n] \in Seq(Link \cup {None})
             /\ DOMAIN Hung(gone)[n] = DOMAIN clients[n]
             /\ \A i \in DOMAIN clients[n] :
                  Hung(gone)[n][i] = IF clients[n][i] \in gone THEN None ELSE clients[n][i]
  <2>1. clients[n] \in Seq(Link \cup {None})
    BY DEF TypeInv
  <2>2. Hung(gone)[n] = [i \in DOMAIN clients[n] |-> IF clients[n][i] \in gone THEN None ELSE clients[n][i]]
    BY DEF Hung
  <2>3. DOMAIN clients[n] = 1..Len(clients[n]) /\ Len(clients[n]) \in Nat
    BY <2>1
  <2>4. \A i \in 1..Len(clients[n]) : clients[n][i] \in Link \cup {None}
    BY <2>1
  <2> QED
    BY <2>2, <2>3, <2>4, IsASeq
<1> QED
  BY <1>1 DEF Hung

\* An entry more at the end of one list.
LEMMA AppendedEntry ==
  ASSUME TypeInv, NEW n \in Node, NEW e \in Link \cup {None},
         clients' = [clients EXCEPT ![n] = Append(@, e)]
  PROVE  /\ clients' \in [Node -> Seq(Link \cup {None})]
         /\ \A m \in Node \ {n} : clients'[m] = clients[m]
         /\ DOMAIN clients[n] = 1..Len(clients[n]) /\ Len(clients[n]) \in Nat
         /\ DOMAIN clients'[n] = 1..(Len(clients[n]) + 1)
         /\ \A i \in 1..Len(clients[n]) : clients'[n][i] = clients[n][i]
         /\ clients'[n][Len(clients[n]) + 1] = e
<1>1. clients[n] \in Seq(Link \cup {None})
  BY DEF TypeInv
<1>2. clients'[n] = Append(clients[n], e)
  BY DEF TypeInv
<1>3. Append(clients[n], e) \in Seq(Link \cup {None}) /\ Len(Append(clients[n], e)) = Len(clients[n]) + 1
  BY <1>1
<1>4. /\ \A i \in 1..Len(clients[n]) : Append(clients[n], e)[i] = clients[n][i]
      /\ Append(clients[n], e)[Len(clients[n]) + 1] = e
  BY <1>1
<1>5. clients' \in [Node -> Seq(Link \cup {None})] /\ \A m \in Node \ {n} : clients'[m] = clients[m]
  BY <1>2, <1>3 DEF TypeInv
<1> QED
  BY <1>1, <1>2, <1>3, <1>4, <1>5

LEMMA OpenStep ==
  ASSUME NamesOK, IInv, NEW c \in Link, Open(c)
  PROVE  IInv'
<1> DEFINE n == Acceptor[c]
<1>1. n \in Node
  BY DEF NamesOK
<1>2. clients' = [clients EXCEPT ![n] = Append(@, c)] /\ link[c] = "idle" /\ link' = [link EXCEPT ![c] = "open"]
  BY DEF Open
<1>3. /\ clients' \in [Node -> Seq(Link \cup {None})]
      /\ \A m \in Node \ {n} : clients'[m] = clients[m]
      /\ DOMAIN clients[n] = 1..Len(clients[n]) /\ Len(clients[n]) \in Nat
      /\ DOMAIN clients'[n] = 1..(Len(clients[n]) + 1)
      /\ \A i \in 1..Len(clients[n]) : clients'[n][i] = clients[n][i]
      /\ clients'[n][Len(clients[n]) + 1] = c
  BY <1>1, <1>2, AppendedEntry DEF IInv
<1>4. TypeInv'
  BY <1>2, <1>3 DEF IInv, TypeInv
<1>5. \A d \in Link : d # c => link'[d] = link[d]
  BY <1>2 DEF IInv, TypeInv
<1>6. link'[c] = "open"
  BY <1>2 DEF IInv, TypeInv
<1>7. \A m \in Node : \A i \in DOMAIN clients[m] : clients[m][i] # c
  BY <1>2 DEF IInv, EachOnce
<1>8. ASSUME NEW m \in Node, NEW i \in DOMAIN clients'[m], NEW j \in DOMAIN clients'[m],
             clients'[m][i] = clients'[m][j]
      PROVE  i = j \/ clients'[m][i] = None
  <2>1. CASE m # n
    BY <2>1, <1>3, <1>8 DEF IInv, EachOnce
  <2>2. CASE m = n
    <3>1. i \in 1..(Len(clients[n]) + 1) /\ j \in 1..(Len(clients[n]) + 1) /\ Len(clients[n]) \in Nat
      BY <2>2, <1>3
    <3>2. CASE i \in 1..Len(clients[n]) /\ j \in 1..Len(clients[n])
      <4>1. clients[n][i] = clients[n][j] /\ i \in DOMAIN clients[n] /\ j \in DOMAIN clients[n]
        BY <3>2, <2>2, <1>3, <1>8
      <4> QED
        BY <4>1, <3>2, <2>2, <1>1, <1>3 DEF IInv, EachOnce
    <3>3. CASE i = Len(clients[n]) + 1 /\ j \in 1..Len(clients[n])
      BY <3>3, <2>2, <1>1, <1>3, <1>7, <1>8
    <3>4. CASE j = Len(clients[n]) + 1 /\ i \in 1..Len(clients[n])
      BY <3>4, <2>2, <1>1, <1>3, <1>7, <1>8
    <3> QED
      BY <3>1, <3>2, <3>3, <3>4
  <2> QED
    BY <2>1, <2>2
<1>9. ASSUME NEW m \in Node, NEW d \in Link
      PROVE  (\E i \in DOMAIN clients'[m] : clients'[m][i] = d) <=> (link'[d] = "open" /\ Acceptor[d] = m)
  <2>1. CASE m # n
    <3>1. clients'[m] = clients[m]
      BY <2>1, <1>3
    <3>2. (\E i \in DOMAIN clients[m] : clients[m][i] = d) <=> (link[d] = "open" /\ Acceptor[d] = m)
      BY DEF IInv, EachOnce
    <3> QED
      BY <3>1, <3>2, <2>1, <1>5, <1>7
  <2>2. CASE m = n /\ d = c
    <3>1. Len(clients[n]) + 1 \in DOMAIN clients'[n]
      BY <1>3
    <3> QED
      BY <3>1, <2>2, <1>3, <1>6
  <2>3. CASE m = n /\ d # c
    <3>1. (\E i \in DOMAIN clients[n] : clients[n][i] = d) <=> (link[d] = "open" /\ Acceptor[d] = n)
      BY <1>1 DEF IInv, EachOnce
    <3>2. (\E i \in DOMAIN clients'[n] : clients'[n][i] = d) <=> (\E i \in DOMAIN clients[n] : clients[n][i] = d)
      BY <2>3, <1>3
    <3> QED
      BY <3>1, <3>2, <2>3, <1>5
  <2> QED
    BY <2>1, <2>2, <2>3
<1> QED
  BY <1>4, <1>8, <1>9 DEF IInv, EachOnce

LEMMA StillbornStep ==
  ASSUME NamesOK, IInv, NEW n \in Node, Stillborn(n)
  PROVE  IInv'
<1>2. clients' = [clients EXCEPT ![n] = Append(@, None)] /\ link' = link
  BY DEF Stillborn
<1>3. /\ clients' \in [Node -> Seq(Link \cup {None})]
      /\ \A m \in Node \ {n} : clients'[m] = clients[m]
      /\ DOMAIN clients[n] = 1..Len(clients[n]) /\ Len(clients[n]) \in Nat
      /\ DOMAIN clients'[n] = 1..(Len(clients[n]) + 1)
      /\ \A i \in 1..Len(clients[n]) : clients'[n][i] = clients[n][i]
      /\ clients'[n][Len(clients[n]) + 1] = None
  BY <1>2, AppendedEntry DEF IInv
<1>4. TypeInv'
  BY <1>2, <1>3 DEF IInv, TypeInv
<1>8. ASSUME NEW m \in Node, NEW i \in DOMAIN clients'[m], NEW j \in DOMAIN clients'[m],
             clients'[m][i] = clients'[m][j]
      PROVE  i = j \/ clients'[m][i] = None
  <2>1. CASE m # n
    BY <2>1, <1>3, <1>8 DEF IInv, EachOnce
  <2>2. CASE m = n
    <3>1. i \in 1..(Len(clients[n]) + 1) /\ j \in 1..(Len(clients[n]) + 1) /\ Len(clients[n]) \in Nat
      BY <2>2, <1>3
    <3>2. CASE i \in 1..Len(clients[n]) /\ j \in 1..Len(clients[n])
      <4>1. clients[n][i] = clients[n][j] /\ i \in DOMAIN clients[n] /\ j \in DOMAIN clients[n]
        BY <3>2, <2>2, <1>3, <1>8
      <4> QED
        BY <4>1, <3>2, <2>2, <1>3 DEF IInv, EachOnce
    <3>3. CASE i = Len(clients[n]) + 1 /\ j \in 1..Len(clients[n])
      BY <3>3, <2>2, <1>3, <1>8
    <3>4. CASE j = Len(clients[n]) + 1 /\ i \in 1..Len(clients[n])
      BY <3>4, <2>2, <1>3, <1>8
    <3> QED
      BY <3>1, <3>2, <3>3, <3>4
  <2> QED
    BY <2>1, <2>2
<1>9. ASSUME NEW m \in Node, NEW d \in Link
      PROVE  (\E i \in DOMAIN clients'[m] : clients'[m][i] = d) <=> (link'[d] = "open" /\ Acceptor[d] = m)
  <2>1. (\E i \in DOMAIN clients'[m] : clients'[m][i] = d) <=> (\E i \in DOMAIN clients[m] : clients[m][i] = d)
    <3>1. CASE m # n
      BY <3>1, <1>3
    <3>2. CASE m = n
      <4>1. Len(clients[n]) \in Nat /\ 1..(Len(clients[n]) + 1) = 1..Len(clients[n]) \cup {Len(clients[n]) + 1}
        BY <1>3
      <4>2. None # d
        BY DEF NamesOK
      <4> QED
        BY <3>2, <1>3, <4>1, <4>2
    <3> QED
      BY <3>1, <3>2
  <2>2. (\E i \in DOMAIN clients[m] : clients[m][i] = d) <=> (link[d] = "open" /\ Acceptor[d] = m)
    BY DEF IInv, EachOnce
  <2> QED
    BY <2>1, <2>2, <1>2
<1> QED
  BY <1>4, <1>8, <1>9 DEF IInv, EachOnce

\* Connections that end: their entries become empty, other entries stay as they are.
LEMMA CloseStep ==
  ASSUME NamesOK, IInv, NEW c \in Link, Close(c)
  PROVE  IInv'
<1>1. link' = [link EXCEPT ![c] = "closed"] /\ clients' = Hung({c})
  BY DEF Close
<1>2. /\ clients' \in [Node -> Seq(Link \cup {None})]
      /\ \A n \in Node : DOMAIN clients'[n] = DOMAIN clients[n]
      /\ \A n \in Node : \A i \in DOMAIN clients[n] :
           clients'[n][i] = IF clients[n][i] \in {c} THEN None ELSE clients[n][i]
  BY <1>1, HungEntries DEF IInv
<1>3. TypeInv'
  BY <1>1, <1>2 DEF IInv, TypeInv
<1>4. link'[c] = "closed" /\ \A d \in Link : d # c => link'[d] = link[d]
  BY <1>1 DEF IInv, TypeInv
<1>5. \A n \in Node : \A i, j \in DOMAIN clients'[n] :
        clients'[n][i] = clients'[n][j] => i = j \/ clients'[n][i] = None
  BY <1>2 DEF IInv, EachOnce
<1>6. ASSUME NEW n \in Node, NEW d \in Link
      PROVE  (\E i \in DOMAIN clients'[n] : clients'[n][i] = d) <=> (link'[d] = "open" /\ Acceptor[d] = n)
  <2>1. (\E i \in DOMAIN clients[n] : clients[n][i] = d) <=> (link[d] = "open" /\ Acceptor[d] = n)
    BY DEF IInv, EachOnce
  <2>2. (\E i \in DOMAIN clients'[n] : clients'[n][i] = d)
          <=> (d # c /\ \E i \in DOMAIN clients[n] : clients[n][i] = d)
    BY <1>2 DEF NamesOK
  <2> QED
    BY <2>1, <2>2, <1>4
<1> QED
  BY <1>3, <1>5, <1>6 DEF IInv, EachOnce

LEMMA RestartStep ==
  ASSUME NamesOK, IInv, NEW n \in Node, Restart(n)
  PROVE  IInv'
<1> DEFINE gone == {c \in Link : n \in {Dialer[c], Acceptor[c]} /\ link[c] = "open"}
<1>1. PICK dropped \in SUBSET {c \in Link : Acceptor[c] = n /\ link[c] = "idle"} :
        link' = [c \in Link |-> IF Dialer[c] = n THEN "idle"
                                ELSE IF c \in gone \cup dropped THEN "closed" ELSE link[c]]
  BY DEF Restart
<1>2. clients' = [Hung(gone) EXCEPT ![n] = <<>>]
  BY DEF Restart
<1>3. /\ Hung(gone) \in [Node -> Seq(Link \cup {None})]
      /\ \A m \in Node : DOMAIN Hung(gone)[m] = DOMAIN clients[m]
      /\ \A m \in Node : \A i \in DOMAIN clients[m] :
           Hung(gone)[m][i] = IF clients[m][i] \in gone THEN None ELSE clients[m][i]
  <2> HIDE DEF gone
  <2> QED
    BY HungEntries DEF IInv
<1>4. clients'[n] = <<>> /\ \A m \in Node : m # n => clients'[m] = Hung(gone)[m]
  BY <1>2, <1>3
<1>5. TypeInv'
  <2>1. link' \in [Link -> {"idle", "open", "closed"}]
    BY <1>1 DEF IInv, TypeInv
  <2>2. <<>> \in Seq(Link \cup {None})
    OBVIOUS
  <2>3. clients' \in [Node -> Seq(Link \cup {None})]
    BY <1>2, <1>3, <2>2
  <2> QED
    BY <2>1, <2>3 DEF TypeInv
<1>6. \A d \in Link : link'[d] = "open" <=> (link[d] = "open" /\ d \notin gone)
  BY <1>1
<1>7. ASSUME NEW m \in Node, NEW i \in DOMAIN clients'[m], NEW j \in DOMAIN clients'[m],
             clients'[m][i] = clients'[m][j]
      PROVE  i = j \/ clients'[m][i] = None
  <2>1. CASE m = n
    BY <2>1, <1>4
  <2>2. CASE m # n
    BY <2>2, <1>3, <1>4, <1>7 DEF IInv, EachOnce
  <2> QED
    BY <2>1, <2>2
<1>8. ASSUME NEW m \in Node, NEW d \in Link
      PROVE  (\E i \in DOMAIN clients'[m] : clients'[m][i] = d) <=> (link'[d] = "open" /\ Acceptor[d] = m)
  <2>1. (\E i \in DOMAIN clients[m] : clients[m][i] = d) <=> (link[d] = "open" /\ Acceptor[d] = m)
    BY DEF IInv, EachOnce
  <2>2. CASE m = n
    <3>1. Acceptor[d] = n => link'[d] # "open"
      BY <1>6
    <3>2. DOMAIN clients'[m] = {}
      BY <1>4, <2>2
    <3> QED
      BY <3>1, <3>2, <2>2
  <2>3. CASE m # n
    <3>1. (\E i \in DOMAIN clients'[m] : clients'[m][i] = d)
            <=> (d \notin gone /\ \E i \in DOMAIN clients[m] : clients[m][i] = d)
      <4>1. clients'[m] = Hung(gone)[m] /\ DOMAIN Hung(gone)[m] = DOMAIN clients[m]
        BY <2>3, <1>3, <1>4
      <4>2. None # d
        BY DEF NamesOK
      <4>3. \A i \in DOMAIN clients[m] : clients'[m][i] = d <=> (clients[m][i] = d /\ d \notin gone)
        <5> HIDE DEF gone
        <5> QED
          BY <4>1, <4>2, <1>3
      <4> HIDE DEF gone
      <4> QED
        BY <4>1, <4>3
    <3> QED
      BY <3>1, <2>1, <1>6
  <2> QED
    BY <2>2, <2>3
<1> QED
  BY <1>5, <1>7, <1>8 DEF IInv, EachOnce

LEMMA InitIInv == ASSUME NamesOK, Init PROVE IInv
BY DEF Init, IInv, TypeInv, EachOnce

LEMMA FailStep == ASSUME NamesOK, IInv, NEW c \in Link, Fail(c) PROVE IInv'
<1>1. link' = [link EXCEPT ![c] = "closed"] /\ link[c] = "idle" /\ clients' = clients
  BY DEF Fail
<1>2. \A d \in Link : link'[d] = "open" <=> link[d] = "open"
  BY <1>1 DEF IInv, TypeInv
<1>3. TypeInv'
  BY <1>1 DEF IInv, TypeInv
<1> QED
  BY <1>1, <1>2, <1>3 DEF IInv, EachOnce

LEMMA NextIInv == ASSUME NamesOK, IInv, [Next]_vars PROVE IInv'
<1>1. ASSUME NEW c \in Link, Open(c) PROVE IInv'
  BY <1>1, OpenStep
<1>2. ASSUME NEW c \in Link, Fail(c) PROVE IInv'
  BY <1>2, FailStep
<1>3. ASSUME NEW c \in Link, Close(c) PROVE IInv'
  BY <1>3, CloseStep
<1>4. ASSUME NEW n \in Node, Stillborn(n) PROVE IInv'
  BY <1>4, StillbornStep
<1>5. ASSUME NEW n \in Node, Restart(n) PROVE IInv'
  BY <1>5, RestartStep
<1>6. CASE UNCHANGED vars
  BY <1>6 DEF vars, IInv, TypeInv, EachOnce
<1> QED
  BY <1>1, <1>2, <1>3, <1>4, <1>5, <1>6 DEF Next

\* The open links that a node accepted are in its clients_, each of them once, and
\* nothing else is there but empty entries.
THEOREM LinksInvariant == NamesOK => (Spec => []IInv)
<1> SUFFICES ASSUME NamesOK PROVE Spec => []IInv
  OBVIOUS
<1>1. Init => IInv
  BY InitIInv
<1>2. IInv /\ [Next]_vars => IInv'
  BY NextIInv
<1> QED
  BY <1>1, <1>2, PTL DEF Spec
=============================================================================
