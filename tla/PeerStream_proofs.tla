-------------------------- MODULE PeerStream_proofs --------------------------
(***************************************************************************)
(* Proofs about PeerStream, for any messages, lengths, segments and sizes  *)
(* of the socket.  The inductive invariant looks at the receiver's buffer  *)
(* and the kernel as one pipe.  Until a write is left over, the pipe holds *)
(* units of messages in the order of their numbers, a new one after each   *)
(* newline, and all of them above what was delivered; so whatever prefix   *)
(* read takes away, what follows is a later message.                       *)
(***************************************************************************)
EXTENDS PeerStream, SequenceTheorems, WellFoundedInduction, TLAPS

Pipe == buffer \o stream

\* A write under way is of a message that was sent, and not done.
WritesOK ==
  \A k \in DOMAIN writes : writes[k].msg <= Len(sent) /\ writes[k].done < Length[sent[writes[k].msg]]

\* Numbers do not fall, and rise behind a newline.
Ascending(s) ==
  \A i, j \in DOMAIN s : i < j => s[i].msg <= s[j].msg /\ (s[i].newline => s[i].msg < s[j].msg)

\* What was delivered, and what is in the pipe, was sent.
WasSent ==
  /\ \A i \in DOMAIN Pipe : Pipe[i].msg <= Len(sent)
  /\ \A i \in DOMAIN delivered : delivered[i] <= Len(sent)

\* The messages in the pipe are above those delivered.
Ahead == \A i \in DOMAIN delivered, j \in DOMAIN Pipe : delivered[i] < Pipe[j].msg

\* With no write waiting, the pipe ends with the end of a message.
Complete == status = "open" /\ writes = <<>> /\ Pipe # <<>> => Pipe[Len(Pipe)].newline

Orderly == Ascending(Pipe) /\ WasSent /\ Ahead /\ Complete /\ InOrder

IInv == TypeOK /\ WritesOK /\ (stale = 0 => Orderly)

-----------------------------------------------------------------------------
(* Parts of sequences. *)

LEMMA Least ==
  ASSUME NEW a \in Int, NEW b \in Int
  PROVE  Min({a, b}) = IF a <= b THEN a ELSE b
<1>1. CASE a <= b
  BY <1>1 DEF Min
<1>2. CASE b < a
  BY <1>2 DEF Min
<1> QED
  BY <1>1, <1>2

LEMMA LeastNatural ==
  ASSUME NEW T, T \subseteq Nat, T # {}
  PROVE  \E m \in T : \A i \in T : m <= i
<1> DEFINE less == {ss \in Nat \X Nat : ss[1] < ss[2]}
<1>1. IsWellFoundedOn(less, Nat)
  BY NatLessThanWellFounded, Zenon DEF OpToRel
<1>2. \A i, m \in T : i < m => <<i, m>> \in less
  OBVIOUS
<1> HIDE DEF less
<1>3. PICK m \in T : \A i \in T : <<i, m>> \notin less
  BY <1>1, WFMin
<1>4. \A i \in T : ~(i < m)
  BY <1>2, <1>3
<1> QED
  BY <1>4

LEMMA Member == ASSUME NEW S, NEW s \in Seq(S), NEW k \in DOMAIN s PROVE s[k] \in S
OBVIOUS

LEMMA Tails ==
  ASSUME NEW S, NEW s \in Seq(S), s # <<>>
  PROVE  /\ Head(s) \in S /\ Head(s) = s[1] /\ 1 \in DOMAIN s /\ Tail(s) \in Seq(S)
         /\ \A k \in DOMAIN Tail(s) : k + 1 \in DOMAIN s /\ Tail(s)[k] = s[k + 1]
<1>1. /\ Len(s) \in Nat \ {0} /\ DOMAIN s = 1..Len(s)
      /\ Tail(s) \in Seq(S) /\ Len(Tail(s)) = Len(s) - 1
      /\ \A k \in 1..Len(Tail(s)) : Tail(s)[k] = s[k + 1]
  BY HeadTailProperties, EmptySeq
<1>2. DOMAIN Tail(s) = 1..Len(Tail(s))
  BY <1>1
<1> QED
  BY <1>1, <1>2

LEMMA NotEmpty == ASSUME NEW S, NEW s \in Seq(S), NEW e \in S PROVE Append(s, e) # <<>>
BY AppendProperties

LEMMA Regrouped ==
  ASSUME NEW a \in Seq(Unit), NEW b \in Seq(Unit), NEW c \in Seq(Unit)
  PROVE  (a \o b) \o c = a \o (b \o c)
OBVIOUS

\* A part of a sequence that does not reach beyond it.
LEMMA Part ==
  ASSUME NEW S, NEW s \in Seq(S), NEW a \in Nat \ {0}, NEW b \in Nat, b <= Len(s)
  PROVE  /\ SubSeq(s, a, b) \in Seq(S)
         /\ Len(SubSeq(s, a, b)) = IF a <= b THEN b - a + 1 ELSE 0
         /\ \A i \in 1..(b - a + 1) : SubSeq(s, a, b)[i] = s[a + i - 1]
<1>1. \A i \in a..b : s[i] \in S
  BY ElementOfSeq
<1> QED
  BY <1>1, SubSeqProperties

\* A full line starts the buffer, and its last unit is the newline.
LEMMA LineStarts ==
  ASSUME buffer \in Seq(Unit), HasLine
  PROVE  /\ FirstLine \in Seq(Unit) /\ Len(FirstLine) \in DOMAIN buffer /\ Len(FirstLine) \in Nat \ {0}
         /\ \A i \in 1..Len(FirstLine) : FirstLine[i] = buffer[i]
         /\ buffer[Len(FirstLine)].newline
<1> DEFINE ends == {i \in DOMAIN buffer : buffer[i].newline}
           end == Min(ends)
<1>1. DOMAIN buffer = 1..Len(buffer) /\ Len(buffer) \in Nat
  OBVIOUS
<1>2. end \in ends
  <2>1. ends \subseteq Nat /\ ends # {}
    BY <1>1 DEF HasLine
  <2>2. PICK m \in ends : \A i \in ends : m <= i
    BY <2>1, LeastNatural
  <2> QED
    BY <2>2 DEF Min
<1> HIDE DEF ends
<1>3. end \in 1..Len(buffer) /\ buffer[end].newline
  BY <1>1, <1>2 DEF ends
<1>4. FirstLine = SubSeq(buffer, 1, end)
  BY DEF FirstLine, ends
<1> HIDE DEF end
<1>5. /\ FirstLine \in Seq(Unit) /\ Len(FirstLine) = end
      /\ \A i \in 1..end : FirstLine[i] = buffer[i]
  BY <1>1, <1>3, <1>4, Part
<1> QED
  BY <1>1, <1>3, <1>5

\* t is s without its first d units.
Follows(t, s, d) == d \in Nat /\ Len(t) = Len(s) - d /\ \A k \in DOMAIN t : t[k] = s[k + d]

LEMMA SuffixAscends ==
  ASSUME NEW s \in Seq(Unit), NEW t \in Seq(Unit), NEW d, Follows(t, s, d)
  PROVE  /\ \A k \in DOMAIN t : k + d \in DOMAIN s /\ t[k] = s[k + d]
         /\ Ascending(s) => Ascending(t)
         /\ t # <<>> => s # <<>> /\ t[Len(t)] = s[Len(s)]
<1>1. /\ Len(s) \in Nat /\ DOMAIN s = 1..Len(s)
      /\ Len(t) \in Nat /\ DOMAIN t = 1..Len(t)
  OBVIOUS
<1>2. \A k \in DOMAIN t : k + d \in DOMAIN s /\ t[k] = s[k + d]
  BY <1>1 DEF Follows
<1>3. Ascending(s) => Ascending(t)
  <2> SUFFICES ASSUME Ascending(s), NEW i \in DOMAIN t, NEW j \in DOMAIN t, i < j
               PROVE  t[i].msg <= t[j].msg /\ (t[i].newline => t[i].msg < t[j].msg)
    BY DEF Ascending
  <2>1. i + d \in DOMAIN s /\ j + d \in DOMAIN s /\ i + d < j + d
    BY <1>1, <1>2 DEF Follows
  <2> QED
    BY <1>2, <2>1 DEF Ascending
<1>4. t # <<>> => Len(t) \in DOMAIN t
  BY <1>1
<1> QED
  BY <1>1, <1>2, <1>3, <1>4 DEF Follows

\* A new message behind older ones.
LEMMA NewAscends ==
  ASSUME NEW s \in Seq(Unit), NEW t \in Seq(Unit), NEW n \in Nat,
         Ascending(s), \A k \in DOMAIN s : s[k].msg < n,
         \A k \in DOMAIN t : t[k].msg = n /\ (t[k].newline => k = Len(t))
  PROVE  Ascending(s \o t)
<1>1. /\ Len(s) \in Nat /\ DOMAIN s = 1..Len(s)
      /\ Len(t) \in Nat /\ DOMAIN t = 1..Len(t)
      /\ DOMAIN (s \o t) = 1..(Len(s) + Len(t))
  BY ConcatProperties
<1>2. \A k \in DOMAIN (s \o t) :
        \/ k \in DOMAIN s /\ (s \o t)[k] = s[k]
        \/ k > Len(s) /\ k - Len(s) \in DOMAIN t /\ (s \o t)[k] = t[k - Len(s)]
  BY <1>1, ConcatProperties
<1>3. \A k \in DOMAIN s : s[k].msg \in Nat
  <2>1. \A k \in DOMAIN s : s[k] \in Unit
    OBVIOUS
  <2> QED
    BY <2>1 DEF Unit
<1> SUFFICES ASSUME NEW i \in DOMAIN (s \o t), NEW j \in DOMAIN (s \o t), i < j
             PROVE  /\ (s \o t)[i].msg <= (s \o t)[j].msg
                    /\ (s \o t)[i].newline => (s \o t)[i].msg < (s \o t)[j].msg
  BY DEF Ascending
<1>4. CASE i \in DOMAIN s /\ j \in DOMAIN s
  BY <1>1, <1>2, <1>4 DEF Ascending
<1>5. CASE i \in DOMAIN s /\ j > Len(s)
  BY <1>1, <1>2, <1>3, <1>5
<1>6. CASE i > Len(s)
  BY <1>1, <1>2, <1>6
<1> QED
  BY <1>1, <1>4, <1>5, <1>6

\* The units of a message.
LEMMA TextIs ==
  ASSUME NEW m \in Message, NEW i \in Number
  PROVE  /\ Length[m] \in Nat \ {0} /\ Text(i, m) \in Seq(Unit) /\ Len(Text(i, m)) = Length[m]
         /\ \A p \in 1..Length[m] : /\ Text(i, m)[p].msg = i
                                    /\ Text(i, m)[p].newline <=> p = Length[m]
<1> DEFINE unit(p) == [msg |-> i, part |-> p, newline |-> p = Length[m]]
<1>1. Length[m] \in Nat \ {0} /\ i \in 0..MaxSends
  BY LengthAssumption DEF Number
<1>2. \A p \in 1..Length[m] : unit(p) \in Unit
  BY <1>1 DEF Unit
<1>3. Text(i, m) = [p \in 1..Length[m] |-> unit(p)]
  BY DEF Text
<1>4. \A p \in 1..Length[m] : Text(i, m)[p] = unit(p)
  BY <1>3
<1>7. ASSUME NEW p \in 1..Length[m]
      PROVE  Text(i, m)[p].msg = i /\ (Text(i, m)[p].newline <=> p = Length[m])
  <2>1. unit(p).msg = i
    OBVIOUS
  <2>2. unit(p).newline <=> p = Length[m]
    BY Zenon
  <2>3. Text(i, m)[p] = unit(p)
    BY <1>4
  <2> HIDE DEF unit
  <2> QED
    BY <2>1, <2>2, <2>3
<1> HIDE DEF unit
<1>5. Text(i, m) \in [1..Length[m] -> Unit]
  BY <1>2, <1>3
<1>6. Text(i, m) \in Seq(Unit) /\ Len(Text(i, m)) = Length[m]
  BY <1>1, <1>5
<1> QED
  BY <1>1, <1>6, <1>7

LEMMA PipeIs ==
  ASSUME TypeOK
  PROVE  /\ Pipe \in Seq(Unit) /\ Len(Pipe) = Len(buffer) + Len(stream)
         /\ Len(buffer) \in Nat /\ Len(stream) \in Nat
         /\ \A i \in DOMAIN buffer : i \in DOMAIN Pipe /\ Pipe[i] = buffer[i]
         /\ \A i \in DOMAIN stream : Len(buffer) + i \in DOMAIN Pipe /\ Pipe[Len(buffer) + i] = stream[i]
<1>1. buffer \in Seq(Unit) /\ stream \in Seq(Unit)
  BY DEF TypeOK
<1>2. /\ Len(buffer) \in Nat /\ DOMAIN buffer = 1..Len(buffer)
      /\ Len(stream) \in Nat /\ DOMAIN stream = 1..Len(stream)
  BY <1>1
<1>3. /\ Pipe \in Seq(Unit) /\ Len(Pipe) = Len(buffer) + Len(stream)
      /\ \A i \in 1..(Len(buffer) + Len(stream)) :
            Pipe[i] = IF i <= Len(buffer) THEN buffer[i] ELSE stream[i - Len(buffer)]
  BY <1>1, ConcatProperties DEF Pipe
<1>4. DOMAIN Pipe = 1..Len(Pipe)
  BY <1>3
<1> QED
  BY <1>2, <1>3, <1>4

-----------------------------------------------------------------------------
(* Steps. *)

LEMMA InitIInv == Init => IInv
<1> SUFFICES ASSUME Init PROVE IInv
  OBVIOUS
<1>1. TypeOK
  <2>1. sent \in Seq(Message) /\ writes \in Seq([msg : Number, done : Nat]) /\ delivered \in Seq(Number)
        /\ stream \in Seq(Unit) /\ buffer \in Seq(Unit)
    BY EmptySeq DEF Init
  <2>2. Len(sent) = 0 /\ Len(stream) = 0
    BY DEF Init
  <2> QED
    BY <2>1, <2>2, LengthAssumption DEF Init, TypeOK
<1>2. Pipe = <<>>
  BY DEF Init, Pipe
<1>3. DOMAIN writes = {} /\ DOMAIN Pipe = {} /\ DOMAIN delivered = {}
  BY <1>2 DEF Init
<1> QED
  BY <1>1, <1>2, <1>3 DEF IInv, WritesOK, Orderly, Ascending, WasSent, Ahead, Complete, InOrder

LEMMA SendStep == ASSUME IInv, NEW m \in Message, Send(m) PROVE IInv'
<1> DEFINE i == Len(sent) + 1
           now == IF writes = <<>> THEN Fitting(Length[m]) ELSE 0
           text == SubSeq(Text(i, m), 1, now)
           write == [msg |-> i, done |-> now]
<1>0. /\ sent \in Seq(Message) /\ writes \in Seq([msg : Number, done : Nat])
      /\ stream \in Seq(Unit) /\ buffer \in Seq(Unit) /\ delivered \in Seq(Number)
      /\ Len(stream) <= Room
  BY DEF IInv, TypeOK
<1>1. i \in Number /\ Len(sent) \in Nat /\ Len(stream) \in Nat /\ Room \in Nat
  BY <1>0, LengthAssumption DEF Send, Number
<1>2. now \in Nat /\ now <= Length[m] /\ now <= Room - Len(stream)
  <2>1. Length[m] \in Nat /\ Room - Len(stream) \in Nat
    BY <1>0, <1>1, TextIs
  <2>2. Fitting(Length[m]) = IF Length[m] <= Room - Len(stream) THEN Length[m] ELSE Room - Len(stream)
    BY <2>1, Least DEF Fitting
  <2> QED
    BY <2>1, <2>2
<1>3. /\ sent' = Append(sent, m) /\ stream' = stream \o text
      /\ writes' = IF now = Length[m] THEN writes ELSE Append(writes, write)
      /\ alone' \in {alone, alone \cup {i}}
      /\ UNCHANGED <<buffer, delivered, status, stale>> /\ status = "open"
  BY DEF Send
<1> HIDE DEF i, now
<1>4. /\ text \in Seq(Unit) /\ Len(text) = now /\ DOMAIN text = 1..now
      /\ \A p \in 1..now : text[p].msg = i /\ (text[p].newline <=> p = Length[m])
  <2>1. Text(i, m) \in Seq(Unit) /\ Len(Text(i, m)) = Length[m]
        /\ \A p \in 1..Length[m] : Text(i, m)[p].msg = i /\ (Text(i, m)[p].newline <=> p = Length[m])
    BY <1>1, TextIs
  <2>2. /\ text \in Seq(Unit) /\ Len(text) = now
        /\ \A p \in 1..now : text[p] = Text(i, m)[p]
    BY <1>2, <2>1, Part
  <2> QED
    BY <1>2, <2>1, <2>2
<1> HIDE DEF text
<1>5. /\ sent' \in Seq(Message) /\ Len(sent') = i
      /\ \A k \in 1..Len(sent) : sent'[k] = sent[k]
      /\ sent'[i] = m
  BY <1>0, <1>1, <1>3, AppendProperties DEF i
<1>6. /\ write \in [msg : Number, done : Nat]
      /\ writes' \in Seq([msg : Number, done : Nat])
  BY <1>0, <1>1, <1>2, <1>3, AppendProperties
<1>7. TypeOK'
  <2>1. stream' \in Seq(Unit) /\ Len(stream') = Len(stream) + now
    <3>1. stream' = stream \o text
      BY <1>3
    <3> QED
      BY <1>0, <1>4, <3>1, ConcatProperties
  <2>2. Len(stream') <= Room /\ Len(sent') <= MaxSends
    BY <1>1, <1>2, <1>5, <2>1, LengthAssumption DEF Number
  <2> QED
    BY <1>1, <1>3, <1>5, <1>6, <2>1, <2>2 DEF IInv, TypeOK
<1>8. WritesOK'
  <2> SUFFICES ASSUME NEW k \in DOMAIN writes'
               PROVE  writes'[k].msg <= Len(sent') /\ writes'[k].done < Length[sent'[writes'[k].msg]]
    BY DEF WritesOK
  <2>1. \/ k \in DOMAIN writes /\ writes'[k] = writes[k]
        \/ writes'[k] = write /\ now # Length[m]
    BY <1>0, <1>3, <1>6, AppendProperties
  <2>2. CASE k \in DOMAIN writes /\ writes'[k] = writes[k]
    <3>0. writes[k] \in [msg : Number, done : Nat]
      BY <1>0, <2>2, Member
    <3>1. writes[k].msg \in Number /\ writes[k].msg <= Len(sent)
      BY <2>2, <3>0 DEF IInv, WritesOK
    <3>2. writes[k].msg \in 1..Len(sent)
      BY <1>1, <3>1 DEF Number
    <3> QED
      BY <1>1, <1>5, <2>2, <3>2 DEF IInv, WritesOK, i
  <2>3. CASE writes'[k] = write /\ now # Length[m]
    BY <1>1, <1>2, <1>5, <2>3, TextIs
  <2> QED
    BY <2>1, <2>2, <2>3
<1>9. ASSUME stale = 0 PROVE Orderly'
  <2>1. Orderly
    BY <1>9 DEF IInv
  <2>2. Pipe \in Seq(Unit) /\ Pipe' = Pipe \o text
    <3>1. Pipe' = buffer \o (stream \o text)
      BY <1>3 DEF Pipe
    <3>2. buffer \in Seq(Unit) /\ stream \in Seq(Unit) /\ text \in Seq(Unit)
      BY <1>0, <1>4
    <3>3. (buffer \o stream) \o text = buffer \o (stream \o text)
      BY <3>2, Regrouped
    <3>4. buffer \o stream \in Seq(Unit)
      BY <3>2, ConcatProperties
    <3> QED
      BY <3>1, <3>3, <3>4 DEF Pipe
  <2>3. /\ Len(Pipe) \in Nat /\ DOMAIN Pipe = 1..Len(Pipe)
        /\ Pipe' \in Seq(Unit) /\ Len(Pipe') = Len(Pipe) + now /\ DOMAIN Pipe' = 1..(Len(Pipe) + now)
        /\ \A k \in DOMAIN Pipe' : \/ k \in DOMAIN Pipe /\ Pipe'[k] = Pipe[k]
                                   \/ k - Len(Pipe) \in 1..now /\ Pipe'[k] = text[k - Len(Pipe)]
    <3>1. /\ Len(Pipe) \in Nat /\ DOMAIN Pipe = 1..Len(Pipe)
          /\ Pipe \o text \in Seq(Unit) /\ Len(Pipe \o text) = Len(Pipe) + now
          /\ \A k \in 1..(Len(Pipe) + now) :
               (Pipe \o text)[k] = IF k <= Len(Pipe) THEN Pipe[k] ELSE text[k - Len(Pipe)]
      <4>1. Len(Pipe) \in Nat /\ DOMAIN Pipe = 1..Len(Pipe)
        BY <2>2
      <4>2. text \in Seq(Unit) /\ Len(text) = now
        BY <1>4
      <4> QED
        BY <2>2, <4>1, <4>2, ConcatProperties
    <3>2. DOMAIN (Pipe \o text) = 1..(Len(Pipe) + now)
      BY <3>1
    <3> QED
      BY <1>2, <2>2, <3>1, <3>2
  <2>4. \A k \in DOMAIN Pipe : Pipe[k].msg \in Nat /\ Pipe[k].msg < i
    <3>1. \A k \in DOMAIN Pipe : Pipe[k] \in Unit
      BY <2>2
    <3> QED
      BY <1>1, <2>1, <3>1 DEF Orderly, WasSent, Unit, i
  <2>5. \A k \in DOMAIN delivered : delivered[k] \in Nat /\ delivered[k] < i
    <3>1. \A k \in DOMAIN delivered : delivered[k] \in Number
      BY <1>0
    <3> QED
      BY <1>1, <2>1, <3>1 DEF Orderly, WasSent, Number, i
  <2>6. Ascending(Pipe')
    <3>1. \A p \in DOMAIN text : text[p].newline => p = Len(text)
      BY <1>2, <1>4
    <3>2. i \in Nat
      BY <1>1 DEF Number
    <3> QED
      BY <1>4, <2>1, <2>2, <2>4, <3>1, <3>2, NewAscends DEF Orderly
  <2>7. WasSent' /\ Ahead'
    <3>1. \A k \in DOMAIN Pipe' : (k \in DOMAIN Pipe /\ Pipe'[k].msg = Pipe[k].msg) \/ Pipe'[k].msg = i
      BY <1>4, <2>3
    <3>2. i \in Nat /\ delivered' = delivered /\ Len(sent') = i
      BY <1>1, <1>3, <1>5 DEF Number
    <3>3. WasSent'
      BY <2>4, <2>5, <3>1, <3>2 DEF WasSent
    <3>4. Ahead'
      BY <2>1, <2>5, <3>1, <3>2 DEF Orderly, Ahead
    <3> QED
      BY <3>3, <3>4
  <2>8. Complete'
    <3> SUFFICES ASSUME writes' = <<>>, Pipe' # <<>> PROVE Pipe'[Len(Pipe')].newline
      BY DEF Complete
    <3>1. now = Length[m] /\ now > 0
      <4> HIDE DEF write
      <4>1. Append(writes, write) # <<>>
        BY <1>0, <1>6, NotEmpty
      <4>2. now = Length[m]
        BY <1>3, <4>1
      <4> QED
        BY <1>1, <4>2, TextIs
    <3>2. Pipe'[Len(Pipe')] = text[now]
      BY <1>2, <2>3, <3>1
    <3> QED
      BY <1>2, <1>4, <3>1, <3>2
  <2>9. InOrder'
    BY <1>3, <2>1 DEF Orderly, InOrder
  <2> QED
    BY <2>6, <2>7, <2>8, <2>9 DEF Orderly
<1> QED
  BY <1>3, <1>7, <1>8, <1>9 DEF IInv

LEMMA WriteMoreStep == ASSUME IInv, WriteMore PROVE IInv'
<1> DEFINE Piece == [msg : Number, done : Nat]
           w == Head(writes)
           size == Length[sent[w.msg]]
           now == Fitting(size - w.done)
           more == [w EXCEPT !.done = @ + now]
           \* The units written, of which the memory says what they are.
           part(text) == [p \in 1..now |-> IF w.done + p <= Len(text) THEN text[w.done + p] ELSE Other(FALSE)]
<1>0. /\ sent \in Seq(Message) /\ writes \in Seq(Piece) /\ stream \in Seq(Unit)
      /\ Len(sent) \in Nat /\ Len(sent) <= MaxSends /\ Len(stream) \in Nat /\ Len(stream) < Room
      /\ writes # <<>> /\ MaxSends \in Nat /\ Room \in Nat
  <2>1. writes # <<>> /\ Len(stream) < Room
    BY DEF WriteMore
  <2>2. /\ sent \in Seq(Message) /\ writes \in Seq(Piece) /\ stream \in Seq(Unit)
        /\ Len(sent) <= MaxSends
    BY DEF IInv, TypeOK
  <2>3. Len(sent) \in Nat /\ Len(stream) \in Nat
    BY <2>2
  <2> QED
    BY <2>1, <2>2, <2>3, LengthAssumption
<1>1. /\ w \in Piece /\ w = writes[1] /\ 1 \in DOMAIN writes
      /\ Tail(writes) \in Seq(Piece)
      /\ \A k \in DOMAIN Tail(writes) : k + 1 \in DOMAIN writes /\ Tail(writes)[k] = writes[k + 1]
  <2> HIDE DEF Piece
  <2> QED
    BY <1>0, Tails
<1>2. /\ w.msg \in Number /\ w.done \in Nat /\ w.msg <= Len(sent) /\ w.done < size
  <2>1. w.msg \in Number /\ w.done \in Nat
    BY <1>1
  <2> QED
    BY <1>1, <2>1 DEF IInv, WritesOK
<1>3. /\ \A i \in w.msg..Len(sent) : i \in Number /\ sent[i] \in Message
      /\ size \in Nat
  <2>1. \A i \in w.msg..Len(sent) : i \in Number /\ i \in 1..Len(sent)
    BY <1>0, <1>2 DEF Number
  <2>2. w.msg \in w.msg..Len(sent)
    BY <1>0, <1>2 DEF Number
  <2>3. \A i \in 1..Len(sent) : sent[i] \in Message
    BY <1>0, ElementOfSeq
  <2> QED
    BY <2>1, <2>2, <2>3, TextIs
<1>4. now \in Nat \ {0} /\ now <= Room - Len(stream) /\ w.done + now <= size
  <2>1. size - w.done \in Nat \ {0} /\ Room - Len(stream) \in Nat \ {0}
    BY <1>0, <1>2, <1>3
  <2>2. now = IF size - w.done <= Room - Len(stream) THEN size - w.done ELSE Room - Len(stream)
    BY <2>1, Least DEF Fitting
  <2> QED
    BY <1>2, <1>3, <2>1, <2>2
<1>5. /\ sent' = sent /\ buffer' = buffer /\ delivered' = delivered /\ status' = status /\ alone' = alone
      /\ stale' = stale + 1 /\ stale < MaxStale
      /\ writes' = IF w.done + now = size THEN Tail(writes) ELSE Append(Tail(writes), more)
  BY DEF WriteMore
<1>6. /\ Other(FALSE) \in Unit
      /\ \A newline \in BOOLEAN : Other(newline) \in Unit
  BY <1>0 DEF Other, Unit
<1>7. \E t \in [1..now -> Unit] : stream' = stream \o t
  <2>1. CASE \E i \in w.msg..Len(sent) : stream' = stream \o part(Text(i, sent[i]))
    <3>1. PICK i \in w.msg..Len(sent) : stream' = stream \o part(Text(i, sent[i]))
      BY <2>1
    <3> DEFINE text == Text(i, sent[i])
    <3>2. text \in Seq(Unit)
      BY <1>3, TextIs
    <3> HIDE DEF text
    <3>3. \A k \in 1..Len(text) : text[k] \in Unit
      BY <3>2, ElementOfSeq
    <3>4. Len(text) \in Nat
      BY <3>2
    <3> HIDE DEF w, now
    <3>5. part(text) \in [1..now -> Unit]
      <4>1. ASSUME NEW p \in 1..now
            PROVE  (IF w.done + p <= Len(text) THEN text[w.done + p] ELSE Other(FALSE)) \in Unit
        <5>1. w.done + p \in Nat \ {0}
          BY <1>2, <1>4
        <5>2. CASE w.done + p <= Len(text)
          BY <3>3, <3>4, <5>1, <5>2
        <5>3. CASE ~(w.done + p <= Len(text))
          BY <1>6, <5>3
        <5> QED
          BY <5>2, <5>3
      <4> QED
        BY <4>1
    <3> QED
      BY <3>1, <3>5 DEF text
  <2>2. CASE \E newline \in BOOLEAN : stream' = stream \o [p \in 1..now |-> Other(newline)]
    <3>1. PICK newline \in BOOLEAN : stream' = stream \o [p \in 1..now |-> Other(newline)]
      BY <2>2
    <3>2. [p \in 1..now |-> Other(newline)] \in [1..now -> Unit]
      BY <1>6
    <3> QED
      BY <3>1, <3>2
  <2> QED
    BY <2>1, <2>2 DEF WriteMore
<1>8. stream' \in Seq(Unit) /\ Len(stream') <= Room
  <2>1. PICK t \in [1..now -> Unit] : stream' = stream \o t
    BY <1>7
  <2> HIDE DEF now
  <2>2. t \in Seq(Unit) /\ Len(t) = now
    BY <1>4
  <2>3. stream \o t \in Seq(Unit) /\ Len(stream \o t) = Len(stream) + now
    BY <1>0, <2>2, ConcatProperties
  <2> QED
    BY <1>0, <1>4, <2>1, <2>3
<1>9. more \in Piece /\ more.msg = w.msg /\ more.done = w.done + now
  BY <1>1, <1>2, <1>4
<1> HIDE DEF w, now, more, Piece
<1>10. /\ writes' \in Seq(Piece)
       /\ \A k \in DOMAIN writes' : \/ \E j \in DOMAIN writes : writes'[k] = writes[j]
                                    \/ writes'[k] = more /\ w.done + now # size
  <2>1. CASE w.done + now = size
    BY <1>1, <1>5, <2>1
  <2>2. CASE w.done + now # size
    <3>1. writes' = Append(Tail(writes), more)
      BY <1>5, <2>2
    <3>2. /\ writes' \in Seq(Piece) /\ Len(writes') = Len(Tail(writes)) + 1
          /\ \A k \in 1..Len(Tail(writes)) : writes'[k] = Tail(writes)[k]
          /\ writes'[Len(Tail(writes)) + 1] = more
      BY <1>1, <1>9, <3>1, AppendProperties
    <3>3. Len(Tail(writes)) \in Nat /\ DOMAIN Tail(writes) = 1..Len(Tail(writes)) /\ DOMAIN writes' = 1..Len(writes')
      BY <1>1, <3>2
    <3> QED
      BY <1>1, <2>2, <3>2, <3>3
  <2> QED
    BY <2>1, <2>2
<1>11. TypeOK'
  <2>1. stale' \in 0..MaxStale
    BY <1>5, LengthAssumption DEF IInv, TypeOK
  <2> QED
    BY <1>0, <1>5, <1>8, <1>10, <2>1 DEF IInv, TypeOK, Piece
<1>12. WritesOK'
  <2> SUFFICES ASSUME NEW k \in DOMAIN writes'
               PROVE  writes'[k].msg <= Len(sent') /\ writes'[k].done < Length[sent'[writes'[k].msg]]
    BY DEF WritesOK
  <2>1. CASE \E j \in DOMAIN writes : writes'[k] = writes[j]
    BY <1>5, <2>1 DEF IInv, WritesOK
  <2>2. CASE writes'[k] = more /\ w.done + now # size
    <3>1. writes'[k].msg = w.msg /\ writes'[k].done = w.done + now /\ sent' = sent
      BY <1>5, <1>9, <2>2
    <3>2. w.done + now < size
      BY <1>2, <1>3, <1>4, <2>2
    <3> QED
      BY <1>2, <3>1, <3>2
  <2> QED
    BY <1>10, <2>1, <2>2
<1>13. stale' # 0
  BY <1>5 DEF IInv, TypeOK
<1> QED
  BY <1>11, <1>12, <1>13 DEF IInv

\* The kernel's first units become the buffer's last: the pipe is the same.
LEMMA ArriveStep == ASSUME IInv, Arrive PROVE IInv'
<1>0. buffer \in Seq(Unit) /\ stream \in Seq(Unit) /\ Len(stream) \in Nat /\ Len(stream) <= Room
  BY DEF IInv, TypeOK
<1>1. PICK k \in 1..Len(stream) : /\ buffer' = buffer \o SubSeq(stream, 1, k)
                                 /\ stream' = SubSeq(stream, k + 1, Len(stream))
  BY DEF Arrive
<1>2. /\ SubSeq(stream, 1, k) \in Seq(Unit)
      /\ SubSeq(stream, k + 1, Len(stream)) \in Seq(Unit)
      /\ Len(SubSeq(stream, k + 1, Len(stream))) <= Len(stream)
  BY <1>0, Part
<1>3. SubSeq(stream, 1, k) \o SubSeq(stream, k + 1, Len(stream)) = stream
  BY <1>0, ConcatAdjacentSubSeq, SubSeqFull
<1>4. Pipe' = Pipe
  <2> DEFINE come == SubSeq(stream, 1, k)
             stay == SubSeq(stream, k + 1, Len(stream))
  <2>1. Pipe' = (buffer \o come) \o stay
    BY <1>1 DEF Pipe
  <2>2. come \o stay = stream
    BY <1>3
  <2>3. buffer \in Seq(Unit)
    BY <1>0
  <2>4. come \in Seq(Unit)
    BY <1>2
  <2>5. stay \in Seq(Unit)
    BY <1>2
  <2> HIDE DEF come, stay
  <2>6. (buffer \o come) \o stay = buffer \o (come \o stay)
    BY <2>3, <2>4, <2>5, Regrouped
  <2> QED
    BY <2>1, <2>2, <2>6 DEF Pipe
<1>5. UNCHANGED <<sent, writes, delivered, status, stale, alone>>
  BY DEF Arrive
<1>6. TypeOK'
  <2>1. buffer' \in Seq(Unit)
    BY <1>0, <1>1, <1>2, ConcatProperties
  <2>2. stream' \in Seq(Unit) /\ Len(stream') <= Room
    BY <1>0, <1>1, <1>2, LengthAssumption
  <2> QED
    BY <1>5, <2>1, <2>2 DEF IInv, TypeOK
<1> QED
  BY <1>4, <1>5, <1>6 DEF IInv, WritesOK, Orderly, Ascending, WasSent, Ahead, Complete, InOrder


\* Consuming takes a prefix away.
LEMMA WithoutIs ==
  ASSUME NEW s \in Seq(Unit), NEW n \in Nat
  PROVE  /\ Without(n, s) \in Seq(Unit)
         /\ Follows(Without(n, s), s, IF n <= Len(s) THEN n ELSE Len(s))
<1>1. Len(s) \in Nat /\ \A i \in (n + 1)..Len(s) : s[i] \in Unit
  BY ElementOfSeq
<1>2. /\ Without(n, s) \in Seq(Unit)
      /\ Len(Without(n, s)) = IF n + 1 <= Len(s) THEN Len(s) - n ELSE 0
      /\ \A i \in 1..(Len(s) - n) : Without(n, s)[i] = s[n + i]
  <2> DEFINE t == SubSeq(s, n + 1, Len(s))
  <2>1. /\ t \in Seq(Unit)
        /\ Len(t) = IF n + 1 <= Len(s) THEN Len(s) - (n + 1) + 1 ELSE 0
        /\ \A i \in 1..(Len(s) - (n + 1) + 1) : t[i] = s[(n + 1) + i - 1]
    BY <1>1, SubSeqProperties
  <2>2. \A i \in 1..(Len(s) - n) : (n + 1) + i - 1 = n + i
    BY <1>1
  <2>3. Len(s) - (n + 1) + 1 = Len(s) - n
    BY <1>1
  <2> HIDE DEF t
  <2>4. Without(n, s) = t
    BY DEF Without, t
  <2> QED
    BY <2>1, <2>2, <2>3, <2>4
<1>3. DOMAIN Without(n, s) = 1..Len(Without(n, s))
  BY <1>2
<1> DEFINE d == IF n <= Len(s) THEN n ELSE Len(s)
<1>4. d \in Nat /\ Len(Without(n, s)) = Len(s) - d
  <2>1. Len(s) \in Nat /\ Len(Without(n, s)) = IF n + 1 <= Len(s) THEN Len(s) - n ELSE 0
    BY <1>1, <1>2
  <2>2. CASE n + 1 <= Len(s)
    BY <2>1, <2>2
  <2>3. CASE ~(n + 1 <= Len(s))
    BY <2>1, <2>3
  <2> QED
    BY <2>2, <2>3
<1>5. ASSUME NEW k \in DOMAIN Without(n, s) PROVE Without(n, s)[k] = s[k + d]
  <2>1. n <= Len(s) /\ k \in 1..(Len(s) - n) /\ n + k = k + d
    BY <1>1, <1>2, <1>3
  <2> QED
    BY <1>2, <2>1
<1> QED
  BY <1>2, <1>4, <1>5 DEF Follows

\* read takes a line, and as much again: what is left is the pipe behind the line.
LEMMA PipeAfterRead ==
  ASSUME TypeOK, Read
  PROVE  \E d \in Nat : /\ d >= Len(FirstLine) /\ Follows(Pipe', Pipe, d)
                        /\ buffer' \in Seq(Unit) /\ Pipe' \in Seq(Unit)
<1> DEFINE n == Len(FirstLine)
           rest == Without(n, buffer)
           left == Without(n, rest)
<1>1. buffer \in Seq(Unit) /\ stream \in Seq(Unit) /\ Len(buffer) \in Nat /\ Len(stream) \in Nat
  BY DEF TypeOK
<1>2. n \in DOMAIN buffer /\ n \in Nat /\ n <= Len(buffer)
  BY <1>1, LineStarts DEF Read
<1>3. rest \in Seq(Unit) /\ Follows(rest, buffer, n)
  BY <1>1, <1>2, WithoutIs
<1>4. left \in Seq(Unit) /\ \E d \in Nat : Follows(left, rest, d)
  <2>1. Len(rest) \in Nat
    BY <1>3
  <2> QED
    BY <1>2, <1>3, <2>1, WithoutIs
<1>5. buffer' = left /\ stream' = stream
  BY DEF Read
<1> HIDE DEF n, left, rest
<1>6. PICK d \in Nat : Follows(left, rest, d)
  BY <1>4
<1>7. /\ Len(left) = Len(buffer) - (n + d)
      /\ \A k \in DOMAIN left : left[k] = buffer[k + (n + d)]
  <2>1. \A k \in DOMAIN left : k + d \in DOMAIN rest /\ left[k] = rest[k + d] /\ k \in Nat
    BY <1>3, <1>4, <1>6, SuffixAscends
  <2>2. \A k \in DOMAIN rest : rest[k] = buffer[k + n]
    BY <1>3 DEF Follows
  <2>3. Len(left) = Len(rest) - d /\ Len(rest) = Len(buffer) - n
    BY <1>3, <1>6 DEF Follows
  <2>4. ASSUME NEW k \in DOMAIN left PROVE left[k] = buffer[k + (n + d)]
    <3>1. (k + d) + n = k + (n + d)
      BY <1>2, <2>1
    <3> QED
      BY <2>1, <2>2, <3>1
  <2>5. Len(left) = Len(buffer) - (n + d)
    BY <1>1, <1>2, <2>3
  <2> QED
    BY <2>4, <2>5
<1>8. /\ Pipe' = left \o stream /\ Pipe' \in Seq(Unit) /\ Len(Pipe') = Len(left) + Len(stream)
      /\ Len(left) \in Nat /\ DOMAIN left = 1..Len(left) /\ DOMAIN Pipe' = 1..(Len(left) + Len(stream))
      /\ \A k \in 1..(Len(left) + Len(stream)) :
           Pipe'[k] = IF k <= Len(left) THEN left[k] ELSE stream[k - Len(left)]
  <2>1. Pipe' = left \o stream
    BY <1>5 DEF Pipe
  <2>2. Len(left) \in Nat /\ DOMAIN left = 1..Len(left)
    BY <1>4
  <2>3. /\ Pipe' \in Seq(Unit) /\ Len(Pipe') = Len(left) + Len(stream)
        /\ \A k \in 1..(Len(left) + Len(stream)) :
             Pipe'[k] = IF k <= Len(left) THEN left[k] ELSE stream[k - Len(left)]
    BY <1>1, <1>4, <2>1, ConcatProperties
  <2>4. DOMAIN Pipe' = 1..(Len(left) + Len(stream))
    BY <2>3
  <2> QED
    BY <2>1, <2>2, <2>3, <2>4
<1>9. Follows(Pipe', Pipe, n + d)
  <2>1. n + d \in Nat /\ Len(Pipe') = Len(Pipe) - (n + d)
    <3>1. Len(Pipe) = Len(buffer) + Len(stream)
      BY PipeIs
    <3>2. Len(Pipe') = Len(buffer) - (n + d) + Len(stream)
      BY <1>7, <1>8
    <3> QED
      BY <1>1, <1>2, <3>1, <3>2
  <2>2. ASSUME NEW k \in DOMAIN Pipe', k <= Len(left)
        PROVE  Pipe'[k] = Pipe[k + (n + d)]
    <3>1. k \in DOMAIN left
      BY <1>8, <2>2
    <3>2. k + (n + d) \in DOMAIN buffer
      BY <1>1, <1>2, <1>7, <1>8, <2>2
    <3> QED
      BY <1>7, <1>8, <2>2, <3>1, <3>2, PipeIs
  <2>3. ASSUME NEW k \in DOMAIN Pipe', k > Len(left)
        PROVE  Pipe'[k] = Pipe[k + (n + d)]
    <3>1. k - Len(left) \in DOMAIN stream /\ k + (n + d) = Len(buffer) + (k - Len(left))
      BY <1>1, <1>2, <1>7, <1>8, <2>3
    <3>2. Pipe'[k] = stream[k - Len(left)]
      BY <1>8, <2>3
    <3> QED
      BY <3>1, <3>2, PipeIs
  <2>4. \A k \in DOMAIN Pipe' : k <= Len(left) \/ k > Len(left)
    BY <1>8
  <2> QED
    BY <2>1, <2>2, <2>3, <2>4 DEF Follows
<1> QED
  BY <1>2, <1>4, <1>5, <1>8, <1>9 DEF n

LEMMA ReadStep == ASSUME IInv, Read PROVE IInv'
<1> DEFINE line == FirstLine
           i == line[1].msg
<1>0. /\ TypeOK /\ buffer \in Seq(Unit) /\ delivered \in Seq(Number)
      /\ DOMAIN delivered = 1..Len(delivered) /\ Len(delivered) \in Nat
  BY DEF IInv, TypeOK
<1>1. UNCHANGED <<sent, writes, stream, status, stale, alone>>
  BY DEF Read
<1>2. /\ Len(line) \in DOMAIN buffer /\ Len(line) \in Nat \ {0} /\ line[1] = buffer[1]
      /\ buffer[Len(line)].newline
  BY <1>0, LineStarts DEF Read
<1>3. /\ 1 \in DOMAIN Pipe /\ Pipe[1].msg = i /\ i \in 0..MaxSends
      /\ Len(line) \in DOMAIN Pipe /\ Pipe[Len(line)].newline
  <2>1. 1 \in DOMAIN buffer
    BY <1>0, <1>2
  <2>2. buffer[1] \in Unit
    BY <1>0, <2>1
  <2> QED
    BY <1>0, <1>2, <2>1, <2>2, PipeIs DEF Unit
<1>4. PICK d \in Nat : /\ d >= Len(line) /\ Follows(Pipe', Pipe, d)
                       /\ buffer' \in Seq(Unit) /\ Pipe' \in Seq(Unit)
  BY <1>0, PipeAfterRead
<1>5. delivered' = delivered \/ (i # 0 /\ delivered' = Append(delivered, i))
  BY DEF Read, Parses
<1> HIDE DEF line, i
<1>6. TypeOK'
  <2>1. delivered' \in Seq(Number)
    <3>1. CASE i # 0 /\ delivered' = Append(delivered, i)
      <4>1. i \in Number
        BY <1>3, <3>1 DEF Number
      <4> QED
        BY <1>0, <3>1, <4>1, AppendProperties
    <3> QED
      BY <1>0, <1>5, <3>1
  <2> QED
    BY <1>1, <1>4, <2>1 DEF IInv, TypeOK
<1>7. WritesOK'
  BY <1>1 DEF IInv, WritesOK
<1>8. ASSUME stale = 0 PROVE Orderly'
  <2>1. Orderly
    BY <1>8 DEF IInv
  <2>2. Pipe \in Seq(Unit)
    BY <1>0, PipeIs
  <2>3. /\ \A k \in DOMAIN Pipe' : k + d \in DOMAIN Pipe /\ Pipe'[k] = Pipe[k + d]
        /\ Ascending(Pipe')
        /\ Pipe' # <<>> => Pipe # <<>> /\ Pipe'[Len(Pipe')] = Pipe[Len(Pipe)]
    BY <1>4, <2>1, <2>2, SuffixAscends DEF Orderly
  <2>4. \A k \in DOMAIN Pipe : Pipe[k].msg \in Nat
    <3>1. \A k \in DOMAIN Pipe : Pipe[k] \in Unit
      BY <2>2
    <3> QED
      BY <3>1 DEF Unit
  <2>5. \A k \in DOMAIN Pipe' : i < Pipe'[k].msg
    <3> SUFFICES ASSUME NEW k \in DOMAIN Pipe' PROVE i < Pipe[k + d].msg
      BY <2>3
    <3>1. k \in Nat \ {0}
      BY <1>4
    <3>2. Len(line) < k + d /\ k + d \in DOMAIN Pipe
      BY <1>2, <1>4, <2>3, <3>1
    <3>3. Pipe[Len(line)].msg < Pipe[k + d].msg
      BY <1>3, <2>1, <3>2 DEF Orderly, Ascending
    <3>4. i <= Pipe[Len(line)].msg
      BY <1>2, <1>3, <2>1, <2>4 DEF Orderly, Ascending
    <3> QED
      BY <1>3, <2>4, <3>2, <3>3, <3>4
  <2>6. \A k \in DOMAIN delivered : delivered[k] < i /\ delivered[k] \in Nat
    <3>1. \A k \in DOMAIN delivered : delivered[k] \in Number
      BY <1>0
    <3> QED
      BY <1>3, <2>1, <3>1 DEF Orderly, Ahead, Number
  <2>7. i <= Len(sent)
    BY <1>3, <2>1 DEF Orderly, WasSent
  <2>8. \A k \in DOMAIN Pipe' : Pipe'[k].msg <= Len(sent)
    BY <2>1, <2>3 DEF Orderly, WasSent
  <2>9. Complete'
    BY <1>1, <2>1, <2>3 DEF Orderly, Complete
  <2>10. CASE delivered' = delivered
    <3>1. \A j \in DOMAIN delivered, k \in DOMAIN Pipe' : delivered[j] < Pipe'[k].msg
      BY <2>1, <2>3 DEF Orderly, Ahead
    <3> QED
      BY <1>1, <2>1, <2>3, <2>8, <2>9, <2>10, <3>1 DEF Orderly, WasSent, Ahead, InOrder
  <2>11. CASE i # 0 /\ delivered' = Append(delivered, i)
    <3>1. /\ DOMAIN delivered' = 1..(Len(delivered) + 1)
          /\ \A k \in DOMAIN delivered : delivered'[k] = delivered[k]
          /\ delivered'[Len(delivered) + 1] = i
      <4>1. i \in Number
        BY <1>3, <2>11 DEF Number
      <4>2. /\ delivered' \in Seq(Number) /\ Len(delivered') = Len(delivered) + 1
            /\ \A k \in 1..Len(delivered) : delivered'[k] = delivered[k]
            /\ delivered'[Len(delivered) + 1] = i
        BY <1>0, <2>11, <4>1, AppendProperties
      <4>3. DOMAIN delivered' = 1..Len(delivered')
        BY <4>2
      <4> QED
        BY <1>0, <4>2, <4>3
    <3>2. \A k \in DOMAIN delivered' : \/ k \in DOMAIN delivered /\ delivered'[k] = delivered[k] /\ delivered'[k] < i
                                       \/ k = Len(delivered) + 1 /\ delivered'[k] = i
      BY <1>0, <2>6, <3>1
    <3>3. WasSent'
      BY <1>1, <2>1, <2>7, <2>8, <3>2 DEF Orderly, WasSent
    <3>4. Ahead'
      <4> SUFFICES ASSUME NEW j \in DOMAIN delivered', NEW k \in DOMAIN Pipe'
                   PROVE  delivered'[j] < Pipe'[k].msg
        BY DEF Ahead
      <4>1. Pipe'[k].msg \in Nat /\ i < Pipe'[k].msg
        BY <2>3, <2>4, <2>5
      <4>2. delivered'[j] = i \/ (delivered'[j] \in Nat /\ delivered'[j] < i)
        BY <2>6, <3>2
      <4> QED
        BY <1>3, <4>1, <4>2
    <3>5. InOrder'
      <4> SUFFICES ASSUME NEW j \in DOMAIN delivered', NEW k \in DOMAIN delivered', j < k
                   PROVE  delivered'[j] < delivered'[k]
        BY DEF InOrder
      <4>1. CASE k \in DOMAIN delivered
        <5>1. j \in DOMAIN delivered
          BY <1>0, <3>1, <4>1
        <5> QED
          BY <1>8, <2>1, <3>1, <4>1, <5>1 DEF Orderly, InOrder
      <4>2. CASE k = Len(delivered) + 1
        BY <1>0, <3>1, <3>2, <4>2
      <4> QED
        BY <3>2, <4>1, <4>2
    <3> QED
      BY <2>3, <2>9, <3>3, <3>4, <3>5 DEF Orderly
  <2> QED
    BY <1>5, <2>10, <2>11
<1> QED
  BY <1>1, <1>6, <1>7, <1>8 DEF IInv

LEMMA CloseStep == ASSUME IInv, Close PROVE IInv'
<1>1. UNCHANGED <<sent, stream, buffer, delivered, stale, alone>> /\ writes' = <<>> /\ status' = "ending"
  BY DEF Close
<1>2. TypeOK'
  <2>1. <<>> \in Seq([msg : Number, done : Nat])
    BY EmptySeq
  <2> QED
    BY <1>1, <2>1 DEF IInv, TypeOK
<1>3. Pipe' = Pipe
  BY <1>1 DEF Pipe
<1>4. WritesOK'
  BY <1>1 DEF WritesOK
<1> QED
  BY <1>1, <1>2, <1>3, <1>4 DEF IInv, Orderly, Ascending, WasSent, Ahead, Complete, InOrder

LEMMA DisconnectStep == ASSUME IInv, Disconnect PROVE IInv'
<1>1. /\ UNCHANGED <<sent, buffer, delivered, stale, alone>>
      /\ writes' = <<>> /\ stream' = <<>> /\ status' = "closed"
  BY DEF Disconnect
<1>2. TypeOK'
  <2>1. <<>> \in Seq([msg : Number, done : Nat]) /\ <<>> \in Seq(Unit) /\ Len(<<>>) = 0
    BY EmptySeq
  <2> QED
    BY <1>1, <2>1, LengthAssumption DEF IInv, TypeOK
<1>3. Pipe' = buffer
  <2>1. buffer \in Seq(Unit)
    BY DEF IInv, TypeOK
  <2> QED
    BY <1>1, <2>1, ConcatEmptySeq DEF Pipe
<1>4. \A k \in DOMAIN Pipe' : k \in DOMAIN Pipe /\ Pipe'[k] = Pipe[k]
  BY <1>3, PipeIs DEF IInv
<1>5. WritesOK'
  BY <1>1 DEF WritesOK
<1>6. ASSUME stale = 0 PROVE Orderly'
  <2>1. Orderly
    BY <1>6 DEF IInv
  <2>2. Ascending(Pipe')
    BY <1>4, <2>1 DEF Orderly, Ascending
  <2>3. WasSent' /\ Ahead'
    BY <1>1, <1>4, <2>1 DEF Orderly, WasSent, Ahead
  <2>4. Complete' /\ InOrder'
    BY <1>1, <2>1 DEF Orderly, Complete, InOrder
  <2> QED
    BY <2>2, <2>3, <2>4 DEF Orderly
<1> QED
  BY <1>1, <1>2, <1>5, <1>6 DEF IInv

LEMMA NextIInv == IInv /\ [Next]_vars => IInv'
<1> SUFFICES ASSUME IInv, [Next]_vars PROVE IInv'
  OBVIOUS
<1>1. ASSUME UNCHANGED vars PROVE IInv'
  BY <1>1 DEF vars, IInv, TypeOK, WritesOK, Orderly, Ascending, WasSent, Ahead, Complete, InOrder, Pipe
<1> QED
  BY <1>1, SendStep, WriteMoreStep, ArriveStep, ReadStep, CloseStep, DisconnectStep DEF Next

LEMMA Invariance == Spec => []IInv
BY InitIInv, NextIInv, PTL DEF Spec

-----------------------------------------------------------------------------
(* Theorems. *)

\* Both ends of a connection keep their types, whatever is written from memory that
\* send gave up.
THEOREM TypeCorrect == Spec => []TypeOK
<1>1. IInv => TypeOK
  BY DEF IInv
<1> QED
  BY <1>1, Invariance, PTL

\* Peer::read hands messages over in the order of Peer::send, none of them twice,
\* however many it loses, as long as every write was done within send.
THEOREM DeliveredInOrder == Spec => []InOrder
<1>1. IInv => InOrder
  BY DEF IInv, Orderly, InOrder
<1> QED
  BY <1>1, Invariance, PTL

\* When all that was sent has come, read_buffer_ holds no piece of a message (consume
\* takes as much again as getline did, and what remains ends with a newline).
THEOREM LossesHeal == Spec => []Healed
<1>1. IInv => Healed
  <2> SUFFICES ASSUME IInv, stale = 0, Idle, status = "open", buffer # <<>>
               PROVE  FALSE
    BY DEF Healed
  <2>1. /\ buffer \in Seq(Unit) /\ writes = <<>> /\ stream = <<>> /\ ~HasLine
        /\ Complete
    BY DEF IInv, TypeOK, Idle, Orderly
  <2>2. Pipe = buffer
    BY <2>1, ConcatEmptySeq DEF Pipe
  <2>3. Len(buffer) \in DOMAIN buffer /\ buffer[Len(buffer)].newline
    BY <2>1, <2>2 DEF Complete
  <2> QED
    BY <2>1, <2>3 DEF HasLine
<1> QED
  BY <1>1, Invariance, PTL
=============================================================================
