----------------------------- MODULE PeerStream -----------------------------
(***************************************************************************)
(* One direction of a connection (network/peer.cpp): Peer::send at one end *)
(* and the loop of Peer::read at the other.  BlockSync takes what comes of *)
(* it for granted: messages may vanish behind others, and do not overtake. *)
(*                                                                         *)
(* A message is a line of a few units, the last of which is the newline.   *)
(* read hands over the first line of read_buffer_ and then takes as much   *)
(* again out of it, because std::getline has consumed the line already.    *)
(* What is left of the next message is a line that does not parse.         *)
(*                                                                         *)
(* send gives async_write a string that dies with the call.  The kernel    *)
(* takes what it has room for at once; the rest is written, if at all,     *)
(* from memory that may have been used again.                              *)
(***************************************************************************)
EXTENDS Naturals, Sequences, SequencesExt, FiniteSetsExt

CONSTANTS
  Message,
  Length,     \* Length[m]: its units, newline included
  Room,       \* the units the kernel keeps for the receiver
  MaxSends,   \* bound
  MaxStale    \* bound: writes from memory that was given up

ASSUME LengthAssumption ==
  /\ Length \in [Message -> Nat \ {0}]
  /\ Room \in Nat \ {0} /\ MaxSends \in Nat /\ MaxStale \in Nat

VARIABLES
  sent,       \* the messages given to send, in this order
  writes,     \* what is left of each async_write that is under way
  stream,     \* units in the kernel
  buffer,     \* read_buffer_ of the receiver
  delivered,  \* the numbers of the messages that read handed over
  status,     \* "open", "ending" (closed by the sender) or "closed"
  stale,      \* history: the writes from memory that was given up
  alone       \* history: messages sent with nothing on its way before them

vars == <<sent, writes, stream, buffer, delivered, status, stale, alone>>

-----------------------------------------------------------------------------
Number == 1..MaxSends
Unit == [msg : 0..MaxSends, part : Nat, newline : BOOLEAN]

TypeOK ==
  /\ sent \in Seq(Message) /\ Len(sent) <= MaxSends
  /\ writes \in Seq([msg : Number, done : Nat])
  /\ stream \in Seq(Unit) /\ Len(stream) <= Room
  /\ buffer \in Seq(Unit)
  /\ delivered \in Seq(Number)
  /\ status \in {"open", "ending", "closed"}
  /\ stale \in 0..MaxStale
  /\ alone \in SUBSET Number

Init ==
  /\ sent = <<>> /\ writes = <<>> /\ stream = <<>> /\ buffer = <<>>
  /\ delivered = <<>> /\ status = "open" /\ stale = 0 /\ alone = {}

-----------------------------------------------------------------------------
(* Sending. *)

\* Mutant of Text: the newline is forgotten.
TextOnly(i, m) == [p \in 1..Length[m] |-> [msg |-> i, part |-> p, newline |-> FALSE]]

\* Message number i, which is m, as send writes it.
Text(i, m) == [p \in 1..Length[m] |-> [msg |-> i, part |-> p, newline |-> p = Length[m]]]

Other(newline) == [msg |-> 0, part |-> 0, newline |-> newline]

\* A full line is waiting to be read.
HasLine == \E i \in DOMAIN buffer : buffer[i].newline
Idle == writes = <<>> /\ stream = <<>> /\ ~HasLine

\* Mutant of Fitting: the kernel takes everything.
Everything(left) == left

\* What the kernel takes of `left' units.
Fitting(left) == Min({left, Room - Len(stream)})

\* Peer::send: with no other write waiting, async_write writes what fits before send
\* returns; otherwise it waits behind the others.
Send(m) ==
  LET i == Len(sent) + 1
      now == IF writes = <<>> THEN Fitting(Length[m]) ELSE 0 IN
  /\ status = "open" /\ i <= MaxSends
  /\ sent' = Append(sent, m)
  /\ stream' = stream \o SubSeq(Text(i, m), 1, now)
  /\ writes' = IF now = Length[m] THEN writes ELSE Append(writes, [msg |-> i, done |-> now])
  /\ alone' = IF Idle /\ stale = 0 /\ now = Length[m] THEN alone \cup {i} ELSE alone
  /\ UNCHANGED <<buffer, delivered, status, stale>>

\* The next part of the first write.  Its memory holds the text still, or that of a
\* later message, or something else.  What is then left goes behind the others.
WriteMore ==
  /\ status = "open" /\ writes # <<>> /\ Len(stream) < Room /\ stale < MaxStale
  /\ LET w == Head(writes)
         now == Fitting(Length[sent[w.msg]] - w.done)
         part(text) == [p \in 1..now |-> IF w.done + p <= Len(text) THEN text[w.done + p] ELSE Other(FALSE)]
     IN
     /\ \/ \E i \in w.msg..Len(sent) : stream' = stream \o part(Text(i, sent[i]))
        \/ \E newline \in BOOLEAN : stream' = stream \o [p \in 1..now |-> Other(newline)]
     /\ writes' = IF w.done + now = Length[sent[w.msg]] THEN Tail(writes)
                  ELSE Append(Tail(writes), [w EXCEPT !.done = @ + now])
  /\ stale' = stale + 1
  /\ UNCHANGED <<sent, buffer, delivered, status, alone>>

-----------------------------------------------------------------------------
(* Receiving. *)

\* async_read_until takes more from the kernel while there is no newline in the buffer,
\* as much as one segment brings.
Arrive ==
  /\ status # "closed" /\ ~HasLine
  /\ \E k \in 1..Len(stream) :
       /\ buffer' = buffer \o SubSeq(stream, 1, k)
       /\ stream' = SubSeq(stream, k + 1, Len(stream))
  /\ UNCHANGED <<sent, writes, delivered, status, stale, alone>>

FirstLine == SubSeq(buffer, 1, Min({i \in DOMAIN buffer : buffer[i].newline}))
Without(bytes, b) == SubSeq(b, bytes + 1, Len(b))

\* Message::deserialize takes whole messages only: the end of a JSON object is none.
Parses(line) ==
  LET i == line[1].msg IN i # 0 /\ line = Text(i, sent[i])

\* Mutant of Read: the buffer is consumed before the line is taken from it.
ReadAfterConsume ==
  LET rest == Without(Len(FirstLine), buffer)
      ends == {i \in DOMAIN rest : rest[i].newline}
      line == IF ends = {} THEN rest ELSE SubSeq(rest, 1, Min(ends)) IN
  /\ status # "closed" /\ HasLine
  /\ delivered' = IF line # <<>> /\ Parses(line) THEN Append(delivered, line[1].msg) ELSE delivered
  /\ buffer' = Without(Len(line), rest)
  /\ UNCHANGED <<sent, writes, stream, status, stale, alone>>

\* Mutant of Read: the line is copied, and nothing taken out of the buffer.
ReadWithoutConsume ==
  /\ status # "closed" /\ HasLine
  /\ Parses(FirstLine) /\ Len(delivered) <= MaxSends
  /\ delivered' = Append(delivered, FirstLine[1].msg)
  /\ UNCHANGED <<sent, writes, stream, buffer, status, stale, alone>>

\* The completion handler of Peer::read: getline takes the line, consume as much again.
Read ==
  LET line == FirstLine IN
  /\ status # "closed" /\ HasLine
  /\ delivered' = IF Parses(line) THEN Append(delivered, line[1].msg) ELSE delivered
  /\ buffer' = Without(Len(line), Without(Len(line), buffer))
  /\ UNCHANGED <<sent, writes, stream, status, stale, alone>>

-----------------------------------------------------------------------------
(* The end of the connection. *)

\* The sender closes: what the kernel has is still on its way.
Close ==
  /\ status = "open"
  /\ status' = "ending" /\ writes' = <<>>
  /\ UNCHANGED <<sent, stream, buffer, delivered, stale, alone>>

\* End of file or a broken connection: the receiver disconnects, and drops what it has
\* not read.
Disconnect ==
  /\ status # "closed" /\ ~HasLine
  /\ status' = "closed" /\ writes' = <<>> /\ stream' = <<>>
  /\ UNCHANGED <<sent, buffer, delivered, stale, alone>>

Next ==
  \/ \E m \in Message : Send(m)
  \/ WriteMore
  \/ Arrive \/ Read
  \/ Close \/ Disconnect

Spec == Init /\ [][Next]_vars

\* The kernel brings what it has, and the io thread handles it.
LiveSpec == Spec /\ WF_vars(Arrive) /\ WF_vars(Read)

-----------------------------------------------------------------------------
(* Properties. *)

\* As long as every write was done within send, messages are handed over in the order
\* they were sent in, whole, and no message twice.
InOrder ==
  stale = 0 => \A i, j \in DOMAIN delivered : i < j => delivered[i] < delivered[j]

\* The loss of messages heals: when all that was sent has come, no piece of a message
\* is left in front of the next one.
Healed == stale = 0 /\ Idle /\ status = "open" => buffer = <<>>

\* So a message sent when nothing else was on its way is handed over, whatever was lost
\* before and is sent behind it, unless the connection ends.
AloneIsHeard ==
  \A i \in Number : i \in alone ~> (i \in Range(delivered) \/ status = "closed")
=============================================================================
