------------------------------ MODULE RunProofs ------------------------------
(***************************************************************************)
(* Proofs about a run of amba.  The QMP client, for lines, buffers and     *)
(* reads of any length and any number of events: every line QEMU writes is *)
(* parsed whole and once, requests are answered by their answers, and the  *)
(* client fails only for a reason that is not its own.  The amba ids the   *)
(* plugin gives to states, for any guids, blocks and bound on the ids; the *)
(* threads of `amba run`, for any number of clicks and of messages, with   *)
(* or without crashes of QEMU; and Cmd's waiting for children, for any     *)
(* commands and threads that may panic.                                    *)
(***************************************************************************)
EXTENDS QmpClient, StateIds, RunLifecycle, ChildReaper, StreamLemmas, FiniteSetTheorems, TLAPS

-----------------------------------------------------------------------------
(* Lines.                                                                  *)

Framing == [m \in Messages |-> LineOf(m)]

LEMMA LineBytes ==
  ASSUME NEW m \in Messages, NEW i \in 1 .. LineLength
  PROVE  /\ LineOf(m)[i] \in Bytes
         /\ LineOf(m)[i].of = m /\ LineOf(m)[i].part = i
<1>1. [of |-> m, part |-> i] \in Bytes
  BY DEF Bytes
<1> QED
  BY <1>1 DEF LineOf

LEMMA LineType ==
  ASSUME NEW m \in Messages
  PROVE  LineOf(m) \in Packets(Bytes) /\ Len(LineOf(m)) = LineLength
<1>1. LineLength \in Nat
  BY QmpAssumption
<1>2. LineOf(m) = [i \in 1 .. LineLength |-> LineOf(m)[i]]
  BY DEF LineOf
<1>3. \A i \in 1 .. LineLength : LineOf(m)[i] \in Bytes
  BY LineBytes
<1> QED
  BY <1>1, <1>2, <1>3 DEF Packets

LEMMA FramingType == Framing \in Framings(Messages, Bytes)
  BY LineType DEF Framing, Framings

StreamTyped ==
  /\ sent \in Seq(Messages) /\ taken \in Seq(Messages)
  /\ wire \in Packets(Bytes) /\ buffer \in Packets(Bytes) /\ line \in Packets(Bytes)
  /\ Len(buffer) <= BufferSize /\ Len(line) <= LineLength

TakenAsSent ==
  /\ Len(taken) <= Len(sent)
  /\ \A i \in 1 .. Len(taken) : taken[i] = sent[i]

Ahead(n) == FlattenSeq(Waiting(Framing, sent, n))

\* What was read of a line, read ahead and not read is what was not taken.
Kept == line \o (buffer \o wire) = Ahead(Len(taken))

LinesInv == StreamTyped /\ TakenAsSent /\ Kept

NextIs(m) == Len(taken) < Len(sent) /\ m = sent[Len(taken) + 1]

(* What is in sight of the stream is the next line, as far as it goes, and *)
(* all of it if it is as long.                                             *)
Belongs(m, sight, rest) ==
  /\ \A i \in 1 .. LineLength :
       i \in 1 .. Len(sight) => sight[i].of = m /\ sight[i].part = i
  /\ Len(sight) = LineLength => sight = LineOf(m) /\ rest = Ahead(Len(taken) + 1)

LEMMA NextLine ==
  ASSUME StreamTyped, TakenAsSent, NEW sight \in Packets(Bytes), NEW rest \in Packets(Bytes),
         sight \o rest = Ahead(Len(taken)), Len(sight) > 0
  PROVE  \E m \in Messages : NextIs(m) /\ Belongs(m, sight, rest)
<1>1. Framing \in Framings(Messages, Bytes)
  BY FramingType
<1>2. PICK messages \in Seq(Messages) : messages = sent
  BY DEF StreamTyped
<1>3. PICK n \in 0 .. Len(messages) : n = Len(taken)
  BY <1>2 DEF StreamTyped, TakenAsSent
<1>4. sight \o rest = FlattenSeq(Waiting(Framing, messages, n))
  BY <1>2, <1>3 DEF Ahead
<1>5. NextRead(Framing, messages, n, sight, rest)
  BY <1>1, <1>4, ReadNext
<1>6. PICK m \in Messages : m = messages[n + 1] /\ NextIs(m)
  BY <1>2, <1>3, <1>5 DEF NextRead, NextIs
<1>7. Framing[m] = LineOf(m) /\ Len(LineOf(m)) = LineLength /\ LineLength \in Nat \ {0}
  BY LineType, QmpAssumption DEF Framing
<1>8. ASSUME NEW i \in 1 .. LineLength, i \in 1 .. Len(sight)
      PROVE  sight[i].of = m /\ sight[i].part = i
  <2>1. sight[i] = LineOf(m)[i]
    BY <1>5, <1>6, <1>7, <1>8 DEF NextRead
  <2> QED
    BY <2>1, LineBytes
<1>9. ASSUME Len(sight) = LineLength
      PROVE  sight = LineOf(m) /\ rest = Ahead(Len(taken) + 1)
  <2>1. /\ SubSeq(sight, 1, Len(sight)) = LineOf(m)
        /\ SubSeq(sight, Len(sight) + 1, Len(sight)) \o rest = Ahead(Len(taken) + 1)
    BY <1>2, <1>3, <1>5, <1>6, <1>7, <1>9 DEF NextRead, Ahead
  <2>2. SubSeq(sight, 1, Len(sight)) = sight
    BY DEF Packets
  <2>3. SubSeq(sight, Len(sight) + 1, Len(sight)) = <<>>
    OBVIOUS
  <2>4. <<>> \o rest = rest
    BY DEF Packets
  <2> QED
    BY <2>1, <2>2, <2>3, <2>4, Zenon
<1> QED
  BY <1>6, <1>8, <1>9 DEF Belongs

(* QEMU writes a line.                                                     *)
LEMMA WriteLines ==
  ASSUME LinesInv, NEW m \in Messages, Write(m), UNCHANGED <<buffer, line, taken>>
  PROVE  LinesInv' /\ Stream!Send
<1> USE DEF LinesInv
<1>1. sent' = Append(sent, m) /\ wire' = wire \o LineOf(m)
  BY DEF Write
<1>2. sent \in Seq(Messages) /\ sent' \in Seq(Messages) /\ Len(taken) \in 0 .. Len(sent)
  BY <1>1 DEF StreamTyped, TakenAsSent
<1>3. PICK p \in Packets(Bytes) : p = LineOf(m)
  BY LineType
<1>4. StreamTyped'
  <2>1. wire' \in Packets(Bytes)
    BY <1>1, <1>3 DEF StreamTyped, Packets
  <2> QED
    BY <1>2, <2>1 DEF StreamTyped
<1>5. TakenAsSent'
  BY <1>1, <1>2 DEF TakenAsSent
<1>6. Kept'
  <2>1. \A n \in 0 .. Len(sent), more \in Seq(Messages) : more = Append(sent, m) =>
          FlattenSeq(Waiting(Framing, more, n)) = FlattenSeq(Waiting(Framing, sent, n)) \o Framing[m]
    BY <1>2, FramingType, WaitingSent
  <2>2. FlattenSeq(Waiting(Framing, sent', Len(taken)))
          = FlattenSeq(Waiting(Framing, sent, Len(taken))) \o p
    BY <1>1, <1>2, <1>3, <2>1 DEF Framing
  <2>3. line \in Packets(Bytes) /\ buffer \in Packets(Bytes) /\ wire \in Packets(Bytes)
    BY DEF StreamTyped
  <2>4. (line \o (buffer \o wire)) \o p = line \o (buffer \o (wire \o p))
    BY <2>3, SMTT(60) DEF Packets
  <2> QED
    BY <1>1, <1>3, <2>2, <2>4 DEF Kept, Ahead
<1>7. Stream!Send
  BY <1>1 DEF Stream!Send
<1> QED
  BY <1>4, <1>5, <1>6, <1>7

LEMMA MinOf ==
  ASSUME NEW I, I \subseteq Nat, I # {}
  PROVE  Min(I) \in I /\ \A i \in I : Min(I) <= i
<1>1. \E x \in I : \A i \in I : x <= i
  BY LeastNumber
<1> QED
  BY <1>1 DEF Min

(* A read takes some of the buffer, or of the socket.                      *)
LEMMA FilledType ==
  ASSUME StreamTyped, NEW filled \in Filled
  PROVE  \E src \in Packets(Bytes), rest \in Packets(Bytes) :
           /\ filled[1] = src /\ filled[2] = rest /\ src \o rest = buffer \o wire
           /\ Len(src) \in 1 .. BufferSize
<1>1. wire \in Packets(Bytes) /\ buffer \in Packets(Bytes) /\ BufferSize \in Nat
      /\ Len(wire) \in Nat /\ Len(buffer) \in Nat /\ (buffer = <<>> <=> Len(buffer) = 0)
  BY EmptyOrNot, QmpAssumption DEF StreamTyped, Packets
<1>2. CASE buffer # <<>>
  BY <1>1, <1>2 DEF Filled, StreamTyped
<1>3. CASE buffer = <<>>
  <2>1. PICK n \in 0 .. Len(wire) :
          n \in 1 .. BufferSize /\ filled = <<SubSeq(wire, 1, n), SubSeq(wire, n + 1, Len(wire))>>
    BY <1>1, <1>3 DEF Filled
  <2>2. /\ SubSeq(wire, 1, n) \in Packets(Bytes) /\ Len(SubSeq(wire, 1, n)) = n
        /\ SubSeq(wire, n + 1, Len(wire)) \in Packets(Bytes)
        /\ SubSeq(wire, 1, n) \o SubSeq(wire, n + 1, Len(wire)) = wire
    BY <1>1, SplitOff
  <2>3. buffer \o wire = wire
    BY <1>1, <1>3 DEF Packets
  <2> QED
    BY <2>1, <2>2, <2>3
<1> QED
  BY <1>2, <1>3

(* ReadUntil takes nothing past the end of its line.                       *)
LEMMA ReadLines ==
  ASSUME LinesInv, Read
  PROVE  LinesInv'
<1> USE DEF LinesInv
<1>1. PICK filled \in Filled, space \in Spaces :
        LET src == filled[1]
            n == IF Limit(src) < space THEN Limit(src) ELSE space
        IN  /\ line' = line \o SubSeq(src, 1, n)
            /\ buffer' = SubSeq(src, n + 1, Len(src))
            /\ wire' = filled[2]
  BY DEF Read
<1>2. UNCHANGED <<sent, taken>>
  BY DEF Read, theirs
<1>3. PICK src \in Packets(Bytes), rest \in Packets(Bytes) :
        /\ filled[1] = src /\ filled[2] = rest /\ src \o rest = buffer \o wire
        /\ Len(src) \in 1 .. BufferSize
  BY FilledType
<1>4. PICK l \in Packets(Bytes) : l = line /\ Len(l) \in 0 .. LineLength
  <2>1. line \in Packets(Bytes) /\ Len(line) \in Nat /\ Len(line) <= LineLength
    BY DEF StreamTyped, Packets
  <2> QED
    BY <2>1, QmpAssumption
<1>5. PICK m \in Messages : NextIs(m) /\ Belongs(m, l \o src, rest)
  <2>1. l \o src \in Packets(Bytes) /\ Len(l \o src) = Len(l) + Len(src)
    BY DEF Packets
  <2>2. Len(l \o src) > 0
    <3>1. Len(l) \in Nat /\ Len(src) \in Nat \ {0}
      BY <1>3, <1>4, QmpAssumption
    <3> QED
      BY <2>1, <3>1
  <2>3. Associates(Bytes)
    BY Associative
  <2>4. l \o (src \o rest) = Ahead(Len(taken))
    BY <1>3, <1>4, Zenon DEF Kept
  <2>5. (l \o src) \o rest = Ahead(Len(taken))
    BY <2>3, <2>4, Zenon DEF Associates
  <2> QED
    BY <2>1, <2>2, <2>5, NextLine, Zenon
<1>6. LineLength \in Nat \ {0} /\ Len(l) \in Nat /\ Len(src) \in Nat
  BY <1>3, <1>4, QmpAssumption
<1>7. Len(l) < LineLength
  <2> SUFFICES ASSUME Len(l) = LineLength PROVE FALSE
    BY <1>4, <1>6
  <2>1. (l \o src)[LineLength] = l[LineLength] /\ LineLength \in 1 .. Len(l \o src)
    BY <1>6 DEF Packets
  <2>2. l[LineLength].part = LineLength
    BY <1>5, <1>6, <2>1 DEF Belongs
  <2>3. Last(line) = l[LineLength] /\ line # <<>>
    BY <1>4, <1>6 DEF Last
  <2>4. AtEnd
    BY <2>2, <2>3 DEF AtEnd, IsEnd
  <2> QED
    BY <2>4 DEF Read
<1>8. LineLength - Len(l) <= Len(src) => IsEnd(src[LineLength - Len(l)])
  <2> HAVE LineLength - Len(l) <= Len(src)
  <2>1. /\ (l \o src)[LineLength] = src[LineLength - Len(l)]
        /\ LineLength \in 1 .. Len(l \o src)
    BY <1>6, <1>7 DEF Packets
  <2>2. (l \o src)[LineLength].part = LineLength
    BY <1>5, <1>6, <2>1 DEF Belongs
  <2> QED
    BY <2>1, <2>2 DEF IsEnd
<1>9. Limit(src) \in 0 .. Len(src) /\ Limit(src) <= LineLength - Len(l)
  <2> DEFINE I == {i \in 1 .. Len(src) : IsEnd(src[i])}
  <2>1. DOMAIN src = 1 .. Len(src)
    BY DEF Packets
  <2>2. CASE I = {}
    <3>1. Limit(src) = Len(src)
      BY <2>1, <2>2 DEF Limit
    <3>2. ~ (LineLength - Len(l) <= Len(src))
      <4>1. LineLength - Len(l) <= Len(src) => LineLength - Len(l) \in I
        BY <1>6, <1>7, <1>8
      <4> QED
        BY <2>2, <4>1
    <3> QED
      BY <1>6, <3>1, <3>2
  <2>3. CASE I # {}
    <3>1. Limit(src) = Min(I)
      BY <2>1, <2>3 DEF Limit, SelectInSeq
    <3>2. I \subseteq Nat
      OBVIOUS
    <3>3. Min(I) \in I /\ \A i \in I : Min(I) <= i
      <4> HIDE DEF I
      <4> QED
        BY <2>3, <3>2, MinOf
    <3>4. LineLength - Len(l) <= Len(src) => LineLength - Len(l) \in I
      BY <1>6, <1>7, <1>8
    <3> QED
      BY <1>6, <3>1, <3>3, <3>4
  <2> QED
    BY <2>2, <2>3
<1>10. PICK n \in 0 .. Len(src) :
         /\ Len(l) + n <= LineLength
         /\ line' = l \o SubSeq(src, 1, n)
         /\ buffer' = SubSeq(src, n + 1, Len(src))
         /\ wire' = rest
  <2>1. space \in Nat
    BY QmpAssumption
  <2>2. PICK n \in Nat : n = IF Limit(src) < space THEN Limit(src) ELSE space
    BY <1>9, <2>1
  <2>3. n \in 0 .. Len(src) /\ Len(l) + n <= LineLength
    BY <1>6, <1>9, <2>1, <2>2
  <2>4. line' = l \o SubSeq(src, 1, n) /\ buffer' = SubSeq(src, n + 1, Len(src)) /\ wire' = rest
    BY <1>1, <1>3, <1>4, <2>2
  <2> QED
    BY <2>3, <2>4
<1>11. PICK b \in Packets(Bytes), left \in Packets(Bytes) : PartRead(l, src, rest, n, b, left)
  BY ReadPart
<1>12. line' = b /\ buffer' = left /\ Len(b) = Len(l) + n /\ Len(left) = Len(src) - n
       /\ b \o (left \o rest) = l \o (src \o rest)
  BY <1>10, <1>11 DEF PartRead
<1>13. StreamTyped'
  <2>1. Len(left) <= BufferSize /\ Len(b) <= LineLength
    BY <1>3, <1>6, <1>10, <1>12, QmpAssumption
  <2> QED
    BY <1>2, <1>10, <1>12, <2>1 DEF StreamTyped
<1>14. TakenAsSent'
  BY <1>2 DEF TakenAsSent
<1>15. Kept'
  BY <1>2, <1>3, <1>4, <1>10, <1>12 DEF Kept, Ahead
<1> QED
  BY <1>13, <1>14, <1>15

(* At the end of a line, the line is the next one and nothing else.        *)
WholeLine(m) == NextIs(m) /\ line = LineOf(m) /\ line[1].of = m

LEMMA LineIsNext ==
  ASSUME LinesInv, AtEnd
  PROVE  \E m \in Messages : WholeLine(m)
<1> USE DEF LinesInv
<1>1. PICK l \in Packets(Bytes) : l = line /\ Len(l) \in 1 .. LineLength
  <2>1. line \in Packets(Bytes) /\ line # <<>> /\ Len(line) <= LineLength
    BY DEF StreamTyped, AtEnd
  <2>2. Len(line) \in Nat /\ Len(line) # 0
    BY <2>1, EmptyOrNot DEF Packets
  <2> QED
    BY <2>1, <2>2, QmpAssumption
<1>2. PICK rest \in Packets(Bytes) : rest = buffer \o wire
  <2>1. buffer \o wire \in Packets(Bytes)
    BY DEF StreamTyped, Packets
  <2> QED
    BY <2>1
<1>3. PICK m \in Messages : NextIs(m) /\ Belongs(m, l, rest)
  <2>1. Len(l) > 0 /\ l \o rest = Ahead(Len(taken))
    BY <1>1, <1>2 DEF Kept
  <2> QED
    BY <2>1, NextLine
<1>4. Len(l) = LineLength
  <2>1. Last(line) = l[Len(l)]
    BY <1>1 DEF Last
  <2>2. l[Len(l)].part = Len(l)
    BY <1>1, <1>3, QmpAssumption DEF Belongs
  <2> QED
    BY <2>1, <2>2 DEF AtEnd, IsEnd
<1>5. l = LineOf(m)
  BY <1>3, <1>4 DEF Belongs
<1>6. LineOf(m)[1].of = m
  BY LineBytes, QmpAssumption
<1> QED
  BY <1>1, <1>3, <1>5, <1>6 DEF WholeLine

LEMMA ReceiveLines ==
  ASSUME LinesInv, AtEnd, NEW m \in Messages, WholeLine(m),
         taken' = Append(taken, m), line' = <<>>, UNCHANGED <<buffer, sent, wire>>
  PROVE  LinesInv' /\ Stream!Take
<1> USE DEF LinesInv
<1>1. NextIs(m) /\ taken \in Seq(Messages) /\ sent \in Seq(Messages)
  BY DEF WholeLine, StreamTyped
<1>2. taken' \in Seq(Messages) /\ Len(taken') = Len(taken) + 1
      /\ \A i \in 1 .. Len(taken') : taken'[i] = IF i = Len(taken) + 1 THEN m ELSE taken[i]
  BY <1>1
<1>3. <<>> \in Packets(Bytes) /\ Len(<<>>) = 0 /\ LineLength \in Nat
  BY QmpAssumption DEF Packets
<1>4. StreamTyped'
  BY <1>2, <1>3 DEF StreamTyped
<1>5. TakenAsSent'
  BY <1>1, <1>2 DEF TakenAsSent, NextIs
<1>6. PICK l \in Packets(Bytes), rest \in Packets(Bytes) : l = line /\ rest = buffer \o wire
  <2>1. line \in Packets(Bytes) /\ buffer \o wire \in Packets(Bytes)
    BY DEF StreamTyped, Packets
  <2> QED
    BY <2>1
<1>7. Len(l) = LineLength
  BY <1>6, LineType DEF WholeLine
<1>8. rest = Ahead(Len(taken) + 1)
  <2>1. Len(l) > 0 /\ l \o rest = Ahead(Len(taken))
    BY <1>6, <1>7, QmpAssumption DEF Kept
  <2>2. PICK k \in Messages : Belongs(k, l, rest)
    BY <2>1, NextLine
  <2> QED
    BY <1>7, <2>2 DEF Belongs
<1>9. <<>> \o rest = rest
  BY DEF Packets
<1>10. Kept'
  BY <1>2, <1>6, <1>8, <1>9 DEF Kept, Ahead
<1>11. Stream!Take
  BY <1>1 DEF Stream!Take, NextIs
<1> QED
  BY <1>4, <1>5, <1>10, <1>11

LEMMA InitLines == QmpInit => LinesInv /\ Stream!Init
<1> SUFFICES ASSUME QmpInit PROVE LinesInv /\ Stream!Init
  OBVIOUS
<1> USE DEF QmpInit
<1>1. <<>> \in Packets(Bytes) /\ Len(<<>>) = 0 /\ LineLength \in Nat /\ BufferSize \in Nat
  BY QmpAssumption DEF Packets
<1>2. StreamTyped /\ TakenAsSent
  BY <1>1 DEF StreamTyped, TakenAsSent
<1>3. Ahead(0) = <<>>
  <2>1. Waiting(Framing, sent, 0) = <<>>
    BY DEF Waiting
  <2> QED
    BY <2>1, FlattenEmpty DEF Ahead
<1>4. Kept
  BY <1>3 DEF Kept
<1> QED
  BY <1>2, <1>4 DEF LinesInv, Stream!Init

-----------------------------------------------------------------------------
(* The handshake.                                                          *)

\* Responses on their way.
Replies == {i \in Len(taken) + 1 .. Len(sent) : sent[i] \in Answers}

HandshakeTyped ==
  /\ qemu \in {"starting", "listening", "ended"}
  /\ asked \in Seq(1 .. 2) /\ Len(asked) <= 1
  /\ able \in BOOLEAN
  /\ attempt \in 0 .. 11 /\ (client = "connecting" => attempt <= 10)
  /\ client \in {"connecting", "receiving", "told", "failed", "panicked"}
  /\ stage \in 1 .. 4
  /\ id \in 1 .. 3
  /\ answers = [i \in 1 .. (IF stage = 1 THEN 0 ELSE stage - 2) |-> i]

\* Before it has read the greeting, the client has asked for nothing, and
\* QEMU has said nothing else.
Greeted ==
  /\ client = "connecting" => stage = 1 /\ id = 1 /\ sent = <<>> /\ asked = <<>> /\ ~able
  /\ client = "receiving" /\ stage = 1 =>
       id = 1 /\ sent = <<Greeting>> /\ taken = <<>> /\ asked = <<>> /\ ~able

\* The request n is on its way, or the response to it is.
Owed(n) ==
  \/ asked = <<n>> /\ Replies = {}
  \/ asked = <<>> /\ \E i \in Replies : Replies = {i} /\ sent[i].id = n

Asking ==
  client = "receiving" /\ stage # 1 =>
    /\ id = (IF stage = 4 THEN 3 ELSE stage)
    /\ \A i \in Len(taken) + 1 .. Len(sent) : sent[i] # Greeting
    /\ IF stage = 4 THEN asked = <<>> /\ Replies = {} ELSE Owed(stage - 1)

HandshakeInv == HandshakeTyped /\ Greeted /\ Asking /\ FailsForAReason

LEMMA Kinds ==
  /\ Greeting \in Messages /\ Greeting.kind = "Greeting"
  /\ \A m \in Answers : m \in Messages /\ m.kind \in {"Response", "Error"} /\ m.id \in 1 .. 2
  /\ \A m \in Events : m \in Messages /\ m.kind = "Event" /\ m.data \in BOOLEAN
  /\ \A m \in Messages : m = Greeting \/ m \in Answers \/ m \in Events
  /\ \A m \in Events : m \notin Answers /\ m # Greeting
  /\ Greeting \notin Answers
  BY DEF Greeting, Answers, Events, SHUTDOWN, Messages

LEMMA StageNames ==
  ASSUME stage \in 1 .. 4
  PROVE  /\ Stages[stage] = "greeting" <=> stage = 1
         /\ Stages[stage] = "events" <=> stage = 4
         /\ Stages[stage] \in {"QmpCapabilities", "QueryStatus"} <=> stage \in {2, 3}
  BY DEF Stages

LEMMA HandshakeHolds ==
  ASSUME LinesInv, HandshakeInv
  PROVE  AnsweredOrFailed
<1> USE DEF HandshakeInv, HandshakeTyped
<1>1. QmpTypeOK
  <2>1. \A s \in {wire, buffer, line} : s \in Seq(Bytes)
    BY DEF LinesInv, StreamTyped, Packets
  <2>2. DOMAIN Stages = 1 .. 4
    BY DEF Stages
  <2>3. answers \in Seq(1 .. 2 \cup {0})
    OBVIOUS
  <2> QED
    BY <2>1, <2>2, <2>3 DEF QmpTypeOK, LinesInv, StreamTyped
<1>2. AnswersMatch
  <2>1. ASSUME NEW i \in DOMAIN answers PROVE answers[i] = i
    OBVIOUS
  <2>2. ASSUME client = "receiving"
        PROVE  Len(asked) + Cardinality(Replies)
                 = IF Stages[stage] \in {"QmpCapabilities", "QueryStatus"} THEN 1 ELSE 0
    <3>1. CASE stage \in {2, 3}
      <4>1. Owed(stage - 1)
        BY <2>2, <3>1 DEF Asking
      <4>2. CASE Replies = {} /\ asked = <<stage - 1>>
        BY <3>1, <4>2, FS_EmptySet, StageNames
      <4>3. CASE asked = <<>> /\ \E i \in Replies : Replies = {i}
        <5>1. Cardinality(Replies) = 1
          BY <4>3, FS_Singleton
        <5>2. Len(asked) = 0
          BY <4>3
        <5> QED
          BY <3>1, <5>1, <5>2, StageNames
      <4> QED
        BY <4>1, <4>2, <4>3 DEF Owed
    <3>2. CASE stage \in {1, 4}
      <4>1. asked = <<>> /\ Replies = {}
        <5>1. CASE stage = 1
          <6>1. sent = <<Greeting>> /\ taken = <<>> /\ asked = <<>>
            BY <2>2, <5>1 DEF Greeted
          <6>2. \A i \in 1 .. 1 : sent[i] \notin Answers
            BY <6>1, Kinds
          <6> QED
            BY <6>1, <6>2 DEF Replies
        <5>2. CASE stage = 4
          BY <2>2, <5>2 DEF Asking
        <5> QED
          BY <3>2, <5>1, <5>2
      <4> QED
        BY <3>2, <4>1, FS_EmptySet, StageNames
    <3> QED
      BY <3>1, <3>2
  <2> QED
    BY <2>1, <2>2 DEF AnswersMatch, Replies
<1> QED
  BY <1>1, <1>2 DEF AnsweredOrFailed

LEMMA InitHandshake == QmpInit => HandshakeInv
<1> SUFFICES ASSUME QmpInit PROVE HandshakeInv
  OBVIOUS
<1>1. answers = [i \in 1 .. 0 |-> i]
  BY DEF QmpInit
<1>2. (IF stage = 1 THEN 0 ELSE stage - 2) = 0
  BY DEF QmpInit
<1>3. answers = [i \in 1 .. (IF stage = 1 THEN 0 ELSE stage - 2) |-> i]
  BY <1>1, <1>2, Zenon
<1>4. HandshakeTyped
  <2>1. asked \in Seq(1 .. 2) /\ Len(asked) <= 1
    BY DEF QmpInit
  <2> QED
    <3>1. 0 \in 0 .. 11 /\ 0 <= 10 /\ 1 \in 1 .. 4 /\ 1 \in 1 .. 3
      OBVIOUS
    <3>2. able \in BOOLEAN
      BY Zenon DEF QmpInit
    <3>3. /\ qemu \in {"starting", "listening", "ended"}
          /\ attempt \in 0 .. 11 /\ attempt <= 10
          /\ client \in {"connecting", "receiving", "told", "failed", "panicked"}
          /\ stage \in 1 .. 4 /\ id \in 1 .. 3
      BY <3>1 DEF QmpInit
    <3> QED
      BY <1>3, <2>1, <3>2, <3>3, Zenon DEF HandshakeTyped
<1> QED
  BY <1>4 DEF QmpInit, HandshakeInv, Greeted, Asking, FailsForAReason

\* Nothing of the handshake is touched.
LEMMA HandshakeStays ==
  ASSUME HandshakeInv, UNCHANGED <<asked, able, sent, attempt, client, stage, id, answers, taken>>,
         qemu' = qemu \/ (qemu' \in {"listening", "ended"} /\ qemu # "ended")
  PROVE  HandshakeInv'
<1> USE DEF HandshakeInv
<1>1. HandshakeTyped'
  BY DEF HandshakeTyped
<1>2. Greeted'
  BY DEF Greeted
<1>3. Replies' = Replies
  BY DEF Replies
<1>4. Asking'
  BY <1>3 DEF Asking, Owed
<1>5. FailsForAReason'
  BY DEF FailsForAReason
<1> QED
  BY <1>1, <1>2, <1>4, <1>5

\* A line that was written is the last on its way.
LEMMA RepliesSent ==
  ASSUME LinesInv, NEW m \in Messages, sent' = Append(sent, m), taken' = taken
  PROVE  /\ \A i \in Len(taken') + 1 .. Len(sent') :
              sent'[i] = IF i = Len(sent) + 1 THEN m ELSE sent[i]
         /\ Replies' = Replies \cup {i \in {Len(sent) + 1} : m \in Answers}
         /\ Len(sent) + 1 \in Len(taken') + 1 .. Len(sent')
         /\ Len(sent') = Len(sent) + 1
<1>1. sent \in Seq(Messages) /\ taken \in Seq(Messages) /\ Len(taken) \in Nat /\ Len(sent) \in Nat
      /\ Len(taken) <= Len(sent)
  BY DEF LinesInv, StreamTyped, TakenAsSent
<1>2. /\ Len(sent') = Len(sent) + 1 /\ sent'[Len(sent) + 1] = m
      /\ \A i \in 1 .. Len(sent) : sent'[i] = sent[i]
  BY <1>1
<1>3. \A i \in Len(taken') + 1 .. Len(sent') : sent'[i] = IF i = Len(sent) + 1 THEN m ELSE sent[i]
  BY <1>1, <1>2
<1>4. Replies' = Replies \cup {i \in {Len(sent) + 1} : m \in Answers}
  BY <1>1, <1>2 DEF Replies
<1> QED
  BY <1>1, <1>2, <1>3, <1>4

LEMMA AnnounceHandshake ==
  ASSUME LinesInv, HandshakeInv, Announce
  PROVE  HandshakeInv'
<1> USE DEF HandshakeInv
<1>1. PICK e \in Events : sent' = Append(sent, e)
  BY DEF Announce, Write
<1>2. UNCHANGED <<qemu, asked, able, attempt, client, stage, id, answers, taken>> /\ able
  BY DEF Announce, ours
<1>3. e \in Messages /\ e \notin Answers /\ e # Greeting
  BY Kinds
<1>4. /\ Replies' = Replies
      /\ \A i \in Len(taken') + 1 .. Len(sent') :
           sent'[i] = IF i = Len(sent) + 1 THEN e ELSE sent[i]
      /\ Len(sent') = Len(sent) + 1 /\ Len(sent) \in Nat
  <2>1. {i \in {Len(sent) + 1} : e \in Answers} = {}
    BY <1>3
  <2>2. taken' = taken
    BY <1>2
  <2>3. /\ \A i \in Len(taken') + 1 .. Len(sent') :
             sent'[i] = IF i = Len(sent) + 1 THEN e ELSE sent[i]
        /\ Replies' = Replies \cup {i \in {Len(sent) + 1} : e \in Answers}
        /\ Len(sent') = Len(sent) + 1
    BY <1>1, <1>3, <2>2, RepliesSent
  <2>4. Len(sent) \in Nat
    BY DEF LinesInv, StreamTyped
  <2> QED
    BY <2>1, <2>3, <2>4
<1>5. HandshakeTyped'
  BY <1>2 DEF HandshakeTyped
<1>6. Greeted'
  BY <1>2 DEF Greeted
<1>7. Asking'
  <2> SUFFICES ASSUME client = "receiving", stage # 1
               PROVE  Asking'
    BY <1>2 DEF Asking
  <2>1. \A i \in Len(taken) + 1 .. Len(sent') : sent'[i] # Greeting
    <3>1. \A i \in Len(taken) + 1 .. Len(sent) : sent[i] # Greeting
      BY DEF Asking
    <3>2. Len(taken) \in Nat /\ Len(sent) \in Nat /\ taken' = taken /\ Len(sent') = Len(sent) + 1
      BY <1>2, <1>4 DEF LinesInv, StreamTyped
    <3>3. ASSUME NEW i \in Len(taken) + 1 .. Len(sent'), i # Len(sent) + 1
          PROVE  i \in Len(taken) + 1 .. Len(sent)
      BY <3>2, <3>3
    <3> QED
      BY <1>3, <1>4, <3>1, <3>2, <3>3
  <2>2. Owed(stage - 1) => Owed(stage - 1)'
    <3>1. \A i \in Replies : sent'[i] = sent[i]
      <4>1. Len(taken) \in Nat /\ Len(sent) \in Nat /\ taken' = taken /\ Len(sent') = Len(sent) + 1
        BY <1>2, <1>4 DEF LinesInv, StreamTyped
      <4>2. \A i \in Replies : i \in Len(taken') + 1 .. Len(sent') /\ i # Len(sent) + 1
        BY <4>1 DEF Replies
      <4> QED
        BY <1>4, <4>2
    <3> QED
      BY <1>2, <1>4, <3>1 DEF Owed
  <2> QED
    BY <1>2, <1>4, <2>1, <2>2 DEF Asking
<1>8. FailsForAReason'
  BY <1>2 DEF FailsForAReason
<1> QED
  BY <1>5, <1>6, <1>7, <1>8

LEMMA AnswerHandshake ==
  ASSUME LinesInv, HandshakeInv, Answer
  PROVE  HandshakeInv'
<1> USE DEF HandshakeInv
<1>1. PICK n \in 1 .. 2 : asked = <<n>>
  <2>1. asked \in Seq(1 .. 2) /\ Len(asked) <= 1 /\ asked # <<>>
    BY DEF Answer, HandshakeTyped
  <2>2. Len(asked) = 1
    <3>1. Len(asked) \in Nat /\ Len(asked) # 0
      BY <2>1, EmptyOrNot
    <3>2. \A k \in Nat : k <= 1 /\ k # 0 => k = 1
      OBVIOUS
    <3> QED
      BY <2>1, <3>1, <3>2, Zenon
  <2>3. asked = <<asked[1]>> /\ asked[1] \in 1 .. 2
    BY <2>1, <2>2
  <2> QED
    BY <2>3
<1>2. PICK kind \in {"Response", "Error"} : sent' = Append(sent, [kind |-> kind, id |-> n])
  BY <1>1 DEF Answer, Write
<1>3. PICK m \in Answers : m = [kind |-> kind, id |-> n] /\ m.id = n
  <2>1. [kind |-> kind, id |-> n] \in Answers
    BY DEF Answers
  <2> QED
    BY <2>1
<1>4. UNCHANGED <<qemu, attempt, client, stage, id, answers, taken>> /\ able' = TRUE /\ asked' = <<>>
  BY <1>1 DEF Answer, ours
<1>5. m \in Messages /\ m # Greeting /\ sent' = Append(sent, m)
  BY <1>2, <1>3, Kinds
<1>6. /\ \A i \in Len(taken') + 1 .. Len(sent') :
           sent'[i] = IF i = Len(sent) + 1 THEN m ELSE sent[i]
      /\ Replies' = Replies \cup {Len(sent) + 1}
      /\ Len(sent) + 1 \in Len(taken') + 1 .. Len(sent')
      /\ Len(sent') = Len(sent) + 1
  BY <1>4, <1>5, RepliesSent
<1>7. HandshakeTyped'
  BY <1>4 DEF HandshakeTyped
<1>8. Greeted'
  BY <1>1, <1>4 DEF Greeted
<1>9. Asking'
  <2> SUFFICES ASSUME client = "receiving", stage # 1
               PROVE  Asking'
    BY <1>4 DEF Asking
  <2>1. \A i \in Len(taken) + 1 .. Len(sent') : sent'[i] # Greeting
    BY <1>4, <1>5, <1>6 DEF Asking, LinesInv, StreamTyped
  <2>2. stage # 4 /\ Owed(stage - 1)
    BY <1>1 DEF Asking
  <2>3. Replies = {} /\ n = stage - 1
    BY <1>1, <2>2 DEF Owed
  <2>4. Replies' = {Len(sent) + 1} /\ sent'[Len(sent) + 1].id = stage - 1
    BY <1>3, <1>6, <2>3
  <2>5. Owed(stage - 1)'
    BY <1>4, <2>4 DEF Owed
  <2> QED
    BY <1>4, <2>1, <2>2, <2>5 DEF Asking
<1>10. FailsForAReason'
  BY <1>4 DEF FailsForAReason
<1> QED
  BY <1>7, <1>8, <1>9, <1>10

LEMMA ConnectHandshake ==
  ASSUME LinesInv, HandshakeInv, Connect
  PROVE  HandshakeInv'
<1> USE DEF HandshakeInv
<1>1. UNCHANGED <<qemu, asked, able, stage, id, answers, taken>> /\ client = "connecting"
      /\ attempt' = attempt + 1 /\ attempt' \in 1 .. 11
  BY DEF Connect, HandshakeTyped
<1>2. stage = 1 /\ id = 1 /\ sent = <<>> /\ asked = <<>> /\ ~able
  BY <1>1 DEF Greeted
<1>3. taken = <<>>
  BY <1>2 DEF LinesInv, StreamTyped, TakenAsSent
<1>4. CASE qemu = "listening"
  <2>1. client' = "receiving" /\ sent' = <<Greeting>>
    BY <1>2, <1>4 DEF Connect, Write
  <2>2. HandshakeTyped'
    BY <1>1, <2>1 DEF HandshakeTyped
  <2>3. Greeted' /\ Asking' /\ FailsForAReason'
    BY <1>1, <1>2, <1>3, <2>1 DEF Greeted, Asking, FailsForAReason
  <2> QED
    BY <2>2, <2>3
<1>5. CASE qemu # "listening"
  <2>1. client' = (IF attempt' > 10 THEN "failed" ELSE "connecting") /\ sent' = sent
    BY <1>5 DEF Connect
  <2>2. HandshakeTyped'
    BY <1>1, <2>1 DEF HandshakeTyped
  <2>3. Greeted' /\ Asking' /\ FailsForAReason'
    BY <1>1, <1>2, <1>3, <2>1 DEF Greeted, Asking, FailsForAReason
  <2> QED
    BY <2>2, <2>3
<1> QED
  BY <1>4, <1>5

LEMMA RepliesTaken ==
  ASSUME LinesInv, NEW m \in Messages, NextIs(m), taken' = Append(taken, m), sent' = sent
  PROVE  /\ Replies' = Replies \ {Len(taken) + 1}
         /\ Len(taken) + 1 \in Replies <=> m \in Answers
         /\ Len(taken) + 1 \in Len(taken) + 1 .. Len(sent)
         /\ \A i \in Len(taken') + 1 .. Len(sent') : i \in Len(taken) + 1 .. Len(sent)
         /\ m = sent[Len(taken) + 1]
<1>1. Len(taken) \in Nat /\ Len(sent) \in Nat /\ Len(taken) < Len(sent)
      /\ m = sent[Len(taken) + 1]
  BY DEF LinesInv, StreamTyped, NextIs
<1>2. Len(taken') = Len(taken) + 1
  BY DEF LinesInv, StreamTyped
<1> QED
  BY <1>1, <1>2 DEF Replies

\* Once the greeting was read, a request is sent, or the client panics.
LEMMA MovedHandshake ==
  ASSUME HandshakeInv, client = "receiving", stage \in 1 .. 3, id = stage,
         asked = <<>>, NEW m, Moved(m),
         stage = 1 \/ (m \in Answers /\ m.id = stage - 1),
         Replies' = {}, \A i \in Len(taken') + 1 .. Len(sent') : sent'[i] # Greeting,
         UNCHANGED <<qemu, able, attempt>>
  PROVE  HandshakeTyped' /\ Greeted' /\ Asking' /\ (client' = "panicked" => qemu = "ended")
         /\ client' \in {"receiving", "panicked"}
<1>1. stage' = stage + 1 /\ stage' \in 2 .. 4
  BY DEF Moved
<1>2. /\ Stages[stage] = "greeting" <=> stage = 1
      /\ Stages[stage'] = "events" <=> stage' = 4
  BY <1>1 DEF Stages
<1>3. /\ client' \in {"receiving", "panicked"}
      /\ client' = "panicked" => qemu = "ended"
      /\ asked' \in Seq(1 .. 2) /\ Len(asked') <= 1
      /\ id' \in 1 .. 3
      /\ client' = "receiving" =>
           /\ id' = (IF stage' = 4 THEN 3 ELSE stage')
           /\ asked' = (IF stage' = 4 THEN <<>> ELSE <<stage' - 1>>)
  <2>1. CASE stage' = 4
    <3>1. asked' = <<>> /\ id' = id /\ client' = client
      BY <1>2, <2>1 DEF Moved
    <3> QED
      BY <1>1, <2>1, <3>1
  <2>2. CASE stage' # 4 /\ qemu = "ended"
    <3>1. asked' = <<>> /\ id' = id /\ client' = "panicked"
      BY <1>1, <1>2, <2>2 DEF Moved, Request
    <3> QED
      BY <1>1, <2>2, <3>1
  <2>3. CASE stage' # 4 /\ qemu # "ended"
    <3>1. asked' = <<id>> /\ id' = id + 1 /\ client' = client
      BY <1>1, <1>2, <2>3 DEF Moved, Request
    <3> QED
      BY <1>1, <2>3, <3>1
  <2> QED
    BY <2>1, <2>2, <2>3
<1>4. answers' = [i \in 1 .. stage' - 2 |-> i]
  <2>1. CASE stage = 1
    <3>1. answers' = answers
      BY <1>2, <2>1 DEF Moved
    <3>2. answers = [i \in 1 .. 0 |-> i]
      <4>1. (IF stage = 1 THEN 0 ELSE stage - 2) = 0
        BY <2>1
      <4> QED
        BY <4>1 DEF HandshakeInv, HandshakeTyped
    <3>3. stage' - 2 = 0
      BY <1>1, <2>1
    <3> QED
      BY <3>1, <3>2, <3>3
  <2>2. CASE stage # 1
    <3>1. answers' = Append(answers, stage - 1)
      BY <1>2, <2>2, Kinds DEF Moved
    <3>2. answers = [i \in 1 .. stage - 2 |-> i]
      BY <2>2 DEF HandshakeInv, HandshakeTyped
    <3>3. stage - 2 \in Nat /\ stage' - 2 = (stage - 2) + 1
      BY <1>1, <2>2
    <3>4. Len(answers) = stage - 2 /\ answers \in Seq(Nat)
      BY <3>2, <3>3
    <3> QED
      BY <3>1, <3>2, <3>3, <3>4
  <2> QED
    BY <2>1, <2>2
<1>5. HandshakeTyped'
  <2>1. stage' # 1 /\ stage' \in 1 .. 4
    BY <1>1
  <2>2. answers' = [i \in 1 .. (IF stage' = 1 THEN 0 ELSE stage' - 2) |-> i]
    BY <1>4, <2>1
  <2>3. /\ qemu' \in {"starting", "listening", "ended"}
        /\ asked' \in Seq(1 .. 2) /\ Len(asked') <= 1
        /\ able' \in BOOLEAN
        /\ attempt' \in 0 .. 11 /\ client' # "connecting"
        /\ client' \in {"connecting", "receiving", "told", "failed", "panicked"}
        /\ id' \in 1 .. 3
    BY <1>3 DEF HandshakeInv, HandshakeTyped
  <2> QED
    BY <2>1, <2>2, <2>3, Zenon DEF HandshakeTyped
<1>6. Greeted'
  BY <1>1, <1>3 DEF Greeted
<1>7. Asking'
  BY <1>1, <1>3 DEF Asking, Owed
<1> QED
  BY <1>3, <1>5, <1>6, <1>7

\* The client is done: it told the controller, or it panicked.
LEMMA DoneHandshake ==
  ASSUME HandshakeInv, client' \in {"told", "panicked"},
         UNCHANGED <<qemu, asked, able, sent, attempt, stage, id, answers>>
  PROVE  HandshakeTyped' /\ Greeted' /\ Asking'
<1>1. HandshakeTyped'
  BY DEF HandshakeInv, HandshakeTyped
<1> QED
  BY <1>1 DEF Greeted, Asking

LEMMA ReceiveHandshake ==
  ASSUME LinesInv, HandshakeInv, Receive, NEW m \in Messages, WholeLine(m)
  PROVE  HandshakeInv'
<1> USE DEF HandshakeInv
<1>1. /\ client = "receiving" /\ taken' = Append(taken, m) /\ line[1].of = m
      /\ UNCHANGED <<qemu, able, sent, attempt>>
      /\ IF Parses(m) THEN Dispatch(m)
         ELSE client' = "panicked" /\ UNCHANGED <<stage, id, asked, answers>>
  BY DEF Receive, WholeLine
<1>2. /\ Replies' = Replies \ {Len(taken) + 1}
      /\ Len(taken) + 1 \in Replies <=> m \in Answers
      /\ Len(taken) + 1 \in Len(taken) + 1 .. Len(sent)
      /\ \A i \in Len(taken') + 1 .. Len(sent') : i \in Len(taken) + 1 .. Len(sent)
      /\ m = sent[Len(taken) + 1]
  BY <1>1, RepliesTaken DEF WholeLine
<1>3. \/ m = Greeting /\ m.kind = "Greeting"
      \/ m \in Answers /\ m.kind # "Event"
      \/ m \in Events /\ m.kind = "Event" /\ m \notin Answers /\ m # Greeting
  BY Kinds
<1>4. /\ Stages[stage] = "greeting" <=> stage = 1
      /\ Stages[stage] = "events" <=> stage = 4
      /\ stage \in 1 .. 4
  BY StageNames DEF HandshakeTyped
<1>5. CASE ~Parses(m)
  <2>1. m \in Events /\ ~m.data
    BY <1>3, <1>5 DEF Parses, WholeLine
  <2>2. \E i \in DOMAIN taken' : taken'[i] = m
    <3>1. taken \in Seq(Messages)
      BY DEF LinesInv, StreamTyped
    <3>2. Len(taken) + 1 \in DOMAIN taken' /\ taken'[Len(taken) + 1] = m
      BY <1>1, <3>1
    <3> QED
      BY <3>2
  <2>3. client' = "panicked" /\ UNCHANGED <<stage, id, asked, answers>>
    BY <1>1, <1>5
  <2>4. HandshakeTyped' /\ Greeted' /\ Asking'
    BY <1>1, <2>3, DoneHandshake
  <2>5. FailsForAReason'
    BY <2>1, <2>2, <2>3 DEF FailsForAReason
  <2> QED
    BY <2>4, <2>5
<1>6. CASE Parses(m) /\ stage = 1
  <2>1. Moved(m)
    BY <1>1, <1>4, <1>6 DEF Dispatch
  <2>2. sent = <<Greeting>> /\ taken = <<>> /\ asked = <<>> /\ id = 1
    BY <1>1, <1>6 DEF Greeted
  <2>3. Len(taken') = 1 /\ Len(sent') = 1
    BY <1>1, <2>2
  <2>4. Replies' = {} /\ \A i \in Len(taken') + 1 .. Len(sent') : sent'[i] # Greeting
    BY <2>3 DEF Replies
  <2>5. HandshakeTyped' /\ Greeted' /\ Asking' /\ (client' = "panicked" => qemu = "ended")
        /\ client' \in {"receiving", "panicked"}
    <3>1. stage \in 1 .. 3 /\ id = stage
      BY <1>4, <1>6, <2>2
    <3>2. stage = 1 \/ (m \in Answers /\ m.id = stage - 1)
      BY <1>6
    <3>3. client = "receiving" /\ asked = <<>> /\ UNCHANGED <<qemu, able, attempt>>
      BY <1>1, <2>2
    <3> QED
      BY <2>1, <2>4, <3>1, <3>2, <3>3, MovedHandshake
  <2>6. FailsForAReason'
    BY <1>1, <2>5 DEF FailsForAReason
  <2> QED
    BY <2>5, <2>6
<1>7. CASE Parses(m) /\ stage \in {2, 3} /\ m.kind = "Event"
  <2>1. UNCHANGED <<client, stage, id, asked, answers>>
    BY <1>1, <1>4, <1>7 DEF Dispatch, IsAnswer
  <2>2. m \notin Answers
    BY <1>3, <1>7, Kinds
  <2>3. Replies' = Replies
    BY <1>2, <2>2
  <2>4. HandshakeTyped' /\ FailsForAReason'
    BY <1>1, <2>1 DEF HandshakeTyped, FailsForAReason
  <2>5. Greeted'
    BY <1>1, <1>7, <2>1 DEF Greeted
  <2>6. Asking'
    <3>1. \A i \in Len(taken') + 1 .. Len(sent') : sent'[i] # Greeting
      BY <1>1, <1>2, <1>7 DEF Asking
    <3>2. Owed(stage - 1) => Owed(stage - 1)'
      BY <1>1, <2>1, <2>3 DEF Owed
    <3>3. stage # 4 /\ stage # 1
      BY <1>7
    <3> QED
      BY <1>1, <2>1, <2>3, <3>1, <3>2, <3>3 DEF Asking
  <2> QED
    BY <2>4, <2>5, <2>6
<1>8. CASE Parses(m) /\ stage \in {2, 3} /\ m.kind # "Event"
  <2>1. Moved(m)
    BY <1>1, <1>4, <1>8 DEF Dispatch, IsAnswer
  <2>2. /\ id = stage /\ Owed(stage - 1)
        /\ \A i \in Len(taken) + 1 .. Len(sent) : sent[i] # Greeting
    BY <1>1, <1>8 DEF Asking
  <2>3. m \in Answers
    BY <1>2, <1>3, <1>8, <2>2
  <2>4. asked = <<>> /\ Replies = {Len(taken) + 1} /\ m.id = stage - 1
    BY <1>2, <2>2, <2>3 DEF Owed
  <2>5. Replies' = {} /\ \A i \in Len(taken') + 1 .. Len(sent') : sent'[i] # Greeting
    BY <1>1, <1>2, <2>2, <2>4
  <2>6. HandshakeTyped' /\ Greeted' /\ Asking' /\ (client' = "panicked" => qemu = "ended")
        /\ client' \in {"receiving", "panicked"}
    <3>1. stage \in 1 .. 3
      BY <1>8
    <3> QED
      BY <1>1, <2>1, <2>2, <2>3, <2>4, <2>5, <3>1, MovedHandshake
  <2>7. FailsForAReason'
    BY <1>1, <2>6 DEF FailsForAReason
  <2> QED
    BY <2>6, <2>7
<1>9. CASE Parses(m) /\ stage = 4
  <2>1. /\ client' = IF ToldBy(m) THEN "told" ELSE client
        /\ UNCHANGED <<stage, id, asked, answers>>
    BY <1>1, <1>4, <1>9 DEF Dispatch
  <2>2. CASE ToldBy(m)
    <3>1. client' = "told"
      BY <2>1, <2>2
    <3>2. HandshakeTyped' /\ Greeted' /\ Asking'
      BY <1>1, <2>1, <3>1, DoneHandshake
    <3>3. FailsForAReason'
      BY <3>1 DEF FailsForAReason
    <3> QED
      BY <3>2, <3>3
  <2>3. CASE ~ToldBy(m)
    <3>1. client' = client
      BY <2>1, <2>3
    <3>2. HandshakeTyped' /\ FailsForAReason'
      BY <1>1, <2>1, <3>1 DEF HandshakeTyped, FailsForAReason
    <3>3. Greeted'
      BY <1>1, <1>9, <2>1, <3>1 DEF Greeted
    <3>4. Asking'
      <4>1. /\ id = 3 /\ asked = <<>> /\ Replies = {}
            /\ \A i \in Len(taken) + 1 .. Len(sent) : sent[i] # Greeting
        BY <1>1, <1>9 DEF Asking
      <4>2. Replies' = {} /\ \A i \in Len(taken') + 1 .. Len(sent') : sent'[i] # Greeting
        BY <1>1, <1>2, <4>1
      <4> QED
        BY <1>9, <2>1, <4>1, <4>2 DEF Asking
    <3> QED
      BY <3>2, <3>3, <3>4
  <2> QED
    BY <2>2, <2>3
<1> QED
  BY <1>4, <1>5, <1>6, <1>7, <1>8, <1>9

-----------------------------------------------------------------------------

QmpInv == LinesInv /\ HandshakeInv

LEMMA InitQmp == QmpInit => QmpInv
  BY InitLines, InitHandshake DEF QmpInv

LEMMA QmpKeepsInv ==
  ASSUME QmpInv, [QmpNext]_qmpVars
  PROVE  QmpInv' /\ [Stream!Next]_<<sent, taken>>
<1> USE DEF QmpInv
<1>1. CASE Listen \/ End \/ UNCHANGED qmpVars
  <2>1. UNCHANGED <<asked, able, sent, wire, ours>>
    BY <1>1 DEF Listen, End, qmpVars, theirs
  <2>2. UNCHANGED <<attempt, client, stage, id, buffer, line, answers, taken>>
    BY <2>1 DEF ours
  <2>3. LinesInv' /\ UNCHANGED <<sent, taken>>
    BY <2>1, <2>2 DEF LinesInv, StreamTyped, TakenAsSent, Kept, Ahead
  <2>4. qemu' = qemu \/ (qemu' \in {"listening", "ended"} /\ qemu # "ended")
    <3>1. CASE Listen
      BY <3>1 DEF Listen
    <3>2. CASE End
      BY <3>2 DEF End
    <3>3. CASE UNCHANGED qmpVars
      BY <3>3 DEF qmpVars, theirs
    <3> QED
      BY <1>1, <3>1, <3>2, <3>3
  <2> QED
    BY <2>1, <2>2, <2>3, <2>4, HandshakeStays
<1>2. CASE Announce
  <2>1. PICK e \in Messages : Write(e)
    BY <1>2, Kinds DEF Announce
  <2>2. UNCHANGED <<buffer, line, taken>>
    BY <1>2 DEF Announce, ours
  <2> QED
    BY <1>2, <2>1, <2>2, WriteLines, AnnounceHandshake DEF Stream!Next
<1>3. CASE Answer
  <2>1. \E m \in Messages : Write(m)
    <3>1. Head(asked) \in 1 .. 2
      BY <1>3 DEF Answer, HandshakeInv, HandshakeTyped
    <3>2. \A kind \in {"Response", "Error"} : [kind |-> kind, id |-> Head(asked)] \in Messages
      BY <3>1 DEF Answers, Messages
    <3> QED
      BY <1>3, <3>2 DEF Answer
  <2>2. PICK m \in Messages : Write(m)
    BY <2>1
  <2>3. UNCHANGED <<buffer, line, taken>>
    BY <1>3 DEF Answer, ours
  <2> QED
    BY <1>3, <2>2, <2>3, WriteLines, AnswerHandshake DEF Stream!Next
<1>4. CASE Connect
  <2>1. UNCHANGED <<buffer, line, taken>>
    BY <1>4 DEF Connect
  <2>2. HandshakeInv'
    BY <1>4, ConnectHandshake
  <2>3. CASE qemu = "listening"
    <3>1. Greeting \in Messages /\ Write(Greeting)
      BY <1>4, <2>3, Kinds DEF Connect
    <3> QED
      BY <2>1, <2>2, <3>1, WriteLines DEF Stream!Next
  <2>4. CASE qemu # "listening"
    <3>1. UNCHANGED <<sent, wire>>
      BY <1>4, <2>4 DEF Connect
    <3> QED
      BY <2>1, <2>2, <3>1 DEF LinesInv, StreamTyped, TakenAsSent, Kept, Ahead
  <2> QED
    BY <2>3, <2>4
<1>5. CASE Read
  <2>1. UNCHANGED <<qemu, asked, able, sent, attempt, client, stage, id, answers, taken>>
    BY <1>5 DEF Read, theirs
  <2>2. LinesInv'
    BY <1>5, ReadLines
  <2>3. HandshakeInv'
    BY <2>1, HandshakeStays
  <2> QED
    BY <2>1, <2>2, <2>3
<1>6. CASE Receive
  <2>1. PICK m \in Messages : WholeLine(m)
    BY <1>6, LineIsNext DEF Receive
  <2>2. /\ AtEnd /\ taken' = Append(taken, m) /\ line' = <<>>
        /\ UNCHANGED <<buffer, sent, wire>>
    BY <1>6, <2>1 DEF Receive, WholeLine, KeepBuffer
  <2>3. LinesInv' /\ Stream!Take
    BY <2>1, <2>2, ReceiveLines
  <2>4. HandshakeInv'
    BY <1>6, <2>1, ReceiveHandshake
  <2> QED
    BY <2>3, <2>4 DEF Stream!Next
<1>7. CASE Eof
  <2>1. /\ UNCHANGED <<qemu, asked, able, sent, wire, attempt, stage, id, buffer, line, answers, taken>>
        /\ client' = "panicked" /\ qemu = "ended"
    BY <1>7 DEF Eof, theirs
  <2>2. LinesInv' /\ UNCHANGED <<sent, taken>>
    BY <2>1 DEF LinesInv, StreamTyped, TakenAsSent, Kept, Ahead
  <2>3. HandshakeTyped' /\ Greeted' /\ Asking'
    BY <2>1, DoneHandshake
  <2>4. FailsForAReason'
    BY <2>1 DEF FailsForAReason
  <2> QED
    BY <2>2, <2>3, <2>4 DEF HandshakeInv
<1> QED
  BY <1>1, <1>2, <1>3, <1>4, <1>5, <1>6, <1>7 DEF QmpNext, Client

(* Whatever QEMU answers and announces, and however its lines are cut into *)
(* reads, a request returns the response to that request, and the client   *)
(* fails only because QEMU ended, never listened, or sent an event the     *)
(* client cannot parse.                                                    *)
THEOREM RequestsGetTheirAnswers == QmpSpec => []AnsweredOrFailed
<1>1. QmpInv /\ [QmpNext]_qmpVars => QmpInv'
  BY QmpKeepsInv
<1>2. QmpInv => AnsweredOrFailed
  BY HandshakeHolds DEF QmpInv
<1> QED
  BY InitQmp, <1>1, <1>2, PTL DEF QmpSpec

(* However the lines QEMU writes are cut into reads, and whatever the      *)
(* BufReader reads ahead, every message is parsed whole, in order, once.   *)
THEOREM LinesAreDelivered == QmpSpec => MessagesDelivered
<1>1. QmpInv /\ [QmpNext]_qmpVars => QmpInv'
  BY QmpKeepsInv
<1>2. QmpInv /\ [QmpNext]_qmpVars => [Stream!Next]_(Stream!vars)
  BY QmpKeepsInv DEF Stream!vars
<1>3. QmpInit => Stream!Init
  BY InitLines
<1> QED
  BY InitQmp, <1>1, <1>2, <1>3, PTL DEF QmpSpec, MessagesDelivered, Stream!Spec

-----------------------------------------------------------------------------
(* The plugin's names for states.                                          *)

\* An amba id is at most the count, and only a guid S2E gave out has one.
Counted(flow) ==
  \A s \in States : /\ flow.ids[s] <= flow.count
                    /\ s \notin used => flow.ids[s] = 0

\* Before the first fork there is the boot state only, and only the block
\* graph may have named it; the first fork names every state in both graphs.
BeforeFork ==
  /\ symbolic = NoIds
  /\ \/ assembly = NoIds
     \/ assembly = [ids |-> [s \in States |-> IF s = Root THEN 1 ELSE 0], count |-> 1]

AfterFork ==
  /\ symbolic = assembly
  /\ \A s \in used : assembly.ids[s] # 0

\* Nothing is recorded yet under an id that is not given out.
FreshIdsBlank ==
  lastBlock[0] = Zero /\ \A a \in AmbaIds : a > assembly.count => lastBlock[a] = Zero

IInv ==
  /\ TypeOK
  /\ Root \in used /\ alive \subseteq used
  /\ Counted(assembly)
  /\ IF used = {Root} THEN BeforeFork ELSE AfterFork
  /\ IdsDistinct
  /\ LinksAscend
  /\ FreshIdsBlank
  /\ LinksFollowExecution

-----------------------------------------------------------------------------
\* What incrementStateIdAmba and getStateIdAmba do to a map of distinct ids.
Distinct(flow) ==
  \A s, t \in States : s # t /\ flow.ids[s] = flow.ids[t] => flow.ids[s] = 0

Bounded(flow) == \A s \in States : flow.ids[s] <= flow.count

(* incrementStateIdAmba gives one state the next id, and no other changes.  *)
LEMMA IncrementedProperties ==
  ASSUME NEW flow \in ControlFlow, NEW s \in States, flow.count + 1 <= MaxId,
         Distinct(flow), Bounded(flow)
  PROVE  /\ Incremented(flow, s) \in ControlFlow
         /\ Incremented(flow, s).count = flow.count + 1
         /\ Incremented(flow, s).ids[s] = flow.count + 1
         /\ \A t \in States \ {s} : Incremented(flow, s).ids[t] = flow.ids[t]
         /\ Distinct(Incremented(flow, s))
         /\ Bounded(Incremented(flow, s))
  BY RootAssumption, BoundAssumption DEF Incremented, ControlFlow, AmbaIds, Distinct, Bounded

(* getStateIdAmba leaves a state with an id, the one it had if it had one.  *)
LEMMA NamedProperties ==
  ASSUME NEW flow \in ControlFlow, NEW s \in States,
         flow.ids[s] = 0 => flow.count + 1 <= MaxId,
         Distinct(flow), Bounded(flow)
  PROVE  /\ Named(flow, s) \in ControlFlow
         /\ Named(flow, s).count >= flow.count
         /\ flow.ids[s] # 0 => Named(flow, s) = flow
         /\ flow.ids[s] = 0 => /\ Named(flow, s).count = flow.count + 1
                               /\ Named(flow, s).ids[s] = flow.count + 1
         /\ Named(flow, s).ids[s] # 0
         /\ \A t \in States \ {s} : Named(flow, s).ids[t] = flow.ids[t]
         /\ Distinct(Named(flow, s))
         /\ Bounded(Named(flow, s))
  BY IncrementedProperties, RootAssumption, BoundAssumption DEF Named, ControlFlow, AmbaIds

(* A fork gives the old and the new state the next two ids.                *)
LEMMA ForkedProperties ==
  ASSUME NEW flow \in ControlFlow, NEW old \in States, NEW new \in States,
         old # new, flow.ids[new] = 0, Forked(flow, old, new).count <= MaxId,
         Distinct(flow), Bounded(flow)
  PROVE  LET named == Named(flow, old)
             forked == Forked(flow, old, new)
         IN  /\ named \in ControlFlow
             /\ flow.ids[old] # 0 => named = flow
             /\ flow.ids[old] = 0 => named.ids[old] = flow.count + 1
             /\ named.count \in Nat /\ named.count >= flow.count
             /\ named.ids[old] <= named.count
             /\ forked \in ControlFlow
             /\ forked.count = named.count + 2
             /\ forked.ids[old] = named.count + 1
             /\ forked.ids[new] = named.count + 2
             /\ \A t \in States \ {old, new} : forked.ids[t] = flow.ids[t]
             /\ Distinct(forked) /\ Bounded(forked)
<1> DEFINE named == Named(flow, old)
           kept == Incremented(named, old)
           forked == Named(kept, new)
<1>1. named \in [ids : [States -> Nat], count : Nat] /\ named.count >= flow.count
  BY DEF Named, Incremented, ControlFlow, AmbaIds
<1>2. named.ids[new] = 0 /\ kept.ids[new] = 0
  BY <1>1 DEF Named, Incremented, ControlFlow, AmbaIds
<1>3. forked.count = kept.count + 1 /\ kept.count = named.count + 1
  BY <1>1, <1>2 DEF Named, Incremented
<1>4. named.count + 2 <= MaxId
  BY <1>1, <1>3 DEF Forked
<1>5. flow.ids[old] = 0 => flow.count + 1 <= MaxId
  BY <1>1, <1>4, RootAssumption, BoundAssumption DEF ControlFlow, AmbaIds
<1>6. /\ named \in ControlFlow /\ Distinct(named) /\ Bounded(named)
      /\ flow.ids[old] # 0 => named = flow
      /\ flow.ids[old] = 0 => named.ids[old] = flow.count + 1
      /\ \A t \in States \ {old} : named.ids[t] = flow.ids[t]
  BY <1>5, NamedProperties
<1>7. named.count + 1 <= MaxId
  BY <1>1, <1>4, RootAssumption, BoundAssumption
<1>8. /\ kept \in ControlFlow /\ Distinct(kept) /\ Bounded(kept)
      /\ kept.ids[old] = named.count + 1
      /\ \A t \in States \ {old} : kept.ids[t] = named.ids[t]
  BY <1>6, <1>7, IncrementedProperties
<1>9. kept.ids[new] = 0 => kept.count + 1 <= MaxId
  BY <1>1, <1>3, <1>4
<1>10. /\ forked \in ControlFlow /\ Distinct(forked) /\ Bounded(forked)
       /\ forked.ids[new] = kept.count + 1
       /\ \A t \in States \ {new} : forked.ids[t] = kept.ids[t]
  BY <1>2, <1>8, <1>9, NamedProperties
<1>11. forked.ids[old] = named.count + 1 /\ forked.ids[new] = named.count + 2
  BY <1>1, <1>3, <1>8, <1>10
<1>12. \A t \in States \ {old, new} : forked.ids[t] = flow.ids[t]
  BY <1>6, <1>8, <1>10
<1>13. named.ids[old] <= named.count
  BY <1>6 DEF Bounded
<1>14. QED
  BY <1>1, <1>3, <1>6, <1>10, <1>11, <1>12, <1>13 DEF Forked

(* Two more links between nodes keep a set of links one of links.           *)
LEMMA LinksAdded ==
  ASSUME NEW N, NEW L, L \subseteq N \X N, NEW a \in N, NEW b \in N, NEW c \in N, NEW d \in N
  PROVE  L \cup {<<a, b>>, <<c, d>>} \subseteq N \X N
  OBVIOUS

-----------------------------------------------------------------------------
LEMMA InitIInv == Init => IInv
  BY RootAssumption, BoundAssumption DEF Init, IInv, TypeOK, NoIds, ControlFlow, AmbaIds, BlockNode, StateNode, Zero,
         Counted, BeforeFork, IdsDistinct, LinksAscend, FreshIdsBlank, LinksFollowExecution

LEMMA BlockStartKeepsIInv ==
  ASSUME IInv, NEW s \in States, NEW pc \in Blocks, onBlockStart(s, pc)
  PROVE  IInv'
<1> DEFINE named == Named(assembly, s)
           own == named.ids[s]
           curr == [state |-> own, block |-> pc]
<1>1. /\ s \in alive /\ s \in used
      /\ named.count <= MaxId
      /\ assembly' = named
      /\ blockLinks' = blockLinks \cup {<<lastBlock[own], curr>>}
      /\ lastBlock' = [lastBlock EXCEPT ![own] = curr]
      /\ trail' = [trail EXCEPT ![s] = curr]
      /\ UNCHANGED <<alive, used, symbolic, stateLinks>>
  BY DEF onBlockStart, BlockLink, IInv
<1>2. /\ assembly \in ControlFlow /\ Distinct(assembly) /\ Bounded(assembly)
      /\ assembly.count \in Nat
  BY DEF IInv, TypeOK, Counted, IdsDistinct, Distinct, Bounded, ControlFlow, AmbaIds
<1>3. assembly.ids[s] = 0 => assembly.count + 1 <= MaxId
  BY <1>1 DEF Named, Incremented
<1>4. /\ named \in ControlFlow /\ named.count >= assembly.count
      /\ assembly.ids[s] # 0 => named = assembly
      /\ assembly.ids[s] = 0 => named.count = assembly.count + 1 /\ own = assembly.count + 1
      /\ own # 0
      /\ \A t \in States \ {s} : named.ids[t] = assembly.ids[t]
      /\ Distinct(named) /\ Bounded(named)
  BY <1>2, <1>3, NamedProperties
<1>5. own \in AmbaIds /\ curr \in BlockNode
  BY <1>4 DEF ControlFlow, BlockNode
<1>6. TypeOK'
  BY <1>1, <1>4, <1>5 DEF IInv, TypeOK
<1>7. Counted(assembly)'
  BY <1>1, <1>4 DEF IInv, Counted, Bounded
<1>8. (IF used = {Root} THEN BeforeFork ELSE AfterFork)'
  <2>1. CASE used = {Root}
    <3>1. BeforeFork /\ s = Root
      BY <2>1, <1>1 DEF IInv
    <3>2. BeforeFork'
      BY <3>1, <1>1 DEF BeforeFork, NoIds, Named, Incremented
    <3>3. QED
      BY <2>1, <3>2, <1>1
  <2>2. CASE used # {Root}
    BY <2>2, <1>1, <1>4 DEF IInv, AfterFork
  <2>3. QED
    BY <2>1, <2>2
<1>9. IdsDistinct'
  BY <1>1, <1>4 DEF IInv, IdsDistinct, Distinct
<1>10. LinksAscend'
  BY <1>1 DEF IInv, LinksAscend
<1>11. FreshIdsBlank'
  BY <1>1, <1>2, <1>4, <1>5 DEF IInv, FreshIdsBlank, TypeOK, Bounded, ControlFlow, AmbaIds
<1>12. LinksFollowExecution'
  <2> SUFFICES ASSUME NEW t \in alive
               PROVE  lastBlock'[named.ids[t]] = trail'[t]
    BY <1>1 DEF LinksFollowExecution
  <2>1. CASE t = s
    BY <2>1, <1>1, <1>5 DEF IInv, TypeOK
  <2>2. CASE t # s
    <3>1. t \in States /\ named.ids[t] = assembly.ids[t] /\ named.ids[t] # own
      BY <2>2, <1>4 DEF IInv, TypeOK, Distinct
    <3>2. QED
      BY <3>1, <1>1, <1>5, <2>2 DEF IInv, TypeOK, LinksFollowExecution
  <2>3. QED
    BY <2>1, <2>2
<1>13. QED
  BY <1>1, <1>6, <1>7, <1>8, <1>9, <1>10, <1>11, <1>12 DEF IInv

LEMMA ForkKeepsIInv ==
  ASSUME IInv, NEW old \in States, NEW new \in States, onStateFork(old, new)
  PROVE  IInv'
<1> DEFINE before == Named(assembly, old)
           after == Forked(assembly, old, new)
           oldLast == lastBlock[before.ids[old]]
           from == NodeOf(Named(symbolic, old), old, TRUE)
           named == Forked(symbolic, old, new)
<1>1. /\ old \in alive /\ new \notin used /\ old # new
      /\ after.count <= MaxId
      /\ alive' = alive \cup {new}
      /\ used' = used \cup {new}
      /\ assembly' = after
      /\ lastBlock' = [lastBlock EXCEPT ![after.ids[old]] = oldLast,
                                        ![after.ids[new]] = oldLast]
      /\ symbolic' = named
      /\ stateLinks' = stateLinks \cup {<<from, NodeOf(named, old, TRUE)>>,
                                        <<from, NodeOf(named, new, TRUE)>>}
      /\ trail' = [trail EXCEPT ![new] = trail[old]]
      /\ UNCHANGED blockLinks
  BY DEF onStateFork, IInv
<1>2. /\ assembly \in ControlFlow /\ Distinct(assembly) /\ Bounded(assembly)
      /\ assembly.count \in Nat /\ assembly.ids[new] = 0
  BY <1>1 DEF IInv, TypeOK, Counted, IdsDistinct, Distinct, Bounded, ControlFlow, AmbaIds
<1>3. /\ before \in ControlFlow
      /\ assembly.ids[old] # 0 => before = assembly
      /\ assembly.ids[old] = 0 => before.ids[old] = assembly.count + 1
      /\ before.count \in Nat /\ before.count >= assembly.count
      /\ before.ids[old] <= before.count
      /\ after \in ControlFlow
      /\ after.count = before.count + 2
      /\ after.ids[old] = before.count + 1
      /\ after.ids[new] = before.count + 2
      /\ \A t \in States \ {old, new} : after.ids[t] = assembly.ids[t]
      /\ Distinct(after) /\ Bounded(after)
  BY <1>1, <1>2, ForkedProperties
<1>4. symbolic' = assembly' /\ Named(symbolic, old) = before
  <2>1. CASE used = {Root}
    <3>1. BeforeFork /\ old = Root
      BY <2>1, <1>1 DEF IInv
    <3>2. Named(symbolic, old) = before
      BY <3>1 DEF BeforeFork, Named, Incremented, NoIds
    <3>3. QED
      BY <3>2, <1>1 DEF Forked
  <2>2. CASE used # {Root}
    BY <2>2, <1>1 DEF IInv, AfterFork
  <2>3. QED
    BY <2>1, <2>2
<1>5. /\ after.ids[old] \in AmbaIds /\ after.ids[new] \in AmbaIds
      /\ before.ids[old] \in AmbaIds /\ oldLast \in BlockNode
  BY <1>3 DEF ControlFlow, IInv, TypeOK
<1>6. /\ from \in StateNode /\ from.amba = before.ids[old]
      /\ NodeOf(named, old, TRUE) \in StateNode
      /\ NodeOf(named, old, TRUE).amba = after.ids[old]
      /\ NodeOf(named, new, TRUE) \in StateNode
      /\ NodeOf(named, new, TRUE).amba = after.ids[new]
  BY <1>1, <1>4, <1>5 DEF NodeOf, StateNode
<1>7. TypeOK'
  <2> HIDE DEF from, oldLast, before, after, named
  <2>1. stateLinks' \subseteq StateNode \X StateNode
    <3> DEFINE kept == NodeOf(named, old, TRUE)
               born == NodeOf(named, new, TRUE)
    <3> HIDE DEF kept, born
    <3>1. from \in StateNode /\ kept \in StateNode /\ born \in StateNode
      BY <1>6 DEF kept, born
    <3>2. stateLinks \subseteq StateNode \X StateNode
      BY DEF IInv, TypeOK
    <3>3. stateLinks \cup {<<from, kept>>, <<from, born>>} \subseteq StateNode \X StateNode
      BY <3>1, <3>2, LinksAdded
    <3>4. QED
      BY <3>3, <1>1 DEF kept, born
  <2>2. lastBlock' \in [AmbaIds -> BlockNode] /\ trail' \in [States -> BlockNode]
    BY <1>1, <1>5 DEF IInv, TypeOK
  <2>3. assembly' \in ControlFlow /\ symbolic' \in ControlFlow
    BY <1>1, <1>3, <1>4
  <2>4. alive' \subseteq States /\ used' \subseteq States
    BY <1>1 DEF IInv, TypeOK
  <2>5. QED
    BY <2>1, <2>2, <2>3, <2>4, <1>1 DEF IInv, TypeOK
<1>8. Counted(assembly)'
  BY <1>1, <1>3 DEF IInv, Counted, Bounded
<1>9. (IF used = {Root} THEN BeforeFork ELSE AfterFork)'
  <2>1. used' # {Root}
    BY <1>1 DEF IInv
  <2>2. \A t \in used \ {old, new} : assembly.ids[t] # 0
    BY <1>1 DEF IInv, AfterFork
  <2>3. \A t \in used' : after.ids[t] # 0
    BY <2>2, <1>1, <1>3 DEF IInv, TypeOK
  <2>4. QED
    BY <2>1, <2>3, <1>1, <1>4 DEF AfterFork
<1>10. IdsDistinct'
  BY <1>1, <1>3, <1>4 DEF IdsDistinct, Distinct
<1>11. LinksAscend'
  <2>1. from.amba < after.ids[old] /\ from.amba < after.ids[new]
    <3> HIDE DEF from, before, after
    <3>1. before.ids[old] \in Nat /\ before.count \in Nat /\ before.ids[old] <= before.count
      BY <1>3, <1>5 DEF AmbaIds
    <3>2. QED
      BY <3>1, <1>3, <1>6
  <2>2. SUFFICES ASSUME NEW e \in stateLinks' PROVE e[1].amba < e[2].amba
    BY DEF LinksAscend
  <2>3. CASE e \in stateLinks
    BY <2>3 DEF IInv, LinksAscend
  <2>4. CASE e = <<from, NodeOf(named, old, TRUE)>>
    BY <2>1, <2>4, <1>6
  <2>5. CASE e = <<from, NodeOf(named, new, TRUE)>>
    BY <2>1, <2>5, <1>6
  <2>6. QED
    BY <2>3, <2>4, <2>5, <1>1
<1>12. /\ \A a \in AmbaIds \ {after.ids[old], after.ids[new]} : lastBlock'[a] = lastBlock[a]
       /\ lastBlock'[after.ids[old]] = oldLast /\ lastBlock'[after.ids[new]] = oldLast
  BY <1>1, <1>5 DEF IInv, TypeOK
<1>13. oldLast = trail[old]
  BY <1>1, <1>3, <1>5, <1>2 DEF IInv, LinksFollowExecution, FreshIdsBlank, AmbaIds
<1>14. FreshIdsBlank'
  <2> HIDE DEF oldLast, before, after
  <2>1. /\ after.ids[old] # 0 /\ after.ids[new] # 0 /\ 0 \in AmbaIds
        /\ after.count \in Nat /\ after.count > assembly.count
        /\ after.ids[old] <= after.count /\ after.ids[new] <= after.count
    BY <1>2, <1>3, RootAssumption, BoundAssumption DEF AmbaIds
  <2>2. lastBlock'[0] = Zero
    BY <2>1, <1>12 DEF IInv, FreshIdsBlank
  <2>3. ASSUME NEW a \in AmbaIds, a > after.count PROVE lastBlock'[a] = Zero
    <3>1. a > assembly.count /\ a # after.ids[old] /\ a # after.ids[new]
      BY <2>1, <2>3, <1>2, <1>5 DEF AmbaIds
    <3>2. QED
      BY <3>1, <1>12 DEF IInv, FreshIdsBlank
  <2>4. QED
    BY <2>2, <2>3, <1>1 DEF FreshIdsBlank
<1>15. LinksFollowExecution'
  <2> SUFFICES ASSUME NEW t \in alive'
               PROVE  lastBlock'[after.ids[t]] = trail'[t]
    BY <1>1 DEF LinksFollowExecution
  <2>1. CASE t = old
    BY <2>1, <1>1, <1>3, <1>12, <1>13 DEF IInv, TypeOK
  <2>2. CASE t = new
    BY <2>2, <1>1, <1>3, <1>12, <1>13 DEF IInv, TypeOK
  <2>3. CASE t \notin {old, new}
    <3>1. t \in alive /\ t \in States /\ after.ids[t] = assembly.ids[t]
      BY <2>3, <1>1, <1>3 DEF IInv, TypeOK
    <3>2. after.ids[t] # after.ids[old] /\ after.ids[t] # after.ids[new]
      BY <2>3, <3>1, <1>2, <1>3, <1>5 DEF Bounded, AmbaIds, ControlFlow
    <3>3. QED
      BY <2>3, <3>1, <3>2, <1>1, <1>3, <1>12
         DEF IInv, TypeOK, LinksFollowExecution, ControlFlow
  <2>4. QED
    BY <2>1, <2>2, <2>3
<1>16. QED
  BY <1>1, <1>7, <1>8, <1>9, <1>10, <1>11, <1>14, <1>15 DEF IInv

LEMMA MergeKeepsIInv ==
  ASSUME IInv, NEW dest \in States, NEW src \in States, onStateMerge(dest, src)
  PROVE  IInv'
<1> DEFINE after == Incremented(symbolic, dest)
<1>1. dest \in alive /\ src \in alive /\ dest # src /\ used # {Root}
  BY DEF onStateMerge, IInv
<1>2. /\ symbolic = assembly
      /\ symbolic.ids[dest] # 0 /\ symbolic.ids[src] # 0
      /\ Named(Named(symbolic, dest), src) = symbolic
  BY <1>1 DEF IInv, AfterFork, Named
<1>3. /\ after.count <= MaxId
      /\ assembly' = after /\ symbolic' = after
      /\ stateLinks' = stateLinks \cup
           {<<NodeOf(symbolic, dest, FALSE), NodeOf(after, dest, FALSE)>>,
            <<NodeOf(symbolic, src, FALSE), NodeOf(after, dest, FALSE)>>}
      /\ trail' = [trail EXCEPT ![dest] = Zero]
      /\ UNCHANGED <<alive, used, lastBlock, blockLinks>>
  BY <1>2 DEF onStateMerge
<1>4. /\ symbolic \in ControlFlow /\ Distinct(symbolic) /\ Bounded(symbolic)
      /\ symbolic.count \in Nat /\ symbolic.count + 1 <= MaxId
  BY <1>2, <1>3 DEF IInv, TypeOK, Counted, IdsDistinct, Distinct, Bounded, ControlFlow,
                    AmbaIds, Incremented
<1>5. /\ after \in ControlFlow /\ after.count = symbolic.count + 1
      /\ after.ids[dest] = symbolic.count + 1
      /\ \A t \in States \ {dest} : after.ids[t] = symbolic.ids[t]
      /\ Distinct(after) /\ Bounded(after)
  BY <1>4, IncrementedProperties
<1>6. /\ NodeOf(symbolic, dest, FALSE) \in StateNode
      /\ NodeOf(symbolic, dest, FALSE).amba = symbolic.ids[dest]
      /\ NodeOf(symbolic, src, FALSE) \in StateNode
      /\ NodeOf(symbolic, src, FALSE).amba = symbolic.ids[src]
      /\ NodeOf(after, dest, FALSE) \in StateNode
      /\ NodeOf(after, dest, FALSE).amba = symbolic.count + 1
  BY <1>4, <1>5 DEF NodeOf, StateNode, ControlFlow
<1>7. Zero \in BlockNode
  BY RootAssumption, BoundAssumption DEF Zero, BlockNode, AmbaIds
<1>8. TypeOK'
  <2>1. stateLinks' \subseteq StateNode \X StateNode
    <3> DEFINE a == NodeOf(symbolic, dest, FALSE)
               b == NodeOf(symbolic, src, FALSE)
               to == NodeOf(after, dest, FALSE)
    <3> HIDE DEF a, b, to
    <3>1. a \in StateNode /\ b \in StateNode /\ to \in StateNode
      BY <1>6 DEF a, b, to
    <3>2. stateLinks \subseteq StateNode \X StateNode
      BY DEF IInv, TypeOK
    <3>3. stateLinks \cup {<<a, to>>, <<b, to>>} \subseteq StateNode \X StateNode
      BY <3>1, <3>2, LinksAdded
    <3>4. QED
      BY <3>3, <1>3 DEF a, b, to
  <2>2. trail' \in [States -> BlockNode]
    BY <1>3, <1>7 DEF IInv, TypeOK
  <2>3. QED
    BY <2>1, <2>2, <1>3, <1>5 DEF IInv, TypeOK
<1>9. Counted(assembly)'
  BY <1>1, <1>2, <1>3, <1>5 DEF IInv, Counted, Bounded
<1>10. (IF used = {Root} THEN BeforeFork ELSE AfterFork)'
  BY <1>1, <1>2, <1>3, <1>4, <1>5 DEF IInv, AfterFork, TypeOK
<1>11. IdsDistinct'
  BY <1>3, <1>5 DEF IdsDistinct, Distinct
<1>12. LinksAscend'
  <2>1. symbolic.ids[dest] < symbolic.count + 1 /\ symbolic.ids[src] < symbolic.count + 1
    BY <1>4 DEF Bounded, ControlFlow, AmbaIds
  <2>2. SUFFICES ASSUME NEW e \in stateLinks' PROVE e[1].amba < e[2].amba
    BY DEF LinksAscend
  <2>3. CASE e \in stateLinks
    BY <2>3 DEF IInv, LinksAscend
  <2>4. CASE e = <<NodeOf(symbolic, dest, FALSE), NodeOf(after, dest, FALSE)>>
    BY <2>1, <2>4, <1>6
  <2>5. CASE e = <<NodeOf(symbolic, src, FALSE), NodeOf(after, dest, FALSE)>>
    BY <2>1, <2>5, <1>6
  <2>6. QED
    BY <2>3, <2>4, <2>5, <1>3
<1>13. FreshIdsBlank'
  BY <1>2, <1>3, <1>4, <1>5 DEF IInv, FreshIdsBlank, AmbaIds
<1>14. LinksFollowExecution'
  <2> SUFFICES ASSUME NEW t \in alive
               PROVE  lastBlock[after.ids[t]] = trail'[t]
    BY <1>3 DEF LinksFollowExecution
  <2>1. CASE t = dest
    BY <2>1, <1>2, <1>3, <1>4, <1>5 DEF IInv, TypeOK, FreshIdsBlank, AmbaIds
  <2>2. CASE t # dest
    BY <2>2, <1>2, <1>3, <1>5 DEF IInv, TypeOK, LinksFollowExecution
  <2>3. QED
    BY <2>1, <2>2
<1>15. QED
  BY <1>3, <1>8, <1>9, <1>10, <1>11, <1>12, <1>13, <1>14 DEF IInv

LEMMA KillKeepsIInv ==
  ASSUME IInv, NEW s \in States, onStateKill(s)
  PROVE  IInv'
<1>1. /\ alive' \subseteq alive
      /\ UNCHANGED <<used, assembly, symbolic, lastBlock, blockLinks, stateLinks, trail>>
  BY DEF onStateKill
<1>2. QED
  BY <1>1 DEF IInv, TypeOK, Counted, BeforeFork, AfterFork, IdsDistinct, LinksAscend,
              FreshIdsBlank, LinksFollowExecution

LEMMA Inductive == Spec => []IInv
<1>1. Init => IInv
  BY InitIInv
<1>2. IInv /\ [Next]_vars => IInv'
  <2> SUFFICES ASSUME IInv, [Next]_vars PROVE IInv'
    OBVIOUS
  <2>1. ASSUME NEW s \in States, NEW pc \in Blocks, onBlockStart(s, pc) PROVE IInv'
    BY <2>1, BlockStartKeepsIInv
  <2>2. ASSUME NEW old \in States, NEW new \in States, onStateFork(old, new) PROVE IInv'
    BY <2>2, ForkKeepsIInv
  <2>3. ASSUME NEW dest \in States, NEW src \in States, onStateMerge(dest, src) PROVE IInv'
    BY <2>3, MergeKeepsIInv
  <2>4. ASSUME NEW s \in States, onStateKill(s) PROVE IInv'
    BY <2>4, KillKeepsIInv
  <2>5. CASE UNCHANGED vars
    BY <2>5 DEF vars, IInv, TypeOK, Counted, BeforeFork, AfterFork, IdsDistinct, LinksAscend,
                FreshIdsBlank, LinksFollowExecution
  <2>6. QED
    BY <2>1, <2>2, <2>3, <2>4, <2>5 DEF Next
<1>3. QED
  BY <1>1, <1>2, PTL DEF Spec

-----------------------------------------------------------------------------
(* The block graph and the state graph give every state the same amba id,   *)
(* once S2E has forked, whatever the order of callbacks.                   *)
THEOREM GraphsAgreeOnIds == Spec => []IdsAgree
<1>1. IInv => IdsAgree
  <2> SUFFICES ASSUME IInv, symbolic # assembly PROVE IdsAgree
    BY DEF IdsAgree
  <2>1. used = {Root} /\ symbolic = NoIds /\ assembly # NoIds /\ BeforeFork
    BY DEF IInv, AfterFork, BeforeFork
  <2>2. assembly.count = 1 /\ assembly.ids[Root] = 1
    BY <2>1, RootAssumption, BoundAssumption DEF BeforeFork
  <2>3. QED
    BY <2>1, <2>2 DEF IdsAgree
<1>2. QED
  BY <1>1, Inductive, PTL

(* An amba id never belongs to two states, living or dead.                  *)
THEOREM NoTwoStatesShareAnId == Spec => []NamesSound
<1>1. IInv => NamesSound
  BY DEF IInv, NamesSound
<1>2. QED
  BY <1>1, Inductive, PTL

(* Links of the state graph go from lower to greater amba ids: the assert  *)
(* of onStateFork holds, and walking the links as get_neighbour_states     *)
(* does ends.                                                              *)
THEOREM StateGraphAcyclic == Spec => []LinksAscend
<1>1. IInv => LinksAscend
  BY DEF IInv
<1>2. QED
  BY <1>1, Inductive, PTL

(* The next link of every living state leaves the block that it, or the    *)
(* state it was forked from, ran last.                                     *)
THEOREM BlockLinksFollowTheState == Spec => []LinksFollowExecution
<1>1. IInv => LinksFollowExecution
  BY DEF IInv
<1>2. QED
  BY <1>1, Inductive, PTL

-----------------------------------------------------------------------------
(* Neither graph of links falls into pieces.                               *)

\* What a state ran last, a link has led to.
BlocksReached ==
  \A a \in AmbaIds : lastBlock[a] = Zero \/ \E d \in blockLinks : d[2] = lastBlock[a]

\* Until a merge, every state that S2E forked is a node, under its present id.
ForkedAreNodes ==
  (\A e \in stateLinks : e[2].solved) =>
    IF used = {Root} THEN stateLinks = {}
    ELSE \A s \in used : NodeOf(symbolic, s, TRUE) \in Nodes

GrowInv == IInv /\ BlocksReached /\ ForkedAreNodes /\ ConnectedUntilMerge

LEMMA InitGrowInv == Init => GrowInv
  BY InitIInv DEF Init, GrowInv, BlocksReached, ForkedAreNodes, ConnectedUntilMerge,
                  StateGraphConnected, Nodes

(* Links from a node to two others keep a graph in one piece, if the node  *)
(* was there or the graph was empty.                                       *)
LEMMA ForkConnects ==
  ASSUME StateGraphConnected, NEW from, NEW a, NEW b,
         stateLinks' = stateLinks \cup {<<from, a>>, <<from, b>>},
         stateLinks = {} \/ from \in Nodes
  PROVE  StateGraphConnected' /\ Nodes' = Nodes \cup {from, a, b}
<1>1. Nodes' = Nodes \cup {from, a, b}
  <2> DEFINE fa == <<from, a>>
             fb == <<from, b>>
  <2>1. fa[1] = from /\ fa[2] = a /\ fb[1] = from /\ fb[2] = b
    OBVIOUS
  <2>2. stateLinks' = stateLinks \cup {fa, fb}
    OBVIOUS
  <2> HIDE DEF fa, fb
  <2>3. {e[1] : e \in stateLinks'} = {e[1] : e \in stateLinks} \cup {from}
    BY <2>1, <2>2
  <2>4. {e[2] : e \in stateLinks'} = {e[2] : e \in stateLinks} \cup {a, b}
    BY <2>1, <2>2
  <2>5. QED
    BY <2>3, <2>4 DEF Nodes
<1>2. <<from, a>> \in stateLinks' /\ <<from, b>> \in stateLinks' /\ stateLinks \subseteq stateLinks'
  OBVIOUS
<1>3. ASSUME NEW N \in SUBSET Nodes', N \notin {{}, Nodes'},
             \A e \in stateLinks' : (e[1] \in N) = (e[2] \in N)
      PROVE  FALSE
  <2>1. (from \in N <=> a \in N) /\ (from \in N <=> b \in N)
    BY <1>2, <1>3
  <2>2. CASE stateLinks = {}
    <3>1. Nodes = {}
      BY <2>2 DEF Nodes
    <3>2. QED
      BY <1>1, <1>3, <2>1, <3>1
  <2>3. CASE from \in Nodes
    <3> DEFINE M == N \cap Nodes
    <3>1. \A e \in stateLinks : (e[1] \in M) = (e[2] \in M)
      <4>1. \A e \in stateLinks : e[1] \in Nodes /\ e[2] \in Nodes
        BY DEF Nodes
      <4>2. QED
        BY <1>2, <1>3, <4>1
    <3>2. M \in {{}, Nodes}
      BY <3>1, Zenon DEF StateGraphConnected
    <3>3. QED
      BY <1>1, <1>3, <2>1, <2>3, <3>2
  <2>4. QED
    BY <2>2, <2>3
<1>4. QED
  BY <1>1, <1>3, Zenon DEF StateGraphConnected

LEMMA BlockStartGrows ==
  ASSUME GrowInv, NEW s \in States, NEW pc \in Blocks, onBlockStart(s, pc)
  PROVE  /\ BlocksReached' /\ ForkedAreNodes' /\ ConnectedUntilMerge'
         /\ \A e \in blockLinks' \ blockLinks :
              e[1] = Zero \/ \E d \in blockLinks : d[2] = e[1]
<1> DEFINE own == assembly'.ids[s]
           curr == [state |-> own, block |-> pc]
<1>1. /\ blockLinks' = blockLinks \cup {<<lastBlock[own], curr>>}
      /\ lastBlock' = [lastBlock EXCEPT ![own] = curr]
      /\ UNCHANGED <<used, symbolic, stateLinks>>
  BY DEF onBlockStart, BlockLink
<1>2. own \in AmbaIds
  BY BlockStartKeepsIInv DEF GrowInv, IInv, TypeOK, ControlFlow
<1>3. /\ lastBlock'[own] = curr
      /\ \A a \in AmbaIds \ {own} : lastBlock'[a] = lastBlock[a]
  BY <1>1, <1>2 DEF GrowInv, IInv, TypeOK
<1>4. <<lastBlock[own], curr>>[2] = curr /\ <<lastBlock[own], curr>>[1] = lastBlock[own]
  OBVIOUS
<1> HIDE DEF own, curr
<1>5. BlocksReached'
  <2> SUFFICES ASSUME NEW a \in AmbaIds
               PROVE  lastBlock'[a] = Zero \/ \E d \in blockLinks' : d[2] = lastBlock'[a]
    BY DEF BlocksReached, AmbaIds
  <2>1. CASE a = own
    BY <1>1, <1>3, <1>4, <2>1
  <2>2. CASE a # own
    BY <1>1, <1>3, <2>2 DEF GrowInv, BlocksReached
  <2>3. QED
    BY <2>1, <2>2
<1>6. \A e \in blockLinks' \ blockLinks :
        e[1] = Zero \/ \E d \in blockLinks : d[2] = e[1]
  BY <1>1, <1>2, <1>4 DEF GrowInv, BlocksReached
<1>7. ForkedAreNodes' /\ ConnectedUntilMerge'
  BY <1>1 DEF GrowInv, ForkedAreNodes, ConnectedUntilMerge, StateGraphConnected, Nodes, NodeOf
<1>8. QED
  BY <1>5, <1>6, <1>7

(* A fork starts from the boot state when there is no node yet, and from a *)
(* node of an earlier fork afterwards.                                     *)
LEMMA ForkGrows ==
  ASSUME GrowInv, NEW old \in States, NEW new \in States, onStateFork(old, new)
  PROVE  BlocksReached' /\ ForkedAreNodes' /\ ConnectedUntilMerge' /\ UNCHANGED blockLinks
<1> DEFINE before == Named(assembly, old)
           from == NodeOf(Named(symbolic, old), old, TRUE)
           kept == NodeOf(symbolic', old, TRUE)
           born == NodeOf(symbolic', new, TRUE)
<1>1. /\ old \in alive /\ new \notin used /\ old # new /\ used' = used \cup {new}
      /\ used' # {Root} /\ old \in used
      /\ symbolic' = Forked(symbolic, old, new)
      /\ assembly' = Forked(assembly, old, new) /\ assembly'.count <= MaxId
      /\ lastBlock' = [lastBlock EXCEPT ![assembly'.ids[old]] = lastBlock[before.ids[old]],
                                        ![assembly'.ids[new]] = lastBlock[before.ids[old]]]
      /\ stateLinks' = stateLinks \cup {<<from, kept>>, <<from, born>>}
      /\ UNCHANGED blockLinks
  BY DEF onStateFork, GrowInv, IInv
<1>2. /\ before.ids[old] \in AmbaIds
      /\ \A t \in States \ {old, new} : assembly'.ids[t] = assembly.ids[t]
  <2>1. /\ assembly \in ControlFlow /\ Distinct(assembly) /\ Bounded(assembly)
        /\ assembly.ids[new] = 0
    BY <1>1 DEF GrowInv, IInv, TypeOK, Counted, IdsDistinct, Distinct, Bounded
  <2>2. before \in ControlFlow
    BY <1>1, <2>1, ForkedProperties
  <2>3. \A t \in States \ {old, new} : assembly'.ids[t] = assembly.ids[t]
    BY <1>1, <2>1, ForkedProperties
  <2>4. QED
    BY <2>2, <2>3 DEF ControlFlow
<1>3. BlocksReached'
  <2>1. \A a \in AmbaIds : \E b \in AmbaIds : lastBlock'[a] = lastBlock[b]
    <3> HIDE DEF before
    <3>1. QED
      BY <1>1, <1>2 DEF GrowInv, IInv, TypeOK
  <2>2. UNCHANGED blockLinks
    BY <1>1
  <2>3. QED
    BY <2>1, <2>2 DEF GrowInv, BlocksReached, AmbaIds
<1> SUFFICES ASSUME \A e \in stateLinks' : e[2].solved
             PROVE  (\A t \in used' : NodeOf(symbolic', t, TRUE) \in Nodes') /\ StateGraphConnected'
  BY <1>1, <1>3 DEF ForkedAreNodes, ConnectedUntilMerge
<1>4. \A e \in stateLinks : e[2].solved
  BY <1>1
<1>5. StateGraphConnected
  BY <1>4 DEF GrowInv, ConnectedUntilMerge
<1>6. stateLinks = {} \/ from \in Nodes
  <2>1. CASE used = {Root}
    BY <1>4, <2>1 DEF GrowInv, ForkedAreNodes
  <2>2. CASE used # {Root}
    <3>1. Named(symbolic, old) = symbolic
      BY <1>1, <2>2 DEF GrowInv, IInv, AfterFork, Named
    <3>2. QED
      BY <1>1, <1>4, <2>2, <3>1 DEF GrowInv, ForkedAreNodes
  <2>3. QED
    BY <2>1, <2>2
<1>7. StateGraphConnected' /\ Nodes' = Nodes \cup {from, kept, born}
  <2> HIDE DEF from, kept, born
  <2>1. QED
    BY <1>1, <1>5, <1>6, ForkConnects
<1>8. ASSUME NEW t \in used \ {old}
      PROVE  NodeOf(symbolic', t, TRUE) \in Nodes
  <2>1. used # {Root} /\ t \in States /\ t # new
    BY <1>1, <1>8 DEF GrowInv, IInv, BeforeFork, TypeOK
  <2>2. symbolic = assembly /\ symbolic' = assembly'
    BY <1>1, <2>1 DEF GrowInv, IInv, AfterFork
  <2>3. NodeOf(symbolic', t, TRUE) = NodeOf(symbolic, t, TRUE)
    BY <1>2, <1>8, <2>1, <2>2 DEF NodeOf
  <2>4. QED
    BY <1>4, <2>1, <2>3 DEF GrowInv, ForkedAreNodes
<1>9. QED
  BY <1>1, <1>7, <1>8

(* The links of a merge are made without solutions.                        *)
LEMMA MergeGrows ==
  ASSUME GrowInv, NEW dest \in States, NEW src \in States, onStateMerge(dest, src)
  PROVE  BlocksReached' /\ ForkedAreNodes' /\ ConnectedUntilMerge' /\ UNCHANGED blockLinks
<1>1. UNCHANGED <<lastBlock, blockLinks>>
  BY DEF onStateMerge
<1>2. \E e \in stateLinks' : ~e[2].solved
  <2>1. \E a, b : <<a, NodeOf(b, dest, FALSE)>> \in stateLinks'
    BY DEF onStateMerge
  <2>2. QED
    BY <2>1 DEF NodeOf
<1>3. QED
  BY <1>1, <1>2 DEF GrowInv, BlocksReached, ForkedAreNodes, ConnectedUntilMerge

LEMMA NextGrows ==
  GrowInv /\ [Next]_vars =>
    /\ BlocksReached' /\ ForkedAreNodes' /\ ConnectedUntilMerge'
    /\ \A e \in blockLinks' \ blockLinks :
         e[1] = Zero \/ \E d \in blockLinks : d[2] = e[1]
<1> SUFFICES ASSUME GrowInv, [Next]_vars
             PROVE  /\ BlocksReached' /\ ForkedAreNodes' /\ ConnectedUntilMerge'
                    /\ \A e \in blockLinks' \ blockLinks :
                         e[1] = Zero \/ \E d \in blockLinks : d[2] = e[1]
  OBVIOUS
<1>1. CASE UNCHANGED <<used, symbolic, lastBlock, blockLinks, stateLinks>>
  BY <1>1 DEF GrowInv, BlocksReached, ForkedAreNodes, ConnectedUntilMerge, StateGraphConnected,
              Nodes
<1>2. QED
  BY <1>1, BlockStartGrows, ForkGrows, MergeGrows DEF Next, vars, onStateKill

(* Both graphs of links stay in one piece: every new link of the block     *)
(* graph leaves a block that is there, and until S2E merges states the     *)
(* nodes of the state graph are connected, as embed.rs asserts.            *)
THEOREM GraphsGrowInOnePiece == Spec => GrowInOnePiece
<1>1. GrowInv /\ [Next]_vars =>
        [\A e \in blockLinks' \ blockLinks :
           e[1] = Zero \/ \E d \in blockLinks : d[2] = e[1]]_vars
  BY NextGrows
<1>2. GrowInv => ConnectedUntilMerge
  BY DEF GrowInv
<1>3. IInv' /\ BlocksReached' /\ ForkedAreNodes' /\ ConnectedUntilMerge' => GrowInv'
  BY DEF GrowInv
<1>4. QED
  BY <1>1, <1>2, <1>3, InitGrowInv, NextGrows, Inductive, PTL
     DEF Spec, GrowInOnePiece, BlockLinksRooted

-----------------------------------------------------------------------------
(* The threads of amba run: which have ended where the controller is, and  *)
(* what that says of QEMU.                                                 *)

\* The QEMU thread starts QEMU, and ends after it has reaped it.
QemuAndItsThread ==
  /\ threads["qemu"] \in {"none", "spawning"} => machine = "none"
  /\ threads["qemu"] \in Ended => machine = "reaped"

\* The first thread is started by prepare_run's success, the others by Accept.
NoneBefore == ctl = "prepare" => \A t \in Threads : threads[t] = "none"
EmbedderListens == ctl = "loop" => threads["embedder"] = "reading"

\* What the joins so far say.  The controller leaves the scope, or the last
\* join, when all have ended; a failed preparation ends before any began.
Joined ==
  /\ ctl \in {"qemu", "ipc", "embedder", "scope"} => threads["qmp"] \in Ended
  /\ ctl \in {"ipc", "embedder"} => threads["qemu"] \in Ended
  /\ ctl = "embedder" => threads["ipc"] \in Ended
  /\ ctl = "ok" => \A t \in Threads : threads[t] \in Ended
  /\ ctl = "err" => \/ \A t \in Threads : threads[t] \in Ended
                    \/ \A t \in Threads : threads[t] = "none"

Safe == /\ QemuAndItsThread /\ NoneBefore /\ EmbedderListens /\ Joined
        /\ SendsFindReceivers /\ HeadlessLeavesNoQemu

LifeInv == LifeTypeOK /\ Safe

-----------------------------------------------------------------------------
LEMMA JoiningNames ==
  /\ Joining[1] = "qmp" /\ Joining[2] = "qemu"
  /\ Joining[3] = "ipc" /\ Joining[4] = "embedder"
  /\ {Joining[i] : i \in 1 .. 4} = Threads
<1>1. /\ Joining[1] = "qmp" /\ Joining[2] = "qemu" /\ Joining[3] = "ipc"
      /\ Joining[4] = "embedder"
  BY DEF Joining
<1>2. 1 .. 4 = {1, 2, 3, 4}
  OBVIOUS
<1>3. QED
  BY <1>1, <1>2 DEF Threads

LEMMA InitLifeInv == LifeInit => LifeInv
<1> SUFFICES ASSUME LifeInit PROVE LifeInv
  OBVIOUS
<1>1. rx \in Seq(Message)
  <2>1. rx = <<>>
    BY DEF LifeInit
  <2>2. QED
    BY <2>1
<1>2. {pid, dialled, event} \subseteq BOOLEAN
  BY Zenon DEF LifeInit
<1>3. {onWire, unread, clicks, sends} \subseteq Nat
  BY SMT DEF LifeInit
<1>4. LifeTypeOK
  BY <1>1, <1>2, <1>3 DEF LifeInit, LifeTypeOK
<1>5. QED
  BY <1>4
     DEF LifeInit, LifeInv, Safe, SendsFindReceivers, HeadlessLeavesNoQemu,
         Headless,
              QemuAndItsThread, NoneBefore, EmbedderListens, Joined, Threads, Ended

-----------------------------------------------------------------------------
(* Types.                                                                  *)
LEMMA MessageSent ==
  ASSUME LifeTypeOK, NEW m \in Message
  PROVE  Append(rx, m) \in Seq(Message)
  BY DEF LifeTypeOK

LEMMA GoToType ==
  ASSUME LifeTypeOK, NEW t \in Threads,
         NEW place \in {"telling", "waiting", "handshake", "reading"} \cup Ended,
         GoTo(t, place)
  PROVE  threads' \in [Threads -> {"none", "spawning", "telling", "waiting", "connecting",
                                   "handshake", "reading"} \cup Ended]
  BY DEF LifeTypeOK, GoTo

LEMMA PanicType ==
  ASSUME LifeTypeOK, NEW why \in Panics, Panic(why)
  PROVE  LifeTypeOK'
  BY DEF LifeTypeOK, Panic, QemuRuns

LEMMA UserType ==
  ASSUME LifeTypeOK, User
  PROVE  LifeTypeOK'
<1>1. ASSUME NEW m \in Message, Click(m)
      PROVE  LifeTypeOK'
  <2>1. CASE Receiving
    BY <1>1, <2>1, MessageSent DEF Click, LifeTypeOK
  <2>2. CASE ~Receiving
    BY <1>1, <2>2, PanicType DEF Click, Panics
  <2>3. QED
    BY <2>1, <2>2
<1>2. CASE Close
  BY <1>2, MessageSent DEF Close, IgnoredIfGone, LifeTypeOK, Message
<1>3. QED
  BY <1>1, <1>2 DEF User, ChangeView, Prioritise, Message

LEMMA ControllerType ==
  ASSUME LifeTypeOK, Controller
  PROVE  LifeTypeOK'
<1>1. CASE Prepare
  BY <1>1 DEF Prepare, GoTo, LifeTypeOK
<1>2. CASE Bind
  BY <1>2 DEF Bind, LifeTypeOK
<1>3. CASE Accept
  BY <1>3 DEF Accept, LifeTypeOK
<1>4. CASE Control
  <2>1. /\ rx' \in Seq(Message) /\ Head(rx) \in Message
        /\ UNCHANGED <<gui, threads, dialled, event, onWire, clicks, sends>>
    BY <1>4 DEF Control, LifeTypeOK
  <2>2. CASE TellEmbedder
    BY <2>1, <2>2 DEF TellEmbedder, LifeTypeOK, Panics
  <2>3. CASE ctl' = "shutdown" /\ UNCHANGED <<process, machine, pid, unread>>
    BY <2>1, <2>3 DEF LifeTypeOK
  <2>4. CASE pid' = TRUE /\ UNCHANGED <<process, machine, ctl, unread>>
    BY <2>1, <2>4 DEF LifeTypeOK
  <2>5. CASE unread' \in {unread, unread + 1} /\ UNCHANGED <<process, machine, ctl, pid>>
    BY <2>1, <2>5 DEF LifeTypeOK
  <2>6. QED
    BY <1>4, <2>1, <2>2, <2>3, <2>4, <2>5 DEF Control, Message
<1>5. CASE Shutdown
  <2>1. ctl' \in {Joining[i] : i \in 1 .. 4} /\ machine' \in {machine, "stopping"}
    BY <1>5 DEF Shutdown
  <2>2. event' \in {event, TRUE}
    BY <1>5 DEF Shutdown, AnnounceShutdown
  <2>3. UNCHANGED <<process, gui, rx, pid, threads, dialled, onWire, unread, clicks, sends>>
    BY <1>5 DEF Shutdown
  <2>4. QED
    BY <2>1, <2>2, <2>3 DEF LifeTypeOK
<1>6. CASE Join
  <2>1. PICK i \in 1 .. 4 :
          ctl' = IF threads[ctl] = "err" THEN "scope"
                 ELSE IF i = 4 THEN "ok" ELSE Joining[i + 1]
    BY <1>6 DEF Join
  <2>2. ctl' \in {"scope", "ok"} \cup {Joining[j] : j \in 1 .. 4}
    BY <2>1
  <2>3. UNCHANGED <<process, gui, rx, pid, threads, machine, dialled, event, onWire, unread,
                  clicks, sends>>
    BY <1>6 DEF Join
  <2>4. QED
    BY <2>2, <2>3 DEF LifeTypeOK
<1>7. CASE LeaveScope
  BY <1>7 DEF LeaveScope, LifeTypeOK
<1>8. QED
  BY <1>1, <1>2, <1>3, <1>4, <1>5, <1>6, <1>7 DEF Controller

LEMMA ThreadType ==
  ASSUME LifeTypeOK, QemuThread \/ IpcThread \/ QmpThread \/ EmbedderEnds
  PROVE  LifeTypeOK'
<1>1. CASE \E why \in Panics : Panic(why)
  BY <1>1, PanicType
<1>2. CASE Spawn
  BY <1>1, <1>2, GoToType DEF Spawn, LifeTypeOK, Panics, Threads
<1>3. CASE TellPid
  BY <1>1, <1>3, GoToType, MessageSent
     DEF TellPid, LifeTypeOK, Panics, Threads, Message
<1>4. CASE Reap
  BY <1>4, GoToType DEF Reap, LifeTypeOK, Threads
<1>5. CASE ReceiveEdges
  BY <1>5, MessageSent DEF ReceiveEdges, IgnoredIfGone, LifeTypeOK, Message
<1>6. CASE IpcEnds
  BY <1>1, <1>6, GoToType DEF IpcEnds, LifeTypeOK, Panics, Threads, Ended
<1>7. CASE QmpConnects
  BY <1>7, GoToType DEF QmpConnects, LifeTypeOK, Threads, Ended
<1>8. CASE QmpHandshake
  BY <1>8, GoToType DEF QmpHandshake, LifeTypeOK, Threads
<1>9. CASE QmpEvent
  BY <1>1, <1>9, GoToType, MessageSent
     DEF QmpEvent, LifeTypeOK, Panics, Threads, Message, Ended
<1>10. CASE QmpEof
  BY <1>1, <1>10 DEF QmpEof, Panics
<1>11. CASE EmbedderEnds
  BY <1>11, GoToType DEF EmbedderEnds, LifeTypeOK, Threads, Ended
<1>12. QED
  BY <1>2, <1>3, <1>4, <1>5, <1>6, <1>7, <1>8, <1>9, <1>10, <1>11
     DEF QemuThread, IpcThread, QmpThread

LEMMA QemuType ==
  ASSUME LifeTypeOK, Qemu
  PROVE  LifeTypeOK'
<1>1. CASE PluginConnects
  BY <1>1 DEF PluginConnects, LifeTypeOK
<1>2. CASE SendEdges
  BY <1>2 DEF SendEdges, LifeTypeOK
<1>3. CASE PollPriority
  BY <1>3 DEF PollPriority, LifeTypeOK
<1>4. CASE GuestEnds
  <2>1. event' \in {event, TRUE}
    BY <1>4 DEF GuestEnds, AnnounceShutdown
  <2>2. QED
    BY <1>4, <2>1 DEF GuestEnds, LifeTypeOK
<1>5. CASE QemuExits \/ QemuCrashes
  BY <1>5 DEF QemuExits, QemuCrashes, LifeTypeOK
<1>6. QED
  BY <1>1, <1>2, <1>3, <1>4, <1>5 DEF Qemu

LEMMA TypeKeeps == LifeTypeOK /\ [LifeNext]_lifeVars => LifeTypeOK'
<1>1. LifeTypeOK /\ MainReturns => LifeTypeOK'
  BY DEF MainReturns, LifeTypeOK
<1>2. LifeTypeOK /\ UNCHANGED lifeVars => LifeTypeOK'
  BY DEF lifeVars, LifeTypeOK
<1>3. QED
  BY <1>1, <1>2, UserType, ControllerType, ThreadType, QemuType DEF LifeNext, Process

-----------------------------------------------------------------------------
(* Steps that move no thread, and threads that move.                       *)
LEMMA QuietKeeps ==
  ASSUME LifeInv, UNCHANGED <<process, gui, ctl, threads, machine>>
  PROVE  Safe'
  BY DEF LifeInv, Safe, QemuAndItsThread, NoneBefore, EmbedderListens, Joined,
         SendsFindReceivers,
         HeadlessLeavesNoQemu, Headless

LEMMA PanicKeeps ==
  ASSUME LifeInv, NEW why \in Panics \ {"qmp send", "embedder send"}, Panic(why)
  PROVE  Safe'
<1>1. /\ process' = why /\ UNCHANGED <<gui, ctl, threads>>
      /\ threads["qemu"] # "waiting" => machine' = machine
  BY DEF Panic
<1>2. process' \notin {"success", "failure", "qmp send", "embedder send"}
  BY <1>1 DEF Panics
<1>3. QED
  BY <1>1, <1>2 DEF LifeInv, Safe, QemuAndItsThread, NoneBefore, EmbedderListens, Joined,
                    SendsFindReceivers, HeadlessLeavesNoQemu, Headless, Ended

(* A thread that runs may go on, or end, wherever the controller is, but   *)
(* for the embedder, which is needed in the loop.                          *)
LEMMA GoToKeeps ==
  ASSUME LifeInv, process = "running", NEW t \in Threads, NEW place, GoTo(t, place),
         place # "none", threads[t] \notin Ended \cup {"none"}, UNCHANGED <<process, gui,
         ctl>>,
         t = "embedder" => ctl # "loop",
         QemuAndItsThread'
  PROVE  Safe'
<1>1. /\ threads' = [threads EXCEPT ![t] = place] /\ threads'[t] = place
      /\ \A u \in Threads \ {t} : threads'[u] = threads[u]
  BY DEF GoTo, LifeInv, LifeTypeOK
<1>2. \A u \in Threads : threads[u] \in Ended => threads'[u] \in Ended
  BY <1>1
<1>3. ctl \notin {"prepare", "ok", "err"}
  BY DEF LifeInv, Safe, NoneBefore, Joined
<1>4. NoneBefore' /\ EmbedderListens' /\ Joined'
  BY <1>1, <1>2, <1>3
     DEF LifeInv, Safe, NoneBefore, EmbedderListens, Joined, Threads
<1>5. SendsFindReceivers' /\ HeadlessLeavesNoQemu'
  BY DEF SendsFindReceivers, HeadlessLeavesNoQemu
<1>6. QED
  BY <1>4, <1>5 DEF Safe

-----------------------------------------------------------------------------
(* The window and main.                                                    *)
LEMMA UserKeeps ==
  ASSUME LifeInv, User
  PROVE  Safe'
<1>1. ASSUME NEW m, Click(m)
      PROVE  Safe'
  BY <1>1, QuietKeeps, PanicKeeps DEF Click, Panics
<1>2. CASE Close
  BY <1>2 DEF Close, LifeInv, Safe, QemuAndItsThread, NoneBefore, EmbedderListens, Joined,
              SendsFindReceivers, HeadlessLeavesNoQemu, Headless
<1>3. QED
  BY <1>1, <1>2 DEF User, ChangeView, Prioritise

(* Without a window main returns when the controller has: every thread has *)
(* ended, that of QEMU after reaping it, or none was started.              *)
LEMMA MainReturnsKeeps ==
  ASSUME LifeInv, MainReturns
  PROVE  Safe'
<1>1. /\ process' \in {"success", "failure"} /\ UNCHANGED <<gui, ctl, threads, machine>>
      /\ Headless => ctl \in {"ok", "err"}
  BY DEF MainReturns, Headless
<1>2. ASSUME ctl \in {"ok", "err"}
      PROVE  machine \in {"none", "reaped"}
  BY <1>2 DEF LifeInv, Safe, Joined, QemuAndItsThread, Threads
<1>3. QED
  BY <1>1, <1>2 DEF LifeInv, Safe, QemuAndItsThread, NoneBefore, EmbedderListens, Joined,
                    SendsFindReceivers, HeadlessLeavesNoQemu, Headless

-----------------------------------------------------------------------------
(* The controller.                                                         *)
LEMMA AcceptKeeps ==
  ASSUME LifeInv, process = "running", Accept
  PROVE  Safe'
<1>1. /\ ctl' = "loop" /\ UNCHANGED <<process, gui, machine>>
      /\ threads'["qemu"] = threads["qemu"] /\ threads'["embedder"] = "reading"
  BY DEF Accept, LifeInv, LifeTypeOK, Threads
<1>2. QED
  BY <1>1 DEF LifeInv, Safe, QemuAndItsThread, NoneBefore, EmbedderListens, Joined,
              SendsFindReceivers, HeadlessLeavesNoQemu, Headless

LEMMA PrepareKeeps ==
  ASSUME LifeInv, process = "running", Prepare
  PROVE  Safe'
<1>1. ctl = "prepare" /\ UNCHANGED <<process, gui, machine>>
  BY DEF Prepare
<1>2. \A t \in Threads : threads[t] = "none"
  BY <1>1 DEF LifeInv, Safe, NoneBefore
<1>3. machine = "none"
  BY <1>2 DEF LifeInv, Safe, QemuAndItsThread, Threads
<1>4. CASE ctl' = "err" /\ UNCHANGED threads
  BY <1>1, <1>2, <1>3, <1>4 DEF Safe, QemuAndItsThread, NoneBefore, EmbedderListens, Joined,
                                SendsFindReceivers, HeadlessLeavesNoQemu,
                                Headless, Ended, Threads
<1>5. CASE ctl' = "bind" /\ GoTo("qemu", "spawning")
  <2>1. threads'["qemu"] = "spawning"
    BY <1>5 DEF GoTo, LifeInv, LifeTypeOK, Threads
  <2>2. QED
    BY <1>1, <1>3, <1>5, <2>1
       DEF Safe, QemuAndItsThread, NoneBefore, EmbedderListens, Joined, SendsFindReceivers,
           HeadlessLeavesNoQemu, Headless, Ended
<1>6. QED
  BY <1>4, <1>5 DEF Prepare

(* The embedder is there for what the loop forwards.                       *)
LEMMA ControlKeeps ==
  ASSUME LifeInv, process = "running", Control
  PROVE  Safe'
<1>1. ctl = "loop" /\ threads["embedder"] = "reading" /\ UNCHANGED <<gui, threads>>
  BY DEF Control, LifeInv, Safe, EmbedderListens
<1>2. Head(rx) \in Message
  BY DEF Control, LifeInv, LifeTypeOK
<1>3. ctl' \in {ctl, "shutdown"} /\ UNCHANGED <<process, machine>>
  BY <1>1, <1>2 DEF Control, TellEmbedder, Message
<1>4. QED
  BY <1>1, <1>3 DEF LifeInv, Safe, QemuAndItsThread, NoneBefore, EmbedderListens, Joined,
                    SendsFindReceivers, HeadlessLeavesNoQemu, Headless

LEMMA ShutdownKeeps ==
  ASSUME LifeInv, process = "running", Shutdown
  PROVE  Safe'
<1>1. /\ ctl' = "qmp" /\ UNCHANGED <<process, gui, threads>>
      /\ machine' # machine => machine = "guest"
  BY JoiningNames DEF Shutdown
<1>2. QED
  BY <1>1 DEF LifeInv, Safe, QemuAndItsThread, NoneBefore, EmbedderListens, Joined,
              SendsFindReceivers, HeadlessLeavesNoQemu, Headless

LEMMA JoinKeeps ==
  ASSUME LifeInv, process = "running", Join
  PROVE  Safe'
<1>1. /\ ctl \in {"qmp", "qemu", "ipc", "embedder"} /\ threads[ctl] \in Ended
      /\ ctl' = IF threads[ctl] = "err" THEN "scope"
                ELSE IF ctl = "qmp" THEN "qemu"
                ELSE IF ctl = "qemu" THEN "ipc"
                ELSE IF ctl = "ipc" THEN "embedder" ELSE "ok"
      /\ UNCHANGED <<process, gui, threads, machine>>
  <2>1. PICK i \in {1, 2, 3, 4} :
          /\ ctl = Joining[i] /\ threads[ctl] \in Ended
          /\ ctl' = IF threads[ctl] = "err" THEN "scope"
                    ELSE IF i = 4 THEN "ok" ELSE Joining[i + 1]
          /\ UNCHANGED <<process, gui, threads, machine>>
    BY DEF Join
  <2>2. QED
    BY <2>1, JoiningNames
<1>2. QED
  BY <1>1 DEF LifeInv, Safe, QemuAndItsThread, NoneBefore, EmbedderListens, Joined,
              SendsFindReceivers, HeadlessLeavesNoQemu, Headless, Threads

LEMMA ControllerKeeps ==
  ASSUME LifeInv, process = "running", Controller
  PROVE  Safe'
<1>1. CASE Bind
  BY <1>1 DEF Bind, LifeInv, Safe, QemuAndItsThread, NoneBefore, EmbedderListens, Joined,
              SendsFindReceivers, HeadlessLeavesNoQemu, Headless
<1>2. CASE LeaveScope
  BY <1>2
     DEF LeaveScope, LifeInv, Safe, QemuAndItsThread, NoneBefore, EmbedderListens, Joined,
              SendsFindReceivers, HeadlessLeavesNoQemu, Headless
<1>3. QED
  BY <1>1, <1>2, PrepareKeeps, AcceptKeeps, ControlKeeps, ShutdownKeeps, JoinKeeps
     DEF Controller

-----------------------------------------------------------------------------
(* The other threads, and QEMU.                                            *)
LEMMA QemuThreadKeeps ==
  ASSUME LifeInv, process = "running", QemuThread
  PROVE  Safe'
<1>1. CASE \E why \in {"qemu start", "qemu send"} : Panic(why)
  BY <1>1, PanicKeeps DEF Panics
<1>2. ASSUME threads["qemu"] \in {"spawning", "telling", "waiting"},
             NEW place \in {"telling", "waiting"} \cup Ended, GoTo("qemu", place),
             UNCHANGED <<process, gui, ctl>>, place \in Ended => machine' = "reaped"
      PROVE  Safe'
  <2>1. threads'["qemu"] = place /\ "qemu" \in Threads
    BY <1>2 DEF GoTo, LifeInv, LifeTypeOK, Threads
  <2>2. QemuAndItsThread'
    BY <1>2, <2>1 DEF QemuAndItsThread, Ended
  <2>3. QED
    BY <1>2, <2>1, <2>2, GoToKeeps DEF Ended
<1>3. CASE Spawn
  BY <1>1, <1>2, <1>3 DEF Spawn, Ended
<1>4. CASE TellPid
  BY <1>1, <1>2, <1>4 DEF TellPid, Ended
<1>5. CASE Reap
  BY <1>2, <1>5 DEF Reap
<1>6. QED
  BY <1>3, <1>4, <1>5 DEF QemuThread

\* The threads that QEMU's process does not depend on.
LEMMA OtherGoesOn ==
  ASSUME LifeInv, process = "running",
         NEW t \in Threads \ {"qemu"}, NEW place, GoTo(t, place), place # "none",
         threads[t] \in {"connecting", "handshake", "reading"},
         UNCHANGED <<process, gui, ctl, machine>>, t = "embedder" => ctl # "loop"
  PROVE  Safe'
<1>1. threads'["qemu"] = threads["qemu"]
  BY DEF GoTo, LifeInv, LifeTypeOK, Threads
<1>2. QemuAndItsThread'
  BY <1>1 DEF QemuAndItsThread, LifeInv, Safe
<1>3. QED
  BY <1>2, GoToKeeps DEF Ended

(* The QMP thread finds the controller's receiver: it is joined first.     *)
LEMMA OtherThreadsKeep ==
  ASSUME LifeInv, process = "running", IpcThread \/ QmpThread \/ EmbedderEnds
  PROVE  Safe'
<1>1. threads["qmp"] = "reading" => Receiving
  BY DEF LifeInv, Safe, Joined, Receiving, Ended, Threads
<1>2. {"ipc", "qmp", "embedder"} \subseteq Threads \ {"qemu"}
  BY DEF Threads
<1>3. CASE \E why \in {"ipc reset", "qmp eof"} : Panic(why)
  BY <1>3, PanicKeeps DEF Panics
<1>4. CASE IpcThread
  BY <1>2, <1>3, <1>4, QuietKeeps, OtherGoesOn DEF IpcThread, ReceiveEdges, IpcEnds
<1>5. CASE QmpConnects \/ QmpHandshake
  BY <1>2, <1>5, QuietKeeps, OtherGoesOn DEF QmpConnects, QmpHandshake
<1>6. CASE QmpEvent
  BY <1>1, <1>2, <1>6, OtherGoesOn DEF QmpEvent
<1>7. CASE QmpEof
  BY <1>3, <1>7 DEF QmpEof
<1>8. CASE EmbedderEnds
  BY <1>2, <1>8, OtherGoesOn, JoiningNames DEF EmbedderEnds, Dropped, Threads
<1>9. QED
  BY <1>4, <1>5, <1>6, <1>7, <1>8 DEF QmpThread

(* What QEMU does is over once it was reaped, and begins when it starts.   *)
LEMMA QemuKeeps ==
  ASSUME LifeInv, Qemu
  PROVE  Safe'
<1>1. /\ UNCHANGED <<process, gui, ctl, threads>>
      /\ machine' = machine \/ machine \in {"booting", "guest", "stopping"}
  BY DEF Qemu, PluginConnects, SendEdges, PollPriority, GuestEnds,
         QemuExits, QemuCrashes
<1>2. QED
  BY <1>1 DEF LifeInv, Safe, QemuAndItsThread, NoneBefore, EmbedderListens, Joined,
              SendsFindReceivers, HeadlessLeavesNoQemu, Headless

-----------------------------------------------------------------------------
LEMMA NextKeepsLife == LifeInv /\ [LifeNext]_lifeVars => LifeInv'
<1> SUFFICES ASSUME LifeInv, [LifeNext]_lifeVars PROVE Safe'
  BY TypeKeeps DEF LifeInv
<1>1. CASE UNCHANGED lifeVars
  BY <1>1, QuietKeeps DEF lifeVars
<1>2. CASE process = "running" /\ (User \/ Process)
  BY <1>2, UserKeeps, MainReturnsKeeps, ControllerKeeps, QemuThreadKeeps, OtherThreadsKeep
     DEF Process
<1>3. CASE Qemu
  BY <1>3, QemuKeeps
<1>4. QED
  BY <1>1, <1>2, <1>3 DEF LifeNext

(* However `amba run` ends, the unwrapped sends of the QMP thread and of   *)
(* the controller found their receivers, and without a window no QEMU is   *)
(* left: whatever the order in which the threads end, and QEMU crashes.    *)
THEOREM RunEndsInOrder == LifeSpec => []EndsInOrder
<1>1. LifeInv => EndsInOrder
  BY DEF LifeInv, Safe, EndsInOrder
<1>2. QED
  BY <1>1, InitLifeInv, NextKeepsLife, PTL DEF LifeSpec

-----------------------------------------------------------------------------
(* Children and signals: who has the lock, whose child may still run, and  *)
(* what the handler took.                                                  *)

Waits(places) == wait # Idle /\ wait.at \in places

\* Where safe_wait has the lock, nobody else has.
PollerHolds == Waits({"inserting", "polling"}) => holder = "waiter" /\ Working

\* A handler that kills has the lock, never to give it back, and the map.
KillerHolds == \A h \in Handlers : handler[h] = "killing" => holder = h /\ ~present

\* Only the command that is waited for may have a child that runs.
RunningIsAwaited ==
  \A c \in Commands : child[c] = "running" => wait # Idle /\ wait.cmd = c

\* Once it is entered, a command stays in the map until a handler takes it.
EnteredOrTaken ==
  Waits({"sleeping", "polling"}) =>
    \/ present /\ wait.cmd \in tracked
    \/ \E h \in Handlers : handler[h] = "killing" /\ wait.cmd \in took[h]

ReaperInv ==
  /\ ReaperTypeOK
  /\ PollerHolds /\ KillerHolds /\ RunningIsAwaited /\ EnteredOrTaken
  /\ ExitOneKills

-----------------------------------------------------------------------------
LEMMA InitReaperInv == ReaperInit => ReaperInv
  BY DEF ReaperInit, ReaperInv, ReaperTypeOK, PollerHolds, KillerHolds, RunningIsAwaited,
         EnteredOrTaken,
         ExitOneKills, Waits, Idle, Nobody

(* A command that waits is at a place, for a command.                      *)
LEMMA Places ==
  ASSUME ReaperTypeOK, wait # Idle
  PROVE  /\ wait \in [at : {"spawned", "inserting", "sleeping", "polling"}, cmd : Commands]
         /\ wait = At(wait.at, wait.cmd)
  BY DEF ReaperTypeOK, At

(* At is a place, for a command: never Idle.                               *)
LEMMA AtFields ==
  ASSUME NEW place \in {"spawned", "inserting", "sleeping", "polling"}, NEW c \in Commands
  PROVE  /\ At(place, c) # Idle
         /\ At(place, c).at = place /\ At(place, c).cmd = c
         /\ At(place, c) \in
              [at : {"spawned", "inserting", "sleeping", "polling"}, cmd : Commands]
  BY DEF At, Idle
-----------------------------------------------------------------------------
(* The waiter.                                                             *)

LEMMA SpawnKeeps ==
  ASSUME ReaperInv, exit = 0, NEW c \in Commands, SpawnChild(c)
  PROVE  ReaperInv'
<1> DEFINE spawned == At("spawned", c)
<1>1. spawned # Idle /\ spawned.at = "spawned" /\ spawned.cmd = c
  BY AtFields
<1>2. /\ wait = Idle /\ wait' = spawned /\ child' = [child EXCEPT ![c] = "running"]
      /\ UNCHANGED <<holder, present, tracked, handler, took, exit>>
  BY DEF SpawnChild
<1>3. ReaperTypeOK'
  BY <1>2, AtFields DEF ReaperInv, ReaperTypeOK
<1>4. RunningIsAwaited'
  BY <1>1, <1>2 DEF ReaperInv, ReaperTypeOK, RunningIsAwaited
<1>5. QED
  BY <1>1, <1>2, <1>3, <1>4
     DEF ReaperInv, PollerHolds, Working, KillerHolds, EnteredOrTaken,
         ExitOneKills, Waits

LEMMA TryLockKeeps ==
  ASSUME ReaperInv, exit = 0,
         NEW from \in {"spawned", "sleeping"}, NEW to \in {"inserting", "polling"},
         from = "sleeping" <=> to = "polling", TryLock(from, to)
  PROVE  ReaperInv'
<1>1. /\ wait # Idle /\ wait.at = from /\ wait.cmd \in Commands /\ Working
      /\ UNCHANGED <<child, present, tracked, took, exit>>
  BY Places DEF TryLock, ReaperInv
<1>2. CASE holder = Nobody /\ holder' = "waiter" /\ wait' = At(to,
wait.cmd) /\ UNCHANGED handler
  <2>1. wait' # Idle /\ wait'.at = to /\ wait'.cmd = wait.cmd
    BY <1>1, <1>2, AtFields
  <2>2. ReaperTypeOK'
    BY <1>1, <1>2, AtFields DEF ReaperInv, ReaperTypeOK, Handlers
  <2>3. \A h \in Handlers : handler[h] # "killing"
    BY <1>2, ThreadsAssumption DEF ReaperInv, KillerHolds, Handlers, Nobody, ThreadsApart
  <2>4. QED
    BY <1>1, <1>2, <2>1, <2>2, <2>3
       DEF ReaperInv, PollerHolds, Working, KillerHolds, RunningIsAwaited, EnteredOrTaken,
           ExitOneKills, Waits
<1>3. CASE /\ holder # Nobody /\ handler' = [handler EXCEPT !["waiter"] = "called"]
           /\ UNCHANGED <<holder, wait>>
  <2>1. ReaperTypeOK'
    BY <1>1, <1>3 DEF ReaperInv, ReaperTypeOK
  <2>2. handler["waiter"] = "none" /\ handler \in [Handlers -> {"none", "called",
  "killing", "giving up"}]
    BY <1>1 DEF Working, ReaperInv, ReaperTypeOK
  <2>3. \A h \in Handlers : handler'[h] = "killing" <=> handler[h] = "killing"
    BY <1>3, <2>2
  <2>4. ~Waits({"inserting", "polling"})'
    BY <1>1, <1>3 DEF Waits
  <2>5. QED
    BY <1>1, <1>3, <2>1, <2>3, <2>4
       DEF ReaperInv, PollerHolds, KillerHolds, RunningIsAwaited, EnteredOrTaken,
           ExitOneKills, Waits
<1>4. QED
  BY <1>2, <1>3 DEF TryLock

LEMMA InsertKeeps ==
  ASSUME ReaperInv, exit = 0, Insert
  PROVE  ReaperInv'
<1>1. /\ wait # Idle /\ wait.at = "inserting" /\ wait.cmd \in Commands
      /\ present' = TRUE /\ tracked' = tracked \cup {wait.cmd} /\ holder' = Nobody
      /\ wait' = At("sleeping", wait.cmd)
      /\ UNCHANGED <<child, handler, took, exit>>
  BY Places DEF Insert, ReaperInv
<1>2. wait' # Idle /\ wait'.at = "sleeping" /\ wait'.cmd = wait.cmd
  BY <1>1, AtFields
<1>3. holder = "waiter" /\ Working
  BY <1>1 DEF ReaperInv, PollerHolds, Waits
<1>4. \A h \in Handlers : handler[h] # "killing"
  BY <1>3 DEF ReaperInv, KillerHolds, Working
<1>5. ReaperTypeOK'
  BY <1>1, AtFields DEF ReaperInv, ReaperTypeOK
<1>6. QED
  BY <1>1, <1>2, <1>4, <1>5
     DEF ReaperInv, PollerHolds, KillerHolds, RunningIsAwaited, EnteredOrTaken,
         ExitOneKills, Waits

LEMMA PollKeeps ==
  ASSUME ReaperInv, exit = 0, Poll
  PROVE  ReaperInv'
<1>1. /\ wait # Idle /\ wait.at = "polling" /\ wait.cmd \in Commands
      /\ UNCHANGED <<present, took, exit>>
  BY Places DEF Poll, ReaperInv
<1>2. holder = "waiter" /\ handler["waiter"] = "none"
  BY <1>1 DEF ReaperInv, PollerHolds, Waits, Working
<1>3. \A h \in Handlers : handler[h] # "killing"
  BY <1>2 DEF ReaperInv, KillerHolds
<1>4. present /\ wait.cmd \in tracked
  BY <1>1, <1>3 DEF ReaperInv, EnteredOrTaken, Waits
<1>5. holder' = Nobody /\ UNCHANGED handler
  BY <1>4 DEF Poll
<1>6. CASE child[wait.cmd] = "dead"
  <2>1. /\ child' = [child EXCEPT ![wait.cmd] = "reaped"]
        /\ tracked' = tracked \ {wait.cmd} /\ wait' = Idle
    BY <1>4, <1>6 DEF Poll
  <2>2. ReaperTypeOK'
    BY <1>1, <1>5, <2>1 DEF ReaperInv, ReaperTypeOK
  <2>3. \A c \in Commands : child'[c] # "running"
    BY <1>1, <2>1 DEF ReaperInv, ReaperTypeOK, RunningIsAwaited
  <2>4. QED
    BY <1>1, <1>3, <1>5, <2>1, <2>2, <2>3
       DEF ReaperInv, PollerHolds, KillerHolds, RunningIsAwaited, EnteredOrTaken,
           ExitOneKills, Waits
<1>7. CASE child[wait.cmd] # "dead"
  <2>1. wait' = At("sleeping", wait.cmd) /\ UNCHANGED <<child, tracked>>
    BY <1>4, <1>7 DEF Poll
  <2>2. wait' # Idle /\ wait'.at = "sleeping" /\ wait'.cmd = wait.cmd
    BY <1>1, <2>1, AtFields
  <2>3. ReaperTypeOK'
    BY <1>1, <1>5, <2>1, AtFields DEF ReaperInv, ReaperTypeOK
  <2>4. QED
    BY <1>1, <1>3, <1>4, <1>5, <2>1, <2>2, <2>3
       DEF ReaperInv, PollerHolds, KillerHolds, RunningIsAwaited, EnteredOrTaken,
           ExitOneKills, Waits
<1>8. QED
  BY <1>6, <1>7

-----------------------------------------------------------------------------
(* The handler.                                                            *)

\* Handlers that begin, or give up, change nothing but where they are.
LEMMA MovesKeep ==
  ASSUME ReaperInv, exit = 0, NEW h \in Handlers, Call(h) \/ GiveUp(h)
  PROVE  ReaperInv'
<1>1. /\ UNCHANGED <<child, wait, holder, present, tracked, took, exit>>
      /\ handler[h] \in {"none", "called"} /\ (h = "waiter" => ~Working)
      /\ \/ handler' = [handler EXCEPT ![h] = "called"]
         \/ handler' = [handler EXCEPT ![h] = "giving up"]
  BY DEF Call, GiveUp, Working
<1>2. ReaperTypeOK'
  BY <1>1 DEF ReaperInv, ReaperTypeOK
<1>3. handler \in [Handlers -> {"none", "called", "killing",
"giving up"}] /\ "waiter" \in Handlers
  BY DEF ReaperInv, ReaperTypeOK, Handlers
<1>4. \A g \in Handlers : handler'[g] = "killing" <=> handler[g] = "killing"
  BY <1>1, <1>3
<1>5. Working => Working'
  BY <1>1, <1>3 DEF Working
<1>6. QED
  BY <1>1, <1>2, <1>4, <1>5
     DEF ReaperInv, PollerHolds, KillerHolds, RunningIsAwaited, EnteredOrTaken,
         ExitOneKills, Waits

LEMMA TakeKeeps ==
  ASSUME ReaperInv, exit = 0, NEW h \in Handlers, Take(h)
  PROVE  ReaperInv'
<1>1. /\ UNCHANGED <<child, wait, exit>>
      /\ handler[h] = "called" /\ holder = Nobody
      /\ handler' = [handler EXCEPT ![h] = "killing"] /\ holder' = h
      /\ took' = [took EXCEPT ![h] = tracked] /\ present' = FALSE /\ tracked' = {}
  BY DEF Take, Leaks
<1>2. ReaperTypeOK'
  BY <1>1 DEF ReaperInv, ReaperTypeOK
<1>3. ~Waits({"inserting", "polling"})
  BY <1>1 DEF ReaperInv, PollerHolds, Nobody
<1>4. \A g \in Handlers : handler[g] # "killing"
  BY <1>1, ThreadsAssumption DEF ReaperInv, KillerHolds, Handlers, Nobody, ThreadsApart
<1>5. handler'[h] = "killing" /\ took'[h] = tracked
  BY <1>1 DEF ReaperInv, ReaperTypeOK
<1>6. \A g \in Handlers \ {h} : handler'[g] = handler[g]
  BY <1>1 DEF ReaperInv, ReaperTypeOK
<1>7. EnteredOrTaken'
  BY <1>1, <1>4, <1>5 DEF ReaperInv, EnteredOrTaken, Waits
<1>8. QED
  BY <1>1, <1>2, <1>3, <1>4, <1>5, <1>6, <1>7
     DEF ReaperInv, PollerHolds, KillerHolds, RunningIsAwaited, ExitOneKills, Waits

LEMMA KillKeeps ==
  ASSUME ReaperInv, exit = 0, NEW h \in Handlers, Kill(h)
  PROVE  ReaperInv'
<1>1. PICK c \in took[h] : child' = [child EXCEPT ![c] = "dead"]
  BY DEF Kill
<1>2. UNCHANGED <<wait, holder, present, tracked, handler, took, exit>>
  BY DEF Kill
<1>3. ReaperTypeOK' /\ \A d \in Commands : child'[d] = "running" => child[d] = "running"
  BY <1>1, <1>2 DEF ReaperInv, ReaperTypeOK
<1>4. QED
  BY <1>2, <1>3
     DEF ReaperInv, PollerHolds, KillerHolds, RunningIsAwaited, EnteredOrTaken,
         ExitOneKills, Waits,
         Working

(* Who exits with code 1 has the map of all commands that were entered, so *)
(* the only child that may be left is one that was spawned and not entered.*)
LEMMA ExitKeeps ==
  ASSUME ReaperInv, exit = 0, NEW h \in Handlers, Exit(h)
  PROVE  ReaperInv'
<1>1. UNCHANGED <<child, wait, holder, present, tracked, handler, took>>
  BY DEF Exit
<1>2. ReaperTypeOK'
  BY <1>1 DEF Exit, ReaperInv, ReaperTypeOK
<1>3. ASSUME exit' = 1, NEW c \in Commands, child[c] = "running"
      PROVE  wait = At("spawned", c)
  <2>1. handler[h] = "killing" /\ c \notin took[h]
    BY <1>3 DEF Exit
  <2>2. holder = h /\ ~present
    BY <2>1 DEF ReaperInv, KillerHolds
  <2>3. wait # Idle /\ wait.cmd = c
    BY <1>3 DEF ReaperInv, RunningIsAwaited
  <2>4. ~Waits({"inserting", "polling"})
    BY <2>1, <2>2 DEF ReaperInv, PollerHolds, Working
  <2>5. ~Waits({"sleeping", "polling"})
    <3>1. \A g \in Handlers : handler[g] = "killing" => g = h
      BY <2>2 DEF ReaperInv, KillerHolds
    <3>2. QED
      BY <2>1, <2>2, <2>3, <3>1 DEF ReaperInv, EnteredOrTaken, Waits
  <2>6. QED
    BY <2>3, <2>4, <2>5, Places DEF ReaperInv, Waits
<1>4. ExitOneKills'
  BY <1>1, <1>3 DEF ExitOneKills
<1>5. QED
  BY <1>1, <1>2, <1>4
     DEF ReaperInv, PollerHolds, KillerHolds, RunningIsAwaited, EnteredOrTaken, Waits,
         Working

LEMMA ChildEndsKeeps ==
  ASSUME ReaperInv, exit = 0, NEW c \in Commands, ChildEnds(c)
  PROVE  ReaperInv'
<1>1. /\ child' = [child EXCEPT ![c] = "dead"]
      /\ UNCHANGED <<wait, holder, present, tracked, handler, took, exit>>
  BY DEF ChildEnds
<1>2. ReaperTypeOK' /\ \A d \in Commands : child'[d] = "running" => child[d] = "running"
  BY <1>1 DEF ReaperInv, ReaperTypeOK
<1>3. QED
  BY <1>1, <1>2
     DEF ReaperInv, PollerHolds, KillerHolds, RunningIsAwaited, EnteredOrTaken,
         ExitOneKills, Waits,
         Working

-----------------------------------------------------------------------------
LEMMA NextKeepsReaper == ReaperInv /\ [ReaperNext]_reaperVars => ReaperInv'
<1> SUFFICES ASSUME ReaperInv, [ReaperNext]_reaperVars PROVE ReaperInv'
  OBVIOUS
<1>1. CASE exit = 0 /\ Waiter
  <2>1. CASE LockToInsert
    BY <1>1, <2>1, TryLockKeeps DEF LockToInsert
  <2>2. CASE LockToPoll
    BY <1>1, <2>2, TryLockKeeps DEF LockToPoll
  <2>3. QED
    BY <1>1, <2>1, <2>2, SpawnKeeps, InsertKeeps, PollKeeps DEF Waiter
<1>2. CASE exit = 0 /\ \E h \in Handlers : Call(h) \/ Handle(h)
  BY <1>2, MovesKeep, TakeKeeps, KillKeeps, ExitKeeps DEF Handle
<1>3. CASE exit = 0 /\ \E c \in Commands : ChildEnds(c)
  BY <1>3, ChildEndsKeeps
<1>4. CASE UNCHANGED reaperVars
  BY <1>4
     DEF reaperVars, ReaperInv, ReaperTypeOK, PollerHolds, KillerHolds, RunningIsAwaited,
         EnteredOrTaken,
         ExitOneKills, Waits, Working
<1>5. QED
  BY <1>1, <1>2, <1>3, <1>4 DEF ReaperNext

LEMMA ReaperInductive == ReaperSpec => []ReaperInv
  BY InitReaperInv, NextKeepsReaper, PTL DEF ReaperSpec

(* The lock of CHILDREN keeps handlers and the poll apart: exit code 1     *)
(* means that the tracked child was killed or had ended, and a poll finds  *)
(* the map and its command in it.                                          *)
THEOREM KilledOrReaped == ReaperSpec => []ReapedOrKilled
<1>1. ReaperInv => ReapedOrKilled
  <2> SUFFICES ASSUME ReaperInv, Waits({"polling"}) PROVE present /\ wait.cmd \in tracked
    BY DEF ReaperInv, ReapedOrKilled, PollFindsChild, Waits
  <2>1. holder = "waiter" /\ handler["waiter"] = "none"
    BY DEF ReaperInv, PollerHolds, Waits, Working
  <2>2. \A h \in Handlers : handler[h] # "killing"
    BY <2>1 DEF ReaperInv, KillerHolds
  <2>3. QED
    BY <2>2 DEF ReaperInv, EnteredOrTaken, Waits
<1>2. QED
  BY <1>1, ReaperInductive, PTL
=============================================================================
