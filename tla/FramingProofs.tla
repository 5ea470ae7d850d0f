----------------------------- MODULE FramingProofs -----------------------------
(***************************************************************************)
(* Proofs about one direction of the socket, for any messages, sizes,      *)
(* header and buffer: no byte is lost or taken twice, whatever a read      *)
(* returns and also when polling_receive fails, and the messages that are  *)
(* taken are those that were sent, in order.                               *)
(***************************************************************************)
EXTENDS IpcFraming, StreamLemmas, TLAPS

-----------------------------------------------------------------------------
(* What the packets are like.                                              *)

SizesSound ==
  /\ Header \in Nat \ {0} /\ Capacity \in Nat \ {0}
  /\ \A m \in Messages : Size[m] \in Nat

Framing == [m \in Messages |-> Packet(m)]

LEMMA PacketSizes ==
  ASSUME SizesSound
  PROVE  \A m \in Messages : PacketSize(m) \in Nat \ {0} /\ PacketSize(m) >= Header
  BY DEF SizesSound, PacketSize

LEMMA PacketBytes ==
  ASSUME SizesSound, NEW m \in Messages, NEW i \in 1 .. PacketSize(m)
  PROVE  Packet(m)[i] \in Bytes /\ Packet(m)[i].of = m
<1>1. i \in Nat \ {0}
  BY PacketSizes
<1>2. [of |-> m, part |-> i] \in Bytes
  BY <1>1 DEF Bytes
<1> QED
  BY <1>2 DEF Packet

LEMMA PacketType ==
  ASSUME SizesSound, NEW m \in Messages
  PROVE  Packet(m) \in Packets(Bytes)
<1> DEFINE s == PacketSize(m)
<1>1. s \in Nat
  BY PacketSizes
<1>2. Packet(m) = [i \in 1 .. s |-> Packet(m)[i]]
  BY DEF Packet
<1>3. \A i \in 1 .. s : Packet(m)[i] \in Bytes
  BY PacketBytes
<1> HIDE DEF s
<1> QED
  BY <1>1, <1>2, <1>3 DEF Packets

LEMMA PacketLen ==
  ASSUME SizesSound, NEW m \in Messages
  PROVE  Len(Packet(m)) = PacketSize(m)
<1>1. PacketSize(m) \in Nat
  BY PacketSizes
<1> QED
  BY <1>1 DEF Packet

LEMMA FramingType ==
  ASSUME SizesSound
  PROVE  Framing \in Framings(Messages, Bytes)
  BY PacketType DEF Framing, Framings

-----------------------------------------------------------------------------
(* The invariant.                                                          *)

FramingTyped ==
  /\ sent \in Seq(Messages) /\ taken \in Seq(Messages)
  /\ wire \in Packets(Bytes) /\ buffer \in Packets(Bytes) /\ partial \in Packets(Bytes)
  /\ Len(buffer) <= Capacity
  /\ open \in BOOLEAN /\ overflown \in BOOLEAN
  /\ result \in Ok \cup {"EndOfFile", "PollingReceiveFragmented", "PollingReceiveTooLarge"}

TakenAsSent ==
  /\ Len(taken) <= Len(sent)
  /\ \A i \in 1 .. Len(taken) : taken[i] = sent[i]

\* The stream that was sent and not taken.
Ahead(n) == FlattenSeq(Waiting(Framing, sent, n))

Kept == partial \o (buffer \o wire) = Ahead(Len(taken))

\* blocking_receive has not all of its packet yet.
PartOfPacket == Len(partial) > 0 => Len(partial) < PacketSize(partial[1].of)

FramingInv == FramingTyped /\ TakenAsSent /\ Kept /\ PartOfPacket

LEMMA InitFraming ==
  ASSUME SizesSound, Init
  PROVE  FramingInv
<1> USE DEF Init
<1>1. FramingTyped
  <2>1. <<>> \in Packets(Bytes)
    BY DEF Packets
  <2>2. wire \in Packets(Bytes) /\ buffer \in Packets(Bytes) /\ partial \in Packets(Bytes)
    BY <2>1
  <2>3. sent \in Seq(Messages) /\ taken \in Seq(Messages) /\ Len(buffer) <= Capacity
    BY DEF SizesSound
  <2> QED
    BY <2>2, <2>3 DEF FramingTyped, Ok
<1>2. TakenAsSent /\ PartOfPacket
  BY DEF TakenAsSent, PartOfPacket
<1>3. Kept
  <2>1. Ahead(0) = <<>>
    BY WaitingNone DEF Ahead
  <2>2. <<>> \o (<<>> \o <<>>) = <<>>
    OBVIOUS
  <2> QED
    BY <2>1, <2>2 DEF Kept
<1> QED
  BY <1>1, <1>2, <1>3 DEF FramingInv

LEMMA SendFraming ==
  ASSUME SizesSound, FramingInv, NEW m \in Messages, Send(m)
  PROVE  FramingInv'
<1> USE DEF FramingInv
<1>1. /\ sent' = Append(sent, m) /\ wire' = wire \o Packet(m)
      /\ UNCHANGED <<taken, buffer, partial, open, result, overflown>>
  BY DEF Send
<1>2. sent \in Seq(Messages) /\ sent' \in Seq(Messages) /\ Len(taken) \in 0 .. Len(sent)
  BY <1>1 DEF FramingTyped, TakenAsSent
<1>3. Packet(m) \in Packets(Bytes)
  BY PacketType
<1>4. FramingTyped'
  BY <1>1, <1>2, <1>3 DEF FramingTyped, Packets
<1>5. TakenAsSent'
  BY <1>1, <1>2 DEF TakenAsSent
<1>6. Kept'
  <2>1. FlattenSeq(Waiting(Framing, sent', Len(taken)))
          = FlattenSeq(Waiting(Framing, sent, Len(taken))) \o Framing[m]
    <3>1. \A n \in 0 .. Len(sent), more \in Seq(Messages) : more = Append(sent, m) =>
            FlattenSeq(Waiting(Framing, more, n)) = FlattenSeq(Waiting(Framing, sent, n)) \o Framing[m]
      BY <1>2, FramingType, WaitingSent
    <3> QED
      BY <1>1, <1>2, <3>1
  <2>2. Framing[m] = Packet(m)
    BY DEF Framing
  <2>4. (partial \o (buffer \o wire)) \o Packet(m) = partial \o (buffer \o (wire \o Packet(m)))
    <3>1. partial \in Packets(Bytes) /\ buffer \in Packets(Bytes) /\ wire \in Packets(Bytes)
      BY DEF FramingTyped
    <3>2. PICK p \in Packets(Bytes) : p = Packet(m)
      BY <1>3
    <3>3. (partial \o (buffer \o wire)) \o p = partial \o (buffer \o (wire \o p))
      BY <3>1, SMTT(60) DEF Packets
    <3> QED
      BY <3>2, <3>3, Zenon
  <2> QED
    BY <1>1, <2>1, <2>2, <2>4 DEF Kept, Ahead
<1>7. PartOfPacket'
  BY <1>1 DEF PartOfPacket
<1> QED
  BY <1>4, <1>5, <1>6, <1>7

LEMMA ShutdownFraming ==
  ASSUME FramingInv, Shutdown
  PROVE  FramingInv'
  BY DEF Shutdown, FramingInv, FramingTyped, TakenAsSent, Kept, Ahead, PartOfPacket

-----------------------------------------------------------------------------
(* What a read sees.                                                       *)

\* How many bytes a read of the BufReader may get.
Reads == IF buffer # <<>> THEN {0} ELSE 0 .. Least(Len(wire), Capacity)

LEMMA SeenAndRest ==
  ASSUME FramingTyped, SizesSound, NEW n \in Reads
  PROVE  /\ View(n) \in Packets(Bytes) /\ Rest(n) \in Packets(Bytes)
         /\ View(n) \o Rest(n) = buffer \o wire
         /\ Len(View(n)) <= Capacity
         /\ buffer = <<>> => Len(View(n)) = n
<1>1. /\ wire \in Packets(Bytes) /\ buffer \in Packets(Bytes)
      /\ Len(buffer) <= Capacity /\ Capacity \in Nat
  BY DEF FramingTyped, SizesSound
<1>2. CASE buffer # <<>>
  BY <1>1, <1>2 DEF View, Rest
<1>3. CASE buffer = <<>>
  <2>1. n \in 0 .. Len(wire) /\ n <= Capacity
    <3>1. Len(wire) \in Nat
      BY <1>1 DEF Packets
    <3> QED
      BY <1>1, <1>3, <3>1 DEF Reads, Least
  <2>2. View(n) = SubSeq(wire, 1, n) /\ Rest(n) = SubSeq(wire, n + 1, Len(wire))
    BY <1>3 DEF View, Rest
  <2>3. /\ View(n) \in Packets(Bytes) /\ Len(View(n)) = n
        /\ Rest(n) \in Packets(Bytes)
        /\ View(n) \o Rest(n) = wire
    <3>1. LET front == SubSeq(wire, 1, n)
               back == SubSeq(wire, n + 1, Len(wire))
          IN  /\ front \in Packets(Bytes) /\ Len(front) = n
              /\ back \in Packets(Bytes) /\ front \o back = wire
      BY <1>1, <2>1, SplitOff, ZenonT(60)
    <3> QED
      BY <2>2, <3>1, Zenon
  <2>4. buffer \o wire = wire
    BY <1>1, <1>3 DEF Packets
  <2> QED
    BY <2>1, <2>3, <2>4, SMTT(30)
<1> QED
  BY <1>2, <1>3

-----------------------------------------------------------------------------
(* What comes next in the stream.                                          *)

NextIs(m) == Len(taken) < Len(sent) /\ m = sent[Len(taken) + 1]

\* What is in sight of the stream belongs to the packet of m and to what is
\* ahead of it.
Belongs(m, sight, rest) ==
  /\ sight[1].of = m
  /\ Len(sight) + Len(rest) = PacketSize(m) + Len(Ahead(Len(taken) + 1))
  /\ PacketSize(m) <= Len(sight) =>
       /\ SubSeq(sight, 1, PacketSize(m)) = Packet(m)
       /\ SubSeq(sight, PacketSize(m) + 1, Len(sight)) \o rest = Ahead(Len(taken) + 1)

LEMMA NextMessage ==
  ASSUME SizesSound, FramingTyped, TakenAsSent, NEW sight \in Packets(Bytes), NEW rest \in Packets(Bytes),
         sight \o rest = Ahead(Len(taken)), Len(sight) > 0
  PROVE  \E m \in Messages : NextIs(m) /\ Belongs(m, sight, rest)
<1>1. Framing \in Framings(Messages, Bytes)
  BY FramingType
<1>2. PICK messages \in Seq(Messages) : messages = sent
  BY DEF FramingTyped
<1>3. PICK n \in 0 .. Len(messages) : n = Len(taken)
  BY <1>2 DEF FramingTyped, TakenAsSent
<1>4. sight \o rest = FlattenSeq(Waiting(Framing, messages, n))
  BY <1>2, <1>3 DEF Ahead
<1>5. NextRead(Framing, messages, n, sight, rest)
  BY <1>1, <1>4, ReadNext
<1>6. PICK m \in Messages : m = messages[n + 1] /\ NextIs(m)
  BY <1>2, <1>3, <1>5 DEF NextRead, NextIs
<1>7. Framing[m] = Packet(m) /\ Len(Packet(m)) = PacketSize(m) /\ PacketSize(m) \in Nat \ {0}
  BY PacketLen, PacketSizes DEF Framing
<1>8. sight[1].of = m
  <2>1. 1 \in 1 .. PacketSize(m) /\ 1 \in 1 .. Len(sight)
    BY <1>7 DEF Packets
  <2>2. sight[1] = Packet(m)[1]
    BY <1>5, <1>6, <1>7, <2>1 DEF NextRead
  <2>3. Packet(m)[1].of = m
    BY <2>1, PacketBytes
  <2> QED
    BY <2>2, <2>3
<1>9. Ahead(Len(taken) + 1) = FlattenSeq(Waiting(Framing, messages, n + 1))
  BY <1>2, <1>3 DEF Ahead
<1>10. Belongs(m, sight, rest)
  BY <1>5, <1>6, <1>7, <1>8, <1>9 DEF NextRead, Belongs
<1> QED
  BY <1>6, <1>10

(* A message that is taken is the one that comes next.                     *)
LEMMA TakeNext ==
  ASSUME FramingTyped, TakenAsSent, NEW m \in Messages, NextIs(m), taken' = Append(taken, m), sent' = sent
  PROVE  /\ taken' \in Seq(Messages) /\ Len(taken') = Len(taken) + 1
         /\ TakenAsSent' /\ Stream!Take
<1>1. taken \in Seq(Messages) /\ sent \in Seq(Messages)
  BY DEF FramingTyped
<1>2. taken' \in Seq(Messages) /\ Len(taken') = Len(taken) + 1
  BY <1>1
<1>3. \A i \in 1 .. Len(taken) + 1 : taken'[i] = IF i = Len(taken) + 1 THEN m ELSE taken[i]
  BY <1>1
<1>4. TakenAsSent'
  BY <1>1, <1>2, <1>3 DEF TakenAsSent, NextIs
<1>5. Stream!Take
  BY DEF Stream!Take, NextIs
<1> QED
  BY <1>2, <1>4, <1>5

-----------------------------------------------------------------------------
(* blocking_receive.                                                       *)

LEMMA BlockingFraming ==
  ASSUME SizesSound, FramingInv, BlockingReceive
  PROVE  FramingInv' /\ (Stream!Take \/ UNCHANGED <<sent, taken>>)
<1> USE DEF FramingInv
<1> DEFINE first(view) == Head(partial \o view).of
           used(view) == Least(Len(view), PacketSize(first(view)) - Len(partial))
           bytes(view) == partial \o SubSeq(view, 1, used(view))
<1>1. PICK n \in IF buffer # <<>> THEN {0} ELSE 1 .. Least(Len(wire), Capacity) :
        /\ buffer' = Consumed(View(n), used(View(n)))
        /\ wire' = Rest(n)
        /\ IF Len(bytes(View(n))) < PacketSize(first(View(n)))
           THEN partial' = bytes(View(n)) /\ UNCHANGED <<taken, result>>
           ELSE partial' = <<>> /\ Decoded(bytes(View(n)))
  BY DEF BlockingReceive
<1>2. UNCHANGED <<sent, open, overflown>>
  BY DEF BlockingReceive
<1>3. n \in Reads /\ (buffer = <<>> => n > 0)
  BY DEF Reads
<1>4. PICK v \in Packets(Bytes), r \in Packets(Bytes) :
        v = View(n) /\ r = Rest(n) /\ v \o r = buffer \o wire /\ Len(v) <= Capacity /\ Len(v) > 0
  <2>1. buffer # <<>> => View(n) = buffer /\ Len(buffer) > 0
    BY DEF View, FramingTyped, Packets
  <2> QED
    BY <1>3, <2>1, SeenAndRest
<1>5. PICK p \in Packets(Bytes) : p = partial
  BY DEF FramingTyped
<1>6. PICK m \in Messages : NextIs(m) /\ first(v) = m /\ (p \o v)[1].of = m
  <2>0. p \o v \in Packets(Bytes) /\ Len(p \o v) > 0
    BY <1>4 DEF Packets
  <2>1. PICK seen \in Packets(Bytes) : seen = p \o v /\ Len(seen) > 0
    BY <2>0
  <2>2. seen \o r = Ahead(Len(taken))
    <3>1. (p \o v) \o r = p \o (v \o r)
      BY DEF Packets
    <3> QED
      BY <1>4, <1>5, <2>1, <3>1 DEF Kept
  <2>3. PICK m \in Messages : NextIs(m) /\ Belongs(m, seen, r)
    BY <2>1, <2>2, NextMessage
  <2>4. Head(seen) = seen[1]
    OBVIOUS
  <2> QED
    BY <1>5, <2>1, <2>3, <2>4 DEF Belongs
<1>7. PICK s \in Nat \ {0} : s = PacketSize(m)
  BY PacketSizes
<1>8. Len(p) \in Nat /\ Len(v) \in Nat /\ Len(p) < s
  <2>1. Len(p) \in Nat /\ Len(v) \in Nat
    BY DEF Packets
  <2>2. Len(p) > 0 => p[1] = (p \o v)[1]
    BY DEF Packets
  <2> QED
    BY <1>5, <1>6, <1>7, <2>1, <2>2 DEF PartOfPacket
<1>9. PICK u \in 0 .. Len(v) : u = used(v) /\ (u = Len(v) \/ u = s - Len(p)) /\ Len(p) + u <= s
  <2>1. used(v) = IF Len(v) < s - Len(p) THEN Len(v) ELSE s - Len(p)
    BY <1>5, <1>6, <1>7 DEF Least
  <2> HIDE DEF used
  <2> QED
    BY <1>8, <2>1
<1>10. PICK b \in Packets(Bytes), left \in Packets(Bytes) : PartRead(p, v, r, u, b, left)
  BY ReadPart
<1>11. b = bytes(v)
  BY <1>5, <1>9, <1>10 DEF PartRead
<1>12. buffer' = left /\ wire' = r
  BY <1>1, <1>4, <1>9, <1>10 DEF Consumed, PartRead
<1>13. b \o (left \o r) = Ahead(Len(taken))
  BY <1>4, <1>5, <1>10 DEF Kept, PartRead
<1>14. left \o r \in Packets(Bytes)
  BY DEF Packets
<1>15. Len(b) \in Nat /\ Len(b) > 0 /\ Len(left) \in Nat
  <2>1. Len(b) = Len(p) + u /\ u \in Nat
    BY <1>10 DEF PartRead
  <2>2. Len(b) \in Nat /\ Len(left) \in Nat
    BY DEF Packets
  <2> HIDE DEF used
  <2> QED
    BY <1>4, <1>7, <1>8, <1>9, <2>1, <2>2
<1>16. Belongs(m, b, left \o r)
  <2>1. PICK others \in Packets(Bytes) : others = left \o r
    BY <1>14
  <2>2. \E k \in Messages : NextIs(k) /\ Belongs(k, b, others)
    BY <1>13, <1>15, <2>1, NextMessage
  <2> QED
    BY <1>6, <2>1, <2>2 DEF NextIs
<1> HIDE DEF first, used, bytes
<1>17. /\ buffer' \in Packets(Bytes) /\ wire' \in Packets(Bytes)
       /\ Len(buffer') <= Capacity
  <2>1. Len(left) = Len(v) - u /\ u \in Nat
    BY <1>10 DEF PartRead
  <2> QED
    BY <1>4, <1>8, <1>12, <1>15, <2>1 DEF SizesSound
<1>18. CASE Len(b) < s
  <2>1. partial' = b /\ UNCHANGED <<taken, result>>
    BY <1>1, <1>4, <1>6, <1>7, <1>11, <1>18
  <2>2. FramingTyped'
    BY <1>2, <1>17, <2>1 DEF FramingTyped
  <2>3. TakenAsSent'
    BY <1>2, <2>1 DEF TakenAsSent
  <2>4. Kept'
    BY <1>2, <1>12, <1>13, <2>1 DEF Kept, Ahead
  <2>5. PartOfPacket'
    BY <1>7, <1>16, <1>18, <2>1 DEF PartOfPacket, Belongs
  <2> QED
    BY <1>2, <2>1, <2>2, <2>3, <2>4, <2>5
<1>19. CASE ~ (Len(b) < s)
  <2>1. Len(b) = s
    <3>1. Len(b) = Len(p) + u
      BY <1>10 DEF PartRead
    <3> QED
      BY <1>8, <1>9, <1>15, <1>19, <3>1
  <2>2. b = Packet(m) /\ left \o r = Ahead(Len(taken) + 1)
    <3>1. SubSeq(b, 1, s) = Packet(m) /\ SubSeq(b, s + 1, Len(b)) \o (left \o r) = Ahead(Len(taken) + 1)
      <4>1. PacketSize(m) <= Len(b)
        BY <1>7, <2>1
      <4> QED
        BY <1>7, <1>16, <4>1, Zenon DEF Belongs
    <3>2. SubSeq(b, 1, s) = b
      BY <2>1 DEF Packets
    <3>3. SubSeq(b, s + 1, Len(b)) = <<>>
      BY <2>1
    <3>4. <<>> \o (left \o r) = left \o r
      BY <1>14 DEF Packets
    <3> QED
      BY <3>1, <3>2, <3>3, <3>4, Zenon
  <2>3. b[1].of = m /\ Head(b) = b[1]
    BY <1>16 DEF Belongs
  <2>4. partial' = <<>> /\ Decoded(b)
    BY <1>1, <1>4, <1>6, <1>7, <1>11, <1>19
  <2>5. taken' = Append(taken, m) /\ result' = "message"
    BY <2>2, <2>3, <2>4 DEF Decoded
  <2>6. /\ taken' \in Seq(Messages) /\ Len(taken') = Len(taken) + 1
        /\ TakenAsSent' /\ Stream!Take
    BY <1>2, <1>6, <2>5, TakeNext
  <2>7. FramingTyped'
    <3>1. partial' \in Packets(Bytes)
      BY <2>4 DEF Packets
    <3>2. result' \in Ok
      BY <2>5 DEF Ok
    <3> QED
      BY <1>2, <1>17, <2>6, <3>1, <3>2 DEF FramingTyped
  <2>8. Kept'
    <3>1. <<>> \o (left \o r) = left \o r
      BY <1>14 DEF Packets
    <3> QED
      BY <1>2, <1>12, <2>2, <2>4, <2>6, <3>1 DEF Kept, Ahead
  <2>9. PartOfPacket'
    BY <2>4 DEF PartOfPacket
  <2> QED
    BY <2>6, <2>7, <2>8, <2>9
<1> QED
  BY <1>18, <1>19

-----------------------------------------------------------------------------
(* polling_receive, which never consumes a part of a packet.               *)

\* The socket holds whole packets as long as a read took all that was there.
WholePackets ==
  ~overflown => \E k \in Len(taken) .. Len(sent) : wire = Ahead(k)

PollingInv == FramingInv /\ partial = <<>> /\ WholePackets /\ FailsOnlyOverflown

LEMMA AheadType ==
  ASSUME SizesSound, FramingTyped, NEW n \in 0 .. Len(sent)
  PROVE  Ahead(n) \in Packets(Bytes)
<1>1. PICK messages \in Seq(Messages) : messages = sent
  BY DEF FramingTyped
<1>2. PICK k \in 0 .. Len(messages) : k = n
  BY <1>1
<1>3. Waiting(Framing, messages, k) \in Seq(Packets(Bytes))
  BY FramingType, WaitingType
<1>4. FlattenSeq(Waiting(Framing, messages, k)) \in Packets(Bytes)
  BY <1>3, FlattenType
<1> QED
  BY <1>1, <1>2, <1>4 DEF Ahead

LEMMA AheadShrinks ==
  ASSUME SizesSound, FramingTyped, NEW n \in 0 .. Len(sent), NEW k \in n .. Len(sent)
  PROVE  Len(Ahead(k)) <= Len(Ahead(n))
<1>1. PICK messages \in Seq(Messages) : messages = sent
  BY DEF FramingTyped
<1>2. PICK i \in 0 .. Len(messages) : i = n
  BY <1>1
<1>3. PICK j \in i .. Len(messages) : j = k
  BY <1>1, <1>2
<1>4. Len(FlattenSeq(Waiting(Framing, messages, j))) <= Len(FlattenSeq(Waiting(Framing, messages, i)))
  BY FramingType, WaitingShrinks
<1> QED
  BY <1>1, <1>2, <1>3, <1>4 DEF Ahead

LEMMA InitPolling ==
  ASSUME SizesSound, Init
  PROVE  PollingInv
<1>1. FramingInv
  BY InitFraming
<1>2. WholePackets
  <2>1. Ahead(0) = <<>>
    BY WaitingNone DEF Ahead, Init
  <2> QED
    BY <2>1 DEF WholePackets, Init
<1> QED
  BY <1>1, <1>2 DEF PollingInv, FailsOnlyOverflown, Init

LEMMA SendPolling ==
  ASSUME SizesSound, PollingInv, NEW m \in Messages, Send(m)
  PROVE  PollingInv'
<1> USE DEF PollingInv
<1>1. /\ sent' = Append(sent, m) /\ wire' = wire \o Packet(m)
      /\ UNCHANGED <<taken, buffer, partial, open, result, overflown>>
  BY DEF Send
<1>2. FramingInv'
  BY SendFraming
<1>3. WholePackets'
  <2> SUFFICES ASSUME ~overflown
               PROVE  \E k \in Len(taken) .. Len(sent') : wire' = Ahead(k)'
    BY <1>1 DEF WholePackets
  <2>1. PICK k \in Len(taken) .. Len(sent) : wire = Ahead(k)
    BY DEF WholePackets
  <2>2. sent \in Seq(Messages) /\ sent' \in Seq(Messages) /\ Len(taken) \in Nat
        /\ Len(sent') = Len(sent) + 1
    BY <1>1 DEF FramingInv, FramingTyped
  <2>3. k \in 0 .. Len(sent)
    BY <2>2
  <2>4. \A n \in 0 .. Len(sent), more \in Seq(Messages) : more = Append(sent, m) =>
          FlattenSeq(Waiting(Framing, more, n)) = FlattenSeq(Waiting(Framing, sent, n)) \o Framing[m]
    BY <2>2, FramingType, WaitingSent
  <2>5. FlattenSeq(Waiting(Framing, sent', k)) = FlattenSeq(Waiting(Framing, sent, k)) \o Framing[m]
    BY <1>1, <2>2, <2>3, <2>4
  <2>6. Framing[m] = Packet(m)
    BY DEF Framing
  <2>7. wire' = Ahead(k)'
    BY <1>1, <2>1, <2>5, <2>6 DEF Ahead
  <2> QED
    BY <2>2, <2>7
<1> QED
  BY <1>1, <1>2, <1>3 DEF FailsOnlyOverflown

LEMMA ShutdownPolling ==
  ASSUME PollingInv, Shutdown
  PROVE  PollingInv'
<1>1. FramingInv'
  BY ShutdownFraming DEF PollingInv
<1> QED
  BY <1>1 DEF Shutdown, PollingInv, WholePackets, Ahead, FailsOnlyOverflown

(* While reads take all that was there, a view that is not empty holds a   *)
(* whole packet.                                                           *)
LEMMA WholeInSight ==
  ASSUME SizesSound, FramingTyped, TakenAsSent, NEW m \in Messages, NextIs(m),
         NEW v \in Packets(Bytes), NEW r \in Packets(Bytes), Belongs(m, v, r), Len(v) > 0,
         v \o r = Ahead(Len(taken)), NEW k \in Len(taken) .. Len(sent), r = Ahead(k)
  PROVE  PacketSize(m) <= Len(v) /\ k \in Len(taken) + 1 .. Len(sent)
<1>1. PICK t \in 0 .. Len(sent), l \in Nat : t = Len(taken) /\ l = Len(sent) /\ t < l
  BY DEF FramingTyped, TakenAsSent, NextIs
<1>2. Len(v \o r) = Len(v) + Len(r) /\ Len(v) \in Nat /\ Len(r) \in Nat
  BY DEF Packets
<1>3. k # t
  BY <1>1, <1>2
<1>4. k \in t + 1 .. l /\ t + 1 \in 0 .. l
  BY <1>1, <1>3
<1>5. PICK o \in Nat : o = Len(Ahead(t + 1)) /\ Len(r) <= o
  <2>1. Ahead(t + 1) \in Packets(Bytes)
    BY <1>1, <1>4, AheadType
  <2>2. Len(Ahead(k)) <= Len(Ahead(t + 1))
    BY <1>1, <1>4, AheadShrinks
  <2> QED
    BY <2>1, <2>2 DEF Packets
<1>6. Len(v) + Len(r) = PacketSize(m) + o /\ PacketSize(m) \in Nat
  BY <1>1, <1>5, PacketSizes DEF Belongs
<1> QED
  BY <1>1, <1>2, <1>4, <1>5, <1>6

LEMMA PollingFraming ==
  ASSUME SizesSound, PollingInv, PollingReceive
  PROVE  PollingInv' /\ (Stream!Take \/ UNCHANGED <<sent, taken>>)
<1> USE DEF PollingInv, FramingInv
<1> DEFINE size(view) == PacketSize(Head(view).of)
<1>1. PICK n : /\ n = Least(Len(wire), Capacity)
               /\ wire' = Rest(n)
               /\ IF View(n) = <<>>
                  THEN result' = (IF open THEN "none" ELSE "EndOfFile") /\ UNCHANGED <<taken, buffer>>
                  ELSE IF Verdict(View(n)) = "message"
                  THEN /\ Decoded(SubSeq(View(n), 1, size(View(n))))
                       /\ buffer' = Consumed(View(n), size(View(n)))
                  ELSE result' = Verdict(View(n)) /\ buffer' = KeptView(View(n)) /\ UNCHANGED taken
  BY DEF PollingReceive
<1>2. /\ overflown' = (overflown \/ (buffer = <<>> /\ Len(wire) > Capacity))
      /\ UNCHANGED <<sent, partial, open>>
  BY DEF PollingReceive
<1>3. Len(wire) \in Nat /\ Capacity \in Nat \ {0} /\ Len(buffer) \in Nat
      /\ (buffer = <<>> <=> Len(buffer) = 0) /\ (wire = <<>> <=> Len(wire) = 0)
  BY EmptyOrNot DEF FramingTyped, SizesSound, Packets
<1>4. PICK v \in Packets(Bytes), r \in Packets(Bytes) :
        /\ v = View(n) /\ r = Rest(n) /\ v \o r = buffer \o wire /\ Len(v) <= Capacity
        /\ buffer = <<>> => Len(v) = n
        /\ buffer # <<>> => v = buffer /\ r = wire
  <2>1. CASE buffer = <<>>
    <3>1. n \in Reads
      BY <1>1, <1>3, <2>1 DEF Reads, Least
    <3> QED
      BY <2>1, <3>1, SeenAndRest
  <2>2. CASE buffer # <<>>
    <3>1. 0 \in Reads /\ View(n) = View(0) /\ Rest(n) = Rest(0)
      BY <2>2 DEF Reads, View, Rest
    <3>2. View(n) = buffer /\ Rest(n) = wire
      BY <2>2 DEF View, Rest
    <3> QED
      BY <2>2, <3>1, <3>2, SeenAndRest
  <2> QED
    BY <2>1, <2>2
<1>5. v \o r = Ahead(Len(taken))
  <2>1. <<>> \o (v \o r) = v \o r
    <3>1. v \o r \in Packets(Bytes)
      BY DEF Packets
    <3> QED
      BY <3>1 DEF Packets
  <2> QED
    BY <1>4, <2>1 DEF Kept
<1>6. overflown' \in BOOLEAN
  BY <1>2 DEF FramingTyped
<1>7. CASE v = <<>>
  <2>1. buffer = <<>> /\ wire = <<>> /\ r = <<>>
    <3>1. buffer = <<>> /\ n = 0
      BY <1>4, <1>7
    <3>2. Len(wire) = 0
      BY <1>1, <1>3, <3>1 DEF Least
    <3>3. v \o r = r /\ buffer \o wire = wire
      BY <1>3, <1>7, <3>1, <3>2 DEF Packets
    <3> QED
      BY <1>3, <1>4, <3>1, <3>2, <3>3
  <2>2. wire' = wire /\ UNCHANGED <<taken, buffer>> /\ result' \in {"none", "EndOfFile"}
    BY <1>1, <1>4, <1>7, <2>1
  <2>3. overflown' = overflown
    <3>1. ~ (Len(wire) > Capacity) /\ overflown \in BOOLEAN
      BY <1>3, <2>1 DEF FramingTyped
    <3> QED
      BY <1>2, <3>1, Zenon
  <2>4. FramingInv'
    BY <1>2, <2>2, <2>3 DEF FramingTyped, Ok, TakenAsSent, Kept, Ahead, PartOfPacket
  <2>5. WholePackets' /\ FailsOnlyOverflown'
    BY <1>2, <2>2, <2>3 DEF WholePackets, Ahead, FailsOnlyOverflown
  <2> QED
    BY <1>2, <2>2, <2>4, <2>5
<1>8. CASE v # <<>>
  <2>1. Len(v) \in Nat \ {0} /\ Len(r) \in Nat
    BY <1>8, EmptyOrNot DEF Packets
  <2>2. PICK m \in Messages : NextIs(m) /\ Belongs(m, v, r)
    BY <1>5, <2>1, NextMessage
  <2>3. PICK s \in Nat \ {0} : s = PacketSize(m) /\ s >= Header
    BY PacketSizes
  <2>4. size(v) = s /\ Head(v).of = m
    <3>1. Head(v) = v[1] /\ v[1].of = m
      BY <2>2 DEF Belongs
    <3> QED
      BY <2>3, <3>1
  <2>5. Header \in Nat
    BY DEF SizesSound
  <2>6. /\ Verdict(v) = "message" => Len(v) >= s
        /\ Verdict(v) # "message" => Verdict(v) \in {"PollingReceiveFragmented", "PollingReceiveTooLarge"}
        /\ Len(v) >= s => Verdict(v) = "message"
    BY <1>3, <1>4, <2>1, <2>3, <2>4, <2>5 DEF Verdict
  <2> HIDE DEF size
  \* The view holds a whole packet while nothing overflows.
  <2>7. ASSUME ~overflown' PROVE Len(v) >= s /\ \E k \in Len(taken) + 1 .. Len(sent) : r = Ahead(k)
    <3>1. PICK k \in Len(taken) .. Len(sent) : r = Ahead(k)
      <4>1. CASE buffer # <<>>
        BY <1>2, <1>4, <2>7, <4>1 DEF WholePackets
      <4>2. CASE buffer = <<>>
        <5>1. n = Len(wire) /\ Len(v) = Len(wire)
          <6>1. ~ (Len(wire) > Capacity)
            BY <1>2, <2>7, <4>2, Zenon
          <6> QED
            BY <1>1, <1>3, <1>4, <4>2, <6>1 DEF Least
        <5>2. Len(v \o r) = Len(v) + Len(r)
          BY DEF Packets
        <5>3. buffer \o wire = wire
          BY <4>2 DEF FramingTyped, Packets
        <5>4. r = <<>>
          BY <1>4, <2>1, <5>1, <5>2, <5>3, EmptyOrNot DEF Packets
        <5>5. Ahead(Len(sent)) = <<>> /\ Len(sent) \in Len(taken) .. Len(sent)
          BY WaitingNone DEF Ahead, FramingTyped, TakenAsSent
        <5> QED
          BY <5>4, <5>5
      <4> QED
        BY <4>1, <4>2
    <3> QED
      <4>1. Len(v) > 0
        BY <2>1
      <4>2. PacketSize(m) <= Len(v) /\ k \in Len(taken) + 1 .. Len(sent)
        BY <1>5, <2>2, <3>1, <4>1, WholeInSight
      <4> QED
        BY <2>1, <2>3, <3>1, <4>2
  <2>8. CASE Verdict(v) = "message"
    <3>1. Len(v) >= s /\ s <= Len(v)
      BY <2>1, <2>3, <2>6, <2>8
    <3>2. SubSeq(v, 1, s) = Packet(m) /\ SubSeq(v, s + 1, Len(v)) \o r = Ahead(Len(taken) + 1)
      BY <2>2, <2>3, <3>1, Zenon DEF Belongs
    <3>3. Decoded(SubSeq(v, 1, s)) /\ buffer' = SubSeq(v, s + 1, Len(v)) /\ wire' = r
      BY <1>1, <1>4, <1>8, <2>4, <2>8, Zenon DEF Consumed
    <3>4. taken' = Append(taken, m) /\ result' = "message"
      <4>1. Head(Packet(m)).of = m
        <5>1. 1 \in 1 .. PacketSize(m)
          BY <2>3
        <5>2. Packet(m)[1].of = m
          BY <5>1, PacketBytes
        <5> QED
          BY <5>2
      <4>2. Decoded(Packet(m))
        BY <3>2, <3>3, Zenon
      <4> QED
        BY <4>1, <4>2 DEF Decoded
    <3>5. /\ taken' \in Seq(Messages) /\ Len(taken') = Len(taken) + 1
          /\ TakenAsSent' /\ Stream!Take
      BY <1>2, <2>2, <3>4, TakeNext
    <3>6. buffer' \in Packets(Bytes) /\ Len(buffer') <= Capacity
      <4>1. s \in 0 .. Len(v)
        BY <2>1, <2>3, <3>1
      <4>2. PICK left \in Packets(Bytes) : left = SubSeq(v, s + 1, Len(v)) /\ Len(left) = Len(v) - s
        <5>1. SubSeq(v, s + 1, Len(v)) \in Packets(Bytes)
          BY <4>1, SplitOff
        <5>2. Len(SubSeq(v, s + 1, Len(v))) = Len(v) - s
          BY <2>1, <3>1, <4>1 DEF Packets
        <5> QED
          BY <5>1, <5>2
      <4> QED
        BY <1>3, <1>4, <2>1, <2>3, <3>3, <4>2
    <3>7. FramingTyped'
      <4>1. sent' \in Seq(Messages) /\ open' \in BOOLEAN /\ result' \in Ok
            /\ wire' \in Packets(Bytes) /\ partial' \in Packets(Bytes)
        BY <1>2, <3>3, <3>4 DEF FramingTyped, Ok
      <4> QED
        BY <1>6, <3>5, <3>6, <4>1 DEF FramingTyped
    <3>8. Kept'
      <4>1. <<>> \o (buffer' \o wire') = buffer' \o wire'
        <5>1. buffer' \o wire' \in Packets(Bytes)
          BY <3>7 DEF FramingTyped, Packets
        <5> QED
          BY <5>1 DEF Packets
      <4>2. partial' = <<>> /\ Ahead(Len(taken))' = Ahead(Len(taken) + 1)
        BY <1>2, <3>5 DEF Ahead
      <4> QED
        BY <3>2, <3>3, <4>1, <4>2, Zenon DEF Kept
    <3>9. WholePackets'
      <4> SUFFICES ASSUME ~overflown' PROVE \E k \in Len(taken') .. Len(sent') : wire' = Ahead(k)'
        BY DEF WholePackets
      <4>1. PICK k \in Len(taken) + 1 .. Len(sent) : r = Ahead(k)
        BY <2>7
      <4> QED
        BY <1>2, <3>3, <3>5, <4>1 DEF Ahead
    <3>10. PartOfPacket' /\ FailsOnlyOverflown'
      BY <1>2, <3>4 DEF PartOfPacket, FailsOnlyOverflown
    <3> QED
      BY <1>2, <3>5, <3>7, <3>8, <3>9, <3>10
  <2>9. CASE Verdict(v) # "message"
    <3>1. result' = Verdict(v) /\ buffer' = v /\ wire' = r /\ taken' = taken
      BY <1>1, <1>4, <1>8, <2>9 DEF KeptView
    <3>2. overflown' = TRUE
      <4>1. ~ (Len(v) >= s)
        BY <2>6, <2>9
      <4> QED
        BY <1>6, <2>7, <4>1, Zenon
    <3>3. FramingTyped'
      BY <1>2, <1>4, <1>6, <2>6, <2>9, <3>1 DEF FramingTyped
    <3>4. TakenAsSent' /\ PartOfPacket'
      BY <1>2, <3>1 DEF TakenAsSent, PartOfPacket
    <3>5. Kept'
      BY <1>2, <1>4, <3>1 DEF Kept, Ahead
    <3>6. WholePackets' /\ FailsOnlyOverflown'
      BY <3>2 DEF WholePackets, FailsOnlyOverflown
    <3> QED
      BY <1>2, <3>1, <3>3, <3>4, <3>5, <3>6
  <2> QED
    BY <2>8, <2>9
<1> QED
  BY <1>7, <1>8

-----------------------------------------------------------------------------
(* What the invariant is for.                                              *)

LEMMA FramingKeepsType ==
  ASSUME FramingInv
  PROVE  TypeOK
<1>1. \A s \in {wire, buffer, partial} : s \in Seq(Bytes)
  BY DEF FramingInv, FramingTyped, Packets
<1>2. {open, overflown} \subseteq BOOLEAN
  BY DEF FramingInv, FramingTyped
<1> QED
  BY <1>1, <1>2 DEF FramingInv, FramingTyped, TypeOK

LEMMA FramingLosesNothing ==
  ASSUME SizesSound, FramingInv
  PROVE  NothingLost
<1> USE DEF FramingInv
<1> DEFINE t == Len(taken)
           l == Len(sent)
<1>1. t \in Nat /\ l \in Nat /\ t <= l /\ sent \in Seq(Messages)
  BY DEF FramingTyped, TakenAsSent
<1>2. Waiting(Framing, sent, t) = [i \in 1 .. l - t |-> Packet(sent[t + i])]
  <2>1. \A i \in 1 .. l - t : Framing[sent[t + i]] = Packet(sent[t + i])
    BY <1>1 DEF Framing
  <2> QED
    BY <2>1 DEF Waiting
<1>3. Ahead(t) = Untaken
  BY <1>2, Zenon DEF Ahead, Untaken
<1>4. partial \o buffer \o wire = partial \o (buffer \o wire)
  <2>1. Associates(Bytes)
    BY Associative
  <2> QED
    BY <2>1, Zenon DEF Associates, FramingTyped
<1> QED
  BY <1>3, <1>4 DEF Kept, NothingLost
=============================================================================
