------------------------------ MODULE IpcFraming ------------------------------
(***************************************************************************)
(* One direction of the socket between the window and the plugin           *)
(* (ipc/src/ipc.rs): IpcTx writes packets, a header that says how long the *)
(* message is and the message; IpcRx reads them through a BufReader, with  *)
(* blocking_receive in the window and polling_receive in the plugin.       *)
(*                                                                         *)
(* Bytes know their packet and their place in it, so that a packet read    *)
(* from the wrong place is told from one read from its start.              *)
(***************************************************************************)
EXTENDS Integers, Sequences, SequencesExt

CONSTANTS Messages,
          Size,       \* bytes of each message
          Header,     \* bytes of a header
          Capacity    \* bytes the BufReader holds

VARIABLES sent,       \* messages sent
          taken,      \* messages received
          wire,       \* bytes in the socket
          buffer,     \* bytes in the BufReader
          partial,    \* bytes blocking_receive has consumed of its packet
          open,       \* the sender has not shut its end down
          result,     \* of the last call: "message", "none" or an IpcError
          overflown   \* once more than Capacity was waiting in the socket

vars == <<sent, taken, wire, buffer, partial, open, result, overflown>>

PacketSize(m) == Header + Size[m]

Packet(m) == [i \in 1 .. PacketSize(m) |-> [of |-> m, part |-> i]]

Bytes == [of : Messages, part : Nat \ {0}]

Ok == {"none", "message"}

TypeOK ==
  /\ sent \in Seq(Messages) /\ taken \in Seq(Messages)
  /\ \A s \in {wire, buffer, partial} : s \in Seq(Bytes)
  /\ Len(buffer) <= Capacity
  /\ {open, overflown} \subseteq BOOLEAN
  /\ result \in Ok \cup {"EndOfFile", "PollingReceiveFragmented", "PollingReceiveTooLarge", "garbage"}

Init ==
  /\ sent = <<>> /\ taken = <<>> /\ wire = <<>> /\ buffer = <<>> /\ partial = <<>>
  /\ open = TRUE /\ result = "none" /\ overflown = FALSE

\* blocking_send: header and message are flushed together.
Send(m) ==
  /\ open
  /\ sent' = Append(sent, m)
  /\ wire' = wire \o Packet(m)
  /\ UNCHANGED <<taken, buffer, partial, open, result, overflown>>

\* IpcTx is dropped.
Shutdown ==
  /\ open
  /\ open' = FALSE
  /\ UNCHANGED <<sent, taken, wire, buffer, partial, result, overflown>>

-----------------------------------------------------------------------------
Least(a, b) == IF a < b THEN a ELSE b

\* A read of the BufReader, when it is empty, takes n bytes off the wire.
View(n) == IF buffer # <<>> THEN buffer ELSE SubSeq(wire, 1, n)
Rest(n) == IF buffer # <<>> THEN wire ELSE SubSeq(wire, n + 1, Len(wire))

\* Mutant: the packet stays in the buffer.
NotConsumed(view, n) == view

Consumed(view, n) == SubSeq(view, n + 1, Len(view))

\* A packet read from its start is a message, anything else is not.
Decoded(bytes) ==
  LET m == Head(bytes).of
  IN  IF bytes = Packet(m) THEN taken' = Append(taken, m) /\ result' = "message"
      ELSE result' = "garbage" /\ UNCHANGED taken

\* One read inside blocking_receive, which returns when the packet is whole.
BlockingReceive ==
  /\ result \in Ok
  /\ buffer \o wire # <<>>
  /\ \E n \in IF buffer # <<>> THEN {0} ELSE 1 .. Least(Len(wire), Capacity) :
       LET view == View(n)
           first == Head(partial \o view).of
           used == Least(Len(view), PacketSize(first) - Len(partial))
           bytes == partial \o SubSeq(view, 1, used)
       IN  /\ buffer' = Consumed(view, used)
           /\ wire' = Rest(n)
           /\ IF Len(bytes) < PacketSize(first)
              THEN partial' = bytes /\ UNCHANGED <<taken, result>>
              ELSE partial' = <<>> /\ Decoded(bytes)
  /\ UNCHANGED <<sent, open, overflown>>

\* After an error fill_buf has read, and nothing was consumed.
KeptView(view) == view

\* Mutant: a packet that just fits is too large.
VerdictStrict(view) ==
  CASE Len(view) < Header -> "PollingReceiveFragmented"
    [] Len(view) >= Header /\ PacketSize(Head(view).of) >= Capacity -> "PollingReceiveTooLarge"
    [] OTHER -> "message"

\* What polling_receive says of a view that is not empty.
Verdict(view) ==
  LET size == PacketSize(Head(view).of)
  IN  CASE Len(view) < Header -> "PollingReceiveFragmented"
        [] Len(view) >= Header /\ size > Capacity -> "PollingReceiveTooLarge"
        [] Len(view) >= Header /\ size <= Capacity /\ size > Len(view) -> "PollingReceiveFragmented"
        [] OTHER -> "message"

\* polling_receive.  An empty BufReader takes all that is there.
PollingReceive ==
  /\ result \in Ok \cup {"EndOfFile"}
  /\ overflown' = (overflown \/ (buffer = <<>> /\ Len(wire) > Capacity))
  /\ LET n == Least(Len(wire), Capacity)
         view == View(n)
         size == PacketSize(Head(view).of)
     IN  /\ wire' = Rest(n)
         /\ IF view = <<>>
            THEN result' = (IF open THEN "none" ELSE "EndOfFile") /\ UNCHANGED <<taken, buffer>>
            ELSE IF Verdict(view) = "message"
            THEN Decoded(SubSeq(view, 1, size)) /\ buffer' = Consumed(view, size)
            ELSE result' = Verdict(view) /\ buffer' = KeptView(view) /\ UNCHANGED taken
  /\ UNCHANGED <<sent, partial, open>>

-----------------------------------------------------------------------------
Stream == INSTANCE Fifo

\* The packets not taken yet.
Untaken == FlattenSeq([i \in 1 .. Len(sent) - Len(taken) |-> Packet(sent[Len(taken) + i])])

(* Bytes are neither lost nor repeated, also when polling_receive fails:   *)
(* what is consumed of a packet, read ahead and still in the socket is     *)
(* what was sent and not taken.  "recover by calling `blocking_receive`",  *)
(* as its comment says, would therefore work.                              *)
NothingLost == partial \o buffer \o wire = Untaken

(* polling_receive only fails when more was waiting in the socket than the *)
(* buffer holds: it never tears a packet by itself.                        *)
FailsOnlyOverflown ==
  result \in {"PollingReceiveFragmented", "PollingReceiveTooLarge", "garbage"} => overflown
=============================================================================
