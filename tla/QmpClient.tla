------------------------------ MODULE QmpClient ------------------------------
(***************************************************************************)
(* The QMP client of amba run: run_qmp of runners.rs on top of QmpClient   *)
(* and ReadUntil of qmp-client.  QEMU, the other end, is external: it      *)
(* greets, answers requests in order and, once its capabilities were       *)
(* negotiated, announces events at any time, until it ends.                *)
(*                                                                         *)
(* A message is one line of JSON.  Its text is abstracted to LineLength    *)
(* bytes that know their message, the last of which is the newline; that   *)
(* is enough to tell a line read whole from one that is torn or joined.    *)
(***************************************************************************)
EXTENDS Integers, Sequences, FiniteSets, SequencesExt

CONSTANTS LineLength,   \* bytes of a line
          BufferSize,   \* bytes the BufReader fills at once
          Spaces,       \* bytes a caller of ReadUntil::read has space for
          MaxEvents     \* bound: events QEMU announces

ASSUME QmpAssumption ==
  /\ LineLength \in Nat \ {0, 1} /\ BufferSize \in Nat \ {0}
  /\ Spaces \subseteq Nat \ {0} /\ Spaces # {} /\ MaxEvents \in Nat

Greeting == [kind |-> "Greeting"]
Answers == [kind : {"Response", "Error"}, id : 1 .. 2]
SHUTDOWN == [kind |-> "Event", event |-> "SHUTDOWN", data |-> TRUE]
Events == {SHUTDOWN,
           [kind |-> "Event", event |-> "DEVICE", data |-> TRUE],
           [kind |-> "Event", event |-> "RESUME", data |-> FALSE]}
Messages == {Greeting} \cup Answers \cup Events

\* The calls run_qmp waits in, in their order.
Stages == <<"greeting", "QmpCapabilities", "QueryStatus", "events">>

VARIABLES qemu,      \* "starting", "listening" on the socket, "ended"
          asked,     \* ids of requests QEMU has not answered
          able,      \* qmp_capabilities was answered
          sent,      \* messages QEMU has written
          wire,      \* bytes written and not yet read
          attempt,   \* attempts at the socket
          client,    \* "connecting", "receiving", "told", "failed", "panicked"
          stage,     \* index of the stage
          id,        \* id of the next request
          buffer,    \* what BufReader has read ahead
          line,      \* bytes ReadUntil has handed out
          answers,   \* the id of each response taken for an answer
          taken      \* messages parsed

theirs == <<qemu, asked, able, sent>>
ours == <<attempt, client, stage, id, buffer, line, answers, taken>>
qmpVars == <<theirs, wire, ours>>

Bytes == [of : Messages, part : 1 .. LineLength]

QmpTypeOK ==
  /\ qemu \in {"starting", "listening", "ended"}
  /\ asked \in Seq(1 .. 2) /\ Len(asked) <= 1
  /\ able \in BOOLEAN
  /\ sent \in Seq(Messages) /\ taken \in Seq(Messages)
  /\ \A s \in {wire, buffer, line} : s \in Seq(Bytes)
  /\ Len(buffer) <= BufferSize /\ Len(line) <= LineLength
  /\ attempt \in 0 .. 11
  /\ client \in {"connecting", "receiving", "told", "failed", "panicked"}
  /\ stage \in DOMAIN Stages
  /\ id \in 1 .. 3
  /\ answers \in Seq(1 .. 2 \cup {0})

QmpInit ==
  /\ qemu = "starting" /\ asked = <<>> /\ able = FALSE /\ sent = <<>> /\ wire = <<>>
  /\ attempt = 0 /\ client = "connecting" /\ stage = 1 /\ id = 1
  /\ buffer = <<>> /\ line = <<>> /\ answers = <<>> /\ taken = <<>>

-----------------------------------------------------------------------------
(* QEMU                                                                    *)

LineOf(m) == [i \in 1 .. LineLength |-> [of |-> m, part |-> i]]

Write(m) == sent' = Append(sent, m) /\ wire' = wire \o LineOf(m)

Listen == qemu = "starting" /\ qemu' = "listening" /\ UNCHANGED <<asked, able, sent, wire, ours>>

Announced == Len(SelectSeq(sent, LAMBDA m : m.kind = "Event"))

Announce ==
  /\ qemu = "listening" /\ able /\ Announced < MaxEvents
  /\ \E e \in Events : Write(e)
  /\ UNCHANGED <<qemu, asked, able, ours>>

Answer ==
  /\ qemu = "listening" /\ asked # <<>>
  /\ \E kind \in {"Response", "Error"} : Write([kind |-> kind, id |-> Head(asked)])
  /\ asked' = Tail(asked)
  /\ able' = TRUE
  /\ UNCHANGED <<qemu, ours>>

End == qemu # "ended" /\ qemu' = "ended" /\ UNCHANGED <<asked, able, sent, wire, ours>>

-----------------------------------------------------------------------------
(* The client.                                                             *)

\* Connecting: up to eleven attempts.  QEMU greets whoever connects.
Connect ==
  /\ client = "connecting"
  /\ attempt' = attempt + 1
  /\ IF qemu = "listening"
     THEN client' = "receiving" /\ Write(Greeting)
     ELSE /\ client' = IF attempt' > 10 THEN "failed" ELSE "connecting"
          /\ UNCHANGED <<sent, wire>>
  /\ UNCHANGED <<qemu, asked, able, stage, id, buffer, line, answers, taken>>

IsEnd(byte) == byte.part = LineLength

\* How much of the buffer belongs to this line.
Limit(src) ==
  IF \E i \in DOMAIN src : IsEnd(src[i]) THEN SelectInSeq(src, IsEnd) ELSE Len(src)

AtEnd == line # <<>> /\ IsEnd(Last(line))

\* fill_buf: the buffer, or when it is empty some of what is on the wire.
Filled ==
  IF buffer # <<>> THEN {<<buffer, wire>>}
  ELSE {<<SubSeq(wire, 1, n), SubSeq(wire, n + 1, Len(wire))>> :
          n \in {m \in 1 .. BufferSize : m <= Len(wire)}}

\* ReadUntil::read.  serde_json reads a byte at a time.
Read ==
  /\ client = "receiving" /\ ~AtEnd
  /\ \E filled \in Filled, space \in Spaces :
       LET src == filled[1]
           n == IF Limit(src) < space THEN Limit(src) ELSE space
       IN  /\ line' = line \o SubSeq(src, 1, n)
           /\ buffer' = SubSeq(src, n + 1, Len(src))
           /\ wire' = filled[2]
  /\ UNCHANGED <<theirs, attempt, client, stage, id, answers, taken>>

\* The line is what QEMU wrote and fits a variant of QmpResponse: an event
\* without data fits none.
Parses(m) == line = LineOf(m) /\ (m.kind = "Event" => m.data)

\* Mutant: an event ends the wait for an answer.
AnythingAnswers(m) == TRUE

\* blocking_request goes on waiting after an event.
IsAnswer(m) == m.kind # "Event"

\* blocking_send, with the id counted up after it.
Request ==
  IF qemu = "ended" THEN client' = "panicked" /\ UNCHANGED <<asked, id>>
  ELSE asked' = Append(asked, id) /\ id' = id + 1 /\ UNCHANGED client

\* Mutant: events are logged, whatever they say.
OnlyLogged(m) == FALSE

\* run_qmp, with the message it received.
ToldBy(m) == m.kind = "Event" /\ m.event = "SHUTDOWN"

Moved(m) ==
  /\ stage' = stage + 1
  /\ answers' = IF Stages[stage] = "greeting" THEN answers
                ELSE Append(answers, IF m.kind \in {"Response", "Error"} THEN m.id ELSE 0)
  /\ IF Stages[stage'] = "events" THEN UNCHANGED <<client, asked, id>> ELSE Request

Dispatch(m) ==
  CASE Stages[stage] = "greeting" -> Moved(m)
    [] Stages[stage] = "events" ->
         /\ client' = IF ToldBy(m) THEN "told" ELSE client
         /\ UNCHANGED <<stage, id, asked, answers>>
    [] OTHER -> IF IsAnswer(m) THEN Moved(m) ELSE UNCHANGED <<client, stage, id, asked, answers>>

\* Mutant: every call reads through a buffer of its own.
ForgetBuffer == <<>>

KeepBuffer == buffer

\* from_reader of a whole line, and what its caller does with the result.
Receive ==
  /\ client = "receiving" /\ AtEnd
  /\ LET m == line[1].of
     IN  /\ taken' = Append(taken, m)
         /\ IF Parses(m) THEN Dispatch(m)
            ELSE client' = "panicked" /\ UNCHANGED <<stage, id, asked, answers>>
  /\ line' = <<>>
  /\ buffer' = KeepBuffer
  /\ UNCHANGED <<qemu, able, sent, wire, attempt>>

\* At the end of the stream there is no line, or half of one, to parse: the
\* unwrap panics, and no call ever returns QmpError::EndOfFile.
Eof ==
  /\ client = "receiving" /\ ~AtEnd
  /\ buffer = <<>> /\ wire = <<>> /\ qemu = "ended"
  /\ client' = "panicked"
  /\ UNCHANGED <<theirs, wire, attempt, stage, id, buffer, line, answers, taken>>

Client == Connect \/ Read \/ Receive \/ Eof

QmpNext == Listen \/ Announce \/ Answer \/ End \/ Client

\* The thread runs; QEMU owes nothing.
QmpSpec == QmpInit /\ [][QmpNext]_qmpVars /\ WF_qmpVars(Client)

-----------------------------------------------------------------------------
Stream == INSTANCE Fifo WITH sent <- sent, taken <- taken

(* However the stream is cut into reads, every message QEMU wrote is       *)
(* parsed whole, in order and once: ReadUntil takes nothing past its line, *)
(* and what BufReader read ahead is there for the next call.               *)
MessagesDelivered == Stream!Spec

\* Messages on their way.
Pending == SubSeq(sent, Len(taken) + 1, Len(sent))

(* The response a request returns is the response to that request,         *)
(* although blocking_request compares no ids: nothing else is ever taken   *)
(* for an answer, and no answer is left over for the next request.         *)
AnswersMatch ==
  /\ \A i \in DOMAIN answers : answers[i] = i
  /\ client = "receiving" =>
       Len(asked) + Cardinality({i \in Len(taken) + 1 .. Len(sent) : sent[i] \in Answers})
         = IF Stages[stage] \in {"QmpCapabilities", "QueryStatus"} THEN 1 ELSE 0

(* The QMP thread fails only for a reason outside of it: QEMU ended, did   *)
(* not listen for eleven attempts, or sent an event without data.          *)
FailsForAReason ==
  /\ client = "panicked" =>
       qemu = "ended" \/ \E i \in DOMAIN taken : taken[i] \in Events /\ ~taken[i].data
  /\ client = "failed" => attempt > 10

(* Requests are answered by their answers, or fail for a reason that is    *)
(* not the client's.                                                       *)
AnsweredOrFailed == QmpTypeOK /\ AnswersMatch /\ FailsForAReason

(* A shutdown that arrives once the handshake is over is told to the       *)
(* controller, also when QEMU ends right after it and whatever arrives in  *)
(* the same read, unless an event without data comes first.                *)
ShutdownTold ==
  (/\ client = "receiving" /\ Stages[stage] = "events"
   /\ \E i \in DOMAIN Pending :
        /\ Pending[i] = SHUTDOWN
        /\ \A j \in 1 .. i : Pending[j] \in Events => Pending[j].data)
    ~> (client = "told")
=============================================================================
