---------------------------- MODULE EmbeddingProofs ----------------------------
(***************************************************************************)
(* Proofs about the way of a link to the screen, for any parameters, views *)
(* and numbers of links, ticks, layouts and acts of the user: the embedder *)
(* only sleeps when nothing is left to do, and every graph is built from   *)
(* the links of its stream, in order.                                      *)
(***************************************************************************)
EXTENDS Embedding, StreamLemmas, TLAPS

-----------------------------------------------------------------------------
(* The inductive invariant.                                                *)

Has(queue, m) == \E i \in 1 .. Len(queue) : queue[i] = m

\* The word that something changed is on its way, or not handled yet.
Told ==
  \/ Has(embedder.unhandled, WakeUp) \/ Has(rx, WakeUp) \/ Has(inbox, WakeUp)
  \/ window.changed \/ FrameAt("send")

Rested(g) == Converged(g) /\ g.params = params

SameView == window.view = viewed

Between(places) == embedder.at \in places

\* What the embedder has handled where it is.
Handled ==
  /\ At("receive") => embedder.blocking
  /\ Between({"receive", "layout", "write", "finish"}) => embedder.unhandled = <<>>
  /\ At("replace") => embedder.replacing # 0 /\ AllGraphs[embedder.replacing] \in Graphs

\* A layout with noise never stands still.
Restless(g) == g.params = Noisy => g.work = Steps
NoisyMoves == \A g \in Graphs : Restless(graphs[g])

\* A decision to block is right, or will be taken back.
BlocksWhenDone ==
  /\ Between({"poll", "receive", "handle"}) /\ embedder.blocking =>
       Told \/ Rested(graphs[viewed])
  /\ At("layout") =>
       \/ Told
       \/ embedder.params = params /\ (embedder.blocking => Rested(graphs[viewed]))
  /\ At("write") =>
       \/ Told
       \/ /\ embedder.copy.of = viewed
          /\ embedder.blocking \/ embedder.copy.converged => Rested(embedder.copy.graph)
  /\ At("finish") =>
       Told \/ (embedder.blocking \/ embedder.copy.converged => Rested(graphs[viewed]))

CopyRestless == At("write") => Restless(embedder.copy.graph)

RestInv == TypeOK /\ SameView /\ Handled /\ NoisyMoves /\ CopyRestless /\ BlocksWhenDone

\* The links of a stream in a queue of messages, and on the wire.
In(queue, s) == FlattenSeq(Carried(queue, s))
OnWire(batches, s) == FlattenSeq([i \in 1 .. Len(batches) |-> batches[i][s]])

\* Links are known, or on their way in the order they were reported in.
Flow(s) ==
  reported[s] = known[s] \o (In(embedder.unhandled, s) \o (In(rx, s) \o
                  (In(inbox, s) \o (OnWire(wire, s) \o plugin.buffer[s]))))

Begins(part, whole) ==
  Len(part) <= Len(whole) /\ \A i \in 1 .. Len(part) : part[i] = whole[i]

\* What a graph shows are the first links known of its stream.
ShowsKnown == \A g \in Graphs : Begins(graphs[g].links, known[StreamOf[g]])

\* A layout's result shows what its graph does.
CopyShows == At("write") => embedder.copy.graph.links = graphs[embedder.copy.of].links

ShownInv == (\A s \in Streams : Flow(s)) /\ ShowsKnown /\ CopyShows

-----------------------------------------------------------------------------
(* Queues.                                                                 *)

LEMMA HasAppend ==
  ASSUME NEW S, NEW q \in Seq(S), NEW m \in S, NEW x
  PROVE  Append(q, m) \in Seq(S) /\ (Has(Append(q, m), x) <=> Has(q, x) \/ m = x)
<1>1. /\ Append(q, m) \in Seq(S) /\ Len(Append(q, m)) = Len(q) + 1 /\ Len(q) \in Nat
      /\ \A i \in 1 .. Len(q) : Append(q, m)[i] = q[i]
      /\ Append(q, m)[Len(q) + 1] = m
  OBVIOUS
<1> QED
  BY <1>1 DEF Has

LEMMA HasConcat ==
  ASSUME NEW S, NEW p \in Seq(S), NEW q \in Seq(S), NEW x
  PROVE  p \o q \in Seq(S) /\ (Has(p \o q, x) <=> Has(p, x) \/ Has(q, x))
<1>1. /\ p \o q \in Seq(S) /\ Len(p \o q) = Len(p) + Len(q) /\ Len(p) \in Nat /\ Len(q) \in Nat
      /\ \A i \in 1 .. Len(p) : (p \o q)[i] = p[i]
      /\ \A i \in 1 .. Len(q) : (p \o q)[Len(p) + i] = q[i]
  OBVIOUS
<1>2. Has(p \o q, x) => Has(p, x) \/ Has(q, x)
  <2> SUFFICES ASSUME NEW i \in 1 .. Len(p \o q), (p \o q)[i] = x
               PROVE  Has(p, x) \/ Has(q, x)
    BY DEF Has
  <2>1. CASE i <= Len(p)
    BY <1>1, <2>1 DEF Has
  <2>2. CASE i > Len(p)
    <3>1. i - Len(p) \in 1 .. Len(q) /\ Len(p) + (i - Len(p)) = i
      BY <1>1, <2>2
    <3>2. (p \o q)[Len(p) + (i - Len(p))] = q[i - Len(p)]
      BY <1>1, <3>1
    <3> QED
      BY <3>1, <3>2 DEF Has
  <2> QED
    BY <1>1, <2>1, <2>2
<1>3. Has(p, x) => Has(p \o q, x)
  BY <1>1 DEF Has
<1>4. Has(q, x) => Has(p \o q, x)
  <2> SUFFICES ASSUME NEW i \in 1 .. Len(q), q[i] = x PROVE Has(p \o q, x)
    BY DEF Has
  <2>1. Len(p) + i \in 1 .. Len(p \o q) /\ (p \o q)[Len(p) + i] = x
    BY <1>1
  <2> QED
    BY <2>1 DEF Has
<1> QED
  BY <1>1, <1>2, <1>3, <1>4

LEMMA HasTail ==
  ASSUME NEW S, NEW q \in Seq(S), q # <<>>, NEW x
  PROVE  /\ Tail(q) \in Seq(S) /\ Head(q) \in S /\ q = <<Head(q)>> \o Tail(q)
         /\ Has(q, x) <=> Head(q) = x \/ Has(Tail(q), x)
<1>1. /\ Tail(q) \in Seq(S) /\ Head(q) \in S /\ q = <<Head(q)>> \o Tail(q)
      /\ <<Head(q)>> \in Seq(S)
  OBVIOUS
<1>2. Has(<<Head(q)>>, x) <=> Head(q) = x
  BY DEF Has
<1> QED
  BY <1>1, <1>2, HasConcat

LEMMA HasNone == ASSUME NEW x PROVE ~ Has(<<>>, x)
  BY DEF Has

-----------------------------------------------------------------------------
(* Types.                                                                  *)

LEMMA Messages ==
  /\ WakeUp \in Message /\ QemuShutdown \in Message
  /\ \A b \in Batch : Edges(b) \in Message /\ Edges(b) # WakeUp
  /\ QemuShutdown # WakeUp
  BY DEF Message, WakeUp, QemuShutdown, Edges

LEMMA Carries ==
  ASSUME NEW messages \in Seq(Message), NEW s \in Streams
  PROVE  /\ Carried(messages, s) \in Seq(Packets(Links))
         /\ Len(Carried(messages, s)) = Len(messages)
<1>1. \A m \in Message : LinksOf(m, s) \in Packets(Links)
  <2>1. \A b \in Batch : b[s] \in Seq(Links)
    BY DEF Batch
  <2>2. <<>> \in Seq(Links)
    OBVIOUS
  <2> QED
    BY <2>1, <2>2 DEF LinksOf, Message, WakeUp, QemuShutdown, Packets
<1>2. Len(messages) \in Nat /\ \A i \in 1 .. Len(messages) : messages[i] \in Message
  OBVIOUS
<1> QED
  BY <1>1, <1>2 DEF Carried

LEMMA GraphTypes ==
  /\ "RawBlock" \in Graphs /\ StreamOf \in [Graphs -> Streams]
  /\ EmptyGraph \in Graph2D /\ NoLinks \in Batch /\ Default \in Params /\ Noisy \in Params
  /\ \A links \in Seq(Links) : Replaced(links) \in Graph2D /\ Replaced(links).params = Default
                               /\ Replaced(links).links = links
  BY ParamsAssumption, BoundsAssumption
     DEF Graphs, StreamOf, Streams, EmptyGraph, Graph2D, NoLinks, Batch, Replaced

LEMMA InitTypes == Init => TypeOK
<1> SUFFICES ASSUME Init PROVE TypeOK
  OBVIOUS
<1>1. /\ reported \in Batch /\ known \in Batch /\ plugin.buffer \in Batch
  BY GraphTypes DEF Init
<1>2. plugin \in [buffer : Batch, ticks : 0 .. MaxTicks, off : BOOLEAN, running : BOOLEAN]
  BY GraphTypes, BoundsAssumption DEF Init
<1>3. NoCopy \in [of : Graphs, graph : Graph2D, converged : BOOLEAN]
  BY GraphTypes DEF NoCopy
<1>4. Len(AllGraphs) = 5
  BY DEF AllGraphs
<1> QED
  BY <1>1, <1>2, <1>3, <1>4, GraphTypes, BoundsAssumption DEF Init, TypeOK

Backend ==
  \/ \E s \in Streams : Report(s)
  \/ onTimer \/ onEngineShutdown \/ run_qmp \/ run_ipc \/ run_controller

PluginType == [buffer : Batch, ticks : 0 .. MaxTicks, off : BOOLEAN, running : BOOLEAN]

LEMMA ReportTypes ==
  ASSUME TypeOK, NEW s \in Streams, Report(s)
  PROVE  reported' \in Batch /\ plugin' \in PluginType
<1>1. MaxLinks \in Nat /\ reported \in Batch /\ plugin \in PluginType
  BY BoundsAssumption DEF TypeOK, PluginType
<1>2. /\ reported["block"] \in Seq(Links) /\ reported["state"] \in Seq(Links)
      /\ \A r \in Streams : reported[r] \in Seq(Links) /\ plugin.buffer[r] \in Seq(Links)
  BY <1>1 DEF Batch, Streams, PluginType
<1>3. /\ Len(reported["block"]) \in Nat /\ Len(reported["state"]) \in Nat
      /\ Len(reported[s]) \in {Len(reported["block"]), Len(reported["state"])}
  BY <1>2 DEF Streams
<1>0. Len(reported["block"]) + Len(reported["state"]) < MaxLinks
  BY Zenon DEF Report
<1>4. PICK link \in Links : link = Len(reported[s]) + 1
  <2>1. \A a, b \in Nat : a + b < MaxLinks => a + 1 \in 1 .. MaxLinks /\ b + 1 \in 1 .. MaxLinks
    BY <1>1
  <2>2. Len(reported[s]) + 1 \in 1 .. MaxLinks
    BY <1>0, <1>3, <2>1, Zenon
  <2> QED
    BY <2>2 DEF Links
<1>5. /\ reported' = [reported EXCEPT ![s] = Append(reported[s], link)]
      /\ plugin' = [plugin EXCEPT !.buffer = [plugin.buffer EXCEPT ![s] = Append(plugin.buffer[s], link)]]
  BY <1>4 DEF Report
<1>6. [plugin.buffer EXCEPT ![s] = Append(plugin.buffer[s], link)] \in Batch
  BY <1>1, <1>2 DEF Batch, PluginType
<1>7. reported' \in Batch
  BY <1>1, <1>2, <1>5 DEF Batch
<1> QED
  BY <1>1, <1>5, <1>6, <1>7 DEF PluginType

LEMMA BackendTypes ==
  ASSUME TypeOK, Backend
  PROVE  /\ reported' \in Batch /\ plugin' \in PluginType
         /\ wire' \in Seq(Batch) /\ inbox' \in Seq(Message) /\ rx' \in Seq(Message)
<1>1. /\ reported \in Batch /\ plugin \in PluginType
      /\ wire \in Seq(Batch) /\ inbox \in Seq(Message) /\ rx \in Seq(Message)
  BY DEF TypeOK, PluginType
<1>2. CASE \E s \in Streams : Report(s)
  BY <1>1, <1>2, ReportTypes DEF Report, queues
<1>3. CASE onTimer
  <2>1. plugin' = [plugin EXCEPT !.buffer = NoLinks, !.ticks = plugin.ticks + 1] /\ plugin.ticks < MaxTicks
    BY <1>3 DEF onTimer
  <2>2. plugin.buffer \in Batch /\ plugin.ticks + 1 \in 0 .. MaxTicks
    BY <1>1, <2>1, BoundsAssumption DEF PluginType
  <2>3. plugin' \in PluginType
    BY <1>1, <2>1, <2>2, GraphTypes DEF PluginType
  <2> QED
    BY <1>1, <1>3, <2>2, <2>3 DEF onTimer, Flush
<1>4. CASE onEngineShutdown
  <2>1. plugin.buffer \in Batch
    BY <1>1 DEF PluginType
  <2>2. plugin' \in PluginType
    BY <1>1, <1>4, GraphTypes DEF onEngineShutdown, PluginType
  <2> QED
    BY <1>1, <1>4, <2>1, <2>2 DEF onEngineShutdown, Flush
<1>5. CASE run_qmp
  <2>1. plugin' \in PluginType
    BY <1>1, <1>5 DEF run_qmp, PluginType
  <2>2. inbox' \in Seq(Message)
    BY <1>1, <1>5, Messages DEF run_qmp
  <2> QED
    BY <1>1, <1>5, <2>1, <2>2 DEF run_qmp
<1>6. CASE run_ipc
  <2>1. Head(wire) \in Batch /\ Tail(wire) \in Seq(Batch)
    BY <1>1, <1>6 DEF run_ipc
  <2> QED
    BY <1>1, <1>6, <2>1, Messages DEF run_ipc, backend
<1>7. CASE run_controller
  <2>1. Head(inbox) \in Message /\ Tail(inbox) \in Seq(Message)
    BY <1>1, <1>7 DEF run_controller
  <2> QED
    BY <1>1, <1>7, <2>1 DEF run_controller, backend
<1> QED
  BY <1>2, <1>3, <1>4, <1>5, <1>6, <1>7 DEF Backend

Places == {"poll", "receive", "handle", "replace", "layout", "write", "finish"}
CopyType == [of : Graphs, graph : Graph2D, converged : BOOLEAN]
EmbedderType ==
  [at : Places, blocking : BOOLEAN, unhandled : Seq(Message), replacing : 0 .. 5,
   params : Params, copy : CopyType]


LEMMA RegisteredTypes ==
  ASSUME TypeOK, NEW messages \in Seq(Message)
  PROVE  Registered(messages) \in Batch
<1>1. \A s \in Streams : FlattenSeq(Carried(messages, s)) \in Packets(Links)
  BY Carries, FlattenType
<1>2. \A s \in Streams : known[s] \in Seq(Links)
  BY DEF TypeOK, Batch
<1>3. \A s \in Streams : known[s] \o FlattenSeq(Carried(messages, s)) \in Seq(Links)
  BY <1>1, <1>2 DEF Packets
<1> QED
  BY <1>3 DEF Registered, InOrder, Batch

(* There is a first graph after the i-th, if there is any.                 *)
LEMMA LaterMin ==
  ASSUME NEW i \in 0 .. 5, Later(i) # {}
  PROVE  Min(Later(i)) \in Later(i) /\ Min(Later(i)) \in 1 .. 5
<1>1. Len(AllGraphs) = 5
  BY DEF AllGraphs
<1>2. Later(i) \subseteq Nat /\ Later(i) \subseteq 1 .. 5
  BY <1>1 DEF Later
<1>3. \E n \in Later(i) : \A m \in Later(i) : n <= m
  BY <1>2, LeastNumber
<1> QED
  BY <1>2, <1>3, Zenon DEF Min

WindowType == [at : {"idle", "params", "view", "send", "end"}, view : Graphs, changed : BOOLEAN]

QueuesTyped ==
  /\ reported \in Batch /\ plugin \in PluginType
  /\ wire \in Seq(Batch) /\ inbox \in Seq(Message) /\ rx \in Seq(Message)
EmbedderTyped == embedder \in EmbedderType
ModelTyped == known \in Batch /\ graphs \in [Graphs -> Graph2D] /\ params \in Params
WindowTyped ==
  /\ viewed \in Graphs /\ window \in WindowType /\ reader \in Graphs \cup {None}
  /\ drawn \in [of : Graphs, graph : Graph2D]
CountsTyped == repaint \in BOOLEAN /\ spent \in 0 .. MaxEvents

LEMMA TypeParts ==
  TypeOK <=> QueuesTyped /\ EmbedderTyped /\ ModelTyped /\ WindowTyped /\ CountsTyped
<1>1. Len(AllGraphs) = 5
  BY DEF AllGraphs
<1> QED
  BY <1>1, Zenon DEF TypeOK, QueuesTyped, EmbedderTyped, ModelTyped, WindowTyped, CountsTyped,
                     PluginType, EmbedderType, Places, CopyType, WindowType

LEMMA BackendKeepsTypes ==
  ASSUME TypeOK, Backend
  PROVE  TypeOK'
<1>1. QueuesTyped'
  BY BackendTypes DEF QueuesTyped
<1>2. UNCHANGED <<embedder, model, gui, repaint, spent>>
  BY Zenon DEF Backend, Report, onTimer, onEngineShutdown, Flush, run_qmp, run_ipc, run_controller
<1>3. EmbedderTyped /\ ModelTyped /\ WindowTyped /\ CountsTyped
  BY TypeParts
<1>4. EmbedderTyped' /\ ModelTyped' /\ WindowTyped' /\ CountsTyped'
  BY <1>2, <1>3 DEF EmbedderTyped, ModelTyped, WindowTyped, CountsTyped, model, gui
<1>5. (QueuesTyped /\ EmbedderTyped /\ ModelTyped /\ WindowTyped /\ CountsTyped)' => TypeOK'
  BY TypeParts, PTL
<1> QED
  BY <1>1, <1>4, <1>5

LEMMA PollTypes ==
  ASSUME TypeOK, Poll
  PROVE  EmbedderTyped' /\ QueuesTyped'
<1>1. QueuesTyped /\ EmbedderTyped
  BY TypeParts
<1>2. embedder.unhandled \o rx \in Seq(Message)
  BY <1>1 DEF QueuesTyped, EmbedderTyped, EmbedderType
<1>3. rx' \in Seq(Message)
  BY DEF Poll
<1> QED
  BY <1>1, <1>2, <1>3
     DEF Poll, At, QueuesTyped, EmbedderTyped, EmbedderType, Places, backend

LEMMA ToReplace ==
  ASSUME NEW e \in EmbedderType, NEW messages \in Seq(Message)
  PROVE  [e EXCEPT !.unhandled = messages, !.replacing = 1, !.at = "replace"] \in EmbedderType
<1>1. 1 \in 0 .. 5 /\ "replace" \in Places
  BY DEF Places
<1> QED
  BY <1>1 DEF EmbedderType

LEMMA FromReplace ==
  ASSUME NEW e \in EmbedderType
  PROVE  [e EXCEPT !.replacing = 0, !.at = "handle", !.blocking = FALSE] \in EmbedderType
<1>1. 0 \in 0 .. 5 /\ "handle" \in Places
  BY DEF Places
<1> QED
  BY <1>1 DEF EmbedderType

LEMMA ToPoll ==
  ASSUME NEW e \in EmbedderType, NEW b \in BOOLEAN, NEW p \in Params, NEW c \in CopyType
  PROVE  [e EXCEPT !.blocking = b, !.params = p, !.copy = c, !.at = "poll"] \in EmbedderType
<1>1. "poll" \in Places
  BY DEF Places
<1> QED
  BY <1>1 DEF EmbedderType

LEMMA ReceiveTypes ==
  ASSUME TypeOK, Receive
  PROVE  EmbedderTyped' /\ QueuesTyped'
<1>1. QueuesTyped /\ EmbedderTyped
  BY TypeParts
<1>2. Head(rx) \in Message /\ Tail(rx) \in Seq(Message) /\ <<Head(rx)>> \in Seq(Message)
  <2>1. rx \in Seq(Message) /\ rx # <<>>
    BY <1>1 DEF QueuesTyped, Receive
  <2> QED
    BY <2>1
<1> QED
  BY <1>1, <1>2 DEF Receive, QueuesTyped, EmbedderTyped, EmbedderType, Places, backend

LEMMA HandleTypes ==
  ASSUME TypeOK, Handle
  PROVE  EmbedderTyped' /\ ModelTyped'
<1>1. EmbedderTyped /\ ModelTyped
  BY TypeParts
<1>2. embedder.unhandled \in Seq(Message) /\ embedder \in EmbedderType
  BY <1>1 DEF EmbedderTyped, EmbedderType
<1>3. CASE HandleEdges
  <2>1. PICK n \in 1 .. Len(embedder.unhandled) :
          /\ known' = Registered(SubSeq(embedder.unhandled, 1, n))
          /\ embedder' = [embedder EXCEPT
               !.unhandled = SubSeq(embedder.unhandled, n + 1, Len(embedder.unhandled)),
               !.replacing = 1, !.at = "replace"]
    BY <1>3, Zenon DEF HandleEdges
  <2>2. /\ SubSeq(embedder.unhandled, 1, n) \in Seq(Message)
        /\ SubSeq(embedder.unhandled, n + 1, Len(embedder.unhandled)) \in Seq(Message)
    BY <1>2
  <2>3. known' \in Batch
    BY <2>1, <2>2, RegisteredTypes
  <2>4. EmbedderTyped'
    BY <1>2, <2>1, <2>2, ToReplace, Zenon DEF EmbedderTyped
  <2> QED
    BY <1>1, <1>3, <2>3, <2>4 DEF HandleEdges, ModelTyped
<1>4. CASE HandleWakeUp \/ HandleQemuShutdown
  <2>1. embedder.unhandled # <<>> /\ UNCHANGED model
    BY <1>4 DEF HandleWakeUp, HandleQemuShutdown
  <2>2. Tail(embedder.unhandled) \in Seq(Message)
    BY <1>2, <2>1
  <2>3. EmbedderTyped'
    BY <1>2, <1>4, <2>2
       DEF HandleWakeUp, HandleQemuShutdown, Woken, EmbedderTyped, EmbedderType, Places
  <2> QED
    BY <1>1, <2>1, <2>3 DEF ModelTyped, model
<1> QED
  BY <1>3, <1>4 DEF Handle

LEMMA ReplaceTypes ==
  ASSUME TypeOK, Handled, Replace
  PROVE  EmbedderTyped' /\ ModelTyped'
<1>1. EmbedderTyped /\ ModelTyped
  BY TypeParts
<1>2. /\ embedder \in EmbedderType /\ known \in Batch /\ graphs \in [Graphs -> Graph2D]
      /\ embedder.replacing \in 0 .. 5 /\ AllGraphs[embedder.replacing] \in Graphs
  BY <1>1 DEF EmbedderTyped, EmbedderType, ModelTyped, Replace, Handled
<1>3. PICK g \in Graphs : g = AllGraphs[embedder.replacing]
  BY <1>2
<1>4. PICK links \in Seq(Links) : links = known[StreamOf[g]]
  BY <1>2, GraphTypes DEF Batch
<1>5. graphs' = [graphs EXCEPT ![g] = Replaced(links)] /\ UNCHANGED <<known, params>>
  BY <1>3, <1>4 DEF Replace
<1>6. ModelTyped'
  BY <1>1, <1>2, <1>5, GraphTypes DEF ModelTyped
<1>7. EmbedderTyped'
  <2>1. CASE Later(embedder.replacing) # {}
    <3>1. PICK i \in 1 .. 5 : i = Min(Later(embedder.replacing))
      BY <1>2, <2>1, LaterMin
    <3>2. embedder' = [embedder EXCEPT !.replacing = i]
      BY <2>1, <3>1 DEF Replace
    <3> QED
      BY <1>2, <3>2 DEF EmbedderTyped, EmbedderType
  <2>2. CASE Later(embedder.replacing) = {}
    <3>1. embedder' = [embedder EXCEPT !.replacing = 0, !.at = "handle", !.blocking = FALSE]
      BY <2>2 DEF Replace
    <3> QED
      BY <1>2, <3>1, FromReplace, Zenon DEF EmbedderTyped
  <2> QED
    BY <2>1, <2>2
<1> QED
  BY <1>6, <1>7

LEMMA ReadParamsTypes ==
  ASSUME TypeOK, ReadParams
  PROVE  EmbedderTyped'
<1>1. EmbedderTyped /\ ModelTyped
  BY TypeParts
<1> QED
  BY <1>1 DEF ReadParams, ModelTyped, EmbedderTyped, EmbedderType, Places

LEMMA GraphKept ==
  ASSUME NEW g \in Graph2D, NEW p \in Params
  PROVE  /\ WithParams(g, p) \in Graph2D /\ WithParams(g, p).params = p
         /\ WithParams(g, p).links = g.links
         /\ Restless(g) => Restless(WithParams(g, p))
         /\ Converged(g) /\ g.params = p => Converged(WithParams(g, p))
<1>1. CASE g.params = p
  BY <1>1 DEF WithParams
<1>2. CASE g.params # p
  <2>1. WithParams(g, p) = [g EXCEPT !.params = p, !.work = Steps]
    BY <1>2 DEF WithParams
  <2>2. Steps \in 0 .. Steps
    BY BoundsAssumption
  <2> QED
    BY <1>2, <2>1, <2>2 DEF Graph2D, Restless
<1> QED
  BY <1>1, <1>2

LEMMA LaidOutKept ==
  ASSUME NEW g \in Graph2D
  PROVE  /\ LaidOut(g) \in Graph2D /\ LaidOut(g).params = g.params /\ LaidOut(g).links = g.links
         /\ g.work = 0 => LaidOut(g).work = 0
<1>1. PICK w \in 0 .. Steps : LaidOut(g) = [g EXCEPT !.work = w] /\ (g.work = 0 => w = 0)
  <2>1. g.work \in 0 .. Steps
    BY DEF Graph2D
  <2>2. IF g.work = 0 THEN 0 \in 0 .. Steps ELSE g.work - 1 \in 0 .. Steps
    BY <2>1, BoundsAssumption
  <2> QED
    BY <2>2 DEF LaidOut
<1> QED
  BY <1>1 DEF Graph2D

\* What a layout makes of the graph in view.
LayoutResult(c) ==
  /\ c.of = viewed /\ c.graph.links = graphs[viewed].links
  /\ Restless(graphs[viewed]) => Restless(c.graph)
  /\ c.converged => Converged(c.graph) /\ c.graph.params = embedder.params
  /\ Restless(graphs[viewed]) /\ Converged(graphs[viewed]) /\ graphs[viewed].params = embedder.params
       => Converged(c.graph) /\ c.graph.params = embedder.params

LEMMA LayoutDoes ==
  ASSUME TypeOK, Layout
  PROVE  \E c \in CopyType : /\ embedder' = [embedder EXCEPT !.copy = c, !.at = "write"]
                             /\ LayoutResult(c)
<1>1. EmbedderTyped /\ ModelTyped /\ WindowTyped
  BY TypeParts
<1>2. PICK old \in Graph2D : old = graphs[viewed]
  BY <1>1 DEF ModelTyped, WindowTyped
<1>3. PICK p \in Params : p = embedder.params
  BY <1>1 DEF EmbedderTyped, EmbedderType
<1>4. PICK g \in Graph2D : g = WithParams(old, p)
  BY GraphKept
<1>5. /\ g.params = p /\ g.links = old.links
      /\ Restless(old) => Restless(g)
      /\ Converged(old) /\ old.params = p => Converged(g)
  BY <1>4, GraphKept, Zenon
<1>6. viewed \in Graphs /\ g.links \in Seq(Links) /\ g.work \in 0 .. Steps
  BY <1>1 DEF WindowTyped, Graph2D
<1> DEFINE Copy(c) == embedder' = [embedder EXCEPT !.copy = c, !.at = "write"]
<1>7. \/ g.links = <<>> /\ Copy(Result(g, TRUE))
      \/ g.links # <<>> /\ g.params = Noisy /\ Copy(Result(g, FALSE))
      \/ g.links # <<>> /\ g.params # Noisy /\ Copy(Result(LaidOut(g), LaidOut(g).work = 0))
      \/ ~ Converged(g) /\ Copy(Result(Replaced(g.links), FALSE))
  BY <1>2, <1>3, <1>4, Zenon DEF Layout
<1> HIDE DEF Copy
<1> SUFFICES \E c \in CopyType : Copy(c) /\ LayoutResult(c)
  BY Zenon DEF Copy
<1>8. \A new \in Graph2D, done \in BOOLEAN :
        /\ Result(new, done) \in CopyType
        /\ Result(new, done).of = viewed /\ Result(new, done).graph = new
        /\ Result(new, done).converged = done
  BY <1>6 DEF Result, CopyType
<1>9. ASSUME NEW new \in Graph2D, NEW done \in BOOLEAN, Copy(Result(new, done)),
             new.links = g.links, Restless(g) => Restless(new),
             done => Converged(new) /\ new.params = p,
             Restless(g) /\ Converged(g) => Converged(new) /\ new.params = p
      PROVE  \E c \in CopyType : Copy(c) /\ LayoutResult(c)
  <2>1. PICK c \in CopyType : c = Result(new, done) /\ c.of = viewed /\ c.graph = new /\ c.converged = done
    BY <1>8
  <2>2. LayoutResult(c)
    BY <1>2, <1>3, <1>5, <1>9, <2>1, Zenon DEF LayoutResult
  <2> QED
    BY <1>9, <2>1, <2>2, Zenon
<1>10. CASE g.links = <<>> /\ Copy(Result(g, TRUE))
  BY <1>5, <1>9, <1>10 DEF Converged
<1>11. CASE g.links # <<>> /\ g.params = Noisy /\ Copy(Result(g, FALSE))
  <2>1. ~ (Restless(g) /\ Converged(g))
    BY <1>11, BoundsAssumption DEF Restless, Converged
  <2> QED
    BY <1>9, <1>11, <2>1
<1>12. CASE g.links # <<>> /\ g.params # Noisy /\ Copy(Result(LaidOut(g), LaidOut(g).work = 0))
  <2>1. PICK new \in Graph2D : /\ new = LaidOut(g) /\ new.params = g.params /\ new.links = g.links
                               /\ g.work = 0 => new.work = 0
    BY LaidOutKept
  <2>2. PICK done \in BOOLEAN : done = (new.work = 0)
    OBVIOUS
  <2>3. Copy(Result(new, done))
    BY <1>12, <2>1, <2>2
  <2>4. Restless(new)
    BY <1>12, <2>1 DEF Restless
  <2>5. (done => Converged(new)) /\ (Converged(g) => Converged(new))
    BY <1>12, <2>1, <2>2 DEF Converged
  <2> QED
    BY <1>5, <1>9, <2>1, <2>3, <2>4, <2>5
<1>13. CASE ~ Converged(g) /\ Copy(Result(Replaced(g.links), FALSE))
  <2>1. PICK new \in Graph2D : new = Replaced(g.links) /\ new.params = Default /\ new.links = g.links
    BY <1>6, GraphTypes
  <2>2. Restless(new)
    BY <2>1, ParamsAssumption DEF Restless
  <2> QED
    BY <1>9, <1>13, <2>1, <2>2
<1> QED
  BY <1>7, <1>10, <1>11, <1>12, <1>13, Zenon

LEMMA LayoutTypes ==
  ASSUME TypeOK, Layout
  PROVE  EmbedderTyped' /\ CountsTyped'
<1>1. EmbedderTyped /\ CountsTyped
  BY TypeParts
<1>2. PICK c \in CopyType : embedder' = [embedder EXCEPT !.copy = c, !.at = "write"]
  BY LayoutDoes
<1>3. EmbedderTyped'
  BY <1>1, <1>2 DEF EmbedderTyped, EmbedderType, Places
<1>4. UNCHANGED repaint /\ (UNCHANGED spent \/ (spent < MaxEvents /\ spent' = spent + 1))
  BY Zenon DEF Layout
<1>5. CountsTyped'
  BY <1>1, <1>4, BoundsAssumption DEF CountsTyped
<1> QED
  BY <1>3, <1>5

LEMMA WriteTypes ==
  ASSUME TypeOK, Write
  PROVE  EmbedderTyped' /\ ModelTyped'
<1>1. EmbedderTyped /\ ModelTyped
  BY TypeParts
<1>2. embedder.copy.of \in Graphs /\ embedder.copy.graph \in Graph2D
  BY <1>1 DEF EmbedderTyped, EmbedderType, CopyType
<1>3. ModelTyped'
  BY <1>1, <1>2 DEF Write, ModelTyped
<1>4. EmbedderTyped'
  BY <1>1 DEF Write, EmbedderTyped, EmbedderType, Places
<1> QED
  BY <1>3, <1>4

LEMMA FinishTypes ==
  ASSUME TypeOK, Finish
  PROVE  EmbedderTyped' /\ CountsTyped'
<1>1. EmbedderTyped /\ CountsTyped
  BY TypeParts
<1>2. NoCopy \in CopyType
  BY GraphTypes DEF NoCopy, CopyType
<1>3. PICK b \in BOOLEAN : b = (embedder.blocking \/ embedder.copy.converged)
  BY Zenon
<1>4. embedder' = [embedder EXCEPT !.blocking = b, !.params = Default, !.copy = NoCopy, !.at = "poll"]
  BY <1>3 DEF Finish
<1>5. EmbedderTyped'
  BY <1>1, <1>2, <1>4, GraphTypes, ToPoll, Zenon DEF EmbedderTyped
<1>6. CountsTyped'
  BY <1>1 DEF Finish, CountsTyped, Requested
<1> QED
  BY <1>5, <1>6

LEMMA StillTyped ==
  (QueuesTyped /\ EmbedderTyped /\ ModelTyped /\ WindowTyped /\ CountsTyped)' => TypeOK'
  BY TypeParts, PTL

LEMMA EmbedderKeepsTypes ==
  ASSUME TypeOK, Handled, Embedder
  PROVE  TypeOK'
<1>1. QueuesTyped /\ ModelTyped /\ WindowTyped /\ CountsTyped
  BY TypeParts
<1>2. UNCHANGED gui
  BY Zenon DEF Embedder, Poll, Receive, Handle, HandleEdges, HandleWakeUp, HandleQemuShutdown,
               Replace, ReadParams, Layout, Write, Finish
<1>3. WindowTyped'
  BY <1>1, <1>2 DEF WindowTyped, gui
<1>4. CASE Poll \/ Receive
  <2>1. UNCHANGED <<model, repaint, spent>>
    BY <1>4, Zenon DEF Poll, Receive
  <2>2. ModelTyped' /\ CountsTyped'
    BY <1>1, <2>1 DEF ModelTyped, CountsTyped, model
  <2> QED
    BY <1>3, <1>4, <2>2, PollTypes, ReceiveTypes, StillTyped
<1>5. CASE Handle \/ Replace \/ Write
  <2>1. UNCHANGED <<backend, queues, repaint, spent>>
    BY <1>5, Zenon DEF Handle, HandleEdges, HandleWakeUp, HandleQemuShutdown, Replace, Write
  <2>2. QueuesTyped' /\ CountsTyped'
    BY <1>1, <2>1 DEF QueuesTyped, CountsTyped, backend, queues
  <2> QED
    BY <1>3, <1>5, <2>2, HandleTypes, ReplaceTypes, WriteTypes, StillTyped
<1>6. CASE ReadParams \/ Layout \/ Finish
  <2>1. UNCHANGED <<backend, queues, model>>
    BY <1>6, Zenon DEF ReadParams, Layout, Finish
  <2>2. QueuesTyped' /\ ModelTyped'
    BY <1>1, <2>1 DEF QueuesTyped, ModelTyped, backend, queues, model
  <2>3. CASE ReadParams
    <3>1. CountsTyped'
      BY <1>1, <2>3 DEF ReadParams, CountsTyped
    <3> QED
      BY <1>3, <2>2, <2>3, <3>1, ReadParamsTypes, StillTyped
  <2> QED
    BY <1>3, <1>6, <2>2, <2>3, LayoutTypes, FinishTypes, StillTyped
<1> QED
  BY <1>4, <1>5, <1>6 DEF Embedder

LEMMA FrameKeepsTypes ==
  ASSUME TypeOK, Frame
  PROVE  TypeOK'
<1>1. QueuesTyped /\ EmbedderTyped /\ ModelTyped /\ WindowTyped /\ CountsTyped
  BY TypeParts
<1>2. UNCHANGED <<backend, wire, rx, embedder, known, graphs>>
  BY Zenon DEF Frame, FrameStarts, ShowParams, ShowView, TellController, FrameEnds, queues, model
<1>3. EmbedderTyped'
  BY <1>1, <1>2 DEF EmbedderTyped
<1>4. QueuesTyped'
  <2>1. inbox' = inbox \/ inbox' = Append(inbox, WakeUp)
    BY Zenon DEF Frame, FrameStarts, ShowParams, ShowView, TellController, FrameEnds, queues
  <2>2. inbox' \in Seq(Message)
    BY <1>1, <2>1, Messages DEF QueuesTyped
  <2> QED
    BY <1>1, <1>2, <2>2 DEF QueuesTyped, backend
<1>5. ModelTyped'
  <2>1. params' \in Params
    BY <1>1, Zenon DEF Frame, FrameStarts, ShowParams, ShowView, TellController, FrameEnds,
                       ModelTyped, model
  <2> QED
    BY <1>1, <1>2, <2>1 DEF ModelTyped
<1>6. CountsTyped'
  <2>1. /\ UNCHANGED repaint \/ repaint' = FALSE
        /\ UNCHANGED spent \/ (spent < MaxEvents /\ spent' = spent + 1)
    BY Zenon DEF Frame, FrameStarts, ShowParams, ShowView, TellController, FrameEnds, UserActs, OnEdit
  <2>2. repaint' \in BOOLEAN
    BY <1>1, <2>1, Zenon DEF CountsTyped
  <2>3. spent' \in 0 .. MaxEvents
    BY <1>1, <2>1, BoundsAssumption DEF CountsTyped
  <2> QED
    BY <2>2, <2>3 DEF CountsTyped
<1>7. WindowTyped'
  <2>1. CASE FrameStarts
    <3>1. window.view \in Graphs /\ graphs[window.view] \in Graph2D
      BY <1>1 DEF WindowTyped, WindowType, ModelTyped
    <3> QED
      BY <1>1, <2>1, <3>1 DEF FrameStarts, WindowTyped, WindowType
  <2>2. CASE ShowParams
    <3>1. window' \in WindowType
      BY <1>1, <2>2 DEF ShowParams, WindowTyped, WindowType
    <3> QED
      BY <1>1, <2>2, <3>1 DEF ShowParams, WindowTyped
  <2>3. CASE ShowView
    <3>1. window' \in WindowType /\ viewed' \in Graphs
      BY <1>1, <2>3 DEF ShowView, WindowTyped, WindowType
    <3> QED
      BY <1>1, <2>3, <3>1 DEF ShowView, WindowTyped
  <2>4. CASE TellController
    <3>1. window' \in WindowType
      BY <1>1, <2>4 DEF TellController, WindowTyped, WindowType
    <3> QED
      BY <1>1, <2>4, <3>1 DEF TellController, WindowTyped
  <2>5. CASE FrameEnds
    <3>1. window' \in WindowType
      BY <1>1, <2>5 DEF FrameEnds, WindowTyped, WindowType
    <3> QED
      BY <1>1, <2>5, <3>1 DEF FrameEnds, WindowTyped
  <2> QED
    BY <2>1, <2>2, <2>3, <2>4, <2>5 DEF Frame
<1> QED
  BY <1>3, <1>4, <1>5, <1>6, <1>7, StillTyped

-----------------------------------------------------------------------------
(* The embedder rests when it has nothing to do.                           *)

LEMMA BackendLeaves == Backend => UNCHANGED <<embedder, model, gui, repaint, spent>>
  BY Zenon DEF Backend, Report, onTimer, onEngineShutdown, Flush, run_qmp, run_ipc, run_controller

LEMMA FrameLeaves ==
  Frame => /\ UNCHANGED <<backend, wire, rx, embedder, known, graphs>>
           /\ inbox' = inbox \/ inbox' = Append(inbox, WakeUp)
  BY Zenon DEF Frame, FrameStarts, ShowParams, ShowView, TellController, FrameEnds, queues, model

LEMMA EmbedderLeaves == Embedder => UNCHANGED <<backend, wire, inbox, params, gui>>
  BY Zenon DEF Embedder, Poll, Receive, Handle, HandleEdges, HandleWakeUp, HandleQemuShutdown,
               Replace, ReadParams, Layout, Write, Finish, queues, model

LEMMA SameViewKept ==
  ASSUME TypeOK, SameView, Next
  PROVE  SameView'
<1>1. CASE Frame
  <2>1. WindowTyped
    BY TypeParts
  <2>2. window \in WindowType
    BY <2>1 DEF WindowTyped
  <2>3. CASE FrameStarts
    BY <2>2, <2>3 DEF FrameStarts, SameView, WindowType
  <2>4. CASE ShowParams
    BY <2>2, <2>4 DEF ShowParams, SameView, WindowType
  <2>5. CASE ShowView
    BY <2>2, <2>5 DEF ShowView, SameView, WindowType
  <2>6. CASE TellController \/ FrameEnds
    BY <2>2, <2>6 DEF TellController, FrameEnds, SameView, WindowType
  <2> QED
    BY <1>1, <2>3, <2>4, <2>5, <2>6 DEF Frame
<1>2. CASE Embedder \/ Backend
  BY <1>2, BackendLeaves, EmbedderLeaves DEF SameView, gui
<1> QED
  BY <1>1, <1>2, Zenon DEF Next, Backend

\* Where each step of the embedder leads to.
LEMMA Walk ==
  ASSUME TypeOK, Handled, Embedder
  PROVE  Handled'
<1>1. embedder \in EmbedderType /\ rx \in Seq(Message)
  BY TypeParts DEF EmbedderTyped, QueuesTyped
<1>2. CASE Poll
  BY <1>1, <1>2 DEF Poll, Handled, Between, At, EmbedderType
<1>3. CASE Receive
  BY <1>1, <1>3 DEF Receive, Handled, Between, At, EmbedderType
<1>4. CASE HandleEdges
  <2>1. /\ embedder'.at = "replace" /\ embedder'.replacing = 1
    BY <1>1, <1>4 DEF HandleEdges, EmbedderType
  <2>2. AllGraphs[1] \in Graphs
    BY ParamsAssumption DEF AllGraphs, Graphs
  <2> QED
    BY <2>1, <2>2 DEF Handled, Between, At
<1>5. CASE HandleWakeUp
  BY <1>1, <1>5 DEF HandleWakeUp, Handled, Between, At, EmbedderType
<1>6. CASE HandleQemuShutdown
  BY <1>1, <1>6 DEF HandleQemuShutdown, Handled, Between, At, EmbedderType
<1>7. CASE Replace
  <2>1. embedder.replacing \in 0 .. 5
    BY <1>1 DEF EmbedderType
  <2>2. CASE Later(embedder.replacing) # {}
    <3>1. PICK i \in 1 .. 5 : i = Min(Later(embedder.replacing)) /\ AllGraphs[i] \in Graphs
      BY <2>1, <2>2, LaterMin DEF Later
    <3>2. embedder' = [embedder EXCEPT !.replacing = i] /\ At("replace")
      BY <1>7, <2>2, <3>1 DEF Replace
    <3> QED
      BY <1>1, <3>1, <3>2 DEF Handled, Between, At, EmbedderType
  <2>3. CASE Later(embedder.replacing) = {}
    <3>1. embedder'.at = "handle"
      BY <1>1, <1>7, <2>3 DEF Replace, EmbedderType
    <3> QED
      BY <3>1 DEF Handled, Between, At
  <2> QED
    BY <2>2, <2>3
<1>8. CASE ReadParams
  BY <1>1, <1>8 DEF ReadParams, Handled, Between, At, EmbedderType
<1>9. CASE Layout
  <2>1. PICK c \in CopyType : embedder' = [embedder EXCEPT !.copy = c, !.at = "write"]
    BY <1>9, LayoutDoes
  <2>2. At("layout")
    BY <1>9 DEF Layout
  <2> QED
    BY <1>1, <2>1, <2>2 DEF Handled, Between, At, EmbedderType
<1>10. CASE Write
  BY <1>1, <1>10 DEF Write, Handled, Between, At, EmbedderType
<1>11. CASE Finish
  <2>1. embedder'.at = "poll"
    BY <1>1, <1>11 DEF Finish, EmbedderType
  <2> QED
    BY <2>1 DEF Handled, Between, At
<1> QED
  BY <1>2, <1>3, <1>4, <1>5, <1>6, <1>7, <1>8, <1>9, <1>10, <1>11 DEF Embedder, Handle

LEMMA HandledKept ==
  ASSUME TypeOK, Handled, Next
  PROVE  Handled'
<1>1. CASE Embedder
  BY <1>1, Walk
<1>2. CASE Backend \/ Frame
  <2>1. UNCHANGED embedder
    BY <1>2, BackendLeaves, FrameLeaves
  <2> QED
    BY <2>1 DEF Handled, Between, At
<1> QED
  BY <1>1, <1>2, Zenon DEF Next, Backend

LEMMA NoisyKept ==
  ASSUME TypeOK, NoisyMoves, CopyRestless, Next
  PROVE  NoisyMoves' /\ CopyRestless'
<1>1. embedder \in EmbedderType /\ graphs \in [Graphs -> Graph2D] /\ viewed \in Graphs
  BY TypeParts DEF EmbedderTyped, ModelTyped, WindowTyped
<1>2. CASE Replace
  <2>1. graphs' = [graphs EXCEPT ![AllGraphs[embedder.replacing]]
                     = Replaced(known[StreamOf[AllGraphs[embedder.replacing]]])]
    BY <1>2 DEF Replace
  <2>2. \A links : Restless(Replaced(links))
    BY ParamsAssumption DEF Replaced, EmptyGraph, Restless
  <2>3. NoisyMoves'
    BY <1>1, <2>1, <2>2 DEF NoisyMoves, Restless
  <2>4. embedder'.at # "write"
    BY <1>1, <1>2 DEF Replace, At, EmbedderType
  <2> QED
    BY <2>3, <2>4 DEF CopyRestless, At
<1>3. CASE Write
  <2>1. graphs' = [graphs EXCEPT ![embedder.copy.of] = embedder.copy.graph] /\ embedder'.at = "finish"
    BY <1>1, <1>3 DEF Write, EmbedderType
  <2>2. Restless(embedder.copy.graph)
    BY <1>3 DEF CopyRestless, Write
  <2>3. NoisyMoves'
    BY <1>1, <2>1, <2>2 DEF NoisyMoves, Restless
  <2> QED
    BY <2>1, <2>3 DEF CopyRestless, At
<1>4. CASE Layout
  <2>1. PICK c \in CopyType : embedder' = [embedder EXCEPT !.copy = c, !.at = "write"] /\ LayoutResult(c)
    BY <1>4, LayoutDoes
  <2>2. Restless(c.graph)
    BY <1>1, <2>1 DEF LayoutResult, NoisyMoves
  <2>3. UNCHANGED graphs
    BY <1>4 DEF Layout, model
  <2>4. embedder'.copy = c
    BY <1>1, <2>1 DEF EmbedderType
  <2> QED
    BY <2>2, <2>3, <2>4 DEF NoisyMoves, CopyRestless, Restless
<1>5. CASE Poll \/ Receive \/ Handle \/ ReadParams \/ Finish
  <2>1. UNCHANGED graphs
    BY <1>5, Zenon DEF Poll, Receive, Handle, HandleEdges, HandleWakeUp, HandleQemuShutdown,
                       ReadParams, Finish, model
  <2>2. embedder'.at # "write"
    BY <1>1, <1>5 DEF Poll, Receive, Handle, HandleEdges, HandleWakeUp, HandleQemuShutdown,
                       ReadParams, Finish, At, EmbedderType
  <2> QED
    BY <2>1, <2>2 DEF NoisyMoves, CopyRestless, Restless, At
<1>6. CASE Backend \/ Frame
  <2>1. UNCHANGED <<graphs, embedder>>
    BY <1>6, BackendLeaves, FrameLeaves DEF model
  <2> QED
    BY <2>1 DEF NoisyMoves, CopyRestless, Restless, At
<1> QED
  BY <1>2, <1>3, <1>4, <1>5, <1>6, Zenon DEF Next, Embedder, Backend

(* A word on its way stays there until the embedder handles it.            *)
LEMMA ToldByBackend ==
  ASSUME TypeOK, Backend, Told
  PROVE  Told'
<1>1. inbox \in Seq(Message) /\ rx \in Seq(Message) /\ wire \in Seq(Batch)
  BY TypeParts DEF QueuesTyped
<1>2. UNCHANGED <<embedder, window>>
  BY BackendLeaves DEF gui
<1>3. (Has(rx, WakeUp) \/ Has(inbox, WakeUp)) => (Has(rx', WakeUp) \/ Has(inbox', WakeUp))
  <2>1. CASE run_controller
    <3>1. inbox # <<>> /\ rx' = Append(rx, Head(inbox)) /\ inbox' = Tail(inbox)
      BY <2>1 DEF run_controller
    <3>2. Head(inbox) \in Message /\ (Has(inbox, WakeUp) <=> Head(inbox) = WakeUp \/ Has(Tail(inbox), WakeUp))
      BY <1>1, <3>1, HasTail
    <3>3. Has(rx', WakeUp) <=> Has(rx, WakeUp) \/ Head(inbox) = WakeUp
      BY <1>1, <3>1, <3>2, HasAppend
    <3> QED
      BY <3>1, <3>2, <3>3
  <2>2. CASE ~ run_controller
    <3>1. rx' = rx /\ (inbox' = inbox \/ \E m \in Message : inbox' = Append(inbox, m))
      <4>1. CASE \E s \in Streams : Report(s)
        BY <4>1 DEF Report, queues
      <4>2. CASE onTimer \/ onEngineShutdown
        BY <4>2 DEF onTimer, onEngineShutdown, Flush
      <4>3. CASE run_qmp
        BY <4>3, Messages DEF run_qmp
      <4>4. CASE run_ipc
        <5>1. Head(wire) \in Batch
          BY <1>1, <4>4 DEF run_ipc
        <5> QED
          BY <4>4, <5>1, Messages DEF run_ipc
      <4> QED
        BY <2>2, <4>1, <4>2, <4>3, <4>4 DEF Backend
    <3>2. Has(inbox, WakeUp) => Has(inbox', WakeUp)
      <4>1. ASSUME NEW m \in Message, inbox' = Append(inbox, m), Has(inbox, WakeUp)
            PROVE  Has(inbox', WakeUp)
        BY <1>1, <4>1, HasAppend, Zenon
      <4> QED
        BY <3>1, <4>1
    <3> QED
      BY <3>1, <3>2
  <2> QED
    BY <2>1, <2>2
<1> QED
  BY <1>2, <1>3 DEF Told, FrameAt

LEMMA ToldByEmbedder ==
  ASSUME TypeOK, Handled, Embedder, ~ HandleEdges, ~ HandleWakeUp, Told
  PROVE  Told'
<1>1. embedder \in EmbedderType /\ rx \in Seq(Message) /\ embedder.unhandled \in Seq(Message)
  BY TypeParts DEF EmbedderTyped, EmbedderType, QueuesTyped
<1>2. UNCHANGED <<inbox, window>>
  BY EmbedderLeaves DEF gui
<1>3. Has(embedder.unhandled, WakeUp) \/ Has(rx, WakeUp) =>
        Has(embedder'.unhandled, WakeUp) \/ Has(rx', WakeUp)
  <2>1. CASE Poll
    <3>1. embedder'.unhandled = embedder.unhandled \o rx
      BY <1>1, <2>1 DEF Poll, EmbedderType
    <3> QED
      BY <1>1, <3>1, HasConcat
  <2>2. CASE Receive
    <3>1. rx # <<>> /\ embedder'.unhandled = <<Head(rx)>> /\ rx' = Tail(rx) /\ embedder.unhandled = <<>>
      BY <1>1, <2>2 DEF Receive, EmbedderType, Handled, Between, At
    <3>2. Has(rx, WakeUp) <=> Head(rx) = WakeUp \/ Has(Tail(rx), WakeUp)
      BY <1>1, <3>1, HasTail
    <3>3. Head(rx) = WakeUp => Has(<<Head(rx)>>, WakeUp)
      BY DEF Has
    <3> QED
      BY <3>1, <3>2, <3>3, HasNone, Zenon
  <2>3. CASE HandleQemuShutdown
    <3>1. /\ embedder.unhandled # <<>> /\ Head(embedder.unhandled) = QemuShutdown
          /\ embedder'.unhandled = Tail(embedder.unhandled) /\ rx' = rx
      BY <1>1, <2>3 DEF HandleQemuShutdown, EmbedderType, queues
    <3>2. Has(embedder.unhandled, WakeUp)
            <=> Head(embedder.unhandled) = WakeUp \/ Has(Tail(embedder.unhandled), WakeUp)
      BY <1>1, <3>1, HasTail
    <3> QED
      BY <3>1, <3>2, Messages, Zenon
  <2>4. CASE Replace \/ ReadParams \/ Write \/ Finish
    <3>1. embedder'.unhandled = embedder.unhandled /\ rx' = rx
      BY <1>1, <2>4 DEF Replace, ReadParams, Write, Finish, EmbedderType, queues
    <3> QED
      BY <3>1
  <2>5. CASE Layout
    <3>1. PICK c \in CopyType : embedder' = [embedder EXCEPT !.copy = c, !.at = "write"]
      BY <2>5, LayoutDoes
    <3>2. embedder'.unhandled = embedder.unhandled /\ rx' = rx
      BY <1>1, <2>5, <3>1 DEF Layout, EmbedderType, queues
    <3> QED
      BY <3>2
  <2> QED
    BY <2>1, <2>2, <2>3, <2>4, <2>5 DEF Embedder, Handle
<1> QED
  BY <1>2, <1>3 DEF Told, FrameAt

LEMMA ToldByFrame ==
  ASSUME TypeOK, SameView, Frame
  PROVE  /\ Told => Told'
         /\ Told' \/ UNCHANGED <<params, viewed, graphs>>
<1>1. inbox \in Seq(Message) /\ window \in WindowType
  BY TypeParts DEF QueuesTyped, WindowTyped
<1>2. UNCHANGED <<embedder, rx, graphs>>
  BY FrameLeaves
<1>3. CASE FrameStarts
  <2>1. window' = [window EXCEPT !.at = "params"] /\ window.at # "send" /\ viewed' = viewed
        /\ UNCHANGED <<inbox, params>>
    BY <1>3 DEF FrameStarts, FrameAt, SameView, queues, model
  <2> QED
    BY <1>1, <1>2, <2>1 DEF Told, FrameAt, WindowType
<1>4. CASE ShowParams
  <2>1. /\ UNCHANGED <<inbox, viewed>> /\ window.at # "send"
        /\ window'.changed \/ (window'.changed = window.changed /\ UNCHANGED params)
    BY <1>1, <1>4 DEF ShowParams, FrameAt, queues, WindowType
  <2> QED
    BY <1>2, <2>1 DEF Told, FrameAt
<1>5. CASE ShowView
  <2>1. UNCHANGED <<inbox, params>> /\ window.at # "send" /\ window'.changed = window.changed
    BY <1>1, <1>5 DEF ShowView, FrameAt, queues, model, WindowType
  <2>2. UNCHANGED viewed \/ window'.at = "send"
    BY <1>1, <1>5 DEF ShowView, WindowType
  <2> QED
    BY <1>2, <2>1, <2>2 DEF Told, FrameAt
<1>6. CASE TellController
  <2>1. inbox' = Append(inbox, WakeUp)
    BY <1>6 DEF TellController
  <2>2. Has(inbox', WakeUp)
    BY <1>1, <2>1, HasAppend, Messages
  <2> QED
    BY <2>2 DEF Told
<1>7. CASE FrameEnds
  <2>1. UNCHANGED <<inbox, params, viewed>> /\ window.at # "send" /\ window'.changed = window.changed
    BY <1>1, <1>7 DEF FrameEnds, FrameAt, queues, model, WindowType
  <2> QED
    BY <1>2, <2>1 DEF Told, FrameAt
<1> QED
  BY <1>3, <1>4, <1>5, <1>6, <1>7 DEF Frame

\* The steps of others: a change is told, what was told stays told.
LEMMA OthersLetRest ==
  ASSUME BlocksWhenDone, UNCHANGED embedder, Told => Told',
         Told' \/ UNCHANGED <<params, viewed, graphs>>
  PROVE  BlocksWhenDone'
<1>1. CASE Told'
  BY <1>1 DEF BlocksWhenDone
<1>2. CASE ~ Told' /\ UNCHANGED <<params, viewed, graphs>>
  BY <1>2 DEF BlocksWhenDone, Rested, Converged, Between, At
<1> QED
  BY <1>1, <1>2

LEMMA EmbedderRests ==
  ASSUME RestInv, Embedder
  PROVE  BlocksWhenDone'
<1> USE DEF RestInv
<1>1. /\ embedder \in EmbedderType /\ viewed \in Graphs /\ graphs \in [Graphs -> Graph2D]
  BY TypeParts DEF EmbedderTyped, ModelTyped, WindowTyped
<1>2. UNCHANGED <<params, viewed>>
  BY EmbedderLeaves DEF gui
<1>3. ~ HandleEdges /\ ~ HandleWakeUp /\ Told => Told'
  BY ToldByEmbedder
<1>4. CASE Poll \/ Receive \/ HandleQemuShutdown
  <2>1. /\ Between({"poll", "receive", "handle"}) /\ UNCHANGED graphs
        /\ embedder'.at \in {"receive", "handle"} /\ embedder'.blocking = embedder.blocking
    BY <1>1, <1>4 DEF Poll, Receive, HandleQemuShutdown, At, Between, EmbedderType, model
  <2>2. ~ HandleEdges /\ ~ HandleWakeUp
    <3>1. CASE Poll \/ Receive
      BY <3>1 DEF Poll, Receive, HandleEdges, HandleWakeUp, At
    <3>2. CASE HandleQemuShutdown
      <4>1. embedder.unhandled \in Seq(Message) /\ embedder.unhandled # <<>>
            /\ Head(embedder.unhandled) = QemuShutdown
        BY <1>1, <3>2 DEF HandleQemuShutdown, EmbedderType
      <4>2. ~ HandleWakeUp
        BY <4>1, Messages DEF HandleWakeUp
      <4>3. ~ HandleEdges
        <5>1. embedder.unhandled[1] = QemuShutdown
          BY <4>1
        <5>2. ASSUME NEW n \in 1 .. Len(embedder.unhandled), InARow(embedder.unhandled, n) PROVE FALSE
          <6>1. 1 \in 1 .. n
            BY <4>1
          <6> QED
            BY <5>1, <5>2, <6>1 DEF InARow, QemuShutdown
        <5> QED
          BY <5>2 DEF HandleEdges
      <4> QED
        BY <4>2, <4>3
    <3> QED
      BY <1>4, <3>1, <3>2
  <2> QED
    BY <1>2, <1>3, <2>1, <2>2 DEF BlocksWhenDone, Between, At, Rested
<1>5. CASE HandleEdges
  <2>1. embedder'.at = "replace"
    BY <1>1, <1>5 DEF HandleEdges, EmbedderType
  <2> QED
    BY <2>1 DEF BlocksWhenDone, Between, At
<1>6. CASE HandleWakeUp
  <2>1. embedder'.at = "handle" /\ ~ embedder'.blocking
    BY <1>1, <1>6 DEF HandleWakeUp, At, EmbedderType, Woken
  <2> QED
    BY <2>1 DEF BlocksWhenDone, Between, At
<1>7. CASE Replace
  <2>1. embedder'.at = "replace" \/ (embedder'.at = "handle" /\ ~ embedder'.blocking)
    BY <1>1, <1>7 DEF Replace, At, EmbedderType
  <2> QED
    BY <2>1 DEF BlocksWhenDone, Between, At
<1>8. CASE ReadParams
  <2>1. /\ At("handle") /\ UNCHANGED graphs
        /\ embedder'.at = "layout" /\ embedder'.params = params /\ embedder'.blocking = embedder.blocking
    BY <1>1, <1>8 DEF ReadParams, At, EmbedderType, model
  <2>2. ~ HandleEdges /\ ~ HandleWakeUp
    BY <1>8 DEF ReadParams, HandleEdges, HandleWakeUp
  <2> QED
    BY <1>2, <1>3, <2>1, <2>2 DEF BlocksWhenDone, Between, At, Rested
<1>9. CASE Layout
  <2>1. PICK c \in CopyType : embedder' = [embedder EXCEPT !.copy = c, !.at = "write"] /\ LayoutResult(c)
    BY <1>9, LayoutDoes
  <2>2. embedder'.at = "write" /\ embedder'.copy = c /\ embedder'.blocking = embedder.blocking
    BY <1>1, <2>1 DEF EmbedderType
  <2>3. At("layout") /\ UNCHANGED graphs
    BY <1>9 DEF Layout, model
  <2>4. ~ HandleEdges /\ ~ HandleWakeUp
    BY <2>3 DEF HandleEdges, HandleWakeUp, At
  <2>5. Told \/ (embedder.params = params /\ (embedder.blocking => Rested(graphs[viewed])))
    BY <2>3 DEF BlocksWhenDone
  <2>6. Restless(graphs[viewed])
    BY <1>1 DEF NoisyMoves
  <2>7. ~ Told => c.of = viewed /\ (embedder.blocking \/ c.converged => Converged(c.graph) /\ c.graph.params = params)
    BY <2>1, <2>5, <2>6 DEF LayoutResult, Rested
  <2> QED
    BY <1>2, <1>3, <2>2, <2>4, <2>7 DEF BlocksWhenDone, Between, At, Rested
<1>10. CASE Write
  <2>1. /\ At("write") /\ graphs' = [graphs EXCEPT ![embedder.copy.of] = embedder.copy.graph]
        /\ embedder'.at = "finish" /\ embedder'.copy = embedder.copy /\ embedder'.blocking = embedder.blocking
    BY <1>1, <1>10 DEF Write, At, EmbedderType
  <2>2. ~ HandleEdges /\ ~ HandleWakeUp
    BY <2>1 DEF HandleEdges, HandleWakeUp, At
  <2>3. embedder.copy.of = viewed => graphs'[viewed] = embedder.copy.graph
    BY <1>1, <2>1
  <2> QED
    BY <1>2, <1>3, <2>1, <2>2, <2>3 DEF BlocksWhenDone, Between, At, Rested
<1>11. CASE Finish
  <2>1. /\ At("finish") /\ UNCHANGED graphs /\ embedder'.at = "poll"
        /\ embedder'.blocking = (embedder.blocking \/ embedder.copy.converged)
    BY <1>1, <1>11 DEF Finish, At, EmbedderType, model
  <2>2. ~ HandleEdges /\ ~ HandleWakeUp
    BY <2>1 DEF HandleEdges, HandleWakeUp, At
  <2> QED
    BY <1>2, <1>3, <2>1, <2>2 DEF BlocksWhenDone, Between, At, Rested
<1> QED
  BY <1>4, <1>5, <1>6, <1>7, <1>8, <1>9, <1>10, <1>11 DEF Embedder, Handle

LEMMA NextKeepsRest ==
  ASSUME RestInv, [Next]_vars
  PROVE  RestInv'
<1> USE DEF RestInv
<1>1. CASE Next
  <2>1. TypeOK'
    BY <1>1, BackendKeepsTypes, EmbedderKeepsTypes, FrameKeepsTypes, Zenon DEF Next, Backend
  <2>2. SameView' /\ Handled' /\ NoisyMoves' /\ CopyRestless'
    BY <1>1, SameViewKept, HandledKept, NoisyKept
  <2>3. CASE Embedder
    BY <2>1, <2>2, <2>3, EmbedderRests
  <2>4. CASE Backend
    <3>1. UNCHANGED <<embedder, params, viewed, graphs>>
      BY <2>4, BackendLeaves DEF model, gui
    <3> QED
      BY <2>1, <2>2, <2>4, <3>1, ToldByBackend, OthersLetRest
  <2>5. CASE Frame
    <3>1. UNCHANGED embedder
      BY <2>5, FrameLeaves
    <3> QED
      BY <2>1, <2>2, <2>5, <3>1, ToldByFrame, OthersLetRest
  <2> QED
    BY <1>1, <2>3, <2>4, <2>5, Zenon DEF Next, Backend
<1>2. CASE UNCHANGED vars
  <2>1. UNCHANGED <<reported, plugin, wire, inbox, rx, embedder, known, graphs, params,
                    viewed, window, reader, repaint, drawn, spent>>
    BY <1>2 DEF vars, backend, queues, model, gui
  <2>2. QueuesTyped' /\ EmbedderTyped' /\ ModelTyped' /\ WindowTyped' /\ CountsTyped'
    BY <2>1, TypeParts DEF QueuesTyped, EmbedderTyped, ModelTyped, WindowTyped, CountsTyped
  <2>3. SameView' /\ Handled' /\ NoisyMoves' /\ CopyRestless'
    BY <2>1 DEF SameView, Handled, NoisyMoves, CopyRestless, Restless, Between, At
  <2>4. (Told <=> Told') /\ UNCHANGED <<embedder, params, viewed, graphs>>
    BY <2>1 DEF Told, FrameAt
  <2> QED
    BY <2>2, <2>3, <2>4, StillTyped, OthersLetRest
<1> QED
  BY <1>1, <1>2

LEMMA InitRests == ASSUME Init PROVE RestInv
<1>1. TypeOK
  BY InitTypes
<1>2. SameView /\ Handled /\ CopyRestless
  BY DEF Init, SameView, Handled, CopyRestless, Between, At
<1>3. NoisyMoves
  BY ParamsAssumption DEF Init, NoisyMoves, Restless, EmptyGraph
<1>4. BlocksWhenDone
  BY GraphTypes DEF Init, BlocksWhenDone, Between, At, Rested, Converged, EmptyGraph
<1> QED
  BY <1>1, <1>2, <1>3, <1>4 DEF RestInv

LEMMA RestInvariant == Spec => []RestInv
<1>1. Init => RestInv
  BY InitRests
<1>2. RestInv /\ [Next]_vars => RestInv'
  BY NextKeepsRest
<1> QED
  BY <1>1, <1>2, PTL DEF Spec

(* For any parameters, graphs, links, ticks and acts of the user, in every *)
(* order: run_embedder only waits for a message while the graph in view    *)
(* stands still with the sliders' parameters, or a wake-up is on its way.  *)
THEOREM EmbedderRestsWhenDone == Spec => []RestsWhenDone
<1>1. RestInv => RestsWhenDone
  <2> SUFFICES ASSUME RestInv PROVE RestsWhenDone
    OBVIOUS
  <2>1. inbox \in Seq(Message) /\ rx \in Seq(Message)
    BY TypeParts DEF RestInv, QueuesTyped
  <2>2. (Has(inbox, WakeUp) => WakeUp \in ToSet(inbox)) /\ (Has(rx, WakeUp) => WakeUp \in ToSet(rx))
    BY <2>1 DEF Has, ToSet
  <2>3. At("receive") => embedder.blocking /\ embedder.unhandled = <<>> /\ (Told \/ Rested(graphs[viewed]))
    BY DEF RestInv, Handled, BlocksWhenDone, Between, At
  <2>4. AsleepWhenDone
    BY <2>2, <2>3, HasNone, Zenon DEF AsleepWhenDone, WakeUpOnItsWay, Told, Rested
  <2> QED
    BY <2>4 DEF RestsWhenDone, RestInv
<1> QED
  BY <1>1, RestInvariant, PTL

-----------------------------------------------------------------------------
(* The links in a queue.                                                   *)

LEMMA InType ==
  ASSUME NEW q \in Seq(Message), NEW s \in Streams
  PROVE  In(q, s) \in Packets(Links)
  BY Carries, FlattenType DEF In

LEMMA InNone == ASSUME NEW s PROVE In(<<>>, s) = <<>>
<1>1. Carried(<<>>, s) = <<>>
  BY DEF Carried
<1> QED
  BY <1>1, FlattenEmpty, Zenon DEF In

LEMMA InOne ==
  ASSUME NEW m \in Message, NEW s \in Streams
  PROVE  In(<<m>>, s) = LinksOf(m, s) /\ LinksOf(m, s) \in Packets(Links)
<1>1. <<m>> \in Seq(Message) /\ Len(<<m>>) = 1 /\ <<m>>[1] = m
  OBVIOUS
<1>2. Carried(<<m>>, s) \in Seq(Packets(Links)) /\ Len(Carried(<<m>>, s)) = 1
  BY <1>1, Carries
<1>3. Carried(<<m>>, s)[1] = LinksOf(m, s)
  BY <1>1 DEF Carried
<1>4. FlattenSeq(Carried(<<m>>, s)) = LinksOf(m, s)
  BY <1>2, <1>3, FlattenOne
<1>5. LinksOf(m, s) \in Packets(Links)
  <2>1. 1 \in 1 .. Len(Carried(<<m>>, s))
    BY <1>2
  <2> QED
    BY <1>2, <1>3, <2>1
<1> QED
  BY <1>4, <1>5 DEF In

LEMMA ConcatParts ==
  ASSUME NEW S, NEW p \in Seq(S), NEW q \in Seq(S)
  PROVE  /\ p \o q \in Seq(S) /\ Len(p \o q) = Len(p) + Len(q) /\ Len(p) \in Nat /\ Len(q) \in Nat
         /\ \A i \in 1 .. Len(p) : (p \o q)[i] = p[i]
         /\ \A i \in 1 .. Len(q) : (p \o q)[Len(p) + i] = q[i]
  OBVIOUS

LEMMA InConcat ==
  ASSUME NEW p \in Seq(Message), NEW q \in Seq(Message), NEW s \in Streams
  PROVE  In(p \o q, s) = In(p, s) \o In(q, s)
<1> DEFINE f == Carried(p, s)
           g == Carried(q, s)
           h == Carried(p \o q, s)
<1>1. /\ p \o q \in Seq(Message) /\ Len(p \o q) = Len(p) + Len(q) /\ Len(p) \in Nat /\ Len(q) \in Nat
      /\ \A i \in 1 .. Len(p) : (p \o q)[i] = p[i]
      /\ \A i \in 1 .. Len(q) : (p \o q)[Len(p) + i] = q[i]
  BY ConcatParts
<1>2. /\ f \in Seq(Packets(Links)) /\ Len(f) = Len(p)
      /\ g \in Seq(Packets(Links)) /\ Len(g) = Len(q)
      /\ h \in Seq(Packets(Links)) /\ Len(h) = Len(p \o q)
  BY <1>1, Carries
<1>3. /\ \A i \in 1 .. Len(p) : f[i] = LinksOf(p[i], s)
      /\ \A i \in 1 .. Len(q) : g[i] = LinksOf(q[i], s)
      /\ \A i \in 1 .. Len(p \o q) : h[i] = LinksOf((p \o q)[i], s)
  BY DEF Carried
<1> HIDE DEF f, g, h
<1>4. /\ f \o g \in Seq(Packets(Links)) /\ Len(f \o g) = Len(p) + Len(q)
      /\ \A i \in 1 .. Len(p) : (f \o g)[i] = f[i]
      /\ \A i \in 1 .. Len(q) : (f \o g)[Len(p) + i] = g[i]
  <2>1. /\ f \o g \in Seq(Packets(Links)) /\ Len(f \o g) = Len(f) + Len(g)
        /\ \A i \in 1 .. Len(f) : (f \o g)[i] = f[i]
        /\ \A i \in 1 .. Len(g) : (f \o g)[Len(f) + i] = g[i]
    <3>1. f \in Seq(Packets(Links)) /\ g \in Seq(Packets(Links))
      BY <1>2
    <3> QED
      BY ONLY <3>1, ConcatParts
  <2> QED
    BY <1>2, <2>1
<1>5. ASSUME NEW i \in 1 .. Len(p \o q) PROVE h[i] = (f \o g)[i]
  <2>1. CASE i \in 1 .. Len(p)
    BY <1>1, <1>3, <1>4, <2>1
  <2>2. CASE i \notin 1 .. Len(p)
    <3>1. PICK j \in 1 .. Len(q) : i = Len(p) + j
      <4>1. i - Len(p) \in 1 .. Len(q) /\ i = Len(p) + (i - Len(p))
        BY <1>1, <2>2
      <4> QED
        BY <4>1
    <3> QED
      BY <1>1, <1>3, <1>4, <3>1
  <2> QED
    BY <2>1, <2>2
<1>6. h = f \o g
  BY <1>1, <1>2, <1>4, <1>5, SeqEqual
<1>7. FlattenSeq(f \o g) = FlattenSeq(f) \o FlattenSeq(g)
  BY <1>2, FlattenConcat
<1> QED
  BY <1>6, <1>7 DEF In, f, g, h

LEMMA InAppend ==
  ASSUME NEW q \in Seq(Message), NEW m \in Message, NEW s \in Streams
  PROVE  In(Append(q, m), s) = In(q, s) \o LinksOf(m, s)
<1>1. <<m>> \in Seq(Message) /\ Append(q, m) = q \o <<m>>
  OBVIOUS
<1> QED
  BY <1>1, InConcat, InOne

LEMMA InFirst ==
  ASSUME NEW q \in Seq(Message), q # <<>>, NEW s \in Streams
  PROVE  /\ Head(q) \in Message /\ Tail(q) \in Seq(Message)
         /\ In(q, s) = LinksOf(Head(q), s) \o In(Tail(q), s)
<1>1. /\ Tail(q) \in Seq(Message) /\ Head(q) \in Message /\ q = <<Head(q)>> \o Tail(q)
      /\ <<Head(q)>> \in Seq(Message)
  OBVIOUS
<1>2. In(<<Head(q)>> \o Tail(q), s) = In(<<Head(q)>>, s) \o In(Tail(q), s)
  BY <1>1, InConcat
<1> QED
  BY <1>1, <1>2, InOne

\* The links of batches, as packets.
LEMMA BatchPackets ==
  ASSUME NEW w \in Seq(Batch), NEW s \in Streams
  PROVE  /\ [i \in 1 .. Len(w) |-> w[i][s]] \in Seq(Packets(Links))
         /\ Len([i \in 1 .. Len(w) |-> w[i][s]]) = Len(w)
         /\ OnWire(w, s) \in Packets(Links)
         /\ \A b \in Batch : b[s] \in Packets(Links)
<1>1. \A b \in Batch : b[s] \in Packets(Links)
  BY DEF Batch, Packets
<1>2. Len(w) \in Nat /\ \A i \in 1 .. Len(w) : w[i] \in Batch
  OBVIOUS
<1>3. /\ [i \in 1 .. Len(w) |-> w[i][s]] \in Seq(Packets(Links))
      /\ Len([i \in 1 .. Len(w) |-> w[i][s]]) = Len(w)
  BY <1>1, <1>2
<1>4. OnWire(w, s) \in Packets(Links)
  BY <1>3, FlattenType DEF OnWire
<1> QED
  BY <1>1, <1>3, <1>4

LEMMA OnWireAppend ==
  ASSUME NEW w \in Seq(Batch), NEW b \in Batch, NEW s \in Streams
  PROVE  OnWire(Append(w, b), s) = OnWire(w, s) \o b[s]
<1> DEFINE f == [i \in 1 .. Len(w) |-> w[i][s]]
           v == Append(w, b)
           g == [i \in 1 .. Len(v) |-> v[i][s]]
<1>1. /\ v \in Seq(Batch) /\ Len(v) = Len(w) + 1 /\ Len(w) \in Nat
      /\ \A i \in 1 .. Len(w) : v[i] = w[i]
      /\ v[Len(w) + 1] = b
  OBVIOUS
<1> HIDE DEF v
<1>2. f \in Seq(Packets(Links)) /\ Len(f) = Len(w) /\ b[s] \in Packets(Links)
  BY BatchPackets, Zenon
<1>3. g \in Seq(Packets(Links)) /\ Len(g) = Len(v)
  BY <1>1, BatchPackets, Zenon
<1>4. (\A i \in 1 .. Len(w) : f[i] = w[i][s]) /\ (\A i \in 1 .. Len(v) : g[i] = v[i][s])
  OBVIOUS
<1> HIDE DEF f, g
<1>5. /\ Append(f, b[s]) \in Seq(Packets(Links)) /\ Len(Append(f, b[s])) = Len(w) + 1
      /\ \A i \in 1 .. Len(w) : Append(f, b[s])[i] = f[i]
      /\ Append(f, b[s])[Len(w) + 1] = b[s]
  BY <1>2
<1>6. ASSUME NEW i \in 1 .. Len(v) PROVE g[i] = Append(f, b[s])[i]
  <2>1. i \in 1 .. Len(w) \/ i = Len(w) + 1
    BY <1>1
  <2> QED
    BY <1>1, <1>4, <1>5, <2>1
<1>7. g = Append(f, b[s])
  BY <1>1, <1>3, <1>5, <1>6, SeqEqual
<1>8. FlattenSeq(Append(f, b[s])) = FlattenSeq(f) \o b[s]
  BY <1>2, FlattenAppend
<1> QED
  BY <1>7, <1>8 DEF OnWire, f, g, v

LEMMA OnWireFirst ==
  ASSUME NEW w \in Seq(Batch), w # <<>>, NEW s \in Streams
  PROVE  /\ Head(w) \in Batch /\ Tail(w) \in Seq(Batch)
         /\ OnWire(w, s) = Head(w)[s] \o OnWire(Tail(w), s)
<1> DEFINE f == [i \in 1 .. Len(w) |-> w[i][s]]
           v == Tail(w)
           g == [i \in 1 .. Len(v) |-> v[i][s]]
<1>1. /\ v \in Seq(Batch) /\ Len(v) = Len(w) - 1 /\ Len(w) \in Nat \ {0}
      /\ \A i \in 1 .. Len(w) - 1 : v[i] = w[i + 1]
      /\ Head(w) = w[1] /\ w[1] \in Batch
  OBVIOUS
<1> HIDE DEF v
<1>2. f \in Seq(Packets(Links)) /\ Len(f) = Len(w)
  BY BatchPackets, Zenon
<1>3. g \in Seq(Packets(Links)) /\ Len(g) = Len(v)
  BY <1>1, BatchPackets, Zenon
<1>4. (\A i \in 1 .. Len(w) : f[i] = w[i][s]) /\ (\A i \in 1 .. Len(v) : g[i] = v[i][s])
  OBVIOUS
<1> HIDE DEF f, g
<1>5. /\ Tail(f) \in Seq(Packets(Links)) /\ Len(Tail(f)) = Len(w) - 1 /\ f # <<>>
      /\ \A i \in 1 .. Len(w) - 1 : Tail(f)[i] = f[i + 1]
  BY <1>1, <1>2
<1>6. ASSUME NEW i \in 1 .. Len(v) PROVE g[i] = Tail(f)[i]
  <2>1. i \in 1 .. Len(w) - 1 /\ i + 1 \in 1 .. Len(w)
    BY <1>1
  <2> QED
    BY <1>1, <1>4, <1>5, <2>1
<1>7. g = Tail(f)
  BY <1>1, <1>3, <1>5, <1>6, SeqEqual
<1>8. FlattenSeq(f) = f[1] \o FlattenSeq(Tail(f))
  BY <1>2, <1>5, FlattenFirst
<1>9. f[1] = Head(w)[s]
  BY <1>1, <1>4
<1> QED
  BY <1>1, <1>7, <1>8, <1>9 DEF OnWire, f, g, v

-----------------------------------------------------------------------------
(* No link is lost, repeated or overtaken on its way.                      *)

Units(B) == \A x \in Packets(B) : x \o <<>> = x /\ <<>> \o x = x
Closed(B) == <<>> \in Packets(B) /\ \A x, y \in Packets(B) : x \o y \in Packets(B)

LEMMA Algebra == ASSUME NEW B PROVE Units(B) /\ Closed(B)
  BY DEF Units, Closed, Packets

AssociatedAs(x, y, z) == (x \o y) \o z = x \o (y \o z)

LEMMA Associated ==
  ASSUME NEW B, NEW x \in Packets(B), NEW y \in Packets(B), NEW z \in Packets(B)
  PROVE  AssociatedAs(x, y, z)
  BY DEF Packets, AssociatedAs

\* What is taken off the front of one queue and put at the end of the next.
MovedAs(w, x, y, z) == w \o ((x \o y) \o z) = (w \o x) \o (y \o z)

LEMMA Moved ==
  ASSUME NEW B, NEW w \in Packets(B), NEW x \in Packets(B), NEW y \in Packets(B), NEW z \in Packets(B)
  PROVE  MovedAs(w, x, y, z)
<1>1. RegroupedAs(w, x, y, z)
  BY Regrouped4
<1> QED
  BY <1>1, Zenon DEF RegroupedAs, MovedAs

\* What comes at the very end.
GrowsAs(a, b, c, d, e, f, x) ==
  (a \o (b \o (c \o (d \o (e \o f))))) \o x = a \o (b \o (c \o (d \o (e \o (f \o x)))))

LEMMA Grows ==
  ASSUME NEW B, NEW a \in Packets(B), NEW b \in Packets(B), NEW c \in Packets(B),
         NEW d \in Packets(B), NEW e \in Packets(B), NEW f \in Packets(B), NEW x \in Packets(B)
  PROVE  GrowsAs(a, b, c, d, e, f, x)
<1>0. Closed(B)
  BY Algebra
<1>1. PICK ef \in Packets(B) : ef = e \o f
  BY <1>0 DEF Closed
<1>2. PICK def \in Packets(B) : def = d \o ef
  BY <1>0 DEF Closed
<1>3. PICK cdef \in Packets(B) : cdef = c \o def
  BY <1>0 DEF Closed
<1>4. PICK bcdef \in Packets(B) : bcdef = b \o cdef
  BY <1>0 DEF Closed
<1>5. AssociatedAs(a, bcdef, x) /\ AssociatedAs(b, cdef, x) /\ AssociatedAs(c, def, x)
      /\ AssociatedAs(d, ef, x) /\ AssociatedAs(e, f, x)
  BY Associated
<1> QED
  BY <1>1, <1>2, <1>3, <1>4, <1>5, Zenon DEF GrowsAs, AssociatedAs

FlowTyped(s) ==
  /\ known[s] \in Packets(Links) /\ In(embedder.unhandled, s) \in Packets(Links)
  /\ In(rx, s) \in Packets(Links) /\ In(inbox, s) \in Packets(Links)
  /\ OnWire(wire, s) \in Packets(Links) /\ plugin.buffer[s] \in Packets(Links)

LEMMA FlowTypes ==
  ASSUME TypeOK, NEW s \in Streams
  PROVE  FlowTyped(s)
<1>1. /\ known \in Batch /\ plugin.buffer \in Batch /\ wire \in Seq(Batch)
      /\ embedder.unhandled \in Seq(Message) /\ rx \in Seq(Message) /\ inbox \in Seq(Message)
  BY TypeParts DEF QueuesTyped, PluginType, EmbedderTyped, EmbedderType, ModelTyped
<1> QED
  BY <1>1, InType, BatchPackets DEF FlowTyped

\* What S2E reports next is a link, as there is room for it.
LEMMA ReportedLink ==
  ASSUME TypeOK, NEW r \in Streams, Report(r)
  PROVE  \E link \in Links :
           /\ reported' = [reported EXCEPT ![r] = Append(@, link)]
           /\ plugin' = [plugin EXCEPT !.buffer[r] = Append(@, link)]
<1>1. MaxLinks \in Nat /\ reported \in Batch
  BY BoundsAssumption DEF TypeOK
<1>2. reported["block"] \in Seq(Links) /\ reported["state"] \in Seq(Links)
  BY <1>1 DEF Batch, Streams
<1>3. /\ Len(reported["block"]) \in Nat /\ Len(reported["state"]) \in Nat
      /\ Len(reported[r]) \in {Len(reported["block"]), Len(reported["state"])}
  BY <1>2 DEF Streams
<1>4. Len(reported["block"]) + Len(reported["state"]) < MaxLinks
  BY Zenon DEF Report
<1>5. \A a, b \in Nat : a + b < MaxLinks => a + 1 \in 1 .. MaxLinks /\ b + 1 \in 1 .. MaxLinks
  BY <1>1
<1>6. Len(reported[r]) + 1 \in Links
  BY <1>3, <1>4, <1>5, Zenon DEF Links
<1> QED
  BY <1>6, Zenon DEF Report

LEMMA ReportFlows ==
  ASSUME TypeOK, NEW s \in Streams, Flow(s), NEW r \in Streams, Report(r)
  PROVE  Flow(s)'
<1>1. PICK link \in Links : /\ reported' = [reported EXCEPT ![r] = Append(reported[r], link)]
                            /\ plugin' = [plugin EXCEPT !.buffer[r] = Append(plugin.buffer[r], link)]
  BY ReportedLink, Zenon
<1>2. UNCHANGED <<known, embedder, rx, inbox, wire>>
  BY DEF Report, queues, model
<1>3. reported \in Batch /\ plugin \in PluginType /\ plugin.buffer \in Batch
  BY TypeParts DEF QueuesTyped, PluginType
<1>4. s # r => reported'[s] = reported[s] /\ plugin'.buffer[s] = plugin.buffer[s]
  BY <1>1, <1>3 DEF Batch, PluginType
<1>5. s = r => reported'[s] = Append(reported[s], link) /\ plugin'.buffer[s] = Append(plugin.buffer[s], link)
  BY <1>1, <1>3 DEF Batch, PluginType
<1>6. CASE s # r
  BY <1>2, <1>4, <1>6 DEF Flow
<1>7. CASE s = r
  <2>1. /\ Append(reported[s], link) = reported[s] \o <<link>>
        /\ Append(plugin.buffer[s], link) = plugin.buffer[s] \o <<link>>
        /\ <<link>> \in Packets(Links)
    <3>1. reported[s] \in Seq(Links) /\ plugin.buffer[s] \in Seq(Links)
      BY <1>3 DEF Batch
    <3>2. \A q \in Seq(Links) : Append(q, link) = q \o <<link>>
      OBVIOUS
    <3>3. <<link>> \in Packets(Links)
      BY DEF Packets
    <3> QED
      BY <3>1, <3>2, <3>3
  <2>2. GrowsAs(known[s], In(embedder.unhandled, s), In(rx, s), In(inbox, s), OnWire(wire, s),
                plugin.buffer[s], <<link>>)
    BY <2>1, FlowTypes, Grows DEF FlowTyped
  <2>3. reported[s] \o <<link>>
          = known[s] \o (In(embedder.unhandled, s) \o (In(rx, s) \o
              (In(inbox, s) \o (OnWire(wire, s) \o (plugin.buffer[s] \o <<link>>)))))
    BY <2>2, Zenon DEF Flow, GrowsAs
  <2> QED
    BY <1>2, <1>5, <1>7, <2>1, <2>3 DEF Flow
<1> QED
  BY <1>6, <1>7

LEMMA FlushFlows ==
  ASSUME TypeOK, NEW s \in Streams, Flow(s), Flush, plugin'.buffer = NoLinks
  PROVE  Flow(s)'
<1>1. UNCHANGED <<reported, known, embedder, rx, inbox>> /\ wire' = Append(wire, plugin.buffer)
  BY DEF Flush, model
<1>2. wire \in Seq(Batch) /\ plugin.buffer \in Batch
  BY TypeParts DEF QueuesTyped, PluginType
<1>3. OnWire(wire', s) = OnWire(wire, s) \o plugin.buffer[s]
  BY <1>1, <1>2, OnWireAppend
<1>4. plugin'.buffer[s] = <<>>
  BY DEF NoLinks
<1>5. FlowTyped(s) /\ Units(Links) /\ Closed(Links)
  BY FlowTypes, Algebra
<1>6. OnWire(wire', s) \o plugin'.buffer[s] = OnWire(wire, s) \o plugin.buffer[s]
  BY <1>3, <1>4, <1>5, Zenon DEF Units, Closed, FlowTyped
<1> QED
  BY <1>1, <1>6, Zenon DEF Flow

LEMMA PassedOnFlows ==
  ASSUME TypeOK, NEW s \in Streams, Flow(s), run_ipc \/ run_controller
  PROVE  Flow(s)'
<1>1. /\ FlowTyped(s) /\ Closed(Links)
      /\ wire \in Seq(Batch) /\ inbox \in Seq(Message) /\ rx \in Seq(Message)
  BY FlowTypes, Algebra, TypeParts DEF QueuesTyped
<1>2. CASE run_ipc
  <2>1. /\ wire # <<>> /\ inbox' = Append(inbox, Edges(Head(wire))) /\ wire' = Tail(wire)
        /\ UNCHANGED <<reported, plugin, rx, embedder, known>>
    BY <1>2 DEF run_ipc, backend, model
  <2>2. /\ Head(wire) \in Batch /\ Tail(wire) \in Seq(Batch)
        /\ OnWire(wire, s) = Head(wire)[s] \o OnWire(wire', s)
    BY <1>1, <2>1, OnWireFirst
  <2>3. Edges(Head(wire)) \in Message /\ LinksOf(Edges(Head(wire)), s) = Head(wire)[s]
    BY <2>2, Messages DEF LinksOf, Edges
  <2>4. In(inbox', s) = In(inbox, s) \o Head(wire)[s]
    BY <1>1, <2>1, <2>3, InAppend
  <2>5. Head(wire)[s] \in Packets(Links) /\ OnWire(wire', s) \in Packets(Links)
    BY <1>1, <2>1, <2>2, BatchPackets
  <2>6. In(inbox, s) \o (OnWire(wire, s) \o plugin.buffer[s])
          = In(inbox', s) \o (OnWire(wire', s) \o plugin.buffer[s])
    <3>1. MovedAs(In(inbox, s), Head(wire)[s], OnWire(wire', s), plugin.buffer[s])
      BY <1>1, <2>5, Moved DEF FlowTyped
    <3> QED
      BY <2>2, <2>4, <3>1, Zenon DEF MovedAs
  <2> QED
    BY <2>1, <2>6, Zenon DEF Flow
<1>3. CASE run_controller
  <2>1. /\ inbox # <<>> /\ rx' = Append(rx, Head(inbox)) /\ inbox' = Tail(inbox)
        /\ UNCHANGED <<reported, plugin, wire, embedder, known>>
    BY <1>3 DEF run_controller, backend, model
  <2>2. /\ Head(inbox) \in Message /\ Tail(inbox) \in Seq(Message)
        /\ In(inbox, s) = LinksOf(Head(inbox), s) \o In(inbox', s)
    BY <1>1, <2>1, InFirst
  <2>3. In(rx', s) = In(rx, s) \o LinksOf(Head(inbox), s)
    BY <1>1, <2>1, <2>2, InAppend
  <2>4. LinksOf(Head(inbox), s) \in Packets(Links) /\ In(inbox', s) \in Packets(Links)
    BY <2>1, <2>2, InOne, InType
  <2>5. PICK t \in Packets(Links) : t = OnWire(wire, s) \o plugin.buffer[s]
    BY <1>1, Zenon DEF FlowTyped, Closed
  <2>6. In(rx, s) \o (In(inbox, s) \o t) = In(rx', s) \o (In(inbox', s) \o t)
    <3>1. MovedAs(In(rx, s), LinksOf(Head(inbox), s), In(inbox', s), t)
      BY <1>1, <2>4, Moved DEF FlowTyped
    <3> QED
      BY <2>2, <2>3, <3>1, Zenon DEF MovedAs
  <2> QED
    BY <2>1, <2>5, <2>6, Zenon DEF Flow
<1> QED
  BY <1>2, <1>3

\* A message without links.
LEMMA ToldFlows ==
  ASSUME TypeOK, NEW s \in Streams, Flow(s), NEW m \in {WakeUp, QemuShutdown},
         inbox' = Append(inbox, m), UNCHANGED <<reported, known, embedder, rx, wire>>,
         plugin'.buffer = plugin.buffer
  PROVE  Flow(s)'
<1>1. FlowTyped(s) /\ Units(Links) /\ inbox \in Seq(Message)
  BY FlowTypes, Algebra, TypeParts DEF QueuesTyped
<1>2. m \in Message /\ LinksOf(m, s) = <<>>
  BY Messages DEF LinksOf, WakeUp, QemuShutdown
<1>3. In(inbox', s) = In(inbox, s) \o <<>>
  BY <1>1, <1>2, InAppend
<1>4. In(inbox', s) = In(inbox, s)
  BY <1>1, <1>3, Zenon DEF FlowTyped, Units
<1> QED
  BY <1>4 DEF Flow

LEMMA PollFlows ==
  ASSUME TypeOK, NEW s \in Streams, Flow(s), Poll \/ Receive, Handled
  PROVE  Flow(s)'
<1>1. /\ FlowTyped(s) /\ Units(Links) /\ Closed(Links)
      /\ rx \in Seq(Message) /\ embedder \in EmbedderType /\ embedder.unhandled \in Seq(Message)
  BY FlowTypes, Algebra, TypeParts DEF QueuesTyped, EmbedderTyped, EmbedderType
<1>2. UNCHANGED <<reported, plugin, wire, inbox, known>>
  BY DEF Poll, Receive, backend, model
<1>3. PICK t \in Packets(Links) : t = In(inbox, s) \o (OnWire(wire, s) \o plugin.buffer[s])
  <2>1. PICK u \in Packets(Links) : u = OnWire(wire, s) \o plugin.buffer[s]
    BY <1>1, Zenon DEF FlowTyped, Closed
  <2>2. In(inbox, s) \o u \in Packets(Links)
    BY <1>1, Zenon DEF FlowTyped, Closed
  <2> QED
    BY <2>1, <2>2
<1>4. In(embedder.unhandled, s) \o (In(rx, s) \o t) = In(embedder'.unhandled, s) \o (In(rx', s) \o t)
  <2>1. CASE Poll
    <3>1. embedder'.unhandled = embedder.unhandled \o rx /\ rx' = <<>>
      BY <1>1, <2>1 DEF Poll, EmbedderType
    <3>2. /\ In(embedder'.unhandled, s) = In(embedder.unhandled, s) \o In(rx, s)
          /\ In(rx', s) = <<>>
      BY <1>1, <3>1, InConcat, InNone
    <3>3. <<>> \in Packets(Links) /\ In(rx, s) \o <<>> = In(rx, s)
      BY <1>1, Zenon DEF FlowTyped, Units, Closed
    <3>4. MovedAs(In(embedder.unhandled, s), In(rx, s), <<>>, t)
      BY <1>1, <1>3, <3>3, Moved DEF FlowTyped
    <3> QED
      BY <3>2, <3>3, <3>4, Zenon DEF MovedAs
  <2>2. CASE Receive
    <3>1. /\ embedder'.unhandled = <<Head(rx)>> /\ rx' = Tail(rx) /\ rx # <<>>
          /\ embedder.unhandled = <<>>
      BY <1>1, <2>2 DEF Receive, EmbedderType, Handled, Between, At
    <3>2. /\ Head(rx) \in Message /\ Tail(rx) \in Seq(Message)
          /\ In(rx, s) = LinksOf(Head(rx), s) \o In(rx', s)
      BY <1>1, <3>1, InFirst
    <3>3. PICK x \in Packets(Links) : x = LinksOf(Head(rx), s) /\ In(embedder'.unhandled, s) = x
      BY <3>1, <3>2, InOne
    <3>4. In(rx', s) \in Packets(Links) /\ In(embedder.unhandled, s) = <<>>
      BY <3>1, <3>2, InType, InNone
    <3>5. <<>> \in Packets(Links) /\ <<>> \o x = x
      BY <1>1, Zenon DEF Units, Closed
    <3>6. MovedAs(<<>>, x, In(rx', s), t)
      BY <1>3, <3>3, <3>4, <3>5, Moved
    <3> QED
      BY <3>2, <3>3, <3>4, <3>5, <3>6, Zenon DEF MovedAs
  <2> QED
    BY <2>1, <2>2
<1> QED
  BY <1>2, <1>3, <1>4, Zenon DEF Flow

\* The links of the messages registered.
LEMMA EdgesDo ==
  ASSUME TypeOK, HandleEdges
  PROVE  \E front \in Seq(Message) :
           /\ embedder.unhandled = front \o embedder'.unhandled
           /\ embedder'.unhandled \in Seq(Message)
           /\ \A s \in Streams : known'[s] = known[s] \o In(front, s)
<1>1. embedder \in EmbedderType /\ embedder.unhandled \in Seq(Message)
  BY TypeParts DEF EmbedderTyped, EmbedderType
<1>2. PICK n \in 1 .. Len(embedder.unhandled) :
        /\ known' = Registered(SubSeq(embedder.unhandled, 1, n))
        /\ embedder' = [embedder EXCEPT
             !.unhandled = SubSeq(embedder.unhandled, n + 1, Len(embedder.unhandled)),
             !.replacing = 1, !.at = "replace"]
  BY Zenon DEF HandleEdges
<1>3. embedder'.unhandled = SubSeq(embedder.unhandled, n + 1, Len(embedder.unhandled))
  BY <1>1, <1>2 DEF EmbedderType
<1>4. n \in 0 .. Len(embedder.unhandled) /\ embedder.unhandled \in Packets(Message)
  BY <1>1 DEF Packets
<1>5. /\ SubSeq(embedder.unhandled, 1, n) \in Packets(Message)
      /\ embedder'.unhandled \in Packets(Message)
      /\ SubSeq(embedder.unhandled, 1, n) \o embedder'.unhandled = embedder.unhandled
  BY <1>3, <1>4, SplitOff, ZenonT(60)
<1>6. \A s \in Streams : known'[s] = known[s] \o In(SubSeq(embedder.unhandled, 1, n), s)
  BY <1>2 DEF Registered, InOrder, In
<1> QED
  BY <1>5, <1>6 DEF Packets

LEMMA HandleFlows ==
  ASSUME TypeOK, NEW s \in Streams, Flow(s), Handle
  PROVE  Flow(s)'
<1>1. /\ FlowTyped(s) /\ Units(Links) /\ Closed(Links)
      /\ embedder \in EmbedderType /\ embedder.unhandled \in Seq(Message)
  BY FlowTypes, Algebra, TypeParts DEF QueuesTyped, EmbedderTyped, EmbedderType
<1>2. CASE HandleEdges
  <2>1. PICK front \in Seq(Message) :
           /\ embedder.unhandled = front \o embedder'.unhandled
           /\ embedder'.unhandled \in Seq(Message)
           /\ known'[s] = known[s] \o In(front, s)
    BY <1>2, EdgesDo
  <2>2. UNCHANGED <<reported, plugin, wire, inbox, rx>>
    BY <1>2, Zenon DEF HandleEdges, backend, queues
  <2>3. /\ In(embedder.unhandled, s) = In(front, s) \o In(embedder'.unhandled, s)
        /\ In(front, s) \in Packets(Links) /\ In(embedder'.unhandled, s) \in Packets(Links)
    BY <2>1, InConcat, InType
  <2>4. PICK t \in Packets(Links) : t = In(rx, s) \o (In(inbox, s) \o (OnWire(wire, s) \o plugin.buffer[s]))
    <3>1. PICK u \in Packets(Links) : u = OnWire(wire, s) \o plugin.buffer[s]
      BY <1>1, Zenon DEF FlowTyped, Closed
    <3>2. PICK v \in Packets(Links) : v = In(inbox, s) \o u
      BY <1>1, Zenon DEF FlowTyped, Closed
    <3>3. In(rx, s) \o v \in Packets(Links)
      BY <1>1, Zenon DEF FlowTyped, Closed
    <3> QED
      BY <3>1, <3>2, <3>3
  <2>5. MovedAs(known[s], In(front, s), In(embedder'.unhandled, s), t)
    BY <1>1, <2>3, <2>4, Moved DEF FlowTyped
  <2> QED
    BY <2>1, <2>2, <2>3, <2>4, <2>5, Zenon DEF Flow, MovedAs
<1>3. CASE HandleWakeUp \/ HandleQemuShutdown
  <2>1. /\ embedder.unhandled # <<>> /\ embedder'.unhandled = Tail(embedder.unhandled)
        /\ Head(embedder.unhandled) \in {WakeUp, QemuShutdown}
    BY <1>1, <1>3 DEF HandleWakeUp, HandleQemuShutdown, EmbedderType
  <2>2. UNCHANGED <<reported, plugin, known, wire, inbox, rx>>
    BY <1>3, Zenon DEF HandleWakeUp, HandleQemuShutdown, backend, model, queues
  <2>3. In(embedder.unhandled, s) = LinksOf(Head(embedder.unhandled), s) \o In(embedder'.unhandled, s)
        /\ embedder'.unhandled \in Seq(Message)
    BY <1>1, <2>1, InFirst
  <2>4. LinksOf(Head(embedder.unhandled), s) = <<>>
    BY <2>1 DEF LinksOf, WakeUp, QemuShutdown
  <2>5. In(embedder'.unhandled, s) \in Packets(Links)
    BY <2>3, InType
  <2>6. In(embedder'.unhandled, s) = In(embedder.unhandled, s)
    BY <1>1, <2>3, <2>4, <2>5, Zenon DEF Units
  <2> QED
    BY <2>2, <2>6, Zenon DEF Flow
<1> QED
  BY <1>2, <1>3 DEF Handle

LEMMA EmbedderFlows ==
  ASSUME TypeOK, NEW s \in Streams, Flow(s), Handled, Embedder
  PROVE  Flow(s)'
<1>1. CASE Poll \/ Receive \/ Handle
  BY <1>1, PollFlows, HandleFlows
<1>2. CASE Replace \/ ReadParams \/ Layout \/ Write \/ Finish
  <2>1. embedder \in EmbedderType
    BY TypeParts DEF EmbedderTyped
  <2>2. UNCHANGED <<reported, plugin, known, wire, inbox, rx>>
    BY <1>2, Zenon DEF Replace, ReadParams, Layout, Write, Finish, backend, queues, model
  <2>3. embedder'.unhandled = embedder.unhandled
    <3>1. CASE Replace
      BY <2>1, <3>1 DEF Replace, EmbedderType
    <3>2. CASE ReadParams
      BY <2>1, <3>2 DEF ReadParams, EmbedderType
    <3>3. CASE Layout
      <4>1. PICK c \in CopyType : embedder' = [embedder EXCEPT !.copy = c, !.at = "write"]
        BY <3>3, LayoutDoes
      <4> QED
        BY <2>1, <4>1 DEF EmbedderType
    <3>4. CASE Write
      BY <2>1, <3>4 DEF Write, EmbedderType
    <3>5. CASE Finish
      BY <2>1, <3>5 DEF Finish, EmbedderType
    <3> QED
      BY <1>2, <3>1, <3>2, <3>3, <3>4, <3>5
  <2> QED
    BY <2>2, <2>3 DEF Flow
<1> QED
  BY <1>1, <1>2 DEF Embedder

LEMMA NextFlows ==
  ASSUME TypeOK, NEW s \in Streams, Flow(s), Handled, [Next]_vars
  PROVE  Flow(s)'
<1>1. CASE Embedder
  BY <1>1, EmbedderFlows
<1>2. CASE \E r \in Streams : Report(r)
  BY <1>2, ReportFlows
<1>3. CASE onTimer \/ onEngineShutdown
  <2>1. plugin \in PluginType
    BY TypeParts DEF QueuesTyped
  <2>2. Flush /\ plugin'.buffer = NoLinks
    BY <1>3, <2>1 DEF onTimer, onEngineShutdown, PluginType
  <2> QED
    BY <2>2, FlushFlows
<1>4. CASE run_ipc \/ run_controller
  BY <1>4, PassedOnFlows
<1>5. CASE run_qmp
  <2>1. plugin \in PluginType
    BY TypeParts DEF QueuesTyped
  <2>2. plugin'.buffer = plugin.buffer
    BY <1>5, <2>1 DEF run_qmp, PluginType
  <2>3. inbox' = Append(inbox, QemuShutdown) /\ UNCHANGED <<reported, known, embedder, rx, wire>>
    BY <1>5 DEF run_qmp, model
  <2>4. QemuShutdown \in {WakeUp, QemuShutdown}
    OBVIOUS
  <2> QED
    BY <2>2, <2>3, <2>4, ToldFlows
<1>6. CASE Frame
  <2>1. UNCHANGED <<reported, known, embedder, rx, wire, plugin>>
    BY <1>6, FrameLeaves DEF backend
  <2>2. inbox' = inbox \/ inbox' = Append(inbox, WakeUp)
    BY <1>6, FrameLeaves
  <2>3. WakeUp \in {WakeUp, QemuShutdown} /\ plugin'.buffer = plugin.buffer
    BY <2>1
  <2>4. CASE inbox' = inbox
    BY <2>1, <2>4 DEF Flow
  <2> QED
    BY <2>1, <2>2, <2>3, <2>4, ToldFlows
<1>7. CASE UNCHANGED vars
  BY <1>7 DEF Flow, vars, backend, queues, model
<1> QED
  BY <1>1, <1>2, <1>3, <1>4, <1>5, <1>6, <1>7 DEF Next

-----------------------------------------------------------------------------
(* Every graph is built from the first links of its stream.                *)

LEMMA BeginsSelf == ASSUME NEW S, NEW p \in Seq(S) PROVE Begins(p, p) /\ Begins(<<>>, p)
  BY DEF Begins

LEMMA BeginsLonger ==
  ASSUME NEW S, NEW p \in Seq(S), NEW q \in Seq(S), NEW r \in Seq(S), Begins(p, q)
  PROVE  Begins(p, q \o r)
<1>1. /\ Len(q \o r) = Len(q) + Len(r) /\ Len(p) \in Nat /\ Len(q) \in Nat /\ Len(r) \in Nat
      /\ \A i \in 1 .. Len(q) : (q \o r)[i] = q[i]
  OBVIOUS
<1> QED
  BY <1>1 DEF Begins

LEMMA BeginsAll ==
  ASSUME NEW S, NEW p \in Seq(S), NEW q \in Seq(S), Begins(p, q), Len(p) = Len(q)
  PROVE  p = q
  BY SeqEqual DEF Begins

LEMMA FirstOf ==
  ASSUME NEW S, NEW p \in Seq(S), NEW q \in Seq(S), NEW w \in Seq(S), w = p \o q
  PROVE  Len(p) \in Nat /\ Len(p) <= Len(w) /\ p = SubSeq(w, 1, Len(p))
<1>1. /\ Len(w) = Len(p) + Len(q) /\ Len(p) \in Nat /\ Len(q) \in Nat
      /\ \A i \in 1 .. Len(p) : w[i] = p[i]
  OBVIOUS
<1>2. /\ SubSeq(w, 1, Len(p)) \in Seq(S) /\ Len(SubSeq(w, 1, Len(p))) = Len(p)
      /\ \A i \in 1 .. Len(p) : SubSeq(w, 1, Len(p))[i] = w[i]
  BY <1>1
<1> QED
  BY <1>1, <1>2, SeqEqual

\* What a step does to the links a graph shows.
Redrawn(g) == graphs'[g].links \in {graphs[g].links, known[StreamOf[g]]} /\ UNCHANGED known

LEMMA EmbedderDraws ==
  ASSUME TypeOK, Handled, CopyShows, Embedder, NEW g \in Graphs
  PROVE  \/ Redrawn(g)
         \/ HandleEdges /\ UNCHANGED graphs
<1>1. /\ embedder \in EmbedderType /\ graphs \in [Graphs -> Graph2D] /\ known \in Batch
      /\ embedder.copy.of \in Graphs
  BY TypeParts DEF EmbedderTyped, EmbedderType, CopyType, ModelTyped
<1>2. CASE HandleEdges
  BY <1>2 DEF HandleEdges
<1>3. CASE Replace
  <2>1. /\ graphs' = [graphs EXCEPT ![AllGraphs[embedder.replacing]] =
                        Replaced(known[StreamOf[AllGraphs[embedder.replacing]]])]
        /\ UNCHANGED known
    BY <1>3 DEF Replace
  <2>2. known[StreamOf[g]] \in Seq(Links)
    BY <1>1, GraphTypes DEF Batch
  <2>3. Replaced(known[StreamOf[g]]).links = known[StreamOf[g]]
    BY <2>2, GraphTypes
  <2> QED
    BY <1>1, <2>1, <2>3 DEF Redrawn
<1>4. CASE Write
  <2>1. graphs' = [graphs EXCEPT ![embedder.copy.of] = embedder.copy.graph] /\ UNCHANGED known
    BY <1>4 DEF Write
  <2>2. embedder.copy.graph.links = graphs[embedder.copy.of].links
    BY <1>4 DEF Write, CopyShows
  <2> QED
    BY <1>1, <2>1, <2>2 DEF Redrawn
<1>5. CASE Poll \/ Receive \/ HandleWakeUp \/ HandleQemuShutdown \/ ReadParams \/ Layout \/ Finish
  <2>1. UNCHANGED <<known, graphs>>
    BY <1>5, Zenon DEF Poll, Receive, HandleWakeUp, HandleQemuShutdown, ReadParams, Layout, Finish, model
  <2> QED
    BY <2>1 DEF Redrawn
<1> QED
  BY <1>2, <1>3, <1>4, <1>5 DEF Embedder, Handle

LEMMA OthersDraw ==
  ASSUME Frame \/ Backend \/ UNCHANGED vars
  PROVE  UNCHANGED <<embedder, known, graphs>>
<1>1. CASE Frame
  BY <1>1, FrameLeaves
<1>2. CASE Backend
  BY <1>2, BackendLeaves DEF model
<1>3. CASE UNCHANGED vars
  BY <1>3 DEF vars, model
<1> QED
  BY <1>1, <1>2, <1>3

LEMMA ShowsKept ==
  ASSUME TypeOK, Handled, CopyShows, ShowsKnown, [Next]_vars
  PROVE  ShowsKnown'
<1>1. CASE Embedder
  <2> SUFFICES ASSUME NEW g \in Graphs
               PROVE  Begins(graphs'[g].links, known'[StreamOf[g]])
    BY DEF ShowsKnown
  <2>1. /\ Begins(graphs[g].links, known[StreamOf[g]]) /\ StreamOf[g] \in Streams
        /\ graphs[g].links \in Seq(Links) /\ known[StreamOf[g]] \in Seq(Links)
    BY GraphTypes, TypeParts DEF ShowsKnown, ModelTyped, Graph2D, Batch
  <2>2. CASE Redrawn(g)
    BY <2>1, <2>2, BeginsSelf DEF Redrawn
  <2>3. CASE HandleEdges /\ UNCHANGED graphs
    <3>1. PICK front \in Seq(Message) : known'[StreamOf[g]] = known[StreamOf[g]] \o In(front, StreamOf[g])
      BY <2>1, <2>3, EdgesDo
    <3>2. In(front, StreamOf[g]) \in Seq(Links)
      BY <2>1, InType DEF Packets
    <3> QED
      BY <2>1, <2>3, <3>1, <3>2, BeginsLonger
  <2> QED
    BY <1>1, <2>2, <2>3, EmbedderDraws
<1>2. CASE Frame \/ Backend \/ UNCHANGED vars
  BY <1>2, OthersDraw DEF ShowsKnown
<1> QED
  BY <1>1, <1>2, Zenon DEF Next, Backend

LEMMA CopyKept ==
  ASSUME TypeOK, CopyShows, [Next]_vars
  PROVE  CopyShows'
<1>1. CASE Layout
  <2>1. embedder \in EmbedderType
    BY TypeParts DEF EmbedderTyped
  <2>2. PICK c \in CopyType : /\ embedder' = [embedder EXCEPT !.copy = c, !.at = "write"]
                              /\ LayoutResult(c)
    BY <1>1, LayoutDoes
  <2>3. embedder'.copy = c
    BY <2>1, <2>2 DEF EmbedderType
  <2>4. UNCHANGED graphs
    BY <1>1, Zenon DEF Layout, model
  <2> QED
    BY <2>2, <2>3, <2>4 DEF CopyShows, LayoutResult
<1>2. CASE Poll \/ Receive \/ Handle \/ Replace \/ ReadParams \/ Write \/ Finish
  <2>1. embedder \in EmbedderType
    BY TypeParts DEF EmbedderTyped
  <2>2. embedder'.at # "write"
    <3>1. CASE Poll \/ Receive
      BY <2>1, <3>1 DEF Poll, Receive, EmbedderType
    <3>2. CASE HandleEdges
      BY <2>1, <3>2 DEF HandleEdges, EmbedderType
    <3>3. CASE HandleWakeUp \/ HandleQemuShutdown
      BY <2>1, <3>3 DEF HandleWakeUp, HandleQemuShutdown, EmbedderType, At
    <3>4. CASE Replace
      BY <2>1, <3>4 DEF Replace, EmbedderType, At
    <3>5. CASE ReadParams \/ Write \/ Finish
      BY <2>1, <3>5 DEF ReadParams, Write, Finish, EmbedderType
    <3> QED
      BY <1>2, <3>1, <3>2, <3>3, <3>4, <3>5 DEF Handle
  <2> QED
    BY <2>2 DEF CopyShows, At
<1>3. CASE Frame \/ Backend \/ UNCHANGED vars
  BY <1>3, OthersDraw DEF CopyShows, At
<1> QED
  BY <1>1, <1>2, <1>3, Zenon DEF Next, Backend, Embedder

LEMMA InitShown == ASSUME Init, TypeOK PROVE ShownInv
<1>1. /\ reported = NoLinks /\ known = NoLinks /\ plugin.buffer = NoLinks
      /\ wire = <<>> /\ inbox = <<>> /\ rx = <<>> /\ embedder.unhandled = <<>>
      /\ embedder.at = "poll" /\ graphs = [g \in Graphs |-> EmptyGraph]
  BY DEF Init
<1>2. ASSUME NEW s \in Streams PROVE Flow(s)
  <2>1. NoLinks[s] = <<>>
    BY DEF NoLinks
  <2>2. In(<<>>, s) = <<>>
    BY InNone
  <2>3. OnWire(<<>>, s) = <<>>
    <3>1. [i \in 1 .. Len(<<>>) |-> <<>>[i][s]] = <<>>
      OBVIOUS
    <3> QED
      BY <3>1, FlattenEmpty, Zenon DEF OnWire
  <2>4. Units(Links) /\ Closed(Links)
    BY Algebra
  <2>5. <<>> \o <<>> = <<>>
    BY <2>4, Zenon DEF Units, Closed
  <2> QED
    BY <1>1, <2>1, <2>2, <2>3, <2>5, Zenon DEF Flow
<1>3. ShowsKnown
  <2> SUFFICES ASSUME NEW g \in Graphs PROVE Begins(graphs[g].links, known[StreamOf[g]])
    BY DEF ShowsKnown
  <2>1. graphs[g].links = <<>>
    BY <1>1 DEF EmptyGraph
  <2>2. known[StreamOf[g]] \in Seq(Links)
    BY GraphTypes, TypeParts DEF ModelTyped, Batch
  <2> QED
    BY <2>1, <2>2, BeginsSelf
<1>4. CopyShows
  BY <1>1 DEF CopyShows, At
<1> QED
  BY <1>2, <1>3, <1>4 DEF ShownInv

LEMMA ShownInvariant == Spec => [](RestInv /\ ShownInv)
<1>1. Init => RestInv /\ ShownInv
  <2>1. RestInv => TypeOK
    BY DEF RestInv
  <2> QED
    BY <2>1, InitRests, InitShown
<1>2. RestInv /\ ShownInv /\ [Next]_vars => (RestInv /\ ShownInv)'
  <2> SUFFICES ASSUME RestInv, ShownInv, [Next]_vars PROVE (RestInv /\ ShownInv)'
    OBVIOUS
  <2>1. TypeOK /\ Handled /\ ShowsKnown /\ CopyShows /\ \A s \in Streams : Flow(s)
    BY DEF RestInv, ShownInv
  <2>2. RestInv'
    BY NextKeepsRest
  <2>3. \A s \in Streams : Flow(s)'
    BY <2>1, NextFlows
  <2>4. ShowsKnown' /\ CopyShows'
    BY <2>1, ShowsKept, CopyKept
  <2> QED
    BY <2>2, <2>3, <2>4 DEF ShownInv
<1> QED
  BY <1>1, <1>2, PTL DEF Spec

-----------------------------------------------------------------------------
(* Every step is one of the window's promise, or leaves it alone.          *)

\* What the window shows of every graph.
Shown == [g \in Graphs |-> graphs[g].links]

\* What is known of a stream are the first links reported.
LEMMA KnownIsFirst ==
  ASSUME TypeOK, NEW s \in Streams, Flow(s)
  PROVE  /\ known[s] \in Seq(Links) /\ Len(known[s]) \in Nat
         /\ Len(known[s]) <= Len(reported[s])
         /\ known[s] = SubSeq(reported[s], 1, Len(known[s]))
<1>1. FlowTyped(s) /\ Closed(Links)
  BY FlowTypes, Algebra
<1>2. reported[s] \in Seq(Links) /\ known[s] \in Seq(Links)
  BY TypeParts DEF QueuesTyped, ModelTyped, Batch
<1>3. PICK rest \in Packets(Links) : reported[s] = known[s] \o rest
  <2>1. PICK t \in Packets(Links) : t = OnWire(wire, s) \o plugin.buffer[s]
    BY <1>1, Zenon DEF FlowTyped, Closed
  <2>2. PICK u \in Packets(Links) : u = In(inbox, s) \o t
    BY <1>1, Zenon DEF FlowTyped, Closed
  <2>3. PICK v \in Packets(Links) : v = In(rx, s) \o u
    BY <1>1, Zenon DEF FlowTyped, Closed
  <2>4. In(embedder.unhandled, s) \o v \in Packets(Links)
    BY <1>1, Zenon DEF FlowTyped, Closed
  <2> QED
    BY <2>1, <2>2, <2>3, <2>4, Zenon DEF Flow
<1>4. rest \in Seq(Links)
  BY DEF Packets
<1> QED
  BY <1>2, <1>3, <1>4, FirstOf

LEMMA InitDelivers == Init => Delivered!Init
  BY DEF Init, Delivered!Init, NoLinks, EmptyGraph

LEMMA EmbedderDelivers ==
  ASSUME TypeOK, Handled, ShownInv, Embedder
  PROVE  [Delivered!Next]_(Delivered!vars)
<1>1. /\ embedder \in EmbedderType /\ graphs \in [Graphs -> Graph2D] /\ known \in Batch
  BY TypeParts DEF EmbedderTyped, ModelTyped
<1>2. UNCHANGED reported
  BY EmbedderLeaves DEF backend
<1>3. CASE \A g \in Graphs : graphs'[g].links = graphs[g].links
  BY <1>2, <1>3 DEF Delivered!vars
<1>4. CASE Replace
  <2>1. PICK h \in Graphs : h = AllGraphs[embedder.replacing]
    BY <1>4 DEF Replace, Handled
  <2>2. graphs' = [graphs EXCEPT ![h] = Replaced(known[StreamOf[h]])]
    BY <1>4, <2>1 DEF Replace
  <2>3. PICK s \in Streams : s = StreamOf[h]
    BY GraphTypes
  <2>4. PICK k \in Seq(Links) : k = known[s]
    BY <1>1 DEF Batch
  <2>5. graphs'[h].links = k /\ \A g \in Graphs \ {h} : graphs'[g].links = graphs[g].links
    BY <1>1, <2>2, <2>3, <2>4, GraphTypes
  <2>6. /\ Len(k) \in Nat /\ Len(k) <= Len(reported[s]) /\ k = SubSeq(reported[s], 1, Len(k))
        /\ reported[s] \in Seq(Links)
    BY <2>4, KnownIsFirst, TypeParts DEF ShownInv, QueuesTyped, Batch
  <2>7. Begins(graphs[h].links, k) /\ graphs[h].links \in Seq(Links)
    BY <1>1, <2>3, <2>4 DEF ShownInv, ShowsKnown, Graph2D
  <2>8. CASE Len(k) = Len(graphs[h].links)
    <3>1. graphs[h].links = k
      BY <2>7, <2>8, BeginsAll
    <3> QED
      BY <1>3, <2>5, <3>1
  <2>9. CASE Len(k) # Len(graphs[h].links)
    <3>1. PICK n \in Nat : n = Len(k)
      BY <2>6
    <3>2. n \in Len(graphs[h].links) + 1 .. Len(reported[s])
      BY <2>6, <2>7, <2>9, <3>1 DEF Begins
    <3>3. Shown' = [Shown EXCEPT ![h] = SubSeq(reported[s], 1, n)]
      BY <2>5, <2>6, <3>1 DEF Shown
    <3>4. Shown[h] = graphs[h].links
      BY DEF Shown
    <3>5. Delivered!Show(h)
      BY <1>2, <2>3, <3>2, <3>3, <3>4 DEF Shown, Delivered!Show
    <3> QED
      BY <3>5 DEF Delivered!Next
  <2> QED
    BY <2>8, <2>9
<1>5. CASE Write
  <2>1. graphs' = [graphs EXCEPT ![embedder.copy.of] = embedder.copy.graph]
    BY <1>5 DEF Write
  <2>2. embedder.copy.graph.links = graphs[embedder.copy.of].links
    BY <1>5 DEF Write, ShownInv, CopyShows
  <2> QED
    BY <1>1, <1>3, <2>1, <2>2
<1>6. CASE Poll \/ Receive \/ Handle \/ ReadParams \/ Layout \/ Finish
  <2>1. UNCHANGED graphs
    BY <1>6, Zenon DEF Poll, Receive, Handle, HandleEdges, HandleWakeUp, HandleQemuShutdown,
                       ReadParams, Layout, Finish, model
  <2> QED
    BY <1>3, <2>1
<1> QED
  BY <1>4, <1>5, <1>6 DEF Embedder

LEMMA NextDelivers ==
  ASSUME TypeOK, Handled, ShownInv, [Next]_vars
  PROVE  [Delivered!Next]_(Delivered!vars)
<1>1. CASE \E s \in Streams : Report(s)
  <2>1. PICK s \in Streams : Report(s)
    BY <1>1
  <2>2. PICK link \in Links : reported' = [reported EXCEPT ![s] = Append(reported[s], link)]
    BY <2>1, ReportedLink, Zenon
  <2>3. UNCHANGED graphs
    BY <2>1 DEF Report, model
  <2>4. Delivered!Report(s)
    BY <2>2, <2>3 DEF Delivered!Report
  <2> QED
    BY <2>4 DEF Delivered!Next
<1>2. CASE Embedder
  BY <1>2, EmbedderDelivers
<1>3. CASE \/ onTimer \/ onEngineShutdown \/ run_qmp \/ run_ipc \/ run_controller
           \/ Frame \/ UNCHANGED vars
  <2>1. UNCHANGED graphs
    BY <1>3, OthersDraw DEF Backend
  <2>2. UNCHANGED reported
    BY <1>3, FrameLeaves
       DEF onTimer, onEngineShutdown, Flush, run_qmp, run_ipc, run_controller, vars, backend
  <2> QED
    BY <2>1, <2>2 DEF Delivered!vars
<1> QED
  BY <1>1, <1>2, <1>3 DEF Next

(* For any parameters, graphs, links, batches and layouts, in every order: *)
(* what each graph is built from grows with the links of its stream, in    *)
(* the order S2E reported them; the model, run_embedder and add_new_edges  *)
(* implement what Delivery promises.                                       *)
THEOREM LinksComeInOrder == Spec => LinksInOrder
<1>1. RestInv /\ ShownInv /\ [Next]_vars => [Delivered!Next]_(Delivered!vars)
  BY NextDelivers DEF RestInv
<1> QED
  BY <1>1, InitDelivers, ShownInvariant, PTL DEF Spec, LinksInOrder, Delivered!InOrder
=============================================================================
