------------------------------ MODULE Embedding ------------------------------
(***************************************************************************)
(* The way of a link from the plugin to the screen: the plugin's buffers   *)
(* and timer, the IPC thread and the controller that pass messages on, the *)
(* embedder thread that registers links and lays out the graph in view     *)
(* (run/embed.rs, Model of model.rs), and the window's frames (gui.rs),    *)
(* which the user may change the parameters and the view in.               *)
(*                                                                         *)
(* Coming up, shutting down and failing are RunLifecycle's.  The force     *)
(* simulation is reduced to how many layouts it needs until it stands      *)
(* still.  modelwide_single_writer_lock is left out: only the embedder     *)
(* takes it.  A lock that is released before its thread waits for anything *)
(* else is part of the action that takes it.                               *)
(***************************************************************************)
EXTENDS Integers, Sequences, SequencesExt, FiniteSets

CONSTANTS Params,     \* values of the sliders of EmbeddingParameters
          Default,    \* those the program starts with
          Noisy,      \* one whose noise is not zero
          Views,      \* bound: those of the five graphs the model has
          Steps,      \* bound: layouts until a graph stands still
          MaxLinks,   \* bound: links reported
          MaxTicks,   \* bound: timer ticks of S2E
          MaxEvents   \* bound: frames the user does something in, together with
                      \* layouts that run into an infinite position

\* The graphs of a Model, in the order add_new_edges replaces them.
AllGraphs == <<"RawBlock", "MergedBlock", "CompressedBlock", "CompressedMergedBlock", "State">>

Graphs == Views
Streams == {"block", "state"}
StreamOf == [g \in Graphs |-> IF g = "State" THEN "state" ELSE "block"]
None == "none"

ASSUME ParamsAssumption ==
  /\ {Default, Noisy} \subseteq Params /\ Default # Noisy
  /\ "RawBlock" \in Views /\ Views \subseteq {AllGraphs[i] : i \in 1 .. 5}
ASSUME BoundsAssumption ==
  Steps \in Nat \ {0} /\ {MaxLinks, MaxTicks, MaxEvents} \subseteq Nat

VARIABLES reported,   \* links S2E reported, per stream (history)
          plugin,     \* [buffer, ticks, off, running] of AmbaPlugin and its guest
          wire,       \* batches in the IPC socket
          inbox,      \* the controller's channel
          rx,         \* the embedder's channel
          embedder,   \* [at, blocking, unhandled, replacing, params, copy]
          known,      \* links in the control flow graphs, per stream
          graphs,     \* the Graph2D of every view
          params,     \* embedding_parameters
          viewed,     \* graph_to_view
          window,     \* [at, view, changed] of the Gui
          reader,     \* the graph the frame has read-locked
          repaint,    \* a frame is requested
          drawn,      \* what the latest frame shows
          spent       \* events so far, for the bound

backend == <<reported, plugin>>
queues == <<wire, inbox, rx>>
model == <<known, graphs, params>>
gui == <<viewed, window, reader, drawn>>
vars == <<backend, queues, embedder, model, gui, repaint, spent>>

Links == 1 .. MaxLinks
Batch == [Streams -> Seq(Links)]
NoLinks == [s \in Streams |-> <<>>]
Edges(batch) == [kind |-> "UpdateEdges", links |-> batch]
WakeUp == [kind |-> "WakeUp"]
QemuShutdown == [kind |-> "QemuShutdown"]
Message == {WakeUp, QemuShutdown} \cup [kind : {"UpdateEdges"}, links : Batch]

\* A Graph2D: the links it draws, and how far its layout is.
Graph2D == [links : Seq(Links), params : Params, work : 0 .. Steps]
EmptyGraph == [links |-> <<>>, params |-> Default, work |-> Steps]
Replaced(links) == [EmptyGraph EXCEPT !.links = links]

\* The embedder's locals between two layouts.
NoCopy == [of |-> "RawBlock", graph |-> EmptyGraph, converged |-> TRUE]

Converged(g) == g.links = <<>> \/ g.work = 0

TypeOK ==
  /\ reported \in Batch /\ known \in Batch
  /\ plugin \in [buffer : Batch, ticks : 0 .. MaxTicks, off : BOOLEAN, running : BOOLEAN]
  /\ wire \in Seq(Batch) /\ inbox \in Seq(Message) /\ rx \in Seq(Message)
  /\ embedder \in [at : {"poll", "receive", "handle", "replace", "layout", "write", "finish"},
                   blocking : BOOLEAN, unhandled : Seq(Message),
                   replacing : 0 .. Len(AllGraphs), params : Params,
                   copy : [of : Graphs, graph : Graph2D, converged : BOOLEAN]]
  /\ graphs \in [Graphs -> Graph2D]
  /\ params \in Params /\ viewed \in Graphs
  /\ window \in [at : {"idle", "params", "view", "send", "end"}, view : Graphs, changed : BOOLEAN]
  /\ reader \in Graphs \cup {None} /\ repaint \in BOOLEAN
  /\ drawn \in [of : Graphs, graph : Graph2D]
  /\ spent \in 0 .. MaxEvents

Init ==
  /\ reported = NoLinks /\ known = NoLinks
  /\ plugin = [buffer |-> NoLinks, ticks |-> 0, off |-> FALSE, running |-> TRUE]
  /\ wire = <<>> /\ inbox = <<>> /\ rx = <<>>
  /\ embedder = [at |-> "poll", blocking |-> TRUE, unhandled |-> <<>>, replacing |-> 0,
                 params |-> Default, copy |-> NoCopy]
  /\ graphs = [g \in Graphs |-> EmptyGraph]
  /\ params = Default /\ viewed = "RawBlock"
  /\ window = [at |-> "idle", view |-> "RawBlock", changed |-> FALSE]
  /\ reader = None
  /\ repaint = TRUE  \* the frame a new window draws
  /\ drawn = [of |-> "RawBlock", graph |-> EmptyGraph]
  /\ spent = 0

-----------------------------------------------------------------------------
(* S2E, the plugin and the threads that pass messages on                   *)

\* The two graphs of the plugin push a link onto their buffers.
Report(s) ==
  LET link == Len(reported[s]) + 1
  IN  /\ plugin.running /\ ~plugin.off
      /\ Len(reported["block"]) + Len(reported["state"]) < MaxLinks
      /\ reported' = [reported EXCEPT ![s] = Append(@, link)]
      /\ plugin' = [plugin EXCEPT !.buffer[s] = Append(@, link)]
      /\ UNCHANGED <<queues, embedder, model, gui, repaint, spent>>

\* A batch is sent even when it is empty.
Flush ==
  /\ wire' = Append(wire, plugin.buffer)
  /\ UNCHANGED <<reported, inbox, rx, embedder, model, gui, repaint, spent>>

onTimer ==
  /\ plugin.running /\ plugin.ticks < MaxTicks
  /\ plugin' = [plugin EXCEPT !.buffer = NoLinks, !.ticks = @ + 1]
  /\ Flush

onEngineShutdown ==
  /\ plugin.running
  /\ plugin' = [plugin EXCEPT !.buffer = NoLinks, !.running = FALSE]
  /\ Flush

\* The QMP thread on the event SHUTDOWN.  It may overtake what is on the wire.
run_qmp ==
  /\ ~plugin.off
  /\ plugin' = [plugin EXCEPT !.off = TRUE]
  /\ inbox' = Append(inbox, QemuShutdown)
  /\ UNCHANGED <<reported, wire, rx, embedder, model, gui, repaint, spent>>

run_ipc ==
  /\ wire # <<>>
  /\ inbox' = Append(inbox, Edges(Head(wire)))
  /\ wire' = Tail(wire)
  /\ UNCHANGED <<backend, rx, embedder, model, gui, repaint, spent>>

\* The controller hands each message to the embedder under another name.
run_controller ==
  /\ inbox # <<>>
  /\ rx' = Append(rx, Head(inbox))
  /\ inbox' = Tail(inbox)
  /\ UNCHANGED <<backend, wire, embedder, model, gui, repaint, spent>>

-----------------------------------------------------------------------------
(* run_embedder                                                            *)
At(place) == embedder.at = place

\* The loop over try_recv, and whether there is a need to wait for more.
Poll ==
  LET all == embedder.unhandled \o rx
  IN  /\ At("poll")
      /\ embedder' = [embedder EXCEPT
           !.unhandled = all,
           !.at = IF embedder.blocking /\ all = <<>> THEN "receive" ELSE "handle"]
      /\ rx' = <<>>
      /\ UNCHANGED <<backend, wire, inbox, model, gui, repaint, spent>>

Receive ==
  /\ At("receive") /\ rx # <<>>
  /\ embedder' = [embedder EXCEPT !.unhandled = <<Head(rx)>>, !.at = "handle"]
  /\ rx' = Tail(rx)
  /\ UNCHANGED <<backend, wire, inbox, model, gui, repaint, spent>>

\* The first n messages, and no more, are UpdateEdges in a row.
InARow(messages, n) ==
  /\ \A i \in 1 .. n : messages[i].kind = "UpdateEdges"
  /\ n < Len(messages) => messages[n + 1].kind # "UpdateEdges"

\* Mutant: later messages are put before earlier ones.
NewestFirst(batches) == FlattenSeq(Reverse(batches))
InOrder(batches) == FlattenSeq(batches)

LinksOf(message, s) == IF message.kind = "UpdateEdges" THEN message.links[s] ELSE <<>>
Carried(messages, s) == [i \in 1 .. Len(messages) |-> LinksOf(messages[i], s)]

\* The links of messages, appended to those known.
Registered(messages) == [s \in Streams |-> known[s] \o InOrder(Carried(messages, s))]

\* add_new_edges, up to the first graph: the control flow graphs.  Those of
\* the state stream are updated later, but read by nobody before.
HandleEdges ==
  /\ At("handle")
  /\ \E n \in 1 .. Len(embedder.unhandled) :
       /\ InARow(embedder.unhandled, n)
       /\ known' = Registered(SubSeq(embedder.unhandled, 1, n))
       /\ embedder' = [embedder EXCEPT
            !.unhandled = SubSeq(@, n + 1, Len(@)), !.replacing = 1, !.at = "replace"]
  /\ UNCHANGED <<backend, queues, graphs, params, gui, repaint, spent>>

\* Mutant: add_new_edges returns after its first graph.
NoneLater(i) == {}

\* The model's graphs after the i-th.
Later(i) == {j \in i + 1 .. Len(AllGraphs) : AllGraphs[j] \in Graphs}

\* add_new_edges: one graph after the other, each once no frame shows it.
Replace ==
  LET i == embedder.replacing
      g == AllGraphs[i]
  IN  /\ At("replace") /\ reader # g
      /\ graphs' = [graphs EXCEPT ![g] = Replaced(known[StreamOf[g]])]
      /\ embedder' = IF Later(i) # {}
                     THEN [embedder EXCEPT !.replacing = Min(Later(i))]
                     ELSE [embedder EXCEPT !.replacing = 0, !.at = "handle", !.blocking = FALSE]
      /\ UNCHANGED <<backend, queues, known, params, gui, repaint, spent>>

\* Mutant: a wake-up does not reset `blocking`.
StaysAsleep(blocking) == blocking
Woken(blocking) == FALSE

HandleWakeUp ==
  /\ At("handle") /\ embedder.unhandled # <<>> /\ Head(embedder.unhandled) = WakeUp
  /\ embedder' = [embedder EXCEPT !.unhandled = Tail(@), !.blocking = Woken(@)]
  /\ UNCHANGED <<backend, queues, model, gui, repaint, spent>>

\* A larger thread pool; `blocking` stays as it is.
HandleQemuShutdown ==
  /\ At("handle") /\ embedder.unhandled # <<>> /\ Head(embedder.unhandled) = QemuShutdown
  /\ embedder' = [embedder EXCEPT !.unhandled = Tail(@)]
  /\ UNCHANGED <<backend, queues, model, gui, repaint, spent>>

\* Model::run_layout_iterations copies the parameters at once, so their lock
\* is not held at any place between two actions.
ParamsLocked(place) == FALSE

ReadParams ==
  /\ At("handle") /\ embedder.unhandled = <<>>
  /\ embedder' = [embedder EXCEPT !.params = params, !.at = "layout"]
  /\ UNCHANGED <<backend, queues, model, gui, repaint, spent>>

\* Graph2D::set_params
WithParams(g, p) == IF g.params = p THEN g ELSE [g EXCEPT !.params = p, !.work = Steps]

\* Graph2D::run_layout_iterations on a graph that is not empty, without noise.
LaidOut(g) == [g EXCEPT !.work = IF @ = 0 THEN 0 ELSE @ - 1]

Result(g, done) == [of |-> viewed, graph |-> g, converged |-> done]

\* The layout of a copy of the graph in view, which may fling a node to infinity
\* while it moves.  Only this thread changes graphs, so the copy may as well be
\* taken at the end.
Layout ==
  LET g == WithParams(graphs[viewed], embedder.params)
      Copy(copy) == embedder' = [embedder EXCEPT !.copy = copy, !.at = "write"]
  IN  /\ At("layout")
      /\ \/ g.links = <<>> /\ Copy(Result(g, TRUE)) /\ UNCHANGED spent
         \/ g.links # <<>> /\ g.params = Noisy /\ Copy(Result(g, FALSE)) /\ UNCHANGED spent
         \/ /\ g.links # <<>> /\ g.params # Noisy
            /\ Copy(Result(LaidOut(g), LaidOut(g).work = 0))
            /\ UNCHANGED spent
         \/ /\ ~Converged(g) /\ spent < MaxEvents
            /\ Copy(Result(Replaced(g.links), FALSE))
            /\ spent' = spent + 1
      /\ UNCHANGED <<backend, queues, model, gui, repaint>>

Write ==
  LET g == embedder.copy.of
  IN  /\ At("write") /\ reader # g
      /\ graphs' = [graphs EXCEPT ![g] = embedder.copy.graph]
      /\ embedder' = [embedder EXCEPT !.at = "finish"]
      /\ UNCHANGED <<backend, queues, known, params, gui, repaint, spent>>

\* Mutant: no frame is requested for a layout that came to rest.
OnlyWhileMoving(converged) == ~converged
Requested(converged) == TRUE

\* The parameters are locked once more, to store a statistic left out here.
Finish ==
  LET done == embedder.copy.converged
  IN  /\ At("finish")
      /\ repaint' = (repaint \/ Requested(done))
      /\ embedder' = [embedder EXCEPT
           !.blocking = @ \/ done, !.params = Default, !.copy = NoCopy, !.at = "poll"]
      /\ UNCHANGED <<backend, queues, model, gui, spent>>

-----------------------------------------------------------------------------
(* Gui::update                                                             *)
FrameAt(place) == window.at = place
UserActs == spent < MaxEvents
OnEdit == spent' = spent + 1

\* The RwLock of std, on Linux: readers queue behind a waiting writer.
WriterWaits(g) ==
  \/ At("replace") /\ AllGraphs[embedder.replacing] = g
  \/ At("write") /\ embedder.copy.of = g

\* gui_get_graph.  Frames that nobody asked for come with the user's input.
FrameStarts ==
  /\ FrameAt("idle") /\ (repaint \/ UserActs)
  /\ ~WriterWaits(window.view)
  /\ window' = [window EXCEPT !.at = "params"]
  /\ viewed' = window.view
  /\ reader' = window.view
  /\ repaint' = FALSE
  /\ drawn' = [of |-> window.view, graph |-> graphs[window.view]]
  /\ UNCHANGED <<backend, queues, embedder, model, spent>>

\* The sliders, under the lock of the parameters.
ShowParams ==
  /\ FrameAt("params") /\ ~ParamsLocked(embedder.at)
  /\ \/ UNCHANGED <<params, spent>> /\ window' = [window EXCEPT !.at = "view"]
     \/ /\ UserActs /\ OnEdit
        /\ \E p \in Params \ {params} : params' = p
        /\ window' = [window EXCEPT !.at = "view", !.changed = TRUE]
  /\ UNCHANGED <<backend, queues, embedder, known, graphs, viewed, reader, drawn, repaint>>

\* The box for the graph to view.
ShowView ==
  /\ FrameAt("view")
  /\ \/ /\ window' = [window EXCEPT !.at = IF window.changed THEN "send" ELSE "end"]
        /\ UNCHANGED <<viewed, spent>>
     \/ /\ UserActs /\ OnEdit
        /\ \E g \in Graphs \ {window.view} :
             /\ window' = [window EXCEPT !.at = "send", !.view = g]
             /\ viewed' = g
  /\ UNCHANGED <<backend, queues, embedder, model, reader, drawn, repaint>>

TellController ==
  /\ FrameAt("send")
  /\ inbox' = Append(inbox, WakeUp)
  /\ window' = [window EXCEPT !.at = "end", !.changed = FALSE]
  /\ UNCHANGED <<backend, wire, rx, embedder, model, viewed, reader, drawn, repaint, spent>>

\* The graph is drawn, and its lock released.
FrameEnds ==
  /\ FrameAt("end")
  /\ window' = [window EXCEPT !.at = "idle"]
  /\ reader' = None
  /\ UNCHANGED <<backend, queues, embedder, model, viewed, drawn, repaint, spent>>

-----------------------------------------------------------------------------
Handle == HandleEdges \/ HandleWakeUp \/ HandleQemuShutdown

Embedder ==
  Poll \/ Receive \/ Handle \/ Replace \/ ReadParams \/ Layout \/ Write \/ Finish

Frame == FrameStarts \/ ShowParams \/ ShowView \/ TellController \/ FrameEnds

Next ==
  \/ \E s \in Streams : Report(s)
  \/ onTimer \/ onEngineShutdown \/ run_qmp \/ run_ipc \/ run_controller
  \/ Embedder
  \/ Frame

\* Threads are scheduled, S2E's timer fires until the engine shuts down, and
\* a requested frame is drawn.  The user and the guest owe nothing.
Spec ==
  /\ Init /\ [][Next]_vars
  /\ WF_vars(onTimer \/ onEngineShutdown)
  /\ WF_vars(run_ipc) /\ WF_vars(run_controller)
  /\ WF_vars(Embedder)
  /\ WF_vars(repaint /\ FrameStarts)
  /\ WF_vars(ShowParams \/ ShowView \/ TellController \/ FrameEnds)

-----------------------------------------------------------------------------
Delivered == INSTANCE Delivery WITH
  shown <- [g \in Graphs |-> graphs[g].links]

(* Whatever is batched, queued and joined, and however layouts and new     *)
(* links take turns at the graphs: every graph is built from the links of  *)
(* its stream in the order S2E reported them, and no link is dropped,      *)
(* repeated or taken back by a layout that was running when it came.       *)
LinksInOrder == Delivered!InOrder

(* All links reported come to be shown, by every graph of their stream,    *)
(* also those reported while others are laid out or the engine stops.      *)
LinksArrive == Delivered!Arrive

(* The embedder only waits for a message while there is nothing to do: the *)
(* graph in view stands still with the parameters of the sliders, unless   *)
(* the word that something changed is still on its way.                    *)
WakeUpOnItsWay ==
  WakeUp \in ToSet(inbox) \cup ToSet(rx) \/ window.changed \/ FrameAt("send")

AsleepWhenDone ==
  At("receive") =>
    \/ rx # <<>> \/ WakeUpOnItsWay
    \/ Converged(graphs[viewed]) /\ graphs[viewed].params = params

(* The embedder's places, queues and locks make sense together, and it     *)
(* rests only when it has nothing to do.                                   *)
RestsWhenDone == TypeOK /\ AsleepWhenDone

(* A frame that started is drawn: it waits for the parameters while it     *)
(* holds the graph the embedder may be waiting for.                        *)
FrameIsDrawn == window.at # "idle" ~> window.at = "idle"

(* Once the guest reports nothing more and the user leaves a setting       *)
(* without noise alone, the window comes to show the graph in view with    *)
(* all its links, at rest under the parameters set.                        *)
Final ==
  /\ drawn.of = window.view
  /\ drawn.graph.links = reported[StreamOf[drawn.of]]
  /\ drawn.graph.params = params
  /\ Converged(drawn.graph)

FinalFrame == <>[](params # Noisy) => <>[]Final

(* The window never freezes, and in the end it shows the truth.            *)
WindowLives == FrameIsDrawn /\ FinalFrame
=============================================================================
