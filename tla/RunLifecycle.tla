---------------------------- MODULE RunLifecycle ----------------------------
(***************************************************************************)
(* `amba run`: the threads of the main process (run/control.rs,            *)
(* run/runners.rs, gui.rs), the QEMU process they start, and the channels  *)
(* and sockets between them, from start to exit.                           *)
(*                                                                         *)
(* With a window, the GUI has the main thread and the controller a thread  *)
(* nobody joins; without one (--no-gui) the controller has the main        *)
(* thread.  A panic in any thread runs the hook main.rs installs, which    *)
(* kills the tracked child and exits: it ends the process.  What the       *)
(* messages carry is left out here (see Embedding).                        *)
(***************************************************************************)
EXTENDS Integers, Sequences, FiniteSets

CONSTANTS MaxClicks,  \* bound: what the user does in the window
          MaxSends,   \* bound: NewEdges messages from the plugin
          Crashes     \* TRUE: QEMU may end without saying so

ASSUME ConstantsAssumption ==
  Crashes \in BOOLEAN /\ {MaxClicks, MaxSends} \subseteq Nat

VARIABLES process,   \* the main process: running, or how it ended
          gui,       \* the window; none with --no-gui
          ctl,       \* where the controller is
          rx,        \* the controller's channel
          pid,       \* qemu_pid is known to the controller
          threads,   \* where the other threads are
          machine,   \* the QEMU process
          dialled,   \* the plugin has connected to the IPC socket
          event,     \* SHUTDOWN is on its way to the QMP thread
          onWire,    \* NewEdges on their way to the IPC thread
          unread,    \* PrioritiseStates on their way to the plugin
          clicks, sends   \* bounded so far

lifeVars == <<process, gui, ctl, rx, pid, threads, machine, dialled, event, onWire, unread, clicks, sends>>

Threads == {"qemu", "ipc", "qmp", "embedder"}
Ended == {"ok", "err"}

Headless == gui = "none"

\* Four sends that unwrap, two reads that take no end of file, and a command
\* that has to start.
Panics == {"gui send", "qmp send", "qemu send", "embedder send", "qmp eof", "ipc reset",
           "qemu start"}

Message == {"GuiShutdown", "QemuShutdown", "TellQemuPid", "UpdateEdges",
            "EmbeddingParamsOrViewUpdated", "NewPriority"}

\* Mutant: QEMU is joined first, and a bad exit status returns early.
QemuFirst == <<"qemu", "qmp", "ipc", "embedder">>
Joining == <<"qmp", "qemu", "ipc", "embedder">>

LifeTypeOK ==
  /\ process \in {"running", "success", "failure"} \cup Panics
  /\ gui \in {"none", "open", "closed"}
  /\ ctl \in {"prepare", "bind", "accept", "loop", "shutdown", "scope", "ok", "err"}
             \cup {Joining[i] : i \in 1 .. 4}
  /\ rx \in Seq(Message)
  /\ threads \in [Threads -> {"none", "spawning", "telling", "waiting", "connecting",
                              "handshake", "reading"} \cup Ended]
  /\ machine \in {"none", "booting", "guest", "stopping", "exited", "reaped"}
  /\ {pid, dialled, event} \subseteq BOOLEAN
  /\ {onWire, unread, clicks, sends} \subseteq Nat

LifeInit ==
  /\ process = "running"
  /\ gui \in {"none", "open"}
  /\ ctl = "prepare"
  /\ rx = <<>>
  /\ pid = FALSE
  /\ threads = [t \in Threads |-> "none"]
  /\ machine = "none"
  /\ dialled = FALSE
  /\ event = FALSE
  /\ onWire = 0 /\ unread = 0
  /\ clicks = 0 /\ sends = 0

-----------------------------------------------------------------------------
\* The receiver lives until Controller::run returns, early or not.
Receiving == ctl \notin {"scope", "ok", "err"}
\* Mutant: shutdown_controller keeps the embedder's channel.
KeptWhileJoining == ctl \in {"scope", "ok", "err"}
Dropped == ctl \in {"scope", "ok", "err"} \cup {Joining[i] : i \in 1 .. 4}

\* QMP sends events only to a monitor that is past its capabilities.
AnnounceShutdown ==
  \/ threads["qmp"] \in {"handshake", "reading"} /\ event' = TRUE
  \/ threads["qmp"] # "reading" /\ UNCHANGED event

GoTo(t, place) == threads' = [threads EXCEPT ![t] = place]

QemuRuns == machine \in {"booting", "guest", "stopping"}

\* The panic hook kills the child that safe_wait tracks.
Panic(why) ==
  /\ process' = why
  /\ machine' = IF threads["qemu"] = "waiting" /\ QemuRuns THEN "exited" ELSE machine
  /\ UNCHANGED <<gui, ctl, rx, pid, threads, dialled, event, onWire, unread, clicks, sends>>

IgnoredIfGone(m) == rx' = IF Receiving THEN Append(rx, m) ELSE rx

-----------------------------------------------------------------------------
(* The window                                                              *)
Click(m) ==
  /\ gui = "open" /\ clicks < MaxClicks
  /\ \/ /\ Receiving
        /\ rx' = Append(rx, m)
        /\ clicks' = clicks + 1
        /\ UNCHANGED <<process, gui, ctl, pid, threads, machine, dialled, event, onWire, unread, sends>>
     \/ ~Receiving /\ Panic("gui send")

\* update, where a parameter or the view changed
ChangeView == Click("EmbeddingParamsOrViewUpdated")

\* update, after a double click on a node of the state graph; there is none
\* before the controller passed links on.
Prioritise == sends > onWire /\ threads["embedder"] # "none" /\ Click("NewPriority")

\* on_exit
Close ==
  /\ gui = "open"
  /\ gui' = "closed"
  /\ IgnoredIfGone("GuiShutdown")
  /\ UNCHANGED <<process, ctl, pid, threads, machine, dialled, event, onWire, unread, clicks, sends>>

\* run_native returns, and main with it.
MainReturns ==
  /\ \/ gui = "closed" /\ process' = "success"
     \/ Headless /\ ctl = "ok" /\ process' = "success"
     \/ Headless /\ ctl = "err" /\ process' = "failure"
  /\ UNCHANGED <<gui, ctl, rx, pid, threads, machine, dialled, event, onWire, unread, clicks, sends>>

-----------------------------------------------------------------------------
(* Controller::run                                                         *)
\* prepare_run, which fails on an uninitialised data directory or a session
\* directory that exists; then the QEMU thread is started.
Prepare ==
  /\ ctl = "prepare"
  /\ \/ ctl' = "err" /\ UNCHANGED threads
     \/ ctl' = "bind" /\ GoTo("qemu", "spawning")
  /\ UNCHANGED <<process, gui, rx, pid, machine, dialled, event, onWire, unread, clicks, sends>>

\* IpcInstance::new_gui binds, then blocks until the plugin connects.
Bind ==
  /\ ctl = "bind"
  /\ ctl' = "accept"
  /\ UNCHANGED <<process, gui, rx, pid, threads, machine, dialled, event, onWire, unread, clicks, sends>>

Accept ==
  /\ ctl = "accept" /\ dialled
  /\ ctl' = "loop"
  /\ threads' = [threads EXCEPT !["ipc"] = "reading", !["qmp"] = "connecting",
                                !["embedder"] = "reading"]
  /\ UNCHANGED <<process, gui, rx, pid, machine, dialled, event, onWire, unread, clicks, sends>>

TellEmbedder ==
  \/ /\ threads["embedder"] = "reading"
     /\ UNCHANGED <<process, machine, ctl, pid, unread>>
  \/ /\ threads["embedder"] # "reading"
     /\ process' = "embedder send"
     /\ machine' = IF threads["qemu"] = "waiting" /\ QemuRuns THEN "exited" ELSE machine
     /\ UNCHANGED <<ctl, pid, unread>>

\* One turn of run_controller.  A NewPriority that cannot be sent is logged.
Control ==
  /\ ctl = "loop" /\ rx # <<>>
  /\ rx' = Tail(rx)
  /\ CASE Head(rx) = "GuiShutdown" ->
            ctl' = "shutdown" /\ UNCHANGED <<process, machine, pid, unread>>
       [] Head(rx) = "QemuShutdown" ->
            IF Headless THEN ctl' = "shutdown" /\ UNCHANGED <<process, machine, pid, unread>>
            ELSE TellEmbedder
       [] Head(rx) = "TellQemuPid" ->
            pid' = TRUE /\ UNCHANGED <<process, machine, ctl, unread>>
       [] Head(rx) = "UpdateEdges" -> TellEmbedder
       [] Head(rx) = "EmbeddingParamsOrViewUpdated" ->
            UNCHANGED <<process, machine, ctl, pid, unread>>
       [] Head(rx) = "NewPriority" ->
            /\ unread' = IF QemuRuns THEN unread + 1 ELSE unread
            /\ UNCHANGED <<process, machine, ctl, pid>>
  /\ UNCHANGED <<gui, threads, dialled, event, onWire, clicks, sends>>

\* shutdown_controller up to the first join: SIGTERM if the pid is known,
\* drop the embedder's channel.  The connect to the IPC socket is refused:
\* its listener went out of scope in new_gui.
Shutdown ==
  /\ ctl = "shutdown"
  /\ ctl' = Joining[1]
  /\ IF pid /\ machine = "guest" THEN machine' = "stopping" /\ AnnounceShutdown
     ELSE UNCHANGED <<machine, event>>
  /\ UNCHANGED <<process, gui, rx, pid, threads, dialled, onWire, unread, clicks, sends>>

\* join()?: an error returns at once, dropping the receiver; the scope then
\* waits for the remaining threads.
Join ==
  \E i \in 1 .. 4 :
    /\ ctl = Joining[i]
    /\ threads[ctl] \in Ended
    /\ ctl' = IF threads[ctl] = "err" THEN "scope"
              ELSE IF i = 4 THEN "ok" ELSE Joining[i + 1]
    /\ UNCHANGED <<process, gui, rx, pid, threads, machine, dialled, event, onWire, unread, clicks, sends>>

LeaveScope ==
  /\ ctl = "scope"
  /\ \A t \in Threads : threads[t] \in Ended
  /\ ctl' = "err"
  /\ UNCHANGED <<process, gui, rx, pid, threads, machine, dialled, event, onWire, unread, clicks, sends>>

-----------------------------------------------------------------------------
(* The QEMU thread: run_qemu                                               *)
\* run_qemu_inner up to the fork.  It asserts that QEMU, its library and the
\* configuration exist and that the image has no comma in its path.  For a
\* debugger the child stops itself before its exec, and spawn waits for that.
Spawn ==
  /\ threads["qemu"] = "spawning"
  /\ \/ /\ GoTo("qemu", "telling")
        /\ machine' = "booting"
        /\ UNCHANGED <<process, gui, ctl, rx, pid, dialled, event, onWire, unread, clicks, sends>>
     \/ Panic("qemu start")

TellPid ==
  /\ threads["qemu"] = "telling"
  /\ \/ /\ Receiving
        /\ rx' = Append(rx, "TellQemuPid")
        /\ GoTo("qemu", "waiting")
        /\ UNCHANGED <<process, gui, ctl, pid, machine, dialled, event, onWire, unread, clicks, sends>>
     \/ ~Receiving /\ Panic("qemu send")

\* safe_wait returns, and the exit status decides.
Reap ==
  /\ threads["qemu"] = "waiting" /\ machine = "exited"
  /\ machine' = "reaped"
  /\ \E status \in Ended : GoTo("qemu", status)
  /\ UNCHANGED <<process, gui, ctl, rx, pid, dialled, event, onWire, unread, clicks, sends>>

-----------------------------------------------------------------------------
(* The IPC thread: run_ipc                                                 *)
ReceiveEdges ==
  /\ threads["ipc"] = "reading" /\ onWire > 0
  /\ onWire' = onWire - 1
  /\ IgnoredIfGone("UpdateEdges")
  /\ UNCHANGED <<process, gui, ctl, pid, threads, machine, dialled, event, unread, clicks, sends>>

\* The peer is gone.  Linux reports a reset, not an end of file, when it left
\* something unread.
IpcEnds ==
  /\ threads["ipc"] = "reading" /\ onWire = 0 /\ ~QemuRuns
  /\ \/ /\ unread = 0
        /\ GoTo("ipc", "ok")
        /\ UNCHANGED <<process, gui, ctl, rx, pid, machine, dialled, event, onWire, unread, clicks, sends>>
     \/ unread > 0 /\ Panic("ipc reset")

-----------------------------------------------------------------------------
(* The QMP thread: run_qmp                                                 *)
\* Ten attempts suffice while QEMU is there.
QmpConnects ==
  /\ threads["qmp"] = "connecting"
  /\ GoTo("qmp", IF QemuRuns THEN "handshake" ELSE "err")
  /\ UNCHANGED <<process, gui, ctl, rx, pid, machine, dialled, event, onWire, unread, clicks, sends>>

\* Greeting, capabilities, status.  An event that comes while an answer is
\* awaited is only logged.
QmpHandshake ==
  /\ threads["qmp"] = "handshake"
  /\ \/ GoTo("qmp", "reading") /\ UNCHANGED event
     \/ event /\ event' = FALSE /\ UNCHANGED threads
  /\ UNCHANGED <<process, gui, ctl, rx, pid, machine, dialled, onWire, unread, clicks, sends>>

QmpEvent ==
  /\ threads["qmp"] = "reading" /\ event
  /\ \/ /\ Receiving
        /\ event' = FALSE
        /\ rx' = Append(rx, "QemuShutdown")
        /\ GoTo("qmp", "ok")
        /\ UNCHANGED <<process, gui, ctl, pid, machine, dialled, onWire, unread, clicks, sends>>
     \/ ~Receiving /\ Panic("qmp send")

\* blocking_receive unwraps what the JSON parser says of an empty input.
QmpEof ==
  /\ threads["qmp"] \in {"handshake", "reading"} /\ ~event /\ ~QemuRuns
  /\ Panic("qmp eof")

-----------------------------------------------------------------------------
(* The embedder: it returns when its channel is dropped.                   *)
EmbedderEnds ==
  /\ threads["embedder"] = "reading" /\ Dropped
  /\ GoTo("embedder", "ok")
  /\ UNCHANGED <<process, gui, ctl, rx, pid, machine, dialled, event, onWire, unread, clicks, sends>>

-----------------------------------------------------------------------------
(* QEMU and the plugin in it                                               *)
\* rust_new_ipc unwraps: nobody listening yet is a crash.
PluginConnects ==
  /\ machine = "booting"
  /\ IF ctl = "accept" THEN machine' = "guest" /\ dialled' = TRUE
     ELSE machine' = "exited" /\ UNCHANGED dialled
  /\ UNCHANGED <<process, gui, ctl, rx, pid, threads, event, onWire, unread, clicks, sends>>

\* onTimer, and onEngineShutdown
SendEdges ==
  /\ machine \in {"guest", "stopping"} /\ sends < MaxSends
  /\ sends' = sends + 1
  /\ onWire' = onWire + 1
  /\ UNCHANGED <<process, gui, ctl, rx, pid, threads, machine, dialled, event, unread, clicks>>

\* ipcReceiver polls the socket.
PollPriority ==
  /\ machine \in {"guest", "stopping"} /\ unread > 0
  /\ unread' = unread - 1
  /\ UNCHANGED <<process, gui, ctl, rx, pid, threads, machine, dialled, event, onWire, clicks, sends>>

\* All states are explored.
GuestEnds ==
  /\ machine = "guest"
  /\ machine' = "stopping"
  /\ AnnounceShutdown
  /\ UNCHANGED <<process, gui, ctl, rx, pid, threads, dialled, onWire, unread, clicks, sends>>

QemuExits ==
  /\ machine = "stopping"
  /\ machine' = "exited"
  /\ UNCHANGED <<process, gui, ctl, rx, pid, threads, dialled, event, onWire, unread, clicks, sends>>

QemuCrashes ==
  /\ Crashes /\ machine \in {"booting", "guest"}
  /\ machine' = "exited"
  /\ UNCHANGED <<process, gui, ctl, rx, pid, threads, dialled, event, onWire, unread, clicks, sends>>

-----------------------------------------------------------------------------
Controller == Prepare \/ Bind \/ Accept \/ Control \/ Shutdown \/ Join \/ LeaveScope
QemuThread == Spawn \/ TellPid \/ Reap
IpcThread == ReceiveEdges \/ IpcEnds
QmpThread == QmpConnects \/ QmpHandshake \/ QmpEvent \/ QmpEof
User == ChangeView \/ Prioritise \/ Close
Process == Controller \/ QemuThread \/ IpcThread \/ QmpThread \/ EmbedderEnds \/ MainReturns
Qemu == PluginConnects \/ SendEdges \/ PollPriority \/ GuestEnds \/ QemuExits \/ QemuCrashes

\* QEMU outlives the main process.
LifeNext ==
  \/ process = "running" /\ (User \/ Process)
  \/ Qemu

\* Threads are scheduled and QEMU, once it stops, exits.  The user owes no
\* click, the guest may run forever, and a debugger may hold Spawn.
Fairness ==
  /\ WF_lifeVars(process = "running" /\ Controller)
  /\ WF_lifeVars(process = "running" /\ (TellPid \/ Reap))
  /\ WF_lifeVars(process = "running" /\ IpcThread)
  /\ WF_lifeVars(process = "running" /\ QmpThread)
  /\ WF_lifeVars(process = "running" /\ EmbedderEnds)
  /\ WF_lifeVars(process = "running" /\ MainReturns)
  /\ WF_lifeVars(PollPriority)
  /\ WF_lifeVars(QemuExits)

LifeSpec == LifeInit /\ [][LifeNext]_lifeVars /\ Fairness

-----------------------------------------------------------------------------
(* The unwrapped sends of the QMP thread and of the controller find their  *)
(* receivers: the embedder outlives what is forwarded to it, and           *)
(* shutdown_controller, which drops the controller's receiver when a join  *)
(* fails, joins the QMP thread before anything that may fail under it.     *)
SendsFindReceivers == process \notin {"qmp send", "embedder send"}

(* A run without a window that ends without a panic leaves no QEMU behind, *)
(* whichever thread failed first: the scope waits for all of them.         *)
HeadlessLeavesNoQemu ==
  Headless /\ process \in {"success", "failure"} => machine \in {"none", "reaped"}

(* However a run ends, nobody was left behind: no receiver of a message    *)
(* and, without a window, no QEMU.                                         *)
EndsInOrder == LifeTypeOK /\ SendsFindReceivers /\ HeadlessLeavesNoQemu

(* A run without a window ends by itself once QEMU is gone, provided the   *)
(* QMP thread got past its handshake: every thread is then joined.         *)
HeadlessEnds ==
  Headless /\ threads["qmp"] = "reading" /\ ~QemuRuns ~> process # "running"
=============================================================================
