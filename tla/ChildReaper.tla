----------------------------- MODULE ChildReaper -----------------------------
(***************************************************************************)
(* Cmd of amba/src/cmd.rs: running commands one after the other, polling   *)
(* the child under a lock (safe_wait), and the handler that kills the      *)
(* tracked child and ends the process, on SIGINT (the thread of the ctrlc  *)
(* crate) and on a panic of any thread (the hook main.rs sets).            *)
(*                                                                         *)
(* There is one Cmd, passed on as &mut, so one thread runs commands; here  *)
(* it is called "waiter".  Every lock is a try_lock, and the handler never *)
(* gives the lock back.                                                    *)
(***************************************************************************)
EXTENDS Naturals, FiniteSets

CONSTANTS Commands,  \* bound: commands that one run of amba executes
          Panicking  \* threads that may panic by themselves

Nobody == "nobody"

ThreadsApart == {"waiter", "sigint", Nobody} \cap Panicking = {}

ASSUME ThreadsAssumption == ThreadsApart

VARIABLES child,    \* what became of the child of each command
          wait,     \* where the waiter is, and for which command
          holder,   \* who has CHILDREN locked
          present,  \* CHILDREN is not None
          tracked,  \* the commands in CHILDREN
          handler,  \* where each thread is in ctrlc_handler
          took,     \* what each thread took from CHILDREN in ctrlc_handler
          exit      \* exit code of the process, 0 while it runs

reaperVars == <<child, wait, holder, present, tracked, handler, took, exit>>

Handlers == {"waiter", "sigint"} \cup Panicking

\* A command that waits knows its child's id.
At(place, c) == [at |-> place, cmd |-> c]
Idle == [at |-> "idle"]

ReaperTypeOK ==
  /\ child \in [Commands -> {"none", "running", "dead", "reaped"}]
  /\ wait \in {Idle} \cup [at : {"spawned", "inserting", "sleeping", "polling"}, cmd : Commands]
  /\ holder \in {Nobody} \cup Handlers
  /\ present \in BOOLEAN /\ tracked \subseteq Commands
  /\ handler \in [Handlers -> {"none", "called", "killing", "giving up"}]
  /\ took \in [Handlers -> SUBSET Commands]
  /\ exit \in {0, 1, 2}

ReaperInit ==
  /\ child = [c \in Commands |-> "none"]
  /\ wait = Idle
  /\ holder = Nobody
  /\ present = FALSE
  /\ tracked = {}
  /\ handler = [h \in Handlers |-> "none"]
  /\ took = [h \in Handlers |-> {}]
  /\ exit = 0

-----------------------------------------------------------------------------
(* The waiter: command_spawn_wait_with_pid and safe_wait                   *)
Working == handler["waiter"] = "none"

SpawnChild(c) ==
  /\ Working /\ wait = Idle /\ child[c] = "none"
  /\ child' = [child EXCEPT ![c] = "running"]
  /\ wait' = At("spawned", c)
  /\ UNCHANGED <<holder, present, tracked, handler, took, exit>>

\* CHILDREN.try_lock().unwrap(): the panic runs the hook in this thread.
TryLock(from, to) ==
  /\ Working /\ wait # Idle /\ wait.at = from
  /\ \/ holder = Nobody /\ holder' = "waiter" /\ wait' = At(to, wait.cmd) /\ UNCHANGED handler
     \/ holder # Nobody /\ handler' = [handler EXCEPT !["waiter"] = "called"]
        /\ UNCHANGED <<holder, wait>>
  /\ UNCHANGED <<child, present, tracked, took, exit>>

LockToInsert == TryLock("spawned", "inserting")
LockToPoll == TryLock("sleeping", "polling")

Insert ==
  /\ Working /\ wait # Idle /\ wait.at = "inserting"
  /\ present' = TRUE
  /\ tracked' = tracked \cup {wait.cmd}
  /\ holder' = Nobody
  /\ wait' = At("sleeping", wait.cmd)
  /\ UNCHANGED <<child, handler, took, exit>>

\* try_wait under the lock; the entry must be there.
Poll ==
  /\ Working /\ wait # Idle /\ wait.at = "polling"
  /\ \/ /\ wait.cmd \in tracked
        /\ IF child[wait.cmd] = "dead"
           THEN /\ child' = [child EXCEPT ![wait.cmd] = "reaped"]
                /\ tracked' = tracked \ {wait.cmd}
                /\ wait' = Idle
           ELSE wait' = At("sleeping", wait.cmd) /\ UNCHANGED <<child, tracked>>
        /\ holder' = Nobody
        /\ UNCHANGED handler
     \/ /\ wait.cmd \notin tracked
        /\ handler' = [handler EXCEPT !["waiter"] = "called"]
        /\ UNCHANGED <<child, tracked, wait, holder>>
  /\ UNCHANGED <<present, took, exit>>

-----------------------------------------------------------------------------
(* ctrlc_handler                                                           *)
\* A SIGINT, or a panic.  The ctrlc thread serves one signal at a time.
Call(h) ==
  /\ h # "waiter" /\ handler[h] = "none"
  /\ handler' = [handler EXCEPT ![h] = "called"]
  /\ UNCHANGED <<child, wait, holder, present, tracked, took, exit>>

\* Mutant: the handler returns when the lock is taken.
ForgetsTheSignal(h) ==
  /\ handler[h] = "called" /\ holder # Nobody
  /\ handler' = [handler EXCEPT ![h] = "none"]
  /\ UNCHANGED <<child, wait, holder, present, tracked, took, exit>>

GiveUp(h) ==
  /\ handler[h] = "called" /\ holder # Nobody
  /\ handler' = [handler EXCEPT ![h] = "giving up"]
  /\ UNCHANGED <<child, wait, holder, present, tracked, took, exit>>

\* Mutant: the guard is dropped instead of leaked.
Unlocks(h) == Nobody
Leaks(h) == h

\* The lock and the map.
Take(h) ==
  /\ handler[h] = "called" /\ holder = Nobody
  /\ handler' = [handler EXCEPT ![h] = "killing"]
  /\ holder' = Leaks(h)
  /\ took' = [took EXCEPT ![h] = tracked]
  /\ present' = FALSE /\ tracked' = {}
  /\ UNCHANGED <<child, wait, exit>>

Kill(h) ==
  /\ handler[h] = "killing"
  /\ \E c \in took[h] :
       /\ child[c] = "running"
       /\ child' = [child EXCEPT ![c] = "dead"]
  /\ UNCHANGED <<wait, holder, present, tracked, handler, took, exit>>

Exit(h) ==
  /\ \/ handler[h] = "killing" /\ (\A c \in took[h] : child[c] # "running") /\ exit' = 1
     \/ handler[h] = "giving up" /\ exit' = 2
  /\ UNCHANGED <<child, wait, holder, present, tracked, handler, took>>

-----------------------------------------------------------------------------
\* External: the child ends by itself.
ChildEnds(c) ==
  /\ child[c] = "running"
  /\ child' = [child EXCEPT ![c] = "dead"]
  /\ UNCHANGED <<wait, holder, present, tracked, handler, took, exit>>

Waiter == (\E c \in Commands : SpawnChild(c)) \/ LockToInsert \/ LockToPoll \/ Insert \/ Poll

Handle(h) == GiveUp(h) \/ Take(h) \/ Kill(h) \/ Exit(h)

ReaperNext ==
  /\ exit = 0
  /\ \/ Waiter
     \/ \E h \in Handlers : Call(h) \/ Handle(h)
     \/ \E c \in Commands : ChildEnds(c)

\* Threads are scheduled.  Signals, panics and the ends of children owe nothing.
ReaperSpec ==
  /\ ReaperInit /\ [][ReaperNext]_reaperVars
  /\ WF_reaperVars(exit = 0 /\ Waiter)
  /\ \A h \in Handlers : WF_reaperVars(exit = 0 /\ Handle(h))

-----------------------------------------------------------------------------
(* Exit code 1 means that the child that safe_wait tracked was killed or   *)
(* had ended, whoever else panicked or was polling in the meantime.        *)
ExitOneKills ==
  exit = 1 => \A c \in Commands : child[c] = "running" => wait = At("spawned", c)

(* A poll finds its child: the arm for a vacant entry cannot be reached,   *)
(* and the map is there, because the handler that takes it never unlocks.  *)
PollFindsChild ==
  wait # Idle /\ wait.at = "polling" => present /\ wait.cmd \in tracked

(* The lock of CHILDREN keeps the handler of a signal or panic and the     *)
(* poll of safe_wait apart, although the one takes the map away and the    *)
(* other unwraps what it finds there.                                      *)
ReapedOrKilled == ReaperTypeOK /\ ExitOneKills /\ PollFindsChild

(* SIGINT ends the process, also while the lock is taken.                 *)
SigintEnds == handler["sigint"] # "none" ~> exit # 0

(* Subprocesses spawned by Cmd::command_* are killed on parent SIGINT, as  *)
(* the doc comment of Cmd says.                                            *)
SigintKillsChildren == exit # 0 => \A c \in Commands : child[c] # "running"
=============================================================================
