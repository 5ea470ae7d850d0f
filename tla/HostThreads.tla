----------------------------- MODULE HostThreads -----------------------------
(***************************************************************************)
(* The two threads of amba run that talk to QEMU's process: the one that   *)
(* waits for it as a child, next to the handlers of signals and panics,    *)
(* and the one that speaks QMP with it.  They share no state, so a         *)
(* behaviour is of one `part` and leaves the other as it is.               *)
(***************************************************************************)
EXTENDS QmpClient, ChildReaper

VARIABLE part

all == <<part, qmpVars, reaperVars>>

AllInit == part \in {"qmp", "children"} /\ QmpInit /\ ReaperInit

Qmp == part = "qmp" /\ QmpNext /\ UNCHANGED <<part, reaperVars>>
Children == part = "children" /\ ReaperNext /\ UNCHANGED <<part, qmpVars>>

\* The fairness of each part.
AllSpec ==
  /\ AllInit /\ [][Qmp \/ Children]_all
  /\ WF_all(part = "qmp" /\ Client /\ UNCHANGED <<part, reaperVars>>)
  /\ WF_all(part = "children" /\ exit = 0 /\ Waiter /\ UNCHANGED <<part, qmpVars>>)
  /\ \A h \in Handlers :
       WF_all(part = "children" /\ exit = 0 /\ Handle(h) /\ UNCHANGED <<part, qmpVars>>)
=============================================================================
