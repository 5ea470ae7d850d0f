------------------------------- MODULE Delivery -------------------------------
(***************************************************************************)
(* What the window promises about the links S2E reports: every graph it    *)
(* can show is built from the links of its stream in the order they were   *)
(* reported, never loses one again, and in the end has them all.           *)
(***************************************************************************)
EXTENDS Integers, Sequences

CONSTANTS Graphs,    \* graphs the window can show
          Streams,   \* kinds of links
          StreamOf,  \* the stream each graph is built from
          Links      \* links that can be reported

VARIABLES reported,  \* links reported so far, per stream
          shown      \* links each graph is built from

vars == <<reported, shown>>

Init ==
  /\ reported = [s \in Streams |-> <<>>]
  /\ shown = [g \in Graphs |-> <<>>]

Report(s) ==
  /\ \E l \in Links : reported' = [reported EXCEPT ![s] = Append(@, l)]
  /\ UNCHANGED shown

Show(g) ==
  /\ \E n \in Len(shown[g]) + 1 .. Len(reported[StreamOf[g]]) :
       shown' = [shown EXCEPT ![g] = SubSeq(reported[StreamOf[g]], 1, n)]
  /\ UNCHANGED reported

Next == (\E s \in Streams : Report(s)) \/ (\E g \in Graphs : Show(g))

InOrder == Init /\ [][Next]_vars

Arrive == \A g \in Graphs : WF_vars(Show(g))
=============================================================================
