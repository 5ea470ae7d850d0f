---------------------------- MODULE CompressedView ----------------------------
(***************************************************************************)
(* What a reader of a control flow graph is promised: links are added one  *)
(* at a time, under a lock, and what is shown whenever the lock is free is *)
(* the compression of all links added so far.  Here the whole graph is     *)
(* compressed at once; ControlFlowGraph keeps it up to date link by link.  *)
(***************************************************************************)
EXTENDS FullCompression

CONSTANT MaxNodes   \* nodes are numbered from 0 to MaxNodes - 1

VARIABLES edges,   \* the observed links
          view     \* the lock, and the compressed graph: node id -> [from, to, of]

vars == <<edges, view>>

Locked == [locked |-> TRUE, nodes |-> <<>>]
Showing(nodes) == [locked |-> FALSE, nodes |-> nodes]

Init == edges = {} /\ view = Showing(<<>>)

Observe(f, t) ==
  /\ ~view.locked
  /\ <<f, t>> \notin edges
  /\ edges' = edges \cup {<<f, t>>}
  /\ view' = Locked

Show ==
  /\ view.locked
  /\ view' = Showing(view'.nodes) /\ IsCompressed(view'.nodes, edges)
  /\ UNCHANGED edges

Next == Show \/ \E f, t \in 0 .. MaxNodes - 1 : Observe(f, t)

Spec == Init /\ [][Next]_vars
===============================================================================
