--------------------------- MODULE ControlFlowGraph ---------------------------
(***************************************************************************)
(* ControlFlowGraph of model/src/control_flow.rs: the graph of all links   *)
(* reported so far and, beside it, its compression, kept up to date one    *)
(* link at a time by cutting chains (revert_and_update) and merging again  *)
(* around the new link (compress_with_hint).                               *)
(*                                                                         *)
(* A node's id is the order in which its metadata was first seen, so the   *)
(* metadata themselves are left out: `seen` is how many there are.  Of the *)
(* uncompressed graph only the links are kept: its nodes are never merged. *)
(***************************************************************************)
EXTENDS GraphOps

CONSTANTS MaxNodes,     \* bound: nodes a run may report
          MaxLinks,     \* bound: links a run may report
          AnyMaxNodes,  \* bounds: the same for links of any kind
          AnyMaxLinks,
          Kinds         \* values of `rooted` to start with

ASSUME BoundsAssumption ==
  /\ MaxNodes \in Nat \ {0} /\ MaxLinks \in Nat
  /\ AnyMaxNodes \in 1 .. MaxNodes /\ AnyMaxLinks \in Nat
  /\ Kinds \subseteq BOOLEAN

VARIABLES rooted,      \* TRUE: links as of basic blocks, FALSE: any links
          seen,        \* metadata.len()
          graph,       \* the links of the uncompressed graph
          compressed,  \* compressed_graph
          queued,      \* compress_with_hint_2's queue, empty between updates
          inserting    \* the link being inserted, as a set of at most one

vars == <<rooted, seen, graph, compressed, queued, inserting>>

Ids == 0 .. (IF rooted THEN MaxNodes ELSE AnyMaxNodes) - 1
LinkBound == IF rooted THEN MaxLinks ELSE AnyMaxLinks

Idle == queued = {}

TypeOK ==
  /\ rooted \in BOOLEAN
  /\ seen \in 0 .. MaxNodes
  /\ graph \subseteq Ids \X Ids
  /\ Live(compressed) \subseteq Ids
  /\ \A n \in Live(compressed) : compressed.nodes[n] \in NodeType(Ids)
  /\ DOMAIN compressed.merges \subseteq Ids
  /\ \A n \in DOMAIN compressed.merges : compressed.merges[n] \in Ids
  /\ queued \subseteq Ids \X Ids
  /\ inserting \in {{}} \cup {{e} : e \in graph}

Init ==
  /\ rooted \in Kinds
  /\ seen = 0
  /\ graph = {}
  /\ compressed = EmptyGraph
  /\ queued = {}
  /\ inserting = {}

\* update_metadata: the id of metadata seen before, or the next free one.
IdsFor(count) == 0 .. count

\* The plugin's basic block links leave the block executed last, so only the
\* first of them has a source not seen before: the zero block, which is no
\* program block and never reached.  A link of the state graph may leave a
\* node that is new, after two states were merged.
SourcesFor(count) == IF rooted /\ count > 0 THEN 0 .. count - 1 ELSE IdsFor(count)
TargetsFor(count) == IF rooted THEN 1 .. count ELSE IdsFor(count)

AtLeast(count, id) == IF id = count THEN count + 1 ELSE count

\* update, up to the first look at the queue.  A link that is already there
\* changes nothing.
Update ==
  /\ Idle
  /\ Cardinality(graph) < LinkBound
  /\ \E from \in SourcesFor(seen) : \E to \in TargetsFor(AtLeast(seen, from)) :
       /\ {from, to} \subseteq Ids
       /\ <<from, to>> \notin graph
       /\ seen' = AtLeast(AtLeast(seen, from), to)
       /\ graph' = graph \cup {<<from, to>>}
       /\ inserting' = {<<from, to>>}
       /\ LET reverted == RevertAndUpdate(compressed, from, to)
          IN  /\ compressed' = Translated(reverted, {from, to})
              /\ queued' = Candidates(reverted, from, to)
  /\ UNCHANGED rooted

\* One turn of the loop of compress_with_hint_2.
CompressStep ==
  /\ queued # {}
  /\ LET first == PopFirst(queued)
         g == Translated(compressed, {first[1], first[2]})
         l == Root(g.merges, first[1])
         r == Root(g.merges, first[2])
         merged == MergeNodes(g, l, r)
         this == IF l < r THEN l ELSE r
         rest == queued \ {first}
     IN  IF AreMergableLink(g, l, r)
         THEN /\ compressed' = merged
              /\ queued' = rest \cup Neighbours(merged, this)
         ELSE /\ compressed' = g
              /\ queued' = rest
  /\ inserting' = IF queued' = {} THEN {} ELSE inserting
  /\ UNCHANGED <<rooted, seen, graph>>

Next == Update \/ CompressStep

\* The loop runs to its end inside one call.
Spec == Init /\ [][Next]_vars /\ WF_vars(CompressStep)

-----------------------------------------------------------------------------
(* The test helper `verify` of graph.rs, on the compressed graph and after *)
(* every turn of the loop: `from` and `to` mirror each other and name live *)
(* nodes only.  tarjan and the sequential renaming of edges index `nodes`  *)
(* with them, without translate.                                           *)
NeighboursMirrored ==
  \A n \in Live(compressed) :
    /\ \A t \in compressed.nodes[n].to :
         t \in Live(compressed) /\ n \in compressed.nodes[t].from
    /\ \A f \in compressed.nodes[n].from :
         f \in Live(compressed) /\ n \in compressed.nodes[f].to

(* Every node reported is in the chain of exactly one compressed node, and *)
(* that node is named after the least member: nothing is lost or shown     *)
(* twice by any sequence of cuts and merges.                               *)
PlacesOf(x) ==
  UNION {LET of == compressed.nodes[n].of IN {n} \X {i \in DOMAIN of : of[i] = x} :
           n \in Live(compressed)}

ChainsPartition ==
  /\ \A x \in 0 .. seen - 1 : Cardinality(PlacesOf(x)) = 1
  /\ \A n \in Live(compressed) :
       LET of == compressed.nodes[n].of
       IN  /\ \E i \in DOMAIN of : of[i] = n
           /\ \A i \in DOMAIN of : n <= of[i]

(* A node is live or merged away, never both, so translate always ends at  *)
(* a live node and the unwraps after it cannot panic, although a cut       *)
(* leaves merges behind that no longer say where a node went.              *)
MergesNameTheDead ==
  DOMAIN compressed.merges = (0 .. seen - 1) \ Live(compressed)

(* What every operation of graph.rs relies on, since it indexes nodes and  *)
(* unwraps look-ups without asking: neighbours that mirror each other,     *)
(* chains that partition the nodes, and merges of exactly the dead.        *)
WellFormed == TypeOK /\ NeighboursMirrored /\ ChainsPartition /\ MergesNameTheDead

Full == INSTANCE FullCompression

\* Between two updates a reader sees compressed_graph; during one, the lock
\* on the graph hides it.  Nothing is claimed of links of other kinds.
Abstract == INSTANCE CompressedView WITH
  edges <- IF rooted THEN graph ELSE {},
  view <- IF ~rooted THEN [locked |-> FALSE, nodes |-> <<>>]
          ELSE IF Idle THEN [locked |-> FALSE, nodes |-> compressed.nodes]
          ELSE [locked |-> TRUE, nodes |-> <<>>]

(* Keeping the compression of a graph of blocks up to date link by link    *)
(* gives exactly what compressing everything at once would, whatever the   *)
(* order of the links: the chains, in their order, and every neighbour.    *)
IncrementalIsFull == Abstract!Spec

\* The uncompressed graph, with its nodes.
Uncompressed ==
  [nodes  |-> [n \in 0 .. seen - 1 |->
                 [from |-> Full!Predecessors(graph, n), to |-> Full!Successors(graph, n),
                  of |-> <<n>>]],
   merges |-> <<>>]

(* compare_behaviour_compression, the test of graph.rs: the graph kept up  *)
(* to date and the graph compressed in one pass are the same, node by      *)
(* node, after any links.  They are not (see the run any_links).           *)
CompressionsAgree ==
  Idle => ApplyMerges(compressed).nodes = ApplyMerges(Compress(Uncompressed)).nodes

(* The same for every order of links between blocks, where they are.       *)
FastEqualsSlow == rooted => CompressionsAgree

\* Every contracted link makes one node of two (blocks have no closed loop).
Settled == graph \ inserting

ShownCount ==
  IF Idle THEN Cardinality(Live(compressed))
  ELSE Cardinality(Full!Ends(Settled)) - Cardinality(Full!Links(Settled))

(* A link between blocks never leaves fewer compressed nodes than before,  *)
(* although it may merge some: the window keeps the position of the        *)
(* selected node from one frame to the next, and get_node_text and the     *)
(* panning of widget.rs index the nodes of a newer graph with it,          *)
(* unchecked.                                                              *)
ShownNeverShrinks == [][rooted => ShownCount' >= ShownCount]_vars

(* The loop of compress_with_hint_2 ends: a merge queues more links, but   *)
(* there are only so many merges.                                          *)
LoopEnds == (queued # {}) ~> (queued = {})
=============================================================================
