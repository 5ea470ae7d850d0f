----------------------------- MODULE ShownGraphs -----------------------------
(***************************************************************************)
(* What the window gets of a control flow graph between two updates:       *)
(* get_raw_... and get_compressed_metadata_and_selfedge_and_sequential_    *)
(* edges of control_flow.rs, whose nodes are numbered by their position,   *)
(* and the component each position is coloured by (add_new_edges of        *)
(* model.rs).  No state of its own: it reads ControlFlowGraph's.           *)
(***************************************************************************)
EXTENDS ControlFlowGraph, Scc

\* Mutant: edges keep the ids of the compressed graph.
IdKept(nodes, id) == id

\* node_id_renamings: how many ids in the graph are smaller.
Position(nodes, id) == Cardinality({n \in DOMAIN nodes : n < id})

\* Per position, the metadata its text is made of and whether it has a self
\* edge; and the edges by position.
Shown(nodes) ==
  LET ids == Ascending(DOMAIN nodes)
  IN  [texts |-> [i \in 0 .. Len(ids) - 1 |-> nodes[ids[i + 1]].of],
       loops |-> {i \in 0 .. Len(ids) - 1 : ids[i + 1] \in nodes[ids[i + 1]].to},
       edges |-> {<<Position(nodes, e[1]), Position(nodes, e[2])>> : e \in Edges(nodes)}]

\* initial_node_positions: how far the search from position 0 had gone when
\* it found a position; Far, usize::MAX, where it never came.
Far == -1

Pushed(stack, found) == stack \o Ascending(found)

RECURSIVE Deepened(_, _, _)
Deepened(edges, depth, stack) ==
  IF stack = <<>> THEN depth
  ELSE LET i == stack[Len(stack)]
           found == {e \in DOMAIN depth : <<i, e>> \in edges /\ depth[e] = Far}
       IN  Deepened(edges, [e \in found |-> depth[i] + 1] @@ depth,
                    Pushed(SubSeq(stack, 1, Len(stack) - 1), found))

NodeDepth(shown) ==
  Deepened(shown.edges, [e \in DOMAIN shown.texts |-> IF e = 0 THEN 0 ELSE Far], <<0>>)

Raw == Uncompressed.nodes

\* The colour of the node at a position, in the mode for components.
Colours(nodes) == InverseTarjan(nodes)

-----------------------------------------------------------------------------
(* The reference: two nodes are in a component when each reaches the other.*)
Reaching(E, S) ==
  FoldSet(LAMBDA k, R : R \cup (Full!Predecessors(R, k) \X Full!Successors(R, k)),
          E \cup {<<x, x>> : x \in S}, S)

Together(E, S) == LET R == Reaching(E, S) IN {p \in R : <<p[2], p[1]>> \in R}

\* The graph of components, as connect_dag names and links them.
Components(nodes) ==
  LET together == Together(Edges(nodes), DOMAIN nodes)
      members(x) == {y \in DOMAIN nodes : <<x, y>> \in together}
      least == {x \in DOMAIN nodes : \A y \in members(x) : x <= y}
      outside == {d \in Edges(nodes) : d \notin together}
  IN  [id \in least |->
         [from |-> {x \in least : \E d \in outside : <<x, d[1]>> \in together /\ <<id, d[2]>> \in together},
          to   |-> {x \in least : \E d \in outside : <<id, d[1]>> \in together /\ <<x, d[2]>> \in together},
          of   |-> Ascending(members(id))]]

(* tarjan, on the graph of all links and on the compressed one, finds      *)
(* exactly the classes of nodes that reach each other, and joins them to   *)
(* the graph the tests compare (to_strongly_connected_components_tarjan).  *)
TarjanFindsComponents ==
  Idle => /\ ToComponentsTarjan(Raw) = Components(Raw)
          /\ ToComponentsTarjan(compressed.nodes) = Components(compressed.nodes)

(* kosaraju finds the same: compare_behaviour_scc, the test of graph.rs,   *)
(* for every graph up to the bound.                                        *)
KosarajuFindsComponents == Idle => ToComponentsKosaraju(Raw) = Components(Raw)

(* Either algorithm finds the strongly connected components, in graphs     *)
(* with links, loops and cycles of any kind.                               *)
ComponentsFound == TarjanFindsComponents /\ KosarajuFindsComponents

(* The compressed graph of blocks is handed to Graph2D by position without *)
(* losing a link: it is in one piece, as seeded_replace_self_with asserts, *)
(* and all edges are between positions that exist, which initial_node_     *)
(* positions and draw_graph index unchecked.                               *)
ShownInOnePiece ==
  LET s == Shown(compressed.nodes)
      both == s.edges \cup {<<e[2], e[1]>> : e \in s.edges}
  IN  rooted /\ Idle /\ seen > 0 =>
        /\ Full!Ends(s.edges) \subseteq DOMAIN s.texts
        /\ Reaching(both, DOMAIN s.texts) = (DOMAIN s.texts) \X (DOMAIN s.texts)

(* Every node of a graph of blocks is found from position 0, so that it is *)
(* laid out near its depth.  One that is not would start at a distance of  *)
(* usize::MAX from the others, as nodes of merged states may.              *)
EveryNodeNear ==
  rooted /\ Idle /\ seen > 0 =>
    \A nodes \in {Raw, compressed.nodes} :
      LET s == Shown(nodes)
          depth == NodeDepth(s)
      IN  \A e \in DOMAIN depth : depth[e] \in 0 .. Cardinality(DOMAIN depth) - 1

(* What the window is given of a graph of blocks is in one piece, and every *)
(* node of it starts near the others.                                      *)
ShownWhole == ShownInOnePiece /\ EveryNodeNear

(* Two nodes of the graph of all links have the same colour exactly when   *)
(* they are in the same component.                                         *)
ColoursAreComponents ==
  Idle => LET colour == Colours(Raw)
          IN  \A x, y \in DOMAIN Raw :
                colour[x] = colour[y] <=> <<x, y>> \in Together(graph, DOMAIN Raw)
=============================================================================
