--------------------------------- MODULE Scc ---------------------------------
(***************************************************************************)
(* Strongly connected components as data-structures/src/graph.rs finds     *)
(* them: tarjan, which the window colours nodes by, kosaraju, which its    *)
(* tests compare tarjan with, and connect_dag, which makes a graph of what *)
(* either returns.  A graph is `nodes` of GraphOps: node id -> [from, to,  *)
(* of].  Neighbours are visited by ascending id; the code visits them in   *)
(* the order of a SmallU64Set, which no result depends on.                 *)
(***************************************************************************)
EXTENDS GraphOps

Ascending(S) ==
  [i \in 1 .. Cardinality(S) |-> CHOOSE x \in S : Cardinality({y \in S : y < x}) = i - 1]

Edges(nodes) == UNION {{n} \X nodes[n].to : n \in DOMAIN nodes}

-----------------------------------------------------------------------------
(* tarjan.  Its state: `meta`, index and lowest_index_child of the nodes   *)
(* found (on_stack says whether one is on the stack), and `out`.           *)

Searching == [stack |-> <<>>, meta |-> <<>>, index |-> 0, out |-> <<>>]

Found(s, v) ==
  [s EXCEPT !.meta = Put(@, v, [index |-> s.index, low |-> s.index]),
            !.index = @ + 1,
            !.stack = Append(@, v)]

Lowered(s, v, low) == [s EXCEPT !.meta[v].low = Min({@, low})]

\* Mutant: nodes on the stack are never marked as such.
Unmarked(s, w) == FALSE

on_stack(s, w) == Contains(s.stack, w)

\* The node that stands for the members of a component.
Joined(nodes, members) ==
  [from |-> UNION {nodes[w].from : w \in members},
   to   |-> UNION {nodes[w].to : w \in members},
   of   |-> Ascending(members),
   id   |-> Min(members)]

\* What is above v on the stack, and v, is a component.
Completed(nodes, s, v) ==
  LET i == IndexIn(s.stack, v)
      members == ToSet(SubSeq(s.stack, i, Len(s.stack)))
  IN  IF s.meta[v].index # s.meta[v].low THEN s
      ELSE [s EXCEPT !.stack = SubSeq(@, 1, i - 1),
                     !.out = Put(@, v, Joined(nodes, members))]

RECURSIVE StrongConnect(_, _, _)
StrongConnect(nodes, s, v) ==
  LET Visit(t, w) ==
        IF w \notin DOMAIN t.meta
        THEN LET u == StrongConnect(nodes, t, w) IN Lowered(u, v, u.meta[w].low)
        ELSE IF on_stack(t, w) THEN Lowered(t, v, t.meta[w].index) ELSE t
  IN  Completed(nodes, FoldLeft(Visit, Found(s, v), Ascending(nodes[v].to)), v)

Tarjan(nodes) ==
  FoldLeft(LAMBDA s, v : IF v \in DOMAIN s.meta THEN s ELSE StrongConnect(nodes, s, v),
           Searching, Ascending(DOMAIN nodes)).out

\* The ids of the components, each as often as it has members, numbered from
\* zero: what the window takes for the group of the node at that position.
InverseTarjan(nodes) ==
  LET out == Tarjan(nodes)
      ids == FoldLeft(LAMBDA list, root : list \o [i \in DOMAIN out[root].of |-> out[root].id],
                      <<>>, Ascending(DOMAIN out))
  IN  [i \in 0 .. Len(ids) - 1 |-> ids[i + 1]]

-----------------------------------------------------------------------------
(* kosaraju                                                                *)

RECURSIVE Visited2(_, _, _)
Visited2(nodes, s, u) ==
  IF u \in s.visited THEN s
  ELSE LET below == FoldLeft(LAMBDA t, v : Visited2(nodes, t, v),
                             [s EXCEPT !.visited = @ \cup {u}], Ascending(nodes[u].to))
       IN  [below EXCEPT !.l = Append(@, u)]

\* Nodes in the order in which the search leaves them.
Left(nodes) ==
  FoldLeft(LAMBDA s, u : Visited2(nodes, s, u), [visited |-> {}, l |-> <<>>],
           Ascending(DOMAIN nodes)).l

Entered(nodes, acc, u, root) ==
  IF root \notin DOMAIN acc THEN Put(acc, root, [id |-> u] @@ nodes[u])
  ELSE [acc EXCEPT ![root].of = @ \o nodes[u].of,
                   ![root].to = @ \cup nodes[u].to,
                   ![root].from = @ \cup nodes[u].from,
                   ![root].id = Min({@, u})]

\* The code walks acc[root].from, which holds u's and those met before.
RECURSIVE Assigned(_, _, _, _)
Assigned(nodes, s, u, root) ==
  IF u \in s.assigned THEN s
  ELSE LET acc == Entered(nodes, s.acc, u, root)
       IN  FoldLeft(LAMBDA t, v : Assigned(nodes, t, v, root),
                    [acc |-> acc, assigned |-> s.assigned \cup {u}],
                    Ascending(acc[root].from))

NewestLeftFirst(l) == Reverse(l)

Kosaraju(nodes) ==
  LET acc == FoldLeft(LAMBDA s, u : Assigned(nodes, s, u, u), [acc |-> <<>>, assigned |-> {}],
                      NewestLeftFirst(Left(nodes))).acc
  IN  [root \in DOMAIN acc |-> [acc[root] EXCEPT !.of = SortSeq(@, <)]]

-----------------------------------------------------------------------------
(* connect_dag, on the components of either algorithm.                     *)

ConnectDag(components) ==
  LET nodes == {components[root] : root \in DOMAIN components}
      new_id(x) == (CHOOSE n \in nodes : Contains(n.of, x)).id
      others(S, id) == {new_id(x) : x \in S} \ {id}
  IN  [id \in {n.id : n \in nodes} |->
         LET n == CHOOSE m \in nodes : m.id = id
         IN  [from |-> others(n.from, id), to |-> others(n.to, id), of |-> n.of]]

\* The worker thread that takes graphs of many edges returns the same.
ToComponentsTarjan(nodes) == ConnectDag(Tarjan(nodes))

ToComponentsKosaraju(nodes) == ConnectDag(Kosaraju(nodes))

=============================================================================
