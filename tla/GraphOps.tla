------------------------------ MODULE GraphOps ------------------------------
(***************************************************************************)
(* The graph of data-structures/src/graph.rs: `nodes` is a map from node   *)
(* id to its neighbours and to `of`, the chain of original nodes it stands *)
(* for; `merges` maps the id of a node that was merged away to the id that *)
(* took its place.  A graph is a record [nodes, merges] of two functions.  *)
(* The `id` field of a node always equals its key and is not repeated.     *)
(***************************************************************************)
EXTENDS Integers, Sequences, FiniteSets, SequencesExt

EmptyGraph == [nodes |-> <<>>, merges |-> <<>>]

NodeType(Ids) == [from : SUBSET Ids, to : SUBSET Ids, of : Seq(Ids)]

Live(g) == DOMAIN g.nodes

Put(f, k, v) == [x \in DOMAIN f \cup {k} |-> IF x = k THEN v ELSE f[x]]

Without(f, K) == Restrict(f, DOMAIN f \ K)

-----------------------------------------------------------------------------
(* translate: follow merges to the end, then point every key met on the    *)
(* way at the end.                                                         *)

Root(m, key) ==
  LET end[k \in Nat] == IF k \in DOMAIN m THEN end[m[k]] ELSE k
  IN  end[key]

Visited(m, key) ==
  LET path[k \in Nat] == IF k \in DOMAIN m THEN {k} \cup path[m[k]] ELSE {}
  IN  path[key]

\* merges after translate has been called on every key of K.
Shortened(m, K) ==
  LET met == UNION {Visited(m, k) : k \in K}
  IN  [k \in DOMAIN m |-> IF k \in met THEN Root(m, k) ELSE m[k]]

Translated(g, K) == [g EXCEPT !.merges = Shortened(@, K)]

-----------------------------------------------------------------------------
(* Rotation of the chain of a node that is one closed loop.                *)

IndexIn(of, x) == SelectInSeq(of, LAMBDA y : y = x)

RotateToMin(of) ==
  LET i == IndexIn(of, Min(ToSet(of)))
  IN  SubSeq(of, i, Len(of)) \o SubSeq(of, 1, i - 1)

RotateToEndWith(of, x) ==
  LET i == IndexIn(of, x)
  IN  SubSeq(of, i + 1, Len(of)) \o SubSeq(of, 1, i)

IsLoop(g, n) ==
  LET r == Root(g.merges, n)
  IN  r \in Live(g) /\ g.nodes[r].to = {r} /\ g.nodes[r].from = {r}

RotateOf(g, n) ==
  IF n \in Live(g) THEN [g EXCEPT !.nodes[n].of = RotateToMin(@)] ELSE g

RotateIfLoop(g, n) == IF IsLoop(g, n) THEN RotateOf(g, n) ELSE g

-----------------------------------------------------------------------------
(* update: insert the edge <<from, to>>, and its ends where they are new.  *)

Entry(g, n) ==
  IF n \in Live(g) THEN g.nodes[n] ELSE [from |-> {}, to |-> {}, of |-> <<n>>]

WithTo(g, n, t) ==
  [g EXCEPT !.nodes = Put(@, n, [Entry(g, n) EXCEPT !.to = @ \cup {t}])]

WithFrom(g, n, f) ==
  [g EXCEPT !.nodes = Put(@, n, [Entry(g, n) EXCEPT !.from = @ \cup {f}])]

Inserted(g, from, to) ==
  RotateIfLoop(RotateIfLoop(WithFrom(WithTo(g, from, to), to, from), from), to)

-----------------------------------------------------------------------------
(* update_from_after_split and update_to_after_split                       *)

Renamed(S, old, new) == IF old \in S THEN (S \ {old}) \cup {new} ELSE S

RenameFrom(nodes, old, new, at) ==
  [n \in DOMAIN nodes |->
     IF n \in at THEN [nodes[n] EXCEPT !.from = Renamed(@, old, new)] ELSE nodes[n]]

RenameTo(nodes, old, new, at) ==
  [n \in DOMAIN nodes |->
     IF n \in at THEN [nodes[n] EXCEPT !.to = Renamed(@, old, new)] ELSE nodes[n]]

-----------------------------------------------------------------------------
(* split_after and split_before.  Both return the graph and the ids of the *)
(* two parts (twice the id of the node when there was nothing to cut).     *)

Name(of) == Min(ToSet(of))

\* Mutant: the parts of a cut chain stay merged away.
NoneRevived(merges, l, r) == merges
Revived(merges, l, r) == Without(merges, {l, r})

Cut(g, node, old, front, back) ==
  LET l == Name(front)
      r == Name(back)
      first == [from |-> node.from, to |-> {r}, of |-> front]
      second == [from |-> {l}, to |-> node.to, of |-> back]
      nodes == Put(Put(Without(g.nodes, {old}), r, second), l, first)
  IN  [g |-> [nodes |-> RenameTo(RenameFrom(nodes, old, r, node.to), old, l, node.from),
              merges |-> Revived(g.merges, l, r)],
       l |-> l, r |-> r]

Uncut(g, n) == [g |-> g, l |-> n, r |-> n]

SplitAfter(g, after, mergedIn) ==
  LET id == Root(g.merges, mergedIn)
      node == g.nodes[id]
      of == IF IsLoop(g, mergedIn) THEN RotateToEndWith(node.of, after) ELSE node.of
      i == IndexIn(of, after)
  IN  IF i = Len(of)
      THEN Uncut([g EXCEPT !.nodes[id].of = of], id)
      ELSE Cut(g, node, mergedIn, SubSeq(of, 1, i), SubSeq(of, i + 1, Len(of)))

SplitBefore(g, before, mergedIn) ==
  LET id == Root(g.merges, mergedIn)
      node == g.nodes[id]
      i == IndexIn(node.of, before)
  IN  IF i = 1
      THEN Uncut(g, id)
      ELSE Cut(g, node, mergedIn, SubSeq(node.of, 1, i - 1),
               SubSeq(node.of, i, Len(node.of)))

-----------------------------------------------------------------------------
(* revert_and_update: insert <<from, to>> into a compressed graph, cutting *)
(* the chains in which `from` is not last or `to` is not first.            *)

Holders(g, x) ==
  IF x \in Live(g) THEN {x} ELSE {n \in Live(g) : Contains(g.nodes[n].of, x)}

InSame(g, n, x) == Contains(g.nodes[n].of, x)

RevertSelfLoop(g, n, x) ==
  IF n = x /\ Len(g.nodes[n].of) = 1
  THEN Inserted(g, x, x)
  ELSE LET after  == SplitAfter(g, x, n)
           before == SplitBefore(after.g, x, after.l)
       IN  Inserted(before.g, before.r, before.r)

\* `from` and `to` are in the chain of n, and `to` does not follow `from`.
RevertInSame(g, n, from, to) ==
  LET after == SplitAfter(g, from, n)
      closes == InSame(after.g, after.l, to)
      before == SplitBefore(after.g, to, IF closes THEN after.l ELSE after.r)
  IN  Inserted(before.g, IF closes THEN before.r ELSE after.l, before.r)

RevertAcross(g, from, to) ==
  LET after  == IF Holders(g, from) = {} THEN Uncut(g, from)
                ELSE SplitAfter(g, from, Min(Holders(g, from)))
      before == IF Holders(after.g, to) = {} THEN Uncut(after.g, to)
                ELSE SplitBefore(after.g, to, Min(Holders(after.g, to)))
  IN  Inserted(before.g, after.l, before.r)

Follows(of, x, y) == IndexIn(of, y) = IndexIn(of, x) + 1

RevertAndUpdate(g, from, to) ==
  LET held == Holders(g, from)
      n == Min(held)
  IN  CASE held = {} -> RevertAcross(g, from, to)
        [] held # {} /\ from = to -> RevertSelfLoop(g, n, from)
        [] held # {} /\ from # to /\ InSame(g, n, to) ->
             IF Follows(g.nodes[n].of, from, to) THEN g ELSE RevertInSame(g, n, from, to)
        [] held # {} /\ from # to /\ ~InSame(g, n, to) -> RevertAcross(g, from, to)

-----------------------------------------------------------------------------
(* merge_nodes, are_mergable_link, are_loop                                *)

Roots(g, S) == {Root(g.merges, x) : x \in S}

\* Mutant: the target's other ways in are not looked at.
WayInUnchecked(g, l, r) ==
  /\ Cardinality(g.nodes[l].to) = 1
  /\ Roots(g, g.nodes[l].to) = {r}

AreMergableLink(g, l, r) ==
  /\ Cardinality(g.nodes[l].to) = 1
  /\ Cardinality(g.nodes[r].from) = 1
  /\ Roots(g, g.nodes[l].to) = {r}
  /\ Roots(g, g.nodes[r].from) = {l}

AreLoop(g, l, r) ==
  l = r \/ (r \in Roots(g, g.nodes[l].from) /\ l \in Roots(g, g.nodes[r].from))

MergeNodes(g, l, r) ==
  LET old == Max({l, r})
      new == Min({l, r})
      of == g.nodes[l].of \o g.nodes[r].of
      self == IF AreLoop(g, l, r) THEN {new} ELSE {}
      node == [from |-> ((g.nodes[l].from \cup g.nodes[r].from) \ ToSet(of)) \cup self,
               to   |-> ((g.nodes[l].to \cup g.nodes[r].to) \ ToSet(of)) \cup self,
               of   |-> of]
      merged == RotateIfLoop([nodes  |-> Put(Without(g.nodes, {old}), new, node),
                              merges |-> Put(Without(g.merges, {new}), old, new)], new)
  IN  IF l = r THEN g
      ELSE [merged EXCEPT !.nodes =
              RenameTo(RenameFrom(@, old, new, node.to), old, new, node.from)]

-----------------------------------------------------------------------------
(* compress_with_hint: the links looked at first; and the links a merge    *)
(* puts back into the queue, from where compress_with_hint_2 always takes  *)
(* the least pair.                                                         *)

EdgesAt(g, n) ==
  ({n} \X g.nodes[n].to) \cup (g.nodes[n].from \X {n})

\* Mutant: only the new link is looked at again.
OnlyTheLink(g, from, to) == {<<Root(g.merges, from), Root(g.merges, to)>>}

Candidates(g, from, to) ==
  LET f == Root(g.merges, from)
      t == Root(g.merges, to)
  IN  {<<f, t>>} \cup EdgesAt(g, f) \cup EdgesAt(g, t)

\* Mutant: links from a node to itself are queued as well.
WithSelfLinks(g, n) == EdgesAt(g, n)

Neighbours(g, n) == {e \in EdgesAt(g, n) : e[1] # e[2]}

PopFirst(queue) ==
  CHOOSE e \in queue :
    \A o \in queue : e[1] < o[1] \/ (e[1] = o[1] /\ e[2] <= o[2])

-----------------------------------------------------------------------------
(* compress: one pass over the whole graph, and apply_merges.              *)

LeastFirst(d, e) == d[1] < e[1] \/ (d[1] = e[1] /\ d[2] < e[2])

LastOf(E) == CHOOSE e \in E : \A o \in E : o = e \/ LeastFirst(o, e)

ToMerge(g) ==
  {e \in UNION {{l} \X Roots(g, g.nodes[l].to) : l \in Live(g)} :
     /\ Cardinality(g.nodes[e[1]].to) = 1
     /\ Cardinality(g.nodes[e[2]].from) = 1}

MergedAlong(g, e) ==
  MergeNodes(Translated(g, {e[1], e[2]}), Root(g.merges, e[1]), Root(g.merges, e[2]))

\* The last link is merged after all others.
Compress(g) ==
  MapThenFoldSet(LAMBDA e, h : MergedAlong(h, e), g, LAMBDA e : e, LastOf, ToMerge(g))

ApplyMerges(g) ==
  [nodes  |-> [n \in Live(g) |-> [g.nodes[n] EXCEPT !.from = Roots(g, @), !.to = Roots(g, @)]],
   merges |-> <<>>]

=============================================================================
