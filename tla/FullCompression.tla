--------------------------- MODULE FullCompression ---------------------------
(***************************************************************************)
(* What the compression of a graph of blocks is, given the links of the    *)
(* graph and no order of insertion: every link that is its source's only   *)
(* way out and its target's only way in is contracted, and nothing else.   *)
(* Contracted links never close a loop, as every block is reached from the *)
(* first one.                                                              *)
(***************************************************************************)
EXTENDS Integers, Sequences, FiniteSets

Ends(E) == {e[1] : e \in E} \cup {e[2] : e \in E}
Successors(E, x) == {e[2] : e \in {d \in E : d[1] = x}}
Predecessors(E, x) == {e[1] : e \in {d \in E : d[2] = x}}

\* The links that are contracted.
Links(E) ==
  {e \in E : Successors(E, e[1]) = {e[2]} /\ Predecessors(E, e[2]) = {e[1]}}

Members(node) == {node.of[i] : i \in 1 .. Len(node.of)}
Steps(node) == {<<node.of[i], node.of[i + 1]>> : i \in 1 .. Len(node.of) - 1}

\* Every end of a link is in one chain, and once; the chain is named after
\* its least member.
InChains(nodes, E) ==
  /\ UNION {Members(nodes[n]) : n \in DOMAIN nodes} = Ends(E)
  /\ \A m, n \in DOMAIN nodes : Members(nodes[m]) \cap Members(nodes[n]) # {} => m = n
  /\ \A n \in DOMAIN nodes :
       /\ n \in Members(nodes[n]) /\ \A x \in Members(nodes[n]) : n <= x
       /\ \A i, j \in 1 .. Len(nodes[n].of) : nodes[n].of[i] = nodes[n].of[j] => i = j

\* Chains follow the contracted links, all of them.
Contracted(nodes, E) ==
  UNION {Steps(nodes[n]) : n \in DOMAIN nodes} = Links(E)

\* The links that are left lead from the last of a chain to the first of one.
Linked(nodes, E) ==
  LET first(n) == nodes[n].of[1]
      last(n) == nodes[n].of[Len(nodes[n].of)]
  IN  \A n \in DOMAIN nodes :
        /\ nodes[n].from = {m \in DOMAIN nodes : <<last(m), first(n)>> \in E}
        /\ nodes[n].to = {m \in DOMAIN nodes : <<last(n), first(m)>> \in E}

IsCompressed(nodes, E) == InChains(nodes, E) /\ Contracted(nodes, E) /\ Linked(nodes, E)
==============================================================================
