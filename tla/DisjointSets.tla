---------------------------- MODULE DisjointSets ----------------------------
(***************************************************************************)
(* The union-find of data-structures/src/disjoint_sets.rs, with the two    *)
(* loops of its only caller, Graph2D::connected_components_count: merge    *)
(* the ends of every link, then ask every node for its canonical one.      *)
(* `find` goes one turn of its loop per step, since it is where a call     *)
(* could be slow, or never come back.                                      *)
(***************************************************************************)
EXTENDS Integers, FiniteSets, Sequences

CONSTANTS Nodes,    \* bound: nodes of the graph, 0 .. Nodes - 1
          MaxLinks, \* bound: links of the graph
          LIMIT     \* 2^63, larger than any node

ASSUME BoundsAssumption ==
  Nodes \in Nat \ {0} /\ MaxLinks \in Nat
ASSUME LimitAssumption == LIMIT \in Nat /\ LIMIT > Nodes

VARIABLES rooted,          \* TRUE: the links are those of a graph grown from node 0
          parent_or_size,  \* HashMap: below LIMIT a parent, above a size
          root_names,      \* HashMap: least element of a root's set
          links,           \* the links merged so far, the running call's too (history)
          call,            \* what the caller does: the call, its arguments to look up
          finding,         \* find's x and along_the_way, in the call that runs
          roots,           \* what find returned for the arguments so far
          canon            \* answers of canonicalize, for nodes 0, 1, ...

vars == <<rooted, parent_or_size, root_names, links, call, finding, roots, canon>>

Elements == 0 .. Nodes - 1

NoFind == [x |-> -1, along_the_way |-> <<>>]
NoCall == [op |-> "none", args |-> <<>>]

IsParent(y) == y < LIMIT

TypeOK ==
  /\ rooted \in BOOLEAN
  /\ DOMAIN parent_or_size \subseteq Elements
  /\ \A x \in DOMAIN parent_or_size :
       parent_or_size[x] \in Elements \cup (LIMIT + 1 .. LIMIT + Nodes)
  /\ DOMAIN root_names \subseteq Elements
  /\ \A x \in DOMAIN root_names : root_names[x] \in Elements
  /\ links \subseteq Elements \X Elements
  /\ call.op \in {"none", "merge", "canonicalize"} /\ call.args \in Seq(Elements)
  /\ finding.x \in {-1} \cup Elements /\ finding.along_the_way \in Seq(Elements)
  /\ roots \in Seq(Elements)
  /\ canon \in Seq(Elements)

Init ==
  /\ rooted \in BOOLEAN
  /\ parent_or_size = <<>>
  /\ root_names = <<>>
  /\ links = {}
  /\ call = NoCall
  /\ finding = NoFind
  /\ roots = <<>>
  /\ canon = <<>>

Put(f, k, v) == [x \in DOMAIN f \cup {k} |-> IF x = k THEN v ELSE f[x]]

\* entry(k).or_insert(v)
Entered(f, k, v) == IF k \in DOMAIN f THEN f ELSE Put(f, k, v)

-----------------------------------------------------------------------------
(* The caller.  Graph::edges lists the links by ascending first end, and   *)
(* in a graph grown from node 0 every other node was first the second end  *)
(* of a link from a node with a smaller id.                                *)
Reached == {0} \cup {e[2] : e \in links}

LinkAllowed(a, b) ==
  /\ <<a, b>> \notin links
  /\ \A e \in links : e[1] <= a
  /\ rooted => a \in Reached

CallMerge ==
  /\ call = NoCall
  /\ canon = <<>>
  /\ Cardinality(links) < MaxLinks
  /\ \E a, b \in Elements :
       /\ LinkAllowed(a, b)
       /\ links' = links \cup {<<a, b>>}
       /\ call' = [op |-> "merge", args |-> <<a, b>>]
  /\ UNCHANGED <<rooted, parent_or_size, root_names, finding, roots, canon>>

CallCanonicalize ==
  /\ call = NoCall
  /\ Len(canon) < Nodes
  /\ call' = [op |-> "canonicalize", args |-> <<Len(canon)>>]
  /\ UNCHANGED <<rooted, parent_or_size, root_names, links, finding, roots, canon>>

-----------------------------------------------------------------------------
(* find                                                                    *)
Wanted == call.args[Len(roots) + 1]

\* Before the loop: a new element is a root, and so may x be.
FindStart ==
  /\ call # NoCall /\ finding = NoFind /\ Len(roots) < Len(call.args)
  /\ IF Wanted \in DOMAIN parent_or_size /\ IsParent(parent_or_size[Wanted])
     THEN /\ finding' = [x |-> parent_or_size[Wanted], along_the_way |-> <<Wanted>>]
          /\ UNCHANGED <<parent_or_size, roots>>
     ELSE /\ parent_or_size' = Entered(parent_or_size, Wanted, LIMIT + 1)
          /\ roots' = Append(roots, Wanted)
          /\ UNCHANGED finding
  /\ UNCHANGED <<root_names, links, call, canon>>

\* A turn of the loop that does not return: x stays where it is.
FindClimb ==
  /\ finding # NoFind
  /\ IsParent(parent_or_size[finding.x])
  /\ Len(finding.along_the_way) <= Nodes   \* bound: the loop goes no further
  /\ finding' = [finding EXCEPT !.along_the_way = Append(@, finding.x)]
  /\ UNCHANGED <<parent_or_size, root_names, links, call, roots, canon>>

Compressed(parents, along, x) ==
  [e \in DOMAIN parents |-> IF \E i \in DOMAIN along : along[i] = e THEN x ELSE parents[e]]

\* x is a root: what was met on the way points at it from now on.
FindReturn ==
  /\ finding # NoFind
  /\ ~IsParent(parent_or_size[finding.x])
  /\ parent_or_size' = Compressed(parent_or_size, finding.along_the_way, finding.x)
  /\ roots' = Append(roots, finding.x)
  /\ finding' = NoFind
  /\ UNCHANGED <<root_names, links, call, canon>>

-----------------------------------------------------------------------------
(* merge and canonicalize, after their calls of find                       *)
Done == call # NoCall /\ finding = NoFind /\ Len(roots) = Len(call.args)

Return == call' = NoCall /\ roots' = <<>> /\ UNCHANGED <<links, finding>>

NameOf(x) == IF x \in DOMAIN root_names THEN root_names[x] ELSE x

Least(x, y) == IF x <= y THEN x ELSE y

\* Mutant: the root's own name is kept.
RootsName(a, b) == NameOf(a)

LeastName(a, b) == Least(NameOf(a), NameOf(b))

Size(x) == parent_or_size[x] - LIMIT

\* Mutant: the larger set goes below the smaller one.
Smaller(x, y) == IF Size(x) > Size(y) THEN y ELSE x

\* Of two sets of one size the first argument's root stays.
Larger(x, y) == IF Size(x) < Size(y) THEN y ELSE x

UnionSize(a, b) == LIMIT + Size(a) + Size(b)

ReturnMerge ==
  /\ Done /\ call.op = "merge"
  /\ LET a == Larger(roots[1], roots[2])
         b == IF a = roots[1] THEN roots[2] ELSE roots[1]
     IN  IF a = b
         THEN UNCHANGED <<parent_or_size, root_names>>
         ELSE /\ parent_or_size' =
                   Put(Put(parent_or_size, a, UnionSize(a, b)), b, a)
              /\ root_names' = Put(root_names, a, LeastName(a, b))
  /\ Return
  /\ UNCHANGED canon

ReturnCanonicalize ==
  /\ Done /\ call.op = "canonicalize"
  /\ canon' = Append(canon, NameOf(roots[1]))
  /\ Return
  /\ UNCHANGED <<parent_or_size, root_names>>

InCall ==
  /\ FindStart \/ FindClimb \/ FindReturn \/ ReturnMerge \/ ReturnCanonicalize
  /\ UNCHANGED rooted

Next == CallMerge \/ CallCanonicalize \/ InCall

\* One thread runs the calls from start to end.
Spec == Init /\ [][Next]_vars /\ WF_vars(InCall)

-----------------------------------------------------------------------------
\* The nodes joined to x by the links merged so far (not by the one whose
\* call still runs).
Merged == IF call.op = "merge" THEN links \ {<<call.args[1], call.args[2]>>} ELSE links

\* The elements one link away from those of S, and S itself.
Around(L, S) == S \cup {e \in Elements : \E s \in S : <<e, s>> \in L \/ <<s, e>> \in L}

Connected(L, x) ==
  LET grown[n \in 0 .. Nodes] == IF n = 0 THEN {x} ELSE Around(L, grown[n - 1])
  IN  grown[Nodes]

Component(x) == Connected(Merged, x)

(* Every answer of canonicalize is the least node that the links connect   *)
(* to the one asked for, in spite of path compression, union by size and a *)
(* root that need not be the least: so connected_components_count counts   *)
(* every component once, at its least node.                                *)
CanonicalIsLeast ==
  \A i \in DOMAIN canon :
    canon[i] \in Component(i - 1) /\ \A x \in Component(i - 1) : canon[i] <= x

(* A root's size is the size of its component, which union by size relies  *)
(* on.                                                                     *)
SizesCount ==
  \A x \in DOMAIN parent_or_size :
    ~IsParent(parent_or_size[x]) => Size(x) = Cardinality(Component(x))

(* Whatever path compression and union by size overwrite of the one map    *)
(* that holds parents and sizes, answers and sizes are right.              *)
PiecesSound == TypeOK /\ CanonicalIsLeast /\ SizesCount

(* In a graph whose links lead, in ascending order, from nodes met before, *)
(* beginning with node 0, every call of merge and canonicalize returns: no *)
(* element is ever two steps from its root when it is looked up.  Graphs   *)
(* of blocks are like that, and the state graph up to the first merge of   *)
(* states.  Without rooted an element may be two steps away, and find,     *)
(* whose loop never assigns x, then does not return.                       *)
CallsReturn == rooted /\ call # NoCall ~> call = NoCall
=============================================================================
