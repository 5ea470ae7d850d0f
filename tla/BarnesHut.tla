------------------------------ MODULE BarnesHut ------------------------------
(***************************************************************************)
(* The tree the layout's repulsion is read from, BarnesHutRTree of         *)
(* graphui/src/embed.rs.  build_in halves the points and a flat buffer     *)
(* alike, in parallel while there are many points; force_on walks it by    *)
(* halving the buffer again.  Nothing says where a child is but its share. *)
(*                                                                         *)
(* Points are numbered as the partitions leave them, and a slot of the     *)
(* buffer holds a leaf with its point, a split with its mass, or nothing.  *)
(***************************************************************************)
EXTENDS Integers, FiniteSets

CONSTANTS MaxPoints,             \* bound: points
          FORK_JOIN_THRESHOLD

ASSUME PointsAssumption == MaxPoints \in Nat \ {0} /\ FORK_JOIN_THRESHOLD \in Nat \ {0}

VARIABLES count,   \* node_positions.len()
          tree,    \* what the slots written hold
          tasks,   \* calls of build_in that have not begun
          joins    \* calls that wait for both halves

boxVars == <<count, tree, tasks, joins>>

\* A call's share: its slots are at .. at + size - 1, its points first ..
\* first + len - 1.
Share(at, size, first, len) == [at |-> at, size |-> size, first |-> first, len |-> len]

NextPowerOfTwo(n) ==
  LET power[k \in 0 .. n] ==
        IF k = 0 THEN 1 ELSE LET p == power[k - 1] IN IF p >= n THEN p ELSE 2 * p
  IN  power[n]

\* Mutant: the buffer has a slot for every node and no more.
ExactBuffer(n) == 2 * n - 1

BufferLength(n) == 2 * NextPowerOfTwo(n)

Left(s) == Share(s.at + 1, (s.size - 1) \div 2, s.first, s.len \div 2)
Right(s) == Share(s.at + 1 + (s.size - 1) \div 2, s.size - 1 - (s.size - 1) \div 2,
                  s.first + s.len \div 2, s.len - s.len \div 2)

Leaf(point) == [kind |-> "Leaf", mass |-> 1, point |-> point]
Split(mass) == [kind |-> "Split", mass |-> mass, point |-> 0]

Whole == Share(0, BufferLength(count), 1, count)

BoxesInit ==
  /\ count \in 1 .. MaxPoints
  /\ tree = [i \in {} |-> Leaf(0)]
  /\ tasks = {Whole}
  /\ joins = {}

With(f, i, v) == [j \in DOMAIN f \cup {i} |-> IF j = i THEN v ELSE f[j]]

\* The slices handed to a call are there: the asserts of build_in.
HasRoom(s) == s.len >= 1 /\ s.size >= 1

\* One point.
BuildLeaf ==
  \E s \in tasks :
    /\ HasRoom(s) /\ s.len = 1
    /\ tree' = With(tree, s.at, Leaf(s.first))
    /\ tasks' = tasks \ {s}
    /\ UNCHANGED <<count, joins>>

\* The median is found and both halves begin: at once, or the left one first.
Halve ==
  \E s \in tasks :
    /\ HasRoom(s) /\ s.len > 1
    /\ joins' = joins \cup {s}
    /\ tasks' = (tasks \ {s}) \cup
                (IF s.len > FORK_JOIN_THRESHOLD THEN {Left(s), Right(s)} ELSE {Left(s)})
    /\ UNCHANGED <<count, tree>>

Built(s) == s.at \in DOMAIN tree

RightAfterLeft ==
  \E s \in joins :
    /\ s.len <= FORK_JOIN_THRESHOLD
    /\ Built(Left(s)) /\ ~Built(Right(s)) /\ Right(s) \notin tasks \cup joins
    /\ tasks' = tasks \cup {Right(s)}
    /\ UNCHANGED <<count, tree, joins>>

Combine ==
  \E s \in joins :
    /\ Built(Left(s)) /\ Built(Right(s))
    /\ tree' = With(tree, s.at, Split(s.len))
    /\ joins' = joins \ {s}
    /\ UNCHANGED <<count, tasks>>

BoxesNext == BuildLeaf \/ Halve \/ RightAfterLeft \/ Combine

-----------------------------------------------------------------------------
(* The buffer of twice the next power of two has a slot wherever build_in  *)
(* puts a node, although every level rounds its halves down: its asserts   *)
(* hold, and no slot lies outside.                                         *)
RoomForAll ==
  \A s \in tasks : HasRoom(s) /\ s.at + s.size <= BufferLength(count)

(* Calls that run at the same time write to parts of the buffer, and move  *)
(* points, that no other one of them has.                                  *)
SharesDisjoint ==
  \A s, t \in tasks \cup {j \in joins : Built(Left(j)) /\ Built(Right(j))} :
    s # t => \/ s.at + s.size <= t.at /\ s.first + s.len <= t.first
             \/ t.at + t.size <= s.at /\ t.first + t.len <= s.first

\* The calls of force_on from a share on when it looks at every leaf, by
\* depth: a tree of `count` points is no deeper.
Walk(s) ==
  LET level[d \in 0 .. count] ==
        IF d = 0 THEN {s}
        ELSE LET split == {sh \in level[d - 1] : tree[sh.at].kind = "Split"}
             IN  {Left(sh) : sh \in split} \cup {Right(sh) : sh \in split}
  IN  UNION {level[d] : d \in 0 .. count}

\* The points it then finds, and whether it may take the mass of any split
\* instead.
Below(s) ==
  {tree[leaf.at].point : leaf \in {sh \in Walk(s) : tree[sh.at].kind = "Leaf"}}

MassesAgree(s) == \A sh \in Walk(s) : tree[sh.at].mass = Cardinality(Below(sh))

(* Once it is built, force_on finds every point, and the mass it takes     *)
(* instead of some of them is their number: approximated or not, every     *)
(* node is pushed by every other one.                                      *)
EveryPointPulls ==
  tasks = {} /\ joins = {} => Below(Whole) = 1 .. count /\ MassesAgree(Whole)

(* Halving points and buffer alike, in parallel, neither runs out of slots *)
(* nor gives one to two threads, and leaves a tree that has all points.    *)
TreeSound == RoomForAll /\ SharesDisjoint /\ EveryPointPulls
=============================================================================
