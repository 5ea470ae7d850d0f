------------------------ MODULE DataStructuresProofs ------------------------
(***************************************************************************)
(* Proofs about the data structures below the graphs of the window.        *)
(***************************************************************************)
EXTENDS DataStructures, StreamLemmas, FiniteSetTheorems, TLAPS

-----------------------------------------------------------------------------
(* Repeating a step.                                                       *)

CanRepeat(S, x, N, step) ==
  \E f \in [0 .. N -> S] :
    \A n \in 0 .. N : f[n] = IF n = 0 THEN x ELSE step[f[n - 1]]

LEMMA Iterates ==
  ASSUME NEW S, NEW x \in S, NEW N \in Nat, NEW step \in [S -> S]
  PROVE  CanRepeat(S, x, N, step)
<1> DEFINE steps == [n \in 1 .. N |-> step]
<1>1. steps \in [1 .. N -> [S -> S]] /\ \A n \in 0 .. N : n # 0 => steps[n] = step
  OBVIOUS
<1>2. PICK f \in [0 .. N -> S] :
        \A n \in 0 .. N : f[n] = IF n = 0 THEN x ELSE steps[n][f[n - 1]]
  <2> HIDE DEF steps
  <2>1. CanStep(S, x, N, steps)
    BY <1>1, StepsExist
  <2> QED
    BY <2>1 DEF CanStep
<1>3. \A n \in 0 .. N : f[n] = IF n = 0 THEN x ELSE step[f[n - 1]]
  BY <1>1, <1>2
<1> QED
  BY <1>3 DEF CanRepeat

-----------------------------------------------------------------------------
(* The union-find, for any number of nodes and any links.                  *)

(* What a node is connected to by links: the least set with the node that  *)
(* no link leads out of.                                                   *)
Closed(L, T) == Around(L, T) \subseteq T

LeastClosed(L, x, C) ==
  /\ x \in C /\ C \subseteq Elements /\ Closed(L, C)
  /\ \A T \in SUBSET Elements : x \in T /\ Closed(L, T) => C \subseteq T

LEMMA NodesAreFinite == IsFiniteSet(Elements) /\ Cardinality(Elements) = Nodes
<1>1. 0 \in Int /\ Nodes - 1 \in Int /\ ~ (0 > Nodes - 1) /\ Nodes - 1 - 0 + 1 = Nodes
  BY BoundsAssumption
<1> QED
  BY <1>1, FS_Interval DEF Elements

LEMMA AroundType ==
  ASSUME NEW L, NEW S \in SUBSET Elements
  PROVE  Around(L, S) \in SUBSET Elements /\ S \subseteq Around(L, S)
  BY DEF Around

LEMMA AroundGrows ==
  ASSUME NEW L, NEW S, NEW T, S \subseteq T
  PROVE  Around(L, S) \subseteq Around(L, T)
  BY DEF Around

\* How the recursion of Connected goes on.
Grown(L, x, f, n) == IF n = 0 THEN {x} ELSE Around(L, f[n - 1])

LEMMA GrownExists ==
  ASSUME NEW L, NEW x \in Elements
  PROVE  \E f \in [0 .. Nodes -> SUBSET Elements] :
           /\ \A n \in 0 .. Nodes : f[n] = Grown(L, x, f, n)
           /\ Connected(L, x) = f[Nodes]
<1> DEFINE D == 0 .. Nodes
           S == SUBSET Elements
           F == CHOOSE f : f = [n \in D |-> Grown(L, x, f, n)]
           around == [T \in S |-> Around(L, T)]
<1>1. Connected(L, x) = F[Nodes]
  BY DEF Connected, Grown
<1>2. Nodes \in Nat /\ D \subseteq Nat /\ \A n \in D : n # 0 => n - 1 \in D
  BY BoundsAssumption
<1>3. PICK f \in [D -> S] : \A n \in D : f[n] = Grown(L, x, f, n)
  <2>1. around \in [S -> S] /\ {x} \in S
    BY AroundType
  <2>2. PICK f \in [D -> S] : \A n \in D : f[n] = IF n = 0 THEN {x} ELSE around[f[n - 1]]
    <3> HIDE DEF S, around
    <3>1. CanRepeat(S, {x}, Nodes, around)
      BY <1>2, <2>1, Iterates
    <3> QED
      BY <3>1 DEF CanRepeat
  <2>3. ASSUME NEW n \in D PROVE f[n] = Grown(L, x, f, n)
    <3>1. n # 0 => around[f[n - 1]] = Around(L, f[n - 1])
      BY <1>2, <2>2
    <3>2. f[n] = IF n = 0 THEN {x} ELSE around[f[n - 1]]
      BY <2>2
    <3> HIDE DEF around
    <3> QED
      BY <3>1, <3>2 DEF Grown
  <2> QED
    BY <2>3
<1>4. F = [n \in D |-> Grown(L, x, F, n)]
  <2>1. f = [n \in D |-> Grown(L, x, f, n)]
    <3>1. \A n \in D : f[n] = Grown(L, x, f, n)
      BY <1>3
    <3> QED
      BY <3>1
  <2> QED
    BY <2>1, Zenon
<1> HIDE DEF F
<1>5. \A n \in D : F[n] = Grown(L, x, F, n)
  BY <1>4
<1>6. \A n \in D : F[n] \in S
  <2> DEFINE T == {n \in Nat : n \in D => F[n] \in S}
  <2>1. 0 \in T
    <3>1. 0 \in D => F[0] = {x}
      BY <1>5 DEF Grown
    <3> QED
      BY <3>1
  <2>2. ASSUME NEW n \in Nat, n \in T PROVE n + 1 \in T
    <3>1. n + 1 \in D => n \in D /\ F[n + 1] = Around(L, F[n])
      <4>1. n + 1 \in D => n \in D /\ n + 1 # 0 /\ n + 1 - 1 = n
        BY <1>2
      <4> QED
        BY <1>5, <4>1 DEF Grown
    <3>2. n + 1 \in D => F[n + 1] \in S
      BY <2>2, <3>1, AroundType
    <3> QED
      BY <3>2
  <2>3. Nat \subseteq T
    <3> HIDE DEF T
    <3> QED BY <2>1, <2>2, Induction
  <2> QED
    BY <1>2, <2>3
<1>7. F \in [D -> S]
  BY <1>4, <1>6
<1> QED
  BY <1>1, <1>5, <1>7

(* After as many turns as there are nodes, no link leads out.              *)
LEMMA ConnectedIsLeast ==
  ASSUME NEW L, NEW x \in Elements
  PROVE  LeastClosed(L, x, Connected(L, x))
<1>1. PICK f \in [0 .. Nodes -> SUBSET Elements] :
        /\ \A n \in 0 .. Nodes : f[n] = Grown(L, x, f, n)
        /\ Connected(L, x) = f[Nodes]
  BY GrownExists
<1>2. Nodes \in Nat
  BY BoundsAssumption
<1>3. f[0] = {x} /\ \A n \in Nat : n + 1 \in 0 .. Nodes => n \in 0 .. Nodes /\ f[n + 1] = Around(L, f[n])
  <2>1. 0 \in 0 .. Nodes
    BY <1>2
  <2>2. \A n \in Nat : n + 1 \in 0 .. Nodes => n \in 0 .. Nodes /\ n + 1 # 0 /\ n + 1 - 1 = n
    BY <1>2
  <2> QED
    BY <1>1, <2>1, <2>2 DEF Grown
<1>4. \A n \in 0 .. Nodes : /\ x \in f[n]
                            /\ \A T \in SUBSET Elements : x \in T /\ Closed(L, T) => f[n] \subseteq T
  <2> DEFINE Within(S) == \A T \in SUBSET Elements : x \in T /\ Closed(L, T) => S \subseteq T
             M == {n \in Nat : n \in 0 .. Nodes => x \in f[n] /\ Within(f[n])}
  <2>1. 0 \in M
    BY <1>3
  <2>2. ASSUME NEW n \in Nat, n \in M PROVE n + 1 \in M
    <3> SUFFICES ASSUME n + 1 \in 0 .. Nodes PROVE x \in f[n + 1] /\ Within(f[n + 1])
      OBVIOUS
    <3>1. f[n + 1] = Around(L, f[n]) /\ n \in 0 .. Nodes
      BY <1>3
    <3>2. x \in f[n] /\ Within(f[n]) /\ f[n] \in SUBSET Elements
      BY <2>2, <3>1
    <3>3. ASSUME NEW T \in SUBSET Elements, x \in T, Closed(L, T) PROVE f[n + 1] \subseteq T
      <4>1. Around(L, f[n]) \subseteq Around(L, T)
        BY <3>2, <3>3, AroundGrows
      <4> QED
        BY <3>1, <3>3, <4>1 DEF Closed
    <3> QED
      BY <3>1, <3>2, <3>3, AroundType
  <2>3. Nat \subseteq M
    <3> HIDE DEF M
    <3> QED BY <2>1, <2>2, Induction
  <2> HIDE DEF Within
  <2>4. \A n \in 0 .. Nodes : x \in f[n] /\ Within(f[n])
    BY <1>2, <2>3
  <2> QED
    BY <2>4 DEF Within
<1>5. Closed(L, f[Nodes])
  <2> DEFINE M == {n \in Nat : n \in 0 .. Nodes => Closed(L, f[n]) \/ Cardinality(f[n]) > n}
  <2>1. 0 \in M
    <3>1. Cardinality(f[0]) = 1
      BY <1>3, FS_Singleton
    <3> QED
      BY <3>1
  <2>2. ASSUME NEW n \in Nat, n \in M PROVE n + 1 \in M
    <3> SUFFICES ASSUME n + 1 \in 0 .. Nodes
                 PROVE  Closed(L, f[n + 1]) \/ Cardinality(f[n + 1]) > n + 1
      OBVIOUS
    <3>1. f[n + 1] = Around(L, f[n]) /\ n \in 0 .. Nodes
      BY <1>3
    <3>2. f[n] \in SUBSET Elements /\ f[n + 1] \in SUBSET Elements /\ f[n] \subseteq f[n + 1]
      BY <3>1, AroundType
    <3>3. CASE Closed(L, f[n])
      <4>1. f[n + 1] = f[n]
        BY <3>1, <3>2, <3>3 DEF Closed
      <4> QED
        BY <3>3, <4>1
    <3>4. CASE ~ Closed(L, f[n])
      <4>1. f[n + 1] # f[n] /\ Cardinality(f[n]) > n
        BY <2>2, <3>1, <3>4 DEF Closed
      <4>2. IsFiniteSet(f[n]) /\ IsFiniteSet(f[n + 1])
        BY <3>2, NodesAreFinite, FS_Subset
      <4>3. /\ Cardinality(f[n]) \in Nat /\ Cardinality(f[n + 1]) \in Nat
            /\ Cardinality(f[n]) <= Cardinality(f[n + 1])
            /\ Cardinality(f[n + 1]) = Cardinality(f[n]) => f[n + 1] = f[n]
        BY <3>2, <4>2, FS_Subset, FS_CardinalityType
      <4> QED
        BY <4>1, <4>3
    <3> QED
      BY <3>3, <3>4
  <2>3. Nat \subseteq M
    <3> HIDE DEF M
    <3> QED BY <2>1, <2>2, Induction
  <2>4. Closed(L, f[Nodes]) \/ Cardinality(f[Nodes]) > Nodes
    BY <1>2, <2>3
  <2>5. Cardinality(f[Nodes]) <= Nodes /\ Cardinality(f[Nodes]) \in Nat
    <3>1. f[Nodes] \in SUBSET Elements
      BY <1>2
    <3> QED
      BY <3>1, NodesAreFinite, FS_Subset, FS_CardinalityType
  <2> QED
    BY <1>2, <2>4, <2>5
<1>6. Nodes \in 0 .. Nodes /\ f[Nodes] \in SUBSET Elements
  BY <1>2
<1> QED
  BY <1>1, <1>4, <1>5, <1>6 DEF LeastClosed

-----------------------------------------------------------------------------
(* The sets the structure keeps: r maps every element to the root of its   *)
(* set.                                                                    *)
Class(r, x) == {y \in Elements : r[y] = r[x]}

LEMMA NoLinks ==
  ASSUME NEW x \in Elements
  PROVE  Connected({}, x) = {x}
<1>1. LeastClosed({}, x, Connected({}, x))
  BY ConnectedIsLeast
<1>2. Closed({}, {x})
  BY DEF Closed, Around
<1> QED
  BY <1>1, <1>2 DEF LeastClosed

(* A link that leads out of neither set leads out of none.                 *)
LEMMA ClosedLinks ==
  ASSUME NEW L, NEW C
  PROVE  Closed(L, C) <=>
           \A e \in Elements, s \in C : <<e, s>> \in L \/ <<s, e>> \in L => e \in C
  BY DEF Closed, Around

\* The set map when the set of root b went to the one of root a.
Moved(r, a, b) == [x \in Elements |-> IF r[x] = b THEN a ELSE r[x]]

\* The sets of r are what the links connect.
Classes(L, r) == \A x \in Elements : Connected(L, x) = Class(r, x)

(* A link makes one set of the two of its ends, and leaves the others.     *)
LEMMA LinkJoins ==
  ASSUME NEW L \in SUBSET (Elements \X Elements), NEW u \in Elements, NEW v \in Elements,
         NEW r \in [Elements -> Elements], NEW a, NEW b, {a, b} = {r[u], r[v]},
         Classes(L, r)
  PROVE  Classes(L \cup {<<u, v>>}, Moved(r, a, b))
<1> DEFINE more == L \cup {<<u, v>>}
           q == Moved(r, a, b)
<1>1. \A x \in Elements : q[x] = IF r[x] = b THEN a ELSE r[x]
  BY DEF Moved
<1>2. \A e, s \in Elements : <<e, s>> \in L => r[e] = r[s]
  <2> SUFFICES ASSUME NEW e \in Elements, NEW s \in Elements, <<e, s>> \in L PROVE r[e] = r[s]
    OBVIOUS
  <2>1. LeastClosed(L, s, Connected(L, s))
    BY ConnectedIsLeast
  <2>2. e \in Connected(L, s)
    BY <2>1, ClosedLinks DEF LeastClosed
  <2> QED
    BY <2>2 DEF Classes, Class
<1>3. \A e, s \in Elements : <<e, s>> \in more => q[e] = q[s]
  <2> SUFFICES ASSUME NEW e \in Elements, NEW s \in Elements, <<e, s>> \in more
               PROVE  q[e] = q[s]
    OBVIOUS
  <2>1. CASE <<e, s>> \in L
    BY <1>1, <1>2, <2>1
  <2>2. CASE e = u /\ s = v
    BY <1>1, <2>2
  <2> QED
    BY <2>1, <2>2
<1> SUFFICES ASSUME NEW x \in Elements PROVE Connected(more, x) = Class(q, x)
  BY DEF Classes
<1> DEFINE C == Connected(more, x)
<1>4. LeastClosed(more, x, C)
  BY ConnectedIsLeast
<1>5. C \subseteq Class(q, x)
  <2>1. Closed(more, Class(q, x))
    <3> HIDE DEF more, q
    <3> QED
      BY <1>3, ClosedLinks DEF Class
  <2>2. x \in Class(q, x) /\ Class(q, x) \in SUBSET Elements
    BY DEF Class
  <2> HIDE DEF C, more, q
  <2> QED
    BY <1>4, <2>1, <2>2 DEF LeastClosed
<1>6. Closed(L, C) /\ C \in SUBSET Elements /\ (u \in C <=> v \in C)
  <2>1. Closed(more, C) /\ C \in SUBSET Elements
    BY <1>4 DEF LeastClosed
  <2> HIDE DEF C
  <2> QED
    BY <2>1, ClosedLinks
<1>7. \A y \in C : Class(r, y) \subseteq C
  <2> SUFFICES ASSUME NEW y \in C PROVE Class(r, y) \subseteq C
    OBVIOUS
  <2>1. LeastClosed(L, y, Connected(L, y)) /\ y \in Elements
    BY <1>6, ConnectedIsLeast
  <2> HIDE DEF C
  <2>2. Connected(L, y) \subseteq C
    BY <1>6, <2>1 DEF LeastClosed
  <2> QED
    BY <2>1, <2>2 DEF Classes
<1>8. ASSUME NEW y \in Elements, q[y] = q[x] PROVE y \in C
  <2>0. x \in C
    BY <1>4 DEF LeastClosed
  <2> HIDE DEF C, q
  <2>1. CASE r[y] = r[x]
    BY <1>7, <2>0, <2>1 DEF Class
  <2>2. CASE r[y] # r[x]
    <3>1. {r[x], r[y]} = {r[u], r[v]}
      BY <1>1, <1>8, <2>2
    <3>2. PICK s \in {u, v}, e \in {u, v} : r[s] = r[x] /\ r[e] = r[y]
      BY <3>1, <2>2
    <3>3. s \in C
      BY <1>7, <2>0, <3>2 DEF Class
    <3>4. e \in C
      BY <1>6, <3>3
    <3> QED
      BY <1>7, <3>2, <3>4 DEF Class
  <2> QED
    BY <2>1, <2>2
<1> QED
  BY <1>5, <1>8 DEF Class

LEMMA ClassCounts ==
  ASSUME NEW r \in [Elements -> Elements], NEW x \in Elements
  PROVE  IsFiniteSet(Class(r, x)) /\ Cardinality(Class(r, x)) \in 1 .. Nodes
<1>1. Class(r, x) \in SUBSET Elements /\ x \in Class(r, x)
  BY DEF Class
<1>2. IsFiniteSet(Class(r, x)) /\ Cardinality(Class(r, x)) <= Nodes
  BY <1>1, NodesAreFinite, FS_Subset
<1>3. Cardinality(Class(r, x)) \in Nat /\ Cardinality(Class(r, x)) # 0
  BY <1>1, <1>2, FS_CardinalityType, FS_EmptySet
<1> QED
  BY <1>2, <1>3, BoundsAssumption

(* Where a set went: it and the other one are the set of the root, and the *)
(* sets of other roots stay.                                               *)
LEMMA MovedClasses ==
  ASSUME NEW r \in [Elements -> Elements], NEW a \in Elements, NEW b \in Elements,
         a # b, r[a] = a, r[b] = b
  PROVE  /\ Moved(r, a, b) \in [Elements -> Elements]
         /\ Class(Moved(r, a, b), a) = Class(r, a) \cup Class(r, b)
         /\ Cardinality(Class(Moved(r, a, b), a)) =
              Cardinality(Class(r, a)) + Cardinality(Class(r, b))
         /\ \A x \in Elements : r[x] = x /\ x # a /\ x # b =>
              Class(Moved(r, a, b), x) = Class(r, x)
<1>1. Moved(r, a, b) \in [Elements -> Elements]
  BY DEF Moved
<1>2. Class(Moved(r, a, b), a) = Class(r, a) \cup Class(r, b)
  BY DEF Moved, Class
<1>3. Class(r, a) \cap Class(r, b) = {}
  BY DEF Class
<1>4. Cardinality(Class(r, a) \cup Class(r, b)) =
        Cardinality(Class(r, a)) + Cardinality(Class(r, b))
  <2>1. Cardinality(Class(r, a) \cap Class(r, b)) = 0
    BY <1>3, FS_EmptySet
  <2>2. IsFiniteSet(Class(r, a)) /\ IsFiniteSet(Class(r, b))
    BY ClassCounts
  <2>3. Cardinality(Class(r, a)) \in Nat /\ Cardinality(Class(r, b)) \in Nat
    BY <2>2, FS_CardinalityType
  <2>4. Cardinality(Class(r, a) \cup Class(r, b)) =
          Cardinality(Class(r, a)) + Cardinality(Class(r, b)) - Cardinality(Class(r, a) \cap Class(r, b))
    BY <2>2, FS_Union
  <2> QED
    BY <2>1, <2>3, <2>4
<1>5. \A x \in Elements : r[x] = x /\ x # a /\ x # b => Class(Moved(r, a, b), x) = Class(r, x)
  BY DEF Moved, Class
<1> QED
  BY <1>1, <1>2, <1>4, <1>5

IsLeast(n, S) == n \in S /\ \A m \in S : n <= m

LEMMA LeastOfBoth ==
  ASSUME NEW S \in SUBSET Int, NEW T \in SUBSET Int, NEW m, NEW n, IsLeast(m, S), IsLeast(n, T)
  PROVE  IsLeast(Least(m, n), S \cup T)
  BY DEF IsLeast, Least

-----------------------------------------------------------------------------
(* What holds between any two turns of the loops: some map of elements to  *)
(* roots fits the parents, the sizes, the names and the links.             *)

\* An element that was never looked at is alone.  A parent has the same root,
\* and only a root has a size, which is that of its set.
RootsFit(r) ==
  /\ \A x \in Elements : r[r[x]] = r[x]
  /\ \A x \in Elements \ DOMAIN parent_or_size : \A y \in Elements : r[y] = x <=> y = x
  /\ \A x \in DOMAIN parent_or_size :
       IF IsParent(parent_or_size[x])
       THEN /\ parent_or_size[x] \in DOMAIN parent_or_size
            /\ r[parent_or_size[x]] = r[x] /\ r[x] # x
       ELSE r[x] = x /\ Size(x) = Cardinality(Class(r, x))

NamesFit(r) == \A x \in Elements : r[x] = x => IsLeast(NameOf(x), Class(r, x))

\* find is at an element of the set it was asked about, as is all it met on
\* the way, none of it a root; and what it returned before are roots.
FindFits(r) ==
  /\ finding # NoFind =>
       /\ finding.x \in DOMAIN parent_or_size /\ r[finding.x] = r[Wanted]
       /\ \A i \in DOMAIN finding.along_the_way :
            /\ finding.along_the_way[i] \in DOMAIN parent_or_size
            /\ IsParent(parent_or_size[finding.along_the_way[i]])
            /\ r[finding.along_the_way[i]] = r[finding.x]
  /\ \A i \in DOMAIN roots :
       /\ roots[i] \in DOMAIN parent_or_size /\ ~ IsParent(parent_or_size[roots[i]])
       /\ roots[i] = r[call.args[i]]

Fits(r) == RootsFit(r) /\ NamesFit(r) /\ FindFits(r) /\ Classes(Merged, r)

\* Where the caller is, and where it has got to.
CallFits ==
  /\ call \in [op : {"none", "merge", "canonicalize"}, args : Seq(Elements)]
  /\ call.op = "none" => call = NoCall
  /\ call.op = "merge" =>
       /\ Len(call.args) = 2 /\ <<call.args[1], call.args[2]>> \in links
       /\ canon = <<>>
  /\ call.op = "canonicalize" => call.args = <<Len(canon)>> /\ Len(canon) < Nodes
  /\ Len(roots) <= Len(call.args)
  /\ finding # NoFind => call # NoCall /\ Len(roots) < Len(call.args)

Maps ==
  /\ rooted \in BOOLEAN
  /\ DOMAIN parent_or_size \subseteq Elements
  /\ \A x \in DOMAIN parent_or_size : parent_or_size[x] \in Nat
  /\ DOMAIN root_names \subseteq Elements
  /\ \A x \in DOMAIN root_names : root_names[x] \in Elements
  /\ links \subseteq Elements \X Elements
  /\ finding \in [x : {-1} \cup Elements, along_the_way : Seq(Elements)]
  /\ roots \in Seq(Elements) /\ canon \in Seq(Elements)

AnswersFit == \A i \in DOMAIN canon : IsLeast(canon[i], Component(i - 1))

PiecesInv ==
  /\ Maps /\ CallFits /\ AnswersFit
  /\ \E r \in [Elements -> Elements] : Fits(r)

LEMMA InitPieces == Init => PiecesInv
<1> SUFFICES ASSUME Init PROVE PiecesInv
  OBVIOUS
<1> DEFINE same == [x \in Elements |-> x]
<1>1. /\ parent_or_size = <<>> /\ root_names = <<>> /\ links = {} /\ call = NoCall
      /\ finding = NoFind /\ roots = <<>> /\ canon = <<>> /\ rooted \in BOOLEAN
  BY DEF Init
<1>2. DOMAIN parent_or_size = {} /\ DOMAIN root_names = {} /\ DOMAIN roots = {} /\ DOMAIN canon = {}
  BY <1>1
<1>3. Maps /\ CallFits /\ AnswersFit
  <2>1. Maps
    BY <1>1, <1>2 DEF Maps, NoFind
  <2>2. CallFits
    BY <1>1 DEF CallFits, NoCall
  <2>3. AnswersFit
    BY <1>2 DEF AnswersFit
  <2> QED
    BY <2>1, <2>2, <2>3
<1>4. same \in [Elements -> Elements] /\ \A x \in Elements : same[x] = x /\ Class(same, x) = {x}
  BY DEF Class
<1>5. RootsFit(same)
  BY <1>2, <1>4 DEF RootsFit
<1>6. NamesFit(same)
  BY <1>2, <1>4 DEF NamesFit, NameOf, IsLeast, Elements
<1>7. FindFits(same)
  BY <1>1, <1>2 DEF FindFits
<1>8. Classes(Merged, same)
  <2>1. Merged = {}
    BY <1>1 DEF Merged, NoCall
  <2> QED
    BY <1>4, <2>1, NoLinks DEF Classes
<1> QED
  BY <1>3, <1>4, <1>5, <1>6, <1>7, <1>8 DEF PiecesInv, Fits

-----------------------------------------------------------------------------
(* The calls begin.                                                        *)

\* What holds of the set map while parents, names and finds stay.
LEMMA FitsStays ==
  ASSUME NEW r \in [Elements -> Elements], Fits(r),
         UNCHANGED <<parent_or_size, root_names>>, Merged' = Merged, FindFits(r)'
  PROVE  Fits(r)'
<1>1. RootsFit(r)'
  BY DEF Fits, RootsFit, Size
<1>2. NamesFit(r)'
  BY DEF Fits, NamesFit, NameOf
<1>3. Classes(Merged, r)'
  BY DEF Fits
<1> QED
  BY <1>1, <1>2, <1>3 DEF Fits

\* While no call runs, nothing is being looked up.
LEMMA NoCallNoFind ==
  ASSUME PiecesInv, call = NoCall
  PROVE  finding = NoFind /\ roots = <<>> /\ Merged = links
<1>1. Len(call.args) = 0 /\ call.op = "none"
  BY DEF NoCall
<1>2. roots \in Seq(Elements) /\ Len(roots) <= 0 /\ finding = NoFind
  BY <1>1 DEF PiecesInv, CallFits, Maps
<1> QED
  BY <1>1, <1>2 DEF Merged

LEMMA CallMergeKeeps ==
  ASSUME PiecesInv, CallMerge
  PROVE  PiecesInv'
<1>1. PICK a \in Elements, b \in Elements :
        /\ <<a, b>> \notin links
        /\ links' = links \cup {<<a, b>>} /\ call' = [op |-> "merge", args |-> <<a, b>>]
  BY DEF CallMerge, LinkAllowed
<1>2. /\ call = NoCall /\ canon = <<>>
      /\ UNCHANGED <<rooted, parent_or_size, root_names, finding, roots, canon>>
  BY DEF CallMerge
<1>3. finding = NoFind /\ roots = <<>> /\ Merged = links
  BY <1>2, NoCallNoFind
<1>4. Merged' = Merged
  BY <1>1, <1>3 DEF Merged
<1>5. Maps'
  BY <1>1, <1>2 DEF PiecesInv, Maps
<1>6. CallFits'
  <2>1. call'.op = "merge" /\ call'.args = <<a, b>> /\ call'.args \in Seq(Elements)
    BY <1>1
  <2>2. call' \in [op : {"none", "merge", "canonicalize"}, args : Seq(Elements)]
    BY <1>1, <2>1
  <2> QED
    BY <1>1, <1>2, <1>3, <2>1, <2>2 DEF CallFits
<1>7. AnswersFit'
  BY <1>2 DEF AnswersFit
<1>8. PICK r \in [Elements -> Elements] : Fits(r)
  BY DEF PiecesInv
<1>9. FindFits(r)'
  BY <1>2, <1>3 DEF FindFits
<1>10. Fits(r)'
  BY <1>2, <1>4, <1>8, <1>9, FitsStays
<1> QED
  BY <1>5, <1>6, <1>7, <1>10 DEF PiecesInv

LEMMA CallCanonicalizeKeeps ==
  ASSUME PiecesInv, CallCanonicalize
  PROVE  PiecesInv'
<1>1. /\ call = NoCall /\ Len(canon) < Nodes
      /\ call' = [op |-> "canonicalize", args |-> <<Len(canon)>>]
      /\ UNCHANGED <<rooted, parent_or_size, root_names, links, finding, roots, canon>>
  BY DEF CallCanonicalize
<1>2. finding = NoFind /\ roots = <<>> /\ Merged = links
  BY <1>1, NoCallNoFind
<1>3. Merged' = Merged
  BY <1>1, <1>2 DEF Merged
<1>4. Maps'
  BY <1>1 DEF PiecesInv, Maps
<1>5. CallFits'
  <2>1. Len(canon) \in Elements
    BY <1>1, BoundsAssumption DEF Elements, PiecesInv, Maps
  <2>2. /\ call'.op = "canonicalize" /\ call'.args = <<Len(canon)>> /\ call'.args \in Seq(Elements)
        /\ call' \in [op : {"none", "merge", "canonicalize"}, args : Seq(Elements)]
    BY <1>1, <2>1
  <2> QED
    BY <1>1, <1>2, <2>2 DEF CallFits
<1>6. AnswersFit'
  BY <1>1, <1>3 DEF PiecesInv, AnswersFit, Component
<1>7. PICK r \in [Elements -> Elements] : Fits(r)
  BY DEF PiecesInv
<1>8. FindFits(r)'
  BY <1>1, <1>2 DEF FindFits
<1>9. Fits(r)'
  BY <1>1, <1>3, <1>7, <1>8, FitsStays
<1> QED
  BY <1>4, <1>5, <1>6, <1>9 DEF PiecesInv

-----------------------------------------------------------------------------
(* find.                                                                   *)

\* What is looked up next is an element.
LEMMA WantedIs ==
  ASSUME PiecesInv, call # NoCall, Len(roots) < Len(call.args)
  PROVE  Wanted \in Elements /\ Len(roots) + 1 \in DOMAIN call.args
<1>1. call.args \in Seq(Elements) /\ roots \in Seq(Elements)
  BY DEF PiecesInv, CallFits, Maps
<1>2. Len(roots) + 1 \in 1 .. Len(call.args)
  BY <1>1
<1> QED
  BY <1>1, <1>2 DEF Wanted

\* In a call, only its own conjuncts about lengths may be disturbed.
LEMMA InCallFits ==
  ASSUME PiecesInv, UNCHANGED <<links, call, canon>>,
         Len(roots)' <= Len(call.args),
         finding' # NoFind => call # NoCall /\ Len(roots)' < Len(call.args)
  PROVE  CallFits' /\ AnswersFit' /\ Merged' = Merged
<1>1. CallFits'
  BY DEF PiecesInv, CallFits
<1>2. Merged' = Merged
  BY DEF Merged
<1>3. AnswersFit'
  BY <1>2 DEF PiecesInv, AnswersFit, Component
<1> QED
  BY <1>1, <1>2, <1>3

LEMMA FindStartKeeps ==
  ASSUME PiecesInv, FindStart, UNCHANGED rooted
  PROVE  PiecesInv'
<1>1. /\ call # NoCall /\ finding = NoFind /\ Len(roots) < Len(call.args)
      /\ UNCHANGED <<root_names, links, call, canon>>
  BY DEF FindStart
<1>2. Wanted \in Elements /\ Len(roots) + 1 \in DOMAIN call.args
  BY <1>1, WantedIs
<1>3. PICK r \in [Elements -> Elements] : Fits(r)
  BY DEF PiecesInv
<1>4. DOMAIN parent_or_size \subseteq Elements /\ roots \in Seq(Elements)
  BY DEF PiecesInv, Maps
<1>5. CASE Wanted \in DOMAIN parent_or_size /\ IsParent(parent_or_size[Wanted])
  <2>1. /\ finding' = [x |-> parent_or_size[Wanted], along_the_way |-> <<Wanted>>]
        /\ UNCHANGED <<parent_or_size, roots>>
    BY <1>5 DEF FindStart
  <2>2. /\ parent_or_size[Wanted] \in DOMAIN parent_or_size
        /\ r[parent_or_size[Wanted]] = r[Wanted]
    BY <1>3, <1>5 DEF Fits, RootsFit
  <2>3. /\ finding'.x = parent_or_size[Wanted] /\ finding'.along_the_way = <<Wanted>>
        /\ finding' \in [x : {-1} \cup Elements, along_the_way : Seq(Elements)]
    BY <1>2, <1>4, <2>1, <2>2
  <2>4. Maps'
    BY <1>1, <2>1, <2>3 DEF PiecesInv, Maps
  <2>5. CallFits' /\ AnswersFit' /\ Merged' = Merged
    BY <1>1, <1>4, <2>1, InCallFits
  <2>6. Wanted' = Wanted
    BY <1>1, <2>1 DEF Wanted
  <2>7. FindFits(r)'
    BY <1>1, <1>3, <1>5, <2>1, <2>2, <2>3, <2>6 DEF Fits, FindFits
  <2>8. Fits(r)'
    BY <1>1, <1>3, <2>1, <2>5, <2>7, FitsStays
  <2> QED
    BY <2>4, <2>5, <2>8 DEF PiecesInv
<1>6. CASE ~ (Wanted \in DOMAIN parent_or_size /\ IsParent(parent_or_size[Wanted]))
  <2>1. /\ parent_or_size' = Entered(parent_or_size, Wanted, LIMIT + 1)
        /\ roots' = Append(roots, Wanted) /\ UNCHANGED finding
    BY <1>6 DEF FindStart
  <2>2. /\ DOMAIN parent_or_size' = DOMAIN parent_or_size \cup {Wanted}
        /\ \A x \in DOMAIN parent_or_size : parent_or_size'[x] = parent_or_size[x]
        /\ Wanted \notin DOMAIN parent_or_size => parent_or_size'[Wanted] = LIMIT + 1
    BY <2>1 DEF Entered, Put
  <2>3. r[Wanted] = Wanted
    BY <1>2, <1>3, <1>6 DEF Fits, RootsFit
  <2>4. LIMIT + 1 \in Nat /\ ~ IsParent(LIMIT + 1) /\ LIMIT + 1 - LIMIT = 1
    BY LimitAssumption DEF IsParent
  <2>5. ~ IsParent(parent_or_size'[Wanted])
    BY <1>6, <2>2, <2>4
  <2>6. Maps'
    <3>1. \A x \in DOMAIN parent_or_size' : parent_or_size'[x] \in Nat
      BY <2>2, <2>4 DEF PiecesInv, Maps
    <3>2. DOMAIN parent_or_size' \subseteq Elements /\ roots' \in Seq(Elements)
      BY <1>2, <1>4, <2>1, <2>2
    <3> QED
      BY <1>1, <2>1, <3>1, <3>2 DEF PiecesInv, Maps
  <2>7. CallFits' /\ AnswersFit' /\ Merged' = Merged
    <3>1. Len(roots)' = Len(roots) + 1 /\ Len(roots) + 1 <= Len(call.args)
      BY <1>1, <1>2, <1>4, <2>1 DEF PiecesInv, CallFits
    <3> QED
      BY <1>1, <2>1, <3>1, InCallFits
  <2>8. RootsFit(r)'
    <3>1. Wanted \notin DOMAIN parent_or_size => Cardinality(Class(r, Wanted)) = 1
      <4>1. Wanted \notin DOMAIN parent_or_size => Class(r, Wanted) = {Wanted}
        BY <1>2, <1>3, <2>3 DEF Fits, RootsFit, Class
      <4> QED
        BY <4>1, FS_Singleton
    <3>2. ASSUME NEW x \in DOMAIN parent_or_size'
          PROVE  IF IsParent(parent_or_size'[x])
                 THEN /\ parent_or_size'[x] \in DOMAIN parent_or_size'
                      /\ r[parent_or_size'[x]] = r[x] /\ r[x] # x
                 ELSE r[x] = x /\ Size(x)' = Cardinality(Class(r, x))
      <4>1. CASE x \in DOMAIN parent_or_size
        BY <1>3, <2>2, <4>1 DEF Fits, RootsFit, Size
      <4>2. CASE x \notin DOMAIN parent_or_size
        <5>1. x = Wanted /\ parent_or_size'[x] = LIMIT + 1
          BY <2>2, <4>2
        <5>2. Size(x)' = 1
          BY <5>1, LimitAssumption DEF Size
        <5> QED
          BY <2>3, <2>4, <3>1, <4>2, <5>1, <5>2
      <4> QED
        BY <4>1, <4>2
    <3>3. \A x \in Elements : r[r[x]] = r[x]
      BY <1>3 DEF Fits, RootsFit
    <3>4. \A x \in Elements \ DOMAIN parent_or_size' : \A y \in Elements : r[y] = x <=> y = x
      BY <1>3, <2>2 DEF Fits, RootsFit
    <3> QED
      BY <3>2, <3>3, <3>4 DEF RootsFit
  <2>9. NamesFit(r)'
    BY <1>1, <1>3 DEF Fits, NamesFit, NameOf
  <2>10. FindFits(r)'
    <3>1. \A i \in DOMAIN roots : roots'[i] = roots[i]
      BY <1>4, <2>1
    <3>2. DOMAIN roots' = DOMAIN roots \cup {Len(roots) + 1} /\ roots'[Len(roots) + 1] = Wanted
      BY <1>4, <2>1
    <3>3. call.args[Len(roots) + 1] = Wanted
      BY DEF Wanted
    <3> QED
      BY <1>1, <1>3, <2>1, <2>2, <2>3, <2>5, <3>1, <3>2, <3>3 DEF Fits, FindFits
  <2>11. Fits(r)'
    BY <1>3, <2>7, <2>8, <2>9, <2>10 DEF Fits
  <2> QED
    BY <2>6, <2>7, <2>11 DEF PiecesInv
<1> QED
  BY <1>5, <1>6

LEMMA FindClimbKeeps ==
  ASSUME PiecesInv, FindClimb, UNCHANGED rooted
  PROVE  PiecesInv'
<1>1. /\ finding # NoFind /\ IsParent(parent_or_size[finding.x])
      /\ finding' = [finding EXCEPT !.along_the_way = Append(@, finding.x)]
      /\ UNCHANGED <<parent_or_size, root_names, links, call, roots, canon>>
  BY DEF FindClimb
<1>2. PICK r \in [Elements -> Elements] : Fits(r)
  BY DEF PiecesInv
<1>3. /\ finding \in [x : {-1} \cup Elements, along_the_way : Seq(Elements)]
      /\ finding.x \in DOMAIN parent_or_size /\ DOMAIN parent_or_size \subseteq Elements
  BY <1>1, <1>2 DEF PiecesInv, Maps, Fits, FindFits
<1>4. /\ finding'.x = finding.x /\ finding'.along_the_way = Append(finding.along_the_way, finding.x)
      /\ finding' \in [x : {-1} \cup Elements, along_the_way : Seq(Elements)]
  <2>1. PICK way \in Seq(Elements) : way = Append(finding.along_the_way, finding.x)
    <3>1. finding.along_the_way \in Seq(Elements) /\ finding.x \in Elements
      BY <1>3
    <3>2. \A w \in Seq(Elements), e \in Elements : Append(w, e) \in Seq(Elements)
      OBVIOUS
    <3> QED
      BY <3>1, <3>2, Zenon
  <2>2. finding' = [finding EXCEPT !.along_the_way = way]
    BY <1>1, <2>1
  <2>3. finding' = [x |-> finding.x, along_the_way |-> way]
    BY <1>3, <2>2
  <2> QED
    BY <1>3, <2>1, <2>3
<1>5. Maps'
  BY <1>1, <1>4 DEF PiecesInv, Maps
<1>6. CallFits' /\ AnswersFit' /\ Merged' = Merged
  <2>1. call # NoCall /\ Len(roots) < Len(call.args) /\ Len(roots) <= Len(call.args)
    BY <1>1 DEF PiecesInv, CallFits
  <2> QED
    BY <1>1, <2>1, InCallFits
<1>7. FindFits(r)'
  <2>1. Wanted' = Wanted
    BY <1>1 DEF Wanted
  <2>2. ASSUME NEW i \in DOMAIN finding'.along_the_way
        PROVE  \/ i \in DOMAIN finding.along_the_way
                  /\ finding'.along_the_way[i] = finding.along_the_way[i]
               \/ finding'.along_the_way[i] = finding.x
    BY <1>3, <1>4
  <2> QED
    BY <1>1, <1>2, <1>3, <1>4, <2>1, <2>2 DEF Fits, FindFits
<1>8. Fits(r)'
  BY <1>1, <1>2, <1>6, <1>7, FitsStays
<1> QED
  BY <1>5, <1>6, <1>8 DEF PiecesInv

LEMMA CompressedIs ==
  ASSUME NEW f, NEW way, NEW x
  PROVE  /\ DOMAIN Compressed(f, way, x) = DOMAIN f
         /\ \A e \in DOMAIN f : Compressed(f, way, x)[e] = IF \E i \in DOMAIN way : way[i] = e THEN x ELSE f[e]
  BY DEF Compressed

(* Path compression: what was met on the way was no root, and the element  *)
(* it gets for a parent is the root of all of it.                          *)
LEMMA FindReturnKeeps ==
  ASSUME PiecesInv, FindReturn, UNCHANGED rooted
  PROVE  PiecesInv'
<1> DEFINE x == finding.x
           met == {e \in Elements : \E i \in DOMAIN finding.along_the_way : finding.along_the_way[i] = e}
<1>1. /\ finding # NoFind /\ ~ IsParent(parent_or_size[x])
      /\ parent_or_size' = Compressed(parent_or_size, finding.along_the_way, x)
      /\ roots' = Append(roots, x) /\ finding' = NoFind
      /\ UNCHANGED <<root_names, links, call, canon>>
  BY DEF FindReturn
<1>2. PICK r \in [Elements -> Elements] : Fits(r)
  BY DEF PiecesInv
<1>3. /\ x \in DOMAIN parent_or_size /\ r[x] = x /\ r[Wanted] = x
      /\ DOMAIN parent_or_size \subseteq Elements /\ roots \in Seq(Elements)
  BY <1>1, <1>2 DEF PiecesInv, Maps, Fits, FindFits, RootsFit
<1>4. \A e \in met : e \in DOMAIN parent_or_size /\ r[e] = x /\ e # x /\ IsParent(parent_or_size[e])
  BY <1>1, <1>2, <1>3 DEF Fits, FindFits
<1>5. /\ DOMAIN parent_or_size' = DOMAIN parent_or_size
      /\ \A e \in DOMAIN parent_or_size :
           parent_or_size'[e] = IF e \in met THEN x ELSE parent_or_size[e]
  BY <1>1, <1>3, CompressedIs
<1>6. x \in Nat /\ IsParent(x)
  BY <1>3, LimitAssumption, BoundsAssumption DEF Elements, IsParent
<1> HIDE DEF met
<1>7. Maps'
  <2>1. finding' \in [x : {-1} \cup Elements, along_the_way : Seq(Elements)]
    BY <1>1 DEF NoFind
  <2>2. roots' \in Seq(Elements)
    BY <1>1, <1>3
  <2> HIDE DEF x
  <2> QED
    BY <1>1, <1>5, <1>6, <2>1, <2>2 DEF PiecesInv, Maps
<1>8. call # NoCall /\ Len(roots) < Len(call.args)
  BY <1>1 DEF PiecesInv, CallFits
<1>9. CallFits' /\ AnswersFit' /\ Merged' = Merged
  <2>1. Len(roots)' = Len(roots) + 1 /\ Len(roots) + 1 <= Len(call.args)
    BY <1>1, <1>3, <1>8 DEF PiecesInv, CallFits
  <2> QED
    BY <1>1, <2>1, InCallFits
<1>10. RootsFit(r)'
  <2> HIDE DEF x
  <2> QED
    BY <1>2, <1>3, <1>4, <1>5, <1>6 DEF Fits, RootsFit, Size
<1>11. NamesFit(r)'
  BY <1>1, <1>2 DEF Fits, NamesFit, NameOf
<1>12. FindFits(r)'
  <2>1. \A i \in DOMAIN roots : roots'[i] = roots[i] /\ roots[i] \notin met
    <3>1. \A i \in DOMAIN roots : roots'[i] = roots[i]
      BY <1>1, <1>3
    <3> QED
      BY <1>2, <1>4, <3>1 DEF Fits, FindFits
  <2>2. DOMAIN roots' = DOMAIN roots \cup {Len(roots) + 1} /\ roots'[Len(roots) + 1] = x
    BY <1>1, <1>3
  <2>3. call.args[Len(roots) + 1] = Wanted
    BY DEF Wanted
  <2>4. x \notin met
    BY <1>4
  <2> HIDE DEF x
  <2> QED
    BY <1>1, <1>2, <1>3, <1>5, <2>1, <2>2, <2>3, <2>4 DEF Fits, FindFits
<1>13. Fits(r)'
  BY <1>2, <1>9, <1>10, <1>11, <1>12 DEF Fits
<1> QED
  BY <1>7, <1>9, <1>13 DEF PiecesInv

-----------------------------------------------------------------------------
(* merge and canonicalize return.                                          *)

\* When find has returned for both arguments of merge, or the one of
\* canonicalize, it has returned the roots of their sets.
LEMMA RootsFound ==
  ASSUME PiecesInv, Done, NEW r \in [Elements -> Elements], Fits(r), NEW i \in DOMAIN call.args
  PROVE  /\ roots[i] \in Elements /\ roots[i] \in DOMAIN parent_or_size
         /\ call.args[i] \in Elements /\ roots[i] = r[call.args[i]]
         /\ r[roots[i]] = roots[i] /\ ~ IsParent(parent_or_size[roots[i]])
<1>1. roots \in Seq(Elements) /\ call.args \in Seq(Elements) /\ Len(roots) = Len(call.args)
  BY DEF PiecesInv, Maps, CallFits, Done
<1>2. i \in DOMAIN roots
  BY <1>1
<1>3. /\ roots[i] \in DOMAIN parent_or_size /\ ~ IsParent(parent_or_size[roots[i]])
      /\ roots[i] = r[call.args[i]]
  BY <1>2 DEF Fits, FindFits
<1>4. call.args[i] \in Elements /\ roots[i] \in Elements
  BY <1>1, <1>2
<1> QED
  BY <1>3, <1>4 DEF Fits, RootsFit

LEMMA ReturnFits ==
  ASSUME PiecesInv, Done, Return
  PROVE  /\ finding' = NoFind /\ roots' = <<>> /\ call' = NoCall /\ Merged' = links /\ CallFits'
<1>1. finding' = NoFind /\ roots' = <<>> /\ call' = NoCall /\ UNCHANGED links
  BY DEF Done, Return
<1>2. call'.op = "none" /\ Len(call'.args) = 0 /\ Len(roots') = 0
  BY <1>1 DEF NoCall
<1>3. call' \in [op : {"none", "merge", "canonicalize"}, args : Seq(Elements)]
  BY <1>1 DEF NoCall
<1>4. CallFits'
  BY <1>1, <1>2, <1>3 DEF CallFits
<1>5. Merged' = links
  BY <1>1, <1>2 DEF Merged
<1> QED
  BY <1>1, <1>4, <1>5

LEMMA ReturnCanonicalizeKeeps ==
  ASSUME PiecesInv, ReturnCanonicalize, UNCHANGED rooted
  PROVE  PiecesInv'
<1>1. /\ Done /\ Return /\ call.op = "canonicalize" /\ canon' = Append(canon, NameOf(roots[1]))
      /\ UNCHANGED <<parent_or_size, root_names, links>>
  BY DEF ReturnCanonicalize, Return
<1>2. PICK r \in [Elements -> Elements] : Fits(r)
  BY DEF PiecesInv
<1>3. call.args = <<Len(canon)>> /\ canon \in Seq(Elements)
  BY <1>1 DEF PiecesInv, CallFits, Maps
<1>4. 1 \in DOMAIN call.args /\ call.args[1] = Len(canon)
  BY <1>3
<1>5. roots[1] \in Elements /\ Len(canon) \in Elements /\ roots[1] = r[Len(canon)] /\ r[roots[1]] = roots[1]
  BY <1>1, <1>2, <1>4, RootsFound
<1>6. finding' = NoFind /\ roots' = <<>> /\ Merged' = links /\ CallFits'
  BY <1>1, ReturnFits
<1>7. Merged' = Merged
  BY <1>1, <1>6 DEF Merged
<1>8. IsLeast(NameOf(roots[1]), Component(Len(canon)))
  <2>1. IsLeast(NameOf(roots[1]), Class(r, roots[1]))
    BY <1>2, <1>5 DEF Fits, NamesFit
  <2>2. Class(r, roots[1]) = Class(r, Len(canon))
    BY <1>5 DEF Class
  <2>3. Component(Len(canon)) = Class(r, Len(canon))
    BY <1>2, <1>5 DEF Fits, Classes, Component
  <2> QED
    BY <2>1, <2>2, <2>3
<1>9. NameOf(roots[1]) \in Elements
  BY <1>1, <1>5 DEF NameOf, PiecesInv, Maps
<1>10. Maps'
  <2>1. canon' \in Seq(Elements)
    BY <1>1, <1>3, <1>9
  <2>2. finding' \in [x : {-1} \cup Elements, along_the_way : Seq(Elements)] /\ roots' \in Seq(Elements)
    BY <1>6 DEF NoFind
  <2> QED
    BY <1>1, <2>1, <2>2 DEF PiecesInv, Maps
<1>11. AnswersFit'
  <2>1. \A i \in Elements : Component(i)' = Component(i)
    BY <1>7 DEF Component
  <2> SUFFICES ASSUME NEW i \in DOMAIN canon' PROVE IsLeast(canon'[i], Component(i - 1)')
    BY DEF AnswersFit
  <2>2. Component(i - 1)' = Component(i - 1)
    BY <1>7 DEF Component
  <2>3. CASE i \in DOMAIN canon
    <3>1. canon'[i] = canon[i]
      BY <1>1, <1>3, <2>3
    <3> QED
      BY <2>2, <2>3, <3>1 DEF PiecesInv, AnswersFit
  <2>4. CASE i \notin DOMAIN canon
    <3>1. i = Len(canon) + 1 /\ i - 1 = Len(canon) /\ canon'[i] = NameOf(roots[1])
      BY <1>1, <1>3, <2>4
    <3> QED
      BY <1>8, <2>2, <3>1
  <2> QED
    BY <2>3, <2>4
<1>12. FindFits(r)'
  <2>1. DOMAIN roots' = {}
    BY <1>6
  <2> QED
    BY <1>6, <2>1 DEF FindFits
<1>13. Fits(r)'
  BY <1>1, <1>2, <1>7, <1>12, FitsStays
<1> QED
  BY <1>6, <1>10, <1>11, <1>13 DEF PiecesInv

\* Two sets become one, below the root of the larger one.
LEMMA UnionFits ==
  ASSUME PiecesInv, NEW r \in [Elements -> Elements], Fits(r),
         NEW a \in DOMAIN parent_or_size, NEW b \in DOMAIN parent_or_size, a # b,
         r[a] = a, r[b] = b, ~ IsParent(parent_or_size[a]), ~ IsParent(parent_or_size[b]),
         parent_or_size' = Put(Put(parent_or_size, a, UnionSize(a, b)), b, a),
         root_names' = Put(root_names, a, LeastName(a, b))
  PROVE  /\ DOMAIN parent_or_size' \subseteq Elements /\ DOMAIN root_names' \subseteq Elements
         /\ \A x \in DOMAIN parent_or_size' : parent_or_size'[x] \in Nat
         /\ \A x \in DOMAIN root_names' : root_names'[x] \in Elements
         /\ RootsFit(Moved(r, a, b))' /\ NamesFit(Moved(r, a, b))'
<1> DEFINE q == Moved(r, a, b)
<1>1. /\ DOMAIN parent_or_size \subseteq Elements /\ DOMAIN root_names \subseteq Elements
      /\ \A x \in DOMAIN parent_or_size : parent_or_size[x] \in Nat
      /\ \A x \in DOMAIN root_names : root_names[x] \in Elements
  BY DEF PiecesInv, Maps
<1>2. a \in Elements /\ b \in Elements
  BY <1>1
<1>3. /\ q \in [Elements -> Elements]
      /\ Class(q, a) = Class(r, a) \cup Class(r, b)
      /\ Cardinality(Class(q, a)) = Cardinality(Class(r, a)) + Cardinality(Class(r, b))
      /\ \A x \in Elements : r[x] = x /\ x # a /\ x # b => Class(q, x) = Class(r, x)
  BY <1>2, MovedClasses
<1>4. \A x \in Elements : q[x] = IF r[x] = b THEN a ELSE r[x]
  BY DEF Moved
<1> HIDE DEF q
<1>5. /\ DOMAIN parent_or_size' = DOMAIN parent_or_size
      /\ parent_or_size'[a] = UnionSize(a, b) /\ parent_or_size'[b] = a
      /\ \A x \in DOMAIN parent_or_size : x # a /\ x # b => parent_or_size'[x] = parent_or_size[x]
  BY DEF Put
<1>6. Size(a) = Cardinality(Class(r, a)) /\ Size(b) = Cardinality(Class(r, b))
  BY DEF Fits, RootsFit
<1>7. /\ Cardinality(Class(r, a)) \in 1 .. Nodes /\ Cardinality(Class(r, b)) \in 1 .. Nodes
      /\ Nodes \in Nat /\ LIMIT \in Nat /\ LIMIT > Nodes
  BY <1>2, ClassCounts, BoundsAssumption, LimitAssumption
<1>8. /\ UnionSize(a, b) \in Nat /\ ~ IsParent(UnionSize(a, b))
      /\ UnionSize(a, b) - LIMIT = Cardinality(Class(q, a))
  BY <1>3, <1>6, <1>7 DEF UnionSize, IsParent
<1>9. a \in Nat /\ IsParent(a)
  BY <1>2, <1>7 DEF Elements, IsParent
<1>10. \A x \in DOMAIN parent_or_size' : parent_or_size'[x] \in Nat
  BY <1>1, <1>5, <1>8, <1>9
<1>11. RootsFit(q)'
  <2>1. \A x \in Elements : q[q[x]] = q[x]
    BY <1>2, <1>4 DEF Fits, RootsFit
  <2>2. \A x \in Elements \ DOMAIN parent_or_size : \A y \in Elements : q[y] = x <=> y = x
    BY <1>4 DEF Fits, RootsFit
  <2>3. ASSUME NEW x \in DOMAIN parent_or_size
        PROVE  IF IsParent(parent_or_size'[x])
               THEN /\ parent_or_size'[x] \in DOMAIN parent_or_size
                    /\ q[parent_or_size'[x]] = q[x] /\ q[x] # x
               ELSE q[x] = x /\ parent_or_size'[x] - LIMIT = Cardinality(Class(q, x))
    <3>1. CASE x = a
      BY <1>2, <1>4, <1>5, <1>8, <3>1
    <3>2. CASE x = b
      BY <1>2, <1>4, <1>5, <1>9, <3>2
    <3>3. CASE x # a /\ x # b
      <4>1. parent_or_size'[x] = parent_or_size[x] /\ x \in Elements
        BY <1>1, <1>5, <3>3
      <4>2. CASE IsParent(parent_or_size[x])
        <5>1. /\ parent_or_size[x] \in DOMAIN parent_or_size
              /\ r[parent_or_size[x]] = r[x] /\ r[x] # x
          BY <4>2 DEF Fits, RootsFit
        <5> QED
          BY <1>1, <1>4, <3>3, <4>1, <4>2, <5>1
      <4>3. CASE ~ IsParent(parent_or_size[x])
        <5>1. r[x] = x /\ parent_or_size[x] - LIMIT = Cardinality(Class(r, x))
          BY <4>3 DEF Fits, RootsFit, Size
        <5> QED
          BY <1>3, <1>4, <3>3, <4>1, <4>3, <5>1
      <4> QED
        BY <4>2, <4>3
    <3> QED
      BY <3>1, <3>2, <3>3
  <2> QED
    BY <1>5, <2>1, <2>2, <2>3 DEF RootsFit, Size
<1>12. IsLeast(NameOf(a), Class(r, a)) /\ IsLeast(NameOf(b), Class(r, b))
  BY <1>2 DEF Fits, NamesFit
<1>13. IsLeast(LeastName(a, b), Class(q, a)) /\ LeastName(a, b) \in Elements
  <2>1. Class(r, a) \in SUBSET Int /\ Class(r, b) \in SUBSET Int
    BY DEF Class, Elements
  <2>2. IsLeast(LeastName(a, b), Class(q, a))
    BY <1>3, <1>12, <2>1, LeastOfBoth DEF LeastName
  <2> QED
    BY <2>2 DEF IsLeast, Class
<1>14. /\ DOMAIN root_names' = DOMAIN root_names \cup {a}
       /\ root_names'[a] = LeastName(a, b)
       /\ \A x \in DOMAIN root_names : x # a => root_names'[x] = root_names[x]
  BY DEF Put
<1>15. NamesFit(q)'
  <2> SUFFICES ASSUME NEW x \in Elements, q[x] = x PROVE IsLeast(NameOf(x)', Class(q, x))
    BY DEF NamesFit
  <2>1. CASE x = a
    BY <1>13, <1>14, <2>1 DEF NameOf
  <2>2. CASE x # a
    <3>1. r[x] = x /\ x # b
      BY <1>2, <1>4, <2>2
    <3>2. NameOf(x)' = NameOf(x)
      BY <1>14, <2>2 DEF NameOf
    <3> QED
      BY <1>3, <2>2, <3>1, <3>2 DEF Fits, NamesFit
  <2> QED
    BY <2>1, <2>2
<1> QED
  BY <1>1, <1>2, <1>5, <1>10, <1>11, <1>13, <1>14, <1>15 DEF q

LEMMA ReturnMergeKeeps ==
  ASSUME PiecesInv, ReturnMerge, UNCHANGED rooted
  PROVE  PiecesInv'
<1>0. PICK a, b : /\ a = Larger(roots[1], roots[2])
                 /\ b = IF a = roots[1] THEN roots[2] ELSE roots[1]
  OBVIOUS
<1>1. /\ Done /\ Return /\ call.op = "merge" /\ UNCHANGED <<canon, links>>
      /\ IF a = b THEN UNCHANGED <<parent_or_size, root_names>>
         ELSE /\ parent_or_size' = Put(Put(parent_or_size, a, UnionSize(a, b)), b, a)
              /\ root_names' = Put(root_names, a, LeastName(a, b))
  BY <1>0 DEF ReturnMerge, Return
<1>2. PICK r \in [Elements -> Elements] : Fits(r)
  BY DEF PiecesInv
<1>3. /\ Len(call.args) = 2 /\ <<call.args[1], call.args[2]>> \in links /\ canon = <<>>
      /\ call.args \in Seq(Elements)
  BY <1>1 DEF PiecesInv, CallFits
<1>4. PICK u \in Elements, v \in Elements :
        /\ u = call.args[1] /\ v = call.args[2]
        /\ roots[1] = r[u] /\ roots[2] = r[v] /\ r[roots[1]] = roots[1] /\ r[roots[2]] = roots[2]
        /\ {roots[1], roots[2]} \subseteq DOMAIN parent_or_size
        /\ ~ IsParent(parent_or_size[roots[1]]) /\ ~ IsParent(parent_or_size[roots[2]])
  <2>1. 1 \in DOMAIN call.args /\ 2 \in DOMAIN call.args
    BY <1>3
  <2> QED
    BY <1>1, <1>2, <2>1, RootsFound
<1>5. {a, b} = {r[u], r[v]} /\ (a = b => r[u] = r[v])
  BY <1>0, <1>4 DEF Larger
<1>6. /\ finding' = NoFind /\ roots' = <<>> /\ Merged' = Merged \cup {<<u, v>>} /\ CallFits'
  BY <1>1, <1>3, <1>4, ReturnFits DEF Merged
<1>7. Merged \in SUBSET (Elements \X Elements)
  BY DEF Merged, PiecesInv, Maps
<1>8. PICK q \in [Elements -> Elements] : q = Moved(r, a, b)
  BY <1>4, <1>5 DEF Moved
<1>9. Classes(Merged', q)
  <2>1. Classes(Merged, r)
    BY <1>2 DEF Fits
  <2> QED
    BY <1>5, <1>6, <1>7, <1>8, <2>1, LinkJoins
<1>10. /\ DOMAIN parent_or_size' \subseteq Elements /\ DOMAIN root_names' \subseteq Elements
       /\ \A x \in DOMAIN parent_or_size' : parent_or_size'[x] \in Nat
       /\ \A x \in DOMAIN root_names' : root_names'[x] \in Elements
       /\ RootsFit(q)' /\ NamesFit(q)'
  <2>1. CASE a = b
    <3>1. q = r
      BY <1>8, <2>1 DEF Moved
    <3>2. UNCHANGED <<parent_or_size, root_names>>
      BY <1>1, <2>1
    <3>3. RootsFit(q)' /\ NamesFit(q)'
      BY <1>2, <3>1, <3>2 DEF Fits, RootsFit, NamesFit, Size, NameOf
    <3> QED
      BY <3>2, <3>3 DEF PiecesInv, Maps
  <2>2. CASE a # b
    <3>1. /\ a \in DOMAIN parent_or_size /\ b \in DOMAIN parent_or_size /\ r[a] = a /\ r[b] = b
          /\ ~ IsParent(parent_or_size[a]) /\ ~ IsParent(parent_or_size[b])
      BY <1>4, <1>5
    <3>2. /\ parent_or_size' = Put(Put(parent_or_size, a, UnionSize(a, b)), b, a)
          /\ root_names' = Put(root_names, a, LeastName(a, b))
      BY <1>1, <2>2
    <3> QED
      BY <1>2, <1>8, <2>2, <3>1, <3>2, UnionFits
  <2> QED
    BY <2>1, <2>2
<1>11. FindFits(q)'
  <2>1. DOMAIN roots' = {}
    BY <1>6
  <2> QED
    BY <1>6, <2>1 DEF FindFits
<1>12. Fits(q)'
  BY <1>9, <1>10, <1>11 DEF Fits
<1>13. Maps'
  <2>1. finding' \in [x : {-1} \cup Elements, along_the_way : Seq(Elements)] /\ roots' \in Seq(Elements)
    BY <1>6 DEF NoFind
  <2> QED
    BY <1>1, <1>10, <2>1 DEF PiecesInv, Maps
<1>14. AnswersFit'
  BY <1>1, <1>3 DEF AnswersFit
<1> QED
  BY <1>6, <1>8, <1>12, <1>13, <1>14 DEF PiecesInv

-----------------------------------------------------------------------------
LEMMA NextKeepsPieces ==
  ASSUME PiecesInv, [Next]_vars
  PROVE  PiecesInv'
<1>1. CASE UNCHANGED vars
  <2>1. UNCHANGED <<rooted, parent_or_size, root_names, links, call, finding, roots, canon>>
    BY <1>1 DEF vars
  <2>2. Maps'
    BY <2>1 DEF PiecesInv, Maps
  <2>3. CallFits' /\ AnswersFit' /\ Merged' = Merged
    BY <2>1 DEF PiecesInv, CallFits, AnswersFit, Component, Merged
  <2>4. PICK r \in [Elements -> Elements] : Fits(r)
    BY DEF PiecesInv
  <2>5. FindFits(r)'
    BY <2>1, <2>4 DEF Fits, FindFits, Wanted
  <2>6. Fits(r)'
    BY <2>1, <2>3, <2>4, <2>5, FitsStays
  <2> QED
    BY <2>2, <2>3, <2>6 DEF PiecesInv
<1>2. CASE InCall
  BY <1>2, FindStartKeeps, FindClimbKeeps, FindReturnKeeps, ReturnMergeKeeps,
     ReturnCanonicalizeKeeps DEF InCall
<1> QED
  BY <1>1, <1>2, CallMergeKeeps, CallCanonicalizeKeeps DEF Next

LEMMA PiecesInvSound == PiecesInv => PiecesSound
<1> SUFFICES ASSUME PiecesInv PROVE PiecesSound
  OBVIOUS
<1>1. PICK r \in [Elements -> Elements] : Fits(r)
  BY DEF PiecesInv
<1>2. Nodes \in Nat /\ LIMIT \in Nat /\ DOMAIN parent_or_size \subseteq Elements
  BY BoundsAssumption, LimitAssumption DEF PiecesInv, Maps
<1>3. ASSUME NEW x \in DOMAIN parent_or_size, ~ IsParent(parent_or_size[x])
      PROVE  Size(x) = Cardinality(Component(x)) /\ Size(x) \in 1 .. Nodes
  <2>1. Size(x) = Cardinality(Class(r, x)) /\ x \in Elements
    BY <1>1, <1>2, <1>3 DEF Fits, RootsFit
  <2>2. Component(x) = Class(r, x)
    BY <1>1, <2>1 DEF Fits, Classes, Component
  <2> QED
    BY <2>1, <2>2, ClassCounts
<1>4. ASSUME NEW x \in DOMAIN parent_or_size
      PROVE  parent_or_size[x] \in Elements \cup (LIMIT + 1 .. LIMIT + Nodes)
  <2>1. CASE IsParent(parent_or_size[x])
    BY <1>1, <1>2, <2>1 DEF Fits, RootsFit
  <2>2. CASE ~ IsParent(parent_or_size[x])
    <3>1. parent_or_size[x] - LIMIT \in 1 .. Nodes /\ parent_or_size[x] \in Nat
      BY <1>3, <2>2 DEF Size, PiecesInv, Maps
    <3> QED
      BY <1>2, <3>1
  <2> QED
    BY <2>1, <2>2
<1>5. TypeOK
  BY <1>4 DEF PiecesInv, Maps, CallFits, TypeOK
<1>6. SizesCount
  BY <1>3 DEF SizesCount
<1>7. CanonicalIsLeast
  BY DEF CanonicalIsLeast, PiecesInv, AnswersFit, IsLeast
<1> QED
  BY <1>5, <1>6, <1>7 DEF PiecesSound

LEMMA PiecesKept == AllSpec => []PiecesInv
<1>1. AllInit => PiecesInv
  BY InitPieces DEF AllInit
<1>2. PiecesInv /\ [AllNext]_all => PiecesInv'
  <2>1. [AllNext]_all => [Next]_vars
    BY DEF AllNext, Pieces, Neighbours, Boxes, Texts, all
  <2> QED
    BY <2>1, NextKeepsPieces
<1> QED
  BY <1>1, <1>2, PTL DEF AllSpec

(* For any number of nodes and any links, merged and asked about in any    *)
(* order, with calls of find that return or not: every answer of           *)
(* canonicalize is the least node connected to the one asked for, and      *)
(* every root's size is that of its set.                                   *)
THEOREM ComponentsAreNamed == AllSpec => []PiecesSound
  BY PiecesKept, PiecesInvSound, PTL

-----------------------------------------------------------------------------
(* The powers of two.                                                      *)

Doubles(T) == 1 \in T /\ \A t \in T : 2 * t \in T

Powers == {p \in Nat \ {0} : \A T \in SUBSET Nat : Doubles(T) => p \in T}

LEMMA PowersDouble == Doubles(Powers)
<1>1. 1 \in Powers
  BY DEF Powers, Doubles
<1>2. ASSUME NEW p \in Powers PROVE 2 * p \in Powers
  <2>1. p \in Nat \ {0} /\ 2 * p \in Nat \ {0}
    BY DEF Powers
  <2> QED
    BY <2>1 DEF Powers, Doubles
<1> QED
  BY <1>1, <1>2 DEF Doubles

LEMMA PowersHalve ==
  ASSUME NEW p \in Powers
  PROVE  p = 1 \/ \E h \in Powers : p = 2 * h
<1> DEFINE T == {t \in Powers : t = 1 \/ \E h \in Powers : t = 2 * h}
<1>1. Doubles(T)
  BY PowersDouble DEF Doubles
<1>2. T \in SUBSET Nat
  BY DEF Powers
<1>3. p \in T
  <2> HIDE DEF T
  <2> QED
    BY <1>1, <1>2 DEF Powers
<1> QED
  BY <1>3

LEMMA NextPowerIsOne ==
  ASSUME NEW n \in Nat
  PROVE  NextPowerOfTwo(n) \in Powers /\ n <= NextPowerOfTwo(n)
<1> DEFINE step == [p \in Powers |-> IF p >= n THEN p ELSE 2 * p]
           Solves(f) == f = [k \in 0 .. n |-> IF k = 0 THEN 1 ELSE
                             LET p == f[k - 1] IN IF p >= n THEN p ELSE 2 * p]
           F == CHOOSE f : Solves(f)
<1>1. 1 \in Powers /\ step \in [Powers -> Powers] /\ Powers \subseteq Nat \ {0}
  BY PowersDouble DEF Doubles, Powers
<1>2. PICK f \in [0 .. n -> Powers] :
        \A k \in 0 .. n : f[k] = IF k = 0 THEN 1 ELSE step[f[k - 1]]
  <2> HIDE DEF step
  <2>1. CanRepeat(Powers, 1, n, step)
    BY <1>1, Iterates
  <2> QED
    BY <2>1 DEF CanRepeat
<1>3. Solves(f)
  <2>1. ASSUME NEW k \in 0 .. n, k # 0
        PROVE  step[f[k - 1]] = IF f[k - 1] >= n THEN f[k - 1] ELSE 2 * f[k - 1]
    <3>1. k - 1 \in 0 .. n
      BY <2>1
    <3>2. f[k - 1] \in Powers
      BY <1>2, <3>1, Zenon
    <3> QED
      BY <3>2
  <2> HIDE DEF step
  <2>2. \A k \in 0 .. n : f[k] = IF k = 0 THEN 1 ELSE
                             LET p == f[k - 1] IN IF p >= n THEN p ELSE 2 * p
    BY <1>2, <2>1
  <2>3. f = [k \in 0 .. n |-> f[k]]
    BY <1>2
  <2> QED
    BY <2>2, <2>3
<1>4. Solves(F)
  <2> HIDE DEF Solves
  <2> QED
    BY <1>3
<1>5. NextPowerOfTwo(n) = F[n]
  BY DEF NextPowerOfTwo
<1> DEFINE T == {k \in Nat : k <= n => F[k] \in Powers /\ (F[k] >= n \/ F[k] >= k + 1)}
<1>6. 0 \in T
  <2>1. F[0] = 1
    <3> HIDE DEF F
    <3> QED
      BY <1>4
  <2> HIDE DEF F
  <2> QED
    BY <2>1, <1>1
<1>7. ASSUME NEW k \in Nat, k \in T PROVE k + 1 \in T
  <2> HIDE DEF F
  <2> SUFFICES ASSUME k + 1 <= n
               PROVE  F[k + 1] \in Powers /\ (F[k + 1] >= n \/ F[k + 1] >= (k + 1) + 1)
    OBVIOUS
  <2>1. F[k] \in Powers /\ (F[k] >= n \/ F[k] >= k + 1)
    BY <1>7
  <2>2. k + 1 \in 0 .. n /\ k + 1 # 0 /\ (k + 1) - 1 = k
    OBVIOUS
  <2>3. F[k + 1] = IF F[k] >= n THEN F[k] ELSE 2 * F[k]
    BY <1>4, <2>2
  <2>4. 2 * F[k] \in Powers /\ F[k] \in Nat \ {0}
    BY <2>1, <1>1, PowersDouble DEF Doubles
  <2> HIDE DEF Solves, step, T
  <2> QED
    BY <2>1, <2>3, <2>4
<1>8. n \in T
  <2> HIDE DEF T
  <2> QED
    BY <1>6, <1>7, Induction
<1>9. F[n] \in Powers /\ F[n] >= n
  <2>1. F[n] \in Powers /\ (F[n] >= n \/ F[n] >= n + 1)
    BY <1>8
  <2>2. F[n] \in Nat
    BY <1>1, <2>1
  <2> HIDE DEF F
  <2> QED
    BY <2>1, <2>2
<1> QED
  BY <1>5, <1>9, <1>1

-----------------------------------------------------------------------------
(* The shares of the calls of build_in, for any number of points: what     *)
(* halving a share, and its halves, leads to.                              *)

\* For len points there are twice a power of two less one slots, and the
\* power is no less than len.
Shares ==
  {s \in [at : Nat, size : Nat, first : Nat, len : Nat] :
     s.len >= 1 /\ \E p \in Powers : s.len <= p /\ 2 * p - 1 <= s.size}

Inside(y, s) ==
  /\ s.at <= y.at /\ y.at + y.size <= s.at + s.size
  /\ s.first <= y.first /\ y.first + y.len <= s.first + s.len

Before(y, z) == y.at + y.size <= z.at /\ y.first + y.len <= z.first

Apart(y, z) == Before(y, z) \/ Before(z, y)

Halves(s) == IF s.len > 1 THEN {Left(s), Right(s)} ELSE {}

ClosedUnder(T) == \A t \in T : Halves(t) \subseteq T

\* s, its halves, their halves and so on.
Under(s) == {y \in Shares : \A T \in SUBSET Shares : s \in T /\ ClosedUnder(T) => y \in T}

LEMMA ShareParts ==
  ASSUME NEW s \in Shares
  PROVE  s.at \in Nat /\ s.size \in Nat /\ s.first \in Nat /\ s.len \in Nat
           /\ s.len >= 1 /\ s.size >= 1
  BY DEF Shares, Powers

LEMMA HalvesFit ==
  ASSUME NEW s \in Shares, s.len > 1
  PROVE  /\ Left(s) \in Shares /\ Right(s) \in Shares
         /\ Inside(Left(s), s) /\ Inside(Right(s), s) /\ Before(Left(s), Right(s))
         /\ Left(s).at > s.at /\ Right(s).at > s.at
         /\ Left(s).len < s.len /\ Right(s).len < s.len
         /\ Left(s).first = s.first /\ Right(s).first = s.first + Left(s).len
         /\ Left(s).len + Right(s).len = s.len
<1> DEFINE half == s.len \div 2
           slots == (s.size - 1) \div 2
<1>1. s.at \in Nat /\ s.size \in Nat /\ s.first \in Nat /\ s.len \in Nat
  BY ShareParts
<1>2. PICK p \in Powers : s.len <= p /\ 2 * p - 1 <= s.size
  BY DEF Shares
<1>3. PICK h \in Powers : p = 2 * h
  BY <1>1, <1>2, PowersHalve DEF Powers
<1>4. h \in Nat /\ h >= 1
  BY DEF Powers
<1>5. half \in Nat /\ half >= 1 /\ half <= h /\ s.len - half >= 1 /\ s.len - half <= h
  BY <1>1, <1>2, <1>3, <1>4
<1>6. /\ slots \in Nat /\ 2 * h - 1 <= slots
      /\ s.size - 1 - slots \in Nat /\ 2 * h - 1 <= s.size - 1 - slots
  BY <1>1, <1>2, <1>3, <1>4
<1>7. Left(s) = [at |-> s.at + 1, size |-> slots, first |-> s.first, len |-> half]
  BY DEF Left, Share
<1>8. Right(s) = [at |-> s.at + 1 + slots, size |-> s.size - 1 - slots,
                  first |-> s.first + half, len |-> s.len - half]
  BY DEF Right, Share
<1> HIDE DEF half, slots
<1>9. Left(s) \in Shares
  BY <1>1, <1>4, <1>5, <1>6, <1>7 DEF Shares
<1>10. Right(s) \in Shares
  BY <1>1, <1>4, <1>5, <1>6, <1>8 DEF Shares
<1>11. Inside(Left(s), s) /\ Left(s).at > s.at /\ Left(s).len < s.len /\ Left(s).first = s.first
  BY <1>1, <1>5, <1>6, <1>7 DEF Inside
<1>12. Inside(Right(s), s) /\ Right(s).at > s.at /\ Right(s).len < s.len
  BY <1>1, <1>5, <1>6, <1>8 DEF Inside
<1>13. /\ Before(Left(s), Right(s))
       /\ Right(s).first = s.first + Left(s).len /\ Left(s).len + Right(s).len = s.len
  BY <1>1, <1>5, <1>6, <1>7, <1>8 DEF Before
<1> QED
  BY <1>9, <1>10, <1>11, <1>12, <1>13

LEMMA HalfFits ==
  ASSUME NEW s \in Shares, NEW c \in Halves(s)
  PROVE  s.len > 1 /\ c \in Shares /\ Inside(c, s) /\ c.at > s.at /\ c.len < s.len
  BY HalvesFit DEF Halves

LEMMA WholeIsShare ==
  ASSUME NEW n \in Nat \ {0}
  PROVE  Share(0, BufferLength(n), 1, n) \in Shares
<1>1. NextPowerOfTwo(n) \in Powers /\ n <= NextPowerOfTwo(n) /\ NextPowerOfTwo(n) \in Nat
  BY NextPowerIsOne DEF Powers
<1>2. Share(0, BufferLength(n), 1, n)
        = [at |-> 0, size |-> 2 * NextPowerOfTwo(n), first |-> 1, len |-> n]
  BY DEF Share, BufferLength
<1> QED
  BY <1>1, <1>2 DEF Shares

LEMMA InsideInside ==
  ASSUME NEW x \in Shares, NEW y \in Shares, NEW z \in Shares, Inside(x, y), Inside(y, z)
  PROVE  Inside(x, z)
  BY ShareParts DEF Inside

LEMMA ApartInside ==
  ASSUME NEW x \in Shares, NEW y \in Shares, NEW v \in Shares, NEW w \in Shares,
         Inside(x, v), Inside(y, w), Before(v, w)
  PROVE  Before(x, y)
<1>1. x.at + x.size <= y.at
  BY ShareParts DEF Inside, Before
<1>2. x.first + x.len <= y.first
  BY ShareParts DEF Inside, Before
<1> QED
  BY <1>1, <1>2 DEF Before

LEMMA UnderHolds ==
  ASSUME NEW s \in Shares
  PROVE  s \in Under(s) /\ Under(s) \subseteq Shares /\ ClosedUnder(Under(s))
<1>1. s \in Under(s) /\ Under(s) \subseteq Shares
  BY DEF Under
<1>2. ASSUME NEW y \in Under(s), NEW c \in Halves(y) PROVE c \in Under(s)
  <2>1. y \in Shares /\ c \in Shares
    BY <1>1, HalfFits
  <2>2. ASSUME NEW T \in SUBSET Shares, s \in T, ClosedUnder(T) PROVE c \in T
    BY <2>2 DEF Under, ClosedUnder
  <2> QED
    BY <2>1, <2>2 DEF Under
<1> QED
  BY <1>1, <1>2 DEF ClosedUnder

(* Induction over the shares under s.                                      *)
LEMMA UnderLeast ==
  ASSUME NEW s \in Shares, NEW T, s \in T, \A y \in Under(s) : y \in T => Halves(y) \subseteq T
  PROVE  Under(s) \subseteq T
<1> DEFINE U == {y \in Under(s) : y \in T}
<1>1. s \in U /\ U \in SUBSET Shares
  BY UnderHolds
<1>2. ClosedUnder(U)
  BY UnderHolds DEF ClosedUnder
<1>3. Under(s) \subseteq U
  <2> HIDE DEF U
  <2> QED
    BY <1>1, <1>2 DEF Under
<1> QED
  BY <1>3

LEMMA UnderInside ==
  ASSUME NEW s \in Shares, NEW y \in Under(s)
  PROVE  y \in Shares /\ Inside(y, s)
<1> DEFINE T == {z \in Shares : Inside(z, s)}
<1>1. s \in T
  BY ShareParts DEF Inside
<1>2. ASSUME NEW z \in T, NEW c \in Halves(z) PROVE c \in T
  BY HalfFits, InsideInside
<1>3. Under(s) \subseteq T
  <2> HIDE DEF T
  <2> QED
    BY <1>1, <1>2, UnderLeast
<1> QED
  BY <1>3

LEMMA UnderUnder ==
  ASSUME NEW s \in Shares, NEW y \in Under(s)
  PROVE  Under(y) \subseteq Under(s)
<1>1. y \in Shares
  BY UnderHolds
<1>2. Under(y) \subseteq Shares
  BY <1>1, UnderHolds
<1>3. \A z \in Under(y) : z \in Under(s) => Halves(z) \subseteq Under(s)
  BY UnderHolds DEF ClosedUnder
<1> QED
  BY <1>1, <1>3, UnderLeast

(* What is under s is s, or under one of its halves.                       *)
LEMMA UnderSplits ==
  ASSUME NEW s \in Shares, NEW y \in Under(s), y # s
  PROVE  \E c \in Halves(s) : y \in Under(c)
<1> DEFINE T == {s} \cup UNION {Under(c) : c \in Halves(s)}
<1>1. ASSUME NEW z \in T, NEW c \in Halves(z) PROVE c \in T
  <2>1. CASE z = s
    <3>1. c \in Shares /\ c \in Under(c)
      BY <2>1, HalfFits, UnderHolds
    <3> QED
      BY <2>1, <3>1
  <2>2. CASE z # s
    <3>1. PICK d \in Halves(s) : z \in Under(d)
      BY <2>2
    <3>2. d \in Shares
      BY HalfFits
    <3>3. c \in Under(d)
      BY <3>1, <3>2, UnderHolds DEF ClosedUnder
    <3> QED
      BY <3>3
  <2> QED
    BY <2>1, <2>2
<1>2. Under(s) \subseteq T
  <2>1. s \in T
    OBVIOUS
  <2> HIDE DEF T
  <2> QED
    BY <1>1, <2>1, UnderLeast
<1> QED
  BY <1>2

LEMMA HalfIsUnder ==
  ASSUME NEW s \in Shares, NEW c \in Halves(s)
  PROVE  c \in Under(s)
  BY UnderHolds DEF ClosedUnder

LEMMA UnderDeeper ==
  ASSUME NEW s \in Shares, NEW y \in Under(s), y # s
  PROVE  s.len > 1 /\ y.at > s.at /\ y.len < s.len
<1>1. PICK c \in Halves(s) : y \in Under(c)
  BY UnderSplits
<1>2. c \in Shares /\ s.len > 1 /\ c.at > s.at /\ c.len < s.len
  BY HalfFits
<1>3. y \in Shares /\ Inside(y, c)
  BY <1>1, <1>2, UnderInside
<1>4. c.at <= y.at
  BY <1>3 DEF Inside
<1>5. y.len <= c.len
  BY <1>2, <1>3, ShareParts DEF Inside
<1> QED
  BY <1>2, <1>3, <1>4, <1>5, ShareParts

(* Of two shares under s one is under the other, or they are apart.        *)
Related(y, z) == y \in Under(z) \/ z \in Under(y) \/ Apart(y, z)

LEMMA UnderRelated ==
  ASSUME NEW s \in Shares
  PROVE  \A y, z \in Under(s) : Related(y, z)
<1> DEFINE T == {n \in Nat : \A t \in Shares : t.len <= n => \A y, z \in Under(t) : Related(y, z)}
<1>1. 0 \in T
  BY ShareParts
<1>2. ASSUME NEW n \in Nat, n \in T PROVE n + 1 \in T
  <2>1. ASSUME NEW t \in Shares, t.len <= n + 1, NEW y \in Under(t), NEW z \in Under(t),
               y # t, z # t
        PROVE  Related(y, z)
    <3>1. PICK c \in Halves(t) : y \in Under(c)
      BY <2>1, UnderSplits
    <3>2. PICK d \in Halves(t) : z \in Under(d)
      BY <2>1, UnderSplits
    <3>3. t.len > 1 /\ c \in Shares /\ d \in Shares /\ c.len < t.len
      BY HalfFits
    <3>4. CASE c = d
      <4>1. c.len <= n
        BY <2>1, <3>3, ShareParts
      <4> QED
        BY <1>2, <3>1, <3>2, <3>3, <3>4, <4>1
    <3>5. CASE c # d
      <4>1. Before(c, d) \/ Before(d, c)
        BY <3>3, <3>5, HalvesFit DEF Halves
      <4>2. y \in Shares /\ Inside(y, c) /\ z \in Shares /\ Inside(z, d)
        BY <3>1, <3>2, <3>3, UnderInside
      <4>3. Before(y, z) \/ Before(z, y)
        BY <3>3, <4>1, <4>2, ApartInside
      <4> QED
        BY <4>3 DEF Related, Apart
    <3> QED
      BY <3>4, <3>5
  <2>2. ASSUME NEW t \in Shares, t.len <= n + 1, NEW y \in Under(t), NEW z \in Under(t)
        PROVE  Related(y, z)
    BY <2>1, <2>2 DEF Related
  <2> QED
    BY <2>2
<1>3. s.len \in T
  <2>1. s.len \in Nat
    BY ShareParts
  <2> HIDE DEF T
  <2> QED
    BY <1>1, <1>2, <2>1, Induction
<1> QED
  BY <1>3, ShareParts

LEMMA NotApart ==
  ASSUME NEW y \in Shares, NEW z \in Shares, NEW w \in Shares, Inside(w, y), Inside(w, z)
  PROVE  ~ Apart(y, z)
<1>1. /\ y.at \in Nat /\ y.size \in Nat /\ z.at \in Nat /\ z.size \in Nat
      /\ w.at \in Nat /\ w.size \in Nat /\ w.size >= 1
  BY ShareParts
<1>2. y.at <= w.at /\ w.at + w.size <= y.at + y.size /\ z.at <= w.at /\ w.at + w.size <= z.at + z.size
  BY DEF Inside
<1>3. ~ (y.at + y.size <= z.at) /\ ~ (z.at + z.size <= y.at)
  BY <1>1, <1>2
<1> QED
  BY <1>3 DEF Apart, Before

(* A slot is the first of one share only.                                  *)
LEMMA SlotsDiffer ==
  ASSUME NEW s \in Shares, NEW y \in Under(s), NEW z \in Under(s), y.at = z.at
  PROVE  y = z
<1>1. y \in Shares /\ z \in Shares
  BY UnderHolds
<1>2. y \in Under(z) => y = z
  BY <1>1, UnderDeeper, ShareParts
<1>3. z \in Under(y) => y = z
  BY <1>1, UnderDeeper, ShareParts
<1>4. ~ Apart(y, z)
  BY <1>1, ShareParts DEF Apart, Before
<1> QED
  BY <1>2, <1>3, <1>4, UnderRelated DEF Related

(* A share is a half of one share only.                                    *)
LEMMA OneParent ==
  ASSUME NEW s \in Shares, NEW p \in Under(s), NEW q \in Under(s),
         NEW c \in Halves(p), c \in Halves(q)
  PROVE  p = q
<1>1. p \in Shares /\ q \in Shares
  BY UnderHolds
<1>2. /\ p.len > 1 /\ c \in Shares /\ Inside(c, p) /\ c.at > p.at
      /\ q.len > 1 /\ Inside(c, q) /\ c.at > q.at
  BY <1>1, HalfFits
<1>3. ASSUME NEW v \in Under(s), NEW w \in Under(s), w \in Shares, v \in Shares,
             c \in Halves(v), c \in Halves(w), v \in Under(w), v # w
      PROVE  FALSE
  <2>1. PICK d \in Halves(w) : v \in Under(d)
    BY <1>3, UnderSplits
  <2>2. w.len > 1 /\ d \in Shares
    BY <1>3, HalfFits
  <2>3. Inside(v, d) /\ Inside(c, v) /\ c.at > v.at
    BY <1>3, <2>1, <2>2, UnderInside, HalfFits
  <2>4. CASE c = d
    <3>1. c.at <= v.at
      BY <2>3, <2>4 DEF Inside
    <3> QED
      BY <1>2, <1>3, <2>3, <3>1, ShareParts
  <2>5. CASE c # d
    <3>1. Apart(c, d)
      BY <1>3, <2>2, <2>5, HalvesFit DEF Halves, Apart
    <3>2. Inside(c, d)
      BY <1>2, <1>3, <2>2, <2>3, InsideInside
    <3>3. Inside(c, c)
      BY <1>2, ShareParts DEF Inside
    <3> QED
      BY <1>2, <2>2, <3>1, <3>2, <3>3, NotApart
  <2> QED
    BY <2>4, <2>5
<1>4. ~ Apart(p, q)
  BY <1>1, <1>2, NotApart
<1> QED
  BY <1>1, <1>3, <1>4, UnderRelated DEF Related

-----------------------------------------------------------------------------
(* The building of the tree, for any number of points and any threshold.   *)

Begun(s) == s \in tasks \cup joins \/ Built(s)

\* A share whose halves may have begun.
Open(s) == s \in joins \/ Built(s)

Content(s) == IF s.len = 1 THEN Leaf(s.first) ELSE Split(s.len)

CallsFit(W) ==
  /\ tasks \subseteq Under(W) /\ joins \subseteq Under(W) /\ tasks \cap joins = {}
  /\ \A s \in tasks \cup joins : ~ Built(s)
  /\ \A s \in joins : s.len > 1

\* What is built is right, and built on what is.
TreeFits(W) ==
  \A s \in Under(W) : Built(s) => /\ tree[s.at] = Content(s)
                                  /\ \A c \in Halves(s) : Built(c)

\* A half begins once its share waits for it; nothing begins otherwise.
ParentsOpen(W) == \A s \in Under(W) : \A c \in Halves(s) : Begun(c) => Open(s)

BoxesFit(W) == CallsFit(W) /\ TreeFits(W) /\ ParentsOpen(W) /\ Begun(W)

BoxesInv == count \in Nat \ {0} /\ BoxesFit(Whole)

LEMMA BoxesInitFit == BoxesInit => BoxesInv
<1> SUFFICES ASSUME BoxesInit PROVE BoxesInv
  OBVIOUS
<1>1. count \in Nat \ {0} /\ tasks = {Whole} /\ joins = {}
  BY PointsAssumption DEF BoxesInit
<1>2. \A s : ~ Built(s)
  BY DEF BoxesInit, Built
<1>3. Whole \in Shares
  BY <1>1, WholeIsShare DEF Whole
<1>4. CallsFit(Whole)
  BY <1>1, <1>2, <1>3, UnderHolds DEF CallsFit
<1>5. TreeFits(Whole)
  BY <1>2 DEF TreeFits
<1>6. ParentsOpen(Whole)
  <2>1. ASSUME NEW s \in Under(Whole), NEW c \in Halves(s), c = Whole PROVE FALSE
    <3>1. s \in Shares /\ Inside(s, Whole)
      BY <1>3, UnderInside
    <3>2. c.at > s.at /\ Whole.at <= s.at
      BY <3>1, HalfFits DEF Inside
    <3> QED
      BY <1>3, <2>1, <3>1, <3>2, ShareParts
  <2> QED
    BY <1>1, <1>2, <2>1 DEF ParentsOpen, Begun
<1> QED
  BY <1>1, <1>4, <1>5, <1>6 DEF BoxesInv, BoxesFit, Begun

(* Building a share that was begun, whose halves are built, keeps TreeFits *)
(* and ParentsOpen.                                                        *)
LEMMA BuildingFits ==
  ASSUME NEW W \in Shares, BoxesFit(W), NEW s \in Under(W), Begun(s),
         \A c \in Halves(s) : Built(c), tree' = With(tree, s.at, Content(s)),
         tasks' \cup joins' \cup {s} = tasks \cup joins, joins' \cup {s} = joins \cup {s}
  PROVE  /\ \A y \in Under(W) : Built(y)' <=> Built(y) \/ y = s
         /\ TreeFits(W)' /\ ParentsOpen(W)' /\ Begun(W)'
<1>0. /\ DOMAIN tree' = DOMAIN tree \cup {s.at} /\ tree'[s.at] = Content(s)
      /\ \A j \in DOMAIN tree : j # s.at => tree'[j] = tree[j]
  BY DEF With
<1>1. \A y : Built(y) => Built(y)'
  BY <1>0 DEF Built
<1>2. \A y \in Under(W) : Built(y)' <=> Built(y) \/ y = s
  BY <1>0, SlotsDiffer DEF Built
<1>3. TreeFits(W)'
  <2>1. ASSUME NEW y \in Under(W), Built(y)'
        PROVE  tree'[y.at] = Content(y) /\ \A c \in Halves(y) : Built(c)'
    <3>1. CASE y = s
      BY <1>0, <1>1, <3>1
    <3>2. CASE y # s
      <4>1. Built(y) /\ y.at # s.at
        BY <1>2, <2>1, <3>2, SlotsDiffer
      <4>2. tree'[y.at] = tree[y.at]
        BY <1>0, <4>1 DEF Built
      <4> QED
        BY <1>1, <4>1, <4>2 DEF BoxesFit, TreeFits
    <3> QED
      BY <3>1, <3>2
  <2> QED
    BY <2>1 DEF TreeFits
<1>4. ParentsOpen(W)'
  <2>1. ASSUME NEW y \in Under(W), NEW c \in Halves(y), Begun(c)' PROVE Open(y)'
    <3>1. c \in Under(W)
      BY UnderHolds DEF ClosedUnder
    <3>2. Begun(c)
      BY <1>2, <2>1, <3>1 DEF Begun
    <3>3. Open(y)
      BY <3>2 DEF BoxesFit, ParentsOpen
    <3> QED
      BY <1>1, <1>2, <3>3 DEF Open
  <2> QED
    BY <2>1 DEF ParentsOpen
<1>5. Begun(W)'
  <2>1. W \in Under(W)
    BY UnderHolds
  <2> QED
    BY <1>2, <2>1 DEF BoxesFit, Begun
<1> QED
  BY <1>2, <1>3, <1>4, <1>5

LEMMA BuildLeafKeeps ==
  ASSUME NEW W \in Shares, BoxesFit(W), BuildLeaf
  PROVE  BoxesFit(W)'
<1>1. PICK s \in tasks : /\ s.len = 1 /\ joins' = joins /\ tasks' = tasks \ {s}
                         /\ tree' = With(tree, s.at, Leaf(s.first))
  BY DEF BuildLeaf
<1>2. s \in Under(W) /\ Halves(s) = {} /\ Leaf(s.first) = Content(s) /\ Begun(s)
  BY <1>1 DEF BoxesFit, CallsFit, Halves, Content, Begun
<1>3. /\ \A y \in Under(W) : Built(y)' <=> Built(y) \/ y = s
      /\ TreeFits(W)' /\ ParentsOpen(W)' /\ Begun(W)'
  BY <1>1, <1>2, BuildingFits
<1>4. CallsFit(W)'
  BY <1>1, <1>3 DEF BoxesFit, CallsFit
<1> QED
  BY <1>3, <1>4 DEF BoxesFit

LEMMA CombineKeeps ==
  ASSUME NEW W \in Shares, BoxesFit(W), Combine
  PROVE  BoxesFit(W)'
<1>1. PICK s \in joins : /\ Built(Left(s)) /\ Built(Right(s)) /\ tasks' = tasks
                         /\ joins' = joins \ {s} /\ tree' = With(tree, s.at, Split(s.len))
  BY DEF Combine
<1>2. /\ s \in Under(W) /\ Split(s.len) = Content(s) /\ Begun(s)
      /\ \A c \in Halves(s) : Built(c)
  BY <1>1 DEF BoxesFit, CallsFit, Halves, Content, Begun
<1>3. /\ \A y \in Under(W) : Built(y)' <=> Built(y) \/ y = s
      /\ TreeFits(W)' /\ ParentsOpen(W)' /\ Begun(W)'
  BY <1>1, <1>2, BuildingFits
<1>4. CallsFit(W)'
  BY <1>1, <1>3 DEF BoxesFit, CallsFit
<1> QED
  BY <1>3, <1>4 DEF BoxesFit

(* Halves that begin under a share that waits keep TreeFits and            *)
(* ParentsOpen.                                                            *)
LEMMA BeginningFits ==
  ASSUME NEW W \in Shares, BoxesFit(W), NEW s \in Under(W), NEW new \in SUBSET Halves(s),
         tree' = tree, tasks' \cup joins' = tasks \cup joins \cup new,
         joins \subseteq joins', s \in joins'
  PROVE  (\A y : Built(y)' <=> Built(y)) /\ TreeFits(W)' /\ ParentsOpen(W)' /\ Begun(W)'
<1>1. \A y : Built(y)' <=> Built(y)
  BY DEF Built
<1>2. TreeFits(W)'
  BY <1>1 DEF BoxesFit, TreeFits
<1>3. ParentsOpen(W)'
  <2>1. ASSUME NEW y \in Under(W), NEW c \in Halves(y), Begun(c)' PROVE Open(y)'
    <3>1. CASE Begun(c)
      <4>1. Open(y)
        BY <3>1 DEF BoxesFit, ParentsOpen
      <4> QED
        BY <1>1, <4>1 DEF Open
    <3>2. CASE ~ Begun(c)
      <4>1. c \in Halves(s)
        BY <1>1, <2>1, <3>2 DEF Begun
      <4>2. y = s
        BY <4>1, OneParent
      <4> QED
        BY <4>2 DEF Open
    <3> QED
      BY <3>1, <3>2
  <2> QED
    BY <2>1 DEF ParentsOpen
<1>4. Begun(W)'
  BY <1>1 DEF BoxesFit, Begun
<1> QED
  BY <1>1, <1>2, <1>3, <1>4

LEMMA HalveKeeps ==
  ASSUME NEW W \in Shares, BoxesFit(W), Halve
  PROVE  BoxesFit(W)'
<1>1. PICK s \in tasks :
        /\ s.len > 1 /\ joins' = joins \cup {s} /\ tree' = tree
        /\ tasks' = (tasks \ {s}) \cup
             (IF s.len > FORK_JOIN_THRESHOLD THEN {Left(s), Right(s)} ELSE {Left(s)})
  BY DEF Halve
<1>2. PICK new \in SUBSET Halves(s) : tasks' = (tasks \ {s}) \cup new
  <2>1. Halves(s) = {Left(s), Right(s)}
    BY <1>1 DEF Halves
  <2> QED
    BY <1>1, <2>1
<1>3. s \in Under(W) /\ s \in Shares /\ ~ Open(s) /\ s \notin new
  <2>1. s \in Under(W) /\ ~ Open(s)
    BY <1>1 DEF BoxesFit, CallsFit, Open
  <2>2. s \in Shares
    BY <2>1, UnderHolds
  <2>3. s \notin Halves(s)
    BY <2>2, HalfFits, ShareParts
  <2> QED
    BY <2>1, <2>2, <2>3
<1>4. \A c \in new : c \in Under(W) /\ ~ Begun(c)
  <2>1. \A c \in Halves(s) : c \in Under(W)
    BY <1>3, UnderHolds DEF ClosedUnder
  <2> QED
    BY <1>3, <2>1 DEF BoxesFit, ParentsOpen
<1>5. (\A y : Built(y)' <=> Built(y)) /\ TreeFits(W)' /\ ParentsOpen(W)' /\ Begun(W)'
  <2>1. tasks' \cup joins' = tasks \cup joins \cup new /\ joins \subseteq joins' /\ s \in joins'
    BY <1>1, <1>2
  <2> QED
    BY <1>1, <1>3, <2>1, BeginningFits
<1>6. CallsFit(W)'
  <2>1. tasks' \subseteq Under(W) /\ joins' \subseteq Under(W) /\ \A y \in joins' : y.len > 1
    BY <1>1, <1>2, <1>3, <1>4 DEF BoxesFit, CallsFit
  <2>2. tasks' \cap joins' = {}
    BY <1>1, <1>2, <1>3, <1>4 DEF BoxesFit, CallsFit, Begun
  <2>3. \A y \in tasks' \cup joins' : ~ Built(y)'
    BY <1>1, <1>2, <1>4, <1>5 DEF BoxesFit, CallsFit, Begun
  <2> QED
    BY <2>1, <2>2, <2>3 DEF CallsFit
<1> QED
  BY <1>5, <1>6 DEF BoxesFit

LEMMA RightAfterLeftKeeps ==
  ASSUME NEW W \in Shares, BoxesFit(W), RightAfterLeft
  PROVE  BoxesFit(W)'
<1>1. PICK s \in joins : /\ ~ Built(Right(s)) /\ Right(s) \notin tasks \cup joins
                         /\ tasks' = tasks \cup {Right(s)} /\ joins' = joins /\ tree' = tree
  BY DEF RightAfterLeft
<1>2. s \in Under(W) /\ s.len > 1 /\ Right(s) \in Halves(s)
  BY <1>1 DEF BoxesFit, CallsFit, Halves
<1>3. Right(s) \in Under(W)
  BY <1>2, UnderHolds DEF ClosedUnder
<1>4. (\A y : Built(y)' <=> Built(y)) /\ TreeFits(W)' /\ ParentsOpen(W)' /\ Begun(W)'
  <2>1. {Right(s)} \in SUBSET Halves(s)
    BY <1>2
  <2>2. tasks' \cup joins' = tasks \cup joins \cup {Right(s)}
    BY <1>1
  <2> QED
    BY <1>1, <1>2, <2>1, <2>2, BeginningFits
<1>5. CallsFit(W)'
  BY <1>1, <1>3, <1>4 DEF BoxesFit, CallsFit
<1> QED
  BY <1>4, <1>5 DEF BoxesFit

LEMMA BoxesStepFits == BoxesInv /\ [BoxesNext]_boxVars => BoxesInv'
<1> SUFFICES ASSUME BoxesInv, [BoxesNext]_boxVars PROVE BoxesInv'
  OBVIOUS
<1>1. PICK W \in Shares : W = Whole
  BY WholeIsShare DEF BoxesInv, Whole
<1>2. count' = count
  BY DEF BoxesNext, BuildLeaf, Halve, RightAfterLeft, Combine, boxVars
<1>3. Whole' = W
  BY <1>1, <1>2 DEF Whole
<1>4. BoxesFit(W)
  BY <1>1 DEF BoxesInv
<1>5. BoxesFit(W)'
  <2>1. CASE BoxesNext
    BY <1>4, <2>1, BuildLeafKeeps, HalveKeeps, RightAfterLeftKeeps, CombineKeeps DEF BoxesNext
  <2>2. CASE UNCHANGED boxVars
    BY <1>4, <2>2 DEF boxVars, BoxesFit, CallsFit, TreeFits, ParentsOpen, Begun, Open, Built
  <2> QED
    BY <2>1, <2>2
<1> QED
  BY <1>2, <1>3, <1>5 DEF BoxesInv

LEMMA NothingBegunBelow ==
  ASSUME NEW W \in Shares, BoxesFit(W), NEW t \in Under(W), ~ Open(t),
         NEW y \in Under(t), y # t
  PROVE  ~ Begun(y)
<1> DEFINE T == {z \in Under(t) : z = t \/ ~ Begun(z)}
<1>1. t \in Shares /\ Under(t) \subseteq Under(W)
  BY UnderHolds, UnderUnder
<1>2. ASSUME NEW z \in Under(t), z \in T, NEW c \in Halves(z) PROVE c \in T
  <2>1. c \in Under(t) /\ ~ Open(z)
    BY <1>1, <1>2, UnderHolds DEF ClosedUnder, Begun, Open
  <2> QED
    BY <1>1, <2>1 DEF BoxesFit, ParentsOpen
<1>3. Under(t) \subseteq T
  <2>1. t \in T
    BY <1>1, UnderHolds
  <2> HIDE DEF T
  <2> QED
    BY <1>1, <1>2, <2>1, UnderLeast
<1> QED
  BY <1>3

LEMMA AllBuiltBelow ==
  ASSUME NEW W \in Shares, BoxesFit(W), NEW t \in Under(W), Built(t)
  PROVE  \A y \in Under(t) : Built(y) /\ tree[y.at] = Content(y)
<1> DEFINE T == {z \in Under(t) : Built(z)}
<1>1. t \in Shares /\ Under(t) \subseteq Under(W)
  BY UnderHolds, UnderUnder
<1>2. ASSUME NEW z \in Under(t), z \in T, NEW c \in Halves(z) PROVE c \in T
  BY <1>1, <1>2, UnderHolds DEF ClosedUnder, BoxesFit, TreeFits
<1>3. Under(t) \subseteq T
  <2>1. t \in T
    BY <1>1, UnderHolds
  <2> HIDE DEF T
  <2> QED
    BY <1>1, <1>2, <2>1, UnderLeast
<1> QED
  BY <1>1, <1>3 DEF BoxesFit, TreeFits

LEMMA RoomIsFound == BoxesInv => RoomForAll
<1> SUFFICES ASSUME BoxesInv, NEW s \in tasks
             PROVE  HasRoom(s) /\ s.at + s.size <= BufferLength(count)
  BY DEF RoomForAll
<1>1. Whole \in Shares /\ BoxesFit(Whole)
  BY WholeIsShare DEF BoxesInv, Whole
<1>2. s \in Shares /\ Inside(s, Whole)
  BY <1>1, UnderInside DEF BoxesFit, CallsFit
<1>3. Whole.at = 0 /\ Whole.size = BufferLength(count)
  BY DEF Whole, Share
<1>4. HasRoom(s)
  BY <1>2, ShareParts DEF HasRoom
<1>5. s.at + s.size <= BufferLength(count)
  BY <1>1, <1>2, <1>3, ShareParts DEF Inside
<1> QED
  BY <1>4, <1>5

LEMMA SharesStayApart == BoxesInv => SharesDisjoint
<1> DEFINE Writing == tasks \cup {j \in joins : Built(Left(j)) /\ Built(Right(j))}
<1> SUFFICES ASSUME BoxesInv, NEW s \in Writing, NEW t \in Writing, s # t
             PROVE  Apart(s, t)
  BY DEF SharesDisjoint, Apart, Before
<1>1. PICK W \in Shares : W = Whole /\ BoxesFit(W)
  BY WholeIsShare DEF BoxesInv, Whole
<1>2. \A y \in Writing : /\ y \in tasks \cup joins /\ y \in Under(W) /\ y \in Shares
                         /\ ~ Built(y) /\ Begun(y)
  BY <1>1, UnderHolds DEF BoxesFit, CallsFit, Begun
<1>3. ASSUME NEW y \in Writing, NEW z \in Writing, y # z, y \in Under(z)
      PROVE  FALSE
  <2>1. CASE z \in tasks
    <3>1. ~ Open(z)
      BY <1>1, <1>2, <2>1 DEF BoxesFit, CallsFit, Open
    <3>2. ~ Begun(y)
      BY <1>1, <1>2, <1>3, <3>1, NothingBegunBelow
    <3> QED
      BY <1>2, <3>2
  <2>2. CASE z \notin tasks
    <3>1. \A c \in Halves(z) : Built(c)
      BY <2>2 DEF Halves
    <3>2. PICK c \in Halves(z) : y \in Under(c)
      BY <1>2, <1>3, UnderSplits
    <3>3. c \in Under(W)
      BY <1>1, <1>2, UnderHolds DEF ClosedUnder
    <3>4. Built(y)
      BY <1>1, <3>1, <3>2, <3>3, AllBuiltBelow
    <3> QED
      BY <1>2, <3>4
  <2> QED
    BY <2>1, <2>2
<1>4. Related(s, t)
  BY <1>1, <1>2, UnderRelated
<1> QED
  BY <1>3, <1>4 DEF Related

-----------------------------------------------------------------------------
(* What force_on finds in a tree that is built.                            *)

LEMMA LeavesUnder ==
  ASSUME NEW s \in Shares
  PROVE  {y.first : y \in {z \in Under(s) : z.len = 1}} = s.first .. s.first + s.len - 1
<1> DEFINE Points(t) == {y.first : y \in {z \in Under(t) : z.len = 1}}
           T == {n \in Nat : \A t \in Shares :
                   t.len <= n => Points(t) = t.first .. t.first + t.len - 1}
<1>1. 0 \in T
  BY ShareParts
<1>2. ASSUME NEW n \in Nat, n \in T PROVE n + 1 \in T
  <2>1. ASSUME NEW t \in Shares, t.len <= n + 1
        PROVE  Points(t) = t.first .. t.first + t.len - 1
    <3>1. CASE t.len = 1
      <4>1. \A y \in Under(t) : y = t
        BY <3>1, UnderDeeper
      <4>2. {z \in Under(t) : z.len = 1} = {t}
        BY <3>1, <4>1, UnderHolds
      <4>3. Points(t) = {t.first}
        BY <4>2
      <4>4. t.first \in Nat /\ t.first + t.len - 1 = t.first
        BY <3>1, ShareParts
      <4> HIDE DEF Points
      <4> QED
        BY <4>3, <4>4
    <3>2. CASE t.len # 1
      <4> DEFINE l == Left(t)
                 r == Right(t)
      <4>1. t.len > 1
        BY <3>2, ShareParts
      <4>2. /\ l \in Shares /\ r \in Shares /\ l.len < t.len /\ r.len < t.len
            /\ l.first = t.first /\ r.first = t.first + l.len /\ l.len + r.len = t.len
        BY <4>1, HalvesFit
      <4>3. l.len <= n /\ r.len <= n
        BY <2>1, <4>2, ShareParts
      <4>4. /\ Points(l) = l.first .. l.first + l.len - 1
            /\ Points(r) = r.first .. r.first + r.len - 1
        BY <1>2, <4>2, <4>3
      <4>5. {z \in Under(t) : z.len = 1}
              = {z \in Under(l) : z.len = 1} \cup {z \in Under(r) : z.len = 1}
        <5>1. Halves(t) = {l, r}
          BY <4>1 DEF Halves
        <5>2. Under(l) \subseteq Under(t) /\ Under(r) \subseteq Under(t)
          BY <5>1, HalfIsUnder, UnderUnder
        <5>3. \A z \in Under(t) : z # t => z \in Under(l) \/ z \in Under(r)
          BY <5>1, UnderSplits
        <5> HIDE DEF l, r
        <5> QED
          BY <3>2, <5>2, <5>3
      <4>6. Points(t) = Points(l) \cup Points(r)
        BY <4>5
      <4>7. /\ t.first \in Nat /\ t.len \in Nat /\ l.len \in Nat /\ r.len \in Nat
            /\ l.len >= 1 /\ r.len >= 1
        BY <4>2, ShareParts
      <4> HIDE DEF Points, l, r
      <4>8. Points(t) = (t.first .. t.first + l.len - 1)
                          \cup (t.first + l.len .. t.first + l.len + r.len - 1)
        BY <4>2, <4>4, <4>6
      <4>9. PICK a \in Nat, m \in Nat, n1 \in Nat :
              a = t.first /\ m = l.len /\ n1 = r.len /\ t.len = m + n1
        BY <4>2, <4>7
      <4>10. (a .. a + m - 1) \cup (a + m .. a + m + n1 - 1) = a .. a + (m + n1) - 1
        OBVIOUS
      <4> QED
        BY <4>8, <4>9, <4>10
    <3> QED
      BY <3>1, <3>2
  <2> QED
    BY <2>1
<1>3. s.len \in T
  <2>1. s.len \in Nat
    BY ShareParts
  <2> HIDE DEF T
  <2> QED
    BY <1>1, <1>2, <2>1, Induction
<1> QED
  BY <1>3, ShareParts

LEMMA WalkIsUnder ==
  ASSUME NEW W \in Shares, BoxesFit(W), NEW s \in Under(W), Built(s), count \in Nat, s.len <= count
  PROVE  Walk(s) = Under(s)
<1> DEFINE S == SUBSET [at : Int, size : Int, first : Int, len : Int]
           Step(X) == LET split == {sh \in X : tree[sh.at].kind = "Split"}
                      IN  {Left(sh) : sh \in split} \cup {Right(sh) : sh \in split}
           step == [X \in S |-> Step(X)]
           Solves(f) == f = [d \in 0 .. count |-> IF d = 0 THEN {s} ELSE Step(f[d - 1])]
           level == CHOOSE f : Solves(f)
<1>1. s \in Shares
  BY UnderHolds
<1>2. step \in [S -> S] /\ {s} \in S
  <2>1. ASSUME NEW X \in S PROVE Step(X) \in S
    <3>1. \A sh \in X : Left(sh) \in [at : Int, size : Int, first : Int, len : Int]
      BY DEF Left, Share
    <3>2. \A sh \in X : Right(sh) \in [at : Int, size : Int, first : Int, len : Int]
      BY DEF Right, Share
    <3> QED
      BY <3>1, <3>2
  <2>2. {s} \in S
    BY <1>1 DEF Shares
  <2> HIDE DEF S, Step
  <2> QED
    BY <2>1, <2>2
<1>3. PICK g \in [0 .. count -> S] :
        \A d \in 0 .. count : g[d] = IF d = 0 THEN {s} ELSE step[g[d - 1]]
  <2> HIDE DEF S, step
  <2>1. CanRepeat(S, {s}, count, step)
    BY <1>2, Iterates
  <2> QED
    BY <2>1 DEF CanRepeat
<1>4. Solves(g)
  <2>1. ASSUME NEW d \in 0 .. count, d # 0 PROVE step[g[d - 1]] = Step(g[d - 1])
    <3>1. d - 1 \in 0 .. count
      BY <2>1
    <3>2. g[d - 1] \in S
      BY <1>3, <3>1, Zenon
    <3> HIDE DEF S, Step
    <3> QED
      BY <3>2
  <2> HIDE DEF S, step, Step
  <2>2. \A d \in 0 .. count : g[d] = IF d = 0 THEN {s} ELSE Step(g[d - 1])
    BY <1>3, <2>1
  <2>3. g = [d \in 0 .. count |-> g[d]]
    BY <1>3
  <2> QED
    BY <2>2, <2>3
<1>5. Solves(level)
  <2> HIDE DEF Solves
  <2> QED
    BY <1>4
<1>6. Walk(s) = UNION {level[d] : d \in 0 .. count}
  BY DEF Walk
<1>7. level[0] = {s} /\ \A d \in 0 .. count : d + 1 \in 0 .. count => level[d + 1] = Step(level[d])
  <2>1. level[0] = {s}
    <3> HIDE DEF level, Step
    <3> QED
      BY <1>5
  <2>2. ASSUME NEW d \in 0 .. count, d + 1 \in 0 .. count PROVE level[d + 1] = Step(level[d])
    <3>1. d + 1 # 0 /\ (d + 1) - 1 = d
      OBVIOUS
    <3> HIDE DEF level, Step
    <3> QED
      BY <1>5, <2>2, <3>1
  <2> QED
    BY <2>1, <2>2
<1> HIDE DEF level
<1>8. ASSUME NEW y \in Under(s)
      PROVE  /\ y \in Shares /\ Halves(y) \subseteq Under(s)
             /\ tree[y.at].kind = "Split" <=> y.len > 1
             /\ tree[y.at].kind = "Split" => Halves(y) = {Left(y), Right(y)}
  <2>1. y \in Shares /\ Halves(y) \subseteq Under(s)
    BY <1>1, UnderHolds DEF ClosedUnder
  <2>2. tree[y.at].kind = "Split" <=> y.len # 1
    <3>1. tree[y.at] = Content(y)
      BY AllBuiltBelow
    <3> QED
      BY <3>1 DEF Content, Leaf, Split
  <2>3. y.len # 1 <=> y.len > 1
    BY <2>1, ShareParts
  <2> QED
    BY <2>1, <2>2, <2>3 DEF Halves
<1> DEFINE T == {d \in Nat : d <= count => \A y \in level[d] : y \in Under(s) /\ y.len + d <= count}
<1>9. 0 \in T
  <2>1. s \in Under(s) /\ s.len + 0 <= count
    BY <1>1, UnderHolds, ShareParts
  <2> QED
    BY <1>7, <2>1
<1>10. ASSUME NEW d \in Nat, d \in T PROVE d + 1 \in T
  <2> SUFFICES ASSUME d + 1 <= count, NEW y \in level[d + 1]
               PROVE  y \in Under(s) /\ y.len + (d + 1) <= count
    OBVIOUS
  <2>1. d \in 0 .. count /\ d + 1 \in 0 .. count
    OBVIOUS
  <2>2. PICK x \in level[d] : tree[x.at].kind = "Split" /\ (y = Left(x) \/ y = Right(x))
    BY <1>7, <2>1
  <2>3. x \in Under(s) /\ x.len + d <= count
    BY <1>10, <2>1
  <2>4. x \in Shares /\ Halves(x) \subseteq Under(s) /\ y \in Halves(x)
    BY <1>8, <2>2, <2>3
  <2>5. y \in Shares /\ y.len < x.len
    BY <2>4, HalfFits
  <2>6. y.len + (d + 1) <= count
    BY <2>3, <2>4, <2>5, ShareParts
  <2> QED
    BY <2>4, <2>6
<1>11. \A d \in 0 .. count : \A y \in level[d] : y \in Under(s) /\ y.len + d <= count
  <2>1. Nat \subseteq T
    <3> HIDE DEF T
    <3> QED
      BY <1>9, <1>10, Induction
  <2> QED
    BY <2>1
<1>12. Walk(s) \subseteq Under(s)
  BY <1>6, <1>11
<1>13. ASSUME NEW y \in Under(s), y \in Walk(s) PROVE Halves(y) \subseteq Walk(s)
  <2>1. PICK d \in 0 .. count : y \in level[d]
    BY <1>6, <1>13
  <2>2. CASE y.len > 1
    <3>1. d + 1 \in 0 .. count
      BY <1>8, <1>11, <2>1, <2>2, ShareParts
    <3>2. Halves(y) \subseteq Step(level[d])
      BY <1>8, <2>1, <2>2
    <3> HIDE DEF Step
    <3> QED
      BY <1>6, <1>7, <3>1, <3>2
  <2>3. CASE ~ (y.len > 1)
    BY <2>3 DEF Halves
  <2> QED
    BY <2>2, <2>3
<1>14. s \in Walk(s)
  <2>1. 0 \in 0 .. count
    OBVIOUS
  <2> QED
    BY <1>6, <1>7, <2>1
<1>15. Under(s) \subseteq Walk(s)
  BY <1>1, <1>13, <1>14, UnderLeast
<1> QED
  BY <1>12, <1>15

LEMMA BelowIsAll ==
  ASSUME NEW W \in Shares, BoxesFit(W), NEW s \in Under(W), Built(s), count \in Nat, s.len <= count
  PROVE  Below(s) = s.first .. s.first + s.len - 1 /\ Cardinality(Below(s)) = s.len
<1>1. s \in Shares /\ Walk(s) = Under(s)
  BY UnderHolds, WalkIsUnder
<1>2. ASSUME NEW y \in Under(s)
      PROVE  /\ tree[y.at].kind = "Leaf" <=> y.len = 1
             /\ y.len = 1 => tree[y.at].point = y.first
  <2>1. tree[y.at] = Content(y)
    BY AllBuiltBelow
  <2> QED
    BY <2>1 DEF Content, Leaf, Split
<1>3. Below(s) = {y.first : y \in {z \in Under(s) : z.len = 1}}
  BY <1>1, <1>2 DEF Below
<1>4. Below(s) = s.first .. s.first + s.len - 1
  BY <1>1, <1>3, LeavesUnder
<1>5. s.first \in Nat /\ s.len \in Nat /\ s.len >= 1
  BY <1>1, ShareParts
<1>6. Cardinality(s.first .. s.first + s.len - 1) = s.len
  <2>1. s.first + s.len - 1 \in Int /\ ~ (s.first > s.first + s.len - 1)
    BY <1>5
  <2>2. PICK last \in Int : last = s.first + s.len - 1
    BY <2>1
  <2>3. Cardinality(s.first .. last) = last - s.first + 1
    <3>1. PICK first \in Int : first = s.first /\ ~ (first > last)
      BY <1>5, <2>1, <2>2
    <3>2. Cardinality(first .. last) = last - first + 1
      BY <3>1, FS_Interval
    <3> QED
      BY <3>1, <3>2
  <2>4. last - s.first + 1 = s.len
    BY <1>5, <2>2
  <2> QED
    BY <2>2, <2>3, <2>4
<1> QED
  BY <1>4, <1>6

LEMMA EveryPointIsFound == BoxesInv => EveryPointPulls
<1> SUFFICES ASSUME BoxesInv, tasks = {}, joins = {}
             PROVE  Below(Whole) = 1 .. count /\ MassesAgree(Whole)
  BY DEF EveryPointPulls
<1>1. PICK W \in Shares : W = Whole /\ BoxesFit(W)
  BY WholeIsShare DEF BoxesInv, Whole
<1>2. Built(W) /\ W \in Under(W) /\ count \in Nat /\ W.len = count /\ W.first = 1
  BY <1>1, UnderHolds DEF BoxesInv, BoxesFit, Begun, Whole, Share
<1>3. Below(W) = 1 .. count
  <2>1. Below(W) = 1 .. 1 + count - 1
    BY <1>1, <1>2, BelowIsAll
  <2>2. 1 + count - 1 = count
    BY <1>2
  <2> QED
    BY <2>1, <2>2
<1>4. ASSUME NEW y \in Under(W) PROVE tree[y.at].mass = Cardinality(Below(y))
  <2>1. Built(y) /\ tree[y.at] = Content(y) /\ y \in Shares /\ y.len <= count
    <3>1. Built(y) /\ tree[y.at] = Content(y)
      BY <1>1, <1>2, AllBuiltBelow
    <3>2. y \in Shares /\ (y # W => y.len < W.len)
      BY UnderHolds, UnderDeeper
    <3> QED
      BY <1>2, <3>1, <3>2, ShareParts
  <2>2. Cardinality(Below(y)) = y.len
    BY <1>1, <1>2, <2>1, BelowIsAll
  <2>3. tree[y.at].mass = y.len
    BY <2>1 DEF Content, Leaf, Split
  <2> QED
    BY <2>2, <2>3
<1>5. MassesAgree(W)
  BY <1>1, <1>2, <1>4, WalkIsUnder DEF MassesAgree
<1> QED
  BY <1>1, <1>3, <1>5

LEMMA BoxesKept == AllSpec => []BoxesInv
<1>1. AllInit => BoxesInv
  BY BoxesInitFit DEF AllInit
<1>2. BoxesInv /\ [AllNext]_all => BoxesInv'
  <2>1. [AllNext]_all => [BoxesNext]_boxVars
    BY DEF AllNext, Pieces, Neighbours, Boxes, Texts, all
  <2> QED
    BY <2>1, BoxesStepFits
<1> QED
  BY <1>1, <1>2, PTL DEF AllSpec

(* For any number of points, any threshold and any order of the calls that *)
(* run in parallel: build_in never runs out of slots, no two of its calls  *)
(* have a slot or a point in common, and the tree it leaves has every      *)
(* point below its root and in every split the number of those below it.   *)
THEOREM TreeIsSound == AllSpec => []TreeSound
<1>1. BoxesInv => TreeSound
  BY RoomIsFound, SharesStayApart, EveryPointIsFound DEF TreeSound
<1> QED
  BY <1>1, BoxesKept, PTL

-----------------------------------------------------------------------------
(* The set of neighbours, of any values and with an array of any size.     *)

NoRepeat(v) == \A i, j \in 1 .. Len(v) : v[i] = v[j] => i = j

Arrays == {v \in Seq(Values) : Len(v) <= SMALL_SIZE /\ NoRepeat(v)}

Reps == {Small!Vec(v) : v \in Arrays} \cup {Small!Set(T) : T \in SUBSET Values}

InArray(v) == {v[i] : i \in 1 .. Len(v)}

Members(r) == IF r.kind = "Vec" THEN InArray(r.v) ELSE r.s

LEMMA RepIs ==
  ASSUME NEW r \in Reps
  PROVE  \/ r.kind = "Vec" /\ r.v \in Arrays /\ r.s = {} /\ r = Small!Vec(r.v)
         \/ r.kind = "Set" /\ r.v = <<>> /\ r.s \in SUBSET Values /\ r = Small!Set(r.s)
<1>1. CASE \E v \in Arrays : r = Small!Vec(v)
  BY <1>1 DEF Small!Vec
<1>2. CASE \E T \in SUBSET Values : r = Small!Set(T)
  BY <1>2 DEF Small!Set
<1> QED
  BY <1>1, <1>2 DEF Reps

LEMMA VecIs ==
  ASSUME NEW v \in Arrays
  PROVE  Small!Vec(v) \in Reps /\ Members(Small!Vec(v)) = InArray(v)
  BY DEF Reps, Members, Small!Vec

LEMMA SetIs ==
  ASSUME NEW T \in SUBSET Values
  PROVE  Small!Set(T) \in Reps /\ Members(Small!Set(T)) = T
  BY DEF Reps, Members, Small!Set

LEMMA ArrayIs ==
  ASSUME NEW v \in Arrays
  PROVE  /\ v \in Seq(Values) /\ Len(v) \in Nat /\ DOMAIN v = 1 .. Len(v)
         /\ InArray(v) \in SUBSET Values
  BY DEF Arrays, InArray

LEMMA HeldIs ==
  ASSUME NEW v \in Arrays, NEW x
  PROVE  Small!Held(v, x) <=> x \in InArray(v)
  BY DEF Small!Held, Small!Contains, InArray

LEMMA AppendedArray ==
  ASSUME NEW v \in Arrays, NEW x \in Values, x \notin InArray(v), Len(v) < SMALL_SIZE
  PROVE  Append(v, x) \in Arrays /\ InArray(Append(v, x)) = InArray(v) \cup {x}
<1> DEFINE n == Len(v)
<1>1. PICK w : w = Append(v, x)
  OBVIOUS
<1>2. /\ n \in Nat /\ w \in Seq(Values) /\ Len(w) = n + 1 /\ w[n + 1] = x
      /\ \A i \in 1 .. n : w[i] = v[i]
  BY <1>1, ArrayIs
<1>3. 1 .. n + 1 = (1 .. n) \cup {n + 1}
  BY <1>2
<1>4. InArray(w) = InArray(v) \cup {x}
  BY <1>2, <1>3 DEF InArray
<1>5. NoRepeat(w)
  <2>1. \A i \in 1 .. n : w[i] # x
    BY <1>2 DEF InArray
  <2>2. \A i, j \in 1 .. n : w[i] = w[j] => i = j
    BY <1>2 DEF Arrays, NoRepeat
  <2> QED
    BY <1>2, <1>3, <2>1, <2>2 DEF NoRepeat
<1>6. Len(w) <= SMALL_SIZE
  BY <1>2, ValuesAssumption
<1> QED
  BY <1>1, <1>2, <1>4, <1>5, <1>6 DEF Arrays

(* insert, also where the array spills.                                    *)
LEMMA InsertedIs ==
  ASSUME NEW r \in Reps, NEW x \in Values
  PROVE  /\ Small!Inserted(r, x).rep \in Reps
         /\ Members(Small!Inserted(r, x).rep) = Members(r) \cup {x}
         /\ Small!Inserted(r, x).new \in BOOLEAN
         /\ Small!Inserted(r, x).new <=> x \notin Members(r)
<1>1. CASE r.kind = "Set"
  <2>1. r.s \in SUBSET Values /\ Members(r) = r.s
    BY <1>1, RepIs DEF Members
  <2>2. /\ Small!Inserted(r, x).rep = Small!Set(r.s \cup {x})
        /\ Small!Inserted(r, x).new = (x \notin r.s)
    BY <1>1 DEF Small!Inserted
  <2>3. r.s \cup {x} \in SUBSET Values
    BY <2>1
  <2> QED
    BY <2>1, <2>2, <2>3, SetIs
<1>2. CASE r.kind = "Vec"
  <2>1. r.v \in Arrays /\ Members(r) = InArray(r.v)
    BY <1>2, RepIs DEF Members
  <2>2. CASE x \in InArray(r.v)
    <3>1. Small!Inserted(r, x) = [rep |-> r, new |-> FALSE]
      BY <1>2, <2>1, <2>2, HeldIs DEF Small!Inserted
    <3>2. Members(r) = Members(r) \cup {x}
      BY <2>1, <2>2
    <3>3. Small!Inserted(r, x).rep = r /\ Small!Inserted(r, x).new = FALSE
      BY <3>1
    <3> QED
      BY <2>1, <2>2, <3>2, <3>3
  <2>3. CASE x \notin InArray(r.v)
    <3>0. ~ Small!Held(r.v, x)
      BY <2>1, <2>3, HeldIs
    <3>1. CASE Len(r.v) = SMALL_SIZE
      <4>1. Small!Inserted(r, x) = [rep |-> Small!Set(Small!Spilled(r.v, x)), new |-> TRUE]
        BY <1>2, <3>0, <3>1 DEF Small!Inserted
      <4>2. Small!Spilled(r.v, x) = InArray(r.v) \cup {x}
        BY <2>1, ArrayIs DEF Small!Spilled, Small!ToSet, InArray
      <4>3. InArray(r.v) \cup {x} \in SUBSET Values
        BY <2>1, ArrayIs
      <4>4. /\ Small!Inserted(r, x).rep = Small!Set(InArray(r.v) \cup {x})
            /\ Small!Inserted(r, x).new = TRUE
        BY <4>1, <4>2
      <4> QED
        BY <2>1, <2>3, <4>3, <4>4, SetIs
    <3>2. CASE Len(r.v) # SMALL_SIZE
      <4>1. Small!Inserted(r, x) = [rep |-> Small!Vec(Append(r.v, x)), new |-> TRUE]
        BY <1>2, <3>0, <3>2 DEF Small!Inserted
      <4>2. Len(r.v) < SMALL_SIZE
        BY <2>1, <3>2, ValuesAssumption DEF Arrays
      <4>3. Append(r.v, x) \in Arrays /\ InArray(Append(r.v, x)) = InArray(r.v) \cup {x}
        BY <2>1, <2>3, <4>2, AppendedArray
      <4>4. /\ Small!Inserted(r, x).rep = Small!Vec(Append(r.v, x))
            /\ Small!Inserted(r, x).new = TRUE
        BY <4>1
      <4> QED
        BY <2>1, <2>3, <4>3, <4>4, VecIs
    <3> QED
      BY <3>1, <3>2
  <2> QED
    BY <2>2, <2>3
<1> QED
  BY <1>1, <1>2, RepIs

(* remove finds the value, and takes out no other.                         *)
PlaceOf(v, x) == Small!SelectInSeq(v, LAMBDA y : y = x)

LEMMA PlaceIs ==
  ASSUME NEW v \in Arrays, NEW x \in InArray(v)
  PROVE  PlaceOf(v, x) \in 1 .. Len(v) /\ v[PlaceOf(v, x)] = x
<1> DEFINE I == {i \in 1 .. Len(v) : v[i] = x}
<1>1. PlaceOf(v, x) = IF I # {} THEN Small!Min(I) ELSE 0
  BY DEF PlaceOf, Small!SelectInSeq
<1>2. I # {} /\ I \subseteq Nat
  BY DEF InArray
<1>3. \E n \in I : \A t \in I : n <= t
  BY <1>2, LeastNumber
<1>4. Small!Min(I) \in I
  BY <1>3 DEF Small!Min
<1> QED
  BY <1>1, <1>2, <1>4

LEMMA RemovedArray ==
  ASSUME NEW v \in Arrays, NEW k \in 1 .. Len(v)
  PROVE  /\ Small!RemoveAt(v, k) \in Arrays
         /\ InArray(Small!RemoveAt(v, k)) = InArray(v) \ {v[k]}
<1> DEFINE n == Len(v)
<1>1. PICK w : w = SubSeq(v, 1, k - 1) \o SubSeq(v, k + 1, n)
  OBVIOUS
<1>2. n \in Nat /\ k \in Nat /\ 1 <= k /\ k <= n /\ v \in Seq(Values) /\ n <= SMALL_SIZE
  BY ArrayIs DEF Arrays
<1>3. /\ w \in Seq(Values) /\ Len(w) = n - 1
      /\ \A i \in 1 .. n - 1 : w[i] = v[IF i < k THEN i ELSE i + 1]
  <2>1. PICK front, back : front = SubSeq(v, 1, k - 1) /\ back = SubSeq(v, k + 1, n)
    OBVIOUS
  <2>2. /\ front \in Seq(Values) /\ Len(front) = k - 1
        /\ \A i \in 1 .. k - 1 : front[i] = v[i]
    BY <1>2, <2>1
  <2>3. /\ back \in Seq(Values) /\ Len(back) = n - k
        /\ \A i \in 1 .. n - k : back[i] = v[i + k]
    BY <1>2, <2>1
  <2>0. w = front \o back
    BY <1>1, <2>1
  <2>4. w \in Seq(Values) /\ Len(w) = n - 1
    <3>1. front \in Seq(Values) /\ back \in Seq(Values)
      BY <2>2, <2>3
    <3>2. front \o back \in Seq(Values) /\ Len(front \o back) = Len(front) + Len(back)
      BY <3>1, ConcatProperties
    <3> QED
      BY <1>2, <2>0, <2>2, <2>3, <3>2
  <2>5. ASSUME NEW i \in 1 .. n - 1 PROVE w[i] = v[IF i < k THEN i ELSE i + 1]
    <3>1. w[i] = IF i <= k - 1 THEN front[i] ELSE back[i - (k - 1)]
      <4>1. i \in 1 .. Len(front) + Len(back)
        BY <1>2, <2>2, <2>3
      <4>2. w[i] = IF i <= Len(front) THEN front[i] ELSE back[i - Len(front)]
        BY <2>0, <2>2, <2>3, <4>1
      <4> QED
        BY <2>2, <4>2
    <3>2. CASE i < k
      BY <1>2, <2>2, <3>1, <3>2
    <3>3. CASE ~ (i < k)
      <4>1. i - (k - 1) \in 1 .. n - k /\ (i - (k - 1)) + k = i + 1 /\ ~ (i <= k - 1)
        BY <1>2, <3>3
      <4> QED
        BY <2>3, <3>1, <3>3, <4>1
    <3> QED
      BY <3>2, <3>3
  <2> QED
    BY <2>4, <2>5
<1> DEFINE From(i) == IF i < k THEN i ELSE i + 1
<1>4. \A i \in 1 .. n - 1 : From(i) \in (1 .. n) \ {k}
  BY <1>2
<1>5. \A i, j \in 1 .. n - 1 : From(i) = From(j) => i = j
  BY <1>2
<1>6. \A j \in (1 .. n) \ {k} : \E i \in 1 .. n - 1 : From(i) = j
  <2>1. ASSUME NEW j \in 1 .. n, j < k PROVE j \in 1 .. n - 1 /\ From(j) = j
    BY <1>2, <2>1
  <2>2. ASSUME NEW j \in 1 .. n, j > k PROVE j - 1 \in 1 .. n - 1 /\ From(j - 1) = j
    BY <1>2, <2>2
  <2>3. ASSUME NEW j \in (1 .. n) \ {k} PROVE \E i \in 1 .. n - 1 : From(i) = j
    <3>1. j < k \/ j > k
      BY <1>2
    <3> HIDE DEF From
    <3> QED
      BY <2>1, <2>2, <3>1
  <2> QED
    BY <2>3
<1>7. \A i \in 1 .. n - 1 : w[i] = v[From(i)]
  BY <1>3
<1>8. \A i, j \in 1 .. n : v[i] = v[j] => i = j
  BY DEF Arrays, NoRepeat
<1> HIDE DEF From
<1>9. NoRepeat(w)
  BY <1>3, <1>4, <1>5, <1>7, <1>8 DEF NoRepeat
<1>10. InArray(w) = InArray(v) \ {v[k]}
  <2>1. InArray(w) = {v[From(i)] : i \in 1 .. n - 1}
    BY <1>3, <1>7 DEF InArray
  <2>2. ASSUME NEW i \in 1 .. n - 1 PROVE v[From(i)] \in InArray(v) \ {v[k]}
    BY <1>4, <1>8 DEF InArray
  <2>3. ASSUME NEW x \in InArray(v) \ {v[k]} PROVE \E i \in 1 .. n - 1 : x = v[From(i)]
    <3>1. PICK j \in (1 .. n) \ {k} : x = v[j]
      BY DEF InArray
    <3> QED
      BY <1>6, <3>1
  <2> QED
    BY <2>1, <2>2, <2>3
<1>11. Len(w) <= SMALL_SIZE
  BY <1>2, <1>3, ValuesAssumption
<1> QED
  BY <1>1, <1>3, <1>9, <1>10, <1>11 DEF Arrays, Small!RemoveAt

(* union, of any values in any order.                                      *)
LEMMA JoinedIs ==
  ASSUME NEW r \in Reps, NEW other \in Seq(Values)
  PROVE  /\ Small!Joined(r, other) \in Reps
         /\ Members(Small!Joined(r, other)) = Members(r) \cup InArray(other)
<1> DEFINE N == Len(other)
           D == 0 .. N
           Turn(f, n) == IF n = 0 THEN r ELSE Small!Inserted(f[n - 1], other[n]).rep
           F == CHOOSE f : f = [n \in D |-> Turn(f, n)]
           step == [n \in 1 .. N |-> [q \in Reps |-> Small!Inserted(q, other[n]).rep]]
<1>0. N \in Nat /\ \A n \in 1 .. N : other[n] \in Values
  OBVIOUS
<1>1. Small!Joined(r, other) = F[N]
  BY DEF Small!Joined
<1>2. step \in [1 .. N -> [Reps -> Reps]]
  BY <1>0, InsertedIs
<1>3. PICK f \in [D -> Reps] : \A n \in D : f[n] = IF n = 0 THEN r ELSE step[n][f[n - 1]]
  <2>1. N \in Nat
    OBVIOUS
  <2> HIDE DEF step, N
  <2>2. CanStep(Reps, r, N, step)
    BY <1>2, <2>1, StepsExist
  <2> QED
    BY <2>2 DEF CanStep
<1>4. \A n \in D : n # 0 => n \in 1 .. N /\ n - 1 \in D
  BY <1>0
<1>5. \A n \in D : f[n] = Turn(f, n)
  <2>1. ASSUME NEW n \in D, n # 0 PROVE f[n] = Small!Inserted(f[n - 1], other[n]).rep
    <3>1. f[n - 1] \in Reps /\ n \in 1 .. N
      BY <1>4, <2>1
    <3> HIDE DEF N
    <3>2. step[n][f[n - 1]] = Small!Inserted(f[n - 1], other[n]).rep
      BY <3>1
    <3> QED
      BY <1>3, <2>1, <3>2
  <2> QED
    BY <1>3, <2>1
<1>6. F = [n \in D |-> Turn(F, n)]
  <2>1. f = [n \in D |-> Turn(f, n)]
    BY <1>5
  <2> QED
    BY <2>1, Zenon
<1> HIDE DEF F, N
<1>7. \A n \in D : F[n] = Turn(F, n)
  BY <1>6
<1> DEFINE JoinedUpTo(n) == F[n] \in Reps /\ Members(F[n]) = Members(r) \cup {other[i] : i \in 1 .. n}
           T == {n \in Nat : n \in D => JoinedUpTo(n)}
<1>8. 0 \in T
  <2>1. 0 \in D /\ {other[i] : i \in 1 .. 0} = {}
    BY <1>0
  <2>2. F[0] = r
    BY <1>7, <2>1
  <2> QED
    BY <2>1, <2>2
<1>9. ASSUME NEW n \in Nat, n \in T PROVE n + 1 \in T
  <2> SUFFICES ASSUME n + 1 \in D PROVE JoinedUpTo(n + 1)
    OBVIOUS
  <2>1. n \in D /\ n + 1 \in 1 .. N /\ JoinedUpTo(n)
    BY <1>0, <1>9
  <2>2. F[n + 1] = Small!Inserted(F[n], other[n + 1]).rep
    <3>1. F[n + 1] = Turn(F, n + 1) /\ n + 1 # 0 /\ (n + 1) - 1 = n
      BY <1>7
    <3> QED
      BY <3>1
  <2>3. other[n + 1] \in Values
    BY <1>0, <2>1
  <2>4. F[n + 1] \in Reps /\ Members(F[n + 1]) = Members(F[n]) \cup {other[n + 1]}
    BY <2>1, <2>2, <2>3, InsertedIs
  <2>5. 1 .. n + 1 = (1 .. n) \cup {n + 1}
    OBVIOUS
  <2>6. {other[i] : i \in 1 .. n + 1} = {other[i] : i \in 1 .. n} \cup {other[n + 1]}
    BY <2>5
  <2> QED
    BY <2>1, <2>4, <2>6
<1>10. N \in T
  <2>1. Nat \subseteq T
    <3> HIDE DEF T
    <3> QED
      BY <1>8, <1>9, Induction
  <2> QED
    BY <1>0, <2>1
<1>11. JoinedUpTo(N)
  BY <1>0, <1>10
<1> QED
  BY <1>1, <1>11 DEF InArray, N

LEMMA LengthIs ==
  ASSUME NEW v \in Arrays
  PROVE  Cardinality(InArray(v)) = Len(v)
<1> DEFINE n == Len(v)
           f == [i \in 1 .. n |-> v[i]]
<1>1. n \in Nat
  BY ArrayIs
<1>2. f \in Bijection(1 .. n, InArray(v))
  <2>1. f \in [1 .. n -> InArray(v)]
    BY DEF InArray
  <2>2. \A i, j \in 1 .. n : f[i] = f[j] => i = j
    BY DEF Arrays, NoRepeat
  <2>3. \A x \in InArray(v) : \E i \in 1 .. n : f[i] = x
    BY DEF InArray
  <2> HIDE DEF f
  <2> QED
    BY <2>1, <2>2, <2>3 DEF Bijection, Injection, Surjection, IsInjective
<1>3. ExistsBijection(1 .. n, InArray(v))
  BY <1>2 DEF ExistsBijection
<1>4. IsFiniteSet(1 .. n) /\ Cardinality(1 .. n) = n
  <2>1. 1 \in Int /\ n \in Int /\ (1 > n => n = 0) /\ n - 1 + 1 = n
    BY <1>1
  <2> QED
    BY <2>1, FS_Interval
<1> QED
  BY <1>3, <1>4, FS_Bijection

(* Each call does to the members what PlainSet's does, and answers so.     *)
NeighboursInv == rep \in Reps

LEMMA ElementsAre == NeighboursInv => Small!Elements = Members(rep)
<1> SUFFICES ASSUME NeighboursInv PROVE Small!Elements = Members(rep)
  OBVIOUS
<1>1. CASE rep.kind = "Vec"
  BY <1>1, RepIs, ArrayIs DEF NeighboursInv, Small!Elements, Small!ToSet, Members, InArray
<1>2. CASE rep.kind # "Vec"
  BY <1>2 DEF Small!Elements, Members
<1> QED
  BY <1>1, <1>2

LEMMA CountsAgree ==
  ASSUME NEW T
  PROVE  Small!Cardinality(T) = Cardinality(T) /\ Small!Plain!Cardinality(T) = Cardinality(T)
  BY DEF Small!Cardinality, Small!Plain!Cardinality, Cardinality

LEMMA IteratedAre ==
  ASSUME NEW other \in Small!Iterated
  PROVE  other \in Seq(Values) /\ Small!ToSet(other) = InArray(other)
<1>1. other \in UNION {[1 .. m -> Values] : m \in 0 .. Cardinality(Values)}
  BY CountsAgree DEF Small!Iterated, Small!BoundedSeq, Small!SeqOf
<1>2. Cardinality(Values) \in Nat
  BY ValuesAssumption, FS_CardinalityType
<1>3. PICK m \in Nat : other \in [1 .. m -> Values]
  BY <1>1, <1>2
<1> QED
  BY <1>3 DEF Small!ToSet, InArray

LEMMA NeighboursStep ==
  ASSUME NeighboursInv, Small!SetNext
  PROVE  NeighboursInv' /\ Small!Plain!Next
<1> DEFINE old == Members(rep)
           new == Members(rep')
<1>0. rep \in Reps /\ Small!Elements = old /\ (rep' \in Reps => Small!Elements' = new)
  <2>1. (NeighboursInv => Small!Elements = Members(rep))'
    BY ElementsAre, PTL
  <2> QED
    BY <2>1, ElementsAre DEF NeighboursInv
<1> USE DEF NeighboursInv
<1>1. CASE Small!Insert
  <2>1. PICK x \in Values : /\ rep' = Small!Inserted(rep, x).rep
                            /\ answer' = <<"insert", x, Small!Inserted(rep, x).new>>
    BY <1>1 DEF Small!Insert
  <2>2. rep' \in Reps /\ new = old \cup {x} /\ answer' = <<"insert", x, x \notin old>>
    BY <1>0, <2>1, InsertedIs
  <2>3. Small!Plain!Insert
    BY <1>0, <2>2 DEF Small!Plain!Insert
  <2> QED
    BY <2>2, <2>3 DEF Small!Plain!Next
<1>2. CASE Small!RemoveValue
  <2>1. PICK x \in Values :
          \/ /\ rep.kind = "Set"
             /\ rep' = Small!Set(rep.s \ {x}) /\ answer' = <<"remove", x, x \in rep.s>>
          \/ /\ rep.kind = "Vec" /\ Small!Contains(rep.v, x)
             /\ rep' = Small!Vec(Small!RemoveAt(rep.v, PlaceOf(rep.v, x)))
             /\ answer' = <<"remove", x, TRUE>>
          \/ /\ rep.kind = "Vec" /\ ~ Small!Contains(rep.v, x)
             /\ rep' = rep /\ answer' = <<"remove", x, FALSE>>
    BY <1>2 DEF Small!RemoveValue, PlaceOf
  <2>2. rep' \in Reps /\ new = old \ {x} /\ answer' = <<"remove", x, x \in old>>
    <3>1. CASE rep.kind = "Set"
      <4>1. rep.s \in SUBSET Values /\ old = rep.s
        BY <1>0, <3>1, RepIs DEF Members
      <4>2. rep' = Small!Set(rep.s \ {x}) /\ answer' = <<"remove", x, x \in rep.s>>
        BY <2>1, <3>1
      <4>3. rep.s \ {x} \in SUBSET Values
        BY <4>1
      <4> QED
        BY <4>1, <4>2, <4>3, SetIs
    <3>2. CASE rep.kind = "Vec"
      <4>1. rep.v \in Arrays /\ old = InArray(rep.v)
        BY <1>0, <3>2, RepIs DEF Members
      <4>2. Small!Contains(rep.v, x) <=> x \in InArray(rep.v)
        BY <4>1, HeldIs DEF Small!Held
      <4>3. CASE x \in InArray(rep.v)
        <5>1. PICK k \in 1 .. Len(rep.v) : k = PlaceOf(rep.v, x) /\ rep.v[k] = x
          BY <4>1, <4>3, PlaceIs
        <5>2. rep' = Small!Vec(Small!RemoveAt(rep.v, k)) /\ answer' = <<"remove", x, TRUE>>
          BY <2>1, <3>2, <4>2, <4>3, <5>1
        <5>3. /\ Small!RemoveAt(rep.v, k) \in Arrays
              /\ InArray(Small!RemoveAt(rep.v, k)) = InArray(rep.v) \ {x}
          BY <4>1, <5>1, RemovedArray
        <5> QED
          BY <4>1, <4>3, <5>2, <5>3, VecIs
      <4>4. CASE x \notin InArray(rep.v)
        <5>1. rep' = rep /\ answer' = <<"remove", x, FALSE>>
          BY <2>1, <3>2, <4>2, <4>4
        <5>2. new = old /\ old = old \ {x} /\ x \notin old
          BY <4>1, <4>4, <5>1
        <5>3. (x \in old) = FALSE
          BY <5>2
        <5> QED
          BY <1>0, <5>1, <5>2, <5>3
      <4> QED
        BY <4>3, <4>4
    <3> QED
      BY <1>0, <3>1, <3>2, RepIs
  <2>3. Small!Plain!Remove
    BY <1>0, <2>2 DEF Small!Plain!Remove
  <2> QED
    BY <2>2, <2>3 DEF Small!Plain!Next
<1>3. CASE Small!Union
  <2>1. PICK other \in Small!Iterated : /\ rep' = Small!Joined(rep, other)
                                        /\ answer' = <<"union", Small!ToSet(other)>>
    BY <1>3 DEF Small!Union
  <2>2. other \in Seq(Values) /\ Small!ToSet(other) = InArray(other)
    BY IteratedAre
  <2>3. rep' \in Reps /\ new = old \cup InArray(other) /\ answer' = <<"union", InArray(other)>>
    BY <1>0, <2>1, <2>2, JoinedIs
  <2>4. InArray(other) \in SUBSET Values
    BY <2>2 DEF InArray
  <2>5. Small!Plain!Union
    BY <1>0, <2>3, <2>4 DEF Small!Plain!Union
  <2> QED
    BY <2>3, <2>5 DEF Small!Plain!Next
<1>4. CASE Small!Asked
  <2>1. Small!Plain!Contains /\ rep' = rep
    BY <1>0, <1>4 DEF Small!Asked, Small!Plain!Contains
  <2> QED
    BY <1>0, <2>1 DEF Small!Plain!Next
<1>5. CASE Small!AskedLength
  <2>1. answer' = <<"len", Small!Length>> /\ rep' = rep
    BY <1>5 DEF Small!AskedLength
  <2>2. Small!Length = Cardinality(old)
    <3>1. CASE rep.kind = "Vec"
      BY <1>0, <3>1, RepIs, LengthIs DEF Small!Length, Members
    <3>2. CASE rep.kind # "Vec"
      BY <3>2, CountsAgree DEF Small!Length, Members
    <3> QED
      BY <3>1, <3>2
  <2>3. Small!Plain!Count
    BY <1>0, <2>1, <2>2, CountsAgree DEF Small!Plain!Count
  <2> QED
    BY <1>0, <2>1, <2>3 DEF Small!Plain!Next
<1> QED
  BY <1>1, <1>2, <1>3, <1>4, <1>5 DEF Small!SetNext

LEMMA InitNeighbours == AllInit => NeighboursInv /\ Small!Plain!Init
<1> SUFFICES ASSUME AllInit PROVE NeighboursInv /\ Small!Plain!Init
  OBVIOUS
<1>1. rep = Small!Vec(<<>>) /\ answer = <<"new">>
  BY DEF AllInit, Small!SetInit
<1>2. <<>> \in Arrays /\ InArray(<<>>) = {}
  BY ValuesAssumption DEF Arrays, NoRepeat, InArray
<1>3. rep \in Reps /\ Members(rep) = {}
  BY <1>1, <1>2, VecIs
<1> QED
  BY <1>1, <1>3, ElementsAre DEF NeighboursInv, Small!Plain!Init

LEMMA NextNeighbours ==
  NeighboursInv /\ [AllNext]_all => NeighboursInv' /\ [Small!Plain!Next]_(Small!Plain!vars)
<1> SUFFICES ASSUME NeighboursInv, [AllNext]_all
             PROVE  NeighboursInv' /\ [Small!Plain!Next]_(Small!Plain!vars)
  OBVIOUS
<1>1. CASE Neighbours
  BY <1>1, NeighboursStep DEF Neighbours
<1>2. CASE UNCHANGED <<rep, answer>>
  <2>1. NeighboursInv'
    BY <1>2 DEF NeighboursInv
  <2>2. Small!Elements' = Small!Elements
    BY <1>2, <2>1 DEF Small!Elements
  <2> QED
    BY <1>2, <2>1, <2>2 DEF Small!Plain!vars
<1> QED
  BY <1>1, <1>2 DEF AllNext, Pieces, Boxes, Texts, all

(* For any values and any size of the array: insert, remove, union,        *)
(* contains and len of SmallU64Set do and answer what those of a set do,   *)
(* in any order of calls and on both sides of the spill.                   *)
THEOREM NeighboursAnswerAsSets == AllSpec => NeighboursAreSets
  BY InitNeighbours, NextNeighbours, PTL DEF AllSpec, NeighboursAreSets, Small!Plain!Spec

-----------------------------------------------------------------------------
(* The lines of a file, of any length and with either kind of line ends.   *)

Chars == {"x", "\r", "\n"}

Newlines(content, i) == {j \in 1 .. i : content[j] = "\n"}

LEMMA NewlinesCount ==
  ASSUME NEW content \in Seq(Chars), NEW i \in 0 .. Len(content)
  PROVE  /\ IsFiniteSet(Newlines(content, i)) /\ Cardinality(Newlines(content, i)) \in Nat
         /\ i + 1 <= Len(content) =>
              Cardinality(Newlines(content, i + 1)) =
                Cardinality(Newlines(content, i)) + (IF content[i + 1] = "\n" THEN 1 ELSE 0)
<1>1. i \in Nat
  OBVIOUS
<1>2. IsFiniteSet(Newlines(content, i))
  <2>1. IsFiniteSet(1 .. i)
    BY <1>1, FS_Interval
  <2> QED
    BY <2>1, FS_Subset DEF Newlines
<1>3. Cardinality(Newlines(content, i)) \in Nat
  BY <1>2, FS_CardinalityType
<1>4. ASSUME i + 1 <= Len(content)
      PROVE  Cardinality(Newlines(content, i + 1)) =
               Cardinality(Newlines(content, i)) + (IF content[i + 1] = "\n" THEN 1 ELSE 0)
  <2>1. 1 .. i + 1 = (1 .. i) \cup {i + 1} /\ i + 1 \notin 1 .. i
    BY <1>1
  <2>2. CASE content[i + 1] = "\n"
    <3>1. Newlines(content, i + 1) = Newlines(content, i) \cup {i + 1} /\ i + 1 \notin Newlines(content, i)
      BY <2>1, <2>2 DEF Newlines
    <3> QED
      BY <1>2, <2>2, <3>1, FS_AddElement
  <2>3. CASE content[i + 1] # "\n"
    <3>1. Newlines(content, i + 1) = Newlines(content, i)
      BY <2>1, <2>3 DEF Newlines
    <3> QED
      BY <1>3, <2>3, <3>1
  <2> QED
    BY <2>2, <2>3
<1> QED
  BY <1>2, <1>3, <1>4

\* F[i]: the starts of lines among the first i characters.
StartsAt(F, content) ==
  /\ F \in [0 .. Len(content) -> Seq(Nat)]
  /\ F[0] = <<0>>
  /\ \A i \in 0 .. Len(content) - 1 :
       F[i + 1] = IF content[i + 1] = "\n" THEN Append(F[i], i + 1) ELSE F[i]

LEMMA StartsExist ==
  ASSUME NEW content \in Seq(Chars)
  PROVE  \E F : StartsAt(F, content) /\ LineStarts(content) = F[Len(content)]
<1> DEFINE N == Len(content)
           D == 0 .. N
           S == Seq(Nat)
           More(s, i) == IF content[i] = "\n" THEN Append(s, i) ELSE s
           Turn(f, i) == IF i = 0 THEN <<0>>
                         ELSE IF content[i] = "\n" THEN Append(f[i - 1], i)
                         ELSE f[i - 1]
           F == CHOOSE f : f = [i \in D |-> Turn(f, i)]
           turns == [i \in 1 .. N |-> [s \in S |-> More(s, i)]]
<1>0. N \in Nat /\ \A i \in 1 .. N : i \in Nat
  OBVIOUS
<1>1. LineStarts(content) = F[N]
  BY DEF LineStarts
<1>2. turns \in [1 .. N -> [S -> S]]
  BY <1>0
<1>3. PICK f \in [D -> S] : \A i \in D : f[i] = IF i = 0 THEN <<0>> ELSE turns[i][f[i - 1]]
  <2>1. N \in Nat /\ <<0>> \in S
    OBVIOUS
  <2> HIDE DEF turns, N, S
  <2>2. CanStep(S, <<0>>, N, turns)
    BY <1>2, <2>1, StepsExist
  <2> QED
    BY <2>2 DEF CanStep
<1>4. \A i \in D : i # 0 => i \in 1 .. N /\ i - 1 \in D
  BY <1>0
<1>5. \A i \in D : f[i] = Turn(f, i)
  <2>1. ASSUME NEW i \in D, i # 0 PROVE f[i] = More(f[i - 1], i)
    <3>1. f[i - 1] \in S /\ i \in 1 .. N
      BY <1>4, <2>1
    <3> HIDE DEF N, S, More
    <3>2. turns[i][f[i - 1]] = More(f[i - 1], i)
      BY <3>1
    <3> QED
      BY <1>3, <2>1, <3>2
  <2> QED
    BY <1>3, <2>1
<1>6. F = [i \in D |-> Turn(F, i)]
  <2>1. f = [i \in D |-> Turn(f, i)]
    BY <1>5
  <2> QED
    BY <2>1, Zenon
<1> HIDE DEF F, N, S
<1>7. \A i \in D : F[i] = Turn(F, i)
  BY <1>6
<1>8. F \in [D -> S]
  <2> DEFINE T == {n \in Nat : n \in D => F[n] \in S}
  <2>1. 0 \in T
    <3>1. <<0>> \in S
      BY DEF S
    <3>2. 0 \in D
      BY <1>0
    <3>3. F[0] = <<0>>
      BY <1>7, <3>2
    <3> QED
      BY <3>1, <3>3
  <2>2. ASSUME NEW n \in Nat, n \in T PROVE n + 1 \in T
    <3> SUFFICES ASSUME n + 1 \in D PROVE F[n + 1] \in S
      OBVIOUS
    <3>1. n \in D /\ F[n] \in S /\ n + 1 # 0 /\ (n + 1) - 1 = n
      BY <1>0, <2>2
    <3>2. F[n + 1] = IF content[n + 1] = "\n" THEN Append(F[n], n + 1) ELSE F[n]
      BY <1>7, <3>1
    <3> QED
      BY <3>1, <3>2 DEF S
  <2>3. Nat \subseteq T
    <3> HIDE DEF T
    <3> QED BY <2>1, <2>2, Induction
  <2>4. DOMAIN F = D
    BY <1>6, Zenon
  <2>6. \A n \in D : n \in Nat
    BY <1>0
  <2>5. \A n \in D : F[n] \in S
    BY <2>3, <2>6
  <2> QED
    BY <1>6, <2>4, <2>5
<1>9. F[0] = <<0>>
  BY <1>0, <1>7
<1>10. ASSUME NEW i \in 0 .. N - 1
       PROVE  F[i + 1] = IF content[i + 1] = "\n" THEN Append(F[i], i + 1) ELSE F[i]
  <2>1. i + 1 \in D /\ i + 1 # 0 /\ (i + 1) - 1 = i
    BY <1>0
  <2> QED
    BY <1>7, <2>1
<1> QED
  BY <1>1, <1>8, <1>9, <1>10 DEF StartsAt, S, N

\* As many as there are newlines, and one; those found later are behind.
StartsFit(F, content, n) ==
  /\ Len(F[n]) = Cardinality(Newlines(content, n)) + 1
  /\ F[n][1] = 0
  /\ \A k \in 1 .. Len(F[n]) : F[n][k] <= n
  /\ \A k \in 2 .. Len(F[n]) : F[n][k] >= 1 /\ content[F[n][k]] = "\n"
  /\ \A m \in 0 .. n :
       /\ Len(F[m]) <= Len(F[n])
       /\ \A k \in 1 .. Len(F[m]) : F[n][k] = F[m][k]
       /\ \A k \in Len(F[m]) + 1 .. Len(F[n]) : F[n][k] > m

LEMMA StartsFitAlways ==
  ASSUME NEW content \in Seq(Chars), NEW F, StartsAt(F, content)
  PROVE  \A n \in 0 .. Len(content) : StartsFit(F, content, n)
<1> DEFINE N == Len(content)
           T == {n \in Nat : n \in 0 .. N => StartsFit(F, content, n)}
<1>0. N \in Nat
  OBVIOUS
<1>1. \A n \in 0 .. N : F[n] \in Seq(Nat) /\ Len(F[n]) \in Nat
  BY DEF StartsAt
<1> HIDE DEF N
<1>2. 0 \in T
  <2>1. F[0] = <<0>> /\ Newlines(content, 0) = {}
    BY DEF StartsAt, Newlines
  <2>2. Len(F[0]) = 1 /\ F[0][1] = 0
    BY <2>1
  <2>3. Cardinality(Newlines(content, 0)) = 0
    BY <2>1, FS_EmptySet
  <2>4. \A m \in 0 .. 0 : m = 0
    OBVIOUS
  <2>5. \A k \in 1 .. 1 : k = 1
    OBVIOUS
  <2>6. (\A k \in 2 .. 1 : FALSE) /\ (\A k \in 1 + 1 .. 1 : FALSE)
    OBVIOUS
  <2>7. Len(F[0]) = Cardinality(Newlines(content, 0)) + 1
    BY <2>2, <2>3
  <2>8. \A k \in 1 .. Len(F[0]) : F[0][k] <= 0
    BY <2>2, <2>5
  <2>9. \A k \in 2 .. Len(F[0]) : F[0][k] >= 1 /\ content[F[0][k]] = "\n"
    BY <2>2, <2>6
  <2>10. \A m \in 0 .. 0 :
           /\ Len(F[m]) <= Len(F[0])
           /\ \A k \in 1 .. Len(F[m]) : F[0][k] = F[m][k]
           /\ \A k \in Len(F[m]) + 1 .. Len(F[0]) : F[0][k] > m
    <3>1. ~ \E k : k \in Len(F[0]) + 1 .. Len(F[0])
      BY <2>2
    <3>2. Len(F[0]) <= Len(F[0])
      BY <2>2
    <3> QED
      BY <2>4, <3>1, <3>2
  <2> QED
    BY <2>2, <2>7, <2>8, <2>9, <2>10 DEF StartsFit
<1>3. ASSUME NEW n \in Nat, n \in T PROVE n + 1 \in T
  <2> SUFFICES ASSUME n + 1 \in 0 .. N PROVE StartsFit(F, content, n + 1)
    OBVIOUS
  <2>1. n \in 0 .. N /\ StartsFit(F, content, n) /\ n \in 0 .. N - 1 /\ n + 1 <= N
    BY <1>0, <1>3
  <2>2. F[n] \in Seq(Nat) /\ Len(F[n]) \in Nat
    BY <1>1, <2>1
  <2>3. F[n + 1] = IF content[n + 1] = "\n" THEN Append(F[n], n + 1) ELSE F[n]
    BY <2>1 DEF StartsAt, N
  <2>4. Cardinality(Newlines(content, n)) \in Nat
        /\ Cardinality(Newlines(content, n + 1)) =
             Cardinality(Newlines(content, n)) + (IF content[n + 1] = "\n" THEN 1 ELSE 0)
    BY <2>1, NewlinesCount DEF N
  <2>5. \A m \in 0 .. n + 1 : m \in 0 .. n \/ m = n + 1
    OBVIOUS
  <2>6. \A m \in 0 .. n : Len(F[m]) \in Nat /\ m \in Nat /\ m <= n
    BY <1>0, <1>1, <2>1
  <2>7. CASE content[n + 1] = "\n"
    <3> DEFINE l == Len(F[n])
    <3>1. /\ Len(F[n + 1]) = l + 1 /\ F[n + 1][l + 1] = n + 1
          /\ \A k \in 1 .. l : F[n + 1][k] = F[n][k]
      BY <2>2, <2>3, <2>7
    <3>2. l \in Nat /\ l >= 1
      BY <2>1, <2>2, <2>4 DEF StartsFit
    <3>3. \A k \in 1 .. l : F[n][k] \in Nat
      BY <2>2
    <3> HIDE DEF l
    <3>4. Len(F[n + 1]) = Cardinality(Newlines(content, n + 1)) + 1
      BY <2>1, <2>4, <2>7, <3>1 DEF StartsFit, l
    <3>5. F[n + 1][1] = 0
      <4>1. 1 \in 1 .. l
        BY <3>2
      <4> QED
        BY <2>1, <3>1, <4>1 DEF StartsFit
    <3>6. \A k \in 1 .. l + 1 : k \in 1 .. l \/ k = l + 1
      BY <3>2
    <3>7. \A k \in 1 .. l + 1 : F[n + 1][k] <= n + 1
      <4> TAKE k \in 1 .. l + 1
      <4>1. CASE k \in 1 .. l
        <5>1. F[n][k] <= n /\ F[n + 1][k] = F[n][k] /\ F[n][k] \in Nat
          BY <2>1, <3>1, <3>3, <4>1 DEF StartsFit, l
        <5> QED
          BY <5>1
      <4>2. CASE k = l + 1
        BY <3>1, <4>2
      <4> QED
        BY <3>6, <4>1, <4>2
    <3>8. \A k \in 2 .. l + 1 : F[n + 1][k] >= 1 /\ content[F[n + 1][k]] = "\n"
      <4> TAKE k \in 2 .. l + 1
      <4>1. k = l + 1 \/ (k \in 2 .. l /\ k \in 1 .. l)
        BY <3>2
      <4>2. CASE k = l + 1
        <5>1. F[n + 1][k] = n + 1
          BY <3>1, <4>2
        <5> QED
          BY <2>7, <5>1
      <4>3. CASE k \in 2 .. l /\ k \in 1 .. l
        <5>1. F[n + 1][k] = F[n][k]
          BY <3>1, <4>3
        <5>2. F[n][k] >= 1 /\ content[F[n][k]] = "\n"
          BY <2>1, <4>3 DEF StartsFit, l
        <5> QED
          BY <5>1, <5>2
      <4> QED
        BY <4>1, <4>2, <4>3
    <3>9. ASSUME NEW m \in 0 .. n
          PROVE  /\ Len(F[m]) <= l + 1
                 /\ \A k \in 1 .. Len(F[m]) : F[n + 1][k] = F[m][k]
                 /\ \A k \in Len(F[m]) + 1 .. l + 1 : F[n + 1][k] > m
      <4>1. /\ Len(F[m]) <= l /\ Len(F[m]) \in Nat /\ m \in Nat /\ m <= n
            /\ \A k \in 1 .. Len(F[m]) : F[n][k] = F[m][k]
            /\ \A k \in Len(F[m]) + 1 .. l : F[n][k] > m
        BY <2>1, <2>6 DEF StartsFit, l
      <4>2. \A k \in 1 .. Len(F[m]) : k \in 1 .. l
        BY <3>2, <4>1
      <4>3. \A k \in Len(F[m]) + 1 .. l + 1 : k = l + 1 \/ (k \in Len(F[m]) + 1 .. l /\ k \in 1 .. l)
        BY <3>2, <4>1
      <4>4. \A k \in 1 .. Len(F[m]) : F[n + 1][k] = F[m][k]
        BY <3>1, <4>1, <4>2
      <4>5. ASSUME NEW k \in Len(F[m]) + 1 .. l + 1 PROVE F[n + 1][k] > m
        <5>1. CASE k = l + 1
          BY <3>1, <4>1, <5>1
        <5>2. CASE k \in Len(F[m]) + 1 .. l /\ k \in 1 .. l
          BY <3>1, <4>1, <5>2
        <5> QED
          BY <4>3, <5>1, <5>2
      <4>6. Len(F[m]) <= l + 1
        BY <3>2, <4>1
      <4> QED
        BY <4>4, <4>5, <4>6
    <3>10. \A k \in Len(F[n + 1]) + 1 .. Len(F[n + 1]) : FALSE
      BY <3>1, <3>2
    <3> QED
      BY <2>5, <3>1, <3>4, <3>5, <3>7, <3>8, <3>9, <3>10 DEF StartsFit
  <2>8. CASE content[n + 1] # "\n"
    <3>1. F[n + 1] = F[n]
      BY <2>3, <2>8
    <3>2. \A k \in 1 .. Len(F[n]) : F[n][k] \in Nat
      BY <2>2
    <3>3. \A k \in 1 .. Len(F[n]) : F[n][k] <= n + 1
      BY <2>1, <3>2 DEF StartsFit
    <3>4. \A k \in Len(F[n]) + 1 .. Len(F[n]) : FALSE
      BY <2>2
    <3>5. Len(F[n]) = Cardinality(Newlines(content, n + 1)) + 1
      BY <2>1, <2>4, <2>8 DEF StartsFit
    <3>6. F[n + 1][1] = 0
      BY <2>1, <3>1 DEF StartsFit
    <3>7. \A k \in 2 .. Len(F[n]) : F[n][k] >= 1 /\ content[F[n][k]] = "\n"
      BY <2>1 DEF StartsFit
    <3>8. \A m \in 0 .. n :
            /\ Len(F[m]) <= Len(F[n])
            /\ \A k \in 1 .. Len(F[m]) : F[n][k] = F[m][k]
            /\ \A k \in Len(F[m]) + 1 .. Len(F[n]) : F[n][k] > m
      BY <2>1 DEF StartsFit
    <3>9. Len(F[n + 1]) <= Len(F[n])
      BY <2>2, <3>1
    <3>10. \A m \in 0 .. n + 1 :
            /\ Len(F[m]) <= Len(F[n + 1])
            /\ \A k \in 1 .. Len(F[m]) : F[n + 1][k] = F[m][k]
            /\ \A k \in Len(F[m]) + 1 .. Len(F[n + 1]) : F[n + 1][k] > m
      <4> TAKE m \in 0 .. n + 1
      <4>1. CASE m \in 0 .. n
        BY <3>1, <3>8, <4>1
      <4>2. CASE m = n + 1
        BY <3>1, <3>4, <3>9, <4>2
      <4> QED
        BY <2>5, <4>1, <4>2
    <3> QED
      BY <3>1, <3>3, <3>5, <3>6, <3>7, <3>10 DEF StartsFit
  <2> QED
    BY <2>7, <2>8
<1>4. Nat \subseteq T
  <2> HIDE DEF T
  <2> QED BY <1>2, <1>3, Induction
<1> QED
  BY <1>0, <1>4 DEF N

\* starts: byte 0, and one past every newline; so many are not behind i.
StartsRank(starts, content) ==
  /\ starts \in Seq(Nat)
  /\ Len(starts) = Cardinality(Newlines(content, Len(content))) + 1
  /\ starts[1] = 0
  /\ \A k \in 1 .. Len(starts) : starts[k] \in 0 .. Len(content)
  /\ \A k \in 2 .. Len(starts) : starts[k] >= 1 /\ content[starts[k]] = "\n"
  /\ \A i \in 0 .. Len(content) :
       /\ Cardinality(Newlines(content, i)) \in Nat
       /\ Cardinality(Newlines(content, i)) + 1 <= Len(starts)
       /\ \A k \in 1 .. Len(starts) :
            starts[k] <= i <=> k <= Cardinality(Newlines(content, i)) + 1

LEMMA StartsAreRanked ==
  ASSUME NEW content \in Seq(Chars)
  PROVE  StartsRank(LineStarts(content), content)
<1> DEFINE N == Len(content)
<1>0. N \in Nat
  OBVIOUS
<1>1. PICK F : StartsAt(F, content) /\ LineStarts(content) = F[N]
  BY StartsExist
<1>2. \A n \in 0 .. N : StartsFit(F, content, n)
  BY <1>1, StartsFitAlways
<1> HIDE DEF N
<1>3. \A n \in 0 .. N : F[n] \in Seq(Nat) /\ Len(F[n]) \in Nat
  BY <1>1 DEF StartsAt, N
<1> DEFINE starts == F[N]
           K == Len(starts)
<1>4. starts \in Seq(Nat) /\ K \in Nat /\ StartsFit(F, content, N) /\ N \in 0 .. N
  BY <1>0, <1>2, <1>3
<1>5. \A k \in 1 .. K : starts[k] \in Nat
  BY <1>4
<1>6. ASSUME NEW i \in 0 .. N
      PROVE  /\ Cardinality(Newlines(content, i)) \in Nat
             /\ Cardinality(Newlines(content, i)) + 1 <= K
             /\ \A k \in 1 .. K : starts[k] <= i <=> k <= Cardinality(Newlines(content, i)) + 1
  <2> DEFINE c == Len(F[i])
  <2>1. Cardinality(Newlines(content, i)) \in Nat
    BY NewlinesCount DEF N
  <2>2. c = Cardinality(Newlines(content, i)) + 1 /\ c \in Nat
    BY <1>2, <1>3 DEF StartsFit
  <2>3. /\ c <= K
        /\ \A k \in 1 .. c : starts[k] = F[i][k]
        /\ \A k \in c + 1 .. K : starts[k] > i
    BY <1>4 DEF StartsFit
  <2>4. \A k \in 1 .. c : F[i][k] <= i
    BY <1>2 DEF StartsFit
  <2>5. ASSUME NEW k \in 1 .. K PROVE starts[k] <= i <=> k <= c
    <3> HIDE DEF c, K, starts
    <3>1. starts[k] \in Nat /\ i \in Nat
      BY <1>0, <1>5
    <3>2. CASE k <= c
      <4>1. k \in 1 .. c
        BY <1>4, <2>2, <3>2
      <4> QED
        BY <2>3, <2>4, <3>2, <4>1
    <3>3. CASE ~ (k <= c)
      <4>1. k \in c + 1 .. K
        BY <1>4, <2>2, <3>3
      <4>2. starts[k] > i
        BY <2>3, <4>1
      <4> QED
        BY <3>1, <3>3, <4>2
    <3> QED
      BY <3>2, <3>3
  <2> QED
    BY <2>1, <2>2, <2>3, <2>5
<1>7. /\ K = Cardinality(Newlines(content, N)) + 1 /\ starts[1] = 0
      /\ \A k \in 1 .. K : starts[k] <= N
      /\ \A k \in 2 .. K : starts[k] >= 1 /\ content[starts[k]] = "\n"
  BY <1>4 DEF StartsFit
<1>8. \A k \in 1 .. K : starts[k] \in 0 .. N
  BY <1>0, <1>5, <1>7
<1>9. LineStarts(content) = starts
  BY <1>1
<1> HIDE DEF starts
<1> QED
  BY <1>4, <1>6, <1>7, <1>8, <1>9 DEF StartsRank, N

\* Where line n begins, and where it ends without its newline.
Ending(starts, content, n) ==
  IF n < Len(starts) THEN starts[n + 1] - 1 ELSE Len(content)

Places(content, n) ==
  {i \in DOMAIN content : Cardinality(Newlines(content, i)) = n - 1 /\ content[i] # "\n"}

LEMMA PlacesAre ==
  ASSUME NEW content \in Seq(Chars), NEW starts, StartsRank(starts, content),
         NEW n \in 1 .. Len(starts)
  PROVE  /\ Ending(starts, content, n) \in starts[n] .. Len(content)
         /\ Places(content, n) = starts[n] + 1 .. Ending(starts, content, n)
<1> DEFINE N == Len(content)
           K == Len(starts)
           c(i) == Cardinality(Newlines(content, i))
           a == starts[n]
           e == Ending(starts, content, n)
<1>0. N \in Nat /\ DOMAIN content = 1 .. N
  OBVIOUS
<1>1. /\ K \in Nat /\ K = c(N) + 1
      /\ \A k \in 1 .. K : starts[k] \in 0 .. N
      /\ \A k \in 2 .. K : starts[k] >= 1 /\ content[starts[k]] = "\n"
      /\ \A i \in 0 .. N : c(i) \in Nat /\ c(i) + 1 <= K
                          /\ \A k \in 1 .. K : starts[k] <= i <=> k <= c(i) + 1
  BY DEF StartsRank
<1>2. \A i \in 0 .. N : i + 1 <= N => c(i + 1) = c(i) + (IF content[i + 1] = "\n" THEN 1 ELSE 0)
  BY NewlinesCount
<1>3. e = IF n < K THEN starts[n + 1] - 1 ELSE N
  BY DEF Ending
<1> HIDE DEF N, K, c
<1>4. n \in Nat /\ n >= 1 /\ n <= K /\ a \in 0 .. N /\ a \in Nat
  BY <1>0, <1>1 DEF K
<1>5. ASSUME NEW i \in 0 .. N PROVE c(i) = n - 1 <=> a <= i /\ i <= e
  <2>1. a <= i <=> n <= c(i) + 1
    BY <1>1, <1>4
  <2>2. CASE n < K
    <3>1. n + 1 \in 1 .. K
      BY <1>1, <1>4, <2>2
    <3>2. starts[n + 1] <= i <=> n + 1 <= c(i) + 1
      BY <1>1, <3>1
    <3>3. starts[n + 1] \in Nat /\ c(i) \in Nat /\ i \in Nat
      BY <1>0, <1>1, <3>1
    <3> QED
      BY <1>3, <1>4, <2>1, <2>2, <3>2, <3>3
  <2>3. CASE ~ (n < K)
    <3>1. c(i) \in Nat /\ i \in Nat /\ i <= N /\ c(i) + 1 <= K
      BY <1>0, <1>1
    <3> QED
      BY <1>1, <1>3, <1>4, <2>1, <2>3, <3>1
  <2> QED
    BY <2>2, <2>3
<1>6. e \in a .. N
  <2>1. CASE n < K
    <3>1. n + 1 \in 1 .. K /\ n + 1 \in 2 .. K
      BY <1>1, <1>4, <2>1
    <3>2. starts[n + 1] \in 1 .. N /\ content[starts[n + 1]] = "\n"
      BY <1>0, <1>1, <3>1
    <3>3. e \in 0 .. N /\ e + 1 <= N /\ e + 1 = starts[n + 1]
      BY <1>0, <1>3, <2>1, <3>2
    <3>4. c(e + 1) = c(e) + 1
      BY <1>2, <3>2, <3>3
    <3>5. e + 1 \in 0 .. N
      BY <1>0, <3>3
    <3>6. n + 1 <= c(e + 1) + 1
      <4>1. starts[n + 1] <= e + 1
        BY <1>0, <3>2, <3>3
      <4> QED
        BY <1>1, <3>1, <3>5, <4>1
    <3>7. c(e) \in Nat /\ n <= c(e) + 1
      BY <1>1, <1>4, <3>3, <3>4, <3>6
    <3>8. a <= e
      BY <1>1, <1>4, <3>3, <3>7
    <3> QED
      BY <1>0, <1>4, <3>3, <3>8
  <2>2. CASE ~ (n < K)
    BY <1>0, <1>3, <1>4, <2>2
  <2> QED
    BY <2>1, <2>2
<1>7. ASSUME NEW i \in 1 .. N, c(i) = n - 1, content[i] # "\n" PROVE i \in a + 1 .. e
  <2>1. i \in 0 .. N /\ i \in Nat
    BY <1>0
  <2>2. a <= i /\ i <= e
    BY <1>5, <1>7, <2>1
  <2>3. i # a
    <3> SUFFICES ASSUME i = a PROVE FALSE
      OBVIOUS
    <3>1. CASE n = 1
      <4>1. starts[1] = 0
        BY DEF StartsRank
      <4> QED
        BY <3>1, <4>1
    <3>2. CASE n # 1
      <4>1. n \in 2 .. K
        BY <1>1, <1>4, <3>2
      <4> QED
        BY <1>1, <1>7, <4>1
    <3> QED
      BY <3>1, <3>2
  <2> QED
    BY <1>4, <1>6, <2>1, <2>2, <2>3
<1>8. ASSUME NEW i \in a + 1 .. e PROVE i \in 1 .. N /\ c(i) = n - 1 /\ content[i] # "\n"
  <2>1. i \in 1 .. N /\ i \in 0 .. N /\ a <= i /\ i <= e /\ i - 1 \in 0 .. N /\ a <= i - 1 /\ i - 1 <= e
        /\ (i - 1) + 1 = i /\ i <= N
    BY <1>0, <1>4, <1>6
  <2>2. c(i) = n - 1 /\ c(i - 1) = n - 1
    BY <1>5, <2>1
  <2>3. content[i] # "\n"
    <3> SUFFICES ASSUME content[i] = "\n" PROVE FALSE
      OBVIOUS
    <3>1. c(i) = c(i - 1) + 1
      BY <1>2, <2>1
    <3> QED
      BY <1>4, <2>2, <3>1
  <2> QED
    BY <2>1, <2>2, <2>3
<1>9. Places(content, n) = {i \in 1 .. N : c(i) = n - 1 /\ content[i] # "\n"}
  BY <1>0 DEF Places, c
<1>10. Places(content, n) = a + 1 .. e
  <2> HIDE DEF e, a
  <2> QED
    BY <1>7, <1>8, <1>9
<1> QED
  BY <1>6, <1>10 DEF N

LEMMA FirstsAgree ==
  ASSUME NEW S, NEW u \in Seq(S), NEW v \in Seq(S), NEW k \in Nat, k <= Len(u), k <= Len(v)
  PROVE  SubSeq(u, 1, k) = SubSeq(v, 1, k) <=> \A i \in 1 .. k : u[i] = v[i]
<1> DEFINE a == SubSeq(u, 1, k)
           b == SubSeq(v, 1, k)
<1>1. a \in Seq(S) /\ Len(a) = k /\ \A i \in 1 .. k : a[i] = u[i]
  OBVIOUS
<1>2. b \in Seq(S) /\ Len(b) = k /\ \A i \in 1 .. k : b[i] = v[i]
  OBVIOUS
<1> HIDE DEF a, b
<1>3. (\A i \in 1 .. k : a[i] = b[i]) => a = b
  BY <1>1, <1>2
<1>4. a = b => \A i \in 1 .. k : u[i] = v[i]
  <2> SUFFICES ASSUME a = b, NEW i \in 1 .. k PROVE u[i] = v[i]
    OBVIOUS
  <2>1. a[i] = u[i] /\ b[i] = v[i]
    BY <1>1, <1>2
  <2> QED
    BY <2>1
<1>5. (\A i \in 1 .. k : u[i] = v[i]) => a = b
  BY <1>1, <1>2, <1>3
<1> QED
  BY <1>4, <1>5 DEF a, b

LEMMA EndsWithOne ==
  ASSUME NEW t \in Seq(Chars), NEW c \in Chars
  PROVE  IsSuffix(<<c>>, t) <=> Len(t) >= 1 /\ t[Len(t)] = c
<1> DEFINE n == Len(t)
<1>1. n \in Nat
  OBVIOUS
<1>2. Len(<<c>>) = 1 /\ <<c>>[1] = c
  OBVIOUS
<1>3. Reverse(<<c>>) = <<c>>
  <2>1. Reverse(<<c>>) = [i \in 1 .. 1 |-> <<c>>[(1 - i) + 1]]
    BY <1>2 DEF Reverse
  <2>2. \A i \in 1 .. 1 : i = 1 /\ (1 - i) + 1 = 1
    OBVIOUS
  <2> QED
    BY <2>1, <2>2
<1>4. Reverse(t) = [i \in 1 .. n |-> t[(n - i) + 1]]
  BY DEF Reverse
<1>5. Len(Reverse(t)) = n /\ (n >= 1 => Reverse(t)[1] = t[n])
  <2>1. n >= 1 => 1 \in 1 .. n /\ (n - 1) + 1 = n
    BY <1>1
  <2> QED
    BY <1>1, <1>4, <2>1
<1>6. \A i \in 1 .. n : (n - i) + 1 \in 1 .. n
  BY <1>1
<1>7. Reverse(t) \in Seq(Chars)
  BY <1>1, <1>4, <1>6
<1>8. IsSuffix(<<c>>, t) <=> 1 <= n /\ SubSeq(<<c>>, 1, 1) = SubSeq(Reverse(t), 1, 1)
  BY <1>2, <1>3, <1>5 DEF IsSuffix, IsPrefix
<1>9. ASSUME n >= 1 PROVE SubSeq(<<c>>, 1, 1) = SubSeq(Reverse(t), 1, 1) <=> c = t[n]
  <2>1. <<c>> \in Seq(Chars) /\ 1 \in Nat /\ 1 <= Len(<<c>>)
    BY <1>2
  <2>2. 1 <= Len(Reverse(t))
    BY <1>5, <1>9
  <2>3. SubSeq(<<c>>, 1, 1) = SubSeq(Reverse(t), 1, 1) <=> \A i \in 1 .. 1 : <<c>>[i] = Reverse(t)[i]
    BY <1>7, <2>1, <2>2, FirstsAgree
  <2>4. \A i : i \in 1 .. 1 <=> i = 1
    OBVIOUS
  <2> QED
    BY <1>2, <1>5, <1>9, <2>3, <2>4
<1> QED
  BY <1>1, <1>8, <1>9

LEMMA EndsWithTwo ==
  ASSUME NEW t \in Seq(Chars), NEW c \in Chars, NEW d \in Chars
  PROVE  IsSuffix(<<c, d>>, t) <=> Len(t) >= 2 /\ t[Len(t) - 1] = c /\ t[Len(t)] = d
<1> DEFINE n == Len(t)
<1>1. n \in Nat
  OBVIOUS
<1>2. Len(<<c, d>>) = 2 /\ <<c, d>>[1] = c /\ <<c, d>>[2] = d
  OBVIOUS
<1>3. Reverse(<<c, d>>) = <<d, c>>
  <2>1. Reverse(<<c, d>>) = [i \in 1 .. 2 |-> <<c, d>>[(2 - i) + 1]]
    BY <1>2 DEF Reverse
  <2>2. \A i \in 1 .. 2 : i = 1 \/ i = 2
    OBVIOUS
  <2> QED
    BY <1>2, <2>1, <2>2
<1>4. Reverse(t) = [i \in 1 .. n |-> t[(n - i) + 1]]
  BY DEF Reverse
<1>5. Len(Reverse(t)) = n /\ (n >= 2 => Reverse(t)[1] = t[n] /\ Reverse(t)[2] = t[n - 1])
  <2>1. n >= 2 => 1 \in 1 .. n /\ (n - 1) + 1 = n /\ 2 \in 1 .. n /\ (n - 2) + 1 = n - 1
    BY <1>1
  <2> QED
    BY <1>1, <1>4, <2>1
<1>6. \A i \in 1 .. n : (n - i) + 1 \in 1 .. n
  BY <1>1
<1>7. Reverse(t) \in Seq(Chars)
  BY <1>1, <1>4, <1>6
<1>8. IsSuffix(<<c, d>>, t) <=> 2 <= n /\ SubSeq(<<d, c>>, 1, 2) = SubSeq(Reverse(t), 1, 2)
  <2>1. Len(<<d, c>>) = 2
    OBVIOUS
  <2> QED
    BY <1>3, <1>5, <2>1 DEF IsSuffix, IsPrefix
<1>9. ASSUME n >= 2
      PROVE  SubSeq(<<d, c>>, 1, 2) = SubSeq(Reverse(t), 1, 2) <=> d = t[n] /\ c = t[n - 1]
  <2> DEFINE w == <<d, c>>
  <2>1. w \in Seq(Chars) /\ Len(w) = 2 /\ w[1] = d /\ w[2] = c
    OBVIOUS
  <2>2. 2 \in Nat /\ 2 <= Len(Reverse(t)) /\ 2 <= Len(w)
    BY <1>5, <1>9, <2>1
  <2> HIDE DEF w
  <2>3. SubSeq(w, 1, 2) = SubSeq(Reverse(t), 1, 2) <=> \A i \in 1 .. 2 : w[i] = Reverse(t)[i]
    BY <1>7, <2>1, <2>2, FirstsAgree
  <2>4. \A i : i \in 1 .. 2 <=> i = 1 \/ i = 2
    OBVIOUS
  <2>5. SubSeq(w, 1, 2) = SubSeq(Reverse(t), 1, 2) <=> d = t[n] /\ c = t[n - 1]
    BY <1>5, <1>9, <2>1, <2>3, <2>4
  <2> QED
    BY <2>5 DEF w
<1> QED
  BY <1>1, <1>8, <1>9

\* What is left of a line with and without a newline at its end.
LEMMA StrippedIs ==
  ASSUME NEW line \in Seq(Chars), \A i \in 1 .. Len(line) : line[i] # "\n"
  PROVE  /\ Stripped(line) = line
         /\ Stripped(Append(line, "\n")) =
              IF IsSuffix(<<"\r">>, line) THEN SubSeq(line, 1, Len(line) - 1) ELSE line
<1> DEFINE n == Len(line)
           full == Append(line, "\n")
<1>0. "\r" \in Chars /\ "\n" \in Chars
  BY DEF Chars
<1>1. /\ n \in Nat /\ full \in Seq(Chars) /\ Len(full) = n + 1 /\ full[n + 1] = "\n"
      /\ \A i \in 1 .. n : full[i] = line[i]
  BY <1>0
<1>2. ~ IsSuffix(<<"\n">>, line) /\ ~ IsSuffix(<<"\r", "\n">>, line)
  <2>1. n >= 1 => n \in 1 .. n
    BY <1>1
  <2> QED
    BY <1>0, <1>1, <2>1, EndsWithOne, EndsWithTwo
<1>3. IsSuffix(<<"\n">>, full)
  <2> HIDE DEF full
  <2>1. Len(full) >= 1 /\ full[Len(full)] = "\n"
    BY <1>1
  <2> QED
    BY <1>0, <1>1, <2>1, EndsWithOne
<1>4. IsSuffix(<<"\r", "\n">>, full) <=> IsSuffix(<<"\r">>, line)
  <2>1. IsSuffix(<<"\r", "\n">>, full) <=>
          Len(full) >= 2 /\ full[Len(full) - 1] = "\r" /\ full[Len(full)] = "\n"
    BY <1>0, <1>1, EndsWithTwo
  <2>2. IsSuffix(<<"\r">>, line) <=> n >= 1 /\ line[n] = "\r"
    BY <1>0, EndsWithOne
  <2> HIDE DEF full, n
  <2>3. Len(full) - 1 = n /\ (n >= 1 => n \in 1 .. n) /\ (Len(full) >= 2 <=> n >= 1)
    BY <1>1
  <2> QED
    BY <1>1, <2>1, <2>2, <2>3
<1>5. SubSeq(full, 1, Len(full) - 1) = line
  OBVIOUS
<1>6. ASSUME n >= 1 PROVE SubSeq(full, 1, Len(full) - 2) = SubSeq(line, 1, n - 1)
  <2>1. Len(full) - 2 = n - 1 /\ n - 1 \in Nat
    BY <1>1, <1>6
  <2>2. \A i \in 1 .. n - 1 : i \in 1 .. n
    BY <1>1
  <2>3. SubSeq(full, 1, n - 1) = [i \in 1 .. n - 1 |-> full[i]]
    <3> HIDE DEF full
    <3> QED
      BY <1>1, <1>6, <2>1
  <2>4. SubSeq(line, 1, n - 1) = [i \in 1 .. n - 1 |-> line[i]]
    BY <1>1, <1>6, <2>1
  <2> HIDE DEF full, n
  <2> QED
    BY <1>1, <2>1, <2>2, <2>3, <2>4
<1>7. IsSuffix(<<"\r">>, line) => n >= 1
  BY <1>0, EndsWithOne
<1> HIDE DEF full, n
<1>8. Stripped(line) = line
  BY <1>2 DEF Stripped
<1>9. Stripped(full) = IF IsSuffix(<<"\r">>, line) THEN SubSeq(line, 1, n - 1) ELSE line
  BY <1>3, <1>4, <1>5, <1>6, <1>7 DEF Stripped
<1> QED
  BY <1>8, <1>9 DEF full, n

LEMMA PartIs ==
  ASSUME NEW S, NEW s \in Seq(S), NEW a \in Nat, NEW b \in Nat, a < b, b <= Len(s)
  PROVE  /\ SubSeq(s, a + 1, b) \in Seq(S) /\ Len(SubSeq(s, a + 1, b)) = b - a
         /\ \A i \in 1 .. b - a : SubSeq(s, a + 1, b)[i] = s[a + i]
  OBVIOUS

LineIs(content, n) ==
  LineAt(content, n) = IF n <= Cardinality(Newlines(content, Len(content))) + 1
                         THEN <<Between(content, n)>> ELSE <<>>

LEMMA LinesAreBetween ==
  ASSUME NEW content \in Seq(Chars), NEW n \in Nat \ {0}
  PROVE  LineIs(content, n)
<1> DEFINE starts == LineStarts(content)
           N == Len(content)
           K == Len(starts)
           total == Cardinality(Newlines(content, N))
           next == IF n + 1 \in DOMAIN starts THEN starts[n + 1] ELSE N
<1>0. N \in Nat
  OBVIOUS
<1>1. StartsRank(starts, content)
  BY StartsAreRanked
<1>6. total \in Nat
  BY <1>0, NewlinesCount
<1>2. starts \in Seq(Nat) /\ K \in Nat /\ K = total + 1 /\ DOMAIN starts = 1 .. K
  <2> HIDE DEF starts
  <2>1. starts \in Seq(Nat) /\ Len(starts) = Cardinality(Newlines(content, Len(content))) + 1
    BY <1>1 DEF StartsRank
  <2> QED
    BY <2>1
<1>3. LineAt(content, n) =
        IF n \notin DOMAIN starts THEN <<>>
        ELSE <<Stripped(SubSeq(content, starts[n] + 1, next))>>
  BY DEF LineAt
<1> HIDE DEF starts, total, next
<1>4. CASE n > K
  <2>1. n \notin DOMAIN starts /\ ~ (n <= total + 1)
    BY <1>2, <1>4
  <2> QED
    BY <1>3, <2>1 DEF LineIs, total
<1>5. CASE n <= K
  <2>0. n \in 1 .. K
    BY <1>2, <1>5
  <2> DEFINE a == starts[n]
             e == Ending(starts, content, n)
             line == SubSeq(content, a + 1, e)
             places == Places(content, n)
  <2>1. e \in a .. N /\ places = a + 1 .. e
    BY <1>1, <2>0, PlacesAre
  <2>2. a \in Nat /\ a <= N
    BY <1>0, <1>1, <2>0 DEF StartsRank
  <2>3. e \in Nat /\ a <= e /\ e <= N /\ e = IF n < K THEN starts[n + 1] - 1 ELSE N
    BY <1>0, <2>1, <2>2 DEF Ending
  <2> HIDE DEF a, e, places
  <2>4. /\ line \in Seq(Chars) /\ Len(line) = e - a
        /\ \A i \in 1 .. e - a : line[i] = content[a + i]
    BY <1>0, <2>2, <2>3
  <2>5. \A i \in 1 .. Len(line) : line[i] # "\n"
    <3>1. ASSUME NEW i \in 1 .. Len(line) PROVE line[i] # "\n"
      <4> HIDE DEF line
      <4>1. i \in 1 .. e - a /\ a + i \in a + 1 .. e
        BY <2>2, <2>3, <2>4
      <4>2. a + i \in places
        BY <2>1, <4>1
      <4> QED
        BY <2>4, <4>1, <4>2 DEF places, Places
    <3> QED
      BY <3>1
  <2>6. Stripped(line) = line
        /\ Stripped(Append(line, "\n")) =
             IF IsSuffix(<<"\r">>, line) THEN SubSeq(line, 1, Len(line) - 1) ELSE line
    <3> HIDE DEF line
    <3> QED
      BY <2>4, <2>5, StrippedIs
  <2>7. Between(content, n) =
          IF n < K /\ IsSuffix(<<"\r">>, line) THEN SubSeq(line, 1, Len(line) - 1) ELSE line
    <3> DEFINE first == CHOOSE i \in places : \A j \in places : i <= j
               span == IF places = {} THEN <<>>
                       ELSE SubSeq(content, first, first + Cardinality(places) - 1)
               ended == total >= n
    <3>1. Between(content, n) =
            IF ended /\ IsSuffix(<<"\r">>, span) THEN SubSeq(span, 1, Len(span) - 1) ELSE span
      BY DEF Between, Newlines, places, Places, total
    <3>2. ended <=> n < K
      BY <1>2, <1>6, <2>0
    <3>3. span = line
      <4>1. CASE a = e
        <5>1. places = {}
          BY <2>1, <2>2, <4>1
        <5>2. Len(line) = 0
          BY <2>2, <2>4, <4>1
        <5>3. line = <<>>
          <6> HIDE DEF line
          <6> QED
            BY <2>4, <5>2, EmptyOrNot
        <5> QED
          BY <5>1, <5>3
      <4>2. CASE a # e
        <5>1. a + 1 \in places /\ \A j \in places : a + 1 <= j
          BY <2>1, <2>2, <2>3, <4>2
        <5>2. \A i \in places : (\A j \in places : i <= j) => i = a + 1
          <6>1. \A i \in places : i \in Nat
            BY <2>1, <2>2, <2>3
          <6> QED
            BY <2>2, <5>1, <6>1
        <5>3. first = a + 1
          BY <5>1, <5>2
        <5>4. Cardinality(places) = e - a
          <6>1. a + 1 \in Int /\ e \in Int /\ ~ (a + 1 > e)
            BY <2>2, <2>3, <4>2
          <6>2. Cardinality(a + 1 .. e) = e - (a + 1) + 1
            BY <6>1, FS_Interval
          <6> QED
            BY <2>1, <2>2, <2>3, <6>2
        <5> HIDE DEF first
        <5>5. first + Cardinality(places) - 1 = e
          <6>1. (a + 1) + (e - a) - 1 = e
            BY <2>2, <2>3
          <6> QED
            BY <5>3, <5>4, <6>1
        <5>6. places # {}
          BY <5>1
        <5> QED
          BY <5>3, <5>5, <5>6
      <4> QED
        BY <4>1, <4>2
    <3> HIDE DEF span, ended, line
    <3> QED
      BY <3>1, <3>2, <3>3
  <2>8. Stripped(SubSeq(content, a + 1, next)) =
          IF n < K /\ IsSuffix(<<"\r">>, line) THEN SubSeq(line, 1, Len(line) - 1) ELSE line
    <3>1. CASE n < K
      <4>1. n + 1 \in 1 .. K /\ n + 1 \in 2 .. K
        BY <1>2, <2>0, <3>1
      <4>2. starts[n + 1] \in 0 .. N /\ content[starts[n + 1]] = "\n"
        BY <1>1, <4>1 DEF StartsRank
      <4>3. next = starts[n + 1] /\ next = e + 1 /\ next <= N
        BY <1>0, <1>2, <2>3, <3>1, <4>1, <4>2 DEF next
      <4>4. content[e + 1] = "\n" /\ e + 1 \in 1 .. N
        BY <1>0, <2>3, <4>2, <4>3
      <4>5. SubSeq(content, a + 1, e + 1) = Append(line, "\n")
        <5> DEFINE whole == SubSeq(content, a + 1, e + 1)
                   full == Append(line, "\n")
        <5>0. e + 1 \in Nat /\ a < e + 1 /\ e + 1 <= N /\ (e + 1) - a = (e - a) + 1
          BY <1>0, <2>2, <2>3, <4>4
        <5>1. /\ whole \in Seq(Chars) /\ Len(whole) = (e - a) + 1
              /\ \A i \in 1 .. (e - a) + 1 : whole[i] = content[a + i]
          <6> HIDE DEF line
          <6> QED
            BY <2>2, <5>0, PartIs
        <5>2. full \in Seq(Chars) /\ Len(full) = (e - a) + 1 /\ full[(e - a) + 1] = "\n"
              /\ \A i \in 1 .. e - a : full[i] = line[i]
          <6> HIDE DEF line
          <6>1. "\n" \in Chars
            BY DEF Chars
          <6> QED
            BY <2>4, <6>1
        <5> HIDE DEF whole, full, line
        <5>3. ASSUME NEW i \in 1 .. (e - a) + 1 PROVE whole[i] = full[i]
          <6>1. CASE i \in 1 .. e - a
            BY <2>4, <5>1, <5>2, <6>1
          <6>2. CASE i = (e - a) + 1
            <7>1. a + i = e + 1
              BY <2>2, <2>3, <6>2
            <7> QED
              BY <4>4, <5>1, <5>2, <6>2, <7>1
          <6> QED
            BY <2>2, <2>3, <6>1, <6>2
        <5>4. whole = full
          BY <5>1, <5>2, <5>3
        <5> QED
          BY <5>4 DEF whole, full
      <4> HIDE DEF line
      <4> QED
        BY <2>6, <3>1, <4>3, <4>5
    <3>2. CASE ~ (n < K)
      <4>1. next = e
        <5>1. n + 1 \notin 1 .. K
          BY <1>2, <2>0, <3>2
        <5> QED
          BY <1>2, <2>3, <3>2, <5>1 DEF next
      <4> QED
        BY <2>6, <3>2, <4>1
    <3> QED
      BY <3>1, <3>2
  <2>9. n \in DOMAIN starts /\ n <= total + 1
    BY <1>2, <2>0
  <2> HIDE DEF line
  <2>10. LineAt(content, n) = <<Stripped(SubSeq(content, a + 1, next))>>
    BY <1>3, <2>9 DEF a
  <2> QED
    BY <2>7, <2>8, <2>9, <2>10 DEF LineIs, total
<1> QED
  BY <1>2, <1>4, <1>5

-----------------------------------------------------------------------------
(* The cache of source files, and a text that is made again.               *)

Versions == Contents \cup Rewritten

Caches == UNION {[D -> Versions] : D \in SUBSET Paths}

\* Whatever became of a first read is kept.
KeptIn(cache, more) ==
  DOMAIN cache \subseteq DOMAIN more /\ \A p \in DOMAIN cache : more[p] = cache[p]

\* The files that line n is looked for in have been read.
Settles(cache, n) ==
  n # 0 => /\ "built" \in DOMAIN cache
           /\ cache["built"] = Unreadable => "recipe" \in DOMAIN cache

LineIn(cache, n) ==
  IF n = 0 THEN <<>>
  ELSE IF cache["built"] # Unreadable THEN LineAt(cache["built"], n)
  ELSE IF cache["recipe"] # Unreadable THEN LineAt(cache["recipe"], n)
  ELSE <<>>

LEMMA CacheIs ==
  ASSUME NEW cache \in Caches
  PROVE  /\ DOMAIN cache \subseteq Paths /\ \A p \in DOMAIN cache : cache[p] \in Versions
         /\ cache = [p \in DOMAIN cache |-> cache[p]]
<1>1. PICK D \in SUBSET Paths : cache \in [D -> Versions]
  BY DEF Caches
<1> QED
  BY <1>1

LEMMA KeptTwice ==
  ASSUME NEW a, NEW b, NEW c, KeptIn(a, b), KeptIn(b, c)
  PROVE  KeptIn(a, c)
  BY DEF KeptIn

LEMMA PopulatedIs ==
  ASSUME NEW cache \in Caches, NEW path \in Paths, disk \in [Paths -> Versions]
  PROVE  /\ Populated(cache, path) \in Caches
         /\ path \in DOMAIN Populated(cache, path)
         /\ KeptIn(cache, Populated(cache, path))
         /\ path \in DOMAIN cache => Populated(cache, path) = cache
<1> DEFINE more == Populated(cache, path)
           D == DOMAIN cache \cup {path}
<1>1. /\ DOMAIN cache \subseteq Paths /\ \A p \in DOMAIN cache : cache[p] \in Versions
      /\ cache = [p \in DOMAIN cache |-> cache[p]]
  BY CacheIs
<1>2. more = [p \in D |-> IF p \in DOMAIN cache THEN cache[p] ELSE disk[p]]
  BY DEF Populated
<1>3. more \in [D -> Versions] /\ D \in SUBSET Paths
  BY <1>1, <1>2
<1>4. more \in Caches /\ path \in DOMAIN more /\ KeptIn(cache, more)
  BY <1>2, <1>3 DEF Caches, KeptIn
<1>5. ASSUME path \in DOMAIN cache PROVE more = cache
  <2>1. D = DOMAIN cache
    BY <1>5
  <2>2. more = [p \in DOMAIN cache |-> cache[p]]
    BY <1>2, <2>1
  <2> QED
    BY <1>1, <2>2
<1> QED
  BY <1>4, <1>5

LEMMA LineKept ==
  ASSUME NEW cache, NEW more, NEW n, KeptIn(cache, more), Settles(cache, n)
  PROVE  Settles(more, n) /\ LineIn(more, n) = LineIn(cache, n)
  BY DEF KeptIn, Settles, LineIn

AskedAs(cache, n) ==
  LET more == Asked(cache, n).cache
  IN  /\ more \in Caches /\ KeptIn(cache, more) /\ Settles(more, n)
      /\ Asked(cache, n).line = LineIn(more, n)
      /\ Settles(cache, n) => more = cache

LEMMA AskedIs ==
  ASSUME NEW cache \in Caches, NEW n \in 0 .. MaxLine, disk \in [Paths -> Versions]
  PROVE  AskedAs(cache, n)
<1> DEFINE built == Populated(cache, "built")
           both == Populated(built, "recipe")
<1>1. "built" \in Paths /\ "recipe" \in Paths
  BY DEF Paths
<1>2. /\ built \in Caches /\ "built" \in DOMAIN built /\ KeptIn(cache, built)
      /\ "built" \in DOMAIN cache => built = cache
  BY <1>1, PopulatedIs
<1>3. /\ both \in Caches /\ "recipe" \in DOMAIN both /\ KeptIn(built, both)
      /\ "recipe" \in DOMAIN built => both = built
  <2> HIDE DEF built
  <2> QED
    BY <1>1, <1>2, PopulatedIs
<1>4. Asked(cache, n) =
        IF n = 0 THEN [cache |-> cache, line |-> <<>>]
        ELSE IF built["built"] # Unreadable
          THEN [cache |-> built, line |-> LineAt(built["built"], n)]
        ELSE IF both["recipe"] # Unreadable
          THEN [cache |-> both, line |-> LineAt(both["recipe"], n)]
        ELSE [cache |-> both, line |-> <<>>]
  BY DEF Asked
<1> HIDE DEF built, both
<1>5. "built" \in DOMAIN both /\ both["built"] = built["built"] /\ KeptIn(cache, both)
  BY <1>2, <1>3, KeptTwice DEF KeptIn
<1>6. KeptIn(cache, cache)
  BY DEF KeptIn
<1>7. CASE n = 0
  <2>1. Asked(cache, n).cache = cache /\ Asked(cache, n).line = <<>>
    BY <1>4, <1>7
  <2> QED
    BY <1>6, <1>7, <2>1 DEF AskedAs, Settles, LineIn
<1>8. CASE n # 0 /\ built["built"] # Unreadable
  <2>1. Asked(cache, n).cache = built /\ Asked(cache, n).line = LineAt(built["built"], n)
    BY <1>4, <1>8
  <2> QED
    BY <1>2, <1>8, <2>1 DEF AskedAs, Settles, LineIn
<1>9. CASE n # 0 /\ built["built"] = Unreadable
  <2>1. /\ Asked(cache, n).cache = both
        /\ Asked(cache, n).line =
             IF both["recipe"] # Unreadable THEN LineAt(both["recipe"], n) ELSE <<>>
    BY <1>4, <1>9
  <2>2. Settles(both, n) /\ Asked(cache, n).line = LineIn(both, n)
    BY <1>3, <1>5, <1>9, <2>1 DEF Settles, LineIn
  <2>3. Settles(cache, n) => both = cache
    BY <1>2, <1>3, <1>9 DEF Settles
  <2> QED
    BY <1>3, <1>5, <2>1, <2>2, <2>3 DEF AskedAs
<1> QED
  BY <1>7, <1>8, <1>9

SettlesAll(cache, block) == Settles(cache, block[1]) /\ Settles(cache, block[2])

TextIn(cache, block) == Written(Written(<<>>, LineIn(cache, block[1])), LineIn(cache, block[2]))

LEMMA TextKept ==
  ASSUME NEW cache, NEW more, NEW block, KeptIn(cache, more), SettlesAll(cache, block)
  PROVE  SettlesAll(more, block) /\ TextIn(more, block) = TextIn(cache, block)
  BY LineKept DEF SettlesAll, TextIn

SourceAs(cache, block) ==
  LET more == Source(cache, block).cache
  IN  /\ more \in Caches /\ KeptIn(cache, more) /\ SettlesAll(more, block)
      /\ Source(cache, block).text = TextIn(more, block)
      /\ SettlesAll(cache, block) => more = cache

LEMMA SourceIs ==
  ASSUME NEW cache \in Caches, NEW block \in Blocks, disk \in [Paths -> Versions]
  PROVE  SourceAs(cache, block)
<1> DEFINE one == Asked(cache, block[1])
           two == Asked(one.cache, block[2])
           t1 == Written(<<>>, one.line)
           t2 == Written(t1, two.line)
           Turn(f, k) ==
             IF k = 0 THEN [cache |-> cache, text |-> <<>>]
             ELSE LET answer1 == Asked(f[k - 1].cache, block[k])
                  IN  [cache |-> answer1.cache, text |-> Written(f[k - 1].text, answer1.line)]
           F == CHOOSE f : f = [k \in 0 .. 2 |-> Turn(f, k)]
           g == [k \in 0 .. 2 |-> IF k = 0 THEN [cache |-> cache, text |-> <<>>]
                                  ELSE IF k = 1 THEN [cache |-> one.cache, text |-> t1]
                                  ELSE [cache |-> two.cache, text |-> t2]]
<1>1. /\ block[1] \in 0 .. MaxLine /\ block[2] \in 0 .. MaxLine /\ Len(block) = 2
  BY DEF Blocks
<1>2. Source(cache, block) = F[2]
  BY <1>1 DEF Source
<1>3. g = [k \in 0 .. 2 |-> Turn(g, k)]
  <2>1. g[0] = Turn(g, 0) /\ g[1] = Turn(g, 1) /\ g[2] = Turn(g, 2)
    <3>1. g[0] = [cache |-> cache, text |-> <<>>]
      OBVIOUS
    <3>2. g[1] = [cache |-> one.cache, text |-> t1]
      OBVIOUS
    <3>3. g[2] = [cache |-> two.cache, text |-> t2]
      OBVIOUS
    <3> HIDE DEF g
    <3> QED
      BY <3>1, <3>2, <3>3
  <2>2. \A k \in 0 .. 2 : k = 0 \/ k = 1 \/ k = 2
    OBVIOUS
  <2>3. \A k \in 0 .. 2 : g[k] = Turn(g, k)
    <3> HIDE DEF g, Turn
    <3> QED
      BY <2>1, <2>2
  <2>4. g = [k \in 0 .. 2 |-> g[k]]
    OBVIOUS
  <2> HIDE DEF g, Turn
  <2> QED
    BY <2>3, <2>4
<1>4. F = [k \in 0 .. 2 |-> Turn(F, k)]
  <2> HIDE DEF g
  <2> QED
    BY <1>3, Zenon
<1> HIDE DEF F
<1>5. F[0] = Turn(F, 0) /\ F[1] = Turn(F, 1) /\ F[2] = Turn(F, 2)
  <2> HIDE DEF Turn
  <2>1. 0 \in 0 .. 2 /\ 1 \in 0 .. 2 /\ 2 \in 0 .. 2
    OBVIOUS
  <2> QED
    BY <1>4, <2>1
<1>6. F[0] = [cache |-> cache, text |-> <<>>]
  BY <1>5
<1>7. F[1] = [cache |-> one.cache, text |-> t1]
  BY <1>5, <1>6
<1>8. F[2] = [cache |-> two.cache, text |-> t2]
  BY <1>5, <1>7
<1>9. Source(cache, block).cache = two.cache /\ Source(cache, block).text = t2
  BY <1>2, <1>8
<1>10. AskedAs(cache, block[1])
  BY <1>1, AskedIs
<1>11. /\ one.cache \in Caches /\ KeptIn(cache, one.cache) /\ Settles(one.cache, block[1])
       /\ one.line = LineIn(one.cache, block[1])
       /\ Settles(cache, block[1]) => one.cache = cache
  BY <1>10 DEF AskedAs
<1>12. AskedAs(one.cache, block[2])
  <2> HIDE DEF one
  <2> QED
    BY <1>1, <1>11, AskedIs
<1>13. /\ two.cache \in Caches /\ KeptIn(one.cache, two.cache) /\ Settles(two.cache, block[2])
       /\ two.line = LineIn(two.cache, block[2])
       /\ Settles(one.cache, block[2]) => two.cache = one.cache
  BY <1>12 DEF AskedAs
<1> HIDE DEF one, two
<1>14. Settles(two.cache, block[1]) /\ one.line = LineIn(two.cache, block[1])
  BY <1>11, <1>13, LineKept
<1>15. KeptIn(cache, two.cache)
  BY <1>11, <1>13, KeptTwice
<1>16. t2 = TextIn(two.cache, block)
  BY <1>13, <1>14 DEF TextIn
<1>17. SettlesAll(cache, block) => two.cache = cache
  BY <1>11, <1>13 DEF SettlesAll
<1> HIDE DEF t2
<1> QED
  BY <1>9, <1>13, <1>14, <1>15, <1>16, <1>17 DEF SourceAs, SettlesAll

ToldInv ==
  told = Nothing \/
    /\ told.block \in Blocks /\ SettlesAll(files, told.block)
    /\ told.text = TextIn(files, told.block)

LinesInv ==
  /\ disk \in [Paths -> Versions] /\ files \in Caches /\ writes \in 0 .. MaxWrites
  /\ ToldInv

LEMMA InitLines ==
  ASSUME LinesInit
  PROVE  LinesInv
<1>1. disk \in [Paths -> Versions]
  BY DEF LinesInit, Versions, Rewritten
<1>2. files \in Caches
  <2>1. files = [p \in {} |-> p] /\ {} \in SUBSET Paths
    BY DEF LinesInit
  <2>2. [p \in {} |-> p] \in [{} -> Versions]
    OBVIOUS
  <2> QED
    BY <2>1, <2>2 DEF Caches
<1> QED
  BY <1>1, <1>2, LinesAssumption DEF LinesInit, LinesInv, ToldInv

LEMMA NextLines ==
  ASSUME LinesInv, LinesNext
  PROVE  LinesInv'
<1> USE DEF LinesInv
<1>1. CASE Describe
  <2>1. PICK block \in Blocks :
          /\ files' = Source(files, block).cache
          /\ \/ told = Nothing /\ told' = [block |-> block, text |-> Source(files, block).text]
             \/ UNCHANGED told
          /\ UNCHANGED <<disk, writes>>
    BY <1>1 DEF Describe
  <2>2. SourceAs(files, block)
    BY SourceIs
  <2>3. /\ files' \in Caches /\ KeptIn(files, files') /\ SettlesAll(files', block)
        /\ Source(files, block).text = TextIn(files', block)
    BY <2>1, <2>2 DEF SourceAs
  <2>4. ASSUME told' = [block |-> block, text |-> Source(files, block).text] PROVE ToldInv'
    <3>1. told'.block = block /\ told'.text = TextIn(files', block)
      BY <2>3, <2>4
    <3> QED
      BY <2>3, <3>1 DEF ToldInv
  <2>5. ASSUME UNCHANGED told PROVE ToldInv'
    <3>1. CASE told = Nothing
      BY <2>5, <3>1 DEF ToldInv
    <3>2. CASE /\ told.block \in Blocks /\ SettlesAll(files, told.block)
               /\ told.text = TextIn(files, told.block)
      <4>1. SettlesAll(files', told.block) /\ TextIn(files', told.block) = TextIn(files, told.block)
        BY <2>3, <3>2, TextKept
      <4> QED
        BY <2>5, <3>2, <4>1 DEF ToldInv
    <3> QED
      BY <3>1, <3>2 DEF ToldInv
  <2>6. ToldInv'
    BY <2>1, <2>4, <2>5
  <2> QED
    BY <2>1, <2>3, <2>6
<1>2. CASE Edit
  <2>1. PICK path \in Paths, content \in Rewritten :
          /\ writes < MaxWrites
          /\ disk' = [disk EXCEPT ![path] = content]
          /\ writes' = writes + 1
          /\ UNCHANGED <<files, told>>
    BY <1>2 DEF Edit
  <2>2. disk' \in [Paths -> Versions]
    BY <2>1 DEF Versions
  <2>3. writes' \in 0 .. MaxWrites
    BY <2>1, LinesAssumption
  <2>4. ToldInv'
    BY <2>1 DEF ToldInv
  <2> QED
    BY <2>1, <2>2, <2>3, <2>4
<1> QED
  BY <1>1, <1>2 DEF LinesNext

LEMMA ReadableIsText ==
  ASSUME NEW content \in Versions, content # Unreadable
  PROVE  content \in Seq(Chars)
<1>1. CASE content \in Contents
  <2>1. PICK m \in 0 .. MaxFile : content \in [1 .. m -> Chars]
    BY <1>1 DEF Contents, BoundedSeq, SeqOf, Chars
  <2> QED
    BY <2>1
<1>2. CASE content \in Rewritten
  <2>1. content = <<"x", "\n">>
    BY <1>2 DEF Rewritten
  <2> QED
    BY <2>1 DEF Chars
<1> QED
  BY <1>1, <1>2 DEF Versions

LEMMA LinesInvMeans ==
  ASSUME LinesInv
  PROVE  TextsSound
<1>1. LinesTypeOK
  <2>1. DOMAIN files \subseteq Paths /\ \A p \in DOMAIN files : files[p] \in Versions
    BY CacheIs DEF LinesInv
  <2> QED
    BY <2>1 DEF LinesInv, LinesTypeOK, Versions, ToldInv
<1>2. SameTextAgain
  <2> SUFFICES ASSUME told # Nothing PROVE Source(files, told.block).text = told.text
    BY DEF SameTextAgain
  <2>1. /\ told.block \in Blocks /\ SettlesAll(files, told.block)
        /\ told.text = TextIn(files, told.block)
    BY DEF LinesInv, ToldInv
  <2>2. SourceAs(files, told.block)
    BY <2>1, SourceIs DEF LinesInv
  <2> QED
    BY <2>1, <2>2 DEF SourceAs
<1>3. LinesBetweenNewlines
  <2> SUFFICES ASSUME NEW path \in Readable, NEW n \in 1 .. MaxLine
               PROVE  /\ n <= LineCount(files[path]) =>
                           LineAt(files[path], n) = <<Between(files[path], n)>>
                      /\ n > Newlined(files[path]) + 1 => LineAt(files[path], n) = <<>>
    BY DEF LinesBetweenNewlines
  <2>1. files[path] \in Seq(Chars)
    <3>1. files[path] \in Versions /\ files[path] # Unreadable
      BY CacheIs DEF LinesInv, Readable
    <3> QED
      BY <3>1, ReadableIsText
  <2>2. n \in Nat \ {0}
    OBVIOUS
  <2>3. LineIs(files[path], n)
    BY <2>1, <2>2, LinesAreBetween
  <2> DEFINE total == Newlined(files[path])
  <2>4. total = Cardinality(Newlines(files[path], Len(files[path]))) /\ total \in Nat
    <3>1. DOMAIN files[path] = 1 .. Len(files[path])
      BY <2>1
    <3>2. {i \in DOMAIN files[path] : files[path][i] = "\n"} = Newlines(files[path], Len(files[path]))
      BY <3>1 DEF Newlines
    <3>3. Len(files[path]) \in 0 .. Len(files[path])
      BY <2>1
    <3>4. Cardinality(Newlines(files[path], Len(files[path]))) \in Nat
      BY <2>1, <3>3, NewlinesCount
    <3> QED
      BY <3>2, <3>4 DEF Newlined
  <2>5. LineCount(files[path]) \in {total, total + 1}
    BY DEF LineCount
  <2> HIDE DEF total
  <2>6. LineAt(files[path], n) =
          IF n <= total + 1 THEN <<Between(files[path], n)>> ELSE <<>>
    BY <2>3, <2>4 DEF LineIs
  <2>7. n <= LineCount(files[path]) => n <= total + 1
    BY <2>2, <2>4, <2>5
  <2>8. n > total + 1 => ~ (n <= total + 1)
    BY <2>2, <2>4
  <2> QED
    BY <2>6, <2>7, <2>8 DEF total
<1> QED
  BY <1>1, <1>2, <1>3 DEF TextsSound

(* Files of any length, debug data of any lines and any number of changes  *)
(* on the disk: a text that is made again is the same, and its lines stand *)
(* between the newlines their numbers say.                                 *)
THEOREM TextsAreSound == AllSpec => []TextsSound
<1>1. AllInit => LinesInv
  BY InitLines DEF AllInit
<1>2. LinesInv /\ [AllNext]_all => LinesInv'
  <2>1. [AllNext]_all => LinesNext \/ UNCHANGED lineVars
    BY DEF AllNext, Pieces, Neighbours, Boxes, Texts, all
  <2>2. ASSUME LinesInv, UNCHANGED lineVars PROVE LinesInv'
    BY <2>2 DEF lineVars, LinesInv, ToldInv
  <2> QED
    BY <2>1, <2>2, NextLines
<1> QED
  BY <1>1, <1>2, LinesInvMeans, PTL DEF AllSpec
=============================================================================
