----------------------------- MODULE GraphProofs -----------------------------
(***************************************************************************)
(* Proofs about the graph of data-structures/src/graph.rs and the control  *)
(* flow graph that is kept compressed with it, for any number of nodes and *)
(* links.                                                                  *)
(***************************************************************************)
EXTENDS ControlFlowGraph, StreamLemmas, FiniteSetTheorems, TLAPS

-----------------------------------------------------------------------------
(* Least and greatest.                                                     *)

LEMMA MinIs ==
  ASSUME NEW T, T \subseteq Nat, T # {}
  PROVE  Min(T) \in T /\ \A t \in T : Min(T) <= t
<1>1. \E n \in T : \A t \in T : n <= t
  BY LeastNumber
<1> QED
  BY <1>1 DEF Min

LEMMA MinIsIt ==
  ASSUME NEW T, T \subseteq Nat, NEW m \in T, \A t \in T : m <= t
  PROVE  Min(T) = m
<1>1. Min(T) \in T /\ Min(T) <= m /\ m <= Min(T)
  BY MinIs
<1>2. Min(T) \in Nat /\ m \in Nat
  BY <1>1
<1> QED
  BY <1>1, <1>2

LEMMA OfTwo ==
  ASSUME NEW l \in Nat, NEW r \in Nat, l # r
  PROVE  /\ Min({l, r}) = IF l < r THEN l ELSE r
         /\ Max({l, r}) = IF l < r THEN r ELSE l
<1>1. Min({l, r}) = IF l < r THEN l ELSE r
  <2>1. CASE l < r
    BY <2>1, MinIsIt
  <2>2. CASE ~ (l < r)
    BY <2>2, MinIsIt
  <2> QED
    BY <2>1, <2>2
<1>2. Max({l, r}) \in {l, r} /\ \A t \in {l, r} : Max({l, r}) >= t
  <2>1. \E m \in {l, r} : \A t \in {l, r} : m >= t
    <3>1. l >= r \/ r >= l
      OBVIOUS
    <3> QED
      BY <3>1
  <2> QED
    BY <2>1 DEF Max
<1> QED
  BY <1>1, <1>2

-----------------------------------------------------------------------------
(* Chains: cut, joined and rotated.                                        *)

Chains(S) == {c \in Seq(S) : c # <<>> /\ IsInjective(c)}

LEMMA ChainIs ==
  ASSUME NEW S, NEW c \in Chains(S)
  PROVE  /\ Len(c) \in Nat /\ Len(c) >= 1 /\ DOMAIN c = 1 .. Len(c)
         /\ \A i \in 1 .. Len(c) : c[i] \in S
         /\ \A i, j \in 1 .. Len(c) : c[i] = c[j] => i = j
         /\ ToSet(c) = {c[i] : i \in 1 .. Len(c)} /\ ToSet(c) \subseteq S /\ ToSet(c) # {}
  BY DEF Chains, IsInjective, ToSet

(* A sequence is a chain if its places hold different elements.            *)
LEMMA ChainIf ==
  ASSUME NEW S, NEW c \in Seq(S), Len(c) >= 1,
         \A i, j \in 1 .. Len(c) : c[i] = c[j] => i = j
  PROVE  c \in Chains(S)
<1>1. c # <<>> /\ DOMAIN c = 1 .. Len(c)
  OBVIOUS
<1> QED
  BY <1>1 DEF Chains, IsInjective

LEMMA OneChain ==
  ASSUME NEW S, NEW x \in S
  PROVE  <<x>> \in Chains(S) /\ ToSet(<<x>>) = {x}
<1>0. <<x>> \in Seq(S) /\ Len(<<x>>) = 1 /\ <<x>>[1] = x /\ DOMAIN <<x>> = {1}
  <2>1. <<x>> \in Seq(S) /\ Len(<<x>>) = 1 /\ <<x>>[1] = x /\ DOMAIN <<x>> = 1 .. 1
    OBVIOUS
  <2>2. 1 .. 1 = {1}
    OBVIOUS
  <2> QED
    BY <2>1, <2>2
<1>1. PICK c \in Seq(S) : c = <<x>> /\ Len(c) = 1 /\ c[1] = x /\ DOMAIN c = {1}
  BY <1>0, Zenon
<1>2. c # <<>> /\ IsInjective(c)
  <2>1. c # <<>>
    BY <1>1
  <2> QED
    BY <1>1, <2>1 DEF IsInjective
<1>3. ToSet(c) = {x}
  BY <1>1 DEF ToSet
<1> QED
  BY <1>1, <1>2, <1>3 DEF Chains

LEMMA LargerChains ==
  ASSUME NEW S, NEW T, S \subseteq T
  PROVE  Chains(S) \subseteq Chains(T)
<1>1. Seq(S) \subseteq Seq(T)
  OBVIOUS
<1> QED
  BY <1>1 DEF Chains

(* IndexIn finds what is there.                                            *)
LEMMA IndexIs ==
  ASSUME NEW S, NEW c \in Chains(S), NEW x \in ToSet(c)
  PROVE  IndexIn(c, x) \in 1 .. Len(c) /\ c[IndexIn(c, x)] = x
<1> DEFINE I == {i \in 1 .. Len(c) : c[i] = x}
<1>1. IndexIn(c, x) = IF I # {} THEN Min(I) ELSE 0
  BY DEF IndexIn, SelectInSeq
<1>2. I # {} /\ I \subseteq Nat
  BY ChainIs
<1>3. Min(I) \in I
  BY <1>2, MinIs
<1> QED
  BY <1>1, <1>2, <1>3

LEMMA ContainsIs ==
  ASSUME NEW S, NEW c \in Chains(S), NEW x
  PROVE  Contains(c, x) <=> x \in ToSet(c)
  BY ChainIs DEF Contains

(* Both parts of a chain that is cut.                                      *)
Upto(c, i) == SubSeq(c, 1, i)
After(c, i) == SubSeq(c, i + 1, Len(c))

LEMMA PartsOfChain ==
  ASSUME NEW S, NEW c \in Chains(S), NEW i \in 1 .. Len(c), i # Len(c)
  PROVE  /\ Upto(c, i) \in Chains(S) /\ After(c, i) \in Chains(S)
         /\ ToSet(Upto(c, i)) \cup ToSet(After(c, i)) = ToSet(c)
         /\ ToSet(Upto(c, i)) \cap ToSet(After(c, i)) = {}
         /\ c[i] \in ToSet(Upto(c, i)) /\ c[i + 1] \in ToSet(After(c, i))
<1> DEFINE n == Len(c)
<1>0. PICK front, back : front = Upto(c, i) /\ back = After(c, i)
  OBVIOUS
<1>1. n \in Nat /\ i \in Nat /\ 1 <= i /\ i < n /\ c \in Seq(S)
  BY ChainIs DEF Chains
<1>2. /\ front \in Seq(S) /\ Len(front) = i
      /\ \A k \in 1 .. i : front[k] = c[k]
      /\ DOMAIN front = 1 .. i
  BY <1>0, <1>1 DEF Upto
<1>3. /\ back \in Seq(S) /\ Len(back) = n - i
      /\ \A k \in 1 .. n - i : back[k] = c[k + i]
      /\ DOMAIN back = 1 .. n - i
  BY <1>0, <1>1 DEF After
<1>4. front \in Chains(S)
  <2>1. \A j, k \in 1 .. Len(front) : front[j] = front[k] => j = k
    BY <1>1, <1>2, ChainIs
  <2> QED
    BY <1>1, <1>2, <2>1, ChainIf
<1>5. back \in Chains(S)
  <2>1. \A j, k \in 1 .. Len(back) : back[j] = back[k] => j = k
    <3>1. \A j \in 1 .. n - i : j + i \in 1 .. n
      BY <1>1
    <3>2. ASSUME NEW j \in 1 .. n - i, NEW k \in 1 .. n - i, back[j] = back[k] PROVE j = k
      <4>1. j + i = k + i
        BY <1>3, <3>1, <3>2, ChainIs
      <4> QED
        BY <1>1, <4>1
    <3> QED
      BY <1>3, <3>2
  <2>2. back \in Seq(S) /\ Len(back) >= 1
    BY <1>1, <1>3
  <2> QED
    BY <2>1, <2>2, ChainIf
<1>6. ToSet(front) = {c[k] : k \in 1 .. i}
  <2>1. ToSet(front) = {front[k] : k \in 1 .. i}
    BY <1>2, Zenon DEF ToSet
  <2> QED
    BY <1>2, <2>1
<1>7. ToSet(back) = {c[k] : k \in i + 1 .. n}
  <2>1. ToSet(back) = {c[k + i] : k \in 1 .. n - i}
    <3>1. ToSet(back) = {back[k] : k \in 1 .. n - i}
      BY <1>3, Zenon DEF ToSet
    <3> QED
      BY <1>3, <3>1
  <2>2. \A k \in i + 1 .. n : k - i \in 1 .. n - i /\ (k - i) + i = k
    BY <1>1
  <2>3. \A k \in 1 .. n - i : k + i \in i + 1 .. n
    BY <1>1
  <2> QED
    BY <2>1, <2>2, <2>3
<1>8. 1 .. n = (1 .. i) \cup (i + 1 .. n)
  BY <1>1
<1>9. ToSet(front) \cup ToSet(back) = ToSet(c)
  BY <1>6, <1>7, <1>8, ChainIs
<1>10. ToSet(front) \cap ToSet(back) = {}
  <2>1. \A j \in 1 .. i, k \in i + 1 .. n : c[j] # c[k]
    <3>1. \A j \in 1 .. i, k \in i + 1 .. n : j \in 1 .. n /\ k \in 1 .. n /\ j # k
      BY <1>1
    <3> QED
      BY <3>1, ChainIs
  <2> QED
    BY <1>6, <1>7, <2>1
<1>11. i \in 1 .. i /\ i + 1 \in i + 1 .. n
  BY <1>1
<1> QED
  BY <1>0, <1>4, <1>5, <1>6, <1>7, <1>9, <1>10, <1>11

LEMMA JoinedChains ==
  ASSUME NEW S, NEW c \in Chains(S), NEW d \in Chains(S), ToSet(c) \cap ToSet(d) = {}
  PROVE  c \o d \in Chains(S) /\ ToSet(c \o d) = ToSet(c) \cup ToSet(d)
<1> DEFINE m == Len(c)
           n == Len(d)
           b == c \o d
<1>1. m \in Nat /\ n \in Nat /\ m >= 1 /\ n >= 1 /\ c \in Seq(S) /\ d \in Seq(S)
  BY ChainIs DEF Chains
<1>2. /\ b \in Seq(S) /\ Len(b) = m + n
      /\ \A i \in 1 .. m : b[i] = c[i]
      /\ \A i \in 1 .. n : b[m + i] = d[i]
  BY <1>1
<1> HIDE DEF b
<1>3. \A i \in 1 .. m + n : i \in 1 .. m \/ (i - m \in 1 .. n /\ m + (i - m) = i)
  BY <1>1
<1>4. \A i \in 1 .. m + n : \/ i \in 1 .. m /\ b[i] = c[i] /\ b[i] \in ToSet(c)
                            \/ i - m \in 1 .. n /\ b[i] = d[i - m] /\ b[i] \in ToSet(d)
  <2>1. (\A i \in 1 .. m : c[i] \in ToSet(c)) /\ \A i \in 1 .. n : d[i] \in ToSet(d)
    BY ChainIs
  <2> HIDE DEF m, n
  <2> QED
    BY <1>2, <1>3, <2>1
<1>5. ASSUME NEW i \in 1 .. m + n, NEW j \in 1 .. m + n, b[i] = b[j] PROVE i = j
  <2>1. \/ i \in 1 .. m /\ j \in 1 .. m /\ c[i] = c[j]
        \/ i - m \in 1 .. n /\ j - m \in 1 .. n /\ d[i - m] = d[j - m]
    BY <1>4, <1>5
  <2>2. i = j \/ i - m = j - m
    BY <2>1, ChainIs
  <2> QED
    BY <1>1, <2>2
<1>6. b \in Chains(S)
  <2>1. Len(b) >= 1
    BY <1>1, <1>2
  <2> QED
    BY <1>2, <1>5, <2>1, ChainIf
<1>7. ToSet(b) = {b[i] : i \in 1 .. m + n}
  BY <1>2, <1>6, ChainIs
<1>8. ToSet(b) \subseteq ToSet(c) \cup ToSet(d)
  BY <1>4, <1>7
<1>9. ToSet(c) \cup ToSet(d) \subseteq ToSet(b)
  <2>1. \A i \in 1 .. m : i \in 1 .. m + n
    BY <1>1
  <2>2. \A i \in 1 .. n : m + i \in 1 .. m + n
    BY <1>1
  <2>3. ToSet(c) = {c[i] : i \in 1 .. m} /\ ToSet(d) = {d[i] : i \in 1 .. n}
    BY ChainIs
  <2> HIDE DEF m, n
  <2>4. \A i \in 1 .. m : c[i] \in ToSet(b)
    BY <1>2, <1>7, <2>1
  <2>5. \A i \in 1 .. n : d[i] \in ToSet(b)
    BY <1>2, <1>7, <2>2
  <2> QED
    BY <2>3, <2>4, <2>5
<1> QED
  BY <1>6, <1>8, <1>9 DEF b

(* A chain that starts at another of its elements.                         *)
LEMMA RotatedChain ==
  ASSUME NEW S, NEW c \in Chains(S), NEW i \in 0 .. Len(c)
  PROVE  After(c, i) \o Upto(c, i) \in Chains(S) /\ ToSet(After(c, i) \o Upto(c, i)) = ToSet(c)
<1>1. Len(c) \in Nat /\ c \in Seq(S) /\ Len(c) >= 1
  BY ChainIs DEF Chains
<1>2. CASE i = 0
  <2>1. Upto(c, i) = <<>> /\ After(c, i) = c /\ c \o <<>> = c
    BY <1>1, <1>2 DEF Upto, After
  <2> QED
    BY <2>1
<1>3. CASE i = Len(c)
  <2>1. Upto(c, i) = c /\ After(c, i) = <<>> /\ <<>> \o c = c
    BY <1>1, <1>3 DEF Upto, After
  <2> QED
    BY <2>1
<1>4. CASE i # 0 /\ i # Len(c)
  <2>1. i \in 1 .. Len(c) /\ i # Len(c)
    BY <1>1, <1>4
  <2>2. /\ Upto(c, i) \in Chains(S) /\ After(c, i) \in Chains(S)
        /\ ToSet(Upto(c, i)) \cup ToSet(After(c, i)) = ToSet(c)
        /\ ToSet(Upto(c, i)) \cap ToSet(After(c, i)) = {}
    BY <2>1, PartsOfChain
  <2>3. PICK f \in Chains(S), b \in Chains(S) : f = Upto(c, i) /\ b = After(c, i)
    BY <2>2
  <2>4. b \o f \in Chains(S) /\ ToSet(b \o f) = ToSet(b) \cup ToSet(f)
    BY <2>2, <2>3, JoinedChains
  <2> QED
    BY <2>2, <2>3, <2>4
<1> QED
  BY <1>2, <1>3, <1>4

LEMMA RotationsAre ==
  ASSUME NEW S \in SUBSET Nat, NEW c \in Chains(S)
  PROVE  /\ RotateToMin(c) \in Chains(S) /\ ToSet(RotateToMin(c)) = ToSet(c)
         /\ \A x \in ToSet(c) : /\ RotateToEndWith(c, x) \in Chains(S)
                                /\ ToSet(RotateToEndWith(c, x)) = ToSet(c)
<1>1. Len(c) \in Nat
  BY ChainIs
<1>2. ASSUME NEW x \in ToSet(c)
      PROVE  /\ RotateToEndWith(c, x) \in Chains(S)
             /\ ToSet(RotateToEndWith(c, x)) = ToSet(c)
  <2>1. IndexIn(c, x) \in 0 .. Len(c)
    BY <1>1, IndexIs
  <2> QED
    BY <2>1, RotatedChain DEF RotateToEndWith, Upto, After
<1>3. RotateToMin(c) \in Chains(S) /\ ToSet(RotateToMin(c)) = ToSet(c)
  <2> DEFINE i == IndexIn(c, Min(ToSet(c)))
  <2>1. Min(ToSet(c)) \in ToSet(c)
    BY ChainIs, MinIs
  <2>2. i \in 1 .. Len(c)
    BY <2>1, IndexIs
  <2>3. i - 1 \in 0 .. Len(c) /\ (i - 1) + 1 = i
    BY <1>1, <2>2
  <2>4. RotateToMin(c) = SubSeq(c, i, Len(c)) \o SubSeq(c, 1, i - 1)
    BY DEF RotateToMin
  <2> HIDE DEF i
  <2>5. RotateToMin(c) = After(c, i - 1) \o Upto(c, i - 1)
    BY <2>3, <2>4 DEF Upto, After
  <2> QED
    BY <2>3, <2>5, RotatedChain
<1> QED
  BY <1>2, <1>3

-----------------------------------------------------------------------------
(* translate: what was merged away leads to a lesser node, until one is    *)
(* reached that was not.                                                   *)

\* Ids are numbers, below some bound.
Numbered(S) == S \in SUBSET Nat /\ \E b \in Nat : \A x \in S : x < b

Descends(m, S) == DOMAIN m \subseteq S /\ \A k \in DOMAIN m : m[k] \in S /\ m[k] < k

LEMMA RootExists ==
  ASSUME NEW S, Numbered(S), NEW m, Descends(m, S)
  PROVE  \E f : /\ f = [k \in Nat |-> IF k \in DOMAIN m THEN f[m[k]] ELSE k]
                /\ \A k \in Nat : Root(m, k) = f[k]
<1> DEFINE Step(f, k) == IF k \in DOMAIN m THEN f[m[k]] ELSE k
           rank == [k \in Nat |-> IF k \in DOMAIN m THEN k + 1 ELSE 0]
           step == [k \in Nat |-> [f \in [Nat -> Nat] |-> Step(f, k)]]
           Solves(f) == f = [k \in Nat |-> Step(f, k)]
           F == CHOOSE f : Solves(f)
<1>1. DOMAIN m \subseteq Nat /\ \A k \in DOMAIN m : m[k] \in Nat /\ m[k] < k
  BY DEF Numbered, Descends
<1>2. PICK b \in Nat : \A k \in DOMAIN m : k < b
  BY DEF Numbered, Descends
<1>3. rank \in [Nat -> Nat] /\ \A k \in Nat : rank[k] = IF k \in DOMAIN m THEN k + 1 ELSE 0
  OBVIOUS
<1>4. b + 1 \in Nat /\ \A k \in Nat : rank[k] < b + 1
  BY <1>2, <1>3
<1>5. step \in StepMaps(Nat, Nat)
  <2>1. \A k \in Nat, f \in [Nat -> Nat] : Step(f, k) \in Nat
    BY <1>1
  <2> HIDE DEF Step
  <2> QED
    BY <2>1 DEF StepMaps
<1>6. Causal(Nat, Nat, rank, step)
  <2>1. ASSUME NEW k \in Nat, NEW f \in [Nat -> Nat], NEW g \in [Nat -> Nat],
               \A j \in Nat : rank[j] < rank[k] => f[j] = g[j]
        PROVE  step[k][f] = step[k][g]
    <3>1. step[k][f] = Step(f, k) /\ step[k][g] = Step(g, k)
      OBVIOUS
    <3>2. k \in DOMAIN m => f[m[k]] = g[m[k]]
      <4>1. k \in DOMAIN m => rank[m[k]] < rank[k]
        BY <1>1, <1>3
      <4> QED
        BY <1>1, <2>1, <4>1
    <3> QED
      BY <3>1, <3>2
  <2> HIDE DEF rank, step
  <2> QED
    BY <2>1 DEF Causal
<1>7. PICK f \in [Nat -> Nat] : \A k \in Nat : f[k] = step[k][f]
  <2>1. 0 \in Nat
    OBVIOUS
  <2> HIDE DEF rank, step
  <2> QED
    BY <1>3, <1>4, <1>5, <1>6, <2>1, RecursionExists, Z3
<1>8. Solves(f)
  <2>1. \A k \in Nat : f[k] = Step(f, k)
    BY <1>7
  <2>2. f = [k \in Nat |-> f[k]]
    OBVIOUS
  <2> HIDE DEF Step
  <2> QED
    BY <2>1, <2>2
<1>9. Solves(F)
  <2> HIDE DEF Solves
  <2> QED
    BY <1>8
<1>10. \A k \in Nat : Root(m, k) = F[k]
  BY DEF Root
<1> QED
  <2> HIDE DEF F
  <2> QED
    BY <1>9, <1>10

LEMMA RootIs ==
  ASSUME NEW S, Numbered(S), NEW m, Descends(m, S)
  PROVE  /\ \A k \in Nat : k \notin DOMAIN m => Root(m, k) = k
         /\ \A k \in S : Root(m, k) \in S \ DOMAIN m /\ Root(m, k) <= k
         /\ \A k \in DOMAIN m : Root(m, k) < k
<1>1. PICK f : /\ f = [k \in Nat |-> IF k \in DOMAIN m THEN f[m[k]] ELSE k]
               /\ \A k \in Nat : Root(m, k) = f[k]
  BY RootExists
<1>2. S \subseteq Nat /\ DOMAIN m \subseteq S /\ \A k \in DOMAIN m : m[k] \in S /\ m[k] < k
  BY DEF Numbered, Descends
<1>3. \A k \in Nat : /\ k \notin DOMAIN m => Root(m, k) = k
                     /\ k \in DOMAIN m => Root(m, k) = Root(m, m[k])
  <2>1. \A k \in Nat : f[k] = IF k \in DOMAIN m THEN f[m[k]] ELSE k
    BY <1>1
  <2> QED
    BY <1>1, <1>2, <2>1
<1> DEFINE Ends(k) == Root(m, k) \in S \ DOMAIN m /\ Root(m, k) <= k
           T == {n \in Nat : \A k \in S : k < n => Ends(k)}
<1>4. 0 \in T
  BY <1>2
<1>5. ASSUME NEW n \in Nat, n \in T PROVE n + 1 \in T
  <2> SUFFICES ASSUME NEW k \in S, k < n + 1 PROVE Ends(k)
    OBVIOUS
  <2>1. CASE k \in DOMAIN m
    <3>1. m[k] \in S /\ m[k] < k /\ m[k] < n /\ k \in Nat /\ m[k] \in Nat
      BY <1>2, <2>1
    <3>2. Ends(m[k]) /\ Root(m, k) = Root(m, m[k])
      BY <1>3, <1>5, <2>1, <3>1
    <3>3. Root(m, k) \in Nat
      BY <1>2, <3>2
    <3> QED
      BY <3>1, <3>2, <3>3
  <2>2. CASE k \notin DOMAIN m
    BY <1>2, <1>3, <2>2
  <2> QED
    BY <2>1, <2>2
<1>6. \A k \in S : Ends(k)
  <2>1. Nat \subseteq T
    <3> HIDE DEF T
    <3> QED
      BY <1>4, <1>5, Induction
  <2>2. ASSUME NEW k \in S PROVE Ends(k)
    <3>1. k + 1 \in T /\ k < k + 1
      BY <1>2, <2>1
    <3> QED
      BY <3>1
  <2> QED
    BY <2>2
<1>7. ASSUME NEW k \in DOMAIN m PROVE Root(m, k) < k
  <2>1. k \in Nat /\ m[k] \in Nat /\ m[k] < k /\ Root(m, k) = Root(m, m[k])
    BY <1>2, <1>3
  <2>2. Root(m, m[k]) <= m[k] /\ Root(m, m[k]) \in Nat
    BY <1>2, <1>6
  <2> QED
    BY <2>1, <2>2
<1> QED
  BY <1>3, <1>6, <1>7

-----------------------------------------------------------------------------
(* What a graph over the ids S is like.                                    *)

\* A function from ids to nodes.
IsNodes(N) ==
  /\ N = [n \in DOMAIN N |-> N[n]]
  /\ \A n \in DOMAIN N : N[n] = [from |-> N[n].from, to |-> N[n].to, of |-> N[n].of]

IsGraph(g) ==
  g = [nodes |-> g.nodes, merges |-> g.merges] /\ IsNodes(g.nodes)

HoldsChains(N, S) == \A n \in DOMAIN N : N[n].of \in Chains(S)

\* The chains have each id once, and a node is named after the least of its.
Partitioned(N, S) ==
  /\ \A n \in DOMAIN N : n \in ToSet(N[n].of) /\ \A x \in ToSet(N[n].of) : n <= x
  /\ \A x \in S : \E n \in DOMAIN N : x \in ToSet(N[n].of)
  /\ \A m, n \in DOMAIN N : \A x \in ToSet(N[m].of) : x \in ToSet(N[n].of) => m = n

Mirrored(N) ==
  /\ \A n \in DOMAIN N : N[n].from \subseteq DOMAIN N /\ N[n].to \subseteq DOMAIN N
  /\ \A m, n \in DOMAIN N : m \in N[n].from <=> n \in N[m].to

MergesFit(m, S, L) ==
  /\ m = [k \in DOMAIN m |-> m[k]]
  /\ DOMAIN m = S \ L /\ \A k \in DOMAIN m : m[k] \in S /\ m[k] < k

Fits(g, S) ==
  /\ IsGraph(g)
  /\ HoldsChains(g.nodes, S) /\ Partitioned(g.nodes, S) /\ Mirrored(g.nodes)
  /\ MergesFit(g.merges, S, Live(g))

LEMMA LiveAreIds ==
  ASSUME NEW S, NEW g, Fits(g, S)
  PROVE  Live(g) \subseteq S
<1>1. ASSUME NEW n \in Live(g) PROVE n \in S
  <2>1. g.nodes[n].of \in Chains(S) /\ n \in ToSet(g.nodes[n].of)
    BY DEF Fits, HoldsChains, Partitioned, Live
  <2> QED
    BY <2>1, ChainIs
<1> QED
  BY <1>1

LEMMA RootsInGraph ==
  ASSUME NEW S, Numbered(S), NEW g, Fits(g, S)
  PROVE  /\ \A k \in S : Root(g.merges, k) \in Live(g)
         /\ \A k \in Live(g) : Root(g.merges, k) = k
<1>1. Descends(g.merges, S) /\ DOMAIN g.merges = S \ Live(g)
  BY DEF Fits, MergesFit, Descends
<1>2. Live(g) \subseteq S /\ S \subseteq Nat
  BY LiveAreIds DEF Numbered
<1> QED
  BY <1>1, <1>2, RootIs

(* translate only shortens the way.                                        *)
LEMMA TranslatedFits ==
  ASSUME NEW S, Numbered(S), NEW g, Fits(g, S), NEW K
  PROVE  Fits(Translated(g, K), S) /\ Translated(g, K).nodes = g.nodes
<1>1. Translated(g, K) = [nodes |-> g.nodes, merges |-> Shortened(g.merges, K)]
  <2>1. PICK N, m : g = [nodes |-> N, merges |-> m]
    BY DEF Fits, IsGraph
  <2>2. Translated(g, K) = [nodes |-> N, merges |-> Shortened(m, K)]
    BY <2>1 DEF Translated
  <2> QED
    BY <2>1, <2>2
<1>2. MergesFit(Shortened(g.merges, K), S, Live(g))
  <2> DEFINE m == g.merges
             short == Shortened(m, K)
  <2>1. Descends(m, S) /\ DOMAIN m = S \ Live(g)
    BY DEF Fits, MergesFit, Descends
  <2>2. \A k \in DOMAIN m : m[k] \in S /\ m[k] < k /\ Root(m, k) \in S /\ Root(m, k) < k
    BY <2>1, RootIs DEF Descends
  <2>3. PICK met : short = [k \in DOMAIN m |-> IF k \in met THEN Root(m, k) ELSE m[k]]
    BY DEF Shortened
  <2> HIDE DEF m, short
  <2> QED
    BY <2>1, <2>2, <2>3 DEF MergesFit, short, m
<1> QED
  BY <1>1, <1>2 DEF Fits, IsGraph, Live

-----------------------------------------------------------------------------
(* Entries put in and taken out.                                           *)

LEMMA PutIs ==
  ASSUME NEW f, NEW k, NEW v
  PROVE  /\ DOMAIN Put(f, k, v) = DOMAIN f \cup {k}
         /\ Put(f, k, v)[k] = v
         /\ \A x \in DOMAIN f : x # k => Put(f, k, v)[x] = f[x]
         /\ Put(f, k, v) = [x \in DOMAIN Put(f, k, v) |-> Put(f, k, v)[x]]
  BY DEF Put

LEMMA WithoutIs ==
  ASSUME NEW f, NEW K
  PROVE  /\ DOMAIN Without(f, K) = DOMAIN f \ K
         /\ \A x \in DOMAIN f \ K : Without(f, K)[x] = f[x]
         /\ Without(f, K) = [x \in DOMAIN Without(f, K) |-> Without(f, K)[x]]
  BY DEF Without, Restrict

LEMMA RenamedIs ==
  ASSUME NEW A, NEW old, NEW new, NEW x
  PROVE  x \in Renamed(A, old, new) <=> (x \in A /\ x # old) \/ (x = new /\ old \in A)
  BY DEF Renamed

-----------------------------------------------------------------------------
(* Chains of closed loops are turned; nothing else changes by that.        *)

Turned(N, M, S) ==
  /\ IsNodes(M) /\ DOMAIN M = DOMAIN N
  /\ \A n \in DOMAIN N : /\ M[n].from = N[n].from /\ M[n].to = N[n].to
                         /\ M[n].of \in Chains(S) /\ ToSet(M[n].of) = ToSet(N[n].of)

LEMMA NotTurned ==
  ASSUME NEW S, NEW N, IsNodes(N), HoldsChains(N, S)
  PROVE  Turned(N, N, S)
  BY DEF Turned, HoldsChains

LEMMA TurnedOn ==
  ASSUME NEW S, NEW N, NEW M, NEW O, Turned(N, M, S), Turned(M, O, S)
  PROVE  Turned(N, O, S)
  BY DEF Turned

LEMMA TurnedFits ==
  ASSUME NEW S, NEW g, Fits(g, S), NEW h, IsGraph(h), h.merges = g.merges,
         Turned(g.nodes, h.nodes, S)
  PROVE  Fits(h, S) /\ Live(h) = Live(g)
<1> DEFINE N == g.nodes
           M == h.nodes
<1>1. Live(h) = Live(g) /\ DOMAIN M = DOMAIN N
  BY DEF Live, Turned
<1>2. HoldsChains(M, S)
  BY DEF Turned, HoldsChains
<1>3. Partitioned(M, S)
  <2>1. Partitioned(N, S) /\ DOMAIN M = DOMAIN N
    BY <1>1 DEF Fits
  <2>2. \A n \in DOMAIN N : ToSet(M[n].of) = ToSet(N[n].of)
    BY DEF Turned
  <2> HIDE DEF M, N
  <2> QED
    BY <2>1, <2>2 DEF Partitioned
<1>4. Mirrored(M)
  <2>1. Mirrored(N) /\ DOMAIN M = DOMAIN N
    BY <1>1 DEF Fits
  <2>2. \A n \in DOMAIN N : M[n].from = N[n].from /\ M[n].to = N[n].to
    BY DEF Turned
  <2> HIDE DEF M, N
  <2> QED
    BY <2>1, <2>2 DEF Mirrored
<1> QED
  BY <1>1, <1>2, <1>3, <1>4 DEF Fits

LEMMA Rechained ==
  ASSUME NEW S, NEW g, IsGraph(g), HoldsChains(g.nodes, S), NEW n \in Live(g),
         NEW c \in Chains(S), ToSet(c) = ToSet(g.nodes[n].of)
  PROVE  LET h == [g EXCEPT !.nodes[n].of = c]
         IN  IsGraph(h) /\ h.merges = g.merges /\ Turned(g.nodes, h.nodes, S) /\ h.nodes[n].of = c
<1> DEFINE h == [g EXCEPT !.nodes[n].of = c]
<1>1. PICK N, m : g = [nodes |-> N, merges |-> m]
  BY DEF IsGraph
<1>2. N = g.nodes /\ IsNodes(N) /\ HoldsChains(N, S) /\ n \in DOMAIN N /\ ToSet(c) = ToSet(N[n].of)
  BY <1>1 DEF IsGraph, Live
<1>3. PICK M : M = [N EXCEPT ![n].of = c]
  OBVIOUS
<1>4. h = [nodes |-> M, merges |-> m]
  BY <1>1, <1>3
<1>5. PICK f, t, o : N[n] = [from |-> f, to |-> t, of |-> o]
  <2>1. N[n] = [from |-> N[n].from, to |-> N[n].to, of |-> N[n].of]
    BY <1>2, Zenon DEF IsNodes
  <2> QED
    BY <2>1, Zenon
<1>6. DOMAIN M = DOMAIN N /\ M = [k \in DOMAIN M |-> M[k]]
  BY <1>3
<1>7. M[n] = [from |-> f, to |-> t, of |-> c]
  BY <1>2, <1>3, <1>5
<1>8. \A k \in DOMAIN N : k # n => M[k] = N[k]
  BY <1>3
<1>9. IsNodes(M)
  <2>1. \A k \in DOMAIN M : M[k] = [from |-> M[k].from, to |-> M[k].to, of |-> M[k].of]
    <3>1. ASSUME NEW k \in DOMAIN M, k = n
          PROVE  M[k] = [from |-> M[k].from, to |-> M[k].to, of |-> M[k].of]
      BY <1>7, <3>1
    <3>2. ASSUME NEW k \in DOMAIN M, k # n
          PROVE  M[k] = [from |-> M[k].from, to |-> M[k].to, of |-> M[k].of]
      BY <1>2, <1>6, <1>8, <3>2 DEF IsNodes
    <3> QED
      BY <3>1, <3>2
  <2> QED
    BY <1>6, <2>1 DEF IsNodes
<1>10. Turned(N, M, S)
  BY <1>2, <1>5, <1>6, <1>7, <1>8, <1>9 DEF Turned, HoldsChains
<1> QED
  BY <1>1, <1>2, <1>4, <1>7, <1>9, <1>10 DEF IsGraph

LEMMA RotateTurns ==
  ASSUME NEW S, Numbered(S), NEW g, IsGraph(g), HoldsChains(g.nodes, S), NEW n
  PROVE  LET h == RotateIfLoop(g, n)
         IN  IsGraph(h) /\ h.merges = g.merges /\ Turned(g.nodes, h.nodes, S)
<1>1. CASE RotateIfLoop(g, n) = g
  BY <1>1, NotTurned DEF IsGraph
<1>2. CASE RotateIfLoop(g, n) # g
  <2>1. n \in Live(g) /\ RotateIfLoop(g, n) = RotateOf(g, n)
    BY <1>2 DEF RotateIfLoop, RotateOf
  <2>2. PICK c : c = RotateToMin(g.nodes[n].of)
    OBVIOUS
  <2>3. RotateOf(g, n) = [g EXCEPT !.nodes[n].of = c]
    BY <2>1, <2>2 DEF RotateOf
  <2>4. c \in Chains(S) /\ ToSet(c) = ToSet(g.nodes[n].of)
    BY <2>1, <2>2, RotationsAre DEF HoldsChains, Live, Numbered
  <2> QED
    BY <2>1, <2>3, <2>4, Rechained
<1> QED
  BY <1>1, <1>2

-----------------------------------------------------------------------------
(* The insertion of a link.                                                *)

\* The ends of a link are nodes of the graph, or not in it at all.
Known(g, S, x) == x \in Live(g) \/ x \notin S

EntryOf(g, k) == IF k \in Live(g) THEN g.nodes[k].of ELSE <<k>>
EntryFrom(g, k) == IF k \in Live(g) THEN g.nodes[k].from ELSE {}
EntryTo(g, k) == IF k \in Live(g) THEN g.nodes[k].to ELSE {}

LEMMA EntryIs ==
  ASSUME NEW g, IsGraph(g), NEW k
  PROVE  Entry(g, k) = [from |-> EntryFrom(g, k), to |-> EntryTo(g, k), of |-> EntryOf(g, k)]
<1>1. CASE k \in Live(g)
  <2>1. g.nodes[k] = [from |-> g.nodes[k].from, to |-> g.nodes[k].to, of |-> g.nodes[k].of]
    BY <1>1, Zenon DEF IsGraph, IsNodes, Live
  <2> QED
    BY <1>1, <2>1 DEF Entry, EntryFrom, EntryTo, EntryOf
<1>2. CASE k \notin Live(g)
  BY <1>2 DEF Entry, EntryFrom, EntryTo, EntryOf
<1> QED
  BY <1>1, <1>2

\* g with another node at n.
WithNode(g, n, v) == [nodes |-> Put(g.nodes, n, v), merges |-> g.merges]

LEMMA NodePut ==
  ASSUME NEW g, IsGraph(g), NEW n, NEW f, NEW t, NEW o,
         NEW h, h = WithNode(g, n, [from |-> f, to |-> t, of |-> o])
  PROVE  /\ IsGraph(h) /\ h.merges = g.merges /\ Live(h) = Live(g) \cup {n}
         /\ h.nodes[n] = [from |-> f, to |-> t, of |-> o]
         /\ \A k \in Live(g) : k # n => h.nodes[k] = g.nodes[k]
<1>1. PICK N, m : g = [nodes |-> N, merges |-> m]
  BY DEF IsGraph
<1>2. N = g.nodes /\ IsNodes(N)
  BY <1>1 DEF IsGraph
<1>3. PICK v : v = [from |-> f, to |-> t, of |-> o]
  OBVIOUS
<1>4. PICK M : M = Put(N, n, v)
  OBVIOUS
<1>5. h = [nodes |-> M, merges |-> m]
  BY <1>1, <1>3, <1>4 DEF WithNode
<1>6. /\ DOMAIN M = DOMAIN N \cup {n} /\ M[n] = v
      /\ \A k \in DOMAIN N : k # n => M[k] = N[k]
      /\ M = [k \in DOMAIN M |-> M[k]]
  BY <1>4 DEF Put
<1>7. IsNodes(M)
  <2>1. ASSUME NEW k \in DOMAIN M, k = n
        PROVE  M[k] = [from |-> M[k].from, to |-> M[k].to, of |-> M[k].of]
    BY <1>3, <1>6, <2>1
  <2>2. ASSUME NEW k \in DOMAIN M, k # n
        PROVE  M[k] = [from |-> M[k].from, to |-> M[k].to, of |-> M[k].of]
    BY <1>2, <1>6, <2>2 DEF IsNodes
  <2> QED
    BY <1>6, <2>1, <2>2 DEF IsNodes
<1> QED
  BY <1>1, <1>2, <1>3, <1>5, <1>6, <1>7 DEF IsGraph, Live

LEMMA LinkPut ==
  ASSUME NEW g, IsGraph(g), NEW from, NEW to
  PROVE  LET h == WithFrom(WithTo(g, from, to), to, from)
         IN  /\ IsGraph(h) /\ h.merges = g.merges /\ Live(h) = Live(g) \cup {from, to}
             /\ \A k \in Live(h) :
                  h.nodes[k] = [from |-> EntryFrom(g, k) \cup (IF k = to THEN {from} ELSE {}),
                                to   |-> EntryTo(g, k) \cup (IF k = from THEN {to} ELSE {}),
                                of   |-> EntryOf(g, k)]
<1>1. PICK w : w = WithTo(g, from, to)
  OBVIOUS
<1>2. w = WithNode(g, from, [from |-> EntryFrom(g, from), to |-> EntryTo(g, from) \cup {to},
                             of |-> EntryOf(g, from)])
  <2>1. PICK N, m : g = [nodes |-> N, merges |-> m]
    BY DEF IsGraph
  <2>2. PICK e : e = Entry(g, from)
    OBVIOUS
  <2>3. w = [nodes |-> Put(N, from, [e EXCEPT !.to = @ \cup {to}]), merges |-> m]
    BY <1>1, <2>1, <2>2 DEF WithTo
  <2>4. [e EXCEPT !.to = @ \cup {to}] =
          [from |-> EntryFrom(g, from), to |-> EntryTo(g, from) \cup {to}, of |-> EntryOf(g, from)]
    BY <2>2, EntryIs
  <2> QED
    BY <2>1, <2>3, <2>4 DEF WithNode
<1>3. /\ IsGraph(w) /\ w.merges = g.merges /\ Live(w) = Live(g) \cup {from}
      /\ w.nodes[from] = [from |-> EntryFrom(g, from), to |-> EntryTo(g, from) \cup {to},
                          of |-> EntryOf(g, from)]
      /\ \A k \in Live(g) : k # from => w.nodes[k] = g.nodes[k]
  <2>1. PICK f, t, o : f = EntryFrom(g, from) /\ t = EntryTo(g, from) \cup {to} /\ o = EntryOf(g, from)
    OBVIOUS
  <2>2. w = WithNode(g, from, [from |-> f, to |-> t, of |-> o])
    BY <1>2, <2>1
  <2> QED
    BY <2>1, <2>2, NodePut
<1>4. PICK h : h = WithFrom(w, to, from)
  OBVIOUS
<1>5. h = WithNode(w, to, [from |-> EntryFrom(w, to) \cup {from}, to |-> EntryTo(w, to),
                           of |-> EntryOf(w, to)])
  <2>1. PICK N, m : w = [nodes |-> N, merges |-> m]
    BY <1>3 DEF IsGraph
  <2>2. PICK e : e = Entry(w, to)
    OBVIOUS
  <2>3. h = [nodes |-> Put(N, to, [e EXCEPT !.from = @ \cup {from}]), merges |-> m]
    BY <1>4, <2>1, <2>2 DEF WithFrom
  <2>4. [e EXCEPT !.from = @ \cup {from}] =
          [from |-> EntryFrom(w, to) \cup {from}, to |-> EntryTo(w, to), of |-> EntryOf(w, to)]
    BY <1>3, <2>2, EntryIs
  <2> QED
    BY <2>1, <2>3, <2>4 DEF WithNode
<1>6. /\ IsGraph(h) /\ h.merges = w.merges /\ Live(h) = Live(w) \cup {to}
      /\ h.nodes[to] = [from |-> EntryFrom(w, to) \cup {from}, to |-> EntryTo(w, to),
                        of |-> EntryOf(w, to)]
      /\ \A k \in Live(w) : k # to => h.nodes[k] = w.nodes[k]
  <2>1. PICK f, t, o : f = EntryFrom(w, to) \cup {from} /\ t = EntryTo(w, to) /\ o = EntryOf(w, to)
    OBVIOUS
  <2>2. h = WithNode(w, to, [from |-> f, to |-> t, of |-> o])
    BY <1>5, <2>1
  <2> QED
    BY <1>3, <2>1, <2>2, NodePut
<1>7. /\ EntryFrom(w, to) = EntryFrom(g, to) /\ EntryOf(w, to) = EntryOf(g, to)
      /\ EntryTo(w, to) = EntryTo(g, to) \cup (IF to = from THEN {to} ELSE {})
  <2>1. CASE to = from
    BY <1>3, <2>1 DEF EntryFrom, EntryTo, EntryOf
  <2>2. CASE to # from
    BY <1>3, <2>2 DEF EntryFrom, EntryTo, EntryOf
  <2> QED
    BY <2>1, <2>2
<1>8. ASSUME NEW k \in Live(h)
      PROVE  h.nodes[k] = [from |-> EntryFrom(g, k) \cup (IF k = to THEN {from} ELSE {}),
                           to   |-> EntryTo(g, k) \cup (IF k = from THEN {to} ELSE {}),
                           of   |-> EntryOf(g, k)]
  <2>1. CASE k = to
    BY <1>6, <1>7, <2>1
  <2>2. CASE k # to /\ k = from
    <3>1. h.nodes[k] = w.nodes[from] /\ EntryFrom(g, k) \cup {} = EntryFrom(g, k)
      BY <1>3, <1>6, <2>2
    <3> QED
      BY <1>3, <2>2, <3>1
  <2>3. CASE k # to /\ k # from
    <3>1. k \in Live(g) /\ h.nodes[k] = g.nodes[k]
      BY <1>3, <1>6, <2>3
    <3>2. g.nodes[k] = [from |-> g.nodes[k].from, to |-> g.nodes[k].to, of |-> g.nodes[k].of]
      BY <3>1, Zenon DEF IsGraph, IsNodes, Live
    <3> QED
      BY <2>3, <3>1, <3>2 DEF EntryFrom, EntryTo, EntryOf
  <2> QED
    BY <2>1, <2>2, <2>3
<1> QED
  BY <1>1, <1>3, <1>4, <1>6, <1>8

\* The graph h is g with another link.
IsLinked(g, h, from, to) ==
  \A k \in Live(h) : /\ h.nodes[k].from = EntryFrom(g, k) \cup (IF k = to THEN {from} ELSE {})
                      /\ h.nodes[k].to = EntryTo(g, k) \cup (IF k = from THEN {to} ELSE {})
                      /\ h.nodes[k].of = EntryOf(g, k)

(* A link that is put in, before closed loops are turned.                  *)
LEMMA LinkPutFits ==
  ASSUME NEW S, NEW g, Fits(g, S), NEW from \in Nat, NEW to \in Nat,
         Known(g, S, from), Known(g, S, to), Numbered(S \cup {from, to}),
         NEW h, h = WithFrom(WithTo(g, from, to), to, from)
  PROVE  /\ Fits(h, S \cup {from, to}) /\ Live(h) = Live(g) \cup {from, to}
         /\ IsLinked(g, h, from, to)
<1>1. PICK T : T = S \cup {from, to}
  OBVIOUS
<1>2. h = WithFrom(WithTo(g, from, to), to, from)
  OBVIOUS
<1>3. /\ IsGraph(h) /\ h.merges = g.merges /\ Live(h) = Live(g) \cup {from, to}
      /\ \A k \in Live(h) :
           h.nodes[k] = [from |-> EntryFrom(g, k) \cup (IF k = to THEN {from} ELSE {}),
                         to   |-> EntryTo(g, k) \cup (IF k = from THEN {to} ELSE {}),
                         of   |-> EntryOf(g, k)]
  BY <1>2, LinkPut DEF Fits
<1>4. PICK M : M = h.nodes
  OBVIOUS
<1>5. /\ DOMAIN M = Live(h) /\ DOMAIN M = Live(g) \cup {from, to}
      /\ \A k \in DOMAIN M : /\ M[k].from = EntryFrom(g, k) \cup (IF k = to THEN {from} ELSE {})
                             /\ M[k].to = EntryTo(g, k) \cup (IF k = from THEN {to} ELSE {})
                             /\ M[k].of = EntryOf(g, k)
  <2>1. DOMAIN M = Live(h)
    BY <1>4 DEF Live
  <2>2. ASSUME NEW k \in DOMAIN M
        PROVE  /\ M[k].from = EntryFrom(g, k) \cup (IF k = to THEN {from} ELSE {})
               /\ M[k].to = EntryTo(g, k) \cup (IF k = from THEN {to} ELSE {})
               /\ M[k].of = EntryOf(g, k)
    <3>1. PICK f, t, o : /\ f = EntryFrom(g, k) \cup (IF k = to THEN {from} ELSE {})
                         /\ t = EntryTo(g, k) \cup (IF k = from THEN {to} ELSE {})
                         /\ o = EntryOf(g, k)
      OBVIOUS
    <3>2. M[k] = [from |-> f, to |-> t, of |-> o]
      BY <1>3, <1>4, <2>1, <3>1, Zenon
    <3>3. M[k].from = f /\ M[k].to = t /\ M[k].of = o
      BY <3>2
    <3> QED
      BY <3>1, <3>3, Zenon
  <2> QED
    BY <1>3, <2>1, <2>2, Zenon
<1>6. PICK N : N = g.nodes /\ DOMAIN N = Live(g)
  BY DEF Live
<1>7. HoldsChains(N, S) /\ Partitioned(N, S) /\ Mirrored(N) /\ DOMAIN N \subseteq S
  BY <1>6, LiveAreIds DEF Fits
<1>8. \A k \in DOMAIN M : \/ k \in DOMAIN N /\ M[k].of = N[k].of /\ N[k].of \in Chains(S)
                          \/ k \notin DOMAIN N /\ k \notin S /\ M[k].of = <<k>>
  BY <1>5, <1>6, <1>7 DEF Known, EntryOf, HoldsChains
<1>9. \A k \in DOMAIN M : k \in T
  BY <1>1, <1>5, <1>6, <1>7
<1>10. \A k \in DOMAIN M :
         \/ k \in DOMAIN N /\ M[k].of \in Chains(T) /\ ToSet(M[k].of) = ToSet(N[k].of) /\ ToSet(N[k].of) \subseteq S
         \/ k \notin DOMAIN N /\ k \notin S /\ M[k].of \in Chains(T) /\ ToSet(M[k].of) = {k}
  <2>1. ASSUME NEW k \in DOMAIN M, k \in DOMAIN N, M[k].of = N[k].of, N[k].of \in Chains(S)
        PROVE  M[k].of \in Chains(T) /\ ToSet(M[k].of) = ToSet(N[k].of) /\ ToSet(N[k].of) \subseteq S
    <3>1. Chains(S) \subseteq Chains(T)
      BY <1>1, LargerChains
    <3> QED
      BY <2>1, <3>1, ChainIs
  <2>2. ASSUME NEW k \in DOMAIN M, M[k].of = <<k>>
        PROVE  M[k].of \in Chains(T) /\ ToSet(M[k].of) = {k}
    <3>1. k \in T
      BY <1>9
    <3>2. <<k>> \in Chains(T) /\ ToSet(<<k>>) = {k}
      BY <3>1, OneChain
    <3> QED
      BY <2>2, <3>2, Zenon
  <2> QED
    BY <1>8, <2>1, <2>2
<1>11. HoldsChains(M, T)
  BY <1>10 DEF HoldsChains
<1>12. Partitioned(M, T)
  <2>1. \A k \in DOMAIN M : k \in Nat
    BY <1>9, <1>1 DEF Numbered
  <2>2. \A n \in DOMAIN M : n \in ToSet(M[n].of) /\ \A x \in ToSet(M[n].of) : n <= x
    BY <1>7, <1>10, <2>1 DEF Partitioned
  <2>3. \A x \in T : \E n \in DOMAIN M : x \in ToSet(M[n].of)
    <3>1. ASSUME NEW x \in T, x \in S PROVE \E n \in DOMAIN M : x \in ToSet(M[n].of)
      <4>1. PICK n \in DOMAIN N : x \in ToSet(N[n].of)
        BY <1>7, <3>1 DEF Partitioned
      <4>2. n \in DOMAIN M
        BY <1>5, <1>6
      <4> QED
        BY <1>10, <4>1, <4>2
    <3>2. ASSUME NEW x \in T, x \notin S PROVE \E n \in DOMAIN M : x \in ToSet(M[n].of)
      <4>1. x \in DOMAIN M
        BY <1>1, <1>5, <3>2
      <4> QED
        BY <2>2, <4>1
    <3> QED
      BY <3>1, <3>2
  <2>4. ASSUME NEW m \in DOMAIN M, NEW n \in DOMAIN M, NEW x \in ToSet(M[m].of), x \in ToSet(M[n].of)
        PROVE  m = n
    <3>1. CASE x \in S
      <4>1. m \in DOMAIN N /\ x \in ToSet(N[m].of) /\ n \in DOMAIN N /\ x \in ToSet(N[n].of)
        BY <1>10, <2>4, <3>1
      <4> QED
        BY <1>7, <4>1 DEF Partitioned
    <3>2. CASE x \notin S
      <4>1. ToSet(M[m].of) = {m} /\ ToSet(M[n].of) = {n}
        BY <1>10, <2>4, <3>2
      <4> QED
        BY <2>4, <4>1
    <3> QED
      BY <3>1, <3>2
  <2> QED
    BY <2>2, <2>3, <2>4 DEF Partitioned
<1>13. Mirrored(M)
  <2>1. \A k \in DOMAIN M : EntryFrom(g, k) \subseteq DOMAIN N /\ EntryTo(g, k) \subseteq DOMAIN N
    BY <1>6, <1>7 DEF EntryFrom, EntryTo, Mirrored
  <2>2. \A m, n \in DOMAIN M : m \in EntryFrom(g, n) <=> n \in EntryTo(g, m)
    BY <1>6, <1>7 DEF EntryFrom, EntryTo, Mirrored
  <2>3. DOMAIN N \subseteq DOMAIN M /\ from \in DOMAIN M /\ to \in DOMAIN M
    BY <1>5, <1>6
  <2>4. ASSUME NEW n \in DOMAIN M PROVE M[n].from \subseteq DOMAIN M /\ M[n].to \subseteq DOMAIN M
    BY <1>5, <2>1, <2>3
  <2>5. ASSUME NEW m \in DOMAIN M, NEW n \in DOMAIN M PROVE m \in M[n].from <=> n \in M[m].to
    BY <1>5, <2>2
  <2> QED
    BY <2>4, <2>5 DEF Mirrored
<1>14. MergesFit(h.merges, T, Live(h))
  <2>1. MergesFit(g.merges, S, Live(g))
    BY DEF Fits
  <2>2. T \ Live(h) = S \ Live(g)
    BY <1>1, <1>3 DEF Known
  <2> QED
    BY <1>1, <1>3, <2>1, <2>2 DEF MergesFit
<1>15. Fits(h, T)
  BY <1>3, <1>4, <1>11, <1>12, <1>13, <1>14 DEF Fits
<1>16. IsLinked(g, h, from, to)
  BY <1>4, <1>5 DEF IsLinked
<1> QED
  BY <1>1, <1>5, <1>15, <1>16

LEMMA InsertedFits ==
  ASSUME NEW S, NEW g, Fits(g, S), NEW from \in Nat, NEW to \in Nat,
         Known(g, S, from), Known(g, S, to), Numbered(S \cup {from, to})
  PROVE  /\ Fits(Inserted(g, from, to), S \cup {from, to})
         /\ Live(Inserted(g, from, to)) = Live(g) \cup {from, to}
<1>1. PICK T : T = S \cup {from, to}
  OBVIOUS
<1>2. PICK h : h = WithFrom(WithTo(g, from, to), to, from)
  OBVIOUS
<1>3. Fits(h, T) /\ Live(h) = Live(g) \cup {from, to}
  BY <1>1, <1>2, LinkPutFits
<1>16. PICK i : i = RotateIfLoop(h, from)
  OBVIOUS
<1>17. Fits(i, T) /\ Live(i) = Live(h)
  <2>1. IsGraph(i) /\ i.merges = h.merges /\ Turned(h.nodes, i.nodes, T)
    BY <1>1, <1>3, <1>16, RotateTurns DEF Fits
  <2> QED
    BY <1>3, <2>1, TurnedFits
<1>18. PICK j : j = RotateIfLoop(i, to)
  OBVIOUS
<1>19. Fits(j, T) /\ Live(j) = Live(i)
  <2>1. IsGraph(j) /\ j.merges = i.merges /\ Turned(i.nodes, j.nodes, T)
    BY <1>1, <1>17, <1>18, RotateTurns DEF Fits
  <2> QED
    BY <1>17, <2>1, TurnedFits
<1>20. Inserted(g, from, to) = j
  BY <1>2, <1>16, <1>18 DEF Inserted
<1> QED
  BY <1>1, <1>3, <1>17, <1>19, <1>20

-----------------------------------------------------------------------------
(* The cut of a chain.                                                     *)

FromRenamed(N, M, old, new, at) ==
  /\ IsNodes(M) /\ DOMAIN M = DOMAIN N
  /\ \A k \in DOMAIN N :
       /\ M[k].from = IF k \in at THEN Renamed(N[k].from, old, new) ELSE N[k].from
       /\ M[k].to = N[k].to /\ M[k].of = N[k].of

ToRenamed(N, M, old, new, at) ==
  /\ IsNodes(M) /\ DOMAIN M = DOMAIN N
  /\ \A k \in DOMAIN N :
       /\ M[k].to = IF k \in at THEN Renamed(N[k].to, old, new) ELSE N[k].to
       /\ M[k].from = N[k].from /\ M[k].of = N[k].of

LEMMA RenameFromIs ==
  ASSUME NEW N, IsNodes(N), NEW old, NEW new, NEW at, NEW M, M = RenameFrom(N, old, new, at)
  PROVE  FromRenamed(N, M, old, new, at)
<1>1. DOMAIN M = DOMAIN N /\ M = [k \in DOMAIN M |-> M[k]]
  BY DEF RenameFrom
<1>2. ASSUME NEW k \in DOMAIN N
      PROVE  /\ M[k] = [from |-> M[k].from, to |-> M[k].to, of |-> M[k].of]
             /\ M[k].from = IF k \in at THEN Renamed(N[k].from, old, new) ELSE N[k].from
             /\ M[k].to = N[k].to /\ M[k].of = N[k].of
  <2>1. PICK f, t, o : N[k] = [from |-> f, to |-> t, of |-> o]
    <3>1. N[k] = [from |-> N[k].from, to |-> N[k].to, of |-> N[k].of]
      BY Zenon DEF IsNodes
    <3> QED
      BY <3>1, Zenon
  <2>2. M[k] = [from |-> IF k \in at THEN Renamed(f, old, new) ELSE f, to |-> t, of |-> o]
    <3>1. M[k] = IF k \in at THEN [N[k] EXCEPT !.from = Renamed(@, old, new)] ELSE N[k]
      BY DEF RenameFrom
    <3> QED
      BY <2>1, <3>1
  <2> QED
    BY <2>1, <2>2
<1> QED
  BY <1>1, <1>2 DEF IsNodes, FromRenamed

LEMMA RenameToIs ==
  ASSUME NEW N, IsNodes(N), NEW old, NEW new, NEW at, NEW M, M = RenameTo(N, old, new, at)
  PROVE  ToRenamed(N, M, old, new, at)
<1>1. DOMAIN M = DOMAIN N /\ M = [k \in DOMAIN M |-> M[k]]
  BY DEF RenameTo
<1>2. ASSUME NEW k \in DOMAIN N
      PROVE  /\ M[k] = [from |-> M[k].from, to |-> M[k].to, of |-> M[k].of]
             /\ M[k].to = IF k \in at THEN Renamed(N[k].to, old, new) ELSE N[k].to
             /\ M[k].from = N[k].from /\ M[k].of = N[k].of
  <2>1. PICK f, t, o : N[k] = [from |-> f, to |-> t, of |-> o]
    <3>1. N[k] = [from |-> N[k].from, to |-> N[k].to, of |-> N[k].of]
      BY Zenon DEF IsNodes
    <3> QED
      BY <3>1, Zenon
  <2>2. M[k] = [from |-> f, to |-> IF k \in at THEN Renamed(t, old, new) ELSE t, of |-> o]
    <3>1. M[k] = IF k \in at THEN [N[k] EXCEPT !.to = Renamed(@, old, new)] ELSE N[k]
      BY DEF RenameTo
    <3> QED
      BY <2>1, <3>1
  <2> QED
    BY <2>1, <2>2
<1> QED
  BY <1>1, <1>2 DEF IsNodes, ToRenamed

\* The ids that the parts of the chain of old are named after.
Parts(S, N, old, front, back) ==
  /\ front \in Chains(S) /\ back \in Chains(S)
  /\ ToSet(front) \cap ToSet(back) = {}
  /\ ToSet(front) \cup ToSet(back) = ToSet(N[old].of)

LEMMA PartsAreNamed ==
  ASSUME NEW S, Numbered(S), NEW N, HoldsChains(N, S), Partitioned(N, S), NEW old \in DOMAIN N,
         NEW front, NEW back, Parts(S, N, old, front, back),
         NEW l, l = Name(front), NEW r, r = Name(back)
  PROVE  /\ l # r /\ old \in {l, r} /\ l \in S /\ r \in S
         /\ l \in DOMAIN N => l = old
         /\ r \in DOMAIN N => r = old
         /\ l \in ToSet(front) /\ \A x \in ToSet(front) : l <= x
         /\ r \in ToSet(back) /\ \A x \in ToSet(back) : r <= x
<1>1. /\ ToSet(front) # {} /\ ToSet(front) \subseteq S /\ ToSet(back) # {} /\ ToSet(back) \subseteq S
  BY ChainIs DEF Parts
<1>2. S \subseteq Nat
  BY DEF Numbered
<1>3. /\ l \in ToSet(front) /\ \A x \in ToSet(front) : l <= x
      /\ r \in ToSet(back) /\ \A x \in ToSet(back) : r <= x
  BY <1>1, <1>2, MinIs DEF Name
<1>4. l # r
  BY <1>3 DEF Parts
<1>5. old \in {l, r}
  <2>1. old \in ToSet(front) \/ old \in ToSet(back)
    BY DEF Parts, Partitioned
  <2>2. old <= l /\ old <= r
    BY <1>3 DEF Parts, Partitioned
  <2>3. l \in Nat /\ r \in Nat /\ old \in Nat
    BY <1>1, <1>2, <1>3, <2>1
  <2> QED
    BY <1>3, <2>1, <2>2, <2>3
<1>6. \A x \in ToSet(N[old].of) : x \in DOMAIN N => x = old
  BY DEF Partitioned
<1> QED
  BY <1>1, <1>3, <1>4, <1>5, <1>6 DEF Parts

\* What becomes of the nodes N when old is cut into l and r.
CutInto(N, M, old, l, r, front, back) ==
  /\ IsNodes(M) /\ DOMAIN M = DOMAIN N \cup {l, r}
  /\ M[l].from = Renamed(N[old].from, old, r) /\ M[l].to = {r} /\ M[l].of = front
  /\ M[r].from = {l} /\ M[r].to = Renamed(N[old].to, old, l) /\ M[r].of = back
  /\ \A k \in DOMAIN N \ {l, r} :
       /\ M[k].from = Renamed(N[k].from, old, r) /\ M[k].to = Renamed(N[k].to, old, l)
       /\ M[k].of = N[k].of

LEMMA CutIs ==
  ASSUME NEW N, IsNodes(N), Mirrored(N), NEW old \in DOMAIN N, NEW front, NEW back,
         NEW l, NEW r, l # r, old \in {l, r}, l \in DOMAIN N => l = old, r \in DOMAIN N => r = old,
         NEW first, first = [from |-> N[old].from, to |-> {r}, of |-> front],
         NEW second, second = [from |-> {l}, to |-> N[old].to, of |-> back],
         NEW P, P = Put(Put(Without(N, {old}), r, second), l, first),
         NEW Q, Q = RenameFrom(P, old, r, N[old].to),
         NEW M, M = RenameTo(Q, old, l, N[old].from)
  PROVE  CutInto(N, M, old, l, r, front, back)
<1>1. /\ DOMAIN P = DOMAIN N \cup {l, r} /\ P[l] = first /\ P[r] = second
      /\ \A k \in DOMAIN N \ {l, r} : P[k] = N[k]
      /\ P = [k \in DOMAIN P |-> P[k]]
  <2>1. PICK w : w = Without(N, {old})
    OBVIOUS
  <2>2. DOMAIN w = DOMAIN N \ {old} /\ \A k \in DOMAIN N \ {old} : w[k] = N[k]
    BY <2>1 DEF Without, Restrict
  <2>3. PICK p : p = Put(w, r, second)
    OBVIOUS
  <2>4. DOMAIN p = DOMAIN w \cup {r} /\ p[r] = second /\ \A k \in DOMAIN w : k # r => p[k] = w[k]
    BY <2>3 DEF Put
  <2>5. P = Put(p, l, first)
    BY <2>1, <2>3
  <2>6. /\ DOMAIN P = DOMAIN p \cup {l} /\ P[l] = first /\ \A k \in DOMAIN p : k # l => P[k] = p[k]
        /\ P = [k \in DOMAIN P |-> P[k]]
    BY <2>5 DEF Put
  <2> QED
    BY <2>2, <2>4, <2>6
<1>2. IsNodes(P)
  <2>1. ASSUME NEW k \in DOMAIN P
        PROVE  P[k] = [from |-> P[k].from, to |-> P[k].to, of |-> P[k].of]
    <3>1. CASE k = l
      BY <1>1, <3>1
    <3>2. CASE k = r
      BY <1>1, <3>2
    <3>3. CASE k \notin {l, r}
      BY <1>1, <2>1, <3>3, Zenon DEF IsNodes
    <3> QED
      BY <3>1, <3>2, <3>3
  <2> QED
    BY <1>1, <2>1 DEF IsNodes
<1>3. /\ P[l].from = N[old].from /\ P[l].to = {r} /\ P[l].of = front
      /\ P[r].from = {l} /\ P[r].to = N[old].to /\ P[r].of = back
  <2>1. P[l] = first /\ P[r] = second
    BY <1>1
  <2>2. first.from = N[old].from /\ first.to = {r} /\ first.of = front
    OBVIOUS
  <2>3. second.from = {l} /\ second.to = N[old].to /\ second.of = back
    OBVIOUS
  <2> QED
    BY <2>1, <2>2, <2>3, Zenon
<1>4. FromRenamed(P, Q, old, r, N[old].to)
  BY <1>2, RenameFromIs
<1>5. ToRenamed(Q, M, old, l, N[old].from)
  BY <1>4, RenameToIs DEF FromRenamed
<1>10. /\ IsNodes(M) /\ DOMAIN M = DOMAIN P
       /\ \A k \in DOMAIN P :
            /\ M[k].from = IF k \in N[old].to THEN Renamed(P[k].from, old, r) ELSE P[k].from
            /\ M[k].to = IF k \in N[old].from THEN Renamed(P[k].to, old, l) ELSE P[k].to
            /\ M[k].of = P[k].of
  <2>1. IsNodes(M) /\ DOMAIN M = DOMAIN P
    BY <1>4, <1>5 DEF FromRenamed, ToRenamed
  <2>2. ASSUME NEW k \in DOMAIN P
        PROVE  /\ M[k].from = IF k \in N[old].to THEN Renamed(P[k].from, old, r) ELSE P[k].from
               /\ M[k].to = IF k \in N[old].from THEN Renamed(P[k].to, old, l) ELSE P[k].to
               /\ M[k].of = P[k].of
    <3>1. /\ Q[k].from = IF k \in N[old].to THEN Renamed(P[k].from, old, r) ELSE P[k].from
          /\ Q[k].to = P[k].to /\ Q[k].of = P[k].of /\ k \in DOMAIN Q
      BY <1>4, Zenon DEF FromRenamed
    <3>2. /\ M[k].to = IF k \in N[old].from THEN Renamed(Q[k].to, old, l) ELSE Q[k].to
          /\ M[k].from = Q[k].from /\ M[k].of = Q[k].of
      BY <1>5, <3>1, Zenon DEF ToRenamed
    <3> QED
      BY <3>1, <3>2, Zenon
  <2> QED
    BY <2>1, <2>2, Zenon
<1>6. /\ N[old].from \subseteq DOMAIN N /\ N[old].to \subseteq DOMAIN N
      /\ \A k \in DOMAIN N : /\ k \in N[old].to <=> old \in N[k].from
                             /\ k \in N[old].from <=> old \in N[k].to
      /\ old \in N[old].from <=> old \in N[old].to
  BY DEF Mirrored
<1>7. /\ M[l].of = front /\ M[r].of = back
      /\ M[l].from = IF l \in N[old].to THEN Renamed(N[old].from, old, r) ELSE N[old].from
      /\ M[l].to = IF l \in N[old].from THEN Renamed({r}, old, l) ELSE {r}
      /\ M[r].from = IF r \in N[old].to THEN Renamed({l}, old, r) ELSE {l}
      /\ M[r].to = IF r \in N[old].from THEN Renamed(N[old].to, old, l) ELSE N[old].to
  <2>1. l \in DOMAIN P /\ r \in DOMAIN P
    BY <1>1
  <2>2. /\ M[l].from = IF l \in N[old].to THEN Renamed(P[l].from, old, r) ELSE P[l].from
        /\ M[l].to = IF l \in N[old].from THEN Renamed(P[l].to, old, l) ELSE P[l].to
        /\ M[l].of = P[l].of
    BY <1>10, <2>1, Zenon
  <2>3. /\ M[r].from = IF r \in N[old].to THEN Renamed(P[r].from, old, r) ELSE P[r].from
        /\ M[r].to = IF r \in N[old].from THEN Renamed(P[r].to, old, l) ELSE P[r].to
        /\ M[r].of = P[r].of
    BY <1>10, <2>1, Zenon
  <2> QED
    BY <1>3, <2>2, <2>3, Zenon
<1>8. /\ M[l].from = Renamed(N[old].from, old, r) /\ M[l].to = {r}
      /\ M[r].from = {l} /\ M[r].to = Renamed(N[old].to, old, l)
  <2>1. CASE old = l
    <3>1. r \notin DOMAIN N
      BY <2>1
    <3>2. Renamed({r}, old, l) = {r}
      BY <2>1 DEF Renamed
    <3>3. Renamed(N[old].to, old, l) = N[old].to
      BY <2>1 DEF Renamed
    <3>4. M[r].to = Renamed(N[old].to, old, l) /\ M[l].to = {r} /\ M[r].from = {l}
      BY <1>6, <1>7, <3>1, <3>2, <3>3
    <3>5. M[l].from = Renamed(N[old].from, old, r)
      BY <1>6, <1>7, <2>1 DEF Renamed
    <3> QED
      BY <3>4, <3>5
  <2>2. CASE old = r
    <3>1. l \notin DOMAIN N
      BY <2>2
    <3>2. Renamed({l}, old, r) = {l}
      BY <2>2 DEF Renamed
    <3>3. Renamed(N[old].from, old, r) = N[old].from
      BY <2>2 DEF Renamed
    <3>4. M[l].from = Renamed(N[old].from, old, r) /\ M[l].to = {r} /\ M[r].from = {l}
      BY <1>6, <1>7, <3>1, <3>2, <3>3
    <3>5. M[r].to = Renamed(N[old].to, old, l)
      BY <1>6, <1>7, <2>2 DEF Renamed
    <3> QED
      BY <3>4, <3>5
  <2> QED
    BY <2>1, <2>2
<1>9. ASSUME NEW k \in DOMAIN N \ {l, r}
      PROVE  /\ M[k].from = Renamed(N[k].from, old, r) /\ M[k].to = Renamed(N[k].to, old, l)
             /\ M[k].of = N[k].of
  <2>1. P[k] = N[k] /\ k \in DOMAIN N /\ k \in DOMAIN P
    BY <1>1
  <2>2. /\ M[k].of = N[k].of
        /\ M[k].from = IF k \in N[old].to THEN Renamed(N[k].from, old, r) ELSE N[k].from
        /\ M[k].to = IF k \in N[old].from THEN Renamed(N[k].to, old, l) ELSE N[k].to
    <3>1. /\ M[k].of = P[k].of
          /\ M[k].from = IF k \in N[old].to THEN Renamed(P[k].from, old, r) ELSE P[k].from
          /\ M[k].to = IF k \in N[old].from THEN Renamed(P[k].to, old, l) ELSE P[k].to
      BY <1>10, <2>1, Zenon
    <3> QED
      BY <2>1, <3>1, Zenon
  <2> QED
    BY <1>6, <2>1, <2>2 DEF Renamed
<1> QED
  BY <1>1, <1>10, <1>7, <1>8, <1>9 DEF CutInto

LEMMA CutKeepsMirror ==
  ASSUME NEW N, Mirrored(N), NEW old \in DOMAIN N, NEW front, NEW back, NEW M,
         NEW l, NEW r, l # r, old \in {l, r}, l \in DOMAIN N => l = old, r \in DOMAIN N => r = old,
         CutInto(N, M, old, l, r, front, back)
  PROVE  Mirrored(M)
<1>1. /\ \A n \in DOMAIN N : N[n].from \subseteq DOMAIN N /\ N[n].to \subseteq DOMAIN N
      /\ \A m, n \in DOMAIN N : m \in N[n].from <=> n \in N[m].to
  BY DEF Mirrored
<1>2. DOMAIN M = DOMAIN N \cup {l, r}
  BY DEF CutInto
<1>3. \A A, new, x : x \in Renamed(A, old, new) <=> (x \in A /\ x # old) \/ (x = new /\ old \in A)
  BY RenamedIs
<1>4. /\ \A x : x \in M[l].from <=> (x \in N[old].from /\ x # old) \/ (x = r /\ old \in N[old].from)
      /\ \A x : x \in M[r].to <=> (x \in N[old].to /\ x # old) \/ (x = l /\ old \in N[old].to)
      /\ M[l].to = {r} /\ M[r].from = {l}
  BY <1>3 DEF CutInto
<1>5. \A k \in DOMAIN N \ {l, r} :
        /\ \A x : x \in M[k].from <=> (x \in N[k].from /\ x # old) \/ (x = r /\ old \in N[k].from)
        /\ \A x : x \in M[k].to <=> (x \in N[k].to /\ x # old) \/ (x = l /\ old \in N[k].to)
  BY <1>3 DEF CutInto
<1>6. ASSUME NEW n \in DOMAIN M PROVE M[n].from \subseteq DOMAIN M /\ M[n].to \subseteq DOMAIN M
  <2>1. CASE n \in {l, r}
    BY <1>1, <1>2, <1>4, <2>1
  <2>2. CASE n \notin {l, r}
    BY <1>1, <1>2, <1>5, <2>2
  <2> QED
    BY <2>1, <2>2
<1>7. ASSUME NEW m \in DOMAIN M, NEW n \in DOMAIN M PROVE m \in M[n].from <=> n \in M[m].to
  <2>1. CASE n = l /\ m \in {l, r}
    BY <1>1, <1>4, <2>1
  <2>2. CASE n = l /\ m \notin {l, r}
    BY <1>1, <1>2, <1>4, <1>5, <2>2
  <2>3. CASE n = r /\ m \in {l, r}
    BY <1>1, <1>4, <2>3
  <2>4. CASE n = r /\ m \notin {l, r}
    BY <1>1, <1>2, <1>4, <1>5, <2>4
  <2>5. CASE n \notin {l, r} /\ m \in {l, r}
    BY <1>1, <1>2, <1>4, <1>5, <2>5
  <2>6. CASE n \notin {l, r} /\ m \notin {l, r}
    BY <1>1, <1>2, <1>5, <2>6
  <2> QED
    BY <2>1, <2>2, <2>3, <2>4, <2>5, <2>6
<1> QED
  BY <1>6, <1>7 DEF Mirrored

LEMMA CutKeepsPartition ==
  ASSUME NEW S, Numbered(S), NEW N, HoldsChains(N, S), Partitioned(N, S), NEW old \in DOMAIN N,
         NEW front, NEW back, Parts(S, N, old, front, back),
         NEW l, l = Name(front), NEW r, r = Name(back),
         NEW M, CutInto(N, M, old, l, r, front, back)
  PROVE  HoldsChains(M, S) /\ Partitioned(M, S)
<1>1. /\ l # r /\ old \in {l, r}
      /\ l \in ToSet(front) /\ \A x \in ToSet(front) : l <= x
      /\ r \in ToSet(back) /\ \A x \in ToSet(back) : r <= x
  BY PartsAreNamed
<1>2. DOMAIN M = DOMAIN N \cup {l, r} /\ M[l].of = front /\ M[r].of = back
  BY DEF CutInto
<1>3. \A k \in DOMAIN M : \/ k = l /\ ToSet(M[k].of) = ToSet(front)
                          \/ k = r /\ ToSet(M[k].of) = ToSet(back)
                          \/ k \in DOMAIN N \ {l, r} /\ ToSet(M[k].of) = ToSet(N[k].of)
  <2>1. \A k \in DOMAIN N \ {l, r} : M[k].of = N[k].of
    BY DEF CutInto
  <2> QED
    BY <1>2, <2>1
<1>4. HoldsChains(M, S)
  BY <1>2 DEF HoldsChains, CutInto, Parts
<1>5. \A n \in DOMAIN M : n \in ToSet(M[n].of) /\ \A x \in ToSet(M[n].of) : n <= x
  BY <1>1, <1>3 DEF Partitioned
<1>6. /\ ToSet(front) \cap ToSet(back) = {}
      /\ ToSet(front) \cup ToSet(back) = ToSet(N[old].of)
  BY DEF Parts
<1>7. ASSUME NEW x \in S PROVE \E n \in DOMAIN M : x \in ToSet(M[n].of)
  <2>1. PICK n \in DOMAIN N : x \in ToSet(N[n].of)
    BY DEF Partitioned
  <2>2. CASE n = old
    <3>1. x \in ToSet(M[l].of) \/ x \in ToSet(M[r].of)
      BY <1>2, <1>6, <2>1, <2>2
    <3> QED
      BY <1>2, <3>1
  <2>3. CASE n # old
    <3>1. n \notin {l, r}
      <4>1. n \in {l, r} => n \in ToSet(N[old].of)
        BY <1>1, <1>6
      <4>2. n \in ToSet(N[n].of)
        BY DEF Partitioned
      <4> QED
        BY <2>3, <4>1, <4>2 DEF Partitioned
    <3>2. n \in DOMAIN M /\ M[n].of = N[n].of
      BY <1>2, <3>1 DEF CutInto
    <3> QED
      BY <2>1, <3>2
  <2> QED
    BY <2>2, <2>3
<1>8. ASSUME NEW m \in DOMAIN M, NEW n \in DOMAIN M, NEW x \in ToSet(M[m].of), x \in ToSet(M[n].of)
      PROVE  m = n
  <2>1. \A a, b \in DOMAIN N : \A y \in ToSet(N[a].of) : y \in ToSet(N[b].of) => a = b
    BY DEF Partitioned
  <2>2. CASE m \in {l, r} /\ n \in {l, r}
    BY <1>1, <1>2, <1>6, <1>8, <2>2
  <2>3. CASE m \in {l, r} /\ n \notin {l, r}
    <3>1. x \in ToSet(N[old].of)
      BY <1>3, <1>6, <1>8, <2>3
    <3>2. n \in DOMAIN N /\ x \in ToSet(N[n].of) /\ n # old
      BY <1>1, <1>3, <1>8, <2>3
    <3> QED
      BY <2>1, <3>1, <3>2
  <2>4. CASE m \notin {l, r} /\ n \in {l, r}
    <3>1. x \in ToSet(N[old].of)
      BY <1>3, <1>6, <1>8, <2>4
    <3>2. m \in DOMAIN N /\ x \in ToSet(N[m].of) /\ m # old
      BY <1>1, <1>3, <1>8, <2>4
    <3> QED
      BY <2>1, <3>1, <3>2
  <2>5. CASE m \notin {l, r} /\ n \notin {l, r}
    BY <1>3, <1>8, <2>1, <2>5
  <2> QED
    BY <2>2, <2>3, <2>4, <2>5
<1> QED
  BY <1>4, <1>5, <1>7, <1>8 DEF Partitioned

\* A node that was cut, or not; s is what became of the graph g.
SplitFits(s, g, S, n) ==
  /\ Fits(s.g, S) /\ Live(g) \subseteq Live(s.g) /\ s.l \in Live(s.g) /\ s.r \in Live(s.g)
  /\ ToSet(s.g.nodes[s.l].of) \cup ToSet(s.g.nodes[s.r].of) = ToSet(g.nodes[n].of)

LEMMA CutFits ==
  ASSUME NEW S, Numbered(S), NEW g, Fits(g, S), NEW old \in Live(g),
         NEW front, NEW back, Parts(S, g.nodes, old, front, back),
         NEW s, s = Cut(g, g.nodes[old], old, front, back)
  PROVE  /\ SplitFits(s, g, S, old) /\ s.g.nodes[s.l].of = front /\ s.g.nodes[s.r].of = back
         /\ CutInto(g.nodes, s.g.nodes, old, s.l, s.r, front, back)
         /\ s.l # s.r /\ old \in {s.l, s.r}
         /\ s.l \in Live(g) => s.l = old
         /\ s.r \in Live(g) => s.r = old
<1>1. PICK l, r, N : l = Name(front) /\ r = Name(back) /\ N = g.nodes
  OBVIOUS
<1>2. PICK first, second : /\ first = [from |-> N[old].from, to |-> {r}, of |-> front]
                           /\ second = [from |-> {l}, to |-> N[old].to, of |-> back]
  OBVIOUS
<1>3. PICK P : P = Put(Put(Without(N, {old}), r, second), l, first)
  OBVIOUS
<1>4. PICK Q : Q = RenameFrom(P, old, r, N[old].to)
  OBVIOUS
<1>5. PICK M : M = RenameTo(Q, old, l, N[old].from)
  OBVIOUS
<1>6. PICK m : m = Revived(g.merges, l, r)
  OBVIOUS
<1>7. s = [g |-> [nodes |-> M, merges |-> m], l |-> l, r |-> r]
  BY <1>1, <1>2, <1>3, <1>4, <1>5, <1>6, Zenon DEF Cut
<1>8. PICK h : h = [nodes |-> M, merges |-> m]
  OBVIOUS
<1>9. s.g = h /\ s.l = l /\ s.r = r /\ h.nodes = M /\ h.merges = m /\ Live(h) = DOMAIN M
  BY <1>7, <1>8 DEF Live
<1>10. /\ IsNodes(N) /\ HoldsChains(N, S) /\ Partitioned(N, S) /\ Mirrored(N) /\ old \in DOMAIN N
       /\ DOMAIN N = Live(g) /\ Parts(S, N, old, front, back)
  BY <1>1 DEF Fits, IsGraph, Live
<1>11. /\ l # r /\ old \in {l, r} /\ l \in S /\ r \in S
       /\ l \in DOMAIN N => l = old
       /\ r \in DOMAIN N => r = old
  BY <1>1, <1>10, PartsAreNamed
<1>12. CutInto(N, M, old, l, r, front, back)
  BY <1>2, <1>3, <1>4, <1>5, <1>10, <1>11, CutIs
<1>13. HoldsChains(M, S) /\ Partitioned(M, S)
  BY <1>1, <1>10, <1>12, CutKeepsPartition
<1>14. Mirrored(M)
  BY <1>10, <1>11, <1>12, CutKeepsMirror
<1>15. MergesFit(m, S, DOMAIN M)
  <2>1. PICK b : b = g.merges
    OBVIOUS
  <2>2. DOMAIN b = S \ DOMAIN N /\ \A k \in DOMAIN b : b[k] \in S /\ b[k] < k
    BY <1>10, <2>1 DEF Fits, MergesFit
  <2>3. m = [x \in DOMAIN b \ {l, r} |-> b[x]]
    BY <1>6, <2>1 DEF Revived, Without, Restrict
  <2>4. DOMAIN M = DOMAIN N \cup {l, r}
    BY <1>12 DEF CutInto
  <2>5. DOMAIN m = S \ DOMAIN M
    BY <2>2, <2>3, <2>4
  <2>6. m = [k \in DOMAIN m |-> m[k]] /\ \A k \in DOMAIN m : m[k] \in S /\ m[k] < k
    BY <2>2, <2>3
  <2> QED
    BY <2>5, <2>6 DEF MergesFit
<1>16. Fits(h, S)
  <2>1. IsGraph(h)
    BY <1>8, <1>9, <1>12 DEF IsGraph, CutInto
  <2> QED
    BY <1>9, <1>13, <1>14, <1>15, <2>1 DEF Fits
<1>17. DOMAIN M = DOMAIN N \cup {l, r} /\ M[l].of = front /\ M[r].of = back
  BY <1>12 DEF CutInto
<1>18. ToSet(front) \cup ToSet(back) = ToSet(g.nodes[old].of)
  BY DEF Parts
<1> QED
  BY <1>1, <1>9, <1>10, <1>11, <1>12, <1>16, <1>17, <1>18 DEF SplitFits

LEMMA SplitAfterFits ==
  ASSUME NEW S, Numbered(S), NEW g, Fits(g, S), NEW n \in Live(g), NEW x \in ToSet(g.nodes[n].of),
         NEW s, s = SplitAfter(g, x, n)
  PROVE  SplitFits(s, g, S, n) /\ x \in ToSet(s.g.nodes[s.l].of)
<1>1. Root(g.merges, n) = n
  BY RootsInGraph
<1>2. PICK of : of = IF IsLoop(g, n) THEN RotateToEndWith(g.nodes[n].of, x) ELSE g.nodes[n].of
  OBVIOUS
<1>3. g.nodes[n].of \in Chains(S)
  BY DEF Fits, HoldsChains, Live
<1>4. of \in Chains(S) /\ ToSet(of) = ToSet(g.nodes[n].of)
  BY <1>2, <1>3, RotationsAre DEF Numbered
<1>5. PICK i : i = IndexIn(of, x)
  OBVIOUS
<1>6. i \in 1 .. Len(of) /\ of[i] = x
  BY <1>4, <1>5, IndexIs
<1>7. s = IF i = Len(of) THEN Uncut([g EXCEPT !.nodes[n].of = of], n)
          ELSE Cut(g, g.nodes[n], n, Upto(of, i), After(of, i))
  BY <1>1, <1>2, <1>5, Zenon DEF SplitAfter, Upto, After
<1>8. CASE i = Len(of)
  <2>1. PICK h : h = [g EXCEPT !.nodes[n].of = of]
    OBVIOUS
  <2>2. IsGraph(h) /\ h.merges = g.merges /\ Turned(g.nodes, h.nodes, S) /\ h.nodes[n].of = of
    BY <1>4, <2>1, Rechained DEF Fits
  <2>3. Fits(h, S) /\ Live(h) = Live(g)
    BY <2>2, TurnedFits
  <2>4. s.g = h /\ s.l = n /\ s.r = n
    BY <1>7, <1>8, <2>1 DEF Uncut
  <2> QED
    BY <1>4, <2>2, <2>3, <2>4 DEF SplitFits
<1>9. CASE i # Len(of)
  <2>1. PICK front, back : front = Upto(of, i) /\ back = After(of, i)
    OBVIOUS
  <2>2. /\ front \in Chains(S) /\ back \in Chains(S)
        /\ ToSet(front) \cup ToSet(back) = ToSet(of)
        /\ ToSet(front) \cap ToSet(back) = {}
        /\ x \in ToSet(front)
    BY <1>4, <1>6, <1>9, <2>1, PartsOfChain
  <2>3. Parts(S, g.nodes, n, front, back)
    BY <1>4, <2>2 DEF Parts
  <2>4. s = Cut(g, g.nodes[n], n, front, back)
    BY <1>7, <1>9, <2>1
  <2> QED
    BY <2>2, <2>3, <2>4, CutFits
<1> QED
  BY <1>8, <1>9

LEMMA SplitBeforeFits ==
  ASSUME NEW S, Numbered(S), NEW g, Fits(g, S), NEW n \in Live(g), NEW x \in ToSet(g.nodes[n].of),
         NEW s, s = SplitBefore(g, x, n)
  PROVE  SplitFits(s, g, S, n)
<1>1. Root(g.merges, n) = n
  BY RootsInGraph
<1>2. PICK of : of = g.nodes[n].of
  OBVIOUS
<1>3. of \in Chains(S)
  BY <1>2 DEF Fits, HoldsChains, Live
<1>4. PICK i : i = IndexIn(of, x)
  OBVIOUS
<1>5. i \in 1 .. Len(of) /\ of[i] = x
  BY <1>2, <1>3, <1>4, IndexIs
<1>6. s = IF i = 1 THEN Uncut(g, n)
          ELSE Cut(g, g.nodes[n], n, SubSeq(of, 1, i - 1), SubSeq(of, i, Len(of)))
  BY <1>1, <1>2, <1>4, Zenon DEF SplitBefore
<1>7. CASE i = 1
  <2>1. s.g = g /\ s.l = n /\ s.r = n
    BY <1>6, <1>7 DEF Uncut
  <2> QED
    BY <2>1 DEF SplitFits
<1>8. CASE i # 1
  <2>1. Len(of) \in Nat
    BY <1>3, ChainIs
  <2>2. i - 1 \in 1 .. Len(of) /\ i - 1 # Len(of) /\ (i - 1) + 1 = i
    BY <1>5, <1>8, <2>1
  <2>3. PICK front, back : front = Upto(of, i - 1) /\ back = After(of, i - 1)
    OBVIOUS
  <2>4. /\ front \in Chains(S) /\ back \in Chains(S)
        /\ ToSet(front) \cup ToSet(back) = ToSet(of)
        /\ ToSet(front) \cap ToSet(back) = {}
    BY <1>3, <2>2, <2>3, PartsOfChain
  <2>5. Parts(S, g.nodes, n, front, back)
    BY <1>2, <2>4 DEF Parts
  <2>6. s = Cut(g, g.nodes[n], n, front, back)
    BY <1>6, <1>8, <2>2, <2>3 DEF Upto, After
  <2> QED
    BY <2>5, <2>6, CutFits
<1> QED
  BY <1>7, <1>8

-----------------------------------------------------------------------------
(* The holders of an id, and what is done before a link is inserted.       *)

LEMMA HoldersAre ==
  ASSUME NEW S, Numbered(S), NEW g, Fits(g, S), NEW x
  PROVE  /\ Holders(g, x) = {} => x \notin S
         /\ Holders(g, x) # {} => /\ Min(Holders(g, x)) \in Live(g)
                                  /\ x \in ToSet(g.nodes[Min(Holders(g, x))].of)
                                  /\ x \in S
<1>1. /\ HoldsChains(g.nodes, S) /\ Partitioned(g.nodes, S) /\ DOMAIN g.nodes = Live(g)
      /\ Live(g) \subseteq S /\ S \subseteq Nat
  BY LiveAreIds DEF Fits, Live, Numbered
<1>2. \A n \in Live(g) : Contains(g.nodes[n].of, x) <=> x \in ToSet(g.nodes[n].of)
  BY <1>1, ContainsIs DEF HoldsChains
<1>3. \A n \in Holders(g, x) : n \in Live(g) /\ x \in ToSet(g.nodes[n].of)
  BY <1>1, <1>2 DEF Holders, Partitioned
<1>4. Holders(g, x) = {} => x \notin S
  BY <1>1, <1>2 DEF Holders, Partitioned
<1>5. ASSUME Holders(g, x) # {}
      PROVE  /\ Min(Holders(g, x)) \in Live(g)
             /\ x \in ToSet(g.nodes[Min(Holders(g, x))].of)
             /\ x \in S
  <2>1. Holders(g, x) \subseteq Nat
    BY <1>1, <1>3
  <2>2. PICK n : n = Min(Holders(g, x)) /\ n \in Holders(g, x)
    BY <1>5, <2>1, MinIs
  <2>3. n \in Live(g) /\ x \in ToSet(g.nodes[n].of)
    BY <1>3, <2>2
  <2>4. x \in S
    BY <1>1, <2>3, ChainIs DEF HoldsChains
  <2> QED
    BY <2>2, <2>3, <2>4
<1> QED
  BY <1>4, <1>5

LEMMA RevertSelfLoopFits ==
  ASSUME NEW S, Numbered(S), NEW g, Fits(g, S), NEW n \in Live(g), NEW x \in ToSet(g.nodes[n].of)
  PROVE  Fits(RevertSelfLoop(g, n, x), S)
<1>1. S \subseteq Nat /\ Live(g) \subseteq S
  BY LiveAreIds DEF Numbered
<1>2. ASSUME NEW h, Fits(h, S), NEW y \in Live(h) PROVE Fits(Inserted(h, y, y), S)
  <2>1. y \in S /\ y \in Nat /\ S \cup {y, y} = S
    BY <1>1, <1>2, LiveAreIds
  <2>2. Known(h, S, y) /\ Numbered(S \cup {y, y})
    BY <1>2, <2>1 DEF Known
  <2>3. Fits(Inserted(h, y, y), S \cup {y, y})
    BY <1>2, <2>1, <2>2, InsertedFits
  <2> QED
    BY <2>1, <2>3
<1>3. CASE n = x /\ Len(g.nodes[n].of) = 1
  BY <1>2, <1>3 DEF RevertSelfLoop
<1>4. CASE ~ (n = x /\ Len(g.nodes[n].of) = 1)
  <2>1. PICK after : after = SplitAfter(g, x, n)
    OBVIOUS
  <2>2. SplitFits(after, g, S, n) /\ x \in ToSet(after.g.nodes[after.l].of)
    BY <2>1, SplitAfterFits
  <2>3. PICK before : before = SplitBefore(after.g, x, after.l)
    OBVIOUS
  <2>4. SplitFits(before, after.g, S, after.l)
    BY <2>2, <2>3, SplitBeforeFits DEF SplitFits
  <2>5. RevertSelfLoop(g, n, x) = Inserted(before.g, before.r, before.r)
    BY <1>4, <2>1, <2>3 DEF RevertSelfLoop
  <2> QED
    BY <1>2, <2>4, <2>5 DEF SplitFits
<1> QED
  BY <1>3, <1>4

LEMMA RevertInSameFits ==
  ASSUME NEW S, Numbered(S), NEW g, Fits(g, S), NEW n \in Live(g),
         NEW from \in ToSet(g.nodes[n].of), NEW to \in ToSet(g.nodes[n].of)
  PROVE  Fits(RevertInSame(g, n, from, to), S)
<1>1. PICK after : after = SplitAfter(g, from, n)
  OBVIOUS
<1>2. SplitFits(after, g, S, n)
  BY <1>1, SplitAfterFits
<1>3. PICK closes : closes = InSame(after.g, after.l, to)
  OBVIOUS
<1>4. PICK side : side = IF closes THEN after.l ELSE after.r
  OBVIOUS
<1>5. side \in Live(after.g) /\ to \in ToSet(after.g.nodes[side].of)
  <2>1. after.g.nodes[after.l].of \in Chains(S)
    BY <1>2 DEF SplitFits, Fits, HoldsChains, Live
  <2>2. closes <=> to \in ToSet(after.g.nodes[after.l].of)
    BY <1>3, <2>1, ContainsIs DEF InSame
  <2> QED
    BY <1>2, <1>4, <2>2 DEF SplitFits
<1>6. PICK before : before = SplitBefore(after.g, to, side)
  OBVIOUS
<1>7. SplitFits(before, after.g, S, side)
  <2>1. Fits(after.g, S)
    BY <1>2 DEF SplitFits
  <2> QED
    BY <1>5, <1>6, <2>1, SplitBeforeFits
<1>8. PICK l, r : l = (IF closes THEN before.r ELSE after.l) /\ r = before.r
  OBVIOUS
<1>9. l \in Live(before.g) /\ r \in Live(before.g) /\ Fits(before.g, S)
  BY <1>2, <1>7, <1>8 DEF SplitFits
<1>10. l \in S /\ r \in S /\ l \in Nat /\ r \in Nat /\ S \cup {l, r} = S
  BY <1>9, LiveAreIds DEF Numbered
<1>11. RevertInSame(g, n, from, to) = Inserted(before.g, l, r)
  BY <1>1, <1>3, <1>4, <1>6, <1>8, Zenon DEF RevertInSame
<1>12. Fits(Inserted(before.g, l, r), S \cup {l, r})
  <2>1. Known(before.g, S, l) /\ Known(before.g, S, r) /\ Numbered(S \cup {l, r})
    BY <1>9, <1>10 DEF Known
  <2> QED
    BY <1>9, <1>10, <2>1, InsertedFits
<1> QED
  BY <1>10, <1>11, <1>12

LEMMA RevertAcrossFits ==
  ASSUME NEW S, Numbered(S), NEW g, Fits(g, S), NEW from \in Nat, NEW to \in Nat,
         Numbered(S \cup {from, to})
  PROVE  Fits(RevertAcross(g, from, to), S \cup {from, to})
<1>1. PICK after : after = IF Holders(g, from) = {} THEN Uncut(g, from)
                           ELSE SplitAfter(g, from, Min(Holders(g, from)))
  OBVIOUS
<1>2. /\ Fits(after.g, S)
      /\ from \in S => after.l \in Live(after.g)
      /\ from \notin S => after.l = from
  <2>1. CASE Holders(g, from) = {}
    BY <1>1, <2>1, HoldersAre DEF Uncut
  <2>2. CASE Holders(g, from) # {}
    <3>1. PICK n : n = Min(Holders(g, from))
      OBVIOUS
    <3>2. n \in Live(g) /\ from \in ToSet(g.nodes[n].of) /\ from \in S
      BY <2>2, <3>1, HoldersAre
    <3>3. after = SplitAfter(g, from, n)
      BY <1>1, <2>2, <3>1
    <3>4. SplitFits(after, g, S, n)
      BY <3>2, <3>3, SplitAfterFits
    <3> QED
      BY <3>2, <3>4 DEF SplitFits
  <2> QED
    BY <2>1, <2>2
<1>3. PICK before : before = IF Holders(after.g, to) = {} THEN Uncut(after.g, to)
                             ELSE SplitBefore(after.g, to, Min(Holders(after.g, to)))
  OBVIOUS
<1>4. /\ Fits(before.g, S) /\ Live(after.g) \subseteq Live(before.g)
      /\ to \in S => before.r \in Live(before.g)
      /\ to \notin S => before.r = to
  <2>1. CASE Holders(after.g, to) = {}
    <3>1. before.g = after.g /\ before.r = to
      BY <1>3, <2>1 DEF Uncut
    <3> QED
      BY <1>2, <2>1, <3>1, HoldersAre
  <2>2. CASE Holders(after.g, to) # {}
    <3>1. PICK n : n = Min(Holders(after.g, to))
      OBVIOUS
    <3>2. n \in Live(after.g) /\ to \in ToSet(after.g.nodes[n].of) /\ to \in S
      BY <1>2, <2>2, <3>1, HoldersAre
    <3>3. before = SplitBefore(after.g, to, n)
      BY <1>3, <2>2, <3>1
    <3>4. SplitFits(before, after.g, S, n)
      BY <1>2, <3>2, <3>3, SplitBeforeFits
    <3> QED
      BY <3>2, <3>4 DEF SplitFits
  <2> QED
    BY <2>1, <2>2
<1>5. PICK l, r, h : l = after.l /\ r = before.r /\ h = before.g
  OBVIOUS
<1>6. RevertAcross(g, from, to) = Inserted(h, l, r)
  BY <1>1, <1>3, <1>5, Zenon DEF RevertAcross
<1>7. Fits(h, S) /\ Live(h) \subseteq S
  BY <1>4, <1>5, LiveAreIds
<1>8. /\ from \in S => l \in Live(h)
      /\ from \notin S => l = from
      /\ to \in S => r \in Live(h)
      /\ to \notin S => r = to
  BY <1>2, <1>4, <1>5
<1>9. l \in Nat /\ r \in Nat /\ S \cup {l, r} = S \cup {from, to}
  BY <1>7, <1>8 DEF Numbered
<1>10. Known(h, S, l) /\ Known(h, S, r)
  BY <1>8 DEF Known
<1>11. Fits(Inserted(h, l, r), S \cup {l, r})
  <2>1. Numbered(S \cup {l, r})
    BY <1>9
  <2> QED
    BY <1>7, <1>9, <1>10, <2>1, InsertedFits
<1> QED
  BY <1>6, <1>9, <1>11

(* A new link is inserted into a graph that fits, whatever chains it cuts, *)
(* and the graph fits again.                                               *)
LEMMA RevertAndUpdateFits ==
  ASSUME NEW S, Numbered(S), NEW g, Fits(g, S), NEW from \in Nat, NEW to \in Nat,
         Numbered(S \cup {from, to})
  PROVE  Fits(RevertAndUpdate(g, from, to), S \cup {from, to})
<1>1. PICK held, n : held = Holders(g, from) /\ n = Min(held)
  OBVIOUS
<1>2. CASE held = {} \/ (from # to /\ ~InSame(g, n, to))
  <2>1. RevertAndUpdate(g, from, to) = RevertAcross(g, from, to)
    BY <1>1, <1>2 DEF RevertAndUpdate
  <2> QED
    BY <2>1, RevertAcrossFits
<1>3. CASE held # {} /\ (from = to \/ InSame(g, n, to))
  <2>1. n \in Live(g) /\ from \in ToSet(g.nodes[n].of) /\ from \in S
    BY <1>1, <1>3, HoldersAre
  <2>2. g.nodes[n].of \in Chains(S)
    BY <2>1 DEF Fits, HoldsChains, Live
  <2>3. to \in ToSet(g.nodes[n].of)
    BY <1>3, <2>1, <2>2, ContainsIs DEF InSame
  <2>4. S \cup {from, to} = S
    BY <2>1, <2>2, <2>3, ChainIs
  <2>5. CASE from = to
    <3>1. RevertAndUpdate(g, from, to) = RevertSelfLoop(g, n, from)
      BY <1>1, <1>3, <2>5 DEF RevertAndUpdate
    <3>2. Fits(RevertSelfLoop(g, n, from), S)
      BY <2>1, RevertSelfLoopFits
    <3> QED
      BY <2>4, <3>1, <3>2
  <2>6. CASE from # to
    <3>1. \/ RevertAndUpdate(g, from, to) = g
          \/ RevertAndUpdate(g, from, to) = RevertInSame(g, n, from, to)
      BY <1>1, <1>3, <2>6 DEF RevertAndUpdate
    <3>2. Fits(RevertInSame(g, n, from, to), S)
      BY <2>1, <2>3, RevertInSameFits
    <3> QED
      BY <2>4, <3>1, <3>2
  <2> QED
    BY <2>5, <2>6
<1> QED
  BY <1>2, <1>3

-----------------------------------------------------------------------------
(* The merge of a link.                                                    *)

LEMMA RootsOfLive ==
  ASSUME NEW S, Numbered(S), NEW g, Fits(g, S), NEW A, A \subseteq Live(g)
  PROVE  Roots(g, A) = A
<1>1. \A k \in A : Root(g.merges, k) = k
  BY RootsInGraph
<1> QED
  BY <1>1 DEF Roots

\* l is the only way to r, and r the only way from l.
Joinable(N, l, r) ==
  /\ l \in DOMAIN N /\ r \in DOMAIN N /\ l # r
  /\ N[l].to = {r} /\ N[r].from = {l}

LEMMA MergableIs ==
  ASSUME NEW S, Numbered(S), NEW g, Fits(g, S), NEW l \in Live(g), NEW r \in Live(g), l # r,
         AreMergableLink(g, l, r)
  PROVE  Joinable(g.nodes, l, r)
<1>1. g.nodes[l].to \subseteq Live(g) /\ g.nodes[r].from \subseteq Live(g)
  BY DEF Fits, Mirrored, Live
<1>2. Roots(g, g.nodes[l].to) = g.nodes[l].to /\ Roots(g, g.nodes[r].from) = g.nodes[r].from
  BY <1>1, RootsOfLive
<1> QED
  BY <1>2 DEF AreMergableLink, Joinable, Live

\* What becomes of the nodes N when l and r are merged; self is the way of
\* the new node to itself.
MergedInto(N, M, l, r, old, new, self, of) ==
  /\ IsNodes(M) /\ DOMAIN M = DOMAIN N \ {old}
  /\ M[new].from = ((N[l].from \cup N[r].from) \ of) \cup self
  /\ M[new].to = ((N[l].to \cup N[r].to) \ of) \cup self
  /\ ToSet(M[new].of) = of
  /\ \A k \in DOMAIN N \ {l, r} :
       /\ M[k].from = IF k \in M[new].to THEN Renamed(N[k].from, old, new) ELSE N[k].from
       /\ M[k].to = IF k \in M[new].from THEN Renamed(N[k].to, old, new) ELSE N[k].to
       /\ ToSet(M[k].of) = ToSet(N[k].of)

\* of is the chains of l and r together, self is there if r leads back to l.
MergeKnown(N, l, r, old, new, self, of) ==
  /\ Joinable(N, l, r) /\ {old, new} = {l, r} /\ old # new
  /\ of = ToSet(N[l].of) \cup ToSet(N[r].of)
  /\ \A k \in DOMAIN N : k \in of <=> k \in {l, r}
  /\ self = IF r \in N[l].from THEN {new} ELSE {}

(* The ways of the nodes after a merge.                                    *)
LEMMA MergeWays ==
  ASSUME NEW N, Mirrored(N), NEW l, NEW r, NEW old, NEW new, NEW self, NEW of,
         MergeKnown(N, l, r, old, new, self, of),
         NEW M, MergedInto(N, M, l, r, old, new, self, of)
  PROVE  /\ \A x : x \in M[new].from <=> \/ x \in N[l].from /\ x \notin {l, r}
                                         \/ x = new /\ r \in N[l].from
         /\ \A x : x \in M[new].to <=> \/ x \in N[r].to /\ x \notin {l, r}
                                       \/ x = new /\ r \in N[l].from
         /\ \A k \in DOMAIN N \ {l, r} :
              /\ \A x : x \in M[k].from <=> \/ x \in N[k].from /\ x \notin {l, r}
                                            \/ x = new /\ r \in N[k].from
              /\ \A x : x \in M[k].to <=> \/ x \in N[k].to /\ x \notin {l, r}
                                          \/ x = new /\ l \in N[k].to
<1>1. /\ \A n \in DOMAIN N : N[n].from \subseteq DOMAIN N /\ N[n].to \subseteq DOMAIN N
      /\ \A m, n \in DOMAIN N : m \in N[n].from <=> n \in N[m].to
  BY DEF Mirrored
<1>2. /\ l \in DOMAIN N /\ r \in DOMAIN N /\ l # r /\ {old, new} = {l, r} /\ old # new
      /\ N[l].to = {r} /\ N[r].from = {l}
      /\ DOMAIN M = DOMAIN N \ {old}
      /\ \A k \in DOMAIN N : k \in of <=> k \in {l, r}
      /\ self = IF r \in N[l].from THEN {new} ELSE {}
  BY DEF MergeKnown, MergedInto, Joinable
<1>5. \A x : x \in M[new].from <=> \/ x \in N[l].from /\ x \notin {l, r}
                                   \/ x = new /\ r \in N[l].from
  <2>1. M[new].from = ((N[l].from \cup N[r].from) \ of) \cup self
    BY DEF MergedInto
  <2>2. N[l].from \subseteq DOMAIN N /\ N[r].from = {l}
    BY <1>1, <1>2
  <2> QED
    BY <1>2, <2>1, <2>2
<1>6. \A x : x \in M[new].to <=> \/ x \in N[r].to /\ x \notin {l, r}
                                 \/ x = new /\ r \in N[l].from
  <2>1. M[new].to = ((N[l].to \cup N[r].to) \ of) \cup self
    BY DEF MergedInto
  <2>2. N[r].to \subseteq DOMAIN N /\ N[l].to = {r}
    BY <1>1, <1>2
  <2> QED
    BY <1>2, <2>1, <2>2
<1>7. ASSUME NEW k \in DOMAIN N \ {l, r}
      PROVE  /\ \A x : x \in M[k].from <=> \/ x \in N[k].from /\ x \notin {l, r}
                                           \/ x = new /\ r \in N[k].from
             /\ \A x : x \in M[k].to <=> \/ x \in N[k].to /\ x \notin {l, r}
                                         \/ x = new /\ l \in N[k].to
  <2>1. k \in DOMAIN N /\ k \notin N[l].to /\ k \notin N[r].from
    BY <1>2
  <2>2. l \notin N[k].from /\ r \notin N[k].to
    BY <1>1, <1>2, <2>1
  <2>3. (k \in N[r].to <=> r \in N[k].from) /\ (k \in N[l].from <=> l \in N[k].to)
    BY <1>1, <1>2, <2>1
  <2>4. (k \in M[new].to <=> r \in N[k].from) /\ (k \in M[new].from <=> l \in N[k].to)
    BY <1>2, <1>5, <1>6, <2>3
  <2>5. /\ M[k].from = IF r \in N[k].from THEN Renamed(N[k].from, old, new) ELSE N[k].from
        /\ M[k].to = IF l \in N[k].to THEN Renamed(N[k].to, old, new) ELSE N[k].to
    BY <2>4 DEF MergedInto
  <2>6. \A A, x : x \in Renamed(A, old, new) <=> (x \in A /\ x # old) \/ (x = new /\ old \in A)
    BY RenamedIs
  <2>7. \A x : x \in M[k].from <=> \/ x \in N[k].from /\ x \notin {l, r}
                                   \/ x = new /\ r \in N[k].from
    BY <1>2, <2>2, <2>5, <2>6
  <2>8. \A x : x \in M[k].to <=> \/ x \in N[k].to /\ x \notin {l, r}
                                 \/ x = new /\ l \in N[k].to
    BY <1>2, <2>2, <2>5, <2>6
  <2> QED
    BY <2>7, <2>8
<1> QED
  BY <1>5, <1>6, <1>7

LEMMA MergeKeepsMirror ==
  ASSUME NEW N, Mirrored(N), NEW l, NEW r, NEW old, NEW new, NEW self, NEW of,
         MergeKnown(N, l, r, old, new, self, of),
         NEW M, MergedInto(N, M, l, r, old, new, self, of)
  PROVE  Mirrored(M)
<1>1. /\ \A n \in DOMAIN N : N[n].from \subseteq DOMAIN N /\ N[n].to \subseteq DOMAIN N
      /\ \A m, n \in DOMAIN N : m \in N[n].from <=> n \in N[m].to
  BY DEF Mirrored
<1>2. /\ l \in DOMAIN N /\ r \in DOMAIN N /\ l # r /\ {old, new} = {l, r} /\ old # new
      /\ N[l].to = {r} /\ N[r].from = {l}
      /\ DOMAIN M = DOMAIN N \ {old}
      /\ \A k \in DOMAIN N : k \in of <=> k \in {l, r}
      /\ self = IF r \in N[l].from THEN {new} ELSE {}
  BY DEF MergeKnown, MergedInto, Joinable
<1>3. new \in DOMAIN M /\ \A k \in DOMAIN M : k # new => k \in DOMAIN N \ {l, r}
  BY <1>2
<1>4. r \in N[l].from <=> l \in N[r].to
  BY <1>1, <1>2
<1>5. \A x : x \in M[new].from <=> \/ x \in N[l].from /\ x \notin {l, r}
                                   \/ x = new /\ r \in N[l].from
  BY MergeWays
<1>6. \A x : x \in M[new].to <=> \/ x \in N[r].to /\ x \notin {l, r}
                                 \/ x = new /\ r \in N[l].from
  BY MergeWays
<1>7. ASSUME NEW k \in DOMAIN N \ {l, r}
      PROVE  /\ \A x : x \in M[k].from <=> \/ x \in N[k].from /\ x \notin {l, r}
                                           \/ x = new /\ r \in N[k].from
             /\ \A x : x \in M[k].to <=> \/ x \in N[k].to /\ x \notin {l, r}
                                         \/ x = new /\ l \in N[k].to
  BY MergeWays
<1>8. ASSUME NEW n \in DOMAIN M PROVE M[n].from \subseteq DOMAIN M /\ M[n].to \subseteq DOMAIN M
  <2>1. \A x \in DOMAIN N : x \notin {l, r} => x \in DOMAIN M
    BY <1>2
  <2>2. CASE n = new
    BY <1>1, <1>2, <1>3, <1>5, <1>6, <2>1, <2>2
  <2>3. CASE n # new
    BY <1>1, <1>2, <1>3, <1>7, <2>1, <2>3
  <2> QED
    BY <2>2, <2>3
<1>9. ASSUME NEW m \in DOMAIN M, NEW n \in DOMAIN M PROVE m \in M[n].from <=> n \in M[m].to
  <2>1. CASE n = new /\ m = new
    BY <1>2, <1>5, <1>6, <2>1
  <2>2. CASE n = new /\ m # new
    <3>1. m \in DOMAIN N \ {l, r}
      BY <1>3, <2>2
    <3>2. m \in M[n].from <=> m \in N[l].from
      BY <1>5, <2>2, <3>1
    <3>3. n \in M[m].to <=> l \in N[m].to
      BY <1>2, <1>7, <2>2, <3>1
    <3> QED
      BY <1>1, <1>2, <3>1, <3>2, <3>3
  <2>3. CASE n # new /\ m = new
    <3>1. n \in DOMAIN N \ {l, r}
      BY <1>3, <2>3
    <3>2. m \in M[n].from <=> r \in N[n].from
      BY <1>2, <1>7, <2>3, <3>1
    <3>3. n \in M[m].to <=> n \in N[r].to
      BY <1>6, <2>3, <3>1
    <3> QED
      BY <1>1, <1>2, <3>1, <3>2, <3>3
  <2>4. CASE n # new /\ m # new
    <3>1. m \in DOMAIN N \ {l, r} /\ n \in DOMAIN N \ {l, r}
      BY <1>3, <2>4
    <3> QED
      BY <1>1, <1>7, <2>4, <3>1
  <2> QED
    BY <2>1, <2>2, <2>3, <2>4
<1> QED
  BY <1>8, <1>9 DEF Mirrored

LEMMA MergeKeepsPartition ==
  ASSUME NEW S, Numbered(S), NEW N, HoldsChains(N, S), Partitioned(N, S),
         NEW l, NEW r, NEW old, NEW new, NEW self, NEW of,
         MergeKnown(N, l, r, old, new, self, of), new < old,
         NEW M, MergedInto(N, M, l, r, old, new, self, of)
  PROVE  Partitioned(M, S)
<1>1. /\ l \in DOMAIN N /\ r \in DOMAIN N /\ l # r /\ {old, new} = {l, r} /\ old # new
      /\ of = ToSet(N[l].of) \cup ToSet(N[r].of)
      /\ DOMAIN M = DOMAIN N \ {old} /\ ToSet(M[new].of) = of
      /\ \A k \in DOMAIN N \ {l, r} : ToSet(M[k].of) = ToSet(N[k].of)
  BY DEF MergeKnown, MergedInto, Joinable
<1>2. /\ new \in DOMAIN M /\ \A k \in DOMAIN M : k # new => k \in DOMAIN N \ {l, r}
      /\ of = ToSet(N[old].of) \cup ToSet(N[new].of) /\ old \in DOMAIN N /\ new \in DOMAIN N
  BY <1>1
<1>3. /\ \A n \in DOMAIN N : n \in ToSet(N[n].of) /\ \A x \in ToSet(N[n].of) : n <= x
      /\ \A x \in S : \E n \in DOMAIN N : x \in ToSet(N[n].of)
      /\ \A m, n \in DOMAIN N : \A x \in ToSet(N[m].of) : x \in ToSet(N[n].of) => m = n
  BY DEF Partitioned
<1>4. \A n \in DOMAIN N : \A x \in ToSet(N[n].of) : x \in Nat
  BY ChainIs DEF HoldsChains, Numbered
<1>5. ASSUME NEW n \in DOMAIN M PROVE n \in ToSet(M[n].of) /\ \A x \in ToSet(M[n].of) : n <= x
  <2>1. CASE n = new
    <3>1. new \in Nat /\ old \in Nat
      BY <1>2, <1>3, <1>4
    <3>2. \A x \in ToSet(N[old].of) : new <= x
      BY <1>2, <1>3, <1>4, <3>1
    <3> QED
      BY <1>1, <1>2, <1>3, <2>1, <3>2
  <2>2. CASE n # new
    BY <1>1, <1>2, <1>3, <2>2
  <2> QED
    BY <2>1, <2>2
<1>6. ASSUME NEW x \in S PROVE \E n \in DOMAIN M : x \in ToSet(M[n].of)
  <2>1. PICK n \in DOMAIN N : x \in ToSet(N[n].of)
    BY <1>3
  <2>2. CASE n \in {l, r}
    BY <1>1, <1>2, <2>1, <2>2
  <2>3. CASE n \notin {l, r}
    BY <1>1, <2>1, <2>3
  <2> QED
    BY <2>2, <2>3
<1>7. ASSUME NEW m \in DOMAIN M, NEW n \in DOMAIN M, NEW x \in ToSet(M[m].of), x \in ToSet(M[n].of)
      PROVE  m = n
  <2>1. CASE m = new /\ n # new
    <3>1. n \in DOMAIN N \ {l, r} /\ x \in ToSet(N[n].of)
      BY <1>1, <1>2, <1>7, <2>1
    <3>2. x \in ToSet(N[l].of) \/ x \in ToSet(N[r].of)
      BY <1>1, <1>7, <2>1
    <3> QED
      BY <1>1, <1>3, <3>1, <3>2
  <2>2. CASE m # new /\ n = new
    <3>1. m \in DOMAIN N \ {l, r} /\ x \in ToSet(N[m].of)
      BY <1>1, <1>2, <1>7, <2>2
    <3>2. x \in ToSet(N[l].of) \/ x \in ToSet(N[r].of)
      BY <1>1, <1>7, <2>2
    <3> QED
      BY <1>1, <1>3, <3>1, <3>2
  <2>3. CASE m # new /\ n # new
    BY <1>1, <1>2, <1>3, <1>7, <2>3
  <2> QED
    BY <2>1, <2>2, <2>3
<1> QED
  BY <1>5, <1>6, <1>7 DEF Partitioned

\* What merge_nodes works with: the node l and r become, and the graph with it
\* in their place, before its neighbours are told.
Merging(g, l, r, old, new, of, self, f, t, p) ==
  /\ old = Max({l, r}) /\ new = Min({l, r})
  /\ of = g.nodes[l].of \o g.nodes[r].of
  /\ self = IF AreLoop(g, l, r) THEN {new} ELSE {}
  /\ f = ((g.nodes[l].from \cup g.nodes[r].from) \ ToSet(of)) \cup self
  /\ t = ((g.nodes[l].to \cup g.nodes[r].to) \ ToSet(of)) \cup self
  /\ p = [nodes  |-> Put(Without(g.nodes, {old}), new, [from |-> f, to |-> t, of |-> of]),
          merges |-> Put(Without(g.merges, {new}), old, new)]

Told(q, old, new, f, t) ==
  [q EXCEPT !.nodes = RenameTo(RenameFrom(@, old, new, t), old, new, f)]

LEMMA MergeIs ==
  ASSUME NEW g, NEW l, NEW r, l # r, NEW old, NEW new, NEW of, NEW self, NEW f, NEW t, NEW p,
         Merging(g, l, r, old, new, of, self, f, t, p)
  PROVE  MergeNodes(g, l, r) = Told(RotateIfLoop(p, new), old, new, f, t)
<1>1. PICK N : N = g.nodes
  OBVIOUS
<1>2. PICK node : node = [from |-> f, to |-> t, of |-> of]
  OBVIOUS
<1>3. node.from = f /\ node.to = t
  BY <1>2
<1>4. PICK q : q = RotateIfLoop(p, new)
  OBVIOUS
<1>5. MergeNodes(g, l, r) =
        [q EXCEPT !.nodes = RenameTo(RenameFrom(@, old, new, node.to), old, new, node.from)]
  BY <1>1, <1>2, <1>4, Zenon DEF MergeNodes, Merging
<1> QED
  BY <1>3, <1>4, <1>5, Zenon DEF Told

LEMMA MergeStarts ==
  ASSUME NEW S, Numbered(S), NEW g, Fits(g, S), NEW l \in Live(g), NEW r \in Live(g), l # r,
         AreMergableLink(g, l, r), NEW old, NEW new, NEW of, NEW self, NEW f, NEW t, NEW p,
         Merging(g, l, r, old, new, of, self, f, t, p)
  PROVE  /\ {old, new} = {l, r} /\ new < old /\ new = IF l < r THEN l ELSE r
         /\ MergeKnown(g.nodes, l, r, old, new, self, ToSet(of)) /\ of \in Chains(S)
         /\ IsGraph(p) /\ HoldsChains(p.nodes, S)
         /\ DOMAIN p.nodes = DOMAIN g.nodes \ {old} /\ new \in DOMAIN p.nodes
         /\ p.nodes[new].from = f /\ p.nodes[new].to = t /\ p.nodes[new].of = of
         /\ \A k \in DOMAIN g.nodes \ {l, r} : p.nodes[k] = g.nodes[k] /\ k \in DOMAIN p.nodes
<1>1. PICK N : N = g.nodes
  OBVIOUS
<1>2. /\ IsNodes(N) /\ HoldsChains(N, S) /\ Partitioned(N, S) /\ Mirrored(N) /\ DOMAIN N = Live(g)
      /\ Live(g) \subseteq S /\ S \subseteq Nat /\ MergesFit(g.merges, S, DOMAIN N)
  BY <1>1, LiveAreIds DEF Fits, IsGraph, Live, Numbered
<1>3. old = Max({l, r}) /\ new = Min({l, r})
  BY DEF Merging
<1>4. l \in Nat /\ r \in Nat
  BY <1>2
<1>5. {old, new} = {l, r} /\ new < old /\ old # new /\ new = IF l < r THEN l ELSE r
  BY <1>3, <1>4, OfTwo
<1>6. of = N[l].of \o N[r].of
  BY <1>1 DEF Merging
<1>7. N[l].of \in Chains(S) /\ N[r].of \in Chains(S)
  BY <1>2 DEF HoldsChains
<1>8. ToSet(N[l].of) \cap ToSet(N[r].of) = {}
  BY <1>2 DEF Partitioned
<1>9. of \in Chains(S) /\ ToSet(of) = ToSet(N[l].of) \cup ToSet(N[r].of)
  BY <1>6, <1>7, <1>8, JoinedChains
<1>10. Joinable(N, l, r)
  BY <1>1, MergableIs
<1>11. self = IF AreLoop(g, l, r) THEN {new} ELSE {}
  BY DEF Merging
<1>12. self = IF r \in N[l].from THEN {new} ELSE {}
  <2>1. N[l].from \subseteq Live(g) /\ N[r].from = {l}
    BY <1>2, <1>10 DEF Mirrored, Joinable
  <2>2. Roots(g, N[l].from) = N[l].from /\ Roots(g, N[r].from) = {l}
    BY <2>1, RootsOfLive
  <2>3. AreLoop(g, l, r) <=> r \in N[l].from
    BY <1>1, <2>2 DEF AreLoop
  <2> QED
    BY <1>11, <2>3
<1>13. /\ f = ((N[l].from \cup N[r].from) \ ToSet(of)) \cup self
       /\ t = ((N[l].to \cup N[r].to) \ ToSet(of)) \cup self
  BY <1>1 DEF Merging
<1>14. PICK node : node = [from |-> f, to |-> t, of |-> of]
  OBVIOUS
<1>15. node.from = f /\ node.to = t /\ node.of = of
  BY <1>14
<1>16. PICK P, m : P = Put(Without(N, {old}), new, node) /\ m = Put(Without(g.merges, {new}), old, new)
  OBVIOUS
<1>17. p = [nodes |-> P, merges |-> m] /\ p.nodes = P
  BY <1>1, <1>14, <1>16 DEF Merging
<1>20. /\ DOMAIN P = DOMAIN N \ {old} /\ new \in DOMAIN P /\ P[new] = node
       /\ \A k \in DOMAIN N \ {l, r} : P[k] = N[k] /\ k \in DOMAIN P
       /\ P = [k \in DOMAIN P |-> P[k]]
  <2>1. PICK w : w = Without(N, {old})
    OBVIOUS
  <2>2. DOMAIN w = DOMAIN N \ {old} /\ \A k \in DOMAIN N \ {old} : w[k] = N[k]
    BY <2>1 DEF Without, Restrict
  <2>3. P = [k \in DOMAIN w \cup {new} |-> IF k = new THEN node ELSE w[k]]
    BY <1>16, <2>1 DEF Put
  <2>4. new \in DOMAIN N \ {old}
    BY <1>2, <1>5
  <2> QED
    BY <1>5, <2>2, <2>3, <2>4
<1>21. IsGraph(p) /\ HoldsChains(P, S)
  <2>1. \A k \in DOMAIN P : k = new \/ k \in DOMAIN N \ {l, r}
    BY <1>5, <1>20
  <2>2. ASSUME NEW k \in DOMAIN P
        PROVE  P[k] = [from |-> P[k].from, to |-> P[k].to, of |-> P[k].of] /\ P[k].of \in Chains(S)
    <3>1. CASE k = new
      BY <1>9, <1>14, <1>20, <3>1
    <3>2. CASE k # new
      <4>1. P[k] = N[k] /\ k \in DOMAIN N
        BY <1>20, <2>1, <3>2
      <4> QED
        BY <1>2, <4>1, Zenon DEF IsNodes, HoldsChains
    <3> QED
      BY <3>1, <3>2
  <2>3. IsNodes(P)
    BY <1>20, <2>2 DEF IsNodes
  <2> QED
    BY <1>17, <2>2, <2>3 DEF IsGraph, HoldsChains
<1>22. PICK C : C = ToSet(of)
  OBVIOUS
<1>23. MergeKnown(N, l, r, old, new, self, C)
  <2>1. \A k \in DOMAIN N : k \in C <=> k \in {l, r}
    BY <1>2, <1>9, <1>22 DEF Partitioned
  <2> QED
    BY <1>5, <1>9, <1>10, <1>12, <1>22, <2>1 DEF MergeKnown
<1> QED
  BY <1>1, <1>5, <1>9, <1>15, <1>17, <1>20, <1>21, <1>22, <1>23

\* q is p, but that a closed loop may have been turned.
LEMMA MergeTold ==
  ASSUME NEW S, Numbered(S), NEW g, Fits(g, S), NEW l \in Live(g), NEW r \in Live(g), l # r,
         AreMergableLink(g, l, r), NEW old, NEW new, NEW of, NEW self, NEW f, NEW t, NEW p,
         Merging(g, l, r, old, new, of, self, f, t, p),
         NEW q, IsGraph(q), q.merges = p.merges, Turned(p.nodes, q.nodes, S),
         NEW h, h = Told(q, old, new, f, t)
  PROVE  /\ Fits(h, S) /\ new \in Live(h) /\ DOMAIN h.nodes = DOMAIN q.nodes /\ h.merges = p.merges
         /\ MergedInto(g.nodes, h.nodes, l, r, old, new, self, ToSet(of))
         /\ \A k \in DOMAIN q.nodes : h.nodes[k].of = q.nodes[k].of
<1>1. PICK N : N = g.nodes
  OBVIOUS
<1>2. /\ IsNodes(N) /\ HoldsChains(N, S) /\ Partitioned(N, S) /\ Mirrored(N) /\ DOMAIN N = Live(g)
      /\ Live(g) \subseteq S /\ S \subseteq Nat /\ MergesFit(g.merges, S, DOMAIN N)
  BY <1>1, LiveAreIds DEF Fits, IsGraph, Live, Numbered
<1>3. PICK P, m : P = p.nodes /\ m = p.merges
  OBVIOUS
<1>4. /\ {old, new} = {l, r} /\ new < old /\ MergeKnown(N, l, r, old, new, self, ToSet(of))
      /\ of \in Chains(S) /\ HoldsChains(P, S)
      /\ DOMAIN P = DOMAIN N \ {old} /\ new \in DOMAIN P
      /\ P[new].from = f /\ P[new].to = t /\ P[new].of = of
      /\ \A k \in DOMAIN N \ {l, r} : P[k] = N[k] /\ k \in DOMAIN P
  BY <1>1, <1>3, MergeStarts
<1>5. old # new
  BY <1>4 DEF MergeKnown
<1>6. /\ f = ((N[l].from \cup N[r].from) \ ToSet(of)) \cup self
      /\ t = ((N[l].to \cup N[r].to) \ ToSet(of)) \cup self
      /\ m = Put(Without(g.merges, {new}), old, new)
  <2>1. PICK Q, w : /\ Q = Put(Without(g.nodes, {old}), new, [from |-> f, to |-> t, of |-> of])
                    /\ w = Put(Without(g.merges, {new}), old, new)
    OBVIOUS
  <2>2. p = [nodes |-> Q, merges |-> w]
    BY <2>1, Zenon DEF Merging
  <2>3. m = w
    BY <1>3, <2>2
  <2>4. /\ f = ((g.nodes[l].from \cup g.nodes[r].from) \ ToSet(of)) \cup self
        /\ t = ((g.nodes[l].to \cup g.nodes[r].to) \ ToSet(of)) \cup self
    BY Zenon DEF Merging
  <2> QED
    BY <1>1, <2>1, <2>3, <2>4
<1>22. IsGraph(q) /\ q.merges = m /\ Turned(P, q.nodes, S)
  BY <1>3
<1>23. PICK Q, R, M : /\ Q = q.nodes /\ R = RenameFrom(Q, old, new, t)
                      /\ M = RenameTo(R, old, new, f)
  OBVIOUS
<1>24. h = [nodes |-> M, merges |-> m]
  <2>1. q = [nodes |-> Q, merges |-> m]
    BY <1>22, <1>23 DEF IsGraph
  <2> QED
    BY <1>23, <2>1 DEF Told
<1>25. IsNodes(Q) /\ FromRenamed(Q, R, old, new, t)
  <2>1. IsNodes(Q)
    BY <1>22, <1>23 DEF IsGraph
  <2> QED
    BY <1>23, <2>1, RenameFromIs
<1>26. ToRenamed(R, M, old, new, f)
  BY <1>23, <1>25, RenameToIs DEF FromRenamed
<1>27. /\ IsNodes(M) /\ DOMAIN M = DOMAIN P
       /\ \A k \in DOMAIN P :
            /\ M[k].from = IF k \in t THEN Renamed(P[k].from, old, new) ELSE P[k].from
            /\ M[k].to = IF k \in f THEN Renamed(P[k].to, old, new) ELSE P[k].to
            /\ M[k].of \in Chains(S) /\ ToSet(M[k].of) = ToSet(P[k].of)
  <2>1. IsNodes(M) /\ DOMAIN M = DOMAIN P /\ DOMAIN R = DOMAIN P /\ DOMAIN Q = DOMAIN P
    BY <1>22, <1>23, <1>25, <1>26 DEF FromRenamed, ToRenamed, Turned
  <2>2. ASSUME NEW k \in DOMAIN P
        PROVE  /\ M[k].from = IF k \in t THEN Renamed(P[k].from, old, new) ELSE P[k].from
               /\ M[k].to = IF k \in f THEN Renamed(P[k].to, old, new) ELSE P[k].to
               /\ M[k].of \in Chains(S) /\ ToSet(M[k].of) = ToSet(P[k].of)
    <3>1. /\ Q[k].from = P[k].from /\ Q[k].to = P[k].to
          /\ Q[k].of \in Chains(S) /\ ToSet(Q[k].of) = ToSet(P[k].of)
      BY <1>22, <1>23, Zenon DEF Turned
    <3>2. /\ R[k].from = IF k \in t THEN Renamed(Q[k].from, old, new) ELSE Q[k].from
          /\ R[k].to = Q[k].to /\ R[k].of = Q[k].of
      BY <1>25, <2>1, Zenon DEF FromRenamed
    <3>3. /\ M[k].to = IF k \in f THEN Renamed(R[k].to, old, new) ELSE R[k].to
          /\ M[k].from = R[k].from /\ M[k].of = R[k].of
      BY <1>26, <2>1, Zenon DEF ToRenamed
    <3> QED
      BY <3>1, <3>2, <3>3, Zenon
  <2> QED
    BY <2>1, <2>2, Zenon
<1>28. PICK C : C = ToSet(of)
  OBVIOUS
<1>29. MergeKnown(N, l, r, old, new, self, C)
  BY <1>4, <1>28
<1>30. MergedInto(N, M, l, r, old, new, self, C)
  <2>1. M[new].from = f /\ M[new].to = t /\ ToSet(M[new].of) = C
    <3>1. P[new].from = f /\ P[new].to = t /\ ToSet(P[new].of) = C
      BY <1>4, <1>28
    <3>2. /\ M[new].from = IF new \in t THEN Renamed(P[new].from, old, new) ELSE P[new].from
          /\ M[new].to = IF new \in f THEN Renamed(P[new].to, old, new) ELSE P[new].to
          /\ ToSet(M[new].of) = ToSet(P[new].of)
      BY <1>4, <1>27, Zenon
    <3>3. old \notin f /\ old \notin t
      <4>1. old \in ToSet(of) /\ old \notin self
        BY <1>2, <1>4, <1>5, <1>28, <1>29 DEF MergeKnown
      <4> QED
        BY <1>6, <4>1
    <3>4. Renamed(f, old, new) = f /\ Renamed(t, old, new) = t
      BY <3>3 DEF Renamed
    <3> QED
      BY <3>1, <3>2, <3>4
  <2>2. ASSUME NEW k \in DOMAIN N \ {l, r}
        PROVE  /\ M[k].from = IF k \in M[new].to THEN Renamed(N[k].from, old, new) ELSE N[k].from
               /\ M[k].to = IF k \in M[new].from THEN Renamed(N[k].to, old, new) ELSE N[k].to
               /\ ToSet(M[k].of) = ToSet(N[k].of)
    <3>1. P[k] = N[k] /\ k \in DOMAIN P
      BY <1>4
    <3>2. /\ M[k].from = IF k \in t THEN Renamed(P[k].from, old, new) ELSE P[k].from
          /\ M[k].to = IF k \in f THEN Renamed(P[k].to, old, new) ELSE P[k].to
          /\ ToSet(M[k].of) = ToSet(P[k].of)
      BY <1>27, <3>1, Zenon
    <3> QED
      BY <2>1, <3>1, <3>2, Zenon
  <2> QED
    BY <1>4, <1>6, <1>27, <1>28, <2>1, <2>2 DEF MergedInto
<1>31. Partitioned(M, S)
  BY <1>2, <1>4, <1>29, <1>30, MergeKeepsPartition
<1>32. Mirrored(M)
  BY <1>2, <1>29, <1>30, MergeKeepsMirror
<1>33. HoldsChains(M, S)
  BY <1>27 DEF HoldsChains
<1>34. MergesFit(m, S, DOMAIN M)
  <2>1. PICK b : b = g.merges
    OBVIOUS
  <2>2. DOMAIN b = S \ DOMAIN N /\ \A k \in DOMAIN b : b[k] \in S /\ b[k] < k
    BY <1>2, <2>1 DEF MergesFit
  <2>3. PICK w : w = Without(b, {new})
    OBVIOUS
  <2>4. DOMAIN w = DOMAIN b \ {new} /\ \A k \in DOMAIN b \ {new} : w[k] = b[k]
    BY <2>3 DEF Without, Restrict
  <2>5. m = [k \in DOMAIN w \cup {old} |-> IF k = old THEN new ELSE w[k]]
    BY <1>6, <2>1, <2>3 DEF Put
  <2>6. old \in S /\ new \in S /\ old \in DOMAIN N /\ new \in DOMAIN N
    BY <1>2, <1>4
  <2>7. DOMAIN m = S \ DOMAIN M
    BY <1>4, <1>27, <2>2, <2>4, <2>5, <2>6
  <2>8. m = [k \in DOMAIN m |-> m[k]] /\ \A k \in DOMAIN m : m[k] \in S /\ m[k] < k
    BY <1>4, <2>2, <2>4, <2>5, <2>6
  <2> QED
    BY <2>7, <2>8 DEF MergesFit
<1>35. h.nodes = M /\ h.merges = m /\ Live(h) = DOMAIN M /\ IsGraph(h)
  BY <1>24, <1>27 DEF Live, IsGraph
<1>36. DOMAIN M = DOMAIN Q /\ \A k \in DOMAIN Q : M[k].of = Q[k].of
  BY <1>25, <1>26 DEF FromRenamed, ToRenamed
<1> QED
  BY <1>1, <1>3, <1>4, <1>23, <1>27, <1>28, <1>30, <1>31, <1>32, <1>33, <1>34, <1>35, <1>36 DEF Fits

LEMMA MergeFits ==
  ASSUME NEW S, Numbered(S), NEW g, Fits(g, S), NEW l \in Live(g), NEW r \in Live(g), l # r,
         AreMergableLink(g, l, r), NEW h, h = MergeNodes(g, l, r)
  PROVE  Fits(h, S) /\ (IF l < r THEN l ELSE r) \in Live(h)
<1>1. PICK old, new, of, self, f, t, p : Merging(g, l, r, old, new, of, self, f, t, p)
  BY DEF Merging
<1>2. h = Told(RotateIfLoop(p, new), old, new, f, t)
  BY <1>1, MergeIs
<1>3. PICK q : q = RotateIfLoop(p, new)
  OBVIOUS
<1>4. IsGraph(p) /\ HoldsChains(p.nodes, S) /\ new = IF l < r THEN l ELSE r
  BY <1>1, MergeStarts
<1>5. IsGraph(q) /\ q.merges = p.merges /\ Turned(p.nodes, q.nodes, S)
  BY <1>3, <1>4, RotateTurns
<1> QED
  BY <1>1, <1>2, <1>3, <1>4, <1>5, MergeTold

-----------------------------------------------------------------------------
(* The invariant: the graph kept compressed fits the ids seen, and so does *)
(* whatever is in the queue.                                               *)

Seen == 0 .. seen - 1

GraphInv ==
  /\ rooted \in BOOLEAN
  /\ seen \in 0 .. (IF rooted THEN MaxNodes ELSE AnyMaxNodes)
  /\ graph \subseteq Ids \X Ids
  /\ inserting \in {{}} \cup {{e} : e \in graph}
  /\ queued \subseteq Seen \X Seen
  /\ Fits(compressed, Seen)

LEMMA CountIsNumbered == ASSUME NEW n \in Nat PROVE Numbered(0 .. n - 1)
<1>1. (0 .. n - 1) \subseteq Nat /\ \A x \in 0 .. n - 1 : x < n
  OBVIOUS
<1> QED
  BY <1>1 DEF Numbered

LEMMA EmptyFits == Fits(EmptyGraph, 0 .. 0 - 1)
<1>1. PICK e : e = <<>>
  OBVIOUS
<1>2. DOMAIN e = {} /\ e = [x \in DOMAIN e |-> e[x]] /\ 0 .. 0 - 1 = {}
  BY <1>1
<1>3. EmptyGraph = [nodes |-> e, merges |-> e]
  BY <1>1 DEF EmptyGraph
<1>4. IsNodes(e) /\ HoldsChains(e, {}) /\ Partitioned(e, {}) /\ Mirrored(e)
  BY <1>2 DEF IsNodes, HoldsChains, Partitioned, Mirrored
<1>5. MergesFit(e, {}, {})
  BY <1>2 DEF MergesFit
<1> QED
  BY <1>2, <1>3, <1>4, <1>5 DEF Fits, IsGraph, Live

LEMMA LinksOfLive ==
  ASSUME NEW S, NEW g, Fits(g, S), NEW n \in Live(g)
  PROVE  EdgesAt(g, n) \subseteq S \X S
<1>1. g.nodes[n].to \subseteq S /\ g.nodes[n].from \subseteq S /\ n \in S
  <2>1. g.nodes[n].to \subseteq Live(g) /\ g.nodes[n].from \subseteq Live(g)
    BY DEF Fits, Mirrored, Live
  <2> QED
    BY <2>1, LiveAreIds
<1> QED
  BY <1>1 DEF EdgesAt

(* The loop takes a link that is in the queue.                             *)
LEMMA PopFirstIs ==
  ASSUME NEW Q, Q \subseteq Nat \X Nat, Q # {}
  PROVE  PopFirst(Q) \in Q
<1> DEFINE First(e) == \A o \in Q : e[1] < o[1] \/ (e[1] = o[1] /\ e[2] <= o[2])
           L == {e[1] : e \in Q}
<1>1. \A e \in Q : e[1] \in Nat /\ e[2] \in Nat /\ e = <<e[1], e[2]>>
  OBVIOUS
<1>2. PICK a \in L : \A b \in L : a <= b
  <2>1. L \subseteq Nat /\ L # {}
    BY <1>1
  <2> HIDE DEF L
  <2> QED
    BY <2>1, LeastNumber
<1> DEFINE R == {e[2] : e \in {o \in Q : o[1] = a}}
<1>3. PICK b \in R : \A c \in R : b <= c
  <2>1. R \subseteq Nat /\ R # {}
    BY <1>1
  <2> HIDE DEF R
  <2> QED
    BY <2>1, LeastNumber
<1>4. PICK e \in Q : e[1] = a /\ e[2] = b
  OBVIOUS
<1>5. First(e)
  <2>1. ASSUME NEW o \in Q PROVE e[1] < o[1] \/ (e[1] = o[1] /\ e[2] <= o[2])
    <3>1. a <= o[1] /\ a \in Nat /\ o[1] \in Nat
      BY <1>1, <1>2
    <3>2. o[1] = a => b <= o[2]
      BY <1>3
    <3> QED
      BY <1>4, <3>1, <3>2
  <2> QED
    BY <2>1
<1>6. PopFirst(Q) = CHOOSE d \in Q : First(d)
  BY DEF PopFirst
<1> HIDE DEF First
<1> QED
  BY <1>5, <1>6

LEMMA UpdateKeepsGraph ==
  ASSUME BoundsAssumption, GraphInv, Update
  PROVE  GraphInv'
<1>0. PICK from \in SourcesFor(seen) :
        \E to \in TargetsFor(AtLeast(seen, from)) :
          /\ {from, to} \subseteq Ids
          /\ <<from, to>> \notin graph
          /\ seen' = AtLeast(AtLeast(seen, from), to)
          /\ graph' = graph \cup {<<from, to>>}
          /\ inserting' = {<<from, to>>}
          /\ compressed' = Translated(RevertAndUpdate(compressed, from, to), {from, to})
          /\ queued' = Candidates(RevertAndUpdate(compressed, from, to), from, to)
          /\ rooted' = rooted
  BY DEF Update
<1>1. PICK to \in TargetsFor(AtLeast(seen, from)) :
        /\ {from, to} \subseteq Ids
        /\ <<from, to>> \notin graph
        /\ seen' = AtLeast(AtLeast(seen, from), to)
        /\ graph' = graph \cup {<<from, to>>}
        /\ inserting' = {<<from, to>>}
        /\ compressed' = Translated(RevertAndUpdate(compressed, from, to), {from, to})
        /\ queued' = Candidates(RevertAndUpdate(compressed, from, to), from, to)
        /\ rooted' = rooted
  BY <1>0
<1>2. PICK n, bound : n = seen /\ bound = IF rooted THEN MaxNodes ELSE AnyMaxNodes
  OBVIOUS
<1>3. n \in Nat /\ bound \in Nat /\ n <= bound /\ Ids = 0 .. bound - 1 /\ Ids' = Ids
  BY <1>1, <1>2 DEF GraphInv, BoundsAssumption, Ids
<1>4. from \in Nat /\ from <= n
  BY <1>2, <1>3 DEF SourcesFor, IdsFor
<1>5. PICK k : k = AtLeast(n, from)
  OBVIOUS
<1>6. k \in Nat /\ n <= k /\ from < k /\ (k = n \/ k = from + 1)
  BY <1>3, <1>4, <1>5 DEF AtLeast
<1>7. to \in Nat /\ to <= k
  <2>1. to \in TargetsFor(k)
    BY <1>2, <1>5
  <2> QED
    BY <1>6, <2>1 DEF TargetsFor, IdsFor
<1>8. seen' = AtLeast(k, to)
  BY <1>1, <1>2, <1>5
<1>9. seen' \in Nat /\ k <= seen' /\ to < seen' /\ (seen' = k \/ (seen' = to + 1 /\ to = k))
  BY <1>6, <1>7, <1>8 DEF AtLeast
<1>10. from < bound /\ to < bound
  BY <1>1, <1>3
<1>11. seen' <= bound
  BY <1>3, <1>4, <1>6, <1>7, <1>9, <1>10
<1>12. 0 .. seen' - 1 = (0 .. n - 1) \cup {from, to}
  <2>1. 0 .. k - 1 = (0 .. n - 1) \cup {from}
    BY <1>3, <1>4, <1>5, <1>6 DEF AtLeast
  <2>2. 0 .. seen' - 1 = (0 .. k - 1) \cup {to}
    BY <1>6, <1>7, <1>8, <1>9 DEF AtLeast
  <2> QED
    BY <2>1, <2>2
<1>13. PICK S, T, g, h : /\ S = 0 .. n - 1 /\ T = 0 .. seen' - 1 /\ g = compressed
                         /\ h = RevertAndUpdate(compressed, from, to)
  OBVIOUS
<1>14. Numbered(S) /\ Numbered(T) /\ T = S \cup {from, to} /\ Fits(g, S)
  BY <1>2, <1>3, <1>9, <1>12, <1>13, CountIsNumbered DEF GraphInv, Seen
<1>15. Fits(h, T)
  <2>1. h = RevertAndUpdate(g, from, to) /\ Numbered(S \cup {from, to})
    BY <1>13, <1>14
  <2> QED
    BY <1>4, <1>7, <1>14, <2>1, RevertAndUpdateFits
<1>16. Fits(Translated(h, {from, to}), T)
  BY <1>14, <1>15, TranslatedFits
<1>17. Candidates(h, from, to) \subseteq T \X T
  <2>1. PICK f, t : f = Root(h.merges, from) /\ t = Root(h.merges, to)
    OBVIOUS
  <2>2. f \in Live(h) /\ t \in Live(h) /\ f \in T /\ t \in T
    BY <1>14, <1>15, <2>1, RootsInGraph, LiveAreIds
  <2>3. EdgesAt(h, f) \subseteq T \X T /\ EdgesAt(h, t) \subseteq T \X T
    BY <1>15, <2>2, LinksOfLive
  <2> QED
    BY <2>1, <2>2, <2>3 DEF Candidates
<1>18. /\ compressed' = Translated(h, {from, to}) /\ queued' = Candidates(h, from, to)
       /\ Seen' = T
  BY <1>1, <1>13 DEF Seen
<1>19. Fits(compressed', T) /\ queued' \subseteq T \X T
  BY <1>16, <1>17, <1>18
<1>20. /\ rooted' \in BOOLEAN /\ seen' \in 0 .. (IF rooted' THEN MaxNodes ELSE AnyMaxNodes)
       /\ graph' \subseteq Ids' \X Ids' /\ inserting' \in {{}} \cup {{e} : e \in graph'}
  <2>1. graph \subseteq Ids \X Ids /\ rooted \in BOOLEAN
    BY DEF GraphInv
  <2>2. graph' \subseteq Ids \X Ids
    BY <1>1, <2>1
  <2> QED
    BY <1>1, <1>2, <1>3, <1>9, <1>11, <2>1, <2>2
<1> QED
  BY <1>18, <1>19, <1>20 DEF GraphInv

LEMMA CompressStepKeepsGraph ==
  ASSUME GraphInv, CompressStep
  PROVE  GraphInv'
<1>1. PICK S, first, g, l, r :
        /\ S = Seen /\ first = PopFirst(queued)
        /\ g = Translated(compressed, {first[1], first[2]})
        /\ l = Root(g.merges, first[1]) /\ r = Root(g.merges, first[2])
  OBVIOUS
<1>2. PICK this, h : this = (IF l < r THEN l ELSE r) /\ h = MergeNodes(g, l, r)
  OBVIOUS
<1>3. /\ IF AreMergableLink(g, l, r)
         THEN compressed' = h /\ queued' = (queued \ {first}) \cup Neighbours(h, this)
         ELSE compressed' = g /\ queued' = queued \ {first}
      /\ inserting' = IF queued' = {} THEN {} ELSE inserting
      /\ rooted' = rooted /\ seen' = seen /\ graph' = graph
  BY <1>1, <1>2, Zenon DEF CompressStep
<1>4. Numbered(S) /\ queued \subseteq S \X S /\ Fits(compressed, S)
  <2>1. seen \in Nat /\ queued \subseteq Seen \X Seen /\ Fits(compressed, Seen)
    BY DEF GraphInv
  <2>2. Numbered(Seen)
    BY <2>1, CountIsNumbered DEF Seen
  <2> QED
    BY <1>1, <2>1, <2>2
<1>5. first \in S \X S
  <2>1. queued \subseteq Nat \X Nat /\ queued # {}
    BY <1>4 DEF Numbered, CompressStep
  <2>2. first \in queued
    BY <1>1, <2>1, PopFirstIs
  <2> QED
    BY <1>4, <2>2
<1>6. Fits(g, S)
  BY <1>1, <1>4, TranslatedFits
<1>7. l \in Live(g) /\ r \in Live(g)
  BY <1>1, <1>4, <1>5, <1>6, RootsInGraph
<1>8. CASE AreMergableLink(g, l, r)
  <2>1. Fits(h, S) /\ this \in Live(h)
    <3>1. CASE l = r
      <4>1. h = g /\ this = l
        BY <1>2, <3>1 DEF MergeNodes
      <4> QED
        BY <1>6, <1>7, <4>1
    <3>2. CASE l # r
      BY <1>2, <1>4, <1>6, <1>7, <1>8, <3>2, MergeFits
    <3> QED
      BY <3>1, <3>2
  <2>2. Neighbours(h, this) \subseteq S \X S
    BY <2>1, LinksOfLive DEF Neighbours
  <2>3. compressed' = h /\ queued' \subseteq S \X S
    BY <1>3, <1>4, <1>8, <2>2
  <2> QED
    BY <1>1, <1>3, <2>1, <2>3 DEF GraphInv, Seen, Ids
<1>9. CASE ~ AreMergableLink(g, l, r)
  <2>1. compressed' = g /\ queued' \subseteq S \X S
    BY <1>3, <1>4, <1>9
  <2> QED
    BY <1>1, <1>3, <1>6, <2>1 DEF GraphInv, Seen, Ids
<1> QED
  BY <1>8, <1>9

LEMMA InitiallyGraph == ASSUME BoundsAssumption, Init PROVE GraphInv
<1>1. seen \in 0 .. (IF rooted THEN MaxNodes ELSE AnyMaxNodes)
  BY DEF Init, BoundsAssumption
<1>2. Seen = 0 .. 0 - 1
  BY DEF Init, Seen
<1> QED
  BY <1>1, <1>2, EmptyFits DEF Init, BoundsAssumption, GraphInv

LEMMA GraphStays == ASSUME GraphInv, UNCHANGED vars PROVE GraphInv'
  BY DEF GraphInv, vars, Seen, Ids

LEMMA NodesTyped ==
  ASSUME NEW S, NEW I, S \subseteq I, NEW g, Fits(g, S), NEW n \in Live(g)
  PROVE  g.nodes[n] \in NodeType(I)
<1>1. g.nodes[n] = [from |-> g.nodes[n].from, to |-> g.nodes[n].to, of |-> g.nodes[n].of]
  BY Zenon DEF Fits, IsGraph, IsNodes, Live
<1>2. g.nodes[n].from \subseteq I /\ g.nodes[n].to \subseteq I
  <2>1. g.nodes[n].to \subseteq Live(g) /\ g.nodes[n].from \subseteq Live(g)
    BY DEF Fits, Mirrored, Live
  <2> QED
    BY <2>1, LiveAreIds
<1>3. g.nodes[n].of \in Seq(I)
  <2>1. g.nodes[n].of \in Chains(S)
    BY DEF Fits, HoldsChains, Live
  <2> QED
    BY <2>1, LargerChains DEF Chains
<1>4. PICK f, t, o : f = g.nodes[n].from /\ t = g.nodes[n].to /\ o = g.nodes[n].of
  OBVIOUS
<1> QED
  BY <1>1, <1>2, <1>3, <1>4 DEF NodeType

LEMMA OnePlace ==
  ASSUME NEW x \in Seen, Fits(compressed, Seen)
  PROVE  Cardinality(PlacesOf(x)) = 1
<1>1. PICK N : N = compressed.nodes
  OBVIOUS
<1>2. HoldsChains(N, Seen) /\ Partitioned(N, Seen) /\ DOMAIN N = Live(compressed)
  BY <1>1 DEF Fits, Live
<1>3. \A n \in DOMAIN N :
        /\ \A y : y \in ToSet(N[n].of) <=> \E i \in DOMAIN N[n].of : N[n].of[i] = y
        /\ \A i, j \in DOMAIN N[n].of : N[n].of[i] = N[n].of[j] => i = j
  <2>1. ASSUME NEW c \in Chains(Seen)
        PROVE  /\ \A y : y \in ToSet(c) <=> \E i \in DOMAIN c : c[i] = y
               /\ \A i, j \in DOMAIN c : c[i] = c[j] => i = j
    <3>1. \A i, j \in DOMAIN c : c[i] = c[j] => i = j
      BY ChainIs
    <3>2. ToSet(c) = {c[i] : i \in DOMAIN c}
      BY Zenon DEF ToSet
    <3> QED
      BY <3>1, <3>2
  <2> QED
    BY <1>2, <2>1, Zenon DEF HoldsChains
<1>4. PICK n \in DOMAIN N : x \in ToSet(N[n].of)
  BY <1>2 DEF Partitioned
<1>5. PICK i \in DOMAIN N[n].of : N[n].of[i] = x
  BY <1>3, <1>4
<1>6. \A k \in DOMAIN N : \A j \in DOMAIN N[k].of : N[k].of[j] = x => k = n /\ j = i
  <2> SUFFICES ASSUME NEW k \in DOMAIN N, NEW j \in DOMAIN N[k].of, N[k].of[j] = x
               PROVE  k = n /\ j = i
    OBVIOUS
  <2>1. x \in ToSet(N[k].of)
    BY <1>3
  <2>2. k = n
    BY <1>2, <1>4, <2>1 DEF Partitioned
  <2> QED
    BY <1>3, <1>5, <2>2
<1>7. PlacesOf(x) = UNION {{k} \X {j \in DOMAIN N[k].of : N[k].of[j] = x} : k \in DOMAIN N}
  BY <1>1, <1>2 DEF PlacesOf
<1>8. PlacesOf(x) = {<<n, i>>}
  <2>1. <<n, i>> \in PlacesOf(x)
    BY <1>5, <1>7
  <2>2. ASSUME NEW p \in PlacesOf(x) PROVE p = <<n, i>>
    <3>1. PICK k \in DOMAIN N : p \in {k} \X {j \in DOMAIN N[k].of : N[k].of[j] = x}
      BY <1>7
    <3>2. PICK j \in DOMAIN N[k].of : N[k].of[j] = x /\ p = <<k, j>>
      BY <3>1
    <3>3. k = n /\ j = i
      BY <1>6, <3>2
    <3> QED
      BY <3>2, <3>3
  <2> QED
    BY <2>1, <2>2
<1> QED
  BY <1>8, FS_Singleton

LEMMA GraphInvMeans == ASSUME BoundsAssumption, GraphInv PROVE WellFormed
<1>1. Fits(compressed, Seen) /\ Live(compressed) \subseteq Seen
  BY LiveAreIds DEF GraphInv
<1>2. seen \in Nat /\ seen \in 0 .. MaxNodes /\ Seen \subseteq Ids
  BY DEF GraphInv, BoundsAssumption, Seen, Ids
<1>3. /\ DOMAIN compressed.merges = Seen \ Live(compressed)
      /\ \A k \in DOMAIN compressed.merges : compressed.merges[k] \in Seen
  BY <1>1 DEF Fits, MergesFit
<1>4. TypeOK
  <2>1. \A n \in Live(compressed) : compressed.nodes[n] \in NodeType(Ids)
    BY <1>1, <1>2, NodesTyped
  <2>2. queued \subseteq Ids \X Ids
    BY <1>2 DEF GraphInv
  <2> QED
    BY <1>1, <1>2, <1>3, <2>1, <2>2 DEF TypeOK, GraphInv
<1>5. NeighboursMirrored
  BY <1>1 DEF Fits, Mirrored, Live, NeighboursMirrored
<1>6. ChainsPartition
  <2>1. \A x \in 0 .. seen - 1 : Cardinality(PlacesOf(x)) = 1
    BY <1>1, OnePlace DEF Seen
  <2>2. ASSUME NEW n \in Live(compressed), NEW of, of = compressed.nodes[n].of
        PROVE  (\E i \in DOMAIN of : of[i] = n) /\ \A i \in DOMAIN of : n <= of[i]
    <3>1. n \in ToSet(of) /\ (\A x \in ToSet(of) : n <= x) /\ of \in Chains(Seen)
      BY <1>1, <2>2 DEF Fits, Partitioned, HoldsChains, Live
    <3>2. DOMAIN of = 1 .. Len(of) /\ ToSet(of) = {of[i] : i \in 1 .. Len(of)}
      BY <3>1, ChainIs
    <3> QED
      BY <3>1, <3>2
  <2> QED
    BY <2>1, <2>2 DEF ChainsPartition
<1>7. MergesNameTheDead
  BY <1>3 DEF MergesNameTheDead, Seen
<1> QED
  BY <1>4, <1>5, <1>6, <1>7 DEF WellFormed

(* For any number of nodes and links, in any order: after every insertion  *)
(* and every turn of the loop of compress_with_hint_2, neighbours mirror   *)
(* each other and are live, the chains have every node seen exactly once   *)
(* and are named after their least, and exactly the dead are merged away.  *)
THEOREM GraphIsWellFormed == Spec => []WellFormed
<1>1. BoundsAssumption
  BY BoundsAssumption DEF BoundsAssumption
<1>2. Init => GraphInv
  BY <1>1, InitiallyGraph
<1>3. GraphInv /\ [Next]_vars => GraphInv'
  BY <1>1, UpdateKeepsGraph, CompressStepKeepsGraph, GraphStays DEF Next
<1>4. GraphInv => WellFormed
  BY <1>1, GraphInvMeans
<1> QED
  BY <1>2, <1>3, <1>4, PTL DEF Spec

-----------------------------------------------------------------------------
(* The links a compressed graph stands for: those inside of its chains,    *)
(* and those from the last of a chain to the first of a chain.             *)

HeadOf(N, n) == N[n].of[1]
TailOf(N, n) == N[n].of[Len(N[n].of)]

InARow(c, x, y) == \E i \in 1 .. Len(c) - 1 : c[i] = x /\ c[i + 1] = y

Inner(N, x, y) == \E n \in DOMAIN N : InARow(N[n].of, x, y)

Outer(N, x, y) ==
  \E m, n \in DOMAIN N : n \in N[m].to /\ x = TailOf(N, m) /\ y = HeadOf(N, n)

StandsFor(N, E) == \A x, y : <<x, y>> \in E <=> Inner(N, x, y) \/ Outer(N, x, y)

LEMMA RowsJoined ==
  ASSUME NEW S, NEW c \in Chains(S), NEW d \in Chains(S), NEW x, NEW y
  PROVE  InARow(c \o d, x, y) <=>
           InARow(c, x, y) \/ InARow(d, x, y) \/ (x = c[Len(c)] /\ y = d[1])
<1>1. PICK b, m, n : b = c \o d /\ m = Len(c) /\ n = Len(d)
  OBVIOUS
<1>2. c \in Seq(S) /\ d \in Seq(S) /\ m \in Nat /\ n \in Nat /\ m >= 1 /\ n >= 1
  BY <1>1, ChainIs DEF Chains
<1>3. /\ Len(b) = m + n
      /\ \A i \in 1 .. m : b[i] = c[i]
      /\ \A i \in 1 .. n : b[m + i] = d[i]
  BY <1>1, <1>2
<1>8. InARow(b, x, y) <=> \E i \in 1 .. m + n - 1 : b[i] = x /\ b[i + 1] = y
  <2>1. Len(b) - 1 = m + n - 1
    BY <1>2, <1>3
  <2> QED
    BY <2>1, Zenon DEF InARow
<1>4. ASSUME InARow(b, x, y)
      PROVE  InARow(c, x, y) \/ InARow(d, x, y) \/ (x = c[m] /\ y = d[1])
  <2>1. PICK i \in 1 .. m + n - 1 : b[i] = x /\ b[i + 1] = y
    BY <1>8, <1>4
  <2>2. CASE i < m
    <3>1. i \in 1 .. m - 1 /\ i \in 1 .. m /\ i + 1 \in 1 .. m
      BY <1>2, <2>1, <2>2
    <3>2. c[i] = x /\ c[i + 1] = y
      BY <1>3, <2>1, <3>1
    <3> QED
      BY <1>1, <3>1, <3>2 DEF InARow
  <2>3. CASE i = m
    <3>1. i \in 1 .. m /\ 1 \in 1 .. n
      BY <1>2, <2>1, <2>3
    <3> QED
      BY <1>3, <2>1, <2>3, <3>1
  <2>4. CASE i > m
    <3>1. PICK j \in 1 .. n - 1 : i = m + j
      <4>1. i - m \in 1 .. n - 1 /\ i = m + (i - m)
        BY <1>2, <2>1, <2>4
      <4> QED
        BY <4>1
    <3>2. j \in 1 .. n /\ j + 1 \in 1 .. n /\ i + 1 = m + (j + 1)
      BY <1>2, <3>1
    <3>3. d[j] = x /\ d[j + 1] = y
      BY <1>3, <2>1, <3>1, <3>2
    <3> QED
      BY <1>1, <3>1, <3>3 DEF InARow
  <2> QED
    BY <1>2, <2>1, <2>2, <2>3, <2>4
<1>5. ASSUME InARow(c, x, y) PROVE InARow(b, x, y)
  <2>1. PICK i \in 1 .. m - 1 : c[i] = x /\ c[i + 1] = y
    BY <1>1, <1>5 DEF InARow
  <2>2. i \in 1 .. m + n - 1 /\ i \in 1 .. m /\ i + 1 \in 1 .. m
    BY <1>2, <2>1
  <2>3. b[i] = x /\ b[i + 1] = y
    BY <1>3, <2>1, <2>2
  <2> QED
    BY <1>8, <2>2, <2>3
<1>6. ASSUME InARow(d, x, y) PROVE InARow(b, x, y)
  <2>1. PICK i \in 1 .. n - 1 : d[i] = x /\ d[i + 1] = y
    BY <1>1, <1>6 DEF InARow
  <2>2. /\ m + i \in 1 .. m + n - 1 /\ i \in 1 .. n /\ i + 1 \in 1 .. n
        /\ (m + i) + 1 = m + (i + 1)
    BY <1>2, <2>1
  <2>3. b[m + i] = x /\ b[(m + i) + 1] = y
    BY <1>3, <2>1, <2>2
  <2> QED
    BY <1>8, <2>2, <2>3
<1>7. ASSUME x = c[m], y = d[1] PROVE InARow(b, x, y)
  <2>1. m \in 1 .. m + n - 1 /\ m \in 1 .. m /\ 1 \in 1 .. n
    BY <1>2
  <2>2. b[m] = x /\ b[m + 1] = y
    BY <1>3, <1>7, <2>1
  <2> QED
    BY <1>8, <2>1, <2>2
<1> QED
  BY <1>1, <1>4, <1>5, <1>6, <1>7

(* What is in a row is in the chain, not its last and its first.           *)
LEMMA RowIsInside ==
  ASSUME NEW S, NEW c \in Chains(S), NEW x, NEW y, InARow(c, x, y)
  PROVE  /\ x \in ToSet(c) /\ y \in ToSet(c) /\ x # c[Len(c)] /\ y # c[1]
         /\ \A z : InARow(c, x, z) => z = y
         /\ \A z : InARow(c, z, y) => z = x
<1>1. PICK n : n = Len(c)
  OBVIOUS
<1>2. /\ n \in Nat /\ n >= 1
      /\ \A i, j \in 1 .. n : c[i] = c[j] => i = j
      /\ ToSet(c) = {c[i] : i \in 1 .. n}
  BY <1>1, ChainIs
<1>3. PICK i \in 1 .. n - 1 : c[i] = x /\ c[i + 1] = y
  BY <1>1 DEF InARow
<1>4. i \in 1 .. n /\ i + 1 \in 1 .. n /\ i # n /\ i + 1 # 1 /\ n \in 1 .. n /\ 1 \in 1 .. n
  BY <1>2, <1>3
<1>5. x \in ToSet(c) /\ y \in ToSet(c) /\ x # c[n] /\ y # c[1]
  BY <1>2, <1>3, <1>4
<1>6. ASSUME NEW z, InARow(c, x, z) PROVE z = y
  <2>1. PICK j \in 1 .. n - 1 : c[j] = x /\ c[j + 1] = z
    BY <1>1, <1>6 DEF InARow
  <2>2. j \in 1 .. n
    BY <1>2, <2>1
  <2>3. j = i
    BY <1>2, <1>3, <1>4, <2>1, <2>2
  <2> QED
    BY <1>3, <2>1, <2>3
<1>7. ASSUME NEW z, InARow(c, z, y) PROVE z = x
  <2>1. PICK j \in 1 .. n - 1 : c[j] = z /\ c[j + 1] = y
    BY <1>1, <1>7 DEF InARow
  <2>2. j + 1 \in 1 .. n
    BY <1>2, <2>1
  <2>3. j + 1 = i + 1
    BY <1>2, <1>3, <1>4, <2>1, <2>2
  <2>4. j = i
    BY <1>2, <1>3, <2>1, <2>3
  <2> QED
    BY <1>3, <2>1, <2>4
<1> QED
  BY <1>1, <1>5, <1>6, <1>7

LEMMA EndsOfChain ==
  ASSUME NEW S, NEW c \in Chains(S)
  PROVE  c[1] \in ToSet(c) /\ c[Len(c)] \in ToSet(c)
<1>1. PICK n : n = Len(c)
  OBVIOUS
<1>2. n \in Nat /\ n >= 1 /\ ToSet(c) = {c[i] : i \in 1 .. n}
  BY <1>1, ChainIs
<1>3. 1 \in 1 .. n /\ n \in 1 .. n
  BY <1>2
<1> QED
  BY <1>1, <1>2, <1>3

LEMMA EndsJoined ==
  ASSUME NEW S, NEW c \in Chains(S), NEW d \in Chains(S)
  PROVE  (c \o d)[1] = c[1] /\ (c \o d)[Len(c \o d)] = d[Len(d)]
<1>1. c \in Seq(S) /\ d \in Seq(S) /\ Len(c) \in Nat /\ Len(d) \in Nat /\ Len(c) >= 1 /\ Len(d) >= 1
  BY ChainIs DEF Chains
<1> QED
  BY <1>1

LEMMA NoRow ==
  ASSUME NEW S, NEW z, NEW x, NEW y
  PROVE  ~ InARow(<<z>>, x, y)
<1>1. Len(<<z>>) = 1 /\ 1 .. 1 - 1 = {}
  OBVIOUS
<1> QED
  BY <1>1 DEF InARow

-----------------------------------------------------------------------------
(* A graph N and a finer one M, in which n is cut into l and r.            *)

Whole(n, l, r, k) == IF k \in {l, r} THEN n ELSE k

Finer(N, M, n, l, r) ==
  /\ n \in DOMAIN N /\ l \in DOMAIN M /\ r \in DOMAIN M /\ l # r
  /\ DOMAIN N \ {n} = DOMAIN M \ {l, r}
  /\ N[n].of = M[l].of \o M[r].of
  /\ \A k \in DOMAIN N \ {n} : M[k].of = N[k].of
  /\ \A j, k \in DOMAIN M :
       k \in M[j].to <=> \/ j = l /\ k = r
                         \/ j # l /\ k # r /\ Whole(n, l, r, k) \in N[Whole(n, l, r, j)].to

LEMMA FinerInner ==
  ASSUME NEW S, NEW N, NEW M, HoldsChains(M, S), NEW n, NEW l, NEW r, Finer(N, M, n, l, r),
         NEW x, NEW y
  PROVE  Inner(N, x, y) <=> Inner(M, x, y) \/ (x = TailOf(M, l) /\ y = HeadOf(M, r))
<1>1. /\ n \in DOMAIN N /\ l \in DOMAIN M /\ r \in DOMAIN M
      /\ DOMAIN N \ {n} = DOMAIN M \ {l, r}
      /\ N[n].of = M[l].of \o M[r].of
      /\ \A k \in DOMAIN N \ {n} : M[k].of = N[k].of
  BY DEF Finer
<1>2. M[l].of \in Chains(S) /\ M[r].of \in Chains(S)
  BY <1>1 DEF HoldsChains
<1>3. InARow(N[n].of, x, y) <=> \/ InARow(M[l].of, x, y) \/ InARow(M[r].of, x, y)
                                \/ x = TailOf(M, l) /\ y = HeadOf(M, r)
  BY <1>1, <1>2, RowsJoined DEF TailOf, HeadOf
<1>4. (\E k \in DOMAIN N \ {n} : InARow(N[k].of, x, y))
        <=> \E k \in DOMAIN M \ {l, r} : InARow(M[k].of, x, y)
  BY <1>1
<1> QED
  BY <1>1, <1>3, <1>4 DEF Inner

LEMMA FinerOuter ==
  ASSUME NEW S, NEW N, NEW M, HoldsChains(M, S), NEW n, NEW l, NEW r, Finer(N, M, n, l, r),
         NEW x, NEW y
  PROVE  Outer(M, x, y) <=> Outer(N, x, y) \/ (x = TailOf(M, l) /\ y = HeadOf(M, r))
<1> DEFINE W(k) == Whole(n, l, r, k)
<1>1. /\ n \in DOMAIN N /\ l \in DOMAIN M /\ r \in DOMAIN M /\ l # r
      /\ DOMAIN N \ {n} = DOMAIN M \ {l, r}
      /\ N[n].of = M[l].of \o M[r].of
      /\ \A k \in DOMAIN N \ {n} : M[k].of = N[k].of
      /\ \A j, k \in DOMAIN M :
           k \in M[j].to <=> (j = l /\ k = r) \/ (j # l /\ k # r /\ W(k) \in N[W(j)].to)
  BY DEF Finer
<1>2. M[l].of \in Chains(S) /\ M[r].of \in Chains(S)
  BY <1>1 DEF HoldsChains
<1>3. TailOf(N, n) = TailOf(M, r) /\ HeadOf(N, n) = HeadOf(M, l)
  <2>1. PICK c \in Chains(S), d \in Chains(S) : c = M[l].of /\ d = M[r].of
    BY <1>2
  <2>2. PICK e : e = c \o d
    OBVIOUS
  <2>3. e[1] = c[1] /\ e[Len(e)] = d[Len(d)]
    BY <2>2, EndsJoined
  <2>4. N[n].of = e
    BY <1>1, <2>1, <2>2
  <2> QED
    BY <2>1, <2>3, <2>4 DEF TailOf, HeadOf
<1>4. \A k \in DOMAIN M \ {l, r} : /\ k \in DOMAIN N /\ W(k) = k
                                   /\ TailOf(M, k) = TailOf(N, k) /\ HeadOf(M, k) = HeadOf(N, k)
  BY <1>1 DEF Whole, TailOf, HeadOf
<1>5. W(l) = n /\ W(r) = n
  BY DEF Whole
<1> HIDE DEF W
<1>6. /\ \A k \in DOMAIN M : k # l => W(k) \in DOMAIN N /\ TailOf(M, k) = TailOf(N, W(k))
      /\ \A k \in DOMAIN M : k # r => W(k) \in DOMAIN N /\ HeadOf(M, k) = HeadOf(N, W(k))
  BY <1>1, <1>3, <1>4, <1>5
<1>7. ASSUME Outer(M, x, y) PROVE Outer(N, x, y) \/ (x = TailOf(M, l) /\ y = HeadOf(M, r))
  <2>1. PICK j \in DOMAIN M, k \in DOMAIN M : k \in M[j].to /\ x = TailOf(M, j) /\ y = HeadOf(M, k)
    BY <1>7 DEF Outer
  <2>2. (j = l /\ k = r) \/ (j # l /\ k # r /\ W(k) \in N[W(j)].to)
    BY <1>1, <2>1
  <2>3. CASE j # l /\ k # r /\ W(k) \in N[W(j)].to
    <3>1. W(j) \in DOMAIN N /\ W(k) \in DOMAIN N /\ x = TailOf(N, W(j)) /\ y = HeadOf(N, W(k))
      BY <1>6, <2>1, <2>3
    <3> QED
      BY <2>3, <3>1 DEF Outer
  <2> QED
    BY <2>1, <2>2, <2>3
<1>8. ASSUME x = TailOf(M, l), y = HeadOf(M, r) PROVE Outer(M, x, y)
  BY <1>1, <1>8 DEF Outer
<1>9. ASSUME Outer(N, x, y) PROVE Outer(M, x, y)
  <2>1. PICK j \in DOMAIN N, k \in DOMAIN N : k \in N[j].to /\ x = TailOf(N, j) /\ y = HeadOf(N, k)
    BY <1>9 DEF Outer
  <2>2. PICK a, b : a = (IF j = n THEN r ELSE j) /\ b = (IF k = n THEN l ELSE k)
    OBVIOUS
  <2>3. a \in DOMAIN M /\ a # l /\ W(a) = j
    BY <1>1, <1>4, <1>5, <2>1, <2>2
  <2>4. b \in DOMAIN M /\ b # r /\ W(b) = k
    BY <1>1, <1>4, <1>5, <2>1, <2>2
  <2>5. b \in M[a].to /\ x = TailOf(M, a) /\ y = HeadOf(M, b)
    BY <1>1, <1>6, <2>1, <2>3, <2>4
  <2> QED
    BY <2>3, <2>4, <2>5 DEF Outer
<1> QED
  BY <1>7, <1>8, <1>9

(* Cutting and joining chains changes nothing about the links.             *)
LEMMA FinerLinks ==
  ASSUME NEW S, NEW N, NEW M, HoldsChains(M, S), NEW n, NEW l, NEW r, Finer(N, M, n, l, r), NEW E
  PROVE  StandsFor(N, E) <=> StandsFor(M, E)
<1>1. \A x, y : Inner(N, x, y) \/ Outer(N, x, y) <=> Inner(M, x, y) \/ Outer(M, x, y)
  BY FinerInner, FinerOuter
<1> QED
  BY <1>1 DEF StandsFor

-----------------------------------------------------------------------------
(* What the links say about the compressed graph that stands for them.     *)

Chained(N, S) == HoldsChains(N, S) /\ Partitioned(N, S) /\ Mirrored(N)

LEMMA EndsAreHeld ==
  ASSUME NEW S, NEW N, Chained(N, S), NEW n \in DOMAIN N
  PROVE  /\ N[n].of \in Chains(S) /\ ToSet(N[n].of) \subseteq S
         /\ HeadOf(N, n) \in ToSet(N[n].of) /\ TailOf(N, n) \in ToSet(N[n].of)
         /\ \A m \in DOMAIN N : HeadOf(N, n) \in ToSet(N[m].of) \/ TailOf(N, n) \in ToSet(N[m].of) => m = n
<1>1. N[n].of \in Chains(S)
  BY DEF Chained, HoldsChains
<1>2. HeadOf(N, n) \in ToSet(N[n].of) /\ TailOf(N, n) \in ToSet(N[n].of)
  BY <1>1, EndsOfChain DEF HeadOf, TailOf
<1>3. ToSet(N[n].of) \subseteq S
  BY <1>1, ChainIs
<1> QED
  BY <1>1, <1>2, <1>3 DEF Chained, Partitioned

LEMMA InnerIs ==
  ASSUME NEW S, NEW N, Chained(N, S), NEW x, NEW y, Inner(N, x, y)
  PROVE  /\ x \in S /\ y \in S
         /\ \A n \in DOMAIN N : x \in ToSet(N[n].of) <=> y \in ToSet(N[n].of)
         /\ \A n \in DOMAIN N : x # TailOf(N, n) /\ y # HeadOf(N, n)
         /\ \A z : Inner(N, x, z) => z = y
         /\ \A z : Inner(N, z, y) => z = x
<1>1. PICK n \in DOMAIN N : InARow(N[n].of, x, y)
  BY DEF Inner
<1>2. PICK c \in Chains(S) : c = N[n].of
  BY EndsAreHeld
<1>3. /\ x \in ToSet(c) /\ y \in ToSet(c) /\ x # c[Len(c)] /\ y # c[1]
      /\ \A z : InARow(c, x, z) => z = y
      /\ \A z : InARow(c, z, y) => z = x
  BY <1>1, <1>2, RowIsInside
<1>4. \A m \in DOMAIN N : x \in ToSet(N[m].of) \/ y \in ToSet(N[m].of) => m = n
  BY <1>2, <1>3 DEF Chained, Partitioned
<1>5. ASSUME NEW m \in DOMAIN N PROVE x # TailOf(N, m) /\ y # HeadOf(N, m)
  <2>1. CASE m = n
    BY <1>2, <1>3, <2>1 DEF TailOf, HeadOf
  <2>2. CASE m # n
    BY <1>4, <2>2, EndsAreHeld
  <2> QED
    BY <2>1, <2>2
<1>6. ASSUME NEW z, Inner(N, x, z) PROVE z = y
  <2>1. PICK m \in DOMAIN N : InARow(N[m].of, x, z)
    BY <1>6 DEF Inner
  <2>2. N[m].of \in Chains(S)
    BY EndsAreHeld
  <2>3. x \in ToSet(N[m].of)
    BY <2>1, <2>2, RowIsInside
  <2> QED
    BY <1>2, <1>3, <1>4, <2>1, <2>3
<1>7. ASSUME NEW z, Inner(N, z, y) PROVE z = x
  <2>1. PICK m \in DOMAIN N : InARow(N[m].of, z, y)
    BY <1>7 DEF Inner
  <2>2. N[m].of \in Chains(S)
    BY EndsAreHeld
  <2>3. y \in ToSet(N[m].of)
    BY <2>1, <2>2, RowIsInside
  <2> QED
    BY <1>2, <1>3, <1>4, <2>1, <2>3
<1>8. x \in S /\ y \in S
  BY <1>2, <1>3, ChainIs
<1>9. \A m \in DOMAIN N : x \in ToSet(N[m].of) <=> y \in ToSet(N[m].of)
  BY <1>2, <1>3, <1>4
<1> QED
  BY <1>5, <1>6, <1>7, <1>8, <1>9

LEMMA WaysAre ==
  ASSUME NEW S, NEW N, Chained(N, S), NEW E, StandsFor(N, E)
  PROVE  /\ \A m, n \in DOMAIN N : n \in N[m].to <=> <<TailOf(N, m), HeadOf(N, n)>> \in E
         /\ \A m \in DOMAIN N : \A y : <<TailOf(N, m), y>> \in E =>
              \E n \in DOMAIN N : n \in N[m].to /\ y = HeadOf(N, n)
         /\ \A n \in DOMAIN N : \A x : <<x, HeadOf(N, n)>> \in E =>
              \E m \in DOMAIN N : m \in N[n].from /\ x = TailOf(N, m)
<1>1. ASSUME NEW m \in DOMAIN N, NEW y, <<TailOf(N, m), y>> \in E
      PROVE  \E n \in DOMAIN N : n \in N[m].to /\ y = HeadOf(N, n)
  <2>1. ~ Inner(N, TailOf(N, m), y)
    BY InnerIs
  <2>2. PICK k \in DOMAIN N, n \in DOMAIN N : n \in N[k].to /\ TailOf(N, m) = TailOf(N, k) /\ y = HeadOf(N, n)
    BY <1>1, <2>1 DEF StandsFor, Outer
  <2>3. k = m
    BY <2>2, EndsAreHeld
  <2> QED
    BY <2>2, <2>3
<1>2. ASSUME NEW n \in DOMAIN N, NEW x, <<x, HeadOf(N, n)>> \in E
      PROVE  \E m \in DOMAIN N : m \in N[n].from /\ x = TailOf(N, m)
  <2>1. ~ Inner(N, x, HeadOf(N, n))
    BY InnerIs
  <2>2. PICK m \in DOMAIN N, k \in DOMAIN N : k \in N[m].to /\ x = TailOf(N, m) /\ HeadOf(N, n) = HeadOf(N, k)
    BY <1>2, <2>1 DEF StandsFor, Outer
  <2>3. k = n
    BY <2>2, EndsAreHeld
  <2>4. m \in N[n].from
    BY <2>2, <2>3 DEF Chained, Mirrored
  <2> QED
    BY <2>2, <2>4
<1>3. ASSUME NEW m \in DOMAIN N, NEW n \in DOMAIN N
      PROVE  n \in N[m].to <=> <<TailOf(N, m), HeadOf(N, n)>> \in E
  <2>1. ASSUME n \in N[m].to PROVE <<TailOf(N, m), HeadOf(N, n)>> \in E
    BY <2>1 DEF StandsFor, Outer
  <2>2. ASSUME <<TailOf(N, m), HeadOf(N, n)>> \in E PROVE n \in N[m].to
    <3>1. PICK k \in DOMAIN N : k \in N[m].to /\ HeadOf(N, n) = HeadOf(N, k)
      BY <1>1, <2>2
    <3>2. k = n
      BY <3>1, EndsAreHeld
    <3> QED
      BY <3>1, <3>2
  <2> QED
    BY <2>1, <2>2
<1> QED
  BY <1>1, <1>2, <1>3

\* The link from x to y is the only one from x and the only one to y.
Sole(E, x, y) ==
  /\ <<x, y>> \in E
  /\ \A z : <<x, z>> \in E => z = y
  /\ \A z : <<z, y>> \in E => z = x

LEMMA InnerIsSole ==
  ASSUME NEW S, NEW N, Chained(N, S), NEW E, StandsFor(N, E), NEW x, NEW y, Inner(N, x, y)
  PROVE  Sole(E, x, y)
<1>1. \A z : ~ Outer(N, x, z) /\ ~ Outer(N, z, y)
  BY InnerIs DEF Outer
<1>2. (\A z : <<x, z>> \in E => Inner(N, x, z)) /\ \A z : <<z, y>> \in E => Inner(N, z, y)
  BY <1>1 DEF StandsFor
<1>3. <<x, y>> \in E
  BY DEF StandsFor
<1> QED
  BY <1>2, <1>3, InnerIs DEF Sole

LEMMA JoinableIsSole ==
  ASSUME NEW S, NEW N, Chained(N, S), NEW E, StandsFor(N, E), NEW l, NEW r, Joinable(N, l, r)
  PROVE  Sole(E, TailOf(N, l), HeadOf(N, r)) /\ ~ Inner(N, TailOf(N, l), HeadOf(N, r))
<1>1. l \in DOMAIN N /\ r \in DOMAIN N /\ N[l].to = {r} /\ N[r].from = {l}
  BY DEF Joinable
<1>2. <<TailOf(N, l), HeadOf(N, r)>> \in E
  BY <1>1, WaysAre
<1>3. \A z : <<TailOf(N, l), z>> \in E => z = HeadOf(N, r)
  BY <1>1, WaysAre
<1>4. \A z : <<z, HeadOf(N, r)>> \in E => z = TailOf(N, l)
  BY <1>1, WaysAre
<1>5. ~ Inner(N, TailOf(N, l), HeadOf(N, r))
  BY <1>1, InnerIs
<1> QED
  BY <1>2, <1>3, <1>4, <1>5 DEF Sole

(* A link that could be contracted is, or joins two nodes.                 *)
LEMMA SoleIsJoinable ==
  ASSUME NEW S, NEW N, Chained(N, S), NEW E, StandsFor(N, E), NEW x, NEW y, Sole(E, x, y),
         ~ Inner(N, x, y), \A n \in DOMAIN N : N[n].from # {n}
  PROVE  \E l, r \in DOMAIN N : Joinable(N, l, r) /\ x = TailOf(N, l) /\ y = HeadOf(N, r)
<1>1. PICK l \in DOMAIN N, r \in DOMAIN N : r \in N[l].to /\ x = TailOf(N, l) /\ y = HeadOf(N, r)
  BY DEF Sole, StandsFor, Outer
<1>2. N[l].to \subseteq DOMAIN N /\ N[r].from \subseteq DOMAIN N /\ l \in N[r].from
  BY <1>1 DEF Chained, Mirrored
<1>3. ASSUME NEW k \in N[l].to PROVE k = r
  <2>1. HeadOf(N, k) = y /\ k \in DOMAIN N
    BY <1>1, <1>2, <1>3, WaysAre DEF Sole
  <2> QED
    BY <1>1, <2>1, EndsAreHeld
<1>4. ASSUME NEW k \in N[r].from PROVE k = l
  <2>1. k \in DOMAIN N /\ r \in N[k].to
    BY <1>1, <1>2, <1>4 DEF Chained, Mirrored
  <2>2. TailOf(N, k) = x
    BY <1>1, <2>1, WaysAre DEF Sole
  <2> QED
    BY <1>1, <2>1, <2>2, EndsAreHeld
<1>5. N[l].to = {r} /\ N[r].from = {l}
  BY <1>1, <1>2, <1>3, <1>4
<1> QED
  BY <1>1, <1>5 DEF Joinable

-----------------------------------------------------------------------------
(* Links of blocks: the first block has no way in, and every other one has *)
(* a way in from a lesser.                                                 *)

RootedLinks(E, S) ==
  /\ E \subseteq S \X (S \ {0})
  /\ \A y \in S \ {0} : \E x \in S : x < y /\ <<x, y>> \in E

(* So no node leads to itself only.                                        *)
LEMMA NoClosedLoop ==
  ASSUME NEW S, S \subseteq Nat, NEW N, Chained(N, S), NEW E, StandsFor(N, E), RootedLinks(E, S)
  PROVE  \A n \in DOMAIN N : N[n].from # {n}
<1> SUFFICES ASSUME NEW n \in DOMAIN N, N[n].from = {n} PROVE FALSE
  OBVIOUS
<1>1. n \in ToSet(N[n].of) /\ (\A x \in ToSet(N[n].of) : n <= x) /\ n \in S /\ ToSet(N[n].of) \subseteq S
  BY EndsAreHeld DEF Chained, Partitioned
\* Every way into the chain is from the chain.
<1>2. ASSUME NEW x, NEW y \in ToSet(N[n].of), <<x, y>> \in E PROVE x \in ToSet(N[n].of)
  <2>1. CASE Inner(N, x, y)
    BY <1>2, <2>1, InnerIs
  <2>2. CASE Outer(N, x, y)
    <3>1. PICK m \in DOMAIN N, k \in DOMAIN N : k \in N[m].to /\ x = TailOf(N, m) /\ y = HeadOf(N, k)
      BY <2>2 DEF Outer
    <3>2. k = n
      BY <1>2, <3>1, EndsAreHeld
    <3>3. m = n
      BY <3>1, <3>2 DEF Chained, Mirrored
    <3> QED
      BY <3>1, <3>3, EndsAreHeld
  <2> QED
    BY <1>2, <2>1, <2>2 DEF StandsFor
<1>3. CASE n # 0
  <2>1. PICK x \in S : x < n /\ <<x, n>> \in E
    BY <1>1, <1>3 DEF RootedLinks
  <2>2. n <= x
    BY <1>1, <1>2, <2>1
  <2>3. x \in Nat /\ n \in Nat
    BY <1>1, <2>1
  <2> QED
    BY <2>1, <2>2, <2>3
<1>4. CASE n = 0
  <2>1. <<TailOf(N, n), HeadOf(N, n)>> \in E
    <3>1. n \in N[n].to
      BY DEF Chained, Mirrored
    <3> QED
      BY <3>1, WaysAre
  <2>2. HeadOf(N, n) # 0
    BY <2>1 DEF RootedLinks
  <2>3. PICK c \in Chains(S) : c = N[n].of
    BY EndsAreHeld
  <2>4. PICK i \in 1 .. Len(c) : c[i] = 0
    BY <1>1, <1>4, <2>3, ChainIs
  <2>5. i # 1 /\ Len(c) \in Nat
    BY <2>2, <2>3, <2>4, ChainIs DEF HeadOf
  <2>6. i - 1 \in 1 .. Len(c) - 1 /\ (i - 1) + 1 = i
    BY <2>4, <2>5
  <2>7. InARow(c, c[i - 1], 0)
    BY <2>4, <2>6 DEF InARow
  <2>8. <<c[i - 1], 0>> \in E
    BY <2>3, <2>7 DEF StandsFor, Inner
  <2> QED
    BY <2>8 DEF RootedLinks
<1> QED
  BY <1>3, <1>4

(* A graph that stands for links of blocks and in which nothing is left to *)
(* join is what compressing them all at once makes of them.                *)
LEMMA NothingLeft ==
  ASSUME NEW S, S \subseteq Nat, NEW N, Chained(N, S), NEW E, StandsFor(N, E), RootedLinks(E, S),
         S # {0}, \A l, r : ~ Joinable(N, l, r)
  PROVE  Abstract!IsCompressed(N, E)
<1>1. \A n \in DOMAIN N : /\ N[n].of \in Chains(S) /\ ToSet(N[n].of) \subseteq S
                          /\ Abstract!Members(N[n]) = ToSet(N[n].of)
  <2>1. ASSUME NEW n \in DOMAIN N
        PROVE  /\ N[n].of \in Chains(S) /\ ToSet(N[n].of) \subseteq S
               /\ Abstract!Members(N[n]) = ToSet(N[n].of)
    <3>1. N[n].of \in Chains(S) /\ ToSet(N[n].of) \subseteq S
      BY EndsAreHeld
    <3>2. ToSet(N[n].of) = {N[n].of[i] : i \in 1 .. Len(N[n].of)}
      BY <3>1, ChainIs
    <3> QED
      BY <3>1, <3>2, Zenon DEF Abstract!Members
  <2> QED
    BY <2>1
<1>2. E \subseteq S \X S
  BY DEF RootedLinks
<1>3. Abstract!Ends(E) = S
  <2>1. Abstract!Ends(E) = {e[1] : e \in E} \cup {e[2] : e \in E}
    BY DEF Abstract!Ends
  <2>2. Abstract!Ends(E) \subseteq S
    BY <1>2, <2>1
  <2>3. \A x, y : <<x, y>> \in E => x \in Abstract!Ends(E) /\ y \in Abstract!Ends(E)
    <3>1. ASSUME NEW x, NEW y, <<x, y>> \in E PROVE x \in Abstract!Ends(E) /\ y \in Abstract!Ends(E)
      <4>1. PICK e \in E : e = <<x, y>>
        BY <3>1
      <4>2. e[1] = x /\ e[2] = y
        BY <4>1
      <4> QED
        BY <2>1, <4>2
    <3> QED
      BY <3>1
  <2>4. ASSUME NEW y \in S, y # 0 PROVE y \in Abstract!Ends(E)
    <3>1. PICK x \in S : <<x, y>> \in E
      BY <2>4 DEF RootedLinks
    <3> QED
      BY <2>3, <3>1
  <2>5. ASSUME 0 \in S PROVE 0 \in Abstract!Ends(E)
    <3>1. PICK y \in S : y # 0
      BY <2>5
    <3>2. S \ {0} # {} /\ S \ {0} \subseteq Nat
      BY <3>1
    <3>3. PICK z \in S \ {0} : \A k \in S \ {0} : z <= k
      BY <3>2, LeastNumber
    <3>4. PICK x \in S : x < z /\ <<x, z>> \in E
      BY <3>3 DEF RootedLinks
    <3>5. x = 0
      <4>1. x \in Nat /\ z \in Nat
        BY <3>3, <3>4
      <4>2. x # 0 => z <= x
        BY <3>3, <3>4
      <4> QED
        BY <3>4, <4>1, <4>2
    <3> QED
      BY <2>3, <3>4, <3>5
  <2> QED
    BY <2>2, <2>4, <2>5
<1>4. Abstract!InChains(N, E)
  <2>1. UNION {Abstract!Members(N[n]) : n \in DOMAIN N} = S
    <3>1. \A n \in DOMAIN N : Abstract!Members(N[n]) \subseteq S
      BY <1>1
    <3>2. \A x \in S : \E n \in DOMAIN N : x \in Abstract!Members(N[n])
      BY <1>1 DEF Chained, Partitioned
    <3> QED
      BY <3>1, <3>2
  <2>2. \A m, n \in DOMAIN N : Abstract!Members(N[m]) \cap Abstract!Members(N[n]) # {} => m = n
    BY <1>1 DEF Chained, Partitioned
  <2>3. \A n \in DOMAIN N : n \in Abstract!Members(N[n]) /\ \A x \in Abstract!Members(N[n]) : n <= x
    BY <1>1 DEF Chained, Partitioned
  <2>4. \A n \in DOMAIN N : \A i, j \in 1 .. Len(N[n].of) : N[n].of[i] = N[n].of[j] => i = j
    BY <1>1, ChainIs
  <2> QED
    BY <1>3, <2>1, <2>2, <2>3, <2>4 DEF Abstract!InChains
<1>5. \A x, y : <<x, y>> \in Abstract!Links(E) <=> Sole(E, x, y)
  <2>1. ASSUME NEW x, NEW y
        PROVE  /\ Abstract!Successors(E, x) = {y} <=> <<x, y>> \in E /\ \A z : <<x, z>> \in E => z = y
               /\ Abstract!Predecessors(E, y) = {x} <=> <<x, y>> \in E /\ \A z : <<z, y>> \in E => z = x
    <3>1. \A z : z \in Abstract!Successors(E, x) <=> <<x, z>> \in E
      BY <1>2 DEF Abstract!Successors
    <3>2. \A z : z \in Abstract!Predecessors(E, y) <=> <<z, y>> \in E
      BY <1>2 DEF Abstract!Predecessors
    <3> QED
      BY <3>1, <3>2
  <2>2. ASSUME NEW x, NEW y
        PROVE  <<x, y>> \in Abstract!Links(E) <=>
                 <<x, y>> \in E /\ Abstract!Successors(E, x) = {y} /\ Abstract!Predecessors(E, y) = {x}
    BY DEF Abstract!Links
  <2>3. ASSUME NEW x, NEW y PROVE <<x, y>> \in Abstract!Links(E) <=> Sole(E, x, y)
    <3>1. <<x, y>> \in Abstract!Links(E) <=>
            <<x, y>> \in E /\ Abstract!Successors(E, x) = {y} /\ Abstract!Predecessors(E, y) = {x}
      BY <2>2
    <3>2. /\ Abstract!Successors(E, x) = {y} <=> <<x, y>> \in E /\ \A z : <<x, z>> \in E => z = y
          /\ Abstract!Predecessors(E, y) = {x} <=> <<x, y>> \in E /\ \A z : <<z, y>> \in E => z = x
      BY <2>1
    <3> QED
      BY <3>1, <3>2, Zenon DEF Sole
  <2> QED
    BY <2>3, Zenon
<1>6. Abstract!Contracted(N, E)
  <2>1. \A n \in DOMAIN N : \A x, y : <<x, y>> \in Abstract!Steps(N[n]) <=> InARow(N[n].of, x, y)
    BY DEF Abstract!Steps, InARow
  <2>2. PICK U : U = UNION {Abstract!Steps(N[n]) : n \in DOMAIN N}
    OBVIOUS
  <2>3. \A x, y : <<x, y>> \in U <=> Inner(N, x, y)
    BY <2>1, <2>2 DEF Inner
  <2>4. \A x, y : Inner(N, x, y) <=> Sole(E, x, y)
    <3>1. \A n \in DOMAIN N : N[n].from # {n}
      BY NoClosedLoop
    <3> QED
      BY <3>1, InnerIsSole, SoleIsJoinable
  <2>5. \A u \in U : \E x, y : u = <<x, y>>
    <3>1. ASSUME NEW u \in U PROVE \E x, y : u = <<x, y>>
      <4>1. PICK n \in DOMAIN N : u \in Abstract!Steps(N[n])
        BY <2>2
      <4> QED
        BY <4>1 DEF Abstract!Steps
    <3> QED
      BY <3>1
  <2>6. \A u \in Abstract!Links(E) : \E x, y : u = <<x, y>>
    BY <1>2 DEF Abstract!Links
  <2>7. U = Abstract!Links(E)
    BY <1>5, <2>3, <2>4, <2>5, <2>6
  <2> QED
    BY <2>2, <2>7 DEF Abstract!Contracted
<1>7. Abstract!Linked(N, E)
  <2>1. ASSUME NEW n \in DOMAIN N
        PROVE  /\ N[n].from = {m \in DOMAIN N : <<TailOf(N, m), HeadOf(N, n)>> \in E}
               /\ N[n].to = {m \in DOMAIN N : <<TailOf(N, n), HeadOf(N, m)>> \in E}
    <3>1. /\ N[n].from \subseteq DOMAIN N /\ N[n].to \subseteq DOMAIN N
          /\ \A m \in DOMAIN N : m \in N[n].from <=> n \in N[m].to
      BY DEF Chained, Mirrored
    <3>2. \A m \in DOMAIN N : /\ n \in N[m].to <=> <<TailOf(N, m), HeadOf(N, n)>> \in E
                              /\ m \in N[n].to <=> <<TailOf(N, n), HeadOf(N, m)>> \in E
      BY WaysAre
    <3> QED
      BY <3>1, <3>2
  <2> QED
    BY <2>1 DEF Abstract!Linked, HeadOf, TailOf
<1> QED
  BY <1>4, <1>6, <1>7 DEF Abstract!IsCompressed

-----------------------------------------------------------------------------
(* A cut makes a graph finer, a merge makes it coarser.                    *)

LEMMA CutIsFiner ==
  ASSUME NEW S, NEW N, Mirrored(N), NEW old \in DOMAIN N, NEW front, NEW back,
         N[old].of = front \o back, NEW M,
         NEW l, NEW r, l # r, old \in {l, r}, l \in DOMAIN N => l = old, r \in DOMAIN N => r = old,
         CutInto(N, M, old, l, r, front, back)
  PROVE  Finer(N, M, old, l, r)
<1> DEFINE W(k) == Whole(old, l, r, k)
<1>1. /\ \A n \in DOMAIN N : N[n].from \subseteq DOMAIN N /\ N[n].to \subseteq DOMAIN N
      /\ \A m, n \in DOMAIN N : m \in N[n].from <=> n \in N[m].to
  BY DEF Mirrored
<1>2. /\ DOMAIN M = DOMAIN N \cup {l, r} /\ DOMAIN N \ {old} = DOMAIN M \ {l, r}
      /\ M[l].of = front /\ M[r].of = back /\ M[l].to = {r}
      /\ \A k \in DOMAIN N \ {old} : M[k].of = N[k].of
  BY DEF CutInto
<1>3. \A A, new, x : x \in Renamed(A, old, new) <=> (x \in A /\ x # old) \/ (x = new /\ old \in A)
  BY RenamedIs
<1>4. /\ \A x : x \in M[r].to <=> (x \in N[old].to /\ x # old) \/ (x = l /\ old \in N[old].to)
      /\ \A k \in DOMAIN N \ {l, r} :
           \A x : x \in M[k].to <=> (x \in N[k].to /\ x # old) \/ (x = l /\ old \in N[k].to)
  BY <1>3 DEF CutInto
<1>5. W(l) = old /\ W(r) = old /\ \A k : k \notin {l, r} => W(k) = k
  BY DEF Whole
<1> HIDE DEF W
<1>6. ASSUME NEW j \in DOMAIN M, NEW k \in DOMAIN M
      PROVE  k \in M[j].to <=> (j = l /\ k = r) \/ (j # l /\ k # r /\ W(k) \in N[W(j)].to)
  <2>1. CASE j = l
    BY <1>2, <2>1
  <2>2. CASE j = r
    <3>1. CASE k = l
      BY <1>1, <1>4, <1>5, <2>2, <3>1
    <3>2. CASE k = r
      BY <1>1, <1>4, <1>5, <2>2, <3>2
    <3>3. CASE k \notin {l, r}
      BY <1>1, <1>4, <1>5, <2>2, <3>3
    <3> QED
      BY <3>1, <3>2, <3>3
  <2>3. CASE j \notin {l, r}
    <3>0. j \in DOMAIN N \ {l, r} /\ W(j) = j
      BY <1>2, <1>5, <2>3
    <3>1. CASE k = l
      BY <1>1, <1>4, <1>5, <2>3, <3>0, <3>1
    <3>2. CASE k = r
      BY <1>1, <1>4, <1>5, <2>3, <3>0, <3>2
    <3>3. CASE k \notin {l, r}
      BY <1>1, <1>4, <1>5, <2>3, <3>0, <3>3
    <3> QED
      BY <3>1, <3>2, <3>3
  <2> QED
    BY <2>1, <2>2, <2>3
<1>7. N[old].of = M[l].of \o M[r].of
  BY <1>2
<1> QED
  BY <1>2, <1>6, <1>7 DEF Finer, W

LEMMA MergeIsCoarser ==
  ASSUME NEW N, Mirrored(N), NEW l, NEW r, NEW old, NEW new, NEW self, NEW of,
         MergeKnown(N, l, r, old, new, self, of),
         NEW M, MergedInto(N, M, l, r, old, new, self, of),
         M[new].of = N[l].of \o N[r].of, \A k \in DOMAIN N \ {l, r} : M[k].of = N[k].of
  PROVE  Finer(M, N, new, l, r)
<1> DEFINE W(k) == Whole(new, l, r, k)
<1>1. /\ \A n \in DOMAIN N : N[n].from \subseteq DOMAIN N /\ N[n].to \subseteq DOMAIN N
      /\ \A m, n \in DOMAIN N : m \in N[n].from <=> n \in N[m].to
  BY DEF Mirrored
<1>2. /\ l \in DOMAIN N /\ r \in DOMAIN N /\ l # r /\ {old, new} = {l, r} /\ old # new
      /\ N[l].to = {r} /\ N[r].from = {l}
      /\ DOMAIN M = DOMAIN N \ {old}
  BY DEF MergeKnown, MergedInto, Joinable
<1>3. new \in DOMAIN M /\ DOMAIN M \ {new} = DOMAIN N \ {l, r}
  BY <1>2
<1>4. /\ \A x : x \in M[new].to <=> \/ x \in N[r].to /\ x \notin {l, r}
                                    \/ x = new /\ r \in N[l].from
      /\ \A k \in DOMAIN N \ {l, r} :
           \A x : x \in M[k].to <=> \/ x \in N[k].to /\ x \notin {l, r}
                                    \/ x = new /\ l \in N[k].to
  BY MergeWays
<1>5. W(l) = new /\ W(r) = new /\ \A k : k \notin {l, r} => W(k) = k
  BY DEF Whole
<1> HIDE DEF W
<1>6. ASSUME NEW j \in DOMAIN N, NEW k \in DOMAIN N
      PROVE  k \in N[j].to <=> (j = l /\ k = r) \/ (j # l /\ k # r /\ W(k) \in M[W(j)].to)
  <2>1. CASE j = l
    BY <1>2, <2>1
  <2>2. CASE j # l /\ k = r
    BY <1>1, <1>2, <2>2
  <2>3. CASE j = r /\ k = l
    BY <1>1, <1>2, <1>4, <1>5, <2>3
  <2>4. CASE j = r /\ k \notin {l, r}
    BY <1>2, <1>4, <1>5, <2>4
  <2>5. CASE j \notin {l, r} /\ k = l
    BY <1>2, <1>4, <1>5, <2>5
  <2>6. CASE j \notin {l, r} /\ k \notin {l, r}
    BY <1>2, <1>4, <1>5, <2>6
  <2> QED
    BY <2>1, <2>2, <2>3, <2>4, <2>5, <2>6
<1> QED
  BY <1>2, <1>3, <1>6 DEF Finer, W

(* What can be joined after a merge, away from it, could be before.        *)
LEMMA JoinableBefore ==
  ASSUME NEW N, Mirrored(N), NEW l, NEW r, NEW old, NEW new, NEW self, NEW of,
         MergeKnown(N, l, r, old, new, self, of),
         NEW M, MergedInto(N, M, l, r, old, new, self, of),
         NEW a, NEW b, Joinable(M, a, b), a # new, b # new
  PROVE  Joinable(N, a, b) /\ a \notin {l, r} /\ b \notin {l, r}
<1>1. /\ \A n \in DOMAIN N : N[n].from \subseteq DOMAIN N /\ N[n].to \subseteq DOMAIN N
      /\ \A m, n \in DOMAIN N : m \in N[n].from <=> n \in N[m].to
  BY DEF Mirrored
<1>2. /\ l \in DOMAIN N /\ r \in DOMAIN N /\ l # r /\ {old, new} = {l, r} /\ old # new
      /\ N[l].to = {r} /\ N[r].from = {l}
      /\ DOMAIN M = DOMAIN N \ {old}
  BY DEF MergeKnown, MergedInto, Joinable
<1>3. /\ a \in DOMAIN N \ {l, r} /\ b \in DOMAIN N \ {l, r} /\ a # b
      /\ M[a].to = {b} /\ M[b].from = {a}
  BY <1>2 DEF Joinable
<1>4. /\ \A x : x \in {b} <=> \/ x \in N[a].to /\ x \notin {l, r}
                              \/ x = new /\ l \in N[a].to
      /\ \A x : x \in {a} <=> \/ x \in N[b].from /\ x \notin {l, r}
                              \/ x = new /\ r \in N[b].from
  <2>1. \A k \in DOMAIN N \ {l, r} :
              /\ \A x : x \in M[k].from <=> \/ x \in N[k].from /\ x \notin {l, r}
                                            \/ x = new /\ r \in N[k].from
              /\ \A x : x \in M[k].to <=> \/ x \in N[k].to /\ x \notin {l, r}
                                          \/ x = new /\ l \in N[k].to
    BY MergeWays
  <2> QED
    BY <1>3, <2>1
<1>5. l \notin N[a].to /\ r \notin N[b].from
  BY <1>4
<1>6. r \notin N[a].to /\ l \notin N[b].from
  BY <1>1, <1>2, <1>3
<1>7. N[a].to = {b} /\ N[b].from = {a}
  BY <1>3, <1>4, <1>5, <1>6
<1> QED
  BY <1>3, <1>7 DEF Joinable

LEMMA PartsRejoined ==
  ASSUME NEW S, NEW c \in Chains(S), NEW i \in 1 .. Len(c), i # Len(c)
  PROVE  Upto(c, i) \o After(c, i) = c
<1>1. PICK n : n = Len(c)
  OBVIOUS
<1>2. c \in Seq(S) /\ n \in Nat /\ i \in Nat /\ 1 <= i /\ i < n
  BY <1>1, ChainIs DEF Chains
<1>3. PICK f, b : f = Upto(c, i) /\ b = After(c, i)
  OBVIOUS
<1>4. /\ f \in Seq(S) /\ Len(f) = i /\ \A k \in 1 .. i : f[k] = c[k]
      /\ b \in Seq(S) /\ Len(b) = n - i /\ \A k \in 1 .. n - i : b[k] = c[k + i]
  BY <1>1, <1>2, <1>3 DEF Upto, After
<1>5. PICK d : d = f \o b
  OBVIOUS
<1>6. /\ d \in Seq(S) /\ Len(d) = n
      /\ \A k \in 1 .. i : d[k] = f[k]
      /\ \A k \in 1 .. n - i : d[i + k] = b[k]
  <2>1. PICK p \in Nat : p = Len(b)
    BY <1>2, <1>4
  <2>2. p = n - i
    BY <1>4, <2>1
  <2>3. d \in Seq(S)
    BY <1>4, <1>5
  <2>4. PICK q \in Nat : q = Len(f)
    BY <1>2, <1>4
  <2>5. /\ Len(d) = q + p
        /\ \A k \in 1 .. q : d[k] = f[k]
        /\ \A k \in 1 .. p : d[q + k] = b[k]
    <3>1. f \in Seq(S) /\ b \in Seq(S)
      BY <1>4
    <3> QED
      BY <1>5, <2>1, <2>4, <3>1
  <2>6. q = i /\ i + p = n
    BY <1>2, <1>4, <2>2, <2>4
  <2> QED
    BY <2>2, <2>3, <2>5, <2>6
<1>7. ASSUME NEW k \in 1 .. n PROVE d[k] = c[k]
  <2>1. CASE k <= i
    <3>1. k \in 1 .. i
      BY <1>2, <2>1
    <3> QED
      BY <1>4, <1>6, <3>1
  <2>2. CASE k > i
    <3>1. k - i \in 1 .. n - i /\ i + (k - i) = k /\ (k - i) + i = k
      BY <1>2, <2>2
    <3> QED
      BY <1>4, <1>6, <3>1
  <2> QED
    BY <1>2, <2>1, <2>2
<1>8. d = c
  BY <1>1, <1>2, <1>6, <1>7
<1> QED
  BY <1>3, <1>5, <1>8

\* No link inside of the chains is lost but, maybe, that from x to y.
KeptBut(N, M, x, y) == \A u, v : Inner(N, u, v) => Inner(M, u, v) \/ (u = x /\ v = y)

LEMMA EndsOfParts ==
  ASSUME NEW S, NEW c \in Chains(S), NEW i \in 1 .. Len(c), i # Len(c)
  PROVE  /\ Upto(c, i)[Len(Upto(c, i))] = c[i]
         /\ After(c, i)[1] = c[i + 1] /\ After(c, i)[Len(After(c, i))] = c[Len(c)]
<1>1. PICK n : n = Len(c)
  OBVIOUS
<1>2. c \in Seq(S) /\ n \in Nat /\ i \in Nat /\ 1 <= i /\ i < n
  BY <1>1, ChainIs DEF Chains
<1>3. PICK f, b : f = Upto(c, i) /\ b = After(c, i)
  OBVIOUS
<1>4. /\ f \in Seq(S) /\ Len(f) = i /\ \A k \in 1 .. i : f[k] = c[k]
      /\ b \in Seq(S) /\ Len(b) = n - i /\ \A k \in 1 .. n - i : b[k] = c[k + i]
  BY <1>1, <1>2, <1>3 DEF Upto, After
<1>5. i \in 1 .. i /\ 1 \in 1 .. n - i /\ n - i \in 1 .. n - i /\ (n - i) + i = n /\ 1 + i = i + 1
  BY <1>2
<1>6. f[i] = c[i] /\ b[1] = c[i + 1] /\ b[n - i] = c[n]
  BY <1>4, <1>5
<1> QED
  BY <1>1, <1>3, <1>4, <1>6

LEMMA SameChain ==
  ASSUME NEW g, IsGraph(g), NEW n \in Live(g)
  PROVE  [g EXCEPT !.nodes[n].of = g.nodes[n].of] = g
<1>1. PICK N, m : g = [nodes |-> N, merges |-> m]
  BY DEF IsGraph
<1>2. N = g.nodes /\ n \in DOMAIN N /\ N = [k \in DOMAIN N |-> N[k]]
  BY <1>1 DEF IsGraph, IsNodes, Live
<1>3. PICK f, t, o : N[n] = [from |-> f, to |-> t, of |-> o]
  <2>1. N[n] = [from |-> N[n].from, to |-> N[n].to, of |-> N[n].of]
    BY <1>1, <1>2, Zenon DEF IsGraph, IsNodes
  <2> QED
    BY <2>1, Zenon
<1>4. PICK v : v = [N[n] EXCEPT !.of = o]
  OBVIOUS
<1>5. v = N[n]
  BY <1>3, <1>4
<1>6. [N EXCEPT ![n] = v] = N
  BY <1>2, <1>5
<1>7. N[n].of = o
  BY <1>3
<1>8. [g EXCEPT !.nodes[n].of = o] = [nodes |-> [N EXCEPT ![n] = v], merges |-> m]
  BY <1>1, <1>4
<1> QED
  BY <1>1, <1>2, <1>6, <1>7, <1>8

LEMMA NotALoop ==
  ASSUME NEW S, Numbered(S), NEW g, Fits(g, S), NEW E, StandsFor(g.nodes, E), RootedLinks(E, S),
         NEW n \in Live(g)
  PROVE  ~ IsLoop(g, n) /\ RotateIfLoop(g, n) = g
<1>1. Root(g.merges, n) = n
  BY RootsInGraph
<1>2. S \subseteq Nat /\ Chained(g.nodes, S) /\ DOMAIN g.nodes = Live(g)
  BY DEF Numbered, Fits, Chained, Live
<1>3. g.nodes[n].from # {n}
  BY <1>2, NoClosedLoop
<1>4. ~ IsLoop(g, n)
  BY <1>1, <1>3 DEF IsLoop
<1> QED
  BY <1>4 DEF RotateIfLoop

\* The graph g has the nodes of S in its chains, and stands for the links E.
Represents(g, S, E) == Fits(g, S) /\ StandsFor(g.nodes, E)

\* What became of g, cut or not at the node n: nothing of what it stands for.
SplitTells(s, g, S, E, n) ==
  /\ Represents(s.g, S, E) /\ Live(g) \subseteq Live(s.g) /\ s.l \in Live(s.g) /\ s.r \in Live(s.g)
  /\ ToSet(s.g.nodes[s.l].of) \cup ToSet(s.g.nodes[s.r].of) = ToSet(g.nodes[n].of)
  /\ TailOf(s.g.nodes, s.r) = TailOf(g.nodes, n)
  /\ \A k \in Live(g) : k # n => s.g.nodes[k].of = g.nodes[k].of

(* A cut changes nothing about the links, and only takes one of them out   *)
(* of a chain.                                                             *)
LEMMA CutLinks ==
  ASSUME NEW S, Numbered(S), NEW g, NEW E, Represents(g, S, E),
         NEW n \in Live(g), NEW i \in 1 .. Len(g.nodes[n].of), i # Len(g.nodes[n].of),
         NEW s, s = Cut(g, g.nodes[n], n, Upto(g.nodes[n].of, i), After(g.nodes[n].of, i))
  PROVE  /\ SplitTells(s, g, S, E, n)
         /\ TailOf(s.g.nodes, s.l) = g.nodes[n].of[i]
         /\ HeadOf(s.g.nodes, s.r) = g.nodes[n].of[i + 1]
         /\ KeptBut(g.nodes, s.g.nodes, g.nodes[n].of[i], g.nodes[n].of[i + 1])
<1>19. Fits(g, S) /\ StandsFor(g.nodes, E)
  BY DEF Represents
<1>1. PICK N, of : N = g.nodes /\ of = N[n].of
  OBVIOUS
<1>2. of \in Chains(S) /\ DOMAIN N = Live(g) /\ Mirrored(N)
  BY <1>1, <1>19 DEF Fits, HoldsChains, Live
<1>3. PICK front, back : front = Upto(of, i) /\ back = After(of, i)
  OBVIOUS
<1>0. PICK c \in Chains(S) : c = of
  BY <1>2
<1>16. i \in 1 .. Len(c) /\ i # Len(c)
  BY <1>0, <1>1
<1>17. Upto(c, i) \o After(c, i) = c
  BY <1>16, PartsRejoined
<1>18. /\ Upto(c, i) \in Chains(S) /\ After(c, i) \in Chains(S)
       /\ ToSet(Upto(c, i)) \cup ToSet(After(c, i)) = ToSet(c)
       /\ ToSet(Upto(c, i)) \cap ToSet(After(c, i)) = {}
  BY <1>16, PartsOfChain
<1>4. /\ front \in Chains(S) /\ back \in Chains(S)
      /\ ToSet(front) \cup ToSet(back) = ToSet(of)
      /\ ToSet(front) \cap ToSet(back) = {}
      /\ front \o back = of
  BY <1>0, <1>3, <1>17, <1>18
<1>5. Parts(S, g.nodes, n, front, back)
  BY <1>1, <1>4 DEF Parts
<1>6. s = Cut(g, g.nodes[n], n, front, back)
  BY <1>1, <1>3
<1>7. /\ SplitFits(s, g, S, n) /\ s.g.nodes[s.l].of = front /\ s.g.nodes[s.r].of = back
      /\ CutInto(g.nodes, s.g.nodes, n, s.l, s.r, front, back)
      /\ s.l # s.r /\ n \in {s.l, s.r}
      /\ s.l \in Live(g) => s.l = n
      /\ s.r \in Live(g) => s.r = n
  BY <1>5, <1>6, <1>19, CutFits
<1>8. PICK M, l, r : M = s.g.nodes /\ l = s.l /\ r = s.r
  OBVIOUS
<1>9. Finer(N, M, n, l, r)
  BY <1>1, <1>2, <1>4, <1>7, <1>8, CutIsFiner
<1>10. HoldsChains(M, S) /\ DOMAIN M = Live(s.g)
  BY <1>7, <1>8 DEF SplitFits, Fits, Live
<1>11. StandsFor(M, E)
  BY <1>1, <1>9, <1>10, <1>19, FinerLinks
<1>12. /\ front[Len(front)] = of[i]
       /\ back[1] = of[i + 1] /\ back[Len(back)] = of[Len(of)]
  BY <1>1, <1>2, <1>3, EndsOfParts
<1>13. TailOf(M, l) = of[i] /\ HeadOf(M, r) = of[i + 1] /\ TailOf(M, r) = TailOf(N, n)
  BY <1>1, <1>7, <1>8, <1>12 DEF TailOf, HeadOf
<1>14. KeptBut(N, M, of[i], of[i + 1])
  BY <1>9, <1>10, <1>13, FinerInner DEF KeptBut
<1>15. \A k \in DOMAIN N : k # n => M[k].of = N[k].of
  BY <1>9 DEF Finer
<1> QED
  BY <1>1, <1>2, <1>7, <1>8, <1>11, <1>13, <1>14, <1>15 DEF SplitFits, SplitTells, Represents

LEMMA SplitAfterLinks ==
  ASSUME NEW S, Numbered(S), NEW E, RootedLinks(E, S), NEW g, Represents(g, S, E),
         NEW n \in Live(g), NEW x \in ToSet(g.nodes[n].of), NEW s, s = SplitAfter(g, x, n)
  PROVE  /\ SplitTells(s, g, S, E, n) /\ TailOf(s.g.nodes, s.l) = x
         /\ \A u, v : Inner(g.nodes, u, v) /\ u # x => Inner(s.g.nodes, u, v)
<1>0. Fits(g, S) /\ StandsFor(g.nodes, E)
  BY DEF Represents
<1>1. Root(g.merges, n) = n
  BY <1>0, RootsInGraph
<1>2. ~ IsLoop(g, n)
  BY <1>0, NotALoop
<1>3. PICK of : of = g.nodes[n].of
  OBVIOUS
<1>4. of \in Chains(S)
  BY <1>0, <1>3 DEF Fits, HoldsChains, Live
<1>5. PICK i : i = IndexIn(of, x)
  OBVIOUS
<1>6. i \in 1 .. Len(of) /\ of[i] = x
  BY <1>3, <1>4, <1>5, IndexIs
<1>7. s = IF i = Len(of) THEN Uncut([g EXCEPT !.nodes[n].of = of], n)
          ELSE Cut(g, g.nodes[n], n, Upto(of, i), After(of, i))
  BY <1>1, <1>2, <1>3, <1>5, Zenon DEF SplitAfter, Upto, After
<1>8. CASE i = Len(of)
  <2>1. [g EXCEPT !.nodes[n].of = of] = g
    BY <1>0, <1>3, SameChain DEF Fits
  <2>2. s.g = g /\ s.l = n /\ s.r = n
    BY <1>7, <1>8, <2>1 DEF Uncut
  <2>3. TailOf(g.nodes, n) = x
    BY <1>3, <1>6, <1>8 DEF TailOf
  <2> QED
    BY <2>2, <2>3 DEF SplitTells
<1>9. CASE i # Len(of)
  <2>1. i \in 1 .. Len(g.nodes[n].of) /\ i # Len(g.nodes[n].of)
    BY <1>3, <1>6, <1>9
  <2>2. s = Cut(g, g.nodes[n], n, Upto(g.nodes[n].of, i), After(g.nodes[n].of, i))
    BY <1>3, <1>7, <1>9
  <2>3. /\ SplitTells(s, g, S, E, n)
        /\ TailOf(s.g.nodes, s.l) = g.nodes[n].of[i]
        /\ KeptBut(g.nodes, s.g.nodes, g.nodes[n].of[i], g.nodes[n].of[i + 1])
    BY <2>1, <2>2, CutLinks
  <2>4. g.nodes[n].of[i] = x
    BY <1>3, <1>6
  <2> QED
    BY <2>3, <2>4 DEF KeptBut
<1> QED
  BY <1>8, <1>9

LEMMA SplitBeforeLinks ==
  ASSUME NEW S, Numbered(S), NEW E, NEW g, Represents(g, S, E),
         NEW n \in Live(g), NEW x \in ToSet(g.nodes[n].of), NEW s, s = SplitBefore(g, x, n)
  PROVE  /\ SplitTells(s, g, S, E, n) /\ HeadOf(s.g.nodes, s.r) = x
         /\ \A u, v : Inner(g.nodes, u, v) /\ v # x => Inner(s.g.nodes, u, v)
<1>0. Fits(g, S) /\ StandsFor(g.nodes, E)
  BY DEF Represents
<1>1. Root(g.merges, n) = n
  BY <1>0, RootsInGraph
<1>2. PICK of : of = g.nodes[n].of
  OBVIOUS
<1>3. of \in Chains(S)
  BY <1>0, <1>2 DEF Fits, HoldsChains, Live
<1>4. PICK i : i = IndexIn(of, x)
  OBVIOUS
<1>5. i \in 1 .. Len(of) /\ of[i] = x
  BY <1>2, <1>3, <1>4, IndexIs
<1>6. s = IF i = 1 THEN Uncut(g, n)
          ELSE Cut(g, g.nodes[n], n, SubSeq(of, 1, i - 1), SubSeq(of, i, Len(of)))
  BY <1>1, <1>2, <1>4, Zenon DEF SplitBefore
<1>7. CASE i = 1
  <2>1. s.g = g /\ s.l = n /\ s.r = n
    BY <1>6, <1>7 DEF Uncut
  <2>2. HeadOf(g.nodes, n) = x
    BY <1>2, <1>5, <1>7 DEF HeadOf
  <2> QED
    BY <2>1, <2>2 DEF SplitTells
<1>8. CASE i # 1
  <2>0. PICK j : j = i - 1
    OBVIOUS
  <2>1. Len(of) \in Nat
    BY <1>3, ChainIs
  <2>2. j \in 1 .. Len(of) /\ j # Len(of) /\ j + 1 = i
    BY <1>5, <1>8, <2>0, <2>1
  <2>3. s = Cut(g, g.nodes[n], n, Upto(g.nodes[n].of, j), After(g.nodes[n].of, j))
    BY <1>2, <1>6, <1>8, <2>0, <2>2 DEF Upto, After
  <2>4. j \in 1 .. Len(g.nodes[n].of) /\ j # Len(g.nodes[n].of)
    BY <1>2, <2>2
  <2>5. /\ SplitTells(s, g, S, E, n)
        /\ HeadOf(s.g.nodes, s.r) = g.nodes[n].of[j + 1]
        /\ KeptBut(g.nodes, s.g.nodes, g.nodes[n].of[j], g.nodes[n].of[j + 1])
    BY <2>3, <2>4, CutLinks
  <2>6. g.nodes[n].of[j + 1] = x
    BY <1>2, <1>5, <2>2
  <2> QED
    BY <2>5, <2>6 DEF KeptBut
<1> QED
  BY <1>7, <1>8

\* The last and the first of the chain that is k's, or will be.
EntryTail(g, k) == EntryOf(g, k)[Len(EntryOf(g, k))]
EntryHead(g, k) == EntryOf(g, k)[1]

\* No link inside of the chains is lost.
Kept(N, M) == \A u, v : Inner(N, u, v) => Inner(M, u, v)

(* The link from the end of one chain to the start of one, put in.         *)
LEMMA InsertedLinks ==
  ASSUME NEW S, NEW E, NEW g, Represents(g, S, E), NEW l \in Nat, NEW r \in Nat,
         Known(g, S, l), Known(g, S, r), NEW T, T = S \cup {l, r}, Numbered(T),
         NEW from, NEW to, from = EntryTail(g, l), to = EntryHead(g, r),
         NEW F, F = E \cup {<<from, to>>}, RootedLinks(F, T)
  PROVE  /\ Represents(Inserted(g, l, r), T, F)
         /\ Live(Inserted(g, l, r)) = Live(g) \cup {l, r}
         /\ Kept(g.nodes, Inserted(g, l, r).nodes)
<1>0. Fits(g, S) /\ StandsFor(g.nodes, E)
  BY DEF Represents
<1>1. T = S \cup {l, r} /\ F = E \cup {<<from, to>>}
  OBVIOUS
<1>2. PICK h : h = WithFrom(WithTo(g, l, r), r, l)
  OBVIOUS
<1>3. /\ Fits(h, T) /\ Live(h) = Live(g) \cup {l, r}
      /\ \A k \in Live(h) : /\ h.nodes[k].to = EntryTo(g, k) \cup (IF k = l THEN {r} ELSE {})
                            /\ h.nodes[k].of = EntryOf(g, k)
  <2>1. Fits(h, S \cup {l, r}) /\ Live(h) = Live(g) \cup {l, r} /\ IsLinked(g, h, l, r)
    BY <1>0, <1>2, LinkPutFits
  <2> QED
    BY <1>1, <2>1 DEF IsLinked
<1>4. PICK N, M : N = g.nodes /\ M = h.nodes
  OBVIOUS
<1>5. /\ DOMAIN N = Live(g) /\ DOMAIN M = DOMAIN N \cup {l, r}
      /\ \A k \in DOMAIN N : N[k].to \subseteq DOMAIN N
  BY <1>0, <1>3, <1>4 DEF Live, Fits, Mirrored
<1>6. /\ \A k \in DOMAIN N : M[k].of = N[k].of
      /\ \A k \in DOMAIN M : k \notin DOMAIN N => M[k].of = <<k>>
      /\ M[l].of = EntryOf(g, l) /\ M[r].of = EntryOf(g, r)
  BY <1>3, <1>4, <1>5 DEF EntryOf
<1>7. /\ \A k \in DOMAIN N : TailOf(M, k) = TailOf(N, k) /\ HeadOf(M, k) = HeadOf(N, k)
      /\ TailOf(M, l) = from /\ HeadOf(M, r) = to
  BY <1>6 DEF TailOf, HeadOf, EntryTail, EntryHead
<1>8. \A j, k \in DOMAIN M :
        k \in M[j].to <=> (j \in DOMAIN N /\ k \in N[j].to) \/ (j = l /\ k = r)
  BY <1>3, <1>4, <1>5 DEF EntryTo
<1>9. \A x, y : Inner(M, x, y) <=> Inner(N, x, y)
  <2>1. \A k \in DOMAIN M : \A x, y : k \notin DOMAIN N => ~ InARow(M[k].of, x, y)
    BY <1>6, NoRow
  <2> QED
    BY <1>5, <1>6, <2>1 DEF Inner
<1>10. ASSUME NEW x, NEW y PROVE Outer(M, x, y) <=> Outer(N, x, y) \/ (x = from /\ y = to)
  <2>1. ASSUME Outer(M, x, y) PROVE Outer(N, x, y) \/ (x = from /\ y = to)
    <3>1. PICK j \in DOMAIN M, k \in DOMAIN M : k \in M[j].to /\ x = TailOf(M, j) /\ y = HeadOf(M, k)
      BY <2>1 DEF Outer
    <3>2. CASE j \in DOMAIN N /\ k \in N[j].to
      BY <1>5, <1>7, <3>1, <3>2 DEF Outer
    <3>3. CASE j = l /\ k = r
      BY <1>7, <3>1, <3>3
    <3> QED
      BY <1>8, <3>1, <3>2, <3>3
  <2>2. ASSUME Outer(N, x, y) PROVE Outer(M, x, y)
    <3>1. PICK j \in DOMAIN N, k \in DOMAIN N : k \in N[j].to /\ x = TailOf(N, j) /\ y = HeadOf(N, k)
      BY <2>2 DEF Outer
    <3>2. j \in DOMAIN M /\ k \in DOMAIN M
      BY <1>5, <3>1
    <3> QED
      BY <1>7, <1>8, <3>1, <3>2 DEF Outer
  <2>3. ASSUME x = from, y = to PROVE Outer(M, x, y)
    <3>1. l \in DOMAIN M /\ r \in DOMAIN M
      BY <1>5
    <3> QED
      BY <1>7, <1>8, <2>3, <3>1 DEF Outer
  <2> QED
    BY <2>1, <2>2, <2>3
<1>11. StandsFor(M, F)
  <2>1. \A x, y : <<x, y>> \in F <=> <<x, y>> \in E \/ (x = from /\ y = to)
    BY <1>1
  <2>2. \A x, y : <<x, y>> \in E <=> Inner(N, x, y) \/ Outer(N, x, y)
    BY <1>0, <1>4 DEF StandsFor
  <2>3. ASSUME NEW x, NEW y PROVE <<x, y>> \in F <=> Inner(M, x, y) \/ Outer(M, x, y)
    <3>1. <<x, y>> \in F <=> <<x, y>> \in E \/ (x = from /\ y = to)
      BY <2>1
    <3>2. <<x, y>> \in E <=> Inner(N, x, y) \/ Outer(N, x, y)
      BY <2>2
    <3>3. Inner(M, x, y) <=> Inner(N, x, y)
      BY <1>9
    <3>4. Outer(M, x, y) <=> Outer(N, x, y) \/ (x = from /\ y = to)
      BY <1>10
    <3> QED
      BY <3>1, <3>2, <3>3, <3>4
  <2> QED
    BY <2>3 DEF StandsFor
<1>12. l \in Live(h) /\ r \in Live(h) /\ Numbered(T) /\ RootedLinks(F, T) /\ StandsFor(h.nodes, F)
  BY <1>1, <1>3, <1>4, <1>11
<1>13. RotateIfLoop(h, l) = h /\ RotateIfLoop(h, r) = h
  BY <1>3, <1>12, NotALoop
<1>14. Inserted(g, l, r) = h
  BY <1>2, <1>13 DEF Inserted
<1> QED
  BY <1>1, <1>3, <1>4, <1>9, <1>12, <1>14 DEF Represents, Kept

\* No link inside of the chains is lost but those from x and those to y.
KeptAway(N, M, x, y) == \A u, v : Inner(N, u, v) /\ u # x /\ v # y => Inner(M, u, v)

\* What became of g, with a new link.
Grown(h, g, S, E, from, to) ==
  /\ Represents(h, S \cup {from, to}, E \cup {<<from, to>>})
  /\ KeptAway(g.nodes, h.nodes, from, to)
  /\ to \notin S => to \in Live(h)

LEMMA GrownFromLive ==
  ASSUME NEW S, Numbered(S), NEW E, NEW g, NEW h, Represents(h, S, E),
         NEW l \in Live(h), NEW r \in Live(h), NEW from \in S, NEW to \in S,
         TailOf(h.nodes, l) = from, HeadOf(h.nodes, r) = to, KeptAway(g.nodes, h.nodes, from, to),
         RootedLinks(E \cup {<<from, to>>}, S)
  PROVE  Grown(Inserted(h, l, r), g, S, E, from, to)
<1>1. l \in S /\ r \in S
  BY LiveAreIds DEF Represents
<1>2. /\ l \in Nat /\ r \in Nat /\ S \cup {l, r} = S /\ S \cup {from, to} = S
      /\ Known(h, S, l) /\ Known(h, S, r)
  BY <1>1 DEF Numbered, Known
<1>3. from = EntryTail(h, l) /\ to = EntryHead(h, r)
  BY DEF EntryOf, TailOf, HeadOf, EntryTail, EntryHead
<1>4. PICK j : j = Inserted(h, l, r)
  OBVIOUS
<1>5. PICK F : F = E \cup {<<from, to>>}
  OBVIOUS
<1>6. RootedLinks(F, S \cup {l, r}) /\ Numbered(S \cup {l, r})
  BY <1>2, <1>5
<1>7. /\ Represents(j, S \cup {l, r}, F)
      /\ Kept(h.nodes, j.nodes)
  BY <1>2, <1>3, <1>4, <1>5, <1>6, InsertedLinks
<1>8. KeptAway(g.nodes, j.nodes, from, to)
  BY <1>7 DEF KeptAway, Kept
<1> QED
  BY <1>2, <1>4, <1>5, <1>7, <1>8 DEF Grown

LEMMA RevertSelfLoopLinks ==
  ASSUME NEW S, Numbered(S), NEW E, RootedLinks(E, S), NEW g, Represents(g, S, E),
         NEW n \in Live(g), NEW x \in ToSet(g.nodes[n].of),
         RootedLinks(E \cup {<<x, x>>}, S)
  PROVE  Grown(RevertSelfLoop(g, n, x), g, S, E, x, x)
<1>1. PICK c \in Chains(S) : c = g.nodes[n].of
  BY DEF Represents, Fits, HoldsChains, Live
<1>2. x \in S
  BY <1>1, ChainIs
<1>3. CASE n = x /\ Len(g.nodes[n].of) = 1
  <2>1. Len(c) = 1 /\ c[1] = x
    <3>1. ToSet(c) = {c[i] : i \in 1 .. 1} /\ Len(c) = 1
      BY <1>1, <1>3, ChainIs
    <3>2. 1 .. 1 = {1}
      OBVIOUS
    <3> QED
      BY <1>1, <3>1, <3>2
  <2>2. TailOf(g.nodes, n) = x /\ HeadOf(g.nodes, n) = x
    BY <1>1, <2>1 DEF TailOf, HeadOf
  <2>3. KeptAway(g.nodes, g.nodes, x, x)
    BY DEF KeptAway
  <2>4. Grown(Inserted(g, n, n), g, S, E, x, x)
    BY <1>2, <2>2, <2>3, GrownFromLive
  <2> QED
    BY <1>3, <2>4 DEF RevertSelfLoop
<1>4. CASE ~ (n = x /\ Len(g.nodes[n].of) = 1)
  <2>1. PICK after : after = SplitAfter(g, x, n)
    OBVIOUS
  <2>2. /\ SplitTells(after, g, S, E, n) /\ TailOf(after.g.nodes, after.l) = x
        /\ \A u, v : Inner(g.nodes, u, v) /\ u # x => Inner(after.g.nodes, u, v)
    BY <2>1, SplitAfterLinks
  <2>3. Represents(after.g, S, E) /\ after.l \in Live(after.g)
    BY <2>2 DEF SplitTells
  <2>4. x \in ToSet(after.g.nodes[after.l].of)
    <3>1. Chained(after.g.nodes, S) /\ after.l \in DOMAIN after.g.nodes
      BY <2>3 DEF Represents, Fits, Chained, Live
    <3> QED
      BY <2>2, <3>1, EndsAreHeld
  <2>5. PICK before : before = SplitBefore(after.g, x, after.l)
    OBVIOUS
  <2>6. /\ SplitTells(before, after.g, S, E, after.l) /\ HeadOf(before.g.nodes, before.r) = x
        /\ \A u, v : Inner(after.g.nodes, u, v) /\ v # x => Inner(before.g.nodes, u, v)
    BY <2>3, <2>4, <2>5, SplitBeforeLinks
  <2>7. RevertSelfLoop(g, n, x) = Inserted(before.g, before.r, before.r)
    BY <1>4, <2>1, <2>5 DEF RevertSelfLoop
  <2>8. /\ Represents(before.g, S, E) /\ before.r \in Live(before.g)
        /\ TailOf(before.g.nodes, before.r) = x
    BY <2>2, <2>6 DEF SplitTells
  <2>9. KeptAway(g.nodes, before.g.nodes, x, x)
    BY <2>2, <2>6 DEF KeptAway
  <2>10. Grown(Inserted(before.g, before.r, before.r), g, S, E, x, x)
    BY <1>2, <2>6, <2>8, <2>9, GrownFromLive
  <2> QED
    BY <2>7, <2>10
<1> QED
  BY <1>3, <1>4

LEMMA RevertInSameLinks ==
  ASSUME NEW S, Numbered(S), NEW E, RootedLinks(E, S), NEW g, Represents(g, S, E),
         NEW n \in Live(g), NEW from \in ToSet(g.nodes[n].of), NEW to \in ToSet(g.nodes[n].of),
         RootedLinks(E \cup {<<from, to>>}, S)
  PROVE  Grown(RevertInSame(g, n, from, to), g, S, E, from, to)
<1>1. g.nodes[n].of \in Chains(S) /\ from \in S /\ to \in S
  <2>1. g.nodes[n].of \in Chains(S)
    BY DEF Represents, Fits, HoldsChains, Live
  <2> QED
    BY <2>1, ChainIs
<1>2. PICK after : after = SplitAfter(g, from, n)
  OBVIOUS
<1>3. /\ SplitTells(after, g, S, E, n) /\ TailOf(after.g.nodes, after.l) = from
      /\ \A u, v : Inner(g.nodes, u, v) /\ u # from => Inner(after.g.nodes, u, v)
  BY <1>2, SplitAfterLinks
<1>4. PICK a, l : a = after.g /\ l = after.l
  OBVIOUS
<1>5. /\ Represents(a, S, E) /\ l \in Live(a) /\ after.r \in Live(a)
      /\ ToSet(a.nodes[l].of) \cup ToSet(a.nodes[after.r].of) = ToSet(g.nodes[n].of)
      /\ TailOf(a.nodes, l) = from
  BY <1>3, <1>4 DEF SplitTells
<1>6. PICK closes : closes = InSame(a, l, to)
  OBVIOUS
<1>7. closes <=> to \in ToSet(a.nodes[l].of)
  <2>1. a.nodes[l].of \in Chains(S)
    BY <1>5 DEF Represents, Fits, HoldsChains, Live
  <2> QED
    BY <1>6, <2>1, ContainsIs DEF InSame
<1>8. PICK side : side = IF closes THEN l ELSE after.r
  OBVIOUS
<1>9. side \in Live(a) /\ to \in ToSet(a.nodes[side].of) /\ (~ closes => side # l)
  BY <1>5, <1>7, <1>8
<1>10. PICK before : before = SplitBefore(a, to, side)
  OBVIOUS
<1>11. /\ SplitTells(before, a, S, E, side) /\ HeadOf(before.g.nodes, before.r) = to
       /\ \A u, v : Inner(a.nodes, u, v) /\ v # to => Inner(before.g.nodes, u, v)
  BY <1>5, <1>9, <1>10, SplitBeforeLinks
<1>12. PICK h, r : h = before.g /\ r = before.r
  OBVIOUS
<1>13. PICK m : m = IF closes THEN r ELSE l
  OBVIOUS
<1>14. RevertInSame(g, n, from, to) = Inserted(h, m, r)
  BY <1>2, <1>4, <1>6, <1>8, <1>10, <1>12, <1>13, Zenon DEF RevertInSame
<1>15. Represents(h, S, E) /\ r \in Live(h) /\ HeadOf(h.nodes, r) = to
  BY <1>11, <1>12 DEF SplitTells
<1>16. m \in Live(h) /\ TailOf(h.nodes, m) = from
  <2>1. CASE closes
    <3>1. side = l /\ m = r
      BY <1>8, <1>13, <2>1
    <3>2. TailOf(h.nodes, r) = TailOf(a.nodes, l)
      BY <1>11, <1>12, <3>1 DEF SplitTells
    <3> QED
      BY <1>5, <1>15, <3>1, <3>2
  <2>2. CASE ~ closes
    <3>1. m = l /\ l # side
      BY <1>9, <1>13, <2>2
    <3>2. l \in Live(h) /\ h.nodes[l].of = a.nodes[l].of
      BY <1>5, <1>11, <1>12, <3>1 DEF SplitTells
    <3> QED
      BY <1>5, <3>1, <3>2 DEF TailOf
  <2> QED
    BY <2>1, <2>2
<1>17. KeptAway(g.nodes, h.nodes, from, to)
  BY <1>3, <1>4, <1>11, <1>12 DEF KeptAway
<1>18. Grown(Inserted(h, m, r), g, S, E, from, to)
  BY <1>1, <1>15, <1>16, <1>17, GrownFromLive
<1> QED
  BY <1>14, <1>18

LEMMA RevertAcrossLinks ==
  ASSUME NEW S, Numbered(S), NEW E, RootedLinks(E, S), NEW g, Represents(g, S, E),
         NEW from \in Nat, NEW to \in Nat, Numbered(S \cup {from, to}),
         RootedLinks(E \cup {<<from, to>>}, S \cup {from, to}),
         Holders(g, from) = {} \/ to \notin ToSet(g.nodes[Min(Holders(g, from))].of)
  PROVE  Grown(RevertAcross(g, from, to), g, S, E, from, to)
<1>0. Fits(g, S)
  BY DEF Represents
<1>1. PICK after : after = IF Holders(g, from) = {} THEN Uncut(g, from)
                           ELSE SplitAfter(g, from, Min(Holders(g, from)))
  OBVIOUS
<1>2. PICK a, l : a = after.g /\ l = after.l
  OBVIOUS
<1>3. /\ Represents(a, S, E) /\ (\A u, v : Inner(g.nodes, u, v) /\ u # from => Inner(a.nodes, u, v))
      /\ from \in S => l \in Live(a) /\ TailOf(a.nodes, l) = from /\ to \notin ToSet(a.nodes[l].of)
      /\ from \notin S => l = from
  <2>1. CASE Holders(g, from) = {}
    <3>1. a = g /\ l = from
      BY <1>1, <1>2, <2>1 DEF Uncut
    <3>2. from \notin S
      BY <1>0, <2>1, HoldersAre
    <3> QED
      BY <3>1, <3>2
  <2>2. CASE Holders(g, from) # {}
    <3>1. PICK n : n = Min(Holders(g, from))
      OBVIOUS
    <3>2. n \in Live(g) /\ from \in ToSet(g.nodes[n].of) /\ from \in S /\ to \notin ToSet(g.nodes[n].of)
      BY <1>0, <2>2, <3>1, HoldersAre
    <3>3. after = SplitAfter(g, from, n)
      BY <1>1, <2>2, <3>1
    <3>4. /\ SplitTells(after, g, S, E, n) /\ TailOf(after.g.nodes, after.l) = from
          /\ \A u, v : Inner(g.nodes, u, v) /\ u # from => Inner(after.g.nodes, u, v)
      BY <3>2, <3>3, SplitAfterLinks
    <3>5. /\ Represents(a, S, E) /\ l \in Live(a)
          /\ ToSet(a.nodes[l].of) \subseteq ToSet(g.nodes[n].of)
      BY <1>2, <3>4 DEF SplitTells
    <3> QED
      BY <1>2, <3>2, <3>4, <3>5
  <2> QED
    BY <2>1, <2>2
<1>4. Fits(a, S)
  BY <1>3 DEF Represents
<1>5. PICK before : before = IF Holders(a, to) = {} THEN Uncut(a, to)
                             ELSE SplitBefore(a, to, Min(Holders(a, to)))
  OBVIOUS
<1>6. PICK h, r : h = before.g /\ r = before.r
  OBVIOUS
<1>7. /\ Represents(h, S, E) /\ (\A u, v : Inner(a.nodes, u, v) /\ v # to => Inner(h.nodes, u, v))
      /\ from \in S => l \in Live(h) /\ TailOf(h.nodes, l) = from
      /\ to \in S => r \in Live(h) /\ HeadOf(h.nodes, r) = to
      /\ to \notin S => r = to
  <2>1. CASE Holders(a, to) = {}
    <3>1. h = a /\ r = to
      BY <1>5, <1>6, <2>1 DEF Uncut
    <3>2. to \notin S
      BY <1>4, <2>1, HoldersAre
    <3> QED
      BY <1>3, <3>1, <3>2
  <2>2. CASE Holders(a, to) # {}
    <3>1. PICK n : n = Min(Holders(a, to))
      OBVIOUS
    <3>2. n \in Live(a) /\ to \in ToSet(a.nodes[n].of) /\ to \in S
      BY <1>4, <2>2, <3>1, HoldersAre
    <3>3. before = SplitBefore(a, to, n)
      BY <1>5, <2>2, <3>1
    <3>4. /\ SplitTells(before, a, S, E, n) /\ HeadOf(before.g.nodes, before.r) = to
          /\ \A u, v : Inner(a.nodes, u, v) /\ v # to => Inner(before.g.nodes, u, v)
      BY <1>3, <3>2, <3>3, SplitBeforeLinks
    <3>5. Represents(h, S, E) /\ r \in Live(h) /\ HeadOf(h.nodes, r) = to
      BY <1>6, <3>4 DEF SplitTells
    <3>6. ASSUME from \in S PROVE l \in Live(h) /\ TailOf(h.nodes, l) = from
      <4>1. l \in Live(a) /\ l # n
        BY <1>3, <3>2, <3>6
      <4>2. l \in Live(h) /\ h.nodes[l].of = a.nodes[l].of
        BY <1>6, <3>4, <4>1 DEF SplitTells
      <4> QED
        BY <1>3, <3>6, <4>2 DEF TailOf
    <3> QED
      BY <1>6, <3>2, <3>4, <3>5, <3>6
  <2> QED
    BY <2>1, <2>2
<1>8. RevertAcross(g, from, to) = Inserted(h, l, r)
  BY <1>1, <1>2, <1>5, <1>6, Zenon DEF RevertAcross
<1>9. Live(h) \subseteq S /\ S \subseteq Nat
  BY <1>7, LiveAreIds DEF Represents, Numbered
<1>10. /\ l \in Nat /\ r \in Nat /\ Known(h, S, l) /\ Known(h, S, r)
       /\ S \cup {l, r} = S \cup {from, to}
  BY <1>3, <1>7, <1>9 DEF Known
<1>11. from = EntryTail(h, l) /\ to = EntryHead(h, r)
  <2>1. \A x : Len(<<x>>) = 1 /\ <<x>>[1] = x
    OBVIOUS
  <2>2. from = EntryTail(h, l)
    <3>1. CASE from \in S
      BY <1>7, <3>1 DEF EntryOf, TailOf, EntryTail
    <3>2. CASE from \notin S
      <4>1. EntryOf(h, l) = <<from>>
        BY <1>3, <1>9, <3>2 DEF EntryOf
      <4> QED
        BY <2>1, <4>1 DEF EntryTail, EntryHead
    <3> QED
      BY <3>1, <3>2
  <2>3. to = EntryHead(h, r)
    <3>1. CASE to \in S
      BY <1>7, <3>1 DEF EntryOf, HeadOf, EntryHead
    <3>2. CASE to \notin S
      <4>1. EntryOf(h, r) = <<to>>
        BY <1>7, <1>9, <3>2 DEF EntryOf
      <4> QED
        BY <2>1, <4>1 DEF EntryTail, EntryHead
    <3> QED
      BY <3>1, <3>2
  <2> QED
    BY <2>2, <2>3
<1>12. PICK j, F : j = Inserted(h, l, r) /\ F = E \cup {<<from, to>>}
  OBVIOUS
<1>13. Numbered(S \cup {l, r}) /\ RootedLinks(F, S \cup {l, r})
  BY <1>10, <1>12
<1>14. /\ Represents(j, S \cup {l, r}, F) /\ Live(j) = Live(h) \cup {l, r}
       /\ Kept(h.nodes, j.nodes)
  <2>1. Represents(h, S, E)
    BY <1>7
  <2>2. PICK T : T = S \cup {l, r}
    OBVIOUS
  <2>3. Numbered(T) /\ RootedLinks(F, T)
    BY <1>13, <2>2
  <2>4. Represents(j, T, F) /\ Live(j) = Live(h) \cup {l, r} /\ Kept(h.nodes, j.nodes)
    BY <1>10, <1>11, <1>12, <2>1, <2>2, <2>3, InsertedLinks
  <2> QED
    BY <2>2, <2>4
<1>15. KeptAway(g.nodes, j.nodes, from, to)
  BY <1>3, <1>7, <1>14 DEF KeptAway, Kept
<1>16. to \notin S => to \in Live(j)
  BY <1>7, <1>14
<1> QED
  BY <1>8, <1>10, <1>12, <1>14, <1>15, <1>16 DEF Grown

(* A new link, put into the graph that stands for the others.              *)
LEMMA RevertAndUpdateLinks ==
  ASSUME NEW S, Numbered(S), NEW E, RootedLinks(E, S), NEW g, Represents(g, S, E),
         NEW from \in Nat, NEW to \in Nat, Numbered(S \cup {from, to}), <<from, to>> \notin E,
         RootedLinks(E \cup {<<from, to>>}, S \cup {from, to})
  PROVE  Grown(RevertAndUpdate(g, from, to), g, S, E, from, to)
<1>0. Fits(g, S)
  BY DEF Represents
<1>1. PICK held, n : held = Holders(g, from) /\ n = Min(held)
  OBVIOUS
<1>2. held # {} => /\ n \in Live(g) /\ from \in ToSet(g.nodes[n].of) /\ from \in S
                   /\ g.nodes[n].of \in Chains(S)
  BY <1>0, <1>1, HoldersAre DEF Fits, HoldsChains, Live
<1>3. held # {} => (InSame(g, n, to) <=> to \in ToSet(g.nodes[n].of))
  BY <1>2, ContainsIs DEF InSame
<1>4. CASE held = {} \/ (from # to /\ ~InSame(g, n, to))
  <2>1. RevertAndUpdate(g, from, to) = RevertAcross(g, from, to)
    BY <1>1, <1>4 DEF RevertAndUpdate
  <2>2. Holders(g, from) = {} \/ to \notin ToSet(g.nodes[Min(Holders(g, from))].of)
    BY <1>1, <1>3, <1>4
  <2> QED
    BY <2>1, <2>2, RevertAcrossLinks
<1>5. CASE held # {} /\ from = to
  <2>1. RevertAndUpdate(g, from, to) = RevertSelfLoop(g, n, from)
    BY <1>1, <1>5 DEF RevertAndUpdate
  <2>2. RootedLinks(E \cup {<<from, from>>}, S)
    <3>1. S \cup {from, to} = S
      BY <1>2, <1>5
    <3> QED
      BY <1>5, <3>1
  <2>3. Grown(RevertSelfLoop(g, n, from), g, S, E, from, from)
    BY <1>2, <1>5, <2>2, RevertSelfLoopLinks
  <2> QED
    BY <1>5, <2>1, <2>3
<1>6. CASE held # {} /\ from # to /\ InSame(g, n, to)
  <2>1. PICK c \in Chains(S) : c = g.nodes[n].of
    BY <1>2, <1>6
  <2>2. to \in ToSet(c) /\ from \in ToSet(c) /\ to \in S
    BY <1>2, <1>3, <1>6, <2>1, ChainIs
  <2>3. ~ Follows(c, from, to)
    <3>1. PICK i, k : i = IndexIn(c, from) /\ k = IndexIn(c, to)
      OBVIOUS
    <3>2. /\ i \in 1 .. Len(c) /\ c[i] = from /\ k \in 1 .. Len(c) /\ c[k] = to
          /\ Len(c) \in Nat
      BY <2>2, <3>1, IndexIs, ChainIs
    <3>3. ASSUME k = i + 1 PROVE FALSE
      <4>1. i \in 1 .. Len(c) - 1 /\ c[i] = from /\ c[i + 1] = to
        BY <3>2, <3>3
      <4>2. InARow(c, from, to)
        BY <4>1 DEF InARow
      <4>3. n \in DOMAIN g.nodes
        BY <1>2, <1>6 DEF Live
      <4>4. Inner(g.nodes, from, to)
        BY <2>1, <4>2, <4>3 DEF Inner
      <4> QED
        BY <4>4 DEF Represents, StandsFor
    <3> QED
      BY <3>1, <3>3 DEF Follows
  <2>4. RevertAndUpdate(g, from, to) = RevertInSame(g, n, from, to)
    BY <1>1, <1>6, <2>1, <2>3 DEF RevertAndUpdate
  <2>5. RootedLinks(E \cup {<<from, to>>}, S)
    <3>1. S \cup {from, to} = S
      BY <1>2, <1>6, <2>2
    <3> QED
      BY <3>1
  <2>6. Grown(RevertInSame(g, n, from, to), g, S, E, from, to)
    BY <1>2, <1>6, <2>1, <2>2, <2>5, RevertInSameLinks
  <2> QED
    BY <2>4, <2>6
<1> QED
  BY <1>4, <1>5, <1>6

(* What a new link leaves to be joined leads to its target, which is new.  *)
LEMMA NewlyJoinable ==
  ASSUME NEW S, Numbered(S), NEW E, RootedLinks(E, S), NEW g, Represents(g, S, E),
         \A l, r : ~ Joinable(g.nodes, l, r),
         NEW from, NEW to, NEW T, T = S \cup {from, to}, Numbered(T), <<from, to>> \notin E,
         NEW F, F = E \cup {<<from, to>>}, RootedLinks(F, T),
         NEW h, Grown(h, g, S, E, from, to), NEW a, NEW b, Joinable(h.nodes, a, b)
  PROVE  b = to /\ to \in Live(h) /\ <<a, b>> \in EdgesAt(h, to)
<1>1. PICK N, M : N = g.nodes /\ M = h.nodes
  OBVIOUS
<1>2. /\ Chained(N, S) /\ StandsFor(N, E) /\ S \subseteq Nat
  BY <1>1 DEF Represents, Fits, Chained, Numbered
<1>3. /\ Chained(M, T) /\ StandsFor(M, F) /\ DOMAIN M = Live(h) /\ KeptAway(N, M, from, to)
      /\ to \notin S => to \in DOMAIN M
  BY <1>1 DEF Grown, Represents, Fits, Chained, Live
<1>4. PICK x, y : x = TailOf(M, a) /\ y = HeadOf(M, b)
  OBVIOUS
<1>5. Joinable(M, a, b)
  BY <1>1
<1>6. Sole(F, x, y) /\ ~ Inner(M, x, y)
  BY <1>3, <1>4, <1>5, JoinableIsSole
<1>7. \A u, v : <<u, v>> \in F <=> <<u, v>> \in E \/ (u = from /\ v = to)
  OBVIOUS
<1>8. x = from <=> y = to
  BY <1>6, <1>7 DEF Sole
<1>9. x = from /\ y = to
  <2> SUFFICES ASSUME x # from, y # to PROVE FALSE
    BY <1>8
  <2>1. Sole(E, x, y)
    BY <1>6, <1>7 DEF Sole
  <2>2. \A n \in DOMAIN N : N[n].from # {n}
    BY <1>2, NoClosedLoop
  <2>3. Inner(N, x, y)
    BY <1>1, <1>2, <2>1, <2>2, SoleIsJoinable
  <2> QED
    BY <1>3, <1>6, <2>3 DEF KeptAway
<1>10. to \notin S
  <2> SUFFICES ASSUME to \in S PROVE FALSE
    OBVIOUS
  <2>1. to # 0
    BY <1>7 DEF RootedLinks
  <2>2. PICK z \in S : <<z, to>> \in E
    BY <2>1 DEF RootedLinks
  <2>3. z = from
    BY <1>6, <1>7, <1>9, <2>2 DEF Sole
  <2> QED
    BY <2>2, <2>3
<1>11. b = to
  <2>1. to \in ToSet(M[to].of) /\ to \in DOMAIN M
    BY <1>3, <1>10 DEF Chained, Partitioned
  <2>2. b \in DOMAIN M
    BY <1>5 DEF Joinable
  <2>3. to \in ToSet(M[b].of)
    <3>1. Chained(M, T)
      BY <1>3
    <3>2. HeadOf(M, b) \in ToSet(M[b].of)
      BY <2>2, <3>1, EndsAreHeld
    <3> QED
      BY <1>4, <1>9, <3>2
  <2> QED
    BY <1>3, <2>1, <2>2, <2>3 DEF Chained, Partitioned
<1>12. a \in M[b].from
  BY <1>5 DEF Joinable
<1> QED
  BY <1>1, <1>3, <1>10, <1>11, <1>12 DEF EdgesAt

\* h is g with the nodes l and r made one, which is named `this`.
Takes(g, h, l, r, this) ==
  /\ Finer(h.nodes, g.nodes, this, l, r)
  /\ \E other : /\ {this, other} = {l, r} /\ this < other
                /\ h.merges = Put(Without(g.merges, {this}), other, this)

(* A merge changes nothing about the links, turns no chain, and leaves     *)
(* nothing new to be joined but with the node it makes.                    *)
LEMMA MergeLinks ==
  ASSUME NEW S, Numbered(S), NEW E, RootedLinks(E, S), NEW g, Represents(g, S, E),
         NEW l \in Live(g), NEW r \in Live(g), l # r, AreMergableLink(g, l, r),
         NEW this, this = (IF l < r THEN l ELSE r), NEW h, h = MergeNodes(g, l, r)
  PROVE  /\ Represents(h, S, E) /\ Takes(g, h, l, r, this)
         /\ \A a, b : Joinable(h.nodes, a, b) =>
              \/ a = this \/ b = this
              \/ Joinable(g.nodes, a, b) /\ a \notin {l, r} /\ b \notin {l, r}
<1>0. Fits(g, S)
  BY DEF Represents
<1>1. PICK old, new, of, self, f, t, p : Merging(g, l, r, old, new, of, self, f, t, p)
  BY DEF Merging
<1>2. /\ {old, new} = {l, r} /\ new < old /\ new = this
      /\ MergeKnown(g.nodes, l, r, old, new, self, ToSet(of)) /\ of \in Chains(S)
      /\ IsGraph(p) /\ HoldsChains(p.nodes, S)
      /\ DOMAIN p.nodes = DOMAIN g.nodes \ {old} /\ new \in DOMAIN p.nodes
      /\ p.nodes[new].from = f /\ p.nodes[new].of = of
      /\ \A k \in DOMAIN g.nodes \ {l, r} : p.nodes[k] = g.nodes[k] /\ k \in DOMAIN p.nodes
  BY <1>0, <1>1, MergeStarts
<1>3. PICK j : j = Told(p, old, new, f, t)
  OBVIOUS
<1>4. /\ Fits(j, S) /\ new \in Live(j) /\ j.merges = p.merges
      /\ MergedInto(g.nodes, j.nodes, l, r, old, new, self, ToSet(of))
      /\ \A k \in DOMAIN p.nodes : j.nodes[k].of = p.nodes[k].of
  <2>1. Turned(p.nodes, p.nodes, S)
    BY <1>2, NotTurned DEF IsGraph
  <2> QED
    BY <1>0, <1>1, <1>2, <1>3, <2>1, MergeTold
<1>5. PICK N, M, C : N = g.nodes /\ M = j.nodes /\ C = ToSet(of)
  OBVIOUS
<1>6. /\ Mirrored(N) /\ HoldsChains(N, S) /\ StandsFor(N, E) /\ Mirrored(M)
      /\ MergeKnown(N, l, r, old, new, self, C) /\ MergedInto(N, M, l, r, old, new, self, C)
  BY <1>2, <1>4, <1>5 DEF Represents, Fits
<1>7. M[new].of = N[l].of \o N[r].of
  <2>1. of = N[l].of \o N[r].of
    BY <1>1, <1>5 DEF Merging
  <2> QED
    BY <1>2, <1>4, <1>5, <2>1
<1>8. \A k \in DOMAIN N \ {l, r} : M[k].of = N[k].of
  BY <1>2, <1>4, <1>5
<1>9. Finer(M, N, new, l, r)
  BY <1>6, <1>7, <1>8, MergeIsCoarser
<1>10. StandsFor(M, E)
  BY <1>6, <1>9, FinerLinks
<1>11. Represents(j, S, E)
  BY <1>4, <1>5, <1>10 DEF Represents
<1>12. M[new].from # {new}
  <2>1. Chained(M, S) /\ S \subseteq Nat /\ new \in DOMAIN M
    BY <1>4, <1>5 DEF Fits, Chained, Numbered, Live
  <2> QED
    BY <1>10, <2>1, NoClosedLoop
<1>13. f = M[new].from
  <2>1. f = ((N[l].from \cup N[r].from) \ C) \cup self
    BY <1>1, <1>5 DEF Merging
  <2> QED
    BY <1>6, <2>1 DEF MergedInto
<1>14. RotateIfLoop(p, new) = p
  <2>1. Root(p.merges, new) = new
    BY <1>4, RootsInGraph
  <2>2. p.nodes[new].from # {new}
    BY <1>2, <1>12, <1>13
  <2> QED
    BY <2>1, <2>2 DEF RotateIfLoop, IsLoop
<1>15. h = j
  BY <1>1, <1>3, <1>14, MergeIs
<1>16. ASSUME NEW a, NEW b, Joinable(M, a, b), a # new, b # new
       PROVE  Joinable(N, a, b) /\ a \notin {l, r} /\ b \notin {l, r}
  BY <1>6, <1>16, JoinableBefore
<1>17. Takes(g, h, l, r, this)
  <2>1. p.merges = Put(Without(g.merges, {new}), old, new)
    BY <1>1 DEF Merging
  <2> QED
    BY <1>2, <1>4, <1>5, <1>9, <1>15, <2>1 DEF Takes
<1> QED
  BY <1>2, <1>5, <1>11, <1>15, <1>16, <1>17

-----------------------------------------------------------------------------
(* Links between blocks: the compressed graph stands for the links so far, *)
(* and what could be joined waits in the queue.                            *)

BlockInv ==
  rooted =>
    /\ RootedLinks(graph, Seen) /\ seen # 1
    /\ StandsFor(compressed.nodes, graph)
    /\ \A l, r : Joinable(compressed.nodes, l, r) => <<l, r>> \in queued

LEMMA InitiallyBlocks == ASSUME Init PROVE BlockInv
<1>1. PICK e : e = <<>>
  OBVIOUS
<1>2. DOMAIN e = {} /\ compressed.nodes = e /\ seen = 0 /\ graph = {} /\ 0 .. 0 - 1 = {}
  BY <1>1 DEF Init, EmptyGraph
<1>3. Seen = {}
  BY <1>2 DEF Seen
<1>4. RootedLinks(graph, Seen)
  BY <1>2, <1>3 DEF RootedLinks
<1>5. StandsFor(e, {}) /\ \A l, r : ~ Joinable(e, l, r)
  BY <1>2 DEF StandsFor, Inner, Outer, Joinable
<1> QED
  BY <1>2, <1>4, <1>5 DEF BlockInv

LEMMA UpdateKeepsBlocks ==
  ASSUME BoundsAssumption, GraphInv, BlockInv, GraphInv', Update
  PROVE  BlockInv' /\ (rooted => queued' # {})
<1> SUFFICES ASSUME rooted PROVE BlockInv' /\ queued' # {}
  BY DEF Update, BlockInv
<1>0. PICK from \in SourcesFor(seen) :
        \E to \in TargetsFor(AtLeast(seen, from)) :
          /\ <<from, to>> \notin graph
          /\ seen' = AtLeast(AtLeast(seen, from), to)
          /\ graph' = graph \cup {<<from, to>>}
          /\ compressed' = Translated(RevertAndUpdate(compressed, from, to), {from, to})
          /\ queued' = Candidates(RevertAndUpdate(compressed, from, to), from, to)
  BY DEF Update
<1>1. PICK to \in TargetsFor(AtLeast(seen, from)) :
        /\ <<from, to>> \notin graph
        /\ seen' = AtLeast(AtLeast(seen, from), to)
        /\ graph' = graph \cup {<<from, to>>}
        /\ compressed' = Translated(RevertAndUpdate(compressed, from, to), {from, to})
        /\ queued' = Candidates(RevertAndUpdate(compressed, from, to), from, to)
  BY <1>0
<1>2. PICK n : n = seen
  OBVIOUS
<1>3. n \in Nat /\ n # 1
  BY <1>2 DEF GraphInv, BoundsAssumption, BlockInv
<1>4. from \in Nat /\ (n = 0 => from = 0) /\ (n # 0 => from < n)
  BY <1>2, <1>3 DEF SourcesFor, IdsFor
<1>5. PICK k : k = AtLeast(n, from)
  OBVIOUS
<1>6. k \in Nat /\ from < k /\ (n = 0 => k = 1) /\ (n # 0 => k = n)
  BY <1>3, <1>4, <1>5 DEF AtLeast
<1>7. to \in Nat /\ 1 <= to /\ to <= k
  <2>1. to \in TargetsFor(k)
    BY <1>2, <1>5
  <2> QED
    BY <1>6, <2>1 DEF TargetsFor
<1>8. seen' = AtLeast(k, to)
  BY <1>1, <1>2, <1>5
<1>9. /\ seen' \in Nat /\ seen' # 1
      /\ 0 .. seen' - 1 = (0 .. n - 1) \cup {from, to}
      /\ to \notin 0 .. n - 1 => from < to
  <2>1. 0 .. k - 1 = (0 .. n - 1) \cup {from}
    BY <1>3, <1>4, <1>5, <1>6 DEF AtLeast
  <2>2. 0 .. seen' - 1 = (0 .. k - 1) \cup {to}
    BY <1>6, <1>7, <1>8 DEF AtLeast
  <2>3. seen' \in Nat /\ seen' # 1
    BY <1>3, <1>6, <1>7, <1>8 DEF AtLeast
  <2>4. to \notin 0 .. n - 1 => from < to
    BY <1>3, <1>4, <1>6, <1>7
  <2> QED
    BY <2>1, <2>2, <2>3, <2>4
<1>10. PICK S, T, E, F, g, h :
         /\ S = 0 .. n - 1 /\ T = 0 .. seen' - 1 /\ E = graph /\ F = graph'
         /\ g = compressed /\ h = RevertAndUpdate(compressed, from, to)
  OBVIOUS
<1>11. /\ Numbered(S) /\ Numbered(T) /\ T = S \cup {from, to} /\ F = E \cup {<<from, to>>}
       /\ <<from, to>> \notin E /\ S = Seen /\ T = Seen'
  BY <1>1, <1>2, <1>3, <1>9, <1>10, CountIsNumbered DEF Seen
<1>12. RootedLinks(E, S) /\ Represents(g, S, E) /\ \A l, r : ~ Joinable(g.nodes, l, r)
  <2>1. RootedLinks(graph, Seen) /\ StandsFor(compressed.nodes, graph)
    BY DEF BlockInv
  <2>2. \A l, r : ~ Joinable(compressed.nodes, l, r)
    BY DEF BlockInv, Update, Idle
  <2>3. Fits(compressed, Seen)
    BY DEF GraphInv
  <2> QED
    BY <1>10, <1>11, <2>1, <2>2, <2>3 DEF Represents
<1>13. RootedLinks(F, T)
  <2>1. S \subseteq T /\ from \in T /\ to \in T \ {0}
    BY <1>7, <1>11
  <2>2. E \subseteq S \X (S \ {0})
    BY <1>12 DEF RootedLinks
  <2>3. F \subseteq T \X (T \ {0})
    BY <1>11, <2>1, <2>2
  <2>4. ASSUME NEW y \in T \ {0} PROVE \E x \in T : x < y /\ <<x, y>> \in F
    <3>1. CASE y \in S
      <4>1. PICK x \in S : x < y /\ <<x, y>> \in E
        BY <1>12, <2>4, <3>1 DEF RootedLinks
      <4> QED
        BY <1>11, <2>1, <4>1
    <3>2. CASE y \notin S
      <4>1. y = to
        <5>1. y = from \/ y = to
          BY <1>11, <2>4, <3>2
        <5>2. from = 0 \/ from \in S
          BY <1>3, <1>4, <1>10
        <5> QED
          BY <2>4, <3>2, <5>1, <5>2
      <4>2. from < to
        BY <1>9, <1>10, <3>2, <4>1
      <4> QED
        BY <1>11, <2>1, <4>1, <4>2
    <3> QED
      BY <3>1, <3>2
  <2> QED
    BY <2>3, <2>4 DEF RootedLinks
<1>14. Grown(h, g, S, E, from, to)
  <2>1. Numbered(S \cup {from, to}) /\ RootedLinks(E \cup {<<from, to>>}, S \cup {from, to})
    BY <1>11, <1>13
  <2>2. h = RevertAndUpdate(g, from, to)
    BY <1>10
  <2> QED
    BY <1>4, <1>7, <1>11, <1>12, <2>1, <2>2, RevertAndUpdateLinks
<1>15. Represents(h, T, F)
  BY <1>11, <1>14 DEF Grown
<1>16. compressed'.nodes = h.nodes /\ queued' = Candidates(h, from, to)
  <2>1. compressed' = Translated(h, {from, to}) /\ queued' = Candidates(h, from, to)
    BY <1>1, <1>10
  <2>2. Translated(h, {from, to}).nodes = h.nodes
    BY <1>11, <1>15, TranslatedFits DEF Represents
  <2> QED
    BY <2>1, <2>2
<1>17. ASSUME NEW a, NEW b, Joinable(h.nodes, a, b) PROVE <<a, b>> \in queued'
  <2>1. b = to /\ to \in Live(h) /\ <<a, b>> \in EdgesAt(h, to)
    BY <1>11, <1>12, <1>13, <1>14, <1>17, NewlyJoinable
  <2>2. Root(h.merges, to) = to
    BY <1>11, <1>15, <2>1, RootsInGraph DEF Represents
  <2> QED
    BY <1>16, <2>1, <2>2 DEF Candidates
<1>18. queued' # {}
  BY <1>16 DEF Candidates
<1>19. StandsFor(compressed'.nodes, graph')
  BY <1>10, <1>15, <1>16 DEF Represents
<1>20. RootedLinks(graph', Seen')
  BY <1>10, <1>11, <1>13
<1>21. \A l, r : Joinable(compressed'.nodes, l, r) => <<l, r>> \in queued'
  BY <1>16, <1>17
<1>22. BlockInv'
  BY <1>9, <1>19, <1>20, <1>21 DEF BlockInv
<1> QED
  BY <1>18, <1>22

LEMMA JoinableIsMergable ==
  ASSUME NEW S, Numbered(S), NEW g, Fits(g, S), NEW l, NEW r, Joinable(g.nodes, l, r)
  PROVE  AreMergableLink(g, l, r)
<1>1. {l} \subseteq Live(g) /\ {r} \subseteq Live(g) /\ g.nodes[l].to = {r} /\ g.nodes[r].from = {l}
  BY DEF Joinable, Live
<1>2. Roots(g, {l}) = {l} /\ Roots(g, {r}) = {r}
  BY <1>1, RootsOfLive
<1>3. Cardinality({l}) = 1 /\ Cardinality({r}) = 1
  BY FS_Singleton
<1> QED
  BY <1>1, <1>2, <1>3 DEF AreMergableLink

LEMMA CompressStepKeepsBlocks ==
  ASSUME GraphInv, BlockInv, CompressStep
  PROVE  BlockInv'
<1> SUFFICES ASSUME rooted PROVE BlockInv'
  BY DEF CompressStep, BlockInv
<1>1. PICK S, E, first, g, l, r :
        /\ S = Seen /\ E = graph /\ first = PopFirst(queued)
        /\ g = Translated(compressed, {first[1], first[2]})
        /\ l = Root(g.merges, first[1]) /\ r = Root(g.merges, first[2])
  OBVIOUS
<1>2. PICK this, h : this = (IF l < r THEN l ELSE r) /\ h = MergeNodes(g, l, r)
  OBVIOUS
<1>3. /\ IF AreMergableLink(g, l, r)
         THEN compressed' = h /\ queued' = (queued \ {first}) \cup Neighbours(h, this)
         ELSE compressed' = g /\ queued' = queued \ {first}
      /\ rooted' = rooted /\ seen' = seen /\ graph' = graph
  BY <1>1, <1>2, Zenon DEF CompressStep
<1>4. /\ Numbered(S) /\ queued \subseteq S \X S /\ Fits(compressed, S)
      /\ RootedLinks(E, S) /\ seen # 1 /\ StandsFor(compressed.nodes, E)
      /\ \A a, b : Joinable(compressed.nodes, a, b) => <<a, b>> \in queued
  <2>1. seen \in Nat /\ queued \subseteq Seen \X Seen /\ Fits(compressed, Seen)
    BY DEF GraphInv
  <2>2. Numbered(Seen)
    BY <2>1, CountIsNumbered DEF Seen
  <2>3. /\ RootedLinks(graph, Seen) /\ seen # 1 /\ StandsFor(compressed.nodes, graph)
        /\ \A a, b : Joinable(compressed.nodes, a, b) => <<a, b>> \in queued
    BY DEF BlockInv
  <2> QED
    BY <1>1, <2>1, <2>2, <2>3
<1>5. first \in queued /\ first \in S \X S
  <2>1. queued \subseteq Nat \X Nat /\ queued # {}
    BY <1>4 DEF Numbered, CompressStep
  <2>2. first \in queued
    BY <1>1, <2>1, PopFirstIs
  <2> QED
    BY <1>4, <2>2
<1>6. Fits(g, S) /\ g.nodes = compressed.nodes
  BY <1>1, <1>4, TranslatedFits
<1>7. /\ l \in Live(g) /\ r \in Live(g)
      /\ \A a \in Live(g) : Root(g.merges, a) = a
  BY <1>1, <1>4, <1>5, <1>6, RootsInGraph
<1>8. Represents(g, S, E)
  BY <1>4, <1>6 DEF Represents
\* The link just taken is joinable only if it is what is looked at.
<1>9. ASSUME NEW a, NEW b, Joinable(g.nodes, a, b), first = <<a, b>> PROVE l = a /\ r = b
  <2>1. a \in Live(g) /\ b \in Live(g)
    BY <1>9 DEF Joinable, Live
  <2> QED
    BY <1>1, <1>7, <1>9, <2>1
<1>10. CASE ~ AreMergableLink(g, l, r)
  <2>1. ASSUME NEW a, NEW b, Joinable(g.nodes, a, b) PROVE <<a, b>> \in queued'
    <3>1. <<a, b>> \in queued
      BY <1>4, <1>6, <2>1
    <3>2. first # <<a, b>>
      <4> SUFFICES ASSUME first = <<a, b>> PROVE FALSE
        OBVIOUS
      <4>1. l = a /\ r = b
        BY <1>9, <2>1
      <4> QED
        BY <1>4, <1>6, <1>10, <2>1, <4>1, JoinableIsMergable
    <3> QED
      BY <1>3, <1>10, <3>1, <3>2
  <2>2. compressed' = g
    BY <1>3, <1>10
  <2> QED
    BY <1>1, <1>3, <1>4, <1>6, <2>1, <2>2 DEF BlockInv, Seen
<1>11. CASE AreMergableLink(g, l, r)
  <2>1. l # r
    <3> SUFFICES ASSUME l = r PROVE FALSE
      OBVIOUS
    <3>1. Chained(g.nodes, S) /\ S \subseteq Nat /\ l \in DOMAIN g.nodes /\ StandsFor(g.nodes, E)
      BY <1>4, <1>6, <1>7 DEF Fits, Chained, Numbered, Live
    <3>2. g.nodes[l].from # {l}
      BY <1>4, <3>1, NoClosedLoop
    <3>3. g.nodes[l].from \subseteq Live(g)
      BY <3>1 DEF Chained, Mirrored, Live
    <3>4. Roots(g, g.nodes[l].from) = g.nodes[l].from
      BY <1>4, <1>6, <3>3, RootsOfLive
    <3> QED
      BY <1>11, <3>2, <3>4 DEF AreMergableLink
  <2>2. /\ Represents(h, S, E)
        /\ \A a, b : Joinable(h.nodes, a, b) =>
             \/ a = this \/ b = this
             \/ Joinable(g.nodes, a, b) /\ a \notin {l, r} /\ b \notin {l, r}
    BY <1>2, <1>4, <1>7, <1>8, <1>11, <2>1, MergeLinks
  <2>3. compressed' = h /\ queued' = (queued \ {first}) \cup Neighbours(h, this)
    BY <1>3, <1>11
  <2>4. ASSUME NEW a, NEW b, Joinable(h.nodes, a, b) PROVE <<a, b>> \in queued'
    <3>1. CASE a = this \/ b = this
      <4>1. a # b /\ b \in h.nodes[a].to /\ a \in h.nodes[b].from
        BY <2>4 DEF Joinable
      <4>2. <<a, b>> \in EdgesAt(h, this)
        BY <3>1, <4>1 DEF EdgesAt
      <4>3. <<a, b>>[1] = a /\ <<a, b>>[2] = b
        OBVIOUS
      <4>4. <<a, b>> \in Neighbours(h, this)
        BY <4>1, <4>2, <4>3 DEF Neighbours
      <4> QED
        BY <2>3, <4>4
    <3>2. CASE Joinable(g.nodes, a, b) /\ a \notin {l, r} /\ b \notin {l, r}
      <4>1. <<a, b>> \in queued
        BY <1>4, <1>6, <3>2
      <4>2. first # <<a, b>>
        BY <1>9, <3>2
      <4> QED
        BY <2>3, <4>1, <4>2
    <3> QED
      BY <2>2, <2>4, <3>1, <3>2
  <2>5. StandsFor(h.nodes, E)
    BY <2>2 DEF Represents
  <2> QED
    BY <1>1, <1>3, <1>4, <2>3, <2>4, <2>5 DEF BlockInv, Seen
<1> QED
  BY <1>10, <1>11

LEMMA BlocksStay == ASSUME BlockInv, UNCHANGED vars PROVE BlockInv'
  BY DEF BlockInv, vars, Seen

(* Once the queue is empty, nothing is left to join.                       *)
LEMMA SettledIsCompressed ==
  ASSUME GraphInv, BlockInv, rooted, queued = {}
  PROVE  Abstract!IsCompressed(compressed.nodes, graph)
<1>1. seen \in Nat /\ Fits(compressed, Seen)
  BY DEF GraphInv
<1>2. /\ RootedLinks(graph, Seen) /\ seen # 1 /\ StandsFor(compressed.nodes, graph)
      /\ \A l, r : ~ Joinable(compressed.nodes, l, r)
  BY DEF BlockInv
<1>5. Seen \subseteq Nat
  BY <1>1 DEF Seen
<1>3. Seen # {0}
  <2>1. CASE seen = 0
    BY <2>1 DEF Seen
  <2>2. CASE seen # 0
    <3>1. 1 \in 0 .. seen - 1
      BY <1>1, <1>2, <2>2
    <3> QED
      BY <1>1, <3>1 DEF Seen
  <2> QED
    BY <2>1, <2>2
<1>4. Chained(compressed.nodes, Seen)
  BY <1>1 DEF Fits, Chained
<1> QED
  BY <1>2, <1>3, <1>4, <1>5, NothingLeft

-----------------------------------------------------------------------------
(* The refinement: a link is observed, and the end of the loop shows what  *)
(* compressing everything at once would.                                   *)

LEMMA InitiallyShown == ASSUME Init PROVE Abstract!Init
  BY DEF Init, Idle, EmptyGraph, Abstract!Init, Abstract!Showing

LEMMA UpdateObserves ==
  ASSUME BoundsAssumption, Update, rooted => queued' # {}
  PROVE  [Abstract!Next]_(Abstract!vars)
<1>1. rooted' = rooted /\ queued = {}
  BY DEF Update, Idle
<1>2. CASE ~ rooted
  BY <1>1, <1>2 DEF Abstract!vars
<1>3. CASE rooted
  <2>1. PICK from \in SourcesFor(seen) :
          \E to \in TargetsFor(AtLeast(seen, from)) :
            /\ {from, to} \subseteq Ids /\ <<from, to>> \notin graph
            /\ graph' = graph \cup {<<from, to>>}
    BY DEF Update
  <2>2. PICK to : /\ {from, to} \subseteq Ids /\ <<from, to>> \notin graph
                  /\ graph' = graph \cup {<<from, to>>}
    BY <2>1
  <2>3. from \in 0 .. MaxNodes - 1 /\ to \in 0 .. MaxNodes - 1
    BY <1>3, <2>2 DEF Ids
  <2>4. Abstract!Observe(from, to)
    BY <1>1, <1>3, <2>2 DEF Idle, Abstract!Observe, Abstract!Locked
  <2> QED
    BY <2>3, <2>4 DEF Abstract!Next
<1> QED
  BY <1>2, <1>3

LEMMA CompressStepShows ==
  ASSUME CompressStep, GraphInv', BlockInv'
  PROVE  [Abstract!Next]_(Abstract!vars)
<1>1. rooted' = rooted /\ graph' = graph /\ queued # {}
  BY DEF CompressStep
<1>2. CASE ~ rooted
  BY <1>1, <1>2 DEF Abstract!vars
<1>3. CASE rooted /\ queued' # {}
  BY <1>1, <1>3 DEF Idle, Abstract!vars
<1>4. CASE rooted /\ queued' = {}
  <2>1. Abstract!IsCompressed(compressed'.nodes, graph)
    <3>1. (GraphInv /\ BlockInv /\ rooted /\ queued = {}
             => Abstract!IsCompressed(compressed.nodes, graph))'
      BY SettledIsCompressed, PTL
    <3> QED
      BY <1>1, <1>4, <3>1
  <2>2. Abstract!Show
    BY <1>1, <1>4, <2>1 DEF Idle, Abstract!Show, Abstract!Showing
  <2> QED
    BY <2>2 DEF Abstract!Next
<1> QED
  BY <1>2, <1>3, <1>4

LEMMA StaysShown == ASSUME UNCHANGED vars PROVE UNCHANGED Abstract!vars
  BY DEF vars, Idle, Abstract!vars

(* For any number of nodes and links between blocks, in any order: what a  *)
(* reader sees between two updates is what compressing all links observed  *)
(* so far at once would make of them, node by node, chain by chain.        *)
THEOREM IncrementalImplementsFull == Spec => IncrementalIsFull
<1>1. BoundsAssumption
  BY BoundsAssumption DEF BoundsAssumption
<1>2. Init => GraphInv /\ BlockInv
  BY <1>1, InitiallyGraph, InitiallyBlocks
<1>3. GraphInv /\ BlockInv /\ [Next]_vars => (GraphInv /\ BlockInv)'
  BY <1>1, UpdateKeepsGraph, CompressStepKeepsGraph, GraphStays,
     UpdateKeepsBlocks, CompressStepKeepsBlocks, BlocksStay DEF Next
<1>4. Init => Abstract!Init
  BY InitiallyShown
<1>5. GraphInv /\ BlockInv /\ GraphInv' /\ BlockInv' /\ [Next]_vars
        => [Abstract!Next]_(Abstract!vars)
  BY <1>1, UpdateKeepsBlocks, UpdateObserves, CompressStepShows, StaysShown DEF Next
<1> QED
  BY <1>2, <1>3, <1>4, <1>5, PTL DEF Spec, IncrementalIsFull, Abstract!Spec

-----------------------------------------------------------------------------
(* How many nodes a compressed graph has.                                  *)

Heads(N) == {HeadOf(N, n) : n \in DOMAIN N}

\* Nodes and their first members.
LEMMA OneHeadEach ==
  ASSUME NEW S, NEW N, Chained(N, S), IsFiniteSet(DOMAIN N)
  PROVE  IsFiniteSet(Heads(N)) /\ Cardinality(Heads(N)) = Cardinality(DOMAIN N)
<1> DEFINE f == [n \in DOMAIN N |-> HeadOf(N, n)]
<1>1. f \in [DOMAIN N -> Heads(N)]
  BY DEF Heads
<1>2. \A m, n \in DOMAIN N : f[m] = f[n] => m = n
  BY EndsAreHeld
<1>3. \A h \in Heads(N) : \E n \in DOMAIN N : f[n] = h
  BY DEF Heads
<1>4. f \in Bijection(DOMAIN N, Heads(N))
  BY <1>1, <1>2, <1>3 DEF Bijection, Injection, Surjection, IsInjective
<1> QED
  BY <1>4, FS_Bijection DEF ExistsBijection

\* Every other member and the contracted link to it.
LEMMA OneLinkEach ==
  ASSUME NEW S, NEW N, Chained(N, S), NEW E, Full!IsCompressed(N, E), IsFiniteSet(Full!Links(E)),
         E \subseteq S \X S
  PROVE  Cardinality(Full!Ends(E) \ Heads(N)) = Cardinality(Full!Links(E))
<1> DEFINE L == Full!Links(E)
           T == Full!Ends(E) \ Heads(N)
           f == [e \in L |-> e[2]]
<1>1. \A n \in DOMAIN N : /\ Len(N[n].of) \in Nat /\ Len(N[n].of) >= 1
                          /\ \A i, j \in 1 .. Len(N[n].of) : N[n].of[i] = N[n].of[j] => i = j
  BY ChainIs DEF Chained, HoldsChains
<1>2. \A m, n \in DOMAIN N : \A i \in 1 .. Len(N[m].of) : \A j \in 1 .. Len(N[n].of) :
        N[m].of[i] = N[n].of[j] => m = n
  <2> SUFFICES ASSUME NEW m \in DOMAIN N, NEW n \in DOMAIN N, NEW i \in 1 .. Len(N[m].of),
                      NEW j \in 1 .. Len(N[n].of), N[m].of[i] = N[n].of[j]
               PROVE  m = n
    OBVIOUS
  <2>1. N[m].of[i] \in Full!Members(N[m]) /\ N[m].of[i] \in Full!Members(N[n])
    BY DEF Full!Members
  <2>2. Full!Members(N[m]) \cap Full!Members(N[n]) # {}
    BY <2>1
  <2> QED
    BY <2>2 DEF Full!IsCompressed, Full!InChains
<1>3. \A x : x \in Full!Ends(E) <=> \E n \in DOMAIN N : \E i \in 1 .. Len(N[n].of) : x = N[n].of[i]
  <2> SUFFICES ASSUME NEW x
               PROVE  x \in Full!Ends(E) <=>
                        \E n \in DOMAIN N : \E i \in 1 .. Len(N[n].of) : x = N[n].of[i]
    OBVIOUS
  <2>1. x \in Full!Ends(E) <=> \E n \in DOMAIN N : x \in Full!Members(N[n])
    BY DEF Full!IsCompressed, Full!InChains
  <2>2. \A n \in DOMAIN N : x \in Full!Members(N[n]) <=> \E i \in 1 .. Len(N[n].of) : x = N[n].of[i]
    BY DEF Full!Members
  <2> QED
    BY <2>1, <2>2, Zenon
<1>4. \A e : e \in L <=>
        \E n \in DOMAIN N : \E i \in 1 .. Len(N[n].of) - 1 : e = <<N[n].of[i], N[n].of[i + 1]>>
  <2> SUFFICES ASSUME NEW e
               PROVE  e \in L <=> \E n \in DOMAIN N : \E i \in 1 .. Len(N[n].of) - 1 :
                                    e = <<N[n].of[i], N[n].of[i + 1]>>
    OBVIOUS
  <2>1. e \in L <=> \E n \in DOMAIN N : e \in Full!Steps(N[n])
    BY DEF Full!IsCompressed, Full!Contracted
  <2>2. \A n \in DOMAIN N :
          e \in Full!Steps(N[n]) <=>
            \E i \in 1 .. Len(N[n].of) - 1 : e = <<N[n].of[i], N[n].of[i + 1]>>
    BY DEF Full!Steps
  <2> QED
    BY <2>1, <2>2, Zenon
<1>5. ASSUME NEW e \in L PROVE e[2] \in T
  <2>0. PICK n \in DOMAIN N :
          \E i \in 1 .. Len(N[n].of) - 1 : e = <<N[n].of[i], N[n].of[i + 1]>>
    BY <1>4
  <2>1. PICK i \in 1 .. Len(N[n].of) - 1 : e = <<N[n].of[i], N[n].of[i + 1]>>
    BY <2>0
  <2>2. i + 1 \in 1 .. Len(N[n].of) /\ i + 1 # 1 /\ e[2] = N[n].of[i + 1]
    BY <1>1, <2>1
  <2>3. ASSUME NEW m \in DOMAIN N, N[m].of[1] = e[2] PROVE FALSE
    <3>1. 1 \in 1 .. Len(N[m].of)
      BY <1>1
    <3>2. m = n
      BY <1>2, <2>2, <2>3, <3>1
    <3> QED
      BY <1>1, <2>2, <2>3, <3>1, <3>2
  <2> QED
    BY <1>3, <2>2, <2>3 DEF Heads, HeadOf
<1>6. ASSUME NEW e \in L, NEW d \in L, e[2] = d[2] PROVE e = d
  <2>1. e \in S \X S /\ d \in S \X S
    BY DEF Full!Links
  <2>2. Full!Predecessors(E, e[2]) = {e[1]} /\ Full!Predecessors(E, d[2]) = {d[1]}
    BY DEF Full!Links
  <2>3. e[1] = d[1]
    BY <1>6, <2>2
  <2> QED
    BY <1>6, <2>1, <2>3
<1>7. ASSUME NEW x \in T PROVE \E e \in L : e[2] = x
  <2>0. PICK n \in DOMAIN N : \E i \in 1 .. Len(N[n].of) : x = N[n].of[i]
    BY <1>3
  <2>1. PICK i \in 1 .. Len(N[n].of) : x = N[n].of[i]
    BY <2>0
  <2>2. i # 1
    BY <2>1 DEF Heads, HeadOf
  <2>3. i - 1 \in 1 .. Len(N[n].of) - 1 /\ (i - 1) + 1 = i
    BY <1>1, <2>2
  <2>4. <<N[n].of[i - 1], x>> \in L
    BY <1>4, <2>1, <2>3
  <2> QED
    BY <2>4
<1>8. f \in Bijection(L, T)
  BY <1>5, <1>6, <1>7 DEF Bijection, Injection, Surjection, IsInjective
<1> QED
  BY <1>8, FS_Bijection DEF ExistsBijection

LEMMA CompressedCount ==
  ASSUME NEW S, NEW N, Chained(N, S), NEW E, E \subseteq S \X S, IsFiniteSet(S),
         Full!IsCompressed(N, E)
  PROVE  Cardinality(DOMAIN N) = Cardinality(Full!Ends(E)) - Cardinality(Full!Links(E))
<1>1. Full!Ends(E) \subseteq S /\ IsFiniteSet(Full!Ends(E))
  <2>1. Full!Ends(E) \subseteq S
    BY DEF Full!Ends
  <2> QED
    BY <2>1, FS_Subset
<1>2. IsFiniteSet(E) /\ IsFiniteSet(Full!Links(E))
  <2>1. IsFiniteSet(S \X S)
    BY FS_Product
  <2>2. Full!Links(E) \subseteq S \X S
    BY DEF Full!Links
  <2> QED
    BY <2>1, <2>2, FS_Subset
<1>3. DOMAIN N \subseteq Full!Ends(E) /\ IsFiniteSet(DOMAIN N)
  <2>1. DOMAIN N \subseteq Full!Ends(E)
    BY DEF Full!IsCompressed, Full!InChains
  <2> QED
    BY <1>1, <2>1, FS_Subset
<1>4. Heads(N) \subseteq Full!Ends(E)
  <2> SUFFICES ASSUME NEW n \in DOMAIN N PROVE HeadOf(N, n) \in Full!Ends(E)
    BY DEF Heads
  <2>1. 1 \in 1 .. Len(N[n].of)
    BY ChainIs DEF Chained, HoldsChains
  <2>2. HeadOf(N, n) \in Full!Members(N[n])
    BY <2>1 DEF HeadOf, Full!Members
  <2> QED
    BY <2>2 DEF Full!IsCompressed, Full!InChains
<1>5. /\ Cardinality(Full!Ends(E) \ Heads(N)) = Cardinality(Full!Links(E))
      /\ IsFiniteSet(Heads(N)) /\ Cardinality(Heads(N)) = Cardinality(DOMAIN N)
  BY <1>2, <1>3, OneHeadEach, OneLinkEach
<1>6. Full!Ends(E) \cap Heads(N) = Heads(N)
  BY <1>4
<1>7. Cardinality(Full!Ends(E) \ Heads(N)) = Cardinality(Full!Ends(E)) - Cardinality(Heads(N))
  BY <1>1, <1>6, FS_Difference
<1>8. Cardinality(Full!Ends(E)) \in Nat /\ Cardinality(DOMAIN N) \in Nat
  BY <1>1, <1>3, FS_CardinalityType
<1> QED
  BY <1>5, <1>7, <1>8

(* A new link between blocks has a new end, or is not contracted.          *)
LEMMA LinkNeverShrinks ==
  ASSUME NEW S, NEW E, RootedLinks(E, S), NEW T, IsFiniteSet(T),
         NEW from \in T, NEW to \in T, to # 0, E \subseteq T \X T, <<from, to>> \notin E,
         NEW F, F = E \cup {<<from, to>>}
  PROVE  Cardinality(Full!Ends(F)) - Cardinality(Full!Links(F))
           >= Cardinality(Full!Ends(E)) - Cardinality(Full!Links(E))
<1> DEFINE new == <<from, to>>
<1>1. \A x, y : <<x, y>> \in F <=> <<x, y>> \in E \/ (x = from /\ y = to)
  OBVIOUS
<1>2. F \subseteq T \X T
  OBVIOUS
<1>3. IsFiniteSet(Full!Ends(F)) /\ IsFiniteSet(Full!Links(F)) /\ IsFiniteSet(Full!Links(E))
  <2>1. Full!Ends(F) \subseteq T
    BY <1>2 DEF Full!Ends
  <2>2. Full!Links(F) \subseteq T \X T /\ Full!Links(E) \subseteq T \X T
    BY <1>2 DEF Full!Links
  <2>3. IsFiniteSet(T \X T)
    BY FS_Product
  <2> QED
    BY <2>1, <2>2, <2>3, FS_Subset
<1>4. Full!Ends(E) \subseteq Full!Ends(F)
  BY DEF Full!Ends
<1>5. Full!Links(F) \subseteq Full!Links(E) \cup {new}
  <2> SUFFICES ASSUME NEW e \in Full!Links(F), e # new PROVE e \in Full!Links(E)
    OBVIOUS
  <2>1. /\ e \in E /\ e = <<e[1], e[2]>>
        /\ Full!Successors(F, e[1]) = {e[2]} /\ Full!Predecessors(F, e[2]) = {e[1]}
    BY <1>2 DEF Full!Links
  <2>2. e[1] # from
    <3> SUFFICES ASSUME e[1] = from PROVE FALSE
      OBVIOUS
    <3>1. to \in Full!Successors(F, e[1])
      BY DEF Full!Successors
    <3> QED
      BY <2>1, <3>1
  <2>3. e[2] # to
    <3> SUFFICES ASSUME e[2] = to PROVE FALSE
      OBVIOUS
    <3>1. from \in Full!Predecessors(F, e[2])
      BY DEF Full!Predecessors
    <3> QED
      BY <2>1, <3>1
  <2>4. Full!Successors(E, e[1]) = Full!Successors(F, e[1])
    BY <2>2 DEF Full!Successors
  <2>5. Full!Predecessors(E, e[2]) = Full!Predecessors(F, e[2])
    BY <2>3 DEF Full!Predecessors
  <2> QED
    BY <2>1, <2>4, <2>5 DEF Full!Links
<1>6. CASE new \notin Full!Links(F)
  <2>1. Full!Links(F) \subseteq Full!Links(E)
    BY <1>5, <1>6
  <2>2. /\ Cardinality(Full!Links(F)) <= Cardinality(Full!Links(E))
        /\ Cardinality(Full!Ends(E)) <= Cardinality(Full!Ends(F))
    BY <1>3, <1>4, <2>1, FS_Subset
  <2>3. /\ Cardinality(Full!Links(F)) \in Nat /\ Cardinality(Full!Links(E)) \in Nat
        /\ Cardinality(Full!Ends(E)) \in Nat /\ Cardinality(Full!Ends(F)) \in Nat
    BY <1>3, <1>4, FS_Subset, FS_CardinalityType
  <2> QED
    BY <2>2, <2>3
<1>7. CASE new \in Full!Links(F)
  <2>1. to \notin Full!Ends(E)
    <3> SUFFICES ASSUME to \in Full!Ends(E) PROVE FALSE
      OBVIOUS
    <3>1. to \in S \ {0}
      BY DEF Full!Ends, RootedLinks
    <3>2. PICK x : <<x, to>> \in E
      BY <3>1 DEF RootedLinks
    <3>3. x \in Full!Predecessors(F, to)
      BY <3>2 DEF Full!Predecessors
    <3>4. Full!Predecessors(F, to) = {from}
      BY <1>7 DEF Full!Links
    <3> QED
      BY <3>2, <3>3, <3>4
  <2>2. Full!Ends(E) \cup {to} \subseteq Full!Ends(F)
    BY <1>4 DEF Full!Ends
  <2>3. IsFiniteSet(Full!Ends(E)) /\ IsFiniteSet(Full!Ends(E) \cup {to})
    BY <1>3, <1>4, <2>2, FS_Subset
  <2>4. Cardinality(Full!Ends(E) \cup {to}) = Cardinality(Full!Ends(E)) + 1
    BY <2>1, <2>3, FS_AddElement
  <2>5. Cardinality(Full!Ends(E) \cup {to}) <= Cardinality(Full!Ends(F))
    BY <1>3, <2>2, FS_Subset
  <2>6. IsFiniteSet(Full!Links(E) \cup {new})
        /\ Cardinality(Full!Links(E) \cup {new}) <= Cardinality(Full!Links(E)) + 1
    <3>1. Cardinality(Full!Links(E)) \in Nat
      BY <1>3, FS_CardinalityType
    <3>2. PICK one : one = new
      OBVIOUS
    <3>3. /\ IsFiniteSet(Full!Links(E) \cup {one})
          /\ Cardinality(Full!Links(E) \cup {one}) <= Cardinality(Full!Links(E)) + 1
      <4>1. PICK M : M = Full!Links(E)
        OBVIOUS
      <4>2. IsFiniteSet(M) /\ Cardinality(M) \in Nat
        BY <1>3, <3>1, <4>1
      <4>3. /\ IsFiniteSet(M \cup {one})
            /\ Cardinality(M \cup {one}) = IF one \in M THEN Cardinality(M) ELSE Cardinality(M) + 1
        BY <4>2, FS_AddElement
      <4> QED
        BY <4>1, <4>2, <4>3
    <3> QED
      BY <3>2, <3>3
  <2>7. Cardinality(Full!Links(F)) <= Cardinality(Full!Links(E) \cup {new})
    BY <1>5, <2>6, FS_Subset
  <2>8. /\ Cardinality(Full!Links(F)) \in Nat /\ Cardinality(Full!Links(E)) \in Nat
        /\ Cardinality(Full!Links(E) \cup {new}) \in Nat
        /\ Cardinality(Full!Ends(E)) \in Nat /\ Cardinality(Full!Ends(F)) \in Nat
    BY <1>3, <2>3, <2>6, FS_CardinalityType
  <2> QED
    BY <2>4, <2>5, <2>6, <2>7, <2>8
<1> QED
  BY <1>6, <1>7

-----------------------------------------------------------------------------
(* While a link is being inserted, all links but that one form a rooted    *)
(* graph as well.                                                          *)

InsertInv ==
  rooted =>
    /\ queued = {} => inserting = {}
    /\ queued # {} => \E from, to : /\ inserting = {<<from, to>>}
                                    /\ <<from, to>> \in graph
    /\ \E S : RootedLinks(Settled, S)

LEMMA InitiallyInserting == ASSUME Init PROVE InsertInv
<1>1. RootedLinks({}, {})
  BY DEF RootedLinks
<1>2. Settled = {}
  BY DEF Init, Settled
<1> QED
  BY <1>1, <1>2 DEF Init, InsertInv

LEMMA InsertingStays == ASSUME InsertInv, UNCHANGED vars PROVE InsertInv'
  BY DEF vars, InsertInv, Settled

LEMMA UpdateInserts ==
  ASSUME BlockInv, InsertInv, Update, rooted => queued' # {}
  PROVE  InsertInv' /\ (rooted => Settled' = graph /\ queued = {} /\ queued' # {})
<1>1. rooted' = rooted /\ queued = {}
  BY DEF Update, Idle
<1> SUFFICES ASSUME rooted
             PROVE  InsertInv' /\ Settled' = graph
  BY <1>1 DEF InsertInv
<1>2. PICK from \in SourcesFor(seen) :
        \E to \in TargetsFor(AtLeast(seen, from)) :
          /\ <<from, to>> \notin graph
          /\ graph' = graph \cup {<<from, to>>}
          /\ inserting' = {<<from, to>>}
  BY DEF Update
<1>3. PICK to : /\ <<from, to>> \notin graph
                /\ graph' = graph \cup {<<from, to>>}
                /\ inserting' = {<<from, to>>}
  BY <1>2
<1>4. Settled' = graph
  BY <1>3 DEF Settled
<1>5. RootedLinks(graph, Seen)
  BY DEF BlockInv
<1> QED
  BY <1>1, <1>3, <1>4, <1>5 DEF InsertInv

LEMMA StepKeepsInserting ==
  ASSUME BlockInv, InsertInv, CompressStep
  PROVE  InsertInv' /\ (rooted => Settled' = IF queued' = {} THEN graph ELSE Settled)
<1>1. /\ rooted' = rooted /\ graph' = graph /\ queued # {}
      /\ inserting' = IF queued' = {} THEN {} ELSE inserting
  BY DEF CompressStep
<1>2. CASE ~ rooted
  BY <1>1, <1>2 DEF InsertInv
<1>3. CASE rooted /\ queued' # {}
  BY <1>1, <1>3 DEF InsertInv, Settled
<1>4. CASE rooted /\ queued' = {}
  <2>1. RootedLinks(graph, Seen) /\ Settled' = graph /\ inserting' = {}
    BY <1>1, <1>4 DEF BlockInv, Settled
  <2> QED
    BY <1>1, <1>4, <2>1 DEF InsertInv
<1> QED
  BY <1>2, <1>3, <1>4

-----------------------------------------------------------------------------
(* What is shown is counted from the settled links.                        *)

ChainCount(E) == Cardinality(Full!Ends(E)) - Cardinality(Full!Links(E))

LEMMA ShownCountIs ==
  ASSUME GraphInv, BlockInv, InsertInv, rooted
  PROVE  ShownCount = ChainCount(Settled) /\ ShownCount \in Int
<1>1. /\ seen \in Nat /\ Fits(compressed, Seen) /\ RootedLinks(graph, Seen)
  BY DEF GraphInv, BlockInv
<1>2. IsFiniteSet(Seen)
  BY <1>1, FS_Interval DEF Seen
<1>3. graph \subseteq Seen \X Seen /\ Settled \subseteq Seen \X Seen
  BY <1>1 DEF RootedLinks, Settled
<1>4. ChainCount(Settled) \in Int
  <2>1. Full!Ends(Settled) \subseteq Seen /\ Full!Links(Settled) \subseteq Seen \X Seen
    BY <1>3 DEF Full!Ends, Full!Links
  <2>2. IsFiniteSet(Full!Ends(Settled)) /\ IsFiniteSet(Full!Links(Settled))
    BY <1>2, <2>1, FS_Subset, FS_Product
  <2>3. Cardinality(Full!Ends(Settled)) \in Nat /\ Cardinality(Full!Links(Settled)) \in Nat
    BY <2>2, FS_CardinalityType
  <2> QED
    BY <2>3 DEF ChainCount
<1>5. CASE queued # {}
  BY <1>4, <1>5 DEF ShownCount, Idle, ChainCount
<1>6. CASE queued = {}
  <2>1. Settled = graph
    BY <1>6 DEF Settled, InsertInv
  <2>2. Abstract!IsCompressed(compressed.nodes, graph)
    BY <1>6, SettledIsCompressed
  <2>3. Full!IsCompressed(compressed.nodes, graph)
    BY <2>2 DEF Abstract!IsCompressed, Full!IsCompressed, Abstract!InChains, Full!InChains,
                Abstract!Contracted, Full!Contracted, Abstract!Linked, Full!Linked,
                Abstract!Members, Full!Members, Abstract!Steps, Full!Steps,
                Abstract!Ends, Full!Ends, Abstract!Links, Full!Links,
                Abstract!Successors, Full!Successors, Abstract!Predecessors, Full!Predecessors
  <2>4. Chained(compressed.nodes, Seen)
    BY <1>1 DEF Fits, Chained
  <2>5. Cardinality(Live(compressed)) = ChainCount(graph)
    BY <1>2, <1>3, <2>3, <2>4, CompressedCount DEF Live, ChainCount
  <2> QED
    BY <1>4, <1>6, <2>1, <2>5 DEF ShownCount, Idle
<1> QED
  BY <1>5, <1>6

\* The end of an update.
LEMMA SettlingNeverShrinks ==
  ASSUME GraphInv, BlockInv, InsertInv, rooted, queued # {}
  PROVE  ChainCount(graph) >= ChainCount(Settled)
<1>1. seen \in Nat /\ RootedLinks(graph, Seen)
  BY DEF GraphInv, BlockInv
<1>2. IsFiniteSet(Seen)
  BY <1>1, FS_Interval DEF Seen
<1>3. PICK S : RootedLinks(Settled, S)
  BY DEF InsertInv
<1>4. PICK from, to : inserting = {<<from, to>>} /\ <<from, to>> \in graph
  BY DEF InsertInv
<1>5. PICK E : E = Settled
  OBVIOUS
<1>6. /\ graph = E \cup {<<from, to>>} /\ <<from, to>> \notin E
      /\ from \in Seen /\ to \in Seen /\ to # 0 /\ E \subseteq Seen \X Seen
  BY <1>1, <1>4, <1>5 DEF Settled, RootedLinks
<1> QED
  BY <1>2, <1>3, <1>5, <1>6, LinkNeverShrinks DEF ChainCount

(* For any number of nodes and links between blocks, in any order: a link  *)
(* never leaves fewer compressed nodes than there were, so that an index   *)
(* into the nodes of one frame is good for the next.                       *)
THEOREM NothingShownIsLost == Spec => ShownNeverShrinks
<1>1. BoundsAssumption
  BY BoundsAssumption DEF BoundsAssumption
<1> DEFINE Inv == GraphInv /\ BlockInv /\ InsertInv
<1>2. Init => Inv
  BY <1>1, InitiallyGraph, InitiallyBlocks, InitiallyInserting
<1>3. Inv /\ [Next]_vars => Inv'
  BY <1>1, UpdateKeepsGraph, CompressStepKeepsGraph, GraphStays, UpdateKeepsBlocks,
     CompressStepKeepsBlocks, BlocksStay, UpdateInserts, StepKeepsInserting, InsertingStays
     DEF Next
<1>4. Inv /\ Inv' /\ [Next]_vars => [rooted => ShownCount' >= ShownCount]_vars
  <2> SUFFICES ASSUME Inv, Inv', Next, rooted PROVE ShownCount' >= ShownCount
    OBVIOUS
  <2>1. ShownCount = ChainCount(Settled) /\ ShownCount \in Int
    BY ShownCountIs
  <2>2. rooted'
    BY DEF Next, Update, CompressStep
  <2>3. ShownCount' = ChainCount(Settled') /\ ShownCount' \in Int
    <3>1. (Inv /\ rooted => ShownCount = ChainCount(Settled) /\ ShownCount \in Int)'
      BY ShownCountIs, PTL
    <3> QED
      BY <2>2, <3>1 DEF ChainCount
  <2>4. CASE Settled' = Settled
    BY <2>1, <2>3, <2>4
  <2>5. CASE Update
    <3>1. rooted => queued' # {}
      BY <1>1, <2>5, UpdateKeepsBlocks
    <3>2. Settled' = graph /\ queued = {}
      BY <2>5, <3>1, UpdateInserts
    <3> QED
      BY <2>4, <3>2 DEF InsertInv, Settled
  <2>6. CASE CompressStep /\ Settled' # Settled
    <3>1. Settled' = graph /\ queued # {}
      BY <2>6, StepKeepsInserting DEF CompressStep
    <3> QED
      BY <2>1, <2>3, <3>1, SettlingNeverShrinks
  <2> QED
    BY <2>4, <2>5, <2>6 DEF Next
<1> QED
  BY <1>2, <1>3, <1>4, PTL DEF Spec, ShownNeverShrinks

-----------------------------------------------------------------------------
(* Compressing all at once is a fold over the links to merge: all but the  *)
(* last, then the last.                                                    *)

LEMMA GreatestNumber ==
  ASSUME NEW b \in Nat, NEW T, T \subseteq 0 .. b, T # {}
  PROVE  \E n \in T : \A m \in T : m <= n
<1> DEFINE U == {k \in 0 .. b : b - k \in T}
<1>1. U \subseteq Nat /\ U # {}
  <2>1. PICK n \in T : TRUE
    OBVIOUS
  <2>2. n \in 0 .. b
    BY <2>1
  <2>3. PICK k : k = b - n
    OBVIOUS
  <2>4. k \in 0 .. b /\ b - k = n
    BY <2>2, <2>3
  <2>5. k \in U
    BY <2>1, <2>4
  <2>6. U \subseteq Nat
    OBVIOUS
  <2> HIDE DEF U
  <2> QED
    BY <2>5, <2>6
<1>2. PICK k \in U : \A j \in U : k <= j
  <2> HIDE DEF U
  <2> QED
    BY <1>1, LeastNumber
<1>3. ASSUME NEW m \in T PROVE m <= b - k
  <2>1. m \in 0 .. b /\ b - m \in 0 .. b /\ b - (b - m) = m
    OBVIOUS
  <2>2. k <= b - m /\ k \in 0 .. b
    BY <1>2, <2>1
  <2> QED
    BY <2>1, <2>2
<1> QED
  BY <1>2, <1>3

LEMMA LastIsOne ==
  ASSUME NEW b \in Nat, NEW E, E \subseteq (0 .. b) \X (0 .. b), E # {}
  PROVE  LastOf(E) \in E
<1> DEFINE Final(e) == \A o \in E : o = e \/ LeastFirst(o, e)
           L == {e[1] : e \in E}
<1>1. \A e \in E : e[1] \in 0 .. b /\ e[2] \in 0 .. b /\ e = <<e[1], e[2]>>
  OBVIOUS
<1>2. PICK l \in L : \A k \in L : k <= l
  <2>1. L \subseteq 0 .. b /\ L # {}
    BY <1>1
  <2> HIDE DEF L
  <2> QED
    BY <2>1, GreatestNumber
<1> DEFINE R == {e[2] : e \in {o \in E : o[1] = l}}
<1>3. PICK r \in R : \A k \in R : k <= r
  <2>1. R \subseteq 0 .. b /\ R # {}
    BY <1>1
  <2> HIDE DEF R
  <2> QED
    BY <2>1, GreatestNumber
<1>4. PICK e \in E : e[1] = l /\ e[2] = r
  OBVIOUS
<1>5. Final(e)
  <2>1. ASSUME NEW o \in E, o # e PROVE LeastFirst(o, e)
    <3>1. o[1] <= l /\ l \in 0 .. b /\ o[1] \in 0 .. b
      BY <1>1, <1>2
    <3>2. o[1] = l => o[2] <= r
      BY <1>3
    <3>3. o[2] \in 0 .. b /\ r \in 0 .. b
      BY <1>1, <1>4
    <3>4. o[1] # l \/ o[2] # r
      BY <1>1, <1>4, <2>1
    <3> QED
      BY <1>4, <3>1, <3>2, <3>3, <3>4 DEF LeastFirst
  <2> QED
    BY <2>1
<1>6. LastOf(E) = CHOOSE d \in E : Final(d)
  BY DEF LastOf
<1> HIDE DEF Final
<1> QED
  BY <1>5, <1>6

Rest(E) == E \ {LastOf(E)}

\* F folds every set of links in D.
IsFold(F, D, g) == F = [E \in D |-> IF E = {} THEN g ELSE MergedAlong(F[Rest(E)], LastOf(E))]

LEMMA FoldExists ==
  ASSUME NEW b \in Nat, NEW T, T \subseteq (0 .. b) \X (0 .. b), IsFiniteSet(T), NEW g
  PROVE  \E F : IsFold(F, SUBSET T, g)
<1> DEFINE AtMost(n) == {E \in SUBSET T : Cardinality(E) <= n}
           N == {n \in Nat : \E F : IsFold(F, AtMost(n), g)}
<1>1. \A E \in SUBSET T : IsFiniteSet(E) /\ Cardinality(E) \in Nat
  BY FS_Subset, FS_CardinalityType
<1>2. 0 \in N
  <2>1. \A E \in AtMost(0) : E = {}
    BY <1>1, FS_EmptySet
  <2>2. PICK F : F = [E \in AtMost(0) |-> g]
    OBVIOUS
  <2>3. F = [E \in AtMost(0) |-> IF E = {} THEN g ELSE MergedAlong(F[Rest(E)], LastOf(E))]
    BY <2>1, <2>2
  <2> QED
    BY <2>3 DEF IsFold
<1>3. ASSUME NEW n \in Nat, n \in N PROVE n + 1 \in N
  <2>1. PICK F : IsFold(F, AtMost(n), g)
    BY <1>3
  <2>2. PICK G : G = [E \in AtMost(n + 1) |-> IF E = {} THEN g ELSE MergedAlong(F[Rest(E)], LastOf(E))]
    OBVIOUS
  <2>3. ASSUME NEW E \in AtMost(n + 1), E # {} PROVE G[Rest(E)] = F[Rest(E)]
    <3>1. LastOf(E) \in E
      BY <2>3, LastIsOne
    <3>2. PICK e : e = LastOf(E)
      OBVIOUS
    <3>3. Rest(E) \in SUBSET T /\ Rest(E) = E \ {e} /\ e \in E
      BY <3>1, <3>2 DEF Rest
    <3>4. Cardinality(Rest(E)) = Cardinality(E) - 1
      BY <1>1, <3>3, FS_RemoveElement
    <3>5. Rest(E) \in AtMost(n) /\ Rest(E) \in AtMost(n + 1)
      BY <1>1, <3>3, <3>4
    <3>6. PICK r : r = Rest(E)
      OBVIOUS
    <3>7. G[r] = IF r = {} THEN g ELSE MergedAlong(F[Rest(r)], LastOf(r))
      BY <2>2, <3>5, <3>6
    <3>8. F[r] = IF r = {} THEN g ELSE MergedAlong(F[Rest(r)], LastOf(r))
      BY <2>1, <3>5, <3>6 DEF IsFold
    <3> QED
      BY <3>6, <3>7, <3>8
  <2>4. G = [E \in AtMost(n + 1) |-> IF E = {} THEN g ELSE MergedAlong(G[Rest(E)], LastOf(E))]
    BY <2>2, <2>3
  <2>5. IsFold(G, AtMost(n + 1), g)
    BY <2>4 DEF IsFold
  <2>6. n + 1 \in Nat
    OBVIOUS
  <2> HIDE DEF AtMost
  <2> QED
    BY <2>5, <2>6
<1>4. Cardinality(T) \in N
  <2> HIDE DEF N
  <2>1. Nat \subseteq N
    BY <1>2, <1>3, Induction
  <2> QED
    BY <1>1, <2>1
<1>5. AtMost(Cardinality(T)) = SUBSET T
  BY FS_Subset
<1> QED
  BY <1>4, <1>5

LEMMA CompressFolds ==
  ASSUME NEW b \in Nat, NEW g, NEW T, T = ToMerge(g), T \subseteq (0 .. b) \X (0 .. b), IsFiniteSet(T)
  PROVE  \E F : IsFold(F, SUBSET T, g) /\ Compress(g) = F[T]
<1>1. PICK F : F = CHOOSE f : IsFold(f, SUBSET T, g)
  OBVIOUS
<1>2. IsFold(F, SUBSET T, g)
  BY <1>1, FoldExists
<1>3. Compress(g) = F[T]
  BY <1>1 DEF Compress, MapThenFoldSet, IsFold, Rest
<1> QED
  BY <1>2, <1>3

-----------------------------------------------------------------------------
(* Where merges lead to, while nothing is cut.                             *)

LEMMA RootSteps ==
  ASSUME NEW S, Numbered(S), NEW m, Descends(m, S), NEW k \in S
  PROVE  Root(m, k) = IF k \in DOMAIN m THEN Root(m, m[k]) ELSE k
<1>1. PICK f : /\ f = [j \in Nat |-> IF j \in DOMAIN m THEN f[m[j]] ELSE j]
               /\ \A j \in Nat : Root(m, j) = f[j]
  BY RootExists
<1>2. k \in Nat /\ (k \in DOMAIN m => m[k] \in Nat)
  BY DEF Numbered, Descends
<1>3. f[k] = IF k \in DOMAIN m THEN f[m[k]] ELSE k
  BY <1>1, <1>2
<1> QED
  BY <1>1, <1>2, <1>3

\* There is one way to lead every id on to its end.
LEMMA RootFollows ==
  ASSUME NEW S, Numbered(S), NEW m, Descends(m, S), NEW R,
         \A k \in S : R[k] = IF k \in DOMAIN m THEN R[m[k]] ELSE k
  PROVE  \A k \in S : Root(m, k) = R[k]
<1> DEFINE T == {n \in Nat : \A k \in S : k < n => Root(m, k) = R[k]}
<1>1. S \subseteq Nat /\ \A k \in DOMAIN m : m[k] \in S /\ m[k] < k
  BY DEF Numbered, Descends
<1>2. 0 \in T
  BY <1>1
<1>3. ASSUME NEW n \in Nat, n \in T PROVE n + 1 \in T
  <2> SUFFICES ASSUME NEW k \in S, k < n + 1 PROVE Root(m, k) = R[k]
    OBVIOUS
  <2>1. Root(m, k) = IF k \in DOMAIN m THEN Root(m, m[k]) ELSE k
    BY RootSteps
  <2>2. k \in DOMAIN m => m[k] \in S /\ m[k] < n
    BY <1>1
  <2>3. k \in DOMAIN m => Root(m, m[k]) = R[m[k]]
    BY <1>3, <2>2
  <2> QED
    BY <2>1, <2>3
<1>4. Nat \subseteq T
  <2> HIDE DEF T
  <2> QED
    BY <1>2, <1>3, Induction
<1>5. ASSUME NEW k \in S PROVE Root(m, k) = R[k]
  <2>1. k + 1 \in T /\ k < k + 1
    BY <1>1, <1>4
  <2> QED
    BY <2>1
<1> QED
  BY <1>5

LEMMA MergesDescend ==
  ASSUME NEW S, NEW g, Fits(g, S) PROVE Descends(g.merges, S) /\ DOMAIN g.merges = S \ Live(g)
  BY DEF Fits, MergesFit, Descends

LEMMA TranslatedRoots ==
  ASSUME NEW S, Numbered(S), NEW g, Fits(g, S), NEW K
  PROVE  \A k \in S : Root(Translated(g, K).merges, k) = Root(g.merges, k)
<1>1. PICK m, h : m = g.merges /\ h = Translated(g, K)
  OBVIOUS
<1>2. PICK met : h.merges = [k \in DOMAIN m |-> IF k \in met THEN Root(m, k) ELSE m[k]]
  <2>1. PICK N : g = [nodes |-> N, merges |-> m]
    BY <1>1 DEF Fits, IsGraph
  <2> QED
    BY <1>1, <2>1 DEF Translated, Shortened
<1>3. Descends(m, S) /\ Descends(h.merges, S)
  BY <1>1, TranslatedFits, MergesDescend
<1> DEFINE R == [k \in S |-> Root(m, k)]
<1>4. \A k \in S : R[k] = IF k \in DOMAIN h.merges THEN R[h.merges[k]] ELSE k
  <2> SUFFICES ASSUME NEW k \in S PROVE R[k] = IF k \in DOMAIN h.merges THEN R[h.merges[k]] ELSE k
    OBVIOUS
  <2>1. Root(m, k) = IF k \in DOMAIN m THEN Root(m, m[k]) ELSE k
    BY <1>3, RootSteps
  <2>2. Root(m, k) \in S /\ Root(m, k) \notin DOMAIN m /\ (k \in DOMAIN m => m[k] \in S)
    BY <1>3, RootIs DEF Descends
  <2>3. Root(m, Root(m, k)) = Root(m, k)
    <3>1. PICK r \in S : r = Root(m, k)
      BY <2>2
    <3>2. Root(m, r) = r
      BY <1>3, <2>2, <3>1, RootSteps
    <3> QED
      BY <3>1, <3>2
  <2> QED
    BY <1>2, <2>1, <2>2, <2>3
<1>5. \A k \in S : Root(h.merges, k) = R[k]
  <2> HIDE DEF R
  <2> QED
    BY <1>3, <1>4, RootFollows
<1> QED
  BY <1>1, <1>5

\* What led to `old` leads to `new`.
LeadAnew(w, m, S, old, new) ==
  \A k \in S : Root(w, k) = IF Root(m, k) = old THEN new ELSE Root(m, k)

LEMMA TakenRoots ==
  ASSUME NEW S, Numbered(S), NEW g, Fits(g, S), NEW h, Fits(h, S), NEW new \in Live(g), NEW old \in Live(g),
         old # new, h.merges = Put(Without(g.merges, {new}), old, new)
  PROVE  LeadAnew(h.merges, g.merges, S, old, new)
<1>1. PICK m, w : m = g.merges /\ w = h.merges
  OBVIOUS
<1>2. Descends(m, S) /\ Descends(w, S) /\ DOMAIN m = S \ Live(g)
  BY <1>1, MergesDescend
<1>3. DOMAIN w = DOMAIN m \cup {old} /\ w[old] = new /\ \A k \in DOMAIN m : w[k] = m[k]
  <2>1. new \notin DOMAIN m /\ old \notin DOMAIN m
    BY <1>2
  <2>2. PICK q : q = Without(m, {new})
    OBVIOUS
  <2>3. DOMAIN q = DOMAIN m /\ \A k \in DOMAIN m : q[k] = m[k]
    BY <2>1, <2>2 DEF Without, Restrict
  <2>4. w = Put(q, old, new)
    BY <1>1, <2>2
  <2> QED
    BY <2>1, <2>3, <2>4 DEF Put
<1>4. new \in S /\ old \in S
  BY LiveAreIds
<1> DEFINE R == [k \in S |-> IF Root(m, k) = old THEN new ELSE Root(m, k)]
<1>5. \A k \in S : R[k] = IF k \in DOMAIN w THEN R[w[k]] ELSE k
  <2> SUFFICES ASSUME NEW k \in S PROVE R[k] = IF k \in DOMAIN w THEN R[w[k]] ELSE k
    OBVIOUS
  <2>1. Root(m, k) = IF k \in DOMAIN m THEN Root(m, m[k]) ELSE k
    BY <1>2, RootSteps
  <2>2. Root(m, new) = new /\ Root(m, old) = old
    BY <1>2, <1>4, RootSteps
  <2>3. k \in DOMAIN m => m[k] \in S
    BY <1>2 DEF Descends
  <2>4. CASE k \in DOMAIN m
    BY <1>3, <2>1, <2>3, <2>4
  <2>5. CASE k = old
    BY <1>3, <1>4, <2>2, <2>5
  <2>6. CASE k \notin DOMAIN m /\ k # old
    BY <1>3, <2>1, <2>6
  <2> QED
    BY <2>4, <2>5, <2>6
<1>6. \A k \in S : Root(w, k) = R[k]
  <2> HIDE DEF R
  <2> QED
    BY <1>2, <1>5, RootFollows
<1> QED
  BY <1>1, <1>6 DEF LeadAnew

-----------------------------------------------------------------------------
(* Compressing all at once: every link of L that is merged is inside of a  *)
(* chain, and merges lead every member of a chain to its node.             *)

Tells(g) == \A n \in Live(g) : \A x \in ToSet(g.nodes[n].of) : Root(g.merges, x) = n

Joined(g, S, E, L) ==
  /\ Represents(g, S, E) /\ Tells(g)
  /\ \A x, y : <<x, y>> \in L => Inner(g.nodes, x, y)

LEMMA TakenTells ==
  ASSUME NEW S, Numbered(S), NEW g, Fits(g, S), Tells(g), NEW h, Fits(h, S),
         NEW l \in Live(g), NEW r \in Live(g), NEW this, Takes(g, h, l, r, this)
  PROVE  Tells(h)
<1>1. PICK old : /\ {this, old} = {l, r} /\ h.merges = Put(Without(g.merges, {this}), old, this)
  BY DEF Takes
<1>2. this \in Live(g) /\ old \in Live(g) /\ this # old
  <2>1. this \in Live(g) /\ old \in Live(g)
    BY <1>1
  <2>2. l # r
    BY DEF Takes, Finer
  <2> QED
    BY <1>1, <2>1, <2>2
<1>3. \A k \in S : Root(h.merges, k) = IF Root(g.merges, k) = old THEN this ELSE Root(g.merges, k)
  <2>1. LeadAnew(h.merges, g.merges, S, old, this)
    BY <1>1, <1>2, TakenRoots
  <2> QED
    BY <2>1 DEF LeadAnew
<1>4. /\ this \in Live(h) /\ Live(h) \ {this} = Live(g) \ {l, r}
      /\ h.nodes[this].of = g.nodes[l].of \o g.nodes[r].of
      /\ \A k \in Live(h) \ {this} : h.nodes[k].of = g.nodes[k].of
  BY DEF Takes, Finer, Live
<1> SUFFICES ASSUME NEW n \in Live(h), NEW x \in ToSet(h.nodes[n].of)
             PROVE  Root(h.merges, x) = n
  BY DEF Tells
<1>5. x \in S
  <2>1. h.nodes[n].of \in Chains(S)
    BY DEF Fits, HoldsChains, Live
  <2> QED
    BY <2>1, ChainIs
<1>6. CASE n = this
  <2>1. x \in ToSet(g.nodes[l].of) \/ x \in ToSet(g.nodes[r].of)
    <3>1. PICK c, d : c = g.nodes[l].of /\ d = g.nodes[r].of
      OBVIOUS
    <3>2. c \in Chains(S) /\ d \in Chains(S)
      BY <3>1 DEF Fits, HoldsChains, Live
    <3>3. ToSet(c) \cap ToSet(d) = {}
      BY <3>1 DEF Takes, Finer, Fits, Partitioned, Live
    <3>4. ToSet(c \o d) = ToSet(c) \cup ToSet(d)
      BY <3>2, <3>3, JoinedChains
    <3> QED
      BY <1>4, <1>6, <3>1, <3>4
  <2>2. Root(g.merges, x) \in {l, r}
    BY <2>1 DEF Tells
  <2> QED
    BY <1>1, <1>3, <1>5, <1>6, <2>2
<1>7. CASE n # this
  <2>1. n \in Live(g) /\ n # old /\ x \in ToSet(g.nodes[n].of)
    BY <1>1, <1>4, <1>7
  <2>2. Root(g.merges, x) = n
    BY <2>1 DEF Tells
  <2> QED
    BY <1>3, <1>5, <2>1, <2>2
<1> QED
  BY <1>6, <1>7

LEMMA MergedAlongJoins ==
  ASSUME NEW S, Numbered(S), NEW E, RootedLinks(E, S), NEW g, NEW L, Joined(g, S, E, L),
         NEW x, NEW y, Sole(E, x, y), NEW e, e = <<x, y>>
  PROVE  Joined(MergedAlong(g, e), S, E, L \cup {e})
<1>1. PICK h, l, r : /\ h = Translated(g, {x, y})
                     /\ l = Root(g.merges, x) /\ r = Root(g.merges, y)
  OBVIOUS
<1>2. PICK new : new = MergeNodes(h, l, r)
  OBVIOUS
<1>3. MergedAlong(g, e) = new
  BY <1>1, <1>2 DEF MergedAlong
<1>4. Fits(g, S) /\ Fits(h, S) /\ h.nodes = g.nodes /\ StandsFor(g.nodes, E) /\ S \subseteq Nat
  BY <1>1, TranslatedFits DEF Joined, Represents, Numbered
<1>5. Tells(h)
  <2> SUFFICES ASSUME NEW n \in Live(h), NEW z \in ToSet(h.nodes[n].of) PROVE Root(h.merges, z) = n
    BY DEF Tells
  <2>1. z \in S
    <3>1. h.nodes[n].of \in Chains(S)
      BY <1>4 DEF Fits, HoldsChains, Live
    <3> QED
      BY <3>1, ChainIs
  <2>2. Root(g.merges, z) = n
    BY <1>4 DEF Joined, Tells, Live
  <2> QED
    BY <1>1, <1>4, <2>1, <2>2, TranslatedRoots
<1>6. Chained(h.nodes, S) /\ x \in S /\ y \in S
  BY <1>4 DEF Fits, Chained, Sole, RootedLinks
<1>7. /\ l \in DOMAIN h.nodes /\ x \in ToSet(h.nodes[l].of)
      /\ r \in DOMAIN h.nodes /\ y \in ToSet(h.nodes[r].of)
  <2>1. \E n \in DOMAIN h.nodes : x \in ToSet(h.nodes[n].of)
    BY <1>6 DEF Chained, Partitioned
  <2>2. \E n \in DOMAIN h.nodes : y \in ToSet(h.nodes[n].of)
    BY <1>6 DEF Chained, Partitioned
  <2> QED
    BY <1>1, <1>4, <2>1, <2>2 DEF Joined, Tells, Live
<1>8. Joined(h, S, E, L)
  BY <1>4, <1>5 DEF Joined, Represents
<1>9. CASE Inner(h.nodes, x, y)
  <2>1. l = r
    <3>1. y \in ToSet(h.nodes[l].of)
      BY <1>6, <1>7, <1>9, InnerIs
    <3> QED
      BY <1>6, <1>7, <3>1 DEF Chained, Partitioned
  <2>2. new = h
    BY <1>2, <2>1 DEF MergeNodes
  <2> QED
    BY <1>3, <1>8, <1>9, <2>2 DEF Joined
<1>10. CASE ~ Inner(h.nodes, x, y)
  <2>1. \A n \in DOMAIN h.nodes : h.nodes[n].from # {n}
    BY <1>4, <1>6, NoClosedLoop
  <2>2. PICK a \in DOMAIN h.nodes, b \in DOMAIN h.nodes :
          Joinable(h.nodes, a, b) /\ x = TailOf(h.nodes, a) /\ y = HeadOf(h.nodes, b)
    BY <1>4, <1>6, <1>10, <2>1, SoleIsJoinable
  <2>3. a = l /\ b = r
    BY <1>6, <1>7, <2>2, EndsAreHeld
  <2>4. l \in Live(h) /\ r \in Live(h) /\ l # r /\ AreMergableLink(h, l, r)
    BY <1>4, <2>2, <2>3, JoinableIsMergable DEF Joinable, Live
  <2>5. PICK this : this = IF l < r THEN l ELSE r
    OBVIOUS
  <2>6. Represents(h, S, E)
    BY <1>8 DEF Joined
  <2>7. Represents(new, S, E) /\ Takes(h, new, l, r, this)
    BY <1>2, <2>4, <2>5, <2>6, MergeLinks
  <2>8. Tells(new)
    BY <1>4, <1>5, <2>4, <2>7, TakenTells DEF Represents
  <2>9. \A u, v : Inner(new.nodes, u, v) <=> Inner(h.nodes, u, v) \/ (u = x /\ v = y)
    <3>1. Finer(new.nodes, h.nodes, this, l, r) /\ HoldsChains(h.nodes, S)
      BY <1>6, <2>7 DEF Takes, Chained
    <3> QED
      BY <2>2, <2>3, <3>1, FinerInner
  <2> QED
    BY <1>3, <1>8, <2>7, <2>8, <2>9 DEF Joined
<1> QED
  BY <1>9, <1>10

-----------------------------------------------------------------------------
(* There is one compressed graph without anything left to join.            *)

SameInside(N, M) == \A x, y : Inner(N, x, y) <=> Inner(M, x, y)

Begins(c, d) == Len(c) <= Len(d) /\ \A i \in 1 .. Len(c) : c[i] = d[i]

LEMMA ChainBegins ==
  ASSUME NEW S, NEW N, Chained(N, S), NEW M, Chained(M, S), SameInside(N, M), NEW n \in DOMAIN N
  PROVE  \E m \in DOMAIN M : Begins(N[n].of, M[m].of)
<1>1. PICK c : c = N[n].of
  OBVIOUS
<1>2. c \in Chains(S) /\ HeadOf(N, n) = c[1] /\ c[1] \in S
  BY <1>1, EndsAreHeld DEF HeadOf
<1>3. PICK m \in DOMAIN M : c[1] \in ToSet(M[m].of)
  BY <1>2 DEF Chained, Partitioned
<1>4. PICK d : d = M[m].of
  OBVIOUS
<1>5. d \in Chains(S)
  BY <1>4 DEF Chained, HoldsChains
<1>6. /\ Len(c) \in Nat /\ Len(c) >= 1 /\ Len(d) \in Nat /\ Len(d) >= 1
      /\ ToSet(d) = {d[i] : i \in 1 .. Len(d)}
      /\ \A i, j \in 1 .. Len(d) : d[i] = d[j] => i = j
  BY <1>2, <1>5, ChainIs
<1>7. c[1] = d[1]
  <2>1. PICK j \in 1 .. Len(d) : c[1] = d[j]
    BY <1>3, <1>4, <1>6
  <2>2. j = 1
    <3> SUFFICES ASSUME j # 1 PROVE FALSE
      OBVIOUS
    <3>1. j - 1 \in 1 .. Len(d) - 1 /\ (j - 1) + 1 = j
      BY <1>6, <2>1
    <3>2. InARow(d, d[j - 1], c[1])
      BY <2>1, <3>1 DEF InARow
    <3>3. Inner(N, d[j - 1], c[1])
      BY <1>4, <3>2 DEF Inner, SameInside
    <3> QED
      BY <1>2, <3>3, InnerIs
  <2> QED
    BY <2>1, <2>2
<1> DEFINE T == {i \in Nat : i + 1 <= Len(c) => i + 1 <= Len(d) /\ c[i + 1] = d[i + 1]}
<1>8. 0 \in T
  BY <1>6, <1>7
<1>9. ASSUME NEW i \in Nat, i \in T PROVE i + 1 \in T
  <2> SUFFICES ASSUME (i + 1) + 1 <= Len(c)
               PROVE  (i + 1) + 1 <= Len(d) /\ c[(i + 1) + 1] = d[(i + 1) + 1]
    OBVIOUS
  <2>1. PICK a, k : k = i + 1 /\ a = c[k]
    OBVIOUS
  <2>2. k \in Nat /\ k \in 1 .. Len(c) - 1 /\ k \in 1 .. Len(d) /\ a = d[k]
    BY <1>6, <1>9, <2>1
  <2>3. InARow(c, a, c[k + 1])
    BY <2>1, <2>2 DEF InARow
  <2>4. Inner(N, a, c[k + 1])
    BY <1>1, <2>3 DEF Inner
  <2>5. Inner(M, a, c[k + 1])
    BY <2>4 DEF SameInside
  <2>6. PICK h \in DOMAIN M : InARow(M[h].of, a, c[k + 1])
    BY <2>5 DEF Inner
  <2>7. h = m
    <3>1. M[h].of \in Chains(S)
      BY DEF Chained, HoldsChains
    <3>2. a \in ToSet(M[h].of)
      BY <2>6, <3>1, RowIsInside
    <3>3. a \in ToSet(M[m].of)
      BY <1>4, <1>6, <2>2
    <3> QED
      BY <3>2, <3>3 DEF Chained, Partitioned
  <2>8. PICK j \in 1 .. Len(d) - 1 : d[j] = a /\ d[j + 1] = c[k + 1]
    BY <1>4, <2>6, <2>7 DEF InARow
  <2>9. j = k
    BY <1>6, <2>2, <2>8
  <2> QED
    BY <1>6, <2>1, <2>2, <2>8, <2>9
<1>10. Begins(c, d)
  <2>1. Nat \subseteq T
    <3> HIDE DEF T
    <3> QED
      BY <1>8, <1>9, Induction
  <2>2. ASSUME NEW i \in 1 .. Len(c) PROVE i <= Len(d) /\ c[i] = d[i]
    <3>1. i - 1 \in Nat /\ (i - 1) + 1 = i
      BY <1>6
    <3>2. i - 1 \in T
      BY <2>1, <3>1
    <3> QED
      BY <1>6, <3>1, <3>2
  <2>3. Len(c) \in 1 .. Len(c)
    BY <1>6
  <2> QED
    BY <2>2, <2>3 DEF Begins
<1> QED
  BY <1>1, <1>4, <1>10

LEMMA SameChains ==
  ASSUME NEW S, S \subseteq Nat, NEW N, Chained(N, S), NEW M, Chained(M, S), SameInside(N, M),
         NEW n \in DOMAIN N
  PROVE  n \in DOMAIN M /\ N[n].of = M[n].of
<1>1. PICK m \in DOMAIN M : Begins(N[n].of, M[m].of)
  BY ChainBegins
<1>2. PICK k \in DOMAIN N : Begins(M[m].of, N[k].of)
  BY ChainBegins DEF SameInside
<1>3. PICK c, d, e : c = N[n].of /\ d = M[m].of /\ e = N[k].of
  OBVIOUS
<1>4. c \in Chains(S) /\ d \in Chains(S) /\ e \in Chains(S)
  BY <1>3 DEF Chained, HoldsChains
<1>5. /\ Len(c) \in Nat /\ Len(c) >= 1 /\ Len(d) \in Nat /\ Len(d) >= 1
      /\ ToSet(c) = {c[i] : i \in 1 .. Len(c)} /\ ToSet(e) = {e[i] : i \in 1 .. Len(e)}
      /\ Len(e) \in Nat /\ Len(e) >= 1
  BY <1>4, ChainIs
<1>6. k = n
  <2>1. c[1] = d[1] /\ d[1] = e[1]
    BY <1>1, <1>2, <1>3, <1>5 DEF Begins
  <2>2. c[1] \in ToSet(c) /\ e[1] \in ToSet(e)
    BY <1>4, EndsOfChain
  <2> QED
    BY <1>3, <2>1, <2>2 DEF Chained, Partitioned
<1>7. c = d
  <2>1. Len(c) = Len(d) /\ \A i \in 1 .. Len(c) : c[i] = d[i]
    BY <1>1, <1>2, <1>3, <1>5, <1>6 DEF Begins
  <2>2. c \in Seq(S) /\ d \in Seq(S)
    BY <1>4 DEF Chains
  <2> QED
    BY <2>1, <2>2
<1>8. m = n
  <2>1. /\ n \in ToSet(c) /\ \A x \in ToSet(c) : n <= x
        /\ m \in ToSet(c) /\ \A x \in ToSet(c) : m <= x
    BY <1>3, <1>7 DEF Chained, Partitioned
  <2>2. ToSet(c) \subseteq Nat
    BY <1>4, ChainIs
  <2>3. n \in Nat /\ m \in Nat /\ n <= m /\ m <= n
    BY <2>1, <2>2
  <2> QED
    BY <2>3
<1> QED
  BY <1>3, <1>7, <1>8

\* What is inside of chains is what is sole.
LEMMA InsideIsSole ==
  ASSUME NEW S, S \subseteq Nat, NEW N, Chained(N, S), NEW E, StandsFor(N, E), RootedLinks(E, S),
         \A l, r : ~ Joinable(N, l, r)
  PROVE  \A x, y : Inner(N, x, y) <=> Sole(E, x, y)
<1>1. \A n \in DOMAIN N : N[n].from # {n}
  BY NoClosedLoop
<1> QED
  BY <1>1, InnerIsSole, SoleIsJoinable

LEMMA CompressionIsUnique ==
  ASSUME NEW S, S \subseteq Nat, NEW E, RootedLinks(E, S),
         NEW N, Chained(N, S), StandsFor(N, E), \A l, r : ~ Joinable(N, l, r), IsNodes(N),
         NEW M, Chained(M, S), StandsFor(M, E), \A l, r : ~ Joinable(M, l, r), IsNodes(M)
  PROVE  N = M
<1>1. SameInside(N, M) /\ SameInside(M, N)
  BY InsideIsSole DEF SameInside
<1>2. DOMAIN N = DOMAIN M /\ \A n \in DOMAIN N : N[n].of = M[n].of
  <2>1. ASSUME NEW n \in DOMAIN N PROVE n \in DOMAIN M /\ N[n].of = M[n].of
    BY <1>1, SameChains
  <2>2. ASSUME NEW n \in DOMAIN M PROVE n \in DOMAIN N
    BY <1>1, SameChains
  <2> QED
    BY <2>1, <2>2
<1>3. \A n \in DOMAIN N : TailOf(N, n) = TailOf(M, n) /\ HeadOf(N, n) = HeadOf(M, n)
  BY <1>2 DEF TailOf, HeadOf
<1>4. \A m, n \in DOMAIN N : n \in N[m].to <=> n \in M[m].to
  <2>1. \A m, n \in DOMAIN N : n \in N[m].to <=> <<TailOf(N, m), HeadOf(N, n)>> \in E
    BY WaysAre
  <2>2. \A m, n \in DOMAIN M : n \in M[m].to <=> <<TailOf(M, m), HeadOf(M, n)>> \in E
    BY WaysAre
  <2> QED
    BY <1>2, <1>3, <2>1, <2>2
<1>5. ASSUME NEW n \in DOMAIN N PROVE N[n] = M[n]
  <2>1. /\ N[n].from \subseteq DOMAIN N /\ N[n].to \subseteq DOMAIN N
        /\ M[n].from \subseteq DOMAIN N /\ M[n].to \subseteq DOMAIN N
    BY <1>2 DEF Chained, Mirrored
  <2>2. N[n].to = M[n].to
    BY <1>4, <2>1
  <2>3. N[n].from = M[n].from
    <3>1. ASSUME NEW m \in DOMAIN N PROVE m \in N[n].from <=> m \in M[n].from
      <4>1. (m \in N[n].from <=> n \in N[m].to) /\ (m \in M[n].from <=> n \in M[m].to)
        BY <1>2 DEF Chained, Mirrored
      <4> QED
        BY <1>4, <4>1
    <3> QED
      BY <2>1, <3>1
  <2> QED
    BY <1>2, <2>2, <2>3 DEF IsNodes
<1> QED
  BY <1>2, <1>5 DEF IsNodes

-----------------------------------------------------------------------------
(* Compressing all at once.                                                *)

\* The graph of the links E between the ids of S, nothing compressed.
Plain(E, S) ==
  [nodes |-> [n \in S |-> [from |-> Full!Predecessors(E, n), to |-> Full!Successors(E, n),
                           of |-> <<n>>]],
   merges |-> <<>>]

Unmerged(N, E, S) ==
  /\ DOMAIN N = S
  /\ \A n \in S : /\ N[n].of = <<n>>
                  /\ \A m : m \in N[n].from <=> <<m, n>> \in E
                  /\ \A m : m \in N[n].to <=> <<n, m>> \in E

LEMMA PlainIs ==
  ASSUME NEW S, NEW E, RootedLinks(E, S)
  PROVE  Unmerged(Plain(E, S).nodes, E, S)
<1>1. \A e \in E : e = <<e[1], e[2]>>
  BY DEF RootedLinks
<1>2. ASSUME NEW n \in S
      PROVE  /\ \A m : m \in Full!Predecessors(E, n) <=> <<m, n>> \in E
             /\ \A m : m \in Full!Successors(E, n) <=> <<n, m>> \in E
  BY <1>1 DEF Full!Predecessors, Full!Successors
<1> QED
  BY <1>2 DEF Plain, Unmerged

LEMMA PlainIsJoined ==
  ASSUME NEW S, Numbered(S), NEW E, RootedLinks(E, S)
  PROVE  Joined(Plain(E, S), S, E, {})
<1>1. PICK g, N : g = Plain(E, S) /\ N = g.nodes
  OBVIOUS
<1>2. /\ g = [nodes |-> g.nodes, merges |-> g.merges] /\ g.merges = <<>>
      /\ g.nodes = [n \in S |-> [from |-> Full!Predecessors(E, n), to |-> Full!Successors(E, n),
                                 of |-> <<n>>]]
  BY <1>1 DEF Plain
<1>4. /\ DOMAIN N = S
      /\ \A n \in S : /\ N[n].of = <<n>>
                      /\ \A m : m \in N[n].from <=> <<m, n>> \in E
                      /\ \A m : m \in N[n].to <=> <<n, m>> \in E
  BY <1>1, PlainIs DEF Unmerged
<1>5. \A n \in S : /\ <<n>> \in Chains(S) /\ ToSet(<<n>>) = {n}
                   /\ <<n>>[1] = n /\ <<n>>[Len(<<n>>)] = n
  BY OneChain
<1>6. HoldsChains(N, S) /\ Partitioned(N, S)
  <2>1. S \subseteq Nat
    BY DEF Numbered
  <2>2. \A n \in DOMAIN N : N[n].of \in Chains(S) /\ ToSet(N[n].of) = {n} /\ n \in S
    BY <1>4, <1>5
  <2>3. \A n \in S : n <= n
    BY <2>1
  <2>4. HoldsChains(N, S)
    BY <2>2 DEF HoldsChains
  <2>5. Partitioned(N, S)
    BY <1>4, <2>2, <2>3 DEF Partitioned
  <2> QED
    BY <2>4, <2>5
<1>7. Mirrored(N)
  <2>1. \A x, y : <<x, y>> \in E => x \in S /\ y \in S
    BY DEF RootedLinks
  <2>2. ASSUME NEW n \in S PROVE N[n].from \subseteq S /\ N[n].to \subseteq S
    BY <1>4, <2>1
  <2>3. ASSUME NEW m \in S, NEW n \in S PROVE m \in N[n].from <=> n \in N[m].to
    BY <1>4
  <2> QED
    BY <1>4, <2>2, <2>3 DEF Mirrored
<1>8. MergesFit(g.merges, S, Live(g)) /\ DOMAIN g.merges = {}
  BY <1>2, <1>1, <1>4 DEF MergesFit, Live
<1>9. Fits(g, S)
  BY <1>2, <1>1, <1>6, <1>7, <1>8 DEF Fits, IsGraph, IsNodes
<1>10. \A x, y : ~ Inner(N, x, y)
  BY <1>4, NoRow DEF Inner
<1>11. StandsFor(N, E)
  <2>1. \A n \in S : TailOf(N, n) = n /\ HeadOf(N, n) = n
    BY <1>4, <1>5 DEF TailOf, HeadOf
  <2>2. \A x, y : Outer(N, x, y) <=> <<x, y>> \in E
    BY <1>4, <2>1 DEF Outer, RootedLinks
  <2> QED
    BY <1>10, <2>2 DEF StandsFor
<1>12. Tells(g)
  <2>1. \A n \in S : Root(g.merges, n) = n
    <3>1. Descends(g.merges, S)
      BY <1>9, MergesDescend
    <3> QED
      BY <1>8, <3>1, RootSteps
  <2> QED
    <3>1. \A n \in S : ToSet(g.nodes[n].of) = {n}
      BY <1>1, <1>4, <1>5
    <3>2. Live(g) = S
      BY <1>1, <1>4 DEF Live
    <3> QED
      BY <2>1, <3>1, <3>2 DEF Tells
<1> QED
  BY <1>1, <1>1, <1>9, <1>11, <1>12 DEF Joined, Represents

\* The links that are merged.
LEMMA ToMergeIs ==
  ASSUME NEW S, Numbered(S), NEW E, RootedLinks(E, S), NEW g, g = Plain(E, S)
  PROVE  ToMerge(g) \subseteq S \X S /\ \A x, y : <<x, y>> \in ToMerge(g) <=> Sole(E, x, y)
<1>1. PICK N : N = g.nodes
  OBVIOUS
<1>2. /\ DOMAIN N = S /\ Live(g) = S
      /\ \A n \in S : /\ \A m : m \in N[n].from <=> <<m, n>> \in E
                      /\ \A m : m \in N[n].to <=> <<n, m>> \in E
  BY <1>1, PlainIs DEF Live, Unmerged
<1>3. \A x, y : <<x, y>> \in E => x \in S /\ y \in S
  BY DEF RootedLinks
<1>4. \A n \in S : N[n].from \subseteq S /\ N[n].to \subseteq S
  BY <1>2, <1>3
<1>5. Fits(g, S)
  BY PlainIsJoined DEF Joined, Represents
<1>6. \A n \in S : Roots(g, N[n].to) = N[n].to
  BY <1>2, <1>4, <1>5, RootsOfLive
<1>7. IsFiniteSet(S)
  <2>1. PICK b \in Nat : \A x \in S : x < b
    BY DEF Numbered
  <2>2. S \subseteq 0 .. b
    BY <2>1 DEF Numbered
  <2>3. IsFiniteSet(0 .. b)
    BY FS_Interval
  <2> QED
    BY <2>2, <2>3, FS_Subset
<1>8. \A n \in S : /\ Cardinality(N[n].from) = 1 <=> \E x : N[n].from = {x}
                   /\ Cardinality(N[n].to) = 1 <=> \E x : N[n].to = {x}
  <2> SUFFICES ASSUME NEW n \in S
               PROVE  /\ Cardinality(N[n].from) = 1 <=> \E x : N[n].from = {x}
                      /\ Cardinality(N[n].to) = 1 <=> \E x : N[n].to = {x}
    OBVIOUS
  <2>1. IsFiniteSet(N[n].from) /\ IsFiniteSet(N[n].to)
    BY <1>4, <1>7, FS_Subset
  <2> QED
    BY <2>1, FS_Singleton
<1>9. \A e : e \in ToMerge(g) <=>
        /\ \E l \in S, r \in S : e = <<l, r>> /\ r \in N[l].to
        /\ Cardinality(N[e[1]].to) = 1 /\ Cardinality(N[e[2]].from) = 1
  <2>1. ToMerge(g) = {e \in UNION {{l} \X Roots(g, N[l].to) : l \in S} :
                        Cardinality(N[e[1]].to) = 1 /\ Cardinality(N[e[2]].from) = 1}
    BY <1>1, <1>2 DEF ToMerge
  <2>2. \A e : e \in UNION {{l} \X Roots(g, N[l].to) : l \in S}
                 <=> \E l \in S, r \in S : e = <<l, r>> /\ r \in N[l].to
    BY <1>4, <1>6
  <2> QED
    BY <2>1, <2>2
<1>10. ToMerge(g) \subseteq S \X S
  BY <1>9
<1>11. ASSUME NEW x, NEW y PROVE <<x, y>> \in ToMerge(g) <=> Sole(E, x, y)
  <2>1. <<x, y>> \in ToMerge(g) <=>
          /\ x \in S /\ y \in S /\ y \in N[x].to
          /\ Cardinality(N[x].to) = 1 /\ Cardinality(N[y].from) = 1
    BY <1>9
  <2>2. <<x, y>> \in ToMerge(g) <=>
          /\ x \in S /\ y \in S /\ <<x, y>> \in E
          /\ N[x].to = {y} /\ N[y].from = {x}
    BY <1>2, <1>8, <2>1
  <2>3. x \in S /\ y \in S /\ <<x, y>> \in E =>
          /\ N[x].to = {y} <=> \A z : <<x, z>> \in E => z = y
          /\ N[y].from = {x} <=> \A z : <<z, y>> \in E => z = x
    BY <1>2
  <2> QED
    BY <1>3, <2>2, <2>3 DEF Sole
<1> QED
  BY <1>10, <1>11

LEMMA CompressJoins ==
  ASSUME NEW S, Numbered(S), NEW E, RootedLinks(E, S), NEW g, g = Plain(E, S),
         NEW T, T = ToMerge(g)
  PROVE  Joined(Compress(g), S, E, T)
<1>1. T \subseteq S \X S /\ \A x, y : <<x, y>> \in T <=> Sole(E, x, y)
  BY ToMergeIs
<1>2. PICK b \in Nat : S \subseteq 0 .. b
  <2>1. PICK b \in Nat : \A x \in S : x < b
    BY DEF Numbered
  <2>2. S \subseteq 0 .. b
    BY <2>1 DEF Numbered
  <2> QED
    BY <2>2
<1>3. T \subseteq (0 .. b) \X (0 .. b) /\ IsFiniteSet(T)
  <2>1. T \subseteq (0 .. b) \X (0 .. b)
    BY <1>1, <1>2
  <2>2. IsFiniteSet((0 .. b) \X (0 .. b))
    <3>1. PICK B : B = 0 .. b
      OBVIOUS
    <3>2. IsFiniteSet(B)
      BY <3>1, FS_Interval
    <3> QED
      BY <3>1, <3>2, FS_Product
  <2> QED
    BY <2>1, <2>2, FS_Subset
<1>4. PICK F : IsFold(F, SUBSET T, g) /\ Compress(g) = F[T]
  BY <1>3, CompressFolds
<1> DEFINE K == {k \in Nat : \A L \in SUBSET T : Cardinality(L) = k => Joined(F[L], S, E, L)}
<1>5. \A L \in SUBSET T : IsFiniteSet(L) /\ Cardinality(L) \in Nat
  BY <1>3, FS_Subset, FS_CardinalityType
<1>6. 0 \in K
  <2> SUFFICES ASSUME NEW L \in SUBSET T, Cardinality(L) = 0 PROVE Joined(F[L], S, E, L)
    OBVIOUS
  <2>1. L = {}
    BY <1>5, FS_EmptySet
  <2>2. F[L] = g
    BY <1>4, <2>1 DEF IsFold
  <2> QED
    BY <2>1, <2>2, PlainIsJoined
<1>7. ASSUME NEW k \in Nat, k \in K PROVE k + 1 \in K
  <2> SUFFICES ASSUME NEW L \in SUBSET T, Cardinality(L) = k + 1 PROVE Joined(F[L], S, E, L)
    OBVIOUS
  <2>1. L # {}
    BY FS_EmptySet
  <2>2. PICK e \in L : e = LastOf(L)
    BY <1>3, <2>1, LastIsOne
  <2>3. PICK R : R = Rest(L)
    OBVIOUS
  <2>4. R \in SUBSET T /\ R = L \ {e} /\ R \cup {e} = L
    BY <2>2, <2>3 DEF Rest
  <2>5. Cardinality(R) = k
    <3>1. IsFiniteSet(L) /\ e \in L
      BY <1>5
    <3>2. Cardinality(L \ {e}) = Cardinality(L) - 1
      BY <3>1, FS_RemoveElement
    <3> QED
      BY <2>4, <3>2
  <2>6. Joined(F[R], S, E, R)
    BY <1>7, <2>4, <2>5
  <2>7. F[L] = MergedAlong(F[R], e)
    BY <1>4, <2>1, <2>2, <2>3 DEF IsFold
  <2>8. PICK x, y : e = <<x, y>> /\ Sole(E, x, y)
    BY <1>1, <2>2
  <2>9. Joined(MergedAlong(F[R], e), S, E, R \cup {e})
    BY <2>6, <2>8, MergedAlongJoins
  <2> QED
    BY <2>4, <2>7, <2>9
<1>8. Cardinality(T) \in K
  <2>1. Nat \subseteq K
    <3> HIDE DEF K
    <3> QED
      BY <1>6, <1>7, Induction
  <2> QED
    BY <1>5, <2>1
<1> QED
  BY <1>4, <1>8

\* What is compressed all at once, however it got there.
LEMMA CompressLeavesNothing ==
  ASSUME NEW S, Numbered(S), NEW E, RootedLinks(E, S), NEW h, h = Compress(Plain(E, S))
  PROVE  Represents(h, S, E) /\ \A l, r : ~ Joinable(h.nodes, l, r)
<1>1. PICK g, T : g = Plain(E, S) /\ T = ToMerge(g)
  OBVIOUS
<1>2. Joined(h, S, E, T) /\ \A x, y : <<x, y>> \in T <=> Sole(E, x, y)
  BY <1>1, CompressJoins, ToMergeIs
<1>3. Represents(h, S, E)
  BY <1>2 DEF Joined
<1>4. ASSUME NEW l, NEW r, Joinable(h.nodes, l, r) PROVE FALSE
  <2>1. Chained(h.nodes, S) /\ StandsFor(h.nodes, E)
    BY <1>3 DEF Represents, Fits, Chained
  <2>2. PICK x, y : x = TailOf(h.nodes, l) /\ y = HeadOf(h.nodes, r)
    OBVIOUS
  <2>3. Sole(E, x, y) /\ ~ Inner(h.nodes, x, y)
    BY <1>4, <2>1, <2>2, JoinableIsSole
  <2> QED
    BY <1>2, <2>3 DEF Joined
<1> QED
  BY <1>3, <1>4

\* Nothing is left to apply where neighbours are live.
LEMMA NothingToApply ==
  ASSUME NEW S, Numbered(S), NEW g, Fits(g, S) PROVE ApplyMerges(g).nodes = g.nodes
<1>1. PICK N : N = g.nodes
  OBVIOUS
<1>2. IsNodes(N) /\ \A n \in DOMAIN N : N[n].from \subseteq Live(g) /\ N[n].to \subseteq Live(g)
  BY <1>1 DEF Fits, IsGraph, Mirrored, Live
<1>3. ASSUME NEW n \in DOMAIN N
      PROVE  [N[n] EXCEPT !.from = Roots(g, @), !.to = Roots(g, @)] = N[n]
  <2>1. Roots(g, N[n].from) = N[n].from /\ Roots(g, N[n].to) = N[n].to
    BY <1>2, RootsOfLive
  <2>2. PICK f, t, c, v : v = N[n] /\ v = [from |-> f, to |-> t, of |-> c]
    BY <1>2 DEF IsNodes
  <2>3. Roots(g, f) = f /\ Roots(g, t) = t
    BY <2>1, <2>2
  <2>4. [v EXCEPT !.from = Roots(g, @), !.to = Roots(g, @)]
          = [from |-> Roots(g, f), to |-> Roots(g, t), of |-> c]
    <3>1. PICK p, q : p = Roots(g, f) /\ q = Roots(g, t)
      OBVIOUS
    <3>2. v.from = f /\ v.to = t
      BY <2>2
    <3>3. [v EXCEPT !.from = p, !.to = q] = [[v EXCEPT !.from = p] EXCEPT !.to = q]
      OBVIOUS
    <3>4. [v EXCEPT !.from = p] = [from |-> p, to |-> t, of |-> c]
      BY <2>2
    <3>5. [[from |-> p, to |-> t, of |-> c] EXCEPT !.to = q] = [from |-> p, to |-> q, of |-> c]
      OBVIOUS
    <3> QED
      BY <3>1, <3>2, <3>3, <3>4, <3>5
  <2>5. [v EXCEPT !.from = Roots(g, @), !.to = Roots(g, @)] = v
    BY <2>2, <2>3, <2>4
  <2> QED
    BY <2>2, <2>5
<1>4. ApplyMerges(g).nodes
        = [n \in DOMAIN N |-> [N[n] EXCEPT !.from = Roots(g, @), !.to = Roots(g, @)]]
  BY <1>1 DEF ApplyMerges, Live
<1>5. N = [n \in DOMAIN N |-> N[n]]
  BY <1>2 DEF IsNodes
<1> QED
  BY <1>1, <1>3, <1>4, <1>5

LEMMA SettledIsSlow == ASSUME GraphInv, BlockInv PROVE FastEqualsSlow
<1> SUFFICES ASSUME rooted, queued = {}
             PROVE  ApplyMerges(compressed).nodes = ApplyMerges(Compress(Uncompressed)).nodes
  BY DEF FastEqualsSlow, CompressionsAgree, Idle
<1>1. seen \in Nat /\ Fits(compressed, Seen)
  BY DEF GraphInv
<1>2. Numbered(Seen) /\ Seen \subseteq Nat
  BY <1>1, CountIsNumbered DEF Seen
<1>3. /\ RootedLinks(graph, Seen) /\ StandsFor(compressed.nodes, graph)
      /\ \A l, r : ~ Joinable(compressed.nodes, l, r)
  BY DEF BlockInv
<1>4. PICK slow : slow = Compress(Uncompressed)
  OBVIOUS
<1>5. Uncompressed = Plain(graph, Seen)
  BY DEF Uncompressed, Plain, Seen
<1>6. Represents(slow, Seen, graph) /\ \A l, r : ~ Joinable(slow.nodes, l, r)
  BY <1>2, <1>3, <1>4, <1>5, CompressLeavesNothing
<1>7. Fits(slow, Seen) /\ StandsFor(slow.nodes, graph)
  BY <1>6 DEF Represents
<1>8. /\ Chained(compressed.nodes, Seen) /\ IsNodes(compressed.nodes)
      /\ Chained(slow.nodes, Seen) /\ IsNodes(slow.nodes)
  BY <1>1, <1>7 DEF Fits, Chained, IsGraph
<1>9. compressed.nodes = slow.nodes
  BY <1>2, <1>3, <1>6, <1>7, <1>8, CompressionIsUnique
<1>10. /\ ApplyMerges(compressed).nodes = compressed.nodes
       /\ ApplyMerges(slow).nodes = slow.nodes
  BY <1>1, <1>2, <1>7, NothingToApply
<1> QED
  BY <1>4, <1>9, <1>10

(* For any number of nodes and links between blocks, in any order: between *)
(* two updates the graph kept compressed link by link is, node by node,    *)
(* what one pass over the whole uncompressed graph makes of it.            *)
THEOREM FastIsSlow == Spec => []FastEqualsSlow
<1>1. BoundsAssumption
  BY BoundsAssumption DEF BoundsAssumption
<1>2. Init => GraphInv /\ BlockInv
  BY <1>1, InitiallyGraph, InitiallyBlocks
<1>3. GraphInv /\ BlockInv /\ [Next]_vars => (GraphInv /\ BlockInv)'
  BY <1>1, UpdateKeepsGraph, CompressStepKeepsGraph, GraphStays,
     UpdateKeepsBlocks, CompressStepKeepsBlocks, BlocksStay DEF Next
<1>4. GraphInv /\ BlockInv => FastEqualsSlow
  BY SettledIsSlow
<1> QED
  BY <1>2, <1>3, <1>4, PTL DEF Spec
=============================================================================
