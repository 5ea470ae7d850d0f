----------------------------- MODULE StreamLemmas -----------------------------
(***************************************************************************)
(* Lemmas about streams of packets, for the proofs about the sockets: what *)
(* a concatenation of packets (FlattenSeq) is when one is added at its end *)
(* or taken off its front.  They rest on induction over the natural        *)
(* numbers, stated for sets, and on the existence of functions that are    *)
(* defined by recursion, which PrioritisationProofs needs as well.         *)
(***************************************************************************)
EXTENDS Integers, Sequences, SequencesExt, SequenceTheorems, WellFoundedInduction, TLAPS

-----------------------------------------------------------------------------
(* Induction.                                                              *)

Less == {p \in Nat \X Nat : p[1] < p[2]}

LEMMA LessWellFounded == IsWellFoundedOn(Less, Nat)
<1>1. Less = OpToRel(<, Nat)
  BY DEF Less, OpToRel
<1> QED
  BY <1>1, NatLessThanWellFounded

(* Some numbers have a least one.                                          *)
LEMMA LeastNumber ==
  ASSUME NEW T, T \subseteq Nat, T # {}
  PROVE  \E n \in T : \A m \in T : n <= m
<1>1. PICK n \in T : \A m \in T : ~ (<<m, n>> \in Less)
  BY LessWellFounded, WFMin
<1>2. ASSUME NEW m \in T PROVE n <= m
  <2>1. <<m, n>> \notin Less /\ m \in Nat /\ n \in Nat
    BY <1>1
  <2>2. m < n => <<m, n>> \in Less
    BY <2>1 DEF Less
  <2>3. ~ (m < n)
    BY <2>1, <2>2
  <2> QED
    BY <2>1, <2>3
<1> QED
  BY <1>2

(* A set with 0 and every number's successor has them all.                 *)
LEMMA Induction ==
  ASSUME NEW T, 0 \in T, \A n \in Nat : n \in T => n + 1 \in T
  PROVE  Nat \subseteq T
<1> SUFFICES ASSUME ~ (Nat \subseteq T) PROVE FALSE
  OBVIOUS
<1> DEFINE U == {n \in Nat : n \notin T}
<1>1. PICK n \in U : \A m \in U : n <= m
  BY LeastNumber
<1>2. n # 0
  BY DEF U
<1>3. n - 1 \in Nat /\ n - 1 \notin U
  BY <1>1, <1>2
<1> QED
  BY <1>1, <1>2, <1>3

(* A recursive definition over D defines a function, if what step makes of *)
(* n only depends on what has a smaller rank.                              *)
Causal(D, S, rank, step) ==
  \A n \in D : \A f, g \in [D -> S] :
    (\A m \in D : rank[m] < rank[n] => f[m] = g[m]) => step[n][f] = step[n][g]

StepMaps(D, S) == [D -> [[D -> S] -> S]]

LEMMA RecursionExists ==
  ASSUME NEW D, NEW S, NEW any \in S, NEW rank \in [D -> Nat], NEW N \in Nat,
         \A n \in D : rank[n] < N,
         NEW step \in StepMaps(D, S), Causal(D, S, rank, step)
  PROVE  \E f \in [D -> S] : \A n \in D : f[n] = step[n][f]
<1>0. \A n \in D, f \in [D -> S] : step[n][f] \in S
  BY DEF StepMaps
<1> DEFINE Solves(f, r) == \A n \in D : rank[n] < r => f[n] = step[n][f]
           T == {r \in Nat : \E f \in [D -> S] : Solves(f, r)}
<1>1. 0 \in T
  <2>1. [n \in D |-> any] \in [D -> S]
    OBVIOUS
  <2>2. Solves([n \in D |-> any], 0)
    OBVIOUS
  <2> HIDE DEF Solves
  <2> QED
    BY <2>1, <2>2
<1>2. ASSUME NEW r \in Nat, r \in T PROVE r + 1 \in T
  <2>1. PICK f \in [D -> S] : Solves(f, r)
    BY <1>2
  <2> DEFINE g == [n \in D |-> IF rank[n] = r THEN step[n][f] ELSE f[n]]
  <2>2. g \in [D -> S] /\ \A n \in D : g[n] = IF rank[n] = r THEN step[n][f] ELSE f[n]
    BY <1>0
  <2> HIDE DEF g
  <2>3. ASSUME NEW n \in D, rank[n] < r + 1 PROVE g[n] = step[n][g]
    <3>1. rank[n] \in Nat /\ \A m \in D : rank[m] \in Nat
      OBVIOUS
    <3>2. \A m \in D : rank[m] < rank[n] => g[m] = f[m]
      BY <2>2, <2>3, <3>1
    <3>3. step[n][g] = step[n][f]
      BY <2>2, <3>2 DEF Causal
    <3>4. g[n] = step[n][f]
      <4>1. CASE rank[n] = r
        BY <2>2, <4>1
      <4>2. CASE rank[n] # r
        <5>1. rank[n] < r
          <6>1. \A k \in Nat : k < r + 1 /\ k # r => k < r
            OBVIOUS
          <6> QED
            BY <2>3, <3>1, <4>2, <6>1, Zenon
        <5>2. f[n] = step[n][f]
          BY <2>1, <5>1
        <5> QED
          BY <2>2, <4>2, <5>2
      <4> QED
        BY <4>1, <4>2
    <3> QED
      BY <3>3, <3>4
  <2>4. Solves(g, r + 1)
    BY <2>3
  <2> HIDE DEF Solves
  <2> QED
    BY <2>2, <2>4
<1>3. Nat \subseteq T
  <2> HIDE DEF T
  <2> QED BY <1>1, <1>2, Induction
<1>4. PICK f \in [D -> S] : Solves(f, N)
  BY <1>3
<1> QED
  BY <1>4

(* So there is what steps make of x one after the other.                   *)
CanStep(S, x, N, step) ==
  \E f \in [0 .. N -> S] :
    \A n \in 0 .. N : f[n] = IF n = 0 THEN x ELSE step[n][f[n - 1]]

LEMMA StepsExist ==
  ASSUME NEW S, NEW x \in S, NEW N \in Nat, NEW step \in [1 .. N -> [S -> S]]
  PROVE  CanStep(S, x, N, step)
<1> DEFINE D == 0 .. N
           Stepped(f, n) == IF n = 0 THEN x ELSE step[n][f[n - 1]]
           rank == [n \in D |-> n]
           steps == [n \in D |-> [f \in [D -> S] |-> Stepped(f, n)]]
<1>1. D \subseteq Nat /\ \A n \in D : n # 0 => n \in 1 .. N /\ n - 1 \in D /\ n - 1 < n
  OBVIOUS
<1>2. rank \in [D -> Nat] /\ \A n \in D : rank[n] = n
  BY <1>1
<1>3. steps \in StepMaps(D, S)
  <2>1. \A n \in D, f \in [D -> S] : Stepped(f, n) \in S
    BY <1>1
  <2> HIDE DEF D, Stepped
  <2> QED
    BY <2>1 DEF StepMaps
<1>4. Causal(D, S, rank, steps)
  <2>1. ASSUME NEW n \in D, NEW f \in [D -> S], NEW g \in [D -> S],
               \A m \in D : rank[m] < rank[n] => f[m] = g[m]
        PROVE  steps[n][f] = steps[n][g]
    <3>1. steps[n][f] = Stepped(f, n) /\ steps[n][g] = Stepped(g, n)
      OBVIOUS
    <3>2. n # 0 => f[n - 1] = g[n - 1]
      BY <1>1, <1>2, <2>1
    <3> QED
      BY <3>1, <3>2
  <2> HIDE DEF D, rank, steps
  <2> QED
    BY <2>1 DEF Causal
<1>5. N + 1 \in Nat /\ \A n \in D : rank[n] < N + 1
  BY <1>2
<1>6. PICK f \in [D -> S] : \A n \in D : f[n] = steps[n][f]
  <2> HIDE DEF D, rank, steps
  <2> QED
    BY <1>2, <1>3, <1>4, <1>5, RecursionExists
<1>7. \A n \in D : f[n] = Stepped(f, n)
  BY <1>6
<1> QED
  BY <1>7 DEF CanStep

-----------------------------------------------------------------------------
(* FlattenSeq.                                                             *)

LEMMA EmptyOrNot ==
  ASSUME NEW S, NEW s \in Seq(S)
  PROVE  Len(s) \in Nat /\ (s = <<>> <=> Len(s) = 0)
  OBVIOUS

\* A packet is a sequence of bytes.
Packets(B) == Seq(B)

LEMMA Regrouped ==
  ASSUME NEW B, NEW x \in Packets(B), NEW y \in Packets(B), NEW z \in Packets(B)
  PROVE  (x \o y) \o z = x \o (y \o z)
  BY DEF Packets

Associates(B) == \A x, y, z \in Packets(B) : (x \o y) \o z = x \o (y \o z)

LEMMA Associative == ASSUME NEW B PROVE Associates(B)
  BY DEF Packets, Associates

RegroupedAs(w, x, y, z) == (w \o x) \o (y \o z) = w \o ((x \o y) \o z)

LEMMA Regrouped4 ==
  ASSUME NEW B, NEW w \in Packets(B), NEW x \in Packets(B), NEW y \in Packets(B), NEW z \in Packets(B)
  PROVE  RegroupedAs(w, x, y, z)
<1>1. PICK yz \in Packets(B) : yz = y \o z
  <2>1. y \o z \in Packets(B)
    BY DEF Packets
  <2> QED
    BY <2>1
<1>2. (w \o x) \o yz = w \o (x \o yz)
  BY Regrouped, SMTT(60)
<1>3. x \o (y \o z) = (x \o y) \o z
  BY Regrouped, SMTT(60)
<1> QED
  BY <1>1, <1>2, <1>3, Zenon DEF RegroupedAs

\* f[i] is the concatenation of the first i packets.
Joins(f, packets, n) ==
  f = [i \in 1 .. n |-> IF i = 1 THEN packets[i] ELSE f[i - 1] \o packets[i]]

LEMMA JoinsExist ==
  ASSUME NEW B, NEW packets \in Seq(Packets(B))
  PROVE  \A n \in 0 .. Len(packets) : \E f \in [1 .. n -> Packets(B)] : Joins(f, packets, n)
<1> DEFINE T == {n \in Nat : n <= Len(packets) =>
                   \E f \in [1 .. n -> Packets(B)] : Joins(f, packets, n)}
<1>1. 0 \in T
  <2>1. [i \in 1 .. 0 |-> packets[i]] \in [1 .. 0 -> Packets(B)]
    OBVIOUS
  <2>2. Joins([i \in 1 .. 0 |-> packets[i]], packets, 0)
    BY DEF Joins
  <2> QED
    BY <2>1, <2>2
<1>2. ASSUME NEW n \in Nat, n \in T PROVE n + 1 \in T
  <2> SUFFICES ASSUME n + 1 <= Len(packets)
               PROVE  \E f \in [1 .. n + 1 -> Packets(B)] : Joins(f, packets, n + 1)
    OBVIOUS
  <2>1. PICK f \in [1 .. n -> Packets(B)] : Joins(f, packets, n)
    BY <1>2
  <2>2. n + 1 \in 1 .. Len(packets) /\ packets[n + 1] \in Packets(B)
    OBVIOUS
  <2> DEFINE last == IF n = 0 THEN packets[n + 1] ELSE f[n] \o packets[n + 1]
             g == [i \in 1 .. n + 1 |-> IF i = n + 1 THEN last ELSE f[i]]
  <2>3. last \in Packets(B)
    BY <2>2 DEF Packets
  <2>4. g \in [1 .. n + 1 -> Packets(B)]
    BY <2>3
  <2>5. ASSUME NEW i \in 1 .. n + 1
        PROVE  g[i] = IF i = 1 THEN packets[i] ELSE g[i - 1] \o packets[i]
    <3>1. CASE i = n + 1
      BY <3>1
    <3>2. CASE i # n + 1
      <4>1. i \in 1 .. n /\ (i # 1 => i - 1 \in 1 .. n)
        BY <3>2
      <4>2. f[i] = IF i = 1 THEN packets[i] ELSE f[i - 1] \o packets[i]
        BY <2>1, <4>1 DEF Joins
      <4>3. g[i] = f[i] /\ (i # 1 => g[i - 1] = f[i - 1])
        BY <3>2, <4>1
      <4> HIDE DEF g
      <4> QED
        BY <4>2, <4>3
    <3> QED
      BY <3>1, <3>2
  <2>6. Joins(g, packets, n + 1)
    <3> HIDE DEF last
    <3>1. g = [i \in 1 .. n + 1 |-> g[i]]
      OBVIOUS
    <3> HIDE DEF g
    <3> QED
      BY <2>5, <3>1 DEF Joins
  <2> QED
    BY <2>4, <2>6
<1>3. Nat \subseteq T
  <2> HIDE DEF T
  <2> QED BY <1>1, <1>2, Induction
<1> QED
  BY <1>3

(* Joins of sequences that begin alike begin alike.                        *)
LEMMA JoinsUnique ==
  ASSUME NEW p, NEW q, NEW m \in Nat, NEW n \in m .. m + 1, NEW f, NEW g,
         Joins(f, p, m), Joins(g, q, n), \A i \in 1 .. m : p[i] = q[i]
  PROVE  \A i \in 1 .. m : f[i] = g[i]
<1> DEFINE T == {i \in Nat : i \in 1 .. m => f[i] = g[i]}
<1>1. 0 \in T
  OBVIOUS
<1>2. ASSUME NEW i \in Nat, i \in T PROVE i + 1 \in T
  <2> SUFFICES ASSUME i + 1 \in 1 .. m PROVE f[i + 1] = g[i + 1]
    OBVIOUS
  <2> DEFINE k == i + 1
  <2>1. k \in 1 .. m /\ k \in 1 .. n /\ k - 1 = i
    OBVIOUS
  <2> HIDE DEF k
  <2>2. f[k] = IF k = 1 THEN p[k] ELSE f[k - 1] \o p[k]
    BY <2>1 DEF Joins
  <2>3. g[k] = IF k = 1 THEN q[k] ELSE g[k - 1] \o q[k]
    BY <2>1 DEF Joins
  <2>4. k # 1 => f[i] = g[i]
    BY <1>2, <2>1
  <2>5. f[k] = g[k]
    BY <2>1, <2>2, <2>3, <2>4
  <2> QED
    BY <2>5 DEF k
<1>3. Nat \subseteq T
  <2> HIDE DEF T
  <2> QED BY <1>1, <1>2, Induction
<1> QED
  BY <1>3

(* A concatenation is the last join of its packets.                        *)
LEMMA FlattenIsJoin ==
  ASSUME NEW B, NEW packets \in Seq(Packets(B)), packets # <<>>
  PROVE  \E f \in [1 .. Len(packets) -> Packets(B)] :
           Joins(f, packets, Len(packets)) /\ FlattenSeq(packets) = f[Len(packets)]
<1> DEFINE n == Len(packets)
           F == CHOOSE f : f = [i \in 1 .. n |-> IF i = 1 THEN packets[i] ELSE f[i - 1] \o packets[i]]
<1>1. n \in Nat /\ n # 0
  BY EmptyOrNot
<1>2. FlattenSeq(packets) = F[n]
  BY <1>1 DEF FlattenSeq
<1>3. PICK f \in [1 .. n -> Packets(B)] : Joins(f, packets, n)
  <2>1. n \in 0 .. Len(packets)
    BY <1>1
  <2> QED
    BY <2>1, JoinsExist
<1>4. Joins(F, packets, n)
  <2>1. f = [i \in 1 .. n |-> IF i = 1 THEN packets[i] ELSE f[i - 1] \o packets[i]]
    BY <1>3 DEF Joins
  <2>2. F = [i \in 1 .. n |-> IF i = 1 THEN packets[i] ELSE F[i - 1] \o packets[i]]
    BY <2>1, Zenon
  <2> QED
    BY <2>2, Zenon DEF Joins
<1>5. F[n] = f[n]
  <2> HIDE DEF F
  <2>1. n \in n .. n + 1 /\ n \in 1 .. n
    BY <1>1
  <2>2. \A i \in 1 .. n : F[i] = f[i]
    BY <1>1, <1>3, <1>4, <2>1, JoinsUnique
  <2> QED
    BY <2>1, <2>2
<1> HIDE DEF F
<1> QED
  BY <1>2, <1>3, <1>5

LEMMA FlattenEmpty == FlattenSeq(<<>>) = <<>>
  BY DEF FlattenSeq

LEMMA FlattenOne ==
  ASSUME NEW B, NEW packets \in Seq(Packets(B)), Len(packets) = 1
  PROVE  FlattenSeq(packets) = packets[1]
<1>1. PICK f \in [1 .. 1 -> Packets(B)] : Joins(f, packets, 1) /\ FlattenSeq(packets) = f[1]
  <2>1. packets # <<>>
    BY EmptyOrNot
  <2> QED
    BY <2>1, FlattenIsJoin
<1> QED
  BY <1>1 DEF Joins

LEMMA FlattenType ==
  ASSUME NEW B, NEW packets \in Seq(Packets(B))
  PROVE  FlattenSeq(packets) \in Packets(B)
<1>1. CASE packets = <<>>
  <2>1. <<>> \in Packets(B)
    BY DEF Packets
  <2> QED
    BY <1>1, <2>1, FlattenEmpty, Zenon
<1>2. CASE packets # <<>>
  <2>1. Len(packets) \in 1 .. Len(packets)
    BY <1>2, EmptyOrNot
  <2> QED
    BY <1>2, <2>1, FlattenIsJoin
<1> QED
  BY <1>1, <1>2

(* A packet at the end.                                                    *)
LEMMA FlattenAppend ==
  ASSUME NEW B, NEW packets \in Seq(Packets(B)), NEW packet \in Packets(B)
  PROVE  FlattenSeq(Append(packets, packet)) = FlattenSeq(packets) \o packet
<1> DEFINE more == Append(packets, packet)
           n == Len(packets)
<1>1. /\ more \in Seq(Packets(B)) /\ Len(more) = n + 1 /\ more # <<>> /\ n \in Nat
      /\ \A i \in 1 .. n : packets[i] = more[i]
      /\ more[n + 1] = packet
  OBVIOUS
<1> HIDE DEF more
<1>2. PICK g \in [1 .. n + 1 -> Packets(B)] : Joins(g, more, n + 1) /\ FlattenSeq(more) = g[n + 1]
  BY <1>1, FlattenIsJoin
<1>3. CASE n = 0
  <2>1. FlattenSeq(more) = packet
    BY <1>1, <1>3, FlattenOne
  <2>2. FlattenSeq(packets) = <<>>
    BY <1>3, FlattenEmpty
  <2> QED
    BY <2>1, <2>2 DEF more
<1>4. CASE n # 0
  <2>1. PICK f \in [1 .. n -> Packets(B)] : Joins(f, packets, n) /\ FlattenSeq(packets) = f[n]
    <3>1. packets # <<>>
      BY <1>4
    <3> QED
      BY <3>1, FlattenIsJoin
  <2>2. \A i \in 1 .. n : f[i] = g[i]
    <3>1. n \in Nat /\ n + 1 \in n .. n + 1
      BY <1>1
    <3>2. Joins(f, packets, n) /\ Joins(g, more, n + 1) /\ \A i \in 1 .. n : packets[i] = more[i]
      BY <1>1, <1>2, <2>1
    <3> HIDE DEF n
    <3> QED
      BY <3>1, <3>2, JoinsUnique, SMTT(30)
  <2>3. g[n + 1] = g[n] \o more[n + 1]
    <3>1. n + 1 \in 1 .. n + 1 /\ n + 1 # 1 /\ (n + 1) - 1 = n
      BY <1>1, <1>4
    <3> QED
      BY <1>2, <3>1 DEF Joins
  <2>4. f[n] = g[n]
    BY <1>1, <1>4, <2>2
  <2> QED
    BY <1>1, <1>2, <2>1, <2>3, <2>4 DEF more
<1> QED
  BY <1>3, <1>4

(* A packet at the front.                                                  *)
LEMMA FlattenFirst ==
  ASSUME NEW B, NEW packets \in Seq(Packets(B)), packets # <<>>
  PROVE  FlattenSeq(packets) = packets[1] \o FlattenSeq(Tail(packets))
<1> DEFINE rest == Tail(packets)
           n == Len(packets)
<1>1. /\ n \in Nat \ {0} /\ rest \in Seq(Packets(B)) /\ Len(rest) = n - 1
      /\ \A i \in 1 .. n - 1 : rest[i] = packets[i + 1]
      /\ packets[1] \in Packets(B) /\ \A i \in 1 .. n : packets[i] \in Packets(B)
  OBVIOUS
<1> HIDE DEF rest
<1>2. PICK f \in [1 .. n -> Packets(B)] : Joins(f, packets, n) /\ FlattenSeq(packets) = f[n]
  BY FlattenIsJoin
<1>3. \A i \in 1 .. n : f[i] = IF i = 1 THEN packets[i] ELSE f[i - 1] \o packets[i]
  BY <1>2 DEF Joins
<1>4. \A x, y, z \in Packets(B) : (x \o y) \o z = x \o (y \o z)
  <2>1. Associates(B)
    BY Associative
  <2> QED
    BY <2>1, Zenon DEF Associates
<1>5. CASE n = 1
  <2>1. rest = <<>>
    BY <1>1, <1>5
  <2>2. FlattenSeq(packets) = packets[1]
    BY <1>5, FlattenOne
  <2>3. packets[1] \o <<>> = packets[1]
    BY <1>1, ConcatEmptySeq DEF Packets
  <2> QED
    BY <2>1, <2>2, <2>3, FlattenEmpty, Zenon DEF rest
<1>6. CASE n # 1
  <2>1. PICK g \in [1 .. n - 1 -> Packets(B)] : Joins(g, rest, n - 1) /\ FlattenSeq(rest) = g[n - 1]
    <3>1. rest # <<>>
      BY <1>1, <1>6
    <3> QED
      BY <1>1, <3>1, FlattenIsJoin
  <2>2. \A i \in 1 .. n - 1 : g[i] = IF i = 1 THEN rest[i] ELSE g[i - 1] \o rest[i]
    BY <2>1 DEF Joins
  <2> DEFINE Holds(i) == f[i + 1] = packets[1] \o g[i]
             T == {i \in Nat : i \in 1 .. n - 1 => Holds(i)}
  <2>3. 0 \in T
    BY <1>1
  <2>4. ASSUME NEW i \in Nat, i \in T PROVE i + 1 \in T
    <3>1. ASSUME NEW k \in 1 .. n - 1, k = i + 1 PROVE Holds(k)
      <4>1. k + 1 \in 1 .. n /\ k + 1 # 1 /\ (k + 1) - 1 = k /\ k - 1 = i
        BY <1>1, <3>1
      <4>2. f[k + 1] = f[k] \o packets[k + 1]
        BY <1>3, <4>1
      <4>3. rest[k] = packets[k + 1] /\ rest[k] \in Packets(B)
        BY <1>1, <4>1
      <4>4. CASE k = 1
        <5>1. f[k] = packets[1] /\ g[k] = rest[k]
          <6>1. 1 \in 1 .. n /\ 1 \in 1 .. n - 1
            BY <1>1, <1>6
          <6> QED
            BY <1>3, <2>2, <4>4, <6>1
        <5> QED
          BY <4>2, <4>3, <5>1
      <4>5. CASE k # 1
        <5>1. i \in 1 .. n - 1 /\ i + 1 = k
          BY <1>1, <3>1, <4>1, <4>5
        <5>2. f[k] = packets[1] \o g[i]
          BY <2>4, <5>1
        <5>3. g[k] = g[i] \o rest[k]
          BY <2>2, <4>1, <4>5
        <5>4. g[i] \in Packets(B) /\ packets[1] \in Packets(B)
          BY <1>1, <2>1, <5>1
        <5>5. (packets[1] \o g[i]) \o rest[k] = packets[1] \o (g[i] \o rest[k])
          BY <1>4, <4>3, <5>4
        <5> QED
          BY <4>2, <4>3, <5>2, <5>3, <5>5
      <4> QED
        BY <4>4, <4>5
    <3> HIDE DEF Holds
    <3> QED
      BY <3>1
  <2>5. n - 1 \in T
    <3>1. Nat \subseteq T
      <4> HIDE DEF T
      <4> QED BY <2>3, <2>4, Induction
    <3> HIDE DEF T
    <3> QED
      BY <1>1, <3>1
  <2>6. Holds(n - 1)
    <3> HIDE DEF Holds
    <3> QED BY <1>1, <1>6, <2>5
  <2>7. f[n] = packets[1] \o g[n - 1]
    <3>1. (n - 1) + 1 = n
      BY <1>1
    <3>2. f[(n - 1) + 1] = packets[1] \o g[n - 1]
      BY <2>6
    <3> QED
      BY <3>1, <3>2, Zenon
  <2> QED
    BY <1>2, <2>1, <2>7 DEF rest
<1> QED
  BY <1>5, <1>6

-----------------------------------------------------------------------------
(* Reading a packet off the front of what is in sight of a stream.         *)

(* What is in sight begins like the stream.                                *)
LEMMA SightBegins ==
  ASSUME NEW B, NEW sight \in Packets(B), NEW rest \in Packets(B),
         NEW first \in Packets(B), NEW others \in Packets(B),
         sight \o rest = first \o others
  PROVE  \A i \in 1 .. Len(first) : i \in 1 .. Len(sight) => sight[i] = first[i]
<1> USE DEF Packets
<1> TAKE i \in 1 .. Len(first)
<1> HAVE i \in 1 .. Len(sight)
<1>1. (sight \o rest)[i] = sight[i]
  OBVIOUS
<1>2. (first \o others)[i] = first[i]
  OBVIOUS
<1> QED
  BY <1>1, <1>2

(* A sequence is its beginning and what comes after it.                    *)
LEMMA SplitOff ==
  ASSUME NEW B, NEW w \in Packets(B), NEW n \in 0 .. Len(w)
  PROVE  /\ SubSeq(w, 1, n) \in Packets(B) /\ Len(SubSeq(w, 1, n)) = n
         /\ SubSeq(w, n + 1, Len(w)) \in Packets(B)
         /\ SubSeq(w, 1, n) \o SubSeq(w, n + 1, Len(w)) = w
<1> USE DEF Packets
<1> DEFINE front == SubSeq(w, 1, n)
           back == SubSeq(w, n + 1, Len(w))
<1>1. Len(w) \in Nat /\ n \in Nat /\ n <= Len(w)
  OBVIOUS
<1>2. front \in Seq(B) /\ Len(front) = n /\ \A i \in 1 .. n : front[i] = w[i]
  BY <1>1
<1>3. /\ back \in Seq(B) /\ Len(back) = Len(w) - n
      /\ \A i \in 1 .. Len(w) - n : back[i] = w[n + i]
  BY <1>1
<1> HIDE DEF front, back
<1>4. /\ front \o back \in Seq(B) /\ Len(front \o back) = Len(w)
      /\ \A i \in 1 .. Len(w) : (front \o back)[i] = IF i <= n THEN front[i] ELSE back[i - n]
  BY <1>1, <1>2, <1>3
<1>5. ASSUME NEW i \in 1 .. Len(w) PROVE (front \o back)[i] = w[i]
  <2>1. CASE i <= n
    BY <1>2, <1>4, <2>1
  <2>2. CASE ~ (i <= n)
    <3>1. i - n \in 1 .. Len(w) - n /\ n + (i - n) = i
      BY <1>1, <2>2
    <3> QED
      BY <1>3, <1>4, <2>2, <3>1
  <2> QED
    BY <2>1, <2>2
<1>6. front \o back = w
  BY <1>4, <1>5, SeqEqual
<1> QED
  BY <1>2, <1>3, <1>6 DEF front, back

(* What is read of a packet, and what remains of the view.                 *)
PartRead(p, v, r, u, b, left) ==
  /\ b = p \o SubSeq(v, 1, u) /\ Len(b) = Len(p) + u
  /\ left = SubSeq(v, u + 1, Len(v)) /\ Len(left) = Len(v) - u
  /\ b \o (left \o r) = p \o (v \o r)

LEMMA ReadPart ==
  ASSUME NEW B, NEW p \in Packets(B), NEW v \in Packets(B), NEW r \in Packets(B), NEW u \in 0 .. Len(v)
  PROVE  \E b \in Packets(B), left \in Packets(B) : PartRead(p, v, r, u, b, left)
<1>1. PICK f \in Packets(B) : f = SubSeq(v, 1, u) /\ Len(f) = u
  BY SplitOff
<1>2. PICK left \in Packets(B) : left = SubSeq(v, u + 1, Len(v)) /\ f \o left = v
  BY <1>1, SplitOff
<1>3. PICK b \in Packets(B) : b = p \o f
  <2>1. p \o f \in Packets(B)
    BY DEF Packets
  <2> QED
    BY <2>1
<1>4. b \o (left \o r) = p \o (v \o r)
  <2>1. RegroupedAs(p, f, left, r)
    BY Regrouped4
  <2> QED
    BY <1>2, <1>3, <2>1, Zenon DEF RegroupedAs
<1>5. Len(b) = Len(p) + u
  <2>1. Len(p \o f) = Len(p) + Len(f)
    BY DEF Packets
  <2> QED
    BY <1>1, <1>3, <2>1
<1>6. Len(left) = Len(v) - u
  <2>1. Len(f \o left) = Len(f) + Len(left) /\ Len(f) \in Nat /\ Len(left) \in Nat
    BY DEF Packets
  <2> QED
    BY <1>1, <1>2, <2>1
<1> QED
  BY <1>1, <1>2, <1>3, <1>4, <1>5, <1>6, Zenon DEF PartRead

(* A packet that is all in sight can be cut off.                           *)
LEMMA CutOff ==
  ASSUME NEW B, NEW sight \in Packets(B), NEW rest \in Packets(B),
         NEW first \in Packets(B), NEW others \in Packets(B),
         sight \o rest = first \o others, Len(first) <= Len(sight)
  PROVE  SubSeq(sight, 1, Len(first)) = first
<1> USE DEF Packets
<1> DEFINE k == Len(first)
<1>1. k \in Nat /\ Len(sight) \in Nat /\ k <= Len(sight)
  OBVIOUS
<1>2. \A i \in 1 .. k : sight[i] = first[i]
  BY <1>1, SightBegins
<1>3. SubSeq(sight, 1, k) \in Seq(B) /\ Len(SubSeq(sight, 1, k)) = k
      /\ \A i \in 1 .. k : SubSeq(sight, 1, k)[i] = sight[i]
  BY <1>1
<1> QED
  BY <1>1, <1>2, <1>3, SeqEqual

LEMMA CutOffRest ==
  ASSUME NEW B, NEW sight \in Packets(B), NEW rest \in Packets(B),
         NEW first \in Packets(B), NEW others \in Packets(B),
         sight \o rest = first \o others, Len(first) <= Len(sight)
  PROVE  SubSeq(sight, Len(first) + 1, Len(sight)) \o rest = others
<1> USE DEF Packets
<1> DEFINE k == Len(first)
           cut == SubSeq(sight, k + 1, Len(sight))
<1>1. k \in Nat /\ Len(sight) \in Nat /\ Len(rest) \in Nat /\ Len(others) \in Nat /\ k <= Len(sight)
  OBVIOUS
<1>4. /\ cut \in Seq(B) /\ Len(cut) = Len(sight) - k
      /\ \A i \in 1 .. Len(sight) - k : cut[i] = sight[k + i]
  BY <1>1
<1>5. cut \o rest = others
  <2> HIDE DEF cut
  <2>1. Len(sight) + Len(rest) = k + Len(others)
    <3>1. Len(sight \o rest) = Len(sight) + Len(rest) /\ Len(first \o others) = k + Len(others)
      OBVIOUS
    <3> QED
      BY <3>1
  <2>2. cut \o rest \in Seq(B) /\ Len(cut \o rest) = Len(others)
    BY <1>1, <1>4, <2>1
  <2>3. ASSUME NEW i \in 1 .. Len(others) PROVE (cut \o rest)[i] = others[i]
    <3>1. (first \o others)[k + i] = others[i]
      BY <1>1
    <3>2. (sight \o rest)[k + i] = (cut \o rest)[i]
      <4> DEFINE j == k + i
      <4>1. j \in 1 .. Len(sight) + Len(rest) /\ i \in 1 .. Len(cut) + Len(rest) /\ Len(cut) = Len(sight) - k
        BY <1>1, <1>4, <2>1
      <4>2. (sight \o rest)[j] = IF j <= Len(sight) THEN sight[j] ELSE rest[j - Len(sight)]
        BY <4>1, ConcatProperties
      <4>3. (cut \o rest)[i] = IF i <= Len(cut) THEN cut[i] ELSE rest[i - Len(cut)]
        BY <1>4, <4>1, ConcatProperties
      <4>4. (i <= Len(cut) <=> j <= Len(sight)) /\ i - Len(cut) = j - Len(sight)
        BY <1>1, <4>1
      <4>5. i <= Len(cut) => cut[i] = sight[j]
        BY <1>1, <1>4, <4>1
      <4> QED
        BY <4>2, <4>3, <4>4, <4>5
    <3> QED
      BY <3>1, <3>2
  <2> QED
    BY <2>2, <2>3, SeqEqual
<1> QED
  BY <1>5

-----------------------------------------------------------------------------
(* Two streams, one after the other.                                       *)

EndsIn(q, n, S) == \E r \in Seq(S), x \in S : Len(r) = n /\ q = Append(r, x)

LEMMA LastOff ==
  ASSUME NEW S, NEW q \in Seq(S), NEW n \in Nat, Len(q) = n + 1
  PROVE  EndsIn(q, n, S)
<1> DEFINE r == SubSeq(q, 1, n)
<1>1. r \in Seq(S) /\ Len(r) = n /\ \A i \in 1 .. n : r[i] = q[i]
  OBVIOUS
<1>2. q[n + 1] \in S
  OBVIOUS
<1> HIDE DEF r
<1>3. /\ Append(r, q[n + 1]) \in Seq(S) /\ Len(Append(r, q[n + 1])) = Len(q)
      /\ \A i \in 1 .. Len(q) : Append(r, q[n + 1])[i] = q[i]
  BY <1>1, <1>2
<1>4. q = Append(r, q[n + 1])
  BY <1>3, SeqEqual
<1> QED
  BY <1>1, <1>2, <1>4 DEF EndsIn

LEMMA ConcatAppend ==
  ASSUME NEW S, NEW p \in Seq(S), NEW r \in Seq(S), NEW x \in S
  PROVE  p \o Append(r, x) = Append(p \o r, x)
  OBVIOUS

LEMMA FlattenConcat ==
  ASSUME NEW B, NEW p \in Seq(Packets(B)), NEW q \in Seq(Packets(B))
  PROVE  FlattenSeq(p \o q) = FlattenSeq(p) \o FlattenSeq(q)
<1> DEFINE Holds(r) == FlattenSeq(p \o r) = FlattenSeq(p) \o FlattenSeq(r)
           T == {n \in Nat : \A r \in Seq(Packets(B)) : Len(r) = n => Holds(r)}
<1>1. 0 \in T
  <2> SUFFICES ASSUME NEW r \in Seq(Packets(B)), Len(r) = 0 PROVE Holds(r)
    OBVIOUS
  <2>1. r = <<>> /\ p \o r = p
    OBVIOUS
  <2>2. FlattenSeq(p) \o <<>> = FlattenSeq(p)
    BY FlattenType, ConcatEmptySeq DEF Packets
  <2> QED
    BY <2>1, <2>2, FlattenEmpty, Zenon
<1>2. ASSUME NEW n \in Nat, n \in T PROVE n + 1 \in T
  <2> SUFFICES ASSUME NEW r \in Seq(Packets(B)), Len(r) = n + 1 PROVE Holds(r)
    OBVIOUS
  <2>1. PICK s \in Seq(Packets(B)), x \in Packets(B) : Len(s) = n /\ r = Append(s, x)
    <3>1. EndsIn(r, n, Packets(B))
      BY LastOff
    <3> QED
      BY <3>1, Zenon DEF EndsIn
  <2>2. Holds(s)
    BY <1>2, <2>1
  <2>3. p \o s \in Seq(Packets(B)) /\ p \o r = Append(p \o s, x)
    BY <2>1, ConcatAppend
  <2>4. FlattenSeq(p \o r) = FlattenSeq(p \o s) \o x
    BY <2>3, FlattenAppend
  <2>5. FlattenSeq(r) = FlattenSeq(s) \o x
    BY <2>1, FlattenAppend
  <2>6. FlattenSeq(p) \in Packets(B) /\ FlattenSeq(s) \in Packets(B)
    BY FlattenType
  <2>7. (FlattenSeq(p) \o FlattenSeq(s)) \o x = FlattenSeq(p) \o (FlattenSeq(s) \o x)
    <3>1. Associates(B)
      BY Associative
    <3> QED
      BY <2>6, <3>1, Zenon DEF Associates
  <2> QED
    BY <2>2, <2>4, <2>5, <2>7, Zenon
<1>3. Nat \subseteq T
  <2> HIDE DEF T
  <2> QED BY <1>1, <1>2, Induction
<1> HIDE DEF Holds
<1> QED
  <2>1. Holds(q)
    BY <1>3
  <2> QED
    BY <2>1 DEF Holds

-----------------------------------------------------------------------------
(* A stream of messages: what was sent and not taken, as packets.          *)

\* The packets that messages are sent as.
Framings(M, B) == [M -> Packets(B)]

\* The packets of the messages after the first n.
Waiting(packet, sent, n) == [i \in 1 .. Len(sent) - n |-> packet[sent[n + i]]]

LEMMA WaitingType ==
  ASSUME NEW M, NEW B, NEW packet \in Framings(M, B), NEW sent \in Seq(M), NEW n \in 0 .. Len(sent)
  PROVE  Waiting(packet, sent, n) \in Seq(Packets(B)) /\ Len(Waiting(packet, sent, n)) = Len(sent) - n
<1>1. Len(sent) - n \in Nat
  OBVIOUS
<1>2. \A i \in 1 .. Len(sent) - n : packet[sent[n + i]] \in Packets(B)
  BY DEF Framings
<1> QED
  BY <1>1, <1>2 DEF Waiting

(* One more is sent.                                                       *)
LEMMA WaitingSent ==
  ASSUME NEW M, NEW B, NEW packet \in Framings(M, B), NEW sent \in Seq(M), NEW n \in 0 .. Len(sent),
         NEW m \in M, NEW more \in Seq(M), more = Append(sent, m)
  PROVE  FlattenSeq(Waiting(packet, more, n)) = FlattenSeq(Waiting(packet, sent, n)) \o packet[m]
<1> DEFINE old == Waiting(packet, sent, n)
           new == Waiting(packet, more, n)
<1>1. /\ Len(more) = Len(sent) + 1 /\ Len(sent) \in Nat
      /\ \A i \in 1 .. Len(sent) : more[i] = sent[i]
      /\ more[Len(sent) + 1] = m
  BY AppendProperties, LenProperties
<1>2. old \in Seq(Packets(B)) /\ Len(old) = Len(sent) - n
  BY WaitingType
<1>3. \A i \in 1 .. Len(sent) - n : old[i] = packet[sent[n + i]]
  BY DEF Waiting
<1>4. new \in Seq(Packets(B)) /\ Len(new) = Len(more) - n
  <2>1. Len(more) - n \in Nat
    BY <1>1
  <2>2. \A i \in 1 .. Len(more) - n : packet[more[n + i]] \in Packets(B)
    BY DEF Framings
  <2> QED
    BY <2>1, <2>2 DEF Waiting
<1>5. \A i \in 1 .. Len(more) - n : new[i] = packet[more[n + i]]
  BY DEF Waiting
<1> HIDE DEF old, new
<1>6. packet[m] \in Packets(B)
  BY DEF Framings
<1>7. PICK last : last = Append(old, packet[m])
  OBVIOUS
<1>8. /\ last \in Seq(Packets(B)) /\ Len(last) = Len(old) + 1
      /\ \A i \in 1 .. Len(old) : last[i] = old[i]
      /\ last[Len(old) + 1] = packet[m]
  BY <1>2, <1>6, <1>7, AppendProperties
<1>9. Len(new) = Len(last)
  BY <1>1, <1>2, <1>4, <1>8
<1>10. ASSUME NEW i \in 1 .. Len(new) PROVE new[i] = last[i]
  <2>1. new[i] = packet[more[n + i]]
    BY <1>4, <1>5
  <2>2. CASE i \in 1 .. Len(old)
    <3>1. more[n + i] = sent[n + i]
      BY <1>1, <1>2, <2>2
    <3>2. last[i] = packet[sent[n + i]]
      BY <1>2, <1>3, <1>8, <2>2
    <3> QED
      BY <2>1, <3>1, <3>2
  <2>3. CASE i = Len(old) + 1
    <3>1. n + i = Len(sent) + 1
      BY <1>1, <1>2, <2>3
    <3> QED
      BY <1>1, <1>8, <2>1, <2>3, <3>1
  <2>4. i \in 1 .. Len(old) \/ i = Len(old) + 1
    BY <1>1, <1>2, <1>4
  <2> QED
    BY <2>2, <2>3, <2>4
<1>11. new = last
  BY <1>4, <1>8, <1>9, <1>10, SeqEqual
<1>12. FlattenSeq(Append(old, packet[m])) = FlattenSeq(old) \o packet[m]
  BY <1>2, <1>6, FlattenAppend
<1> QED
  BY <1>7, <1>11, <1>12 DEF old, new

(* The first of those that wait.                                           *)
LEMMA WaitingFirst ==
  ASSUME NEW M, NEW B, NEW packet \in Framings(M, B), NEW sent \in Seq(M),
         NEW n \in 0 .. Len(sent), NEW k \in 0 .. Len(sent), k = n + 1
  PROVE  FlattenSeq(Waiting(packet, sent, n)) = packet[sent[k]] \o FlattenSeq(Waiting(packet, sent, k))
<1> DEFINE old == Waiting(packet, sent, n)
           new == Waiting(packet, sent, k)
<1>1. old \in Seq(Packets(B)) /\ Len(old) = Len(sent) - n
  BY WaitingType
<1>2. \A i \in 1 .. Len(sent) - n : old[i] = packet[sent[n + i]]
  BY DEF Waiting
<1>3. new \in Seq(Packets(B)) /\ Len(new) = Len(sent) - k
  BY WaitingType
<1>4. \A i \in 1 .. Len(sent) - k : new[i] = packet[sent[k + i]]
  BY DEF Waiting
<1> HIDE DEF old, new
<1>5. old # <<>>
  BY <1>1, EmptyOrNot
<1>6. Tail(old) = new
  <2>1. /\ Tail(old) \in Seq(Packets(B)) /\ Len(Tail(old)) = Len(old) - 1
        /\ \A i \in 1 .. Len(Tail(old)) : Tail(old)[i] = old[i + 1]
    BY <1>1, <1>5, HeadTailProperties
  <2>2. Len(Tail(old)) = Len(new)
    BY <1>1, <1>3, <2>1
  <2>3. ASSUME NEW i \in 1 .. Len(Tail(old)) PROVE Tail(old)[i] = new[i]
    <3>1. i \in 1 .. Len(sent) - k /\ i + 1 \in 1 .. Len(sent) - n /\ n + (i + 1) = k + i
      BY <1>1, <2>1
    <3>2. old[i + 1] = packet[sent[n + (i + 1)]]
      BY <1>2, <3>1
    <3> QED
      BY <1>4, <2>1, <3>1, <3>2
  <2> QED
    BY <1>3, <2>1, <2>2, <2>3, SeqEqual
<1>7. old[1] = packet[sent[k]]
  <2>1. 1 \in 1 .. Len(sent) - n
    OBVIOUS
  <2> QED
    BY <1>2, <2>1
<1>8. FlattenSeq(old) = old[1] \o FlattenSeq(Tail(old))
  BY <1>1, <1>5, FlattenFirst
<1> QED
  BY <1>6, <1>7, <1>8 DEF old, new

LEMMA WaitingNone ==
  ASSUME NEW packet, NEW sent, Len(sent) \in Nat
  PROVE  FlattenSeq(Waiting(packet, sent, Len(sent))) = <<>>
<1>1. Waiting(packet, sent, Len(sent)) = <<>>
  BY DEF Waiting
<1> QED
  BY <1>1, FlattenEmpty

(* What waits gets no longer by taking.                                    *)
LEMMA WaitingShrinks ==
  ASSUME NEW M, NEW B, NEW packet \in Framings(M, B), NEW sent \in Seq(M),
         NEW n \in 0 .. Len(sent), NEW k \in n .. Len(sent)
  PROVE  Len(FlattenSeq(Waiting(packet, sent, k))) <= Len(FlattenSeq(Waiting(packet, sent, n)))
<1> DEFINE L(i) == Len(FlattenSeq(Waiting(packet, sent, i)))
           T == {i \in Nat : n + i <= Len(sent) => L(n + i) <= L(n)}
<1>1. Len(sent) \in Nat /\ n \in Nat
  OBVIOUS
<1>2. \A i \in 0 .. Len(sent) : L(i) \in Nat
  <2> TAKE i \in 0 .. Len(sent)
  <2>1. Waiting(packet, sent, i) \in Seq(Packets(B))
    BY WaitingType
  <2>2. FlattenSeq(Waiting(packet, sent, i)) \in Packets(B)
    BY <2>1, FlattenType
  <2> QED
    BY <2>2, LenProperties DEF Packets
<1>3. \A i \in 0 .. Len(sent), j \in 0 .. Len(sent) : j = i + 1 => L(j) <= L(i)
  <2> SUFFICES ASSUME NEW i \in 0 .. Len(sent), NEW j \in 0 .. Len(sent), j = i + 1
               PROVE  L(j) <= L(i)
    OBVIOUS
  <2>1. FlattenSeq(Waiting(packet, sent, i)) = packet[sent[j]] \o FlattenSeq(Waiting(packet, sent, j))
    BY WaitingFirst, ZenonT(60)
  <2>2. Waiting(packet, sent, j) \in Seq(Packets(B))
    BY WaitingType
  <2>3. packet[sent[j]] \in Packets(B) /\ FlattenSeq(Waiting(packet, sent, j)) \in Packets(B)
    <3>1. sent[j] \in M
      BY <1>1
    <3> QED
      BY <2>2, <3>1, FlattenType DEF Framings
  <2>4. \A s, t \in Packets(B) : Len(s \o t) >= Len(t)
    BY DEF Packets
  <2> QED
    BY <2>1, <2>3, <2>4
<1> HIDE DEF L
<1>4. 0 \in T
  BY <1>1, <1>2
<1>5. ASSUME NEW i \in Nat, i \in T PROVE i + 1 \in T
  <2> SUFFICES ASSUME n + (i + 1) <= Len(sent) PROVE L(n + (i + 1)) <= L(n)
    OBVIOUS
  <2> DEFINE a == n + i
             b == n + (i + 1)
  <2>1. a \in 0 .. Len(sent) /\ b \in 0 .. Len(sent) /\ b = a + 1 /\ n + i <= Len(sent)
    BY <1>1
  <2>2. L(a) <= L(n)
    BY <1>5, <2>1
  <2> HIDE DEF a, b
  <2>3. L(b) <= L(a)
    BY <1>3, <2>1
  <2>4. L(a) \in Nat /\ L(b) \in Nat /\ L(n) \in Nat
    BY <1>2, <2>1
  <2>5. L(b) <= L(n)
    BY <2>2, <2>3, <2>4
  <2> QED
    BY <2>5 DEF b
<1>6. Nat \subseteq T
  <2> HIDE DEF T
  <2> QED BY <1>4, <1>5, Induction
<1>7. k - n \in Nat /\ n + (k - n) = k
  OBVIOUS
<1>8. L(k) <= L(n)
  BY <1>6, <1>7
<1> QED
  BY <1>8 DEF L

\* The first packet of what is in sight, and the rest, when n were taken.
NextRead(packet, sent, n, sight, rest) ==
  /\ n < Len(sent)
  /\ \A i \in 1 .. Len(packet[sent[n + 1]]) :
       i \in 1 .. Len(sight) => sight[i] = packet[sent[n + 1]][i]
  /\ Len(sight) + Len(rest)
       = Len(packet[sent[n + 1]]) + Len(FlattenSeq(Waiting(packet, sent, n + 1)))
  /\ Len(packet[sent[n + 1]]) <= Len(sight) =>
       /\ SubSeq(sight, 1, Len(packet[sent[n + 1]])) = packet[sent[n + 1]]
       /\ SubSeq(sight, Len(packet[sent[n + 1]]) + 1, Len(sight)) \o rest
            = FlattenSeq(Waiting(packet, sent, n + 1))

(* What a reader sees of the stream after n messages, if it is anything,   *)
(* begins with the next packet; if that is all in sight and cut off, the   *)
(* rest of the stream remains.                                             *)
LEMMA ReadNext ==
  ASSUME NEW M, NEW B, NEW packet \in Framings(M, B), NEW sent \in Seq(M), NEW n \in 0 .. Len(sent),
         NEW sight \in Packets(B), NEW rest \in Packets(B),
         sight \o rest = FlattenSeq(Waiting(packet, sent, n)), Len(sight) > 0
  PROVE  NextRead(packet, sent, n, sight, rest)
<1>1. n < Len(sent)
  <2> SUFFICES ASSUME n = Len(sent) PROVE FALSE
    OBVIOUS
  <2>1. sight \o rest = <<>>
    BY WaitingNone
  <2> QED
    BY <2>1, EmptyOrNot, ConcatProperties DEF Packets
<1>2. PICK k \in 0 .. Len(sent) : k = n + 1
  BY <1>1
<1>3. PICK first \in Packets(B) : first = packet[sent[k]]
  <2>1. sent[k] \in M
    BY <1>1, <1>2
  <2> QED
    BY <2>1 DEF Framings
<1>4. PICK others \in Packets(B) : others = FlattenSeq(Waiting(packet, sent, k))
  <2>1. Waiting(packet, sent, k) \in Seq(Packets(B))
    BY WaitingType
  <2>2. FlattenSeq(Waiting(packet, sent, k)) \in Packets(B)
    BY <2>1, FlattenType
  <2> QED
    BY <2>2
<1>5. sight \o rest = first \o others
  <2>1. FlattenSeq(Waiting(packet, sent, n)) = packet[sent[k]] \o FlattenSeq(Waiting(packet, sent, k))
    BY <1>2, WaitingFirst
  <2> QED
    BY <1>3, <1>4, <2>1
<1>6. \A i \in 1 .. Len(first) : i \in 1 .. Len(sight) => sight[i] = first[i]
  BY <1>5, SightBegins
<1>7. Len(sight) + Len(rest) = Len(first) + Len(others)
  <2>1. Len(sight \o rest) = Len(sight) + Len(rest)
    BY DEF Packets
  <2>2. Len(first \o others) = Len(first) + Len(others)
    BY DEF Packets
  <2> QED
    BY <1>5, <2>1, <2>2
<1>8. Len(first) <= Len(sight) =>
        /\ SubSeq(sight, 1, Len(first)) = first
        /\ SubSeq(sight, Len(first) + 1, Len(sight)) \o rest = others
  <2> HAVE Len(first) <= Len(sight)
  <2>1. SubSeq(sight, 1, Len(first)) = first
    BY <1>5, CutOff
  <2>2. SubSeq(sight, Len(first) + 1, Len(sight)) \o rest = others
    BY <1>5, CutOffRest
  <2> QED
    BY <2>1, <2>2
<1> QED
  BY <1>1, <1>2, <1>3, <1>4, <1>6, <1>7, <1>8 DEF NextRead
=============================================================================
