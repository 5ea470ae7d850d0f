------------------------------- MODULE Recipes -------------------------------
(***************************************************************************)
(* Which bytes of a file are symbolic: SymbolicRange of the recipe crate,  *)
(* and symbfile of the bootstrap, which hands S2E what is left of the      *)
(* ranges once they are cut to the file.                                   *)
(***************************************************************************)
EXTENDS Integers, Sequences, SequencesExt

CONSTANT MaxWord   \* the largest u64

ASSUME RecipesAssumption == MaxWord \in Nat \ {0}

Word == 0 .. MaxWord

IndexRange(a) == [kind |-> "Index", a |-> a]
BeginRange(a) == [kind |-> "Begin", a |-> a]
FullRange(a, b) == [kind |-> "Range", a |-> a, b |-> b]

SymbolicRange ==
  {IndexRange(a) : a \in Word} \cup {BeginRange(a) : a \in Word} \cup {FullRange(a, b) : a, b \in Word}

Wrapped(n) == n % (MaxWord + 1)

\* SymbolicRange::range.  The sum overflows for the last index.
Pair(r) ==
  CASE r.kind = "Index" -> <<r.a, Wrapped(r.a + 1)>>
    [] r.kind = "Begin" -> <<r.a, MaxWord>>
    [] r.kind = "Range" -> <<r.a, r.b>>

Overflows(r) == r.kind = "Index" /\ r.a = MaxWord

\* Mutant: ranges are merged in the order in which they are written.
AsWritten(p, q) == FALSE

\* By the start, and the longer one first.
Before(p, q) == p[1] < q[1] \/ (p[1] = q[1] /\ p[2] > q[2])

Hull(p, q) == <<IF p[1] < q[1] THEN p[1] ELSE q[1], IF p[2] > q[2] THEN p[2] ELSE q[2]>>

Sorted(pairs) ==
  LET order == CHOOSE f \in Bijection(DOMAIN pairs, DOMAIN pairs) :
                 \A j, k \in DOMAIN pairs : j < k => ~Before(pairs[f[k]], pairs[f[j]])
  IN  [k \in DOMAIN pairs |-> pairs[order[k]]]

\* One step of the merge over the sorted ranges.
Merged(ret, q) ==
  IF ret # <<>> /\ q[1] <= Last(ret)[2]
  THEN Append(Front(ret), Hull(Last(ret), q))
  ELSE Append(ret, q)

MergedAll(pairs) ==
  LET ret[n \in 0 .. Len(pairs)] == IF n = 0 THEN <<>> ELSE Merged(ret[n - 1], pairs[n])
  IN  ret[Len(pairs)]

Normalize(ranges) ==
  LET ret == MergedAll(Sorted([k \in DOMAIN ranges |-> Pair(ranges[k])]))
  IN  [k \in DOMAIN ret |-> FullRange(ret[k][1], ret[k][2])]

\* start and len.  The difference overflows for a range that ends before it
\* starts; normalised, all ranges are of this kind.
RangeStart(r) == Pair(r)[1]
RangeLen(r) == Wrapped(r.b - r.a)
Reversed(r) == r.kind = "Range" /\ r.b < r.a

Cut(r, total) == IF RangeLen(r) < total - RangeStart(r) THEN RangeLen(r) ELSE total - RangeStart(r)

\* symbfile: starts and lengths for s2ecmd.
InFile(ranges, total) ==
  LET kept[n \in 0 .. Len(ranges)] ==
        IF n = 0 THEN <<>>
        ELSE IF RangeStart(ranges[n]) < total THEN Append(kept[n - 1], ranges[n])
        ELSE kept[n - 1]
  IN  kept[Len(ranges)]

Symbfile(ranges, total) ==
  LET in == InFile(ranges, total)
  IN  [k \in DOMAIN in |-> <<RangeStart(in[k]), Cut(in[k], total)>>]

BytesOf(mark) == mark[1] .. mark[1] + mark[2] - 1

\* What the recipe asks for: the bytes of the file that some range names.
Asked(ranges, total) ==
  {byte \in 0 .. total - 1 : \E k \in DOMAIN ranges :
     CASE ranges[k].kind = "Index" -> byte = ranges[k].a
       [] ranges[k].kind = "Begin" -> byte >= ranges[k].a
       [] ranges[k].kind = "Range" -> ranges[k].a <= byte /\ byte < ranges[k].b}
=============================================================================
