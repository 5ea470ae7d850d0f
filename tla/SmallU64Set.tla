----------------------------- MODULE SmallU64Set -----------------------------
(***************************************************************************)
(* The set of neighbours of a node, data-structures/src/small_set.rs: an   *)
(* array of at most SMALL_SIZE values in no order, and once that is full a *)
(* tree, which it stays.  A tree is a set of TLA+.                         *)
(***************************************************************************)
EXTENDS Integers, Sequences, FiniteSets, SequencesExt

CONSTANTS Values,      \* values that occur
          SMALL_SIZE

VARIABLES rep,     \* [kind |-> "Vec" or "Set", v |-> array, s |-> tree]
          answer   \* the last call, and what it returned

setVars == <<rep, answer>>

Vec(v) == [kind |-> "Vec", v |-> v, s |-> {}]
Set(s) == [kind |-> "Set", v |-> <<>>, s |-> s]

SetInit == rep = Vec(<<>>) /\ answer = <<"new">>

\* Mutant: the value that no longer fits is left behind.
SpilledWithout(v, x) == ToSet(v)

Spilled(v, x) == ToSet(v) \cup {x}

Held(v, x) == Contains(v, x)

\* insert, on any representation: the new one and whether x was new.
Inserted(r, x) ==
  IF r.kind = "Set" THEN [rep |-> Set(r.s \cup {x}), new |-> x \notin r.s]
  ELSE IF Held(r.v, x) THEN [rep |-> r, new |-> FALSE]
  ELSE [rep |-> IF Len(r.v) = SMALL_SIZE THEN Set(Spilled(r.v, x)) ELSE Vec(Append(r.v, x)),
        new |-> TRUE]

Insert == \E x \in Values :
  /\ rep' = Inserted(rep, x).rep
  /\ answer' = <<"insert", x, Inserted(rep, x).new>>

\* Vec::remove shifts the values after it.
RemoveValue == \E x \in Values :
  \/ /\ rep.kind = "Set"
     /\ rep' = Set(rep.s \ {x}) /\ answer' = <<"remove", x, x \in rep.s>>
  \/ /\ rep.kind = "Vec" /\ Contains(rep.v, x)
     /\ rep' = Vec(RemoveAt(rep.v, SelectInSeq(rep.v, LAMBDA y : y = x)))
     /\ answer' = <<"remove", x, TRUE>>
  \/ /\ rep.kind = "Vec" /\ ~Contains(rep.v, x)
     /\ rep' = rep /\ answer' = <<"remove", x, FALSE>>

\* Another set, in the order in which iter() has it: an array's own, and a
\* tree's ascending.
Ascending(v) == \A i, j \in DOMAIN v : i < j => v[i] < v[j]

Iterated ==
  {v \in BoundedSeq(Values, Cardinality(Values)) :
     IsInjective(v) /\ (Len(v) <= SMALL_SIZE \/ Ascending(v))}

\* union: one insert after the other.
Joined(r, other) ==
  LET after[n \in 0 .. Len(other)] ==
        IF n = 0 THEN r ELSE Inserted(after[n - 1], other[n]).rep
  IN  after[Len(other)]

Union == \E other \in Iterated :
  /\ rep' = Joined(rep, other)
  /\ answer' = <<"union", ToSet(other)>>

Elements == IF rep.kind = "Vec" THEN ToSet(rep.v) ELSE rep.s

\* contains
Asked == \E x \in Values : answer' = <<"contains", x, x \in Elements>> /\ UNCHANGED rep

\* len, which merging nodes and their links goes by.
Length == IF rep.kind = "Vec" THEN Len(rep.v) ELSE Cardinality(rep.s)

AskedLength == answer' = <<"len", Length>> /\ UNCHANGED rep

SetNext == Insert \/ RemoveValue \/ Union \/ Asked \/ AskedLength

-----------------------------------------------------------------------------
(* Array or tree, and across the spill from one to the other, the set      *)
(* answers as a set does.  len counts: get_any takes the only element      *)
(* where are_mergable_link saw len() = 1.                                  *)
Plain == INSTANCE PlainSet WITH elems <- Elements
=============================================================================
