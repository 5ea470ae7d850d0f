------------------------------- MODULE PlainSet -------------------------------
(***************************************************************************)
(* What a set promises: its calls change its elements and answer as the    *)
(* operations on sets do, whatever it is stored in.                        *)
(***************************************************************************)
EXTENDS FiniteSets

CONSTANT Values

VARIABLES elems,    \* the elements
          answer    \* the last call, and what it returned

vars == <<elems, answer>>

Init == elems = {} /\ answer = <<"new">>

Insert == \E x \in Values : elems' = elems \cup {x} /\ answer' = <<"insert", x, x \notin elems>>

Remove == \E x \in Values : elems' = elems \ {x} /\ answer' = <<"remove", x, x \in elems>>

Contains == \E x \in Values : answer' = <<"contains", x, x \in elems>> /\ UNCHANGED elems

Count == answer' = <<"len", Cardinality(elems)>> /\ UNCHANGED elems

Union == \E S \in SUBSET Values : elems' = elems \cup S /\ answer' = <<"union", S>>

Next == Insert \/ Remove \/ Contains \/ Count \/ Union

Spec == Init /\ [][Next]_vars
=============================================================================
