---------------------------- MODULE DataStructures ----------------------------
(***************************************************************************)
(* The data structures below the graphs of the window: the union-find that *)
(* counts their pieces, the set their neighbours are kept in, the tree     *)
(* their layout reads repulsion from and the cache of source files their   *)
(* texts are made from.  They do not meet, so a behaviour has one of them  *)
(* as its `subject` and leaves the others as they are.                     *)
(***************************************************************************)
EXTENDS DisjointSets, BarnesHut, SourceLines

CONSTANTS Values, SMALL_SIZE

ASSUME ValuesAssumption == IsFiniteSet(Values) /\ Values \subseteq Int /\ SMALL_SIZE \in Nat

VARIABLES subject, rep, answer

Small == INSTANCE SmallU64Set

all == <<subject, vars, boxVars, rep, answer, lineVars>>

AllInit ==
  /\ subject \in {"pieces", "neighbours", "boxes", "lines"}
  /\ Init /\ BoxesInit /\ Small!SetInit /\ LinesInit
  /\ subject # "pieces" => ~rooted
  /\ subject # "boxes" => count = 1
  /\ subject # "lines" => \A path \in Paths : disk[path] = Unreadable

Pieces ==
  subject = "pieces" /\ Next /\ UNCHANGED <<subject, boxVars, rep, answer, lineVars>>
Neighbours ==
  subject = "neighbours" /\ Small!SetNext /\ UNCHANGED <<subject, vars, boxVars, lineVars>>
Boxes ==
  subject = "boxes" /\ BoxesNext /\ UNCHANGED <<subject, vars, rep, answer, lineVars>>
Texts ==
  subject = "lines" /\ LinesNext /\ UNCHANGED <<subject, vars, boxVars, rep, answer>>

AllNext == Pieces \/ Neighbours \/ Boxes \/ Texts

\* A call of the union-find runs to its end.
AllSpec ==
  AllInit /\ [][AllNext]_all
    /\ WF_all(subject = "pieces" /\ InCall /\ UNCHANGED <<subject, boxVars, rep, answer, lineVars>>)

(* Across the spill of the array to a tree, SmallU64Set answers as a set   *)
(* does: GraphOps takes it for one.                                        *)
NeighboursAreSets == Small!Plain!Spec
=============================================================================
