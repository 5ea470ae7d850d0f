------------------------------ MODULE Published ------------------------------
(***************************************************************************)
(* What amba init promises to amba run: images are usable all at once or   *)
(* not at all, and never turn into others while they are.                  *)
(***************************************************************************)
CONSTANT Versions

VARIABLE usable   \* the version of the usable images, and whether they are whole

Nothing == [of |-> "none", whole |-> FALSE]

Whole == [of : Versions, whole : {TRUE}]

Init == usable \in Whole \cup {Nothing}

Publish == usable = Nothing /\ usable' \in Whole

Withdraw == usable' = Nothing

Next == Publish \/ Withdraw

Spec == Init /\ [][Next]_usable
=============================================================================
