--------------------------------- MODULE Fifo ---------------------------------
(***************************************************************************)
(* What a byte stream cut into messages promises to both of its ends: the  *)
(* messages are taken whole, one after the other, in the order in which    *)
(* they were sent, each once.                                              *)
(***************************************************************************)
EXTENDS Integers, Sequences

CONSTANT Messages

VARIABLES sent,   \* messages sent so far
          taken   \* messages taken so far

vars == <<sent, taken>>

Init == sent = <<>> /\ taken = <<>>

Send == \E m \in Messages : sent' = Append(sent, m) /\ UNCHANGED taken

Take ==
  /\ Len(taken) < Len(sent)
  /\ taken' = Append(taken, sent[Len(taken) + 1])
  /\ UNCHANGED sent

Next == Send \/ Take

Spec == Init /\ [][Next]_vars
=============================================================================
