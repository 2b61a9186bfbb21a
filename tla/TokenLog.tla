------------------------------ MODULE TokenLog ------------------------------
(***************************************************************************)
(* What a decoding session promises its caller: it has seen a sequence of  *)
(* tokens, a step adds a chunk and answers for exactly that sequence, and  *)
(* once a step has failed after it was begun nothing is answered again.    *)
(***************************************************************************)
EXTENDS Integers, Sequences

CONSTANTS Token, MaxContext

VARIABLES
  seen,      \* the tokens whose effects the next step builds on
  answer,    \* what the logits given out last stand for
  usable

vars == <<seen, answer, usable>>

Init == seen = <<>> /\ answer = <<>> /\ usable = TRUE

Step ==
  /\ usable
  /\ \E n \in 1..(MaxContext - Len(seen)) : \E chunk \in [1..n -> Token] :
       seen' = seen \o chunk
  /\ answer' = seen'
  /\ UNCHANGED usable

Fail == usable /\ usable' = FALSE /\ UNCHANGED <<seen, answer>>

Next == Step \/ Fail

Spec == Init /\ [][Next]_vars
==============================================================================
