----------------------------- MODULE EventChannel -----------------------------
(***************************************************************************)
(* What the Java side may rely on: while the channel is open events come   *)
(* out in the order in which they went in, each once, none is kept for     *)
(* ever, and what is left when it closes is never seen.                    *)
(***************************************************************************)
EXTENDS Sequences

CONSTANT Event

VARIABLES pending, open

Init == pending = <<>> /\ open = FALSE

Open  == ~open /\ open' = TRUE /\ UNCHANGED pending
Close == open /\ open' = FALSE /\ pending' = <<>>

Accept(e) == open /\ pending' = Append(pending, e) /\ UNCHANGED open
Deliver   == open /\ pending # <<>> /\ pending' = Tail(pending) /\ UNCHANGED open

Next == Open \/ Close \/ Deliver \/ \E e \in Event : Accept(e)

Spec == Init /\ [][Next]_<<pending, open>>

FairSpec == Spec /\ WF_<<pending, open>>(Deliver)
=============================================================================
