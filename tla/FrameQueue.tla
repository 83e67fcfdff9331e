----------------------------- MODULE FrameQueue -----------------------------
(***************************************************************************)
(* The queues of frames of src/Source/frame_q.c as sequences: a queue is   *)
(* what a walk along the `next' pointers from its head meets.  A frame has *)
(* one `next', so it may be in one queue only, once.                       *)
(***************************************************************************)
EXTENDS Naturals, Sequences, SequencesExt

\* frame_q_put looks for the frame first, and refuses to add it again.
FqPut(q, f) == IF f \in ToSet(q) THEN q ELSE Append(q, f)

\* frame_q_put_head.
FqPutHead(q, f) == <<f>> \o q

\* frame_q_get takes the head off: what it returns, what it leaves.
FqFirst(q) == Head(q)
FqRest(q) == Tail(q)

\* The frames of some queues and of some threads' hands, one after the other:
\* nothing is lost and nothing is in two places when this is a permutation.
Partition(places, all) ==
  /\ \A i, j \in DOMAIN places : i # j => ToSet(places[i]) \cap ToSet(places[j]) = {}
  /\ \A i \in DOMAIN places : IsInjective(places[i])
  /\ UNION {ToSet(places[i]) : i \in DOMAIN places} = all
=============================================================================
