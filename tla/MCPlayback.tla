----------------------------- MODULE MCPlayback -----------------------------
(***************************************************************************)
(* Files for TLC: every order of up to six packets, where sound may begin   *)
(* late, the third picture may come before the second, the first packet of   *)
(* each stream may lack its timestamp and the first picture may not be a key *)
(* frame.  A chunk may be longer than the time to the next.                  *)
(***************************************************************************)
EXTENDS Playback, FiniteSets

MaxPackets == 6

Before(order, i) == Cardinality({j \in 1..(i - 1) : order[j] = order[i]})

Reordered(n) == CASE n = 1 -> 2 [] n = 2 -> 1 [] OTHER -> n

File(order, late, untimed, key, reorder) ==
  [i \in 1..Len(order) |->
     LET n == Before(order, i)
     IN  IF order[i] = "audio"
           THEN [stream |-> "audio", key |-> TRUE,
                 pts |-> IF "audio" \in untimed /\ n = 0 THEN NoPts ELSE n + late]
           ELSE [stream |-> "video", key |-> key \/ n > 0,
                 pts |-> IF "video" \in untimed /\ n = 0 THEN NoPts
                         ELSE IF reorder THEN Reordered(n) ELSE n]]

Orders == UNION {[1..n -> {"audio", "video"}] : n \in 1..MaxPackets}

SmallFiles ==
  {File(o, l, u, k, r) : o \in Orders, l \in {0, 2}, u \in SUBSET {"audio", "video"},
                         k \in BOOLEAN, r \in BOOLEAN}

MCLengths == {0, 2}
=============================================================================
