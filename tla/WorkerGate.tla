------------------------------ MODULE WorkerGate ------------------------------
(***************************************************************************)
(* What thread_state_set and thread_state_ack (src/Source/athread.c)       *)
(* promise about one worker thread: callers ask for a mode, each waiting   *)
(* unless it has been granted already; the worker grants what was asked    *)
(* last between two turns of its work, and only then do they return.  The  *)
(* worker works only in the mode RUNNING.                                  *)
(***************************************************************************)

CONSTANT Callers

VARIABLES
  asked,    \* the mode last asked for
  granted,  \* the mode the worker last acknowledged
  waiting,  \* the callers that wait for it
  busy      \* the worker is in a turn of its work

vars == <<asked, granted, waiting, busy>>

Modes == {"EXIT", "IDLE", "RUNNING"}

Init == asked = "IDLE" /\ granted = "IDLE" /\ waiting = {} /\ busy = FALSE

Ask(c, m) ==
  /\ c \notin waiting /\ granted # "EXIT"
  /\ asked' = m
  /\ waiting' = IF granted = m THEN waiting ELSE waiting \cup {c}
  /\ UNCHANGED <<granted, busy>>

Grant ==
  /\ ~busy
  /\ granted' = asked
  /\ UNCHANGED <<asked, waiting, busy>>

Return(c) ==
  /\ c \in waiting /\ granted = asked
  /\ waiting' = waiting \ {c}
  /\ UNCHANGED <<asked, granted, busy>>

Begin ==
  /\ ~busy /\ granted = "RUNNING"
  /\ busy' = TRUE
  /\ UNCHANGED <<asked, granted, waiting>>

End ==
  /\ busy
  /\ busy' = FALSE
  /\ UNCHANGED <<asked, granted, waiting>>

Next ==
  \/ Grant \/ Begin \/ End
  \/ \E c \in Callers : Return(c) \/ \E m \in Modes : Ask(c, m)

Spec == Init /\ [][Next]_vars

\* When nobody is waiting for an answer, the worker is not at work unless it was
\* asked to run, and one that has left never works again.
Promise == waiting = {} /\ asked # "RUNNING" => ~busy
=============================================================================
