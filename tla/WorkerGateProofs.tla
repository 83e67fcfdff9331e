--------------------------- MODULE WorkerGateProofs ---------------------------
(***************************************************************************)
(* What WorkerGate promises, proved.  StreamThreadsProofs shows that the   *)
(* four workers of a stream implement it (GatesSafe), and so keep its      *)
(* promise too (WorkersStandStill).                                        *)
(***************************************************************************)
EXTENDS WorkerGate, TLAPS

\* The worker is busy only with a grant to run, and the grant is what was last
\* asked unless a caller is waiting for it.
GateInv ==
  /\ busy \in BOOLEAN
  /\ busy => granted = "RUNNING"
  /\ waiting = {} => granted = asked

\* Every step of the callers and of the worker preserves it.
LEMMA GateStep == GateInv /\ [Next]_vars => GateInv'
<1> SUFFICES ASSUME GateInv, [Next]_vars PROVE GateInv'
  OBVIOUS
<1> USE DEF GateInv
<1>1. ASSUME NEW c \in Callers, NEW m \in Modes, Ask(c, m) PROVE GateInv'
  BY <1>1 DEF Ask
<1>2. CASE Grant
  BY <1>2 DEF Grant
<1>3. ASSUME NEW c \in Callers, Return(c) PROVE GateInv'
  BY <1>3 DEF Return
<1>4. CASE Begin
  BY <1>4 DEF Begin
<1>5. CASE End
  BY <1>5 DEF End
<1>6. CASE UNCHANGED vars
  BY <1>6 DEF vars
<1>7. QED
  BY <1>1, <1>2, <1>3, <1>4, <1>5, <1>6 DEF Next

\* When thread_state_set(IDLE) or thread_state_set(EXIT) has returned, the
\* worker stands still, until somebody asks for another mode.
THEOREM GatePromise == Spec => []Promise
<1>1. Init => GateInv
  BY DEF Init, GateInv
<1>2. GateInv => Promise
  BY DEF GateInv, Promise
<1>3. QED
  BY <1>1, <1>2, GateStep, PTL DEF Spec
=============================================================================
