--------------------------- MODULE EventQueueProofs ---------------------------
(***************************************************************************)
(* Theorems about EventQueue: the callback's context is alive, and queue   *)
(* and thread implement EventChannel, for any events and threads.          *)
(***************************************************************************)
EXTENDS EventQueue, TLAPS

\* The event thread lives from create to nativeRelease, which has asked it to
\* leave only when the player is gone.
ThreadInv ==
  /\ jni = "new" => thread = "ended" /\ ~quit /\ queue = <<>> /\ stray = {}
  /\ jni \in {"up", "reset", "release"} => thread # "ended" /\ ~quit
  /\ thread = "deliver" => msg \in Event

Inv == TypeOK /\ ContextAlive /\ ThreadInv

LEMMA NextCases ==
  ASSUME [Next]_vars
  PROVE  \/ Top \/ Clean \/ Sleep \/ Take \/ Deliver
         \/ (\E p \in Poster : Raise(p)) \/ (\E p \in Poster : Add(p))
         \/ Create \/ Reset \/ ResetEnds \/ Release \/ Destroy \/ Joined \/ UNCHANGED vars
BY DEF Next, ThreadStep

LEMMA TypeStep == TypeOK /\ [Next]_vars => TypeOK'
<1> SUFFICES ASSUME TypeOK, [Next]_vars PROVE TypeOK'
  OBVIOUS
<1>0. <<>> \in Seq(Event)
  OBVIOUS
<1>1. CASE Top \/ Sleep \/ Deliver \/ Reset \/ ResetEnds \/ Release \/ Joined \/ UNCHANGED vars
  BY <1>1 DEF Top, Sleep, Deliver, Reset, ResetEnds, Release, Joined, PlayerGone, vars, TypeOK
<1>2. CASE Clean \/ Create \/ Destroy
  BY <1>0, <1>2 DEF Clean, Create, Destroy, PlayerGone, Signalled, TypeOK
<1>3. CASE Take
  <2>1. Head(queue) \in Event /\ Tail(queue) \in Seq(Event)
    BY <1>3 DEF Take, TypeOK
  <2>2. QED
    BY <1>3, <2>1 DEF Take, TypeOK
<1>4. ASSUME NEW p \in Poster, Raise(p) PROVE TypeOK'
  BY <1>4 DEF Raise, TypeOK
<1>5. ASSUME NEW p \in Poster, Add(p) PROVE TypeOK'
  <2>1. raised[p] \in Event
    BY <1>5 DEF Add, TypeOK
  <2>2. queue' \in Seq(Event)
    BY <1>5, <2>1 DEF Add, TypeOK
  <2>3. QED
    BY <1>5, <2>2 DEF Add, Signalled, TypeOK
<1>6. QED
  BY <1>1, <1>2, <1>3, <1>4, <1>5, NextCases

LEMMA ThreadStepInv == Inv /\ [Next]_vars => ThreadInv'
<1> SUFFICES ASSUME Inv, [Next]_vars PROVE ThreadInv'
  OBVIOUS
<1>0. TypeOK /\ ThreadInv /\ ContextAlive
  BY DEF Inv
<1>1. CASE Top \/ Clean \/ Sleep \/ Deliver
  BY <1>0, <1>1 DEF Top, Clean, Sleep, Deliver, ThreadInv, TypeOK
<1>2. CASE Take
  BY <1>0, <1>2 DEF Take, ThreadInv, TypeOK
<1>3. CASE Create \/ Reset \/ ResetEnds \/ Release \/ Destroy \/ Joined \/ UNCHANGED vars
  BY <1>0, <1>3 DEF Create, Reset, ResetEnds, Release, Destroy, Joined, vars, Signalled, ThreadInv, TypeOK
<1>4. ASSUME NEW p \in Poster, Raise(p) PROVE ThreadInv'
  BY <1>0, <1>4 DEF Raise, ThreadInv
<1>5. ASSUME NEW p \in Poster, Add(p) PROVE ThreadInv'
  <2>1. UNCHANGED <<jni, quit, msg, stray>> /\ jni # "new"
    BY <1>0, <1>5 DEF Add, ContextAlive, ThreadInv
  <2>2. thread' \in {thread, "lock"} /\ (thread' = thread \/ thread = "asleep")
    BY <1>5 DEF Add, Signalled
  <2>3. QED
    BY <1>0, <2>1, <2>2 DEF ThreadInv
<1>6. QED
  BY <1>1, <1>2, <1>3, <1>4, <1>5, NextCases

LEMMA ContextStep == Inv /\ [Next]_vars => ContextAlive'
<1> SUFFICES ASSUME Inv, [Next]_vars PROVE ContextAlive'
  OBVIOUS
<1>0. TypeOK /\ ThreadInv /\ ContextAlive
  BY DEF Inv
<1>1. CASE Top \/ Clean \/ Sleep \/ Take \/ Deliver
  BY <1>0, <1>1 DEF Top, Clean, Sleep, Take, Deliver, ContextAlive, TypeOK
<1>2. CASE Create \/ Reset \/ Release \/ UNCHANGED vars
  BY <1>0, <1>2 DEF Create, Reset, Release, vars, ContextAlive, TypeOK
<1>3. CASE ResetEnds \/ Destroy \/ Joined
  BY <1>0, <1>3 DEF ResetEnds, Destroy, Joined, PlayerGone, ContextAlive, ThreadInv, TypeOK
<1>4. ASSUME NEW p \in Poster, Raise(p) PROVE ContextAlive'
  BY <1>0, <1>4 DEF Raise, ContextAlive, ThreadInv, TypeOK
<1>5. ASSUME NEW p \in Poster, Add(p) PROVE ContextAlive'
  BY <1>0, <1>5 DEF Add, Signalled, ContextAlive, ThreadInv, TypeOK
<1>6. QED
  BY <1>1, <1>2, <1>3, <1>4, <1>5, NextCases

LEMMA InitInv == Init => Inv
<1> SUFFICES ASSUME Init PROVE Inv
  OBVIOUS
<1>1. <<>> \in Seq(Event)
  OBVIOUS
<1>2. TypeOK
  BY <1>1 DEF Init, TypeOK
<1>3. ContextAlive /\ ThreadInv
  BY DEF Init, ContextAlive, ThreadInv
<1>4. QED
  BY <1>2, <1>3 DEF Inv

LEMMA Invariance == Spec => []Inv
<1>1. Inv /\ [Next]_vars => Inv'
  BY TypeStep, ThreadStepInv, ContextStep DEF Inv
<1>2. QED
  BY <1>1, InitInv, PTL DEF Spec

\* The event thread's variables keep to their values.
THEOREM TypeCorrect == Spec => []TypeOK
<1>1. Inv => TypeOK
  BY DEF Inv
<1>2. QED
  BY <1>1, Invariance, PTL

\* No thread of a stream that destroy has seen is left with a context that
\* nativeRelease has freed or is about to free, across any number of resets
\* (avos_mp_event_cb, event_thread_destroy).
THEOREM ContextIsAlive == Spec => []ContextAlive
<1>1. Inv => ContextAlive
  BY DEF Inv
<1>2. QED
  BY <1>1, Invariance, PTL

\* Queue and thread implement the channel: order, each event once, nothing after
\* the thread has gone (event_thread, event_thread_add).
THEOREM ImplementsChannel == Spec => ChannelSafe
<1>1. Init => Channel!Init
  BY DEF Init, Channel!Init, pending
<1>2. ASSUME Inv, [Next]_vars PROVE [Channel!Next]_<<pending, thread # "ended">>
  <2>0. TypeOK /\ ThreadInv /\ ContextAlive
    BY <1>2 DEF Inv
  <2>a. ASSUME UNCHANGED <<pending, thread # "ended">> PROVE [Channel!Next]_<<pending, thread # "ended">>
    BY <2>a
  <2>1. CASE Top
    <3>1. CASE quit
      <4>1. Channel!Close
        BY <2>1, <3>1 DEF Top, Channel!Close, pending
      <4>2. QED
        BY <4>1 DEF Channel!Next
    <3>2. CASE ~quit
      <4>1. UNCHANGED <<pending, thread # "ended">>
        BY <2>1, <3>2 DEF Top, pending
      <4>2. QED
        BY <4>1
    <3>3. QED
      BY <3>1, <3>2
  <2>2. CASE Clean
    <3>1. Channel!Close
      BY <2>2 DEF Clean, Channel!Close, pending
    <3>2. QED
      BY <3>1 DEF Channel!Next
  <2>3. CASE Sleep
    <3>1. UNCHANGED <<pending, thread # "ended">>
      BY <2>3 DEF Sleep, pending
    <3>2. QED
      BY <3>1
  <2>4. CASE Take
    <3>1. queue = <<Head(queue)>> \o Tail(queue)
      BY <2>0, <2>4 DEF Take, TypeOK
    <3>2. pending = queue /\ pending' = <<msg'>> \o queue'
      BY <2>4 DEF Take, pending
    <3>3. UNCHANGED <<pending, thread # "ended">>
      BY <2>4, <3>1, <3>2 DEF Take
    <3>4. QED
      BY <3>3
  <2>5. CASE Deliver
    <3>1. pending = <<msg>> \o queue /\ pending' = queue
      BY <2>5 DEF Deliver, pending
    <3>2. <<msg>> \o queue # <<>> /\ Tail(<<msg>> \o queue) = queue
      BY <2>0, <2>5 DEF Deliver, TypeOK, ThreadInv
    <3>3. Channel!Deliver
      BY <2>5, <3>1, <3>2 DEF Deliver, Channel!Deliver
    <3>4. QED
      BY <3>3 DEF Channel!Next
  <2>6. ASSUME NEW p \in Poster, Raise(p) PROVE [Channel!Next]_<<pending, thread # "ended">>
    <3>1. UNCHANGED <<pending, thread # "ended">>
      BY <2>6 DEF Raise, pending
    <3>2. QED
      BY <3>1
  <2>7. ASSUME NEW p \in Poster, Add(p) PROVE [Channel!Next]_<<pending, thread # "ended">>
    <3>1. raised[p] \in Event
      BY <2>0, <2>7 DEF Add, TypeOK
    <3>2. CASE thread = "ended"
      <4>1. UNCHANGED <<pending, thread # "ended">>
        BY <2>7, <3>2 DEF Add, Signalled, pending
      <4>2. QED
        BY <4>1
    <3>3. CASE thread # "ended"
      <4>1. thread' # "ended"
        BY <2>7, <3>3 DEF Add, Signalled
      <4>2. pending' = Append(pending, raised[p])
        <5>1. CASE thread = "deliver"
          <6>1. pending = <<msg>> \o queue /\ pending' = <<msg>> \o Append(queue, raised[p])
            BY <2>7, <5>1 DEF Add, Signalled, pending
          <6>2. <<msg>> \o Append(queue, raised[p]) = Append(<<msg>> \o queue, raised[p])
            BY <2>0, <3>1, <5>1 DEF TypeOK, ThreadInv
          <6>3. QED
            BY <6>1, <6>2
        <5>2. CASE thread # "deliver"
          BY <2>7, <3>3, <4>1, <5>2 DEF Add, Signalled, pending
        <5>3. QED
          BY <5>1, <5>2
      <4>3. Channel!Accept(raised[p])
        BY <3>3, <4>1, <4>2 DEF Channel!Accept
      <4>4. QED
        BY <3>1, <4>3 DEF Channel!Next
    <3>4. QED
      BY <3>2, <3>3
  <2>8. CASE Create
    <3>1. thread = "ended"
      BY <2>0, <2>8 DEF Create, ThreadInv
    <3>2. Channel!Open
      BY <2>0, <2>8, <3>1 DEF Create, Channel!Open, ThreadInv, pending
    <3>3. QED
      BY <3>2 DEF Channel!Next
  <2>9. CASE Reset \/ ResetEnds \/ Release \/ Destroy \/ Joined \/ UNCHANGED vars
    <3>1. UNCHANGED <<pending, thread # "ended">>
      BY <2>0, <2>9 DEF Reset, ResetEnds, Release, Destroy, Joined, vars, Signalled, pending
    <3>2. QED
      BY <3>1
  <2>10. QED
    BY <1>2, <2>1, <2>2, <2>3, <2>4, <2>5, <2>6, <2>7, <2>8, <2>9, NextCases
<1>3. QED
  BY <1>1, <1>2, Invariance, PTL DEF Spec, ChannelSafe, Channel!Spec
=============================================================================
