-------------------------- MODULE AsyncPlayerProofs --------------------------
(***************************************************************************)
(* Theorems about AsyncPlayer, for every set of positions and any number   *)
(* of video objects.                                                       *)
(***************************************************************************)
EXTENDS AsyncPlayer, TLAPS

\* Where the command thread is says which command it runs, and which commands
\* may be in the mailbox depends on where the client is.
MailboxInv ==
  /\ apc = "top" => cur.id # "EXIT"
  /\ apc = "parked" => cur.id = "WAIT"
  /\ apc \in {"open", "opening"} => cur.id = "OPEN"
  /\ apc \in {"seek", "seeking"} => cur.id = "SEEK"
  /\ apc \in {"exit", "done"} => cur.id = "EXIT"
  /\ next.id = "EXIT" => cpc = "join" /\ cur.id # "EXIT"
  /\ cur.id = "EXIT" => cpc \in {"join", "freed"} /\ next.id = "WAIT"
  /\ cpc = "freed" => apc = "done"

\* Once close has cancelled the pending command the mailbox stays empty.
CloseInv ==
  /\ cpc = "wait" /\ cop = "close" => next.id = "WAIT" /\ want = 0
  /\ cpc = "closing" => cur.id = "WAIT" /\ next.id = "WAIT" /\ want = 0

\* Who works on which video object.
ObjectInv ==
  /\ media # NULL => type = "VID" /\ Live(media)
  /\ apc = "opening" => avid \in Videos /\ video[avid] = "opening"
  /\ cpc = "opening" => cvid \in Videos /\ video[cvid] = "opening"
  /\ apc = "opening" /\ cpc = "opening" => avid # cvid
  /\ cpc \in {"control", "seeking", "closing"} => cvid = NULL \/ Live(cvid)
  /\ cpc \in {"control", "closing"} => cvid # NULL
  /\ OpeningAlone

\* Where the last seek_async is: in the mailbox, being run, or done.
SeekInv ==
  want # 0 =>
    /\ media # NULL /\ video[media] = "ready"
    /\ \/ next = Cmd("SEEK", want)
       \/ next.id = "WAIT" /\ apc = "seek" /\ cur = Cmd("SEEK", want)
       \/ next.id = "WAIT" /\ apc = "seeking" /\ avid = media /\ cur = Cmd("SEEK", want)
       \/ /\ next.id = "WAIT" /\ apc \notin {"seek", "seeking"} /\ pos = want
          /\ cpc = "control" => carg = want

\* What a call does to the stream and the last seek_async do not meet.
ControlInv ==
  /\ cpc = "seeking" => want = 0
  /\ cpc = "control" /\ want # 0 => next.id = "WAIT" /\ apc \notin {"seek", "seeking"}

IInv ==
  TypeOK /\ MailboxInv /\ CloseInv /\ ObjectInv /\ SeekInv
  /\ ControlInv /\ PendingSeekPromise
-----------------------------------------------------------------------------
\* A player fresh from avos_mp_create satisfies the inductive invariant.
LEMMA InitInv == Init => IInv
<1> SUFFICES ASSUME Init PROVE IInv
  OBVIOUS
<1> USE VideosAssumption, PosAssumption DEF Init, Cmd, WaitCmd, Event, NULL
<1>1. TypeOK
  BY DEF TypeOK, Commands, Events, Videos
<1>2. MailboxInv /\ CloseInv /\ ObjectInv /\ SeekInv /\ ControlInv /\ PendingSeekPromise
  BY DEF MailboxInv, CloseInv, ObjectInv, SeekInv, ControlInv, PendingSeekPromise, OpeningAlone
<1>3. QED
  BY <1>1, <1>2 DEF IInv

\* Every step of either thread preserves it.
LEMMA StepInv == IInv /\ [Next]_vars => IInv'
<1> SUFFICES ASSUME IInv, [Next]_vars PROVE IInv'
  OBVIOUS
<1> USE PosAssumption
    DEF IInv, TypeOK, MailboxInv, CloseInv, ObjectInv, SeekInv, ControlInv,
        PendingSeekPromise, OpeningAlone, Target, Commands, Cmd, WaitCmd, Event, Events, Live, NULL,
        mailbox, objects, asyncLoc, client
<1>1. CASE AsyncTop
  BY <1>1 DEF AsyncTop, SeekReport, Rest, Dispatch, NextLoc
<1>2. CASE AsyncWake
  BY <1>2 DEF AsyncWake, Dispatch, NextLoc
<1>3. CASE AsyncOpen
  <2>1. ASSUME NEW v \in Videos, CreateMedia(v), avid' = v, apc' = "opening", want' = 0,
               UNCHANGED <<evt, mailbox, type, client>>, apc = "open"
        PROVE  IInv'
    <3> USE <2>1 DEF CreateMedia
    <3>1. /\ video[v] = "unused" /\ video' = [video EXCEPT ![v] = "opening"]
          /\ \A u \in Videos : u # v => video'[u] = video[u]
      OBVIOUS
    <3>2. TypeOK'
      OBVIOUS
    <3>3. MailboxInv' /\ CloseInv' /\ SeekInv' /\ ControlInv' /\ PendingSeekPromise'
      OBVIOUS
    <3>4. cpc \in {"control", "seeking", "closing"} => cvid # v
      BY <3>1 DEF Videos
    <3>5. ObjectInv'
      BY <3>1, <3>4 DEF Videos
    <3>6. QED
      BY <3>2, <3>3, <3>5
  <2>2. CASE NoMedia /\ evt' = Event("ERROR", 0) /\ apc' = "top"
             /\ UNCHANGED <<avid, want, mailbox, type, client>> /\ apc = "open"
    BY <2>2 DEF NoMedia
  <2>3. QED
    BY <1>3, <2>1, <2>2 DEF AsyncOpen
<1>4. ASSUME NEW outcome \in {"ready", "fixed", "broken"}, AsyncOpened(outcome) PROVE IInv'
  BY <1>4 DEF AsyncOpened, OpenOutcome
<1>5. CASE AsyncSeek
  BY <1>5 DEF AsyncSeek
<1>6. CASE AsyncSeekDone
  BY <1>6 DEF AsyncSeekDone, SeekVideo
<1>7. CASE AsyncExit
  BY <1>7 DEF AsyncExit
<1>8. ASSUME NEW t \in {"NONE", "VID", "AUD"}, SetDataSource(t) PROVE IInv'
  BY <1>8 DEF SetDataSource
<1>9. CASE Open
  BY <1>9 DEF Open
<1>10. CASE OpenAsync
  BY <1>10 DEF OpenAsync, Post
<1>11. CASE QueryCached
  BY <1>11 DEF QueryCached, ReadMedia
<1>12. CASE QueryDirect
  BY <1>12 DEF QueryDirect, ReadMedia
<1>13. CASE Close
  <2>1. ending' \in BOOLEAN
    BY <1>13 DEF Close, CloseBody
  <2>2. QED
    BY <1>13, <2>1 DEF Close, CloseBody
<1>14. CASE Destroy
  BY <1>14 DEF Destroy, CloseBody
<1>15. ASSUME NEW p \in Pos, SeekAsync(p) PROVE IInv'
  BY <1>15 DEF SeekAsync, Post
<1>16. ASSUME NEW op \in {"control", "seek"}, NEW p \in Pos \cup {0}, CallWaiting(op, p) PROVE IInv'
  BY <1>16 DEF CallWaiting
<1>17. CASE OpenCreate
  BY <1>17 DEF OpenCreate, CreateMedia, NoMedia, Return
<1>18. ASSUME NEW outcome \in {"ready", "fixed", "broken"}, OpenDone(outcome) PROVE IInv'
  BY <1>18 DEF OpenDone, OpenOutcome, Return
<1>19. CASE OperationDone
  BY <1>19 DEF OperationDone, SeekVideo, Return
<1>20. CASE WaitSleep
  BY <1>20 DEF WaitSleep
<1>21. CASE WaitControl
  BY <1>21 DEF WaitControl, WaitOver, Return
<1>22. CASE WaitSeek
  BY <1>22 DEF WaitSeek, WaitOver
<1>23. CASE SeekDone
  BY <1>23 DEF SeekDone, SeekVideo, Return
<1>24. CASE WaitClose
  BY <1>24 DEF WaitClose, WaitOver, CloseReturn
<1>25. CASE CloseCancel
  BY <1>25 DEF CloseCancel, Post
<1>26. CASE CloseDone
  BY <1>26 DEF CloseDone, CloseReturn
<1>27. CASE DestroyExit
  BY <1>27 DEF DestroyExit, Post
<1>28. CASE DestroyJoin
  BY <1>28 DEF DestroyJoin
<1>29. CASE UNCHANGED vars
  BY <1>29 DEF vars
<1>30. QED
  BY <1>1, <1>2, <1>3, <1>4, <1>5, <1>6, <1>7, <1>8, <1>9, <1>10, <1>11, <1>12, <1>13, <1>14, <1>15, <1>16, <1>17, <1>18, <1>19, <1>20, <1>21, <1>22, <1>23, <1>24, <1>25, <1>26, <1>27, <1>28, <1>29 DEF Next, Async, Call, Progress, Gone

\* So it always holds.
LEMMA Invariance == Spec => []IInv
  BY InitInv, StepInv, PTL DEF Spec

\* Every variable of the player keeps to its values.
THEOREM TypeCorrect == Spec => []TypeOK
<1>1. IInv => TypeOK
  BY DEF IInv
<1>2. QED
  BY Invariance, <1>1, PTL

\* avos_mp_close never stops a stream the command thread is opening or seeking.
THEOREM CloseIsExclusive == Spec => []CloseExclusive
<1>1. IInv => CloseExclusive
  BY DEF IInv, MailboxInv, CloseInv, CloseExclusive, AsyncBusy
<1>2. QED
  BY Invariance, <1>1, PTL

\* No call ever works on a stream the command thread is still opening.
THEOREM OpeningIsAlone == Spec => []OpeningAlone
<1>1. IInv => OpeningAlone
  BY DEF IInv, ObjectInv
<1>2. QED
  BY Invariance, <1>1, PTL

\* avos_mp_destroy frees the player only after its thread has left, with no
\* command behind it.
THEOREM FreedIsQuiet == Spec => []FreedQuiet
<1>1. IInv => FreedQuiet
  BY DEF IInv, MailboxInv, FreedQuiet
<1>2. QED
  BY Invariance, <1>1, PTL

\* A SEEK_COMPLETE that announces a pending seek is followed by that seek.
THEOREM SeekPromiseKept == Spec => []PendingSeekPromise
<1>1. IInv => PendingSeekPromise
  BY DEF IInv
<1>2. QED
  BY Invariance, <1>1, PTL

\* However seeks overtake one another in the mailbox, playback comes to rest
\* where the last one asked.
THEOREM LastSeekIsServed == Spec => []LastSeekWins
<1>1. IInv => LastSeekWins
  BY DEF IInv, MailboxInv, SeekInv, LastSeekWins, Cmd
<1>2. QED
  BY Invariance, <1>1, PTL
=============================================================================
