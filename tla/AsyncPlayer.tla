----------------------------- MODULE AsyncPlayer -----------------------------
(***************************************************************************)
(* The media-player object of src/Source/avos_mp.c: one API thread (the    *)
(* "client", the JNI layer) and the command thread async_thread.  They     *)
(* share a one-slot mailbox, mp->async.{cur_cmd,next_cmd}, guarded by      *)
(* async.mtx, and the pointer mp->media, guarded by nothing.               *)
(*                                                                         *)
(* A condition variable is the set of the threads asleep on it: a broad-   *)
(* cast empties the set, a thread that is in it cannot move.  Everything   *)
(* the code does under async.mtx is one step.  Memory never runs out.      *)
(***************************************************************************)
EXTENDS Naturals, FiniteSets

CONSTANTS
  Pos,        \* the positions a seek may ask for
  MaxVideos   \* bound: video objects a run may create

ASSUME PosAssumption    == Pos \subseteq Nat \ {0}
ASSUME VideosAssumption == MaxVideos \in Nat \ {0}

VARIABLES
  cur, next,  \* mp->async.cur_cmd and next_cmd
  type,       \* mp->type, set by setdatasource
  media,      \* mp->media: the index of a video object, 0 for NULL
  video,      \* the video objects and how far each has come
  aborted,    \* the video objects whose abort flag is set
  pos,        \* where playback of mp->media was last placed (0: at the start)
  evt,        \* the last event handed to event_cb: what it is and its arg1
  asleep,     \* the threads blocked in pthread_cond_wait(&async.cond)
  apc, avid,  \* async_thread: where it is, the video object it works on
  cpc, cvid,  \* the same for the client
  cop, carg,  \* the API call the client is in; the target of a seek, or where
              \* a control call found playback
  ending,     \* the client is in avos_mp_destroy
  want        \* history: target of the last seek_async, 0 when superseded

mailbox  == <<cur, next, asleep>>
objects  == <<media, video, aborted>>
asyncLoc == <<apc, avid>>
client   == <<cpc, cvid, cop, carg, ending>>
vars == <<mailbox, type, objects, pos, evt, asyncLoc, client, want>>

Videos == 1 .. MaxVideos
NULL   == 0
Cmd(id, arg) == [id |-> id, arg |-> arg]
WaitCmd == Cmd("WAIT", 0)
Commands == {WaitCmd, Cmd("OPEN", 0), Cmd("EXIT", 0)} \cup {Cmd("SEEK", p) : p \in Pos}

Event(what, arg) == [what |-> what, arg |-> arg]
Events == [what : {"none", "PREPARED", "ERROR", "SEEK_COMPLETE"}, arg : {0, 1}]

Live(v) == video[v] \in {"opening", "ready", "fixed", "broken"}

TypeOK ==
  /\ cur \in Commands /\ next \in Commands
  /\ type \in {"NONE", "VID", "AUD"}
  /\ media \in Videos \cup {NULL}
  /\ video \in [Videos -> {"unused", "opening", "ready", "fixed", "broken", "closed"}]
  /\ aborted \subseteq Videos
  /\ pos \in Pos \cup {0} /\ want \in Pos \cup {0}
  /\ evt \in Events
  /\ asleep \subseteq {"async", "client"}
  /\ apc \in {"top", "parked", "open", "opening", "seek", "seeking", "exit", "done"}
  /\ avid \in Videos \cup {NULL}
  /\ cpc \in {"idle", "open", "opening", "wait", "control", "query", "seeking",
              "cancel", "closing", "exit", "join", "freed"}
  /\ cvid \in Videos \cup {NULL}
  /\ cop \in {"none", "control", "seek", "close"}
  /\ carg \in Pos \cup {0}
  /\ ending \in BOOLEAN

Init ==
  /\ cur = WaitCmd /\ next = WaitCmd
  /\ type = "NONE" /\ media = NULL
  /\ video = [v \in Videos |-> "unused"] /\ aborted = {}
  /\ pos = 0 /\ want = 0
  /\ evt = Event("none", 0)
  /\ asleep = {}
  /\ apc = "top" /\ avid = NULL
  /\ cpc = "idle" /\ cvid = NULL /\ cop = "none" /\ carg = 0
  /\ ending = FALSE

-----------------------------------------------------------------------------
(* avos_mp_open_common, run by the async thread or, for the blocking open,  *)
(* by the client.                                                           *)

\* A video object is allocated and published in mp->media before it is opened.
\* Of type AUD, create returns NULL; that or no type at all makes the open fail.
CreateMedia(v) ==
  /\ type = "VID" /\ v \in Videos /\ video[v] = "unused"
  /\ video' = [video EXCEPT ![v] = "opening"]
  /\ media' = v /\ pos' = 0
  /\ UNCHANGED aborted

NoMedia ==
  /\ type # "VID"
  /\ media' = IF type = "AUD" THEN NULL ELSE media
  /\ UNCHANGED <<video, aborted, pos>>

\* avos_mp_video_open from stream_new to its return: the stream plays ("ready",
\* or "fixed" when it cannot seek), or stream_open/stream_start failed.
\* The failure is reported, unless the user aborted, and the call returns OK.
OpenOutcome(v, outcome) ==
  /\ outcome \in {"ready", "fixed", "broken"}
  /\ video' = [video EXCEPT ![v] = outcome]
  /\ UNCHANGED <<media, aborted, pos>>

\* The pointer a call takes from mp->media; it is not looked at again.
Target == IF type = "VID" THEN media ELSE NULL

\* Mutant: one position too far.
SeekVideoPast(v, p) ==
  pos' = IF v # NULL /\ v = media /\ video[v] = "ready" THEN p + 1 ELSE pos

\* avos_mp_video_seek on v, to its end: the stream is moved when it can seek.
SeekVideo(v, p) ==
  pos' = IF v # NULL /\ v = media /\ video[v] = "ready" THEN p ELSE pos

-----------------------------------------------------------------------------
(* async_thread *)

NextLoc(c) ==
  CASE c.id = "OPEN" -> "open" [] c.id = "SEEK" -> "seek"
    [] c.id = "EXIT" -> "exit" [] OTHER -> "top"

Dispatch(c) ==
  /\ apc' = NextLoc(c)
  /\ cur' = c
  /\ next' = WaitCmd

\* Mutant: any pending command passes for a pending seek.
SeekReportAny ==
  evt' = IF cur.id = "SEEK"
         THEN Event("SEEK_COMPLETE", IF next.id # "WAIT" THEN 1 ELSE 0)
         ELSE evt

\* Report a finished seek, saying whether another one is pending.
SeekReport ==
  evt' = IF cur.id = "SEEK"
         THEN Event("SEEK_COMPLETE", IF next.id = "SEEK" THEN 1 ELSE 0)
         ELSE evt

\* Mutant: no broadcast when the thread becomes idle.
RestSilently ==
  /\ cur' = WaitCmd
  /\ asleep' = asleep \cup {"async"}
  /\ apc' = "parked"
  /\ UNCHANGED next

\* With nothing pending: become WAIT, wake the waiters and sleep.
Rest ==
  /\ cur' = WaitCmd
  /\ asleep' = {"async"}
  /\ apc' = "parked"
  /\ UNCHANGED next

\* Top of the loop, under the lock.
AsyncTop ==
  /\ apc = "top"
  /\ SeekReport
  /\ \/ next.id = "WAIT" /\ Rest
     \/ next.id # "WAIT" /\ Dispatch(next) /\ UNCHANGED asleep
  /\ UNCHANGED <<type, objects, pos, avid, client, want>>

\* Return of pthread_cond_wait: look at next_cmd again.
AsyncWake ==
  /\ apc = "parked" /\ "async" \notin asleep
  /\ \/ /\ next.id = "WAIT"
        /\ asleep' = asleep \cup {"async"}
        /\ UNCHANGED <<cur, next, apc>>
     \/ /\ next.id # "WAIT"
        /\ Dispatch(next)
        /\ UNCHANGED asleep
  /\ UNCHANGED <<type, objects, pos, evt, avid, client, want>>

AsyncOpen ==
  /\ apc = "open"
  /\ \/ \E v \in Videos :
          /\ CreateMedia(v)
          /\ avid' = v /\ apc' = "opening"
          /\ want' = 0
          /\ UNCHANGED evt
     \/ /\ NoMedia
        /\ evt' = Event("ERROR", 0)
        /\ apc' = "top"
        /\ UNCHANGED <<avid, want>>
  /\ UNCHANGED <<mailbox, type, client>>

\* PREPARED follows whatever became of the stream: avos_mp_video_open returns
\* AVOS_ERR_OK on its error path too.
AsyncOpened(outcome) ==
  /\ apc = "opening"
  /\ OpenOutcome(avid, outcome)
  /\ evt' = Event("PREPARED", 0)
  /\ avid' = NULL /\ apc' = "top"
  /\ UNCHANGED <<mailbox, type, client, want>>

AsyncSeek ==
  /\ apc = "seek"
  /\ apc' = "seeking" /\ avid' = Target
  /\ UNCHANGED <<mailbox, type, objects, pos, evt, client, want>>

AsyncSeekDone ==
  /\ apc = "seeking"
  /\ SeekVideo(avid, cur.arg)
  /\ apc' = "top" /\ avid' = NULL
  /\ UNCHANGED <<mailbox, type, objects, evt, client, want>>

AsyncExit ==
  /\ apc = "exit"
  /\ apc' = "done"
  /\ UNCHANGED <<mailbox, type, objects, pos, evt, avid, client, want>>

Async ==
  \/ AsyncTop \/ AsyncWake \/ AsyncOpen \/ AsyncSeek \/ AsyncSeekDone \/ AsyncExit
  \/ \E outcome \in {"ready", "fixed", "broken"} : AsyncOpened(outcome)

-----------------------------------------------------------------------------
(* The API, called by the client *)

\* Mutant: a pending seek is kept instead of being replaced.
PostKeeping(c) ==
  /\ next' = IF next.id = "SEEK" /\ c.id = "SEEK" THEN next ELSE c
  /\ asleep' = {}
  /\ UNCHANGED cur

\* Mutant: the broadcast is forgotten.
PostSilently(c) ==
  /\ next' = c
  /\ UNCHANGED <<cur, asleep>>

\* async_cmd_add: the command replaces the one in the slot.
Post(c) ==
  /\ next' = c
  /\ asleep' = {}
  /\ UNCHANGED cur

Return == cpc' = "idle" /\ cvid' = NULL /\ cop' = "none" /\ carg' = 0

\* Bound: an open is called only while a video object is left for every open
\* posted or dispatched and for this one.
OpensAhead ==
  (IF next.id = "OPEN" THEN 1 ELSE 0) + (IF apc = "open" THEN 1 ELSE 0)
VideosLeft ==
  Cardinality({v \in Videos : video[v] = "unused"}) > OpensAhead

\* setdatasource refuses while there is a media object.  The _fd variant, which
\* does not look, is left out: its callers set the source of a fresh player.
SetDataSource(t) ==
  /\ cpc = "idle" /\ ~ending /\ media = NULL
  /\ t # type
  /\ type' = t
  /\ evt' = IF t = "NONE" THEN Event("ERROR", 0) ELSE evt
  /\ UNCHANGED <<mailbox, objects, pos, asyncLoc, client, want>>

\* open: refused with a media object, else open_common on the caller's thread.
Open ==
  /\ cpc = "idle" /\ ~ending /\ media = NULL /\ VideosLeft
  /\ cpc' = "open"
  /\ UNCHANGED <<mailbox, type, objects, pos, evt, asyncLoc, cvid, cop, carg, ending, want>>

OpenCreate ==
  /\ cpc = "open"
  /\ \/ \E v \in Videos :
          /\ CreateMedia(v)
          /\ cvid' = v /\ cpc' = "opening"
          /\ UNCHANGED <<cop, carg>>
     \/ NoMedia /\ Return
  /\ want' = 0
  /\ UNCHANGED <<mailbox, type, evt, asyncLoc, ending>>

OpenDone(outcome) ==
  /\ cpc = "opening"
  /\ OpenOutcome(cvid, outcome)
  /\ Return
  /\ evt' = IF outcome = "broken" THEN Event("ERROR", 0) ELSE evt
  /\ UNCHANGED <<mailbox, type, asyncLoc, ending, want>>

OpenAsync ==
  /\ cpc = "idle" /\ ~ending /\ media = NULL /\ VideosLeft
  /\ Post(Cmd("OPEN", 0))
  /\ want' = 0
  /\ UNCHANGED <<type, objects, pos, evt, asyncLoc, client>>

\* seek_async looks neither at mp->media nor at what is pending.
SeekAsync(p) ==
  /\ cpc = "idle" /\ ~ending
  /\ Post(Cmd("SEEK", p))
  /\ want' = IF media # NULL /\ video[media] = "ready" THEN p ELSE 0
  /\ UNCHANGED <<type, objects, pos, evt, asyncLoc, client>>

\* start, pause, setaudiotrack, ... ("control") and the blocking seek begin
\* with async_cmd_wait.  A pending seek is no obstacle: the thread may take it
\* while the call works on the stream; where that leaves playback is open.
CallWaiting(op, p) ==
  /\ cpc = "idle" /\ ~ending
  /\ cpc' = "wait" /\ cop' = op /\ carg' = p
  /\ UNCHANGED <<mailbox, type, objects, pos, evt, asyncLoc, cvid, ending, want>>

ReadMedia ==
  /\ cpc = "idle" /\ ~ending
  /\ media # NULL /\ type = "VID"
  /\ cpc' = "query" /\ cvid' = media
  /\ UNCHANGED <<mailbox, type, objects, pos, evt, asyncLoc, cop, carg, ending, want>>

\* getpos, isplaying and getduration answer from mp->last while the thread is
\* running (no step here), otherwise from the stream.
QueryCached == cur.id = "WAIT" /\ ReadMedia

\* getaudiosessionid asks the stream without looking at the thread.
QueryDirect == ReadMedia

\* A control call may have put the stream back to where it found it: switching
\* a track seeks to the current time.
OperationDone ==
  /\ cpc \in {"control", "query"}
  /\ \/ UNCHANGED pos
     \/ cpc = "control" /\ SeekVideo(cvid, carg)
  /\ Return
  /\ UNCHANGED <<mailbox, type, objects, evt, asyncLoc, ending, want>>

\* Mutant: async_cmd_wait does not wait.
WaitOverAtOnce == TRUE

\* async_cmd_wait sleeps until cur_cmd is WAIT (or at once when it is EXIT);
\* a command still in next_cmd does not keep it.
WaitOver == cur.id \in {"WAIT", "EXIT"}

WaitSleep ==
  /\ cpc = "wait" /\ "client" \notin asleep /\ ~WaitOver
  /\ asleep' = asleep \cup {"client"}
  /\ UNCHANGED <<cur, next, type, objects, pos, evt, asyncLoc, client, want>>

WaitControl ==
  /\ cpc = "wait" /\ cop = "control" /\ "client" \notin asleep /\ WaitOver
  /\ \/ /\ Target # NULL
        /\ cpc' = "control" /\ cvid' = Target /\ carg' = pos
        /\ want' = IF next.id = "SEEK" THEN 0 ELSE want
        /\ UNCHANGED cop
     \/ Target = NULL /\ Return /\ UNCHANGED want
  /\ UNCHANGED <<mailbox, type, objects, pos, evt, asyncLoc, ending>>

\* seek: the position moves and SEEK_COMPLETE is sent, media or not.
WaitSeek ==
  /\ cpc = "wait" /\ cop = "seek" /\ "client" \notin asleep /\ WaitOver
  /\ cpc' = "seeking" /\ cvid' = Target
  /\ want' = 0
  /\ UNCHANGED <<mailbox, type, objects, pos, evt, asyncLoc, cop, carg, ending>>

SeekDone ==
  /\ cpc = "seeking"
  /\ SeekVideo(cvid, carg)
  /\ evt' = Event("SEEK_COMPLETE", 0)
  /\ Return
  /\ UNCHANGED <<mailbox, type, objects, asyncLoc, ending, want>>

\* close, also as the first thing destroy does: nothing to do without media;
\* otherwise set the abort flag, then cancel what is pending, wait for the
\* thread, and stop and delete the stream.
CloseBody(destroying) ==
  /\ ending' = destroying
  /\ \/ /\ media # NULL /\ type = "VID"
        /\ aborted' = aborted \cup {media}
        /\ cpc' = "cancel" /\ cop' = "close"
     \/ /\ media = NULL \/ type # "VID"
        /\ cpc' = IF destroying THEN "exit" ELSE "idle"
        /\ UNCHANGED <<aborted, cop>>
  /\ UNCHANGED <<mailbox, type, media, video, pos, evt, asyncLoc, cvid, carg, want>>

Close   == cpc = "idle" /\ ~ending /\ CloseBody(FALSE)
Destroy == cpc = "idle" /\ ~ending /\ CloseBody(TRUE)

\* Mutant: close waits without cancelling the pending command.
CloseWithoutCancel ==
  /\ cpc = "cancel"
  /\ cpc' = "wait"
  /\ want' = 0
  /\ UNCHANGED <<mailbox, type, objects, pos, evt, asyncLoc, cvid, cop, carg, ending>>

CloseCancel ==
  /\ cpc = "cancel"
  /\ Post(WaitCmd)
  /\ cpc' = "wait"
  /\ want' = 0
  /\ UNCHANGED <<type, objects, pos, evt, asyncLoc, cvid, cop, carg, ending>>

CloseReturn ==
  /\ cpc' = IF ending THEN "exit" ELSE "idle"
  /\ cvid' = NULL /\ cop' = "none"

WaitClose ==
  /\ cpc = "wait" /\ cop = "close" /\ "client" \notin asleep /\ WaitOver
  /\ \/ media # NULL /\ cpc' = "closing" /\ cvid' = media /\ UNCHANGED cop
     \/ media = NULL /\ CloseReturn
  /\ UNCHANGED <<mailbox, type, objects, pos, evt, asyncLoc, carg, ending, want>>

CloseDone ==
  /\ cpc = "closing"
  /\ video' = [video EXCEPT ![cvid] = "closed"]
  /\ media' = NULL
  /\ CloseReturn
  /\ UNCHANGED <<mailbox, type, aborted, pos, evt, asyncLoc, carg, ending, want>>

\* destroy, after close: EXIT into the slot, join, free.
DestroyExit ==
  /\ cpc = "exit"
  /\ Post(Cmd("EXIT", 0))
  /\ cpc' = "join"
  /\ want' = 0
  /\ UNCHANGED <<type, objects, pos, evt, asyncLoc, cvid, cop, carg, ending>>

\* Mutant: the player is freed without joining its thread.
DestroyDetached ==
  /\ cpc = "join"
  /\ cpc' = "freed"
  /\ UNCHANGED <<mailbox, type, objects, pos, evt, asyncLoc, cvid, cop, carg, ending, want>>

DestroyJoin ==
  /\ cpc = "join" /\ apc = "done"
  /\ cpc' = "freed"
  /\ UNCHANGED <<mailbox, type, objects, pos, evt, asyncLoc, cvid, cop, carg, ending, want>>

\* The calls the application makes, when it likes.
Call ==
  \/ \E t \in {"NONE", "VID", "AUD"} : SetDataSource(t)
  \/ Open \/ OpenAsync \/ QueryCached \/ QueryDirect \/ Close \/ Destroy
  \/ \E p \in Pos : SeekAsync(p) \/ CallWaiting("seek", p)
  \/ CallWaiting("control", 0)

\* What a call does once it is made.
Progress ==
  \/ OpenCreate \/ OperationDone
  \/ \E outcome \in {"ready", "fixed", "broken"} : OpenDone(outcome)
  \/ WaitSleep \/ WaitControl \/ WaitSeek \/ SeekDone \/ WaitClose
  \/ CloseCancel \/ CloseDone \/ DestroyExit \/ DestroyJoin

\* avos_mp_destroy has freed the object.
Gone == cpc = "freed" /\ UNCHANGED vars

Next == Async \/ Call \/ Progress \/ Gone

Spec == Init /\ [][Next]_vars

\* Both threads are scheduled; the application may stop calling.  A stream may
\* take for ever to open (a server that does not answer) unless its abort flag
\* is set: stream_open and stream_start poll it.
Prompt == apc = "opening" => avid \in aborted
FairSpec ==
  /\ Spec
  /\ WF_vars(Async /\ Prompt)
  /\ WF_vars(Progress /\ cpc # "opening")

-----------------------------------------------------------------------------
(* Properties *)

\* No video object is running that mp->media does not point to.
NoOrphan == \A v \in Videos : Live(v) => v = media

AsyncBusy == apc \in {"open", "opening", "seek", "seeking"}

\* While avos_mp_close stops and deletes the stream, the command thread is not
\* opening or seeking: the pending command was cancelled before the wait, and
\* nobody but the closing caller can post another (avos_mp_close).
CloseExclusive == cpc = "closing" => ~AsyncBusy

\* A call that works on the stream never meets one the command thread is still
\* opening, though mp->media is published before the open and the wait looks at
\* cur_cmd only, when an OPEN may still be in next_cmd (async_cmd_wait).
OpeningAlone ==
  apc = "opening" /\ cpc \in {"control", "seeking", "closing"} => cvid # avid

\* The player is freed only when its thread has left for good: no command is
\* left to run on the freed object (avos_mp_destroy).
FreedQuiet == cpc = "freed" => apc = "done" /\ next.id = "WAIT"

\* When the last event said that another seek is pending, the thread is on that
\* seek: the application may wait for its completion (async_thread).
PendingSeekPromise ==
  evt = Event("SEEK_COMPLETE", 1) => cur.id = "SEEK"

\* When the thread is at rest, playback is where the last seek_async asked,
\* however many seeks overtook one another in the mailbox, unless a later call
\* superseded that seek or worked on the stream beside it.
LastSeekWins ==
  cur.id = "WAIT" /\ next.id = "WAIT" /\ want # 0 => pos = want

\* close returns, however long the stream takes to open, as long as the object
\* it aborts is the one being opened.
CloseReturns == cop = "close" ~> (cop # "close" \/ ~NoOrphan)

\* destroy returns, unless the thread is inside an open whose abort flag nobody
\* set: close returned early because mp->media was still NULL.
DestroyReturns ==
  ending ~> (cpc = "freed" \/ (apc = "opening" /\ avid \notin aborted))
=============================================================================
