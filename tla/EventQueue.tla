------------------------------ MODULE EventQueue ------------------------------
(***************************************************************************)
(* The events of a media player on their way to Java                       *)
(* (src/jni/libavosjni/avos_media_player.c): threads of the player call    *)
(* avos_mp_event_cb, which queues the event; event_thread takes them out   *)
(* and calls AvosMediaPlayer.postEvent, which is external and returns;     *)
(* create, nativeReset and nativeRelease, which the Java object calls one  *)
(* after the other, make and unmake player, queue and thread.              *)
(*                                                                         *)
(* What runs under event_ctx->mtx is one step.  avos->destroy stops the    *)
(* threads of the player and returns when they are gone, all but those of  *)
(* a stream it has not seen: avos_mp_close returns at once while an OPEN   *)
(* is under way and mp->media still NULL, and the join then waits until    *)
(* that stream runs (AsyncPlayer: freed with a live video).  Such threads  *)
(* are stray: they go on raising events, through memory that is freed from *)
(* then on.  What they do to it once the context is freed too is left out, *)
(* and so are failing allocations.                                         *)
(***************************************************************************)
EXTENDS Naturals, Sequences, FiniteSets

CONSTANTS
  Event,     \* what, ext1, ext2 and extdata of a message
  NoEvent,   \* the NULL message
  Poster,    \* threads of the player
  MaxQueue   \* bound: events that are queued or about to be

ASSUME EventAssumption == NoEvent \notin Event
ASSUME PosterAssumption == IsFiniteSet(Poster) /\ MaxQueue \in Nat

VARIABLES
  queue,    \* msg_queue
  quit,     \* quit
  thread,   \* where event_thread is; "ended" also before there is one
  msg,      \* its msg, while it delivers it
  raised,   \* of each thread of the player, the event it is about to queue
  stray,    \* the threads a destroy has left behind
  jni       \* what the Java object is doing, between create and nativeRelease

vars == <<queue, quit, thread, msg, raised, stray, jni>>

TypeOK ==
  /\ queue \in Seq(Event) /\ quit \in BOOLEAN
  /\ thread \in {"top", "lock", "asleep", "deliver", "ended"}
  /\ msg \in Event \cup {NoEvent}
  /\ raised \in [Poster -> Event \cup {NoEvent}] /\ stray \subseteq Poster
  /\ jni \in {"new", "up", "reset", "release", "join", "released"}

Init ==
  /\ queue = <<>> /\ quit = FALSE /\ thread = "ended" /\ msg = NoEvent
  /\ raised = [p \in Poster |-> NoEvent] /\ stray = {}
  /\ jni = "new"

-----------------------------------------------------------------------------
(* event_thread *)

\* pthread_cond_signal: the thread wakes and asks for the mutex.
Signalled == IF thread = "asleep" THEN "lock" ELSE thread

\* The loop looks at quit without the mutex.
Top ==
  /\ thread = "top"
  /\ thread' = IF quit THEN "ended" ELSE "lock"
  /\ UNCHANGED <<queue, quit, msg, raised, stray, jni>>

\* With the mutex: the queue is emptied when quit is set, and the thread ends.
Clean ==
  /\ thread = "lock" /\ quit
  /\ queue' = <<>>
  /\ thread' = "ended"
  /\ UNCHANGED <<quit, msg, raised, stray, jni>>

Sleep ==
  /\ thread = "lock" /\ ~quit /\ queue = <<>>
  /\ thread' = "asleep"
  /\ UNCHANGED <<queue, quit, msg, raised, stray, jni>>

Take ==
  /\ thread = "lock" /\ ~quit /\ queue # <<>>
  /\ msg' = Head(queue) /\ queue' = Tail(queue)
  /\ thread' = "deliver"
  /\ UNCHANGED <<quit, raised, stray, jni>>

\* postEvent has been called and has returned.
Deliver ==
  /\ thread = "deliver"
  /\ msg' = NoEvent
  /\ thread' = "top"
  /\ UNCHANGED <<queue, quit, raised, stray, jni>>

ThreadStep == Top \/ Clean \/ Sleep \/ Take \/ Deliver

-----------------------------------------------------------------------------
(* avos_mp_event_cb, on the player's threads *)

\* It has the context of the player's setpriv; it comes to event_thread_add.
Raise(p) ==
  /\ \/ jni \in {"up", "reset", "release"}
     \/ jni = "join" /\ p \in stray
  /\ raised[p] = NoEvent
  /\ Len(queue) + Cardinality({q \in Poster : raised[q] # NoEvent}) < MaxQueue
  /\ \E e \in Event : raised' = [raised EXCEPT ![p] = e]
  /\ UNCHANGED <<queue, quit, thread, msg, stray, jni>>

\* Mutant: TAILQ_INSERT_HEAD.
AddFirst(p) ==
  /\ raised[p] # NoEvent /\ jni # "released"
  /\ queue' = <<raised[p]>> \o queue
  /\ thread' = Signalled
  /\ raised' = [raised EXCEPT ![p] = NoEvent]
  /\ UNCHANGED <<quit, msg, stray, jni>>

\* Mutant: an event is queued that there is none of.
AddNothing(p) ==
  /\ Len(queue) < MaxQueue /\ jni # "released"
  /\ queue' = Append(queue, raised[p])
  /\ thread' = Signalled
  /\ raised' = [raised EXCEPT ![p] = NoEvent]
  /\ UNCHANGED <<quit, msg, stray, jni>>

\* event_thread_add.
Add(p) ==
  /\ raised[p] # NoEvent /\ jni # "released"
  /\ queue' = Append(queue, raised[p])
  /\ thread' = Signalled
  /\ raised' = [raised EXCEPT ![p] = NoEvent]
  /\ UNCHANGED <<quit, msg, stray, jni>>

-----------------------------------------------------------------------------
(* The Java object *)

\* avos->destroy returns: the threads of the player are gone, but for those it
\* leaves behind.
PlayerGone ==
  /\ stray' \in {stray \cup left : left \in SUBSET Poster}
  /\ \A p \in Poster \ stray' : raised[p] = NoEvent

\* create, with event_thread_create.
Create ==
  /\ jni = "new"
  /\ thread' = "top"
  /\ jni' = "up"
  /\ UNCHANGED <<queue, quit, msg, raised, stray>>

\* nativeReset destroys the player and gives another one the same context:
\* queue and thread stay as they are.
Reset ==
  /\ jni = "up"
  /\ jni' = "reset"
  /\ UNCHANGED <<queue, quit, thread, msg, raised, stray>>

ResetEnds ==
  /\ jni = "reset" /\ PlayerGone
  /\ jni' = "up"
  /\ UNCHANGED <<queue, quit, thread, msg, raised>>

\* nativeRelease destroys the player,
Release ==
  /\ jni = "up"
  /\ jni' = "release"
  /\ UNCHANGED <<queue, quit, thread, msg, raised, stray>>

\* Mutant: nativeRelease does not wait for the player before it stops the thread.
DestroyEarly ==
  /\ jni = "release"
  /\ quit' = TRUE /\ thread' = Signalled
  /\ jni' = "join"
  /\ UNCHANGED <<queue, msg, raised, stray>>

\* Mutant: event_thread_destroy does not signal.
DestroySilent ==
  /\ jni = "release" /\ PlayerGone
  /\ quit' = TRUE
  /\ jni' = "join"
  /\ UNCHANGED <<queue, thread, msg, raised>>

\* then its event thread: event_thread_destroy,
Destroy ==
  /\ jni = "release" /\ PlayerGone
  /\ quit' = TRUE /\ thread' = Signalled
  /\ jni' = "join"
  /\ UNCHANGED <<queue, msg, raised>>

\* which joins it and frees the context.
Joined ==
  /\ jni = "join" /\ thread = "ended"
  /\ jni' = "released"
  /\ UNCHANGED <<queue, quit, thread, msg, raised, stray>>

Next ==
  \/ ThreadStep
  \/ \E p \in Poster : Raise(p) \/ Add(p)
  \/ Create \/ Reset \/ ResetEnds \/ Release \/ Destroy \/ Joined

Spec == Init /\ [][Next]_vars

\* The event thread is scheduled, postEvent returns, and a join ends with its thread.
FairSpec == Spec /\ WF_vars(ThreadStep) /\ WF_vars(Joined)

-----------------------------------------------------------------------------
\* An event is pending from the moment it is queued until Java has it.
pending ==
  CASE thread = "ended"   -> <<>>
    [] thread = "deliver" -> <<msg>> \o queue
    [] OTHER              -> queue

Channel == INSTANCE EventChannel WITH open <- thread # "ended"

\* Queue, condition variable and thread are an EventChannel: whatever threads
\* raise events at whatever time, across resets and the release, none overtakes
\* another, comes twice, is forgotten while the thread sleeps, or comes when the
\* thread is gone (event_thread, event_thread_add, event_thread_destroy).
ChannelSafe == Channel!Spec
ChannelFair == Channel!FairSpec

\* The context that avos_mp_event_cb has from the player is there until the
\* callback is done with it, resets or not: nativeRelease frees it after the
\* threads that use it are gone, and nobody has asked the event thread to leave
\* before.  Threads of a stream that destroy has not seen are the exception.
ContextAlive ==
  (\E p \in Poster \ stray : raised[p] # NoEvent) => ~quit /\ thread # "ended"

\* nativeRelease returns: the event thread leaves, whether it slept, was about to
\* sleep or was in Java when quit was set.
ReleaseReturns == (jni = "join") ~> (jni = "released")
=============================================================================
