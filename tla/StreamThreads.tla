---------------------------- MODULE StreamThreads ----------------------------
(***************************************************************************)
(* The worker threads of a playing STREAM and the calls that stop and      *)
(* restart them: thread_state_set/ack (src/Source/athread.c), the thread   *)
(* loops, and stream_start, stream_seek_*, stream_pause, stream_set_speed, *)
(* stream_set_audio_stream, stream_set_subtitle_stream and stream_stop     *)
(* (stream_video.c, stream_subtitle.c, stream.c).  STREAM_LOOP, with which *)
(* the engine thread seeks too (_stream_seek_loop), is off: nothing in the *)
(* sources sets it.                                                        *)
(*                                                                         *)
(* The application's thread makes the calls, and the media player's        *)
(* command thread the seeks that were left to it (avos_mp.c).  The         *)
(* application waits for the seek the command thread is at, but not for    *)
(* one that is only pending (async_cmd_wait): so one of its calls and that *)
(* seek can work on the stream at the same time.                           *)
(*                                                                         *)
(* A call is the list of what it still has to do, one item per step.  What *)
(* the code does under a THREAD_STATE's mutex is one step; asleep holds    *)
(* <<t, w>> while thread t sleeps on the condition variable of worker w.   *)
(***************************************************************************)
EXTENDS Sequences

Workers == {"engine", "parser", "audio", "sub"}
Modes   == {"EXIT", "IDLE", "RUNNING"}
Callers == {"app", "cmd"}
\* The functions with a was_paused of their own: a seek may be within another call.
Levels  == {"call", "seek"}
Requests == {"seek", "speed", "audio", "subtitle", "resume", "pause", "stop"}

CONSTANT Calls  \* the calls the application makes

ASSUME CallsAssumption == Calls \subseteq Requests

VARIABLES
  set, get,  \* THREAD_STATE._set and ._get of each worker
  wpc,       \* where each worker is in its loop
  asleep,    \* who sleeps on whose condition variable
  todo,      \* what each caller still has to do
  was,       \* its was_paused
  pending,   \* a seek is left to the command thread: async.next_cmd
  paused,    \* s->paused
  stepping,  \* s->play_n_video_frames # 0
  valid,     \* s->audio->valid
  wanted,    \* history: whether the application wants the stream paused
  crossed    \* history: a seek works on the stream beside another call

threads == <<set, get, wpc, asleep>>
history == <<wanted, crossed>>
flags   == <<was, paused, stepping, valid>>
vars    == <<threads, todo, pending, flags, history>>

-----------------------------------------------------------------------------
(* The items of a call.  "set" is thread_state_set until it sleeps, "wait"  *)
(* the rest of it; "try" is the look at s->audio->valid before a "set";     *)
(* "touch" stands for the code that relies on the workers `on' being        *)
(* stopped, "sink" for what relies on the pause keeping audio out of it;    *)
(* "look" and "hold" are stream_pause, "unpause" is stream_un_pause with    *)
(* the was_paused of its level, "resume" with 0; a "branch" is where the    *)
(* call goes one of several ways.                                           *)

Ways == {"seek", "reseek", "speed", "flush", "drop"}

Item ==
  [do : {"set"}, of : Workers, to : Modes, on : {{}}] \cup
  [do : {"try"}, of : {"audio"}, to : {"IDLE", "RUNNING"}, on : {{}}] \cup
  [do : {"wait", "join"}, of : Workers, to : {"none"}, on : {{}}] \cup
  [do : {"look", "hold", "unpause"}, of : Levels, to : {"none"}, on : {{}}] \cup
  [do : {"branch"}, of : Ways, to : {"none"}, on : {{}}] \cup
  [do : {"touch", "sink", "drop", "resume", "play"},
   of : {"none"}, to : {"none"}, on : SUBSET Workers]

Do(what)     == [do |-> what,    of |-> "none", to |-> "none", on |-> {}]
Set(w, m)    == [do |-> "set",   of |-> w,      to |-> m,      on |-> {}]
Try(w, m)    == [do |-> "try",   of |-> w,      to |-> m,      on |-> {}]
\* Mutant: which worker to wait for is lost.
WaitForNone(w) == Do("wait")
Wait(w) == [do |-> "wait",  of |-> w,      to |-> "none", on |-> {}]
Join(w)      == [do |-> "join",  of |-> w,      to |-> "none", on |-> {}]
Touch(ws)    == [do |-> "touch", of |-> "none", to |-> "none", on |-> ws]
At(x, what)  == [do |-> what,    of |-> x,      to |-> "none", on |-> {}]

SetBoth(v, w, m) == <<Set(v, m), Set(w, m)>>

\* stream_pause and, with the was_paused it returned, stream_un_pause.
PauseAt(l)   == <<At(l, "look"), At(l, "hold")>>
UnPauseAt(l) == <<At(l, "unpause")>>

\* Mutant: a seek stops the parser only.
SeekPauseParser == <<Set("parser", "IDLE")>> \o PauseAt("seek")

\* Mutant: the parser is taken to have been started to play up to the frame.
SeekUnPauseEager(l) == <<Try("audio", "RUNNING")>> \o UnPauseAt(l)

\* _seek_pause and _seek_un_pause.
SeekPause == <<Set("parser", "IDLE"), Try("audio", "IDLE")>> \o PauseAt("seek")
SeekUnPause(l) == <<Try("audio", "RUNNING"), Set("parser", "RUNNING")>> \o UnPauseAt(l)

\* _stream_seek_real.
SeekItems == SeekPause \o <<At("seek", "branch")>> \o SeekUnPause("seek")

\* Once the parser has found its new place it plays up to the wanted frame.
SeekAndPlay == <<Touch({"parser", "audio"}), Set("parser", "RUNNING"), Do("play")>>

\* stream_set_speed.
SpeedItems == PauseAt("call") \o <<At("speed", "branch")>>

\* stream_set_audio_stream: another decoder opens or none, the parser seeks if it
\* can, the sink starts, and the threads run again.
StartSink ==
  <<Do("sink"), At("drop", "branch"), Set("audio", "RUNNING")>>
    \o SetBoth("engine", "sub", "RUNNING") \o UnPauseAt("call")
AudioItems ==
  PauseAt("call") \o <<Set("audio", "IDLE")>> \o SetBoth("engine", "sub", "IDLE")
    \o <<Touch({"audio", "engine", "sub"}), At("reseek", "branch")>> \o StartSink

\* stream_check_subtitles and stream_set_subtitle_stream, which then seeks to where
\* it was if it can.
SubtitleItems ==
  PauseAt("call") \o SetBoth("engine", "sub", "IDLE") \o <<Touch({"engine", "sub"})>>
    \o SetBoth("engine", "sub", "RUNNING") \o <<At("call", "unpause"), At("reseek", "branch")>>

\* stream_start once the threads exist and the stream is paused.
StartItems(stay) ==
  <<Set("parser", "RUNNING")>> \o SetBoth("engine", "sub", "RUNNING")
    \o <<At("reseek", "branch"), Try("audio", "RUNNING")>>
    \o (IF stay THEN <<>> ELSE <<Do("resume")>>)

\* stream_stop and stream_close.
Exit(w) == <<Set(w, "EXIT"), Join(w)>>
StopItems ==
  PauseAt("call") \o Exit("engine") \o Exit("parser") \o Exit("audio") \o Exit("sub")

\* The ways on from a branch.  A seek and a change of speed give up when the engine
\* does not come to rest within a second, and the parser may fail to seek; leaving
\* normal speed stops and flushes the audio too; audio whose sink does not start
\* is dropped.
WaysOn(way) ==
  CASE way = "seek"   -> {<<>>, <<Touch({"parser", "audio"})>>, SeekAndPlay}
    [] way = "reseek" -> {<<>>, SeekItems}
    [] way = "speed"  -> {SeekUnPause("call"),
                          SetBoth("engine", "sub", "IDLE") \o <<At("flush", "branch")>>
                            \o SetBoth("engine", "sub", "RUNNING") \o UnPauseAt("call")}
    [] way = "flush"  -> {<<Touch({"engine", "sub"})>>,
                          <<Try("audio", "IDLE"), Touch({"engine", "sub", "audio"}),
                            Try("audio", "RUNNING")>>}
    [] way = "drop"   -> {<<>>, <<Do("drop")>>}

-----------------------------------------------------------------------------
TypeOK ==
  /\ set \in [Workers -> Modes] /\ get \in [Workers -> Modes]
  /\ wpc \in [Workers -> {"top", "parked", "turn", "work", "gone"}]
  /\ asleep \subseteq (Workers \cup Callers) \X Workers
  /\ todo \in [Callers -> Seq(Item)]
  /\ was \in [Callers -> [Levels -> BOOLEAN]]
  /\ pending \in BOOLEAN /\ paused \in BOOLEAN /\ stepping \in BOOLEAN /\ valid \in BOOLEAN
  /\ wanted \in SUBSET BOOLEAN /\ crossed \in BOOLEAN

\* The threads have been created, IDLE, and stream_start, in an open or an
\* open_async, is about to run them.
Init ==
  /\ set = [w \in Workers |-> "IDLE"] /\ get = set
  /\ wpc = [w \in Workers |-> "top"]
  /\ asleep = {}
  /\ was = [c \in Callers |-> [l \in Levels |-> FALSE]]
  /\ pending = FALSE /\ paused = TRUE /\ stepping = FALSE /\ valid = TRUE /\ crossed = FALSE
  /\ \E opener \in Callers, stay \in BOOLEAN :
       /\ todo = [c \in Callers |-> IF c = opener THEN StartItems(stay) ELSE <<>>]
       /\ wanted = {stay}

-----------------------------------------------------------------------------
(* The worker threads *)

Awake(t, w) == <<t, w>> \notin asleep
Sleepers(w) == {x \in asleep : x[2] = w}

\* Mutant: the acknowledgement wakes nobody.
AckSilently(w) ==
  /\ wpc[w] = "top"
  /\ get' = [get EXCEPT ![w] = set[w]]
  /\ wpc' = [wpc EXCEPT ![w] = CASE set[w] = "IDLE"    -> "parked"
                                [] set[w] = "RUNNING" -> "turn"
                                [] set[w] = "EXIT"    -> "gone"]
  /\ asleep' = asleep \cup (IF set[w] = "IDLE" THEN {<<w, w>>} ELSE {})
  /\ UNCHANGED <<set, todo, pending, flags, history>>

\* thread_state_ack until it sleeps or returns.
Ack(w) ==
  /\ wpc[w] = "top"
  /\ get' = [get EXCEPT ![w] = set[w]]
  /\ wpc' = [wpc EXCEPT ![w] = CASE set[w] = "IDLE"    -> "parked"
                                [] set[w] = "RUNNING" -> "turn"
                                [] set[w] = "EXIT"    -> "gone"]
  /\ asleep' = (asleep \ Sleepers(w)) \cup (IF set[w] = "IDLE" THEN {<<w, w>>} ELSE {})
  /\ UNCHANGED <<set, todo, pending, flags, history>>

\* thread_state_ack after its sleep.  _get is still IDLE when it returns, so
\* the loop goes round once without working.
Unpark(w) ==
  /\ wpc[w] = "parked" /\ Awake(w, w)
  /\ \/ set[w] = "IDLE" /\ asleep' = asleep \cup {<<w, w>>} /\ UNCHANGED wpc
     \/ set[w] # "IDLE" /\ wpc' = [wpc EXCEPT ![w] = "top"] /\ UNCHANGED asleep
  /\ UNCHANGED <<set, get, todo, pending, flags, history>>

\* The bodies of the loops do nothing while the stream is paused, but the
\* engine's, which always looks around.
HasWork(w) ==
  CASE w = "engine" -> TRUE
    [] w = "parser" -> ~paused \/ stepping
    [] w = "audio"  -> ~paused /\ valid
    [] w = "sub"    -> ~paused

Turn(w) ==
  /\ wpc[w] = "turn"
  /\ wpc' = [wpc EXCEPT ![w] = IF HasWork(w) THEN "work" ELSE "top"]
  /\ UNCHANGED <<set, get, asleep, todo, pending, flags, history>>

\* The end of a body; the engine's may have output the last frame to step.
EndWork(w) ==
  /\ wpc[w] = "work"
  /\ wpc' = [wpc EXCEPT ![w] = "top"]
  /\ stepping' \in IF w = "engine" THEN {stepping, FALSE} ELSE {stepping}
  /\ UNCHANGED <<set, get, asleep, todo, pending, was, paused, valid, history>>

Worker(w) == Ack(w) \/ Unpark(w) \/ Turn(w) \/ EndWork(w)

-----------------------------------------------------------------------------
(* The callers *)

Item1(c, what) == todo[c] # <<>> /\ Head(todo[c]).do = what
Advance(c)     == todo' = [todo EXCEPT ![c] = Tail(@)]
\* What is left of the item comes in its place.
Instead(c, i)  == todo' = [todo EXCEPT ![c] = <<i>> \o Tail(@)]

\* Mutant: thread_state_set does not wait for the acknowledgement.
AskAtOnce(c, w, m) ==
  /\ set' = [set EXCEPT ![w] = m]
  /\ Advance(c)
  /\ asleep' = IF m = "IDLE" THEN asleep ELSE asleep \ Sleepers(w)
  /\ UNCHANGED <<get, wpc, pending, flags, history>>

\* thread_state_set until it sleeps, or returns at once.  A thread asking for
\* IDLE does not broadcast.
Ask(c, w, m) ==
  /\ set' = [set EXCEPT ![w] = m]
  /\ LET sleepers == IF m = "IDLE" THEN asleep ELSE asleep \ Sleepers(w)
     IN  \/ get[w] = m /\ Advance(c) /\ asleep' = sleepers
         \/ get[w] # m /\ Instead(c, Wait(w)) /\ asleep' = sleepers \cup {<<c, w>>}
  /\ UNCHANGED <<get, wpc, pending, flags, history>>

SetState(c) == Item1(c, "set") /\ Ask(c, Head(todo[c]).of, Head(todo[c]).to)

\* The look and the thread_state_set are two steps.
TrySetState(c) ==
  /\ Item1(c, "try")
  /\ \/ valid /\ Instead(c, Set(Head(todo[c]).of, Head(todo[c]).to))
     \/ ~valid /\ Advance(c)
  /\ UNCHANGED <<threads, pending, flags, history>>

\* The sleep of thread_state_set ends when _get is what _set is by then.
AwaitState(c) ==
  /\ Item1(c, "wait")
  /\ LET w == Head(todo[c]).of IN
       /\ Awake(c, w)
       /\ \/ get[w] = set[w] /\ Advance(c) /\ UNCHANGED asleep
          \/ get[w] # set[w] /\ asleep' = asleep \cup {<<c, w>>} /\ UNCHANGED todo
  /\ UNCHANGED <<set, get, wpc, pending, flags, history>>

JoinWorker(c) ==
  /\ Item1(c, "join") /\ wpc[Head(todo[c]).of] = "gone"
  /\ Advance(c)
  /\ UNCHANGED <<threads, pending, flags, history>>

\* stream_pause finds out whether the stream is paused,
Look(c) ==
  /\ Item1(c, "look")
  /\ was' = [was EXCEPT ![c][Head(todo[c]).of] = paused]
  /\ Advance(c)
  /\ UNCHANGED <<threads, pending, paused, stepping, valid, history>>

\* and pauses it if not; its wait for the engine to come to rest ends after a
\* second whatever the engine does.
Hold(c) ==
  /\ Item1(c, "hold")
  /\ paused' = (paused \/ ~was[c][Head(todo[c]).of])
  /\ Advance(c)
  /\ UNCHANGED <<threads, pending, was, stepping, valid, history>>

\* Mutant: was_paused is ignored.
UnPauseAlways(c) ==
  /\ Item1(c, "unpause")
  /\ paused' = FALSE
  /\ was' = [was EXCEPT ![c][Head(todo[c]).of] = FALSE]
  /\ Advance(c)
  /\ UNCHANGED <<threads, pending, stepping, valid, history>>

\* stream_un_pause with the caller's was_paused, the last use of it,
UnPause(c) ==
  /\ Item1(c, "unpause")
  /\ paused' = (paused /\ was[c][Head(todo[c]).of])
  /\ was' = [was EXCEPT ![c][Head(todo[c]).of] = FALSE]
  /\ Advance(c)
  /\ UNCHANGED <<threads, pending, stepping, valid, history>>

\* or with 0.
Resume(c) ==
  /\ Item1(c, "resume")
  /\ paused' = FALSE
  /\ Advance(c)
  /\ UNCHANGED <<threads, pending, was, stepping, valid, history>>

\* _stream_play_n_frames starts stepping; its wait ends after a second.
Play(c) ==
  /\ Item1(c, "play")
  /\ stepping' = TRUE
  /\ Advance(c)
  /\ UNCHANGED <<threads, pending, was, paused, valid, history>>

\* stream_drop_audio.
Drop(c) ==
  /\ Item1(c, "drop")
  /\ valid' = FALSE
  /\ Advance(c)
  /\ UNCHANGED <<threads, pending, was, paused, stepping, history>>

\* The code between the handshakes.
Proceed(c) ==
  /\ Item1(c, "touch") \/ Item1(c, "sink")
  /\ Advance(c)
  /\ UNCHANGED <<threads, pending, flags, history>>

Branch(c) ==
  /\ Item1(c, "branch")
  /\ \E way \in WaysOn(Head(todo[c]).of) :
       todo' = [todo EXCEPT ![c] = way \o Tail(@)]
  /\ UNCHANGED <<threads, pending, flags, history>>

Caller(c) ==
  \/ SetState(c) \/ TrySetState(c) \/ AwaitState(c) \/ JoinWorker(c)
  \/ Look(c) \/ Hold(c) \/ UnPause(c) \/ Resume(c) \/ Play(c) \/ Drop(c) \/ Proceed(c)
  \/ Branch(c)

\* The application's next call, once the command thread is at none (async_cmd_wait
\* looks at cur_cmd only); after stream_stop there is none.
Open == \A w \in Workers : set[w] # "EXIT"
Call(request, items) ==
  /\ request \in Calls
  /\ todo["app"] = <<>> /\ todo["cmd"] = <<>> /\ Open
  /\ todo' = [todo EXCEPT !["app"] = items]
  /\ crossed' = (crossed /\ ~valid)
  /\ UNCHANGED <<threads, flags>>

Seek        == Call("seek", SeekItems) /\ UNCHANGED <<pending, wanted>>
SetSpeed    == Call("speed", SpeedItems) /\ UNCHANGED <<pending, wanted>>
SetAudio    == valid /\ Call("audio", AudioItems) /\ UNCHANGED <<pending, wanted>>
SetSubtitle == Call("subtitle", SubtitleItems) /\ UNCHANGED <<pending, wanted>>
ResumeCall  == Call("resume", <<Do("resume")>>) /\ wanted' = {FALSE} /\ UNCHANGED pending

\* A pause beside a pending seek may be lost: the seek finds the stream running,
\* and lets it run again.
PauseCall ==
  /\ Call("pause", PauseAt("call"))
  /\ wanted' = IF pending THEN wanted \cup {TRUE} ELSE {TRUE}
  /\ UNCHANGED pending

\* avos_mp_close takes a pending seek back.
Stop == Call("stop", StopItems) /\ pending' = FALSE /\ UNCHANGED wanted

Api == Seek \/ SetSpeed \/ SetAudio \/ SetSubtitle \/ ResumeCall \/ PauseCall \/ Stop

\* avos_mp_seek_async leaves a seek to the command thread, which takes it when it
\* is done with what it was at, whatever the application does meanwhile.
SeekAsync ==
  /\ todo["app"] = <<>> /\ Open /\ ~pending
  /\ pending' = TRUE
  /\ UNCHANGED <<threads, todo, flags, history>>

TakeSeek ==
  /\ todo["cmd"] = <<>> /\ pending
  /\ todo' = [todo EXCEPT !["cmd"] = SeekItems]
  /\ pending' = FALSE
  /\ crossed' = (todo["app"] # <<>> \/ (crossed /\ ~valid))
  /\ UNCHANGED <<threads, flags, wanted>>

Quiet   == \A c \in Callers : todo[c] = <<>>
Stopped == ~Open /\ Quiet /\ UNCHANGED vars

Next ==
  \/ \E w \in Workers : Worker(w)
  \/ \E c \in Callers : Caller(c)
  \/ Api \/ SeekAsync \/ TakeSeek \/ Stopped

Spec == Init /\ [][Next]_vars

-----------------------------------------------------------------------------
(* Properties *)

\* A seek beside another call can disturb what both work on.
Shared == {"parser", "audio"}

\* While a call works on what it stopped threads for (it seeks in the parser,
\* closes a decoder, flushes the audio), none of those threads is in its body;
\* nor is audio when its sink is started, though it has been set running.  Only a
\* seek beside another call can break that, and only for parser and audio.
TouchAlone ==
  \A c \in Callers :
    /\ Item1(c, "touch") =>
         \A w \in Head(todo[c]).on : wpc[w] = "work" => crossed /\ w \in Shared
    /\ Item1(c, "sink") /\ wpc["audio"] = "work" => crossed

\* Whatever happens inside a call, an error path included, and whatever call it
\* crosses, when all are done every worker of an open stream is running; but for
\* the audio that one of two crossing calls dropped.
LeftRunning ==
  Quiet /\ Open =>
    \A w \in Workers : \/ set[w] = "RUNNING" /\ get[w] = "RUNNING"
                       \/ w = "audio" /\ ~valid /\ crossed

\* The pausing that calls do for themselves never shows: when they are done the
\* stream is paused exactly when the application paused it, unless it did so
\* beside a pending seek.
PauseKept == Quiet /\ Open => paused \in wanted

\* A thread that asks for IDLE wakes nobody, and a worker and its callers sleep on
\* one condition variable.  Still nobody sleeps through what it waits for: a worker
\* that sleeps is as idle as it was asked to be; a caller that sleeps has no answer,
\* or another has asked again since and is not done; but for the audio that one of
\* two crossing calls dropped, which may keep the other for ever.
NoLostWakeUp ==
  \A w \in Workers :
    /\ ~Awake(w, w) => set[w] = "IDLE" /\ get[w] = "IDLE"
    /\ \A c \in Callers : ~Awake(c, w) =>
         \/ get[w] # set[w]
         \/ \E d \in Callers \ {c} : todo[d] # <<>>
         \/ w = "audio" /\ ~valid /\ crossed

\* Each worker with its callers implements the protocol of WorkerGate.
Waiting(w) == {c \in Callers : Item1(c, "wait") /\ Head(todo[c]).of = w}
Busy(w)    == wpc[w] = "work"
EngineGate == INSTANCE WorkerGate WITH asked <- set["engine"], granted <- get["engine"],
                                       waiting <- Waiting("engine"), busy <- Busy("engine")
ParserGate == INSTANCE WorkerGate WITH asked <- set["parser"], granted <- get["parser"],
                                       waiting <- Waiting("parser"), busy <- Busy("parser")
AudioGate  == INSTANCE WorkerGate WITH asked <- set["audio"], granted <- get["audio"],
                                       waiting <- Waiting("audio"), busy <- Busy("audio")
SubGate    == INSTANCE WorkerGate WITH asked <- set["sub"], granted <- get["sub"],
                                       waiting <- Waiting("sub"), busy <- Busy("sub")
GatesKept == EngineGate!Spec /\ ParserGate!Spec /\ AudioGate!Spec /\ SubGate!Spec
=============================================================================
