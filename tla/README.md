# TLA+ models and proofs of avos

avos is the playback engine of Nova Video Player: C code under `src/Source`, driven from Java
through `src/jni`. It demuxes and decodes with FFmpeg or with the codecs of the device and plays
through device sinks. It is threaded all through: one stream that plays has up to six threads of
its own (command thread, engine, decoder, parser, audio, subtitles; an asynchronous codec brings
three more), which talk through mutexes, condition variables, polling and quite some unguarded state.
This directory models that: who waits for whom, what is safe to touch when, and what the calls of
the API leave behind.

## 1. The system

| Component | Source | State | Operations | Talks to |
|---|---|---|---|---|
| Media player object, command thread | `avos_mp.c`, `avos_mp_video.c` | a mailbox of one slot (`cur_cmd`, `next_cmd`), `media`, `type`, cached answers `last.*` | create, setdatasource, open, open_async, start, pause, seek, seek_async, queries, close, destroy; `async_thread` | posts under `async.mtx`; calls the stream; events to JNI |
| Audio-only player | `avos_mp_audio.c` | none in this version: create returns NULL | | media player |
| Thread states, worker threads | `athread.c`, the loops in `stream_video.c`, `stream_audio.c`, `stream_subtitle.c` | `_set` and `_get` of each of engine, parser, audio, subtitles | `thread_state_set` (caller), `thread_state_ack` (worker), start, seek, pause, speed, audio stream, subtitle stream, stop | condition variable per worker |
| Synchronous engine, decoder thread | `stream_video.c`, `codec_ffmpeg_video.c`, `stream.c` | the frame being decoded, `video_state`, `vcodec.done`, `codec_run` | `_stream_player_sync`, `_decode_thread`, pause, stop, close | `codec_mutex`/`codec_code`; frame queues; sink |
| Frame queues | `frame_q.c` | linked lists: `decode_q` and `disp_q` of the engine, four more in the asynchronous codec | put, put_head, get, flush | no lock of their own; a frame has one `next` |
| Audio/video synchronisation | `stream_sync.c` | `sync_audio`, `sync_video`, the times last seen | the two start gates; `stream_sync` drops and doubles pictures | audio thread and engine, no lock |
| Chunk ring, chunk cache | `cbe.c`, `stream.c` | read and write positions | read, write, skip | one reader, one writer |
| Stream buffer | `stream_buffer*.c` | ring, file position, abort and eof flags | buffer thread refills; the parser reads and seeks | nothing in this tree opens it |
| Parser queues, FFmpeg demuxer | `stream_queue.c`, `stream_parser.c`, `stream_parser_ffmpeg.c` | packet queues under one memory limit, end flags, key frame search | `_parse`, `_get_audio_cdata`, `_get_video_cdata`, seek | parser thread fills; audio and engine empty |
| Asynchronous engine | `stream_video.c`, `codec_sfdec2.c` (and `codec_sfdec.c`, `codec_lavc_async.c`), `external/android/libsfdec` | `decode_frame`, `video_flush`, `play_n_*`, `video_sink_count`; in the codec `dec_q`, `out_q`, `venc_q`, `get_q`, `state`, and of each frame the buffer MediaCodec lent for it | `_stream_player_async`; put_out, get_out, dec_in, flush, close; sink put, get | decoder thread and sink thread, one mutex and one condition variable; the caller of the API, no lock |
| JNI layer, event thread | `src/jni/libavosjni` | queue of events, `quit` | create, nativeReset, nativeRelease; `avos_mp_event_cb`; delivery to Java | the player's threads queue, `event_thread` delivers |
| Main loop, timers, events | `mainloop.c`, `timers.c`, `dataevent.c`, `threadcom.c` | timer list, handlers | run, add, remove | not used once a stream plays |
| Metadata retriever, thumbnails | `avos_mr.c`, `thumb_*.c` | a STREAM of its own | open, get frame, close | one thread |
| Subtitles | `subtitle*.c`, `stream_sub_ext.c`, `codec_ssa.c` | parsed lists | load, find, render | subtitle thread |
| Sinks, audio outputs | `stream_sink_*.c`, `audio_interface*.c` | device buffers | put, get, flush | device |
| Codecs, bitstreams | `codec_*.c`, `h264.c`, `hevc.c` | per codec | parse, decode, reorder timestamps | none |
| Files, images, character sets, shell | `file*.c`, `image*.c`, `i18n.c`, `avsh.c` | | I/O and tables | none |

What is hard, and where:

* *Checks before the state they rely on is set*: `mp->media` is written by the command thread and
  read by every call; `async_cmd_wait` looks at one of the two slots of the mailbox.
* *Calls that stop threads, nested and crossing*: a seek or a speed change stops several workers in an
  order, pauses the stream for itself, may fail half way, and must leave everything as the application
  wanted it, while the workers themselves go on; and the command thread may come with a seek of its own
  in the middle of any of them.
* *Half-finished work*: the engine hands a frame to the decoder thread and may be told to stop
  before the answer. `codec_run` is used outside its mutex.
* *Gates without locks*: sound and picture decide from each other's last time, and each opens the
  other's gate a moment later. Meanwhile both wait for packets that share one memory limit.
* *The end of the file*: "queue empty" and "parser at the end" are two looks, not one.
* *Buffers on loan*: with MediaCodec a picture is a buffer number tied to a frame. A flush voids the
  numbers while two threads and six queues hold the frames, and the same numbers are lent again.
* *Reads that cannot be interrupted*: a thread lets go of its mutex and then waits in MediaCodec;
  flush and close have to find it there.
* *A seek that does not stop the engine*: with an asynchronous decoder it sets half a dozen fields
  one after the other and waits for the first picture.

What makes each part correct: close is alone with the video it deletes, an open is disturbed by no call,
the last seek wins and close and destroy return; a worker stands still when the call that stopped it returns and runs
again when the API call ends; no frame is in two places, lost or shown while it is written; sound
and picture start together and the file reaches its end; with a codec of the device every frame is in
one place, every buffer is given back once, nobody sleeps through what he waits for, and pictures
keep coming; events reach Java in order and their context outlives them.

`PROJECT.json` lists the hazards line by line, with the property that watches each of them or the
reason why none does.

## 2. Modules

    AsyncPlayer      media player object and command thread     AsyncPlayerProofs
    WorkerGate       what thread_state_set/ack promise          WorkerGateProofs
    StreamThreads    four workers, two callers that stop them;
                     implements WorkerGate four times       StreamThreadsProofs
    VideoDecode      engine, decoder thread, frames, one caller VideoDecodeProofs
    Playback         parser, queues, audio thread, engine,
                     gates, end of file                     PlaybackProofs
    FrameQueue       the frame lists, as operators on sequences
    SurfaceCodec     decoder and sink threads over MediaCodec   SurfaceCodecProofs
    AsyncEngine      the engine and the caller of the API over
                     SurfaceCodec (EXTENDS it: composition)     AsyncEngineProofs
    EventChannel     what Java may rely on
    EventQueue       the JNI event thread; implements
                     EventChannel                               EventQueueProofs
    MC*              instances for TLC

Conventions. Code under one mutex is one step, and so is code that touches nothing shared. A
condition variable is the set of threads asleep on it: a broadcast empties the set, whoever is in
it cannot move. Spurious wake-ups are left out; they can only help. `...pc` variables say where a
thread is. "history" variables are read by properties only. A definition whose comment begins with
*Mutant* is the previous or next one with a plausible bug; no specification uses it.

### AsyncPlayer

`cur` and `next` are the mailbox, `video[v]` says how far each video object has come, `aborted` is
the abort flag of each, `pos` where playback stands, `evt` the last event. The client is one thread
(the Java side calls from one), the command thread the other. The actions follow
`async_thread` (`AsyncTop`, `AsyncWake`, `AsyncOpen`, `AsyncOpened`, `AsyncSeek`, `AsyncExit`) and
the API: a call is a start action (`Open`, `OpenAsync`, `SeekAsync`, `CallWaiting`, `Close`,
`Destroy`, ...) and, where it waits or works outside the mutex, further steps. A call or a command reads
`mp->media` once (`Target`) and works on what it has read in later steps, whatever happens to `media`. `CallWaiting`
stands for all control calls: they wait for the thread, then call into the stream. An open can
end with a video that seeks, with one that cannot (`fixed`) or with a broken one, which stays (the
code's error path answers OK).

### WorkerGate and StreamThreads

`WorkerGate` is the promise: callers ask, the worker grants what was asked last between two turns of its
work, then they return; *when none waits any more and the mode is not RUNNING, the worker is not at work
until another mode is asked for*. One caller may overrule what another has asked before it is granted:
the code allows it, and whoever relies on a worker has to know.

`StreamThreads` is the code: `set` and `get` of each worker, its loop (`wpc`), and for each of the two
threads that call into the stream the list of what it still has to do. The application's thread (`"app"`)
makes all the calls; the media player's command thread (`"cmd"`) opens, and makes the seeks left to it.
A call of the application begins when the command thread is at nothing (`Call`, from `async_cmd_wait`),
but a seek may be `pending`, and `TakeSeek` takes it whenever it likes: the two then work on the
stream at the same time, item by item. `crossed` remembers that this has happened.
`SeekItems`, `SpeedItems`, `AudioItems`, `SubtitleItems`, `StartItems` and `StopItems` are the
bodies of the calls in the source's order; at a `branch` a call goes one of the ways `WaysOn` lists, error
paths among them. `SetState`, `AwaitState`, `Look`, `Hold`, `UnPause`, `Play`, ... execute one item.
What `thread_state_set` does under its mutex is one step, its wait another; `stream_pause` reads
`s->paused` in one step and sets it in the next, and so do the looks at `audio->valid` and what follows
them. `Touch(ws)` marks the code that relies on the workers `ws` standing still. `GatesKept` says that
each of the four workers, with its callers, implements `WorkerGate!Spec` (refinement mapping:
`asked <- set[w]`, `granted <- get[w]`, `waiting` <- the callers in the wait of `thread_state_set`, `busy`
<- the worker is in its body). `asleep` is who sleeps on whose condition variable: a thread that asks for
IDLE wakes nobody, and `NoLostWakeUp` says that still nobody sleeps through what it waits for.

What a crossing seek breaks, and the properties therefore exclude by name: the other call may find parser
or audio at work where it had stopped them, since the seek's end sets them running; a pause made while
a seek is pending may be lost, since the seek has looked at `paused` before and lets the stream run
again; and when the other call drops the audio between the seek's two looks at `audio->valid`, the
seek's request for IDLE overrules the call's for RUNNING, nobody takes it back, and the call waits for
ever.

### VideoDecode

`decodeQ`, `dispQ` and `sink` are where the frames are, `dframe` the engine's frame and
`vframe`/`target` what the decoder was and is told to write. `epc` goes through a turn of
`_stream_player_sync`: sink frames come back, checks, output, a frame to decode into, the request
under `codec_mutex`, output again, the answer. `dpc` goes through `_decode_thread`, with the step
between looking at `codec_run` and taking the mutex on its own, and the mutex held while it
decodes. The caller pauses (with the one second timeout of `stream_pause`, after which it goes on
all the same), resumes, stops and restarts the engine, and closes. The queues are sets: the order of
frames does not matter to these properties.

### Playback

A file is a sequence of packets with stream, timestamp and key flag, in any order of timestamps: pictures
come in decoding order, with the time at which they are to be shown. The parser appends to `aq` or
`vq` unless both together exceed the limit (the test comes before the packet is read, so they hold
`Buffer + 1`); the audio thread takes a packet, drops it when its time is negative, holds at its gate,
plays; by the length of what it plays the time of the sound moves on (`_add_audio_time`), and the next
chunk sets it to its own time, which may be earlier. The engine looks for a key frame, keeps one chunk
`now` and one `next`, decodes into `disp` and puts out through its gate. The decoder is external: it hands
pictures on in the order of their times, whatever order they came in. A verdict of a gate and the stores that follow it are two steps
(`AudioGate`, then `AudioHold` or `AudioPass`): the other thread may move in between. Timestamps go
through the arithmetic of `_get_audio_time` and `_get_video_time`, wrapping as an int of the code does
(`IntBound` is 2^31 there), with the marker of a missing timestamp treated as the number it is in the code.

### FrameQueue, SurfaceCodec and AsyncEngine

`FrameQueue` has the list operations on sequences: put refuses a frame that is in the list, put_head
does not look, get takes the head. `Partition` says that some queues and hands hold every frame once.

`SurfaceCodec` is `codec_sfdec2.c`. `decQ`, `outQ`, `vencQ`, `getQ` and `state` are the `locked` part of
its `priv_t`; `handle[f]` is `android_handle` of a frame together with what MediaCodec thinks of that
number: *lent*, *shown* (given back by rendering), *stale* (voided by a flush). `Dec...` are the steps
of `videodec_thread`, `Sink...` of `videosink_thread`; a stretch of code under the mutex is one
step, or several where the thread loops ("top", "inner"), in which case `MtxFree` keeps the others out.
What is done without the mutex (`DecRelease`, `DecRead`, `SinkRender`) is a step of its own, and so is
the moment between letting go of the mutex and coming to wait in the read, which is where the
read can be too late. MediaCodec is external, modelled from how `sfdec_ndkmediacodec.cpp` uses it: it
takes pictures, lends buffers, may answer with a size or an error, and a flush voids what was lent
and ends a read that waits, but not one that has yet to begin. The engine is any single thread that
calls the functions of the decoder and of the sink in any order. Whether the sink shows or drops
a frame that is due is not told apart.

`AsyncEngine` is the engine of `stream_video.c` over that: `epc` goes through a turn of
`_stream_player_async` (flush, frames back from the sink, a chunk, checks, put_out, get_out, output,
dec_in), and each step that calls the codec is the codec's own step conjoined with what the engine
does around it (`BeginFlush` has `FlushBegin`, `QueueFrame` has `SinkGet`, `Output` has `SinkPut`, ...).
The caller pauses, resumes, stops and seeks; `caller` goes through `_stream_seek_real` store by store,
because nothing locks them. Time is the number of the seek a chunk was read after: `picture[f]` is
older or newer than the seek's target, which is all the rule for throwing pictures away compares.

### EventChannel and EventQueue

`EventChannel` is the promise: while it is open, events come out in the order they went in, once each,
and none waits for ever; what is left at the end is never seen. `EventQueue` is `avos_media_player.c`:
`event_thread` with its look at `quit` outside the mutex (`Top`) and inside (`Clean`, `Sleep`,
`Take`), the call into Java (`Deliver`), the callback in two steps on each of the player's threads
(`Raise`, when it has the context; `Add`, under the mutex), and create, nativeReset and nativeRelease.
A destroy, in a reset or a release, may leave threads behind (`PlayerGone`): those of a stream it has
not seen, because `avos_mp_close` returned at once while an open was under way. They are `stray` from then
on and may raise events until the memory is freed and, in the code, after it.
The refinement maps the channel's pending events to the queue with the message that is being delivered
at its head, and *open* to the event thread being there.

## 3. Runs

| Run | Question | Result |
|---|---|---|
| `async_player` | Does a call work on a video that is being opened, or close delete one that is in use? Is the last seek the one served? Do close and destroy return? | holds, 157 707 states |
| `stream_threads` | With all calls and a seek crossing them: do the workers a call relies on stand still, is everything as before after it, is no wake-up lost, does the protocol implement `WorkerGate`? | holds, 3 285 004 states |
| `video_decode` | Are frames conserved, is a frame left alone while it is written, does each turn end? | holds, 130 208 states |
| `decode_join` | Does close join the decoder thread? | violated |
| `playback` | Do sound and picture start together, and does nothing pass another? Does every file come to its end? | holds, 785 055 states |
| `playback_end` | Is everything shown when the stream ends? | violated |
| `playback_untimed` | Does sound without timestamp pass? | violated |
| `surface_codec` | Through any order of decoding, rendering, flush and close: is a frame or a buffer lost, used after it was taken back, a wake-up missed? | holds, 43 349 states |
| `surface_close` | Does close join the codec's threads? | violated |
| `async_engine` | With the real engine and a caller without locks: do frames go round, and do pictures keep coming? | holds, 216 732 states |
| `async_seek` | Is the picture a seek waits for one from its position? | violated |
| `event_queue` | Do event queue and thread implement the channel? Is the context there as long as it is used? | holds, 3 517 states |

### The properties

* `CloseExclusive`, `FreedQuiet`: what close and destroy rely on. `OpeningAlone`: the pointer a call has
  read is never the video the command thread is still opening, though a pending OPEN may start while the
  call works.
  `PendingSeekPromise`: SEEK_COMPLETE with 1 means that a seek is really still to come.
  `LastSeekWins`: at rest, playback is where the last `seek_async` asked. `CloseReturns` and
  `DestroyReturns` name their one exception each: a video object nobody points to (the double open),
  and an open whose abort flag nobody could set because `mp->media` was not yet known to close.
* `TouchAlone`, `LeftRunning`, `PauseKept`, `NoLostWakeUp`, `GatesKept`: see StreamThreads above. Each says
  what holds for all calls, and names what a seek beside another call can break and nothing more: parser and
  audio found at work, a pause made beside a pending seek, audio dropped by one of the two.
* `FramesConserved`, `DecodingAlone`, `ResultOfRequest`: frames. A turn cut short by the caller
  (`cut`) may lose a frame and may then find the answer to the request it abandoned; that is the
  code's behaviour, and the properties say exactly that much. `TurnEnds`: no wake-up is missed in
  the exchange of engine and decoder.
* `SoundNotAhead`, `PictureNotAhead`: at the step that opens a gate, both times are known and in the
  right order, even when the other side moved after the verdict. The picture is compared with how far the
  sound has come (`heard`): between verdict and store the next chunk may set its time back. `InOrder`:
  engine, decoder and display each run a picture ahead of the next, and on the way to the decoder and from
  there to the sink none passes another, comes twice or is lost. `PlaysToEnd`: the file ends, or
  the shared memory is full for ever. The second alternative does happen: when one stream's packets
  fill the memory while its consumer waits for the other stream. With room for a whole file
  (`Buffer = 6`) `<>streamEnd` alone holds for the same files: the full buffer is the only obstacle.

* `BuffersAccounted`, `StaleHarmless`, `ReleaseAlone`: buffers on loan. What MediaCodec lends is what
  the frames carry (plus the one just read); a voided number is gone from every frame before MediaCodec
  can lend another; and a flush takes numbers off the frames only when neither thread is using one.
* `FramesConserved` (SurfaceCodec), `EngineHolds`: the four queues of the codec, its threads' hands
  and the engine's queues and hand are a partition of the frames, across flushes and seeks.
  `DisplayFresh`: no frame comes to the sink twice with one picture. It is also what SurfaceCodec
  assumes of its engine.
* `SinkCounted`: `video_sink_count` never drifts; if it did, the display would stop at
  `stream_sink_video_max`. (It starts at 0 although the sink has all frames, and stays that number
  below what the sink has, so that the limit is never reached.)
* `NoLostWakeUp` and `CallReturns` of SurfaceCodec, `PicturesFlow`: who sleeps has reason to; a flush and a close return,
  but for the late read of finding 4; while the caller lets the file play, frames are rendered
  again and again, wherever pauses and seeks had left them.
* `ContextAlive`, `ChannelFair`, `ReleaseReturns`: see EventQueue above.

### Findings

1. *Lost wake-up at close* (`stream.c:312`): `codec_run` is cleared and broadcast between the decoder
   thread's look at it and its wait: the join never returns.
2. *End seen too early* (`stream_video.c:3231`): the last packet comes between the look at the queue
   and the look at the end flag; it is never shown.
3. *Marker divided by the speed* (`stream_parser_ffmpeg.c:914`): a missing audio timestamp is not
   recognised after the division and its chunk is dropped.
4. *The late read* (`codec_sfdec2.c:746`): close flushes the codec while the decoder thread is between
   the mutex and its read; the read then waits for a picture nobody will send, and the join for the read.
5. *An old picture for a seek* (`stream_video.c:2589`): the first frame put in the sink after a
   seek ends its wait, also one from before it that was in `disp_q` or at its gate.

Noted while modelling, without a run of their own: `open_async` twice in a row opens
two videos (`avos_mp.c:661`); a control call looks at one slot of the mailbox only (`avos_mp.c:425`), with the consequences
described under StreamThreads; a stream whose open was under way when the player was destroyed lives on
(`avos_mp.c:674`);
`STREAM_LOOP`, which nothing sets, would make the engine a second caller of `thread_state_set`
(`stream_video.c:3193`, `4072`); a turn can end with `video_state` still waiting (`stream_video.c:3547`, `3489`).

### Bounds, and why they are enough

* `Pos = {1, 2}`, `MaxVideos = 2`: the mailbox holds two commands, and what the thread runs is one
  of them; two positions tell the last seek from an overtaken one, two objects tell the video of
  `media` from a lost one. The invariants are proved for all values.
* `StreamThreads` has no bound: it is finite as it stands, and `stream_threads` is exhaustive with all
  seven calls. `Calls` are the calls the application makes; that a call eventually returns is more than TLC
  can decide on so many states in minutes, so the run checks its safety part, that no sleeper is left behind.
* Three frames: one decoded, one displayed, one in the sink at once (and none left, so that the
  engine has to wait for the sink). The two violations need fewer. The invariants are proved for
  every finite set of frames.
* `Playback`: every order of up to six packets with room for three, so that a queue fills up,
  runs empty and one stream ends first; sound that starts together with the picture or two later; the
  third picture of the file shown before the second; chunks of sound of length 0 or 2, so that a time stands
  still or goes past that of the next chunk (they are 1 apart);
  first packets without a timestamp; a first picture that is no key frame. `Delay = 1` and
  `Early = 1` make a gate's answer differ from plain comparison, and `IntBound = 16` is wide enough for these
  timestamps not to wrap while the marker (the least int) does. `Speed = 2` is the least speed at
  which finding 3 shows.

* `surface_codec`: two frames, as many as `sfdec_max_frames`, and two pictures inside MediaCodec: one
  frame in each thread's hands, one frame behind the other in a queue, and a picture without a frame
  to take it. The invariants are proved for any number of both.
* `async_engine`: one frame and one seek. One frame is the hard case for `PicturesFlow` (there is
  no second one to go on with when it is held back) and makes the run exhaustive with liveness;
  the invariants are proved for any number of frames, seeks and pictures, and with two frames they were
  model-checked as well (1 987 344 states). `PlayN = 2` stands for the 10 of the code: the count is
  taken down once and ended once. The two frames of `async_seek` let an old picture wait while
  another is decoded.
* `event_queue`: two events tell an order from its reverse; two threads race for the queue; three events
  are one in Java, one queued and one about to be.

`CHECK_DEADLOCK FALSE` stands where the system stops for good: a closed `VideoDecode`, `SurfaceCodec`
and `AsyncEngine`, and a Java object that was released.

### Fairness, and why the code justifies it

* AsyncPlayer: both threads are scheduled, so weak fairness of the command thread and of a call once
  it is made; the application need not call. Not assumed: that an open ends. It may wait for a server
  for ever unless its abort flag is set, which the open polls (`Prompt`).
* VideoDecode: weak fairness of engine, decoder and of a call under way; a decoder comes to an end with
  each picture. Strong fairness of `FillRequest`: not every chunk is droppable. A stream that
  consists of nothing else would keep the engine in `DECODE_AGAIN` (listed as a hazard).
* SurfaceCodec: weak fairness of both threads and of a call under way; MediaCodec gives out what is
  decoded (`ReadPicture`). That the engine calls anything is not assumed.
* AsyncEngine: weak fairness of the engine's turns, of a seek under way and of both codec threads; strong
  fairness of `GetChunk` with a chunk (the file goes on) and of `Decoded` (MediaCodec may answer
  with a size first, but not for ever). The caller need not do anything: `PicturesFlow` speaks of
  what happens when he leaves the stream playing.
* EventQueue: weak fairness of the event thread, whose call into Java returns, and of the join. The
  player's threads and the Java object are free.
* Playback: weak fairness of the three threads, strong fairness of `TakePicture`: the engine polls,
  and the decoder finishes between two of its polls.

## 4. Proofs

TLAPS proves, for all values of the constants:

| Module | Theorem | Says |
|---|---|---|
| `AsyncPlayerProofs` | `TypeCorrect` | `Spec => []TypeOK` |
| | `CloseIsExclusive` | while close stops and deletes, the thread neither opens nor seeks |
| | `OpeningIsAlone` | no call works on a video that is being opened |
| | `FreedIsQuiet` | the player is freed after its thread has left |
| | `SeekPromiseKept` | a promised seek comes |
| | `LastSeekIsServed` | at rest, playback is where the last seek asked |
| `VideoDecodeProofs` | `TypeCorrect` | `Spec => []TypeOK` |
| | `FramesAreConserved` | no frame in two places, none lost in a whole turn |
| | `DecoderIsAlone` | the frame being written is left alone |
| | `ResultIsOfRequest` | an answer belongs to its request |
| `WorkerGateProofs` | `GatePromise` | a stopped worker stands still, with any number of callers |
| `StreamThreadsProofs` | `TypeCorrect` | `Spec => []TypeOK` |
| | `NoneAtWork` | what a call stopped is not at work while the call relies on it, but parser and audio beside a seek |
| | `AllRunning` | calls leave all four workers running, but audio dropped by crossing calls |
| | `PausedAsWanted` | after the calls the stream is paused as the application wants it, unless it paused beside a pending seek |
| | `NobodyOversleeps` | no wake-up of a worker or a caller is lost, but for audio dropped by crossing calls |
| | `GatesSafe` | `GatesKept`: each of the four workers with its callers implements `WorkerGate` |
| | `WorkersStandStill` | so each of them keeps the promise of `WorkerGate` |
| `PlaybackProofs` | `TypeCorrect` | `Spec => []TypeOK`, with the memory limit |
| | `SoundStartsInTime` | `SoundNotAhead` |
| | `PictureStartsInTime` | `PictureNotAhead` |
| | `RunsInOrder` | `InOrder`: nothing passes another on the way to decoder and sink |
| `SurfaceCodecProofs` | `TypeCorrect` | `Spec => []TypeOK` |
| | `FramesAreConserved` | every frame is in one queue or hand |
| | `BuffersAreAccounted` | what is lent is what the frames carry |
| | `StaleIsHarmless` | a voided buffer is gone before the next is lent |
| | `WakeUpsAreKept` | nobody sleeps while what he waits for is there |
| | `ReleaseIsAlone` | a flush strips the frames while both threads stand still |
| `AsyncEngineProofs` | `EngineIsClient` | `EngineSpec => Spec`: engine and caller are one of the clients SurfaceCodec allows |
| | `EngineTypeCorrect` | `EngineSpec => []EngineTypeOK` |
| | `EngineHoldsFrames` | what the codec does not have the engine has, once |
| | `SinkIsCounted` | `video_sink_count` is exact |
| | `DisplayIsFresh` | no picture comes to the sink twice |
| | `EngineLosesNone` | `FramesConserved` with this engine |
| `EventQueueProofs` | `TypeCorrect` | `Spec => []TypeOK` |
| | `ContextIsAlive` | the callback's context is there while a thread destroy has seen uses it |
| | `ImplementsChannel` | `Spec => Channel!Spec` |

Assumptions: `PosAssumption` (positions are positive; 0 is "none"), `VideosAssumption` (at least one
video), `FrameAssumption` (finitely many frames, `NoFrame` not one of them), `FramesAssumption` (`frames` lists every frame once),
`MaxInAssumption`, `SeekAssumption` (bounds are naturals, at least one picture to play),
`EventAssumption` and `PosterAssumption`. `PlaybackAssumption` gives the constants of Playback their
types; about the order of the times in a file nothing is assumed. `CallsAssumption` says that `Calls` are
calls. WorkerGate needs none.

The arguments. None of the properties is inductive alone.

* AsyncPlayer: `IInv` adds to the type invariant and the seek promise *which commands may be where*
  (`MailboxInv`: the position of the thread tells `cur`, the position of the client tells what can be
  pending), *the mailbox stays empty once close has cancelled* (`CloseInv`: only the client posts, and
  the client is in close), *who owns which video object* (`ObjectInv`: two concurrent opens work on
  two different objects, what a call read is alive and not being opened) and *where the last seek is* (`SeekInv`: in the
  mailbox, being executed, or done).
* VideoDecode: `IInv` adds where the frame of a request is in each position of the engine
  (`EngineInv`) and of the decoder (`DecoderInv`). The heart is the aborted turn: the decoder then
  still writes a frame the engine has given up, and the frame is in no queue, so that nobody
  can take it a second time.
* SurfaceCodec: the lists are first shown to stay lists of frames without repetition (lemmas about put,
  put_head and get), then that every step moves a frame from one place to another (`Partition`). Who is where is
  tied to `state`: a thread outside its sleep has READING or RENDERING set, so that a flush that sees
  neither finds both threads at rest, with nothing in their hands (`ThreadInv`). That is what makes
  `ReleaseAlone`, and with it the counting of the buffers, go through. `StaleHarmless` needs `FlushInv`: from
  the flush of the codec to the release of the frames nothing is inside it and nothing is lent.
* AsyncEngine: `EngineIsClient` is step simulation: each step of the engine is a step of SurfaceCodec
  or leaves it alone, so that the codec's invariants are inherited. The engine's own (queues, hand,
  count, the stages of a seek) are proved on top of them. `DisplayFresh` needs *what comes out of
  the decoder carries a buffer not yet shown* (`OutFresh`); it shows that the one condition SurfaceCodec
  puts on its client (`handle[f] # "shown"` in `SinkPut`) never holds this engine up.
* EventQueue: `ThreadInv` says that between create and the end of nativeRelease's destroy the event
  thread is there and nobody has asked it to leave, and that it has an event while it delivers. With
  it and `ContextAlive` every step of the code is the step of the channel it is meant to be.
* WorkerGate: `GateInv`: busy only under a grant to run, and the grant is what was last asked unless some
  caller waits.
* StreamThreads: a call is a list of items, and what can still become of a state depends on what is in
  the two lists. `Ahead(q)` is the set of marks a list leaves, read from its end: that a worker is
  still set running, that code relies on it being stopped, that an un-pause with a `was_paused` already read is to come,
  and so on. `Fit(q)` says that each item may stand before what follows it: no IDLE without a RUNNING
  after it, no `Touch` of a worker set running before. One lemma per call shows that its list fits and
  keeps fitting down every branch; others say what a step does to the marks (`NewList`, `NewFlags`).
  `Inv` relates the marks of *both* callers to threads and flags: a worker not set to RUNNING is
  still to be set by one of them (`RunAgain`), a worker someone relies on is asked to be IDLE (`Touched`),
  a worker has been granted what was asked or someone waits for it (`Answered`), a stream the application
  wants running is paused only while someone is to open it again (`WillRun`), and the other way round
  (`StaysPaused`). That one caller overrules the other shows as `crossed` in these, and only where it
  really can: a seek makes no requests but of parser and audio (`SeekBeside`). `LeftRunning` needs
  `AudioAgain`: a call that stops audio without a look starts it without a look. `NoLostWakeUp` follows from
  `WakeUps`, inductive on top of `Inv`: asking for IDLE wakes nobody, so a caller may be asleep after its
  answer was overruled; the other caller is then not only at work, it is going to run the worker (`WillWake`).
* Playback: what keeps a verdict true. The picture can only move on between the verdict of the sound (not
  ahead of it) and its store, because the decoder hands pictures on in the order of their times (`OutInv`). The
  sound can go back between the verdict of the picture and its store, but not behind how far it had
  come (`heard`), and while its own gate is closed its time does not change at all (`SoundInv`,
  `PictureInv`). The hard case is the store that opens the *other* side's gate, after a verdict "too far
  ahead": it is harmless only because the time behind it cannot change while the other gate is closed,
  except by way of the end of a stream. `RunsInOrder` is step simulation of two queues: one line to
  the decoder, over both chunks, one from it to the sink.

Only model-checked: everything that must eventually happen, which the prover cannot do (`CloseReturns`,
`DestroyReturns`, `CallReturns`, `TurnEnds`, `PlaysToEnd`, `PicturesFlow`, `ReleaseReturns`, and the
fairness in `ChannelFair`), and the violations. Every other property of a passing run is
a theorem. What the arithmetic does to a timestamp is proved only as far as that the result is a number.

## 5. Not modelled

* AsyncPlayer: `setdatasource_fd`, the metadata buffer, the caches `last.*`, events of the playing
  stream, plain setters, running out of memory.
* StreamThreads: `STREAM_LOOP`; what the bodies of the workers do; a stream that starts without audio; the
  decoder thread that sets the parser RUNNING while it flushes (`stream_video.c:2770`); what an asynchronous
  decoder changes in a seek (AsyncEngine has it). That calls return
  is shown as far as `NoLostWakeUp` goes: no sleeper is left behind; fairness and termination are not stated.
* VideoDecode: stepping and seeking while paused, changed video properties, frames that are not the
  sink's, chunks of size -1, `drop_P`, codecs that keep frames.
* Playback: pause and seek, the parser's sleep, subtitles, the SAMPLES mode, dropping and doubling of
  pictures while they play (`stream_sync`), sinks with `put_time`, the dummy chunk that flushes
  MP3 and AAC, several pictures in a chunk. A chunk of sound is decoded in one go, with any length of
  `Lengths`. The decoder is external: that its pictures come in the order of their times is assumed of
  it, not shown. All packets have the same size.
* SurfaceCodec: times and sizes, what is shown and what is dropped, `venc_put_time` (set by the caller of a
  seek while the sink thread reads it), the extra data sent again after a flush, failures of open, an open after
  a close.
* AsyncEngine: the end of the file, `STREAM_LOOP`, stepping, the change to another decoder after an
  error (the run ends with the old one closed), sinks without `put_time`, frames kept by the decoder
  (`locked_q`), resizing, a seek's reset of the audio side (StreamThreads has it). `codec_sfdec.c`
  and `codec_lavc_async.c` have the same interface and other threads.
* EventQueue: what threads left behind by a destroy do to player and context once they are freed; failing
  allocations, the surface, the conversion of subtitles, the metadata retriever.
* Stream buffer: `stream_parser_open`, which would start its thread, is not called in this tree, and
  `stream_queue.c` is used by its own test only.
* The share of the sources that is modelled is small because most of them are tables of character sets,
  image and subtitle formats, bitstream headers, device code and tools, which have no state that several
  threads or several calls could bring into disorder.
* The components without a module in section 2: I/O, tables and device code for good, the others as
  planned below.

## 6. Plan

Done, most important first: AsyncPlayer, WorkerGate with StreamThreads, VideoDecode, Playback,
SurfaceCodec with FrameQueue, AsyncEngine, EventQueue with EventChannel.

Next modules:
1. Seek and stepping in VideoDecode and Playback (frames freed under an engine that is past its check).
2. The change of decoder after an error in AsyncEngine: old frames, new codec, chunks from the cache.
3. `Cbe` as an abstract queue and the ring that implements it, where full and empty look the same.
4. Timers; `pts_reorder` as a function; `codec_lavc_async.c` as a second implementation of the
   asynchronous decoder.

Next theorems: the safety of what the next modules add; for VideoDecode the order of frames, once its
queues are sequences; for the gates of Playback what remains true of them when pause and seek close them
again.
