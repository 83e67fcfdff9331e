----------------------------- MODULE VideoDecode -----------------------------
(***************************************************************************)
(* One picture at a time: the engine thread in _stream_player_sync, the    *)
(* decoder thread _decode_thread and the caller of the stream's API, which *)
(* pauses the engine, stops it (thread_state_set) and finally closes both  *)
(* (src/Source/stream_video.c, stream.c).  Modelled for a sink that lends  *)
(* its frames (use_sink_frames) and a decoder that decodes into the frame  *)
(* it is given (codec_ffmpeg_video.c).                                     *)
(*                                                                         *)
(* The decoder thread holds codec_mutex in "decode" and "decoded"; what    *)
(* the others do under it is one step.  The queues of frames are sets: the *)
(* order in them is not modelled.                                          *)
(***************************************************************************)
EXTENDS Naturals, FiniteSets

CONSTANTS
  Frame,    \* the frames the sink lends
  NoFrame   \* the NULL frame

ASSUME FrameAssumption == IsFiniteSet(Frame) /\ NoFrame \notin Frame

VARIABLES
  decodeQ, dispQ,  \* s->decode_q and disp_q
  sink,            \* the frames that are with the sink
  dframe,          \* s->decode_frame
  vframe,          \* s->vcodec.decode_frame
  done,            \* s->vcodec.done: 0 nothing yet, 1 requested, 2 decoded
  videoState,      \* s->video_state
  chunk,           \* s->cdata_now.valid
  epc,             \* where the engine is
  dpc, target,     \* where the decoder thread is, the frame it decodes into
  asleep,          \* the decoder thread sleeps on codec_code
  run,             \* s->codec_run
  paused,          \* s->paused
  asked, granted,  \* engine_tstate._set and ._get
  cpc, was,        \* where the caller is, its was_paused
  cut              \* history: a turn of the engine has been aborted

queues  == <<decodeQ, dispQ, sink>>
request == <<dframe, vframe, done, videoState, chunk>>
decoder == <<dpc, target, asleep>>
caller  == <<run, paused, asked, cpc, was>>
vars    == <<queues, request, epc, decoder, granted, caller, cut>>

TypeOK ==
  /\ decodeQ \subseteq Frame /\ dispQ \subseteq Frame /\ sink \subseteq Frame
  /\ dframe \in Frame \cup {NoFrame} /\ vframe \in Frame \cup {NoFrame}
  /\ done \in {0, 1, 2}
  /\ videoState \in {"CALL_DECODER", "WAITING_FOR_DEC_RSP"}
  /\ chunk \in BOOLEAN
  /\ epc \in {"rest", "top", "check", "get", "got", "ask", "show", "await", "take", "gone"}
  /\ dpc \in {"check", "lock", "decode", "decoded", "parked", "gone"}
  /\ target \in Frame \cup {NoFrame}
  /\ dpc = "decode" => target \in Frame
  /\ asleep \in BOOLEAN /\ run \in BOOLEAN /\ paused \in BOOLEAN /\ was \in BOOLEAN
  /\ asked \in {"RUNNING", "IDLE", "EXIT"} /\ granted \in {"RUNNING", "IDLE", "EXIT"}
  /\ cpc \in {"none", "stop", "stopping", "stopped", "restarting",
              "exit", "exiting", "codec", "signal", "join", "closed"}
  /\ cut \in BOOLEAN

\* stream_start has created the threads and lets the engine run.
Init ==
  /\ decodeQ = Frame /\ dispQ = {} /\ sink = {}
  /\ dframe = NoFrame /\ vframe = NoFrame /\ done = 0
  /\ videoState = "CALL_DECODER" /\ chunk = FALSE
  /\ epc = "rest" /\ dpc = "check" /\ target = NoFrame /\ asleep = FALSE
  /\ run = TRUE /\ paused = FALSE
  /\ asked = "RUNNING" /\ granted = "RUNNING"
  /\ cpc = "none" /\ was = FALSE /\ cut = FALSE

-----------------------------------------------------------------------------
(* The engine: _player_thread and _stream_player_sync *)

\* thread_state_ack between two turns.
Ack ==
  /\ epc = "rest"
  /\ asked # granted \/ asked = "RUNNING"
  /\ granted' = asked
  /\ epc' = CASE asked = "RUNNING" -> "top" [] asked = "IDLE" -> "rest" [] asked = "EXIT" -> "gone"
  /\ UNCHANGED <<queues, request, decoder, caller, cut>>

\* The frames the sink gives back are free again, and a chunk may have come.
TurnBegin ==
  /\ epc = "top"
  /\ \E back \in SUBSET sink : sink' = sink \ back /\ decodeQ' = decodeQ \cup back
  /\ chunk' \in {chunk, TRUE}
  /\ epc' = "check"
  /\ UNCHANGED <<dispQ, dframe, vframe, done, videoState, decoder, granted, caller, cut>>

\* The engine returns while paused and when there is nothing to decode.
TurnCheck ==
  /\ epc = "check"
  /\ epc' = IF paused \/ ~chunk THEN "rest" ELSE "get"
  /\ UNCHANGED <<queues, request, decoder, granted, caller, cut>>

\* Where output_frames leaves the frames: they go to the sink, or back to
\* decode_q when they hold no picture.
OutputFrames ==
  \/ UNCHANGED queues
  \/ \E f \in dispQ :
       /\ dispQ' = dispQ \ {f}
       /\ \/ sink' = sink \cup {f} /\ UNCHANGED decodeQ
          \/ decodeQ' = decodeQ \cup {f} /\ UNCHANGED sink

\* Mutant: the frame stays in decode_q.
GetFramePeek ==
  /\ epc = "get"
  /\ \/ \E f \in decodeQ :
          /\ dframe' = f /\ epc' = "got"
          /\ UNCHANGED queues
     \/ /\ decodeQ = {}
        /\ IF paused THEN UNCHANGED queues ELSE OutputFrames
        /\ epc' = "rest"
        /\ UNCHANGED dframe
  /\ UNCHANGED <<vframe, done, videoState, chunk, decoder, granted, caller, cut>>

\* A frame to decode into; without one, the sink has to give one back first.
GetFrame ==
  /\ epc = "get"
  /\ \/ \E f \in decodeQ :
          /\ decodeQ' = decodeQ \ {f}
          /\ dframe' = f /\ epc' = "got"
          /\ UNCHANGED <<dispQ, sink>>
     \/ /\ decodeQ = {}
        /\ IF paused THEN UNCHANGED queues ELSE OutputFrames
        /\ epc' = "rest"
        /\ UNCHANGED dframe
  /\ UNCHANGED <<vframe, done, videoState, chunk, decoder, granted, caller, cut>>

\* Mutant: the frame of a dropped chunk is forgotten.
DropChunkAndFrame ==
  /\ epc = "got"
  /\ videoState' = "WAITING_FOR_DEC_RSP"
  /\ chunk' = FALSE
  /\ dframe' = NoFrame
  /\ epc' = "top"
  /\ UNCHANGED <<queues, vframe, done, decoder, granted, caller, cut>>

\* A droppable chunk is skipped and the turn starts again.
DropChunk ==
  /\ epc = "got"
  /\ videoState' = "WAITING_FOR_DEC_RSP"
  /\ chunk' = FALSE
  /\ decodeQ' = decodeQ \cup {dframe} /\ dframe' = NoFrame
  /\ epc' = "top"
  /\ UNCHANGED <<dispQ, sink, vframe, done, decoder, granted, caller, cut>>

\* The request is filled in, without codec_mutex.  (A chunk of size -1 would not
\* be handed to the decoder: no parser makes one.)
FillRequest ==
  /\ epc = "got"
  /\ videoState' = "WAITING_FOR_DEC_RSP"
  /\ vframe' = dframe
  /\ epc' = "ask"
  /\ UNCHANGED <<queues, dframe, done, chunk, decoder, granted, caller, cut>>

MutexFree == dpc \notin {"decode", "decoded"}

\* Mutant: the decoder is not woken.
AskSilently ==
  /\ epc = "ask" /\ MutexFree
  /\ done' = 1
  /\ epc' = "show"
  /\ UNCHANGED <<queues, dframe, vframe, videoState, chunk, decoder, granted, caller, cut>>

\* "call decoder, set flag last".
AskDecoder ==
  /\ epc = "ask" /\ MutexFree
  /\ done' = 1
  /\ asleep' = FALSE
  /\ epc' = "show"
  /\ UNCHANGED <<queues, dframe, vframe, videoState, chunk, dpc, target, granted, caller, cut>>

\* Frames are output while the decoder works.
ShowFrames ==
  /\ epc = "show"
  /\ IF paused THEN UNCHANGED queues ELSE OutputFrames
  /\ epc' = "await"
  /\ UNCHANGED <<request, decoder, granted, caller, cut>>

\* Mutant: the engine does not look at vcodec.done.
AwaitNothing ==
  /\ epc = "await"
  /\ epc' = "take"
  /\ UNCHANGED <<queues, request, decoder, granted, caller, cut>>

\* The engine polls vcodec.done, and leaves as soon as it is asked to stop.
AwaitDecoder ==
  /\ epc = "await"
  /\ \/ done = 2 /\ epc' = "take" /\ UNCHANGED cut
     \/ done # 2 /\ asked # "RUNNING" /\ epc' = "rest" /\ cut' = TRUE
  /\ UNCHANGED <<queues, request, decoder, granted, caller>>

\* The decoded frame is queued for display; the chunk may hold more.  A paused
\* stream shows it at once.
TakeFrame ==
  /\ epc = "take"
  /\ dframe' = NoFrame
  /\ \/ dispQ' = dispQ \cup {vframe} /\ UNCHANGED <<decodeQ, sink>>
     \/ /\ paused
        /\ \E f \in dispQ \cup {vframe} :
             /\ dispQ' = (dispQ \cup {vframe}) \ {f}
             /\ \/ sink' = sink \cup {f} /\ UNCHANGED decodeQ
                \/ decodeQ' = decodeQ \cup {f} /\ UNCHANGED sink
  /\ chunk' \in {chunk, FALSE}
  /\ videoState' = "CALL_DECODER"
  /\ epc' = "rest"
  /\ UNCHANGED <<vframe, done, decoder, granted, caller, cut>>

Engine ==
  \/ Ack \/ TurnBegin \/ TurnCheck \/ GetFrame \/ DropChunk \/ FillRequest
  \/ AskDecoder \/ ShowFrames \/ AwaitDecoder \/ TakeFrame

-----------------------------------------------------------------------------
(* _decode_thread *)

DecoderCheck ==
  /\ dpc = "check"
  /\ dpc' = IF run THEN "lock" ELSE "gone"
  /\ UNCHANGED <<queues, request, epc, target, asleep, granted, caller, cut>>

\* Mutant: the decoder takes the frame before it looks for a request.
DecoderLockEarly ==
  /\ dpc = "lock"
  /\ target' = vframe
  /\ \/ dpc' = "decode" /\ UNCHANGED asleep
     \/ done # 1 /\ dpc' = "parked" /\ asleep' = TRUE
  /\ UNCHANGED <<queues, request, epc, granted, caller, cut>>

\* With codec_mutex: decode what is requested, or sleep on codec_code.
DecoderLock ==
  /\ dpc = "lock"
  /\ \/ done = 1 /\ dpc' = "decode" /\ target' = vframe /\ UNCHANGED asleep
     \/ done # 1 /\ dpc' = "parked" /\ asleep' = TRUE /\ UNCHANGED target
  /\ UNCHANGED <<queues, request, epc, granted, caller, cut>>

\* _video_decode returns the frame it was given; on an error it does not write
\* vcodec.decode_frame.
Decode ==
  /\ dpc = "decode"
  /\ vframe' \in {target, vframe}
  /\ done' = 2
  /\ target' = NoFrame
  /\ dpc' = "decoded"
  /\ UNCHANGED <<queues, dframe, videoState, chunk, epc, asleep, granted, caller, cut>>

\* Nobody can have asked again: the decoder has not let go of codec_mutex.
DecoderPark ==
  /\ dpc = "decoded"
  /\ dpc' = "parked" /\ asleep' = TRUE
  /\ UNCHANGED <<queues, request, epc, target, granted, caller, cut>>

DecoderWake ==
  /\ dpc = "parked" /\ ~asleep
  /\ dpc' = "check"
  /\ UNCHANGED <<queues, request, epc, target, asleep, granted, caller, cut>>

Decoder == DecoderCheck \/ DecoderLock \/ Decode \/ DecoderPark \/ DecoderWake

-----------------------------------------------------------------------------
(* The caller of the API *)

\* stream_pause and stream_un_pause.  The wait for video_state in stream_pause
\* is over after a second whatever it has seen.
PauseCall ==
  /\ cpc = "none" /\ ~paused
  /\ paused' = TRUE
  /\ UNCHANGED <<queues, request, epc, decoder, granted, run, asked, cpc, was, cut>>

ResumeCall ==
  /\ cpc = "none" /\ paused
  /\ paused' = FALSE
  /\ UNCHANGED <<queues, request, epc, decoder, granted, run, asked, cpc, was, cut>>

\* stream_set_speed, _set_audio_stream, _set_subtitle_stream ("stop") and
\* stream_stop ("exit") pause first.
ChangeCall(what) ==
  /\ cpc = "none"
  /\ was' = paused /\ paused' = TRUE
  /\ cpc' = what
  /\ UNCHANGED <<queues, request, epc, decoder, granted, run, asked, cut>>

\* thread_state_set and its return.
AskEngine(from, mode, to) ==
  /\ cpc = from
  /\ asked' = mode
  /\ cpc' = to
  /\ UNCHANGED <<queues, request, epc, decoder, granted, run, paused, was, cut>>

EngineStopped ==
  /\ cpc = "stopping" /\ granted = asked
  /\ cpc' = "stopped"
  /\ UNCHANGED <<queues, request, epc, decoder, granted, run, paused, asked, was, cut>>

EngineRestarted ==
  /\ cpc = "restarting" /\ granted = asked
  /\ paused' = was
  /\ cpc' = "none"
  /\ UNCHANGED <<queues, request, epc, decoder, granted, run, asked, was, cut>>

\* stream_close joins the engine, then tells the decoder thread to leave:
\* codec_run is cleared outside codec_mutex, the broadcast is sent inside.
EngineJoined ==
  /\ cpc = "exiting" /\ epc = "gone"
  /\ cpc' = "codec"
  /\ UNCHANGED <<queues, request, epc, decoder, granted, run, paused, asked, was, cut>>

ClearRun ==
  /\ cpc = "codec"
  /\ run' = FALSE
  /\ cpc' = "signal"
  /\ UNCHANGED <<queues, request, epc, decoder, granted, paused, asked, was, cut>>

SignalDecoder ==
  /\ cpc = "signal" /\ MutexFree
  /\ asleep' = FALSE
  /\ cpc' = "join"
  /\ UNCHANGED <<queues, request, epc, dpc, target, granted, run, paused, asked, was, cut>>

JoinDecoder ==
  /\ cpc = "join" /\ dpc = "gone"
  /\ cpc' = "closed"
  /\ UNCHANGED <<queues, request, epc, decoder, granted, run, paused, asked, was, cut>>

Call == PauseCall \/ ResumeCall \/ ChangeCall("stop") \/ ChangeCall("exit")

Progress ==
  \/ AskEngine("stop", "IDLE", "stopping") \/ EngineStopped
  \/ AskEngine("stopped", "RUNNING", "restarting") \/ EngineRestarted
  \/ AskEngine("exit", "EXIT", "exiting") \/ EngineJoined
  \/ ClearRun \/ SignalDecoder \/ JoinDecoder

Next == Engine \/ Decoder \/ Call \/ Progress

Spec == Init /\ [][Next]_vars

\* All three threads are scheduled, the decoder comes to an end with every
\* picture, a call that was made goes on, and not every chunk is droppable (only
\* MJPEG frames owed to the clock and B frames are: _droppable).
FairSpec ==
  /\ Spec
  /\ WF_vars(Engine) /\ WF_vars(Decoder) /\ WF_vars(Progress)
  /\ SF_vars(FillRequest)

-----------------------------------------------------------------------------
(* Properties *)

\* The frame the engine works on in its turn.
InHand == IF epc \in {"got", "ask", "show", "await", "take"} THEN {dframe} ELSE {}

\* A frame is never in two places; and none gets lost, unless a turn was cut
\* short by thread_state_set (_stream_player_sync, output_frames).
FramesConserved ==
  /\ decodeQ \cap dispQ = {} /\ decodeQ \cap sink = {} /\ dispQ \cap sink = {}
  /\ InHand \cap (decodeQ \cup dispQ \cup sink) = {}
  /\ ~cut => decodeQ \cup dispQ \cup sink \cup InHand = Frame

\* Nobody shows or reuses the frame the decoder is writing, not even after the
\* engine gave up waiting for it (_decode_thread).
DecodingAlone ==
  dpc = "decode" => target \notin decodeQ \cup dispQ \cup sink

\* What the engine takes back is the frame it asked for, and the decoder is
\* done with it, unless a turn was cut short.
ResultOfRequest ==
  epc = "take" => dpc # "decode" /\ (~cut => vframe = dframe)

\* Every turn of the engine ends: no request is missed and no answer.
TurnEnds == epc \notin {"rest", "gone"} ~> epc \in {"rest", "gone"}

\* What the comment "stop all threads" says of stream_close in stream_stop: it
\* returns with the threads joined.
CloseReturns == cpc = "exit" ~> cpc = "closed"
=============================================================================
