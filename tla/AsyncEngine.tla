----------------------------- MODULE AsyncEngine -----------------------------
(***************************************************************************)
(* The engine for a decoder with a thread of its own: _stream_player_async *)
(* of src/Source/stream_video.c, called again and again by the engine      *)
(* thread, over the decoder and sink of SurfaceCodec; and the caller of    *)
(* the API, who pauses, resumes, seeks and stops.  The two share the       *)
(* fields of the stream without a lock, and a seek does not stop the       *)
(* engine: it sets video_flush and play_n_video_frames and waits, a second *)
(* at most, for a picture.                                                 *)
(*                                                                         *)
(* Every step of the engine that calls the decoder or the sink is that     *)
(* call's step of SurfaceCodec together with what the engine does before   *)
(* and after it.  The stream is data from one position to the next: a      *)
(* chunk and a picture are told apart by the seek they were read           *)
(* after (1 before the first).  Each seek goes far enough for the rule by  *)
(* which the engine throws away pictures from before it.  The file has no  *)
(* end here, and STREAM_LOOP, which nothing in the sources sets, is off.   *)
(***************************************************************************)
EXTENDS SurfaceCodec

CONSTANTS
  MaxSeek,  \* bound: seeks
  PlayN     \* the 10 of the call of _stream_play_n_frames in _stream_seek_real, lowered

ASSUME SeekAssumption == MaxSeek \in Nat /\ PlayN \in Nat \ {0}

VARIABLES
  decodeQ, dispQ,          \* decode_q, disp_q
  hand,                    \* decode_frame, out_frame or output_frame: never two of them
  epc,                     \* where the engine is in its turn
  sinkCount,               \* video_sink_count
  chunk,                   \* cdata_next or cdata_now; 0 is none
  paused, seeking, videoFlush,  \* paused, seek, video_flush
  playN, playOne, target,  \* play_n_video_frames, _one, and what _time and _old_time let pass
  caller, was,             \* where the caller is, its was_paused
  position,                \* what the parser reads
  fed, picture             \* the pictures inside MediaCodec; of each frame, its picture

turn   == <<decodeQ, dispQ, hand, epc, sinkCount, chunk>>
play   == <<playN, playOne, target>>
shared == <<paused, seeking, videoFlush>>
calls  == <<caller, was, position>>
data   == <<fed, picture>>
evars  == <<turn, play, shared, calls, data>>
allvars == <<vars, evars>>

Position == 1 .. MaxSeek + 1

EngineTypeOK ==
  /\ TypeOK
  /\ decodeQ \in Seq(Frame) /\ dispQ \in Seq(Frame) /\ hand \in Frame \cup {NoFrame}
  /\ epc \in {"turn", "flush", "queue", "fetch", "check", "put", "putting", "getout", "getting",
              "output", "gate", "send", "close", "gone"}
  /\ sinkCount \in Int /\ chunk \in Position \cup {0}
  /\ paused \in BOOLEAN /\ seeking \in BOOLEAN /\ videoFlush \in BOOLEAN
  /\ playN \in 0 .. PlayN /\ playOne \in BOOLEAN /\ target \in Position
  /\ caller \in {"none", "init", "parse", "video", "flush", "one", "frames", "times", "wait",
                 "failed"}
  /\ was \in BOOLEAN /\ position \in Position
  /\ fed \in Seq(Position)
  /\ picture \in [Frame -> Position]

\* stream_start has started the threads and un_paused; the sink still has all frames.
EngineInit ==
  /\ Init
  /\ decodeQ = <<>> /\ dispQ = <<>> /\ hand = NoFrame /\ epc = "turn"
  /\ sinkCount = 0 /\ chunk = 0
  /\ paused = FALSE /\ seeking = FALSE /\ videoFlush = FALSE
  /\ playN = 0 /\ playOne = FALSE /\ target = 1
  /\ caller = "none" /\ was = FALSE /\ position = 1
  /\ fed = <<>>
  /\ picture = [f \in Frame |-> 1]

-----------------------------------------------------------------------------
(* A turn *)

Go(from, to) == epc = from /\ epc' = to

\* The caller may set video_flush again right after: it does not see the difference.
BeginFlush ==
  /\ Go("turn", "flush") /\ videoFlush
  /\ FlushBegin
  /\ videoFlush' = FALSE /\ fed' = <<>>
  /\ UNCHANGED <<decodeQ, dispQ, hand, sinkCount, chunk, play, paused, seeking, calls,
                 picture>>

Flushing ==
  /\ epc = "flush"
  /\ FlushTest \/ FlushWake \/ FlushEnd
  /\ epc' = IF cpc' = "idle" THEN "queue" ELSE "flush"
  /\ UNCHANGED <<decodeQ, dispQ, hand, sinkCount, chunk, play, shared, calls, data>>

NoFlush ==
  /\ Go("turn", "queue") /\ ~videoFlush
  /\ UNCHANGED <<vars, decodeQ, dispQ, hand, sinkCount, chunk, play, shared, calls, data>>

\* Mutant: the count is not taken down.
QueueFrameUncounted ==
  /\ epc = "queue"
  /\ SinkGet
  /\ decodeQ' = FqPut(decodeQ, FqFirst(getQ))
  /\ UNCHANGED <<dispQ, hand, epc, sinkCount, chunk, play, shared, calls, data>>

\* _queue_sink_frames: what the sink has done with.
QueueFrame ==
  /\ epc = "queue"
  /\ SinkGet
  /\ decodeQ' = FqPut(decodeQ, FqFirst(getQ))
  /\ sinkCount' = sinkCount - 1
  /\ UNCHANGED <<dispQ, hand, epc, chunk, play, shared, calls, data>>

\* _get_next_chunk looks at seek before it asks the parser.
QueueEmpty ==
  /\ Go("queue", IF ~seeking /\ chunk = 0 THEN "fetch" ELSE "check")
  /\ getQ = <<>> /\ MtxFree
  /\ UNCHANGED <<vars, decodeQ, dispQ, hand, sinkCount, chunk, play, shared, calls, data>>

GetChunk ==
  /\ Go("fetch", "check")
  /\ chunk' \in {position, 0}
  /\ UNCHANGED <<vars, decodeQ, dispQ, hand, sinkCount, play, shared, calls, data>>

\* A paused stream ends its turn here; otherwise the engine takes a frame to
\* decode into.
Check ==
  /\ epc = "check"
  /\ IF playN = 0 /\ paused
       THEN epc' = "turn" /\ UNCHANGED <<hand, decodeQ>>
       ELSE /\ epc' = "put"
            /\ IF hand = NoFrame /\ decodeQ # <<>>
                 THEN hand' = FqFirst(decodeQ) /\ decodeQ' = FqRest(decodeQ)
                 ELSE UNCHANGED <<hand, decodeQ>>
  /\ UNCHANGED <<vars, dispQ, sinkCount, chunk, play, shared, calls, data>>

\* put_out with a frame, in two steps, or without, which only looks for an error.
PutFrame ==
  /\ \/ Go("put", "putting") /\ hand # NoFrame /\ CheckError("put") /\ UNCHANGED hand
     \/ Go("put", "getout") /\ hand = NoFrame /\ ~error /\ MtxFree /\ UNCHANGED <<vars, hand>>
     \/ Go("putting", "getout") /\ PutOut(hand) /\ hand' = NoFrame
  /\ UNCHANGED <<decodeQ, dispQ, sinkCount, chunk, play, shared, calls, data>>

\* get_out answers an error without a frame, and that is not looked at.
AskFrame ==
  /\ \/ Go("getout", "getting") /\ CheckError("get")
     \/ Go("getout", "output") /\ error /\ MtxFree /\ UNCHANGED vars
  /\ UNCHANGED <<decodeQ, dispQ, hand, sinkCount, chunk, play, shared, calls, data>>

\* A picture from before the target; with one from two seeks before, the rule
\* may go either way.
Discards(p) == playN > 0 /\ p < target

\* Mutant: a picture that is thrown away takes its frame with it.
TakePictureLoses ==
  /\ Go("getting", "output")
  /\ GetOut
  /\ \/ outQ = <<>> /\ UNCHANGED <<decodeQ, dispQ>>
     \/ /\ outQ # <<>>
        /\ IF Discards(picture[FqFirst(outQ)])
             THEN UNCHANGED <<decodeQ, dispQ>>
             ELSE dispQ' = FqPut(dispQ, FqFirst(outQ)) /\ UNCHANGED decodeQ
  /\ UNCHANGED <<hand, sinkCount, chunk, play, shared, calls, data>>

TakePicture ==
  /\ Go("getting", "output")
  /\ GetOut
  /\ \/ outQ = <<>> /\ UNCHANGED <<decodeQ, dispQ>>
     \/ /\ outQ # <<>>
        /\ IF Discards(picture[FqFirst(outQ)])
             THEN decodeQ' = FqPut(decodeQ, FqFirst(outQ)) /\ UNCHANGED dispQ
             ELSE dispQ' = FqPut(dispQ, FqFirst(outQ)) /\ UNCHANGED decodeQ
  /\ UNCHANGED <<hand, sinkCount, chunk, play, shared, calls, data>>

\* output_frames takes a frame, which then waits at its gate (stream_sync_video).
TakeOutput ==
  /\ Go("output", "gate")
  /\ ~paused \/ playN > 0
  /\ sinkCount < 5 /\ dispQ # <<>>
  /\ hand' = FqFirst(dispQ) /\ dispQ' = FqRest(dispQ)
  /\ UNCHANGED <<vars, decodeQ, sinkCount, chunk, play, shared, calls, data>>

\* Mutant: a frame is put in the sink and kept for another time.
OutputKeeps ==
  /\ epc = "gate"
  /\ SinkPut(hand)
  /\ sinkCount' = sinkCount + 1
  /\ dispQ' = FqPut(dispQ, hand)
  /\ hand' = NoFrame /\ epc' = "send"
  /\ UNCHANGED <<decodeQ, chunk, play, shared, calls, data>>

\* Mutant: the number of pictures to play is counted down below zero.
OutputBelow ==
  /\ epc = "gate"
  /\ SinkPut(hand)
  /\ sinkCount' = sinkCount + 1
  /\ playOne' = FALSE
  /\ IF dispQ # <<>>
       THEN /\ epc' = "gate"
            /\ hand' = FqFirst(dispQ) /\ dispQ' = FqRest(dispQ)
            /\ playN' = IF playOne THEN 0 ELSE playN
       ELSE /\ epc' = "send"
            /\ hand' = NoFrame
            /\ playN' = playN - 1
            /\ UNCHANGED dispQ
  /\ picture' = [picture EXCEPT ![hand] = 1]
  /\ UNCHANGED <<decodeQ, chunk, target, shared, calls, fed>>

\* _put_frame_in_sink, and the next frame or the end of the loop.
Output ==
  /\ epc = "gate"
  /\ SinkPut(hand)
  /\ sinkCount' = sinkCount + 1
  /\ playOne' = FALSE
  /\ IF dispQ # <<>>
       THEN /\ epc' = "gate"
            /\ hand' = FqFirst(dispQ) /\ dispQ' = FqRest(dispQ)
            /\ playN' = IF playOne THEN 0 ELSE playN
       ELSE /\ epc' = "send"
            /\ hand' = NoFrame
            /\ playN' = IF playOne \/ playN = 0 THEN 0 ELSE playN - 1
            /\ UNCHANGED dispQ
  /\ picture' = [picture EXCEPT ![hand] = 1]
  /\ UNCHANGED <<decodeQ, chunk, target, shared, calls, fed>>

NoOutput ==
  /\ Go("output", "send")
  /\ (paused /\ playN = 0) \/ sinkCount >= 5 \/ dispQ = <<>>
  /\ UNCHANGED <<vars, decodeQ, dispQ, hand, sinkCount, chunk, play, shared, calls, data>>

\* dec_in; MediaCodec may have no room.
SendChunk ==
  /\ Go("send", "turn") /\ chunk # 0
  /\ DecIn
  /\ fed' = Append(fed, chunk) /\ chunk' = 0
  /\ UNCHANGED <<decodeQ, dispQ, hand, sinkCount, play, shared, calls, picture>>

SendNothing ==
  /\ Go("send", "turn")
  /\ chunk = 0 \/ (inside = MaxIn /\ ~error /\ MtxFree)
  /\ UNCHANGED <<vars, decodeQ, dispQ, hand, sinkCount, chunk, play, shared, calls, data>>

\* An error of the decoder: _check_end closes it and takes another, which is
\* not modelled.
Break ==
  /\ epc \in {"put", "send"} /\ error /\ (epc = "send" => chunk # 0)
  /\ CloseBegin
  /\ epc' = "close"
  /\ UNCHANGED <<decodeQ, dispQ, hand, sinkCount, chunk, play, shared, calls, data>>

\* stream_stop has joined the engine and closes the decoder.
Stop ==
  /\ Go("turn", "close") /\ caller = "none"
  /\ CloseBegin
  /\ UNCHANGED <<decodeQ, dispQ, hand, sinkCount, chunk, play, shared, calls, data>>

Closing ==
  /\ epc = "close"
  /\ \/ CloseFlush /\ epc' = "close" /\ fed' = <<>>
     \/ CloseJoin /\ epc' = "gone" /\ UNCHANGED fed
  /\ UNCHANGED <<decodeQ, dispQ, hand, sinkCount, chunk, play, shared, calls, picture>>

Turn ==
  \/ BeginFlush \/ Flushing \/ NoFlush \/ QueueFrame \/ QueueEmpty \/ GetChunk \/ Check
  \/ PutFrame \/ AskFrame \/ TakePicture \/ TakeOutput \/ Output \/ NoOutput
  \/ SendChunk \/ SendNothing \/ Break \/ Closing

-----------------------------------------------------------------------------
(* Decoder, sink and MediaCodec, as in SurfaceCodec *)

Decoded ==
  /\ ReadPicture
  /\ picture' = [picture EXCEPT ![dframe] = Head(fed)] /\ fed' = Tail(fed)
  /\ UNCHANGED <<turn, play, shared, calls>>

Threads == (DecStep \/ SinkStep \/ ReadSize \/ ReadError) /\ UNCHANGED evars

-----------------------------------------------------------------------------
(* The caller *)

Does(from, to) == caller = from /\ caller' = to

\* stream_pause and stream_un_pause.
Pause ==
  /\ caller = "none"
  /\ paused' = ~paused
  /\ UNCHANGED <<vars, turn, play, seeking, videoFlush, calls, data>>

\* _stream_seek_real: _seek_pause.
Seek ==
  /\ Does("none", "init") /\ position <= MaxSeek
  /\ was' = paused /\ paused' = TRUE
  /\ UNCHANGED <<vars, turn, play, seeking, videoFlush, position, data>>

\* _seek_init.
SeekInit ==
  /\ Does("init", "parse")
  /\ seeking' = TRUE /\ chunk' = 0
  /\ UNCHANGED <<vars, decodeQ, dispQ, hand, epc, sinkCount, play, paused, videoFlush, was,
                 position, data>>

\* The parser's seek, which throws away its packets; or its failure and
\* _video_init, after which the stream goes on as it was, but for the chunk.
SeekParser ==
  /\ Does("parse", "video")
  /\ position' = position + 1
  /\ UNCHANGED <<vars, turn, play, shared, was, data>>

SeekFails ==
  /\ Does("parse", "failed")
  /\ seeking' = FALSE
  /\ UNCHANGED <<vars, turn, play, paused, videoFlush, was, position, data>>

\* _video_init: the engine may fetch again,
SeekVideoInit ==
  /\ Does("video", "flush")
  /\ seeking' = FALSE
  /\ UNCHANGED <<vars, turn, play, paused, videoFlush, was, position, data>>

\* before the decoder is told.
SeekFlush ==
  /\ Does("flush", "one")
  /\ videoFlush' = TRUE
  /\ UNCHANGED <<vars, turn, play, paused, seeking, was, position, data>>

\* The parser runs again; then, without a lock, one after the other: that one
\* picture is enough, the number of pictures, the times.
PlayOneFrame ==
  /\ Does("one", "frames")
  /\ playOne' = TRUE
  /\ UNCHANGED <<vars, turn, playN, target, shared, was, position, data>>

\* _stream_play_n_frames.
PlayFrames ==
  /\ Does("frames", "times")
  /\ playN' = PlayN
  /\ UNCHANGED <<vars, turn, playOne, target, shared, was, position, data>>

PlayTimes ==
  /\ Does("times", "wait")
  /\ target' = position
  /\ UNCHANGED <<vars, turn, playN, playOne, shared, was, position, data>>

\* A picture has been put in the sink, or a second has gone by, or the parser has
\* failed: _seek_un_pause.
SeekEnds ==
  /\ Does("wait", "none") \/ Does("failed", "none")
  /\ paused' = was /\ was' = FALSE
  /\ UNCHANGED <<vars, turn, play, seeking, videoFlush, position, data>>

SeekStep ==
  \/ SeekInit \/ SeekParser \/ SeekFails \/ SeekVideoInit \/ SeekFlush
  \/ PlayOneFrame \/ PlayFrames \/ PlayTimes \/ SeekEnds

EngineNext == Turn \/ Decoded \/ Threads \/ Pause \/ Seek \/ SeekStep \/ Stop

EngineSpec == EngineInit /\ [][EngineNext]_allvars

\* The threads are scheduled; the file goes on, and MediaCodec, which may have
\* something else to say first, gives out its pictures.
EngineFair ==
  /\ EngineSpec
  /\ WF_allvars(Turn) /\ WF_allvars(SeekStep)
  /\ WF_allvars(DecStep /\ UNCHANGED evars) /\ WF_allvars(SinkStep /\ UNCHANGED evars)
  /\ SF_allvars(GetChunk /\ chunk' # 0) /\ SF_allvars(Decoded)

-----------------------------------------------------------------------------
\* What the decoder and the sink do not have is in the engine's queues or in its
\* hand, once: a seek, a discarded picture or a pause loses no frame.
EngineHolds == Partition(<<decodeQ, dispQ, Hand(hand)>>, held)

\* video_sink_count lags behind what the sink has by the number of frames: it
\* is never set after the sink has handed them out for the first time, so that
\* stream_sink_video_max allows as many more.
SinkCounted ==
  sinkCount = Len(vencQ) + Len(Hand(sframe)) + Len(getQ) - Len(frames)

\* No frame comes to the sink twice with one picture.
DisplayFresh ==
  \A f \in ToSet(dispQ) \cup (IF epc = "gate" THEN {hand} ELSE {}) : handle[f] # "shown"

\* While the file plays on, one frame after the other is shown: wherever the
\* pauses, seeks and flushes have left the frames, they come round.
Playing == ~paused /\ caller = "none" /\ epc \notin {"close", "gone"} /\ ~error
PicturesFlow == <>[]Playing => []<>(spc = "render") \/ <>[](LateRead /\ epc = "flush")

\* What a seek waits for is a picture from its position.
PictureOfSeek ==
  [][playOne /\ playN > 0 /\ playN' = 0 => picture[hand] = position]_allvars

=============================================================================
