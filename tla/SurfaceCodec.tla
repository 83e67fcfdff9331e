---------------------------- MODULE SurfaceCodec ----------------------------
(***************************************************************************)
(* The decoder and sink "sfdec2" (src/Source/codec_sfdec2.c): Android's    *)
(* MediaCodec decodes into buffers of its own, videodec_thread reads them  *)
(* and ties each to a frame, videosink_thread renders the frames when      *)
(* their time has come, and the engine passes the frames around:           *)
(*                                                                         *)
(*   put_out  decQ -> videodec_thread -> outQ   get_out                    *)
(*   put      vencQ -> videosink_thread -> getQ   get                      *)
(*                                                                         *)
(* What runs under locked.mtx is one step, or several while a thread is    *)
(* inside its loop ("top", "inner", "flush").  MediaCodec, behind          *)
(* src/external/android/libsfdec, is external: it lends buffers, takes all *)
(* of them back when it is flushed, and answers a read that waits at that  *)
(* moment; a read that begins later waits for a picture.  Whether a frame  *)
(* that has had its turn is shown or dropped is not told apart: the buffer *)
(* goes back to the codec either way.  The engine is any single thread     *)
(* that uses the functions of STREAM_DEC_VIDEO and STREAM_SINK_VIDEO and   *)
(* does not put a frame in the sink again before it was decoded again;     *)
(* AsyncEngine is the engine of stream_video.c.                            *)
(***************************************************************************)
EXTENDS FrameQueue, FiniteSets

CONSTANTS
  frames,   \* p->frames
  NoFrame,  \* the NULL frame
  MaxIn     \* bound: pictures that are inside MediaCodec at a time

ASSUME FramesAssumption ==
  frames \in Seq(ToSet(frames)) /\ IsInjective(frames) /\ NoFrame \notin ToSet(frames)

ASSUME MaxInAssumption == MaxIn \in Nat

Frame == ToSet(frames)

VARIABLES
  decQ, outQ, vencQ, getQ,  \* locked.dec_q, out_q, venc_q, get_q
  state,                    \* locked.state
  run, error,               \* locked.run, locked.error
  asleep,                   \* the threads asleep on locked.cond
  handle,                   \* of each frame, its android_handle and what the codec thinks of it:
                            \* "none"; "lent" by the codec; "shown", given back by sfdec_buf_render;
                            \* "stale", taken back by a flush
  dpc, dframe, dbuf,        \* videodec_thread: where it is, its f, the handle it has read
  spc, sframe,              \* videosink_thread: where it is, its f
  inside, lent,             \* MediaCodec: pictures in it, buffers it has lent
  cpc, held                 \* the engine: where it is, the frames it has to itself

queues == <<decQ, outQ, vencQ, getQ>>
flags  == <<state, run, error, asleep>>
decs   == <<dpc, dframe, dbuf>>
sinks  == <<spc, sframe>>
codec  == <<inside, lent>>
engine == <<cpc, held>>
vars   == <<queues, flags, handle, decs, sinks, codec, engine>>

TypeOK ==
  /\ decQ \in Seq(Frame) /\ outQ \in Seq(Frame) /\ vencQ \in Seq(Frame) /\ getQ \in Seq(Frame)
  /\ state \subseteq {"reading", "rendering", "flushing"}
  /\ run \in BOOLEAN /\ error \in BOOLEAN
  /\ asleep \subseteq {"dec", "sink", "engine"}
  /\ handle \in [Frame -> {"none", "lent", "shown", "stale"}]
  /\ dpc \in {"start", "top", "inner", "wait", "release", "enter", "reading", "back", "end"}
  /\ dframe \in Frame \cup {NoFrame} /\ dbuf \in {"none", "lent", "stale", "error"}
  /\ spc \in {"start", "top", "inner", "wait", "timed", "render", "back", "end"}
  /\ sframe \in Frame \cup {NoFrame}
  /\ inside \in Nat /\ lent \in Nat
  /\ cpc \in {"idle", "put", "get", "flush", "flushwait", "close", "join", "closed"}
  /\ held \subseteq Frame

\* videodec_open has created both threads and videosink_open has queued the frames.
Init ==
  /\ decQ = <<>> /\ outQ = <<>> /\ vencQ = <<>> /\ getQ = frames
  /\ state = {} /\ run = TRUE /\ error = FALSE /\ asleep = {}
  /\ handle = [f \in Frame |-> "none"]
  /\ dpc = "start" /\ dframe = NoFrame /\ dbuf = "none"
  /\ spc = "start" /\ sframe = NoFrame
  /\ inside = 0 /\ lent = 0
  /\ cpc = "idle" /\ held = {}

\* locked.mtx is free.
MtxFree == dpc \notin {"top", "inner"} /\ spc \notin {"top", "inner"} /\ cpc # "flush"

\* set_state_l broadcasts when something changes.
SetState(s) ==
  /\ state' = s
  /\ asleep' = IF s # state THEN {} ELSE asleep

\* The same before the thread goes to sleep itself.
SetStateAndSleep(s, thread) ==
  /\ state' = s
  /\ asleep' = (IF s # state THEN {} ELSE asleep) \cup {thread}

\* What sfdec_buf_release does to a buffer that the codec still lends.
Unlent(h) == IF h = "lent" THEN 1 ELSE 0

-----------------------------------------------------------------------------
(* MediaCodec *)

\* AMediaCodec_flush: what was inside is dropped, what was lent is taken back,
\* and a read that waits for a picture comes back without one.
CodecFlush ==
  /\ inside' = 0 /\ lent' = 0
  /\ handle' = [f \in Frame |-> IF handle[f] = "lent" THEN "stale" ELSE handle[f]]
  /\ dpc' = IF dpc = "reading" THEN "back" ELSE dpc
  /\ dbuf' = IF dpc = "back" /\ dbuf = "lent" THEN "stale" ELSE dbuf
  /\ UNCHANGED dframe

\* sfdec_read returns a buffer.
ReadPicture ==
  /\ dpc = "reading" /\ inside > 0
  /\ inside' = inside - 1 /\ lent' = lent + 1
  /\ dbuf' = "lent" /\ dpc' = "back"
  /\ UNCHANGED <<queues, flags, handle, dframe, sinks, engine>>

\* It returns the size of the pictures that will come, and no buffer.
ReadSize ==
  /\ dpc = "reading" /\ inside > 0
  /\ dpc' = "back"
  /\ UNCHANGED <<queues, flags, handle, dframe, dbuf, sinks, codec, engine>>

\* It fails.
ReadError ==
  /\ dpc = "reading"
  /\ dbuf' = "error" /\ dpc' = "back"
  /\ UNCHANGED <<queues, flags, handle, dframe, sinks, codec, engine>>

-----------------------------------------------------------------------------
(* videodec_thread *)

DecLock ==
  /\ dpc = "start" /\ MtxFree
  /\ dpc' = "top"
  /\ UNCHANGED <<queues, flags, handle, dframe, dbuf, sinks, codec, engine>>

\* The outer loop ends with READING cleared.
DecTop ==
  /\ dpc = "top"
  /\ dframe' = NoFrame /\ dbuf' = "none"
  /\ IF run /\ ~error
       THEN dpc' = "inner" /\ UNCHANGED <<state, asleep>>
       ELSE dpc' = "end" /\ SetState(state \ {"reading"})
  /\ UNCHANGED <<queues, run, error, handle, sinks, codec, engine>>

\* It sleeps while there is a flush or nothing to do; it leaves the mutex with
\* a frame and READING set.
DecInner ==
  /\ dpc = "inner"
  /\ \/ /\ "flushing" \in state \/ (run /\ ~error /\ decQ = <<>>)
        /\ SetStateAndSleep(state \ {"reading"}, "dec")
        /\ dpc' = "wait"
        /\ UNCHANGED <<decQ, dframe>>
     \/ /\ "flushing" \notin state /\ run /\ ~error /\ decQ # <<>>
        /\ dframe' = FqFirst(decQ) /\ decQ' = FqRest(decQ)
        /\ SetState(state \cup {"reading"})
        /\ dpc' = "release"
     \/ /\ "flushing" \notin state /\ ~(run /\ ~error)
        /\ SetState(state \cup {"reading"})
        /\ dpc' = "top"
        /\ UNCHANGED <<decQ, dframe>>
  /\ UNCHANGED <<outQ, vencQ, getQ, run, error, handle, dbuf, sinks, codec, engine>>

DecWake ==
  /\ dpc = "wait" /\ "dec" \notin asleep /\ MtxFree
  /\ dpc' = "inner"
  /\ UNCHANGED <<queues, flags, handle, dframe, dbuf, sinks, codec, engine>>

\* Mutant: frame_release keeps the handle.
DecReleaseKeeps ==
  /\ dpc = "release"
  /\ lent' = lent - Unlent(handle[dframe])
  /\ dpc' = "enter"
  /\ UNCHANGED <<queues, flags, handle, dframe, dbuf, sinks, inside, engine>>

\* frame_release, without the mutex.
DecRelease ==
  /\ dpc = "release"
  /\ lent' = lent - Unlent(handle[dframe])
  /\ handle' = [handle EXCEPT ![dframe] = "none"]
  /\ dpc' = "enter"
  /\ UNCHANGED <<queues, flags, dframe, dbuf, sinks, inside, engine>>

\* The thread comes to wait in AMediaCodec_dequeueOutputBuffer.
DecRead ==
  /\ dpc = "enter"
  /\ dpc' = "reading"
  /\ UNCHANGED <<queues, flags, handle, dframe, dbuf, sinks, codec, engine>>

\* Mutant: a failed read is taken for a picture.
DecBackError ==
  /\ dpc = "back" /\ MtxFree
  /\ error' = (error \/ dbuf = "error")
  /\ IF dbuf = "none" \/ "flushing" \in state
       THEN decQ' = FqPutHead(decQ, dframe) /\ UNCHANGED <<outQ, handle>>
       ELSE /\ handle' = [handle EXCEPT ![dframe] = dbuf]
            /\ outQ' = FqPut(outQ, dframe)
            /\ UNCHANGED decQ
  /\ dframe' = NoFrame /\ dbuf' = "none" /\ dpc' = "top"
  /\ UNCHANGED <<vencQ, getQ, state, run, asleep, sinks, codec, engine>>

\* Back under the mutex: without a buffer, or when a flush has begun, the frame
\* is the first to be decoded into again; otherwise it carries the buffer.
DecBack ==
  /\ dpc = "back" /\ MtxFree
  /\ error' = (error \/ dbuf = "error")
  /\ IF dbuf \in {"none", "error"} \/ "flushing" \in state
       THEN decQ' = FqPutHead(decQ, dframe) /\ UNCHANGED <<outQ, handle>>
       ELSE /\ handle' = [handle EXCEPT ![dframe] = dbuf]
            /\ outQ' = FqPut(outQ, dframe)
            /\ UNCHANGED decQ
  /\ dframe' = NoFrame /\ dbuf' = "none" /\ dpc' = "top"
  /\ UNCHANGED <<vencQ, getQ, state, run, asleep, sinks, codec, engine>>

DecStep == DecLock \/ DecTop \/ DecInner \/ DecWake \/ DecRelease \/ DecRead \/ DecBack

-----------------------------------------------------------------------------
(* videosink_thread *)

SinkLock ==
  /\ spc = "start" /\ MtxFree
  /\ spc' = "top"
  /\ UNCHANGED <<queues, flags, handle, decs, sframe, codec, engine>>

\* Only here does the thread look at error.
SinkTop ==
  /\ spc = "top"
  /\ sframe' = NoFrame
  /\ IF run /\ ~error
       THEN spc' = "inner" /\ UNCHANGED <<state, asleep>>
       ELSE spc' = "end" /\ SetState(state \ {"rendering"})
  /\ UNCHANGED <<queues, run, error, handle, decs, codec, engine>>

\* It sleeps while there is a flush or nothing to show.  A frame whose picture
\* was flushed goes back at once; the others are rendered or dropped now, or
\* wait for their time.
SinkInner ==
  /\ spc = "inner"
  /\ \/ /\ "flushing" \in state \/ (run /\ vencQ = <<>>)
        /\ SetStateAndSleep(state \ {"rendering"}, "sink")
        /\ spc' = "wait"
        /\ UNCHANGED <<vencQ, getQ, sframe>>
     \/ /\ "flushing" \notin state /\ run /\ vencQ # <<>>
        /\ vencQ' = FqRest(vencQ)
        /\ \/ /\ handle[FqFirst(vencQ)] = "none"
              /\ SetState(state \cup {"rendering"})
              /\ getQ' = FqPut(getQ, FqFirst(vencQ))
              /\ spc' = "top" /\ UNCHANGED sframe
           \/ /\ handle[FqFirst(vencQ)] # "none"
              /\ sframe' = FqFirst(vencQ)
              /\ SetState(state \cup {"rendering"})
              /\ spc' \in {"render", "timed"}
              /\ UNCHANGED getQ
     \/ /\ "flushing" \notin state /\ ~run
        /\ SetState(state \cup {"rendering"})
        /\ spc' = "top"
        /\ UNCHANGED <<vencQ, getQ, sframe>>
  /\ UNCHANGED <<decQ, outQ, run, error, handle, decs, codec, engine>>

SinkWake ==
  /\ spc = "wait" /\ "sink" \notin asleep /\ MtxFree
  /\ spc' = "inner"
  /\ UNCHANGED <<queues, flags, handle, decs, sframe, codec, engine>>

\* The frame's time has come, or the thread was woken by a flush or the end.
\* Woken by anything else it waits on.
SinkTimedOver ==
  /\ spc = "timed" /\ MtxFree
  /\ spc' = "render"
  /\ UNCHANGED <<queues, flags, handle, decs, sframe, codec, engine>>

\* sfdec_buf_render, without the mutex: the buffer goes back to the codec.
SinkRender ==
  /\ spc = "render"
  /\ handle' = [handle EXCEPT ![sframe] = IF @ = "lent" THEN "shown" ELSE @]
  /\ lent' = lent - Unlent(handle[sframe])
  /\ spc' = "back"
  /\ UNCHANGED <<queues, flags, decs, sframe, inside, engine>>

\* Mutant: the frame is forgotten.
SinkBackForgets ==
  /\ spc = "back" /\ MtxFree
  /\ sframe' = NoFrame /\ spc' = "top"
  /\ UNCHANGED <<queues, flags, handle, decs, codec, engine>>

SinkBack ==
  /\ spc = "back" /\ MtxFree
  /\ getQ' = FqPut(getQ, sframe)
  /\ sframe' = NoFrame /\ spc' = "top"
  /\ UNCHANGED <<decQ, outQ, vencQ, flags, handle, decs, codec, engine>>

SinkStep == SinkLock \/ SinkTop \/ SinkInner \/ SinkWake \/ SinkTimedOver \/ SinkRender \/ SinkBack

-----------------------------------------------------------------------------
(* The engine, between two calls ("idle") and inside them *)

\* videodec_put_out and videodec_get_out look at error under the mutex, let go
\* of it and take it again.
CheckError(call) ==
  /\ cpc = "idle" /\ MtxFree /\ ~error
  /\ cpc' = call
  /\ UNCHANGED <<queues, flags, handle, decs, sinks, codec, held>>

PutOut(f) ==
  /\ cpc = "put" /\ MtxFree /\ f \in held
  /\ decQ' = FqPut(decQ, f) /\ held' = held \ {f}
  /\ asleep' = {}
  /\ cpc' = "idle"
  /\ UNCHANGED <<outQ, vencQ, getQ, state, run, error, handle, decs, sinks, codec>>

GetOut ==
  /\ cpc = "get" /\ MtxFree
  /\ \/ outQ = <<>> /\ UNCHANGED <<outQ, held>>
     \/ outQ # <<>> /\ outQ' = FqRest(outQ) /\ held' = held \cup {FqFirst(outQ)}
  /\ cpc' = "idle"
  /\ UNCHANGED <<decQ, vencQ, getQ, flags, handle, decs, sinks, codec>>

\* videodec_dec_in: MediaCodec takes one picture.
DecIn ==
  /\ cpc = "idle" /\ MtxFree /\ ~error
  /\ inside < MaxIn
  /\ inside' = inside + 1
  /\ UNCHANGED <<queues, flags, handle, decs, sinks, lent, engine>>

\* Mutant: the sink is given a frame for which nobody wakes it.
SinkPutQuiet(f) ==
  /\ cpc = "idle" /\ MtxFree /\ f \in held /\ handle[f] # "shown"
  /\ vencQ' = FqPut(vencQ, f) /\ held' = held \ {f}
  /\ UNCHANGED <<decQ, outQ, getQ, flags, handle, decs, sinks, codec, cpc>>

\* videosink_put.
SinkPut(f) ==
  /\ cpc = "idle" /\ MtxFree /\ f \in held /\ handle[f] # "shown"
  /\ vencQ' = FqPut(vencQ, f) /\ held' = held \ {f}
  /\ asleep' = {}
  /\ UNCHANGED <<decQ, outQ, getQ, state, run, error, handle, decs, sinks, codec, cpc>>

\* videosink_get, when there is a frame.
SinkGet ==
  /\ cpc = "idle" /\ MtxFree /\ getQ # <<>>
  /\ getQ' = FqRest(getQ) /\ held' = held \cup {FqFirst(getQ)}
  /\ UNCHANGED <<decQ, outQ, vencQ, flags, handle, decs, sinks, codec, cpc>>

\* videodec_flush: FLUSHING, then sfdec_flush with the mutex held.
FlushBegin ==
  /\ cpc = "idle" /\ MtxFree
  /\ SetState(state \cup {"flushing"})
  /\ CodecFlush
  /\ cpc' = "flush"
  /\ UNCHANGED <<queues, run, error, sinks, held>>

\* Mutant: a flush does not wait for a frame that is being read.
StillRendering == "rendering" \notin state

\* What a flush waits for.
Still == state \cap {"reading", "rendering"} = {}

\* It waits until both threads have come to their sleep.
FlushTest ==
  /\ cpc = "flush" /\ ~Still
  /\ cpc' = "flushwait" /\ asleep' = asleep \cup {"engine"}
  /\ UNCHANGED <<queues, state, run, error, handle, decs, sinks, codec, held>>

FlushWake ==
  /\ cpc = "flushwait" /\ "engine" \notin asleep /\ MtxFree
  /\ cpc' = "flush"
  /\ UNCHANGED <<queues, flags, handle, decs, sinks, codec, held>>

\* frame_release for every frame.
ReleaseAll ==
  /\ lent' = lent - Cardinality({f \in Frame : handle[f] = "lent"})
  /\ handle' = [f \in Frame |-> "none"]

FlushEnd ==
  /\ cpc = "flush" /\ Still
  /\ ReleaseAll
  /\ SetState(state \ {"flushing"})
  /\ cpc' = "idle"
  /\ UNCHANGED <<queues, run, error, decs, sinks, inside, held>>

\* Mutant: videodec_close tells nobody.
CloseBeginQuiet ==
  /\ cpc = "idle" /\ MtxFree
  /\ run' = FALSE
  /\ cpc' = "close"
  /\ UNCHANGED <<queues, state, error, asleep, handle, decs, sinks, codec, held>>

\* videodec_close.
CloseBegin ==
  /\ cpc = "idle" /\ MtxFree
  /\ run' = FALSE /\ asleep' = {}
  /\ cpc' = "close"
  /\ UNCHANGED <<queues, state, error, handle, decs, sinks, codec, held>>

CloseFlush ==
  /\ cpc = "close"
  /\ CodecFlush
  /\ cpc' = "join"
  /\ UNCHANGED <<queues, flags, sinks, held>>

CloseJoin ==
  /\ cpc = "join" /\ dpc = "end" /\ spc = "end"
  /\ ReleaseAll
  /\ cpc' = "closed"
  /\ UNCHANGED <<queues, flags, decs, sinks, inside, held>>

\* The calls that last, and their ends.
CallStep ==
  \/ \E f \in Frame : PutOut(f)
  \/ GetOut \/ FlushTest \/ FlushWake \/ FlushEnd \/ CloseFlush \/ CloseJoin

EngineStep ==
  \/ \E call \in {"put", "get"} : CheckError(call)
  \/ DecIn \/ SinkGet \/ FlushBegin \/ CloseBegin
  \/ \E f \in Frame : SinkPut(f)
  \/ CallStep

CodecStep == ReadPicture \/ ReadSize \/ ReadError

Next == DecStep \/ SinkStep \/ CodecStep \/ EngineStep

Spec == Init /\ [][Next]_vars

\* The threads are scheduled, and MediaCodec gives out what it has decoded.
FairSpec ==
  /\ Spec
  /\ WF_vars(DecStep) /\ WF_vars(SinkStep) /\ WF_vars(CallStep) /\ WF_vars(ReadPicture)

-----------------------------------------------------------------------------
Hand(f) == IF f = NoFrame THEN <<>> ELSE <<f>>

\* Every frame is in one place: one of the four queues, the hands of a thread or
\* the engine's.  A frame that is nowhere is one picture less to decode into for
\* the rest of the file; one in two queues cuts both (it has one `next').
FramesConserved ==
  /\ Partition(<<decQ, outQ, vencQ, getQ, Hand(dframe), Hand(sframe)>>, Frame \ held)
  /\ held \subseteq Frame

\* The buffers MediaCodec has lent are those tied to the frames and the one just
\* read: none is forgotten (the codec would stop when it has no more) and none is
\* given back twice, across any flush.
BuffersAccounted ==
  lent = Cardinality({f \in Frame : handle[f] = "lent"}) + Unlent(dbuf)

\* A buffer number that a flush made void is never used while the codec may have
\* lent the same number again.
StaleHarmless ==
  ("stale" \in {handle[f] : f \in Frame} \/ dbuf = "stale") => inside = 0 /\ lent = 0

\* A flush takes the buffers off the frames only while both threads stand still.
ReleaseAlone ==
  [][(cpc = "flush" /\ cpc' = "idle") =>
       /\ dpc \notin {"release", "enter", "reading", "back"}
       /\ spc \notin {"timed", "render", "back"}]_vars

\* Nobody sleeps through what he is waiting for.
NoLostWakeUp ==
  /\ "dec" \in asleep => "flushing" \in state \/ (run /\ ~error /\ decQ = <<>>)
  /\ "sink" \in asleep => "flushing" \in state \/ (run /\ vencQ = <<>>)
  /\ "engine" \in asleep => state \cap {"reading", "rendering"} # {}

\* A read that began after the flush or the close had its answer: it waits for a
\* picture that the engine, which waits for the thread, cannot send.
LateRead == dpc = "reading" /\ inside = 0

\* A flush returns, and so does a close, but for a late read.
CallReturns ==
  /\ (cpc \in {"flush", "flushwait"}) ~> (cpc = "idle" \/ LateRead)
  /\ (cpc = "close") ~> (cpc = "closed" \/ LateRead)

\* A close returns.
CloseReturns == (cpc = "close") ~> (cpc = "closed")
=============================================================================
