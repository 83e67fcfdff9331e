-------------------------- MODULE AsyncEngineProofs --------------------------
(***************************************************************************)
(* Theorems about AsyncEngine.  The engine is a client of the decoder and  *)
(* the sink: each of its steps is one of SurfaceCodec or leaves SurfaceCodec *)
(* alone, so that what is proved there holds here, and what the engine     *)
(* has is what SurfaceCodec says it holds.                                 *)
(***************************************************************************)
EXTENDS AsyncEngine, SurfaceCodecProofs

enginePlaces == <<decodeQ, dispQ, Hand(hand)>>

\* The engine has a frame in its hand only on the way to the decoder and to the
\* sink.
HandInv ==
  /\ hand # NoFrame => epc \in {"put", "putting", "gate", "close", "gone"}
  /\ epc \in {"putting", "gate"} => hand # NoFrame

\* The decoder's frames have not been shown.
OutFresh == \A f \in ToSet(outQ) : handle[f] # "shown"

\* A seek under way is still to come or has moved the position.
SeekInv == caller \in {"init", "parse"} => position <= MaxSeek

EngineInv ==
  /\ IInv
  /\ EngineTypeOK /\ EngineHolds /\ SinkCounted /\ DisplayFresh
  /\ HandInv /\ OutFresh /\ SeekInv /\ Len(fed) = inside

-----------------------------------------------------------------------------
\* All actions of the engine, of its caller and of the threads behind it.
LEMMA EngineCases ==
  ASSUME [EngineNext]_allvars
  PROVE  \/ BeginFlush \/ Flushing \/ NoFlush \/ QueueFrame \/ QueueEmpty \/ GetChunk \/ Check
         \/ PutFrame \/ AskFrame \/ TakePicture \/ TakeOutput \/ Output \/ NoOutput
         \/ SendChunk \/ SendNothing \/ Break \/ Closing \/ Decoded \/ Threads
         \/ Pause \/ Seek \/ SeekInit \/ SeekParser \/ SeekFails \/ SeekVideoInit \/ SeekFlush \/ PlayOneFrame
         \/ PlayFrames \/ PlayTimes \/ SeekEnds \/ Stop \/ UNCHANGED allvars
BY DEF EngineNext, Turn, SeekStep

\* Each step is one of SurfaceCodec, or none.
LEMMA EngineStepIsStep ==
  ASSUME TypeOK, [EngineNext]_allvars PROVE [Next]_vars
<1> USE DEF Next, DecStep, SinkStep, CodecStep, EngineStep, CallStep
<1>0. held \subseteq Frame
  BY DEF TypeOK
<1>1. CASE BeginFlush \/ Flushing \/ QueueFrame \/ AskFrame \/ TakePicture \/ SendChunk \/ Break
           \/ Closing \/ Stop
  BY <1>1 DEF BeginFlush, Flushing, QueueFrame, AskFrame, TakePicture, SendChunk, Break, Closing, Stop
<1>2. CASE PutFrame
  <2>1. CASE CheckError("put")
    BY <2>1
  <2>2. CASE PutOut(hand)
    <3>1. hand \in Frame
      BY <1>0, <2>2 DEF PutOut
    <3>2. QED
      BY <2>2, <3>1
  <2>3. QED
    BY <1>2, <2>1, <2>2 DEF PutFrame
<1>3. CASE Output
  <2>1. SinkPut(hand)
    BY <1>3 DEF Output
  <2>2. hand \in Frame
    BY <1>0, <2>1 DEF SinkPut
  <2>3. QED
    BY <2>1, <2>2
<1>4. CASE NoFlush \/ QueueEmpty \/ GetChunk \/ Check \/ TakeOutput \/ NoOutput \/ SendNothing
  BY <1>4 DEF NoFlush, QueueEmpty, GetChunk, Check, TakeOutput, NoOutput, SendNothing
<1>5. CASE Decoded \/ Threads
  BY <1>5 DEF Decoded, Threads
<1>6. CASE Pause \/ Seek \/ SeekInit \/ SeekParser \/ SeekFails \/ SeekVideoInit \/ SeekFlush \/ PlayOneFrame
           \/ PlayFrames \/ PlayTimes \/ SeekEnds \/ UNCHANGED allvars
  BY <1>6 DEF Pause, Seek, SeekInit, SeekParser, SeekFails, SeekVideoInit, SeekFlush, PlayOneFrame, PlayFrames,
     PlayTimes, SeekEnds, allvars
<1>7. QED
  BY <1>1, <1>2, <1>3, <1>4, <1>5, <1>6, EngineCases

LEMMA DecoderInvariance == EngineSpec => []IInv
<1>1. EngineInit => IInv
  BY InitInv DEF EngineInit
<1>2. IInv /\ [EngineNext]_allvars => IInv'
  BY EngineStepIsStep, StepInv DEF IInv
<1>3. QED
  BY <1>1, <1>2, PTL DEF EngineSpec

\* The engine of stream_video.c is one of the engines that SurfaceCodec allows:
\* it calls the decoder and the sink in the order they expect, puts only what it
\* holds, and nothing in the sink that was not decoded since.
THEOREM EngineIsClient == EngineSpec => Spec
<1>1. EngineInit => Init
  BY DEF EngineInit
<1>2. IInv /\ [EngineNext]_allvars => [Next]_vars
  BY EngineStepIsStep DEF IInv
<1>3. QED
  BY <1>1, <1>2, DecoderInvariance, PTL DEF EngineSpec, Spec
-----------------------------------------------------------------------------
(* What the engine has. *)

LEMMA EngineQueueFacts ==
  ASSUME EngineInv
  PROVE  /\ enginePlaces \in [1 .. 3 -> Seq(Frame)]
         /\ Partition(enginePlaces, held)
         /\ IsInjective(decodeQ) /\ IsInjective(dispQ)
         /\ ToSet(decodeQ) \cup ToSet(dispQ) \subseteq held
         /\ hand # NoFrame => hand \in held \ (ToSet(decodeQ) \cup ToSet(dispQ))
<1>1. enginePlaces \in [1 .. 3 -> Seq(Frame)] /\ 3 \in Nat
  BY HandFacts, FrameFacts DEF EngineInv, EngineTypeOK, enginePlaces
<1>2. Partition(enginePlaces, held)
  BY DEF EngineInv, EngineHolds, enginePlaces
<1>3. /\ \A k, l \in 1 .. 3 : k # l => ToSet(enginePlaces[k]) \cap ToSet(enginePlaces[l]) = {}
      /\ \A k \in 1 .. 3 : IsInjective(enginePlaces[k])
      /\ \A x : x \in held <=> \E k \in 1 .. 3 : x \in ToSet(enginePlaces[k])
  BY <1>1, <1>2, PartitionMeans, Zenon
<1>4. IsInjective(decodeQ) /\ IsInjective(dispQ) /\ ToSet(decodeQ) \cup ToSet(dispQ) \subseteq held
  BY <1>3 DEF enginePlaces
<1>5. ASSUME hand # NoFrame PROVE hand \in held \ (ToSet(decodeQ) \cup ToSet(dispQ))
  <2>1. hand \in ToSet(enginePlaces[3])
    BY <1>5, HandFacts, FrameFacts DEF EngineInv, EngineTypeOK, enginePlaces
  <2>2. QED
    BY <1>3, <2>1 DEF enginePlaces
<1>6. QED
  BY <1>1, <1>2, <1>4, <1>5

EngineQueuesOK ==
  decodeQ \in Seq(Frame) /\ dispQ \in Seq(Frame) /\ hand \in Frame \cup {NoFrame}

\* The engine still has all it holds after a step, each frame in one place.
LEMMA EngineHoldsStep == EngineInv /\ [EngineNext]_allvars => EngineQueuesOK' /\ EngineHolds'
<1> SUFFICES ASSUME EngineInv, [EngineNext]_allvars PROVE EngineQueuesOK' /\ EngineHolds'
  OBVIOUS
<1> DEFINE Goal == EngineQueuesOK' /\ EngineHolds'
<1>0. /\ EngineQueuesOK /\ HandInv /\ NoFrame \notin Frame /\ 3 \in Nat
      /\ getQ \in Seq(Frame) /\ outQ \in Seq(Frame) /\ IsInjective(getQ) /\ IsInjective(outQ)
      /\ ToSet(getQ) \cup ToSet(outQ) \subseteq Frame \ held
  BY FrameFacts, QueueFacts DEF EngineInv, EngineTypeOK, EngineQueuesOK, IInv, TypeOK
<1>a. ASSUME EngineQueuesOK', Partition(enginePlaces', held') PROVE Goal
  BY <1>a DEF EngineHolds, enginePlaces
<1>b. ASSUME EngineQueuesOK' PROVE enginePlaces' \in [1 .. 3 -> Seq(Frame)]
  BY <1>0, <1>b, HandFacts DEF EngineQueuesOK, enginePlaces
<1>c. ASSUME UNCHANGED <<decodeQ, dispQ, hand, held>> PROVE Goal
  BY <1>0, <1>c DEF EngineInv, EngineQueuesOK, EngineHolds
<1>1. CASE QueueFrame
  <2> DEFINE f == FqFirst(getQ)
  <2>1. /\ getQ # <<>> /\ decodeQ' = FqPut(decodeQ, f) /\ held' = held \cup {f}
        /\ UNCHANGED <<dispQ, hand>>
    BY <1>1 DEF QueueFrame, SinkGet
  <2>2. f \in Frame /\ f \notin held
    BY <1>0, <2>1, GetFacts
  <2>3. decodeQ' \in Seq(Frame) /\ ToSet(decodeQ') = ToSet(decodeQ) \cup {f} /\ IsInjective(decodeQ')
    <3>1. decodeQ \in Seq(Frame) /\ IsInjective(decodeQ) /\ f \in Frame
      BY <1>0, <2>1, <2>2, EngineQueueFacts DEF EngineQueuesOK
    <3>2. QED
      BY <2>1, <3>1, PutFacts
  <2>4. EngineQueuesOK'
    BY <1>0, <2>1, <2>3 DEF EngineQueuesOK
  <2>5. /\ enginePlaces' \in [1 .. 3 -> Seq(Frame)]
        /\ \A k \in (1 .. 3) \ {1} : enginePlaces'[k] = enginePlaces[k]
        /\ ToSet(enginePlaces'[1]) = ToSet(enginePlaces[1]) \cup {f} /\ IsInjective(enginePlaces'[1])
    BY <1>b, <2>1, <2>3, <2>4 DEF enginePlaces
  <2>6. Partition(enginePlaces', held \cup {f})
    <3>1. 1 \in 1 .. 3
      OBVIOUS
    <3>2. QED
      BY <1>0, <2>2, <2>5, <3>1, EngineQueueFacts, JoinsPartition, Zenon
  <2>7. QED
    BY <1>a, <2>1, <2>4, <2>6
<1>2. CASE TakePicture /\ outQ # <<>> /\ Discards(picture[FqFirst(outQ)])
  <2> DEFINE f == FqFirst(outQ)
  <2>1. /\ outQ # <<>> /\ decodeQ' = FqPut(decodeQ, f) /\ held' = held \cup {f}
        /\ UNCHANGED <<dispQ, hand>>
    BY <1>2 DEF TakePicture, GetOut
  <2>2. f \in Frame /\ f \notin held
    BY <1>0, <2>1, GetFacts
  <2>3. decodeQ' \in Seq(Frame) /\ ToSet(decodeQ') = ToSet(decodeQ) \cup {f} /\ IsInjective(decodeQ')
    <3>1. decodeQ \in Seq(Frame) /\ IsInjective(decodeQ) /\ f \in Frame
      BY <1>0, <2>1, <2>2, EngineQueueFacts DEF EngineQueuesOK
    <3>2. QED
      BY <2>1, <3>1, PutFacts
  <2>4. EngineQueuesOK'
    BY <1>0, <2>1, <2>3 DEF EngineQueuesOK
  <2>5. /\ enginePlaces' \in [1 .. 3 -> Seq(Frame)]
        /\ \A k \in (1 .. 3) \ {1} : enginePlaces'[k] = enginePlaces[k]
        /\ ToSet(enginePlaces'[1]) = ToSet(enginePlaces[1]) \cup {f} /\ IsInjective(enginePlaces'[1])
    BY <1>b, <2>1, <2>3, <2>4 DEF enginePlaces
  <2>6. Partition(enginePlaces', held \cup {f})
    <3>1. 1 \in 1 .. 3
      OBVIOUS
    <3>2. QED
      BY <1>0, <2>2, <2>5, <3>1, EngineQueueFacts, JoinsPartition, Zenon
  <2>7. QED
    BY <1>a, <2>1, <2>4, <2>6
<1>3. CASE TakePicture /\ outQ # <<>> /\ ~Discards(picture[FqFirst(outQ)])
  <2> DEFINE f == FqFirst(outQ)
  <2>1. /\ outQ # <<>> /\ dispQ' = FqPut(dispQ, f) /\ held' = held \cup {f}
        /\ UNCHANGED <<decodeQ, hand>>
    BY <1>3 DEF TakePicture, GetOut
  <2>2. f \in Frame /\ f \notin held
    BY <1>0, <2>1, GetFacts
  <2>3. dispQ' \in Seq(Frame) /\ ToSet(dispQ') = ToSet(dispQ) \cup {f} /\ IsInjective(dispQ')
    <3>1. dispQ \in Seq(Frame) /\ IsInjective(dispQ) /\ f \in Frame
      BY <1>0, <2>1, <2>2, EngineQueueFacts DEF EngineQueuesOK
    <3>2. QED
      BY <2>1, <3>1, PutFacts
  <2>4. EngineQueuesOK'
    BY <1>0, <2>1, <2>3 DEF EngineQueuesOK
  <2>5. /\ enginePlaces' \in [1 .. 3 -> Seq(Frame)]
        /\ \A k \in (1 .. 3) \ {2} : enginePlaces'[k] = enginePlaces[k]
        /\ ToSet(enginePlaces'[2]) = ToSet(enginePlaces[2]) \cup {f} /\ IsInjective(enginePlaces'[2])
    BY <1>b, <2>1, <2>3, <2>4 DEF enginePlaces
  <2>6. Partition(enginePlaces', held \cup {f})
    <3>1. PICK j \in 1 .. 3 : j = 2
      OBVIOUS
    <3>2. /\ \A k \in (1 .. 3) \ {j} : enginePlaces'[k] = enginePlaces[k]
          /\ ToSet(enginePlaces'[j]) = ToSet(enginePlaces[j]) \cup {f} /\ IsInjective(enginePlaces'[j])
      BY <2>5, <3>1
    <3>3. j \in 1 .. 3 /\ enginePlaces' \in [1 .. 3 -> Seq(Frame)]
      BY <2>5
    <3>4. QED
      BY <1>0, <2>2, <3>2, <3>3, EngineQueueFacts, JoinsPartition, Zenon
  <2>7. QED
    BY <1>a, <2>1, <2>4, <2>6
<1>4. CASE Check /\ hand' # hand
  <2> DEFINE f == FqFirst(decodeQ)
  <2>1. /\ decodeQ # <<>> /\ decodeQ' = FqRest(decodeQ) /\ hand' = f /\ hand = NoFrame
        /\ UNCHANGED <<dispQ, held>>
    BY <1>0, <1>4 DEF Check, HandInv, vars, engine
  <2>2. /\ f \in Frame /\ f \in ToSet(decodeQ) /\ decodeQ' \in Seq(Frame)
        /\ ToSet(decodeQ') = ToSet(decodeQ) \ {f} /\ IsInjective(decodeQ')
    BY <1>0, <2>1, EngineQueueFacts, GetFacts DEF EngineQueuesOK
  <2>3. ToSet(Hand(hand)) = {} /\ ToSet(Hand(hand)') = {f} /\ IsInjective(Hand(hand)')
    BY <1>0, <2>1, <2>2, HandFacts
  <2>4. EngineQueuesOK'
    BY <1>0, <2>1, <2>2 DEF EngineQueuesOK
  <2>5. /\ enginePlaces' \in [1 .. 3 -> Seq(Frame)]
        /\ \A k \in (1 .. 3) \ {1, 3} : enginePlaces'[k] = enginePlaces[k]
        /\ ToSet(enginePlaces'[1]) = ToSet(enginePlaces[1]) \ {f} /\ f \in ToSet(enginePlaces[1])
        /\ IsInjective(enginePlaces'[1])
        /\ ToSet(enginePlaces'[3]) = ToSet(enginePlaces[3]) \cup {f} /\ IsInjective(enginePlaces'[3])
    BY <1>b, <2>1, <2>2, <2>3, <2>4 DEF enginePlaces
  <2>6. Partition(enginePlaces', held)
    <3>1. 1 \in 1 .. 3 /\ 3 \in 1 .. 3 /\ 1 # 3
      OBVIOUS
    <3>2. QED
      BY <1>0, <2>5, <3>1, EngineQueueFacts, MovesPartition, Zenon
  <2>7. QED
    BY <1>a, <2>1, <2>4, <2>6
<1>5. CASE TakeOutput
  <2> DEFINE f == FqFirst(dispQ)
  <2>1. /\ dispQ # <<>> /\ dispQ' = FqRest(dispQ) /\ hand' = f /\ hand = NoFrame
        /\ UNCHANGED <<decodeQ, held>>
    BY <1>0, <1>5 DEF TakeOutput, Go, HandInv, vars, engine
  <2>2. /\ f \in Frame /\ f \in ToSet(dispQ) /\ dispQ' \in Seq(Frame)
        /\ ToSet(dispQ') = ToSet(dispQ) \ {f} /\ IsInjective(dispQ')
    BY <1>0, <2>1, EngineQueueFacts, GetFacts DEF EngineQueuesOK
  <2>3. ToSet(Hand(hand)) = {} /\ ToSet(Hand(hand)') = {f} /\ IsInjective(Hand(hand)')
    BY <1>0, <2>1, <2>2, HandFacts
  <2>4. EngineQueuesOK'
    BY <1>0, <2>1, <2>2 DEF EngineQueuesOK
  <2>5. /\ enginePlaces' \in [1 .. 3 -> Seq(Frame)]
        /\ \A k \in (1 .. 3) \ {2, 3} : enginePlaces'[k] = enginePlaces[k]
        /\ ToSet(enginePlaces'[2]) = ToSet(enginePlaces[2]) \ {f} /\ f \in ToSet(enginePlaces[2])
        /\ IsInjective(enginePlaces'[2])
        /\ ToSet(enginePlaces'[3]) = ToSet(enginePlaces[3]) \cup {f} /\ IsInjective(enginePlaces'[3])
    BY <1>b, <2>1, <2>2, <2>3, <2>4 DEF enginePlaces
  <2>6. Partition(enginePlaces', held)
    <3>1. 2 \in 1 .. 3 /\ 3 \in 1 .. 3 /\ 2 # 3
      OBVIOUS
    <3>2. QED
      BY <1>0, <2>5, <3>1, EngineQueueFacts, MovesPartition, Zenon
  <2>7. QED
    BY <1>a, <2>1, <2>4, <2>6
<1>6. ASSUME hand \in held, held' = held \ {hand}, decodeQ' = decodeQ, dispQ' = dispQ, hand' = NoFrame
      PROVE  Goal
  <2>1. hand \in Frame
    BY <1>0, <1>6 DEF EngineInv, IInv, TypeOK
  <2>2. ToSet(Hand(hand)) = {hand} /\ ToSet(Hand(hand)') = {} /\ IsInjective(Hand(hand)')
    BY <1>0, <1>6, <2>1, HandFacts
  <2>3. EngineQueuesOK'
    BY <1>0, <1>6 DEF EngineQueuesOK
  <2>4. /\ enginePlaces' \in [1 .. 3 -> Seq(Frame)]
        /\ \A k \in (1 .. 3) \ {3} : enginePlaces'[k] = enginePlaces[k]
        /\ ToSet(enginePlaces'[3]) = ToSet(enginePlaces[3]) \ {hand} /\ hand \in ToSet(enginePlaces[3])
        /\ IsInjective(enginePlaces'[3])
    BY <1>b, <1>6, <2>2, <2>3 DEF enginePlaces
  <2>5. Partition(enginePlaces', held \ {hand})
    <3>1. 3 \in 1 .. 3
      OBVIOUS
    <3>2. QED
      BY <1>0, <2>4, <3>1, EngineQueueFacts, LeavesPartition, Zenon
  <2>6. QED
    BY <1>a, <1>6, <2>3, <2>5
<1>7. CASE PutFrame
  <2>1. CASE epc = "putting"
    BY <1>6, <1>7, <2>1 DEF PutFrame, PutOut, Go
  <2>2. CASE epc # "putting"
    BY <1>7, <1>c, <2>2 DEF PutFrame, CheckError, Go, vars, engine
  <2>3. QED
    BY <2>1, <2>2
<1>8. CASE Output /\ dispQ = <<>>
  BY <1>6, <1>8 DEF Output, SinkPut
<1>9. CASE Output /\ dispQ # <<>>
  <2> DEFINE f == FqFirst(dispQ)
             between == <<decodeQ, dispQ, Hand(NoFrame)>>
  <2>1. /\ hand \in held /\ held' = held \ {hand} /\ hand \in Frame
        /\ dispQ' = FqRest(dispQ) /\ hand' = f /\ UNCHANGED decodeQ
    BY <1>0, <1>9 DEF Output, SinkPut, EngineInv, IInv, TypeOK
  <2>2. /\ f \in Frame /\ f \in ToSet(dispQ) /\ dispQ' \in Seq(Frame)
        /\ ToSet(dispQ') = ToSet(dispQ) \ {f} /\ IsInjective(dispQ')
    BY <1>0, <1>9, <2>1, EngineQueueFacts, GetFacts DEF EngineQueuesOK
  <2>3. /\ ToSet(Hand(hand)) = {hand} /\ ToSet(Hand(hand)') = {f} /\ IsInjective(Hand(hand)')
        /\ ToSet(Hand(NoFrame)) = {} /\ IsInjective(Hand(NoFrame)) /\ Hand(NoFrame) \in Seq(Frame)
    BY <1>0, <2>1, <2>2, HandFacts
  <2>4. EngineQueuesOK'
    BY <1>0, <2>1, <2>2 DEF EngineQueuesOK
  <2>5. /\ between \in [1 .. 3 -> Seq(Frame)]
        /\ \A k \in (1 .. 3) \ {3} : between[k] = enginePlaces[k]
        /\ ToSet(between[3]) = ToSet(enginePlaces[3]) \ {hand} /\ hand \in ToSet(enginePlaces[3])
        /\ IsInjective(between[3])
    BY <1>0, <2>1, <2>3, EngineQueueFacts DEF enginePlaces, EngineQueuesOK
  <2>6. 3 \in 1 .. 3 /\ 2 \in 1 .. 3 /\ 2 # 3
    OBVIOUS
  <2>7. Partition(between, held')
    BY <1>0, <2>1, <2>5, <2>6, EngineQueueFacts, LeavesPartition, Zenon
  <2>8. /\ enginePlaces' \in [1 .. 3 -> Seq(Frame)]
        /\ \A k \in (1 .. 3) \ {2, 3} : enginePlaces'[k] = between[k]
        /\ ToSet(enginePlaces'[2]) = ToSet(between[2]) \ {f} /\ f \in ToSet(between[2])
        /\ IsInjective(enginePlaces'[2])
        /\ ToSet(enginePlaces'[3]) = ToSet(between[3]) \cup {f} /\ IsInjective(enginePlaces'[3])
    BY <1>b, <2>1, <2>2, <2>3, <2>4 DEF enginePlaces
  <2>9. Partition(enginePlaces', held')
    BY <1>0, <2>5, <2>6, <2>7, <2>8, MovesPartition, Zenon
  <2>10. QED
    BY <1>a, <2>4, <2>9
<1>10. CASE TakePicture /\ outQ = <<>>
  BY <1>10, <1>c DEF TakePicture, GetOut
<1>11. CASE Check /\ hand' = hand
  <2>1. hand = NoFrame /\ decodeQ # <<>> => FqFirst(decodeQ) # NoFrame
    BY <1>0, EngineQueueFacts, GetFacts DEF EngineQueuesOK
  <2>2. QED
    BY <1>11, <1>c, <2>1 DEF Check, vars, engine
<1>12. CASE BeginFlush \/ Flushing \/ Closing \/ Break \/ Stop
  BY <1>12, <1>c DEF BeginFlush, Flushing, Closing, Break, Stop, FlushBegin, FlushTest, FlushWake,
     FlushEnd, CloseBegin, CloseFlush, CloseJoin
<1>13. CASE NoFlush \/ QueueEmpty \/ GetChunk \/ AskFrame \/ NoOutput \/ SendChunk \/ SendNothing
  BY <1>13, <1>c DEF NoFlush, QueueEmpty, GetChunk, AskFrame, NoOutput, SendChunk, SendNothing,
     CheckError, DecIn, vars, engine
<1>14. CASE Decoded
  BY <1>14, <1>c DEF Decoded, ReadPicture, turn, engine
<1>15. CASE Threads
  <2>1. UNCHANGED held
    BY <1>15 DEF Threads, DecStep, SinkStep, DecLock, DecTop, DecInner, DecWake, DecRelease,
       DecRead, DecBack, SinkLock, SinkTop, SinkInner, SinkWake, SinkTimedOver, SinkRender,
       SinkBack, ReadSize, ReadError, engine
  <2>2. QED
    BY <1>15, <1>c, <2>1 DEF Threads, evars, turn
<1>16. CASE Pause \/ Seek \/ SeekInit \/ SeekParser \/ SeekFails \/ SeekVideoInit \/ SeekFlush \/ PlayOneFrame
            \/ PlayFrames \/ PlayTimes \/ SeekEnds \/ UNCHANGED allvars
  BY <1>16, <1>c DEF Pause, Seek, SeekInit, SeekParser, SeekFails, SeekVideoInit, SeekFlush, PlayOneFrame,
     PlayFrames, PlayTimes, SeekEnds, allvars, evars, turn, vars, engine
<1>17. QED
  BY <1>1, <1>2, <1>3, <1>4, <1>5, <1>7, <1>8, <1>9, <1>10, <1>11, <1>12, <1>13, <1>14, <1>15,
     <1>16, EngineCases

-----------------------------------------------------------------------------
(* The other parts of the invariant. *)

\* What the engine is busy with.
LEMMA HandStep == EngineInv /\ [EngineNext]_allvars => HandInv'
<1> SUFFICES ASSUME EngineInv, [EngineNext]_allvars PROVE HandInv'
  OBVIOUS
<1>0. HandInv /\ EngineQueuesOK /\ NoFrame \notin Frame
      /\ (decodeQ # <<>> => FqFirst(decodeQ) \in Frame) /\ (dispQ # <<>> => FqFirst(dispQ) \in Frame)
  BY FrameFacts, EngineQueueFacts, GetFacts DEF EngineInv, EngineTypeOK, EngineQueuesOK
<1>1. CASE \/ BeginFlush \/ Flushing \/ NoFlush \/ QueueFrame \/ QueueEmpty \/ GetChunk \/ Check
           \/ PutFrame \/ AskFrame \/ TakePicture \/ TakeOutput \/ Output \/ NoOutput
  BY <1>0, <1>1 DEF BeginFlush, Flushing, NoFlush, QueueFrame, QueueEmpty, GetChunk, Check, PutFrame,
     AskFrame, TakePicture, TakeOutput, Output, NoOutput, HandInv, Go
<1>2. CASE SendChunk \/ SendNothing \/ Break \/ Closing \/ Stop
  BY <1>0, <1>2 DEF SendChunk, SendNothing, Break, Closing, Stop, HandInv, Go
<1>3. CASE Decoded \/ Threads \/ Pause \/ Seek \/ SeekInit \/ SeekParser \/ SeekFails \/ SeekVideoInit \/ SeekFlush
           \/ PlayOneFrame \/ PlayFrames \/ PlayTimes \/ SeekEnds \/ UNCHANGED allvars
  BY <1>0, <1>3 DEF Decoded, Threads, Pause, Seek, SeekInit, SeekParser, SeekFails, SeekVideoInit, SeekFlush,
     PlayOneFrame, PlayFrames, PlayTimes, SeekEnds, HandInv, turn, evars, allvars
<1>4. QED
  BY <1>1, <1>2, <1>3, EngineCases

\* The engine counts the pictures it has sent as MediaCodec has them.
LEMMA FedStep == EngineInv /\ [EngineNext]_allvars => fed' \in Seq(Position) /\ Len(fed') = inside'
<1> SUFFICES ASSUME EngineInv, [EngineNext]_allvars
             PROVE  fed' \in Seq(Position) /\ Len(fed') = inside'
  OBVIOUS
<1>0. fed \in Seq(Position) /\ Len(fed) = inside /\ chunk \in Position \cup {0}
  BY DEF EngineInv, EngineTypeOK
<1>1. CASE BeginFlush \/ Closing
  <2>1. (fed' = <<>> /\ inside' = 0) \/ (fed' = fed /\ inside' = inside)
    BY <1>1 DEF BeginFlush, Closing, FlushBegin, CodecFlush, CloseFlush, CloseJoin
  <2>2. <<>> \in Seq(Position) /\ Len(<<>>) = 0
    OBVIOUS
  <2>3. QED
    BY <1>0, <2>1, <2>2
<1>2. CASE SendChunk
  <2>1. chunk \in Position
    BY <1>0, <1>2 DEF SendChunk
  <2>2. QED
    BY <1>0, <1>2, <2>1 DEF SendChunk, DecIn
<1>3. CASE Decoded
  <2>1. fed # <<>>
    BY <1>0, <1>3 DEF Decoded, ReadPicture
  <2>2. QED
    BY <1>0, <1>3, <2>1 DEF Decoded, ReadPicture
<1>4. CASE Threads
  BY <1>0, <1>4 DEF Threads, DecStep, SinkStep, DecLock, DecTop, DecInner, DecWake, DecRelease, DecRead,
     DecBack, SinkLock, SinkTop, SinkInner, SinkWake, SinkTimedOver, SinkRender, SinkBack, ReadSize,
     ReadError, codec, evars, data
<1>5. CASE Flushing \/ QueueFrame \/ Output \/ TakePicture \/ Break \/ Stop
  BY <1>0, <1>5 DEF Flushing, QueueFrame, Output, TakePicture, Break, Stop, FlushTest, FlushWake,
     FlushEnd, SinkGet, SinkPut, GetOut, CloseBegin, codec, data
<1>6. CASE PutFrame \/ AskFrame
  BY <1>0, <1>6 DEF PutFrame, AskFrame, CheckError, PutOut, codec, data, vars
<1>7. CASE \/ NoFlush \/ QueueEmpty \/ GetChunk \/ Check \/ TakeOutput \/ NoOutput \/ SendNothing
           \/ Pause \/ Seek \/ SeekInit \/ SeekParser \/ SeekFails \/ SeekVideoInit \/ SeekFlush \/ PlayOneFrame
           \/ PlayFrames \/ PlayTimes \/ SeekEnds \/ UNCHANGED allvars
  BY <1>0, <1>7 DEF NoFlush, QueueEmpty, GetChunk, Check, TakeOutput, NoOutput, SendNothing, Pause,
     Seek, SeekInit, SeekParser, SeekFails, SeekVideoInit, SeekFlush, PlayOneFrame, PlayFrames, PlayTimes, SeekEnds,
     codec, data, vars, evars, allvars
<1>8. QED
  BY <1>1, <1>2, <1>3, <1>4, <1>5, <1>6, <1>7, EngineCases

\* A frame that has been shown is not among those that are to be: only what the
\* sink has in its hand comes to be shown.
LEMMA FreshStep == EngineInv /\ [EngineNext]_allvars => OutFresh' /\ DisplayFresh'
<1> SUFFICES ASSUME EngineInv, [EngineNext]_allvars PROVE OutFresh' /\ DisplayFresh'
  OBVIOUS
<1> DEFINE coming == ToSet(outQ) \cup ToSet(dispQ) \cup (IF epc = "gate" THEN {hand} ELSE {})
<1>0. /\ coming \subseteq Frame
      /\ \A f \in coming : handle[f] # "shown"
      /\ handle \in [Frame -> {"none", "lent", "shown", "stale"}]
      /\ \A f \in coming : f \in held \/ f \in ToSet(outQ)
      /\ outQ \in Seq(Frame) /\ IsInjective(outQ) /\ dispQ \in Seq(Frame) /\ IsInjective(dispQ)
  BY FrameFacts, QueueFacts, EngineQueueFacts
  DEF EngineInv, EngineTypeOK, IInv, TypeOK, OutFresh, DisplayFresh, HandInv
<1>a. ASSUME \A f \in coming' : f \in Frame /\ handle'[f] # "shown" PROVE OutFresh' /\ DisplayFresh'
  BY <1>a DEF OutFresh, DisplayFresh
<1>b. ASSUME coming' \subseteq coming,
             \A f \in coming : handle'[f] = handle[f] \/ handle'[f] \in {"none", "stale"}
      PROVE  OutFresh' /\ DisplayFresh'
  BY <1>0, <1>a, <1>b
<1>1. CASE TakePicture
  <2>1. CASE outQ = <<>>
    <3>1. coming' \subseteq coming /\ handle' = handle
      BY <1>1, <2>1 DEF TakePicture, GetOut, Go
    <3>2. QED
      BY <1>b, <3>1
  <2>2. CASE outQ # <<>>
    <3> DEFINE f == FqFirst(outQ)
    <3>1. f \in Frame /\ f \in ToSet(outQ) /\ ToSet(FqRest(outQ)) = ToSet(outQ) \ {f}
      BY <1>0, <2>2, GetFacts
    <3>2. ToSet(FqPut(dispQ, f)) = ToSet(dispQ) \cup {f}
      BY <1>0, <3>1, PutFacts
    <3>3. ToSet(outQ') \subseteq ToSet(outQ) /\ ToSet(dispQ') \subseteq ToSet(dispQ) \cup {f}
      BY <1>1, <2>2, <3>1, <3>2 DEF TakePicture, GetOut
    <3>4. epc' # "gate" /\ handle' = handle
      BY <1>1 DEF TakePicture, GetOut, Go
    <3>5. coming' \subseteq coming
      BY <3>1, <3>3, <3>4
    <3>6. QED
      BY <1>b, <3>4, <3>5
  <2>3. QED
    BY <2>1, <2>2
<1>2. CASE TakeOutput \/ (Output /\ dispQ # <<>>)
  <2>1. dispQ # <<>> /\ dispQ' = FqRest(dispQ) /\ hand' = FqFirst(dispQ) /\ UNCHANGED <<outQ, handle>>
    BY <1>2 DEF TakeOutput, Output, SinkPut, vars, queues
  <2>2. FqFirst(dispQ) \in ToSet(dispQ) /\ ToSet(dispQ') \subseteq ToSet(dispQ)
    BY <1>0, <2>1, GetFacts
  <2>3. coming' \subseteq coming
    BY <2>1, <2>2
  <2>4. QED
    BY <1>b, <2>1, <2>3
<1>3. CASE \/ Output /\ dispQ = <<>>
           \/ Check \/ GetChunk \/ NoFlush \/ QueueFrame \/ QueueEmpty \/ PutFrame \/ AskFrame
           \/ NoOutput \/ SendChunk \/ SendNothing \/ Break \/ Stop
  <2>1. UNCHANGED <<outQ, dispQ, handle>> /\ epc' # "gate"
    BY <1>3 DEF Output, Check, GetChunk, NoFlush, QueueFrame, QueueEmpty, PutFrame, AskFrame, NoOutput,
       SendChunk, SendNothing, Break, Stop, SinkPut, SinkGet, CheckError, PutOut, DecIn, CloseBegin,
       Go, vars, queues
  <2>2. coming' \subseteq coming
    BY <2>1
  <2>3. QED
    BY <1>b, <2>1, <2>2
<1>4. CASE BeginFlush \/ Flushing \/ Closing
  <2>1. UNCHANGED <<outQ, dispQ>> /\ epc' # "gate"
        /\ \A f \in Frame : handle'[f] = handle[f] \/ handle'[f] \in {"none", "stale"}
    BY <1>0, <1>4 DEF BeginFlush, Flushing, Closing, FlushBegin, CodecFlush, FlushTest, FlushWake,
       FlushEnd, ReleaseAll, CloseFlush, CloseJoin, Go, vars, queues
  <2>2. coming' \subseteq coming
    BY <2>1
  <2>3. QED
    BY <1>0, <1>b, <2>1, <2>2
<1>5. CASE Threads /\ DecBack
  <2>1. dframe \in Frame /\ dbuf \in {"none", "lent", "stale", "error"} /\ dpc = "back"
    BY <1>5, QueueFacts DEF EngineInv, IInv, TypeOK, ThreadInv, DecBack
  <2>2. UNCHANGED <<dispQ, hand, epc>>
    BY <1>5 DEF Threads, evars, turn
  <2>3. CASE dbuf \in {"none", "error"} \/ "flushing" \in state
    <3>1. coming' \subseteq coming /\ handle' = handle
      BY <1>5, <2>2, <2>3 DEF DecBack
    <3>2. QED
      BY <1>b, <3>1
  <2>4. CASE ~(dbuf \in {"none", "error"} \/ "flushing" \in state)
    <3>1. handle' = [handle EXCEPT ![dframe] = dbuf] /\ ToSet(outQ') = ToSet(outQ) \cup {dframe}
      BY <1>0, <1>5, <2>1, <2>4, PutFacts DEF DecBack
    <3>2. coming' \subseteq coming \cup {dframe}
      BY <2>2, <3>1
    <3>3. \A f \in Frame : handle'[f] = IF f = dframe THEN dbuf ELSE handle[f]
      BY <1>0, <3>1
    <3>4. QED
      BY <1>0, <1>a, <2>1, <2>4, <3>2, <3>3
  <2>5. QED
    BY <2>3, <2>4
<1>6. CASE Threads /\ SinkRender
  <2>1. sframe \in Frame /\ sframe \notin held /\ sframe \notin ToSet(outQ)
    BY <1>6, QueueFacts DEF EngineInv, IInv, TypeOK, ThreadInv, SinkRender
  <2>2. /\ \A f \in Frame \ {sframe} : handle'[f] = handle[f]
        /\ UNCHANGED <<outQ, dispQ, hand, epc>>
    BY <1>0, <1>6, <2>1 DEF Threads, SinkRender, evars, turn, queues
  <2>3. QED
    BY <1>0, <1>b, <2>1, <2>2
<1>7. CASE Threads /\ ~DecBack /\ ~SinkRender
  <2>1. /\ \A f \in Frame : handle'[f] = handle[f] \/ handle'[f] \in {"none", "stale"}
        /\ UNCHANGED <<outQ, dispQ, hand, epc>>
    BY <1>0, <1>7 DEF Threads, DecStep, SinkStep, DecLock, DecTop, DecInner, DecWake, DecRelease, DecRead,
       SinkLock, SinkTop, SinkInner, SinkWake, SinkTimedOver, SinkBack, ReadSize, ReadError, evars,
       turn, queues
  <2>2. QED
    BY <1>0, <1>b, <2>1
<1>8. CASE \/ Decoded \/ Pause \/ Seek \/ SeekInit \/ SeekParser \/ SeekFails \/ SeekVideoInit \/ SeekFlush
           \/ PlayOneFrame \/ PlayFrames \/ PlayTimes \/ SeekEnds \/ UNCHANGED allvars
  <2>1. UNCHANGED <<outQ, dispQ, hand, epc, handle>>
    BY <1>8 DEF Decoded, ReadPicture, Pause, Seek, SeekInit, SeekParser, SeekFails, SeekVideoInit, SeekFlush,
       PlayOneFrame, PlayFrames, PlayTimes, SeekEnds, vars, queues, turn, evars, allvars
  <2>2. QED
    BY <1>b, <2>1
<1>9. QED
  BY <1>1, <1>2, <1>3, <1>4, <1>5, <1>6, <1>7, <1>8, EngineCases

\* The count goes with what the sink has.
LEMMA CountStep == EngineInv /\ [EngineNext]_allvars => SinkCounted'
<1> SUFFICES ASSUME EngineInv, [EngineNext]_allvars PROVE SinkCounted'
  OBVIOUS
<1>0. /\ sinkCount \in Int /\ Len(frames) \in Nat /\ NoFrame \notin Frame
      /\ vencQ \in Seq(Frame) /\ IsInjective(vencQ) /\ getQ \in Seq(Frame) /\ IsInjective(getQ)
      /\ sframe \in Frame \cup {NoFrame}
      /\ sinkCount = Len(vencQ) + Len(Hand(sframe)) + Len(getQ) - Len(frames)
      /\ held \cap (ToSet(vencQ) \cup ToSet(getQ)) = {} /\ held \subseteq Frame
  <2>1. IInv /\ EngineTypeOK /\ SinkCounted
    BY DEF EngineInv
  <2>2. /\ sinkCount \in Int /\ vencQ \in Seq(Frame) /\ getQ \in Seq(Frame)
        /\ sframe \in Frame \cup {NoFrame} /\ held \subseteq Frame
    BY <2>1 DEF EngineTypeOK, TypeOK
  <2>3. /\ IsInjective(vencQ) /\ IsInjective(getQ)
        /\ ToSet(vencQ) \cup ToSet(getQ) \subseteq Frame \ held
    BY <2>1, QueueFacts
  <2>4. Len(frames) \in Nat /\ NoFrame \notin Frame
    BY FrameFacts
  <2>5. QED
    BY <2>1, <2>2, <2>3, <2>4 DEF SinkCounted
<1>h. Len(Hand(NoFrame)) = 0 /\ \A f \in Frame : Len(Hand(f)) = 1
  BY <1>0 DEF Hand
<1>t. ThreadInv
  BY DEF EngineInv, IInv
<1>1. CASE QueueFrame
  <2>1. getQ # <<>> /\ getQ' = FqRest(getQ) /\ sinkCount' = sinkCount - 1 /\ UNCHANGED <<vencQ, sframe>>
    BY <1>1 DEF QueueFrame, SinkGet, sinks
  <2>2. Len(getQ') = Len(getQ) - 1 /\ Len(getQ) \in Nat /\ Len(vencQ) \in Nat
    BY <1>0, <2>1, GetFacts
  <2>3. QED
    BY <1>0, <1>h, <2>1, <2>2 DEF SinkCounted
<1>2. CASE Output
  <2>1. /\ hand \in held /\ vencQ' = FqPut(vencQ, hand) /\ sinkCount' = sinkCount + 1
        /\ UNCHANGED <<getQ, sframe>>
    BY <1>2 DEF Output, SinkPut, sinks
  <2>2. Len(vencQ') = Len(vencQ) + 1
    BY <1>0, <2>1, PutFacts
  <2>3. QED
    BY <1>0, <1>h, <2>1, <2>2 DEF SinkCounted
<1>3. CASE Threads /\ SinkInner
  <2> DEFINE f == FqFirst(vencQ)
  <2>1. UNCHANGED sinkCount /\ sframe = NoFrame
    BY <1>3, <1>t DEF Threads, evars, turn, SinkInner, ThreadInv
  <2>2. CASE vencQ' = vencQ
    BY <1>0, <1>3, <2>1, <2>2, GetFacts DEF SinkInner, SinkCounted
  <2>3. CASE vencQ' # vencQ
    <3>1. vencQ # <<>> /\ vencQ' = FqRest(vencQ)
      BY <1>3, <2>3 DEF SinkInner
    <3>2. f \in Frame /\ f \in ToSet(vencQ) /\ Len(vencQ') = Len(vencQ) - 1
      BY <1>0, <3>1, GetFacts
    <3>3. \/ getQ' = FqPut(getQ, f) /\ sframe' = sframe
          \/ getQ' = getQ /\ sframe' = f
      BY <1>3, <2>3 DEF SinkInner
    <3>4. f \notin ToSet(getQ)
      BY <3>2, QueueFacts DEF EngineInv
    <3>5. Len(FqPut(getQ, f)) = Len(getQ) + 1
      BY <1>0, <3>2, <3>4, PutFacts
    <3>6. Len(vencQ) \in Nat /\ Len(getQ) \in Nat
      BY <1>0
    <3>7. Len(Hand(sframe)) = 0 /\ Len(Hand(sframe)') = (IF sframe' = sframe THEN 0 ELSE 1)
      BY <1>0, <1>h, <2>1, <3>2, <3>3
    <3>8. Len(vencQ') + Len(Hand(sframe)') + Len(getQ') = Len(vencQ) + Len(Hand(sframe)) + Len(getQ)
      <4>1. CASE getQ' = FqPut(getQ, f) /\ sframe' = sframe
        BY <3>2, <3>5, <3>6, <3>7, <4>1
      <4>2. CASE getQ' = getQ /\ sframe' = f
        <5>1. sframe' # sframe
          BY <1>0, <2>1, <3>2, <4>2
        <5>2. QED
          BY <3>2, <3>6, <3>7, <4>2, <5>1
      <4>3. QED
        BY <3>3, <4>1, <4>2
    <3>9. QED
      BY <1>0, <2>1, <3>8 DEF SinkCounted
  <2>4. QED
    BY <2>2, <2>3
<1>4. CASE Threads /\ SinkBack
  <2>1. /\ UNCHANGED <<sinkCount, vencQ>> /\ sframe \in Frame /\ sframe \notin ToSet(getQ)
        /\ getQ' = FqPut(getQ, sframe) /\ sframe' = NoFrame
    BY <1>4, <1>t, QueueFacts DEF Threads, evars, turn, SinkBack, ThreadInv, EngineInv
  <2>2. Len(getQ') = Len(getQ) + 1
    BY <1>0, <2>1, PutFacts
  <2>3. Len(vencQ) \in Nat /\ Len(getQ) \in Nat
    BY <1>0
  <2>4. Len(Hand(sframe)) = 1 /\ Len(Hand(sframe)') = 0
    BY <1>h, <2>1
  <2>5. QED
    BY <1>0, <2>1, <2>2, <2>3, <2>4 DEF SinkCounted
<1>5. CASE Threads /\ ~SinkInner /\ ~SinkBack
  <2>1. UNCHANGED <<sinkCount, vencQ, getQ, sframe>>
    BY <1>5, <1>t DEF Threads, DecStep, SinkStep, DecLock, DecTop, DecInner, DecWake, DecRelease, DecRead,
       DecBack, SinkLock, SinkTop, SinkWake, SinkTimedOver, SinkRender, ReadSize, ReadError, evars,
       turn, queues, sinks, ThreadInv
  <2>2. QED
    BY <1>0, <2>1 DEF SinkCounted
<1>6. CASE \/ TakePicture \/ TakeOutput \/ Check \/ GetChunk \/ NoFlush \/ QueueEmpty \/ PutFrame
           \/ AskFrame \/ NoOutput \/ SendChunk \/ SendNothing \/ Break \/ Stop
  <2>1. UNCHANGED <<sinkCount, vencQ, getQ, sframe>>
    BY <1>6 DEF TakePicture, TakeOutput, Check, GetChunk, NoFlush, QueueEmpty, PutFrame, AskFrame,
       NoOutput, SendChunk, SendNothing, Break, Stop, GetOut, CheckError, PutOut, DecIn, CloseBegin,
       vars, queues, sinks
  <2>2. QED
    BY <1>0, <2>1 DEF SinkCounted
<1>7. CASE BeginFlush \/ Flushing \/ Closing
  <2>1. UNCHANGED <<sinkCount, vencQ, getQ, sframe>>
    BY <1>7 DEF BeginFlush, Flushing, Closing, FlushBegin, FlushTest, FlushWake, FlushEnd, CloseFlush,
       CloseJoin, queues, sinks
  <2>2. QED
    BY <1>0, <2>1 DEF SinkCounted
<1>8. CASE \/ Decoded \/ Pause \/ Seek \/ SeekInit \/ SeekParser \/ SeekFails \/ SeekVideoInit \/ SeekFlush
           \/ PlayOneFrame \/ PlayFrames \/ PlayTimes \/ SeekEnds \/ UNCHANGED allvars
  <2>1. UNCHANGED <<sinkCount, vencQ, getQ, sframe>>
    BY <1>8 DEF Decoded, ReadPicture, Pause, Seek, SeekInit, SeekParser, SeekFails, SeekVideoInit, SeekFlush,
       PlayOneFrame, PlayFrames, PlayTimes, SeekEnds, vars, queues, sinks, turn, evars, allvars
  <2>2. QED
    BY <1>0, <2>1 DEF SinkCounted
<1>9. QED
  BY <1>1, <1>2, <1>3, <1>4, <1>5, <1>6, <1>7, <1>8, EngineCases

\* The variables of the engine that are not queues.
ControlOK ==
  /\ epc \in {"turn", "flush", "queue", "fetch", "check", "put", "putting", "getout", "getting",
              "output", "gate", "send", "close", "gone"}
  /\ chunk \in Position \cup {0}
  /\ target \in Position /\ position \in Position
  /\ caller \in {"none", "init", "parse", "video", "flush", "one", "frames", "times", "wait",
                "failed"}

BooleansOK ==
  /\ paused \in BOOLEAN /\ seeking \in BOOLEAN /\ videoFlush \in BOOLEAN
  /\ playOne \in BOOLEAN /\ was \in BOOLEAN

CountsOK == sinkCount \in Int /\ playN \in 0 .. PlayN

\* They keep to their values, and a seek has a position to go to.
LEMMA ControlStep == EngineInv /\ [EngineNext]_allvars => ControlOK' /\ SeekInv'
<1> SUFFICES ASSUME EngineInv, [EngineNext]_allvars PROVE ControlOK' /\ SeekInv'
  OBVIOUS
<1>0. ControlOK /\ SeekInv /\ MaxSeek \in Nat
  BY SeekAssumption DEF EngineInv, EngineTypeOK, ControlOK
<1>1. CASE BeginFlush \/ Flushing \/ NoFlush \/ QueueFrame \/ QueueEmpty \/ GetChunk \/ Check
  BY <1>0, <1>1 DEF BeginFlush, Flushing, NoFlush, QueueFrame, QueueEmpty, GetChunk, Check, ControlOK,
     SeekInv, Go, play, shared, calls, data
<1>2. CASE PutFrame \/ AskFrame \/ TakePicture \/ TakeOutput \/ Output \/ NoOutput
  BY <1>0, <1>2 DEF PutFrame, AskFrame, TakePicture, TakeOutput, Output, NoOutput, ControlOK, SeekInv,
     Go, play, shared, calls, data
<1>3. CASE SendChunk \/ SendNothing \/ Break \/ Closing \/ Stop
  BY <1>0, <1>3 DEF SendChunk, SendNothing, Break, Closing, Stop, ControlOK, SeekInv, Go, play, shared,
     calls, data
<1>4. CASE Decoded \/ Threads \/ UNCHANGED allvars
  BY <1>0, <1>4 DEF Decoded, Threads, ControlOK, SeekInv, turn, play, shared, calls, data, evars, allvars
<1>5. CASE SeekParser
  <2>1. position + 1 \in Position
    BY <1>0, <1>5 DEF SeekParser, Does, SeekInv, ControlOK, Position
  <2>2. QED
    BY <1>0, <1>5, <2>1 DEF SeekParser, Does, ControlOK, SeekInv, turn, play
<1>6. CASE Pause \/ Seek \/ SeekInit \/ SeekFails \/ SeekVideoInit \/ SeekFlush \/ PlayOneFrame \/ PlayFrames
           \/ PlayTimes \/ SeekEnds
  BY <1>0, <1>6 DEF Pause, Seek, SeekInit, SeekFails, SeekVideoInit, SeekFlush, PlayOneFrame, PlayFrames, PlayTimes,
     SeekEnds, Does, ControlOK, SeekInv, turn, play, calls
<1>7. QED
  BY <1>1, <1>2, <1>3, <1>4, <1>5, <1>6, EngineCases

LEMMA BooleansStep == EngineInv /\ [EngineNext]_allvars => BooleansOK'
<1> SUFFICES ASSUME EngineInv, [EngineNext]_allvars PROVE BooleansOK'
  OBVIOUS
<1>0. BooleansOK
  BY DEF EngineInv, EngineTypeOK, BooleansOK
<1>1. CASE BeginFlush
  BY <1>0, <1>1, Zenon DEF BeginFlush, BooleansOK, play, calls
<1>2. CASE Output
  BY <1>0, <1>2, Zenon DEF Output, BooleansOK, shared, calls
<1>3. CASE Pause \/ Seek \/ SeekInit \/ SeekParser \/ SeekFails \/ SeekVideoInit \/ SeekFlush \/ PlayOneFrame
           \/ PlayFrames \/ PlayTimes \/ SeekEnds
  BY <1>0, <1>3, Zenon DEF Pause, Seek, SeekInit, SeekParser, SeekFails, SeekVideoInit, SeekFlush, PlayOneFrame,
     PlayFrames, PlayTimes, SeekEnds, BooleansOK, play, shared, calls
<1>4. CASE \/ Flushing \/ NoFlush \/ QueueFrame \/ QueueEmpty \/ GetChunk \/ Check \/ PutFrame
           \/ AskFrame \/ TakePicture \/ TakeOutput \/ NoOutput \/ SendChunk \/ SendNothing \/ Break
           \/ Closing \/ Stop \/ Decoded \/ Threads \/ UNCHANGED allvars
  <2>1. UNCHANGED <<play, shared, calls>>
    BY <1>4 DEF Flushing, NoFlush, QueueFrame, QueueEmpty, GetChunk, Check, PutFrame, AskFrame,
       TakePicture, TakeOutput, NoOutput, SendChunk, SendNothing, Break, Closing, Stop, Decoded,
       Threads, evars, allvars
  <2>2. QED
    BY <1>0, <2>1, Zenon DEF BooleansOK, play, shared, calls
<1>5. QED
  BY <1>1, <1>2, <1>3, <1>4, EngineCases

LEMMA CountsStep == EngineInv /\ [EngineNext]_allvars => CountsOK'
<1> SUFFICES ASSUME EngineInv, [EngineNext]_allvars PROVE CountsOK'
  OBVIOUS
<1>0. CountsOK /\ PlayN \in Nat
  BY SeekAssumption DEF EngineInv, EngineTypeOK, CountsOK
<1>1. CASE QueueFrame
  BY <1>0, <1>1 DEF QueueFrame, CountsOK, play
<1>2. CASE Output
  <2>1. sinkCount' = sinkCount + 1 /\ playN' \in {0, playN, playN - 1} /\ (playN' = playN - 1 => playN # 0)
    BY <1>0, <1>2 DEF Output, CountsOK
  <2>2. QED
    BY <1>0, <2>1 DEF CountsOK
<1>3. CASE PlayFrames
  BY <1>0, <1>3 DEF PlayFrames, CountsOK, turn
<1>4. CASE \/ BeginFlush \/ Flushing \/ NoFlush \/ QueueEmpty \/ GetChunk \/ Check \/ PutFrame
           \/ AskFrame \/ TakePicture \/ TakeOutput \/ NoOutput \/ SendChunk \/ SendNothing \/ Break
           \/ Closing \/ Stop \/ Decoded \/ Threads \/ UNCHANGED allvars
  <2>1. UNCHANGED <<playN, sinkCount>>
    BY <1>4 DEF BeginFlush, Flushing, NoFlush, QueueEmpty, GetChunk, Check, PutFrame, AskFrame,
       TakePicture, TakeOutput, NoOutput, SendChunk, SendNothing, Break, Closing, Stop, Decoded,
       Threads, evars, allvars, turn, play
  <2>2. QED
    BY <1>0, <2>1 DEF CountsOK
<1>5. CASE Pause \/ Seek \/ SeekInit \/ SeekParser \/ SeekFails \/ SeekVideoInit \/ SeekFlush \/ PlayOneFrame
           \/ PlayTimes \/ SeekEnds
  BY <1>0, <1>5 DEF Pause, Seek, SeekInit, SeekParser, SeekFails, SeekVideoInit, SeekFlush, PlayOneFrame,
     PlayTimes, SeekEnds, CountsOK, turn, play
<1>6. QED
  BY <1>1, <1>2, <1>3, <1>4, <1>5, EngineCases

\* A frame's picture was read from some position.
LEMMA PictureStep == EngineInv /\ [EngineNext]_allvars => picture' \in [Frame -> Position]
<1> SUFFICES ASSUME EngineInv, [EngineNext]_allvars PROVE picture' \in [Frame -> Position]
  OBVIOUS
<1>0. picture \in [Frame -> Position] /\ fed \in Seq(Position) /\ Len(fed) = inside /\ 1 \in Position
  BY SeekAssumption DEF EngineInv, EngineTypeOK, Position
<1>1. CASE Output
  BY <1>0, <1>1 DEF Output
<1>2. CASE Decoded
  <2>1. fed # <<>>
    BY <1>0, <1>2 DEF Decoded, ReadPicture
  <2>2. Head(fed) \in Position
    BY <1>0, <2>1
  <2>3. QED
    BY <1>0, <1>2, <2>2 DEF Decoded
<1>3. CASE \/ BeginFlush \/ Flushing \/ NoFlush \/ QueueFrame \/ QueueEmpty \/ GetChunk \/ Check
           \/ PutFrame \/ AskFrame \/ TakePicture \/ TakeOutput \/ NoOutput \/ SendChunk
           \/ SendNothing \/ Break \/ Closing \/ Stop \/ Threads
           \/ Pause \/ Seek \/ SeekInit \/ SeekParser \/ SeekFails \/ SeekVideoInit \/ SeekFlush \/ PlayOneFrame
           \/ PlayFrames \/ PlayTimes \/ SeekEnds \/ UNCHANGED allvars
  BY <1>0, <1>3 DEF BeginFlush, Flushing, NoFlush, QueueFrame, QueueEmpty, GetChunk, Check, PutFrame,
     AskFrame, TakePicture, TakeOutput, NoOutput, SendChunk, SendNothing, Break, Closing, Stop, Threads,
     Pause, Seek, SeekInit, SeekParser, SeekFails, SeekVideoInit, SeekFlush, PlayOneFrame, PlayFrames, PlayTimes,
     SeekEnds, data, evars, allvars
<1>4. QED
  BY <1>1, <1>2, <1>3, EngineCases

-----------------------------------------------------------------------------
\* What stream_start leaves.
LEMMA EngineInitInv == EngineInit => EngineInv
<1> SUFFICES ASSUME EngineInit PROVE EngineInv
  OBVIOUS
<1>1. IInv
  BY InitInv DEF EngineInit
<1>2. <<>> \in Seq(Frame) /\ <<>> \in Seq(Position) /\ Len(<<>>) = 0 /\ ToSet(<<>>) = {}
      /\ IsInjective(<<>>)
  BY DEF ToSet, IsInjective
<1>3. 1 \in Position /\ position = 1 /\ 0 \in Int /\ PlayN \in Nat
  BY SeekAssumption DEF EngineInit, Position
<1>4. EngineTypeOK
  <2>1. TypeOK /\ EngineQueuesOK /\ fed \in Seq(Position)
    BY <1>1, <1>2 DEF EngineInit, IInv, EngineQueuesOK
  <2>2. picture \in [Frame -> Position] /\ playN \in 0 .. PlayN
    BY <1>3 DEF EngineInit
  <2>3. QED
    BY <1>3, <2>1, <2>2 DEF EngineInit, EngineQueuesOK, EngineTypeOK
<1>5. EngineHolds
  <2>1. enginePlaces \in [1 .. 3 -> Seq(Frame)] /\ 3 \in Nat
    BY <1>2, HandFacts, FrameFacts DEF EngineInit, enginePlaces
  <2>2. \A k \in 1 .. 3 : enginePlaces[k] = <<>>
    BY HandFacts DEF EngineInit, enginePlaces, Hand
  <2>3. held = {}
    BY DEF EngineInit, Init
  <2>4. /\ \A k, l \in 1 .. 3 : k # l => ToSet(enginePlaces[k]) \cap ToSet(enginePlaces[l]) = {}
        /\ \A k \in 1 .. 3 : IsInjective(enginePlaces[k])
        /\ \A x : x \in held <=> \E k \in 1 .. 3 : x \in ToSet(enginePlaces[k])
    BY <1>2, <2>2, <2>3
  <2>5. Partition(enginePlaces, held)
    BY <2>1, <2>4, PartitionMeans, Zenon
  <2>6. QED
    BY <2>5 DEF EngineHolds, enginePlaces
<1>6. SinkCounted
  <2>1. vencQ = <<>> /\ getQ = frames /\ sframe = NoFrame /\ sinkCount = 0
    BY DEF EngineInit, Init
  <2>2. Len(Hand(sframe)) = 0 /\ Len(frames) \in Nat
    BY <2>1, FrameFacts DEF Hand
  <2>3. QED
    BY <1>2, <2>1, <2>2 DEF SinkCounted
<1>7. DisplayFresh /\ OutFresh /\ HandInv /\ SeekInv /\ Len(fed) = inside
  BY <1>2 DEF EngineInit, Init, DisplayFresh, OutFresh, HandInv, SeekInv
<1>8. QED
  BY <1>1, <1>4, <1>5, <1>6, <1>7 DEF EngineInv

LEMMA EngineStepInv == EngineInv /\ [EngineNext]_allvars => EngineInv'
<1> SUFFICES ASSUME EngineInv, [EngineNext]_allvars PROVE EngineInv'
  OBVIOUS
<1>1. IInv'
  BY EngineStepIsStep, StepInv DEF EngineInv, IInv
<1>2. /\ EngineQueuesOK' /\ EngineHolds' /\ HandInv' /\ OutFresh' /\ DisplayFresh' /\ SinkCounted'
      /\ ControlOK' /\ BooleansOK' /\ CountsOK' /\ picture' \in [Frame -> Position]
      /\ SeekInv' /\ fed' \in Seq(Position) /\ Len(fed') = inside'
  BY EngineHoldsStep, HandStep, FreshStep, CountStep, ControlStep, BooleansStep,
     CountsStep, PictureStep, FedStep
<1>3. EngineTypeOK'
  <2>1. TypeOK'
    BY <1>1 DEF IInv
  <2>2. QED
    BY <1>2, <2>1, Zenon DEF EngineTypeOK, EngineQueuesOK, ControlOK, BooleansOK, CountsOK
<1>4. QED
  BY <1>1, <1>2, <1>3 DEF EngineInv

LEMMA EngineInvariance == EngineSpec => []EngineInv
BY EngineInitInv, EngineStepInv, PTL DEF EngineSpec

-----------------------------------------------------------------------------
\* The fields that the engine and its caller share without a lock keep to their
\* values in any order of their steps.
THEOREM EngineTypeCorrect == EngineSpec => []EngineTypeOK
<1>1. EngineInv => EngineTypeOK
  BY DEF EngineInv
<1>2. QED
  BY <1>1, EngineInvariance, PTL

\* A seek, a flush, a discarded picture or a pause, whenever it comes, loses no
\* frame of the engine's (decode_q, disp_q, decode_frame, out_frame, output_frame).
THEOREM EngineHoldsFrames == EngineSpec => []EngineHolds
<1>1. EngineInv => EngineHolds
  BY DEF EngineInv
<1>2. QED
  BY <1>1, EngineInvariance, PTL

\* video_sink_count counts what the sink has, but for the frames it began with.
THEOREM SinkIsCounted == EngineSpec => []SinkCounted
<1>1. EngineInv => SinkCounted
  BY DEF EngineInv
<1>2. QED
  BY <1>1, EngineInvariance, PTL

\* disp_q holds pictures that have not been shown.
THEOREM DisplayIsFresh == EngineSpec => []DisplayFresh
<1>1. EngineInv => DisplayFresh
  BY DEF EngineInv
<1>2. QED
  BY <1>1, EngineInvariance, PTL

\* The decoder and the sink lose no frame to this engine either.
THEOREM EngineLosesNone == EngineSpec => []FramesConserved
BY EngineIsClient, FramesAreConserved
=============================================================================
