-------------------------- MODULE VideoDecodeProofs --------------------------
(***************************************************************************)
(* Theorems about VideoDecode, for any set of frames.                      *)
(***************************************************************************)
EXTENDS VideoDecode, TLAPS

Queued == decodeQ \cup dispQ \cup sink

\* The frame being decoded and the one requested are in no queue.
DecoderInv ==
  /\ dpc = "decode" => done = 1 /\ target \in Frame \ Queued
  /\ done = 1 /\ dpc # "decode" => vframe \in Frame \ Queued
  /\ ~cut /\ dpc = "decode" => target = vframe
  /\ ~cut /\ done = 1 => epc \in {"show", "await"}

\* The engine has its frame to itself, until it asks for the decoder.
EngineInv ==
  /\ epc \in {"got", "ask", "show", "await", "take"} => dframe \in Frame \ Queued
  /\ epc \in {"ask", "show", "await", "take"} =>
       vframe \in Frame \ Queued /\ (~cut => vframe = dframe)
  /\ epc = "got" /\ dpc = "decode" => target # dframe
  /\ epc = "got" /\ done = 1 /\ dpc # "decode" => vframe # dframe
  /\ epc \in {"show", "await"} => done \in {1, 2}
  /\ epc = "take" => done = 2

SafeInv == DecoderInv /\ EngineInv /\ FramesConserved

IInv == TypeOK /\ SafeInv
-----------------------------------------------------------------------------
\* The stream that stream_start leaves satisfies the inductive invariant.
LEMMA InitInv == Init => IInv
<1> SUFFICES ASSUME Init PROVE IInv
  OBVIOUS
<1> USE FrameAssumption DEF FrameAssumption, Init
<1>1. TypeOK
  BY DEF TypeOK
<1>2. DecoderInv
  BY DEF DecoderInv
<1>3. EngineInv
  BY DEF EngineInv
<1>4. FramesConserved
  BY DEF FramesConserved, InHand
<1>5. QED
  BY <1>1, <1>2, <1>3, <1>4 DEF IInv, SafeInv

\* Every step of the three threads keeps the variables to their values.
LEMMA TypeStep == IInv /\ [Next]_vars => TypeOK'
<1> SUFFICES ASSUME IInv, [Next]_vars PROVE TypeOK'
  OBVIOUS
<1> USE DEF IInv, SafeInv, TypeOK, DecoderInv, EngineInv, Queued, queues, request, decoder, caller
<1>1. CASE Ack
  BY <1>1 DEF Ack
<1>2. CASE TurnBegin
  <2>1. chunk' \in BOOLEAN
    BY <1>2, Zenon DEF TurnBegin
  <2>2. QED
    BY <1>2, <2>1 DEF TurnBegin
<1>3. CASE TurnCheck
  BY <1>3 DEF TurnCheck
<1>4. CASE GetFrame
  BY <1>4 DEF GetFrame, OutputFrames
<1>5. CASE DropChunk
  <2>1. chunk' \in BOOLEAN
    BY <1>5, Zenon DEF DropChunk
  <2>2. QED
    BY <1>5, <2>1 DEF DropChunk
<1>6. CASE FillRequest
  BY <1>6 DEF FillRequest
<1>7. CASE AskDecoder
  <2>1. asleep' \in BOOLEAN
    BY <1>7, Zenon DEF AskDecoder
  <2>2. QED
    BY <1>7, <2>1 DEF AskDecoder
<1>8. CASE ShowFrames
  BY <1>8 DEF ShowFrames, OutputFrames
<1>9. CASE AwaitDecoder
  <2>1. cut' \in BOOLEAN
    BY <1>9, Zenon DEF AwaitDecoder
  <2>2. QED
    BY <1>9, <2>1 DEF AwaitDecoder
<1>10. CASE TakeFrame
  <2>1. chunk' \in BOOLEAN
    BY <1>10, Zenon DEF TakeFrame
  <2>2. QED
    BY <1>10, <2>1 DEF TakeFrame
<1>11. CASE DecoderCheck
  BY <1>11 DEF DecoderCheck
<1>12. CASE DecoderLock
  <2>1. asleep' \in BOOLEAN
    BY <1>12, Zenon DEF DecoderLock
  <2>2. QED
    BY <1>12, <2>1 DEF DecoderLock
<1>13. CASE Decode
  BY <1>13 DEF Decode
<1>14. CASE DecoderPark
  BY <1>14 DEF DecoderPark
<1>15. CASE DecoderWake
  BY <1>15 DEF DecoderWake
<1>16. CASE PauseCall
  BY <1>16 DEF PauseCall
<1>17. CASE ResumeCall
  <2>1. paused' \in BOOLEAN
    BY <1>17, Zenon DEF ResumeCall
  <2>2. QED
    BY <1>17, <2>1 DEF ResumeCall
<1>18. ASSUME NEW what \in {"stop", "exit"}, ChangeCall(what) PROVE TypeOK'
  BY <1>18 DEF ChangeCall
<1>19. ASSUME NEW from \in {"stop", "stopped", "exit"}, NEW mode \in {"IDLE", "RUNNING", "EXIT"},
              NEW to \in {"stopping", "restarting", "exiting"}, AskEngine(from, mode, to)
       PROVE  TypeOK'
  BY <1>19 DEF AskEngine
<1>20. CASE EngineStopped
  BY <1>20 DEF EngineStopped
<1>21. CASE EngineRestarted
  BY <1>21 DEF EngineRestarted
<1>22. CASE EngineJoined
  BY <1>22 DEF EngineJoined
<1>23. CASE ClearRun
  <2>1. run' \in BOOLEAN
    BY <1>23, Zenon DEF ClearRun
  <2>2. QED
    BY <1>23, <2>1 DEF ClearRun
<1>24. CASE SignalDecoder
  <2>1. asleep' \in BOOLEAN
    BY <1>24, Zenon DEF SignalDecoder
  <2>2. QED
    BY <1>24, <2>1 DEF SignalDecoder
<1>25. CASE JoinDecoder
  BY <1>25 DEF JoinDecoder
<1>26. CASE UNCHANGED vars
  BY <1>26 DEF vars
<1>27. QED
  BY <1>1, <1>2, <1>3, <1>4, <1>5, <1>6, <1>7, <1>8, <1>9, <1>10, <1>11, <1>12, <1>13,
     <1>14, <1>15, <1>16, <1>17, <1>18, <1>19, <1>20, <1>21, <1>22, <1>23, <1>24, <1>25, <1>26
     DEF Next, Engine, Decoder, Call, Progress

\* Every step of the three threads preserves what is said of the frames.
LEMMA SafeStep == IInv /\ [Next]_vars => SafeInv'
<1> SUFFICES ASSUME IInv, [Next]_vars PROVE SafeInv'
  OBVIOUS
<1> USE DEF IInv, TypeOK, SafeInv, DecoderInv, EngineInv, FramesConserved, InHand, Queued,
           queues, request, decoder, caller
<1>1. CASE Ack
  BY <1>1 DEF Ack
<1>2. CASE TurnBegin
  BY <1>2 DEF TurnBegin
<1>3. CASE TurnCheck
  BY <1>3 DEF TurnCheck
<1>4. CASE GetFrame
  BY <1>4 DEF GetFrame, OutputFrames
<1>5. CASE DropChunk
  BY <1>5 DEF DropChunk
<1>6. CASE FillRequest
  BY <1>6 DEF FillRequest
<1>7. CASE AskDecoder
  BY <1>7 DEF AskDecoder, MutexFree
<1>8. CASE ShowFrames
  BY <1>8 DEF ShowFrames, OutputFrames
<1>9. CASE AwaitDecoder
  BY <1>9 DEF AwaitDecoder
<1>10. CASE TakeFrame
  BY <1>10 DEF TakeFrame
<1>11. CASE DecoderCheck
  BY <1>11 DEF DecoderCheck
<1>12. CASE DecoderLock
  BY <1>12 DEF DecoderLock
<1>13. CASE Decode
  BY <1>13 DEF Decode
<1>14. CASE DecoderPark
  BY <1>14 DEF DecoderPark
<1>15. CASE DecoderWake
  BY <1>15 DEF DecoderWake
<1>16. CASE PauseCall
  BY <1>16 DEF PauseCall
<1>17. CASE ResumeCall
  BY <1>17 DEF ResumeCall
<1>18. ASSUME NEW what \in {"stop", "exit"}, ChangeCall(what) PROVE SafeInv'
  BY <1>18 DEF ChangeCall
<1>19. ASSUME NEW from \in {"stop", "stopped", "exit"}, NEW mode \in {"IDLE", "RUNNING", "EXIT"},
              NEW to \in {"stopping", "restarting", "exiting"}, AskEngine(from, mode, to)
       PROVE  SafeInv'
  BY <1>19 DEF AskEngine
<1>20. CASE EngineStopped
  BY <1>20 DEF EngineStopped
<1>21. CASE EngineRestarted
  BY <1>21 DEF EngineRestarted
<1>22. CASE EngineJoined
  BY <1>22 DEF EngineJoined
<1>23. CASE ClearRun
  BY <1>23 DEF ClearRun
<1>24. CASE SignalDecoder
  BY <1>24 DEF SignalDecoder, MutexFree
<1>25. CASE JoinDecoder
  BY <1>25 DEF JoinDecoder
<1>26. CASE UNCHANGED vars
  BY <1>26 DEF vars
<1>27. QED
  BY <1>1, <1>2, <1>3, <1>4, <1>5, <1>6, <1>7, <1>8, <1>9, <1>10, <1>11, <1>12, <1>13,
     <1>14, <1>15, <1>16, <1>17, <1>18, <1>19, <1>20, <1>21, <1>22, <1>23, <1>24, <1>25, <1>26
     DEF Next, Engine, Decoder, Call, Progress

\* So it always holds.
LEMMA Invariance == Spec => []IInv
<1>1. IInv /\ [Next]_vars => IInv'
  BY TypeStep, SafeStep DEF IInv, SafeInv
<1>2. QED
  BY InitInv, <1>1, PTL DEF Spec

\* Every variable keeps to its values, and the decoder thread never decodes
\* without a frame.
THEOREM TypeCorrect == Spec => []TypeOK
<1>1. IInv => TypeOK
  BY DEF IInv, SafeInv
<1>2. QED
  BY Invariance, <1>1, PTL

\* However many frames the sink lends, none is ever in two places, and only a
\* turn cut short by thread_state_set can lose one.
THEOREM FramesAreConserved == Spec => []FramesConserved
<1>1. IInv => FramesConserved
  BY DEF IInv, SafeInv
<1>2. QED
  BY Invariance, <1>1, PTL

\* Nobody shows or reuses the frame that is being decoded.
THEOREM DecoderIsAlone == Spec => []DecodingAlone
<1>1. IInv => DecodingAlone
  BY DEF IInv, SafeInv, DecoderInv, DecodingAlone, Queued
<1>2. QED
  BY Invariance, <1>1, PTL

\* The engine takes back the frame it asked for, decoded.
THEOREM ResultIsOfRequest == Spec => []ResultOfRequest
<1>1. IInv => ResultOfRequest
  BY DEF IInv, SafeInv, DecoderInv, EngineInv, ResultOfRequest
<1>2. QED
  BY Invariance, <1>1, PTL
=============================================================================
