-------------------------- MODULE SurfaceCodecProofs --------------------------
(***************************************************************************)
(* Theorems about SurfaceCodec, for any sequence of frames, any number of  *)
(* pictures inside MediaCodec and any engine.                              *)
(***************************************************************************)
EXTENDS SurfaceCodec, FiniteSetTheorems, TLAPS

(* The queues of FrameQueue. *)

\* frame_q_put adds the frame, once, at the end.
LEMMA PutFacts ==
  ASSUME NEW S, NEW q \in Seq(S), NEW f \in S
  PROVE  /\ FqPut(q, f) \in Seq(S)
         /\ ToSet(FqPut(q, f)) = ToSet(q) \cup {f}
         /\ IsInjective(q) => IsInjective(FqPut(q, f))
         /\ f \notin ToSet(q) => Len(FqPut(q, f)) = Len(q) + 1
<1>1. CASE f \in ToSet(q)
  BY <1>1 DEF FqPut
<1>2. CASE f \notin ToSet(q)
  <2> DEFINE r == Append(q, f)
  <2>1. FqPut(q, f) = r
    BY <1>2 DEF FqPut
  <2>2. /\ r \in Seq(S) /\ Len(r) = Len(q) + 1 /\ r[Len(q) + 1] = f
        /\ \A i \in 1 .. Len(q) : r[i] = q[i]
    OBVIOUS
  <2>3. \A i \in 1 .. Len(r) : i \in 1 .. Len(q) \/ i = Len(q) + 1
    BY <2>2
  <2>4. ToSet(r) = ToSet(q) \cup {f}
    <3>0. \A i \in 1 .. Len(q) : q[i] \in ToSet(q)
      BY DEF ToSet
    <3>1. \A i \in 1 .. Len(r) : r[i] \in ToSet(q) \cup {f}
      BY <2>2, <2>3, <3>0
    <3>2. \A i \in 1 .. Len(q) : q[i] \in ToSet(r)
      BY <2>2 DEF ToSet
    <3>3. f \in ToSet(r)
      BY <2>2 DEF ToSet
    <3>4. ToSet(r) \subseteq ToSet(q) \cup {f}
      BY <2>2, <3>1 DEF ToSet
    <3>5. ToSet(q) \subseteq ToSet(r)
      BY <3>2 DEF ToSet
    <3>6. QED
      BY <3>3, <3>4, <3>5
  <2>5. ASSUME IsInjective(q) PROVE IsInjective(r)
    <3>1. \A k, l \in 1 .. Len(q) : q[k] = q[l] => k = l
      BY <2>5 DEF IsInjective
    <3>2. \A k \in 1 .. Len(q) : q[k] # f
      BY <1>2 DEF ToSet
    <3>3. \A k, l \in 1 .. Len(r) : r[k] = r[l] => k = l
      BY <2>2, <2>3, <3>1, <3>2
    <3>4. QED
      BY <2>2, <3>3 DEF IsInjective
  <2>6. QED
    BY <2>1, <2>2, <2>4, <2>5
<1>3. QED
  BY <1>1, <1>2

\* frame_q_put_head adds the frame at the front.
LEMMA PutHeadFacts ==
  ASSUME NEW S, NEW q \in Seq(S), NEW f \in S, f \notin ToSet(q)
  PROVE  /\ FqPutHead(q, f) \in Seq(S)
         /\ ToSet(FqPutHead(q, f)) = ToSet(q) \cup {f}
         /\ IsInjective(q) => IsInjective(FqPutHead(q, f))
         /\ Len(FqPutHead(q, f)) = Len(q) + 1
<1> DEFINE r == FqPutHead(q, f)
<1>1. r \in Seq(S) /\ Len(r) = Len(q) + 1 /\ r[1] = f /\ \A i \in 1 .. Len(q) : r[i + 1] = q[i]
  BY DEF FqPutHead
<1>2. \A i \in 2 .. Len(r) : i - 1 \in 1 .. Len(q) /\ r[i] = q[i - 1]
  BY <1>1
<1>3. ToSet(r) = ToSet(q) \cup {f}
  <2>1. ToSet(r) \subseteq ToSet(q) \cup {f}
    BY <1>1, <1>2 DEF ToSet
  <2>2. ToSet(q) \subseteq ToSet(r)
    BY <1>1 DEF ToSet
  <2>3. f \in ToSet(r)
    BY <1>1 DEF ToSet
  <2>4. QED
    BY <2>1, <2>2, <2>3
<1>4. ASSUME IsInjective(q) PROVE IsInjective(r)
  <2>1. SUFFICES ASSUME NEW i \in DOMAIN r, NEW j \in DOMAIN r, r[i] = r[j] PROVE i = j
    BY DEF IsInjective
  <2>2. \A k \in 2 .. Len(r) : r[k] # f
    BY <1>1, <1>2 DEF ToSet
  <2>3. i \in 1 .. Len(r) /\ j \in 1 .. Len(r) /\ DOMAIN q = 1 .. Len(q)
    BY <1>1
  <2>4. \A k, l \in 1 .. Len(q) : q[k] = q[l] => k = l
    BY <1>4, <2>3 DEF IsInjective
  <2>5. CASE i = 1 \/ j = 1
    BY <1>1, <2>1, <2>2, <2>3, <2>5
  <2>6. CASE i \in 2 .. Len(r) /\ j \in 2 .. Len(r)
    BY <1>2, <2>1, <2>4, <2>6
  <2>7. QED
    BY <1>1, <2>3, <2>5, <2>6
<1>5. QED
  BY <1>1, <1>3, <1>4

\* frame_q_get takes the first frame off.
LEMMA GetFacts ==
  ASSUME NEW S, NEW q \in Seq(S), q # <<>>, IsInjective(q)
  PROVE  /\ FqFirst(q) \in S /\ FqFirst(q) \in ToSet(q)
         /\ FqRest(q) \in Seq(S)
         /\ ToSet(FqRest(q)) = ToSet(q) \ {FqFirst(q)}
         /\ IsInjective(FqRest(q))
         /\ Len(FqRest(q)) = Len(q) - 1
<1> DEFINE r == FqRest(q)
<1>1. /\ r \in Seq(S) /\ Len(q) > 0 /\ Len(r) = Len(q) - 1
      /\ \A i \in 1 .. Len(r) : r[i] = q[i + 1] /\ i + 1 \in 1 .. Len(q)
  BY DEF FqRest
<1>2. FqFirst(q) = q[1] /\ 1 \in 1 .. Len(q)
  BY <1>1 DEF FqFirst
<1>3. IsInjective(r)
  <2>1. \A k, l \in 1 .. Len(q) : q[k] = q[l] => k = l
    BY DEF IsInjective
  <2>2. \A k, l \in 1 .. Len(r) : r[k] = r[l] => k = l
    BY <1>1, <2>1
  <2>3. DOMAIN r = 1 .. Len(r)
    BY <1>1
  <2>4. QED
    BY <2>2, <2>3 DEF IsInjective
<1>4. ToSet(r) = ToSet(q) \ {FqFirst(q)}
  <2>1. ToSet(r) \subseteq ToSet(q) \ {q[1]}
    <3> SUFFICES ASSUME NEW i \in 1 .. Len(r) PROVE r[i] \in ToSet(q) /\ r[i] # q[1]
      BY <1>1 DEF ToSet
    <3>1. r[i] = q[i + 1] /\ i + 1 \in 1 .. Len(q) /\ i + 1 # 1
      BY <1>1
    <3>2. r[i] \in ToSet(q)
      BY <3>1 DEF ToSet
    <3>3. r[i] # q[1]
      BY <1>2, <3>1 DEF IsInjective
    <3>4. QED
      BY <3>2, <3>3
  <2>2. \A i \in 2 .. Len(q) : i - 1 \in 1 .. Len(r) /\ q[i] = r[i - 1]
    BY <1>1
  <2>3. ToSet(q) \ {q[1]} \subseteq ToSet(r)
    BY <1>1, <2>2 DEF ToSet
  <2>4. QED
    BY <1>2, <2>1, <2>3
<1>5. FqFirst(q) \in ToSet(q) /\ FqFirst(q) \in S
  BY <1>2 DEF ToSet
<1>6. QED
  BY <1>1, <1>3, <1>4, <1>5

\* What is in one's hands.
LEMMA HandFacts ==
  ASSUME NEW S, NoFrame \notin S, NEW f \in S \cup {NoFrame}
  PROVE  /\ Hand(f) \in Seq(S) /\ IsInjective(Hand(f))
         /\ ToSet(Hand(f)) = IF f = NoFrame THEN {} ELSE {f}
         /\ Len(Hand(f)) = IF f = NoFrame THEN 0 ELSE 1
BY DEF Hand, ToSet, IsInjective

\* Partition, frame by frame.
LEMMA PartitionMeans ==
  ASSUME NEW n \in Nat, NEW S, NEW p \in [1 .. n -> Seq(S)], NEW all
  PROVE  Partition(p, all) <=>
           /\ \A k, l \in 1 .. n : k # l => ToSet(p[k]) \cap ToSet(p[l]) = {}
           /\ \A k \in 1 .. n : IsInjective(p[k])
           /\ \A x : x \in all <=> \E k \in 1 .. n : x \in ToSet(p[k])
<1>1. DOMAIN p = 1 .. n
  OBVIOUS
<1>2. (\A x : x \in all <=> \E k \in 1 .. n : x \in ToSet(p[k]))
        <=> UNION {ToSet(p[k]) : k \in 1 .. n} = all
  OBVIOUS
<1>3. QED
  BY <1>1, <1>2, Zenon DEF Partition

\* A frame that moves from one place to another.
LEMMA MovesPartition ==
  ASSUME NEW n \in Nat, NEW S,
         NEW p \in [1 .. n -> Seq(S)], NEW q \in [1 .. n -> Seq(S)],
         NEW all, Partition(p, all),
         NEW i \in 1 .. n, NEW j \in 1 .. n, i # j, NEW f,
         \A k \in (1 .. n) \ {i, j} : q[k] = p[k],
         ToSet(q[i]) = ToSet(p[i]) \ {f}, IsInjective(q[i]), f \in ToSet(p[i]),
         ToSet(q[j]) = ToSet(p[j]) \cup {f}, IsInjective(q[j])
  PROVE  Partition(q, all)
<1>1. /\ \A k, l \in 1 .. n : k # l => ToSet(p[k]) \cap ToSet(p[l]) = {}
      /\ \A k \in 1 .. n : IsInjective(p[k])
      /\ \A x : x \in all <=> \E k \in 1 .. n : x \in ToSet(p[k])
  BY PartitionMeans
<1>2. \A k \in 1 .. n : ToSet(q[k]) = IF k = i THEN ToSet(p[k]) \ {f}
                                      ELSE IF k = j THEN ToSet(p[k]) \cup {f} ELSE ToSet(p[k])
  OBVIOUS
<1>3. \A k, l \in 1 .. n : k # l => ToSet(q[k]) \cap ToSet(q[l]) = {}
  <2>1. SUFFICES ASSUME NEW k \in 1 .. n, NEW l \in 1 .. n, k # l,
                        NEW x, x \in ToSet(q[k]), x \in ToSet(q[l])
                 PROVE  FALSE
    OBVIOUS
  <2>2. x # f => x \in ToSet(p[k]) /\ x \in ToSet(p[l])
    BY <1>2, <2>1
  <2>3. CASE x # f
    BY <1>1, <2>1, <2>2, <2>3
  <2>4. CASE x = f
    BY <1>1, <1>2, <2>1, <2>4
  <2>5. QED
    BY <2>3, <2>4
<1>4. \A x : x \in all <=> \E k \in 1 .. n : x \in ToSet(q[k])
  <2>1. TAKE x
  <2>2. CASE x = f
    BY <1>1, <1>2, <2>2
  <2>3. CASE x # f
    <3>1. \A k \in 1 .. n : x \in ToSet(q[k]) <=> x \in ToSet(p[k])
      BY <1>2, <2>3
    <3>2. QED
      BY <1>1, <2>3, <3>1
  <2>4. QED
    BY <2>2, <2>3
<1>5. \A k \in 1 .. n : IsInjective(q[k])
  BY <1>1
<1>6. QED
  BY <1>3, <1>4, <1>5, PartitionMeans

\* A frame that leaves the places, or comes to one of them.
LEMMA LeavesPartition ==
  ASSUME NEW n \in Nat, NEW S,
         NEW p \in [1 .. n -> Seq(S)], NEW q \in [1 .. n -> Seq(S)],
         NEW all, Partition(p, all),
         NEW i \in 1 .. n, NEW f,
         \A k \in (1 .. n) \ {i} : q[k] = p[k],
         ToSet(q[i]) = ToSet(p[i]) \ {f}, IsInjective(q[i]), f \in ToSet(p[i])
  PROVE  Partition(q, all \ {f})
<1>1. /\ \A k, l \in 1 .. n : k # l => ToSet(p[k]) \cap ToSet(p[l]) = {}
      /\ \A k \in 1 .. n : IsInjective(p[k])
      /\ \A x : x \in all <=> \E k \in 1 .. n : x \in ToSet(p[k])
  BY PartitionMeans
<1>2. \A k \in 1 .. n : ToSet(q[k]) = IF k = i THEN ToSet(p[k]) \ {f} ELSE ToSet(p[k])
  OBVIOUS
<1>3. \A k, l \in 1 .. n : k # l => ToSet(q[k]) \cap ToSet(q[l]) = {}
  <2>1. SUFFICES ASSUME NEW k \in 1 .. n, NEW l \in 1 .. n, k # l,
                        NEW x, x \in ToSet(q[k]), x \in ToSet(q[l])
                 PROVE  FALSE
    OBVIOUS
  <2>2. x # f => x \in ToSet(p[k]) /\ x \in ToSet(p[l])
    BY <1>2, <2>1
  <2>3. CASE x # f
    BY <1>1, <2>1, <2>2, <2>3
  <2>4. CASE x = f
    BY <1>1, <1>2, <2>1, <2>4
  <2>5. QED
    BY <2>3, <2>4
<1>4. \A x : x \in all \ {f} <=> \E k \in 1 .. n : x \in ToSet(q[k])
  <2>1. TAKE x
  <2>2. CASE x = f
    BY <1>1, <1>2, <2>2
  <2>3. CASE x # f
    <3>1. \A k \in 1 .. n : x \in ToSet(q[k]) <=> x \in ToSet(p[k])
      BY <1>2, <2>3
    <3>2. QED
      BY <1>1, <2>3, <3>1
  <2>4. QED
    BY <2>2, <2>3
<1>5. \A k \in 1 .. n : IsInjective(q[k])
  BY <1>1
<1>6. QED
  BY <1>3, <1>4, <1>5, PartitionMeans

LEMMA JoinsPartition ==
  ASSUME NEW n \in Nat, NEW S,
         NEW p \in [1 .. n -> Seq(S)], NEW q \in [1 .. n -> Seq(S)],
         NEW all, Partition(p, all),
         NEW i \in 1 .. n, NEW f, f \notin all,
         \A k \in (1 .. n) \ {i} : q[k] = p[k],
         ToSet(q[i]) = ToSet(p[i]) \cup {f}, IsInjective(q[i])
  PROVE  Partition(q, all \cup {f})
<1>1. /\ \A k, l \in 1 .. n : k # l => ToSet(p[k]) \cap ToSet(p[l]) = {}
      /\ \A k \in 1 .. n : IsInjective(p[k])
      /\ \A x : x \in all <=> \E k \in 1 .. n : x \in ToSet(p[k])
  BY PartitionMeans
<1>2. \A k \in 1 .. n : ToSet(q[k]) = IF k = i THEN ToSet(p[k]) \cup {f} ELSE ToSet(p[k])
  OBVIOUS
<1>3. \A k, l \in 1 .. n : k # l => ToSet(q[k]) \cap ToSet(q[l]) = {}
  <2>1. SUFFICES ASSUME NEW k \in 1 .. n, NEW l \in 1 .. n, k # l,
                        NEW x, x \in ToSet(q[k]), x \in ToSet(q[l])
                 PROVE  FALSE
    OBVIOUS
  <2>2. x # f => x \in ToSet(p[k]) /\ x \in ToSet(p[l])
    BY <1>2, <2>1
  <2>3. CASE x # f
    BY <1>1, <2>1, <2>2, <2>3
  <2>4. CASE x = f
    BY <1>1, <1>2, <2>1, <2>4
  <2>5. QED
    BY <2>3, <2>4
<1>4. \A x : x \in all \cup {f} <=> \E k \in 1 .. n : x \in ToSet(q[k])
  <2>1. TAKE x
  <2>2. CASE x = f
    BY <1>1, <1>2, <2>2
  <2>3. CASE x # f
    <3>1. \A k \in 1 .. n : x \in ToSet(q[k]) <=> x \in ToSet(p[k])
      BY <1>2, <2>3
    <3>2. QED
      BY <1>1, <2>3, <3>1
  <2>4. QED
    BY <2>2, <2>3
<1>5. \A k \in 1 .. n : IsInjective(q[k])
  BY <1>1
<1>6. QED
  BY <1>3, <1>4, <1>5, PartitionMeans

-----------------------------------------------------------------------------
(* The inductive invariant. *)

\* A thread has a frame in its hands while it works on it, says so in state, and
\* is not asleep then; the decoder reads into a frame without a buffer.
ThreadInv ==
  /\ dframe # NoFrame <=> dpc \in {"release", "enter", "reading", "back"}
  /\ sframe # NoFrame <=> spc \in {"timed", "render", "back"}
  /\ dframe # NoFrame => "reading" \in state
  /\ sframe # NoFrame => "rendering" \in state
  /\ dpc \in {"enter", "reading", "back"} => handle[dframe] = "none"
  /\ dbuf # "none" => dpc = "back"
  /\ "dec" \in asleep => dpc = "wait"
  /\ "sink" \in asleep => spc = "wait"

\* While a flush lasts the codec has nothing, and only then, or after close, are
\* there void buffers.
FlushInv ==
  /\ "flushing" \in state <=> cpc \in {"flush", "flushwait"}
  /\ "flushing" \in state => inside = 0 /\ dbuf # "lent"
  /\ "stale" \in {handle[f] : f \in Frame} \/ dbuf = "stale" =>
       cpc \in {"flush", "flushwait", "join", "closed"}

\* Where the frames are.
places == <<decQ, outQ, vencQ, getQ, Hand(dframe), Hand(sframe)>>

QueuesOK ==
  /\ decQ \in Seq(Frame) /\ outQ \in Seq(Frame) /\ vencQ \in Seq(Frame) /\ getQ \in Seq(Frame)
  /\ held \subseteq Frame

FlagsOK ==
  /\ state \subseteq {"reading", "rendering", "flushing"}
  /\ asleep \subseteq {"dec", "sink", "engine"}
  /\ run \in BOOLEAN /\ error \in BOOLEAN

ThreadsOK ==
  /\ handle \in [Frame -> {"none", "lent", "shown", "stale"}]
  /\ dpc \in {"start", "top", "inner", "wait", "release", "enter", "reading", "back", "end"}
  /\ dframe \in Frame \cup {NoFrame} /\ dbuf \in {"none", "lent", "stale", "error"}
  /\ spc \in {"start", "top", "inner", "wait", "timed", "render", "back", "end"}
  /\ sframe \in Frame \cup {NoFrame}
  /\ inside \in Nat
  /\ cpc \in {"idle", "put", "get", "flush", "flushwait", "close", "join", "closed"}

IInv ==
  /\ TypeOK /\ FramesConserved /\ BuffersAccounted /\ StaleHarmless /\ NoLostWakeUp
  /\ ThreadInv /\ FlushInv

\* All actions.
LEMMA NextCases ==
  ASSUME [Next]_vars
  PROVE  \/ DecLock \/ DecTop \/ DecInner \/ DecWake \/ DecRelease \/ DecRead \/ DecBack
         \/ SinkLock \/ SinkTop \/ SinkInner \/ SinkWake \/ SinkTimedOver \/ SinkRender \/ SinkBack
         \/ ReadPicture \/ ReadSize \/ ReadError
         \/ (\E call \in {"put", "get"} : CheckError(call)) \/ (\E f \in Frame : PutOut(f))
         \/ GetOut \/ DecIn \/ SinkGet \/ (\E f \in Frame : SinkPut(f))
         \/ FlushBegin \/ FlushTest \/ FlushWake \/ FlushEnd
         \/ CloseBegin \/ CloseFlush \/ CloseJoin \/ UNCHANGED vars
BY DEF Next, DecStep, SinkStep, CodecStep, EngineStep, CallStep

LEMMA FrameFacts == NoFrame \notin Frame /\ IsFiniteSet(Frame) /\ frames \in Seq(Frame)
<1>1. frames \in Surjection(1 .. Len(frames), Frame)
  BY FramesAssumption DEF FramesAssumption, Frame, ToSet, Surjection
<1>2. IsFiniteSet(1 .. Len(frames))
  BY FS_Interval, FramesAssumption DEF FramesAssumption
<1>3. IsFiniteSet(Frame)
  BY <1>1, <1>2, FS_Surjection
<1>4. QED
  BY <1>3, FramesAssumption DEF FramesAssumption, Frame

\* What holds of the queues in a state of the invariant.
LEMMA QueueFacts ==
  ASSUME IInv
  PROVE  /\ places \in [1 .. 6 -> Seq(Frame)]
         /\ Partition(places, Frame \ held)
         /\ IsInjective(decQ) /\ IsInjective(outQ) /\ IsInjective(vencQ) /\ IsInjective(getQ)
         /\ ToSet(decQ) \cup ToSet(outQ) \cup ToSet(vencQ) \cup ToSet(getQ) \subseteq Frame \ held
         /\ ToSet(vencQ) \cap ToSet(getQ) = {}
         /\ dframe # NoFrame =>
              /\ dframe \in Frame \ (ToSet(decQ) \cup ToSet(outQ) \cup ToSet(vencQ) \cup ToSet(getQ))
              /\ dframe \notin held
         /\ sframe # NoFrame =>
              /\ sframe \in Frame \ (ToSet(decQ) \cup ToSet(outQ) \cup ToSet(vencQ) \cup ToSet(getQ))
              /\ sframe \notin held
<1>1. places \in [1 .. 6 -> Seq(Frame)]
  BY HandFacts, FrameFacts DEF IInv, TypeOK, places
<1>2. Partition(places, Frame \ held)
  BY DEF IInv, FramesConserved, places
<1>3. /\ \A k, l \in 1 .. 6 : k # l => ToSet(places[k]) \cap ToSet(places[l]) = {}
      /\ \A k \in 1 .. 6 : IsInjective(places[k])
      /\ \A x : x \in Frame \ held <=> \E k \in 1 .. 6 : x \in ToSet(places[k])
  <2>1. 6 \in Nat
    OBVIOUS
  <2>2. QED
    BY <1>1, <1>2, <2>1, PartitionMeans, Zenon
<1>4. IsInjective(decQ) /\ IsInjective(outQ) /\ IsInjective(vencQ) /\ IsInjective(getQ)
  BY <1>3 DEF places
<1>5. ToSet(decQ) \cup ToSet(outQ) \cup ToSet(vencQ) \cup ToSet(getQ) \subseteq Frame \ held
  BY <1>3 DEF places
<1>s. ToSet(vencQ) \cap ToSet(getQ) = {}
  BY <1>3 DEF places
<1>6. ToSet(Hand(dframe)) = ToSet(places[5]) /\ ToSet(Hand(sframe)) = ToSet(places[6])
  BY DEF places
<1>7. ASSUME NEW k \in 1 .. 4
      PROVE  ToSet(places[k]) \cap (ToSet(Hand(dframe)) \cup ToSet(Hand(sframe))) = {}
  BY <1>3, <1>6
<1>h. (ToSet(places[5]) \cup ToSet(places[6])) \cap held = {}
  <2>1. 5 \in 1 .. 6 /\ 6 \in 1 .. 6
    OBVIOUS
  <2>2. QED
    BY <1>3, <2>1
<1>8. QED
  <2>1. /\ dframe # NoFrame => dframe \in ToSet(Hand(dframe)) /\ dframe \in Frame
        /\ sframe # NoFrame => sframe \in ToSet(Hand(sframe)) /\ sframe \in Frame
    BY HandFacts, FrameFacts DEF IInv, TypeOK
  <2>2. places[1] = decQ /\ places[2] = outQ /\ places[3] = vencQ /\ places[4] = getQ
    BY DEF places
  <2>3. QED
    BY <1>1, <1>2, <1>4, <1>5, <1>s, <1>6, <1>7, <1>h, <2>1, <2>2

\* Each frame is in one place after the step too.
LEMMA QueuesStep == IInv /\ [Next]_vars => QueuesOK' /\ FramesConserved'
<1> SUFFICES ASSUME IInv, [Next]_vars PROVE QueuesOK' /\ FramesConserved'
  OBVIOUS
<1> DEFINE TakesDec  == "flushing" \notin state /\ run /\ ~error /\ decQ # <<>>
           TakesSink == "flushing" \notin state /\ run /\ vencQ # <<>>
           NoPicture == dbuf \in {"none", "error"} \/ "flushing" \in state
<1>0. QueuesOK /\ ThreadInv /\ NoFrame \notin Frame /\ 6 \in Nat
      /\ dframe \in Frame \cup {NoFrame} /\ sframe \in Frame \cup {NoFrame}
  BY FrameFacts DEF IInv, TypeOK, QueuesOK
<1>a. ASSUME QueuesOK', Partition(places, Frame \ held)' PROVE FramesConserved'
  BY <1>a DEF FramesConserved, QueuesOK, places
<1>b. ASSUME QueuesOK', dframe' \in Frame \cup {NoFrame}, sframe' \in Frame \cup {NoFrame}
      PROVE  places' \in [1 .. 6 -> Seq(Frame)]
  BY <1>0, <1>b, HandFacts DEF QueuesOK, places
<1>1. CASE UNCHANGED <<queues, held, dframe, sframe>>
  BY <1>0, <1>1 DEF IInv, QueuesOK, FramesConserved, queues
<1>2. CASE DecInner /\ TakesDec
  <2> DEFINE f == FqFirst(decQ)
  <2>1. /\ decQ # <<>> /\ decQ' = FqRest(decQ) /\ dframe' = f /\ dframe = NoFrame
        /\ f \in Frame /\ f # NoFrame
        /\ UNCHANGED <<outQ, vencQ, getQ, sframe, held>>
    <3>1. decQ # <<>>
      BY <1>2, <1>0 DEF DecInner, ThreadInv
    <3>2. f \in Frame
      BY <1>0, <3>1, QueueFacts, GetFacts DEF QueuesOK
    <3>3. QED
      BY <1>2, <1>0, <3>1, <3>2 DEF DecInner, ThreadInv, sinks, decs, engine
  <2>2. /\ f \in ToSet(decQ) /\ decQ' \in Seq(Frame)
        /\ ToSet(decQ') = ToSet(decQ) \ {f} /\ IsInjective(decQ')
    BY <1>0, <2>1, QueueFacts, GetFacts DEF QueuesOK
  <2>3. ToSet(Hand(dframe)) = {} /\ ToSet(Hand(dframe)') = {f} /\ IsInjective(Hand(dframe)')
    BY <1>0, <2>1, HandFacts
  <2>4. QueuesOK'
    BY <1>0, <2>1, <2>2, <2>3 DEF QueuesOK
  <2>5. /\ places' \in [1 .. 6 -> Seq(Frame)]
        /\ \A k \in (1 .. 6) \ {1, 5} : places'[k] = places[k]
        /\ ToSet(places'[1]) = ToSet(places[1]) \ {f} /\ f \in ToSet(places[1])
        /\ IsInjective(places'[1])
        /\ ToSet(places'[5]) = ToSet(places[5]) \cup {f} /\ IsInjective(places'[5])
    BY <1>0, <1>b, <2>1, <2>2, <2>3, <2>4 DEF places
  <2>6. Partition(places', Frame \ held)
    <3>1. 1 \in 1 .. 6 /\ 5 \in 1 .. 6 /\ 1 # 5
      OBVIOUS
    <3>2. QED
      BY <1>0, <2>5, <3>1, QueueFacts, MovesPartition, Zenon
  <2>7. QED
    BY <1>a, <2>1, <2>4, <2>6
<1>3. CASE DecBack /\ NoPicture
  <2> DEFINE f == dframe
  <2>1. /\ dframe' = NoFrame /\ decQ' = FqPutHead(decQ, f)
        /\ f \in Frame /\ f # NoFrame
        /\ UNCHANGED <<outQ, vencQ, getQ, sframe, held>>
    BY <1>3, <1>0 DEF DecBack, ThreadInv, sinks, decs, engine
  <2>2. ToSet(Hand(dframe)) = {f} /\ ToSet(Hand(dframe)') = {} /\ IsInjective(Hand(dframe)')
    BY <1>0, <2>1, HandFacts
  <2>3. /\ decQ' \in Seq(Frame) /\ ToSet(decQ') = ToSet(decQ) \cup {f} /\ IsInjective(decQ')
    <3>1. decQ \in Seq(Frame) /\ IsInjective(decQ) /\ f \in Frame /\ f \notin ToSet(decQ)
      BY <1>0, <2>1, QueueFacts DEF QueuesOK
    <3>2. QED
      BY <2>1, <3>1, PutHeadFacts
  <2>4. QueuesOK'
    BY <1>0, <2>1, <2>2, <2>3 DEF QueuesOK
  <2>5. /\ places' \in [1 .. 6 -> Seq(Frame)]
        /\ \A k \in (1 .. 6) \ {5, 1} : places'[k] = places[k]
        /\ ToSet(places'[5]) = ToSet(places[5]) \ {f} /\ f \in ToSet(places[5])
        /\ IsInjective(places'[5])
        /\ ToSet(places'[1]) = ToSet(places[1]) \cup {f} /\ IsInjective(places'[1])
    BY <1>0, <1>b, <2>1, <2>2, <2>3, <2>4 DEF places
  <2>6. Partition(places', Frame \ held)
    <3>1. 5 \in 1 .. 6 /\ 1 \in 1 .. 6 /\ 5 # 1
      OBVIOUS
    <3>2. QED
      BY <1>0, <2>5, <3>1, QueueFacts, MovesPartition, Zenon
  <2>7. QED
    BY <1>a, <2>1, <2>4, <2>6
<1>4. CASE DecBack /\ ~NoPicture
  <2> DEFINE f == dframe
  <2>1. /\ dframe' = NoFrame /\ outQ' = FqPut(outQ, f)
        /\ f \in Frame /\ f # NoFrame
        /\ UNCHANGED <<decQ, vencQ, getQ, sframe, held>>
    BY <1>4, <1>0 DEF DecBack, ThreadInv, sinks, decs, engine
  <2>2. ToSet(Hand(dframe)) = {f} /\ ToSet(Hand(dframe)') = {} /\ IsInjective(Hand(dframe)')
    BY <1>0, <2>1, HandFacts
  <2>3. /\ outQ' \in Seq(Frame) /\ ToSet(outQ') = ToSet(outQ) \cup {f} /\ IsInjective(outQ')
    <3>1. outQ \in Seq(Frame) /\ IsInjective(outQ) /\ f \in Frame
      BY <1>0, <2>1, QueueFacts DEF QueuesOK
    <3>2. QED
      BY <2>1, <3>1, PutFacts
  <2>4. QueuesOK'
    BY <1>0, <2>1, <2>2, <2>3 DEF QueuesOK
  <2>5. /\ places' \in [1 .. 6 -> Seq(Frame)]
        /\ \A k \in (1 .. 6) \ {5, 2} : places'[k] = places[k]
        /\ ToSet(places'[5]) = ToSet(places[5]) \ {f} /\ f \in ToSet(places[5])
        /\ IsInjective(places'[5])
        /\ ToSet(places'[2]) = ToSet(places[2]) \cup {f} /\ IsInjective(places'[2])
    BY <1>0, <1>b, <2>1, <2>2, <2>3, <2>4 DEF places
  <2>6. Partition(places', Frame \ held)
    <3>1. 5 \in 1 .. 6 /\ 2 \in 1 .. 6 /\ 5 # 2
      OBVIOUS
    <3>2. QED
      BY <1>0, <2>5, <3>1, QueueFacts, MovesPartition, Zenon
  <2>7. QED
    BY <1>a, <2>1, <2>4, <2>6
<1>5. CASE SinkInner /\ TakesSink /\ handle[FqFirst(vencQ)] = "none"
  <2> DEFINE f == FqFirst(vencQ)
  <2>1. /\ vencQ # <<>> /\ vencQ' = FqRest(vencQ) /\ getQ' = FqPut(getQ, f)
        /\ f \in Frame /\ f # NoFrame
        /\ UNCHANGED <<decQ, outQ, dframe, sframe, held>>
    <3>1. vencQ # <<>>
      BY <1>5, <1>0 DEF SinkInner, ThreadInv
    <3>2. f \in Frame
      BY <1>0, <3>1, QueueFacts, GetFacts DEF QueuesOK
    <3>3. QED
      BY <1>5, <1>0, <3>1, <3>2 DEF SinkInner, ThreadInv, sinks, decs, engine
  <2>2. /\ f \in ToSet(vencQ) /\ vencQ' \in Seq(Frame)
        /\ ToSet(vencQ') = ToSet(vencQ) \ {f} /\ IsInjective(vencQ')
    BY <1>0, <2>1, QueueFacts, GetFacts DEF QueuesOK
  <2>3. /\ getQ' \in Seq(Frame) /\ ToSet(getQ') = ToSet(getQ) \cup {f} /\ IsInjective(getQ')
    <3>1. getQ \in Seq(Frame) /\ IsInjective(getQ) /\ f \in Frame
      BY <1>0, <2>1, QueueFacts DEF QueuesOK
    <3>2. QED
      BY <2>1, <3>1, PutFacts
  <2>4. QueuesOK'
    BY <1>0, <2>1, <2>2, <2>3 DEF QueuesOK
  <2>5. /\ places' \in [1 .. 6 -> Seq(Frame)]
        /\ \A k \in (1 .. 6) \ {3, 4} : places'[k] = places[k]
        /\ ToSet(places'[3]) = ToSet(places[3]) \ {f} /\ f \in ToSet(places[3])
        /\ IsInjective(places'[3])
        /\ ToSet(places'[4]) = ToSet(places[4]) \cup {f} /\ IsInjective(places'[4])
    BY <1>0, <1>b, <2>1, <2>2, <2>3, <2>4 DEF places
  <2>6. Partition(places', Frame \ held)
    <3>1. 3 \in 1 .. 6 /\ 4 \in 1 .. 6 /\ 3 # 4
      OBVIOUS
    <3>2. QED
      BY <1>0, <2>5, <3>1, QueueFacts, MovesPartition, Zenon
  <2>7. QED
    BY <1>a, <2>1, <2>4, <2>6
<1>6. CASE SinkInner /\ TakesSink /\ handle[FqFirst(vencQ)] # "none"
  <2> DEFINE f == FqFirst(vencQ)
  <2>1. /\ vencQ # <<>> /\ vencQ' = FqRest(vencQ) /\ sframe' = f /\ sframe = NoFrame
        /\ f \in Frame /\ f # NoFrame
        /\ UNCHANGED <<decQ, outQ, getQ, dframe, held>>
    <3>1. vencQ # <<>>
      BY <1>6, <1>0 DEF SinkInner, ThreadInv
    <3>2. f \in Frame
      BY <1>0, <3>1, QueueFacts, GetFacts DEF QueuesOK
    <3>3. QED
      BY <1>6, <1>0, <3>1, <3>2 DEF SinkInner, ThreadInv, sinks, decs, engine
  <2>2. /\ f \in ToSet(vencQ) /\ vencQ' \in Seq(Frame)
        /\ ToSet(vencQ') = ToSet(vencQ) \ {f} /\ IsInjective(vencQ')
    BY <1>0, <2>1, QueueFacts, GetFacts DEF QueuesOK
  <2>3. ToSet(Hand(sframe)) = {} /\ ToSet(Hand(sframe)') = {f} /\ IsInjective(Hand(sframe)')
    BY <1>0, <2>1, HandFacts
  <2>4. QueuesOK'
    BY <1>0, <2>1, <2>2, <2>3 DEF QueuesOK
  <2>5. /\ places' \in [1 .. 6 -> Seq(Frame)]
        /\ \A k \in (1 .. 6) \ {3, 6} : places'[k] = places[k]
        /\ ToSet(places'[3]) = ToSet(places[3]) \ {f} /\ f \in ToSet(places[3])
        /\ IsInjective(places'[3])
        /\ ToSet(places'[6]) = ToSet(places[6]) \cup {f} /\ IsInjective(places'[6])
    BY <1>0, <1>b, <2>1, <2>2, <2>3, <2>4 DEF places
  <2>6. Partition(places', Frame \ held)
    <3>1. 3 \in 1 .. 6 /\ 6 \in 1 .. 6 /\ 3 # 6
      OBVIOUS
    <3>2. QED
      BY <1>0, <2>5, <3>1, QueueFacts, MovesPartition, Zenon
  <2>7. QED
    BY <1>a, <2>1, <2>4, <2>6
<1>7. CASE SinkBack
  <2> DEFINE f == sframe
  <2>1. /\ sframe' = NoFrame /\ getQ' = FqPut(getQ, f)
        /\ f \in Frame /\ f # NoFrame
        /\ UNCHANGED <<decQ, outQ, vencQ, dframe, held>>
    BY <1>7, <1>0 DEF SinkBack, ThreadInv, sinks, decs, engine
  <2>2. ToSet(Hand(sframe)) = {f} /\ ToSet(Hand(sframe)') = {} /\ IsInjective(Hand(sframe)')
    BY <1>0, <2>1, HandFacts
  <2>3. /\ getQ' \in Seq(Frame) /\ ToSet(getQ') = ToSet(getQ) \cup {f} /\ IsInjective(getQ')
    <3>1. getQ \in Seq(Frame) /\ IsInjective(getQ) /\ f \in Frame
      BY <1>0, <2>1, QueueFacts DEF QueuesOK
    <3>2. QED
      BY <2>1, <3>1, PutFacts
  <2>4. QueuesOK'
    BY <1>0, <2>1, <2>2, <2>3 DEF QueuesOK
  <2>5. /\ places' \in [1 .. 6 -> Seq(Frame)]
        /\ \A k \in (1 .. 6) \ {6, 4} : places'[k] = places[k]
        /\ ToSet(places'[6]) = ToSet(places[6]) \ {f} /\ f \in ToSet(places[6])
        /\ IsInjective(places'[6])
        /\ ToSet(places'[4]) = ToSet(places[4]) \cup {f} /\ IsInjective(places'[4])
    BY <1>0, <1>b, <2>1, <2>2, <2>3, <2>4 DEF places
  <2>6. Partition(places', Frame \ held)
    <3>1. 6 \in 1 .. 6 /\ 4 \in 1 .. 6 /\ 6 # 4
      OBVIOUS
    <3>2. QED
      BY <1>0, <2>5, <3>1, QueueFacts, MovesPartition, Zenon
  <2>7. QED
    BY <1>a, <2>1, <2>4, <2>6
<1>8. ASSUME NEW f \in Frame, PutOut(f) PROVE QueuesOK' /\ FramesConserved'
  <2>1. /\ f \in held /\ decQ' = FqPut(decQ, f) /\ held' = held \ {f}
        /\ UNCHANGED <<outQ, vencQ, getQ, dframe, sframe>>
    BY <1>8 DEF PutOut, decs, sinks
  <2>2. decQ' \in Seq(Frame) /\ ToSet(decQ') = ToSet(decQ) \cup {f} /\ IsInjective(decQ')
    BY <1>0, <2>1, QueueFacts, PutFacts DEF QueuesOK
  <2>3. QueuesOK' /\ f \notin Frame \ held /\ Frame \ held' = (Frame \ held) \cup {f}
    BY <1>0, <2>1, <2>2 DEF QueuesOK
  <2>4. /\ places' \in [1 .. 6 -> Seq(Frame)]
        /\ \A k \in (1 .. 6) \ {1} : places'[k] = places[k]
        /\ ToSet(places'[1]) = ToSet(places[1]) \cup {f} /\ IsInjective(places'[1])
    BY <1>0, <1>b, <2>1, <2>2, <2>3 DEF places
  <2>5. Partition(places', (Frame \ held) \cup {f})
    <3>1. 1 \in 1 .. 6
      OBVIOUS
    <3>2. QED
      BY <1>0, <2>3, <2>4, <3>1, QueueFacts, JoinsPartition, Zenon
  <2>6. QED
    BY <1>a, <2>3, <2>5
<1>9. ASSUME NEW f \in Frame, SinkPut(f) PROVE QueuesOK' /\ FramesConserved'
  <2>1. /\ f \in held /\ vencQ' = FqPut(vencQ, f) /\ held' = held \ {f}
        /\ UNCHANGED <<decQ, outQ, getQ, dframe, sframe>>
    BY <1>9 DEF SinkPut, decs, sinks
  <2>2. vencQ' \in Seq(Frame) /\ ToSet(vencQ') = ToSet(vencQ) \cup {f} /\ IsInjective(vencQ')
    BY <1>0, <2>1, QueueFacts, PutFacts DEF QueuesOK
  <2>3. QueuesOK' /\ f \notin Frame \ held /\ Frame \ held' = (Frame \ held) \cup {f}
    BY <1>0, <2>1, <2>2 DEF QueuesOK
  <2>4. /\ places' \in [1 .. 6 -> Seq(Frame)]
        /\ \A k \in (1 .. 6) \ {3} : places'[k] = places[k]
        /\ ToSet(places'[3]) = ToSet(places[3]) \cup {f} /\ IsInjective(places'[3])
    BY <1>0, <1>b, <2>1, <2>2, <2>3 DEF places
  <2>5. Partition(places', (Frame \ held) \cup {f})
    <3>1. 3 \in 1 .. 6
      OBVIOUS
    <3>2. QED
      BY <1>0, <2>3, <2>4, <3>1, QueueFacts, JoinsPartition, Zenon
  <2>6. QED
    BY <1>a, <2>3, <2>5
<1>10. CASE GetOut /\ outQ # <<>>
  <2> DEFINE f == FqFirst(outQ)
  <2>1. /\ outQ # <<>> /\ outQ' = FqRest(outQ) /\ held' = held \cup {f}
        /\ UNCHANGED <<decQ, vencQ, getQ, dframe, sframe>>
    BY <1>10 DEF GetOut, decs, sinks
  <2>2. /\ f \in Frame /\ f \in ToSet(outQ) /\ outQ' \in Seq(Frame)
        /\ ToSet(outQ') = ToSet(outQ) \ {f} /\ IsInjective(outQ')
    BY <1>0, <2>1, QueueFacts, GetFacts DEF QueuesOK
  <2>3. QueuesOK' /\ Frame \ held' = (Frame \ held) \ {f}
    BY <1>0, <2>1, <2>2 DEF QueuesOK
  <2>4. /\ places' \in [1 .. 6 -> Seq(Frame)]
        /\ \A k \in (1 .. 6) \ {2} : places'[k] = places[k]
        /\ ToSet(places'[2]) = ToSet(places[2]) \ {f} /\ f \in ToSet(places[2])
        /\ IsInjective(places'[2])
    BY <1>0, <1>b, <2>1, <2>2, <2>3 DEF places
  <2>5. Partition(places', (Frame \ held) \ {f})
    <3>1. 2 \in 1 .. 6
      OBVIOUS
    <3>2. QED
      BY <1>0, <2>4, <3>1, QueueFacts, LeavesPartition, Zenon
  <2>6. QED
    BY <1>a, <2>3, <2>5
<1>11. CASE SinkGet
  <2> DEFINE f == FqFirst(getQ)
  <2>1. /\ getQ # <<>> /\ getQ' = FqRest(getQ) /\ held' = held \cup {f}
        /\ UNCHANGED <<decQ, outQ, vencQ, dframe, sframe>>
    BY <1>11 DEF SinkGet, decs, sinks
  <2>2. /\ f \in Frame /\ f \in ToSet(getQ) /\ getQ' \in Seq(Frame)
        /\ ToSet(getQ') = ToSet(getQ) \ {f} /\ IsInjective(getQ')
    BY <1>0, <2>1, QueueFacts, GetFacts DEF QueuesOK
  <2>3. QueuesOK' /\ Frame \ held' = (Frame \ held) \ {f}
    BY <1>0, <2>1, <2>2 DEF QueuesOK
  <2>4. /\ places' \in [1 .. 6 -> Seq(Frame)]
        /\ \A k \in (1 .. 6) \ {4} : places'[k] = places[k]
        /\ ToSet(places'[4]) = ToSet(places[4]) \ {f} /\ f \in ToSet(places[4])
        /\ IsInjective(places'[4])
    BY <1>0, <1>b, <2>1, <2>2, <2>3 DEF places
  <2>5. Partition(places', (Frame \ held) \ {f})
    <3>1. 4 \in 1 .. 6
      OBVIOUS
    <3>2. QED
      BY <1>0, <2>4, <3>1, QueueFacts, LeavesPartition, Zenon
  <2>6. QED
    BY <1>a, <2>3, <2>5
<1>12. CASE DecInner /\ ~TakesDec
  <2>1. UNCHANGED <<queues, held, dframe, sframe>>
    BY <1>12 DEF DecInner, queues, sinks, engine
  <2>2. QED
    BY <1>1, <2>1
<1>13. CASE SinkInner /\ ~TakesSink
  <2>1. UNCHANGED <<queues, held, dframe, sframe>>
    BY <1>13 DEF SinkInner, queues, decs, engine
  <2>2. QED
    BY <1>1, <2>1
<1>14. CASE GetOut /\ outQ = <<>>
  <2>1. UNCHANGED <<queues, held, dframe, sframe>>
    BY <1>14 DEF GetOut, queues, decs, sinks
  <2>2. QED
    BY <1>1, <2>1
<1>15. CASE DecTop \/ SinkTop
  <2>1. UNCHANGED <<queues, held, dframe, sframe>>
    BY <1>0, <1>15 DEF DecTop, SinkTop, ThreadInv, queues, decs, sinks, engine
  <2>2. QED
    BY <1>1, <2>1
<1>16. CASE \/ DecLock \/ DecWake \/ DecRelease \/ DecRead
            \/ SinkLock \/ SinkWake \/ SinkTimedOver \/ SinkRender
            \/ ReadPicture \/ ReadSize \/ ReadError
            \/ (\E call \in {"put", "get"} : CheckError(call)) \/ DecIn
            \/ FlushBegin \/ FlushTest \/ FlushWake \/ FlushEnd
            \/ CloseBegin \/ CloseFlush \/ CloseJoin \/ UNCHANGED vars
  <2>1. UNCHANGED <<queues, held, dframe, sframe>>
    BY <1>16 DEF DecLock, DecWake, DecRelease, DecRead, SinkLock, SinkWake, SinkTimedOver,
       SinkRender, ReadPicture, ReadSize, ReadError, CheckError, DecIn, FlushBegin, FlushTest,
       FlushWake, FlushEnd, CloseBegin, CloseFlush, CloseJoin, CodecFlush, decs, sinks, engine, vars
  <2>2. QED
    BY <1>1, <2>1
<1>17. QED
  BY <1>2, <1>3, <1>4, <1>5, <1>6, <1>7, <1>8, <1>9, <1>10, <1>11, <1>12, <1>13, <1>14, <1>15,
     <1>16, NextCases
\* Flags and sets keep to their values.
LEMMA FlagsStep == IInv /\ [Next]_vars => FlagsOK'
<1> SUFFICES ASSUME IInv, [Next]_vars PROVE FlagsOK'
  OBVIOUS
<1>0. FlagsOK
  BY DEF IInv, TypeOK, FlagsOK
<1>a. ASSUME UNCHANGED flags PROVE FlagsOK'
  BY <1>0, <1>a DEF FlagsOK, flags
<1>1. CASE DecBack
  <2>1. error' \in BOOLEAN
    BY <1>1, Zenon DEF DecBack
  <2>2. QED
    BY <1>0, <1>1, <2>1 DEF DecBack, FlagsOK
<1>2. CASE DecTop \/ DecInner
  BY <1>0, <1>2 DEF DecTop, DecInner, SetState, SetStateAndSleep, FlagsOK, flags
<1>3. CASE SinkTop \/ SinkInner
  BY <1>0, <1>3 DEF SinkTop, SinkInner, SetState, SetStateAndSleep, FlagsOK, flags
<1>4. CASE (\E f \in Frame : PutOut(f)) \/ (\E f \in Frame : SinkPut(f))
  BY <1>0, <1>4 DEF PutOut, SinkPut, FlagsOK, flags
<1>5. CASE FlushBegin \/ FlushEnd
  BY <1>0, <1>5 DEF FlushBegin, FlushEnd, CodecFlush, ReleaseAll, SetState, FlagsOK, flags
<1>6. CASE FlushTest
  BY <1>0, <1>6 DEF FlushTest, FlagsOK, flags
<1>7. CASE CloseBegin
  BY <1>0, <1>7 DEF CloseBegin, FlagsOK, flags
<1>8. CASE \/ DecLock \/ DecWake \/ DecRelease \/ DecRead \/ SinkLock \/ SinkWake
            \/ SinkTimedOver \/ SinkRender \/ SinkBack
  BY <1>0, <1>8 DEF DecLock, DecWake, DecRelease, DecRead, SinkLock, SinkWake, SinkTimedOver,
    SinkRender, SinkBack, FlagsOK, flags
<1>9. CASE \/ ReadPicture \/ ReadSize \/ ReadError
            \/ (\E call \in {"put", "get"} : CheckError(call)) \/ GetOut \/ DecIn \/ SinkGet
  BY <1>0, <1>9 DEF ReadPicture, ReadSize, ReadError, CheckError, GetOut, DecIn, SinkGet,
    FlagsOK, flags
<1>10. CASE FlushWake \/ CloseFlush \/ CloseJoin \/ UNCHANGED vars
  BY <1>0, <1>10 DEF FlushWake, CloseFlush, CloseJoin, vars, CodecFlush, ReleaseAll, FlagsOK,
    flags
<1>11. QED
  BY <1>1, <1>2, <1>3, <1>4, <1>5, <1>6, <1>7, <1>8, <1>9, <1>10, NextCases

\* Positions and handles keep to their values.
LEMMA ThreadsStep == IInv /\ [Next]_vars => ThreadsOK'
<1> SUFFICES ASSUME IInv, [Next]_vars PROVE ThreadsOK'
  OBVIOUS
<1>0. ThreadsOK /\ ThreadInv /\ MaxIn \in Nat
  BY MaxInAssumption DEF IInv, TypeOK, ThreadsOK, MaxInAssumption
<1>q. /\ decQ # <<>> => FqFirst(decQ) \in Frame
      /\ vencQ # <<>> => FqFirst(vencQ) \in Frame
  BY QueueFacts, GetFacts DEF IInv, TypeOK
<1>1. CASE DecLock \/ DecTop \/ DecWake \/ DecRead
  BY <1>0, <1>q, <1>1 DEF DecLock, DecTop, DecWake, DecRead, SetState, ThreadsOK, ThreadInv,
    decs, sinks, codec, engine
<1>2. CASE DecInner
  BY <1>0, <1>q, <1>2 DEF DecInner, SetState, SetStateAndSleep, ThreadsOK, ThreadInv, decs,
    sinks, codec, engine
<1>3. CASE DecRelease
  BY <1>0, <1>q, <1>3 DEF DecRelease, ThreadsOK, ThreadInv, decs, sinks, codec, engine
<1>4. CASE DecBack
  BY <1>0, <1>q, <1>4 DEF DecBack, ThreadsOK, ThreadInv, decs, sinks, codec, engine
<1>5. CASE SinkLock \/ SinkTop \/ SinkWake \/ SinkTimedOver
  BY <1>0, <1>q, <1>5 DEF SinkLock, SinkTop, SinkWake, SinkTimedOver, SetState, ThreadsOK,
    ThreadInv, decs, sinks, codec, engine
<1>6. CASE SinkInner
  BY <1>0, <1>q, <1>6 DEF SinkInner, SetState, SetStateAndSleep, ThreadsOK, ThreadInv, decs,
    sinks, codec, engine
<1>7. CASE SinkRender
  BY <1>0, <1>q, <1>7 DEF SinkRender, ThreadsOK, ThreadInv, decs, sinks, codec, engine
<1>8. CASE SinkBack
  BY <1>0, <1>q, <1>8 DEF SinkBack, ThreadsOK, ThreadInv, decs, sinks, codec, engine
<1>9. CASE ReadPicture
  BY <1>0, <1>q, <1>9 DEF ReadPicture, ThreadsOK, ThreadInv, decs, sinks, codec, engine
<1>10. CASE ReadSize \/ ReadError
  BY <1>0, <1>q, <1>10 DEF ReadSize, ReadError, ThreadsOK, ThreadInv, decs, sinks, codec, engine
<1>11. CASE \E call \in {"put", "get"} : CheckError(call)
  BY <1>0, <1>q, <1>11 DEF CheckError, ThreadsOK, ThreadInv, decs, sinks, codec, engine
<1>12. CASE (\E f \in Frame : PutOut(f)) \/ (\E f \in Frame : SinkPut(f))
  BY <1>0, <1>q, <1>12 DEF PutOut, SinkPut, ThreadsOK, ThreadInv, decs, sinks, codec, engine
<1>13. CASE GetOut \/ SinkGet
  BY <1>0, <1>q, <1>13 DEF GetOut, SinkGet, ThreadsOK, ThreadInv, decs, sinks, codec, engine
<1>14. CASE DecIn
  BY <1>0, <1>q, <1>14 DEF DecIn, ThreadsOK, ThreadInv, decs, sinks, codec, engine
<1>15. CASE FlushBegin \/ CloseFlush
  BY <1>0, <1>q, <1>15 DEF FlushBegin, CloseFlush, CodecFlush, SetState, ThreadsOK, ThreadInv,
    decs, sinks, codec, engine
<1>16. CASE FlushEnd \/ CloseJoin
  BY <1>0, <1>q, <1>16 DEF FlushEnd, CloseJoin, ReleaseAll, SetState, ThreadsOK, ThreadInv, decs,
    sinks, codec, engine
<1>17. CASE FlushTest \/ FlushWake \/ CloseBegin \/ UNCHANGED vars
  BY <1>0, <1>q, <1>17 DEF FlushTest, FlushWake, CloseBegin, vars, ThreadsOK, ThreadInv, decs,
    sinks, codec, engine
<1>18. QED
  BY <1>1, <1>2, <1>3, <1>4, <1>5, <1>6, <1>7, <1>8, <1>9, <1>10, <1>11, <1>12, <1>13, <1>14,
    <1>15, <1>16, <1>17, NextCases
\* The threads keep to their part.
LEMMA ThreadInvStep == IInv /\ [Next]_vars => ThreadInv'
<1> SUFFICES ASSUME IInv, [Next]_vars PROVE ThreadInv'
  OBVIOUS
<1>0. FlagsOK /\ ThreadsOK /\ ThreadInv /\ NoFrame \notin Frame
  BY FrameFacts DEF IInv, TypeOK, FlagsOK, ThreadsOK
<1>q. /\ decQ # <<>> => FqFirst(decQ) \in Frame
      /\ vencQ # <<>> => FqFirst(vencQ) \in Frame
  BY QueueFacts, GetFacts DEF IInv, TypeOK
<1>1. CASE DecLock
  BY <1>0, <1>q, <1>1 DEF DecLock, FlagsOK, ThreadsOK, ThreadInv, flags, decs, sinks, codec,
    engine
<1>2. CASE DecTop
  BY <1>0, <1>q, <1>2 DEF DecTop, SetState, FlagsOK, ThreadsOK, ThreadInv, flags, decs, sinks,
    codec, engine
<1>3. CASE DecWake
  BY <1>0, <1>q, <1>3 DEF DecWake, FlagsOK, ThreadsOK, ThreadInv, flags, decs, sinks, codec,
    engine
<1>4. CASE DecRead
  BY <1>0, <1>q, <1>4 DEF DecRead, FlagsOK, ThreadsOK, ThreadInv, flags, decs, sinks, codec,
    engine
<1>5. CASE DecInner
  BY <1>0, <1>q, <1>5 DEF DecInner, SetState, SetStateAndSleep, FlagsOK, ThreadsOK, ThreadInv,
    flags, decs, sinks, codec, engine
<1>6. CASE DecRelease
  BY <1>0, <1>q, <1>6 DEF DecRelease, FlagsOK, ThreadsOK, ThreadInv, flags, decs, sinks, codec,
    engine
<1>7. CASE DecBack
  BY <1>0, <1>q, <1>7 DEF DecBack, FlagsOK, ThreadsOK, ThreadInv, flags, decs, sinks, codec,
    engine
<1>8. CASE SinkLock
  BY <1>0, <1>q, <1>8 DEF SinkLock, FlagsOK, ThreadsOK, ThreadInv, flags, decs, sinks, codec,
    engine
<1>9. CASE SinkTop
  BY <1>0, <1>q, <1>9 DEF SinkTop, SetState, FlagsOK, ThreadsOK, ThreadInv, flags, decs, sinks,
    codec, engine
<1>10. CASE SinkWake
  BY <1>0, <1>q, <1>10 DEF SinkWake, FlagsOK, ThreadsOK, ThreadInv, flags, decs, sinks, codec,
    engine
<1>11. CASE SinkTimedOver
  BY <1>0, <1>q, <1>11 DEF SinkTimedOver, FlagsOK, ThreadsOK, ThreadInv, flags, decs, sinks,
    codec, engine
<1>12. CASE SinkInner
  BY <1>0, <1>q, <1>12 DEF SinkInner, SetState, SetStateAndSleep, FlagsOK, ThreadsOK, ThreadInv,
    flags, decs, sinks, codec, engine
<1>13. CASE SinkRender
  BY <1>0, <1>q, <1>13 DEF SinkRender, FlagsOK, ThreadsOK, ThreadInv, flags, decs, sinks, codec,
    engine
<1>14. CASE SinkBack
  BY <1>0, <1>q, <1>14 DEF SinkBack, FlagsOK, ThreadsOK, ThreadInv, flags, decs, sinks, codec,
    engine
<1>15. CASE ReadPicture \/ ReadSize \/ ReadError
  BY <1>0, <1>q, <1>15 DEF ReadPicture, ReadSize, ReadError, FlagsOK, ThreadsOK, ThreadInv,
    flags, decs, sinks, codec, engine
<1>16. CASE (\E call \in {"put", "get"} : CheckError(call)) \/ DecIn
  BY <1>0, <1>q, <1>16 DEF CheckError, DecIn, FlagsOK, ThreadsOK, ThreadInv, flags, decs, sinks,
    codec, engine
<1>17. CASE (\E f \in Frame : PutOut(f)) \/ (\E f \in Frame : SinkPut(f))
  BY <1>0, <1>q, <1>17 DEF PutOut, SinkPut, FlagsOK, ThreadsOK, ThreadInv, flags, decs, sinks,
    codec, engine
<1>18. CASE GetOut \/ SinkGet
  BY <1>0, <1>q, <1>18 DEF GetOut, SinkGet, FlagsOK, ThreadsOK, ThreadInv, flags, decs, sinks,
    codec, engine
<1>19. CASE FlushBegin
  BY <1>0, <1>q, <1>19 DEF FlushBegin, CodecFlush, SetState, FlagsOK, ThreadsOK, ThreadInv,
    flags, decs, sinks, codec, engine
<1>20. CASE CloseFlush
  BY <1>0, <1>q, <1>20 DEF CloseFlush, CodecFlush, FlagsOK, ThreadsOK, ThreadInv, flags, decs,
    sinks, codec, engine
<1>21. CASE FlushEnd
  BY <1>0, <1>q, <1>21 DEF FlushEnd, ReleaseAll, SetState, FlagsOK, ThreadsOK, ThreadInv, flags,
    decs, sinks, codec, engine
<1>22. CASE CloseJoin
  BY <1>0, <1>q, <1>22 DEF CloseJoin, ReleaseAll, FlagsOK, ThreadsOK, ThreadInv, flags, decs,
    sinks, codec, engine
<1>23. CASE FlushTest \/ FlushWake \/ CloseBegin
  BY <1>0, <1>q, <1>23 DEF FlushTest, FlushWake, CloseBegin, FlagsOK, ThreadsOK, ThreadInv,
    flags, decs, sinks, codec, engine
<1>24. CASE UNCHANGED vars
  BY <1>0, <1>q, <1>24 DEF vars, FlagsOK, ThreadsOK, ThreadInv, flags, decs, sinks, codec, engine
<1>25. QED
  BY <1>1, <1>2, <1>3, <1>4, <1>5, <1>6, <1>7, <1>8, <1>9, <1>10, <1>11, <1>12, <1>13, <1>14,
    <1>15, <1>16, <1>17, <1>18, <1>19, <1>20, <1>21, <1>22, <1>23, <1>24, NextCases

\* A flush has the codec to itself.
LEMMA FlushInvStep == IInv /\ [Next]_vars => FlushInv'
<1> SUFFICES ASSUME IInv, [Next]_vars PROVE FlushInv'
  OBVIOUS
<1>0. FlagsOK /\ ThreadsOK /\ ThreadInv /\ FlushInv /\ NoFrame \notin Frame
  BY FrameFacts DEF IInv, TypeOK, FlagsOK, ThreadsOK
<1>1. CASE DecLock \/ DecWake \/ DecRead
  BY <1>0, <1>1 DEF DecLock, DecWake, DecRead, FlagsOK, ThreadsOK, ThreadInv, FlushInv, flags,
    decs, sinks, codec, engine
<1>2. CASE DecTop
  BY <1>0, <1>2 DEF DecTop, SetState, FlagsOK, ThreadsOK, ThreadInv, FlushInv, flags, decs,
    sinks, codec, engine
<1>3. CASE DecInner
  BY <1>0, <1>3 DEF DecInner, SetState, SetStateAndSleep, FlagsOK, ThreadsOK, ThreadInv,
    FlushInv, flags, decs, sinks, codec, engine
<1>4. CASE DecRelease
  BY <1>0, <1>4 DEF DecRelease, FlagsOK, ThreadsOK, ThreadInv, FlushInv, flags, decs, sinks,
    codec, engine
<1>5. CASE DecBack
  BY <1>0, <1>5 DEF DecBack, FlagsOK, ThreadsOK, ThreadInv, FlushInv, flags, decs, sinks, codec,
    engine
<1>6. CASE SinkLock \/ SinkWake \/ SinkTimedOver
  BY <1>0, <1>6 DEF SinkLock, SinkWake, SinkTimedOver, FlagsOK, ThreadsOK, ThreadInv, FlushInv,
    flags, decs, sinks, codec, engine
<1>7. CASE SinkTop
  BY <1>0, <1>7 DEF SinkTop, SetState, FlagsOK, ThreadsOK, ThreadInv, FlushInv, flags, decs,
    sinks, codec, engine
<1>8. CASE SinkInner
  BY <1>0, <1>8 DEF SinkInner, SetState, SetStateAndSleep, FlagsOK, ThreadsOK, ThreadInv,
    FlushInv, flags, decs, sinks, codec, engine
<1>9. CASE SinkRender
  BY <1>0, <1>9 DEF SinkRender, FlagsOK, ThreadsOK, ThreadInv, FlushInv, flags, decs, sinks,
    codec, engine
<1>10. CASE SinkBack
  BY <1>0, <1>10 DEF SinkBack, FlagsOK, ThreadsOK, ThreadInv, FlushInv, flags, decs, sinks,
    codec, engine
<1>11. CASE ReadPicture
  BY <1>0, <1>11 DEF ReadPicture, FlagsOK, ThreadsOK, ThreadInv, FlushInv, flags, decs, sinks,
    codec, engine
<1>12. CASE ReadSize \/ ReadError
  BY <1>0, <1>12 DEF ReadSize, ReadError, FlagsOK, ThreadsOK, ThreadInv, FlushInv, flags, decs,
    sinks, codec, engine
<1>13. CASE \E call \in {"put", "get"} : CheckError(call)
  BY <1>0, <1>13 DEF CheckError, FlagsOK, ThreadsOK, ThreadInv, FlushInv, flags, decs, sinks,
    codec, engine
<1>14. CASE DecIn
  BY <1>0, <1>14 DEF DecIn, FlagsOK, ThreadsOK, ThreadInv, FlushInv, flags, decs, sinks, codec,
    engine
<1>15. CASE (\E f \in Frame : PutOut(f)) \/ (\E f \in Frame : SinkPut(f))
  BY <1>0, <1>15 DEF PutOut, SinkPut, FlagsOK, ThreadsOK, ThreadInv, FlushInv, flags, decs,
    sinks, codec, engine
<1>16. CASE GetOut \/ SinkGet
  BY <1>0, <1>16 DEF GetOut, SinkGet, FlagsOK, ThreadsOK, ThreadInv, FlushInv, flags, decs,
    sinks, codec, engine
<1>17. CASE FlushBegin
  BY <1>0, <1>17 DEF FlushBegin, CodecFlush, SetState, FlagsOK, ThreadsOK, ThreadInv, FlushInv,
    flags, decs, sinks, codec, engine
<1>18. CASE CloseFlush
  BY <1>0, <1>18 DEF CloseFlush, CodecFlush, FlagsOK, ThreadsOK, ThreadInv, FlushInv, flags,
    decs, sinks, codec, engine
<1>19. CASE FlushEnd
  BY <1>0, <1>19 DEF Still, FlushEnd, ReleaseAll, SetState, FlagsOK, ThreadsOK, ThreadInv, FlushInv,
    flags, decs, sinks, codec, engine
<1>20. CASE CloseJoin
  BY <1>0, <1>20 DEF CloseJoin, ReleaseAll, FlagsOK, ThreadsOK, ThreadInv, FlushInv, flags, decs,
    sinks, codec, engine
<1>21. CASE FlushTest \/ FlushWake
  BY <1>0, <1>21 DEF FlushTest, FlushWake, FlagsOK, ThreadsOK, ThreadInv, FlushInv, flags, decs,
    sinks, codec, engine
<1>22. CASE CloseBegin
  BY <1>0, <1>22 DEF CloseBegin, FlagsOK, ThreadsOK, ThreadInv, FlushInv, flags, decs, sinks,
    codec, engine
<1>23. CASE UNCHANGED vars
  BY <1>0, <1>23 DEF vars, FlagsOK, ThreadsOK, ThreadInv, FlushInv, flags, decs, sinks, codec,
    engine
<1>24. QED
  BY <1>1, <1>2, <1>3, <1>4, <1>5, <1>6, <1>7, <1>8, <1>9, <1>10, <1>11, <1>12, <1>13, <1>14,
    <1>15, <1>16, <1>17, <1>18, <1>19, <1>20, <1>21, <1>22, <1>23, NextCases

\* No wake-up is lost.
LEMMA WakeStep == IInv /\ [Next]_vars => NoLostWakeUp'
<1> SUFFICES ASSUME IInv, [Next]_vars PROVE NoLostWakeUp'
  OBVIOUS
<1>0. FlagsOK /\ ThreadInv /\ NoLostWakeUp
  BY DEF IInv, TypeOK, FlagsOK
<1>1. CASE DecLock \/ DecWake \/ DecRelease \/ DecRead
  BY <1>0, <1>1 DEF DecLock, DecWake, DecRelease, DecRead, FlagsOK, ThreadInv, NoLostWakeUp,
    queues, flags, decs, sinks, codec, engine
<1>2. CASE DecTop
  BY <1>0, <1>2 DEF DecTop, SetState, FlagsOK, ThreadInv, NoLostWakeUp, queues, flags, decs,
    sinks, codec, engine
<1>3. CASE DecInner
  BY <1>0, <1>3 DEF DecInner, SetState, SetStateAndSleep, FlagsOK, ThreadInv, NoLostWakeUp,
    queues, flags, decs, sinks, codec, engine
<1>4. CASE DecBack
  BY <1>0, <1>4 DEF DecBack, FlagsOK, ThreadInv, NoLostWakeUp, queues, flags, decs, sinks, codec,
    engine
<1>5. CASE SinkLock \/ SinkWake \/ SinkTimedOver \/ SinkRender
  BY <1>0, <1>5 DEF SinkLock, SinkWake, SinkTimedOver, SinkRender, FlagsOK, ThreadInv,
    NoLostWakeUp, queues, flags, decs, sinks, codec, engine
<1>6. CASE SinkTop
  BY <1>0, <1>6 DEF SinkTop, SetState, FlagsOK, ThreadInv, NoLostWakeUp, queues, flags, decs,
    sinks, codec, engine
<1>7. CASE SinkInner
  BY <1>0, <1>7 DEF SinkInner, SetState, SetStateAndSleep, FlagsOK, ThreadInv, NoLostWakeUp,
    queues, flags, decs, sinks, codec, engine
<1>8. CASE SinkBack
  BY <1>0, <1>8 DEF SinkBack, FlagsOK, ThreadInv, NoLostWakeUp, queues, flags, decs, sinks,
    codec, engine
<1>9. CASE ReadPicture \/ ReadSize \/ ReadError
  BY <1>0, <1>9 DEF ReadPicture, ReadSize, ReadError, FlagsOK, ThreadInv, NoLostWakeUp, queues,
    flags, decs, sinks, codec, engine
<1>10. CASE (\E call \in {"put", "get"} : CheckError(call)) \/ DecIn
  BY <1>0, <1>10 DEF CheckError, DecIn, FlagsOK, ThreadInv, NoLostWakeUp, queues, flags, decs,
    sinks, codec, engine
<1>11. CASE (\E f \in Frame : PutOut(f)) \/ (\E f \in Frame : SinkPut(f))
  BY <1>0, <1>11 DEF PutOut, SinkPut, FlagsOK, ThreadInv, NoLostWakeUp, queues, flags, decs,
    sinks, codec, engine
<1>12. CASE GetOut \/ SinkGet
  BY <1>0, <1>12 DEF GetOut, SinkGet, FlagsOK, ThreadInv, NoLostWakeUp, queues, flags, decs,
    sinks, codec, engine
<1>13. CASE FlushBegin
  BY <1>0, <1>13 DEF FlushBegin, CodecFlush, SetState, FlagsOK, ThreadInv, NoLostWakeUp, queues,
    flags, decs, sinks, codec, engine
<1>14. CASE CloseFlush \/ FlushWake
  BY <1>0, <1>14 DEF CloseFlush, FlushWake, CodecFlush, FlagsOK, ThreadInv, NoLostWakeUp, queues,
    flags, decs, sinks, codec, engine
<1>15. CASE FlushEnd
  BY <1>0, <1>15 DEF FlushEnd, ReleaseAll, SetState, FlagsOK, ThreadInv, NoLostWakeUp, queues,
    flags, decs, sinks, codec, engine
<1>16. CASE FlushTest
  BY <1>0, <1>16 DEF Still, FlushTest, FlagsOK, ThreadInv, NoLostWakeUp, queues, flags, decs, sinks,
    codec, engine
<1>17. CASE CloseBegin
  BY <1>0, <1>17 DEF CloseBegin, FlagsOK, ThreadInv, NoLostWakeUp, queues, flags, decs, sinks,
    codec, engine
<1>18. CASE CloseJoin
  BY <1>0, <1>18 DEF CloseJoin, ReleaseAll, FlagsOK, ThreadInv, NoLostWakeUp, queues, flags,
    decs, sinks, codec, engine
<1>19. CASE UNCHANGED vars
  BY <1>0, <1>19 DEF vars, FlagsOK, ThreadInv, NoLostWakeUp, queues, flags, decs, sinks, codec,
    engine
<1>20. QED
  BY <1>1, <1>2, <1>3, <1>4, <1>5, <1>6, <1>7, <1>8, <1>9, <1>10, <1>11, <1>12, <1>13, <1>14,
    <1>15, <1>16, <1>17, <1>18, <1>19, NextCases
\* The buffers that are tied to frames.
Lent == {f \in Frame : handle[f] = "lent"}

LEMMA LentFacts ==
  ASSUME IInv
  PROVE  IsFiniteSet(Lent) /\ Cardinality(Lent) \in Nat
<1>1. Lent \in SUBSET Frame
  BY DEF Lent
<1>2. QED
  BY <1>1, FrameFacts, FS_Subset, FS_CardinalityType

\* Each buffer that MediaCodec has lent is accounted for after the step too.
LEMMA BuffersStep == IInv /\ [Next]_vars => BuffersAccounted'
<1> SUFFICES ASSUME IInv, [Next]_vars PROVE BuffersAccounted'
  OBVIOUS
<1>0. ThreadsOK /\ ThreadInv /\ FlushInv /\ NoFrame \notin Frame
      /\ lent = Cardinality(Lent) + Unlent(dbuf)
  BY FrameFacts DEF IInv, TypeOK, ThreadsOK, BuffersAccounted, Lent
<1>a. ASSUME lent' = Cardinality(Lent') + Unlent(dbuf') PROVE BuffersAccounted'
  BY <1>a DEF BuffersAccounted, Lent, Unlent
<1>b. ASSUME Lent' = Lent, lent' = lent, Unlent(dbuf') = Unlent(dbuf) PROVE BuffersAccounted'
  BY <1>0, <1>a, <1>b
<1>c. ASSUME NEW f \in Frame, lent' = lent - Unlent(handle[f]), dbuf' = dbuf, Lent' = Lent \ {f}
      PROVE  BuffersAccounted'
  <2>1. Cardinality(Lent') = IF f \in Lent THEN Cardinality(Lent) - 1 ELSE Cardinality(Lent)
    BY <1>c, LentFacts, FS_RemoveElement
  <2>2. Unlent(handle[f]) = IF f \in Lent THEN 1 ELSE 0
    BY DEF Unlent, Lent
  <2>3. QED
    BY <1>0, <1>a, <1>c, <2>1, <2>2, LentFacts DEF Unlent
<1>d. ASSUME Lent' = {}, lent' = 0, dbuf' # "lent" PROVE BuffersAccounted'
  BY <1>a, <1>d, FS_EmptySet DEF Unlent
<1>1. CASE DecRelease
  <2>1. /\ dframe \in Frame /\ lent' = lent - Unlent(handle[dframe]) /\ dbuf' = dbuf
        /\ handle' = [handle EXCEPT ![dframe] = "none"]
    BY <1>0, <1>1 DEF DecRelease, ThreadsOK, ThreadInv
  <2>2. Lent' = Lent \ {dframe}
    BY <1>0, <2>1 DEF Lent, ThreadsOK
  <2>3. QED
    BY <1>c, <2>1, <2>2
<1>2. CASE SinkRender
  <2>1. /\ sframe \in Frame /\ lent' = lent - Unlent(handle[sframe]) /\ dbuf' = dbuf
        /\ handle' = [handle EXCEPT ![sframe] = IF @ = "lent" THEN "shown" ELSE @]
    BY <1>0, <1>2 DEF SinkRender, ThreadsOK, ThreadInv, decs
  <2>2. Lent' = Lent \ {sframe}
    BY <1>0, <2>1 DEF Lent, ThreadsOK
  <2>3. QED
    BY <1>c, <2>1, <2>2
<1>3. CASE DecBack /\ handle' # handle
  <2>1. /\ dframe \in Frame /\ handle[dframe] = "none" /\ lent' = lent /\ dbuf' = "none"
        /\ handle' = [handle EXCEPT ![dframe] = dbuf]
    BY <1>0, <1>3 DEF DecBack, ThreadsOK, ThreadInv, codec
  <2>2. CASE dbuf = "lent"
    <3>1. Lent' = Lent \cup {dframe} /\ dframe \notin Lent
      BY <1>0, <2>1, <2>2 DEF Lent, ThreadsOK
    <3>2. Cardinality(Lent') = Cardinality(Lent) + 1
      BY <3>1, LentFacts, FS_AddElement
    <3>3. QED
      BY <1>0, <1>a, <2>1, <2>2, <3>2, LentFacts DEF Unlent
  <2>3. CASE dbuf # "lent"
    <3>1. Lent' = Lent
      BY <1>0, <2>1, <2>3 DEF Lent, ThreadsOK
    <3>2. QED
      BY <1>b, <2>1, <2>3, <3>1 DEF Unlent
  <2>4. QED
    BY <2>2, <2>3
<1>4. CASE DecBack /\ handle' = handle
  <2>1. lent' = lent /\ dbuf' = "none"
    BY <1>4 DEF DecBack, codec
  <2>2. dbuf # "lent"
    BY <1>0, <1>4 DEF DecBack, ThreadsOK, ThreadInv, FlushInv
  <2>3. QED
    BY <1>4, <1>b, <2>1, <2>2 DEF Lent, Unlent
<1>5. CASE ReadPicture
  <2>1. lent' = lent + 1 /\ dbuf' = "lent" /\ dbuf = "none" /\ Lent' = Lent
    BY <1>0, <1>5 DEF ReadPicture, ThreadInv, Lent
  <2>2. QED
    BY <1>0, <1>a, <2>1, LentFacts DEF Unlent
<1>6. CASE FlushBegin \/ CloseFlush
  <2>1. /\ handle' = [f \in Frame |-> IF handle[f] = "lent" THEN "stale" ELSE handle[f]]
        /\ lent' = 0 /\ dbuf' # "lent"
    BY <1>0, <1>6 DEF FlushBegin, CloseFlush, CodecFlush, ThreadInv
  <2>2. Lent' = {}
    BY <2>1 DEF Lent
  <2>3. QED
    BY <1>d, <2>1, <2>2
<1>7. CASE FlushEnd \/ CloseJoin
  <2>1. handle' = [f \in Frame |-> "none"] /\ lent' = lent - Cardinality(Lent) /\ dbuf' = dbuf
    BY <1>7 DEF FlushEnd, CloseJoin, ReleaseAll, Lent, decs
  <2>2. dbuf = "none"
    BY <1>0, <1>7 DEF Still, FlushEnd, CloseJoin, ThreadInv, ThreadsOK
  <2>3. Lent' = {}
    BY <2>1 DEF Lent
  <2>4. QED
    BY <1>0, <1>d, <2>1, <2>2, <2>3, LentFacts DEF Unlent
<1>8. CASE DecTop \/ ReadError
  BY <1>0, <1>8, <1>b DEF DecTop, ReadError, ThreadInv, Lent, Unlent, codec
<1>9. CASE \/ DecLock \/ DecInner \/ DecWake \/ DecRead
           \/ SinkLock \/ SinkTop \/ SinkInner \/ SinkWake \/ SinkTimedOver \/ SinkBack \/ ReadSize
           \/ (\E call \in {"put", "get"} : CheckError(call)) \/ (\E f \in Frame : PutOut(f))
           \/ GetOut \/ DecIn \/ SinkGet \/ (\E f \in Frame : SinkPut(f))
           \/ FlushTest \/ FlushWake \/ CloseBegin \/ UNCHANGED vars
  <2>1. UNCHANGED <<handle, lent, dbuf>>
    BY <1>9 DEF DecLock, DecInner, DecWake, DecRead, SinkLock, SinkTop, SinkInner, SinkWake,
       SinkTimedOver, SinkBack, ReadSize, CheckError, PutOut, GetOut, DecIn, SinkGet, SinkPut,
       FlushTest, FlushWake, CloseBegin, decs, codec, vars
  <2>2. QED
    BY <1>b, <2>1 DEF Lent
<1>10. QED
  BY <1>1, <1>2, <1>3, <1>4, <1>5, <1>6, <1>7, <1>8, <1>9, NextCases

\* What a flush has made void does no harm after the step either.
LEMMA StaleStep == IInv /\ [Next]_vars => StaleHarmless'
<1> SUFFICES ASSUME IInv, [Next]_vars PROVE StaleHarmless'
  OBVIOUS
<1> DEFINE Stale == "stale" \in {handle[f] : f \in Frame} \/ dbuf = "stale"
<1>0. ThreadsOK /\ ThreadInv /\ FlushInv /\ (Stale => inside = 0 /\ lent = 0) /\ lent \in Nat
      /\ lent = Cardinality(Lent) + Unlent(dbuf) /\ Cardinality(Lent) \in Nat
  BY LentFacts DEF IInv, TypeOK, ThreadsOK, StaleHarmless, BuffersAccounted, Lent
<1>1. CASE FlushBegin \/ CloseFlush
  BY <1>1 DEF FlushBegin, CloseFlush, CodecFlush, StaleHarmless
<1>2. CASE FlushEnd \/ CloseJoin
  <2>1. ~Stale'
    BY <1>0, <1>2 DEF Still, FlushEnd, CloseJoin, ReleaseAll, ThreadInv, decs
  <2>2. QED
    BY <2>1 DEF StaleHarmless
<1>3. CASE DecIn
  BY <1>0, <1>3 DEF DecIn, FlushInv, StaleHarmless, decs
<1>4. CASE ReadPicture
  BY <1>0, <1>4 DEF ReadPicture, StaleHarmless
<1>5. CASE DecRelease \/ SinkRender
  <2>1. \E f \in Frame : lent' = lent - Unlent(handle[f]) /\ (Stale' => Stale) /\ inside' = inside
    BY <1>0, <1>5 DEF DecRelease, SinkRender, ThreadInv, ThreadsOK, decs
  <2>2. ASSUME NEW f \in Frame, handle[f] = "lent" PROVE lent > 0
    <3>1. f \in Lent
      BY <2>2 DEF Lent
    <3>2. Cardinality(Lent) # 0
      BY <3>1, LentFacts, FS_EmptySet
    <3>3. QED
      BY <1>0, <3>2 DEF Unlent
  <2>3. QED
    BY <1>0, <2>1, <2>2 DEF Unlent, StaleHarmless
<1>6. CASE DecBack
  <2>1. inside' = inside /\ lent' = lent /\ (Stale' => Stale)
    BY <1>0, <1>6 DEF DecBack, ThreadInv, ThreadsOK, codec
  <2>2. QED
    BY <1>0, <2>1 DEF StaleHarmless
<1>7. CASE \/ DecLock \/ DecTop \/ DecInner \/ DecWake \/ DecRead
           \/ SinkLock \/ SinkTop \/ SinkInner \/ SinkWake \/ SinkTimedOver \/ SinkBack
           \/ ReadSize \/ ReadError
           \/ (\E call \in {"put", "get"} : CheckError(call)) \/ (\E f \in Frame : PutOut(f))
           \/ GetOut \/ SinkGet \/ (\E f \in Frame : SinkPut(f))
           \/ FlushTest \/ FlushWake \/ CloseBegin \/ UNCHANGED vars
  <2>1. UNCHANGED <<handle, lent, inside>> /\ (dbuf' = "stale" => dbuf = "stale")
    BY <1>7 DEF DecLock, DecTop, DecInner, DecWake, DecRead, SinkLock, SinkTop, SinkInner, SinkWake,
       SinkTimedOver, SinkBack, ReadSize, ReadError, CheckError, PutOut, GetOut, SinkGet, SinkPut,
       FlushTest, FlushWake, CloseBegin, decs, codec, vars
  <2>2. QED
    BY <1>0, <2>1 DEF StaleHarmless
<1>8. QED
  BY <1>1, <1>2, <1>3, <1>4, <1>5, <1>6, <1>7, NextCases

\* What videodec_open leaves satisfies the invariant.
LEMMA InitInv == Init => IInv
<1> SUFFICES ASSUME Init PROVE IInv
  OBVIOUS
<1>1. frames \in Seq(Frame) /\ IsInjective(frames) /\ NoFrame \notin Frame /\ ToSet(frames) = Frame
  BY FrameFacts, FramesAssumption DEF FramesAssumption, Frame
<1>2. TypeOK
  <2>1. <<>> \in Seq(Frame)
    OBVIOUS
  <2>2. QueuesOK
    BY <1>1, <2>1 DEF Init, QueuesOK
  <2>3. FlagsOK
    BY DEF Init, FlagsOK
  <2>4. ThreadsOK /\ lent \in Nat
    BY DEF Init, ThreadsOK
  <2>5. QED
    BY <2>2, <2>3, <2>4 DEF TypeOK, QueuesOK, FlagsOK, ThreadsOK
<1>3. FramesConserved
  <2>1. places = <<(<<>>), (<<>>), (<<>>), frames, (<<>>), (<<>>)>>
    BY DEF Init, places, Hand
  <2>2. places \in [1 .. 6 -> Seq(Frame)] /\ 6 \in Nat
    BY <1>2, HandFacts, FrameFacts DEF TypeOK, places
  <2>3. ToSet(<<>>) = {} /\ IsInjective(<<>>)
    BY DEF ToSet, IsInjective
  <2>4. \A k, l \in 1 .. 6 : k # l => ToSet(places[k]) \cap ToSet(places[l]) = {}
    BY <2>1, <2>3
  <2>5. \A k \in 1 .. 6 : IsInjective(places[k])
    BY <1>1, <2>1, <2>3
  <2>6. \A x : x \in Frame \ held <=> \E k \in 1 .. 6 : x \in ToSet(places[k])
    BY <1>1, <2>1, <2>3 DEF Init
  <2>7. Partition(places, Frame \ held)
    BY <2>2, <2>4, <2>5, <2>6, PartitionMeans, Zenon
  <2>8. QED
    BY <2>7 DEF FramesConserved, places, Init
<1>4. BuffersAccounted
  <2>1. {f \in Frame : handle[f] = "lent"} = {}
    BY DEF Init
  <2>2. QED
    BY <2>1, FS_EmptySet DEF Init, BuffersAccounted, Unlent
<1>5. StaleHarmless /\ NoLostWakeUp /\ ThreadInv /\ FlushInv
  BY <1>1 DEF Init, StaleHarmless, NoLostWakeUp, ThreadInv, FlushInv
<1>6. QED
  BY <1>2, <1>3, <1>4, <1>5 DEF IInv

\* Every step keeps the invariant.
LEMMA StepInv == IInv /\ [Next]_vars => IInv'
<1> SUFFICES ASSUME IInv, [Next]_vars PROVE IInv'
  OBVIOUS
<1>1. QueuesOK' /\ FlagsOK' /\ ThreadsOK' /\ FramesConserved' /\ BuffersAccounted'
      /\ StaleHarmless' /\ NoLostWakeUp' /\ ThreadInv' /\ FlushInv'
  BY QueuesStep, FlagsStep, ThreadsStep, BuffersStep, StaleStep, WakeStep, ThreadInvStep, FlushInvStep
<1>2. lent' \in Nat
  <2>1. Lent' \in SUBSET Frame
    BY DEF Lent
  <2>2. Cardinality(Lent') \in Nat
    BY <2>1, FrameFacts, FS_Subset, FS_CardinalityType
  <2>3. lent' = Cardinality(Lent') + Unlent(dbuf)'
    BY <1>1 DEF BuffersAccounted, Lent
  <2>4. QED
    BY <2>2, <2>3 DEF Unlent
<1>3. TypeOK'
  BY <1>1, <1>2 DEF TypeOK, QueuesOK, FlagsOK, ThreadsOK
<1>4. QED
  BY <1>1, <1>3 DEF IInv

LEMMA Invariance == Spec => []IInv
BY InitInv, StepInv, PTL DEF Spec

-----------------------------------------------------------------------------
\* Every variable keeps to its values, whatever the engine calls when.
THEOREM TypeCorrect == Spec => []TypeOK
<1>1. IInv => TypeOK
  BY DEF IInv
<1>2. QED
  BY <1>1, Invariance, PTL

\* No flush, close, error or order of the threads loses a frame or puts one in
\* two places (frame_q.c, the moves of codec_sfdec2.c).
THEOREM FramesAreConserved == Spec => []FramesConserved
<1>1. IInv => FramesConserved
  BY DEF IInv
<1>2. QED
  BY <1>1, Invariance, PTL

\* MediaCodec's buffers: none is kept for ever and none given back twice
\* (frame_release, sfdec_buf_render, sfdec_flush).
THEOREM BuffersAreAccounted == Spec => []BuffersAccounted
<1>1. IInv => BuffersAccounted
  BY DEF IInv
<1>2. QED
  BY <1>1, Invariance, PTL

\* A handle that a flush made void is used at most while the codec has nothing
\* to which the number could belong.
THEOREM StaleIsHarmless == Spec => []StaleHarmless
<1>1. IInv => StaleHarmless
  BY DEF IInv
<1>2. QED
  BY <1>1, Invariance, PTL

\* None of the three sleeps through what it waits for.
THEOREM WakeUpsAreKept == Spec => []NoLostWakeUp
<1>1. IInv => NoLostWakeUp
  BY DEF IInv
<1>2. QED
  BY <1>1, Invariance, PTL

\* A flush takes the buffers off the frames while both threads stand still.
THEOREM ReleaseIsAlone == Spec => ReleaseAlone
<1>1. ASSUME IInv, [Next]_vars, cpc = "flush", cpc' = "idle"
      PROVE  /\ dpc \notin {"release", "enter", "reading", "back"}
             /\ spc \notin {"timed", "render", "back"}
  <2>1. CASE FlushEnd
    BY <1>1, <2>1 DEF Still, FlushEnd, IInv, ThreadInv
  <2>2. CASE ~FlushEnd
    BY <1>1, <2>2, NextCases DEF DecLock, DecTop, DecInner, DecWake, DecRelease, DecRead, DecBack,
       SinkLock, SinkTop, SinkInner, SinkWake, SinkTimedOver, SinkRender, SinkBack,
       ReadPicture, ReadSize, ReadError, CheckError, PutOut, GetOut, DecIn, SinkGet, SinkPut,
       FlushBegin, FlushTest, FlushWake, CloseBegin, CloseFlush, CloseJoin, engine, vars
  <2>3. QED
    BY <2>1, <2>2
<1>2. IInv /\ [Next]_vars =>
        [(cpc = "flush" /\ cpc' = "idle") =>
           /\ dpc \notin {"release", "enter", "reading", "back"}
           /\ spc \notin {"timed", "render", "back"}]_vars
  BY <1>1
<1>3. QED
  BY <1>2, Invariance, PTL DEF Spec, ReleaseAlone
=============================================================================
