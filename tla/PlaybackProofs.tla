---------------------------- MODULE PlaybackProofs ----------------------------
(***************************************************************************)
(* Theorems about Playback, for any files, any memory limit, any delay     *)
(* between sound and picture and any width of an int: type correctness,    *)
(* what has to be true when a gate opens, and that nothing passes another. *)
(***************************************************************************)
EXTENDS Playback, SequenceTheorems, TLAPS

-----------------------------------------------------------------------------
(* The inductive invariant. *)

\* The times of the sound: none, or from 0 on; none has been heard without one.
TimeInv ==
  /\ NoTime <= audioTime /\ NoTime <= aTime /\ aTime <= heard
  /\ audioTime = NoTime => heard = NoTime

\* Until the decoder gives the next picture, disp_q is empty from Show on; the one
\* that is put out has a time; and no picture comes before the last one.
OutInv ==
  /\ epc \in {"gate", "hold", "pass", "put", "await", "awaitmiss"} => disp = <<>>
  /\ epc \in {"gate", "hold", "pass", "put"} =>
       out[1] # NoTime /\ (vTime # NoTime => vTime <= out[1])
  /\ disp # <<>> /\ disp[1] # NoTime /\ vTime # NoTime => vTime <= disp[1]

\* Sound: while the gate is closed the time stays what the gate was told, and a
\* verdict stays true until it is carried out.
SoundInv ==
  /\ syncA /\ ~videoEnd =>
       /\ audioTime # NoTime => apc \in {"gate", "hold", "pass"}
       /\ aTime \in {NoTime, audioTime}
  /\ apc \in {"hold", "pass"} => aTime = audioTime /\ audioTime # NoTime /\ vTime # NoTime
  /\ apc = "pass" => AvDiff(vTime, aTime) >= 0
  /\ apc = "hold" /\ syncV /\ ~audioEnd => AvDiff(vTime, aTime) < 0

\* Picture: the same from the other side.
PictureInv ==
  /\ syncV /\ ~audioEnd /\ vTime # NoTime =>
       epc \in {"gate", "hold", "pass"} /\ vTime = out[1]
  /\ epc \in {"hold", "pass"} => vTime = out[1] /\ aTime # NoTime
  /\ epc = "pass" => AvDiff(vTime, heard) <= Early
  /\ epc = "hold" /\ syncA /\ ~videoEnd => AvDiff(vTime, aTime) > Early

\* The engine has no chunk before it has found a key frame.
KeyInv == needKey => now = <<>> /\ next = <<>>

Inv ==
  TypeOK /\ KeyInv /\ TimeInv /\ OutInv /\ SoundInv /\ PictureInv

-----------------------------------------------------------------------------
(* Times and sequences. *)

\* A time computed from a timestamp is a number, wrapped or not.
LEMMA TimesAreNumbers ==
  ASSUME NEW p \in Packets
  PROVE  GetAudioTime(p) \in Int /\ GetVideoTime(p) \in Int
<1>1. p.pts \in Int \cup {NoPts}
  BY DEF Packets, Packet
<1>2. \A x \in Int : Wrap(x) \in Int
  BY PlaybackAssumption DEF Wrap, IntMin
<1>3. \A x \in Int : Quotient(x, Speed) \in Int
  BY PlaybackAssumption DEF Quotient
<1>4. NoPtsValue \in Int /\ NoTime \in Int
  BY PlaybackAssumption DEF NoPtsValue, IntMin, NoTime
<1>5. /\ (IF p.pts = NoPts THEN NoPtsValue ELSE p.pts) - StartTime \in Int
      /\ (IF p.pts = NoPts THEN NoTime ELSE p.pts) - StartTime \in Int
  BY <1>1, <1>4, PlaybackAssumption
<1>6. QED
  BY <1>2, <1>3, <1>5 DEF GetAudioTime, GetVideoTime

\* A queue without or with one more packet, and its times.
LEMMA HeadFacts ==
  ASSUME NEW q \in Seq(Packets), q # <<>>
  PROVE  /\ Head(q) \in Packets /\ Tail(q) \in Seq(Packets) /\ Len(Tail(q)) = Len(q) - 1
         /\ Times(q) \in Seq(Int) /\ Times(Tail(q)) \in Seq(Int)
         /\ Times(q) = <<GetVideoTime(Head(q))>> \o Times(Tail(q))
<1>1. /\ Head(q) \in Packets /\ Tail(q) \in Seq(Packets) /\ Len(Tail(q)) = Len(q) - 1
      /\ Head(q) = q[1] /\ Len(q) \in Nat /\ Len(q) # 0 /\ DOMAIN q = 1 .. Len(q)
      /\ DOMAIN Tail(q) = 1 .. (Len(q) - 1)
      /\ \A i \in 1 .. (Len(q) - 1) : Tail(q)[i] = q[i + 1]
  OBVIOUS
<1>2. /\ \A i \in DOMAIN q : GetVideoTime(q[i]) \in Int
      /\ \A i \in DOMAIN Tail(q) : GetVideoTime(Tail(q)[i]) \in Int
  <2>1. (\A i \in DOMAIN q : q[i] \in Packets) /\ \A i \in DOMAIN Tail(q) : Tail(q)[i] \in Packets
    BY <1>1
  <2>2. QED
    BY <2>1, TimesAreNumbers
<1>3. /\ Times(q) \in Seq(Int) /\ Len(Times(q)) = Len(q)
      /\ \A i \in 1 .. Len(q) : Times(q)[i] = GetVideoTime(q[i])
  BY <1>1, <1>2 DEF Times
<1>4. /\ Times(Tail(q)) \in Seq(Int) /\ Len(Times(Tail(q))) = Len(q) - 1
      /\ \A i \in 1 .. (Len(q) - 1) : Times(Tail(q))[i] = GetVideoTime(q[i + 1])
  BY <1>1, <1>2 DEF Times
<1>5. Times(q) = <<GetVideoTime(q[1])>> \o Times(Tail(q))
  <2> DEFINE one == <<GetVideoTime(q[1])>>
             line == one \o Times(Tail(q))
  <2>1. one \in Seq(Int) /\ Len(one) = 1 /\ one[1] = GetVideoTime(q[1])
    BY <1>1, <1>2
  <2>2. /\ line \in Seq(Int) /\ Len(line) = Len(q)
        /\ \A i \in 1 .. Len(q) :
             line[i] = IF i <= 1 THEN GetVideoTime(q[1]) ELSE Times(Tail(q))[i - 1]
    <3> HIDE DEF one
    <3>1. /\ line \in Seq(Int) /\ Len(line) = Len(one) + Len(Times(Tail(q)))
          /\ \A i \in 1 .. Len(one) + Len(Times(Tail(q))) :
               line[i] = IF i <= Len(one) THEN one[i] ELSE Times(Tail(q))[i - Len(one)]
      BY <1>4, <2>1, ConcatProperties
    <3> HIDE DEF line
    <3>2. Len(one) + Len(Times(Tail(q))) = Len(q)
      <4>1. \A n \in Nat : 1 + (n - 1) = n
        OBVIOUS
      <4>2. QED
        BY <1>1, <1>4, <2>1, <4>1
    <3>3. \A i \in 1 .. Len(q) : i <= 1 => i = 1
      BY <1>1
    <3>4. QED
      BY <2>1, <3>1, <3>2, <3>3
  <2>3. \A i \in 1 .. Len(q) : Times(q)[i] = line[i]
    <3> HIDE DEF line
    <3> SUFFICES ASSUME NEW i \in 1 .. Len(q) PROVE Times(q)[i] = line[i]
      OBVIOUS
    <3>1. CASE i <= 1
      <4>1. i = 1
        BY <1>1, <3>1
      <4>2. QED
        BY <1>3, <2>2, <4>1
    <3>2. CASE ~(i <= 1)
      <4>1. i - 1 \in 1 .. (Len(q) - 1) /\ (i - 1) + 1 = i
        BY <1>1, <3>2
      <4>2. QED
        BY <1>3, <1>4, <2>2, <3>2, <4>1
    <3>3. QED
      BY <3>1, <3>2
  <2>4. QED
    <3> HIDE DEF line
    <3>1. Times(q) = line
      BY <1>3, <2>2, <2>3, SeqEqual
    <3>2. QED
      BY <3>1 DEF line
<1>6. QED
  BY <1>1, <1>3, <1>4, <1>5

LEMMA AppendFacts ==
  ASSUME NEW q \in Seq(Packets), NEW p \in Packets
  PROVE  /\ Append(q, p) \in Seq(Packets) /\ Len(Append(q, p)) = Len(q) + 1
         /\ Times(q) \in Seq(Int) /\ Times(Append(q, p)) = Append(Times(q), GetVideoTime(p))
<1> DEFINE r == Append(q, p)
<1>1. /\ r \in Seq(Packets) /\ Len(q) \in Nat /\ Len(r) = Len(q) + 1
      /\ DOMAIN q = 1 .. Len(q) /\ DOMAIN r = 1 .. (Len(q) + 1)
      /\ r[Len(q) + 1] = p /\ \A i \in 1 .. Len(q) : r[i] = q[i]
  OBVIOUS
<1>2. /\ GetVideoTime(p) \in Int
      /\ \A i \in DOMAIN q : GetVideoTime(q[i]) \in Int
      /\ \A i \in DOMAIN r : GetVideoTime(r[i]) \in Int
  BY <1>1, TimesAreNumbers
<1>3. /\ Times(q) \in Seq(Int) /\ Len(Times(q)) = Len(q)
      /\ \A i \in 1 .. Len(q) : Times(q)[i] = GetVideoTime(q[i])
  BY <1>1, <1>2 DEF Times
<1>4. /\ Times(r) \in Seq(Int) /\ Len(Times(r)) = Len(q) + 1
      /\ \A i \in 1 .. (Len(q) + 1) : Times(r)[i] = GetVideoTime(r[i])
  BY <1>1, <1>2 DEF Times
<1>5. Times(r) = Append(Times(q), GetVideoTime(p))
  BY <1>1, <1>2, <1>3, <1>4
<1>6. QED
  BY <1>1, <1>3, <1>5

\* A line of at most one that is not empty has one.
LEMMA OneFacts ==
  ASSUME NEW q \in OneTime, q # <<>>
  PROVE  q = <<q[1]>> /\ q[1] \in Int /\ Len(q) = 1 /\ Tail(q) = <<>>
<1>1. q \in Seq(Int) /\ Len(q) <= 1
  BY DEF OneTime
<1>2. Len(q) \in Nat \ {0}
  BY <1>1, EmptySeq
<1>3. Len(q) = 1
  <2>1. \A n \in Nat \ {0} : n <= 1 => n = 1
    OBVIOUS
  <2>2. QED
    BY <1>1, <1>2, <2>1
<1>4. q[1] \in Int
  BY <1>1, <1>3
<1>5. q = <<q[1]>>
  <2>1. /\ <<q[1]>> \in Seq(Int) /\ Len(<<q[1]>>) = 1
        /\ \A i \in 1 .. 1 : q[i] = <<q[1]>>[i]
    BY <1>4
  <2>2. QED
    BY <1>1, <1>3, <2>1, SeqEqual
<1>6. Tail(q) = <<>>
  <2>1. Tail(q) \in Seq(Int) /\ Len(Tail(q)) = 0
    BY <1>1, <1>2, <1>3, HeadTailProperties
  <2>2. QED
    BY <2>1, EmptySeq
<1>7. QED
  BY <1>3, <1>4, <1>5, <1>6

-----------------------------------------------------------------------------
(* Type correctness. *)

LEMMA NextCases ==
  ASSUME [Next]_vars
  PROVE  \/ ParsePacket \/ ParseEnd
         \/ GetAudio \/ AudioMiss \/ DropAudio \/ TakeAudio
         \/ AudioGate \/ AudioHold \/ AudioPass \/ PlayAudio
         \/ Fetch \/ FetchMiss \/ CheckEnd \/ Show \/ VideoGate \/ VideoHold \/ VideoPass
         \/ Put \/ Prefetch \/ PrefetchMiss \/ TakePicture
         \/ UNCHANGED vars
BY DEF Next, Parser, Audio, Engine

\* Which variables a thread leaves alone.
LEMMA EngineLeaves ==
  ASSUME Fetch \/ FetchMiss \/ CheckEnd \/ Show \/ VideoGate \/ VideoHold \/ VideoPass
           \/ Put \/ Prefetch \/ PrefetchMiss \/ TakePicture
  PROVE  UNCHANGED <<file, aq, parseEnd, apc, achunk, audioTime, audioEnd, aTime, heard>>
BY DEF Fetch, FetchMiss, CheckEnd, Show, VideoGate, VideoHold, VideoPass, Put, Prefetch,
       PrefetchMiss, TakePicture, parser, audio, gates

LEMMA AudioLeaves ==
  ASSUME GetAudio \/ AudioMiss \/ DropAudio \/ TakeAudio \/ AudioGate \/ AudioHold
           \/ AudioPass \/ PlayAudio
  PROVE  UNCHANGED <<file, vq, parseEnd, needKey, epc, now, next, dec, disp, out, videoEnd,
                     streamEnd, vTime>>
BY DEF GetAudio, AudioMiss, DropAudio, TakeAudio, AudioGate, AudioHold, AudioPass, PlayAudio,
       parser, engine, gates

LEMMA ParserLeaves ==
  ASSUME ParsePacket \/ ParseEnd
  PROVE  UNCHANGED <<audio, engine, gates>>
BY DEF ParsePacket, ParseEnd

LEMMA QueueTypeStep == TypeOK /\ [Next]_vars => QueueType'
<1> SUFFICES ASSUME TypeOK, [Next]_vars PROVE QueueType'
  OBVIOUS
<1>0. /\ Buffer \in Nat /\ QueueType
      /\ Len(aq) \in Nat /\ Len(vq) \in Nat
  BY PlaybackAssumption DEF TypeOK, QueueType
<1>1. CASE ParsePacket
  <2>1. /\ Head(file) \in Packets /\ Tail(file) \in Seq(Packets)
        /\ Len(aq) + Len(vq) <= Buffer
    BY <1>0, <1>1 DEF ParsePacket, Full, QueueType
  <2>2. \A q \in Seq(Packets) : /\ Append(q, Head(file)) \in Seq(Packets)
                                 /\ Len(Append(q, Head(file))) = Len(q) + 1
    BY <2>1
  <2>3. aq' \in Seq(Packets) /\ vq' \in Seq(Packets) /\ Len(aq') + Len(vq') <= Buffer + 1
    <3>1. CASE aq' = Append(aq, Head(file)) /\ vq' = vq
      BY <1>0, <2>1, <2>2, <3>1 DEF QueueType
    <3>2. CASE vq' = Append(vq, Head(file)) /\ aq' = aq
      BY <1>0, <2>1, <2>2, <3>2 DEF QueueType
    <3>3. QED
      BY <1>1, <3>1, <3>2 DEF ParsePacket
  <2>4. QED
    BY <1>0, <1>1, <2>1, <2>3 DEF ParsePacket, QueueType
<1>2. CASE ParseEnd
  BY <1>0, <1>2 DEF ParseEnd, QueueType
<1>3. CASE GetAudio
  <2>1. CASE needKey \/ aq = <<>>
    BY <1>0, <1>3, <2>1 DEF GetAudio, QueueType
  <2>2. CASE ~(needKey \/ aq = <<>>)
    <3>1. Tail(aq) \in Seq(Packets) /\ Len(Tail(aq)) = Len(aq) - 1
      BY <1>0, <2>2 DEF QueueType
    <3>2. aq' = Tail(aq) /\ UNCHANGED <<file, vq, parseEnd>>
      BY <1>3, <2>2 DEF GetAudio
    <3>3. QED
      BY <1>0, <3>1, <3>2 DEF QueueType
  <2>3. QED
    BY <2>1, <2>2
<1>4. CASE Fetch \/ Prefetch
  <2>1. CASE vq' = vq
    BY <1>0, <1>4, <2>1, EngineLeaves DEF QueueType
  <2>2. CASE vq # <<>> /\ vq' = Tail(vq)
    <3>1. Tail(vq) \in Seq(Packets) /\ Len(Tail(vq)) = Len(vq) - 1
      BY <1>0, <2>2 DEF QueueType
    <3>2. QED
      BY <1>0, <1>4, <2>2, <3>1, EngineLeaves DEF QueueType
  <2>3. QED
    BY <1>4, <2>1, <2>2 DEF Fetch, Prefetch, GetVideo
<1>5. CASE UNCHANGED <<file, aq, vq, parseEnd>>
  BY <1>0, <1>5 DEF QueueType
<1>6. QED
  BY <1>1, <1>2, <1>3, <1>4, <1>5, NextCases
     DEF AudioMiss, DropAudio, TakeAudio, AudioGate, AudioHold, AudioPass, PlayAudio, FetchMiss,
         CheckEnd, Show, VideoGate, VideoHold, VideoPass, Put, PrefetchMiss, TakePicture,
         vars, parser

LEMMA AudioTypeStep == TypeOK /\ [Next]_vars => AudioType'
<1> SUFFICES ASSUME TypeOK, [Next]_vars PROVE AudioType'
  OBVIOUS
<1>0. AudioType /\ QueueType
  BY DEF TypeOK
<1>1. CASE GetAudio
  <2>1. CASE needKey \/ aq = <<>>
    BY <1>0, <1>1, <2>1 DEF GetAudio, AudioType
  <2>2. CASE ~(needKey \/ aq = <<>>)
    <3>1. Head(aq) \in Packets
      BY <1>0, <2>2 DEF QueueType
    <3>2. achunk' = <<Head(aq)>> /\ apc' = "chunk" /\ UNCHANGED <<audioTime, audioEnd>>
      BY <1>1, <2>2 DEF GetAudio
    <3>3. achunk' \in Seq(Packets) /\ Len(achunk') <= 1 /\ achunk' # <<>>
      BY <3>1, <3>2
    <3>4. QED
      BY <1>0, <3>2, <3>3 DEF AudioType
  <2>3. QED
    BY <2>1, <2>2
<1>2. CASE AudioMiss
  BY <1>0, <1>2 DEF AudioMiss, AudioType
<1>3. CASE DropAudio \/ PlayAudio
  <2>1. achunk' = <<>> /\ apc' = "get" /\ UNCHANGED audioEnd /\ audioTime' \in Int
    BY <1>0, <1>3, PlaybackAssumption DEF DropAudio, PlayAudio, AudioType
  <2>2. achunk' \in Seq(Packets) /\ Len(achunk') <= 1
    BY <2>1
  <2>3. QED
    BY <1>0, <2>1, <2>2 DEF AudioType
<1>4. CASE TakeAudio
  <2>1. achunk[1] \in Packets
    BY <1>0, <1>4 DEF TakeAudio, AudioType
  <2>2. audioTime' \in Int
    BY <1>0, <1>4, <2>1, TimesAreNumbers DEF TakeAudio, AudioType
  <2>3. QED
    BY <1>0, <1>4, <2>2 DEF TakeAudio, AudioType
<1>5. CASE AudioGate
  BY <1>0, <1>5 DEF AudioGate, AudioVerdict, AudioType
<1>6. CASE AudioHold \/ AudioPass
  BY <1>0, <1>6 DEF AudioHold, AudioPass, AudioType
<1>7. CASE UNCHANGED <<apc, achunk, audioTime, audioEnd>>
  BY <1>0, <1>7 DEF AudioType
<1>8. QED
  BY <1>1, <1>2, <1>3, <1>4, <1>5, <1>6, <1>7, NextCases, EngineLeaves, ParserLeaves
     DEF vars, audio

LEMMA EngineTypeStep == TypeOK /\ [Next]_vars => EngineType'
<1> SUFFICES ASSUME TypeOK, [Next]_vars PROVE EngineType'
  OBVIOUS
<1>0. EngineType /\ <<>> \in OneTime
  BY DEF TypeOK, OneTime
<1>1. ASSUME vq # <<>>
      PROVE  <<GetVideoTime(Head(vq))>> \in OneTime /\ <<GetVideoTime(Head(vq))>> # <<>>
  <2>1. Head(vq) \in Packets
    BY <1>1 DEF TypeOK, QueueType
  <2>2. GetVideoTime(Head(vq)) \in Int
    BY <2>1, TimesAreNumbers
  <2>3. QED
    BY <2>2 DEF OneTime
<1>2. CASE Fetch
  <2>1. CASE next = <<>> /\ vq # <<>>
    <3>1. /\ epc' = "check" /\ needKey' \in {needKey, FALSE}
          /\ now' \in {now, <<GetVideoTime(Head(vq))>>}
          /\ next' \in {next, <<GetVideoTime(Head(vq))>>}
      BY <1>2, <2>1 DEF Fetch, GetVideo
    <3>2. QED
      BY <1>0, <1>1, <1>2, <2>1, <3>1 DEF Fetch, EngineType
  <2>2. CASE next = <<>> /\ vq = <<>>
    BY <1>0, <1>2, <2>2 DEF Fetch, EngineType
  <2>3. CASE next # <<>>
    BY <1>0, <1>2, <2>3 DEF Fetch, EngineType
  <2>4. QED
    BY <2>1, <2>2, <2>3
<1>3. CASE Prefetch
  <2>1. CASE vq # <<>>
    <3>1. /\ epc' = epc /\ needKey' \in {needKey, FALSE}
          /\ next' \in {next, <<GetVideoTime(Head(vq))>>}
      BY <1>3, <2>1 DEF Prefetch, GetVideo
    <3>2. QED
      BY <1>0, <1>1, <1>3, <2>1, <3>1 DEF Prefetch, EngineType
  <2>2. CASE vq = <<>>
    BY <1>0, <1>3, <2>2 DEF Prefetch, EngineType
  <2>3. QED
    BY <2>1, <2>2
<1>4. CASE FetchMiss \/ PrefetchMiss
  BY <1>0, <1>4 DEF FetchMiss, PrefetchMiss, EngineType
<1>5. CASE CheckEnd
  BY <1>0, <1>5 DEF CheckEnd, EngineType
<1>6. CASE Show
  BY <1>0, <1>6 DEF Show, EngineType
<1>7. CASE Put
  BY <1>0, <1>7 DEF Put, EngineType
<1>8. CASE TakePicture
  <2>1. now[1] \in Int /\ \A t \in Int : <<t>> \in OneTime
    <3>1. now \in OneTime /\ now # <<>>
      BY <1>0, <1>8 DEF TakePicture, EngineType
    <3>2. QED
      BY <3>1, OneFacts DEF OneTime
  <2>2. dec' \subseteq Int /\ disp' \in OneTime
    <3>0. NoTime \in Int
      BY DEF NoTime
    <3>1. dec \cup {now[1]} \subseteq Int
      BY <1>0, <2>1 DEF EngineType
    <3>2. CASE disp' = <<NoTime>> /\ dec' = dec \cup {now[1]}
      BY <2>1, <3>0, <3>1, <3>2
    <3>3. CASE \E time \in dec \cup {now[1]} :
                 disp' = <<time>> /\ dec' = (dec \cup {now[1]}) \ {time}
      BY <2>1, <3>1, <3>3
    <3>4. QED
      BY <1>8, <3>2, <3>3 DEF TakePicture
  <2>3. /\ epc' = "fetch" /\ now' = <<>> /\ epc = "await"
        /\ UNCHANGED <<needKey, next, out, videoEnd, streamEnd>>
    BY <1>8 DEF TakePicture
  <2>4. QED
    BY <1>0, <2>2, <2>3 DEF EngineType
<1>9. CASE VideoGate
  BY <1>0, <1>9 DEF VideoGate, VideoVerdict, EngineType
<1>10. CASE VideoHold \/ VideoPass
  BY <1>0, <1>10 DEF VideoHold, VideoPass, EngineType
<1>11. CASE UNCHANGED <<needKey, epc, now, next, dec, disp, out, videoEnd, streamEnd>>
  BY <1>0, <1>11 DEF EngineType
<1>12. QED
  BY <1>2, <1>3, <1>4, <1>5, <1>6, <1>7, <1>8, <1>9, <1>10, <1>11, NextCases, AudioLeaves,
     ParserLeaves DEF vars, engine

\* What is at the gate is a time.
LEMMA OutTime ==
  ASSUME TypeOK, epc \in {"gate", "hold", "pass", "put"}
  PROVE  out[1] \in Int /\ out # <<>>
<1>1. out \in Seq(Int) /\ Len(out) <= 1 /\ out # <<>>
  BY DEF TypeOK, EngineType, OneTime
<1>2. Len(out) = 1 /\ DOMAIN out = 1 .. 1
  <2>1. Len(out) \in Nat /\ Len(out) # 0 /\ DOMAIN out = 1 .. Len(out)
    BY <1>1
  <2>2. Len(out) = 1
    BY <1>1, <2>1
  <2>3. QED
    BY <2>1, <2>2
<1>3. out[1] \in Int
  BY <1>1, <1>2
<1>4. QED
  BY <1>1, <1>3

LEMMA GateTypeStep == TypeOK /\ [Next]_vars => GateType'
<1> SUFFICES ASSUME TypeOK, [Next]_vars PROVE GateType'
  OBVIOUS
<1>0. GateType /\ audioTime \in Int
  BY DEF TypeOK, AudioType
<1>1. CASE AudioGate \/ AudioHold \/ AudioPass
  BY <1>0, <1>1 DEF AudioGate, AudioHold, AudioPass, SyncTime, GateType
<1>2. CASE PlayAudio
  BY <1>0, <1>2, PlaybackAssumption DEF PlayAudio, SyncTime, GateType
<1>3. CASE VideoGate
  <2>1. out[1] \in Int
    BY <1>3, OutTime DEF VideoGate
  <2>2. QED
    BY <1>0, <1>3, <2>1 DEF VideoGate, GateType
<1>4. CASE VideoHold \/ VideoPass
  BY <1>0, <1>4 DEF VideoHold, VideoPass, GateType
<1>5. CASE UNCHANGED gates
  BY <1>0, <1>5 DEF gates, GateType
<1>6. QED
  BY <1>1, <1>2, <1>3, <1>4, <1>5, NextCases, ParserLeaves
     DEF GetAudio, AudioMiss, DropAudio, TakeAudio, Fetch, FetchMiss, CheckEnd, Show,
         Put, Prefetch, PrefetchMiss, TakePicture, vars

LEMMA InitType == Init => TypeOK
<1> SUFFICES ASSUME Init PROVE TypeOK
  OBVIOUS
<1>1. file \in Seq(Packets)
  BY PlaybackAssumption DEF Init, Packets
<1>2. <<>> \in OneTime
  BY DEF OneTime
<1>3. NoTime \in Int /\ Buffer \in Nat
  BY PlaybackAssumption DEF NoTime
<1>4. QueueType
  <2>1. aq = <<>> /\ vq = <<>> /\ parseEnd = FALSE
    BY DEF Init
  <2>2. aq \in Seq(Packets) /\ vq \in Seq(Packets) /\ Len(aq) = 0 /\ Len(vq) = 0
    BY <2>1
  <2>3. Len(aq) + Len(vq) <= Buffer + 1
    BY <1>3, <2>2
  <2>4. QED
    BY <1>1, <2>1, <2>2, <2>3 DEF QueueType
<1>5. AudioType
  <2>1. achunk = <<>> /\ apc = "get" /\ audioTime = NoTime /\ audioEnd = FALSE
    BY DEF Init
  <2>2. achunk \in Seq(Packets) /\ Len(achunk) <= 1
    BY <2>1
  <2>3. QED
    BY <1>3, <2>1, <2>2 DEF AudioType
<1>6. EngineType /\ GateType
  BY <1>2, <1>3 DEF Init, EngineType, GateType
<1>7. QED
  BY <1>4, <1>5, <1>6 DEF TypeOK

LEMMA TypeStep == TypeOK /\ [Next]_vars => TypeOK'
BY QueueTypeStep, AudioTypeStep, EngineTypeStep, GateTypeStep DEF TypeOK

\* The variables keep to their values.  Sound and picture together never take more
\* than one packet above the limit, and what the engine puts out it has.
THEOREM TypeCorrect == Spec => []TypeOK
<1>1. QED
  BY InitType, TypeStep, PTL DEF Spec

-----------------------------------------------------------------------------
(* The gates. *)

\* The ends are declared for good, and the gates do not close again.
LEMMA OneWay ==
  ASSUME TypeOK, [Next]_vars
  PROVE  /\ (audioEnd => audioEnd') /\ (videoEnd => videoEnd')
         /\ (syncA' => syncA) /\ (syncV' => syncV)
<1>0. CASE AudioPass \/ AudioHold
  BY <1>0 DEF AudioPass, AudioHold, engine
<1>1. CASE AudioMiss
  BY <1>1 DEF AudioMiss, engine, gates
<1>2. CASE FetchMiss \/ PrefetchMiss
  <2>1. videoEnd' = (videoEnd \/ parseEnd) /\ UNCHANGED <<audioEnd, syncA, syncV>>
    BY <1>2 DEF FetchMiss, PrefetchMiss, audio, gates
  <2>2. QED
    BY <2>1
<1>3. CASE VideoPass \/ VideoHold
  BY <1>3 DEF VideoPass, VideoHold, audio
<1>4. CASE UNCHANGED <<audioEnd, videoEnd, syncA, syncV>>
  BY <1>4
<1>5. QED
  BY <1>0, <1>1, <1>2, <1>3, <1>4, NextCases
     DEF ParsePacket, ParseEnd, GetAudio, DropAudio, TakeAudio, AudioGate, PlayAudio, Fetch,
         CheckEnd, Show, VideoGate, Put, Prefetch, TakePicture, vars, audio, engine, gates

LEMMA TimeStep == Inv /\ [Next]_vars => TimeInv'
<1> SUFFICES ASSUME Inv, [Next]_vars PROVE TimeInv'
  OBVIOUS
<1>0. /\ TimeInv /\ NoTime = -1
      /\ aTime \in Int /\ heard \in Int /\ audioTime \in Int
  BY DEF Inv, TypeOK, GateType, AudioType, NoTime
<1>1. CASE TakeAudio
  <2>1. achunk[1] \in Packets
    BY <1>1 DEF TakeAudio, Inv, TypeOK, AudioType
  <2>2. /\ GetAudioTime(achunk[1]) \in Int /\ UNCHANGED <<aTime, heard>>
        /\ audioTime' = audioTime \/ (audioTime' \in Int /\ audioTime' >= 0)
    BY <1>1, <2>1, TimesAreNumbers DEF TakeAudio, gates
  <2>3. QED
    BY <1>0, <2>2 DEF TimeInv
<1>2. CASE AudioGate
  BY <1>0, <1>2 DEF AudioGate, SyncTime, TimeInv
<1>3. CASE PlayAudio
  <2>1. CASE audioTime = NoTime
    BY <1>0, <1>3, <2>1 DEF PlayAudio, TimeInv
  <2>2. CASE audioTime # NoTime
    BY <1>0, <1>3, <2>2, PlaybackAssumption DEF PlayAudio, SyncTime, TimeInv
  <2>3. QED
    BY <2>1, <2>2
<1>4. CASE UNCHANGED <<audioTime, aTime, heard>>
  BY <1>0, <1>4 DEF TimeInv
<1>5. QED
  BY <1>1, <1>2, <1>3, <1>4, NextCases, EngineLeaves, ParserLeaves
     DEF GetAudio, AudioMiss, DropAudio, AudioHold, AudioPass, vars, audio, gates

LEMMA KeyStep == Inv /\ [Next]_vars => KeyInv'
<1> SUFFICES ASSUME Inv, [Next]_vars PROVE KeyInv'
  OBVIOUS
<1>0. KeyInv
  BY DEF Inv
<1>1. CASE Fetch
  BY <1>0, <1>1 DEF Fetch, GetVideo, KeyInv
<1>2. CASE Prefetch
  BY <1>0, <1>2 DEF Prefetch, GetVideo, KeyInv
<1>3. CASE TakePicture
  BY <1>0, <1>3 DEF TakePicture, KeyInv
<1>4. CASE UNCHANGED <<needKey, now, next>>
  BY <1>0, <1>4 DEF KeyInv
<1>5. QED
  BY <1>1, <1>2, <1>3, <1>4, NextCases, AudioLeaves, ParserLeaves
     DEF FetchMiss, CheckEnd, Show, VideoGate, VideoHold, VideoPass, Put, PrefetchMiss, vars,
         engine

LEMMA OutStep == Inv /\ [Next]_vars => OutInv'
<1> SUFFICES ASSUME Inv, [Next]_vars PROVE OutInv'
  OBVIOUS
<1>0. /\ OutInv /\ disp \in OneTime /\ vTime \in Int /\ now \in OneTime /\ dec \subseteq Int
  BY DEF Inv, TypeOK, EngineType, GateType
<1>1. CASE Show
  <2>1. disp' = <<>> /\ UNCHANGED vTime
    BY <1>1 DEF Show, gates
  <2>2. CASE epc' = "await"
    BY <2>1, <2>2 DEF OutInv
  <2>3. CASE epc' # "await"
    <3>1. out' = disp /\ disp # <<>> /\ disp # <<NoTime>>
      BY <1>1, <2>3 DEF Show
    <3>2. disp[1] # NoTime
      BY <1>0, <3>1, OneFacts
    <3>3. QED
      BY <1>0, <2>1, <3>1, <3>2 DEF OutInv
  <2>4. QED
    BY <2>2, <2>3
<1>2. CASE VideoGate
  <2>1. epc = "gate" /\ vTime' = out[1] /\ UNCHANGED <<disp, out>> /\ out[1] \in Int
    BY <1>2, OutTime DEF VideoGate, Inv
  <2>2. QED
    BY <1>0, <2>1 DEF OutInv
<1>3. CASE VideoHold \/ VideoPass \/ Put \/ Prefetch \/ PrefetchMiss
  <2>1. /\ epc \in {"hold", "pass", "put", "await", "awaitmiss"}
        /\ epc' \in {"gate", "put", "await", "awaitmiss"}
        /\ epc' \in {"gate", "put"} => epc \in {"hold", "pass"} /\ out' = out
        /\ UNCHANGED <<disp, vTime>>
    BY <1>3 DEF VideoHold, VideoPass, Put, Prefetch, PrefetchMiss, GetVideo, gates
  <2>2. QED
    BY <1>0, <2>1 DEF OutInv
<1>4. CASE Fetch \/ FetchMiss \/ CheckEnd
  <2>1. epc' \in {"fetch", "miss", "check", "show"} /\ UNCHANGED <<disp, vTime>>
    BY <1>4 DEF Fetch, FetchMiss, CheckEnd, gates
  <2>2. QED
    BY <1>0, <2>1 DEF OutInv
<1>5. CASE TakePicture
  <2>1. /\ epc' = "fetch" /\ UNCHANGED vTime
        /\ \/ disp' = <<NoTime>>
           \/ \E time \in dec \cup {now[1]} :
                (vTime = NoTime \/ vTime <= time) /\ disp' = <<time>>
    BY <1>5 DEF TakePicture, gates
  <2>2. disp'[1] # NoTime /\ vTime # NoTime => vTime <= disp'[1]
    BY <2>1
  <2>3. QED
    BY <2>1, <2>2 DEF OutInv
<1>6. CASE UNCHANGED <<epc, disp, out, vTime>>
  BY <1>0, <1>6 DEF OutInv
<1>7. QED
  BY <1>1, <1>2, <1>3, <1>4, <1>5, <1>6, NextCases, AudioLeaves, ParserLeaves DEF vars, engine, gates

\* What the picture's gate says of the picture at it: it comes no earlier than the last.
LEMMA ShownGrows ==
  ASSUME Inv, VideoGate
  PROVE  /\ vTime' = out[1] /\ vTime' # NoTime /\ vTime' \in Int
         /\ vTime # NoTime => vTime <= vTime'
BY OutTime DEF VideoGate, Inv, OutInv

\* The later the picture, the further it is ahead.
LEMMA DiffGrows ==
  ASSUME NEW early \in Int, NEW late \in Int, NEW sound \in Int, early <= late
  PROVE  AvDiff(early, sound) <= AvDiff(late, sound)
<1>1. Delay \in Int
  BY PlaybackAssumption
<1>2. early - sound + Delay <= late - sound + Delay
  BY <1>1
<1>3. QED
  BY <1>2 DEF AvDiff

\* The later the sound, the less the picture is ahead.
LEMMA DiffShrinks ==
  ASSUME NEW video \in Int, NEW early \in Int, NEW late \in Int, early <= late
  PROVE  AvDiff(video, late) <= AvDiff(video, early)
<1>1. Delay \in Int
  BY PlaybackAssumption
<1>2. video - late + Delay <= video - early + Delay
  BY <1>1
<1>3. QED
  BY <1>2 DEF AvDiff

LEMMA SoundStep == Inv /\ [Next]_vars => SoundInv'
<1> SUFFICES ASSUME Inv, [Next]_vars PROVE SoundInv'
  OBVIOUS
<1>0. /\ SoundInv /\ PictureInv /\ NoTime \in Int
      /\ vTime \in Int /\ aTime \in Int /\ audioTime \in Int /\ Delay \in Int
  BY PlaybackAssumption DEF Inv, TypeOK, GateType, AudioType, NoTime
<1>1. CASE GetAudio \/ AudioMiss \/ DropAudio
  <2>1. /\ apc \in {"get", "miss", "chunk"} /\ apc' \in {"get", "miss", "chunk"}
        /\ UNCHANGED <<audioTime, syncA, videoEnd, aTime>>
    BY <1>1 DEF GetAudio, AudioMiss, DropAudio, engine, gates
  <2>2. QED
    BY <1>0, <2>1 DEF SoundInv
<1>2. CASE PlayAudio
  <2>1. /\ apc = "play" /\ apc' = "get" /\ UNCHANGED <<syncA, videoEnd>>
        /\ audioTime = NoTime => UNCHANGED <<audioTime, aTime>>
    BY <1>2 DEF PlayAudio, engine
  <2>2. syncA /\ ~videoEnd => audioTime = NoTime
    BY <1>0, <2>1 DEF SoundInv
  <2>3. QED
    BY <1>0, <2>1, <2>2 DEF SoundInv
<1>3. CASE TakeAudio
  BY <1>0, <1>3 DEF TakeAudio, SoundInv, engine, gates
<1>4. CASE AudioGate
  <2>1. /\ aTime' = audioTime /\ apc' = AudioVerdict
        /\ UNCHANGED <<audioTime, syncA, videoEnd, vTime>>
    BY <1>4 DEF AudioGate, SyncTime, engine
  <2>2. /\ apc' \in {"play", "gate", "hold", "pass"}
        /\ syncA /\ ~videoEnd /\ audioTime # NoTime => apc' # "play"
        /\ apc' \in {"hold", "pass"} => audioTime # NoTime /\ vTime # NoTime
        /\ apc' = "pass" => ~(AvDiff(vTime, audioTime) < 0)
        /\ apc' = "hold" => AvDiff(vTime, audioTime) < 0
    BY <2>1 DEF AudioVerdict
  <2>3. QED
    BY <1>0, <2>1, <2>2 DEF SoundInv, AvDiff
<1>5. CASE AudioHold \/ AudioPass
  BY <1>0, <1>5 DEF AudioHold, AudioPass, SoundInv, engine
<1>6. CASE VideoGate
  <2>1. /\ UNCHANGED <<apc, audioTime, aTime, audioEnd, videoEnd, syncA, syncV>>
        /\ epc = "gate"
    BY <1>6 DEF VideoGate, audio
  <2>2. /\ vTime' \in Int /\ vTime' # NoTime
        /\ vTime # NoTime => vTime <= vTime'
        /\ syncV /\ ~audioEnd /\ vTime # NoTime => vTime' = vTime
    BY <1>0, <1>6, ShownGrows DEF PictureInv
  <2>3. apc = "pass" => AvDiff(vTime', aTime) >= 0
    <3>1. apc = "pass" => vTime # NoTime /\ AvDiff(vTime, aTime) >= 0
      BY <1>0 DEF SoundInv
    <3>2. CASE apc = "pass" /\ vTime <= vTime'
      <4>1. AvDiff(vTime, aTime) <= AvDiff(vTime', aTime)
        BY <1>0, <2>2, <3>2, DiffGrows
      <4>2. AvDiff(vTime, aTime) \in Int /\ AvDiff(vTime', aTime) \in Int
        BY <1>0, <2>2 DEF AvDiff
      <4>3. QED
        BY <3>1, <3>2, <4>1, <4>2
    <3>3. QED
      BY <2>2, <3>1, <3>2
  <2>4. apc = "hold" /\ syncV /\ ~audioEnd => AvDiff(vTime', aTime) < 0
    BY <1>0, <2>2 DEF SoundInv
  <2>5. QED
    BY <1>0, <2>1, <2>2, <2>3, <2>4 DEF SoundInv
<1>7. CASE UNCHANGED <<apc, audioTime, aTime, vTime>>
  <2>1. /\ (audioEnd => audioEnd') /\ (videoEnd => videoEnd')
        /\ (syncA' => syncA) /\ (syncV' => syncV)
    BY OneWay DEF Inv
  <2>2. QED
    BY <1>0, <1>7, <2>1 DEF SoundInv
<1>8. QED
  BY <1>1, <1>2, <1>3, <1>4, <1>5, <1>6, <1>7, NextCases, ParserLeaves, EngineLeaves
     DEF Fetch, FetchMiss, CheckEnd, Show, VideoHold, VideoPass, Put, Prefetch, PrefetchMiss,
         TakePicture, vars, audio, gates

LEMMA PictureStep == Inv /\ [Next]_vars => PictureInv'
<1> SUFFICES ASSUME Inv, [Next]_vars PROVE PictureInv'
  OBVIOUS
<1>0. /\ SoundInv /\ PictureInv /\ TimeInv /\ TimeInv' /\ NoTime = -1
      /\ vTime \in Int /\ aTime \in Int /\ heard \in Int /\ audioTime \in Int
      /\ Delay \in Int /\ Early \in Nat
  BY TimeStep, PlaybackAssumption DEF Inv, TypeOK, GateType, AudioType, NoTime
<1>1. CASE Fetch \/ FetchMiss \/ CheckEnd \/ Show \/ Put \/ Prefetch \/ PrefetchMiss \/ TakePicture
  <2>1. /\ epc \notin {"gate", "hold", "pass"}
        /\ epc' \in {"fetch", "miss", "check", "show", "gate", "await", "awaitmiss"}
        /\ UNCHANGED <<audioEnd, syncV, vTime>>
    BY <1>1 DEF Fetch, FetchMiss, CheckEnd, Show, Put, Prefetch, PrefetchMiss, TakePicture, audio,
                gates
  <2>2. QED
    BY <1>0, <2>1 DEF PictureInv
<1>2. CASE VideoGate
  <2>1. /\ UNCHANGED <<out, aTime, audioEnd, syncV>> /\ epc' = VideoVerdict /\ vTime' = out[1]
        /\ out[1] \in Int /\ heard' = heard
    BY <1>2, ShownGrows DEF VideoGate, audio
  <2>2. /\ epc' \in {"put", "gate", "hold", "pass"}
        /\ syncV /\ ~audioEnd => epc' # "put"
        /\ epc' \in {"hold", "pass"} => aTime # NoTime
        /\ epc' = "pass" => ~(AvDiff(out[1], aTime) > Early) /\ AvDiff(out[1], heard) <= Early
        /\ epc' = "hold" => AvDiff(out[1], aTime) > Early
    BY <1>0, <2>1 DEF VideoVerdict, TimeInv, AvDiff
  <2>3. vTime' = out'[1] /\ (epc' = "pass" => AvDiff(vTime', heard') <= Early)
    BY <2>1, <2>2
  <2>4. epc' \in {"hold", "pass"} => aTime' # NoTime
    BY <2>1, <2>2
  <2>5. epc' = "hold" => AvDiff(vTime', aTime') > Early
    BY <2>1, <2>2
  <2>6. syncV' /\ ~audioEnd' => epc' \in {"gate", "hold", "pass"}
    BY <2>1, <2>2
  <2>7. QED
    BY <2>3, <2>4, <2>5, <2>6 DEF PictureInv
<1>3. CASE VideoHold \/ VideoPass
  BY <1>0, <1>3 DEF VideoHold, VideoPass, PictureInv, audio
<1>4. CASE AudioGate \/ PlayAudio
  <2>1. /\ UNCHANGED <<epc, out, vTime, audioEnd, videoEnd, syncA, syncV>>
        /\ aTime' \in Int /\ heard' \in Int /\ heard <= heard'
        /\ aTime # NoTime => aTime' # NoTime
        /\ syncA /\ ~videoEnd /\ aTime # NoTime => aTime' = aTime
    <3>1. CASE AudioGate
      <4>1. /\ aTime' = audioTime /\ heard' = IF audioTime > heard THEN audioTime ELSE heard
            /\ UNCHANGED <<epc, out, vTime, audioEnd, videoEnd, syncA, syncV>>
        BY <3>1 DEF AudioGate, SyncTime, engine
      <4>2. syncA /\ ~videoEnd /\ aTime # NoTime => aTime' = aTime
        BY <1>0, <4>1 DEF SoundInv
      <4>3. QED
        BY <1>0, <4>1, <4>2 DEF TimeInv
    <3>2. CASE PlayAudio
      <4>1. /\ UNCHANGED <<epc, out, vTime, audioEnd, videoEnd, syncA, syncV>> /\ apc = "play"
            /\ audioTime = NoTime => UNCHANGED <<aTime, heard>>
        BY <3>2 DEF PlayAudio, engine
      <4>2. CASE audioTime = NoTime
        BY <1>0, <4>1, <4>2
      <4>3. CASE audioTime # NoTime
        <5>1. PICK length \in Lengths : SyncTime(audioTime + length)
          BY <3>2, <4>3 DEF PlayAudio
        <5>2. length \in Nat /\ ~(syncA /\ ~videoEnd)
          BY <1>0, <4>1, <4>3, PlaybackAssumption DEF SoundInv
        <5>3. QED
          BY <1>0, <4>1, <4>3, <5>1, <5>2 DEF SyncTime, TimeInv
      <4>4. QED
        BY <4>2, <4>3
    <3>3. QED
      BY <1>4, <3>1, <3>2
  <2>2. epc = "pass" => AvDiff(vTime, heard') <= Early
    <3>1. epc = "pass" => AvDiff(vTime, heard) <= Early
      BY <1>0 DEF PictureInv
    <3>2. AvDiff(vTime, heard') <= AvDiff(vTime, heard)
      BY <1>0, <2>1, DiffShrinks
    <3>3. AvDiff(vTime, heard') \in Int /\ AvDiff(vTime, heard) \in Int
      BY <1>0, <2>1 DEF AvDiff
    <3>4. QED
      BY <1>0, <3>1, <3>2, <3>3
  <2>3. QED
    BY <1>0, <2>1, <2>2 DEF PictureInv
<1>5. CASE UNCHANGED <<epc, out, vTime, aTime, heard>>
  <2>1. /\ (audioEnd => audioEnd') /\ (videoEnd => videoEnd')
        /\ (syncA' => syncA) /\ (syncV' => syncV)
    BY OneWay DEF Inv
  <2>2. QED
    BY <1>0, <1>5, <2>1 DEF PictureInv
<1>6. QED
  BY <1>1, <1>2, <1>3, <1>4, <1>5, NextCases, ParserLeaves, AudioLeaves
     DEF GetAudio, AudioMiss, DropAudio, TakeAudio, AudioHold, AudioPass, vars, engine, gates

-----------------------------------------------------------------------------
(* The theorems. *)

LEMMA InitInv == Init => Inv
<1> SUFFICES ASSUME Init PROVE Inv
  OBVIOUS
<1>1. TypeOK
  BY InitType
<1>2. /\ apc = "get" /\ epc = "fetch" /\ disp = <<>>
      /\ audioTime = NoTime /\ aTime = NoTime /\ vTime = NoTime /\ heard = NoTime
  BY DEF Init
<1>3. TimeInv
  BY <1>2 DEF TimeInv, NoTime
<1>4. KeyInv
  BY DEF Init, KeyInv
<1>5. OutInv /\ SoundInv /\ PictureInv
  BY <1>2 DEF OutInv, SoundInv, PictureInv
<1>6. QED
  BY <1>1, <1>3, <1>4, <1>5 DEF Inv

THEOREM Invariance == Spec => []Inv
<1>1. Inv /\ [Next]_vars => Inv'
  BY TypeStep, KeyStep, TimeStep, OutStep, SoundStep, PictureStep DEF Inv
<1>2. QED
  BY <1>1, InitInv, PTL DEF Spec

\* Only the step that finds the sound in time, or the picture ahead of it, lets sound go.
LEMMA SoundStarts ==
  ASSUME Inv, [Next]_vars, syncA, ~syncA', ~videoEnd
  PROVE  vTime # NoTime /\ aTime # NoTime /\ AvDiff(vTime, aTime) >= 0
<1>1. CASE AudioPass
  <2>1. apc = "pass"
    BY <1>1 DEF AudioPass
  <2>2. QED
    BY <2>1 DEF Inv, SoundInv
<1>2. CASE VideoHold
  <2>1. epc = "hold"
    BY <1>2 DEF VideoHold
  <2>2. vTime = out[1] /\ aTime # NoTime /\ AvDiff(vTime, aTime) > Early
    BY <2>1 DEF Inv, PictureInv
  <2>3. out[1] # NoTime
    BY <2>1 DEF Inv, OutInv
  <2>4. AvDiff(vTime, aTime) \in Int /\ Early \in Nat
    BY PlaybackAssumption DEF Inv, TypeOK, GateType, AvDiff
  <2>5. QED
    BY <2>2, <2>3, <2>4
<1>3. QED
  <2>1. syncA' # syncA
    OBVIOUS
  <2>2. QED
    BY <2>1, <1>1, <1>2, NextCases, ParserLeaves
       DEF GetAudio, AudioMiss, DropAudio, TakeAudio, AudioGate, AudioHold, PlayAudio, Fetch,
           FetchMiss, CheckEnd, Show, VideoGate, VideoPass, Put, Prefetch, PrefetchMiss,
           TakePicture, vars, gates

\* Only the step that finds the picture in time, or the sound ahead of it, lets the picture go.
LEMMA PictureStarts ==
  ASSUME Inv, [Next]_vars, syncV, ~syncV', ~audioEnd
  PROVE  vTime # NoTime /\ aTime # NoTime /\ AvDiff(vTime, heard) <= Early
<1>1. CASE VideoPass
  <2>1. epc = "pass"
    BY <1>1 DEF VideoPass
  <2>2. QED
    BY <2>1 DEF Inv, PictureInv, OutInv
<1>2. CASE AudioHold
  <2>1. apc = "hold"
    BY <1>2 DEF AudioHold
  <2>2. aTime = audioTime /\ audioTime # NoTime /\ vTime # NoTime /\ AvDiff(vTime, aTime) < 0
    BY <2>1 DEF Inv, SoundInv
  <2>3. AvDiff(vTime, heard) < 0
    BY <2>2, PlaybackAssumption DEF Inv, TypeOK, GateType, TimeInv, AvDiff
  <2>4. AvDiff(vTime, heard) \in Int /\ Early \in Nat
    BY PlaybackAssumption DEF Inv, TypeOK, GateType, AvDiff
  <2>5. QED
    BY <2>2, <2>3, <2>4
<1>3. QED
  <2>1. syncV' # syncV
    OBVIOUS
  <2>2. QED
    BY <2>1, <1>1, <1>2, NextCases, ParserLeaves
       DEF GetAudio, AudioMiss, DropAudio, TakeAudio, AudioGate, AudioPass, PlayAudio, Fetch,
           FetchMiss, CheckEnd, Show, VideoGate, VideoHold, Put, Prefetch, PrefetchMiss,
           TakePicture, vars, gates

\* Sound is let go only when the picture is there and the sound is not ahead of it:
\* whatever the other thread did between the verdict and the opening of the gate.
THEOREM SoundStartsInTime == Spec => SoundNotAhead
<1>1. Inv /\ [Next]_vars =>
        [syncA /\ ~syncA' /\ ~videoEnd
           => vTime # NoTime /\ aTime # NoTime /\ AvDiff(vTime, aTime) >= 0]_vars
  BY SoundStarts
<1>2. QED
  BY <1>1, Invariance, PTL DEF Spec, SoundNotAhead

\* The picture is let go only when the sound is there and has come up to it, but for
\* what the sink takes up, even if the next chunk has set the sound back meanwhile.
THEOREM PictureStartsInTime == Spec => PictureNotAhead
<1>1. Inv /\ [Next]_vars =>
        [syncV /\ ~syncV' /\ ~audioEnd
           => vTime # NoTime /\ aTime # NoTime /\ AvDiff(vTime, heard) <= Early]_vars
  BY PictureStarts
<1>2. QED
  BY <1>1, Invariance, PTL DEF Spec, PictureNotAhead

-----------------------------------------------------------------------------
(* The lines. *)

\* Times of up to one chunk, and a line behind them.
LEMMA LineFacts ==
  ASSUME NEW first \in OneTime, NEW line \in Seq(Int)
  PROVE  /\ first \o line \in Seq(Int)
         /\ first \o <<>> = first /\ <<>> \o line = line
         /\ first # <<>> => first \o line # <<>> /\ Tail(first \o line) = line
<1>1. first \in Seq(Int)
  BY DEF OneTime
<1>2. first \o line \in Seq(Int) /\ first \o <<>> = first /\ <<>> \o line = line
  BY <1>1, ConcatProperties, ConcatEmptySeq
<1>3. ASSUME first # <<>>
      PROVE  first \o line # <<>> /\ Tail(first \o line) = line
  <2> DEFINE all == first \o line
  <2>1. Len(first) = 1 /\ Len(line) \in Nat
    BY <1>3, OneFacts
  <2>2. /\ all \in Seq(Int) /\ Len(all) = 1 + Len(line)
        /\ \A i \in 1 .. 1 + Len(line) : all[i] = IF i <= 1 THEN first[i] ELSE line[i - 1]
    <3>1. /\ all \in Seq(Int) /\ Len(all) = Len(first) + Len(line)
          /\ \A i \in 1 .. Len(first) + Len(line) :
               all[i] = IF i <= Len(first) THEN first[i] ELSE line[i - Len(first)]
      BY <1>1, ConcatProperties
    <3> HIDE DEF all
    <3>2. QED
      BY <2>1, <3>1
  <2> HIDE DEF all
  <2>3. all # <<>>
    BY <2>1, <2>2
  <2>4. /\ Tail(all) \in Seq(Int) /\ Len(Tail(all)) = Len(line)
        /\ \A i \in 1 .. Len(line) : Tail(all)[i] = all[i + 1]
    <3>1. /\ Tail(all) \in Seq(Int) /\ Len(Tail(all)) = Len(all) - 1
          /\ \A i \in 1 .. Len(Tail(all)) : Tail(all)[i] = all[i + 1]
      BY <2>2, <2>3, HeadTailProperties
    <3>2. (1 + Len(line)) - 1 = Len(line)
      BY <2>1
    <3>3. QED
      BY <2>2, <3>1, <3>2
  <2>5. \A i \in 1 .. Len(line) : Tail(all)[i] = line[i]
    <3> SUFFICES ASSUME NEW i \in 1 .. Len(line) PROVE Tail(all)[i] = line[i]
      OBVIOUS
    <3>1. i + 1 \in 1 .. 1 + Len(line) /\ ~(i + 1 <= 1) /\ (i + 1) - 1 = i
      BY <2>1
    <3>2. QED
      BY <2>2, <2>4, <3>1
  <2>6. Tail(all) = line
    BY <2>4, <2>5, SeqEqual
  <2>7. QED
    BY <2>3, <2>6 DEF all
<1>4. QED
  BY <1>2, <1>3

LEMMA AppendBehind ==
  ASSUME NEW first \in Seq(Int), NEW line \in Seq(Int), NEW time \in Int
  PROVE  first \o Append(line, time) = Append(first \o line, time)
<1>0. first \o line \in Seq(Int)
  BY ConcatProperties
<1>1. Append(line, time) = line \o <<time>> /\ <<time>> \in Seq(Int)
  BY AppendIsConcat
<1>2. Append(first \o line, time) = (first \o line) \o <<time>>
  BY <1>0, AppendIsConcat
<1>3. (first \o line) \o <<time>> = first \o (line \o <<time>>)
  BY <1>1, ConcatAssociative
<1>4. QED
  BY <1>1, <1>2, <1>3

\* One time that comes behind a line.
LEMMA Behind ==
  ASSUME NEW line \in Seq(Int), NEW time \in Int
  PROVE  Onward(line, Append(line, time))
<1>1. /\ Append(line, time) # <<>>
      /\ Append(line, time)[Len(Append(line, time))] = time
  BY AppendProperties
<1>2. QED
  BY <1>1 DEF Onward

LEMMA DecoderLine ==
  ASSUME Inv, [Next]_vars
  PROVE  Onward(ToDecoder, ToDecoder')
<1>0. /\ now \in OneTime /\ next \in OneTime /\ now \in Seq(Int) /\ next \in Seq(Int)
      /\ vq \in Seq(Packets) /\ file \in Seq(Packets) /\ KeyInv
      /\ epc = "await" => now # <<>>
      /\ <<>> \in OneTime
  BY DEF Inv, TypeOK, EngineType, QueueType, OneTime
<1>1. Times(vq) \in Seq(Int)
  BY <1>0, TimesAreNumbers DEF Times
<1>2. \A line \in Seq(Int) : now \o next \o line = now \o (next \o line)
  <2>1. now \in Seq(Int) /\ next \in Seq(Int)
    BY <1>0
  <2>2. QED
    BY <2>1, ConcatAssociative
<1>3. CASE ParsePacket
  <2>1. Head(file) \in Packets /\ UNCHANGED <<now, next>>
    BY <1>0, <1>3 DEF ParsePacket, engine
  <2>2. CASE vq' = vq
    BY <2>1, <2>2 DEF ToDecoder, Onward, Times
  <2>3. CASE vq' = Append(vq, Head(file))
    <3> DEFINE time == GetVideoTime(Head(file))
    <3>1. time \in Int /\ Times(vq)' = Append(Times(vq), time)
      BY <1>0, <2>1, <2>3, AppendFacts, TimesAreNumbers DEF Times
    <3> HIDE DEF time
    <3>2. next \o Append(Times(vq), time) = Append(next \o Times(vq), time)
      BY <1>0, <1>1, <3>1, AppendBehind
    <3>3. next \o Times(vq) \in Seq(Int)
      BY <1>0, <1>1, LineFacts
    <3>4. now \o Append(next \o Times(vq), time) = Append(now \o (next \o Times(vq)), time)
      BY <1>0, <3>1, <3>3, AppendBehind
    <3>5. (now \o next) \o Append(Times(vq), time) = now \o (next \o Append(Times(vq), time))
      <4>1. Append(Times(vq), time) \in Seq(Int)
        BY <1>1, <3>1, AppendProperties
      <4>2. QED
        BY <1>2, <4>1
    <3>6. ToDecoder' = Append(ToDecoder, time)
      BY <1>1, <1>2, <2>1, <3>1, <3>2, <3>4, <3>5 DEF ToDecoder
    <3>7. ToDecoder \in Seq(Int)
      BY <1>0, <1>1, <1>2, <3>3, LineFacts DEF ToDecoder
    <3>8. QED
      BY <3>1, <3>6, <3>7, Behind
  <2>4. QED
    BY <1>3, <2>2, <2>3 DEF ParsePacket
<1>4. CASE (Fetch \/ Prefetch) /\ vq' # vq
  <2>1. next = <<>> /\ vq # <<>> /\ vq' = Tail(vq)
    BY <1>4 DEF Fetch, Prefetch, GetVideo
  <2> DEFINE time == GetVideoTime(Head(vq))
             rest == Times(Tail(vq))
  <2>2. /\ rest \in Seq(Int) /\ time \in Int /\ Times(vq) = <<time>> \o rest
        /\ Times(vq)' = rest /\ <<time>> \in OneTime /\ <<time>> # <<>>
    <3>1. Head(vq) \in Packets
      BY <1>0, <2>1
    <3>2. time \in Int
      BY <3>1, TimesAreNumbers
    <3>3. <<time>> \in OneTime /\ <<time>> # <<>>
      BY <3>2 DEF OneTime
    <3>4. QED
      BY <1>0, <2>1, <3>2, <3>3, HeadFacts DEF Times
  <2>3. now \o <<>> = now
    BY <1>0, <1>1, LineFacts
  <2>4. \/ now = <<>> /\ now' = <<>> /\ next' = <<>>
        \/ now = <<>> /\ now' = <<time>> /\ next' = <<>>
        \/ now' = now /\ next' = <<time>>
    BY <1>0, <1>4, <2>1 DEF Fetch, Prefetch, GetVideo, KeyInv
  <2> HIDE DEF time, rest
  <2>5. ToDecoder = now \o (<<time>> \o rest) /\ ToDecoder' = now' \o next' \o rest
    BY <2>1, <2>2, <2>3 DEF ToDecoder
  <2>6. /\ <<>> \o <<>> = <<>> /\ <<>> \o rest = rest /\ <<time>> \o <<>> = <<time>>
        /\ <<>> \o (<<time>> \o rest) = <<time>> \o rest
        /\ <<time>> \o rest # <<>> /\ Tail(<<time>> \o rest) = rest
    <3>1. <<time>> \o rest \in Seq(Int) /\ <<>> \in Seq(Int)
      BY <2>2, LineFacts
    <3>2. QED
      BY <1>0, <2>2, <3>1, LineFacts
  <2>7. CASE now = <<>> /\ now' = <<>> /\ next' = <<>>
    <3>1. ToDecoder = <<time>> \o rest /\ ToDecoder' = rest
      BY <2>5, <2>6, <2>7
    <3>2. QED
      BY <2>6, <3>1 DEF Onward
  <2>8. CASE now = <<>> /\ now' = <<time>> /\ next' = <<>>
    <3>1. ToDecoder = <<time>> \o rest /\ ToDecoder' = <<time>> \o rest
      BY <2>5, <2>6, <2>8
    <3>2. QED
      BY <3>1 DEF Onward
  <2>9. CASE now' = now /\ next' = <<time>>
    <3>1. (now \o <<time>>) \o rest = now \o (<<time>> \o rest)
      <4>1. now \in Seq(Int) /\ <<time>> \in Seq(Int) /\ rest \in Seq(Int)
        BY <1>0, <2>2
      <4>2. QED
        BY <4>1, ConcatAssociative
    <3>2. ToDecoder' = ToDecoder
      BY <2>5, <2>9, <3>1
    <3>3. QED
      BY <3>2 DEF Onward
  <2>10. QED
    BY <2>4, <2>7, <2>8, <2>9
<1>5. CASE Fetch /\ vq' = vq
  <2>1. \/ UNCHANGED <<now, next>>
        \/ now = <<>> /\ now' = next /\ next' = <<>>
        \/ vq # <<>> /\ vq' = Tail(vq)
    BY <1>5 DEF Fetch, GetVideo
  <2>2. CASE UNCHANGED <<now, next>>
    BY <1>5, <2>2 DEF ToDecoder, Onward, Times
  <2>3. CASE now = <<>> /\ now' = next /\ next' = <<>>
    <3>1. <<>> \o next = next /\ next \o <<>> = next
      BY <1>0, LineFacts
    <3>2. ToDecoder' = ToDecoder
      BY <1>5, <2>3, <3>1 DEF ToDecoder, Times
    <3>3. QED
      BY <3>2 DEF Onward
  <2>4. ~(vq # <<>> /\ vq' = Tail(vq))
    <3>1. vq # <<>> => Len(Tail(vq)) = Len(vq) - 1 /\ Len(vq) \in Nat
      BY <1>0, HeadFacts
    <3>2. \A n \in Nat : n - 1 # n
      OBVIOUS
    <3>3. QED
      BY <1>5, <3>1, <3>2
  <2>5. QED
    BY <2>1, <2>2, <2>3, <2>4
<1>6. CASE Prefetch /\ vq' = vq
  <2>1. ~(vq # <<>> /\ vq' = Tail(vq))
    <3>1. vq # <<>> => Len(Tail(vq)) = Len(vq) - 1 /\ Len(vq) \in Nat
      BY <1>0, HeadFacts
    <3>2. \A n \in Nat : n - 1 # n
      OBVIOUS
    <3>3. QED
      BY <1>6, <3>1, <3>2
  <2>2. UNCHANGED <<now, next>>
    BY <1>6, <2>1 DEF Prefetch, GetVideo
  <2>3. QED
    BY <1>6, <2>2 DEF ToDecoder, Onward, Times
<1>7. CASE TakePicture
  <2>1. now # <<>> /\ now' = <<>> /\ UNCHANGED <<next, vq>>
    BY <1>0, <1>7 DEF TakePicture, parser
  <2>2. next \o Times(vq) \in Seq(Int)
    BY <1>0, <1>1, LineFacts
  <2>3. now \o (next \o Times(vq)) # <<>> /\ Tail(now \o (next \o Times(vq))) = next \o Times(vq)
    BY <1>0, <2>1, <2>2, LineFacts
  <2>4. ToDecoder' = next \o Times(vq)
    BY <1>0, <2>1, LineFacts DEF ToDecoder, Times
  <2>5. QED
    BY <1>1, <1>2, <2>3, <2>4 DEF ToDecoder, Onward
<1>8. CASE UNCHANGED <<now, next, vq>>
  BY <1>8 DEF ToDecoder, Onward, Times
<1>9. QED
  BY <1>3, <1>4, <1>5, <1>6, <1>7, <1>8, NextCases, AudioLeaves
     DEF ParseEnd, FetchMiss, CheckEnd, Show, VideoGate, VideoHold, VideoPass, Put,
         PrefetchMiss, vars, parser, engine

LEMMA SinkLine ==
  ASSUME Inv, [Next]_vars
  PROVE  Onward(ToSink, ToSink')
<1>0. /\ out \in OneTime /\ disp \in OneTime /\ <<>> \in OneTime /\ disp \in Seq(Int)
      /\ epc \notin {"gate", "hold", "pass", "put"} => out = <<>>
      /\ epc \in {"gate", "hold", "pass", "put"} => out # <<>>
      /\ epc \in {"put", "await"} => disp = <<>>
  BY DEF Inv, TypeOK, EngineType, OutInv, OneTime
<1>1. CASE Show
  <2>1. out = <<>> /\ disp' = <<>> /\ out' \in {<<>>, disp}
    BY <1>0, <1>1 DEF Show
  <2>2. <<>> \o disp = disp /\ disp \o <<>> = disp /\ <<>> \o <<>> = <<>>
    BY <1>0, LineFacts
  <2>3. CASE out' = disp
    BY <2>1, <2>2, <2>3 DEF ToSink, Onward
  <2>4. CASE out' = <<>> /\ disp # <<>>
    <3>1. Tail(disp) = <<>>
      BY <1>0, <2>4, OneFacts
    <3>2. QED
      BY <2>1, <2>2, <2>4, <3>1 DEF ToSink, Onward
  <2>5. QED
    BY <2>1, <2>3, <2>4
<1>2. CASE Put
  <2>1. out # <<>> /\ disp = <<>> /\ out' = <<>> /\ disp' = <<>>
    BY <1>0, <1>2 DEF Put
  <2>2. out \o <<>> = out /\ <<>> \o <<>> = <<>> /\ Tail(out) = <<>>
    BY <1>0, <2>1, LineFacts, OneFacts
  <2>3. QED
    BY <2>1, <2>2 DEF ToSink, Onward
<1>3. CASE TakePicture
  <2>1. out = <<>> /\ disp = <<>> /\ out' = <<>>
    BY <1>0, <1>3 DEF TakePicture
  <2>2. disp' = <<disp'[1]>> /\ disp' # <<>> /\ Len(disp') = 1
    BY <1>3 DEF TakePicture
  <2>3. disp' \in OneTime
    BY EngineTypeStep DEF Inv, EngineType
  <2>4. <<>> \o disp' = disp' /\ <<>> \o <<>> = <<>>
    <3>1. disp' \in Seq(Int)
      BY <2>3 DEF OneTime
    <3>2. QED
      BY <1>0, <3>1, LineFacts
  <2>5. disp' = Append(<<>>, disp'[Len(disp')])
    BY <2>2
  <2>6. QED
    BY <2>1, <2>2, <2>4, <2>5 DEF ToSink, Onward
<1>4. CASE UNCHANGED <<out, disp>>
  BY <1>4 DEF ToSink, Onward
<1>5. QED
  BY <1>1, <1>2, <1>3, <1>4, NextCases, AudioLeaves, ParserLeaves
     DEF Fetch, FetchMiss, CheckEnd, VideoGate, VideoHold, VideoPass, Prefetch, PrefetchMiss,
         vars, engine

\* On the way to the decoder and from it to the sink nothing passes another, comes
\* twice or is lost, however far each of them runs ahead.
THEOREM RunsInOrder == Spec => InOrder
<1>1. Inv /\ [Next]_vars =>
        [Onward(ToDecoder, ToDecoder') /\ Onward(ToSink, ToSink')]_vars
  BY DecoderLine, SinkLine
<1>2. QED
  BY <1>1, Invariance, PTL DEF Spec, InOrder

=============================================================================
