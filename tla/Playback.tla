------------------------------- MODULE Playback -------------------------------
(***************************************************************************)
(* A file with sound and picture on its way through the stream: the parser *)
(* thread reads packets into two queues that share one memory limit        *)
(* (stream_parser_ffmpeg.c), the audio thread and the engine take them out *)
(* (stream_audio.c, stream_video.c) and meet at the gates that start sound *)
(* and picture together (stream_sync.c), and _check_end declares the end.  *)
(*                                                                         *)
(* The stream plays at normal speed from where it was opened: no pause, no *)
(* seek.  Packets come in any order of their times.  The decoder, which is *)
(* external, answers a video packet with one of the pictures it holds or   *)
(* with none; its pictures come in the order in which they are shown.      *)
(* There always is a frame, and all packets have the same size.            *)
(***************************************************************************)
EXTENDS Integers, Sequences

CONSTANTS
  Files,      \* the files: sequences of packets [stream, pts, key]
  NoPts,      \* the pts of a packet without a timestamp (video: and no dts)
  Buffer,     \* buffer_size, in packets
  Delay,      \* stream_sync_av_delay and av_delay, taken as constant
  Early,      \* how early a picture may start: 500 ms after the sink, else 0
  StartTime,  \* start_time of the file
  Speed,      \* the audio speed
  Lengths,    \* by how much a chunk of sound may move the time; 0 with vbr
  IntBound    \* 2^31 of the code: an int is in -IntBound .. IntBound - 1

Packet(pts) == [stream : {"audio", "video"}, pts : pts, key : BOOLEAN]

ASSUME PlaybackAssumption ==
  /\ Files \subseteq Seq(Packet(Int \cup {NoPts})) /\ NoPts \notin Int
  /\ Buffer \in Nat /\ Delay \in Int /\ Early \in Nat
  /\ StartTime \in Int /\ Speed \in Nat \ {0} /\ Lengths \subseteq Nat /\ IntBound \in Nat \ {0}

VARIABLES
  file,           \* what the parser reads, and what it has not read yet
  aq, vq,         \* the packets in aq and vq
  parseEnd,       \* s->audio_parse_end and s->video_parse_end
  needKey,        \* ff_p->need_key
  apc, achunk,    \* where the audio thread is, the chunk it has taken
  audioTime,      \* s->audio_time
  epc,            \* where the engine is
  now, next,      \* s->cdata_now and cdata_next: at most one chunk each
  dec,            \* the times of the pictures inside the decoder
  disp, out,      \* disp_q, and the picture the engine is putting out
  audioEnd, videoEnd, streamEnd,
  syncA, syncV,   \* s->sync_audio, sync_video: the gate is closed
  aTime, vTime,   \* s->sync_a_time, sync_v_time
  heard           \* history: the furthest sync_a_time there has been

parser == <<file, aq, vq, parseEnd>>
audio  == <<apc, achunk, audioTime, audioEnd>>
engine == <<needKey, epc, now, next, dec, disp, out, videoEnd, streamEnd>>
gates  == <<syncA, syncV, aTime, vTime, heard>>
vars   == <<parser, audio, engine, gates>>

IntMin  == -IntBound
Wrap(x) == ((x - IntMin) % (2 * IntBound)) + IntMin
Quotient(x, n) == IF x < 0 THEN -((-x) \div n) ELSE x \div n

\* STREAM_NO_PTS_VALUE; -1 is what it is in the engine and in the gates.
NoPtsValue == IntMin
NoTime     == -1

\* _get_audio_time and _get_video_time: the missing timestamp goes through the
\* same subtraction and division as the others.
GetAudioTime(p) ==
  Quotient(Wrap((IF p.pts = NoPts THEN NoPtsValue ELSE p.pts) - StartTime), Speed)
GetVideoTime(p) ==
  Quotient(Wrap((IF p.pts = NoPts THEN NoTime ELSE p.pts) - StartTime), Speed)

Packets == Packet(Int \cup {NoPts})
OneTime == {q \in Seq(Int) : Len(q) <= 1}

QueueType ==
  /\ file \in Seq(Packets) /\ aq \in Seq(Packets) /\ vq \in Seq(Packets)
  /\ Len(aq) + Len(vq) <= Buffer + 1
  /\ parseEnd \in BOOLEAN

AudioType ==
  /\ apc \in {"get", "miss", "chunk", "gate", "hold", "pass", "play"}
  /\ achunk \in Seq(Packets) /\ Len(achunk) <= 1
  /\ apc \in {"get", "miss"} <=> achunk = <<>>
  /\ audioTime \in Int /\ audioEnd \in BOOLEAN

EngineType ==
  /\ epc \in {"fetch", "miss", "check", "show", "gate", "hold", "pass", "put",
              "await", "awaitmiss"}
  /\ now \in OneTime /\ next \in OneTime /\ disp \in OneTime /\ out \in OneTime
  /\ epc \in {"show", "gate", "hold", "pass", "put", "await", "awaitmiss"} => now # <<>>
  /\ epc \in {"gate", "hold", "pass", "put"} <=> out # <<>>
  /\ dec \subseteq Int
  /\ needKey \in BOOLEAN /\ videoEnd \in BOOLEAN /\ streamEnd \in BOOLEAN

GateType ==
  /\ syncA \in BOOLEAN /\ syncV \in BOOLEAN
  /\ aTime \in Int /\ vTime \in Int /\ heard \in Int

TypeOK == QueueType /\ AudioType /\ EngineType /\ GateType

Init ==
  /\ file \in Files /\ aq = <<>> /\ vq = <<>> /\ parseEnd = FALSE /\ needKey = TRUE
  /\ apc = "get" /\ achunk = <<>> /\ audioTime = NoTime
  /\ epc = "fetch" /\ now = <<>> /\ next = <<>> /\ dec = {} /\ disp = <<>> /\ out = <<>>
  /\ audioEnd = FALSE /\ videoEnd = FALSE /\ streamEnd = FALSE
  /\ syncA = TRUE /\ syncV = TRUE /\ aTime = NoTime /\ vTime = NoTime
  /\ heard = NoTime

-----------------------------------------------------------------------------
(* The parser thread: _parse_once *)

\* Mutant: the limit is noticed one packet late.
FullLate == Len(aq) + Len(vq) > Buffer + 1

\* Sound and picture share buffer_size: one queue can use it up.
Full == Len(aq) + Len(vq) > Buffer

ParsePacket ==
  /\ ~Full /\ file # <<>>
  /\ file' = Tail(file)
  /\ \/ Head(file).stream = "audio" /\ aq' = Append(aq, Head(file)) /\ UNCHANGED vq
     \/ Head(file).stream = "video" /\ vq' = Append(vq, Head(file)) /\ UNCHANGED aq
  /\ UNCHANGED <<parseEnd, audio, engine, gates>>

ParseEnd ==
  /\ ~Full /\ file = <<>> /\ ~parseEnd
  /\ parseEnd' = TRUE
  /\ UNCHANGED <<file, aq, vq, audio, engine, gates>>

Parser == ParsePacket \/ ParseEnd

-----------------------------------------------------------------------------
(* The audio thread: _audio_decode *)

\* get_audio_cdata gives nothing until the engine has found a key frame.
GetAudio ==
  /\ apc = "get"
  /\ IF needKey \/ aq = <<>>
       THEN apc' = "miss" /\ UNCHANGED <<aq, achunk>>
       ELSE apc' = "chunk" /\ achunk' = <<Head(aq)>> /\ aq' = Tail(aq)
  /\ UNCHANGED <<file, vq, parseEnd, audioTime, audioEnd, engine, gates>>

\* There was no chunk: is this the end?
AudioMiss ==
  /\ apc = "miss"
  /\ audioEnd' = (audioEnd \/ parseEnd)
  /\ apc' = "get"
  /\ UNCHANGED <<parser, achunk, audioTime, engine, gates>>

\* Sound after the end of the picture and sound of the past is dropped.
DropAudio ==
  /\ apc = "chunk"
  /\ LET time == GetAudioTime(achunk[1])
     IN  videoEnd \/ (time # NoPtsValue /\ time < 0)
  /\ achunk' = <<>> /\ apc' = "get"
  /\ UNCHANGED <<parser, audioTime, audioEnd, engine, gates>>

\* Its time becomes the time of the sound, later or not than what had been added
\* to the last one's; the look of _set_audio_time at the gate is the first of
\* AudioGate.
TakeAudio ==
  /\ apc = "chunk"
  /\ ~videoEnd
  /\ LET time == GetAudioTime(achunk[1])
     IN  /\ time = NoPtsValue \/ time >= 0
         /\ audioTime' = IF time = NoPtsValue THEN audioTime ELSE time
  /\ apc' = "gate"
  /\ UNCHANGED <<parser, achunk, audioEnd, engine, gates>>

\* _stream_av_diff: how far the picture is ahead of the sound.
AvDiff(video, sound) == video - sound + Delay

\* Mutant: the end of the picture does not open the gate.
AudioVerdictStrict ==
  IF ~syncA \/ audioTime = NoTime THEN "play"
  ELSE IF vTime = NoTime THEN "gate"
  ELSE IF AvDiff(vTime, audioTime) < 0 THEN "hold" ELSE "pass"

\* Mutant: the gate does not wait for the first picture.
AudioVerdictAlone ==
  IF ~syncA \/ audioTime = NoTime \/ videoEnd THEN "play"
  ELSE IF vTime # NoTime /\ AvDiff(vTime, audioTime) < 0 THEN "hold" ELSE "pass"

\* stream_sync_audio: what it decides...
AudioVerdict ==
  IF ~syncA \/ audioTime = NoTime \/ videoEnd THEN "play"
  ELSE IF vTime = NoTime THEN "gate"
  ELSE IF AvDiff(vTime, audioTime) < 0 THEN "hold" ELSE "pass"

\* The time is stored, whatever is decided.
SyncTime(time) == aTime' = time /\ heard' = IF time > heard THEN time ELSE heard

AudioGate ==
  /\ apc = "gate"
  /\ SyncTime(audioTime)
  /\ apc' = AudioVerdict
  /\ UNCHANGED <<parser, achunk, audioTime, audioEnd, engine, syncA, syncV, vTime>>

\* ...and what it does then: sound ahead of the picture lets the picture start,
AudioHold ==
  /\ apc = "hold"
  /\ syncV' = FALSE
  /\ apc' = "gate"
  /\ UNCHANGED <<parser, achunk, audioTime, audioEnd, engine, syncA, aTime, vTime, heard>>

\* sound that is not ahead starts.
AudioPass ==
  /\ apc = "pass"
  /\ syncA' = FALSE
  /\ apc' = "play"
  /\ UNCHANGED <<parser, achunk, audioTime, audioEnd, engine, syncV, aTime, vTime, heard>>

\* The chunk is decoded, here in one go, and written to the sink.  By its length
\* the time of the sound moves on, and with it that of the gate, which is open or
\* does not ask.
PlayAudio ==
  /\ apc = "play"
  /\ IF audioTime = NoTime
       THEN UNCHANGED <<audioTime, aTime, heard>>
       ELSE \E length \in Lengths :
              audioTime' = audioTime + length /\ SyncTime(audioTime + length)
  /\ achunk' = <<>> /\ apc' = "get"
  /\ UNCHANGED <<parser, audioEnd, engine, syncA, syncV, vTime>>

Audio ==
  \/ GetAudio \/ AudioMiss \/ DropAudio \/ TakeAudio
  \/ AudioGate \/ AudioHold \/ AudioPass \/ PlayAudio

-----------------------------------------------------------------------------
(* The engine: _stream_player_sync *)

\* _get_video_cdata: packets before the first key frame are thrown away.
GetVideo(chunk) ==
  /\ vq' = Tail(vq)
  /\ IF needKey /\ ~Head(vq).key
       THEN UNCHANGED <<needKey, chunk>>
       ELSE needKey' = FALSE /\ chunk' = <<GetVideoTime(Head(vq))>>

\* Mutant: at the beginning of a turn a packet of the queue goes before the chunk
\* that was fetched in advance.
FetchPastNext ==
  /\ epc = "fetch"
  /\ \/ /\ vq # <<>> /\ (now = <<>> \/ next = <<>>)
        /\ IF now = <<>> THEN GetVideo(now) /\ UNCHANGED next
                         ELSE GetVideo(next) /\ UNCHANGED now
        /\ epc' = "check"
     \/ /\ next = <<>> /\ vq = <<>>
        /\ epc' = "miss"
        /\ UNCHANGED <<vq, needKey, now, next>>
     \/ /\ next # <<>> /\ (vq = <<>> \/ now # <<>>)
        /\ IF now = <<>> THEN now' = next /\ next' = <<>> ELSE UNCHANGED <<now, next>>
        /\ epc' = "check"
        /\ UNCHANGED <<vq, needKey>>
  /\ UNCHANGED <<file, aq, parseEnd, audio, dec, disp, out, videoEnd, streamEnd, gates>>

\* _get_next_chunk at the beginning of a turn.
Fetch ==
  /\ epc = "fetch"
  /\ \/ /\ next = <<>> /\ vq # <<>>
        /\ IF now = <<>> THEN GetVideo(now) /\ UNCHANGED next
                         ELSE GetVideo(next) /\ UNCHANGED now
        /\ epc' = "check"
     \/ /\ next = <<>> /\ vq = <<>>
        /\ epc' = "miss"
        /\ UNCHANGED <<vq, needKey, now, next>>
     \/ /\ next # <<>>
        /\ IF now = <<>> THEN now' = next /\ next' = <<>> ELSE UNCHANGED <<now, next>>
        /\ epc' = "check"
        /\ UNCHANGED <<vq, needKey>>
  /\ UNCHANGED <<file, aq, parseEnd, audio, dec, disp, out, videoEnd, streamEnd, gates>>

\* There was no packet: is this the end?
FetchMiss ==
  /\ epc = "miss"
  /\ videoEnd' = (videoEnd \/ parseEnd)
  /\ epc' = "check"
  /\ UNCHANGED <<parser, audio, needKey, now, next, dec, disp, out, streamEnd, gates>>

\* _check_end; a turn without a chunk is over.
CheckEnd ==
  /\ epc = "check"
  /\ streamEnd' = (streamEnd \/ (videoEnd /\ now = <<>> /\ next = <<>> /\ audioEnd))
  /\ epc' = IF streamEnd \/ now = <<>> THEN "fetch" ELSE "show"
  /\ UNCHANGED <<parser, audio, needKey, now, next, dec, disp, out, videoEnd, gates>>

\* While the decoder works on this chunk, output_frames puts the last picture
\* out; one without a time is discarded.
Show ==
  /\ epc = "show"
  /\ disp' = <<>>
  /\ IF disp = <<>> \/ disp = <<NoTime>>
       THEN epc' = "await" /\ UNCHANGED out
       ELSE epc' = "gate" /\ out' = disp
  /\ UNCHANGED <<parser, audio, needKey, now, next, dec, videoEnd, streamEnd, gates>>

\* Mutant: a picture ahead of the sound starts.
VideoVerdictEager ==
  IF ~syncV \/ audioEnd THEN "put"
  ELSE IF aTime = NoTime THEN "gate" ELSE "pass"

\* stream_sync_video: what it decides...
VideoVerdict ==
  IF ~syncV \/ audioEnd THEN "put"
  ELSE IF aTime = NoTime THEN "gate"
  ELSE IF AvDiff(out[1], aTime) > Early THEN "hold" ELSE "pass"

VideoGate ==
  /\ epc = "gate"
  /\ vTime' = out[1]
  /\ epc' = VideoVerdict
  /\ UNCHANGED <<parser, audio, needKey, now, next, dec, disp, out, videoEnd, streamEnd,
                 syncA, syncV, aTime, heard>>

\* ...and what it does then: a picture too far ahead lets the sound start,
VideoHold ==
  /\ epc = "hold"
  /\ syncA' = FALSE
  /\ epc' = "gate"
  /\ UNCHANGED <<parser, audio, needKey, now, next, dec, disp, out, videoEnd, streamEnd,
                 syncV, aTime, vTime, heard>>

\* one that is not starts.
VideoPass ==
  /\ epc = "pass"
  /\ syncV' = FALSE
  /\ epc' = "put"
  /\ UNCHANGED <<parser, audio, needKey, now, next, dec, disp, out, videoEnd, streamEnd,
                 syncA, aTime, vTime, heard>>

Put ==
  /\ epc = "put"
  /\ out' = <<>>
  /\ epc' = "await"
  /\ UNCHANGED <<parser, audio, needKey, now, next, dec, disp, videoEnd, streamEnd, gates>>

\* _get_next_chunk in the wait for the decoder.
Prefetch ==
  /\ epc = "await" /\ next = <<>>
  /\ IF vq # <<>> THEN GetVideo(next) /\ UNCHANGED epc
                  ELSE epc' = "awaitmiss" /\ UNCHANGED <<vq, needKey, next>>
  /\ UNCHANGED <<file, aq, parseEnd, audio, now, dec, disp, out, videoEnd, streamEnd, gates>>

PrefetchMiss ==
  /\ epc = "awaitmiss"
  /\ videoEnd' = (videoEnd \/ parseEnd)
  /\ epc' = "await"
  /\ UNCHANGED <<parser, audio, needKey, now, next, dec, disp, out, streamEnd, gates>>

\* The decoder is done with the chunk: the frame waits for the next turn, with a
\* picture not before the last one, or without any and so without a time.
TakePicture ==
  /\ epc = "await"
  /\ LET held == dec \cup {now[1]}
     IN  \/ disp' = <<NoTime>> /\ dec' = held
         \/ \E time \in held :
              /\ vTime = NoTime \/ vTime <= time
              /\ disp' = <<time>> /\ dec' = held \ {time}
  /\ now' = <<>>
  /\ epc' = "fetch"
  /\ UNCHANGED <<parser, audio, needKey, next, out, videoEnd, streamEnd, gates>>

Engine ==
  \/ Fetch \/ FetchMiss \/ CheckEnd \/ Show \/ VideoGate \/ VideoHold \/ VideoPass
  \/ Put \/ Prefetch \/ PrefetchMiss \/ TakePicture

Next == Parser \/ Audio \/ Engine

Spec == Init /\ [][Next]_vars

\* The three threads are scheduled and the decoder comes to an end.
FairSpec ==
  Spec /\ WF_vars(Parser) /\ WF_vars(Audio) /\ WF_vars(Engine) /\ SF_vars(TakePicture)

-----------------------------------------------------------------------------
(* Properties *)

\* Sound is let go only when the picture is there and the sound is not ahead of
\* it, even if the picture moved after the verdict (stream_sync_audio and
\* stream_sync_video: "both audio and video need to have a valid timestamp
\* before we can start").
SoundNotAhead ==
  [][syncA /\ ~syncA' /\ ~videoEnd
       => vTime # NoTime /\ aTime # NoTime /\ AvDiff(vTime, aTime) >= 0]_vars

\* The picture is let go only when the sound is there and has come up to the
\* picture, but for what the sink takes up.  Once it runs, sound can be set back
\* to the time of its next chunk between the engine's verdict and its store:
\* what counts is how far it has come.
PictureNotAhead ==
  [][syncV /\ ~syncV' /\ ~audioEnd
       => vTime # NoTime /\ aTime # NoTime /\ AvDiff(vTime, heard) <= Early]_vars

\* What is on its way to the decoder, and from there to the sink.
Times(q) == [i \in DOMAIN q |-> GetVideoTime(q[i])]
ToDecoder == now \o next \o Times(vq)
ToSink    == out \o disp

\* One is taken from the front, or one is added behind.
Onward(line, after) ==
  \/ after = line
  \/ line # <<>> /\ after = Tail(line)
  \/ after # <<>> /\ after = Append(line, after[Len(after)])

\* However far the engine fetches ahead of the decoder and the decoder runs ahead
\* of the display (cdata_now, cdata_next, disp_q), no packet and no picture passes
\* another, comes twice or is lost on the way.
InOrder == [][Onward(ToDecoder, ToDecoder') /\ Onward(ToSink, ToSink')]_vars

\* The three threads never wait for each other for good, whatever sound and
\* picture begin and end with: the file comes to its end, unless one queue has
\* used up the memory the other would need.
PlaysToEnd == <>streamEnd \/ <>[]Full

\* What the comment "check if both video and audio are at the end" says of
\* _check_end: when the stream ends there is no picture left, but for packets
\* that would be thrown away in the search for a key frame.
EndIsEnd ==
  streamEnd => /\ now = <<>> /\ next = <<>>
               /\ \A i \in DOMAIN vq : needKey /\ ~vq[i].key

\* What the comment "let data without timestamp pass!" says of the gates: sound
\* is not dropped for having no timestamp.
UntimedPasses ==
  [][apc = "chunk" /\ apc' = "get" /\ ~videoEnd => achunk[1].pts # NoPts]_vars
=============================================================================
