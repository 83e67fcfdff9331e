------------------------- MODULE StreamThreadsProofs -------------------------
(***************************************************************************)
(* Theorems about StreamThreads.  A call is a list of items, so what may   *)
(* still become of a state depends on what is ahead in the lists of the    *)
(* callers.  Ahead(q) is the set of marks the items of a list leave, read  *)
(* from its end: an item adds marks and takes others away.  Fit(q) says    *)
(* that every item of a list may stand before what follows it; one lemma   *)
(* for each call says that its list fits, and stays so down every branch.  *)
(* The invariant relates the marks of both callers to the threads and      *)
(* flags, whatever the two do at the same time.                            *)
(***************************************************************************)
EXTENDS StreamThreads, Integers, SequenceTheorems, TLAPS

-----------------------------------------------------------------------------
(* What is ahead in a list. *)

\* Ahead is: an ask of w at all; one to run; one of audio to run that does not
\* look whether audio is valid; code that relies on w being stopped, not asked to
\* stop before; an un-pause with a was_paused that is set already; a pause that
\* has looked already; the end of the stream; a resume; the start or end of the
\* sink within a pause; code that relies on engine being stopped; a wait.
Marks ==
  ({"ask", "run", "touch"} \X Workers) \cup ({"open", "hold"} \X Levels)
    \cup ({"again", "leave", "resume", "sink", "later", "wait"} \X {"all"})

Again  == <<"again", "all">>
Leave  == <<"leave", "all">>
Resumed == <<"resume", "all">>
Sink   == <<"sink", "all">>
Later  == <<"later", "all">>
Waited == <<"wait", "all">>

Adds(x) ==
  CASE x.do \in {"set", "try"} ->
         {<<"ask", x.of>>}
           \cup (IF x.to = "RUNNING" THEN {<<"run", x.of>>} ELSE {})
           \cup (IF x.to = "RUNNING" /\ x.do = "set" /\ x.of = "audio" THEN {Again} ELSE {})
           \cup (IF x.to = "EXIT" THEN {Leave} ELSE {})
    [] x.do = "wait"    -> {Waited}
    [] x.do = "touch"   -> ({"touch"} \X x.on) \cup (IF "engine" \in x.on THEN {Later} ELSE {})
    [] x.do = "hold"    -> {<<"hold", x.of>>}
    [] x.do = "unpause" -> {<<"open", x.of>>}
    [] x.do = "resume"  -> {Resumed}
    [] x.do \in {"sink", "drop"} -> {Sink}
    [] x.do = "branch"  ->
         ({"ask"} \X Workers)
           \cup (CASE x.of = "seek"   -> {"touch"} \X {"parser", "audio"}
                   [] x.of = "flush"  -> {"touch"} \X {"engine", "sub"}
                   [] x.of = "speed"  -> {<<"open", "call">>}
                   [] x.of = "drop"   -> {Sink}
                   [] x.of = "reseek" -> {})
    [] x.do \in {"join", "look", "play"} -> {}

Kills(x) ==
  CASE x.do \in {"set", "try"} -> IF x.to = "IDLE" THEN {<<"touch", x.of>>} ELSE {}
    [] x.do = "look" -> {<<"open", x.of>>, <<"hold", x.of>>}
    [] x.do = "hold" -> IF x.of = "call" THEN {Sink} ELSE {}
    [] x.do \notin {"set", "try", "look", "hold"} -> {}

Ahead(q) ==
  {k \in Marks : \E i \in 1 .. Len(q) :
     k \in Adds(q[i]) /\ \A j \in 1 .. i - 1 : k \notin Kills(q[j])}

NoHold(a) == \A l \in Levels : <<"hold", l>> \notin a

NoTouch(a) == \A w \in Workers : <<"touch", w>> \notin a

\* x may stand before a list that has the marks a.
Fits(x, a) ==
  /\ x.do \in {"set", "try"} =>
       /\ x.to = "IDLE" => <<"run", x.of>> \in a
       /\ x.do = "set" /\ x.of = "audio" /\ x.to = "IDLE" => Again \in a
       /\ x.to = "RUNNING" => <<"touch", x.of>> \notin a
       /\ x.to = "EXIT" => <<"ask", x.of>> \notin a /\ <<"touch", x.of>> \notin a
  /\ x.do = "touch" => ("engine" \in x.on /\ Sink \in a => "audio" \in x.on)
  /\ x.do = "hold" =>
       /\ <<"open", x.of>> \in a \/ Leave \in a
       /\ NoHold(a)
       /\ x.of = "call" /\ Sink \in a => Later \in a /\ <<"open", "seek">> \notin a
  /\ x.do = "unpause" => /\ <<"open", x.of>> \notin a /\ NoHold(a)
                         /\ x.of = "call" => Sink \notin a
  /\ x.do = "resume" => NoHold(a) /\ Sink \notin a
  /\ x.do = "sink" => Later \notin a
  /\ x.do = "drop" => Again \in a /\ Later \notin a
  /\ x.do = "branch" =>
       /\ x.of \in {"seek", "flush", "reseek"} => NoTouch(a)
       /\ x.of = "reseek" => <<"open", "seek">> \notin a /\ NoHold(a)
       /\ x.of = "flush" => Sink \notin a
       /\ x.of = "speed" => a = {}
       /\ x.of = "drop" => Again \in a /\ Later \notin a

After(q, i) == SubSeq(q, i + 1, Len(q))
Fit(q)      == \A i \in 1 .. Len(q) : Fits(q[i], Ahead(After(q, i)))

LEMMA NoMarks == Ahead(<<>>) = {} /\ Fit(<<>>)
BY DEF Ahead, Fit

\* The marks of a list, from those of its tail.
LEMMA AheadTail ==
  ASSUME NEW q \in Seq(Item), q # <<>>
  PROVE  Ahead(q) = (Adds(Head(q)) \cap Marks) \cup (Ahead(Tail(q)) \ Kills(Head(q)))
<1> DEFINE x == Head(q)
           r == Tail(q)
<1>1. /\ r \in Seq(Item) /\ x = q[1] /\ Len(q) \in Nat /\ Len(q) # 0 /\ Len(r) = Len(q) - 1
      /\ \A i \in 1 .. Len(r) : r[i] = q[i + 1]
  OBVIOUS
<1>2. ASSUME NEW k \in Ahead(q) PROVE k \in (Adds(x) \cap Marks) \cup (Ahead(r) \ Kills(x))
  <2>1. PICK i \in 1 .. Len(q) : k \in Adds(q[i]) /\ \A j \in 1 .. i - 1 : k \notin Kills(q[j])
    BY <1>2 DEF Ahead
  <2>2. k \in Marks
    BY <1>2 DEF Ahead
  <2>3. CASE i = 1
    BY <1>1, <2>1, <2>2, <2>3
  <2>4. CASE i # 1
    <3>1. i - 1 \in 1 .. Len(r) /\ r[i - 1] = q[i] /\ 1 \in 1 .. i - 1
      BY <1>1, <2>4
    <3>2. ASSUME NEW j \in 1 .. (i - 1) - 1 PROVE k \notin Kills(r[j])
      <4>1. j \in 1 .. Len(r) /\ j + 1 \in 1 .. i - 1 /\ r[j] = q[j + 1]
        BY <1>1, <3>2
      <4>2. QED
        BY <2>1, <4>1
    <3>3. k \in Ahead(r)
      BY <2>1, <2>2, <3>1, <3>2 DEF Ahead
    <3>4. k \notin Kills(x)
      BY <1>1, <2>1, <3>1
    <3>5. QED
      BY <3>3, <3>4
  <2>5. QED
    BY <2>3, <2>4
<1>3. ASSUME NEW k \in Adds(x) \cap Marks PROVE k \in Ahead(q)
  <2>1. 1 \in 1 .. Len(q) /\ \A j \in 1 .. 1 - 1 : k \notin Kills(q[j])
    BY <1>1
  <2>2. QED
    BY <1>1, <1>3, <2>1 DEF Ahead
<1>4. ASSUME NEW k \in Ahead(r), k \notin Kills(x) PROVE k \in Ahead(q)
  <2>1. PICK i \in 1 .. Len(r) : k \in Adds(r[i]) /\ \A j \in 1 .. i - 1 : k \notin Kills(r[j])
    BY <1>4 DEF Ahead
  <2>2. i + 1 \in 1 .. Len(q) /\ q[i + 1] = r[i]
    BY <1>1
  <2>3. ASSUME NEW j \in 1 .. (i + 1) - 1 PROVE k \notin Kills(q[j])
    <3>1. CASE j = 1
      BY <1>1, <1>4, <3>1
    <3>2. CASE j # 1
      <4>1. j - 1 \in 1 .. i - 1 /\ j - 1 \in 1 .. Len(r) /\ r[j - 1] = q[j]
        BY <1>1, <2>3, <3>2
      <4>2. QED
        BY <2>1, <4>1
    <3>3. QED
      BY <3>1, <3>2
  <2>4. k \in Marks
    BY <1>4 DEF Ahead
  <2>5. QED
    BY <2>1, <2>2, <2>3, <2>4 DEF Ahead
<1>5. QED
  BY <1>2, <1>3, <1>4

LEMMA AfterFacts ==
  ASSUME NEW S, NEW q \in Seq(S), NEW i \in 0 .. Len(q)
  PROVE  /\ After(q, i) \in Seq(S) /\ Len(After(q, i)) = Len(q) - i
         /\ \A j \in 1 .. Len(q) - i : After(q, i)[j] = q[i + j]
<1>1. Len(q) \in Nat /\ i \in Int
  OBVIOUS
<1>2. CASE i = Len(q)
  BY <1>1, <1>2 DEF After
<1>3. CASE i # Len(q)
  <2>1. i + 1 \in 1 .. Len(q) /\ Len(q) \in 1 .. Len(q) /\ i + 1 <= Len(q)
    BY <1>1, <1>3
  <2>2. /\ After(q, i) \in Seq(S) /\ Len(After(q, i)) = Len(q) - (i + 1) + 1
        /\ \A j \in 1 .. Len(q) - (i + 1) + 1 : After(q, i)[j] = q[(i + 1) + j - 1]
    BY <1>1, <2>1 DEF After
  <2>3. QED
    BY <1>1, <2>2
<1>4. QED
  BY <1>2, <1>3

\* Fit, likewise.
LEMMA FitTail ==
  ASSUME NEW q \in Seq(Item), q # <<>>
  PROVE  Fit(q) <=> Fits(Head(q), Ahead(Tail(q))) /\ Fit(Tail(q))
<1> DEFINE r == Tail(q)
<1>1. /\ r \in Seq(Item) /\ Head(q) = q[1] /\ Len(q) \in Nat /\ Len(q) # 0 /\ Len(r) = Len(q) - 1
      /\ \A i \in 1 .. Len(r) : r[i] = q[i + 1]
  OBVIOUS
<1>2. After(q, 1) = r
  <2>1. 1 \in 0 .. Len(q)
    BY <1>1
  <2>2. /\ After(q, 1) \in Seq(Item) /\ Len(After(q, 1)) = Len(q) - 1
        /\ \A j \in 1 .. Len(q) - 1 : After(q, 1)[j] = q[1 + j]
    BY <2>1, AfterFacts
  <2>3. QED
    BY <1>1, <2>2, SeqEqual
<1>3. ASSUME NEW i \in 1 .. Len(r) PROVE After(q, i + 1) = After(r, i)
  <2>1. i + 1 \in 0 .. Len(q) /\ i \in 0 .. Len(r) /\ Len(q) - (i + 1) = Len(r) - i
    BY <1>1
  <2>2. /\ After(q, i + 1) \in Seq(Item) /\ Len(After(q, i + 1)) = Len(r) - i
        /\ \A j \in 1 .. Len(r) - i : After(q, i + 1)[j] = q[(i + 1) + j]
    BY <2>1, AfterFacts
  <2>3. /\ After(r, i) \in Seq(Item) /\ Len(After(r, i)) = Len(r) - i
        /\ \A j \in 1 .. Len(r) - i : After(r, i)[j] = r[i + j]
    BY <1>1, <2>1, AfterFacts
  <2>4. \A j \in 1 .. Len(r) - i : q[(i + 1) + j] = r[i + j]
    BY <1>1
  <2> DEFINE a == After(q, i + 1)
             b == After(r, i)
  <2>5. /\ a \in Seq(Item) /\ b \in Seq(Item) /\ Len(a) = Len(b)
        /\ \A j \in 1 .. Len(a) : a[j] = b[j]
    BY <2>2, <2>3, <2>4
  <2> HIDE DEF a, b
  <2>6. a = b
    BY <2>5, SeqEqual
  <2>7. QED
    BY <2>6 DEF a, b
<1>4. ASSUME Fit(q) PROVE Fits(q[1], Ahead(r)) /\ Fit(r)
  <2>1. Fits(q[1], Ahead(r))
    <3>1. 1 \in 1 .. Len(q)
      BY <1>1
    <3>2. QED
      BY <1>2, <1>4, <3>1 DEF Fit
  <2>2. ASSUME NEW i \in 1 .. Len(r) PROVE Fits(r[i], Ahead(After(r, i)))
    <3>1. i + 1 \in 1 .. Len(q) /\ r[i] = q[i + 1]
      BY <1>1
    <3>2. QED
      BY <1>3, <1>4, <3>1 DEF Fit
  <2>3. QED
    BY <2>1, <2>2 DEF Fit
<1>5. ASSUME Fits(q[1], Ahead(r)), Fit(r) PROVE Fit(q)
  <2>1. ASSUME NEW i \in 1 .. Len(q) PROVE Fits(q[i], Ahead(After(q, i)))
    <3>1. CASE i = 1
      BY <1>2, <1>5, <3>1
    <3>2. CASE i # 1
      <4>1. i - 1 \in 1 .. Len(r) /\ r[i - 1] = q[i] /\ (i - 1) + 1 = i
        BY <1>1, <3>2
      <4>2. After(q, i) = After(r, i - 1)
        BY <1>3, <4>1
      <4>3. QED
        BY <1>5, <4>1, <4>2 DEF Fit
    <3>3. QED
      BY <3>1, <3>2
  <2>2. QED
    BY <2>1 DEF Fit
<1>6. QED
  BY <1>1, <1>4, <1>5

-----------------------------------------------------------------------------
(* The items, one in front of a list. *)

\* What item x does in front of r.
Puts(x, r) == <<x>> \o r

LEMMA Cons ==
  ASSUME NEW x \in Item, NEW r \in Seq(Item)
  PROVE  /\ Puts(x, r) \in Seq(Item) /\ Puts(x, r) # <<>>
         /\ Head(Puts(x, r)) = x /\ Tail(Puts(x, r)) = r
<1>1. <<x>> \in Seq(Item) /\ Len(<<x>>) = 1 /\ <<x>>[1] = x
  OBVIOUS
<1> DEFINE q == <<x>> \o r
<1>2. /\ q \in Seq(Item) /\ Len(q) = 1 + Len(r) /\ Len(r) \in Nat /\ q[1] = x
      /\ \A i \in 1 .. Len(r) : q[i + 1] = r[i]
  BY <1>1
<1>3. q # <<>> /\ Head(q) = x
  BY <1>2
<1>4. Tail(q) = r
  <2>1. Tail(q) \in Seq(Item) /\ Len(Tail(q)) = Len(r)
    BY <1>2, <1>3
  <2>2. \A i \in 1 .. Len(r) : Tail(q)[i] = r[i]
    BY <1>2, <1>3
  <2>3. QED
    BY <2>1, <2>2, SeqEqual
<1>5. QED
  BY <1>2, <1>3, <1>4 DEF Puts

LEMMA InFront ==
  ASSUME NEW x \in Item, NEW r \in Seq(Item)
  PROVE  /\ Ahead(Puts(x, r)) = (Adds(x) \cap Marks) \cup (Ahead(r) \ Kills(x))
         /\ Fit(Puts(x, r)) <=> Fits(x, Ahead(r)) /\ Fit(r)
<1>1. /\ Puts(x, r) \in Seq(Item) /\ Puts(x, r) # <<>>
      /\ Head(Puts(x, r)) = x /\ Tail(Puts(x, r)) = r
  BY Cons
<1>2. QED
  BY <1>1, AheadTail, FitTail

LEMMA AreMarks ==
  /\ \A w \in Workers : {<<"ask", w>>, <<"run", w>>, <<"touch", w>>} \subseteq Marks
  /\ \A l \in Levels : {<<"open", l>>, <<"hold", l>>} \subseteq Marks
  /\ {Again, Leave, Resumed, Sink, Later, Waited} \subseteq Marks
BY DEF Marks, Again, Leave, Resumed, Sink, Later, Waited

LEMMA IdleInFront ==
  ASSUME NEW w \in Workers, NEW r \in Seq(Item), NEW x,
         x = Set(w, "IDLE") \/ (x = Try(w, "IDLE") /\ w = "audio")
  PROVE  /\ Puts(x, r) \in Seq(Item)
         /\ Ahead(Puts(x, r)) = {<<"ask", w>>} \cup (Ahead(r) \ {<<"touch", w>>})
         /\ Fit(Puts(x, r)) <=> /\ <<"run", w>> \in Ahead(r)
                                /\ x.do = "set" /\ w = "audio" => Again \in Ahead(r)
                                /\ Fit(r)
<1>1. x \in Item /\ x.do \in {"set", "try"} /\ x.of = w /\ x.to = "IDLE"
  BY DEF Set, Try, Item, Modes
<1>2. Adds(x) = {<<"ask", w>>} /\ Kills(x) = {<<"touch", w>>}
  BY <1>1 DEF Adds, Kills
<1>3. Fits(x, Ahead(r)) <=> /\ <<"run", w>> \in Ahead(r)
                            /\ x.do = "set" /\ w = "audio" => Again \in Ahead(r)
  BY <1>1 DEF Fits
<1>4. /\ Ahead(Puts(x, r)) = (Adds(x) \cap Marks) \cup (Ahead(r) \ Kills(x))
      /\ Fit(Puts(x, r)) <=> Fits(x, Ahead(r)) /\ Fit(r)
  BY <1>1, InFront
<1>5. Puts(x, r) \in Seq(Item) /\ <<"ask", w>> \in Marks
  BY <1>1, Cons, AreMarks
<1>6. QED
  BY <1>2, <1>3, <1>4, <1>5

LEMMA RunInFront ==
  ASSUME NEW w \in Workers, NEW r \in Seq(Item), NEW x,
         x = Set(w, "RUNNING") \/ (x = Try(w, "RUNNING") /\ w = "audio")
  PROVE  /\ Puts(x, r) \in Seq(Item)
         /\ Ahead(Puts(x, r)) =
              {<<"ask", w>>, <<"run", w>>} \cup Ahead(r)
                \cup (IF x = Set("audio", "RUNNING") THEN {Again} ELSE {})
         /\ Fit(Puts(x, r)) <=> <<"touch", w>> \notin Ahead(r) /\ Fit(r)
<1>1. /\ x \in Item /\ x.do \in {"set", "try"} /\ x.of = w /\ x.to = "RUNNING"
      /\ x = Set("audio", "RUNNING") <=> x.do = "set" /\ w = "audio"
  BY DEF Set, Try, Item, Modes
<1>2. /\ Adds(x) = {<<"ask", w>>, <<"run", w>>}
                      \cup (IF x = Set("audio", "RUNNING") THEN {Again} ELSE {})
      /\ Kills(x) = {}
  BY <1>1 DEF Adds, Kills
<1>3. Fits(x, Ahead(r)) <=> <<"touch", w>> \notin Ahead(r)
  BY <1>1 DEF Fits
<1>4. Adds(x) \cap Marks = Adds(x)
  BY <1>2, AreMarks
<1>5. Puts(x, r) \in Seq(Item)
  BY <1>1, Cons
<1>6. /\ Ahead(Puts(x, r)) = (Adds(x) \cap Marks) \cup (Ahead(r) \ Kills(x))
      /\ Fit(Puts(x, r)) <=> Fits(x, Ahead(r)) /\ Fit(r)
  BY <1>1, InFront
<1>7. QED
  BY <1>2, <1>3, <1>4, <1>5, <1>6

\* Asking at once, and asking audio if it is valid.
LEMMA AskInFront ==
  ASSUME NEW w \in Workers, NEW r \in Seq(Item)
  PROVE  /\ Puts(Set(w, "IDLE"), r) \in Seq(Item)
         /\ Ahead(Puts(Set(w, "IDLE"), r)) = {<<"ask", w>>} \cup (Ahead(r) \ {<<"touch", w>>})
         /\ Fit(Puts(Set(w, "IDLE"), r)) <=>
              <<"run", w>> \in Ahead(r) /\ (w = "audio" => Again \in Ahead(r)) /\ Fit(r)
         /\ Puts(Set(w, "RUNNING"), r) \in Seq(Item)
         /\ Ahead(Puts(Set(w, "RUNNING"), r)) =
              {<<"ask", w>>, <<"run", w>>} \cup Ahead(r) \cup (IF w = "audio" THEN {Again} ELSE {})
         /\ Fit(Puts(Set(w, "RUNNING"), r)) <=> <<"touch", w>> \notin Ahead(r) /\ Fit(r)
<1>1. Set(w, "IDLE").do = "set" /\ (Set(w, "RUNNING") = Set("audio", "RUNNING") <=> w = "audio")
  BY DEF Set
<1>2. /\ Puts(Set(w, "IDLE"), r) \in Seq(Item)
      /\ Ahead(Puts(Set(w, "IDLE"), r)) = {<<"ask", w>>} \cup (Ahead(r) \ {<<"touch", w>>})
      /\ Fit(Puts(Set(w, "IDLE"), r)) <=>
           <<"run", w>> \in Ahead(r) /\ (w = "audio" => Again \in Ahead(r)) /\ Fit(r)
  BY <1>1, IdleInFront
<1>3. /\ Puts(Set(w, "RUNNING"), r) \in Seq(Item)
      /\ Ahead(Puts(Set(w, "RUNNING"), r)) =
           {<<"ask", w>>, <<"run", w>>} \cup Ahead(r)
             \cup (IF Set(w, "RUNNING") = Set("audio", "RUNNING") THEN {Again} ELSE {})
      /\ Fit(Puts(Set(w, "RUNNING"), r)) <=> <<"touch", w>> \notin Ahead(r) /\ Fit(r)
  BY RunInFront
<1>4. QED
  BY <1>1, <1>2, <1>3

LEMMA TryInFront ==
  ASSUME NEW r \in Seq(Item)
  PROVE  /\ Puts(Try("audio", "IDLE"), r) \in Seq(Item)
         /\ Ahead(Puts(Try("audio", "IDLE"), r)) =
              {<<"ask", "audio">>} \cup (Ahead(r) \ {<<"touch", "audio">>})
         /\ Fit(Puts(Try("audio", "IDLE"), r)) <=> <<"run", "audio">> \in Ahead(r) /\ Fit(r)
         /\ Puts(Try("audio", "RUNNING"), r) \in Seq(Item)
         /\ Ahead(Puts(Try("audio", "RUNNING"), r)) =
              {<<"ask", "audio">>, <<"run", "audio">>} \cup Ahead(r)
         /\ Fit(Puts(Try("audio", "RUNNING"), r)) <=> <<"touch", "audio">> \notin Ahead(r) /\ Fit(r)
<1> DEFINE w == "audio"
<1>1. w \in Workers /\ w = "audio" /\ Try(w, "IDLE").do = "try" /\ Try(w, "RUNNING") # Set("audio", "RUNNING")
  BY DEF Workers, Try, Set
<1> HIDE DEF w
<1>2. /\ Puts(Try(w, "IDLE"), r) \in Seq(Item)
      /\ Ahead(Puts(Try(w, "IDLE"), r)) = {<<"ask", w>>} \cup (Ahead(r) \ {<<"touch", w>>})
      /\ Fit(Puts(Try(w, "IDLE"), r)) <=> <<"run", w>> \in Ahead(r) /\ Fit(r)
  BY <1>1, IdleInFront
<1>3. /\ Puts(Try(w, "RUNNING"), r) \in Seq(Item)
      /\ Ahead(Puts(Try(w, "RUNNING"), r)) = {<<"ask", w>>, <<"run", w>>} \cup Ahead(r)
      /\ Fit(Puts(Try(w, "RUNNING"), r)) <=> <<"touch", w>> \notin Ahead(r) /\ Fit(r)
  BY <1>1, RunInFront
<1>4. QED
  BY <1>1, <1>2, <1>3

LEMMA ExitInFront ==
  ASSUME NEW w \in Workers, NEW r \in Seq(Item)
  PROVE  /\ Puts(Set(w, "EXIT"), r) \in Seq(Item)
         /\ Ahead(Puts(Set(w, "EXIT"), r)) = {<<"ask", w>>, Leave} \cup Ahead(r)
         /\ Fit(Puts(Set(w, "EXIT"), r)) <=>
              <<"ask", w>> \notin Ahead(r) /\ <<"touch", w>> \notin Ahead(r) /\ Fit(r)
<1> DEFINE x == Set(w, "EXIT")
<1>1. x \in Item /\ x.do = "set" /\ x.of = w /\ x.to = "EXIT"
  BY DEF Set, Item, Modes
<1>2. Adds(x) = {<<"ask", w>>, Leave} /\ Kills(x) = {}
  BY <1>1 DEF Adds, Kills
<1>3. Fits(x, Ahead(r)) <=> <<"ask", w>> \notin Ahead(r) /\ <<"touch", w>> \notin Ahead(r)
  BY <1>1 DEF Fits
<1>4. Adds(x) \cap Marks = Adds(x)
  BY <1>2, AreMarks
<1>5. Puts(x, r) \in Seq(Item)
  BY <1>1, Cons
<1>6. /\ Ahead(Puts(x, r)) = (Adds(x) \cap Marks) \cup (Ahead(r) \ Kills(x))
      /\ Fit(Puts(x, r)) <=> Fits(x, Ahead(r)) /\ Fit(r)
  BY <1>1, InFront
<1>7. QED
  BY <1>2, <1>3, <1>4, <1>5, <1>6

\* A join, or a play: neither adds a mark.
LEMMA IdleItems ==
  ASSUME NEW r \in Seq(Item), NEW x \in {Do("play")} \cup {Join(w) : w \in Workers}
  PROVE  /\ Puts(x, r) \in Seq(Item)
         /\ Ahead(Puts(x, r)) = Ahead(r) /\ (Fit(Puts(x, r)) <=> Fit(r))
<1>1. x \in Item /\ x.do \in {"play", "join"}
  BY DEF Do, Join, Item
<1>2. Adds(x) = {} /\ Kills(x) = {}
  BY <1>1 DEF Adds, Kills
<1>3. Fits(x, Ahead(r))
  BY <1>1 DEF Fits
<1>4. QED
  BY <1>1, <1>2, <1>3, Cons, InFront

LEMMA TouchInFront ==
  ASSUME NEW ws \in SUBSET Workers, NEW r \in Seq(Item)
  PROVE  /\ Puts(Touch(ws), r) \in Seq(Item)
         /\ Ahead(Puts(Touch(ws), r)) =
              ({"touch"} \X ws) \cup (IF "engine" \in ws THEN {Later} ELSE {}) \cup Ahead(r)
         /\ Fit(Puts(Touch(ws), r)) <=>
              ("engine" \in ws /\ Sink \in Ahead(r) => "audio" \in ws) /\ Fit(r)
<1> DEFINE x == Touch(ws)
<1>1. x \in Item /\ x.do = "touch" /\ x.on = ws
  BY DEF Touch, Item
<1>2. /\ Adds(x) = ({"touch"} \X ws) \cup (IF "engine" \in ws THEN {Later} ELSE {})
      /\ Kills(x) = {}
  BY <1>1 DEF Adds, Kills
<1>3. Fits(x, Ahead(r)) <=> ("engine" \in ws /\ Sink \in Ahead(r) => "audio" \in ws)
  BY <1>1 DEF Fits
<1>4. Adds(x) \cap Marks = Adds(x)
  BY <1>2, AreMarks DEF Marks
<1>5. Puts(x, r) \in Seq(Item)
  BY <1>1, Cons
<1>6. /\ Ahead(Puts(x, r)) = Adds(x) \cup Ahead(r)
      /\ Fit(Puts(x, r)) <=> Fits(x, Ahead(r)) /\ Fit(r)
  BY <1>1, <1>2, <1>4, InFront
<1>7. QED
  BY <1>2, <1>3, <1>5, <1>6

LEMMA LookInFront ==
  ASSUME NEW l \in Levels, NEW r \in Seq(Item)
  PROVE  /\ Puts(At(l, "look"), r) \in Seq(Item)
         /\ Ahead(Puts(At(l, "look"), r)) = Ahead(r) \ {<<"open", l>>, <<"hold", l>>}
         /\ Fit(Puts(At(l, "look"), r)) <=> Fit(r)
<1> DEFINE x == At(l, "look")
<1>1. x \in Item /\ x.do = "look" /\ x.of = l
  BY DEF At, Item
<1>2. Adds(x) = {} /\ Kills(x) = {<<"open", l>>, <<"hold", l>>}
  BY <1>1 DEF Adds, Kills
<1>3. Fits(x, Ahead(r))
  BY <1>1 DEF Fits
<1>4. Puts(x, r) \in Seq(Item)
  BY <1>1, Cons
<1>5. /\ Ahead(Puts(x, r)) = Ahead(r) \ {<<"open", l>>, <<"hold", l>>}
      /\ Fit(Puts(x, r)) <=> Fits(x, Ahead(r)) /\ Fit(r)
  BY <1>1, <1>2, InFront
<1>6. QED
  BY <1>3, <1>4, <1>5

LEMMA HoldInFront ==
  ASSUME NEW l \in Levels, NEW r \in Seq(Item)
  PROVE  /\ Puts(At(l, "hold"), r) \in Seq(Item)
         /\ Ahead(Puts(At(l, "hold"), r)) =
              {<<"hold", l>>} \cup (Ahead(r) \ (IF l = "call" THEN {Sink} ELSE {}))
         /\ Fit(Puts(At(l, "hold"), r)) <=>
              /\ <<"open", l>> \in Ahead(r) \/ Leave \in Ahead(r)
              /\ NoHold(Ahead(r))
              /\ l = "call" /\ Sink \in Ahead(r) =>
                   Later \in Ahead(r) /\ <<"open", "seek">> \notin Ahead(r)
              /\ Fit(r)
<1> DEFINE x == At(l, "hold")
<1>1. x \in Item /\ x.do = "hold" /\ x.of = l
  BY DEF At, Item
<1>2. Adds(x) = {<<"hold", l>>} /\ Kills(x) = (IF l = "call" THEN {Sink} ELSE {})
  BY <1>1 DEF Adds, Kills
<1>3. Fits(x, Ahead(r)) <=>
              /\ <<"open", l>> \in Ahead(r) \/ Leave \in Ahead(r)
              /\ NoHold(Ahead(r))
              /\ l = "call" /\ Sink \in Ahead(r) =>
                   Later \in Ahead(r) /\ <<"open", "seek">> \notin Ahead(r)
  BY <1>1 DEF Fits
<1>4. Ahead(Puts(x, r)) = (Adds(x) \cap Marks) \cup (Ahead(r) \ Kills(x))
      /\ (Fit(Puts(x, r)) <=> Fits(x, Ahead(r)) /\ Fit(r))
  BY <1>1, InFront
<1>5. <<"hold", l>> \in Marks
  BY AreMarks
<1>6. Puts(x, r) \in Seq(Item)
  BY <1>1, Cons
<1>7. QED
  BY <1>2, <1>3, <1>4, <1>5, <1>6

LEMMA UnPauseInFront ==
  ASSUME NEW l \in Levels, NEW r \in Seq(Item)
  PROVE  /\ Puts(At(l, "unpause"), r) \in Seq(Item)
         /\ Ahead(Puts(At(l, "unpause"), r)) = {<<"open", l>>} \cup Ahead(r)
         /\ Fit(Puts(At(l, "unpause"), r)) <=>
              /\ <<"open", l>> \notin Ahead(r) /\ NoHold(Ahead(r))
              /\ l = "call" => Sink \notin Ahead(r)
              /\ Fit(r)
<1> DEFINE x == At(l, "unpause")
<1>1. x \in Item /\ x.do = "unpause" /\ x.of = l
  BY DEF At, Item
<1>2. Adds(x) = {<<"open", l>>} /\ Kills(x) = {}
  BY <1>1 DEF Adds, Kills
<1>3. Fits(x, Ahead(r)) <=> /\ <<"open", l>> \notin Ahead(r) /\ NoHold(Ahead(r))
                            /\ l = "call" => Sink \notin Ahead(r)
  BY <1>1 DEF Fits
<1>4. Ahead(Puts(x, r)) = (Adds(x) \cap Marks) \cup (Ahead(r) \ Kills(x))
      /\ (Fit(Puts(x, r)) <=> Fits(x, Ahead(r)) /\ Fit(r))
  BY <1>1, InFront
<1>5. <<"open", l>> \in Marks
  BY AreMarks
<1>6. Puts(x, r) \in Seq(Item)
  BY <1>1, Cons
<1>7. QED
  BY <1>2, <1>3, <1>4, <1>5, <1>6

\* A resume, and the work with the sink.
LEMMA DoInFront ==
  ASSUME NEW r \in Seq(Item)
  PROVE  /\ Puts(Do("resume"), r) \in Seq(Item)
         /\ Ahead(Puts(Do("resume"), r)) = {Resumed} \cup Ahead(r)
         /\ Fit(Puts(Do("resume"), r)) <=> NoHold(Ahead(r)) /\ Sink \notin Ahead(r) /\ Fit(r)
         /\ Puts(Do("sink"), r) \in Seq(Item)
         /\ Ahead(Puts(Do("sink"), r)) = {Sink} \cup Ahead(r)
         /\ Fit(Puts(Do("sink"), r)) <=> Later \notin Ahead(r) /\ Fit(r)
         /\ Puts(Do("drop"), r) \in Seq(Item)
         /\ Ahead(Puts(Do("drop"), r)) = {Sink} \cup Ahead(r)
         /\ Fit(Puts(Do("drop"), r)) <=> Again \in Ahead(r) /\ Later \notin Ahead(r) /\ Fit(r)
<1>1. \A what \in {"resume", "sink", "drop"} : Do(what) \in Item /\ Do(what).do = what
  BY DEF Do, Item
<1>2. /\ Adds(Do("resume")) = {Resumed} /\ Kills(Do("resume")) = {}
      /\ Fits(Do("resume"), Ahead(r)) <=> NoHold(Ahead(r)) /\ Sink \notin Ahead(r)
  BY <1>1 DEF Adds, Kills, Fits
<1>3. /\ Adds(Do("sink")) = {Sink} /\ Kills(Do("sink")) = {}
      /\ Fits(Do("sink"), Ahead(r)) <=> Later \notin Ahead(r)
  BY <1>1 DEF Adds, Kills, Fits
<1>4. /\ Adds(Do("drop")) = {Sink} /\ Kills(Do("drop")) = {}
      /\ Fits(Do("drop"), Ahead(r)) <=> Again \in Ahead(r) /\ Later \notin Ahead(r)
  BY <1>1 DEF Adds, Kills, Fits
<1>5. \A what \in {"resume", "sink", "drop"} : Puts(Do(what), r) \in Seq(Item)
  BY <1>1, Cons
<1>6. \A x \in Item : /\ Ahead(Puts(x, r)) = (Adds(x) \cap Marks) \cup (Ahead(r) \ Kills(x))
                      /\ (Fit(Puts(x, r)) <=> Fits(x, Ahead(r)) /\ Fit(r))
  BY InFront
<1>7. Resumed \in Marks /\ Sink \in Marks
  BY AreMarks
<1>8. QED
  BY <1>1, <1>2, <1>3, <1>4, <1>5, <1>6, <1>7

\* A branch.
LEMMA BranchInFront ==
  ASSUME NEW way \in Ways, NEW r \in Seq(Item)
  PROVE  /\ At(way, "branch") \in Item
         /\ Puts(At(way, "branch"), r) \in Seq(Item)
         /\ Ahead(Puts(At(way, "branch"), r)) = Adds(At(way, "branch")) \cup Ahead(r)
         /\ Fit(Puts(At(way, "branch"), r)) <=> Fits(At(way, "branch"), Ahead(r)) /\ Fit(r)
<1> DEFINE x == At(way, "branch")
<1>1. x \in Item /\ x.do = "branch" /\ x.of = way
  BY DEF At, Item
<1>2. Kills(x) = {}
  BY <1>1 DEF Kills
<1>3. Adds(x) \cap Marks = Adds(x)
  BY <1>1, AreMarks DEF Adds, Marks, Ways, Levels, Workers, Sink
<1>4. Puts(x, r) \in Seq(Item)
  BY <1>1, Cons
<1>5. /\ Ahead(Puts(x, r)) = Adds(x) \cup Ahead(r)
      /\ Fit(Puts(x, r)) <=> Fits(x, Ahead(r)) /\ Fit(r)
  BY <1>1, <1>2, <1>3, InFront
<1>6. QED
  BY <1>1, <1>4, <1>5

-----------------------------------------------------------------------------
(* Parts of calls, in front of a list. *)

LEMMA Cat ==
  ASSUME NEW p \in Seq(Item), NEW q \in Seq(Item), NEW r \in Seq(Item)
  PROVE  p \o q \in Seq(Item) /\ (p \o q) \o r = p \o (q \o r)
BY ConcatAssociative, ConcatProperties

LEMMA Two ==
  ASSUME NEW x \in Item, NEW y \in Item
  PROVE  /\ <<x, y>> \in Seq(Item) /\ <<x>> \in Seq(Item)
         /\ \A r \in Seq(Item) : <<x, y>> \o r = Puts(x, Puts(y, r))
<1>1. <<x>> \in Seq(Item) /\ <<y>> \in Seq(Item) /\ <<x, y>> \in Seq(Item)
  OBVIOUS
<1>2. <<x, y>> = <<x>> \o <<y>>
  <2> DEFINE p == <<x>> \o <<y>>
  <2>1. p \in Seq(Item) /\ Len(p) = 2 /\ Len(<<x, y>>) = 2 /\ p[1] = x /\ p[2] = y
    BY <1>1
  <2>2. \A n \in 1 .. Len(p) : p[n] = <<x, y>>[n]
    <3>1. \A n \in 1 .. 2 : n = 1 \/ n = 2
      OBVIOUS
    <3>2. <<x, y>>[1] = x /\ <<x, y>>[2] = y
      OBVIOUS
    <3>3. QED
      BY <2>1, <3>1, <3>2, Zenon
  <2>3. QED
    BY <1>1, <2>1, <2>2, SeqEqual, Zenon
<1>3. ASSUME NEW r \in Seq(Item) PROVE <<x, y>> \o r = Puts(x, Puts(y, r))
  <2>1. (<<x>> \o <<y>>) \o r = <<x>> \o (<<y>> \o r)
    BY <1>1, ConcatAssociative
  <2>2. QED
    BY <1>2, <2>1 DEF Puts
<1>4. QED
  BY <1>1, <1>3

LEMMA Three ==
  ASSUME NEW x \in Item, NEW y \in Item, NEW z \in Item
  PROVE  /\ <<x, y, z>> \in Seq(Item)
         /\ \A r \in Seq(Item) : <<x, y, z>> \o r = Puts(x, Puts(y, Puts(z, r)))
<1>1. <<x>> \in Seq(Item) /\ <<y, z>> \in Seq(Item) /\ <<x, y, z>> \in Seq(Item)
  OBVIOUS
<1>2. <<x, y, z>> = <<x>> \o <<y, z>>
  <2> DEFINE p == <<x>> \o <<y, z>>
  <2>1. p \in Seq(Item) /\ Len(p) = 3 /\ Len(<<x, y, z>>) = 3 /\ p[1] = x /\ p[2] = y /\ p[3] = z
    BY <1>1
  <2>2. \A n \in 1 .. Len(p) : p[n] = <<x, y, z>>[n]
    <3>1. \A n \in 1 .. 3 : n = 1 \/ n = 2 \/ n = 3
      OBVIOUS
    <3>2. <<x, y, z>>[1] = x /\ <<x, y, z>>[2] = y /\ <<x, y, z>>[3] = z
      OBVIOUS
    <3>3. QED
      BY <2>1, <3>1, <3>2, Zenon
  <2>3. QED
    BY <1>1, <2>1, <2>2, SeqEqual, Zenon
<1>3. ASSUME NEW r \in Seq(Item) PROVE <<x, y, z>> \o r = Puts(x, Puts(y, Puts(z, r)))
  <2>1. (<<x>> \o <<y, z>>) \o r = <<x>> \o (<<y, z>> \o r)
    BY <1>1, ConcatAssociative
  <2>2. <<y, z>> \o r = Puts(y, Puts(z, r))
    BY Two
  <2>3. QED
    BY <1>2, <2>1, <2>2 DEF Puts
<1>4. QED
  BY <1>1, <1>3

\* What SetBoth puts in front of a list.
LEMMA BothInFront ==
  ASSUME NEW m \in Modes, NEW r \in Seq(Item)
  PROVE  /\ SetBoth("engine", "sub", m) \in Seq(Item)
         /\ SetBoth("engine", "sub", m) \o r = Puts(Set("engine", m), Puts(Set("sub", m), r))
<1>1. Set("engine", m) \in Item /\ Set("sub", m) \in Item
  BY DEF Set, Item, Workers
<1>2. QED
  BY <1>1, Two DEF SetBoth

LEMMA StopBoth ==
  ASSUME NEW r \in Seq(Item)
  PROVE  LET q == SetBoth("engine", "sub", "IDLE") \o r
         IN  /\ q \in Seq(Item)
             /\ Ahead(q) = {<<"ask", "engine">>, <<"ask", "sub">>} \cup
                             (Ahead(r) \ {<<"touch", "engine">>, <<"touch", "sub">>})
             /\ Fit(q) <=> <<"run", "engine">> \in Ahead(r) /\ <<"run", "sub">> \in Ahead(r) /\ Fit(r)
<1> DEFINE s == Puts(Set("sub", "IDLE"), r)
           q == Puts(Set("engine", "IDLE"), s)
<1>1. "IDLE" \in Modes /\ "engine" \in Workers /\ "sub" \in Workers
  BY DEF Modes, Workers
<1>2. /\ s \in Seq(Item) /\ Ahead(s) = {<<"ask", "sub">>} \cup (Ahead(r) \ {<<"touch", "sub">>})
      /\ Fit(s) <=> <<"run", "sub">> \in Ahead(r) /\ Fit(r)
  BY <1>1, AskInFront
<1> HIDE DEF s
<1>3. /\ q \in Seq(Item) /\ Ahead(q) = {<<"ask", "engine">>} \cup (Ahead(s) \ {<<"touch", "engine">>})
      /\ Fit(q) <=> <<"run", "engine">> \in Ahead(s) /\ Fit(s)
  BY <1>1, <1>2, AskInFront
<1>4. SetBoth("engine", "sub", "IDLE") \o r = q
  BY <1>1, BothInFront DEF s
<1> HIDE DEF q
<1>5. QED
  BY <1>2, <1>3, <1>4

LEMMA RunBoth ==
  ASSUME NEW r \in Seq(Item)
  PROVE  LET q == SetBoth("engine", "sub", "RUNNING") \o r
         IN  /\ q \in Seq(Item)
             /\ Ahead(q) = {<<"ask", "engine">>, <<"ask", "sub">>, <<"run", "engine">>, <<"run", "sub">>}
                             \cup Ahead(r)
             /\ Fit(q) <=> <<"touch", "engine">> \notin Ahead(r)
                            /\ <<"touch", "sub">> \notin Ahead(r) /\ Fit(r)
<1> DEFINE s == Puts(Set("sub", "RUNNING"), r)
           q == Puts(Set("engine", "RUNNING"), s)
<1>1. "RUNNING" \in Modes /\ "engine" \in Workers /\ "sub" \in Workers
  BY DEF Modes, Workers
<1>3. /\ s \in Seq(Item) /\ Ahead(s) = {<<"ask", "sub">>, <<"run", "sub">>} \cup Ahead(r)
      /\ Fit(s) <=> <<"touch", "sub">> \notin Ahead(r) /\ Fit(r)
  <2> DEFINE w == "sub"
  <2>1. w \in Workers /\ w # "audio"
    BY <1>1
  <2> HIDE DEF w
  <2>2. /\ Puts(Set(w, "RUNNING"), r) \in Seq(Item)
        /\ Ahead(Puts(Set(w, "RUNNING"), r)) =
             {<<"ask", w>>, <<"run", w>>} \cup Ahead(r) \cup (IF w = "audio" THEN {Again} ELSE {})
        /\ Fit(Puts(Set(w, "RUNNING"), r)) <=> <<"touch", w>> \notin Ahead(r) /\ Fit(r)
    BY <2>1, AskInFront
  <2>3. Ahead(Puts(Set(w, "RUNNING"), r)) = {<<"ask", w>>, <<"run", w>>} \cup Ahead(r)
    BY <2>1, <2>2
  <2>4. QED
    BY <2>2, <2>3 DEF w, s
<1> HIDE DEF s
<1>4. /\ q \in Seq(Item) /\ Ahead(q) = {<<"ask", "engine">>, <<"run", "engine">>} \cup Ahead(s)
      /\ Fit(q) <=> <<"touch", "engine">> \notin Ahead(s) /\ Fit(s)
  BY <1>1, <1>3, AskInFront
<1>5. SetBoth("engine", "sub", "RUNNING") \o r = q
  BY <1>1, BothInFront DEF s
<1> HIDE DEF q
<1>6. QED
  BY <1>3, <1>4, <1>5

\* stream_pause and stream_un_pause.
LEMMA PauseInFront ==
  ASSUME NEW l \in Levels, NEW r \in Seq(Item), <<"open", l>> \in Ahead(r) \/ Leave \in Ahead(r),
         NoHold(Ahead(r)), Sink \in Ahead(r) => l = "seek" \/ Later \in Ahead(r),
         l = "call" => <<"open", "seek">> \notin Ahead(r), Fit(r)
  PROVE  LET q == PauseAt(l) \o r
         IN  /\ PauseAt(l) \in Seq(Item) /\ q \in Seq(Item) /\ Fit(q)
             /\ Ahead(q) = Ahead(r) \ ({<<"open", l>>} \cup (IF l = "call" THEN {Sink} ELSE {}))
<1> DEFINE s == Puts(At(l, "hold"), r)
           q == Puts(At(l, "look"), s)
<1>1. /\ s \in Seq(Item) /\ Fit(s)
      /\ Ahead(s) = {<<"hold", l>>} \cup (Ahead(r) \ (IF l = "call" THEN {Sink} ELSE {}))
  BY HoldInFront
<1>2. <<"hold", l>> \notin Ahead(r)
  BY DEF NoHold
<1> HIDE DEF s
<1>3. q \in Seq(Item) /\ Fit(q) /\ Ahead(q) = Ahead(s) \ {<<"open", l>>, <<"hold", l>>}
  BY <1>1, LookInFront
<1>4. PauseAt(l) \in Seq(Item) /\ PauseAt(l) \o r = q
  <2>1. At(l, "look") \in Item /\ At(l, "hold") \in Item
    BY DEF At, Item
  <2>2. QED
    BY <2>1, Two DEF PauseAt, s
<1> HIDE DEF q
<1>5. Ahead(q) = Ahead(r) \ ({<<"open", l>>} \cup (IF l = "call" THEN {Sink} ELSE {}))
  BY <1>1, <1>2, <1>3 DEF Sink
<1>6. QED
  BY <1>3, <1>4, <1>5

LEMMA UnPauseIs ==
  ASSUME NEW l \in Levels
  PROVE  UnPauseAt(l) \in Seq(Item) /\ \A r \in Seq(Item) : UnPauseAt(l) \o r = Puts(At(l, "unpause"), r)
<1>1. At(l, "unpause") \in Item
  BY DEF At, Item
<1>2. QED
  BY <1>1, Two DEF UnPauseAt, Puts

\* _seek_un_pause.
LEMMA SeekUnPauseInFront ==
  ASSUME NEW l \in Levels, NEW r \in Seq(Item), Fit(r), NoTouch(Ahead(r)), NoHold(Ahead(r)),
         <<"open", l>> \notin Ahead(r), l = "call" => Sink \notin Ahead(r)
  PROVE  LET q == SeekUnPause(l) \o r
         IN  /\ SeekUnPause(l) \in Seq(Item) /\ q \in Seq(Item) /\ Fit(q)
             /\ Ahead(q) = {<<"open", l>>, <<"ask", "parser">>, <<"ask", "audio">>,
                            <<"run", "parser">>, <<"run", "audio">>} \cup Ahead(r)
<1> DEFINE s == Puts(At(l, "unpause"), r)
           t == Puts(Set("parser", "RUNNING"), s)
           q == Puts(Try("audio", "RUNNING"), t)
<1>0. "parser" \in Workers /\ "audio" \in Workers
  BY DEF Workers
<1>1. s \in Seq(Item) /\ Fit(s) /\ Ahead(s) = {<<"open", l>>} \cup Ahead(r)
  BY UnPauseInFront
<1> HIDE DEF s
<1>2. <<"touch", "parser">> \notin Ahead(s) /\ <<"touch", "audio">> \notin Ahead(s)
  BY <1>0, <1>1 DEF NoTouch
<1>3. t \in Seq(Item) /\ Fit(t) /\ Ahead(t) = {<<"ask", "parser">>, <<"run", "parser">>} \cup Ahead(s)
  BY <1>0, <1>1, <1>2, AskInFront
<1> HIDE DEF t
<1>4. q \in Seq(Item) /\ Fit(q) /\ Ahead(q) = {<<"ask", "audio">>, <<"run", "audio">>} \cup Ahead(t)
  BY <1>0, <1>2, <1>3, TryInFront, AskInFront
<1>5. SeekUnPause(l) \in Seq(Item) /\ SeekUnPause(l) \o r = q
  <2>1. Try("audio", "RUNNING") \in Item /\ Set("parser", "RUNNING") \in Item
    BY DEF Try, Set, Item, Workers, Modes
  <2> DEFINE p == <<Try("audio", "RUNNING"), Set("parser", "RUNNING")>>
  <2>2. p \in Seq(Item) /\ UnPauseAt(l) \in Seq(Item) /\ UnPauseAt(l) \o r = s
    BY <2>1, Two, UnPauseIs DEF s
  <2> HIDE DEF p
  <2>3. p \o UnPauseAt(l) \in Seq(Item) /\ (p \o UnPauseAt(l)) \o r = p \o s
    BY <2>2, Cat
  <2>4. p \o s = q
    BY <1>1, <2>1, Two DEF t, p
  <2>5. QED
    BY <2>3, <2>4 DEF SeekUnPause, p
<1> HIDE DEF q
<1>6. QED
  BY <1>1, <1>3, <1>4, <1>5

\* _seek_pause, in front of what will run parser and audio again.
LEMMA SeekPauseInFront ==
  ASSUME NEW r \in Seq(Item), Fit(r), <<"run", "parser">> \in Ahead(r), <<"run", "audio">> \in Ahead(r),
         <<"open", "seek">> \in Ahead(r), NoHold(Ahead(r))
  PROVE  LET q == SeekPause \o r
         IN  /\ SeekPause \in Seq(Item) /\ q \in Seq(Item) /\ Fit(q)
             /\ Ahead(q) = {<<"ask", "parser">>, <<"ask", "audio">>} \cup
                  (Ahead(r) \ {<<"touch", "parser">>, <<"touch", "audio">>, <<"open", "seek">>})
<1> DEFINE s == PauseAt("seek") \o r
           t == Puts(Try("audio", "IDLE"), s)
           q == Puts(Set("parser", "IDLE"), t)
<1>0. "parser" \in Workers /\ "audio" \in Workers /\ "seek" \in Levels
  BY DEF Workers, Levels
<1>1. /\ PauseAt("seek") \in Seq(Item) /\ s \in Seq(Item) /\ Fit(s)
      /\ Ahead(s) = Ahead(r) \ {<<"open", "seek">>}
  BY <1>0, PauseInFront
<1> HIDE DEF s
<1>2. t \in Seq(Item) /\ Fit(t) /\ Ahead(t) = {<<"ask", "audio">>} \cup (Ahead(s) \ {<<"touch", "audio">>})
  BY <1>0, <1>1, TryInFront, AskInFront
<1> HIDE DEF t
<1>3. /\ q \in Seq(Item) /\ Fit(q)
      /\ Ahead(q) = {<<"ask", "parser">>} \cup (Ahead(t) \ {<<"touch", "parser">>})
  BY <1>0, <1>1, <1>2, AskInFront
<1>4. SeekPause \in Seq(Item) /\ SeekPause \o r = q
  <2>1. Set("parser", "IDLE") \in Item /\ Try("audio", "IDLE") \in Item
    BY DEF Try, Set, Item, Workers, Modes
  <2> DEFINE p == <<Set("parser", "IDLE"), Try("audio", "IDLE")>>
  <2>2. p \in Seq(Item) /\ p \o s = q
    BY <1>1, <2>1, Two DEF t
  <2> HIDE DEF p
  <2>3. (p \o PauseAt("seek")) \o r = p \o s /\ p \o PauseAt("seek") \in Seq(Item)
    BY <1>1, <2>2, Cat DEF s
  <2>4. QED
    BY <2>2, <2>3 DEF SeekPause, p
<1> HIDE DEF q
<1>5. QED
  BY <1>1, <1>2, <1>3, <1>4

\* _stream_seek_real, whatever comes after it.
LEMMA SeekInFront ==
  ASSUME NEW r \in Seq(Item), Fit(r), NoTouch(Ahead(r)), NoHold(Ahead(r)),
         <<"open", "seek">> \notin Ahead(r)
  PROVE  LET q == SeekItems \o r
         IN  /\ SeekItems \in Seq(Item) /\ q \in Seq(Item) /\ Fit(q)
             /\ Ahead(q) = ({"ask"} \X Workers) \cup {<<"run", "parser">>, <<"run", "audio">>} \cup Ahead(r)
<1> DEFINE s == SeekUnPause("seek") \o r
           b == At("seek", "branch")
           t == Puts(b, s)
           q == SeekPause \o t
<1>0. "seek" \in Levels /\ "seek" \in Ways
  BY DEF Levels, Ways
<1>1. /\ SeekUnPause("seek") \in Seq(Item) /\ s \in Seq(Item) /\ Fit(s)
      /\ Ahead(s) = {<<"open", "seek">>, <<"ask", "parser">>, <<"ask", "audio">>,
                     <<"run", "parser">>, <<"run", "audio">>} \cup Ahead(r)
  BY <1>0, SeekUnPauseInFront
<1> HIDE DEF s
<1>2. b.do = "branch" /\ b.of = "seek"
  BY DEF At
<1>3. Adds(b) = ({"ask"} \X Workers) \cup ({"touch"} \X {"parser", "audio"})
  BY <1>2 DEF Adds
<1>4. Fits(b, Ahead(s))
  <2>1. NoTouch(Ahead(s))
    BY <1>1 DEF NoTouch
  <2>2. QED
    BY <1>2, <2>1 DEF Fits
<1>5. b \in Item /\ t \in Seq(Item) /\ Fit(t) /\ Ahead(t) = Adds(b) \cup Ahead(s)
  BY <1>0, <1>1, <1>4, BranchInFront
<1> HIDE DEF t, b
<1>6. NoHold(Ahead(t)) /\ <<"run", "parser">> \in Ahead(t) /\ <<"run", "audio">> \in Ahead(t)
      /\ <<"open", "seek">> \in Ahead(t)
  BY <1>1, <1>3, <1>5 DEF NoHold
<1>7. /\ SeekPause \in Seq(Item) /\ q \in Seq(Item) /\ Fit(q)
      /\ Ahead(q) = {<<"ask", "parser">>, <<"ask", "audio">>} \cup
           (Ahead(t) \ {<<"touch", "parser">>, <<"touch", "audio">>, <<"open", "seek">>})
  BY <1>5, <1>6, SeekPauseInFront
<1>8. SeekItems \in Seq(Item) /\ SeekItems \o r = q
  <2> DEFINE p == SeekPause \o <<b>>
  <2>1. p \in Seq(Item) /\ p \o SeekUnPause("seek") \in Seq(Item) /\ <<b>> \in Seq(Item)
    BY <1>1, <1>5, <1>7, Two, Cat
  <2>2. (p \o SeekUnPause("seek")) \o r = p \o s
    BY <1>1, <2>1, Cat DEF s
  <2>3. p \o s = q
    BY <1>1, <1>7, <2>1, Cat DEF t, Puts
  <2>4. QED
    BY <2>1, <2>2, <2>3 DEF SeekItems, b
<1> HIDE DEF q
<1>9. Ahead(q) = ({"ask"} \X Workers) \cup {<<"run", "parser">>, <<"run", "audio">>} \cup Ahead(r)
  <2>1. \A k \in Ahead(r) : k # <<"touch", "parser">> /\ k # <<"touch", "audio">> /\ k # <<"open", "seek">>
    BY DEF NoTouch, Workers
  <2>2. \A k : k \in {"ask"} \X Workers =>
          k # <<"touch", "parser">> /\ k # <<"touch", "audio">> /\ k # <<"open", "seek">>
    OBVIOUS
  <2>3. \A k : k \in {"touch"} \X {"parser", "audio"} <=> k = <<"touch", "parser">> \/ k = <<"touch", "audio">>
    OBVIOUS
  <2>4. {<<"ask", "parser">>, <<"ask", "audio">>} \subseteq {"ask"} \X Workers
    BY DEF Workers
  <2>5. QED
    BY <1>1, <1>3, <1>5, <1>7, <2>1, <2>2, <2>3, <2>4
<1>10. QED
  BY <1>7, <1>8, <1>9

\* The seek that succeeds.
LEMMA PlayInFront ==
  ASSUME NEW r \in Seq(Item), Fit(r), <<"touch", "parser">> \notin Ahead(r)
  PROVE  LET q == SeekAndPlay \o r
         IN  /\ SeekAndPlay \in Seq(Item) /\ q \in Seq(Item) /\ Fit(q)
             /\ Ahead(q) = {<<"touch", "parser">>, <<"touch", "audio">>, <<"ask", "parser">>,
                            <<"run", "parser">>} \cup Ahead(r)
<1> DEFINE s == Puts(Do("play"), r)
           t == Puts(Set("parser", "RUNNING"), s)
           q == Puts(Touch({"parser", "audio"}), t)
<1>0. /\ "parser" \in Workers /\ "audio" \in Workers /\ {"parser", "audio"} \in SUBSET Workers
      /\ "engine" \notin {"parser", "audio"}
  BY DEF Workers
<1>1. s \in Seq(Item) /\ Fit(s) /\ Ahead(s) = Ahead(r)
  BY IdleItems
<1> HIDE DEF s
<1>2. t \in Seq(Item) /\ Fit(t) /\ Ahead(t) = {<<"ask", "parser">>, <<"run", "parser">>} \cup Ahead(s)
  BY <1>0, <1>1, AskInFront
<1> HIDE DEF t
<1>3. q \in Seq(Item) /\ Fit(q) /\ Ahead(q) = ({"touch"} \X {"parser", "audio"}) \cup Ahead(t)
  <2> DEFINE ws == {"parser", "audio"}
  <2>1. ws \in SUBSET Workers /\ "engine" \notin ws
    BY <1>0
  <2> HIDE DEF ws
  <2>2. /\ Puts(Touch(ws), t) \in Seq(Item) /\ Fit(Puts(Touch(ws), t))
        /\ Ahead(Puts(Touch(ws), t)) = ({"touch"} \X ws) \cup {} \cup Ahead(t)
    BY <1>2, <2>1, TouchInFront
  <2>3. QED
    BY <2>2 DEF ws
<1>4. SeekAndPlay \in Seq(Item) /\ SeekAndPlay \o r = q
  <2>1. Touch({"parser", "audio"}) \in Item /\ Set("parser", "RUNNING") \in Item /\ Do("play") \in Item
    BY <1>0 DEF Touch, Set, Do, Item, Modes
  <2>2. QED
    BY <2>1, Three DEF SeekAndPlay, s, t
<1> HIDE DEF q
<1>5. {"touch"} \X {"parser", "audio"} = {<<"touch", "parser">>, <<"touch", "audio">>}
  OBVIOUS
<1>6. QED
  BY <1>1, <1>2, <1>3, <1>4, <1>5

\* Leaving normal speed, or not.
LEMMA FlushInFront ==
  ASSUME NEW r \in Seq(Item), Fit(r), NoTouch(Ahead(r)), Sink \notin Ahead(r)
  PROVE  LET p == <<Touch({"engine", "sub"})>> \o r
             q == <<Try("audio", "IDLE"), Touch({"engine", "sub", "audio"}), Try("audio", "RUNNING")>> \o r
         IN  /\ p \in Seq(Item) /\ Fit(p) /\ q \in Seq(Item) /\ Fit(q)
             /\ Ahead(p) = {<<"touch", "engine">>, <<"touch", "sub">>, Later} \cup Ahead(r)
             /\ Ahead(q) = {<<"touch", "engine">>, <<"touch", "sub">>, Later, <<"ask", "audio">>,
                            <<"run", "audio">>} \cup Ahead(r)
<1> DEFINE p == Puts(Touch({"engine", "sub"}), r)
           s == Puts(Try("audio", "RUNNING"), r)
           t == Puts(Touch({"engine", "sub", "audio"}), s)
           q == Puts(Try("audio", "IDLE"), t)
<1>0. /\ "audio" \in Workers /\ {"engine", "sub"} \in SUBSET Workers
      /\ {"engine", "sub", "audio"} \in SUBSET Workers
  BY DEF Workers
<1>1. /\ p \in Seq(Item) /\ Fit(p)
      /\ Ahead(p) = ({"touch"} \X {"engine", "sub"}) \cup {Later} \cup Ahead(r)
  BY <1>0, TouchInFront
<1> HIDE DEF p
<1>2. s \in Seq(Item) /\ Fit(s) /\ Ahead(s) = {<<"ask", "audio">>, <<"run", "audio">>} \cup Ahead(r)
  BY <1>0, TryInFront, AskInFront DEF NoTouch
<1> HIDE DEF s
<1>3. /\ t \in Seq(Item) /\ Fit(t)
      /\ Ahead(t) = ({"touch"} \X {"engine", "sub", "audio"}) \cup {Later} \cup Ahead(s)
  BY <1>0, <1>2, TouchInFront
<1> HIDE DEF t
<1>4. <<"run", "audio">> \in Ahead(t) /\ <<"touch", "audio">> \notin Ahead(s)
  BY <1>0, <1>2, <1>3 DEF NoTouch
<1>5. q \in Seq(Item) /\ Fit(q) /\ Ahead(q) = {<<"ask", "audio">>} \cup (Ahead(t) \ {<<"touch", "audio">>})
  BY <1>0, <1>3, <1>4, TryInFront, AskInFront
<1>6. <<Touch({"engine", "sub"})>> \o r = p
  BY DEF p, Puts
<1>7. <<Try("audio", "IDLE"), Touch({"engine", "sub", "audio"}), Try("audio", "RUNNING")>> \o r = q
  <2>1. /\ Try("audio", "IDLE") \in Item /\ Touch({"engine", "sub", "audio"}) \in Item
        /\ Try("audio", "RUNNING") \in Item
    BY <1>0 DEF Touch, Try, Item, Modes
  <2>2. QED
    BY <2>1, Three DEF s, t
<1> HIDE DEF q
<1>8. /\ {"touch"} \X {"engine", "sub"} = {<<"touch", "engine">>, <<"touch", "sub">>}
      /\ {"touch"} \X {"engine", "sub", "audio"} =
           {<<"touch", "engine">>, <<"touch", "sub">>, <<"touch", "audio">>}
  OBVIOUS
<1>9. Ahead(q) = {<<"touch", "engine">>, <<"touch", "sub">>, Later, <<"ask", "audio">>,
                            <<"run", "audio">>} \cup Ahead(r)
  BY <1>2, <1>3, <1>4, <1>5, <1>8 DEF Later
<1>10. QED
  BY <1>1, <1>5, <1>6, <1>7, <1>8, <1>9

\* The change of speed itself; nothing comes after it.
SpeedWay ==
  SetBoth("engine", "sub", "IDLE") \o <<At("flush", "branch")>>
    \o SetBoth("engine", "sub", "RUNNING") \o UnPauseAt("call")

LEMMA SpeedInFront ==
  ASSUME NEW r \in Seq(Item), Fit(r), Ahead(r) = {}
  PROVE  LET q == SpeedWay \o r
         IN  /\ q \in Seq(Item) /\ Fit(q)
             /\ Ahead(q) = ({"ask"} \X Workers)
                              \cup {<<"open", "call">>, <<"run", "engine">>, <<"run", "sub">>}
<1> DEFINE b == At("flush", "branch")
           u == Puts(At("call", "unpause"), r)
           v == SetBoth("engine", "sub", "RUNNING") \o u
           s == Puts(b, v)
           q == SetBoth("engine", "sub", "IDLE") \o s
<1>0. "call" \in Levels /\ "flush" \in Ways
  BY DEF Levels, Ways
<1>1. u \in Seq(Item) /\ Fit(u) /\ Ahead(u) = {<<"open", "call">>}
  <2>1. NoHold(Ahead(r)) /\ <<"open", "call">> \notin Ahead(r) /\ Sink \notin Ahead(r)
    BY DEF NoHold
  <2> DEFINE l == "call"
  <2>2. l \in Levels /\ <<"open", l>> \notin Ahead(r) /\ (l = "call" => Sink \notin Ahead(r))
    BY <1>0, <2>1
  <2> HIDE DEF l
  <2>3. /\ Puts(At(l, "unpause"), r) \in Seq(Item) /\ Fit(Puts(At(l, "unpause"), r))
        /\ Ahead(Puts(At(l, "unpause"), r)) = {<<"open", l>>} \cup Ahead(r)
    BY <2>1, <2>2, UnPauseInFront
  <2>4. QED
    BY <2>3 DEF l
<1> HIDE DEF u
<1>2. /\ v \in Seq(Item) /\ Fit(v)
      /\ Ahead(v) = {<<"ask", "engine">>, <<"ask", "sub">>, <<"run", "engine">>, <<"run", "sub">>,
                     <<"open", "call">>}
  <2>1. <<"touch", "engine">> \notin Ahead(u) /\ <<"touch", "sub">> \notin Ahead(u)
    BY <1>1
  <2>2. QED
    BY <1>1, <2>1, RunBoth
<1> HIDE DEF v
<1>3. b.do = "branch" /\ b.of = "flush"
  BY DEF At
<1>4. Adds(b) = ({"ask"} \X Workers) \cup ({"touch"} \X {"engine", "sub"})
  BY <1>3 DEF Adds
<1>5. Fits(b, Ahead(v))
  <2>1. NoTouch(Ahead(v)) /\ Sink \notin Ahead(v)
    BY <1>2 DEF NoTouch, Sink
  <2>2. QED
    BY <1>3, <2>1 DEF Fits
<1>6. b \in Item /\ s \in Seq(Item) /\ Fit(s) /\ Ahead(s) = Adds(b) \cup Ahead(v)
  BY <1>0, <1>2, <1>5, BranchInFront
<1> HIDE DEF s, b
<1>7. /\ q \in Seq(Item) /\ Fit(q)
      /\ Ahead(q) = {<<"ask", "engine">>, <<"ask", "sub">>} \cup
                             (Ahead(s) \ {<<"touch", "engine">>, <<"touch", "sub">>})
  BY <1>2, <1>6, StopBoth
<1>8. SpeedWay \o r = q
  <2> DEFINE B(m) == SetBoth("engine", "sub", m)
  <2>1. B("IDLE") \in Seq(Item) /\ B("RUNNING") \in Seq(Item) /\ <<b>> \in Seq(Item)
    BY <1>1, <1>6, BothInFront, Two DEF Modes
  <2>2. UnPauseAt("call") \in Seq(Item) /\ UnPauseAt("call") \o r = u
    BY <1>0, UnPauseIs DEF u
  <2>3. s = <<b>> \o v
    BY DEF s, Puts
  <2> HIDE DEF B
  <2>4. /\ B("IDLE") \o <<b>> \in Seq(Item)
        /\ (B("IDLE") \o <<b>>) \o B("RUNNING") \in Seq(Item)
    BY <2>1, Cat
  <2>5. (((B("IDLE") \o <<b>>) \o B("RUNNING")) \o UnPauseAt("call")) \o r
          = ((B("IDLE") \o <<b>>) \o B("RUNNING")) \o u
    <3>1. UnPauseAt("call") \in Seq(Item) /\ r \in Seq(Item)
      BY <1>0, <2>2
    <3>2. \A p \in Seq(Item) : (p \o UnPauseAt("call")) \o r = p \o u
      BY <2>2, <3>1, Cat
    <3>3. QED
      BY <2>4, <3>2
  <2>6. ((B("IDLE") \o <<b>>) \o B("RUNNING")) \o u = (B("IDLE") \o <<b>>) \o (B("RUNNING") \o u)
    BY <1>1, <2>1, <2>4, Cat
  <2>7. (B("IDLE") \o <<b>>) \o (B("RUNNING") \o u) = B("IDLE") \o s
    BY <1>1, <1>2, <2>1, <2>3, Cat DEF v, B
  <2>8. QED
    BY <2>5, <2>6, <2>7 DEF SpeedWay, B, b
<1> HIDE DEF q
<1>9. {"touch"} \X {"engine", "sub"} = {<<"touch", "engine">>, <<"touch", "sub">>}
  OBVIOUS
<1>10. \A k \in {"ask"} \X Workers : k # <<"touch", "engine">> /\ k # <<"touch", "sub">>
  OBVIOUS
<1>11. {<<"ask", "engine">>, <<"ask", "sub">>} \subseteq {"ask"} \X Workers
  BY DEF Workers
<1>12. Ahead(q) = ({"ask"} \X Workers)
                              \cup {<<"open", "call">>, <<"run", "engine">>, <<"run", "sub">>}
  BY <1>2, <1>4, <1>6, <1>7, <1>9, <1>10, <1>11
<1>13. QED
  BY <1>7, <1>8, <1>12

\* What a branch becomes fits its place, and adds no mark but those the branch has.
Narrower(new, old) ==
  /\ \A w \in Workers :
       /\ <<"run", w>> \in old => <<"run", w>> \in new
       /\ <<"touch", w>> \in new => <<"touch", w>> \in old
       /\ <<"ask", w>> \in new => <<"ask", w>> \in old
  /\ \A l \in Levels :
       /\ <<"open", l>> \in new <=> <<"open", l>> \in old
       /\ <<"hold", l>> \in new => <<"hold", l>> \in old
  /\ Again \in old => Again \in new
  /\ Leave \in new <=> Leave \in old
  /\ Resumed \in new <=> Resumed \in old
  /\ Sink \in new => Sink \in old
  /\ Later \in old => Later \in new
  /\ Waited \in new => Waited \in old

LEMMA BranchStep ==
  ASSUME NEW way \in Ways, NEW r \in Seq(Item), Fit(Puts(At(way, "branch"), r)),
         NEW p \in WaysOn(way)
  PROVE  /\ p \o r \in Seq(Item) /\ Fit(p \o r)
         /\ Narrower(Ahead(p \o r), Ahead(Puts(At(way, "branch"), r)))
<1> DEFINE b == At(way, "branch")
           old == Ahead(Puts(b, r))
           a == Ahead(r)
<1>1. old = Adds(b) \cup a /\ Fits(b, a) /\ Fit(r) /\ b.do = "branch" /\ b.of = way
  BY BranchInFront DEF At
<1>2. \A w \in Workers : <<"ask", w>> \in old
  BY <1>1 DEF Adds
<1> HIDE DEF old
<1>3. <<>> \o r = r
  BY ConcatEmptySeq
<1>4. Narrower(a, old) \/ way \in {"drop", "speed"}
  BY <1>1 DEF Narrower, Adds, Ways, Again, Leave, Resumed, Sink, Later, Waited
<1>5. CASE way = "seek"
  <2>1. /\ NoTouch(a) /\ <<"touch", "parser">> \in old /\ <<"touch", "audio">> \in old
        /\ <<"touch", "parser">> \notin a
    BY <1>1, <1>5 DEF Adds, Fits, NoTouch, Workers
  <2>2. CASE p = <<>>
    BY <1>1, <1>3, <1>4, <1>5, <2>2 DEF old
  <2>3. CASE p = <<Touch({"parser", "audio"})>>
    <3> DEFINE ws == {"parser", "audio"}
    <3>1. ws \in SUBSET Workers /\ "engine" \notin ws /\ p \o r = Puts(Touch(ws), r)
      BY <2>3 DEF Workers, Puts
    <3>2. \A k : k \in {"touch"} \X ws <=> k = <<"touch", "parser">> \/ k = <<"touch", "audio">>
      OBVIOUS
    <3> HIDE DEF ws
    <3>3. p \o r \in Seq(Item) /\ Fit(p \o r) /\ Ahead(p \o r) = ({"touch"} \X ws) \cup {} \cup a
      BY <1>1, <3>1, TouchInFront
    <3>4. Narrower(Ahead(p \o r), old)
      BY <1>2, <1>4, <1>5, <2>1, <3>2, <3>3 DEF Narrower, Again, Leave, Resumed, Sink, Later, Waited
    <3>5. QED
      BY <3>3, <3>4 DEF old
  <2>4. CASE p = SeekAndPlay
    <3>1. /\ p \o r \in Seq(Item) /\ Fit(p \o r)
          /\ Ahead(p \o r) = {<<"touch", "parser">>, <<"touch", "audio">>, <<"ask", "parser">>,
                            <<"run", "parser">>} \cup a
      BY <1>1, <2>1, <2>4, PlayInFront
    <3>2. Narrower(Ahead(p \o r), old)
      BY <1>2, <1>4, <1>5, <2>1, <3>1 DEF Narrower, Again, Leave, Resumed, Sink, Later, Waited
    <3>3. QED
      BY <3>1, <3>2 DEF old
  <2>5. QED
    BY <1>5, <2>2, <2>3, <2>4 DEF WaysOn
<1>6. CASE way = "reseek"
  <2>1. NoTouch(a) /\ NoHold(a) /\ <<"open", "seek">> \notin a
    BY <1>1, <1>6 DEF Fits
  <2>2. CASE p = <<>>
    BY <1>1, <1>3, <1>4, <1>6, <2>2 DEF old
  <2>3. CASE p = SeekItems
    <3>1. /\ p \o r \in Seq(Item) /\ Fit(p \o r)
          /\ Ahead(p \o r) = ({"ask"} \X Workers) \cup {<<"run", "parser">>, <<"run", "audio">>} \cup a
      BY <1>1, <2>1, <2>3, SeekInFront
    <3>2. Narrower(Ahead(p \o r), old)
      BY <1>2, <1>4, <1>6, <3>1 DEF Narrower, Again, Leave, Resumed, Sink, Later, Waited
    <3>3. QED
      BY <3>1, <3>2 DEF old
  <2>4. QED
    BY <1>6, <2>2, <2>3 DEF WaysOn
<1>7. CASE way = "speed"
  <2>1. a = {} /\ old = ({"ask"} \X Workers) \cup {<<"open", "call">>}
    BY <1>1, <1>7 DEF Fits, Adds
  <2>2. CASE p = SeekUnPause("call")
    <3> DEFINE l == "call"
    <3>1. l \in Levels /\ <<"open", l>> \notin a /\ (l = "call" => Sink \notin a) /\ NoTouch(a) /\ NoHold(a)
      BY <2>1 DEF Levels, NoTouch, NoHold
    <3> HIDE DEF l
    <3>2. /\ SeekUnPause(l) \o r \in Seq(Item) /\ Fit(SeekUnPause(l) \o r)
          /\ Ahead(SeekUnPause(l) \o r) = {<<"open", l>>, <<"ask", "parser">>, <<"ask", "audio">>,
                            <<"run", "parser">>, <<"run", "audio">>} \cup a
      BY <1>1, <3>1, SeekUnPauseInFront
    <3>3. /\ p \o r \in Seq(Item) /\ Fit(p \o r)
          /\ Ahead(p \o r) = {<<"open", "call">>, <<"ask", "parser">>, <<"ask", "audio">>,
                            <<"run", "parser">>, <<"run", "audio">>}
      BY <2>1, <2>2, <3>2 DEF l
    <3>4. Narrower(Ahead(p \o r), old)
      BY <1>2, <2>1, <3>3 DEF Narrower, Again, Leave, Resumed, Sink, Later, Waited
    <3>5. QED
      BY <3>3, <3>4 DEF old
  <2>3. CASE p = SpeedWay
    <3>1. /\ p \o r \in Seq(Item) /\ Fit(p \o r)
          /\ Ahead(p \o r) = ({"ask"} \X Workers)
                              \cup {<<"open", "call">>, <<"run", "engine">>, <<"run", "sub">>}
      BY <1>1, <2>1, <2>3, SpeedInFront
    <3>2. Narrower(Ahead(p \o r), old)
      BY <1>2, <2>1, <3>1 DEF Narrower, Again, Leave, Resumed, Sink, Later, Waited
    <3>3. QED
      BY <3>1, <3>2 DEF old
  <2>4. QED
    BY <1>7, <2>2, <2>3 DEF WaysOn, SpeedWay
<1>8. CASE way = "flush"
  <2>1. /\ NoTouch(a) /\ Sink \notin a /\ <<"touch", "engine">> \in old /\ <<"touch", "sub">> \in old
    BY <1>1, <1>8 DEF Fits, Adds
  <2>2. /\ p \o r \in Seq(Item) /\ Fit(p \o r)
        /\ \/ Ahead(p \o r) = {<<"touch", "engine">>, <<"touch", "sub">>, Later} \cup a
           \/ Ahead(p \o r) = {<<"touch", "engine">>, <<"touch", "sub">>, Later, <<"ask", "audio">>,
                            <<"run", "audio">>} \cup a
    BY <1>1, <1>8, <2>1, FlushInFront DEF WaysOn
  <2>3. Narrower(Ahead(p \o r), old)
    BY <1>2, <1>4, <1>8, <2>1, <2>2 DEF Narrower, Again, Leave, Resumed, Sink, Later, Waited
  <2>4. QED
    BY <2>2, <2>3 DEF old
<1>9. CASE way = "drop"
  <2>1. Again \in a /\ Later \notin a /\ old = ({"ask"} \X Workers) \cup {Sink} \cup a
    BY <1>1, <1>9 DEF Fits, Adds
  <2>2. CASE p = <<>>
    <3>1. Narrower(a, old)
      BY <2>1 DEF Narrower, Again, Leave, Resumed, Sink, Later, Waited
    <3>2. QED
      BY <1>1, <1>3, <2>2, <3>1 DEF old
  <2>3. CASE p = <<Do("drop")>>
    <3>1. p \o r = Puts(Do("drop"), r)
      BY <2>3 DEF Puts
    <3>2. p \o r \in Seq(Item) /\ Fit(p \o r) /\ Ahead(p \o r) = {Sink} \cup a
      BY <1>1, <2>1, <3>1, DoInFront
    <3>3. Narrower(Ahead(p \o r), old)
      BY <1>2, <2>1, <3>2 DEF Narrower, Again, Leave, Resumed, Sink, Later, Waited
    <3>4. QED
      BY <3>2, <3>3 DEF old
  <2>4. QED
    BY <1>9, <2>2, <2>3 DEF WaysOn
<1>10. QED
  BY <1>5, <1>6, <1>7, <1>8, <1>9 DEF Ways

-----------------------------------------------------------------------------
(* The calls. *)

\* The provers take \o apart; Then is left whole.
Then(p, q) == p \o q

LEMMA ThenThen ==
  ASSUME NEW p \in Seq(Item), NEW q \in Seq(Item), NEW r \in Seq(Item)
  PROVE  Then(p, q) \in Seq(Item) /\ Then(Then(p, q), r) = Then(p, Then(q, r))
BY Cat DEF Then

LEMMA ThenFour ==
  ASSUME NEW p \in Seq(Item), NEW q \in Seq(Item), NEW r \in Seq(Item), NEW s \in Seq(Item)
  PROVE  /\ Then(Then(p, q), r) \in Seq(Item)
         /\ Then(Then(Then(p, q), r), s) = Then(p, Then(q, Then(r, s)))
<1>1. Then(p, q) \in Seq(Item) /\ Then(r, s) \in Seq(Item)
  BY ThenThen
<1>2. Then(Then(p, q), r) \in Seq(Item)
  BY <1>1, ThenThen
<1>3. Then(Then(Then(p, q), r), s) = Then(Then(p, q), Then(r, s))
  BY <1>1, ThenThen
<1>4. Then(Then(p, q), Then(r, s)) = Then(p, Then(q, Then(r, s)))
  BY <1>1, ThenThen
<1>5. QED
  BY <1>2, <1>3, <1>4

LEMMA ThenFive ==
  ASSUME NEW p \in Seq(Item), NEW q \in Seq(Item), NEW r \in Seq(Item), NEW s \in Seq(Item),
         NEW t \in Seq(Item)
  PROVE  Then(Then(Then(Then(p, q), r), s), t) = Then(p, Then(q, Then(r, Then(s, t))))
<1>1. Then(Then(p, q), r) \in Seq(Item) /\ Then(s, t) \in Seq(Item)
  BY ThenFour, ThenThen
<1>2. Then(Then(Then(Then(p, q), r), s), t) = Then(Then(Then(p, q), r), Then(s, t))
  BY <1>1, ThenThen
<1>3. Then(Then(Then(p, q), r), Then(s, t)) = Then(p, Then(q, Then(r, Then(s, t))))
  BY <1>1, ThenFour
<1>4. QED
  BY <1>2, <1>3

\* A list a caller may take up at any time.
Fresh(a) ==
  /\ NoTouch(a) /\ NoHold(a) /\ Sink \notin a /\ Waited \notin a
  /\ \A l \in Levels : <<"open", l>> \notin a

Good(q) == q \in Seq(Item) /\ Fit(q) /\ Fresh(Ahead(q))

LEMMA Nothing == <<>> \in Seq(Item) /\ Good(<<>>)
BY NoMarks DEF Good, Fresh, NoTouch, NoHold

LEMMA SingleIs ==
  ASSUME NEW x \in Item
  PROVE  <<x>> = Puts(x, <<>>)
<1>1. <<x>> \in Seq(Item)
  BY Two
<1>2. QED
  BY <1>1, ConcatEmptySeq DEF Puts

LEMMA SeekFits == Good(SeekItems) /\ Leave \notin Ahead(SeekItems) /\ Resumed \notin Ahead(SeekItems)
<1> DEFINE r == <<>>
<1>1. r \in Seq(Item) /\ Fit(r) /\ Ahead(r) = {}
  BY Nothing, NoMarks
<1> HIDE DEF r
<1>2. NoTouch(Ahead(r)) /\ NoHold(Ahead(r)) /\ <<"open", "seek">> \notin Ahead(r)
  BY <1>1 DEF NoTouch, NoHold
<1>3. /\ SeekItems \in Seq(Item) /\ Fit(SeekItems \o r)
      /\ Ahead(SeekItems \o r) = ({"ask"} \X Workers) \cup {<<"run", "parser">>, <<"run", "audio">>}
                                    \cup Ahead(r)
  BY <1>1, <1>2, SeekInFront
<1>4. SeekItems \o r = SeekItems
  BY <1>3, ConcatEmptySeq DEF r
<1>5. Ahead(SeekItems) = ({"ask"} \X Workers) \cup {<<"run", "parser">>, <<"run", "audio">>}
  BY <1>1, <1>3, <1>4
<1>6. Fit(SeekItems) /\ SeekItems \in Seq(Item)
  BY <1>3, <1>4
<1>7. QED
  BY <1>5, <1>6 DEF Good, Fresh, NoTouch, NoHold, Leave, Resumed, Sink, Waited

LEMMA SpeedFits == Good(SpeedItems) /\ Leave \notin Ahead(SpeedItems) /\ Resumed \notin Ahead(SpeedItems)
<1> DEFINE way == "speed"
           b == At(way, "branch")
           s == Puts(b, <<>>)
           l == "call"
<1>1. /\ b.do = "branch" /\ b.of = way /\ way \in Ways /\ l \in Levels
      /\ Adds(b) = ({"ask"} \X Workers) \cup {<<"open", "call">>} /\ Fits(b, {})
  BY DEF At, Adds, Fits, Ways, Levels
<1> HIDE DEF way
<1>2. b \in Item /\ s \in Seq(Item) /\ Fit(s) /\ Ahead(s) = Adds(b)
  BY <1>1, BranchInFront, Nothing, NoMarks
<1> HIDE DEF b, s
<1>3. /\ <<"open", l>> \in Ahead(s) /\ NoHold(Ahead(s)) /\ Sink \notin Ahead(s)
      /\ <<"open", "seek">> \notin Ahead(s)
  BY <1>1, <1>2 DEF NoHold, Sink
<1> HIDE DEF l
<1>4. /\ PauseAt(l) \in Seq(Item) /\ PauseAt(l) \o s \in Seq(Item) /\ Fit(PauseAt(l) \o s)
      /\ Ahead(PauseAt(l) \o s) = Ahead(s) \ ({<<"open", l>>} \cup (IF l = "call" THEN {Sink} ELSE {}))
  BY <1>1, <1>2, <1>3, PauseInFront
<1>5. SpeedItems = PauseAt(l) \o s
  BY <1>2, SingleIs DEF SpeedItems, l, s, b, way
<1>6. Ahead(SpeedItems) = {"ask"} \X Workers
  <2>1. \A k \in {"ask"} \X Workers : k # <<"open", "call">> /\ k # Sink
    BY DEF Sink
  <2>2. QED
    BY <1>1, <1>2, <1>4, <1>5, <2>1 DEF l
<1>7. QED
  BY <1>4, <1>5, <1>6 DEF Good, Fresh, NoTouch, NoHold, Leave, Resumed, Sink, Waited

LEMMA ResumeFits == Good(<<Do("resume")>>) /\ Ahead(<<Do("resume")>>) = {Resumed}
<1> DEFINE s == Puts(Do("resume"), <<>>)
<1>1. NoHold(Ahead(<<>>)) /\ Sink \notin Ahead(<<>>)
  BY NoMarks DEF NoHold
<1>2. s \in Seq(Item) /\ Fit(s) /\ Ahead(s) = {Resumed}
  BY <1>1, DoInFront, Nothing, NoMarks
<1>3. <<Do("resume")>> = s
  <2>1. Do("resume") \in Item
    BY DEF Do, Item
  <2>2. QED
    BY <2>1, SingleIs
<1>4. QED
  BY <1>2, <1>3 DEF Good, Fresh, NoTouch, NoHold, Resumed, Sink, Waited

\* stream_pause by itself pauses and leaves it at that: its list does not fit.
LEMMA PauseIs ==
  /\ PauseAt("call") = Puts(At("call", "look"), <<At("call", "hold")>>)
  /\ PauseAt("call") \in Seq(Item) /\ Ahead(PauseAt("call")) = {}
  /\ <<At("call", "hold")>> = Puts(At("call", "hold"), <<>>)
  /\ <<At("call", "hold")>> \in Seq(Item) /\ Ahead(<<At("call", "hold")>>) = {<<"hold", "call">>}
<1> DEFINE l == "call"
           s == Puts(At(l, "hold"), <<>>)
<1>1. l \in Levels /\ At(l, "hold") \in Item /\ At(l, "look") \in Item
  BY DEF Levels, At, Item
<1>2. <<At(l, "hold")>> = s
  BY <1>1, SingleIs
<1> HIDE DEF l
<1> DEFINE r == <<>>
<1>8. r \in Seq(Item) /\ Ahead(r) = {}
  BY Nothing, NoMarks
<1> HIDE DEF r
<1>9. /\ Puts(At(l, "hold"), r) \in Seq(Item)
      /\ Ahead(Puts(At(l, "hold"), r)) =
              {<<"hold", l>>} \cup (Ahead(r) \ (IF l = "call" THEN {Sink} ELSE {}))
  BY <1>1, <1>8, HoldInFront
<1>3. s \in Seq(Item) /\ Ahead(s) = {<<"hold", l>>}
  BY <1>8, <1>9 DEF r
<1> HIDE DEF s
<1>4. /\ Puts(At(l, "look"), s) \in Seq(Item)
      /\ Ahead(Puts(At(l, "look"), s)) = Ahead(s) \ {<<"open", l>>, <<"hold", l>>}
  BY <1>1, <1>3, LookInFront
<1>5. PauseAt(l) = Puts(At(l, "look"), s)
  <2>1. <<At(l, "look"), At(l, "hold")>> \o <<>> = Puts(At(l, "look"), s)
    BY <1>1, Two, Nothing DEF s
  <2>2. <<At(l, "look"), At(l, "hold")>> \in Seq(Item)
    BY <1>1, Two
  <2>3. QED
    BY <2>1, <2>2, ConcatEmptySeq DEF PauseAt
<1>6. Ahead(PauseAt(l)) = {}
  BY <1>3, <1>4, <1>5
<1>7. QED
  BY <1>2, <1>3, <1>4, <1>5, <1>6 DEF l, s

LEMMA StartSinkInFront ==
  /\ StartSink \in Seq(Item) /\ Fit(StartSink)
  /\ Ahead(StartSink) = ({"ask"} \X Workers) \cup {Again, Sink, <<"open", "call">>,
       <<"run", "engine">>, <<"run", "sub">>, <<"run", "audio">>}
<1> DEFINE l == "call"
           way == "drop"
           b == At(way, "branch")
           u1 == UnPauseAt(l)
           u2 == SetBoth("engine", "sub", "RUNNING") \o u1
           u3 == Puts(Set("audio", "RUNNING"), u2)
           u4 == Puts(b, u3)
           u5 == Puts(Do("sink"), u4)
<1>0. l \in Levels /\ "audio" \in Workers /\ way \in Ways /\ At(l, "unpause") \in Item
  BY DEF Levels, Workers, Ways, At, Item
<1>1. u1 \in Seq(Item) /\ Fit(u1) /\ Ahead(u1) = {<<"open", "call">>}
  <2> DEFINE r == <<>>
  <2>1. r \in Seq(Item) /\ Fit(r) /\ Ahead(r) = {} /\ UnPauseAt(l) = Puts(At(l, "unpause"), r)
    BY <1>0, Nothing, NoMarks, SingleIs DEF UnPauseAt
  <2> HIDE DEF r, l
  <2>2. /\ Puts(At(l, "unpause"), r) \in Seq(Item) /\ Fit(Puts(At(l, "unpause"), r))
        /\ Ahead(Puts(At(l, "unpause"), r)) = {<<"open", l>>} \cup Ahead(r)
    BY <1>0, <2>1, UnPauseInFront DEF NoHold
  <2>3. QED
    BY <2>1, <2>2 DEF l
<1> HIDE DEF u1
<1>2. /\ u2 \in Seq(Item) /\ Fit(u2)
      /\ Ahead(u2) = {<<"ask", "engine">>, <<"ask", "sub">>, <<"run", "engine">>, <<"run", "sub">>,
                      <<"open", "call">>}
  <2>1. <<"touch", "engine">> \notin Ahead(u1) /\ <<"touch", "sub">> \notin Ahead(u1)
    BY <1>1
  <2>2. QED
    BY <1>1, <2>1, RunBoth
<1> HIDE DEF u2
<1>3. /\ u3 \in Seq(Item) /\ Fit(u3)
      /\ Ahead(u3) = {<<"ask", "audio">>, <<"run", "audio">>, Again} \cup Ahead(u2)
  <2>1. <<"touch", "audio">> \notin Ahead(u2)
    BY <1>2
  <2>2. QED
    BY <1>0, <1>2, <2>1, AskInFront
<1> HIDE DEF u3
<1>4. b.do = "branch" /\ b.of = "drop"
  BY DEF At
<1>5. Adds(b) = ({"ask"} \X Workers) \cup {Sink}
  BY <1>4 DEF Adds
<1>6. Fits(b, Ahead(u3)) /\ Later \notin Ahead(u3)
  <2>1. Again \in Ahead(u3) /\ Later \notin Ahead(u3)
    BY <1>2, <1>3 DEF Again, Later
  <2>2. QED
    BY <1>4, <2>1 DEF Fits
<1> HIDE DEF way
<1>7. b \in Item /\ u4 \in Seq(Item) /\ Fit(u4) /\ Ahead(u4) = Adds(b) \cup Ahead(u3)
  BY <1>0, <1>3, <1>6, BranchInFront
<1> HIDE DEF b, u4
<1>8. u5 \in Seq(Item) /\ Fit(u5) /\ Ahead(u5) = {Sink} \cup Ahead(u4)
  <2>1. Later \notin Ahead(u4)
    BY <1>5, <1>6, <1>7 DEF Later, Sink
  <2>2. QED
    BY <1>7, <2>1, DoInFront
<1>9. StartSink = u5
  <2> DEFINE p == <<Do("sink"), b, Set("audio", "RUNNING")>>
             t == SetBoth("engine", "sub", "RUNNING")
  <2>1. Do("sink") \in Item /\ Set("audio", "RUNNING") \in Item
    BY <1>0 DEF Do, Set, Item, Modes
  <2>2. p \in Seq(Item) /\ p \o u2 = u5
    BY <1>2, <1>7, <2>1, Three DEF u3, u4
  <2>3. t \in Seq(Item)
    BY <1>1, BothInFront DEF Modes
  <2> HIDE DEF p, t
  <2>4. (p \o t) \o u1 = p \o (t \o u1)
    BY <1>1, <2>2, <2>3, Cat
  <2>5. QED
    BY <2>2, <2>4 DEF StartSink, u1, u2, p, t, b, way
<1> HIDE DEF u5
<1>10. Ahead(u5) = ({"ask"} \X Workers) \cup {Again, Sink, <<"open", "call">>,
       <<"run", "engine">>, <<"run", "sub">>, <<"run", "audio">>}
  <2>1. {<<"ask", "engine">>, <<"ask", "sub">>, <<"ask", "audio">>} \subseteq {"ask"} \X Workers
    BY DEF Workers
  <2>2. QED
    BY <1>2, <1>3, <1>5, <1>7, <1>8, <2>1
<1>11. QED
  BY <1>8, <1>9, <1>10

LEMMA AudioFits == Good(AudioItems) /\ Leave \notin Ahead(AudioItems) /\ Resumed \notin Ahead(AudioItems)
<1> DEFINE l == "call"
           way == "reseek"
           b == At(way, "branch")
           ws == {"audio", "engine", "sub"}
           u1 == Puts(b, StartSink)
           u2 == Puts(Touch(ws), u1)
           u3 == SetBoth("engine", "sub", "IDLE") \o u2
           u4 == Puts(Set("audio", "IDLE"), u3)
<1>0. /\ l \in Levels /\ "audio" \in Workers /\ way \in Ways
      /\ ws \in SUBSET Workers /\ "engine" \in ws /\ "audio" \in ws
      /\ \A k : k \in {"touch"} \X ws <=>
           k \in {<<"touch", "engine">>, <<"touch", "sub">>, <<"touch", "audio">>}
  BY DEF Levels, Workers, Ways
<1> HIDE DEF ws
<1>1. b.do = "branch" /\ b.of = "reseek"
  BY DEF At
<1>2. Adds(b) = {"ask"} \X Workers
  BY <1>1 DEF Adds
<1>3. Fits(b, Ahead(StartSink))
  <2>1. NoTouch(Ahead(StartSink)) /\ NoHold(Ahead(StartSink)) /\ <<"open", "seek">> \notin Ahead(StartSink)
    BY StartSinkInFront DEF NoTouch, NoHold, Again, Sink
  <2>2. QED
    BY <1>1, <2>1 DEF Fits
<1> HIDE DEF way
<1>4. /\ b \in Item /\ u1 \in Seq(Item) /\ Fit(u1) /\ Ahead(u1) = Adds(b) \cup Ahead(StartSink)
  BY <1>0, <1>3, BranchInFront, StartSinkInFront
<1> HIDE DEF b, u1
<1>5. Ahead(u1) = Ahead(StartSink)
  BY <1>2, <1>4, StartSinkInFront
<1>6. /\ u2 \in Seq(Item) /\ Fit(u2)
      /\ Ahead(u2) = ({"touch"} \X ws) \cup {Later} \cup Ahead(StartSink)
  <2>1. u2 \in Seq(Item) /\ Fit(u2)
    BY <1>0, <1>4, TouchInFront
  <2>2. Ahead(u2) = ({"touch"} \X ws) \cup (IF "engine" \in ws THEN {Later} ELSE {}) \cup Ahead(u1)
    BY <1>0, <1>4, TouchInFront
  <2>3. QED
    BY <1>0, <1>5, <2>1, <2>2
<1> HIDE DEF u2
<1>7. /\ u3 \in Seq(Item) /\ Fit(u3)
      /\ Ahead(u3) = {<<"touch", "audio">>, Later} \cup Ahead(StartSink)
  <2>1. <<"run", "engine">> \in Ahead(u2) /\ <<"run", "sub">> \in Ahead(u2)
    BY <1>6, StartSinkInFront
  <2>2. /\ u3 \in Seq(Item) /\ Fit(u3)
        /\ Ahead(u3) = {<<"ask", "engine">>, <<"ask", "sub">>} \cup
                             (Ahead(u2) \ {<<"touch", "engine">>, <<"touch", "sub">>})
    BY <1>6, <2>1, StopBoth
  <2>3. <<"ask", "engine">> \in Ahead(StartSink) /\ <<"ask", "sub">> \in Ahead(StartSink)
    BY StartSinkInFront DEF Workers
  <2>4. <<"touch", "engine">> \notin Ahead(StartSink) /\ <<"touch", "sub">> \notin Ahead(StartSink)
    BY StartSinkInFront DEF Again, Sink
  <2>5. Later # <<"touch", "engine">> /\ Later # <<"touch", "sub">>
    BY DEF Later
  <2> HIDE DEF u3
  <2>6. Ahead(u3) = {<<"touch", "audio">>, Later} \cup Ahead(StartSink)
    BY <1>0, <1>6, <2>2, <2>3, <2>4, <2>5
  <2>7. QED
    BY <2>2, <2>6
<1> HIDE DEF u3
<1>8. /\ u4 \in Seq(Item) /\ Fit(u4)
      /\ Ahead(u4) = {Later} \cup Ahead(StartSink)
  <2>1. <<"run", "audio">> \in Ahead(u3) /\ Again \in Ahead(u3)
    BY <1>7, StartSinkInFront
  <2>2. /\ u4 \in Seq(Item) /\ Fit(u4)
        /\ Ahead(u4) = {<<"ask", "audio">>} \cup (Ahead(u3) \ {<<"touch", "audio">>})
    BY <1>0, <1>7, <2>1, AskInFront
  <2>3. <<"ask", "audio">> \in Ahead(StartSink)
    BY StartSinkInFront DEF Workers
  <2>4. <<"touch", "audio">> \notin Ahead(StartSink)
    BY StartSinkInFront DEF Again, Sink
  <2>5. QED
    BY <1>7, <2>2, <2>3, <2>4 DEF Later
<1> HIDE DEF u4
<1>9. /\ <<"open", l>> \in Ahead(u4) /\ NoHold(Ahead(u4)) /\ Later \in Ahead(u4)
      /\ <<"open", "seek">> \notin Ahead(u4)
  BY <1>8, StartSinkInFront DEF NoHold, Later, Again, Sink
<1>10. l = "call"
  OBVIOUS
<1> HIDE DEF l
<1>11. /\ PauseAt(l) \in Seq(Item) /\ PauseAt(l) \o u4 \in Seq(Item) /\ Fit(PauseAt(l) \o u4)
       /\ Ahead(PauseAt(l) \o u4) =
            Ahead(u4) \ ({<<"open", l>>} \cup (IF l = "call" THEN {Sink} ELSE {}))
  BY <1>0, <1>8, <1>9, PauseInFront
<1>12. AudioItems = PauseAt(l) \o u4
  <2> DEFINE p == PauseAt(l)
             q == <<Set("audio", "IDLE")>>
             r == SetBoth("engine", "sub", "IDLE")
             s == <<Touch(ws), b>>
             t == StartSink
  <2>1. Set("audio", "IDLE") \in Item /\ Touch(ws) \in Item
    BY <1>0 DEF Set, Touch, Item, Modes
  <2>2. p \in Seq(Item) /\ q \in Seq(Item) /\ r \in Seq(Item) /\ s \in Seq(Item) /\ t \in Seq(Item)
    BY <1>4, <1>7, <1>11, <2>1, Two, BothInFront, StartSinkInFront DEF Modes
  <2>3. s \o t = u2
    BY <1>4, <2>1, Two, StartSinkInFront DEF u1, u2
  <2>4. r \o (s \o t) = u3
    BY <2>3 DEF u3
  <2>5. q \o (r \o (s \o t)) = u4
    BY <2>4 DEF u4, Puts
  <2>6. AudioItems = Then(Then(Then(Then(p, q), r), s), t)
    BY DEF AudioItems, l, ws, b, way, Then
  <2> HIDE DEF p, q, r, s, t
  <2>7. u4 = Then(q, Then(r, Then(s, t)))
    BY <2>5 DEF Then
  <2>8. Then(Then(Then(Then(p, q), r), s), t) = Then(p, u4)
    BY <2>2, <2>7, ThenFive
  <2>9. QED
    BY <2>6, <2>8 DEF p, Then
<1>13. Ahead(AudioItems) \subseteq ({"ask"} \X Workers) \cup {Again, Later,
         <<"run", "engine">>, <<"run", "sub">>, <<"run", "audio">>}
  BY <1>8, <1>10, <1>11, <1>12, StartSinkInFront
<1>14. Fresh(Ahead(AudioItems)) /\ Leave \notin Ahead(AudioItems) /\ Resumed \notin Ahead(AudioItems)
  BY <1>13 DEF Fresh, NoTouch, NoHold, Leave, Resumed, Sink, Waited, Again, Later
<1>15. QED
  BY <1>11, <1>12, <1>14 DEF Good

LEMMA SubtitleFits ==
  Good(SubtitleItems) /\ Leave \notin Ahead(SubtitleItems) /\ Resumed \notin Ahead(SubtitleItems)
<1> DEFINE l == "call"
           way == "reseek"
           b == At(way, "branch")
           ws == {"engine", "sub"}
           n == <<>>
           u1 == Puts(b, n)
           u2 == Puts(At(l, "unpause"), u1)
           u3 == SetBoth("engine", "sub", "RUNNING") \o u2
           u4 == Puts(Touch(ws), u3)
           u5 == SetBoth("engine", "sub", "IDLE") \o u4
<1>0. /\ l \in Levels /\ way \in Ways /\ At(l, "unpause") \in Item
      /\ ws \in SUBSET Workers /\ "engine" \in ws
      /\ \A k : k \in {"touch"} \X ws <=> k \in {<<"touch", "engine">>, <<"touch", "sub">>}
      /\ Touch(ws) \in Item
  BY DEF Levels, Workers, Ways, At, Touch, Item
<1> HIDE DEF ws
<1>1. b.do = "branch" /\ b.of = "reseek"
  BY DEF At
<1>2. Adds(b) = {"ask"} \X Workers
  BY <1>1 DEF Adds
<1>3. n \in Seq(Item) /\ Fit(n) /\ Ahead(n) = {}
  BY Nothing, NoMarks
<1> HIDE DEF n
<1>4. Fits(b, Ahead(n))
  <2>1. NoTouch(Ahead(n)) /\ NoHold(Ahead(n)) /\ <<"open", "seek">> \notin Ahead(n)
    BY <1>3 DEF NoTouch, NoHold
  <2>2. QED
    BY <1>1, <2>1 DEF Fits
<1> HIDE DEF way
<1>5. b \in Item /\ u1 \in Seq(Item) /\ Fit(u1) /\ Ahead(u1) = {"ask"} \X Workers
  BY <1>0, <1>2, <1>3, <1>4, BranchInFront
<1> HIDE DEF b, u1
<1>6. l = "call"
  OBVIOUS
<1> HIDE DEF l
<1>7. u2 \in Seq(Item) /\ Fit(u2) /\ Ahead(u2) = {<<"open", "call">>} \cup ({"ask"} \X Workers)
  <2>1. <<"open", l>> \notin Ahead(u1) /\ NoHold(Ahead(u1)) /\ Sink \notin Ahead(u1)
    BY <1>5, <1>6 DEF NoHold, Sink
  <2>2. QED
    BY <1>0, <1>5, <1>6, <2>1, UnPauseInFront
<1> HIDE DEF u2
<1>8. /\ u3 \in Seq(Item) /\ Fit(u3)
      /\ Ahead(u3) = {<<"open", "call">>, <<"run", "engine">>, <<"run", "sub">>} \cup ({"ask"} \X Workers)
  <2>1. <<"touch", "engine">> \notin Ahead(u2) /\ <<"touch", "sub">> \notin Ahead(u2)
    BY <1>7
  <2>2. /\ u3 \in Seq(Item) /\ Fit(u3)
        /\ Ahead(u3) = {<<"ask", "engine">>, <<"ask", "sub">>, <<"run", "engine">>, <<"run", "sub">>}
                          \cup Ahead(u2)
    BY <1>7, <2>1, RunBoth
  <2>3. {<<"ask", "engine">>, <<"ask", "sub">>} \subseteq {"ask"} \X Workers
    BY DEF Workers
  <2>4. QED
    BY <1>7, <2>2, <2>3
<1> HIDE DEF u3
<1>9. /\ u4 \in Seq(Item) /\ Fit(u4)
      /\ Ahead(u4) = {<<"touch", "engine">>, <<"touch", "sub">>, Later} \cup Ahead(u3)
  <2>1. Sink \notin Ahead(u3)
    BY <1>8 DEF Sink
  <2>2. u4 \in Seq(Item) /\ Fit(u4)
    BY <1>0, <1>8, <2>1, TouchInFront
  <2>3. Ahead(u4) = ({"touch"} \X ws) \cup (IF "engine" \in ws THEN {Later} ELSE {}) \cup Ahead(u3)
    BY <1>0, <1>8, TouchInFront
  <2>4. QED
    BY <1>0, <2>2, <2>3
<1> HIDE DEF u4
<1>10. /\ u5 \in Seq(Item) /\ Fit(u5) /\ <<"open", "call">> \in Ahead(u5)
       /\ Ahead(u5) \subseteq {Later, <<"open", "call">>, <<"run", "engine">>, <<"run", "sub">>}
                                \cup ({"ask"} \X Workers)
  <2>1. <<"run", "engine">> \in Ahead(u4) /\ <<"run", "sub">> \in Ahead(u4)
    BY <1>8, <1>9
  <2>2. /\ u5 \in Seq(Item) /\ Fit(u5)
        /\ Ahead(u5) = {<<"ask", "engine">>, <<"ask", "sub">>} \cup
                             (Ahead(u4) \ {<<"touch", "engine">>, <<"touch", "sub">>})
    BY <1>9, <2>1, StopBoth
  <2>3. {<<"ask", "engine">>, <<"ask", "sub">>} \subseteq {"ask"} \X Workers
    BY DEF Workers
  <2> HIDE DEF u5
  <2>4. <<"open", "call">> \in Ahead(u5)
    BY <1>8, <1>9, <2>2
  <2>5. QED
    BY <1>8, <1>9, <2>2, <2>3, <2>4
<1> HIDE DEF u5
<1>11. /\ <<"open", l>> \in Ahead(u5) /\ NoHold(Ahead(u5)) /\ Sink \notin Ahead(u5)
       /\ <<"open", "seek">> \notin Ahead(u5)
  BY <1>6, <1>10 DEF NoHold, Later, Sink
<1>12. /\ PauseAt(l) \in Seq(Item) /\ PauseAt(l) \o u5 \in Seq(Item) /\ Fit(PauseAt(l) \o u5)
       /\ Ahead(PauseAt(l) \o u5) =
            Ahead(u5) \ ({<<"open", l>>} \cup (IF l = "call" THEN {Sink} ELSE {}))
  BY <1>0, <1>10, <1>11, PauseInFront
<1>13. SubtitleItems = PauseAt(l) \o u5
  <2> DEFINE p == PauseAt(l)
             q == SetBoth("engine", "sub", "IDLE")
             r == <<Touch(ws)>>
             s == SetBoth("engine", "sub", "RUNNING")
             t == <<At(l, "unpause"), b>>
  <2>1. p \in Seq(Item) /\ q \in Seq(Item) /\ r \in Seq(Item) /\ s \in Seq(Item) /\ t \in Seq(Item)
    BY <1>0, <1>5, <1>7, <1>12, Two, BothInFront DEF Modes
  <2>2. t = u2
    <3>1. t \o n = u2
      BY <1>0, <1>3, <1>5, Two DEF u1, u2
    <3>2. QED
      BY <2>1, <3>1, ConcatEmptySeq DEF n
  <2>3. u3 = s \o u2 /\ u4 = r \o u3 /\ u5 = q \o u4
    BY DEF u3, u4, u5, Puts
  <2>4. SubtitleItems = Then(Then(Then(Then(p, q), r), s), t)
    BY <1>6 DEF SubtitleItems, ws, b, way, Then
  <2> HIDE DEF p, q, r, s, t
  <2>5. u5 = Then(q, Then(r, Then(s, t)))
    BY <2>2, <2>3 DEF Then
  <2>6. Then(Then(Then(Then(p, q), r), s), t) = Then(p, u5)
    BY <2>1, <2>5, ThenFive
  <2>7. QED
    BY <2>4, <2>6 DEF p, Then
<1>14. Ahead(SubtitleItems) \subseteq {Later, <<"run", "engine">>, <<"run", "sub">>}
                                \cup ({"ask"} \X Workers)
  BY <1>6, <1>10, <1>12, <1>13
<1>15. Fresh(Ahead(SubtitleItems)) /\ Leave \notin Ahead(SubtitleItems) /\ Resumed \notin Ahead(SubtitleItems)
  BY <1>14 DEF Fresh, NoTouch, NoHold, Leave, Resumed, Sink, Waited, Again, Later
<1>16. QED
  BY <1>12, <1>13, <1>15 DEF Good

LEMMA StartFits ==
  ASSUME NEW stay \in BOOLEAN
  PROVE  /\ Good(StartItems(stay)) /\ Leave \notin Ahead(StartItems(stay))
         /\ Resumed \in Ahead(StartItems(stay)) <=> ~stay
         /\ \A w \in Workers : <<"run", w>> \in Ahead(StartItems(stay))
<1> DEFINE way == "reseek"
           b == At(way, "branch")
           u1 == IF stay THEN <<>> ELSE <<Do("resume")>>
           u2 == Puts(Try("audio", "RUNNING"), u1)
           u3 == Puts(b, u2)
           u4 == SetBoth("engine", "sub", "RUNNING") \o u3
           u5 == Puts(Set("parser", "RUNNING"), u4)
<1>0. /\ "audio" \in Workers /\ "parser" \in Workers /\ way \in Ways
      /\ Try("audio", "RUNNING") \in Item /\ Set("parser", "RUNNING") \in Item
  BY DEF Workers, Ways, Try, Set, Item, Modes
<1>1. u1 \in Seq(Item) /\ Fit(u1) /\ Ahead(u1) = (IF stay THEN {} ELSE {Resumed})
  BY ResumeFits, Nothing, NoMarks DEF Good
<1> HIDE DEF u1
<1>2. NoTouch(Ahead(u1)) /\ NoHold(Ahead(u1)) /\ <<"open", "seek">> \notin Ahead(u1)
  BY <1>1 DEF NoTouch, NoHold, Resumed
<1>3. u2 \in Seq(Item) /\ Fit(u2) /\ Ahead(u2) = {<<"ask", "audio">>, <<"run", "audio">>} \cup Ahead(u1)
  BY <1>0, <1>1, <1>2, TryInFront, AskInFront DEF NoTouch
<1> HIDE DEF u2
<1>4. NoTouch(Ahead(u2)) /\ NoHold(Ahead(u2)) /\ <<"open", "seek">> \notin Ahead(u2)
  BY <1>2, <1>3 DEF NoTouch, NoHold
<1>5. b.do = "branch" /\ b.of = "reseek"
  BY DEF At
<1>6. Adds(b) = {"ask"} \X Workers
  BY <1>5 DEF Adds
<1>7. Fits(b, Ahead(u2))
  BY <1>4, <1>5 DEF Fits
<1> HIDE DEF way
<1>8. b \in Item /\ u3 \in Seq(Item) /\ Fit(u3) /\ Ahead(u3) = ({"ask"} \X Workers) \cup Ahead(u2)
  BY <1>0, <1>3, <1>6, <1>7, BranchInFront
<1> HIDE DEF b, u3
<1>9. /\ u4 \in Seq(Item) /\ Fit(u4)
      /\ Ahead(u4) = {<<"ask", "engine">>, <<"ask", "sub">>, <<"run", "engine">>, <<"run", "sub">>}
                          \cup Ahead(u3)
  <2>1. <<"touch", "engine">> \notin Ahead(u3) /\ <<"touch", "sub">> \notin Ahead(u3)
    BY <1>4, <1>8 DEF NoTouch, Workers
  <2>2. QED
    BY <1>8, <2>1, RunBoth
<1> HIDE DEF u4
<1>10. u5 \in Seq(Item) /\ Fit(u5) /\ Ahead(u5) = {<<"ask", "parser">>, <<"run", "parser">>} \cup Ahead(u4)
  <2>1. <<"touch", "parser">> \notin Ahead(u4) /\ "parser" # "audio"
    BY <1>0, <1>4, <1>8, <1>9 DEF NoTouch
  <2>2. QED
    BY <1>0, <1>9, <2>1, AskInFront
<1>11. StartItems(stay) = u5
  <2> DEFINE p == <<Set("parser", "RUNNING")>>
             q == SetBoth("engine", "sub", "RUNNING")
             r == <<b, Try("audio", "RUNNING")>>
  <2>1. p \in Seq(Item) /\ q \in Seq(Item) /\ r \in Seq(Item)
    BY <1>0, <1>8, Two, BothInFront DEF Modes
  <2>2. r \o u1 = u3
    BY <1>0, <1>1, <1>8, Two DEF u2, u3
  <2>3. u4 = q \o u3 /\ u5 = p \o u4
    BY DEF u4, Puts
  <2>4. StartItems(stay) = Then(Then(Then(p, q), r), u1)
    BY DEF StartItems, Then, u1, b, way
  <2> HIDE DEF p, q, r
  <2>5. u5 = Then(p, Then(q, Then(r, u1)))
    BY <2>2, <2>3 DEF Then
  <2>6. QED
    BY <1>1, <2>1, <2>4, <2>5, ThenFour
<1> HIDE DEF u5
<1>12. Ahead(u5) = ({"ask"} \X Workers) \cup {<<"run", w>> : w \in Workers}
                      \cup (IF stay THEN {} ELSE {Resumed})
  <2>1. {<<"ask", "engine">>, <<"ask", "sub">>, <<"ask", "audio">>, <<"ask", "parser">>} \subseteq {"ask"} \X Workers
    BY DEF Workers
  <2>2. {<<"run", w>> : w \in Workers} =
          {<<"run", "engine">>, <<"run", "parser">>, <<"run", "audio">>, <<"run", "sub">>}
    BY DEF Workers
  <2>3. QED
    BY <1>1, <1>3, <1>8, <1>9, <1>10, <2>1, <2>2
<1>13. /\ Fresh(Ahead(u5)) /\ Leave \notin Ahead(u5) /\ (Resumed \in Ahead(u5) <=> ~stay)
       /\ \A w \in Workers : <<"run", w>> \in Ahead(u5)
  BY <1>12 DEF Fresh, NoTouch, NoHold, Leave, Resumed, Sink, Waited, Again, Later
<1>14. QED
  BY <1>10, <1>11, <1>13 DEF Good

LEMMA ExitPutInFront ==
  ASSUME NEW w \in Workers, NEW r \in Seq(Item), Fit(r), <<"ask", w>> \notin Ahead(r),
         <<"touch", w>> \notin Ahead(r)
  PROVE  /\ Exit(w) \in Seq(Item) /\ Exit(w) \o r \in Seq(Item) /\ Fit(Exit(w) \o r)
         /\ Ahead(Exit(w) \o r) = {<<"ask", w>>, Leave} \cup Ahead(r)
<1> DEFINE s == Puts(Join(w), r)
<1>1. Set(w, "EXIT") \in Item /\ Join(w) \in Item
  BY DEF Set, Join, Item, Modes
<1>2. s \in Seq(Item) /\ Fit(s) /\ Ahead(s) = Ahead(r)
  BY IdleItems
<1>3. Exit(w) \in Seq(Item) /\ Exit(w) \o r = Puts(Set(w, "EXIT"), s)
  BY <1>1, Two DEF Exit
<1> HIDE DEF s
<1>4. QED
  BY <1>2, <1>3, ExitInFront

LEMMA StopFits == Good(StopItems) /\ Leave \in Ahead(StopItems) /\ Resumed \notin Ahead(StopItems)
<1> DEFINE l == "call"
           n == <<>>
           u1 == Exit("sub") \o n
           u2 == Exit("audio") \o u1
           u3 == Exit("parser") \o u2
           u4 == Exit("engine") \o u3
<1>0. "engine" \in Workers /\ "parser" \in Workers /\ "audio" \in Workers /\ "sub" \in Workers /\ l \in Levels
  BY DEF Workers, Levels
<1>1. n \in Seq(Item) /\ Fit(n) /\ Ahead(n) = {}
  BY Nothing, NoMarks
<1> HIDE DEF n
<1>2. /\ Exit("sub") \in Seq(Item) /\ u1 \in Seq(Item) /\ Fit(u1)
      /\ Ahead(u1) = {<<"ask", "sub">>, Leave}
  BY <1>0, <1>1, ExitPutInFront
<1> HIDE DEF u1
<1>3. /\ Exit("audio") \in Seq(Item) /\ u2 \in Seq(Item) /\ Fit(u2)
      /\ Ahead(u2) = {<<"ask", "audio">>, <<"ask", "sub">>, Leave}
  <2> DEFINE w == "audio"
  <2>1. w \in Workers /\ <<"ask", w>> \notin Ahead(u1) /\ <<"touch", w>> \notin Ahead(u1)
    BY <1>0, <1>2 DEF Leave
  <2> HIDE DEF w
  <2>2. /\ Exit(w) \in Seq(Item) /\ Exit(w) \o u1 \in Seq(Item) /\ Fit(Exit(w) \o u1)
        /\ Ahead(Exit(w) \o u1) = {<<"ask", w>>, Leave} \cup Ahead(u1)
    BY <1>2, <2>1, ExitPutInFront
  <2>3. {<<"ask", w>>, Leave} \cup Ahead(u1) = {<<"ask", "audio">>, <<"ask", "sub">>, Leave}
    BY <1>2 DEF w
  <2>4. QED
    BY <2>2, <2>3 DEF w, u2
<1> HIDE DEF u2
<1>4. /\ Exit("parser") \in Seq(Item) /\ u3 \in Seq(Item) /\ Fit(u3)
      /\ Ahead(u3) = {<<"ask", "parser">>, <<"ask", "audio">>, <<"ask", "sub">>, Leave}
  <2> DEFINE w == "parser"
  <2>1. w \in Workers /\ <<"ask", w>> \notin Ahead(u2) /\ <<"touch", w>> \notin Ahead(u2)
    BY <1>0, <1>3 DEF Leave
  <2> HIDE DEF w
  <2>2. /\ Exit(w) \in Seq(Item) /\ Exit(w) \o u2 \in Seq(Item) /\ Fit(Exit(w) \o u2)
        /\ Ahead(Exit(w) \o u2) = {<<"ask", w>>, Leave} \cup Ahead(u2)
    BY <1>3, <2>1, ExitPutInFront
  <2>3. {<<"ask", w>>, Leave} \cup Ahead(u2) = {<<"ask", "parser">>, <<"ask", "audio">>, <<"ask", "sub">>, Leave}
    BY <1>3 DEF w
  <2>4. QED
    BY <2>2, <2>3 DEF w, u3
<1> HIDE DEF u3
<1>5. /\ Exit("engine") \in Seq(Item) /\ u4 \in Seq(Item) /\ Fit(u4)
      /\ Ahead(u4) = {<<"ask", "engine">>, <<"ask", "parser">>, <<"ask", "audio">>, <<"ask", "sub">>, Leave}
  <2> DEFINE w == "engine"
  <2>1. w \in Workers /\ <<"ask", w>> \notin Ahead(u3) /\ <<"touch", w>> \notin Ahead(u3)
    BY <1>0, <1>4 DEF Leave
  <2> HIDE DEF w
  <2>2. /\ Exit(w) \in Seq(Item) /\ Exit(w) \o u3 \in Seq(Item) /\ Fit(Exit(w) \o u3)
        /\ Ahead(Exit(w) \o u3) = {<<"ask", w>>, Leave} \cup Ahead(u3)
    BY <1>4, <2>1, ExitPutInFront
  <2>3. {<<"ask", w>>, Leave} \cup Ahead(u3) = {<<"ask", "engine">>, <<"ask", "parser">>, <<"ask", "audio">>, <<"ask", "sub">>, Leave}
    BY <1>4 DEF w
  <2>4. QED
    BY <2>2, <2>3 DEF w, u4
<1> HIDE DEF u4
<1>6. l = "call"
  OBVIOUS
<1> HIDE DEF l
<1>7. Leave \in Ahead(u4) /\ NoHold(Ahead(u4)) /\ Sink \notin Ahead(u4) /\ <<"open", "seek">> \notin Ahead(u4)
  BY <1>5 DEF NoHold, Leave, Sink
<1>8. /\ PauseAt(l) \in Seq(Item) /\ PauseAt(l) \o u4 \in Seq(Item) /\ Fit(PauseAt(l) \o u4)
      /\ Ahead(PauseAt(l) \o u4) =
           Ahead(u4) \ ({<<"open", l>>} \cup (IF l = "call" THEN {Sink} ELSE {}))
  BY <1>0, <1>5, <1>7, PauseInFront
<1>9. StopItems = PauseAt(l) \o u4
  <2> DEFINE p == PauseAt(l)
             q == Exit("engine")
             r == Exit("parser")
             s == Exit("audio")
             t == Exit("sub")
  <2>1. u1 = t
    BY <1>2, ConcatEmptySeq DEF u1, n
  <2>2. u2 = s \o u1 /\ u3 = r \o u2 /\ u4 = q \o u3
    BY DEF u2, u3, u4
  <2>3. StopItems = Then(Then(Then(Then(p, q), r), s), t)
    BY <1>6 DEF StopItems, Then
  <2>4. p \in Seq(Item) /\ q \in Seq(Item) /\ r \in Seq(Item) /\ s \in Seq(Item) /\ t \in Seq(Item)
    BY <1>2, <1>3, <1>4, <1>5, <1>8
  <2> HIDE DEF p, q, r, s, t
  <2>5. u4 = Then(q, Then(r, Then(s, t)))
    BY <2>1, <2>2 DEF Then
  <2>6. Then(Then(Then(Then(p, q), r), s), t) = Then(p, u4)
    BY <2>4, <2>5, ThenFive
  <2>7. QED
    BY <2>3, <2>6 DEF p, Then
<1>10. /\ Fresh(Ahead(StopItems)) /\ Leave \in Ahead(StopItems) /\ Resumed \notin Ahead(StopItems)
  BY <1>5, <1>6, <1>8, <1>9 DEF Fresh, NoTouch, NoHold, Leave, Resumed, Sink, Waited
<1>11. QED
  BY <1>8, <1>9, <1>10 DEF Good


-----------------------------------------------------------------------------
(* The invariant. *)

\* What a seek consists of: it asks parser and audio only, and pauses for itself.
SeekItem ==
  {x \in Item :
     /\ x.do \in {"set", "try", "wait", "touch", "look", "hold", "unpause", "play", "branch"}
     /\ x.do \in {"set", "try", "wait"} => x.of \in Shared /\ x.to # "EXIT"
     /\ x.do = "touch" => x.on \subseteq Shared
     /\ x.do \in {"look", "hold", "unpause", "branch"} => x.of = "seek"}

\* The call has found audio valid and is about to stop it.
Seen(q) ==
  /\ q # <<>> /\ Head(q) = Set("audio", "IDLE")
  /\ Fit(Tail(q)) /\ <<"run", "audio">> \in Ahead(Tail(q))

\* A pause by itself, or the second half of it.
Pausing(q) == q \in {PauseAt("call"), <<At("call", "hold")>>}

\* What a call has left to do fits, but for a pause by itself, and for audio that
\* was found valid; and nothing but the first item is the rest of an ask.
ListOf(c) ==
  /\ \/ Fit(todo[c])
     \/ Seen(todo[c]) /\ (valid \/ crossed)
     \/ c = "app" /\ Pausing(todo[c]) /\ TRUE \in wanted
  /\ todo[c] # <<>> => Waited \notin Ahead(Tail(todo[c]))

\* Two calls under way have crossed, and then one of them is a seek.
Alone      == \/ crossed \/ todo["app"] = <<>> \/ todo["cmd"] = <<>>
SeekBeside == todo["cmd"] \in Seq(SeekItem) \/ (todo["app"] = <<>> /\ ~crossed)

Awaits(c, w) == todo[c] # <<>> /\ Head(todo[c]) = Wait(w)

\* A worker that is stopped will be run again,
RunAgain(w) ==
  set[w] = "IDLE" => \/ \E c \in Callers : <<"run", w>> \in Ahead(todo[c])
                     \/ w = "audio" /\ ~valid /\ crossed
\* audio that is not valid too, as long as no calls cross.
AudioAgain ==
  ~crossed /\ ~valid /\ set["audio"] = "IDLE" =>
    \E c \in Callers : Again \in Ahead(todo[c])

\* Workers that will be relied on to be stopped have been asked to.
Touched(c, w) ==
  (~crossed \/ w \notin Shared) /\ <<"touch", w>> \in Ahead(todo[c]) =>
    set[w] = "IDLE" \/ (w = "audio" /\ ~valid)

\* A worker has answered unless somebody awaits its answer, and it works only when
\* running.
Answered(w) ==
  /\ get[w] = set[w] \/ \E c \in Callers : Awaits(c, w)
  /\ wpc[w] \in {"turn", "work"} => get[w] = "RUNNING"

Dropped == ~valid /\ ~crossed => wpc["audio"] # "work"

\* Around the start of its sink audio is held by the pause, and a seek in between
\* leaves the stream paused.
SinkHeld(c) ==
  Sink \in Ahead(todo[c]) /\ ~crossed =>
    /\ paused /\ (<<"open", "seek">> \in Ahead(todo[c]) => was[c]["seek"])
    /\ Later \notin Ahead(todo[c]) => wpc["audio"] # "work"

Looked(c, l) == ~crossed /\ <<"hold", l>> \in Ahead(todo[c]) => was[c][l] = paused

\* A paused stream that is wanted to play has a call that will resume it; one that
\* is wanted paused has none, and is paused but for the pause under way.
Opens(c) == \E l \in Levels : <<"open", l>> \in Ahead(todo[c]) /\ ~was[c][l]
WillRun ==
  wanted = {FALSE} /\ paused =>
    \/ ~Open
    \/ \E c \in Callers : \/ Resumed \in Ahead(todo[c])
                          \/ Leave \in Ahead(todo[c])
                          \/ Opens(c)
PauseAlone ==
  /\ ~pending /\ todo["cmd"] = <<>>
  /\ \/ todo["app"] = PauseAt("call")
     \/ todo["app"] = <<At("call", "hold")>> /\ was["app"]["call"] = paused
StaysPaused ==
  /\ wanted # {}
  /\ wanted = {TRUE} =>
       \/ paused /\ \A c \in Callers : Resumed \notin Ahead(todo[c]) /\ ~Opens(c)
       \/ PauseAlone

\* The end of the stream is the application's alone, and no worker that has been
\* asked to leave is asked again.
Ending ==
  /\ (~Open \/ Leave \in Ahead(todo["app"])) => todo["cmd"] = <<>> /\ ~pending
  /\ \A w \in Workers : /\ set[w] = "EXIT" => <<"ask", w>> \notin Ahead(todo["app"])
                        /\ get[w] = "EXIT" => set[w] = "EXIT"
  /\ Leave \notin Ahead(todo["cmd"])

Inv ==
  /\ TypeOK /\ Alone /\ SeekBeside /\ AudioAgain /\ Dropped /\ WillRun /\ StaysPaused /\ Ending
  /\ \A c \in Callers : ListOf(c) /\ SinkHeld(c) /\ \A l \in Levels : Looked(c, l)
  /\ \A w \in Workers : RunAgain(w) /\ Answered(w) /\ \A c \in Callers : Touched(c, w)

-----------------------------------------------------------------------------
(* Facts about items and lists. *)

LEMMA ItemKinds ==
  ASSUME NEW x \in Item
  PROVE  /\ x.do \in {"set", "try", "wait", "join", "look", "hold", "unpause", "branch",
                      "touch", "sink", "drop", "resume", "play"}
         /\ x.do = "set" => x = Set(x.of, x.to) /\ x.of \in Workers /\ x.to \in Modes
         /\ x.do = "try" => x = Try(x.of, x.to) /\ x.of = "audio" /\ x.to \in {"IDLE", "RUNNING"}
         /\ x.do = "wait" => x = Wait(x.of) /\ x.of \in Workers
         /\ x.do = "join" => x.of \in Workers
         /\ x.do \in {"look", "hold", "unpause"} => x.of \in Levels
         /\ x.do = "branch" => x = At(x.of, "branch") /\ x.of \in Ways
         /\ x.do = "touch" => x.on \in SUBSET Workers
BY DEF Item, Set, Try, Wait, At

\* The first item and the rest.
LEMMA First ==
  ASSUME NEW q \in Seq(Item), q # <<>>
  PROVE  /\ Head(q) \in Item /\ Tail(q) \in Seq(Item) /\ q = Puts(Head(q), Tail(q))
         /\ Ahead(q) = (Adds(Head(q)) \cap Marks) \cup (Ahead(Tail(q)) \ Kills(Head(q)))
<1>1. Head(q) \in Item /\ Tail(q) \in Seq(Item)
  OBVIOUS
<1>2. q = Puts(Head(q), Tail(q))
  <2> DEFINE x == Head(q)
             r == Tail(q)
  <2>1. /\ Puts(x, r) \in Seq(Item) /\ Puts(x, r) # <<>>
        /\ Head(Puts(x, r)) = x /\ Tail(Puts(x, r)) = r
    BY <1>1, Cons
  <2>2. ASSUME NEW u \in Seq(Item), NEW v \in Seq(Item), u # <<>>, v # <<>>,
               Head(u) = Head(v), Tail(u) = Tail(v)
        PROVE  u = v
    <3>1. Len(u) = Len(v)
      BY <2>2
    <3>2. ASSUME NEW i \in 1 .. Len(u) PROVE u[i] = v[i]
      <4>1. CASE i = 1
        BY <2>2, <4>1
      <4>2. CASE i # 1
        <5>1. i - 1 \in 1 .. Len(Tail(u)) /\ i - 1 \in 1 .. Len(Tail(v))
          BY <2>2, <3>1, <4>2
        <5>2. Tail(u)[i - 1] = u[i] /\ Tail(v)[i - 1] = v[i]
          BY <2>2, <5>1
        <5>3. QED
          BY <2>2, <5>2
      <4>3. QED
        BY <4>1, <4>2
    <3>3. QED
      BY <3>1, <3>2, SeqEqual
  <2> HIDE DEF x, r
  <2>3. QED
    BY <2>1, <2>2 DEF x, r
<1>3. QED
  BY <1>1, <1>2, AheadTail

LEMMA AgainRuns ==
  ASSUME NEW q \in Seq(Item), Again \in Ahead(q)
  PROVE  <<"run", "audio">> \in Ahead(q)
<1>1. PICK i \in 1 .. Len(q) : Again \in Adds(q[i])
  BY DEF Ahead
<1>2. \A j \in 1 .. Len(q) : q[j] \in Item
  OBVIOUS
<1>3. \A x \in Item : <<"run", "audio">> \notin Kills(x)
  BY DEF Kills, Sink
<1>4. \A x \in Item : Again \in Adds(x) => <<"run", "audio">> \in Adds(x)
  <2>1. \A x \in Item : Again \in Adds(x) => x.do = "set" /\ x.of = "audio" /\ x.to = "RUNNING"
    <3> SUFFICES ASSUME NEW x \in Item, Again \in Adds(x)
                 PROVE  x.do = "set" /\ x.of = "audio" /\ x.to = "RUNNING"
      OBVIOUS
    <3>1. x.do \in {"set", "try", "wait", "join", "look", "hold", "unpause", "branch",
                    "touch", "sink", "drop", "resume", "play"}
          /\ (x.do = "branch" => x.of \in Ways)
      BY ItemKinds
    <3>2. CASE x.do \in {"set", "try"}
      BY <3>2 DEF Adds, Again, Leave
    <3>3. CASE x.do = "branch"
      BY <3>1, <3>3 DEF Adds, Again, Sink, Ways
    <3>4. CASE x.do = "touch"
      BY <3>4 DEF Adds, Again, Later
    <3>5. CASE x.do \in {"wait", "hold", "unpause", "resume", "sink", "drop"}
      BY <3>5 DEF Adds, Again, Waited, Resumed, Sink
    <3>6. CASE x.do \in {"join", "look", "play"}
      BY <3>6 DEF Adds
    <3>7. QED
      BY <3>1, <3>2, <3>3, <3>4, <3>5, <3>6
  <2>2. \A x \in Item : x.do = "set" /\ x.of = "audio" /\ x.to = "RUNNING"
                          => <<"run", "audio">> \in Adds(x)
    BY DEF Adds
  <2>3. QED
    BY <2>1, <2>2
<1>5. <<"run", "audio">> \in Marks
  BY AreMarks DEF Workers
<1>6. Len(q) \in Nat /\ \A j \in 1 .. i - 1 : j \in 1 .. Len(q)
  BY <1>1
<1>7. QED
  BY <1>1, <1>2, <1>3, <1>4, <1>5, <1>6 DEF Ahead

LEMMA WaitsBehind ==
  ASSUME NEW q \in Seq(Item), q # <<>>, Waited \notin Ahead(q)
  PROVE  Waited \notin Ahead(Tail(q)) /\ Head(q).do # "wait"
<1>1. \A x \in Item : Waited \notin Kills(x)
  BY DEF Kills, Sink, Waited
<1>2. \A x \in Item : x.do = "wait" => Waited \in Adds(x)
  BY DEF Adds
<1>3. Waited \in Marks
  BY AreMarks
<1>4. QED
  BY <1>1, <1>2, <1>3, First

LEMMA SeekMarks ==
  ASSUME NEW q \in Seq(SeekItem), NEW w \in Workers, w \notin Shared
  PROVE  <<"touch", w>> \notin Ahead(q)
<1>1. ASSUME NEW x \in SeekItem PROVE <<"touch", w>> \notin Adds(x)
  <2>1. /\ x.do \in {"set", "try", "wait", "touch", "look", "hold", "unpause", "play", "branch"}
        /\ x.do = "touch" => x.on \subseteq Shared
        /\ x.do = "branch" => x.of = "seek"
    BY DEF SeekItem
  <2>2. CASE x.do \in {"set", "try", "wait", "hold", "unpause", "look", "play"}
    BY <2>2 DEF Adds, Again, Leave, Waited
  <2>3. CASE x.do = "touch"
    BY <2>1, <2>3 DEF Adds, Later
  <2>4. CASE x.do = "branch"
    BY <2>1, <2>4 DEF Adds, Shared
  <2>5. QED
    BY <2>1, <2>2, <2>3, <2>4
<1>2. \A i \in 1 .. Len(q) : q[i] \in SeekItem
  OBVIOUS
<1>3. QED
  BY <1>1, <1>2 DEF Ahead

LEMMA SeekItemsAre ==
  /\ \A m \in {"IDLE", "RUNNING"} : Set("parser", m) \in SeekItem /\ Set("audio", m) \in SeekItem
                                    /\ Try("audio", m) \in SeekItem
  /\ Wait("parser") \in SeekItem /\ Wait("audio") \in SeekItem
  /\ Touch({"parser", "audio"}) \in SeekItem /\ Do("play") \in SeekItem
  /\ \A what \in {"look", "hold", "unpause", "branch"} : At("seek", what) \in SeekItem
BY DEF SeekItem, Set, Try, Wait, Touch, Do, At, Item, Workers, Modes, Shared, Levels, Ways

LEMMA SeekLists ==
  /\ SeekItems \in Seq(SeekItem)
  /\ \A p \in WaysOn("seek") : p \in Seq(SeekItem)
<1> DEFINE a == Set("parser", "IDLE")
           b == Try("audio", "IDLE")
           d == Try("audio", "RUNNING")
           e == Set("parser", "RUNNING")
           f == At("seek", "look")
           g == At("seek", "hold")
           h == At("seek", "unpause")
           i == At("seek", "branch")
           j == Touch({"parser", "audio"})
           k == Do("play")
<1>1. /\ a \in SeekItem /\ b \in SeekItem /\ d \in SeekItem /\ e \in SeekItem /\ f \in SeekItem
      /\ g \in SeekItem /\ h \in SeekItem /\ i \in SeekItem /\ j \in SeekItem /\ k \in SeekItem
  BY SeekItemsAre
<1>2. /\ SeekItems = ((<<a, b>> \o <<f, g>>) \o <<i>>) \o (<<d, e>> \o <<h>>)
      /\ SeekAndPlay = <<j, e, k>>
  BY DEF SeekItems, SeekPause, SeekUnPause, PauseAt, UnPauseAt, SeekAndPlay
<1> HIDE DEF a, b, d, e, f, g, h, i, j, k
<1>3. /\ <<a, b>> \in Seq(SeekItem) /\ <<f, g>> \in Seq(SeekItem) /\ <<i>> \in Seq(SeekItem)
      /\ <<d, e>> \in Seq(SeekItem) /\ <<h>> \in Seq(SeekItem) /\ <<j, e, k>> \in Seq(SeekItem)
      /\ <<j>> \in Seq(SeekItem) /\ <<>> \in Seq(SeekItem)
  BY <1>1
<1>4. \A p, q \in Seq(SeekItem) : p \o q \in Seq(SeekItem)
  OBVIOUS
<1>5. SeekItems \in Seq(SeekItem)
  BY <1>2, <1>3, <1>4
<1>6. WaysOn("seek") = {<<>>, <<j>>, <<j, e, k>>}
  BY <1>2 DEF WaysOn, j
<1>7. QED
  BY <1>3, <1>5, <1>6

-----------------------------------------------------------------------------
(* What the steps do. *)

\* An item that is done with: an ask, or one that found audio not valid.
Passed(x) == x.do = "set" \/ (x.do = "try" /\ ~valid)

\* How the marks ahead of a caller change when it takes the step of item x.
Moved(x, a, b) ==
  /\ \A w \in Workers :
       /\ <<"run", w>> \in a =>
            <<"run", w>> \in b \/ (Passed(x) /\ x.of = w /\ x.to = "RUNNING")
       /\ <<"touch", w>> \in b =>
            <<"touch", w>> \in a \/ (Passed(x) /\ x.of = w /\ x.to = "IDLE")
       /\ <<"ask", w>> \in b => <<"ask", w>> \in a
  /\ \A l \in Levels :
       /\ <<"open", l>> \in b => <<"open", l>> \in a \/ (x.do = "look" /\ x.of = l)
       /\ <<"open", l>> \in a => <<"open", l>> \in b \/ (x.do = "unpause" /\ x.of = l)
       /\ <<"hold", l>> \in b => <<"hold", l>> \in a \/ (x.do = "look" /\ x.of = l)
  /\ Again \in a => Again \in b \/ (x.do = "set" /\ x.of = "audio" /\ x.to = "RUNNING")
  /\ Leave \in b => Leave \in a
  /\ Leave \in a => Leave \in b \/ (x.do = "set" /\ x.to = "EXIT")
  /\ Resumed \in b => Resumed \in a
  /\ Resumed \in a => Resumed \in b \/ x.do = "resume"
  /\ Sink \in b => Sink \in a \/ (x.do = "hold" /\ x.of = "call")
  /\ Later \in a => Later \in b \/ (x.do = "touch" /\ "engine" \in x.on)

\* An item that is taken off the list, or its wait put in its place.
LEMMA TakenOff ==
  ASSUME NEW x \in Item, NEW r, NEW b, x.do # "branch", x.do = "try" => ~valid,
         \A k \in Marks : k # Waited => (k \in b <=> k \in r),
         NEW a, a = (Adds(x) \cap Marks) \cup (r \ Kills(x))
  PROVE  Moved(x, a, b)
<1>0. /\ x.do \in {"set", "try", "wait", "join", "look", "hold", "unpause", "branch",
                   "touch", "sink", "drop", "resume", "play"}
      /\ x.do = "set" => x.of \in Workers /\ x.to \in Modes
      /\ x.do = "try" => x.of \in Workers /\ x.to \in {"IDLE", "RUNNING"}
      /\ x.do \in {"look", "hold", "unpause"} => x.of \in Levels
  BY ItemKinds DEF Workers
<1>1. \A k \in Marks : k # Waited =>
         /\ k \in a => k \in Adds(x) \/ k \in b
         /\ k \in b => k \in a \/ k \in Kills(x)
  OBVIOUS
<1>2. CASE x.do \in {"set", "try"}
  <2>1. \A k \in Adds(x) : \/ k = <<"ask", x.of>>
                           \/ k = <<"run", x.of>> /\ x.to = "RUNNING"
                           \/ k = Again /\ x.to = "RUNNING" /\ x.do = "set" /\ x.of = "audio"
                           \/ k = Leave /\ x.to = "EXIT"
    BY <1>2 DEF Adds
  <2>2. \A k \in Kills(x) : k = <<"touch", x.of>> /\ x.to = "IDLE"
    BY <1>2 DEF Kills
  <2>3. QED
    BY <1>0, <1>1, <1>2, <2>1, <2>2, AreMarks DEF Moved, Passed, Again, Leave, Resumed, Sink, Later, Waited
<1>3. CASE x.do \in {"wait", "join", "play", "sink", "drop"}
  <2>1. \A k \in Adds(x) : k \in {Waited, Sink}
    BY <1>3 DEF Adds
  <2>2. Kills(x) = {}
    BY <1>3 DEF Kills
  <2>3. QED
    BY <1>1, <1>3, <2>1, <2>2, AreMarks DEF Moved, Passed, Again, Leave, Resumed, Sink, Later, Waited
<1>4. CASE x.do = "touch"
  <2>1. \A k \in Adds(x) : (\E w : k = <<"touch", w>>) \/ (k = Later /\ "engine" \in x.on)
    BY <1>4 DEF Adds
  <2>2. Kills(x) = {}
    BY <1>4 DEF Kills
  <2>3. QED
    BY <1>1, <1>4, <2>1, <2>2, AreMarks DEF Moved, Passed, Again, Leave, Resumed, Sink, Later, Waited
<1>5. CASE x.do = "look"
  <2>1. Adds(x) = {} /\ Kills(x) = {<<"open", x.of>>, <<"hold", x.of>>}
    BY <1>5 DEF Adds, Kills
  <2>2. QED
    BY <1>1, <1>5, <2>1, AreMarks DEF Moved, Passed, Again, Leave, Resumed, Sink, Later, Waited
<1>6. CASE x.do = "hold"
  <2>1. Adds(x) = {<<"hold", x.of>>} /\ \A k \in Kills(x) : k = Sink /\ x.of = "call"
    BY <1>6 DEF Adds, Kills
  <2>2. QED
    BY <1>1, <1>6, <2>1, AreMarks DEF Moved, Passed, Again, Leave, Resumed, Sink, Later, Waited
<1>7. CASE x.do = "unpause"
  <2>1. Adds(x) = {<<"open", x.of>>} /\ Kills(x) = {}
    BY <1>7 DEF Adds, Kills
  <2>2. QED
    BY <1>1, <1>7, <2>1, AreMarks DEF Moved, Passed, Again, Leave, Resumed, Sink, Later, Waited
<1>8. CASE x.do = "resume"
  <2>1. Adds(x) = {Resumed} /\ Kills(x) = {}
    BY <1>8 DEF Adds, Kills
  <2>2. QED
    BY <1>1, <1>8, <2>1, AreMarks DEF Moved, Passed, Again, Leave, Resumed, Sink, Later, Waited
<1>9. QED
  BY <1>0, <1>2, <1>3, <1>4, <1>5, <1>6, <1>7, <1>8

\* What a caller's step does to what the callers have left,
NewList(c) ==
  LET x == Head(todo[c])
      r == Tail(todo[c])
  IN  /\ todo' = [todo EXCEPT ![c] = todo'[c]]
      /\ \A d \in Callers : d # c => todo'[d] = todo[d]
      /\ x.do = "set" =>
           \/ get[x.of] = x.to /\ todo'[c] = r
           \/ get[x.of] # x.to /\ todo'[c] = Puts(Wait(x.of), r)
      /\ x.do = "try" =>
           IF valid THEN todo'[c] = Puts(Set(x.of, x.to), r) ELSE todo'[c] = r
      /\ x.do = "wait" =>
           \/ get[x.of] = set[x.of] /\ todo'[c] = r
           \/ get[x.of] # set[x.of] /\ todo'[c] = todo[c]
      /\ x.do = "branch" => \E p \in WaysOn(x.of) : todo'[c] = p \o r
      /\ x.do \notin {"set", "try", "wait", "branch"} => todo'[c] = r

\* and to the rest of the state.
NewFlags(c) ==
  LET x == Head(todo[c])
  IN  /\ get' = get /\ wpc' = wpc /\ pending' = pending /\ wanted' = wanted /\ crossed' = crossed
      /\ x.do = "set" => set' = [set EXCEPT ![x.of] = x.to]
      /\ x.do # "set" => set' = set
      /\ x.do = "drop" => valid' = FALSE
      /\ x.do # "drop" => valid' = valid
      /\ x.do = "look" => was' = [was EXCEPT ![c][x.of] = paused]
      /\ x.do = "unpause" => was' = [was EXCEPT ![c][x.of] = FALSE]
      /\ x.do \notin {"look", "unpause"} => was' = was
      /\ x.do = "hold" => paused' = (paused \/ ~was[c][x.of])
      /\ x.do = "unpause" => paused' = (paused /\ was[c][x.of])
      /\ x.do = "resume" => paused' = FALSE
      /\ x.do \notin {"hold", "unpause", "resume"} => paused' = paused
      /\ stepping' = stepping \/ stepping' = TRUE

LEMMA Acts ==
  ASSUME TypeOK, NEW c \in Callers, Caller(c)
  PROVE  todo[c] # <<>> /\ NewList(c) /\ NewFlags(c)
<1>0. todo \in [Callers -> Seq(Item)]
  BY DEF TypeOK
<1> DEFINE x == Head(todo[c])
           r == Tail(todo[c])
<1>1. ASSUME NEW q, todo' = [todo EXCEPT ![c] = q]
      PROVE  /\ todo'[c] = q /\ todo' = [todo EXCEPT ![c] = todo'[c]]
             /\ \A d \in Callers : d # c => todo'[d] = todo[d]
  BY <1>0, <1>1
<1>2. CASE SetState(c)
  <2>1. todo[c] # <<>> /\ x.do = "set" /\ Ask(c, x.of, x.to)
    BY <1>2 DEF SetState, Item1
  <2>2. NewFlags(c)
    BY <2>1 DEF Ask, NewFlags, flags, history
  <2>3. NewList(c)
    BY <2>1, <1>1 DEF Ask, NewList, Advance, Instead, Puts
  <2>4. QED
    BY <2>1, <2>2, <2>3
<1>3. CASE TrySetState(c)
  <2>1. /\ todo[c] # <<>> /\ x.do = "try" /\ UNCHANGED <<threads, pending, flags, history>>
        /\ \/ valid /\ todo' = [todo EXCEPT ![c] = <<Set(x.of, x.to)>> \o Tail(@)]
           \/ ~valid /\ Advance(c)
    BY <1>3 DEF TrySetState, Item1, Instead
  <2>2. NewFlags(c)
    BY <2>1 DEF NewFlags, flags, history, threads
  <2>3. NewList(c)
    BY <2>1, <1>1 DEF NewList, Advance, Instead, Puts
  <2>4. QED
    BY <2>1, <2>2, <2>3
<1>4. CASE AwaitState(c)
  <2>1. /\ todo[c] # <<>> /\ x.do = "wait" /\ UNCHANGED <<set, get, wpc, pending, flags, history>>
        /\ \/ get[x.of] = set[x.of] /\ Advance(c)
           \/ get[x.of] # set[x.of] /\ todo' = [todo EXCEPT ![c] = todo[c]]
    BY <1>0, <1>4 DEF AwaitState, Item1
  <2>2. NewFlags(c)
    BY <2>1 DEF NewFlags, flags, history
  <2>3. NewList(c)
    BY <2>1, <1>1 DEF NewList, Advance
  <2>4. QED
    BY <2>1, <2>2, <2>3
<1>5. CASE Branch(c)
  <2>1. /\ todo[c] # <<>> /\ x.do = "branch" /\ UNCHANGED <<threads, pending, flags, history>>
        /\ \E p \in WaysOn(x.of) : todo' = [todo EXCEPT ![c] = p \o Tail(@)]
    BY <1>5 DEF Branch, Item1
  <2>2. NewFlags(c)
    BY <2>1 DEF NewFlags, flags, history, threads
  <2>3. NewList(c)
    BY <2>1, <1>1 DEF NewList
  <2>4. QED
    BY <2>1, <2>2, <2>3
<1>6. ASSUME todo[c] # <<>>, Advance(c), x.do \notin {"set", "try", "wait", "branch"}
      PROVE  NewList(c)
  BY <1>1, <1>6 DEF NewList, Advance
<1>7. CASE JoinWorker(c)
  <2>1. todo[c] # <<>> /\ x.do = "join" /\ Advance(c) /\ NewFlags(c)
    BY <1>7 DEF JoinWorker, Item1, NewFlags, flags, history, threads
  <2>2. QED
    BY <1>6, <2>1
<1>8. CASE Look(c)
  <2>1. todo[c] # <<>> /\ x.do = "look" /\ Advance(c) /\ NewFlags(c)
    BY <1>8 DEF Look, Item1, NewFlags, history, threads
  <2>2. QED
    BY <1>6, <2>1
<1>9. CASE Hold(c)
  <2>1. todo[c] # <<>> /\ x.do = "hold" /\ Advance(c) /\ NewFlags(c)
    BY <1>9 DEF Hold, Item1, NewFlags, history, threads
  <2>2. QED
    BY <1>6, <2>1
<1>10. CASE UnPause(c)
  <2>1. todo[c] # <<>> /\ x.do = "unpause" /\ Advance(c) /\ NewFlags(c)
    BY <1>10 DEF UnPause, Item1, NewFlags, history, threads
  <2>2. QED
    BY <1>6, <2>1
<1>11. CASE Resume(c)
  <2>1. todo[c] # <<>> /\ x.do = "resume" /\ Advance(c) /\ NewFlags(c)
    BY <1>11 DEF Resume, Item1, NewFlags, history, threads
  <2>2. QED
    BY <1>6, <2>1
<1>12. CASE Play(c)
  <2>1. todo[c] # <<>> /\ x.do = "play" /\ Advance(c) /\ NewFlags(c)
    BY <1>12 DEF Play, Item1, NewFlags, history, threads
  <2>2. QED
    BY <1>6, <2>1
<1>13. CASE Drop(c)
  <2>1. todo[c] # <<>> /\ x.do = "drop" /\ Advance(c) /\ NewFlags(c)
    BY <1>13 DEF Drop, Item1, NewFlags, history, threads
  <2>2. QED
    BY <1>6, <2>1
<1>14. CASE Proceed(c)
  <2>1. todo[c] # <<>> /\ x.do \in {"touch", "sink"} /\ Advance(c) /\ NewFlags(c)
    BY <1>14 DEF Proceed, Item1, NewFlags, flags, history, threads
  <2>2. QED
    BY <1>6, <2>1
<1>15. QED
  BY <1>2, <1>3, <1>4, <1>5, <1>7, <1>8, <1>9, <1>10, <1>11, <1>12, <1>13, <1>14 DEF Caller

\* Its item may stand where it stands, but for the exceptions of ListOf.
LEMMA HeadFits ==
  ASSUME TypeOK, NEW c \in Callers, ListOf(c), todo[c] # <<>>
  PROVE  \/ Fits(Head(todo[c]), Ahead(Tail(todo[c]))) /\ Fit(Tail(todo[c]))
         \/ Seen(todo[c]) /\ (valid \/ crossed)
         \/ c = "app" /\ TRUE \in wanted /\ Pausing(todo[c])
<1>1. todo[c] \in Seq(Item)
  BY DEF TypeOK
<1>2. QED
  BY <1>1, FitTail DEF ListOf

LEMMA PausingIs ==
  /\ PauseAt("call") # <<>> /\ Head(PauseAt("call")) = At("call", "look")
  /\ Tail(PauseAt("call")) = <<At("call", "hold")>>
  /\ <<At("call", "hold")>> # <<>> /\ Head(<<At("call", "hold")>>) = At("call", "hold")
  /\ Tail(<<At("call", "hold")>>) = <<>>
<1> DEFINE f == At("call", "look")
           g == At("call", "hold")
<1>1. PauseAt("call") = <<f, g>>
  BY DEF PauseAt
<1> HIDE DEF f, g
<1>2. <<f, g>> # <<>> /\ Head(<<f, g>>) = f /\ <<g>> # <<>> /\ Head(<<g>>) = g
  OBVIOUS
<1>3. Tail(<<f, g>>) = <<g>> /\ Tail(<<g>>) = <<>>
  OBVIOUS
<1>4. QED
  BY <1>1, <1>2, <1>3 DEF f, g

LEMMA PausingHead ==
  ASSUME NEW q, Pausing(q)
  PROVE  Head(q).do \in {"look", "hold"} /\ (Head(q).do = "hold" => Tail(q) = <<>>)
<1>1. CASE q = PauseAt("call")
  BY <1>1, PausingIs DEF At
<1>2. CASE q = <<At("call", "hold")>>
  BY <1>2, PausingIs DEF At
<1>3. QED
  BY <1>1, <1>2 DEF Pausing

\* The list that is left when the first item is taken off.
LEMMA RestFits ==
  ASSUME TypeOK, NEW c \in Callers, ListOf(c), todo[c] # <<>>
  PROVE  LET r == Tail(todo[c])
         IN  /\ Fit(r) \/ (c = "app" /\ Pausing(r) /\ TRUE \in wanted)
             /\ Waited \notin Ahead(r)
             /\ r # <<>> => Waited \notin Ahead(Tail(r)) /\ Head(r).do # "wait"
<1> DEFINE r == Tail(todo[c])
<1>1. r \in Seq(Item) /\ Waited \notin Ahead(r)
  BY DEF TypeOK, ListOf
<1>2. r # <<>> => Waited \notin Ahead(Tail(r)) /\ Head(r).do # "wait"
  BY <1>1, WaitsBehind
<1>3. CASE Pausing(todo[c]) /\ c = "app" /\ TRUE \in wanted
  <2>1. Pausing(r) \/ r = <<>>
    BY <1>3, PausingIs DEF Pausing
  <2>2. QED
    BY <1>1, <1>2, <1>3, <2>1, NoMarks
<1>4. CASE Fit(r)
  BY <1>1, <1>2, <1>4
<1>5. QED
  BY <1>3, <1>4, HeadFits DEF Seen

\* What a step does to a caller's list and the marks in it.
LEMMA Moves ==
  ASSUME TypeOK, NEW c \in Callers, ListOf(c), Caller(c)
  PROVE  /\ todo'[c] \in Seq(Item) /\ ListOf(c)'
         /\ Moved(Head(todo[c]), Ahead(todo[c]), Ahead(todo'[c]))
         /\ Head(todo[c]).do = "branch" => Waited \notin Ahead(todo'[c])
<1> DEFINE q == todo[c]
           x == Head(q)
           r == Tail(q)
           n == todo'[c]
<1>1. /\ q # <<>> /\ NewList(c) /\ NewFlags(c)
  BY Acts
<1>2. q \in Seq(Item) /\ x \in Item /\ r \in Seq(Item)
      /\ Ahead(q) = (Adds(x) \cap Marks) \cup (Ahead(r) \ Kills(x))
  BY <1>1, First DEF TypeOK
<1>3. /\ Fit(r) \/ (c = "app" /\ Pausing(r) /\ TRUE \in wanted)
      /\ Waited \notin Ahead(r)
      /\ r # <<>> => Waited \notin Ahead(Tail(r))
  BY <1>1, RestFits
<1>4. wanted' = wanted /\ (x.do # "drop" => valid' = valid) /\ crossed' = crossed
  BY <1>1 DEF NewFlags
<1>5. CASE n = r /\ x.do # "branch" /\ (x.do = "try" => ~valid)
  <2>1. Moved(x, Ahead(q), Ahead(n))
    BY <1>2, <1>5, TakenOff
  <2>2. ListOf(c)'
    BY <1>3, <1>4, <1>5 DEF ListOf, Pausing
  <2>3. QED
    BY <1>2, <1>5, <2>1, <2>2
<1>6. CASE x.do = "set" /\ n = Puts(Wait(x.of), r)
  <2> DEFINE i == Wait(x.of)
  <2>1. i \in Item /\ i.do = "wait"
    BY <1>2, <1>6, ItemKinds DEF Wait, Item
  <2>2. n \in Seq(Item) /\ n # <<>> /\ Tail(n) = r
    BY <1>2, <1>6, <2>1, Cons
  <2>3. Adds(i) = {Waited} /\ Kills(i) = {} /\ Fits(i, Ahead(r))
    BY <2>1 DEF Adds, Kills, Fits
  <2> HIDE DEF i
  <2>4. Ahead(Puts(i, r)) = (Adds(i) \cap Marks) \cup (Ahead(r) \ Kills(i)) /\ (Fit(Puts(i, r)) <=> Fits(i, Ahead(r)) /\ Fit(r))
    BY <1>2, <2>1, InFront
  <2>5. Moved(x, Ahead(q), Ahead(n))
    <3>1. \A k \in Marks : k # Waited => (k \in Ahead(n) <=> k \in Ahead(r))
      BY <1>6, <2>3, <2>4 DEF i
    <3>2. QED
      BY <1>2, <1>6, <3>1, TakenOff
  <2>6. Fit(r)
    <3>1. ASSUME Pausing(q) PROVE x.do # "set"
      BY <3>1, PausingIs DEF Pausing, At
    <3>2. QED
      BY <1>1, <1>6, <3>1, HeadFits DEF Seen
  <2>7. ListOf(c)'
    BY <1>3, <1>6, <2>2, <2>3, <2>4, <2>6 DEF ListOf, i
  <2>8. QED
    BY <1>6, <2>2, <2>5, <2>7
<1>7. CASE x.do = "wait" /\ n = q
  <2>1. Moved(x, Ahead(q), Ahead(n))
    BY <1>7 DEF Moved
  <2>2. ListOf(c)'
    BY <1>4, <1>7 DEF ListOf
  <2>3. QED
    BY <1>2, <1>7, <2>1, <2>2
<1>8. CASE x.do = "try" /\ valid /\ n = Puts(Set(x.of, x.to), r)
  <2> DEFINE i == Set(x.of, x.to)
  <2>1. /\ i \in Item /\ i.do = "set" /\ i.of = x.of /\ i.to = x.to
        /\ x.of = "audio" /\ x.to \in {"IDLE", "RUNNING"}
    BY <1>2, <1>8, ItemKinds DEF Set, Item, Workers, Modes
  <2>2. n \in Seq(Item) /\ n # <<>> /\ Tail(n) = r /\ Head(n) = i
    BY <1>2, <1>8, <2>1, Cons
  <2>3. Fits(x, Ahead(r)) /\ Fit(r)
    <3>1. ASSUME Pausing(q) PROVE x.do # "try"
      BY <3>1, PausingIs DEF Pausing, At
    <3>2. ASSUME Seen(q) PROVE x.do # "try"
      BY <3>2 DEF Seen, Set
    <3>3. QED
      BY <1>1, <1>8, <3>1, <3>2, HeadFits
  <2>4. Kills(i) = Kills(x) /\ Adds(x) \subseteq Adds(i) /\ \A k \in Adds(i) : k \in Adds(x) \/ k = Again
    BY <1>8, <2>1 DEF Kills, Adds
  <2> HIDE DEF i
  <2>5. Ahead(Puts(i, r)) = (Adds(i) \cap Marks) \cup (Ahead(r) \ Kills(i)) /\ (Fit(Puts(i, r)) <=> Fits(i, Ahead(r)) /\ Fit(r))
    BY <1>2, <2>1, InFront
  <2>6. Moved(x, Ahead(q), Ahead(n))
    <3>1. \A k : k # Again => (k \in Ahead(n) <=> k \in Ahead(q))
      BY <1>2, <1>8, <2>4, <2>5 DEF i
    <3>2. Again \in Ahead(q) => Again \in Ahead(n)
      BY <1>2, <1>8, <2>4, <2>5 DEF i
    <3>3. QED
      BY <3>1, <3>2 DEF Moved, Again, Leave, Resumed, Sink, Later
  <2>7. Fit(n) \/ Seen(n)
    <3>1. CASE x.to = "IDLE"
      <4>1. <<"run", "audio">> \in Ahead(r) /\ i = Set("audio", "IDLE")
        BY <1>8, <2>1, <2>3, <3>1 DEF Fits, i
      <4>2. QED
        BY <2>2, <2>3, <4>1 DEF Seen
    <3>2. CASE x.to = "RUNNING"
      <4>1. Fits(i, Ahead(r))
        BY <1>8, <2>1, <2>3, <3>2 DEF Fits
      <4>2. QED
        BY <1>8, <2>3, <2>5, <4>1 DEF i
    <3>3. QED
      BY <2>1, <3>1, <3>2
  <2>8. ListOf(c)'
    BY <1>3, <1>4, <1>8, <2>2, <2>7 DEF ListOf
  <2>9. QED
    BY <1>8, <2>2, <2>6, <2>8
<1>9. CASE x.do = "branch" /\ \E p \in WaysOn(x.of) : n = p \o r
  <2>1. PICK p \in WaysOn(x.of) : n = p \o r
    BY <1>9
  <2>2. x.of \in Ways /\ x = At(x.of, "branch") /\ q = Puts(x, r)
    BY <1>1, <1>2, <1>9, ItemKinds, First
  <2>3. Fit(q)
    <3>1. ASSUME Pausing(q) PROVE x.do # "branch"
      BY <3>1, PausingIs DEF Pausing, At
    <3>2. ASSUME Seen(q) PROVE x.do # "branch"
      BY <3>2 DEF Seen, Set
    <3>3. QED
      BY <1>9, <3>1, <3>2 DEF ListOf
  <2> DEFINE way == x.of
  <2>4. /\ way \in Ways /\ p \in WaysOn(way) /\ Fit(Puts(At(way, "branch"), r))
        /\ Ahead(Puts(At(way, "branch"), r)) = Ahead(q)
    BY <2>1, <2>2, <2>3
  <2> HIDE DEF way
  <2>5. p \o r \in Seq(Item) /\ Fit(p \o r) /\ Narrower(Ahead(p \o r), Ahead(q))
    <3>1. p \o r \in Seq(Item) /\ Fit(p \o r) /\ Narrower(Ahead(p \o r), Ahead(Puts(At(way, "branch"), r)))
      BY <1>2, <2>4, BranchStep
    <3>2. QED
      BY <2>4, <3>1
  <2>6. n \in Seq(Item) /\ Fit(n) /\ Narrower(Ahead(n), Ahead(q))
    BY <2>1, <2>5
  <2>7. Moved(x, Ahead(q), Ahead(n))
    BY <1>9, <2>6 DEF Narrower, Moved
  <2>8. Waited \notin Ahead(n)
    <3>1. Waited \notin Adds(x)
      BY <1>9, <2>2 DEF Adds, Ways, Waited, Sink
    <3>2. Waited \notin Ahead(q)
      BY <1>2, <1>3, <3>1
    <3>3. QED
      BY <2>6, <3>2 DEF Narrower
  <2>9. n # <<>> => Waited \notin Ahead(Tail(n))
    BY <2>6, <2>8, WaitsBehind
  <2>10. QED
    BY <2>6, <2>7, <2>8, <2>9 DEF ListOf
<1>10. QED
  BY <1>1, <1>5, <1>6, <1>7, <1>8, <1>9 DEF NewList

\* The application's calls,
LEMMA ApiActs ==
  ASSUME TypeOK, Api
  PROVE  /\ todo["app"] = <<>> /\ todo["cmd"] = <<>> /\ Open
         /\ todo' = [todo EXCEPT !["app"] = todo'["app"]] /\ todo'["cmd"] = <<>>
         /\ UNCHANGED <<threads, flags>> /\ crossed' = (crossed /\ ~valid)
         /\ \/ /\ Good(todo'["app"]) /\ Leave \notin Ahead(todo'["app"])
               /\ Resumed \notin Ahead(todo'["app"]) /\ wanted' = wanted /\ pending' = pending
            \/ /\ Good(todo'["app"]) /\ Leave \notin Ahead(todo'["app"])
               /\ Resumed \in Ahead(todo'["app"]) /\ wanted' = {FALSE} /\ pending' = pending
            \/ /\ todo'["app"] = PauseAt("call") /\ pending' = pending
               /\ wanted' = IF pending THEN wanted \cup {TRUE} ELSE {TRUE}
            \/ /\ Good(todo'["app"]) /\ Leave \in Ahead(todo'["app"])
               /\ Resumed \notin Ahead(todo'["app"]) /\ wanted' = wanted /\ pending' = FALSE
<1>1. ASSUME NEW request, NEW items, Call(request, items)
      PROVE  /\ todo["app"] = <<>> /\ todo["cmd"] = <<>> /\ Open /\ todo'["app"] = items
             /\ todo' = [todo EXCEPT !["app"] = todo'["app"]] /\ todo'["cmd"] = <<>>
             /\ UNCHANGED <<threads, flags>> /\ crossed' = (crossed /\ ~valid)
  BY <1>1 DEF Call, TypeOK, Callers
<1>2. CASE Seek
  BY <1>1, <1>2, SeekFits DEF Seek
<1>3. CASE SetSpeed
  BY <1>1, <1>3, SpeedFits DEF SetSpeed
<1>4. CASE SetAudio
  BY <1>1, <1>4, AudioFits DEF SetAudio
<1>5. CASE SetSubtitle
  BY <1>1, <1>5, SubtitleFits DEF SetSubtitle
<1>6. CASE ResumeCall
  <2>1. Leave # Resumed
    BY DEF Leave, Resumed
  <2>2. QED
    BY <1>1, <1>6, <2>1, ResumeFits DEF ResumeCall
<1>7. CASE PauseCall
  BY <1>1, <1>7 DEF PauseCall
<1>8. CASE Stop
  BY <1>1, <1>8, StopFits DEF Stop
<1>9. QED
  BY <1>2, <1>3, <1>4, <1>5, <1>6, <1>7, <1>8 DEF Api

\* and the command thread's.
LEMMA TakeActs ==
  ASSUME TypeOK, TakeSeek
  PROVE  /\ todo["cmd"] = <<>> /\ pending /\ pending' = FALSE
         /\ todo' = [todo EXCEPT !["cmd"] = todo'["cmd"]] /\ todo'["app"] = todo["app"]
         /\ todo'["cmd"] = SeekItems
         /\ UNCHANGED <<threads, flags, wanted>>
         /\ crossed' = (todo["app"] # <<>> \/ (crossed /\ ~valid))
BY DEF TakeSeek, TypeOK, Callers

\* The workers' steps leave the callers alone.
LEMMA WorkerActs ==
  ASSUME TypeOK, NEW w \in Workers, Worker(w)
  PROVE  /\ UNCHANGED <<set, todo, pending, was, paused, valid, wanted, crossed>>
         /\ stepping' \in BOOLEAN
         /\ get' \in [Workers -> Modes]
         /\ wpc' \in [Workers -> {"top", "parked", "turn", "work", "gone"}]
         /\ \A v \in Workers : v # w => get'[v] = get[v] /\ wpc'[v] = wpc[v]
         /\ \/ /\ wpc[w] = "top" /\ get'[w] = set[w]
               /\ set[w] = "IDLE" => wpc'[w] = "parked"
               /\ set[w] = "RUNNING" => wpc'[w] = "turn"
               /\ set[w] = "EXIT" => wpc'[w] = "gone"
            \/ wpc[w] = "parked" /\ get' = get /\ wpc'[w] \in {"parked", "top"}
            \/ wpc[w] = "turn" /\ get' = get /\ wpc'[w] = (IF HasWork(w) THEN "work" ELSE "top")
            \/ wpc[w] = "work" /\ get' = get /\ wpc'[w] = "top"
<1>0. /\ get \in [Workers -> Modes] /\ set \in [Workers -> Modes] /\ stepping \in BOOLEAN
      /\ wpc \in [Workers -> {"top", "parked", "turn", "work", "gone"}]
  BY DEF TypeOK
<1>1. CASE Ack(w)
  <2> DEFINE p == CASE set[w] = "IDLE" -> "parked" [] set[w] = "RUNNING" -> "turn" [] set[w] = "EXIT" -> "gone"
  <2>1. /\ p \in {"parked", "turn", "gone"}
        /\ set[w] = "IDLE" => p = "parked"
        /\ set[w] = "RUNNING" => p = "turn"
        /\ set[w] = "EXIT" => p = "gone"
    BY <1>0 DEF Modes
  <2>2. wpc[w] = "top" /\ get' = [get EXCEPT ![w] = set[w]] /\ wpc' = [wpc EXCEPT ![w] = p]
        /\ UNCHANGED <<set, todo, pending, flags, history>>
    BY <1>1 DEF Ack
  <2> HIDE DEF p
  <2>3. QED
    BY <1>0, <2>1, <2>2 DEF flags, history
<1>2. CASE Unpark(w)
  BY <1>0, <1>2 DEF Unpark, flags, history
<1>3. CASE Turn(w)
  BY <1>0, <1>3 DEF Turn, flags, history
<1>4. CASE EndWork(w)
  BY <1>0, <1>4 DEF EndWork, flags, history
<1>5. QED
  BY <1>1, <1>2, <1>3, <1>4 DEF Worker

LEMMA NextCases ==
  ASSUME [Next]_vars
  PROVE  \/ \E w \in Workers : Worker(w)
         \/ \E c \in Callers : Caller(c)
         \/ Api \/ TakeSeek
         \/ /\ todo["app"] = <<>> /\ Open /\ pending' = TRUE
            /\ UNCHANGED <<threads, todo, flags, history>>
         \/ UNCHANGED vars
BY DEF Next, SeekAsync, Stopped

-----------------------------------------------------------------------------
(* Every step preserves each part of the invariant. *)

LEMMA AsleepTyped ==
  ASSUME TypeOK, [Next]_vars
  PROVE  asleep' \subseteq (Workers \cup Callers) \X Workers
<1>0. asleep \subseteq (Workers \cup Callers) \X Workers /\ todo \in [Callers -> Seq(Item)]
  BY DEF TypeOK
<1>1. ASSUME NEW w \in Workers, Worker(w) PROVE asleep' \subseteq (Workers \cup Callers) \X Workers
  <2>1. <<w, w>> \in (Workers \cup Callers) \X Workers
    OBVIOUS
  <2>2. asleep' \subseteq asleep \cup {<<w, w>>}
    BY <1>1 DEF Worker, Ack, Unpark, Turn, EndWork
  <2>3. QED
    BY <1>0, <2>1, <2>2
<1>2. ASSUME NEW c \in Callers, Caller(c) PROVE asleep' \subseteq (Workers \cup Callers) \X Workers
  <2>1. ASSUME NEW w \in Workers, asleep' \subseteq asleep \cup {<<c, w>>}
        PROVE  asleep' \subseteq (Workers \cup Callers) \X Workers
    BY <1>0, <2>1
  <2>2. CASE SetState(c)
    <3>1. todo[c] # <<>> /\ Head(todo[c]).do = "set"
      BY <2>2 DEF SetState, Item1
    <3>2. Head(todo[c]).of \in Workers
      BY <1>0, <3>1, First, ItemKinds
    <3>3. asleep' \subseteq asleep \cup {<<c, Head(todo[c]).of>>}
      BY <2>2 DEF SetState, Ask
    <3>4. QED
      BY <2>1, <3>2, <3>3
  <2>3. CASE AwaitState(c)
    <3>1. todo[c] # <<>> /\ Head(todo[c]).do = "wait"
      BY <2>3 DEF AwaitState, Item1
    <3>2. Head(todo[c]).of \in Workers
      BY <1>0, <3>1, First, ItemKinds
    <3>3. asleep' \subseteq asleep \cup {<<c, Head(todo[c]).of>>}
      BY <2>3 DEF AwaitState
    <3>4. QED
      BY <2>1, <3>2, <3>3
  <2>4. CASE ~SetState(c) /\ ~AwaitState(c)
    <3>1. asleep' = asleep
      BY <1>2, <2>4 DEF Caller, TrySetState, JoinWorker, Look, Hold, UnPause, Resume, Play, Drop,
                        Proceed, Branch, threads
    <3>2. QED
      BY <1>0, <3>1
  <2>5. QED
    BY <2>2, <2>3, <2>4
<1>3. CASE Api \/ TakeSeek
  <2>1. asleep' = asleep
    BY <1>3, ApiActs, TakeActs DEF threads
  <2>2. QED
    BY <1>0, <2>1
<1>4. QED
  BY <1>0, <1>1, <1>2, <1>3, NextCases DEF threads, vars

LEMMA TypeStep ==
  ASSUME Inv, [Next]_vars
  PROVE  TypeOK'
<1>0. TypeOK /\ \A c \in Callers : ListOf(c)
  BY DEF Inv
<1>1. asleep' \subseteq (Workers \cup Callers) \X Workers
  BY <1>0, AsleepTyped
<1>2. ASSUME NEW w \in Workers, Worker(w) PROVE TypeOK'
  BY <1>0, <1>1, <1>2, WorkerActs DEF TypeOK
<1>3. ASSUME NEW c \in Callers, Caller(c) PROVE TypeOK'
  <2> DEFINE x == Head(todo[c])
  <2>1. todo[c] # <<>> /\ NewList(c) /\ NewFlags(c)
    BY <1>0, <1>3, Acts
  <2>2. x \in Item
    BY <1>0, <2>1, First DEF TypeOK
  <2>3. todo' \in [Callers -> Seq(Item)]
    <3>1. todo'[c] \in Seq(Item) /\ todo' = [todo EXCEPT ![c] = todo'[c]]
      BY <1>0, <1>3, <2>1, Moves DEF NewList
    <3>2. QED
      BY <1>0, <3>1 DEF TypeOK
  <2>4. set' \in [Workers -> Modes]
    BY <1>0, <2>1, <2>2, ItemKinds DEF NewFlags, TypeOK
  <2>5. was' \in [Callers -> [Levels -> BOOLEAN]]
    <3>1. was \in [Callers -> [Levels -> BOOLEAN]] /\ paused \in BOOLEAN
      BY <1>0 DEF TypeOK
    <3>2. ASSUME NEW l \in Levels, NEW v \in BOOLEAN
          PROVE  [was EXCEPT ![c][l] = v] \in [Callers -> [Levels -> BOOLEAN]]
      BY <3>1
    <3>3. x.do \in {"look", "unpause"} => x.of \in Levels
      BY <2>2, ItemKinds
    <3>4. CASE x.do = "look"
      BY <2>1, <3>1, <3>2, <3>3, <3>4 DEF NewFlags
    <3>5. CASE x.do = "unpause"
      <4>1. was' = [was EXCEPT ![c][x.of] = FALSE]
        BY <2>1, <3>5 DEF NewFlags
      <4>2. \A l \in Levels : [was EXCEPT ![c][l] = FALSE] \in [Callers -> [Levels -> BOOLEAN]]
        BY <3>2
      <4>3. QED
        BY <3>3, <3>5, <4>1, <4>2
    <3>6. CASE x.do \notin {"look", "unpause"}
      BY <2>1, <3>1, <3>6 DEF NewFlags
    <3>7. QED
      BY <3>4, <3>5, <3>6
  <2>6. paused' \in BOOLEAN
    <3>1. paused \in BOOLEAN
      BY <1>0 DEF TypeOK
    <3>2. QED
      BY <2>1, <3>1 DEF NewFlags
  <2>7. valid' \in BOOLEAN /\ stepping' \in BOOLEAN
    BY <1>0, <2>1 DEF NewFlags, TypeOK
  <2>8. /\ get' \in [Workers -> Modes] /\ pending' \in BOOLEAN /\ wanted' \in SUBSET BOOLEAN
        /\ wpc' \in [Workers -> {"top", "parked", "turn", "work", "gone"}] /\ crossed' \in BOOLEAN
    BY <1>0, <2>1 DEF NewFlags, TypeOK
  <2>9. QED
    BY <1>1, <2>3, <2>4, <2>5, <2>6, <2>7, <2>8 DEF TypeOK
<1>4. CASE Api
  <2>1. todo' \in [Callers -> Seq(Item)]
    <3>1. todo'["app"] \in Seq(Item) /\ todo' = [todo EXCEPT !["app"] = todo'["app"]]
      BY <1>0, <1>4, ApiActs, PauseIs DEF Good
    <3>2. QED
      BY <1>0, <3>1 DEF TypeOK
  <2>2. /\ UNCHANGED <<threads, flags>> /\ crossed' = (crossed /\ ~valid)
        /\ wanted' \in {wanted, {FALSE}, wanted \cup {TRUE}, {TRUE}} /\ pending' \in {pending, FALSE}
    BY <1>0, <1>4, ApiActs
  <2>3. crossed' \in BOOLEAN /\ wanted' \in SUBSET BOOLEAN /\ pending' \in BOOLEAN
    BY <1>0, <2>2 DEF TypeOK
  <2>4. QED
    BY <1>0, <1>1, <2>1, <2>2, <2>3 DEF TypeOK, threads, flags
<1>5. CASE TakeSeek
  <2>1. todo' \in [Callers -> Seq(Item)]
    <3>1. todo'["cmd"] \in Seq(Item) /\ todo' = [todo EXCEPT !["cmd"] = todo'["cmd"]]
      BY <1>0, <1>5, TakeActs, SeekFits DEF Good
    <3>2. QED
      BY <1>0, <3>1 DEF TypeOK
  <2>2. UNCHANGED <<threads, flags, wanted>> /\ crossed' = (todo["app"] # <<>> \/ (crossed /\ ~valid))
        /\ pending' = FALSE
    BY <1>0, <1>5, TakeActs
  <2>3. crossed' \in BOOLEAN
    BY <2>2
  <2>4. QED
    BY <1>0, <1>1, <2>1, <2>2, <2>3 DEF TypeOK, threads, flags
<1>6. CASE pending' = TRUE /\ UNCHANGED <<threads, todo, flags, history>>
  BY <1>0, <1>6 DEF TypeOK, threads, flags, history
<1>7. CASE UNCHANGED vars
  BY <1>0, <1>7 DEF TypeOK, vars, threads, flags, history
<1>8. QED
  BY <1>2, <1>3, <1>4, <1>5, <1>6, <1>7, NextCases

\* What the callers have left.
LEMMA ListStep ==
  ASSUME Inv, [Next]_vars, NEW c \in Callers
  PROVE  ListOf(c)'
<1>0. TypeOK /\ ListOf(c) /\ Alone
  BY DEF Inv
<1>1. ASSUME UNCHANGED <<todo, valid, crossed, wanted>> PROVE ListOf(c)'
  BY <1>0, <1>1 DEF ListOf
<1>2. ASSUME Good(todo'[c]) PROVE ListOf(c)'
  BY <1>2, WaitsBehind DEF Good, Fresh, ListOf
<1>3. ASSUME NEW d \in Callers, Caller(d) PROVE ListOf(c)'
  <2>1. CASE c = d
    BY <1>0, <1>3, <2>1, Moves
  <2>2. CASE c # d
    <3>1. /\ todo[d] # <<>> /\ todo'[c] = todo[c] /\ wanted' = wanted /\ crossed' = crossed
          /\ valid' = valid \/ Head(todo[d]).do = "drop"
      BY <1>0, <1>3, <2>2, Acts DEF NewList, NewFlags
    <3>2. todo[c] # <<>> => crossed
      BY <1>0, <2>2, <3>1 DEF Alone, Callers
    <3>3. Seen(todo[c]) => crossed
      BY <3>2 DEF Seen
    <3>4. QED
      BY <1>0, <3>1, <3>3 DEF ListOf
  <2>3. QED
    BY <2>1, <2>2
<1>4. CASE Api
  <2>1. todo'["cmd"] = <<>> /\ (Good(todo'["app"]) \/ (todo'["app"] = PauseAt("call") /\ TRUE \in wanted'))
    BY <1>0, <1>4, ApiActs
  <2>2. CASE c = "cmd"
    BY <1>2, <2>1, <2>2, Nothing
  <2>3. CASE c = "app" /\ Good(todo'["app"])
    BY <1>2, <2>3
  <2>4. CASE c = "app" /\ todo'["app"] = PauseAt("call") /\ TRUE \in wanted'
    <3>1. Waited \notin Ahead(Tail(todo'["app"]))
      <4>1. Tail(todo'["app"]) = <<At("call", "hold")>>
        BY <2>4, PausingIs
      <4>2. Ahead(Tail(todo'["app"])) = {<<"hold", "call">>}
        BY <4>1, PauseIs
      <4>3. QED
        BY <4>2 DEF Waited
    <3>2. QED
      BY <2>4, <3>1 DEF ListOf, Pausing
  <2>5. QED
    BY <2>1, <2>2, <2>3, <2>4 DEF Callers
<1>5. CASE TakeSeek
  <2>1. /\ todo'["app"] = todo["app"] /\ todo'["cmd"] = SeekItems /\ UNCHANGED <<flags, wanted>>
        /\ crossed' = (todo["app"] # <<>> \/ (crossed /\ ~valid))
    BY <1>0, <1>5, TakeActs
  <2>2. CASE c = "cmd"
    BY <1>2, <2>1, <2>2, SeekFits
  <2>3. CASE c = "app"
    <3>1. Seen(todo["app"]) => todo["app"] # <<>>
      BY DEF Seen
    <3>2. QED
      BY <1>0, <2>1, <2>3, <3>1 DEF ListOf
  <2>4. QED
    BY <2>2, <2>3 DEF Callers
<1>6. QED
  BY <1>1, <1>3, <1>4, <1>5, WorkerActs, NextCases, <1>0 DEF vars, flags, history

LEMMA BesideStep ==
  ASSUME Inv, [Next]_vars
  PROVE  Alone' /\ SeekBeside'
<1>0. TypeOK /\ Alone /\ SeekBeside /\ "app" \in Callers /\ "cmd" \in Callers
  BY DEF Inv, Callers
<1>1. ASSUME UNCHANGED <<todo, crossed>> PROVE Alone' /\ SeekBeside'
  BY <1>0, <1>1 DEF Alone, SeekBeside
<1>2. ASSUME NEW d \in Callers, Caller(d) PROVE Alone' /\ SeekBeside'
  <2> DEFINE x == Head(todo[d])
             r == Tail(todo[d])
  <2>1. todo[d] # <<>> /\ NewList(d) /\ NewFlags(d)
    BY <1>0, <1>2, Acts
  <2>2. crossed' = crossed /\ \A c \in Callers : c # d => todo'[c] = todo[c]
    BY <2>1 DEF NewList, NewFlags
  <2>3. Alone'
    BY <1>0, <2>1, <2>2 DEF Alone, Callers
  <2>4. CASE d = "app"
    <3>1. todo["cmd"] \in Seq(SeekItem) /\ todo'["cmd"] = todo["cmd"]
      BY <1>0, <2>1, <2>2, <2>4 DEF SeekBeside
    <3>2. QED
      BY <2>3, <3>1 DEF SeekBeside
  <2>5. CASE d = "cmd" /\ todo["app"] = <<>> /\ ~crossed
    BY <1>0, <2>2, <2>3, <2>5 DEF SeekBeside
  <2>6. CASE d = "cmd" /\ todo["cmd"] \in Seq(SeekItem)
    <3>1. x \in SeekItem /\ r \in Seq(SeekItem)
      BY <2>1, <2>6
    <3>2. /\ x \in Item
          /\ x.do \in {"set", "try", "wait", "touch", "look", "hold", "unpause", "play", "branch"}
          /\ x.do \in {"set", "try", "wait"} => x.of \in Shared /\ x.to # "EXIT"
          /\ x.do = "branch" => x.of = "seek"
      BY <3>1 DEF SeekItem
    <3>3. CASE todo'["cmd"] = r \/ todo'["cmd"] = todo["cmd"]
      BY <2>3, <2>6, <3>1, <3>3 DEF SeekBeside
    <3>4. ASSUME NEW i \in SeekItem, todo'["cmd"] = Puts(i, r) PROVE Alone' /\ SeekBeside'
      <4>1. <<i>> \in Seq(SeekItem)
        OBVIOUS
      <4>2. <<i>> \o r \in Seq(SeekItem)
        BY <3>1, <4>1
      <4>3. QED
        BY <2>3, <3>4, <4>2 DEF SeekBeside, Puts
    <3>5. CASE x.do = "set"
      <4>1. Wait(x.of) \in SeekItem
        BY <3>2, <3>5, SeekItemsAre DEF Shared
      <4>2. QED
        BY <2>1, <2>6, <3>3, <3>4, <3>5, <4>1 DEF NewList
    <3>6. CASE x.do = "try"
      <4>1. Set(x.of, x.to) \in SeekItem
        BY <3>2, <3>6, ItemKinds, SeekItemsAre
      <4>2. QED
        BY <2>1, <2>6, <3>3, <3>4, <3>6, <4>1 DEF NewList
    <3>7. CASE x.do = "branch"
      <4>1. PICK p \in WaysOn("seek") : todo'["cmd"] = p \o r
        BY <2>1, <2>6, <3>2, <3>7 DEF NewList
      <4>2. p \in Seq(SeekItem)
        BY SeekLists
      <4>3. p \o r \in Seq(SeekItem)
        BY <3>1, <4>2
      <4>4. QED
        BY <2>3, <4>1, <4>3 DEF SeekBeside
    <3>8. CASE x.do \notin {"set", "try", "branch"}
      BY <2>1, <2>6, <3>3, <3>8 DEF NewList
    <3>9. QED
      BY <3>5, <3>6, <3>7, <3>8
  <2>7. QED
    BY <1>0, <2>4, <2>5, <2>6 DEF Callers, SeekBeside
<1>3. CASE Api
  <2>1. todo'["cmd"] = <<>>
    BY <1>0, <1>3, ApiActs
  <2>2. QED
    BY <2>1 DEF Alone, SeekBeside
<1>4. CASE TakeSeek
  <2>1. todo'["cmd"] = SeekItems /\ todo'["app"] = todo["app"]
        /\ crossed' = (todo["app"] # <<>> \/ (crossed /\ ~valid))
    BY <1>0, <1>4, TakeActs
  <2>2. QED
    BY <2>1, SeekLists DEF Alone, SeekBeside
<1>5. QED
  BY <1>0, <1>1, <1>2, <1>3, <1>4, WorkerActs, NextCases DEF vars, history

\* What an ask leaves ahead.
LEMMA Asked ==
  ASSUME TypeOK, NEW c \in Callers, ListOf(c), Caller(c), Head(todo[c]).do = "set"
  PROVE  LET x == Head(todo[c])
             b == Ahead(todo'[c])
         IN  /\ x.of \in Workers /\ x.to \in Modes /\ <<"ask", x.of>> \in Ahead(todo[c])
             /\ x.to = "IDLE" =>
                  /\ <<"run", x.of>> \in b
                  /\ x.of = "audio" /\ ~crossed /\ ~valid => Again \in b
             /\ x.to = "RUNNING" => <<"touch", x.of>> \notin b
             /\ x.to = "EXIT" => <<"ask", x.of>> \notin b /\ <<"touch", x.of>> \notin b
<1> DEFINE x == Head(todo[c])
           r == Tail(todo[c])
           b == Ahead(todo'[c])
<1>1. todo[c] # <<>> /\ NewList(c)
  BY Acts
<1>2. /\ x \in Item /\ r \in Seq(Item) /\ x.of \in Workers /\ x.to \in Modes
      /\ Ahead(todo[c]) = (Adds(x) \cap Marks) \cup (Ahead(r) \ Kills(x))
  BY <1>1, First, ItemKinds DEF TypeOK
<1>3. <<"ask", x.of>> \in Ahead(todo[c])
  <2>1. <<"ask", x.of>> \in Adds(x)
    BY DEF Adds
  <2>2. QED
    BY <1>2, <2>1, AreMarks
<1>4. ASSUME NEW k \in Marks, k # Waited PROVE k \in b <=> k \in Ahead(r)
  <2>1. CASE todo'[c] = r
    BY <2>1
  <2>2. CASE todo'[c] = Puts(Wait(x.of), r)
    <3> DEFINE i == Wait(x.of)
    <3>1. i \in Item /\ i.do = "wait"
      BY <1>2 DEF Wait, Item
    <3>2. Adds(i) = {Waited} /\ Kills(i) = {}
      BY <3>1 DEF Adds, Kills
    <3> HIDE DEF i
    <3>3. Ahead(Puts(i, r)) = (Adds(i) \cap Marks) \cup (Ahead(r) \ Kills(i))
      BY <1>2, <3>1, InFront
    <3>4. QED
      BY <1>4, <2>2, <3>2, <3>3 DEF i
  <2>3. QED
    BY <1>1, <2>1, <2>2 DEF NewList
<1>5. /\ {<<"run", x.of>>, <<"touch", x.of>>, <<"ask", x.of>>, Again} \subseteq Marks
      /\ Waited \notin {<<"run", x.of>>, <<"touch", x.of>>, <<"ask", x.of>>, Again}
  BY <1>2, AreMarks DEF Waited, Again
<1>6. /\ <<"run", x.of>> \in b <=> <<"run", x.of>> \in Ahead(r)
      /\ <<"touch", x.of>> \in b <=> <<"touch", x.of>> \in Ahead(r)
      /\ <<"ask", x.of>> \in b <=> <<"ask", x.of>> \in Ahead(r)
      /\ Again \in b <=> Again \in Ahead(r)
  BY <1>4, <1>5
<1>7. CASE Fits(x, Ahead(r))
  BY <1>2, <1>3, <1>6, <1>7 DEF Fits
<1>8. CASE Seen(todo[c]) /\ (valid \/ crossed)
  <2>1. x.of = "audio" /\ x.to = "IDLE" /\ <<"run", "audio">> \in Ahead(r)
    BY <1>8 DEF Seen, Set
  <2>2. QED
    BY <1>2, <1>3, <1>6, <1>8, <2>1
<1>9. ASSUME Pausing(todo[c]) PROVE FALSE
  BY <1>9, PausingIs DEF Pausing, At
<1>10. QED
  BY <1>1, <1>7, <1>8, <1>9, HeadFits

\* What any other item finds ahead.
LEMMA Proceeds ==
  ASSUME TypeOK, NEW c \in Callers, ListOf(c), Caller(c),
         Head(todo[c]).do \notin {"set", "wait", "branch"}, Head(todo[c]).do = "try" => ~valid
  PROVE  /\ todo'[c] = Tail(todo[c])
         /\ \/ Fits(Head(todo[c]), Ahead(todo'[c]))
            \/ c = "app" /\ Pausing(todo[c]) /\ TRUE \in wanted
<1>1. todo[c] # <<>> /\ todo'[c] = Tail(todo[c])
  BY Acts DEF NewList
<1>2. ~Seen(todo[c])
  BY DEF Seen, Set
<1>3. QED
  BY <1>1, <1>2, HeadFits

LEMMA RunAgainStep ==
  ASSUME Inv, [Next]_vars, NEW w \in Workers
  PROVE  RunAgain(w)'
<1>0. TypeOK /\ RunAgain(w) /\ AudioAgain /\ \A c \in Callers : ListOf(c)
  BY DEF Inv
<1>1. ASSUME UNCHANGED <<set, todo, valid, crossed>> PROVE RunAgain(w)'
  BY <1>0, <1>1 DEF RunAgain
<1>2. ASSUME NEW c \in Callers, Caller(c), set'[w] = "IDLE"
      PROVE  \/ \E d \in Callers : <<"run", w>> \in Ahead(todo'[d])
             \/ w = "audio" /\ ~valid' /\ crossed'
  <2> DEFINE x == Head(todo[c])
  <2>1. /\ todo[c] # <<>> /\ NewList(c) /\ NewFlags(c)
        /\ Moved(x, Ahead(todo[c]), Ahead(todo'[c]))
    BY <1>0, <1>2, Acts, Moves
  <2>2. /\ crossed' = crossed /\ (valid' = valid \/ valid' = FALSE) /\ set \in [Workers -> Modes]
        /\ \A d \in Callers : d # c => todo'[d] = todo[d]
    BY <1>0, <2>1 DEF NewList, NewFlags, TypeOK
  <2>3. CASE x.do = "set" /\ x.of = w
    <3>1. x.to = "IDLE"
      BY <1>2, <2>1, <2>2, <2>3 DEF NewFlags
    <3>2. QED
      BY <1>0, <1>2, <2>3, <3>1, Asked
  <2>4. CASE x.do # "set" \/ x.of # w
    <3>1. set[w] = "IDLE"
      BY <1>2, <2>1, <2>2, <2>4 DEF NewFlags
    <3>2. CASE w = "audio" /\ ~valid /\ crossed
      BY <2>2, <3>2
    <3>3. CASE ~(w = "audio" /\ ~valid /\ crossed)
      <4>1. PICK d \in Callers : <<"run", w>> \in Ahead(todo[d])
        BY <1>0, <3>1, <3>3 DEF RunAgain
      <4>2. CASE d # c \/ <<"run", w>> \in Ahead(todo'[c])
        BY <2>2, <4>1, <4>2
      <4>3. CASE d = c /\ <<"run", w>> \notin Ahead(todo'[c])
        <5>1. x.do = "try" /\ ~valid /\ x.of = w
          BY <2>1, <2>4, <4>1, <4>3 DEF Moved, Passed
        <5>2. w = "audio"
          BY <1>0, <2>1, <5>1, First, ItemKinds DEF TypeOK
        <5>3. PICK e \in Callers : Again \in Ahead(todo[e])
          BY <1>0, <3>1, <3>3, <5>1, <5>2 DEF AudioAgain
        <5>4. Again \in Ahead(todo'[e])
          BY <2>1, <2>2, <5>1, <5>3 DEF Moved
        <5>5. todo'[e] \in Seq(Item)
          BY TypeStep DEF TypeOK
        <5>6. QED
          BY <5>2, <5>4, <5>5, AgainRuns
      <4>4. QED
        BY <4>2, <4>3
    <3>4. QED
      BY <3>2, <3>3
  <2>5. QED
    BY <2>3, <2>4
<1>3. CASE Api
  <2>1. todo["app"] = <<>> /\ todo["cmd"] = <<>> /\ UNCHANGED <<threads, flags>>
        /\ crossed' = (crossed /\ ~valid)
    BY <1>0, <1>3, ApiActs
  <2>2. \A c \in Callers : Ahead(todo[c]) = {}
    BY <2>1, NoMarks DEF Callers
  <2>3. QED
    BY <1>0, <2>1, <2>2 DEF RunAgain, threads, flags
<1>4. CASE TakeSeek
  <2>1. /\ todo["cmd"] = <<>> /\ todo'["app"] = todo["app"] /\ UNCHANGED <<threads, flags>>
        /\ crossed' = (todo["app"] # <<>> \/ (crossed /\ ~valid))
    BY <1>0, <1>4, TakeActs
  <2>2. Ahead(todo["cmd"]) = {}
    BY <2>1, NoMarks
  <2>3. QED
    BY <1>0, <2>1, <2>2 DEF RunAgain, threads, flags, Callers
<1>5. QED
  BY <1>0, <1>1, <1>2, <1>3, <1>4, WorkerActs, NextCases DEF vars, threads, flags, history, RunAgain

LEMMA AudioAgainStep ==
  ASSUME Inv, [Next]_vars
  PROVE  AudioAgain'
<1>0. TypeOK /\ AudioAgain /\ \A c \in Callers : ListOf(c)
  BY DEF Inv
<1>1. ASSUME UNCHANGED <<set, todo, valid, crossed>> PROVE AudioAgain'
  BY <1>0, <1>1 DEF AudioAgain
<1>2. ASSUME NEW c \in Callers, Caller(c), ~crossed', ~valid', set'["audio"] = "IDLE"
      PROVE  \E d \in Callers : Again \in Ahead(todo'[d])
  <2> DEFINE x == Head(todo[c])
  <2>1. /\ todo[c] # <<>> /\ NewList(c) /\ NewFlags(c)
        /\ Moved(x, Ahead(todo[c]), Ahead(todo'[c]))
    BY <1>0, <1>2, Acts, Moves
  <2>2. /\ crossed' = crossed /\ set \in [Workers -> Modes] /\ "audio" \in Workers
        /\ \A d \in Callers : d # c => todo'[d] = todo[d]
    BY <1>0, <2>1 DEF NewList, NewFlags, TypeOK, Workers
  <2>3. CASE x.do = "set" /\ x.of = "audio"
    <3>1. x.to = "IDLE" /\ ~valid
      BY <1>2, <2>1, <2>2, <2>3 DEF NewFlags
    <3>2. QED
      BY <1>0, <1>2, <2>2, <2>3, <3>1, Asked
  <2>4. CASE x.do = "drop"
    <3>1. \/ Fits(x, Ahead(todo'[c])) 
          \/ Pausing(todo[c])
      BY <1>0, <1>2, <2>4, Proceeds
    <3>2. ASSUME Pausing(todo[c]) PROVE FALSE
      BY <2>4, <3>2, PausingIs DEF Pausing, At
    <3>3. QED
      BY <2>4, <3>1, <3>2 DEF Fits
  <2>5. CASE x.do # "drop" /\ (x.do # "set" \/ x.of # "audio")
    <3>1. set["audio"] = "IDLE" /\ ~valid
      BY <1>2, <2>1, <2>2, <2>5 DEF NewFlags
    <3>2. PICK d \in Callers : Again \in Ahead(todo[d])
      BY <1>0, <1>2, <2>2, <3>1 DEF AudioAgain
    <3>3. Again \in Ahead(todo'[d])
      BY <2>1, <2>2, <2>5, <3>2 DEF Moved
    <3>4. QED
      BY <3>3
  <2>6. QED
    BY <2>3, <2>4, <2>5
<1>3. CASE Api
  <2>1. todo["app"] = <<>> /\ todo["cmd"] = <<>> /\ UNCHANGED <<threads, flags>>
        /\ crossed' = (crossed /\ ~valid)
    BY <1>0, <1>3, ApiActs
  <2>2. \A c \in Callers : Ahead(todo[c]) = {}
    BY <2>1, NoMarks DEF Callers
  <2>3. QED
    BY <1>0, <2>1, <2>2 DEF AudioAgain, threads, flags
<1>4. CASE TakeSeek
  <2>1. /\ todo["cmd"] = <<>> /\ todo'["app"] = todo["app"] /\ UNCHANGED <<threads, flags>>
        /\ crossed' = (todo["app"] # <<>> \/ (crossed /\ ~valid))
    BY <1>0, <1>4, TakeActs
  <2>2. Ahead(todo["cmd"]) = {}
    BY <2>1, NoMarks
  <2>3. QED
    BY <1>0, <2>1, <2>2, NoMarks DEF AudioAgain, threads, flags, Callers
<1>5. QED
  BY <1>0, <1>1, <1>2, <1>3, <1>4, WorkerActs, NextCases DEF vars, threads, flags, history, AudioAgain

LEMMA TouchedStep ==
  ASSUME Inv, [Next]_vars, NEW d \in Callers, NEW w \in Workers
  PROVE  Touched(d, w)'
<1>0. /\ TypeOK /\ Touched(d, w) /\ Alone /\ SeekBeside /\ \A c \in Callers : ListOf(c)
      /\ valid \in BOOLEAN /\ crossed \in BOOLEAN /\ set \in [Workers -> Modes]
  BY DEF Inv, TypeOK
<1>1. ASSUME UNCHANGED <<set, todo, valid, crossed>> PROVE Touched(d, w)'
  BY <1>0, <1>1 DEF Touched
<1>2. ASSUME NEW c \in Callers, Caller(c), ~crossed' \/ w \notin Shared,
             <<"touch", w>> \in Ahead(todo'[d])
      PROVE  set'[w] = "IDLE" \/ (w = "audio" /\ ~valid')
  <2> DEFINE x == Head(todo[c])
  <2>1. /\ todo[c] # <<>> /\ NewList(c) /\ NewFlags(c)
        /\ Moved(x, Ahead(todo[c]), Ahead(todo'[c]))
    BY <1>0, <1>2, Acts, Moves
  <2>2. /\ crossed' = crossed /\ (valid' = valid \/ valid' = FALSE)
        /\ d # c => todo'[d] = todo[d]
    BY <2>1 DEF NewList, NewFlags
  <2>3. ASSUME x.do # "set" \/ x.of # w \/ x.to = "IDLE", <<"touch", w>> \in Ahead(todo[d])
        PROVE  set'[w] = "IDLE" \/ (w = "audio" /\ ~valid')
    <3>1. set[w] = "IDLE" \/ (w = "audio" /\ ~valid)
      BY <1>0, <1>2, <2>2, <2>3 DEF Touched
    <3>2. set'[w] = set[w] \/ set'[w] = "IDLE"
      BY <1>0, <2>1, <2>3 DEF NewFlags
    <3>3. QED
      BY <2>2, <3>1, <3>2
  <2>4. CASE d = c
    <3>1. CASE <<"touch", w>> \in Ahead(todo[d])
      <4>1. CASE x.do = "set" /\ x.of = w /\ x.to # "IDLE"
        <5>1. /\ x.to \in Modes
              /\ x.to = "RUNNING" => <<"touch", x.of>> \notin Ahead(todo'[c])
              /\ x.to = "EXIT" => <<"touch", x.of>> \notin Ahead(todo'[c])
          BY <1>0, <1>2, <4>1, Asked
        <5>2. QED
          BY <1>2, <2>4, <4>1, <5>1 DEF Modes
      <4>2. QED
        BY <2>3, <3>1, <4>1
    <3>2. CASE Passed(x) /\ x.of = w /\ x.to = "IDLE"
      <4>1. CASE x.do = "set"
        BY <1>0, <2>1, <3>2, <4>1 DEF NewFlags
      <4>2. CASE x.do = "try" /\ ~valid
        <5>1. w = "audio"
          BY <1>0, <2>1, <3>2, <4>2, First, ItemKinds DEF TypeOK
        <5>2. QED
          BY <2>2, <4>2, <5>1
      <4>3. QED
        BY <3>2, <4>1, <4>2 DEF Passed
    <3>3. QED
      BY <1>2, <2>1, <2>4, <3>1, <3>2 DEF Moved
  <2>5. CASE d # c
    <3>1. <<"touch", w>> \in Ahead(todo[d])
      BY <1>2, <2>2, <2>5
    <3>2. todo[d] # <<>>
      BY <3>1, NoMarks
    <3>3. crossed /\ w \notin Shared /\ todo["cmd"] \in Seq(SeekItem)
      BY <1>0, <1>2, <2>1, <2>2, <2>5, <3>2 DEF Alone, SeekBeside, Callers
    <3>4. c = "cmd" /\ d = "app"
      BY <2>5, <3>1, <3>3, SeekMarks DEF Callers
    <3>5. x \in SeekItem
      BY <2>1, <3>3, <3>4
    <3>6. x.do # "set" \/ x.of # w
      BY <3>3, <3>5 DEF SeekItem
    <3>7. QED
      BY <2>3, <3>1, <3>6
  <2>6. QED
    BY <2>4, <2>5
<1>3. CASE Api
  <2>1. /\ \/ Good(todo'["app"])
           \/ todo'["app"] = PauseAt("call")
        /\ todo'["cmd"] = <<>>
    BY <1>0, <1>3, ApiActs
  <2>2. <<"touch", w>> \notin Ahead(todo'[d])
    BY <2>1, NoMarks, PauseIs DEF Good, Fresh, NoTouch, Callers
  <2>3. QED
    BY <2>2 DEF Touched
<1>4. CASE TakeSeek
  <2>1. /\ todo["cmd"] = <<>> /\ todo'["app"] = todo["app"] /\ UNCHANGED <<threads, flags>>
        /\ todo'["cmd"] = SeekItems
        /\ crossed' = (todo["app"] # <<>> \/ (crossed /\ ~valid))
    BY <1>0, <1>4, TakeActs
  <2>2. <<"touch", w>> \notin Ahead(todo'["cmd"])
    BY <2>1, SeekFits DEF Good, Fresh, NoTouch
  <2>3. d = "app" /\ <<"touch", w>> \in Ahead(todo'[d]) => todo["app"] # <<>>
    BY <2>1, NoMarks
  <2>4. QED
    BY <1>0, <2>1, <2>2, <2>3 DEF Touched, threads, flags, Callers
<1>5. QED
  BY <1>0, <1>1, <1>2, <1>3, <1>4, WorkerActs, NextCases DEF vars, threads, flags, history, Touched

LEMMA AnsweredStep ==
  ASSUME Inv, [Next]_vars, NEW w \in Workers
  PROVE  Answered(w)'
<1>0. TypeOK /\ Answered(w) /\ get \in [Workers -> Modes] /\ set \in [Workers -> Modes]
  BY DEF Inv, TypeOK
<1>1. ASSUME UNCHANGED <<set, get, wpc, todo>> PROVE Answered(w)'
  BY <1>0, <1>1 DEF Answered, Awaits
<1>2. ASSUME NEW v \in Workers, Worker(v) PROVE Answered(w)'
  <2>1. /\ UNCHANGED <<set, todo>> /\ (v # w => get'[w] = get[w] /\ wpc'[w] = wpc[w])
        /\ \/ /\ wpc[v] = "top" /\ get'[v] = set[v]
              /\ set[v] = "IDLE" => wpc'[v] = "parked"
              /\ set[v] = "RUNNING" => wpc'[v] = "turn"
              /\ set[v] = "EXIT" => wpc'[v] = "gone"
           \/ wpc[v] = "parked" /\ get' = get /\ wpc'[v] \in {"parked", "top"}
           \/ wpc[v] = "turn" /\ get' = get
           \/ wpc[v] = "work" /\ get' = get
    BY <1>0, <1>2, WorkerActs
  <2>2. CASE v # w
    BY <1>0, <2>1, <2>2 DEF Answered, Awaits
  <2>3. CASE v = w
    BY <1>0, <2>1, <2>3 DEF Answered, Awaits, Modes
  <2>4. QED
    BY <2>2, <2>3
<1>3. ASSUME NEW c \in Callers, Caller(c) PROVE Answered(w)'
  <2> DEFINE x == Head(todo[c])
             r == Tail(todo[c])
  <2>1. /\ todo[c] # <<>> /\ NewList(c) /\ NewFlags(c) /\ x \in Item /\ r \in Seq(Item)
    BY <1>0, <1>3, Acts, First DEF TypeOK
  <2>2. get' = get /\ wpc' = wpc /\ \A d \in Callers : d # c => todo'[d] = todo[d]
    BY <2>1 DEF NewList, NewFlags
  <2>3. ASSUME get'[w] = set'[w] \/ \E d \in Callers : Awaits(d, w)' PROVE Answered(w)'
    BY <1>0, <2>2, <2>3 DEF Answered
  <2>4. ASSUME x.do # "wait" \/ x.of # w, set'[w] = set[w] PROVE Answered(w)'
    <3>1. ~Awaits(c, w)
      BY <2>4 DEF Awaits, Wait
    <3>2. \A d \in Callers : Awaits(d, w) => Awaits(d, w)'
      BY <2>2, <3>1 DEF Awaits
    <3>3. QED
      BY <1>0, <2>2, <2>3, <2>4, <3>2 DEF Answered
  <2>5. CASE x.do = "set" /\ x.of = w
    <3>1. set'[w] = x.to
      BY <1>0, <2>1, <2>5 DEF NewFlags
    <3>2. CASE get[w] = x.to
      BY <2>2, <2>3, <3>1, <3>2
    <3>3. CASE todo'[c] = Puts(Wait(w), r)
      <4>1. Wait(w) \in Item
        BY DEF Wait, Item
      <4>2. Awaits(c, w)'
        BY <2>1, <3>3, <4>1, Cons DEF Awaits
      <4>3. QED
        BY <2>3, <4>2
    <3>4. QED
      BY <2>1, <2>5, <3>2, <3>3 DEF NewList
  <2>6. CASE x.do = "wait" /\ x.of = w
    <3>1. set' = set
      BY <2>1, <2>6 DEF NewFlags
    <3>2. CASE get[w] = set[w]
      BY <2>2, <2>3, <3>1, <3>2
    <3>3. CASE todo'[c] = todo[c]
      <4>1. \A d \in Callers : Awaits(d, w) => Awaits(d, w)'
        BY <2>2, <3>3 DEF Awaits
      <4>2. QED
        BY <1>0, <2>2, <2>3, <3>1, <4>1 DEF Answered
    <3>4. QED
      BY <2>1, <2>6, <3>2, <3>3 DEF NewList
  <2>7. CASE x.of # w \/ x.do \notin {"set", "wait"}
    <3>1. set'[w] = set[w]
      BY <1>0, <2>1, <2>7 DEF NewFlags
    <3>2. QED
      BY <2>4, <2>7, <3>1
  <2>8. QED
    BY <2>5, <2>6, <2>7
<1>4. CASE Api
  <2>1. todo["app"] = <<>> /\ todo["cmd"] = <<>> /\ UNCHANGED <<threads, flags>>
    BY <1>0, <1>4, ApiActs
  <2>2. QED
    BY <1>0, <2>1 DEF Answered, Awaits, Callers, threads
<1>5. CASE TakeSeek
  <2>1. todo["cmd"] = <<>> /\ todo'["app"] = todo["app"] /\ UNCHANGED <<threads, flags>>
    BY <1>0, <1>5, TakeActs
  <2>2. QED
    BY <1>0, <2>1 DEF Answered, Awaits, Callers, threads
<1>6. QED
  BY <1>1, <1>2, <1>3, <1>4, <1>5, NextCases DEF vars, threads

LEMMA LookedStep ==
  ASSUME Inv, [Next]_vars, NEW c \in Callers, NEW l \in Levels
  PROVE  Looked(c, l)'
<1>0. /\ TypeOK /\ Looked(c, l) /\ Alone /\ \A d \in Callers : ListOf(d)
      /\ was \in [Callers -> [Levels -> BOOLEAN]]
  BY DEF Inv, TypeOK
<1>1. ASSUME UNCHANGED <<todo, was, paused, crossed>> PROVE Looked(c, l)'
  BY <1>0, <1>1 DEF Looked
<1>2. ASSUME NEW d \in Callers, Caller(d), ~crossed', <<"hold", l>> \in Ahead(todo'[c])
      PROVE  was'[c][l] = paused'
  <2> DEFINE x == Head(todo[c])
             b == Ahead(todo'[c])
  <2>1. /\ todo[d] # <<>> /\ NewList(d) /\ NewFlags(d)
    BY <1>0, <1>2, Acts
  <2>2. crossed' = crossed /\ (d # c => todo'[c] = todo[c])
    BY <2>1 DEF NewList, NewFlags
  <2>3. d = c
    <3>1. d # c => todo[c] # <<>>
      BY <1>2, <2>2, NoMarks
    <3>2. QED
      BY <1>0, <1>2, <2>1, <2>2, <3>1 DEF Alone, Callers
  <2>4. Moved(x, Ahead(todo[c]), b)
    BY <1>0, <1>2, <2>3, Moves
  <2>5. CASE x.do = "look" /\ x.of = l
    BY <1>0, <2>1, <2>3, <2>5 DEF NewFlags
  <2>6. CASE x.do # "look" \/ x.of # l
    <3>1. was[c][l] = paused
      BY <1>0, <1>2, <2>2, <2>4, <2>6 DEF Moved, Looked
    <3>2. ASSUME x.do \in {"hold", "unpause", "resume"} PROVE FALSE
      <4>1. \/ Fits(x, b)
            \/ Pausing(todo[c])
        BY <1>0, <1>2, <2>3, <3>2, Proceeds
      <4>2. NoHold(b) \/ Pausing(todo[c])
        BY <3>2, <4>1 DEF Fits
      <4>3. ASSUME Pausing(todo[c]) PROVE b = {}
        <5>1. x.do = "hold" /\ Tail(todo[c]) = <<>>
          BY <3>2, <4>3, PausingHead
        <5>2. todo'[c] = <<>>
          BY <2>1, <2>3, <5>1 DEF NewList
        <5>3. QED
          BY <5>2, NoMarks
      <4>4. QED
        BY <1>2, <4>2, <4>3 DEF NoHold
    <3>3. paused' = paused
      BY <2>1, <2>3, <3>2 DEF NewFlags
    <3>4. was'[c][l] = was[c][l]
      BY <1>0, <2>1, <2>3, <2>6, <3>2 DEF NewFlags
    <3>5. QED
      BY <3>1, <3>3, <3>4
  <2>7. QED
    BY <2>5, <2>6
<1>3. CASE Api
  <2>1. (Good(todo'["app"]) \/ todo'["app"] = PauseAt("call")) /\ todo'["cmd"] = <<>>
    BY <1>0, <1>3, ApiActs
  <2>2. <<"hold", l>> \notin Ahead(todo'[c])
    BY <2>1, NoMarks, PauseIs DEF Good, Fresh, NoHold, Callers
  <2>3. QED
    BY <2>2 DEF Looked
<1>4. CASE TakeSeek
  <2>1. /\ todo'["app"] = todo["app"] /\ UNCHANGED flags /\ todo'["cmd"] = SeekItems
        /\ crossed' = (todo["app"] # <<>> \/ (crossed /\ ~valid))
    BY <1>0, <1>4, TakeActs
  <2>2. <<"hold", l>> \notin Ahead(todo'["cmd"])
    BY <2>1, SeekFits DEF Good, Fresh, NoHold
  <2>3. <<"hold", l>> \in Ahead(todo'["app"]) => crossed'
    BY <2>1, NoMarks
  <2>4. QED
    BY <2>2, <2>3 DEF Looked, Callers
<1>5. QED
  BY <1>0, <1>1, <1>2, <1>3, <1>4, WorkerActs, NextCases DEF vars, threads, flags, history, Looked

LEMMA SinkHeldStep ==
  ASSUME Inv, [Next]_vars, NEW c \in Callers
  PROVE  SinkHeld(c)'
<1>0. /\ TypeOK /\ SinkHeld(c) /\ Alone /\ Dropped /\ Answered("audio") /\ Touched(c, "audio")
      /\ \A d \in Callers : ListOf(d) /\ \A l \in Levels : Looked(d, l)
  BY DEF Inv, Workers
<1>00. /\ was \in [Callers -> [Levels -> BOOLEAN]] /\ paused \in BOOLEAN /\ valid \in BOOLEAN
       /\ "seek" \in Levels /\ "call" \in Levels /\ "audio" \in Workers
  BY <1>0 DEF TypeOK, Levels, Workers
<1>1. ASSUME UNCHANGED <<wpc, todo, was, paused, crossed>> PROVE SinkHeld(c)'
  BY <1>0, <1>1 DEF SinkHeld
<1>2. ASSUME NEW v \in Workers, Worker(v) PROVE SinkHeld(c)'
  <2>1. UNCHANGED <<todo, was, paused, crossed>>
    BY <1>0, <1>2, WorkerActs
  <2>2. paused /\ wpc["audio"] # "work" => wpc'["audio"] # "work"
    <3>1. v # "audio" => wpc'["audio"] = wpc["audio"]
      BY <1>0, <1>00, <1>2, WorkerActs
    <3>2. v = "audio" => \/ wpc'["audio"] \in {"parked", "turn", "gone", "top"}
                         \/ wpc'["audio"] = (IF HasWork("audio") THEN "work" ELSE "top")
      BY <1>0, <1>00, <1>2, WorkerActs DEF TypeOK, Modes
    <3>3. paused => ~HasWork("audio")
      BY DEF HasWork
    <3>4. QED
      BY <3>1, <3>2, <3>3
  <2>3. QED
    BY <1>0, <2>1, <2>2 DEF SinkHeld
<1>3. ASSUME NEW d \in Callers, Caller(d), ~crossed', Sink \in Ahead(todo'[c])
      PROVE  /\ paused' /\ (<<"open", "seek">> \in Ahead(todo'[c]) => was'[c]["seek"])
             /\ Later \notin Ahead(todo'[c]) => wpc'["audio"] # "work"
  <2> DEFINE x == Head(todo[c])
             a == Ahead(todo[c])
             b == Ahead(todo'[c])
  <2>1. todo[d] # <<>> /\ NewList(d) /\ NewFlags(d)
    BY <1>0, <1>3, Acts
  <2>2. crossed' = crossed /\ (d # c => todo'[c] = todo[c])
    BY <2>1 DEF NewList, NewFlags
  <2>3. d = c
    <3>1. d # c => todo[c] # <<>>
      BY <1>3, <2>2, NoMarks
    <3>2. QED
      BY <1>0, <1>3, <2>1, <2>2, <3>1 DEF Alone, Callers
  <2>4. /\ Moved(x, a, b) /\ x \in Item /\ wpc' = wpc
        /\ a = (Adds(x) \cap Marks) \cup (Ahead(Tail(todo[c])) \ Kills(x))
    BY <1>0, <1>3, <2>1, <2>3, Moves, First DEF TypeOK, NewFlags
  <2>5. ASSUME x.do \in {"hold", "unpause", "resume", "touch"} PROVE Fits(x, b)
    <3>1. Fits(x, b) \/ Pausing(todo[c])
      BY <1>0, <1>3, <2>3, <2>5, Proceeds
    <3>2. ASSUME Pausing(todo[c]) PROVE b = {}
      <4>1. x.do = "hold" /\ Tail(todo[c]) = <<>>
        BY <2>5, <3>2, PausingHead
      <4>2. todo'[c] = <<>>
        BY <2>1, <2>3, <4>1 DEF NewList
      <4>3. QED
        BY <4>2, NoMarks
    <3>3. QED
      BY <1>3, <3>1, <3>2
  <2>6. CASE x.do = "hold" /\ x.of = "call"
    <3>1. Later \in b /\ <<"open", "seek">> \notin b
      BY <1>3, <2>5, <2>6 DEF Fits
    <3>2. <<"hold", "call">> \in a
      <4>1. <<"hold", "call">> \in Adds(x)
        BY <2>6 DEF Adds
      <4>2. QED
        BY <1>00, <2>4, <4>1, AreMarks
    <3>3. was[c]["call"] = paused
      BY <1>0, <1>00, <1>3, <2>2, <3>2 DEF Looked
    <3>4. paused'
      BY <1>00, <2>1, <2>3, <2>6, <3>3 DEF NewFlags
    <3>5. QED
      BY <3>1, <3>4
  <2>7. CASE x.do # "hold" \/ x.of # "call"
    <3>1. Sink \in a
      BY <1>3, <2>4, <2>7 DEF Moved
    <3>2. /\ paused /\ (<<"open", "seek">> \in a => was[c]["seek"])
          /\ Later \notin a => wpc["audio"] # "work"
      BY <1>0, <1>3, <2>2, <3>1 DEF SinkHeld
    <3>3. ASSUME x.do = "unpause" PROVE x.of = "seek" /\ was[c]["seek"] /\ <<"open", "seek">> \notin b
      <4>1. <<"open", x.of>> \notin b /\ x.of # "call" /\ x.of \in Levels
        BY <1>3, <2>4, <2>5, <3>3, ItemKinds DEF Fits
      <4>2. <<"open", x.of>> \in Adds(x)
        BY <3>3 DEF Adds
      <4>3. <<"open", "seek">> \in a
        BY <1>00, <2>4, <4>1, <4>2, AreMarks DEF Levels
      <4>4. QED
        BY <3>2, <4>1, <4>3 DEF Levels
    <3>4. x.do # "resume"
      BY <1>3, <2>5 DEF Fits
    <3>5. paused'
      BY <1>00, <2>1, <2>3, <3>2, <3>3, <3>4 DEF NewFlags
    <3>6. ASSUME <<"open", "seek">> \in b PROVE was'[c]["seek"]
      <4>1. CASE x.do = "look" /\ x.of = "seek"
        BY <1>00, <2>1, <2>3, <3>2, <4>1 DEF NewFlags
      <4>2. CASE x.do # "look" \/ x.of # "seek"
        <5>1. was[c]["seek"] /\ x.do # "unpause"
          BY <1>00, <2>4, <3>2, <3>3, <3>6, <4>2 DEF Moved
        <5>2. was' = was \/ (was' = [was EXCEPT ![c][x.of] = paused] /\ x.of # "seek")
          BY <2>1, <2>3, <4>2, <5>1 DEF NewFlags
        <5>3. was'[c]["seek"] = was[c]["seek"]
          BY <1>00, <5>2
        <5>4. QED
          BY <5>1, <5>3
      <4>3. QED
        BY <4>1, <4>2
    <3>7. ASSUME Later \notin b PROVE wpc["audio"] # "work"
      <4>1. CASE Later \notin a
        BY <3>2, <4>1
      <4>2. CASE Later \in a
        <5>1. x.do = "touch" /\ "engine" \in x.on
          BY <2>4, <3>7, <4>2 DEF Moved
        <5>2. "audio" \in x.on
          BY <1>3, <2>5, <5>1 DEF Fits
        <5>3. <<"touch", "audio">> \in Adds(x)
          BY <5>1, <5>2 DEF Adds
        <5>4. <<"touch", "audio">> \in a
          BY <1>00, <2>4, <5>3, AreMarks
        <5>5. set["audio"] = "IDLE" \/ ~valid
          BY <1>0, <1>3, <2>2, <5>4 DEF Touched
        <5>6. ~\E e \in Callers : Awaits(e, "audio")
          <6>1. ~Awaits(c, "audio")
            BY <5>1 DEF Awaits, Wait
          <6>2. \A e \in Callers : e # c => todo[e] = <<>>
            BY <1>0, <1>3, <2>1, <2>2, <2>3 DEF Alone, Callers
          <6>3. QED
            BY <6>1, <6>2 DEF Awaits
        <5>7. QED
          BY <1>0, <1>3, <2>2, <5>5, <5>6 DEF Answered, Dropped
      <4>3. QED
        BY <4>1, <4>2
    <3>8. QED
      BY <2>4, <3>5, <3>6, <3>7
  <2>8. QED
    BY <2>6, <2>7
<1>4. CASE Api
  <2>1. (Good(todo'["app"]) \/ todo'["app"] = PauseAt("call")) /\ todo'["cmd"] = <<>>
    BY <1>0, <1>4, ApiActs
  <2>2. Sink \notin Ahead(todo'[c])
    BY <2>1, NoMarks, PauseIs DEF Good, Fresh, Callers
  <2>3. QED
    BY <2>2 DEF SinkHeld
<1>5. CASE TakeSeek
  <2>1. /\ todo'["app"] = todo["app"] /\ todo'["cmd"] = SeekItems
        /\ crossed' = (todo["app"] # <<>> \/ (crossed /\ ~valid))
    BY <1>0, <1>5, TakeActs
  <2>2. Sink \notin Ahead(todo'["cmd"])
    BY <2>1, SeekFits DEF Good, Fresh
  <2>3. Sink \in Ahead(todo'["app"]) => crossed'
    BY <2>1, NoMarks
  <2>4. QED
    BY <2>2, <2>3 DEF SinkHeld, Callers
<1>6. QED
  BY <1>0, <1>1, <1>2, <1>3, <1>4, <1>5, NextCases DEF vars, threads, flags, history, SinkHeld

LEMMA DroppedStep ==
  ASSUME Inv, [Next]_vars
  PROVE  Dropped'
<1>0. TypeOK /\ Dropped /\ "audio" \in Workers /\ \A d \in Callers : ListOf(d) /\ SinkHeld(d)
  BY DEF Inv, Workers
<1>1. ASSUME UNCHANGED <<wpc, valid, crossed>> PROVE Dropped'
  BY <1>0, <1>1 DEF Dropped
<1>2. ASSUME NEW v \in Workers, Worker(v) PROVE Dropped'
  <2>1. UNCHANGED <<valid, crossed>> /\ (v # "audio" => wpc'["audio"] = wpc["audio"])
    BY <1>0, <1>2, WorkerActs
  <2>2. v = "audio" => \/ wpc'["audio"] \in {"parked", "turn", "gone", "top"}
                       \/ wpc'["audio"] = (IF HasWork("audio") THEN "work" ELSE "top")
    BY <1>0, <1>2, WorkerActs DEF TypeOK, Modes
  <2>3. ~valid => ~HasWork("audio")
    BY DEF HasWork
  <2>4. QED
    BY <1>0, <2>1, <2>2, <2>3 DEF Dropped
<1>3. ASSUME NEW d \in Callers, Caller(d) PROVE Dropped'
  <2> DEFINE x == Head(todo[d])
             a == Ahead(todo[d])
             b == Ahead(todo'[d])
  <2>1. todo[d] # <<>> /\ NewFlags(d) /\ Moved(x, a, b)
    BY <1>0, <1>3, Acts, Moves
  <2>2. wpc' = wpc /\ crossed' = crossed
    BY <2>1 DEF NewFlags
  <2>3. CASE x.do = "drop"
    <3>1. Fits(x, b) \/ Pausing(todo[d])
      BY <1>0, <1>3, <2>3, Proceeds
    <3>2. ASSUME Pausing(todo[d]) PROVE FALSE
      BY <2>3, <3>2, PausingIs DEF Pausing, At
    <3>3. Later \notin b
      BY <2>3, <3>1, <3>2 DEF Fits
    <3>4. Later \notin a
      BY <2>1, <2>3, <3>3 DEF Moved
    <3>5. Sink \in a
      <4>1. Sink \in Adds(x)
        BY <2>3 DEF Adds
      <4>2. QED
        BY <1>0, <2>1, <4>1, First, AreMarks DEF TypeOK
    <3>6. QED
      BY <1>0, <2>2, <3>4, <3>5 DEF SinkHeld, Dropped
  <2>4. CASE x.do # "drop"
    <3>1. valid' = valid
      BY <2>1, <2>4 DEF NewFlags
    <3>2. QED
      BY <1>1, <2>2, <3>1
  <2>5. QED
    BY <2>3, <2>4
<1>4. CASE Api \/ TakeSeek
  <2>1. UNCHANGED <<threads, flags>> /\ (~crossed' /\ ~valid => ~crossed)
    BY <1>0, <1>4, ApiActs, TakeActs
  <2>2. QED
    BY <1>0, <2>1 DEF Dropped, threads, flags
<1>5. QED
  BY <1>1, <1>2, <1>3, <1>4, NextCases DEF vars, threads, flags, history

LEMMA EndingStep ==
  ASSUME Inv, [Next]_vars
  PROVE  Ending'
<1>0. /\ TypeOK /\ Ending /\ \A c \in Callers : ListOf(c)
      /\ set \in [Workers -> Modes] /\ "app" \in Callers /\ "cmd" \in Callers
  BY DEF Inv, TypeOK, Callers
<1>1. ASSUME UNCHANGED <<set, get, todo, pending>> PROVE Ending'
  BY <1>0, <1>1 DEF Ending, Open
<1>2. ASSUME NEW v \in Workers, Worker(v) PROVE Ending'
  <2>1. /\ UNCHANGED <<set, todo, pending>>
        /\ \A w \in Workers : get'[w] = get[w] \/ get'[w] = set[w]
    BY <1>0, <1>2, WorkerActs
  <2>2. QED
    BY <1>0, <2>1 DEF Ending, Open
<1>3. ASSUME NEW c \in Callers, Caller(c) PROVE Ending'
  <2> DEFINE x == Head(todo[c])
             a == Ahead(todo[c])
             b == Ahead(todo'[c])
  <2>1. /\ todo[c] # <<>> /\ NewList(c) /\ NewFlags(c) /\ Moved(x, a, b)
    BY <1>0, <1>3, Acts, Moves
  <2>2. get' = get /\ pending' = pending /\ \A d \in Callers : d # c => todo'[d] = todo[d]
    BY <2>1 DEF NewList, NewFlags
  <2>3. x.do = "set" => /\ x.of \in Workers /\ <<"ask", x.of>> \in a
                        /\ x.to = "EXIT" => <<"ask", x.of>> \notin b
    BY <1>0, <1>3, Asked
  <2>4. \A w \in Workers : \/ set'[w] = set[w]
                           \/ x.do = "set" /\ w = x.of /\ set'[w] = x.to
    BY <1>0, <2>1 DEF NewFlags
  <2>5. (x.do = "set" /\ x.to = "EXIT") => Leave \in a
    <3>1. ASSUME x.do = "set", x.to = "EXIT" PROVE Leave \in Adds(x)
      BY <3>1 DEF Adds
    <3>2. QED
      BY <1>0, <2>1, <3>1, First, AreMarks DEF TypeOK
  <2>6. CASE c = "cmd"
    <3>1. Open /\ Leave \notin a /\ Leave \notin Ahead(todo["app"]) /\ todo'["app"] = todo["app"]
      BY <1>0, <2>1, <2>2, <2>6 DEF Ending
    <3>2. \A w \in Workers : set'[w] # "EXIT" /\ get'[w] # "EXIT"
      BY <1>0, <2>2, <2>4, <2>5, <3>1 DEF Ending, Open
    <3>3. Leave \notin b
      BY <2>1, <3>1 DEF Moved
    <3>4. QED
      BY <2>6, <3>1, <3>2, <3>3 DEF Ending, Open
  <2>7. CASE c = "app"
    <3>1. todo'["cmd"] = todo["cmd"]
      BY <1>0, <2>2, <2>7
    <3>2. (~Open' \/ Leave \in b) => (~Open \/ Leave \in a)
      BY <2>1, <2>4, <2>5 DEF Open, Moved
    <3>3. ASSUME NEW w \in Workers PROVE /\ set'[w] = "EXIT" => <<"ask", w>> \notin b
                                         /\ get'[w] = "EXIT" => set'[w] = "EXIT"
      BY <1>0, <2>1, <2>2, <2>3, <2>4, <2>7 DEF Ending, Moved
    <3>4. QED
      BY <1>0, <2>2, <2>7, <3>1, <3>2, <3>3 DEF Ending
  <2>8. QED
    BY <2>6, <2>7 DEF Callers
<1>4. CASE Api
  <2>1. /\ Open /\ todo'["cmd"] = <<>> /\ UNCHANGED threads
        /\ Leave \in Ahead(todo'["app"]) => pending' = FALSE
    BY <1>0, <1>4, ApiActs, PauseIs
  <2>2. QED
    BY <1>0, <2>1, NoMarks DEF Ending, Open, threads
<1>5. CASE TakeSeek
  <2>1. /\ pending /\ todo'["app"] = todo["app"] /\ UNCHANGED threads /\ todo'["cmd"] = SeekItems
    BY <1>0, <1>5, TakeActs
  <2>2. Leave \notin Ahead(todo'["cmd"])
    BY <2>1, SeekFits
  <2>3. QED
    BY <1>0, <2>1, <2>2 DEF Ending, Open, threads
<1>6. CASE todo["app"] = <<>> /\ Open /\ UNCHANGED <<threads, todo, flags, history>>
  BY <1>0, <1>6, NoMarks DEF Ending, Open, threads
<1>7. QED
  BY <1>1, <1>2, <1>3, <1>4, <1>5, <1>6, NextCases DEF vars, threads

LEMMA WillRunStep ==
  ASSUME Inv, [Next]_vars
  PROVE  WillRun'
<1>0. /\ TypeOK /\ WillRun /\ Ending /\ \A c \in Callers : ListOf(c)
      /\ set \in [Workers -> Modes] /\ was \in [Callers -> [Levels -> BOOLEAN]]
      /\ paused \in BOOLEAN /\ "app" \in Callers /\ "cmd" \in Callers
  BY DEF Inv, TypeOK, Callers
<1>1. ASSUME UNCHANGED <<set, todo, was, paused, wanted>> PROVE WillRun'
  BY <1>0, <1>1 DEF WillRun, Open, Opens
<1>2. ASSUME NEW c \in Callers, Caller(c), wanted' = {FALSE}, paused', Open'
      PROVE  \E d \in Callers : \/ Resumed \in Ahead(todo'[d]) \/ Leave \in Ahead(todo'[d])
                                \/ Opens(d)'
  <2> DEFINE x == Head(todo[c])
             a == Ahead(todo[c])
             b == Ahead(todo'[c])
  <2>1. /\ todo[c] # <<>> /\ NewList(c) /\ NewFlags(c) /\ Moved(x, a, b)
    BY <1>0, <1>2, Acts, Moves
  <2>2. /\ wanted = {FALSE} /\ \A d \in Callers : d # c => todo'[d] = todo[d] /\ was'[d] = was[d]
    BY <1>0, <1>2, <2>1 DEF NewList, NewFlags
  <2>3. x.do = "set" => x.of \in Workers /\ <<"ask", x.of>> \in a
    BY <1>0, <1>2, Asked
  <2>4. CASE ~paused
    <3>1. x.do = "hold" /\ ~was[c][x.of] /\ was' = was
      BY <1>0, <1>2, <2>1, <2>4 DEF NewFlags
    <3>2. Fits(x, b)
      BY <1>0, <1>2, <2>2, <3>1, Proceeds
    <3>3. <<"open", x.of>> \in b \/ Leave \in b
      BY <3>1, <3>2 DEF Fits
    <3>4. x.of \in Levels
      BY <1>0, <2>1, <3>1, First, ItemKinds DEF TypeOK
    <3>5. QED
      BY <3>1, <3>3, <3>4 DEF Opens
  <2>5. CASE paused
    <3>1. Open
      <4>1. x.do = "set" => set[x.of] # "EXIT"
        BY <1>0, <2>1, <2>3 DEF Ending, Open, Callers
      <4>2. \A w \in Workers : set'[w] = set[w] \/ (x.do = "set" /\ w = x.of)
        BY <1>0, <2>1 DEF NewFlags
      <4>3. QED
        BY <1>2, <4>1, <4>2 DEF Open
    <3>2. PICK d \in Callers : Resumed \in Ahead(todo[d]) \/ Leave \in Ahead(todo[d]) \/ Opens(d)
      BY <1>0, <2>2, <2>5, <3>1 DEF WillRun
    <3>3. CASE d # c
      BY <2>2, <3>2, <3>3 DEF Opens
    <3>4. CASE d = c /\ Resumed \in a
      BY <1>2, <2>1, <3>4 DEF Moved, NewFlags
    <3>5. CASE d = c /\ Leave \in a
      <4>1. ~(x.do = "set" /\ x.to = "EXIT")
        BY <1>0, <1>2, <2>1, <2>3 DEF NewFlags, Open
      <4>2. QED
        BY <2>1, <3>5, <4>1 DEF Moved
    <3>6. CASE d = c /\ Opens(c)
      <4>1. PICK l \in Levels : <<"open", l>> \in a /\ ~was[c][l]
        BY <3>6 DEF Opens
      <4>2. ~(x.do = "unpause" /\ x.of = l)
        BY <1>2, <2>1, <4>1 DEF NewFlags
      <4>3. ~(x.do = "look" /\ x.of = l)
        <5>1. ASSUME x.do = "look", x.of = l PROVE Adds(x) = {} /\ <<"open", l>> \in Kills(x)
          BY <5>1 DEF Adds, Kills
        <5>2. QED
          BY <1>0, <2>1, <4>1, <5>1, First DEF TypeOK
      <4>4. <<"open", l>> \in b
        BY <2>1, <4>1, <4>2 DEF Moved
      <4>5. \/ was' = was
            \/ x.of # l /\ \E v \in BOOLEAN : was' = [was EXCEPT ![c][x.of] = v]
        BY <1>0, <2>1, <4>2, <4>3 DEF NewFlags
      <4>6. was'[c][l] = was[c][l]
        BY <1>0, <4>5
      <4>7. QED
        BY <4>1, <4>4, <4>6 DEF Opens
    <3>7. QED
      BY <3>2, <3>3, <3>4, <3>5, <3>6
  <2>6. QED
    BY <1>0, <2>4, <2>5
<1>3. CASE Api
  <2>1. /\ todo["app"] = <<>> /\ todo["cmd"] = <<>> /\ Open
        /\ UNCHANGED <<threads, flags>>
        /\ \/ wanted' = wanted
           \/ Resumed \in Ahead(todo'["app"])
           \/ TRUE \in wanted'
    BY <1>0, <1>3, ApiActs
  <2>2. \A c \in Callers : Ahead(todo[c]) = {}
    BY <2>1, NoMarks DEF Callers
  <2>3. wanted = {FALSE} => ~paused
    BY <1>0, <2>1, <2>2 DEF WillRun, Opens
  <2>4. QED
    BY <1>0, <2>1, <2>3 DEF WillRun, flags
<1>4. CASE TakeSeek
  <2>1. /\ todo["cmd"] = <<>> /\ todo'["app"] = todo["app"] /\ UNCHANGED <<threads, flags, wanted>>
    BY <1>0, <1>4, TakeActs
  <2>2. Ahead(todo["cmd"]) = {}
    BY <2>1, NoMarks
  <2>3. QED
    BY <1>0, <2>1, <2>2 DEF WillRun, Opens, Open, threads, flags, Callers
<1>5. QED
  BY <1>0, <1>1, <1>2, <1>3, <1>4, WorkerActs, NextCases DEF vars, threads, flags, history, WillRun

LEMMA StaysPausedStep ==
  ASSUME Inv, [Next]_vars
  PROVE  StaysPaused'
<1>0. /\ TypeOK /\ StaysPaused /\ \A c \in Callers : ListOf(c)
      /\ was \in [Callers -> [Levels -> BOOLEAN]] /\ wanted \in SUBSET BOOLEAN
      /\ paused \in BOOLEAN /\ pending \in BOOLEAN /\ "app" \in Callers /\ "cmd" \in Callers
      /\ "call" \in Levels
  BY DEF Inv, TypeOK, Callers, Levels
<1>1. ASSUME UNCHANGED <<todo, was, paused, wanted>>, pending' = pending \/ todo["app"] = <<>>
      PROVE  StaysPaused'
  <2>1. PauseAlone => todo["app"] # <<>>
    BY PausingIs DEF PauseAlone
  <2>2. QED
    BY <1>0, <1>1, <2>1 DEF StaysPaused, PauseAlone, Opens
<1>2. ASSUME NEW c \in Callers, Caller(c) PROVE StaysPaused'
  <2> DEFINE x == Head(todo[c])
             a == Ahead(todo[c])
             b == Ahead(todo'[c])
  <2>1. /\ todo[c] # <<>> /\ NewList(c) /\ NewFlags(c) /\ Moved(x, a, b) /\ x \in Item
        /\ a = (Adds(x) \cap Marks) \cup (Ahead(Tail(todo[c])) \ Kills(x))
    BY <1>0, <1>2, Acts, Moves, First DEF TypeOK
  <2>2. /\ wanted' = wanted /\ pending' = pending
        /\ \A d \in Callers : d # c => todo'[d] = todo[d] /\ was'[d] = was[d]
    BY <1>0, <2>1 DEF NewList, NewFlags
  <2>3. CASE wanted # {TRUE}
    BY <1>0, <2>2, <2>3 DEF StaysPaused
  <2>4. CASE PauseAlone
    <3>1. c = "app" /\ todo["cmd"] = <<>> /\ todo'["cmd"] = <<>>
      BY <2>1, <2>2, <2>4 DEF PauseAlone, Callers
    <3>2. CASE todo["app"] = PauseAt("call")
      <4>1. x = At("call", "look") /\ Tail(todo[c]) = <<At("call", "hold")>>
        BY <3>1, <3>2, PausingIs
      <4>2. x.do = "look" /\ x.of = "call"
        BY <4>1 DEF At
      <4>3. todo'["app"] = <<At("call", "hold")>> /\ was'["app"]["call"] = paused'
        <5>1. todo'["app"] = <<At("call", "hold")>>
          BY <2>1, <3>1, <4>1, <4>2 DEF NewList
        <5>2. was' = [was EXCEPT !["app"]["call"] = paused] /\ paused' = paused
          BY <2>1, <3>1, <4>2 DEF NewFlags
        <5>3. was'["app"]["call"] = paused'
          BY <1>0, <5>2
        <5>4. QED
          BY <5>1, <5>3
      <4>4. QED
        BY <1>0, <2>2, <2>4, <3>1, <4>3 DEF StaysPaused, PauseAlone
    <3>3. CASE todo["app"] = <<At("call", "hold")>> /\ was["app"]["call"] = paused
      <4>1. x = At("call", "hold") /\ Tail(todo[c]) = <<>>
        BY <3>1, <3>3, PausingIs
      <4>2. x.do = "hold" /\ x.of = "call"
        BY <4>1 DEF At
      <4>3. todo'["app"] = <<>> /\ paused'
        BY <1>0, <2>1, <3>1, <3>3, <4>1, <4>2 DEF NewList, NewFlags
      <4>4. \A d \in Callers : Ahead(todo'[d]) = {}
        BY <3>1, <4>3, NoMarks DEF Callers
      <4>5. QED
        BY <1>0, <2>2, <4>3, <4>4 DEF StaysPaused, Opens
    <3>4. QED
      BY <2>4, <3>2, <3>3 DEF PauseAlone
  <2>5. CASE paused /\ \A d \in Callers : Resumed \notin Ahead(todo[d]) /\ ~Opens(d)
    <3>1. x.do # "resume"
      <4>1. x.do = "resume" => Resumed \in Adds(x)
        BY DEF Adds
      <4>2. QED
        BY <2>1, <2>5, <4>1, AreMarks
    <3>2. x.do = "unpause" => x.of \in Levels /\ was[c][x.of] /\ <<"open", x.of>> \notin b
      <4>1. ASSUME x.do = "unpause" PROVE <<"open", x.of>> \in Adds(x)
        BY <4>1 DEF Adds
      <4>2. x.do = "unpause" => x.of \in Levels
        BY <2>1, ItemKinds
      <4>3. x.do = "unpause" => <<"open", x.of>> \in a
        BY <2>1, <4>1, <4>2, AreMarks
      <4>4. x.do = "unpause" => Fits(x, b)
        BY <1>0, <1>2, PausingHead, Proceeds
      <4>5. QED
        BY <2>5, <4>2, <4>3, <4>4 DEF Opens, Fits
    <3>3. paused'
      BY <1>0, <2>1, <2>5, <3>1, <3>2 DEF NewFlags
    <3>4. Resumed \notin b
      BY <2>1, <2>5 DEF Moved
    <3>5. ASSUME NEW l \in Levels, <<"open", l>> \in b PROVE was'[c][l]
      <4>1. CASE x.do = "look" /\ x.of = l
        BY <1>0, <2>1, <2>5, <4>1 DEF NewFlags
      <4>2. CASE ~(x.do = "look" /\ x.of = l)
        <5>1. was[c][l]
          BY <2>1, <2>5, <3>5, <4>2 DEF Moved, Opens
        <5>2. ~(x.do = "unpause" /\ x.of = l)
          BY <3>2, <3>5
        <5>3. \/ was' = was
              \/ x.of # l /\ \E v \in BOOLEAN : was' = [was EXCEPT ![c][x.of] = v]
          BY <1>0, <2>1, <4>2, <5>2 DEF NewFlags
        <5>4. QED
          BY <1>0, <5>1, <5>3
      <4>3. QED
        BY <4>1, <4>2
    <3>6. \A d \in Callers : Resumed \notin Ahead(todo'[d]) /\ ~Opens(d)'
      BY <2>2, <2>5, <3>4, <3>5 DEF Opens
    <3>7. QED
      BY <1>0, <2>2, <3>3, <3>6 DEF StaysPaused
  <2>6. QED
    BY <1>0, <2>3, <2>4, <2>5 DEF StaysPaused
<1>3. CASE Api
  <2>1. /\ todo["app"] = <<>> /\ todo["cmd"] = <<>> /\ todo'["cmd"] = <<>> /\ UNCHANGED <<threads, flags>>
        /\ \/ /\ Good(todo'["app"]) /\ Resumed \notin Ahead(todo'["app"]) /\ wanted' = wanted
           \/ wanted' = {FALSE}
           \/ /\ todo'["app"] = PauseAt("call") /\ pending' = pending
              /\ wanted' = IF pending THEN wanted \cup {TRUE} ELSE {TRUE}
    BY <1>0, <1>3, ApiActs
  <2>2. wanted' # {}
    BY <1>0, <2>1 DEF StaysPaused
  <2>3. ~PauseAlone
    BY <2>1, PausingIs DEF PauseAlone
  <2>4. ASSUME wanted' = {TRUE}, wanted = {TRUE} PROVE StaysPaused'
    <3>1. paused'
      BY <1>0, <2>1, <2>3, <2>4 DEF StaysPaused, flags
    <3>2. \A d \in Callers : Resumed \notin Ahead(todo'[d]) /\ ~Opens(d)'
      <4>1. \A l \in Levels : <<"open", l>> \notin Ahead(todo'["app"]) /\ <<"open", l>> \notin Ahead(todo'["cmd"])
        BY <2>1, <2>4, NoMarks, PauseIs DEF Good, Fresh
      <4>2. Resumed \notin Ahead(todo'["app"]) /\ Resumed \notin Ahead(todo'["cmd"])
        BY <2>1, <2>4, NoMarks, PauseIs
      <4>3. QED
        BY <4>1, <4>2 DEF Opens, Callers
    <3>3. QED
      BY <2>2, <3>1, <3>2 DEF StaysPaused
  <2>5. ASSUME wanted' = {TRUE}, wanted # {TRUE} PROVE StaysPaused'
    <3>1. todo'["app"] = PauseAt("call") /\ pending' = FALSE
      <4>1. wanted' # {FALSE} /\ wanted' # wanted
        BY <2>5
      <4>2. pending => wanted' # wanted \cup {TRUE}
        BY <1>0, <2>5 DEF StaysPaused
      <4>3. QED
        BY <1>0, <2>1, <4>1, <4>2
    <3>2. QED
      BY <2>1, <2>2, <3>1 DEF StaysPaused, PauseAlone
  <2>6. CASE wanted' # {TRUE}
    BY <2>2, <2>6 DEF StaysPaused
  <2>7. QED
    BY <2>4, <2>5, <2>6
<1>4. CASE TakeSeek
  <2>1. /\ pending /\ todo'["app"] = todo["app"] /\ UNCHANGED <<threads, flags, wanted>>
        /\ todo'["cmd"] = SeekItems
    BY <1>0, <1>4, TakeActs
  <2>2. Resumed \notin Ahead(todo'["cmd"]) /\ \A l \in Levels : <<"open", l>> \notin Ahead(todo'["cmd"])
    BY <2>1, SeekFits DEF Good, Fresh
  <2>3. QED
    BY <1>0, <2>1, <2>2 DEF StaysPaused, PauseAlone, Opens, threads, flags, Callers
<1>5. QED
  BY <1>1, <1>2, <1>3, <1>4, WorkerActs, NextCases, <1>0 DEF vars, threads, flags, history

LEMMA InitInv == Init => Inv
<1> SUFFICES ASSUME Init PROVE Inv
  OBVIOUS
<1>1. PICK opener \in Callers, stay \in BOOLEAN :
        /\ todo = [c \in Callers |-> IF c = opener THEN StartItems(stay) ELSE <<>>]
        /\ wanted = {stay}
  BY DEF Init
<1>2. /\ set = [w \in Workers |-> "IDLE"] /\ get = set /\ wpc = [w \in Workers |-> "top"]
      /\ asleep = {} /\ was = [c \in Callers |-> [l \in Levels |-> FALSE]]
      /\ pending = FALSE /\ paused = TRUE /\ stepping = FALSE /\ valid = TRUE /\ crossed = FALSE
  BY DEF Init
<1> DEFINE q == StartItems(stay)
<1>3. /\ Good(q) /\ Leave \notin Ahead(q) /\ (Resumed \in Ahead(q) <=> ~stay)
      /\ \A w \in Workers : <<"run", w>> \in Ahead(q)
  BY StartFits
<1> HIDE DEF q
<1>4. /\ todo[opener] = q /\ \A c \in Callers : todo[c] = q \/ todo[c] = <<>>
      /\ opener # "app" => todo["app"] = <<>>
      /\ opener # "cmd" => todo["cmd"] = <<>>
  BY <1>1 DEF q, Callers
<1>5. \A c \in Callers : Good(todo[c]) /\ Leave \notin Ahead(todo[c])
  BY <1>3, <1>4, Nothing, NoMarks
<1>6. TypeOK
  <2>1. todo \in [Callers -> Seq(Item)]
    <3>1. q \in Seq(Item) /\ <<>> \in Seq(Item)
      BY <1>3 DEF Good
    <3>2. todo = [c \in Callers |-> IF c = opener THEN q ELSE <<>>]
      BY <1>1 DEF q
    <3>3. QED
      BY <3>1, <3>2
  <2>2. set \in [Workers -> Modes] /\ wanted \in SUBSET BOOLEAN
    BY <1>1, <1>2 DEF Modes
  <2>3. was \in [Callers -> [Levels -> BOOLEAN]]
    BY <1>2
  <2>4. QED
    BY <1>2, <2>1, <2>2, <2>3 DEF TypeOK
<1>7. Alone
  BY <1>1, <1>4 DEF Alone, Callers
<1>8. SeekBeside
  BY <1>1, <1>2, <1>4 DEF SeekBeside, Callers
<1>9. AudioAgain /\ Dropped
  BY <1>2 DEF AudioAgain, Dropped
<1>10. WillRun
  BY <1>1, <1>3, <1>4 DEF WillRun
<1>11. StaysPaused
  <2>1. wanted = {TRUE} => stay
    BY <1>1
  <2>2. \A c \in Callers : ~Opens(c)
    BY <1>5 DEF Opens, Good, Fresh
  <2>3. stay => \A c \in Callers : Resumed \notin Ahead(todo[c])
    BY <1>3, <1>4, NoMarks
  <2>4. QED
    BY <1>1, <1>2, <2>1, <2>2, <2>3 DEF StaysPaused
<1>12. Ending
  <2>1. Open /\ \A w \in Workers : get[w] # "EXIT"
    BY <1>2 DEF Open
  <2>2. QED
    BY <1>5, <2>1 DEF Ending, Open, Callers
<1>13. ASSUME NEW c \in Callers PROVE ListOf(c) /\ SinkHeld(c) /\ \A l \in Levels : Looked(c, l)
  <2>1. ListOf(c)
    BY <1>5, WaitsBehind DEF Good, Fresh, ListOf
  <2>2. QED
    BY <1>5, <2>1 DEF Good, Fresh, NoHold, SinkHeld, Looked
<1>14. ASSUME NEW w \in Workers PROVE RunAgain(w) /\ Answered(w) /\ \A c \in Callers : Touched(c, w)
  <2>1. RunAgain(w)
    BY <1>3, <1>4 DEF RunAgain
  <2>2. Answered(w)
    BY <1>2 DEF Answered
  <2>3. \A c \in Callers : Touched(c, w)
    BY <1>2 DEF Touched
  <2>4. QED
    BY <2>1, <2>2, <2>3
<1>15. QED
  BY <1>6, <1>7, <1>8, <1>9, <1>10, <1>11, <1>12, <1>13, <1>14 DEF Inv

\* Inv holds throughout, whatever calls the application makes and whenever.
THEOREM Invariance == Spec => []Inv
<1>1. Inv /\ [Next]_vars => Inv'
  <2> SUFFICES ASSUME Inv, [Next]_vars PROVE Inv'
    OBVIOUS
  <2>1. /\ TypeOK' /\ Alone' /\ SeekBeside' /\ AudioAgain' /\ Dropped' /\ WillRun'
        /\ StaysPaused' /\ Ending'
    BY TypeStep, BesideStep, AudioAgainStep, DroppedStep, WillRunStep, StaysPausedStep, EndingStep
  <2>2. \A c \in Callers : ListOf(c)' /\ SinkHeld(c)' /\ \A l \in Levels : Looked(c, l)'
    BY ListStep, SinkHeldStep, LookedStep
  <2>3. \A w \in Workers : RunAgain(w)' /\ Answered(w)' /\ \A c \in Callers : Touched(c, w)'
    BY RunAgainStep, AnsweredStep, TouchedStep
  <2>4. QED
    BY <2>1, <2>2, <2>3 DEF Inv
<1>2. QED
  BY <1>1, InitInv, PTL DEF Spec

-----------------------------------------------------------------------------
(* The theorems. *)

\* The variables keep to their values: what a call has left to do is a list of items.
THEOREM TypeCorrect == Spec => []TypeOK
<1>1. Inv => TypeOK
  BY DEF Inv
<1>2. QED
  BY <1>1, Invariance, PTL

\* While a call works on what it stopped threads for, none of them is in its body;
\* a seek beside it can break that for parser and audio only.
THEOREM NoneAtWork == Spec => []TouchAlone
<1>1. ASSUME Inv, NEW c \in Callers, Item1(c, "touch"), NEW w \in Head(todo[c]).on,
             wpc[w] = "work"
      PROVE  crossed /\ w \in Shared
  <2>1. /\ todo[c] # <<>> /\ Head(todo[c]).do = "touch" /\ TypeOK /\ Dropped /\ Alone
        /\ SeekBeside
    BY <1>1 DEF Item1, Inv
  <2>2. w \in Workers /\ Head(todo[c]) \in Item
    BY <1>1, <2>1, First, ItemKinds DEF TypeOK
  <2>3. <<"touch", w>> \in Ahead(todo[c])
    <3>1. <<"touch", w>> \in Adds(Head(todo[c]))
      BY <1>1, <2>1 DEF Adds
    <3>2. QED
      BY <2>1, <2>2, <3>1, First, AreMarks DEF TypeOK
  <2>4. SUFFICES ASSUME ~crossed \/ w \notin Shared PROVE FALSE
    OBVIOUS
  <2>5. Touched(c, w) /\ Answered(w)
    BY <1>1, <2>2 DEF Inv
  <2>6. CASE w = "audio" /\ ~valid
    BY <1>1, <2>1, <2>4, <2>6 DEF Dropped, Shared
  <2>7. CASE set[w] = "IDLE"
    <3>1. PICK e \in Callers : Awaits(e, w)
      BY <1>1, <2>5, <2>7 DEF Answered
    <3>2. todo[e] # <<>> /\ Head(todo[e]) = Wait(w) /\ Wait(w).do = "wait" /\ Wait(w).of = w
      BY <3>1 DEF Awaits, Wait
    <3>3. e # c /\ crossed
      BY <2>1, <3>2 DEF Alone, Callers
    <3>4. w \notin Shared /\ todo["cmd"] \in Seq(SeekItem)
      BY <2>1, <2>4, <3>3 DEF SeekBeside
    <3>5. CASE e = "cmd"
      <4>1. Head(todo[e]) \in SeekItem
        BY <3>2, <3>4, <3>5
      <4>2. QED
        BY <3>2, <3>4, <4>1 DEF SeekItem
    <3>6. CASE c = "cmd"
      BY <2>2, <2>3, <3>4, <3>6, SeekMarks
    <3>7. QED
      BY <3>3, <3>5, <3>6 DEF Callers
  <2>8. QED
    BY <2>3, <2>4, <2>5, <2>6, <2>7 DEF Touched
<1>2. ASSUME Inv, NEW c \in Callers, Item1(c, "sink"), wpc["audio"] = "work"
      PROVE  crossed
  <2>1. todo[c] # <<>> /\ Head(todo[c]).do = "sink" /\ TypeOK /\ ListOf(c) /\ SinkHeld(c)
    BY <1>2 DEF Item1, Inv
  <2>2. /\ Ahead(todo[c]) = (Adds(Head(todo[c])) \cap Marks)
                              \cup (Ahead(Tail(todo[c])) \ Kills(Head(todo[c])))
        /\ Adds(Head(todo[c])) = {Sink}
    BY <2>1, First DEF TypeOK, Adds
  <2>3. Fits(Head(todo[c]), Ahead(Tail(todo[c])))
    <3>1. ~Seen(todo[c])
      BY <2>1 DEF Seen, Set
    <3>2. ~Pausing(todo[c])
      BY <2>1, PausingHead
    <3>3. QED
      BY <2>1, <3>1, <3>2, HeadFits
  <2>4. Later \notin Ahead(Tail(todo[c]))
    BY <2>1, <2>3 DEF Fits
  <2>5. Sink \in Ahead(todo[c]) /\ Later \notin Ahead(todo[c])
    BY <2>2, <2>4, AreMarks DEF Later, Sink
  <2>6. QED
    BY <1>2, <2>1, <2>5 DEF SinkHeld
<1>3. Inv => TouchAlone
  BY <1>1, <1>2 DEF TouchAlone
<1>4. QED
  BY <1>3, Invariance, PTL

\* Calls leave every worker of an open stream running, whichever way they went and
\* whatever they crossed, but for audio that one of two crossing calls dropped.
THEOREM AllRunning == Spec => []LeftRunning
<1>1. ASSUME Inv, Quiet, Open, NEW w \in Workers
      PROVE  \/ set[w] = "RUNNING" /\ get[w] = "RUNNING"
             \/ w = "audio" /\ ~valid /\ crossed
  <2>1. RunAgain(w) /\ Answered(w) /\ set[w] \in Modes /\ set[w] # "EXIT"
    BY <1>1 DEF Inv, TypeOK, Open
  <2>2. \A c \in Callers : Ahead(todo[c]) = {} /\ ~Awaits(c, w)
    BY <1>1, NoMarks DEF Quiet, Awaits
  <2>3. QED
    BY <2>1, <2>2 DEF RunAgain, Answered, Modes
<1>2. Inv => LeftRunning
  BY <1>1 DEF LeftRunning
<1>3. QED
  BY <1>2, Invariance, PTL

\* After the calls the stream is paused exactly when the application paused it, but
\* for a pause beside a pending seek.
THEOREM PausedAsWanted == Spec => []PauseKept
<1>1. ASSUME Inv, Quiet, Open PROVE paused \in wanted
  <2>1. /\ WillRun /\ StaysPaused /\ wanted \in SUBSET BOOLEAN /\ wanted # {} /\ paused \in BOOLEAN
    BY <1>1 DEF Inv, TypeOK, StaysPaused
  <2>2. \A c \in Callers : Ahead(todo[c]) = {}
    BY <1>1, NoMarks DEF Quiet
  <2>3. wanted = {FALSE} => ~paused
    BY <1>1, <2>1, <2>2 DEF WillRun, Opens
  <2>4. ~PauseAlone
    BY <1>1, PausingIs DEF PauseAlone, Quiet, Callers
  <2>5. wanted = {TRUE} => paused
    BY <2>1, <2>4 DEF StaysPaused
  <2>6. QED
    BY <2>1, <2>3, <2>5
<1>2. Inv => PauseKept
  BY <1>1 DEF PauseKept
<1>3. QED
  BY <1>2, Invariance, PTL

-----------------------------------------------------------------------------
(* Each worker and its callers implement WorkerGate. *)

\* A step of WorkerGate, or none.
Same(w)  == set'[w] = set[w] /\ get'[w] = get[w] /\ (Busy(w)' <=> Busy(w))
Stays(w) == Waiting(w)' = Waiting(w)
Asks(w)  ==
  /\ \E c \in Callers \ Waiting(w) :
       Waiting(w)' = IF get[w] = set'[w] THEN Waiting(w) ELSE Waiting(w) \cup {c}
  /\ get[w] # "EXIT" /\ set'[w] \in Modes
  /\ get'[w] = get[w] /\ (Busy(w)' <=> Busy(w))
Grants(w) == ~Busy(w) /\ get'[w] = set[w] /\ set'[w] = set[w] /\ Stays(w) /\ ~Busy(w)'
Returns(w) ==
  /\ \E c \in Waiting(w) : c \in Callers /\ Waiting(w)' = Waiting(w) \ {c}
  /\ get[w] = set[w] /\ Same(w)
Begins(w) ==
  ~Busy(w) /\ get[w] = "RUNNING" /\ Busy(w)' /\ set'[w] = set[w] /\ get'[w] = get[w] /\ Stays(w)
Stops(w)  == Busy(w) /\ ~Busy(w)' /\ set'[w] = set[w] /\ get'[w] = get[w] /\ Stays(w)
Keeps(w)  == Same(w) /\ Stays(w)
Move(w)   == Asks(w) \/ Grants(w) \/ Returns(w) \/ Begins(w) \/ Stops(w) \/ Keeps(w)

\* Only an ask makes a caller wait.
LEMMA NewWait ==
  ASSUME TypeOK, NEW c \in Callers, ListOf(c), Caller(c), todo'[c] # <<>>,
         Head(todo'[c]).do = "wait"
  PROVE  LET x == Head(todo[c])
         IN  \/ /\ x.do = "set" /\ x.of \in Workers /\ get[x.of] # x.to
                /\ Head(todo'[c]).of = x.of
             \/ x.do = "wait" /\ todo'[c] = todo[c]
<1> DEFINE x == Head(todo[c])
           r == Tail(todo[c])
<1>1. todo[c] # <<>> /\ NewList(c)
  BY Acts
<1>2. r # <<>> => Head(r).do # "wait"
  BY <1>1, RestFits
<1>3. x.do = "set" => x.of \in Workers
  BY <1>1, First, ItemKinds DEF TypeOK
<1>4. x \in Item /\ r \in Seq(Item)
  BY <1>1, First DEF TypeOK
<1>5. CASE x.do = "set"
  <2>1. get[x.of] # x.to /\ todo'[c] = Puts(Wait(x.of), r)
    BY <1>1, <1>2, <1>5 DEF NewList
  <2>2. Wait(x.of) \in Item
    BY <1>3, <1>4, <1>5 DEF Wait, Item
  <2>3. Head(todo'[c]) = Wait(x.of)
    BY <1>4, <2>1, <2>2, Cons
  <2>4. QED
    BY <1>3, <1>4, <1>5, <2>1, <2>3 DEF Wait
<1>6. CASE x.do = "try"
  <2>1. todo'[c] # r
    BY <1>2
  <2>2. todo'[c] = Puts(Set(x.of, x.to), r)
    BY <1>1, <1>6, <2>1 DEF NewList
  <2>3. Set(x.of, x.to) \in Item
    BY <1>4, <1>6, ItemKinds DEF Set, Item, Workers, Modes
  <2>4. Head(todo'[c]) = Set(x.of, x.to)
    BY <1>4, <2>2, <2>3, Cons
  <2>5. QED
    BY <2>4 DEF Set
<1>7. CASE x.do = "branch"
  <2>1. todo'[c] \in Seq(Item) /\ Waited \notin Ahead(todo'[c])
    BY <1>7, Moves
  <2>2. QED
    BY <2>1, WaitsBehind
<1>8. CASE x.do \notin {"set", "try", "branch"}
  BY <1>1, <1>2, <1>8 DEF NewList
<1>9. QED
  BY <1>5, <1>6, <1>7, <1>8

\* A list just begun does not begin with a wait.
LEMMA BeginsFresh ==
  ASSUME TypeOK, Api \/ TakeSeek, NEW c \in Callers
  PROVE  \/ todo'[c] = todo[c]
         \/ todo[c] = <<>> /\ (todo'[c] # <<>> => Head(todo'[c]).do # "wait")
<1>1. ASSUME NEW q, Good(q), q # <<>> PROVE Head(q).do # "wait"
  BY <1>1, WaitsBehind DEF Good, Fresh
<1>2. Head(PauseAt("call")).do # "wait"
  BY PausingIs DEF At
<1>3. CASE Api
  BY <1>1, <1>2, <1>3, ApiActs DEF Callers
<1>4. CASE TakeSeek
  BY <1>1, <1>4, TakeActs, SeekFits DEF Callers
<1>5. QED
  BY <1>3, <1>4

LEMMA GateMoves ==
  ASSUME Inv, [Next]_vars, NEW w \in Workers
  PROVE  Move(w)
<1>0. /\ TypeOK /\ Answered(w) /\ Ending /\ \A c \in Callers : ListOf(c)
      /\ set \in [Workers -> Modes] /\ get \in [Workers -> Modes]
  BY DEF Inv, TypeOK
<1>1. ASSUME UNCHANGED <<set, get, wpc, todo>> PROVE Move(w)
  BY <1>1 DEF Move, Keeps, Same, Stays, Busy, Waiting, Item1
<1>2. ASSUME NEW v \in Workers, Worker(v) PROVE Move(w)
  <2>1. /\ UNCHANGED <<set, todo>> /\ (v # w => get'[w] = get[w] /\ wpc'[w] = wpc[w])
        /\ wpc \in [Workers -> {"top", "parked", "turn", "work", "gone"}]
        /\ \/ /\ wpc[v] = "top" /\ get'[v] = set[v]
              /\ set[v] = "IDLE" => wpc'[v] = "parked"
              /\ set[v] = "RUNNING" => wpc'[v] = "turn"
              /\ set[v] = "EXIT" => wpc'[v] = "gone"
           \/ wpc[v] = "parked" /\ get' = get /\ wpc'[v] \in {"parked", "top"}
           \/ wpc[v] = "turn" /\ get' = get /\ wpc'[v] = (IF HasWork(v) THEN "work" ELSE "top")
           \/ wpc[v] = "work" /\ get' = get /\ wpc'[v] = "top"
    BY <1>0, <1>2, WorkerActs DEF TypeOK
  <2>2. Stays(w)
    BY <2>1 DEF Stays, Waiting, Item1
  <2>3. CASE v # w
    BY <2>1, <2>2, <2>3 DEF Move, Keeps, Same, Busy
  <2>4. CASE v = w
    <3>1. CASE wpc[w] = "top" /\ get'[w] = set[w]
      BY <1>0, <2>1, <2>2, <2>4, <3>1 DEF Move, Grants, Busy, Modes
    <3>2. CASE wpc[w] = "parked" /\ get' = get
      BY <2>1, <2>2, <2>4, <3>2 DEF Move, Keeps, Same, Busy
    <3>3. CASE wpc[w] = "turn" /\ get' = get
      BY <1>0, <2>1, <2>2, <2>4, <3>3 DEF Move, Begins, Keeps, Same, Busy, Answered
    <3>4. CASE wpc[w] = "work" /\ get' = get
      BY <2>1, <2>2, <2>4, <3>4 DEF Move, Stops, Busy
    <3>5. QED
      BY <2>1, <2>4, <3>1, <3>2, <3>3, <3>4
  <2>5. QED
    BY <2>3, <2>4
<1>3. ASSUME NEW c \in Callers, Caller(c) PROVE Move(w)
  <2> DEFINE x == Head(todo[c])
             r == Tail(todo[c])
  <2>1. /\ todo[c] # <<>> /\ NewList(c) /\ NewFlags(c)
    BY <1>0, <1>3, Acts
  <2>2. /\ get' = get /\ (Busy(w)' <=> Busy(w)) /\ \A d \in Callers : d # c => todo'[d] = todo[d]
    BY <2>1 DEF NewList, NewFlags, Busy
  <2>3. \A d \in Callers : d # c => (d \in Waiting(w)' <=> d \in Waiting(w))
    BY <2>2 DEF Waiting, Item1
  <2>4. /\ c \in Waiting(w) <=> x.do = "wait" /\ x.of = w
        /\ c \in Waiting(w)' <=>
             todo'[c] # <<>> /\ Head(todo'[c]).do = "wait" /\ Head(todo'[c]).of = w
        /\ Waiting(w) \subseteq Callers /\ Waiting(w)' \subseteq Callers
    BY <2>1 DEF Waiting, Item1
  <2>5. CASE x.do = "set" /\ x.of = w
    <3>1. set'[w] = x.to /\ x.to \in Modes /\ <<"ask", w>> \in Ahead(todo[c])
      BY <1>0, <1>3, <2>1, <2>5, Asked DEF NewFlags
    <3>2. get[w] # "EXIT"
      <4>1. c = "cmd" => Open
        BY <1>0, <2>1 DEF Ending
      <4>2. QED
        BY <1>0, <3>1, <4>1 DEF Ending, Open, Callers
    <3>3. c \notin Waiting(w)
      BY <2>4, <2>5
    <3>4. CASE get[w] = x.to
      <4>1. c \notin Waiting(w)'
        BY <1>0, <1>3, <2>4, <2>5, <3>4, NewWait
      <4>2. Waiting(w)' = Waiting(w)
        BY <2>3, <2>4, <3>3, <4>1
      <4>3. QED
        BY <2>2, <3>1, <3>2, <3>3, <3>4, <4>2 DEF Move, Asks
    <3>5. CASE get[w] # x.to
      <4>1. todo'[c] = Puts(Wait(w), r)
        BY <2>1, <2>5, <3>5 DEF NewList
      <4>2. Wait(w) \in Item /\ r \in Seq(Item)
        BY <1>0, <2>1, First DEF TypeOK, Wait, Item
      <4>3. todo'[c] # <<>> /\ Head(todo'[c]) = Wait(w)
        BY <4>1, <4>2, Cons
      <4>4. c \in Waiting(w)'
        BY <2>4, <4>3 DEF Wait
      <4>5. Waiting(w)' = Waiting(w) \cup {c}
        BY <2>3, <2>4, <4>4
      <4>6. QED
        BY <2>2, <3>1, <3>2, <3>3, <3>5, <4>5 DEF Move, Asks
    <3>6. QED
      BY <3>4, <3>5
  <2>6. CASE x.do # "set" \/ x.of # w
    <3>1. set'[w] = set[w]
      BY <1>0, <2>1, <2>6 DEF NewFlags
    <3>2. c \in Waiting(w)' => c \in Waiting(w)
      BY <1>0, <1>3, <2>4, <2>6, NewWait
    <3>3. CASE c \in Waiting(w) /\ c \notin Waiting(w)'
      <4>1. Waiting(w)' = Waiting(w) \ {c}
        BY <2>3, <2>4, <3>3
      <4>2. x.do = "wait" /\ x.of = w /\ todo'[c] # todo[c]
        BY <2>1, <2>4, <3>3
      <4>3. get[w] = set[w]
        BY <2>1, <4>2 DEF NewList
      <4>4. QED
        BY <2>2, <3>1, <3>3, <4>1, <4>3 DEF Move, Returns, Same
    <3>4. CASE c \in Waiting(w)' <=> c \in Waiting(w)
      <4>1. \A d \in Callers : d \in Waiting(w)' <=> d \in Waiting(w)
        BY <2>3, <3>4
      <4>2. Waiting(w)' = Waiting(w)
        BY <2>4, <4>1
      <4>3. QED
        BY <2>2, <3>1, <4>2 DEF Move, Keeps, Same, Stays
    <3>5. QED
      BY <3>2, <3>3, <3>4
  <2>7. QED
    BY <2>5, <2>6
<1>4. CASE Api \/ TakeSeek
  <2>1. UNCHANGED threads
    BY <1>0, <1>4, ApiActs, TakeActs
  <2>2. \A c \in Callers : c \in Waiting(w)' <=> c \in Waiting(w)
    BY <1>0, <1>4, BeginsFresh DEF Waiting, Item1
  <2>3. Stays(w)
    BY <2>2 DEF Stays, Waiting
  <2>4. QED
    BY <2>1, <2>3 DEF Move, Keeps, Same, Busy, threads
<1>5. QED
  BY <1>1, <1>2, <1>3, <1>4, NextCases DEF vars, threads

LEMMA GatesStart ==
  ASSUME Init, NEW w \in Workers
  PROVE  set[w] = "IDLE" /\ get[w] = "IDLE" /\ Waiting(w) = {} /\ Busy(w) = FALSE
<1>1. PICK opener \in Callers, stay \in BOOLEAN :
        todo = [c \in Callers |-> IF c = opener THEN StartItems(stay) ELSE <<>>]
  BY DEF Init
<1>2. StartItems(stay) # <<>> => Head(StartItems(stay)).do # "wait"
  BY StartFits, WaitsBehind DEF Good, Fresh
<1>3. \A c \in Callers : todo[c] = StartItems(stay) \/ todo[c] = <<>>
  BY <1>1
<1>4. Waiting(w) = {}
  BY <1>2, <1>3 DEF Waiting, Item1
<1>5. QED
  BY <1>4 DEF Init, Busy

\* thread_state_set and thread_state_ack keep the promise of WorkerGate for every
\* worker, whichever calls the application makes and whatever seek they cross: each
\* behaviour of the stream is, for each of the four workers, one of WorkerGate.
THEOREM GatesSafe == Spec => GatesKept
<1>1. Init => EngineGate!Init /\ ParserGate!Init /\ AudioGate!Init /\ SubGate!Init
  BY GatesStart DEF Workers, EngineGate!Init, ParserGate!Init, AudioGate!Init, SubGate!Init
<1>2. Inv /\ [Next]_vars => [EngineGate!Next]_EngineGate!vars
  <2> SUFFICES ASSUME Inv, [Next]_vars PROVE [EngineGate!Next]_EngineGate!vars
    OBVIOUS
  <2>1. Move("engine")
    BY GateMoves DEF Workers
  <2>2. CASE Asks("engine")
    <3>1. PICK c \in Callers : EngineGate!Ask(c, set'["engine"])
      BY <2>2 DEF Asks, Busy, EngineGate!Ask
    <3>2. QED
      BY <2>2, <3>1 DEF Asks, Modes, EngineGate!Next, EngineGate!Modes
  <2>3. CASE Grants("engine")
    BY <2>3 DEF Grants, Stays, Busy, EngineGate!Next, EngineGate!Grant
  <2>4. CASE Returns("engine")
    BY <2>4 DEF Returns, Same, Busy, EngineGate!Next, EngineGate!Return
  <2>5. CASE Begins("engine")
    BY <2>5 DEF Begins, Stays, Busy, EngineGate!Next, EngineGate!Begin
  <2>6. CASE Stops("engine")
    BY <2>6 DEF Stops, Stays, Busy, EngineGate!Next, EngineGate!End
  <2>7. CASE Keeps("engine")
    BY <2>7 DEF Keeps, Stays, Same, Busy, EngineGate!vars
  <2>8. QED
    BY <2>1, <2>2, <2>3, <2>4, <2>5, <2>6, <2>7 DEF Move
<1>3. Inv /\ [Next]_vars => [ParserGate!Next]_ParserGate!vars
  <2> SUFFICES ASSUME Inv, [Next]_vars PROVE [ParserGate!Next]_ParserGate!vars
    OBVIOUS
  <2>1. Move("parser")
    BY GateMoves DEF Workers
  <2>2. CASE Asks("parser")
    <3>1. PICK c \in Callers : ParserGate!Ask(c, set'["parser"])
      BY <2>2 DEF Asks, Busy, ParserGate!Ask
    <3>2. QED
      BY <2>2, <3>1 DEF Asks, Modes, ParserGate!Next, ParserGate!Modes
  <2>3. CASE Grants("parser")
    BY <2>3 DEF Grants, Stays, Busy, ParserGate!Next, ParserGate!Grant
  <2>4. CASE Returns("parser")
    BY <2>4 DEF Returns, Same, Busy, ParserGate!Next, ParserGate!Return
  <2>5. CASE Begins("parser")
    BY <2>5 DEF Begins, Stays, Busy, ParserGate!Next, ParserGate!Begin
  <2>6. CASE Stops("parser")
    BY <2>6 DEF Stops, Stays, Busy, ParserGate!Next, ParserGate!End
  <2>7. CASE Keeps("parser")
    BY <2>7 DEF Keeps, Stays, Same, Busy, ParserGate!vars
  <2>8. QED
    BY <2>1, <2>2, <2>3, <2>4, <2>5, <2>6, <2>7 DEF Move
<1>4. Inv /\ [Next]_vars => [AudioGate!Next]_AudioGate!vars
  <2> SUFFICES ASSUME Inv, [Next]_vars PROVE [AudioGate!Next]_AudioGate!vars
    OBVIOUS
  <2>1. Move("audio")
    BY GateMoves DEF Workers
  <2>2. CASE Asks("audio")
    <3>1. PICK c \in Callers : AudioGate!Ask(c, set'["audio"])
      BY <2>2 DEF Asks, Busy, AudioGate!Ask
    <3>2. QED
      BY <2>2, <3>1 DEF Asks, Modes, AudioGate!Next, AudioGate!Modes
  <2>3. CASE Grants("audio")
    BY <2>3 DEF Grants, Stays, Busy, AudioGate!Next, AudioGate!Grant
  <2>4. CASE Returns("audio")
    BY <2>4 DEF Returns, Same, Busy, AudioGate!Next, AudioGate!Return
  <2>5. CASE Begins("audio")
    BY <2>5 DEF Begins, Stays, Busy, AudioGate!Next, AudioGate!Begin
  <2>6. CASE Stops("audio")
    BY <2>6 DEF Stops, Stays, Busy, AudioGate!Next, AudioGate!End
  <2>7. CASE Keeps("audio")
    BY <2>7 DEF Keeps, Stays, Same, Busy, AudioGate!vars
  <2>8. QED
    BY <2>1, <2>2, <2>3, <2>4, <2>5, <2>6, <2>7 DEF Move
<1>5. Inv /\ [Next]_vars => [SubGate!Next]_SubGate!vars
  <2> SUFFICES ASSUME Inv, [Next]_vars PROVE [SubGate!Next]_SubGate!vars
    OBVIOUS
  <2>1. Move("sub")
    BY GateMoves DEF Workers
  <2>2. CASE Asks("sub")
    <3>1. PICK c \in Callers : SubGate!Ask(c, set'["sub"])
      BY <2>2 DEF Asks, Busy, SubGate!Ask
    <3>2. QED
      BY <2>2, <3>1 DEF Asks, Modes, SubGate!Next, SubGate!Modes
  <2>3. CASE Grants("sub")
    BY <2>3 DEF Grants, Stays, Busy, SubGate!Next, SubGate!Grant
  <2>4. CASE Returns("sub")
    BY <2>4 DEF Returns, Same, Busy, SubGate!Next, SubGate!Return
  <2>5. CASE Begins("sub")
    BY <2>5 DEF Begins, Stays, Busy, SubGate!Next, SubGate!Begin
  <2>6. CASE Stops("sub")
    BY <2>6 DEF Stops, Stays, Busy, SubGate!Next, SubGate!End
  <2>7. CASE Keeps("sub")
    BY <2>7 DEF Keeps, Stays, Same, Busy, SubGate!vars
  <2>8. QED
    BY <2>1, <2>2, <2>3, <2>4, <2>5, <2>6, <2>7 DEF Move
<1>6. QED
  BY <1>1, <1>2, <1>3, <1>4, <1>5, Invariance, PTL
     DEF Spec, GatesKept, EngineGate!Spec, ParserGate!Spec, AudioGate!Spec, SubGate!Spec

\* So every worker keeps its promise: when no thread_state_set waits any more and the
\* mode is another than RUNNING, it stands still until the next call asks for more.
THEOREM WorkersStandStill ==
  Spec => [](EngineGate!Promise /\ ParserGate!Promise /\ AudioGate!Promise /\ SubGate!Promise)
<1>1. ASSUME Inv, NEW w \in Workers, Waiting(w) = {}, set[w] # "RUNNING" PROVE ~Busy(w)
  <2>1. Answered(w)
    BY <1>1 DEF Inv
  <2>2. \A c \in Callers : ~Awaits(c, w)
    BY <1>1 DEF Awaits, Waiting, Item1, Wait
  <2>3. QED
    BY <1>1, <2>1, <2>2 DEF Answered, Busy
<1>2. Inv => EngineGate!Promise /\ ParserGate!Promise /\ AudioGate!Promise /\ SubGate!Promise
  BY <1>1 DEF Workers, EngineGate!Promise, ParserGate!Promise, AudioGate!Promise, SubGate!Promise
<1>3. QED
  BY <1>2, Invariance, PTL

-----------------------------------------------------------------------------
(* The sleepers. *)

\* A caller that sleeps has not been answered, or somebody is about to wake it.
WillWake(c, w) ==
  \/ get[w] # set[w]
  \/ \E d \in Callers : d # c /\ <<"run", w>> \in Ahead(todo[d])
  \/ w = "audio" /\ ~valid /\ crossed

\* NoLostWakeUp, and what is behind it: who else is busy is going to run the worker,
\* and a worker parks only when it has been asked to and has granted it.
WakeUps ==
  \A w \in Workers :
    /\ ~Awake(w, w) => wpc[w] = "parked" /\ set[w] = "IDLE"
    /\ \A c \in Callers : ~Awake(c, w) => Awaits(c, w) /\ WillWake(c, w)

LEMMA Apart ==
  ASSUME NEW c \in Callers, NEW w \in Workers, NEW v \in Workers
  PROVE  <<c, w>> # <<v, v>> /\ (w # v => <<w, w>> # <<v, v>>) /\ <<w, w>> # <<c, v>>
BY DEF Callers, Workers

\* What a worker's step does to the sleepers,
LEMMA WorkerSleeps ==
  ASSUME TypeOK, WakeUps, NEW v \in Workers, Worker(v), NEW w \in Workers
  PROVE  /\ <<w, w>> \in asleep' => wpc'[w] = "parked" /\ set'[w] = "IDLE"
         /\ \A c \in Callers : <<c, w>> \in asleep' =>
              <<c, w>> \in asleep /\ get'[w] = get[w]
<1>0. /\ get \in [Workers -> Modes]
      /\ <<w, w>> \in asleep => wpc[w] = "parked" /\ set[w] = "IDLE"
      /\ wpc \in [Workers -> {"top", "parked", "turn", "work", "gone"}]
  BY DEF TypeOK, WakeUps, Awake
<1>00. \A c \in Callers : <<c, w>> # <<v, v>> /\ (w # v => <<w, w>> # <<v, v>>)
  BY Apart
<1>1. set' = set
  BY DEF Worker, Ack, Unpark, Turn, EndWork
<1>2. CASE Ack(v)
  <2> DEFINE p == CASE set[v] = "IDLE" -> "parked" [] set[v] = "RUNNING" -> "turn" [] set[v] = "EXIT" -> "gone"
  <2>1. /\ get' = [get EXCEPT ![v] = set[v]] /\ wpc' = [wpc EXCEPT ![v] = p]
        /\ asleep' = (asleep \ Sleepers(v)) \cup (IF set[v] = "IDLE" THEN {<<v, v>>} ELSE {})
    BY <1>2 DEF Ack
  <2>2. set[v] = "IDLE" => p = "parked"
    OBVIOUS
  <2> HIDE DEF p
  <2>3. CASE w = v
    <3>1. \A t : <<t, v>> \in asleep' => <<t, v>> = <<v, v>> /\ set[v] = "IDLE"
      BY <2>1 DEF Sleepers
    <3>2. wpc'[v] = p
      BY <1>0, <2>1
    <3>3. QED
      BY <1>00, <1>1, <2>2, <2>3, <3>1, <3>2
  <2>4. CASE w # v
    <3>1. /\ <<w, w>> \in asleep' => <<w, w>> \in asleep
          /\ \A c \in Callers : <<c, w>> \in asleep' => <<c, w>> \in asleep
      BY <1>00, <2>1, <2>4
    <3>2. wpc'[w] = wpc[w] /\ get'[w] = get[w]
      BY <1>0, <2>1, <2>4
    <3>3. QED
      BY <1>0, <1>1, <3>1, <3>2
  <2>5. QED
    BY <2>3, <2>4
<1>3. CASE Unpark(v)
  <2>1. /\ wpc[v] = "parked" /\ <<v, v>> \notin asleep /\ get' = get
        /\ \/ set[v] = "IDLE" /\ asleep' = asleep \cup {<<v, v>>} /\ wpc' = wpc
           \/ wpc' = [wpc EXCEPT ![v] = "top"] /\ asleep' = asleep
    BY <1>3 DEF Unpark, Awake
  <2>2. QED
    BY <1>0, <1>00, <1>1, <2>1
<1>4. CASE Turn(v) \/ EndWork(v)
  <2>1. /\ wpc[v] # "parked" /\ asleep' = asleep /\ get' = get
        /\ (w # v => wpc'[w] = wpc[w])
    BY <1>0, <1>4 DEF Turn, EndWork
  <2>2. QED
    BY <1>0, <1>1, <2>1
<1>5. QED
  BY <1>2, <1>3, <1>4 DEF Worker

\* and a caller's.
LEMMA CallerSleeps ==
  ASSUME TypeOK, NEW c \in Callers, Caller(c), NEW w \in Workers
  PROVE  LET x == Head(todo[c])
             asks == x.do = "set" /\ x.of = w
         IN  /\ <<w, w>> \in asleep' => <<w, w>> \in asleep /\ (asks => x.to = "IDLE")
             /\ x.do = "wait" /\ x.of = w => <<c, w>> \notin asleep
             /\ \A d \in Callers : <<d, w>> \in asleep' =>
                  \/ <<d, w>> \in asleep /\ (asks => x.to = "IDLE")
                  \/ d = c /\ asks /\ get[w] # x.to
                  \/ d = c /\ x.do = "wait" /\ x.of = w /\ get[w] # set[w]
<1> DEFINE x == Head(todo[c])
<1>1. todo[c] # <<>> /\ x \in Item
  BY Acts, First DEF TypeOK
<1>2. CASE SetState(c)
  <2>1. /\ x.do = "set" /\ x.of \in Workers
        /\ LET sleepers == IF x.to = "IDLE" THEN asleep ELSE asleep \ Sleepers(x.of)
           IN  \/ asleep' = sleepers
               \/ get[x.of] # x.to /\ asleep' = sleepers \cup {<<c, x.of>>}
    BY <1>1, <1>2, ItemKinds DEF SetState, Item1, Ask
  <2>2. ASSUME NEW t, t # c \/ x.of # w \/ get[w] = x.to, <<t, w>> \in asleep'
        PROVE  <<t, w>> \in asleep /\ (x.of = w => x.to = "IDLE")
    BY <2>1, <2>2 DEF Sleepers
  <2>3. w # c
    BY DEF Callers, Workers
  <2>4. QED
    BY <2>1, <2>2, <2>3
<1>3. CASE AwaitState(c)
  <2>1. /\ x.do = "wait" /\ <<c, x.of>> \notin asleep
        /\ asleep' = asleep \/ (get[x.of] # set[x.of] /\ asleep' = asleep \cup {<<c, x.of>>})
    BY <1>3 DEF AwaitState, Item1, Awake
  <2>2. ASSUME NEW t, t # c \/ x.of # w \/ get[w] = set[w], <<t, w>> \in asleep'
        PROVE  <<t, w>> \in asleep
    BY <2>1, <2>2
  <2>3. w # c
    BY DEF Callers, Workers
  <2>4. QED
    BY <2>1, <2>2, <2>3
<1>4. CASE ~SetState(c) /\ ~AwaitState(c)
  <2>1. asleep' = asleep /\ x.do \notin {"set", "wait"}
    BY <1>4 DEF Caller, TrySetState, JoinWorker, Look, Hold, UnPause, Resume, Play, Drop,
                Proceed, Branch, threads, Item1
  <2>2. QED
    BY <2>1
<1>5. QED
  BY <1>2, <1>3, <1>4

LEMMA SleepStep ==
  ASSUME Inv, WakeUps, [Next]_vars, NEW w \in Workers
  PROVE  /\ <<w, w>> \in asleep' => wpc'[w] = "parked" /\ set'[w] = "IDLE"
         /\ \A c \in Callers : <<c, w>> \in asleep' => Awaits(c, w)' /\ WillWake(c, w)'
<1>0. /\ TypeOK /\ Alone /\ \A c \in Callers : ListOf(c)
      /\ set \in [Workers -> Modes] /\ get \in [Workers -> Modes] /\ valid \in BOOLEAN
  BY DEF Inv, TypeOK
<1>00. /\ <<w, w>> \in asleep => wpc[w] = "parked" /\ set[w] = "IDLE"
       /\ \A c \in Callers : <<c, w>> \in asleep => Awaits(c, w) /\ WillWake(c, w)
  BY DEF WakeUps, Awake
<1>1. ASSUME UNCHANGED <<set, get, wpc, asleep, todo, valid, crossed>>
      PROVE  /\ <<w, w>> \in asleep' => wpc'[w] = "parked" /\ set'[w] = "IDLE"
             /\ \A c \in Callers : <<c, w>> \in asleep' => Awaits(c, w)' /\ WillWake(c, w)'
  BY <1>00, <1>1 DEF Awaits, WillWake
<1>2. ASSUME NEW v \in Workers, Worker(v)
      PROVE  /\ <<w, w>> \in asleep' => wpc'[w] = "parked" /\ set'[w] = "IDLE"
             /\ \A c \in Callers : <<c, w>> \in asleep' => Awaits(c, w)' /\ WillWake(c, w)'
  <2>1. /\ <<w, w>> \in asleep' => wpc'[w] = "parked" /\ set'[w] = "IDLE"
        /\ \A c \in Callers : <<c, w>> \in asleep' => <<c, w>> \in asleep /\ get'[w] = get[w]
    BY <1>0, <1>2, WorkerSleeps
  <2>2. UNCHANGED <<set, todo, valid, crossed>>
    BY <1>0, <1>2, WorkerActs
  <2>3. QED
    BY <1>00, <2>1, <2>2 DEF Awaits, WillWake
<1>3. ASSUME NEW c \in Callers, Caller(c)
      PROVE  /\ <<w, w>> \in asleep' => wpc'[w] = "parked" /\ set'[w] = "IDLE"
             /\ \A d \in Callers : <<d, w>> \in asleep' => Awaits(d, w)' /\ WillWake(d, w)'
  <2> DEFINE x == Head(todo[c])
             r == Tail(todo[c])
             asks == x.do = "set" /\ x.of = w
  <2>1. /\ todo[c] # <<>> /\ NewList(c) /\ NewFlags(c)
        /\ Moved(x, Ahead(todo[c]), Ahead(todo'[c]))
        /\ x \in Item /\ r \in Seq(Item)
    BY <1>0, <1>3, Acts, Moves, First DEF TypeOK
  <2>2. /\ <<w, w>> \in asleep' => <<w, w>> \in asleep /\ (asks => x.to = "IDLE")
        /\ x.do = "wait" /\ x.of = w => <<c, w>> \notin asleep
        /\ \A d \in Callers : <<d, w>> \in asleep' =>
             \/ <<d, w>> \in asleep /\ (asks => x.to = "IDLE")
             \/ d = c /\ asks /\ get[w] # x.to
             \/ d = c /\ x.do = "wait" /\ x.of = w /\ get[w] # set[w]
    BY <1>0, <1>3, CallerSleeps
  <2>3. /\ get' = get /\ wpc' = wpc /\ crossed' = crossed /\ (valid' = valid \/ valid' = FALSE)
        /\ \A d \in Callers : d # c => todo'[d] = todo[d]
        /\ asks => set'[w] = x.to
        /\ ~asks => set'[w] = set[w]
    BY <1>0, <2>1 DEF NewList, NewFlags
  <2>4. <<w, w>> \in asleep' => wpc'[w] = "parked" /\ set'[w] = "IDLE"
    BY <1>00, <2>2, <2>3
  <2>5. <<c, w>> \notin asleep
    <3>1. <<c, w>> \in asleep => x.do = "wait" /\ x.of = w
      BY <1>00 DEF Awaits, Wait
    <3>2. QED
      BY <2>2, <3>1
  <2>6. ASSUME <<c, w>> \in asleep', asks, get[w] # x.to PROVE Awaits(c, w)' /\ WillWake(c, w)'
    <3>1. todo'[c] = Puts(Wait(w), r)
      BY <2>1, <2>6 DEF NewList
    <3>2. Wait(w) \in Item
      BY DEF Wait, Item
    <3>3. QED
      BY <2>1, <2>3, <2>6, <3>1, <3>2, Cons DEF Awaits, WillWake
  <2>7. ASSUME <<c, w>> \in asleep', x.do = "wait", x.of = w, get[w] # set[w]
        PROVE  Awaits(c, w)' /\ WillWake(c, w)'
    <3>1. todo'[c] = todo[c]
      BY <2>1, <2>7 DEF NewList
    <3>2. x = Wait(w)
      BY <2>1, <2>7, ItemKinds
    <3>3. QED
      BY <2>1, <2>3, <2>7, <3>1, <3>2 DEF Awaits, WillWake
  <2>8. ASSUME NEW d \in Callers, d # c, <<d, w>> \in asleep, asks => x.to = "IDLE"
        PROVE  Awaits(d, w)' /\ WillWake(d, w)'
    <3>1. Awaits(d, w) /\ WillWake(d, w)
      BY <1>00, <2>8
    <3>2. Awaits(d, w)' /\ crossed
      BY <1>0, <2>1, <2>3, <2>8, <3>1 DEF Awaits, Alone, Callers
    <3>3. CASE asks
      <4>1. <<"run", w>> \in Ahead(todo'[c])
        BY <1>0, <1>3, <2>8, <3>3, Asked
      <4>2. QED
        BY <2>8, <3>2, <4>1 DEF WillWake
    <3>4. CASE ~asks /\ get[w] # set[w]
      BY <2>3, <3>2, <3>4 DEF WillWake
    <3>5. CASE w = "audio" /\ ~valid
      BY <2>3, <3>2, <3>5 DEF WillWake
    <3>6. CASE ~asks /\ <<"run", w>> \in Ahead(todo[c])
      <4>1. CASE <<"run", w>> \in Ahead(todo'[c])
        BY <2>8, <3>2, <4>1 DEF WillWake
      <4>2. CASE <<"run", w>> \notin Ahead(todo'[c])
        <5>1. x.do = "try" /\ ~valid /\ x.of = w
          BY <2>1, <3>6, <4>2 DEF Moved, Passed
        <5>2. w = "audio"
          BY <2>1, <5>1, ItemKinds
        <5>3. QED
          BY <3>5, <5>1, <5>2
      <4>3. QED
        BY <4>1, <4>2
    <3>7. \A e \in Callers : e # d => e = c
      BY <2>8 DEF Callers
    <3>8. QED
      BY <3>1, <3>3, <3>4, <3>5, <3>6, <3>7 DEF WillWake
  <2>9. QED
    BY <2>2, <2>4, <2>5, <2>6, <2>7, <2>8
<1>4. CASE Api
  <2>1. todo["app"] = <<>> /\ todo["cmd"] = <<>> /\ UNCHANGED threads
    BY <1>0, <1>4, ApiActs
  <2>2. \A c \in Callers : <<c, w>> \notin asleep
    BY <1>00, <2>1 DEF Awaits, Callers
  <2>3. QED
    BY <1>00, <2>1, <2>2 DEF threads
<1>5. CASE TakeSeek
  <2>1. /\ todo["cmd"] = <<>> /\ todo'["app"] = todo["app"] /\ UNCHANGED <<threads, flags>>
        /\ crossed' = (todo["app"] # <<>> \/ (crossed /\ ~valid))
    BY <1>0, <1>5, TakeActs
  <2>2. <<"cmd", w>> \notin asleep /\ Ahead(todo["cmd"]) = {}
    BY <1>00, <2>1, NoMarks DEF Awaits, Callers
  <2>3. ASSUME <<"app", w>> \in asleep PROVE Awaits("app", w)' /\ WillWake("app", w)'
    <3>1. Awaits("app", w) /\ WillWake("app", w) /\ crossed'
      BY <1>00, <2>1, <2>3 DEF Awaits, Callers
    <3>2. QED
      BY <2>1, <2>2, <3>1 DEF Awaits, WillWake, threads, flags, Callers
  <2>4. QED
    BY <1>00, <2>1, <2>2, <2>3 DEF threads, Callers
<1>6. QED
  BY <1>1, <1>2, <1>3, <1>4, <1>5, NextCases DEF vars, threads, flags, history

ParkedIdle == \A w \in Workers : wpc[w] = "parked" => get[w] = "IDLE"

LEMMA ParkedStep ==
  ASSUME Inv, ParkedIdle, [Next]_vars
  PROVE  ParkedIdle'
<1>0. TypeOK /\ Alone /\ set \in [Workers -> Modes] /\ \A c \in Callers : ListOf(c)
  BY DEF Inv, TypeOK
<1>1. ASSUME UNCHANGED <<get, wpc>> PROVE ParkedIdle'
  BY <1>1 DEF ParkedIdle
<1>2. ASSUME NEW v \in Workers, Worker(v) PROVE ParkedIdle'
  <2>1. /\ \A w \in Workers : w # v => get'[w] = get[w] /\ wpc'[w] = wpc[w]
        /\ \/ /\ get'[v] = set[v]
              /\ set[v] = "RUNNING" => wpc'[v] = "turn"
              /\ set[v] = "EXIT" => wpc'[v] = "gone"
           \/ wpc[v] = "parked" /\ get' = get
           \/ wpc'[v] \in {"work", "top"}
    BY <1>0, <1>2, WorkerActs
  <2>2. QED
    BY <1>0, <2>1 DEF ParkedIdle, Modes
<1>3. ASSUME NEW c \in Callers, Caller(c) PROVE ParkedIdle'
  BY <1>0, <1>1, <1>3, Acts DEF NewFlags
<1>4. CASE Api \/ TakeSeek
  BY <1>0, <1>1, <1>4, ApiActs, TakeActs DEF threads
<1>5. QED
  BY <1>1, <1>2, <1>3, <1>4, NextCases DEF vars, threads

\* No wake-up is lost, though a thread that asks for IDLE wakes nobody and a worker
\* and its callers sleep on the same condition variable: a sleeping worker is as idle
\* as it was asked to be; a sleeping caller has not been answered, or the other one
\* is at work and is going to run the worker, which wakes both; but for audio that
\* one of two crossing calls dropped.
THEOREM NobodyOversleeps == Spec => []NoLostWakeUp
<1>1. Init => WakeUps /\ ParkedIdle
  BY DEF Init, WakeUps, Awake, ParkedIdle
<1>2. Inv /\ WakeUps /\ [Next]_vars => WakeUps'
  BY SleepStep DEF WakeUps, Awake
<1>3. WakeUps /\ ParkedIdle => NoLostWakeUp
  <2> SUFFICES ASSUME WakeUps, ParkedIdle, NEW w \in Workers
               PROVE  /\ ~Awake(w, w) => set[w] = "IDLE" /\ get[w] = "IDLE"
                      /\ \A c \in Callers : ~Awake(c, w) =>
                           \/ get[w] # set[w]
                           \/ \E d \in Callers \ {c} : todo[d] # <<>>
                           \/ w = "audio" /\ ~valid /\ crossed
    BY DEF NoLostWakeUp
  <2>1. ~Awake(w, w) => set[w] = "IDLE" /\ get[w] = "IDLE"
    BY DEF WakeUps, ParkedIdle
  <2>2. ASSUME NEW c \in Callers, ~Awake(c, w)
        PROVE  \/ get[w] # set[w]
               \/ \E d \in Callers \ {c} : todo[d] # <<>>
               \/ w = "audio" /\ ~valid /\ crossed
    <3>1. WillWake(c, w)
      BY <2>2 DEF WakeUps
    <3>2. ASSUME NEW d \in Callers, <<"run", w>> \in Ahead(todo[d]) PROVE todo[d] # <<>>
      BY <3>2, NoMarks
    <3>3. QED
      BY <3>1, <3>2 DEF WillWake
  <2>3. QED
    BY <2>1, <2>2
<1>4. QED
  BY <1>1, <1>2, <1>3, ParkedStep, Invariance, PTL DEF Spec
=============================================================================
