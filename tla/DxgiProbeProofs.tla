--------------------------- MODULE DxgiProbeProofs ---------------------------
(* Theorems about DxgiProbe: the whole probe in every mode, for every         *)
(* duration, timeout, screen and number of attempts.                         *)
EXTENDS DxgiProbe, Arithmetic, SequenceTheorems, FiniteSetTheorems, TLAPS

-----------------------------------------------------------------------------
(* The inductive invariant.                                                 *)

\* Which functions may be running in each phase.
CallsIn(p) == CASE p = "displays" -> {"list"}
                [] p = "gdi"      -> {"gdi"}
                [] p = "create"   -> {"create"}
                [] p = "loop"     -> {"none", "frame"}
                [] p = "leave"    -> {"run"}
                [] OTHER          -> {"none"}

ResultsOf(c) == CASE c = "none"  -> {"none"}
                  [] c = "run"   -> {"done", "failed"}
                  [] c = "frame" -> Results \cup {"none"}
                  [] OTHER       -> {"none", "ok", "error"}

\* Which function runs when, in which mode.
Control ==
    /\ call \in CallsIn(phase) /\ result \in ResultsOf(call)
    /\ phase = "open" => taken = 0
    /\ phase = "gdi" => mode = "hybrid"
    /\ phase \notin {"displays", "leave", "done", "failed", "killed"} =>
           mode \in {"dxgi", "hybrid"}
    /\ call \in {"create", "frame", "gdi"} => taken <= Len(Chain[call])

\* What run() holds once it has it, and what the running function adds to it,
\* in the order of the guards.
Own == <<"log", "duplication", "context", "device", "window">>

Local ==
    CASE call = "list" -> <<"factory", "adapter", "output">>
      [] call = "gdi" -> GdiChain
      [] call = "create" /\ result # "ok" ->
             <<"factory", "adapter", "output", "output1", "device", "context",
               "duplication">>
      [] call = "create" /\ result = "ok" ->
             <<"factory", "adapter", "output", "output1">>
      [] call = "frame" -> <<"frame", "resource", "texture", "readable", "map">>
      [] call = "run" -> Own
      [] OTHER -> << >>

\* How much of that is run()'s.
BaseIs ==
    /\ call \in {"list", "run"} => base = 0
    /\ call = "gdi" => base = 1
    /\ call = "create" => base = IF result = "ok" THEN 4 ELSE 1
    /\ call = "frame" => base \in {4, 5}
    /\ phase \in {"open", "done", "failed", "killed"} => base = 0
    /\ phase = "save" => IF mode = "hybrid" THEN base = 1 ELSE base \in {4, 5}
    /\ phase = "window" => base = 4
    /\ phase \in {"loop", "nudge", "capture", "broken", "flush"} =>
           base \in {4, 5}

\* How many things t calls have brought: two of them bring two each.
HeldAfter(t) == t + (IF (call = "create" /\ t >= 5)
                           \/ (call = "frame" /\ t >= 1) THEN 1 ELSE 0)

Things == {"log", "duplication", "context", "device", "window", "factory",
           "adapter", "output", "output1", "screen", "memory", "bitmap",
           "selection", "frame", "resource", "texture", "readable", "map"}

Contents(s) == {s[i] : i \in 1 .. Len(s)}

\* The guards are a beginning of that, and they own what is handed out.
Stack ==
    /\ guards \in Seq(Things)
    /\ base \in Nat /\ base <= Len(guards)
    /\ Len(guards) <= base + Len(Local)
    /\ \A i \in 1 .. Len(guards) :
           guards[i] = IF i <= base THEN Own[i] ELSE Local[i - base]
    /\ (call \in DOMAIN Chain /\ result = "none") =>
           Len(guards) = base + HeldAfter(taken)
    /\ owned = Contents(guards)

\* The clock of the loop.
Times ==
    /\ phase \in {"nudge", "capture"} => now < Duration
    /\ call = "frame" => called <= Duration

\* Where the cursor is outside a nudge: where the user put it, or further right
\* by a refused put-back each.  A nudge under way goes back to such a place, and
\* a movement made within one is where the cursor is.
Near(p) == p \in wanted .. wanted + refused

Nudge ==
    /\ phase = "nudge" /\ fate = "kept" => /\ Near(point)
                                           /\ cursor \in {point, point + 1}
    /\ fate = "within" => phase \in {"nudge", "killed"} /\ cursor = wanted
    /\ refused + (IF phase = "nudge" THEN 1 ELSE 0) <= count.attempts
    /\ CursorPutBack

\* What is still to be saved.
Leaving == phase \in {"leave", "done", "failed", "killed"}

Picture ==
    /\ mode # "dxgi" => ~pending
    /\ (pending /\ phase # "save" /\ ~Leaving) =>
           count.frames = 0 /\ saved.part = "none"
    /\ phase \in {"displays", "open", "gdi", "create", "window"} =>
           count.frames = 0
    /\ phase = "save" => IF mode = "hybrid" THEN count.frames = 0
                                            ELSE pending /\ count.frames = 1
    /\ saved.part # "none" => saved.frame = IF mode = "hybrid" THEN 0 ELSE 1
    /\ saved.part = "partial" => \/ phase \in {"save", "failed", "killed"}
                                 \/ phase = "leave" /\ result = "failed"

\* The events of a kind written so far.
Written(e) == Positions(log, e)
Errors == {"access_lost", "hresult_error", "io_error"}
EventNames == Results \cup {"start", "gdi_bootstrap", "gdi_bootstrap_error",
    "dxgi_created", "wake_window_created", "wake_window_error", "summary"}

InAttempt == phase \in {"nudge", "capture"} \/ call = "frame"

\* Each counter is the number of its events, and an attempt under way has not
\* left its event yet.
Tallied ==
    /\ log \in Seq(EventNames)
    /\ count.frames = Cardinality(Written({"frame"}))
    /\ count.timeouts = Cardinality(Written({"timeout"}))
    /\ count.access_lost = Cardinality(Written({"access_lost"}))
    /\ count.attempts >= Cardinality(Written(Results))
    /\ InAttempt => count.attempts = Cardinality(Written(Results)) + 1
    /\ (~InAttempt /\ ~Leaving) =>
           count.attempts = Cardinality(Written(Results))

\* The summary is the last event, and accounts for every attempt.
SummaryLast ==
    /\ \A k \in 1 .. Len(log) : log[k] = "summary" =>
           /\ k = Len(log) /\ (phase = "flush" \/ Leaving)
           /\ count.attempts = Cardinality(Written(Results))
    /\ phase = "flush" => log # << >> /\ log[Len(log)] = "summary"
    /\ (mode # "list" /\ (phase = "done" \/ (phase = "leave" /\ result = "done")))
           => /\ log # << >> /\ log[Len(log)] = "summary"
              /\ durable = Len(log)

\* Nothing but the summary follows an error.
ErrorLast ==
    /\ \A k \in 1 .. Len(log) : log[k] \in Errors =>
           \/ k = Len(log) /\ (phase = "broken" \/ Leaving)
           \/ k < Len(log) /\ log[k + 1] = "summary"
    /\ (count.access_lost # 0) => phase \in {"broken", "flush"} \/ Leaving

ProbeInv == /\ TypeOK /\ Control /\ BaseIs /\ Stack /\ Times /\ Nudge /\ Picture
            /\ Tallied /\ SummaryLast /\ ErrorLast

-----------------------------------------------------------------------------
(* The chains, and which function runs when.                                *)

LEMMA ChainFacts ==
    /\ DOMAIN Chain = {"gdi", "create", "frame"}
    /\ Chain["gdi"] = GdiChain /\ Len(GdiChain) = 4
    /\ Chain["create"] = CapturerChain /\ Len(CapturerChain) = 6
    /\ Chain["frame"] = FrameChain /\ Len(FrameChain) = 4
    /\ ToSet(GdiChain) = {"screen", "memory", "bitmap", "selection"}
<1>1. /\ DOMAIN Chain = {"gdi", "create", "frame"}
      /\ Chain["gdi"] = GdiChain
      /\ Chain["create"] = CapturerChain
      /\ Chain["frame"] = FrameChain
  BY DEF Chain
<1>2. Len(GdiChain) = 4 /\ Len(CapturerChain) = 6 /\ Len(FrameChain) = 4
  BY DEF GdiChain, CapturerChain, FrameChain
<1>3. ToSet(GdiChain) = {"screen", "memory", "bitmap", "selection"}
  <2>1. DOMAIN GdiChain = {1, 2, 3, 4}
    BY DEF GdiChain
  <2>2. /\ GdiChain[1] = "screen" /\ GdiChain[2] = "memory"
        /\ GdiChain[3] = "bitmap" /\ GdiChain[4] = "selection"
    BY DEF GdiChain
  <2> QED BY <2>1, <2>2 DEF ToSet
<1> QED BY <1>1, <1>2, <1>3

LEMMA ControlHolds == Init => Control
BY ProbeAssumption DEF Init, Control, CallsIn, ResultsOf

LEMMA ControlStays ==
    ASSUME ProbeInv, [Next]_vars
    PROVE  Control'
<1> USE ChainFacts DEF Control, CallsIn, ResultsOf, ProbeInv, Results
<1> SUFFICES ASSUME Next PROVE Control'
  BY DEF vars
<1>o. mode' = mode /\ wake' = wake
  BY DEF Next, options
<1>1. CASE ListDisplays
  BY <1>1, <1>o DEF ListDisplays, In, Return, activation
<1>2. CASE Acquire
  <2>1. /\ call' = call /\ result' = result /\ phase' = phase
        /\ call \in DOMAIN Chain /\ taken' = taken + 1 /\ taken < Len(Chain[call])
        /\ result = "none"
    BY <1>2 DEF Acquire, In
  <2>2. taken \in Int
    BY DEF TypeOK
  <2>3. taken' <= Len(Chain[call])
    BY <2>1, <2>2
  <2>4. phase # "open"
    BY <2>1
  <2> QED BY <2>1, <2>3, <2>4, <1>o
<1>3. CASE Refuse
  BY <1>3, <1>o DEF Refuse, In, Return
<1>4. CASE BlitAndRead \/ Built \/ PointerOnly \/ CopyOut
  BY <1>4, <1>o DEF BlitAndRead, Built, PointerOnly, CopyOut, In, Return
<1>5. CASE DropGdi \/ DropCom \/ DropWindow \/ DropLogger
  BY <1>5, <1>o DEF DropGdi, DropCom, DropWindow, DropLogger, activation
<1>6. CASE LookUpDisplay \/ OpenLog
  <2>1. mode \in {"dxgi", "hybrid", "list"}
    BY ProbeAssumption DEF TypeOK
  <2>2. CASE LookUpDisplay
    BY <2>1, <2>2, <1>o DEF LookUpDisplay, Returned, Enter, Quit
  <2>3. CASE OpenLog
    BY <2>1, <2>3, <1>o DEF OpenLog
  <2> QED BY <1>6, <2>2, <2>3
<1>7. CASE Bootstrap \/ CreateCapturer \/ CreateWakeWindow
  BY <1>7, <1>o DEF Bootstrap, CreateCapturer, CreateWakeWindow, Returned, Enter, Quit, activation
<1>8. CASE Attempt \/ EndNudge \/ CallFrame
  BY <1>8, <1>o DEF Attempt, EndNudge, CallFrame, Enter, activation
<1>9. CASE HandleFrame \/ SavePicture \/ HandleNothing \/ HandleError
  <2>1. CASE SavePicture
    BY <2>1, <1>o DEF SavePicture, Enter, stack, activation
  <2>2. CASE HandleFrame \/ HandleNothing \/ HandleError
    BY <2>2, <1>o
       DEF HandleFrame, HandleNothing, HandleError, Returned, Enter, AfterError
  <2> QED BY <1>9, <2>1, <2>2
<1>10. CASE Summarise \/ FinalFlush \/ Fail \/ End
  BY <1>10, <1>o DEF Summarise, FinalFlush, Fail, End, Quit, Returned, activation
<1>11. CASE Tick \/ MoveCursor \/ Kill
  BY <1>11, <1>o DEF Tick, MoveCursor, Kill, activation
<1> QED
  BY <1>1, <1>2, <1>3, <1>4, <1>5, <1>6, <1>7, <1>8, <1>9, <1>10, <1>11
     DEF Next, Functions, Run

-----------------------------------------------------------------------------
(* The stack of guards: what is in it, one thing at a time.                 *)

LEMMA OwnFacts ==
    /\ Len(Own) = 5
    /\ \A i \in 1 .. 5 : \/ i = 1 /\ Own[i] = "log"
                         \/ i = 2 /\ Own[i] = "duplication"
                         \/ i = 3 /\ Own[i] = "context"
                         \/ i = 4 /\ Own[i] = "device"
                         \/ i = 5 /\ Own[i] = "window"
BY DEF Own

\* What the functions take, one by one.
LEMMA LocalFacts ==
    /\ call \notin {"list", "gdi", "create", "frame", "run"} => Local = << >>
    /\ call = "list" =>
           /\ Len(Local) = 3
           /\ \A i \in 1 .. 3 : \/ i = 1 /\ Local[i] = "factory"
                                \/ i = 2 /\ Local[i] = "adapter"
                                \/ i = 3 /\ Local[i] = "output"
    /\ call = "gdi" =>
           /\ Len(Local) = 4
           /\ \A i \in 1 .. 4 : \/ i = 1 /\ Local[i] = "screen"
                                \/ i = 2 /\ Local[i] = "memory"
                                \/ i = 3 /\ Local[i] = "bitmap"
                                \/ i = 4 /\ Local[i] = "selection"
    /\ (call = "create" /\ result # "ok") =>
           /\ Len(Local) = 7
           /\ \A i \in 1 .. 7 : \/ i = 1 /\ Local[i] = "factory"
                                \/ i = 2 /\ Local[i] = "adapter"
                                \/ i = 3 /\ Local[i] = "output"
                                \/ i = 4 /\ Local[i] = "output1"
                                \/ i = 5 /\ Local[i] = "device"
                                \/ i = 6 /\ Local[i] = "context"
                                \/ i = 7 /\ Local[i] = "duplication"
    /\ (call = "create" /\ result = "ok") =>
           /\ Len(Local) = 4
           /\ \A i \in 1 .. 4 : \/ i = 1 /\ Local[i] = "factory"
                                \/ i = 2 /\ Local[i] = "adapter"
                                \/ i = 3 /\ Local[i] = "output"
                                \/ i = 4 /\ Local[i] = "output1"
    /\ call = "frame" =>
           /\ Len(Local) = 5
           /\ \A i \in 1 .. 5 : \/ i = 1 /\ Local[i] = "frame"
                                \/ i = 2 /\ Local[i] = "resource"
                                \/ i = 3 /\ Local[i] = "texture"
                                \/ i = 4 /\ Local[i] = "readable"
                                \/ i = 5 /\ Local[i] = "map"
    /\ call = "run" => Local = Own
<1>1. call \notin {"list", "gdi", "create", "frame", "run"} => Local = << >>
  BY DEF Local
<1>2. call = "list" => Local = <<"factory", "adapter", "output">>
  BY DEF Local
<1>3. call = "gdi" => Local = <<"screen", "memory", "bitmap", "selection">>
  BY DEF Local, GdiChain
<1>4. (call = "create" /\ result # "ok") =>
          Local = <<"factory", "adapter", "output", "output1", "device",
                    "context", "duplication">>
  BY DEF Local
<1>5. (call = "create" /\ result = "ok") =>
          Local = <<"factory", "adapter", "output", "output1">>
  BY DEF Local
<1>6. call = "frame" =>
          Local = <<"frame", "resource", "texture", "readable", "map">>
  BY DEF Local
<1>7. call = "run" => Local = Own
  BY DEF Local
<1> QED BY <1>1, <1>2, <1>3, <1>4, <1>5, <1>6, <1>7

\* A push adds at the end, a pop takes the last.
LEMMA Pushing ==
    ASSUME NEW S, NEW s \in Seq(S), NEW b \in Seq(S)
    PROVE  /\ s \o b \in Seq(S) /\ Len(s \o b) = Len(s) + Len(b)
           /\ \A i \in 1 .. Len(s) : (s \o b)[i] = s[i]
           /\ \A i \in Len(s) + 1 .. Len(s) + Len(b) :
                  (s \o b)[i] = b[i - Len(s)]
           /\ Contents(s \o b) = Contents(s) \cup ToSet(b)
<1>1. /\ s \o b \in Seq(S) /\ Len(s \o b) = Len(s) + Len(b)
      /\ Len(s) \in Nat /\ Len(b) \in Nat
  BY ConcatProperties, LenProperties
<1>2. \A i \in 1 .. Len(s) : (s \o b)[i] = s[i]
  BY <1>1, ConcatProperties
<1>3. \A i \in Len(s) + 1 .. Len(s) + Len(b) : (s \o b)[i] = b[i - Len(s)]
  BY <1>1, ConcatProperties
<1>4. ToSet(b) = {b[i] : i \in 1 .. Len(b)}
  BY LenProperties DEF ToSet
<1>5. ASSUME NEW x \in Contents(s \o b)
      PROVE  x \in Contents(s) \cup ToSet(b)
  <2>1. PICK i \in 1 .. Len(s \o b) : x = (s \o b)[i]
    BY <1>5 DEF Contents
  <2>2. CASE i <= Len(s)
    BY <2>1, <2>2, <1>1, <1>2 DEF Contents
  <2>3. CASE i > Len(s)
    <3>1. i - Len(s) \in 1 .. Len(b)
      BY <2>1, <2>3, <1>1
    <3> QED BY <2>1, <2>3, <3>1, <1>1, <1>3, <1>4
  <2> QED BY <2>1, <2>2, <2>3, <1>1
<1>6. ASSUME NEW x \in Contents(s) \cup ToSet(b)
      PROVE  x \in Contents(s \o b)
  <2>1. CASE x \in Contents(s)
    BY <2>1, <1>1, <1>2 DEF Contents
  <2>2. CASE x \in ToSet(b)
    <3>1. PICK j \in 1 .. Len(b) : x = b[j]
      BY <2>2, <1>4
    <3>2. /\ j + Len(s) \in Len(s) + 1 .. Len(s) + Len(b)
          /\ (j + Len(s)) - Len(s) = j /\ j + Len(s) \in 1 .. Len(s \o b)
      BY <1>1
    <3>3. (s \o b)[j + Len(s)] = b[j]
      BY <3>2, <1>3
    <3> QED BY <3>1, <3>2, <3>3 DEF Contents
  <2> QED BY <1>6, <2>1, <2>2
<1> QED BY <1>1, <1>2, <1>3, <1>5, <1>6

LEMMA Popping ==
    ASSUME NEW S, NEW s \in Seq(S), s # << >>
    PROVE  /\ Len(s) \in Nat \ {0} /\ Last(s) = s[Len(s)]
           /\ Front(s) \in Seq(S) /\ Len(Front(s)) = Len(s) - 1
           /\ \A i \in 1 .. Len(s) - 1 : Front(s)[i] = s[i]
<1>1. Len(s) \in Nat /\ Len(s) # 0
  BY LenProperties, EmptySeq
<1>2. \A i \in 1 .. Len(s) - 1 : s[i] \in S
  BY <1>1, ElementOfSeq
<1>3. /\ SubSeq(s, 1, Len(s) - 1) \in Seq(S)
      /\ Len(SubSeq(s, 1, Len(s) - 1)) =
             IF 1 <= Len(s) - 1 THEN Len(s) - 1 - 1 + 1 ELSE 0
      /\ \A i \in 1 .. Len(s) - 1 - 1 + 1 :
             SubSeq(s, 1, Len(s) - 1)[i] = s[1 + i - 1]
  BY <1>1, <1>2, SubSeqProperties
<1> HIDE DEF Front, Last
<1>4. Len(SubSeq(s, 1, Len(s) - 1)) = Len(s) - 1
  <2>1. CASE Len(s) = 1
    BY <2>1, <1>3
  <2>2. CASE Len(s) > 1
    <3>1. 1 <= Len(s) - 1 /\ Len(s) - 1 - 1 + 1 = Len(s) - 1
      BY <2>2, <1>1
    <3> QED BY <3>1, <1>3, Zenon
  <2>3. \A n \in Nat : n # 0 => n = 1 \/ n > 1
    OBVIOUS
  <2> QED BY <1>1, <2>1, <2>2, <2>3, Zenon
<1>5. ASSUME NEW i \in 1 .. Len(s) - 1
      PROVE  SubSeq(s, 1, Len(s) - 1)[i] = s[i]
  <2>1. i \in 1 .. Len(s) - 1 - 1 + 1 /\ 1 + i - 1 = i
    BY <1>1
  <2> QED BY <2>1, <1>3
<1>6. Front(s) = SubSeq(s, 1, Len(s) - 1) /\ Last(s) = s[Len(s)]
  BY Zenon DEF Front, Last
<1> QED BY <1>1, <1>3, <1>4, <1>5, <1>6, Zenon

-----------------------------------------------------------------------------
(* No thing is in the stack twice.                                          *)

LEMMA Distinct ==
    ASSUME Control, BaseIs, Stack, phase \in Phases
    PROVE  \A i, j \in 1 .. Len(guards) : guards[i] = guards[j] => i = j
<1> DEFINE n == Len(guards)
           At(i) == IF i <= base THEN Own[i] ELSE Local[i - base]
<1>1. n \in Nat /\ base \in Nat /\ base <= n /\ n <= base + Len(Local)
  BY LenProperties DEF Stack
<1>2. \A i \in 1 .. n : guards[i] = At(i)
  BY DEF Stack
<1> SUFFICES ASSUME NEW i \in 1 .. n, NEW j \in 1 .. n, At(i) = At(j)
             PROVE  i = j
  BY <1>2
<1>3. call \in {"none", "list", "gdi", "create", "frame", "run"}
  BY DEF Control, CallsIn
<1>4. base \in 0 .. 5
  BY DEF BaseIs, Control, CallsIn, Phases
<1>5. CASE call = "none"
  <2>1. n = base
    BY <1>1, <1>5, LocalFacts
  <2> QED BY <2>1, <1>4, OwnFacts
<1>6. CASE call = "list"
  <2>1. base = 0 /\ i \in 1 .. 3 /\ j \in 1 .. 3
    <3>1. base = 0
      BY <1>6 DEF BaseIs
    <3>2. Len(Local) = 3
      BY <1>6, LocalFacts
    <3> QED BY <3>1, <3>2, <1>1
  <2>2. Local[i] = Local[j]
    BY <2>1
  <2> QED BY <2>1, <2>2, <1>6, LocalFacts
<1>7. CASE call = "run"
  <2>1. base = 0 /\ i \in 1 .. 5 /\ j \in 1 .. 5
    <3>1. base = 0
      BY <1>7 DEF BaseIs
    <3>2. Len(Local) = 5
      BY <1>7, LocalFacts, OwnFacts
    <3> QED BY <3>1, <3>2, <1>1
  <2>2. Own[i] = Own[j]
    BY <2>1, <1>7, LocalFacts
  <2> QED BY <2>1, <2>2, OwnFacts
<1>8. CASE call = "gdi"
  <2>1. base = 1 /\ Len(Local) = 4
    BY <1>8, LocalFacts DEF BaseIs
  <2> QED BY <2>1, <1>1, <1>8, LocalFacts, OwnFacts
<1>9. CASE call = "create" /\ result # "ok"
  <2>1. base = 1 /\ Len(Local) = 7
    BY <1>9, LocalFacts DEF BaseIs
  <2> QED BY <2>1, <1>1, <1>9, LocalFacts, OwnFacts
<1>10. CASE call = "create" /\ result = "ok"
  <2>1. base = 4 /\ Len(Local) = 4
    BY <1>10, LocalFacts DEF BaseIs
  <2> QED BY <2>1, <1>1, <1>10, LocalFacts, OwnFacts
<1>11. CASE call = "frame"
  <2>1. base \in {4, 5} /\ Len(Local) = 5
    BY <1>11, LocalFacts DEF BaseIs
  <2> QED BY <2>1, <1>1, <1>11, LocalFacts, OwnFacts
<1> QED BY <1>3, <1>5, <1>6, <1>7, <1>8, <1>9, <1>10, <1>11

\* The last guard dropped, the others own what is left.
LEMMA Dropped ==
    ASSUME Control, BaseIs, Stack, phase \in Phases, guards # << >>
    PROVE  /\ Front(guards) \in Seq(Things)
           /\ Len(guards) \in Nat \ {0} /\ Len(Front(guards)) = Len(guards) - 1
           /\ \A i \in 1 .. Len(guards) - 1 : Front(guards)[i] = guards[i]
           /\ owned \ {Last(guards)} = Contents(Front(guards))
<1>1. /\ Len(guards) \in Nat \ {0} /\ Last(guards) = guards[Len(guards)]
      /\ Front(guards) \in Seq(Things) /\ Len(Front(guards)) = Len(guards) - 1
      /\ \A i \in 1 .. Len(guards) - 1 : Front(guards)[i] = guards[i]
  BY Popping DEF Stack
<1>2. \A i, j \in 1 .. Len(guards) : guards[i] = guards[j] => i = j
  BY Distinct
<1>3. owned = Contents(guards)
  BY DEF Stack
<1>4. ASSUME NEW x \in owned \ {Last(guards)}
      PROVE  x \in Contents(Front(guards))
  <2>1. PICK i \in 1 .. Len(guards) : x = guards[i]
    BY <1>3, <1>4 DEF Contents
  <2>2. i \in 1 .. Len(guards) - 1
    BY <2>1, <1>1, <1>4
  <2> QED BY <2>1, <2>2, <1>1 DEF Contents
<1>5. ASSUME NEW x \in Contents(Front(guards))
      PROVE  x \in owned \ {Last(guards)}
  <2>1. PICK i \in 1 .. Len(guards) - 1 : x = guards[i]
    BY <1>1, <1>5 DEF Contents
  <2>2. i \in 1 .. Len(guards) /\ Len(guards) \in 1 .. Len(guards)
        /\ i # Len(guards)
    BY <1>1
  <2>3. x # Last(guards)
    BY <2>1, <2>2, <1>1, <1>2
  <2> QED BY <2>1, <2>2, <2>3, <1>3 DEF Contents
<1> QED BY <1>1, <1>4, <1>5

\* What the next call brings is what comes next.
LEMMA Brought ==
    ASSUME call \in DOMAIN Chain, result = "none",
           taken \in Nat, taken < Len(Chain[call])
    PROVE  LET b == Brings(Chain[call][taken + 1])
           IN  /\ b \in Seq(Things) /\ Len(b) \in Nat
               /\ HeldAfter(taken) \in Nat
               /\ HeldAfter(taken + 1) = HeldAfter(taken) + Len(b)
               /\ HeldAfter(taken + 1) <= Len(Local)
               /\ \A i \in 1 .. Len(b) : b[i] = Local[HeldAfter(taken) + i]
<1> DEFINE r == Chain[call][taken + 1]
           b == Brings(r)
<1> SUFFICES /\ b \in Seq(Things) /\ Len(b) \in Nat
             /\ HeldAfter(taken) \in Nat
             /\ HeldAfter(taken + 1) = HeldAfter(taken) + Len(b)
             /\ HeldAfter(taken + 1) <= Len(Local)
             /\ \A i \in 1 .. Len(b) : b[i] = Local[HeldAfter(taken) + i]
  OBVIOUS
<1> HIDE DEF b, r
<1>1. \A t \in Things : <<t>> \in Seq(Things) /\ Len(<<t>>) = 1 /\ <<t>>[1] = t
  <2> TAKE t \in Things
  <2> QED OBVIOUS
<1>2. /\ <<"device", "context">> \in Seq(Things)
      /\ <<"frame", "resource">> \in Seq(Things)
  <2>1. {"device", "context", "frame", "resource"} \subseteq Things
    BY DEF Things
  <2>2. \A t, u \in Things : <<t, u>> \in Seq(Things)
    OBVIOUS
  <2> QED BY <2>1, <2>2
<1>3. CASE call = "gdi"
  <2>1. taken \in 0 .. 3 /\ r = GdiChain[taken + 1] /\ HeldAfter(taken) = taken
        /\ HeldAfter(taken + 1) = taken + 1
    BY <1>3, ChainFacts DEF HeldAfter, r
  <2>2. r \in {"screen", "memory", "bitmap", "selection"} /\ r = Local[taken + 1]
    BY <2>1, <1>3 DEF GdiChain, Local
  <2>3. b = <<r>> /\ r \in Things
    BY <2>2 DEF b, Brings, Things
  <2>4. b \in Seq(Things) /\ Len(b) = 1 /\ b[1] = r
    BY <2>3, <1>1
  <2>5. Len(Local) = 4
    BY <1>3, LocalFacts
  <2> QED BY <2>1, <2>2, <2>4, <2>5
<1>4. CASE call = "create"
  <2>1. taken \in 0 .. 5 /\ r = CapturerChain[taken + 1]
    BY <1>4, ChainFacts DEF r
  <2>2. Len(Local) = 7
    BY <1>4, LocalFacts
  <2>3. CASE taken < 4
    <3>1. HeldAfter(taken) = taken /\ HeldAfter(taken + 1) = taken + 1
      BY <1>4, <2>1, <2>3 DEF HeldAfter
    <3>2. r \in {"factory", "adapter", "output", "output1"}
          /\ r = Local[taken + 1]
      BY <2>1, <2>3, <1>4 DEF CapturerChain, Local
    <3>3. b = <<r>> /\ r \in Things
      BY <3>2 DEF b, Brings, Things
    <3> QED BY <2>1, <2>2, <2>3, <3>1, <3>2, <3>3, <1>1
  <2>4. CASE taken = 4
    <3>1. HeldAfter(taken) = 4 /\ HeldAfter(taken + 1) = 6
      BY <1>4, <2>4 DEF HeldAfter
    <3>2. r = "device" /\ Local[5] = "device" /\ Local[6] = "context"
      BY <2>1, <2>4, <1>4 DEF CapturerChain, Local
    <3>3. b = <<"device", "context">>
      BY <3>2 DEF b, Brings
    <3>4. Len(b) = 2 /\ b[1] = "device" /\ b[2] = "context"
      BY <3>3
    <3> QED BY <2>2, <3>1, <3>2, <3>3, <3>4, <1>2
  <2>5. CASE taken = 5
    <3>1. HeldAfter(taken) = 6 /\ HeldAfter(taken + 1) = 7
      BY <1>4, <2>5 DEF HeldAfter
    <3>2. r = "duplication" /\ Local[7] = "duplication"
      BY <2>1, <2>5, <1>4 DEF CapturerChain, Local
    <3>3. b = <<"duplication">> /\ "duplication" \in Things
      BY <3>2 DEF b, Brings, Things
    <3> QED BY <2>2, <3>1, <3>2, <3>3, <1>1
  <2> QED BY <2>1, <2>3, <2>4, <2>5
<1>5. CASE call = "frame"
  <2>1. taken \in 0 .. 3 /\ r = FrameChain[taken + 1]
    BY <1>5, ChainFacts DEF r
  <2>2. Len(Local) = 5
    BY <1>5, LocalFacts
  <2>3. CASE taken = 0
    <3>1. HeldAfter(taken) = 0 /\ HeldAfter(taken + 1) = 2
      BY <1>5, <2>3 DEF HeldAfter
    <3>2. r = "frame" /\ Local[1] = "frame" /\ Local[2] = "resource"
      BY <2>1, <2>3, <1>5 DEF FrameChain, Local
    <3>3. b = <<"frame", "resource">>
      BY <3>2 DEF b, Brings
    <3>4. Len(b) = 2 /\ b[1] = "frame" /\ b[2] = "resource"
      BY <3>3
    <3> QED BY <2>2, <3>1, <3>2, <3>3, <3>4, <1>2
  <2>4. CASE taken > 0
    <3>1. HeldAfter(taken) = taken + 1 /\ HeldAfter(taken + 1) = taken + 2
      BY <1>5, <2>1, <2>4 DEF HeldAfter
    <3>2. r \in {"texture", "readable", "map"} /\ r = Local[taken + 2]
      BY <2>1, <2>4, <1>5 DEF FrameChain, Local
    <3>3. b = <<r>> /\ r \in Things
      BY <3>2 DEF b, Brings, Things
    <3> QED BY <2>1, <2>2, <2>4, <3>1, <3>2, <3>3, <1>1
  <2> QED BY <2>1, <2>3, <2>4
<1> QED BY <1>3, <1>4, <1>5, ChainFacts

-----------------------------------------------------------------------------
(* How the stack changes.                                                   *)

\* While no function runs, everything held is run()'s.
LEMMA Settled ==
    ASSUME Stack, call = "none"
    PROVE  Len(guards) = base
<1>1. Len(Local) = 0
  BY LocalFacts
<1>2. Len(guards) \in Nat /\ base \in Nat /\ base <= Len(guards)
      /\ Len(guards) <= base + Len(Local)
  BY LenProperties DEF Stack
<1> QED BY <1>1, <1>2

\* The stack and the running function are left alone.
LEMMA StackKept ==
    ASSUME Stack, UNCHANGED stack, UNCHANGED activation
    PROVE  Stack'
<1>1. /\ owned' = owned /\ guards' = guards /\ base' = base
      /\ call' = call /\ taken' = taken /\ result' = result
  BY DEF stack, activation
<1>2. Local' = Local /\ HeldAfter(taken)' = HeldAfter(taken)
  BY <1>1 DEF Local, HeldAfter
<1> QED BY <1>1, <1>2 DEF Stack

\* A function that took things says what it will return, and takes no more.
LEMMA StackReturns ==
    ASSUME Stack, UNCHANGED stack, result = "none",
           call' = call, result' # "none", call = "create" => result' # "ok"
    PROVE  Stack'
<1>1. owned' = owned /\ guards' = guards /\ base' = base
  BY DEF stack
<1>2. Local' = Local
  <2>1. (call = "create" /\ result # "ok") <=> (call' = "create" /\ result' # "ok")
    OBVIOUS
  <2>2. (call = "create" /\ result = "ok") <=> (call' = "create" /\ result' = "ok")
    OBVIOUS
  <2> QED BY <2>1, <2>2 DEF Local
<1> QED BY <1>1, <1>2 DEF Stack

\* Another function starts on top of what run() holds.
LEMMA StackEnters ==
    ASSUME Stack, BaseIs, Control, phase \in Phases, Len(guards) = base,
           NEW f, Enter(f), owned' = owned, guards' = guards
    PROVE  Stack'
<1>1. /\ base' = Len(guards) /\ Len(guards') = Len(guards)
      /\ taken' = 0 /\ result' = "none"
  BY DEF Enter
<1>2. /\ Len(guards) \in Nat /\ guards' \in Seq(Things)
      /\ \A i \in 1 .. Len(guards) :
             guards[i] = IF i <= base THEN Own[i] ELSE Local[i - base]
      /\ owned' = Contents(guards')
  BY LenProperties DEF Stack
<1>3. \A i \in 1 .. Len(guards') :
          guards'[i] = IF i <= base' THEN Own[i] ELSE (Local')[i - base']
  BY <1>1, <1>2
<1>4. Len(guards') <= base' + Len(Local')
  <2>1. Len(Local') \in Nat
    BY DEF Local, Own, GdiChain
  <2> QED BY <2>1, <1>1, <1>2
<1>5. HeldAfter(taken)' = 0
  BY <1>1 DEF HeldAfter
<1> QED BY <1>1, <1>2, <1>3, <1>4, <1>5 DEF Stack

\* run() returns: what it holds is now to be dropped.
LEMMA StackQuits ==
    ASSUME Stack, BaseIs, Control, phase \in Phases, Len(guards) = base,
           NEW outcome, Quit(outcome)
    PROVE  Stack'
<1>1. /\ base' = 0 /\ owned' = owned /\ guards' = guards /\ call' = "run"
  BY DEF Quit
<1>2. Local' = Own /\ "run" \notin DOMAIN Chain
  BY <1>1, ChainFacts DEF Local
<1>3. base \in 0 .. 5
  BY DEF BaseIs, Control, CallsIn, Phases
<1>4. /\ Len(guards) \in Nat /\ guards' \in Seq(Things)
      /\ \A i \in 1 .. Len(guards) :
             guards[i] = IF i <= base THEN Own[i] ELSE Local[i - base]
      /\ owned' = Contents(guards')
  BY <1>1, LenProperties DEF Stack
<1>5. \A i \in 1 .. Len(guards') :
          guards'[i] = IF i <= base' THEN Own[i] ELSE (Local')[i - base']
  BY <1>1, <1>2, <1>4
<1>6. Len(guards') <= base' + Len(Local')
  BY <1>1, <1>2, <1>3, <1>4, OwnFacts
<1> QED BY <1>1, <1>2, <1>4, <1>5, <1>6 DEF Stack

\* The last guard drops and gives back what it owns.
LEMMA StackPops ==
    ASSUME Stack, BaseIs, Control, phase \in Phases, Len(guards) > base,
           guards' = Front(guards), owned' = owned \ {Last(guards)},
           base' = base, UNCHANGED activation,
           call \in DOMAIN Chain => result # "none"
    PROVE  Stack'
<1>1. call' = call /\ taken' = taken /\ result' = result
  BY DEF activation
<1>2. Local' = Local
  BY <1>1 DEF Local
<1>3. /\ base \in Nat /\ Len(guards) \in Nat
      /\ Len(guards) <= base + Len(Local)
      /\ \A i \in 1 .. Len(guards) :
             guards[i] = IF i <= base THEN Own[i] ELSE Local[i - base]
  BY LenProperties DEF Stack
<1>4. guards # << >>
  BY <1>3
<1>5. /\ guards' \in Seq(Things) /\ Len(guards') = Len(guards) - 1
      /\ \A i \in 1 .. Len(guards) - 1 : guards'[i] = guards[i]
      /\ owned' = Contents(guards')
  BY <1>4, Dropped
<1>6. Len(Local) \in Nat
  BY DEF Local, Own, GdiChain
<1>7. /\ base' \in Nat /\ base' <= Len(guards')
      /\ Len(guards') <= base' + Len(Local')
  BY <1>2, <1>3, <1>5, <1>6
<1>8. \A i \in 1 .. Len(guards') :
          guards'[i] = IF i <= base' THEN Own[i] ELSE (Local')[i - base']
  BY <1>2, <1>3, <1>5
<1> QED BY <1>1, <1>5, <1>7, <1>8 DEF Stack

\* The running function takes what comes next in it.
LEMMA StackPushes ==
    ASSUME Stack, NEW STATE b, b \in Seq(Things),
           owned' = owned \cup ToSet(b), guards' = guards \o b,
           base' = base, call' = call, result' = result,
           Len(guards) + Len(b) <= base + Len(Local),
           \A i \in 1 .. Len(b) : b[i] = Local[Len(guards) - base + i],
           (call \in DOMAIN Chain /\ result = "none") =>
               Len(guards) + Len(b) = base + HeldAfter(taken)'
    PROVE  Stack'
<1>1. Local' = Local
  BY DEF Local
<1>2. /\ guards \in Seq(Things) /\ Len(b) \in Nat
      /\ base \in Nat /\ Len(guards) \in Nat /\ base <= Len(guards)
      /\ \A i \in 1 .. Len(guards) :
             guards[i] = IF i <= base THEN Own[i] ELSE Local[i - base]
      /\ owned = Contents(guards)
  BY LenProperties DEF Stack
<1>3. /\ guards' \in Seq(Things) /\ Len(guards') = Len(guards) + Len(b)
      /\ \A i \in 1 .. Len(guards) : guards'[i] = guards[i]
      /\ \A i \in Len(guards) + 1 .. Len(guards) + Len(b) :
             guards'[i] = b[i - Len(guards)]
      /\ owned' = Contents(guards')
  <2> DEFINE g == guards \o b
  <2>1. /\ g \in Seq(Things) /\ Len(g) = Len(guards) + Len(b)
        /\ \A i \in 1 .. Len(guards) : g[i] = guards[i]
        /\ \A i \in Len(guards) + 1 .. Len(guards) + Len(b) :
               g[i] = b[i - Len(guards)]
    <3>1. g \in Seq(Things) /\ Len(g) = Len(guards) + Len(b)
      BY <1>2, Pushing
    <3>2. \A i \in 1 .. Len(guards) : g[i] = guards[i]
      BY <1>2, Pushing
    <3>3. ASSUME NEW i \in Len(guards) + 1 .. Len(guards) + Len(b)
          PROVE  g[i] = b[i - Len(guards)]
      BY <1>2, Pushing
    <3> QED BY <3>1, <3>2, <3>3
  <2>4. Contents(g) = Contents(guards) \cup ToSet(b)
    BY <1>2, Pushing
  <2>2. guards' = g
    OBVIOUS
  <2>3. owned' = Contents(g)
    BY <1>2, <2>4
  <2> HIDE DEF g
  <2> QED BY <2>1, <2>2, <2>3
<1>4. ASSUME NEW i \in 1 .. Len(guards')
      PROVE  guards'[i] = IF i <= base' THEN Own[i] ELSE (Local')[i - base']
  <2>1. CASE i <= Len(guards)
    BY <2>1, <1>1, <1>2, <1>3
  <2>2. CASE i > Len(guards)
    <3> DEFINE l == Len(guards)
               m == Len(b)
    <3>4. /\ l \in Nat /\ m \in Nat /\ base \in Nat /\ base <= l
          /\ i \in 1 .. l + m /\ i > l
      BY <2>2, <1>2, <1>3
    <3> HIDE DEF l, m
    <3>5. /\ i - l \in 1 .. m /\ l - base + (i - l) = i - base /\ ~(i <= base)
          /\ i \in l + 1 .. l + m
      BY ONLY <3>4
    <3>1. /\ i - Len(guards) \in 1 .. Len(b)
          /\ Len(guards) - base + (i - Len(guards)) = i - base /\ ~(i <= base)
          /\ i \in Len(guards) + 1 .. Len(guards) + Len(b)
      BY ONLY <3>5 DEF l, m
    <3>2. guards'[i] = b[i - Len(guards)]
      BY <3>1, <1>3
    <3>3. b[i - Len(guards)] = Local[Len(guards) - base + (i - Len(guards))]
      BY <3>1
    <3> QED BY <3>1, <3>2, <3>3, <1>1
  <2> QED BY <2>1, <2>2, <1>2, <1>3
<1>5. /\ base' \in Nat /\ base' <= Len(guards')
      /\ Len(guards') <= base' + Len(Local')
  <2>1. base <= Len(guards) + Len(b)
    BY <1>2
  <2> QED BY <2>1, <1>1, <1>2, <1>3, Zenon
<1> QED BY <1>1, <1>2, <1>3, <1>4, <1>5 DEF Stack

\* What run() holds between two functions.
LEMMA OwnHeld ==
    ASSUME Stack, call = "none"
    PROVE  /\ base >= 4 => "device" \in owned
           /\ base = 1 => owned = {"log"}
           /\ base = 0 => guards = << >> /\ owned = {}
<1>1. Len(guards) = base /\ base \in Nat /\ guards \in Seq(Things)
  BY Settled DEF Stack
<1>2. \A i \in 1 .. base : guards[i] = Own[i]
  BY <1>1 DEF Stack
<1>3. owned = {guards[i] : i \in 1 .. base}
  BY <1>1 DEF Stack, Contents
<1>4. ASSUME base >= 4
      PROVE  "device" \in owned
  BY <1>1, <1>2, <1>3, <1>4, OwnFacts
<1>5. ASSUME base = 1
      PROVE  owned = {"log"}
  BY <1>1, <1>2, <1>3, <1>5, OwnFacts
<1>6. ASSUME base = 0
      PROVE  guards = << >> /\ owned = {}
  BY <1>1, <1>3, <1>6, EmptySeq
<1> QED BY <1>4, <1>5, <1>6

LEMMA BaseHolds == Init => BaseIs
BY DEF Init, BaseIs

LEMMA BaseStays ==
    ASSUME ProbeInv, [Next]_vars
    PROVE  BaseIs'
<1> USE DEF BaseIs
<1> SUFFICES ASSUME Next PROVE BaseIs'
  BY DEF vars, ProbeInv
<1>o. mode' = mode /\ wake' = wake
  BY DEF Next, options
<1>c. Control /\ BaseIs /\ Stack /\ phase \in Phases
  BY DEF ProbeInv, TypeOK
<1>r. call = "none" => Len(guards) = base
  BY <1>c, Settled
<1>b. base \in Nat
  BY <1>c DEF Stack
<1>1. CASE ListDisplays \/ Acquire \/ Refuse \/ BlitAndRead \/ PointerOnly \/ CopyOut
  BY <1>1, <1>o, <1>c, ChainFacts
     DEF ListDisplays, Acquire, Refuse, BlitAndRead, PointerOnly, CopyOut, In,
         Return, activation, stack, Control, CallsIn
<1>2. CASE Built
  <2>1. base = 1
    BY <1>2, <1>c DEF Built, In
  <2> QED BY <2>1, <1>2, <1>o, <1>c DEF Built, In, Return, Control, CallsIn, Phases
<1>3. CASE DropGdi \/ DropCom \/ DropWindow \/ DropLogger
  BY <1>3, <1>o, <1>c DEF DropGdi, DropCom, DropWindow, DropLogger, activation
<1>4. CASE LookUpDisplay
  BY <1>4, <1>o, <1>c DEF LookUpDisplay, Returned, Enter, Quit, Control, CallsIn
<1>5. CASE OpenLog
  <2>1. base = 0 /\ guards = << >> /\ call = "none"
    BY <1>5, <1>c, OwnHeld DEF OpenLog, Control, CallsIn
  <2>2. base' = 1
    BY <2>1, <1>5 DEF OpenLog
  <2>3. result = "none"
    BY <2>1, <1>c DEF Control, ResultsOf
  <2> QED BY <2>2, <2>3, <1>5, <1>o DEF OpenLog
<1>6. CASE Bootstrap
  <2>1. base = 1 /\ Len(guards) = 1
    BY <1>6, <1>c DEF Bootstrap, Returned
  <2>2. mode = "hybrid"
    BY <1>6, <1>c DEF Bootstrap, Returned, Control, CallsIn, Phases
  <2> QED BY <2>1, <2>2, <1>6, <1>o DEF Bootstrap, Enter
<1>7. CASE CreateCapturer
  BY <1>7, <1>o, <1>c DEF CreateCapturer, Returned, Enter, Quit
<1>8. CASE CreateWakeWindow
  <2>1. base = 4 /\ Len(guards) = 4 /\ call = "none" /\ guards \in Seq(Things)
    BY <1>8, <1>c, <1>r DEF CreateWakeWindow, Control, CallsIn, Stack
  <2>2. base' \in {4, 5}
    <3>1. "window" \in Things
      BY DEF Things
    <3>2. Len(Append(guards, "window")) = Len(guards) + 1
      BY <2>1, <3>1, AppendProperties, Zenon
    <3>3. guards' \in {Append(guards, "window"), guards}
      BY <1>8 DEF CreateWakeWindow
    <3> QED BY <2>1, <3>2, <3>3, <1>8 DEF CreateWakeWindow
  <2> QED BY <2>1, <2>2, <1>8, <1>o DEF CreateWakeWindow, activation
<1>9. CASE Attempt \/ EndNudge
  BY <1>9, <1>o, <1>c DEF Attempt, EndNudge, stack, activation, Control, CallsIn
<1>10. CASE CallFrame
  <2>1. call = "none"
    BY <1>10, <1>c DEF CallFrame, Control, CallsIn
  <2> QED BY <2>1, <1>10, <1>o, <1>c, <1>r DEF CallFrame, Enter
<1>11. CASE HandleFrame \/ HandleNothing \/ HandleError
  <2>1. base \in {4, 5} /\ Len(guards) = base /\ phase = "loop"
    BY <1>11, <1>c
       DEF HandleFrame, HandleNothing, HandleError, Returned, Control, CallsIn, Phases
  <2>2. (HandleFrame /\ pending) => mode # "hybrid"
    BY <1>c, ProbeInv DEF ProbeInv, Picture
  <2> QED BY <2>1, <2>2, <1>11, <1>o
       DEF HandleFrame, HandleNothing, HandleError, Enter, AfterError
<1>12. CASE SavePicture
  <2>1. call = "none" /\ Len(guards) = base
    BY <1>12, <1>c, <1>r DEF SavePicture, Control, CallsIn
  <2>2. base >= 4 => "device" \in owned
    BY <2>1, <1>c, OwnHeld
  <2>3. base = 1 => "device" \notin owned
    BY <2>1, <1>c, OwnHeld
  <2> QED BY <2>1, <2>2, <2>3, <1>12, <1>o, <1>c
          DEF SavePicture, stack, activation, Enter
<1>13. CASE Summarise
  BY <1>13, <1>o, <1>c DEF Summarise, stack, activation
<1>14. CASE FinalFlush \/ Fail \/ Kill \/ End
  BY <1>14, <1>o, <1>c, ProbeAssumption
     DEF FinalFlush, Fail, Kill, End, Quit, stack, Control, CallsIn, ResultsOf
<1>15. CASE Tick \/ MoveCursor
  BY <1>15, <1>o, <1>c DEF Tick, MoveCursor, stack, activation
<1> QED
  BY <1>1, <1>2, <1>3, <1>4, <1>5, <1>6, <1>7, <1>8, <1>9, <1>10, <1>11, <1>12,
     <1>13, <1>14, <1>15 DEF Next, Functions, Run

\* What run() itself takes goes on top of what it holds.
LEMMA StackGrows ==
    ASSUME Stack, BaseIs, call = "none", base \in 0 .. 4,
           owned' = owned \cup {Own[base + 1]},
           guards' = Append(guards, Own[base + 1]), base' = Len(guards'),
           taken' = 0 \/ call' \notin DOMAIN Chain
    PROVE  Stack'
<1>1. /\ Len(guards) = base /\ guards \in Seq(Things)
      /\ \A i \in 1 .. base : guards[i] = Own[i]
      /\ owned = Contents(guards)
  BY Settled DEF Stack
<1> DEFINE b == <<Own[base + 1]>>
<1>2. Own[base + 1] \in Things
  BY OwnFacts DEF Things
<1>3. b \in Seq(Things) /\ Len(b) = 1 /\ ToSet(b) = {Own[base + 1]}
      /\ b[1] = Own[base + 1]
  BY <1>2 DEF ToSet
<1>4. guards' = guards \o b
  BY <1>1, <1>2, AppendIsConcat
<1> HIDE DEF b
<1>s. guards \in Seq(Things) /\ b \in Seq(Things)
  BY <1>1, <1>3
<1>5. guards \o b \in Seq(Things) /\ Len(guards \o b) = Len(guards) + Len(b)
  BY ONLY <1>s, Pushing
<1>6. \A i \in 1 .. Len(guards) : (guards \o b)[i] = guards[i]
  BY ONLY <1>s, Pushing
<1>7. \A i \in Len(guards) + 1 .. Len(guards) + Len(b) :
          (guards \o b)[i] = b[i - Len(guards)]
  BY ONLY <1>s, Pushing
<1>8. Contents(guards \o b) = Contents(guards) \cup ToSet(b)
  BY ONLY <1>s, Pushing
<1>9. Len(guards') = base + 1 /\ base' = base + 1 /\ guards' \in Seq(Things)
  BY <1>1, <1>3, <1>4, <1>5
<1>10. ASSUME NEW i \in 1 .. base + 1
       PROVE  guards'[i] = Own[i]
  <2>1. CASE i = base + 1
    <3>1. i - Len(guards) = 1 /\ i \in Len(guards) + 1 .. Len(guards) + Len(b)
      BY <2>1, <1>1, <1>3
    <3> QED BY <2>1, <3>1, <1>3, <1>4, <1>7
  <2>2. CASE i # base + 1
    BY <2>2, <1>1, <1>4, <1>6
  <2> QED BY <2>1, <2>2
<1>11. Len(Local') \in Nat
  BY DEF Local, Own, GdiChain
<1>12. call' \in DOMAIN Chain => HeldAfter(taken)' = 0
  BY DEF HeldAfter
<1>13. owned' = Contents(guards')
  BY <1>1, <1>3, <1>4, <1>8
<1>14. \A i \in 1 .. Len(guards') :
           guards'[i] = IF i <= base' THEN Own[i] ELSE (Local')[i - base']
  BY <1>9, <1>10
<1>15. base' <= Len(guards') /\ Len(guards') <= base' + Len(Local')
  BY <1>9, <1>11
<1>16. call' \in DOMAIN Chain => Len(guards') = base' + HeldAfter(taken)'
  BY <1>9, <1>12
<1>17. base' \in Nat
  BY <1>9
<1> QED BY <1>9, <1>13, <1>14, <1>15, <1>16, <1>17, Zenon DEF Stack

\* Moving the fields of the capturer to the caller reorders the stack.
LEMMA StackIsBuilt ==
    ASSUME Stack, BaseIs, Built
    PROVE  Stack'
<1>1. /\ call = "create" /\ result = "none" /\ taken = 6 /\ base = 1
      /\ guards' = SubSeq(guards, 1, base) \o
                   <<"duplication", "context", "device">> \o
                   SubSeq(guards, base + 1, base + 4)
      /\ base' = base + 3 /\ owned' = owned
      /\ call' = "create" /\ result' = "ok"
  BY ChainFacts DEF Built, In, Return, BaseIs
<1>2. Len(guards) = 8 /\ guards \in Seq(Things)
  BY <1>1, ChainFacts DEF Stack, HeldAfter
<1>3. \A i \in 1 .. 8 : guards[i] = IF i <= 1 THEN Own[i] ELSE Local[i - 1]
  BY <1>1, <1>2 DEF Stack
<1>4. /\ guards[1] = "log" /\ guards[2] = "factory" /\ guards[3] = "adapter"
      /\ guards[4] = "output" /\ guards[5] = "output1" /\ guards[6] = "device"
      /\ guards[7] = "context" /\ guards[8] = "duplication"
  <2>1. Local = <<"factory", "adapter", "output", "output1", "device",
                  "context", "duplication">>
    BY <1>1 DEF Local
  <2> QED BY <1>3, <2>1 DEF Own
<1>6. /\ guards' \in Seq(Things) /\ Len(guards') = 8
      /\ guards'[1] = "log" /\ guards'[2] = "duplication"
      /\ guards'[3] = "context" /\ guards'[4] = "device"
      /\ guards'[5] = "factory" /\ guards'[6] = "adapter"
      /\ guards'[7] = "output" /\ guards'[8] = "output1"
  <2> DEFINE p == SubSeq(guards, 1, 1)
             q == SubSeq(guards, 2, 5)
             m == <<"duplication", "context", "device">>
  <2>1. guards' = (p \o m) \o q
    BY <1>1
  <2>2. \A i \in 1 .. 8 : guards[i] \in Things
    BY <1>4 DEF Things
  <2>3. p \in Seq(Things) /\ Len(p) = 1 /\ p[1] = "log"
    BY <1>4, <2>2, SubSeqProperties
  <2>4. q \in Seq(Things) /\ Len(q) = 4
    BY <2>2, SubSeqProperties
  <2>5. q[1] = guards[2] /\ q[2] = guards[3] /\ q[3] = guards[4]
        /\ q[4] = guards[5]
    BY <2>2, SubSeqProperties
  <2>6. /\ m \in Seq(Things) /\ Len(m) = 3
        /\ m[1] = "duplication" /\ m[2] = "context" /\ m[3] = "device"
    BY DEF Things
  <2> HIDE DEF p, q, m
  <2>7. /\ p \o m \in Seq(Things) /\ Len(p \o m) = 4
        /\ (p \o m)[1] = "log" /\ (p \o m)[2] = "duplication"
        /\ (p \o m)[3] = "context" /\ (p \o m)[4] = "device"
    <3>1. p \o m \in Seq(Things) /\ Len(p \o m) = Len(p) + Len(m)
      BY ONLY <2>3, <2>6, Pushing
    <3>2. \A i \in 1 .. Len(p) : (p \o m)[i] = p[i]
      BY ONLY <2>3, <2>6, Pushing
    <3>3. \A i \in Len(p) + 1 .. Len(p) + Len(m) : (p \o m)[i] = m[i - Len(p)]
      BY ONLY <2>3, <2>6, Pushing
    <3> QED BY ONLY <3>1, <3>2, <3>3, <2>3, <2>6
  <2>8. /\ (p \o m) \o q \in Seq(Things) /\ Len((p \o m) \o q) = 8
        /\ \A i \in 1 .. 4 : ((p \o m) \o q)[i] = (p \o m)[i]
        /\ ((p \o m) \o q)[5] = q[1] /\ ((p \o m) \o q)[6] = q[2]
        /\ ((p \o m) \o q)[7] = q[3] /\ ((p \o m) \o q)[8] = q[4]
    <3> DEFINE r == p \o m
    <3>1. r \in Seq(Things) /\ Len(r) = 4
      BY <2>7
    <3> HIDE DEF r
    <3>2. r \o q \in Seq(Things) /\ Len(r \o q) = Len(r) + Len(q)
      BY ONLY <2>4, <3>1, Pushing
    <3>3. \A i \in 1 .. Len(r) : (r \o q)[i] = r[i]
      BY ONLY <2>4, <3>1, Pushing
    <3>4. \A i \in Len(r) + 1 .. Len(r) + Len(q) : (r \o q)[i] = q[i - Len(r)]
      BY ONLY <2>4, <3>1, Pushing
    <3>5. /\ r \o q \in Seq(Things) /\ Len(r \o q) = 8
          /\ \A i \in 1 .. 4 : (r \o q)[i] = r[i]
          /\ (r \o q)[5] = q[1] /\ (r \o q)[6] = q[2]
          /\ (r \o q)[7] = q[3] /\ (r \o q)[8] = q[4]
      BY ONLY <3>1, <3>2, <3>3, <3>4, <2>4
    <3> QED BY <3>5 DEF r
  <2>9. /\ ((p \o m) \o q)[5] = "factory" /\ ((p \o m) \o q)[6] = "adapter"
        /\ ((p \o m) \o q)[7] = "output" /\ ((p \o m) \o q)[8] = "output1"
    BY ONLY <2>5, <2>8, <1>4
  <2> QED BY ONLY <2>1, <2>7, <2>8, <2>9
<1>7. Local' = <<"factory", "adapter", "output", "output1">>
  BY <1>1 DEF Local
<1>8. guards' \in Seq(Things) /\ Len(guards') = 8 /\ base' = 4
  BY <1>1, <1>6
<1>9. \A i \in 1 .. 8 :
          guards'[i] = IF i <= 4 THEN Own[i] ELSE (Local')[i - 4]
  BY <1>6, <1>7 DEF Own
<1>10. owned' = Contents(guards')
  <2>1. Contents(guards) = {"log", "factory", "adapter", "output", "output1",
                            "device", "context", "duplication"}
    BY <1>2, <1>4 DEF Contents
  <2>2. Contents(guards') = {"log", "factory", "adapter", "output", "output1",
                             "device", "context", "duplication"}
    BY <1>6 DEF Contents
  <2> QED BY <2>1, <2>2, <1>1 DEF Stack
<1>11. Len(Local') = 4
  BY <1>7
<1> QED BY <1>1, <1>8, <1>9, <1>10, <1>11 DEF Stack

\* The bitmap drops after the selection: it can be deleted by then.
LEMMA Deselected ==
    ASSUME Stack, BaseIs, Control, phase \in Phases,
           Len(guards) > base, Last(guards) = "bitmap"
    PROVE  "selection" \notin owned
<1>1. /\ Len(guards) \in Nat /\ base \in Nat
      /\ Len(guards) <= base + Len(Local)
      /\ \A i \in 1 .. Len(guards) :
             guards[i] = IF i <= base THEN Own[i] ELSE Local[i - base]
      /\ owned = Contents(guards)
  BY LenProperties DEF Stack
<1>2. guards[Len(guards)] = "bitmap" /\ Len(guards) - base \in 1 .. Len(Local)
  <2>1. Len(Local) \in Nat
    BY DEF Local, Own, GdiChain
  <2> QED BY <1>1, <2>1 DEF Last
<1>3. Local[Len(guards) - base] = "bitmap"
  BY <1>1, <1>2
<1>4. call \in {"none", "list", "gdi", "create", "frame", "run"}
  BY DEF Control, CallsIn
<1>5. call = "gdi"
  <2>1. call # "none"
    BY <1>2, LocalFacts
  <2>2. call # "list"
    BY <1>2, <1>3, LocalFacts
  <2>3. call # "create"
    BY <1>2, <1>3, LocalFacts
  <2>4. call # "frame"
    BY <1>2, <1>3, LocalFacts
  <2>5. call # "run"
    BY <1>2, <1>3, LocalFacts, OwnFacts
  <2> QED BY <1>4, <2>1, <2>2, <2>3, <2>4, <2>5
<1>6. base = 1 /\ Len(Local) = 4
  BY <1>5, LocalFacts DEF BaseIs
<1>7. Len(guards) = 4
  BY <1>1, <1>2, <1>3, <1>5, <1>6, LocalFacts
<1>8. /\ guards[1] = "log" /\ guards[2] = "screen" /\ guards[3] = "memory"
      /\ guards[4] = "bitmap"
  <2>1. \A i \in 1 .. 4 : guards[i] = IF i <= 1 THEN Own[i] ELSE Local[i - 1]
    BY <1>1, <1>6, <1>7
  <2>2. /\ guards[1] = Own[1] /\ guards[2] = Local[1] /\ guards[3] = Local[2]
        /\ guards[4] = Local[3]
    BY ONLY <2>1
  <2> QED BY <2>2, <1>5, LocalFacts, OwnFacts
<1> QED BY <1>1, <1>7, <1>8 DEF Contents

LEMMA StackHolds == Init => Stack
<1> SUFFICES ASSUME Init PROVE Stack
  OBVIOUS
<1>1. guards = << >> /\ owned = {} /\ base = 0 /\ call = "list"
  BY DEF Init
<1>2. guards \in Seq(Things) /\ Len(guards) = 0 /\ Len(Local) = 3
  BY <1>1, LocalFacts
<1>3. Contents(guards) = {}
  BY <1>2 DEF Contents
<1> QED BY <1>1, <1>2, <1>3, ChainFacts DEF Stack

LEMMA StackStays ==
    ASSUME ProbeInv, [Next]_vars
    PROVE  Stack'
<1>c. Control /\ BaseIs /\ Stack /\ phase \in Phases
  BY DEF ProbeInv, TypeOK
<1> SUFFICES ASSUME Next PROVE Stack'
  BY <1>c, StackKept DEF vars, stack, activation
<1>r. call = "none" => Len(guards) = base
  BY <1>c, Settled
<1>1. CASE ListDisplays
  <2>0. /\ call = "list" /\ result = "none" /\ base' = base /\ base = 0
        /\ Len(Local) = 3 /\ call \notin DOMAIN Chain
    BY <1>1, <1>c, LocalFacts, ChainFacts DEF ListDisplays, In, BaseIs
  <2>1. /\ guards \in Seq(Things) /\ Len(guards) \in 0 .. 3
        /\ \A i \in 1 .. Len(guards) : guards[i] = Local[i]
    <3>1. /\ Len(guards) \in Nat /\ guards \in Seq(Things)
          /\ Len(guards) <= base + Len(Local)
          /\ \A i \in 1 .. Len(guards) :
                 guards[i] = IF i <= base THEN Own[i] ELSE Local[i - base]
      BY <1>c, LenProperties DEF Stack
    <3>2. \A i \in 1 .. Len(guards) : ~(i <= base) /\ i - base = i
      BY <2>0
    <3>3. \A i \in 1 .. Len(guards) : guards[i] = Local[i]
      BY <3>1, <3>2
    <3>4. Len(guards) <= 3
      BY <3>1, <2>0
    <3>5. \A n \in Nat : n <= 3 => n \in 0 .. 3
      OBVIOUS
    <3> QED BY ONLY <3>1, <3>3, <3>4, <3>5
  <2> DEFINE inside == IF guards = << >> THEN "list" ELSE Last(guards)
             next == [list |-> "factory", factory |-> "adapter",
                      adapter |-> "output"]
  <2>2. /\ guards = << >> => Len(guards) = 0 /\ inside = "list"
        /\ guards # << >> => Len(guards) \in 1 .. 3 /\ inside = Local[Len(guards)]
    BY <2>1, EmptySeq DEF Last
  <2>3. CASE inside \in DOMAIN next /\ Take(next[inside]) /\ UNCHANGED activation
    <3>1. Len(guards) < 3 /\ next[inside] = Local[Len(guards) + 1]
          /\ next[inside] \in {"factory", "adapter", "output"}
      <4>1. /\ next["list"] = "factory" /\ next["factory"] = "adapter"
            /\ next["adapter"] = "output"
            /\ DOMAIN next = {"list", "factory", "adapter"}
        OBVIOUS
      <4>2. /\ Local[1] = "factory" /\ Local[2] = "adapter"
            /\ Local[3] = "output"
        BY <2>0 DEF Local
      <4> HIDE DEF next, inside
      <4>3. \/ Len(guards) = 0 /\ inside = "list"
            \/ Len(guards) = 1 /\ inside = "factory"
            \/ Len(guards) = 2 /\ inside = "adapter"
            \/ Len(guards) = 3 /\ inside = "output"
        <5>1. CASE guards = << >>
          BY <5>1, <2>2
        <5>2. CASE guards # << >>
          <6>1. Len(guards) = 1 \/ Len(guards) = 2 \/ Len(guards) = 3
            BY <5>2, <2>2
          <6> QED BY <5>2, <6>1, <2>2, <4>2
        <5> QED BY <5>1, <5>2
      <4>4. inside \in {"list", "factory", "adapter"}
        BY <2>3, <4>1
      <4>5. \/ Len(guards) = 0 /\ inside = "list"
            \/ Len(guards) = 1 /\ inside = "factory"
            \/ Len(guards) = 2 /\ inside = "adapter"
        BY <4>3, <4>4
      <4>6. CASE Len(guards) = 0 /\ inside = "list"
        BY ONLY <4>1, <4>2, <4>6
      <4>7. CASE Len(guards) = 1 /\ inside = "factory"
        BY ONLY <4>1, <4>2, <4>7
      <4>8. CASE Len(guards) = 2 /\ inside = "adapter"
        BY ONLY <4>1, <4>2, <4>8
      <4> QED BY ONLY <4>5, <4>6, <4>7, <4>8
    <3> DEFINE b == <<next[inside]>>
    <3>2. Brings(next[inside]) = b
      BY <3>1 DEF Brings
    <3>3. b \in Seq(Things) /\ Len(b) = 1 /\ b[1] = Local[Len(guards) + 1]
      BY <3>1 DEF Things
    <3>4. owned' = owned \cup ToSet(b) /\ guards' = guards \o b
      BY <2>3, <3>2 DEF Take, Guarded
    <3> HIDE DEF b
    <3>5. Len(guards) + Len(b) <= base + Len(Local)
      BY <2>0, <2>1, <3>1, <3>3
    <3>6. \A i \in 1 .. Len(b) : b[i] = Local[Len(guards) - base + i]
      BY <2>0, <2>1, <3>3
    <3>7. call' = call /\ result' = result
      BY <2>3 DEF activation
    <3>8. call \notin DOMAIN Chain /\ base' = base
      BY <2>0
    <3> QED
      BY ONLY <1>c, <3>3, <3>4, <3>5, <3>6, <3>7, <3>8, StackPushes
  <2>4. CASE /\ inside \in {"adapter", "output"}
             /\ guards' = Front(guards) /\ owned' = owned \ {inside}
             /\ UNCHANGED activation
    <3>1. guards # << >>
      BY <2>4
    <3>2. Len(guards) > base /\ inside = Last(guards)
      BY <3>1, <2>0, <2>2
    <3>3. /\ owned' = owned \ {Last(guards)} /\ guards' = Front(guards)
          /\ base' = base /\ UNCHANGED activation /\ call \notin DOMAIN Chain
      BY <2>0, <2>4, <3>2
    <3> QED BY ONLY <1>c, <3>2, <3>3, StackPops
  <2>5. CASE \E r \in {"ok", "error"} : Return(r) /\ UNCHANGED <<owned, guards>>
    <3>1. call' = call /\ result' # "none" /\ UNCHANGED stack
      BY <2>0, <2>5 DEF Return, stack
    <3> QED BY <3>1, <1>c, <2>0, StackReturns
  <2> QED BY <1>1, <2>3, <2>4, <2>5 DEF ListDisplays
<1>2. CASE Acquire
  <2>1. /\ call \in DOMAIN Chain /\ result = "none" /\ taken < Len(Chain[call])
        /\ Take(Chain[call][taken + 1]) /\ taken' = taken + 1
        /\ base' = base /\ call' = call /\ result' = result
    BY <1>2 DEF Acquire, In
  <2>2. taken \in Nat
    BY DEF ProbeInv, TypeOK
  <2> DEFINE b == Brings(Chain[call][taken + 1])
             h == HeldAfter(taken)
  <2>3. /\ b \in Seq(Things) /\ Len(b) \in Nat /\ h \in Nat
        /\ HeldAfter(taken + 1) = h + Len(b)
        /\ HeldAfter(taken + 1) <= Len(Local)
        /\ \A i \in 1 .. Len(b) : b[i] = Local[h + i]
    BY <2>1, <2>2, Brought
  <2>4. HeldAfter(taken)' = HeldAfter(taken + 1)
    BY <2>1 DEF HeldAfter
  <2>5. Len(guards) = base + h /\ base \in Nat
    BY <1>c, <2>1 DEF Stack
  <2>6. owned' = owned \cup ToSet(b) /\ guards' = guards \o b
    BY <2>1 DEF Take, Guarded
  <2>7. Len(Local) \in Nat
    BY DEF Local, Own, GdiChain
  <2> HIDE DEF b, h
  <2>8. /\ Len(guards) + Len(b) <= base + Len(Local)
        /\ Len(guards) - base = h
        /\ Len(guards) + Len(b) = base + HeldAfter(taken)'
    BY <2>3, <2>4, <2>5, <2>7
  <2> QED BY <1>c, <2>1, <2>3, <2>6, <2>8, StackPushes
<1>3. CASE Refuse \/ BlitAndRead \/ PointerOnly \/ CopyOut
  <2>1. /\ UNCHANGED stack /\ result = "none" /\ call' = call
        /\ result' # "none" /\ (call = "create" => result' # "ok")
    BY <1>3, ChainFacts DEF Refuse, BlitAndRead, PointerOnly, CopyOut, In, Return
  <2> QED BY <2>1, <1>c, StackReturns
<1>4. CASE Built
  BY <1>4, <1>c, StackIsBuilt
<1>5. CASE DropGdi \/ DropCom \/ DropWindow \/ DropLogger
  <2>1. /\ Len(guards) > base /\ guards' = Front(guards) /\ base' = base
        /\ UNCHANGED activation /\ result # "none"
    BY <1>5 DEF DropGdi, DropCom, DropWindow, DropLogger
  <2>2. owned' = owned \ {Last(guards)}
    <3>1. CASE DropGdi
      BY <3>1, <2>1, <1>c, Deselected DEF DropGdi
    <3>2. CASE DropCom \/ DropWindow \/ DropLogger
      BY <3>2 DEF DropCom, DropWindow, DropLogger
    <3> QED BY <1>5, <3>1, <3>2
  <2> QED BY <2>1, <2>2, <1>c, StackPops
<1>6. CASE Attempt \/ EndNudge \/ Summarise \/ Tick \/ MoveCursor
  BY <1>6, <1>c, StackKept DEF Attempt, EndNudge, Summarise, Tick, MoveCursor
<1>7. CASE CallFrame \/ HandleFrame \/ HandleNothing \/ HandleError
  <2>1. Len(guards) = base
    BY <1>7, <1>c, <1>r
       DEF CallFrame, HandleFrame, HandleNothing, HandleError, Returned,
           Control, CallsIn
  <2>2. (Enter("frame") \/ Enter("none")) /\ owned' = owned /\ guards' = guards
    BY <1>7 DEF CallFrame, HandleFrame, HandleNothing, HandleError
  <2> QED BY <2>1, <2>2, <1>c, StackEnters
<1>8. CASE LookUpDisplay \/ Bootstrap \/ CreateCapturer
  <2>1. Len(guards) = base
    BY <1>8 DEF LookUpDisplay, Bootstrap, CreateCapturer, Returned
  <2>2. \/ /\ Enter("none") \/ Enter("create")
           /\ owned' = owned /\ guards' = guards
        \/ Quit("done") \/ Quit("failed")
    BY <1>8 DEF LookUpDisplay, Bootstrap, CreateCapturer
  <2> QED BY <2>1, <2>2, <1>c, StackEnters, StackQuits
<1>9. CASE SavePicture
  <2>1. Len(guards) = base
    BY <1>9, <1>c, <1>r DEF SavePicture, Control, CallsIn
  <2>2. \/ UNCHANGED stack /\ UNCHANGED activation
        \/ Enter("create") /\ owned' = owned /\ guards' = guards
    BY <1>9 DEF SavePicture
  <2> QED BY <2>1, <2>2, <1>c, StackEnters, StackKept
<1>10. CASE FinalFlush \/ Fail
  <2>1. Len(guards) = base
    BY <1>10, <1>c, <1>r DEF FinalFlush, Fail, Returned, Control, CallsIn
  <2>2. Quit("done") \/ Quit("failed")
    BY <1>10 DEF FinalFlush, Fail
  <2> QED BY <2>1, <2>2, <1>c, StackQuits
<1>11. CASE OpenLog
  <2>1. base = 0 /\ call = "none" /\ taken = 0
    BY <1>11, <1>c DEF OpenLog, Control, CallsIn, BaseIs
  <2>2. /\ Own[base + 1] = "log" /\ base \in 0 .. 4
        /\ owned' = owned \cup {Own[base + 1]}
        /\ guards' = Append(guards, Own[base + 1])
        /\ base' = Len(guards') /\ taken' = 0
    BY <1>11, <2>1, OwnFacts DEF OpenLog
  <2> QED BY <2>1, <2>2, <1>c, StackGrows
<1>12. CASE CreateWakeWindow
  <2>1. base = 4 /\ call = "none" /\ Len(guards) = base
    BY <1>12, <1>c, <1>r DEF CreateWakeWindow, Control, CallsIn, BaseIs
  <2>2. base' = Len(guards') /\ UNCHANGED activation
    BY <1>12 DEF CreateWakeWindow
  <2>3. CASE UNCHANGED <<owned, guards>>
    BY <2>1, <2>2, <2>3, <1>c, StackKept DEF stack
  <2>4. CASE /\ owned' = owned \cup {"window"}
             /\ guards' = Append(guards, "window")
    <3>1. Own[base + 1] = "window" /\ base \in 0 .. 4
      BY <2>1, OwnFacts
    <3>2. call' \notin DOMAIN Chain
      BY <2>1, <2>2, ChainFacts DEF activation
    <3> QED BY <2>1, <2>2, <2>4, <3>1, <3>2, <1>c, StackGrows
  <2> QED BY <1>12, <2>3, <2>4 DEF CreateWakeWindow
<1>13. CASE End
  <2>1. /\ guards = << >> /\ base = 0 /\ UNCHANGED stack
        /\ call' = "none"
    BY <1>13, <1>c DEF End, Control, CallsIn, BaseIs
  <2>2. Local' = << >> /\ "none" \notin DOMAIN Chain
    BY <2>1, ChainFacts DEF Local
  <2> QED BY <2>1, <2>2, <1>c DEF Stack, stack
<1>14. CASE Kill
  <2>1. owned' = {} /\ guards' = << >> /\ base' = 0 /\ call' = "none"
    BY <1>14 DEF Kill
  <2>2. Local' = << >> /\ "none" \notin DOMAIN Chain
    BY <2>1, ChainFacts DEF Local
  <2>3. guards' \in Seq(Things) /\ Len(guards') = 0 /\ Contents(guards') = {}
    BY <2>1 DEF Contents
  <2> QED BY <2>1, <2>2, <2>3 DEF Stack
<1> QED
  BY <1>1, <1>2, <1>3, <1>4, <1>5, <1>6, <1>7, <1>8, <1>9, <1>10, <1>11, <1>12,
     <1>13, <1>14 DEF Next, Functions, Run

-----------------------------------------------------------------------------
(* The clock, the cursor and the picture.                                   *)

LEMMA PhaseOfFrame ==
    ASSUME Control, phase \in Phases, call = "frame"
    PROVE  phase = "loop"
BY DEF Control, CallsIn, Phases

LEMMA TimesHold == Init => Times
BY DEF Init, Times

LEMMA TimesStay ==
    ASSUME ProbeInv, [Next]_vars
    PROVE  Times'
<1> USE DEF Times
<1>c. Control /\ Times /\ phase \in Phases
  BY DEF ProbeInv, TypeOK
<1>p. call = "frame" => phase = "loop"
  BY <1>c, PhaseOfFrame
<1>t. now \in Nat /\ called \in Nat /\ Duration \in Nat
  BY ProbeAssumption DEF ProbeInv, TypeOK
<1> SUFFICES ASSUME Next PROVE Times'
  BY <1>c DEF vars
<1>1. CASE ListDisplays \/ Acquire \/ Refuse \/ BlitAndRead \/ Built \/ PointerOnly
           \/ CopyOut
  BY <1>1, <1>c
     DEF ListDisplays, Acquire, Refuse, BlitAndRead, Built, PointerOnly, CopyOut,
         In, Return, activation, clock
<1>2. CASE DropGdi \/ DropCom \/ DropWindow \/ DropLogger
  BY <1>2, <1>c DEF DropGdi, DropCom, DropWindow, DropLogger, activation, clock
<1>3. CASE LookUpDisplay \/ OpenLog \/ Bootstrap \/ CreateCapturer
           \/ CreateWakeWindow
  BY <1>3, <1>c
     DEF LookUpDisplay, OpenLog, Bootstrap, CreateCapturer, CreateWakeWindow,
         Enter, Quit, activation, clock
<1>4. CASE Attempt \/ EndNudge
  BY <1>4, <1>c, <1>p DEF Attempt, EndNudge, activation, clock
<1>5. CASE CallFrame
  <2>1. now < Duration
    BY <1>5, <1>c DEF CallFrame
  <2>2. called' <= Duration /\ phase' = "loop"
    BY <2>1, <1>5, <1>t DEF CallFrame
  <2> QED BY <2>2
<1>6. CASE HandleFrame \/ HandleNothing \/ HandleError \/ SavePicture
  BY <1>6, <1>c, <1>p
     DEF HandleFrame, HandleNothing, HandleError, SavePicture, Returned, Enter,
         activation, clock, AfterError
<1>7. CASE Summarise \/ FinalFlush \/ Fail \/ End
  BY <1>7, <1>c DEF Summarise, FinalFlush, Fail, End, Quit, activation, clock,
                    Control, CallsIn, ResultsOf
<1>8. CASE Tick
  BY <1>8, <1>c, <1>p DEF Tick, In, activation
<1>9. CASE MoveCursor \/ Kill
  BY <1>9, <1>c DEF MoveCursor, Kill, activation, clock
<1> QED
  BY <1>1, <1>2, <1>3, <1>4, <1>5, <1>6, <1>7, <1>8, <1>9 DEF Next, Functions, Run

LEMMA NudgeHolds == Init => Nudge
BY DEF Init, Nudge, CursorPutBack, Near

\* A step that leaves the cursor, the attempts and the nudge alone.
LEMMA NudgeKept ==
    ASSUME ProbeInv, UNCHANGED pointer, count'.attempts = count.attempts,
           phase' = "nudge" <=> phase = "nudge",
           phase = "killed" => phase' = "killed"
    PROVE  Nudge'
<1> USE DEF Nudge, CursorPutBack, Near, pointer
<1> QED BY DEF ProbeInv

LEMMA NudgeStays ==
    ASSUME ProbeInv, [Next]_vars
    PROVE  Nudge'
<1>c. Control /\ Nudge /\ phase \in Phases
  BY DEF ProbeInv, TypeOK
<1>k. count \in [attempts : 0 .. MaxAttempts, frames : 0 .. MaxAttempts,
                  timeouts : 0 .. MaxAttempts, access_lost : 0 .. 1]
  BY DEF ProbeInv, TypeOK
<1>t. /\ refused \in Nat /\ count.attempts \in Nat /\ cursor \in Int
      /\ wanted \in Int /\ point \in Int /\ fate \in {"kept", "within", "lost"}
  BY ProbeAssumption DEF ProbeInv, TypeOK
<1> SUFFICES ASSUME Next PROVE Nudge'
  BY NudgeKept DEF vars, pointer
<1>1. CASE ListDisplays \/ Acquire \/ Refuse \/ BlitAndRead \/ Built \/ PointerOnly
           \/ CopyOut
  BY <1>1, NudgeKept
     DEF ListDisplays, Acquire, Refuse, BlitAndRead, Built, PointerOnly, CopyOut
<1>2. CASE DropGdi \/ DropCom \/ DropWindow \/ DropLogger
  BY <1>2, NudgeKept DEF DropGdi, DropCom, DropWindow, DropLogger
<1>3. CASE LookUpDisplay \/ OpenLog \/ Bootstrap \/ CreateCapturer
           \/ CreateWakeWindow
  BY <1>3, <1>c, NudgeKept
     DEF LookUpDisplay, OpenLog, Bootstrap, CreateCapturer, CreateWakeWindow,
         Returned, Quit, Control, CallsIn, Phases
<1>4. CASE Attempt
  <2>1. /\ phase = "loop" /\ UNCHANGED <<wanted, fate, refused>>
        /\ count'.attempts = count.attempts + 1
        /\ \/ /\ phase' = "nudge" /\ point' = cursor
              /\ cursor' \in {cursor} \cup ({cursor + 1} \cap 0 .. Edge)
           \/ phase' = "capture" /\ UNCHANGED <<point, cursor>>
    BY <1>4, <1>k DEF Attempt
  <2>2. fate = "kept" => Near(cursor)
    BY <1>c, <1>t, <2>1 DEF Nudge, CursorPutBack, Near
  <2> QED BY <1>c, <1>t, <2>1, <2>2 DEF Nudge, CursorPutBack, Near
<1>5. CASE EndNudge
  <2>1. /\ phase = "nudge" /\ phase' = "capture"
        /\ UNCHANGED <<wanted, point, count>>
        /\ \/ /\ cursor' = point /\ refused' = refused
              /\ fate' = IF fate = "within" THEN "lost" ELSE fate
           \/ /\ cursor' = cursor
              /\ fate' = IF fate = "within" THEN "kept" ELSE fate
              /\ refused' = IF fate = "within" THEN refused ELSE refused + 1
    BY <1>5 DEF EndNudge
  <2> QED BY <1>c, <1>t, <2>1 DEF Nudge, CursorPutBack, Near
<1>6. CASE CallFrame \/ HandleFrame \/ HandleNothing \/ HandleError
  <2>1. count'.attempts = count.attempts
    BY <1>6, <1>k DEF CallFrame, HandleFrame, HandleNothing, HandleError
  <2> QED BY <1>6, <1>c, <2>1, NudgeKept
          DEF CallFrame, HandleFrame, HandleNothing, HandleError, Returned,
              AfterError, Control, CallsIn, Phases
<1>7. CASE SavePicture
  BY <1>7, NudgeKept DEF SavePicture
<1>8. CASE Summarise \/ FinalFlush \/ Fail \/ End
  BY <1>8, <1>c, NudgeKept DEF Summarise, FinalFlush, Fail, End, Quit, Returned,
                    Control, CallsIn, ResultsOf, Phases
<1>9. CASE Tick
  BY <1>9, NudgeKept DEF Tick
<1>10. CASE MoveCursor
  <2>1. /\ phase' = phase /\ phase # "killed" /\ count' = count
        /\ cursor' \in 0 .. Edge /\ wanted' = cursor' /\ refused' = 0
        /\ fate' = IF phase = "nudge" THEN "within" ELSE "kept"
    BY <1>10 DEF MoveCursor, clock
  <2>2. cursor' \in Int /\ wanted' \in Int
    BY <2>1, ProbeAssumption
  <2>3. refused' + (IF phase' = "nudge" THEN 1 ELSE 0) <= count'.attempts
    BY <1>c, <1>t, <2>1 DEF Nudge
  <2>4. cursor' = wanted' /\ refused' = 0
    BY <2>1
  <2>5. CursorPutBack'
    <3>1. \A p \in Int : p \in p .. p + 0
      OBVIOUS
    <3>2. wanted' \in wanted' .. wanted' + 0
      BY <2>2, <3>1
    <3>3. cursor' \in wanted' .. wanted' + refused'
      BY <2>4, <3>2
    <3> QED BY <3>3 DEF CursorPutBack
  <2>6. fate' = "within" => phase' = "nudge"
    BY <2>1
  <2>7. fate' = "kept" => phase' # "nudge"
    BY <2>1
  <2> QED BY <2>1, <2>3, <2>5, <2>6, <2>7 DEF Nudge
<1>11. CASE Kill
  BY <1>11, <1>c, <1>t DEF Kill, Ended, Nudge, CursorPutBack, Near, pointer
<1> QED
  BY <1>1, <1>2, <1>3, <1>4, <1>5, <1>6, <1>7, <1>8, <1>9, <1>10, <1>11
     DEF Next, Functions, Run

LEMMA PictureHolds == Init => Picture
<1> SUFFICES ASSUME Init PROVE Picture
  OBVIOUS
<1>1. mode # "dxgi" => ~pending
  BY DEF Init
<1>2. phase = "displays" /\ count.frames = 0 /\ saved.part = "none"
  BY DEF Init
<1> QED BY <1>1, <1>2 DEF Picture

LEMMA PictureStays ==
    ASSUME ProbeInv, [Next]_vars
    PROVE  Picture'
<1> USE DEF Picture, Leaving
<1>c. Control /\ Picture /\ BaseIs /\ Stack /\ phase \in Phases /\ pending \in BOOLEAN
  BY DEF ProbeInv, TypeOK
<1>k. /\ count \in [attempts : 0 .. MaxAttempts, frames : 0 .. MaxAttempts,
                    timeouts : 0 .. MaxAttempts, access_lost : 0 .. 1]
      /\ saved \in [frame : 0 .. MaxAttempts, part : {"none", "partial", "whole"}]
  BY DEF ProbeInv, TypeOK
<1> SUFFICES ASSUME Next PROVE Picture'
  BY <1>c DEF vars
<1>o. mode' = mode
  BY DEF Next, options
<1>1. CASE ListDisplays \/ Acquire \/ Refuse \/ BlitAndRead \/ Built \/ PointerOnly
           \/ CopyOut
  BY <1>1, <1>c, <1>o, ChainFacts
     DEF ListDisplays, Acquire, Refuse, BlitAndRead, Built, PointerOnly, CopyOut,
         In, Return, activation, picture, Control, CallsIn
<1>2. CASE DropGdi \/ DropCom \/ DropWindow \/ DropLogger
  BY <1>2, <1>c, <1>o
     DEF DropGdi, DropCom, DropWindow, DropLogger, activation, picture
<1>3. CASE LookUpDisplay \/ OpenLog \/ Bootstrap
  BY <1>3, <1>c, <1>o
     DEF LookUpDisplay, OpenLog, Bootstrap, Returned, Enter, Quit, picture,
         Control, CallsIn, Phases
<1>4. CASE CreateCapturer \/ CreateWakeWindow
  BY <1>4, <1>c, <1>o
     DEF CreateCapturer, CreateWakeWindow, Returned, Enter, Quit, activation,
         picture, Control, CallsIn, Phases
<1>5. CASE Attempt
  <2>1. count'.frames = count.frames
    BY <1>5, <1>k DEF Attempt
  <2> QED BY <2>1, <1>5, <1>c, <1>o DEF Attempt, picture
<1>6. CASE EndNudge \/ CallFrame
  BY <1>6, <1>c, <1>o DEF EndNudge, CallFrame, picture
<1>7. CASE HandleFrame
  <2>1. phase = "loop" /\ count'.frames = count.frames + 1 /\ saved' = saved
    BY <1>7, <1>c, <1>k, PhaseOfFrame DEF HandleFrame, Returned
  <2>2. mode \in {"dxgi", "hybrid"}
    BY <2>1, <1>c DEF Control
  <2>3. CASE pending /\ SaveFirst
    <3>1. phase' = "save" /\ pending' = pending /\ count'.frames = 1
      BY <2>1, <2>3, <1>7, <1>c DEF HandleFrame
    <3> QED BY <2>1, <2>2, <2>3, <3>1, <1>c, <1>o
  <2>4. CASE ~(pending /\ SaveFirst)
    <3>1. phase' = "loop" /\ pending' = FALSE
      BY <2>4, <1>7 DEF HandleFrame
    <3> QED BY <2>1, <3>1, <1>c, <1>o
  <2> QED BY <2>3, <2>4
<1>8. CASE HandleNothing \/ HandleError
  <2>1. count'.frames = count.frames
    BY <1>8, <1>k DEF HandleNothing, HandleError
  <2>2. phase = "loop"
    BY <1>8, <1>c, PhaseOfFrame DEF HandleNothing, HandleError, Returned
  <2> QED BY <2>1, <2>2, <1>8, <1>c, <1>o
          DEF HandleNothing, HandleError, Enter, picture, AfterError
<1>9. CASE SavePicture
  <2>1. phase = "save" /\ call = "none" /\ mode \in {"dxgi", "hybrid"}
        /\ count' = count
    BY <1>9, <1>c DEF SavePicture, Control, CallsIn
  <2>2. mode = "dxgi" => "device" \in owned
    BY <2>1, <1>c, OwnHeld DEF BaseIs
  <2>3. CASE saved.part # "partial"
    <3>1. /\ saved' = [frame |-> count.frames, part |-> "partial"]
          /\ pending' = pending /\ phase' = phase
      BY <2>3, <1>9 DEF SavePicture
    <3> QED BY <2>1, <3>1, <1>c, <1>o
  <2>4. CASE saved.part = "partial"
    <3>1. /\ saved'.frame = saved.frame /\ saved'.part = "whole"
          /\ \/ pending' = FALSE /\ phase' = "loop"
             \/ "device" \notin owned /\ pending' = pending /\ phase' = "create"
      BY <2>4, <1>9, <1>k DEF SavePicture, PendingAfter
    <3> QED BY <2>1, <2>2, <2>4, <3>1, <1>c, <1>o
  <2> QED BY <2>3, <2>4
<1>10. CASE Summarise \/ FinalFlush
  BY <1>10, <1>c, <1>o DEF Summarise, FinalFlush, Quit, picture
<1>11. CASE Fail \/ End
  BY <1>11, <1>c, <1>o
     DEF Fail, End, Quit, picture, Control, CallsIn, ResultsOf
<1>12. CASE Tick \/ MoveCursor \/ Kill
  BY <1>12, <1>c, <1>o DEF Tick, MoveCursor, Kill, picture, activation
<1> QED
  BY <1>1, <1>2, <1>3, <1>4, <1>5, <1>6, <1>7, <1>8, <1>9, <1>10, <1>11, <1>12
     DEF Next, Functions, Run

-----------------------------------------------------------------------------
(* The log and its counters.                                                *)

\* One event more, and nothing else in the log changed.
LEMMA Emitted ==
    ASSUME log \in Seq(EventNames), NEW x \in EventNames, Emit(x), NEW e
    PROVE  /\ log' \in Seq(EventNames) /\ Len(log') = Len(log) + 1
           /\ \A k \in 1 .. Len(log) : log'[k] = log[k]
           /\ log'[Len(log) + 1] = x
           /\ x \in e => Cardinality(Written(e)') = Cardinality(Written(e)) + 1
           /\ x \notin e => Cardinality(Written(e)') = Cardinality(Written(e))
<1>1. log' = Append(log, x)
  BY DEF Emit
<1>2. /\ Append(log, x) \in Seq(EventNames) /\ Len(Append(log, x)) = Len(log) + 1
      /\ \A k \in 1 .. Len(log) : Append(log, x)[k] = log[k]
      /\ Append(log, x)[Len(log) + 1] = x
  BY Appending
<1>3. /\ x \in e => Cardinality(Positions(Append(log, x), e)) =
                        Cardinality(Positions(log, e)) + 1
      /\ x \notin e => Cardinality(Positions(Append(log, x), e)) =
                           Cardinality(Positions(log, e))
  BY OneMore
<1> QED BY <1>1, <1>2, <1>3 DEF Written

LEMMA TalliedHolds == Init => Tallied
<1> SUFFICES ASSUME Init PROVE Tallied
  OBVIOUS
<1>1. log = << >> /\ log \in Seq(EventNames) /\ Len(log) = 0
  BY DEF Init
<1>2. \A e : Written(e) = {}
  BY <1>1 DEF Written, Positions
<1>3. \A e : Cardinality(Written(e)) = 0
  BY <1>2, FS_EmptySet
<1>4. phase = "displays" /\ call = "list" /\ count.attempts = 0
      /\ count.frames = 0 /\ count.timeouts = 0 /\ count.access_lost = 0
  BY DEF Init
<1> QED BY <1>1, <1>3, <1>4 DEF Tallied, InAttempt, Leaving

\* Nothing is logged and nothing counted.
LEMMA TalliedKept ==
    ASSUME Tallied, log' = log, count' = count,
           InAttempt' => InAttempt,
           (~InAttempt /\ ~Leaving)' => ~InAttempt /\ ~Leaving
    PROVE  Tallied'
<1>1. \A e : Written(e)' = Written(e)
  BY DEF Written
<1>2. /\ Written({"frame"})' = Written({"frame"})
      /\ Written({"timeout"})' = Written({"timeout"})
      /\ Written({"access_lost"})' = Written({"access_lost"})
      /\ Written(Results)' = Written(Results)
  BY DEF Written, Results
<1> QED BY <1>2 DEF Tallied

\* An event that is not an attempt's is logged between two attempts.
LEMMA TalliedAside ==
    ASSUME Tallied, ~InAttempt, ~Leaving, ~InAttempt',
           NEW x, x \in EventNames \ Results, Emit(x), count' = count
    PROVE  Tallied'
<1>1. log \in Seq(EventNames)
  BY DEF Tallied
<1>2. x \notin {"frame"} /\ x \notin {"timeout"} /\ x \notin {"access_lost"}
  BY DEF Results
<1>3. /\ log' \in Seq(EventNames)
      /\ Cardinality(Written({"frame"})') = Cardinality(Written({"frame"}))
  BY <1>1, <1>2, Emitted
<1>4. Cardinality(Written({"timeout"})') = Cardinality(Written({"timeout"}))
  BY <1>1, <1>2, Emitted
<1>5. Cardinality(Written({"access_lost"})') = Cardinality(Written({"access_lost"}))
  BY <1>1, <1>2, Emitted
<1>6. Cardinality(Written(Results)') = Cardinality(Written(Results))
  BY <1>1, Emitted
<1>7. count.attempts = Cardinality(Written(Results))
  BY DEF Tallied
<1>8. /\ count.frames = Cardinality(Written({"frame"}))
      /\ count.timeouts = Cardinality(Written({"timeout"}))
      /\ count.access_lost = Cardinality(Written({"access_lost"}))
      /\ count.attempts >= Cardinality(Written(Results))
  BY DEF Tallied
<1> QED BY <1>3, <1>4, <1>5, <1>6, <1>7, <1>8 DEF Tallied

\* An attempt ends with its event.
LEMMA TalliedOne ==
    ASSUME Tallied, InAttempt, ~InAttempt', result \in Results, Emit(result),
           count \in [attempts : 0 .. MaxAttempts, frames : 0 .. MaxAttempts,
                      timeouts : 0 .. MaxAttempts, access_lost : 0 .. 1],
           count'.attempts = count.attempts,
           count'.frames = IF result = "frame" THEN count.frames + 1
                                               ELSE count.frames,
           count'.timeouts = IF result = "timeout" THEN count.timeouts + 1
                                                   ELSE count.timeouts,
           count'.access_lost = IF result = "access_lost"
                                  THEN count.access_lost + 1
                                  ELSE count.access_lost
    PROVE  Tallied'
<1>1. log \in Seq(EventNames) /\ result \in EventNames
  BY DEF Tallied, EventNames
<1>2. /\ count.frames = Cardinality(Written({"frame"}))
      /\ count.timeouts = Cardinality(Written({"timeout"}))
      /\ count.access_lost = Cardinality(Written({"access_lost"}))
      /\ count.attempts = Cardinality(Written(Results)) + 1
  BY DEF Tallied
<1>3. log' \in Seq(EventNames)
  BY <1>1, Emitted
<1>4. count'.frames = Cardinality(Written({"frame"})')
  BY <1>1, <1>2, Emitted
<1>5. count'.timeouts = Cardinality(Written({"timeout"})')
  BY <1>1, <1>2, Emitted
<1>6. count'.access_lost = Cardinality(Written({"access_lost"})')
  BY <1>1, <1>2, Emitted
<1>7. Cardinality(Written(Results)') = Cardinality(Written(Results)) + 1
  BY <1>1, Emitted
<1>8. count'.attempts = Cardinality(Written(Results)')
  BY <1>2, <1>7
<1>9. count.attempts \in Nat
  OBVIOUS
<1>10. count'.attempts >= Cardinality(Written(Results)')
  BY <1>8, <1>9
<1> QED BY <1>3, <1>4, <1>5, <1>6, <1>8, <1>10 DEF Tallied

LEMMA TalliedStays ==
    ASSUME ProbeInv, [Next]_vars
    PROVE  Tallied'
<1>c. Control /\ Tallied /\ phase \in Phases
  BY DEF ProbeInv, TypeOK
<1>k. count \in [attempts : 0 .. MaxAttempts, frames : 0 .. MaxAttempts,
                 timeouts : 0 .. MaxAttempts, access_lost : 0 .. 1]
  BY DEF ProbeInv, TypeOK
<1>p. call = "frame" => phase = "loop"
  BY <1>c, PhaseOfFrame
<1> SUFFICES ASSUME Next PROVE Tallied'
  BY <1>c, TalliedKept DEF vars, InAttempt, Leaving
<1>1. CASE ListDisplays \/ Acquire \/ Refuse \/ BlitAndRead \/ Built \/ PointerOnly
           \/ CopyOut
  <2>1. log' = log /\ count' = count /\ phase' = phase /\ call' = call
    BY <1>1 DEF ListDisplays, Acquire, Refuse, BlitAndRead, Built, PointerOnly,
                CopyOut, Return, activation, logged
  <2> QED BY <2>1, <1>c, TalliedKept DEF InAttempt, Leaving
<1>2. CASE DropGdi \/ DropCom \/ DropWindow \/ DropLogger \/ Tick \/ MoveCursor
  <2>1. log' = log /\ count' = count /\ phase' = phase /\ call' = call
    BY <1>2 DEF DropGdi, DropCom, DropWindow, DropLogger, Tick, MoveCursor,
                activation, logged
  <2> QED BY <2>1, <1>c, TalliedKept DEF InAttempt, Leaving
<1>3. CASE LookUpDisplay
  <2>1. /\ phase = "displays" /\ call = "list" /\ log' = log /\ count' = count
        /\ phase' \in {"open", "leave"} /\ call' \in {"none", "run"}
    BY <1>3, <1>c
       DEF LookUpDisplay, Returned, Enter, Quit, logged, Control, CallsIn, Phases
  <2> QED BY <2>1, <1>c, TalliedKept DEF InAttempt, Leaving
<1>4. CASE EndNudge \/ CallFrame \/ SavePicture
  <2>1. log' = log /\ count' = count
    BY <1>4 DEF EndNudge, CallFrame, SavePicture, logged
  <2>2. /\ InAttempt' => InAttempt
        /\ (~InAttempt /\ ~Leaving)' => ~InAttempt /\ ~Leaving
    BY <1>4, <1>c
       DEF EndNudge, CallFrame, SavePicture, Enter, activation, Control, CallsIn,
           InAttempt, Leaving
  <2> QED BY <2>1, <2>2, <1>c, TalliedKept
<1>5. CASE FinalFlush \/ Fail \/ End \/ Kill
  <2>1. log' = log /\ count' = count
    BY <1>5 DEF FinalFlush, Fail, End, Kill, logged
  <2>2. phase' \in {"leave", "done", "failed", "killed"} /\ call' # "frame"
    BY <1>5, <1>c
       DEF FinalFlush, Fail, End, Kill, Quit, Control, CallsIn, ResultsOf
  <2> QED BY <2>1, <2>2, <1>c, TalliedKept DEF InAttempt, Leaving
<1>6. CASE Attempt
  <2>1. /\ log' = log /\ phase = "loop" /\ call = "none"
        /\ phase' \in {"nudge", "capture"} /\ call' = call
        /\ count'.attempts = count.attempts + 1
        /\ count'.frames = count.frames /\ count'.timeouts = count.timeouts
        /\ count'.access_lost = count.access_lost
    BY <1>6, <1>k DEF Attempt, activation, logged
  <2>2. /\ count.frames = Cardinality(Written({"frame"}))
        /\ count.timeouts = Cardinality(Written({"timeout"}))
        /\ count.access_lost = Cardinality(Written({"access_lost"}))
        /\ count.attempts = Cardinality(Written(Results))
        /\ log \in Seq(EventNames)
    BY <2>1, <1>c DEF Tallied, InAttempt, Leaving
  <2>3. /\ Written({"frame"})' = Written({"frame"})
        /\ Written({"timeout"})' = Written({"timeout"})
        /\ Written({"access_lost"})' = Written({"access_lost"})
        /\ Written(Results)' = Written(Results)
    BY <2>1 DEF Written, Results
  <2>4. count.attempts \in Nat
    BY <1>k
  <2>5. /\ count'.attempts = Cardinality(Written(Results)') + 1
        /\ count'.attempts >= Cardinality(Written(Results)')
    BY <2>1, <2>2, <2>3, <2>4
  <2>6. InAttempt'
    BY <2>1 DEF InAttempt
  <2> QED BY <2>1, <2>2, <2>3, <2>5, <2>6 DEF Tallied
<1>7. CASE OpenLog \/ CreateWakeWindow \/ Summarise
  <2>1. PICK x \in {"start", "wake_window_created", "wake_window_error",
                    "summary"} : Emit(x) /\ count' = count
    BY <1>7 DEF OpenLog, CreateWakeWindow, Summarise
  <2>2. ~InAttempt /\ ~Leaving /\ ~InAttempt'
    BY <1>7, <1>c DEF OpenLog, CreateWakeWindow, Summarise, activation, Control,
                      CallsIn, InAttempt, Leaving
  <2>3. x \in EventNames \ Results
    BY DEF EventNames, Results
  <2> QED BY <2>1, <2>2, <2>3, <1>c, TalliedAside
<1>8. CASE Bootstrap
  <2>1. PICK x \in {"gdi_bootstrap", "gdi_bootstrap_error"} :
            Emit(x) /\ count' = count
    BY <1>8 DEF Bootstrap
  <2>2. ~InAttempt /\ ~Leaving /\ ~InAttempt'
    BY <1>8, <1>c DEF Bootstrap, Returned, Enter, Control, CallsIn, Phases,
                      InAttempt, Leaving
  <2>3. x \in EventNames \ Results
    BY DEF EventNames, Results
  <2> QED BY <2>1, <2>2, <2>3, <1>c, TalliedAside
<1>9. CASE CreateCapturer
  <2>1. phase = "create" /\ call = "create"
    BY <1>9, <1>c DEF CreateCapturer, Returned, Control, CallsIn, Phases
  <2>2. CASE result = "ok"
    <3>1. Emit("dxgi_created") /\ count' = count /\ ~InAttempt'
      BY <1>9, <2>2 DEF CreateCapturer, Enter, InAttempt
    <3>2. "dxgi_created" \in EventNames \ Results
      BY DEF EventNames, Results
    <3>3. ~InAttempt /\ ~Leaving
      BY <2>1 DEF InAttempt, Leaving
    <3> QED BY <3>1, <3>2, <3>3, <1>c, TalliedAside
  <2>3. CASE result # "ok"
    <3>1. /\ log' = log /\ count' = count /\ phase' = "leave" /\ call' = "run"
      BY <1>9, <2>3 DEF CreateCapturer, Quit, logged
    <3> QED BY <3>1, <1>c, TalliedKept DEF InAttempt, Leaving
  <2> QED BY <2>2, <2>3
<1>10. CASE HandleFrame \/ HandleNothing \/ HandleError
  <2>1. /\ call = "frame" /\ result \in Results /\ Emit(result)
        /\ phase' \in {"save", "loop", "broken"} /\ call' = "none"
    BY <1>10, <1>p DEF HandleFrame, HandleNothing, HandleError, Returned, Enter,
                       AfterError, Results
  <2>2. InAttempt /\ ~InAttempt'
    BY <2>1 DEF InAttempt
  <2>3. CASE HandleFrame
    <3>1. /\ result = "frame" /\ count'.attempts = count.attempts
          /\ count'.frames = count.frames + 1 /\ count'.timeouts = count.timeouts
          /\ count'.access_lost = count.access_lost
      BY <2>3, <1>k DEF HandleFrame
    <3> QED BY <2>1, <2>2, <3>1, <1>c, <1>k, TalliedOne
  <2>4. CASE HandleNothing
    <3>1. /\ result \in {"timeout", "pointer_only"}
          /\ count'.attempts = count.attempts /\ count'.frames = count.frames
          /\ count'.timeouts = IF result = "timeout" THEN count.timeouts + 1
                                                     ELSE count.timeouts
          /\ count'.access_lost = count.access_lost
      BY <2>4, <1>k DEF HandleNothing
    <3> QED BY <2>1, <2>2, <3>1, <1>c, <1>k, TalliedOne
  <2>5. CASE HandleError
    <3>1. /\ result \in {"access_lost", "hresult_error", "io_error"}
          /\ count'.attempts = count.attempts /\ count'.frames = count.frames
          /\ count'.timeouts = count.timeouts
          /\ count'.access_lost = IF result = "access_lost"
                                    THEN count.access_lost + 1
                                    ELSE count.access_lost
      BY <2>5, <1>k DEF HandleError
    <3> QED BY <2>1, <2>2, <3>1, <1>c, <1>k, TalliedOne
  <2> QED BY <1>10, <2>3, <2>4, <2>5
<1> QED
  BY <1>1, <1>2, <1>3, <1>4, <1>5, <1>6, <1>7, <1>8, <1>9, <1>10
     DEF Next, Functions, Run

LEMMA SummaryHolds == Init => SummaryLast
BY DEF Init, SummaryLast

\* Before the summary phase there is no summary.
LEMMA NoSummaryYet ==
    ASSUME SummaryLast, phase # "flush", ~Leaving
    PROVE  \A k \in 1 .. Len(log) : log[k] # "summary"
BY DEF SummaryLast

\* Without a summary in the log, and none needed, there is nothing to show.
LEMMA NoSummaryThen ==
    ASSUME \A k \in 1 .. Len(log') : log'[k] # "summary",
           phase' \notin {"flush", "leave", "done"}
    PROVE  SummaryLast'
BY DEF SummaryLast

LEMMA NoSummaryAdded ==
    ASSUME SummaryLast, log \in Seq(EventNames), phase # "flush", ~Leaving,
           NEW x, x \in EventNames, x # "summary", Emit(x),
           phase' \notin {"flush", "leave", "done"}
    PROVE  SummaryLast'
<1>1. \A k \in 1 .. Len(log) : log[k] # "summary"
  BY NoSummaryYet
<1>2. /\ Len(log') = Len(log) + 1 /\ Len(log) \in Nat
      /\ \A k \in 1 .. Len(log) : log'[k] = log[k]
      /\ log'[Len(log) + 1] = x
  BY Emitted, LenProperties
<1>3. \A k \in 1 .. Len(log') : log'[k] # "summary"
  BY <1>1, <1>2
<1> QED BY <1>3, NoSummaryThen

LEMMA SummaryStays ==
    ASSUME ProbeInv, [Next]_vars
    PROVE  SummaryLast'
<1>c. Control /\ SummaryLast /\ phase \in Phases /\ log \in Seq(EventNames)
  BY DEF ProbeInv, TypeOK, Tallied
<1>k. count \in [attempts : 0 .. MaxAttempts, frames : 0 .. MaxAttempts,
                 timeouts : 0 .. MaxAttempts, access_lost : 0 .. 1]
  BY DEF ProbeInv, TypeOK
<1>p. call = "frame" => phase = "loop"
  BY <1>c, PhaseOfFrame
<1>n. (phase # "flush" /\ ~Leaving) => \A k \in 1 .. Len(log) : log[k] # "summary"
  BY <1>c, NoSummaryYet
<1> SUFFICES ASSUME Next PROVE SummaryLast'
  <2>1. ASSUME UNCHANGED vars PROVE SummaryLast'
    <3>1. /\ log' = log /\ count' = count /\ phase' = phase /\ mode' = mode
          /\ result' = result /\ durable' = durable
      BY <2>1 DEF vars
    <3>2. Written(Results)' = Written(Results)
      BY <3>1 DEF Written, Results
    <3> QED BY <3>1, <3>2, <1>c DEF SummaryLast, Leaving
  <2> QED BY <2>1
<1>o. mode' = mode
  BY DEF Next, options
<1>w. log' = log => Written(Results)' = Written(Results)
  BY DEF Written, Results
<1>1. CASE ListDisplays \/ Acquire \/ Refuse \/ BlitAndRead \/ Built \/ PointerOnly
           \/ CopyOut \/ Tick
  <2>1. /\ log' = log /\ count' = count /\ phase' = phase
        /\ call \in {"list", "gdi", "create", "frame"}
    BY <1>1, ChainFacts
       DEF ListDisplays, Acquire, Refuse, BlitAndRead, Built, PointerOnly,
           CopyOut, Tick, In, logged
  <2>2. phase # "flush" /\ ~Leaving
    BY <2>1, <1>c DEF Control, CallsIn, Leaving
  <2> QED BY <2>1, <2>2, <1>n, NoSummaryThen DEF Leaving
<1>2. CASE DropGdi \/ DropCom \/ DropWindow \/ DropLogger \/ MoveCursor
  <2>1. /\ log' = log /\ count' = count /\ phase' = phase /\ result' = result
    BY <1>2 DEF DropGdi, DropCom, DropWindow, DropLogger, MoveCursor, activation,
                logged
  <2>2. durable = Len(log) => durable' = Len(log)
    <3>1. CASE DropLogger
      <4>1. durable' \in durable .. Len(log) /\ durable \in Int
        BY <3>1 DEF DropLogger, ProbeInv, TypeOK
      <4>2. Len(log) \in Nat
        BY <1>c, LenProperties
      <4> QED BY <4>1, <4>2
    <3>2. CASE ~DropLogger
      BY <1>2, <3>2 DEF DropGdi, DropCom, DropWindow, MoveCursor, logged
    <3> QED BY <3>1, <3>2
  <2> QED BY <2>1, <2>2, <1>c, <1>o, <1>w DEF SummaryLast, Leaving
<1>3. CASE LookUpDisplay
  <2>1. /\ log' = log /\ phase' \in {"open", "leave"} /\ phase = "displays"
        /\ phase' = "leave" => mode = "list" \/ result' = "failed"
    BY <1>3, <1>c DEF LookUpDisplay, Returned, Quit, logged, Control, CallsIn, Phases
  <2>2. \A k \in 1 .. Len(log) : log[k] # "summary"
    BY <2>1, <1>n DEF Leaving
  <2> QED BY <2>1, <2>2, <1>o DEF SummaryLast, Leaving
<1>4. CASE OpenLog \/ CreateWakeWindow
  <2>1. PICK x \in {"start", "wake_window_created", "wake_window_error"} : Emit(x)
    BY <1>4 DEF OpenLog, CreateWakeWindow
  <2>2. /\ x \in EventNames /\ x # "summary" /\ phase # "flush" /\ ~Leaving
        /\ phase' \notin {"flush", "leave", "done"}
    BY <1>4, <1>c DEF OpenLog, CreateWakeWindow, EventNames, Leaving
  <2> QED BY <2>1, <2>2, <1>c, NoSummaryAdded
<1>5. CASE Bootstrap
  <2>1. PICK x \in {"gdi_bootstrap", "gdi_bootstrap_error"} : Emit(x)
    BY <1>5 DEF Bootstrap
  <2>2. /\ x \in EventNames /\ x # "summary" /\ phase # "flush" /\ ~Leaving
        /\ phase' \notin {"flush", "leave", "done"}
    BY <1>5, <1>c DEF Bootstrap, Returned, Control, CallsIn, EventNames, Leaving
  <2> QED BY <2>1, <2>2, <1>c, NoSummaryAdded
<1>6. CASE CreateCapturer
  <2>1. phase # "flush" /\ ~Leaving
    BY <1>6, <1>c DEF CreateCapturer, Returned, Control, CallsIn, Leaving
  <2>2. CASE result = "ok"
    <3>1. Emit("dxgi_created") /\ phase' \notin {"flush", "leave", "done"}
      BY <1>6, <2>2 DEF CreateCapturer
    <3>2. "dxgi_created" \in EventNames
      BY DEF EventNames
    <3> QED BY <2>1, <3>1, <3>2, <1>c, NoSummaryAdded
  <2>3. CASE result # "ok"
    <3>1. log' = log /\ phase' = "leave" /\ result' = "failed"
      BY <1>6, <2>3 DEF CreateCapturer, Quit, logged
    <3> QED BY <2>1, <3>1, <1>n DEF SummaryLast, Leaving
  <2> QED BY <2>2, <2>3
<1>7. CASE Attempt \/ EndNudge \/ CallFrame \/ SavePicture
  <2>1. /\ log' = log /\ phase # "flush" /\ ~Leaving
        /\ phase' \notin {"flush", "leave", "done"}
    BY <1>7 DEF Attempt, EndNudge, CallFrame, SavePicture, Leaving, logged
  <2> QED BY <2>1, <1>n, NoSummaryThen
<1>8. CASE HandleFrame \/ HandleNothing \/ HandleError
  <2>1. /\ result \in Results /\ Emit(result) /\ phase = "loop"
        /\ phase' \in {"save", "loop", "broken"}
    BY <1>8, <1>p DEF HandleFrame, HandleNothing, HandleError, Returned,
                       AfterError, Results
  <2>2. result \in EventNames /\ result # "summary" /\ ~Leaving
    BY <2>1 DEF EventNames, Results, Leaving
  <2> QED BY <2>1, <2>2, <1>c, NoSummaryAdded
<1>9. CASE Summarise
  <2>1. /\ Emit("summary") /\ phase' = "flush" /\ count' = count
        /\ phase \in {"loop", "broken"} /\ call = "none"
    BY <1>9, <1>c DEF Summarise, Control, CallsIn
  <2>2. "summary" \in EventNames /\ "summary" \notin Results
    BY DEF EventNames, Results
  <2>3. /\ Len(log') = Len(log) + 1 /\ Len(log) \in Nat
        /\ \A k \in 1 .. Len(log) : log'[k] = log[k]
        /\ log'[Len(log) + 1] = "summary" /\ log' \in Seq(EventNames)
    BY <2>1, <2>2, <1>c, Emitted, LenProperties
  <2>4. Cardinality(Written(Results)') = Cardinality(Written(Results))
    BY <2>1, <2>2, <1>c, Emitted
  <2>5. count.attempts = Cardinality(Written(Results))
    BY <2>1 DEF ProbeInv, Tallied, InAttempt, Leaving
  <2>6. \A k \in 1 .. Len(log) : log[k] # "summary"
    BY <2>1, <1>n DEF Leaving
  <2>7. \A k \in 1 .. Len(log') : log'[k] = "summary" => k = Len(log')
    BY <2>3, <2>6
  <2>8. log' # << >> /\ log'[Len(log')] = "summary"
    BY <2>3, EmptySeq
  <2> QED BY <2>1, <2>4, <2>5, <2>7, <2>8 DEF SummaryLast
<1>10. CASE FinalFlush
  <2>1. /\ phase = "flush" /\ log' = log /\ durable' = Len(log) /\ count' = count
        /\ phase' = "leave" /\ result' = "done"
    BY <1>10 DEF FinalFlush, Quit
  <2> QED BY <2>1, <1>c, <1>o, <1>w DEF SummaryLast, Leaving
<1>11. CASE Fail
  <2>1. /\ log' = log /\ count' = count /\ phase' = "leave" /\ result' = "failed"
    BY <1>11 DEF Fail, Quit, logged
  <2> QED BY <2>1, <1>c, <1>o, <1>w DEF SummaryLast, Leaving
<1>12. CASE End
  <2>1. /\ phase = "leave" /\ log' = log /\ count' = count /\ phase' = result
        /\ durable' = durable /\ result \in {"done", "failed"}
    BY <1>12, <1>c DEF End, logged, Control, CallsIn, ResultsOf
  <2> QED BY <2>1, <1>c, <1>o, <1>w DEF SummaryLast, Leaving
<1>13. CASE Kill
  <2>1. /\ log' = log /\ count' = count /\ phase' = "killed"
    BY <1>13 DEF Kill, logged
  <2> QED BY <2>1, <1>c, <1>o, <1>w DEF SummaryLast, Leaving
<1> QED
  BY <1>1, <1>2, <1>3, <1>4, <1>5, <1>6, <1>7, <1>8, <1>9, <1>10, <1>11, <1>12,
     <1>13 DEF Next, Functions, Run

LEMMA ErrorHolds == Init => ErrorLast
BY DEF Init, ErrorLast

\* After an event that is no error, in a phase where none was last, each error
\* still has the summary after it.
LEMMA NoErrorAdded ==
    ASSUME ErrorLast, log \in Seq(EventNames), ~Leaving,
           NEW x, x \in EventNames, Emit(x), x \notin Errors,
           phase = "broken" => x = "summary",
           count'.access_lost = count.access_lost,
           (phase \in {"broken", "flush"} /\ ~Leaving) =>
               phase' \in {"broken", "flush"}
    PROVE  ErrorLast'
<1>1. /\ Len(log') = Len(log) + 1 /\ Len(log) \in Nat
      /\ \A k \in 1 .. Len(log) : log'[k] = log[k]
      /\ log'[Len(log) + 1] = x
  BY Emitted, LenProperties
<1>2. ASSUME NEW k \in 1 .. Len(log'), log'[k] \in Errors
      PROVE  k < Len(log') /\ log'[k + 1] = "summary"
  <2>1. k \in 1 .. Len(log) /\ log[k] \in Errors
    BY <1>1, <1>2
  <2>2. CASE k = Len(log) /\ (phase = "broken" \/ Leaving)
    BY <1>1, <2>1, <2>2
  <2>3. CASE k < Len(log) /\ log[k + 1] = "summary"
    <3>1. k + 1 \in 1 .. Len(log) /\ k < Len(log')
      BY <1>1, <2>1, <2>3
    <3> QED BY <3>1, <2>3, <1>1
  <2> QED BY <2>1, <2>2, <2>3 DEF ErrorLast
<1>3. count'.access_lost # 0 => phase' \in {"broken", "flush"}
  BY DEF ErrorLast
<1> QED BY <1>2, <1>3 DEF ErrorLast

\* The log is left alone and the phase does not go back.
LEMMA ErrorKept ==
    ASSUME ErrorLast, log' = log, count'.access_lost = count.access_lost,
           phase = "broken" \/ Leaving => phase' = "broken" \/ Leaving',
           phase = "flush" => phase' = "flush" \/ Leaving'
    PROVE  ErrorLast'
BY DEF ErrorLast

LEMMA ErrorStays ==
    ASSUME ProbeInv, [Next]_vars
    PROVE  ErrorLast'
<1>c. Control /\ ErrorLast /\ phase \in Phases /\ log \in Seq(EventNames)
  BY DEF ProbeInv, TypeOK, Tallied
<1>k. count \in [attempts : 0 .. MaxAttempts, frames : 0 .. MaxAttempts,
                 timeouts : 0 .. MaxAttempts, access_lost : 0 .. 1]
  BY DEF ProbeInv, TypeOK
<1>p. call = "frame" => phase = "loop"
  BY <1>c, PhaseOfFrame
<1> SUFFICES ASSUME Next PROVE ErrorLast'
  BY <1>c, ErrorKept DEF vars, Leaving
<1>1. CASE ListDisplays \/ Acquire \/ Refuse \/ BlitAndRead \/ Built \/ PointerOnly
           \/ CopyOut \/ Tick \/ MoveCursor
  <2>1. log' = log /\ count' = count /\ phase' = phase
    BY <1>1 DEF ListDisplays, Acquire, Refuse, BlitAndRead, Built, PointerOnly,
                CopyOut, Tick, MoveCursor, logged
  <2> QED BY <2>1, <1>c, ErrorKept DEF Leaving
<1>2. CASE DropGdi \/ DropCom \/ DropWindow \/ DropLogger
  <2>1. log' = log /\ count' = count /\ phase' = phase
    BY <1>2 DEF DropGdi, DropCom, DropWindow, DropLogger, logged
  <2> QED BY <2>1, <1>c, ErrorKept DEF Leaving
<1>3. CASE LookUpDisplay
  <2>1. log' = log /\ count' = count /\ phase = "displays"
    BY <1>3, <1>c DEF LookUpDisplay, Returned, logged, Control, CallsIn, Phases
  <2> QED BY <2>1, <1>c, ErrorKept DEF Leaving
<1>4. CASE OpenLog \/ CreateWakeWindow
  <2>1. PICK x \in {"start", "wake_window_created", "wake_window_error"} : Emit(x)
    BY <1>4 DEF OpenLog, CreateWakeWindow
  <2>2. /\ x \in EventNames /\ x \notin Errors /\ phase \in {"open", "window"}
        /\ count' = count
    BY <1>4 DEF OpenLog, CreateWakeWindow, EventNames, Errors
  <2> QED BY <2>1, <2>2, <1>c, NoErrorAdded DEF Leaving
<1>5. CASE Bootstrap
  <2>1. PICK x \in {"gdi_bootstrap", "gdi_bootstrap_error"} : Emit(x)
    BY <1>5 DEF Bootstrap
  <2>2. /\ x \in EventNames /\ x \notin Errors /\ phase = "gdi" /\ count' = count
    BY <1>5, <1>c DEF Bootstrap, Returned, Control, CallsIn, Phases, EventNames,
                      Errors
  <2> QED BY <2>1, <2>2, <1>c, NoErrorAdded DEF Leaving
<1>6. CASE CreateCapturer
  <2>1. phase = "create" /\ count' = count
    BY <1>6, <1>c DEF CreateCapturer, Returned, Control, CallsIn, Phases
  <2>2. CASE result = "ok"
    <3>1. Emit("dxgi_created")
      BY <1>6, <2>2 DEF CreateCapturer
    <3>2. "dxgi_created" \in EventNames /\ "dxgi_created" \notin Errors
      BY DEF EventNames, Errors
    <3> QED BY <2>1, <3>1, <3>2, <1>c, NoErrorAdded DEF Leaving
  <2>3. CASE result # "ok"
    <3>1. log' = log /\ phase' = "leave"
      BY <1>6, <2>3 DEF CreateCapturer, Quit, logged
    <3> QED BY <2>1, <3>1, <1>c, ErrorKept DEF Leaving
  <2> QED BY <2>2, <2>3
<1>7. CASE Attempt \/ EndNudge \/ CallFrame \/ SavePicture
  <2>1. /\ log' = log /\ count'.access_lost = count.access_lost
        /\ phase \in {"loop", "nudge", "capture", "save"}
    BY <1>7, <1>k DEF Attempt, EndNudge, CallFrame, SavePicture, logged
  <2> QED BY <2>1, <1>c, ErrorKept DEF Leaving
<1>8. CASE HandleFrame \/ HandleNothing
  <2>1. /\ result \in {"frame", "timeout", "pointer_only"} /\ Emit(result)
        /\ phase = "loop" /\ count'.access_lost = count.access_lost
    BY <1>8, <1>p, <1>k DEF HandleFrame, HandleNothing, Returned
  <2>2. result \in EventNames /\ result \notin Errors
    BY <2>1 DEF EventNames, Results, Errors
  <2> QED BY <2>1, <2>2, <1>c, NoErrorAdded DEF Leaving
<1>9. CASE HandleError
  <2>1. /\ result \in Errors /\ Emit(result) /\ phase = "loop" /\ phase' = "broken"
    BY <1>9, <1>p DEF HandleError, Returned, AfterError, Errors
  <2>2. result \in EventNames
    BY <2>1 DEF EventNames, Results, Errors
  <2>3. /\ Len(log') = Len(log) + 1 /\ Len(log) \in Nat
        /\ \A k \in 1 .. Len(log) : log'[k] = log[k]
    BY <2>1, <2>2, <1>c, Emitted, LenProperties
  <2>4. ASSUME NEW k \in 1 .. Len(log'), log'[k] \in Errors
        PROVE  \/ k = Len(log')
               \/ k < Len(log') /\ log'[k + 1] = "summary"
    <3>1. CASE k = Len(log) + 1
      BY <3>1, <2>3
    <3>2. CASE k # Len(log) + 1
      <4>1. k \in 1 .. Len(log) /\ log[k] \in Errors
        BY <3>2, <2>3, <2>4
      <4>2. k < Len(log) /\ log[k + 1] = "summary"
        BY <4>1, <2>1, <1>c DEF ErrorLast, Leaving
      <4>3. k + 1 \in 1 .. Len(log) /\ k < Len(log')
        BY <4>1, <4>2, <2>3
      <4> QED BY <4>2, <4>3, <2>3
    <3> QED BY <3>1, <3>2
  <2> QED BY <2>1, <2>4 DEF ErrorLast
<1>10. CASE Summarise
  <2>1. /\ Emit("summary") /\ phase' = "flush" /\ count' = count
        /\ phase \in {"loop", "broken"}
    BY <1>10 DEF Summarise
  <2>2. "summary" \in EventNames /\ "summary" \notin Errors
    BY DEF EventNames, Errors
  <2> QED BY <2>1, <2>2, <1>c, NoErrorAdded DEF Leaving
<1>11. CASE FinalFlush \/ Fail \/ End \/ Kill
  <2>1. log' = log /\ count' = count
        /\ phase' \in {"leave", "done", "failed", "killed"}
    BY <1>11, <1>c
       DEF FinalFlush, Fail, End, Kill, Quit, logged, Control, CallsIn, ResultsOf
  <2> QED BY <2>1, <1>c, ErrorKept DEF Leaving
<1> QED
  BY <1>1, <1>2, <1>3, <1>4, <1>5, <1>6, <1>7, <1>8, <1>9, <1>10, <1>11
     DEF Next, Functions, Run

-----------------------------------------------------------------------------
(* Types.                                                                   *)

LEMMA TypesHold == Init => TypeOK
<1> SUFFICES ASSUME Init PROVE TypeOK
  OBVIOUS
<1>1. ToSet(guards) \subseteq owned /\ base \in 0 .. Len(guards)
  BY DEF Init, ToSet
<1>2. durable \in 0 .. Len(log)
  BY DEF Init
<1>3. pending \in BOOLEAN
  BY DEF Init
<1>4. taken \in 0 .. Len(CapturerChain)
  BY ChainFacts DEF Init
<1> QED BY <1>1, <1>2, <1>3, <1>4, ProbeAssumption DEF Init, TypeOK, Phases, Results

\* The phase, the clock and the steps of the running function.
PlaceTyped == /\ phase \in Phases
              /\ taken \in 0 .. Len(CapturerChain)
              /\ now \in 0 .. Duration + Timeout + Grace /\ called \in 0 .. now

LEMMA PlaceStaysTyped ==
    ASSUME ProbeInv, [Next]_vars
    PROVE  PlaceTyped'
<1> USE DEF PlaceTyped
<1>c. Control /\ Times /\ PlaceTyped
  BY DEF ProbeInv, TypeOK
<1>t. Duration \in Nat /\ Timeout \in Nat /\ Grace \in Nat
  BY ProbeAssumption
<1>l. Len(CapturerChain) = 6
  BY ChainFacts
<1> SUFFICES ASSUME Next PROVE PlaceTyped'
  BY <1>c DEF vars
<1>1. CASE ListDisplays \/ Refuse \/ BlitAndRead \/ Built \/ PointerOnly \/ CopyOut
  BY <1>1, <1>c
     DEF ListDisplays, Refuse, BlitAndRead, Built, PointerOnly, CopyOut, Return,
         activation, clock
<1>2. CASE Acquire
  <2>1. /\ call \in DOMAIN Chain /\ taken < Len(Chain[call]) /\ taken' = taken + 1
        /\ phase' = phase /\ now' = now /\ called' = called
    BY <1>2 DEF Acquire, In, clock
  <2>2. Len(Chain[call]) \in {4, 6}
    BY <2>1, ChainFacts
  <2>3. taken' \in 0 .. Len(CapturerChain)
    <3>1. taken \in 0 .. 6
      BY <1>c, <1>l
    <3>2. taken < 6
      <4>1. CASE Len(Chain[call]) = 4
        BY <2>1, <4>1, <3>1
      <4>2. CASE Len(Chain[call]) = 6
        BY <2>1, <4>2, <3>1
      <4> QED BY <2>2, <4>1, <4>2
    <3>3. taken + 1 \in 0 .. 6
      BY ONLY <3>1, <3>2
    <3> QED BY <2>1, <3>3, <1>l
  <2> QED BY <2>1, <2>3, <1>c
<1>3. CASE DropGdi \/ DropCom \/ DropWindow \/ DropLogger
  BY <1>3, <1>c DEF DropGdi, DropCom, DropWindow, DropLogger, activation, clock
<1>4. CASE LookUpDisplay \/ OpenLog \/ Bootstrap \/ CreateCapturer
           \/ CreateWakeWindow
  BY <1>4, <1>c, <1>l
     DEF LookUpDisplay, OpenLog, Bootstrap, CreateCapturer, CreateWakeWindow,
         Enter, Quit, activation, clock, Phases
<1>5. CASE Attempt \/ EndNudge
  BY <1>5, <1>c DEF Attempt, EndNudge, activation, clock, Phases
<1>6. CASE CallFrame
  <2>1. /\ phase' = "loop" /\ taken' = 0 /\ now' = now /\ called' = now
    BY <1>6 DEF CallFrame, Enter
  <2>2. now \in 0 .. now
    BY <1>c, <1>t
  <2>3. 0 \in 0 .. Len(CapturerChain)
    BY <1>l
  <2> QED BY <2>1, <2>2, <2>3, <1>c DEF Phases
<1>7. CASE HandleFrame \/ HandleNothing \/ HandleError \/ SavePicture
  <2>1. /\ now' = now /\ called' = called
        /\ phase' \in {phase, "save", "loop", "broken", "create"}
    BY <1>7 DEF HandleFrame, HandleNothing, HandleError, SavePicture, clock,
                AfterError
  <2>2. taken' = 0 \/ taken' = taken
    BY <1>7 DEF HandleFrame, HandleNothing, HandleError, SavePicture, Enter,
                activation
  <2>3. 0 \in 0 .. Len(CapturerChain)
    BY <1>l
  <2> QED BY <2>1, <2>2, <2>3, <1>c DEF Phases
<1>8. CASE Summarise \/ FinalFlush \/ Fail \/ End
  BY <1>8, <1>c DEF Summarise, FinalFlush, Fail, End, Quit, activation, clock,
                    Phases, Control, CallsIn, ResultsOf
<1>9. CASE Tick
  <2>1. /\ call = "frame" /\ now < called + Timeout + Grace /\ now' = now + 1
        /\ called' = called /\ phase' = phase /\ taken' = taken
    BY <1>9 DEF Tick, In, activation
  <2>2. called <= Duration
    BY <2>1, <1>c DEF Times
  <2>3. now \in Nat /\ called \in Nat /\ called <= now
    BY <1>c, <1>t
  <2>4. now + 1 \in 0 .. Duration + Timeout + Grace /\ called \in 0 .. now + 1
    BY <2>1, <2>2, <2>3, <1>t
  <2> QED BY <2>1, <2>4, <1>c
<1>10. CASE MoveCursor \/ Kill
  BY <1>10, <1>c DEF MoveCursor, Kill, activation, clock, Phases
<1> QED
  BY <1>1, <1>2, <1>3, <1>4, <1>5, <1>6, <1>7, <1>8, <1>9, <1>10
     DEF Next, Functions, Run

\* The picture and the cursor.
ThingsTyped ==
    /\ saved \in [frame : 0 .. MaxAttempts, part : {"none", "partial", "whole"}]
    /\ pending \in BOOLEAN
    /\ cursor \in 0 .. Edge /\ wanted \in 0 .. Edge /\ point \in 0 .. Edge
    /\ fate \in {"kept", "within", "lost"} /\ refused \in 0 .. MaxAttempts

LEMMA ThingsStayTyped ==
    ASSUME ProbeInv, [Next]_vars
    PROVE  ThingsTyped'
<1> USE DEF ThingsTyped
<1>c. ThingsTyped
  BY DEF ProbeInv, TypeOK
<1>t. Edge \in Nat
  BY ProbeAssumption
<1>k. count.frames \in 0 .. MaxAttempts
  BY DEF ProbeInv, TypeOK
<1> SUFFICES ASSUME Next PROVE ThingsTyped'
  BY <1>c DEF vars
<1>1. CASE ListDisplays \/ Acquire \/ Refuse \/ BlitAndRead \/ Built \/ PointerOnly
           \/ CopyOut
  BY <1>1, <1>c
     DEF ListDisplays, Acquire, Refuse, BlitAndRead, Built, PointerOnly, CopyOut,
         picture, pointer
<1>2. CASE DropGdi \/ DropCom \/ DropWindow \/ DropLogger
  BY <1>2, <1>c DEF DropGdi, DropCom, DropWindow, DropLogger, picture, pointer
<1>3. CASE LookUpDisplay \/ OpenLog \/ Bootstrap \/ CreateCapturer
           \/ CreateWakeWindow
  BY <1>3, <1>c
     DEF LookUpDisplay, OpenLog, Bootstrap, CreateCapturer, CreateWakeWindow,
         picture, pointer
<1>4. CASE Attempt
  <2>1. cursor' \in 0 .. Edge /\ point' \in 0 .. Edge
    BY <1>4, <1>c, <1>t DEF Attempt
  <2> QED BY <2>1, <1>4, <1>c DEF Attempt, picture
<1>5. CASE EndNudge \/ CallFrame
  <2>1. refused' \in 0 .. MaxAttempts
    <3>1. CASE EndNudge
      <4>1. phase = "nudge" /\ refused' \in {refused, refused + 1}
        BY <3>1 DEF EndNudge
      <4>2. refused + 1 <= count.attempts /\ count.attempts \in 0 .. MaxAttempts
        BY <4>1 DEF ProbeInv, TypeOK, Nudge
      <4> QED BY <4>1, <4>2, <1>c, ProbeAssumption
    <3>2. CASE CallFrame
      BY <3>2, <1>c DEF CallFrame, pointer
    <3> QED BY <1>5, <3>1, <3>2
  <2> QED BY <2>1, <1>5, <1>c DEF EndNudge, CallFrame, picture, pointer
<1>6. CASE HandleFrame \/ HandleNothing \/ HandleError
  <2>1. pending' \in BOOLEAN
    BY <1>6, <1>c DEF HandleFrame, HandleNothing, HandleError, picture
  <2> QED BY <2>1, <1>6, <1>c
          DEF HandleFrame, HandleNothing, HandleError, picture, pointer
<1>7. CASE SavePicture
  <2>1. saved' \in [frame : 0 .. MaxAttempts, part : {"none", "partial", "whole"}]
    <3>1. \/ saved' = [frame |-> count.frames, part |-> "partial"]
          \/ saved' = [saved EXCEPT !.part = "whole"]
      BY <1>7 DEF SavePicture
    <3> QED BY <3>1, <1>c, <1>k
  <2>2. pending' \in BOOLEAN
    BY <1>7, <1>c DEF SavePicture, PendingAfter
  <2> QED BY <2>1, <2>2, <1>7, <1>c DEF SavePicture, pointer
<1>8. CASE Summarise \/ FinalFlush \/ Fail \/ End
  BY <1>8, <1>c DEF Summarise, FinalFlush, Fail, End, picture, pointer
<1>9. CASE Tick \/ Kill
  BY <1>9, <1>c DEF Tick, Kill, picture, pointer
<1>10. CASE MoveCursor
  <2>1. 0 \in 0 .. MaxAttempts
    BY ProbeAssumption
  <2> QED BY <1>10, <1>c, <2>1 DEF MoveCursor, picture
<1> QED
  BY <1>1, <1>2, <1>3, <1>4, <1>5, <1>6, <1>7, <1>8, <1>9, <1>10
     DEF Next, Functions, Run

\* The log's buffer.
LEMMA DurableStaysTyped ==
    ASSUME ProbeInv, [Next]_vars
    PROVE  durable' \in 0 .. Len(log')
<1>c. durable \in 0 .. Len(log) /\ log \in Seq(EventNames) /\ Len(log) \in Nat
  BY LenProperties DEF ProbeInv, TypeOK, Tallied
<1>k. UNCHANGED logged => durable' \in 0 .. Len(log')
  BY <1>c DEF logged
<1>e. ASSUME NEW x, x \in EventNames, Emit(x)
      PROVE  durable' \in 0 .. Len(log')
  <2>1. Len(log') = Len(log) + 1
    BY <1>c, <1>e, Emitted
  <2>2. durable' \in {durable, Len(log)}
    BY <1>e DEF Emit
  <2> QED BY <2>1, <2>2, <1>c
<1> SUFFICES ASSUME Next PROVE durable' \in 0 .. Len(log')
  BY <1>k DEF vars, logged
<1>1. CASE ListDisplays \/ Acquire \/ Refuse \/ BlitAndRead \/ Built \/ PointerOnly
           \/ CopyOut
  BY <1>1, <1>k
     DEF ListDisplays, Acquire, Refuse, BlitAndRead, Built, PointerOnly, CopyOut
<1>2. CASE DropGdi \/ DropCom \/ DropWindow
  BY <1>2, <1>k DEF DropGdi, DropCom, DropWindow
<1>3. CASE DropLogger
  <2>1. durable' \in durable .. Len(log) /\ log' = log
    BY <1>3 DEF DropLogger
  <2> QED BY <2>1, <1>c
<1>4. CASE LookUpDisplay \/ Attempt \/ EndNudge \/ CallFrame \/ SavePicture
  BY <1>4, <1>k DEF LookUpDisplay, Attempt, EndNudge, CallFrame, SavePicture
<1>5. CASE OpenLog \/ Bootstrap \/ CreateWakeWindow \/ Summarise
  <2>1. PICK x \in EventNames : Emit(x)
    BY <1>5 DEF OpenLog, Bootstrap, CreateWakeWindow, Summarise, EventNames
  <2> QED BY <2>1, <1>e
<1>6. CASE CreateCapturer
  <2>1. "dxgi_created" \in EventNames
    BY DEF EventNames
  <2> QED BY <2>1, <1>6, <1>e, <1>k DEF CreateCapturer
<1>7. CASE HandleFrame \/ HandleNothing \/ HandleError
  <2>1. Emit(result) /\ result \in EventNames
    BY <1>7 DEF HandleFrame, HandleNothing, HandleError, EventNames, Results
  <2> QED BY <2>1, <1>e
<1>8. CASE FinalFlush
  <2>1. durable' = Len(log) /\ log' = log
    BY <1>8 DEF FinalFlush
  <2> QED BY <2>1, <1>c
<1>9. CASE Fail \/ End \/ Tick \/ MoveCursor \/ Kill
  BY <1>9, <1>k DEF Fail, End, Tick, MoveCursor, Kill
<1> QED
  BY <1>1, <1>2, <1>3, <1>4, <1>5, <1>6, <1>7, <1>8, <1>9 DEF Next, Functions, Run

\* The counters: each is bounded by the attempts, and access is lost once.
LEMMA CountStaysTyped ==
    ASSUME ProbeInv, [Next]_vars, Tallied'
    PROVE  count' \in [attempts : 0 .. MaxAttempts, frames : 0 .. MaxAttempts,
                       timeouts : 0 .. MaxAttempts, access_lost : 0 .. 1]
<1>c. Control /\ ErrorLast /\ phase \in Phases
  BY DEF ProbeInv, TypeOK
<1>k. count \in [attempts : 0 .. MaxAttempts, frames : 0 .. MaxAttempts,
                 timeouts : 0 .. MaxAttempts, access_lost : 0 .. 1]
  BY DEF ProbeInv, TypeOK
<1>m. MaxAttempts \in Nat
  BY ProbeAssumption
<1>1. count' \in [attempts : 0 .. MaxAttempts, frames : Nat, timeouts : Nat,
                  access_lost : 0 .. 1]
  <2>1. count' = count => count' \in [attempts : 0 .. MaxAttempts, frames : Nat,
                                      timeouts : Nat, access_lost : 0 .. 1]
    BY <1>k, <1>m
  <2>2. CASE Attempt
    <3>1. count.attempts + 1 \in 0 .. MaxAttempts
      BY <2>2, <1>k, <1>m DEF Attempt
    <3> QED BY <2>2, <3>1, <1>k, <1>m DEF Attempt
  <2>3. CASE HandleFrame
    <3>1. count.frames + 1 \in Nat
      BY <1>k, <1>m
    <3> QED BY <2>3, <3>1, <1>k, <1>m DEF HandleFrame
  <2>4. CASE HandleNothing
    <3>1. count.timeouts + 1 \in Nat /\ count.timeouts \in Nat
      BY <1>k, <1>m
    <3> QED BY <2>4, <3>1, <1>k, <1>m DEF HandleNothing
  <2>5. CASE HandleError
    <3>1. phase = "loop"
      BY <2>5, <1>c, PhaseOfFrame DEF HandleError, Returned
    <3>2. count.access_lost = 0
      BY <3>1, <1>c DEF ErrorLast, Leaving
    <3>3. count' = [count EXCEPT !.access_lost = IF result = "access_lost"
                                                   THEN 1 ELSE 0]
      BY <2>5, <3>2 DEF HandleError
    <3> QED BY <3>3, <1>k, <1>m
  <2>6. \/ count' = count \/ Attempt \/ HandleFrame \/ HandleNothing
        \/ HandleError
    <3>1. CASE UNCHANGED vars
      BY <3>1 DEF vars
    <3>2. CASE Functions
      BY <3>2 DEF Functions, ListDisplays, Acquire, Refuse, BlitAndRead, Built,
                  PointerOnly, CopyOut, DropGdi, DropCom, DropWindow, DropLogger
    <3>3. CASE Run
      BY <3>3 DEF Run, LookUpDisplay, OpenLog, Bootstrap, CreateCapturer,
                  CreateWakeWindow, EndNudge, CallFrame, SavePicture, Summarise,
                  FinalFlush, Fail, End
    <3>4. CASE Tick \/ MoveCursor \/ Kill
      BY <3>4 DEF Tick, MoveCursor, Kill
    <3> QED BY <3>1, <3>2, <3>3, <3>4 DEF Next
  <2> QED BY <2>1, <2>2, <2>3, <2>4, <2>5, <2>6
<1> DEFINE c == count'
           l == log'
<1>2. /\ l \in Seq(EventNames)
      /\ c.frames = Cardinality(Positions(l, {"frame"}))
      /\ c.timeouts = Cardinality(Positions(l, {"timeout"}))
      /\ c.attempts >= Cardinality(Positions(l, Results))
  <2>1. /\ Written({"frame"})' = Positions(l, {"frame"})
        /\ Written({"timeout"})' = Positions(l, {"timeout"})
        /\ Written(Results)' = Positions(l, Results)
    BY DEF Written, Results
  <2> QED BY <2>1 DEF Tallied
<1>3. c \in [attempts : 0 .. MaxAttempts, frames : Nat, timeouts : Nat,
             access_lost : 0 .. 1]
  BY <1>1
<1> HIDE DEF c, l
<1>4. {"frame"} \subseteq Results /\ {"timeout"} \subseteq Results
  BY DEF Results
<1>5. Cardinality(Positions(l, {"frame"})) <= Cardinality(Positions(l, Results))
  BY <1>2, <1>4, FewerPositions
<1>6. Cardinality(Positions(l, {"timeout"})) <= Cardinality(Positions(l, Results))
  BY <1>2, <1>4, FewerPositions
<1>7. Cardinality(Positions(l, Results)) \in Nat
  BY <1>2, PositionsFinite
<1>8. c.frames \in 0 .. MaxAttempts /\ c.timeouts \in 0 .. MaxAttempts
  BY <1>2, <1>3, <1>5, <1>6, <1>7, <1>m
<1>9. c \in [attempts : 0 .. MaxAttempts, frames : 0 .. MaxAttempts,
             timeouts : 0 .. MaxAttempts, access_lost : 0 .. 1]
  BY <1>3, <1>8
<1> QED BY <1>9 DEF c

LEMMA TypesStay ==
    ASSUME ProbeInv, [Next]_vars, Control', Stack', Tallied'
    PROVE  TypeOK'
<1>1. mode' \in Modes /\ wake' \in Wakes
  BY DEF ProbeInv, TypeOK, Next, options, vars
<1>2. ToSet(guards') \subseteq owned' /\ base' \in 0 .. Len(guards')
  <2>1. guards' \in Seq(Things) /\ base' \in Nat /\ base' <= Len(guards')
        /\ owned' = Contents(guards') /\ Len(guards') \in Nat
    BY LenProperties DEF Stack
  <2>2. ToSet(guards') = Contents(guards')
    BY <2>1, LenProperties DEF ToSet, Contents
  <2> QED BY <2>1, <2>2
<1>3. PlaceTyped' /\ ThingsTyped' /\ durable' \in 0 .. Len(log')
  BY PlaceStaysTyped, ThingsStayTyped, DurableStaysTyped
<1>4. call' \in {"none", "list", "gdi", "create", "frame", "run"}
      /\ result' \in Results \cup {"none", "ok", "error", "done", "failed"}
  BY <1>3 DEF Control, CallsIn, ResultsOf, PlaceTyped
<1>5. count' \in [attempts : 0 .. MaxAttempts, frames : 0 .. MaxAttempts,
                  timeouts : 0 .. MaxAttempts, access_lost : 0 .. 1]
  BY CountStaysTyped
<1> QED BY <1>1, <1>2, <1>3, <1>4, <1>5 DEF TypeOK, PlaceTyped, ThingsTyped

-----------------------------------------------------------------------------
(* The theorems.                                                            *)

LEMMA ProbeInvariant == Spec => []ProbeInv
<1>1. Init => ProbeInv
  BY TypesHold, ControlHolds, BaseHolds, StackHolds, TimesHold, NudgeHolds,
     PictureHolds, TalliedHolds, SummaryHolds, ErrorHolds DEF ProbeInv
<1>2. ASSUME ProbeInv, [Next]_vars
      PROVE  ProbeInv'
  <2>1. Control' /\ BaseIs' /\ Stack' /\ Times' /\ Nudge' /\ Picture' /\ Tallied'
        /\ SummaryLast' /\ ErrorLast'
    BY <1>2, ControlStays, BaseStays, StackStays, TimesStay, NudgeStays,
       PictureStays, TalliedStays, SummaryStays, ErrorStays
  <2>2. TypeOK'
    BY <1>2, <2>1, TypesStay
  <2> QED BY <2>1, <2>2 DEF ProbeInv
<1> QED BY <1>1, <1>2, PTL DEF Spec

\* Types, and what they say of the code: access is lost at most once, a guard
\* never outlives what it owns, and no counter passes the attempts.
THEOREM ProbeTypes == Spec => []TypeOK
<1>1. ProbeInv => TypeOK
  BY DEF ProbeInv
<1> QED BY <1>1, ProbeInvariant, PTL

\* Whichever call fails, Windows gets back what was built on a thing before the
\* thing itself: the drop order of the guards in capture_gdi_snapshot, in
\* DxgiCapturer::new, in frame() and in run() is right at every early return.
THEOREM ReleasedInOrder == Spec => []ReleaseOrder
<1>1. ASSUME ProbeInv
      PROVE  ReleaseOrder
  <2>c. Control /\ BaseIs /\ Stack /\ phase \in Phases
    BY <1>1 DEF ProbeInv, TypeOK
  <2>n. /\ DOMAIN Needs = {"selection", "map", "resource", "texture", "frame"}
        /\ Needs["selection"] = {"memory", "bitmap"} /\ Needs["map"] = {"readable"}
        /\ Needs["resource"] = {"frame"} /\ Needs["texture"] = {"frame"}
        /\ Needs["frame"] = {"duplication"}
    BY DEF Needs
  <2>s. /\ Len(guards) \in Nat /\ base \in Nat /\ base <= Len(guards)
        /\ Len(guards) <= base + Len(Local)
        /\ \A i \in 1 .. Len(guards) :
               guards[i] = IF i <= base THEN Own[i] ELSE Local[i - base]
        /\ owned = {guards[i] : i \in 1 .. Len(guards)}
    BY <2>c, LenProperties DEF Stack, Contents
  <2>b. base \in 0 .. 5
    BY <2>c DEF BaseIs, Control, CallsIn, Phases
  <2> SUFFICES ASSUME NEW r \in owned, r \in DOMAIN Needs
               PROVE  Needs[r] \subseteq owned
    BY DEF ReleaseOrder
  <2>1. PICK i \in 1 .. Len(guards) : r = guards[i]
    BY <2>s
  <2>2. i > base
    <3>1. ASSUME i <= base PROVE FALSE
      <4>1. r = Own[i] /\ i \in 1 .. 5
        BY <2>1, <2>s, <2>b, <3>1
      <4> QED BY <4>1, <2>n, OwnFacts
    <3> QED BY <3>1, <2>1, <2>b
  <2> DEFINE j == i - base
  <2>3. r = Local[j] /\ j \in 1 .. Len(guards) - base /\ Len(guards) - base <= Len(Local)
    <3>1. Len(Local) \in Nat
      BY DEF Local, Own, GdiChain
    <3> QED BY <2>1, <2>2, <2>s, <3>1
  <2>4. \A m \in 1 .. j : Local[m] \in owned
    <3> TAKE m \in 1 .. j
    <3>1. base + m \in 1 .. Len(guards) /\ (base + m) - base = m
          /\ ~(base + m <= base)
      BY <2>1, <2>3, <2>s
    <3>2. guards[base + m] = Local[m]
      BY <3>1, <2>s
    <3> QED BY <3>1, <3>2, <2>s
  <2> HIDE DEF j
  <2>5. j \in 1 .. Len(Local)
    <3>1. Len(Local) \in Nat
      BY DEF Local, Own, GdiChain
    <3> QED BY <2>3, <2>s, <3>1
  <2>6. call \in {"none", "list", "gdi", "create", "frame", "run"}
    BY <2>c DEF Control, CallsIn
  <2>7. CASE call = "gdi"
    <3>1. j = 4 /\ r = "selection"
      BY <2>3, <2>5, <2>7, <2>n, LocalFacts
    <3>2. Local[2] = "memory" /\ Local[3] = "bitmap"
      BY <2>7, LocalFacts
    <3> QED BY <3>1, <3>2, <2>4, <2>n
  <2>8. CASE call = "frame"
    <3>1. Len(Local) = 5 /\ base >= 4
      BY <2>8, <2>c, LocalFacts DEF BaseIs
    <3>2. \/ j = 1 /\ r = "frame"
          \/ j = 2 /\ r = "resource"
          \/ j = 3 /\ r = "texture"
          \/ j = 5 /\ r = "map"
      BY <2>3, <2>5, <2>8, <2>n, <3>1, LocalFacts
    <3>3. Local[1] = "frame" /\ Local[4] = "readable"
      BY <2>8, LocalFacts
    <3>4. "duplication" \in owned
      <4>1. 2 \in 1 .. Len(guards) /\ guards[2] = Own[2]
        BY <3>1, <2>s
      <4>2. Own[2] = "duplication"
        BY DEF Own
      <4> QED BY <4>1, <4>2, <2>s
    <3>5. "frame" \in owned
      BY <3>2, <3>3, <2>4
    <3>6. j = 5 => "readable" \in owned
      BY <3>3, <2>4
    <3> QED BY <3>2, <3>4, <3>5, <3>6, <2>n
  <2>9. CASE call \in {"none", "list", "create", "run"}
    <3>1. r \notin DOMAIN Needs
      <4>1. CASE call = "none"
        BY <4>1, <2>5, LocalFacts
      <4>2. CASE call = "list"
        BY <4>2, <2>3, <2>5, <2>n, LocalFacts
      <4>3. CASE call = "create"
        BY <4>3, <2>3, <2>5, <2>n, LocalFacts
      <4>4. CASE call = "run"
        BY <4>4, <2>3, <2>5, <2>n, LocalFacts, OwnFacts
      <4> QED BY <2>9, <4>1, <4>2, <4>3, <4>4
    <3> QED BY <3>1
  <2> QED BY <2>6, <2>7, <2>8, <2>9
<1> QED BY <1>1, ProbeInvariant, PTL

\* When run() goes on after a function, only what run() holds is out, and a
\* probe that has ended holds nothing, whatever ended it.
THEOREM NothingIsKept == Spec => []NothingKept
<1>1. ASSUME ProbeInv
      PROVE  NothingKept
  <2>c. Control /\ BaseIs /\ Stack /\ phase \in Phases
    BY <1>1 DEF ProbeInv, TypeOK
  <2>1. ASSUME call = "none"
        PROVE  owned \subseteq {"log", "duplication", "device", "context", "window"}
    <3>1. Len(guards) = base
      BY <2>c, <2>1, Settled
    <3>2. base \in 0 .. 5
      BY <2>c DEF BaseIs, Control, CallsIn, Phases
    <3>3. \A i \in 1 .. base : guards[i] = Own[i]
      BY <3>1, <2>c DEF Stack
    <3>4. owned = {guards[i] : i \in 1 .. base}
      BY <3>1, <2>c DEF Stack, Contents
    <3> QED BY <3>2, <3>3, <3>4, OwnFacts
  <2>2. ASSUME Ended
        PROVE  owned = {}
    <3>1. call = "none" /\ base = 0
      BY <2>2, <2>c DEF Ended, Control, CallsIn, BaseIs
    <3> QED BY <3>1, <2>c, OwnHeld
  <2> QED BY <2>1, <2>2 DEF NothingKept
<1> QED BY <1>1, ProbeInvariant, PTL

\* The picture written is the first there was, and all of it when the probe
\* finished.
THEOREM FirstPictureSaved == Spec => []SavedIsFirst
<1>1. ProbeInv => SavedIsFirst
  BY DEF ProbeInv, Picture, SavedIsFirst
<1> QED BY <1>1, ProbeInvariant, PTL

\* Outside a nudge the cursor is where the user last put it or as many places to
\* its right as put-backs were refused since, whatever the attempts, unless the
\* user moved it within a nudge that then put it back, or the probe was killed in
\* the middle of one.
THEOREM CursorIsPutBack == Spec => []CursorPutBack
<1>1. ProbeInv => CursorPutBack
  BY DEF ProbeInv, Nudge
<1> QED BY <1>1, ProbeInvariant, PTL

\* The log a probe leaves can be believed: its summary is the last line and
\* agrees with the lines before it, nothing but the summary follows an error,
\* and a finished probe has one.
THEOREM SummaryIsRight == Spec => []SummaryAddsUp
<1>1. ASSUME ProbeInv
      PROVE  SummaryAddsUp
  <2>c. Tallied /\ SummaryLast /\ ErrorLast
    BY <1>1 DEF ProbeInv
  <2>t. log \in Seq(EventNames) /\ Len(log) \in Nat /\ durable \in 0 .. Len(log)
    BY <1>1, LenProperties DEF ProbeInv, TypeOK, Tallied
  <2>d. /\ DOMAIN Durable = 1 .. durable /\ Len(Durable) = durable
        /\ \A k \in 1 .. durable : Durable[k] = log[k]
    <3>1. \A k \in 1 .. durable : log[k] \in EventNames
      BY <2>t, ElementOfSeq
    <3>2. /\ Durable \in Seq(EventNames)
          /\ Len(Durable) = IF 1 <= durable THEN durable - 1 + 1 ELSE 0
          /\ \A k \in 1 .. durable - 1 + 1 : Durable[k] = log[1 + k - 1]
      BY <3>1, <2>t, SubSeqProperties DEF Durable
    <3>3. Len(Durable) = durable
      BY <3>2, <2>t
    <3>4. DOMAIN Durable = 1 .. durable
      BY <3>2, <3>3, LenProperties
    <3>5. ASSUME NEW k \in 1 .. durable PROVE Durable[k] = log[k]
      <4>1. k \in 1 .. durable - 1 + 1 /\ 1 + k - 1 = k
        BY <2>t
      <4> QED BY <4>1, <3>2
    <3> QED BY <3>3, <3>4, <3>5
  <2>f. ASSUME durable = Len(log), NEW e
        PROVE  Events(e) = Written(e)
    <3>1. Events(e) = {k \in 1 .. Len(log) : Durable[k] \in e}
      BY <2>d, <2>f DEF Events
    <3>2. \A k \in 1 .. Len(log) : Durable[k] = log[k]
      BY <2>d, <2>f
    <3> QED BY <3>1, <3>2 DEF Written, Positions
  <2>1. ASSUME Ended, "summary" \in ToSet(Durable)
        PROVE  /\ Last(Durable) = "summary"
               /\ Cardinality(Events(Results)) = count.attempts
               /\ Cardinality(Events({"frame"})) = count.frames
               /\ Cardinality(Events({"timeout"})) = count.timeouts
               /\ Cardinality(Events({"access_lost"})) = count.access_lost
    <3>1. PICK k \in 1 .. durable : Durable[k] = "summary"
      BY <2>1, <2>d DEF ToSet
    <3>2. log[k] = "summary" /\ k \in 1 .. Len(log)
      BY <3>1, <2>d, <2>t
    <3>3. k = Len(log) /\ count.attempts = Cardinality(Written(Results))
      BY <3>2, <2>c DEF SummaryLast
    <3>4. durable = Len(log)
      BY <3>1, <3>3, <2>t
    <3>5. Last(Durable) = "summary"
      BY <3>1, <3>3, <3>4, <2>d DEF Last
    <3>6. Events(Results) = Written(Results)
      BY <3>4, <2>f
    <3>7. Events({"frame"}) = Written({"frame"})
      BY <3>4, <2>f
    <3>8. Events({"timeout"}) = Written({"timeout"})
      BY <3>4, <2>f
    <3>9. Events({"access_lost"}) = Written({"access_lost"})
      BY <3>4, <2>f
    <3> QED BY <3>3, <3>5, <3>6, <3>7, <3>8, <3>9, <2>c DEF Tallied
  <2>2. ASSUME NEW k \in 1 .. durable - 1, log[k] \in Errors
        PROVE  log[k + 1] = "summary"
    <3>1. k \in 1 .. Len(log) /\ k # Len(log)
      BY <2>t
    <3> QED BY <3>1, <2>2, <2>c DEF ErrorLast
  <2>3. ASSUME phase = "done", mode # "list"
        PROVE  "summary" \in ToSet(Durable)
    <3>1. log # << >> /\ log[Len(log)] = "summary" /\ durable = Len(log)
      BY <2>3, <2>c DEF SummaryLast
    <3>2. Len(log) \in DOMAIN Durable /\ Durable[Len(log)] = "summary"
      BY <3>1, <2>d, <2>t, EmptySeq
    <3> QED BY <3>2 DEF ToSet
  <2> QED BY <2>1, <2>2, <2>3 DEF SummaryAddsUp, Errors
<1> QED BY <1>1, ProbeInvariant, PTL

=============================================================================
