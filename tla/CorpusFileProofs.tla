-------------------------- MODULE CorpusFileProofs ---------------------------
(* Theorems about CorpusFile, for every set of shapes, any number of         *)
(* recordings to the path and any timeout.                                   *)
EXTENDS CorpusFile, Arithmetic, SequenceTheorems, TLAPS

-----------------------------------------------------------------------------
(* The inductive invariant.                                                 *)

\* Units of the file before the first timestamp that is not yet followed by
\* its whole picture.
Frontier == HeaderSize + written * RecordSize(shape)

\* How much of the file is there in each phase.  Once resting, the recorder
\* has left any part of it.
Progress ==
    /\ shape = NoShape => phase \in {"idle", "failed"} /\ file = << >> /\ gen = 0
    /\ shape # NoShape => gen # 0 /\ phase # "idle"
    /\ Len(file) <= CorpusSize(shape)
    /\ phase = "header" => written = 0 /\ Len(file) < HeaderSize
    /\ phase = "delay" => written = 0 /\ Len(file) = HeaderSize
    /\ phase \in {"polling", "timed out"} =>
           written < shape.frames /\ Len(file) = Frontier
    /\ phase = "picture" =>
           /\ written < shape.frames
           /\ Len(file) \in Frontier + 1 .. Frontier + shape.parts
    /\ phase = "recorded" => Len(file) = CorpusSize(shape)

\* Whatever is there is the beginning of the complete recording.
IsPrefixOfComplete ==
    \A place \in 1 .. Len(file) : file[place] = UnitAt(gen, shape, place)

\* The clocks: the idle time is looked at after every poll.
IdleClock ==
    /\ phase = "polling" => /\ called - lastFrame < IdleTimeout
                            /\ now <= called + Poll + Grace
    /\ phase = "timed out" => now - lastFrame >= IdleTimeout

RecorderInv == Progress /\ IsPrefixOfComplete /\ IdleClock

\* Units before the record of a frame.
RecordStart(n) == HeaderSize + n * RecordSize(meta)

\* Where the replay stands, whoever recorded over the file meanwhile.
ReaderShape ==
    /\ reader = "closed" => meta = NoShape /\ opened = 0 /\ tool = "none"
    /\ reader # "closed" => meta # NoShape /\ tool \in Tools
    /\ reader \in {"closed", "header", "checked"} => index = 0
    /\ reader = "stamp" => index < meta.frames /\ Len(picture) = 1
    /\ reader = "frame" => index > 0 /\ Len(picture) = 1 + meta.parts
    /\ reader = "done" => tool \in {"export", "analyze"}

\* As long as nobody did, the file it reads is the whole recording it opened,
\* and its file position is where the index says.
ReaderPlace ==
    opened # 0 =>
        /\ opened = gen /\ meta = shape /\ shape # NoShape
        /\ reader # "broken"
        /\ reader \in {"checked", "open", "stamp", "frame", "done"} =>
               Len(file) = CorpusSize(shape)
        /\ reader \in {"open", "frame"} => cursor = RecordStart(index)
        /\ reader = "stamp" =>
               /\ cursor = RecordStart(index) + 1
               /\ picture = <<file[RecordStart(index) + 1]>>
        /\ reader = "frame" =>
               \A k \in 1 .. 1 + meta.parts :
                   picture[k] = file[RecordStart(index - 1) + k]
        /\ reader = "done" => index = meta.frames

ReaderInv == ReaderShape /\ ReaderPlace

\* A pass over the corpus has begun.
Passing == reader \in {"open", "stamp", "frame", "done"}

\* What the tools hold, whoever recorded over the file meanwhile: the export
\* begins empty, what was decoded is the beginning of it, and the analysis has
\* counted that.
ToolShape ==
    /\ (tool = "export" /\ reader \in {"header", "checked"}) =>
           exported = NoExport
    /\ (tool = "export" /\ Passing) => exported.parts = meta.parts
    /\ exported.units # << >> => exported.parts # 0
    /\ decoded # << >> => tool # "export" /\ exported # NoExport
    /\ Len(decoded) <= Len(exported.units)
    /\ \A k \in 1 .. Len(decoded) : decoded[k] = exported.units[k]
    /\ (tool = "analyze" /\ Passing) => Len(decoded) = meta.frames * meta.parts

\* The export of the recording in the file is the beginning of its pictures,
\* and while it is made it has all of those read before the current one.
ToolPlace ==
    LET exporting == tool = "export" /\ opened # 0
        whole == index - (IF reader = "frame" THEN 1 ELSE 0)
    IN  /\ (exporting \/ (exported.of # 0 /\ exported.of = gen)) =>
               /\ shape # NoShape
               /\ Len(exported.units) <= shape.frames * shape.parts
               /\ \A k \in 1 .. Len(exported.units) :
                      exported.units[k] = Pictures(gen, shape)[k]
        /\ (exporting /\ Passing) =>
               Len(exported.units) = whole * meta.parts

ToolInv == ToolShape /\ ToolPlace

\* The type invariant of the two processes.
RecorderType ==
    /\ file \in Seq(Units) /\ gen \in 0 .. MaxGen
    /\ shape \in Shapes \cup {NoShape} /\ phase \in Phases
    /\ written \in 0 .. shape.frames
    /\ now \in 0 .. MaxTime
    /\ start \in 0 .. now /\ lastFrame \in 0 .. now /\ called \in 0 .. now

ReplayType ==
    /\ reader \in {"closed", "header", "checked", "open", "stamp", "frame",
                   "broken", "refused", "done"}
    /\ tool \in Tools \cup {"none"}
    /\ meta \in Shapes \cup {NoShape}
    /\ cursor \in Nat /\ index \in 0 .. meta.frames
    /\ picture \in Seq(Units)
    /\ opened \in 0 .. gen
    /\ exported \in [parts : Nat, units : Seq(Units), of : 0 .. gen]
    /\ decoded \in Seq(Units)

-----------------------------------------------------------------------------
(* The layout of a recording.                                               *)

\* The size of a record and of the file.
LEMMA ShapeFacts ==
    ASSUME NEW s \in Shapes
    PROVE  /\ s.frames \in Nat \ {0} /\ s.parts \in Nat \ {0}
           /\ s = [frames |-> s.frames, parts |-> s.parts]
           /\ s # NoShape
           /\ RecordSize(s) = 1 + s.parts /\ RecordSize(s) \in Nat \ {0, 1}
           /\ CorpusSize(s) = HeaderSize + s.frames * RecordSize(s)
           /\ CorpusSize(s) \in Nat
<1>1. /\ s.frames \in Nat \ {0} /\ s.parts \in Nat \ {0}
      /\ s = [frames |-> s.frames, parts |-> s.parts]
  BY ShapeAssumption
<1>2. RecordSize(s) = 1 + s.parts /\ RecordSize(s) \in Nat \ {0, 1}
  BY <1>1 DEF RecordSize
<1>3. s.frames * RecordSize(s) \in Nat
  BY <1>1, <1>2
<1> QED
  BY <1>1, <1>2, <1>3 DEF CorpusSize, HeaderSize, NoShape

\* A frame of the recording lies in it whole.
LEMMA RecordFits ==
    ASSUME NEW f \in Nat, NEW n \in Nat, n < f, NEW r \in Nat
    PROVE  n * r \in Nat /\ (n + 1) * r = n * r + r /\ (n + 1) * r <= f * r
<1> DEFINE d == f - (n + 1)
<1>1. d \in Nat /\ f = (n + 1) + d
  OBVIOUS
<1>2. n * r \in Nat /\ d * r \in Nat
  BY <1>1
<1>3. (n + 1) * r = n * r + r
  OBVIOUS
<1> HIDE DEF d
<1>4. ((n + 1) + d) * r = (n + 1) * r + d * r
  BY <1>1
<1> QED
  BY <1>1, <1>2, <1>3, <1>4

\* The header of a recording, and the units of its frames.
LEMMA UnitOfHeader ==
    ASSUME NEW g, NEW s
    PROVE  /\ UnitAt(g, s, 1) = Unit(g, "magic", 0, 0)
           /\ UnitAt(g, s, 2) = Unit(g, "shape", s.frames, s.parts)
BY DEF UnitAt, Header, HeaderSize

LEMMA UnitOfFrame ==
    ASSUME NEW g, NEW s \in Shapes, NEW n \in Nat, NEW k \in 0 .. s.parts,
           NEW place, place = HeaderSize + n * RecordSize(s) + 1 + k
    PROVE  UnitAt(g, s, place)
               = Unit(g, IF k = 0 THEN "stamp" ELSE "picture", n, k)
<1> DEFINE r == RecordSize(s)
<1>1. r \in Nat \ {0} /\ k \in 0 .. r - 1 /\ k \in Nat
  BY ShapeFacts
<1>2. n * r \in Nat /\ n * r = r * n
  BY <1>1
<1>3. ~(place <= HeaderSize) /\ place - HeaderSize - 1 = r * n + k
  BY <1>1, <1>2 DEF HeaderSize
<1> HIDE DEF r
<1>4. (r * n + k) \div r = n /\ (r * n + k) % r = k
  <2>1. n \in Int
    OBVIOUS
  <2> QED
    BY <1>1, <2>1, DivisionUnique, Zenon
<1> QED
  BY <1>3, <1>4 DEF UnitAt, r

\* The units are what the file is typed by.
LEMMA UnitType ==
    ASSUME NEW g \in Nat, NEW n \in Nat, NEW k \in Nat,
           NEW kind \in {"magic", "shape", "stamp", "picture"}
    PROVE  Unit(g, kind, n, k) \in Units
BY DEF Unit, Units

\* What open() reads from a file with the beginning of a recording.
LEMMA HeaderIsRead ==
    ASSUME shape \in Shapes, IsPrefixOfComplete, file \in Seq(Units),
           Len(file) >= HeaderSize
    PROVE  HasHeader(file) /\ HeaderShape(file) = shape
<1>1. 1 \in 1 .. Len(file) /\ 2 \in 1 .. Len(file)
  BY DEF HeaderSize
<1>2. /\ file[1] = Unit(gen, "magic", 0, 0)
      /\ file[2] = Unit(gen, "shape", shape.frames, shape.parts)
  BY <1>1, UnitOfHeader DEF IsPrefixOfComplete
<1>3. /\ shape.frames \in Nat \ {0}
      /\ shape = [frames |-> shape.frames, parts |-> shape.parts]
  BY ShapeFacts
<1> QED
  BY <1>2, <1>3 DEF HasHeader, HeaderShape, Unit

\* A path can be opened exactly when the recording on it is complete.
LEMMA OpenIsComplete ==
    ASSUME TypeOK, RecorderInv
    PROVE  CanOpen(file) <=> shape \in Shapes /\ Len(file) = CorpusSize(shape)
<1>1. CASE shape = NoShape
  <2>1. file = << >> /\ NoShape \notin Shapes
    BY <1>1, ShapeFacts DEF RecorderInv, Progress
  <2> QED
    BY <1>1, <2>1 DEF CanOpen, HasHeader, HeaderSize
<1>2. CASE shape \in Shapes
  <2>1. CASE Len(file) >= HeaderSize
    BY <1>2, <2>1, HeaderIsRead DEF CanOpen, HasLength, TypeOK, RecorderInv
  <2>2. CASE ~(Len(file) >= HeaderSize)
    <3>1. CorpusSize(shape) >= HeaderSize
      <4>1. shape.frames * RecordSize(shape) \in Nat
        BY <1>2, ShapeFacts
      <4> QED
        BY <1>2, <4>1, ShapeFacts DEF HeaderSize
    <3>2. Len(file) \in Nat
      BY DEF TypeOK
    <3> QED
      BY <2>2, <3>1, <3>2 DEF CanOpen, HasHeader, HeaderSize
  <2> QED
    BY <2>1, <2>2
<1> QED
  BY <1>1, <1>2 DEF TypeOK

-----------------------------------------------------------------------------
(* The recorder.                                                            *)

\* The type invariant is the two parts.
LEMMA TypeParts == TypeOK <=> RecorderType /\ ReplayType
BY DEF TypeOK, RecorderType, ReplayType

\* The record of the frame that is written next lies in the file.
LEMMA FrontierFacts ==
    ASSUME shape \in Shapes, written \in Nat, written < shape.frames
    PROVE  /\ Frontier \in Nat /\ Frontier >= HeaderSize
           /\ Frontier + RecordSize(shape) <= CorpusSize(shape)
           /\ HeaderSize + (written + 1) * RecordSize(shape)
                  = Frontier + RecordSize(shape)
           /\ written + 1 = shape.frames =>
                  Frontier + RecordSize(shape) = CorpusSize(shape)
<1> DEFINE r == RecordSize(shape)
           f == shape.frames
<1>1. r \in Nat /\ f \in Nat /\ CorpusSize(shape) = HeaderSize + f * r
  BY ShapeFacts
<1>2. written < f
  OBVIOUS
<1>3. Frontier = HeaderSize + written * r
  BY DEF Frontier
<1> HIDE DEF r, f
<1>4. /\ written * r \in Nat /\ (written + 1) * r = written * r + r
      /\ (written + 1) * r <= f * r
  BY <1>1, <1>2, RecordFits
<1>5. f * r \in Nat
  BY <1>1
<1>6. /\ Frontier \in Nat /\ Frontier >= HeaderSize
      /\ Frontier + r <= CorpusSize(shape)
      /\ HeaderSize + (written + 1) * r = Frontier + r
  BY <1>1, <1>3, <1>4, <1>5 DEF HeaderSize
<1>7. written + 1 = f => Frontier + r = CorpusSize(shape)
  BY <1>1, <1>3, <1>4 DEF HeaderSize
<1> QED
  BY <1>6, <1>7 DEF r, f

\* A unit that belongs at the end of the file leaves it the beginning of the
\* recording.
LEMMA FileGrows ==
    ASSUME file \in Seq(Units), IsPrefixOfComplete, NEW u \in Units,
           u = UnitAt(gen, shape, Len(file) + 1),
           file' = Append(file, u), gen' = gen, shape' = shape
    PROVE  /\ file' \in Seq(Units) /\ Len(file') = Len(file) + 1
           /\ IsPrefixOfComplete'
<1>1. /\ file' \in Seq(Units) /\ Len(file') = Len(file) + 1
      /\ \A i \in 1 .. Len(file) : file'[i] = file[i]
      /\ file'[Len(file) + 1] = u
  BY AppendProperties
<1>2. Len(file) \in Nat
  OBVIOUS
<1>3. ASSUME NEW place \in 1 .. Len(file')
      PROVE  file'[place] = UnitAt(gen, shape, place)
  <2>1. place \in 1 .. Len(file) \/ place = Len(file) + 1
    BY <1>1, <1>2, <1>3
  <2> QED
    BY <1>1, <2>1 DEF IsPrefixOfComplete
<1> QED
  BY <1>1, <1>3 DEF IsPrefixOfComplete

\* What a step of the recorder does to the file: nothing, one unit more, or a
\* new recording.
Keeps == UNCHANGED <<file, gen, shape, readerVars>>

Grows == /\ shape \in Shapes /\ Len(file) < CorpusSize(shape)
         /\ Len(file') = Len(file) + 1
         /\ UNCHANGED <<gen, shape, readerVars>>

StartsOver == /\ gen' = gen + 1 /\ shape' \in Shapes /\ file' = << >>
              /\ opened' = 0
              /\ UNCHANGED <<reader, meta, cursor, index, picture, toolVars>>

\* The invariant of the recorder is kept by each of its steps.
LEMMA CreateStep ==
    ASSUME RecorderType, RecorderInv, NEW s \in Shapes, Create(s)
    PROVE  RecorderType' /\ RecorderInv' /\ StartsOver
<1>0. gen + 1 \in 0 .. MaxGen /\ gen + 1 # 0
  BY TimeAssumption DEF Create, RecorderType
<1>1. /\ gen' = gen + 1
      /\ shape' = s /\ s # NoShape /\ s.frames \in Nat \ {0}
      /\ file' = << >> /\ Len(file') = 0 /\ written' = 0 /\ phase' = "header"
      /\ UNCHANGED <<now, start, lastFrame, called>>
  BY ShapeFacts DEF Create
<1>2. CorpusSize(s) \in Nat
  BY ShapeFacts
<1>3. RecorderType'
  <2>1. file' \in Seq(Units)
    BY <1>1
  <2>2. gen' \in 0 .. MaxGen
    BY <1>0, <1>1
  <2>3. /\ shape' \in Shapes \cup {NoShape} /\ phase' \in Phases
        /\ written' \in 0 .. shape'.frames
    BY <1>1 DEF Phases
  <2>4. /\ now' \in 0 .. MaxTime /\ start' \in 0 .. now'
        /\ lastFrame' \in 0 .. now' /\ called' \in 0 .. now'
    BY <1>1 DEF RecorderType
  <2> QED
    BY <2>1, <2>2, <2>3, <2>4 DEF RecorderType
<1>4. Progress'
  BY <1>0, <1>1, <1>2 DEF Progress, HeaderSize
<1>5. IsPrefixOfComplete' /\ IdleClock'
  BY <1>1 DEF IsPrefixOfComplete, IdleClock
<1>6. StartsOver
  BY <1>1 DEF StartsOver, Create
<1> QED
  BY <1>3, <1>4, <1>5, <1>6 DEF RecorderInv

LEMMA WriteHeaderStep ==
    ASSUME RecorderType, RecorderInv, WriteHeader
    PROVE  RecorderType' /\ RecorderInv' /\ Grows
<1> DEFINE u == Header(gen, shape)[Len(file) + 1]
<1>1. /\ phase = "header" /\ written = 0 /\ Len(file) \in {0, 1}
      /\ shape \in Shapes /\ gen # 0 /\ gen \in Nat
  <2>1. phase = "header" /\ shape # NoShape
    BY DEF WriteHeader, RecorderInv, Progress
  <2>2. written = 0 /\ Len(file) < HeaderSize /\ gen # 0 /\ shape \in Shapes
    BY <2>1 DEF RecorderInv, Progress, RecorderType
  <2>3. Len(file) \in Nat /\ gen \in Nat
    BY TimeAssumption DEF RecorderType
  <2>4. \A l \in Nat : l < HeaderSize => l = 0 \/ l = 1
    BY DEF HeaderSize
  <2>5. Len(file) = 0 \/ Len(file) = 1
    BY <2>2, <2>3, <2>4
  <2> QED
    BY <2>1, <2>2, <2>3, <2>5
<1>2. /\ shape.frames \in Nat \ {0} /\ shape.parts \in Nat \ {0}
      /\ shape # NoShape
      /\ CorpusSize(shape) \in Nat /\ CorpusSize(shape) >= HeaderSize
  <2>1. shape.frames * RecordSize(shape) \in Nat
    BY <1>1, ShapeFacts
  <2> QED
    BY <1>1, <2>1, ShapeFacts DEF HeaderSize
<1>3. u \in Units /\ u = UnitAt(gen, shape, Len(file) + 1)
  <2>1. CASE Len(file) = 0
    <3>1. u = Unit(gen, "magic", 0, 0)
      BY <2>1 DEF Header
    <3> QED
      BY <1>1, <2>1, <3>1, UnitType, UnitOfHeader
  <2>2. CASE Len(file) = 1
    <3>1. u = Unit(gen, "shape", shape.frames, shape.parts)
      BY <2>2 DEF Header
    <3> QED
      BY <1>1, <1>2, <2>2, <3>1, UnitType, UnitOfHeader
  <2> QED
    BY <1>1, <2>1, <2>2
<1>4. /\ file' = Append(file, u) /\ called' = now
      /\ phase' = IF Len(file') = HeaderSize THEN "delay" ELSE "header"
      /\ UNCHANGED <<gen, shape, written, now, start, lastFrame, readerVars>>
  BY DEF WriteHeader, readerVars
<1>5. /\ file' \in Seq(Units) /\ Len(file') = Len(file) + 1
      /\ IsPrefixOfComplete'
  <2> HIDE DEF u
  <2> QED
    BY <1>3, <1>4, FileGrows DEF RecorderType, RecorderInv
<1>6. RecorderType'
  <2>1. phase' \in Phases
    BY <1>4 DEF Phases
  <2>2. called' \in 0 .. now'
    BY <1>4 DEF RecorderType
  <2> QED
    BY <1>4, <1>5, <2>1, <2>2 DEF RecorderType
<1>7. Progress'
  BY <1>1, <1>2, <1>4, <1>5 DEF Progress, HeaderSize
<1>8. IdleClock'
  BY <1>4 DEF IdleClock
<1>9. Grows
  BY <1>1, <1>2, <1>4, <1>5 DEF Grows, HeaderSize
<1> QED
  BY <1>5, <1>6, <1>7, <1>8, <1>9 DEF RecorderInv

LEMMA BeginStep ==
    ASSUME RecorderType, RecorderInv, Begin
    PROVE  RecorderType' /\ RecorderInv' /\ Keeps
<1>1. /\ phase = "delay" /\ phase' = "polling"
      /\ start' = now /\ lastFrame' = now /\ called' = now /\ now \in Nat
      /\ UNCHANGED <<file, gen, shape, written, now>>
  BY TimeAssumption DEF Begin, RecorderType
<1>2. RecorderType'
  <2>1. phase' \in Phases
    BY <1>1 DEF Phases
  <2>2. now \in 0 .. now
    BY <1>1
  <2>3. start' \in 0 .. now' /\ lastFrame' \in 0 .. now' /\ called' \in 0 .. now'
    BY <1>1, <2>2
  <2> QED
    BY <1>1, <2>1, <2>3 DEF RecorderType
<1>3. /\ shape # NoShape /\ shape \in Shapes /\ gen # 0 /\ written = 0
      /\ Len(file) = HeaderSize /\ Len(file) <= CorpusSize(shape)
  BY <1>1 DEF RecorderType, RecorderInv, Progress
<1>4. shape.frames \in Nat \ {0} /\ RecordSize(shape) \in Nat
  BY <1>3, ShapeFacts
<1>5. Progress'
  <2>1. 0 * RecordSize(shape) = 0
    BY <1>4
  <2>2. Frontier = HeaderSize /\ Frontier' = Frontier
    BY <1>1, <1>3, <2>1 DEF Frontier, HeaderSize
  <2>3. written < shape.frames
    BY <1>3, <1>4
  <2> QED
    BY <1>1, <1>3, <2>2, <2>3 DEF Progress
<1>6. IsPrefixOfComplete' /\ Keeps
  BY <1>1 DEF RecorderInv, IsPrefixOfComplete, Keeps, Begin
<1>7. IdleClock'
  <2>1. now - now < IdleTimeout /\ now <= now + Poll + Grace
    BY <1>1, TimeAssumption
  <2> QED
    BY <1>1, <2>1 DEF IdleClock
<1> QED
  BY <1>2, <1>5, <1>6, <1>7 DEF RecorderInv

LEMMA StampFrameStep ==
    ASSUME RecorderType, RecorderInv, StampFrame
    PROVE  RecorderType' /\ RecorderInv' /\ Grows
<1> DEFINE u == Unit(gen, "stamp", written, 0)
<1>1. /\ phase = "polling" /\ shape # NoShape /\ shape \in Shapes /\ gen # 0
      /\ written < shape.frames /\ Len(file) = Frontier
  BY DEF StampFrame, RecorderType, RecorderInv, Progress
<1>2. /\ shape.frames \in Nat \ {0} /\ shape.parts \in Nat \ {0}
      /\ RecordSize(shape) = 1 + shape.parts
      /\ CorpusSize(shape) \in Nat
  BY <1>1, ShapeFacts
<1>3. written \in Nat /\ gen \in Nat /\ now \in Nat
  BY <1>2, TimeAssumption DEF RecorderType
<1>4. /\ Frontier \in Nat /\ Frontier >= HeaderSize
      /\ Frontier + RecordSize(shape) <= CorpusSize(shape)
  BY <1>1, <1>3, FrontierFacts
<1>5. u \in Units /\ u = UnitAt(gen, shape, Len(file) + 1)
  <2>1. /\ 0 \in 0 .. shape.parts
        /\ Len(file) + 1 = HeaderSize + written * RecordSize(shape) + 1 + 0
    BY <1>1, <1>2, <1>4 DEF Frontier
  <2>2. UnitAt(gen, shape, Len(file) + 1) = Unit(gen, "stamp", written, 0)
    BY <1>1, <1>3, <2>1, UnitOfFrame
  <2> QED
    BY <1>3, <2>2, UnitType
<1>6. /\ file' = Append(file, u) /\ phase' = "picture" /\ called' = now
      /\ UNCHANGED <<gen, shape, written, now, start, lastFrame, readerVars>>
  BY DEF StampFrame, readerVars
<1>7. /\ file' \in Seq(Units) /\ Len(file') = Len(file) + 1
      /\ IsPrefixOfComplete'
  <2> HIDE DEF u
  <2> QED
    BY <1>5, <1>6, FileGrows DEF RecorderType, RecorderInv
<1>8. RecorderType'
  <2>1. phase' \in Phases
    BY <1>6 DEF Phases
  <2>2. now \in 0 .. now
    BY <1>3
  <2>3. called' \in 0 .. now'
    BY <1>6, <2>2
  <2> QED
    BY <1>6, <1>7, <2>1, <2>3 DEF RecorderType
<1>9. Len(file) < CorpusSize(shape)
  BY <1>1, <1>2, <1>4
<1>10. Progress'
  <2>1. Frontier' = Frontier
    BY <1>6 DEF Frontier
  <2>2. /\ Frontier + 1 \in Frontier + 1 .. Frontier + shape.parts
        /\ Frontier + 1 <= CorpusSize(shape)
    BY <1>1, <1>2, <1>4
  <2> QED
    BY <1>1, <1>6, <1>7, <2>1, <2>2 DEF Progress
<1>11. IdleClock'
  BY <1>6 DEF IdleClock
<1>12. Grows
  BY <1>1, <1>6, <1>7, <1>9 DEF Grows
<1> QED
  BY <1>7, <1>8, <1>10, <1>11, <1>12 DEF RecorderInv

LEMMA WritePictureStep ==
    ASSUME RecorderType, RecorderInv, WritePicture
    PROVE  RecorderType' /\ RecorderInv' /\ Grows
<1> DEFINE k == PartsWritten + 1
           u == Unit(gen, "picture", written, k)
<1>1. /\ phase = "picture" /\ shape # NoShape /\ shape \in Shapes /\ gen # 0
      /\ written < shape.frames
      /\ Len(file) \in Frontier + 1 .. Frontier + shape.parts
  BY DEF WritePicture, RecorderType, RecorderInv, Progress
<1>2. /\ shape.frames \in Nat \ {0} /\ shape.parts \in Nat \ {0}
      /\ RecordSize(shape) = 1 + shape.parts /\ RecordSize(shape) \in Nat
      /\ CorpusSize(shape) \in Nat
  BY <1>1, ShapeFacts
<1>3. written \in Nat /\ gen \in Nat /\ now \in Nat
  BY <1>2, TimeAssumption DEF RecorderType
<1>4. /\ Frontier \in Nat /\ Frontier >= HeaderSize
      /\ Frontier + RecordSize(shape) <= CorpusSize(shape)
      /\ HeaderSize + (written + 1) * RecordSize(shape)
             = Frontier + RecordSize(shape)
      /\ written + 1 = shape.frames =>
             Frontier + RecordSize(shape) = CorpusSize(shape)
  BY <1>1, <1>3, FrontierFacts
<1>5. k = Len(file) - Frontier /\ k \in 1 .. shape.parts /\ k \in Nat
  <2>1. written * RecordSize(shape) \in Nat
    BY <1>2, <1>3
  <2>2. k = Len(file) - Frontier
    BY <1>1, <2>1 DEF PartsWritten, Frontier, HeaderSize
  <2> QED
    BY <1>1, <1>2, <1>4, <2>2
<1> HIDE DEF k
<1>6. u \in Units /\ u = UnitAt(gen, shape, Len(file) + 1)
  <2>1. Len(file) + 1 = HeaderSize + written * RecordSize(shape) + 1 + k
    <3>1. Len(file) + 1 = Frontier + 1 + k
      BY <1>1, <1>2, <1>4, <1>5
    <3> QED
      BY <3>1 DEF Frontier
  <2>2. k \in 0 .. shape.parts /\ k # 0
    BY <1>2, <1>5
  <2>3. UnitAt(gen, shape, Len(file) + 1) = Unit(gen, "picture", written, k)
    BY <1>1, <1>3, <2>1, <2>2, UnitOfFrame
  <2> QED
    BY <1>3, <1>5, <2>3, UnitType
<1>7. /\ file' = Append(file, u)
      /\ UNCHANGED <<gen, shape, now, start, readerVars>>
  BY DEF WritePicture, readerVars, k
<1>8. \/ /\ k = shape.parts /\ written' = written + 1
         /\ lastFrame' = now /\ called' = now
         /\ phase' = IF written' < shape.frames THEN "polling" ELSE "recorded"
      \/ k # shape.parts /\ UNCHANGED <<written, lastFrame, called, phase>>
  BY DEF WritePicture, k
<1>9. /\ file' \in Seq(Units) /\ Len(file') = Len(file) + 1
      /\ IsPrefixOfComplete'
  <2> HIDE DEF u
  <2> QED
    BY <1>6, <1>7, FileGrows DEF RecorderType, RecorderInv
<1>10. Len(file) = Frontier + k /\ Len(file) < CorpusSize(shape)
  BY <1>1, <1>2, <1>4, <1>5
<1>11. Grows
  BY <1>1, <1>7, <1>9, <1>10 DEF Grows
<1>12. CASE k = shape.parts
  <2>1. /\ written' = written + 1 /\ lastFrame' = now /\ called' = now
        /\ phase' = IF written + 1 < shape.frames THEN "polling" ELSE "recorded"
    BY <1>8, <1>12
  <2>2. Frontier' = Frontier + RecordSize(shape)
    BY <1>4, <1>7, <2>1 DEF Frontier
  <2>3. Len(file') = Frontier + RecordSize(shape)
    BY <1>2, <1>4, <1>9, <1>10, <1>12
  <2>4. RecorderType'
    <3>1. phase' \in Phases
      BY <2>1 DEF Phases
    <3>2. now \in 0 .. now /\ written + 1 \in 0 .. shape.frames
      BY <1>1, <1>2, <1>3
    <3>3. lastFrame' \in 0 .. now' /\ called' \in 0 .. now'
      BY <1>7, <2>1, <3>2
    <3> QED
      BY <1>7, <1>9, <2>1, <3>1, <3>2, <3>3 DEF RecorderType
  <2>5. Progress'
    <3>1. CASE written + 1 < shape.frames
      BY <1>1, <1>4, <1>7, <2>1, <2>2, <2>3, <3>1 DEF Progress
    <3>2. CASE ~(written + 1 < shape.frames)
      <4>1. written + 1 = shape.frames
        BY <1>1, <1>2, <1>3, <3>2
      <4> QED
        BY <1>1, <1>2, <1>4, <1>7, <2>1, <2>3, <3>2, <4>1 DEF Progress
    <3> QED
      BY <3>1, <3>2
  <2>6. IdleClock'
    <3>1. now - now < IdleTimeout /\ now <= now + Poll + Grace
      BY <1>3, TimeAssumption
    <3> QED
      BY <1>7, <2>1, <3>1 DEF IdleClock
  <2> QED
    BY <1>9, <1>11, <2>4, <2>5, <2>6 DEF RecorderInv
<1>13. CASE k # shape.parts
  <2>1. UNCHANGED <<written, lastFrame, called, phase>>
    BY <1>8, <1>13
  <2>2. Frontier' = Frontier
    BY <1>7, <2>1 DEF Frontier
  <2>3. RecorderType'
    BY <1>7, <1>9, <2>1 DEF RecorderType
  <2>4. /\ Frontier + k + 1 \in Frontier + 1 .. Frontier + shape.parts
        /\ Frontier + k + 1 <= CorpusSize(shape)
    BY <1>2, <1>4, <1>5, <1>13
  <2>5. Len(file') = Frontier + k + 1
    BY <1>9, <1>10
  <2>6. Progress'
    BY <1>1, <1>7, <2>1, <2>2, <2>4, <2>5 DEF Progress
  <2>7. IdleClock'
    BY <1>1, <2>1 DEF IdleClock
  <2> QED
    BY <1>9, <1>11, <2>3, <2>6, <2>7 DEF RecorderInv
<1> QED
  BY <1>12, <1>13

LEMMA IdleStep ==
    ASSUME RecorderType, RecorderInv, Idle
    PROVE  RecorderType' /\ RecorderInv' /\ Keeps
<1>1. /\ phase = "polling" /\ called' = now
      /\ phase' = IF now - lastFrame >= IdleTimeout THEN "timed out"
                                                    ELSE "polling"
      /\ UNCHANGED <<file, gen, shape, written, now, start, lastFrame>>
  BY DEF Idle
<1>2. now \in Nat /\ lastFrame \in Nat
  BY TimeAssumption DEF RecorderType
<1>3. RecorderType'
  <2>1. phase' \in Phases
    BY <1>1 DEF Phases
  <2>2. now \in 0 .. now
    BY <1>2
  <2>3. called' \in 0 .. now'
    BY <1>1, <2>2
  <2> QED
    BY <1>1, <2>1, <2>3 DEF RecorderType
<1>4. Progress'
  <2>1. Frontier' = Frontier
    BY <1>1 DEF Frontier
  <2> QED
    BY <1>1, <2>1 DEF RecorderInv, Progress
<1>5. IsPrefixOfComplete' /\ Keeps
  BY <1>1 DEF RecorderInv, IsPrefixOfComplete, Keeps, Idle
<1>6. IdleClock'
  <2>1. now <= now + Poll + Grace
    BY <1>2, TimeAssumption
  <2>2. now - lastFrame < IdleTimeout \/ now - lastFrame >= IdleTimeout
    BY <1>2, TimeAssumption
  <2> QED
    BY <1>1, <2>1, <2>2 DEF IdleClock
<1> QED
  BY <1>3, <1>4, <1>5, <1>6 DEF RecorderInv

LEMMA StopStep ==
    ASSUME RecorderType, RecorderInv, Refuse \/ Fail \/ Kill
    PROVE  RecorderType' /\ RecorderInv' /\ Keeps
<1>1. /\ phase' \in {"failed", "killed"}
      /\ phase' = "killed" => phase # "idle"
      /\ phase # "failed"
      /\ UNCHANGED <<file, gen, shape, written, now, start, lastFrame, called>>
  BY DEF Refuse, Fail, Kill
<1>2. phase' = "killed" => shape # NoShape
  BY <1>1 DEF Refuse, Fail, Kill, RecorderInv, Progress
<1>3. RecorderType'
  BY <1>1 DEF RecorderType, Phases
<1>4. Progress'
  BY <1>1, <1>2 DEF RecorderInv, Progress
<1>5. IsPrefixOfComplete' /\ IdleClock' /\ Keeps
  BY <1>1 DEF RecorderInv, IsPrefixOfComplete, IdleClock, Keeps, Refuse, Fail,
              Kill
<1> QED
  BY <1>3, <1>4, <1>5 DEF RecorderInv

LEMMA TickStep ==
    ASSUME RecorderType, RecorderInv, Tick
    PROVE  RecorderType' /\ RecorderInv' /\ Keeps
<1>1. /\ phase \in {"delay", "polling", "picture"} /\ now' = now + 1
      /\ now < MaxTime
      /\ phase = "polling" => now < called + Grace + Poll
      /\ UNCHANGED <<file, gen, shape, phase, written, start, lastFrame, called>>
  BY DEF Tick
<1>2. /\ now \in Nat /\ MaxTime \in Nat /\ Poll \in Nat /\ Grace \in Nat
      /\ called \in Nat
  BY TimeAssumption DEF RecorderType
<1>3. RecorderType'
  <2>1. now + 1 \in 0 .. MaxTime
    BY <1>1, <1>2
  <2>2. start \in 0 .. now + 1 /\ lastFrame \in 0 .. now + 1
        /\ called \in 0 .. now + 1
    BY <1>2 DEF RecorderType
  <2> QED
    BY <1>1, <2>1, <2>2 DEF RecorderType
<1>4. Progress' /\ IsPrefixOfComplete'
  <2>1. Frontier' = Frontier
    BY <1>1 DEF Frontier
  <2> QED
    BY <1>1, <2>1 DEF RecorderInv, Progress, IsPrefixOfComplete
<1>5. IdleClock'
  <2>1. phase = "polling" => now + 1 <= called + Poll + Grace
    BY <1>1, <1>2
  <2> QED
    BY <1>1, <2>1 DEF RecorderInv, IdleClock
<1>6. Keeps
  BY DEF Keeps, Tick
<1> QED
  BY <1>3, <1>4, <1>5, <1>6 DEF RecorderInv

\* Together: every step of the recorder and of the clock.
LEMMA RecorderStep ==
    ASSUME RecorderType, RecorderInv, Recorder \/ Tick
    PROVE  RecorderType' /\ RecorderInv' /\ (Keeps \/ Grows \/ StartsOver)
BY CreateStep, WriteHeaderStep, BeginStep, StampFrameStep, WritePictureStep,
   IdleStep, StopStep, TickStep DEF Recorder, Work

\* The replay leaves the recorder alone.
LEMMA ReplayKeeps ==
    ASSUME Replay
    PROVE  UNCHANGED recorderVars
BY DEF Replay, Open, CheckLength, Reset, Reject, ReadStamp, ReadPicture,
       ExportFrame, Exporting, AnalyzeFrame, Close, Transcode

LEMMA RecorderUnchanged ==
    ASSUME RecorderType, RecorderInv, UNCHANGED recorderVars
    PROVE  RecorderType' /\ RecorderInv'
BY DEF recorderVars, RecorderType, RecorderInv, Progress, Frontier,
       IsPrefixOfComplete, IdleClock

-----------------------------------------------------------------------------
(* The replay and its tools, while the recorder goes on.                    *)

\* A step of the recorder keeps what the replay holds, and what the tools made
\* of it: nobody has opened a file that still grows, and one that is begun
\* anew is no longer the one that was opened.
LEMMA ReplayUndisturbed ==
    ASSUME TypeOK, RecorderInv, ReaderInv, ToolInv,
           Keeps \/ Grows \/ StartsOver
    PROVE  ReplayType' /\ ReaderInv' /\ ToolInv'
<1>1. gen \in Nat
  BY TimeAssumption DEF TypeOK
<1>2. /\ UNCHANGED <<reader, meta, cursor, index, picture, tool, exported,
                     decoded>>
      /\ \/ opened' = opened /\ UNCHANGED <<gen, shape>>
         \/ opened' = 0 /\ gen' = gen + 1
  BY DEF Keeps, Grows, StartsOver, readerVars, toolVars
<1>3. ReplayType'
  <2>1. opened' \in 0 .. gen'
    BY <1>1, <1>2 DEF TypeOK
  <2>2. exported.of \in 0 .. gen'
    BY <1>1, <1>2 DEF TypeOK
  <2>3. exported' \in [parts : Nat, units : Seq(Units), of : 0 .. gen']
    BY <1>2, <2>2 DEF TypeOK
  <2> QED
    BY <1>2, <2>1, <2>3 DEF TypeOK, ReplayType
<1>4. ReaderShape' /\ ToolShape'
  <2>1. ReaderShape'
    BY <1>2 DEF ReaderInv, ReaderShape
  <2> QED
    BY <1>2, <2>1 DEF ToolInv, ToolShape, Passing
<1>5. ReaderPlace'
  <2>1. CASE Keeps
    BY <2>1 DEF Keeps, readerVars, toolVars, ReaderInv, ReaderPlace, RecordStart
  <2>2. CASE Grows
    <3>1. CASE opened = 0
      BY <1>2, <3>1 DEF ReaderPlace
    <3>2. CASE opened # 0
      <4>1. Len(file) # CorpusSize(shape)
        <5>1. Len(file) \in Nat /\ CorpusSize(shape) \in Nat
          BY <2>2, ShapeFacts DEF Grows, TypeOK
        <5> QED
          BY <2>2, <5>1 DEF Grows
      <4>2. reader \notin {"checked", "open", "stamp", "frame", "done"}
        BY <3>2, <4>1 DEF ReaderInv, ReaderPlace
      <4> QED
        BY <2>2, <3>2, <4>2 DEF Grows, readerVars, ReaderInv, ReaderPlace
    <3> QED
      BY <3>1, <3>2
  <2>3. CASE StartsOver
    BY <2>3 DEF StartsOver, ReaderPlace
  <2> QED
    BY <2>1, <2>2, <2>3
<1>6. ToolPlace'
  <2>1. CASE opened' = opened /\ UNCHANGED <<gen, shape>>
    BY <1>2, <2>1 DEF ToolInv, ToolPlace, Passing
  <2>2. CASE opened' = 0 /\ gen' = gen + 1
    <3>1. exported.of # gen + 1
      BY <1>1 DEF TypeOK
    <3> QED
      BY <1>2, <2>2, <3>1 DEF ToolPlace
  <2> QED
    BY <1>2, <2>1, <2>2
<1> QED
  BY <1>3, <1>4, <1>5, <1>6 DEF ReaderInv, ToolInv

\* The inductive invariant, and what a step of the replay may disturb of it.
CorpusInv == TypeOK /\ RecorderInv /\ ReaderInv /\ ToolInv

ReplayKept == ReplayType' /\ ReaderInv' /\ ToolInv'

LEMMA OpenStep ==
    ASSUME CorpusInv, NEW t \in Tools, Open(t)
    PROVE  ReplayKept
<1>1. /\ reader = "closed" /\ reader' = "header" /\ meta' = HeaderShape(file)
      /\ cursor' = HeaderSize /\ opened' = gen /\ tool' = t
      /\ UNCHANGED <<index, picture, exported, decoded>>
      /\ UNCHANGED <<file, gen, shape>>
      /\ HasHeader(file)
      /\ t = "export" => exported = NoExport
      /\ t = "analyze" => decoded # << >>
  BY DEF Open, recorderVars
<1>2. shape \in Shapes /\ meta' = shape
  <2>1. file \in Seq(Units) /\ Len(file) >= HeaderSize /\ IsPrefixOfComplete
    BY <1>1 DEF CorpusInv, TypeOK, RecorderInv, HasHeader
  <2>2. shape # NoShape
    <3>1. Len(<< >>) = 0 /\ ~(0 >= HeaderSize)
      BY DEF HeaderSize
    <3>2. file # << >>
      BY <2>1, <3>1
    <3> QED
      BY <3>2 DEF CorpusInv, RecorderInv, Progress
  <2>3. shape \in Shapes
    BY <2>2 DEF CorpusInv, TypeOK
  <2> QED
    BY <1>1, <2>1, <2>3, HeaderIsRead
<1>3. index = 0 /\ meta' # NoShape /\ meta'.frames \in Nat
  BY <1>1, <1>2, ShapeFacts DEF CorpusInv, ReaderInv, ReaderShape
<1>4. ReplayType'
  <2>1. cursor' \in Nat /\ index' \in 0 .. meta'.frames
    BY <1>1, <1>3 DEF HeaderSize
  <2>2. gen \in 0 .. gen
    BY TimeAssumption DEF CorpusInv, TypeOK
  <2>3. opened' \in 0 .. gen'
    BY <1>1, <2>2
  <2> QED
    BY <1>1, <1>2, <2>1, <2>3 DEF CorpusInv, TypeOK, ReplayType
<1>5. ReaderShape'
  BY <1>1, <1>3 DEF ReaderShape
<1>6. ReaderPlace'
  BY <1>1, <1>2, <1>3 DEF ReaderPlace
<1>7. ToolShape'
  BY <1>1, <1>2 DEF CorpusInv, ToolInv, ToolShape, Passing, NoExport
<1>8. ToolPlace'
  <2>1. CASE t = "export"
    <3>1. exported'.units = << >> /\ shape' # NoShape /\ ~Passing'
      BY <1>1, <1>2, <1>3, <2>1 DEF NoExport, Passing
    <3>2. shape'.frames * shape'.parts \in Nat
      BY <1>1, <1>2, ShapeFacts
    <3> QED
      BY <3>1, <3>2 DEF ToolPlace
  <2>2. CASE t # "export"
    BY <1>1, <2>2 DEF CorpusInv, ToolInv, ToolPlace
  <2> QED
    BY <2>1, <2>2
<1> QED
  BY <1>4, <1>5, <1>6, <1>7, <1>8 DEF ReplayKept, ReaderInv, ToolInv

LEMMA CheckLengthStep ==
    ASSUME CorpusInv, CheckLength \/ Reject
    PROVE  ReplayKept
<1>1. /\ reader \in {"header", "checked"} /\ reader' \in {"checked", "refused"}
      /\ reader' = "checked" => HasLength(file, meta)
      /\ UNCHANGED <<meta, cursor, index, picture, opened, tool, exported,
                     decoded>>
      /\ UNCHANGED <<file, gen, shape>>
  BY DEF CheckLength, Reject, recorderVars, toolVars
<1>2. ReplayType'
  BY <1>1 DEF CorpusInv, TypeOK, ReplayType
<1>3. ReaderShape'
  BY <1>1 DEF CorpusInv, ReaderInv, ReaderShape
<1>4. ReaderPlace'
  BY <1>1 DEF CorpusInv, ReaderInv, ReaderPlace, HasLength
<1>5. ToolShape' /\ ToolPlace'
  BY <1>1 DEF CorpusInv, ToolInv, ToolShape, ToolPlace, Passing
<1> QED
  BY <1>2, <1>3, <1>4, <1>5 DEF ReplayKept, ReaderInv, ToolInv

LEMMA ResetStep ==
    ASSUME CorpusInv, Reset
    PROVE  ReplayKept
<1>1. /\ reader' = "open" /\ index' = 0 /\ picture' = << >>
      /\ cursor' = HeaderSize
      /\ exported' = IF tool = "export"
                       THEN [exported EXCEPT !.parts = meta.parts] ELSE exported
      /\ UNCHANGED <<meta, opened, tool, decoded>>
      /\ UNCHANGED <<file, gen, shape>>
      /\ reader \in {"checked", "open", "frame"}
      /\ tool = "export" => reader = "checked"
      /\ tool = "analyze" => Len(decoded) = meta.frames * meta.parts
  BY DEF Reset, MayReset, DecodedMatches, recorderVars
<1>2. /\ meta \in Shapes /\ meta # NoShape /\ tool \in Tools
      /\ meta.frames \in Nat \ {0} /\ meta.parts \in Nat \ {0}
  BY <1>1, ShapeFacts DEF CorpusInv, TypeOK, ReaderInv, ReaderShape
<1>3. exported'.units = exported.units /\ exported'.of = exported.of
  BY <1>1 DEF CorpusInv, TypeOK
<1>4. tool = "export" => /\ exported = NoExport /\ exported.units = << >>
                         /\ exported'.parts = meta.parts
                         /\ decoded = << >>
  BY <1>1 DEF CorpusInv, ToolInv, ToolShape, NoExport
<1>5. ReplayType'
  <2>1. exported' \in [parts : Nat, units : Seq(Units), of : 0 .. gen]
    BY <1>1, <1>2 DEF CorpusInv, TypeOK
  <2>2. cursor' \in Nat /\ index' \in 0 .. meta'.frames
    BY <1>1, <1>2 DEF HeaderSize
  <2> QED
    BY <1>1, <2>1, <2>2 DEF CorpusInv, TypeOK, ReplayType
<1>6. ReaderShape'
  BY <1>1, <1>2 DEF ReaderShape
<1>7. ReaderPlace'
  <2>1. RecordSize(meta) \in Nat
    BY <1>2, ShapeFacts
  <2>2. 0 * RecordSize(meta) = 0
    BY <2>1
  <2>3. cursor' = RecordStart(index)'
    BY <1>1, <2>2 DEF RecordStart, HeaderSize
  <2> QED
    BY <1>1, <2>3 DEF CorpusInv, ReaderInv, ReaderPlace
<1>8. ToolShape'
  BY <1>1, <1>2, <1>3, <1>4 DEF CorpusInv, ToolInv, ToolShape, Passing, Tools
<1>9. ToolPlace'
  <2>1. CASE tool = "export"
    <3>1. Len(exported'.units) = 0
      BY <1>3, <1>4, <2>1
    <3>2. 0 * meta.parts = 0
      BY <1>2
    <3>3. shape \in Shapes => shape.frames * shape.parts \in Nat
      BY ShapeFacts
    <3>5. opened # 0 => shape = meta /\ shape # NoShape
      BY <1>2 DEF CorpusInv, ReaderInv, ReaderPlace
    <3>6. exported'.of = 0
      BY <1>3, <1>4, <2>1 DEF NoExport
    <3>7. opened # 0 => 0 <= shape.frames * shape.parts
      BY <1>2, <3>3, <3>5
    <3>8. index' - (IF reader' = "frame" THEN 1 ELSE 0) = 0
      BY <1>1
    <3>9. 1 .. Len(exported'.units) = {}
      BY <3>1
    <3>10. opened # 0 => /\ shape # NoShape
                         /\ Len(exported'.units) <= shape.frames * shape.parts
      BY <3>1, <3>5, <3>7
    <3> QED
      BY <1>1, <2>1, <3>1, <3>2, <3>6, <3>8, <3>9, <3>10 DEF ToolPlace
  <2>2. CASE tool # "export"
    BY <1>1, <1>3, <2>2 DEF CorpusInv, ToolInv, ToolPlace
  <2> QED
    BY <2>1, <2>2
<1> QED
  BY <1>5, <1>6, <1>7, <1>8, <1>9 DEF ReplayKept, ReaderInv, ToolInv

\* Where the records are that the replay reads.
LEMMA RecordPlaces ==
    ASSUME meta \in Shapes, NEW n \in Nat, n < meta.frames
    PROVE  /\ RecordStart(n) \in Nat /\ RecordStart(n) >= HeaderSize
           /\ RecordStart(n + 1) = RecordStart(n) + 1 + meta.parts
           /\ RecordStart(n + 1) <= CorpusSize(meta)
<1> DEFINE r == RecordSize(meta)
           f == meta.frames
<1>1. /\ r \in Nat /\ f \in Nat /\ r = 1 + meta.parts /\ meta.parts \in Nat
      /\ CorpusSize(meta) = HeaderSize + f * r
  BY ShapeFacts
<1>2. n < f
  OBVIOUS
<1> HIDE DEF r, f
<1>3. n * r \in Nat /\ (n + 1) * r = n * r + r /\ (n + 1) * r <= f * r
  BY <1>1, <1>2, RecordFits
<1>4. f * r \in Nat
  BY <1>1
<1>5. /\ RecordStart(n) = HeaderSize + n * r
      /\ RecordStart(n + 1) = HeaderSize + (n + 1) * r
  BY DEF RecordStart, r
<1> QED
  BY <1>1, <1>3, <1>4, <1>5 DEF HeaderSize

LEMMA ReadStampStep ==
    ASSUME CorpusInv, ReadStamp
    PROVE  ReplayKept
<1>1. /\ reader \in {"open", "frame"}
      /\ reader = "frame" => tool = "bench"
      /\ index < meta.frames
      /\ \/ /\ cursor < Len(file) /\ picture' = <<file[cursor + 1]>>
            /\ cursor' = cursor + 1 /\ reader' = "stamp"
         \/ /\ ~(cursor < Len(file)) /\ reader' = "broken"
            /\ UNCHANGED <<picture, cursor>>
      /\ UNCHANGED <<meta, index, opened, tool, exported, decoded>>
      /\ UNCHANGED <<file, gen, shape>>
  BY DEF ReadStamp, recorderVars, toolVars
<1>2. /\ meta \in Shapes /\ meta # NoShape /\ tool \in Tools
      /\ meta.frames \in Nat \ {0} /\ meta.parts \in Nat \ {0}
  BY <1>1, ShapeFacts DEF CorpusInv, TypeOK, ReaderInv, ReaderShape
<1>3. index \in Nat /\ cursor \in Nat /\ Len(file) \in Nat /\ file \in Seq(Units)
  BY <1>2 DEF CorpusInv, TypeOK
<1>4. opened # 0 => /\ cursor = RecordStart(index) /\ cursor < Len(file)
                    /\ reader' = "stamp"
  <2>1. /\ RecordStart(index) \in Nat
        /\ RecordStart(index + 1) = RecordStart(index) + 1 + meta.parts
        /\ RecordStart(index + 1) <= CorpusSize(meta)
    BY <1>1, <1>2, <1>3, RecordPlaces
  <2>2. CorpusSize(meta) \in Nat
    BY <1>2, ShapeFacts
  <2>3. RecordStart(index) < CorpusSize(meta)
    BY <1>2, <2>1, <2>2
  <2>4. opened # 0 => /\ cursor = RecordStart(index) /\ meta = shape
                      /\ Len(file) = CorpusSize(shape)
    BY <1>1 DEF CorpusInv, ReaderInv, ReaderPlace
  <2> QED
    BY <1>1, <2>3, <2>4
<1>5. picture' \in Seq(Units) /\ (reader' = "stamp" => Len(picture') = 1)
  <2>1. CASE cursor < Len(file)
    <3>1. cursor + 1 \in 1 .. Len(file)
      BY <1>3, <2>1
    <3>2. file[cursor + 1] \in Units
      BY <1>3, <3>1, ElementOfSeq
    <3>3. \A u \in Units : <<u>> \in Seq(Units) /\ Len(<<u>>) = 1
      OBVIOUS
    <3>4. picture' = <<file[cursor + 1]>>
      BY <1>1, <2>1
    <3> QED
      BY <3>2, <3>3, <3>4
  <2>2. CASE ~(cursor < Len(file))
    BY <1>1, <2>2 DEF CorpusInv, TypeOK
  <2> QED
    BY <2>1, <2>2
<1>6. ReplayType'
  <2>1. cursor' \in Nat
    BY <1>1, <1>3
  <2> QED
    BY <1>1, <1>5, <2>1 DEF CorpusInv, TypeOK, ReplayType
<1>7. ReaderShape'
  BY <1>1, <1>2, <1>5 DEF ReaderShape
<1>8. ReaderPlace'
  <2>1. RecordStart(index)' = RecordStart(index)
    BY <1>1 DEF RecordStart
  <2> QED
    BY <1>1, <1>4, <2>1 DEF CorpusInv, ReaderInv, ReaderPlace
<1>9. ToolShape'
  BY <1>1 DEF CorpusInv, ToolInv, ToolShape, Passing
<1>10. ToolPlace'
  <2>1. tool = "export" =>
            index' - (IF reader' = "frame" THEN 1 ELSE 0)
                = index - (IF reader = "frame" THEN 1 ELSE 0)
    BY <1>1
  <2> QED
    BY <1>1, <2>1 DEF CorpusInv, ToolInv, ToolPlace, Passing
<1> QED
  BY <1>6, <1>7, <1>8, <1>9, <1>10 DEF ReplayKept, ReaderInv, ToolInv

LEMMA ReadPictureStep ==
    ASSUME CorpusInv, ReadPicture
    PROVE  ReplayKept
<1> DEFINE body == SubSeq(file, cursor + 1, cursor + meta.parts)
           whole == cursor + meta.parts <= Len(file)
<1>1. /\ reader = "stamp"
      /\ \/ /\ whole /\ picture' = picture \o body
            /\ cursor' = cursor + meta.parts /\ index' = index + 1
            /\ reader' = "frame"
         \/ /\ ~whole /\ reader' = "broken" /\ cursor' = Len(file)
            /\ UNCHANGED <<picture, index>>
      /\ UNCHANGED <<meta, opened, tool, exported, decoded>>
      /\ UNCHANGED <<file, gen, shape>>
  BY DEF ReadPicture, recorderVars, toolVars
<1>2. /\ meta \in Shapes /\ meta # NoShape /\ tool \in Tools
      /\ meta.frames \in Nat \ {0} /\ meta.parts \in Nat \ {0}
      /\ index < meta.frames /\ Len(picture) = 1
  BY <1>1, ShapeFacts DEF CorpusInv, TypeOK, ReaderInv, ReaderShape
<1>3. /\ index \in Nat /\ cursor \in Nat /\ Len(file) \in Nat
      /\ file \in Seq(Units) /\ picture \in Seq(Units)
      /\ index + 1 \in 0 .. meta.frames /\ index + 1 # 0 /\ index + 1 > 0
  <2>1. /\ index \in Nat /\ cursor \in Nat /\ file \in Seq(Units)
        /\ picture \in Seq(Units)
    BY <1>2 DEF CorpusInv, TypeOK
  <2> QED
    BY <1>2, <2>1
<1>4. /\ RecordStart(index) \in Nat
      /\ RecordStart(index + 1) = RecordStart(index) + 1 + meta.parts
      /\ RecordStart(index + 1) <= CorpusSize(meta)
  BY <1>2, <1>3, RecordPlaces
<1>5. opened # 0 => /\ cursor = RecordStart(index) + 1 /\ whole
                    /\ picture[1] = file[RecordStart(index) + 1]
  <2>1. opened # 0 => /\ cursor = RecordStart(index) + 1 /\ meta = shape
                      /\ Len(file) = CorpusSize(shape)
                      /\ picture = <<file[RecordStart(index) + 1]>>
    BY <1>1 DEF CorpusInv, ReaderInv, ReaderPlace
  <2> QED
    BY <1>4, <2>1
<1>6. whole => /\ body \in Seq(Units) /\ Len(body) = meta.parts
               /\ \A i \in 1 .. meta.parts : body[i] = file[cursor + i]
  <2> SUFFICES ASSUME whole
               PROVE  /\ body \in Seq(Units) /\ Len(body) = meta.parts
                      /\ \A i \in 1 .. meta.parts : body[i] = file[cursor + i]
    OBVIOUS
  <2>1. /\ cursor + 1 \in Int /\ cursor + meta.parts \in Int
        /\ cursor + 1 <= cursor + meta.parts
        /\ (cursor + meta.parts) - (cursor + 1) + 1 = meta.parts
    BY <1>2, <1>3
  <2>2. \A i \in cursor + 1 .. cursor + meta.parts : file[i] \in Units
    <3>1. \A i \in cursor + 1 .. cursor + meta.parts : i \in 1 .. Len(file)
      BY <1>2, <1>3
    <3> QED
      BY <1>3, <3>1, ElementOfSeq
  <2>3. /\ body \in Seq(Units) /\ Len(body) = meta.parts
        /\ \A i \in 1 .. meta.parts : body[i] = file[(cursor + 1) + i - 1]
    BY <2>1, <2>2, SubSeqProperties
  <2>4. \A i \in 1 .. meta.parts : (cursor + 1) + i - 1 = cursor + i
    BY <1>2, <1>3
  <2> QED
    BY <2>3, <2>4
<1> HIDE DEF body
<1>7. whole => /\ picture' \in Seq(Units) /\ Len(picture') = 1 + meta.parts
               /\ picture'[1] = picture[1]
               /\ \A i \in 1 .. meta.parts : picture'[1 + i] = file[cursor + i]
  <2> SUFFICES ASSUME whole
               PROVE  /\ picture' \in Seq(Units)
                      /\ Len(picture') = 1 + meta.parts
                      /\ picture'[1] = picture[1]
                      /\ \A i \in 1 .. meta.parts :
                             picture'[1 + i] = file[cursor + i]
    OBVIOUS
  <2>1. picture' = picture \o body
    BY <1>1
  <2>2. /\ picture \o body \in Seq(Units)
        /\ Len(picture \o body) = 1 + meta.parts
        /\ \A i \in 1 .. 1 + meta.parts :
               (picture \o body)[i] = IF i <= 1 THEN picture[i] ELSE body[i - 1]
    <3>1. body \in Seq(Units) /\ picture \in Seq(Units)
      BY <1>3, <1>6
    <3>2. /\ picture \o body \in Seq(Units)
          /\ Len(picture \o body) = Len(picture) + Len(body)
          /\ \A i \in 1 .. Len(picture) + Len(body) :
                 (picture \o body)[i] = IF i <= Len(picture)
                                         THEN picture[i]
                                         ELSE body[i - Len(picture)]
      BY <3>1, ConcatProperties
    <3>3. Len(picture) = 1 /\ Len(body) = meta.parts
      BY <1>2, <1>6
    <3> QED
      BY <3>2, <3>3
  <2>3. (picture \o body)[1] = picture[1]
    BY <1>2, <2>2
  <2>4. ASSUME NEW i \in 1 .. meta.parts
        PROVE  (picture \o body)[1 + i] = file[cursor + i]
    <3>1. 1 + i \in 1 .. 1 + meta.parts /\ ~(1 + i <= 1) /\ (1 + i) - 1 = i
      BY <1>2
    <3> QED
      BY <1>6, <2>2, <3>1
  <2> QED
    BY <2>1, <2>2, <2>3, <2>4
<1>8. ReplayType'
  <2>1. cursor' \in Nat
    BY <1>1, <1>2, <1>3
  <2>2. picture' \in Seq(Units) /\ index' \in 0 .. meta.frames
    <3>1. CASE whole
      BY <1>1, <1>3, <1>7, <3>1
    <3>2. CASE ~whole
      BY <1>1, <3>2 DEF CorpusInv, TypeOK
    <3> QED
      BY <3>1, <3>2
  <2> QED
    BY <1>1, <2>1, <2>2 DEF CorpusInv, TypeOK, ReplayType
<1>9. ReaderShape'
  <2>1. reader' = "frame" => index' > 0 /\ Len(picture') = 1 + meta.parts
    BY <1>1, <1>3, <1>7
  <2> QED
    BY <1>1, <1>2, <2>1 DEF ReaderShape
<1>10. ReaderPlace'
  <2> SUFFICES ASSUME opened # 0
               PROVE  ReaderPlace'
    BY <1>1 DEF ReaderPlace
  <2>1. /\ reader' = "frame" /\ index' = index + 1
        /\ cursor' = cursor + meta.parts
    BY <1>1, <1>5
  <2>2. cursor' = RecordStart(index)'
    <3>1. RecordStart(index)' = RecordStart(index + 1)
      BY <1>1, <2>1 DEF RecordStart
    <3> QED
      BY <1>2, <1>4, <1>5, <2>1, <3>1
  <2>3. \A k \in 1 .. 1 + meta.parts :
            picture'[k] = file[RecordStart(index) + k]
    <3> SUFFICES ASSUME NEW k \in 1 .. 1 + meta.parts
                 PROVE  picture'[k] = file[RecordStart(index) + k]
      OBVIOUS
    <3>1. CASE k = 1
      BY <1>5, <1>7, <3>1
    <3>2. CASE k # 1
      <4>1. k - 1 \in 1 .. meta.parts /\ 1 + (k - 1) = k
        BY <1>2, <3>2
      <4>2. cursor + (k - 1) = RecordStart(index) + k
        BY <1>4, <1>5, <1>2
      <4> QED
        BY <1>5, <1>7, <4>1, <4>2
    <3> QED
      BY <3>1, <3>2
  <2>4. RecordStart(index - 1)' = RecordStart(index)
    <3>1. (index + 1) - 1 = index
      BY <1>3
    <3> QED
      BY <1>1, <2>1, <3>1 DEF RecordStart
  <2> QED
    BY <1>1, <2>1, <2>2, <2>3, <2>4 DEF CorpusInv, ReaderInv, ReaderPlace
<1>11. ToolShape'
  BY <1>1 DEF CorpusInv, ToolInv, ToolShape, Passing
<1>12. ToolPlace'
  <2>1. opened # 0 => index' - (IF reader' = "frame" THEN 1 ELSE 0) = index
    <3>1. (index + 1) - 1 = index
      BY <1>3
    <3>2. opened # 0 => reader' = "frame" /\ index' = index + 1
      BY <1>1, <1>5
    <3> QED
      BY <3>1, <3>2
  <2>2. index - (IF reader = "frame" THEN 1 ELSE 0) = index
    BY <1>1, <1>3
  <2> QED
    BY <1>1, <2>1, <2>2 DEF CorpusInv, ToolInv, ToolPlace, Passing
<1> QED
  BY <1>8, <1>9, <1>10, <1>11, <1>12 DEF ReplayKept, ReaderInv, ToolInv

\* A part of a picture, in the recording and among its pictures.
LEMMA PicturePlace ==
    ASSUME NEW g, NEW s \in Shapes, NEW n \in Nat, n < s.frames,
           NEW j \in 1 .. s.parts
    PROVE  /\ n * s.parts \in Nat
           /\ n * s.parts + j <= s.frames * s.parts
           /\ Pictures(g, s)[n * s.parts + j] = Unit(g, "picture", n, j)
           /\ UnitAt(g, s, HeaderSize + n * RecordSize(s) + 1 + j)
                  = Unit(g, "picture", n, j)
<1> DEFINE p == s.parts
           f == s.frames
<1>1. p \in Nat \ {0} /\ f \in Nat /\ j \in Nat /\ j <= p /\ j # 0
  BY ShapeFacts
<1>2. n < f
  OBVIOUS
<1>3. UnitAt(g, s, HeaderSize + n * RecordSize(s) + 1 + j)
          = Unit(g, "picture", n, j)
  <2>1. j \in 0 .. s.parts /\ j # 0
    BY <1>1
  <2> QED
    BY <2>1, UnitOfFrame
<1> HIDE DEF p, f
<1>4. /\ n * p \in Nat /\ (n + 1) * p = n * p + p /\ (n + 1) * p <= f * p
      /\ f * p \in Nat /\ n * p = p * n
  BY <1>1, <1>2, RecordFits
<1>5. n * p + j <= f * p /\ n * p + j \in 1 .. f * p
      /\ (n * p + j) - 1 = p * n + (j - 1)
  BY <1>1, <1>4
<1>6. (p * n + (j - 1)) \div p = n /\ (p * n + (j - 1)) % p = j - 1
  <2>1. n \in Int /\ j - 1 \in 0 .. p - 1
    BY <1>1
  <2> QED
    BY <1>1, <2>1, DivisionUnique, Zenon
<1>7. (j - 1) + 1 = j
  BY <1>1
<1>8. Pictures(g, s)[n * p + j] = Unit(g, "picture", n, j)
  BY <1>5, <1>6, <1>7 DEF Pictures, p, f
<1> QED
  BY <1>3, <1>4, <1>5, <1>8 DEF p, f

\* The first n parts of the picture that was read.
LEMMA PicturePart ==
    ASSUME meta.parts \in Nat, picture \in Seq(Units),
           Len(picture) = 1 + meta.parts, NEW n \in 0 .. meta.parts
    PROVE  /\ SubSeq(picture, 2, 1 + n) \in Seq(Units)
           /\ Len(SubSeq(picture, 2, 1 + n)) = n
           /\ \A i \in 1 .. n : SubSeq(picture, 2, 1 + n)[i] = picture[1 + i]
<1> DEFINE body == SubSeq(picture, 2, 1 + n)
<1>1. /\ n \in Nat /\ 2 \in Int /\ 1 + n \in Int
      /\ (1 + n) - 2 + 1 = n /\ (2 <= 1 + n \/ n = 0)
  OBVIOUS
<1>2. \A i \in 2 .. 1 + n : picture[i] \in Units
  <2>1. \A i \in 2 .. 1 + n : i \in 1 .. Len(picture)
    OBVIOUS
  <2> QED
    BY <2>1, ElementOfSeq
<1>3. /\ body \in Seq(Units)
      /\ Len(body) = IF 2 <= 1 + n THEN (1 + n) - 2 + 1 ELSE 0
      /\ \A i \in 1 .. (1 + n) - 2 + 1 : body[i] = picture[2 + i - 1]
  BY <1>1, <1>2, SubSeqProperties
<1>4. \A i \in 1 .. n : 2 + i - 1 = 1 + i
  BY <1>1
<1> HIDE DEF body
<1>5. Len(body) = n
  BY <1>1, <1>3
<1> QED
  BY <1>1, <1>3, <1>4, <1>5 DEF body

\* What an export of n parts appends is the beginning of the picture read.
LEMMA ExportedUnits ==
    ASSUME CorpusInv, tool = "export", reader = "frame", opened # 0,
           NEW n \in 0 .. meta.parts
    PROVE  LET units == exported.units \o SubSeq(picture, 2, 1 + n)
           IN  /\ shape \in Shapes /\ shape = meta
               /\ Len(units) = (index - 1) * meta.parts + n
               /\ Len(units) <= shape.frames * shape.parts
               /\ \A k \in 1 .. Len(units) :
                      units[k] = Pictures(gen, shape)[k]
<1> DEFINE done == (index - 1) * meta.parts
           body == SubSeq(picture, 2, 1 + n)
           units == exported.units \o body
<1>0. /\ body \in Seq(Units) /\ Len(body) = n
      /\ \A i \in 1 .. n : body[i] = picture[1 + i]
  <2>1. /\ meta.parts \in Nat /\ picture \in Seq(Units)
        /\ Len(picture) = 1 + meta.parts
    BY ShapeFacts DEF CorpusInv, TypeOK, ReaderInv, ReaderShape
  <2> QED
    BY <2>1, PicturePart
<1>1. /\ meta \in Shapes /\ shape = meta /\ index > 0 /\ opened = gen
      /\ Len(file) = CorpusSize(meta)
      /\ \A k \in 1 .. 1 + meta.parts :
             picture[k] = file[RecordStart(index - 1) + k]
  BY ShapeFacts DEF CorpusInv, TypeOK, ReaderInv, ReaderShape, ReaderPlace
<1>2. /\ meta.frames \in Nat \ {0} /\ meta.parts \in Nat \ {0}
  BY <1>1, ShapeFacts
<1>3. index - 1 \in Nat /\ index - 1 < meta.frames /\ n \in Nat
      /\ index \in Nat /\ index <= meta.frames /\ (index - 1) + 1 = index
  BY <1>1, <1>2 DEF CorpusInv, TypeOK
<1>4. /\ Len(exported.units) = done
      /\ \A k \in 1 .. Len(exported.units) :
             exported.units[k] = Pictures(gen, shape)[k]
  BY <1>1 DEF CorpusInv, ToolInv, ToolPlace, Passing
<1>5. exported.units \in Seq(Units)
  BY DEF CorpusInv, TypeOK
<1>6. done \in Nat /\ done + meta.parts = index * meta.parts
      /\ index * meta.parts <= meta.frames * meta.parts
      /\ meta.frames * meta.parts \in Nat /\ index * meta.parts \in Nat
  <2> DEFINE m == index - 1
  <2>1. m \in Nat /\ m < meta.frames /\ m + 1 = index
    BY <1>3
  <2> HIDE DEF m
  <2>2. /\ m * meta.parts \in Nat
        /\ (m + 1) * meta.parts = m * meta.parts + meta.parts
        /\ (m + 1) * meta.parts <= meta.frames * meta.parts
    BY <1>2, <2>1, RecordFits
  <2>3. meta.frames * meta.parts \in Nat /\ index * meta.parts \in Nat
    BY <1>2, <1>3
  <2> QED
    BY <2>1, <2>2, <2>3 DEF m
<1> HIDE DEF done, body
<1>7. /\ Len(units) = done + n
      /\ \A k \in 1 .. done + n :
             units[k] = IF k <= done THEN exported.units[k] ELSE body[k - done]
  <2>1. /\ Len(units) = Len(exported.units) + Len(body)
        /\ \A k \in 1 .. Len(exported.units) + Len(body) :
               units[k] = IF k <= Len(exported.units)
                            THEN exported.units[k]
                            ELSE body[k - Len(exported.units)]
    BY <1>0, <1>5, ConcatProperties
  <2> QED
    BY <1>0, <1>4, <2>1
<1> HIDE DEF units
<1>8. done + n <= meta.frames * meta.parts
  BY <1>2, <1>3, <1>6
<1>9. ASSUME NEW k \in 1 .. done + n
      PROVE  units[k] = Pictures(gen, shape)[k]
  <2>1. CASE k <= done
    <3>1. k \in 1 .. done
      BY <1>3, <1>6, <2>1
    <3> QED
      BY <1>4, <1>7, <2>1, <3>1
  <2>2. CASE ~(k <= done)
    <3> DEFINE j == k - done
    <3>1. /\ j \in 1 .. n /\ j \in 1 .. meta.parts /\ done + j = k
          /\ 1 + j \in 1 .. 1 + meta.parts
      BY <1>2, <1>3, <1>6, <2>2
    <3>2. units[k] = body[j]
      BY <1>7, <2>2
    <3> HIDE DEF j
    <3>3. body[j] = file[RecordStart(index - 1) + (1 + j)]
      BY <1>0, <1>1, <3>1
    <3>4. /\ RecordStart(index - 1) \in Nat
          /\ RecordStart((index - 1) + 1)
                 = RecordStart(index - 1) + 1 + meta.parts
          /\ RecordStart((index - 1) + 1) <= CorpusSize(meta)
      BY <1>1, <1>3, RecordPlaces
    <3>5. /\ RecordStart(index - 1) + (1 + j) \in 1 .. Len(file)
          /\ RecordStart(index - 1) + (1 + j) = RecordStart(index - 1) + 1 + j
      <4> DEFINE first == RecordStart(index - 1)
                 size == CorpusSize(meta)
      <4>1. /\ first \in Nat /\ size \in Nat /\ Len(file) = size
            /\ first + 1 + meta.parts <= size
        BY <1>1, <3>4, ShapeFacts
      <4>2. j \in Nat /\ j >= 1 /\ j <= meta.parts
        BY <1>2, <3>1
      <4> HIDE DEF first, size
      <4>3. first + (1 + j) \in 1 .. size /\ first + (1 + j) = first + 1 + j
        BY <1>2, <4>1, <4>2
      <4> QED
        BY <4>1, <4>3 DEF first
    <3>6. body[j] = UnitAt(gen, shape, RecordStart(index - 1) + 1 + j)
      BY <3>3, <3>5 DEF CorpusInv, RecorderInv, IsPrefixOfComplete
    <3>7. /\ Pictures(gen, shape)[done + j]
                 = Unit(gen, "picture", index - 1, j)
          /\ UnitAt(gen, shape, RecordStart(index - 1) + 1 + j)
                 = Unit(gen, "picture", index - 1, j)
      BY <1>1, <1>3, <3>1, PicturePlace DEF done, RecordStart
    <3> QED
      BY <3>1, <3>2, <3>6, <3>7
  <2> QED
    BY <2>1, <2>2
<1> QED
  BY <1>1, <1>6, <1>7, <1>8, <1>9 DEF done, body, units

LEMMA ExportingStep ==
    ASSUME CorpusInv, tool = "export", reader = "frame",
           NEW n \in 0 .. meta.parts, NEW then \in {"open", "done", "refused"},
           n = meta.parts \/ then = "refused",
           then = "done" => index = meta.frames,
           Exporting(n, then)
    PROVE  ReplayKept
<1> DEFINE body == SubSeq(picture, 2, 1 + n)
           units == exported.units \o body
<1>1. /\ exported' = [exported EXCEPT !.units = @ \o body, !.of = opened]
      /\ reader' = then
      /\ UNCHANGED <<meta, cursor, index, picture, opened, tool, decoded>>
      /\ UNCHANGED <<file, gen, shape>>
  BY DEF Exporting, recorderVars
<1>2. exported \in [parts : Nat, units : Seq(Units), of : 0 .. gen]
  BY DEF CorpusInv, TypeOK
<1>3. /\ exported'.units = units /\ exported'.of = opened
      /\ exported'.parts = exported.parts
  BY <1>1, <1>2
<1>4. /\ meta \in Shapes /\ meta # NoShape /\ meta.parts \in Nat \ {0}
      /\ Len(picture) = 1 + meta.parts /\ picture \in Seq(Units)
      /\ index > 0 /\ index \in Nat
  BY ShapeFacts DEF CorpusInv, TypeOK, ReaderInv, ReaderShape
<1>5. body \in Seq(Units)
  BY <1>4, PicturePart
<1>6. exported.units \in Seq(Units) /\ units \in Seq(Units)
  <2> HIDE DEF body
  <2> QED
    BY <1>2, <1>5, ConcatProperties
<1>7. opened # 0 =>
          /\ shape \in Shapes /\ shape = meta
          /\ Len(units) = (index - 1) * meta.parts + n
          /\ Len(units) <= shape.frames * shape.parts
          /\ \A k \in 1 .. Len(units) : units[k] = Pictures(gen, shape)[k]
  BY ExportedUnits
<1> HIDE DEF body, units
<1>8. ReplayType'
  <2>1. opened \in 0 .. gen
    BY DEF CorpusInv, TypeOK
  <2>2. exported' \in [parts : Nat, units : Seq(Units), of : 0 .. gen]
    BY <1>1, <1>2, <1>6, <2>1 DEF units
  <2> QED
    BY <1>1, <2>2 DEF CorpusInv, TypeOK, ReplayType
<1>9. ReaderShape'
  BY <1>1, <1>4 DEF CorpusInv, ReaderInv, ReaderShape, Tools
<1>10. ReaderPlace'
  <2>1. RecordStart(index)' = RecordStart(index)
    BY <1>1 DEF RecordStart
  <2> QED
    BY <1>1, <2>1 DEF CorpusInv, ReaderInv, ReaderPlace
<1>11. ToolShape'
  <2>1. decoded = << >> /\ exported.parts = meta.parts
    BY DEF CorpusInv, ToolInv, ToolShape, Passing
  <2>2. Len(decoded) = 0
    BY <2>1
  <2>3. Len(units) \in Nat
    BY <1>6
  <2>4. Len(decoded') <= Len(exported'.units)
    BY <1>1, <1>3, <2>2, <2>3
  <2>5. 1 .. Len(decoded') = {}
    BY <1>1, <2>2
  <2>6. reader' \notin {"header", "checked"}
    BY <1>1
  <2> QED
    BY <1>1, <1>3, <1>4, <2>1, <2>4, <2>5, <2>6 DEF ToolShape, NoExport
<1>12. ToolPlace'
  <2>1. CASE opened = 0
    BY <1>1, <1>3, <2>1 DEF ToolPlace
  <2>2. CASE opened # 0
    <3>1. Passing' => Len(exported'.units) = index * meta.parts
      <4> SUFFICES ASSUME Passing'
                   PROVE  Len(units) = index * meta.parts
        BY <1>3
      <4>1. n = meta.parts
        BY <1>1 DEF Passing
      <4> DEFINE m == index - 1
      <4>2. m \in Nat /\ m + 1 = index
        BY <1>4
      <4>3. Len(units) = m * meta.parts + meta.parts
        BY <1>7, <2>2, <4>1
      <4> HIDE DEF m
      <4>4. (m + 1) * meta.parts = m * meta.parts + meta.parts
        BY <1>4, <4>2
      <4> QED
        BY <4>2, <4>3, <4>4
    <3>2. index' - (IF reader' = "frame" THEN 1 ELSE 0) = index
      BY <1>1, <1>4
    <3>3. shape' # NoShape
      BY <1>1, <1>4, <1>7, <2>2
    <3>4. /\ Len(exported'.units) <= shape'.frames * shape'.parts
          /\ \A k \in 1 .. Len(exported'.units) :
                 exported'.units[k] = Pictures(gen', shape')[k]
      BY <1>1, <1>3, <1>7, <2>2
    <3> QED
      BY <1>1, <3>1, <3>2, <3>3, <3>4 DEF ToolPlace
  <2> QED
    BY <2>1, <2>2
<1> QED
  BY <1>8, <1>9, <1>10, <1>11, <1>12 DEF ReplayKept, ReaderInv, ToolInv

\* Whether a frame was the last one.
LEMMA NextFrameIs ==
    ASSUME TypeOK, ReaderShape, reader = "frame"
    PROVE  /\ NextFrame \in {"open", "done"}
           /\ NextFrame = "done" => index = meta.frames
<1>1. meta \in Shapes
  BY DEF TypeOK, ReaderShape
<1>2. meta.frames \in Nat /\ index \in Nat /\ index <= meta.frames
  BY <1>1, ShapeFacts DEF TypeOK
<1> QED
  BY <1>2 DEF NextFrame

LEMMA ExportFrameStep ==
    ASSUME CorpusInv, ExportFrame
    PROVE  ReplayKept
<1>1. tool = "export" /\ reader = "frame" /\ meta \in Shapes
  BY DEF ExportFrame, CorpusInv, TypeOK, ReaderInv, ReaderShape
<1>2. meta.parts \in Nat \ {0}
  BY <1>1, ShapeFacts
<1>3. CASE Exporting(meta.parts, NextFrame)
  <2>1. meta.parts \in 0 .. meta.parts
    BY <1>2
  <2> QED
    BY <1>1, <1>3, <2>1, NextFrameIs, ExportingStep DEF CorpusInv, ReaderInv
<1>4. CASE \E n \in 0 .. meta.parts - 1 : Exporting(n, "refused")
  <2>1. PICK n \in 0 .. meta.parts - 1 : Exporting(n, "refused")
    BY <1>4
  <2>2. n \in 0 .. meta.parts
    BY <1>2
  <2> QED
    BY <1>1, <2>1, <2>2, ExportingStep
<1> QED
  BY <1>3, <1>4 DEF ExportFrame

LEMMA AnalyzeFrameStep ==
    ASSUME CorpusInv, AnalyzeFrame
    PROVE  ReplayKept
<1>1. /\ tool = "analyze" /\ reader = "frame"
      /\ reader' \in {NextFrame, "refused"}
      /\ UNCHANGED <<meta, cursor, index, picture, opened, tool, exported,
                     decoded>>
      /\ UNCHANGED <<file, gen, shape>>
  BY DEF AnalyzeFrame, recorderVars, toolVars
<1>2. /\ reader' \in {"open", "done", "refused"}
      /\ reader' = "done" => index = meta.frames
  BY <1>1, NextFrameIs DEF CorpusInv, ReaderInv
<1>3. ReplayType'
  BY <1>1, <1>2 DEF CorpusInv, TypeOK, ReplayType
<1>4. ReaderShape'
  BY <1>1, <1>2 DEF CorpusInv, ReaderInv, ReaderShape
<1>5. ReaderPlace'
  <2>1. RecordStart(index)' = RecordStart(index)
    BY <1>1 DEF RecordStart
  <2> QED
    BY <1>1, <1>2, <2>1 DEF CorpusInv, ReaderInv, ReaderPlace
<1>6. ToolShape' /\ ToolPlace'
  BY <1>1, <1>2 DEF CorpusInv, ToolInv, ToolShape, ToolPlace, Passing
<1> QED
  BY <1>3, <1>4, <1>5, <1>6 DEF ReplayKept, ReaderInv, ToolInv

LEMMA CloseStep ==
    ASSUME CorpusInv, Close
    PROVE  ReplayKept
<1>1. /\ reader' = "closed" /\ tool' = "none" /\ meta' = NoShape
      /\ cursor' = 0 /\ index' = 0 /\ picture' = << >> /\ opened' = 0
      /\ UNCHANGED <<exported, decoded, file, gen, shape>>
  BY DEF Close, recorderVars
<1>2. ReplayType'
  <2>1. picture' \in Seq(Units) /\ cursor' \in Nat
    BY <1>1
  <2>2. index' \in 0 .. meta'.frames
    BY <1>1 DEF NoShape
  <2>3. 0 \in 0 .. gen
    BY TimeAssumption DEF CorpusInv, TypeOK
  <2> QED
    BY <1>1, <2>1, <2>2, <2>3 DEF CorpusInv, TypeOK, ReplayType
<1>3. ReaderShape' /\ ReaderPlace'
  BY <1>1 DEF ReaderShape, ReaderPlace
<1>4. ToolShape' /\ ToolPlace'
  BY <1>1 DEF CorpusInv, ToolInv, ToolShape, ToolPlace, Passing
<1> QED
  BY <1>2, <1>3, <1>4 DEF ReplayKept, ReaderInv, ToolInv

LEMMA TranscodeStep ==
    ASSUME CorpusInv, Transcode
    PROVE  ReplayKept
<1> DEFINE parts == exported.parts
           all == Len(exported.units)
           count == (all \div parts) * parts
<1>1. /\ reader = "closed" /\ exported.units # << >>
      /\ decoded' = SubSeq(exported.units, 1, count)
      /\ UNCHANGED <<reader, meta, cursor, index, picture, opened, tool,
                     exported>>
      /\ UNCHANGED <<file, gen, shape>>
  BY DEF Transcode, recorderVars
<1>2. exported.units \in Seq(Units) /\ parts \in Nat \ {0} /\ tool = "none"
  BY <1>1 DEF CorpusInv, TypeOK, ToolInv, ToolShape, ReaderInv, ReaderShape
<1>3. all \in Nat
  BY <1>2
<1> HIDE DEF parts, all
<1>4. count \in Nat /\ count <= all
  <2>1. /\ all \div parts \in Int /\ all = parts * (all \div parts) + (all % parts)
        /\ all % parts \in 0 .. parts - 1
    BY <1>2, <1>3, Division
  <2>2. all \div parts \in Nat
    BY <1>2, <1>3
  <2> DEFINE q == all \div parts
             r == all % parts
  <2>3. q \in Nat /\ r \in Nat /\ all = parts * q + r
    BY <1>2, <2>1, <2>2
  <2> HIDE DEF q, r
  <2>4. q * parts \in Nat /\ q * parts = parts * q
    BY <1>2, <2>3
  <2>5. q * parts <= all
    BY <1>3, <2>3, <2>4
  <2> QED
    BY <2>4, <2>5 DEF q
<1> HIDE DEF count
<1>5. /\ decoded' \in Seq(Units) /\ Len(decoded') = count
      /\ \A k \in 1 .. count : decoded'[k] = exported.units[k]
  <2>1. \A i \in 1 .. count : exported.units[i] \in Units
    <3>1. \A i \in 1 .. count : i \in 1 .. Len(exported.units)
      BY <1>3, <1>4 DEF all
    <3> QED
      BY <1>2, <3>1, ElementOfSeq
  <2>2. 1 \in Int /\ count \in Int /\ count - 1 + 1 = count
        /\ (1 <= count \/ count = 0)
    BY <1>4
  <2>3. /\ decoded' \in Seq(Units)
        /\ Len(decoded') = IF 1 <= count THEN count - 1 + 1 ELSE 0
        /\ \A i \in 1 .. count - 1 + 1 : decoded'[i] = exported.units[1 + i - 1]
    BY <1>1, <2>1, <2>2, SubSeqProperties
  <2>4. \A i \in 1 .. count : 1 + i - 1 = i
    OBVIOUS
  <2>5. Len(decoded') = count
    BY <2>2, <2>3
  <2> QED
    BY <2>2, <2>3, <2>4, <2>5
<1>6. ReplayType'
  BY <1>1, <1>5 DEF CorpusInv, TypeOK, ReplayType
<1>7. ReaderShape' /\ ReaderPlace'
  BY <1>1 DEF CorpusInv, ReaderInv, ReaderShape, ReaderPlace
<1>8. ToolShape'
  <2>1. exported' # NoExport
    BY <1>1 DEF NoExport
  <2> QED
    BY <1>1, <1>2, <1>4, <1>5, <2>1 DEF CorpusInv, ToolInv, ToolShape, Passing, all
<1>9. ToolPlace'
  BY <1>1, <1>2 DEF CorpusInv, ToolInv, ToolPlace, Passing
<1> QED
  BY <1>6, <1>7, <1>8, <1>9 DEF ReplayKept, ReaderInv, ToolInv

-----------------------------------------------------------------------------
(* The invariant is inductive.                                              *)

LEMMA CorpusInvInit == Init => CorpusInv
<1> SUFFICES ASSUME Init
             PROVE  CorpusInv
  OBVIOUS
<1>1. Len(file) = 0 /\ Len(decoded) = 0 /\ exported.units = << >>
      /\ exported.of = 0 /\ exported.parts = 0 /\ Len(exported.units) = 0
  BY DEF Init, NoExport
<1>2. TypeOK
  <2>1. /\ file \in Seq(Units) /\ picture \in Seq(Units)
        /\ decoded \in Seq(Units) /\ exported.units \in Seq(Units)
    BY <1>1 DEF Init
  <2>2. exported \in [parts : Nat, units : Seq(Units), of : 0 .. gen]
    BY <1>1, <2>1 DEF Init, NoExport
  <2>3. /\ gen \in 0 .. MaxGen /\ now \in 0 .. MaxTime /\ start \in 0 .. now
        /\ lastFrame \in 0 .. now /\ called \in 0 .. now /\ cursor \in Nat
        /\ opened \in 0 .. gen
    BY TimeAssumption DEF Init
  <2>4. written \in 0 .. shape.frames /\ index \in 0 .. meta.frames
    BY DEF Init, NoShape
  <2> QED
    BY <2>1, <2>2, <2>3, <2>4 DEF Init, TypeOK, Phases
<1>3. RecorderInv
  <2>1. CorpusSize(shape) = HeaderSize + 0 * RecordSize(shape)
    BY DEF Init, NoShape, CorpusSize
  <2>2. RecordSize(shape) \in Nat
    BY DEF Init, NoShape, RecordSize
  <2>3. 0 * RecordSize(shape) = 0
    BY <2>2
  <2>4. Len(file) <= CorpusSize(shape)
    BY <1>1, <2>1, <2>3 DEF HeaderSize
  <2> QED
    BY <1>1, <2>4 DEF Init, RecorderInv, Progress, IsPrefixOfComplete, IdleClock
<1>4. ReaderInv
  BY DEF Init, ReaderInv, ReaderShape, ReaderPlace
<1>5. ToolInv
  BY <1>1 DEF Init, ToolInv, ToolShape, ToolPlace, Passing
<1> QED
  BY <1>2, <1>3, <1>4, <1>5 DEF CorpusInv

LEMMA CorpusInvStep == CorpusInv /\ [Next]_vars => CorpusInv'
<1> SUFFICES ASSUME CorpusInv, [Next]_vars
             PROVE  CorpusInv'
  OBVIOUS
<1>1. RecorderType /\ ReplayType /\ RecorderInv /\ ReaderInv /\ ToolInv
  BY TypeParts DEF CorpusInv
<1>2. TypeOK' <=> RecorderType' /\ ReplayType'
  BY DEF TypeOK, RecorderType, ReplayType
<1>3. CASE Recorder \/ Tick
  <2>1. RecorderType' /\ RecorderInv' /\ (Keeps \/ Grows \/ StartsOver)
    BY <1>1, <1>3, RecorderStep
  <2>2. ReplayType' /\ ReaderInv' /\ ToolInv'
    BY <1>1, <2>1, ReplayUndisturbed DEF CorpusInv
  <2> QED
    BY <1>2, <2>1, <2>2 DEF CorpusInv
<1>4. CASE Replay
  <2>1. RecorderType' /\ RecorderInv'
    BY <1>1, <1>4, ReplayKeeps, RecorderUnchanged
  <2>2. ReplayKept
    BY <1>4, OpenStep, CheckLengthStep, ResetStep, ReadStampStep,
       ReadPictureStep, ExportFrameStep, AnalyzeFrameStep, CloseStep,
       TranscodeStep DEF Replay
  <2> QED
    BY <1>2, <2>1, <2>2 DEF CorpusInv, ReplayKept
<1>5. CASE UNCHANGED vars
  <2>1. UNCHANGED recorderVars /\ Keeps
    BY <1>5 DEF vars, recorderVars, Keeps, readerVars, toolVars
  <2>2. RecorderType' /\ RecorderInv'
    BY <1>1, <2>1, RecorderUnchanged
  <2>3. ReplayType' /\ ReaderInv' /\ ToolInv'
    BY <1>1, <2>1, ReplayUndisturbed DEF CorpusInv
  <2> QED
    BY <1>2, <2>2, <2>3 DEF CorpusInv
<1> QED
  BY <1>3, <1>4, <1>5 DEF Next

LEMMA CorpusInvHolds == Spec => []CorpusInv
BY CorpusInvInit, CorpusInvStep, PTL DEF Spec

-----------------------------------------------------------------------------
(* What follows from it.                                                    *)

\* The recorder and the replay keep their types: record_desktop never writes
\* more frames than it was asked for, the index of a replay never passes the
\* frame count it read, and nothing overruns its clock.
THEOREM TypesAreKept == Spec => []TypeOK
<1>1. CorpusInv => TypeOK
  BY DEF CorpusInv
<1> QED
  BY <1>1, CorpusInvHolds, PTL

\* A file that open() accepts is a finished recording, and every finished
\* recording is accepted: the exact length check tells a recording that ended
\* well from one that is under way or was given up.
THEOREM RecordingsAreOpenable == Spec => []RecordedIsOpenable
<1>1. CorpusInv => RecordedIsOpenable
  <2> SUFFICES ASSUME CorpusInv
               PROVE  RecordedIsOpenable
    OBVIOUS
  <2>1. CanOpen(file) <=> shape \in Shapes /\ Len(file) = CorpusSize(shape)
    BY OpenIsComplete DEF CorpusInv
  <2>2. ASSUME phase \notin {"idle", "failed"}
        PROVE  shape \in Shapes
    BY <2>2 DEF CorpusInv, TypeOK, RecorderInv, Progress
  <2>3. phase = "recorded" => CanOpen(file)
    BY <2>1, <2>2 DEF CorpusInv, RecorderInv, Progress
  <2>4. ASSUME phase \in {"timed out", "header", "delay", "polling", "picture"}
        PROVE  Len(file) # CorpusSize(shape)
    <3>1. /\ shape \in Shapes /\ shape.frames \in Nat \ {0}
          /\ RecordSize(shape) \in Nat \ {0, 1} /\ shape.parts \in Nat
          /\ RecordSize(shape) = 1 + shape.parts
          /\ CorpusSize(shape) = HeaderSize + shape.frames * RecordSize(shape)
      BY <2>2, <2>4, ShapeFacts
    <3>2. CorpusSize(shape) > HeaderSize /\ CorpusSize(shape) \in Nat
      <4>1. shape.frames * RecordSize(shape) \in Nat \ {0}
        BY <3>1
      <4> QED
        BY <3>1, <4>1 DEF HeaderSize
    <3>3. Len(file) \in Nat /\ written \in Nat
      BY <3>1 DEF CorpusInv, TypeOK
    <3>4. CASE phase \in {"header", "delay"}
      <4>1. Len(file) < HeaderSize \/ Len(file) = HeaderSize
        BY <3>4 DEF CorpusInv, RecorderInv, Progress
      <4>2. HeaderSize \in Nat
        BY DEF HeaderSize
      <4> QED
        BY <3>2, <3>3, <4>1, <4>2
    <3>5. CASE phase \in {"timed out", "polling", "picture"}
      <4>1. /\ written < shape.frames
            /\ Len(file) = Frontier
                  \/ Len(file) \in Frontier + 1 .. Frontier + shape.parts
        BY <3>5 DEF CorpusInv, RecorderInv, Progress
      <4>2. /\ Frontier \in Nat
            /\ Frontier + RecordSize(shape) <= CorpusSize(shape)
        BY <3>1, <3>3, <4>1, FrontierFacts
      <4> QED
        BY <3>1, <3>2, <3>3, <4>1, <4>2
    <3> QED
      BY <2>4, <3>4, <3>5
  <2> QED
    BY <2>1, <2>3, <2>4 DEF RecordedIsOpenable
<1> QED
  BY <1>1, CorpusInvHolds, PTL

\* The idle timeout is honest: the recorder gives up only after the whole
\* timeout without a frame, and polls on at most one poll longer.
THEOREM TimeoutsAreIdle == Spec => []TimeoutIsIdle
<1>1. CorpusInv => TimeoutIsIdle
  <2> SUFFICES ASSUME CorpusInv
               PROVE  TimeoutIsIdle
    OBVIOUS
  <2>1. /\ now \in Nat /\ lastFrame \in Nat /\ called \in Nat
        /\ IdleTimeout \in Nat /\ Poll \in Nat /\ Grace \in Nat
    BY TimeAssumption DEF CorpusInv, TypeOK
  <2>2. phase = "polling" => now - lastFrame < IdleTimeout + Poll + Grace
    <3>1. phase = "polling" => /\ called - lastFrame < IdleTimeout
                               /\ now <= called + Poll + Grace
      BY DEF CorpusInv, RecorderInv, IdleClock
    <3> QED
      BY <2>1, <3>1
  <2> QED
    BY <2>2 DEF CorpusInv, RecorderInv, IdleClock, TimeoutIsIdle
<1> QED
  BY <1>1, CorpusInvHolds, PTL

\* The units of a frame, cut out of the complete recording.
LEMMA RecordOfComplete ==
    ASSUME NEW g, NEW s \in Shapes, NEW n \in Nat, n < s.frames,
           NEW got \in Seq(Units), Len(got) = RecordSize(s),
           \A k \in 1 .. RecordSize(s) :
               got[k] = UnitAt(g, s, HeaderSize + n * RecordSize(s) + k)
    PROVE  got = SubSeq(Complete(g, s), HeaderSize + n * RecordSize(s) + 1,
                        HeaderSize + (n + 1) * RecordSize(s))
<1> DEFINE r == RecordSize(s)
           first == HeaderSize + n * r
           size == CorpusSize(s)
           cut == SubSeq(Complete(g, s), first + 1, first + r)
<1>1. /\ r \in Nat \ {0, 1} /\ s.frames \in Nat
      /\ size = HeaderSize + s.frames * r /\ size \in Nat
  BY ShapeFacts
<1>2. Complete(g, s) = [place \in 1 .. size |-> UnitAt(g, s, place)]
  BY DEF Complete
<1> HIDE DEF r, size
<1>3. n * r \in Nat /\ (n + 1) * r = n * r + r /\ (n + 1) * r <= s.frames * r
  BY <1>1, RecordFits
<1>4. s.frames * r \in Nat
  BY <1>1
<1>5. /\ first \in Nat /\ first + r <= size
      /\ HeaderSize + (n + 1) * r = first + r
  <2> DEFINE a == n * r
             b == (n + 1) * r
             c == s.frames * r
  <2>1. a \in Nat /\ b = a + r /\ b <= c /\ c \in Nat /\ size = HeaderSize + c
    BY <1>1, <1>3, <1>4
  <2> HIDE DEF a, b, c
  <2>2. HeaderSize + a \in Nat /\ HeaderSize + a + r <= size
        /\ HeaderSize + b = HeaderSize + a + r
    BY <1>1, <2>1 DEF HeaderSize
  <2> QED
    BY <2>2 DEF a, b
<1>6. \A k \in 1 .. r : got[k] = UnitAt(g, s, first + k)
  BY DEF r
<1>7. Len(got) = r
  BY DEF r
<1> HIDE DEF first
<1>8. \A k \in 1 .. r : first + k \in 1 .. size
  BY <1>1, <1>5
<1>9. \A i \in first + 1 .. first + r : Complete(g, s)[i] \in Units
  <2>0. got \in Seq(Units)
    OBVIOUS
  <2> SUFFICES ASSUME NEW i \in first + 1 .. first + r
               PROVE  Complete(g, s)[i] \in Units
    OBVIOUS
  <2>1. i - first \in 1 .. r /\ first + (i - first) = i
    BY <1>1, <1>5
  <2> DEFINE k == i - first
  <2>2. k \in 1 .. r /\ first + k = i
    BY <2>1
  <2> HIDE DEF k
  <2>3. Complete(g, s)[i] = UnitAt(g, s, i)
    BY <1>2, <1>8, <2>2
  <2>4. UnitAt(g, s, i) = got[k]
    BY <1>6, <2>2
  <2>5. got[k] \in Units
    BY <1>7, <2>0, <2>2, ElementOfSeq
  <2> QED
    BY <2>3, <2>4, <2>5
<1>10. /\ first + 1 \in Int /\ first + r \in Int /\ first + 1 <= first + r
       /\ (first + r) - (first + 1) + 1 = r
  BY <1>1, <1>5
<1>11. /\ cut \in Seq(Units) /\ Len(cut) = r
       /\ \A k \in 1 .. r : cut[k] = Complete(g, s)[(first + 1) + k - 1]
  BY <1>9, <1>10, SubSeqProperties
<1> HIDE DEF cut
<1>12. ASSUME NEW k \in 1 .. r
       PROVE  got[k] = cut[k]
  <2>1. (first + 1) + k - 1 = first + k
    BY <1>1, <1>5
  <2>2. cut[k] = UnitAt(g, s, first + k)
    BY <1>2, <1>8, <1>11, <2>1
  <2> QED
    BY <1>6, <2>2
<1>13. got = cut
  BY <1>7, <1>11, <1>12, SeqEqual
<1> QED
  BY <1>5, <1>13 DEF cut, first, r

\* The replay hands out the frame it was asked for, whole, as long as nobody
\* records over the file, and never runs off its end: the index, which
\* read_frame checks, and the file position, where it reads, stay together
\* through every reset and every pass.
THEOREM FramesAreRead == Spec => []ReadsTheFrameAskedFor
<1>1. CorpusInv => ReadsTheFrameAskedFor
  <2> SUFFICES ASSUME CorpusInv, opened # 0
               PROVE  /\ reader # "broken"
                      /\ reader = "frame" =>
                           picture = SubSeq(Complete(opened, meta),
                               HeaderSize + (index - 1) * RecordSize(meta) + 1,
                               HeaderSize + index * RecordSize(meta))
    BY DEF ReadsTheFrameAskedFor
  <2>1. reader # "broken" /\ opened = gen /\ meta = shape /\ shape \in Shapes
    BY DEF CorpusInv, TypeOK, ReaderInv, ReaderPlace
  <2>2. ASSUME reader = "frame"
        PROVE  picture = SubSeq(Complete(opened, meta),
                             HeaderSize + (index - 1) * RecordSize(meta) + 1,
                             HeaderSize + index * RecordSize(meta))
    <3> DEFINE n == index - 1
    <3>1. /\ meta.frames \in Nat /\ meta.parts \in Nat
          /\ RecordSize(meta) = 1 + meta.parts
          /\ CorpusSize(meta) \in Nat
      BY <2>1, ShapeFacts
    <3>2. index > 0 /\ index \in 0 .. meta.frames
      BY <2>2 DEF CorpusInv, TypeOK, ReaderInv, ReaderShape
    <3>3. n \in Nat /\ n < meta.frames /\ n + 1 = index
      BY <3>1, <3>2
    <3>4. /\ picture \in Seq(Units) /\ Len(picture) = RecordSize(meta)
          /\ Len(file) = CorpusSize(meta)
          /\ \A k \in 1 .. RecordSize(meta) :
                 picture[k] = file[RecordStart(n) + k]
      BY <2>1, <2>2, <3>1 DEF CorpusInv, TypeOK, ReaderInv, ReaderShape,
                              ReaderPlace
    <3>5. /\ RecordStart(n) \in Nat
          /\ RecordStart(n + 1) = RecordStart(n) + 1 + meta.parts
          /\ RecordStart(n + 1) <= CorpusSize(meta)
      BY <2>1, <3>3, RecordPlaces
    <3> HIDE DEF n
    <3>6. ASSUME NEW k \in 1 .. RecordSize(meta)
          PROVE  picture[k] = UnitAt(gen, meta, RecordStart(n) + k)
      <4> DEFINE start0 == RecordStart(n)
      <4>1. /\ start0 \in Nat /\ k \in 1 .. 1 + meta.parts
            /\ start0 + 1 + meta.parts <= CorpusSize(meta)
        BY <3>1, <3>5
      <4> HIDE DEF start0
      <4>2. start0 + k \in 1 .. CorpusSize(meta)
        BY <3>1, <4>1
      <4>3. file[start0 + k] = UnitAt(gen, shape, start0 + k)
        BY <3>4, <4>2 DEF CorpusInv, RecorderInv, IsPrefixOfComplete
      <4> QED
        BY <2>1, <3>4, <4>3 DEF start0
    <3>7. picture = SubSeq(Complete(gen, meta),
                           HeaderSize + n * RecordSize(meta) + 1,
                           HeaderSize + (n + 1) * RecordSize(meta))
      BY <2>1, <3>3, <3>4, <3>6, RecordOfComplete DEF RecordStart
    <3> QED
      BY <2>1, <3>3, <3>7 DEF n
  <2> QED
    BY <2>1, <2>2
<1> QED
  BY <1>1, CorpusInvHolds, PTL

\* Units that agree with the pictures of a recording everywhere are they.
LEMMA AllPictures ==
    ASSUME NEW g, NEW s \in Shapes, NEW q \in Seq(Units),
           Len(q) = s.frames * s.parts,
           \A k \in 1 .. Len(q) : q[k] = Pictures(g, s)[k]
    PROVE  q = Pictures(g, s)
<1> DEFINE last == s.frames * s.parts
<1>1. q = [k \in 1 .. Len(q) |-> q[k]]
  BY LenProperties
<1>2. Pictures(g, s) = [k \in 1 .. Len(q) |-> Pictures(g, s)[k]]
  BY DEF Pictures
<1> QED
  BY <1>1, <1>2

\* export-bgra and analyze-yuv420 do not end well on less than the whole
\* recording: the export that is done holds every picture in order, and an
\* export that was cut short cannot pass the frame count of the analysis.
THEOREM PicturesAreUsed == Spec => []ToolsUseEveryPicture
<1>1. CorpusInv => ToolsUseEveryPicture
  <2> SUFFICES ASSUME CorpusInv, reader = "done", opened # 0
               PROVE  /\ tool = "export" =>
                             exported.units = Pictures(opened, meta)
                      /\ (tool = "analyze" /\ exported.of = opened) =>
                             decoded = Pictures(opened, meta)
    BY DEF ToolsUseEveryPicture
  <2>1. /\ opened = gen /\ meta = shape /\ shape \in Shapes
        /\ index = meta.frames
    BY DEF CorpusInv, TypeOK, ReaderInv, ReaderPlace
  <2>2. meta.frames \in Nat /\ meta.parts \in Nat
        /\ meta.frames * meta.parts \in Nat
    <3>1. meta.frames \in Nat /\ meta.parts \in Nat
      BY <2>1, ShapeFacts
    <3> QED
      BY <3>1
  <2>3. exported.units \in Seq(Units) /\ decoded \in Seq(Units)
    BY DEF CorpusInv, TypeOK
  <2>4. (tool = "export" \/ exported.of = opened) =>
            /\ Len(exported.units) <= meta.frames * meta.parts
            /\ \A k \in 1 .. Len(exported.units) :
                   exported.units[k] = Pictures(gen, meta)[k]
    BY <2>1 DEF CorpusInv, ToolInv, ToolPlace
  <2>5. ASSUME tool = "export"
        PROVE  exported.units = Pictures(opened, meta)
    <3>1. index - (IF reader = "frame" THEN 1 ELSE 0) = meta.frames
      BY <2>1, <2>2
    <3>2. Len(exported.units) = meta.frames * meta.parts
      BY <2>5, <3>1 DEF CorpusInv, ToolInv, ToolPlace, Passing
    <3> QED
      BY <2>1, <2>3, <2>4, <2>5, <3>2, AllPictures
  <2>6. ASSUME tool = "analyze", exported.of = opened
        PROVE  decoded = Pictures(opened, meta)
    <3>1. /\ Len(decoded) = meta.frames * meta.parts
          /\ Len(decoded) <= Len(exported.units)
          /\ \A k \in 1 .. Len(decoded) : decoded[k] = exported.units[k]
      BY <2>6 DEF CorpusInv, ToolInv, ToolShape, Passing
    <3>2. Len(exported.units) \in Nat /\ Len(decoded) \in Nat
      BY <2>3
    <3>3. Len(decoded) = Len(exported.units)
      BY <2>2, <2>4, <2>6, <3>1, <3>2
    <3>4. \A k \in 1 .. Len(decoded) : decoded[k] = Pictures(gen, meta)[k]
      BY <2>4, <2>6, <3>1, <3>3
    <3> QED
      BY <2>1, <2>3, <3>1, <3>4, AllPictures
  <2> QED
    BY <2>5, <2>6
<1> QED
  BY <1>1, CorpusInvHolds, PTL

-----------------------------------------------------------------------------
(* The path publishes whole recordings.                                     *)

\* What is published, if anything is.
WholeOrNothing ==
    /\ CanOpen(file) => Len(file) = CorpusSize(shape)
    /\ Published # << >> =>
           Published \in {Complete(g, s) : g \in 1 .. MaxGen, s \in Shapes}

LEMMA PublishedIsWhole == CorpusInv => WholeOrNothing
<1> SUFFICES ASSUME CorpusInv, CanOpen(file)
             PROVE  /\ Len(file) = CorpusSize(shape)
                    /\ file \in {Complete(g, s) : g \in 1 .. MaxGen,
                                                  s \in Shapes}
  BY DEF WholeOrNothing, Published
<1>1. shape \in Shapes /\ Len(file) = CorpusSize(shape)
  BY OpenIsComplete DEF CorpusInv
<1>2. gen \in 1 .. MaxGen
  <2>1. gen \in 0 .. MaxGen /\ gen # 0
    BY <1>1, ShapeFacts DEF CorpusInv, TypeOK, RecorderInv, Progress
  <2> QED
    BY <2>1, TimeAssumption
<1>3. file = Complete(gen, shape)
  <2>1. file = [place \in 1 .. Len(file) |-> file[place]]
    BY LenProperties DEF CorpusInv, TypeOK
  <2>2. \A place \in 1 .. Len(file) : file[place] = UnitAt(gen, shape, place)
    BY DEF CorpusInv, RecorderInv, IsPrefixOfComplete
  <2>3. Complete(gen, shape)
            = [place \in 1 .. Len(file) |-> UnitAt(gen, shape, place)]
    BY <1>1 DEF Complete
  <2> QED
    BY <2>1, <2>2, <2>3
<1> QED
  BY <1>1, <1>2, <1>3

\* Whatever a step does to the file, the path shows at most the appearance of
\* a whole recording or its disappearance.
LEMMA PublicationStep ==
    CorpusInv /\ WholeOrNothing /\ WholeOrNothing' /\ [Next]_vars
        => [Publication!Next]_Published
<1> SUFFICES ASSUME CorpusInv, WholeOrNothing, WholeOrNothing', [Next]_vars,
                    Published' # Published
             PROVE  Publication!Next
  OBVIOUS
<1>1. Grows \/ StartsOver
  <2>1. CASE Recorder \/ Tick
    <3>1. RecorderType /\ RecorderInv
      BY TypeParts DEF CorpusInv
    <3>2. Keeps \/ Grows \/ StartsOver
      BY <2>1, <3>1, RecorderStep
    <3>3. ~Keeps
      BY DEF Keeps, Published
    <3> QED
      BY <3>2, <3>3
  <2>2. CASE Replay \/ UNCHANGED vars
    <3>1. file' = file
      BY <2>2, ReplayKeeps DEF recorderVars, vars
    <3> QED
      BY <3>1 DEF Published
  <2> QED
    BY <2>1, <2>2 DEF Next
<1>2. CASE Grows
  <2>1. Len(file) # CorpusSize(shape)
    <3>1. Len(file) \in Nat /\ CorpusSize(shape) \in Nat
      BY <1>2, ShapeFacts DEF Grows, CorpusInv, TypeOK
    <3> QED
      BY <1>2, <3>1 DEF Grows
  <2>2. Published = << >>
    BY <2>1 DEF WholeOrNothing, Published
  <2>3. Published' \in {Complete(g, s) : g \in 1 .. MaxGen, s \in Shapes}
    BY <2>2 DEF WholeOrNothing
  <2> QED
    BY <2>2, <2>3 DEF Publication!Next, Publication!Publish
<1>3. CASE StartsOver
  <2>1. Published' = << >>
    BY <1>3 DEF StartsOver, Published
  <2> QED
    BY <2>1 DEF Publication!Next, Publication!Withdraw
<1> QED
  BY <1>1, <1>2, <1>3

\* A corpus path implements its abstract specification: whoever opens it finds
\* nothing, or one whole recording.  An unfinished, failed, timed-out or killed
\* one is never there, and a new one makes the old one disappear first.
THEOREM RecordingsArePublished == Spec => PublicationSpec
<1>1. Init => Publication!Init
  <2> SUFFICES ASSUME Init
               PROVE  Published = << >>
    BY DEF Publication!Init
  <2> QED
    BY DEF Init, Published
<1>2. QED
  BY <1>1, CorpusInvHolds, PublishedIsWhole, PublicationStep, PTL
     DEF Spec, PublicationSpec, Publication!Spec

=============================================================================
