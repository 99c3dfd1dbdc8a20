----------------------------- MODULE CorpusFile ------------------------------
(***************************************************************************)
(* A recorded corpus, src/av1_screen_bench/src/corpus.rs: one process       *)
(* records the desktop into a file (record_desktop), another replays it     *)
(* (RecordedCorpus).  The recorder writes the frame count it was asked for   *)
(* into the header before it has any frame, writes unbuffered, and may fail,*)
(* time out or be killed between any two writes; nothing removes the rest.  *)
(* The replay's only defence is the exact length check of open().           *)
(*                                                                          *)
(* A file is the sequence of the units written to it, a unit being the       *)
(* smallest thing the properties tell apart: half a header, a timestamp, a  *)
(* part of a picture.  A write_all that fails half way, and a kill between   *)
(* two writes, both leave a prefix.  Time passes in ticks.                   *)
(***************************************************************************)
EXTENDS Integers, Sequences

CONSTANTS
    Shapes,     \* [frames, parts] a recording may be asked for: its frame
                \* count, and how many units one picture takes on this display
    MaxGen,     \* bound: recordings made to the path
    IdleTimeout,\* --idle-timeout-ms, in ticks
    Poll,       \* 1000 / fps, in ticks: how long capturer.frame may block
    Grace,      \* bound: how late an external call returns, in ticks
    MaxTime     \* bound: ticks of the whole behaviour

ASSUME TimeAssumption == /\ IdleTimeout \in Nat \ {0}
                         /\ Poll \in Nat
                         /\ Grace \in Nat
                         /\ MaxTime \in Nat
                         /\ MaxGen \in Nat

ASSUME ShapeAssumption ==
    Shapes \subseteq [frames : Nat \ {0}, parts : Nat \ {0}]

\* The recorder.
VARIABLES
    file,       \* the units in the file, in order
    gen,        \* recordings begun on the path so far
    shape,      \* what the current recording was asked for
    phase,      \* where the recorder stands
    written,    \* frames completely written
    now,        \* the monotonic clock
    start,      \* its Instant `start`
    lastFrame,  \* its Instant `last_frame`
    called      \* when the external call it waits for began

\* The replay.
VARIABLES
    reader,     \* where the replay stands
    meta,       \* the shape it read from the header
    cursor,     \* units before its file position
    index,      \* the frame it asks for next
    picture,    \* the units its buffer was filled with
    opened      \* history: the recording it opened, 0 when overwritten since

\* The tools that replay it besides the benchmark: export-bgra and
\* analyze-yuv420, with an encoder and a decoder between them.
VARIABLES
    tool,       \* what replays the corpus
    exported,   \* [parts, units]: the exported pictures, and their size;
                \* [of], history: the value of opened when they were read
    decoded     \* the decoded pictures

recorderVars == <<file, gen, shape, phase, written, now, start, lastFrame,
                  called>>
toolVars == <<tool, exported, decoded>>
readerVars == <<reader, meta, cursor, index, picture, opened, toolVars>>
vars == <<file, gen, shape, phase, written, now, start, lastFrame, called,
          reader, meta, cursor, index, picture, opened, tool, exported, decoded>>

-----------------------------------------------------------------------------
(* The layout of the file.                                                  *)

NoShape == [frames |-> 0, parts |-> 0]
NoExport == [parts |-> 0, units |-> << >>, of |-> 0]

\* A unit: which recording wrote it, what it is, of which frame (or the frame
\* count), which part of it (or the parts per picture).
Unit(g, kind, n, k) == [gen |-> g, kind |-> kind, frame |-> n, part |-> k]

Header(g, s) == <<Unit(g, "magic", 0, 0), Unit(g, "shape", s.frames, s.parts)>>

HeaderSize == 2
RecordSize(s) == 1 + s.parts
\* Mutant: the timestamps are forgotten.
CorpusSizeUnstamped(s) == HeaderSize + s.frames * s.parts

CorpusSize(s) == HeaderSize + s.frames * RecordSize(s)

\* The unit at a place of a complete recording.
UnitAt(g, s, place) ==
    IF place <= HeaderSize
      THEN Header(g, s)[place]
      ELSE LET body == place - HeaderSize - 1
               n == body \div RecordSize(s)
               k == body % RecordSize(s)
           IN  Unit(g, IF k = 0 THEN "stamp" ELSE "picture", n, k)

Complete(g, s) == [place \in 1 .. CorpusSize(s) |-> UnitAt(g, s, place)]

\* The checks of open(): a header that can be read whole, with the magic and
\* a frame count above zero, and exactly the length that header announces.
HasHeader(f) ==
    /\ Len(f) >= HeaderSize
    /\ f[1].kind = "magic"
    /\ f[2].frame # 0

HeaderShape(f) == [frames |-> f[2].frame, parts |-> f[2].part]

\* Mutant: a truncated file is let through.
HasAtMostLength(f, s) == Len(f) <= CorpusSize(s)

HasLength(f, s) == Len(f) = CorpusSize(s)

CanOpen(f) == HasHeader(f) /\ HasLength(f, HeaderShape(f))

-----------------------------------------------------------------------------
(* The recorder.                                                            *)

Resting == phase \in {"idle", "recorded", "timed out", "failed", "killed"}

Init ==
    /\ file = << >> /\ gen = 0 /\ shape = NoShape /\ phase = "idle"
    /\ written = 0 /\ now = 0 /\ start = 0 /\ lastFrame = 0 /\ called = 0
    /\ reader = "closed" /\ meta = NoShape /\ cursor = 0 /\ index = 0
    /\ picture = << >> /\ opened = 0
    /\ tool = "none" /\ exported = NoExport /\ decoded = << >>

\* The arguments, the display or the capturer are refused: the path is not
\* touched.
Refuse ==
    /\ Resting /\ gen < MaxGen /\ phase # "failed"
    /\ phase' = "failed"
    /\ UNCHANGED <<file, gen, shape, written, now, start, lastFrame, called>>
    /\ UNCHANGED readerVars

\* File::create truncates whatever was there.
Create(s) ==
    /\ Resting /\ gen < MaxGen
    /\ gen' = gen + 1
    /\ shape' = s
    /\ file' = << >>
    /\ written' = 0
    /\ phase' = "header"
    /\ opened' = 0
    /\ UNCHANGED <<now, start, lastFrame, called>>
    /\ UNCHANGED <<reader, meta, cursor, index, picture, toolVars>>

\* write_header, one write after the other.
WriteHeader ==
    /\ phase = "header"
    /\ file' = Append(file, Header(gen, shape)[Len(file) + 1])
    /\ phase' = IF Len(file') = HeaderSize THEN "delay" ELSE "header"
    /\ called' = now
    /\ UNCHANGED <<gen, shape, written, now, start, lastFrame>>
    /\ UNCHANGED readerVars

\* The start delay is over: the clocks of the recording begin.
Begin ==
    /\ phase = "delay"
    /\ start' = now
    /\ lastFrame' = now
    /\ called' = now
    /\ phase' = "polling"
    /\ UNCHANGED <<file, gen, shape, written, now>>
    /\ UNCHANGED readerVars

\* A pixel buffer came back: its timestamp is written first.
StampFrame ==
    /\ phase = "polling"
    /\ file' = Append(file, Unit(gen, "stamp", written, 0))
    /\ phase' = "picture"
    /\ called' = now
    /\ UNCHANGED <<gen, shape, written, now, start, lastFrame>>
    /\ UNCHANGED readerVars

\* How many units of the current picture the file already holds.
PartsWritten == Len(file) - HeaderSize - written * RecordSize(shape) - 1

\* Mutant: the loop runs once too often.
WriteOnePictureMore ==
    /\ phase = "picture"
    /\ file' = Append(file, Unit(gen, "picture", written, PartsWritten + 1))
    /\ IF PartsWritten + 1 = shape.parts
         THEN /\ written' = written + 1
              /\ lastFrame' = now
              /\ called' = now
              /\ phase' = IF written' <= shape.frames THEN "polling"
                                                      ELSE "recorded"
         ELSE UNCHANGED <<written, lastFrame, called, phase>>
    /\ UNCHANGED <<gen, shape, now, start>>
    /\ UNCHANGED readerVars

\* write_all of the picture; with its last part the frame counts as written
\* and the idle clock starts again.
WritePicture ==
    /\ phase = "picture"
    /\ file' = Append(file, Unit(gen, "picture", written, PartsWritten + 1))
    /\ IF PartsWritten + 1 = shape.parts
         THEN /\ written' = written + 1
              /\ lastFrame' = now
              /\ called' = now
              /\ phase' = IF written' < shape.frames THEN "polling"
                                                     ELSE "recorded"
         ELSE UNCHANGED <<written, lastFrame, called, phase>>
    /\ UNCHANGED <<gen, shape, now, start>>
    /\ UNCHANGED readerVars

\* Mutant: the idle time is measured from the start of the recording.
IdleSinceStart ==
    /\ phase = "polling"
    /\ phase' = IF now - start >= IdleTimeout THEN "timed out" ELSE "polling"
    /\ called' = now
    /\ UNCHANGED <<file, gen, shape, written, now, start, lastFrame>>
    /\ UNCHANGED readerVars

\* Mutant: a poll without a frame starts the recording over.
IdleStartsOver ==
    /\ phase = "polling"
    /\ phase' = "header" /\ file' = << >> /\ written' = 0
    /\ called' = now
    /\ UNCHANGED <<gen, shape, now, start, lastFrame>>
    /\ UNCHANGED readerVars

\* WouldBlock: no changed frame within the poll.  Only here is the idle
\* timeout looked at.
Idle ==
    /\ phase = "polling"
    /\ phase' = IF now - lastFrame >= IdleTimeout THEN "timed out"
                                                  ELSE "polling"
    /\ called' = now
    /\ UNCHANGED <<file, gen, shape, written, now, start, lastFrame>>
    /\ UNCHANGED readerVars

\* A GPU texture, another capture error, a picture in an unknown format or a
\* failing write ends the recording where it stands.
Fail ==
    /\ phase \in {"header", "polling", "picture"}
    /\ phase' = "failed"
    /\ UNCHANGED <<file, gen, shape, written, now, start, lastFrame, called>>
    /\ UNCHANGED readerVars

Kill ==
    /\ phase \in {"header", "delay", "polling", "picture"}
    /\ phase' = "killed"
    /\ UNCHANGED <<file, gen, shape, written, now, start, lastFrame, called>>
    /\ UNCHANGED readerVars

\* Time passes while the recorder waits for the capturer (at most Poll and
\* the grace), for a write (the grace) or for its start delay.
Tick ==
    /\ phase \in {"delay", "polling", "picture"}
    /\ now < MaxTime
    /\ now < called + Grace + (IF phase = "polling" THEN Poll ELSE 0)
    /\ now' = now + 1
    /\ UNCHANGED <<file, gen, shape, phase, written, start, lastFrame, called>>
    /\ UNCHANGED readerVars

Work == WriteHeader \/ Begin \/ StampFrame \/ WritePicture \/ Idle

-----------------------------------------------------------------------------
(* The replay.                                                              *)

\* open() first reads the header; one it cannot read whole or does not know
\* is an error, and the program ends.
Open(t) ==
    /\ reader = "closed"
    /\ t = "export" => exported = NoExport      \* bound: one export
    /\ t = "analyze" => decoded # << >>
    /\ HasHeader(file)
    /\ reader' = "header"
    /\ meta' = HeaderShape(file)
    /\ cursor' = HeaderSize
    /\ opened' = gen
    /\ tool' = t
    /\ UNCHANGED <<index, picture, exported, decoded>>
    /\ UNCHANGED recorderVars

\* Then it asks for the length of the file, which another recording may have
\* truncated in between.
CheckLength ==
    /\ reader = "header"
    /\ reader' = IF HasLength(file, meta) THEN "checked" ELSE "refused"
    /\ UNCHANGED <<meta, cursor, index, picture, opened, toolVars>>
    /\ UNCHANGED recorderVars

\* The decoded stream is whole frames of the corpus' size, as many as it has.
DecodedMatches == Len(decoded) = meta.frames * meta.parts

\* What a pass over the corpus waits for: the benchmark's passes may follow
\* each other, one that stopped early because an encoder failed included; the
\* export creates its output; the analysis has counted the decoded frames.
MayReset ==
    /\ reader = "checked" \/ (tool = "bench" /\ reader \in {"open", "frame"})
    /\ tool = "analyze" => DecodedMatches

\* Mutant: a reset that does not seek.
ResetWithoutSeek ==
    /\ MayReset
    /\ reader' = "open" /\ index' = 0 /\ picture' = << >>
    /\ exported' = IF tool = "export" THEN [exported EXCEPT !.parts = meta.parts]
                                      ELSE exported
    /\ UNCHANGED <<meta, cursor, opened, tool, decoded>>
    /\ UNCHANGED recorderVars

\* Corpus::reset.
Reset ==
    /\ MayReset
    /\ reader' = "open" /\ index' = 0 /\ picture' = << >>
    /\ cursor' = HeaderSize
    /\ exported' = IF tool = "export" THEN [exported EXCEPT !.parts = meta.parts]
                                      ELSE exported
    /\ UNCHANGED <<meta, opened, tool, decoded>>
    /\ UNCHANGED recorderVars

\* A decoded stream of another length, and an output that cannot be created.
Reject ==
    /\ reader = "checked"
    /\ tool = "export" \/ (tool = "analyze" /\ ~DecodedMatches)
    /\ reader' = "refused"
    /\ UNCHANGED <<meta, cursor, index, picture, opened, toolVars>>
    /\ UNCHANGED recorderVars

\* The 8 bytes of the timestamp, wherever the file position is.
ReadStamp ==
    /\ reader = "open" \/ (tool = "bench" /\ reader = "frame")
    /\ index < meta.frames
    /\ IF cursor < Len(file)
         THEN /\ picture' = <<file[cursor + 1]>>
              /\ cursor' = cursor + 1
              /\ reader' = "stamp"
         ELSE /\ reader' = "broken"
              /\ UNCHANGED <<picture, cursor>>
    /\ UNCHANGED <<meta, index, opened, toolVars>>
    /\ UNCHANGED recorderVars

\* read_exact of one picture.
ReadPicture ==
    /\ reader = "stamp"
    /\ IF cursor + meta.parts <= Len(file)
         THEN /\ picture' = picture \o
                              SubSeq(file, cursor + 1, cursor + meta.parts)
              /\ cursor' = cursor + meta.parts
              /\ index' = index + 1
              /\ reader' = "frame"
         ELSE /\ reader' = "broken"
              /\ cursor' = Len(file)
              /\ UNCHANGED <<picture, index>>
    /\ UNCHANGED <<meta, opened, toolVars>>
    /\ UNCHANGED recorderVars

\* The tool's loop over the frames goes on, or is over.
NextFrame == IF index < meta.frames THEN "open" ELSE "done"

Exporting(n, then) ==
    /\ exported' = [exported EXCEPT !.units = @ \o SubSeq(picture, 2, 1 + n),
                                    !.of = opened]
    /\ reader' = then
    /\ UNCHANGED <<meta, cursor, index, picture, opened, tool, decoded>>
    /\ UNCHANGED recorderVars

\* Mutant: write for write_all.
ExportFrameOnce ==
    /\ tool = "export" /\ reader = "frame"
    /\ \E n \in 1 .. meta.parts : Exporting(n, NextFrame)

\* write_all of the picture, which may fail half way.
ExportFrame ==
    /\ tool = "export" /\ reader = "frame"
    /\ \/ Exporting(meta.parts, NextFrame)
       \/ \E n \in 0 .. meta.parts - 1 : Exporting(n, "refused")

\* read_exact of the decoded picture, which is there since the frames were
\* counted, and the comparison; the last one is followed by the report.
AnalyzeFrame ==
    /\ tool = "analyze" /\ reader = "frame"
    /\ reader' \in {NextFrame, "refused"}
    /\ UNCHANGED <<meta, cursor, index, picture, opened, toolVars>>
    /\ UNCHANGED recorderVars

Close ==
    /\ reader \in {"open", "frame", "broken", "refused", "done"}
    /\ reader \in {"open", "frame"} => tool = "bench"
    /\ reader' = "closed" /\ tool' = "none"
    /\ meta' = NoShape /\ cursor' = 0 /\ index' = 0 /\ picture' = << >>
    /\ opened' = 0
    /\ UNCHANGED <<exported, decoded>>
    /\ UNCHANGED recorderVars

\* An encoder and a decoder, told the right size of a picture, turn the whole
\* pictures of an export into as many decoded ones.
Transcode ==
    /\ reader = "closed" /\ exported.units # << >> /\ decoded = << >>
    /\ decoded' = SubSeq(exported.units, 1, (Len(exported.units)
                           \div exported.parts) * exported.parts)
    /\ UNCHANGED <<reader, meta, cursor, index, picture, opened, tool, exported>>
    /\ UNCHANGED recorderVars

-----------------------------------------------------------------------------

Recorder == Refuse \/ (\E s \in Shapes : Create(s)) \/ Work \/ Fail \/ Kill

Tools == {"bench", "export", "analyze"}

Replay == \/ \E t \in Tools : Open(t)
          \/ CheckLength \/ Reset \/ Reject \/ ReadStamp \/ ReadPicture
          \/ ExportFrame \/ AnalyzeFrame \/ Close \/ Transcode

Next == Recorder \/ Tick \/ Replay

Spec == Init /\ [][Next]_vars

\* The recorder is a running thread, the clock does not stop, and a call to
\* the operating system returns.  No poll is owed a frame: StampFrame is not
\* among the fair steps, and a recorder that gets none polls on.
FairSpec == /\ Spec
            /\ WF_vars(WriteHeader \/ Begin \/ WritePicture \/ Idle)
            /\ WF_vars(Tick)

-----------------------------------------------------------------------------
(* Properties.                                                              *)

Phases == {"idle", "header", "delay", "polling", "picture", "recorded",
           "timed out", "failed", "killed"}

Units == [gen : Nat, kind : {"magic", "shape", "stamp", "picture"},
          frame : Nat, part : Nat]

\* Types; record_desktop never writes more frames than it was asked for, and
\* its clocks never run ahead of the monotonic one.
TypeOK ==
    /\ file \in Seq(Units)
    /\ gen \in 0 .. MaxGen
    /\ shape \in Shapes \cup {NoShape}
    /\ phase \in Phases
    /\ written \in 0 .. shape.frames
    /\ now \in 0 .. MaxTime
    /\ start \in 0 .. now /\ lastFrame \in 0 .. now /\ called \in 0 .. now
    /\ reader \in {"closed", "header", "checked", "open", "stamp", "frame",
                  "broken", "refused", "done"}
    /\ tool \in Tools \cup {"none"}
    /\ meta \in Shapes \cup {NoShape}
    /\ cursor \in Nat /\ index \in 0 .. meta.frames
    /\ picture \in Seq(Units)
    /\ opened \in 0 .. gen
    /\ exported \in [parts : Nat, units : Seq(Units), of : 0 .. gen]
    /\ decoded \in Seq(Units)

\* record_desktop ends well exactly when the file it leaves can be opened.
RecordedIsOpenable ==
    /\ phase = "recorded" => CanOpen(file)
    /\ phase \in {"timed out", "header", "delay", "polling", "picture"} =>
           ~CanOpen(file)

\* The recorder gives up only when no frame came for the whole idle timeout,
\* and notices at most one poll (and its grace) later.
TimeoutIsIdle ==
    /\ phase = "timed out" => now - lastFrame >= IdleTimeout
    /\ phase = "polling" => now - lastFrame < IdleTimeout + Poll + Grace

\* As long as nobody records over the file, every frame the replay hands out
\* is one whole frame of the recording it opened, the one it asked for, and
\* the replay never runs off the end: read_frame checks the index but reads
\* at the file position.
ReadsTheFrameAskedFor ==
    opened # 0 =>
        /\ reader # "broken"
        /\ reader = "frame" =>
               picture = SubSeq(Complete(opened, meta),
                                HeaderSize + (index - 1) * RecordSize(meta) + 1,
                                HeaderSize + index * RecordSize(meta))

\* The pictures of a recording, without the header and the timestamps.
Pictures(g, s) ==
    [k \in 1 .. s.frames * s.parts |->
        Unit(g, "picture", (k - 1) \div s.parts, ((k - 1) % s.parts) + 1)]

\* A tool that ends well on a recording nobody recorded over has used every
\* picture of it: export-bgra has written them all, in order, and
\* analyze-yuv420 does not report on what was decoded from an export of the
\* recording that was cut short.
ToolsUseEveryPicture ==
    (reader = "done" /\ opened # 0) =>
        /\ tool = "export" => exported.units = Pictures(opened, meta)
        /\ (tool = "analyze" /\ exported.of = opened) =>
               decoded = Pictures(opened, meta)

\* Every recording ends, however the capturer behaves.
RecordingEnds == (phase = "header") ~> Resting

\* The path publishes whole recordings: CorpusPublication.
Published == IF CanOpen(file) THEN file ELSE << >>
Publication == INSTANCE CorpusPublication WITH
    published <- Published,
    Nothing <- << >>,
    Recording <- {Complete(g, s) : g \in 1 .. MaxGen, s \in Shapes}

PublicationSpec == Publication!Spec

=============================================================================
