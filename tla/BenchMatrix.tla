----------------------------- MODULE BenchMatrix -----------------------------
(***************************************************************************)
(* The AV1 screen benchmark, src/av1_screen_bench/src/main.rs: run_benchmark *)
(* walks a matrix of colours and variants, and run_configuration replays    *)
(* the whole corpus, `repeat` times, through a fresh encoder and decoder    *)
(* for each cell.  All cells share one corpus, and a recorded corpus is     *)
(* read at its file position whatever index is asked for.  Anything in a    *)
(* cell may fail; a failed cell becomes a row of its own and the run goes on.*)
(* The lines printed before, between and after the cells are another matter: *)
(* an output that no longer takes them ends the run where it stands.        *)
(*                                                                          *)
(* AomEncoder and AomDecoder are not in the repository: an encode returns   *)
(* no packet, or one; the first packet of an encoder is a keyframe; a       *)
(* decoder gives any number of pictures for a packet; either may fail.      *)
(***************************************************************************)
EXTENDS Integers, Sequences, FiniteSets, SequencesExt

CONSTANTS
    OptionValues,   \* the option sets the benchmark may be started with
    MaxPictures     \* bound: the pictures a decoder gives for one packet

ASSUME OptionAssumption ==
    \A o \in OptionValues : /\ Len(o.outer) \in Nat \ {0}
                            /\ Len(o.inner) \in Nat \ {0}
                            /\ o.frames \in Nat \ {0}
                            /\ o.repeats \in Nat \ {0}
                            /\ o.saveSamples \in BOOLEAN

ASSUME MaxPicturesAssumption == MaxPictures \in Nat

VARIABLES
    options,    \* RunOptions, and metadata.frames of the corpus they name
    stage,      \* where the program stands
    outer, inner, \* positions of the current cell in the two lists
    repeat,     \* repeats of the cell already complete
    frame,      \* frame_index
    cursor,     \* the frame at the file position of the corpus
    bgra,       \* the corpus frame in the buffer, -1 before the first
    fresh,      \* the encoder of this repeat has produced no packet yet
    synced,     \* the decoder of this repeat has been given a keyframe
    packets,    \* encoded: the packets of this frame not yet decoded
    tally,      \* the counters of the cell
    rows,       \* results
    files       \* what the output directory holds

cell == <<outer, inner>>
position == <<repeat, frame, cursor, bgra>>
codec == <<fresh, synced, packets>>
output == <<rows, files>>
vars == <<options, stage, outer, inner, repeat, frame, cursor, bgra, fresh,
          synced, packets, tally, rows, files>>

-----------------------------------------------------------------------------

Outer == options.outer              \* --colors, in order
Inner == options.inner              \* --variants, in order
Frames == options.frames            \* metadata.frames
Repeats == options.repeats          \* --repeat
SaveSamples == options.saveSamples  \* --save-samples

\* Every cell of the matrix in the order of the two loops.
Matrix == [k \in 1 .. Len(Outer) * Len(Inner) |->
             <<Outer[((k - 1) \div Len(Inner)) + 1],
               Inner[((k - 1) % Len(Inner)) + 1]>>]

\* The counters a configuration starts from; a failed row reports the same.
NoTally == [timed |-> 0, packets |-> 0, keys |-> 0, decoded |-> 0,
            messages |-> 0]

Row(outcome, counters) == [cell |-> <<Outer[outer], Inner[inner]>>,
                           outcome |-> outcome, tally |-> counters]

SourceSample == <<"source", Outer[outer]>>
DecodedSample == <<"decoded", Outer[outer], Inner[inner]>>
Json == <<"report.json">>
PartialJson == <<"report.json", "partial">>
Markdown == <<"report.md">>

\* The one frame of the run that samples are taken of.
SampleFrame == SaveSamples /\ repeat = 0 /\ frame = Frames \div 2

-----------------------------------------------------------------------------

Init ==
    /\ options \in OptionValues
    /\ stage = "cell" /\ outer = 1 /\ inner = 1
    /\ repeat = 0 /\ frame = 0 /\ cursor = 0 /\ bgra = -1
    /\ fresh = TRUE /\ synced = FALSE /\ packets = << >>
    /\ tally = NoTally /\ rows = << >> /\ files = {}

\* Mutant: the counters live as long as the run.
StartCellUncleared ==
    /\ stage = "cell" /\ stage' = "repeat"
    /\ repeat' = 0
    /\ UNCHANGED <<cell, frame, cursor, bgra, codec, tally, output>>

\* run_configuration begins with counters of its own.
StartCell ==
    /\ stage = "cell" /\ stage' = "repeat"
    /\ tally' = NoTally
    /\ repeat' = 0
    /\ UNCHANGED <<cell, frame, cursor, bgra, codec, output>>

\* Mutant: the corpus is not rewound.
StartRepeatWithoutReset ==
    /\ stage = "repeat" /\ repeat < Repeats /\ stage' = "read"
    /\ frame' = 0
    /\ fresh' = TRUE /\ synced' = FALSE /\ packets' = << >>
    /\ UNCHANGED <<cell, repeat, cursor, bgra, tally, output>>

\* Mutant: the encoder outlives its repeat, the decoder does not.
StartRepeatWithOldEncoder ==
    /\ stage = "repeat" /\ repeat < Repeats /\ stage' = "read"
    /\ cursor' = 0 /\ frame' = 0
    /\ synced' = FALSE /\ packets' = << >>
    /\ UNCHANGED <<cell, repeat, bgra, fresh, tally, output>>

\* corpus.reset(), then a new encoder, decoder and buffers.
StartRepeat ==
    /\ stage = "repeat" /\ repeat < Repeats /\ stage' = "read"
    /\ cursor' = 0 /\ frame' = 0
    /\ fresh' = TRUE /\ synced' = FALSE /\ packets' = << >>
    /\ UNCHANGED <<cell, repeat, bgra, tally, output>>

\* read_frame: the next record of the file.
ReadFrame ==
    /\ stage = "read" /\ stage' = "frame"
    /\ bgra' = cursor /\ cursor' = cursor + 1
    /\ UNCHANGED <<cell, repeat, frame, codec, tally, output>>

Save(sample, condition) ==
    /\ stage = "frame" /\ stage' = "encode"
    /\ files' = IF condition /\ SampleFrame THEN files \cup {sample} ELSE files
    /\ UNCHANGED <<cell, position, codec, tally, rows>>

\* The source of the sample frame is saved by the baseline variant only.
SaveSource == Save(SourceSample, Inner[inner] = "baseline")

\* The encode is timed whether or not it yields a packet; the packets of a
\* frame make one protocol message.
EncodeAtMost(n) ==
    /\ stage = "encode" /\ stage' = "decode"
    /\ packets' \in UNION {[1 .. k -> {"key", "delta"}] : k \in 0 .. n}
    /\ (fresh /\ packets' # << >>) => Head(packets') = "key"
    /\ fresh' = (fresh /\ packets' = << >>)
    /\ tally' = [tally EXCEPT
                   !.timed = @ + 1,
                   !.packets = @ + Len(packets'),
                   !.keys = @ + Cardinality({k \in DOMAIN packets' :
                                                packets'[k] = "key"}),
                   !.messages = IF packets' = << >> THEN @ ELSE @ + 1]
    /\ UNCHANGED <<cell, position, synced, output>>

Encode == EncodeAtMost(1)

\* A packet is decoded at once and every picture of it compared with the
\* frame just encoded.
DecodeTo(sample) ==
    /\ stage = "decode" /\ packets # << >> /\ UNCHANGED stage
    /\ synced' = (synced \/ Head(packets) = "key")
    /\ packets' = Tail(packets)
    /\ \E decoded \in 0 .. MaxPictures :
         /\ tally' = [tally EXCEPT !.decoded = @ + decoded]
         /\ files' = IF decoded # 0 /\ SampleFrame THEN files \cup {sample}
                                                   ELSE files
    /\ UNCHANGED <<cell, position, fresh, rows>>

Decode == DecodeTo(DecodedSample)

\* Mutant: one frame too many.
NextFrameLate ==
    /\ stage = "decode" /\ packets = << >> /\ frame < Frames
    /\ stage' = "read"
    /\ frame' = frame + 1
    /\ UNCHANGED <<cell, repeat, cursor, bgra, codec, tally, output>>

NextFrame ==
    /\ stage = "decode" /\ packets = << >> /\ frame + 1 < Frames
    /\ stage' = "read"
    /\ frame' = frame + 1
    /\ UNCHANGED <<cell, repeat, cursor, bgra, codec, tally, output>>

EndRepeat ==
    /\ stage = "decode" /\ packets = << >> /\ frame + 1 = Frames
    /\ stage' = "repeat"
    /\ repeat' = repeat + 1 /\ frame' = 0
    /\ UNCHANGED <<cell, cursor, bgra, codec, tally, output>>

\* The next cell, in the order of the loops, or the report.
Advance ==
    \/ /\ inner < Len(Inner) /\ stage' = "cell"
       /\ inner' = inner + 1 /\ UNCHANGED outer
    \/ /\ inner = Len(Inner) /\ outer < Len(Outer) /\ stage' = "cell"
       /\ inner' = 1 /\ outer' = outer + 1
    \/ /\ inner = Len(Inner) /\ outer = Len(Outer) /\ stage' = "report"
       /\ UNCHANGED cell

\* A configuration none of whose packets decoded is an error like any other.
EndCell ==
    /\ stage = "repeat" /\ repeat = Repeats
    /\ rows' = Append(rows, IF tally.decoded = 0 THEN Row("failed", NoTally)
                                                 ELSE Row("ok", tally))
    /\ Advance
    /\ UNCHANGED <<position, codec, tally, files>>

CanFail == \/ stage = "repeat" /\ repeat < Repeats
           \/ stage \in {"read", "frame", "encode"}
           \/ stage = "decode" /\ packets # << >>

\* Mutant: a failed cell leaves no row.
FailCellSilently ==
    /\ CanFail /\ Advance
    /\ UNCHANGED <<position, codec, tally, output>>

\* Mutant: a failed cell is tried again.
FailCellRetried ==
    /\ CanFail /\ stage' = "cell"
    /\ UNCHANGED <<cell, position, codec, tally, output>>

\* Building a codec, reading, converting, saving a sample, encoding or
\* decoding fails: the cell ends where it stands.  A failing read may have
\* moved the file position, and a failing codec comes after the reset.
FailCell ==
    /\ CanFail /\ Advance
    /\ cursor' \in {cursor} \cup (IF stage = "read" THEN {cursor + 1} ELSE {})
                            \cup (IF stage = "repeat" THEN {0} ELSE {})
    /\ rows' = Append(rows, Row("failed", NoTally))
    /\ UNCHANGED <<repeat, frame, bgra, codec, tally, files>>

\* A line cannot be printed: the name of the cell, its figures or its error
\* once it has ended, which come before its row, or the paths of the reports.
\* The flush before a cell returns the error (main.rs:672) and every println
\* panics with it; either ends the program.
LoseOutput ==
    /\ \/ stage = "cell"
       \/ stage = "repeat" /\ repeat = Repeats
       \/ CanFail
       \/ stage = "written"
    /\ stage' = "unprinted"
    /\ UNCHANGED <<cell, position, codec, tally, output>>

\* report.json is created before it is filled; report.md comes after it.
CreateJson ==
    /\ stage = "report" /\ PartialJson \notin files
    /\ files' = files \cup {PartialJson}
    /\ UNCHANGED <<stage, cell, position, codec, tally, rows>>

FillJson ==
    /\ stage = "report" /\ PartialJson \in files /\ stage' = "markdown"
    /\ files' = (files \ {PartialJson}) \cup {Json}
    /\ UNCHANGED <<cell, position, codec, tally, rows>>

WriteMarkdown ==
    /\ stage = "markdown" /\ stage' = "written"
    /\ files' = files \cup {Markdown}
    /\ UNCHANGED <<cell, position, codec, tally, rows>>

PrintPaths ==
    /\ stage = "written" /\ stage' = "done"
    /\ UNCHANGED <<cell, position, codec, tally, output>>

\* A report that cannot be written ends the program.
FailReport ==
    /\ stage \in {"report", "markdown"} /\ stage' = "aborted"
    /\ UNCHANGED <<cell, position, codec, tally, output>>

-----------------------------------------------------------------------------

Loops == StartCell \/ StartRepeat \/ ReadFrame \/ NextFrame \/ EndRepeat
         \/ EndCell \/ FailCell

Reports == CreateJson \/ FillJson \/ WriteMarkdown \/ PrintPaths \/ FailReport

Next == (Loops \/ SaveSource \/ Encode \/ Decode \/ LoseOutput \/ Reports)
        /\ UNCHANGED options

Spec == Init /\ [][Next]_vars

-----------------------------------------------------------------------------
(* Properties.                                                              *)

\* Types; the file position never passes the last frame (read_frame).
TypeOK ==
    /\ options \in OptionValues
    /\ stage \in {"cell", "repeat", "read", "frame", "encode", "decode",
                  "report", "markdown", "written", "done", "aborted",
                  "unprinted"}
    /\ outer \in 1 .. Len(Outer) /\ inner \in 1 .. Len(Inner)
    /\ repeat \in 0 .. Repeats /\ frame \in 0 .. Frames - 1
    /\ cursor \in 0 .. Frames /\ bgra \in -1 .. Frames - 1
    /\ fresh \in BOOLEAN /\ synced \in BOOLEAN
    /\ packets \in Seq({"key", "delta"})
    /\ tally \in [DOMAIN NoTally -> Nat]

\* The frame being encoded is the frame its index names, in every cell: a
\* configuration that failed half way through the corpus does not shift the
\* frames of the ones after it (corpus.reset before every repeat).
FrameIsAligned == stage \in {"frame", "encode", "decode"} => bgra = frame

\* The encoders of hardware.rs whose name validate_encoder refuses.
Refused(name) == "valid" \in DOMAIN options /\ name \notin options.valid

\* Cells before the current one.
CellsBefore == (outer - 1) * Len(Inner) + (inner - 1)

\* The rows are the cells of the matrix, one each and in order, however many
\* of them failed.  A program that ends without a report was stopped by the
\* report itself, by the name of an encoder, after every configuration of the
\* encoders before it, or by a line it could not print, with a row for every
\* cell before the current one: the cells that were measured are then lost,
\* since nothing of a report is on the disk before the last row is there.  A
\* Markdown report stands beside a complete JSON report.
RowsFollowMatrix ==
    /\ [k \in DOMAIN rows |-> rows[k].cell] = SubSeq(Matrix, 1, Len(rows))
    /\ stage \in {"report", "markdown", "written", "done"} =>
           Len(rows) = Len(Matrix)
    /\ stage = "aborted" =>
           \/ Len(rows) = Len(Matrix)
           \/ Refused(Outer[outer]) /\ Len(rows) = (outer - 1) * Len(Inner)
    /\ stage = "unprinted" => Markdown \in files \/ Len(rows) = CellsBefore
    /\ {Json, PartialJson, Markdown} \cap files # {} => Len(rows) = Len(Matrix)
    /\ Markdown \in files => Json \in files /\ PartialJson \notin files

\* A row that claims success accounts for every frame of every repeat: each
\* was timed once, each frame with a packet reached the protocol, there is a
\* keyframe, and something decoded.  A failed one accounts for nothing.
RowsAddUp ==
    \A k \in DOMAIN rows :
        LET t == rows[k].tally
        IN  IF rows[k].outcome = "ok"
              THEN /\ t.timed = Frames * Repeats
                   /\ t.decoded # 0
                   /\ t.messages \in 1 .. t.timed /\ t.messages <= t.packets
                   /\ t.keys \in 1 .. t.packets
              ELSE t = NoTally

\* A decoder is never asked for a delta of a picture it has not seen: encoder
\* and decoder are rebuilt together for every repeat.
DecodesFromKey ==
    (stage = "decode" /\ packets # << >>) => synced \/ Head(packets) = "key"

\* Whatever fails, the run ends: with its reports, without them, or where a
\* line could not be printed.
RunEnds == <>(stage \in {"done", "aborted", "unprinted"})

\* How far the run is, the coarsest part first: the report, the cell, the
\* repeat, the frame, the step of the frame, the packets still to decode.
Progress ==
    <<CASE stage = "report"   -> IF PartialJson \in files THEN 2 ELSE 1
        [] stage = "markdown" -> 3
        [] stage = "written" -> 4
        [] stage \in {"done", "aborted", "unprinted"} -> 5
        [] OTHER -> 0,
      outer, inner, IF stage = "cell" THEN 0 ELSE 1,
      repeat, IF stage = "repeat" THEN 0 ELSE 1,
      frame,
      CASE stage = "frame" -> 1 [] stage = "encode" -> 2 [] stage = "decode" -> 3
        [] OTHER -> 0,
      -Len(packets)>>

\* One comes before the other, as words do in a dictionary.
Precedes(earlier, later) ==
    \E k \in DOMAIN earlier : /\ earlier[k] < later[k]
                             /\ \A j \in 1 .. k - 1 : earlier[j] = later[j]

\* No step goes back in the loops or stays where it is: a cell that failed is
\* not tried again, a frame is not encoded twice in a repeat, and a report once
\* begun is not followed by another cell.  Since every part of Progress has its
\* bounds, a run has no infinitely many steps, whatever fails.
EveryStepLeadsOn == [][Precedes(Progress, Progress')]_vars

\* What the option promises (main.rs:59, "Save source and decoded middle-frame
\* BMP files"): a finished run that saved a decoded sample also saved the
\* source it is to be compared with.
SourceBesideDecoded ==
    stage = "done" =>
        \A c \in ToSet(Outer), v \in ToSet(Inner) :
            <<"decoded", c, v>> \in files => <<"source", c>> \in files

=============================================================================
