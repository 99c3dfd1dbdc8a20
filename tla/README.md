# Specifications of the RustAdmin test tools

TLA+ specifications of `rustadmin-tests`: the AV1 screen benchmark, its
recorder, the DXGI capture probe and the tools around them. Each module is
translated from the Rust source named in its header and, definition by
definition, in the `map` of `PROJECT.json`. TLC checks small instances, TLAPS
proves the theorems for every value of the constants.

```
tlc -workers 2 -config ActiveMap.cfg ActiveMap.tla     # one run
tlapm ActiveMapProofs.tla                                   # the proofs
```

## 1. The system

The repository is a set of command-line programs that measure and probe another
product. They share no library; most are one thread. What makes them worth a
model is state that outlives the thing that set it: an active map kept from
frame to frame, a file position kept from run to run, a header written before
the data it announces, a driver resource held across an early return.

| Component | State | Operations | Works with |
|---|---|---|---|
| Active-map controller (`av1_screen_bench/src/main.rs` 198-317, 1290-1297) and detector (`yuv.rs` 116-157) | hold counter per block, full-burst counter, previous frame | one `apply` per frame, five strategies | called by the frame loop; its map goes to the AV1 encoder |
| Recorder and replay (`corpus.rs`) | the file, two clocks, frames written; file position | record, open, reset, read | two processes that share one path; the benchmark replays |
| Benchmark matrix (`main.rs` 644-939) | current cell, counters, rows, report files | colours x variants x repeats x frames | owns the corpus, an encoder and a decoder |
| Hardware benchmark (`hardware.rs`) | the same, with qualities | encoders x qualities | same corpus |
| Synthetic corpus, quantizer, YUV, quality | none (pure) | render, convert, compare | called per frame |
| Command line | options | parse | start of each program |
| Export and analysis (`run_export_bgra`, `run_analyze_yuv420`) | streams | one pass | driven by the NVENC scripts |
| DXGI probe (`dxgi_probe/src/main.rs`) | what Windows has handed out, guards; counters; event log | `frame()` in a timed loop, GDI snapshot, wake strategies | driver, JSON log |
| Debug probe (`debugprobe/src/main.rs`) | samples, copied logs, minidumps, summary | sample loop, copy, dump | operating system, JSON log |
| JSON loggers | buffer, sequence number | `event`, `flush` | both probes |
| Safety probes (`dynamic/safety_probes`) | directories and links made, environment, verdict | cases, exit code | `hbb_common`, a server |
| Runner scripts (`scripts/`) | `results/<stamp>/` | run the steps, summarise | all of the above |
| Fuzz targets | none | hand bytes to `hbb_common` | outside this repository |

Interactions that matter:

- detector -> controller -> encoder, in every frame: the detector compares with
  the *previous* frame, the encoder refers to the frame it last *coded*;
- recorder and replay meet only in the file: the replay's length check is the
  whole protocol;
- every cell of the matrix replays the *same* open corpus;
- the DXGI loop and the driver: one unreleased frame makes each later acquire
  fail.

Hard behaviours, component by component, and what makes each correct:

| Component | What is hard | What must hold |
|---|---|---|
| Active map | remainders, three bursts on one counter, saturating bytes, a stale reference | nothing detected is dropped; every block is revisited in time; bursts keep their length and end; the drift is bounded |
| Corpus file | crash, failure and re-recording between any two writes; idle timeout | what can be opened is whole; replay reads the frame it asked for; recording ends |
| Matrix | a cell may fail at any frame, the output may be closed between two cells | one row per cell, in order; nothing leaks into the next cell; a report stands only beside all rows; the run ends |
| DXGI probe | early return after any of the things its functions take; a user who moves the same cursor, calls whose results nobody looks at | everything given back, in reverse order; counters equal events; errors stop the loop; the cursor is where the user put it but for the put-backs Windows refused |
| Hardware benchmark | validation in the middle of the run | a bad name stops the run only between encoders, a closed output only between cells; a report has every row |
| Export and analysis | a pipeline of files that may each be cut short | what is reported was measured on every picture |
| Loggers, debug probe | buffered writes and kills, files left behind, reused process ids | what survives is a prefix and true; nothing is left unmentioned |
| Quantizer, layouts, options | rounding, odd sizes, values that look like options | colours and indexes are what they have to be; a command line means what it says |
| Safety probes | set-up that may fail, one environment for all cases | a probe removes what it made and asks the library in the right environment |
| Runners | shared directory with a one-second stamp; exit codes | lines are lost only to a runner of the same second; a gate fails when a step did |

`PROJECT.json` lists the hazards line by line with the properties that cover
them, and the ones nothing covers yet with the reason.

## 2. Modules

| Module | Stands for | State -> code | Actions -> code |
|---|---|---|---|
| `ActivityWindow` | abstract: a block is coded while something near it changed in the last `Hold` frames | no counters, only ages | `Frame(changed)` |
| `ActiveMap` | `ActiveMapController` in the frame loop | `hold`, `remaining` = `full_active_remaining`, `active` = `active_map`, `frame` = `frame_index` | one action per strategy, each a whole `apply()` |
| `ScreenEncoder` | extends `ActiveMap` with detector and encoder reference | `previous` = `previous_yuv`, `coded` = the reference picture | `EncodeFrame` = detect, apply, encode |
| `CorpusPublication` | abstract: a path holds nothing or one whole recording | `published` | `Publish`, `Withdraw` |
| `CorpusFile` | `record_desktop` beside `RecordedCorpus`, which the benchmark, `run_export_bgra` and `run_analyze_yuv420` replay | `file` = units on disk, `written`, `start`, `lastFrame`; `cursor` = file position; `exported`, `decoded` = the tools' streams | one action per write, poll, open step, read step; `Refuse`, `Fail`, `Kill`, `Tick`; `Transcode` = an encoder and a decoder outside |
| `BenchMatrix` | `run_benchmark` and `run_configuration` | `stage` = program counter, `tally` = counters, `rows` = `results`, `files` = output directory | one per step of the loops; `FailCell` = any `?` of a cell; `LoseOutput` = `print!`, `println!` or `flush()?` of the run itself; `FailReport`, `PrintPaths` |
| `HardwareMatrix` | extends `BenchMatrix` with `hardware.rs` | the same; encoders outside, pairs of profile and quality inside | the loops of `BenchMatrix` with `ValidateEncoder`, several packets per encode, its own samples, and `LoseHardwareOutput`: a name is checked before a line is printed |
| `DxgiProbe` | `run()` of the DXGI probe and the four functions that take things from Windows | `guards` = live guards in order of declaration; `owned` = what Windows has handed out; `log`, `durable` = the JSON log | one per thing taken, `Return`, then one drop per guard; one per step of `run()`; `Attempt` and `EndNudge` = the two `SetCursorPos`, either of which may fail; `MoveCursor` = the user |
| `DebugProbe` | `run()` of the debug probe, `write_minidump`, `JsonLogger` | `pc`, `at` = where in the fixed list of steps; `durable` = events the file holds; `handles`, `lastError` = Windows | one per event, file, flush, sleep and system call; `TakeSample` waits for each window of each process; `Fail` = any `?`; `Kill`, `Change` = the world |
| `SafetyProbes` | the five probes of `dynamic/safety_probes` | a record per running probe: case, what it made, environment, verdict | `SetUp`, `Ask`, `CleanUp` per case; `Return` |
| `SafetyRunners` | extends `SafetyProbes` with the five `run_*.sh` | `stage`, `statuses`, `stamp`, `summary` = the shared file, `code` = exit status | one per stamp (`Start`), head (`WriteHead`), step and summary line |
| `Colours`, `Planes` | pure: quantizer, capture formats, colours of saved pictures; plane layouts, blocks, picture rows, shapes of the scene, percentile index | none | operators |
| `Options` | the argument loops of the three programs | `next`, `options`, `outcome` | one per kind of argument, and the checks after the loop |
| `Algorithms` | what only computes, one input at a time | `job` = an input and its result | one per function |
| `ActiveMapProofs` (of `ActiveMap` and `ScreenEncoder`), `CorpusFileProofs`, `BenchMatrixProofs` (of both benchmarks), `DxgiProbeProofs`, `DebugProbeProofs`, `SafetyProofs`, `AlgorithmsProofs` (with `Colours`, `Planes` and `Options`) | theorems about the modules they extend, and their proofs | | |
| `Arithmetic` | lemmas about division, remainders and the counting of positions in a sequence, which the proofs share | | |
| `MCCorpusFile`, `MCBenchMatrix`, `MCSafetyRunners`, `MCAlgorithms` | constants that a `.cfg` cannot write | | |

Choices of abstraction:

- *A frame of the active map is one step.* Detection, `apply` and encode run back
  to back on one thread; nothing can observe the middle. The set of changed
  blocks is the input in `ActiveMap` (any set) and derived from pixels in
  `ScreenEncoder`.
- *Blocks are 16x16 squares of the map*; a block in `ScreenEncoder` carries a set
  of luma samples. The external AV1 encoder keeps a block outside the map and
  takes a block inside it over without loss: the drift spoken of is what
  skipping adds to the loss of the codec.
- *A corpus file is a sequence of units*, the unit being what a partial write can
  separate: two for the header, one per timestamp, `parts` per picture. The length
  check is exact on units as it is on bytes. Pixels are the identity of
  (recording, frame, part).
- *Time* is a tick counter; `Grace` is how late a blocking call may return.
- *Codecs, Windows and `hbb_common` are external*: an encode gives no packet or
  some (the first of an encoder a keyframe), a packet decodes to any number of
  pictures, none included, and each call may fail; Windows hands things out and takes them back, and does not delete a bitmap
  that is selected; the library has some findings, the same whenever it is asked.
- *What a function takes is a chain.* The functions of the DXGI probe that take
  things from Windows share one shape: take the next thing and guard it, or return;
  then the guards drop, last declared first. Their chains are data (`Chain`), the
  shape is one set of actions, and `run()` itself drops its locals by the same rule.
- *A log file* holds the events spilled so far; a line cut short counts as absent. A
  failing program flushes its log when it is dropped, a killed one does not.
- *A text of the command line* is the sequence of its comma-separated items; numbers
  are one digit.
- *History variables* (`detected`, `age`, `idle`, `sceneAge` in `ActiveMap`; `opened` and
  the field `of` of `exported` in `CorpusFile`; `wanted`, `fate` and
  `refused` in `DxgiProbe`; `listing`, `dumped` and the field `call` of a
  dump in `DebugProbe`; `kept` in `SafetyProbes`) are read by properties and never
  decide what the program does.

Definitions with a comment that begins `Mutant:` are faulty variants of the
definition that follows them. No specification uses them: each shows, when put
in the place of the correct one, that a property can fail.

## 3. Model-checked runs

| Run | Question | Instance and why it is enough |
|---|---|---|
| `active_map` | `ChangedIsActive`, `BoundedNeglect`, `FullWhenDue`, `BurstEnds`, `TypeOK` | all five strategies on three blocks: an end block, a middle one and one outside its neighbourhood. At 6 frames per second a scene burst of 3 and a periodic one of 2 every 12 frames meet in every order within 27 frames; at 3 it is 1 and 2 every 6; at 1 `fps / 2` is zero and every frame a turn |
| `hold_window` | `HoldIsRecency`, and the countdown implements `ActivityWindow` (`WindowSpec`) | 2x3 grid: corners, edges, and blocks not adjacent; hold 2 and 5 frames let it expire and re-arm |
| `screen_drift` | `DriftBound` | luma 0..2 with the code's threshold lets a fade of one step per frame pass unseen while the refresh (period 2) has not come round |
| `corpus_file` | what a replay may meet: `RecordedIsOpenable`, `ReadsTheFrameAskedFor`, and the path implements `CorpusPublication` (`PublicationSpec`); what the tools make of it: `ToolsUseEveryPicture`; and the clock: `TimeoutIsIdle`, `RecordingEnds` | two recordings to one path, one large frame or two small ones: different shapes and *equal length*, so that only identity tells them apart; failure and kill after any unit, an export cut short at any unit. Timeout 2 is more than one poll (1); the clock never reaches its bound (30), so the bound hides nothing |
| `bench_matrix` | `RowsFollowMatrix`, `FrameIsAligned`, `RowsAddUp`, `DecodesFromKey`, `EveryStepLeadsOn`, `RunEnds` | two ways to start each benchmark: 2x2 cells, with failures in first, last and inner cells of either loop; two variants that replay two frames twice, so that there is something to leak between frames, repeats and cells; two qualities that share a sample name (1.000 and 1.004, which both print as 1.00) and then an encoder that is refused; two encoders that may give two packets for a frame. A packet may decode to none, one or two pictures, and every line printed may be the one that ends the run |
| `bench_samples` | expected to fail, see findings | one variant, not the baseline |
| `dxgi_frame` | `ReleaseOrder`, `NothingKept`, `SummaryAddsUp`, `SavedIsFirst`, `CursorPutBack` | every mode, with the cursor wake, the window wake and none (`redraw` asks for a repaint, looks at no result and holds nothing, so it is not told apart from none); three attempts: a frame after a frame, after a timeout, and an error after either; each call of Windows and each event may fail; the user moves a cursor of three places, so that two refused put-backs show as a drift of two; a kill anywhere. `--map-pointer-only` takes the early return for pointer updates away and adds nothing |
| `dxgi_bootstrap` | expected to fail, see findings | hybrid mode |
| `debug_probe` | `SamplesSurvive`, `FinishedIsComplete`, `NothingLeftSilently`, `DumpsFollowListing`, `ProbeEnds` | two processes of up to two windows each, which end and whose ids are taken over at any time; up to two samples with `--interval-ms 0`, so that only the rounds themselves take time; a failure or kill anywhere. `TypeOK` bounds the clock: sampling goes on after its time for one round at most |
| `safety_runners` | `ProbeLeavesNothing`, `VerdictReachesTheGate`, `SummaryKeepsLines` | two runners, in the same second or not, in the pairs that share probes or a summary; the library with none of the findings or one of them; hardened or not |
| `hardened_exit` | expected to fail, see findings | the same |
| `algorithms` | `ColoursAreRight`, `IndexesStayInside`, `OptionsAreRead` | every grey and every combination of six values at the edges of the quantizers' steps, in each of the modes; luma and chroma samples around and outside the shown range; every high byte of an RGB565 pixel; sides of 1, 2 and around one and two blocks; pictures smaller than the scene's bars and as large as allowed; every command line of up to four arguments from a set chosen per command, in which values look like options |

Deadlock checking is off because each of these programs ends: a corpus has a last
frame, a run its report, a probe its summary, a script its last step, a
computation its result.

**Bounds.** `Frames` is the length of the corpus, `MaxGen` the recordings made to a
path, one export of it, `MaxTime` the clock, `MaxAttempts` the attempts of the probe,
`Edge` the width of the desktop, `Grace` the
lateness of a call, `Windows` the windows of a process, `Work` what a look at the
processes costs beside them, `Hang` the wait for a window that hangs, `MaxLuma` the luma
range, `MaxPackets` the packets of an encode, `MaxPictures` the pictures of a packet,
`MaxArgs` the arguments. The debug probe
makes four calls of `log_command`; `debug_probe` makes one, since they differ in nothing
but their name. The constants of the code (hold 8, recovery 5 seconds and 5 frames,
60 %) are scaled down in the runs; the theorems hold for all of them.

**Fairness.** `RecordingEnds` assumes weak fairness of the recorder's own steps and
of the clock: the recorder is one thread that blocks at most `1000 / fps` ms in a
poll, and system calls return. No poll is owed a frame (`StampFrame` is not among
the fair steps), and nothing is fair about failing. `RunEnds` assumes only that the one thread keeps
running and the codec calls return; which branch it takes is free, and each loop
is bounded by its counters. `ProbeEnds` is the same for the
debug probe: its steps are fair, failing and being killed are not, and the world may
change for ever. With an interval of zero nothing but the rounds moves the clock; each
takes at least a tick (`Work` is not zero, and a tick is as short as one likes), which
is enough. The other properties need no fairness.

## 4. Findings

- `--save-samples` is documented as saving source *and* decoded frames
  (`main.rs:59`); the source is written by the baseline variant only
  (`main.rs:793`), so a run without it saves decoded frames alone
  (`bench_samples`).
- `--save-first` is documented as writing the first captured frame
  (`dxgi_probe/src/main.rs:454`); in hybrid mode `first_dxgi_saved` starts true even
  when the GDI bootstrap failed (`:184`), so nothing is ever saved
  (`dxgi_bootstrap`).
- `EXPECT_HARDENED=1` with `run_dynamic_local.sh` or `run_resource_checks.sh` is
  documented as making known unsafe behaviour fail CI
  (`SAFETY_BASELINE_20260425.md:109`); both scripts write the probes' statuses into
  the summary and succeed whatever they are (`hardened_exit`). Only
  `run_codec_hardening_ci.sh` hands a status on. `zstd_expansion_probe` succeeds in
  either mode, so even its line in the summary says 0.

## 5. Theorems

Every invariant, every refinement and the action property of the passing runs is
proved, for every value of the constants. The assumptions are named in the modules, and TLC
evaluates them in the runs:

| Assumption | Says | Because |
|---|---|---|
| `GridAssumption`, `RateAssumption`, `StrategyAssumption`, `TuningAssumption`, `LumaAssumption` | grid, frame rates, hold and periods are positive, the strategies are the five there are | the program checks sizes and rates before it builds a controller (`main.rs:1152`), the rest are its constants |
| `TimeAssumption`, `ShapeAssumption` | a recording is asked for at least one frame, of at least one part; the idle timeout is positive | `corpus.rs:245`, `main.rs:1194` |
| `OptionAssumption` | the two lists, the frames and the repeats are not empty | `main.rs:1004`, `1152` and the parsers of the lists |
| `MaxPacketsAssumption`, `MaxPicturesAssumption` | the bounds on what a codec gives are natural numbers, zero included | the code loops over what it is given (`main.rs:824`, `hardware.rs:284`) |
| `ProbeAssumption` (of either probe) | modes and wakes are those of the parser; times and bounds are natural numbers; processes are finitely many, with finitely many windows, and looking at them takes time | the enumerations of the options; an interval of zero is accepted (`debugprobe/src/main.rs:234`) and covered |
| `PixelAssumption` | pixels and samples are bytes | their type in the source |
| `SizeAssumption` | an encoder leaves room for every row of a plane before the next one begins (`Layout`); a plane has a row; a picture has a size; a percentile is taken of something | the layouts `YuvBuffer::new` is given come from the external encoder, and it refuses sizes of zero (`yuv.rs:17`); `corpus.rs:685`; `main.rs:1282` |
| `ArgumentAssumption` | an argument is a text, or two around its first equals sign; what stands before that has an item, if an empty one | `split_once` and `split` (`main.rs:1204`, `1229`) |
| `SettingsAssumption` | a runner runs one of the five scripts; no finding of the library is about a server's answers | the scripts there are; the client for a server has no verdict |

Each component with state has one inductive invariant. It is a conjunction of named parts that TLC
checked on the run of the component before it was proved.

| Theorem | Property | Argument |
|---|---|---|
| `TypeCorrect` | `TypeOK` | inductive; one step per strategy |
| `NothingDropped` | `ChangedIsActive` | a changed block is near itself, so its hold is full |
| `NoBlockNeglected` | `BoundedNeglect` | strengthened to `NeglectInv`: a block has been idle no longer than the remainder that says how far its last turn is back. The bound alone is not inductive, it does not say when the next turn comes. Rests on `ModStep`: a remainder grows by one or is zero |
| `BurstsAreWhole`, `BurstsRunOut` | `FullWhenDue`, `BurstEnds` | `BurstInv`: the one counter holds at least what each burst has left to run and at most what one of them has, the rest of a period being a remainder of the frame number |
| `HoldCountsRecency` | `HoldIsRecency` | inductive with `TypeOK`: the countdown is the largest `HoldFrames - age` of the neighbourhood |
| `HoldImplementsWindow` | `WindowSpec` | `HoldIsRecency` after the step turns "hold above zero" into "somebody near changed within `HoldFrames`" |
| `EncoderRunsController` | `EncoderSpec => Spec` | each encoder step is a controller step, so the theorems above hold of the composition |
| `EncoderTypeCorrect`, `DriftBounded` | types; `DriftBound` | `SkippedDrifts`: a skipped block was not named (`NothingDropped`), so it moved by at most one. With `NoBlockNeglected` the drift stays below a period |
| `TypesAreKept`, `RecordingsAreOpenable`, `TimeoutsAreIdle` | `TypeOK`, `RecordedIsOpenable`, `TimeoutIsIdle` | `RecorderInv`: the file is a prefix of the complete recording, as long as phase and frame counter say; a prefix opens only when it is the whole, since the length announced in the header is a number of units |
| `FramesAreRead` | `ReadsTheFrameAskedFor` | `ReaderInv`: while nobody records over the file the position is the start of record `index`, so what is read is that record. The property alone is not inductive: it says nothing of the position |
| `PicturesAreUsed` | `ToolsUseEveryPicture` | `ToolInv`: an export is the pictures of the frames read so far, and what was decoded is a prefix of an export |
| `RecordingsArePublished` | `PublicationSpec` | the path implements `CorpusPublication`: initial states map to initial states, the step that completes a file is `Publish`, the one that begins anew `Withdraw`, every other a stutter |
| `MatrixTypes`, `FramesStayAligned`, `DecodersStartWithKey` | `TypeOK`, `FrameIsAligned`, `DecodesFromKey` | `MatrixInv`: what each stage knows of cursor, frame and encoder (`Place`), and a fresh encoder's first packet is the keyframe (`KeyFirst`); proved of `BothSpec`, the two benchmarks |
| `RowsAreComplete` | `RowsAddUp` | `Counted`: the counters of the current cell are bounded by the frames passed in it |
| `ReportFollowsMatrix` | `RowsFollowMatrix` | `RowPerCell`: the number of rows is the place of the current cell in the flattened matrix, also where the run ends for want of an output; a cell is the one of its number by unique division (`DivisionUnique`) |
| `RunsLeadOn` | `EveryStepLeadsOn` | `Progress` lists what the loops count, outermost first, and each action raises one part of it and leaves those before it alone. `TypeOK` bounds every part, so no run takes infinitely many steps, whatever the lists, the corpus and the failures; that it takes the ones it can is all that `RunEnds` adds |
| `ProbeTypes`, `ReleasedInOrder`, `NothingIsKept` | `TypeOK`, `ReleaseOrder`, `NothingKept` | `Stack`: the guards are a beginning of what `run()` holds followed by the chain of the running function, and what Windows has out is their contents; so whatever is dropped is the last |
| `FirstPictureSaved`, `CursorIsPutBack` | `SavedIsFirst`, `CursorPutBack` | `Picture`: a save is pending only before the first frame; `Nudge`: a nudge under way returns to a place no further from the user's than put-backs were refused, and there are no more of those than attempts |
| `SummaryIsRight` | `SummaryAddsUp` | `Tallied`: each counter is the number of positions of its events; `SummaryLast`, `ErrorLast` |
| `ProbeTypes` (debug probe) | `TypeOK` | inductive; the script of steps and its program counter. A round begins before the time is up and takes no longer than `LongestRound`, since the processes looked at are no more than there are ids (`Cardinality` of a subset) |
| `SamplesAreFiled`, `StopMeansComplete` | `SamplesSurvive`, `FinishedIsComplete` | `CommandsLogged`, `CopiesLogged`, `DumpsLogged`, `SamplesLogged`: the events of a kind are as many as the steps of that kind before `pc`, wherever inside a step the probe is; `StopIsLast` |
| `NothingIsLeft` | `NothingLeftSilently` | `HandlesClosed`: what is open is what the call at hand opened; `TempsReported` |
| `DumpsAreInOrder` | `DumpsFollowListing` | `Listing`: those dumped, then those to do, are the listing; `Errors` |
| `ProbesAreTidy` | `ProbeLeavesNothing` | `ProbeOK`, of each probe on its own: between its cases it has removed what it made but for what `file_transfer_path` keeps to the end (`Tidy`), and its environment is the caller's (`OwnEnvironment`) |
| `VerdictsReachTheGate` | `VerdictReachesTheGate` | `Judged`: the findings of the cases so far are in the verdict, and `Following`: the probe waited for is that of the step, in the mode of the runner; `Gate`: the exit status is that of the last failure among the lines written |
| `SummariesKeepLines` | `SummaryKeepsLines` | `Kept`: what a runner has in its second are the last of its lines; only a head written by another runner with the same stamp shortens it (`OthersStay`), which is why a step of one runner has to be looked at from all the others |
| `ColoursComeOutRight` | `ColoursAreRight` | a channel is within half a step of its level by the bounds of a quotient (`ChannelQuantized`); the palette mode looks up five bits of a channel (`FiveBits`) and takes the nearest of sixteen colours to them, which exists since distances are natural numbers (`LeastExists`), so it is nearest to the pixel up to what the bits lost (`NearestOfPixel`); a colour of the palette is found again. The copies of a captured pixel and the fixed-point coefficients of a shown one are compared channel by channel with the format and with BT.601 |
| `NoIndexLeaves` | `IndexesStayInside` | the end of a plane is its last row's, and the buffer is as long as the furthest end (`LargestOfThree`); a quotient rounded up covers every sample with one block (`BlocksRight`); clipping and the scene's measures (`ClippedInside`, `ShapesAreRects`, `VideoInside`) |
| `CommandLinesAreRead` | `OptionsAreRead` | `OptionInv`: some of the arguments before `next` are the options, the rest belong to them, and the next one is not spoken for. The property alone is not inductive, it speaks of the end of the loop only. That a list keeps exactly its items rests on `AtPlaces`: the places chosen have the ranks 1 to their number (`EveryRank`) |

Where a property speaks of a selection of events or failures it counts or compares
positions (`Cardinality`, the largest index) and does not build the subsequence: the
recursive definition of `SelectSeq` is out of the prover's reach, and the meaning is the
same. For the same reason the lists of `Options` are built from the ranks of the places
kept (`At`). The provers do not know that a string literal is in `STRING`, so the proofs
about `Options` speak of `Strings`, which has the literals of the grammar as well. `ToolsUseEveryPicture` speaks of an analysis of an export of *this* recording
(the history field `exported.of`).

What stays with TLC:

- liveness (`RecordingEnds`, `RunEnds`, `ProbeEnds`): the provers at hand do not reason
  about fairness or `ENABLED`;
- the three violations of section 4, which are counterexamples.

## 6. Not modelled

- The AV1 codec, ffmpeg, libyuv, `hbb_common`, cargo and Windows: outside the
  repository; their interface is modelled as external where the code relies on it.
- Durations, PSNR and the wording of reports and events: no state and no choice a
  property could be about. Of the percentiles the index is modelled, of the packets
  their number, not the spikes of their size.
- The text and colours of the synthetic scene; its shapes and their clipping are.
- Which display is recorded or captured: the lists come from the operating system, see
  the hazards. The content of a captured picture, and the desktop rectangle it is read
  with.
- What a sample of the debug probe says of windows and pipes: it is one event, and only
  the time hung windows cost is modelled.
- Power failure: the file is what other processes see of it; lost pages are not
  modelled, and the recorder does not sync.
- The exchange of messages in `online_request_client`: it ends with success or an error.
- In the runner scripts, the note that the nightly toolchain is missing and what
  `run_advisories` does for further repositories.
- The NVENC and VideoToolbox pipelines: they chain `export-bgra`, ffmpeg and
  `analyze-yuv420`, which is in `CorpusFile`; the rest is layout.
- Build scripts, CI and fuzz targets: straight-line wrappers.

## 7. Plan

Every component with state of its own is modelled, and what the passing runs check of it
is proved, liveness excepted. Worth doing next: an argument like `RunsLeadOn` for the loops
of the debug probe, where the clock and the world move as well; a power failure in
`CorpusFile`, once the recorder syncs and promises something about it; and the values of
the options beyond one digit.
