-------------------------- MODULE DebugProbeProofs ---------------------------
(* Theorems about DebugProbe: for every number of processes and commands and *)
(* every duration, with or without dumps.                                    *)
EXTENDS DebugProbe, Arithmetic, SequenceTheorems, FiniteSetTheorems, TLAPS

-----------------------------------------------------------------------------
(* The inductive invariant.                                                 *)

\* Where the steps are in Script.
OutLatency == Commands + 2
UserLatency == Commands + 3
Copies == {Commands + 4, Commands + 5, Commands + 8, Commands + 9}
Sampling == Commands + 6
Dumping == Commands + 7
Summing == Commands + 10
Stopping == Commands + 11

\* Where each of them may be.
Places ==
    /\ pc \in 1 .. Stopping
    /\ pc = 1 \/ pc \in Copies => at = "begin"
    /\ pc \in 2 .. Commands + 1 => at \in {"begin", "fill", "report"}
    /\ pc \in {OutLatency, UserLatency} =>
           at \in {"begin", "written", "clean", "unclean"}
    /\ pc = Sampling => at \in {"begin", "windows", "flush", "sleep"}
    /\ pc = Dumping =>
           at \in {"begin", "next", "file", "write", "close", "report"}
    /\ pc = Summing => at \in {"begin", "fill"}
    /\ pc = Stopping => at \in {"begin", "flush"}

\* The rounds of the sampling, each begun before the duration is over.
Rounds ==
    /\ pc < Sampling => index = 0
    /\ (pc = Sampling /\ at = "windows") => elapsed < Duration
    /\ (pc = Sampling /\ at \in {"flush", "sleep"}) =>
           elapsed <= Duration - 1 + LongestRound

\* Which events there are.
Plain == {"probe_start", "command", "command_error", "logs", "sample", "dump",
          "probe_stop"}
Latencies == {"out_latency", "user_latency"}
Events == {<<name>> : name \in Plain} \cup (Latencies \X {"clean", "unclean"})
Called(name) == {event \in Events : event[1] = name}

\* How many are written, and how many the file holds.
Early(s, d, e) == {k \in 1 .. d : s[k] \in e}
Logged(name) == Cardinality(Positions(log, Called(name)))
Filed(name) == Cardinality(Early(log, durable, Called(name)))

\* Every command output has its event, but the one just written; at most one
\* output comes from a step.
CommandsLogged ==
    /\ outputs = Logged("command") +
                     (IF pc <= Commands + 1 /\ at = "report" THEN 1 ELSE 0)
    /\ pc = 1 => outputs = 0
    /\ pc \in 2 .. Commands + 1 =>
           outputs <= IF at = "report" THEN pc - 1 ELSE pc - 2

\* The events of the copies and of the dumps.
CopiesLogged ==
    Logged("logs") = IF pc <= Commands + 4 THEN 0
                     ELSE IF pc = Commands + 5 THEN 1
                     ELSE IF pc <= Commands + 8 THEN 2
                     ELSE IF pc = Commands + 9 THEN 3 ELSE 4

DumpsLogged == Logged("dump") = Len(dumped)

\* Every sample has its event but the one being taken, and is in the file but
\* the last of a round.
SamplesLogged ==
    /\ index = Logged("sample") +
                   (IF pc = Sampling /\ at = "windows" THEN 1 ELSE 0)
    /\ Filed("sample") >= index - 1
    /\ ~(pc = Sampling /\ at \in {"windows", "flush"}) =>
           Filed("sample") = index

\* probe_stop is the last event, after everything else.
StopIsLast ==
    /\ \A k \in 1 .. Len(log) :
         log[k] = <<"probe_stop">> =>
             k = Len(log) /\ pc = Stopping /\ at = "flush"
    /\ (pc = Stopping /\ at = "flush") =>
           log # << >> /\ log[Len(log)] = <<"probe_stop">>
    /\ pc = Stopping => summary = "whole"
    /\ stage = "done" =>
           pc = Stopping /\ at = "flush" /\ durable = Len(log)

\* A timing file that is there was reported or is about to be.
Reported(step) == \E k \in 1 .. Len(log) : log[k] = <<step, "unclean">>

TempsReported ==
    \A step \in temps :
        \/ Reported(step)
        \/ /\ pc = IF step = "out_latency" THEN OutLatency ELSE UserLatency
           /\ at \in {"written", "unclean"}

\* Handles are open only in the middle of a dump.
HandlesClosed ==
    (pc # Dumping \/ at \in {"begin", "next", "report"}) => handles = {}

\* What is dumped and what is still to be are the listing.
Dumps == [ok : BOOLEAN, call : Calls \cup {"none"},
          error : Calls \cup {"none", "CloseHandle"}]

Listing ==
    /\ dumped \in Seq(Pid \X Dumps)
    /\ Len(listing) = Len(dumped) + Len(todo)
    /\ \A k \in 1 .. Len(dumped) : dumped[k][1] = listing[k]
    /\ \A k \in 1 .. Len(todo) : todo[k] = listing[Len(dumped) + k]
    /\ (pc < Dumping \/ (pc = Dumping /\ at = "begin")) => listing = << >>
    /\ (pc = Dumping /\ at \in {"file", "write", "close", "report"}) =>
           todo # << >>
    /\ pc > Dumping => todo = << >>

\* A failure names its own error.
Errors ==
    /\ ~dump.ok => dump.error = dump.call
    /\ \A k \in 1 .. Len(dumped) :
         ~dumped[k][2].ok => dumped[k][2].error = dumped[k][2].call

ProbeInv ==
    /\ TypeOK /\ log \in Seq(Events)
    /\ Places /\ Rounds
    /\ CommandsLogged /\ CopiesLogged /\ DumpsLogged /\ SamplesLogged
    /\ StopIsLast /\ TempsReported /\ HandlesClosed /\ Listing /\ Errors

-----------------------------------------------------------------------------
(* The script.                                                              *)

\* What comes before the commands, the commands, and what comes after.
Rest == <<"out_latency", "user_latency", "logs", "logs", "sample", "dump",
          "logs", "logs", "summary", "stop">>

StepNames == {"start", "command", "out_latency", "user_latency", "logs",
              "sample", "dump", "summary", "stop"}

LEMMA ScriptParts ==
    /\ Script \in Seq(StepNames) /\ Len(Script) = Commands + 11
    /\ Script[1] = "start"
    /\ \A k \in 2 .. Commands + 1 : Script[k] = "command"
    /\ \A k \in 1 .. 10 : Script[Commands + 1 + k] = Rest[k]
<1> DEFINE first == <<"start">>
           runs == [k \in 1 .. Commands |-> "command"]
           both == first \o runs
<1>0. Commands \in Nat
  BY ProbeAssumption
<1>1. first \in Seq(StepNames) /\ Len(first) = 1 /\ first[1] = "start"
  BY DEF StepNames
<1>2. runs \in Seq(StepNames) /\ Len(runs) = Commands
  <2>1. runs \in [1 .. Commands -> StepNames]
    BY DEF StepNames
  <2>2. runs \in Seq(StepNames)
    BY <2>1, <1>0, SeqDef
  <2> QED BY <2>1, <2>2, <1>0, LenProperties
<1>2a. \A k \in 1 .. Commands : runs[k] = "command"
  OBVIOUS
<1>3. Rest \in Seq(StepNames) /\ Len(Rest) = 10
  BY DEF Rest, StepNames
<1> HIDE DEF first, runs
<1>4. /\ both \in Seq(StepNames) /\ Len(both) = Commands + 1
      /\ \A i \in 1 .. Commands + 1 :
           both[i] = IF i <= 1 THEN first[i] ELSE runs[i - 1]
  <2>1. /\ both \in Seq(StepNames) /\ Len(both) = Len(first) + Len(runs)
        /\ \A i \in 1 .. Len(first) + Len(runs) :
             both[i] = IF i <= Len(first) THEN first[i] ELSE runs[i - Len(first)]
    BY ONLY <1>1, <1>2, ConcatProperties
  <2> QED BY <2>1, <1>0, <1>1, <1>2
<1> HIDE DEF both
<1>5. Script = both \o Rest
  BY DEF Script, both, first, runs, Rest
<1>6. /\ Script \in Seq(StepNames) /\ Len(Script) = Len(both) + Len(Rest)
      /\ \A i \in 1 .. Len(both) + Len(Rest) :
           Script[i] = IF i <= Len(both) THEN both[i] ELSE Rest[i - Len(both)]
  BY ONLY <1>3, <1>4, <1>5, ConcatProperties
<1>7. /\ Script \in Seq(StepNames) /\ Len(Script) = Commands + 11
      /\ \A i \in 1 .. Commands + 11 :
           Script[i] = IF i <= Commands + 1 THEN both[i]
                       ELSE Rest[i - (Commands + 1)]
  BY <1>6, <1>3, <1>4, <1>0
<1>8. Script[1] = "start"
  BY <1>7, <1>4, <1>1, <1>0
<1>9. ASSUME NEW k \in 2 .. Commands + 1
      PROVE  Script[k] = "command"
  <2>1. k - 1 \in 1 .. Commands /\ k \in 1 .. Commands + 11 /\ ~(k <= 1)
    BY <1>0
  <2> QED BY <1>7, <1>4, <1>2a, <2>1
<1>10. ASSUME NEW k \in 1 .. 10
       PROVE  Script[Commands + 1 + k] = Rest[k]
  <2> DEFINE place == Commands + 1 + k
  <2>1. /\ place \in 1 .. Commands + 11
        /\ ~(place <= Commands + 1)
        /\ place - (Commands + 1) = k
    BY <1>0
  <2> HIDE DEF place
  <2>2. Script[place] = Rest[place - (Commands + 1)]
    BY <1>7, <2>1
  <2> QED BY <2>1, <2>2 DEF place
<1> QED BY <1>7, <1>8, <1>9, <1>10

\* Which step is where.
LEMMA Steps ==
    /\ Len(Script) = Stopping
    /\ \A k \in 1 .. Stopping :
         /\ Script[k] = "start" <=> k = 1
         /\ Script[k] = "command" <=> k \in 2 .. Commands + 1
         /\ Script[k] = "out_latency" <=> k = OutLatency
         /\ Script[k] = "user_latency" <=> k = UserLatency
         /\ Script[k] = "logs" <=> k \in Copies
         /\ Script[k] = "sample" <=> k = Sampling
         /\ Script[k] = "dump" <=> k = Dumping
         /\ Script[k] = "summary" <=> k = Summing
         /\ Script[k] = "stop" <=> k = Stopping
<1>0. Commands \in Nat
  BY ProbeAssumption
<1>1. /\ Script[Commands + 2] = "out_latency"
      /\ Script[Commands + 3] = "user_latency"
      /\ Script[Commands + 4] = "logs" /\ Script[Commands + 5] = "logs"
      /\ Script[Commands + 6] = "sample" /\ Script[Commands + 7] = "dump"
      /\ Script[Commands + 8] = "logs" /\ Script[Commands + 9] = "logs"
      /\ Script[Commands + 10] = "summary" /\ Script[Commands + 11] = "stop"
  <2>1. \A k \in 1 .. 10 : Script[Commands + 1 + k] = Rest[k]
    BY ScriptParts
  <2>2. /\ Script[Commands + 1 + 1] = Rest[1] /\ Script[Commands + 1 + 2] = Rest[2]
        /\ Script[Commands + 1 + 3] = Rest[3] /\ Script[Commands + 1 + 4] = Rest[4]
        /\ Script[Commands + 1 + 5] = Rest[5] /\ Script[Commands + 1 + 6] = Rest[6]
        /\ Script[Commands + 1 + 7] = Rest[7] /\ Script[Commands + 1 + 8] = Rest[8]
        /\ Script[Commands + 1 + 9] = Rest[9]
        /\ Script[Commands + 1 + 10] = Rest[10]
    BY <2>1
  <2>3. /\ Commands + 1 + 1 = Commands + 2 /\ Commands + 1 + 2 = Commands + 3
        /\ Commands + 1 + 3 = Commands + 4 /\ Commands + 1 + 4 = Commands + 5
        /\ Commands + 1 + 5 = Commands + 6 /\ Commands + 1 + 6 = Commands + 7
        /\ Commands + 1 + 7 = Commands + 8 /\ Commands + 1 + 8 = Commands + 9
        /\ Commands + 1 + 9 = Commands + 10
        /\ Commands + 1 + 10 = Commands + 11
    BY <1>0
  <2> QED BY <2>2, <2>3 DEF Rest
<1>2. ASSUME NEW k \in 1 .. Stopping
      PROVE  \/ k = 1 \/ k \in 2 .. Commands + 1 \/ k = Commands + 2
             \/ k = Commands + 3 \/ k = Commands + 4 \/ k = Commands + 5
             \/ k = Commands + 6 \/ k = Commands + 7 \/ k = Commands + 8
             \/ k = Commands + 9 \/ k = Commands + 10 \/ k = Commands + 11
  BY <1>0 DEF Stopping
<1> QED
  BY <1>0, <1>1, <1>2, ScriptParts
     DEF OutLatency, UserLatency, Copies, Sampling, Dumping, Summing, Stopping

\* Where each operation is found and where it goes.
LEMMA Moves ==
    ASSUME pc \in 1 .. Stopping
    PROVE
    /\ Start => pc = 1 /\ pc' = pc + 1 /\ at' = "begin"
    /\ RunCommand => pc \in 2 .. Commands + 1 /\ at = "begin"
    /\ WriteOutput => /\ pc \in 2 .. Commands + 1 /\ at = "fill"
                      /\ pc' = pc /\ at' = "report"
    /\ LogCommand => /\ pc \in 2 .. Commands + 1 /\ at = "report"
                     /\ pc' = pc + 1 /\ at' = "begin"
    /\ WriteTemp => /\ pc \in {OutLatency, UserLatency} /\ at = "begin"
                    /\ pc' = pc /\ at' \in {"written", "clean", "unclean"}
    /\ DeleteTemp => /\ pc \in {OutLatency, UserLatency} /\ at = "written"
                     /\ pc' = pc /\ at' \in {"clean", "unclean"}
    /\ LogLatency => /\ pc \in {OutLatency, UserLatency}
                     /\ at \in {"clean", "unclean"}
                     /\ pc' = pc + 1 /\ at' = "begin"
    /\ CopyRecentLogs => pc \in Copies /\ pc' = pc + 1 /\ at' = "begin"
    /\ BeginSample => /\ pc = Sampling /\ at = "begin"
                      /\ pc' = pc /\ at' = "windows"
    /\ TakeSample => /\ pc = Sampling /\ at = "windows"
                     /\ pc' = pc /\ at' = "flush"
    /\ FlushSample => /\ pc = Sampling /\ at = "flush"
                      /\ pc' = pc /\ at' = "sleep"
    /\ Sleep => pc = Sampling /\ at = "sleep" /\ pc' = pc /\ at' = "begin"
    /\ EndSampling => /\ pc = Sampling /\ at = "begin"
                      /\ pc' = pc + 1 /\ at' = "begin"
    /\ SkipDump => /\ pc = Dumping /\ at = "begin"
                   /\ pc' = pc + 1 /\ at' = "begin"
    /\ ListProcesses => /\ pc = Dumping /\ at = "begin"
                        /\ pc' = pc /\ at' = "next"
    /\ OpenProcess => /\ pc = Dumping /\ at = "next"
                      /\ pc' = pc /\ at' \in {"file", "report"}
    /\ CreateDumpFile => /\ pc = Dumping /\ at = "file"
                         /\ pc' = pc /\ at' \in {"write", "close"}
    /\ WriteDump => /\ pc = Dumping /\ at = "write"
                    /\ pc' = pc /\ at' = "close"
    /\ CloseHandles => /\ pc = Dumping /\ at = "close"
                       /\ pc' = pc /\ at' = "report"
    /\ EmitDump => /\ pc = Dumping /\ at = "report"
                   /\ pc' = pc /\ at' = "next"
    /\ EndDump => /\ pc = Dumping /\ at = "next"
                  /\ pc' = pc + 1 /\ at' = "begin"
    /\ CreateSummary => /\ pc = Summing /\ at = "begin"
                        /\ pc' = pc /\ at' = "fill"
    /\ FillSummary => /\ pc = Summing /\ at = "fill"
                      /\ pc' = pc + 1 /\ at' = "begin"
    /\ Stop => pc = Stopping /\ at = "begin" /\ pc' = pc /\ at' = "flush"
    /\ FinalFlush => /\ pc = Stopping /\ at = "flush"
                     /\ pc' = pc /\ at' = at
    /\ Fail \/ Kill \/ Change => pc' = pc /\ at' = at
<1>1. Start \/ RunCommand \/ WriteOutput \/ LogCommand =>
          /\ Start => pc = 1 /\ pc' = pc + 1 /\ at' = "begin"
          /\ RunCommand => pc \in 2 .. Commands + 1 /\ at = "begin"
          /\ WriteOutput => /\ pc \in 2 .. Commands + 1 /\ at = "fill"
                            /\ pc' = pc /\ at' = "report"
          /\ LogCommand => /\ pc \in 2 .. Commands + 1 /\ at = "report"
                           /\ pc' = pc + 1 /\ at' = "begin"
  BY Steps DEF Start, RunCommand, WriteOutput, LogCommand, At, In, Advance,
               Goto
<1>2. /\ WriteTemp => /\ pc \in {OutLatency, UserLatency} /\ at = "begin"
                      /\ pc' = pc /\ at' \in {"written", "clean", "unclean"}
      /\ DeleteTemp => /\ pc \in {OutLatency, UserLatency} /\ at = "written"
                       /\ pc' = pc /\ at' \in {"clean", "unclean"}
      /\ LogLatency => /\ pc \in {OutLatency, UserLatency}
                       /\ at \in {"clean", "unclean"}
                       /\ pc' = pc + 1 /\ at' = "begin"
      /\ CopyRecentLogs => pc \in Copies /\ pc' = pc + 1 /\ at' = "begin"
  BY Steps DEF WriteTemp, DeleteTemp, LogLatency, CopyRecentLogs, InLatency,
               In, Advance, Goto
<1>3. /\ BeginSample => /\ pc = Sampling /\ at = "begin"
                        /\ pc' = pc /\ at' = "windows"
      /\ TakeSample => /\ pc = Sampling /\ at = "windows"
                       /\ pc' = pc /\ at' = "flush"
      /\ FlushSample => /\ pc = Sampling /\ at = "flush"
                        /\ pc' = pc /\ at' = "sleep"
      /\ Sleep => pc = Sampling /\ at = "sleep" /\ pc' = pc /\ at' = "begin"
      /\ EndSampling => /\ pc = Sampling /\ at = "begin"
                        /\ pc' = pc + 1 /\ at' = "begin"
  BY Steps DEF BeginSample, TakeSample, FlushSample, Sleep, EndSampling, At,
               In, Advance, Goto
<1>4. /\ SkipDump => /\ pc = Dumping /\ at = "begin"
                     /\ pc' = pc + 1 /\ at' = "begin"
      /\ ListProcesses => /\ pc = Dumping /\ at = "begin"
                          /\ pc' = pc /\ at' = "next"
      /\ OpenProcess => /\ pc = Dumping /\ at = "next"
                        /\ pc' = pc /\ at' \in {"file", "report"}
      /\ CreateDumpFile => /\ pc = Dumping /\ at = "file"
                           /\ pc' = pc /\ at' \in {"write", "close"}
  BY Steps DEF SkipDump, ListProcesses, OpenProcess, CreateDumpFile, At, In,
               Advance, Goto
<1>5. /\ WriteDump => /\ pc = Dumping /\ at = "write"
                      /\ pc' = pc /\ at' = "close"
      /\ CloseHandles => /\ pc = Dumping /\ at = "close"
                         /\ pc' = pc /\ at' = "report"
      /\ EmitDump => /\ pc = Dumping /\ at = "report"
                     /\ pc' = pc /\ at' = "next"
      /\ EndDump => /\ pc = Dumping /\ at = "next"
                    /\ pc' = pc + 1 /\ at' = "begin"
  BY Steps DEF WriteDump, CloseHandles, EmitDump, EndDump, At, In, Advance,
               Goto
<1>6. /\ CreateSummary => /\ pc = Summing /\ at = "begin"
                          /\ pc' = pc /\ at' = "fill"
      /\ FillSummary => /\ pc = Summing /\ at = "fill"
                        /\ pc' = pc + 1 /\ at' = "begin"
      /\ Stop => pc = Stopping /\ at = "begin" /\ pc' = pc /\ at' = "flush"
      /\ FinalFlush => /\ pc = Stopping /\ at = "flush"
                       /\ pc' = pc /\ at' = at
      /\ Fail \/ Kill \/ Change => pc' = pc /\ at' = at
  BY Steps DEF CreateSummary, FillSummary, Stop, FinalFlush, Fail, Kill,
               Change, At, In, Advance, Goto
<1> QED BY <1>1, <1>2, <1>3, <1>4, <1>5, <1>6

LEMMA PlacesHold == Init => Places
BY Steps, ProbeAssumption
   DEF Init, Places, Stopping, Copies, OutLatency, UserLatency, Sampling,
       Dumping, Summing

\* Every step leaves the probe at one of its places.
LEMMA PlacesStay ==
    ASSUME Places, [Next]_vars
    PROVE  Places'
<1>0. pc \in 1 .. Stopping /\ Commands \in Nat
  BY ProbeAssumption DEF Places
<1> USE DEF Stopping, Copies, OutLatency, UserLatency, Sampling, Dumping,
            Summing
<1>1. CASE Start \/ LogCommand \/ LogLatency \/ CopyRecentLogs
  BY <1>0, <1>1, Moves DEF Places
<1>2. CASE RunCommand
  BY <1>0, <1>2, Moves DEF Places, RunCommand, Advance, Goto
<1>3. CASE WriteOutput \/ WriteTemp \/ DeleteTemp
  BY <1>0, <1>3, Moves DEF Places
<1>4. CASE BeginSample \/ TakeSample \/ FlushSample \/ Sleep \/ EndSampling
  BY <1>0, <1>4, Moves DEF Places
<1>5. CASE SkipDump \/ ListProcesses \/ OpenProcess \/ CreateDumpFile
  BY <1>0, <1>5, Moves DEF Places
<1>6. CASE WriteDump \/ CloseHandles \/ EmitDump \/ EndDump
  BY <1>0, <1>6, Moves DEF Places
<1>7. CASE CreateSummary \/ FillSummary \/ Stop \/ FinalFlush
  BY <1>0, <1>7, Moves DEF Places
<1>8. CASE Fail \/ Kill \/ Change
  BY <1>0, <1>8, Moves DEF Places
<1>9. CASE UNCHANGED vars
  BY <1>9 DEF vars, Places
<1> QED
  BY <1>1, <1>2, <1>3, <1>4, <1>5, <1>6, <1>7, <1>8, <1>9 DEF Next, Step

-----------------------------------------------------------------------------
(* The log and the file.                                                    *)

LEMMA EventFacts ==
    /\ \A n \in Plain :
         <<n>> \in Events /\ (\A m : <<n>> \in Called(m) <=> m = n)
    /\ \A step \in Latencies, a \in {"clean", "unclean"} :
         /\ <<step, a>> \in Events
         /\ \A m : <<step, a>> \in Called(m) <=> m = step
BY DEF Events, Called, Plain, Latencies

\* The beginning of a log can be counted like the whole of it.
LEMMA EarlyCounts ==
    ASSUME NEW S, NEW s \in Seq(S), NEW d \in 0 .. Len(s), NEW e
    PROVE  /\ Cardinality(Early(s, d, e)) \in Nat
           /\ \A c \in d .. Len(s) :
                Cardinality(Early(s, d, e)) <= Cardinality(Early(s, c, e))
           /\ Early(s, Len(s), e) = Positions(s, e)
<1>0. Len(s) \in Nat
  BY LenProperties
<1>1. ASSUME NEW c \in 0 .. Len(s)
      PROVE  IsFiniteSet(Early(s, c, e)) /\ Cardinality(Early(s, c, e)) \in Nat
  <2>1. IsFiniteSet(1 .. c)
    BY <1>0, FS_Interval
  <2>2. Early(s, c, e) \subseteq 1 .. c
    BY DEF Early
  <2>3. IsFiniteSet(Early(s, c, e))
    BY <2>1, <2>2, FS_Subset
  <2> QED BY <2>3, FS_CardinalityType
<1>2. ASSUME NEW c \in d .. Len(s)
      PROVE  Cardinality(Early(s, d, e)) <= Cardinality(Early(s, c, e))
  <2>1. c \in 0 .. Len(s) /\ 1 .. d \subseteq 1 .. c
    BY <1>0
  <2>2. Early(s, d, e) \subseteq Early(s, c, e)
    BY <2>1 DEF Early
  <2> QED BY <1>1, <2>1, <2>2, FS_Subset
<1>3. Early(s, Len(s), e) = Positions(s, e)
  BY DEF Early, Positions
<1> QED BY <1>1, <1>2, <1>3

\* What there is to know of the log in a state.
LogOK == log \in Seq(Events) /\ durable \in 0 .. Len(log)

LEMMA CountFacts ==
    ASSUME NEW s \in Seq(Events), NEW d \in 0 .. Len(s), NEW e
    PROVE  /\ Cardinality(Positions(s, e)) \in Nat
           /\ Cardinality(Early(s, d, e)) \in Nat
           /\ Cardinality(Early(s, d, e)) <= Cardinality(Positions(s, e))
           /\ d = Len(s) => Early(s, d, e) = Positions(s, e)
<1>1. Len(s) \in d .. Len(s)
  BY LenProperties
<1> QED BY <1>1, PositionsFinite, EarlyCounts

LEMMA LogFacts ==
    ASSUME LogOK
    PROVE  /\ Len(log) \in Nat /\ durable \in Nat
           /\ \A n : /\ Logged(n) \in Nat /\ Filed(n) \in Nat
                     /\ Filed(n) <= Logged(n)
                     /\ durable = Len(log) => Filed(n) = Logged(n)
<1>1. Len(log) \in Nat /\ durable \in Nat
  BY LenProperties DEF LogOK
<1> QED BY <1>1, CountFacts DEF LogOK, Logged, Filed

\* Nothing is said; the file may get more of what was.
Quiet == log' = log /\ durable' \in durable .. Len(log)

LEMMA Silent ==
    ASSUME LogOK, Quiet
    PROVE  /\ LogOK'
           /\ \A n : Logged(n)' = Logged(n) /\ Filed(n) <= Filed(n)'
           /\ durable' = Len(log) => \A n : Filed(n)' = Logged(n)
<1>1. LogOK'
  <2>1. Len(log) \in Nat
    BY LogFacts
  <2> QED BY <2>1 DEF LogOK, Quiet
<1>2. ASSUME NEW n
      PROVE  /\ Logged(n)' = Logged(n) /\ Filed(n) <= Filed(n)'
             /\ durable' = Len(log) => Filed(n)' = Logged(n)
  <2> DEFINE e == Called(n)
  <2>1. /\ \A c \in durable .. Len(log) :
             Cardinality(Early(log, durable, e)) <= Cardinality(Early(log, c, e))
        /\ Early(log, Len(log), e) = Positions(log, e)
    BY ONLY LogOK, EarlyCounts DEF LogOK
  <2> QED BY <2>1 DEF Logged, Filed, Quiet
<1> QED BY <1>1, <1>2

\* An event more, and never less in the file.
LEMMA Emitted ==
    ASSUME LogOK, NEW event \in Events, Emit(event)
    PROVE  /\ LogOK' /\ Len(log') = Len(log) + 1
           /\ \A k \in 1 .. Len(log) : log'[k] = log[k]
           /\ log'[Len(log) + 1] = event
           /\ durable' \in durable .. Len(log)
           /\ \A n : /\ Logged(n)' = Logged(n) +
                                       (IF event \in Called(n) THEN 1 ELSE 0)
                     /\ Filed(n) <= Filed(n)' /\ Filed(n)' <= Logged(n)
<1>0. Len(log) \in Nat /\ durable \in Nat /\ durable <= Len(log)
  BY LogFacts DEF LogOK
<1>1. log' = Append(log, event) /\ durable' \in durable .. Len(log)
  BY <1>0 DEF Emit
<1>2. /\ log' \in Seq(Events) /\ Len(log') = Len(log) + 1
      /\ \A k \in 1 .. Len(log) : log'[k] = log[k]
      /\ log'[Len(log) + 1] = event
  BY ONLY <1>1, LogOK, event \in Events, Appending DEF LogOK
<1>3. LogOK'
  BY <1>0, <1>1, <1>2 DEF LogOK
<1>4. ASSUME NEW n
      PROVE  /\ Logged(n)' = Logged(n) +
                               (IF event \in Called(n) THEN 1 ELSE 0)
             /\ Filed(n) <= Filed(n)' /\ Filed(n)' <= Logged(n)
  <2> DEFINE e == Called(n)
             d == durable'
  <2>1. /\ event \in e => Cardinality(Positions(Append(log, event), e)) =
                              Cardinality(Positions(log, e)) + 1
        /\ event \notin e => Cardinality(Positions(Append(log, event), e)) =
                                 Cardinality(Positions(log, e))
    BY ONLY LogOK, event \in Events, OneMore DEF LogOK
  <2>2. Logged(n) \in Nat
    BY LogFacts
  <2>3. Logged(n)' = Logged(n) + (IF event \in Called(n) THEN 1 ELSE 0)
    BY <1>1, <2>1, <2>2 DEF Logged
  <2>4. d \in 0 .. Len(log) /\ d \in durable .. Len(log)
    BY <1>0, <1>1
  <2>5. Early(log', d, e) = Early(log, d, e)
    <3>1. \A k \in 1 .. d : k \in 1 .. Len(log)
      BY <1>0, <2>4
    <3> HIDE DEF d
    <3> QED BY <1>2, <3>1 DEF Early
  <2>6. Cardinality(Early(log, durable, e)) <= Cardinality(Early(log, d, e))
    BY ONLY LogOK, <2>4, EarlyCounts DEF LogOK
  <2>7. /\ Cardinality(Early(log, d, e)) <= Cardinality(Positions(log, e))
    <3>1. Len(log) \in d .. Len(log)
      BY <1>0, <2>4
    <3> HIDE DEF d
    <3> QED BY ONLY LogOK, <2>4, <3>1, EarlyCounts DEF LogOK
  <2> QED BY <2>3, <2>5, <2>6, <2>7 DEF Logged, Filed
<1> QED BY <1>1, <1>2, <1>3, <1>4

\* What each operation says, if anything.
Speaking == Start \/ LogCommand \/ LogLatency \/ CopyRecentLogs \/ TakeSample
            \/ EmitDump \/ Stop

LEMMA Saying ==
    ASSUME LogOK, Places
    PROVE
    /\ Start => Emit(<<"probe_start">>)
    /\ RunCommand => \/ Emit(<<"command_error">>) /\ pc' = pc + 1 /\ at' = "begin"
                     \/ Quiet /\ pc' = pc /\ at' = "fill"
    /\ LogCommand => Emit(<<"command">>)
    /\ LogLatency => Emit(<<IF pc = OutLatency THEN "out_latency"
                            ELSE "user_latency", at>>)
    /\ CopyRecentLogs => Emit(<<"logs">>)
    /\ TakeSample => Emit(<<"sample">>)
    /\ EmitDump => Emit(<<"dump">>)
    /\ Stop => Emit(<<"probe_stop">>)
    /\ FlushSample \/ FinalFlush => Quiet /\ durable' = Len(log)
    /\ WriteOutput \/ WriteTemp \/ DeleteTemp \/ BeginSample \/ Sleep
           \/ EndSampling \/ SkipDump \/ ListProcesses => Quiet
    /\ OpenProcess \/ CreateDumpFile \/ WriteDump \/ CloseHandles \/ EndDump
           \/ CreateSummary \/ FillSummary \/ Fail \/ Kill \/ Change => Quiet
    /\ UNCHANGED vars => Quiet
<1>0. /\ durable \in durable .. Len(log) /\ Len(log) \in durable .. Len(log)
      /\ pc \in 1 .. Stopping
  <2>1. Len(log) \in Nat /\ durable \in Nat /\ durable <= Len(log)
    BY LogFacts DEF LogOK
  <2> QED BY <2>1 DEF Places
<1>1. LogLatency => Script[pc] = IF pc = OutLatency THEN "out_latency"
                                 ELSE "user_latency"
  BY <1>0, Steps DEF LogLatency, InLatency
<1>2. RunCommand => \/ Emit(<<"command_error">>) /\ pc' = pc + 1 /\ at' = "begin"
                    \/ Quiet /\ pc' = pc /\ at' = "fill"
  BY <1>0 DEF RunCommand, Advance, Goto, Quiet, logged
<1>3. /\ Start => Emit(<<"probe_start">>)
      /\ LogCommand => Emit(<<"command">>)
      /\ LogLatency => Emit(<<Script[pc], at>>)
      /\ CopyRecentLogs => Emit(<<"logs">>)
      /\ TakeSample => Emit(<<"sample">>)
      /\ EmitDump => Emit(<<"dump">>)
      /\ Stop => Emit(<<"probe_stop">>)
  BY DEF Start, LogCommand, LogLatency, CopyRecentLogs, TakeSample, EmitDump,
         Stop
<1>4. FlushSample \/ FinalFlush => Quiet /\ durable' = Len(log)
  BY <1>0 DEF FlushSample, FinalFlush, Flush, Quiet
<1>5. WriteOutput \/ WriteTemp \/ DeleteTemp \/ BeginSample \/ Sleep
          \/ EndSampling \/ SkipDump \/ ListProcesses => Quiet
  BY <1>0 DEF WriteOutput, WriteTemp, DeleteTemp, BeginSample, Sleep,
              EndSampling, SkipDump, ListProcesses, logged, Quiet
<1>6. OpenProcess \/ CreateDumpFile \/ WriteDump \/ CloseHandles \/ EndDump
          \/ CreateSummary \/ FillSummary \/ Fail \/ Kill \/ Change => Quiet
  BY <1>0 DEF OpenProcess, CreateDumpFile, WriteDump, CloseHandles, EndDump,
              CreateSummary, FillSummary, Fail, Kill, Change, logged, Quiet
<1>7. UNCHANGED vars => Quiet
  BY <1>0 DEF vars, Quiet
<1> QED BY <1>1, <1>2, <1>3, <1>4, <1>5, <1>6, <1>7

\* One event of one name.
LEMMA Said ==
    ASSUME LogOK, NEW name \in Plain, Emit(<<name>>)
    PROVE  /\ LogOK'
           /\ \A n : /\ Logged(n)' = Logged(n) + (IF n = name THEN 1 ELSE 0)
                     /\ Filed(n) <= Filed(n)' /\ Filed(n)' <= Logged(n)
<1> DEFINE event == <<name>>
<1>1. event \in Events /\ Emit(event)
      /\ \A n : event \in Called(n) <=> n = name
  BY EventFacts
<1> HIDE DEF event
<1>2. /\ LogOK'
      /\ \A n : /\ Logged(n)' = Logged(n) +
                                  (IF event \in Called(n) THEN 1 ELSE 0)
                /\ Filed(n) <= Filed(n)' /\ Filed(n)' <= Logged(n)
  BY <1>1, Emitted
<1> QED BY <1>1, <1>2

\* What a step adds to the events that count.
LEMMA Tally ==
    ASSUME LogOK, Places, [Next]_vars
    PROVE
    /\ LogOK'
    /\ \A n : Filed(n) <= Filed(n)'
    /\ Logged("command")' = Logged("command") +
         (IF pc \in 2 .. Commands + 1 /\ at = "report" /\ pc' # pc
            THEN 1 ELSE 0)
    /\ Logged("logs")' = Logged("logs") +
         (IF pc \in Copies /\ pc' # pc THEN 1 ELSE 0)
    /\ Logged("sample")' = Logged("sample") +
         (IF pc = Sampling /\ at = "windows" /\ at' # at THEN 1 ELSE 0)
    /\ Logged("dump")' = Logged("dump") +
         (IF pc = Dumping /\ at = "report" /\ at' # at THEN 1 ELSE 0)
<1>0. pc \in 1 .. Stopping /\ Commands \in Nat
  BY ProbeAssumption DEF Places
<1>1. \A n : Logged(n) \in Nat /\ Filed(n) \in Nat
  BY LogFacts
<1> USE DEF Stopping, Copies, OutLatency, UserLatency, Sampling, Dumping,
            Summing
<1>2. Quiet => LogOK' /\ (\A n : Logged(n)' = Logged(n) /\ Filed(n) <= Filed(n)')
  BY Silent
<1>3. /\ \A name \in Plain : Emit(<<name>>) =>
           /\ LogOK'
           /\ \A n : /\ Logged(n)' = Logged(n) + (IF n = name THEN 1 ELSE 0)
                     /\ Filed(n) <= Filed(n)'
  BY Said
<1>4. CASE Start \/ LogCommand \/ CopyRecentLogs \/ TakeSample \/ EmitDump
           \/ Stop
  <2>1. {"probe_start", "command", "logs", "sample", "dump", "probe_stop"}
            \subseteq Plain
    BY DEF Plain
  <2>2. CASE Start
    BY <1>0, <1>1, <1>3, <2>1, <2>2, Moves, Saying
  <2>3. CASE LogCommand
    BY <1>0, <1>1, <1>3, <2>1, <2>3, Moves, Saying
  <2>4. CASE CopyRecentLogs
    BY <1>0, <1>1, <1>3, <2>1, <2>4, Moves, Saying
  <2>5. CASE TakeSample
    BY <1>0, <1>1, <1>3, <2>1, <2>5, Moves, Saying
  <2>6. CASE EmitDump
    BY <1>0, <1>1, <1>3, <2>1, <2>6, Moves, Saying
  <2>7. CASE Stop
    BY <1>0, <1>1, <1>3, <2>1, <2>7, Moves, Saying
  <2> QED BY <1>4, <2>2, <2>3, <2>4, <2>5, <2>6, <2>7
<1>5. CASE RunCommand
  <2>1. "command_error" \in Plain
    BY DEF Plain
  <2> QED BY <1>0, <1>1, <1>2, <1>3, <1>5, <2>1, Moves, Saying
<1>6. CASE LogLatency
  <2> DEFINE step == IF pc = OutLatency THEN "out_latency" ELSE "user_latency"
             event == <<step, at>>
  <2>1. step \in Latencies /\ at \in {"clean", "unclean"}
    BY <1>6, Moves, <1>0 DEF Latencies
  <2>2. event \in Events /\ \A n : event \in Called(n) <=> n = step
    BY <2>1, EventFacts
  <2>3. Emit(event)
    BY <1>6, Saying
  <2>4. step \notin {"command", "logs", "sample", "dump"}
    OBVIOUS
  <2> HIDE DEF event, step
  <2>5. /\ LogOK'
        /\ \A n : /\ Logged(n)' = Logged(n) +
                                    (IF event \in Called(n) THEN 1 ELSE 0)
                  /\ Filed(n) <= Filed(n)'
    BY <2>2, <2>3, Emitted
  <2>6. /\ Logged("command")' = Logged("command")
        /\ Logged("logs")' = Logged("logs")
        /\ Logged("sample")' = Logged("sample")
        /\ Logged("dump")' = Logged("dump")
    BY <1>1, <2>2, <2>4, <2>5
  <2> QED BY <1>0, <1>1, <1>6, <2>5, <2>6, Moves
<1>7. CASE WriteOutput \/ WriteTemp \/ DeleteTemp \/ BeginSample \/ Sleep
           \/ FlushSample \/ EndSampling
  BY <1>0, <1>1, <1>2, <1>7, Moves, Saying
<1>8. CASE SkipDump \/ ListProcesses \/ OpenProcess \/ CreateDumpFile
           \/ WriteDump \/ CloseHandles \/ EndDump
  BY <1>0, <1>1, <1>2, <1>8, Moves, Saying
<1>9. CASE CreateSummary \/ FillSummary \/ FinalFlush \/ Fail \/ Kill \/ Change
  BY <1>0, <1>1, <1>2, <1>9, Moves, Saying
<1>10. CASE UNCHANGED vars
  <2>1. Quiet /\ pc' = pc /\ at' = at
    BY <1>10, Saying DEF vars
  <2> QED BY <1>1, <1>2, <2>1
<1> QED
  BY <1>4, <1>5, <1>6, <1>7, <1>8, <1>9, <1>10 DEF Next, Step

-----------------------------------------------------------------------------
(* The clock and the rounds.                                                *)

\* The waits for the windows of some processes are at most those for all.
LEMMA WaitIsBounded ==
    ASSUME NEW some \in SUBSET Pid
    PROVE  /\ Hang * (Windows * Cardinality(some)) \in Nat
           /\ Work + Hang * (Windows * Cardinality(some)) <= LongestRound
           /\ LongestRound \in Nat \ {0}
<1> DEFINE few == Cardinality(some)
           all == Cardinality(Pid)
           most == Windows * all
           shown == Windows * few
<1>1. /\ few \in Nat /\ all \in Nat /\ few <= all /\ Hang \in Nat
      /\ Windows \in Nat /\ Work \in Nat \ {0}
  BY ProbeAssumption, FS_Subset, FS_CardinalityType
<1> HIDE DEF few, all
<1>2. /\ shown \in Nat /\ most \in Nat /\ Windows * (all - few) \in Nat
      /\ Windows * (all - few) = most - shown
  BY <1>1
<1>3. shown <= most
  BY <1>2
<1> HIDE DEF shown, most
<1>4. /\ Hang * shown \in Nat /\ Hang * most \in Nat
      /\ Hang * (most - shown) \in Nat
      /\ Hang * (most - shown) = Hang * most - Hang * shown
  BY <1>1, <1>2, <1>3
<1>5. /\ Hang * shown \in Nat /\ Work + Hang * shown <= Work + Hang * most
      /\ Work + Hang * most \in Nat \ {0}
  BY <1>1, <1>4
<1> QED BY <1>5 DEF LongestRound, few, all, shown, most

LEMMA RoundsHold == Init => Rounds
BY ProbeAssumption DEF Init, Rounds, Sampling

ClockType ==
    /\ elapsed \in 0 .. Duration - 1 + LongestRound + Interval + Grace
    /\ index \in Nat /\ pids \subseteq Pid

\* A round begins before the duration is over and takes as long as the hung
\* windows and the sleep take; the next one finds the duration over.
LEMMA RoundsStay ==
    ASSUME Places, Rounds, ClockType, [Next]_vars
    PROVE  Rounds' /\ ClockType'
<1> DEFINE wait == LongestRound
           bound == Duration - 1 + wait + Interval + Grace
<1>0. /\ pc \in 1 .. Stopping /\ Commands \in Nat /\ Duration \in Nat
      /\ Interval \in Nat /\ Grace \in Nat /\ Hang \in Nat
  BY ProbeAssumption DEF Places
<1>1. wait \in Nat \ {0}
  BY WaitIsBounded
<1>2. /\ elapsed \in 0 .. bound /\ index \in Nat /\ pids \subseteq Pid
      /\ pc < Sampling => index = 0
      /\ (pc = Sampling /\ at = "windows") => elapsed < Duration
      /\ (pc = Sampling /\ at \in {"flush", "sleep"}) =>
             elapsed <= Duration - 1 + wait
  BY DEF Rounds, ClockType
<1> SUFFICES /\ elapsed' \in 0 .. bound /\ index' \in Nat /\ pids' \subseteq Pid
             /\ pc' < Sampling => index' = 0
             /\ (pc' = Sampling /\ at' = "windows") => elapsed' < Duration
             /\ (pc' = Sampling /\ at' \in {"flush", "sleep"}) =>
                    elapsed' <= Duration - 1 + wait
  BY DEF Rounds, ClockType, Sampling
<1> USE DEF Stopping, Copies, OutLatency, UserLatency, Sampling, Dumping,
            Summing
<1> HIDE DEF wait
<1>3. CASE BeginSample
  BY <1>0, <1>1, <1>2, <1>3, Moves DEF BeginSample
<1>4. CASE TakeSample
  <2> DEFINE some == {p \in pids : kind[p] # "none"}
             more == Hang * (Windows * Cardinality(some))
             next == elapsed'
  <2>1. next \in elapsed + 1 .. elapsed + Work + more
    BY <1>4 DEF TakeSample
  <2>2. some \in SUBSET Pid
    BY <1>2
  <2> HIDE DEF some
  <2>3. more \in Nat /\ Work + more <= wait /\ Work \in Nat
    BY <2>2, WaitIsBounded, ProbeAssumption DEF wait
  <2> HIDE DEF more, next
  <2>4. next \in 0 .. bound /\ next <= Duration - 1 + wait
    <3>1. elapsed < Duration
      BY <1>0, <1>2, <1>4, Moves
    <3> QED BY <1>0, <1>1, <1>2, <2>1, <2>3, <3>1
  <2>5. elapsed' = next
    BY DEF next
  <2> QED BY <1>0, <1>1, <1>2, <1>4, <2>4, <2>5, Moves DEF TakeSample
<1>5. CASE Sleep
  <2> DEFINE next == elapsed'
  <2>1. next \in elapsed + Interval .. elapsed + Interval + Grace
    BY <1>5 DEF Sleep
  <2>2. elapsed <= Duration - 1 + wait
    BY <1>0, <1>2, <1>5, Moves
  <2> HIDE DEF next
  <2>3. next \in 0 .. bound
    BY <1>0, <1>1, <1>2, <2>1, <2>2
  <2>4. elapsed' \in 0 .. bound
    BY <2>3 DEF next
  <2> QED BY <1>0, <1>2, <1>5, <2>4, Moves DEF Sleep
<1>6. CASE EndSampling
  <2>1. 0 \in 0 .. bound
    BY <1>0, <1>1
  <2> QED BY <1>0, <1>2, <1>6, <2>1, Moves DEF EndSampling
<1>7. CASE FlushSample
  BY <1>0, <1>2, <1>7, Moves DEF FlushSample, sampling
<1>8. CASE Start \/ RunCommand \/ WriteOutput \/ LogCommand \/ WriteTemp
           \/ DeleteTemp \/ LogLatency
  <2>1. elapsed' = elapsed /\ index' = index /\ pids' = pids
    BY <1>8 DEF Start, RunCommand, WriteOutput, LogCommand, WriteTemp,
                DeleteTemp, LogLatency, sampling
  <2>2. pc < Sampling /\ (pc' = Sampling => at' = "begin")
    BY <1>0, <1>8, Moves DEF Places, RunCommand, Goto, Advance
  <2> QED BY <1>2, <2>1, <2>2
<1>9. CASE CopyRecentLogs
  BY <1>0, <1>2, <1>9, Moves DEF CopyRecentLogs, sampling
<1>10. CASE SkipDump \/ ListProcesses \/ OpenProcess \/ CreateDumpFile
            \/ WriteDump \/ CloseHandles \/ EmitDump \/ EndDump
  <2>1. elapsed' = elapsed /\ index' = index /\ pids' = pids
    BY <1>10 DEF SkipDump, ListProcesses, OpenProcess, CreateDumpFile,
                 WriteDump, CloseHandles, EmitDump, EndDump, sampling
  <2> QED BY <1>0, <1>2, <1>10, <2>1, Moves
<1>11. CASE CreateSummary \/ FillSummary \/ Stop \/ FinalFlush
  <2>1. elapsed' = elapsed /\ index' = index /\ pids' = pids
    BY <1>11 DEF CreateSummary, FillSummary, Stop, FinalFlush, sampling
  <2> QED BY <1>0, <1>2, <1>11, <2>1, Moves
<1>12. CASE Fail \/ Kill \/ Change \/ UNCHANGED vars
  <2>1. /\ elapsed' = elapsed /\ index' = index /\ pids' = pids
        /\ pc' = pc /\ at' = at
    BY <1>12 DEF Fail, Kill, Change, vars, sampling
  <2> QED BY <1>2, <2>1
<1> QED
  BY <1>3, <1>4, <1>5, <1>6, <1>7, <1>8, <1>9, <1>10, <1>11, <1>12
     DEF Next, Step

-----------------------------------------------------------------------------
(* What is logged of it.                                                    *)

LEMMA NothingLogged ==
    ASSUME Init
    PROVE  LogOK /\ \A n : Logged(n) = 0 /\ Filed(n) = 0
<1>1. log = << >> /\ durable = 0
  BY DEF Init
<1>2. Len(log) = 0 /\ LogOK
  BY <1>1 DEF LogOK
<1>3. ASSUME NEW n
      PROVE  Logged(n) = 0 /\ Filed(n) = 0
  <2>1. Positions(log, Called(n)) = {} /\ Early(log, durable, Called(n)) = {}
    BY <1>1, <1>2 DEF Positions, Early
  <2> QED BY <2>1, FS_EmptySet DEF Logged, Filed
<1> QED BY <1>2, <1>3

LEMMA LoggedHolds ==
    Init => CommandsLogged /\ CopiesLogged /\ DumpsLogged /\ SamplesLogged
<1> SUFFICES ASSUME Init
             PROVE  CommandsLogged /\ CopiesLogged /\ DumpsLogged /\ SamplesLogged
  OBVIOUS
<1>1. \A n : Logged(n) = 0 /\ Filed(n) = 0
  BY NothingLogged
<1> QED
  BY <1>1, ProbeAssumption
     DEF Init, CommandsLogged, CopiesLogged, DumpsLogged, SamplesLogged, Sampling

\* A command gives one output and one event after it, or an error.
LEMMA CommandsStay ==
    ASSUME LogOK, Places, CommandsLogged, [Next]_vars
    PROVE  CommandsLogged'
<1>0. /\ pc \in 1 .. Stopping /\ Commands \in Nat /\ Logged("command") \in Nat
      /\ outputs \in Nat
  BY ProbeAssumption, LogFacts DEF Places, CommandsLogged
<1> DEFINE n == Logged("command")
           nn == Logged("command")'
<1>1. nn = n + (IF pc \in 2 .. Commands + 1 /\ at = "report" /\ pc' # pc
                  THEN 1 ELSE 0)
  BY Tally
<1>2. /\ outputs = n + (IF pc <= Commands + 1 /\ at = "report" THEN 1 ELSE 0)
      /\ pc = 1 => outputs = 0
      /\ pc \in 2 .. Commands + 1 =>
             outputs <= IF at = "report" THEN pc - 1 ELSE pc - 2
      /\ n \in Nat
  BY <1>0 DEF CommandsLogged
<1> SUFFICES /\ outputs' = nn + (IF pc' <= Commands + 1 /\ at' = "report"
                                   THEN 1 ELSE 0)
             /\ pc' = 1 => outputs' = 0
             /\ pc' \in 2 .. Commands + 1 =>
                    outputs' <= IF at' = "report" THEN pc' - 1 ELSE pc' - 2
  BY DEF CommandsLogged
<1> HIDE DEF n, nn
<1> USE DEF Stopping, Copies, OutLatency, UserLatency, Sampling, Dumping,
            Summing
<1>3. CASE Start
  BY <1>0, <1>1, <1>2, <1>3, Moves DEF Start, before, Places
<1>4. CASE RunCommand
  BY <1>0, <1>1, <1>2, <1>4, Moves DEF RunCommand, Advance, Goto, before
<1>5. CASE WriteOutput
  BY <1>0, <1>1, <1>2, <1>5, Moves DEF WriteOutput
<1>6. CASE LogCommand
  BY <1>0, <1>1, <1>2, <1>6, Moves DEF LogCommand, before
<1>7. CASE WriteTemp \/ DeleteTemp \/ LogLatency \/ CopyRecentLogs
  <2>1. outputs' = outputs
    BY <1>7 DEF WriteTemp, DeleteTemp, LogLatency, CopyRecentLogs, before
  <2>2. pc > Commands + 1 /\ (pc' = pc \/ pc' = pc + 1)
    BY <1>0, <1>7, Moves
  <2> QED BY <1>0, <1>1, <1>2, <2>1, <2>2
<1>8. CASE BeginSample \/ TakeSample \/ FlushSample \/ Sleep \/ EndSampling
  <2>1. outputs' = outputs
    BY <1>8 DEF BeginSample, TakeSample, FlushSample, Sleep, EndSampling, before
  <2>2. pc > Commands + 1 /\ (pc' = pc \/ pc' = pc + 1)
    BY <1>0, <1>8, Moves
  <2> QED BY <1>0, <1>1, <1>2, <2>1, <2>2
<1>9. CASE SkipDump \/ ListProcesses \/ OpenProcess \/ CreateDumpFile
            \/ WriteDump \/ CloseHandles \/ EmitDump \/ EndDump
  <2>1. outputs' = outputs
    BY <1>9 DEF SkipDump, ListProcesses, OpenProcess, CreateDumpFile,
                 WriteDump, CloseHandles, EmitDump, EndDump, before
  <2>2. pc > Commands + 1 /\ (pc' = pc \/ pc' = pc + 1)
    BY <1>0, <1>9, Moves
  <2> QED BY <1>0, <1>1, <1>2, <2>1, <2>2
<1>10. CASE CreateSummary \/ FillSummary \/ Stop \/ FinalFlush
  <2>1. outputs' = outputs
    BY <1>10 DEF CreateSummary, FillSummary, Stop, FinalFlush, before
  <2>2. pc > Commands + 1 /\ (pc' = pc \/ pc' = pc + 1)
    BY <1>0, <1>10, Moves
  <2> QED BY <1>0, <1>1, <1>2, <2>1, <2>2
<1>11. CASE Fail \/ Kill \/ Change \/ UNCHANGED vars
  <2>1. outputs' = outputs /\ pc' = pc /\ at' = at
    BY <1>11 DEF Fail, Kill, Change, vars, before
  <2> QED BY <1>1, <1>2, <2>1
<1> QED
  BY <1>3, <1>4, <1>5, <1>6, <1>7, <1>8, <1>9, <1>10, <1>11 DEF Next, Step

\* A step goes on from where it is.
LEMMA OneStep ==
    ASSUME Places, [Next]_vars
    PROVE  pc' = pc \/ pc' = pc + 1
<1>0. pc \in 1 .. Stopping
  BY DEF Places
<1>1. CASE RunCommand
  BY <1>0, <1>1 DEF RunCommand, Advance, Goto
<1>2. CASE UNCHANGED vars
  BY <1>2 DEF vars
<1> QED BY <1>0, <1>1, <1>2, Moves DEF Next, Step

\* Each copy is an event.
LEMMA CopiesStay ==
    ASSUME LogOK, Places, CopiesLogged, [Next]_vars
    PROVE  CopiesLogged'
<1> DEFINE n == Logged("logs")
           nn == Logged("logs")'
<1>0. pc \in 1 .. Stopping /\ Commands \in Nat /\ n \in Nat
  BY ProbeAssumption, LogFacts DEF Places
<1>1. nn = n + (IF pc \in Copies /\ pc' # pc THEN 1 ELSE 0)
  BY Tally
<1>2. pc' = pc \/ pc' = pc + 1
  BY OneStep
<1>3. n = IF pc <= Commands + 4 THEN 0 ELSE IF pc = Commands + 5 THEN 1
          ELSE IF pc <= Commands + 8 THEN 2
          ELSE IF pc = Commands + 9 THEN 3 ELSE 4
  BY DEF CopiesLogged
<1> SUFFICES nn = IF pc' <= Commands + 4 THEN 0
                  ELSE IF pc' = Commands + 5 THEN 1
                  ELSE IF pc' <= Commands + 8 THEN 2
                  ELSE IF pc' = Commands + 9 THEN 3 ELSE 4
  BY DEF CopiesLogged
<1> HIDE DEF n, nn
<1> USE DEF Stopping, Copies
<1>4. CASE pc' = pc
  BY <1>0, <1>1, <1>3, <1>4
<1>5. CASE pc' = pc + 1
  BY <1>0, <1>1, <1>3, <1>5
<1> QED BY <1>2, <1>4, <1>5

\* Nothing but the sampling touches the number of samples.
LEMMA SameIndex ==
    ASSUME Places, [Next]_vars
    PROVE  BeginSample \/ index' = index
BY DEF Next, Step, vars, Start, RunCommand, WriteOutput, LogCommand, WriteTemp,
       DeleteTemp, LogLatency, CopyRecentLogs, TakeSample, FlushSample, Sleep,
       EndSampling, SkipDump, ListProcesses, OpenProcess, CreateDumpFile,
       WriteDump, CloseHandles, EmitDump, EndDump, CreateSummary, FillSummary,
       Stop, FinalFlush, Fail, Kill, Change, sampling

\* The sampling changes places as it should.
LEMMA SamplePlaces ==
    ASSUME Places, [Next]_vars
    PROVE  /\ (pc = Sampling /\ at = "windows") =>
                  (pc' = Sampling /\ at' \in {"windows", "flush"})
           /\ (pc' = Sampling /\ at' = "windows") =>
                  BeginSample \/ (pc = Sampling /\ at = "windows")
           /\ (pc = Sampling /\ at = "flush") =>
                  \/ pc' = Sampling /\ at' = "flush"
                  \/ FlushSample
<1>0. pc \in 1 .. Stopping /\ Commands \in Nat
  BY ProbeAssumption DEF Places
<1> USE DEF Stopping, Copies, OutLatency, UserLatency, Sampling, Dumping,
            Summing
<1>1. CASE Start \/ LogCommand \/ LogLatency \/ CopyRecentLogs
  BY <1>0, <1>1, Moves DEF Places
<1>2. CASE RunCommand
  BY <1>0, <1>2, Moves DEF Places, RunCommand, Advance, Goto
<1>3. CASE WriteOutput \/ WriteTemp \/ DeleteTemp
  BY <1>0, <1>3, Moves DEF Places
<1>4. CASE BeginSample \/ TakeSample \/ FlushSample \/ Sleep \/ EndSampling
  BY <1>0, <1>4, Moves DEF Places
<1>5. CASE SkipDump \/ ListProcesses \/ OpenProcess \/ CreateDumpFile
  BY <1>0, <1>5, Moves DEF Places
<1>6. CASE WriteDump \/ CloseHandles \/ EmitDump \/ EndDump
  BY <1>0, <1>6, Moves DEF Places
<1>7. CASE CreateSummary \/ FillSummary \/ Stop \/ FinalFlush
  BY <1>0, <1>7, Moves DEF Places
<1>8. CASE Fail \/ Kill \/ Change
  BY <1>0, <1>8, Moves DEF Places
<1>9. CASE UNCHANGED vars
  BY <1>9 DEF vars, Places
<1> QED
  BY <1>1, <1>2, <1>3, <1>4, <1>5, <1>6, <1>7, <1>8, <1>9 DEF Next, Step

\* A sample is an event, and in the file before the next one.
LEMMA SamplesStay ==
    ASSUME LogOK, Places, SamplesLogged, index \in Nat, [Next]_vars
    PROVE  SamplesLogged'
<1> DEFINE n == Logged("sample")
           nn == Logged("sample")'
           f == Filed("sample")
           ff == Filed("sample")'
           InWindows == pc = Sampling /\ at = "windows"
           InFlush == pc = Sampling /\ at = "flush"
           ToWindows == pc' = Sampling /\ at' = "windows"
           ToFlush == pc' = Sampling /\ at' = "flush"
<1>0. /\ pc \in 1 .. Stopping /\ n \in Nat /\ f \in Nat /\ f <= n
      /\ nn \in Nat /\ ff \in Nat /\ ff <= nn
  <2>1. LogOK'
    BY Tally
  <2>2. nn \in Nat /\ ff \in Nat /\ ff <= nn
    <3>1. log' \in Seq(Events) /\ durable' \in 0 .. Len(log')
      BY <2>1 DEF LogOK
    <3>2. /\ Cardinality(Positions(log', Called("sample"))) \in Nat
          /\ Cardinality(Early(log', durable', Called("sample"))) \in Nat
          /\ Cardinality(Early(log', durable', Called("sample"))) <=
                 Cardinality(Positions(log', Called("sample")))
      BY ONLY <3>1, CountFacts
    <3> QED BY <3>2 DEF Logged, Filed
  <2> QED BY <2>2, LogFacts DEF Places
<1>1. /\ nn = n + (IF InWindows /\ at' # at THEN 1 ELSE 0)
      /\ f <= ff
  BY Tally
<1>2. /\ index = n + (IF InWindows THEN 1 ELSE 0)
      /\ f >= index - 1
      /\ ~InWindows /\ ~InFlush => f = index
  BY DEF SamplesLogged
<1> SUFFICES /\ index' = nn + (IF ToWindows THEN 1 ELSE 0)
             /\ ff >= index' - 1
             /\ ~ToWindows /\ ~ToFlush => ff = index'
  BY DEF SamplesLogged, Sampling
<1>3. /\ InWindows => (pc' = Sampling /\ at' \in {"windows", "flush"})
      /\ ToWindows => BeginSample \/ InWindows
      /\ InFlush => ToFlush \/ FlushSample
      /\ BeginSample \/ index' = index
  BY SamplePlaces, SameIndex
<1>4. CASE BeginSample
  <2>1. index' = index + 1 /\ ToWindows /\ ~InWindows /\ ~InFlush
    BY <1>0, <1>4, Moves DEF BeginSample
  <2> HIDE DEF n, nn, f, ff, InWindows, InFlush, ToWindows, ToFlush
  <2>2. nn = n /\ index = n /\ f = index
    BY <1>0, <1>1, <1>2, <2>1
  <2> QED BY <1>0, <1>1, <2>1, <2>2
<1>5. CASE FlushSample
  <2>1. ff = n
    BY <1>5, Saying, Silent
  <2>2. InFlush /\ ~InWindows /\ ~ToWindows /\ index' = index
    BY <1>0, <1>5, Moves DEF FlushSample, sampling
  <2> HIDE DEF n, nn, f, ff, InWindows, InFlush, ToWindows, ToFlush
  <2> QED BY <1>0, <1>1, <1>2, <2>1, <2>2
<1>6. CASE ~BeginSample /\ ~FlushSample
  <2>1. index' = index
    BY <1>3, <1>6
  <2>2. CASE InWindows
    <3>1. ToWindows \/ ToFlush
      BY <1>3, <2>2
    <3>2. at' # at <=> ~ToWindows
      BY <1>3, <2>2
    <3> HIDE DEF n, nn, f, ff, InWindows, InFlush, ToWindows, ToFlush
    <3> QED BY <1>0, <1>1, <1>2, <2>1, <2>2, <3>1, <3>2
  <2>3. CASE InFlush
    <3>1. ToFlush /\ ~ToWindows /\ ~InWindows
      BY <1>3, <1>6, <2>3
    <3> HIDE DEF n, nn, f, ff, InWindows, InFlush, ToWindows, ToFlush
    <3> QED BY <1>0, <1>1, <1>2, <2>1, <2>3, <3>1
  <2>4. CASE ~InWindows /\ ~InFlush
    <3>1. ~ToWindows
      BY <1>3, <1>6, <2>4
    <3> HIDE DEF n, nn, f, ff, InWindows, InFlush, ToWindows, ToFlush
    <3> QED BY <1>0, <1>1, <1>2, <2>1, <2>4, <3>1
  <2> QED BY <2>2, <2>3, <2>4
<1> QED BY <1>4, <1>5, <1>6

-----------------------------------------------------------------------------
(* The end.                                                                 *)

LEMMA StopHolds == Init => StopIsLast
BY ProbeAssumption DEF Init, StopIsLast, Stopping

\* An event that is not probe_stop, before the end.
LEMMA NoStopAdded ==
    ASSUME LogOK, NEW event \in Events, Emit(event),
           event # <<"probe_stop">>,
           \A k \in 1 .. Len(log) : log[k] # <<"probe_stop">>
    PROVE  \A k \in 1 .. Len(log') : log'[k] # <<"probe_stop">>
<1>1. /\ Len(log') = Len(log) + 1 /\ Len(log) \in Nat
      /\ \A k \in 1 .. Len(log) : log'[k] = log[k]
      /\ log'[Len(log) + 1] = event
  BY Emitted, LogFacts
<1> DEFINE n == Len(log)
<1>2. /\ Len(log') = n + 1 /\ n \in Nat
      /\ \A k \in 1 .. n : log'[k] # <<"probe_stop">>
      /\ log'[n + 1] # <<"probe_stop">>
  BY <1>1
<1> HIDE DEF n
<1> QED BY ONLY <1>2

\* Only the last flush succeeds, and only the summary's steps write it.
LEMMA EndFacts ==
    ASSUME Places, [Next]_vars
    PROVE  /\ stage' = "done" => stage = "done" \/ FinalFlush
           /\ summary' = summary \/ CreateSummary \/ FillSummary
<1>1. stage' = "done" => stage = "done" \/ FinalFlush
  BY DEF Next, Step, Fail, Kill, Change, vars
<1>2. summary' = summary \/ CreateSummary \/ FillSummary
  BY DEF Next, Step, vars, Start, RunCommand, WriteOutput, LogCommand,
         WriteTemp, DeleteTemp, LogLatency, CopyRecentLogs, BeginSample,
         TakeSample, FlushSample, Sleep, EndSampling, SkipDump, ListProcesses,
         OpenProcess, CreateDumpFile, WriteDump, CloseHandles, EmitDump,
         EndDump, Stop, FinalFlush, Fail, Kill, Change
<1> QED BY <1>1, <1>2

\* The places at the end, and what is said on the way there.
LEMMA EndPlaces ==
    ASSUME LogOK, Places, [Next]_vars
    PROVE  /\ pc' = Stopping => pc = Stopping \/ FillSummary
           /\ (pc' = Stopping /\ at' = "flush") =>
                  Stop \/ (pc = Stopping /\ at = "flush")
           /\ (pc = Stopping /\ at = "flush") =>
                  Quiet /\ pc' = pc /\ at' = at
           /\ \/ Stop \/ Quiet
              \/ \E event \in Events \ {<<"probe_stop">>} : Emit(event)
<1>0. pc \in 1 .. Stopping /\ Commands \in Nat
  BY ProbeAssumption DEF Places
<1>a. \A n \in Plain : <<n>> \in Events
  BY EventFacts
<1> USE DEF Stopping, Copies, OutLatency, UserLatency, Sampling, Dumping,
            Summing
<1>1. CASE Start \/ LogCommand \/ CopyRecentLogs \/ TakeSample \/ EmitDump
  <2>1. \E name \in Plain \ {"probe_stop"} : Emit(<<name>>)
    BY <1>1, Saying DEF Plain
  <2>2. \E event \in Events \ {<<"probe_stop">>} : Emit(event)
    <3>1. PICK name \in Plain \ {"probe_stop"} : Emit(<<name>>)
      BY <2>1
    <3>2. <<name>> \in Events /\ <<name>> # <<"probe_stop">>
      BY <1>a
    <3> QED BY <3>1, <3>2
  <2> QED BY <1>0, <1>1, <2>2, Moves DEF Places
<1>2. CASE RunCommand
  <2>1. \/ Emit(<<"command_error">>) /\ pc' = pc + 1 /\ at' = "begin"
        \/ Quiet /\ pc' = pc /\ at' = "fill"
    BY <1>2, Saying
  <2>2. <<"command_error">> \in Events \ {<<"probe_stop">>}
    BY <1>a DEF Plain
  <2>3. Quiet \/ \E event \in Events \ {<<"probe_stop">>} : Emit(event)
    BY <2>1, <2>2
  <2> QED BY <1>0, <1>2, <2>1, <2>3, Moves DEF Places
<1>3. CASE LogLatency
  <2>1. \E step \in Latencies, a \in {"clean", "unclean"} : Emit(<<step, a>>)
    BY <1>0, <1>3, Saying, Moves DEF Latencies
  <2>2. PICK step \in Latencies, a \in {"clean", "unclean"} : Emit(<<step, a>>)
    BY <2>1
  <2>3. <<step, a>> \in Events \ {<<"probe_stop">>}
    <3>1. <<step, a>> \in Events
      BY EventFacts
    <3>2. <<step, a>>[1] # <<"probe_stop">>[1]
      BY DEF Latencies
    <3> QED BY <3>1, <3>2
  <2> QED BY <1>0, <1>3, <2>2, <2>3, Moves DEF Places
<1>4. CASE WriteOutput \/ WriteTemp \/ DeleteTemp \/ BeginSample \/ Sleep
           \/ FlushSample \/ EndSampling
  BY <1>0, <1>4, Moves, Saying
<1>5. CASE SkipDump \/ ListProcesses \/ OpenProcess \/ CreateDumpFile
           \/ WriteDump \/ CloseHandles \/ EndDump
  BY <1>0, <1>5, Moves, Saying
<1>6. CASE CreateSummary \/ FillSummary \/ FinalFlush \/ Fail \/ Kill \/ Change
  BY <1>0, <1>6, Moves, Saying
<1>7. CASE Stop
  BY <1>0, <1>7, Moves
<1>8. CASE UNCHANGED vars
  BY <1>8, Saying DEF vars
<1> QED
  BY <1>1, <1>2, <1>3, <1>4, <1>5, <1>6, <1>7, <1>8 DEF Next, Step

\* probe_stop is said once, after everything else.
LEMMA StopStays ==
    ASSUME LogOK, Places, StopIsLast, [Next]_vars
    PROVE  StopIsLast'
<1> DEFINE Ended == pc = Stopping /\ at = "flush"
<1>0. /\ pc \in 1 .. Stopping /\ Commands \in Nat /\ Len(log) \in Nat
      /\ durable \in 0 .. Len(log)
  BY ProbeAssumption, LogFacts DEF Places, Stopping, LogOK
<1>1. /\ pc' = Stopping => pc = Stopping \/ FillSummary
      /\ (pc' = Stopping /\ at' = "flush") => Stop \/ Ended
      /\ Ended => Quiet /\ pc' = pc /\ at' = at
      /\ stage' = "done" => stage = "done" \/ FinalFlush
  BY EndPlaces, EndFacts
<1>2. pc' = Stopping => summary' = "whole"
  <2>1. CASE FillSummary
    BY <2>1 DEF FillSummary
  <2>2. CASE pc = Stopping
    <3>1. ~CreateSummary /\ ~FillSummary
      BY <1>0, <2>2, Moves DEF Summing, Stopping
    <3> QED BY <2>2, <3>1, EndFacts DEF StopIsLast
  <2> QED BY <1>1, <2>1, <2>2
<1>3. FinalFlush => Ended /\ durable' = Len(log)
  BY <1>0, Moves, Saying
<1>4. CASE Ended
  <2>1. log' = log /\ durable' \in durable .. Len(log) /\ pc' = pc /\ at' = at
    BY <1>1, <1>4 DEF Quiet
  <2>2. stage' = "done" => durable' = Len(log)
    <3>1. CASE FinalFlush
      BY <1>3, <3>1
    <3>2. CASE stage = "done"
      <4>1. durable = Len(log)
        BY <3>2 DEF StopIsLast
      <4> QED BY <1>0, <2>1, <4>1
    <3> QED BY <1>1, <3>1, <3>2
  <2> QED BY <1>2, <1>4, <2>1, <2>2 DEF StopIsLast, Stopping
<1>5. CASE Stop
  <2>1. pc = Stopping /\ at = "begin" /\ pc' = pc /\ at' = "flush"
    BY <1>0, <1>5, Moves
  <2>2. /\ Len(log') = Len(log) + 1
        /\ \A k \in 1 .. Len(log) : log'[k] = log[k]
        /\ log'[Len(log) + 1] = <<"probe_stop">>
        /\ log' # << >>
    <3>1. <<"probe_stop">> \in Events
      BY EventFacts DEF Plain
    <3>2. Emit(<<"probe_stop">>)
      BY <1>5, Saying
    <3>3. log' = Append(log, <<"probe_stop">>)
      BY <3>2 DEF Emit
    <3>4. /\ Len(log') = Len(log) + 1
          /\ \A k \in 1 .. Len(log) : log'[k] = log[k]
          /\ log'[Len(log) + 1] = <<"probe_stop">>
      BY <3>1, <3>2, Emitted
    <3>5. log' # << >>
      BY ONLY <3>1, <3>3, LogOK, AppendProperties DEF LogOK
    <3> QED BY <3>4, <3>5
  <2>3. \A k \in 1 .. Len(log) : log[k] # <<"probe_stop">>
    BY <2>1 DEF StopIsLast
  <2>4. stage' # "done"
    BY <1>1, <1>3, <2>1 DEF StopIsLast
  <2> HIDE DEF Ended
  <2>5. \A k \in 1 .. Len(log') :
          log'[k] = <<"probe_stop">> => k = Len(log')
    BY <1>0, <2>2, <2>3
  <2> QED BY <1>0, <1>2, <2>1, <2>2, <2>4, <2>5 DEF StopIsLast, Stopping
<1>6. CASE ~Ended /\ ~Stop
  <2>1. \A k \in 1 .. Len(log) : log[k] # <<"probe_stop">>
    BY <1>6 DEF StopIsLast
  <2>2. \A k \in 1 .. Len(log') : log'[k] # <<"probe_stop">>
    <3>1. CASE Quiet
      BY <2>1, <3>1 DEF Quiet
    <3>2. CASE \E event \in Events \ {<<"probe_stop">>} : Emit(event)
      BY <2>1, <3>2, NoStopAdded
    <3> QED BY <1>6, <3>1, <3>2, EndPlaces
  <2>3. ~(pc' = Stopping /\ at' = "flush") /\ stage' # "done"
    BY <1>1, <1>3, <1>6 DEF StopIsLast
  <2> QED BY <1>2, <2>2, <2>3 DEF StopIsLast, Stopping
<1> QED BY <1>4, <1>5, <1>6

-----------------------------------------------------------------------------
(* Timing files and handles.                                                *)

LEMMA TempsHold == Init => TempsReported
BY DEF Init, TempsReported

\* What is reported stays so.
LEMMA ReportedStays ==
    ASSUME LogOK, Places, [Next]_vars
    PROVE  \A step : Reported(step) => Reported(step)'
<1>0. Len(log) \in Nat
  BY LogFacts
<1>1. CASE Quiet
  BY <1>1 DEF Quiet, Reported
<1>2. ASSUME NEW event \in Events, Emit(event)
      PROVE  \A step : Reported(step) => Reported(step)'
  <2>1. Len(log') = Len(log) + 1 /\ \A k \in 1 .. Len(log) : log'[k] = log[k]
    BY <1>2, Emitted
  <2>2. \A k \in 1 .. Len(log) : k \in 1 .. Len(log')
    BY <1>0, <2>1
  <2> QED BY <2>1, <2>2 DEF Reported
<1>3. CASE Stop
  <2>1. <<"probe_stop">> \in Events /\ Emit(<<"probe_stop">>)
    BY <1>3, EventFacts, Saying DEF Plain
  <2> QED BY <1>2, <2>1
<1> QED BY <1>1, <1>2, <1>3, EndPlaces

\* A timing file that could not be removed is reported before the next step.
LEMMA TempsStay ==
    ASSUME LogOK, Places, TempsReported, temps \subseteq Latencies, [Next]_vars
    PROVE  TempsReported' /\ temps' \subseteq Latencies
<1> DEFINE Place(step) == IF step = "out_latency" THEN OutLatency ELSE UserLatency
           Pending(step) == pc = Place(step) /\ at \in {"written", "unclean"}
           PendingThen(step) == pc' = Place(step) /\ at' \in {"written", "unclean"}
<1>0. pc \in 1 .. Stopping /\ Commands \in Nat
  BY ProbeAssumption DEF Places
<1>1. \A step \in temps : Reported(step)' \/ Pending(step)
  BY ReportedStays DEF TempsReported
<1> SUFFICES /\ \A step \in temps' : Reported(step)' \/ PendingThen(step)
             /\ temps' \subseteq Latencies
  BY DEF TempsReported, OutLatency, UserLatency
<1> DEFINE here == IF pc = OutLatency THEN "out_latency" ELSE "user_latency"
<1>2. CASE WriteTemp \/ DeleteTemp \/ LogLatency
  <2>1. /\ pc \in {OutLatency, UserLatency} /\ Script[pc] = here
        /\ here \in Latencies
        /\ \A step \in Latencies : pc = Place(step) <=> step = here
    BY <1>0, <1>2, Moves, Steps DEF Latencies, OutLatency, UserLatency
  <2> HIDE DEF here, Place
  <2>2. CASE WriteTemp
    <3>1. at = "begin" /\ pc' = pc
      BY <1>0, <2>2, Moves
    <3>2. \A step \in temps : Reported(step)'
      BY <1>1, <3>1
    <3>3. \/ temps' = temps
          \/ temps' = temps \cup {here} /\ at' \in {"written", "unclean"}
      BY <2>1, <2>2 DEF WriteTemp, Goto
    <3> QED BY <2>1, <3>1, <3>2, <3>3
  <2>3. CASE DeleteTemp
    <3>1. at = "written" /\ pc' = pc
      BY <1>0, <2>3, Moves
    <3>2. \A step \in temps : Reported(step)' \/ step = here
      BY <1>1, <2>1
    <3>3. \/ temps' = temps \ {here}
          \/ temps' = temps /\ at' = "unclean"
      BY <2>1, <2>3 DEF DeleteTemp, Goto
    <3> QED BY <2>1, <3>1, <3>2, <3>3
  <2>4. CASE LogLatency
    <3>1. temps' = temps /\ at \in {"clean", "unclean"}
      BY <2>4 DEF LogLatency, before
    <3>2. ASSUME NEW step \in Latencies, step = here, at = "unclean"
          PROVE  Reported(step)'
      <4>1. <<step, "unclean">> \in Events
        BY EventFacts
      <4>2. Emit(<<step, "unclean">>)
        BY <2>4, <3>2, Saying DEF here
      <4>3. /\ Len(log') = Len(log) + 1 /\ Len(log) \in Nat
            /\ log'[Len(log) + 1] = <<step, "unclean">>
        BY <4>1, <4>2, Emitted, LogFacts
      <4>4. Len(log) + 1 \in 1 .. Len(log')
        BY <4>3
      <4> QED BY <4>3, <4>4 DEF Reported
    <3> QED BY <1>1, <2>1, <3>1, <3>2
  <2> QED BY <1>2, <2>2, <2>3, <2>4
<1>3. CASE ~(WriteTemp \/ DeleteTemp \/ LogLatency)
  <2>1. temps' = temps
    BY <1>3 DEF Next, Step, vars, Start, RunCommand, WriteOutput, LogCommand,
         CopyRecentLogs, BeginSample, TakeSample, FlushSample, Sleep,
         EndSampling, SkipDump, ListProcesses, OpenProcess, CreateDumpFile,
         WriteDump, CloseHandles, EmitDump, EndDump, CreateSummary,
         FillSummary, Stop, FinalFlush, Fail, Kill, Change, before
  <2>2. \A step \in Latencies : Pending(step) => PendingThen(step)
    <3>1. pc \in {OutLatency, UserLatency} /\ at \in {"written", "unclean"} =>
              pc' = pc /\ at' = at
      BY <1>0, <1>3, Moves
         DEF Next, Step, vars, OutLatency, UserLatency, Copies, Sampling,
             Dumping, Summing, Stopping
    <3> QED BY <3>1 DEF Latencies
  <2> QED BY <1>1, <2>1, <2>2
<1> QED BY <1>2, <1>3

LEMMA HandlesHold == Init => HandlesClosed /\ Errors
BY DEF Init, HandlesClosed, Errors, NoDump

\* Every way through a dump closes what it opened.
LEMMA HandlesStay ==
    ASSUME Places, HandlesClosed, handles \subseteq {"process", "file"},
           [Next]_vars
    PROVE  HandlesClosed' /\ handles' \subseteq {"process", "file"}
<1>0. pc \in 1 .. Stopping /\ Commands \in Nat
  BY ProbeAssumption DEF Places
<1> USE DEF Stopping, Copies, OutLatency, UserLatency, Sampling, Dumping,
            Summing
<1>1. CASE OpenProcess
  BY <1>0, <1>1, Moves DEF OpenProcess, HandlesClosed, Goto
<1>2. CASE CreateDumpFile
  BY <1>0, <1>2, Moves DEF CreateDumpFile, HandlesClosed, Goto
<1>3. CASE WriteDump
  BY <1>0, <1>3, Moves DEF WriteDump, HandlesClosed
<1>4. CASE CloseHandles \/ Kill
  BY <1>4 DEF CloseHandles, Kill, HandlesClosed
<1>5. CASE SkipDump \/ ListProcesses \/ EmitDump \/ EndDump
  <2>1. handles' = handles
    BY <1>5 DEF SkipDump, ListProcesses, EmitDump, EndDump, dumping
  <2>2. handles = {}
    BY <1>0, <1>5, Moves DEF HandlesClosed
  <2> QED BY <2>1, <2>2 DEF HandlesClosed
<1>6. CASE Fail \/ Change \/ UNCHANGED vars
  BY <1>6 DEF Fail, Change, vars, dumping, HandlesClosed
<1>7. CASE Start \/ RunCommand \/ WriteOutput \/ LogCommand \/ WriteTemp
           \/ DeleteTemp \/ LogLatency \/ CopyRecentLogs
  <2>1. handles' = handles
    BY <1>7 DEF Start, RunCommand, WriteOutput, LogCommand, WriteTemp,
                DeleteTemp, LogLatency, CopyRecentLogs, dumping
  <2>2. handles = {}
    BY <1>0, <1>7, Moves DEF HandlesClosed
  <2> QED BY <2>1, <2>2 DEF HandlesClosed
<1>8. CASE BeginSample \/ TakeSample \/ FlushSample \/ Sleep \/ EndSampling
           \/ CreateSummary \/ FillSummary \/ Stop \/ FinalFlush
  <2>1. handles' = handles
    BY <1>8 DEF BeginSample, TakeSample, FlushSample, Sleep, EndSampling,
                CreateSummary, FillSummary, Stop, FinalFlush, dumping
  <2>2. handles = {}
    BY <1>0, <1>8, Moves DEF HandlesClosed
  <2> QED BY <2>1, <2>2 DEF HandlesClosed
<1> QED
  BY <1>1, <1>2, <1>3, <1>4, <1>5, <1>6, <1>7, <1>8 DEF Next, Step

-----------------------------------------------------------------------------
(* The dumps.                                                               *)

DumpType ==
    /\ dump \in Dumps /\ listing \in Seq(Pid) /\ todo \in Seq(Pid)

LEMMA ListingHolds == Init => Listing /\ DumpType
<1> SUFFICES ASSUME Init
             PROVE  Listing /\ DumpType
  OBVIOUS
<1>1. listing = << >> /\ todo = << >> /\ dumped = << >> /\ dump = NoDump
  BY DEF Init
<1>2. /\ listing \in Seq(Pid) /\ todo \in Seq(Pid) /\ dumped \in Seq(Pid \X Dumps)
      /\ Len(listing) = 0 /\ Len(todo) = 0 /\ Len(dumped) = 0
  BY <1>1, EmptySeq
<1>3. NoDump \in Dumps
  BY DEF NoDump, Dumps
<1>4. pc = 1 /\ at = "begin" /\ Commands \in Nat
  BY ProbeAssumption DEF Init
<1> QED BY <1>1, <1>2, <1>3, <1>4 DEF Listing, DumpType, Dumping

\* A list of processes is a sequence of them.
LEMMA ListOfProcesses ==
    ASSUME NEW S \in SUBSET Pid, NEW list \in SetToSeqs(S) \cup {<< >>}
    PROVE  list \in Seq(Pid)
<1>1. CASE list = << >>
  BY <1>1, EmptySeq
<1>2. CASE list \in SetToSeqs(S)
  <2>1. IsFiniteSet(S) /\ Cardinality(S) \in Nat
    BY ProbeAssumption, FS_Subset, FS_CardinalityType
  <2>2. list \in [1 .. Cardinality(S) -> S]
    BY <1>2 DEF SetToSeqs
  <2>3. list \in [1 .. Cardinality(S) -> Pid]
    BY <2>2
  <2> QED BY <2>1, <2>3, SeqDef
<1> QED BY <1>1, <1>2

LEMMA DumpOutcomes ==
    ASSUME DumpType
    PROVE  /\ NoDump \in Dumps
           /\ OpenProcess => dump' \in Dumps
           /\ CreateDumpFile => dump' \in Dumps
           /\ WriteDump => dump' \in Dumps
<1>1. NoDump \in Dumps
  BY DEF NoDump, Dumps
<1>2. dump \in [ok : BOOLEAN, call : Calls \cup {"none"},
                error : Calls \cup {"none", "CloseHandle"}]
  BY DEF DumpType, Dumps
<1>3. OpenProcess => dump' \in Dumps
  <2>1. OpenProcess => \/ dump' = NoDump
                       \/ dump' = [ok |-> FALSE, call |-> "OpenProcess",
                                   error |-> "OpenProcess"]
    BY DEF OpenProcess
  <2>2. "OpenProcess" \in Calls
    BY DEF Calls
  <2>3. [ok |-> FALSE, call |-> "OpenProcess", error |-> "OpenProcess"] \in Dumps
    BY <2>2 DEF Dumps
  <2> QED BY <1>1, <2>1, <2>3
<1>4. CreateDumpFile => dump' \in Dumps
  <2>1. CreateDumpFile => \/ dump' = dump
                          \/ dump' = [dump EXCEPT !.call = "CreateFileW",
                                                  !.error = "CreateFileW"]
    BY DEF CreateDumpFile, FailedCall
  <2>2. "CreateFileW" \in Calls
    BY DEF Calls
  <2> QED BY <1>2, <2>1, <2>2 DEF Dumps
<1>5. WriteDump => dump' \in Dumps
  <2>1. WriteDump => \/ dump' = [dump EXCEPT !.ok = TRUE]
                     \/ dump' = [dump EXCEPT !.call = "MiniDumpWriteDump",
                                             !.error = "MiniDumpWriteDump"]
    BY DEF WriteDump, FailedCall
  <2>2. "MiniDumpWriteDump" \in Calls
    BY DEF Calls
  <2> QED BY <1>2, <2>1, <2>2 DEF Dumps
<1> QED BY <1>1, <1>3, <1>4, <1>5

\* One process dumped is one less to dump.
LEMMA DumpedOne ==
    ASSUME Listing, DumpType, todo # << >>,
           dumped' = Append(dumped, <<Head(todo), dump>>), todo' = Tail(todo),
           listing' = listing
    PROVE  /\ dumped' \in Seq(Pid \X Dumps) /\ todo' \in Seq(Pid)
           /\ Len(dumped') = Len(dumped) + 1
           /\ dumped'[Len(dumped) + 1] = <<Head(todo), dump>>
           /\ \A k \in 1 .. Len(dumped) : dumped'[k] = dumped[k]
           /\ Len(listing') = Len(dumped') + Len(todo')
           /\ \A k \in 1 .. Len(dumped') : dumped'[k][1] = listing'[k]
           /\ \A k \in 1 .. Len(todo') : todo'[k] = listing'[Len(dumped') + k]
<1> DEFINE d == dumped
           dd == dumped'
           t == todo
           tt == todo'
           x == <<Head(todo), dump>>
<1>1. /\ d \in Seq(Pid \X Dumps) /\ t \in Seq(Pid) /\ Len(d) \in Nat
      /\ Len(t) \in Nat /\ t # << >>
      /\ Len(listing) = Len(d) + Len(t)
      /\ \A k \in 1 .. Len(d) : d[k][1] = listing[k]
      /\ \A k \in 1 .. Len(t) : t[k] = listing[Len(d) + k]
  BY LenProperties DEF Listing, DumpType
<1>2. Head(t) = t[1] /\ Len(t) >= 1
  <2>1. Len(t) # 0
    BY <1>1, EmptySeq
  <2> QED BY <1>1, <2>1
<1>3. /\ tt \in Seq(Pid) /\ Len(tt) = Len(t) - 1
      /\ \A k \in 1 .. Len(tt) : tt[k] = t[k + 1]
  <2>1. t \in Seq(Pid) /\ t # << >> /\ tt = Tail(t)
    BY <1>1
  <2> QED BY ONLY <2>1, HeadTailProperties
<1>4. x \in Pid \X Dumps
  BY <1>1, <1>2, ElementOfSeq DEF DumpType
<1>5. /\ dd \in Seq(Pid \X Dumps) /\ Len(dd) = Len(d) + 1
      /\ \A k \in 1 .. Len(d) : dd[k] = d[k]
      /\ dd[Len(d) + 1] = x
  <2>1. dd = Append(d, x) /\ d \in Seq(Pid \X Dumps)
    BY <1>1
  <2> HIDE DEF x, d, dd
  <2> QED BY ONLY <1>4, <2>1, Appending
<1>6. x[1] = t[1]
  BY <1>2
<1> HIDE DEF d, dd, t, tt, x
<1>7. ASSUME NEW k \in 1 .. Len(dd)
      PROVE  dd[k][1] = listing[k]
  <2>1. CASE k = Len(d) + 1
    <3>1. t[1] = listing[Len(d) + 1]
      BY <1>1, <1>2
    <3> QED BY <1>5, <1>6, <2>1, <3>1
  <2>2. CASE k \in 1 .. Len(d)
    BY <1>1, <1>5, <2>2
  <2> QED BY <1>1, <1>5, <2>1, <2>2
<1>8. ASSUME NEW k \in 1 .. Len(tt)
      PROVE  tt[k] = listing[Len(dd) + k]
  <2>1. k + 1 \in 1 .. Len(t)
    BY <1>1, <1>3
  <2>2. t[k + 1] = listing[Len(d) + (k + 1)]
    BY <1>1, <2>1
  <2>3. Len(d) + (k + 1) = Len(dd) + k
    BY <1>1, <1>5
  <2> QED BY <1>3, <2>2, <2>3
<1>9. Len(listing) = Len(dd) + Len(tt)
  BY <1>1, <1>2, <1>3, <1>5
<1> QED BY <1>3, <1>5, <1>7, <1>8, <1>9 DEF d, dd, t, tt, x

\* What a step that leaves the dumps alone does.
LEMMA ListingKept ==
    ASSUME Listing, DumpType, Places, dumped' = dumped, todo' = todo,
           listing' = listing, dump' \in Dumps,
           pc' = pc \/ pc' = pc + 1,
           (pc' = pc /\ at' # at) => \/ at # "begin" /\ at' # "begin"
                                     \/ pc # Dumping,
           (pc' = Dumping /\ at' \in {"file", "write", "close", "report"}) =>
               \/ todo # << >>
               \/ pc = Dumping /\ at \in {"file", "write", "close", "report"},
           pc = Dumping /\ pc' # pc => todo = << >>
    PROVE  Listing' /\ DumpType'
<1>0. pc \in 1 .. Stopping /\ Commands \in Nat
  BY ProbeAssumption DEF Places
<1>1. (pc' < Dumping \/ (pc' = Dumping /\ at' = "begin")) => listing = << >>
  <2>1. CASE pc' = pc
    BY <1>0, <2>1 DEF Listing, Dumping, Stopping
  <2>2. CASE pc' = pc + 1
    BY <1>0, <2>2 DEF Listing, Dumping, Stopping
  <2> QED BY <2>1, <2>2
<1>2. pc' > Dumping => todo = << >>
  <2>1. CASE pc' = pc
    BY <1>0, <2>1 DEF Listing, Dumping, Stopping
  <2>2. CASE pc' = pc + 1
    BY <1>0, <2>2 DEF Listing, Dumping, Stopping
  <2> QED BY <2>1, <2>2
<1>3. (pc' = Dumping /\ at' \in {"file", "write", "close", "report"}) =>
          todo # << >>
  BY DEF Listing
<1> QED BY <1>1, <1>2, <1>3 DEF Listing, DumpType, Dumping

\* Listed processes are dumped in order, each with one event, and a failure
\* keeps the error of the call that failed.
LEMMA ListingStays ==
    ASSUME LogOK, Places, DumpsLogged, Errors, Listing, DumpType, [Next]_vars
    PROVE  DumpsLogged' /\ Errors' /\ Listing' /\ DumpType'
<1>0. /\ pc \in 1 .. Stopping /\ Commands \in Nat
      /\ Len(dumped) \in Nat
  BY ProbeAssumption, LenProperties DEF Places, Listing
<1>1. Logged("dump")' = Logged("dump") +
          (IF pc = Dumping /\ at = "report" /\ at' # at THEN 1 ELSE 0)
  BY Tally
<1>2. Logged("dump") = Len(dumped)
  BY DEF DumpsLogged
<1>3. CASE EmitDump
  <2>1. /\ pc = Dumping /\ at = "report" /\ pc' = pc /\ at' = "next"
        /\ dumped' = Append(dumped, <<Head(todo), dump>>)
        /\ todo' = Tail(todo) /\ listing' = listing /\ dump' = NoDump
    BY <1>0, <1>3, Moves DEF EmitDump
  <2>2. todo # << >>
    BY <2>1 DEF Listing
  <2>3. /\ dumped' \in Seq(Pid \X Dumps) /\ todo' \in Seq(Pid)
        /\ Len(dumped') = Len(dumped) + 1
        /\ dumped'[Len(dumped) + 1] = <<Head(todo), dump>>
        /\ \A k \in 1 .. Len(dumped) : dumped'[k] = dumped[k]
        /\ Len(listing') = Len(dumped') + Len(todo')
        /\ \A k \in 1 .. Len(dumped') : dumped'[k][1] = listing'[k]
        /\ \A k \in 1 .. Len(todo') : todo'[k] = listing'[Len(dumped') + k]
    BY <2>1, <2>2, DumpedOne
  <2>4. DumpsLogged'
    BY <1>0, <1>1, <1>2, <2>1, <2>3 DEF DumpsLogged
  <2>5. Errors'
    <3>1. ~dump'.ok => dump'.error = dump'.call
      BY <2>1 DEF NoDump
    <3>2. ASSUME NEW k \in 1 .. Len(dumped')
          PROVE  ~dumped'[k][2].ok => dumped'[k][2].error = dumped'[k][2].call
      <4>1. CASE k = Len(dumped) + 1
        BY <2>3, <4>1 DEF Errors
      <4>2. CASE k \in 1 .. Len(dumped)
        BY <2>3, <4>2 DEF Errors
      <4> QED BY <1>0, <2>3, <4>1, <4>2
    <3> QED BY <3>1, <3>2 DEF Errors
  <2>6. Listing'
    BY <1>0, <2>1, <2>3 DEF Listing, Dumping
  <2>7. DumpType'
    BY <2>1, <2>3, DumpOutcomes DEF DumpType
  <2> QED BY <2>4, <2>5, <2>6, <2>7
<1>4. ASSUME dumped' = dumped, ~(pc = Dumping /\ at = "report" /\ at' # at),
             ~dump'.ok => dump'.error = dump'.call
      PROVE  DumpsLogged' /\ Errors'
  BY <1>0, <1>1, <1>2, <1>4 DEF DumpsLogged, Errors
<1>5. CASE ListProcesses
  <2>1. /\ pc = Dumping /\ at = "begin" /\ pc' = pc /\ at' = "next"
        /\ todo' = listing' /\ dumped' = dumped /\ dump' = dump
    BY <1>0, <1>5, Moves DEF ListProcesses
  <2>2. todo' \in Seq(Pid)
    BY <1>5, ListOfProcesses DEF ListProcesses
  <2>3. Len(dumped) = 0
    <3>1. Len(listing) = 0 /\ Len(todo) \in Nat
      BY <2>1, LenProperties, EmptySeq DEF Listing, DumpType
    <3> QED BY <1>0, <3>1 DEF Listing
  <2>4. Len(todo') \in Nat
    BY <2>2, LenProperties
  <2>5. Listing'
    <3>1. /\ Len(listing') = Len(dumped') + Len(todo')
          /\ \A k \in 1 .. Len(dumped') : dumped'[k][1] = listing'[k]
          /\ \A k \in 1 .. Len(todo') : todo'[k] = listing'[Len(dumped') + k]
      BY <2>1, <2>3, <2>4
    <3>2. ~(pc' < Dumping \/ pc' > Dumping) /\ at' = "next"
      BY <1>0, <2>1 DEF Dumping
    <3> QED BY <2>1, <3>1, <3>2 DEF Listing, Dumping
  <2> QED BY <1>4, <2>1, <2>2, <2>5 DEF DumpType, Errors
<1>6. CASE OpenProcess
  <2>1. /\ pc = Dumping /\ at = "next" /\ pc' = pc /\ at' # "begin"
        /\ todo # << >>
        /\ dumped' = dumped /\ todo' = todo /\ listing' = listing
    BY <1>0, <1>6, Moves DEF OpenProcess
  <2>2. ~dump'.ok => dump'.error = dump'.call
    BY <1>6 DEF OpenProcess, NoDump
  <2>3. dump' \in Dumps
    BY <1>6, DumpOutcomes
  <2> QED BY <1>0, <1>4, <2>1, <2>2, <2>3, ListingKept
<1>7. CASE CreateDumpFile \/ WriteDump
  <2>1. /\ pc = Dumping /\ at \in {"file", "write"} /\ pc' = pc
        /\ at' \in {"write", "close"}
        /\ dumped' = dumped /\ todo' = todo /\ listing' = listing
    BY <1>0, <1>7, Moves DEF CreateDumpFile, WriteDump
  <2>2. ~dump'.ok => dump'.error = dump'.call
    BY <1>7 DEF CreateDumpFile, WriteDump, FailedCall, Errors, DumpType, Dumps
  <2>3. dump' \in Dumps
    BY <1>7, DumpOutcomes
  <2> QED BY <1>0, <1>4, <2>1, <2>2, <2>3, ListingKept
<1>8. CASE CloseHandles
  <2>1. /\ pc = Dumping /\ at = "close" /\ pc' = pc /\ at' = "report"
        /\ dumped' = dumped /\ todo' = todo /\ listing' = listing
        /\ dump' = dump
    BY <1>0, <1>8, Moves DEF CloseHandles
  <2> QED BY <1>0, <1>4, <2>1, ListingKept DEF Errors, DumpType
<1>9. CASE SkipDump \/ EndDump
  <2>1. /\ pc = Dumping /\ at \in {"begin", "next"} /\ pc' = pc + 1
        /\ at' = "begin"
        /\ dumped' = dumped /\ todo' = todo /\ listing' = listing
        /\ dump' = dump
    BY <1>0, <1>9, Moves DEF SkipDump, EndDump, dumping
  <2>2. todo = << >>
    <3>1. CASE EndDump
      BY <3>1 DEF EndDump
    <3>2. CASE SkipDump
      <4>1. Len(listing) = 0 /\ Len(todo) \in Nat
        BY <1>0, <3>2, Moves, LenProperties, EmptySeq DEF Listing, DumpType
      <4>2. Len(todo) = 0
        BY <1>0, <4>1 DEF Listing
      <4> QED BY <4>2, EmptySeq DEF DumpType
    <3> QED BY <1>9, <3>1, <3>2
  <2>3. Listing' /\ DumpType'
    BY <1>0, <2>1, <2>2, ListingKept DEF Dumping, DumpType
  <2> QED BY <1>0, <1>4, <2>1, <2>3 DEF Errors
<1>10. CASE Start \/ RunCommand \/ WriteOutput \/ LogCommand \/ WriteTemp
            \/ DeleteTemp \/ LogLatency \/ CopyRecentLogs
  <2>1. /\ dumped' = dumped /\ todo' = todo /\ listing' = listing
        /\ dump' = dump
    BY <1>10 DEF Start, RunCommand, WriteOutput, LogCommand, WriteTemp,
                 DeleteTemp, LogLatency, CopyRecentLogs, dumping
  <2>2. /\ pc # Dumping /\ (pc' = pc \/ pc' = pc + 1)
        /\ (pc' = Dumping => at' = "begin")
    BY <1>0, <1>10, Moves, OneStep
       DEF OutLatency, UserLatency, Copies, Dumping, RunCommand, Goto, Advance
  <2>3. Listing' /\ DumpType'
    BY <1>0, <2>1, <2>2, ListingKept DEF DumpType
  <2> QED BY <1>4, <2>1, <2>2, <2>3 DEF Errors
<1>11. CASE BeginSample \/ TakeSample \/ FlushSample \/ Sleep \/ EndSampling
            \/ CreateSummary \/ FillSummary \/ Stop \/ FinalFlush
  <2>1. /\ dumped' = dumped /\ todo' = todo /\ listing' = listing
        /\ dump' = dump
    BY <1>11 DEF BeginSample, TakeSample, FlushSample, Sleep, EndSampling,
                 CreateSummary, FillSummary, Stop, FinalFlush, dumping
  <2>2. /\ pc # Dumping /\ (pc' = pc \/ pc' = pc + 1)
        /\ (pc' = Dumping => at' = "begin")
    BY <1>0, <1>11, Moves, OneStep
       DEF Sampling, Dumping, Summing, Stopping
  <2>3. Listing' /\ DumpType'
    BY <1>0, <2>1, <2>2, ListingKept DEF DumpType
  <2> QED BY <1>4, <2>1, <2>2, <2>3 DEF Errors
<1>12. CASE Fail \/ Kill \/ Change \/ UNCHANGED vars
  <2>1. /\ dumped' = dumped /\ todo' = todo /\ listing' = listing
        /\ dump' = dump /\ pc' = pc /\ at' = at
    BY <1>12 DEF Fail, Kill, Change, vars, dumping
  <2>2. Listing' /\ DumpType'
    BY <2>1 DEF Listing, DumpType, Dumping
  <2> QED BY <1>4, <2>1, <2>2 DEF Errors
<1> QED
  BY <1>3, <1>5, <1>6, <1>7, <1>8, <1>9, <1>10, <1>11, <1>12 DEF Next, Step

-----------------------------------------------------------------------------
(* The invariant.                                                           *)

WorldType ==
    /\ kind \in [Pid -> {"none", "rustadmin", "other"}]
    /\ lastError \in Calls \cup {"none", "CloseHandle"}
    /\ withDump \in BOOLEAN
    /\ stage \in {"run", "done", "failed", "killed"}
    /\ summary \in {"none", "partial", "whole"}

\* The type invariant, in the parts the steps are shown to keep.
LEMMA TypeParts ==
    ASSUME Places
    PROVE  (TypeOK /\ log \in Seq(Events)) <=>
               /\ WorldType /\ ClockType /\ DumpType /\ LogOK
               /\ outputs \in 0 .. Commands /\ temps \subseteq Latencies
               /\ handles \subseteq {"process", "file"}
<1>1. Len(Script) = Stopping /\ pc \in 1 .. Stopping
  BY Steps DEF Places
<1>2. at \in {"begin", "fill", "report", "written", "clean", "unclean",
              "windows", "flush", "sleep", "next", "file", "write", "close"}
  <2>1. \/ pc = 1 \/ pc \in 2 .. Commands + 1 \/ pc \in {OutLatency, UserLatency}
        \/ pc \in Copies \/ pc = Sampling \/ pc = Dumping \/ pc = Summing
        \/ pc = Stopping
    BY <1>1, ProbeAssumption
       DEF OutLatency, UserLatency, Copies, Sampling, Dumping, Summing, Stopping
  <2> QED BY <2>1 DEF Places
<1> QED
  BY <1>1, <1>2 DEF TypeOK, WorldType, ClockType, DumpType, LogOK, Latencies, Dumps

LEMMA WorldStays ==
    ASSUME WorldType, [Next]_vars
    PROVE  WorldType'
<1>1. kind' \in [Pid -> {"none", "rustadmin", "other"}]
  <2>1. kind' = kind \/ Change
    BY DEF Next, Step, vars, Start, RunCommand, WriteOutput, LogCommand,
       WriteTemp, DeleteTemp, LogLatency, CopyRecentLogs, BeginSample,
       TakeSample, FlushSample, Sleep, EndSampling, SkipDump, ListProcesses,
       OpenProcess, CreateDumpFile, WriteDump, CloseHandles, EmitDump,
       EndDump, CreateSummary, FillSummary, Stop, FinalFlush, Fail, Kill, world
  <2> QED BY <2>1 DEF Change, WorldType
<1>2. lastError' \in Calls \cup {"none", "CloseHandle"}
  <2>1. \/ lastError' = lastError \/ OpenProcess \/ CreateDumpFile \/ WriteDump
        \/ CloseHandles \/ EmitDump
    BY DEF Next, Step, vars, Start, RunCommand, WriteOutput, LogCommand,
       WriteTemp, DeleteTemp, LogLatency, CopyRecentLogs, BeginSample,
       TakeSample, FlushSample, Sleep, EndSampling, SkipDump, ListProcesses,
       EndDump, CreateSummary, FillSummary, Stop, FinalFlush, Fail, Kill,
       Change, world
  <2> QED BY <2>1 DEF OpenProcess, CreateDumpFile, WriteDump, CloseHandles,
                      EmitDump, FailedCall, WorldType, Calls
<1>3. withDump' = withDump
  BY DEF Next, vars
<1>4. stage' \in {"run", "done", "failed", "killed"}
  BY DEF Next, Step, FinalFlush, Fail, Kill, Change, vars, WorldType
<1>5. summary' \in {"none", "partial", "whole"}
  <2>1. summary' = summary \/ CreateSummary \/ FillSummary
    BY DEF Next, Step, vars, Start, RunCommand, WriteOutput, LogCommand,
         WriteTemp, DeleteTemp, LogLatency, CopyRecentLogs, BeginSample,
         TakeSample, FlushSample, Sleep, EndSampling, SkipDump, ListProcesses,
         OpenProcess, CreateDumpFile, WriteDump, CloseHandles, EmitDump,
         EndDump, Stop, FinalFlush, Fail, Kill, Change
  <2> QED BY <2>1 DEF CreateSummary, FillSummary, WorldType
<1> QED BY <1>1, <1>2, <1>3, <1>4, <1>5 DEF WorldType

\* At most one output comes from each command.
LEMMA OutputsBounded ==
    ASSUME LogOK, Places, CommandsLogged, outputs \in 0 .. Commands, [Next]_vars
    PROVE  outputs' \in 0 .. Commands
<1>0. pc \in 1 .. Stopping /\ Commands \in Nat
  BY ProbeAssumption DEF Places
<1>1. CASE WriteOutput
  <2>1. pc \in 2 .. Commands + 1 /\ at = "fill" /\ outputs' = outputs + 1
    BY <1>0, <1>1, Moves DEF WriteOutput
  <2>2. outputs <= pc - 2
    BY <2>1 DEF CommandsLogged
  <2>3. outputs + 1 \in 0 .. Commands
    BY <1>0, <2>1, <2>2
  <2> QED BY <2>1, <2>3
<1>2. CASE ~WriteOutput
  <2>1. outputs' = outputs
    BY <1>2 DEF Next, Step, vars, Start, RunCommand, LogCommand, WriteTemp,
         DeleteTemp, LogLatency, CopyRecentLogs, BeginSample, TakeSample,
         FlushSample, Sleep, EndSampling, SkipDump, ListProcesses,
         OpenProcess, CreateDumpFile, WriteDump, CloseHandles, EmitDump,
         EndDump, CreateSummary, FillSummary, Stop, FinalFlush, Fail, Kill,
         Change, before
  <2> QED BY <2>1
<1> QED BY <1>1, <1>2

LEMMA InvariantHolds == Init => ProbeInv
<1> SUFFICES ASSUME Init
             PROVE  ProbeInv
  OBVIOUS
<1>1. Places /\ Rounds /\ TempsReported /\ HandlesClosed /\ Errors /\ StopIsLast
  BY PlacesHold, RoundsHold, TempsHold, HandlesHold, StopHolds
<1>2. CommandsLogged /\ CopiesLogged /\ DumpsLogged /\ SamplesLogged
  BY LoggedHolds
<1>3. Listing /\ DumpType /\ LogOK
  BY ListingHolds, NothingLogged
<1>4. WorldType /\ outputs \in 0 .. Commands /\ temps \subseteq Latencies
      /\ handles \subseteq {"process", "file"}
  BY ProbeAssumption DEF Init, WorldType
<1>5. ClockType
  <2> DEFINE wait == LongestRound
  <2>1. wait \in Nat \ {0}
    BY WaitIsBounded
  <2> HIDE DEF wait
  <2>2. 0 \in 0 .. Duration - 1 + wait + Interval + Grace
    BY <2>1, ProbeAssumption
  <2> QED BY <2>2 DEF Init, ClockType, wait
<1> QED BY <1>1, <1>2, <1>3, <1>4, <1>5, TypeParts DEF ProbeInv

LEMMA InvariantStays == ProbeInv /\ [Next]_vars => ProbeInv'
<1> SUFFICES ASSUME ProbeInv, [Next]_vars
             PROVE  ProbeInv'
  OBVIOUS
<1>1. Places /\ Rounds /\ CommandsLogged /\ CopiesLogged /\ DumpsLogged
      /\ SamplesLogged /\ StopIsLast /\ TempsReported /\ HandlesClosed
      /\ Listing /\ Errors
  BY DEF ProbeInv
<1>2. /\ WorldType /\ ClockType /\ DumpType /\ LogOK
      /\ outputs \in 0 .. Commands /\ temps \subseteq Latencies
      /\ handles \subseteq {"process", "file"}
  BY <1>1, TypeParts DEF ProbeInv
<1>3. Places' /\ LogOK' /\ WorldType' /\ outputs' \in 0 .. Commands
  BY <1>1, <1>2, PlacesStay, Tally, WorldStays, OutputsBounded
<1>4. Rounds' /\ ClockType' /\ CommandsLogged' /\ CopiesLogged'
  BY <1>1, <1>2, RoundsStay, CommandsStay, CopiesStay
<1>5. SamplesLogged'
  BY <1>1, <1>2, SamplesStay DEF ClockType
<1>6. StopIsLast' /\ TempsReported' /\ temps' \subseteq Latencies
  BY <1>1, <1>2, StopStays, TempsStay
<1>7. HandlesClosed' /\ handles' \subseteq {"process", "file"}
  BY <1>1, <1>2, HandlesStay
<1>8. DumpsLogged' /\ Errors' /\ Listing' /\ DumpType'
  BY <1>1, <1>2, ListingStays
<1>9. (Places => ((TypeOK /\ log \in Seq(Events)) <=>
                      /\ WorldType /\ ClockType /\ DumpType /\ LogOK
                      /\ outputs \in 0 .. Commands /\ temps \subseteq Latencies
                      /\ handles \subseteq {"process", "file"}))'
  BY TypeParts, PTL
<1>10. (TypeOK /\ log \in Seq(Events))'
  BY <1>3, <1>4, <1>6, <1>7, <1>8, <1>9
<1> QED
  BY <1>3, <1>4, <1>5, <1>6, <1>7, <1>8, <1>10 DEF ProbeInv

LEMMA ProbeInvariant == Spec => []ProbeInv
BY InvariantHolds, InvariantStays, PTL DEF Spec

-----------------------------------------------------------------------------
(* The theorems.                                                            *)

\* The variables of the probe keep their types, and the clock of the sampling
\* its bound: the loop of run() begins no round after the duration is over,
\* whatever windows hang.
THEOREM ProbeTypes == Spec => []TypeOK
<1>1. ProbeInv => TypeOK
  BY DEF ProbeInv
<1> QED BY <1>1, ProbeInvariant, PTL

\* A way out of write_minidump closes both handles, and a timing file that
\* stays is reported.
THEOREM NothingIsLeft == Spec => []NothingLeftSilently
<1>1. ASSUME ProbeInv
      PROVE  NothingLeftSilently
  <2>1. /\ pc \in 1 .. Stopping /\ Places /\ HandlesClosed /\ TempsReported
        /\ StopIsLast /\ LogOK /\ temps \subseteq Latencies
    BY <1>1, TypeParts DEF ProbeInv, Places
  <2>2. at \in {"begin", "next", "report"} => handles = {}
    BY <2>1 DEF HandlesClosed
  <2>3. ASSUME stage \in {"run", "done"}, ~InLatency, NEW step \in temps
        PROVE  <<step, "unclean">> \in ToSet(log)
    <3>1. ~(pc \in {OutLatency, UserLatency})
      <4>1. CASE stage = "run"
        <5>1. Script[pc] \notin {"out_latency", "user_latency"}
          BY <2>3, <4>1 DEF InLatency
        <5> QED BY <2>1, <5>1, Steps
      <4>2. CASE stage = "done"
        <5>1. pc = Stopping
          BY <2>1, <4>2 DEF StopIsLast
        <5> QED BY <5>1, ProbeAssumption DEF Stopping, OutLatency, UserLatency
      <4> QED BY <2>3, <4>1, <4>2
    <3>2. Reported(step)
      BY <2>1, <2>3, <3>1 DEF TempsReported
    <3>3. PICK k \in 1 .. Len(log) : log[k] = <<step, "unclean">>
      BY <3>2 DEF Reported
    <3>4. DOMAIN log = 1 .. Len(log)
      BY <2>1, LenProperties DEF LogOK
    <3> QED BY <3>3, <3>4 DEF ToSet
  <2> QED BY <2>2, <2>3 DEF NothingLeftSilently
<1> QED BY <1>1, ProbeInvariant, PTL

\* write_minidumps takes every process of its list in turn, and a failure
\* keeps its own error code.
THEOREM DumpsAreInOrder == Spec => []DumpsFollowListing
<1>1. ASSUME ProbeInv
      PROVE  DumpsFollowListing
  <2> DEFINE d == dumped
             firsts == [k \in DOMAIN d |-> d[k][1]]
             whole == firsts \o todo
  <2>1. /\ d \in Seq(Pid \X Dumps) /\ Len(d) \in Nat /\ DOMAIN d = 1 .. Len(d)
        /\ listing \in Seq(Pid) /\ todo \in Seq(Pid)
        /\ Len(todo) \in Nat /\ Len(listing) \in Nat
    BY <1>1, LenProperties, TypeParts DEF ProbeInv, Listing, DumpType
  <2>2. /\ Len(listing) = Len(d) + Len(todo)
        /\ \A k \in 1 .. Len(d) : d[k][1] = listing[k]
        /\ \A k \in 1 .. Len(todo) : todo[k] = listing[Len(d) + k]
    BY <1>1 DEF ProbeInv, Listing
  <2>3. firsts \in Seq(Pid) /\ Len(firsts) = Len(d)
    <3>1. firsts \in [1 .. Len(d) -> Pid]
      <4>1. \A k \in 1 .. Len(d) : d[k] \in Pid \X Dumps
        BY <2>1, ElementOfSeq
      <4> QED BY <2>1, <4>1
    <3> HIDE DEF firsts
    <3>2. firsts \in Seq(Pid)
      <4>1. Len(d) \in Nat
        BY <2>1
      <4> HIDE DEF d
      <4> QED BY ONLY <4>1, <3>1, SeqDef
    <3> QED BY <2>1, <3>1, <3>2, LenProperties
  <2>4. \A k \in 1 .. Len(d) : firsts[k] = d[k][1]
    BY <2>1
  <2> HIDE DEF d, firsts
  <2>5. /\ whole \in Seq(Pid) /\ Len(whole) = Len(firsts) + Len(todo)
        /\ \A i \in 1 .. Len(firsts) + Len(todo) :
             whole[i] = IF i <= Len(firsts) THEN firsts[i]
                                            ELSE todo[i - Len(firsts)]
    BY ONLY <2>1, <2>3, ConcatProperties
  <2> HIDE DEF whole
  <2>6. ASSUME NEW i \in 1 .. Len(listing)
        PROVE  whole[i] = listing[i]
    <3>1. CASE i <= Len(d)
      <4>1. i \in 1 .. Len(d)
        BY <2>1, <3>1
      <4> QED BY <2>1, <2>2, <2>3, <2>4, <2>5, <3>1, <4>1
    <3>2. CASE i > Len(d)
      <4>1. /\ i - Len(d) \in 1 .. Len(todo)
            /\ Len(d) + (i - Len(d)) = i
        BY <2>1, <2>2, <3>2
      <4>2. whole[i] = todo[i - Len(d)]
        BY <2>1, <2>2, <2>3, <2>5, <3>2
      <4>3. todo[i - Len(d)] = listing[Len(d) + (i - Len(d))]
        BY <2>2, <4>1
      <4> QED BY <4>1, <4>2, <4>3
    <3> QED BY <2>1, <3>1, <3>2
  <2>7. whole = listing
    BY <2>1, <2>2, <2>3, <2>5, <2>6, SeqEqual
  <2>8. \A k \in DOMAIN d :
          ~d[k][2].ok => d[k][2].error = d[k][2].call
    BY <1>1, <2>1 DEF ProbeInv, Errors, d
  <2> QED BY <2>7, <2>8 DEF DumpsFollowListing, d, firsts, whole
<1> QED BY <1>1, ProbeInvariant, PTL

\* Counting by name in the file and in the log.
LEMMA CountedFacts ==
    ASSUME LogOK
    PROVE  /\ Len(Durable) = durable
           /\ \A n : Counted(Durable, n) = Filed(n) /\ Counted(log, n) = Logged(n)
<1>1. Len(log) \in Nat /\ durable \in 0 .. Len(log) /\ DOMAIN log = 1 .. Len(log)
  BY LenProperties DEF LogOK
<1>2. \A k \in 1 .. Len(log) : log[k] \in Events
  BY ElementOfSeq DEF LogOK
<1>3. /\ Durable \in Seq(Events) /\ Len(Durable) = durable
      /\ \A k \in 1 .. durable : Durable[k] = log[k]
  <2> DEFINE part == SubSeq(log, 1, durable)
  <2>1. \A k \in 1 .. durable : log[k] \in Events
    BY <1>1, <1>2
  <2>2. /\ part \in Seq(Events)
        /\ Len(part) = IF 1 <= durable THEN durable - 1 + 1 ELSE 0
        /\ \A k \in 1 .. durable - 1 + 1 : part[k] = log[1 + k - 1]
    <3>1. 1 \in Int /\ durable \in Int
      BY <1>1
    <3> QED BY ONLY <3>1, <2>1, SubSeqProperties
  <2> HIDE DEF part
  <2>3. Len(part) = durable /\ \A k \in 1 .. durable : part[k] = log[k]
    <3>1. durable - 1 + 1 = durable /\ \A k \in 1 .. durable : 1 + k - 1 = k
      BY <1>1
    <3> QED BY <1>1, <2>2, <3>1
  <2> QED BY <2>2, <2>3 DEF Durable, part
<1>4. DOMAIN Durable = 1 .. durable
  BY <1>3, LenProperties
<1>5. ASSUME NEW n
      PROVE  Counted(Durable, n) = Filed(n) /\ Counted(log, n) = Logged(n)
  <2>1. \A k \in 1 .. Len(log) : log[k] \in Called(n) <=> log[k][1] = n
    BY <1>2 DEF Called
  <2>2. {k \in DOMAIN log : log[k][1] = n} = Positions(log, Called(n))
    BY <1>1, <2>1 DEF Positions
  <2>3. {k \in DOMAIN Durable : Durable[k][1] = n} =
            Early(log, durable, Called(n))
    <3>1. \A k \in 1 .. durable : k \in 1 .. Len(log)
      BY <1>1
    <3> QED BY <1>3, <1>4, <2>1, <3>1 DEF Early
  <2> QED BY <2>2, <2>3 DEF Counted, Filed, Logged
<1> QED BY <1>3, <1>5

\* Every sample but the one under way is in the file, and all of them once
\* the sampling is over: a kill during the dumps or the summary loses none.
THEOREM SamplesAreFiled == Spec => []SamplesSurvive
<1>1. ASSUME ProbeInv
      PROVE  SamplesSurvive
  <2>1. /\ pc \in 1 .. Stopping /\ Places /\ SamplesLogged /\ LogOK
        /\ Commands \in Nat
    BY <1>1, TypeParts, ProbeAssumption DEF ProbeInv, Places
  <2>2. Counted(Durable, "sample") = Filed("sample")
    BY <2>1, CountedFacts
  <2>3. at = "sleep" => ~(pc = Sampling /\ at \in {"windows", "flush"})
    OBVIOUS
  <2>4. ("dump" \in {Script[k] : k \in 1 .. pc}) => pc > Sampling
    <3>1. ASSUME NEW k \in 1 .. pc, Script[k] = "dump"
          PROVE  pc > Sampling
      <4>1. k \in 1 .. Stopping
        BY <2>1, ProbeAssumption DEF Stopping
      <4>2. k = Dumping
        BY <3>1, <4>1, Steps
      <4> QED BY <2>1, <4>2 DEF Dumping, Sampling
    <3> QED BY <3>1
  <2>5. pc > Sampling => pc # Sampling
    BY <2>1 DEF Sampling
  <2> QED BY <2>1, <2>2, <2>3, <2>4, <2>5 DEF SamplesLogged, SamplesSurvive
<1> QED BY <1>1, ProbeInvariant, PTL

\* Whoever finds probe_stop in the file finds everything before it there, and
\* a whole summary.
THEOREM StopMeansComplete == Spec => []FinishedIsComplete
<1>1. ASSUME ProbeInv
      PROVE  FinishedIsComplete
  <2>1. /\ pc \in 1 .. Stopping /\ StopIsLast /\ LogOK /\ Commands \in Nat
        /\ CommandsLogged /\ CopiesLogged /\ DumpsLogged /\ SamplesLogged
        /\ Listing /\ DumpType
    BY <1>1, TypeParts, ProbeAssumption DEF ProbeInv, Places
  <2>2. \A n : /\ Counted(Durable, n) = Filed(n) /\ Counted(log, n) = Logged(n)
               /\ Logged(n) \in Nat /\ Filed(n) \in Nat
               /\ durable = Len(log) => Filed(n) = Logged(n)
    BY <2>1, CountedFacts, LogFacts
  <2>3. Counted(log, "command") <= outputs
    BY <2>1, <2>2 DEF CommandsLogged
  <2>4. ASSUME Counted(Durable, "probe_stop") > 0
        PROVE  pc = Stopping /\ at = "flush" /\ durable = Len(log)
    <3>1. Early(log, durable, Called("probe_stop")) # {}
      <4>1. Filed("probe_stop") > 0
        BY <2>2, <2>4
      <4>2. Cardinality({}) = 0
        BY FS_EmptySet
      <4> QED BY <4>1, <4>2 DEF Filed
    <3>2. PICK k \in 1 .. durable : log[k] \in Called("probe_stop")
      BY <3>1 DEF Early
    <3>3. log[k] = <<"probe_stop">>
      BY <3>2 DEF Called, Events, Latencies
    <3>4. k \in 1 .. Len(log) /\ Len(log) \in Nat /\ durable \in 0 .. Len(log)
      BY <2>1, <3>2, LogFacts DEF LogOK
    <3>5. k = Len(log) /\ pc = Stopping /\ at = "flush"
      BY <2>1, <3>3, <3>4 DEF StopIsLast
    <3> QED BY <3>2, <3>4, <3>5
  <2>5. ASSUME Counted(Durable, "probe_stop") > 0
        PROVE  /\ summary = "whole"
               /\ Counted(Durable, "command") = outputs
               /\ Counted(Durable, "logs") = 4
               /\ Counted(Durable, "sample") = index
               /\ Counted(Durable, "dump") = Len(listing)
    <3>1. pc = Stopping /\ at = "flush" /\ durable = Len(log)
      BY <2>4, <2>5
    <3>2. summary = "whole"
      BY <2>1, <3>1 DEF StopIsLast
    <3>3. Logged("command") = outputs
      BY <2>1, <2>2, <3>1 DEF CommandsLogged, Stopping
    <3>4. Logged("logs") = 4
      BY <2>1, <3>1 DEF CopiesLogged, Stopping
    <3>5. Logged("sample") = index
      BY <2>1, <2>2, <3>1 DEF SamplesLogged, Stopping, Sampling
    <3>6. Logged("dump") = Len(listing)
      <4>1. todo = << >> /\ Len(dumped) \in Nat
        BY <2>1, <3>1, LenProperties DEF Listing, Stopping, Dumping
      <4>2. Len(todo) = 0
        BY <4>1
      <4> QED BY <2>1, <4>1, <4>2 DEF Listing, DumpsLogged
    <3> QED BY <2>2, <3>1, <3>2, <3>3, <3>4, <3>5, <3>6
  <2>6. stage = "done" => durable = Len(log) /\ Last(log) = <<"probe_stop">>
    BY <2>1 DEF StopIsLast, Last
  <2> QED BY <2>3, <2>5, <2>6 DEF FinishedIsComplete
<1> QED BY <1>1, ProbeInvariant, PTL

=============================================================================
