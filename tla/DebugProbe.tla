----------------------------- MODULE DebugProbe ------------------------------
(***************************************************************************)
(* The debug probe, src/debugprobe/src/main.rs: run() works through a fixed *)
(* list of steps and writes events into a buffered JSON log, while the      *)
(* processes it looks at come and go.  It flushes after every sample and at *)
(* the end; a step that fails ends the program, which flushes the log once  *)
(* more when it is dropped; a killed probe leaves what the buffer had given *)
(* to the file.                                                             *)
(*                                                                          *)
(* Windows is not in the repository.  Here it is what the calls rely on: a  *)
(* process id names a process while it lives or a handle keeps it, and may  *)
(* name another one later; the last error is one cell that any call may     *)
(* overwrite; a file exists from its creation on.                           *)
(***************************************************************************)
EXTENDS Integers, Sequences, SequencesExt, FiniteSets

CONSTANTS
    Pid,        \* process ids
    Commands,   \* calls of log_command (4)
    Duration,   \* --duration, in ticks
    Interval,   \* --interval-ms, in ticks
    Hang,       \* the wait for one window that hangs (500 ms), in ticks
    Windows,    \* bound: the visible windows of one process
    Work,       \* bound: what else a round does (snapshots, pipes), in ticks
    Grace       \* bound: how late a sleep returns, in ticks

ASSUME ProbeAssumption == /\ IsFiniteSet(Pid)
                          /\ Commands \in Nat
                          /\ Duration \in Nat
                          /\ Interval \in Nat
                          /\ Hang \in Nat
                          /\ Windows \in Nat
                          /\ Work \in Nat \ {0}
                          /\ Grace \in Nat

\* Windows (external).
VARIABLES
    kind,       \* what runs under each id: "none", "rustadmin" or "other"
    lastError   \* the call that set the error code of the thread

\* run().
VARIABLES
    withDump,   \* options.dump
    stage,      \* "run", "done", "failed" or "killed"
    pc,         \* the step of Script it is at
    at,         \* where in that step
    outputs,    \* command files written whole
    temps,      \* the latency steps whose temporary file exists
    elapsed,    \* start.elapsed()
    index,      \* sample_index
    pids,       \* process_pids of the sample
    listing,    \* the processes to dump, in order
    todo,       \* those not yet dumped
    handles,    \* open handles of write_minidump
    dump,       \* what is known of the dump in progress
    dumped,     \* the dump events, in order
    summary,    \* summary.txt: "none", "partial" or "whole"
    log,        \* the events written
    durable     \* how many of them the file holds whole

world == <<kind, lastError>>
before == <<outputs, temps>>
sampling == <<elapsed, index, pids>>
dumping == <<listing, todo, handles, dump, dumped>>
logged == <<log, durable>>
vars == <<kind, lastError, withDump, stage, pc, at, outputs, temps, elapsed,
          index, pids, listing, todo, handles, dump, dumped, summary, log,
          durable>>

-----------------------------------------------------------------------------

\* The steps of run(), in order.
Script == <<"start">> \o [k \in 1 .. Commands |-> "command"] \o
          <<"out_latency", "user_latency", "logs", "logs", "sample", "dump",
            "logs", "logs", "summary", "stop">>

In(name) == stage = "run" /\ Script[pc] = name
At(name, place) == In(name) /\ at = place

\* On to the next step, or to another place of this one.
Advance == pc' = pc + 1 /\ at' = "begin"
Goto(place) == at' = place /\ UNCHANGED pc

\* An event goes to the buffer; when that is full it is given to the file
\* first.  The end of the line stays in the buffer, and a line cut short does
\* not count.
Emit(event) == /\ log' = Append(log, event)
               /\ durable' \in {durable, Len(log)}

Flush == durable' = Len(log) /\ UNCHANGED log

Durable == SubSeq(log, 1, durable)

NoDump == [ok |-> FALSE, call |-> "none", error |-> "none"]

Init ==
    /\ kind \in [Pid -> {"none", "rustadmin", "other"}] /\ lastError = "none"
    /\ withDump \in BOOLEAN
    /\ stage = "run" /\ pc = 1 /\ at = "begin"
    /\ outputs = 0 /\ temps = {}
    /\ elapsed = 0 /\ index = 0 /\ pids = {}
    /\ listing = << >> /\ todo = << >> /\ handles = {}
    /\ dump = NoDump /\ dumped = << >>
    /\ summary = "none"
    /\ log = << >> /\ durable = 0

-----------------------------------------------------------------------------
(* Before and after the samples.                                            *)

Start ==
    /\ In("start") /\ Emit(<<"probe_start">>) /\ Advance
    /\ UNCHANGED <<world, before, sampling, dumping, summary>>

\* A command that cannot be run is an event like any other; the output of
\* one that ran goes to a file first.
RunCommand ==
    /\ At("command", "begin")
    /\ \/ Emit(<<"command_error">>) /\ Advance
       \/ Goto("fill") /\ UNCHANGED logged
    /\ UNCHANGED <<world, before, sampling, dumping, summary>>

\* Mutant: the file is flushed when it is dropped, which ignores errors.
WriteOutputUnchecked ==
    /\ At("command", "fill")
    /\ outputs' \in {outputs, outputs + 1}
    /\ Goto("report")
    /\ UNCHANGED <<world, temps, sampling, dumping, summary, logged>>

WriteOutput ==
    /\ At("command", "fill")
    /\ outputs' = outputs + 1
    /\ Goto("report")
    /\ UNCHANGED <<world, temps, sampling, dumping, summary, logged>>

LogCommand ==
    /\ At("command", "report") /\ Emit(<<"command">>) /\ Advance
    /\ UNCHANGED <<world, before, sampling, dumping, summary>>

InLatency == stage = "run" /\ Script[pc] \in {"out_latency", "user_latency"}

\* file_latency_json writes a file into a directory, its own or the product's,
\* when that exists.  A write may fail before or after the file is there.
WriteTemp ==
    /\ InLatency /\ at = "begin"
    /\ \/ Script[pc] = "user_latency" /\ Goto("clean") /\ UNCHANGED temps
       \/ Goto("written") /\ temps' = temps \cup {Script[pc]}
       \/ Goto("unclean") /\ temps' \in {temps, temps \cup {Script[pc]}}
    /\ UNCHANGED <<world, outputs, sampling, dumping, summary, logged>>

\* Mutant: the result of remove_file is not looked at.
DeleteTempUnchecked ==
    /\ InLatency /\ at = "written"
    /\ temps' \in {temps, temps \ {Script[pc]}}
    /\ Goto("clean")
    /\ UNCHANGED <<world, outputs, sampling, dumping, summary, logged>>

\* It is read, whether or not that works, and deleted if that works.
DeleteTemp ==
    /\ InLatency /\ at = "written"
    /\ \/ Goto("clean") /\ temps' = temps \ {Script[pc]}
       \/ Goto("unclean") /\ UNCHANGED temps
    /\ UNCHANGED <<world, outputs, sampling, dumping, summary, logged>>

\* "unclean" stands for ok: false and for delete_ok: false, "clean" for the
\* rest, a missing directory included.
LogLatency ==
    /\ InLatency /\ at \in {"clean", "unclean"}
    /\ Emit(<<Script[pc], at>>)
    /\ Advance
    /\ UNCHANGED <<world, before, sampling, dumping, summary>>

\* The newest files of a directory, whatever they are, a temporary file left
\* there included; those that cannot be copied are left out, and a missing
\* directory is an event as well.
CopyRecentLogs ==
    /\ In("logs") /\ Emit(<<"logs">>) /\ Advance
    /\ UNCHANGED <<world, before, sampling, dumping, summary>>

-----------------------------------------------------------------------------
(* Sampling.                                                                *)

\* Mutant: one round too many.
BeginSampleLate ==
    /\ At("sample", "begin") /\ elapsed <= Duration
    /\ index' = index + 1
    /\ pids' \in {{p \in Pid : kind[p] = "rustadmin"}, {}}
    /\ Goto("windows")
    /\ UNCHANGED <<world, before, elapsed, dumping, summary, logged>>

\* The ids of the product's processes are read; a snapshot that fails has none.
BeginSample ==
    /\ At("sample", "begin") /\ elapsed < Duration
    /\ index' = index + 1
    /\ pids' \in {{p \in Pid : kind[p] = "rustadmin"}, {}}
    /\ Goto("windows")
    /\ UNCHANGED <<world, before, elapsed, dumping, summary, logged>>

\* Each visible window of what has these ids by now is sent a message in turn
\* and waited for until it answers or Hang is over.  Pipes are listed, and all
\* is one event.  A tick is no longer than the least a round takes, so time
\* passes even where --interval-ms is zero.
TakeSample ==
    /\ At("sample", "windows")
    /\ LET windows == Windows * Cardinality({p \in pids : kind[p] # "none"})
       IN  elapsed' \in elapsed + 1 .. elapsed + Work + Hang * windows
    /\ pids' = {}
    /\ Emit(<<"sample">>)
    /\ Goto("flush")
    /\ UNCHANGED <<world, before, index, dumping, summary>>

\* Mutant: the samples stay in the buffer.
FlushSampleSkipped ==
    /\ At("sample", "flush") /\ Goto("sleep")
    /\ UNCHANGED <<world, before, sampling, dumping, summary, logged>>

FlushSample ==
    /\ At("sample", "flush") /\ Flush /\ Goto("sleep")
    /\ UNCHANGED <<world, before, sampling, dumping, summary>>

Sleep ==
    /\ At("sample", "sleep")
    /\ elapsed' \in elapsed + Interval .. elapsed + Interval + Grace
    /\ Goto("begin")
    /\ UNCHANGED <<world, before, index, pids, dumping, summary, logged>>

\* The clock is not read again.
EndSampling ==
    /\ At("sample", "begin") /\ elapsed >= Duration /\ Advance
    /\ elapsed' = 0
    /\ UNCHANGED <<world, before, index, pids, dumping, summary, logged>>

-----------------------------------------------------------------------------
(* Minidumps.                                                               *)

SkipDump ==
    /\ At("dump", "begin") /\ ~withDump /\ Advance
    /\ UNCHANGED <<world, before, sampling, dumping, summary, logged>>

\* The ids of the processes to dump are read once, in any order; a snapshot
\* that fails lists nothing.
ListProcesses ==
    /\ At("dump", "begin") /\ withDump
    /\ \E processes \in
            SetToSeqs({p \in Pid : kind[p] = "rustadmin"}) \cup {<< >>} :
         listing' = processes /\ todo' = processes
    /\ Goto("next")
    /\ UNCHANGED <<world, before, sampling, handles, dump, dumped, summary,
                   logged>>

\* A call fails; its error code is read at once.
FailedCall(name) ==
    /\ lastError' = name
    /\ dump' = [dump EXCEPT !.call = name, !.error = name]

\* Whatever process has the id by now.
OpenProcess ==
    /\ At("dump", "next") /\ todo # << >>
    /\ \/ /\ kind[Head(todo)] # "none"
          /\ handles' = {"process"}
          /\ dump' = NoDump
          /\ Goto("file")
          /\ UNCHANGED lastError
       \/ /\ lastError' = "OpenProcess"
          /\ dump' = [ok |-> FALSE, call |-> "OpenProcess",
                      error |-> "OpenProcess"]
          /\ Goto("report")
          /\ UNCHANGED handles
    /\ UNCHANGED <<kind, before, sampling, listing, todo, dumped, summary,
                   logged>>

CreateDumpFile ==
    /\ At("dump", "file")
    /\ \/ /\ handles' = handles \cup {"file"}
          /\ Goto("write")
          /\ UNCHANGED <<lastError, dump>>
       \/ /\ FailedCall("CreateFileW")
          /\ Goto("close")
          /\ UNCHANGED handles
    /\ UNCHANGED <<kind, before, sampling, listing, todo, dumped, summary,
                   logged>>

\* The error code is reported only of a dump that was not written.
WriteDump ==
    /\ At("dump", "write")
    /\ \/ /\ dump' = [dump EXCEPT !.ok = TRUE]
          /\ UNCHANGED lastError
       \/ FailedCall("MiniDumpWriteDump")
    /\ Goto("close")
    /\ UNCHANGED <<kind, before, sampling, listing, todo, handles, dumped,
                   summary, logged>>

\* Mutant: the error code is read after the handles are closed.
CloseBeforeError ==
    /\ At("dump", "close")
    /\ handles' = {}
    /\ lastError' \in {lastError, "CloseHandle"}
    /\ dump' = [dump EXCEPT !.error = IF dump.ok THEN @ ELSE lastError']
    /\ Goto("report")
    /\ UNCHANGED <<kind, before, sampling, listing, todo, dumped, summary,
                   logged>>

\* Mutant: a dump that fails is tried again.
CloseAndRetry ==
    /\ At("dump", "close")
    /\ handles' = {}
    /\ lastError' \in {lastError, "CloseHandle"}
    /\ Goto(IF dump.ok THEN "report" ELSE "next")
    /\ UNCHANGED <<kind, before, sampling, listing, todo, dump, dumped,
                   summary, logged>>

\* CloseHandle for each handle; it may touch the last error.
CloseHandles ==
    /\ At("dump", "close")
    /\ handles' = {}
    /\ lastError' \in {lastError, "CloseHandle"}
    /\ Goto("report")
    /\ UNCHANGED <<kind, before, sampling, listing, todo, dump, dumped,
                   summary, logged>>

\* A dump is reported, written or not, and the next one taken up; the calls of
\* the logger come after the last error.
EmitDump ==
    /\ At("dump", "report") /\ Emit(<<"dump">>)
    /\ dumped' = Append(dumped, <<Head(todo), dump>>)
    /\ dump' = NoDump
    /\ todo' = Tail(todo)
    /\ Goto("next")
    /\ lastError' = "none"
    /\ UNCHANGED <<kind, before, sampling, listing, handles, summary>>

EndDump ==
    /\ At("dump", "next") /\ todo = << >> /\ Advance
    /\ UNCHANGED <<world, before, sampling, dumping, summary, logged>>

-----------------------------------------------------------------------------
(* The end.                                                                 *)

CreateSummary ==
    /\ At("summary", "begin")
    /\ summary' = "partial"
    /\ Goto("fill")
    /\ UNCHANGED <<world, before, sampling, dumping, logged>>

FillSummary ==
    /\ At("summary", "fill")
    /\ summary' = "whole"
    /\ Advance
    /\ UNCHANGED <<world, before, sampling, dumping, logged>>

Stop ==
    /\ At("stop", "begin") /\ Emit(<<"probe_stop">>) /\ Goto("flush")
    /\ UNCHANGED <<world, before, sampling, dumping, summary>>

FinalFlush ==
    /\ At("stop", "flush") /\ Flush
    /\ stage' = "done"
    /\ UNCHANGED <<world, pc, at, before, sampling, dumping, summary>>

\* A directory, file or event that cannot be written, or a log directory that
\* cannot be read, ends the program; the log is flushed as far as that works.
Fail ==
    /\ \/ stage = "run" /\ Script[pc] \in {"start", "logs", "summary", "stop"}
       \/ In("command")
       \/ InLatency /\ at \in {"clean", "unclean"}
       \/ At("sample", "windows") \/ At("sample", "flush")
       \/ In("dump") /\ at \in {"begin", "report"} /\ withDump
    /\ stage' = "failed"
    /\ durable' \in durable .. Len(log)
    /\ UNCHANGED <<world, pc, at, before, sampling, dumping, summary, log>>

-----------------------------------------------------------------------------
(* The world.                                                               *)

Kill ==
    /\ stage = "run"
    /\ stage' = "killed"
    /\ handles' = {}
    /\ UNCHANGED <<world, pc, at, before, sampling, listing, todo, dump,
                   dumped, summary, logged>>

\* A process ends, or another takes a free id; a handle keeps an id taken.
Change ==
    /\ stage = "run"
    /\ \E p \in Pid, k \in {"none", "rustadmin", "other"} :
         /\ (kind[p] = "none") # (k = "none")
         /\ ~("process" \in handles /\ p = Head(todo) /\ k # "none")
         /\ kind' = [kind EXCEPT ![p] = k]
    /\ UNCHANGED <<lastError, stage, pc, at, before, sampling, dumping,
                   summary, logged>>

Step ==
    \/ /\ \/ Start \/ RunCommand \/ WriteOutput \/ LogCommand
          \/ WriteTemp \/ DeleteTemp \/ LogLatency \/ CopyRecentLogs
          \/ BeginSample \/ TakeSample \/ FlushSample \/ Sleep \/ EndSampling
          \/ SkipDump \/ ListProcesses \/ OpenProcess \/ CreateDumpFile
          \/ WriteDump \/ CloseHandles \/ EmitDump \/ EndDump
          \/ CreateSummary \/ FillSummary \/ Stop
       /\ UNCHANGED stage
    \/ FinalFlush

Next == (Step \/ Fail \/ Kill \/ Change) /\ UNCHANGED withDump

Spec == Init /\ [][Next]_vars

\* One thread that keeps running, and calls that return.
FairSpec == Spec /\ WF_vars(Step /\ UNCHANGED withDump)

-----------------------------------------------------------------------------
(* Properties.                                                              *)

Calls == {"OpenProcess", "CreateFileW", "MiniDumpWriteDump"}

\* The most a round takes before its sleep.
LongestRound == Work + Hang * (Windows * Cardinality(Pid))

\* Types; a round begins before the duration is over, which bounds the clock:
\* past it, by the work of one round, by the waits for every window of every
\* process of the product, and by one sleep.
TypeOK ==
    /\ kind \in [Pid -> {"none", "rustadmin", "other"}]
    /\ lastError \in Calls \cup {"none", "CloseHandle"}
    /\ withDump \in BOOLEAN
    /\ stage \in {"run", "done", "failed", "killed"}
    /\ pc \in 1 .. Len(Script)
    /\ at \in {"begin", "fill", "report", "written", "clean", "unclean",
               "windows", "flush", "sleep", "next", "file", "write",
               "close"}
    /\ outputs \in 0 .. Commands
    /\ temps \subseteq {"out_latency", "user_latency"}
    /\ elapsed \in 0 .. Duration - 1 + LongestRound + Interval + Grace
    /\ index \in Nat /\ pids \subseteq Pid
    /\ listing \in Seq(Pid) /\ todo \in Seq(Pid)
    /\ handles \subseteq {"process", "file"}
    /\ dump \in [ok : BOOLEAN, call : Calls \cup {"none"},
                 error : Calls \cup {"none", "CloseHandle"}]
    /\ summary \in {"none", "partial", "whole"}
    /\ durable \in 0 .. Len(log)

Counted(events, name) == Cardinality({k \in DOMAIN events : events[k][1] = name})

\* A killed or failed probe loses at most the sample it was writing: each
\* earlier one was flushed before the sleep, and once sampling is over all
\* are in the file.
SamplesSurvive ==
    /\ Counted(Durable, "sample") >= index - 1
    /\ (at = "sleep" \/ "dump" \in {Script[k] : k \in 1 .. pc}) =>
           Counted(Durable, "sample") = index

\* An event never announces a file that is not whole.  Whoever finds
\* probe_stop in the log finds a whole summary, every sample, the four copies
\* and one dump event for each process listed; a probe that reports success
\* has left all of it in the file.
FinishedIsComplete ==
    /\ Counted(log, "command") <= outputs
    /\ Counted(Durable, "probe_stop") > 0 =>
           /\ summary = "whole"
           /\ Counted(Durable, "command") = outputs
           /\ Counted(Durable, "logs") = 4
           /\ Counted(Durable, "sample") = index
           /\ Counted(Durable, "dump") = Len(listing)
    /\ stage = "done" => durable = Len(log) /\ Last(log) = <<"probe_stop">>

\* write_minidump leaves no handle on any of its four ways out, and a timing
\* file that stays in a directory, where the next copy takes it for the newest
\* log, stays there reported; unless the probe is stopped before it can.
NothingLeftSilently ==
    /\ at \in {"begin", "next", "report"} => handles = {}
    /\ (stage \in {"run", "done"} /\ ~InLatency) =>
           \A step \in temps : <<step, "unclean">> \in ToSet(log)

\* Every process listed is dumped or reported in its turn, whatever became of
\* the ones before it; and a dump that failed names the error of the call that
\* failed, not one of the CloseHandle calls after it.
DumpsFollowListing ==
    /\ [k \in DOMAIN dumped |-> dumped[k][1]] \o todo = listing
    /\ \A k \in DOMAIN dumped :
         LET result == dumped[k][2] IN ~result.ok => result.error = result.call

\* The probe ends, whatever the processes it looks at do, with no pause between
\* the rounds as with one.
ProbeEnds == <>(stage # "run")

=============================================================================
