---------------------------- MODULE SafetyRunners ----------------------------
(***************************************************************************)
(* The runner scripts, src/scripts/run_*.sh.  Each runs its steps one after *)
(* the other and writes a line per step to results/<stamp>/summary.md, with *)
(* a stamp of one second: runners started in the same second share the file.*)
(* What a script tells its caller is its own exit status.                   *)
(*                                                                          *)
(* Cargo, cargo-fuzz and the advisory tools are not in the repository: they *)
(* end with some status, or are not installed.                              *)
(***************************************************************************)
EXTENDS SafetyProbes

CONSTANTS
    Settings,   \* the runners, environments and findings to run against
    MaxTime     \* bound: seconds in which runners start

Scripts == {"ci", "dynamic", "resource", "fuzz", "advisories"}

\* The findings are those a case can make of the library; what a server
\* answers is none.
ASSUME SettingsAssumption ==
    /\ \A set \in Settings :
         /\ set.script \in [Starter -> Scripts]
         /\ set.hardened \in BOOLEAN /\ set.server \in BOOLEAN
         /\ "online" \notin set.faults
    /\ MaxTime \in Nat \ {0}

VARIABLES
    script,     \* what each runner runs
    hardened,   \* EXPECT_HARDENED=1 in the environment
    server,     \* HBBS_ADDR is set
    now,        \* the second `date` gives
    stamp,      \* STAMP of each runner, 0 before it starts
    stage,      \* where it stands
    statuses,   \* the status of each step it has run
    code,       \* its exit status
    summary     \* the lines of each runner in results/<stamp>/summary.md

setting == <<script, hardened, server>>
vars == <<faults, probes, script, hardened, server, now, stamp, stage,
          statuses, code, summary>>

\* The steps of a script.  Those of the advisories are repeated for every
\* repository there is; here there is one.
Steps(r) ==
    CASE script[r] = "ci"       -> <<"bytes_codec_tests", "codec_header_alloc">>
      [] script[r] = "dynamic"  ->
            <<"ipc_path", "codec_header_alloc", "file_transfer_path",
              "zstd_expansion">> \o
            (IF server THEN <<"online_request_client">> ELSE <<"skipped">>)
      [] script[r] = "resource" -> <<"build", "codec_header_alloc",
                                     "zstd_expansion">>
      [] script[r] = "fuzz"     -> <<"bytes_codec_decode",
                                     "rendezvous_message_decode",
                                     "message_decode", "file_transfer_paths",
                                     "zstd_decompress">>
      [] script[r] = "advisories" -> <<"tree", "metadata", "audit", "deny",
                                       "online">>

\* A step that is not run because its tool is missing has this as its status.
Skipped == -1

\* A status is 0, or stands for the others here with 1, or is a probe's.
Failing(status) == status \notin {0, Skipped}

\* run_codec_hardening_ci sets it for its probe.
Hardened(r) == hardened \/ script[r] = "ci"

NoLines == [r \in Starter |-> << >>]

Init ==
    /\ \E set \in Settings : /\ script = set.script /\ ProbesInit(set.faults)
                              /\ hardened = set.hardened /\ server = set.server
    /\ now = 1
    /\ stamp = [r \in Starter |-> 0]
    /\ stage = [r \in Starter |-> "new"]
    /\ statuses = [r \in Starter |-> << >>]
    /\ code = [r \in Starter |-> 0]
    /\ summary = [second \in 1 .. MaxTime |-> NoLines]

Moves(r, from, to) == stage[r] = from /\ stage' = [stage EXCEPT ![r] = to]

Done(r, status) == statuses' = [statuses EXCEPT ![r] = Append(@, status)]

Upcoming(r) == Steps(r)[Len(statuses[r]) + 1]
HasNext(r) == Len(statuses[r]) < Len(Steps(r))

\* STAMP, and a directory that may be there already.
Start(r) ==
    /\ Moves(r, "new", "stamped")
    /\ stamp' = [stamp EXCEPT ![r] = now]
    /\ UNCHANGED <<faults, probes, setting, now, statuses, code, summary>>

\* The head of the summary, which replaces the file.
WriteHead(r) ==
    /\ Moves(r, "stamped", IF script[r] = "fuzz" THEN "tool" ELSE "step")
    /\ summary' = [summary EXCEPT ![stamp[r]] = [NoLines EXCEPT ![r] = <<0>>]]
    /\ UNCHANGED <<faults, probes, setting, now, stamp, statuses, code>>

\* Mutant: > for >>.
LineOver(lines, r, line) == [NoLines EXCEPT ![r] = <<line>>]

\* >>"$SUMMARY"
LineAfter(lines, r, line) == [lines EXCEPT ![r] = Append(@, line)]

\* Without cargo-fuzz there is a line that says so, and success.
LookForFuzz(r) ==
    /\ \/ Moves(r, "tool", "step") /\ UNCHANGED summary
       \/ /\ Moves(r, "tool", "ended")
          /\ summary' = [summary EXCEPT ![stamp[r]] = LineAfter(@, r, 1)]
    /\ UNCHANGED <<faults, probes, setting, now, stamp, statuses, code>>

\* A probe is built, if it can be, and runs; if it cannot, that is its status.
RunProbe(r) ==
    /\ HasNext(r) /\ Upcoming(r) \in Names
    /\ \/ /\ Moves(r, "step", "probe")
          /\ probes' = [probes EXCEPT ![r] = Launched(Upcoming(r), Hardened(r))]
          /\ UNCHANGED statuses
       \/ /\ Moves(r, "step", "line") /\ Done(r, 101)
          /\ UNCHANGED probes
    /\ UNCHANGED <<faults, setting, now, stamp, code, summary>>

WaitForProbe(r) ==
    /\ probes[r].at = "out"
    /\ Moves(r, "probe", "line") /\ Done(r, probes[r].exit)
    /\ probes' = [probes EXCEPT ![r] = Idle]
    /\ UNCHANGED <<faults, setting, now, stamp, code, summary>>

\* Everything else is a command whose status is looked at, or is skipped.
RunCommand(r) ==
    /\ HasNext(r) /\ Upcoming(r) \notin Names
    /\ Moves(r, "step", "line")
    /\ \E status \in IF Upcoming(r) = "skipped" THEN {Skipped}
                     ELSE IF Upcoming(r) \in {"audit", "deny", "online"}
                       THEN {0, 1, Skipped} ELSE {0, 1} : Done(r, status)
    /\ UNCHANGED <<faults, probes, setting, now, stamp, code, summary>>

\* Mutant: status=$? whether or not the step failed.
CodeLast(old, status) == status

\* ... || status=$?
CodeAfter(old, status) == IF Failing(status) THEN status ELSE old

\* The step's line; only the CI gate keeps its status, and only the resource
\* checks stop, where the build failed.
WriteLine(r) ==
    LET status == Last(statuses[r])
    IN  /\ Moves(r, "line", IF script[r] = "resource" /\ Len(statuses[r]) = 1
                               /\ Failing(status) THEN "ended" ELSE "step")
        /\ summary' = [summary EXCEPT
                         ![stamp[r]] = LineAfter(@, r, Len(statuses[r]))]
        /\ code' = [code EXCEPT ![r] = IF script[r] = "ci"
                                         THEN CodeAfter(@, status) ELSE 0]
        /\ UNCHANGED <<faults, probes, setting, now, stamp, statuses>>

End(r) ==
    /\ ~HasNext(r) /\ Moves(r, "step", "ended")
    /\ UNCHANGED <<faults, probes, setting, now, stamp, statuses, code, summary>>

Tick == /\ now < MaxTime /\ now' = now + 1
        /\ UNCHANGED <<faults, probes, setting, stamp, stage, statuses, code,
                       summary>>

Probe(r) == /\ stage[r] = "probe" /\ ProbeStep(r)
            /\ UNCHANGED <<setting, now, stamp, stage, statuses, code, summary>>

Next == \/ \E r \in Starter :
             Start(r) \/ WriteHead(r) \/ LookForFuzz(r) \/ RunProbe(r)
             \/ Probe(r) \/ WaitForProbe(r) \/ RunCommand(r) \/ WriteLine(r)
             \/ End(r)
        \/ Tick

Spec == Init /\ [][Next]_vars

-----------------------------------------------------------------------------
(* Properties.                                                              *)

Ended(r) == stage[r] = "ended"

\* What hbb_common has of a probe's findings is known to whoever relies on an
\* exit status: in hardened mode a probe that reports says 0 only when its
\* cases found nothing, and never 2 in the other mode; and the CI gate passes
\* only when every step did, with the status of the last that failed
\* otherwise.
VerdictReachesTheGate ==
    \A r \in Starter :
        /\ \A k \in DOMAIN statuses[r] :
             LET name == Steps(r)[k]
             IN  /\ (statuses[r][k] = 0 /\ Hardened(r) /\ name \in Names
                       /\ Reports(name)) => ToSet(Cases(name)) \cap faults = {}
                 /\ statuses[r][k] = 2 => Hardened(r)
        /\ (script[r] = "ci" /\ Ended(r)) =>
             LET failed == {k \in DOMAIN statuses[r] : Failing(statuses[r][k])}
             IN  IF failed = {} THEN code[r] = 0
                 ELSE \E last \in failed : /\ code[r] = statuses[r][last]
                                           /\ \A k \in failed : k <= last

\* Two runners of one second lose the lines of the first up to the head of the
\* second and no others: what a runner still has in its summary are the last
\* lines it wrote, in order, and all of them when it has the second to itself.
SummaryKeepsLines ==
    \A r \in Starter :
        (stage[r] \in {"step", "ended"} /\ statuses[r] # << >>) =>
            LET mine == summary[stamp[r]][r]
                written == Len(statuses[r])
            IN  /\ \A k \in DOMAIN mine : mine[k] = written - Len(mine) + k
                /\ Len(mine) < written + 1 =>
                       \E q \in Starter \ {r} : stamp[q] = stamp[r]

\* What the baseline promises (SAFETY_BASELINE_20260425.md:109, "Make known
\* unsafe behavior fail CI after hardening", of these two scripts run with
\* EXPECT_HARDENED=1): a runner whose probe reports a finding fails.
HardenedRunFails ==
    \A r \in Starter :
        (Ended(r) /\ hardened /\ script[r] \in {"dynamic", "resource"}
           /\ 2 \in ToSet(statuses[r])) => code[r] # 0

=============================================================================
