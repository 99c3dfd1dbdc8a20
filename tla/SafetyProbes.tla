---------------------------- MODULE SafetyProbes -----------------------------
(***************************************************************************)
(* The safety probes, src/dynamic/safety_probes: small programs that try    *)
(* hbb_common out, case by case, and report what they find by their exit    *)
(* status.  A case sets something up, asks the library, and cleans up; what *)
(* it needs may not be there, and what it made may stay.                    *)
(*                                                                          *)
(* hbb_common is not in the repository: here it has some of the known       *)
(* findings, the same ones whenever it is asked.                            *)
(***************************************************************************)
EXTENDS Integers, Sequences, SequencesExt

CONSTANT Starter    \* whoever runs a probe, one at a time

VARIABLES
    faults,     \* the findings hbb_common has
    probes      \* the probe each starter runs, or Idle

Names == {"ipc_path", "codec_header_alloc", "file_transfer_path",
          "zstd_expansion", "online_request_client"}

\* The cases of a probe, in order.  Those of file_transfer_path that need no
\* set-up are one.
Cases(name) ==
    CASE name = "ipc_path"           -> <<"normal", "service", "symlink">>
      [] name = "codec_header_alloc" -> <<"alloc">>
      [] name = "file_transfer_path" -> <<"names", "link">>
      [] name = "zstd_expansion"     -> <<"expansion">>
      [] OTHER                       -> <<"online">>

\* What a case makes before it asks the library, in this order.  It panics
\* where one of these cannot be made ...
Expected(c) == CASE c = "normal"  -> <<"runtime_root">>
                 [] c = "symlink" -> <<"runtime_root", "target", "app_link">>
                 [] OTHER         -> << >>

\* ... and goes on without these; the link is made among the downloads.
Wanted(c, made) ==
    CASE c = "names" -> {"downloads"}
      [] c = "link"  -> {"outside"} \cup
                        (IF "downloads" \in made THEN {"link"} ELSE {})
      [] OTHER       -> {}

\* What the library makes while it is asked, if it does.
MadeByLibrary(c) == IF c \in {"normal", "service"} THEN {"ipc_dir"} ELSE {}

\* These cases point XDG_RUNTIME_DIR at their own directory.
OwnRuntime(c) == c \in {"normal", "symlink"}

Idle == [name |-> "none", case |-> 0, at |-> "out", made |-> {}, kept |-> {},
         env |-> "caller", verdict |-> FALSE, hardened |-> FALSE, exit |-> 0]

Case(p) == Cases(p.name)[p.case]

ProbesInit(found) ==
    /\ faults = found
    /\ probes = [s \in Starter |-> Idle]

Launched(name, hardened) == [Idle EXCEPT !.name = name, !.case = 1,
                                         !.at = "set_up", !.hardened = hardened]

Step(s, at, p) == /\ probes[s].at = at
                  /\ probes' = [probes EXCEPT ![s] = p]
                  /\ UNCHANGED faults

\* Directories and links are made, as far as that works; `expect` panics.
SetUp(s) ==
    LET p == probes[s]
        c == Case(p)
    IN  \/ \E wanted \in {{}, Wanted(c, p.made)} :
             Step(s, "set_up",
                  [p EXCEPT !.made = @ \cup ToSet(Expected(c)) \cup wanted,
                            !.env = IF OwnRuntime(c) THEN "own" ELSE @,
                            !.at = "ask"])
        \/ \E k \in DOMAIN Expected(c) :
             Step(s, "set_up",
                  [p EXCEPT !.made = @ \cup ToSet(SubSeq(Expected(c), 1, k - 1)),
                            !.at = "out", !.exit = 101])

\* Mutant: the verdict of the last case stands.
JoinedLast(before, found) == found

\* One finding is enough.
Joined(before, found) == before \/ found

\* The finding is there, or what would show it is not.
Found(c, made) ==
    \/ c \in faults
    \/ MadeByLibrary(c) # {} /\ "ipc_dir" \notin made
    \/ c = "link" /\ "link" \notin made

\* A case asks the library.  The client for a running server answers for
\* itself: a server that cannot be reached, stays silent for five seconds or
\* sends nonsense is an error, one that closes the connection is not.
Ask(s) ==
    LET p == probes[s]
        c == Case(p)
    IN  IF c = "online"
          THEN \E error \in BOOLEAN :
                 Step(s, "ask", [p EXCEPT !.at = "out",
                                          !.exit = IF error THEN 1 ELSE 0])
          ELSE \E made \in SUBSET MadeByLibrary(c) :
                 Step(s, "ask",
                      [p EXCEPT !.made = @ \cup made,
                                !.verdict = Joined(@, Found(c, made)),
                                !.at = "clean_up"])

\* Mutant: the environment stays as the case set it.
CleanUpInOwn(s) ==
    LET p == probes[s]
        last == p.case = Len(Cases(p.name))
        gone == IF p.name = "file_transfer_path" /\ ~last THEN {} ELSE p.made
    IN  \E stuck \in {{}, gone} :
          Step(s, "clean_up",
               [p EXCEPT !.made = @ \ (gone \ stuck), !.kept = @ \cup stuck,
                         !.case = IF last THEN @ ELSE @ + 1,
                         !.at = IF last THEN "return" ELSE "set_up"])

\* The case removes what was made, as far as that works, and the environment
\* is as it was; file_transfer_path cleans up after its last case.
CleanUp(s) ==
    LET p == probes[s]
        last == p.case = Len(Cases(p.name))
        gone == IF p.name = "file_transfer_path" /\ ~last THEN {} ELSE p.made
    IN  \E stuck \in {{}, gone} :
          Step(s, "clean_up",
               [p EXCEPT !.made = @ \ (gone \ stuck), !.kept = @ \cup stuck,
                         !.env = "caller",
                         !.case = IF last THEN @ ELSE @ + 1,
                         !.at = IF last THEN "return" ELSE "set_up"])

\* zstd_expansion prints what it found and succeeds.
Reports(name) == name # "zstd_expansion"

Return(s) ==
    LET p == probes[s]
    IN  Step(s, "return",
             [p EXCEPT !.at = "out",
                       !.exit = IF p.verdict /\ p.hardened /\ Reports(p.name)
                                  THEN 2 ELSE 0])

ProbeStep(s) == SetUp(s) \/ Ask(s) \/ CleanUp(s) \/ Return(s)

\* A probe that returned has removed all it made, unless it was refused; and
\* the library, when asked by a case that does not choose a runtime directory
\* of its own, is asked in the environment of the caller, not of the case
\* before.
ProbeLeavesNothing ==
    \A s \in Starter :
        LET p == probes[s]
        IN  /\ (p.at = "out" /\ p.exit # 101) => p.made \subseteq p.kept
            /\ p.at = "ask" => (p.env = "own" <=> OwnRuntime(Case(p)))

=============================================================================
