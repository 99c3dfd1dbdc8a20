----------------------------- MODULE SafetyProofs ----------------------------
(* Theorems about the safety probes and the scripts that run them: for any   *)
(* number of runners, any scripts and any findings of the library.           *)
EXTENDS SafetyRunners, SequenceTheorems, TLAPS

-----------------------------------------------------------------------------
(* The inductive invariant.                                                 *)

Places == {"set_up", "ask", "clean_up", "return", "out"}
Stages == {"new", "stamped", "tool", "step", "probe", "line", "ended"}
Exits == {0, 1, 2, 101}

CaseNames == {"normal", "service", "symlink", "alloc", "names", "link",
              "expansion", "online"}
Things == {"runtime_root", "target", "app_link", "downloads", "outside", "link",
           "ipc_dir"}

Probes == [name : Names \cup {"none"}, case : Nat, at : Places,
           made : SUBSET Things, kept : SUBSET Things,
           env : {"caller", "own"}, verdict : BOOLEAN, hardened : BOOLEAN,
           exit : Exits]

\* A probe that runs is in one of its cases.
ProbeType(p) ==
    /\ p \in Probes
    /\ p.at # "out" => /\ p.name \in Names
                       /\ p.case \in 1 .. Len(Cases(p.name))

\* Between its cases a probe has removed what it made, or been refused, but for
\* the files file_transfer_path keeps to the end; the client makes nothing.
Tidy(p) ==
    /\ (p.at = "set_up" /\ (p.name # "file_transfer_path" \/ p.case = 1)) =>
           p.made \subseteq p.kept
    /\ p.at = "return" => p.made \subseteq p.kept
    /\ p.name = "online_request_client" => p.made = {}
    /\ (p.at = "out" /\ p.exit # 101) => p.made \subseteq p.kept

\* A case sees the environment of the caller, but for its own choice.
OwnEnvironment(p) ==
    /\ p.at = "set_up" => p.env = "caller"
    /\ p.at = "ask" => (p.env = "own" <=> OwnRuntime(Case(p)))

\* The findings of the cases so far are in the verdict, and the verdict in the
\* exit status.
Judged(p) ==
    /\ p.at \in {"set_up", "ask"} =>
           \A k \in 1 .. p.case - 1 : Cases(p.name)[k] \in faults => p.verdict
    /\ p.at = "clean_up" =>
           \A k \in 1 .. p.case : Cases(p.name)[k] \in faults => p.verdict
    /\ p.at = "return" => /\ p.case = Len(Cases(p.name))
                          /\ \A k \in 1 .. p.case :
                               Cases(p.name)[k] \in faults => p.verdict
    /\ (p.at = "out" /\ p.name \in Names /\ Reports(p.name) /\ p.hardened
          /\ p.exit = 0) => ToSet(Cases(p.name)) \cap faults = {}
    /\ (p.at = "out" /\ p.exit = 2) => p.hardened

ProbeOK(p) == ProbeType(p) /\ Tidy(p) /\ OwnEnvironment(p) /\ Judged(p)

ProbesInv == /\ probes \in [Starter -> Probes]
             /\ \A s \in Starter : ProbeOK(probes[s])

\* What the runners are at.
RunnerTypes ==
    /\ script \in [Starter -> Scripts]
    /\ hardened \in BOOLEAN /\ server \in BOOLEAN /\ "online" \notin faults
    /\ now \in 1 .. MaxTime
    /\ stamp \in [Starter -> 0 .. MaxTime]
    /\ stage \in [Starter -> Stages]
    /\ statuses \in [Starter -> Seq(Int)]
    /\ code \in [Starter -> Int]
    /\ summary \in [1 .. MaxTime -> [Starter -> Seq(Nat)]]

\* A runner has a stamp once it started, has run something when it writes a
\* line, and waits for the probe of its step in its mode.
Following(r) ==
    /\ stage[r] = "new" <=> stamp[r] = 0
    /\ stage[r] \in {"new", "stamped", "tool"} => statuses[r] = << >>
    /\ stage[r] = "line" => statuses[r] # << >>
    /\ stage[r] = "probe" => /\ probes[r].name = Upcoming(r)
                             /\ probes[r].name \in Names
                             /\ probes[r].hardened = Hardened(r)

\* What a status says of its step.
Honest(name, strict, status) ==
    /\ (status = 0 /\ strict /\ name \in Names /\ Reports(name)) =>
           ToSet(Cases(name)) \cap faults = {}
    /\ status = 2 => strict

Told(r) == \A k \in 1 .. Len(statuses[r]) :
               Honest(Steps(r)[k], Hardened(r), statuses[r][k])

\* How many lines of steps are written.
Lines(r) == IF stage[r] = "line" THEN Len(statuses[r]) - 1 ELSE Len(statuses[r])

\* The exit status is that of the last failure among the first n steps.
GateOf(c, told, n) ==
    \/ c = 0 /\ \A k \in 1 .. n : ~Failing(told[k])
    \/ \E last \in 1 .. n : /\ Failing(told[last]) /\ c = told[last]
                            /\ \A k \in 1 .. n : Failing(told[k]) => k <= last

Gate(r) == script[r] = "ci" => GateOf(code[r], statuses[r], Lines(r))

\* What there is of the lines 0 .. n in the summary are the last ones.
KeptOf(mine, n, shared) ==
    /\ Len(mine) <= n + 1
    /\ \A k \in 1 .. Len(mine) : mine[k] = n - Len(mine) + k
    /\ Len(mine) < n + 1 => shared

Mine(r) == summary[stamp[r]][r]
Shared(r) == \E q \in Starter \ {r} : stamp[q] = stamp[r]

\* A runner that ended before its first step wrote something else.
Writing(r) == stage[r] \notin {"new", "stamped"}
              /\ ~(stage[r] = "ended" /\ statuses[r] = << >>)

Kept(r) == Writing(r) => KeptOf(Mine(r), Lines(r), Shared(r))

RunnerOK(r) == Following(r) /\ Told(r) /\ Gate(r) /\ Kept(r)

SafetyInv ==
    /\ ProbesInv /\ RunnerTypes
    /\ \A r \in Starter : RunnerOK(r)

-----------------------------------------------------------------------------
(* The probes.                                                              *)

\* What the cases are and what they need.
LEMMA CaseFacts ==
    ASSUME NEW name \in Names
    PROVE  /\ Cases(name) \in Seq(CaseNames) /\ Len(Cases(name)) \in Nat \ {0}
           /\ DOMAIN Cases(name) = 1 .. Len(Cases(name))
           /\ \A k \in 1 .. Len(Cases(name)) :
                /\ Cases(name)[k] \in CaseNames
                /\ Cases(name)[k] = "online" <=> name = "online_request_client"
<1>1. Cases(name) \in Seq(CaseNames) /\ Len(Cases(name)) \in Nat \ {0}
  <2>1. CASE name = "ipc_path"
    <3>1. Cases(name) = <<"normal", "service", "symlink">>
      BY <2>1 DEF Cases
    <3> QED BY <3>1 DEF CaseNames
  <2>2. CASE name = "file_transfer_path"
    <3>1. Cases(name) = <<"names", "link">>
      BY <2>2 DEF Cases
    <3> QED BY <3>1 DEF CaseNames
  <2>3. CASE name \in {"codec_header_alloc", "zstd_expansion",
                      "online_request_client"}
    <3>1. Cases(name) \in {<<"alloc">>, <<"expansion">>, <<"online">>}
      BY <2>3 DEF Cases
    <3> QED BY <3>1 DEF CaseNames
  <2> QED BY <2>1, <2>2, <2>3 DEF Names
<1>2. \A k \in 1 .. Len(Cases(name)) :
        Cases(name)[k] = "online" <=> name = "online_request_client"
  BY DEF Names, Cases
<1> QED BY <1>1, <1>2, ElementOfSeq, LenProperties

LEMMA NeedFacts ==
    ASSUME NEW c \in CaseNames, NEW made
    PROVE  /\ Expected(c) \in Seq(Things)
           /\ ToSet(Expected(c)) \subseteq Things
           /\ Wanted(c, made) \subseteq Things
           /\ MadeByLibrary(c) \subseteq Things
           /\ c = "online" => Expected(c) = << >> /\ Wanted(c, made) = {}
<1>1. Expected(c) \in Seq(Things)
  <2>1. \/ Expected(c) = << >> \/ Expected(c) = <<"runtime_root">>
        \/ Expected(c) = <<"runtime_root", "target", "app_link">>
    BY DEF Expected
  <2>2. CASE Expected(c) = << >>
    BY <2>2, EmptySeq
  <2>3. CASE Expected(c) = <<"runtime_root">>
    BY <2>3 DEF Things
  <2>4. CASE Expected(c) = <<"runtime_root", "target", "app_link">>
    BY <2>4 DEF Things
  <2> QED BY <2>1, <2>2, <2>3, <2>4
<1>2. ToSet(Expected(c)) \subseteq Things
  BY <1>1, ElementOfSeq, LenProperties DEF ToSet
<1>3. Wanted(c, made) \subseteq Things /\ MadeByLibrary(c) \subseteq Things
  BY DEF Wanted, MadeByLibrary, Things
<1>4. c = "online" => Expected(c) = << >> /\ Wanted(c, made) = {}
  BY DEF Wanted, Expected
<1> QED BY <1>1, <1>2, <1>3, <1>4

\* The case of a probe that runs.
LEMMA CaseOfProbe ==
    ASSUME NEW p, ProbeType(p), p.at # "out"
    PROVE  /\ Case(p) \in CaseNames
           /\ Case(p) = "online" <=> p.name = "online_request_client"
           /\ p \in Probes /\ p.name \in Names /\ p.case \in Nat \ {0}
           /\ p.case <= Len(Cases(p.name)) /\ Len(Cases(p.name)) \in Nat
BY CaseFacts DEF ProbeType, Case

\* A probe goes from p to q.
Becomes(s, q) == /\ probes' = [probes EXCEPT ![s] = q] /\ faults' = faults
                 /\ q.name = probes[s].name /\ q.hardened = probes[s].hardened
                 /\ ProbeOK(q)

LEMMA SetUpStep ==
    ASSUME ProbesInv, NEW s \in Starter, SetUp(s)
    PROVE  \E q : Becomes(s, q)
<1> DEFINE p == probes[s]
           c == Case(p)
<1>1. ProbeOK(p) /\ p.at = "set_up"
  BY DEF ProbesInv, SetUp, Step
<1>2. /\ c \in CaseNames /\ (c = "online" <=> p.name = "online_request_client")
      /\ p \in Probes /\ p.name \in Names /\ p.case \in Nat
      /\ p.case \in 1 .. Len(Cases(p.name))
  BY <1>1, CaseOfProbe DEF ProbeOK, ProbeType
<1>3. CASE \E wanted \in {{}, Wanted(c, p.made)} :
             Step(s, "set_up",
                  [p EXCEPT !.made = @ \cup ToSet(Expected(c)) \cup wanted,
                            !.env = IF OwnRuntime(c) THEN "own" ELSE @,
                            !.at = "ask"])
  <2>1. PICK wanted \in {{}, Wanted(c, p.made)} :
             Step(s, "set_up",
                  [p EXCEPT !.made = @ \cup ToSet(Expected(c)) \cup wanted,
                            !.env = IF OwnRuntime(c) THEN "own" ELSE @,
                            !.at = "ask"])
    BY <1>3
  <2> DEFINE new == p.made \cup ToSet(Expected(c)) \cup wanted
             env == IF OwnRuntime(c) THEN "own" ELSE p.env
             q == [p EXCEPT !.made = new, !.env = env, !.at = "ask"]
  <2>2. new \in SUBSET Things /\ env \in {"caller", "own"}
    BY <1>2, NeedFacts DEF Probes
  <2>3. p.name = "online_request_client" => new = {}
    <3>1. ToSet(<< >>) = {}
      BY DEF ToSet
    <3> QED BY <1>1, <1>2, <3>1, NeedFacts DEF ProbeOK, Tidy
  <2>4. env = "own" <=> OwnRuntime(c)
    BY <1>1 DEF ProbeOK, OwnEnvironment
  <2>5. probes' = [probes EXCEPT ![s] = q] /\ faults' = faults
    BY <2>1 DEF Step
  <2>6. ProbeType(p) /\ OwnEnvironment(p) /\ Judged(p)
    BY <1>1 DEF ProbeOK
  <2> HIDE DEF p, new, env
  <2>7. /\ q \in Probes /\ q.at = "ask" /\ q.name = p.name /\ q.case = p.case
        /\ q.made = new /\ q.env = env /\ q.verdict = p.verdict
        /\ q.hardened = p.hardened
    BY <1>2, <2>2 DEF Probes, Places
  <2> HIDE DEF q
  <2>8. Case(q) = c
    BY <2>7 DEF Case
  <2> HIDE DEF c
  <2>9. ProbeType(q)
    BY <1>2, <2>7 DEF ProbeType
  <2>10. Tidy(q) /\ OwnEnvironment(q)
    BY <2>3, <2>4, <2>7, <2>8 DEF Tidy, OwnEnvironment
  <2>11. Judged(q)
    BY <1>1, <2>6, <2>7 DEF Judged
  <2> QED BY <2>5, <2>7, <2>9, <2>10, <2>11 DEF Becomes, ProbeOK, p
<1>4. CASE \E k \in DOMAIN Expected(c) :
             Step(s, "set_up",
                  [p EXCEPT !.made = @ \cup ToSet(SubSeq(Expected(c), 1, k - 1)),
                            !.at = "out", !.exit = 101])
  <2>1. PICK k \in DOMAIN Expected(c) :
             Step(s, "set_up",
                  [p EXCEPT !.made = @ \cup ToSet(SubSeq(Expected(c), 1, k - 1)),
                            !.at = "out", !.exit = 101])
    BY <1>4
  <2> DEFINE e == Expected(c)
             some == SubSeq(e, 1, k - 1)
             new == p.made \cup ToSet(some)
             q == [p EXCEPT !.made = new, !.at = "out", !.exit = 101]
  <2>2. e \in Seq(Things) /\ DOMAIN e = 1 .. Len(e) /\ Len(e) \in Nat
        /\ k \in 1 .. Len(e) /\ c # "online"
    <3>1. e \in Seq(Things)
      BY <1>2, NeedFacts
    <3>2. c # "online"
      BY <1>2, NeedFacts
    <3> QED BY <3>1, <3>2, LenProperties
  <2>3. new \in SUBSET Things
    <3>1. \A i \in 1 .. k - 1 : e[i] \in Things
      BY <2>2, ElementOfSeq
    <3> HIDE DEF e
    <3>2. some \in Seq(Things)
      BY <2>2, <3>1, SubSeqProperties
    <3> HIDE DEF some
    <3>3. ToSet(some) \subseteq Things
      BY <3>2, ElementOfSeq, LenProperties DEF ToSet
    <3> QED BY <1>2, <3>3 DEF Probes
  <2>5. probes' = [probes EXCEPT ![s] = q] /\ faults' = faults
    BY <2>1 DEF Step
  <2>6. p.name # "online_request_client"
    BY <1>2, <2>2
  <2> HIDE DEF p, new, c
  <2>7. /\ q \in Probes /\ q.at = "out" /\ q.name = p.name
        /\ q.exit = 101 /\ q.hardened = p.hardened
    BY <1>2, <2>3 DEF Probes, Places, Exits
  <2> HIDE DEF q
  <2>8. ProbeOK(q)
    BY <2>6, <2>7 DEF ProbeOK, ProbeType, Tidy, OwnEnvironment, Judged
  <2> QED BY <2>5, <2>7, <2>8 DEF Becomes, p
<1> QED BY <1>3, <1>4 DEF SetUp

LEMMA AskStep ==
    ASSUME ProbesInv, "online" \notin faults, NEW s \in Starter, Ask(s)
    PROVE  \E q : Becomes(s, q)
<1> DEFINE p == probes[s]
           c == Case(p)
<1>1. ProbeOK(p) /\ p.at = "ask"
  BY DEF ProbesInv, Ask, Step
<1>2. /\ c \in CaseNames /\ (c = "online" <=> p.name = "online_request_client")
      /\ p \in Probes /\ p.name \in Names /\ p.case \in Nat \ {0}
      /\ p.case \in 1 .. Len(Cases(p.name))
  BY <1>1, CaseOfProbe DEF ProbeOK, ProbeType
<1>3. CASE c = "online"
  <2>1. PICK error \in BOOLEAN :
          Step(s, "ask", [p EXCEPT !.at = "out",
                                   !.exit = IF error THEN 1 ELSE 0])
    BY <1>3 DEF Ask
  <2> DEFINE exit == IF error THEN 1 ELSE 0
             q == [p EXCEPT !.at = "out", !.exit = exit]
  <2>2. probes' = [probes EXCEPT ![s] = q] /\ faults' = faults
    BY <2>1 DEF Step
  <2>3. p.made = {} /\ p.name = "online_request_client"
    BY <1>1, <1>2, <1>3 DEF ProbeOK, Tidy
  <2>4. exit \in {0, 1}
    OBVIOUS
  <2> HIDE DEF p, exit, c
  <2>5. /\ q \in Probes /\ q.at = "out" /\ q.name = p.name /\ q.made = {}
        /\ q.exit = exit /\ q.hardened = p.hardened
    BY <1>2, <2>3, <2>4 DEF Probes, Places, Exits
  <2> HIDE DEF q
  <2>6. ToSet(Cases(q.name)) \cap faults = {}
    <3>1. Cases(q.name) = <<"online">>
      BY <2>3, <2>5 DEF Cases
    <3> QED BY <3>1 DEF ToSet
  <2>7. ProbeOK(q)
    BY <2>4, <2>5, <2>6
       DEF ProbeOK, ProbeType, Tidy, OwnEnvironment, Judged
  <2> QED BY <2>2, <2>5, <2>7 DEF Becomes, p
<1>4. CASE c # "online"
  <2>1. PICK made \in SUBSET MadeByLibrary(c) :
          Step(s, "ask", [p EXCEPT !.made = @ \cup made,
                                   !.verdict = Joined(@, Found(c, made)),
                                   !.at = "clean_up"])
    BY <1>4 DEF Ask
  <2> DEFINE new == p.made \cup made
             verdict == Joined(p.verdict, Found(c, made))
             q == [p EXCEPT !.made = new, !.verdict = verdict, !.at = "clean_up"]
  <2>2. probes' = [probes EXCEPT ![s] = q] /\ faults' = faults
    BY <2>1 DEF Step
  <2>3. new \in SUBSET Things
    BY <1>2, NeedFacts DEF Probes
  <2>4. verdict \in BOOLEAN /\ (p.verdict => verdict) /\ (c \in faults => verdict)
    BY <1>2 DEF Joined, Found, Probes
  <2>5. ProbeType(p) /\ Judged(p) /\ c = Cases(p.name)[p.case]
    BY <1>1 DEF ProbeOK, Case
  <2> HIDE DEF p, new, verdict, c
  <2>6. /\ q \in Probes /\ q.at = "clean_up" /\ q.name = p.name
        /\ q.case = p.case /\ q.verdict = verdict /\ q.hardened = p.hardened
    BY <1>2, <2>3, <2>4 DEF Probes, Places
  <2> HIDE DEF q
  <2>7. ProbeType(q) /\ Tidy(q) /\ OwnEnvironment(q)
    BY <1>2, <1>4, <2>5, <2>6 DEF ProbeType, Tidy, OwnEnvironment
  <2>8. Judged(q)
    <3>1. ASSUME NEW k \in 1 .. p.case, Cases(p.name)[k] \in faults
          PROVE  verdict
      <4>1. CASE k = p.case
        BY <2>4, <2>5, <3>1, <4>1
      <4>2. CASE k \in 1 .. p.case - 1
        BY <1>1, <2>4, <2>5, <3>1, <4>2 DEF Judged
      <4> QED BY <1>2, <4>1, <4>2
    <3> QED BY <2>6, <3>1 DEF Judged
  <2> QED BY <2>2, <2>6, <2>7, <2>8 DEF Becomes, ProbeOK, p
<1> QED BY <1>3, <1>4

LEMMA CleanUpStep ==
    ASSUME ProbesInv, NEW s \in Starter, CleanUp(s)
    PROVE  \E q : Becomes(s, q)
<1> DEFINE p == probes[s]
           last == p.case = Len(Cases(p.name))
           gone == IF p.name = "file_transfer_path" /\ ~last THEN {} ELSE p.made
<1>1. ProbeOK(p) /\ p.at = "clean_up"
  BY DEF ProbesInv, CleanUp, Step
<1>2. /\ p \in Probes /\ p.name \in Names /\ p.case \in Nat \ {0}
      /\ p.case <= Len(Cases(p.name)) /\ Len(Cases(p.name)) \in Nat
      /\ p.made \in SUBSET Things /\ p.kept \in SUBSET Things
      /\ p.name = "online_request_client" => p.made = {}
      /\ \A k \in 1 .. p.case : Cases(p.name)[k] \in faults => p.verdict
  <2>1. ProbeType(p) /\ Tidy(p) /\ Judged(p) /\ p.at # "out"
    BY <1>1 DEF ProbeOK
  <2> HIDE DEF p
  <2>2. /\ p \in Probes /\ p.name \in Names /\ p.case \in Nat \ {0}
        /\ p.case <= Len(Cases(p.name)) /\ Len(Cases(p.name)) \in Nat
    BY <2>1, CaseOfProbe
  <2>3. p.made \in SUBSET Things /\ p.kept \in SUBSET Things
    BY <2>2 DEF Probes
  <2>4. /\ p.name = "online_request_client" => p.made = {}
        /\ \A k \in 1 .. p.case : Cases(p.name)[k] \in faults => p.verdict
    BY <1>1, <2>1 DEF Tidy, Judged
  <2> QED BY <2>2, <2>3, <2>4
<1>3. PICK stuck \in {{}, gone} :
        Step(s, "clean_up",
             [p EXCEPT !.made = @ \ (gone \ stuck), !.kept = @ \cup stuck,
                       !.env = "caller",
                       !.case = IF last THEN @ ELSE @ + 1,
                       !.at = IF last THEN "return" ELSE "set_up"])
  BY DEF CleanUp
<1> DEFINE made == p.made \ (gone \ stuck)
           kept == p.kept \cup stuck
           case == IF last THEN p.case ELSE p.case + 1
           at == IF last THEN "return" ELSE "set_up"
           q == [p EXCEPT !.made = made, !.kept = kept, !.env = "caller",
                          !.case = case, !.at = at]
<1>4. probes' = [probes EXCEPT ![s] = q] /\ faults' = faults
  BY <1>3 DEF Step
<1>5. /\ made \in SUBSET Things /\ kept \in SUBSET Things
      /\ case \in Nat /\ at \in {"return", "set_up"}
  BY <1>2
<1>6. (last \/ p.name # "file_transfer_path") => made \subseteq kept
  OBVIOUS
<1>7. p.name = "online_request_client" => made = {}
  BY <1>2
<1>8. /\ last => case = Len(Cases(p.name)) /\ case = p.case /\ at = "return"
      /\ ~last => case \in 2 .. Len(Cases(p.name)) /\ case - 1 = p.case
                  /\ at = "set_up"
  BY <1>2
<1> HIDE DEF p, made, kept, case, at, last
<1>9. /\ q \in Probes /\ q.at = at /\ q.name = p.name /\ q.case = case
      /\ q.made = made /\ q.kept = kept /\ q.env = "caller"
      /\ q.verdict = p.verdict /\ q.hardened = p.hardened
  BY <1>2, <1>5 DEF Probes, Places
<1> HIDE DEF q
<1>10. CASE last
  <2>1. case = Len(Cases(p.name)) /\ case = p.case /\ at = "return"
        /\ made \subseteq kept
    BY <1>6, <1>8, <1>10
  <2>2. ProbeType(q)
    BY <1>2, <1>9, <2>1 DEF ProbeType
  <2>3. Tidy(q) /\ OwnEnvironment(q)
    BY <1>7, <1>9, <2>1 DEF Tidy, OwnEnvironment
  <2>4. Judged(q)
    BY <1>2, <1>9, <2>1 DEF Judged
  <2> QED BY <1>4, <1>9, <2>2, <2>3, <2>4 DEF Becomes, ProbeOK, p
<1>11. CASE ~last
  <2>1. case \in 2 .. Len(Cases(p.name)) /\ case - 1 = p.case /\ at = "set_up"
    BY <1>8, <1>11
  <2>2. ProbeType(q)
    BY <1>2, <1>9, <2>1 DEF ProbeType
  <2>3. Tidy(q) /\ OwnEnvironment(q)
    BY <1>2, <1>6, <1>7, <1>9, <2>1 DEF Tidy, OwnEnvironment
  <2>4. Judged(q)
    BY <1>2, <1>9, <2>1 DEF Judged
  <2> QED BY <1>4, <1>9, <2>2, <2>3, <2>4 DEF Becomes, ProbeOK, p
<1> QED BY <1>10, <1>11

LEMMA ReturnStep ==
    ASSUME ProbesInv, NEW s \in Starter, Return(s)
    PROVE  \E q : Becomes(s, q)
<1> DEFINE p == probes[s]
           exit == IF p.verdict /\ p.hardened /\ Reports(p.name) THEN 2 ELSE 0
           q == [p EXCEPT !.at = "out", !.exit = exit]
<1>1. ProbeOK(p) /\ p.at = "return"
  BY DEF ProbesInv, Return, Step
<1>2. /\ p \in Probes /\ p.name \in Names /\ p.case = Len(Cases(p.name))
      /\ p.made \subseteq p.kept
      /\ p.name = "online_request_client" => p.made = {}
      /\ \A k \in 1 .. p.case : Cases(p.name)[k] \in faults => p.verdict
      /\ DOMAIN Cases(p.name) = 1 .. Len(Cases(p.name))
  BY <1>1, CaseOfProbe, CaseFacts DEF ProbeOK, Tidy, Judged
<1>3. probes' = [probes EXCEPT ![s] = q] /\ faults' = faults
  BY DEF Return, Step
<1>4. exit \in {0, 2} /\ (exit = 2 => p.hardened)
      /\ (exit = 0 /\ p.hardened /\ Reports(p.name) => ~p.verdict)
  OBVIOUS
<1> HIDE DEF p, exit
<1>5. /\ q \in Probes /\ q.at = "out" /\ q.name = p.name
      /\ q.made = p.made /\ q.kept = p.kept /\ q.exit = exit
      /\ q.hardened = p.hardened
  BY <1>2, <1>4 DEF Probes, Places, Exits
<1> HIDE DEF q
<1>6. ProbeType(q) /\ Tidy(q) /\ OwnEnvironment(q)
  BY <1>2, <1>5 DEF ProbeType, Tidy, OwnEnvironment
<1>7. Judged(q)
  <2>1. ASSUME exit = 0, p.hardened, Reports(p.name)
        PROVE  ToSet(Cases(p.name)) \cap faults = {}
    <3>1. \A k \in DOMAIN Cases(p.name) : Cases(p.name)[k] \notin faults
      BY <1>2, <1>4, <2>1
    <3> QED BY <3>1 DEF ToSet
  <2> QED BY <1>4, <1>5, <2>1 DEF Judged
<1> QED BY <1>3, <1>5, <1>6, <1>7 DEF Becomes, ProbeOK, p

\* A probe that starts, and a place without one.
LEMMA LaunchedOK ==
    ASSUME NEW name \in Names, NEW strict \in BOOLEAN
    PROVE  /\ ProbeOK(Launched(name, strict))
           /\ Launched(name, strict).name = name
           /\ Launched(name, strict).hardened = strict
<1> DEFINE q == Launched(name, strict)
<1>1. /\ q \in Probes /\ q.name = name /\ q.case = 1 /\ q.at = "set_up"
      /\ q.made = {} /\ q.env = "caller" /\ q.hardened = strict
  BY DEF Launched, Idle, Probes, Places, Exits
<1>2. Len(Cases(name)) \in Nat \ {0}
  BY CaseFacts
<1> HIDE DEF q
<1>3. ProbeType(q)
  BY <1>1, <1>2 DEF ProbeType
<1>4. Tidy(q) /\ OwnEnvironment(q)
  BY <1>1 DEF Tidy, OwnEnvironment
<1>5. Judged(q)
  BY <1>1 DEF Judged
<1> QED BY <1>1, <1>3, <1>4, <1>5 DEF q, ProbeOK

LEMMA IdleOK == ProbeOK(Idle) /\ Idle \in Probes
<1>1. /\ Idle \in Probes /\ Idle.name = "none" /\ Idle.at = "out"
      /\ Idle.made = {} /\ Idle.exit = 0
  BY DEF Idle, Probes, Places, Exits
<1>2. "none" \notin Names
  BY DEF Names
<1> QED BY <1>1, <1>2
       DEF ProbeOK, ProbeType, Tidy, OwnEnvironment, Judged

-----------------------------------------------------------------------------
(* Statuses and lines.                                                      *)

LEMMA Appended ==
    ASSUME NEW S, NEW s \in Seq(S), NEW x \in S
    PROVE  /\ Append(s, x) \in Seq(S) /\ Len(Append(s, x)) = Len(s) + 1
           /\ Append(s, x) # << >> /\ Len(s) \in Nat
           /\ \A k \in 1 .. Len(s) : Append(s, x)[k] = s[k]
           /\ Append(s, x)[Len(s) + 1] = x
BY AppendProperties, LenProperties

\* A status that is not looked at yet changes nothing.
LEMMA GateAppended ==
    ASSUME NEW told \in Seq(Int), NEW v \in Int, NEW c,
           GateOf(c, told, Len(told))
    PROVE  GateOf(c, Append(told, v), Len(told))
<1> DEFINE more == Append(told, v)
<1>1. \A k \in 1 .. Len(told) : more[k] = told[k]
  BY Appended
<1> HIDE DEF more
<1> QED BY <1>1 DEF GateOf

\* ... || status=$?
LEMMA GateWritten ==
    ASSUME NEW told \in Seq(Int), told # << >>, NEW c,
           GateOf(c, told, Len(told) - 1)
    PROVE  GateOf(CodeAfter(c, Last(told)), told, Len(told))
<1> DEFINE n == Len(told)
<1>1. n \in Nat \ {0} /\ Last(told) = told[n]
  BY EmptySeq, LenProperties DEF Last
<1>2. GateOf(c, told, n - 1)
  OBVIOUS
<1> HIDE DEF n
<1>3. CASE Failing(told[n])
  <2>1. \A k \in 1 .. n : Failing(told[k]) => k <= n
    OBVIOUS
  <2> QED BY <1>1, <1>3, <2>1 DEF CodeAfter, GateOf, n
<1>4. CASE ~Failing(told[n])
  <2>1. CodeAfter(c, Last(told)) = c
    BY <1>1, <1>4 DEF CodeAfter
  <2>2. \A k \in 1 .. n : Failing(told[k]) => k \in 1 .. n - 1
    BY <1>1, <1>4
  <2>3. 1 .. n - 1 \subseteq 1 .. n
    BY <1>1
  <2> QED BY <1>2, <2>1, <2>2, <2>3 DEF GateOf, n
<1> QED BY <1>3, <1>4

\* >>"$SUMMARY"
LEMMA LineWritten ==
    ASSUME NEW mine \in Seq(Nat), NEW n \in Nat, NEW shared \in BOOLEAN,
           KeptOf(mine, n, shared)
    PROVE  KeptOf(Append(mine, n + 1), n + 1, shared)
<1> DEFINE more == Append(mine, n + 1)
<1>1. /\ Len(more) = Len(mine) + 1 /\ Len(mine) \in Nat
      /\ \A k \in 1 .. Len(mine) : more[k] = mine[k]
      /\ more[Len(mine) + 1] = n + 1
  BY Appended
<1>2. /\ Len(mine) <= n + 1
      /\ \A k \in 1 .. Len(mine) : mine[k] = n - Len(mine) + k
      /\ Len(mine) < n + 1 => shared
  BY DEF KeptOf
<1> HIDE DEF more
<1>3. ASSUME NEW k \in 1 .. Len(more)
      PROVE  more[k] = n + 1 - Len(more) + k
  <2>1. CASE k \in 1 .. Len(mine)
    <3>1. more[k] = n - Len(mine) + k
      BY <1>1, <1>2, <2>1
    <3> QED BY <1>1, <2>1, <3>1
  <2>2. CASE k = Len(mine) + 1
    BY <1>1, <2>2
  <2> QED BY <1>1, <2>1, <2>2
<1> QED BY <1>1, <1>2, <1>3 DEF KeptOf, more

\* The status of one more step.
LEMMA ToldAppended ==
    ASSUME NEW told \in Seq(Int), NEW v \in Int, NEW names, NEW strict,
           \A k \in 1 .. Len(told) : Honest(names[k], strict, told[k]),
           Honest(names[Len(told) + 1], strict, v)
    PROVE  \A k \in 1 .. Len(Append(told, v)) :
               Honest(names[k], strict, Append(told, v)[k])
<1> DEFINE more == Append(told, v)
<1>1. /\ Len(more) = Len(told) + 1 /\ Len(told) \in Nat
      /\ \A k \in 1 .. Len(told) : more[k] = told[k]
      /\ more[Len(told) + 1] = v
  BY Appended
<1> HIDE DEF more
<1>2. \A k \in 1 .. Len(more) : Honest(names[k], strict, more[k])
  BY <1>1
<1> QED BY <1>2 DEF more

-----------------------------------------------------------------------------
(* The runners.                                                             *)

\* What a step of r can be.
Moving(r) == \/ Start(r) \/ WriteHead(r) \/ LookForFuzz(r) \/ RunProbe(r)
             \/ Probe(r) \/ WaitForProbe(r) \/ RunCommand(r) \/ WriteLine(r)
             \/ End(r)

\* Neither the setting nor the library changes.
Settled == /\ script' = script /\ hardened' = hardened /\ server' = server
           /\ faults' = faults

LEMMA SettingStays ==
    ASSUME [Next]_vars
    PROVE  Settled
BY DEF Next, vars, Settled, Start, WriteHead, LookForFuzz, RunProbe, Probe,
       WaitForProbe, RunCommand, WriteLine, End, Tick, setting, ProbeStep, SetUp, Ask,
       CleanUp, Return, Step

\* So the steps, the mode and what a status must say stay.
LEMMA SameRules ==
    ASSUME Settled, NEW r
    PROVE  /\ Steps(r)' = Steps(r) /\ Hardened(r)' = Hardened(r)
           /\ \A name, strict, status :
                Honest(name, strict, status)' <=> Honest(name, strict, status)
<1>1. Steps(r)' = Steps(r)
  BY DEF Settled, Steps
<1>2. Hardened(r)' = Hardened(r)
  BY DEF Settled, Hardened
<1>3. \A name, strict, status :
        Honest(name, strict, status)' <=> Honest(name, strict, status)
  BY DEF Settled, Honest
<1> QED BY <1>1, <1>2, <1>3

\* A runner that has started has a second to write to, and what it writes to
\* the file of that second is a list of lines for every runner.
LEMMA Started ==
    ASSUME SafetyInv, NEW r \in Starter
    PROVE  /\ stamp[r] \in 0 .. MaxTime /\ stage[r] \in Stages
           /\ statuses[r] \in Seq(Int) /\ Len(statuses[r]) \in Nat
           /\ code[r] \in Int
           /\ stage[r] # "new" => /\ stamp[r] \in 1 .. MaxTime
                                  /\ summary[stamp[r]] \in [Starter -> Seq(Nat)]
                                  /\ Mine(r) \in Seq(Nat)
           /\ Lines(r) \in Nat
<1>1. /\ stamp[r] \in 0 .. MaxTime /\ stage[r] \in Stages
      /\ statuses[r] \in Seq(Int) /\ code[r] \in Int
      /\ summary \in [1 .. MaxTime -> [Starter -> Seq(Nat)]]
      /\ MaxTime \in Nat
  BY SettingsAssumption DEF SafetyInv, RunnerTypes
<1>2. /\ stage[r] = "new" <=> stamp[r] = 0
      /\ stage[r] = "line" => statuses[r] # << >>
  BY DEF SafetyInv, RunnerOK, Following
<1>3. Len(statuses[r]) \in Nat /\ (statuses[r] # << >> => Len(statuses[r]) # 0)
  BY <1>1, LenProperties, EmptySeq
<1>4. ASSUME stage[r] # "new"
      PROVE  /\ stamp[r] \in 1 .. MaxTime
             /\ summary[stamp[r]] \in [Starter -> Seq(Nat)]
             /\ Mine(r) \in Seq(Nat)
  <2>1. stamp[r] \in 1 .. MaxTime
    BY <1>1, <1>2, <1>4
  <2>2. summary[stamp[r]] \in [Starter -> Seq(Nat)]
    BY <1>1, <2>1
  <2> QED BY <2>1, <2>2 DEF Mine
<1>5. Lines(r) \in Nat
  BY <1>2, <1>3 DEF Lines
<1> QED BY <1>1, <1>3, <1>4, <1>5

\* The lines of a second stay lists of lines when a runner adds one.
LEMMA SummaryTyped ==
    ASSUME SafetyInv, NEW r \in Starter, stage[r] # "new", NEW line \in Nat,
           summary' = [summary EXCEPT ![stamp[r]] = LineAfter(@, r, line)]
    PROVE  /\ summary' \in [1 .. MaxTime -> [Starter -> Seq(Nat)]]
           /\ summary'[stamp[r]][r] = Append(Mine(r), line)
           /\ \A q \in Starter \ {r} : \A second \in 1 .. MaxTime :
                summary'[second][q] = summary[second][q]
<1> DEFINE second == stamp[r]
           lines == summary[second]
           more == LineAfter(lines, r, line)
<1>1. /\ second \in 1 .. MaxTime /\ lines \in [Starter -> Seq(Nat)]
      /\ Mine(r) = lines[r] /\ lines[r] \in Seq(Nat)
  BY Started DEF Mine
<1>2. summary \in [1 .. MaxTime -> [Starter -> Seq(Nat)]]
  BY DEF SafetyInv, RunnerTypes
<1>3. Append(lines[r], line) \in Seq(Nat)
  BY <1>1, Appended
<1> HIDE DEF lines
<1>4. /\ more \in [Starter -> Seq(Nat)] /\ more[r] = Append(lines[r], line)
      /\ \A q \in Starter \ {r} : more[q] = lines[q]
  BY <1>1, <1>3 DEF LineAfter
<1>5. summary' = [summary EXCEPT ![second] = more]
  BY DEF lines
<1> HIDE DEF more, second
<1>6. /\ summary' \in [1 .. MaxTime -> [Starter -> Seq(Nat)]]
      /\ summary'[second] = more
      /\ \A t \in 1 .. MaxTime : t # second => summary'[t] = summary[t]
  BY <1>1, <1>2, <1>4, <1>5
<1> QED BY <1>1, <1>4, <1>6 DEF second, lines

\* A head replaces the file of its second.
LEMMA HeadTyped ==
    ASSUME SafetyInv, NEW r \in Starter, NEW mine \in 1 .. MaxTime,
           summary' = [summary EXCEPT ![mine] = [NoLines EXCEPT ![r] = << 0 >>]]
    PROVE  /\ summary' \in [1 .. MaxTime -> [Starter -> Seq(Nat)]]
           /\ summary'[mine][r] = << 0 >>
           /\ \A q \in Starter \ {r} : \A second \in 1 .. MaxTime :
                summary'[second][q] = IF second = mine THEN << >>
                                      ELSE summary[second][q]
<1> DEFINE head == [NoLines EXCEPT ![r] = << 0 >>]
<1>1. << >> \in Seq(Nat) /\ << 0 >> \in Seq(Nat)
  BY EmptySeq
<1>2. head \in [Starter -> Seq(Nat)] /\ head[r] = << 0 >>
      /\ \A q \in Starter \ {r} : head[q] = << >>
  BY <1>1 DEF NoLines
<1>3. summary \in [1 .. MaxTime -> [Starter -> Seq(Nat)]]
  BY DEF SafetyInv, RunnerTypes
<1>4. summary' = [summary EXCEPT ![mine] = head]
  OBVIOUS
<1> HIDE DEF head
<1>5. /\ summary' \in [1 .. MaxTime -> [Starter -> Seq(Nat)]]
      /\ summary'[mine] = head
      /\ \A t \in 1 .. MaxTime : t # mine => summary'[t] = summary[t]
  BY <1>2, <1>3, <1>4
<1> QED BY <1>2, <1>3, <1>5

\* One more status of r.
LEMMA StatusTyped ==
    ASSUME SafetyInv, NEW r \in Starter, NEW status \in Int, Done(r, status)
    PROVE  /\ statuses' \in [Starter -> Seq(Int)]
           /\ statuses'[r] = Append(statuses[r], status)
           /\ \A q \in Starter \ {r} : statuses'[q] = statuses[q]
<1>1. statuses \in [Starter -> Seq(Int)]
  BY DEF SafetyInv, RunnerTypes
<1>2. Append(statuses[r], status) \in Seq(Int)
  BY <1>1, Appended
<1> QED BY <1>1, <1>2 DEF Done

\* The next stage of r.
LEMMA StageTyped ==
    ASSUME SafetyInv, NEW r \in Starter, NEW from, NEW to \in Stages,
           Moves(r, from, to)
    PROVE  /\ stage' \in [Starter -> Stages] /\ stage[r] = from /\ stage'[r] = to
           /\ \A q \in Starter \ {r} : stage'[q] = stage[q]
BY DEF SafetyInv, RunnerTypes, Moves

\* What a step of r leaves of the other runners: all they have, but for the
\* lines they wrote in the second of r's stamp.
Apart(r) ==
    \A q \in Starter \ {r} :
        /\ stage'[q] = stage[q] /\ statuses'[q] = statuses[q]
        /\ code'[q] = code[q] /\ probes'[q] = probes[q] /\ stamp'[q] = stamp[q]
        /\ stage[q] # "new" =>
             \/ summary'[stamp[q]][q] = Mine(q)
             \/ summary'[stamp[q]][q] = << >> /\ stamp'[r] = stamp[q]

Preserved(r) == ProbesInv' /\ RunnerTypes' /\ RunnerOK(r)' /\ Apart(r)

\* A probe that changes is one that is in order.
LEMMA ProbesKept ==
    ASSUME SafetyInv, Settled, NEW r \in Starter, NEW q, ProbeOK(q),
           probes' = [probes EXCEPT ![r] = q]
    PROVE  /\ ProbesInv' /\ probes'[r] = q
           /\ \A s \in Starter \ {r} : probes'[s] = probes[s]
<1>1. probes \in [Starter -> Probes] /\ \A s \in Starter : ProbeOK(probes[s])
  BY DEF SafetyInv, ProbesInv
<1>2. q \in Probes
  BY DEF ProbeOK, ProbeType
<1>3. \A p : ProbeOK(p)' <=> ProbeOK(p)
  BY DEF Settled, ProbeOK, ProbeType, Tidy, OwnEnvironment, Judged, Case
<1>4. /\ probes' \in [Starter -> Probes] /\ probes'[r] = q
      /\ \A s \in Starter \ {r} : probes'[s] = probes[s]
  BY <1>1, <1>2
<1>5. \A s \in Starter : ProbeOK(probes'[s])
  BY <1>1, <1>4
<1>6. \A s \in Starter : ProbeOK(probes[s])'
  BY <1>5, <1>3 DEF Settled, ProbeOK, ProbeType, Tidy, OwnEnvironment, Judged, Case
<1> QED BY <1>4, <1>6 DEF ProbesInv

LEMMA ProbesStay ==
    ASSUME SafetyInv, Settled, probes' = probes
    PROVE  ProbesInv'
BY DEF SafetyInv, Settled, ProbesInv, ProbeOK, ProbeType, Tidy, OwnEnvironment,
       Judged, Case

\* What has been said of its steps stays true of r.
LEMMA SameTold ==
    ASSUME Settled, NEW r, Told(r), statuses'[r] = statuses[r]
    PROVE  Told(r)'
BY SameRules DEF Told

LEMMA MoreTold ==
    ASSUME SafetyInv, Settled, NEW r \in Starter, NEW status \in Int,
           statuses'[r] = Append(statuses[r], status),
           Honest(Upcoming(r), Hardened(r), status)
    PROVE  Told(r)'
<1>1. statuses[r] \in Seq(Int) /\ Told(r)
  BY DEF SafetyInv, RunnerTypes, RunnerOK
<1> DEFINE names == Steps(r)
           strict == Hardened(r)
           more == Append(statuses[r], status)
<1>2. \A k \in 1 .. Len(more) : Honest(names[k], strict, more[k])
  <2>1. \A k \in 1 .. Len(statuses[r]) : Honest(names[k], strict, statuses[r][k])
    BY <1>1 DEF Told
  <2>2. Honest(names[Len(statuses[r]) + 1], strict, status)
    BY DEF Upcoming
  <2> HIDE DEF names, strict
  <2> QED BY <1>1, <2>1, <2>2, ToldAppended
<1>3. statuses'[r] = more
  OBVIOUS
<1> HIDE DEF more
<1>4. Steps(r)' = names /\ Hardened(r)' = strict
  BY SameRules
<1> HIDE DEF names, strict
<1>5. \A k \in 1 .. Len(statuses'[r]) :
        Honest(names[k], strict, statuses'[r][k])
  BY <1>2, <1>3
<1> QED BY <1>4, <1>5 DEF Told, Honest, Settled

\* What r had in its summary and in its exit status it still has.
LEMMA SameGate ==
    ASSUME Settled, NEW r, Gate(r), code'[r] = code[r],
           statuses'[r] = statuses[r], Lines(r)' = Lines(r)
    PROVE  Gate(r)'
BY DEF Settled, Gate, GateOf

LEMMA SameKept ==
    ASSUME NEW r, Kept(r), stamp' = stamp, Mine(r)' = Mine(r),
           Lines(r)' = Lines(r), Writing(r)' => Writing(r)
    PROVE  Kept(r)'
<1>1. Shared(r)' = Shared(r)
  BY DEF Shared
<1> QED BY <1>1 DEF Kept, KeptOf

\* The settings keep their types.
LEMMA SettingTyped ==
    ASSUME SafetyInv, Settled
    PROVE  /\ script' \in [Starter -> Scripts] /\ hardened' \in BOOLEAN
           /\ server' \in BOOLEAN /\ "online" \notin faults'
BY DEF SafetyInv, RunnerTypes, Settled

\* A step of r of which the status is known, and not yet looked at.
LEMMA StatusStep ==
    ASSUME SafetyInv, Settled, NEW r \in Starter, NEW from \in {"step", "probe"},
           NEW status \in Int, Moves(r, from, "line"), Done(r, status),
           Honest(Upcoming(r), Hardened(r), status), ProbesInv',
           \A q \in Starter \ {r} : probes'[q] = probes[q],
           UNCHANGED <<now, stamp, code, summary>>
    PROVE  Preserved(r)
<1>1. /\ statuses' \in [Starter -> Seq(Int)]
      /\ statuses'[r] = Append(statuses[r], status)
      /\ \A q \in Starter \ {r} : statuses'[q] = statuses[q]
  BY StatusTyped
<1>2. /\ stage' \in [Starter -> Stages] /\ stage[r] = from /\ stage'[r] = "line"
      /\ \A q \in Starter \ {r} : stage'[q] = stage[q]
  BY StageTyped DEF Stages
<1>3. RunnerTypes'
  BY <1>1, <1>2, SettingTyped DEF SafetyInv, RunnerTypes
<1>4. Apart(r)
  BY <1>1, <1>2 DEF Apart, Mine
<1>5. /\ statuses[r] \in Seq(Int) /\ RunnerOK(r)
      /\ statuses'[r] # << >> /\ statuses'[r] \in Seq(Int)
      /\ Len(statuses'[r]) = Len(statuses[r]) + 1 /\ Len(statuses[r]) \in Nat
  <2>1. statuses[r] \in Seq(Int) /\ RunnerOK(r)
    BY DEF SafetyInv, RunnerTypes
  <2> DEFINE more == Append(statuses[r], status)
  <2>2. /\ more # << >> /\ more \in Seq(Int)
        /\ Len(more) = Len(statuses[r]) + 1 /\ Len(statuses[r]) \in Nat
    BY <2>1, Appended
  <2> HIDE DEF more
  <2>3. statuses'[r] = more
    BY <1>1 DEF more
  <2> QED BY <2>1, <2>2, <2>3
<1>6. Lines(r) = Len(statuses[r]) /\ Lines(r)' = Len(statuses[r])
  <2>1. Lines(r) = Len(statuses[r])
    BY <1>2 DEF Lines
  <2>2. Lines(r)' = Len(statuses'[r]) - 1
    BY <1>2 DEF Lines
  <2> QED BY <1>5, <2>1, <2>2
<1>7. Following(r)'
  BY <1>2, <1>5 DEF RunnerOK, Following
<1>8. Told(r)'
  BY <1>1, MoreTold
<1>9. Gate(r)'
  <2>1. ASSUME script[r] = "ci"
        PROVE  GateOf(code[r], statuses'[r], Len(statuses[r]))
    <3>1. GateOf(code[r], statuses[r], Len(statuses[r]))
      BY <1>5, <1>6, <2>1 DEF RunnerOK, Gate
    <3>2. GateOf(code[r], Append(statuses[r], status), Len(statuses[r]))
      BY <1>5, <3>1, GateAppended
    <3> QED BY <1>1, <3>2
  <2>2. code'[r] = code[r] /\ script'[r] = script[r]
    BY DEF Settled
  <2>3. script[r] = "ci" => GateOf(code'[r], statuses'[r], Lines(r)')
    BY <1>6, <2>1, <2>2
  <2> QED BY <2>2, <2>3 DEF Gate, GateOf
<1>10. Kept(r)'
  <2>1. Writing(r)
    BY <1>2 DEF Writing
  <2>2. Mine(r)' = Mine(r)
    BY DEF Mine
  <2> QED BY <1>5, <1>6, <2>1, <2>2, SameKept DEF RunnerOK
<1> QED BY <1>3, <1>4, <1>7, <1>8, <1>9, <1>10 DEF Preserved, RunnerOK

LEMMA StartStep ==
    ASSUME SafetyInv, Settled, NEW r \in Starter, Start(r)
    PROVE  Preserved(r)
<1>1. /\ stage' \in [Starter -> Stages] /\ stage[r] = "new"
      /\ stage'[r] = "stamped"
      /\ \A q \in Starter \ {r} : stage'[q] = stage[q]
  BY StageTyped DEF Start, Stages
<1>2. /\ probes' = probes /\ now' = now /\ statuses' = statuses /\ code' = code
      /\ summary' = summary /\ stamp' = [stamp EXCEPT ![r] = now]
  BY DEF Start
<1>3. /\ now \in 1 .. MaxTime /\ MaxTime \in Nat /\ RunnerOK(r)
      /\ stamp \in [Starter -> 0 .. MaxTime]
  BY SettingsAssumption DEF SafetyInv, RunnerTypes
<1>4. /\ stamp' \in [Starter -> 0 .. MaxTime]
      /\ stamp'[r] = now /\ \A q \in Starter \ {r} : stamp'[q] = stamp[q]
  <2>1. now \in 0 .. MaxTime
    BY <1>3
  <2> QED BY <1>2, <1>3, <2>1
<1>5. RunnerTypes'
  BY <1>1, <1>2, <1>4, SettingTyped DEF SafetyInv, RunnerTypes
<1>6. ProbesInv'
  BY <1>2, ProbesStay
<1>7. Apart(r)
  BY <1>1, <1>2, <1>4 DEF Apart, Mine
<1>8. Following(r)'
  <2>1. stamp'[r] # 0
    BY <1>3, <1>4
  <2> QED BY <1>1, <1>2, <1>3, <2>1 DEF RunnerOK, Following
<1>9. Told(r)'
  BY <1>2, <1>3, SameTold DEF RunnerOK
<1>10. Gate(r)'
  <2>1. Lines(r)' = Lines(r)
    BY <1>1, <1>2 DEF Lines
  <2> QED BY <1>2, <1>3, <2>1, SameGate DEF RunnerOK
<1>11. Kept(r)'
  BY <1>1 DEF Kept, Writing
<1> QED BY <1>5, <1>6, <1>7, <1>8, <1>9, <1>10, <1>11 DEF Preserved, RunnerOK

LEMMA WriteHeadStep ==
    ASSUME SafetyInv, Settled, NEW r \in Starter, WriteHead(r)
    PROVE  Preserved(r)
<1> DEFINE to == IF script[r] = "fuzz" THEN "tool" ELSE "step"
           mine == stamp[r]
<1>1. to \in Stages /\ to \in {"tool", "step"}
  BY DEF Stages
<1>2. Moves(r, "stamped", to)
  BY DEF WriteHead
<1> HIDE DEF to
<1>3. /\ stage' \in [Starter -> Stages] /\ stage[r] = "stamped" /\ stage'[r] = to
      /\ \A q \in Starter \ {r} : stage'[q] = stage[q]
  BY <1>1, <1>2, StageTyped DEF Stages
<1>4. mine \in 1 .. MaxTime
  BY <1>3, Started
<1>5. /\ summary' = [summary EXCEPT ![mine] = [NoLines EXCEPT ![r] = << 0 >>]]
      /\ probes' = probes /\ now' = now /\ statuses' = statuses /\ code' = code
      /\ stamp' = stamp
  BY DEF WriteHead
<1> HIDE DEF mine
<1>6. /\ summary' \in [1 .. MaxTime -> [Starter -> Seq(Nat)]]
      /\ summary'[mine][r] = << 0 >>
      /\ \A q \in Starter \ {r} : \A second \in 1 .. MaxTime :
           summary'[second][q] = IF second = mine THEN << >>
                                 ELSE summary[second][q]
  BY <1>4, <1>5, HeadTyped
<1>7. RunnerOK(r)
  BY DEF SafetyInv
<1>8. RunnerTypes'
  BY <1>3, <1>5, <1>6, SettingTyped DEF SafetyInv, RunnerTypes
<1>9. ProbesInv'
  BY <1>5, ProbesStay
<1>10. Apart(r)
  <2>1. ASSUME NEW q \in Starter \ {r}, stage[q] # "new"
        PROVE  \/ summary'[stamp[q]][q] = Mine(q)
               \/ summary'[stamp[q]][q] = << >> /\ stamp'[r] = stamp[q]
    <3>1. stamp[q] \in 1 .. MaxTime
      BY <2>1, Started
    <3> QED BY <1>5, <1>6, <3>1 DEF Mine, mine
  <2> QED BY <1>3, <1>5, <2>1 DEF Apart
<1>11. statuses[r] = << >> /\ Len(statuses[r]) = 0
  BY <1>3, <1>7 DEF RunnerOK, Following
<1>12. Lines(r) = 0 /\ Lines(r)' = 0
  BY <1>1, <1>3, <1>5, <1>11 DEF Lines
<1>13. Following(r)'
  BY <1>1, <1>3, <1>5, <1>7, <1>11 DEF RunnerOK, Following
<1>14. Told(r)'
  BY <1>5, <1>7, SameTold DEF RunnerOK
<1>15. Gate(r)'
  BY <1>5, <1>7, <1>12, SameGate DEF RunnerOK
<1>16. Kept(r)'
  <2>1. Mine(r)' = << 0 >>
    BY <1>5, <1>6 DEF Mine, mine
  <2>2. KeptOf(<< 0 >>, 0, FALSE)
    BY DEF KeptOf
  <2> QED BY <1>12, <2>1, <2>2 DEF Kept, KeptOf
<1> QED BY <1>8, <1>9, <1>10, <1>13, <1>14, <1>15, <1>16 DEF Preserved, RunnerOK

\* A step of r that writes nothing and learns nothing.
LEMMA QuietStep ==
    ASSUME SafetyInv, Settled, NEW r \in Starter,
           NEW from \in {"tool", "step", "probe"},
           NEW to \in {"step", "probe", "ended"},
           Moves(r, from, to), ProbesInv',
           \A q \in Starter \ {r} : probes'[q] = probes[q],
           to = "probe" => /\ probes'[r].name = Upcoming(r)
                           /\ probes'[r].name \in Names
                           /\ probes'[r].hardened = Hardened(r),
           UNCHANGED <<now, stamp, statuses, code, summary>>
    PROVE  Preserved(r)
<1>1. /\ stage' \in [Starter -> Stages] /\ stage[r] = from /\ stage'[r] = to
      /\ \A q \in Starter \ {r} : stage'[q] = stage[q]
  BY StageTyped DEF Stages
<1>2. /\ now' = now /\ stamp' = stamp /\ statuses' = statuses
      /\ code' = code /\ summary' = summary
  OBVIOUS
<1>3. RunnerTypes'
  BY <1>1, <1>2, SettingTyped DEF SafetyInv, RunnerTypes
<1>4. Apart(r)
  BY <1>1, <1>2 DEF Apart, Mine
<1>5. RunnerOK(r)
  BY DEF SafetyInv
<1>6. Lines(r)' = Lines(r)
  BY <1>1, <1>2 DEF Lines
<1>7. Following(r)'
  <2>1. Upcoming(r)' = Upcoming(r) /\ Hardened(r)' = Hardened(r)
    BY <1>2, SameRules DEF Upcoming
  <2> QED BY <1>1, <1>2, <1>5, <2>1 DEF RunnerOK, Following
<1>8. Told(r)'
  BY <1>2, <1>5, SameTold DEF RunnerOK
<1>9. Gate(r)'
  BY <1>2, <1>5, <1>6, SameGate DEF RunnerOK
<1>10. Kept(r)'
  <2>1. Writing(r) /\ Mine(r)' = Mine(r)
    BY <1>1, <1>2 DEF Writing, Mine
  <2> QED BY <1>2, <1>5, <1>6, <2>1, SameKept DEF RunnerOK
<1> QED BY <1>3, <1>4, <1>7, <1>8, <1>9, <1>10 DEF Preserved, RunnerOK

LEMMA EndStep ==
    ASSUME SafetyInv, Settled, NEW r \in Starter, End(r)
    PROVE  Preserved(r)
<1>1. ProbesInv' /\ probes' = probes
  BY ProbesStay DEF End
<1> QED BY <1>1, QuietStep DEF End

LEMMA LookForFuzzStep ==
    ASSUME SafetyInv, Settled, NEW r \in Starter, LookForFuzz(r)
    PROVE  Preserved(r)
<1>1. ProbesInv' /\ probes' = probes
  BY ProbesStay DEF LookForFuzz
<1>2. CASE Moves(r, "tool", "step") /\ UNCHANGED summary
  BY <1>1, <1>2, QuietStep DEF LookForFuzz
<1>3. CASE /\ Moves(r, "tool", "ended")
           /\ summary' = [summary EXCEPT ![stamp[r]] = LineAfter(@, r, 1)]
  <2>1. /\ stage' \in [Starter -> Stages] /\ stage[r] = "tool"
        /\ stage'[r] = "ended"
        /\ \A q \in Starter \ {r} : stage'[q] = stage[q]
    BY <1>3, StageTyped DEF Stages
  <2>2. /\ now' = now /\ stamp' = stamp /\ statuses' = statuses /\ code' = code
    BY DEF LookForFuzz
  <2>3. /\ summary' \in [1 .. MaxTime -> [Starter -> Seq(Nat)]]
        /\ \A q \in Starter \ {r} : \A second \in 1 .. MaxTime :
             summary'[second][q] = summary[second][q]
    BY <1>3, <2>1, SummaryTyped
  <2>4. RunnerTypes'
    BY <2>1, <2>2, <2>3, SettingTyped DEF SafetyInv, RunnerTypes
  <2>5. Apart(r)
    <3>1. ASSUME NEW q \in Starter \ {r}, stage[q] # "new"
          PROVE  summary'[stamp[q]][q] = Mine(q)
      BY <2>3, <3>1, Started DEF Mine
    <3> QED BY <1>1, <2>1, <2>2, <3>1 DEF Apart
  <2>6. RunnerOK(r) /\ statuses[r] = << >>
    BY <2>1 DEF SafetyInv, RunnerOK, Following
  <2>7. Following(r)'
    BY <2>1, <2>2, <2>6 DEF RunnerOK, Following
  <2>8. Told(r)'
    BY <2>2, <2>6, SameTold DEF RunnerOK
  <2>9. Gate(r)'
    <3>1. Lines(r)' = Lines(r)
      BY <2>1, <2>2 DEF Lines
    <3> QED BY <2>2, <2>6, <3>1, SameGate DEF RunnerOK
  <2>10. Kept(r)'
    BY <2>1, <2>2, <2>6 DEF Kept, Writing
  <2> QED BY <1>1, <2>4, <2>5, <2>7, <2>8, <2>9, <2>10 DEF Preserved, RunnerOK
<1> QED BY <1>2, <1>3 DEF LookForFuzz

LEMMA RunProbeStep ==
    ASSUME SafetyInv, Settled, NEW r \in Starter, RunProbe(r)
    PROVE  Preserved(r)
<1>1. Upcoming(r) \in Names /\ Hardened(r) \in BOOLEAN
  BY DEF RunProbe, Hardened, SafetyInv, RunnerTypes
<1>2. CASE /\ Moves(r, "step", "probe")
           /\ probes' = [probes EXCEPT ![r] = Launched(Upcoming(r), Hardened(r))]
           /\ UNCHANGED statuses
  <2> DEFINE p == Launched(Upcoming(r), Hardened(r))
  <2>1. ProbeOK(p) /\ p.name = Upcoming(r) /\ p.hardened = Hardened(r)
    BY <1>1, LaunchedOK
  <2>2. probes' = [probes EXCEPT ![r] = p] /\ statuses' = statuses
    BY <1>2
  <2> HIDE DEF p
  <2>3. /\ ProbesInv' /\ probes'[r] = p
        /\ \A q \in Starter \ {r} : probes'[q] = probes[q]
    BY <2>1, <2>2, ProbesKept
  <2>4. UNCHANGED <<now, stamp, statuses, code, summary>>
    BY <2>2 DEF RunProbe
  <2> QED BY <1>1, <1>2, <2>1, <2>3, <2>4, QuietStep
<1>3. CASE Moves(r, "step", "line") /\ Done(r, 101) /\ UNCHANGED probes
  <2>1. ProbesInv'
    BY <1>3, ProbesStay
  <2>2. Honest(Upcoming(r), Hardened(r), 101)
    BY DEF Honest
  <2>3. UNCHANGED <<now, stamp, code, summary>>
    BY DEF RunProbe
  <2> QED BY <1>3, <2>1, <2>2, <2>3, StatusStep
<1> QED BY <1>2, <1>3 DEF RunProbe

LEMMA ProbeMoves ==
    ASSUME SafetyInv, Settled, NEW r \in Starter, Probe(r)
    PROVE  Preserved(r)
<1>1. stage[r] = "probe" /\ ProbesInv /\ "online" \notin faults /\ RunnerOK(r)
  BY DEF SafetyInv, RunnerTypes, Probe
<1>2. PICK q : Becomes(r, q)
  BY <1>1, SetUpStep, AskStep, CleanUpStep, ReturnStep DEF Probe, ProbeStep
<1>3. /\ ProbesInv' /\ probes'[r] = q
      /\ \A s \in Starter \ {r} : probes'[s] = probes[s]
      /\ q.name = probes[r].name /\ q.hardened = probes[r].hardened
  BY <1>2, ProbesKept DEF Becomes
<1>4. /\ now' = now /\ stamp' = stamp /\ stage' = stage
      /\ statuses' = statuses /\ code' = code /\ summary' = summary
  BY DEF Probe
<1>5. RunnerTypes'
  BY <1>4, SettingTyped DEF SafetyInv, RunnerTypes
<1>6. Apart(r)
  BY <1>3, <1>4 DEF Apart, Mine
<1>7. Following(r)'
  <2>1. Upcoming(r)' = Upcoming(r) /\ Hardened(r)' = Hardened(r)
    BY <1>4, SameRules DEF Upcoming
  <2> QED BY <1>1, <1>3, <1>4, <2>1 DEF RunnerOK, Following
<1>8. Told(r)'
  BY <1>1, <1>4, SameTold DEF RunnerOK
<1>9. Lines(r)' = Lines(r) /\ Mine(r)' = Mine(r) /\ Writing(r)' = Writing(r)
  BY <1>4 DEF Lines, Mine, Writing
<1>10. Gate(r)'
  BY <1>1, <1>4, <1>9, SameGate DEF RunnerOK
<1>11. Kept(r)'
  BY <1>1, <1>4, <1>9, SameKept DEF RunnerOK
<1> QED BY <1>3, <1>5, <1>6, <1>7, <1>8, <1>10, <1>11 DEF Preserved, RunnerOK

LEMMA WaitForProbeStep ==
    ASSUME SafetyInv, Settled, NEW r \in Starter, WaitForProbe(r)
    PROVE  Preserved(r)
<1> DEFINE p == probes[r]
<1>1. /\ Moves(r, "probe", "line") /\ Done(r, p.exit) /\ p.at = "out"
      /\ probes' = [probes EXCEPT ![r] = Idle]
      /\ UNCHANGED <<now, stamp, code, summary>>
  BY DEF WaitForProbe
<1>2. /\ p \in Probes /\ Judged(p) /\ p.name = Upcoming(r) /\ p.name \in Names
      /\ p.hardened = Hardened(r)
  <2>1. ProbeOK(p) /\ stage[r] = "probe" /\ Following(r)
    BY <1>1 DEF SafetyInv, ProbesInv, RunnerOK, Moves
  <2> QED BY <2>1 DEF ProbeOK, ProbeType, Following
<1>3. /\ ProbesInv' /\ \A q \in Starter \ {r} : probes'[q] = probes[q]
  BY <1>1, IdleOK, ProbesKept
<1> HIDE DEF p
<1>4. p.exit \in Int
  BY <1>2 DEF Probes, Exits
<1>5. Honest(Upcoming(r), Hardened(r), p.exit)
  BY <1>1, <1>2 DEF Judged, Honest
<1> QED BY <1>1, <1>3, <1>4, <1>5, StatusStep

LEMMA RunCommandStep ==
    ASSUME SafetyInv, Settled, NEW r \in Starter, RunCommand(r)
    PROVE  Preserved(r)
<1>1. PICK status \in {0, 1, Skipped} : Done(r, status)
  <2>1. PICK status \in IF Upcoming(r) = "skipped" THEN {Skipped}
                        ELSE IF Upcoming(r) \in {"audit", "deny", "online"}
                          THEN {0, 1, Skipped} ELSE {0, 1} : Done(r, status)
    BY DEF RunCommand
  <2>2. status \in {0, 1, Skipped}
    OBVIOUS
  <2> QED BY <2>1, <2>2
<1>2. status \in Int /\ status # 2
  BY DEF Skipped
<1>3. Honest(Upcoming(r), Hardened(r), status)
  BY <1>2 DEF RunCommand, Honest
<1>4. ProbesInv' /\ probes' = probes
  BY ProbesStay DEF RunCommand
<1>5. Moves(r, "step", "line") /\ UNCHANGED <<now, stamp, code, summary>>
  BY DEF RunCommand
<1> QED BY <1>1, <1>2, <1>3, <1>4, <1>5, StatusStep

LEMMA WriteLineStep ==
    ASSUME SafetyInv, Settled, NEW r \in Starter, WriteLine(r)
    PROVE  Preserved(r)
<1> DEFINE told == statuses[r]
           to == IF script[r] = "resource" /\ Len(told) = 1
                      /\ Failing(Last(told)) THEN "ended" ELSE "step"
           value == IF script[r] = "ci" THEN CodeAfter(code[r], Last(told)) ELSE 0
<1>1. /\ Moves(r, "line", to)
      /\ summary' = [summary EXCEPT ![stamp[r]] = LineAfter(@, r, Len(told))]
      /\ code' = [code EXCEPT ![r] = value]
      /\ now' = now /\ stamp' = stamp /\ statuses' = statuses /\ probes' = probes
  BY DEF WriteLine
<1>2. to \in {"step", "ended"}
  OBVIOUS
<1> HIDE DEF to
<1>3. /\ stage' \in [Starter -> Stages] /\ stage[r] = "line" /\ stage'[r] = to
      /\ \A q \in Starter \ {r} : stage'[q] = stage[q]
  BY <1>1, <1>2, StageTyped DEF Stages
<1>4. /\ RunnerOK(r) /\ told # << >> /\ told \in Seq(Int) /\ Len(told) \in Nat \ {0}
      /\ Last(told) \in Int /\ code[r] \in Int /\ Mine(r) \in Seq(Nat)
  <2>1. /\ RunnerOK(r) /\ told # << >> /\ told \in Seq(Int) /\ code[r] \in Int
        /\ Mine(r) \in Seq(Nat)
    BY <1>3, Started DEF SafetyInv, RunnerOK, Following
  <2> HIDE DEF told
  <2>2. Len(told) \in Nat \ {0}
    BY <2>1, EmptySeq, LenProperties
  <2>3. Last(told) \in Int
    BY <2>1, <2>2, ElementOfSeq DEF Last
  <2> QED BY <2>1, <2>2, <2>3
<1>5. /\ summary' \in [1 .. MaxTime -> [Starter -> Seq(Nat)]]
      /\ summary'[stamp[r]][r] = Append(Mine(r), Len(told))
      /\ \A q \in Starter \ {r} : \A second \in 1 .. MaxTime :
           summary'[second][q] = summary[second][q]
  BY <1>1, <1>3, <1>4, SummaryTyped
<1>6. /\ code' \in [Starter -> Int] /\ code'[r] = value
      /\ \A q \in Starter \ {r} : code'[q] = code[q]
  <2>1. code \in [Starter -> Int]
    BY DEF SafetyInv, RunnerTypes
  <2>2. value \in Int
    BY <1>4 DEF CodeAfter
  <2> HIDE DEF value
  <2> QED BY <1>1, <2>1, <2>2
<1>7. RunnerTypes'
  BY <1>1, <1>3, <1>5, <1>6, SettingTyped DEF SafetyInv, RunnerTypes
<1>8. ProbesInv'
  BY <1>1, ProbesStay
<1>9. Apart(r)
  <2>1. ASSUME NEW q \in Starter \ {r}, stage[q] # "new"
        PROVE  summary'[stamp[q]][q] = Mine(q)
    BY <1>5, <2>1, Started DEF Mine
  <2> QED BY <1>1, <1>3, <1>6, <2>1 DEF Apart
<1>10. Lines(r) = Len(told) - 1 /\ Lines(r)' = Len(told)
  BY <1>1, <1>2, <1>3 DEF Lines
<1>11. Following(r)'
  BY <1>1, <1>2, <1>3, <1>4 DEF RunnerOK, Following
<1>12. Told(r)'
  BY <1>1, <1>4, SameTold DEF RunnerOK
<1>13. Gate(r)'
  <2>1. ASSUME script[r] = "ci"
        PROVE  GateOf(value, told, Len(told))
    <3>1. GateOf(code[r], told, Len(told) - 1)
      BY <1>4, <1>10, <2>1 DEF RunnerOK, Gate
    <3>2. value = CodeAfter(code[r], Last(told))
      BY <2>1
    <3> HIDE DEF told, value
    <3> QED BY <1>4, <3>1, <3>2, GateWritten
  <2>2. script'[r] = script[r] /\ statuses'[r] = told
    BY <1>1 DEF Settled
  <2> HIDE DEF told, value
  <2>3. script[r] = "ci" => GateOf(code'[r], statuses'[r], Lines(r)')
    BY <1>6, <1>10, <2>1, <2>2
  <2> QED BY <2>2, <2>3 DEF Gate, GateOf
<1>14. Kept(r)'
  <2> DEFINE n == Len(told) - 1
             mine == Mine(r)
             shared == Shared(r)
  <2>1. KeptOf(mine, n, shared)
    BY <1>3, <1>4, <1>10 DEF RunnerOK, Kept, Writing
  <2>2. n \in Nat /\ n + 1 = Len(told) /\ shared \in BOOLEAN /\ mine \in Seq(Nat)
    BY <1>4 DEF Shared
  <2>3. Mine(r)' = Append(mine, n + 1)
    BY <1>1, <1>5, <2>2 DEF Mine
  <2>4. Shared(r)' = shared /\ Lines(r)' = n + 1
    BY <1>1, <1>10, <2>2 DEF Shared
  <2> HIDE DEF n, mine, shared
  <2>5. KeptOf(Append(mine, n + 1), n + 1, shared)
    BY <2>1, <2>2, LineWritten
  <2> QED BY <2>3, <2>4, <2>5 DEF Kept, KeptOf
<1> QED BY <1>7, <1>8, <1>9, <1>11, <1>12, <1>13, <1>14 DEF Preserved, RunnerOK

\* Whoever has a stamp keeps it.
LEMMA StampsStay ==
    ASSUME SafetyInv, NEW r \in Starter, Moving(r), NEW q \in Starter, stamp[q] # 0
    PROVE  stamp'[q] = stamp[q]
<1>1. CASE Start(r)
  <2>1. stage[r] = "new" /\ stamp' = [stamp EXCEPT ![r] = now]
    BY <1>1 DEF Start, Moves
  <2>2. stamp[r] = 0 /\ stamp \in [Starter -> 0 .. MaxTime]
    BY <2>1 DEF SafetyInv, RunnerTypes, RunnerOK, Following
  <2> QED BY <2>1, <2>2
<1>2. CASE ~Start(r)
  BY <1>2 DEF Moving, WriteHead, LookForFuzz, RunProbe, Probe, WaitForProbe,
              RunCommand, WriteLine, End
<1> QED BY <1>1, <1>2

\* A step of r preserves what holds of the others.
LEMMA OthersStay ==
    ASSUME SafetyInv, Settled, NEW r \in Starter, Moving(r), Apart(r),
           NEW q \in Starter \ {r}
    PROVE  RunnerOK(q)'
<1>1. /\ stage'[q] = stage[q] /\ statuses'[q] = statuses[q]
      /\ code'[q] = code[q] /\ probes'[q] = probes[q] /\ stamp'[q] = stamp[q]
  BY DEF Apart
<1>2. RunnerOK(q)
  BY DEF SafetyInv
<1>3. Lines(q)' = Lines(q) /\ Writing(q)' = Writing(q)
  BY <1>1 DEF Lines, Writing
<1>4. Following(q)'
  <2>1. Upcoming(q)' = Upcoming(q) /\ Hardened(q)' = Hardened(q)
    BY <1>1, SameRules DEF Upcoming
  <2> QED BY <1>1, <1>2, <2>1 DEF RunnerOK, Following
<1>5. Told(q)'
  BY <1>1, <1>2, SameTold DEF RunnerOK
<1>6. Gate(q)'
  BY <1>1, <1>2, <1>3, SameGate DEF RunnerOK
<1>7. Kept(q)'
  <2> SUFFICES ASSUME Writing(q)
               PROVE  KeptOf(Mine(q), Lines(q), Shared(q))'
    BY <1>3 DEF Kept
  <2> DEFINE n == Lines(q)
             mine == Mine(q)
             shared == Shared(q)
             later == Shared(q)'
  <2>1. stage[q] # "new" /\ stamp[q] # 0
    BY <1>2 DEF Writing, RunnerOK, Following
  <2>2. KeptOf(mine, n, shared) /\ n \in Nat
    BY <1>2, Started DEF RunnerOK, Kept
  <2>3. shared => later
    <3>1. SUFFICES ASSUME NEW w \in Starter \ {q}, stamp[w] = stamp[q]
                   PROVE  stamp'[w] = stamp'[q]
      BY DEF Shared
    <3>2. stamp'[w] = stamp[w]
      BY <2>1, <3>1, StampsStay
    <3> QED BY <1>1, <3>1, <3>2
  <2>4. CASE summary'[stamp[q]][q] = mine
    <3>1. Mine(q)' = mine
      BY <1>1, <2>4 DEF Mine
    <3> HIDE DEF mine, n, shared, later
    <3>2. KeptOf(mine, n, later)
      BY <2>2, <2>3 DEF KeptOf
    <3> QED BY <1>3, <3>1, <3>2 DEF KeptOf, n, later
  <2>5. CASE summary'[stamp[q]][q] = << >> /\ stamp'[r] = stamp[q]
    <3>1. Mine(q)' = << >>
      BY <1>1, <2>5 DEF Mine
    <3>2. later
      BY <1>1, <2>5 DEF Shared
    <3> HIDE DEF mine, n, shared, later
    <3>3. KeptOf(<< >>, n, later)
      BY <2>2, <3>2 DEF KeptOf
    <3> QED BY <1>3, <3>1, <3>3 DEF KeptOf, n, later
  <2> QED BY <2>1, <2>4, <2>5 DEF Apart
<1> QED BY <1>4, <1>5, <1>6, <1>7 DEF RunnerOK

\* Nothing happens but that time passes.
LEMMA TimePasses ==
    ASSUME SafetyInv, Settled,
           now' = now \/ (now < MaxTime /\ now' = now + 1),
           UNCHANGED <<probes, stamp, stage, statuses, code, summary>>
    PROVE  SafetyInv'
<1>1. ProbesInv'
  BY ProbesStay
<1>2. RunnerTypes'
  <2>1. now' \in 1 .. MaxTime
    BY SettingsAssumption DEF SafetyInv, RunnerTypes
  <2> QED BY <2>1, SettingTyped DEF SafetyInv, RunnerTypes
<1>3. ASSUME NEW r \in Starter
      PROVE  RunnerOK(r)'
  <2>1. RunnerOK(r)
    BY DEF SafetyInv
  <2>2. /\ Lines(r)' = Lines(r) /\ Writing(r)' = Writing(r)
        /\ Mine(r)' = Mine(r) /\ Upcoming(r)' = Upcoming(r)
        /\ Hardened(r)' = Hardened(r)
    BY SameRules DEF Lines, Writing, Mine, Upcoming
  <2>3. Following(r)'
    BY <2>1, <2>2 DEF RunnerOK, Following
  <2>4. Told(r)'
    BY <2>1, SameTold DEF RunnerOK
  <2>5. Gate(r)'
    BY <2>1, <2>2, SameGate DEF RunnerOK
  <2>6. Kept(r)'
    BY <2>1, <2>2, SameKept DEF RunnerOK
  <2> QED BY <2>3, <2>4, <2>5, <2>6 DEF RunnerOK
<1> QED BY <1>1, <1>2, <1>3 DEF SafetyInv

-----------------------------------------------------------------------------
(* The invariant holds, and says what the properties say.                   *)

LEMMA SafetyStarts == Init => SafetyInv
<1> SUFFICES ASSUME Init PROVE SafetyInv
  OBVIOUS
<1>1. PICK set \in Settings :
        /\ script = set.script /\ ProbesInit(set.faults)
        /\ hardened = set.hardened /\ server = set.server
  BY DEF Init
<1>2. /\ script \in [Starter -> Scripts] /\ hardened \in BOOLEAN
      /\ server \in BOOLEAN /\ "online" \notin faults
      /\ probes = [s \in Starter |-> Idle] /\ MaxTime \in Nat \ {0}
  BY <1>1, SettingsAssumption DEF ProbesInit
<1>3. /\ now = 1 /\ stamp = [r \in Starter |-> 0]
      /\ stage = [r \in Starter |-> "new"]
      /\ statuses = [r \in Starter |-> << >>] /\ code = [r \in Starter |-> 0]
      /\ summary = [second \in 1 .. MaxTime |-> NoLines]
  BY DEF Init
<1>4. ProbesInv
  BY <1>2, IdleOK DEF ProbesInv
<1>5. RunnerTypes
  <2>1. << >> \in Seq(Int) /\ << >> \in Seq(Nat) /\ 0 \in 0 .. MaxTime
        /\ 1 \in 1 .. MaxTime
    BY <1>2, EmptySeq
  <2>2. NoLines \in [Starter -> Seq(Nat)]
    BY <2>1 DEF NoLines
  <2> HIDE DEF NoLines
  <2>3. /\ now \in 1 .. MaxTime /\ stamp \in [Starter -> 0 .. MaxTime]
        /\ code \in [Starter -> Int]
        /\ summary \in [1 .. MaxTime -> [Starter -> Seq(Nat)]]
    BY <1>3, <2>1, <2>2
  <2>4. stage \in [Starter -> Stages] /\ statuses \in [Starter -> Seq(Int)]
    BY <1>3, <2>1 DEF Stages
  <2> QED BY <1>2, <2>3, <2>4 DEF RunnerTypes
<1>6. ASSUME NEW r \in Starter
      PROVE  RunnerOK(r)
  <2>1. /\ stage[r] = "new" /\ stamp[r] = 0 /\ statuses[r] = << >>
        /\ code[r] = 0 /\ Len(statuses[r]) = 0 /\ Lines(r) = 0
    BY <1>3 DEF Lines
  <2>2. Following(r) /\ Told(r)
    BY <2>1 DEF Following, Told
  <2>3. Gate(r)
    BY <2>1 DEF Gate, GateOf
  <2>4. Kept(r)
    BY <2>1 DEF Kept, Writing
  <2> QED BY <2>2, <2>3, <2>4 DEF RunnerOK
<1> QED BY <1>4, <1>5, <1>6 DEF SafetyInv

LEMMA SafetyStays == SafetyInv /\ [Next]_vars => SafetyInv'
<1> SUFFICES ASSUME SafetyInv, [Next]_vars PROVE SafetyInv'
  OBVIOUS
<1>1. Settled
  BY SettingStays
<1>2. ASSUME NEW r \in Starter, Moving(r)
      PROVE  SafetyInv'
  <2>1. Preserved(r)
    BY <1>1, <1>2, StartStep, WriteHeadStep, LookForFuzzStep, RunProbeStep,
       ProbeMoves, WaitForProbeStep, RunCommandStep, WriteLineStep, EndStep
       DEF Moving
  <2>2. \A q \in Starter \ {r} : RunnerOK(q)'
    BY <1>1, <1>2, <2>1, OthersStay DEF Preserved
  <2> QED BY <2>1, <2>2 DEF Preserved, SafetyInv
<1>3. CASE Tick
  BY <1>1, <1>3, TimePasses DEF Tick
<1>4. CASE UNCHANGED vars
  BY <1>1, <1>4, TimePasses DEF vars
<1> QED BY <1>2, <1>3, <1>4 DEF Next, Moving

LEMMA SafetyHolds == Spec => []SafetyInv
BY SafetyStarts, SafetyStays, PTL DEF Spec

\* A probe that returned has removed what it made, unless it was refused, and
\* no case asks the library in the environment of the case before.
THEOREM ProbesAreTidy == Spec => []ProbeLeavesNothing
<1>1. SafetyInv => ProbeLeavesNothing
  BY DEF SafetyInv, ProbesInv, ProbeOK, Tidy, OwnEnvironment, ProbeLeavesNothing
<1> QED BY <1>1, SafetyHolds, PTL

\* A finding of the library is known to whoever relies on an exit status.
THEOREM VerdictsReachTheGate == Spec => []VerdictReachesTheGate
<1>1. ASSUME SafetyInv, NEW r \in Starter
      PROVE  /\ \A k \in DOMAIN statuses[r] :
                  Honest(Steps(r)[k], Hardened(r), statuses[r][k])
             /\ (script[r] = "ci" /\ Ended(r)) =>
                  LET failed == {k \in DOMAIN statuses[r] :
                                   Failing(statuses[r][k])}
                  IN  IF failed = {} THEN code[r] = 0
                      ELSE \E last \in failed :
                             /\ code[r] = statuses[r][last]
                             /\ \A k \in failed : k <= last
  <2>1. RunnerOK(r) /\ statuses[r] \in Seq(Int)
    BY <1>1 DEF SafetyInv, RunnerTypes
  <2>2. DOMAIN statuses[r] = 1 .. Len(statuses[r])
    BY <2>1, LenProperties
  <2>3. \A k \in DOMAIN statuses[r] :
          Honest(Steps(r)[k], Hardened(r), statuses[r][k])
    BY <2>1, <2>2 DEF RunnerOK, Told
  <2>4. (script[r] = "ci" /\ Ended(r)) =>
          GateOf(code[r], statuses[r], Len(statuses[r]))
    BY <2>1 DEF RunnerOK, Gate, Lines, Ended
  <2> QED BY <2>2, <2>3, <2>4 DEF GateOf
<1>2. SafetyInv => VerdictReachesTheGate
  BY <1>1 DEF VerdictReachesTheGate, Honest
<1> QED BY <1>2, SafetyHolds, PTL

\* Two runners of one second lose the lines before the later head, no others.
THEOREM SummariesKeepLines == Spec => []SummaryKeepsLines
<1>1. SafetyInv => SummaryKeepsLines
  <2> SUFFICES ASSUME SafetyInv, NEW r \in Starter,
                      stage[r] \in {"step", "ended"}, statuses[r] # << >>
               PROVE  LET mine == summary[stamp[r]][r]
                          written == Len(statuses[r])
                      IN  /\ \A k \in DOMAIN mine :
                               mine[k] = written - Len(mine) + k
                          /\ Len(mine) < written + 1 =>
                               \E q \in Starter \ {r} : stamp[q] = stamp[r]
    BY DEF SummaryKeepsLines
  <2>1. Writing(r) /\ Lines(r) = Len(statuses[r]) /\ Kept(r)
    BY DEF SafetyInv, RunnerOK, Writing, Lines
  <2>2. Mine(r) \in Seq(Nat)
    BY Started
  <2>3. DOMAIN Mine(r) = 1 .. Len(Mine(r))
    BY <2>2, LenProperties
  <2>4. KeptOf(Mine(r), Len(statuses[r]), Shared(r))
    BY <2>1 DEF Kept
  <2> QED BY <2>3, <2>4 DEF KeptOf, Mine, Shared
<1> QED BY <1>1, SafetyHolds, PTL

=============================================================================
