------------------------------ MODULE ActiveMap ------------------------------
(***************************************************************************)
(* The active-map controller of the AV1 screen benchmark                    *)
(* (src/av1_screen_bench/src/main.rs, ActiveMapController) driven by the    *)
(* frame loop of run_configuration.  The screen is cut into 16x16 blocks;   *)
(* for each frame the detector (YuvBuffer::update_active_map) names the     *)
(* blocks that changed, the controller turns them into the blocks the       *)
(* encoder may not skip, and the encoder keeps its old picture of the rest. *)
(*                                                                          *)
(* One step is one iteration of the frame loop: detection, the controller's *)
(* whole apply() and the hand-over to the encoder run back to back on one   *)
(* thread.  Which blocks changed is the input of the step; ScreenEncoder    *)
(* puts the pixels back.                                                    *)
(***************************************************************************)
EXTENDS Integers, FiniteSets

CONSTANTS
    Rows, Cols,       \* the block grid (AomEncoder::active_map_dimensions)
    FpsValues,        \* the frame rates a corpus may declare
    Strategies,       \* the ActiveMapStrategy values in play
    Frames,           \* bound: frames of the corpus
    HoldFrames,       \* ActiveMapController::HOLD_FRAMES (8)
    RecoverySeconds,  \* ::PERIODIC_RECOVERY_SECONDS (5)
    RecoveryFrames,   \* ::PERIODIC_RECOVERY_FRAMES (5)
    ScenePercent      \* ::SCENE_CHANGE_PERCENT (60)

AllStrategies ==
    {"Naive", "RotatingRefresh", "Warmup", "HoldExpanded", "Recovery"}

ASSUME GridAssumption == /\ Rows \in Nat \ {0}
                         /\ Cols \in Nat \ {0}

ASSUME RateAssumption == FpsValues \subseteq Nat \ {0}

ASSUME StrategyAssumption == Strategies \subseteq AllStrategies

ASSUME TuningAssumption == /\ Frames \in Nat
                           /\ HoldFrames \in Nat \ {0}
                           /\ RecoverySeconds \in Nat \ {0}
                           /\ RecoveryFrames \in Nat \ {0}
                           /\ ScenePercent \in Nat

VARIABLES
    strategy,   \* the controller's strategy, fixed when it is built
    fps,        \* its frame rate, fixed and at least 1
    frame,      \* frame_index of the next frame
    active,     \* active_map: the blocks the encoder may not skip
    hold,       \* frames each block stays active without a new change
    remaining   \* full_active_remaining: frames of a full burst to come

\* History, kept for the properties only: nothing in the code reads it.
VARIABLES
    detected,   \* the blocks the detector named in the last frame
    age,        \* frames since each block was named, HoldFrames for "longer"
    idle,       \* frames since each block was last active
    sceneAge    \* frames since the last scene change, fps for "longer"

control == <<strategy, fps, frame, active, hold, remaining>>
history == <<detected, age, idle, sceneAge>>
vars == <<strategy, fps, frame, active, hold, remaining,
          detected, age, idle, sceneAge>>

-----------------------------------------------------------------------------
(* The grid and the arithmetic of the controller.                           *)

Block == (0 .. Rows - 1) \X (0 .. Cols - 1)

\* Where a block sits in the row-major map.
Index(b) == b[1] * Cols + b[2]

Monus(m, n) == IF m > n THEN m - n ELSE 0
AtLeast(m, n) == IF m > n THEN m ELSE n
AtMost(m, n) == IF m < n THEN m ELSE n

\* The 3x3 square around a block, clipped at the edges of the map.
Near(b) == {n \in Block :
              /\ n[1] \in Monus(b[1], 1) .. AtMost(b[1] + 1, Rows - 1)
              /\ n[2] \in Monus(b[2], 1) .. AtMost(b[2] + 1, Cols - 1)}

Expanded(changed) == UNION {Near(b) : b \in changed}

\* Mutant: a countdown that does not stop at zero.
HoldWrapping(changed) ==
    [b \in Block |-> IF b \in Expanded(changed) THEN HoldFrames
                                                ELSE hold[b] - 1]

\* Mutant: the hold of the changed blocks only, without their neighbours.
HoldUnexpanded(changed) ==
    [b \in Block |-> IF b \in changed THEN HoldFrames ELSE Monus(hold[b], 1)]

\* Mutant: a running hold is not re-armed.
HoldNotRearmed(changed) ==
    [b \in Block |-> IF b \in Expanded(changed) /\ hold[b] = 0
                       THEN HoldFrames
                       ELSE Monus(hold[b], 1)]

\* The first loop of expand_and_hold grows the change, the second re-arms or
\* counts down the hold of every block.
HoldAfter(changed) ==
    [b \in Block |-> IF b \in Expanded(changed) THEN HoldFrames
                                                ELSE Monus(hold[b], 1)]

Held(h) == {b \in Block : h[b] # 0}

\* Mutant: one frame too many between the turns.
TurnLate(n) == {b \in Block : (Index(b) + n) % (fps + 1) = 0}

\* apply_rotating_active_refresh: the blocks whose turn it is.
Turn(n) == {b \in Block : (Index(b) + n) % fps = 0}

RecoveryPeriod == fps * RecoverySeconds

SceneChange(changed) ==
    /\ frame >= fps
    /\ Cardinality(changed) * 100 >= Cardinality(Block) * ScenePercent

\* Mutant: a periodic burst overrides the scene burst instead of outlasting it.
BurstOverridden(changed) ==
    IF frame > 0 /\ frame % RecoveryPeriod = 0
      THEN RecoveryFrames
      ELSE IF SceneChange(changed) THEN AtLeast(remaining, fps \div 2)
                                   ELSE remaining

\* The two conditions that lengthen a full burst, in the order of the code.
BurstBefore(changed) ==
    LET afterScene == IF SceneChange(changed)
                        THEN AtLeast(remaining, fps \div 2)
                        ELSE remaining
    IN  IF frame > 0 /\ frame % RecoveryPeriod = 0
          THEN AtLeast(afterScene, RecoveryFrames)
          ELSE afterScene

-----------------------------------------------------------------------------

Init ==
    /\ strategy \in Strategies
    /\ \E declared \in FpsValues : fps = AtLeast(declared, 1)
    /\ frame = 0
    /\ active = Block
    /\ hold = [b \in Block |-> 0]
    /\ remaining = 0
    /\ detected = {}
    /\ age = [b \in Block |-> HoldFrames]
    /\ idle = [b \in Block |-> 0]
    /\ sceneAge = fps

\* The detector has no previous frame at index 0 and names every block.
Detect(changed) ==
    /\ frame < Frames
    /\ detected' = IF frame = 0 THEN Block ELSE changed
    /\ frame' = frame + 1
    /\ UNCHANGED <<strategy, fps>>

Older(a) == IF a < HoldFrames THEN a + 1 ELSE HoldFrames

Remember ==
    /\ age' = [b \in Block |-> IF b \in detected' THEN 0 ELSE Older(age[b])]
    /\ idle' = [b \in Block |-> IF b \in active' THEN 0 ELSE idle[b] + 1]
    /\ sceneAge' = IF SceneChange(detected')
                     THEN 0
                     ELSE AtMost(sceneAge + 1, fps)

NaiveFrame(changed) ==
    /\ strategy = "Naive"
    /\ Detect(changed)
    /\ active' = detected'
    /\ UNCHANGED <<hold, remaining>>
    /\ Remember

\* Mutant: the refresh replaces the map instead of adding to it.
RefreshReplaces(changed) ==
    /\ strategy = "RotatingRefresh"
    /\ Detect(changed)
    /\ active' = Turn(frame)
    /\ UNCHANGED <<hold, remaining>>
    /\ Remember

RotatingRefreshFrame(changed) ==
    /\ strategy = "RotatingRefresh"
    /\ Detect(changed)
    /\ active' = detected' \cup Turn(frame)
    /\ UNCHANGED <<hold, remaining>>
    /\ Remember

WarmupFrame(changed) ==
    /\ strategy = "Warmup"
    /\ Detect(changed)
    /\ active' = IF frame < fps THEN Block ELSE detected'
    /\ UNCHANGED <<hold, remaining>>
    /\ Remember

HoldExpandedFrame(changed) ==
    /\ strategy = "HoldExpanded"
    /\ Detect(changed)
    /\ hold' = HoldAfter(detected')
    /\ active' = Held(hold')
    /\ UNCHANGED remaining
    /\ Remember

\* Mutant: a burst that is never counted down.
BurstWithoutEnd(changed) ==
    /\ strategy = "Recovery"
    /\ Detect(changed)
    /\ hold' = HoldAfter(detected')
    /\ remaining' = BurstBefore(detected')
    /\ active' = IF frame < fps \/ remaining' > 0 THEN Block ELSE Held(hold')
    /\ Remember

RecoveryFrame(changed) ==
    /\ strategy = "Recovery"
    /\ Detect(changed)
    /\ hold' = HoldAfter(detected')
    /\ LET burst == BurstBefore(detected')
       IN  IF frame < fps \/ burst > 0
             THEN active' = Block /\ remaining' = Monus(burst, 1)
             ELSE active' = Held(hold') /\ remaining' = burst
    /\ Remember

Frame(changed) ==
    \/ NaiveFrame(changed)
    \/ RotatingRefreshFrame(changed)
    \/ WarmupFrame(changed)
    \/ HoldExpandedFrame(changed)
    \/ RecoveryFrame(changed)

Next == \E changed \in SUBSET Block : Frame(changed)

Spec == Init /\ [][Next]_vars

-----------------------------------------------------------------------------
(* Properties.                                                              *)

\* Every variable has its type: in particular the hold of a block stays a
\* count of at most HOLD_FRAMES and a full burst never runs negative, so
\* neither u8 nor usize subtraction wraps.
TypeOK ==
    /\ strategy \in Strategies
    /\ fps \in Nat \ {0}
    /\ frame \in 0 .. Frames
    /\ active \subseteq Block
    /\ hold \in [Block -> 0 .. HoldFrames]
    /\ remaining \in Nat
    /\ detected \subseteq Block
    /\ age \in [Block -> 0 .. HoldFrames]
    /\ idle \in [Block -> Nat]
    /\ sceneAge \in 0 .. fps

\* No strategy drops a change: whatever the detector named in a frame is in
\* the map the encoder gets for that frame, through the hold, the bursts and
\* the refresh alike.
ChangedIsActive == detected \subseteq active

\* The longest a block may be left out of the map.
RefreshPeriod == IF strategy = "RotatingRefresh" THEN fps ELSE RecoveryPeriod

\* The rotating refresh visits every block once in any fps consecutive frames
\* and the recovery burst once in any five seconds, whatever the screen does:
\* apply_rotating_active_refresh and the periodic branch of apply().
BoundedNeglect ==
    strategy \in {"RotatingRefresh", "Recovery"} =>
        \A b \in Block : idle[b] < RefreshPeriod

\* Warmup and recovery code the whole screen for the first second.
FirstSecond ==
    (strategy \in {"Warmup", "Recovery"} /\ frame <= fps) => active = Block

\* After a scene change the whole screen is coded for half a second.
SceneBurst ==
    (strategy = "Recovery" /\ sceneAge < fps \div 2) => active = Block

\* From each multiple of the period it is coded for RecoveryFrames frames.
PeriodicBurst ==
    (/\ strategy = "Recovery"
     /\ frame > RecoveryPeriod
     /\ (frame - 1) % RecoveryPeriod < RecoveryFrames) => active = Block

\* The whole screen is coded for as long as each of the three reasons asks,
\* even when a periodic burst begins or ends inside a scene burst: the bursts
\* share full_active_remaining and none cuts another short.
FullWhenDue == FirstSecond /\ SceneBurst /\ PeriodicBurst

\* A burst ends: when neither a scene change nor a recovery period is recent
\* enough to justify one, recovery codes only what the hold asks for.
BurstEnds ==
    (/\ strategy = "Recovery"
     /\ frame > fps
     /\ sceneAge >= fps \div 2
     /\ frame > RecoveryPeriod =>
            (frame - 1) % RecoveryPeriod >= RecoveryFrames)
        => active = Held(hold)

\* The countdown of a block is how long ago its neighbourhood last changed:
\* expand_and_hold neither forgets a change early nor keeps one too long.
HoldIsRecency ==
    strategy \in {"HoldExpanded", "Recovery"} =>
        \A b \in Block :
            /\ \A n \in Near(b) : HoldFrames - age[n] <= hold[b]
            /\ \E n \in Near(b) : HoldFrames - age[n] = hold[b]

\* The held map is the window of recent changes: ActivityWindow, with the
\* expansion seen from the block that receives it.
Window == INSTANCE ActivityWindow WITH Hold <- HoldFrames

WindowSpec == Window!Spec

=============================================================================
