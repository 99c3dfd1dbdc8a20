--------------------------- MODULE ActiveMapProofs ---------------------------
(***************************************************************************)
(* Theorems about ActiveMap, for every grid, frame rate and tuning, and     *)
(* about ScreenEncoder, whose steps are steps of ActiveMap with what the    *)
(* detector finds for input: what is shown of the controller holds of the   *)
(* composition.                                                             *)
(***************************************************************************)
EXTENDS ScreenEncoder, Arithmetic, TLAPS

-----------------------------------------------------------------------------
(* The periods.                                                             *)

\* The frame rate and the recovery period count frames.
LEMMA PeriodPositive ==
    ASSUME fps \in Nat \ {0}
    PROVE  RecoveryPeriod \in Nat \ {0}
BY TuningAssumption DEF RecoveryPeriod

-----------------------------------------------------------------------------
(* The grid.                                                                *)

\* A block of the grid has a row, a column and a place in the map.
LEMMA BlockCoordinates ==
    ASSUME NEW b \in Block
    PROVE  /\ b[1] \in 0 .. Rows - 1
           /\ b[2] \in 0 .. Cols - 1
           /\ b = <<b[1], b[2]>>
           /\ Index(b) \in Nat
<1>1. b[1] \in 0 .. Rows - 1 /\ b[2] \in 0 .. Cols - 1 /\ b = <<b[1], b[2]>>
  BY DEF Block
<1>2. b[1] * Cols \in Nat
  BY <1>1, GridAssumption
<1> QED
  BY <1>1, <1>2, GridAssumption DEF Index

\* A block is in its own neighbourhood.
LEMMA NearSelf ==
    ASSUME NEW b \in Block
    PROVE  b \in Near(b)
BY BlockCoordinates, GridAssumption DEF Near, Monus, AtMost

\* Being near is mutual: clipping at the edges does not break it.
LEMMA NearSymmetric ==
    ASSUME NEW b \in Block, NEW n \in Near(b)
    PROVE  n \in Block /\ b \in Near(n)
<1>1. n \in Block
  BY DEF Near
<1>2. /\ n[1] \in Monus(b[1], 1) .. AtMost(b[1] + 1, Rows - 1)
      /\ n[2] \in Monus(b[2], 1) .. AtMost(b[2] + 1, Cols - 1)
  BY DEF Near
<1>3. /\ b[1] \in Monus(n[1], 1) .. AtMost(n[1] + 1, Rows - 1)
      /\ b[2] \in Monus(n[2], 1) .. AtMost(n[2] + 1, Cols - 1)
  BY <1>1, <1>2, BlockCoordinates, GridAssumption DEF Monus, AtMost
<1> QED
  BY <1>1, <1>3 DEF Near

\* The changes spread to a block exactly when one of them is near it.
LEMMA ExpandedIsNear ==
    ASSUME NEW changed \in SUBSET Block, NEW b \in Block
    PROVE  b \in Expanded(changed) <=> \E n \in Near(b) : n \in changed
BY NearSymmetric DEF Expanded

-----------------------------------------------------------------------------
(* Type correctness.                                                        *)

\* A frame extends the history without leaving its types.
LEMMA RememberType ==
    ASSUME TypeOK, detected' \subseteq Block, active' \subseteq Block,
           Remember, fps' = fps
    PROVE  /\ age' \in [Block -> 0 .. HoldFrames]
           /\ idle' \in [Block -> Nat]
           /\ sceneAge' \in 0 .. fps'
<1>1. age' \in [Block -> 0 .. HoldFrames]
  BY TuningAssumption DEF TypeOK, Remember, Older
<1>2. idle' \in [Block -> Nat]
  BY DEF TypeOK, Remember
<1>3. sceneAge' \in 0 .. fps'
  BY DEF TypeOK, Remember, AtMost
<1> QED
  BY <1>1, <1>2, <1>3

\* The detector's part of a frame keeps its types.
LEMMA DetectType ==
    ASSUME TypeOK, NEW changed \in SUBSET Block, Detect(changed)
    PROVE  /\ strategy' = strategy /\ strategy' \in Strategies
           /\ fps' = fps /\ fps' \in Nat \ {0}
           /\ frame' = frame + 1 /\ frame' \in 0 .. Frames
           /\ detected' \subseteq Block
BY TuningAssumption DEF TypeOK, Detect

\* Re-arming and counting down stay within the hold of the code.
LEMMA HoldType ==
    ASSUME TypeOK, NEW changed
    PROVE  HoldAfter(changed) \in [Block -> 0 .. HoldFrames]
BY TuningAssumption DEF TypeOK, HoldAfter, Monus

\* The length of a burst is a number of frames.
LEMMA BurstType ==
    ASSUME TypeOK, NEW changed
    PROVE  BurstBefore(changed) \in Nat
<1>1. fps \div 2 \in Nat
  BY DEF TypeOK
<1> QED
  BY <1>1, TuningAssumption DEF TypeOK, BurstBefore, AtLeast

\* The controller starts well typed.
LEMMA InitType == Init => TypeOK
<1> SUFFICES ASSUME Init PROVE TypeOK
  OBVIOUS
<1>1. fps \in Nat \ {0}
  BY RateAssumption DEF Init, AtLeast
<1>2. sceneAge \in 0 .. fps
  BY <1>1 DEF Init
<1> QED
  BY <1>1, <1>2, TuningAssumption DEF Init, TypeOK

\* Every frame of every strategy keeps the types.
LEMMA NextType == TypeOK /\ [Next]_vars => TypeOK'
<1> SUFFICES ASSUME TypeOK, [Next]_vars
             PROVE  TypeOK'
  OBVIOUS
<1> USE DEF TypeOK
<1>1. ASSUME NEW changed \in SUBSET Block, NaiveFrame(changed)
      PROVE  TypeOK'
  <2>1. active' \subseteq Block /\ detected' \subseteq Block
    BY <1>1, DetectType DEF NaiveFrame
  <2> QED
    BY <1>1, <2>1, DetectType, RememberType DEF NaiveFrame
<1>2. ASSUME NEW changed \in SUBSET Block, RotatingRefreshFrame(changed)
      PROVE  TypeOK'
  <2>1. active' \subseteq Block /\ detected' \subseteq Block
    BY <1>2, DetectType DEF RotatingRefreshFrame, Turn
  <2> QED
    BY <1>2, <2>1, DetectType, RememberType DEF RotatingRefreshFrame
<1>3. ASSUME NEW changed \in SUBSET Block, WarmupFrame(changed)
      PROVE  TypeOK'
  <2>1. active' \subseteq Block /\ detected' \subseteq Block
    BY <1>3, DetectType DEF WarmupFrame
  <2> QED
    BY <1>3, <2>1, DetectType, RememberType DEF WarmupFrame
<1>4. ASSUME NEW changed \in SUBSET Block, HoldExpandedFrame(changed)
      PROVE  TypeOK'
  <2>1. active' \subseteq Block /\ detected' \subseteq Block
    BY <1>4, DetectType DEF HoldExpandedFrame, Held
  <2>2. hold' \in [Block -> 0 .. HoldFrames]
    BY <1>4, HoldType DEF HoldExpandedFrame
  <2> QED
    BY <1>4, <2>1, <2>2, DetectType, RememberType DEF HoldExpandedFrame
<1>5. ASSUME NEW changed \in SUBSET Block, RecoveryFrame(changed)
      PROVE  TypeOK'
  <2>1. active' \subseteq Block /\ detected' \subseteq Block
    BY <1>5, DetectType DEF RecoveryFrame, Held
  <2>2. hold' \in [Block -> 0 .. HoldFrames]
    BY <1>5, HoldType DEF RecoveryFrame
  <2>3. remaining' \in Nat
    BY <1>5, BurstType DEF RecoveryFrame, Monus
  <2> QED
    BY <1>5, <2>1, <2>2, <2>3, DetectType, RememberType DEF RecoveryFrame
<1>6. CASE UNCHANGED vars
  BY <1>6 DEF vars
<1> QED
  BY <1>1, <1>2, <1>3, <1>4, <1>5, <1>6 DEF Next, Frame

\* Every reachable state is well typed: the hold of a block and the burst
\* counter of ActiveMapController never leave their ranges.
THEOREM TypeCorrect == Spec => []TypeOK
<1> QED
  BY InitType, NextType, PTL DEF Spec

-----------------------------------------------------------------------------
(* No change is dropped.                                                    *)

\* A changed block is held: expansion re-arms it together with its neighbours.
LEMMA ChangedIsHeld ==
    ASSUME TypeOK, NEW changed \in SUBSET Block
    PROVE  changed \subseteq Held(HoldAfter(changed))
<1> SUFFICES ASSUME NEW b \in changed
             PROVE  b \in Held(HoldAfter(changed))
  OBVIOUS
<1>1. b \in Expanded(changed)
  BY NearSelf DEF Expanded
<1>2. HoldAfter(changed)[b] = HoldFrames
  BY <1>1 DEF HoldAfter
<1> QED
  BY <1>2, TuningAssumption DEF Held

\* No strategy ever withholds from the encoder a block the detector named.
THEOREM NothingDropped == Spec => []ChangedIsActive
<1>1. Init => ChangedIsActive
  BY DEF Init, ChangedIsActive
<1>2. TypeOK /\ ChangedIsActive /\ [Next]_vars => ChangedIsActive'
  <2> SUFFICES ASSUME TypeOK, ChangedIsActive, [Next]_vars
               PROVE  ChangedIsActive'
    OBVIOUS
  <2>1. ASSUME NEW changed \in SUBSET Block, Frame(changed)
        PROVE  ChangedIsActive'
    <3>1. detected' \in SUBSET Block
      BY <2>1 DEF Frame, Detect, NaiveFrame, RotatingRefreshFrame,
                  WarmupFrame, HoldExpandedFrame, RecoveryFrame
    <3>2. CASE NaiveFrame(changed) \/ RotatingRefreshFrame(changed)
               \/ WarmupFrame(changed)
      BY <3>1, <3>2 DEF ChangedIsActive, NaiveFrame, RotatingRefreshFrame,
                        WarmupFrame
    <3>3. CASE HoldExpandedFrame(changed)
      BY <3>1, <3>3, ChangedIsHeld DEF ChangedIsActive, HoldExpandedFrame
    <3>4. CASE RecoveryFrame(changed)
      BY <3>1, <3>4, ChangedIsHeld DEF ChangedIsActive, RecoveryFrame
    <3> QED
      BY <2>1, <3>2, <3>3, <3>4 DEF Frame
  <2>2. CASE UNCHANGED vars
    BY <2>2 DEF vars, ChangedIsActive
  <2> QED
    BY <2>1, <2>2 DEF Next
<1> QED
  BY <1>1, <1>2, TypeCorrect, PTL DEF Spec

-----------------------------------------------------------------------------
(* No block is neglected for longer than its period.                        *)

\* How long a block may already have been idle, by the turn it waits for.
Waited(b) ==
    IF strategy = "RotatingRefresh"
      THEN (Index(b) + (frame - 1)) % fps
      ELSE (frame - 1) % RecoveryPeriod

\* The strengthening of BoundedNeglect: idle never outruns the distance to
\* the block's last turn.  The bound itself is not inductive, since it does
\* not say when the next turn comes.
NeglectInv ==
    strategy \in {"RotatingRefresh", "Recovery"} =>
        \A b \in Block : IF frame = 0 THEN idle[b] = 0 ELSE idle[b] <= Waited(b)

\* A remainder is one more than the last one, or it is somebody's turn.
LEMMA NextTurn ==
    ASSUME NEW k \in Nat, NEW n \in Nat, n > 0, NEW p \in Nat \ {0},
           (k + n) % p # 0
    PROVE  (k + n) % p = ((k + (n - 1)) % p) + 1
<1>1. k + (n - 1) \in Int /\ (k + (n - 1)) + 1 = k + n
  OBVIOUS
<1> QED
  BY <1>1, ModStep

\* One frame of the rotating refresh: a block whose turn it is starts over,
\* any other waits one frame longer.
LEMMA RefreshStep ==
    ASSUME TypeOK, NeglectInv, NEW changed \in SUBSET Block,
           RotatingRefreshFrame(changed)
    PROVE  NeglectInv'
<1> SUFFICES ASSUME NEW b \in Block
             PROVE  idle'[b] <= (Index(b) + frame) % fps
  BY DEF NeglectInv, Waited, RotatingRefreshFrame, Detect, TypeOK
<1> DEFINE k == Index(b)
<1>1. k \in Nat /\ frame \in Nat /\ fps \in Nat \ {0} /\ idle[b] \in Nat
  BY BlockCoordinates, TuningAssumption DEF TypeOK
<1>2. (k + frame) % fps \in 0 .. fps - 1
  <2>1. k + frame \in Int
    BY <1>1
  <2> QED
    BY <1>1, <2>1, Division
<1>3. idle'[b] = IF b \in active' THEN 0 ELSE idle[b] + 1
  BY DEF RotatingRefreshFrame, Remember
<1>4. CASE b \in active'
  BY <1>1, <1>2, <1>3, <1>4
<1>5. CASE b \notin active'
  <2>1. frame > 0
    BY <1>1, <1>5 DEF RotatingRefreshFrame, Detect
  <2>2. (k + frame) % fps # 0
    BY <1>5 DEF RotatingRefreshFrame, Turn
  <2>3. (k + frame) % fps = ((k + (frame - 1)) % fps) + 1
    BY <1>1, <2>1, <2>2, NextTurn
  <2>4. idle[b] <= (k + (frame - 1)) % fps
    BY <1>1, <2>1 DEF NeglectInv, Waited, RotatingRefreshFrame
  <2>5. (k + (frame - 1)) % fps \in Int
    <3>1. k + (frame - 1) \in Int
      BY <1>1
    <3> QED
      BY <1>1, <3>1, Division
  <2> HIDE DEF k
  <2>6. idle[b] + 1 <= (k + frame) % fps
    BY <1>1, <2>3, <2>4, <2>5
  <2> QED
    BY <1>3, <1>5, <2>6 DEF k
<1> QED
  BY <1>4, <1>5

\* One frame of the recovery: at a multiple of the period every block is
\* coded, otherwise the period has one frame less to go.
LEMMA RecoveryStep ==
    ASSUME TypeOK, NeglectInv, NEW changed \in SUBSET Block,
           RecoveryFrame(changed)
    PROVE  NeglectInv'
<1> SUFFICES ASSUME NEW b \in Block
             PROVE  idle'[b] <= frame % RecoveryPeriod
  BY DEF NeglectInv, Waited, RecoveryFrame, Detect, TypeOK, RecoveryPeriod
<1> DEFINE p == RecoveryPeriod
<1>1. p \in Nat \ {0} /\ frame \in Nat /\ fps \in Nat \ {0} /\ idle[b] \in Nat
  BY PeriodPositive, TuningAssumption DEF TypeOK
<1>2. frame % p \in 0 .. p - 1
  <2>1. frame \in Int
    BY <1>1
  <2> QED
    BY <1>1, <2>1, Division
<1>3. idle'[b] = IF b \in active' THEN 0 ELSE idle[b] + 1
  BY DEF RecoveryFrame, Remember
<1>4. CASE b \in active'
  BY <1>1, <1>2, <1>3, <1>4
<1>5. CASE b \notin active'
  <2>1. ~(frame < fps \/ BurstBefore(detected') > 0)
    BY <1>5 DEF RecoveryFrame
  <2>2. frame > 0
    BY <1>1, <2>1
  <2>3. frame % p # 0
    <3> SUFFICES ASSUME frame % p = 0
                 PROVE  BurstBefore(detected') > 0
      BY <2>1
    <3>1. fps \div 2 \in Nat
      BY <1>1
    <3> QED
      BY <2>2, <3>1, TuningAssumption DEF BurstBefore, AtLeast, TypeOK
  <2>4. frame % p = ((frame - 1) % p) + 1
    <3>1. frame - 1 \in Int /\ (frame - 1) + 1 = frame
      BY <1>1
    <3> QED
      BY <1>1, <2>3, <3>1, ModStep
  <2>5. idle[b] <= (frame - 1) % p
    BY <1>1, <2>2 DEF NeglectInv, Waited, RecoveryFrame
  <2>6. (frame - 1) % p \in Int
    <3>1. frame - 1 \in Int
      BY <1>1
    <3> QED
      BY <1>1, <3>1, Division
  <2> HIDE DEF p
  <2>7. idle[b] + 1 <= frame % p
    BY <1>1, <2>4, <2>5, <2>6
  <2> QED
    BY <1>3, <1>5, <2>7 DEF p
<1> QED
  BY <1>4, <1>5

\* The bound follows: a remainder is below its period.
LEMMA NeglectInvBounds == TypeOK /\ NeglectInv => BoundedNeglect
<1> SUFFICES ASSUME TypeOK, NeglectInv,
                    strategy \in {"RotatingRefresh", "Recovery"},
                    NEW b \in Block
             PROVE  idle[b] < RefreshPeriod
  BY DEF BoundedNeglect
<1> DEFINE p == RefreshPeriod
           x == IF strategy = "RotatingRefresh" THEN Index(b) + (frame - 1)
                                                ELSE frame - 1
<1>1. p \in Nat \ {0}
  BY PeriodPositive DEF RefreshPeriod, TypeOK
<1>2. x \in Int /\ frame \in Nat /\ idle[b] \in Nat
  BY BlockCoordinates, TuningAssumption DEF TypeOK
<1>3. x % p \in 0 .. p - 1
  BY <1>1, <1>2, Division
<1>4. CASE frame = 0
  BY <1>1, <1>4 DEF NeglectInv
<1>5. CASE frame # 0
  <2>1. Waited(b) = x % p
    BY DEF Waited, RefreshPeriod
  <2>2. idle[b] <= x % p
    BY <1>5, <2>1 DEF NeglectInv
  <2> HIDE DEF x, p
  <2>3. idle[b] < p
    BY <1>1, <1>2, <1>3, <2>2
  <2> QED
    BY <2>3 DEF p
<1> QED
  BY <1>4, <1>5

\* Under the rotating refresh no block is left out of the map for fps
\* frames, under recovery none for five seconds of frames, at any frame rate
\* and on any grid.
THEOREM NoBlockNeglected == Spec => []BoundedNeglect
<1>1. Init => NeglectInv
  BY DEF Init, NeglectInv
<1>2. TypeOK /\ NeglectInv /\ [Next]_vars => NeglectInv'
  <2> SUFFICES ASSUME TypeOK, NeglectInv, [Next]_vars
               PROVE  NeglectInv'
    OBVIOUS
  <2>1. ASSUME NEW changed \in SUBSET Block, Frame(changed)
        PROVE  NeglectInv'
    <3>1. CASE RotatingRefreshFrame(changed)
      BY <3>1, RefreshStep
    <3>2. CASE RecoveryFrame(changed)
      BY <3>2, RecoveryStep
    <3>3. CASE NaiveFrame(changed) \/ WarmupFrame(changed)
               \/ HoldExpandedFrame(changed)
      BY <3>3 DEF NeglectInv, NaiveFrame, WarmupFrame, HoldExpandedFrame, Detect
    <3> QED
      BY <2>1, <3>1, <3>2, <3>3 DEF Frame
  <2>2. CASE UNCHANGED vars
    BY <2>2 DEF vars, NeglectInv, Waited, RecoveryPeriod
  <2> QED
    BY <2>1, <2>2 DEF Next
<1> QED
  BY <1>1, <1>2, TypeCorrect, NeglectInvBounds, PTL DEF Spec

-----------------------------------------------------------------------------
(* The countdown is the age of the last change nearby.                      *)

\* One frame: a change nearby makes both ends of the equation start over,
\* otherwise the oldest tolerated age and the countdown move together.
LEMMA RecencyStep ==
    ASSUME TypeOK, TypeOK', HoldIsRecency,
           strategy \in {"HoldExpanded", "Recovery"},
           detected' \in SUBSET Block, hold' = HoldAfter(detected'), Remember
    PROVE  HoldIsRecency'
<1> SUFFICES ASSUME NEW b \in Block
             PROVE  /\ \A n \in Near(b) : HoldFrames - age'[n] <= hold'[b]
                    /\ \E n \in Near(b) : HoldFrames - age'[n] = hold'[b]
  BY DEF HoldIsRecency, Near
<1>1. \A n \in Near(b) : n \in Block /\ age[n] \in 0 .. HoldFrames
                        /\ age'[n] \in 0 .. HoldFrames
  BY DEF Near, TypeOK
<1>2. \A n \in Near(b) :
          age'[n] = IF n \in detected' THEN 0 ELSE Older(age[n])
  BY <1>1 DEF Remember
<1>3. hold[b] \in 0 .. HoldFrames
  BY DEF TypeOK
<1>4. CASE b \in Expanded(detected')
  <2>1. hold'[b] = HoldFrames
    BY <1>4 DEF HoldAfter
  <2>2. PICK n \in Near(b) : n \in detected'
    BY <1>4, ExpandedIsNear
  <2>3. age'[n] = 0
    BY <1>2, <2>2
  <2>4. \A m \in Near(b) : HoldFrames - age'[m] <= HoldFrames
    BY <1>1, TuningAssumption
  <2>5. HoldFrames - age'[n] = HoldFrames
    BY <2>3, TuningAssumption
  <2> QED
    BY <2>1, <2>4, <2>5
<1>5. CASE b \notin Expanded(detected')
  <2>1. hold'[b] = Monus(hold[b], 1)
    BY <1>5 DEF HoldAfter
  <2>2. \A n \in Near(b) : age'[n] = Older(age[n])
    BY <1>2, <1>5, ExpandedIsNear
  <2>3. \A n \in Near(b) : HoldFrames - age[n] <= hold[b]
    BY DEF HoldIsRecency
  <2>4. PICK n \in Near(b) : HoldFrames - age[n] = hold[b]
    BY DEF HoldIsRecency
  <2>5. \A m \in Near(b) : HoldFrames - age'[m] <= hold'[b]
    BY <1>1, <1>3, <2>1, <2>2, <2>3, TuningAssumption DEF Older, Monus
  <2>6. HoldFrames - age'[n] = hold'[b]
    BY <1>1, <1>3, <2>1, <2>2, <2>4, TuningAssumption DEF Older, Monus
  <2> QED
    BY <2>5, <2>6
<1> QED
  BY <1>4, <1>5

\* expand_and_hold forgets a change exactly HOLD_FRAMES frames after it, in
\* every block of the neighbourhood, under the hold and under recovery.
THEOREM HoldCountsRecency == Spec => []HoldIsRecency
<1>1. Init => HoldIsRecency
  BY NearSelf, TuningAssumption DEF Init, HoldIsRecency, Near
<1>2. TypeOK /\ TypeOK' /\ HoldIsRecency /\ [Next]_vars => HoldIsRecency'
  <2> SUFFICES ASSUME TypeOK, TypeOK', HoldIsRecency, [Next]_vars
               PROVE  HoldIsRecency'
    OBVIOUS
  <2>1. ASSUME NEW changed \in SUBSET Block, Frame(changed)
        PROVE  HoldIsRecency'
    <3>1. detected' \in SUBSET Block
      BY DEF TypeOK
    <3>2. CASE HoldExpandedFrame(changed)
      BY <3>1, <3>2, RecencyStep DEF HoldExpandedFrame
    <3>3. CASE RecoveryFrame(changed)
      BY <3>1, <3>3, RecencyStep DEF RecoveryFrame
    <3>4. CASE NaiveFrame(changed) \/ WarmupFrame(changed)
               \/ RotatingRefreshFrame(changed)
      BY <3>4 DEF HoldIsRecency, NaiveFrame, WarmupFrame,
                  RotatingRefreshFrame, Detect
    <3> QED
      BY <2>1, <3>2, <3>3, <3>4 DEF Frame
  <2>2. CASE UNCHANGED vars
    BY <2>2 DEF vars, HoldIsRecency
  <2> QED
    BY <2>1, <2>2 DEF Next
<1> QED
  BY <1>1, <1>2, TypeCorrect, PTL DEF Spec

\* Seen through the window of recent changes, a held frame is a frame.
LEMMA HeldIsWindow ==
    ASSUME TypeOK', HoldIsRecency', strategy' = "HoldExpanded"
    PROVE  Held(hold') = {b \in Block : \E n \in Near(b) : age'[n] < HoldFrames}
<1> SUFFICES ASSUME NEW b \in Block
             PROVE  hold'[b] # 0 <=> \E n \in Near(b) : age'[n] < HoldFrames
  BY DEF Held
<1>1. \A n \in Near(b) : age'[n] \in 0 .. HoldFrames
  BY DEF Near, TypeOK
<1>2. /\ \A n \in Near(b) : HoldFrames - age'[n] <= hold'[b]
      /\ \E n \in Near(b) : HoldFrames - age'[n] = hold'[b]
  BY DEF HoldIsRecency
<1>3. hold'[b] \in 0 .. HoldFrames
  BY DEF TypeOK
<1> QED
  BY <1>1, <1>2, <1>3, TuningAssumption

\* The countdown implementation of expand_and_hold implements the window of
\* recent changes: the map of the hold strategy is always exactly the
\* neighbourhoods of what changed in the last HOLD_FRAMES frames.
THEOREM HoldImplementsWindow ==
    Strategies = {"HoldExpanded"} => (Spec => WindowSpec)
<1> SUFFICES ASSUME Strategies = {"HoldExpanded"}
             PROVE  Spec => WindowSpec
  OBVIOUS
<1>1. Init => Window!Init
  BY DEF Init, Window!Init
<1>2. /\ TypeOK /\ TypeOK' /\ HoldIsRecency' /\ [Next]_vars
      => [Window!Next]_<<age, active>>
  <2> SUFFICES ASSUME TypeOK, TypeOK', HoldIsRecency', [Next]_vars
               PROVE  [Window!Next]_<<age, active>>
    OBVIOUS
  <2>1. ASSUME NEW changed \in SUBSET Block, Frame(changed)
        PROVE  Window!Next
    <3>1. strategy = "HoldExpanded" /\ strategy' = "HoldExpanded"
      BY DEF TypeOK
    <3>2. HoldExpandedFrame(changed)
      BY <2>1, <3>1 DEF Frame, NaiveFrame, RotatingRefreshFrame, WarmupFrame,
                        RecoveryFrame
    <3>3. detected' \in SUBSET Block
      BY DEF TypeOK
    <3>4. age' = [b \in Block |->
                    IF b \in detected' THEN 0 ELSE Window!Older(age[b])]
      BY <3>2 DEF HoldExpandedFrame, Remember, Older, Window!Older
    <3>5. active' = {b \in Block : \E n \in Near(b) : age'[n] < HoldFrames}
      BY <3>1, <3>2, HeldIsWindow DEF HoldExpandedFrame
    <3> QED
      BY <3>3, <3>4, <3>5 DEF Window!Next, Window!Frame
  <2>2. CASE UNCHANGED vars
    BY <2>2 DEF vars
  <2> QED
    BY <2>1, <2>2 DEF Next
<1> QED
  BY <1>1, <1>2, TypeCorrect, HoldCountsRecency, PTL
     DEF Spec, WindowSpec, Window!Spec, Window!avars

-----------------------------------------------------------------------------
(* The bursts share one counter and none cuts another short.                *)

\* Half a second, in frames, and the place of the last frame in its period.
SceneFrames == fps \div 2
SincePeriod == (frame - 1) % RecoveryPeriod

\* The strengthening of FullWhenDue and BurstEnds: the counter holds at least
\* what either burst still has to run, and at most what one of them has.
BurstInv ==
    strategy = "Recovery" =>
        /\ sceneAge < SceneFrames => remaining >= SceneFrames - 1 - sceneAge
        /\ (frame > RecoveryPeriod /\ SincePeriod < RecoveryFrames) =>
               remaining >= RecoveryFrames - 1 - SincePeriod
        /\ \/ remaining = 0
           \/ remaining <= SceneFrames - 1 - sceneAge
           \/ /\ frame > RecoveryPeriod
              /\ remaining <= RecoveryFrames - 1 - SincePeriod

\* Half a second is a number of frames, and no longer than a second.
LEMMA SceneFramesType ==
    ASSUME fps \in Nat \ {0}
    PROVE  SceneFrames \in Nat /\ SceneFrames <= fps
BY DEF SceneFrames

\* The place in a period: between periods it advances by one.
LEMMA SinceStep ==
    ASSUME fps \in Nat \ {0}, frame \in Nat
    PROVE  /\ SincePeriod \in 0 .. RecoveryPeriod - 1
           /\ frame % RecoveryPeriod \in 0 .. RecoveryPeriod - 1
           /\ frame % RecoveryPeriod # 0 =>
                  frame % RecoveryPeriod = SincePeriod + 1
           /\ (frame > 0 /\ frame % RecoveryPeriod = 0) =>
                  frame >= RecoveryPeriod
<1> DEFINE p == RecoveryPeriod
<1>1. p \in Nat \ {0}
  BY PeriodPositive
<1>2. frame - 1 \in Int /\ frame \in Int /\ (frame - 1) + 1 = frame
  OBVIOUS
<1>3. (frame - 1) % p \in 0 .. p - 1 /\ frame % p \in 0 .. p - 1
  BY <1>1, <1>2, Division
<1>4. frame % p # 0 => frame % p = ((frame - 1) % p) + 1
  BY <1>1, <1>2, ModStep
<1>5. (frame > 0 /\ frame % p = 0) => frame >= p
  <2> SUFFICES ASSUME frame > 0, frame % p = 0, frame < p
               PROVE  FALSE
    BY <1>1
  <2> DEFINE q == frame \div p
  <2>1. q \in Int /\ frame = p * q + 0
    BY <1>1, <1>2, Division
  <2> HIDE DEF q, p
  <2>2. p * q < p /\ -p < p * q
    BY <1>1, <2>1
  <2>3. q = 0
    BY <1>1, <2>1, <2>2, SmallMultiple
  <2> QED
    BY <1>1, <2>1, <2>3
<1> QED
  BY <1>3, <1>4, <1>5 DEF SincePeriod

\* One frame of the recovery: how long the burst it finds itself in has to be,
\* and what may have made it that long.
LEMMA BurstStep ==
    ASSUME TypeOK, BurstInv, NEW changed \in SUBSET Block,
           RecoveryFrame(changed)
    PROVE  LET burst == BurstBefore(detected')
               since == frame % RecoveryPeriod
           IN  /\ sceneAge' < SceneFrames => burst >= SceneFrames - sceneAge'
               /\ (frame >= RecoveryPeriod /\ since < RecoveryFrames) =>
                      burst >= RecoveryFrames - since
               /\ \/ burst = 0
                  \/ burst <= SceneFrames - sceneAge'
                  \/ frame >= RecoveryPeriod /\ burst <= RecoveryFrames - since
<1> DEFINE burst == BurstBefore(detected')
           h == SceneFrames
           p == RecoveryPeriod
           m == SincePeriod
           n == frame % RecoveryPeriod
           r == RecoveryFrames
           scene == SceneChange(detected')
           later == sceneAge'
           afterScene == IF scene THEN AtLeast(remaining, h) ELSE remaining
<1>1. /\ fps \in Nat \ {0} /\ frame \in Nat /\ remaining \in Nat
      /\ sceneAge \in 0 .. fps /\ r \in Nat \ {0}
  BY TuningAssumption DEF TypeOK
<1>2. h \in Nat /\ h <= fps
  BY <1>1, SceneFramesType
<1>3. p \in Nat \ {0}
  BY <1>1, PeriodPositive
<1>4. /\ m \in 0 .. p - 1 /\ n \in 0 .. p - 1
      /\ n # 0 => n = m + 1
      /\ (frame > 0 /\ n = 0) => frame >= p
  BY <1>1, SinceStep
<1>5. later = IF scene THEN 0 ELSE AtMost(sceneAge + 1, fps)
  BY DEF RecoveryFrame, Remember
<1>6. /\ sceneAge < h => remaining >= h - 1 - sceneAge
      /\ (frame > p /\ m < r) => remaining >= r - 1 - m
      /\ \/ remaining = 0
         \/ remaining <= h - 1 - sceneAge
         \/ frame > p /\ remaining <= r - 1 - m
  BY DEF BurstInv, RecoveryFrame
<1>7. burst = IF frame > 0 /\ n = 0 THEN AtLeast(afterScene, r) ELSE afterScene
  BY DEF BurstBefore, SceneFrames
<1>8. afterScene \in Nat /\ burst \in Nat /\ afterScene <= burst
  BY <1>1, <1>2, <1>7 DEF AtLeast
<1>9. later \in Nat
  BY <1>1, <1>5 DEF AtMost
<1> HIDE DEF burst, h, p, m, n, r, scene, later
<1>10. later < h => burst >= h - later
  <2>1. CASE scene
    BY <1>1, <1>2, <1>5, <1>8, <1>9, <2>1 DEF AtLeast
  <2>2. CASE ~scene
    BY <1>1, <1>2, <1>5, <1>6, <1>9, <1>8, <2>2 DEF AtMost
  <2> QED
    BY <2>1, <2>2
<1>11. (frame >= p /\ n < r) => burst >= r - n
  <2>1. CASE n = 0
    BY <1>1, <1>3, <1>7, <1>8, <2>1 DEF AtLeast
  <2>2. CASE n # 0
    <3>1. frame = p => FALSE
      <4> SUFFICES ASSUME frame = p PROVE n = 0
        BY <2>2
      <4> QED
        BY <1>3 DEF n, p
    <3> QED
      BY <1>1, <1>3, <1>4, <1>6, <1>8, <2>2, <3>1 DEF AtLeast
  <2> QED
    BY <2>1, <2>2
<1>12. \/ afterScene = 0
       \/ afterScene <= h - later
       \/ frame > p /\ afterScene <= r - 1 - m
  <2>1. CASE scene
    BY <1>1, <1>2, <1>5, <1>6, <1>9, <2>1 DEF AtLeast
  <2>2. CASE ~scene
    BY <1>1, <1>2, <1>5, <1>6, <1>9, <2>2 DEF AtMost
  <2> QED
    BY <2>1, <2>2
<1> HIDE DEF afterScene
<1>13. \/ burst = 0
       \/ burst <= h - later
       \/ frame >= p /\ burst <= r - n
  <2>1. CASE frame > 0 /\ n = 0
    BY <1>1, <1>2, <1>3, <1>4, <1>7, <1>8, <1>9, <1>12, <2>1 DEF AtLeast
  <2>2. CASE ~(frame > 0 /\ n = 0)
    BY <1>1, <1>2, <1>3, <1>4, <1>7, <1>8, <1>9, <1>12, <2>2
  <2> QED
    BY <2>1, <2>2
<1> QED
  BY <1>10, <1>11, <1>13 DEF burst, h, p, n, r, later

\* One frame of the recovery keeps the balance of the counter, codes the whole
\* screen while a burst is due and the held blocks alone while none is.
LEMMA RecoveryBurst ==
    ASSUME TypeOK, BurstInv, NEW changed \in SUBSET Block,
           RecoveryFrame(changed)
    PROVE  BurstInv' /\ FullWhenDue' /\ BurstEnds'
<1> DEFINE burst == BurstBefore(detected')
           since == frame % RecoveryPeriod
           later == sceneAge'
<1>1. /\ strategy = "Recovery" /\ strategy' = strategy
      /\ fps' = fps /\ fps \in Nat \ {0}
      /\ frame' = frame + 1 /\ frame \in Nat
      /\ RecoveryPeriod' = RecoveryPeriod /\ SceneFrames' = SceneFrames
  BY DEF RecoveryFrame, Detect, TypeOK, RecoveryPeriod, SceneFrames
<1>2. SincePeriod' = since
  BY <1>1 DEF SincePeriod
<1>3. /\ RecoveryPeriod \in Nat \ {0} /\ SceneFrames \in Nat
      /\ since \in 0 .. RecoveryPeriod - 1 /\ RecoveryFrames \in Nat \ {0}
  BY <1>1, PeriodPositive, SceneFramesType, SinceStep, TuningAssumption
<1>4. burst \in Nat
  BY BurstType
<1>5. later \in Nat
  BY <1>1 DEF TypeOK, RecoveryFrame, Remember, AtMost
<1>6. /\ later < SceneFrames => burst >= SceneFrames - later
      /\ (frame >= RecoveryPeriod /\ since < RecoveryFrames) =>
             burst >= RecoveryFrames - since
      /\ \/ burst = 0
         \/ burst <= SceneFrames - later
         \/ frame >= RecoveryPeriod /\ burst <= RecoveryFrames - since
  BY BurstStep
<1>7. /\ remaining' = Monus(burst, 1)
      /\ (frame < fps \/ burst > 0) => active' = Block
      /\ ~(frame < fps \/ burst > 0) => active' = Held(hold')
  BY <1>4 DEF RecoveryFrame, Monus
<1> HIDE DEF burst, since, later
<1>8. BurstInv'
  <2>1. /\ burst = 0 => remaining' = 0
        /\ burst > 0 => remaining' = burst - 1
    BY <1>4, <1>7 DEF Monus
  <2>2. later < SceneFrames => remaining' >= SceneFrames - 1 - later
    BY <1>3, <1>4, <1>5, <1>6, <2>1
  <2>3. (frame >= RecoveryPeriod /\ since < RecoveryFrames) =>
            remaining' >= RecoveryFrames - 1 - since
    BY <1>3, <1>4, <1>6, <2>1
  <2>4. \/ remaining' = 0
        \/ remaining' <= SceneFrames - 1 - later
        \/ frame >= RecoveryPeriod /\ remaining' <= RecoveryFrames - 1 - since
    BY <1>3, <1>4, <1>5, <1>6, <2>1
  <2>5. frame' > RecoveryPeriod' <=> frame >= RecoveryPeriod
    BY <1>1, <1>3
  <2> QED
    BY <1>1, <1>2, <2>2, <2>3, <2>4, <2>5 DEF BurstInv, later
<1>9. FullWhenDue'
  <2>1. FirstSecond'
    BY <1>1, <1>7 DEF FirstSecond
  <2>2. later < SceneFrames => active' = Block
    BY <1>3, <1>4, <1>5, <1>6, <1>7
  <2>3. SceneBurst'
    BY <1>1, <2>2 DEF SceneBurst, SceneFrames, later
  <2>4. PeriodicBurst'
    BY <1>1, <1>2, <1>3, <1>4, <1>6, <1>7 DEF PeriodicBurst, SincePeriod
  <2> QED
    BY <2>1, <2>3, <2>4 DEF FullWhenDue
<1>10. BurstEnds'
  <2>1. (/\ frame >= fps
         /\ later >= SceneFrames
         /\ frame >= RecoveryPeriod => since >= RecoveryFrames)
            => active' = Held(hold')
    BY <1>1, <1>3, <1>4, <1>5, <1>6, <1>7
  <2>2. /\ frame' > fps' <=> frame >= fps
        /\ frame' > RecoveryPeriod' <=> frame >= RecoveryPeriod
    BY <1>1, <1>3
  <2>3. Held(hold') = Held(hold)'
    BY DEF Held
  <2> QED
    BY <1>1, <1>2, <2>1, <2>2, <2>3
       DEF BurstEnds, SincePeriod, SceneFrames, later
<1> QED
  BY <1>8, <1>9, <1>10

\* What the two burst theorems share.
LEMMA BurstsAreKept == Spec => [](BurstInv /\ FullWhenDue /\ BurstEnds)
<1> DEFINE Kept == BurstInv /\ FullWhenDue /\ BurstEnds
<1>1. Init => Kept
  <2> SUFFICES ASSUME Init PROVE Kept
    OBVIOUS
  <2>1. fps \in Nat \ {0} /\ frame = 0 /\ sceneAge = fps /\ active = Block
        /\ remaining = 0
    BY RateAssumption DEF Init, AtLeast
  <2>2. SceneFrames \in Nat /\ SceneFrames <= fps
        /\ RecoveryPeriod \in Nat \ {0}
    BY <2>1, SceneFramesType, PeriodPositive
  <2>3. BurstInv
    BY <2>1, <2>2 DEF BurstInv
  <2>4. FullWhenDue
    BY <2>1 DEF FullWhenDue, FirstSecond, SceneBurst, PeriodicBurst
  <2>5. BurstEnds
    BY <2>1 DEF BurstEnds
  <2> QED
    BY <2>3, <2>4, <2>5
<1>2. TypeOK /\ Kept /\ [Next]_vars => Kept'
  <2> SUFFICES ASSUME TypeOK, Kept, [Next]_vars
               PROVE  Kept'
    OBVIOUS
  <2>1. ASSUME NEW changed \in SUBSET Block, Frame(changed)
        PROVE  Kept'
    <3>1. CASE RecoveryFrame(changed)
      BY <3>1, RecoveryBurst
    <3>2. CASE NaiveFrame(changed) \/ RotatingRefreshFrame(changed)
               \/ HoldExpandedFrame(changed)
      BY <3>2 DEF NaiveFrame, RotatingRefreshFrame, HoldExpandedFrame, Detect,
                  BurstInv, FullWhenDue, FirstSecond, SceneBurst,
                  PeriodicBurst, BurstEnds
    <3>3. CASE WarmupFrame(changed)
      <4>1. frame \in Nat /\ fps \in Nat
        BY DEF TypeOK
      <4> QED
        BY <3>3, <4>1 DEF WarmupFrame, Detect, BurstInv, FullWhenDue,
                          FirstSecond, SceneBurst, PeriodicBurst, BurstEnds
    <3> QED
      BY <2>1, <3>1, <3>2, <3>3 DEF Frame
  <2>2. CASE UNCHANGED vars
    BY <2>2 DEF vars, BurstInv, FullWhenDue, FirstSecond, SceneBurst,
                PeriodicBurst, BurstEnds, SceneFrames, SincePeriod,
                RecoveryPeriod, Held
  <2> QED
    BY <2>1, <2>2 DEF Next
<1> QED
  BY <1>1, <1>2, TypeCorrect, PTL DEF Spec

\* Each of the three reasons to code the whole screen gets its full number of
\* frames: full_active_remaining is lengthened, never overridden.
THEOREM BurstsAreWhole == Spec => []FullWhenDue
<1> QED
  BY BurstsAreKept, PTL

\* And no burst outlasts its reasons: the counter runs down with them.
THEOREM BurstsRunOut == Spec => []BurstEnds
<1> QED
  BY BurstsAreKept, PTL

-----------------------------------------------------------------------------
(* The detector and the encoder around the controller.                       *)

\* The detector reports blocks of the grid.
LEMMA ChangedIsBlocks ==
    ASSUME NEW yuv
    PROVE  Changed(yuv) \in SUBSET Block
BY DEF Changed

\* The composition forgets to a run of the controller.
LEMMA ControllerStep ==
    EncoderNext \/ UNCHANGED encoderVars => [Next]_vars
BY ChangedIsBlocks DEF EncoderNext, EncodeFrame, Next, vars, encoderVars

\* Every behaviour of the benchmark is one of the controller.
THEOREM EncoderRunsController == EncoderSpec => Spec
<1>1. EncoderInit => Init
  BY DEF EncoderInit
<1>2. [EncoderNext]_encoderVars => [Next]_vars
  BY ControllerStep
<1> QED
  BY <1>1, <1>2, PTL DEF EncoderSpec, Spec

\* The pictures the detector and the encoder keep stay pictures.
THEOREM EncoderTypeCorrect == EncoderSpec => []EncoderTypeOK
<1>1. EncoderInit => previous \in Picture /\ coded \in Picture
  BY LumaAssumption DEF EncoderInit, Picture, Luma
<1>2. /\ previous \in Picture /\ coded \in Picture
      /\ [EncoderNext]_encoderVars
      => (previous \in Picture /\ coded \in Picture)'
  BY DEF EncoderNext, EncodeFrame, Encode, Picture, encoderVars
<1> QED
  BY <1>1, <1>2, EncoderRunsController, TypeCorrect, PTL
     DEF EncoderSpec, EncoderTypeOK

\* One frame moves a sample by at most one where the detector saw nothing.
LEMMA UnseenIsClose ==
    ASSUME previous \in Picture, NEW yuv \in Picture, NEW b \in Block,
           NEW s \in Sample, b \notin Changed(yuv)
    PROVE  AbsDiff(yuv[b][s], previous[b][s]) <= 1
<1>1. yuv[b][s] \in Nat /\ previous[b][s] \in Nat
  BY LumaAssumption DEF Picture, Luma
<1>2. ~(AbsDiff(yuv[b][s], previous[b][s]) > 1)
  BY DEF Changed
<1> QED
  BY <1>1, <1>2 DEF AbsDiff

\* The distance of two luma values is a number.
LEMMA DistanceType ==
    ASSUME NEW x \in Nat, NEW y \in Nat
    PROVE  AbsDiff(x, y) \in Nat
BY DEF AbsDiff

\* A frame records what it made active and what the detector named.
LEMMA FrameRemembers ==
    ASSUME NEW changed, Frame(changed), NEW b \in Block
    PROVE  /\ idle'[b] = IF b \in active' THEN 0 ELSE idle[b] + 1
           /\ b \in changed => b \in detected'
BY DEF Frame, NaiveFrame, RotatingRefreshFrame, WarmupFrame,
       HoldExpandedFrame, RecoveryFrame, Remember, Detect

\* The picture of the decoder drifts by at most one per skipped frame: a
\* coded block starts over, a skipped one was not named by the detector.
LEMMA SkippedDrifts == EncoderSpec => []SkippedDrift
<1>1. EncoderInit => SkippedDrift
  BY DEF EncoderInit, Init, SkippedDrift, AbsDiff
<1>2. /\ EncoderTypeOK /\ EncoderTypeOK' /\ ChangedIsActive'
      /\ SkippedDrift /\ [EncoderNext]_encoderVars
      => SkippedDrift'
  <2> SUFFICES ASSUME EncoderTypeOK, EncoderTypeOK', ChangedIsActive',
                      SkippedDrift, [EncoderNext]_encoderVars
               PROVE  SkippedDrift'
    OBVIOUS
  <2>1. ASSUME NEW yuv \in Picture, EncodeFrame(yuv),
               NEW b \in Block, NEW s \in Sample
        PROVE  AbsDiff(previous'[b][s], coded'[b][s]) <= idle'[b]
    <3>1. /\ yuv[b][s] \in Nat
          /\ previous[b][s] \in Nat
          /\ coded[b][s] \in Nat
          /\ idle[b] \in Nat
      BY LumaAssumption DEF EncoderTypeOK, TypeOK, Picture, Luma
    <3>2. /\ Frame(Changed(yuv))
          /\ previous' = yuv
          /\ coded'[b] = IF b \in active' THEN yuv[b] ELSE coded[b]
      BY <2>1 DEF EncodeFrame, Encode
    <3>3. CASE b \in active'
      <4>1. idle'[b] = 0 /\ coded'[b] = yuv[b]
        BY <3>2, <3>3, FrameRemembers
      <4> QED
        BY <4>1, <3>1, <3>2 DEF AbsDiff
    <3>4. CASE b \notin active'
      <4>1. idle'[b] = idle[b] + 1 /\ coded'[b] = coded[b]
        BY <3>2, <3>4, FrameRemembers
      <4>2. b \notin Changed(yuv)
        BY <3>2, <3>4, FrameRemembers DEF ChangedIsActive
      <4>3. AbsDiff(yuv[b][s], previous[b][s]) <= 1
        BY <4>2, UnseenIsClose DEF EncoderTypeOK
      <4>4. AbsDiff(previous[b][s], coded[b][s]) <= idle[b]
        BY DEF SkippedDrift
      <4>5. AbsDiff(yuv[b][s], coded[b][s]) <= idle[b] + 1
        BY <3>1, <4>3, <4>4 DEF AbsDiff
      <4> QED
        BY <3>2, <4>1, <4>5
    <3> QED
      BY <3>3, <3>4
  <2>2. CASE UNCHANGED encoderVars
    BY <2>2 DEF encoderVars, SkippedDrift
  <2> QED
    BY <2>1, <2>2 DEF EncoderNext, SkippedDrift
<1> QED
  BY <1>1, <1>2, EncoderTypeCorrect, EncoderRunsController, NothingDropped, PTL
     DEF EncoderSpec

\* The decoder's luma drifts by at most one per skipped frame, and with a
\* strategy that revisits every block it is never a whole period away from the
\* screen, at any frame rate and on any grid.
THEOREM DriftBounded == EncoderSpec => []DriftBound
<1>1. EncoderTypeOK /\ SkippedDrift /\ BoundedNeglect => PeriodDrift
  <2> SUFFICES ASSUME EncoderTypeOK, SkippedDrift, BoundedNeglect,
                      strategy \in {"RotatingRefresh", "Recovery"},
                      NEW b \in Block, NEW s \in Sample
               PROVE  AbsDiff(previous[b][s], coded[b][s]) < RefreshPeriod
    BY DEF PeriodDrift
  <2> DEFINE p == RefreshPeriod
             d == AbsDiff(previous[b][s], coded[b][s])
  <2>1. previous[b][s] \in Nat /\ coded[b][s] \in Nat /\ idle[b] \in Nat
    BY LumaAssumption DEF EncoderTypeOK, TypeOK, Picture, Luma
  <2>2. d \in Nat
    BY <2>1, DistanceType
  <2>3. p \in Nat
    BY PeriodPositive DEF RefreshPeriod, EncoderTypeOK, TypeOK
  <2>4. d <= idle[b] /\ idle[b] < p
    BY DEF SkippedDrift, BoundedNeglect
  <2> HIDE DEF d, p
  <2>5. d < p
    BY <2>1, <2>2, <2>3, <2>4
  <2> QED
    BY <2>5 DEF d, p
<1> QED
  BY <1>1, EncoderTypeCorrect, SkippedDrifts, EncoderRunsController,
     NoBlockNeglected, PTL DEF DriftBound

=============================================================================
