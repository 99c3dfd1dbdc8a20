---------------------------- MODULE ScreenEncoder ----------------------------
(***************************************************************************)
(* The pixels behind ActiveMap: the detector of src/av1_screen_bench/src/   *)
(* yuv.rs compares each frame with the frame BEFORE it, not with what the   *)
(* encoder last coded, and overlooks a luma difference of 1.  A block that   *)
(* changes slowly is therefore never named and the picture the decoder      *)
(* shows of it drifts away; only the strategies that revisit every block    *)
(* bound the drift.  This module composes detector, controller and the      *)
(* picture the encoder refers to.                                           *)
(***************************************************************************)
EXTENDS ActiveMap

CONSTANTS
    Sample,     \* the luma samples of a block
    MaxLuma     \* bound: the largest luma value (255 in the code)

ASSUME LumaAssumption == MaxLuma \in Nat

VARIABLES
    previous,   \* previous_yuv: the luma of the last frame
    coded       \* the luma the encoder's reference holds, the decoder's too

encoderVars == <<strategy, fps, frame, active, hold, remaining,
                 detected, age, idle, sceneAge, previous, coded>>

Luma == 0 .. MaxLuma
Picture == [Block -> [Sample -> Luma]]

\* u8::abs_diff
AbsDiff(x, y) == IF x > y THEN x - y ELSE y - x

-----------------------------------------------------------------------------

\* Mutant: a coarser threshold.
ChangedCoarse(yuv) ==
    {b \in Block : \E s \in Sample : AbsDiff(yuv[b][s], previous[b][s]) > 2}

\* update_active_map with a previous frame.
Changed(yuv) ==
    {b \in Block : \E s \in Sample : AbsDiff(yuv[b][s], previous[b][s]) > 1}

\* previous_yuv is allocated zeroed; nothing is coded yet.
EncoderInit ==
    /\ Init
    /\ previous = [b \in Block |-> [s \in Sample |-> 0]]
    /\ coded = [b \in Block |-> [s \in Sample |-> 0]]

\* AV1 skips the blocks outside the active map: the reference keeps them.
Encode(yuv) ==
    coded' = [b \in Block |-> IF b \in active' THEN yuv[b] ELSE coded[b]]

EncodeFrame(yuv) ==
    /\ Frame(Changed(yuv))
    /\ previous' = yuv
    /\ Encode(yuv)

EncoderNext == \E yuv \in Picture : EncodeFrame(yuv)

EncoderSpec == EncoderInit /\ [][EncoderNext]_encoderVars

-----------------------------------------------------------------------------

EncoderTypeOK ==
    /\ TypeOK
    /\ previous \in Picture
    /\ coded \in Picture

\* The decoder's picture of a block is off by at most one per frame the
\* block was skipped, under every strategy: each skipped frame was within
\* the detector's threshold of the frame before it (yuv.rs, abs_diff > 1).
SkippedDrift ==
    \A b \in Block, s \in Sample :
        AbsDiff(previous[b][s], coded[b][s]) <= idle[b]

\* With the rotating refresh no sample of the decoder's picture is ever fps
\* or more away from the screen, with recovery never five seconds of frames,
\* however slowly and for however long the screen fades.
PeriodDrift ==
    strategy \in {"RotatingRefresh", "Recovery"} =>
        \A b \in Block, s \in Sample :
            AbsDiff(previous[b][s], coded[b][s]) < RefreshPeriod

\* What skipping blocks costs the picture, in every strategy: at most one step
\* of luma per frame, and never a period's worth where blocks take turns.
DriftBound == SkippedDrift /\ PeriodDrift

=============================================================================
