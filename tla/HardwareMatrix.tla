--------------------------- MODULE HardwareMatrix ----------------------------
(***************************************************************************)
(* The hardware benchmark, src/av1_screen_bench/src/hardware.rs.  Its loops *)
(* and reports are those of BenchMatrix, with encoders outside and pairs of *)
(* a profile and a quality inside.  It differs in three things: the name of *)
(* an encoder is checked inside the run, an encode may give several packets *)
(* or none, and samples have names of their own.                            *)
(*                                                                          *)
(* HwRamEncoder and the FFmpeg decoder are not in the repository.           *)
(***************************************************************************)
EXTENDS BenchMatrix

CONSTANT MaxPackets     \* bound: the packets of one encode

ASSUME MaxPacketsAssumption == MaxPackets \in Nat

Hardware == "valid" \in DOMAIN options

\* validate_encoder: a name of neither codec ends the program, whatever rows
\* it has.
ValidateEncoder ==
    /\ stage = "cell" /\ inner = 1 /\ Refused(Outer[outer])
    /\ stage' = "aborted"
    /\ UNCHANGED <<cell, position, codec, tally, output>>

StartConfiguration ==
    /\ inner = 1 => ~Refused(Outer[outer])
    /\ StartCell

\* The source of the sample frame, whichever configuration it is.
SaveHardwareSource == Save(<<"source-hardware">>, TRUE)

HardwareEncode == EncodeAtMost(MaxPackets)

\* The name has the quality, here in thousandths, to two decimals.
QualitySlug(quality) == (quality + 5) \div 10

HardwareDecode ==
    DecodeTo(<<"decoded", Outer[outer], Inner[inner][1],
               QualitySlug(Inner[inner][2])>>)

\* The name of an encoder is checked before the line of its first cell.
LoseHardwareOutput ==
    /\ stage = "cell" /\ inner = 1 /\ Refused(Outer[outer]) => outer = 1
    /\ LoseOutput

HardwareLoops == ValidateEncoder \/ StartConfiguration \/ StartRepeat \/ ReadFrame
                 \/ SaveHardwareSource \/ HardwareEncode \/ HardwareDecode
                 \/ NextFrame \/ EndRepeat \/ EndCell \/ FailCell
                 \/ LoseHardwareOutput

HardwareReport == Reports

HardwareNext == (HardwareLoops \/ HardwareReport) /\ UNCHANGED options

\* Either program, by its options.
BothNext == IF Hardware THEN HardwareNext ELSE Next

BothSpec == Init /\ [][BothNext]_vars

\* One thread that keeps running, and codecs that return.
FairSpec == BothSpec /\ WF_vars(BothNext)

=============================================================================
