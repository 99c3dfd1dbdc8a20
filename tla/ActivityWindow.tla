--------------------------- MODULE ActivityWindow ---------------------------
(***************************************************************************)
(* What a held active map promises, with no counters in it: a block of the  *)
(* screen is coded exactly when some block of its neighbourhood changed in  *)
(* one of the last Hold frames.  ActiveMapController reaches it with a      *)
(* countdown per block (ActiveMap.tla); here each block only remembers how  *)
(* long ago it changed itself.                                              *)
(***************************************************************************)
EXTENDS Naturals

CONSTANTS
    Block,      \* the blocks of the screen
    Near(_),    \* the neighbourhood a block is coded with
    Hold        \* how many frames a change keeps its neighbourhood coded

VARIABLES
    age,        \* frames since each block last changed, Hold for "longer"
    active      \* the blocks coded in the last frame

avars == <<age, active>>

-----------------------------------------------------------------------------

\* Before the first frame nothing changed yet and everything is coded.
Init == /\ age = [b \in Block |-> Hold]
        /\ active = Block

Older(a) == IF a < Hold THEN a + 1 ELSE Hold

\* A frame in which exactly the blocks of changed differ from the last one.
Frame(changed) ==
    /\ age' = [b \in Block |-> IF b \in changed THEN 0 ELSE Older(age[b])]
    /\ active' = {b \in Block : \E n \in Near(b) : age'[n] < Hold}

Next == \E changed \in SUBSET Block : Frame(changed)

Spec == Init /\ [][Next]_avars

=============================================================================
