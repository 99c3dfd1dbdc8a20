-------------------------- MODULE CorpusPublication --------------------------
(***************************************************************************)
(* What a corpus path promises whoever opens it: there is nothing to open,  *)
(* or there is one whole recording.  A recording appears all at once and    *)
(* disappears when the next one to the same path begins.                    *)
(***************************************************************************)
CONSTANTS
    Recording,  \* what a complete recording holds
    Nothing     \* an unreadable path

VARIABLE published

Init == published = Nothing

Publish == /\ published = Nothing
           /\ published' \in Recording

Withdraw == /\ published # Nothing
            /\ published' = Nothing

Next == Publish \/ Withdraw

Spec == Init /\ [][Next]_published

=============================================================================
