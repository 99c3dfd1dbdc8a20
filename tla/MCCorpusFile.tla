---------------------------- MODULE MCCorpusFile -----------------------------
(* Two recordings to one path whose files have the same length, one of one  *)
(* large frame and one of two small ones.                                   *)
EXTENDS CorpusFile

LargeOrSmall == {[frames |-> 1, parts |-> 3], [frames |-> 2, parts |-> 1]}
=============================================================================
