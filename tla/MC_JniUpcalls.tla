--------------------------- MODULE MC_JniUpcalls ---------------------------
(* JniUpcalls with four objects, a table of three entries and two recorded *)
(* frames, so that the table fills, frames nest beyond the recorded ones   *)
(* and every boundary is crossed; two entries for three methods, one of    *)
(* which does not fit.                                                     *)
EXTENDS JniUpcalls, TLC

CONSTANTS dialog, text, sig, longsig

Looked == {<<dialog, sig>>, <<text, sig>>, <<text, longsig>>}

AnyRef == Permutations(Refs)
=============================================================================
