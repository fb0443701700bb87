----------------------------- MODULE MC_Startup -----------------------------
(* Startup with two save names, one of which two directories may hold, and *)
(* a legacy directory that is never empty; config.txt is missing, or an    *)
(* old one that chooses a width and Japanese.                              *)
EXTENDS Startup

CONSTANTS n1, n2

OldSaves == {<<1, n1>>, <<3, n1>>}

Chosen ==
    [exists |-> TRUE, retired |-> TRUE,
     value |-> [v \in Keys |-> IF v = "screen_width" THEN 128
                               ELSE IF v = "screen_height" THEN NONE ELSE 0]]

OldConfig == {Chosen}
=============================================================================
