----------------------------- MODULE SaveStore -----------------------------
(***************************************************************************)
(* What the player is promised about old saves (save_path.c): a save moves *)
(* whole from a legacy directory to the game folder if its name is free    *)
(* there, leaves the legacy directory only after that, and only the game   *)
(* itself ever changes a save in the game folder.  No files are copied     *)
(* here and nothing fails; SaveMigration is shown to implement it.         *)
(***************************************************************************)
CONSTANTS
    Files,          \* the saves a legacy directory can hold: <<directory, name>>
    Names,
    NONE,           \* no such file
    GAME            \* a save the game wrote itself

VARIABLES
    legacy,         \* the saves still in their legacy directory
    game,           \* per name, the save in the game folder
    delivered       \* saves whose contents reached the game folder

vars == <<legacy, game, delivered>>

NameOf(f) == f[2]

Init ==
    /\ legacy \subseteq Files
    /\ game \in [Names -> {NONE, GAME}]
    /\ delivered = {}

(* The game folder gets the save; the legacy copy goes now or later. *)
Deliver(f) ==
    /\ f \in legacy
    /\ game[NameOf(f)] = NONE
    /\ game' = [game EXCEPT ![NameOf(f)] = f]
    /\ delivered' = delivered \cup {f}
    /\ legacy' \in {legacy, legacy \ {f}}

Retire(f) ==
    /\ f \in legacy \cap delivered
    /\ legacy' = legacy \ {f}
    /\ UNCHANGED <<game, delivered>>

Play(n) ==
    /\ game' = [game EXCEPT ![n] = GAME]
    /\ UNCHANGED <<legacy, delivered>>

Next ==
    \/ \E f \in Files : Deliver(f) \/ Retire(f)
    \/ \E n \in Names : Play(n)

Spec == Init /\ [][Next]_vars

=============================================================================
