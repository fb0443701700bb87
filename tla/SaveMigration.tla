--------------------------- MODULE SaveMigration ---------------------------
(***************************************************************************)
(* migrate_legacy_saves (save_path.c): at every start, the saves found in  *)
(* three legacy directories are moved beside the NRO, by rename or, if     *)
(* that fails, by a copy that is verified before it is published.  Any     *)
(* file operation may fail and power may be lost between any two of them.  *)
(*                                                                         *)
(* A save is named <<directory, name>>; what a file contains is that name, *)
(* GAME, or PARTIAL.  The file system is the SD card's: operations that    *)
(* return are durable, rename is atomic and fails onto an existing file,   *)
(* rmdir fails on a directory that is not empty.                           *)
(***************************************************************************)
EXTENDS Naturals, FiniteSets

CONSTANTS
    Names,          \* save names, sk1_*.sav
    Files,          \* the saves old releases may have left, <<directory, name>>
    Foreign,        \* legacy directories that also hold other files
    MaxCrashes,     \* bound: power losses
    NONE, GAME, PARTIAL

Dirs == 1..3        \* legacy_directories, in the order they are visited
NameOf(f) == f[2]
Inside(d) == IF d = 3 THEN {2} ELSE {}   \* the package directory holds files/

ASSUME MigrationAssumption ==
    /\ Files \subseteq Dirs \X Names
    /\ Foreign \subseteq Dirs
    /\ MaxCrashes \in Nat
    /\ {NONE, GAME, PARTIAL} \cap Files = {}
    /\ NONE # GAME /\ NONE # PARTIAL /\ GAME # PARTIAL

VARIABLES
    legacy, present,    \* the saves and the directories of the old places
    game, tmp,          \* per name: the save, and its .migrating copy
    crossDevice,        \* rename between the places never works
    pc, dir, name, todo,\* where the migration is; readdir's remaining names
    delivered,          \* observed: saves that reached the game folder
    clean,              \* observed: no operation failed since this start
    crashes

disk == <<legacy, present, game, tmp, crossDevice>>
vars == <<disk, pc, dir, name, todo, delivered, clean, crashes>>

Content == Files \cup {NONE, GAME, PARTIAL}

TypeOK ==
    /\ legacy \subseteq Files /\ present \subseteq Dirs
    /\ game \in [Names -> Content] /\ tmp \in [Names -> Content]
    /\ crossDevice \in BOOLEAN
    /\ pc \in {"open", "read", "stat", "rename", "openCopy", "copy", "verify",
               "publish", "remove", "discard", "playing"}
    /\ dir \in 1..4 /\ name \in Names /\ todo \subseteq Names
    /\ delivered \subseteq Files
    /\ clean \in BOOLEAN
    /\ crashes \in 0..MaxCrashes

(* Something is in directory d, so that rmdir refuses. *)
Occupied(d) ==
    \/ d \in Foreign \/ \E n \in Names : <<d, n>> \in legacy
    \/ Inside(d) \cap present # {}

AtStart ==
    /\ pc' = "open" /\ dir' = 1 /\ todo' = {} /\ UNCHANGED name
    /\ clean' = TRUE

Init ==
    /\ legacy \in SUBSET Files
    /\ present \in SUBSET Dirs /\ \A d \in Dirs : Occupied(d) => d \in present
    /\ game \in [Names -> {NONE, GAME}]
    /\ tmp = [n \in Names |-> NONE]
    /\ crossDevice \in BOOLEAN
    /\ pc = "open" /\ dir = 1 /\ name \in Names /\ todo = {}
    /\ delivered = {} /\ clean = TRUE /\ crashes = 0

----------------------------------------------------------------------------
Go(from, to) == pc = from /\ pc' = to

Works == UNCHANGED clean
Fails == clean' = FALSE

source == <<dir, name>>

Rmdir(d) ==
    \/ present' = (IF Occupied(d) THEN present ELSE present \ {d}) /\ Works
    \/ d \in present /\ UNCHANGED present /\ Fails

OpenDir ==
    /\ dir \in Dirs
    /\ \/ dir \in present /\ Works
          /\ Go("open", "read") /\ UNCHANGED dir
          /\ todo' = {n \in Names : <<dir, n>> \in legacy}
       \/ Go("open", "open") /\ dir' = dir + 1 /\ UNCHANGED todo
          /\ IF dir \in present THEN Fails ELSE Works
    /\ UNCHANGED <<disk, name, delivered, crashes>>

(* The next entry, in whatever order readdir gives them; stat may fail.    *)
ReadEntry ==
    /\ \E n \in todo :
         /\ todo' = todo \ {n}
         /\ \/ Go("read", "stat") /\ name' = n /\ Works
            \/ Go("read", "read") /\ UNCHANGED name /\ Fails
    /\ UNCHANGED <<disk, dir, delivered, crashes>>

(* Bug: a directory that has become empty is kept. *)
CloseDirKeeps ==
    /\ todo = {}
    /\ Go("read", "open")
    /\ dir' = dir + 1 /\ Works
    /\ UNCHANGED <<disk, name, todo, delivered, crashes>>

CloseDir ==
    /\ todo = {}
    /\ Go("read", "open")
    /\ Rmdir(dir)
    /\ dir' = dir + 1
    /\ UNCHANGED <<legacy, game, tmp, crossDevice, name, todo, delivered, crashes>>

(* The last rmdir of migrate_legacy_saves; the game starts. *)
Finish ==
    /\ dir = 4
    /\ Go("open", "playing")
    /\ Rmdir(3)
    /\ UNCHANGED <<legacy, game, tmp, crossDevice, dir, name, todo, delivered,
                   crashes>>

----------------------------------------------------------------------------
(* move_save(source, destination).                                         *)

StatDestination ==
    /\ \/ Go("stat", IF game[name] = NONE THEN "rename" ELSE "read") /\ Works
       \/ Go("stat", "rename") /\ Fails     \* an error looks like "absent"
    /\ UNCHANGED <<disk, dir, name, todo, delivered, crashes>>

RenameSource ==
    /\ \/ /\ ~crossDevice /\ game[name] = NONE
          /\ Go("rename", "read") /\ Works
          /\ game' = [game EXCEPT ![name] = source]
          /\ legacy' = legacy \ {source}
          /\ delivered' = delivered \cup {source}
       \/ /\ Go("rename", "openCopy")
          /\ IF crossDevice \/ game[name] # NONE THEN Works ELSE Fails
          /\ UNCHANGED <<game, legacy, delivered>>
    /\ UNCHANGED <<present, tmp, crossDevice, dir, name, todo, crashes>>

(* fopen of both files; the temporary is truncated whenever its open works. *)
OpenCopy ==
    /\ \/ Go("openCopy", "copy") /\ Works
          /\ tmp' = [tmp EXCEPT ![name] = PARTIAL]
       \/ Go("openCopy", "discard") /\ Fails
          /\ tmp' \in {tmp, [tmp EXCEPT ![name] = PARTIAL]}
    /\ UNCHANGED <<legacy, present, game, crossDevice, dir, name, todo,
                   delivered, crashes>>

(* The copy loop, flush and close: all written, written wrong, or an error. *)
Copy ==
    /\ \/ Go("copy", "verify") /\ Works /\ tmp' = [tmp EXCEPT ![name] = source]
       \/ Go("copy", "verify") /\ Fails /\ UNCHANGED tmp
       \/ Go("copy", "discard") /\ Fails /\ UNCHANGED tmp
    /\ UNCHANGED <<legacy, present, game, crossDevice, dir, name, todo,
                   delivered, crashes>>

(* Bug: the copy is published unverified. *)
VerifySkipped ==
    /\ Go("verify", "publish") /\ Works
    /\ UNCHANGED <<disk, dir, name, todo, delivered, crashes>>

(* files_equal(source, temporary) *)
Verify ==
    /\ \/ tmp[name] = source /\ Go("verify", "publish") /\ Works
       \/ Go("verify", "discard") /\ Fails
    /\ UNCHANGED <<disk, dir, name, todo, delivered, crashes>>

Publish ==
    /\ \/ /\ game[name] = NONE
          /\ Go("publish", "remove") /\ Works
          /\ game' = [game EXCEPT ![name] = tmp[name]]
          /\ tmp' = [tmp EXCEPT ![name] = NONE]
          /\ delivered' = delivered \cup {source}
       \/ Go("publish", "discard") /\ Fails /\ UNCHANGED <<game, tmp, delivered>>
    /\ UNCHANGED <<legacy, present, crossDevice, dir, name, todo, crashes>>

RemoveSource ==
    /\ Go("remove", "read")
    /\ \/ legacy' = legacy \ {source} /\ Works
       \/ UNCHANGED legacy /\ Fails
    /\ UNCHANGED <<present, game, tmp, crossDevice, dir, name, todo, delivered,
                   crashes>>

(* Bug: the error exit removes the source instead of the copy. *)
DiscardSource ==
    /\ Go("discard", "read") /\ Fails
    /\ legacy' = legacy \ {source}
    /\ UNCHANGED <<present, game, tmp, crossDevice, dir, name, todo, delivered,
                   crashes>>

(* Bug: a save that cannot be moved is tried again at once. *)
DiscardRetries ==
    /\ Go("discard", "stat") /\ Fails
    /\ tmp' = [tmp EXCEPT ![name] = NONE]
    /\ UNCHANGED <<legacy, present, game, crossDevice, dir, name, todo,
                   delivered, crashes>>

(* The error exit: remove(temporary), return -1. *)
DiscardTemporary ==
    /\ Go("discard", "read") /\ Fails
    /\ tmp' \in {tmp, [tmp EXCEPT ![name] = NONE]}
    /\ UNCHANGED <<legacy, present, game, crossDevice, dir, name, todo,
                   delivered, crashes>>

MoveSave ==
    \/ StatDestination \/ RenameSource \/ OpenCopy \/ Copy \/ Verify
    \/ Publish \/ RemoveSource \/ DiscardTemporary

Migrate == OpenDir \/ ReadEntry \/ CloseDir \/ Finish \/ MoveSave

----------------------------------------------------------------------------
(* The game writes a save, which save_redirect_path puts in its folder.    *)
PlaySave ==
    /\ pc = "playing"
    /\ \E n \in Names : game' = [game EXCEPT ![n] = GAME]
    /\ UNCHANGED <<legacy, present, tmp, crossDevice, pc, dir, name, todo,
                   delivered, clean, crashes>>

(* The player quits and starts again. *)
Restart == pc = "playing" /\ AtStart /\ UNCHANGED <<disk, delivered, crashes>>

Crash ==
    /\ crashes < MaxCrashes
    /\ crashes' = crashes + 1
    /\ AtStart
    /\ UNCHANGED <<disk, delivered>>

Next == Migrate \/ PlaySave \/ Restart \/ Crash

Spec == Init /\ [][Next]_vars

----------------------------------------------------------------------------
(***************************************************************************)
(* Through every failure and power loss, saves move whole, are never       *)
(* replaced by a migration, and leave their old place only once they are   *)
(* in the new one (move_save: "Never replace a save already made in the    *)
(* new location", "deletes the source only after byte verification").      *)
(***************************************************************************)
Store == INSTANCE SaveStore

ImplementsSaveStore == Store!Spec

(***************************************************************************)
(* The game folder never holds a torn or foreign file under a save's name: *)
(* each entry is one the game wrote or a whole old save of that name.      *)
(***************************************************************************)
OnlyWholeSaves ==
    \A n \in Names :
        game[n] \in {NONE, GAME} \cup {f \in delivered : NameOf(f) = n}

(***************************************************************************)
(* A start on which no operation failed leaves no save behind except under *)
(* a name the game folder already had, and removes every legacy directory  *)
(* that nothing else occupies, the package directory included.             *)
(***************************************************************************)
CleanStartMigratesAll ==
    pc = "playing" /\ clean =>
        /\ \A f \in legacy : game[NameOf(f)] # NONE
        /\ \A d \in present : Occupied(d)

=============================================================================
