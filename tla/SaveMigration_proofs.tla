------------------------ MODULE SaveMigration_proofs ------------------------
(***************************************************************************)
(* Proofs about SaveMigration, for every set of names and old saves and    *)
(* every number of power losses: no save is lost, replaced or torn, and a  *)
(* start on which nothing failed leaves none behind; and about Startup,    *)
(* which composes it with the rest of a start.                             *)
(***************************************************************************)
EXTENDS Startup, TLAPS

InMove == pc \in {"stat", "rename", "openCopy", "copy", "verify", "publish",
                  "remove", "discard"}

(* What the migration's position says about the file it is at: it is in    *)
(* the legacy directory, no longer among the entries to come, verified     *)
(* when it is published, and in the game folder when it is removed.        *)
PositionInv ==
    /\ pc = "read" \/ InMove =>
         dir \in Dirs /\ \A n \in todo : <<dir, n>> \in legacy
    /\ InMove => source \in legacy /\ name \notin todo
    /\ pc = "publish" => tmp[name] = source
    /\ pc = "remove" => source \in delivered

IInv == TypeOK /\ PositionInv /\ OnlyWholeSaves

(* Only legacy saves and the game's own exist at first.                  *)
LEMMA InitIInv == Init => IInv
  BY MigrationAssumption
  DEF Init, IInv, TypeOK, PositionInv, InMove, OnlyWholeSaves, Content, Dirs

(***************************************************************************)
(* One lemma per operation: it preserves the invariant, and it is a step   *)
(* of the abstract store or leaves it alone.                               *)
(***************************************************************************)
StoreStep == [Store!Next]_(Store!vars)

(* Walking the legacy directories changes no save.                       *)
LEMMA DirectorySteps ==
  ASSUME IInv, OpenDir \/ ReadEntry \/ CloseDir \/ Finish
  PROVE  IInv' /\ StoreStep
<1> USE MigrationAssumption
        DEF IInv, TypeOK, PositionInv, InMove, OnlyWholeSaves, Content, Dirs,
            Go, Works, Fails, source, disk
<1>1. UNCHANGED <<legacy, game, delivered, tmp, crossDevice>>
  BY DEF OpenDir, ReadEntry, CloseDir, Finish
<1>2. StoreStep
  BY <1>1 DEF StoreStep, Store!vars
<1>3. CASE OpenDir
  <2>0. /\ dir' \in 1..4 /\ todo' \subseteq Names
        /\ clean' \in BOOLEAN /\ pc' \in {"open", "read"}
    <3>1. CASE Go("open", "read")
      BY <1>3, <3>1 DEF OpenDir
    <3>2. CASE Go("open", "open")
      <4>1. clean' \in BOOLEAN
        BY <1>3, <3>2 DEF OpenDir
      <4>2. dir' = dir + 1 /\ dir \in 1..3 /\ todo' = todo /\ pc' = "open"
        BY <1>3, <3>2 DEF OpenDir
      <4> QED BY <4>1, <4>2
    <3> QED BY <1>3, <3>1, <3>2 DEF OpenDir
  <2>1. TypeOK'
    BY <1>1, <1>3, <2>0 DEF OpenDir
  <2>2. PositionInv'
    BY <1>1, <1>3 DEF OpenDir
  <2>3. OnlyWholeSaves'
    BY <1>1
  <2> QED BY <2>1, <2>2, <2>3, <1>2
<1>4. CASE ReadEntry
  BY <1>1, <1>2, <1>4 DEF ReadEntry
<1>5. CASE CloseDir
  <2>1. present' \subseteq Dirs /\ clean' \in BOOLEAN
    BY <1>5 DEF CloseDir, Rmdir
  <2>2. TypeOK'
    BY <1>1, <1>5, <2>1 DEF CloseDir
  <2>3. PositionInv' /\ OnlyWholeSaves'
    BY <1>1, <1>5 DEF CloseDir
  <2> QED BY <2>2, <2>3, <1>2
<1>6. CASE Finish
  BY <1>1, <1>2, <1>6 DEF Finish, Rmdir
<1> QED BY <1>3, <1>4, <1>5, <1>6

(* Steps of move_save that neither deliver a save nor remove one.        *)
LEMMA QuietSteps ==
  ASSUME IInv,
         StatDestination \/ OpenCopy \/ Copy \/ Verify \/ DiscardTemporary
  PROVE  IInv' /\ StoreStep
<1> USE MigrationAssumption
        DEF IInv, TypeOK, PositionInv, InMove, OnlyWholeSaves, Content, Dirs,
            Go, Works, Fails, source, disk
<1>1. UNCHANGED <<legacy, present, game, delivered, crossDevice, dir, name,
                  todo, crashes>>
  BY DEF StatDestination, OpenCopy, Copy, Verify, DiscardTemporary
<1>2. StoreStep
  BY <1>1 DEF StoreStep, Store!vars
<1>3. CASE StatDestination
  BY <1>1, <1>2, <1>3 DEF StatDestination
<1>4. CASE OpenCopy
  BY <1>1, <1>2, <1>4 DEF OpenCopy
<1>5. CASE Copy
  <2>1. /\ tmp' \in [Names -> Content] /\ clean' \in BOOLEAN
        /\ pc = "copy" /\ pc' \in {"verify", "discard"}
    BY <1>5 DEF Copy
  <2>2. TypeOK' /\ OnlyWholeSaves'
    BY <1>1, <2>1
  <2>3. PositionInv'
    BY <1>1, <1>5, <2>1
  <2> QED BY <2>2, <2>3, <1>2
<1>6. CASE Verify
  <2>1. UNCHANGED tmp
    BY <1>6 DEF Verify
  <2>2. TypeOK' /\ OnlyWholeSaves'
    BY <1>1, <1>6, <2>1 DEF Verify
  <2>3. PositionInv'
    BY <1>1, <1>6, <2>1 DEF Verify
  <2> QED BY <2>2, <2>3, <1>2
<1>7. CASE DiscardTemporary
  BY <1>1, <1>2, <1>7 DEF DiscardTemporary
<1> QED BY <1>3, <1>4, <1>5, <1>6, <1>7

(* rename(source, destination): the only step by which a save moves at once. *)
LEMMA RenameStep ==
  ASSUME IInv, RenameSource
  PROVE  IInv' /\ StoreStep
<1> USE MigrationAssumption
        DEF IInv, TypeOK, PositionInv, InMove, OnlyWholeSaves, Content, Dirs,
            Go, Works, Fails, source, NameOf, RenameSource
<1>1. CASE pc' = "read"
  <2>1. source \in legacy /\ source \in Files /\ game[name] = NONE
    BY <1>1
  <2>2. /\ game' = [game EXCEPT ![name] = source]
        /\ legacy' = legacy \ {source} /\ delivered' = delivered \cup {source}
        /\ UNCHANGED <<present, tmp, crossDevice, dir, name, todo, crashes, clean>>
    BY <1>1
  <2>3. Store!Deliver(source)
    BY <2>1, <2>2 DEF Store!Deliver, Store!NameOf
  <2>4. StoreStep
    BY <2>1, <2>3 DEF StoreStep, Store!Next
  <2>5. TypeOK' /\ PositionInv'
    BY <1>1, <2>1, <2>2
  <2>6. OnlyWholeSaves'
    BY <2>1, <2>2
  <2> QED BY <2>4, <2>5, <2>6
<1>2. CASE pc' = "openCopy"
  <2>1. UNCHANGED <<legacy, game, delivered>>
    BY <1>2
  <2>2. StoreStep
    BY <2>1 DEF StoreStep, Store!vars
  <2> QED BY <1>2, <2>1, <2>2
<1> QED BY <1>1, <1>2

(* rename(temporary, destination): the verified copy becomes the save.     *)
LEMMA PublishStep ==
  ASSUME IInv, Publish
  PROVE  IInv' /\ StoreStep
<1> USE MigrationAssumption
        DEF IInv, TypeOK, PositionInv, InMove, OnlyWholeSaves, Content, Dirs,
            Go, Works, Fails, source, NameOf, Publish
<1>1. CASE pc' = "remove"
  <2>1. /\ source \in legacy /\ source \in Files
        /\ game[name] = NONE /\ tmp[name] = source
    BY <1>1
  <2>2. /\ game' = [game EXCEPT ![name] = source]
        /\ tmp' = [tmp EXCEPT ![name] = NONE]
        /\ delivered' = delivered \cup {source}
        /\ UNCHANGED <<legacy, present, crossDevice, dir, name, todo, crashes, clean>>
    BY <1>1, <2>1
  <2>3. Store!Deliver(source)
    BY <2>1, <2>2 DEF Store!Deliver, Store!NameOf
  <2>4. StoreStep
    BY <2>1, <2>3 DEF StoreStep, Store!Next
  <2>5. TypeOK' /\ PositionInv'
    BY <1>1, <2>1, <2>2
  <2>6. OnlyWholeSaves'
    BY <2>1, <2>2
  <2> QED BY <2>4, <2>5, <2>6
<1>2. CASE pc' = "discard"
  <2>1. UNCHANGED <<legacy, game, delivered, tmp>>
    BY <1>2
  <2>2. StoreStep
    BY <2>1 DEF StoreStep, Store!vars
  <2> QED BY <1>2, <2>1, <2>2
<1> QED BY <1>1, <1>2

(* remove(source), after the copy was published.                           *)
LEMMA RemoveStep ==
  ASSUME IInv, RemoveSource
  PROVE  IInv' /\ StoreStep
<1> USE MigrationAssumption
        DEF IInv, TypeOK, PositionInv, InMove, OnlyWholeSaves, Content, Dirs,
            Go, Works, Fails, source, RemoveSource
<1>1. source \in legacy \cap delivered /\ source \in Files
  OBVIOUS
<1>2. UNCHANGED <<game, delivered>> /\ legacy' \in {legacy, legacy \ {source}}
  OBVIOUS
<1>3. StoreStep
  BY <1>1, <1>2 DEF StoreStep, Store!Next, Store!Retire, Store!vars
<1>4. IInv'
  BY <1>1, <1>2
<1> QED BY <1>3, <1>4

(* The game's own saves, the next start, and power loss.                   *)
LEMMA OutsideSteps ==
  ASSUME IInv, PlaySave \/ Restart \/ Crash
  PROVE  IInv' /\ StoreStep
<1> USE MigrationAssumption
        DEF IInv, TypeOK, PositionInv, InMove, OnlyWholeSaves, Content, Dirs
<1>1. CASE PlaySave
  <2>1. PICK n \in Names : game' = [game EXCEPT ![n] = GAME]
    BY <1>1 DEF PlaySave
  <2>2. StoreStep
    BY <1>1, <2>1 DEF PlaySave, StoreStep, Store!Next, Store!Play
  <2>3. IInv'
    BY <1>1, <2>1 DEF PlaySave
  <2> QED BY <2>2, <2>3
<1>2. CASE Restart \/ Crash
  <2>1. UNCHANGED <<legacy, game, delivered>>
    BY <1>2 DEF Restart, Crash, disk
  <2>2. UNCHANGED disk /\ UNCHANGED delivered /\ AtStart
    BY <1>2 DEF Restart, Crash
  <2>3. crashes' \in 0..MaxCrashes
    BY <1>2 DEF Restart, Crash
  <2>4. TypeOK'
    BY <2>2, <2>3 DEF AtStart, disk
  <2>5. PositionInv' /\ OnlyWholeSaves'
    BY <2>2 DEF AtStart, disk
  <2> QED BY <2>1, <2>4, <2>5 DEF StoreStep, Store!vars
<1> QED BY <1>1, <1>2

(* Every step keeps the invariant and is a step of SaveStore or none.    *)
LEMMA NextIInv == IInv /\ [Next]_vars => IInv' /\ StoreStep
<1> SUFFICES ASSUME IInv, [Next]_vars
             PROVE  IInv' /\ StoreStep
  OBVIOUS
<1>1. CASE Next
  BY <1>1, DirectorySteps, QuietSteps, RenameStep, PublishStep, RemoveStep,
     OutsideSteps
  DEF Next, Migrate, MoveSave
<1>2. CASE UNCHANGED vars
  BY <1>2 DEF vars, disk, IInv, TypeOK, PositionInv, InMove, OnlyWholeSaves,
              Content, source, StoreStep, Store!vars
<1> QED BY <1>1, <1>2

----------------------------------------------------------------------------
(***************************************************************************)
(* Type correctness and the position of the migration, through failures    *)
(* and power losses.                                                       *)
(***************************************************************************)
THEOREM Invariance == Spec => []IInv
  BY InitIInv, NextIInv, PTL DEF Spec

(***************************************************************************)
(* The files, the loop's position and the counters keep their types.       *)
(***************************************************************************)
THEOREM TypeCorrect == Spec => []TypeOK
<1>1. IInv => TypeOK
  BY DEF IInv
<1> QED
  BY <1>1, Invariance, PTL

(***************************************************************************)
(* The game folder only ever holds whole saves under their own names.      *)
(***************************************************************************)
THEOREM WholeSaves == Spec => []OnlyWholeSaves
<1>1. IInv => OnlyWholeSaves
  BY DEF IInv
<1> QED BY <1>1, Invariance, PTL

(***************************************************************************)
(* The migration with all its failures implements the store in which none  *)
(* happen: no save is lost, replaced or torn (save_path.c move_save).      *)
(***************************************************************************)
THEOREM Refinement == Spec => ImplementsSaveStore
<1>1. Init => Store!Init
  BY DEF Init, Store!Init
<1>2. IInv /\ [Next]_vars => [Store!Next]_(Store!vars)
  BY NextIInv DEF StoreStep
<1> QED BY <1>1, <1>2, Invariance, PTL DEF Spec, ImplementsSaveStore, Store!Spec

----------------------------------------------------------------------------
(* While nothing has failed, the directories already visited have nothing  *)
(* left in them but what the game folder had or what is not ours, and of   *)
(* the one being visited only the entries to come are left.                *)
Visited ==
    /\ \A d \in Dirs, n \in Names :
         <<d, n>> \in legacy /\ d < dir => game[n] # NONE
    /\ \A d \in present : d < dir => Occupied(d)

Visiting ==
    /\ pc = "read" \/ InMove =>
         \A n \in Names :
           <<dir, n>> \in legacy =>
             n \in todo \/ (InMove /\ n = name) \/ game[n] # NONE
    /\ pc = "remove" => game[name] # NONE
    /\ pc # "discard"
    /\ pc = "playing" => dir = 4

CleanInv ==
    /\ \A d \in Dirs : Occupied(d) => d \in present
    /\ clean => Visited /\ Visiting

(* A directory is removed only when nothing is in it.                      *)
LEMMA PresenceKept ==
  ASSUME IInv, CleanInv, [Next]_vars
  PROVE  /\ \A d \in Dirs : Occupied(d)' => d \in present'
         /\ legacy' \subseteq legacy /\ present' \subseteq present
<1>1. /\ legacy' \subseteq legacy
      /\ present' = present \/ \E d \in {dir, 3} : /\ ~Occupied(d)
                                                  /\ present' = present \ {d}
  BY DEF Next, Migrate, MoveSave, OpenDir, ReadEntry, CloseDir, Finish, Rmdir,
         StatDestination, RenameSource, OpenCopy, Copy, Verify, Publish,
         RemoveSource, DiscardTemporary, PlaySave, Restart, Crash, vars, disk
<1>2. \A d \in Dirs : Occupied(d)' => Occupied(d)
  BY <1>1 DEF Occupied
<1> QED BY <1>1, <1>2 DEF CleanInv

(* What is in the directories already visited stays as it is.              *)
LEMMA OccupiedKept ==
  ASSUME NEW d \in Dirs, Occupied(d), UNCHANGED present,
         \A n \in Names : <<d, n>> \in legacy => <<d, n>> \in legacy'
  PROVE  Occupied(d)'
  BY DEF Occupied

(* A directory that is closed with nothing failed is done with.            *)
LEMMA DirectoryStepsClean ==
  ASSUME IInv, CleanInv, OpenDir \/ ReadEntry \/ CloseDir \/ Finish
  PROVE  clean' => Visited' /\ Visiting'
<1> SUFFICES ASSUME clean' PROVE Visited' /\ Visiting'
  OBVIOUS
<1> USE DEF Go, Works, Fails, InMove
<1>1. /\ UNCHANGED <<legacy, game, tmp, crossDevice, delivered>>
      /\ clean /\ clean \in BOOLEAN /\ dir \in 1..4
  BY DEF OpenDir, ReadEntry, CloseDir, Finish, Rmdir, disk, IInv, TypeOK
<1>2. Visited /\ Visiting /\ \A d \in Dirs : Occupied(d) => d \in present
  BY <1>1 DEF CleanInv
<1>3. CASE OpenDir
  <2>1. UNCHANGED present
    BY <1>3 DEF OpenDir, disk
  <2>2. CASE pc' = "read"
    <3>1. dir' = dir /\ todo' = {n \in Names : <<dir, n>> \in legacy}
      BY <1>3, <2>2 DEF OpenDir
    <3>2. Visited'
      BY <1>1, <1>2, <2>1, <3>1 DEF Visited, Occupied
    <3> QED BY <1>1, <2>2, <3>1, <3>2 DEF Visiting
  <2>3. CASE pc' = "open"
    <3>1. dir' = dir + 1 /\ dir \in Dirs /\ dir \notin present
      BY <1>1, <1>3, <2>3 DEF OpenDir
    <3>2. ~Occupied(dir)
      BY <1>2, <3>1
    <3>3. \A n \in Names : <<dir, n>> \notin legacy
      BY <3>2 DEF Occupied
    <3>4. ASSUME NEW d \in Dirs, NEW n \in Names, <<d, n>> \in legacy, d < dir + 1
          PROVE  game[n] # NONE
      <4>1. d # dir
        BY <3>3, <3>4
      <4>2. d < dir
        BY <3>1, <3>4, <4>1 DEF Dirs
      <4> QED BY <1>2, <3>4, <4>2 DEF Visited
    <3>5. ASSUME NEW d \in present, d < dir + 1
          PROVE  Occupied(d)
      <4>1. d # dir /\ d \in Dirs
        BY <3>1, <3>5 DEF IInv, TypeOK
      <4>2. d < dir
        BY <3>1, <3>5, <4>1 DEF Dirs
      <4> QED BY <1>2, <4>2 DEF Visited
    <3>6. Visited'
      BY <1>1, <2>1, <3>1, <3>4, <3>5 DEF Visited, Occupied
    <3> QED BY <2>3, <3>6 DEF Visiting
  <2> QED BY <1>3, <2>2, <2>3 DEF OpenDir
<1>4. CASE ReadEntry
  <2>1. PICK n \in todo : /\ todo' = todo \ {n} /\ name' = n
                          /\ pc = "read" /\ pc' = "stat"
    BY <1>1, <1>4 DEF ReadEntry
  <2>2. UNCHANGED <<present, dir>>
    BY <1>4 DEF ReadEntry, disk
  <2>3. Visited'
    BY <1>1, <1>2, <2>2 DEF Visited, Occupied
  <2> QED BY <1>1, <1>2, <2>1, <2>2, <2>3 DEF Visiting
<1>5. CASE CloseDir
  <2>1. /\ todo = {} /\ pc = "read" /\ pc' = "open" /\ dir' = dir + 1
        /\ present' = IF Occupied(dir) THEN present ELSE present \ {dir}
        /\ dir \in Dirs
    BY <1>1, <1>5 DEF CloseDir, Rmdir, IInv, PositionInv
  <2>2. \A n \in Names : <<dir, n>> \in legacy => game[n] # NONE
    BY <1>2, <2>1 DEF Visiting
  <2>3. ASSUME NEW d \in Dirs, NEW n \in Names, <<d, n>> \in legacy, d < dir + 1
        PROVE  game[n] # NONE
    <3>1. d = dir \/ d < dir
      BY <2>1, <2>3 DEF Dirs
    <3> QED BY <1>2, <2>2, <2>3, <3>1 DEF Visited
  <2>4. ASSUME NEW d \in present', d < dir + 1
        PROVE  Occupied(d)'
    <3>1. d \in Dirs /\ d \in present /\ (d = dir \/ d < dir)
      BY <2>1, <2>4 DEF Dirs, IInv, TypeOK
    <3>2. Occupied(d) /\ ~(d = dir /\ ~Occupied(dir))
      BY <1>2, <2>1, <2>4, <3>1 DEF Visited
    <3>3. Inside(d) \cap present \subseteq present'
      BY <2>1, <3>1 DEF Inside, Dirs
    <3> QED BY <1>1, <3>2, <3>3 DEF Occupied
  <2>5. Visited'
    BY <1>1, <2>1, <2>3, <2>4 DEF Visited
  <2> QED BY <2>1, <2>5 DEF Visiting
<1>6. CASE Finish
  <2>1. /\ dir = 4 /\ dir' = 4 /\ pc' = "playing"
        /\ present' = IF Occupied(3) THEN present ELSE present \ {3}
    BY <1>1, <1>6 DEF Finish, Rmdir
  <2>2. 3 \in present => Occupied(3)
    BY <1>2, <2>1 DEF Visited
  <2>3. present' = present
    BY <2>1, <2>2
  <2>4. Visited'
    BY <1>1, <1>2, <2>1, <2>3 DEF Visited, Occupied
  <2> QED BY <2>1, <2>4 DEF Visiting
<1> QED BY <1>3, <1>4, <1>5, <1>6

(* move_save with nothing failed ends with the save moved, or with another *)
(* one under its name.                                                     *)
LEMMA MoveStepsClean ==
  ASSUME IInv, CleanInv, MoveSave
  PROVE  clean' => Visited' /\ Visiting'
<1> SUFFICES ASSUME clean' PROVE Visited' /\ Visiting'
  OBVIOUS
<1> USE DEF Go, Works, Fails, InMove
<1>1. /\ UNCHANGED <<present, dir, name, todo>>
      /\ clean /\ InMove
      /\ pc' \in {"read", "rename", "openCopy", "copy", "verify", "publish", "remove"}
  BY DEF MoveSave, StatDestination, RenameSource, OpenCopy, Copy, Verify,
         Publish, RemoveSource, DiscardTemporary, disk
<1>2. Visited /\ Visiting
  BY <1>1 DEF CleanInv
<1>3. /\ dir \in Dirs /\ name \in Names /\ source \in legacy
      /\ \A n \in Names : game[n] # NONE => game'[n] # NONE
      /\ legacy' = legacy \/ legacy' = legacy \ {source}
  <2>1. dir \in Dirs /\ name \in Names /\ source \in legacy /\ legacy \subseteq Files
        /\ (pc = "publish" => tmp[name] = source) /\ source # NONE
    BY <1>1, MigrationAssumption DEF IInv, PositionInv, TypeOK
  <2>2. game' \in {game, [game EXCEPT ![name] = source]}
        /\ (legacy' = legacy \/ legacy' = legacy \ {source})
    BY <2>1 DEF MoveSave, StatDestination, RenameSource, OpenCopy, Copy, Verify,
                Publish, RemoveSource, DiscardTemporary, disk
  <2>3. game \in [Names -> Content]
    BY DEF IInv, TypeOK
  <2> QED BY <2>1, <2>2, <2>3
<1>4. Visited'
  <2>1. ASSUME NEW d \in Dirs, NEW n \in Names, <<d, n>> \in legacy', d < dir
        PROVE  game'[n] # NONE
    BY <1>2, <1>3, <2>1 DEF Visited
  <2>2. ASSUME NEW d \in present, d < dir
        PROVE  Occupied(d)'
    <3>1. Occupied(d) /\ d \in Dirs /\ d # dir
      BY <1>2, <1>3, <2>2 DEF Visited, IInv, TypeOK, Dirs
    <3>2. \A n \in Names : <<d, n>> \in legacy => <<d, n>> \in legacy'
      BY <1>3, <3>1 DEF source
    <3> QED BY <1>1, <3>1, <3>2, OccupiedKept
  <2> QED BY <1>1, <2>1, <2>2 DEF Visited
<1>5. ASSUME NEW n \in Names, <<dir, n>> \in legacy', n # name
      PROVE  n \in todo \/ game'[n] # NONE
  <2> HIDE DEF InMove
  <2>1. <<dir, n>> \in legacy
    BY <1>3, <1>5
  <2>2. n \in todo \/ game[n] # NONE
    BY <1>1, <1>2, <1>5, <2>1 DEF Visiting
  <2> QED BY <1>3, <2>2
<1>6. ASSUME pc' = "remove" => game'[name] # NONE,
             pc' = "read" /\ <<dir, name>> \in legacy' => game'[name] # NONE
      PROVE  Visiting'
  <2>1. \A n \in Names :
          <<dir, n>> \in legacy' =>
            n \in todo \/ (InMove' /\ n = name) \/ game'[n] # NONE
    BY <1>1, <1>5, <1>6
  <2>2. /\ dir' = dir /\ name' = name /\ todo' = todo
        /\ pc' # "discard" /\ pc' # "playing"
    BY <1>1
  <2> HIDE DEF InMove
  <2> QED BY <1>6, <2>1, <2>2 DEF Visiting
<1>7. CASE pc' = "remove"
  <2>1. game'[name] # NONE
    <3>1. /\ game' = [game EXCEPT ![name] = tmp[name]] /\ pc = "publish"
          /\ game \in [Names -> Content]
      BY <1>7 DEF MoveSave, StatDestination, RenameSource, OpenCopy, Copy, Verify,
                  Publish, RemoveSource, DiscardTemporary, IInv, TypeOK
    <3>2. tmp[name] = source /\ source \in Files
      BY <1>3, <3>1 DEF IInv, PositionInv, TypeOK
    <3>3. game'[name] = source /\ source # NONE
      <4>1. name \in Names
        BY <1>3
      <4>2. source # NONE
        BY <3>2, MigrationAssumption
      <4> QED BY <3>1, <3>2, <4>1, <4>2
    <3> QED BY <3>3
  <2> QED BY <1>4, <1>6, <1>7, <2>1
<1>8. CASE pc' = "read"
  <2>1. source \in legacy' => game'[name] # NONE
    <3>1. CASE StatDestination
      BY <1>1, <1>8, <3>1 DEF StatDestination, disk
    <3>2. CASE RenameSource
      BY <1>1, <1>8, <3>2 DEF RenameSource
    <3>3. CASE RemoveSource
      BY <1>2, <1>3, <3>3 DEF RemoveSource, Visiting
    <3>4. ~DiscardTemporary
      BY DEF DiscardTemporary
    <3>5. ~(OpenCopy \/ Copy \/ Verify \/ Publish)
      BY <1>8 DEF OpenCopy, Copy, Verify, Publish
    <3> QED BY <3>1, <3>2, <3>3, <3>4, <3>5 DEF MoveSave
  <2> QED BY <1>4, <1>6, <1>8, <2>1 DEF source
<1>9. CASE pc' # "remove" /\ pc' # "read"
  BY <1>4, <1>6, <1>9
<1> QED BY <1>7, <1>8, <1>9

(* The game's saves add names, and a new start begins before all           *)
(* directories.                                                            *)
LEMMA OutsideStepsClean ==
  ASSUME IInv, CleanInv, PlaySave \/ Restart \/ Crash
  PROVE  clean' => Visited' /\ Visiting'
<1>1. CASE PlaySave
  <2>1. PICK m \in Names : game' = [game EXCEPT ![m] = GAME]
    BY <1>1 DEF PlaySave
  <2>2. /\ pc = "playing"
        /\ UNCHANGED <<legacy, present, pc, dir, name, todo, clean>>
    BY <1>1 DEF PlaySave
  <2>3. \A n \in Names : game[n] # NONE => game'[n] # NONE
    BY <2>1, MigrationAssumption DEF IInv, TypeOK
  <2>4. clean => Visited'
    BY <2>2, <2>3 DEF CleanInv, Visited, Occupied
  <2> QED BY <2>2, <2>4 DEF CleanInv, Visiting, InMove
<1>2. CASE Restart \/ Crash
  <2>1. dir' = 1 /\ pc' = "open" /\ present' = present
    BY <1>2 DEF Restart, Crash, AtStart, disk
  <2>2. \A d \in Dirs : ~(d < 1)
    BY DEF Dirs
  <2>3. Visited'
    BY <2>1, <2>2 DEF Visited, IInv, TypeOK
  <2> QED BY <2>1, <2>3 DEF Visiting, InMove
<1> QED BY <1>1, <1>2

(* Every step keeps what a clean start has done.                           *)
LEMMA NextClean == IInv /\ CleanInv /\ [Next]_vars => CleanInv'
<1> SUFFICES ASSUME IInv, CleanInv, [Next]_vars
             PROVE  CleanInv'
  OBVIOUS
<1>1. \A d \in Dirs : Occupied(d)' => d \in present'
  BY PresenceKept
<1>2. CASE Next
  <2>1. clean' => Visited' /\ Visiting'
    BY <1>2, DirectoryStepsClean, MoveStepsClean, OutsideStepsClean
    DEF Next, Migrate
  <2> QED BY <1>1, <2>1 DEF CleanInv
<1>3. CASE UNCHANGED vars
  BY <1>3 DEF vars, disk, CleanInv, Visited, Visiting, InMove, Occupied
<1> QED BY <1>2, <1>3

(***************************************************************************)
(* A start on which nothing failed has moved every save it found, but for  *)
(* the names the game folder had, and removed every legacy directory that  *)
(* nothing else is in (save_path.c migrate_legacy_saves), whatever failed  *)
(* and however often power was lost on the starts before it.               *)
(***************************************************************************)
THEOREM MigratesAll == Spec => []CleanStartMigratesAll
<1>1. Init => CleanInv
  BY DEF Init, CleanInv, Visited, Visiting, InMove, Dirs
<1>2. IInv /\ CleanInv => CleanStartMigratesAll
  <2> SUFFICES ASSUME IInv, CleanInv, pc = "playing", clean
               PROVE  /\ \A f \in legacy : game[NameOf(f)] # NONE
                      /\ \A d \in present : Occupied(d)
    BY DEF CleanStartMigratesAll
  <2>1. Visited /\ dir = 4
    BY DEF CleanInv, Visiting
  <2>2. ASSUME NEW f \in legacy PROVE game[NameOf(f)] # NONE
    <3>1. PICK d \in Dirs, n \in Names : f = <<d, n>>
      BY MigrationAssumption DEF IInv, TypeOK
    <3>2. d < 4
      BY DEF Dirs
    <3> QED BY <2>1, <3>1, <3>2 DEF Visited, NameOf
  <2>3. ASSUME NEW d \in present PROVE Occupied(d)
    <3>1. d < 4
      BY DEF IInv, TypeOK, Dirs
    <3> QED BY <2>1, <3>1 DEF Visited
  <2> QED BY <2>2, <2>3
<1> QED BY <1>1, <1>2, NextClean, Invariance, PTL DEF Spec

----------------------------------------------------------------------------
(***************************************************************************)
(* Startup leaves the migration alone, so what is proved of the migration  *)
(* holds of the whole start, and it keeps the settings, for every set of   *)
(* names, saves and player's config files.                                 *)
(***************************************************************************)

Stages == {"read", "write", "flush", "check", "running", "fatal"}

(* What main's position says of config.txt: until write_config opens the   *)
(* file and again after it closed it, the file says what the player wants, *)
(* unless an operation on it was harmed; and past the reading, so does     *)
(* what is in memory.                                                      *)
SettingsInv ==
    /\ stage \in Stages /\ (stage # "read" => pc = "playing")
    /\ config \in Configs
    /\ file.value \in [Keys -> Int \cup {NONE}]
    /\ ~harmed /\ stage # "flush" => Parsed(file) = wish
    /\ ~harmed /\ stage # "read" => config = wish
    /\ fine /\ stage \in {"check", "running", "fatal"} =>
         file.exists /\ ~file.retired /\ Parsed(file) = config

(* A number cut short is a number.                                         *)
LEMMA CutIsInt == \A n \in Int : Cut(n) \subseteq Int
<1>1. \A size \in Nat : Digits(size) \subseteq Int
  <2> SUFFICES ASSUME NEW size \in Nat, NEW p \in {10^k : k \in 1..9}
               PROVE  size \div p \in Int
    BY DEF Digits
  <2>1. PICK k \in 1..9 : p = 10^k
    OBVIOUS
  <2>2. k \in {1, 2, 3, 4, 5, 6, 7, 8, 9}
    OBVIOUS
  <2>3. p \in Nat \ {0}
    BY <2>1, <2>2
  <2> QED BY <2>3
<1> QED BY <1>1 DEF Cut

(* Reading settings, or the lines of a file, gives settings.               *)
LEMMA ParsedIsConfig ==
  ASSUME NEW f, f.value \in [Keys -> Int \cup {NONE}]
  PROVE  Parsed(f) \in Configs
<1>1. Defaults \in [Keys -> Int]
  BY StartupAssumption DEF Defaults
<1> QED
  BY <1>1 DEF Parsed, Configs

(* What was written is read back.                                          *)
LEMMA WrittenIsRead ==
  ASSUME NEW c \in Configs
  PROVE  /\ Written(c).exists /\ ~Written(c).retired
         /\ Written(c).value \in [Keys -> Int \cup {NONE}]
         /\ Parsed(Written(c)) = c
<1>1. Written(c).value = c /\ Written(c).exists = TRUE /\ Written(c).retired = FALSE
  BY DEF Written, Lines
<1>2. \A v \in Keys : c[v] # NONE
  BY StartupAssumption DEF Configs
<1> QED
  BY <1>1, <1>2 DEF Parsed, Configs

(* A torn file still has a number, or none, for each key.                  *)
LEMMA TornIsFile ==
  ASSUME NEW c \in Configs, NEW f \in Torn(c)
  PROVE  f.value \in [Keys -> Int \cup {NONE}]
<1>1. PICK n \in 1..3 : \E rest \in {NONE, c[CONFIG_VARS[n]]} \cup Cut(c[CONFIG_VARS[n]]) :
        f = Lines([v \in Keys |->
                IF v \in {CONFIG_VARS[m] : m \in 1..(n - 1)} THEN c[v]
                ELSE IF v = CONFIG_VARS[n] THEN rest ELSE NONE])
  BY DEF Torn
<1>2. PICK rest \in {NONE, c[CONFIG_VARS[n]]} \cup Cut(c[CONFIG_VARS[n]]) :
        f = Lines([v \in Keys |->
                IF v \in {CONFIG_VARS[m] : m \in 1..(n - 1)} THEN c[v]
                ELSE IF v = CONFIG_VARS[n] THEN rest ELSE NONE])
  BY <1>1
<1>3. c[CONFIG_VARS[n]] \in Int /\ \A v \in Keys : c[v] \in Int
  BY DEF Configs, Keys
<1>4. rest \in Int \cup {NONE}
  BY <1>2, <1>3, CutIsInt
<1>5. f.value = [v \in Keys |->
                IF v \in {CONFIG_VARS[m] : m \in 1..(n - 1)} THEN c[v]
                ELSE IF v = CONFIG_VARS[n] THEN rest ELSE NONE]
  BY <1>2 DEF Lines
<1> QED
  BY <1>3, <1>4, <1>5


(***************************************************************************)
(* The start leaves the migration's variables to the migration.            *)
(***************************************************************************)
LEMMA StepIsMigration ==
  ASSUME [StartupNext]_allVars
  PROVE  [Next]_vars
<1>1. CASE UNCHANGED allVars
  BY <1>1 DEF allVars
<1>2. CASE Boot
  BY <1>2 DEF Boot, MigrateSaves, ReadConfig, OpenConfig, CloseConfig,
              CheckSystem, Next
<1>3. CASE GameSaves
  BY <1>3 DEF GameSaves, Next
<1>4. CASE StartAgain
  BY <1>4 DEF StartAgain, Next
<1>5. CASE PowerLoss
  BY <1>5 DEF PowerLoss, Next
<1> QED
  BY <1>1, <1>2, <1>3, <1>4, <1>5 DEF StartupNext

(* Every behaviour of the start is one of the migration, so that the       *)
(* theorems about the migration are about the whole start.                 *)
THEOREM MigrationUndisturbed == StartupSpec => Spec
<1>1. StartupInit => Init
  BY DEF StartupInit
<1>2. [StartupNext]_allVars => [Next]_vars
  BY StepIsMigration
<1> QED
  BY <1>1, <1>2, PTL DEF StartupSpec, Spec

(* No start shows the player a torn or foreign save, in the composition of *)
(* the migration with config.txt, failed checks and restarts.              *)
THEOREM StartupWholeSaves == StartupSpec => []OnlyWholeSaves
  BY MigrationUndisturbed, WholeSaves, PTL

(* A start on which nothing failed migrates all there is, whatever became  *)
(* of config.txt and of the starts before it.                              *)
THEOREM StartupMigratesAll == StartupSpec => []CleanStartMigratesAll
  BY MigrationUndisturbed, MigratesAll, PTL

(* The whole start implements the promise made about old saves.            *)
THEOREM StartupKeepsSaves == StartupSpec => ImplementsSaveStore
  BY MigrationUndisturbed, Refinement

----------------------------------------------------------------------------
(* At first the file says what the player wants.                           *)
LEMMA InitSettings == StartupInit => SettingsInv
<1> SUFFICES ASSUME StartupInit PROVE SettingsInv
  OBVIOUS
<1>1. PICK f \in UserFiles \cup {NoFile} : InitFile(f)
  BY DEF StartupInit
<1>2. f.value \in [Keys -> Int \cup {NONE}]
  BY StartupAssumption DEF ConfigFiles, NoFile
<1>3. Defaults \in Configs
  BY StartupAssumption DEF Defaults, Configs
<1> QED
  BY <1>1, <1>2, <1>3 DEF StartupInit, InitFile, SettingsInv, Stages

(* The migration ends with config.txt still to be read.                    *)
LEMMA MigrateSettings ==
  ASSUME SettingsInv, MigrateSaves
  PROVE  SettingsInv'
<1>1. pc # "playing"
  BY DEF MigrateSaves, Migrate, MoveSave, OpenDir, ReadEntry, CloseDir, Finish,
         StatDestination, RenameSource, OpenCopy, Copy, Verify, Publish,
         RemoveSource, DiscardTemporary, Go
<1> QED
  BY <1>1 DEF SettingsInv, MigrateSaves, settings, Parsed

(* Reading, whatever it finds.                                             *)
LEMMA ReadSettings ==
  ASSUME SettingsInv, ReadConfig
  PROVE  SettingsInv'
<1> USE DEF SettingsInv, Stages, Main
<1>1. Parsed(file) \in Configs /\ Defaults \in Configs
  BY ParsedIsConfig, StartupAssumption DEF Defaults, Configs
<1>2. Parsed(file)' = Parsed(file) /\ file' = file /\ wish' = wish /\ pc' = pc
  BY DEF ReadConfig, Parsed, vars
<1>3. CASE Main("read", IF file.exists /\ ~file.retired THEN "check" ELSE "write")
           /\ config' = Parsed(file) /\ UNCHANGED <<fine, harmed>>
  BY <1>1, <1>2, <1>3
<1>4. CASE Main("read", "write") /\ config' = Defaults /\ fine' = FALSE /\ harmed' = TRUE
  BY <1>1, <1>2, <1>4
<1> QED
  BY <1>3, <1>4 DEF ReadConfig

(* Rewriting: what is in memory is what the player wants.                  *)
LEMMA WriteSettings ==
  ASSUME SettingsInv, OpenConfig \/ CloseConfig \/ CheckSystem
  PROVE  SettingsInv'
<1> USE DEF SettingsInv, Stages, Main
<1>1. CASE OpenConfig /\ stage' = "flush"
  <2>1. file'.value = [v \in Keys |-> NONE]
    BY <1>1 DEF OpenConfig, Lines, NoFile
  <2> QED
    BY <1>1, <2>1 DEF OpenConfig, vars
<1>2. CASE OpenConfig /\ stage' = "check"
  <2>1. /\ file' = file /\ fine' = FALSE /\ config' = config /\ wish' = wish
        /\ harmed' = harmed /\ pc' = pc /\ pc = "playing" /\ stage = "write"
    BY <1>2 DEF OpenConfig, vars
  <2>2. Parsed(file)' = Parsed(file)
    BY <2>1 DEF Parsed
  <2> QED
    BY <1>2, <2>1, <2>2
<1>3. CASE CloseConfig
  <2>1. /\ config' = config /\ wish' = wish /\ pc' = pc /\ stage' = "check"
        /\ pc = "playing" /\ stage = "flush"
    BY <1>3 DEF CloseConfig, vars
  <2>2. CASE file' = Written(config) /\ UNCHANGED <<fine, harmed>>
    <3>1. /\ file'.exists /\ ~file'.retired /\ Parsed(file') = config
          /\ file'.value \in [Keys -> Int \cup {NONE}]
      BY <2>2, WrittenIsRead
    <3> QED
      BY <2>1, <2>2, <3>1
  <2>3. CASE file' \in Torn(config) /\ fine' = FALSE /\ harmed' = TRUE
    BY <2>1, <2>3, TornIsFile
  <2> QED
    BY <1>3, <2>2, <2>3 DEF CloseConfig
<1>4. CASE CheckSystem
  BY <1>4 DEF CheckSystem, settings, vars, Parsed
<1> QED
  BY <1>1, <1>2, <1>3, <1>4 DEF OpenConfig

(* A new start, after an edit or a power loss.                             *)
LEMMA AgainSettings ==
  ASSUME SettingsInv, StartAgain \/ PowerLoss
  PROVE  SettingsInv'
<1> USE DEF SettingsInv, Stages
<1>1. stage' = "read" /\ config' = Defaults /\ Defaults \in Configs
  BY StartupAssumption DEF StartAgain, PowerLoss, Defaults, Configs
<1>2. CASE file' = file /\ wish' = wish /\ harmed' = harmed /\ stage # "flush"
  <2>1. Parsed(file)' = Parsed(file)
    BY <1>2 DEF Parsed
  <2> QED
    BY <1>1, <1>2, <2>1
<1>3. CASE StartAgain /\ \E f \in UserFiles : file' = f /\ wish' = Parsed(f) /\ harmed' = FALSE
  BY <1>1, <1>3, StartupAssumption DEF ConfigFiles
<1>4. CASE PowerLoss /\ pc = "playing" /\ stage = "flush"
  <2>1. file'.value \in [Keys -> Int \cup {NONE}]
    BY <1>4, TornIsFile, WrittenIsRead DEF PowerLoss
  <2>2. harmed' = TRUE
    BY <1>4 DEF PowerLoss
  <2> QED
    BY <1>1, <2>1, <2>2
<1> QED
  BY <1>2, <1>3, <1>4 DEF StartAgain, PowerLoss

(* Every step keeps what the position says.                                *)
LEMMA NextSettings == SettingsInv /\ [StartupNext]_allVars => SettingsInv'
<1> SUFFICES ASSUME SettingsInv, [StartupNext]_allVars PROVE SettingsInv'
  OBVIOUS
<1>1. CASE UNCHANGED allVars
  BY <1>1 DEF SettingsInv, allVars, vars, settings, Parsed
<1>2. CASE Boot
  BY <1>2, MigrateSettings, ReadSettings, WriteSettings DEF Boot
<1>3. CASE GameSaves
  BY <1>3 DEF GameSaves, PlaySave, SettingsInv, settings, Parsed
<1>4. CASE StartAgain \/ PowerLoss
  BY <1>4, AgainSettings
<1> QED
  BY <1>1, <1>2, <1>3, <1>4 DEF StartupNext

(* Damage does not grow: what is written is what the player wants or the   *)
(* defaults, because a file a write left is read, not written again, and   *)
(* only an unopenable one is, with the defaults.                           *)
DamageInv ==
    /\ config \in Remains /\ Parsed(file) \in Remains
    /\ ~file.exists \/ file.retired => Parsed(file) = wish
    /\ stage \in {"write", "flush"} => config \in {wish, Defaults}

(* At first nothing is damaged.                                            *)
LEMMA InitDamage == StartupInit => DamageInv
  BY DEF StartupInit, InitFile, DamageInv, Remains

(* No line at all, as fopen leaves the file, gives the defaults.           *)
LEMMA EmptiedIsDefaults ==
  /\ Parsed(Lines(NoFile.value)) = Defaults
  /\ Lines(NoFile.value).exists /\ ~Lines(NoFile.value).retired
<1>1. Defaults = [v \in Keys |-> Defaults[v]]
  BY DEF Defaults
<1> QED BY <1>1 DEF Parsed, Lines, NoFile

(* What a write that may be cut short leaves.                              *)
LEMMA WriteLeaves ==
  ASSUME NEW f \in Torn(config) \cup {Written(config)}, config \in Configs,
         config \in {wish, Defaults}
  PROVE  Parsed(f) \in Remains /\ f.exists /\ ~f.retired
<1>1. CASE f = Written(config)
  BY <1>1, WrittenIsRead DEF Remains
<1>2. CASE f \in Torn(config)
  <2>1. Parsed(f) \in Remains
    BY <1>2 DEF Remains
  <2>2. \E value : f = Lines(value)
    BY <1>2 DEF Torn
  <2> QED BY <2>1, <2>2 DEF Lines
<1> QED BY <1>1, <1>2

(* Every step keeps the damage within one write.                           *)
LEMMA NextDamage ==
  SettingsInv /\ DamageInv /\ [StartupNext]_allVars => DamageInv'
<1> SUFFICES ASSUME SettingsInv, DamageInv, [StartupNext]_allVars
             PROVE  DamageInv'
  OBVIOUS
<1>1. ASSUME UNCHANGED <<file, config, wish>>,
             stage' \in {"write", "flush"} => stage' = stage
      PROVE  DamageInv'
  BY <1>1 DEF DamageInv, Remains, Parsed
<1>2. CASE MigrateSaves \/ CheckSystem \/ GameSaves \/ UNCHANGED allVars
  BY <1>1, <1>2 DEF MigrateSaves, CheckSystem, GameSaves, Main, allVars, settings
<1>3. CASE ReadConfig
  <2>1. UNCHANGED <<file, wish>> /\ Remains' = Remains /\ Parsed(file)' = Parsed(file)
    BY <1>3 DEF ReadConfig, Remains, Parsed
  <2>2. CASE /\ stage' = IF file.exists /\ ~file.retired THEN "check" ELSE "write"
             /\ config' = Parsed(file)
    BY <2>1, <2>2 DEF DamageInv
  <2>3. CASE config' = Defaults
    BY <2>1, <2>3 DEF DamageInv, Remains
  <2> QED BY <1>3, <2>2, <2>3 DEF ReadConfig, Main
<1>4. CASE OpenConfig
  <2>1. UNCHANGED <<config, wish>> /\ Remains' = Remains /\ stage = "write"
    BY <1>4 DEF OpenConfig, Remains, Main
  <2>2. CASE stage' = "flush" /\ file' = Lines(NoFile.value)
    <3>1. Parsed(file') = Defaults /\ file'.exists /\ ~file'.retired
      BY <2>2, EmptiedIsDefaults
    <3>2. Defaults \in Remains
      BY DEF Remains
    <3> QED BY <2>1, <3>1, <3>2 DEF DamageInv
  <2>3. CASE stage' = "check" /\ file' = file
    BY <1>1, <2>1, <2>3
  <2> QED BY <1>4, <2>2, <2>3 DEF OpenConfig, Main
<1>5. CASE CloseConfig
  <2>1. UNCHANGED <<config, wish>> /\ Remains' = Remains /\ stage = "flush"
        /\ stage' = "check" /\ file' \in Torn(config) \cup {Written(config)}
    BY <1>5 DEF CloseConfig, Remains, Main
  <2>2. Parsed(file') \in Remains /\ file'.exists /\ ~file'.retired
    BY <2>1, WriteLeaves DEF DamageInv, SettingsInv
  <2> QED BY <2>1, <2>2 DEF DamageInv
<1>6. CASE StartAgain \/ PowerLoss
  <2>1. stage' = "read" /\ config' = Defaults /\ config' \in Remains'
    BY <1>6 DEF StartAgain, PowerLoss, Remains
  <2>2. CASE UNCHANGED <<file, wish>>
    BY <2>1, <2>2 DEF DamageInv, Remains, Parsed
  <2>3. CASE wish' = Parsed(file')
    BY <2>1, <2>3 DEF DamageInv, Remains
  <2>4. CASE /\ stage = "flush" /\ wish' = wish
             /\ file' \in Torn(config) \cup {Written(config)}
    <3>1. Parsed(file') \in Remains /\ file'.exists /\ ~file'.retired
      BY <2>4, WriteLeaves DEF DamageInv, SettingsInv
    <3>2. Remains' = Remains
      BY <2>4 DEF Remains
    <3> QED BY <2>1, <3>1, <3>2 DEF DamageInv
  <2> QED BY <1>6, <2>2, <2>3, <2>4 DEF StartAgain, PowerLoss
<1> QED
  BY <1>2, <1>3, <1>4, <1>5, <1>6 DEF StartupNext, Boot

(***************************************************************************)
(* For any file the player makes, any saves and any sequence of starts,    *)
(* failures and power losses: a game starts with the player's settings if  *)
(* no operation on config.txt failed or was cut since the player's last    *)
(* edit, and otherwise with what one write cut short leaves of them or of  *)
(* the defaults; and a start without failures leaves a file that need not  *)
(* be rewritten.                                                           *)
(***************************************************************************)
THEOREM KeepsSettings == StartupSpec => []SettingsKept
<1>1. SettingsInv /\ DamageInv => SettingsKept
  BY DEF SettingsInv, DamageInv, SettingsKept
<1> QED
  BY <1>1, InitSettings, NextSettings, InitDamage, NextDamage, PTL
  DEF StartupSpec

=============================================================================
