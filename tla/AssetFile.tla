----------------------------- MODULE AssetFile -----------------------------
(***************************************************************************)
(* What the engine is promised of its assets, with no streams and no       *)
(* cache: a handle is a position in one file, a read returns the bytes at  *)
(* that position and none behind the file, and a directory handle names    *)
(* each file of the directory once.  AAsset is shown to implement it.      *)
(***************************************************************************)
EXTENDS Integers

CONSTANTS
    Handles, Names,
    Sources,        \* files on the card
    Length,         \* of each source
    Counts,         \* how much a read may ask for
    Targets,        \* where a seek may want to go
    Paths, Listing, \* directory names, and the files of each
    Nothing

VARIABLES
    apk,            \* the names the asset tree holds
    file, pos,      \* per handle
    unsteady,       \* handles whose reads go to the card, and can come short
    left,           \* files the directory handle has yet to name
    answer          \* what the last call returned, if one of these

handles == <<file, pos, unsteady>>
vars == <<apk, handles, left, answer>>

Init ==
    /\ apk \subseteq Names
    /\ file = [h \in Handles |-> Nothing] /\ pos = [h \in Handles |-> 0]
    /\ unsteady = {} /\ left = {} /\ answer = <<"none">>

IsOpen(h) == file[h] # Nothing

(* A name of the asset tree opens that asset, at its first byte. *)
Open(h, n) ==
    /\ ~IsOpen(h)
    /\ \E s \in Sources :
         /\ n \in apk => s = <<"assets", n>>
         /\ file' = [file EXCEPT ![h] = s]
    /\ pos' = [pos EXCEPT ![h] = 0]
    /\ unsteady' \in {unsteady, unsteady \cup {h}}
    /\ answer' = <<"open", h>>
    /\ UNCHANGED <<apk, left>>

OpenFails == answer' = <<"open", Nothing>> /\ UNCHANGED <<apk, handles, left>>

(* All that is asked for and there, or less if the card fails. *)
Read(h, count) ==
    /\ IsOpen(h)
    /\ \E n \in 0..count :
         /\ n = 0 \/ pos[h] + n <= Length[file[h]]
         /\ h \in unsteady \/ n = count \/ pos[h] + n = Length[file[h]]
         /\ pos' = [pos EXCEPT ![h] = @ + n]
         /\ answer' = <<"read", file[h], pos[h], n>>
    /\ UNCHANGED <<apk, file, unsteady, left>>

(* Inside the file it succeeds and outside it fails, unless reads go to    *)
(* the card: then it may also end behind the file, or fail.                *)
Seek(h, to) ==
    /\ IsOpen(h)
    /\ \/ /\ to >= 0 /\ (to <= Length[file[h]] \/ h \in unsteady)
          /\ pos' = [pos EXCEPT ![h] = to] /\ answer' = <<"seek", to>>
       \/ /\ to \notin 0..Length[file[h]] \/ h \in unsteady
          /\ UNCHANGED pos /\ answer' = <<"seek", -1>>
    /\ UNCHANGED <<apk, file, unsteady, left>>

GetLength(h) ==
    /\ IsOpen(h)
    /\ answer' = <<"length", Length[file[h]]>>
    /\ UNCHANGED <<apk, handles, left>>

Close(h) ==
    /\ IsOpen(h)
    /\ file' = [file EXCEPT ![h] = Nothing] /\ pos' = [pos EXCEPT ![h] = 0]
    /\ unsteady' = unsteady \ {h}
    /\ answer' = <<"close", h>>
    /\ UNCHANGED <<apk, left>>

OpenDir(path) ==
    /\ left' = Listing[path] /\ answer' = <<"dir", path>>
    /\ UNCHANGED <<apk, handles>>

NextFileName ==
    /\ \/ \E n \in left : left' = left \ {n} /\ answer' = <<"entry", n>>
       \/ left = {} /\ UNCHANGED left /\ answer' = <<"entry", Nothing>>
    /\ UNCHANGED <<apk, handles>>

CloseDir == left' = {} /\ answer' = <<"closed">> /\ UNCHANGED <<apk, handles>>

OtherCall == answer' = <<"none">> /\ UNCHANGED <<apk, handles, left>>

Next ==
    \/ \E h \in Handles :
         \/ \E n \in Names : Open(h, n)
         \/ \E count \in Counts : Read(h, count)
         \/ \E to \in Targets : Seek(h, to)
         \/ GetLength(h) \/ Close(h)
    \/ OpenFails
    \/ \E path \in Paths : OpenDir(path)
    \/ NextFileName \/ CloseDir \/ OtherCall

Spec == Init /\ [][Next]_vars

=============================================================================
