----------------------------- MODULE GameFolder -----------------------------
(***************************************************************************)
(* What the engine may believe of its private files: there is one folder,  *)
(* whichever of its two names a call uses, every call on a file acts on    *)
(* the same one, and no such call reaches any other place.  No path is     *)
(* rewritten here; EngineFiles is shown to implement it.                   *)
(***************************************************************************)
EXTENDS Integers

CONSTANTS
    Names,      \* files and directories the engine makes
    Inside, Top \* the directory each is in; the folder itself

VARIABLES
    folder,     \* what the game folder holds
    elsewhere,  \* what the other places hold, the old save folder among them
    result      \* what the last call answered

vars == <<folder, elsewhere, result>>

HasPlace(n, holds) == Inside[n] = Top \/ Inside[n] \in holds
IsTree(holds) == \A n \in holds : HasPlace(n, holds)
Empty(n) == \A m \in folder : Inside[m] # n

Init == IsTree(folder) /\ result = <<"none">>

Answer(call, value) == result' = <<call, value>>

(* A call that can fail, and then leaves everything as it was. *)
Try(call, step) ==
    \/ step /\ Answer(call, TRUE)
    \/ UNCHANGED folder /\ Answer(call, FALSE)

Make(n) == HasPlace(n, folder) /\ folder' = folder \cup {n}

Drop(n) == n \in folder /\ Empty(n) /\ folder' = folder \ {n}

Rename(n, m) ==
    /\ n \in folder /\ Empty(n) /\ m \notin folder
    /\ folder' = (folder \ {n}) \cup {m}
    /\ HasPlace(m, folder')

(* The `mkdir' command answers well even when nothing came of it.          *)
Command(n) ==
    /\ \E made \in SUBSET ({n, Inside[n]} \ {Top}) :
         /\ folder' = folder \cup made
         /\ \A m \in made : HasPlace(m, folder')
    /\ Answer("system", 0)

Private ==
    /\ \E n \in Names :
         \/ Try("write", Make(n)) \/ Try("mkdir", Make(n)) \/ Command(n)
         \/ Try("remove", Drop(n))
         \/ \E m \in Names : Try("rename", Rename(n, m))
         \/ Answer("look", n \in folder) /\ UNCHANGED folder
         \/ Answer("realpath", n) /\ UNCHANGED folder
    /\ UNCHANGED elsewhere

OtherCommand == Answer("system", -1) /\ UNCHANGED <<folder, elsewhere>>

List ==
    /\ \E n \in Names \cup {Top} :
         Answer("list", {m \in folder : Inside[m] = n})
    /\ UNCHANGED <<folder, elsewhere>>

Outside == result' = <<"outside">> /\ UNCHANGED folder

Next == Private \/ OtherCommand \/ List \/ Outside

Spec == Init /\ [][Next]_vars

=============================================================================
