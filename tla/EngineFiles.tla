---------------------------- MODULE EngineFiles ----------------------------
(***************************************************************************)
(* The path calls of libc_shim.c over the card the assets are read from.   *)
(* The engine keeps its files under the Android private folder; every call *)
(* that takes a path has it rewritten by save_redirect_path, so that they  *)
(* land beside the NRO.  A path is <<place, name>>: "files" is the private *)
(* folder, "files2" a folder whose name only begins like it, "game" the    *)
(* NRO's own.  A call may fail whenever the card does; calls on            *)
(* descriptors and streams pass through.                                   *)
(***************************************************************************)
EXTENDS AAsset

CONSTANTS
    Written,        \* files and directories the engine makes
    Inside, TOP,    \* the directory each of them is in
    EnginePaths     \* the paths it passes

VARIABLE result     \* observed: what the last call answered, if one of these

Roots == {"files", "files2", "game"}
Folders == {Inside[n] : n \in Written} \ {TOP}

(* save_redirect_path *)
Redirect(p) == IF p[1] = "files" THEN <<"game", p[2]>> ELSE p

Parent(s) == IF Inside[s[2]] = TOP THEN {} ELSE {<<s[1], Inside[s[2]]>>}

ASSUME FilesAssumption ==
    /\ EnginePaths \subseteq Roots \X Written
    /\ \A p \in EnginePaths : {Redirect(p)} \cup Parent(Redirect(p)) \subseteq Sources
    /\ TOP \notin Written
    /\ Inside \in [Written -> Written \cup {TOP}]
    /\ \A d \in Folders : Inside[d] # TOP => Inside[Inside[d]] = TOP

HasPlace(s, holds) == Inside[s[2]] = TOP \/ <<s[1], Inside[s[2]]>> \in holds

FilesInit ==
    /\ Init
    /\ \A s \in host : s \in Roots \X Written => HasPlace(s, host)
    /\ result = <<"none">>

----------------------------------------------------------------------------
Private(p) == p[1] \in {"files", "game"}

Say(p, call, value) ==
    result' = IF Private(p) THEN <<call, value>> ELSE <<"outside">>

Make(s) == HasPlace(s, host) /\ host' = host \cup {s}

Try(p, call, step) ==
    \/ step /\ Say(p, call, TRUE)
    \/ UNCHANGED host /\ Say(p, call, FALSE)

(* open_fake, openat_fake, __open_2_fake with O_CREAT *)
Create(p) == p[2] \notin Folders /\ Try(p, "write", Make(Redirect(p)))

(* fopen_fake: "w" and "a" create, "r" finds what is there. *)
Fopen(p) ==
    /\ p[2] \notin Folders
    /\ \/ Try(p, "write", Make(Redirect(p)))
       \/ Say(p, "look", Redirect(p) \in host) /\ UNCHANGED host

(* remove_fake and unlinkat_fake: a directory is refused by the card. *)
Remove(p) ==
    Try(p, "remove", /\ p[2] \notin Folders /\ Redirect(p) \in host
                     /\ host' = host \ {Redirect(p)})

(* Bug: only the old name is rewritten. *)
RenameHalf(p, q) ==
    /\ {p[2], q[2]} \cap Folders = {}
    /\ Try(p, "rename", LET s == Redirect(p) IN
         /\ s \in host /\ q \notin host /\ HasPlace(q, host)
         /\ host' = (host \ {s}) \cup {q})

(* rename_fake of a file: the card refuses to replace one. *)
Rename(p, q) ==
    /\ {p[2], q[2]} \cap Folders = {} /\ Private(p) = Private(q)
    /\ Try(p, "rename", LET s == Redirect(p) t == Redirect(q) IN
         /\ s \in host /\ t \notin host /\ HasPlace(t, host)
         /\ host' = (host \ {s}) \cup {t})

(* mkdir_fake *)
MakeDirectory(p) ==
    /\ p[2] \in Folders
    /\ Try(p, "mkdir", Redirect(p) \notin host /\ Make(Redirect(p)))

(* system_fake, mkdir_p: the missing parents, then the directory; that a   *)
(* step fails is not reported.                                             *)
MakePath(p) ==
    /\ p[2] \in Folders
    /\ LET s == Redirect(p)
       IN  \E made \in SUBSET ({s} \cup Parent(s)) :
             /\ host' = host \cup made
             /\ \A t \in made : HasPlace(t, host')
    /\ Say(p, "system", 0)

OtherCommand == result' = <<"system", -1>> /\ UNCHANGED host

(* stat_fake, lstat_fake, truncate_fake: is it there? *)
Look(p) == Say(p, "look", Redirect(p) \in host) /\ UNCHANGED host

(* realpath_fake: a path that later calls take. *)
RealPath(p) ==
    /\ Say(p, "realpath", IF Private(Redirect(p)) THEN p[2] ELSE NULL)
    /\ UNCHANGED host

(* opendir_fake and readdir_fake to the end. *)
List(p) ==
    /\ Say(p, "list", {n \in Written : /\ Inside[n] = p[2]
                                       /\ <<Redirect(p)[1], n>> \in host})
    /\ UNCHANGED host

FileCall ==
    /\ \/ \E p \in EnginePaths :
            \/ Create(p) \/ Fopen(p) \/ Remove(p) \/ MakeDirectory(p) \/ MakePath(p)
            \/ Look(p) \/ RealPath(p)
            \/ \E q \in EnginePaths : Rename(p, q)
       \/ OtherCommand
       \/ \E place \in Roots, n \in Folders \cup {TOP} : List(<<place, n>>)
    /\ answer' = <<"none">>
    /\ UNCHANGED <<asset, directory, streams, blocks>>

AssetCall == AssetNext /\ result' = <<"outside">>

FilesNext == FileCall \/ AssetCall

FilesSpec == FilesInit /\ [][FilesNext]_<<vars, result>>

----------------------------------------------------------------------------
(***************************************************************************)
(* The private folder is the game's, by either name and in every call: the *)
(* engine finds what it wrote, removes and renames what it means, and no   *)
(* call on a private path touches the old save folder or a neighbour of it *)
(* (save_redirect_path and the calls of libc_shim.c that use it).          *)
(***************************************************************************)
Folder == INSTANCE GameFolder WITH
    Names <- Written, Top <- TOP,
    folder <- {n \in Written : <<"game", n>> \in host},
    elsewhere <- host \ ({"game"} \X Written)

ImplementsGameFolder == Folder!Spec

=============================================================================
