------------------------------- MODULE AAsset -------------------------------
(***************************************************************************)
(* The AAsset calls of libc_shim.c: assets are files of the loose assets/  *)
(* tree.  A small one is read into memory when it is opened and its stream *)
(* closed; a large one, or one that could not be cached, is read from its  *)
(* stream.  Every call has both ways of working.                           *)
(*                                                                         *)
(* A file is <<place, name>>: in the asset tree, in the game folder, or    *)
(* where an absolute name says.  A byte is its offset in its file.  Each   *)
(* call is one step: handles share nothing, and one handle is used by one  *)
(* thread at a time.                                                       *)
(***************************************************************************)
EXTENDS Integers, FiniteSets

CONSTANTS
    Handles,        \* Asset structs
    Names, Absolute,\* names the engine opens; those that start with a slash
    Sources,        \* the files there may be on the card
    Length,         \* bytes of each
    CACHE_MAX,      \* the largest asset kept in memory (16 MB in the code)
    Counts, Offsets,\* what reads and seeks may ask for
    Paths, Missing, \* directories the engine lists; those that do not exist
    Entries,        \* per directory: <<name, kind>>
    Beyond,         \* bound: how far behind its file a stream is sought
    NULL

Places == {"assets", "game", "root", "files", "files2"}
Positions == UNION {0..(Length[s] + Beyond) : s \in Sources}
Targets == {b + o : b \in Positions, o \in Offsets}
Kinds == {"file", "directory", "hidden"}

ASSUME AssetAssumption ==
    /\ IsFiniteSet(Handles)
    /\ \A s \in Sources : s[1] \in Places
    /\ Absolute \subseteq Names /\ Missing \subseteq Paths
    /\ Length \in [Sources -> Nat] /\ CACHE_MAX \in Nat
    /\ Counts \subseteq Nat /\ Offsets \subseteq Int
    /\ Entries \in [Paths -> SUBSET (Names \X Kinds)]
    /\ Beyond \in Nat
    /\ NULL \notin Sources \cup Names \cup Handles

VARIABLES
    host,           \* the files on the card
    open,           \* handles in use; per handle:
    f, at,          \*   the stream's file or NULL, and where it stands
    mem,            \*   the file in memory or NULL
    size, pos,
    dir, todo,      \* the directory handle, and readdir's remaining entries
    answer,         \* observed: what the last call returned, if one of these
    streams, blocks \* observed: streams and heap blocks not given back

asset == <<open, f, at, mem, size, pos>>
directory == <<dir, todo>>
vars == <<host, asset, directory, answer, streams, blocks>>

TypeOK ==
    /\ host \subseteq Sources
    /\ open \subseteq Handles
    /\ f \in [Handles -> Sources \cup {NULL}] /\ at \in [Handles -> Nat]
    /\ mem \in [Handles -> Sources \cup {NULL}]
    /\ size \in [Handles -> Nat] /\ pos \in [Handles -> Nat]
    /\ dir \in {"none", "missing", "open"} /\ todo \subseteq Names \X Kinds
    /\ streams \in Int /\ blocks \in Int

Init ==
    /\ host \in SUBSET Sources
    /\ open = {}
    /\ f = [h \in Handles |-> NULL] /\ mem = f
    /\ at = [h \in Handles |-> 0] /\ size = at /\ pos = at
    /\ dir = "none" /\ todo = {}
    /\ answer = <<"none">> /\ streams = 0 /\ blocks = 0

----------------------------------------------------------------------------
InAssets(n) == <<"assets", n>>
Verbatim(n) == <<IF n \in Absolute THEN "root" ELSE "game", n>>

(* open_asset: where the name is found. *)
Source(n) ==
    IF n \in Absolute /\ Verbatim(n) \in host THEN Verbatim(n)
    ELSE IF InAssets(n) \in host THEN InAssets(n)
    ELSE IF Verbatim(n) \in host THEN Verbatim(n)
    ELSE NULL

Fill(h, stream, memory, length, offset) ==
    /\ open' = open \cup {h}
    /\ f' = [f EXCEPT ![h] = stream] /\ at' = [at EXCEPT ![h] = offset]
    /\ mem' = [mem EXCEPT ![h] = memory]
    /\ size' = [size EXCEPT ![h] = length] /\ pos' = [pos EXCEPT ![h] = 0]

(* The file is read whole into memory and its stream closed. *)
OpenCached(h, s) ==
    /\ 0 < Length[s] /\ Length[s] <= CACHE_MAX
    /\ Fill(h, NULL, s, Length[s], 0)
    /\ blocks' = blocks + 2 /\ UNCHANGED streams

(* Bug: after a short read the stream is left where it stopped. *)
OpenFromCardUnrewound(h, s) ==
    /\ \E offset \in 0..Length[s] :
         /\ Length[s] \notin 1..CACHE_MAX => offset = 0
         /\ Fill(h, s, NULL, Length[s], offset)
    /\ streams' = streams + 1 /\ blocks' = blocks + 1

(* Bug: after a short read the block it was read to is kept. *)
OpenFromCardLeaks(h, s) ==
    /\ Fill(h, s, NULL, Length[s], 0)
    /\ streams' = streams + 1
    /\ blocks' = blocks + (IF Length[s] \in 1..CACHE_MAX THEN 2 ELSE 1)

(* Empty, too large, no memory for it, or the reading came short: the      *)
(* stream is rewound and kept, the block freed.                            *)
OpenFromCard(h, s) ==
    /\ Fill(h, s, NULL, Length[s], 0)
    /\ streams' = streams + 1 /\ blocks' = blocks + 1

(* AAssetManager_open_fake *)
Open(h, n) ==
    /\ h \notin open /\ Source(n) # NULL
    /\ OpenCached(h, Source(n)) \/ OpenFromCard(h, Source(n))
    /\ answer' = <<"open", h>>
    /\ UNCHANGED <<host, directory>>

(* There is no such file, or no memory for the handle. *)
OpenFails ==
    /\ answer' = <<"open", NULL>>
    /\ UNCHANGED <<host, asset, directory, streams, blocks>>

Least(a, b) == IF a < b THEN a ELSE b

(* Bug: what is asked for is copied, whatever is left. *)
ReadMemoryUnclamped(h, count) ==
    /\ mem[h] # NULL
    /\ pos' = [pos EXCEPT ![h] = @ + count] /\ UNCHANGED at
    /\ answer' = <<"read", mem[h], pos[h], count>>

ReadMemory(h, count) ==
    LET n == Least(count, size[h] - pos[h])
    IN  /\ mem[h] # NULL
        /\ pos' = [pos EXCEPT ![h] = @ + n] /\ UNCHANGED at
        /\ answer' = <<"read", mem[h], pos[h], n>>

(* fread: nothing past the end, and less than is there if the card fails.  *)
ReadStream(h, count) ==
    /\ mem[h] = NULL
    /\ \E n \in 0..count :
         /\ at[h] + n <= Length[f[h]] \/ n = 0
         /\ at' = [at EXCEPT ![h] = @ + n] /\ UNCHANGED pos
         /\ answer' = <<"read", f[h], at[h], n>>

(* AAsset_read_fake *)
Read(h, count) ==
    /\ h \in open
    /\ ReadMemory(h, count) \/ ReadStream(h, count)
    /\ UNCHANGED <<host, open, f, mem, size, directory, streams, blocks>>

Base(whence, current, end) ==
    CASE whence = "CUR" -> current [] whence = "END" -> end [] OTHER -> 0

SeekMemory(h, np) ==
    IF np < 0 \/ np > size[h]
    THEN UNCHANGED pos /\ answer' = <<"seek", -1>>
    ELSE pos' = [pos EXCEPT ![h] = np] /\ answer' = <<"seek", np>>

(* fseek and ftell: a stream also goes past its file's end, and the card   *)
(* may refuse.                                                             *)
SeekStream(h, np) ==
    /\ np <= Length[f[h]] + Beyond
    /\ \/ np >= 0 /\ at' = [at EXCEPT ![h] = np] /\ answer' = <<"seek", np>>
       \/ UNCHANGED at /\ answer' = <<"seek", -1>>

(* AAsset_seek_fake *)
Seek(h, off, whence) ==
    /\ h \in open
    /\ \/ mem[h] # NULL /\ SeekMemory(h, Base(whence, pos[h], size[h]) + off)
          /\ UNCHANGED at
       \/ mem[h] = NULL /\ SeekStream(h, Base(whence, at[h], Length[f[h]]) + off)
          /\ UNCHANGED pos
    /\ UNCHANGED <<host, open, f, mem, size, directory, streams, blocks>>

(* AAsset_getLength_fake *)
GetLength(h) ==
    /\ h \in open
    /\ answer' = <<"length", size[h]>>
    /\ UNCHANGED <<host, asset, directory, streams, blocks>>

(* AAsset_close_fake *)
Close(h) ==
    /\ h \in open
    /\ open' = open \ {h}
    /\ f' = [f EXCEPT ![h] = NULL] /\ mem' = [mem EXCEPT ![h] = NULL]
    /\ at' = [at EXCEPT ![h] = 0]
    /\ size' = [size EXCEPT ![h] = 0] /\ pos' = [pos EXCEPT ![h] = 0]
    /\ streams' = streams - (IF f[h] # NULL THEN 1 ELSE 0)
    /\ blocks' = blocks - (IF mem[h] # NULL THEN 2 ELSE 1)
    /\ answer' = <<"close", h>>
    /\ UNCHANGED <<host, directory>>

----------------------------------------------------------------------------
(* AAssetManager_openDir_fake: a missing directory gives an empty handle.  *)
OpenDir(path) ==
    /\ dir = "none"
    /\ IF path \in Missing
       THEN dir' = "missing" /\ todo' = {} /\ UNCHANGED streams
       ELSE dir' = "open" /\ todo' = Entries[path] /\ streams' = streams + 1
    /\ blocks' = blocks + 1
    /\ answer' = <<"dir", path>>
    /\ UNCHANGED <<host, asset>>

IsFile(e) == e[2] = "file"

(* AAssetDir_getNextFileName_fake: the entries readdir gives before the    *)
(* first file are passed over.                                             *)
NextFileName ==
    /\ dir # "none"
    /\ \E passed \in SUBSET {e \in todo : ~IsFile(e)} :
         \/ \E e \in todo :
              /\ IsFile(e)
              /\ todo' = todo \ (passed \cup {e})
              /\ answer' = <<"entry", e[1]>>
         \/ /\ passed = todo
            /\ todo' = {}
            /\ answer' = <<"entry", NULL>>
    /\ UNCHANGED <<host, asset, dir, streams, blocks>>

(* AAssetDir_close_fake *)
CloseDir ==
    /\ dir # "none"
    /\ dir' = "none" /\ todo' = {}
    /\ streams' = streams - (IF dir = "open" THEN 1 ELSE 0)
    /\ blocks' = blocks - 1
    /\ answer' = <<"closed">>
    /\ UNCHANGED <<host, asset>>

AssetNext ==
    \/ \E h \in Handles :
         \/ \E n \in Names : Open(h, n)
         \/ \E count \in Counts : Read(h, count)
         \/ \E off \in Offsets, whence \in {"SET", "CUR", "END"} : Seek(h, off, whence)
         \/ GetLength(h) \/ Close(h)
    \/ OpenFails
    \/ \E path \in Paths : OpenDir(path)
    \/ NextFileName \/ CloseDir

(* Other calls: the engine writes files, but none of the asset tree.       *)
OtherFiles ==
    /\ host' \in SUBSET Sources
    /\ \A n \in Names : InAssets(n) \in host' <=> InAssets(n) \in host
    /\ answer' = <<"none">>
    /\ UNCHANGED <<asset, directory, streams, blocks>>

Next == AssetNext \/ OtherFiles

Spec == Init /\ [][Next]_vars

----------------------------------------------------------------------------
(***************************************************************************)
(* Whichever way an asset is backed, its handle behaves as a file: reads   *)
(* take up where the last one or the last seek left, from the asset of     *)
(* that name and not a file the game wrote under it; nothing is read past  *)
(* the end, wherever a seek left the handle; and the length and positions  *)
(* agree (AAssetManager_open_fake and the AAsset calls).                   *)
(***************************************************************************)
File == INSTANCE AssetFile WITH
    Nothing <- NULL,
    Listing <- [path \in Paths |->
                  IF path \in Missing THEN {}
                  ELSE {n \in Names : <<n, "file">> \in Entries[path]}],
    apk <- {n \in Names \ Absolute : InAssets(n) \in host},
    file <- [h \in Handles |-> IF mem[h] # NULL THEN mem[h] ELSE f[h]],
    pos <- [h \in Handles |-> IF mem[h] # NULL THEN pos[h] ELSE at[h]],
    unsteady <- {h \in open : mem[h] = NULL},
    left <- {n \in Names : <<n, "file">> \in todo}

ImplementsAssetFile == File!Spec

(***************************************************************************)
(* A handle in use has exactly one backing, so that no call finds neither  *)
(* and no close frees the same file twice; the memory it has is of that    *)
(* asset's length and never read past its end; a closed one has none.      *)
(***************************************************************************)
HandlesSound ==
    \A h \in Handles :
        /\ h \in open => (mem[h] = NULL) # (f[h] = NULL)
        /\ h \notin open => mem[h] = NULL /\ f[h] = NULL
        /\ mem[h] # NULL => /\ size[h] = Length[mem[h]] /\ size[h] <= CACHE_MAX
                            /\ pos[h] <= size[h]
        /\ f[h] # NULL => size[h] = Length[f[h]]

Streaming == {h \in open : f[h] # NULL}
Cached == {h \in open : mem[h] # NULL}

(***************************************************************************)
(* Every stream and block taken by a call that failed, by a handle that    *)
(* was closed, or by the caching of an asset has been given back.          *)
(***************************************************************************)
NothingLeaks ==
    /\ streams = Cardinality(Streaming) + (IF dir = "open" THEN 1 ELSE 0)
    /\ blocks = Cardinality(open) + Cardinality(Cached)
                + (IF dir = "none" THEN 0 ELSE 1)

=============================================================================
