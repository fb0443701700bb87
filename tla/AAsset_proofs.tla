--------------------------- MODULE AAsset_proofs ---------------------------
(***************************************************************************)
(* Theorems about AAsset and EngineFiles, for every card and every set of  *)
(* handles: handles are soundly backed, assets behave as files, and the    *)
(* engine's path calls are calls on one folder.                            *)
(***************************************************************************)
EXTENDS EngineFiles, FiniteSetTheorems, TLAPS

(* Read a position off a seek's result: what the code computes is offered  *)
(* by the abstract specification's set of targets.                         *)
LEMMA BaseInPositions ==
    ASSUME AssetAssumption, NEW s \in Sources, NEW i \in 0..(Length[s] + Beyond),
           NEW whence \in {"SET", "CUR", "END"}, NEW off \in Offsets
    PROVE  /\ Base(whence, i, Length[s]) + off \in Targets
           /\ Base(whence, i, Length[s]) + off \in Int
<1>1. Base(whence, i, Length[s]) \in 0..(Length[s] + Beyond)
  BY DEF Base, AssetAssumption
<1>2. Base(whence, i, Length[s]) \in Positions
  BY <1>1 DEF Positions
<1> QED
  BY <1>1, <1>2 DEF Targets, AssetAssumption

(* What open_asset finds is a file of the card. *)
LEMMA SourceOnCard ==
    ASSUME TypeOK, NEW n \in Names, Source(n) # NULL
    PROVE  Source(n) \in Sources
BY DEF Source, TypeOK

----------------------------------------------------------------------------
(* The types, and what HandlesSound says of each call (AAsset_*_fake).     *)
Inv == TypeOK /\ HandlesSound

(* No handle is in use at first. *)
LEMMA InitInv ==
    ASSUME AssetAssumption, Init
    PROVE  Inv
BY DEF Init, Inv, TypeOK, HandlesSound, AssetAssumption

(* An opened handle gets its file in memory or its stream, not both. *)
LEMMA OpenInv ==
    ASSUME AssetAssumption, Inv, NEW h \in Handles, NEW n \in Names, Open(h, n)
    PROVE  Inv'
<1> USE DEF Inv, AssetAssumption
<1> DEFINE s == Source(n)
<1>1. s \in Sources /\ s # NULL /\ Length[s] \in Nat
  BY SourceOnCard DEF Open
<1>2. \/ OpenCached(h, s)
      \/ OpenFromCard(h, s)
  BY DEF Open
<1>3. h \notin open /\ host' = host /\ dir' = dir /\ todo' = todo
  BY DEF Open, directory
<1> HIDE DEF s
<1>4. CASE OpenCached(h, s)
  <2>1. TypeOK'
    BY <1>1, <1>3, <1>4 DEF OpenCached, Fill, TypeOK
  <2>2. HandlesSound'
    BY <1>1, <1>3, <1>4 DEF OpenCached, Fill, TypeOK, HandlesSound
  <2> QED BY <2>1, <2>2
<1>5. CASE OpenFromCard(h, s)
  <2>1. TypeOK'
    BY <1>1, <1>3, <1>5 DEF OpenFromCard, Fill, TypeOK
  <2>2. HandlesSound'
    BY <1>1, <1>3, <1>5 DEF OpenFromCard, Fill, TypeOK, HandlesSound
  <2> QED BY <2>1, <2>2
<1> QED BY <1>2, <1>4, <1>5

(* A read stops at the end of what is in memory. *)
LEMMA ReadInv ==
    ASSUME AssetAssumption, Inv, NEW h \in Handles, NEW count \in Counts,
           Read(h, count)
    PROVE  Inv'
<1> USE DEF Inv, AssetAssumption
<1>1. h \in open /\ count \in Nat
      /\ UNCHANGED <<host, open, f, mem, size, dir, todo, streams, blocks>>
  BY DEF Read, directory
<1>2. CASE ReadMemory(h, count)
  <2> DEFINE n == Least(count, size[h] - pos[h])
  <2>1. n \in Nat /\ n <= size[h] - pos[h]
    BY <1>1, <1>2 DEF Least, TypeOK, HandlesSound, ReadMemory
  <2>2. pos' = [pos EXCEPT ![h] = @ + n] /\ at' = at
    BY <1>2 DEF ReadMemory
  <2> HIDE DEF n
  <2>3. TypeOK'
    BY <1>1, <2>1, <2>2 DEF TypeOK
  <2>4. HandlesSound'
    BY <1>1, <2>1, <2>2 DEF TypeOK, HandlesSound
  <2> QED BY <2>3, <2>4
<1>3. CASE ReadStream(h, count)
  <2>1. TypeOK'
    BY <1>1, <1>3 DEF ReadStream, TypeOK
  <2>2. HandlesSound'
    BY <1>1, <1>3 DEF ReadStream, TypeOK, HandlesSound
  <2> QED BY <2>1, <2>2
<1> QED BY <1>2, <1>3 DEF Read

(* A seek in memory stays within the file. *)
LEMMA SeekInv ==
    ASSUME AssetAssumption, Inv, NEW h \in Handles, NEW off \in Offsets,
           NEW whence \in {"SET", "CUR", "END"}, Seek(h, off, whence)
    PROVE  Inv'
<1> USE DEF Inv, AssetAssumption
<1>1. h \in open /\ off \in Int
      /\ UNCHANGED <<host, open, f, mem, size, dir, todo, streams, blocks>>
  BY DEF Seek, directory
<1>2. CASE mem[h] # NULL
  <2> DEFINE np == Base(whence, pos[h], size[h]) + off
  <2>1. np \in Int
    BY <1>1 DEF Base, TypeOK
  <2>2. SeekMemory(h, np) /\ at' = at
    BY <1>2 DEF Seek
  <2> HIDE DEF np
  <2>3. TypeOK'
    BY <1>1, <2>1, <2>2 DEF SeekMemory, TypeOK
  <2>4. HandlesSound'
    BY <1>1, <2>1, <2>2 DEF SeekMemory, TypeOK, HandlesSound
  <2> QED BY <2>3, <2>4
<1>3. CASE mem[h] = NULL
  <2> DEFINE np == Base(whence, at[h], Length[f[h]]) + off
  <2>0. f[h] \in Sources
    BY <1>1, <1>3 DEF HandlesSound, TypeOK
  <2>1. np \in Int
    BY <1>1, <2>0 DEF Base, TypeOK
  <2>2. SeekStream(h, np) /\ pos' = pos
    BY <1>3 DEF Seek
  <2> HIDE DEF np
  <2>3. TypeOK'
    BY <1>1, <2>1, <2>2 DEF SeekStream, TypeOK
  <2>4. HandlesSound'
    BY <1>1, <2>1, <2>2 DEF SeekStream, TypeOK, HandlesSound
  <2> QED BY <2>3, <2>4
<1> QED BY <1>2, <1>3

(* A closed handle has neither. *)
LEMMA CloseInv ==
    ASSUME AssetAssumption, Inv, NEW h \in Handles, Close(h)
    PROVE  Inv'
<1> USE DEF Inv, AssetAssumption, Close, directory
<1>1. TypeOK'
  BY DEF TypeOK
<1>2. HandlesSound'
  BY DEF TypeOK, HandlesSound
<1> QED BY <1>1, <1>2

(* The remaining calls leave the handles alone. *)
LEMMA OthersInv ==
    ASSUME AssetAssumption, Inv,
           \/ \E h \in Handles : GetLength(h)
           \/ OpenFails \/ NextFileName \/ CloseDir \/ OtherFiles
           \/ \E path \in Paths : OpenDir(path)
           \/ UNCHANGED vars
    PROVE  Inv'
<1> USE DEF Inv, AssetAssumption, asset, directory
<1>1. UNCHANGED <<open, f, at, mem, size, pos>>
  BY DEF GetLength, OpenFails, NextFileName, CloseDir, OtherFiles, OpenDir, vars
<1>2. HandlesSound'
  BY <1>1 DEF HandlesSound
<1>3. TypeOK'
  <2>1. CASE \E path \in Paths : OpenDir(path)
    BY <1>1, <2>1 DEF TypeOK, OpenDir
  <2>2. CASE NextFileName
    BY <1>1, <2>2 DEF TypeOK, NextFileName
  <2>3. CASE CloseDir
    BY <1>1, <2>3 DEF TypeOK, CloseDir
  <2>4. CASE OtherFiles
    BY <1>1, <2>4 DEF TypeOK, OtherFiles
  <2> QED
    BY <1>1, <2>1, <2>2, <2>3, <2>4 DEF TypeOK, GetLength, OpenFails, vars
<1> QED BY <1>2, <1>3

(* The types are right and the handles sound after every call. *)
LEMMA NextInv ==
    ASSUME AssetAssumption, Inv, [Next]_vars
    PROVE  Inv'
<1> QED
  BY OpenInv, ReadInv, SeekInv, CloseInv, OthersInv DEF Next, AssetNext

(* The types and the soundness of handles hold throughout. *)
LEMMA SpecInv == Spec => []Inv
<1>1. Init => Inv
  BY InitInv, AssetAssumption
<1>2. Inv /\ [Next]_vars => Inv'
  BY NextInv, AssetAssumption
<1> QED
  BY <1>1, <1>2, PTL DEF Spec

(***************************************************************************)
(* Every handle has one backing, of its asset's length, and is never read  *)
(* past it, whatever the sequence of calls (AAsset_*_fake).                *)
(***************************************************************************)
THEOREM HandlesAreSound == Spec => []HandlesSound
<1>1. Inv => HandlesSound
  BY DEF Inv
<1> QED
  BY <1>1, SpecInv, PTL

----------------------------------------------------------------------------
(* Streams and blocks are counted by the handles that own them. *)
LEMMA CountAdd ==
    ASSUME NEW S, IsFiniteSet(S), NEW x, x \notin S
    PROVE  Cardinality(S \cup {x}) = Cardinality(S) + 1
BY FS_AddElement

(* The same of a handle that is given back. *)
LEMMA CountRemove ==
    ASSUME NEW S, IsFiniteSet(S), NEW x \in S
    PROVE  Cardinality(S \ {x}) = Cardinality(S) - 1
BY FS_RemoveElement

(* There are finitely many handles to count. *)
LEMMA OwnersFinite ==
    ASSUME AssetAssumption, Inv
    PROVE  /\ IsFiniteSet(open) /\ IsFiniteSet(Streaming) /\ IsFiniteSet(Cached)
           /\ Cardinality(open) \in Nat /\ Cardinality(Streaming) \in Nat
           /\ Cardinality(Cached) \in Nat
<1>1. open \subseteq Handles /\ Streaming \subseteq Handles /\ Cached \subseteq Handles
  BY DEF Inv, TypeOK, Streaming, Cached
<1> QED
  BY <1>1, FS_Subset, FS_CardinalityType DEF AssetAssumption

(* What an open takes belongs to the handle it returns. *)
LEMMA OpenLeaks ==
    ASSUME AssetAssumption, Inv, NothingLeaks,
           NEW h \in Handles, NEW n \in Names, Open(h, n)
    PROVE  NothingLeaks'
<1> DEFINE s == Source(n)
<1>0. s \in Sources /\ s # NULL
  BY SourceOnCard DEF Open, Inv, AssetAssumption
<1>1. h \notin open /\ open' = open \cup {h} /\ dir' = dir
  BY DEF Open, OpenCached, OpenFromCard, Fill, directory
<1>2. OpenCached(h, s) \/ OpenFromCard(h, s)
  BY DEF Open
<1> HIDE DEF s
<1>3. Cardinality(open') = Cardinality(open) + 1
  BY <1>1, OwnersFinite, CountAdd
<1>4. CASE OpenCached(h, s)
  <2>1. Streaming' = Streaming /\ Cached' = Cached \cup {h} /\ h \notin Cached
    BY <1>0, <1>1, <1>4 DEF OpenCached, Fill, Inv, TypeOK, Streaming, Cached
  <2>2. Cardinality(Cached') = Cardinality(Cached) + 1
    BY <2>1, OwnersFinite, CountAdd
  <2>3. streams' = streams /\ blocks' = blocks + 2
    BY <1>4 DEF OpenCached
  <2> QED
    BY <1>1, <1>3, <2>1, <2>2, <2>3, OwnersFinite DEF NothingLeaks
<1>5. CASE OpenFromCard(h, s)
  <2>1. Cached' = Cached /\ Streaming' = Streaming \cup {h} /\ h \notin Streaming
    BY <1>0, <1>1, <1>5 DEF OpenFromCard, Fill, Inv, TypeOK, Streaming, Cached
  <2>2. Cardinality(Streaming') = Cardinality(Streaming) + 1
    BY <2>1, OwnersFinite, CountAdd
  <2>3. streams' = streams + 1 /\ blocks' = blocks + 1
    BY <1>5 DEF OpenFromCard
  <2> QED
    BY <1>1, <1>3, <2>1, <2>2, <2>3, OwnersFinite DEF NothingLeaks
<1> QED BY <1>2, <1>4, <1>5

(* A close gives back what its handle owned. *)
LEMMA CloseLeaks ==
    ASSUME AssetAssumption, Inv, NothingLeaks, NEW h \in Handles, Close(h)
    PROVE  NothingLeaks'
<1>1. h \in open /\ open' = open \ {h} /\ dir' = dir
  BY DEF Close, directory
<1>2. Cardinality(open') = Cardinality(open) - 1
  BY <1>1, OwnersFinite, CountRemove
<1>3. Streaming' = Streaming \ {h} /\ Cached' = Cached \ {h}
  BY <1>1 DEF Close, Inv, TypeOK, Streaming, Cached
<1>4. CASE mem[h] # NULL
  <2>1. f[h] = NULL /\ h \in Cached /\ h \notin Streaming
    BY <1>1, <1>4 DEF Inv, HandlesSound, Cached, Streaming
  <2>2. Cardinality(Cached') = Cardinality(Cached) - 1 /\ Streaming' = Streaming
    BY <1>3, <2>1, OwnersFinite, CountRemove
  <2>3. streams' = streams /\ blocks' = blocks - 2
    BY <1>4, <2>1 DEF Close, Inv, TypeOK
  <2> QED
    BY <1>1, <1>2, <2>2, <2>3, OwnersFinite DEF NothingLeaks
<1>5. CASE mem[h] = NULL
  <2>1. f[h] # NULL /\ h \in Streaming /\ h \notin Cached
    BY <1>1, <1>5 DEF Inv, HandlesSound, Cached, Streaming
  <2>2. Cardinality(Streaming') = Cardinality(Streaming) - 1 /\ Cached' = Cached
    BY <1>3, <2>1, OwnersFinite, CountRemove
  <2>3. streams' = streams - 1 /\ blocks' = blocks - 1
    BY <1>5, <2>1 DEF Close
  <2> QED
    BY <1>1, <1>2, <2>2, <2>3, OwnersFinite DEF NothingLeaks
<1> QED BY <1>4, <1>5

(* Calls on an open handle own what they owned before. *)
LEMMA OthersLeak ==
    ASSUME AssetAssumption, Inv, NothingLeaks,
           \/ \E h \in Handles :
                \/ \E count \in Counts : Read(h, count)
                \/ \E off \in Offsets, whence \in {"SET", "CUR", "END"} :
                     Seek(h, off, whence)
                \/ GetLength(h)
           \/ OpenFails \/ NextFileName \/ CloseDir \/ OtherFiles
           \/ \E path \in Paths : OpenDir(path)
           \/ UNCHANGED vars
    PROVE  NothingLeaks'
<1>1. Streaming' = Streaming /\ Cached' = Cached /\ open' = open
  BY DEF Read, Seek, GetLength, OpenFails, NextFileName, CloseDir, OtherFiles,
         OpenDir, vars, asset, Streaming, Cached
<1>2. CASE UNCHANGED <<dir, streams, blocks>>
  BY <1>1, <1>2 DEF NothingLeaks
<1>3. CASE \E path \in Paths : OpenDir(path)
  BY <1>1, <1>3, OwnersFinite DEF NothingLeaks, OpenDir
<1>4. CASE CloseDir
  BY <1>1, <1>4, OwnersFinite DEF NothingLeaks, CloseDir, Inv, TypeOK
<1> QED
  BY <1>2, <1>3, <1>4 DEF Read, Seek, GetLength, OpenFails, NextFileName, OtherFiles,
         vars, directory

(***************************************************************************)
(* No sequence of calls keeps a stream or a block that its handle no       *)
(* longer has, caching and failures included.                              *)
(***************************************************************************)
THEOREM NoLeak == Spec => []NothingLeaks
<1>1. Init => NothingLeaks
  <2> SUFFICES ASSUME Init PROVE NothingLeaks
    OBVIOUS
  <2>1. open = {} /\ Streaming = {} /\ Cached = {}
    BY DEF Init, Streaming, Cached
  <2> QED
    BY <2>1, FS_EmptySet DEF Init, NothingLeaks
<1>2. Inv /\ NothingLeaks /\ [Next]_vars => NothingLeaks'
  BY OpenLeaks, CloseLeaks, OthersLeak, AssetAssumption DEF Next, AssetNext
<1> QED
  BY <1>1, <1>2, SpecInv, PTL DEF Spec

----------------------------------------------------------------------------
(***************************************************************************)
(* Refinement.  The engine sees files, whichever way each asset is backed; *)
(* a stream stands behind its file no further than it was sought.          *)
(***************************************************************************)
AtInFile == \A h \in Handles : f[h] # NULL => at[h] <= Length[f[h]] + Beyond

(* The file a handle reads and where it stands, as the engine sees them. *)
TheFile(h) == IF mem[h] # NULL THEN mem[h] ELSE f[h]
ThePos(h) == IF mem[h] # NULL THEN pos[h] ELSE at[h]

(* A handle in use is a position in one file, by either backing. *)
LEMMA HandleView ==
    ASSUME AssetAssumption, Inv, AtInFile, NEW h \in open
    PROVE  /\ h \in Handles /\ TheFile(h) \in Sources /\ TheFile(h) # NULL
           /\ ThePos(h) \in 0..(Length[TheFile(h)] + Beyond)
           /\ mem[h] # NULL => ThePos(h) <= Length[TheFile(h)]
           /\ Length[TheFile(h)] \in Nat /\ size[h] = Length[TheFile(h)]
           /\ mem[h] # NULL => f[h] = NULL
<1> USE DEF Inv, TypeOK, HandlesSound, AtInFile, AssetAssumption, TheFile, ThePos
<1>1. CASE mem[h] # NULL
  BY <1>1
<1>2. CASE mem[h] = NULL
  BY <1>2
<1> QED BY <1>1, <1>2

(* No call moves a stream further than the bound on seeks. *)
LEMMA AtNext ==
    ASSUME AssetAssumption, Inv, AtInFile, [Next]_vars
    PROVE  AtInFile'
<1> USE DEF Inv, AssetAssumption
<1>1. ASSUME NEW h \in Handles, NEW n \in Names, Open(h, n) PROVE AtInFile'
  <2> DEFINE s == Source(n)
  <2>1. s \in Sources /\ Length[s] \in Nat /\ (OpenCached(h, s) \/ OpenFromCard(h, s))
    BY <1>1, SourceOnCard DEF Open
  <2> HIDE DEF s
  <2> QED
    BY <2>1 DEF OpenCached, OpenFromCard, Fill, TypeOK, AtInFile
<1>2. ASSUME NEW h \in Handles, NEW count \in Counts, Read(h, count) PROVE AtInFile'
  BY <1>2 DEF Read, ReadMemory, ReadStream, TypeOK, HandlesSound, AtInFile
<1>3. ASSUME NEW h \in Handles, NEW off \in Offsets,
             NEW whence \in {"SET", "CUR", "END"}, Seek(h, off, whence)
      PROVE AtInFile'
  <2>1. f' = f
    BY <1>3 DEF Seek
  <2>2. CASE at' = at
    BY <2>1, <2>2 DEF AtInFile
  <2>3. CASE at' # at
    <3> DEFINE np == Base(whence, at[h], Length[f[h]]) + off
    <3>1. SeekStream(h, np)
      BY <1>3, <2>3 DEF Seek
    <3> HIDE DEF np
    <3>2. at' = [at EXCEPT ![h] = np] /\ np <= Length[f[h]] + Beyond
      BY <2>3, <3>1 DEF SeekStream
    <3> QED
      BY <2>1, <3>2 DEF AtInFile, TypeOK
  <2> QED BY <2>2, <2>3
<1>4. ASSUME NEW h \in Handles, Close(h) PROVE AtInFile'
  BY <1>4 DEF Close, AtInFile, TypeOK
<1>5. ASSUME UNCHANGED <<f, at>> PROVE AtInFile'
  BY <1>5 DEF AtInFile
<1>6. CASE \E h \in Handles : GetLength(h)
  BY <1>5, <1>6 DEF GetLength, asset
<1> QED
  BY <1>1, <1>2, <1>3, <1>4, <1>5, <1>6
  DEF Next, AssetNext, OpenFails, OpenDir, NextFileName, CloseDir, OtherFiles,
      vars, asset

(* No handle is in use in either specification at first. *)
LEMMA InitFile ==
    ASSUME AssetAssumption, Init
    PROVE  File!Init
BY DEF Init, File!Init, AssetAssumption

(* Either way of opening is an open of the file found. *)
LEMMA OpenFile ==
    ASSUME AssetAssumption, Inv, AtInFile, NEW h \in Handles, NEW n \in Names,
           Open(h, n)
    PROVE  File!Open(h, n)
<1> USE DEF Inv, AssetAssumption
<1> DEFINE s == Source(n)
<1>1. /\ s \in Sources /\ s # NULL /\ h \notin open
      /\ mem[h] = NULL /\ f[h] = NULL
  <2>1. s # NULL /\ h \notin open
    BY DEF Open
  <2>2. mem[h] = NULL /\ f[h] = NULL
    BY <2>1 DEF HandlesSound
  <2> QED
    BY <2>1, <2>2, SourceOnCard
<1>7. n \in Names \ Absolute /\ InAssets(n) \in host => s = <<"assets", n>>
  BY DEF Source, InAssets
<1>2. /\ host' = host /\ todo' = todo /\ answer' = <<"open", h>>
      /\ OpenCached(h, s) \/ OpenFromCard(h, s)
  BY DEF Open, directory
<1> HIDE DEF s
<1>3. /\ open' = open \cup {h}
      /\ \/ mem' = [mem EXCEPT ![h] = s] /\ f' = [f EXCEPT ![h] = NULL]
         \/ mem' = [mem EXCEPT ![h] = NULL] /\ f' = [f EXCEPT ![h] = s]
      /\ at' = [at EXCEPT ![h] = 0] /\ pos' = [pos EXCEPT ![h] = 0]
  BY <1>2 DEF OpenCached, OpenFromCard, Fill
<1>4. [k \in Handles |-> IF mem[k] # NULL THEN mem[k] ELSE f[k]]'
      = [[k \in Handles |-> IF mem[k] # NULL THEN mem[k] ELSE f[k]] EXCEPT ![h] = s]
  BY <1>1, <1>3 DEF TypeOK
<1>5. [k \in Handles |-> IF mem[k] # NULL THEN pos[k] ELSE at[k]]'
      = [[k \in Handles |-> IF mem[k] # NULL THEN pos[k] ELSE at[k]] EXCEPT ![h] = 0]
  BY <1>1, <1>3 DEF TypeOK
<1>6. {k \in open : mem[k] = NULL}' \in
        {{k \in open : mem[k] = NULL}, {k \in open : mem[k] = NULL} \cup {h}}
  BY <1>1, <1>3 DEF TypeOK
<1> QED
  BY <1>1, <1>7, <1>2, <1>4, <1>5, <1>6 DEF File!Open, File!IsOpen

(* Either way of reading returns the bytes at the position. *)
LEMMA ReadFile ==
    ASSUME AssetAssumption, Inv, AtInFile, NEW h \in Handles, NEW count \in Counts,
           Read(h, count)
    PROVE  File!Read(h, count)
<1> USE DEF Inv, AssetAssumption
<1>1. /\ h \in open /\ count \in Nat
      /\ UNCHANGED <<host, open, f, mem, size, todo>>
  BY DEF Read, directory
<1> DEFINE view == [k \in Handles |-> IF mem[k] # NULL THEN pos[k] ELSE at[k]]
<1> DEFINE fits(n) ==
      /\ n = 0 \/ ThePos(h) + n <= Length[TheFile(h)]
      /\ mem[h] = NULL \/ n = count \/ ThePos(h) + n = Length[TheFile(h)]
<1>2. \E n \in 0..count :
        /\ fits(n) /\ view' = [view EXCEPT ![h] = @ + n]
        /\ answer' = <<"read", TheFile(h), ThePos(h), n>>
  <2>1. CASE ReadMemory(h, count)
    <3> DEFINE n == Least(count, size[h] - pos[h])
    <3>1. n \in 0..count /\ n <= size[h] - pos[h] /\ (n = count \/ n = size[h] - pos[h])
      BY <1>1, <2>1 DEF Least, TypeOK, HandlesSound, ReadMemory
    <3>2. /\ mem[h] # NULL /\ pos' = [pos EXCEPT ![h] = @ + n] /\ at' = at
          /\ answer' = <<"read", mem[h], pos[h], n>>
      BY <2>1 DEF ReadMemory
    <3> HIDE DEF n
    <3>3. view' = [view EXCEPT ![h] = @ + n]
      BY <1>1, <3>1, <3>2 DEF TypeOK
    <3>4. TheFile(h) = mem[h] /\ ThePos(h) = pos[h] /\ Length[mem[h]] = size[h]
      BY <1>1, <3>2, HandleView DEF TheFile, ThePos
    <3>5. pos[h] \in Nat /\ size[h] \in Nat
      BY DEF TypeOK
    <3>6. fits(n)
      BY <1>1, <3>1, <3>4, <3>5
    <3>7. answer' = <<"read", TheFile(h), ThePos(h), n>>
      BY <3>2, <3>4
    <3>8. n \in 0..count
      BY <3>1
    <3> HIDE DEF view, fits
    <3> QED
      BY <3>3, <3>6, <3>7, <3>8
  <2>2. CASE ReadStream(h, count)
    <3>1. PICK n \in 0..count :
            /\ at[h] + n <= Length[f[h]] \/ n = 0
            /\ mem[h] = NULL /\ at' = [at EXCEPT ![h] = @ + n] /\ pos' = pos
            /\ answer' = <<"read", f[h], at[h], n>>
      BY <2>2 DEF ReadStream
    <3>2. view' = [view EXCEPT ![h] = @ + n]
      BY <1>1, <3>1 DEF TypeOK
    <3>3. TheFile(h) = f[h] /\ ThePos(h) = at[h]
      BY <1>1, <3>1, HandleView DEF TheFile, ThePos
    <3>4. at[h] \in Nat
      BY DEF TypeOK
    <3>5. fits(n)
      BY <1>1, <3>1, <3>3, <3>4
    <3>6. answer' = <<"read", TheFile(h), ThePos(h), n>>
      BY <3>1, <3>3
    <3> HIDE DEF view, fits
    <3> QED
      BY <3>2, <3>5, <3>6
  <2> QED BY <2>1, <2>2 DEF Read
<1>3. TheFile(h) # NULL /\ h \in Handles
  BY <1>1, HandleView
<1> QED
  BY <1>1, <1>2, <1>3 DEF File!Read, File!IsOpen, TheFile, ThePos

(* Either way of seeking moves the position, or refuses to. *)
LEMMA SeekFile ==
    ASSUME AssetAssumption, Inv, AtInFile, NEW h \in Handles,
           NEW off \in Offsets, NEW whence \in {"SET", "CUR", "END"},
           Seek(h, off, whence)
    PROVE  \E to \in Targets : File!Seek(h, to)
<1> USE DEF Inv, AssetAssumption
<1>1. /\ h \in open
      /\ UNCHANGED <<host, open, f, mem, size, todo>>
  BY DEF Seek, directory
<1> DEFINE to == Base(whence, ThePos(h), Length[TheFile(h)]) + off
<1>2. to \in Targets /\ to \in Int
  BY <1>1, HandleView, BaseInPositions
<1>3. CASE mem[h] # NULL
  <2>1. TheFile(h) = mem[h] /\ ThePos(h) = pos[h] /\ size[h] = Length[mem[h]]
    BY <1>1, <1>3, HandleView DEF TheFile, ThePos
  <2>2. SeekMemory(h, to) /\ at' = at
    BY <1>3, <2>1 DEF Seek
  <2> HIDE DEF to
  <2>3. IF to \in 0..Length[TheFile(h)]
        THEN pos' = [pos EXCEPT ![h] = to] /\ answer' = <<"seek", to>>
        ELSE pos' = pos /\ answer' = <<"seek", -1>>
    BY <1>2, <2>1, <2>2 DEF SeekMemory, TypeOK
  <2>4. CASE to \in 0..Length[TheFile(h)]
    <3>1. [k \in Handles |-> IF mem[k] # NULL THEN pos[k] ELSE at[k]]'
          = [[k \in Handles |-> IF mem[k] # NULL THEN pos[k] ELSE at[k]]
               EXCEPT ![h] = to]
      BY <1>1, <1>3, <2>2, <2>3, <2>4 DEF TypeOK
    <3>2. to >= 0 /\ to <= Length[TheFile(h)] /\ answer' = <<"seek", to>>
      BY <1>2, <2>1, <2>3, <2>4, HandleView
    <3> QED
      BY <1>1, <1>2, <1>3, <3>1, <3>2, HandleView
      DEF File!Seek, File!IsOpen, TheFile
  <2>5. CASE to \notin 0..Length[TheFile(h)]
    BY <1>1, <1>2, <1>3, <2>1, <2>2, <2>3, <2>5 DEF File!Seek, File!IsOpen, TheFile
  <2> QED BY <2>4, <2>5
<1>4. CASE mem[h] = NULL
  <2>1. TheFile(h) = f[h] /\ ThePos(h) = at[h] /\ f[h] # NULL /\ Length[f[h]] \in Nat
    BY <1>1, <1>4, HandleView DEF TheFile, ThePos
  <2>2. SeekStream(h, to) /\ pos' = pos
    BY <1>4, <2>1 DEF Seek
  <2> HIDE DEF to
  <2>3. \/ to >= 0 /\ at' = [at EXCEPT ![h] = to] /\ answer' = <<"seek", to>>
        \/ at' = at /\ answer' = <<"seek", -1>>
    BY <2>2 DEF SeekStream
  <2>6. h \in {k \in open : mem[k] = NULL}
    BY <1>1, <1>4
  <2>4. CASE to >= 0 /\ at' = [at EXCEPT ![h] = to] /\ answer' = <<"seek", to>>
    <3>1. [k \in Handles |-> IF mem[k] # NULL THEN pos[k] ELSE at[k]]'
          = [[k \in Handles |-> IF mem[k] # NULL THEN pos[k] ELSE at[k]]
               EXCEPT ![h] = to]
      BY <1>1, <1>4, <2>2, <2>3, <2>4 DEF TypeOK
    <3> QED
      BY <1>1, <1>2, <1>4, <2>1, <2>2, <2>4, <2>6, <3>1
      DEF File!Seek, File!IsOpen, TheFile
  <2>5. CASE at' = at /\ answer' = <<"seek", -1>>
    BY <1>1, <1>2, <1>4, <2>1, <2>2, <2>5, <2>6 DEF File!Seek, File!IsOpen, TheFile
  <2> QED BY <2>3, <2>4, <2>5
<1> QED BY <1>3, <1>4

(* Closing either backing closes the file. *)
LEMMA CloseFile ==
    ASSUME AssetAssumption, Inv, AtInFile, NEW h \in Handles, Close(h)
    PROVE  File!Close(h)
<1> USE DEF Inv
<1>1. /\ h \in open /\ open' = open \ {h} /\ host' = host /\ todo' = todo
      /\ mem' = [mem EXCEPT ![h] = NULL] /\ f' = [f EXCEPT ![h] = NULL]
      /\ at' = [at EXCEPT ![h] = 0] /\ pos' = [pos EXCEPT ![h] = 0]
      /\ answer' = <<"close", h>>
  BY DEF Close, directory
<1>2. TheFile(h) # NULL
  BY <1>1, HandleView
<1>3. [k \in Handles |-> IF mem[k] # NULL THEN mem[k] ELSE f[k]]'
      = [[k \in Handles |-> IF mem[k] # NULL THEN mem[k] ELSE f[k]] EXCEPT ![h] = NULL]
  BY <1>1 DEF TypeOK
<1>4. [k \in Handles |-> IF mem[k] # NULL THEN pos[k] ELSE at[k]]'
      = [[k \in Handles |-> IF mem[k] # NULL THEN pos[k] ELSE at[k]] EXCEPT ![h] = 0]
  BY <1>1 DEF TypeOK
<1>5. {k \in open : mem[k] = NULL}' = {k \in open : mem[k] = NULL} \ {h}
  BY <1>1 DEF TypeOK
<1> QED
  BY <1>1, <1>2, <1>3, <1>4, <1>5 DEF File!Close, File!IsOpen, TheFile

(* The files a directory handle has yet to name. *)
Left == {n \in Names : <<n, "file">> \in todo}

(* readdir's other entries are passed over without an answer. *)
LEMMA NextFileNameFile ==
    ASSUME AssetAssumption, Inv, NextFileName
    PROVE  File!NextFileName
<1>1. PICK passed \in SUBSET {e \in todo : ~IsFile(e)} :
        \/ \E e \in todo : /\ IsFile(e)
                           /\ todo' = todo \ (passed \cup {e})
                           /\ answer' = <<"entry", e[1]>>
        \/ passed = todo /\ todo' = {} /\ answer' = <<"entry", NULL>>
  BY DEF NextFileName
<1>2. UNCHANGED <<host, open, f, mem, at, pos>>
  BY DEF NextFileName, asset
<1>3. CASE passed = todo /\ todo' = {} /\ answer' = <<"entry", NULL>>
  <2>1. Left = {} /\ Left' = {}
    BY <1>3 DEF Left, IsFile
  <2> QED
    BY <1>2, <1>3, <2>1 DEF File!NextFileName, File!handles, Left
<1>4. ASSUME NEW e \in todo, IsFile(e), todo' = todo \ (passed \cup {e}),
             answer' = <<"entry", e[1]>>
      PROVE  File!NextFileName
  <2>1. e = <<e[1], "file">> /\ e[1] \in Names
    BY <1>4 DEF IsFile, Inv, TypeOK
  <2>2. Left' = Left \ {e[1]} /\ e[1] \in Left
    BY <1>4, <2>1 DEF Left, IsFile
  <2> QED
    BY <1>2, <1>4, <2>2 DEF File!NextFileName, File!handles, Left
<1> QED BY <1>1, <1>3, <1>4

(* Opening and closing a directory starts and ends its listing. *)
LEMMA DirectoryFile ==
    ASSUME AssetAssumption, Inv, (\E path \in Paths : OpenDir(path)) \/ CloseDir
    PROVE  (\E path \in Paths : File!OpenDir(path)) \/ File!CloseDir
<1>1. UNCHANGED <<host, open, f, mem, at, pos>>
  BY DEF OpenDir, CloseDir, asset
<1>2. CASE CloseDir
  BY <1>1, <1>2 DEF CloseDir, File!CloseDir, File!handles
<1>3. ASSUME NEW path \in Paths, OpenDir(path)
      PROVE  File!OpenDir(path)
  <2>1. Left' = IF path \in Missing THEN {}
                ELSE {n \in Names : <<n, "file">> \in Entries[path]}
    BY <1>3 DEF OpenDir, Left
  <2> QED
    BY <1>1, <1>3, <2>1 DEF OpenDir, File!OpenDir, File!handles, Left
<1> QED BY <1>2, <1>3

(* Lengths, failed opens and other calls leave positions alone. *)
LEMMA RestFile ==
    ASSUME AssetAssumption, Inv, AtInFile,
           (\E h \in Handles : GetLength(h)) \/ OpenFails \/ OtherFiles
    PROVE  (\E h \in Handles : File!GetLength(h)) \/ File!OpenFails \/ File!OtherCall
<1>1. UNCHANGED <<open, f, mem, at, pos, todo>>
  BY DEF GetLength, OpenFails, OtherFiles, asset, directory
<1>2. ASSUME NEW h \in Handles, GetLength(h)
      PROVE  File!GetLength(h)
  <2>1. h \in open /\ answer' = <<"length", size[h]>> /\ host' = host
    BY <1>2 DEF GetLength
  <2>2. TheFile(h) # NULL /\ size[h] = Length[TheFile(h)]
    BY <2>1, HandleView
  <2> QED
    BY <1>1, <2>1, <2>2 DEF File!GetLength, File!IsOpen, File!handles, TheFile
<1>3. CASE OpenFails
  BY <1>1, <1>3 DEF OpenFails, File!OpenFails, File!handles
<1>4. CASE OtherFiles
  <2>1. {n \in Names \ Absolute : InAssets(n) \in host}'
        = {n \in Names \ Absolute : InAssets(n) \in host}
    BY <1>4 DEF OtherFiles
  <2> QED
    BY <1>1, <1>4, <2>1 DEF OtherFiles, File!OtherCall, File!handles
<1> QED BY <1>2, <1>3, <1>4

(***************************************************************************)
(* Assets are files: AAsset implements AssetFile, for any files, limit of  *)
(* the cache, reads and seeks, past the end included.                      *)
(***************************************************************************)
THEOREM AssetsAreFiles == Spec => ImplementsAssetFile
<1>1. Init => AtInFile /\ File!Init
  BY InitFile, AssetAssumption DEF Init, AtInFile
<1>2. Inv /\ AtInFile /\ [Next]_vars => AtInFile'
  BY AtNext, AssetAssumption
<1>3. Inv /\ AtInFile /\ [Next]_vars => [File!Next]_(File!vars)
  <2> SUFFICES ASSUME Inv, AtInFile, [Next]_vars
               PROVE  [File!Next]_(File!vars)
    OBVIOUS
  <2>1. CASE UNCHANGED vars
    BY <2>1 DEF vars, asset, directory, File!vars, File!handles
  <2>2. ASSUME NEW h \in Handles, NEW n \in Names, Open(h, n) PROVE File!Next
    BY <2>2, OpenFile, AssetAssumption DEF File!Next
  <2>3. ASSUME NEW h \in Handles, NEW count \in Counts, Read(h, count) PROVE File!Next
    BY <2>3, ReadFile, AssetAssumption DEF File!Next
  <2>4. ASSUME NEW h \in Handles, NEW off \in Offsets,
               NEW whence \in {"SET", "CUR", "END"}, Seek(h, off, whence)
        PROVE  File!Next
    BY <2>4, SeekFile, AssetAssumption DEF File!Next
  <2>5. ASSUME NEW h \in Handles, Close(h) PROVE File!Next
    BY <2>5, CloseFile, AssetAssumption DEF File!Next
  <2>6. ASSUME NextFileName PROVE File!Next
    BY <2>6, NextFileNameFile, AssetAssumption DEF File!Next
  <2>7. ASSUME (\E path \in Paths : OpenDir(path)) \/ CloseDir PROVE File!Next
    BY <2>7, DirectoryFile, AssetAssumption DEF File!Next
  <2>8. ASSUME (\E h \in Handles : GetLength(h)) \/ OpenFails \/ OtherFiles
        PROVE  File!Next
    BY <2>8, RestFile, AssetAssumption DEF File!Next
  <2> QED
    BY <2>1, <2>2, <2>3, <2>4, <2>5, <2>6, <2>7, <2>8 DEF Next, AssetNext
<1> QED
  BY <1>1, <1>2, <1>3, SpecInv, PTL DEF Spec, ImplementsAssetFile, File!Spec

----------------------------------------------------------------------------
(***************************************************************************)
(* The engine's path calls (EngineFiles).                                  *)
(***************************************************************************)
LEMMA PathFacts ==
    ASSUME FilesAssumption, NEW p \in EnginePaths
    PROVE  /\ p = <<p[1], p[2]>> /\ p[1] \in Roots /\ p[2] \in Written
           /\ Redirect(p) = <<Redirect(p)[1], p[2]>>
           /\ Redirect(p)[1] = IF Private(p) THEN "game" ELSE "files2"
           /\ Redirect(p)[2] = p[2]
           /\ {Redirect(p)} \cup Parent(Redirect(p)) \subseteq Sources
BY DEF FilesAssumption, Redirect, Private, Roots

(* What a path call does to the card, seen from its folder. *)
Held == {n \in Written : <<"game", n>> \in host}
Others == host \ ({"game"} \X Written)

(* A call that adds or removes the file a path names changes that file     *)
(* only: in the folder if the path is private, elsewhere if not.           *)
LEMMA AddFile ==
    ASSUME FilesAssumption, NEW p \in EnginePaths, host' = host \cup {Redirect(p)}
    PROVE  /\ Private(p) => Held' = Held \cup {p[2]} /\ Others' = Others
           /\ ~Private(p) => Held' = Held
BY PathFacts DEF Held, Others

(* Taking a file away changes that one. *)
LEMMA RemoveFile ==
    ASSUME FilesAssumption, NEW p \in EnginePaths, host' = host \ {Redirect(p)}
    PROVE  /\ Private(p) => Held' = Held \ {p[2]} /\ Others' = Others
           /\ ~Private(p) => Held' = Held
BY PathFacts DEF Held, Others

(* A rename within the folder changes two names of it. *)
LEMMA RenameFile ==
    ASSUME FilesAssumption, NEW p \in EnginePaths, NEW q \in EnginePaths,
           Private(p) = Private(q),
           host' = (host \ {Redirect(p)}) \cup {Redirect(q)}
    PROVE  /\ Private(p) => Held' = (Held \ {p[2]}) \cup {q[2]} /\ Others' = Others
           /\ ~Private(p) => Held' = Held
BY PathFacts DEF Held, Others

(* A private path has its directory where the folder has it. *)
LEMMA PlaceInFolder ==
    ASSUME FilesAssumption, NEW p \in EnginePaths, Private(p)
    PROVE  /\ HasPlace(Redirect(p), host) => Folder!HasPlace(p[2], Held)
           /\ Redirect(p) \in host <=> p[2] \in Held
BY PathFacts DEF HasPlace, Folder!HasPlace, Held, FilesAssumption

(* A call that adds a file, or fails: Create, Fopen and MakeDirectory. *)
LEMMA MakeStep ==
    ASSUME FilesAssumption, NEW p \in EnginePaths, NEW call \in {"write", "mkdir"},
           Try(p, call, Make(Redirect(p)))
    PROVE  Folder!Next
<1>1. p[2] \in Written
  BY PathFacts
<1>2. CASE ~Private(p)
  <2>1. Held' = Held
    BY <1>2, AddFile DEF Try, Make, Held
  <2> QED
    BY <1>2, <2>1 DEF Try, Say, Held, Folder!Outside, Folder!Next
<1>3. CASE Private(p)
  <2>1. \/ Folder!Make(p[2]) /\ Others' = Others /\ result' = <<call, TRUE>>
        \/ Held' = Held /\ Others' = Others /\ result' = <<call, FALSE>>
    BY <1>3, AddFile, PlaceInFolder DEF Try, Make, Say, Folder!Make, Held, Others
  <2>2. Folder!Try(call, Folder!Make(p[2])) /\ Others' = Others
    BY <2>1 DEF Folder!Try, Folder!Answer, Held
  <2> QED
    BY <1>1, <2>2 DEF Folder!Next, Folder!Private, Others
<1> QED BY <1>2, <1>3

(* A call that removes a file or directory, or fails. *)
LEMMA RemoveStep ==
    ASSUME FilesAssumption, NEW p \in EnginePaths, Remove(p)
    PROVE  Folder!Next
<1>1. p[2] \in Written
  BY PathFacts
<1>2. CASE ~Private(p)
  <2>1. Held' = Held
    BY <1>2, RemoveFile DEF Remove, Try, Held
  <2> QED
    BY <1>2, <2>1 DEF Remove, Try, Say, Held, Folder!Outside, Folder!Next
<1>3. CASE Private(p)
  <2>1. p[2] \notin Folders => Folder!Empty(p[2])
    BY <1>1 DEF Folder!Empty, Folders, FilesAssumption
  <2>2. \/ Folder!Drop(p[2]) /\ Others' = Others /\ result' = <<"remove", TRUE>>
        \/ Held' = Held /\ Others' = Others /\ result' = <<"remove", FALSE>>
    BY <1>3, <2>1, RemoveFile, PlaceInFolder
    DEF Remove, Try, Say, Folder!Drop, Held, Others
  <2>3. Folder!Try("remove", Folder!Drop(p[2])) /\ Others' = Others
    BY <2>2 DEF Folder!Try, Folder!Answer, Held
  <2> QED
    BY <1>1, <2>3 DEF Folder!Next, Folder!Private, Others
<1> QED BY <1>2, <1>3

(* A rename to a free name, or one that fails. *)
LEMMA RenameStep ==
    ASSUME FilesAssumption, NEW p \in EnginePaths, NEW q \in EnginePaths,
           Rename(p, q)
    PROVE  Folder!Next
<1>1. p[2] \in Written /\ q[2] \in Written /\ Private(p) = Private(q)
  BY PathFacts DEF Rename
<1>2. CASE ~Private(p)
  <2>1. Held' = Held
    BY <1>1, <1>2, RenameFile DEF Rename, Try, Held
  <2> QED
    BY <1>2, <2>1 DEF Rename, Try, Say, Held, Folder!Outside, Folder!Next
<1>3. CASE Private(p)
  <2>1. p[2] \notin Folders => Folder!Empty(p[2])
    BY <1>1 DEF Folder!Empty, Folders, FilesAssumption
  <2>2. CASE UNCHANGED host /\ Say(p, "rename", FALSE)
    <3>1. Folder!Try("rename", Folder!Rename(p[2], q[2])) /\ Others' = Others
      BY <1>3, <2>2 DEF Say, Folder!Try, Folder!Answer, Others
    <3> QED
      BY <1>1, <3>1 DEF Folder!Next, Folder!Private, Others
  <2>3. CASE /\ Redirect(p) \in host /\ Redirect(q) \notin host
             /\ HasPlace(Redirect(q), host) /\ Say(p, "rename", TRUE)
             /\ host' = (host \ {Redirect(p)}) \cup {Redirect(q)}
    <3>1. Held' = (Held \ {p[2]}) \cup {q[2]} /\ Others' = Others
      BY <1>1, <1>3, <2>3, RenameFile
    <3>2. p[2] \in Held /\ q[2] \notin Held /\ Folder!HasPlace(q[2], Held)
      BY <1>1, <1>3, <2>3, PlaceInFolder
    <3>3. p[2] \notin Folders /\ Inside[q[2]] # p[2]
      BY <1>1, <2>1 DEF Rename, Folders
    <3>4. Folder!HasPlace(q[2], Held')
      BY <3>1, <3>2, <3>3 DEF Folder!HasPlace
    <3>5. Folder!Rename(p[2], q[2])
      BY <2>1, <3>1, <3>2, <3>3, <3>4 DEF Folder!Rename, Held
    <3>6. Folder!Try("rename", Folder!Rename(p[2], q[2]))
      BY <1>3, <2>3, <3>5 DEF Say, Folder!Try, Folder!Answer
    <3> QED
      BY <1>1, <3>1, <3>6 DEF Folder!Next, Folder!Private, Others
  <2> QED BY <2>2, <2>3 DEF Rename, Try
<1> QED BY <1>2, <1>3

(* system("mkdir ..."): a directory and its parent, or less. *)
LEMMA MakePathStep ==
    ASSUME FilesAssumption, NEW p \in EnginePaths, MakePath(p)
    PROVE  Folder!Next
<1> DEFINE s == Redirect(p)
<1>1. /\ p[2] \in Written /\ s = <<s[1], p[2]>> /\ s[2] = p[2]
      /\ s[1] = IF Private(p) THEN "game" ELSE "files2"
  BY PathFacts
<1>2. PICK made \in SUBSET ({s} \cup Parent(s)) :
        host' = host \cup made /\ \A t \in made : HasPlace(t, host')
  BY DEF MakePath
<1>3. Say(p, "system", 0)
  BY DEF MakePath
<1> HIDE DEF s
<1>4. \A t \in made : /\ t = <<s[1], t[2]>>
                      /\ t[2] \in {p[2], Inside[p[2]]} \ {TOP} /\ t[2] \in Written
  BY <1>1 DEF Parent, FilesAssumption
<1> DEFINE names == {n \in Written : <<s[1], n>> \in made}
<1>5. CASE ~Private(p)
  <2>1. Held' = Held
    BY <1>1, <1>2, <1>4, <1>5 DEF Held
  <2> QED
    BY <1>3, <1>5, <2>1 DEF Say, Held, Folder!Outside, Folder!Next
<1>6. CASE Private(p)
  <2>1. Held' = Held \cup names /\ Others' = Others
    BY <1>1, <1>2, <1>4, <1>6 DEF Held, Others
  <2>2. names \in SUBSET ({p[2], Inside[p[2]]} \ {TOP})
    BY <1>4
  <2>3. \A n \in names : Folder!HasPlace(n, Held')
    BY <1>1, <1>2, <1>6 DEF HasPlace, Folder!HasPlace, Held, FilesAssumption
  <2> HIDE DEF names
  <2>4. Folder!Command(p[2])
    BY <1>3, <1>6, <2>1, <2>2, <2>3
    DEF Say, Folder!Command, Folder!Answer, Held
  <2> QED
    BY <1>1, <2>1, <2>4 DEF Folder!Next, Folder!Private, Others
<1> QED BY <1>5, <1>6

(* Calls that only ask. *)
LEMMA AskStep ==
    ASSUME FilesAssumption,
           \/ \E p \in EnginePaths :
                \/ Say(p, "look", Redirect(p) \in host)
                \/ RealPath(p)
           \/ OtherCommand
           \/ \E place \in Roots, n \in Folders \cup {TOP} : List(<<place, n>>),
           host' = host
    PROVE  Folder!Next
<1>1. Held' = Held /\ Others' = Others
  BY DEF Held, Others
<1>2. ASSUME NEW p \in EnginePaths, Say(p, "look", Redirect(p) \in host)
      PROVE  Folder!Next
  <2>1. CASE ~Private(p)
    BY <1>1, <1>2, <2>1 DEF Say, Held, Folder!Outside, Folder!Next
  <2>2. CASE Private(p)
    <3>1. p[2] \in Written /\ (Redirect(p) \in host) = (p[2] \in Held)
      BY <2>2, PathFacts, PlaceInFolder
    <3>2. Folder!Answer("look", p[2] \in Held)
      BY <1>2, <2>2, <3>1 DEF Say, Folder!Answer
    <3> QED
      BY <1>1, <3>1, <3>2 DEF Folder!Next, Folder!Private, Held, Others
  <2> QED BY <2>1, <2>2
<1>3. ASSUME NEW p \in EnginePaths, RealPath(p)
      PROVE  Folder!Next
  <2>1. CASE ~Private(p)
    BY <1>1, <1>3, <2>1 DEF RealPath, Say, Held, Folder!Outside, Folder!Next
  <2>2. CASE Private(p)
    <3>1. p[2] \in Written /\ Private(Redirect(p))
      BY <2>2, PathFacts DEF Private
    <3>2. Folder!Answer("realpath", p[2])
      BY <1>3, <2>2, <3>1 DEF RealPath, Say, Folder!Answer
    <3> QED
      BY <1>1, <3>1, <3>2 DEF Folder!Next, Folder!Private, Held, Others
  <2> QED BY <2>1, <2>2
<1>4. CASE OtherCommand
  BY <1>1, <1>4 DEF OtherCommand, Folder!OtherCommand, Folder!Answer, Folder!Next,
                    Held, Others
<1>5. ASSUME NEW place \in Roots, NEW n \in Folders \cup {TOP}, List(<<place, n>>)
      PROVE  Folder!Next
  <2> DEFINE p == <<place, n>>
  <2>1. CASE ~Private(p)
    BY <1>1, <1>5, <2>1 DEF List, Say, Held, Folder!Outside, Folder!Next
  <2>2. CASE Private(p)
    <3>1. Redirect(p)[1] = "game" /\ n \in Written \cup {TOP}
      BY <2>2 DEF Redirect, Private, Folders, FilesAssumption
    <3>2. {m \in Written : Inside[m] = n /\ <<Redirect(p)[1], m>> \in host}
          = {m \in Held : Inside[m] = n}
      BY <3>1 DEF Held
    <3>3. Folder!Answer("list", {m \in Held : Inside[m] = n})
      BY <1>5, <2>2, <3>2 DEF List, Say, Folder!Answer
    <3> QED
      BY <1>1, <3>1, <3>3 DEF Folder!Next, Folder!List, Held, Others
  <2> QED BY <2>1, <2>2
<1> QED BY <1>2, <1>3, <1>4, <1>5

(* Every step of the engine is a step on the folder. *)
LEMMA FolderStep ==
    ASSUME FilesAssumption, [FilesNext]_<<vars, result>>
    PROVE  [Folder!Next]_(Folder!vars)
<1>1. CASE UNCHANGED <<vars, result>>
  BY <1>1 DEF vars, Folder!vars
<1>2. CASE AssetCall
  <2>1. host' = host
    BY <1>2 DEF AssetCall, AssetNext, Open, OpenFails, Read, Seek, GetLength, Close,
                OpenDir, NextFileName, CloseDir
  <2> QED
    BY <1>2, <2>1 DEF AssetCall, Folder!Outside, Folder!Next
<1>3. ASSUME NEW p \in EnginePaths, Create(p)
      PROVE  Folder!Next
  BY <1>3, MakeStep DEF Create
<1>4. ASSUME NEW p \in EnginePaths, Fopen(p)
      PROVE  Folder!Next
  BY <1>4, MakeStep, AskStep DEF Fopen
<1>5. ASSUME NEW p \in EnginePaths, MakeDirectory(p)
      PROVE  Folder!Next
  <2>1. Try(p, "mkdir", Make(Redirect(p)))
    BY <1>5 DEF MakeDirectory, Try
  <2> QED
    BY <2>1, MakeStep
<1>6. ASSUME NEW p \in EnginePaths, Look(p)
      PROVE  Folder!Next
  BY <1>6, AskStep DEF Look
<1>7. ASSUME NEW p \in EnginePaths, RealPath(p)
      PROVE  Folder!Next
  <2>1. host' = host
    BY <1>7 DEF RealPath
  <2> QED
    BY <1>7, <2>1, AskStep
<1>8. CASE OtherCommand
  <2>1. host' = host
    BY <1>8 DEF OtherCommand
  <2> QED
    BY <1>8, <2>1, AskStep
<1>9. ASSUME NEW place \in Roots, NEW n \in Folders \cup {TOP}, List(<<place, n>>)
      PROVE  Folder!Next
  <2>1. host' = host
    BY <1>9 DEF List
  <2> QED
    BY <1>9, <2>1, AskStep
<1> QED
  BY <1>1, <1>2, <1>3, <1>4, <1>5, <1>6, <1>7, <1>8, <1>9,
     RemoveStep, RenameStep, MakePathStep
  DEF FilesNext, FileCall

(***************************************************************************)
(* Every path call acts on one folder under either of its names, finds     *)
(* what the others left, and touches nothing else (save_redirect_path and  *)
(* the calls of libc_shim.c that use it).                                  *)
(***************************************************************************)
THEOREM OneFolder == FilesSpec => ImplementsGameFolder
<1>1. FilesInit => Folder!Init
  BY FilesAssumption
  DEF FilesInit, Folder!Init, Folder!IsTree, Folder!HasPlace, HasPlace, Roots
<1>2. [FilesNext]_<<vars, result>> => [Folder!Next]_(Folder!vars)
  BY FolderStep, FilesAssumption
<1> QED
  BY <1>1, <1>2, PTL DEF FilesSpec, ImplementsGameFolder, Folder!Spec

(* A path call adds and removes only files of its own places. *)
LEMMA FileCallIsOther ==
    ASSUME FilesAssumption, host \subseteq Sources, FileCall
    PROVE  OtherFiles
<1>1. \A p \in EnginePaths :
        /\ {Redirect(p)} \cup Parent(Redirect(p)) \subseteq Sources
        /\ \A n \in Names : InAssets(n) \notin {Redirect(p)} \cup Parent(Redirect(p))
  BY PathFacts DEF InAssets, Parent
<1>2. ASSUME NEW p \in EnginePaths,
             NEW S \in SUBSET ({Redirect(p)} \cup Parent(Redirect(p))),
             host' = host \cup S
      PROVE  host' \in SUBSET Sources
             /\ \A n \in Names : InAssets(n) \in host' <=> InAssets(n) \in host
  BY <1>1, <1>2
<1>3. ASSUME NEW p \in EnginePaths, NEW q \in EnginePaths,
             NEW T \in {{}, {Redirect(q)}}, host' = (host \ {Redirect(p)}) \cup T
      PROVE  host' \in SUBSET Sources
             /\ \A n \in Names : InAssets(n) \in host' <=> InAssets(n) \in host
  BY <1>1, <1>3
<1>4. \/ host' = host
      \/ \E p \in EnginePaths :
           \E S \in SUBSET ({Redirect(p)} \cup Parent(Redirect(p))) : host' = host \cup S
      \/ \E p, q \in EnginePaths :
           \E T \in {{}, {Redirect(q)}} : host' = (host \ {Redirect(p)}) \cup T
  <2>1. ASSUME NEW p \in EnginePaths, Create(p) \/ Fopen(p) \/ MakeDirectory(p)
        PROVE  host' = host \/ host' = host \cup {Redirect(p)}
    BY <2>1 DEF Create, Fopen, MakeDirectory, Try, Make
  <2>2. ASSUME NEW p \in EnginePaths, MakePath(p)
        PROVE  \E S \in SUBSET ({Redirect(p)} \cup Parent(Redirect(p))) :
                 host' = host \cup S
    BY <2>2 DEF MakePath
  <2>3. ASSUME NEW p \in EnginePaths, Remove(p)
        PROVE  host' = host \/ host' = (host \ {Redirect(p)}) \cup {}
    BY <2>3 DEF Remove, Try
  <2>4. ASSUME NEW p \in EnginePaths, NEW q \in EnginePaths, Rename(p, q)
        PROVE  host' = host \/ host' = (host \ {Redirect(p)}) \cup {Redirect(q)}
    BY <2>4 DEF Rename, Try
  <2>5. ASSUME \/ \E p \in EnginePaths : Look(p) \/ RealPath(p)
               \/ OtherCommand
               \/ \E place \in Roots, n \in Folders \cup {TOP} : List(<<place, n>>)
        PROVE  host' = host
    BY <2>5 DEF Look, RealPath, OtherCommand, List
  <2> QED
    BY <2>1, <2>2, <2>3, <2>4, <2>5 DEF FileCall
<1>5. /\ host' \in SUBSET Sources
      /\ \A n \in Names : InAssets(n) \in host' <=> InAssets(n) \in host
  BY <1>2, <1>3, <1>4
<1> QED
  BY <1>5 DEF FileCall, OtherFiles

(***************************************************************************)
(* The engine's writing is within what AAsset assumes of it, so that what  *)
(* is proved of the assets holds beside the path calls.                    *)
(***************************************************************************)
THEOREM AssetsUndisturbed == FilesSpec => Spec
<1> DEFINE OnCard == host \subseteq Sources
<1>1. FilesInit => Init /\ OnCard
  BY DEF FilesInit, Init
<1>2. OnCard /\ [FilesNext]_<<vars, result>> => [Next]_vars /\ OnCard'
  <2> SUFFICES ASSUME OnCard, [FilesNext]_<<vars, result>>
               PROVE  [Next]_vars /\ OnCard'
    OBVIOUS
  <2>1. CASE UNCHANGED <<vars, result>>
    BY <2>1 DEF vars
  <2>2. CASE AssetCall
    <3>1. host' = host
      BY <2>2 DEF AssetCall, AssetNext, Open, OpenFails, Read, Seek, GetLength, Close,
                  OpenDir, NextFileName, CloseDir
    <3> QED
      BY <2>2, <3>1 DEF AssetCall, Next
  <2>3. CASE FileCall
    <3>1. OtherFiles
      BY <2>3, FileCallIsOther, FilesAssumption
    <3> QED
      BY <3>1 DEF OtherFiles, Next
  <2> QED
    BY <2>1, <2>2, <2>3 DEF FilesNext
<1> HIDE DEF OnCard
<1> QED
  BY <1>1, <1>2, PTL DEF FilesSpec, Spec

=============================================================================
