--------------------------- MODULE JniRefs_proofs ---------------------------
(***************************************************************************)
(* The local reference table never frees an object twice, never names a    *)
(* freed one and implements the frames of JniFrames, for any number of     *)
(* addresses, entries, marks and nested frames, when the engine handles    *)
(* references of its innermost frame only; and the engine's identifiers    *)
(* keep naming their methods while the pool has room for them.             *)
(***************************************************************************)
EXTENDS JniUpcalls, FiniteSetTheorems, SequenceTheorems, TLAPS

(* The marks ascend, and none lies beyond the table's top. *)
MarksInv ==
    /\ \A i, j \in 1..Len(frames) : i <= j => frames[i] <= frames[j]
    /\ \A i \in 1..Len(frames) : frames[i] <= locals_top

(* Entries and global references own distinct allocated objects. *)
HeapInv ==
    /\ \A m, n \in Live : locals[m] = locals[n] => m = n
    /\ \A n \in Live :
         locals[n] \in Refs /\ mem[locals[n]] = "alive" /\ locals[n] \notin globals
    /\ \A r \in globals : mem[r] = "alive"
    /\ \A r \in Refs : mem[r] # "corrupt"

IInv == TypeOK /\ MarksInv /\ HeapInv

(* The table and the marks are empty at first.                           *)
LEMMA InitIInv == Init => IInv
<1> SUFFICES ASSUME Init PROVE IInv
  OBVIOUS
<1> USE RefsAssumption DEF Init
<1>1. TypeOK
  BY DEF TypeOK
<1>2. MarksInv
  BY DEF MarksInv
<1>3. HeapInv
  BY DEF HeapInv, Live, Entries
<1> QED
  BY <1>1, <1>2, <1>3 DEF IInv

(* free_ref on entries that are live frees each object once. *)
LEMMA FreeLive ==
  ASSUME IInv, NEW S \in SUBSET Live, FreeAt(S)
  PROVE  mem' = [r \in Refs |-> IF \E n \in S : locals[n] = r THEN "free" ELSE mem[r]]
<1> DEFINE Times(r) == Cardinality({n \in S : locals[n] = r})
<1>1. ASSUME NEW r \in Refs, NEW n \in S, locals[n] = r
      PROVE  Times(r) = 1 /\ mem[r] = "alive"
  <2>1. {m \in S : locals[m] = r} = {n}
    BY <1>1 DEF IInv, HeapInv
  <2>2. Times(r) = 1
    BY <2>1, FS_Singleton
  <2> QED
    BY <1>1, <2>2 DEF IInv, HeapInv
<1>2. ASSUME NEW r \in Refs, ~\E n \in S : locals[n] = r
      PROVE  Times(r) = 0
  <2>1. {m \in S : locals[m] = r} = {}
    BY <1>2
  <2> QED
    BY <2>1, FS_EmptySet
<1>3. mem' = [r \in Refs |-> IF Times(r) = 0 THEN mem[r]
                             ELSE IF Times(r) = 1 /\ mem[r] = "alive" THEN "free"
                             ELSE "corrupt"]
  BY DEF FreeAt
<1> HIDE DEF Times
<1> QED
  BY <1>1, <1>2, <1>3

(* The reference a call names is in one entry, above the innermost mark. *)
LEMMA Named ==
  ASSUME IInv, ~OuterRefs, NEW r, MayUse(r)
  PROVE  /\ r \in Refs
         /\ LastHolding(r) \in Live /\ locals[LastHolding(r)] = r
         /\ First(frame_top) <= LastHolding(r)
<1>1. PICK m \in Entries : First(frame_top) <= m /\ m < locals_top /\ locals[m] = r
  BY DEF MayUse, FrameRefs, Past
<1>2. Holding(r) = {m}
  BY <1>1 DEF IInv, HeapInv, Holding, Live
<1>3. m <= m
  BY DEF Entries
<1>4. LastHolding(r) = m
  BY <1>2, <1>3 DEF LastHolding
<1> QED
  BY <1>1, <1>4 DEF IInv, HeapInv, Live

(* Where the innermost mark is. *)
LEMMA MarkInTable ==
  ASSUME IInv
  PROVE  /\ First(frame_top) \in 0..MAX_LOCALS /\ First(frame_top) <= locals_top
         /\ \A i \in 1..Len(frames) : frames[i] <= First(frame_top)
<1>1. CASE frame_top = 0
  BY <1>1, RefsAssumption DEF First, frame_top, IInv, TypeOK
<1>2. CASE frame_top # 0
  <2>1. frame_top \in 1..Len(frames)
    BY <1>2 DEF frame_top, IInv, TypeOK
  <2>2. First(frame_top) = frames[frame_top]
    BY <1>2 DEF First
  <2> QED
    BY <2>1, <2>2, RefsAssumption DEF IInv, TypeOK, MarksInv, frame_top
<1> QED
  BY <1>1, <1>2

(* Filling the hole at an entry above the innermost mark. *)
LEMMA Removal ==
  ASSUME IInv, NEW n \in Live, First(frame_top) <= n, Remove(n), UNCHANGED frames
  PROVE  /\ locals' \in [Entries -> Refs \cup {NULL}]
         /\ locals_top' \in 0..MAX_LOCALS
         /\ MarksInv'
         /\ \A m \in Live' : \E k \in Live \ {n} : locals'[m] = locals[k]
         /\ \A m, k \in Live' : locals'[m] = locals'[k] => m = k
<1>1. /\ locals_top \in 1..MAX_LOCALS /\ locals_top - 1 \in Live /\ n \in Entries
      /\ n <= locals_top - 1
  BY RefsAssumption DEF IInv, TypeOK, Live, Entries
<1>2. /\ locals' = [locals EXCEPT ![n] = locals[locals_top - 1]]
      /\ locals_top' = locals_top - 1
  BY DEF Remove
<1>3. locals' \in [Entries -> Refs \cup {NULL}] /\ locals_top' \in 0..MAX_LOCALS
  BY <1>1, <1>2, RefsAssumption DEF IInv, TypeOK, Live
<1>4. MarksInv'
  <2>1. \A i \in 1..Len(frames) : frames[i] \in 0..MAX_LOCALS
    BY RefsAssumption DEF IInv, TypeOK
  <2> QED
    BY <1>1, <1>2, <2>1, MarkInTable DEF IInv, MarksInv, Entries
<1>5. \A m \in Live' : /\ m \in Live /\ m # locals_top - 1
                       /\ locals'[m] = IF m = n THEN locals[locals_top - 1] ELSE locals[m]
  BY <1>1, <1>2 DEF Live, Entries, IInv, TypeOK
<1>6. \A m \in Live' : \E k \in Live \ {n} : locals'[m] = locals[k]
  BY <1>1, <1>5
<1>7. \A m, k \in Live' : locals'[m] = locals'[k] => m = k
  BY <1>1, <1>5 DEF IInv, HeapInv
<1> QED
  BY <1>3, <1>4, <1>6, <1>7

(* NewStringUTF and its like. *)
LEMMA NewStep ==
  ASSUME IInv, NEW r \in Refs, NewLocal(r)
  PROVE  IInv'
<1> USE RefsAssumption DEF NewLocal, IInv
<1>1. /\ mem' = [mem EXCEPT ![r] = "alive"] /\ mem[r] = "free"
      /\ UNCHANGED <<frames, depth, globals>>
  OBVIOUS
<1>2. r \notin globals /\ \A n \in Live : locals[n] # r
  BY <1>1 DEF HeapInv
<1>3. CASE locals_top < MAX_LOCALS
  <2>1. /\ locals' = [locals EXCEPT ![locals_top] = r]
        /\ locals_top' = locals_top + 1
        /\ locals_top \in Entries
    BY <1>3 DEF RegLocal, Entries, TypeOK
  <2>2. TypeOK'
    BY <1>1, <1>3, <2>1 DEF TypeOK
  <2>3. MarksInv'
    <3>1. \A i \in 1..Len(frames) : frames[i] \in 0..MAX_LOCALS
      BY DEF TypeOK
    <3> QED
      BY <1>1, <2>1, <3>1 DEF MarksInv, TypeOK
  <2>4. \A n \in Live' : /\ n = locals_top => locals'[n] = r
                         /\ n # locals_top => n \in Live /\ locals'[n] = locals[n]
    BY <2>1 DEF Live, Entries, TypeOK
  <2>5. \A n \in Live' : /\ locals'[n] \in Refs /\ mem'[locals'[n]] = "alive"
                          /\ locals'[n] \notin globals'
    BY <1>1, <1>2, <2>4 DEF HeapInv, TypeOK
  <2>6. \A m, n \in Live' : locals'[m] = locals'[n] => m = n
    BY <1>2, <2>4 DEF HeapInv
  <2>7. /\ \A q \in globals' : mem'[q] = "alive"
        /\ \A q \in Refs : mem'[q] # "corrupt"
    BY <1>1, <1>2 DEF HeapInv, TypeOK
  <2>8. HeapInv'
    BY <2>5, <2>6, <2>7 DEF HeapInv
  <2> QED
    BY <2>2, <2>3, <2>8
<1>4. CASE ~(locals_top < MAX_LOCALS)
  <2>1. UNCHANGED <<locals, locals_top>>
    BY <1>4 DEF RegLocal
  <2>2. TypeOK'
    BY <1>1, <2>1 DEF TypeOK
  <2>3. MarksInv'
    BY <1>1, <2>1 DEF MarksInv
  <2>4. HeapInv'
    BY <1>1, <1>2, <2>1 DEF HeapInv, Live, TypeOK
  <2> QED
    BY <2>2, <2>3, <2>4
<1> QED
  BY <1>3, <1>4

(* DeleteLocalRef and NewGlobalRef take an entry out of the table. *)
LEMMA RemoveSteps ==
  ASSUME IInv, ~OuterRefs, NEW r \in Refs, DeleteLocalRef(r) \/ NewGlobalRef(r)
  PROVE  IInv'
<1> DEFINE n == LastHolding(r)
<1>1. n \in Live /\ locals[n] = r /\ First(frame_top) <= n
  BY Named DEF DeleteLocalRef, NewGlobalRef
<1>2. Remove(n) /\ UNCHANGED <<frames, depth>>
  BY DEF DeleteLocalRef, NewGlobalRef
<1> HIDE DEF n
<1>3. /\ locals' \in [Entries -> Refs \cup {NULL}]
      /\ locals_top' \in 0..MAX_LOCALS
      /\ MarksInv'
      /\ \A m \in Live' : \E k \in Live \ {n} : locals'[m] = locals[k]
      /\ \A m, k \in Live' : locals'[m] = locals'[k] => m = k
  BY <1>1, <1>2, Removal
<1>4. \A m \in Live' : /\ locals'[m] \in Refs \ {r} /\ locals'[m] \notin globals
                       /\ mem[locals'[m]] = "alive"
  BY <1>1, <1>3 DEF IInv, HeapInv
<1>5. CASE DeleteLocalRef(r)
  <2>1. FreeAt({n}) /\ globals' = globals
    BY <1>5 DEF DeleteLocalRef, n
  <2>2. mem' = [q \in Refs |-> IF q = r THEN "free" ELSE mem[q]]
    <3>1. mem' = [q \in Refs |-> IF \E m \in {n} : locals[m] = q THEN "free" ELSE mem[q]]
      BY <1>1, <2>1, FreeLive
    <3> QED
      BY <1>1, <3>1
  <2>3. r \notin globals
    BY <1>1 DEF IInv, HeapInv
  <2>4. TypeOK'
    BY <1>2, <1>3, <2>1, <2>2 DEF IInv, TypeOK
  <2>5. HeapInv'
    BY <1>3, <1>4, <2>1, <2>2, <2>3 DEF IInv, HeapInv, TypeOK
  <2> QED
    BY <1>3, <2>4, <2>5 DEF IInv
<1>6. CASE NewGlobalRef(r)
  <2>1. globals' = globals \cup {r} /\ mem' = mem
    BY <1>6 DEF NewGlobalRef
  <2>2. mem[r] = "alive"
    BY <1>1 DEF IInv, HeapInv
  <2>3. TypeOK'
    BY <1>2, <1>3, <2>1 DEF IInv, TypeOK
  <2>4. HeapInv'
    BY <1>3, <1>4, <2>1, <2>2 DEF IInv, HeapInv
  <2> QED
    BY <1>3, <2>3, <2>4 DEF IInv
<1> QED
  BY <1>5, <1>6

(* DeleteGlobalRef and PushLocalFrame leave the table alone. *)
LEMMA TableKept ==
  ASSUME IInv, PushLocalFrame \/ \E r \in Refs : DeleteGlobalRef(r)
  PROVE  IInv'
<1>1. ASSUME NEW r \in Refs, DeleteGlobalRef(r)
      PROVE  IInv'
  <2>1. /\ mem' = [mem EXCEPT ![r] = "free"] /\ globals' = globals \ {r}
        /\ r \in globals
        /\ UNCHANGED <<locals, locals_top, frames, depth>>
    BY <1>1 DEF DeleteGlobalRef, IInv, HeapInv
  <2>2. TypeOK'
    BY <2>1 DEF IInv, TypeOK
  <2>3. MarksInv'
    BY <2>1 DEF IInv, MarksInv
  <2>4. HeapInv'
    BY <2>1 DEF IInv, HeapInv, Live, TypeOK
  <2> QED
    BY <2>2, <2>3, <2>4 DEF IInv
<1>2. CASE PushLocalFrame
  <2>1. /\ depth' = depth + 1 /\ depth < MaxDepth
        /\ UNCHANGED <<mem, locals, locals_top, globals>>
    BY <1>2 DEF PushLocalFrame
  <2>2. HeapInv'
    BY <2>1 DEF IInv, HeapInv, Live
  <2>3. CASE frame_top < MAX_FRAMES
    <3>1. frames' = Append(frames, locals_top)
      BY <1>2, <2>3 DEF PushLocalFrame
    <3>2. /\ frames \in Seq(0..MAX_LOCALS) /\ locals_top \in 0..MAX_LOCALS
          /\ Len(frames) \in Nat
      BY DEF IInv, TypeOK
    <3>3. /\ frames' \in Seq(0..MAX_LOCALS) /\ Len(frames') = Len(frames) + 1
          /\ \A i \in 1..Len(frames) : frames'[i] = frames[i]
          /\ frames'[Len(frames) + 1] = locals_top
      BY <3>1, <3>2
    <3>4. TypeOK'
      BY <2>1, <2>3, <3>2, <3>3, RefsAssumption DEF IInv, TypeOK, frame_top
    <3>5. \A i \in 1..Len(frames) : frames[i] \in 0..MAX_LOCALS
      BY <3>2, RefsAssumption
    <3>6. MarksInv'
      BY <2>1, <3>2, <3>3, <3>5 DEF IInv, MarksInv
    <3> QED
      BY <2>2, <3>4, <3>6 DEF IInv
  <2>4. CASE ~(frame_top < MAX_FRAMES)
    <3>1. frames' = frames
      BY <1>2, <2>4 DEF PushLocalFrame
    <3>2. TypeOK'
      BY <2>1, <3>1, RefsAssumption DEF IInv, TypeOK
    <3>3. MarksInv'
      BY <2>1, <3>1 DEF IInv, MarksInv
    <3> QED
      BY <2>2, <3>2, <3>3 DEF IInv
  <2> QED
    BY <2>3, <2>4
<1> QED
  BY <1>1, <1>2

(* PopLocalFrame. *)
LEMMA PopStep ==
  ASSUME IInv, ~OuterRefs, NEW result \in Refs \cup {NULL}, PopLocalFrame(result)
  PROVE  IInv'
<1> USE RefsAssumption
<1> DEFINE mark == First(frame_top)
           keep == result # NULL /\ mark < MAX_LOCALS
           gone == {n \in Live : n >= mark /\ locals[n] # result}
<1>1. /\ depth > 0 /\ depth' = depth - 1 /\ globals' = globals
      /\ result = NULL \/ MayUse(result)
      /\ frames' = IF frame_top > 0 THEN SubSeq(frames, 1, frame_top - 1) ELSE frames
      /\ FreeAt(gone)
      /\ locals_top' = mark + (IF keep THEN 1 ELSE 0)
      /\ locals' = IF keep THEN [locals EXCEPT ![mark] = result] ELSE locals
  BY DEF PopLocalFrame
<1>2. /\ mark \in 0..MAX_LOCALS /\ mark <= locals_top
      /\ \A i \in 1..Len(frames) : frames[i] <= mark
  BY MarkInTable
<1>3. mem' = [r \in Refs |-> IF \E n \in gone : locals[n] = r THEN "free" ELSE mem[r]]
  <2>1. gone \in SUBSET Live
    OBVIOUS
  <2> QED
    BY <1>1, <2>1, FreeLive
<1>4. result # NULL =>
        /\ result \in Refs /\ mark < MAX_LOCALS
        /\ \E n \in Live : n >= mark /\ locals[n] = result
  <2>1. SUFFICES ASSUME result # NULL
                 PROVE  /\ result \in Refs /\ mark < MAX_LOCALS
                        /\ \E n \in Live : n >= mark /\ locals[n] = result
    OBVIOUS
  <2>2. /\ result \in Refs /\ LastHolding(result) \in Live
        /\ locals[LastHolding(result)] = result
        /\ mark <= LastHolding(result)
    BY <1>1, <2>1, Named
  <2>3. LastHolding(result) \in 0..(MAX_LOCALS - 1)
    BY <2>2 DEF Live, Entries
  <2> QED
    BY <1>2, <2>2, <2>3
<1> HIDE DEF mark
<1>5. frames' \in Seq(0..MAX_LOCALS) /\ Len(frames') <= Len(frames)
      /\ Len(frames') \in Nat
      /\ \A i \in 1..Len(frames') : i \in 1..Len(frames) /\ frames'[i] = frames[i]
  <2>1. frames \in Seq(0..MAX_LOCALS) /\ Len(frames) \in Nat /\ frame_top = Len(frames)
    BY DEF IInv, TypeOK, frame_top
  <2>2. CASE frame_top > 0
    <3>1. frame_top - 1 \in 0..Len(frames)
      BY <2>1, <2>2
    <3>2. frames' = SubSeq(frames, 1, frame_top - 1)
      BY <1>1, <2>2
    <3>3. /\ Len(frames') = frame_top - 1
          /\ \A i \in 1..(frame_top - 1) : frames'[i] = frames[i]
      BY <2>1, <2>2, <3>2
    <3>4. frames' \in Seq(0..MAX_LOCALS)
      BY <2>1, <3>1, <3>2
    <3> QED
      BY <2>1, <3>1, <3>3, <3>4
  <2>3. CASE ~(frame_top > 0)
    BY <1>1, <2>1, <2>3
  <2> QED
    BY <2>2, <2>3
<1>6. locals_top' \in 0..MAX_LOCALS /\ mark <= locals_top'
  BY <1>1, <1>2
<1>7. TypeOK'
  <2>1. mem' \in [Refs -> {"free", "alive", "corrupt"}]
    BY <1>3 DEF IInv, TypeOK
  <2>2. locals' \in [Entries -> Refs \cup {NULL}] /\ depth' \in 0..MaxDepth
    <3>1. depth - 1 \in 0..MaxDepth
      BY <1>1 DEF IInv, TypeOK
    <3>2. CASE keep
      BY <1>1, <1>4, <3>1, <3>2 DEF IInv, TypeOK
    <3>3. CASE ~keep
      BY <1>1, <3>1, <3>3 DEF IInv, TypeOK
    <3> QED
      BY <3>2, <3>3
  <2>3. globals' \subseteq Refs /\ Len(frames') <= MAX_FRAMES
    <3>1. Len(frames) \in Nat /\ Len(frames) <= MAX_FRAMES
      BY DEF IInv, TypeOK
    <3>2. Len(frames') <= MAX_FRAMES
      BY <1>5, <3>1
    <3> QED
      BY <1>1, <3>2 DEF IInv, TypeOK
  <2> QED
    BY <1>5, <1>6, <2>1, <2>2, <2>3 DEF TypeOK
<1>8. MarksInv'
  <2>1. \A i \in 1..Len(frames) : frames[i] \in 0..MAX_LOCALS
    BY RefsAssumption DEF IInv, TypeOK
  <2> QED
    BY <1>2, <1>5, <1>6, <2>1 DEF IInv, MarksInv
<1>9. \A n \in Live' : \/ n \in Live /\ n < mark /\ locals'[n] = locals[n]
                       \/ n = mark /\ keep /\ locals'[n] = result
  BY <1>1, <1>2 DEF Live, Entries, IInv, TypeOK
<1>10. HeapInv'
  <2>1. \A n \in Live : n < mark =>
          /\ mem'[locals[n]] = "alive"
          /\ result # NULL => locals[n] # result
    BY <1>2, <1>3, <1>4 DEF IInv, HeapInv, Live, Entries
  <2>2. result # NULL => mem'[result] = "alive" /\ result \notin globals
    BY <1>3, <1>4 DEF IInv, HeapInv
  <2>3. \A m, n \in Live' : locals'[m] = locals'[n] => m = n
    BY <1>9, <2>1 DEF IInv, HeapInv
  <2>4. \A n \in Live' : locals'[n] \in Refs /\ mem'[locals'[n]] = "alive"
                         /\ locals'[n] \notin globals'
    BY <1>1, <1>4, <1>9, <2>1, <2>2 DEF IInv, HeapInv
  <2>5. \A r \in globals' : mem'[r] = "alive"
    BY <1>1, <1>3 DEF IInv, HeapInv, TypeOK
  <2>6. \A r \in Refs : mem'[r] # "corrupt"
    BY <1>3 DEF IInv, HeapInv
  <2> QED
    BY <2>3, <2>4, <2>5, <2>6 DEF HeapInv
<1> QED
  BY <1>7, <1>8, <1>10 DEF IInv

(* Every call keeps the invariant. *)
LEMMA NextIInv == ~OuterRefs /\ IInv /\ [Next]_vars => IInv'
<1> SUFFICES ASSUME ~OuterRefs, IInv, [Next]_vars PROVE IInv'
  OBVIOUS
<1>1. CASE Next
  BY <1>1, NewStep, RemoveSteps, TableKept, PopStep DEF Next
<1>2. CASE UNCHANGED vars
  BY <1>2 DEF vars, IInv, TypeOK, MarksInv, HeapInv, Live
<1> QED
  BY <1>1, <1>2

(* The invariant holds throughout. *)
LEMMA Invariance == ~OuterRefs /\ Spec => []IInv
<1>1. CASE OuterRefs
  BY <1>1
<1>2. CASE ~OuterRefs
  <2>1. IInv /\ [Next]_vars => IInv'
    BY <1>2, NextIInv
  <2> QED
    BY <2>1, InitIInv, PTL DEF Spec
<1> QED
  BY <1>1, <1>2

(***************************************************************************)
(* The table, its top, the marks and the heap keep their types: no write   *)
(* falls outside the table.                                                *)
(***************************************************************************)
THEOREM TypeCorrect == ~OuterRefs /\ Spec => []TypeOK
<1>1. IInv => TypeOK
  BY DEF IInv
<1> QED
  BY Invariance, <1>1, PTL

(***************************************************************************)
(* No object is freed that is not allocated, by whatever mix of deletes,   *)
(* promotions and pops; the table names allocated objects only, each once  *)
(* and none that is global, and its marks stay in order.                   *)
(***************************************************************************)
THEOREM TableIsSound == ~OuterRefs /\ Spec => []TableSound
<1>1. IInv => TableSound
  <2> SUFFICES ASSUME IInv PROVE TableSound
    OBVIOUS
  <2>1. \A j \in 0..frame_top : First(j) <= Past(j)
    <3> SUFFICES ASSUME NEW j \in 0..frame_top PROVE First(j) <= Past(j)
      OBVIOUS
    <3>1. Len(frames) \in Nat /\ \A i \in 1..Len(frames) : frames[i] \in 0..MAX_LOCALS
      BY RefsAssumption DEF IInv, TypeOK
    <3>2. CASE j = frame_top
      BY <3>2, MarkInTable DEF Past
    <3>3. CASE j # frame_top
      BY <3>1, <3>3, RefsAssumption DEF First, Past, frame_top, IInv, MarksInv, TypeOK
    <3> QED
      BY <3>2, <3>3
  <2> QED
    BY <2>1 DEF IInv, HeapInv, TableSound
<1> QED
  BY Invariance, <1>1, PTL

----------------------------------------------------------------------------
(* The stack of frames that the marks stand for. *)
Stack == [m \in 1..(frame_top + 1) |-> FrameRefs(m - 1)]
Alive == {r \in Refs : mem[r] = "alive"}

(* The stack is a sequence of sets of references, one for each mark and    *)
(* the base.                                                               *)
LEMMA StackShape ==
  ASSUME IInv
  PROVE  /\ Stack \in Seq(SUBSET Refs) /\ Len(Stack) = frame_top + 1
         /\ \A m \in 1..(frame_top + 1) : Stack[m] = FrameRefs(m - 1)
         /\ frame_top \in Nat /\ Len(frames) = frame_top
         /\ \A i \in 1..frame_top : frames[i] \in 0..MAX_LOCALS
         /\ JNI!Top = FrameRefs(frame_top)
<1>1. /\ frame_top \in Nat /\ Len(frames) = frame_top
      /\ \A i \in 1..frame_top : frames[i] \in 0..MAX_LOCALS
  BY RefsAssumption DEF IInv, TypeOK, frame_top
<1>2. \A m \in 1..(frame_top + 1) : FrameRefs(m - 1) \in SUBSET Refs
  <2> SUFFICES ASSUME NEW m \in 1..(frame_top + 1) PROVE FrameRefs(m - 1) \subseteq Refs
    OBVIOUS
  <2>1. Past(m - 1) <= locals_top
    BY <1>1, RefsAssumption DEF Past, IInv, TypeOK, MarksInv
  <2>2. First(m - 1) \in Nat /\ Past(m - 1) \in Nat /\ locals_top \in Nat
    BY <1>1, RefsAssumption DEF First, Past, IInv, TypeOK
  <2> QED
    BY <2>1, <2>2, RefsAssumption DEF FrameRefs, IInv, HeapInv, Live, Entries
<1>3. Stack \in Seq(SUBSET Refs) /\ Len(Stack) = frame_top + 1
  <2>1. Stack \in [1..(frame_top + 1) -> SUBSET Refs]
    BY <1>2 DEF Stack
  <2> QED
    BY <1>1, <2>1
<1>4. \A m \in 1..(frame_top + 1) : Stack[m] = FrameRefs(m - 1)
  BY DEF Stack
<1>5. JNI!Top = Stack[frame_top + 1]
  BY <1>3 DEF JNI!Top, Stack
<1> QED
  BY <1>1, <1>3, <1>4, <1>5

(* A step that leaves the marks and changes no entry below the innermost   *)
(* one changes the innermost frame only.                                   *)
LEMMA TopChanges ==
  ASSUME IInv, IInv', UNCHANGED frames,
         \A n \in Entries : n < First(frame_top) => locals'[n] = locals[n],
         NEW S, FrameRefs(frame_top)' = S
  PROVE  Stack' = [Stack EXCEPT ![Len(Stack)] = S]
<1>1. frame_top' = frame_top
  BY DEF frame_top
<1>2. ASSUME NEW j \in 0..frame_top, j # frame_top
      PROVE  FrameRefs(j)' = FrameRefs(j)
  <2>1. Past(j)' = frames[j + 1] /\ Past(j) = frames[j + 1] /\ First(j)' = First(j)
    BY <1>1, <1>2 DEF Past, First
  <2>2. frames[j + 1] \in Nat /\ frames[j + 1] <= First(frame_top)
        /\ First(frame_top) \in Nat
    BY <1>2, StackShape, MarkInTable
  <2>3. \A n \in Entries : n < Past(j) => locals'[n] = locals[n]
    BY <2>1, <2>2 DEF Entries
  <2>4. FrameRefs(j)' = {locals'[n] : n \in {m \in Entries : First(j) <= m /\ m < Past(j)}}
    BY <2>1 DEF FrameRefs
  <2> QED
    BY <2>3, <2>4 DEF FrameRefs
<1>3. \A m \in 1..(frame_top + 1) :
        FrameRefs(m - 1)' = IF m = frame_top + 1 THEN S ELSE FrameRefs(m - 1)
  <2> SUFFICES ASSUME NEW m \in 1..(frame_top + 1)
               PROVE  FrameRefs(m - 1)' = IF m = frame_top + 1 THEN S ELSE FrameRefs(m - 1)
    OBVIOUS
  <2>1. m - 1 \in 0..frame_top /\ (m = frame_top + 1 <=> m - 1 = frame_top)
    BY StackShape
  <2>2. CASE m - 1 = frame_top
    <3>1. FrameRefs(m - 1)' = FrameRefs(frame_top)'
      BY <1>1, <2>2
    <3> QED
      BY <2>1, <2>2, <3>1
  <2> QED
    BY <1>2, <2>1, <2>2
<1>4. Stack' = [m \in 1..(frame_top + 1) |-> FrameRefs(m - 1)']
  BY <1>1 DEF Stack
<1> QED
  BY <1>3, <1>4, StackShape DEF Stack

(* New: into the innermost frame, or nowhere if the table is full. *)
LEMMA NewMaps ==
  ASSUME IInv, IInv', NEW r \in Refs, NewLocal(r)
  PROVE  JNI!New(r) \/ JNI!NewUnregistered(r)
<1>1. /\ r \notin Alive /\ Alive' = Alive \cup {r}
      /\ UNCHANGED <<frames, depth, globals, depth - frame_top>>
  BY DEF NewLocal, IInv, TypeOK, Alive, frame_top
<1>2. CASE locals_top < MAX_LOCALS
  <2>1. /\ locals' = [locals EXCEPT ![locals_top] = r]
        /\ locals_top' = locals_top + 1 /\ locals_top \in Entries
    BY <1>2, RefsAssumption DEF NewLocal, RegLocal, Entries, IInv, TypeOK
  <2>2. \A n \in Entries : n < locals_top => locals'[n] = locals[n]
    BY <2>1 DEF IInv, TypeOK, Entries
  <2>3. First(frame_top) <= locals_top /\ First(frame_top) \in Nat
    BY MarkInTable
  <2>4. FrameRefs(frame_top)' = FrameRefs(frame_top) \cup {r}
    <3>1. /\ Past(frame_top)' = locals_top + 1 /\ Past(frame_top) = locals_top
          /\ First(frame_top)' = First(frame_top)
      BY <1>1, <2>1 DEF Past, First, frame_top
    <3>2. locals'[locals_top] = r
      BY <2>1 DEF IInv, TypeOK
    <3>3. FrameRefs(frame_top)' =
            {locals'[n] : n \in {m \in Entries : First(frame_top) <= m /\ m < locals_top + 1}}
      BY <3>1 DEF FrameRefs
    <3>4. \A n \in Entries : n < locals_top + 1 <=> n < locals_top \/ n = locals_top
      BY <2>1 DEF Entries
    <3>5. FrameRefs(frame_top) =
            {locals[n] : n \in {m \in Entries : First(frame_top) <= m /\ m < locals_top}}
      BY <3>1 DEF FrameRefs
    <3> QED
      BY <2>1, <2>2, <2>3, <3>2, <3>3, <3>4, <3>5
  <2>5. \A n \in Entries : n < First(frame_top) => locals'[n] = locals[n]
    BY <2>2, <2>3 DEF Entries, IInv, TypeOK
  <2>6. Stack' = [Stack EXCEPT ![Len(Stack)] = FrameRefs(frame_top) \cup {r}]
    BY <1>1, <2>4, <2>5, TopChanges
  <2>7. JNI!New(r)
    BY <1>1, <2>6, StackShape DEF JNI!New, JNI!SetTop, Stack, Alive
  <2> QED
    BY <2>7
<1>3. CASE ~(locals_top < MAX_LOCALS)
  <2>1. UNCHANGED <<locals, locals_top>>
    BY <1>3 DEF NewLocal, RegLocal
  <2>2. Stack' = Stack
    BY <1>1, <2>1 DEF Stack, FrameRefs, First, Past, frame_top
  <2>3. JNI!NewUnregistered(r)
    BY <1>1, <2>2 DEF JNI!NewUnregistered, Stack, Alive
  <2> QED
    BY <2>3
<1> QED
  BY <1>2, <1>3

(* Filling the hole takes r, and r alone, out of the innermost frame. *)
LEMMA RemovalMaps ==
  ASSUME IInv, IInv', ~OuterRefs, NEW r \in Refs, MayUse(r),
         Remove(LastHolding(r)), UNCHANGED frames
  PROVE  /\ r \in FrameRefs(frame_top)
         /\ Stack' = [Stack EXCEPT ![Len(Stack)] = FrameRefs(frame_top) \ {r}]
<1> DEFINE n == LastHolding(r)
           last == locals_top - 1
<1>1. n \in Live /\ locals[n] = r /\ First(frame_top) <= n
  BY Named
<1>2. locals' = [locals EXCEPT ![n] = locals[last]] /\ locals_top' = last
  BY DEF Remove
<1> HIDE DEF n
<1>3. /\ n \in Entries /\ n <= last /\ last \in Entries /\ locals_top \in Nat
      /\ First(frame_top) \in Nat
  BY <1>1, RefsAssumption, MarkInTable DEF Live, Entries, IInv, TypeOK
<1>4. r \in FrameRefs(frame_top)
  BY DEF MayUse
<1>5. \A m \in Entries : m < First(frame_top) => locals'[m] = locals[m]
  BY <1>1, <1>2, <1>3 DEF Entries, IInv, TypeOK
<1>6. /\ Past(frame_top)' = last /\ Past(frame_top) = locals_top
      /\ First(frame_top)' = First(frame_top)
  BY <1>2 DEF Past, First, frame_top
<1>7. \A m \in Entries : m < locals_top /\ m # n => locals[m] # r
  BY <1>1 DEF IInv, HeapInv, Live
<1>8. FrameRefs(frame_top)' = FrameRefs(frame_top) \ {r}
  <2>1. FrameRefs(frame_top)' =
          {locals'[m] : m \in {k \in Entries : First(frame_top) <= k /\ k < last}}
    BY <1>6 DEF FrameRefs
  <2>2. FrameRefs(frame_top) =
          {locals[m] : m \in {k \in Entries : First(frame_top) <= k /\ k < locals_top}}
    BY <1>6 DEF FrameRefs
  <2>3. \A m \in Entries : locals'[m] = IF m = n THEN locals[last] ELSE locals[m]
    BY <1>2, <1>3 DEF IInv, TypeOK
  <2>4. ASSUME NEW m \in Entries, First(frame_top) <= m, m < last
        PROVE  /\ locals'[m] # r
               /\ \E k \in Entries : /\ First(frame_top) <= k /\ k < locals_top
                                     /\ locals'[m] = locals[k]
    <3>1. m < locals_top /\ last < locals_top /\ First(frame_top) <= last
      BY <1>3, <2>4 DEF Entries
    <3>2. CASE m = n
      <4>1. last # n
        BY <1>3, <2>4, <3>2
      <4> QED
        BY <1>3, <1>7, <2>3, <3>1, <3>2, <4>1
    <3>3. CASE m # n
      BY <1>7, <2>3, <2>4, <3>1, <3>3
    <3> QED
      BY <3>2, <3>3
  <2>5. ASSUME NEW k \in Entries, First(frame_top) <= k, k < locals_top, locals[k] # r
        PROVE  \E m \in Entries : /\ First(frame_top) <= m /\ m < last
                                  /\ locals'[m] = locals[k]
    <3>1. k # n
      BY <1>1, <2>5
    <3>2. CASE k = last
      <4>1. n < last
        BY <1>3, <3>1, <3>2 DEF Entries
      <4> QED
        BY <1>1, <1>3, <2>3, <3>2, <4>1
    <3>3. CASE k # last
      <4>1. k < last
        BY <1>3, <2>5, <3>3 DEF Entries
      <4> QED
        BY <2>3, <2>5, <3>1, <4>1
    <3> QED
      BY <3>2, <3>3
  <2>6. FrameRefs(frame_top)' \subseteq FrameRefs(frame_top) \ {r}
    BY <2>1, <2>2, <2>4
  <2>7. FrameRefs(frame_top) \ {r} \subseteq FrameRefs(frame_top)'
    BY <2>1, <2>2, <2>5
  <2> QED
    BY <2>6, <2>7
<1>9. Stack' = [Stack EXCEPT ![Len(Stack)] = FrameRefs(frame_top) \ {r}]
  BY <1>5, <1>8, TopChanges
<1> QED
  BY <1>4, <1>9

(* Delete and Promote. *)
LEMMA RemoveMaps ==
  ASSUME IInv, IInv', ~OuterRefs, NEW r \in Refs, DeleteLocalRef(r) \/ NewGlobalRef(r)
  PROVE  JNI!Delete(r) \/ JNI!Promote(r)
<1>1. /\ MayUse(r) /\ Remove(LastHolding(r))
      /\ UNCHANGED <<frames, depth, depth - frame_top>>
  BY DEF DeleteLocalRef, NewGlobalRef, frame_top
<1>2. /\ r \in FrameRefs(frame_top)
      /\ Stack' = [Stack EXCEPT ![Len(Stack)] = FrameRefs(frame_top) \ {r}]
  BY <1>1, RemovalMaps
<1>3. CASE DeleteLocalRef(r)
  <2>1. LastHolding(r) \in Live /\ locals[LastHolding(r)] = r
    BY <1>1, Named
  <2>2. mem' = [q \in Refs |-> IF q = r THEN "free" ELSE mem[q]]
    <3>1. FreeAt({LastHolding(r)}) /\ {LastHolding(r)} \in SUBSET Live
      BY <1>3, <2>1 DEF DeleteLocalRef
    <3>2. mem' = [q \in Refs |-> IF \E m \in {LastHolding(r)} : locals[m] = q
                                 THEN "free" ELSE mem[q]]
      BY <3>1, FreeLive
    <3> QED
      BY <2>1, <3>2
  <2>3. Alive' = Alive \ {r} /\ UNCHANGED globals
    BY <1>3, <2>2 DEF Alive, DeleteLocalRef, IInv, TypeOK
  <2>4. JNI!Delete(r)
    BY <1>1, <1>2, <2>3, StackShape DEF JNI!Delete, JNI!SetTop, Stack, Alive
  <2> QED
    BY <2>4
<1>4. CASE NewGlobalRef(r)
  <2>1. globals' = globals \cup {r} /\ UNCHANGED mem
    BY <1>4 DEF NewGlobalRef
  <2>2. JNI!Promote(r)
    BY <1>1, <1>2, <2>1, StackShape DEF JNI!Promote, JNI!SetTop, Stack, Alive
  <2> QED
    BY <2>2
<1> QED
  BY <1>3, <1>4

(* DeleteGlobal. *)
LEMMA DeleteGlobalMaps ==
  ASSUME IInv, NEW r \in Refs, DeleteGlobalRef(r)
  PROVE  JNI!DeleteGlobal(r)
<1>1. /\ r \in globals /\ globals' = globals \ {r}
      /\ mem' = [mem EXCEPT ![r] = "free"]
      /\ UNCHANGED <<locals, locals_top, frames, depth, depth - frame_top>>
  BY DEF DeleteGlobalRef, IInv, HeapInv, frame_top
<1>2. Stack' = Stack
  BY <1>1 DEF Stack, FrameRefs, First, Past, frame_top
<1>3. Alive' = Alive \ {r}
  BY <1>1 DEF Alive, IInv, TypeOK
<1> QED
  BY <1>1, <1>2, <1>3 DEF JNI!DeleteGlobal, Stack, Alive

(* Push: an empty frame on top, or a lost one. *)
LEMMA PushMaps ==
  ASSUME IInv, IInv', PushLocalFrame
  PROVE  JNI!Push \/ JNI!PushLost
<1>1. /\ depth' = depth + 1
      /\ UNCHANGED <<mem, locals, locals_top, globals>> /\ Alive' = Alive
  BY DEF PushLocalFrame, Alive
<1>2. CASE frame_top < MAX_FRAMES
  <2>1. frames' = Append(frames, locals_top) /\ locals_top \in 0..MAX_LOCALS
    BY <1>2 DEF PushLocalFrame, IInv, TypeOK
  <2>2. /\ frame_top' = frame_top + 1 /\ frame_top \in Nat
        /\ \A i \in 1..frame_top : frames'[i] = frames[i]
        /\ frames'[frame_top + 1] = locals_top
    BY <2>1 DEF IInv, TypeOK, frame_top
  <2>3. \A j \in 0..frame_top : FrameRefs(j)' = FrameRefs(j)
    <3> SUFFICES ASSUME NEW j \in 0..frame_top PROVE FrameRefs(j)' = FrameRefs(j)
      OBVIOUS
    <3>1. First(j)' = First(j) /\ Past(j)' = Past(j)
      BY <1>1, <2>2 DEF First, Past
    <3> QED
      BY <1>1, <3>1 DEF FrameRefs
  <2>4. \A j \in Nat : j = frame_top + 1 => FrameRefs(j)' = {}
    <3> SUFFICES ASSUME NEW j \in Nat, j = frame_top + 1 PROVE FrameRefs(j)' = {}
      OBVIOUS
    <3>1. First(j)' = locals_top /\ Past(j)' = locals_top
      BY <1>1, <2>2 DEF First, Past
    <3> QED
      BY <2>1, <3>1, RefsAssumption DEF FrameRefs, Entries
  <2>5. Stack' = Append(Stack, {})
    <3>1. /\ Stack \in Seq(SUBSET Refs) /\ Len(Stack) = frame_top + 1
          /\ \A m \in 1..(frame_top + 1) : Stack[m] = FrameRefs(m - 1)
      BY StackShape
    <3>2. Stack' = [m \in 1..(frame_top + 2) |-> FrameRefs(m - 1)']
      <4>1. frame_top' + 1 = frame_top + 2
        BY <2>2
      <4> QED
        BY <4>1 DEF Stack
    <3>3. \A m \in 1..(frame_top + 1) : Stack'[m] = Stack[m]
      BY <2>2, <2>3, <3>1, <3>2
    <3>4. Stack'[frame_top + 2] = {}
      BY <2>2, <2>4, <3>2
    <3>5. /\ Append(Stack, {}) \in [1..(frame_top + 2) -> SUBSET Refs]
          /\ \A m \in 1..(frame_top + 1) : Append(Stack, {})[m] = Stack[m]
          /\ Append(Stack, {})[frame_top + 2] = {}
      <4>1. {} \in SUBSET Refs /\ Len(Stack) \in Nat /\ Stack \in Seq(SUBSET Refs)
        BY <3>1
      <4>2. /\ Append(Stack, {}) \in Seq(SUBSET Refs)
            /\ Len(Append(Stack, {})) = Len(Stack) + 1
            /\ Append(Stack, {})[Len(Stack) + 1] = {}
            /\ \A m \in 1..Len(Stack) : Append(Stack, {})[m] = Stack[m]
        BY <4>1, AppendProperties
      <4>3. Len(Stack) + 1 = frame_top + 2
        BY <2>2, <3>1
      <4>4. /\ \A m \in 1..(frame_top + 1) : Append(Stack, {})[m] = Stack[m]
            /\ Append(Stack, {})[frame_top + 2] = {}
        BY <3>1, <4>2, <4>3
      <4>5. Append(Stack, {}) \in [1..(frame_top + 2) -> SUBSET Refs]
        <5>1. Len(Append(Stack, {})) = frame_top + 2
          BY <4>2, <4>3
        <5>2. Append(Stack, {}) \in [1..Len(Append(Stack, {})) -> SUBSET Refs]
          BY <4>2, LenProperties
        <5> QED
          BY <5>1, <5>2
      <4> QED
        BY <4>4, <4>5
    <3>6. \A m \in 1..(frame_top + 2) : Stack'[m] = Append(Stack, {})[m]
      <4>1. \A m \in 1..(frame_top + 2) : m \in 1..(frame_top + 1) \/ m = frame_top + 2
        BY <2>2
      <4> QED
        BY <3>3, <3>4, <3>5, <4>1
    <3> QED
      BY <3>2, <3>5, <3>6
  <2>6. depth' - frame_top' = depth - frame_top
    BY <1>1, <2>2 DEF IInv, TypeOK
  <2>7. JNI!Push
    BY <1>1, <2>5, <2>6 DEF JNI!Push, Stack, Alive
  <2> QED
    BY <2>7
<1>3. CASE ~(frame_top < MAX_FRAMES)
  <2>1. UNCHANGED frames
    BY <1>3 DEF PushLocalFrame
  <2>2. Stack' = Stack
    BY <1>1, <2>1 DEF Stack, FrameRefs, First, Past, frame_top
  <2>3. depth' - frame_top' = (depth - frame_top) + 1
    BY <1>1, <2>1, StackShape DEF frame_top, IInv, TypeOK
  <2>4. JNI!PushLost
    BY <1>1, <2>2, <2>3 DEF JNI!PushLost, Stack, Alive
  <2> QED
    BY <2>4
<1> QED
  BY <1>2, <1>3

(* What a pop frees and what it keeps. *)
LEMMA PopContents ==
  ASSUME IInv, ~OuterRefs, NEW result \in Refs \cup {NULL}, PopLocalFrame(result)
  PROVE  LET kept == FrameRefs(frame_top) \cap {result}
             mark == First(frame_top)
         IN  /\ result \in FrameRefs(frame_top) \cup {NULL}
             /\ Alive' = Alive \ (FrameRefs(frame_top) \ {result})
             /\ locals_top' = mark + (IF kept = {} THEN 0 ELSE 1)
             /\ \A n \in Entries : n < mark => locals'[n] = locals[n]
             /\ kept # {} => /\ mark \in Entries /\ locals'[mark] = result
                             /\ kept = {result}
<1> DEFINE mark == First(frame_top)
           Tops == FrameRefs(frame_top)
           keep == result # NULL /\ mark < MAX_LOCALS
           gone == {n \in Live : n >= mark /\ locals[n] # result}
<1>1. /\ result = NULL \/ MayUse(result)
      /\ FreeAt(gone)
      /\ locals_top' = mark + (IF keep THEN 1 ELSE 0)
      /\ locals' = IF keep THEN [locals EXCEPT ![mark] = result] ELSE locals
  BY DEF PopLocalFrame
<1>2. mark \in 0..MAX_LOCALS /\ mark <= locals_top /\ locals_top \in 0..MAX_LOCALS
  BY MarkInTable DEF IInv, TypeOK
<1>3. Tops = {locals[n] : n \in {m \in Live : m >= mark}}
  <2>1. Past(frame_top) = locals_top
    BY DEF Past
  <2>2. \A m \in Entries : mark <= m /\ m < locals_top <=> m \in Live /\ m >= mark
    BY <1>2, RefsAssumption DEF Live, Entries
  <2> QED
    BY <2>1, <2>2 DEF FrameRefs, Live
<1>4. NULL \notin Tops
  BY <1>3, RefsAssumption DEF IInv, HeapInv
<1>5. result \in Tops \cup {NULL}
  BY <1>1 DEF MayUse
<1>6. mem' = [r \in Refs |-> IF \E n \in gone : locals[n] = r THEN "free" ELSE mem[r]]
  <2>1. gone \in SUBSET Live
    OBVIOUS
  <2> QED
    BY <1>1, <2>1, FreeLive
<1>7. result \in Tops => mark \in Entries /\ mark < MAX_LOCALS
  BY <1>2, <1>3, RefsAssumption DEF Live, Entries
<1> HIDE DEF mark, Tops
<1>8. \A r \in Refs : (\E n \in gone : locals[n] = r) <=> r \in Tops \ {result}
  BY <1>3
<1>9. Alive' = Alive \ (Tops \ {result})
  <2> HIDE DEF gone
  <2>1. \A r \in Refs : mem'[r] = IF r \in Tops \ {result} THEN "free" ELSE mem[r]
    BY <1>6, <1>8
  <2> QED
    BY <2>1 DEF Alive
<1>10. keep <=> Tops \cap {result} # {}
  BY <1>4, <1>5, <1>7
<1>11. /\ locals_top' = mark + (IF Tops \cap {result} = {} THEN 0 ELSE 1)
       /\ \A n \in Entries : n < mark => locals'[n] = locals[n]
  <2> HIDE DEF gone
  <2>1. \A n \in Entries : n < mark => n # mark
    BY <1>2 DEF Entries
  <2>2. locals_top' = mark + (IF Tops \cap {result} = {} THEN 0 ELSE 1)
    BY <1>1, <1>10
  <2> QED
    BY <1>1, <2>1, <2>2 DEF IInv, TypeOK
<1>12. Tops \cap {result} # {} =>
         mark \in Entries /\ locals'[mark] = result /\ Tops \cap {result} = {result}
  BY <1>1, <1>7, <1>10 DEF IInv, TypeOK
<1> QED
  BY <1>5, <1>9, <1>11, <1>12 DEF mark, Tops

(* Pop, and PopBase without a mark. *)
LEMMA PopMaps ==
  ASSUME IInv, ~OuterRefs, NEW result \in Refs \cup {NULL}, PopLocalFrame(result)
  PROVE  JNI!Pop(result) \/ JNI!PopBase(result)
<1> DEFINE kept == FrameRefs(frame_top) \cap {result}
           mark == First(frame_top)
<1>1. /\ result \in FrameRefs(frame_top) \cup {NULL}
      /\ Alive' = Alive \ (FrameRefs(frame_top) \ {result})
      /\ locals_top' = mark + (IF kept = {} THEN 0 ELSE 1)
      /\ \A n \in Entries : n < mark => locals'[n] = locals[n]
      /\ kept # {} => mark \in Entries /\ locals'[mark] = result /\ kept = {result}
  BY PopContents
<1>2. /\ depth > 0 /\ depth' = depth - 1 /\ UNCHANGED globals
      /\ frames' = IF frame_top > 0 THEN SubSeq(frames, 1, frame_top - 1) ELSE frames
      /\ depth \in Nat /\ frame_top \in Nat
  BY StackShape DEF PopLocalFrame, IInv, TypeOK
<1>3. mark \in Nat /\ mark <= MAX_LOCALS
  BY MarkInTable, RefsAssumption
<1> HIDE DEF mark, kept
<1>4. ASSUME NEW first \in Nat, first <= mark
      PROVE  {locals'[n] : n \in {m \in Entries : first <= m /\ m < locals_top'}}
               = {locals[n] : n \in {m \in Entries : first <= m /\ m < mark}} \cup kept
  <2>1. CASE kept = {}
    <3>1. locals_top' = mark
      BY <1>1, <1>3, <2>1
    <3> QED
      BY <1>1, <2>1, <3>1
  <2>2. CASE kept # {}
    <3>1. locals_top' = mark + 1 /\ mark \in Entries /\ locals'[mark] = result
          /\ kept = {result}
      BY <1>1, <2>2
    <3>2. \A m \in Entries : m < mark + 1 <=> m < mark \/ m = mark
      BY <1>3 DEF Entries
    <3> QED
      BY <1>1, <1>4, <3>1, <3>2
  <2> QED
    BY <2>1, <2>2
<1>5. CASE frame_top > 0
  <2>1. /\ frames' = SubSeq(frames, 1, frame_top - 1)
        /\ frames \in Seq(0..MAX_LOCALS) /\ Len(frames) = frame_top
    BY <1>2, <1>5 DEF IInv, TypeOK, frame_top
  <2>2. /\ frame_top' = frame_top - 1
        /\ \A i \in 1..(frame_top - 1) : frames'[i] = frames[i]
    <3>1. /\ Len(frames') = frame_top - 1
          /\ \A i \in 1..(frame_top - 1) : frames'[i] = frames[i]
      BY <1>2, <1>5, <2>1
    <3> QED
      BY <3>1 DEF frame_top
  <2>3. /\ \A i \in 1..frame_top : frames[i] \in Nat /\ frames[i] <= mark
        /\ mark = frames[frame_top]
    BY <1>5, MarkInTable, StackShape, RefsAssumption DEF mark, First
  <2>4. \A j \in 0..(frame_top - 1) :
          FrameRefs(j)' = FrameRefs(j) \cup (IF j = frame_top - 1 THEN kept ELSE {})
    <3> SUFFICES ASSUME NEW j \in 0..(frame_top - 1)
                 PROVE  FrameRefs(j)' = FrameRefs(j) \cup
                          (IF j = frame_top - 1 THEN kept ELSE {})
      OBVIOUS
    <3>1. First(j)' = First(j) /\ First(j) \in Nat /\ First(j) <= mark
      BY <1>2, <1>3, <2>2, <2>3 DEF First
    <3>2. Past(j) = frames[j + 1] /\ frames[j + 1] <= mark /\ frames[j + 1] \in Nat
      BY <1>2, <2>3 DEF Past
    <3>3. CASE j = frame_top - 1
      <4>1. Past(j)' = locals_top' /\ Past(j) = mark
        BY <1>2, <2>2, <2>3, <3>2, <3>3 DEF Past
      <4>2. /\ FrameRefs(j)' =
                 {locals'[n] : n \in {m \in Entries : First(j) <= m /\ m < locals_top'}}
            /\ FrameRefs(j) =
                 {locals[n] : n \in {m \in Entries : First(j) <= m /\ m < mark}}
        BY <3>1, <4>1 DEF FrameRefs
      <4> QED
        BY <1>4, <3>1, <3>3, <4>2
    <3>4. CASE j # frame_top - 1
      <4>1. Past(j)' = frames[j + 1]
        BY <1>2, <2>2, <3>4 DEF Past
      <4>2. FrameRefs(j)' =
              {locals'[n] : n \in {m \in Entries : First(j) <= m /\ m < frames[j + 1]}}
        BY <3>1, <4>1 DEF FrameRefs
      <4>3. \A n \in Entries : n < frames[j + 1] => locals'[n] = locals[n]
        BY <1>1, <1>3, <3>2 DEF Entries
      <4> QED
        BY <3>2, <3>4, <4>2, <4>3 DEF FrameRefs
    <3> QED
      BY <3>3, <3>4
  <2>5. Stack' = [m \in 1..frame_top |-> FrameRefs(m - 1)']
    <3>1. frame_top' + 1 = frame_top
      BY <1>2, <2>2
    <3> QED
      BY <3>1 DEF Stack
  <2>6. Stack' = [m \in 1..frame_top |->
                    IF m = frame_top THEN Stack[m] \cup kept ELSE Stack[m]]
    <3>1. \A m \in 1..frame_top : FrameRefs(m - 1)' =
            IF m = frame_top THEN Stack[m] \cup kept ELSE Stack[m]
      <4> SUFFICES ASSUME NEW m \in 1..frame_top
                   PROVE  FrameRefs(m - 1)' =
                            IF m = frame_top THEN Stack[m] \cup kept ELSE Stack[m]
        OBVIOUS
      <4>1. m - 1 \in 0..(frame_top - 1) /\ (m - 1 = frame_top - 1 <=> m = frame_top)
            /\ Stack[m] = FrameRefs(m - 1)
        BY <1>2, StackShape
      <4> QED
        BY <2>4, <4>1
    <3> QED
      BY <2>5, <3>1
  <2>7. depth' - frame_top' = depth - frame_top
    BY <1>2, <2>2
  <2>8. Len(Stack) > 1 /\ Len(Stack) - 1 = frame_top /\ JNI!Top = FrameRefs(frame_top)
    BY <1>2, <1>5, StackShape
  <2>9. JNI!Pop(result)
    BY <1>1, <1>2, <2>6, <2>7, <2>8 DEF JNI!Pop, Stack, Alive, kept
  <2> QED
    BY <2>9
<1>6. CASE frame_top = 0
  <2>1. UNCHANGED frames /\ frame_top' = 0
    BY <1>2, <1>6 DEF frame_top
  <2>2. mark = 0
    BY <1>6 DEF mark, First
  <2>3. FrameRefs(0)' = kept
    <3>1. First(0)' = 0 /\ Past(0)' = locals_top'
      BY <2>1 DEF First, Past
    <3>2. FrameRefs(0)' =
            {locals'[n] : n \in {m \in Entries : 0 <= m /\ m < locals_top'}}
      BY <3>1 DEF FrameRefs
    <3>3. {locals[n] : n \in {m \in Entries : 0 <= m /\ m < mark}} = {}
      BY <2>2, RefsAssumption DEF Entries
    <3> QED
      BY <1>4, <2>2, <3>2, <3>3
  <2>4. Stack' = <<kept>>
    <3>1. Stack' = [m \in 1..1 |-> FrameRefs(m - 1)']
      BY <2>1 DEF Stack
    <3>2. \A m \in 1..1 : FrameRefs(m - 1)' = kept
      BY <2>3
    <3> QED
      BY <3>1, <3>2
  <2>5. depth' - frame_top' = (depth - frame_top) - 1 /\ depth - frame_top > 0
    BY <1>2, <1>6, <2>1
  <2>6. Len(Stack) = 1 /\ JNI!Top = FrameRefs(frame_top)
    BY <1>6, StackShape
  <2>7. JNI!PopBase(result)
    BY <1>1, <1>2, <2>4, <2>5, <2>6 DEF JNI!PopBase, Stack, Alive, kept
  <2> QED
    BY <2>7
<1> QED
  BY <1>2, <1>5, <1>6

(* Every step of the table is a step of the frames. *)
LEMMA StepMaps ==
  ASSUME ~OuterRefs, IInv, IInv', [Next]_vars
  PROVE  [JNI!Next]_JNI!vars
<1>1. CASE Next
  <2>1. ASSUME NEW r \in Refs, NewLocal(r) PROVE JNI!Next
    BY <2>1, NewMaps DEF JNI!Next
  <2>2. ASSUME NEW r \in Refs, DeleteLocalRef(r) \/ NewGlobalRef(r) PROVE JNI!Next
    BY <2>2, RemoveMaps DEF JNI!Next
  <2>3. ASSUME NEW r \in Refs, DeleteGlobalRef(r) PROVE JNI!Next
    BY <2>3, DeleteGlobalMaps DEF JNI!Next
  <2>4. CASE PushLocalFrame
    BY <2>4, PushMaps DEF JNI!Next
  <2>5. ASSUME NEW result \in Refs \cup {NULL}, PopLocalFrame(result) PROVE JNI!Next
    BY <2>5, PopMaps DEF JNI!Next
  <2> QED
    BY <1>1, <2>1, <2>2, <2>3, <2>4, <2>5 DEF Next
<1>2. CASE UNCHANGED vars
  <2>1. Stack' = Stack /\ Alive' = Alive /\ UNCHANGED <<depth - frame_top, globals>>
    BY <1>2 DEF vars, Stack, Alive, FrameRefs, First, Past, frame_top
  <2> QED
    BY <2>1 DEF JNI!vars, Stack, Alive
<1> QED
  BY <1>1, <1>2

(***************************************************************************)
(* The table implements JNI's frames, for any number of addresses, entries,*)
(* marks and nested frames: a pop frees what its frame holds but the       *)
(* result, a delete or a promotion takes one reference out of it.          *)
(***************************************************************************)
THEOREM FramesImplemented == ~OuterRefs /\ Spec => ImplementsJniFrames
<1>1. Init => JNI!Init
  <2> SUFFICES ASSUME Init PROVE JNI!Init
    OBVIOUS
  <2>1. FrameRefs(0) = {} /\ frame_top = 0
    BY RefsAssumption DEF Init, FrameRefs, First, Past, Entries, frame_top
  <2>2. [m \in 1..(frame_top + 1) |-> FrameRefs(m - 1)] = <<{}>>
    BY <2>1
  <2> QED
    BY <2>1, <2>2 DEF Init, JNI!Init
<1>2. CASE OuterRefs
  BY <1>2
<1>3. CASE ~OuterRefs
  <2>1. IInv /\ IInv' /\ [Next]_vars => [JNI!Next]_JNI!vars
    BY <1>3, StepMaps
  <2> QED
    BY <1>1, <1>3, <2>1, Invariance, PTL DEF Spec, ImplementsJniFrames, JNI!Spec
<1> QED
  BY <1>2, <1>3

----------------------------------------------------------------------------
(* Every method asked for has an entry of its own, unless the pool was     *)
(* full before it came.                                                    *)
EntriesKept ==
    \A m \in Asked :
        /\ cached[m] \in 1..Len(id_pool)
        /\ Misses(m) => Len(id_pool) = MAX_IDS /\ EntriesOf(m) = {} /\ cached[m] = 1

(* While the methods fit, the pool holds no more than one entry for each   *)
(* of them.                                                                *)
PoolInv ==
    /\ UpcallsTypeOK
    /\ EntriesKept
    /\ Fits => /\ Len(id_pool) <= Cardinality(Asked)
               /\ \A m \in Asked : cached[m] <= Len(id_pool) /\ id_pool[cached[m]] = m
               /\ g_kbd_result = entered

(* No method is asked for at first. *)
LEMMA InitPool == UpcallsInit => PoolInv
<1> SUFFICES ASSUME UpcallsInit PROVE PoolInv
  OBVIOUS
<1> USE UpcallsAssumption DEF UpcallsInit
<1>1. UpcallsTypeOK
  BY DEF UpcallsTypeOK
<1>2. Asked = {}
  BY DEF Asked
<1>3. Cardinality(Asked) = 0
  BY <1>2, FS_EmptySet
<1> QED
  BY <1>1, <1>2, <1>3 DEF PoolInv, EntriesKept

(* get_id keeps the entries of the methods asked for before.               *)
LEMMA LookUpKeeps ==
  ASSUME UpcallsTypeOK, EntriesKept, NEW m \in Methods, GetMethodID(m)
  PROVE  EntriesKept'
<1> USE UpcallsAssumption
<1>1. PICK id \in 1..MAX_IDS : GetId(m, id) /\ cached' = [cached EXCEPT ![m] = id]
  BY DEF GetMethodID
<1>2. /\ id_pool \in Seq({Stored(n) : n \in Methods}) /\ Len(id_pool) \in Nat
      /\ cached \in [Methods -> 0..MAX_IDS] /\ Asked \subseteq Methods
  BY DEF UpcallsTypeOK, Asked
<1>3. /\ cached'[m] = id
      /\ \A n \in Asked' \ {m} : n \in Asked /\ cached'[n] = cached[n]
      /\ m \in Asked'
  BY <1>1, <1>2 DEF Asked
<1>4. CASE id \in EntriesOf(m) /\ UNCHANGED id_pool
  <2>1. id \in 1..Len(id_pool) /\ id_pool[id] = m
    BY <1>4 DEF EntriesOf
  <2>2. PICK n \in Methods : m = Stored(n)
    BY <1>2, <2>1
  <2>3. Stored(m) = m
    BY <2>2 DEF Stored, Kept
  <2> QED
    BY <1>3, <1>4, <2>1, <2>3 DEF EntriesKept, Misses, EntriesOf, Stored, Kept
<1>5. CASE EntriesOf(m) = {} /\ Len(id_pool) = MAX_IDS /\ id = 1 /\ UNCHANGED id_pool
  BY <1>2, <1>3, <1>5 DEF EntriesKept, Misses, EntriesOf, Stored, Kept
<1>6. CASE /\ Len(id_pool) < MAX_IDS /\ id = Len(id_pool) + 1
           /\ id_pool' = Append(id_pool, Stored(m))
  <2>1. /\ Len(id_pool') = Len(id_pool) + 1 /\ id_pool'[id] = Stored(m)
        /\ \A i \in 1..Len(id_pool) : id_pool'[i] = id_pool[i]
    BY <1>2, <1>6
  <2>2. \A n \in Asked : cached[n] \in 1..Len(id_pool) /\ id_pool[cached[n]] = Stored(n)
    BY <1>2, <1>6 DEF EntriesKept, Misses
  <2>3. \A n \in Asked' : /\ cached'[n] \in 1..Len(id_pool')
                          /\ id_pool'[cached'[n]] = Stored(n)
    <3> SUFFICES ASSUME NEW n \in Asked'
                 PROVE  /\ cached'[n] \in 1..Len(id_pool')
                        /\ id_pool'[cached'[n]] = Stored(n)
      OBVIOUS
    <3>1. CASE n = m
      BY <1>2, <1>3, <1>6, <2>1, <3>1
    <3>2. CASE n # m
      BY <1>2, <1>3, <2>1, <2>2, <3>2
    <3> QED
      BY <3>1, <3>2
  <2> QED
    BY <2>3 DEF EntriesKept, Misses, Stored, Kept
<1> QED
  BY <1>1, <1>4, <1>5, <1>6 DEF GetId

(* get_id answers an entry that holds the method, if it fits. *)
LEMMA LookUpStep ==
  ASSUME PoolInv, NEW m \in Methods, GetMethodID(m)
  PROVE  PoolInv'
<1> USE UpcallsAssumption
<1>1. PICK id \in 1..MAX_IDS : GetId(m, id) /\ cached' = [cached EXCEPT ![m] = id]
  BY DEF GetMethodID
<1>2. UNCHANGED <<g_kbd_result, entered>>
  BY DEF GetMethodID
<1>3. /\ id_pool \in Seq({Stored(n) : n \in Methods}) /\ Len(id_pool) <= MAX_IDS
      /\ cached \in [Methods -> 0..MAX_IDS]
      /\ Len(id_pool) \in Nat
  BY DEF PoolInv, UpcallsTypeOK
<1>4. Asked' = Asked \cup {m} /\ Asked \subseteq Methods
  BY <1>1, <1>3 DEF Asked
<1>5. IsFiniteSet(Asked) /\ IsFiniteSet(Asked')
  <2>1. Asked' \subseteq Methods
    BY <1>4
  <2> QED
    BY <1>4, <2>1, FS_Subset
<1>6. /\ Cardinality(Asked) \in Nat
      /\ m \in Asked => Cardinality(Asked') = Cardinality(Asked)
      /\ m \notin Asked => Cardinality(Asked') = Cardinality(Asked) + 1
  <2>1. Cardinality(Asked) \in Nat
    BY <1>5, FS_CardinalityType
  <2>2. ASSUME m \in Asked PROVE Asked' = Asked
    BY <1>4, <2>2
  <2> QED
    BY <1>4, <1>5, <2>1, <2>2, FS_AddElement
<1>7. id_pool' \in Seq({Stored(n) : n \in Methods}) /\ Len(id_pool') <= MAX_IDS
  <2>1. CASE UNCHANGED id_pool
    BY <1>3, <2>1
  <2>2. CASE /\ Len(id_pool) < MAX_IDS
             /\ id_pool' = Append(id_pool, Stored(m))
    BY <1>3, <2>2
  <2> QED
    BY <1>1, <2>1, <2>2 DEF GetId
<1>8. UpcallsTypeOK'
  <2>1. cached' \in [Methods -> 0..MAX_IDS]
    BY <1>1, <1>3
  <2> QED
    BY <1>2, <1>7, <2>1 DEF PoolInv, UpcallsTypeOK
<1>9. ASSUME Fits'
      PROVE  /\ Len(id_pool') <= Cardinality(Asked')
             /\ \A n \in Asked' : cached'[n] <= Len(id_pool') /\ id_pool'[cached'[n]] = n
             /\ g_kbd_result' = entered'
  <2>1. Fits /\ Stored(m) = m /\ Cardinality(Asked') <= MAX_IDS
    <3>1. \A n \in Asked' : Stored(n) = n
      BY <1>9 DEF Fits, Stored, Kept
    <3>2. Cardinality(Asked') <= MAX_IDS
      BY <1>9 DEF Fits
    <3> QED
      BY <1>4, <1>6, <3>1, <3>2 DEF Fits
  <2>2. /\ Len(id_pool) <= Cardinality(Asked)
        /\ \A n \in Asked : cached[n] <= Len(id_pool) /\ id_pool[cached[n]] = n
        /\ g_kbd_result = entered
    BY <2>1 DEF PoolInv
  <2>3. \A n \in Asked : cached[n] \in 1..Len(id_pool) /\ id_pool[cached[n]] = n
    BY <1>3, <1>4, <2>2 DEF Asked
  <2>4. m \in Asked => EntriesOf(m) # {}
    BY <2>3 DEF EntriesOf
  <2>5. \A n \in Asked' \ {m} : cached'[n] = cached[n] /\ n \in Asked
    BY <1>1, <1>3, <1>4
  <2>6. cached'[m] = id
    BY <1>1, <1>3
  <2>7. CASE /\ id \in EntriesOf(m) /\ UNCHANGED id_pool
    <3>1. id \in 1..Len(id_pool) /\ id_pool[id] = m
      BY <2>7 DEF EntriesOf
    <3>2. \A n \in Asked' : cached'[n] <= Len(id_pool) /\ id_pool[cached'[n]] = n
      BY <1>3, <2>3, <2>5, <2>6, <3>1
    <3>3. Len(id_pool) <= Cardinality(Asked')
      BY <1>3, <1>6, <2>2
    <3> QED
      BY <1>2, <2>2, <2>7, <3>2, <3>3
  <2>8. CASE EntriesOf(m) = {}
    <3>1. m \notin Asked /\ Cardinality(Asked') = Cardinality(Asked) + 1
      BY <1>6, <2>4, <2>8
    <3>2. Len(id_pool) < MAX_IDS
      BY <1>3, <1>6, <2>1, <2>2, <3>1
    <3>3. id_pool' = Append(id_pool, m) /\ id = Len(id_pool) + 1
      <4>1. id \notin EntriesOf(m)
        BY <2>8
      <4>2. ~(Len(id_pool) = MAX_IDS)
        BY <1>3, <3>2
      <4> QED
        BY <1>1, <2>1, <4>1, <4>2 DEF GetId
    <3>4. /\ Len(id_pool') = Len(id_pool) + 1
          /\ id_pool'[Len(id_pool) + 1] = m
          /\ \A i \in 1..Len(id_pool) : id_pool'[i] = id_pool[i]
      BY <1>3, <3>3
    <3>5. \A n \in Asked' : cached'[n] <= Len(id_pool') /\ id_pool'[cached'[n]] = n
      <4> SUFFICES ASSUME NEW n \in Asked'
                   PROVE  cached'[n] <= Len(id_pool') /\ id_pool'[cached'[n]] = n
        OBVIOUS
      <4>1. CASE n = m
        BY <1>3, <2>6, <3>3, <3>4, <4>1
      <4>2. CASE n # m
        BY <1>3, <2>3, <2>5, <3>4, <4>2
      <4> QED
        BY <4>1, <4>2
    <3>6. Len(id_pool') <= Cardinality(Asked')
      BY <1>3, <1>6, <2>2, <3>1, <3>4
    <3> QED
      BY <1>2, <2>2, <3>5, <3>6
  <2> QED
    BY <1>1, <2>7, <2>8 DEF GetId
<1>10. EntriesKept'
  BY LookUpKeeps DEF PoolInv
<1> QED
  BY <1>8, <1>9, <1>10 DEF PoolInv

(* A call of an int method, the dialog among them. *)
LEMMA IntStep ==
  ASSUME PoolInv, NEW m \in Methods, NEW answer \in Texts \cup {EMPTY},
         CallIntMethod(m, answer)
  PROVE  PoolInv'
<1>1. /\ m \in Asked
      /\ IF Reached(m) = DIALOG THEN g_kbd_result' = answer ELSE UNCHANGED g_kbd_result
      /\ entered' = IF m[1] = DIALOG THEN answer ELSE entered
      /\ UNCHANGED <<id_pool, cached>>
  BY DEF CallIntMethod, ViewDialog
<1>2. Asked' = Asked /\ Fits' = Fits
  BY <1>1 DEF Asked, Fits, Stored, Kept
<1>3. UpcallsTypeOK'
  BY <1>1 DEF PoolInv, UpcallsTypeOK, Stored, Kept
<1>4. ASSUME Fits PROVE g_kbd_result' = entered'
  <2>1. Reached(m) = m[1] /\ g_kbd_result = entered
    BY <1>1, <1>4 DEF PoolInv, Reached
  <2> QED
    BY <1>1, <2>1
<1>5. EntriesKept'
  BY <1>1, <1>2 DEF PoolInv, EntriesKept, Misses, EntriesOf, Stored, Kept
<1> QED
  BY <1>1, <1>2, <1>3, <1>4, <1>5 DEF PoolInv

(* The other steps leave the pool and the keyboard's answer alone. *)
LEMMA PoolKept ==
  ASSUME PoolInv, UNCHANGED upcallVars
  PROVE  PoolInv'
BY DEF PoolInv, EntriesKept, Misses, EntriesOf, UpcallsTypeOK, upcallVars, Fits,
       Asked, Stored, Kept

(* The invariant of the pool holds throughout. *)
LEMMA PoolInvariance == UpcallsSpec => []PoolInv
<1>1. PoolInv /\ [UpcallsNext]_<<vars, upcallVars>> => PoolInv'
  <2> SUFFICES ASSUME PoolInv, [UpcallsNext]_<<vars, upcallVars>> PROVE PoolInv'
    OBVIOUS
  <2>1. ASSUME NEW m \in Methods, NEW r \in Refs, CallObjectMethod(m, r)
        PROVE  PoolInv'
    BY <2>1, PoolKept DEF CallObjectMethod
  <2>2. CASE UNCHANGED <<vars, upcallVars>>
    BY <2>2, PoolKept
  <2> QED
    BY <2>1, <2>2, LookUpStep, IntStep, PoolKept DEF UpcallsNext
<1> QED
  BY <1>1, InitPool, PTL DEF UpcallsSpec

(***************************************************************************)
(* Identifiers name the methods they were asked for and the dialog's       *)
(* answer is the last one, for any methods, pool and order of lookups, as  *)
(* long as the methods fit; and beyond that no method with an entry of its *)
(* own is missed.                                                          *)
(***************************************************************************)
THEOREM MethodsReached == UpcallsSpec => []CallsReach
<1>1. PoolInv => CallsReach
  BY DEF PoolInv, CallsReach, Reached, EntriesKept
<1> QED
  BY <1>1, PoolInvariance, PTL

(***************************************************************************)
(* Upcalls make local references as the engine's own calls do, and touch   *)
(* the table in no other way: what is proved of JniRefs holds among them.  *)
(***************************************************************************)
THEOREM TableUndisturbed == UpcallsSpec => Spec
<1>1. UpcallsInit => Init
  BY DEF UpcallsInit
<1>2. [UpcallsNext]_<<vars, upcallVars>> => [Next]_vars
  <2> SUFFICES ASSUME [UpcallsNext]_<<vars, upcallVars>> PROVE [Next]_vars
    OBVIOUS
  <2>1. ASSUME NEW m \in Methods, GetMethodID(m) PROVE UNCHANGED vars
    BY <2>1 DEF GetMethodID
  <2>2. ASSUME NEW m \in Methods, NEW answer \in Texts \cup {EMPTY},
               CallIntMethod(m, answer)
        PROVE  UNCHANGED vars
    BY <2>2 DEF CallIntMethod
  <2>3. ASSUME NEW m \in Methods, NEW r \in Refs, CallObjectMethod(m, r) PROVE Next
    BY <2>3 DEF CallObjectMethod, Next
  <2> QED
    BY <2>1, <2>2, <2>3 DEF UpcallsNext
<1> QED
  BY <1>1, <1>2, PTL DEF UpcallsSpec, Spec

=============================================================================
