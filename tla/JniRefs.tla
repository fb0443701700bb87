------------------------------ MODULE JniRefs ------------------------------
(***************************************************************************)
(* The local reference registry of the fake JNI (jni_fake.c): an array of  *)
(* references, a stack of marks into it, and an object heap.  Each         *)
(* function runs under locals_lock and is one step.                        *)
(*                                                                         *)
(* The caller is the game engine.  OuterRefs says whether it deletes,      *)
(* promotes or returns references of frames other than the innermost.      *)
(***************************************************************************)
EXTENDS Naturals, Sequences, FiniteSets

CONSTANTS
    Refs,           \* object addresses, reused after a free
    NULL,
    MAX_LOCALS,     \* entries of the table (16384 in the code)
    MAX_FRAMES,     \* recorded frames (64 in the code)
    MaxDepth,       \* bound: how deep the engine nests frames
    OuterRefs

ASSUME RefsAssumption ==
    /\ NULL \notin Refs
    /\ MAX_LOCALS \in Nat \ {0} /\ MAX_FRAMES \in Nat \ {0}
    /\ MaxDepth \in Nat
    /\ OuterRefs \in BOOLEAN

Entries == 0..(MAX_LOCALS - 1)

VARIABLES
    mem,        \* per address: free, alive, or freed while not alive
    locals, locals_top,
    frames,     \* marks, innermost last; frame_top is its length
    depth,      \* observed: frames the engine has open
    globals     \* observed: references the engine promoted

vars == <<mem, locals, locals_top, frames, depth, globals>>

TypeOK ==
    /\ mem \in [Refs -> {"free", "alive", "corrupt"}]
    /\ locals \in [Entries -> Refs \cup {NULL}]
    /\ locals_top \in 0..MAX_LOCALS
    /\ frames \in Seq(0..MAX_LOCALS) /\ Len(frames) <= MAX_FRAMES
    /\ depth \in 0..MaxDepth
    /\ globals \subseteq Refs

Init ==
    /\ mem = [r \in Refs |-> "free"]
    /\ locals = [n \in Entries |-> NULL] /\ locals_top = 0
    /\ frames = <<>>
    /\ depth = 0 /\ globals = {}

----------------------------------------------------------------------------
frame_top == Len(frames)

Live == {n \in Entries : n < locals_top}
Holding(r) == {n \in Live : locals[n] = r}
Registered == {locals[n] : n \in Live}

(* The entries of the frame at level j, by the marks; level 0 is the base. *)
First(j) == IF j = 0 THEN 0 ELSE frames[j]
Past(j) == IF j = frame_top THEN locals_top ELSE frames[j + 1]
FrameRefs(j) == {locals[n] : n \in {m \in Entries : First(j) <= m /\ m < Past(j)}}

(* free_ref on the objects at these entries, each as often as it occurs.   *)
FreeAt(S) ==
    mem' = [r \in Refs |->
      LET times == Cardinality({n \in S : locals[n] = r})
      IN  IF times = 0 THEN mem[r]
          ELSE IF times = 1 /\ mem[r] = "alive" THEN "free" ELSE "corrupt"]

(* Bug: the last entry is lost and the hole keeps what was deleted. *)
RemoveLast(n) ==
    /\ UNCHANGED locals
    /\ locals_top' = locals_top - 1

(* Fill the hole at n with the last entry. *)
Remove(n) ==
    /\ locals' = [locals EXCEPT ![n] = locals[locals_top - 1]]
    /\ locals_top' = locals_top - 1

(* delete_local and j_NewGlobalRef search from the top of the table down. *)
LastHolding(r) == CHOOSE n \in Holding(r) : \A m \in Holding(r) : m <= n

(* What the engine may name in a call. *)
MayUse(r) ==
    r \in (IF OuterRefs THEN Registered ELSE FrameRefs(frame_top))

----------------------------------------------------------------------------
RegLocal(r) ==
    IF locals_top < MAX_LOCALS
    THEN /\ locals' = [locals EXCEPT ![locals_top] = r]
         /\ locals_top' = locals_top + 1
    ELSE UNCHANGED <<locals, locals_top>>       \* "table full, leaking"

(* NewStringUTF, New<Type>Array, NewObject...: allocate and reg_local.     *)
NewLocal(r) ==
    /\ mem[r] = "free"
    /\ mem' = [mem EXCEPT ![r] = "alive"]
    /\ RegLocal(r)
    /\ UNCHANGED <<frames, depth, globals>>

DeleteLocalRef(r) ==
    /\ MayUse(r)
    /\ Remove(LastHolding(r))
    /\ FreeAt({LastHolding(r)})
    /\ UNCHANGED <<frames, depth, globals>>

NewGlobalRef(r) ==
    /\ MayUse(r)
    /\ Remove(LastHolding(r))
    /\ globals' = globals \cup {r}
    /\ UNCHANGED <<mem, frames, depth>>

DeleteGlobalRef(r) ==
    /\ r \in globals
    /\ globals' = globals \ {r}
    /\ mem' = [mem EXCEPT ![r] = IF @ = "alive" THEN "free" ELSE "corrupt"]
    /\ UNCHANGED <<locals, locals_top, frames, depth>>

(* Bug: the mark is one entry too low. *)
PushLocalFrameBelow ==
    /\ depth < MaxDepth
    /\ depth' = depth + 1
    /\ frames' = IF frame_top < MAX_FRAMES /\ locals_top > 0
                 THEN Append(frames, locals_top - 1) ELSE frames
    /\ UNCHANGED <<mem, locals, locals_top, globals>>

(* A push beyond MAX_FRAMES succeeds but leaves no mark. *)
PushLocalFrame ==
    /\ depth < MaxDepth
    /\ depth' = depth + 1
    /\ frames' = IF frame_top < MAX_FRAMES THEN Append(frames, locals_top)
                                           ELSE frames
    /\ UNCHANGED <<mem, locals, locals_top, globals>>

PopLocalFrame(result) ==
    /\ depth > 0
    /\ result = NULL \/ MayUse(result)
    /\ depth' = depth - 1
    /\ frames' = IF frame_top > 0 THEN SubSeq(frames, 1, frame_top - 1)
                                  ELSE frames
    /\ LET mark == First(frame_top)
           keep == result # NULL /\ mark < MAX_LOCALS
       IN  /\ FreeAt({n \in Live : n >= mark /\ locals[n] # result})
           /\ locals_top' = mark + (IF keep THEN 1 ELSE 0)
           /\ locals' = IF keep THEN [locals EXCEPT ![mark] = result] ELSE locals
    /\ UNCHANGED globals

Next ==
    \/ \E r \in Refs :
         \/ NewLocal(r) \/ DeleteLocalRef(r)
         \/ NewGlobalRef(r) \/ DeleteGlobalRef(r)
    \/ PushLocalFrame
    \/ \E result \in Refs \cup {NULL} : PopLocalFrame(result)

Spec == Init /\ [][Next]_vars

----------------------------------------------------------------------------
(***************************************************************************)
(* Nothing is freed that is not allocated, however frames, deletes and     *)
(* promotions are mixed; and the table names each allocated object once,   *)
(* no global reference, and nothing freed, so that a later DeleteLocalRef  *)
(* or PopLocalFrame frees only what its caller owns.                       *)
(***************************************************************************)
TableSound ==
    /\ \A r \in Refs : mem[r] # "corrupt"
    /\ \A m, n \in Live : locals[m] = locals[n] => m = n
    /\ \A n \in Live : mem[locals[n]] = "alive" /\ locals[n] \notin globals
    /\ \A r \in globals : mem[r] = "alive"
    /\ \A j \in 0..frame_top : First(j) <= Past(j)

(***************************************************************************)
(* The registry implements JNI's frames: a pop frees the references of the *)
(* innermost frame, all of them and no others, as long as no more than     *)
(* MAX_FRAMES are open; beyond that, a pop takes an outer frame early.     *)
(***************************************************************************)
JNI == INSTANCE JniFrames WITH
    NoRef <- NULL,
    stack <- [m \in 1..(frame_top + 1) |-> FrameRefs(m - 1)],
    lost <- depth - frame_top,
    alive <- {r \in Refs : mem[r] = "alive"}

ImplementsJniFrames == JNI!Spec

=============================================================================
