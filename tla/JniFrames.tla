----------------------------- MODULE JniFrames -----------------------------
(***************************************************************************)
(* What JNI promises about local references, with no table: a stack of     *)
(* frames, each a set of references.  A reference lives until it is        *)
(* deleted, its frame is popped, or, once promoted, its global reference   *)
(* is deleted.  JniRefs is shown to implement it.                          *)
(*                                                                         *)
(* Two promises are weaker than JNI's, as the tables are bounded: a new    *)
(* object may be in no frame, and a push may add no frame.  The pops then  *)
(* take the frames from the innermost on, and the last of them the base.   *)
(***************************************************************************)
EXTENDS Naturals, Sequences

CONSTANTS Refs, NoRef

VARIABLES
    stack,      \* the frames, innermost last; stack[1] is the base frame
    lost,       \* pushes that added no frame
    globals,    \* promoted references
    alive       \* references whose object is allocated

vars == <<stack, lost, globals, alive>>

Top == stack[Len(stack)]

TypeOK ==
    /\ stack \in Seq(SUBSET Refs) /\ Len(stack) >= 1
    /\ lost \in Nat
    /\ globals \subseteq Refs
    /\ alive \subseteq Refs

Init == stack = <<{}>> /\ lost = 0 /\ globals = {} /\ alive = {}

SetTop(s) == stack' = [stack EXCEPT ![Len(stack)] = s]

New(r) ==
    /\ r \notin alive
    /\ alive' = alive \cup {r}
    /\ SetTop(Top \cup {r})
    /\ UNCHANGED <<lost, globals>>

(* The implementation may run out of entries: the object is then in no     *)
(* frame, and nothing ever frees it.                                       *)
NewUnregistered(r) ==
    /\ r \notin alive
    /\ alive' = alive \cup {r}
    /\ UNCHANGED <<stack, lost, globals>>

Delete(r) ==
    /\ r \in Top
    /\ SetTop(Top \ {r})
    /\ alive' = alive \ {r}
    /\ UNCHANGED <<lost, globals>>

Promote(r) ==
    /\ r \in Top
    /\ SetTop(Top \ {r})
    /\ globals' = globals \cup {r}
    /\ UNCHANGED <<lost, alive>>

DeleteGlobal(r) ==
    /\ r \in globals
    /\ globals' = globals \ {r}
    /\ alive' = alive \ {r}
    /\ UNCHANGED <<lost, stack>>

Push == stack' = Append(stack, {}) /\ UNCHANGED <<lost, globals, alive>>

PushLost == lost' = lost + 1 /\ UNCHANGED <<stack, globals, alive>>

(* The innermost frame goes with all its references but result, which      *)
(* becomes a reference of the frame below.                                 *)
Pop(result) ==
    /\ Len(stack) > 1
    /\ result \in Top \cup {NoRef}
    /\ LET n == Len(stack) - 1
           kept == Top \cap {result}
       IN  stack' = [m \in 1..n |->
                       IF m = n THEN stack[m] \cup kept ELSE stack[m]]
    /\ alive' = alive \ (Top \ {result})
    /\ UNCHANGED <<lost, globals>>

PopBase(result) ==
    /\ Len(stack) = 1 /\ lost > 0
    /\ result \in Top \cup {NoRef}
    /\ stack' = <<Top \cap {result}>>
    /\ lost' = lost - 1
    /\ alive' = alive \ (Top \ {result})
    /\ UNCHANGED globals

Next ==
    \/ \E r \in Refs :
         \/ New(r) \/ NewUnregistered(r) \/ Delete(r)
         \/ Promote(r) \/ DeleteGlobal(r)
    \/ Push \/ PushLost
    \/ \E result \in Refs \cup {NoRef} : Pop(result) \/ PopBase(result)

Spec == Init /\ [][Next]_vars

(***************************************************************************)
(* No dangling reference: whatever the engine may still use through a      *)
(* frame or a global reference is allocated, and belongs to one owner.     *)
(***************************************************************************)
Owned ==
    /\ \A m \in 1..Len(stack) : stack[m] \subseteq alive \ globals
    /\ globals \subseteq alive
    /\ \A m, n \in 1..Len(stack) : m # n => stack[m] \cap stack[n] = {}

=============================================================================
