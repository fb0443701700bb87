-------------------------- MODULE MC_JniOuterRefs --------------------------
(* JniRefs with four objects, a table of three entries and two frames, for *)
(* an engine that handles references of outer frames too.  The depth each  *)
(* local reference belongs to is recorded.                                 *)
EXTENDS JniRefs, TLC

VARIABLE born

InitBorn == Init /\ born = [r \in Refs |-> 0]

NextBorn ==
    \/ \E r \in Refs : NewLocal(r) /\ born' = [born EXCEPT ![r] = depth]
    \/ \E r \in Refs :
         /\ DeleteLocalRef(r) \/ NewGlobalRef(r) \/ DeleteGlobalRef(r)
         /\ UNCHANGED born
    \/ PushLocalFrame /\ UNCHANGED born
    \/ \E result \in Refs \cup {NULL} :
         /\ PopLocalFrame(result)
         /\ born' = [r \in Refs |-> IF r = result THEN depth - 1 ELSE born[r]]

SpecBorn == InitBorn /\ [][NextBorn]_<<vars, born>>

AnyRef == Permutations(Refs)

(***************************************************************************)
(* jni_fake.c:53-55: the engine brackets JNI use with DeleteLocalRef and   *)
(* Push/PopLocalFrame, "which we honour so transient strings/arrays don't  *)
(* leak": no local reference outlives the frame it was made in.            *)
(***************************************************************************)
TransientsDontLeak ==
    \A n \in Live : born[locals[n]] <= depth

=============================================================================
