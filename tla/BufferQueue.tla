---------------------------- MODULE BufferQueue ----------------------------
(***************************************************************************)
(* What one OpenSL buffer-queue player promises the engine, with no ring,  *)
(* no threads and no samples: buffers are accepted, finished one by one in *)
(* the order they were accepted, and a Clear drops all that have not       *)
(* finished.  AudioMixer is shown to implement it.  The n-th accepted      *)
(* buffer is named n.                                                      *)
(***************************************************************************)
EXTENDS Naturals, Sequences

CONSTANT Capacity   \* buffers that can wait behind the one being played

VARIABLES
    issued,         \* how many buffers were accepted so far
    outstanding,    \* those neither finished nor dropped, oldest first
    finished        \* those whose completion was signalled, oldest first

vars == <<issued, outstanding, finished>>

TypeOK ==
    /\ issued \in Nat
    /\ outstanding \in Seq(1..issued)
    /\ finished \in Seq(1..issued)

Init ==
    /\ issued = 0
    /\ outstanding = <<>>
    /\ finished = <<>>

Accept ==
    /\ Len(outstanding) <= Capacity
    /\ issued' = issued + 1
    /\ outstanding' = Append(outstanding, issued + 1)
    /\ UNCHANGED finished

Finish ==
    /\ outstanding # <<>>
    /\ finished' = Append(finished, Head(outstanding))
    /\ outstanding' = Tail(outstanding)
    /\ UNCHANGED issued

Clear ==
    /\ outstanding' = <<>>
    /\ UNCHANGED <<issued, finished>>

Next == Accept \/ Finish \/ Clear

Spec == Init /\ [][Next]_vars

(***************************************************************************)
(* Completions are signalled in the order the buffers were accepted, and   *)
(* never twice for one buffer: the engine recycles a buffer's memory on    *)
(* its completion (opensles.c mix_player, bq_Enqueue).                     *)
(***************************************************************************)
FinishedInOrder ==
    \A i, j \in 1..Len(finished) : i < j => finished[i] < finished[j]

=============================================================================
