----------------------------- MODULE AudioMixer -----------------------------
(***************************************************************************)
(* One OpenSL buffer-queue player (opensles.c): the SDL audio thread mixes *)
(* it frame by frame while engine threads, and the engine's completion     *)
(* callback running on the audio thread, enqueue, clear, start and stop.   *)
(*                                                                         *)
(* Each critical section under p->lock is one step, except Clear, whose    *)
(* stores the audio thread can observe half done because it reads cur      *)
(* without the lock.  The n-th accepted buffer is named n; a source sample *)
(* has the constant amplitude AMP, so that out shows what the mixer does   *)
(* to the level and nothing else.                                          *)
(***************************************************************************)
EXTENDS Naturals, Sequences, FiniteSets

CONSTANTS
    EngineThreads,  \* the game's threads that use the player
    BQ_SLOTS,       \* ring slots; one stays free (8 in the code)
    FB,             \* bytes per source frame: 4 in stereo, 2 in mono (fb)
    Sizes,          \* buffer sizes, in bytes: bq_Enqueue takes any
    Frames,         \* output frames per audio_callback (1024 in the code)
    FADE_LEN,       \* length of the underrun fade (256 in the code)
    STEP, ONE,      \* resampler step, in 1/ONE source frames (ONE is 65536)
    MaxBuffers,     \* bound: buffers the engine ever enqueues
    ClearWhileMixing\* may an engine thread call Clear inside mix_player?

Audio == "audio"        \* the SDL audio thread
NoThread == "none"
NoBuffer == 0           \* cur = NULL
Threads == EngineThreads \cup {Audio}
AMP == 2 * FADE_LEN

ASSUME MixerAssumption ==
    /\ BQ_SLOTS \in Nat /\ BQ_SLOTS >= 2
    /\ FB \in {2, 4}
    /\ Sizes \subseteq Nat
    /\ Frames \in Nat \ {0}
    /\ FADE_LEN \in Nat \ {0}
    /\ STEP \in Nat \ {0} /\ ONE \in Nat \ {0}
    /\ MaxBuffers \in Nat
    /\ ClearWhileMixing \in BOOLEAN
    /\ {Audio, NoThread} \cap EngineThreads = {}

Slots == 0..(BQ_SLOTS - 1)
Buffer == [data : 0..MaxBuffers, size : Sizes \cup {0}]
EmptySlot == [data |-> NoBuffer, size |-> 0]

VARIABLES
    q, q_head, q_tail,      \* the ring of waiting buffers
    cur, cur_size, cur_pos, \* the buffer being drained, and how far
    frac,                   \* resampler phase, in 1/ONE source frames
    playing,
    fade, last,             \* de-click ramp and the last level mixed
    lock,                   \* who holds p->lock between two steps
    pc, i, k,               \* mix_player: where, and its two loop counters
    popped,                 \* its local b: taken from the ring, not in cur yet
    out,                    \* observed: the level of the last output frame
    accepted,               \* observed: buffers accepted
    finished,               \* observed: buffers whose callback was called
    discarded               \* observed: buffers dropped by a Clear that returned

queueVars == <<q, q_head, q_tail>>
curVars == <<cur, cur_size, cur_pos, frac>>
levelVars == <<fade, last, out>>
mixVars == <<pc, i, k, popped>>
history == <<accepted, finished, discarded>>
vars == <<queueVars, curVars, playing, levelVars, lock, mixVars, history>>

TypeOK ==
    /\ q \in [Slots -> Buffer] /\ q_head \in Slots /\ q_tail \in Slots
    /\ cur \in 0..MaxBuffers /\ cur_size \in Sizes \cup {0} /\ cur_pos \in Nat
    /\ frac \in 0..(ONE - 1)
    /\ playing \in BOOLEAN
    /\ fade \in 0..FADE_LEN /\ last \in Nat /\ out \in Nat
    /\ lock \in Threads \cup {NoThread}
    /\ pc \in {"idle", "check", "callback", "pop", "load", "frame", "fadeout"}
    /\ i \in 0..Frames /\ k \in 0..Frames
    /\ popped \in Buffer
    /\ accepted \in 0..MaxBuffers
    /\ finished \in Seq(1..MaxBuffers)
    /\ discarded \subseteq 1..MaxBuffers

Init ==
    /\ q = [s \in Slots |-> EmptySlot] /\ q_head = 0 /\ q_tail = 0
    /\ cur = NoBuffer /\ cur_size = 0 /\ cur_pos = 0 /\ frac = 0
    /\ playing = FALSE
    /\ fade = FADE_LEN /\ last = 0 /\ out = 0
    /\ lock = NoThread
    /\ pc = "idle" /\ i = 0 /\ k = 0 /\ popped = EmptySlot
    /\ accepted = 0 /\ finished = <<>> /\ discarded = {}

----------------------------------------------------------------------------
(* The ring.                                                               *)

(* Bug: the index never wraps. *)
NextSlotUnwrapped(s) == s + 1

NextSlot(s) == (s + 1) % BQ_SLOTS

Queued == (q_tail + BQ_SLOTS - q_head) % BQ_SLOTS

(* Bug: the buffer being drained is not counted. *)
GetStateCountQueuedOnly == Queued

(* SLBufferQueueState.count, as bq_GetState reports it. *)
GetStateCount == Queued + (IF cur = NoBuffer THEN 0 ELSE 1)

Waiting == [n \in 1..Queued |-> q[(q_head + n - 1) % BQ_SLOTS].data]

----------------------------------------------------------------------------
(* The player's interface, called by a game thread at any time or by the   *)
(* completion callback while the audio thread is inside it.                *)

CanCall(t) ==
    /\ lock = NoThread
    /\ t = Audio => pc = "callback"

Enqueue(t) ==
    /\ CanCall(t)
    /\ accepted < MaxBuffers
    /\ NextSlot(q_tail) # q_head
    /\ \E size \in Sizes :
         q' = [q EXCEPT ![q_tail] = [data |-> accepted + 1, size |-> size]]
    /\ q_tail' = NextSlot(q_tail)
    /\ accepted' = accepted + 1
    /\ UNCHANGED <<q_head, curVars, playing, levelVars, lock, mixVars,
                   finished, discarded>>

SetPlayState(t) ==
    /\ CanCall(t)
    /\ playing' \in BOOLEAN
    /\ UNCHANGED <<queueVars, curVars, levelVars, lock, mixVars, history>>

(* Bug: Clear drops the current buffer but leaves the waiting ones. *)
ClearKeepsRing(t) ==
    /\ CanCall(t)
    /\ t # Audio /\ ~ClearWhileMixing => pc = "idle"
    /\ lock' = t
    /\ cur' = NoBuffer
    /\ UNCHANGED <<queueVars, cur_size, cur_pos, frac, playing, levelVars,
                   mixVars, history>>

(* First half of bq_Clear: lock, empty the ring, drop the current buffer. *)
ClearBegin(t) ==
    /\ CanCall(t)
    /\ t # Audio /\ ~ClearWhileMixing => pc = "idle"
    /\ lock' = t
    /\ q_head' = 0 /\ q_tail' = 0
    /\ cur' = NoBuffer
    /\ UNCHANGED <<q, cur_size, cur_pos, frac, playing, levelVars, mixVars,
                   history>>

(* Second half: reset the position, unlock and return. *)
ClearEnd(t) ==
    /\ lock = t
    /\ cur_pos' = 0 /\ cur_size' = 0 /\ frac' = 0
    /\ lock' = NoThread
    /\ discarded' = 1..accepted \ {finished[n] : n \in 1..Len(finished)}
    /\ UNCHANGED <<queueVars, cur, playing, levelVars, mixVars, accepted,
                   finished>>

----------------------------------------------------------------------------
(* mix_player, on the audio thread.                                        *)

(* Bug: a player with no current buffer is taken for a stopped one. *)
MixStartOnCurrent ==
    /\ pc = "idle"
    /\ pc' = IF playing /\ cur # NoBuffer THEN "check" ELSE "idle"
    /\ i' = 0 /\ k' = 0
    /\ UNCHANGED <<queueVars, curVars, playing, levelVars, lock, popped, history>>

MixStart ==
    /\ pc = "idle"
    /\ pc' = IF playing THEN "check" ELSE "idle"
    /\ out' = IF playing THEN out ELSE 0
    /\ i' = 0 /\ k' = 0
    /\ UNCHANGED <<queueVars, curVars, playing, fade, last, lock, popped,
                   history>>

(* Bug: the end of the buffer is taken for its last frame. *)
CheckMorePastEnd ==
    /\ pc = "check"
    /\ cur # NoBuffer /\ cur_pos <= cur_size
    /\ pc' = "frame"
    /\ UNCHANGED <<queueVars, curVars, playing, levelVars, lock, i, k, popped,
                   history>>

(* The loop head while the current buffer still has frames. *)
CheckMore ==
    /\ pc = "check"
    /\ cur # NoBuffer /\ cur_pos < cur_size
    /\ pc' = "frame"
    /\ UNCHANGED <<queueVars, curVars, playing, levelVars, lock, i, k, popped,
                   history>>

(* Bug: the engine is called back while cur still points to the buffer. *)
FinishBufferKeepsCur ==
    /\ pc = "check"
    /\ cur # NoBuffer /\ cur_pos >= cur_size
    /\ finished' = Append(finished, cur)
    /\ pc' = "callback"
    /\ UNCHANGED <<queueVars, curVars, playing, levelVars, lock, i, k, popped,
                   accepted, discarded>>

(* The current buffer is drained: drop it and call the engine back, with   *)
(* p->lock not held.                                                       *)
FinishBuffer ==
    /\ pc = "check"
    /\ cur # NoBuffer /\ cur_pos >= cur_size
    /\ cur' = NoBuffer
    /\ finished' = Append(finished, cur)
    /\ pc' = "callback"
    /\ UNCHANGED <<queueVars, cur_size, cur_pos, frac, playing, levelVars,
                   lock, i, k, popped, accepted, discarded>>

CallbackReturns ==
    /\ pc = "callback" /\ lock # Audio
    /\ pc' = "pop"
    /\ UNCHANGED <<queueVars, curVars, playing, levelVars, lock, i, k, popped,
                   history>>

NothingCurrent ==
    /\ pc = "check" /\ cur = NoBuffer
    /\ pc' = "pop"
    /\ UNCHANGED <<queueVars, curVars, playing, levelVars, lock, i, k, popped,
                   history>>

Pop ==
    /\ pc = "pop" /\ lock = NoThread
    /\ q_head # q_tail
    /\ popped' = q[q_head]
    /\ q_head' = NextSlot(q_head)
    /\ pc' = "load"
    /\ UNCHANGED <<q, q_tail, curVars, playing, levelVars, lock, i, k, history>>

Underrun ==
    /\ pc = "pop" /\ lock = NoThread
    /\ q_head = q_tail
    /\ fade' = 0
    /\ k' = 0
    /\ pc' = "fadeout"
    /\ UNCHANGED <<queueVars, curVars, playing, last, out, lock, i, popped,
                   history>>

Load ==
    /\ pc = "load"
    /\ cur' = popped.data /\ cur_size' = popped.size /\ cur_pos' = 0
    /\ popped' = EmptySlot
    /\ pc' = "frame"
    /\ UNCHANGED <<queueVars, frac, playing, levelVars, lock, i, k, history>>

(* One output frame: read the source, ramp, advance by STEP. *)
Frame ==
    /\ pc = "frame"
    /\ LET level == (AMP * fade) \div FADE_LEN
       IN  out' = level /\ last' = level
    /\ fade' = IF fade < FADE_LEN THEN fade + 1 ELSE fade
    /\ cur_pos' = cur_pos + ((frac + STEP) \div ONE) * FB
    /\ frac' = (frac + STEP) % ONE
    /\ i' = i + 1
    /\ pc' = IF i + 1 < Frames THEN "check" ELSE "idle"
    /\ UNCHANGED <<queueVars, cur, cur_size, playing, lock, k, popped, history>>

(* One output frame of the underrun loop, which runs to the end of the     *)
(* block and no further.                                                   *)
FadeOut ==
    /\ pc = "fadeout"
    /\ LET den == IF k < FADE_LEN THEN FADE_LEN - k ELSE 0
       IN  out' = (last * den) \div FADE_LEN
    /\ i' = i + 1 /\ k' = k + 1
    /\ IF i + 1 < Frames
       THEN pc' = "fadeout" /\ UNCHANGED last
       ELSE pc' = "idle" /\ last' = 0
    /\ UNCHANGED <<queueVars, curVars, playing, fade, lock, popped, history>>

MixStep ==
    \/ MixStart \/ CheckMore \/ FinishBuffer \/ CallbackReturns
    \/ NothingCurrent \/ Pop \/ Underrun \/ Load \/ Frame \/ FadeOut

Call(t) == Enqueue(t) \/ SetPlayState(t) \/ ClearBegin(t) \/ ClearEnd(t)

Next == MixStep \/ \E t \in Threads : Call(t)

(***************************************************************************)
(* SDL keeps calling the audio callback, the engine's callback returns,    *)
(* and a thread inside Clear gets to its end.  Nothing makes the engine    *)
(* call anything.                                                          *)
(***************************************************************************)
Spec == Init /\ [][Next]_vars

FairSpec ==
    /\ Spec
    /\ WF_vars(MixStep)
    /\ \A t \in Threads : WF_vars(ClearEnd(t))

----------------------------------------------------------------------------
(***************************************************************************)
(* The sample mix_player reads (s[0], s[1]) is one of a current buffer,    *)
(* never through NULL.  It starts before the buffer's end, except that the *)
(* first frame of a buffer of no bytes is read all the same; and it ends   *)
(* there too when the engine enqueued whole source frames.  bq_Enqueue     *)
(* checks neither, so the last frame of any other buffer runs over its end *)
(* by less than one frame.                                                 *)
(***************************************************************************)
WholeFrames(size) == size > 0 /\ size % FB = 0

ReadsInBounds ==
    pc = "frame" =>
        /\ cur # NoBuffer
        /\ cur_pos < cur_size \/ (cur_size = 0 /\ cur_pos = 0)
        /\ WholeFrames(cur_size) => cur_pos + FB <= cur_size

(***************************************************************************)
(* After Clear returned, the mixer never again reads or starts a buffer    *)
(* that Clear dropped: the engine may have freed it.                       *)
(***************************************************************************)
ClearedNeverRead ==
    /\ pc = "frame" => cur \notin discarded
    /\ pc = "load" => popped.data \notin discarded

(***************************************************************************)
(* The count GetState returns is the number of buffers the engine still    *)
(* has outstanding; it misses one only in the window between mix_player's  *)
(* pop under the lock and its unlocked store to cur.                       *)
(***************************************************************************)
CountIsOutstanding ==
    lock = NoThread =>
        GetStateCount + (IF pc = "load" THEN 1 ELSE 0)
          = Cardinality(1..accepted
              \ (discarded \cup {finished[n] : n \in 1..Len(finished)}))

(***************************************************************************)
(* The mixer implements the abstract queue: FIFO, one completion per       *)
(* buffer, nothing survives Clear, at most BQ_SLOTS - 1 waiting.           *)
(***************************************************************************)
Outstanding ==
    (IF cur = NoBuffer THEN <<>> ELSE <<cur>>)
      \o (IF pc = "load" THEN <<popped.data>> ELSE <<>>)
      \o Waiting

Queue == INSTANCE BufferQueue WITH
    Capacity <- BQ_SLOTS - 1, issued <- accepted, outstanding <- Outstanding

ImplementsBufferQueue == Queue!Spec

(***************************************************************************)
(* While the player is left playing, every accepted buffer is eventually   *)
(* completed by the callback or dropped by a Clear.                        *)
(***************************************************************************)
EveryBufferEnds ==
    <>[]playing =>
        \A b \in 1..MaxBuffers :
            [](b <= accepted =>
                 <>(b \in discarded \/ \E n \in 1..Len(finished) : finished[n] = b))

(***************************************************************************)
(* opensles.c:237-239: "cur/cur_pos are touched only by this (audio)       *)
(* thread, so they need no lock".  If that were so, cur would still be     *)
(* what mix_player found or stored when it comes to read through it.       *)
(***************************************************************************)
CurNeedsNoLock == pc = "frame" => cur # NoBuffer

(***************************************************************************)
(* opensles.c:272: an underrun fades out "over FADE_LEN instead of         *)
(* cutting": between two frames of an underrun the level never drops by    *)
(* more than one fade step.                                                *)
(***************************************************************************)
UnderrunNeverCuts ==
    [][pc = "fadeout" => out <= out' + AMP \div FADE_LEN]_vars

=============================================================================
