------------------------- MODULE AudioMixer_proofs -------------------------
(***************************************************************************)
(* Proofs about AudioMixer, for every ring size, block length, resampling  *)
(* step and number of game threads: if no game thread clears the player    *)
(* while mix_player is in it, the mixer never reads outside a current      *)
(* buffer, never touches a buffer a Clear has dropped, and with its ring   *)
(* is the queue of BufferQueue, whose length GetState reports.             *)
(***************************************************************************)
EXTENDS AudioMixer, FiniteSetTheorems, SequenceTheorems, TLAPS

(* Slot s holds a waiting buffer. *)
InRing(s) ==
    IF q_head <= q_tail THEN q_head <= s /\ s < q_tail
                        ELSE q_head <= s \/ s < q_tail

(* A buffer the engine handed over and has not got back. *)
Owned(b) == b \in 1..accepted /\ b \notin discarded

RingInv ==
    \A s \in Slots : InRing(s) => Owned(q[s].data) /\ q[s].size \in Sizes

(* Between mix_player's steps, cur and b say where the buffer is.          *)
CurInv ==
    /\ cur # NoBuffer => Owned(cur)
    /\ pc \in {"callback", "pop", "load", "fadeout"} => cur = NoBuffer
    /\ pc = "load" => Owned(popped.data) /\ popped.size \in Sizes

(* Clear is only ever half done where mix_player cannot notice.            *)
ClearInv ==
    lock # NoThread =>
        /\ cur = NoBuffer
        /\ q_head = q_tail
        /\ IF lock = Audio THEN pc = "callback"
                           ELSE pc \in {"idle", "check", "pop"}

(* mix_player moves through a buffer in whole source frames.               *)
FrameStart(pos) == pos % FB = 0

LoopInv ==
    /\ k <= i
    /\ pc # "idle" => i < Frames
    /\ FrameStart(cur_pos)

IInv ==
    /\ TypeOK /\ RingInv /\ CurInv /\ ClearInv /\ LoopInv
    /\ discarded \subseteq 1..accepted
    /\ ReadsInBounds

----------------------------------------------------------------------------
(* Arithmetic of the ring and of the resampler.                            *)

(* The ring index wraps to 0 and stays in the ring.                      *)
LEMMA NextSlotValue ==
  ASSUME NEW s \in Slots
  PROVE  /\ NextSlot(s) = IF s + 1 = BQ_SLOTS THEN 0 ELSE s + 1
         /\ NextSlot(s) \in Slots
  BY MixerAssumption DEF NextSlot, Slots

(* Quotient and remainder of the resampler's step.                       *)
LEMMA DivNat ==
  ASSUME NEW x \in Nat, NEW y \in Nat \ {0}
  PROVE  x \div y \in Nat /\ x % y \in 0..(y - 1)
  OBVIOUS

(* Products of naturals, for the resampler's position.                   *)
LEMMA ProductNat ==
  ASSUME NEW x \in Nat, NEW y \in Nat
  PROVE  x * y \in Nat
  OBVIOUS

(* The first frame of a buffer starts at 0, and each step moves on by whole *)
(* frames.                                                                 *)
LEMMA FrameStarts ==
  /\ FrameStart(0)
  /\ \A pos, n \in Nat : FrameStart(pos) =>
       pos + n * FB \in Nat /\ FrameStart(pos + n * FB)
<1>1. CASE FB = 2
  BY <1>1 DEF FrameStart
<1>2. CASE FB = 4
  BY <1>2 DEF FrameStart
<1> QED BY <1>1, <1>2, MixerAssumption

(* A frame that starts inside a buffer of whole frames ends inside it.     *)
LEMMA FrameFits ==
  ASSUME NEW pos \in Nat, NEW size \in Nat, FrameStart(pos), WholeFrames(size),
         pos < size
  PROVE  pos + FB <= size
<1>1. CASE FB = 2
  BY <1>1 DEF FrameStart, WholeFrames
<1>2. CASE FB = 4
  BY <1>2 DEF FrameStart, WholeFrames
<1> QED BY <1>1, <1>2, MixerAssumption

(* An idle player with an empty ring satisfies the invariant.            *)
LEMMA InitIInv == Init => IInv
<1> SUFFICES ASSUME Init PROVE IInv
  OBVIOUS
<1> USE MixerAssumption DEF Init, NoBuffer, NoThread
<1>1. TypeOK
  <2>1. /\ q \in [Slots -> Buffer] /\ q_head \in Slots /\ q_tail \in Slots
        /\ popped \in Buffer
    BY DEF Slots, Buffer, EmptySlot
  <2>2. /\ cur \in 0..MaxBuffers /\ cur_size \in Sizes \cup {0} /\ cur_pos \in Nat
        /\ fade \in 0..FADE_LEN /\ last \in Nat /\ out \in Nat
        /\ i \in 0..Frames /\ k \in 0..Frames /\ accepted \in 0..MaxBuffers
    OBVIOUS
  <2>4. frac \in 0..(ONE - 1)
    OBVIOUS
  <2>5. playing \in BOOLEAN
    OBVIOUS
  <2>3. /\ lock \in Threads \cup {NoThread}
        /\ finished \in Seq(1..MaxBuffers) /\ discarded \subseteq 1..MaxBuffers
    OBVIOUS
  <2> QED BY <2>1, <2>2, <2>3, <2>4, <2>5 DEF TypeOK
<1>2. RingInv
  BY DEF RingInv, InRing, Slots
<1>3. CurInv /\ ClearInv /\ LoopInv
  BY FrameStarts DEF CurInv, ClearInv, LoopInv
<1>4. discarded \subseteq 1..accepted /\ ReadsInBounds
  BY DEF ReadsInBounds
<1> QED BY <1>1, <1>2, <1>3, <1>4 DEF IInv

----------------------------------------------------------------------------
(* The player's interface.                                                 *)

(* An accepted buffer adds its own slot to the ring, no other.           *)
LEMMA RingAfterEnqueue ==
  ASSUME q_head \in Slots, q_tail \in Slots, NextSlot(q_tail) # q_head,
         q_head' = q_head, q_tail' = NextSlot(q_tail), NEW s \in Slots
  PROVE  InRing(s)' <=> InRing(s) \/ s = q_tail
  BY NextSlotValue, MixerAssumption DEF InRing, Slots

(* bq_Enqueue writes outside the part of the ring in use.                *)
LEMMA EnqueueStep ==
  ASSUME IInv, NEW t \in Threads, Enqueue(t)
  PROVE  IInv'
<1> USE MixerAssumption DEF IInv
<1>1. PICK size \in Sizes :
        q' = [q EXCEPT ![q_tail] = [data |-> accepted + 1, size |-> size]]
  BY DEF Enqueue
<1>2. /\ q_tail' = NextSlot(q_tail) /\ q_tail' \in Slots
      /\ accepted' = accepted + 1 /\ accepted < MaxBuffers
      /\ NextSlot(q_tail) # q_head /\ lock = NoThread
      /\ UNCHANGED <<q_head, cur, cur_size, cur_pos, frac, playing, fade, last,
                     out, lock, pc, i, k, popped, finished, discarded>>
  BY NextSlotValue
  DEF Enqueue, CanCall, TypeOK, curVars, levelVars, mixVars
<1>3. accepted \in Nat /\ accepted' \in 0..MaxBuffers /\ accepted' # 0
  BY <1>2 DEF TypeOK
<1>4. q' \in [Slots -> Buffer]
  BY <1>1, <1>2, <1>3 DEF TypeOK, Buffer
<1>5. TypeOK'
  BY <1>2, <1>3, <1>4 DEF TypeOK
<1>6. \A b : Owned(b) => Owned(b)'
  BY <1>2, <1>3 DEF Owned
<1>7. \A b : b = accepted + 1 => Owned(b)'
  BY <1>2, <1>3 DEF Owned
<1>8. RingInv'
  <2> SUFFICES ASSUME NEW s \in Slots, InRing(s)'
               PROVE  Owned(q[s].data)' /\ q'[s].size \in Sizes
    BY DEF RingInv
  <2>1. InRing(s) \/ s = q_tail
    BY <1>2, RingAfterEnqueue DEF TypeOK
  <2>2. CASE s = q_tail
    <3>1. q'[s] = [data |-> accepted + 1, size |-> size]
      BY <1>1, <2>2 DEF TypeOK
    <3> QED BY <3>1, <1>7 DEF Owned
  <2>3. CASE s # q_tail
    <3>1. q'[s] = q[s] /\ InRing(s)
      BY <1>1, <2>1, <2>3 DEF TypeOK
    <3>2. Owned(q[s].data) /\ q[s].size \in Sizes
      BY <3>1 DEF RingInv
    <3> QED BY <3>1, <3>2, <1>6 DEF Owned
  <2> QED BY <2>2, <2>3
<1>9. CurInv' /\ ClearInv' /\ LoopInv' /\ ReadsInBounds'
  BY <1>2, <1>6 DEF CurInv, ClearInv, LoopInv, ReadsInBounds, Owned
<1>10. discarded' \subseteq 1..accepted'
  BY <1>2, <1>3
<1> QED BY <1>5, <1>8, <1>9, <1>10

(* play_SetPlayState changes no buffer.                                  *)
LEMMA SetPlayStateStep ==
  ASSUME IInv, NEW t \in Threads, SetPlayState(t)
  PROVE  IInv'
  BY DEF IInv, TypeOK, RingInv, CurInv, ClearInv, LoopInv, ReadsInBounds,
         InRing, Owned, SetPlayState, queueVars, curVars, levelVars, mixVars,
         history

(* The first half of bq_Clear empties the ring and drops cur.            *)
LEMMA ClearBeginStep ==
  ASSUME IInv, ~ClearWhileMixing, NEW t \in Threads, ClearBegin(t)
  PROVE  IInv'
<1> USE MixerAssumption DEF IInv
<1>1. /\ lock = NoThread /\ lock' = t
      /\ t = Audio => pc = "callback"
      /\ t # Audio => pc = "idle"
      /\ q_head' = 0 /\ q_tail' = 0 /\ cur' = NoBuffer
      /\ UNCHANGED <<q, cur_size, cur_pos, frac, playing, fade, last, out, pc,
                     i, k, popped, accepted, finished, discarded>>
  BY DEF ClearBegin, CanCall, levelVars, mixVars, history
<1>2. TypeOK'
  BY <1>1 DEF TypeOK, Slots, NoBuffer
<1>3. RingInv'
  BY <1>1 DEF RingInv, InRing, Slots
<1>4. CurInv' /\ ClearInv' /\ LoopInv' /\ ReadsInBounds'
  BY <1>1 DEF CurInv, ClearInv, LoopInv, ReadsInBounds, Owned
<1> QED BY <1>1, <1>2, <1>3, <1>4

(* The second half of bq_Clear resets what described cur.                *)
LEMMA ClearEndStep ==
  ASSUME IInv, NEW t \in Threads, ClearEnd(t)
  PROVE  IInv'
<1> USE MixerAssumption DEF IInv
<1>1. /\ lock = t /\ lock' = NoThread /\ lock # NoThread
      /\ cur_pos' = 0 /\ cur_size' = 0 /\ frac' = 0
      /\ discarded' = 1..accepted \ {finished[n] : n \in 1..Len(finished)}
      /\ UNCHANGED <<q, q_head, q_tail, cur, playing, fade, last, out, pc,
                     i, k, popped, accepted, finished>>
  BY DEF ClearEnd, queueVars, levelVars, mixVars, Threads, NoThread, Audio
<1>2. /\ cur = NoBuffer /\ q_head = q_tail
      /\ pc \in {"callback", "idle", "check", "pop"}
  BY <1>1 DEF ClearInv
<1>3. discarded' \subseteq 1..accepted' /\ discarded' \subseteq 1..MaxBuffers
  BY <1>1 DEF TypeOK
<1>4. TypeOK'
  BY <1>1, <1>3 DEF TypeOK
<1>5. RingInv'
  BY <1>1, <1>2 DEF RingInv, InRing, TypeOK, Slots
<1>6. CurInv' /\ ClearInv' /\ LoopInv' /\ ReadsInBounds'
  BY <1>1, <1>2, FrameStarts DEF CurInv, ClearInv, LoopInv, ReadsInBounds
<1> QED BY <1>3, <1>4, <1>5, <1>6

----------------------------------------------------------------------------
(* mix_player.                                                             *)

(* The steps that leave the ring, the current buffer and the history alone. *)
LEMMA ControlSteps ==
  ASSUME IInv,
         MixStart \/ CheckMore \/ CallbackReturns \/ NothingCurrent \/ Underrun
           \/ FadeOut
  PROVE  IInv'
<1> USE MixerAssumption DEF IInv
<1>1. UNCHANGED <<q, q_head, q_tail, cur, cur_size, cur_pos, frac, playing, lock,
                  popped, accepted, finished, discarded>>
  BY DEF MixStart, CheckMore, CallbackReturns, NothingCurrent, Underrun, FadeOut,
         queueVars, curVars, history
<1>2. RingInv' /\ discarded' \subseteq 1..accepted'
  BY <1>1 DEF RingInv, InRing, Owned
<1>3. CASE MixStart
  <2>1. /\ pc = "idle" /\ pc' \in {"idle", "check"}
        /\ i' = 0 /\ k' = 0 /\ out' \in {out, 0}
        /\ UNCHANGED <<fade, last>>
    BY <1>3 DEF MixStart
  <2>2. TypeOK'
    BY <1>1, <2>1 DEF TypeOK
  <2>3. CurInv' /\ ClearInv' /\ LoopInv' /\ ReadsInBounds'
    BY <1>1, <2>1 DEF CurInv, ClearInv, LoopInv, ReadsInBounds, Owned
  <2> QED BY <1>2, <2>2, <2>3
<1>4. CASE CheckMore \/ CallbackReturns \/ NothingCurrent
  <2>1. UNCHANGED <<i, k, fade, last, out>> /\ pc' \in {"frame", "pop"}
    BY <1>4 DEF CheckMore, CallbackReturns, NothingCurrent, levelVars
  <2>2. TypeOK'
    BY <1>1, <2>1 DEF TypeOK
  <2>3. CurInv' /\ LoopInv'
    BY <1>1, <1>4, <2>1
    DEF CheckMore, CallbackReturns, NothingCurrent, CurInv, LoopInv, Owned
  <2>4. ClearInv'
    BY <1>1, <1>4, <2>1
    DEF CheckMore, CallbackReturns, NothingCurrent, CurInv, ClearInv, Audio,
        NoThread
  <2>5. ReadsInBounds'
    <3>1. CASE pc' # "frame"
      BY <3>1 DEF ReadsInBounds
    <3>2. CASE pc' = "frame"
      <4>1. cur' # NoBuffer /\ cur_pos' < cur_size'
        BY <1>1, <1>4, <3>2 DEF CheckMore, CallbackReturns, NothingCurrent
      <4>2. cur_pos' \in Nat /\ cur_size' \in Nat /\ FrameStart(cur_pos')
        BY <1>1 DEF TypeOK, LoopInv
      <4>3. WholeFrames(cur_size') => cur_pos' + FB <= cur_size'
        BY <4>1, <4>2, FrameFits
      <4> QED BY <4>1, <4>3 DEF ReadsInBounds, WholeFrames
    <3> QED BY <3>1, <3>2
  <2> QED BY <1>2, <2>2, <2>3, <2>4, <2>5
<1>5. CASE Underrun
  <2>1. /\ lock = NoThread /\ pc = "pop" /\ pc' = "fadeout" /\ fade' = 0 /\ k' = 0
        /\ UNCHANGED <<i, last, out>>
    BY <1>5 DEF Underrun
  <2>2. TypeOK'
    BY <1>1, <2>1 DEF TypeOK
  <2>3. CurInv' /\ ClearInv' /\ LoopInv' /\ ReadsInBounds'
    BY <1>1, <2>1 DEF CurInv, ClearInv, LoopInv, ReadsInBounds, Owned, TypeOK
  <2> QED BY <1>2, <2>2, <2>3
<1>6. CASE FadeOut
  <2>1. /\ pc = "fadeout" /\ lock = NoThread /\ cur = NoBuffer
        /\ i' = i + 1 /\ k' = k + 1 /\ k <= i /\ i < Frames
        /\ pc' = IF i + 1 < Frames THEN "fadeout" ELSE "idle"
        /\ last' \in {last, 0}
        /\ UNCHANGED fade
    BY <1>6 DEF FadeOut, CurInv, ClearInv, LoopInv, TypeOK, Audio
  <2>2. out' \in Nat
    <3> DEFINE den == IF k < FADE_LEN THEN FADE_LEN - k ELSE 0
    <3>1. den \in Nat /\ last \in Nat
      BY DEF TypeOK
    <3>2. last * den \in Nat
      BY <3>1, ProductNat
    <3>3. out' = (last * den) \div FADE_LEN
      BY <1>6 DEF FadeOut
    <3> HIDE DEF den
    <3> QED BY <3>2, <3>3, DivNat
  <2>3. TypeOK'
    BY <1>1, <2>1, <2>2 DEF TypeOK
  <2>4. CurInv' /\ ClearInv' /\ LoopInv' /\ ReadsInBounds'
    BY <1>1, <2>1 DEF CurInv, ClearInv, LoopInv, ReadsInBounds, Owned, TypeOK
  <2> QED BY <1>2, <2>3, <2>4
<1> QED BY <1>3, <1>4, <1>5, <1>6

(* mix_player takes the current buffer off before the callback.          *)
LEMMA FinishStep ==
  ASSUME IInv, FinishBuffer
  PROVE  IInv'
<1> USE MixerAssumption DEF IInv
<1>1. /\ pc = "check" /\ pc' = "callback" /\ cur # NoBuffer /\ cur' = NoBuffer
      /\ lock = NoThread /\ finished' = Append(finished, cur)
      /\ UNCHANGED <<q, q_head, q_tail, cur_size, cur_pos, frac, playing, fade,
                     last, out, lock, i, k, popped, accepted, discarded>>
  BY DEF FinishBuffer, ClearInv, queueVars, levelVars
<1>2. finished' \in Seq(1..MaxBuffers)
  BY <1>1 DEF TypeOK, NoBuffer
<1>3. TypeOK'
  BY <1>1, <1>2 DEF TypeOK, NoBuffer
<1>4. RingInv' /\ CurInv' /\ ClearInv' /\ LoopInv' /\ ReadsInBounds'
  BY <1>1 DEF RingInv, InRing, Owned, CurInv, ClearInv, LoopInv, ReadsInBounds
<1> QED BY <1>1, <1>3, <1>4

(* The pop takes the oldest slot of the ring.                            *)
LEMMA PopStep ==
  ASSUME IInv, Pop
  PROVE  IInv'
<1> USE MixerAssumption DEF IInv
<1>1. /\ pc = "pop" /\ pc' = "load" /\ lock = NoThread /\ cur = NoBuffer
      /\ q_head # q_tail /\ q_head' = NextSlot(q_head) /\ popped' = q[q_head]
      /\ UNCHANGED <<q, q_tail, cur, cur_size, cur_pos, frac, playing, fade,
                     last, out, lock, i, k, accepted, finished, discarded>>
  BY DEF Pop, CurInv, curVars, levelVars, history
<1>2. q_head \in Slots /\ q_tail \in Slots /\ q_head' \in Slots
  BY <1>1, NextSlotValue DEF TypeOK
<1>3. InRing(q_head)
  BY <1>1, <1>2 DEF InRing, Slots
<1>4. Owned(popped'.data) /\ popped'.size \in Sizes /\ popped' \in Buffer
  BY <1>1, <1>2, <1>3 DEF RingInv, TypeOK
<1>5. \A s \in Slots : InRing(s)' => InRing(s)
  BY <1>1, <1>2, NextSlotValue DEF InRing, Slots
<1>6. TypeOK'
  BY <1>1, <1>2, <1>4 DEF TypeOK
<1>7. RingInv'
  BY <1>1, <1>5 DEF RingInv, Owned
<1>8. CurInv' /\ ClearInv' /\ LoopInv' /\ ReadsInBounds'
  BY <1>1, <1>4 DEF CurInv, ClearInv, LoopInv, ReadsInBounds, Owned
<1> QED BY <1>1, <1>6, <1>7, <1>8

(* The popped buffer becomes the current one.                            *)
LEMMA LoadStep ==
  ASSUME IInv, Load
  PROVE  IInv'
<1> USE MixerAssumption DEF IInv
<1>1. /\ pc = "load" /\ pc' = "frame" /\ lock = NoThread
      /\ cur' = popped.data /\ cur_size' = popped.size /\ cur_pos' = 0
      /\ popped' = EmptySlot
      /\ UNCHANGED <<q, q_head, q_tail, frac, playing, fade, last, out, lock,
                     i, k, accepted, finished, discarded>>
  BY DEF Load, ClearInv, Audio, queueVars, levelVars, history
<1>2. Owned(popped.data) /\ popped.size \in Sizes
  BY <1>1 DEF CurInv
<1>3. cur' \in 1..MaxBuffers /\ cur' # NoBuffer
  <2>1. accepted \in 0..MaxBuffers /\ cur' \in 1..accepted
    BY <1>1, <1>2 DEF Owned, TypeOK
  <2> QED BY <2>1 DEF NoBuffer
<1>7. cur_size' \in Nat /\ cur_pos' = 0
  BY <1>1, <1>2
<1>4. TypeOK'
  BY <1>1, <1>2, <1>3 DEF TypeOK, EmptySlot, Buffer, NoBuffer
<1>5. RingInv' /\ CurInv' /\ ClearInv' /\ LoopInv'
  BY <1>1, <1>2, FrameStarts DEF RingInv, InRing, Owned, CurInv, ClearInv, LoopInv
<1>6. ReadsInBounds'
  <2>1. WholeFrames(cur_size') => cur_pos' < cur_size'
    BY <1>7 DEF WholeFrames
  <2>2. WholeFrames(cur_size') => cur_pos' + FB <= cur_size'
    BY <1>7, <2>1, FrameFits, FrameStarts
  <2>3. cur_pos' < cur_size' \/ (cur_size' = 0 /\ cur_pos' = 0)
    BY <1>7
  <2> QED BY <1>3, <2>2, <2>3 DEF ReadsInBounds, WholeFrames
<1> QED BY <1>1, <1>4, <1>5, <1>6

(* One output frame reads within the current buffer.                     *)
LEMMA FrameStep ==
  ASSUME IInv, Frame
  PROVE  IInv'
<1> USE MixerAssumption DEF IInv
<1>1. /\ pc = "frame" /\ pc' \in {"check", "idle"} /\ lock = NoThread
      /\ pc' # "idle" => i + 1 < Frames
      /\ i' = i + 1 /\ i < Frames
      /\ fade' \in 0..FADE_LEN
      /\ UNCHANGED <<q, q_head, q_tail, cur, cur_size, playing, lock, k, popped,
                     accepted, finished, discarded>>
  BY DEF Frame, ClearInv, LoopInv, TypeOK, Audio, queueVars, history
<1>2. out' \in Nat /\ last' \in Nat
  <2>1. AMP \in Nat /\ fade \in Nat
    BY ProductNat DEF AMP, TypeOK
  <2>2. AMP * fade \in Nat
    BY <2>1, ProductNat
  <2>3. out' = (AMP * fade) \div FADE_LEN /\ last' = (AMP * fade) \div FADE_LEN
    BY DEF Frame
  <2> QED BY <2>2, <2>3, DivNat
<1>3. /\ cur_pos' \in Nat /\ FrameStart(cur_pos')
      /\ frac' \in 0..(ONE - 1)
  <2>1. frac + STEP \in Nat /\ cur_pos \in Nat /\ FrameStart(cur_pos)
    BY DEF TypeOK, LoopInv
  <2>2. (frac + STEP) \div ONE \in Nat /\ (frac + STEP) % ONE \in 0..(ONE - 1)
    BY <2>1, DivNat
  <2>3. /\ cur_pos' = cur_pos + ((frac + STEP) \div ONE) * FB
        /\ frac' = (frac + STEP) % ONE
    BY DEF Frame
  <2> DEFINE n == (frac + STEP) \div ONE
  <2>4. n \in Nat /\ cur_pos' = cur_pos + n * FB
    BY <2>2, <2>3
  <2> HIDE DEF n
  <2>5. cur_pos' \in Nat /\ FrameStart(cur_pos')
    BY <2>1, <2>4, FrameStarts
  <2> QED BY <2>2, <2>3, <2>5
<1>4. TypeOK'
  BY <1>1, <1>2, <1>3 DEF TypeOK
<1>5. RingInv' /\ CurInv' /\ ClearInv' /\ ReadsInBounds'
  BY <1>1
  DEF RingInv, InRing, Owned, CurInv, ClearInv, ReadsInBounds, TypeOK
<1>6. LoopInv'
  BY <1>1, <1>3 DEF LoopInv, TypeOK
<1> QED BY <1>1, <1>4, <1>5, <1>6

----------------------------------------------------------------------------
(* Every step keeps the invariant.                                       *)
LEMMA NextIInv == ~ClearWhileMixing /\ IInv /\ [Next]_vars => IInv'
<1> SUFFICES ASSUME ~ClearWhileMixing, IInv, [Next]_vars
             PROVE  IInv'
  OBVIOUS
<1>1. CASE MixStep
  BY <1>1, ControlSteps, FinishStep, PopStep, LoadStep, FrameStep DEF MixStep
<1>2. CASE \E t \in Threads : Call(t)
  BY <1>2, EnqueueStep, SetPlayStateStep, ClearBeginStep, ClearEndStep DEF Call
<1>3. CASE UNCHANGED vars
  BY <1>3
  DEF IInv, TypeOK, RingInv, CurInv, ClearInv, LoopInv, ReadsInBounds, InRing,
      Owned, vars, queueVars, curVars, levelVars, mixVars, history
<1> QED BY <1>1, <1>2, <1>3 DEF Next

(* The invariant holds throughout.                                       *)
LEMMA Invariance == ~ClearWhileMixing /\ Spec => []IInv
<1>1. CASE ClearWhileMixing
  BY <1>1
<1>2. CASE ~ClearWhileMixing
  <2>1. IInv /\ [Next]_vars => IInv'
    BY <1>2, NextIInv
  <2> QED BY <2>1, InitIInv, PTL DEF Spec
<1> QED BY <1>1, <1>2

(***************************************************************************)
(* Every variable of the player keeps its type.                            *)
(***************************************************************************)
THEOREM TypeCorrect == ~ClearWhileMixing /\ Spec => []TypeOK
<1>1. IInv => TypeOK
  BY DEF IInv
<1> QED BY <1>1, Invariance, PTL

(***************************************************************************)
(* The mixer's unlocked read through cur (opensles.c mix_player) is always *)
(* of a current buffer and starts inside it, or at the start of a buffer   *)
(* of no bytes, whatever sizes the engine enqueues; it ends inside it when *)
(* they are whole source frames.  All this if no game thread calls Clear   *)
(* while mix_player is in it.                                              *)
(***************************************************************************)
THEOREM ReadsAreInBounds == ~ClearWhileMixing /\ Spec => []ReadsInBounds
<1>1. IInv => ReadsInBounds
  BY DEF IInv
<1> QED BY <1>1, Invariance, PTL

(***************************************************************************)
(* Under the same condition no buffer that a Clear dropped is ever started *)
(* or read again.                                                          *)
(***************************************************************************)
THEOREM ClearedStaysCleared == ~ClearWhileMixing /\ Spec => []ClearedNeverRead
<1>1. IInv => ClearedNeverRead
  BY DEF IInv, ReadsInBounds, CurInv, Owned, ClearedNeverRead
<1> QED BY <1>1, Invariance, PTL

----------------------------------------------------------------------------
(* The ring holds a sequence.                                              *)

(* A remainder of at most one round.                                       *)
LEMMA OneRound ==
  ASSUME NEW x \in 0..(2 * BQ_SLOTS - 1)
  PROVE  x % BQ_SLOTS = IF x < BQ_SLOTS THEN x ELSE x - BQ_SLOTS
  BY MixerAssumption

(* How many buffers wait, and in which slots.                              *)
LEMMA RingShape ==
  ASSUME TypeOK
  PROVE  /\ Queued = IF q_head <= q_tail THEN q_tail - q_head
                                         ELSE q_tail + BQ_SLOTS - q_head
         /\ Queued \in 0..(BQ_SLOTS - 1)
         /\ \A n \in 1..Queued :
              (q_head + n - 1) % BQ_SLOTS
                = IF q_head + n - 1 < BQ_SLOTS THEN q_head + n - 1
                                               ELSE q_head + n - 1 - BQ_SLOTS
<1> USE MixerAssumption
<1>1. q_head \in 0..(BQ_SLOTS - 1) /\ q_tail \in 0..(BQ_SLOTS - 1)
  BY DEF TypeOK, Slots
<1>2. q_tail + BQ_SLOTS - q_head \in 0..(2 * BQ_SLOTS - 1)
  BY <1>1
<1>3. Queued = IF q_tail + BQ_SLOTS - q_head < BQ_SLOTS
               THEN q_tail + BQ_SLOTS - q_head
               ELSE q_tail + BQ_SLOTS - q_head - BQ_SLOTS
  <2> DEFINE x == q_tail + BQ_SLOTS - q_head
  <2>1. x \in 0..(2 * BQ_SLOTS - 1) /\ Queued = x % BQ_SLOTS
    BY <1>2 DEF Queued
  <2> HIDE DEF x
  <2>2. Queued = IF x < BQ_SLOTS THEN x ELSE x - BQ_SLOTS
    BY <2>1, OneRound
  <2> QED BY <1>1, <2>2 DEF x
<1>4. /\ Queued = IF q_head <= q_tail THEN q_tail - q_head
                                      ELSE q_tail + BQ_SLOTS - q_head
      /\ Queued \in 0..(BQ_SLOTS - 1)
  BY <1>1, <1>3
<1>5. ASSUME NEW n \in 1..Queued
      PROVE  (q_head + n - 1) % BQ_SLOTS
                = IF q_head + n - 1 < BQ_SLOTS THEN q_head + n - 1
                                               ELSE q_head + n - 1 - BQ_SLOTS
  <2> DEFINE x == q_head + n - 1
  <2>1. x \in 0..(2 * BQ_SLOTS - 1)
    BY <1>1, <1>4
  <2> HIDE DEF x
  <2>2. x % BQ_SLOTS = IF x < BQ_SLOTS THEN x ELSE x - BQ_SLOTS
    BY <2>1, OneRound
  <2> QED BY <1>1, <2>2 DEF x
<1> QED BY <1>4, <1>5

(* The slot of the n-th waiting buffer is one in use.                      *)
LEMMA WaitingPlace ==
  ASSUME TypeOK, NEW n \in 1..Queued
  PROVE  /\ (q_head + n - 1) % BQ_SLOTS \in Slots
         /\ InRing((q_head + n - 1) % BQ_SLOTS)
<1>1. q_head \in Slots /\ q_tail \in Slots
  BY DEF TypeOK
<1> QED BY <1>1, RingShape, MixerAssumption DEF InRing, Slots

(* What waits is a sequence of buffers.                                    *)
LEMMA WaitingShape ==
  ASSUME IInv
  PROVE  /\ Waiting \in Seq(Nat)
         /\ Len(Waiting) = Queued
         /\ \A n \in 1..Queued :
              Waiting[n] = q[(q_head + n - 1) % BQ_SLOTS].data
<1>1. TypeOK /\ RingInv /\ accepted \in Nat
  BY DEF IInv, TypeOK
<1>2. Queued \in Nat
  BY <1>1, RingShape, MixerAssumption
<1>3. \A n \in 1..Queued : q[(q_head + n - 1) % BQ_SLOTS].data \in Nat
  BY <1>1, WaitingPlace DEF RingInv, Owned
<1> QED BY <1>2, <1>3 DEF Waiting

(* Enqueue adds the new buffer at the end of what waits.                   *)
LEMMA WaitingGrows ==
  ASSUME IInv, IInv', NEW t \in Threads, Enqueue(t)
  PROVE  /\ Waiting' = Append(Waiting, accepted + 1)
         /\ Queued + 2 <= BQ_SLOTS
<1> USE MixerAssumption
<1>1. PICK size \in Sizes :
        q' = [q EXCEPT ![q_tail] = [data |-> accepted + 1, size |-> size]]
  BY DEF Enqueue
<1>2. /\ q_tail' = NextSlot(q_tail) /\ NextSlot(q_tail) # q_head
      /\ q_head' = q_head
      /\ q \in [Slots -> Buffer] /\ q_head \in Slots /\ q_tail \in Slots
      /\ accepted \in Nat
  BY DEF Enqueue, IInv, TypeOK
<1>3. /\ NextSlot(q_tail) = IF q_tail + 1 = BQ_SLOTS THEN 0 ELSE q_tail + 1
      /\ NextSlot(q_tail) \in Slots
  BY <1>2, NextSlotValue
<1>4. TypeOK /\ TypeOK'
  BY DEF IInv
<1>5. /\ Queued = IF q_head <= q_tail THEN q_tail - q_head
                                      ELSE q_tail + BQ_SLOTS - q_head
      /\ Queued \in 0..(BQ_SLOTS - 1)
  BY <1>4, RingShape
<1>6. Queued' = Queued + 1 /\ Queued + 2 <= BQ_SLOTS
  <2> DEFINE x == q_tail' + BQ_SLOTS - q_head
  <2>1. Queued' = x % BQ_SLOTS
    BY <1>2 DEF Queued
  <2>2. x \in 0..(2 * BQ_SLOTS - 1)
    BY <1>2, <1>3 DEF Slots
  <2> HIDE DEF x
  <2>3. Queued' = IF x < BQ_SLOTS THEN x ELSE x - BQ_SLOTS
    BY <2>1, <2>2, OneRound
  <2>4. Queued' = IF q_head <= q_tail' THEN q_tail' - q_head
                                       ELSE q_tail' + BQ_SLOTS - q_head
    BY <1>2, <1>3, <2>3 DEF Slots, x
  <2> QED BY <1>2, <1>3, <1>5, <2>4 DEF Slots
<1>7. ASSUME NEW n \in 1..(Queued + 1)
      PROVE  q'[(q_head + n - 1) % BQ_SLOTS].data
               = IF n = Queued + 1 THEN accepted + 1
                                   ELSE q[(q_head + n - 1) % BQ_SLOTS].data
  <2> DEFINE s == (q_head + n - 1) % BQ_SLOTS
  <2> DEFINE x == q_head + n - 1
  <2>1. x \in 0..(2 * BQ_SLOTS - 1) /\ s = x % BQ_SLOTS
    BY <1>2, <1>5 DEF Slots
  <2> HIDE DEF x
  <2>2. s = IF x < BQ_SLOTS THEN x ELSE x - BQ_SLOTS
    BY <2>1, OneRound
  <2>3. s = IF q_head + n - 1 < BQ_SLOTS THEN q_head + n - 1
                                         ELSE q_head + n - 1 - BQ_SLOTS
    BY <1>2, <2>2 DEF x, Slots
  <2>4. s \in Slots /\ (s = q_tail <=> n = Queued + 1)
    BY <1>2, <1>5, <1>6, <2>3 DEF Slots
  <2> HIDE DEF s
  <2>5. q'[s] = IF s = q_tail THEN [data |-> accepted + 1, size |-> size]
                              ELSE q[s]
    BY <1>1, <1>2, <2>4
  <2>6. q'[s].data = IF n = Queued + 1 THEN accepted + 1 ELSE q[s].data
    BY <2>4, <2>5
  <2> QED BY <2>6 DEF s
<1>8. Waiting' = [n \in 1..(Queued + 1) |-> q'[(q_head + n - 1) % BQ_SLOTS].data]
  BY <1>2, <1>6 DEF Waiting
<1>9. /\ Waiting \in Seq(Nat) /\ Len(Waiting) = Queued
      /\ \A n \in 1..Queued : Waiting[n] = q[(q_head + n - 1) % BQ_SLOTS].data
  BY WaitingShape
<1>10. /\ Append(Waiting, accepted + 1) \in Seq(Nat)
       /\ Len(Append(Waiting, accepted + 1)) = Queued + 1
       /\ \A n \in 1..Queued : Append(Waiting, accepted + 1)[n] = Waiting[n]
       /\ Append(Waiting, accepted + 1)[Queued + 1] = accepted + 1
  BY <1>2, <1>9, AppendProperties
<1>11. Append(Waiting, accepted + 1)
         = [n \in 1..(Queued + 1) |-> Append(Waiting, accepted + 1)[n]]
  BY <1>10, LenProperties
<1>12. \A n \in 1..(Queued + 1) :
         q'[(q_head + n - 1) % BQ_SLOTS].data = Append(Waiting, accepted + 1)[n]
  <2> SUFFICES ASSUME NEW n \in 1..(Queued + 1)
               PROVE  q'[(q_head + n - 1) % BQ_SLOTS].data
                        = Append(Waiting, accepted + 1)[n]
    OBVIOUS
  <2>1. CASE n = Queued + 1
    BY <1>7, <1>10, <2>1
  <2>2. CASE n # Queued + 1
    <3>1. n \in 1..Queued
      BY <1>5, <2>2
    <3> QED BY <1>7, <1>9, <1>10, <2>2, <3>1
  <2> QED BY <2>1, <2>2
<1> QED BY <1>6, <1>8, <1>11, <1>12

(* The pop takes the first of what waits.                                  *)
LEMMA WaitingShrinks ==
  ASSUME IInv, IInv', Pop
  PROVE  Waiting = <<popped'.data>> \o Waiting'
<1> USE MixerAssumption
<1>1. /\ q_head # q_tail /\ q_head' = NextSlot(q_head) /\ popped' = q[q_head]
      /\ q' = q /\ q_tail' = q_tail
      /\ q \in [Slots -> Buffer] /\ q_head \in Slots /\ q_tail \in Slots
  BY DEF Pop, IInv, TypeOK
<1>2. q_head' = IF q_head + 1 = BQ_SLOTS THEN 0 ELSE q_head + 1
  BY <1>1, NextSlotValue
<1>3. TypeOK /\ popped'.data \in Nat
  <2>1. q[q_head] \in Buffer
    BY <1>1
  <2>2. popped'.data \in 0..MaxBuffers
    BY <1>1, <2>1 DEF Buffer
  <2> QED BY <2>2 DEF IInv
<1>4. /\ Queued = IF q_head <= q_tail THEN q_tail - q_head
                                      ELSE q_tail + BQ_SLOTS - q_head
      /\ Queued \in 1..(BQ_SLOTS - 1)
  BY <1>1, <1>3, RingShape DEF Slots
<1>5. Queued' = Queued - 1
  <2> DEFINE x == q_tail + BQ_SLOTS - q_head'
  <2>1. Queued' = x % BQ_SLOTS
    BY <1>1 DEF Queued
  <2>2. x \in 0..(2 * BQ_SLOTS - 1)
    BY <1>1, <1>2 DEF Slots
  <2> HIDE DEF x
  <2>3. Queued' = IF x < BQ_SLOTS THEN x ELSE x - BQ_SLOTS
    BY <2>1, <2>2, OneRound
  <2> QED BY <1>1, <1>2, <1>4, <2>3 DEF Slots, x
<1>6. ASSUME NEW n \in 1..(Queued - 1)
      PROVE  (q_head' + n - 1) % BQ_SLOTS = (q_head + (n + 1) - 1) % BQ_SLOTS
  <2> DEFINE x == q_head' + n - 1
             y == q_head + (n + 1) - 1
  <2>1. x \in 0..(2 * BQ_SLOTS - 1) /\ y \in 0..(2 * BQ_SLOTS - 1)
    BY <1>1, <1>2, <1>4 DEF Slots
  <2>2. \/ x = y
        \/ x = 0 /\ y = BQ_SLOTS
        \/ x + BQ_SLOTS = y
    BY <1>1, <1>2, <1>4 DEF Slots
  <2> HIDE DEF x, y
  <2>3. /\ x % BQ_SLOTS = IF x < BQ_SLOTS THEN x ELSE x - BQ_SLOTS
        /\ y % BQ_SLOTS = IF y < BQ_SLOTS THEN y ELSE y - BQ_SLOTS
    BY <2>1, OneRound
  <2>4. x % BQ_SLOTS = y % BQ_SLOTS
    BY <2>1, <2>2, <2>3
  <2> QED BY <2>4 DEF x, y
<1>7. /\ Waiting \in Seq(Nat) /\ Len(Waiting) = Queued
      /\ \A n \in 1..Queued : Waiting[n] = q[(q_head + n - 1) % BQ_SLOTS].data
  BY WaitingShape
<1>8. Waiting # <<>>
  BY <1>4, <1>7
<1>9. /\ Tail(Waiting) \in Seq(Nat) /\ Len(Tail(Waiting)) = Queued - 1
      /\ \A n \in 1..(Queued - 1) : Tail(Waiting)[n] = Waiting[n + 1]
  BY <1>7, <1>8, HeadTailProperties
<1>10. Tail(Waiting) = [n \in 1..(Queued - 1) |-> Tail(Waiting)[n]]
  BY <1>9, LenProperties
<1>11. Waiting' = [n \in 1..(Queued - 1) |-> q[(q_head' + n - 1) % BQ_SLOTS].data]
  BY <1>1, <1>5 DEF Waiting
<1>12. \A n \in 1..(Queued - 1) :
         q[(q_head' + n - 1) % BQ_SLOTS].data = Tail(Waiting)[n]
  BY <1>4, <1>6, <1>7, <1>9
<1>13. Waiting' = Tail(Waiting)
  BY <1>10, <1>11, <1>12
<1>14. Head(Waiting) = popped'.data
  <2>1. (q_head + 1 - 1) % BQ_SLOTS = q_head
    BY <1>1, OneRound DEF Slots
  <2> QED BY <1>1, <1>4, <1>7, <2>1
<1>15. Waiting = <<Head(Waiting)>> \o Tail(Waiting)
  BY <1>7, <1>8, <1>9
<1> QED BY <1>13, <1>14, <1>15

----------------------------------------------------------------------------
(* The mixer's steps as steps of the queue.                                *)

(* Either mix_player holds the oldest outstanding buffer, or all wait.     *)
LEMMA OutstandingShape ==
  ASSUME IInv
  PROVE  /\ pc = "load" => Outstanding = <<popped.data>> \o Waiting
         /\ cur # NoBuffer => Outstanding = <<cur>> \o Waiting
         /\ pc # "load" /\ cur = NoBuffer => Outstanding = Waiting
         /\ Outstanding \in Seq(Nat)
         /\ Len(Outstanding) <= 1 + Queued
<1>1. Waiting \in Seq(Nat) /\ Len(Waiting) = Queued
  BY WaitingShape
<1>2. <<>> \o Waiting = Waiting
  BY <1>1, ConcatEmptySeq
<1>3. pc = "load" => cur = NoBuffer /\ popped.data \in Nat
  BY DEF IInv, CurInv, Owned, TypeOK
<1>4. cur \in Nat /\ <<>> \o <<>> = <<>>
  BY DEF IInv, TypeOK
<1>5. CASE pc = "load"
  <2>1. Outstanding = <<popped.data>> \o Waiting
    BY <1>3, <1>5 DEF Outstanding
  <2> QED BY <1>1, <1>3, <1>5, <2>1
<1>6. CASE cur # NoBuffer
  <2>1. Outstanding = <<cur>> \o Waiting
    BY <1>3, <1>4, <1>6 DEF Outstanding
  <2> QED BY <1>1, <1>3, <1>4, <1>6, <2>1
<1>7. CASE pc # "load" /\ cur = NoBuffer
  <2>1. Outstanding = Waiting
    BY <1>2, <1>4, <1>7 DEF Outstanding
  <2> QED BY <1>1, <1>7, <2>1, LenProperties
<1> QED BY <1>5, <1>6, <1>7

(* An accepted buffer goes to the end, and there was room for it.          *)
LEMMA EnqueueMaps ==
  ASSUME IInv, IInv', NEW t \in Threads, Enqueue(t)
  PROVE  Queue!Accept
<1>1. /\ Waiting' = Append(Waiting, accepted + 1)
      /\ Queued + 2 <= BQ_SLOTS
  BY WaitingGrows
<1>2. UNCHANGED <<cur, pc, popped, finished>> /\ accepted' = accepted + 1
  BY DEF Enqueue, curVars, mixVars
<1>3. Outstanding' = Append(Outstanding, accepted + 1)
  <2>1. Waiting \in Seq(Nat)
    BY WaitingShape
  <2>2. accepted + 1 \in Nat
    BY MixerAssumption DEF IInv, TypeOK
  <2>3. ASSUME NEW b \in Nat
        PROVE  <<b>> \o Append(Waiting, accepted + 1)
                 = Append(<<b>> \o Waiting, accepted + 1)
    BY <2>1, <2>2, AppendIsConcat, ConcatAssociative, ConcatProperties
  <2>4. CASE pc = "load"
    <3>1. popped.data \in Nat /\ cur = NoBuffer
      BY <2>4 DEF IInv, CurInv, Owned
    <3>2. Outstanding' = <<popped.data>> \o Waiting'
      BY <1>2, <2>4, <3>1 DEF Outstanding
    <3> QED BY <1>1, <2>3, <2>4, <3>1, <3>2, OutstandingShape
  <2>5. CASE cur # NoBuffer
    <3>1. cur \in Nat /\ pc # "load"
      BY <2>5 DEF IInv, TypeOK, CurInv
    <3>2. Outstanding' = <<cur>> \o Waiting'
      BY <1>2, <2>5, <3>1 DEF Outstanding
    <3> QED BY <1>1, <2>3, <2>5, <3>1, <3>2, OutstandingShape
  <2>6. CASE pc # "load" /\ cur = NoBuffer
    <3>1. Waiting' \in Seq(Nat)
      BY <1>1, <2>1, <2>2, AppendProperties
    <3>2. Outstanding' = Waiting'
      BY <1>2, <2>6, <3>1 DEF Outstanding
    <3> QED BY <1>1, <2>6, <3>2, OutstandingShape
  <2> QED BY <2>4, <2>5, <2>6
<1>4. Len(Outstanding) <= BQ_SLOTS - 1
  <2>1. Len(Outstanding) <= 1 + Queued /\ Len(Outstanding) \in Nat
    BY OutstandingShape, LenProperties
  <2>2. Queued \in Nat
    BY RingShape, MixerAssumption DEF IInv
  <2> QED BY <1>1, <2>1, <2>2, MixerAssumption
<1> QED BY <1>2, <1>3, <1>4 DEF Queue!Accept

(* The completion is signalled for the oldest outstanding buffer.          *)
LEMMA FinishMaps ==
  ASSUME IInv, IInv', FinishBuffer
  PROVE  Queue!Finish
<1>1. /\ cur # NoBuffer /\ cur' = NoBuffer /\ pc' = "callback"
      /\ finished' = Append(finished, cur)
      /\ UNCHANGED <<q, q_head, q_tail, popped, accepted>>
  BY DEF FinishBuffer, queueVars
<1>2. Waiting \in Seq(Nat) /\ Waiting' = Waiting
  BY <1>1, WaitingShape DEF Waiting, Queued
<1>3. cur \in Nat
  BY MixerAssumption DEF IInv, TypeOK
<1>4. Outstanding = <<cur>> \o Waiting
  BY <1>1, OutstandingShape
<1>5. Outstanding' = Waiting
  BY <1>1, <1>2 DEF Outstanding
<1>6. /\ Outstanding # <<>> /\ Head(Outstanding) = cur
      /\ Tail(Outstanding) = Waiting
  BY <1>2, <1>3, <1>4
<1> QED BY <1>1, <1>5, <1>6 DEF Queue!Finish

(* The first half of bq_Clear drops all that is outstanding.               *)
LEMMA ClearMaps ==
  ASSUME IInv, ~ClearWhileMixing, NEW t \in Threads, ClearBegin(t)
  PROVE  Queue!Clear
<1>1. /\ q_head' = 0 /\ q_tail' = 0 /\ cur' = NoBuffer
      /\ pc' = pc /\ pc \in {"idle", "callback"}
      /\ UNCHANGED <<accepted, finished>>
  BY DEF ClearBegin, CanCall, mixVars, history
<1>2. Queued' = 0
  <2>1. Queued' = (0 + BQ_SLOTS - 0) % BQ_SLOTS
    BY <1>1 DEF Queued
  <2> QED BY <2>1, OneRound, MixerAssumption
<1>3. Waiting' = <<>>
  BY <1>2 DEF Waiting
<1>4. Outstanding' = <<>>
  BY <1>1, <1>3 DEF Outstanding
<1> QED BY <1>1, <1>4 DEF Queue!Clear

(* The pop and the load move the oldest buffer without finishing it.       *)
LEMMA PopMaps ==
  ASSUME IInv, IInv', Pop
  PROVE  UNCHANGED Queue!vars
<1>1. /\ pc = "pop" /\ pc' = "load" /\ cur = NoBuffer /\ cur' = NoBuffer
      /\ UNCHANGED <<accepted, finished>>
  BY DEF Pop, IInv, CurInv, curVars, history
<1>2. Outstanding = Waiting
  BY <1>1, OutstandingShape
<1>3. Outstanding' = <<popped'.data>> \o Waiting'
  BY <1>1 DEF Outstanding
<1> QED BY <1>1, <1>2, <1>3, WaitingShrinks DEF Queue!vars

(* The popped buffer becomes the current one: still the oldest.           *)
LEMMA LoadMaps ==
  ASSUME IInv, IInv', Load
  PROVE  UNCHANGED Queue!vars
<1>1. /\ pc = "load" /\ pc' = "frame" /\ cur' = popped.data
      /\ UNCHANGED <<q, q_head, q_tail, accepted, finished>>
  BY DEF Load, queueVars, history
<1>2. Waiting' = Waiting
  BY <1>1 DEF Waiting, Queued
<1>3. popped.data \in Nat /\ popped.data # NoBuffer
  BY <1>1 DEF IInv, CurInv, Owned, TypeOK, NoBuffer
<1>4. Outstanding' = <<popped.data>> \o Waiting
  BY <1>1, <1>2, <1>3 DEF Outstanding
<1> QED BY <1>1, <1>4, OutstandingShape DEF Queue!vars

(* Every other step leaves the queue as it is.                             *)
LEMMA OthersMap ==
  ASSUME IInv,
         \/ MixStart \/ CheckMore \/ CallbackReturns \/ NothingCurrent
         \/ Underrun \/ Frame \/ FadeOut
         \/ \E t \in Threads : SetPlayState(t) \/ ClearEnd(t)
         \/ UNCHANGED vars
  PROVE  UNCHANGED Queue!vars
<1>1. /\ UNCHANGED <<q, q_head, q_tail, cur, popped, accepted, finished>>
      /\ pc' = "load" <=> pc = "load"
  BY DEF MixStart, CheckMore, CallbackReturns, NothingCurrent, Underrun, Frame,
         FadeOut, SetPlayState, ClearEnd, queueVars, curVars, mixVars, history,
         vars
<1>2. Outstanding' = Outstanding
  BY <1>1 DEF Outstanding, Waiting, Queued
<1> QED BY <1>1, <1>2 DEF Queue!vars

(* Each step is one of the queue's, or leaves it alone.                    *)
LEMMA StepMaps ==
  ASSUME ~ClearWhileMixing, IInv, IInv', [Next]_vars
  PROVE  [Queue!Next]_(Queue!vars)
<1>1. CASE MixStep
  BY <1>1, FinishMaps, PopMaps, LoadMaps, OthersMap DEF MixStep, Queue!Next
<1>2. ASSUME NEW t \in Threads, Call(t)
      PROVE  [Queue!Next]_(Queue!vars)
  BY <1>2, EnqueueMaps, ClearMaps, OthersMap DEF Call, Queue!Next
<1>3. CASE UNCHANGED vars
  BY <1>3, OthersMap
<1> QED BY <1>1, <1>2, <1>3 DEF Next

(***************************************************************************)
(* The ring, the buffer taken from it and the current one together are the *)
(* queue OpenSL promises (opensles.c bq_Enqueue, bq_Clear, mix_player), for*)
(* any ring size and any number of threads, if Clear is never called while *)
(* the player is being mixed.                                              *)
(***************************************************************************)
THEOREM QueueImplemented == ~ClearWhileMixing /\ Spec => ImplementsBufferQueue
<1>1. Init => Queue!Init
  <2> SUFFICES ASSUME Init PROVE Queue!Init
    OBVIOUS
  <2>1. Queued = 0
    <3>1. Queued = (0 + BQ_SLOTS - 0) % BQ_SLOTS
      BY DEF Init, Queued
    <3> QED BY <3>1, OneRound, MixerAssumption
  <2>2. Waiting = <<>>
    BY <2>1 DEF Waiting
  <2>3. Outstanding = <<>>
    BY <2>2 DEF Init, Outstanding
  <2> QED BY <2>3 DEF Init, Queue!Init
<1>2. CASE ClearWhileMixing
  BY <1>2
<1>3. CASE ~ClearWhileMixing
  <2>1. IInv /\ IInv' /\ [Next]_vars => [Queue!Next]_(Queue!vars)
    BY <1>3, StepMaps
  <2> QED
    BY <1>1, <1>3, <2>1, Invariance, PTL DEF Spec, ImplementsBufferQueue, Queue!Spec
<1> QED BY <1>2, <1>3

----------------------------------------------------------------------------
(* What is outstanding are the last buffers accepted, all others have been *)
(* returned to the engine: completed, or dropped by a Clear.               *)
Returned == discarded \cup {finished[n] : n \in 1..Len(finished)}

CountInv ==
    /\ Len(Outstanding) <= accepted
    /\ \A n \in 1..Len(Outstanding) :
         Outstanding[n] = accepted - Len(Outstanding) + n
    /\ Returned \subseteq 1..accepted
    /\ lock = NoThread => Returned = 1..(accepted - Len(Outstanding))

(* The state's count, and the buffer between ring and cur, are the length. *)
LEMMA CountedLength ==
  ASSUME IInv
  PROVE  GetStateCount + (IF pc = "load" THEN 1 ELSE 0) = Len(Outstanding)
<1>1. Waiting \in Seq(Nat) /\ Len(Waiting) = Queued /\ Queued \in Nat
  BY WaitingShape, LenProperties
<1>2. pc = "load" => cur = NoBuffer /\ popped.data \in Nat
  BY DEF IInv, CurInv, Owned
<1>3. cur \in Nat
  BY MixerAssumption DEF IInv, TypeOK
<1>4. CASE pc = "load"
  <2>1. Outstanding = <<popped.data>> \o Waiting
    BY <1>4, OutstandingShape
  <2>2. Len(Outstanding) = 1 + Queued
    BY <1>1, <1>2, <1>4, <2>1
  <2> QED BY <1>1, <1>2, <1>4, <2>2 DEF GetStateCount
<1>5. CASE cur # NoBuffer
  <2>1. Outstanding = <<cur>> \o Waiting /\ pc # "load"
    BY <1>2, <1>5, OutstandingShape
  <2>2. Len(Outstanding) = 1 + Queued
    BY <1>1, <1>3, <2>1
  <2> QED BY <1>1, <1>5, <2>1, <2>2 DEF GetStateCount
<1>6. CASE pc # "load" /\ cur = NoBuffer
  BY <1>1, <1>6, OutstandingShape DEF GetStateCount
<1> QED BY <1>4, <1>5, <1>6

(* An accepted buffer is the next in number.                               *)
LEMMA EnqueueCounts ==
  ASSUME IInv, IInv', CountInv, NEW t \in Threads, Enqueue(t)
  PROVE  CountInv'
<1>1. /\ accepted' = accepted + 1
      /\ Outstanding' = Append(Outstanding, accepted + 1)
  BY EnqueueMaps DEF Queue!Accept
<1>2. UNCHANGED <<finished, discarded, lock>>
  BY DEF Enqueue
<1>3. accepted \in Nat
  BY MixerAssumption DEF IInv, TypeOK
<1>4. Outstanding \in Seq(Nat) /\ Len(Outstanding) \in Nat
  BY OutstandingShape, LenProperties
<1>5. /\ Len(Outstanding') = Len(Outstanding) + 1
      /\ \A n \in 1..Len(Outstanding) : Outstanding'[n] = Outstanding[n]
      /\ Outstanding'[Len(Outstanding) + 1] = accepted + 1
  BY <1>1, <1>3, <1>4, AppendProperties
<1>6. Returned' = Returned
  BY <1>2 DEF Returned
<1>7. \A n \in 1..Len(Outstanding') :
        Outstanding'[n] = accepted' - Len(Outstanding') + n
  BY <1>1, <1>3, <1>4, <1>5 DEF CountInv
<1>8. 1..accepted \subseteq 1..accepted'
  BY <1>1, <1>3
<1>9. accepted' - Len(Outstanding') = accepted - Len(Outstanding)
  BY <1>1, <1>3, <1>4, <1>5
<1>10. Len(Outstanding') <= accepted'
  BY <1>1, <1>3, <1>4, <1>5 DEF CountInv
<1> QED BY <1>2, <1>6, <1>7, <1>8, <1>9, <1>10 DEF CountInv

(* The completed buffer is the oldest one not returned.                    *)
LEMMA FinishCounts ==
  ASSUME IInv, IInv', CountInv, FinishBuffer
  PROVE  CountInv'
<1>1. /\ Outstanding # <<>> /\ accepted' = accepted
      /\ finished' = Append(finished, Head(Outstanding))
      /\ Outstanding' = Tail(Outstanding)
  BY FinishMaps DEF Queue!Finish
<1>2. UNCHANGED <<discarded, lock>> /\ lock = NoThread
  BY DEF FinishBuffer, IInv, ClearInv
<1>3. accepted \in Nat /\ finished \in Seq(Nat)
  <2>1. accepted \in Nat /\ finished \in Seq(1..MaxBuffers)
    BY MixerAssumption DEF IInv, TypeOK
  <2>2. 1..MaxBuffers \subseteq Nat
    OBVIOUS
  <2> QED BY <2>1, <2>2, SeqMonotonic
<1>4. Outstanding \in Seq(Nat) /\ Len(Outstanding) \in Nat \ {0}
  BY <1>1, OutstandingShape, EmptySeq
<1>5. /\ Len(Outstanding') = Len(Outstanding) - 1
      /\ \A n \in 1..Len(Outstanding') : Outstanding'[n] = Outstanding[n + 1]
  BY <1>1, <1>4, HeadTailProperties
<1>6. Head(Outstanding) = accepted - Len(Outstanding) + 1
  BY <1>4 DEF CountInv
<1>7. Returned' = Returned \cup {Head(Outstanding)}
  <2>1. Head(Outstanding) \in Nat
    BY <1>1, <1>4, HeadTailProperties
  <2>2. /\ Len(finished') = Len(finished) + 1 /\ Len(finished) \in Nat
        /\ \A n \in 1..Len(finished) : finished'[n] = finished[n]
        /\ finished'[Len(finished) + 1] = Head(Outstanding)
    BY <1>1, <1>3, <2>1, AppendProperties, LenProperties
  <2>3. {finished'[n] : n \in 1..Len(finished')}
          = {finished[n] : n \in 1..Len(finished)} \cup {Head(Outstanding)}
    BY <2>2
  <2> QED BY <1>2, <2>3 DEF Returned
<1>8. Returned' = 1..(accepted - Len(Outstanding'))
  <2>1. Returned = 1..(accepted - Len(Outstanding))
    BY <1>2 DEF CountInv
  <2>2. Len(Outstanding) <= accepted
    BY DEF CountInv
  <2> QED BY <1>3, <1>4, <1>5, <1>6, <1>7, <2>1, <2>2
<1>9. \A n \in 1..Len(Outstanding') :
        Outstanding'[n] = accepted - Len(Outstanding') + n
  <2> SUFFICES ASSUME NEW n \in 1..Len(Outstanding')
               PROVE  Outstanding'[n] = accepted - Len(Outstanding') + n
    OBVIOUS
  <2>1. n + 1 \in 1..Len(Outstanding) /\ Outstanding'[n] = Outstanding[n + 1]
    BY <1>4, <1>5
  <2>2. Outstanding[n + 1] = accepted - Len(Outstanding) + (n + 1)
    BY <2>1 DEF CountInv
  <2> QED BY <1>3, <1>4, <1>5, <2>1, <2>2
<1>10. Len(Outstanding') <= accepted
  BY <1>3, <1>4, <1>5 DEF CountInv
<1>11. Returned' \subseteq 1..accepted
  BY <1>3, <1>4, <1>5, <1>8
<1> QED BY <1>1, <1>8, <1>9, <1>10, <1>11 DEF CountInv

(* Clear returns everything, in two steps.                                 *)
LEMMA ClearBeginCounts ==
  ASSUME IInv, ~ClearWhileMixing, CountInv, NEW t \in Threads, ClearBegin(t)
  PROVE  CountInv'
<1>1. Outstanding' = <<>> /\ accepted' = accepted
  BY ClearMaps DEF Queue!Clear
<1>2. lock' = t /\ t # NoThread /\ UNCHANGED <<finished, discarded>>
  BY MixerAssumption DEF ClearBegin, history, Threads, Audio, NoThread
<1>3. Returned' = Returned
  BY <1>2 DEF Returned
<1>4. accepted \in Nat
  BY MixerAssumption DEF IInv, TypeOK
<1> QED BY <1>1, <1>2, <1>3, <1>4 DEF CountInv

(* The second half returns what the first has dropped.                     *)
LEMMA ClearEndCounts ==
  ASSUME IInv, CountInv, NEW t \in Threads, ClearEnd(t)
  PROVE  CountInv'
<1>1. /\ lock = t /\ t # NoThread
      /\ discarded' = 1..accepted \ {finished[n] : n \in 1..Len(finished)}
      /\ UNCHANGED <<accepted, finished>>
  BY MixerAssumption DEF ClearEnd, Threads, Audio, NoThread
<1>2. cur = NoBuffer /\ q_head = q_tail /\ pc # "load"
  BY <1>1 DEF IInv, ClearInv
<1>3. Outstanding' = Outstanding
  BY OthersMap DEF Queue!vars
<1>4. Len(Outstanding) = 0
  <2>1. Queued = 0
    <3>1. /\ Queued = IF q_head <= q_tail THEN q_tail - q_head
                                          ELSE q_tail + BQ_SLOTS - q_head
          /\ q_head \in Nat
      BY RingShape DEF IInv, TypeOK, Slots
    <3> QED BY <1>2, <3>1
  <2> QED BY <1>2, <2>1, OutstandingShape, WaitingShape
<1>5. accepted \in Nat
  BY MixerAssumption DEF IInv, TypeOK
<1>6. Returned' = 1..accepted
  <2>1. {finished[n] : n \in 1..Len(finished)} \subseteq 1..accepted
    BY DEF CountInv, Returned
  <2> QED BY <1>1, <2>1 DEF Returned
<1>7. 1..(accepted - 0) = 1..accepted
  BY <1>5
<1> QED BY <1>1, <1>3, <1>4, <1>5, <1>6, <1>7 DEF CountInv

(* No other step returns a buffer.                                         *)
LEMMA OthersCount ==
  ASSUME IInv, IInv', CountInv,
         \/ MixStart \/ CheckMore \/ CallbackReturns \/ NothingCurrent
         \/ Pop \/ Underrun \/ Load \/ Frame \/ FadeOut
         \/ \E t \in Threads : SetPlayState(t)
         \/ UNCHANGED vars
  PROVE  CountInv'
<1>1. UNCHANGED Queue!vars
  BY PopMaps, LoadMaps, OthersMap
<1>2. UNCHANGED <<discarded, lock>>
  BY DEF MixStart, CheckMore, CallbackReturns, NothingCurrent, Pop, Underrun,
         Load, Frame, FadeOut, SetPlayState, history, vars
<1> QED BY <1>1, <1>2 DEF CountInv, Returned, Queue!vars

(* Every step keeps the count.                                             *)
LEMMA NextCounts ==
  ~ClearWhileMixing /\ IInv /\ IInv' /\ CountInv /\ [Next]_vars => CountInv'
<1> SUFFICES ASSUME ~ClearWhileMixing, IInv, IInv', CountInv, [Next]_vars
             PROVE  CountInv'
  OBVIOUS
<1>1. CASE MixStep
  BY <1>1, FinishCounts, OthersCount DEF MixStep
<1>2. ASSUME NEW t \in Threads, Call(t)
      PROVE  CountInv'
  BY <1>2, EnqueueCounts, ClearBeginCounts, ClearEndCounts, OthersCount DEF Call
<1>3. CASE UNCHANGED vars
  BY <1>3, OthersCount
<1> QED BY <1>1, <1>2, <1>3 DEF Next

(* No buffer in hand or returned twice, at any time.                       *)
LEMMA CountInvariance == ~ClearWhileMixing /\ Spec => []CountInv
<1>1. Init => CountInv
  <2> SUFFICES ASSUME Init PROVE CountInv
    OBVIOUS
  <2>1. IInv
    BY InitIInv
  <2>2. Queued = 0
    BY <2>1, RingShape DEF Init, IInv
  <2>3. Len(Outstanding) = 0
    BY <2>1, <2>2, OutstandingShape, WaitingShape DEF Init
  <2> QED BY <2>3 DEF Init, CountInv, Returned
<1>2. CASE ClearWhileMixing
  BY <1>2
<1>3. CASE ~ClearWhileMixing
  <2>1. IInv /\ IInv' /\ CountInv /\ [Next]_vars => CountInv'
    BY <1>3, NextCounts
  <2> QED BY <1>1, <1>3, <2>1, Invariance, PTL DEF Spec
<1> QED BY <1>2, <1>3

(***************************************************************************)
(* The count bq_GetState returns is the number of buffers the engine has   *)
(* not got back, in every state but the window between mix_player's pop    *)
(* and its store to cur, where it misses exactly one.                      *)
(***************************************************************************)
THEOREM CountsOutstanding == ~ClearWhileMixing /\ Spec => []CountIsOutstanding
<1>1. IInv /\ CountInv => CountIsOutstanding
  <2> SUFFICES ASSUME IInv, CountInv, lock = NoThread
               PROVE  Len(Outstanding) = Cardinality(1..accepted \ Returned)
    BY CountedLength DEF CountIsOutstanding, Returned
  <2> DEFINE n == accepted - Len(Outstanding)
  <2>1. accepted \in Nat
    BY MixerAssumption DEF IInv, TypeOK
  <2>2. Len(Outstanding) \in Nat
    BY OutstandingShape, LenProperties
  <2>3. Len(Outstanding) <= accepted /\ Returned = 1..n
    BY DEF CountInv
  <2>4. n \in Nat
    BY <2>1, <2>2, <2>3
  <2>5. 1..accepted \ Returned = (n + 1)..accepted
    BY <2>4, <2>1, <2>3
  <2>6. Cardinality((n + 1)..accepted)
          = IF n + 1 > accepted THEN 0 ELSE accepted - (n + 1) + 1
    BY <2>4, <2>1, FS_Interval
  <2>7. Cardinality((n + 1)..accepted) = Len(Outstanding)
    BY <2>4, <2>6, <2>1, <2>2
  <2> QED BY <2>5, <2>7
<1> QED BY <1>1, Invariance, CountInvariance, PTL

----------------------------------------------------------------------------
(* Completions come from the front of what is outstanding.                 *)
OrderInv ==
    /\ \A n \in 1..Len(finished) : finished[n] <= accepted - Len(Outstanding)
    /\ Queue!FinishedInOrder

(* A completion is of a later buffer than any before it.                   *)
LEMMA OrderKept ==
  ASSUME IInv, IInv', CountInv, OrderInv, [Queue!Next]_(Queue!vars)
  PROVE  OrderInv'
<1>1. accepted \in Nat /\ MaxBuffers \in Nat
  BY MixerAssumption DEF IInv, TypeOK
<1>2. Outstanding \in Seq(Nat) /\ Len(Outstanding) \in Nat
  BY OutstandingShape, LenProperties
<1>3. finished \in Seq(Nat) /\ Len(finished) \in Nat
  <2>1. finished \in Seq(1..MaxBuffers)
    BY DEF IInv, TypeOK
  <2>2. 1..MaxBuffers \subseteq Nat
    OBVIOUS
  <2> QED BY <2>1, <2>2, SeqMonotonic, LenProperties
<1>4. \A n \in 1..Len(finished) : finished[n] \in Nat
  BY <1>3
<1>5. CASE Queue!Accept
  <2>1. /\ accepted' = accepted + 1 /\ finished' = finished
        /\ Outstanding' = Append(Outstanding, accepted + 1)
    BY <1>5 DEF Queue!Accept
  <2>2. Len(Outstanding') = Len(Outstanding) + 1
    BY <1>1, <1>2, <2>1, AppendProperties
  <2>3. accepted' - Len(Outstanding') = accepted - Len(Outstanding)
    BY <1>1, <1>2, <2>1, <2>2
  <2> QED BY <2>1, <2>3 DEF OrderInv, Queue!FinishedInOrder
<1>6. CASE Queue!Finish
  <2> DEFINE b == Head(Outstanding)
  <2>1. /\ Outstanding # <<>> /\ accepted' = accepted
        /\ finished' = Append(finished, b) /\ Outstanding' = Tail(Outstanding)
    BY <1>6 DEF Queue!Finish
  <2>2. Len(Outstanding') = Len(Outstanding) - 1 /\ b \in Nat
    BY <1>2, <2>1, HeadTailProperties
  <2>3. b = accepted - Len(Outstanding) + 1
    <3>1. 1 \in 1..Len(Outstanding)
      BY <1>2, <2>1, EmptySeq
    <3>2. Outstanding[1] = accepted - Len(Outstanding) + 1
      BY <3>1 DEF CountInv
    <3> QED BY <1>2, <2>1, <3>2
  <2> HIDE DEF b
  <2>4. /\ Len(finished') = Len(finished) + 1
        /\ \A n \in 1..Len(finished) : finished'[n] = finished[n]
        /\ finished'[Len(finished) + 1] = b
    BY <1>3, <2>1, <2>2, AppendProperties
  <2>5. \A n \in 1..Len(finished) : finished[n] <= accepted - Len(Outstanding)
    BY DEF OrderInv
  <2>6. \A n \in 1..Len(finished') : finished'[n] <= accepted' - Len(Outstanding')
    BY <1>1, <1>2, <1>3, <1>4, <2>1, <2>2, <2>3, <2>4, <2>5
  <2>7. \A m, n \in 1..Len(finished') : m < n => finished'[m] < finished'[n]
    <3> SUFFICES ASSUME NEW m \in 1..Len(finished'), NEW n \in 1..Len(finished'),
                        m < n
                 PROVE  finished'[m] < finished'[n]
      OBVIOUS
    <3>1. m \in 1..Len(finished) /\ finished'[m] = finished[m]
      BY <1>3, <2>4
    <3>2. CASE n \in 1..Len(finished)
      BY <2>4, <3>1, <3>2 DEF OrderInv, Queue!FinishedInOrder
    <3>3. CASE n = Len(finished) + 1
      BY <1>1, <1>2, <1>4, <2>3, <2>4, <2>5, <3>1, <3>3
    <3> QED BY <1>3, <2>4, <3>2, <3>3
  <2> QED BY <2>6, <2>7 DEF OrderInv, Queue!FinishedInOrder
<1>7. CASE Queue!Clear
  <2>1. Outstanding' = <<>> /\ accepted' = accepted /\ finished' = finished
    BY <1>7 DEF Queue!Clear
  <2>2. \A n \in 1..Len(finished) : finished[n] <= accepted - Len(Outstanding')
    BY <1>1, <1>2, <1>4, <2>1 DEF OrderInv
  <2> QED BY <2>1, <2>2 DEF OrderInv, Queue!FinishedInOrder
<1>8. CASE UNCHANGED Queue!vars
  BY <1>8 DEF OrderInv, Queue!FinishedInOrder, Queue!vars
<1> QED BY <1>5, <1>6, <1>7, <1>8 DEF Queue!Next

(***************************************************************************)
(* The engine is called back for its buffers in the order it handed them   *)
(* over and never twice for one (opensles.c mix_player), whatever is       *)
(* cleared, stopped and enqueued between: it recycles a buffer's memory on *)
(* the call.                                                               *)
(***************************************************************************)
THEOREM CompletedInOrder == ~ClearWhileMixing /\ Spec => []Queue!FinishedInOrder
<1>1. Init /\ CountInv => OrderInv
  BY DEF Init, OrderInv, Queue!FinishedInOrder
<1>2. OrderInv => Queue!FinishedInOrder
  BY DEF OrderInv
<1>3. CASE ClearWhileMixing
  BY <1>3
<1>4. CASE ~ClearWhileMixing
  <2>1. IInv /\ IInv' /\ CountInv /\ OrderInv /\ [Next]_vars => OrderInv'
    BY <1>4, StepMaps, OrderKept
  <2> QED
    BY <1>1, <1>2, <1>4, <2>1, Invariance, CountInvariance, PTL DEF Spec
<1> QED BY <1>3, <1>4

=============================================================================
