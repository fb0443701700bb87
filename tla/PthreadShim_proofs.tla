------------------------- MODULE PthreadShim_proofs -------------------------
(***************************************************************************)
(* The engine's critical sections exclude each other, for any number of    *)
(* producers and consumers, either initializer and either place of the     *)
(* signal, when the first call on the mutex is made by one thread alone.   *)
(* That the condition variable may be allocated by several threads at once *)
(* does no harm to exclusion.  The rwlock leaves the queue alone, and a    *)
(* thread that writes the table is alone with it; and no wake-up is lost   *)
(* when signals are sent inside the mutex.                                 *)
(***************************************************************************)
EXTENDS RwlockShim, FiniteSetTheorems, TLAPS

(* TypeOK without the bound on the number of items. *)
TypeInv ==
    /\ mutex \in Objects \cup {ZERO, RECURSIVE_INIT}
    /\ cond \in Objects \cup {ZERO}
    /\ kind \in {ZERO, RECURSIVE_INIT}
    /\ recursive \subseteq Objects
    /\ owner \in [Objects -> Threads \cup {NoThread}]
    /\ count \in [Objects -> 0..2]
    /\ waiters \in [Objects -> SUBSET Threads]
    /\ pc \in [Threads -> {"out", "asleep", "sigCheck", "sigCreate", "signal"}
                            \cup LockPCs \cup InsidePCs]
    /\ obj \in [Threads -> Objects \cup {ZERO}]

(* Before the object exists one thread at most is on the mutex. *)
FirstUseInv ==
    /\ Uninitialized =>
         /\ \A t \in Threads : pc[t] \in {"out", "check", "create"}
         /\ \A t, u \in Threads : pc[t] # "out" /\ pc[u] # "out" => t = u
    /\ \A t \in Threads : pc[t] = "create" => Uninitialized
    /\ ~Uninitialized => (mutex \in recursive <=> kind = RECURSIVE_INIT)
    /\ recursive # {} => kind = RECURSIVE_INIT

(* A sleeper is on one condition variable, which exists, and comes back to *)
(* the mutex it left.                                                      *)
SleepInv ==
    /\ \A t \in Threads : pc[t] \in {"acquire", "asleep"} => obj[t] = mutex
    /\ \A t \in Threads : pc[t] \in {"sleep", "signal"} => cond # ZERO
    /\ \A t \in Threads :
         pc[t] \in {"waitCheck", "waitCreate", "sleep", "asleep"} => t \in Consumers
    /\ \A o \in Objects : \A t \in waiters[o] : pc[t] = "asleep"
    /\ \A o, q \in Objects : waiters[o] \cap waiters[q] # {} => o = q

(* Who is inside holds the mutex, and how often it is held. *)
HoldInv ==
    /\ \A o \in Objects : o # mutex => owner[o] = NoThread
    /\ \A o \in Objects : owner[o] = NoThread => count[o] = 0
    /\ \A t \in Threads : pc[t] \in InsidePCs => owner[mutex] = t
    /\ ~Uninitialized => \A t \in Threads : owner[mutex] = t =>
         \/ pc[t] \in LockPCs /\ Nests(t) /\ count[mutex] = 1
         \/ pc[t] \in InsidePCs /\ ~Nests(t) /\ count[mutex] = 1
         \/ pc[t] \in InsidePCs /\ Nests(t) /\ count[mutex] = 2
         \/ pc[t] = "leave" /\ Nests(t) /\ count[mutex] = 1

IInv == TypeInv /\ FirstUseInv /\ SleepInv /\ HoldInv

(* Nobody is on the mutex at first.                                      *)
LEMMA InitIInv == Init => IInv
<1> SUFFICES ASSUME Init PROVE IInv
  OBVIOUS
<1> USE ShimAssumption DEF Init
<1>1. TypeInv
  BY DEF TypeInv, Threads, Objects
<1>2. FirstUseInv
  BY DEF FirstUseInv, Uninitialized
<1>3. SleepInv
  BY DEF SleepInv
<1>4. HoldInv
  BY DEF HoldInv, InsidePCs, Uninitialized, Objects
<1> QED
  BY <1>1, <1>2, <1>3, <1>4 DEF IInv

(* The steps of pthread_mutex_lock_fake. *)
LEMMA LockSteps ==
  ASSUME IInv, ~SharedFirstUse, NEW t \in Threads,
         \/ Lock(t) \/ EnsureMutex(t) \/ CreateMutex(t) \/ CreateMutexFails(t)
         \/ ReadMutex(t)
  PROVE  IInv'
<1> USE ShimAssumption DEF IInv, Go, words, newlib, queue, Objects, LockPCs, InsidePCs
<1>1. TypeInv'
  <2>1. CASE Lock(t)
    BY <2>1 DEF TypeInv, Lock
  <2>2. CASE EnsureMutex(t)
    BY <2>2 DEF TypeInv, EnsureMutex
  <2>3. CASE CreateMutex(t)
    BY <2>3 DEF TypeInv, CreateMutex
  <2>4. CASE ReadMutex(t)
    <3>1. mutex \in Objects
      BY <2>4 DEF TypeInv, ReadMutex, FirstUseInv, Uninitialized
    <3> QED
      BY <2>4, <3>1 DEF TypeInv, ReadMutex
  <2>5. CASE CreateMutexFails(t)
    BY <2>5 DEF TypeInv, CreateMutexFails
  <2> QED
    BY <2>1, <2>2, <2>3, <2>4, <2>5
<1>2. FirstUseInv'
  <2>1. CASE Lock(t)
    BY <2>1 DEF TypeInv, Lock, FirstUseInv, Uninitialized
  <2>2. CASE EnsureMutex(t)
    BY <2>2 DEF TypeInv, EnsureMutex, FirstUseInv, Uninitialized
  <2>3. CASE CreateMutex(t)
    BY <2>3 DEF TypeInv, CreateMutex, FirstUseInv, Uninitialized, Threads
  <2>4. CASE ReadMutex(t)
    BY <2>4 DEF TypeInv, ReadMutex, FirstUseInv, Uninitialized
  <2>5. CASE CreateMutexFails(t)
    BY <2>5 DEF TypeInv, CreateMutexFails, FirstUseInv, Uninitialized
  <2> QED
    BY <2>1, <2>2, <2>3, <2>4, <2>5
<1>3. SleepInv'
  <2>1. CASE Lock(t)
    BY <2>1 DEF TypeInv, Lock, SleepInv
  <2>2. CASE EnsureMutex(t)
    BY <2>2 DEF TypeInv, EnsureMutex, SleepInv
  <2>3. CASE CreateMutex(t)
    BY <2>3 DEF TypeInv, CreateMutex, SleepInv, FirstUseInv
  <2>4. CASE ReadMutex(t)
    BY <2>4 DEF TypeInv, ReadMutex, SleepInv
  <2>5. CASE CreateMutexFails(t)
    BY <2>5 DEF TypeInv, CreateMutexFails, SleepInv
  <2> QED
    BY <2>1, <2>2, <2>3, <2>4, <2>5
<1>4. HoldInv'
  <2>1. CASE Lock(t)
    BY <2>1 DEF TypeInv, Lock, HoldInv, FirstUseInv, Uninitialized, Nests
  <2>2. CASE EnsureMutex(t)
    BY <2>2 DEF TypeInv, EnsureMutex, HoldInv, FirstUseInv, Uninitialized, Nests
  <2>3. CASE CreateMutex(t)
    BY <2>3 DEF TypeInv, CreateMutex, HoldInv, FirstUseInv, Uninitialized, Nests
  <2>4. CASE ReadMutex(t)
    BY <2>4 DEF TypeInv, ReadMutex, HoldInv, FirstUseInv, Uninitialized, Nests
  <2>5. CASE CreateMutexFails(t)
    BY <2>5 DEF TypeInv, CreateMutexFails, HoldInv, FirstUseInv, Uninitialized, Nests
  <2> QED
    BY <2>1, <2>2, <2>3, <2>4, <2>5
<1> QED
  BY <1>1, <1>2, <1>3, <1>4

(* newlib grants the mutex when it is free, or again to a nesting holder. *)
LEMMA AcquireStep ==
  ASSUME IInv, NEW t \in Threads, Acquire(t)
  PROVE  IInv'
<1> USE ShimAssumption DEF IInv, Go, words, newlib, queue, Objects, LockPCs, InsidePCs
<1> obj[t] = mutex /\ ~Uninitialized /\ mutex \in Threads
  BY DEF Acquire, SleepInv, FirstUseInv, TypeInv, Uninitialized
<1>1. CASE owner[mutex] = NoThread
  <2>1. count[mutex] = 0
    BY <1>1 DEF HoldInv
  <2>2. /\ owner' = [owner EXCEPT ![mutex] = t] /\ count' = [count EXCEPT ![mutex] = 1]
        /\ pc' = [pc EXCEPT ![t] = IF Nests(t) THEN "check" ELSE "in"]
        /\ pc[t] = "acquire"
    <3>1. owner' = [owner EXCEPT ![mutex] = t] /\ pc[t] = "acquire"
      BY DEF Acquire
    <3>2. count' = [count EXCEPT ![mutex] = count[mutex] + 1]
      BY DEF Acquire
    <3>3. count[mutex] + 1 = 1
      BY <2>1
    <3>4. owner[mutex] # t
      BY <1>1 DEF Threads
    <3>5. pc' = [pc EXCEPT ![t] = IF Nests(t) THEN "check" ELSE "in"]
      BY <3>4 DEF Acquire, Nests
    <3> QED
      BY <3>1, <3>2, <3>3, <3>5
  <2> HIDE DEF InsidePCs
  <2>3. "in" \in InsidePCs /\ "check" \notin InsidePCs
    BY DEF InsidePCs
  <2>4. TypeInv'
    BY <2>2, <2>3 DEF Acquire, TypeInv
  <2>5. FirstUseInv'
    BY <2>2 DEF Acquire, FirstUseInv, Uninitialized, TypeInv
  <2>6. SleepInv'
    BY <2>2 DEF Acquire, SleepInv, TypeInv
  <2>7. HoldInv'
    <3>1. \A u \in Threads : pc[u] \notin InsidePCs
      BY <1>1 DEF HoldInv
    <3> QED
      BY <2>2, <2>3, <3>1 DEF Acquire, HoldInv, Nests, Uninitialized, TypeInv
  <2> QED
    BY <2>4, <2>5, <2>6, <2>7
<1>2. CASE owner[mutex] # NoThread
  <2>1. owner[mutex] = t
    BY <1>2 DEF Acquire
  <2>2. Nests(t) /\ count[mutex] = 1
    BY <2>1 DEF HoldInv, Acquire
  <2>3. /\ owner' = [owner EXCEPT ![mutex] = t] /\ count' = [count EXCEPT ![mutex] = 2]
        /\ pc' = [pc EXCEPT ![t] = "in"]
        /\ pc[t] = "acquire"
    BY <2>1, <2>2 DEF Acquire, TypeInv
  <2> HIDE DEF InsidePCs
  <2>4. "in" \in InsidePCs
    BY DEF InsidePCs
  <2>5. TypeInv'
    BY <2>3, <2>4 DEF Acquire, TypeInv
  <2>6. FirstUseInv'
    BY <2>3 DEF Acquire, FirstUseInv, Uninitialized, TypeInv
  <2>7. SleepInv'
    BY <2>3 DEF Acquire, SleepInv, TypeInv
  <2>8. HoldInv'
    BY <2>1, <2>2, <2>3, <2>4 DEF Acquire, HoldInv, Nests, Uninitialized, TypeInv
  <2> QED
    BY <2>5, <2>6, <2>7, <2>8
<1> QED
  BY <1>1, <1>2

(* What a thread inside knows of the mutex it is about to release. *)
LEMMA InsideHolds ==
  ASSUME IInv, NEW t \in Threads, pc[t] \in InsidePCs
  PROVE  /\ ~Uninitialized /\ mutex \in Threads /\ owner[mutex] = t
         /\ count[mutex] \in {1, 2}
         /\ ~Nests(t) => count[mutex] = 1
         /\ \A u \in Threads : pc[u] \in InsidePCs => u = t
<1>1. ~Uninitialized
  BY DEF IInv, FirstUseInv, InsidePCs
<1>2. mutex \in Threads
  BY <1>1 DEF IInv, TypeInv, Uninitialized, Objects
<1> QED
  BY <1>1, <1>2 DEF IInv, HoldInv, LockPCs, InsidePCs

(* pthread_mutex_unlock_fake. *)
LEMMA UnlockStep ==
  ASSUME IInv, NEW t \in Threads, Unlock(t)
  PROVE  IInv'
<1> USE ShimAssumption DEF IInv, Go, words, newlib, queue, Objects
<1>1. pc[t] = "leave" /\ pc[t] \in InsidePCs
  BY DEF Unlock, InsidePCs
<1>2. /\ ~Uninitialized /\ mutex \in Threads /\ owner[mutex] = t
      /\ ~Nests(t) => count[mutex] = 1
      /\ count[mutex] \in {1, 2}
      /\ \A u \in Threads : pc[u] \in InsidePCs => u = t
  BY <1>1, InsideHolds
<1>3. CASE count[mutex] = 2
  <2>1. /\ owner' = [owner EXCEPT ![mutex] = t] /\ count' = [count EXCEPT ![mutex] = 1]
        /\ pc' = [pc EXCEPT ![t] = "leave"] /\ Nests(t)
    <3>1. /\ owner' = [owner EXCEPT ![mutex] = IF count[mutex] = 1 THEN NoThread ELSE t]
          /\ count' = [count EXCEPT ![mutex] = count[mutex] - 1]
      BY <1>2 DEF Unlock, Release
    <3>2. Nests(t) /\ count[mutex] > 1 /\ count[mutex] - 1 = 1
      BY <1>2, <1>3
    <3>3. pc' = [pc EXCEPT ![t] = "leave"]
      BY <3>2 DEF Unlock, Nests
    <3> QED
      BY <1>3, <3>1, <3>2, <3>3
  <2>2. TypeInv'
    BY <1>2, <2>1 DEF Unlock, TypeInv
  <2>3. FirstUseInv'
    BY <1>1, <1>2, <2>1 DEF Unlock, FirstUseInv, Uninitialized, TypeInv
  <2>4. SleepInv'
    BY <1>1, <2>1 DEF Unlock, SleepInv, TypeInv
  <2>5. HoldInv'
    BY <1>1, <1>2, <2>1 DEF Unlock, HoldInv, Nests, Uninitialized, TypeInv, LockPCs
  <2> QED
    BY <2>2, <2>3, <2>4, <2>5
<1>4. CASE count[mutex] = 1
  <2>1. /\ owner' = [owner EXCEPT ![mutex] = NoThread]
        /\ count' = [count EXCEPT ![mutex] = 0]
    BY <1>2, <1>4 DEF Unlock, Release, TypeInv
  <2>2. PICK to \in {"sigCheck", "out"} :
          /\ pc' = [pc EXCEPT ![t] = to]
          /\ to = "sigCheck" => SignalAfterUnlock
    <3>1. CASE t \in Producers /\ SignalAfterUnlock
      BY <1>4, <3>1 DEF Unlock, Nests
    <3>2. CASE ~(t \in Producers /\ SignalAfterUnlock)
      <4>1. ~(Nests(t) /\ count[mutex] > 1)
        BY <1>4
      <4>2. pc' = [pc EXCEPT ![t] = "out"]
        BY <3>2, <4>1 DEF Unlock, Nests
      <4> QED
        BY <4>2
    <3> QED
      BY <3>1, <3>2
  <2>3. to \notin InsidePCs
    BY <2>2 DEF InsidePCs
  <2>4. TypeInv'
    BY <1>2, <2>1, <2>2 DEF Unlock, TypeInv
  <2>5. FirstUseInv'
    BY <1>1, <1>2, <2>2 DEF Unlock, FirstUseInv, Uninitialized, TypeInv
  <2>6. SleepInv'
    BY <1>1, <2>2 DEF Unlock, SleepInv, TypeInv
  <2>7. HoldInv'
    BY <1>1, <1>2, <2>1, <2>2, <2>3 DEF Unlock, HoldInv, Uninitialized, TypeInv
  <2> QED
    BY <2>4, <2>5, <2>6, <2>7
<1> QED
  BY <1>2, <1>3, <1>4

(* The queue operations and the first use of the condition variable move a *)
(* thread within the monitor, or on to its signal.                         *)
LEMMA QueueSteps ==
  ASSUME IInv, NEW t \in Threads,
         \/ Produce(t) \/ Consume(t) \/ Wait(t)
         \/ EnsureCond(t) \/ CreateCond(t) \/ CreateCondFails(t)
  PROVE  IInv'
<1> USE ShimAssumption DEF IInv, Go, words, newlib, queue, Objects
<1>1. PICK to \in {"in", "out", "leave", "sigCheck", "sigCreate", "signal",
                   "waitCheck", "waitCreate", "sleep"} :
        /\ pc' = [pc EXCEPT ![t] = to]
        /\ pc[t] \in {"in", "sigCheck", "sigCreate", "waitCheck", "waitCreate"}
        /\ pc[t] \in InsidePCs <=> to \in InsidePCs
        /\ to \in {"waitCheck", "waitCreate", "sleep"} => t \in Consumers
        /\ to \in {"sleep", "signal"} => cond' # ZERO
  <2>1. CASE Produce(t)
    BY <2>1 DEF Produce, InsidePCs
  <2>2. CASE Consume(t) \/ Wait(t)
    BY <2>2 DEF Consume, Wait, InsidePCs
  <2>3. CASE EnsureCond(t)
    BY <2>3 DEF EnsureCond, InsidePCs, SleepInv
  <2>4. CASE CreateCond(t)
    BY <2>4 DEF CreateCond, InsidePCs, SleepInv, Threads
  <2>5. CASE CreateCondFails(t)
    BY <2>5 DEF CreateCondFails, InsidePCs
  <2> QED
    BY <2>1, <2>2, <2>3, <2>4, <2>5
<1>2. /\ UNCHANGED <<mutex, kind, recursive, owner, count, waiters, obj>>
      /\ cond' = cond \/ cond' = t
  BY DEF Produce, Consume, Wait, EnsureCond, CreateCond, CreateCondFails
<1>3. ~Uninitialized /\ pc[t] \notin LockPCs /\ to \notin LockPCs
  BY <1>1 DEF FirstUseInv, LockPCs
<1>4. TypeInv'
  BY <1>1, <1>2, <1>3 DEF TypeInv, InsidePCs
<1>5. FirstUseInv'
  BY <1>1, <1>2, <1>3 DEF TypeInv, FirstUseInv, Uninitialized
<1>6. SleepInv'
  BY <1>1, <1>2 DEF TypeInv, SleepInv, Threads
<1>7. HoldInv'
  BY <1>1, <1>2, <1>3 DEF TypeInv, HoldInv, Nests, Uninitialized
<1> QED
  BY <1>4, <1>5, <1>6, <1>7

(* pthread_cond_wait_fake releases the mutex and falls asleep in one step. *)
LEMMA SleepStep ==
  ASSUME IInv, NEW t \in Threads, Sleep(t)
  PROVE  IInv'
<1> USE ShimAssumption DEF IInv, Go, words, newlib, queue, Objects
<1>1. pc[t] = "sleep" /\ pc[t] \in InsidePCs /\ t \in Consumers
  BY DEF Sleep, InsidePCs, SleepInv
<1>2. /\ ~Uninitialized /\ mutex \in Threads /\ owner[mutex] = t
      /\ ~Nests(t) => count[mutex] = 1
      /\ \A u \in Threads : pc[u] \in InsidePCs => u = t
  BY <1>1, InsideHolds
<1>3. count[mutex] = 1 /\ cond \in Threads
  BY <1>1, <1>2 DEF Nests, TypeInv, SleepInv
<1>4. /\ owner' = [owner EXCEPT ![mutex] = NoThread]
      /\ count' = [count EXCEPT ![mutex] = 0]
      /\ pc' = [pc EXCEPT ![t] = "asleep"]
      /\ obj' = [obj EXCEPT ![t] = mutex]
      /\ waiters' = [waiters EXCEPT ![cond] = @ \cup {t}]
      /\ UNCHANGED <<words, recursive>>
  BY <1>2, <1>3 DEF Sleep, Release
<1>5. "asleep" \notin InsidePCs
  BY DEF InsidePCs
<1>6. TypeInv'
  BY <1>2, <1>3, <1>4 DEF TypeInv
<1>7. FirstUseInv'
  BY <1>1, <1>2, <1>4 DEF TypeInv, FirstUseInv, Uninitialized
<1>8. SleepInv'
  BY <1>1, <1>2, <1>3, <1>4 DEF TypeInv, SleepInv
<1>9. HoldInv'
  BY <1>1, <1>2, <1>4, <1>5 DEF TypeInv, HoldInv, Uninitialized
<1> QED
  BY <1>6, <1>7, <1>8, <1>9

(* A signal or a broadcast sends sleepers to the mutex they left. *)
LEMMA WakeSteps ==
  ASSUME IInv, NEW t \in Threads, pc[t] = "signal", Signal(t) \/ Broadcast(t)
  PROVE  IInv'
<1> USE ShimAssumption DEF IInv, words, newlib, queue, Objects
<1>1. PICK S \in SUBSET waiters[cond] : Wake(t, S)
  BY DEF Signal, Broadcast
<1>2. cond \in Threads
  BY DEF SleepInv, TypeInv
<1>3. S \subseteq Threads /\ \A u \in S : pc[u] = "asleep" /\ obj[u] = mutex
  BY <1>1, <1>2 DEF SleepInv, TypeInv
<1>4. PICK to \in {"out", "leave"} :
        /\ pc' = [u \in Threads |-> IF u \in S THEN "acquire"
                                    ELSE IF u = t THEN to ELSE pc[u]]
        /\ to = "leave" <=> ~SignalAfterUnlock
  BY <1>1 DEF Wake
<1>5. /\ waiters' = [waiters EXCEPT ![cond] = @ \ S]
      /\ UNCHANGED <<mutex, cond, kind, recursive, owner, count, obj>>
  BY <1>1 DEF Wake
<1>6. /\ pc[t] \in InsidePCs <=> to \in InsidePCs
      /\ "asleep" \notin InsidePCs /\ "acquire" \notin InsidePCs
  BY <1>4 DEF InsidePCs
<1>7. ~Uninitialized
  BY DEF FirstUseInv
<1>8. TypeInv'
  BY <1>2, <1>4, <1>5 DEF TypeInv, LockPCs, InsidePCs
<1>9. FirstUseInv'
  BY <1>4, <1>5, <1>7 DEF FirstUseInv, Uninitialized
<1>10. SleepInv'
  <2>1. /\ \A u \in Threads : pc'[u] \in {"acquire", "asleep"} => obj'[u] = mutex'
        /\ \A u \in Threads : pc'[u] \in {"sleep", "signal"} => cond' # ZERO
        /\ \A u \in Threads :
             pc'[u] \in {"waitCheck", "waitCreate", "sleep", "asleep"} => u \in Consumers
    BY <1>3, <1>4, <1>5 DEF SleepInv
  <2>2. \A o \in Threads : waiters'[o] \subseteq waiters[o]
    BY <1>2, <1>5 DEF TypeInv
  <2>3. \A o \in Threads : \A u \in waiters'[o] : u \notin S /\ u \in Threads
    BY <1>2, <1>5 DEF TypeInv, SleepInv
  <2>4. \A o \in Threads : \A u \in waiters'[o] : pc'[u] = "asleep"
    BY <2>2, <2>3, <1>4 DEF SleepInv
  <2> QED
    BY <2>1, <2>2, <2>4 DEF SleepInv
<1>11. HoldInv'
  BY <1>3, <1>4, <1>5, <1>6, <1>7 DEF HoldInv, Nests, Uninitialized, LockPCs
<1> QED
  BY <1>8, <1>9, <1>10, <1>11

(* A wait that times out goes to the mutex it left. *)
LEMMA TimeOutStep ==
  ASSUME IInv, NEW t \in Threads, TimeOut(t)
  PROVE  IInv'
<1> USE ShimAssumption DEF IInv, Go, words, newlib, queue, Objects
<1>1. /\ pc[t] = "asleep" /\ pc' = [pc EXCEPT ![t] = "acquire"] /\ obj[t] = mutex
      /\ waiters' = [o \in Threads |-> waiters[o] \ {t}]
      /\ UNCHANGED <<words, recursive, owner, count, obj, queue>>
  BY DEF TimeOut, SleepInv
<1>2. ~Uninitialized
  BY <1>1 DEF FirstUseInv
<1>3. "asleep" \notin InsidePCs /\ "acquire" \notin InsidePCs
  BY DEF InsidePCs
<1>4. TypeInv'
  BY <1>1 DEF TypeInv, LockPCs
<1>5. FirstUseInv'
  BY <1>1, <1>2 DEF FirstUseInv, Uninitialized, TypeInv
<1>6. SleepInv'
  BY <1>1 DEF SleepInv, TypeInv
<1>7. HoldInv'
  BY <1>1, <1>2, <1>3 DEF HoldInv, Nests, Uninitialized, LockPCs, TypeInv
<1> QED
  BY <1>4, <1>5, <1>6, <1>7

(* Every step keeps the invariant. *)
LEMMA NextIInv == ~SharedFirstUse /\ IInv /\ [Next]_vars => IInv'
<1> SUFFICES ASSUME ~SharedFirstUse, IInv, [Next]_vars PROVE IInv'
  OBVIOUS
<1>1. ASSUME NEW t \in Threads, Lock(t) \/ Step(t) \/ TimeOut(t) \/ CreateFails(t)
      PROVE  IInv'
  BY <1>1, LockSteps, AcquireStep, UnlockStep, QueueSteps, SleepStep, WakeSteps,
     TimeOutStep
  DEF Step, CreateFails
<1>2. CASE UNCHANGED vars
  BY <1>2 DEF vars, words, newlib, queue, IInv, TypeInv, FirstUseInv, SleepInv,
     HoldInv, Uninitialized, Nests
<1> QED
  BY <1>1, <1>2 DEF Next

(* The invariant holds throughout. *)
LEMMA Invariance == ~SharedFirstUse /\ Spec => []IInv
<1>1. CASE SharedFirstUse
  BY <1>1
<1>2. CASE ~SharedFirstUse
  <2>1. IInv /\ [Next]_vars => IInv'
    BY <1>2, NextIInv
  <2> QED
    BY <2>1, InitIInv, PTL DEF Spec
<1> QED
  BY <1>1, <1>2

(***************************************************************************)
(* Two engine threads are never inside the mutex at once, nested locking   *)
(* and the release inside pthread_cond_wait included, when the mutex's     *)
(* object is not made by two threads together.                             *)
(***************************************************************************)
THEOREM Exclusion == ~SharedFirstUse /\ Spec => []MutualExclusion
<1>1. IInv => MutualExclusion
  BY InsideHolds DEF MutualExclusion
<1> QED
  BY Invariance, <1>1, PTL

(***************************************************************************)
(* Under the same condition whoever is inside the mutex holds the object   *)
(* that the engine's word names.                                           *)
(***************************************************************************)
THEOREM Backed == ~SharedFirstUse /\ Spec => []BackedByTheSlot
<1>1. IInv => BackedByTheSlot
  BY DEF IInv, HoldInv, BackedByTheSlot
<1> QED
  BY Invariance, <1>1, PTL

----------------------------------------------------------------------------
(* Consumers that will look at the items, and producers that have still to *)
(* signal theirs.                                                          *)
OnTheWay ==
    {u \in Consumers : pc[u] \in {"acquire", "in"}}
      \cup {u \in Producers : pc[u] \in {"sigCheck", "sigCreate", "signal"}}

(***************************************************************************)
(* No wake-up is lost: while a consumer sleeps, there are as many threads  *)
(* on their way as items that wait to be consumed.                         *)
(***************************************************************************)
WakeupsSuffice ==
    \A c \in Consumers : pc[c] = "asleep" => items <= Cardinality(OnTheWay)

(* Signals are sent inside the mutex, so one thread at most is about to    *)
(* allocate the condition variable, sleepers are all on the one object,    *)
(* and who is going to sleep still sees no item.                           *)
CondInv ==
    /\ items \in Nat
    /\ \A t \in Threads : pc[t] = "asleep" => cond # ZERO /\ t \in waiters[cond]
    /\ \A t \in Threads : pc[t] \in {"waitCreate", "sigCreate"} => cond = ZERO
    /\ \A t \in Threads : pc[t] \in {"waitCheck", "waitCreate", "sleep"} => items = 0

WakeInv == CondInv /\ WakeupsSuffice

(* Who is on the way is a finite set of threads.                         *)
LEMMA OnTheWayIs ==
  ASSUME TypeInv
  PROVE  /\ IsFiniteSet(OnTheWay) /\ Cardinality(OnTheWay) \in Nat
         /\ OnTheWay \subseteq Threads
         /\ \A t \in Consumers : t \in OnTheWay <=> pc[t] \in {"acquire", "in"}
         /\ \A t \in Producers :
              t \in OnTheWay <=> pc[t] \in {"sigCheck", "sigCreate", "signal"}
<1>1. OnTheWay \subseteq Threads
  BY DEF OnTheWay, Threads
<1>2. IsFiniteSet(OnTheWay)
  BY <1>1, ShimAssumption, FS_Subset
<1>3. Cardinality(OnTheWay) \in Nat
  BY <1>2, FS_CardinalityType
<1> QED
  BY <1>1, <1>2, <1>3, ShimAssumption DEF OnTheWay

(* What one thread more, or one less, does to the count.                   *)
LEMMA CountChanges ==
  ASSUME NEW S, IsFiniteSet(S), NEW t
  PROVE  /\ Cardinality(S) \in Nat
         /\ Cardinality(S) <= Cardinality(S \cup {t})
         /\ t \notin S => Cardinality(S \cup {t}) = Cardinality(S) + 1
         /\ Cardinality(S) <= Cardinality(S \ {t}) + 1
         /\ Cardinality(S \ {t}) \in Nat /\ Cardinality(S \cup {t}) \in Nat
<1>1. Cardinality(S) \in Nat
  BY FS_CardinalityType
<1>2. /\ IsFiniteSet(S \cup {t})
      /\ Cardinality(S \cup {t}) = IF t \in S THEN Cardinality(S) ELSE Cardinality(S) + 1
  BY FS_AddElement
<1>3. /\ IsFiniteSet(S \ {t})
      /\ Cardinality(S \ {t}) = IF t \in S THEN Cardinality(S) - 1 ELSE Cardinality(S)
  BY FS_RemoveElement
<1>4. Cardinality(S \ {t}) \in Nat /\ Cardinality(S \cup {t}) \in Nat
  BY <1>2, <1>3, FS_CardinalityType
<1> QED
  BY <1>1, <1>2, <1>3, <1>4

(* The steps of lock and unlock, and of a wait that times out: a consumer  *)
(* may come on its way.                                                    *)
LEMMA LockWake ==
  ASSUME IInv, WakeInv, ~SignalAfterUnlock, NEW t \in Threads,
         \/ Lock(t) \/ EnsureMutex(t) \/ CreateMutex(t) \/ ReadMutex(t)
         \/ Acquire(t) \/ Unlock(t) \/ TimeOut(t) \/ CreateMutexFails(t)
  PROVE  WakeInv'
<1> USE ShimAssumption DEF Go
<1>1. UNCHANGED <<cond, items>>
  BY DEF Lock, EnsureMutex, CreateMutex, ReadMutex, Acquire, Unlock, TimeOut,
         CreateMutexFails, words, queue
<1>2. PICK to \in {"out", "check", "create", "read", "acquire", "in", "leave"} :
        /\ pc' = [pc EXCEPT ![t] = to]
        /\ pc[t] \in {"out", "check", "create", "read", "acquire", "leave", "asleep"}
        /\ pc[t] = "acquire" /\ t \in Consumers => to = "in"
  <2>1. CASE \/ Lock(t) \/ EnsureMutex(t) \/ CreateMutex(t) \/ ReadMutex(t)
            \/ TimeOut(t) \/ CreateMutexFails(t)
    BY <2>1 DEF Lock, EnsureMutex, CreateMutex, ReadMutex, TimeOut, CreateMutexFails
  <2>2. CASE Acquire(t)
    BY <2>2 DEF Acquire, Nests
  <2>3. CASE Unlock(t)
    BY <2>3 DEF Unlock
  <2> QED
    BY <2>1, <2>2, <2>3
<1>3. \A u \in Threads : u # t => (\A o \in Objects : u \in waiters[o] => u \in waiters'[o])
  BY DEF Lock, EnsureMutex, CreateMutex, ReadMutex, Acquire, Unlock, TimeOut,
         CreateMutexFails, newlib
<1>4. DOMAIN pc = Threads
  BY DEF IInv, TypeInv
<1>5. pc'[t] = to /\ \A u \in Threads : u # t => pc'[u] = pc[u]
  BY <1>2, <1>4
<1>6. CondInv'
  BY <1>1, <1>2, <1>3, <1>5 DEF WakeInv, CondInv, IInv, TypeInv
<1>7. ASSUME NEW c \in Consumers, pc'[c] = "asleep"
      PROVE  items <= Cardinality(OnTheWay')
  <2>1. c \in Threads /\ c # t /\ pc[c] = "asleep"
    BY <1>2, <1>5, <1>7 DEF Threads
  <2>2. items <= Cardinality(OnTheWay) /\ items \in Nat /\ IsFiniteSet(OnTheWay)
        /\ Cardinality(OnTheWay) \in Nat
    BY <2>1, OnTheWayIs DEF IInv, WakeInv, WakeupsSuffice, CondInv
  <2>3. OnTheWay' = OnTheWay \/ OnTheWay' = OnTheWay \cup {t}
    BY <1>2, <1>5 DEF OnTheWay, Threads
  <2>4. /\ Cardinality(OnTheWay) <= Cardinality(OnTheWay \cup {t})
        /\ Cardinality(OnTheWay \cup {t}) \in Nat
    BY <2>2, CountChanges
  <2> QED
    BY <2>2, <2>3, <2>4
<1> QED
  BY <1>1, <1>6, <1>7 DEF WakeInv, WakeupsSuffice

(* An item comes with a signaller and goes with a consumer; the condition  *)
(* variable is allocated when nobody sleeps.                               *)
LEMMA QueueWake ==
  ASSUME IInv, WakeInv, ~SignalAfterUnlock, NEW t \in Threads,
         \/ Produce(t) \/ Consume(t) \/ Wait(t)
         \/ EnsureCond(t) \/ CreateCond(t) \/ CreateCondFails(t)
  PROVE  WakeInv'
<1> USE ShimAssumption DEF Go
<1>1. DOMAIN pc = Threads /\ IInv /\ CondInv /\ items \in Nat
  BY DEF IInv, TypeInv, WakeInv, CondInv
<1>2. UNCHANGED waiters /\ pc[t] \in InsidePCs
  BY DEF Produce, Consume, Wait, EnsureCond, CreateCond, CreateCondFails, newlib,
         InsidePCs
<1>3. \A u \in Threads : u # t => pc[u] \notin InsidePCs
  BY <1>2, InsideHolds
<1>4. \A u \in Threads : u # t =>
        pc[u] \notin {"waitCheck", "waitCreate", "sleep", "sigCreate"}
  BY <1>3 DEF InsidePCs
<1>5. /\ IsFiniteSet(OnTheWay) /\ Cardinality(OnTheWay) \in Nat
      /\ (t \in Consumers => (t \in OnTheWay <=> pc[t] \in {"acquire", "in"}))
      /\ (t \in Producers =>
           (t \in OnTheWay <=> pc[t] \in {"sigCheck", "sigCreate", "signal"}))
  BY <1>1, OnTheWayIs DEF IInv
<1>6. /\ Cardinality(OnTheWay \cup {t}) \in Nat /\ Cardinality(OnTheWay \ {t}) \in Nat
      /\ t \notin OnTheWay => Cardinality(OnTheWay \cup {t}) = Cardinality(OnTheWay) + 1
      /\ Cardinality(OnTheWay) <= Cardinality(OnTheWay \ {t}) + 1
  BY <1>5, CountChanges
<1>7. ASSUME NEW to, pc' = [pc EXCEPT ![t] = to]
      PROVE  pc'[t] = to /\ \A u \in Threads : u # t => pc'[u] = pc[u]
  BY <1>1, <1>7
<1>8. CASE Produce(t)
  <2>1. /\ pc' = [pc EXCEPT ![t] = "sigCheck"] /\ pc[t] = "in" /\ t \in Producers
        /\ items' = items + 1 /\ cond' = cond
    BY <1>8 DEF Produce, words
  <2>2. pc'[t] = "sigCheck" /\ \A u \in Threads : u # t => pc'[u] = pc[u]
    BY <1>7, <2>1
  <2>3. CondInv'
    BY <1>1, <1>2, <1>4, <2>1, <2>2 DEF CondInv
  <2>4. OnTheWay' = OnTheWay \cup {t} /\ t \notin OnTheWay
    BY <1>5, <2>1, <2>2 DEF OnTheWay, Threads
  <2>5. ASSUME NEW c \in Consumers, pc'[c] = "asleep"
        PROVE  items' <= Cardinality(OnTheWay')
    <3>1. pc[c] = "asleep"
      BY <2>2, <2>5 DEF Threads
    <3> QED
      BY <1>1, <1>5, <1>6, <2>1, <2>4, <3>1 DEF WakeInv, WakeupsSuffice
  <2> QED
    BY <2>3, <2>5 DEF WakeInv, WakeupsSuffice
<1>9. CASE Consume(t)
  <2>1. /\ pc' = [pc EXCEPT ![t] = "leave"] /\ pc[t] = "in" /\ t \in Consumers
        /\ items > 0 /\ items' = items - 1 /\ cond' = cond
    BY <1>9 DEF Consume, words
  <2>2. pc'[t] = "leave" /\ \A u \in Threads : u # t => pc'[u] = pc[u]
    BY <1>7, <2>1
  <2>3. CondInv'
    BY <1>1, <1>2, <1>4, <2>1, <2>2 DEF CondInv
  <2>4. OnTheWay' = OnTheWay \ {t}
    BY <1>5, <2>1, <2>2 DEF OnTheWay, Threads
  <2>5. ASSUME NEW c \in Consumers, pc'[c] = "asleep"
        PROVE  items' <= Cardinality(OnTheWay')
    <3>1. pc[c] = "asleep"
      BY <2>2, <2>5 DEF Threads
    <3>2. items <= Cardinality(OnTheWay)
      BY <3>1 DEF WakeInv, WakeupsSuffice
    <3> QED
      BY <1>1, <1>5, <1>6, <2>1, <2>4, <3>2
  <2> QED
    BY <2>3, <2>5 DEF WakeInv, WakeupsSuffice
<1>10. CASE Wait(t)
  <2>1. pc' = [pc EXCEPT ![t] = "waitCheck"] /\ items = 0 /\ UNCHANGED <<items, cond>>
    BY <1>10 DEF Wait, words, queue
  <2>2. pc'[t] = "waitCheck" /\ \A u \in Threads : u # t => pc'[u] = pc[u]
    BY <1>7, <2>1
  <2>3. CondInv'
    BY <1>1, <1>2, <2>1, <2>2 DEF CondInv
  <2>4. OnTheWay' \subseteq OnTheWay
    BY <2>2 DEF OnTheWay, Threads
  <2>5. Cardinality(OnTheWay') \in Nat
    BY <1>5, <2>4, FS_Subset, FS_CardinalityType
  <2> QED
    BY <2>1, <2>3, <2>5 DEF WakeInv, WakeupsSuffice
<1>11. CASE EnsureCond(t) \/ CreateCond(t)
  <2>1. PICK to \in {"waitCreate", "sleep", "sigCreate", "signal"} :
          /\ pc' = [pc EXCEPT ![t] = to]
          /\ to \in {"waitCreate", "sleep"} => pc[t] \in {"waitCheck", "waitCreate"}
          /\ to \in {"sigCreate", "signal"} => pc[t] \in {"sigCheck", "sigCreate"}
          /\ to \in {"waitCreate", "sigCreate"} => cond = ZERO /\ cond' = ZERO
          /\ pc[t] \in {"waitCheck", "sigCheck"} => cond' = cond
          /\ pc[t] \in {"waitCheck", "waitCreate", "sigCheck", "sigCreate"}
    BY <1>11 DEF EnsureCond, CreateCond, words
  <2>2. pc'[t] = to /\ \A u \in Threads : u # t => pc'[u] = pc[u]
    BY <1>7, <2>1
  <2>3. UNCHANGED items
    BY <1>11 DEF EnsureCond, CreateCond, queue
  <2>4. OnTheWay' = OnTheWay
    BY <2>1, <2>2, ShimAssumption DEF OnTheWay, Threads
  <2>5. ASSUME NEW u \in Threads, pc'[u] = "asleep" PROVE pc[u] = "asleep" /\ cond' = cond
    <3>1. pc[u] = "asleep"
      BY <2>1, <2>2, <2>5
    <3>2. cond # ZERO
      BY <1>1, <3>1 DEF CondInv
    <3>3. pc[t] \notin {"waitCreate", "sigCreate"}
      BY <1>1, <3>2 DEF CondInv
    <3> QED
      BY <2>1, <3>1, <3>3
  <2>6. CondInv'
    <3>1. \A u \in Threads : pc'[u] = "asleep" => cond' # ZERO /\ u \in waiters'[cond']
      BY <1>1, <1>2, <2>5 DEF CondInv
    <3>2. \A u \in Threads : pc'[u] \in {"waitCreate", "sigCreate"} => cond' = ZERO
      BY <1>4, <2>1, <2>2
    <3>3. \A u \in Threads : pc'[u] \in {"waitCheck", "waitCreate", "sleep"} => items' = 0
      BY <1>1, <1>4, <2>1, <2>2, <2>3 DEF CondInv
    <3> QED
      BY <1>1, <2>3, <3>1, <3>2, <3>3 DEF CondInv
  <2>7. WakeupsSuffice'
    BY <2>3, <2>4, <2>5 DEF WakeInv, WakeupsSuffice, Threads
  <2> QED
    BY <2>6, <2>7 DEF WakeInv
<1>12. CASE CreateCondFails(t)
  <2>1. PICK to \in {"in", "leave"} : pc' = [pc EXCEPT ![t] = to]
    BY <1>12 DEF CreateCondFails
  <2>2. pc'[t] = to /\ \A u \in Threads : u # t => pc'[u] = pc[u]
    BY <1>7, <2>1
  <2>3. pc[t] \in {"waitCreate", "sigCreate"} /\ UNCHANGED <<cond, items>>
    BY <1>12 DEF CreateCondFails, words, queue
  <2>4. \A u \in Threads : pc'[u] # "asleep"
    BY <1>1, <2>2, <2>3 DEF CondInv
  <2> QED
    BY <1>1, <1>2, <1>4, <2>2, <2>3, <2>4 DEF WakeInv, CondInv, WakeupsSuffice, Threads
<1> QED
  BY <1>8, <1>9, <1>10, <1>11, <1>12

(* Who falls asleep does so while there is no item, in one step with the   *)
(* release of the mutex.                                                   *)
LEMMA SleepWake ==
  ASSUME IInv, WakeInv, NEW t \in Threads, Sleep(t)
  PROVE  WakeInv'
<1> USE ShimAssumption DEF Go
<1>1. /\ DOMAIN pc = Threads /\ CondInv /\ items \in Nat /\ items = 0
      /\ cond \in Objects /\ DOMAIN waiters = Objects
  BY DEF IInv, TypeInv, SleepInv, WakeInv, CondInv, Sleep
<1>2. /\ pc' = [pc EXCEPT ![t] = "asleep"] /\ UNCHANGED <<cond, items>>
      /\ waiters' = [waiters EXCEPT ![cond] = @ \cup {t}]
  BY DEF Sleep, words, queue
<1>3. pc'[t] = "asleep" /\ \A u \in Threads : u # t => pc'[u] = pc[u]
  BY <1>1, <1>2
<1>4. cond # ZERO /\ waiters'[cond] = waiters[cond] \cup {t}
  BY <1>1, <1>2 DEF Objects, Threads
<1>5. CondInv'
  BY <1>1, <1>2, <1>3, <1>4 DEF CondInv
<1>6. OnTheWay' \subseteq OnTheWay
  BY <1>3 DEF OnTheWay, Threads
<1>7. Cardinality(OnTheWay') \in Nat
  BY <1>6, OnTheWayIs, FS_Subset, FS_CardinalityType DEF IInv
<1> QED
  BY <1>1, <1>2, <1>5, <1>7 DEF WakeInv, WakeupsSuffice

(* A signal puts one sleeper in the place of the signaller; a signal that  *)
(* finds none, and a broadcast, leave nobody asleep.                       *)
LEMMA SignalWake ==
  ASSUME IInv, WakeInv, ~SignalAfterUnlock, NEW t \in Threads, pc[t] = "signal",
         Signal(t) \/ Broadcast(t)
  PROVE  WakeInv'
<1> USE ShimAssumption
<1>1. PICK S \in SUBSET waiters[cond] :
        /\ Wake(t, S)
        /\ S = waiters[cond] \/ \E u \in waiters[cond] : S = {u}
  BY DEF Signal, Broadcast
<1>2. /\ cond \in Objects /\ cond # ZERO /\ DOMAIN waiters = Objects
      /\ \A u \in waiters[cond] : u \in Threads /\ pc[u] = "asleep"
      /\ \A u \in waiters[cond] : u \in Consumers
  <2>1. cond \in Objects /\ cond # ZERO /\ DOMAIN waiters = Objects
    BY DEF IInv, TypeInv, SleepInv
  <2>2. \A u \in waiters[cond] : u \in Threads /\ pc[u] = "asleep"
    BY <2>1 DEF IInv, TypeInv, SleepInv
  <2> QED
    BY <2>1, <2>2 DEF IInv, SleepInv
<1>3. /\ \A u \in S : u # t /\ u \in Threads
      /\ \A u \in S : pc'[u] = "acquire"
      /\ pc'[t] = "leave"
      /\ \A u \in Threads : u # t /\ u \notin S => pc'[u] = pc[u]
      /\ UNCHANGED <<cond, items>>
      /\ waiters'[cond] = waiters[cond] \ S
  BY <1>1, <1>2 DEF Wake, words, queue
<1>4. CondInv'
  BY <1>2, <1>3 DEF WakeInv, CondInv
<1>5. ASSUME NEW c \in Consumers, pc'[c] = "asleep"
      PROVE  items <= Cardinality(OnTheWay')
  <2>1. c \in Threads /\ pc[c] = "asleep" /\ c \notin S
    BY <1>3, <1>5 DEF Threads
  <2>2. c \in waiters[cond]
    BY <2>1 DEF WakeInv, CondInv
  <2>3. PICK u \in waiters[cond] : S = {u}
    BY <1>1, <2>1, <2>2
  <2>4. u \in Consumers /\ pc[u] = "asleep" /\ u # t /\ pc'[u] = "acquire"
    BY <1>2, <1>3, <2>3
  <2>5. OnTheWay' = (OnTheWay \ {t}) \cup {u} /\ u \notin OnTheWay \ {t}
    BY <1>3, <2>3, <2>4 DEF OnTheWay, Threads
  <2>6. /\ IsFiniteSet(OnTheWay \ {t})
        /\ Cardinality(OnTheWay) <= Cardinality(OnTheWay \ {t}) + 1
        /\ Cardinality(OnTheWay) \in Nat /\ Cardinality(OnTheWay \ {t}) \in Nat
    BY OnTheWayIs, CountChanges, FS_Subset DEF IInv
  <2>7. Cardinality((OnTheWay \ {t}) \cup {u}) = Cardinality(OnTheWay \ {t}) + 1
    BY <2>5, <2>6, CountChanges
  <2>8. items <= Cardinality(OnTheWay) /\ items \in Nat
    BY <2>1 DEF WakeInv, WakeupsSuffice, CondInv
  <2> QED
    BY <2>5, <2>6, <2>7, <2>8
<1> QED
  BY <1>3, <1>4, <1>5 DEF WakeInv, WakeupsSuffice

(* However many threads add and take items and whoever allocates the       *)
(* condition variable, a consumer that sleeps beside an item is on its way *)
(* to be woken (imports.c:136, 148-161): signals are sent inside the mutex *)
(* and the first call on the mutex is one thread's.                        *)
THEOREM NoWakeupLost ==
  ~SharedFirstUse /\ ~SignalAfterUnlock /\ Spec => []WakeupsSuffice
<1>1. CASE SharedFirstUse \/ SignalAfterUnlock
  BY <1>1
<1>2. CASE ~SharedFirstUse /\ ~SignalAfterUnlock
  <2>1. Init => WakeInv
    BY ShimAssumption DEF Init, WakeInv, CondInv, WakeupsSuffice, Threads
  <2>2. IInv /\ WakeInv /\ [Next]_vars => WakeInv'
    <3> SUFFICES ASSUME IInv, WakeInv, [Next]_vars PROVE WakeInv'
      OBVIOUS
    <3>1. ASSUME NEW t \in Threads, Lock(t) \/ Step(t) \/ TimeOut(t) \/ CreateFails(t)
          PROVE  WakeInv'
      BY <1>2, <3>1, LockWake, QueueWake, SleepWake, SignalWake DEF Step, CreateFails
    <3>2. CASE UNCHANGED vars
      BY <3>2 DEF vars, words, newlib, queue, WakeInv, CondInv, WakeupsSuffice, OnTheWay
    <3> QED
      BY <3>1, <3>2 DEF Next
  <2>3. Spec => []IInv
    BY <1>2, Invariance
  <2>4. WakeInv => WakeupsSuffice
    BY DEF WakeInv
  <2> QED
    BY <2>1, <2>2, <2>3, <2>4, PTL DEF Spec
<1> QED
  BY <1>1, <1>2

----------------------------------------------------------------------------
(* The threads' way through the table is a stutter of the queue.           *)
LEMMA StepIsQueue ==
  ASSUME [ThreadsNext]_allVars
  PROVE  [Next]_vars
<1>1. CASE UNCHANGED allVars
  BY <1>1 DEF allVars
<1>2. ASSUME NEW t \in Threads, TableStep(t)
      PROVE  UNCHANGED vars
  BY <1>2 DEF TableStep, GetRwlock, CreateRwlock, ReadRwlock, RdLock, WrLock, RwUnlock
<1>3. ASSUME NEW t \in Threads, QueueStep(t, Step(t) \/ Lock(t) \/ TimeOut(t) \/ CreateFails(t))
      PROVE  Next
  BY <1>3 DEF QueueStep, Next
<1> QED
  BY <1>1, <1>2, <1>3 DEF ThreadsNext

(* Every behaviour of the threads is one of the queue, so that what is     *)
(* proved of PthreadShim holds beside the rwlock.                          *)
THEOREM QueueUndisturbed == ThreadsSpec => Spec
<1>1. ThreadsInit => Init
  BY DEF ThreadsInit
<1>2. [ThreadsNext]_allVars => [Next]_vars
  BY StepIsQueue
<1> QED
  BY <1>1, <1>2, PTL DEF ThreadsSpec, Spec

TableType ==
    /\ rw \in Threads \cup {ZERO}
    /\ readers \in [Threads -> SUBSET Threads]
    /\ writer \in [Threads -> Threads \cup {NoThread}]
    /\ stage \in [Threads -> {"new", "create", "read", "lock", "reading",
                               "writing", "joined"}]
    /\ lock \in [Threads -> Threads \cup {ZERO}]

(* Before the lock exists one thread at most makes it; then all threads    *)
(* are on it, and it knows exactly who reads and who writes.               *)
TableInv ==
    /\ TableType
    /\ rw = ZERO => \A t \in Threads : stage[t] \in {"new", "create"}
    /\ \A t \in Threads : stage[t] = "create" => rw = ZERO
    /\ \A t, u \in Threads : stage[t] = "create" /\ stage[u] = "create" => t = u
    /\ \A t \in Threads : stage[t] = "lock" => lock[t] = rw
    /\ \A o \in Threads : o # rw => writer[o] = NoThread /\ readers[o] = {}
    /\ rw # ZERO =>
         /\ \A t \in Threads : stage[t] = "writing" <=> writer[rw] = t
         /\ \A t \in Threads : stage[t] = "reading" <=> t \in readers[rw]
         /\ writer[rw] # NoThread => readers[rw] = {}

(* Nobody is on the table at first.                                        *)
LEMMA InitTable == ThreadsInit => TableInv
  BY ShimAssumption DEF ThreadsInit, TableInv, TableType, Objects

(* Each step through the table keeps what the lock knows.                  *)
LEMMA TableSteps ==
  ASSUME TableInv, ~SharedFirstUse, NEW t \in Threads, TableStep(t)
  PROVE  TableInv'
<1> USE ShimAssumption DEF TableInv, TableType, To, Threads
<1> ZERO \notin Threads /\ NoThread \notin Threads
  OBVIOUS
<1> HIDE DEF Threads
<1>1. CASE GetRwlock(t)
  BY <1>1 DEF GetRwlock
<1>2. CASE CreateRwlock(t)
  BY <1>2 DEF CreateRwlock
<1>3. CASE ReadRwlock(t)
  BY <1>3 DEF ReadRwlock
<1>4. CASE RdLock(t)
  BY <1>4 DEF RdLock
<1>5. CASE WrLock(t)
  BY <1>5 DEF WrLock
<1>6. CASE RwUnlock(t)
  BY <1>6 DEF RwUnlock
<1> QED
  BY <1>1, <1>2, <1>3, <1>4, <1>5, <1>6 DEF TableStep

(* A thread that changes the table is alone with it, for any number of     *)
(* threads, when the lock is not made by two threads together.             *)
THEOREM WritersAlone == ~SharedFirstUse /\ ThreadsSpec => []WriterAlone
<1>1. CASE SharedFirstUse
  BY <1>1
<1>2. CASE ~SharedFirstUse
  <2>1. TableInv /\ [ThreadsNext]_allVars => TableInv'
    <3> SUFFICES ASSUME TableInv, [ThreadsNext]_allVars PROVE TableInv'
      OBVIOUS
    <3>1. CASE UNCHANGED table
      BY <3>1 DEF table, TableInv, TableType
    <3>2. ASSUME NEW t \in Threads, TableStep(t)
          PROVE  TableInv'
      BY <1>2, <3>2, TableSteps
    <3> QED
      BY <3>1, <3>2 DEF ThreadsNext, QueueStep, allVars
  <2>2. TableInv => WriterAlone
    BY ShimAssumption DEF TableInv, TableType, WriterAlone, Threads
  <2> QED
    BY <2>1, <2>2, InitTable, PTL DEF ThreadsSpec
<1> QED
  BY <1>1, <1>2

=============================================================================
