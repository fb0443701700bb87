---------------------------- MODULE PthreadShim ----------------------------
(***************************************************************************)
(* The pthread shims of imports.c: a mutex and a condition variable are    *)
(* words in engine memory, zero (or bionic's recursive initializer) until  *)
(* the first call on them allocates the newlib object and stores its       *)
(* address.  The test of the word and the store to it are separate steps.  *)
(*                                                                         *)
(* Engine threads use one mutex and one condition variable as a queue:     *)
(* producers add items and signal, consumers wait while there is none.     *)
(* The newlib object a thread allocates is named after the thread.         *)
(***************************************************************************)
EXTENDS Naturals, FiniteSets

CONSTANTS
    Producers, Consumers,
    MaxItems,           \* bound: items ever produced
    ZERO,               \* an untouched word
    RECURSIVE_INIT,     \* 0x4000, bionic's static recursive initializer
    NoThread,
    Initializers,       \* what the engine's mutex word may hold at first
    SharedFirstUse,     \* may two threads make the first call on the mutex?
    SignalAfterUnlock   \* do producers signal without holding the mutex?

Threads == Producers \cup Consumers
Objects == Threads

ASSUME ShimAssumption ==
    /\ Producers \cap Consumers = {} /\ IsFiniteSet(Threads)
    /\ ZERO # RECURSIVE_INIT
    /\ {ZERO, RECURSIVE_INIT, NoThread} \cap Threads = {}
    /\ MaxItems \in Nat
    /\ Initializers \subseteq {ZERO, RECURSIVE_INIT}
    /\ SharedFirstUse \in BOOLEAN /\ SignalAfterUnlock \in BOOLEAN

VARIABLES
    mutex, cond,    \* the two words
    kind,           \* observed: what the mutex word held at first
    recursive,      \* newlib mutexes created recursive
    owner, count,   \* newlib mutexes: holder, and how often it holds it
    waiters,        \* newlib condition variables: the threads asleep on each
    pc,             \* per thread
    obj,            \* the newlib mutex a thread called pthread_mutex_lock on
    items, produced

words == <<mutex, cond, kind>>
newlib == <<recursive, owner, count, waiters>>
queue == <<items, produced>>
vars == <<words, newlib, pc, obj, queue>>

LockPCs == {"check", "create", "read", "acquire"}
InsidePCs == {"in", "waitCheck", "waitCreate", "sleep", "leave"}
    \cup (IF SignalAfterUnlock THEN {} ELSE {"sigCheck", "sigCreate", "signal"})

TypeOK ==
    /\ mutex \in Objects \cup {ZERO, RECURSIVE_INIT}
    /\ cond \in Objects \cup {ZERO}
    /\ kind \in {ZERO, RECURSIVE_INIT}
    /\ recursive \subseteq Objects
    /\ owner \in [Objects -> Threads \cup {NoThread}]
    /\ count \in [Objects -> 0..2]
    /\ waiters \in [Objects -> SUBSET Threads]
    /\ pc \in [Threads -> {"out", "asleep", "sigCheck", "sigCreate", "signal"}
                            \cup LockPCs \cup InsidePCs]
    /\ obj \in [Threads -> Objects \cup {ZERO}]
    /\ items \in 0..MaxItems /\ produced \in 0..MaxItems

Init ==
    /\ mutex \in Initializers /\ kind = mutex /\ cond = ZERO
    /\ recursive = {}
    /\ owner = [o \in Objects |-> NoThread] /\ count = [o \in Objects |-> 0]
    /\ waiters = [o \in Objects |-> {}]
    /\ pc = [t \in Threads |-> "out"] /\ obj = [t \in Threads |-> ZERO]
    /\ items = 0 /\ produced = 0

----------------------------------------------------------------------------
Go(t, from, to) == pc[t] = from /\ pc' = [pc EXCEPT ![t] = to]

Uninitialized == mutex \in {ZERO, RECURSIVE_INIT}

(* A producer takes a recursive mutex twice. *)
Nests(t) == t \in Producers /\ kind = RECURSIVE_INIT

(* Producers on their way to the next item, for the bound MaxItems. *)
Producing == {u \in Producers : pc[u] \in LockPCs \cup {"in"}}

(* pthread_mutex_lock_fake: ensure_mutex tests the word, ...               *)
Lock(t) ==
    /\ t \in Producers => produced + Cardinality(Producing) < MaxItems
    /\ Uninitialized /\ ~SharedFirstUse =>
         \A u \in Threads : pc[u] = "out"
    /\ Go(t, "out", "check")
    /\ UNCHANGED <<words, newlib, obj, queue>>

(* Bug: the mutex is created again by every lock. *)
EnsureMutexAlways(t) ==
    /\ Go(t, "check", "create")
    /\ UNCHANGED <<words, newlib, obj, queue>>

EnsureMutex(t) ==
    /\ Go(t, "check", IF Uninitialized THEN "create" ELSE "read")
    /\ UNCHANGED <<words, newlib, obj, queue>>

(* ... pthread_mutex_init_fake stores a new object, recursive if the word  *)
(* held the recursive initializer, ...                                     *)
CreateMutex(t) ==
    /\ Go(t, "create", "read")
    /\ mutex' = t
    /\ recursive' = recursive \cup (IF kind = RECURSIVE_INIT THEN {t} ELSE {})
    /\ UNCHANGED <<cond, kind, owner, count, waiters, obj, queue>>

(* ... or fails, for want of memory or in newlib: the caller is told so    *)
(* and the word stays as it was; ...                                       *)
CreateMutexFails(t) ==
    /\ Go(t, "create", "out")
    /\ UNCHANGED <<words, newlib, obj, queue>>

(* ... and the word is read again for pthread_mutex_lock.                  *)
ReadMutex(t) ==
    /\ Go(t, "read", "acquire")
    /\ obj' = [obj EXCEPT ![t] = mutex]
    /\ UNCHANGED <<words, newlib, queue>>

Acquire(t) ==
    LET o == obj[t]
    IN  /\ Go(t, "acquire", IF Nests(t) /\ owner[o] # t THEN "check" ELSE "in")
        /\ owner[o] = NoThread \/ (owner[o] = t /\ o \in recursive)
        /\ owner' = [owner EXCEPT ![o] = t]
        /\ count' = [count EXCEPT ![o] = @ + 1]
        /\ UNCHANGED <<words, recursive, waiters, obj, queue>>

(* newlib's pthread_mutex_unlock on object o: refused unless t holds it.   *)
Release(o, t) ==
    IF owner[o] = t
    THEN /\ count' = [count EXCEPT ![o] = @ - 1]
         /\ owner' = [owner EXCEPT ![o] = IF count[o] = 1 THEN NoThread ELSE t]
    ELSE UNCHANGED <<owner, count>>

(* pthread_mutex_unlock_fake on the object the word holds now.             *)
Unlock(t) ==
    LET outside == IF t \in Producers /\ SignalAfterUnlock THEN "sigCheck" ELSE "out"
    IN  /\ Go(t, "leave", IF Nests(t) /\ count[mutex] > 1 THEN "leave" ELSE outside)
        /\ Release(mutex, t)
        /\ UNCHANGED <<words, recursive, waiters, obj, queue>>

----------------------------------------------------------------------------
(* The engine's queue, inside the mutex.                                   *)

Produce(t) ==
    /\ t \in Producers
    /\ Go(t, "in", IF SignalAfterUnlock THEN "leave" ELSE "sigCheck")
    /\ items' = items + 1 /\ produced' = produced + 1
    /\ UNCHANGED <<words, newlib, obj>>

Consume(t) ==
    /\ t \in Consumers
    /\ items > 0
    /\ Go(t, "in", "leave")
    /\ items' = items - 1
    /\ UNCHANGED <<words, newlib, obj, produced>>

Wait(t) ==
    /\ t \in Consumers
    /\ items = 0
    /\ Go(t, "in", "waitCheck")
    /\ UNCHANGED <<words, newlib, obj, queue>>

----------------------------------------------------------------------------
(* pthread_cond_wait_fake and pthread_cond_signal_fake.                    *)

(* Bug: the condition variable is created again by every call. *)
EnsureCondAlways(t) ==
    /\ Go(t, "waitCheck", "waitCreate") \/ Go(t, "sigCheck", "sigCreate")
    /\ UNCHANGED <<words, newlib, obj, queue>>

EnsureCond(t) ==
    /\ \/ Go(t, "waitCheck", IF cond = ZERO THEN "waitCreate" ELSE "sleep")
       \/ Go(t, "sigCheck", IF cond = ZERO THEN "sigCreate" ELSE "signal")
    /\ UNCHANGED <<words, newlib, obj, queue>>

CreateCond(t) ==
    /\ Go(t, "waitCreate", "sleep") \/ Go(t, "sigCreate", "signal")
    /\ cond' = t
    /\ UNCHANGED <<mutex, kind, newlib, obj, queue>>

(* Without the object a wait returns at once and a signal is not sent.     *)
CreateCondFails(t) ==
    /\ \/ Go(t, "waitCreate", "in")
       \/ Go(t, "sigCreate", IF SignalAfterUnlock THEN "out" ELSE "leave")
    /\ UNCHANGED <<words, newlib, obj, queue>>

Sleep(t) ==
    /\ Go(t, "sleep", "asleep")
    /\ waiters' = [waiters EXCEPT ![cond] = @ \cup {t}]
    /\ Release(mutex, t)
    /\ obj' = [obj EXCEPT ![t] = mutex]
    /\ UNCHANGED <<words, recursive, queue>>

(* Wake these waiters of the object the word holds now, and go on: out of  *)
(* the monitor, or to the unlock.                                          *)
Wake(t, S) ==
    /\ pc[t] = "signal"
    /\ pc' = [u \in Threads |->
         IF u \in S THEN "acquire"
         ELSE IF u = t THEN (IF SignalAfterUnlock THEN "out" ELSE "leave")
         ELSE pc[u]]
    /\ waiters' = [waiters EXCEPT ![cond] = @ \ S]
    /\ UNCHANGED <<words, recursive, owner, count, obj, queue>>

Signal(t) ==
    \/ waiters[cond] = {} /\ Wake(t, {})
    \/ \E u \in waiters[cond] : Wake(t, {u})

Broadcast(t) == Wake(t, waiters[cond])

(* pthread_cond_timedwait_fake: the wait ends without a signal. *)
TimeOut(t) ==
    /\ Go(t, "asleep", "acquire")
    /\ waiters' = [o \in Objects |-> waiters[o] \ {t}]
    /\ UNCHANGED <<words, recursive, owner, count, obj, queue>>

Step(t) ==
    \/ EnsureMutex(t) \/ CreateMutex(t) \/ ReadMutex(t) \/ Acquire(t) \/ Unlock(t)
    \/ Produce(t) \/ Consume(t) \/ Wait(t)
    \/ EnsureCond(t) \/ CreateCond(t) \/ Sleep(t)
    \/ pc[t] = "signal" /\ (Signal(t) \/ Broadcast(t))

CreateFails(t) == CreateMutexFails(t) \/ CreateCondFails(t)

Next == \E t \in Threads : Lock(t) \/ Step(t) \/ TimeOut(t) \/ CreateFails(t)

Spec == Init /\ [][Next]_vars

(***************************************************************************)
(* A thread inside a call goes on, a consumer comes back for more, and a   *)
(* mutex released again and again is eventually granted.  A wait need not  *)
(* time out, and no object need fail to be made.                           *)
(***************************************************************************)
FairSpec ==
    /\ Spec
    /\ \A t \in Threads : SF_vars(Step(t))
    /\ \A t \in Consumers : SF_vars(Lock(t))

----------------------------------------------------------------------------
(***************************************************************************)
(* The engine's critical sections exclude each other.                      *)
(***************************************************************************)
MutualExclusion ==
    \A t, u \in Threads : pc[t] \in InsidePCs /\ pc[u] \in InsidePCs => t = u

(***************************************************************************)
(* No wake-up is lost and no locker starves: items that were produced are  *)
(* all consumed, whoever allocated the condition variable.                 *)
(***************************************************************************)
ItemsConsumed == items > 0 ~> items = 0

(***************************************************************************)
(* imports.c:66-67: the engine's zero-initialized mutex is "lazily back[ed]*)
(* with newlib objects via the first pointer slot": the threads that are   *)
(* on the mutex are all on the object the slot names.                      *)
(***************************************************************************)
BackedByTheSlot ==
    \A t \in Threads : pc[t] \in InsidePCs => owner[mutex] = t

=============================================================================
