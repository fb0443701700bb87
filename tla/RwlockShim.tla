---------------------------- MODULE RwlockShim ----------------------------
(***************************************************************************)
(* The rwlock shim of libc_shim.c beside the mutex shim: a word in engine  *)
(* memory, zero until the first call on it stores a libnx RwLock.  Each    *)
(* engine thread looks a shared table up, or adds to it, before it joins   *)
(* the queue of PthreadShim.  As there, the object a thread allocates is   *)
(* named after the thread.                                                 *)
(***************************************************************************)
EXTENDS PthreadShim

VARIABLES
    rw,             \* the rwlock word
    readers,        \* libnx locks: the threads that hold each for reading
    writer,         \* libnx locks: the thread that holds each for writing
    stage,          \* per thread: on its way through the table
    lock            \* the libnx lock a thread called

table == <<rw, readers, writer, stage, lock>>
allVars == <<vars, table>>

ThreadsInit ==
    /\ Init
    /\ rw = ZERO
    /\ readers = [o \in Objects |-> {}]
    /\ writer = [o \in Objects |-> NoThread]
    /\ stage = [t \in Threads |-> "new"]
    /\ lock = [t \in Threads |-> ZERO]

----------------------------------------------------------------------------
To(t, from, to) == stage[t] = from /\ stage' = [stage EXCEPT ![t] = to]

(* Bug: a new lock is stored by every call. *)
GetRwlockAlways(t) ==
    /\ ~SharedFirstUse => \A u \in Threads : stage[u] \notin {"create", "read"}
    /\ To(t, "new", "create")
    /\ UNCHANGED <<vars, rw, readers, writer, lock>>

(* get_rwlock: the word is tested, a new lock stored if it is zero, and    *)
(* the word read again.                                                    *)
GetRwlock(t) ==
    /\ rw = ZERO /\ ~SharedFirstUse => \A u \in Threads : stage[u] # "create"
    /\ To(t, "new", IF rw = ZERO THEN "create" ELSE "read")
    /\ UNCHANGED <<vars, rw, readers, writer, lock>>

CreateRwlock(t) ==
    /\ To(t, "create", "read")
    /\ rw' = t
    /\ UNCHANGED <<vars, readers, writer, lock>>

ReadRwlock(t) ==
    /\ To(t, "read", "lock")
    /\ lock' = [lock EXCEPT ![t] = rw]
    /\ UNCHANGED <<vars, rw, readers, writer>>

(* rwlockReadLock and rwlockWriteLock return when libnx grants them.       *)
RdLock(t) ==
    /\ To(t, "lock", "reading")
    /\ writer[lock[t]] = NoThread
    /\ readers' = [readers EXCEPT ![lock[t]] = @ \cup {t}]
    /\ UNCHANGED <<vars, rw, writer, lock>>

WrLock(t) ==
    /\ To(t, "lock", "writing")
    /\ writer[lock[t]] = NoThread /\ readers[lock[t]] = {}
    /\ writer' = [writer EXCEPT ![lock[t]] = t]
    /\ UNCHANGED <<vars, rw, readers, lock>>

(* pthread_rwlock_unlock_fake: which unlock depends on who holds the lock  *)
(* that the word names now for writing.                                    *)
RwUnlock(t) ==
    /\ To(t, "reading", "joined") \/ To(t, "writing", "joined")
    /\ IF writer[rw] = t
       THEN writer' = [writer EXCEPT ![rw] = NoThread] /\ UNCHANGED readers
       ELSE readers' = [readers EXCEPT ![rw] = @ \ {t}] /\ UNCHANGED writer
    /\ UNCHANGED <<vars, rw, lock>>

TableStep(t) ==
    \/ GetRwlock(t) \/ CreateRwlock(t) \/ ReadRwlock(t)
    \/ RdLock(t) \/ WrLock(t) \/ RwUnlock(t)

QueueStep(t, A) == stage[t] = "joined" /\ A /\ UNCHANGED table

ThreadsNext ==
    \E t \in Threads :
        \/ TableStep(t)
        \/ QueueStep(t, Step(t) \/ Lock(t) \/ TimeOut(t) \/ CreateFails(t))

ThreadsSpec == ThreadsInit /\ [][ThreadsNext]_allVars

(***************************************************************************)
(* As in PthreadShim: a thread inside a call goes on, a lock released      *)
(* again and again is eventually granted, and consumers come back.         *)
(***************************************************************************)
FairThreads ==
    /\ ThreadsSpec
    /\ \A t \in Threads : SF_allVars(TableStep(t) \/ QueueStep(t, Step(t)))
    /\ \A t \in Consumers : SF_allVars(QueueStep(t, Lock(t)))

----------------------------------------------------------------------------
(***************************************************************************)
(* A thread that changes the table is alone with it: no reader and no      *)
(* other writer, whoever allocated the lock and however the shim chooses   *)
(* between the two unlocks; and who is on the table holds the lock that    *)
(* the word names.                                                         *)
(***************************************************************************)
WriterAlone ==
    /\ \A t, u \in Threads :
         stage[t] = "writing" /\ stage[u] \in {"reading", "writing"} => t = u
    /\ \A t \in Threads :
         /\ stage[t] = "writing" => writer[rw] = t
         /\ stage[t] = "reading" => t \in readers[rw]

=============================================================================
