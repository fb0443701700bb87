--------------------------- MODULE SaltyNX_proofs ---------------------------
(***************************************************************************)
(* The publisher's block, the service manager's session and the page after *)
(* an exit, for every size of page, block and allocation, and every number *)
(* of sessions and frames.                                                 *)
(***************************************************************************)
EXTENDS SaltyNX, FiniteSetTheorems, WellFoundedInduction, TLAPS

Typed ==
    /\ stage \in {"start", "create", "run", "atexit", "libnx", "exited"}
    /\ apc \in {"off", "find", "room", "connect", "memory", "allocate",
                "disconnect", "restore"}
    /\ ppc \in {"none", "loop", "attach", "check", "write", "wait", "final", "exited"}
    /\ running \in BOOLEAN /\ release_sm \in BOOLEAN /\ handle \in BOOLEAN
    /\ sm \in BOOLEAN /\ mapped \in BOOLEAN
    /\ limit \in Nat /\ SESSIONS < limit
    /\ magicAt \subseteq Offsets
    /\ block \in Offsets \cup {NoBlock}

(* Who runs attach, and what main's position says of the publisher.        *)
ThreadsInv ==
    /\ apc # "off" <=> early \/ ppc = "attach"
    /\ stage \in {"start", "create"} => ppc = "none" /\ ~running
    /\ running => ppc # "none"
    /\ ~running /\ stage \notin {"start", "create"} =>
         ppc \in {"none", "exited"} /\ ~mapped
    /\ stage = "exited" => ~running

(* The sm session is closed only while main attaches, and each port's      *)
(* session is closed before the next is opened or sm is opened again.      *)
SessionsInv ==
    /\ sm <=> ~release_sm
    /\ release_sm => early /\ apc \notin {"off", "find", "room"}
    /\ handle => apc \in {"memory", "allocate", "disconnect"}

(* At most the publisher's own block is recognisable and active: none      *)
(* before it runs, while it looks for a new one, and when it has ended.    *)
ActiveInv ==
    /\ magicAt \cap active \subseteq {block}
    /\ ppc = "none" => active = {}
    /\ ppc \in {"attach", "exited"} => magicAt \cap active = {}

IInv == Typed /\ ThreadsInv /\ SessionsInv /\ ActiveInv /\ BlockInPage

----------------------------------------------------------------------------
(* A set of natural numbers has a first member: of the sets of the numbers *)
(* below a member, which are finite, one contains no other.                *)
LEMMA FirstIsMember ==
  ASSUME NEW S \in SUBSET Nat, S # {}
  PROVE  FirstOf(S) \in S
<1> DEFINE Below(o) == {p \in S : p < o}
           T == {Below(o) : o \in S}
<1>1. PICK n : n \in S
  OBVIOUS
<1>2. \A o \in S : IsFiniteSet(Below(o))
  <2> SUFFICES ASSUME NEW o \in S PROVE IsFiniteSet(Below(o))
    OBVIOUS
  <2>1. o \in Nat /\ Below(o) \in SUBSET Nat
    OBVIOUS
  <2>2. \A p \in Below(o) : p <= o
    BY <2>1
  <2> QED
    BY <2>1, <2>2, FS_BoundedSetOfNaturals
<1>3. \A o \in S : Below(o) \in FiniteSubsetsOf(S)
  BY <1>2 DEF FiniteSubsetsOf
<1>4. T \subseteq FiniteSubsetsOf(S) /\ T # {}
  BY <1>1, <1>3
<1>5. IsWellFoundedOn(StrictSubsetOrdering(S), FiniteSubsetsOf(S))
  BY FS_StrictSubsetOrderingWellFounded
<1>6. PICK t \in T : \A u \in T : ~(<<u, t>> \in StrictSubsetOrdering(S))
  BY <1>4, <1>5, WFMin
<1>7. PICK o \in S : t = Below(o)
  OBVIOUS
<1>8. ASSUME NEW p \in S, p < o PROVE FALSE
  <2>0. p \in Nat /\ o \in Nat /\ \A q \in S : q \in Nat
    OBVIOUS
  <2>1. \A q \in S : q < p => q < o
    BY <1>8, <2>0
  <2>2. ~(p < p)
    BY <2>0
  <2>3. Below(p) \subseteq Below(o) /\ p \in Below(o) /\ p \notin Below(p)
    BY <1>8, <2>1, <2>2
  <2>4. <<Below(p), Below(o)>> \in StrictSubsetOrdering(S)
    BY <2>3 DEF StrictSubsetOrdering
  <2> QED
    BY <1>6, <1>7, <2>4
<1>9. \A p \in S : o <= p
  BY <1>8
<1> QED
  BY <1>9 DEF FirstOf

(* The scan of the page finds a block that carries the magic number, and   *)
(* one that lies inside the page.                                          *)
LEMMA FoundIsInPage ==
  ASSUME Typed
  PROVE  /\ Offsets \subseteq Nat /\ NoBlock \notin Offsets
         /\ \A o \in Offsets : o + BLOCK <= PAGE
         /\ magicAt # {} => FirstOf(magicAt) \in magicAt
<1>1. Offsets \subseteq Nat /\ NoBlock \notin Offsets /\ \A o \in Offsets : o + BLOCK <= PAGE
  BY SaltyAssumption DEF Offsets, NoBlock
<1> QED
  BY <1>1, FirstIsMember DEF Typed

(* Without the port's session and sm's there is room for one more.         *)
LEMMA RoomForSm ==
  ASSUME Typed, ~handle, ~sm
  PROVE  Room
<1>1. {x \in {"port", "sm"} : IF x = "port" THEN handle ELSE sm} = {}
  OBVIOUS
<1>2. Sessions = SESSIONS
  BY <1>1, FS_EmptySet, SaltyAssumption DEF Sessions
<1> QED
  BY <1>2 DEF Room, Typed

----------------------------------------------------------------------------
(* Nothing is mapped, attached or published at first.                      *)
LEMMA InitIInv == Init => IInv
<1> SUFFICES ASSUME Init PROVE IInv
  OBVIOUS
<1> USE SaltyAssumption DEF Init
<1>1. Typed
  <2>1. limit \in Nat /\ SESSIONS < limit
    OBVIOUS
  <2>2. magicAt \subseteq Offsets /\ block \in Offsets \cup {NoBlock}
    OBVIOUS
  <2> QED
    BY <2>1, <2>2 DEF Typed
<1>2. ThreadsInv /\ SessionsInv /\ ActiveInv /\ BlockInPage
  BY DEF ThreadsInv, SessionsInv, ActiveInv, BlockInPage, early
<1> QED
  BY <1>1, <1>2 DEF IInv

(***************************************************************************)
(* One lemma per operation.                                                *)
(***************************************************************************)
LEMMA AttachInv ==
  ASSUME IInv, AttachStep
  PROVE  IInv'
<1> USE DEF IInv, Typed, ThreadsInv, SessionsInv, ActiveInv, BlockInPage,
            startVars, counters, pageVars
<1>0. early \/ ppc = "attach"
  BY DEF AttachStep, AttachFind, MakeSessionRoom, Connect, MapPage, AllocateBlock,
         Disconnect, RestoreSm, Go
<1>1. CASE AttachFind
  <2>1. block' \in Offsets \cup {NoBlock} /\ (block' # NoBlock => mapped)
    BY <1>1, FoundIsInPage DEF AttachFind, FindBlock
  <2>2. magicAt' = magicAt /\ active' = active /\ magicAt \cap active = {}
    BY <1>0, <1>1 DEF AttachFind, early
  <2> QED
    BY <1>0, <1>1, <2>1, <2>2, FoundIsInPage DEF AttachFind, Return, early
<1>2. CASE MakeSessionRoom
  <2>1. limit' \in Nat /\ SESSIONS < limit'
    BY <1>2, SaltyAssumption DEF MakeSessionRoom
  <2>2. /\ apc = "room" /\ apc' = "connect" /\ ~handle
        /\ UNCHANGED <<startVars, handle, pageVars, ppc>>
    BY <1>2 DEF MakeSessionRoom, Go
  <2>3. /\ (sm' <=> ~release_sm') /\ (release_sm' => early)
        /\ release_sm' \in BOOLEAN /\ sm' \in BOOLEAN
    <3>1. CASE UNCHANGED <<release_sm, sm>>
      BY <2>2, <3>1
    <3>2. CASE early /\ release_sm' = TRUE /\ sm' = FALSE
      BY <3>2
    <3> QED
      BY <1>2, <3>1, <3>2 DEF MakeSessionRoom
  <2> QED
    BY <1>0, <2>1, <2>2, <2>3 DEF early
<1>3. CASE Connect
  <2>1. apc = "connect" /\ UNCHANGED <<startVars, release_sm, sm, limit, pageVars, ppc>>
    BY <1>3 DEF Connect
  <2>2. CASE apc' = "memory" /\ handle' = TRUE
    BY <1>0, <2>1, <2>2 DEF early
  <2>3. CASE apc' \in {"connect", "restore"} /\ handle' = handle
    <3>1. ~handle'
      BY <2>1, <2>3
    <3> QED
      BY <1>0, <2>1, <2>3, <3>1 DEF early
  <2> QED
    BY <1>3, <2>2, <2>3 DEF Connect, NextPort
<1>4. CASE MapPage
  <2>1. block' \in Offsets \cup {NoBlock} /\ (block' # NoBlock => mapped')
    BY <1>4, FoundIsInPage DEF MapPage, Go
  <2>2. magicAt' = magicAt /\ active' = active /\ magicAt \cap active = {}
    BY <1>0, <1>4 DEF MapPage, early
  <2> QED
    BY <1>0, <1>4, <2>1, <2>2, FoundIsInPage DEF MapPage, Go, early
<1>5. CASE AllocateBlock
  <2>1. CASE UNCHANGED <<block, magicAt, active>>
    BY <1>0, <1>5, <2>1 DEF AllocateBlock, Go, early
  <2>2. CASE mapped /\ \E o \in {p \in 0..PAGE : Fits(p)} :
               /\ block' = o
               /\ magicAt' = (magicAt \ Allocated(o)) \cup {o}
               /\ active' = active \ Allocated(o)
    <3>1. PICK o \in 0..PAGE : /\ Fits(o) /\ block' = o
                               /\ magicAt' = (magicAt \ Allocated(o)) \cup {o}
                               /\ active' = active \ Allocated(o)
      BY <2>2
    <3>2. o \in Offsets /\ o \in Allocated(o)
      BY <3>1, SaltyAssumption DEF Fits, Offsets, Allocated
    <3>3. magicAt \cap active = {}
      BY <1>0 DEF early
    <3>4. magicAt' \cap active' = {} /\ magicAt' \subseteq Offsets
      BY <3>1, <3>2, <3>3
    <3> QED
      BY <1>0, <1>5, <2>2, <3>1, <3>2, <3>4, FoundIsInPage DEF AllocateBlock, Go, early
  <2> QED
    BY <1>5, <2>1, <2>2 DEF AllocateBlock
<1>6. CASE Disconnect
  BY <1>0, <1>6 DEF Disconnect, NextPort, early
<1>7. CASE RestoreSm
  <2>1. sm' /\ ~release_sm'
    BY <1>7, RoomForSm DEF RestoreSm
  <2> QED
    BY <1>0, <1>7, <2>1 DEF RestoreSm, Return, early
<1> QED
  BY <1>1, <1>2, <1>3, <1>4, <1>5, <1>6, <1>7 DEF AttachStep

LEMMA PublisherInv ==
  ASSUME IInv, PublisherStep
  PROVE  IInv'
<1> USE DEF IInv, Typed, ThreadsInv, SessionsInv, ActiveInv, BlockInPage,
            startVars, attachVars, pageVars, counters, PublisherGo, early
<1>0. ~Attached => magicAt \cap active = {}
  BY FoundIsInPage DEF Attached
<1>1. CASE Round
  <2>1. ppc = "loop" /\ apc = "off" /\ stage \notin {"start", "create"}
    BY <1>1 DEF Round
  <2>2. CASE ppc' = "attach"
    BY <1>0, <1>1, <2>1, <2>2 DEF Round
  <2>3. CASE ppc' = "check"
    BY <1>1, <2>1, <2>3 DEF Round
  <2> QED
    BY <1>1, <2>2, <2>3 DEF Round
<1>2. CASE CheckBlock
  BY <1>2 DEF CheckBlock, Attached
<1>3. CASE Publish
  BY <1>3 DEF Publish
<1>4. CASE WaitEnds \/ LoopEnds
  BY <1>4 DEF WaitEnds, LoopEnds
<1>5. CASE Withdraw
  <2>1. magicAt' \cap active' = {} /\ active' \subseteq active
    BY <1>0, <1>5 DEF Withdraw
  <2> QED
    BY <1>5, <2>1 DEF Withdraw
<1> QED
  BY <1>1, <1>2, <1>3, <1>4, <1>5 DEF PublisherStep

LEMMA MainInv ==
  ASSUME IInv, MainStep \/ PresentFrame \/ SecondPasses \/ BeginExit
  PROVE  IInv'
<1> USE DEF IInv, Typed, ThreadsInv, SessionsInv, ActiveInv, BlockInPage,
            startVars, attachVars, pageVars, early
<1>1. CASE StartPublisher
  BY <1>1 DEF StartPublisher
<1>2. CASE StartFails
  BY <1>2 DEF StartFails
<1>3. CASE RecordSample \/ PresentFrame \/ SecondPasses
  <2>1. UNCHANGED <<startVars, attachVars, pageVars, ppc>>
    BY <1>3 DEF RecordSample, PresentFrame, SecondPasses
  <2> QED
    BY <2>1
<1>4. CASE StopNotRunning
  BY <1>4 DEF StopNotRunning, Leave
<1>5. CASE StopSignal \/ BeginExit
  BY <1>5 DEF StopSignal, BeginExit
<1>6. CASE StopJoin
  BY <1>6 DEF StopJoin, Close, Leave
<1> QED
  BY <1>1, <1>2, <1>3, <1>4, <1>5, <1>6 DEF MainStep

LEMMA ClobberInv ==
  ASSUME IInv, Clobber
  PROVE  IInv'
<1>1. magicAt' \subseteq magicAt
  BY DEF Clobber
<1> QED
  BY <1>1 DEF Clobber, IInv, Typed, ThreadsInv, SessionsInv, ActiveInv, BlockInPage,
              startVars, attachVars, counters, early

(* Every step keeps the invariant.                                         *)
LEMMA NextIInv == IInv /\ [Next]_vars => IInv'
<1> SUFFICES ASSUME IInv, [Next]_vars PROVE IInv'
  OBVIOUS
<1>1. CASE UNCHANGED vars
  BY <1>1 DEF vars, startVars, attachVars, pageVars, counters, IInv, Typed,
              ThreadsInv, SessionsInv, ActiveInv, BlockInPage, early
<1> QED
  BY <1>1, AttachInv, PublisherInv, MainInv, ClobberInv DEF Next

----------------------------------------------------------------------------
(* What the position of both threads says of the session, the page and the *)
(* block holds throughout.                                                 *)
THEOREM Invariance == Spec => []IInv
  BY InitIInv, NextIInv, PTL DEF Spec

(* The publisher writes through a mapped block inside the page, whatever   *)
(* offset the module answers and whenever main stops it.                   *)
THEOREM WritesInPage == Spec => []BlockInPage
<1>1. IInv => BlockInPage
  BY DEF IInv
<1> QED
  BY <1>1, Invariance, PTL

(* main goes on with the service manager's session open, though attach may *)
(* have given it up and smInitialize's result is not looked at: nobody     *)
(* else opens a session meanwhile, and the port's is closed by then.       *)
THEOREM ServicesBack == Spec => []SmRestored
<1>1. IInv => SmRestored
  BY DEF IInv, SessionsInv, SmRestored
<1> QED
  BY <1>1, Invariance, PTL

(* However the program ends, no block in the page still says it runs.      *)
THEOREM NothingLeftActive == Spec => []InactiveAfterExit
<1>1. IInv => InactiveAfterExit
  BY DEF IInv, ThreadsInv, ActiveInv, InactiveAfterExit
<1> QED
  BY <1>1, Invariance, PTL

=============================================================================
