------------------------------ MODULE SaltyNX ------------------------------
(***************************************************************************)
(* Frame telemetry for the SaltyNX system module (saltynx.cpp and the two  *)
(* link-time wrappers): main attaches to a page of memory shared with the  *)
(* module, starts a publisher thread that writes telemetry into one block  *)
(* of that page and attaches again when the block disappears, and on exit  *)
(* stops the thread and unmaps the page.                                   *)
(*                                                                         *)
(* Offsets in the page are counted in words.  A block is known by the      *)
(* magic number at its first word; the module may clear it at any time.    *)
(***************************************************************************)
EXTENDS Naturals, FiniteSets

CONSTANTS
    PAGE, BLOCK, ALLOC, \* page_size, sizeof(FpsBlock), allocation_size
    ALIGN,              \* find_block's stride (4 bytes)
    RETRY,              \* publisher rounds per attach while detached (20)
    RING,               \* frame_ticks entries (10)
    SESSIONS,           \* sessions the process holds besides sm and the port
    MaxFrames           \* bound: frames the game presents

ASSUME SaltyAssumption ==
    /\ PAGE \in Nat /\ ALLOC \in Nat /\ BLOCK \in Nat \ {0} /\ ALIGN \in Nat \ {0}
    /\ BLOCK <= ALLOC /\ ALLOC <= PAGE
    /\ RETRY \in Nat \ {0} /\ RING \in Nat \ {0}
    /\ SESSIONS \in Nat /\ MaxFrames \in Nat

NoBlock == PAGE + 1     \* nullptr
Offsets == {o \in 0..(PAGE - BLOCK) : o % ALIGN = 0}
Ports == 1..2           \* "SaltySD", "InjectServ"

VARIABLES
    stage,              \* main: start, create, run, atexit, libnx, exited
    running, stopping,
    apc,                \* attach: off, find, room, connect, memory, allocate,
                        \*   disconnect, restore
    port, release_sm,   \* attach's locals
    handle, sm, limit,  \* port session open; sm session open; session limit
    mapped, block,      \* page # nullptr; block, as an offset
    magicAt, active,    \* the shared page: offsets with the magic; active set
    shown,              \* the telemetry last written into a block
    ppc, attempts,      \* publisher
    fpc,                \* saltynx_frame: swap (outside), sample, stall
    frame_count, previous_tick, samples, resolution

startVars == <<stage, running, stopping>>
attachVars == <<apc, port, release_sm, handle, sm, limit>>
pageVars == <<mapped, block, magicAt, active>>
counters == <<fpc, frame_count, previous_tick, samples, resolution>>
vars == <<startVars, attachVars, pageVars, shown, ppc, attempts, counters>>

Report == [frames : 0..MaxFrames, rate : BOOLEAN, size : BOOLEAN]

(* The page may already hold blocks, none of them active.                  *)
Init ==
    /\ stage = "start" /\ running = FALSE /\ stopping = FALSE
    /\ apc = "find" /\ port = 1 /\ release_sm = FALSE
    /\ handle = FALSE /\ sm = TRUE /\ limit \in {SESSIONS + 1, SESSIONS + 2}
    /\ mapped = FALSE /\ block = NoBlock
    /\ magicAt \in SUBSET Offsets /\ active = {}
    /\ shown = [frames |-> 0, rate |-> FALSE, size |-> FALSE]
    /\ ppc = "none" /\ attempts = 0
    /\ fpc = "swap" /\ frame_count = 0 /\ previous_tick = "never"
    /\ samples = 0 /\ resolution = FALSE

----------------------------------------------------------------------------
(* attach, run by main before the publisher exists (early) and later by    *)
(* the publisher.                                                          *)

early == stage = "start"
Go(from, to) == apc = from /\ apc' = to

FirstOf(S) == CHOOSE o \in S : \A p \in S : o <= p

FindBlock == IF mapped /\ magicAt # {} THEN FirstOf(magicAt) ELSE NoBlock

Sessions == SESSIONS + Cardinality({x \in {"port", "sm"} :
                                      IF x = "port" THEN handle ELSE sm})

Room == Sessions < limit

(* Where attach's caller goes on. *)
Return ==
    /\ apc' = "off"
    /\ IF early THEN stage' = "create" /\ UNCHANGED ppc
                ELSE ppc' = "check" /\ UNCHANGED stage

AttachFind ==
    /\ apc = "find"
    /\ block' = FindBlock
    /\ IF FindBlock # NoBlock
       THEN Return
       ELSE apc' = "room" /\ UNCHANGED <<stage, ppc>>
    /\ UNCHANGED <<running, stopping, port, release_sm, handle, sm, limit,
                   mapped, magicAt, active, shown, attempts, counters>>

(* make_session_room: the limit cannot be read, leaves room, is raised, or *)
(* cannot be raised; only then, and only early, is the sm session given up.*)
MakeSessionRoom ==
    /\ Go("room", "connect")
    /\ port' = 1
    /\ \/ UNCHANGED <<limit, release_sm, sm>>
       \/ ~Room /\ limit' = limit + 4 /\ UNCHANGED <<release_sm, sm>>
       \/ ~Room /\ early /\ release_sm' = TRUE /\ sm' = FALSE
            /\ UNCHANGED limit
    /\ UNCHANGED <<startVars, handle, pageVars, shown, ppc, attempts, counters>>

NextPort ==
    IF port = 1 THEN port' = 2 /\ apc' = "connect"
                ELSE apc' = "restore" /\ UNCHANGED port

Connect ==
    /\ apc = "connect"
    /\ \/ Room /\ handle' = TRUE /\ apc' = "memory" /\ UNCHANGED port
       \/ NextPort /\ UNCHANGED handle
    /\ UNCHANGED <<startVars, release_sm, sm, limit, pageVars, shown, ppc,
                   attempts, counters>>

(* Command 7: the module hands over the page, unless it was mapped before. *)
MapPage ==
    /\ Go("memory", "allocate")
    /\ mapped' \in {mapped, TRUE}
    /\ block' = IF mapped' /\ magicAt # {} THEN FirstOf(magicAt) ELSE NoBlock
    /\ UNCHANGED <<startVars, port, release_sm, handle, sm, limit, magicAt,
                   active, shown, ppc, attempts, counters>>

Allocated(o) == o..(o + ALLOC - 1)

Fits(o) == o + ALLOC <= PAGE /\ o % ALIGN = 0

(* Command 6: the module reserves space for a block and answers its offset.*)
AllocateBlock ==
    /\ Go("allocate", "disconnect")
    /\ \/ /\ mapped /\ block = NoBlock
          /\ \E o \in {p \in 0..PAGE : Fits(p)} :
               /\ block' = o
               /\ magicAt' = (magicAt \ Allocated(o)) \cup {o}
               /\ active' = active \ Allocated(o)
       \/ UNCHANGED <<block, magicAt, active>>
    /\ UNCHANGED <<startVars, port, release_sm, handle, sm, limit, mapped,
                   shown, ppc, attempts, counters>>

(* Bug: the port's session stays open. *)
DisconnectKeepsHandle ==
    /\ apc = "disconnect"
    /\ IF block # NoBlock THEN apc' = "restore" /\ UNCHANGED port ELSE NextPort
    /\ UNCHANGED <<startVars, release_sm, handle, sm, limit, pageVars, shown,
                   ppc, attempts, counters>>

Disconnect ==
    /\ apc = "disconnect"
    /\ handle' = FALSE
    /\ IF block # NoBlock THEN apc' = "restore" /\ UNCHANGED port ELSE NextPort
    /\ UNCHANGED <<startVars, release_sm, sm, limit, pageVars, shown, ppc,
                   attempts, counters>>

(* smInitialize opens a session again if the limit leaves room; its result *)
(* is not looked at.                                                       *)
RestoreSm ==
    /\ apc = "restore"
    /\ sm' = IF release_sm THEN Room ELSE sm
    /\ release_sm' = FALSE
    /\ Return
    /\ UNCHANGED <<running, stopping, port, handle, limit, pageVars, shown,
                   attempts, counters>>

AttachStep ==
    \/ AttachFind \/ MakeSessionRoom \/ Connect \/ MapPage \/ AllocateBlock
    \/ Disconnect \/ RestoreSm

----------------------------------------------------------------------------
(* The publisher thread.                                                   *)

Attached == block # NoBlock /\ block \in magicAt

PublisherGo(from, to) == ppc = from /\ ppc' = to

(* Bug: a detached publisher looks for the block before it looks whether  *)
(* to stop.                                                                *)
RoundUntilAttached ==
    /\ PublisherGo("loop", IF ~Attached /\ attempts = 0 THEN "attach"
                                                        ELSE "check")
    /\ Attached => ~stopping
    /\ attempts' = IF Attached THEN attempts ELSE (attempts + 1) % RETRY
    /\ apc' = IF ppc' = "attach" THEN "find" ELSE apc
    /\ UNCHANGED <<startVars, port, release_sm, handle, sm, limit, pageVars,
                   shown, counters>>

(* Bug: only the first detached turn attaches again. *)
RoundAttachesOnce ==
    /\ PublisherGo("loop", IF ~Attached /\ attempts = 0 THEN "attach"
                                                        ELSE "check")
    /\ ~stopping
    /\ attempts' = IF Attached THEN attempts ELSE RETRY
    /\ apc' = IF ppc' = "attach" THEN "find" ELSE apc
    /\ UNCHANGED <<startVars, port, release_sm, handle, sm, limit, pageVars,
                   shown, counters>>

(* One turn of the loop.  attempts counts the detached turns, modulo RETRY.*)
Round ==
    /\ PublisherGo("loop", IF ~Attached /\ attempts = 0 THEN "attach"
                                                        ELSE "check")
    /\ ~stopping
    /\ attempts' = IF Attached THEN attempts ELSE (attempts + 1) % RETRY
    /\ apc' = IF ppc' = "attach" THEN "find" ELSE apc
    /\ UNCHANGED <<startVars, port, release_sm, handle, sm, limit, pageVars,
                   shown, counters>>

CheckBlock ==
    /\ PublisherGo("check", IF Attached THEN "write" ELSE "wait")
    /\ UNCHANGED <<startVars, attachVars, pageVars, shown, attempts, counters>>

(* What publish computes from the counters. *)
Telemetry ==
    [frames |-> frame_count,
     rate |-> previous_tick = "recent" /\ samples > 0,
     size |-> resolution]

(* Bug: an idle game is published only once. *)
PublishChangedFrames ==
    /\ PublisherGo("write", "wait")
    /\ shown' = IF shown.frames = frame_count THEN shown ELSE Telemetry
    /\ active' = active \cup (IF frame_count # 0 THEN {block} ELSE {})
    /\ UNCHANGED <<startVars, attachVars, mapped, block, magicAt, attempts,
                   counters>>

(* The block's fields are written, and the counters read, in one step.     *)
Publish ==
    /\ PublisherGo("write", "wait")
    /\ shown' = Telemetry
    /\ active' = IF frame_count # 0 THEN active \cup {block}
                                    ELSE active \ {block}
    /\ UNCHANGED <<startVars, attachVars, mapped, block, magicAt, attempts,
                   counters>>

(* waitSingle: the wake event or 50 ms, whichever is first. *)
WaitEnds ==
    /\ PublisherGo("wait", "loop")
    /\ UNCHANGED <<startVars, attachVars, pageVars, shown, attempts, counters>>

LoopEnds ==
    /\ PublisherGo("loop", "final")
    /\ stopping
    /\ UNCHANGED <<startVars, attachVars, pageVars, shown, attempts, counters>>

(* Bug: the thread ends without withdrawing its block. *)
WithdrawNothing ==
    /\ PublisherGo("final", "exited")
    /\ UNCHANGED <<startVars, attachVars, pageVars, shown, attempts, counters>>

Withdraw ==
    /\ PublisherGo("final", "exited")
    /\ active' = IF Attached THEN active \ {block} ELSE active
    /\ UNCHANGED <<startVars, attachVars, mapped, block, magicAt, shown,
                   attempts, counters>>

PublisherStep ==
    \/ Round \/ CheckBlock \/ Publish \/ WaitEnds \/ LoopEnds \/ Withdraw

----------------------------------------------------------------------------
(* Main: start after attach(true), present frames, exit.                   *)

StartPublisher ==
    /\ stage = "create"
    /\ stage' = "run"
    /\ running' = TRUE /\ stopping' = FALSE
    /\ ppc' = "loop"
    /\ UNCHANGED <<attachVars, pageVars, shown, attempts, counters>>

(* threadCreate or threadStart fails. *)
StartFails ==
    /\ stage = "create"
    /\ stage' = "run"
    /\ stopping' = FALSE
    /\ mapped' = FALSE /\ block' = NoBlock
    /\ UNCHANGED <<running, attachVars, magicAt, active, shown, ppc, attempts,
                   counters>>

(* A successful eglSwapBuffers: stamp and count the frame ... *)
PresentFrame ==
    /\ stage = "run" /\ fpc = "swap"
    /\ frame_count < MaxFrames
    /\ frame_count' = frame_count + 1
    /\ resolution' \in {resolution, TRUE}
    /\ fpc' = CASE previous_tick = "never" -> "swap"
              [] previous_tick = "recent" -> "sample"
              [] previous_tick = "old" -> "stall"
    /\ previous_tick' = "recent"
    /\ UNCHANGED <<startVars, attachVars, pageVars, shown, ppc, attempts,
                   samples>>

(* ... then record how long it took, or drop all samples after a stall.    *)
RecordSample ==
    /\ fpc # "swap"
    /\ fpc' = "swap"
    /\ samples' = IF fpc = "stall" THEN 0
                  ELSE IF samples = RING THEN RING ELSE samples + 1
    /\ UNCHANGED <<startVars, attachVars, pageVars, shown, ppc, attempts,
                   frame_count, previous_tick, resolution>>

(* No frame for a second. *)
SecondPasses ==
    /\ previous_tick = "recent"
    /\ previous_tick' = "old"
    /\ UNCHANGED <<startVars, attachVars, pageVars, shown, ppc, attempts, fpc,
                   frame_count, samples, resolution>>

(* fatal_error leaves through exit, which runs the atexit handler before   *)
(* libnx's exit; main calls libnx's exit itself.                           *)
BeginExit ==
    /\ stage = "run" /\ fpc = "swap"
    /\ stage' \in {"atexit", "libnx"}
    /\ UNCHANGED <<running, stopping, attachVars, pageVars, shown, ppc,
                   attempts, counters>>

Leave == stage' = IF stage = "atexit" THEN "libnx" ELSE "exited"

StopNotRunning ==
    /\ stage \in {"atexit", "libnx"} /\ ~running
    /\ Leave
    /\ UNCHANGED <<running, stopping, attachVars, pageVars, shown, ppc,
                   attempts, counters>>

StopSignal ==
    /\ stage \in {"atexit", "libnx"} /\ running /\ ~stopping
    /\ stopping' = TRUE
    /\ UNCHANGED <<stage, running, attachVars, pageVars, shown, ppc, attempts,
                   counters>>

Close ==
    /\ mapped' = FALSE /\ block' = NoBlock
    /\ running' = FALSE
    /\ Leave
    /\ UNCHANGED <<stopping, attachVars, magicAt, active, shown, ppc, attempts,
                   counters>>

(* Bug: the page is unmapped without waiting for the thread. *)
StopJoinNoWait == stopping /\ running /\ Close

StopJoin == stopping /\ running /\ ppc = "exited" /\ Close

MainStep ==
    \/ StartPublisher \/ StartFails \/ RecordSample \/ StopNotRunning
    \/ StopSignal \/ StopJoin

----------------------------------------------------------------------------
(* The system module withdraws a block. *)
Clobber ==
    /\ \E o \in magicAt : magicAt' = magicAt \ {o}
    /\ UNCHANGED <<startVars, attachVars, mapped, block, active, shown, ppc,
                   attempts, counters>>

Next ==
    \/ AttachStep \/ PublisherStep \/ MainStep
    \/ PresentFrame \/ SecondPasses \/ BeginExit \/ Clobber

Spec == Init /\ [][Next]_vars

(***************************************************************************)
(* Both threads are scheduled, waitSingle has a timeout, and the module    *)
(* answers or refuses a request.  The game need not present a frame or     *)
(* exit, and the module need not clear a block.                            *)
(***************************************************************************)
FairSpec ==
    /\ Spec
    /\ WF_vars(AttachStep) /\ WF_vars(PublisherStep) /\ WF_vars(MainStep)

----------------------------------------------------------------------------
(***************************************************************************)
(* The block the publisher is about to write through is there, mapped, and *)
(* wholly inside the page: stop unmaps it only after the thread ended, and *)
(* an offset the module answers is checked first.                          *)
(***************************************************************************)
BlockInPage ==
    /\ block # NoBlock => mapped /\ block + BLOCK <= PAGE
    /\ ppc = "write" => block # NoBlock

(***************************************************************************)
(* The service-manager session given up to connect early is open again     *)
(* when saltynx_start goes on: main initialises its services after it.     *)
(***************************************************************************)
SmRestored == ~early => sm

(***************************************************************************)
(* After exit the page is unmapped and no recognisable block still says    *)
(* that a game is running, however the exit was reached.                   *)
(***************************************************************************)
InactiveAfterExit == stage = "exited" => ~mapped /\ magicAt \cap active = {}

(* The module and the kernel grant what attach asks for, and leave blocks. *)
Served ==
    /\ MakeSessionRoom => Room'
    /\ Connect => handle'
    /\ MapPage => mapped'
    /\ AllocateBlock => block' # NoBlock
    /\ ~Clobber

(***************************************************************************)
(* While the game runs and keeps its block, or is only granted what it     *)
(* asks for after the module cleared the block, refused or was not there,  *)
(* the publisher attaches again, and what its block shows catches up with  *)
(* the game, also when the game stops presenting frames.                   *)
(***************************************************************************)
TelemetryFollows ==
    /\ <>[](stage = "run" /\ running)
    /\ <>[]Attached \/ <>[][Served]_vars
    => <>[](Attached /\ shown = Telemetry)

(***************************************************************************)
(* Every exit gets to its end: the publisher notices stopping wherever it  *)
(* was, an attach under way included.                                      *)
(***************************************************************************)
ExitCompletes == stage \in {"atexit", "libnx"} ~> stage = "exited"

=============================================================================
