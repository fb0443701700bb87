--------------------------- MODULE AudioRegistry ---------------------------
(***************************************************************************)
(* The players of opensles.c as a population: game threads create, feed    *)
(* and destroy them while the audio thread of the SDL device mixes every   *)
(* registered one under g_reg_lock, calling the engine back meanwhile.     *)
(*                                                                         *)
(* The engine's own mutex is not in this repository; the comment above     *)
(* mix_player says its mixer thread holds it while it calls Enqueue, and   *)
(* that the completion callback needs it.  HeldCalls names the calls the   *)
(* engine makes while holding it.                                          *)
(*                                                                         *)
(* g_reg_lock is one mutex here: two threads that create the very first    *)
(* player at once could each allocate one, and that window is left out.    *)
(* What is left of the race, two threads that both find g_dev unset (the   *)
(* first opening failed, say), is in.                                      *)
(***************************************************************************)
EXTENDS Naturals, FiniteSets, FiniteSetsExt

CONSTANTS
    GameThreads,    \* the engine's threads
    Creators,       \* those that create players
    Players,        \* the Player objects it ever creates
    MAX_PLAYERS,    \* slots of g_players (32 in the code)
    HeldCalls,      \* calls the engine makes holding its mutex
    NULL            \* an empty slot, no player, no thread, no device

Calls == {"create", "enqueue", "destroy"}

Slots == 0..(MAX_PLAYERS - 1)

(* A device is named by the game thread that opened it, and Audio(d) is    *)
(* its audio thread.                                                       *)
Devices == Creators
Audio(d) == <<"audio", d>>
AudioThreads == {Audio(d) : d \in Devices}
Threads == GameThreads \cup AudioThreads

ASSUME RegistryAssumption ==
    /\ MAX_PLAYERS \in Nat \ {0}
    /\ Creators \subseteq GameThreads
    /\ HeldCalls \subseteq Calls
    /\ NULL \notin Threads \cup Players
    /\ GameThreads \cap AudioThreads = {}

VARIABLES
    obj,            \* per player: not created, alive, freed
    held,           \* players the game holds a pointer to
    silent,         \* observed: players that found no slot
    g_players, g_player_count,
    g_dev,          \* the device the code knows of
    open,           \* the devices that are open
    reg_lock, eng_mutex, player_lock,
    epc, arg,       \* per game thread: where it is, and the player it handles
    apc, idx,       \* per device: where its audio thread is, and its loop index
    stopped         \* opensles_shutdown has run

objects == <<obj, held, silent>>
table == <<g_players, g_player_count>>
device == <<g_dev, open, stopped>>
locks == <<reg_lock, eng_mutex, player_lock>>
game == <<epc, arg>>
audio == <<apc, idx>>
vars == <<objects, table, device, locks, game, audio>>

TypeOK ==
    /\ obj \in [Players -> {"none", "alive", "freed"}]
    /\ held \subseteq Players /\ silent \subseteq Players
    /\ g_players \in [Slots -> Players \cup {NULL}]
    /\ g_player_count \in 0..MAX_PLAYERS
    /\ g_dev \in Devices \cup {NULL} /\ open \subseteq Devices
    /\ stopped \in BOOLEAN
    /\ reg_lock \in AudioThreads \cup {NULL}
    /\ eng_mutex \in Threads \cup {NULL}
    /\ player_lock \in [Players -> Threads \cup {NULL}]
    /\ epc \in [GameThreads ->
         {"idle", "device", "open", "register", "enqueue", "unregister", "free"}]
    /\ arg \in [GameThreads -> Players \cup {NULL}]
    /\ apc \in [Devices -> {"idle", "scan", "mix", "pop", "callback",
                            "inCallback", "mixed"}]
    /\ idx \in [Devices -> 0..MAX_PLAYERS]

Init ==
    /\ obj = [p \in Players |-> "none"] /\ held = {} /\ silent = {}
    /\ g_players = [s \in Slots |-> NULL] /\ g_player_count = 0
    /\ g_dev = NULL /\ open = {} /\ stopped = FALSE
    /\ reg_lock = NULL /\ eng_mutex = NULL
    /\ player_lock = [p \in Players |-> NULL]
    /\ epc = [t \in GameThreads |-> "idle"] /\ arg = [t \in GameThreads |-> NULL]
    /\ apc = [d \in Devices |-> "idle"] /\ idx = [d \in Devices |-> 0]

----------------------------------------------------------------------------
(* Game threads.                                                           *)

Go(t, from, to) == epc[t] = from /\ epc' = [epc EXCEPT ![t] = to]

MayCall(t, call) == ~stopped /\ (eng_mutex = t => call \in HeldCalls)

(* The engine takes and releases its own mutex between calls.              *)
EngineLock(t) ==
    /\ epc[t] = "idle" /\ ~stopped
    /\ eng_mutex = NULL
    /\ eng_mutex' = t
    /\ UNCHANGED <<objects, table, device, reg_lock, player_lock, game, audio>>

EngineUnlock(t) ==
    /\ epc[t] = "idle"
    /\ eng_mutex = t
    /\ eng_mutex' = NULL
    /\ UNCHANGED <<objects, table, device, reg_lock, player_lock, game, audio>>

(* eng_CreateAudioPlayer: allocate, ensure_device in two steps (its test   *)
(* of g_dev and its store to it are not under any lock), register.         *)
Create(t, p) ==
    /\ t \in Creators /\ MayCall(t, "create")
    /\ Go(t, "idle", "device")
    /\ obj[p] = "none"
    /\ obj' = [obj EXCEPT ![p] = "alive"]
    /\ arg' = [arg EXCEPT ![t] = p]
    /\ UNCHANGED <<held, silent, table, device, locks, audio>>

CheckDevice(t) ==
    /\ Go(t, "device", IF g_dev = NULL THEN "open" ELSE "register")
    /\ UNCHANGED <<objects, table, device, locks, arg, audio>>

OpenDevice(t) ==
    /\ Go(t, "open", "register")
    /\ \/ g_dev' = t /\ open' = open \cup {t}
       \/ g_dev' = NULL /\ UNCHANGED open       \* SDL_OpenAudioDevice failed
    /\ UNCHANGED <<objects, table, stopped, locks, arg, audio>>

(* Bug: the slots of destroyed players are never found again. *)
FreeSlotsForgotten == {}

FreeSlots == {s \in Slots : s < g_player_count /\ g_players[s] = NULL}

(* Bug: the limit is forgotten. *)
MayGrowUnbounded == FreeSlots = {}

MayGrow == FreeSlots = {} /\ g_player_count < MAX_PLAYERS

Register(t) ==
    /\ reg_lock = NULL
    /\ Go(t, "register", "idle")
    /\ LET p == arg[t]
           slot == IF FreeSlots # {} THEN Min(FreeSlots) ELSE g_player_count
       IN  /\ held' = held \cup {p}
           /\ IF FreeSlots # {} \/ MayGrow
              THEN g_players' = [g_players EXCEPT ![slot] = p] /\ UNCHANGED silent
              ELSE silent' = silent \cup {p} /\ UNCHANGED g_players
           /\ g_player_count' = g_player_count + (IF MayGrow THEN 1 ELSE 0)
    /\ arg' = [arg EXCEPT ![t] = NULL]
    /\ UNCHANGED <<obj, device, locks, audio>>

(* bq_Enqueue and the other calls that take p->lock.                       *)
Enqueue(t, p) ==
    /\ MayCall(t, "enqueue")
    /\ p \in held
    /\ Go(t, "idle", "enqueue")
    /\ player_lock[p] = NULL
    /\ player_lock' = [player_lock EXCEPT ![p] = t]
    /\ arg' = [arg EXCEPT ![t] = p]
    /\ UNCHANGED <<objects, table, device, reg_lock, eng_mutex, audio>>

EnqueueReturns(t) ==
    /\ Go(t, "enqueue", "idle")
    /\ player_lock' = [player_lock EXCEPT ![arg[t]] = NULL]
    /\ arg' = [arg EXCEPT ![t] = NULL]
    /\ UNCHANGED <<objects, table, device, reg_lock, eng_mutex, audio>>

(* player_Destroy: the game gives up its pointer, the player leaves the    *)
(* registry under g_reg_lock, and is freed after the unlock.               *)
Destroy(t, p) ==
    /\ MayCall(t, "destroy")
    /\ p \in held /\ \A u \in GameThreads : arg[u] # p
    /\ Go(t, "idle", "unregister")
    /\ held' = held \ {p}
    /\ arg' = [arg EXCEPT ![t] = p]
    /\ UNCHANGED <<obj, silent, table, device, locks, audio>>

(* Bug: the registry is changed without g_reg_lock. *)
UnregisterUnlocked(t) ==
    /\ Go(t, "unregister", "free")
    /\ g_players' = [s \in Slots |->
         IF s < g_player_count /\ g_players[s] = arg[t] THEN NULL ELSE g_players[s]]
    /\ UNCHANGED <<objects, g_player_count, device, locks, arg, audio>>

(* Bug: the player is freed without leaving the registry. *)
UnregisterNothing(t) ==
    /\ reg_lock = NULL
    /\ Go(t, "unregister", "free")
    /\ UNCHANGED <<objects, table, device, locks, arg, audio>>

Unregister(t) ==
    /\ reg_lock = NULL
    /\ Go(t, "unregister", "free")
    /\ g_players' = [s \in Slots |->
         IF s < g_player_count /\ g_players[s] = arg[t] THEN NULL ELSE g_players[s]]
    /\ UNCHANGED <<objects, g_player_count, device, locks, arg, audio>>

Free(t) ==
    /\ Go(t, "free", "idle")
    /\ obj' = [obj EXCEPT ![arg[t]] = "freed"]
    /\ silent' = silent \ {arg[t]}
    /\ arg' = [arg EXCEPT ![t] = NULL]
    /\ UNCHANGED <<held, table, device, locks, audio>>

GameCall(t) ==
    \/ \E p \in Players : Create(t, p) \/ Enqueue(t, p) \/ Destroy(t, p)
    \/ EngineLock(t)

(* Steps that finish what the thread has begun. *)
GameStep(t) ==
    \/ CheckDevice(t) \/ OpenDevice(t) \/ Register(t) \/ EnqueueReturns(t)
    \/ Unregister(t) \/ Free(t)

----------------------------------------------------------------------------
(* The audio thread of device d: audio_callback and, for each registered   *)
(* player, the lock-taking steps of mix_player.                            *)

Mixed(d) == g_players[idx[d]]

Advance(d, from, to) == apc[d] = from /\ apc' = [apc EXCEPT ![d] = to]

BlockStart(d) ==
    /\ d \in open
    /\ reg_lock = NULL
    /\ Advance(d, "idle", "scan")
    /\ reg_lock' = Audio(d)
    /\ idx' = [idx EXCEPT ![d] = 0]
    /\ UNCHANGED <<objects, table, device, eng_mutex, player_lock, game>>

ScanSkip(d) ==
    /\ apc[d] = "scan"
    /\ idx[d] < g_player_count /\ Mixed(d) = NULL
    /\ idx' = [idx EXCEPT ![d] = @ + 1]
    /\ UNCHANGED <<objects, table, device, locks, game, apc>>

ScanMix(d) ==
    /\ Advance(d, "scan", "mix")
    /\ idx[d] < g_player_count /\ Mixed(d) # NULL
    /\ UNCHANGED <<objects, table, device, locks, game, idx>>

BlockEnd(d) ==
    /\ idx[d] = g_player_count
    /\ Advance(d, "scan", "idle")
    /\ reg_lock' = NULL
    /\ UNCHANGED <<objects, table, device, eng_mutex, player_lock, game, idx>>

(* Bug: the engine is called back with p->lock held. *)
CallEngineLocked(d) ==
    /\ Advance(d, "mix", "callback")
    /\ player_lock[Mixed(d)] = NULL
    /\ player_lock' = [player_lock EXCEPT ![Mixed(d)] = Audio(d)]
    /\ UNCHANGED <<objects, table, device, reg_lock, eng_mutex, game, idx>>

(* The current buffer ran out: call the engine back, p->lock not held.     *)
CallEngine(d) ==
    /\ Advance(d, "mix", "callback")
    /\ UNCHANGED <<objects, table, device, locks, game, idx>>

CallbackLocks(d) ==
    /\ eng_mutex = NULL
    /\ Advance(d, "callback", "inCallback")
    /\ eng_mutex' = Audio(d)
    /\ UNCHANGED <<objects, table, device, reg_lock, player_lock, game, idx>>

(* The callback enqueues the next buffer, which takes p->lock, and returns. *)
CallbackReturns(d) ==
    /\ Advance(d, "inCallback", "mixed")
    /\ player_lock[Mixed(d)] = NULL
    /\ eng_mutex' = NULL
    /\ UNCHANGED <<objects, table, device, reg_lock, player_lock, game, idx>>

PopLocks(d) ==
    /\ apc[d] \in {"mix", "mixed"}
    /\ player_lock[Mixed(d)] = NULL
    /\ player_lock' = [player_lock EXCEPT ![Mixed(d)] = Audio(d)]
    /\ apc' = [apc EXCEPT ![d] = "pop"]
    /\ UNCHANGED <<objects, table, device, reg_lock, eng_mutex, game, idx>>

PopUnlocks(d) ==
    /\ Advance(d, "pop", "scan")
    /\ player_lock' = [player_lock EXCEPT ![Mixed(d)] = NULL]
    /\ idx' = [idx EXCEPT ![d] = @ + 1]
    /\ UNCHANGED <<objects, table, device, reg_lock, eng_mutex, game>>

(* The player needs no new buffer in this block, or is stopped. *)
MixPlain(d) ==
    /\ Advance(d, "mix", "scan")
    /\ idx' = [idx EXCEPT ![d] = @ + 1]
    /\ UNCHANGED <<objects, table, device, locks, game>>

AudioStep(d) ==
    \/ BlockStart(d) \/ ScanSkip(d) \/ ScanMix(d) \/ BlockEnd(d)
    \/ CallEngine(d) \/ CallbackLocks(d) \/ CallbackReturns(d)
    \/ PopLocks(d) \/ PopUnlocks(d) \/ MixPlain(d)

(* opensles_shutdown, after the engine has been destructed.  Closing a     *)
(* device waits for its audio thread.                                      *)
Shutdown ==
    /\ ~stopped
    /\ eng_mutex \notin GameThreads /\ \A t \in GameThreads : epc[t] = "idle"
    /\ g_dev # NULL => apc[g_dev] = "idle"
    /\ open' = open \ {g_dev}
    /\ g_dev' = NULL
    /\ stopped' = TRUE
    /\ UNCHANGED <<objects, table, locks, game, audio>>

Next ==
    \/ \E t \in GameThreads : GameCall(t) \/ GameStep(t) \/ EngineUnlock(t)
    \/ \E d \in Devices : AudioStep(d)
    \/ Shutdown

Spec == Init /\ [][Next]_vars

(***************************************************************************)
(* Threads inside a call go on, the engine gives its mutex back, and a     *)
(* mutex that is released again and again is eventually granted.  Nothing  *)
(* makes the game call anything.                                           *)
(***************************************************************************)
FairSpec ==
    /\ Spec
    /\ \A t \in GameThreads : SF_vars(GameStep(t)) /\ SF_vars(EngineUnlock(t))
    /\ \A d \in Devices : SF_vars(AudioStep(d))

----------------------------------------------------------------------------
(***************************************************************************)
(* A player being mixed is alive from the moment mix_player is entered to  *)
(* the moment it returns, through the engine's callback: player_Destroy    *)
(* unregisters under g_reg_lock before it frees.                           *)
(***************************************************************************)
MixedIsAlive ==
    \A d \in Devices : apc[d] \notin {"idle", "scan"} =>
        Mixed(d) # NULL /\ obj[Mixed(d)] = "alive"

(***************************************************************************)
(* What the game holds is in exactly one slot of the registry, or is a     *)
(* player that found it full; nothing freed is left in the registry.       *)
(***************************************************************************)
SlotsOf(p) == {s \in Slots : s < g_player_count /\ g_players[s] = p}

RegisteredOnce ==
    \A p \in Players :
        /\ p \in held /\ p \notin silent => \E s \in Slots : SlotsOf(p) = {s}
        /\ p \in silent \/ obj[p] # "alive" => SlotsOf(p) = {}

(***************************************************************************)
(* A player goes unheard only when MAX_PLAYERS players hold the slots:     *)
(* the slots of destroyed players are found again.                         *)
(***************************************************************************)
SilentOnlyWhenFull ==
    [][silent \subseteq silent' /\ silent # silent' =>
         \A s \in Slots : g_players[s] # NULL /\ obj[g_players[s]] = "alive"]_vars

(***************************************************************************)
(* No block is mixed forever: the audio thread comes out of every engine   *)
(* callback and every lock it waits for (the deadlock the comment above    *)
(* mix_player describes).                                                  *)
(***************************************************************************)
BlocksEnd == \A d \in Devices : apc[d] # "idle" ~> apc[d] = "idle"

=============================================================================
