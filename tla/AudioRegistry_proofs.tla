------------------------ MODULE AudioRegistry_proofs ------------------------
(***************************************************************************)
(* No freed player is ever mixed, for any number of game threads, players, *)
(* slots and devices, and whatever the engine does with its own mutex; and *)
(* as long as it only enqueues while holding that one, the threads that    *)
(* hold locks never all wait for one another.                              *)
(***************************************************************************)
EXTENDS AudioRegistry, WellFoundedInduction, TLAPS

(* The thread is the only one that knows the player it handles. *)
Owns(t) == epc[t] \in {"device", "open", "register", "unregister", "free"}

Registered(p) == \E s \in Slots : s < g_player_count /\ g_players[s] = p

GameInv ==
    \A t \in GameThreads :
        /\ epc[t] = "idle" <=> arg[t] = NULL
        /\ epc[t] # "idle" => obj[arg[t]] = "alive"
        /\ epc[t] \in {"device", "open"} => t \in Creators
        /\ Owns(t) =>
             /\ arg[t] \notin held
             /\ \A u \in GameThreads \ {t} : arg[u] # arg[t]
        /\ epc[t] = "free" => ~Registered(arg[t])

TableInv ==
    /\ \A p \in held : obj[p] = "alive"
    /\ \A p \in Players : Registered(p) => obj[p] = "alive"

(* An audio thread inside a block holds g_reg_lock, so that the table      *)
(* stays as it was.                                                        *)
AudioInv ==
    \A d \in Devices :
        /\ apc[d] # "idle" => reg_lock = Audio(d) /\ idx[d] <= g_player_count
        /\ apc[d] \notin {"idle", "scan"} =>
             idx[d] < g_player_count /\ Mixed(d) # NULL

IInv == TypeOK /\ GameInv /\ TableInv /\ AudioInv

(* Audio threads are told apart by their devices, and none is NULL.      *)
LEMMA AudioDistinct ==
  /\ \A d \in Devices : Audio(d) # NULL /\ Audio(d) \in AudioThreads
  /\ \A d, e \in Devices : Audio(d) = Audio(e) => d = e
<1>1. \A d \in Devices : Audio(d) \in AudioThreads
  BY DEF AudioThreads
<1>2. NULL \notin AudioThreads
  BY RegistryAssumption DEF Threads
<1>3. \A d, e \in Devices : Audio(d) = Audio(e) => d = e
  BY DEF Audio
<1> QED
  BY <1>1, <1>2, <1>3

(* No player exists at first, so that nothing is registered or mixed.    *)
LEMMA InitIInv == Init => IInv
<1> SUFFICES ASSUME Init PROVE IInv
  OBVIOUS
<1> USE RegistryAssumption DEF Init
<1>1. TypeOK
  <2>1. /\ obj \in [Players -> {"none", "alive", "freed"}]
        /\ held \subseteq Players /\ silent \subseteq Players
        /\ g_players \in [Slots -> Players \cup {NULL}]
    OBVIOUS
  <2>2. g_player_count \in 0..MAX_PLAYERS
    <3>1. g_player_count = 0
      OBVIOUS
    <3> QED
      BY ONLY <3>1, RegistryAssumption
  <2>6. /\ g_dev \in Devices \cup {NULL} /\ open \subseteq Devices
        /\ stopped \in BOOLEAN
    OBVIOUS
  <2>3. /\ reg_lock \in AudioThreads \cup {NULL}
        /\ eng_mutex \in Threads \cup {NULL}
        /\ player_lock \in [Players -> Threads \cup {NULL}]
    OBVIOUS
  <2>4. /\ epc \in [GameThreads -> {"idle", "device", "open", "register",
                                     "enqueue", "unregister", "free"}]
        /\ arg \in [GameThreads -> Players \cup {NULL}]
    OBVIOUS
  <2>5. /\ apc \in [Devices -> {"idle", "scan", "mix", "pop", "callback",
                                 "inCallback", "mixed"}]
        /\ idx \in [Devices -> 0..MAX_PLAYERS]
    OBVIOUS
  <2> QED
    BY <2>1, <2>2, <2>3, <2>4, <2>5, <2>6 DEF TypeOK
<1>2. GameInv
  BY DEF GameInv, Owns
<1>3. TableInv
  BY DEF TableInv, Registered, Slots
<1>4. AudioInv
  BY DEF AudioInv
<1> QED
  BY <1>1, <1>2, <1>3, <1>4 DEF IInv

(***************************************************************************)
(* What the calls of the game threads do to the invariant, one by one.     *)
(***************************************************************************)
LEMMA CreateSteps ==
  ASSUME IInv, NEW t \in GameThreads,
         (\E p \in Players : Create(t, p)) \/ CheckDevice(t) \/ OpenDevice(t)
  PROVE  IInv'
<1> USE RegistryAssumption DEF IInv, objects, table, device, locks, audio
<1>1. UNCHANGED <<held, g_players, g_player_count, reg_lock, apc, idx>>
  BY DEF Create, CheckDevice, OpenDevice
<1>2. TypeOK'
  <2>1. CASE \E p \in Players : Create(t, p)
    BY <2>1 DEF TypeOK, Create, Go
  <2>2. CASE CheckDevice(t)
    BY <2>2 DEF TypeOK, CheckDevice, Go
  <2>3. CASE OpenDevice(t)
    <3>1. t \in Devices
      BY <2>3 DEF OpenDevice, Go, GameInv, Devices
    <3> QED
      BY <2>3, <3>1 DEF TypeOK, OpenDevice, Go
  <2> QED
    BY <2>1, <2>2, <2>3
<1>3. AudioInv'
  BY <1>1 DEF AudioInv, Mixed
<1>4. \A r : Registered(r)' <=> Registered(r)
  BY <1>1 DEF Registered
<1>5. ASSUME NEW p \in Players, Create(t, p)
      PROVE  IInv'
  <2>1. /\ epc' = [epc EXCEPT ![t] = "device"] /\ arg' = [arg EXCEPT ![t] = p]
        /\ obj' = [obj EXCEPT ![p] = "alive"] /\ obj[p] = "none"
        /\ t \in Creators
    BY <1>5 DEF Create, Go
  <2>2. p \notin held /\ \A u \in GameThreads : arg[u] # p
    BY <2>1 DEF TableInv, GameInv, TypeOK
  <2>3. GameInv'
    BY <1>1, <1>4, <2>1, <2>2 DEF GameInv, TypeOK, Owns
  <2>4. TableInv'
    BY <1>1, <1>4, <2>1, <2>2 DEF TableInv, TypeOK
  <2> QED
    BY <1>2, <1>3, <2>3, <2>4
<1>6. CASE CheckDevice(t) \/ OpenDevice(t)
  <2>1. /\ arg' = arg /\ obj' = obj
        /\ epc[t] \in {"device", "open"}
        /\ \E to \in {"open", "register"} : epc' = [epc EXCEPT ![t] = to]
    BY <1>6 DEF CheckDevice, OpenDevice, Go
  <2>2. GameInv'
    BY <1>1, <1>4, <2>1 DEF GameInv, TypeOK, Owns
  <2>3. TableInv'
    BY <1>1, <1>4, <2>1 DEF TableInv
  <2> QED
    BY <1>2, <1>3, <2>2, <2>3
<1> QED
  BY <1>5, <1>6

(* register_player: the player is alive when it enters the table.        *)
LEMMA RegisterStep ==
  ASSUME IInv, NEW t \in GameThreads, Register(t)
  PROVE  IInv'
<1> DEFINE p == arg[t]
<1> USE RegistryAssumption DEF IInv
<1>1. /\ reg_lock = NULL /\ epc[t] = "register" /\ p \in Players
      /\ epc' = [epc EXCEPT ![t] = "idle"] /\ arg' = [arg EXCEPT ![t] = NULL]
      /\ held' = held \cup {p}
      /\ UNCHANGED <<obj, g_dev, open, stopped, reg_lock, eng_mutex,
                     player_lock, apc, idx>>
  BY DEF Register, Go, device, locks, audio, GameInv, TypeOK
<1>2. \A s \in Slots : g_players'[s] \in {g_players[s], p}
  BY DEF Register, TypeOK
<1>3. /\ g_player_count' \in 0..MAX_PLAYERS /\ g_player_count <= g_player_count'
      /\ \A s \in Slots : s < g_player_count' /\ ~(s < g_player_count) =>
           g_players'[s] = p
  BY DEF Register, MayGrow, TypeOK, Slots
<1>4. \A r : Registered(r)' => Registered(r) \/ r = p
  BY <1>2, <1>3 DEF Registered
<1>5. TypeOK'
  BY <1>1, <1>3 DEF TypeOK, Register
<1>6. GameInv'
  BY <1>1, <1>4 DEF GameInv, TypeOK, Owns
<1>7. TableInv'
  BY <1>1, <1>4 DEF TableInv, GameInv
<1>8. AudioInv'
  BY <1>1, AudioDistinct DEF AudioInv
<1> QED
  BY <1>5, <1>6, <1>7, <1>8

(* Enqueue and the engine's own mutex touch neither players nor table.   *)
LEMMA EnqueueSteps ==
  ASSUME IInv, NEW t \in GameThreads,
         \/ \E p \in Players : Enqueue(t, p)
         \/ EnqueueReturns(t) \/ EngineLock(t) \/ EngineUnlock(t)
  PROVE  IInv'
<1> USE RegistryAssumption DEF IInv, objects, table, device, audio, game
<1>1. UNCHANGED <<obj, held, g_players, g_player_count, reg_lock, apc, idx>>
  BY DEF Enqueue, EnqueueReturns, EngineLock, EngineUnlock
<1>2. \A r : Registered(r)' <=> Registered(r)
  BY <1>1 DEF Registered
<1>3. TypeOK'
  BY DEF TypeOK, Enqueue, EnqueueReturns, EngineLock, EngineUnlock, Go, Threads
<1>4. TableInv' /\ AudioInv'
  BY <1>1, <1>2 DEF TableInv, AudioInv, Mixed
<1>5. ASSUME NEW p \in Players, Enqueue(t, p)
      PROVE  IInv'
  <2>1. /\ epc' = [epc EXCEPT ![t] = "enqueue"] /\ arg' = [arg EXCEPT ![t] = p]
        /\ p \in held
    BY <1>5 DEF Enqueue, Go
  <2> QED
    BY <1>1, <1>2, <1>3, <1>4, <2>1 DEF GameInv, TableInv, TypeOK, Owns
<1>6. CASE EnqueueReturns(t)
  <2>1. epc' = [epc EXCEPT ![t] = "idle"] /\ arg' = [arg EXCEPT ![t] = NULL]
    BY <1>6 DEF EnqueueReturns, Go
  <2> QED
    BY <1>1, <1>2, <1>3, <1>4, <2>1 DEF GameInv, TypeOK, Owns
<1>7. CASE EngineLock(t) \/ EngineUnlock(t)
  <2>1. UNCHANGED <<epc, arg>>
    BY <1>7 DEF EngineLock, EngineUnlock
  <2> QED
    BY <1>1, <1>2, <1>3, <1>4, <2>1 DEF GameInv, Owns
<1> QED
  BY <1>5, <1>6, <1>7

(* A player leaves the table before it is freed.                         *)
LEMMA DestroySteps ==
  ASSUME IInv, NEW t \in GameThreads,
         (\E p \in Players : Destroy(t, p)) \/ Unregister(t) \/ Free(t)
  PROVE  IInv'
<1> USE RegistryAssumption DEF IInv, objects, table, device, locks, audio
<1>1. TypeOK'
  BY DEF TypeOK, Destroy, Unregister, Free, Go
<1>2. ASSUME NEW p \in Players, Destroy(t, p)
      PROVE  IInv'
  <2>1. /\ epc' = [epc EXCEPT ![t] = "unregister"]
        /\ arg' = [arg EXCEPT ![t] = p]
        /\ p \in held /\ held' = held \ {p} /\ \A u \in GameThreads : arg[u] # p
        /\ UNCHANGED <<obj, g_players, g_player_count, reg_lock, apc, idx>>
    BY <1>2 DEF Destroy, Go
  <2>2. \A r : Registered(r)' <=> Registered(r)
    BY <2>1 DEF Registered
  <2> QED
    BY <1>1, <2>1, <2>2
    DEF GameInv, TableInv, AudioInv, Mixed, TypeOK, Owns
<1>3. CASE Unregister(t)
  <2>1. /\ epc[t] = "unregister" /\ epc' = [epc EXCEPT ![t] = "free"]
        /\ reg_lock = NULL
        /\ UNCHANGED <<arg, obj, held, g_player_count, reg_lock, apc, idx>>
    BY <1>3 DEF Unregister, Go
  <2>2. arg[t] # NULL
    BY <2>1 DEF GameInv
  <2>3. \A r \in Players : Registered(r)' => Registered(r) /\ r # arg[t]
    BY <1>3, <2>1, <2>2 DEF Registered, Unregister
  <2>4. GameInv'
    BY <2>1, <2>3 DEF GameInv, TypeOK, Owns
  <2>5. AudioInv'
    BY <2>1, AudioDistinct DEF AudioInv
  <2> QED
    BY <1>1, <2>1, <2>3, <2>4, <2>5 DEF TableInv
<1>4. CASE Free(t)
  <2>1. /\ epc[t] = "free" /\ epc' = [epc EXCEPT ![t] = "idle"]
        /\ arg' = [arg EXCEPT ![t] = NULL]
        /\ obj' = [obj EXCEPT ![arg[t]] = "freed"]
        /\ UNCHANGED <<held, g_players, g_player_count, reg_lock, apc, idx>>
    BY <1>4 DEF Free, Go
  <2>2. \A r : Registered(r)' <=> Registered(r)
    BY <2>1 DEF Registered
  <2>3. arg[t] \in Players /\ arg[t] \notin held /\ ~Registered(arg[t])
        /\ \A u \in GameThreads \ {t} : arg[u] # arg[t]
    BY <2>1 DEF GameInv, TypeOK, Owns
  <2>4. GameInv'
    BY <2>1, <2>2, <2>3 DEF GameInv, TypeOK, Owns
  <2>5. TableInv'
    BY <2>1, <2>2, <2>3 DEF TableInv, TypeOK
  <2>6. AudioInv'
    BY <2>1 DEF AudioInv, Mixed
  <2> QED
    BY <1>1, <2>4, <2>5, <2>6
<1> QED
  BY <1>2, <1>3, <1>4

(***************************************************************************)
(* The audio threads and the shutdown leave players and table alone.       *)
(***************************************************************************)
LEMMA AudioSteps ==
  ASSUME IInv, (\E d \in Devices : AudioStep(d)) \/ Shutdown \/ UNCHANGED vars
  PROVE  IInv'
<1> USE RegistryAssumption DEF IInv, objects, table, device, locks, audio, game
<1>1. UNCHANGED <<obj, held, g_players, g_player_count, epc, arg>>
  BY DEF AudioStep, BlockStart, ScanSkip, ScanMix, BlockEnd, CallEngine,
     CallbackLocks, CallbackReturns, PopLocks, PopUnlocks, MixPlain, Shutdown,
     vars
<1>2. GameInv' /\ TableInv'
  BY <1>1 DEF GameInv, TableInv, Registered, Owns
<1>3. CASE Shutdown \/ UNCHANGED vars
  BY <1>1, <1>2, <1>3 DEF Shutdown, vars, TypeOK, AudioInv, Mixed
<1>4. ASSUME NEW d \in Devices, AudioStep(d)
      PROVE  TypeOK' /\ AudioInv'
  <2>1. CASE BlockStart(d)
    BY <1>1, <2>1, AudioDistinct DEF BlockStart, Advance, TypeOK, AudioInv, Mixed
  <2>2. CASE ScanSkip(d)
    BY <1>1, <2>2 DEF ScanSkip, TypeOK, AudioInv, Mixed
  <2>3. CASE ScanMix(d)
    BY <1>1, <2>3 DEF ScanMix, Advance, TypeOK, AudioInv, Mixed
  <2>4. CASE BlockEnd(d)
    BY <1>1, <2>4, AudioDistinct DEF BlockEnd, Advance, TypeOK, AudioInv, Mixed
  <2>5. CASE CallEngine(d) \/ CallbackLocks(d) \/ CallbackReturns(d) \/ PopLocks(d)
    BY <1>1, <2>5, AudioDistinct DEF CallEngine, CallbackLocks, CallbackReturns,
       PopLocks, Advance, TypeOK, AudioInv, Mixed, Threads
  <2>6. CASE PopUnlocks(d) \/ MixPlain(d)
    BY <1>1, <2>6 DEF PopUnlocks, MixPlain, Advance, TypeOK, AudioInv, Mixed
  <2> QED
    BY <1>4, <2>1, <2>2, <2>3, <2>4, <2>5, <2>6 DEF AudioStep
<1> QED
  BY <1>2, <1>3, <1>4

(* Every step keeps the invariant.                                       *)
LEMMA NextIInv == IInv /\ [Next]_vars => IInv'
<1> SUFFICES ASSUME IInv, [Next]_vars PROVE IInv'
  OBVIOUS
<1>1. ASSUME NEW t \in GameThreads, GameCall(t) \/ GameStep(t) \/ EngineUnlock(t)
      PROVE  IInv'
  BY <1>1, CreateSteps, RegisterStep, EnqueueSteps, DestroySteps
  DEF GameCall, GameStep
<1> QED
  BY <1>1, AudioSteps DEF Next

(***************************************************************************)
(* The inductive invariant: a thread that creates or destroys a player is  *)
(* alone in knowing it, the table holds live players only, and it stays as *)
(* it is inside a block, because audio_callback holds g_reg_lock.          *)
(***************************************************************************)
THEOREM Invariance == Spec => []IInv
  BY InitIInv, NextIInv, PTL DEF Spec

(***************************************************************************)
(* The state of players, registry, device and threads keeps its type.      *)
(***************************************************************************)
THEOREM TypeCorrect == Spec => []TypeOK
<1>1. IInv => TypeOK
  BY DEF IInv
<1> QED
  BY Invariance, <1>1, PTL

(***************************************************************************)
(* From the moment mix_player is entered to the moment it returns, the     *)
(* player it mixes has not been freed.                                     *)
(***************************************************************************)
THEOREM MixedStaysAlive == Spec => []MixedIsAlive
<1>1. IInv => MixedIsAlive
  <2> SUFFICES ASSUME IInv, NEW d \in Devices, apc[d] \notin {"idle", "scan"}
               PROVE  Mixed(d) # NULL /\ obj[Mixed(d)] = "alive"
    BY DEF MixedIsAlive
  <2>1. idx[d] < g_player_count /\ Mixed(d) # NULL
    BY DEF IInv, AudioInv
  <2>2. idx[d] \in Slots
    BY <2>1, RegistryAssumption DEF IInv, TypeOK, Slots
  <2>3. Mixed(d) \in Players /\ Registered(Mixed(d))
    BY <2>1, <2>2 DEF IInv, TypeOK, Mixed, Registered
  <2> QED
    BY <2>1, <2>3 DEF IInv, TableInv
<1> QED
  BY Invariance, <1>1, PTL

----------------------------------------------------------------------------
(* The registry as a set: a player is in at most one slot, the silent ones *)
(* and those not registered yet are in none.                               *)
SlotInv ==
    \A s, r \in Slots :
        /\ s < g_player_count /\ r < g_player_count
        /\ g_players[s] = g_players[r] /\ g_players[s] # NULL
        => s = r

SilentInv ==
    /\ \A p \in silent : obj[p] = "alive" /\ ~Registered(p)
    /\ \A p \in held \ silent : Registered(p)

NewInv ==
    \A t \in GameThreads : epc[t] \in {"device", "open", "register"} =>
        arg[t] \notin silent /\ ~Registered(arg[t])

RegistryInv == SlotInv /\ SilentInv /\ NewInv

(* The table is empty at first.                                          *)
LEMMA RegistryInit == Init => RegistryInv
  BY DEF Init, RegistryInv, SlotInv, SilentInv, NewInv, Registered

(***************************************************************************)
(* The slot Register takes is free: the first free one below the count, or *)
(* the one at the count.                                                   *)
(***************************************************************************)
LEMMA SlotTaken ==
  ASSUME TypeOK, FreeSlots # {}
  PROVE  Min(FreeSlots) \in FreeSlots
<1>1. FreeSlots \subseteq Nat
  BY DEF FreeSlots, Slots
<1> DEFINE less == OpToRel(<, Nat)
<1>2. IsWellFoundedOn(less, Nat)
  BY NatLessThanWellFounded
<1> HIDE DEF less
<1>3. PICK n \in FreeSlots : \A m \in FreeSlots : <<m, n>> \notin less
  BY <1>1, <1>2, WFMin
<1>4. ASSUME NEW m \in FreeSlots
      PROVE  n <= m
  <2>1. m \in Nat /\ n \in Nat
    BY <1>1
  <2>2. m < n => <<m, n>> \in less
    BY <2>1 DEF less, OpToRel
  <2>3. ~(m < n)
    BY <1>3, <2>2
  <2> QED
    BY <2>1, <2>3
<1> QED
  BY <1>4 DEF Min

(* register_player fills a slot that was empty, or none.                 *)
LEMMA RegisterRegistry ==
  ASSUME IInv, RegistryInv, NEW t \in GameThreads, Register(t)
  PROVE  RegistryInv'
<1> DEFINE p == arg[t]
           slot == IF FreeSlots # {} THEN Min(FreeSlots) ELSE g_player_count
<1> USE RegistryAssumption DEF IInv, RegistryInv
<1>1. /\ epc[t] = "register" /\ p \in Players /\ obj[p] = "alive"
      /\ p \notin held /\ p \notin silent /\ ~Registered(p)
      /\ \A u \in GameThreads \ {t} : arg[u] # p
      /\ epc' = [epc EXCEPT ![t] = "idle"] /\ arg' = [arg EXCEPT ![t] = NULL]
      /\ held' = held \cup {p} /\ obj' = obj
  BY DEF Register, Go, GameInv, TypeOK, Owns, NewInv
<1>2. CASE FreeSlots # {} \/ MayGrow
  <2>1. /\ slot \in Slots
        /\ slot < g_player_count => g_players[slot] = NULL
    BY <1>2, SlotTaken DEF FreeSlots, MayGrow, Slots, TypeOK
  <2>2. g_players' = [g_players EXCEPT ![slot] = p] /\ silent' = silent
    BY <1>2 DEF Register
  <2>3. /\ g_player_count' \in Nat /\ slot < g_player_count'
        /\ \A s \in Slots : s < g_player_count' <=> s < g_player_count \/ s = slot
    <3>1. g_player_count' = IF MayGrow THEN g_player_count + 1
                                       ELSE g_player_count
      BY DEF Register, TypeOK
    <3>2. CASE MayGrow
      <4>1. slot = g_player_count
        BY <3>2 DEF MayGrow
      <4> QED
        BY <3>1, <3>2, <4>1 DEF TypeOK, Slots
    <3>3. CASE ~MayGrow
      <4>1. slot < g_player_count
        BY <1>2, <3>3, SlotTaken DEF FreeSlots
      <4> QED
        BY <3>1, <3>3, <4>1 DEF TypeOK, Slots
    <3> QED
      BY <3>2, <3>3
  <2>4. \A r \in Players : Registered(r)' <=> Registered(r) \/ r = p
    BY <2>1, <2>2, <2>3 DEF Registered, TypeOK
  <2>5. SlotInv'
    BY <1>1, <2>1, <2>2, <2>3 DEF SlotInv, Registered, TypeOK
  <2>6. SilentInv'
    BY <1>1, <2>2, <2>4 DEF SilentInv, TypeOK
  <2>7. NewInv'
    BY <1>1, <2>2, <2>4 DEF NewInv, TypeOK, GameInv
  <2> QED
    BY <2>5, <2>6, <2>7
<1>3. CASE ~(FreeSlots # {} \/ MayGrow)
  <2>1. /\ g_players' = g_players /\ silent' = silent \cup {p}
        /\ g_player_count' = g_player_count
    BY <1>3 DEF Register, TypeOK
  <2>2. \A r : Registered(r)' <=> Registered(r)
    BY <2>1 DEF Registered
  <2>3. SlotInv' /\ SilentInv'
    BY <1>1, <2>1, <2>2 DEF SlotInv, SilentInv
  <2>4. NewInv'
    BY <1>1, <2>1, <2>2 DEF NewInv, TypeOK
  <2> QED
    BY <2>3, <2>4
<1> QED
  BY <1>2, <1>3

(* unregister_player clears the one slot that names its player.          *)
LEMMA DestroyRegistry ==
  ASSUME IInv, RegistryInv, NEW t \in GameThreads,
         (\E p \in Players : Destroy(t, p)) \/ Unregister(t) \/ Free(t)
  PROVE  RegistryInv'
<1> USE RegistryAssumption DEF IInv, RegistryInv, objects, table, device, locks
<1>1. ASSUME NEW p \in Players, Destroy(t, p)
      PROVE  RegistryInv'
  <2>1. /\ epc' = [epc EXCEPT ![t] = "unregister"]
        /\ arg' = [arg EXCEPT ![t] = p] /\ held' = held \ {p}
        /\ UNCHANGED <<obj, silent, g_players, g_player_count>>
    BY <1>1 DEF Destroy, Go
  <2>2. \A r : Registered(r)' <=> Registered(r)
    BY <2>1 DEF Registered
  <2> QED
    BY <2>1, <2>2 DEF SlotInv, SilentInv, NewInv, TypeOK
<1>2. CASE Unregister(t)
  <2>1. /\ epc[t] = "unregister" /\ epc' = [epc EXCEPT ![t] = "free"]
        /\ g_players' = [s \in Slots |->
             IF s < g_player_count /\ g_players[s] = arg[t]
             THEN NULL ELSE g_players[s]]
        /\ UNCHANGED <<arg, obj, held, silent, g_player_count>>
    BY <1>2 DEF Unregister, Go
  <2>2. arg[t] \in Players /\ arg[t] \notin held
    BY <2>1 DEF GameInv, TypeOK, Owns
  <2>3. \A r \in Players : Registered(r)' <=> Registered(r) /\ r # arg[t]
    BY <2>1, <2>2 DEF Registered
  <2>4. SlotInv'
    BY <2>1 DEF SlotInv, TypeOK
  <2>5. SilentInv'
    BY <2>1, <2>2, <2>3 DEF SilentInv, TypeOK
  <2>6. NewInv'
    BY <2>1, <2>3 DEF NewInv, TypeOK, GameInv
  <2> QED
    BY <2>4, <2>5, <2>6
<1>3. CASE Free(t)
  <2>1. /\ epc[t] = "free" /\ epc' = [epc EXCEPT ![t] = "idle"]
        /\ arg' = [arg EXCEPT ![t] = NULL] /\ silent' = silent \ {arg[t]}
        /\ obj' = [obj EXCEPT ![arg[t]] = "freed"]
        /\ UNCHANGED <<held, g_players, g_player_count>>
    BY <1>3 DEF Free, Go
  <2>2. arg[t] \notin held
    BY <2>1 DEF GameInv, Owns
  <2>3. \A r : Registered(r)' <=> Registered(r)
    BY <2>1 DEF Registered
  <2> QED
    BY <2>1, <2>2, <2>3 DEF SlotInv, SilentInv, NewInv, TypeOK
<1> QED
  BY <1>1, <1>2, <1>3

(* No other step changes the table.                                      *)
LEMMA OtherRegistry ==
  ASSUME IInv, RegistryInv,
         \/ \E t \in GameThreads :
              \/ \E p \in Players : Create(t, p) \/ Enqueue(t, p)
              \/ CheckDevice(t) \/ OpenDevice(t) \/ EnqueueReturns(t)
              \/ EngineLock(t) \/ EngineUnlock(t)
         \/ (\E d \in Devices : AudioStep(d)) \/ Shutdown \/ UNCHANGED vars
  PROVE  RegistryInv'
<1> USE RegistryAssumption
    DEF IInv, RegistryInv, objects, table, device, locks, game, audio
<1>1. UNCHANGED <<held, silent, g_players, g_player_count>>
  BY DEF Create, Enqueue, CheckDevice, OpenDevice, EnqueueReturns, EngineLock,
     EngineUnlock, AudioStep, BlockStart, ScanSkip, ScanMix, BlockEnd,
     CallEngine, CallbackLocks, CallbackReturns, PopLocks, PopUnlocks, MixPlain,
     Shutdown, vars
<1>2. \A r : Registered(r)' <=> Registered(r)
  BY <1>1 DEF Registered
<1>3. SlotInv'
  BY <1>1 DEF SlotInv
<1>4. ASSUME NEW t \in GameThreads, NEW p \in Players, Create(t, p)
      PROVE  RegistryInv'
  <2>1. /\ epc' = [epc EXCEPT ![t] = "device"] /\ arg' = [arg EXCEPT ![t] = p]
        /\ obj' = [obj EXCEPT ![p] = "alive"] /\ obj[p] = "none"
    BY <1>4 DEF Create, Go
  <2>2. p \notin silent /\ ~Registered(p)
    BY <2>1 DEF SilentInv, TableInv
  <2> QED
    BY <1>1, <1>2, <1>3, <2>1, <2>2 DEF SilentInv, NewInv, TypeOK
<1>5. CASE \E t \in GameThreads : \E p \in Players : Enqueue(t, p)
  BY <1>1, <1>2, <1>3, <1>5 DEF Enqueue, Go, SilentInv, NewInv, TypeOK
<1>6. CASE \E t \in GameThreads : CheckDevice(t) \/ OpenDevice(t)
  BY <1>1, <1>2, <1>3, <1>6
  DEF CheckDevice, OpenDevice, Go, SilentInv, NewInv, TypeOK
<1>7. CASE \E t \in GameThreads : EnqueueReturns(t)
  BY <1>1, <1>2, <1>3, <1>7 DEF EnqueueReturns, Go, SilentInv, NewInv, TypeOK
<1>8. CASE \/ \E t \in GameThreads : EngineLock(t) \/ EngineUnlock(t)
           \/ (\E d \in Devices : AudioStep(d)) \/ Shutdown \/ UNCHANGED vars
  <2>1. UNCHANGED <<obj, epc, arg>>
    BY <1>8 DEF EngineLock, EngineUnlock, AudioStep, BlockStart, ScanSkip,
       ScanMix, BlockEnd, CallEngine, CallbackLocks, CallbackReturns, PopLocks,
       PopUnlocks, MixPlain, Shutdown, vars
  <2> QED
    BY <1>1, <1>2, <1>3, <2>1 DEF SilentInv, NewInv
<1> QED
  BY <1>4, <1>5, <1>6, <1>7, <1>8

(***************************************************************************)
(* Every player the game holds is mixed from one slot unless the registry  *)
(* was full when it was created, and nothing freed stays in a slot.        *)
(***************************************************************************)
THEOREM SlotsAreSound == Spec => []RegisteredOnce
<1>1. IInv /\ RegistryInv /\ [Next]_vars => RegistryInv'
  BY RegisterRegistry, DestroyRegistry, OtherRegistry DEF Next, GameCall, GameStep
<1>2. IInv /\ RegistryInv => RegisteredOnce
  <2> SUFFICES ASSUME IInv, RegistryInv, NEW p \in Players
               PROVE  /\ p \in held /\ p \notin silent =>
                           \E s \in Slots : SlotsOf(p) = {s}
                      /\ p \in silent \/ obj[p] # "alive" => SlotsOf(p) = {}
    BY DEF RegisteredOnce
  <2>1. ~Registered(p) => SlotsOf(p) = {}
    BY DEF Registered, SlotsOf
  <2>2. p # NULL
    BY RegistryAssumption
  <2>3. Registered(p) => \E s \in Slots : SlotsOf(p) = {s}
    BY <2>2 DEF Registered, SlotsOf, RegistryInv, SlotInv
  <2> QED
    BY <2>1, <2>3 DEF IInv, TableInv, RegistryInv, SilentInv
<1> QED
  BY RegistryInit, Invariance, <1>1, <1>2, PTL DEF Spec

(***************************************************************************)
(* register_player leaves a player without a slot only when each of the    *)
(* MAX_PLAYERS slots holds a player that has not been destroyed: no slot   *)
(* is lost by the players created and destroyed before.                    *)
(***************************************************************************)
THEOREM SilentWhenFull == Spec => SilentOnlyWhenFull
<1>1. ASSUME IInv, [Next]_vars, silent \subseteq silent', silent # silent',
             NEW s \in Slots
      PROVE  g_players[s] # NULL /\ obj[g_players[s]] = "alive"
  <2>1. PICK t \in GameThreads : Register(t)
    <3>1. CASE \E t \in GameThreads : Free(t)
      BY <1>1, <3>1 DEF Free
    <3>2. CASE \/ \E t \in GameThreads :
                    \/ \E p \in Players :
                         Create(t, p) \/ Enqueue(t, p) \/ Destroy(t, p)
                    \/ CheckDevice(t) \/ OpenDevice(t) \/ EnqueueReturns(t)
                    \/ Unregister(t) \/ EngineLock(t) \/ EngineUnlock(t)
               \/ (\E d \in Devices : AudioStep(d)) \/ Shutdown
               \/ UNCHANGED vars
      <4>1. silent' = silent
        BY <3>2 DEF objects, Create, Enqueue, Destroy, CheckDevice, OpenDevice,
           EnqueueReturns, Unregister, EngineLock, EngineUnlock, AudioStep,
           BlockStart, ScanSkip, ScanMix, BlockEnd, CallEngine, CallbackLocks,
           CallbackReturns, PopLocks, PopUnlocks, MixPlain, Shutdown, vars
      <4> QED
        BY <1>1, <4>1
    <3> QED
      BY <1>1, <3>1, <3>2 DEF Next, GameCall, GameStep
  <2>2. FreeSlots = {} /\ ~MayGrow
    BY <1>1, <2>1 DEF Register
  <2>3. g_player_count = MAX_PLAYERS
    BY <1>1, <2>2, RegistryAssumption DEF MayGrow, IInv, TypeOK
  <2>4. s < g_player_count
    BY <2>3, RegistryAssumption DEF Slots
  <2>5. g_players[s] # NULL
    BY <2>2, <2>4 DEF FreeSlots
  <2> QED
    BY <1>1, <2>4, <2>5 DEF IInv, TableInv, TypeOK, Registered
<1>2. IInv /\ [Next]_vars =>
        [silent \subseteq silent' /\ silent # silent' =>
           \A s \in Slots : g_players[s] # NULL /\ obj[g_players[s]] = "alive"]_vars
  BY <1>1
<1> QED
  BY Invariance, <1>2, PTL DEF Spec, SilentOnlyWhenFull

----------------------------------------------------------------------------
(* The locks in the order in which a thread may take one while it holds    *)
(* another: 1 is g_reg_lock, 2 the engine's mutex, 3 the lock of a player. *)
Levels == 1..3

Holds(t, level) ==
    \/ level = 1 /\ reg_lock = t
    \/ level = 2 /\ eng_mutex = t
    \/ level = 3 /\ \E p \in Players : player_lock[p] = t

(* The locks t may be blocked on where it is.  An idle game thread may be  *)
(* about to take its mutex or the lock of any player.                      *)
Awaits(t, level) ==
    \/ /\ t \in GameThreads
       /\ \/ level = 1 /\ epc[t] \in {"register", "unregister"}
          \/ level = 2 /\ epc[t] = "idle" /\ eng_mutex # t
          \/ level = 3 /\ epc[t] = "idle"
    \/ \E d \in Devices :
         /\ t = Audio(d)
         /\ \/ level = 1 /\ apc[d] = "idle"
            \/ level = 2 /\ apc[d] = "callback"
            \/ level = 3 /\ apc[d] \in {"mix", "mixed", "inCallback"}

(* The mixer drops p->lock around the callback, and nobody asks for a lock *)
(* below or beside one it holds.                                           *)
LocksInOrder ==
    \A t \in Threads : \A h, w \in Levels : Holds(t, h) /\ Awaits(t, w) => h < w

(* As long as a lock is held, some thread that holds one can go on: none   *)
(* of the locks it may be blocked on is taken.                             *)
SomeHolderRuns ==
    (\E t \in Threads, h \in Levels : Holds(t, h)) =>
        \E u \in Threads :
            /\ \E h \in Levels : Holds(u, h)
            /\ \A w \in Levels : Awaits(u, w) => \A v \in Threads : ~Holds(v, w)

(* Where a thread is when it holds a lock. *)
GameLocksInv ==
    \A t \in GameThreads :
        /\ \A p \in Players : player_lock[p] = t => epc[t] = "enqueue" /\ arg[t] = p
        /\ eng_mutex = t => epc[t] \in {"idle", "enqueue"}

AudioLocksInv ==
    \A d \in Devices :
        /\ \A p \in Players :
             player_lock[p] = Audio(d) => apc[d] = "pop" /\ Mixed(d) = p
        /\ eng_mutex = Audio(d) => apc[d] = "inCallback"
        /\ reg_lock = Audio(d) => apc[d] # "idle"

LocksInv == GameLocksInv /\ AudioLocksInv

(* Threads of the engine and of SDL are told apart from each other and     *)
(* from NULL.                                                              *)
LEMMA ThreadsDistinct ==
  /\ \A t \in GameThreads : t # NULL /\ \A d \in Devices : t # Audio(d)
  /\ \A d \in Devices : Audio(d) # NULL /\ \A e \in Devices : Audio(d) = Audio(e) => d = e
<1>1. \A d \in Devices : Audio(d) \in AudioThreads
  BY DEF AudioThreads
<1>2. \A t \in GameThreads : t # NULL /\ t \notin AudioThreads
  BY RegistryAssumption DEF Threads
<1> QED
  BY <1>1, <1>2, AudioDistinct

(* No lock is held at first.                                             *)
LEMMA LocksInit == Init => LocksInv
  BY ThreadsDistinct DEF Init, LocksInv, GameLocksInv, AudioLocksInv

(* A game thread holds p->lock in Enqueue only, and its own mutex there or *)
(* between calls, since it holds it in no other call.                      *)
LEMMA GameKeepsLocks ==
  ASSUME HeldCalls \subseteq {"enqueue"}, IInv, LocksInv, NEW t \in GameThreads,
         GameCall(t) \/ GameStep(t) \/ EngineUnlock(t)
  PROVE  LocksInv'
<1> USE DEF LocksInv, objects, table, device, locks, game, audio
<1>1. /\ epc \in [GameThreads -> {"idle", "device", "open", "register",
                                   "enqueue", "unregister", "free"}]
      /\ arg \in [GameThreads -> Players \cup {NULL}]
      /\ player_lock \in [Players -> Threads \cup {NULL}]
  BY DEF IInv, TypeOK
<1>2. UNCHANGED <<reg_lock, apc, idx>>
  BY DEF GameCall, GameStep, EngineUnlock, EngineLock, Create, Enqueue, Destroy,
     CheckDevice, OpenDevice, Register, EnqueueReturns, Unregister, Free
<1>3. \A d \in Devices : apc[d] = "pop" => Mixed(d)' = Mixed(d)
  <2> SUFFICES ASSUME NEW d \in Devices, apc[d] = "pop" PROVE Mixed(d)' = Mixed(d)
    OBVIOUS
  <2>1. reg_lock # NULL
    BY ThreadsDistinct DEF IInv, AudioInv
  <2>2. g_players' = g_players
    BY <2>1 DEF GameCall, GameStep, EngineUnlock, EngineLock, Create, Enqueue,
       Destroy, CheckDevice, OpenDevice, Register, EnqueueReturns, Unregister, Free
  <2> QED
    BY <1>2, <2>2 DEF Mixed
<1>4. ASSUME NEW p \in Players, Enqueue(t, p)
      PROVE  LocksInv'
  <2>1. /\ epc[t] = "idle" /\ epc' = [epc EXCEPT ![t] = "enqueue"]
        /\ arg' = [arg EXCEPT ![t] = p]
        /\ player_lock' = [player_lock EXCEPT ![p] = t]
        /\ player_lock[p] = NULL /\ eng_mutex' = eng_mutex
    BY <1>4 DEF Enqueue, Go
  <2>2. GameLocksInv'
    BY <1>1, <2>1 DEF GameLocksInv
  <2>3. AudioLocksInv'
    BY <1>1, <1>2, <1>3, <2>1, ThreadsDistinct DEF AudioLocksInv
  <2> QED
    BY <2>2, <2>3
<1>5. CASE EnqueueReturns(t)
  <2>1. /\ epc[t] = "enqueue" /\ epc' = [epc EXCEPT ![t] = "idle"]
        /\ arg' = [arg EXCEPT ![t] = NULL]
        /\ player_lock' = [player_lock EXCEPT ![arg[t]] = NULL]
        /\ eng_mutex' = eng_mutex
    BY <1>5 DEF EnqueueReturns, Go
  <2>2. GameLocksInv'
    BY <1>1, <2>1, ThreadsDistinct DEF GameLocksInv
  <2>3. AudioLocksInv'
    BY <1>1, <1>2, <1>3, <2>1, ThreadsDistinct DEF AudioLocksInv
  <2> QED
    BY <2>2, <2>3
<1>6. CASE EngineLock(t) \/ EngineUnlock(t)
  <2>1. /\ epc[t] = "idle" /\ eng_mutex' \in {t, NULL}
        /\ UNCHANGED <<epc, arg, player_lock>>
    BY <1>6 DEF EngineLock, EngineUnlock
  <2>2. GameLocksInv'
    BY <2>1, ThreadsDistinct DEF GameLocksInv
  <2>3. AudioLocksInv'
    BY <1>2, <1>3, <2>1, ThreadsDistinct DEF AudioLocksInv
  <2> QED
    BY <2>2, <2>3
<1>7. CASE (\E p \in Players : Create(t, p) \/ Destroy(t, p))
  <2>1. /\ eng_mutex # t /\ epc[t] = "idle"
        /\ \E to \in {"device", "unregister"}, p \in Players :
             epc' = [epc EXCEPT ![t] = to] /\ arg' = [arg EXCEPT ![t] = p]
        /\ UNCHANGED <<eng_mutex, player_lock>>
    BY <1>7 DEF Create, Destroy, Go, MayCall
  <2>2. GameLocksInv'
    BY <1>1, <2>1 DEF GameLocksInv
  <2>3. AudioLocksInv'
    BY <1>2, <1>3, <2>1 DEF AudioLocksInv
  <2> QED
    BY <2>2, <2>3
<1>8. CASE CheckDevice(t) \/ OpenDevice(t) \/ Register(t) \/ Unregister(t) \/ Free(t)
  <2>1. /\ epc[t] \in {"device", "open", "register", "unregister", "free"}
        /\ \A u \in GameThreads \ {t} : epc'[u] = epc[u] /\ arg'[u] = arg[u]
        /\ UNCHANGED <<eng_mutex, player_lock>>
    BY <1>1, <1>8 DEF CheckDevice, OpenDevice, Register, Unregister, Free, Go
  <2>2. GameLocksInv'
    BY <2>1 DEF GameLocksInv
  <2>3. AudioLocksInv'
    BY <1>2, <1>3, <2>1 DEF AudioLocksInv
  <2> QED
    BY <2>2, <2>3
<1> QED
  BY <1>4, <1>5, <1>6, <1>7, <1>8 DEF GameCall, GameStep

(* An audio thread holds g_reg_lock in its block, the engine's mutex in    *)
(* the callback and the lock of the player it mixes where it pops.         *)
LEMMA AudioKeepsLocks ==
  ASSUME IInv, LocksInv, NEW d \in Devices, AudioStep(d)
  PROVE  LocksInv'
<1> USE DEF LocksInv, objects, table, device, locks, game, audio
<1>1. /\ apc \in [Devices -> {"idle", "scan", "mix", "pop", "callback",
                              "inCallback", "mixed"}]
      /\ idx \in [Devices -> 0..MAX_PLAYERS]
      /\ player_lock \in [Players -> Threads \cup {NULL}]
  BY DEF IInv, TypeOK
<1>2. UNCHANGED <<g_players, epc, arg>>
  BY DEF AudioStep, BlockStart, ScanSkip, ScanMix, BlockEnd, CallEngine,
     CallbackLocks, CallbackReturns, PopLocks, PopUnlocks, MixPlain
<1>3. \A e \in Devices \ {d} : apc'[e] = apc[e] /\ Mixed(e)' = Mixed(e)
  <2>1. \A e \in Devices \ {d} : apc'[e] = apc[e] /\ idx'[e] = idx[e]
    BY <1>1 DEF AudioStep, BlockStart, ScanSkip, ScanMix, BlockEnd, CallEngine,
       CallbackLocks, CallbackReturns, PopLocks, PopUnlocks, MixPlain, Advance
  <2> QED
    BY <1>2, <2>1 DEF Mixed
<1>4. CASE BlockStart(d) \/ BlockEnd(d)
  <2>1. /\ apc[d] \in {"idle", "scan"} /\ apc'[d] \in {"idle", "scan"}
        /\ reg_lock' = IF apc'[d] = "idle" THEN NULL ELSE Audio(d)
        /\ UNCHANGED <<eng_mutex, player_lock>>
    BY <1>1, <1>4 DEF BlockStart, BlockEnd, Advance
  <2>2. GameLocksInv'
    BY <1>2, <2>1 DEF GameLocksInv
  <2>3. AudioLocksInv'
    BY <1>3, <2>1, ThreadsDistinct DEF AudioLocksInv
  <2> QED
    BY <2>2, <2>3
<1>5. CASE ScanSkip(d) \/ ScanMix(d) \/ CallEngine(d) \/ MixPlain(d)
  <2>1. /\ apc[d] \in {"scan", "mix"} /\ apc'[d] \in {"scan", "mix", "callback"}
        /\ UNCHANGED <<reg_lock, eng_mutex, player_lock>>
    BY <1>1, <1>5 DEF ScanSkip, ScanMix, CallEngine, MixPlain, Advance
  <2>2. GameLocksInv'
    BY <1>2, <2>1 DEF GameLocksInv
  <2>3. AudioLocksInv'
    BY <1>3, <2>1 DEF AudioLocksInv
  <2> QED
    BY <2>2, <2>3
<1>6. CASE CallbackLocks(d) \/ CallbackReturns(d)
  <2>1. /\ apc[d] \in {"callback", "inCallback"}
        /\ apc'[d] \in {"inCallback", "mixed"}
        /\ eng_mutex' = IF apc'[d] = "inCallback" THEN Audio(d) ELSE NULL
        /\ UNCHANGED <<reg_lock, player_lock>>
    BY <1>1, <1>6 DEF CallbackLocks, CallbackReturns, Advance
  <2>2. GameLocksInv'
    BY <1>2, <2>1, ThreadsDistinct DEF GameLocksInv
  <2>3. AudioLocksInv'
    BY <1>3, <2>1, ThreadsDistinct DEF AudioLocksInv
  <2> QED
    BY <2>2, <2>3
<1>7. CASE PopLocks(d)
  <2>1. /\ apc[d] \in {"mix", "mixed"} /\ apc'[d] = "pop"
        /\ player_lock' = [player_lock EXCEPT ![Mixed(d)] = Audio(d)]
        /\ Mixed(d)' = Mixed(d)
        /\ UNCHANGED <<reg_lock, eng_mutex>>
    BY <1>1, <1>2, <1>7 DEF PopLocks, Mixed
  <2>2. GameLocksInv'
    BY <1>1, <1>2, <2>1, ThreadsDistinct DEF GameLocksInv
  <2>3. AudioLocksInv'
    BY <1>1, <1>3, <2>1, ThreadsDistinct DEF AudioLocksInv
  <2> QED
    BY <2>2, <2>3
<1>8. CASE PopUnlocks(d)
  <2>1. /\ apc[d] = "pop" /\ apc'[d] = "scan"
        /\ player_lock' = [player_lock EXCEPT ![Mixed(d)] = NULL]
        /\ UNCHANGED <<reg_lock, eng_mutex>>
    BY <1>1, <1>8 DEF PopUnlocks, Advance
  <2>2. GameLocksInv'
    BY <1>1, <1>2, <2>1, ThreadsDistinct DEF GameLocksInv
  <2>3. AudioLocksInv'
    BY <1>1, <1>3, <2>1, ThreadsDistinct DEF AudioLocksInv
  <2> QED
    BY <2>2, <2>3
<1> QED
  BY <1>4, <1>5, <1>6, <1>7, <1>8 DEF AudioStep

(***************************************************************************)
(* While the engine makes no call but Enqueue under its own mutex, which   *)
(* is what the comment above mix_player says it does, no thread asks for a *)
(* lock below or beside one it holds: g_reg_lock, then the engine's mutex, *)
(* then p->lock.  mix_player calls the engine with p->lock dropped, so the *)
(* deadlock the comment describes cannot happen.                           *)
(***************************************************************************)
THEOREM LocksAreOrdered ==
  HeldCalls \subseteq {"enqueue"} /\ Spec => []LocksInOrder
<1> DEFINE ordered == HeldCalls \subseteq {"enqueue"}
<1>1. IInv /\ LocksInv /\ (Shutdown \/ UNCHANGED vars) => LocksInv'
  BY DEF LocksInv, GameLocksInv, AudioLocksInv, Mixed, Shutdown, objects, table,
     locks, game, audio, device, vars
<1>2. ordered /\ IInv /\ LocksInv /\ [Next]_vars => LocksInv'
  BY <1>1, GameKeepsLocks, AudioKeepsLocks DEF Next
<1>3. IInv /\ LocksInv => LocksInOrder
  <2> SUFFICES ASSUME IInv, LocksInv, NEW t \in Threads,
                      NEW h \in Levels, NEW w \in Levels, Holds(t, h), Awaits(t, w)
               PROVE  h < w
    BY DEF LocksInOrder
  <2>1. CASE t \in GameThreads
    <3>1. reg_lock # t /\ \A d \in Devices : t # Audio(d)
      BY <2>1, ThreadsDistinct DEF IInv, TypeOK, AudioThreads
    <3>2. h = 2 /\ epc[t] = "idle" /\ eng_mutex = t
      BY <2>1, <3>1 DEF Holds, Awaits, LocksInv, GameLocksInv
    <3> QED
      BY <3>1, <3>2 DEF Awaits
  <2>2. ASSUME NEW d \in Devices, t = Audio(d)
        PROVE  h < w
    <3>1. t \notin GameThreads /\ \A e \in Devices : t = Audio(e) => e = d
      BY <2>2, ThreadsDistinct
    <3>2. \/ w = 1 /\ apc[d] = "idle"
          \/ w = 2 /\ apc[d] = "callback"
          \/ w = 3 /\ apc[d] \in {"mix", "mixed", "inCallback"}
      BY <2>2, <3>1 DEF Awaits
    <3>3. \/ h = 1 /\ apc[d] # "idle"
          \/ h = 2 /\ apc[d] = "inCallback"
          \/ h = 3 /\ apc[d] = "pop"
      BY <2>2 DEF Holds, LocksInv, AudioLocksInv
    <3> QED
      BY <3>2, <3>3
  <2> QED
    BY <2>1, <2>2 DEF Threads, AudioThreads
<1>4. ordered => []ordered
  <2>1. ordered => ordered'
    OBVIOUS
  <2> QED
    BY <2>1, PTL
<1> QED
  BY LocksInit, Invariance, <1>2, <1>3, <1>4, PTL DEF Spec

(***************************************************************************)
(* Under the same condition the threads that hold g_reg_lock, the engine's *)
(* mutex and locks of players are never all blocked on one another: the    *)
(* one with the highest lock can go on.                                    *)
(***************************************************************************)
THEOREM NoDeadlock ==
  HeldCalls \subseteq {"enqueue"} /\ Spec => []SomeHolderRuns
<1>1. LocksInOrder => SomeHolderRuns
  <2> SUFFICES ASSUME LocksInOrder, NEW t \in Threads, NEW h \in Levels, Holds(t, h)
               PROVE  \E u \in Threads :
                        /\ \E l \in Levels : Holds(u, l)
                        /\ \A w \in Levels :
                             Awaits(u, w) => \A v \in Threads : ~Holds(v, w)
    BY DEF SomeHolderRuns
  <2>1. ASSUME NEW u \in Threads, NEW l \in Levels, Holds(u, l),
               \A m \in Levels : l < m => \A v \in Threads : ~Holds(v, m)
        PROVE  \A w \in Levels : Awaits(u, w) => \A v \in Threads : ~Holds(v, w)
    BY <2>1 DEF LocksInOrder
  <2>2. PICK l \in Levels : /\ \E u \in Threads : Holds(u, l)
                            /\ \A m \in Levels : l < m =>
                                 \A v \in Threads : ~Holds(v, m)
    <3> DEFINE Taken(l) == \E u \in Threads : Holds(u, l)
    <3>1. Taken(1) \/ Taken(2) \/ Taken(3)
      BY DEF Levels
    <3> HIDE DEF Taken
    <3>2. \E l \in Levels : Taken(l) /\ \A m \in Levels : l < m => ~Taken(m)
      BY <3>1 DEF Levels
    <3> QED
      BY <3>2 DEF Taken
  <2> QED
    BY <2>1, <2>2
<1> QED
  BY LocksAreOrdered, <1>1, PTL

=============================================================================
