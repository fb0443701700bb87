# A TLA+ model of the Adventures of Mana wrapper (aom_nx)

aom_nx runs the Android build of *Adventures of Mana* on the Switch: it loads
the game's two ARM64 libraries, gives them the Android interfaces they import
(bionic, JNI, OpenSL ES, AAsset), and drives them frame by frame. This directory
holds specifications of the parts of the wrapper that keep state across calls,
threads or restarts, TLC runs over small instances of them, and theorems proved
with TLAPS. Paths and line numbers below are in `src/source/`.

## 1. The system

### 1.1 Components

| component | code | state it keeps | operations | what makes it correct |
|---|---|---|---|---|
| player and mixer | `opensles.c` 183-455 | ring `q`, `cur`, `cur_pos`, `frac`, fade, lock | Enqueue, Clear, GetState, SetPlayState, `mix_player` | FIFO, each buffer completed once, no read outside a live buffer, nothing survives Clear |
| registry and device | `opensles.c` 219-237, 311-362, 527-581, 652-657 | `g_players`, `g_player_count`, `g_dev`, `g_reg_lock` | create, destroy, `audio_callback`, shutdown | no freed player is mixed, slots are reused, no deadlock with the engine |
| JNI references | `jni_fake.c` 53-101, 360-394 | `locals`, `frames`, object memory | New..., DeleteLocalRef, Push/PopLocalFrame, NewGlobalRef, DeleteGlobalRef | no double free, no dangling entry, a pop frees exactly its frame |
| JNI upcalls | `jni_fake.c` 103-352, 395-580 | `id_pool`, `g_kbd_result` | GetMethodID, the Call... functions, the text dialog | a call reaches the method its identifier was asked for; the text is the last dialog's |
| sensor array | `jni_fake.c` 582-658 | last keys, last touch, stroke start | `jni_build_sensor_array` | edges add up to what is held; a release is reported where the finger was |
| frame loop | `main.c` 91-104, 228-273, 359-387 | `s_input`, `screen_width`, boost | `update_keys`, `update_touch`, the loop, the quit sequence | every quit ends in an exit; key chords cannot be made by accident |
| startup | `main.c` 37-70, 275-358 | heap split, modules, stage | the calls of `main` in order | memory slices disjoint, each step finds what the one before left, every start ends |
| configuration | `config.c` | `config`, config.txt | `read_config`, `write_config` | the player's settings survive rewrites |
| save location | `save_path.c` | files | `save_redirect_path`, `migrate_legacy_saves` | a save is never lost, torn or overwritten |
| assets | `libc_shim.c` 390-534 | `Asset` and directory handles | AAssetManager, AAsset, AAssetDir calls | both backings behave as one file; nothing leaks |
| path calls | `libc_shim.c` 139-330 | files beside the NRO | open, fopen, remove, rename, mkdir, system, stat, realpath, opendir | the private folder is one folder under two names |
| rwlock shim | `libc_shim.c` 536-570 | words in engine memory, libnx locks | rdlock, wrlock, unlock | a writer is alone |
| pthread shims | `imports.c` 66-189 | words in engine memory, newlib objects | init, lock, unlock, wait, signal, broadcast, once | exclusion, no lost wake-up although objects are made on first use |
| import table | `imports.c` 202-567 | none | `aom_resolve_imports` | shims before libraries |
| ELF loader | `so_util.c` | `so_module`, module list | load, relocate, resolve, finalize, init, free | code runs linked, with right permissions, from memory that is there |
| SaltyNX telemetry | `saltynx.cpp`, `saltynx_egl.c`, `saltynx_exit.c` | shared page, block, publisher thread, counters, sessions | start, attach, publish, frame, stop | no write after unmap, the service session returned, exit always completes |
| drawing | `gfx.c` | framebuffer, a font face | splash, text | - |
| utilities | `util.c`, `error.c` | TLS guard block | log, clock boost, `fatal_error` | - |

### 1.2 How they interact

* `main` migrates the saves, reads (and perhaps rewrites) config.txt, checks the
  system, loads and starts the engine, then drives it: one thread samples input,
  pushes the sensor array, and calls the engine's update and render.
* The **engine** is a library that is not in this repository. It calls back into
  the OpenSL, JNI, pthread, libc and AAsset shims from threads of its own, and
  holds mutexes of its own while it does. What it may do is a parameter of the
  models (section 5).
* The **SDL audio thread** runs `audio_callback` under `g_reg_lock`, enters
  `mix_player` for each player, and calls the engine's completion callback with
  `g_reg_lock` held and the player's lock not held.
* The **SaltyNX publisher** thread shares a page with another process and
  atomic counters with the render thread.
* What outlives the process is the card: the saves in their old and new places,
  config.txt, and the engine's own files. The migration and `write_config` run
  at a start that may follow a power loss in any of their steps.

### 1.3 What is hard

Three kinds of thread on one player; a mutex of someone else's inside our
callback; objects allocated on first use without a lock; marks into a table
that is compacted by moving its last entry; a handle with two ways of working
that must look like one; a page another process may clear; file operations that
fail one by one and power that is lost between them; an order of loading steps
each of which destroys what an earlier one needed. The list with source lines is
`hazards` in `PROJECT.json`, each with the properties that would notice it going
wrong, or the reason why none does.

## 2. Modules

| module | models | composed with |
|---|---|---|
| `BufferQueue` | what OpenSL promises of a buffer queue: bounded FIFO, one completion per buffer, Clear drops everything | abstract specification of `AudioMixer` |
| `AudioMixer` | one player: `mix_player` step by step against the calls | refines `BufferQueue` |
| `AudioRegistry` | all players: create, destroy, devices, the scan of `audio_callback`, the locks of `mix_player` | - |
| `JniFrames` | what JNI promises of local references: a stack of sets | abstract specification of `JniRefs` |
| `JniRefs` | the table, the marks, the object heap | refines `JniFrames` |
| `JniUpcalls` | identifiers, dispatch by name, the text dialog, strings made by calls | extends `JniRefs` |
| `PthreadShim` | mutex and condition variable shims under producers and consumers | - |
| `RwlockShim` | the rwlock shim on the way to that queue | extends `PthreadShim` |
| `AssetFile` | what the engine is promised of an asset: a position in one file | abstract specification of `AAsset` |
| `AAsset` | handles cached in memory or read from the card, directory handles | refines `AssetFile` |
| `GameFolder` | what the engine may believe of its private files: one folder | abstract specification of `EngineFiles` |
| `EngineFiles` | every call that takes a path, over the card the assets are read from | extends `AAsset`, refines `GameFolder` |
| `SaveStore` | what the player is promised of old saves | abstract specification of `SaveMigration` |
| `SaveMigration` | `migrate_legacy_saves` with failures and power loss | refines `SaveStore` |
| `Startup` | a start of the program: migration, config.txt, checks, the running game | extends `SaveMigration` |
| `SaltyNX` | attach, publisher, frame counters, exit | - |
| `MainLoop` | the frame loop with the sensor array | main.c and jni_fake.c together |
| `SoLoader` | loading and linking two libraries | so_util.c, imports.c and main.c together |
| `MC_*` | instances for TLC | extend the module of that name (`MC_JniOuterRefs` extends `JniRefs`) |
| `AudioMixer_proofs`, `AudioRegistry_proofs`, `JniRefs_proofs`, `PthreadShim_proofs`, `AAsset_proofs`, `SaveMigration_proofs`, `SaltyNX_proofs` | theorems; those of `JniUpcalls`, `RwlockShim`, `EngineFiles` and `Startup` are with the module they extend | extend the module of that name, or the one that extends it, and TLAPS |
| `Main_proofs` | theorems about the two halves of main.c: loading the game, then running it | extends `SoLoader`, `MainLoop` and TLAPS |

Where a module extends another, its next-state relation says which variables of
the other a step leaves alone, and a theorem says that nothing the extended
module does disturbs the other (`TableUndisturbed`, `QueueUndisturbed`,
`AssetsUndisturbed`, `MigrationUndisturbed`); properties of the smaller module
carry over by it, and the runs check the larger one.

Definitions keep the names of the code (`q_head`, `cur`, `locals_top`,
`key_last`); the correspondence of each definition to its lines is `map` in
`PROJECT.json`. Operators whose comment begins with "Bug:" are not part of a
specification: each is a plausible mistake in the definition below it, and a
property of the run is violated when it takes that definition's place.

### 2.1 How state and steps correspond

* **AudioMixer.** A critical section under `p->lock` is one step, because
  nothing another thread can see happens inside it. Clear is two steps, since
  `mix_player` reads `cur` without the lock and can see the half-done Clear.
  `mix_player` (243-309) is cut at every access to shared state: the check of
  `cur` (`CheckMore`, `NothingCurrent`, `FinishBuffer`), the callback (`pc =
  "callback"`, during which the audio thread may make calls), the pop, the store
  to `cur` (`Load`), one step per output frame. Buffers are numbered in the
  order they are accepted, and have any size in bytes, none and less than a
  source frame (`FB` bytes) included, as `bq_Enqueue` takes them; a sample has
  one amplitude, so that `out` shows the fade alone. Gain, panning and
  interpolation are left out.
* **AudioRegistry.** `ensure_device` is two steps (test, open), so that two
  threads can both find no device. `g_reg_lock` is taken to be one mutex that is
  there. The audio thread's position in `mix_player` is reduced to its lock
  operations: the callback, the engine's mutex inside it, the pop. The engine's
  mutex is external; the comment at `opensles.c` 237-242 is the source for it.
* **JniRefs.** Each function runs under `locals_lock` and is one step.
  Addresses are reused after a free, as `malloc` does. `mem` becomes "corrupt"
  when something is freed that is not allocated.
* **JniUpcalls.** A method is `<<name, signature>>`. An entry of the pool has
  room for 63 and 95 bytes; of a longer name or signature `CUT` is stored, which
  equals no whole one, so that every lookup of it takes another entry. With the
  pool full `get_id` answers its first entry. `cached` is the engine's memory of
  the identifiers it was given. The dialog runs to its end inside the call and
  keeps its text in `g_kbd_result`; `entered` observes what the player answered.
* **PthreadShim.** The test of the word, the allocation with the store, the
  re-reading of the word for the newlib call and the newlib call itself are
  separate steps, and an allocation may fail (`CreateFails`): a lock that failed
  is answered with an error, which the engine's thread heeds; a wait returns at
  once, with the mutex held, and a signal is not sent. newlib's objects are
  modelled as external: recursive and plain mutexes, and condition variables
  without spurious wake-ups.
* **RwlockShim.** `get_rwlock` is cut the same way: test (`GetRwlock`), store
  (`CreateRwlock`), re-read (`ReadRwlock`), then the libnx lock. The unlock asks
  libnx whether this thread is the writer of the lock the word names *now*. The
  code does not look whether its `calloc` failed (538); the model's does not.
* **AAsset.** A file is `<<place, name>>`, a byte is its offset in its file, and
  `answer` observes what a call returned, so that a read answers "these bytes of
  that file". `f` and `at` are the stream and where it stands, `mem` and `pos`
  the copy in memory and the position in it; `streams` and `blocks` count what
  has been taken and not given back. Each call is one step, since handles share
  nothing. A seek past the end is refused in memory; on the card it moves the
  stream there (by `Beyond` at most, a bound) or is refused, and `AssetFile`
  promises no more than that of a handle whose reads go to the card.
* **EngineFiles.** A path is `<<place, name>>`: "files" is the Android private
  folder, "game" the NRO's folder, "files2" a folder whose name only begins like
  the private one. `Redirect` is `save_redirect_path`, applied by each call as
  the code does; `Try` gives each call a way to fail. The shell command is the
  only one the engine uses, `mkdir` with a path, which makes the parents too and
  answers 0 whatever came of it.
* **SaveMigration.** One step per file operation. Contents are the name of the
  save they came from, `GAME` or `PARTIAL`. `crossDevice` makes every rename
  between the places fail, so that the copying path is taken. `clean` records
  whether an operation has failed since this start.
* **Startup.** config.txt is a value per key (of its last line) and a flag for a
  retired key. `write_config` is two steps, the `fopen` that empties the file
  and the `fclose` that writes it, and a failure or power loss between them
  leaves one of `Torn`: some lines whole, one cut, a number cut short read as
  `atoi` reads it. `StartAgain` is a new process, perhaps after the player's
  edit of the file; `PowerLoss` is the crash of the migration and of the write.
* **SaltyNX.** attach is cut at its requests, the publisher at its tests and
  writes, stop at its signal and join. A frame is two steps, the exchange of
  the stamp and the recording of the sample. One call of `publish` writes the
  fields of the block in one step and reads the counters with it. Offsets are
  words.
* **MainLoop.** One step per call of the loop. One touch coordinate stands for
  both. The engine is reduced to the state a client of the sensor array keeps:
  keys down by the edges, finger position by the touch fields.
* **SoLoader.** `Order` is the order of the calls in `main` and
  `aom_resolve_imports`; each call is an action with its failure. A relocated
  place holds a symbolic address. `so_finalize` is cut into its system calls.
  `so_base` (the temporary image with the headers) and `mapped` (the image has
  moved from `load_base` to code memory) say what memory is there;
  `FindsMemory` is what each call needs of them.
  `IsLibrary` says what is taken of a file: segments of at least a word, known
  kinds of relocation and one other, and a RELR table that packs some set of
  words as the linker does (`IsPacked`).

## 3. Runs

### 3.1 Passing runs

| run | module | what it shows | bounds |
|---|---|---|---|
| `mixer` | `MC_AudioMixer` | reads start in the buffer and end there when it is whole frames, nothing read after Clear, the count of GetState, the refinement of `BufferQueue`, every buffer ends | one engine thread, ring of 3, blocks of 3 frames, fade of 2, 4 buffers of 0, 3 or 4 bytes in frames of 2, step 3/2 |
| `registry` | `MC_AudioRegistry` | no freed player mixed, one slot per player, silence only when full, blocks end | 2 game threads of which one creates, 3 players, 2 slots |
| `jni` | `MC_JniUpcalls` | table sound, calls reach their method and the dialog's text is the last answer while the methods fit, and beyond that only latecomers are missed, the refinement of `JniFrames` | 4 addresses, table of 3, 2 marks and nesting of 3, a pool of 2 identifiers and 3 methods of which one does not fit an entry |
| `pthread` | `MC_RwlockShim` | the mutex excludes, a writer is alone, no item left waiting | 1 producer, 2 consumers, 2 items, both initializers |
| `saves` | `MC_Startup` | whole saves only, clean starts migrate everything, the settings stay the player's unless config.txt is harmed and then no worse than one cut write, the refinement of `SaveStore`, every start ends | 2 names, one save in two directories, one directory with foreign files, one power loss, config.txt missing or an old one with a retired key |
| `files` | `MC_EngineFiles` | a handle has one backing, nothing leaks, the refinements of `AssetFile` and `GameFolder` | one handle; an asset of 1 byte that may be cached, an absolute name of 2 bytes that is too large; a directory with a file; the private folder and a neighbour |
| `saltynx` | `MC_SaltyNX` | block in the page, session restored, inactive after exit, telemetry follows, exit completes | page of 6 words, block 2, allocation 3, one sample, 2 frames |
| `frames` | `MC_MainLoop` | positions on the screen, the engine's keys are those the buttons mean and its stroke is the finger's, map chord, quit | buttons X, L, R, Plus, a panel of 2 positions, 2 fingers of which 1 is passed on |
| `loader` | `MC_SoLoader` | each call finds the memory it reads, both libraries linked, permitted and flushed before constructors, images apart, RELR adds once, loading ends | 4 segment layouts, all definitions and exports of 2 symbols, every RELR set in 4 words, 4 heaps |

Why the bounds are enough:

* mixer: a ring of 3 fills with two buffers and wraps within four; sizes of no
  byte, of one frame and a half and of two frames, with a step of 3/2, give
  buffers that are empty, ragged, and that end inside a step and exactly on one;
  a block of 3 frames is longer than the fade of 2, so that a fade both
  completes and is cut by the block's end.
* registry: three players for two slots make creation fail to find one, and
  make a slot be reused. A second creating thread can open a second device; the
  run has one, the theorems of section 4 have any number.
* jni: with three entries the table is full with four addresses, a frame
  boundary can be at any entry, and a third frame nests beyond the two that
  leave a mark. With two identifiers for three methods the pool is exceeded, and
  the method that does not fit takes an entry each time it is asked for.
* pthread: either kind of thread can be the first on each of the three words,
  and both consumers can be asleep when the producer signals. One reader and one
  writer, two readers, and two writers meet on the table. Each object can fail
  to be made any number of times.
* saves: one name is in two directories and can also be in the game folder; a
  directory can be absent, empty, occupied by others, or hold a directory. One
  power loss can strike at every step, the writing of config.txt included; the
  start after it, and any number of later starts, run with every failure still
  possible. The old config.txt has a key with a value, one with an ordinary
  value and one without a line.
* files: handles share nothing but the card, so one is enough; an asset of 1
  byte is below, one of 2 above `CACHE_MAX = 1`, and an empty file is neither. A
  seek reaches one byte past the end. One file is in all of the asset tree, the
  private folder and its neighbour, so that a wrong place shows; the directory
  makes a path have a parent that may be missing.
* saltynx: the page has room for one allocation in several places and for an
  old block; RETRY = 2 has both a round that attaches and one that does not.
  `TelemetryFollows` has two premises: that the block ends attached, or that
  from some time on the module and the kernel grant what attach asks for and
  leave the block alone (`Served`), after any number of refusals and clearings;
  under the second the publisher must find its way back by itself.
* frames: these four buttons are the ones that share native bits or suppress
  each other; each other button has a bit of its own. `HeldIsPad` compares the
  engine's keys with `MeantBy`, the mapping read from the keys' side; the theorem
  covers the other buttons.
* loader: layouts with a gap, code in the middle, unaligned code, code pages
  that are not adjacent; the heaps take both branches of the split and are too
  small for some pairs.

`CHECK_DEADLOCK FALSE` is set where the system may come to rest: all players
destroyed and the device closed, the last item consumed, the process exited,
loading finished or failed.

### 3.2 Runs that find a violation

Each states what a comment says and shows the code doing otherwise (`findings`
in `PROJECT.json`):

* `clear_race`: `opensles.c` 238 says `cur` is touched by the audio thread only;
  `bq_Clear` stores to it from the thread that calls it.
* `underrun`: `opensles.c` 272 says an underrun fades out "instead of cutting";
  the fade ends with the block it began in, so an underrun found in a block's
  last frames is cut.
* `jni_outer`: `jni_fake.c` 53 says the frames are honoured "so transient
  strings/arrays don't leak"; deleting a reference of an outer frame moves an
  inner one below the inner mark, where the pop does not free it.

In `clear_race` and `jni_outer` the engine must behave in a way that cannot be
confirmed from this repository; the constants of section 5 say which.

### 3.3 Fairness

Weak fairness is on the code's own next step: the audio thread is called
periodically by SDL, main and the publisher are scheduled, a thread inside a
call goes on, file operations return. Strong fairness is used where a thread
waits for a lock that others keep taking and releasing (`AudioRegistry`,
`PthreadShim`, `RwlockShim`): the Switch's mutexes queue their waiters. There is
none on what the engine, the player, the module or the system may choose: to
call, to play, to press a button, to clear a block, to edit config.txt, to exit.

* `PthreadShim` and `RwlockShim` assume that consumers keep asking for items;
  `CallbackReturns` in `AudioMixer` that the engine's callback returns.
* `FairStartup` makes the start's next step weakly fair. `read_config` loops
  until `feof` (`config.c` 60-78), so this also says that an error of `fgets`
  does not last for ever.
* `SoLoader.LoaderFairSpec` is fair to the next step that does not fail, and to
  the failures the files themselves cause (an image that does not fit, an
  unknown relocation); nothing says that a call that can succeed ever fails.

## 4. Proofs

All proofs are for every value of the constants that satisfies the `ASSUME`s of
the modules, and are checked by tlapm down to the last leaf.

* **`AudioMixer_proofs`**: `TypeCorrect`, `ReadsAreInBounds`,
  `ClearedStaysCleared`, `QueueImplemented`, `CountsOutstanding`,
  `CompletedInOrder`, each under `~ClearWhileMixing`. `ReadsInBounds` is not
  inductive: the frame that reads follows a check or a load several steps
  before. It is about bytes: `FrameFits` says that a position and a size that
  are both whole frames leave room for one more whenever one is below the other,
  and positions are always whole frames. Of other sizes it says what the code
  does: the read starts inside, or at the start of an empty buffer.
  The invariant `IInv` adds `RingInv` (every slot between head and tail
  holds a buffer the engine handed over, not discarded, with one of the sizes),
  `CurInv` (the same of `cur` and of the popped buffer, and `cur` is NULL from
  the completion to the load), `ClearInv` (while someone is half way through a
  Clear, `cur` is NULL, the ring is empty and `mix_player` is where it cannot
  notice) and `LoopInv` (the loop counters stay below the block's length).
  `ClearedNeverRead` follows from the first two. For the refinement the ring is
  read as the sequence from head to tail: `RingShape` to `WaitingShrinks` say
  what appending at the tail and popping at the head do to that sequence in
  spite of the wrap, and each action then maps to one of the queue's or to none.
  `CountInv` counts the ring and `cur` between the pop and the store to `cur`
  too; `OrderInv`, on the abstract queue alone, is that numbers ascend from the
  completed through `cur` to the waiting. The hypothesis `~ClearWhileMixing` is
  needed: `clear_race` is the counterexample without it.
* **`AudioRegistry_proofs`**: `Invariance`, `TypeCorrect`, `MixedStaysAlive`,
  `SlotsAreSound`, `SilentWhenFull`. `MixedIsAlive` speaks of the audio thread
  and of memory only; why it holds involves everybody: a thread between the
  allocation of a player and its registration, or between taking it from the
  game and freeing it, is alone in knowing it (`GameInv`); a registered player
  is alive (`TableInv`); an audio thread inside a block holds `g_reg_lock`, so
  that the entry it looks at stays (`AudioInv`). `SlotsAreSound` adds that no
  player is in two slots (`SlotInv`), and where the ones without a slot and the
  ones not registered yet are (`SilentInv`, `NewInv`). `SilentWhenFull` is the
  action property that a player goes without a slot only when all hold living
  players. None limits the number of creating threads or of devices, or what the
  engine does under its mutex: two threads that both open a device do not
  endanger them, as long as `g_reg_lock` is one mutex (section 6).
  `LocksAreOrdered` and `NoDeadlock` are the safe half of `BlocksEnd`, under
  `HeldCalls \subseteq {"enqueue"}`: the locks are taken in the order
  `g_reg_lock`, the engine's mutex, `p->lock`, and some thread that holds a lock
  is always free to go on. `LocksInv` says where a thread is when it holds one;
  it needs that the callback runs with `p->lock` dropped. TLC found both its
  halves to hold with two creating threads and two devices, and `LocksInOrder`
  violated when the engine destroys players under its mutex.
* **`JniRefs_proofs`**: `TypeCorrect`, `TableIsSound`, `FramesImplemented`, each
  under `~OuterRefs`; `MethodsReached` and `TableUndisturbed` about
  `JniUpcalls`. `MarksInv` (the marks ascend up to the table's top) and
  `HeapInv` (entries and global references own distinct allocated objects)
  together are inductive. `Removal` is the lemma on filling a hole with the last
  entry: it keeps the marks in order because the hole lies above the innermost
  mark, which is where `~OuterRefs` is needed; `FreeLive` says that a pop frees
  each object once. For the refinement the entries between two marks are a
  frame's set; a frame beyond `MAX_FRAMES` shares the set of the one around it.
  `MethodsReached` is by `PoolInv`: an identifier handed out for a method that
  fits is an entry holding it, entries never change, and no two entries hold one
  method that fits, so that the pool is full only when the engine asked for more
  than fit. `EntriesKept` is the half beyond that: a method with an entry keeps
  it, so that whoever is missed found the pool full.
* **`PthreadShim_proofs`**: `Exclusion`, `Backed`, `WritersAlone`, each under
  `~SharedFirstUse`, `NoWakeupLost`, and `QueueUndisturbed`. `FirstUseInv` says
  that before the object exists one thread at most is on the mutex, `SleepInv`
  that a sleeper is on one condition variable and comes back to the mutex it
  left, `HoldInv` who holds the mutex and how often, nested locking and failed
  allocations included; `TableInv` the same of the rwlock: once stored, the word
  does not change, and every thread on the table holds the lock it names. The
  race to allocate the condition variable is in: it does no harm to exclusion.
  Without the hypothesis two threads can each allocate an object (`imports.c`
  98) and `BackedByTheSlot` fails. `NoWakeupLost` is the safe half of
  `ItemsConsumed`: while a consumer sleeps, the threads on their way (consumers
  woken or inside, producers about to signal) are at least as many as the
  waiting items (`WakeupsSuffice`). It is an argument by counting, for any
  finite sets of threads: a signal wakes a sleeper or there is none, and a
  consumer goes to sleep only when no item waits. It needs `~SignalAfterUnlock`
  too: with the signals inside the mutex one thread alone makes the condition
  variable (`CondInv`); after the unlock a waiter can sleep on an object that
  the other's overwrote, and TLC finds `WakeupsSuffice` violated.
* **`AAsset_proofs`**: `HandlesAreSound`, `NoLeak`; `AssetsAreFiles`, that
  `AAsset` implements `AssetFile`; `OneFolder`, that `EngineFiles` implements
  `GameFolder`; `AssetsUndisturbed`. The first is the invariant the others rest
  on: it decides which of the two positions of a handle is the file's.
  `AtInFile` adds that a stream stands inside its file or at most `Beyond`
  behind it, which is what a read from it and `SEEK_CUR` need. `NoLeak` is about
  cardinalities: opening and closing change the set of handles with each backing
  by one.
* **`SaveMigration_proofs`**: `Invariance`, `TypeCorrect`, `WholeSaves`,
  `Refinement`, `MigratesAll`. `OnlyWholeSaves` needs `PositionInv`, which says
  what `move_save` knows at each point: inside it the source is still in its
  legacy directory and no longer among readdir's remaining names, at "publish"
  the temporary has been verified to be the source, at "remove" the source has
  been delivered. With it each step of the migration is shown to be a step of
  `SaveStore` or to leave its three variables unchanged, power losses and
  failures included. `MigratesAll` needs `CleanInv`: as long as nothing failed,
  the directories already visited hold only saves whose name the game folder has
  (`Visited`), the one being visited only these and the names readdir has still
  to give (`Visiting`), and a visited directory is there only if something is in
  it. In the same module, about `Startup`: `MigrationUndisturbed`, and by it
  `StartupWholeSaves`, `StartupMigratesAll` and `StartupKeepsSaves` for the
  whole start; `KeepsSettings`. `SettingsInv` relates the file, the settings in
  memory and the player's wish at each stage: until the file is emptied it says
  what the player wants, from the reading to the rewrite the memory does, and
  `harmed` covers the rest. `DamageInv` is why damage does not grow: only the
  player's settings or the defaults are ever written, because a file that a
  write left, cut or not, is read and not written again.
* **`SaltyNX_proofs`**: `WritesInPage`, `ServicesBack`, `NothingLeftActive`,
  for every size of page, block and allocation with block <= allocation <= page.
  None of the three is inductive. `ThreadsInv` says which thread runs attach and
  that a publisher which no longer runs has ended, with the page unmapped.
  `SessionsInv` says that the port's session is closed whenever sm's is opened
  again, which with `RoomForSm` is why the unchecked `smInitialize` succeeds.
  `ActiveInv` is the argument about the block: at most the publisher's own block
  is both recognisable and active, and none is while it looks for another.
  `FirstIsMember` (the scan of the page ends at a block that is there) is the
  least-number principle, derived from the library's theorem that strict
  inclusion of finite sets is well founded.
* **`Main_proofs`**, loading: `LibrariesAreReady`, `ImagesDoNotOverlap`,
  `RelrIsExact`, `LimitsDoNotWrap`, `LoadingAdvances`, for any two files that
  are libraries, any page size, reserve and heap. `LoaderInv` says after each
  call of main what it leaves behind: `Accounts` (which headers are still
  allocated, which images are mapped, whose caches are flushed and whether the
  guard is set, so that `FindsMemory` holds of the next call), `Loaded` (where
  the image is, and that it was within the limit it was given), `Placed` (a
  relocated place holds what needs no other module, a resolved one what `Linked`
  prescribes), `Protected` (which pages the loop of so_finalize has passed, and
  their permission). The order of the calls enters through `CallsBefore` only.
  Three arguments are about data of any size. `FiniteMinMax` (a finite set of
  numbers has a least and a greatest member) is the least-number principle that
  stands in for induction; with it the size of an image is a number, a run of
  pages has an end (`RunIs`), and the recursive function `Where` has the value
  the linker meant at every bitmap (`WhereBitmapsAre`: look at the first bitmap
  where it has not). `OneEntryPerWord` then gives that no word is relocated
  twice. `CodePages` is the arithmetic of is_x_page: the pages it marks are
  those with a word of code. `LimitsDoNotWrap` is why the subtractions of
  unsigned sizes in main are safe; it needs that a heap is at least two pages
  and the reserve at least one. `LoadingAdvances` is the safe half of
  `LoadingEnds`: every step advances a count that is bounded.
* **`Main_proofs`**, the loop: `KeysHeld`, `MapByPlayerOnly`,
  `StrokesAreReported`, `TypeCorrect`. `KeysInv` carries the keys from the
  sample through the array to the engine, for any subset of the sixteen buttons
  (the run has four); `KeysMeant` and `MapChord` are the lemmas on the mapping
  itself. `StrokeInv` says at each point of a frame which of the builder's
  statics, the array and the engine's finger already know of the sample.
  `TypeCorrect` is mainly `ScaleOnScreen`: the scaled position is below the
  screen's width, for every width and panel.

The typing of `PthreadShim` in its proof leaves out the bound `MaxItems`, which
is the model's and not the code's.

What is only model-checked: all liveness properties (`EveryBufferEnds`,
`BlocksEnd`, `ItemsConsumed`, `StartEnds`, `TelemetryFollows`, `ExitCompletes`,
`QuitEnds`, `LoadingEnds` rest on fairness, which is out of the prover's reach).
Every other property a run checks is also a theorem.

## 5. Assumptions about what is not in the repository

* `ClearWhileMixing = FALSE`: engine threads do not call Clear while that
  player is inside `mix_player`. `clear_race` drops it.
* `HeldCalls = {"enqueue"}`: the engine holds its mixer mutex around Enqueue,
  as the comment at `opensles.c` 237-242 says, and around no Create or Destroy.
  With either in the set, `BlocksEnd` does not hold.
* `OuterRefs = FALSE`: the engine deletes, promotes and returns references of
  its innermost frame only. `jni_outer` drops it.
* Every call reaches its method (`CallsReach`, first half) for an engine whose
  methods fit: no more of them than entries, none with a name or signature that
  an entry cuts. How many it looks up cannot be seen here; the code has 256
  entries. The second half has no such condition.
* Buffers: `ReadsInBounds` promises a read that ends inside only for buffers of
  whole source frames. `bq_Enqueue` takes any size: of a buffer of no bytes
  `mix_player` reads the first frame, and of a ragged one the last frame runs
  over the end (`opensles.c` 282-290). A buffer's data is never NULL; bq_Enqueue
  does not look, and `cur` would then mean that there is none.
* `SharedFirstUse = FALSE`, `SignalAfterUnlock = FALSE`: the first call on a
  mutex or rwlock is made by one thread alone, and signals are sent under the
  mutex. With the first TRUE TLC finds both `MutualExclusion` and `WriterAlone`
  violated, with the second `ItemsConsumed`: the code does nothing against a
  shared first use (`imports.c` 98, `libc_shim.c` 537), nor against a condition
  variable made twice (136). Whether the engine's threads can meet there cannot
  be seen in this repository.
* The engine's threads heed the error of a lock that could not be made; after
  one that does not, nothing excludes.
* The engine writes nothing into the asset tree, uses one handle from one thread
  at a time, and renames files within one folder.
* The engine uses JNI references from one thread at a time; destroys a player
  that no thread of its own is using, and not from that player's callback.
* SDL: closing a device waits for its callback; SDL mutexes are recursive only
  for their holder. newlib: POSIX mutexes and condition variables. libnx:
  rwlocks with one writer.
* The SD card's file system: an operation that returned is durable, rename is
  atomic and fails onto an existing file, rmdir fails on a directory with
  entries, remove refuses a directory, readdir returns the names present at
  opendir. Files that can be read have the contents last written; a file whose
  `fclose` failed or was cut by a power loss has a prefix of them.
* The SaltyNX module clears a block's magic number but does not forge one, and
  `publish` is not interrupted by it between its test and its last store; the
  code would then write a few fields into a block that has been given up.
* The linker's RELR packing (entries in ascending order, each bitmap about the
  words behind the entry before it) is `IsPacked` in `SoLoader`; `Pack` in
  `MC_SoLoader` makes such tables.
* A loadable segment has at least one byte: an executable one of none at address
  0 would make `last` in so_finalize (`so_util.c` 77) wrap.
* The kernel gives the process at least two pages.

## 6. Not modelled, and why

* *Audio*: the very first two creations of a player, made at once, could each
  allocate a `g_reg_lock` (`opensles.c` 340); `AudioRegistry` takes it to be one
  mutex. `RegisterCallback` storing callback and context without a lock (408), a
  callback that destroys its own player (531), one that comes between the
  engine's destruction and the closing of the device (`main.c` 378-380). Two
  devices opened at once (342) are in `AudioRegistry`, but no property notices
  that only the second is closed. The first needs an order of engine calls that
  cannot be seen here, and so do the others. Sample arithmetic, gain, mute and
  the position getters change no queue state.
* *pthread*: `pthread_once` (`imports.c` 163), whose second caller does not wait
  for the first; trylock, destroy, semaphores, thread creation. They pass
  through to newlib or depend on callers that are not in the repository.
* *JNI*: several threads on one table (`jni_fake.c` 59); the contents of arrays
  and strings and the bounds of their regions (467); preference files; the
  constant answers of the vtable.
* *libc shims*: the stdio wrappers for the three standard streams, the
  conversions of `stat` and `dirent`, locale and character calls keep no state
  between calls. `readdir_fake` returns one static buffer (284), so that two
  threads listing directories would overwrite each other's entry. `rename_fake`
  onto an existing file fails, as the card's file system does, where Android
  replaces it (189); `GameFolder` promises no replacement. `system_fake`
  answers 0 though no directory was made (221), which `GameFolder` allows.
* *Save location*: readdir returns the names present at opendir in the model;
  what a directory walk yields while its entries are renamed (`save_path.c` 130)
  is the file system's.
* *Drawing* (`gfx.c`): pixels. Text drawn on one thread and measured on another
  shares one font face (159).
* *Startup*: EGL, SDL and service initialisation are library calls in a fixed
  order and are one step; logging; the build.
* L held with Plus sends the native bits L1 and X, which is the companion
  chord; README line "Y or Plus - open the ring/pause menu" does not mention it.
  The mapping is in `MainLoop.NativeKeys`; no property is stated about it.

## 7. Plan

Done, the most dangerous code first: the player, the registry, the references,
the pthread shims, the saves, SaltyNX, the frame loop, the loader; then the
asset handles and path calls, the rwlocks with the queue behind them, the
identifiers and the dialog over the references, and the start of the program
over the migration. The refinements of `BufferQueue`, `JniFrames`, `AssetFile`,
`GameFolder` and `SaveStore` are all proved.

What is left, in order of use:

1. `g_reg_lock` as a word that two first creations may both fill, in
   `AudioRegistry`, with the run on two devices.
2. References used by two threads in `JniRefs`, once it is known which of the
   engine's threads call JNI.
3. `pthread_once` with a caller that relies on its completion; destruction of
   mutexes and condition variables.
4. The safe halves of the other liveness properties as theorems, as
   `LoadingAdvances` is of `LoadingEnds`, `NoDeadlock` of `BlocksEnd` and
   `NoWakeupLost` of `ItemsConsumed`.
