------------------------------ MODULE SoLoader ------------------------------
(***************************************************************************)
(* Loading the game (so_util.c, with imports.c and main.c): the C++ runtime*)
(* and the engine, two ARM64 ELF libraries, are read into a slice of the   *)
(* heap, relocated, linked against the Switch shims and against each other,*)
(* mapped as code memory, given page permissions and initialised.          *)
(*                                                                         *)
(* Memory is counted in words, PAGE words to a page.  An address stored in *)
(* a relocated place is symbolic: <<kind, module, name>>.                  *)
(***************************************************************************)
EXTENDS Naturals, Sequences, FiniteSets, FiniteSetsExt

CONSTANTS
    Files,              \* what a library file may hold, see File
    Shims,              \* names in dynlib_functions
    Heaps,              \* [addr, size] of the memory the process may get
    RESERVE,            \* so_reserve, the libraries' slice of a large heap
    PAGE,               \* words in a page
    BITS                \* words one RELR bitmap covers (63)

Mods == {"cxx", "game"}
Other(m) == IF m = "cxx" THEN "game" ELSE "cxx"

(* A file: its loadable segments, the place each relocation patches with   *)
(* its type and symbol, the symbols it defines and those it exports, and   *)
(* its packed relative relocations.                                        *)
(*   [segments : Seq([vaddr, memsz : Nat, x : BOOLEAN]),                   *)
(*    rela : [places -> [type, sym]], defined, exported : sets of names,   *)
(*    relr : Seq([addr : Nat] or [bits : SUBSET 1..BITS]),                 *)
(*    packed : the words the linker packed into relr]                      *)
VARIABLES
    heap,               \* the memory given to the process
    file,               \* what the file of each module turns out to hold
    so_list,            \* modules loaded, in load order
    base,               \* load_base of each module
    so_base,            \* modules whose temporary file image is allocated
    mapped,             \* modules whose image was moved to code memory
    place,              \* value in each relocated place
    added,              \* times the load base was added to a word
    perm,               \* permission of each page
    pg, want_x,         \* so_finalize's loop
    step,               \* calls main completed
    failed,             \* fatal_error was called
    flushed,            \* modules whose code the caches were made to show
    guard,              \* main's thread has its TLS block, with the canary
    ran                 \* modules whose constructors ran, in order

memory == <<base, so_base, mapped>>
contents == <<place, added, perm>>
code == <<flushed, guard, ran>>
loaderVars ==
    <<heap, file, so_list, memory, contents, pg, want_x, step, failed, code>>

(* Bug: the temporary images are freed once everything is mapped. *)
OrderFreesEarly ==
    <<<<"load", "cxx">>, <<"load", "game">>,
      <<"relocate", "cxx">>, <<"resolve", "cxx">>,
      <<"relocate", "game">>, <<"resolve", "game">>, <<"entry", "game">>,
      <<"map", "cxx">>, <<"protect", "cxx">>, <<"free", "cxx">>,
      <<"map", "game">>, <<"protect", "game">>, <<"free", "game">>,
      <<"flush", "cxx">>, <<"flush", "game">>, <<"guard", "game">>,
      <<"init", "cxx">>, <<"init", "game">>>>

(* The calls of main, in order; so_finalize is "map" and "protect". *)
Order ==
    <<<<"load", "cxx">>, <<"load", "game">>,
      <<"relocate", "cxx">>, <<"resolve", "cxx">>,
      <<"relocate", "game">>, <<"resolve", "game">>,
      <<"entry", "game">>,
      <<"map", "cxx">>, <<"protect", "cxx">>,
      <<"map", "game">>, <<"protect", "game">>,
      <<"flush", "cxx">>, <<"flush", "game">>,
      <<"guard", "game">>,
      <<"init", "cxx">>, <<"init", "game">>,
      <<"free", "cxx">>, <<"free", "game">>>>

At(call, m) ==
    ~failed /\ step < Len(Order) /\ Order[step + 1] = <<call, m>>

Done == step' = step + 1

(* The call has been made, and has returned. *)
Called(call, m) == \E n \in 1..step : Order[n] = <<call, m>>

Fail == failed' = TRUE /\ UNCHANGED step

----------------------------------------------------------------------------
(* Sizes.                                                                  *)

AlignUp(n) == ((n + PAGE - 1) \div PAGE) * PAGE

Ends(f) == {f.segments[s].vaddr + f.segments[s].memsz : s \in DOMAIN f.segments}

LoadSize(f) == AlignUp(Max(Ends(f) \cup {0}))

Pages(f) == 0..(LoadSize(f) \div PAGE - 1)

(* __libnx_initheap: the newlib heap ends where the libraries' slice starts*)
HeapEnd ==
    heap.addr + (IF heap.size > 2 * RESERVE THEN heap.size - RESERVE
                                            ELSE heap.size \div 2)
SliceStart == AlignUp(HeapEnd)
SliceLimit == heap.addr + heap.size - SliceStart

LoadBase(m) ==
    IF m = "cxx" THEN SliceStart ELSE SliceStart + LoadSize(file["cxx"])

(* Bug: the engine is given the whole slice's size. *)
LoadLimitWhole(m) == SliceLimit

LoadLimit(m) ==
    IF m = "cxx" THEN SliceLimit ELSE SliceLimit - LoadSize(file["cxx"])

----------------------------------------------------------------------------
(* A library as a linker writes it.                                        *)

(* A packed entry is about the words from some word on: an address entry   *)
(* about that word, a bitmap about BITS words behind the entry before it.  *)
(* The entries are in ascending order, and the first is an address.        *)
IsAddress(entry) == "addr" \in DOMAIN entry

Span(entry) == IF IsAddress(entry) THEN 1 ELSE BITS

Words(entry, from) ==
    IF IsAddress(entry) THEN {from} ELSE {from + bit - 1 : bit \in entry.bits}

Packing(relr, from) ==
    \A k \in DOMAIN relr :
        /\ IF IsAddress(relr[k])
           THEN relr[k].addr = from[k]
           ELSE /\ relr[k].bits \subseteq 1..BITS
                /\ k > 1 /\ from[k] = from[k - 1] + Span(relr[k - 1])
        /\ k > 1 => from[k - 1] + Span(relr[k - 1]) <= from[k]

IsPacked(f, size) ==
    \E from \in [DOMAIN f.relr -> 0..size] :
        /\ Packing(f.relr, from)
        /\ f.packed = UNION {Words(f.relr[k], from[k]) : k \in DOMAIN f.relr}

(* "unknown" stands for every other type. *)
Types == {"RELATIVE", "ABS64", "GLOB_DAT", "JUMP_SLOT", "unknown"}

IsLibrary(f) ==
    /\ f.segments \in Seq([vaddr : Nat, memsz : Nat \ {0}, x : BOOLEAN])
    /\ \A p \in DOMAIN f.rela : f.rela[p].type \in Types
    /\ f.relr \in Seq([addr : Nat] \cup [bits : SUBSET (1..BITS)])
    /\ IsPacked(f, LoadSize(f))

(* The kernel hands out memory in blocks of two megabytes.                 *)
ASSUME LoaderAssumption ==
    /\ PAGE \in Nat \ {0} /\ BITS \in Nat \ {0}
    /\ RESERVE \in Nat /\ PAGE <= RESERVE
    /\ \A h \in Heaps : h.addr \in Nat /\ h.size \in Nat /\ 2 * PAGE <= h.size
    /\ \A f \in Files : IsLibrary(f)

----------------------------------------------------------------------------
(* Addresses.                                                              *)

Stored == <<"file", "", "">>
Addend == <<"addend", "", "">>
Poison(m, p) == <<"offset", m, p>>
Base(m) == <<"base", m, "">>
Symbol(m, n) == <<"symbol", m, n>>
Shim(n) == <<"shim", "", n>>

LoaderInit ==
    /\ heap \in Heaps
    /\ file \in [Mods -> Files]
    /\ so_list = <<>>
    /\ base = [m \in Mods |-> 0]
    /\ so_base = {} /\ mapped = {}
    /\ place = [m \in Mods |-> [p \in DOMAIN file[m].rela |-> Stored]]
    /\ added = [m \in Mods |-> [w \in 0..(LoadSize(file[m]) - 1) |-> 0]]
    /\ perm = [m \in Mods |-> [p \in Pages(file[m]) |-> "none"]]
    /\ pg = 0 /\ want_x = TRUE
    /\ step = 0 /\ failed = FALSE
    /\ flushed = {} /\ guard = FALSE /\ ran = <<>>

----------------------------------------------------------------------------
(* so_load.                                                                *)

Load(m) ==
    /\ At("load", m)
    /\ LoadSize(file[m]) <= LoadLimit(m)
    /\ base' = [base EXCEPT ![m] = LoadBase(m)]
    /\ so_base' = so_base \cup {m}
    /\ so_list' = Append(so_list, m)
    /\ Done
    /\ UNCHANGED <<heap, file, mapped, contents, pg, want_x, failed, code>>

(* The file is missing, too large, no ELF file, without symbols, or memory *)
(* is short: everything is released and main gives up.                     *)
LoadFails(m) ==
    /\ At("load", m)
    /\ Fail
    /\ UNCHANGED <<heap, file, so_list, memory, contents, pg, want_x, code>>

----------------------------------------------------------------------------
(* so_relocate: what needs no other module.                                *)

Local(m, p) ==
    LET r == file[m].rela[p]
        own == r.sym \in file[m].defined
    IN  CASE r.type = "RELATIVE" -> Base(m)
          [] r.type = "ABS64" -> IF own THEN Symbol(m, r.sym) ELSE Addend
          [] OTHER -> IF own THEN Symbol(m, r.sym) ELSE place[m][p]

(* Bug: after an address entry, the bitmap starts at that same address. *)
AfterAddressSame(a) == a

(* Where the words a bitmap describes start, after an address entry. *)
AfterAddress(a) == a + 1

(* so_process_relr's where before each entry. *)
Where(relr) ==
    LET where[k \in 1..(Len(relr) + 1)] ==
          IF k = 1 THEN 0
          ELSE IF IsAddress(relr[k - 1])
               THEN AfterAddress(relr[k - 1].addr)
               ELSE where[k - 1] + BITS
    IN  where

(* How often entry k adds the base to word w. *)
Adds(relr, k, w) ==
    IF IsAddress(relr[k])
    THEN w = relr[k].addr
    ELSE \E bit \in relr[k].bits : w = Where(relr)[k] + bit - 1

Relocate(m) ==
    /\ At("relocate", m)
    /\ \A p \in DOMAIN file[m].rela : file[m].rela[p].type # "unknown"
    /\ place' = [place EXCEPT ![m] = [p \in DOMAIN @ |-> Local(m, p)]]
    /\ LET relr == file[m].relr
       IN  added' = [added EXCEPT ![m] =
             [w \in DOMAIN @ |->
                @[w] + Cardinality({k \in DOMAIN relr : Adds(relr, k, w)})]]
    /\ Done
    /\ UNCHANGED <<heap, file, so_list, memory, perm, pg, want_x, failed, code>>

RelocateFails(m) ==
    /\ At("relocate", m)
    /\ \E p \in DOMAIN file[m].rela : file[m].rela[p].type = "unknown"
    /\ Fail
    /\ UNCHANGED <<heap, file, so_list, memory, contents, pg, want_x, code>>

----------------------------------------------------------------------------
(* so_resolve: shims first, then the other modules in load order, else     *)
(* the place is poisoned with its own offset.                              *)

(* Bug: only calls are imported, not addresses of data (vtables). *)
ImportingCallsOnly == {"JUMP_SLOT"}

Importing == {"ABS64", "GLOB_DAT", "JUMP_SLOT"}

(* Where in so_list the other modules are that export a name. *)
Exporters(m, n) ==
    {k \in 1..Len(so_list) : so_list[k] # m /\ n \in file[so_list[k]].exported}

Imported(m, p) ==
    LET r == file[m].rela[p]
        from == Exporters(m, r.sym)
    IN  IF r.type \notin Importing \/ r.sym \in file[m].defined
        THEN place[m][p]
        ELSE IF r.sym \in Shims THEN Shim(r.sym)
        ELSE IF from # {} THEN Symbol(so_list[Min(from)], r.sym)
        ELSE Poison(m, p)

Resolve(m) ==
    /\ At("resolve", m)
    /\ place' = [place EXCEPT ![m] = [p \in DOMAIN @ |-> Imported(m, p)]]
    /\ Done
    /\ UNCHANGED <<heap, file, so_list, memory, added, perm, pg, want_x, failed,
                   code>>

(* Main looks the engine's entry points up; one may be missing. *)
ResolveEntryPoints ==
    /\ At("entry", "game")
    /\ \/ Done /\ UNCHANGED failed
       \/ Fail
    /\ UNCHANGED <<heap, file, so_list, memory, contents, pg, want_x, code>>

----------------------------------------------------------------------------
(* so_finalize.                                                            *)

MapCode(m) ==
    /\ At("map", m)
    /\ \/ /\ mapped' = mapped \cup {m}
          /\ perm' = [perm EXCEPT ![m] = [p \in DOMAIN @ |-> "fresh"]]
          /\ pg' = 0 /\ want_x' = TRUE
          /\ Done /\ UNCHANGED failed
       \/ Fail /\ UNCHANGED <<mapped, perm, pg, want_x>>
    /\ UNCHANGED <<heap, file, so_list, base, so_base, place, added, code>>

(* is_x_page *)
IsX(m, p) ==
    \E s \in DOMAIN file[m].segments :
        LET seg == file[m].segments[s]
        IN  seg.x /\ seg.vaddr \div PAGE <= p
                  /\ p <= AlignUp(seg.vaddr + seg.memsz) \div PAGE - 1

(* Pass 0 is for the executable pages, pass 1 for the others. *)
InPass(m, p) == IsX(m, p) <=> want_x

Rest(m) == {p \in Pages(file[m]) : pg <= p /\ InPass(m, p)}

(* The next run of pages of this pass: one system call. *)
Run(m) ==
    {p \in Rest(m) : \A o \in Min(Rest(m))..p : o \in Rest(m)}

(* Bug: the loop goes on at the run's last page. *)
AfterRunLast(m) == Max(Run(m))

AfterRun(m) == Max(Run(m)) + 1

SetPermission(m) ==
    /\ At("protect", m)
    /\ Rest(m) # {}
    /\ \/ /\ perm' = [perm EXCEPT ![m] =
               [p \in DOMAIN @ |->
                  IF p \in Run(m) THEN IF want_x THEN "rx" ELSE "rw" ELSE @[p]]]
          /\ pg' = AfterRun(m)
          /\ UNCHANGED failed
       \/ failed' = TRUE /\ UNCHANGED <<perm, pg>>
    /\ UNCHANGED <<heap, file, so_list, memory, place, added, want_x, step, code>>

PassEnds(m) ==
    /\ At("protect", m)
    /\ Rest(m) = {}
    /\ IF want_x
       THEN want_x' = FALSE /\ pg' = 0 /\ UNCHANGED step
       ELSE Done /\ UNCHANGED <<want_x, pg>>
    /\ UNCHANGED <<heap, file, so_list, memory, contents, failed, code>>

----------------------------------------------------------------------------
(* Constructors and cleanup.                                               *)

FlushCaches(m) ==
    /\ At("flush", m)
    /\ flushed' = flushed \cup {m}
    /\ Done
    /\ UNCHANGED <<heap, file, so_list, memory, contents, pg, want_x, failed,
                   guard, ran>>

SetupGuard ==
    /\ At("guard", "game")
    /\ guard' = TRUE
    /\ Done
    /\ UNCHANGED <<heap, file, so_list, memory, contents, pg, want_x, failed,
                   flushed, ran>>

ExecuteInitArray(m) ==
    /\ At("init", m)
    /\ ran' = Append(ran, m)
    /\ Done
    /\ UNCHANGED <<heap, file, so_list, memory, contents, pg, want_x, failed,
                   flushed, guard>>

FreeTemp(m) ==
    /\ At("free", m)
    /\ so_base' = so_base \ {m}
    /\ Done
    /\ UNCHANGED <<heap, file, so_list, base, mapped, contents, pg, want_x,
                   failed, code>>

LoaderNext ==
    \/ ResolveEntryPoints \/ SetupGuard
    \/ \E m \in Mods :
         \/ Load(m) \/ LoadFails(m) \/ Relocate(m) \/ RelocateFails(m)
         \/ Resolve(m) \/ MapCode(m) \/ SetPermission(m) \/ PassEnds(m)
         \/ FlushCaches(m) \/ ExecuteInitArray(m) \/ FreeTemp(m)

LoaderSpec == LoaderInit /\ [][LoaderNext]_loaderVars

(* One thread, whose system calls return: main goes on, or gives up where  *)
(* it cannot.  No call need fail.                                          *)
LoaderFairSpec ==
    /\ LoaderSpec
    /\ WF_loaderVars(LoaderNext /\ UNCHANGED failed)
    /\ \A m \in Mods : WF_loaderVars(LoadFails(m)) /\ WF_loaderVars(RelocateFails(m))

----------------------------------------------------------------------------
(***************************************************************************)
(* What dynamic linking prescribes for a place: the library's own symbol,  *)
(* else a shim, else the other library's export; a place nobody can fill   *)
(* holds its own offset, so that a use of it faults where it can be seen.  *)
(***************************************************************************)
Linked(m, p) ==
    LET r == file[m].rela[p]
        o == Other(m)
    IN  IF r.type = "RELATIVE" THEN Base(m)
        ELSE IF r.sym \in file[m].defined THEN Symbol(m, r.sym)
        ELSE IF r.sym \in Shims THEN Shim(r.sym)
        ELSE IF r.sym \in file[o].exported THEN Symbol(o, r.sym)
        ELSE Poison(m, p)

HasCode(f, p) ==
    \E s \in DOMAIN f.segments, w \in (p * PAGE)..(p * PAGE + PAGE - 1) :
        /\ f.segments[s].x
        /\ f.segments[s].vaddr <= w
        /\ w < f.segments[s].vaddr + f.segments[s].memsz

(* A library lies at load_base until so_finalize maps it away, and at      *)
(* load_virtbase from then on; its section headers are in the temporary    *)
(* image of the file.                                                      *)
NeedsHeaders == {"relocate", "resolve", "init"}
NeedsImage == {"relocate", "resolve", "entry", "map"}
NeedsCode == {"protect", "flush", "init"}

(* so_resolve also looks names up in the other modules of so_list.         *)
Reads(call, m) ==
    {m} \cup (IF call = "resolve" THEN {so_list[k] : k \in 1..Len(so_list)} ELSE {})

FindsMemory(call, m) ==
    /\ call \in NeedsHeaders => m \in so_base
    /\ call \in NeedsImage =>
         \A o \in Reads(call, m) : Called("load", o) /\ o \notin mapped
    /\ call \in NeedsCode => m \in mapped

(***************************************************************************)
(* Each call of main finds the memory it reads and writes: headers not yet *)
(* freed, images not yet mapped away, code already mapped.  Before any     *)
(* constructor runs, in the engine or in the runtime, every place of both  *)
(* libraries is linked, pages with code are executable and all others      *)
(* writable, the caches show both, and the thread has the stack canary's   *)
(* block; the runtime's constructors run first.                            *)
(***************************************************************************)
CodeRunsReady ==
    /\ \A m \in Mods, call \in NeedsHeaders \cup NeedsImage \cup NeedsCode :
         At(call, m) => FindsMemory(call, m)
    /\ ran # <<>> => guard /\ flushed = Mods
    /\ ran # <<>> =>
         \A m \in Mods :
             /\ \A p \in DOMAIN place[m] : place[m][p] = Linked(m, p)
             /\ \A p \in DOMAIN perm[m] :
                  perm[m][p] = IF HasCode(file[m], p) THEN "rx" ELSE "rw"
    /\ ran # <<>> => ran[1] = "cxx"

(***************************************************************************)
(* The images lie in the slice behind the newlib heap, inside the memory   *)
(* the process has, and do not overlap (main.c:305).                       *)
(***************************************************************************)
ImagesApart ==
    \A m \in {so_list[n] : n \in 1..Len(so_list)} :
        /\ HeapEnd <= base[m]
        /\ base[m] + LoadSize(file[m]) <= heap.addr + heap.size
        /\ m = "game" => base["cxx"] + LoadSize(file["cxx"]) <= base[m]

(***************************************************************************)
(* Packed relative relocations: once a library is relocated, the load base *)
(* was added once to each word the linker packed and to no other.          *)
(***************************************************************************)
RelrAddsOnce ==
    \A m \in Mods : \A w \in DOMAIN added[m] :
        added[m][w] = IF Called("relocate", m) /\ w \in file[m].packed THEN 1 ELSE 0

(***************************************************************************)
(* Loading ends: with every call of main done, or with the fatal error of  *)
(* the call that failed.  The search for runs of pages does not go round.  *)
(***************************************************************************)
LoadingEnds == <>(failed \/ step = Len(Order))

=============================================================================
