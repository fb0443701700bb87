----------------------------- MODULE JniUpcalls -----------------------------
(***************************************************************************)
(* The engine's calls into Java (jni_fake.c): GetMethodID and              *)
(* GetStaticMethodID answer entries of one pool of identifiers, and a call *)
(* through an identifier is dispatched by the name its entry holds.  The   *)
(* text dialog is the method with a state: funcViewDialog runs the         *)
(* system's keyboard to its end and keeps the answer for                   *)
(* funcViewDialogGetString, which returns it as a new local reference of   *)
(* JniRefs.                                                                *)
(*                                                                         *)
(* A method is <<name, signature>>.  An entry has room for 63 and 95 bytes *)
(* of them; what does not fit is stored cut and compares unequal to the    *)
(* whole ever after.                                                       *)
(***************************************************************************)
EXTENDS JniRefs

CONSTANTS
    Methods,        \* what the engine may look up
    Long,           \* the names and signatures that do not fit
    CUT,            \* what is left of them
    MAX_IDS,        \* entries of the pool (256 in the code)
    DIALOG,         \* the name funcViewDialog
    Objects,        \* the names that call_object answers with a string
    Texts,          \* answers a player may type
    EMPTY

ASSUME UpcallsAssumption ==
    /\ \A m \in Methods : m = <<m[1], m[2]>> /\ CUT \notin {m[1], m[2]}
    /\ IsFiniteSet(Methods)
    /\ DIALOG \notin Objects /\ CUT \notin Objects \cup {DIALOG}
    /\ MAX_IDS \in Nat \ {0}

VARIABLES
    id_pool,
    cached,         \* the engine's: the entry last answered for a method, or 0
    g_kbd_result,
    entered         \* observed: what the player answered to the last dialog

Kept(part) == IF part \in Long THEN CUT ELSE part
Stored(m) == <<Kept(m[1]), Kept(m[2])>>

upcallVars == <<id_pool, cached, g_kbd_result, entered>>

UpcallsTypeOK ==
    /\ id_pool \in Seq({Stored(m) : m \in Methods}) /\ Len(id_pool) <= MAX_IDS
    /\ cached \in [Methods -> 0..MAX_IDS]
    /\ {g_kbd_result, entered} \subseteq Texts \cup {EMPTY}

UpcallsInit ==
    /\ Init
    /\ id_pool = <<>> /\ cached = [m \in Methods |-> 0]
    /\ g_kbd_result = EMPTY /\ entered = EMPTY

----------------------------------------------------------------------------
Asked == {m \in Methods : cached[m] # 0}
(* The name that a call of m is dispatched by. *)
Reached(m) == id_pool[cached[m]][1]

EntriesOf(m) == {i \in 1..Len(id_pool) : id_pool[i] = m}

(* Bug: every lookup takes an entry. *)
GetIdAppends(m, id) ==
    IF Len(id_pool) = MAX_IDS
    THEN id = 1 /\ UNCHANGED id_pool
    ELSE /\ id_pool' = Append(id_pool, Stored(m))
         /\ id = Len(id_pool) + 1

(* get_id answers the first entry that holds m; or, with the pool full,    *)
(* the first entry of all; or a new one.                                   *)
GetId(m, id) ==
    \/ /\ id \in EntriesOf(m) /\ \A i \in EntriesOf(m) : id <= i
       /\ UNCHANGED id_pool
    \/ /\ EntriesOf(m) = {} /\ Len(id_pool) = MAX_IDS
       /\ id = 1
       /\ UNCHANGED id_pool
    \/ /\ EntriesOf(m) = {} /\ Len(id_pool) < MAX_IDS
       /\ id_pool' = Append(id_pool, Stored(m))
       /\ id = Len(id_pool) + 1

GetMethodID(m) ==
    /\ \E id \in 1..MAX_IDS : GetId(m, id) /\ cached' = [cached EXCEPT ![m] = id]
    /\ UNCHANGED <<vars, g_kbd_result, entered>>

(* show_switch_keyboard, or an alert: a cancelled, failed or plain dialog  *)
(* leaves no text.                                                         *)
ViewDialog(answer) == g_kbd_result' = answer

(* The int methods but funcViewDialog answer a constant. *)
CallIntMethod(m, answer) ==
    /\ m \in Asked /\ m[1] \notin Objects
    /\ IF Reached(m) = DIALOG THEN ViewDialog(answer) ELSE UNCHANGED g_kbd_result
    /\ entered' = IF m[1] = DIALOG THEN answer ELSE entered
    /\ UNCHANGED <<vars, id_pool, cached>>

CallObjectMethod(m, r) ==
    /\ m \in Asked /\ m[1] \in Objects
    /\ Reached(m) \in Objects
    /\ NewLocal(r)
    /\ UNCHANGED upcallVars

UpcallsNext ==
    \/ \E m \in Methods :
         \/ GetMethodID(m)
         \/ \E answer \in Texts \cup {EMPTY} : CallIntMethod(m, answer)
         \/ \E r \in Refs : CallObjectMethod(m, r)
    \/ Next /\ UNCHANGED upcallVars

UpcallsSpec == UpcallsInit /\ [][UpcallsNext]_<<vars, upcallVars>>

----------------------------------------------------------------------------
(* The engine has asked for methods that fit, and for no more of them than *)
(* the pool has entries.                                                   *)
Fits ==
    /\ \A m \in Asked : Stored(m) = m
    /\ Cardinality(Asked) <= MAX_IDS

(* A call of m is not dispatched to m, or to what the pool kept of it.     *)
Misses(m) == id_pool[cached[m]] # Stored(m)

(***************************************************************************)
(* As long as the methods fit, every identifier the engine holds, however  *)
(* often and in whatever order it asked, still names the method it was     *)
(* asked for, and the text kept for funcViewDialogGetString is the answer  *)
(* to the last dialog the engine showed, none if it was cancelled.  Beyond *)
(* that, a call misses its method only if the method found the pool full:  *)
(* no method with an entry is ever lost to those that came too late, and   *)
(* those all reach the first entry.                                        *)
(***************************************************************************)
CallsReach ==
    /\ Fits => /\ \A m \in Asked : Reached(m) = m[1]
               /\ g_kbd_result = entered
    /\ \A m \in Asked : Misses(m) =>
         Len(id_pool) = MAX_IDS /\ EntriesOf(m) = {} /\ cached[m] = 1

=============================================================================
