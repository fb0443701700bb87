------------------------------ MODULE Startup ------------------------------
(***************************************************************************)
(* The start of the program up to the running game (main.c, config.c): the *)
(* saves are migrated, config.txt is read, created or rewritten, and the   *)
(* checks before the engine starts may end the process.  Power may be lost *)
(* at any point, and the player may edit config.txt between two starts.    *)
(*                                                                         *)
(* config.txt is the value of each key (of its last line; NONE without     *)
(* one), and whether it has a key that is no longer used.                  *)
(***************************************************************************)
EXTENDS SaveMigration, Integers, Sequences

CONSTANTS
    LANG_EN,        \* 1
    UserFiles       \* the config.txt files a player has or makes

CONFIG_VARS == <<"screen_width", "screen_height", "language">>
Keys == {CONFIG_VARS[n] : n \in 1..3}

Defaults == [v \in Keys |-> IF v = "language" THEN LANG_EN ELSE -1]

Configs == [Keys -> Int]
ConfigFiles ==
    [exists : BOOLEAN, retired : BOOLEAN, value : [Keys -> Int \cup {NONE}]]

ASSUME StartupAssumption ==
    LANG_EN \in Nat /\ NONE \notin Int /\ UserFiles \subseteq ConfigFiles

VARIABLES
    file,           \* config.txt
    config,         \* the settings in memory
    stage,          \* of main, once the migration is over
    wish,           \* observed: the settings of the player's last config.txt
    harmed,         \* observed: an operation on it failed or was cut since
    fine            \* observed: no operation on it failed since this start

settings == <<file, config, wish, harmed, fine>>
allVars == <<vars, settings, stage>>

NoFile == [exists |-> FALSE, retired |-> FALSE, value |-> [v \in Keys |-> NONE]]

(* read_config on an opened file: what has no line keeps its default. *)
Parsed(f) == [v \in Keys |-> IF f.value[v] = NONE THEN Defaults[v] ELSE f.value[v]]

(* A file write_config made, with these lines. *)
Lines(value) == [exists |-> TRUE, retired |-> FALSE, value |-> value]

(* Bug: the language is not written. *)
WrittenWithoutLanguage(c) == Lines([c EXCEPT !["language"] = NONE])

Written(c) == Lines(c)

(* What atoi reads of a number cut short; "" and "-" give 0. *)
Digits(size) == {size \div p : p \in {q \in {10^k : k \in 1..9} : q <= size}}

Cut(number) ==
    {0} \cup (IF number < 0 THEN {-size : size \in Digits(-number)} ELSE Digits(number))

(* The files of which only the first bytes reached the card: the lines     *)
(* before the n-th are whole, the n-th has what is left of it.             *)
Torn(c) ==
    UNION {{Lines([v \in Keys |->
                IF v \in {CONFIG_VARS[m] : m \in 1..(n - 1)} THEN c[v]
                ELSE IF v = CONFIG_VARS[n] THEN rest ELSE NONE]) :
              rest \in {NONE, c[CONFIG_VARS[n]]} \cup Cut(c[CONFIG_VARS[n]])} :
            n \in 1..3}

InitFile(f) == file = f /\ wish = Parsed(f)

StartupInit ==
    /\ Init
    /\ \E f \in UserFiles \cup {NoFile} : InitFile(f)
    /\ config = Defaults /\ stage = "read" /\ harmed = FALSE /\ fine = TRUE

----------------------------------------------------------------------------
Main(from, to) == pc = "playing" /\ stage = from /\ stage' = to

(* migrate_legacy_saves *)
MigrateSaves == Migrate /\ UNCHANGED <<settings, stage>>

(* read_config(CONFIG_NAME) != 0: no file, or a retired key in it.  A file *)
(* that cannot be opened is taken for no file.                             *)
ReadConfig ==
    /\ \/ /\ Main("read", IF file.exists /\ ~file.retired THEN "check" ELSE "write")
          /\ config' = Parsed(file)
          /\ UNCHANGED <<fine, harmed>>
       \/ /\ file.exists
          /\ Main("read", "write")
          /\ config' = Defaults
          /\ fine' = FALSE /\ harmed' = TRUE
    /\ UNCHANGED <<vars, file, wish>>

(* write_config: fopen(file, "w") empties the file, ... *)
OpenConfig ==
    /\ \/ /\ Main("write", "flush")
          /\ file' = Lines(NoFile.value)
          /\ UNCHANGED fine
       \/ Main("write", "check") /\ UNCHANGED file /\ fine' = FALSE
    /\ UNCHANGED <<vars, config, wish, harmed>>

(* ... and fclose writes the lines, if all goes well; its result is not    *)
(* looked at.                                                              *)
CloseConfig ==
    /\ Main("flush", "check")
    /\ \/ file' = Written(config) /\ UNCHANGED <<fine, harmed>>
       \/ file' \in Torn(config) /\ fine' = FALSE /\ harmed' = TRUE
    /\ UNCHANGED <<vars, config, wish>>

(* check_syscalls, check_data, egl_init, so_load, ...: the engine starts,  *)
(* or fatal_error shows a message and exits.                               *)
CheckSystem ==
    /\ Main("check", "running") \/ Main("check", "fatal")
    /\ UNCHANGED <<vars, settings>>

Boot == MigrateSaves \/ ReadConfig \/ OpenConfig \/ CloseConfig \/ CheckSystem

GameSaves == stage = "running" /\ PlaySave /\ UNCHANGED <<settings, stage>>

(* The process is started again, perhaps after an edit of config.txt. *)
StartAgain ==
    /\ stage \in {"running", "fatal"}
    /\ Restart
    /\ stage' = "read" /\ config' = Defaults /\ fine' = TRUE
    /\ \/ UNCHANGED <<file, wish, harmed>>
       \/ \E f \in UserFiles : file' = f /\ wish' = Parsed(f) /\ harmed' = FALSE

(* Power is lost; between fopen and the end of fclose, part of the lines   *)
(* may have reached the card.                                              *)
PowerLoss ==
    /\ Crash
    /\ stage' = "read" /\ config' = Defaults /\ fine' = TRUE
    /\ IF pc = "playing" /\ stage = "flush"
       THEN file' \in Torn(config) \cup {Written(config)} /\ harmed' = TRUE
       ELSE UNCHANGED <<file, harmed>>
    /\ UNCHANGED wish

StartupNext == Boot \/ GameSaves \/ StartAgain \/ PowerLoss

StartupSpec == StartupInit /\ [][StartupNext]_allVars

(* The main thread goes on unless power is lost.  read_config loops until  *)
(* feof, so this also says that an error of fgets does not last.           *)
FairStartup == StartupSpec /\ WF_allVars(Boot)

----------------------------------------------------------------------------
(* What damage may leave of the player's settings: the defaults, or one    *)
(* write, of either, cut short.                                            *)
Remains ==
    {wish, Defaults} \cup {Parsed(f) : f \in Torn(wish) \cup Torn(Defaults)}

(***************************************************************************)
(* A game starts with the player's settings, through rewrites of           *)
(* config.txt, failed starts and power losses, unless an operation on      *)
(* config.txt itself failed or was cut since the player's last edit.  The  *)
(* code protects nothing then, but the damage does not grow: whatever      *)
(* failed or was cut, and how often, the game starts with what one write   *)
(* cut short leaves of the player's settings or of the defaults.  And a    *)
(* start on which nothing failed leaves a config.txt that a later start    *)
(* reads the same, without the need to write again.                        *)
(***************************************************************************)
SettingsKept ==
    pc = "playing" /\ stage = "running" =>
        /\ config \in Remains
        /\ ~harmed => config = wish
        /\ fine => file.exists /\ ~file.retired /\ Parsed(file) = config

(***************************************************************************)
(* Every start gets to the game or to an error message, whatever fails in  *)
(* the migration and with config.txt.                                      *)
(***************************************************************************)
Started == pc = "playing" /\ stage \in {"running", "fatal"}

StartEnds == ~Started ~> Started

=============================================================================
