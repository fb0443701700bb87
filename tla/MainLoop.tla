------------------------------ MODULE MainLoop ------------------------------
(***************************************************************************)
(* The frame loop of main.c and the sensor array it pushes to the engine   *)
(* (jni_fake.c, jni_build_sensor_array): sample the pad, sample the touch  *)
(* screen, derive edges, push, let the engine update and render, present,  *)
(* until the system or the engine asks to quit; then take the engine down. *)
(*                                                                         *)
(* Touch positions have one coordinate, the other is treated alike.  The   *)
(* sticks are passed through and not modelled.                             *)
(***************************************************************************)
EXTENDS Integers, Sequences

CONSTANTS
    Buttons,            \* Switch buttons the player uses
    PANEL,              \* width of the touch panel (1280)
    AOM_MAX_TOUCH,      \* fingers passed on (4 in the code)
    MaxFingers,         \* bound: fingers on the panel
    BOOST_FRAMES        \* frames until the load-time boost ends (10)

ASSUME LoopAssumption ==
    /\ Buttons \subseteq {"A", "B", "X", "Y", "L", "R", "ZL", "ZR", "StickL",
                          "StickR", "Plus", "Minus", "Up", "Down", "Left",
                          "Right"}
    /\ PANEL \in Nat \ {0} /\ AOM_MAX_TOUCH \in Nat \ {0}
    /\ MaxFingers \in Nat /\ BOOST_FRAMES \in Nat \ {0}

Positions == 0..(PANEL - 1)
Fingers == UNION {[1..n -> Positions] : n \in 0..MaxFingers}

Bits == {"A", "B", "X", "Y", "SELECT", "L1", "L2", "L3", "R1", "R2", "R3",
         "UP", "DOWN", "LEFT", "RIGHT"}

VARIABLES
    pc,
    applet,             \* appletMainLoop's answer
    jni_quit_requested,
    screen_width, boost, boot_frames,
    pad,                \* the buttons of the last padUpdate
    key_now, touch,     \* s_input: native bits, scaled positions
    key_last, touch_last, last_x, start_x,  \* the statics of the builder
    storage,            \* the sensor array
    held, press,        \* the engine: keys down, where the finger is
    stroke              \* observed: the sampled positions of this touch

loopVars == <<applet, jni_quit_requested, screen_width, boost, boot_frames>>
inputVars == <<pad, key_now, touch>>
builderVars == <<key_last, touch_last, last_x, start_x, storage>>
engineVars == <<held, press>>
vars == <<pc, loopVars, inputVars, builderVars, engineVars, stroke>>

Screen == 0..(screen_width - 1)
NoPress == [down |-> FALSE, start |-> 0, at |-> 0]

Sensor ==
    [key_now : SUBSET Bits, key_on : SUBSET Bits, key_off : SUBSET Bits,
     touch_now : BOOLEAN, touch_on : BOOLEAN, touch_off : BOOLEAN,
     start : Screen, move : Screen]

TypeOK ==
    /\ pc \in {"top", "keys", "touch", "build", "push", "update", "render",
               "swap", "pause", "stop", "destruct", "shutdown", "exited"}
    /\ {applet, jni_quit_requested, boost, touch_last} \subseteq BOOLEAN
    /\ boot_frames \in 0..BOOST_FRAMES
    /\ pad \subseteq Buttons
    /\ key_now \subseteq Bits /\ key_last \subseteq Bits
    /\ touch \in UNION {[1..n -> Screen] : n \in 0..AOM_MAX_TOUCH}
    /\ last_x \in Screen /\ start_x \in Screen
    /\ storage \in Sensor
    /\ held \subseteq Bits
    /\ press \in [down : BOOLEAN, start : Screen, at : Screen]

(* set_screen_size: the configured width if it is sane, else the default of*)
(* the operation mode: the panel's width (1280), or one and a half times   *)
(* that (1920) docked, which is also the limit.                            *)
Configured == -1..(2 * PANEL)
MAX_WIDTH == (3 * PANEL) \div 2
ScreenWidth(w, docked) ==
    IF w <= 0 \/ w > MAX_WIDTH
    THEN IF docked THEN MAX_WIDTH ELSE PANEL
    ELSE w

Init ==
    /\ pc = "top"
    /\ applet = TRUE /\ jni_quit_requested = FALSE
    /\ \E w \in Configured, docked \in BOOLEAN :
         screen_width = ScreenWidth(w, docked)
    /\ boost = TRUE /\ boot_frames = 0
    /\ pad = {} /\ key_now = {} /\ touch = <<>>
    /\ key_last = {} /\ touch_last = FALSE /\ last_x = 0 /\ start_x = 0
    /\ storage = [key_now |-> {}, key_on |-> {}, key_off |-> {},
                  touch_now |-> FALSE, touch_on |-> FALSE, touch_off |-> FALSE,
                  start |-> 0, move |-> 0]
    /\ held = {} /\ press = NoPress
    /\ stroke = <<>>

Go(from, to) == pc = from /\ pc' = to

----------------------------------------------------------------------------
(* Sampling.                                                               *)

(* The buttons that map to one native bit each. *)
Plain ==
    [A |-> "A", B |-> "B", Y |-> "Y", L |-> "L1", ZL |-> "L2", ZR |-> "R2",
     StickL |-> "L3", StickR |-> "R3", Plus |-> "X", Minus |-> "SELECT",
     Up |-> "UP", Down |-> "DOWN", Left |-> "LEFT", Right |-> "RIGHT"]

(* Bug: R is forwarded while X is held. *)
NativeKeysUnsuppressed(d) ==
    {Plain[b] : b \in d \ {"X", "R"}}
      \cup (IF "X" \in d THEN {"L1", "X"} ELSE {})
      \cup (IF "R" \in d THEN {"R1"} ELSE {})

(* X is the companion chord L1+X, and R is not forwarded while X is held,  *)
(* because L1+R1 is the map command.                                       *)
NativeKeys(d) ==
    {Plain[b] : b \in d \ {"X", "R"}}
      \cup (IF "X" \in d THEN {"L1", "X"} ELSE {})
      \cup (IF "R" \in d /\ "X" \notin d THEN {"R1"} ELSE {})

(* Bug: the engine cannot end the loop. *)
LoopTopAppletOnly ==
    /\ Go("top", IF applet THEN "keys" ELSE "pause")
    /\ UNCHANGED <<loopVars, inputVars, builderVars, engineVars, stroke>>

LoopTop ==
    /\ Go("top", IF applet /\ ~jni_quit_requested THEN "keys" ELSE "pause")
    /\ UNCHANGED <<loopVars, inputVars, builderVars, engineVars, stroke>>

UpdateKeys ==
    /\ Go("keys", "touch")
    /\ pad' \in SUBSET Buttons
    /\ key_now' = NativeKeys(pad')
    /\ UNCHANGED <<loopVars, touch, builderVars, engineVars, stroke>>

(* Bug: the panel's coordinates are not scaled to the screen. *)
ScaleUnscaled(x) == x

Scale(x) == (x * screen_width) \div PANEL

(* hidGetTouchScreenStates may also return no state: no finger.            *)
UpdateTouch ==
    /\ Go("touch", "build")
    /\ \E f \in Fingers :
         LET n == IF Len(f) < AOM_MAX_TOUCH THEN Len(f) ELSE AOM_MAX_TOUCH
         IN  touch' = [j \in 1..n |-> Scale(f[j])]
    /\ UNCHANGED <<loopVars, pad, key_now, builderVars, engineVars, stroke>>

----------------------------------------------------------------------------
(* jni_build_sensor_array and pushSensor.                                  *)

down == touch # <<>>

(* Bug: the release reports where the builder has no finger. *)
CurrentUnlessUp == IF down THEN touch[1] ELSE 0

(* Finger 0, or where it was last. *)
Current == IF down THEN touch[1] ELSE last_x

(* Bug: the edges are taken against the array pushed before, after it was  *)
(* cleared.                                                                *)
KeyEdgesAgainstNothing == [on |-> key_now, off |-> {}]

KeyEdges == [on |-> key_now \ key_last, off |-> key_last \ key_now]

BuildSensorArray ==
    /\ Go("build", "push")
    /\ start_x' = IF down /\ ~touch_last THEN touch[1] ELSE start_x
    /\ last_x' = IF down THEN touch[1] ELSE last_x
    /\ storage' = [key_now |-> key_now, key_on |-> KeyEdges.on,
                   key_off |-> KeyEdges.off,
                   touch_now |-> down, touch_on |-> down /\ ~touch_last,
                   touch_off |-> touch_last /\ ~down,
                   start |-> start_x', move |-> Current]
    /\ key_last' = key_now
    /\ touch_last' = down
    /\ stroke' = IF ~down THEN stroke
                 ELSE IF touch_last THEN <<stroke[1], touch[1]>>
                 ELSE <<touch[1], touch[1]>>
    /\ UNCHANGED <<loopVars, inputVars, engineVars>>

(* The engine applies the edges, and follows a finger that is down.        *)
PushSensor ==
    /\ Go("push", "update")
    /\ held' = (held \cup storage.key_on) \ storage.key_off
    /\ press' =
         IF storage.touch_on \/ storage.touch_off \/ press.down
         THEN [down |-> ~storage.touch_off /\ (press.down \/ storage.touch_on),
               start |-> storage.start, at |-> storage.move]
         ELSE press
    /\ UNCHANGED <<loopVars, inputVars, builderVars, stroke>>

----------------------------------------------------------------------------
(* The rest of a frame.  The engine may call funcApplicationExit.          *)

EngineRuns(from, to) ==
    /\ Go(from, to)
    /\ jni_quit_requested' \in {jni_quit_requested, TRUE}
    /\ UNCHANGED <<applet, screen_width, boost, boot_frames, inputVars,
                   builderVars, engineVars, stroke>>

OnFrameUpdate == EngineRuns("update", "render")
OnFrameRender == EngineRuns("render", "swap")

SwapBuffers ==
    /\ Go("swap", "top")
    /\ boot_frames' = IF boot_frames < BOOST_FRAMES THEN boot_frames + 1
                                                    ELSE boot_frames
    /\ boost' = (boost /\ boot_frames' < BOOST_FRAMES)
    /\ UNCHANGED <<applet, jni_quit_requested, screen_width, inputVars,
                   builderVars, engineVars, stroke>>

OnPause == EngineRuns("pause", "stop")
OnStop == EngineRuns("stop", "destruct")
Destruct == EngineRuns("destruct", "shutdown")

(* opensles_shutdown, egl_deinit, plExit, exit. *)
Exit ==
    /\ Go("shutdown", "exited")
    /\ UNCHANGED <<loopVars, inputVars, builderVars, engineVars, stroke>>

(* The system asks the application to close. *)
RequestExit ==
    /\ applet /\ pc # "exited"
    /\ applet' = FALSE
    /\ UNCHANGED <<pc, jni_quit_requested, screen_width, boost, boot_frames,
                   inputVars, builderVars, engineVars, stroke>>

Step ==
    \/ LoopTop \/ UpdateKeys \/ UpdateTouch \/ BuildSensorArray \/ PushSensor
    \/ OnFrameUpdate \/ OnFrameRender \/ SwapBuffers
    \/ OnPause \/ OnStop \/ Destruct \/ Exit

Next == Step \/ RequestExit

Spec == Init /\ [][Next]_vars

(* Main keeps running, the engine's entry points return, and so does the   *)
(* buffer swap.                                                            *)
FairSpec == Spec /\ WF_vars(Step)

----------------------------------------------------------------------------
(* The buttons that mean a key of the engine, each by itself (main.c:232). *)
MeantBy ==
    [UP |-> {"Up"}, DOWN |-> {"Down"}, LEFT |-> {"Left"}, RIGHT |-> {"Right"},
     A |-> {"A"}, B |-> {"B"}, X |-> {"X", "Plus"}, Y |-> {"Y"},
     SELECT |-> {"Minus"}, L1 |-> {"L", "X"}, L2 |-> {"ZL"}, L3 |-> {"StickL"},
     R1 |-> {"R"}, R2 |-> {"ZR"}, R3 |-> {"StickR"}]

(***************************************************************************)
(* What the engine accumulates from the press and release edges is what    *)
(* the player means by the buttons on the pad, frame after frame: a key is *)
(* down as long as one of its buttons is, no key sticks and none is lost   *)
(* when several buttons share it; but no R1 beside the companion's X.      *)
(***************************************************************************)
HeldIsPad ==
    pc = "update" =>
        /\ held \subseteq Bits
        /\ \A key \in Bits :
             key \in held <=> /\ pad \cap MeantBy[key] # {}
                              /\ key = "R1" => "X" \notin pad

(***************************************************************************)
(* A touch is seen as one stroke that begins where the finger was first    *)
(* sampled and, on the release, ends where it was last sampled             *)
(* (jni_fake.c:614: else taps highlight but do not fire).                  *)
(***************************************************************************)
StrokesReported ==
    pc = "update" /\ stroke # <<>> =>
        /\ press.down = down
        /\ press.start = stroke[1] /\ press.at = stroke[2]

(***************************************************************************)
(* The map command L1+R1 reaches the engine only when the player holds L   *)
(* and R, and never together with the companion chord (main.c:233).        *)
(***************************************************************************)
MapOnlyByPlayer ==
    {"L1", "R1"} \subseteq held /\ pc = "update" =>
        {"L", "R"} \subseteq pad /\ "X" \notin pad

(***************************************************************************)
(* A request to quit, by the system or by the engine at any point of a     *)
(* frame, leads through the engine's shutdown to the exit.                 *)
(***************************************************************************)
QuitEnds == (jni_quit_requested \/ ~applet) ~> pc = "exited"

=============================================================================
