------------------------------- MODULE Panel --------------------------------
(***************************************************************************)
(* The front panel: the buttons (Button.c) and lights (Lights.c) that      *)
(* share twelve pins, the main loop that serves the host's reports         *)
(* (HID_Task and the control requests) and then refreshes what the pad     *)
(* tells the console (PS2_LoadData), and the button map that PS2_Init      *)
(* loads and PS2_LoadData looks at again.                                  *)
(*                                                                         *)
(* The player presses buttons and turns encoders at any time; the SPI      *)
(* interrupt sets and clears the two countdowns at any time.  A countdown  *)
(* is tested, set and counted down in one access each here; the accesses   *)
(* to its two bytes are in AssertTimers.  Sets of buttons and of pad       *)
(* inputs stand for the bits of the words in the code.                     *)
(***************************************************************************)
EXTENDS Integers

CONSTANTS
    WordSize,   \* the number of values of a countdown (65536)
    Reload,     \* what a countdown starts from (1000)
    Used,       \* the buttons that are wired
    Spins,      \* what Rotary_GetDirection may return for the two encoders
    HostMaps,   \* the button maps the host may choose
    CustomPokes \* the <<button, input>> pairs it writes to the custom map

Buttons == 0..11

SELECT == 0
START == 3
DPAD_UP == 4
DPAD_RIGHT == 5
DPAD_DOWN == 6
DPAD_LEFT == 7
L2 == 8
R2 == 9
L1 == 10
R1 == 11
TRIANGLE == 12
CIRCLE == 13
CROSS == 14
SQUARE == 15
NC == 16
Inputs == 0..15

\* The maps in program memory: the inputs of the twelve buttons in turn.
InputMap(row) == [b \in Buttons |-> row[b + 1]]

INPUT_IIDX   == InputMap(<<SQUARE, L1, CROSS, R1, CIRCLE, L2,
                           DPAD_LEFT, SELECT, START, NC, NC, NC>>)
INPUT_IIDXUS == InputMap(<<L2, L1, DPAD_LEFT, SELECT, START, SQUARE,
                           CROSS, CIRCLE, R1, NC, NC, NC>>)
INPUT_IIDXJP == InputMap(<<L1, SELECT, START, SQUARE, CIRCLE, R1,
                           CROSS, L2, DPAD_LEFT, NC, NC, NC>>)
INPUT_POPN   == InputMap(<<TRIANGLE, CIRCLE, R1, CROSS, L1, SQUARE,
                           R2, DPAD_UP, L2, SELECT, START, NC>>)
INPUT_DDR    == InputMap(<<DPAD_UP, DPAD_RIGHT, DPAD_DOWN, DPAD_LEFT, CROSS, CIRCLE,
                           SELECT, START, NC, NC, NC, NC>>)
INPUT_GFDM   == InputMap(<<R2, CIRCLE, TRIANGLE, SELECT, START, DPAD_UP,
                           L2, NC, NC, NC, NC, NC>>)
INPUT_DIRECT == InputMap(<<SELECT, START, DPAD_UP, DPAD_RIGHT, DPAD_DOWN, DPAD_LEFT,
                           L2, R2, L1, R1, TRIANGLE, CIRCLE>>)

Table == [B_IIDX |-> INPUT_IIDX,
          B_IIDXUS |-> INPUT_IIDXUS,
          B_IIDXJP |-> INPUT_IIDXJP,
          B_POPN |-> INPUT_POPN,
          B_DDR |-> INPUT_DDR,
          B_GFDM |-> INPUT_GFDM,
          B_Direct |-> INPUT_DIRECT]

Maps == DOMAIN Table \cup {"B_Custom", "unknown"}

ASSUME CountdownAssumption ==
    /\ WordSize \in Nat
    /\ Reload \in Nat
    /\ 3 <= Reload /\ Reload < WordSize
ASSUME PanelAssumption ==
    /\ Used \subseteq Buttons
    /\ Spins \subseteq [{0, 1} -> {-1, 0, 1}]
    /\ HostMaps \subseteq Maps
    /\ CustomPokes \subseteq Buttons \X (Inputs \cup {NC})

VARIABLES
    pressed,        \* the buttons held down
    turning,        \* the directions of the encoders
    ButtonMap,      \* Settings.Button.ButtonMap
    CustomMap,      \* Settings.Button.CustomMap
    PS2_INPUTMAP,   \* the map PS2_Init loaded
    PS2Assert,      \* Settings.Device.PS2Assert
    LightsAssert,   \* Settings.Lights.LightsAssert
    output,         \* the pins are outputs (DDR), and not inputs with pull-ups
    port,           \* the pins' port register, as the set of its ones
    latch,          \* the lights that are on
    led,            \* the LED of the board
    PS2_Data,       \* the inputs the pad reports as pressed
    pc,             \* where the main loop is
    back,           \* where it returns to from a report's handler
    buf,            \* the buttons a handler or PS2_LoadData has read
    r0,             \* encoder 0's direction as PS2_LoadData read it
    lights,         \* the lights of the output report being processed
    hostLights      \* the lights the host was last given (history)

player == <<pressed, turning>>
maps   == <<ButtonMap, CustomMap, PS2_INPUTMAP>>
timers == <<PS2Assert, LightsAssert>>
pins   == <<output, port, latch, led>>
locals == <<back, buf, r0, lights>>
vars   == <<pressed, turning, ButtonMap, CustomMap, PS2_INPUTMAP, PS2Assert, LightsAssert,
            output, port, latch, led, PS2_Data, pc, back, buf, r0, lights, hostLights>>
-----------------------------------------------------------------------------
(* The pins.  A pressed button pulls its pin low through a resistor, which *)
(* only matters while the pin is an input with its pull-up on.             *)
High(out, p) == IF out THEN p ELSE p \ pressed

\* Fault: the pins are read as outputs.
Button_GetStateDriven ==
    /\ output' = output
    /\ port' = Buttons
    /\ buf' = Buttons \ High(output, Buttons)
    /\ UNCHANGED latch

\* The pins become inputs and are read; they are not made outputs again.
Button_GetState ==
    /\ output' = FALSE
    /\ port' = Buttons
    /\ buf' = Buttons \ High(FALSE, Buttons)
    /\ UNCHANGED latch

\* The pins become outputs, and a pulse stores them in the latch.
Lights_SetState(data) ==
    /\ led' = (data # {})
    /\ output' = TRUE
    /\ port' = data
    /\ latch' = High(TRUE, data)

\* The map PS2_Init loads: a number that is no map's leaves the old one.
LoadMap ==
    IF ButtonMap \in DOMAIN Table THEN Table[ButtonMap]
    ELSE IF ButtonMap = "B_Custom" THEN CustomMap
    ELSE PS2_INPUTMAP

\* The inputs that are always held, for the live map.
Held ==
    CASE ButtonMap = "B_POPN" -> {DPAD_DOWN, DPAD_LEFT, DPAD_RIGHT}
      [] ButtonMap = "B_GFDM" -> {DPAD_LEFT, DPAD_RIGHT}
      [] OTHER -> {}

\* The inputs a direction presses.
Spun(direction, forward, backward) ==
    CASE direction = 0 -> {} [] direction = 1 -> {forward} [] OTHER -> {backward}
-----------------------------------------------------------------------------
Init ==
    /\ pressed = {}
    /\ turning \in Spins
    /\ ButtonMap \in HostMaps
    /\ CustomMap = [b \in Buttons |-> NC]
    /\ PS2_INPUTMAP = IF ButtonMap \in DOMAIN Table THEN Table[ButtonMap] ELSE CustomMap
    /\ PS2Assert = 0 /\ LightsAssert = 0
    /\ output = FALSE /\ port = Buttons
    /\ latch = {} /\ led = FALSE
    /\ PS2_Data = {}
    /\ pc = "out" /\ back = "in" /\ buf = {} /\ r0 = 0 /\ lights = {}
    /\ hostLights = {}

(* The player and the console. *)
Press ==
    /\ pressed' \in SUBSET Used
    /\ UNCHANGED <<turning, maps, timers, pins, PS2_Data, pc, locals, hostLights>>

Turn ==
    /\ turning' \in Spins
    /\ UNCHANGED <<pressed, maps, timers, pins, PS2_Data, pc, locals, hostLights>>

SPI_ISR ==
    /\ PS2Assert' = Reload
    /\ LightsAssert' = 0
    /\ UNCHANGED <<player, maps, pins, PS2_Data, pc, locals, hostLights>>

(* An output report: its command, and the lights that come with it. *)
Command ==
    \/ UNCHANGED <<maps, pins>>
    \/ ButtonMap' \in HostMaps /\ UNCHANGED <<CustomMap, PS2_INPUTMAP, pins>>
    \/ /\ \E poke \in CustomPokes : CustomMap' = [CustomMap EXCEPT ![poke[1]] = poke[2]]
       /\ UNCHANGED <<ButtonMap, PS2_INPUTMAP, pins>>
    \/ /\ PS2_INPUTMAP' = LoadMap
       /\ output' = FALSE /\ port' = port \cup Buttons
       /\ UNCHANGED <<ButtonMap, CustomMap, latch, led>>

Receive(label, ret) ==
    /\ pc = label
    /\ Command
    /\ lights' \in SUBSET Used
    /\ pc' = "p_check" /\ back' = ret
    /\ UNCHANGED <<player, timers, PS2_Data, buf, r0, hostLights>>

\* A handler returns: its locals are gone.
Return(to) == pc' = to /\ back' = "in" /\ buf' = {} /\ r0' = 0 /\ lights' = {}

\* if (Device->PS2Assert == 0)
CheckPS2 ==
    /\ pc = "p_check"
    /\ IF PS2Assert = 0 THEN pc' = "p_set" /\ UNCHANGED locals ELSE Return(back)
    /\ UNCHANGED <<player, maps, timers, pins, PS2_Data, hostLights>>

SetLights ==
    /\ pc = "p_set"
    /\ LightsAssert' = Reload
    /\ Lights_SetState(lights)
    /\ hostLights' = lights
    /\ Return(back)
    /\ UNCHANGED <<player, maps, PS2Assert, PS2_Data>>

(* An input report. *)
Create(label, ret) ==
    /\ pc = label
    /\ PS2Assert' = IF PS2Assert # 0 THEN PS2Assert - 1 ELSE 0
    /\ Button_GetState
    /\ pc' = "l_check" /\ back' = ret
    /\ UNCHANGED <<player, maps, LightsAssert, led, PS2_Data, r0, lights, hostLights>>

\* Fault: the lights follow the buttons whoever drives them.
CheckLightsNot ==
    /\ pc = "l_check"
    /\ Lights_SetState(buf)
    /\ Return(back)
    /\ UNCHANGED <<player, maps, timers, PS2_Data, hostLights>>

\* Fault: nobody takes the lights over when the countdown is at zero.
CheckLightsOnly ==
    /\ pc = "l_check"
    /\ IF LightsAssert # 0 THEN pc' = "l_dec" /\ UNCHANGED locals ELSE Return(back)
    /\ UNCHANGED <<player, maps, timers, pins, PS2_Data, hostLights>>

CheckLights ==
    /\ pc = "l_check"
    /\ IF LightsAssert # 0
       THEN pc' = "l_dec" /\ UNCHANGED <<pins, locals>>
       ELSE Return(back) /\ Lights_SetState(buf)
    /\ UNCHANGED <<player, maps, timers, PS2_Data, hostLights>>

CountLights ==
    /\ pc = "l_dec"
    /\ LightsAssert' = (LightsAssert - 1) % WordSize
    /\ Return(back)
    /\ UNCHANGED <<player, maps, PS2Assert, pins, PS2_Data, hostLights>>

\* A part of the main loop with nothing to do.
Skip(label, ret) ==
    /\ pc = label
    /\ pc' = ret
    /\ UNCHANGED <<player, maps, timers, pins, PS2_Data, locals, hostLights>>

(* PS2_LoadData. *)
LoadRead ==
    /\ pc = "load"
    /\ PS2Assert # 0
    /\ Button_GetState
    /\ led' = TRUE
    /\ r0' = turning[0]
    /\ pc' = "store"
    /\ UNCHANGED <<player, maps, timers, PS2_Data, back, lights, hostLights>>

LoadStore ==
    /\ pc = "store"
    /\ PS2_Data' = ({PS2_INPUTMAP[b] : b \in buf} \cap Inputs)
                   \cup Spun(r0, DPAD_UP, DPAD_DOWN)
                   \cup Spun(turning[1], DPAD_RIGHT, DPAD_LEFT)
                   \cup Held
    /\ Return("out")
    /\ UNCHANGED <<player, maps, timers, pins, hostLights>>

(* HID_Task's two endpoints, then a control request, then PS2_LoadData. *)
Output  == Receive("out", "in") \/ Receive("control", "load")
Handle  == CheckPS2 \/ SetLights \/ CheckLights \/ CountLights
Input   == Create("in", "control") \/ Create("control", "load")
Idle    == Skip("out", "in") \/ Skip("in", "control") \/ Skip("control", "load")
           \/ (PS2Assert = 0 /\ Skip("load", "out"))
Main    == Output \/ Input \/ Handle \/ Idle \/ LoadRead \/ LoadStore

Next == Press \/ Turn \/ SPI_ISR \/ Main

Spec == Init /\ [][Next]_vars

\* The main loop never waits for anything.
FairSpec == Spec /\ WF_vars(Main)
-----------------------------------------------------------------------------
(* Properties *)

(* Buttons, inputs and countdowns keep their ranges, the code its places.   *)
TypeOK ==
    /\ pressed \subseteq Buttons
    /\ turning \in [{0, 1} -> {-1, 0, 1}]
    /\ ButtonMap \in Maps
    /\ CustomMap \in [Buttons -> Inputs \cup {NC}]
    /\ PS2_INPUTMAP \in [Buttons -> Inputs \cup {NC}]
    /\ PS2Assert \in 0 .. WordSize - 1
    /\ LightsAssert \in 0 .. WordSize - 1
    /\ output \in BOOLEAN /\ port \subseteq Buttons
    /\ latch \subseteq Buttons /\ led \in BOOLEAN
    /\ PS2_Data \subseteq Inputs
    /\ pc \in {"out", "in", "control", "load", "store", "p_check", "p_set", "l_check", "l_dec"}
    /\ back \in {"in", "control", "load"}
    /\ buf \subseteq Buttons /\ r0 \in {-1, 0, 1}
    /\ lights \subseteq Buttons /\ hostLights \subseteq Buttons

(* While the countdown of the lights runs, what is lit is what the host    *)
(* last sent: no input report, and no reading of the buttons through the   *)
(* same pins, disturbs it, even when the console polls in between.         *)
HostLightsKept == LightsAssert # 0 => latch = hostLights

\* Every input is reported exactly when something presses it.
PadShows ==
    \A i \in Inputs :
        i \in PS2_Data <=>
            \/ \E b \in pressed : PS2_INPUTMAP[b] = i
            \/ turning[0] # 0 /\ i = IF turning[0] = 1 THEN DPAD_UP ELSE DPAD_DOWN
            \/ turning[1] # 0 /\ i = IF turning[1] = 1 THEN DPAD_RIGHT ELSE DPAD_LEFT
            \/ i \in Held

\* What the player does and the map in use stay as they are.
Still == UNCHANGED <<pressed, turning, ButtonMap, PS2_INPUTMAP>>

(* The pad tells the console what the player does: once the player holds   *)
(* still, and as long as the console keeps the PS2 active, every input is  *)
(* reported exactly when a button mapped to it is pressed, an encoder      *)
(* turns its way, or the map holds it.  The lights that share the pins     *)
(* with the buttons do not show in it, and the reports to the host, each   *)
(* of which counts PS2Assert down, do not keep it from being refreshed.    *)
PadFollows ==
    <>[][Still]_vars /\ []<>(PS2Assert # 0) => <>[]PadShows

(* Once the host sends no more output reports and the console is silent,   *)
(* and as long as the host asks for input reports, the lights come to show *)
(* the buttons: no countdown is left running, not even one that wrapped.   *)
LightsFollow ==
    <>[][~Output /\ ~SPI_ISR /\ UNCHANGED pressed]_vars /\ []<>(pc = "l_check") =>
        <>[](latch = pressed)
=============================================================================
