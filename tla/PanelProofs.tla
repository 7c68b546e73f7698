----------------------------- MODULE PanelProofs -----------------------------
(***************************************************************************)
(* That the host's lights stay as the host set them, for every length of   *)
(* the countdown, wiring and choice of maps.                               *)
(***************************************************************************)
EXTENDS Panel, TLAPS

(* Between the test of the countdown and its decrement the interrupt may   *)
(* set it to zero, and the decrement then wraps it: the lights must be the *)
(* host's then although the countdown is at zero.                          *)
CountingInv == pc = "l_dec" => latch = hostLights

IInv == TypeOK /\ HostLightsKept /\ CountingInv

(* Every entry of a map in program memory is an input or NC.               *)
LEMMA TableLemma ==
    \A m \in DOMAIN Table : Table[m] \in [Buttons -> Inputs \cup {NC}]
<1> USE DEF InputMap, Buttons, Inputs, SELECT, START, DPAD_UP, DPAD_RIGHT, DPAD_DOWN,
            DPAD_LEFT, L1, L2, R1, R2, TRIANGLE, CIRCLE, CROSS, SQUARE, NC
<1>1. INPUT_IIDX \in [Buttons -> Inputs \cup {NC}]
  BY DEF INPUT_IIDX
<1>2. INPUT_IIDXUS \in [Buttons -> Inputs \cup {NC}]
  BY DEF INPUT_IIDXUS
<1>3. INPUT_IIDXJP \in [Buttons -> Inputs \cup {NC}]
  BY DEF INPUT_IIDXJP
<1>4. INPUT_POPN \in [Buttons -> Inputs \cup {NC}]
  BY DEF INPUT_POPN
<1>5. INPUT_DDR \in [Buttons -> Inputs \cup {NC}]
  BY DEF INPUT_DDR
<1>6. INPUT_GFDM \in [Buttons -> Inputs \cup {NC}]
  BY DEF INPUT_GFDM
<1>7. INPUT_DIRECT \in [Buttons -> Inputs \cup {NC}]
  BY DEF INPUT_DIRECT
<1> QED
  BY <1>1, <1>2, <1>3, <1>4, <1>5, <1>6, <1>7 DEF Table

(* The map that is loaded is a map whatever the host chose.                *)
LEMMA LoadMapLemma == TypeOK => LoadMap \in [Buttons -> Inputs \cup {NC}]
BY TableLemma DEF TypeOK, LoadMap

\* Where the handler of a report may return to.
Returns == {"in", "control", "load"}

LEMMA HeldLemma == Held \subseteq Inputs
BY DEF Held, Inputs, DPAD_DOWN, DPAD_LEFT, DPAD_RIGHT

LEMMA SpunLemma ==
    /\ \A d \in {-1, 0, 1} : Spun(d, DPAD_UP, DPAD_DOWN) \subseteq Inputs
    /\ \A d \in {-1, 0, 1} : Spun(d, DPAD_RIGHT, DPAD_LEFT) \subseteq Inputs
BY DEF Spun, Inputs, DPAD_UP, DPAD_DOWN, DPAD_LEFT, DPAD_RIGHT

LEMMA InitIInv == Init => IInv
<1> SUFFICES ASSUME Init PROVE IInv
  OBVIOUS
<1>1. CustomMap \in [Buttons -> Inputs \cup {NC}]
  BY DEF Init
<1>2. PS2_INPUTMAP \in [Buttons -> Inputs \cup {NC}]
  BY <1>1, TableLemma DEF Init
<1>3. WordSize \in Nat /\ WordSize >= 4
  BY CountdownAssumption
<1>4. turning \in [{0, 1} -> {-1, 0, 1}] /\ ButtonMap \in Maps
  BY PanelAssumption DEF Init
<1>5. PS2Assert \in 0 .. WordSize - 1 /\ LightsAssert \in 0 .. WordSize - 1
  BY <1>3 DEF Init
<1>6. /\ pressed = {} /\ port = Buttons /\ latch = {} /\ PS2_Data = {}
      /\ output = FALSE /\ led = FALSE
      /\ pc = "out" /\ back = "in" /\ buf = {} /\ r0 = 0 /\ lights = {} /\ hostLights = {}
  BY DEF Init
<1>7. TypeOK
  BY <1>1, <1>2, <1>4, <1>5, <1>6 DEF TypeOK
<1> QED
  BY <1>7 DEF Init, IInv, HostLightsKept, CountingInv

(* Each step keeps the ranges, and what it does to the lights follows.      *)
LEMMA TypeStep == TypeOK /\ [Next]_vars => TypeOK'
<1> SUFFICES ASSUME TypeOK, [Next]_vars PROVE TypeOK'
  OBVIOUS
<1> USE DEF player, maps, timers, pins, locals
<1>1. /\ WordSize \in Nat /\ WordSize >= 4
      /\ 0 \in 0 .. WordSize - 1 /\ Reload \in 0 .. WordSize - 1
  BY CountdownAssumption
<1>2. CASE Press
  BY <1>2, PanelAssumption DEF Press, TypeOK
<1>3. CASE Turn
  BY <1>3, PanelAssumption DEF Turn, TypeOK
<1>4. CASE SPI_ISR
  BY <1>1, <1>4 DEF SPI_ISR, TypeOK
<1>5. ASSUME NEW label, NEW ret \in Returns, Receive(label, ret)
      PROVE  TypeOK'
  <2>1. /\ ButtonMap' \in Maps
        /\ CustomMap' \in [Buttons -> Inputs \cup {NC}]
        /\ PS2_INPUTMAP' \in [Buttons -> Inputs \cup {NC}]
        /\ output' \in BOOLEAN /\ port' \subseteq Buttons
        /\ latch' \subseteq Buttons /\ led' \in BOOLEAN
    <3>1. CASE UNCHANGED <<maps, pins>>
      BY <3>1 DEF TypeOK
    <3>2. CASE ButtonMap' \in HostMaps /\ UNCHANGED <<CustomMap, PS2_INPUTMAP, pins>>
      BY <3>2, PanelAssumption DEF TypeOK
    <3>3. CASE /\ \E poke \in CustomPokes : CustomMap' = [CustomMap EXCEPT ![poke[1]] = poke[2]]
               /\ UNCHANGED <<ButtonMap, PS2_INPUTMAP, pins>>
      BY <3>3, PanelAssumption DEF TypeOK
    <3>4. CASE /\ PS2_INPUTMAP' = LoadMap
               /\ output' = FALSE /\ port' = port \cup Buttons
               /\ UNCHANGED <<ButtonMap, CustomMap, latch, led>>
      BY <3>4, LoadMapLemma DEF TypeOK
    <3> QED
      BY <1>5, <3>1, <3>2, <3>3, <3>4 DEF Receive, Command
  <2> QED
    BY <1>5, <2>1, PanelAssumption DEF Receive, Returns, TypeOK
<1>6. CASE CheckPS2
  BY <1>6 DEF CheckPS2, Return, TypeOK
<1>7. CASE SetLights
  BY <1>1, <1>7 DEF SetLights, Return, Lights_SetState, High, TypeOK
<1>8. ASSUME NEW label, NEW ret \in Returns, Create(label, ret)
      PROVE  TypeOK'
  <2>1. PS2Assert' \in 0 .. WordSize - 1
    BY <1>1, <1>8 DEF Create, TypeOK
  <2> QED
    BY <1>8, <2>1 DEF Create, Button_GetState, High, Returns, TypeOK
<1>9. CASE CheckLights
  BY <1>9 DEF CheckLights, Return, Lights_SetState, High, TypeOK
<1>10. CASE CountLights
  <2>1. LightsAssert' \in 0 .. WordSize - 1
    BY <1>1, <1>10 DEF CountLights, TypeOK
  <2> QED
    BY <1>10, <2>1 DEF CountLights, Return, TypeOK
<1>11. ASSUME NEW label, NEW ret \in {"out", "in", "control", "load"}, Skip(label, ret)
       PROVE  TypeOK'
  BY <1>11 DEF Skip, TypeOK
<1>12. CASE LoadRead
  <2>1. turning[0] \in {-1, 0, 1}
    BY DEF TypeOK
  <2> QED
    BY <1>12, <2>1 DEF LoadRead, Button_GetState, High, TypeOK
<1>13. CASE LoadStore
  <2>1. r0 \in {-1, 0, 1} /\ turning[1] \in {-1, 0, 1}
    BY DEF TypeOK
  <2>2. PS2_Data' \subseteq Inputs
    BY <1>13, <2>1, HeldLemma, SpunLemma DEF LoadStore
  <2> QED
    BY <1>13, <2>2 DEF LoadStore, Return, TypeOK
<1>14. CASE UNCHANGED vars
  BY <1>14 DEF vars, TypeOK
<1>15. CASE Main
  <2>1. Output => TypeOK'
    BY <1>5 DEF Output, Returns
  <2>2. Input => TypeOK'
    BY <1>8 DEF Input, Returns
  <2>3. Idle => TypeOK'
    BY <1>11 DEF Idle
  <2> QED
    BY <1>6, <1>7, <1>9, <1>10, <1>12, <1>13, <1>15, <2>1, <2>2, <2>3 DEF Main, Handle
<1> QED
  BY <1>2, <1>3, <1>4, <1>14, <1>15 DEF Next

(* No step disturbs the host's lights while the countdown runs.            *)
LEMMA LightsStep ==
    TypeOK /\ HostLightsKept /\ CountingInv /\ [Next]_vars => HostLightsKept' /\ CountingInv'
<1> SUFFICES ASSUME TypeOK, HostLightsKept, CountingInv, [Next]_vars
             PROVE  HostLightsKept' /\ CountingInv'
  OBVIOUS
<1> USE DEF player, maps, timers, pins, locals, HostLightsKept, CountingInv
<1>1. CASE Press \/ Turn \/ UNCHANGED vars
  BY <1>1 DEF Press, Turn, vars
<1>2. CASE SPI_ISR
  BY <1>2 DEF SPI_ISR
<1>3. CASE Output
  BY <1>3 DEF Output, Receive, Command
<1>4. CASE CheckPS2
  BY <1>4 DEF CheckPS2, Return, TypeOK
<1>5. CASE SetLights
  BY <1>5 DEF SetLights, Return, Lights_SetState, High, TypeOK
<1>6. CASE Input
  BY <1>6 DEF Input, Create, Button_GetState
<1>7. CASE CheckLights
  BY <1>7 DEF CheckLights, Return, Lights_SetState, TypeOK
<1>8. CASE CountLights
  BY <1>8 DEF CountLights, Return, TypeOK
<1>9. CASE Idle
  BY <1>9 DEF Idle, Skip
<1>10. CASE LoadRead
  BY <1>10 DEF LoadRead, Button_GetState
<1>11. CASE LoadStore
  BY <1>11 DEF LoadStore, Return
<1> QED
  BY <1>1, <1>2, <1>3, <1>4, <1>5, <1>6, <1>7, <1>8, <1>9, <1>10, <1>11
     DEF Next, Main, Handle

(* IInv holds in every reachable state.                                    *)
THEOREM Invariance == Spec => []IInv
<1>1. IInv /\ [Next]_vars => IInv'
  BY TypeStep, LightsStep DEF IInv
<1> QED
  BY <1>1, InitIInv, PTL DEF Spec

(* Maps, countdowns and the pad's inputs keep their ranges, whatever maps  *)
(* the host chooses and pokes.                                             *)
THEOREM TypeCorrect == Spec => []TypeOK
<1>1. IInv => TypeOK
  BY DEF IInv
<1> QED
  BY <1>1, Invariance, PTL

(* While the countdown of the lights runs, what is lit is what the host    *)
(* last sent (USBemani.c:209-214, 242-246), for every length and width of  *)
(* the countdown and every wiring of the buttons.                          *)
THEOREM LightsAreTheHosts == Spec => []HostLightsKept
<1>1. IInv => HostLightsKept
  BY DEF IInv
<1> QED
  BY <1>1, Invariance, PTL
-----------------------------------------------------------------------------
(* The steps behind PadFollows and LightsFollow: what the pad and the      *)
(* lights show stays right once it is, and each pass of the main loop      *)
(* makes it right.                                                         *)

\* What PS2_LoadData has read so far is what the player does.
Fresh == pc = "store" => buf = pressed /\ r0 = turning[0]

(* While the player holds still and the map stays, whatever was read stays *)
(* up to date, every store of PS2_Data shows the player's inputs, and      *)
(* nothing else that the main loop or the interrupt does spoils them.      *)
PadStaysRight ==
    [][Fresh /\ Still => /\ Fresh'
                         /\ PadShows => PadShows'
                         /\ LoadStore => PadShows']_vars

\* Nobody drives the lights but the input reports, and what the present one
\* has read is what the player presses.
Released ==
    /\ LightsAssert = 0
    /\ pc \notin {"p_check", "p_set", "l_dec"}
    /\ pc = "l_check" => buf = pressed

Calm == ~Output /\ ~SPI_ISR /\ UNCHANGED pressed

(* While host and console are silent and the player holds still, the       *)
(* lights that were released stay so, each input report shows the buttons  *)
(* on them, and nothing else changes them.                                 *)
LightsStayRight ==
    [][Released /\ Calm => /\ Released'
                           /\ latch = pressed => (latch = pressed)'
                           /\ CheckLights => (latch = pressed)']_vars

(* Reading the pins gives exactly the buttons that are down, whatever the  *)
(* lights left in the pins' registers (Button.c:29-41).                    *)
LEMMA ReadLemma ==
    ASSUME TypeOK, Button_GetState
    PROVE  buf' = pressed /\ UNCHANGED latch
BY DEF Button_GetState, High, TypeOK

(* What a direction presses.                                               *)
LEMMA SpunIs ==
    ASSUME NEW d \in {-1, 0, 1}, NEW forward, NEW backward, NEW i
    PROVE  i \in Spun(d, forward, backward)
             <=> d # 0 /\ i = IF d = 1 THEN forward ELSE backward
BY DEF Spun

(* A store after a fresh scan shows what the player does.                  *)
LEMMA StoreShows ==
    ASSUME TypeOK, Fresh, Still, LoadStore
    PROVE  PadShows'
<1>1. /\ buf = pressed /\ r0 = turning[0]
      /\ r0 \in {-1, 0, 1} /\ turning[1] \in {-1, 0, 1}
  BY DEF LoadStore, Fresh, TypeOK
<1>2. UNCHANGED <<pressed, turning, PS2_INPUTMAP>> /\ Held' = Held
  BY DEF Still, Held
<1>3. ASSUME NEW i \in Inputs
      PROVE  i \in PS2_Data' <=>
                 \/ \E b \in pressed : PS2_INPUTMAP[b] = i
                 \/ turning[0] # 0 /\ i = IF turning[0] = 1 THEN DPAD_UP ELSE DPAD_DOWN
                 \/ turning[1] # 0 /\ i = IF turning[1] = 1 THEN DPAD_RIGHT ELSE DPAD_LEFT
                 \/ i \in Held
  <2>1. PS2_Data' = ({PS2_INPUTMAP[b] : b \in pressed} \cap Inputs)
                    \cup Spun(turning[0], DPAD_UP, DPAD_DOWN)
                    \cup Spun(turning[1], DPAD_RIGHT, DPAD_LEFT)
                    \cup Held
    BY <1>1 DEF LoadStore
  <2>2. /\ i \in Spun(turning[0], DPAD_UP, DPAD_DOWN)
             <=> turning[0] # 0 /\ i = IF turning[0] = 1 THEN DPAD_UP ELSE DPAD_DOWN
        /\ i \in Spun(turning[1], DPAD_RIGHT, DPAD_LEFT)
             <=> turning[1] # 0 /\ i = IF turning[1] = 1 THEN DPAD_RIGHT ELSE DPAD_LEFT
    BY <1>1, SpunIs
  <2>3. i \in {PS2_INPUTMAP[b] : b \in pressed} <=> \E b \in pressed : PS2_INPUTMAP[b] = i
    OBVIOUS
  <2> QED
    BY <1>3, <2>1, <2>2, <2>3, Zenon
<1> QED
  BY <1>2, <1>3 DEF PadShows

(* What PadStaysRight says of a step.                                      *)
LEMMA PadStep ==
    ASSUME TypeOK, [Next]_vars, Fresh, Still
    PROVE  /\ Fresh'
           /\ PadShows => PadShows'
           /\ LoadStore => PadShows'
<1>1. ASSUME UNCHANGED PS2_Data
      PROVE  PadShows => PadShows'
  BY <1>1 DEF PadShows, Still, Held
<1>2. ASSUME UNCHANGED PS2_Data, ~LoadStore, pc' # "store" \/ UNCHANGED <<pc, buf, r0>>
      PROVE  /\ Fresh'
             /\ PadShows => PadShows'
             /\ LoadStore => PadShows'
  BY <1>1, <1>2 DEF Fresh, Still
<1>3. CASE LoadStore
  BY <1>3, StoreShows DEF LoadStore, Return, Fresh
<1>4. CASE LoadRead
  <2>1. buf' = pressed /\ r0' = turning[0] /\ pc = "load" /\ UNCHANGED PS2_Data
    BY <1>4, ReadLemma DEF LoadRead
  <2> QED
    BY <1>1, <2>1 DEF Fresh, Still, LoadStore
<1>5. CASE Press \/ Turn \/ SPI_ISR \/ UNCHANGED vars
  <2>1. UNCHANGED <<PS2_Data, pc, buf, r0>>
    BY <1>5 DEF Press, Turn, SPI_ISR, vars, locals
  <2> QED
    BY <1>2, <1>3, <2>1
<1>6. CASE Output \/ Input \/ Handle \/ Idle
  <2>1. UNCHANGED PS2_Data /\ pc' # "store"
    BY <1>6 DEF Output, Receive, Input, Create, Handle, CheckPS2, SetLights, CheckLights,
                CountLights, Return, Idle, Skip, TypeOK
  <2> QED
    BY <1>2, <1>3, <2>1
<1> QED
  BY <1>3, <1>4, <1>5, <1>6 DEF Next, Main

(* The pad goes on telling the console what the player does (PS2.c,        *)
(* PS2_LoadData), for every map, wiring and countdown: the safety that     *)
(* PadFollows rests on.                                                    *)
THEOREM PadKeepsFollowing == Spec => PadStaysRight
<1>1. TypeOK /\ [Next]_vars =>
        [Fresh /\ Still => /\ Fresh'
                           /\ PadShows => PadShows'
                           /\ LoadStore => PadShows']_vars
  BY PadStep
<1> QED
  BY <1>1, TypeCorrect, PTL DEF Spec, PadStaysRight

(* What LightsStayRight says of a step.                                    *)
LEMMA LightsKept ==
    ASSUME TypeOK, [Next]_vars, Released, Calm
    PROVE  /\ Released'
           /\ latch = pressed => (latch = pressed)'
           /\ CheckLights => (latch = pressed)'
<1> USE DEF Released
<1>1. UNCHANGED pressed /\ ~Output /\ ~SPI_ISR
  BY DEF Calm
<1>2. CASE CheckLights
  <2>1. pc' \in {"in", "control", "load"} /\ LightsAssert' = 0 /\ latch' = pressed
    BY <1>2 DEF CheckLights, Return, Lights_SetState, High, timers, TypeOK
  <2> QED
    BY <1>1, <2>1
<1>3. ASSUME ~CheckLights, UNCHANGED <<LightsAssert, latch>>,
             \/ UNCHANGED <<pc, buf>>
             \/ pc' \in {"out", "in", "control", "load", "store"}
             \/ pc' = "l_check" /\ buf' = pressed
      PROVE  /\ Released'
             /\ latch = pressed => (latch = pressed)'
             /\ CheckLights => (latch = pressed)'
  BY <1>1, <1>3
<1>4. CASE Press \/ Turn \/ UNCHANGED vars
  <2>1. UNCHANGED <<LightsAssert, latch, pc, buf>>
    BY <1>4 DEF Press, Turn, vars, timers, pins, locals
  <2> QED
    BY <1>2, <1>3, <2>1
<1>5. CASE Input
  <2>1. UNCHANGED <<LightsAssert, latch>> /\ pc' = "l_check" /\ buf' = pressed
    BY <1>5, ReadLemma DEF Input, Create
  <2> QED
    BY <1>2, <1>3, <2>1
<1>6. CASE Idle
  <2>1. UNCHANGED <<LightsAssert, latch>> /\ pc' \in {"out", "in", "control", "load", "store"}
    BY <1>6 DEF Idle, Skip, timers, pins
  <2> QED
    BY <1>2, <1>3, <2>1
<1>7. CASE LoadRead \/ LoadStore
  <2>1. UNCHANGED <<LightsAssert, latch>> /\ pc' \in {"out", "in", "control", "load", "store"}
    BY <1>7 DEF LoadRead, LoadStore, Return, Button_GetState, timers, pins
  <2> QED
    BY <1>2, <1>3, <2>1
<1>8. ~CheckPS2 /\ ~SetLights /\ ~CountLights
  BY DEF CheckPS2, SetLights, CountLights
<1> QED
  BY <1>1, <1>2, <1>4, <1>5, <1>6, <1>7, <1>8 DEF Next, Main, Handle

(* Once released, the lights show the buttons from one input report to the *)
(* next (USBemani.c:242-245), whatever PS2_LoadData reads through the same *)
(* pins in between: the safety that LightsFollow rests on.                 *)
THEOREM LightsKeepFollowing == Spec => LightsStayRight
<1>1. TypeOK /\ [Next]_vars =>
        [Released /\ Calm => /\ Released'
                             /\ latch = pressed => (latch = pressed)'
                             /\ CheckLights => (latch = pressed)']_vars
  BY LightsKept
<1> QED
  BY <1>1, TypeCorrect, PTL DEF Spec, LightsStayRight
=============================================================================
