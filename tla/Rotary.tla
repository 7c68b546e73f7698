------------------------------- MODULE Rotary -------------------------------
(***************************************************************************)
(* The rotary encoders of the controller (Rotary.c): a shaft turned by the *)
(* player, the quadrature decoder sampled by the timer interrupt, and the  *)
(* main loop that changes the rotary settings a byte at a time and loads   *)
(* them again with SetupHardware.                                          *)
(*                                                                         *)
(* The shaft is the environment.  phase is its place in the four quarter   *)
(* steps of a Gray cycle, and moved the net number of quarter steps since  *)
(* the interrupt last sampled the pins, at most MaxSkip either way.        *)
(*                                                                         *)
(* Words and bytes have ByteSize values per byte (256 on the AVR), so that *)
(* a model with a small ByteSize wraps and truncates where the code does.  *)
(* The pins of an encoder are those AttachEncoder gave it at boot; the     *)
(* model starts when the first SetupHardware has returned, which it does   *)
(* well within the 3968 clock cycles before the timer's first match.       *)
(***************************************************************************)
EXTENDS Integers

CONSTANTS
    ByteSize,       \* the number of values of a byte
    NumEncoders,    \* MAX_NUMBER_OF_ENCODERS
    MaxSkip,        \* bound: quarter steps between two samples
    StartPPR,       \* the tooth counts the program may boot with
    StartHold,      \* the hold times the program may boot with
    PPRBytes,       \* the bytes the host may write to RotaryPPR
    HoldBytes       \* the bytes the host may write to RotaryHold

Encoders == 0 .. NumEncoders - 1
Byte     == 0 .. ByteSize - 1
WordSize == ByteSize * ByteSize
Word     == 0 .. WordSize - 1

ASSUME ByteSizeAssumption  == ByteSize \in Nat /\ ByteSize >= 4
ASSUME EncodersAssumption  == NumEncoders \in Nat
ASSUME SkipAssumption      == MaxSkip \in Nat
ASSUME StartAssumption     == StartPPR \subseteq Word /\ StartHold \subseteq Word
ASSUME HostBytesAssumption == PPRBytes \subseteq Byte /\ HoldBytes \subseteq Byte

VARIABLES
    phase,          \* per encoder, the shaft's place in the Gray cycle
    moved,          \* per encoder, quarter steps since the last sample
    Rotary,         \* the array of Rotary_t
    HoldTime,       \* the hold time in use
    SettingsRotary, \* the Settings_Rotary_t of the Settings struct
    task,           \* what the main loop is doing
    next            \* the encoder SetupHardware attaches next

shaft == <<phase, moved>>
vars  == <<phase, moved, Rotary, HoldTime, SettingsRotary, task, next>>
-----------------------------------------------------------------------------
(* The decoder *)

Clockwise        == 16      \* 0x10
CounterClockwise == 32      \* 0x20

\* The two pins (A in bit 1, B in bit 0) at each phase of a clockwise turn.
Gray == [p \in 0..3 |-> CASE p = 0 -> 3 [] p = 1 -> 1 [] p = 2 -> 0 [] p = 3 -> 2]

\* The half-step table, indexed by state and pins.
rotary_lookup ==
    [s \in 0..5 |->
        CASE s = 0 -> [pins \in 0..3 |-> CASE pins = 0 -> 3  [] pins = 1 -> 2 [] pins = 2 -> 1 [] pins = 3 -> 0]
          [] s = 1 -> [pins \in 0..3 |-> CASE pins = 0 -> 35 [] pins = 1 -> 0 [] pins = 2 -> 1 [] pins = 3 -> 0]
          [] s = 2 -> [pins \in 0..3 |-> CASE pins = 0 -> 19 [] pins = 1 -> 2 [] pins = 2 -> 0 [] pins = 3 -> 0]
          [] s = 3 -> [pins \in 0..3 |-> CASE pins = 0 -> 3  [] pins = 1 -> 5 [] pins = 2 -> 4 [] pins = 3 -> 0]
          [] s = 4 -> [pins \in 0..3 |-> CASE pins = 0 -> 3  [] pins = 1 -> 3 [] pins = 2 -> 4 [] pins = 3 -> 16]
          [] s = 5 -> [pins \in 0..3 |-> CASE pins = 0 -> 3  [] pins = 1 -> 5 [] pins = 2 -> 3 [] pins = 3 -> 32]]

States == {0, 1, 2, 3, 4, 5, 19, 35, 16, 32}

\* state & 0x0f, the row of the table, and state & 0x30, the code it emits.
Row(state)  == state % 16
Code(state) == state - Row(state)

\* Faults: a table that loses the rest it came from, one that does not see
\* the first quarter step, and one without the code at the rest 11.
NextStateRow1(state, p)  == IF Row(state) = 2 /\ p = 2 THEN 17 ELSE rotary_lookup[Row(state)][Gray[p]]
NextStateStuck(state, p) == IF Row(state) = 0 /\ p = 1 THEN 0 ELSE rotary_lookup[Row(state)][Gray[p]]
NextStateQuiet(state, p) == rotary_lookup[Row(state)][Gray[p]] % 32

\* RotaryProcess: the new state, for pins seen at phase p.
NextState(state, p) == rotary_lookup[Row(state)][Gray[p]]

\* The hold counter: loaded when a code is emitted, else counted down.
HoldAfter(r, code) ==
    IF code # 0 THEN HoldTime ELSE IF r.hold # 0 THEN r.hold - 1 ELSE 0

\* Fault: the direction is not cleared when the hold counter runs out.
DirectionKept(r, code, hold) ==
    IF code = 0 THEN r.direction
    ELSE IF code = CounterClockwise THEN ByteSize - 1 ELSE 1

\* The direction: 1 or -1 as a byte, until the hold counter is zero.
DirectionAfter(r, code, hold) ==
    IF hold = 0 THEN 0
    ELSE IF code = 0 THEN r.direction
    ELSE IF code = CounterClockwise THEN ByteSize - 1 ELSE 1

\* C's unsigned x % y.  Division by zero is undefined; the AVR library's
\* shift-and-subtract division leaves the dividend as the remainder.
Remainder(x, y) == IF y = 0 THEN x ELSE x % y

\* Faults: the result is not cut to a byte; the position wraps by hand, and
\* only when it is exactly at an end.
AdvanceWord(position, step, PPR) ==
    Remainder((PPR + (position + step)) % WordSize, PPR)
AdvanceByHand(position, step, PPR) ==
    (IF position + step = PPR THEN 0 ELSE (position + step) % WordSize) % ByteSize

\* The position after a half step, in 16-bit arithmetic, stored to a byte.
Advance(position, step, PPR) ==
    Remainder((PPR + (position + step)) % WordSize, PPR) % ByteSize

\* One pass of the interrupt over an encoder whose shaft is at phase p.
Sample(r, p) ==
    LET state == NextState(r.state, p)
        code  == Code(state)
        step  == IF code = CounterClockwise THEN -1 ELSE 1
        hold  == HoldAfter(r, code)
    IN  [r EXCEPT !.state     = state,
                  !.position  = IF code = 0 THEN @
                                ELSE Advance(@, step, SettingsRotary.RotaryPPR),
                  !.hold      = hold,
                  !.direction = DirectionAfter(r, code, hold)]

\* Fault: the direction is not inverted with the position.
GetDirectionRaw(r) == r.direction

\* What the reports and the PS2 data see: a byte that is 0, 1 or -1, and a
\* position that counts backwards when the encoder is inverted.
GetDirection(r) ==
    IF r.isInverted THEN (ByteSize - r.direction) % ByteSize ELSE r.direction
GetPosition(r) ==
    IF r.isInverted THEN ByteSize - 1 - r.position ELSE r.position
-----------------------------------------------------------------------------
Init ==
    /\ phase \in [Encoders -> 0..3]
    /\ moved = [e \in Encoders |-> 0]
    /\ SettingsRotary \in [RotaryInvert : SUBSET Encoders,
                           RotaryHold : StartHold, RotaryPPR : StartPPR]
    /\ HoldTime = SettingsRotary.RotaryHold
    /\ Rotary = [e \in Encoders |->
                    [position |-> 0, state |-> 0, direction |-> 0, hold |-> 0,
                     isInverted |-> e \in SettingsRotary.RotaryInvert]]
    /\ task = "main"
    /\ next = 0

(* The player turns the shaft of encoder e one quarter step. *)
Turn(e) ==
    \E d \in {-1, 1} :
        /\ moved[e] + d \in -MaxSkip .. MaxSkip
        /\ phase' = [phase EXCEPT ![e] = (@ + d) % 4]
        /\ moved' = [moved EXCEPT ![e] = @ + d]
        /\ UNCHANGED <<Rotary, HoldTime, SettingsRotary, task, next>>

(* TIMER0_COMPA_vect, held off while the EEPROM is written. *)
TimerISR ==
    /\ task # "save"
    /\ Rotary' = [e \in Encoders |-> Sample(Rotary[e], phase[e])]
    /\ moved' = [e \in Encoders |-> 0]
    /\ UNCHANGED <<phase, HoldTime, SettingsRotary, task, next>>

(* Config_UpdateSettings on the five bytes of Settings.Rotary. *)
UpdateInvert ==
    /\ task = "main"
    /\ \E inverted \in SUBSET Encoders :
            SettingsRotary' = [SettingsRotary EXCEPT !.RotaryInvert = inverted]
    /\ UNCHANGED <<shaft, Rotary, HoldTime, task, next>>

WithLow(word, b)  == (word \div ByteSize) * ByteSize + b
WithHigh(word, b) == b * ByteSize + (word % ByteSize)

UpdateHold ==
    /\ task = "main"
    /\ \E b \in HoldBytes : \E h \in {WithLow(SettingsRotary.RotaryHold, b),
                                  WithHigh(SettingsRotary.RotaryHold, b)} :
            SettingsRotary' = [SettingsRotary EXCEPT !.RotaryHold = h]
    /\ UNCHANGED <<shaft, Rotary, HoldTime, task, next>>

UpdatePPR ==
    /\ task = "main"
    /\ \E b \in PPRBytes : \E ppr \in {WithLow(SettingsRotary.RotaryPPR, b),
                                   WithHigh(SettingsRotary.RotaryPPR, b)} :
            SettingsRotary' = [SettingsRotary EXCEPT !.RotaryPPR = ppr]
    /\ UNCHANGED <<shaft, Rotary, HoldTime, task, next>>

(* Command 0xF0 sets the hardware up again; 0xF1 first saves the settings, *)
(* with interrupts off from Config_SaveEEPROM's cli to its sei.            *)
ApplyCommand ==
    /\ task = "main"
    /\ task' = "init"
    /\ UNCHANGED <<shaft, Rotary, HoldTime, SettingsRotary, next>>

StoreCommand ==
    /\ task = "main"
    /\ task' = "save"
    /\ UNCHANGED <<shaft, Rotary, HoldTime, SettingsRotary, next>>

SaveDone ==
    /\ task = "save"
    /\ task' = "init"
    /\ UNCHANGED <<shaft, Rotary, HoldTime, SettingsRotary, next>>

(* Rotary_Init runs with interrupts off: no sample comes in between. *)
Rotary_Init ==
    /\ task = "init"
    /\ HoldTime' = SettingsRotary.RotaryHold
    /\ task' = "attach"
    /\ next' = 0
    /\ UNCHANGED <<shaft, Rotary, SettingsRotary>>

(* SetupHardware attaches the encoders in turn, with interrupts on. *)
Rotary_AttachEncoder ==
    /\ task = "attach"
    /\ next < NumEncoders
    /\ Rotary' = [Rotary EXCEPT ![next].isInverted = next \in SettingsRotary.RotaryInvert]
    /\ next' = next + 1
    /\ UNCHANGED <<shaft, HoldTime, SettingsRotary, task>>

SetupDone ==
    /\ task = "attach"
    /\ next = NumEncoders
    /\ task' = "main"
    /\ next' = 0
    /\ UNCHANGED <<shaft, Rotary, HoldTime, SettingsRotary>>

Next ==
    \/ \E e \in Encoders : Turn(e)
    \/ TimerISR
    \/ UpdateInvert
    \/ UpdateHold
    \/ UpdatePPR
    \/ ApplyCommand
    \/ StoreCommand
    \/ SaveDone
    \/ Rotary_Init
    \/ Rotary_AttachEncoder
    \/ SetupDone

Spec == Init /\ [][Next]_vars

\* A compare match that comes while interrupts are off stays pending in the
\* timer's flag and is served after the sei, so the interrupt cannot be
\* starved by saves however often they come: strong fairness.
Fairness == SF_vars(TimerISR) /\ WF_vars(SaveDone)
FairSpec == Spec /\ Fairness
-----------------------------------------------------------------------------
(* Properties *)

Encoder == [position : Byte, state : States, direction : {0, 1, ByteSize - 1},
            hold : Word, isInverted : BOOLEAN]

(* The variables keep the widths of Rotary_t and of Settings_Rotary_t.      *)
TypeOK ==
    /\ phase \in [Encoders -> 0..3]
    /\ moved \in [Encoders -> -MaxSkip .. MaxSkip]
    /\ Rotary \in [Encoders -> Encoder]
    /\ HoldTime \in Word
    /\ SettingsRotary \in [RotaryInvert : SUBSET Encoders,
                           RotaryHold : Word, RotaryPPR : Word]
    /\ task \in {"main", "save", "init", "attach"}
    /\ next \in 0 .. NumEncoders

\* The rows of the table that stand for a phase: 0 and 3 are the two rests
\* (pins 11 and 00), the others remember the rest the shaft came from.
RowsAt == [p \in 0..3 |-> CASE p = 0 -> {0} [] p = 1 -> {2, 5} [] p = 2 -> {3} [] p = 3 -> {1, 4}]

\* The phase at the last sample, and whether the decoder's row stands for it.
SeenPhase(e) == (phase[e] - moved[e]) % 4
InPhase(e)   == Row(Rotary[e].state) \in RowsAt[SeenPhase(e)]

(* The decoder never believes something false about where the shaft came   *)
(* from: when its row does not stand for the pins it last saw (at boot, or *)
(* after the shaft skipped a quarter step between samples), it is one of   *)
(* the two rests, from which every pair of pins leads back in phase.       *)
DecoderInv ==
    \A e \in Encoders : InPhase(e) \/ Row(Rotary[e].state) \in {0, 3}

(* One sample is enough to recover the phase, whatever the pins are by     *)
(* then: a skip while the EEPROM is written does not confuse it for good.  *)
Resync ==
    [][TimerISR => \A e \in Encoders : Row(Rotary[e].state) \in {0, 3} => InPhase(e)']_vars

\* Twice the rest a row counts from, relative to the phase it stands for.
Lag(row) == IF row \in {0, 3} THEN 0 ELSE IF row \in {1, 5} THEN 1 ELSE -1

\* Half steps the shaft made, by the decoder's own rests, in the last step.
HalfSteps(e) == (moved[e] + Lag(Row(Rotary[e].state))' - Lag(Row(Rotary[e].state))) \div 2

\* The tooth count is one the position's byte can hold, and is in use.
Settled(e) ==
    /\ SettingsRotary.RotaryPPR \in 1 .. ByteSize
    /\ Rotary[e].position < SettingsRotary.RotaryPPR

(* Absolute position (README.md:6): while no quarter step is skipped, each *)
(* sample moves the position by the half steps the shaft made, modulo the  *)
(* tooth count, and so the position never drifts from the shaft, however   *)
(* often it stops, reverses or wobbles between two pins.                   *)
NoDrift ==
    [][TimerISR =>
        \A e \in Encoders :
            InPhase(e) /\ Settled(e) /\ moved[e] \in -1..1 =>
                /\ InPhase(e)'
                /\ Settled(e)'
                /\ (Rotary[e].position)' =
                       (Rotary[e].position + HalfSteps(e)) % SettingsRotary.RotaryPPR]_vars

(* A tooth count that shrinks under a larger position, or that is seen     *)
(* between its two bytes, is repaired by the next half step that moves the *)
(* position at all: it is below the tooth count again.                     *)
BackInRange ==
    [][TimerISR =>
        \A e \in Encoders :
            /\ SettingsRotary.RotaryPPR \in 1 .. ByteSize
            /\ Rotary'[e].position # Rotary[e].position
            => Settled(e)']_vars

(* The digital output is on exactly while the hold counter runs.           *)
HeldDirection ==
    \A e \in Encoders : Rotary[e].direction = 0 <=> Rotary[e].hold = 0

\* A byte read as a signed number.
Signed(b) == IF b = ByteSize - 1 THEN -1 ELSE b

(* The digital direction and the analog position that one encoder reports  *)
(* never disagree: when a sample moves the reported position and leaves a  *)
(* direction, the position moved that way, inverted or not.                *)
DirectionAgrees ==
    [][TimerISR =>
        \A e \in Encoders :
            LET r == Rotary[e]  s == Rotary'[e]
            IN  Settled(e) /\ r.position # s.position /\ GetDirection(s) # 0 =>
                    (GetPosition(s) - GetPosition(r) - Signed(GetDirection(s)))
                        % SettingsRotary.RotaryPPR = 0]_vars

\* The mark of Dial the shaft stands at: two per tooth, from the position and
\* the rest the decoder's row counts from; lost while the row does not stand
\* for a phase, the position is out of range or a quarter step is skipped.
Angle(e) ==
    IF InPhase(e) /\ Settled(e) /\ moved[e] \in -1..1
    THEN (2 * Rotary[e].position - Lag(Row(Rotary[e].state)) + moved[e])
             % (2 * SettingsRotary.RotaryPPR)
    ELSE -1

D == INSTANCE Dial WITH
    teeth    <- SettingsRotary.RotaryPPR,
    angle    <- [e \in Encoders |-> Angle(e)],
    position <- [e \in Encoders |-> Rotary[e].position]

(* The encoders are absolute dials (README.md:6): table, hold counter and  *)
(* 16-bit arithmetic amount to reading each shaft's own angle to the       *)
(* nearest tooth.  Saves, inversion, hold times and the other encoders do  *)
(* not show in it, and only a skipped quarter step or a new tooth count    *)
(* may lose the angle.                                                     *)
ImplementsDial == D!Spec

(* When the shaft stays still, the digital output is eventually released,  *)
(* even if settings are being applied and saved all the time.              *)
SpinDown ==
    \A e \in Encoders : <>[](moved[e] = 0) => <>[](Rotary[e].direction = 0)
=============================================================================
