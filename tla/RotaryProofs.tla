---------------------------- MODULE RotaryProofs ----------------------------
(***************************************************************************)
(* Proofs about Rotary and, at the end, about Descriptors, which extends   *)
(* it: for every width of a byte, number of encoders, set of bytes the     *)
(* host may write and place of the settings in memory.                     *)
(***************************************************************************)
EXTENDS Descriptors, TLAPS

(* What the table does from each row at each phase: the row it goes to     *)
(* stands for the phase it saw unless it is a rest, the code moves the     *)
(* lag, and a code is emitted only on reaching a rest.                     *)
LEMMA TableLemma ==
    ASSUME NEW state \in States, NEW p \in 0..3
    PROVE  /\ NextState(state, p) \in States
           /\ Row(state) \in 0..5
           /\ Row(NextState(state, p)) \in RowsAt[p] \cup {0, 3}
           /\ Row(state) \in {0, 3} => Row(NextState(state, p)) \in RowsAt[p]
           /\ Code(NextState(state, p)) \in {0, Clockwise, CounterClockwise}
<1>1. Row(state) \in 0..5
  BY DEF States, Row
<1>2. /\ p = 0 => Gray[p] = 3 /\ RowsAt[p] = {0}
      /\ p = 1 => Gray[p] = 1 /\ RowsAt[p] = {2, 5}
      /\ p = 2 => Gray[p] = 0 /\ RowsAt[p] = {3}
      /\ p = 3 => Gray[p] = 2 /\ RowsAt[p] = {1, 4}
  BY DEF Gray, RowsAt
<1>3. /\ Row(state) \in {0, 3} => NextState(state, p) \in RowsAt[p]
      /\ NextState(state, p) \in RowsAt[p] \cup {0, 3, 16, 19, 32, 35}
  <2>1. CASE Row(state) \in {0, 3}
    BY <1>1, <1>2, <2>1 DEF NextState, rotary_lookup
  <2>2. CASE Row(state) \in {1, 2, 4, 5}
    BY <1>1, <1>2, <2>2 DEF NextState, rotary_lookup
  <2> QED
    BY <1>1, <2>1, <2>2
<1> QED
  BY <1>1, <1>2, <1>3 DEF States, Row, Code, Clockwise, CounterClockwise

(* A remainder of a sum just below or above the tooth count.               *)
LEMMA AdvanceLemma ==
    ASSUME NEW P \in 1 .. ByteSize, NEW x \in 0 .. P - 1, NEW s \in {-1, 1}
    PROVE  /\ Advance(x, s, P) = (x + s) % P
           /\ Advance(x, s, P) \in 0 .. P - 1
<1>1. ByteSize \in Nat /\ ByteSize >= 4
  BY ByteSizeAssumption
<1>2. ByteSize * ByteSize >= 4 * ByteSize /\ ByteSize * ByteSize \in Nat
  BY <1>1
<1>3. P + (x + s) \in 0 .. ByteSize * ByteSize - 1
  BY <1>1, <1>2
<1>4. (P + (x + s)) % WordSize = P + (x + s)
  BY <1>3, <1>2 DEF WordSize
<1>5. (P + (x + s)) % P = (x + s) % P /\ (x + s) % P \in 0 .. P - 1
  BY <1>1
<1>6. ((x + s) % P) % ByteSize = (x + s) % P
  BY <1>1, <1>5
<1> QED
  BY <1>1, <1>4, <1>5, <1>6 DEF Advance, Remainder

\* The step a code stands for.
StepOf(code) == IF code = Clockwise THEN 1 ELSE IF code = CounterClockwise THEN -1 ELSE 0

\* The phase p is m quarter steps after q.
Follows(q, m, p) == p = (q + m) % 4

(* When the row stands for phase q and the shaft moved m quarter steps to  *)
(* phase p, at most one, the new row stands for p and the code emitted is  *)
(* the half step between the two rests.                                    *)
LEMMA HalfStepLemma ==
    ASSUME NEW state \in States, NEW q \in 0..3, NEW p \in 0..3, NEW m \in -1..1,
           Row(state) \in RowsAt[q], Follows(q, m, p)
    PROVE  /\ Row(NextState(state, p)) \in RowsAt[p]
           /\ m + Lag(Row(NextState(state, p))) - Lag(Row(state))
                = 2 * StepOf(Code(NextState(state, p)))
<1>1. /\ q = 0 => Row(state) = 0
      /\ q = 1 => Row(state) \in {2, 5}
      /\ q = 2 => Row(state) = 3
      /\ q = 3 => Row(state) \in {1, 4}
  BY DEF RowsAt
<1>2. /\ p = 0 => Gray[p] = 3 /\ RowsAt[p] = {0}
      /\ p = 1 => Gray[p] = 1 /\ RowsAt[p] = {2, 5}
      /\ p = 2 => Gray[p] = 0 /\ RowsAt[p] = {3}
      /\ p = 3 => Gray[p] = 2 /\ RowsAt[p] = {1, 4}
  BY DEF Gray, RowsAt
<1>3. CASE q = 0
  <2>1. \/ m = 0 /\ p = 0
        \/ m = 1 /\ p = 1
        \/ m = -1 /\ p = 3
    BY <1>3 DEF Follows
  <2>2. CASE Row(state) = 0
    <3>1. \/ m = 0 /\ NextState(state, p) = 0
          \/ m = 1 /\ NextState(state, p) = 2
          \/ m = -1 /\ NextState(state, p) = 1
      BY <1>2, <2>1, <2>2 DEF NextState, rotary_lookup
    <3> QED
      BY <1>2, <2>1, <2>2, <3>1 DEF Row, Code, Lag, StepOf, Clockwise, CounterClockwise
  <2> QED
    BY <1>1, <1>3, <2>2
<1>4. CASE q = 1
  <2>1. \/ m = 0 /\ p = 1
        \/ m = 1 /\ p = 2
        \/ m = -1 /\ p = 0
    BY <1>4 DEF Follows
  <2>2. CASE Row(state) = 2
    <3>1. \/ m = 0 /\ NextState(state, p) = 2
          \/ m = 1 /\ NextState(state, p) = 19
          \/ m = -1 /\ NextState(state, p) = 0
      BY <1>2, <2>1, <2>2 DEF NextState, rotary_lookup
    <3> QED
      BY <1>2, <2>1, <2>2, <3>1 DEF Row, Code, Lag, StepOf, Clockwise, CounterClockwise
  <2>3. CASE Row(state) = 5
    <3>1. \/ m = 0 /\ NextState(state, p) = 5
          \/ m = 1 /\ NextState(state, p) = 3
          \/ m = -1 /\ NextState(state, p) = 32
      BY <1>2, <2>1, <2>3 DEF NextState, rotary_lookup
    <3> QED
      BY <1>2, <2>1, <2>3, <3>1 DEF Row, Code, Lag, StepOf, Clockwise, CounterClockwise
  <2> QED
    BY <1>1, <1>4, <2>2, <2>3
<1>5. CASE q = 2
  <2>1. \/ m = 0 /\ p = 2
        \/ m = 1 /\ p = 3
        \/ m = -1 /\ p = 1
    BY <1>5 DEF Follows
  <2>2. CASE Row(state) = 3
    <3>1. \/ m = 0 /\ NextState(state, p) = 3
          \/ m = 1 /\ NextState(state, p) = 4
          \/ m = -1 /\ NextState(state, p) = 5
      BY <1>2, <2>1, <2>2 DEF NextState, rotary_lookup
    <3> QED
      BY <1>2, <2>1, <2>2, <3>1 DEF Row, Code, Lag, StepOf, Clockwise, CounterClockwise
  <2> QED
    BY <1>1, <1>5, <2>2
<1>6. CASE q = 3
  <2>1. \/ m = 0 /\ p = 3
        \/ m = 1 /\ p = 0
        \/ m = -1 /\ p = 2
    BY <1>6 DEF Follows
  <2>2. CASE Row(state) = 1
    <3>1. \/ m = 0 /\ NextState(state, p) = 1
          \/ m = 1 /\ NextState(state, p) = 0
          \/ m = -1 /\ NextState(state, p) = 35
      BY <1>2, <2>1, <2>2 DEF NextState, rotary_lookup
    <3> QED
      BY <1>2, <2>1, <2>2, <3>1 DEF Row, Code, Lag, StepOf, Clockwise, CounterClockwise
  <2>3. CASE Row(state) = 4
    <3>1. \/ m = 0 /\ NextState(state, p) = 4
          \/ m = 1 /\ NextState(state, p) = 16
          \/ m = -1 /\ NextState(state, p) = 3
      BY <1>2, <2>1, <2>3 DEF NextState, rotary_lookup
    <3> QED
      BY <1>2, <2>1, <2>3, <3>1 DEF Row, Code, Lag, StepOf, Clockwise, CounterClockwise
  <2> QED
    BY <1>1, <1>6, <2>2, <2>3
<1> QED
  BY <1>3, <1>4, <1>5, <1>6
-----------------------------------------------------------------------------
(* A pass of the interrupt keeps the widths of an encoder's fields.        *)
LEMMA SampleLemma ==
    ASSUME NEW r \in Encoder, NEW p \in 0..3, TypeOK
    PROVE  /\ Sample(r, p) \in Encoder
           /\ Sample(r, p).state = NextState(r.state, p)
           /\ (r.direction = 0 <=> r.hold = 0) =>
                  (Sample(r, p).direction = 0 <=> Sample(r, p).hold = 0)
<1> DEFINE state == NextState(r.state, p)
           code  == Code(state)
           s     == IF code = CounterClockwise THEN -1 ELSE 1
           P     == SettingsRotary.RotaryPPR
<1>1. ByteSize \in Nat /\ ByteSize >= 4 /\ ByteSize * ByteSize \in Nat /\ ByteSize * ByteSize > 0
  <2>1. ByteSize \in Nat /\ ByteSize >= 4
    BY ByteSizeAssumption
  <2> QED
    BY <2>1
<1>2. P \in Nat /\ HoldTime \in Word
  BY <1>1 DEF TypeOK, Word, WordSize
<1>3. Advance(r.position, s, P) \in Byte
  <2>1. r.position \in Int /\ s \in Int
    BY <1>1 DEF Encoder, Byte
  <2>2. (P + (r.position + s)) % WordSize \in Nat
    BY <1>1, <1>2, <2>1 DEF WordSize
  <2>3. Remainder((P + (r.position + s)) % WordSize, P) \in Nat
    <3> HIDE DEF s, P
    <3> QED
      BY <1>2, <2>2 DEF Remainder
  <2> QED
    BY <1>1, <2>3 DEF Advance, Byte
<1>4. state \in States
  BY TableLemma DEF Encoder
<1>5. r.hold \in Word /\ (r.hold # 0 => r.hold - 1 \in Word) /\ 0 \in Word
  BY <1>1 DEF Encoder, Word, WordSize
<1> HIDE DEF state, code, s, P
<1>6. r \in Encoder /\ ByteSize - 1 # 0 /\ 1 # 0
  BY <1>1
<1>7. Sample(r, p) =
        [r EXCEPT !.state = state,
                  !.position = IF code = 0 THEN r.position ELSE Advance(r.position, s, P),
                  !.hold = HoldAfter(r, code),
                  !.direction = DirectionAfter(r, code, HoldAfter(r, code))]
  BY DEF Sample, state, code, s, P, Encoder
<1> QED
  BY <1>2, <1>3, <1>4, <1>5, <1>6, <1>7 DEF Encoder, state, HoldAfter, DirectionAfter

(* The bytes and words the host can make of a setting.                     *)
LEMMA WordLemma ==
    ASSUME NEW w \in Word, NEW b \in Byte
    PROVE  WithLow(w, b) \in Word /\ WithHigh(w, b) \in Word
<1>1. ByteSize \in Nat /\ ByteSize >= 4
  BY ByteSizeAssumption
<1>2. \A x, y \in Byte : x * ByteSize + y \in Word
  <2> SUFFICES ASSUME NEW x \in Byte, NEW y \in Byte
               PROVE  x * ByteSize + y \in Word
    OBVIOUS
  <2>1. x \in Nat /\ y \in Nat /\ x <= ByteSize - 1 /\ y <= ByteSize - 1
    BY <1>1 DEF Byte
  <2>2. x * ByteSize <= (ByteSize - 1) * ByteSize
    BY <1>1, <2>1
  <2>3. (ByteSize - 1) * ByteSize = ByteSize * ByteSize - ByteSize
    BY <1>1
  <2>4. x * ByteSize \in Nat /\ ByteSize * ByteSize \in Nat
    BY <1>1, <2>1
  <2> QED
    BY <1>1, <2>1, <2>2, <2>3, <2>4 DEF Word, WordSize
<1>3. w \div ByteSize \in Byte
  <2>1. w \in Nat /\ w < ByteSize * ByteSize
    BY <1>1 DEF Word, WordSize
  <2> QED
    BY <1>1, <2>1 DEF Byte
<1>4. w % ByteSize \in Byte
  BY <1>1 DEF Word, WordSize, Byte
<1> QED
  BY <1>2, <1>3, <1>4 DEF WithLow, WithHigh
-----------------------------------------------------------------------------
(* Type correctness, for every byte width, number of encoders and set of   *)
(* bytes the host may write: no field of Rotary_t or Settings_Rotary_t     *)
(* leaves its width in any interleaving of the interrupt, the settings     *)
(* writes and SetupHardware.                                               *)
LEMMA TypeInit == Init => TypeOK
<1>1. ByteSize \in Nat /\ ByteSize >= 4 /\ NumEncoders \in Nat /\ MaxSkip \in Nat
  BY ByteSizeAssumption, EncodersAssumption, SkipAssumption
<1>2. 0 \in Byte /\ 0 \in Word
  BY <1>1 DEF Byte, Word, WordSize
<1> QED
  BY <1>1, <1>2, StartAssumption
  DEF Init, TypeOK, Encoder, States, Encoders

LEMMA TypeStep == TypeOK /\ [Next]_vars => TypeOK'
<1> SUFFICES ASSUME TypeOK, [Next]_vars
             PROVE  TypeOK'
  OBVIOUS
<1>1. ByteSize \in Nat /\ ByteSize >= 4 /\ NumEncoders \in Nat /\ MaxSkip \in Nat
  BY ByteSizeAssumption, EncodersAssumption, SkipAssumption
<1>2. ASSUME NEW e \in Encoders, Turn(e)
      PROVE  TypeOK'
  BY <1>1, <1>2 DEF Turn, TypeOK
<1>3. CASE TimerISR
  <2>1. \A e \in Encoders : Sample(Rotary[e], phase[e]) \in Encoder
    BY SampleLemma DEF TypeOK
  <2> QED
    BY <1>1, <1>3, <2>1 DEF TimerISR, TypeOK
<1>4. CASE UpdateInvert
  BY <1>4 DEF UpdateInvert, shaft, TypeOK
<1>5. CASE UpdateHold
  BY <1>5, WordLemma, HostBytesAssumption DEF UpdateHold, shaft, TypeOK
<1>6. CASE UpdatePPR
  BY <1>6, WordLemma, HostBytesAssumption DEF UpdatePPR, shaft, TypeOK
<1>7. CASE ApplyCommand \/ StoreCommand \/ SaveDone
  BY <1>7 DEF ApplyCommand, StoreCommand, SaveDone, shaft, TypeOK
<1>8. CASE Rotary_Init
  BY <1>1, <1>8 DEF Rotary_Init, shaft, TypeOK
<1>9. CASE Rotary_AttachEncoder
  <2>1. next \in Encoders /\ next + 1 \in 0 .. NumEncoders
    BY <1>1, <1>9 DEF Rotary_AttachEncoder, TypeOK, Encoders
  <2>2. Rotary' \in [Encoders -> Encoder]
    <3> DEFINE b == next \in SettingsRotary.RotaryInvert
    <3>1. b \in BOOLEAN
      OBVIOUS
    <3> HIDE DEF b
    <3>2. [Rotary[next] EXCEPT !.isInverted = b] \in Encoder
      BY <2>1, <3>1 DEF TypeOK, Encoder
    <3>3. Rotary' = [Rotary EXCEPT ![next] = [Rotary[next] EXCEPT !.isInverted = b]]
      BY <1>9, <2>1 DEF Rotary_AttachEncoder, TypeOK, b
    <3> QED
      BY <2>1, <3>2, <3>3 DEF TypeOK
  <2> QED
    BY <1>9, <2>1, <2>2 DEF Rotary_AttachEncoder, shaft, TypeOK
<1>10. CASE SetupDone
  BY <1>1, <1>10 DEF SetupDone, shaft, TypeOK
<1>11. CASE UNCHANGED vars
  BY <1>11 DEF vars, TypeOK
<1> QED
  BY <1>2, <1>3, <1>4, <1>5, <1>6, <1>7, <1>8, <1>9, <1>10, <1>11 DEF Next

THEOREM TypeCorrect == Spec => []TypeOK
<1>1. Init => TypeOK
  BY TypeInit
<1>2. TypeOK /\ [Next]_vars => TypeOK'
  BY TypeStep
<1> QED
  BY <1>1, <1>2, PTL DEF Spec
-----------------------------------------------------------------------------
(* The decoder is in phase or at a rest, and the direction is on exactly   *)
(* while the hold counter runs, in every reachable state.  Only the        *)
(* interrupt touches either; a turn moves the shaft and the count of what  *)
(* the interrupt has not seen together.                                    *)
LEMMA DecoderStep ==
    TypeOK /\ DecoderInv /\ HeldDirection /\ [Next]_vars
        => DecoderInv' /\ HeldDirection'
<1> SUFFICES ASSUME TypeOK, DecoderInv, HeldDirection, [Next]_vars
             PROVE  DecoderInv' /\ HeldDirection'
  OBVIOUS
<1>1. ASSUME NEW f \in Encoders, Turn(f)
      PROVE  DecoderInv' /\ HeldDirection'
  <2>1. ASSUME NEW e \in Encoders
        PROVE  SeenPhase(e)' = SeenPhase(e)
    <3>1. phase[e] \in Int /\ moved[e] \in Int
      BY SkipAssumption DEF TypeOK
    <3> QED
      BY <1>1, <3>1 DEF Turn, TypeOK, SeenPhase
  <2> QED
    BY <1>1, <2>1 DEF Turn, DecoderInv, HeldDirection, InPhase
<1>2. CASE TimerISR
  <2>1. ASSUME NEW e \in Encoders
        PROVE  /\ InPhase(e)' \/ Row(Rotary'[e].state) \in {0, 3}
               /\ Rotary'[e].direction = 0 <=> Rotary'[e].hold = 0
    <3>1. /\ Rotary[e] \in Encoder /\ phase[e] \in 0..3
          /\ Rotary'[e] = Sample(Rotary[e], phase[e])
          /\ phase'[e] = phase[e] /\ moved'[e] = 0
      BY <1>2 DEF TimerISR, TypeOK
    <3>2. SeenPhase(e)' = phase[e]
      BY <3>1 DEF SeenPhase
    <3>3. Row(Rotary'[e].state) \in RowsAt[phase[e]] \cup {0, 3}
      BY <3>1, SampleLemma, TableLemma DEF Encoder
    <3>4. Rotary[e].direction = 0 <=> Rotary[e].hold = 0
      BY DEF HeldDirection
    <3> QED
      BY <3>1, <3>2, <3>3, <3>4, SampleLemma DEF InPhase
  <2> QED
    BY <2>1 DEF DecoderInv, HeldDirection
<1>3. CASE Rotary_AttachEncoder
  <2>1. \A e \in Encoders : /\ Rotary'[e].state = Rotary[e].state
                            /\ Rotary'[e].direction = Rotary[e].direction
                            /\ Rotary'[e].hold = Rotary[e].hold
    BY <1>3 DEF Rotary_AttachEncoder, TypeOK, Encoder
  <2>2. UNCHANGED shaft
    BY <1>3 DEF Rotary_AttachEncoder
  <2> QED
    BY <2>1, <2>2 DEF DecoderInv, HeldDirection, InPhase, SeenPhase, shaft
<1>4. CASE UNCHANGED <<shaft, Rotary>>
  BY <1>4 DEF shaft, DecoderInv, HeldDirection, InPhase, SeenPhase
<1>5. CASE UpdateInvert \/ UpdateHold \/ UpdatePPR \/ ApplyCommand \/ StoreCommand
              \/ SaveDone \/ Rotary_Init \/ SetupDone \/ UNCHANGED vars
  BY <1>4, <1>5 DEF UpdateInvert, UpdateHold, UpdatePPR, ApplyCommand, StoreCommand,
                    SaveDone, Rotary_Init, SetupDone, vars, shaft
<1> QED
  BY <1>1, <1>2, <1>3, <1>5 DEF Next

THEOREM DecoderCorrect == Spec => [](DecoderInv /\ HeldDirection)
<1>1. Init => TypeOK /\ DecoderInv /\ HeldDirection
  BY TypeInit DEF Init, DecoderInv, HeldDirection, Row
<1>2. TypeOK /\ DecoderInv /\ HeldDirection /\ [Next]_vars
        => TypeOK' /\ DecoderInv' /\ HeldDirection'
  BY TypeStep, DecoderStep
<1> QED
  BY <1>1, <1>2, PTL DEF Spec

(* The decoder never loses the shaft for good: its row stands for the pins *)
(* RotaryProcess last saw, or is the rest row.                             *)
THEOREM DecoderInPhase == Spec => []DecoderInv
BY DecoderCorrect, PTL

(* The timer interrupt holds a direction exactly while its counter runs.   *)
THEOREM DirectionHeld == Spec => []HeldDirection
BY DecoderCorrect, PTL
-----------------------------------------------------------------------------
(* One sample of a shaft that moved at most a quarter step moves a settled *)
(* position by exactly the half steps the shaft made.                      *)
LEMMA DriftStep ==
    ASSUME TypeOK, TimerISR, NEW e \in Encoders,
           InPhase(e), Settled(e), moved[e] \in -1..1
    PROVE  /\ InPhase(e)'
           /\ Settled(e)'
           /\ (Rotary[e].position)' =
                  (Rotary[e].position + HalfSteps(e)) % SettingsRotary.RotaryPPR
           /\ HalfSteps(e) \in -1..1
           /\ moved[e] + Lag(Row(Rotary'[e].state)) - Lag(Row(Rotary[e].state))
                = 2 * HalfSteps(e)
<1> DEFINE r == Rotary[e]
           n == NextState(r.state, phase[e])
           P == SettingsRotary.RotaryPPR
           h == StepOf(Code(n))
<1>1. /\ r \in Encoder /\ phase[e] \in 0..3
      /\ Rotary'[e] = Sample(r, phase[e])
      /\ phase'[e] = phase[e] /\ moved'[e] = 0
      /\ SettingsRotary' = SettingsRotary
  BY DEF TimerISR, TypeOK
<1>2. n = Rotary'[e].state
  BY <1>1, SampleLemma
<1>3. SeenPhase(e) \in 0..3 /\ phase[e] = (SeenPhase(e) + moved[e]) % 4
  BY <1>1 DEF SeenPhase
<1>4. /\ Row(n) \in RowsAt[phase[e]]
      /\ moved[e] + Lag(Row(n)) - Lag(Row(r.state)) = 2 * h
  <2> DEFINE state == r.state
             q == SeenPhase(e)
             p == phase[e]
             m == moved[e]
  <2>1. /\ state \in States /\ q \in 0..3 /\ p \in 0..3 /\ m \in -1..1
        /\ Row(state) \in RowsAt[q] /\ Follows(q, m, p)
    BY <1>1, <1>3 DEF InPhase, Encoder, Follows
  <2> HIDE DEF state, q, p, m
  <2>2. /\ Row(NextState(state, p)) \in RowsAt[p]
        /\ m + Lag(Row(NextState(state, p))) - Lag(Row(state))
             = 2 * StepOf(Code(NextState(state, p)))
    BY <2>1, HalfStepLemma
  <2> QED
    BY <2>2 DEF state, p, m
<1>5. InPhase(e)'
  BY <1>1, <1>2, <1>4 DEF InPhase, SeenPhase
<1>6. HalfSteps(e) = h
  <2>1. h \in Int
    BY DEF StepOf
  <2>2. HalfSteps(e) = (2 * h) \div 2
    BY <1>2, <1>4 DEF HalfSteps
  <2> HIDE DEF h
  <2> QED
    BY <2>1, <2>2
<1>7. Code(n) \in {0, Clockwise, CounterClockwise}
  BY <1>1, TableLemma DEF Encoder
<1>8. P \in 1 .. ByteSize /\ r.position \in 0 .. P - 1
  BY <1>1, ByteSizeAssumption DEF Settled, Encoder, Byte
<1>9. /\ Rotary'[e].position = (r.position + h) % P
      /\ Rotary'[e].position \in 0 .. P - 1
  <2>1. Rotary'[e].position =
          IF Code(n) = 0 THEN r.position
          ELSE Advance(r.position, IF Code(n) = CounterClockwise THEN -1 ELSE 1, P)
    BY <1>1 DEF Sample, Encoder
  <2>2. CASE Code(n) = 0
    <3>1. h = 0
      BY <2>2 DEF StepOf, Clockwise, CounterClockwise
    <3> HIDE DEF n, h, P
    <3> QED
      BY <1>8, <2>1, <2>2, <3>1, ByteSizeAssumption
  <2>3. CASE Code(n) = Clockwise
    <3>1. h = 1 /\ Rotary'[e].position = Advance(r.position, 1, P)
      BY <2>1, <2>3 DEF StepOf, Clockwise, CounterClockwise
    <3> QED
      BY <1>8, <3>1, AdvanceLemma
  <2>4. CASE Code(n) = CounterClockwise
    <3>1. h = -1 /\ Rotary'[e].position = Advance(r.position, -1, P)
      BY <2>1, <2>4 DEF StepOf, Clockwise, CounterClockwise
    <3> QED
      BY <1>8, <3>1, AdvanceLemma
  <2> QED
    BY <1>7, <2>2, <2>3, <2>4
<1>10. Settled(e)'
  BY <1>1, <1>8, <1>9, ByteSizeAssumption DEF Settled
<1>11. h \in -1..1
  BY DEF StepOf
<1> QED
  BY <1>2, <1>4, <1>5, <1>6, <1>9, <1>10, <1>11

(* Absolute-position tracking (README.md:6) for every tooth count a byte   *)
(* can hold: in every behaviour, as long as no quarter step is skipped,    *)
(* the position follows the shaft exactly.                                 *)
THEOREM PositionFollowsShaft == Spec => NoDrift
<1>1. TypeOK /\ [Next]_vars =>
        [TimerISR =>
            \A e \in Encoders :
                InPhase(e) /\ Settled(e) /\ moved[e] \in -1..1 =>
                    /\ InPhase(e)'
                    /\ Settled(e)'
                    /\ (Rotary[e].position)' =
                           (Rotary[e].position + HalfSteps(e)) % SettingsRotary.RotaryPPR]_vars
  BY DriftStep
<1> QED
  BY <1>1, TypeCorrect, PTL DEF Spec, NoDrift

(* From a rest, one sample puts the decoder in phase with the pins, so a   *)
(* skipped quarter step cannot confuse it for more than one sample.        *)
THEOREM DecoderResyncs == Spec => Resync
<1>1. TypeOK /\ [Next]_vars =>
        [TimerISR => \A e \in Encoders : Row(Rotary[e].state) \in {0, 3} => InPhase(e)']_vars
  <2> SUFFICES ASSUME TypeOK, TimerISR, NEW e \in Encoders, Row(Rotary[e].state) \in {0, 3}
               PROVE  InPhase(e)'
    OBVIOUS
  <2>1. /\ Rotary[e] \in Encoder /\ phase[e] \in 0..3
        /\ Rotary'[e] = Sample(Rotary[e], phase[e])
        /\ phase'[e] = phase[e] /\ moved'[e] = 0
    BY DEF TimerISR, TypeOK
  <2>2. SeenPhase(e)' = phase[e]
    BY <2>1 DEF SeenPhase
  <2> QED
    BY <2>1, <2>2, SampleLemma, TableLemma DEF InPhase, Encoder
<1> QED
  BY <1>1, TypeCorrect, PTL DEF Spec, Resync
-----------------------------------------------------------------------------
(* A shaft that did not move since the last sample emits no code: in phase *)
(* its row stays, and a rest is left for another row without one.          *)
LEMMA StillLemma ==
    ASSUME NEW state \in States, NEW p \in 0..3,
           Row(state) \in RowsAt[p] \/ Row(state) \in {0, 3}
    PROVE  Code(NextState(state, p)) = 0
<1>1. /\ p = 0 => Gray[p] = 3 /\ RowsAt[p] = {0}
      /\ p = 1 => Gray[p] = 1 /\ RowsAt[p] = {2, 5}
      /\ p = 2 => Gray[p] = 0 /\ RowsAt[p] = {3}
      /\ p = 3 => Gray[p] = 2 /\ RowsAt[p] = {1, 4}
  BY DEF Gray, RowsAt
<1>2. NextState(state, p) \in {0, 1, 2, 3, 4, 5}
  <2>1. CASE Row(state) = 0
    BY <1>1, <2>1 DEF NextState, rotary_lookup
  <2>2. CASE Row(state) = 3
    BY <1>1, <2>2 DEF NextState, rotary_lookup
  <2>3. CASE Row(state) \in RowsAt[p]
    BY <1>1, <2>3 DEF NextState, rotary_lookup
  <2> QED
    BY <2>1, <2>2, <2>3
<1> QED
  BY <1>2 DEF Row, Code

(* Whatever the position was, a half step leaves it below a tooth count    *)
(* that a byte can hold.                                                   *)
LEMMA RangeLemma ==
    ASSUME NEW P \in 1 .. ByteSize, NEW x \in Byte, NEW s \in {-1, 1}
    PROVE  Advance(x, s, P) \in 0 .. P - 1
<1>1. ByteSize \in Nat /\ ByteSize >= 4 /\ ByteSize * ByteSize \in Nat /\ ByteSize * ByteSize > 0
  <2>1. ByteSize \in Nat /\ ByteSize >= 4
    BY ByteSizeAssumption
  <2> QED
    BY <2>1
<1> DEFINE w == (P + (x + s)) % WordSize
<1>2. w \in Nat
  BY <1>1 DEF WordSize, Byte
<1> HIDE DEF w
<1>3. w % P \in 0 .. P - 1
  BY <1>1, <1>2
<1>4. (w % P) % ByteSize = w % P
  BY <1>1, <1>3
<1> QED
  BY <1>1, <1>3, <1>4 DEF Advance, Remainder, w

(* A step around the circle of P positions is that step modulo P, seen in  *)
(* either direction.                                                       *)
LEMMA CircleLemma ==
    ASSUME NEW P \in Nat \ {0}, NEW x \in 0 .. P - 1, NEW s \in {-1, 1}
    PROVE  /\ (((x + s) % P) - x - s) % P = 0
           /\ (x - ((x + s) % P) + s) % P = 0
<1>1. 0 % P = 0 /\ P % P = 0 /\ (-P) % P = 0
  OBVIOUS
<1>2. CASE x + s \in 0 .. P - 1
  <2>1. (x + s) % P = x + s
    BY <1>2
  <2> QED
    BY <1>1, <2>1
<1>3. CASE x + s = P
  <2>1. (x + s) % P = 0
    BY <1>1, <1>3
  <2>2. 0 - x - s = -P /\ x - 0 + s = P
    BY <1>3
  <2> QED
    BY <1>1, <2>1, <2>2
<1>4. CASE x + s = -1
  <2>1. (x + s) % P = P - 1
    BY <1>4
  <2>2. P - 1 - x - s = P /\ x - (P - 1) + s = -P
    BY <1>4
  <2> QED
    BY <1>1, <2>1, <2>2
<1> QED
  BY <1>2, <1>3, <1>4

(* What a pass of the interrupt that moves a position does to the encoder: *)
(* one half step, the direction of that half step for the hold time, and   *)
(* nothing to the inversion or the settings.                               *)
LEMMA MoveLemma ==
    ASSUME TypeOK, TimerISR, NEW e \in Encoders,
           Rotary'[e].position # Rotary[e].position
    PROVE  \E step \in {-1, 1} :
             /\ Rotary'[e].position =
                    Advance(Rotary[e].position, step, SettingsRotary.RotaryPPR)
             /\ Rotary'[e].direction =
                    IF HoldTime = 0 THEN 0 ELSE IF step = 1 THEN 1 ELSE ByteSize - 1
             /\ Rotary'[e].isInverted = Rotary[e].isInverted
             /\ SettingsRotary' = SettingsRotary
<1> DEFINE r == Rotary[e]
           code == Code(NextState(r.state, phase[e]))
           step == IF code = CounterClockwise THEN -1 ELSE 1
<1>1. /\ r \in Encoder /\ phase[e] \in 0..3
      /\ Rotary'[e] = Sample(r, phase[e])
      /\ SettingsRotary' = SettingsRotary
  BY DEF TimerISR, TypeOK
<1>2. /\ Rotary'[e].position = IF code = 0 THEN r.position
                               ELSE Advance(r.position, step, SettingsRotary.RotaryPPR)
      /\ Rotary'[e].direction = DirectionAfter(r, code, HoldAfter(r, code))
      /\ Rotary'[e].isInverted = r.isInverted
  BY <1>1 DEF Sample, Encoder
<1>3. code # 0 /\ step \in {-1, 1} /\ (step = 1 <=> code # CounterClockwise)
  BY <1>2
<1> HIDE DEF code, step
<1>4. Rotary'[e].direction =
          IF HoldTime = 0 THEN 0 ELSE IF step = 1 THEN 1 ELSE ByteSize - 1
  BY <1>2, <1>3 DEF DirectionAfter, HoldAfter
<1> QED
  BY <1>1, <1>2, <1>3, <1>4

(* A position left beyond the tooth count, because the host made the count *)
(* smaller or because only one of its bytes was written so far, is in      *)
(* range again after the next half step that moves it (Rotary.c:126-133).  *)
THEOREM PositionsComeBack == Spec => BackInRange
<1>1. TypeOK /\ [Next]_vars =>
        [TimerISR =>
            \A e \in Encoders :
                /\ SettingsRotary.RotaryPPR \in 1 .. ByteSize
                /\ Rotary'[e].position # Rotary[e].position
                => Settled(e)']_vars
  <2> SUFFICES ASSUME TypeOK, TimerISR, NEW e \in Encoders,
                      SettingsRotary.RotaryPPR \in 1 .. ByteSize,
                      Rotary'[e].position # Rotary[e].position
               PROVE  Settled(e)'
    OBVIOUS
  <2>1. PICK step \in {-1, 1} :
            /\ Rotary'[e].position =
                   Advance(Rotary[e].position, step, SettingsRotary.RotaryPPR)
            /\ SettingsRotary' = SettingsRotary
    BY MoveLemma
  <2>2. Rotary[e].position \in Byte
    BY DEF TypeOK, Encoder
  <2>3. Rotary'[e].position \in 0 .. SettingsRotary.RotaryPPR - 1
    BY <2>1, <2>2, RangeLemma
  <2> QED
    BY <2>1, <2>3, ByteSizeAssumption DEF Settled
<1> QED
  BY <1>1, TypeCorrect, PTL DEF Spec, BackInRange

(* The digital direction and the analog position never disagree: a sample  *)
(* that moves the position and leaves a direction moved it that way, for   *)
(* every tooth count, over either end of the range, inverted or not        *)
(* (Rotary.c:103-116, 125-142).                                            *)
THEOREM DirectionsAgree == Spec => DirectionAgrees
<1>1. TypeOK /\ [Next]_vars =>
        [TimerISR =>
            \A e \in Encoders :
                LET r == Rotary[e]  s == Rotary'[e]
                IN  Settled(e) /\ r.position # s.position /\ GetDirection(s) # 0 =>
                        (GetPosition(s) - GetPosition(r) - Signed(GetDirection(s)))
                            % SettingsRotary.RotaryPPR = 0]_vars
  <2> SUFFICES ASSUME TypeOK, TimerISR, NEW e \in Encoders,
                      Settled(e), Rotary[e].position # Rotary'[e].position,
                      GetDirection(Rotary'[e]) # 0
               PROVE  (GetPosition(Rotary'[e]) - GetPosition(Rotary[e])
                        - Signed(GetDirection(Rotary'[e]))) % SettingsRotary.RotaryPPR = 0
    OBVIOUS
  <2> DEFINE x == Rotary[e].position
             y == Rotary'[e].position
             d == Rotary'[e].direction
             P == SettingsRotary.RotaryPPR
  <2>1. PICK step \in {-1, 1} :
            /\ y = Advance(x, step, P)
            /\ d = IF HoldTime = 0 THEN 0 ELSE IF step = 1 THEN 1 ELSE ByteSize - 1
            /\ Rotary'[e].isInverted = Rotary[e].isInverted
    BY MoveLemma
  <2>2. ByteSize \in Nat /\ ByteSize >= 4
    BY ByteSizeAssumption
  <2>3. P \in 1 .. ByteSize /\ x \in 0 .. P - 1
    BY <2>2 DEF Settled, TypeOK, Encoder, Byte
  <2>4. y = (x + step) % P /\ y \in 0 .. P - 1
    BY <2>1, <2>3, AdvanceLemma
  <2>5. (y - x - step) % P = 0 /\ (x - y + step) % P = 0
    <3>1. P \in Nat \ {0} /\ x \in 0 .. P - 1 /\ y = (x + step) % P
      BY <2>2, <2>3, <2>4
    <3> HIDE DEF x, y, P
    <3> QED
      BY <3>1, CircleLemma
  <2>6. d # 0 /\ d = IF step = 1 THEN 1 ELSE ByteSize - 1
    <3>1. ByteSize % ByteSize = 0
      BY <2>2
    <3> QED
      BY <2>1, <2>2, <3>1 DEF GetDirection
  <2> HIDE DEF x, y, d, P
  <2>7. CASE Rotary[e].isInverted
    <3>1. /\ GetPosition(Rotary'[e]) = ByteSize - 1 - y
          /\ GetPosition(Rotary[e]) = ByteSize - 1 - x
      BY <2>1, <2>7 DEF GetPosition, x, y
    <3>2. GetDirection(Rotary'[e]) = IF step = 1 THEN ByteSize - 1 ELSE 1
      <4>1. (ByteSize - 1) % ByteSize = ByteSize - 1 /\ 1 % ByteSize = 1
        BY <2>2
      <4>2. GetDirection(Rotary'[e]) = (ByteSize - d) % ByteSize
        BY <2>1, <2>7 DEF GetDirection, d
      <4> QED
        BY <2>2, <2>6, <4>1, <4>2
    <3>3. Signed(GetDirection(Rotary'[e])) = -step
      BY <2>2, <3>2 DEF Signed
    <3>4. (ByteSize - 1 - y) - (ByteSize - 1 - x) - (-step) = x - y + step
      BY <2>2, <2>3, <2>4
    <3> QED
      BY <2>5, <3>1, <3>3, <3>4 DEF P
  <2>8. CASE ~Rotary[e].isInverted
    <3>1. GetPosition(Rotary'[e]) = y /\ GetPosition(Rotary[e]) = x
      BY <2>1, <2>8 DEF GetPosition, x, y
    <3>2. GetDirection(Rotary'[e]) = d
      BY <2>1, <2>8 DEF GetDirection, d
    <3>3. Signed(GetDirection(Rotary'[e])) = step
      BY <2>2, <2>6, <3>2 DEF Signed
    <3> QED
      BY <2>5, <3>1, <3>3 DEF P
  <2> QED
    BY <2>7, <2>8
<1> QED
  BY <1>1, TypeCorrect, PTL DEF Spec, DirectionAgrees

(* The step behind SpinDown: while the shaft stays where the interrupt     *)
(* last saw it, no sample moves the position, and each counts the hold     *)
(* counter down by one, from whatever state skipped steps left behind.     *)
StillCountsDown ==
    [][TimerISR =>
        \A e \in Encoders : moved[e] = 0 =>
            /\ Rotary'[e].position = Rotary[e].position
            /\ Rotary'[e].hold = IF Rotary[e].hold = 0 THEN 0 ELSE Rotary[e].hold - 1]_vars

(* A sample of a shaft at rest emits no code, whichever row the decoder is *)
(* in, so the hold counter runs out and the direction is released          *)
(* (Rotary.c:45-50, 138-142).                                              *)
THEOREM StillShaftCountsDown == Spec => StillCountsDown
<1>1. TypeOK /\ DecoderInv /\ [Next]_vars =>
        [TimerISR =>
            \A e \in Encoders : moved[e] = 0 =>
                /\ Rotary'[e].position = Rotary[e].position
                /\ Rotary'[e].hold = IF Rotary[e].hold = 0 THEN 0 ELSE Rotary[e].hold - 1]_vars
  <2> SUFFICES ASSUME TypeOK, DecoderInv, TimerISR, NEW e \in Encoders, moved[e] = 0
               PROVE  /\ Rotary'[e].position = Rotary[e].position
                      /\ Rotary'[e].hold = IF Rotary[e].hold = 0 THEN 0 ELSE Rotary[e].hold - 1
    OBVIOUS
  <2> DEFINE r == Rotary[e]
             code == Code(NextState(r.state, phase[e]))
  <2>1. /\ r \in Encoder /\ phase[e] \in 0..3
        /\ Rotary'[e] = Sample(r, phase[e])
    BY DEF TimerISR, TypeOK
  <2>2. SeenPhase(e) = phase[e]
    BY <2>1 DEF SeenPhase
  <2>3. code = 0
    BY <2>1, <2>2, StillLemma DEF DecoderInv, InPhase, Encoder
  <2>4. /\ Rotary'[e].position = IF code = 0 THEN r.position
                ELSE Advance(r.position, IF code = CounterClockwise THEN -1 ELSE 1,
                             SettingsRotary.RotaryPPR)
        /\ Rotary'[e].hold = HoldAfter(r, code)
    BY <2>1 DEF Sample, Encoder
  <2> HIDE DEF code
  <2> QED
    BY <2>3, <2>4 DEF HoldAfter
<1> QED
  BY <1>1, TypeCorrect, DecoderInPhase, PTL DEF Spec, StillCountsDown
-----------------------------------------------------------------------------
(* Each encoder is an absolute dial.                                       *)

(* A whole turn more or less is the same mark.                             *)
LEMMA TurnLemma ==
    ASSUME NEW M \in Nat \ {0}, NEW a \in -(2 * M) .. M - 1
    PROVE  (a + M) % M = a % M
<1>1. CASE a \in 0 .. M - 1
  <2>1. a % M = a
    BY <1>1
  <2>2. (a + M) % M = a
    BY <1>1
  <2> QED
    BY <2>1, <2>2
<1>2. CASE a \in -M .. -1
  <2>1. a % M = a + M
    BY <1>2
  <2>2. (a + M) % M = a + M
    BY <1>2
  <2> QED
    BY <2>1, <2>2
<1>3. CASE a \in -(2 * M) .. -M - 1
  <2>1. a % M = a + 2 * M
    BY <1>3
  <2>2. (a + M) % M = a + 2 * M
    BY <1>3
  <2> QED
    BY <2>1, <2>2
<1> QED
  BY <1>1, <1>2, <1>3

(* Turning a mark that is within a turn of the dial, and turning on.       *)
LEMMA MarkLemma ==
    ASSUME NEW M \in Nat, M >= 2, NEW a \in -2 .. M, NEW d \in {-1, 1}
    PROVE  /\ a % M \in 0 .. M - 1
           /\ ((a % M) + d) % M = (a + d) % M
<1>1. CASE a \in 0 .. M - 1
  BY <1>1
<1>2. CASE a = M
  <2>1. a % M = 0
    BY <1>2
  <2>2. (d + M) % M = d % M
    <3>1. M \in Nat \ {0} /\ d \in -(2 * M) .. M - 1
      OBVIOUS
    <3> QED
      BY <3>1, TurnLemma
  <2> QED
    BY <1>2, <2>1, <2>2
<1>3. CASE a \in -2 .. -1
  <2>1. a % M = a + M
    BY <1>3
  <2>2. ((a + d) + M) % M = (a + d) % M
    <3> DEFINE b == a + d
    <3>1. M \in Nat \ {0} /\ b \in -(2 * M) .. M - 1
      BY <1>3
    <3> HIDE DEF b
    <3>2. (b + M) % M = b % M
      BY <3>1, TurnLemma
    <3> QED
      BY <3>2 DEF b
  <2>3. a % M \in 0 .. M - 1
    BY <1>3, <2>1
  <2> QED
    BY <1>3, <2>1, <2>2, <2>3
<1> QED
  BY <1>1, <1>2, <1>3

\* The half step h, of P, leads from the position x and a row with the lag j
\* to the position y and a row with the lag k, when the shaft moved m.
Leads(P, h, x, j, m, y, k) == m + k - j = 2 * h /\ y = (x + h) % P

(* A reading: the position y that a half step leads to, and a row with the *)
(* lag k, stand for the mark that x and j stood for, m marks on; and y is  *)
(* the tooth of that mark.                                                 *)
LEMMA ReadLemma ==
    ASSUME NEW P \in Nat \ {0}, NEW x \in 0 .. P - 1, NEW h \in -1..1,
           NEW j \in -1..1, NEW k \in -1..1, NEW m \in -1..1,
           NEW y \in 0 .. P - 1, Leads(P, h, x, j, m, y, k)
    PROVE  /\ (2 * y - k) % (2 * P) = (2 * x - j + m) % (2 * P)
           /\ (((2 * y - k) % (2 * P)) - 2 * y) % (2 * P) \in {0, 1, 2 * P - 1}
<1> DEFINE M == 2 * P
<1> USE DEF Leads
<1>1. M \in Nat \ {0} /\ M >= 2
  OBVIOUS
<1>2. 2 * x - j + m = 2 * (x + h) - k
  OBVIOUS
<1>3. y = x + h \/ y = x + h - P \/ y = x + h + P
  <2>1. CASE x + h \in 0 .. P - 1
    BY <2>1
  <2>2. CASE x + h = P
    BY <2>2
  <2>3. CASE x + h = -1
    <3>1. (x + h) % P = P - 1
      BY <2>3
    <3> QED
      BY <2>3, <3>1
  <2> QED
    BY <2>1, <2>2, <2>3
<1>4. (2 * y - k) % M = (2 * (x + h) - k) % M
  <2>1. CASE y = x + h
    BY <2>1
  <2>2. CASE y = x + h - P
    <3> DEFINE b == 2 * y - k
    <3>1. 2 * (x + h) - k = b + M /\ b \in -(2 * M) .. M - 1
      BY <2>2
    <3> HIDE DEF M, b
    <3>2. (b + M) % M = b % M
      BY <1>1, <3>1, TurnLemma
    <3> QED
      BY <3>1, <3>2 DEF b
  <2>3. CASE y = x + h + P
    <3> DEFINE b == 2 * (x + h) - k
    <3>1. 2 * y - k = b + M /\ b \in -(2 * M) .. M - 1
      BY <2>3
    <3> HIDE DEF M, b
    <3>2. (b + M) % M = b % M
      BY <1>1, <3>1, TurnLemma
    <3> QED
      BY <3>1, <3>2 DEF b
  <2> QED
    BY <1>3, <2>1, <2>2, <2>3
<1>5. (((2 * y - k) % M) - 2 * y) % M \in {0, 1, M - 1}
  <2>1. CASE 2 * y - k \in 0 .. M - 1
    <3>1. ((2 * y - k) % M) - 2 * y = -k
      BY <2>1
    <3>2. (-k) % M \in {0, 1, M - 1}
      <4>1. k = 1 => (-k) % M = M - 1
        BY <1>1
      <4>2. k = 0 => (-k) % M = 0
        BY <1>1
      <4>3. k = -1 => (-k) % M = 1
        BY <1>1
      <4> QED
        BY <4>1, <4>2, <4>3
    <3> QED
      BY <3>1, <3>2
  <2>2. CASE 2 * y - k = -1
    <3>1. (2 * y - k) % M = M - 1 /\ y = 0
      BY <2>2
    <3> QED
      BY <1>1, <3>1
  <2> QED
    BY <2>1, <2>2
<1> QED
  BY <1>2, <1>4, <1>5

\* The encoder is not lost, and the mark it stands at before remainders.
Known(e) == InPhase(e) /\ Settled(e) /\ moved[e] \in -1..1
Place(e) == 2 * Rotary[e].position - Lag(Row(Rotary[e].state)) + moved[e]

(* What Angle is, and that it is a mark of the dial.                       *)
LEMMA AngleLemma ==
    ASSUME TypeOK, NEW e \in Encoders
    PROVE  /\ Known(e) => /\ Angle(e) = Place(e) % (2 * SettingsRotary.RotaryPPR)
                          /\ SettingsRotary.RotaryPPR \in Nat \ {0}
                          /\ Rotary[e].position \in 0 .. SettingsRotary.RotaryPPR - 1
                          /\ Place(e) \in -2 .. 2 * SettingsRotary.RotaryPPR
                          /\ Angle(e) \in 0 .. 2 * SettingsRotary.RotaryPPR - 1
           /\ ~Known(e) => Angle(e) = -1
           /\ Lag(Row(Rotary[e].state)) \in -1..1
<1>1. Lag(Row(Rotary[e].state)) \in -1..1
  BY DEF Lag
<1>2. ~Known(e) => Angle(e) = -1
  BY DEF Known, Angle
<1>3. ASSUME Known(e)
      PROVE  /\ Angle(e) = Place(e) % (2 * SettingsRotary.RotaryPPR)
             /\ SettingsRotary.RotaryPPR \in Nat \ {0}
             /\ Rotary[e].position \in 0 .. SettingsRotary.RotaryPPR - 1
             /\ Place(e) \in -2 .. 2 * SettingsRotary.RotaryPPR
             /\ Angle(e) \in 0 .. 2 * SettingsRotary.RotaryPPR - 1
  <2> DEFINE P == SettingsRotary.RotaryPPR
             M == 2 * P
             L == Lag(Row(Rotary[e].state))
             x == Rotary[e].position
             m == moved[e]
  <2>1. P \in Nat \ {0} /\ x \in 0 .. P - 1
    BY <1>3, ByteSizeAssumption DEF Known, Settled, TypeOK, Encoder, Byte
  <2>2. Angle(e) = Place(e) % M /\ Place(e) = 2 * x - L + m /\ m \in -1..1 /\ L \in -1..1
    BY <1>1, <1>3 DEF Known, Angle, Place
  <2> HIDE DEF P, L, x, m
  <2>3. Place(e) \in -2 .. M /\ M \in Nat /\ M >= 2
    BY <2>1, <2>2
  <2>4. Place(e) % M \in 0 .. M - 1
    BY <2>3, MarkLemma
  <2> QED
    BY <2>1, <2>2, <2>3, <2>4 DEF P, x
<1> QED
  BY <1>1, <1>2, <1>3

AnglesOK == [e \in Encoders |-> Angle(e)] \in [Encoders -> D!Angles]

LEMMA AnglesLemma == TypeOK => AnglesOK
<1> SUFFICES ASSUME TypeOK, NEW e \in Encoders
             PROVE  Angle(e) \in D!Angles
  BY DEF AnglesOK
<1> QED
  BY AngleLemma DEF D!Angles, D!Lost, D!Marks

LEMMA DialInit == Init => D!Init
<1> SUFFICES ASSUME Init PROVE D!Init
  OBVIOUS
<1>1. TypeOK /\ AnglesOK
  BY TypeInit, AnglesLemma
<1>2. SettingsRotary.RotaryPPR \in Nat
  BY <1>1, ByteSizeAssumption DEF TypeOK, Word, WordSize
<1>3. /\ moved = [e \in Encoders |-> 0]
      /\ [e \in Encoders |-> Rotary[e].position] = [e \in Encoders |-> 0]
  BY DEF Init
<1>4. ASSUME NEW e \in Encoders, Angle(e) # -1
      PROVE  D!Shows(Angle(e), 0)
  <2>1. Angle(e) = Place(e) % (2 * SettingsRotary.RotaryPPR) /\ SettingsRotary.RotaryPPR \in Nat \ {0}
    BY <1>1, <1>4, AngleLemma
  <2>2. Rotary[e].state = 0 /\ Rotary[e].position = 0 /\ moved[e] = 0
    BY DEF Init
  <2>3. Lag(Row(Rotary[e].state)) = 0
    BY <2>2 DEF Row, Lag
  <2>4. Place(e) = 0
    BY <2>2, <2>3 DEF Place
  <2> QED
    BY <2>1, <2>4 DEF D!Shows, D!Marks
<1> QED
  BY <1>1, <1>2, <1>3, <1>4 DEF D!Init, D!Lost, AnglesOK

(* The player turns one dial by one mark, and loses it only by skipping.   *)
LEMMA DialTurn ==
    ASSUME TypeOK, TypeOK', AnglesOK', NEW e \in Encoders, Turn(e)
    PROVE  D!Next
<1>1. PICK d \in {-1, 1} :
          /\ phase' = [phase EXCEPT ![e] = (@ + d) % 4]
          /\ moved' = [moved EXCEPT ![e] = @ + d]
          /\ UNCHANGED <<Rotary, SettingsRotary>>
  BY DEF Turn
<1>2. ASSUME NEW f \in Encoders
      PROVE  SeenPhase(f)' = SeenPhase(f)
  <2>1. phase[f] \in Int /\ moved[f] \in Int
    BY SkipAssumption DEF TypeOK
  <2> QED
    BY <1>1, <2>1 DEF TypeOK, SeenPhase
<1>3. ASSUME NEW f \in Encoders \ {e}
      PROVE  Angle(f)' = Angle(f)
  <2>1. moved'[f] = moved[f]
    BY <1>1 DEF TypeOK
  <2> QED
    BY <1>1, <1>2, <2>1 DEF Angle, InPhase, Settled
<1>4. ASSUME Angle(e) # -1
      PROVE  Angle(e)' = IF moved'[e] \in -1..1
                         THEN (Angle(e) + d) % (2 * SettingsRotary.RotaryPPR) ELSE -1
  <2>1. Known(e)
    BY <1>4, AngleLemma
  <2>2. moved'[e] = moved[e] + d /\ moved[e] \in Int
    BY <1>1, SkipAssumption DEF TypeOK
  <2>3. InPhase(e)' /\ Settled(e)'
    BY <1>1, <1>2, <2>1 DEF Known, InPhase, Settled
  <2>4. CASE moved'[e] \in -1..1
    <3> DEFINE M == 2 * SettingsRotary.RotaryPPR
    <3>1. Angle(e)' = Place(e)' % M
      BY <1>1, <2>3, <2>4 DEF Angle, Place
    <3>2. /\ Angle(e) = Place(e) % M
          /\ Place(e) \in -2 .. M
          /\ SettingsRotary.RotaryPPR \in Nat \ {0}
          /\ Rotary[e].position \in Int /\ Lag(Row(Rotary[e].state)) \in Int
      BY <2>1, AngleLemma
    <3>3. Place(e)' = Place(e) + d
      BY <1>1, <2>2, <3>2 DEF Place
    <3>4. M \in Nat /\ M >= 2
      BY <3>2
    <3> HIDE DEF M
    <3>5. ((Place(e) % M) + d) % M = (Place(e) + d) % M
      BY <3>2, <3>4, MarkLemma
    <3> QED
      BY <2>4, <3>1, <3>2, <3>3, <3>5 DEF M
  <2>5. CASE moved'[e] \notin -1..1
    BY <2>5 DEF Angle
  <2> QED
    BY <2>4, <2>5
<1>5. D!Turn(e, d)
  <2> DEFINE A == [f \in Encoders |-> Angle(f)]
  <2>1. \A f \in Encoders : A[f] = Angle(f) /\ A'[f] = Angle(f)'
    OBVIOUS
  <2>2. A' \in [Encoders -> D!Angles] /\ D!Angles' = D!Angles
    BY <1>1 DEF AnglesOK, D!Angles, D!Lost, D!Marks
  <2>3. [f \in Encoders |-> Rotary[f].position]' = [f \in Encoders |-> Rotary[f].position]
    BY <1>1
  <2> HIDE DEF A
  <2>4. \A f \in Encoders \ {e} : A'[f] = A[f]
    BY <1>3, <2>1
  <2>5. A[e] # D!Lost =>
            A'[e] = IF moved'[e] \in -1..1 THEN (A[e] + d) % D!Marks ELSE D!Lost
    BY <1>4, <2>1 DEF D!Lost, D!Marks
  <2> QED
    BY <1>1, <2>2, <2>3, <2>4, <2>5 DEF D!Turn, A
<1> QED
  BY <1>5 DEF D!Next

(* The interrupt reads every dial, and turns none.                         *)
LEMMA DialRead ==
    ASSUME TypeOK, TypeOK', AnglesOK', TimerISR
    PROVE  D!Read
<1>1. moved' = [e \in Encoders |-> 0] /\ SettingsRotary' = SettingsRotary
  BY DEF TimerISR
<1>2. [e \in Encoders |-> Rotary[e].position]' \in [Encoders -> Nat]
  BY ByteSizeAssumption DEF TypeOK, Encoder, Byte
<1>3. ASSUME NEW e \in Encoders, Angle(e) # -1
      PROVE  Angle(e)' = Angle(e) /\ D!Shows(Angle(e), Rotary'[e].position)
  <2> DEFINE P == SettingsRotary.RotaryPPR
             x == Rotary[e].position
             y == Rotary'[e].position
             h == HalfSteps(e)
             j == Lag(Row(Rotary[e].state))
             k == Lag(Row(Rotary'[e].state))
             m == moved[e]
  <2>1. Known(e)
    BY <1>3, AngleLemma
  <2>2. /\ InPhase(e)' /\ Settled(e)'
        /\ y = (x + h) % P /\ h \in -1..1
        /\ m + k - j = 2 * h
    BY <2>1, DriftStep DEF Known
  <2>3. /\ Angle(e) = (2 * x - j + m) % (2 * P)
        /\ P \in Nat \ {0} /\ x \in 0 .. P - 1
        /\ j \in -1..1 /\ m \in -1..1
    BY <2>1, AngleLemma DEF Place, Known
  <2>4. k \in -1..1 /\ moved'[e] = 0
    BY <1>1 DEF Lag
  <2>5. Angle(e)' = (2 * y - k + 0) % (2 * P)
    BY <1>1, <2>2, <2>4 DEF Angle
  <2> HIDE DEF P, x, y, h, j, k, m
  <2>6. y \in 0 .. P - 1
    BY <2>2, <2>3
  <2>7. 2 * y - k + 0 = 2 * y - k
    BY <2>4, <2>6
  <2>8. /\ (2 * y - k) % (2 * P) = (2 * x - j + m) % (2 * P)
        /\ (((2 * y - k) % (2 * P)) - 2 * y) % (2 * P) \in {0, 1, 2 * P - 1}
    <3>1. /\ P \in Nat \ {0} /\ x \in 0 .. P - 1 /\ h \in -1..1
          /\ j \in -1..1 /\ k \in -1..1 /\ m \in -1..1
          /\ y \in 0 .. P - 1 /\ Leads(P, h, x, j, m, y, k)
      BY <2>2, <2>3, <2>4, <2>6 DEF Leads
    <3> QED
      BY <3>1, ReadLemma
  <2> QED
    BY <2>3, <2>5, <2>7, <2>8 DEF D!Shows, D!Marks, P, y
<1> QED
  BY <1>1, <1>2, <1>3 DEF D!Read, D!Lost, D!Angles, D!Marks, AnglesOK

(* Every step is a step of the dials, or one that they do not see.         *)
LEMMA DialStep ==
    ASSUME TypeOK, TypeOK', AnglesOK', [Next]_vars
    PROVE  [D!Next]_D!vars
<1>1. ASSUME NEW e \in Encoders, Turn(e)
      PROVE  D!Next
  BY <1>1, DialTurn
<1>2. CASE TimerISR
  BY <1>2, DialRead DEF D!Next
<1>3. ASSUME UNCHANGED shaft,
             SettingsRotary'.RotaryPPR = SettingsRotary.RotaryPPR,
             \A e \in Encoders : /\ Rotary'[e].state = Rotary[e].state
                                 /\ Rotary'[e].position = Rotary[e].position
      PROVE  UNCHANGED D!vars
  <2>1. \A e \in Encoders : Angle(e)' = Angle(e)
    BY <1>3 DEF Angle, InPhase, SeenPhase, Settled, shaft
  <2>2. /\ [e \in Encoders |-> Angle(e)]' = [e \in Encoders |-> Angle(e)]
        /\ [e \in Encoders |-> Rotary[e].position]' = [e \in Encoders |-> Rotary[e].position]
    BY <1>3, <2>1
  <2> QED
    BY <1>3, <2>2 DEF D!vars, shaft
<1>4. CASE UpdatePPR
  <2>1. UNCHANGED <<shaft, Rotary>>
    BY <1>4 DEF UpdatePPR
  <2>2. CASE SettingsRotary'.RotaryPPR = SettingsRotary.RotaryPPR
    BY <1>3, <2>1, <2>2
  <2>3. CASE SettingsRotary'.RotaryPPR # SettingsRotary.RotaryPPR
    <3>1. SettingsRotary'.RotaryPPR \in Nat
      BY ByteSizeAssumption DEF TypeOK, Word, WordSize
    <3>2. D!Adjust
      BY <2>1, <2>3, <3>1 DEF D!Adjust, AnglesOK, shaft
    <3> QED
      BY <3>2 DEF D!Next
  <2> QED
    BY <2>2, <2>3
<1>5. CASE UpdateInvert \/ UpdateHold
  <2>1. /\ UNCHANGED <<shaft, Rotary>>
        /\ SettingsRotary'.RotaryPPR = SettingsRotary.RotaryPPR
    BY <1>5 DEF UpdateInvert, UpdateHold, TypeOK
  <2> QED
    BY <1>3, <2>1
<1>6. CASE Rotary_AttachEncoder
  <2>1. UNCHANGED <<shaft, SettingsRotary>>
    BY <1>6 DEF Rotary_AttachEncoder
  <2>2. \A e \in Encoders : /\ Rotary'[e].state = Rotary[e].state
                            /\ Rotary'[e].position = Rotary[e].position
    BY <1>6 DEF Rotary_AttachEncoder, TypeOK, Encoder
  <2> QED
    BY <1>3, <2>1, <2>2
<1>7. CASE ApplyCommand \/ StoreCommand \/ SaveDone \/ Rotary_Init \/ SetupDone
              \/ UNCHANGED vars
  <2>1. UNCHANGED <<shaft, Rotary, SettingsRotary>>
    BY <1>7 DEF ApplyCommand, StoreCommand, SaveDone, Rotary_Init, SetupDone, vars, shaft
  <2> QED
    BY <1>3, <2>1
<1> QED
  BY <1>1, <1>2, <1>3, <1>4, <1>5, <1>6, <1>7 DEF Next

(* The controller's encoders are absolute dials (README.md:6), for every   *)
(* number of encoders, tooth count and width of a byte: the half-step      *)
(* table, the hold counter and the remainder in 16 bits read each shaft to *)
(* the nearest tooth, in every interleaving with saves and settings, and   *)
(* only a skipped quarter step or a new tooth count may lose the angle.    *)
THEOREM EncodersAreDials == Spec => ImplementsDial
<1>1. TypeOK /\ TypeOK' /\ AnglesOK' /\ [Next]_vars => [D!Next]_D!vars
  BY DialStep
<1> QED
  BY <1>1, DialInit, AnglesLemma, TypeCorrect, PTL DEF Spec, ImplementsDial, D!Spec
-----------------------------------------------------------------------------
(* The encoders with the descriptor callback.                              *)

DTypeOK ==
    /\ TypeOK
    /\ LogicalMax \in Byte
    /\ callback \in BOOLEAN
    /\ current \in BOOLEAN

\* The maximum is the one of the tooth count in use, when it is called so.
MaximumInv ==
    current => /\ SettingsRotary.RotaryPPR # 0
               /\ LogicalMax = (SettingsRotary.RotaryPPR - 1) % ByteSize

(* Outside the callback's own accesses, a step is a step of the encoders.  *)
LEMMA EncodingLemma == Encoding => Next
BY DEF Encoding, Next

LEMMA DInitInv == DInit => DTypeOK /\ MaximumInv
<1> SUFFICES ASSUME DInit PROVE DTypeOK /\ MaximumInv
  OBVIOUS
<1>1. TypeOK
  BY TypeInit DEF DInit
<1>2. LogicalMax \in Byte
  BY ByteSizeAssumption DEF DInit, Byte
<1>3. callback = FALSE /\ current = FALSE
  BY DEF DInit
<1> QED
  BY <1>1, <1>2, <1>3 DEF DTypeOK, MaximumInv

(* The callback's stray store leaves the encoder's other fields alone, and *)
(* whatever it reads through the pointer makes a byte.                     *)
LEMMA DTypeStep == DTypeOK /\ [DNext]_<<vars, dvars>> => DTypeOK'
<1> SUFFICES ASSUME DTypeOK, [DNext]_<<vars, dvars>>
             PROVE  DTypeOK'
  OBVIOUS
<1>1. CASE /\ Encoding
           /\ current' = (current /\ SettingsRotary' = SettingsRotary)
           /\ UNCHANGED <<LogicalMax, callback>>
  <2>1. TypeOK'
    BY <1>1, EncodingLemma, TypeStep DEF DTypeOK
  <2>2. current' \in BOOLEAN
    BY <1>1
  <2>3. LogicalMax' \in Byte /\ callback' \in BOOLEAN
    BY <1>1 DEF DTypeOK
  <2> QED
    BY <2>1, <2>2, <2>3 DEF DTypeOK
<1>2. CASE AddressRotary
  <2>1. 0 \in Encoders
    BY EncoderZeroAssumption, EncodersAssumption DEF Encoders
  <2>2. [Rotary[0] EXCEPT !.position = SettingsHigh] \in Encoder
    BY <2>1, SettingsHighAssumption DEF DTypeOK, TypeOK, Encoder
  <2>3. Rotary' = [Rotary EXCEPT ![0] = [Rotary[0] EXCEPT !.position = SettingsHigh]]
    BY <1>2, <2>1 DEF AddressRotary, DTypeOK, TypeOK
  <2>4. Rotary' \in [Encoders -> Encoder]
    BY <2>1, <2>2, <2>3 DEF DTypeOK, TypeOK
  <2>5. TypeOK'
    BY <1>2, <2>4 DEF AddressRotary, DTypeOK, TypeOK, shaft
  <2>6. callback' \in BOOLEAN
    BY <1>2 DEF AddressRotary
  <2>7. LogicalMax' \in Byte /\ current' \in BOOLEAN
    BY <1>2 DEF AddressRotary, DTypeOK
  <2> QED
    BY <2>5, <2>6, <2>7 DEF DTypeOK
<1>3. CASE AlterMaximum
  <2>1. TypeOK'
    BY <1>3, TypeStep DEF AlterMaximum, DTypeOK
  <2>2. PICK ppr \in Word : LogicalMax' = MaximumFor(ppr)
    BY <1>3 DEF AlterMaximum, DTypeOK, TypeOK
  <2>3. ByteSize \in Nat /\ ByteSize >= 4 /\ ppr \in Int
    BY <2>2, ByteSizeAssumption DEF Word, WordSize
  <2>4. LogicalMax' \in Byte
    BY <2>2, <2>3 DEF MaximumFor, DTypeOK, Byte
  <2>5. callback' \in BOOLEAN /\ current' \in BOOLEAN
    BY <1>3 DEF AlterMaximum
  <2> QED
    BY <2>1, <2>4, <2>5 DEF DTypeOK
<1>4. CASE UNCHANGED <<vars, dvars>>
  <2>1. TypeOK'
    BY <1>4, TypeStep DEF DTypeOK
  <2> QED
    BY <1>4, <2>1 DEF dvars, DTypeOK
<1> QED
  BY <1>1, <1>2, <1>3, <1>4 DEF DNext

(* Only the callback makes the maximum current, and only a write to the    *)
(* settings can make it stale.                                             *)
LEMMA MaximumStep == DTypeOK /\ MaximumInv /\ [DNext]_<<vars, dvars>> => MaximumInv'
<1> SUFFICES ASSUME DTypeOK, MaximumInv, [DNext]_<<vars, dvars>>, current'
             PROVE  /\ SettingsRotary'.RotaryPPR # 0
                    /\ LogicalMax' = (SettingsRotary'.RotaryPPR - 1) % ByteSize
  BY DEF MaximumInv
<1>1. CASE /\ Encoding
           /\ current' = (current /\ SettingsRotary' = SettingsRotary)
           /\ UNCHANGED <<LogicalMax, callback>>
  BY <1>1 DEF MaximumInv
<1>2. CASE AddressRotary
  BY <1>2 DEF AddressRotary, MaximumInv
<1>3. CASE AlterMaximum
  <2>1. /\ SettingsRotary' = SettingsRotary
        /\ SettingsRotary.RotaryPPR # 0
        /\ LogicalMax' = MaximumFor(SettingsRotary.RotaryPPR)
    BY <1>3 DEF AlterMaximum, vars
  <2> QED
    BY <2>1 DEF MaximumFor
<1>4. CASE UNCHANGED <<vars, dvars>>
  BY <1>4 DEF vars, dvars, MaximumInv
<1> QED
  BY <1>1, <1>2, <1>3, <1>4 DEF DNext

(* The widths of a byte, and that a current maximum is the tooth count's,  *)
(* in every interleaving of the callback's two accesses with the           *)
(* interrupt.                                                              *)
THEOREM MaximumIsToothCounts == DSpec => [](DTypeOK /\ MaximumInv)
<1>1. DTypeOK /\ MaximumInv /\ [DNext]_<<vars, dvars>> => DTypeOK' /\ MaximumInv'
  BY DTypeStep, MaximumStep
<1> QED
  BY <1>1, DInitInv, PTL DEF DSpec

(* The logical maximum a host reads (Descriptors.c:375-377) bounds every   *)
(* position that an encoder which is not inverted is moved to while the    *)
(* tooth count it was made from is in use, although the callback's pointer *)
(* overwrites encoder 0 and may be read after the interrupt changed it.    *)
THEOREM PositionsWithinMaximum == DSpec => WithinMaximum
<1>1. DTypeOK /\ MaximumInv /\ [DNext]_<<vars, dvars>> =>
        [TimerISR /\ current /\ SettingsRotary.RotaryPPR <= ByteSize =>
            \A e \in Encoders :
                ~Rotary[e].isInverted /\ Rotary'[e].position # Rotary[e].position
                => GetPosition(Rotary'[e]) <= LogicalMax]_<<vars, dvars>>
  <2> SUFFICES ASSUME DTypeOK, MaximumInv, TimerISR, current,
                      SettingsRotary.RotaryPPR <= ByteSize,
                      NEW e \in Encoders, ~Rotary[e].isInverted,
                      Rotary'[e].position # Rotary[e].position
               PROVE  GetPosition(Rotary'[e]) <= LogicalMax
    OBVIOUS
  <2> DEFINE P == SettingsRotary.RotaryPPR
  <2>1. TypeOK
    BY DEF DTypeOK
  <2>2. PICK step \in {-1, 1} :
            /\ Rotary'[e].position = Advance(Rotary[e].position, step, P)
            /\ Rotary'[e].isInverted = Rotary[e].isInverted
    BY <2>1, MoveLemma
  <2>3. ByteSize \in Nat /\ ByteSize >= 4 /\ P \in 1 .. ByteSize /\ LogicalMax = (P - 1) % ByteSize
    <3>1. ByteSize \in Nat /\ ByteSize >= 4 /\ ByteSize * ByteSize \in Nat
      BY ByteSizeAssumption
    <3>2. P \in Nat
      BY <2>1, <3>1 DEF TypeOK, Word, WordSize
    <3> QED
      BY <3>1, <3>2 DEF MaximumInv
  <2>4. Rotary[e].position \in Byte
    BY <2>1 DEF TypeOK, Encoder
  <2>5. Rotary'[e].position \in 0 .. P - 1
    BY <2>2, <2>3, <2>4, RangeLemma
  <2>6. (P - 1) % ByteSize = P - 1
    BY <2>3
  <2>7. GetPosition(Rotary'[e]) = Rotary'[e].position
    BY <2>2 DEF GetPosition
  <2> HIDE DEF P
  <2> QED
    BY <2>3, <2>5, <2>6, <2>7
<1> QED
  BY <1>1, MaximumIsToothCounts, PTL DEF DSpec, WithinMaximum
=============================================================================
