---------------------------- MODULE ConfigProofs ----------------------------
(***************************************************************************)
(* Proofs about Config, for every header size, every set of settings the   *)
(* host may write, and with or without a crash in the middle of a save.    *)
(***************************************************************************)
EXTENDS Config, TLAPS

InHeader   == {"init header", "store header"}
InSettings == {"init settings", "store settings"}

(* What a save has written so far: the header's bytes that are not left,   *)
(* and then the settings' cells that are not left.  While it is under way  *)
(* no save counts as stored.                                               *)
SaveProgress ==
    /\ pc \in InHeader => \A i \in Header \ left : header[i]
    /\ pc \in InSettings => HeaderValid /\ \A c \in Cells \ left : eeprom[c] = Settings[c]
    /\ pc \in InHeader \cup InSettings => stored = Nothing

(* The board is identified whenever hardware setup is near: a store command *)
(* identifies it before the save and sets the hardware up after it.        *)
Identified ==
    pc \in {"store header", "store settings"} => Settings["DeviceType"] = HOME

IInv == TypeOK /\ SaveIsDurable /\ HeaderHealed /\ NeverInverted /\ SaveProgress /\ Identified

LEMMA InitOK == Init => IInv
<1>1. HOME # ARCADE /\ Defaults \in [Cells -> Value]
  BY DEF HOME, ARCADE, Defaults, Value
<1> QED
  BY <1>1 DEF Init, IInv, TypeOK, SaveIsDurable, HeaderHealed, NeverInverted, SaveProgress,
     Identified, InHeader, InSettings, Nothing, HeaderValid, Value, Erased

\* What Identify and FailSafe do to a struct, and when the mask is inverted.
LEMMA IdentifyLemma ==
    ASSUME NEW s \in [Cells -> Value]
    PROVE  /\ Identify(s) \in [Cells -> Value]
           /\ Identify(s)["DeviceType"] = HOME
           /\ FailSafe(s) \in [Cells -> Value]
           /\ FailSafe(s)["DeviceType"] = s["DeviceType"]
           /\ s["DeviceType"] = HOME => Inverted(s, 0) = 0
BY DEF Identify, FailSafe, Inverted, Cells, Value, HOME, ARCADE, L_Direct

\* Where the values and the cells' names come from.
LEMMA ValueLemma ==
    /\ 0 \in Value /\ 1 \in Value /\ Erased \in Value
    /\ Timers \subseteq Cells
    /\ "DeviceType" \in Cells
    /\ Defaults \in [Cells -> Value]
BY DEF Value, Erased, Timers, Cells, Defaults

\* Changing one cell.
LEMMA PutLemma ==
    ASSUME NEW s \in [Cells -> Value], NEW c \in Cells, NEW v \in Value
    PROVE  [s EXCEPT ![c] = v] \in [Cells -> Value]
OBVIOUS

\* Two structs with the same cells are one.
LEMMA SameLemma ==
    ASSUME NEW s \in [Cells -> Value], NEW t \in [Cells -> Value],
           \A c \in Cells : s[c] = t[c]
    PROVE  s = t
OBVIOUS

LEMMA StepOK == IInv /\ [Next]_vars => IInv'
<1> SUFFICES ASSUME IInv, [Next]_vars
             PROVE  IInv'
  OBVIOUS
<1> USE DEF IInv, TypeOK, SaveIsDurable, HeaderHealed, NeverInverted, SaveProgress,
            Identified, InHeader, InSettings, HeaderValid
<1>1. CASE BootDirty
  BY <1>1 DEF BootDirty, BeginSave, Nothing
<1>2. CASE BootClean
  BY <1>2 DEF BootClean
<1>3. CASE Start
  BY <1>3, IdentifyLemma DEF Start
<1>4. CASE WriteHeader
  <2>1. PICK i \in left : header' = [header EXCEPT ![i] = TRUE] /\ left' = left \ {i}
    BY <1>4 DEF WriteHeader
  <2>2. /\ pc \in InHeader /\ pc' = pc /\ left \subseteq Header /\ stored = Nothing
        /\ UNCHANGED <<eeprom, Settings, InvertMask, stored>>
    BY <1>4 DEF WriteHeader
  <2>3. TypeOK'
    BY <2>1, <2>2
  <2>4. \A j \in Header \ left' : header'[j]
    BY <2>1, <2>2
  <2> QED
    BY <2>2, <2>3, <2>4 DEF Nothing
<1>5. CASE HeaderDone
  BY <1>5 DEF HeaderDone, Nothing
<1>6. CASE WriteSettings
  <2>1. PICK c \in left : eeprom' = [eeprom EXCEPT ![c] = Settings[c]] /\ left' = left \ {c}
    BY <1>6 DEF WriteSettings
  <2>2. /\ pc \in InSettings /\ pc' = pc /\ left \subseteq Cells /\ stored = Nothing
        /\ UNCHANGED <<header, Settings, InvertMask, stored>>
    BY <1>6 DEF WriteSettings
  <2>3. eeprom' \in [Cells -> Value]
    <3>1. c \in Cells /\ Settings[c] \in Value
      BY <2>1, <2>2
    <3> QED
      BY <2>1, <3>1
  <2>4. \A d \in Cells \ left' : eeprom'[d] = Settings[d]
    BY <2>1, <2>2
  <2>5. TypeOK' /\ SaveIsDurable'
    BY <2>1, <2>2, <2>3 DEF Nothing
  <2>6. SaveProgress'
    <3>1. HeaderValid'
      BY <2>2
    <3>2. stored' = Nothing /\ pc' \in InSettings /\ Settings' = Settings
      BY <2>2
    <3> HIDE DEF IInv, TypeOK, SaveIsDurable, HeaderHealed, HeaderValid, NeverInverted, Identified
    <3> QED
      BY <2>4, <3>1, <3>2
  <2>7. HeaderHealed' /\ NeverInverted' /\ Identified'
    BY <2>2
  <2> HIDE DEF TypeOK, SaveIsDurable, SaveProgress, HeaderHealed, NeverInverted, Identified
  <2> QED
    BY <2>5, <2>6, <2>7
<1>7. CASE SaveDone
  <2>1. /\ pc \in InSettings /\ left = {} /\ stored' = {Settings}
        /\ pc' \in {"loaded", "run"}
        /\ UNCHANGED <<header, eeprom, Settings, left>>
    BY <1>7 DEF SaveDone
  <2>2. HeaderValid /\ eeprom = Settings
    <3>1. HeaderValid /\ \A c \in Cells : eeprom[c] = Settings[c]
      BY <2>1
    <3>2. eeprom \in [Cells -> Value] /\ Settings \in [Cells -> Value]
      OBVIOUS
    <3> HIDE DEF IInv, SaveIsDurable, SaveProgress
    <3> QED
      BY <3>1, <3>2, SameLemma
  <2>3. InvertMask' = 0
    BY <1>7, IdentifyLemma DEF SaveDone
  <2>4. TypeOK'
    <3>1. Settings \in [Cells -> Value]
      OBVIOUS
    <3>2. stored' \subseteq [Cells -> Value]
      <4> HIDE DEF IInv
      <4> QED
        BY <2>1, <3>1
    <3> QED
      BY <2>1, <2>3, <3>2
  <2> QED
    BY <2>1, <2>2, <2>3, <2>4
<1>8. CASE UpdateSettings
  BY <1>8, PokesAssumption DEF UpdateSettings
<1>9. CASE ApplyCommand
  BY <1>9, IdentifyLemma DEF ApplyCommand
<1>10. CASE StoreCommand
  BY <1>10, IdentifyLemma DEF StoreCommand, BeginSave, Nothing
<1>11. CASE Countdown
  <2>1. PICK c \in Timers, v \in {0, 1} : Settings' = [Settings EXCEPT ![c] = v]
    BY <1>11 DEF Countdown
  <2>2. Settings' \in [Cells -> Value]
    <3>1. Settings \in [Cells -> Value]
      OBVIOUS
    <3> HIDE DEF IInv
    <3>2. c \in Cells /\ v \in Value
      BY ValueLemma
    <3> QED
      BY <2>1, <3>1, <3>2, PutLemma
  <2> QED
    BY <1>11, <2>2 DEF Countdown
<1>12. CASE Crash \/ CrashInSettings
  <2>1. /\ pc' = "boot" /\ left' = {} /\ InvertMask' = 0
        /\ UNCHANGED <<header, stored>>
    BY <1>12 DEF Crash, CrashInSettings, Restart
  <2>2. Settings' \in [Cells -> Value]
    <3>1. Settings' = Defaults
      BY <1>12 DEF Crash, CrashInSettings, Restart
    <3> HIDE DEF IInv
    <3> QED
      BY <3>1, ValueLemma
  <2>3. eeprom' \in [Cells -> Value]
    <3>1. CASE Crash
      BY <3>1 DEF Crash
    <3>2. CASE CrashInSettings
      <4>1. PICK c \in left : eeprom' = [eeprom EXCEPT ![c] = Erased]
        BY <3>2 DEF CrashInSettings
      <4>2. eeprom \in [Cells -> Value] /\ Erased \in Value
        BY ValueLemma
      <4> QED
        BY <4>1, <4>2
    <3> QED
      BY <1>12, <3>1, <3>2
  <2>4. eeprom' = eeprom \/ stored = Nothing
    BY <1>12 DEF Crash, CrashInSettings
  <2> QED
    BY <2>1, <2>2, <2>3, <2>4 DEF Nothing
<1>13. CASE UNCHANGED vars
  BY <1>13 DEF vars
<1> QED
  BY <1>1, <1>2, <1>3, <1>4, <1>5, <1>6, <1>7, <1>8, <1>9, <1>10, <1>11, <1>12, <1>13 DEF Next

LEMMA Inductive == Spec => []IInv
<1> QED
  BY InitOK, StepOK, PTL DEF Spec

(* Whatever the host writes and whenever the power fails, the cells hold   *)
(* bytes and the mask is one PS2_Init can set.                             *)
THEOREM TypeCorrect == Spec => []TypeOK
<1>1. IInv => TypeOK
  BY DEF IInv
<1> QED
  BY <1>1, Inductive, PTL

(* The EEPROM holds exactly the settings of the last save that finished,   *)
(* until the next one begins: Config_SaveEEPROM writes every cell, and     *)
(* nothing else writes to the EEPROM.                                      *)
THEOREM SavesAreDurable == Spec => []SaveIsDurable
<1>1. IInv => SaveIsDurable
  BY DEF IInv
<1> QED
  BY <1>1, Inductive, PTL

(* Past Config_Init the header is good, also when an earlier save was cut  *)
(* off within it.                                                          *)
THEOREM HeaderIsHealed == Spec => []HeaderHealed
<1>1. IInv => HeaderHealed
  BY DEF IInv
<1> QED
  BY <1>1, Inductive, PTL

(* PS2_Init never finds an ARCADE board: Config_Init and the commands that  *)
(* set the hardware up identify it first, so that the mask stays zero.     *)
THEOREM RepliesNeverInverted == Spec => []NeverInverted
<1>1. IInv => NeverInverted
  BY DEF IInv
<1> QED
  BY <1>1, Inductive, PTL

(* The step lemma of the refinement: each step of Config is a step that    *)
(* DurableSettings allows, or one that it does not see.                    *)
LEMMA DurableStep ==
    ASSUME IInv, IInv', [Next]_vars
    PROVE  [Durable!Next]_Durable!vars
<1> USE DEF IInv, TypeOK
<1>1. /\ Settings' \in [Cells -> Value] /\ Settings \in [Cells -> Value]
      /\ stored = {} \/ stored = {eeprom}
  BY DEF SaveIsDurable
<1>2. CASE BootDirty
  <2>1. stored = {} /\ stored' = {} /\ UNCHANGED Settings
    BY <1>2, <1>1 DEF BootDirty, BeginSave, Nothing, SaveIsDurable
  <2>2. pc \in {"boot"} /\ pc' = "init header"
    BY <1>2 DEF BootDirty, BeginSave
  <2> QED
    BY <2>1, <2>2 DEF Durable!vars
<1>3. CASE BootClean
  <2>1. Settings' \in IF stored = {} THEN [Cells -> Value] ELSE stored
    BY <1>3, <1>1 DEF BootClean
  <2> QED
    BY <1>3, <2>1 DEF BootClean, Durable!Load, Durable!Next
<1>4. CASE Start
  BY <1>4, <1>1 DEF Start, Durable!Change, Durable!Next
<1>5. CASE WriteHeader
  BY <1>5 DEF WriteHeader, Durable!vars
<1>6. CASE HeaderDone
  BY <1>6 DEF HeaderDone, Durable!vars
<1>7. CASE WriteSettings
  BY <1>7 DEF WriteSettings, Durable!vars
<1>8. CASE SaveDone
  <2>1. CASE pc = "init settings"
    BY <1>8, <2>1 DEF SaveDone, SaveProgress, InSettings, Nothing, Durable!SaveInitial, Durable!Next
  <2>2. CASE pc = "store settings"
    BY <1>8, <2>2 DEF SaveDone, Durable!Commit, Durable!Next
  <2> QED
    BY <1>8, <2>1, <2>2 DEF SaveDone
<1>9. CASE UpdateSettings
  BY <1>9, <1>1 DEF UpdateSettings, Durable!Change, Durable!Next
<1>10. CASE ApplyCommand
  BY <1>10, <1>1 DEF ApplyCommand, Durable!Change, Durable!Next
<1>11. CASE StoreCommand
  BY <1>11, <1>1 DEF StoreCommand, BeginSave, Nothing, Durable!BeginSave, Durable!Next
<1>12. CASE Countdown
  BY <1>12, <1>1 DEF Countdown, Durable!Change, Durable!Next
<1>13. CASE Crash \/ CrashInSettings
  BY <1>13 DEF Crash, CrashInSettings, Restart, Durable!PowerOff, Durable!Next
<1>14. CASE UNCHANGED vars
  BY <1>14 DEF vars, Durable!vars
<1> QED
  BY <1>2, <1>3, <1>4, <1>5, <1>6, <1>7, <1>8, <1>9, <1>10, <1>11, <1>12, <1>13, <1>14 DEF Next

(* LoadInEEPROM and Config_SaveEEPROM, a byte at a time and with the power *)
(* failing anywhere, implement DurableSettings: every boot loads the last  *)
(* save whole, unless that save was itself cut short.                      *)
THEOREM SettingsAreDurable == Spec => ImplementsDurable
<1>1. Init => Durable!Init
  BY DEF Init, Durable!Init, Nothing
<1> QED
  BY <1>1, Inductive, DurableStep, PTL DEF Spec, ImplementsDurable, Durable!Spec
=============================================================================
