------------------------------- MODULE Config -------------------------------
(***************************************************************************)
(* The settings and their copy in EEPROM (Config.c), from power-on to      *)
(* power loss: Config_Init, the commands of ProcessGenericHIDReport that   *)
(* change, apply and store the settings, and the crash that can come at    *)
(* any moment, also in the middle of a write.                              *)
(*                                                                         *)
(* The Settings struct is a function on Cells.  The cells the code treats  *)
(* specially have their names; "Other" stands for the rest.  An EEPROM     *)
(* cell that is being written when the power fails is left Erased, as are  *)
(* all of them before the first save.                                      *)
(***************************************************************************)
EXTENDS Integers, FiniteSets

CONSTANTS
    HeaderSize, \* the number of bytes of EEPROM_HEADER (8)
    Pokes       \* the <<cell, value>> pairs the host may write

Header == 1 .. HeaderSize
Cells  == {"LightsComm", "LightsAssert", "DeviceType", "DeviceComm", "PS2Assert", "Other"}
Timers == {"LightsAssert", "PS2Assert"}
Erased == 255
Value  == 0 .. 255

HOME      == 64     \* 0x40
ARCADE    == 128    \* 0x80
C_Default == 0
L_Direct  == 0

ASSUME HeaderAssumption == HeaderSize \in Nat \ {0}
ASSUME PokesAssumption  == Pokes \subseteq Cells \X Value

VARIABLES
    header,     \* which bytes of the EEPROM's header are right
    eeprom,     \* the cells of the EEPROM
    Settings,   \* the struct in memory
    InvertMask, \* PS2.c's InvertMask, as set by PS2_Init
    pc,         \* where the main program is
    left,       \* the bytes of the current block still to be written
    stored      \* the settings of the last save if it finished (history)

vars == <<header, eeprom, Settings, InvertMask, pc, left, stored>>
-----------------------------------------------------------------------------
\* Fault: a default that does not fit its byte.
DefaultsWide == [c \in Cells |-> IF c = "Other" THEN 256 ELSE 0]

\* The initial values of the struct; "Other" defaults to 1.
Defaults == [c \in Cells |-> IF c = "Other" THEN 1 ELSE 0]

Nothing == {}   \* stored, when no save is known to have finished

Init ==
    /\ header = [i \in Header |-> FALSE]
    /\ eeprom = [c \in Cells |-> Erased]
    /\ Settings = Defaults
    /\ InvertMask = 0
    /\ pc = "boot"
    /\ left = {}
    /\ stored = Nothing

HeaderValid == \A i \in Header : header[i]

Identify(s) == [s EXCEPT !["DeviceType"] = HOME]

\* The fail-safe at the end of Config_Init.
FailSafe(s) == IF s["DeviceComm"] = C_Default THEN [s EXCEPT !["LightsComm"] = L_Direct] ELSE s

\* What PS2_Init, called by SetupHardware, makes of the mask.
Inverted(s, mask) ==
    IF s["DeviceComm"] = C_Default /\ s["DeviceType"] = ARCADE THEN 255 ELSE mask

\* Config_SaveEEPROM begins, on behalf of Config_Init or of a command.
BeginSave(by) == pc' = by /\ left' = Header /\ stored' = Nothing

\* Fault: a good header is not followed by a load.
BootForgets ==
    /\ pc = "boot" /\ HeaderValid
    /\ pc' = "loaded"
    /\ UNCHANGED <<header, eeprom, Settings, InvertMask, left, stored>>

\* Fault: the defaults are used, and not saved.
BootUnsaved ==
    /\ pc = "boot" /\ ~HeaderValid
    /\ pc' = "loaded"
    /\ UNCHANGED <<header, eeprom, Settings, InvertMask, left, stored>>

(* Config_Init: LoadInEEPROM, and a save of the defaults if it fails. *)
BootDirty ==
    /\ pc = "boot" /\ ~HeaderValid
    /\ BeginSave("init header")
    /\ UNCHANGED <<header, eeprom, Settings, InvertMask>>

BootClean ==
    /\ pc = "boot" /\ HeaderValid
    /\ Settings' = eeprom
    /\ pc' = "loaded"
    /\ UNCHANGED <<header, eeprom, InvertMask, left, stored>>

\* The rest of Config_Init, and SetupHardware.
Start ==
    /\ pc = "loaded"
    /\ Settings' = FailSafe(Identify(Settings))
    /\ InvertMask' = Inverted(Settings', InvertMask)
    /\ pc' = "run"
    /\ UNCHANGED <<header, eeprom, left, stored>>

(* Config_SaveEEPROM: the bytes of the header, then those of the settings. *)
WriteHeader ==
    /\ pc \in {"init header", "store header"}
    /\ \E i \in left : /\ header' = [header EXCEPT ![i] = TRUE]
                       /\ left' = left \ {i}
    /\ UNCHANGED <<eeprom, Settings, InvertMask, pc, stored>>

\* Fault: the size of the settings is a cell short.
HeaderDoneShort ==
    /\ pc \in {"init header", "store header"}
    /\ left = {}
    /\ pc' = IF pc = "init header" THEN "init settings" ELSE "store settings"
    /\ left' = Cells \ {"Other"}
    /\ UNCHANGED <<header, eeprom, Settings, InvertMask, stored>>

HeaderDone ==
    /\ pc \in {"init header", "store header"}
    /\ left = {}
    /\ pc' = IF pc = "init header" THEN "init settings" ELSE "store settings"
    /\ left' = Cells
    /\ UNCHANGED <<header, eeprom, Settings, InvertMask, stored>>

WriteSettings ==
    /\ pc \in {"init settings", "store settings"}
    /\ \E c \in left : /\ eeprom' = [eeprom EXCEPT ![c] = Settings[c]]
                       /\ left' = left \ {c}
    /\ UNCHANGED <<header, Settings, InvertMask, pc, stored>>

\* The save is over; the command 0xF1 goes on with SetupHardware.
SaveDone ==
    /\ pc \in {"init settings", "store settings"}
    /\ left = {}
    /\ stored' = {Settings}
    /\ IF pc = "init settings"
       THEN pc' = "loaded" /\ UNCHANGED InvertMask
       ELSE pc' = "run" /\ InvertMask' = Inverted(Settings, InvertMask)
    /\ UNCHANGED <<header, eeprom, Settings, left>>

(* The commands: a settings byte, 0xF0 and 0xF1. *)
UpdateSettings ==
    /\ pc = "run"
    /\ \E poke \in Pokes : Settings' = [Settings EXCEPT ![poke[1]] = poke[2]]
    /\ UNCHANGED <<header, eeprom, InvertMask, pc, left, stored>>

\* Fault: 0xF0 does not identify the board.
ApplyUnidentified ==
    /\ pc = "run"
    /\ InvertMask' = Inverted(Settings, InvertMask)
    /\ UNCHANGED <<header, eeprom, Settings, pc, left, stored>>

ApplyCommand ==
    /\ pc = "run"
    /\ Settings' = Identify(Settings)
    /\ InvertMask' = Inverted(Settings', InvertMask)
    /\ UNCHANGED <<header, eeprom, pc, left, stored>>

StoreCommand ==
    /\ pc = "run"
    /\ Settings' = Identify(Settings)
    /\ BeginSave("store header")
    /\ UNCHANGED <<header, eeprom, InvertMask>>

(* The countdowns of AssertTimers run, or run out, in the struct. *)
Countdown ==
    /\ pc = "run"
    /\ \E c \in Timers, v \in {0, 1} : Settings' = [Settings EXCEPT ![c] = v]
    /\ UNCHANGED <<header, eeprom, InvertMask, pc, left, stored>>

(* The power fails, or command 0xF5 resets the program.  A settings byte   *)
(* that is being changed is lost; one of the header was wrong anyhow.      *)
Restart ==
    /\ Settings' = Defaults
    /\ InvertMask' = 0
    /\ pc' = "boot"
    /\ left' = {}

Crash ==
    /\ Restart
    /\ UNCHANGED <<header, eeprom, stored>>

CrashInSettings ==
    /\ pc \in {"init settings", "store settings"}
    /\ \E c \in left : /\ eeprom[c] # Settings[c]
                       /\ eeprom' = [eeprom EXCEPT ![c] = Erased]
    /\ Restart
    /\ UNCHANGED <<header, stored>>

Next ==
    \/ BootDirty
    \/ BootClean
    \/ Start
    \/ WriteHeader
    \/ HeaderDone
    \/ WriteSettings
    \/ SaveDone
    \/ UpdateSettings
    \/ ApplyCommand
    \/ StoreCommand
    \/ Countdown
    \/ Crash
    \/ CrashInSettings

Spec == Init /\ [][Next]_vars
-----------------------------------------------------------------------------
(* Properties *)

(* The cells hold bytes, and the program is in one of its phases.           *)
TypeOK ==
    /\ header \in [Header -> BOOLEAN]
    /\ eeprom \in [Cells -> Value]
    /\ Settings \in [Cells -> Value]
    /\ InvertMask \in {0, 255}
    /\ pc \in {"boot", "loaded", "run", "init header", "init settings",
              "store header", "store settings"}
    /\ IF pc \in {"init settings", "store settings"} THEN left \subseteq Cells
                                                     ELSE left \subseteq Header
    /\ stored \subseteq [Cells -> Value]

(* A save that finished is durable: until the next save begins, whatever   *)
(* is then written to the struct in memory and whenever the power fails,   *)
(* the EEPROM holds a good header and exactly the settings of that save.   *)
SaveIsDurable ==
    \A s \in stored : HeaderValid /\ eeprom = s

(* Whatever the EEPROM held at power-on, and wherever an earlier save was  *)
(* cut off, the program runs only with a good header behind it: the next   *)
(* boot will load the settings and not replace them by the defaults.       *)
HeaderHealed ==
    pc \in {"loaded", "run"} => HeaderValid

(* The PS2 replies are never inverted, though the host may write ARCADE to *)
(* the board type and it may have been saved: every path to PS2_Init       *)
(* identifies the board again first.                                       *)
NeverInverted == InvertMask = 0

(* The settings with their EEPROM, seen from outside: loaded once the boot  *)
(* is past LoadInEEPROM and the save it may make.                          *)
Durable == INSTANCE DurableSettings WITH
               Struct    <- [Cells -> Value],
               Initial   <- Defaults,
               live      <- Settings,
               committed <- stored,
               on        <- pc \notin {"boot", "init header", "init settings"}

(* The cells, the header and the crashes between any two writes add up to  *)
(* what DurableSettings promises: every boot loads the last save whole.    *)
ImplementsDurable == Durable!Spec

(* Config.c:54: the header is there "to verify if the EEPROM has been      *)
(* initialized": with a good header, the settings have been written.       *)
HeaderMeansInitialized ==
    pc = "boot" /\ HeaderValid => \A c \in Cells : eeprom[c] # Erased

=============================================================================
