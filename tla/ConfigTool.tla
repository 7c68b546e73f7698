----------------------------- MODULE ConfigTool -----------------------------
(***************************************************************************)
(* The configuration tool (USBemaniConfig.c) and the board it sets up: the *)
(* dialog, the settings built from its controls, the file they are kept in *)
(* between sessions, the reports that carry them to the board a byte at a  *)
(* time, and the command that makes the board apply or store what arrived. *)
(*                                                                         *)
(* A write to the board can time out, whether the board then has the       *)
(* report or not, and the board can lose power at any moment.  The copy in *)
(* EEPROM is the whole value that Config shows it to be; countdowns are    *)
(* left to AssertTimers, and a cell stands for the others like it.         *)
(***************************************************************************)
EXTENDS Integers, FiniteSets

CONSTANTS
    Board,      \* the product identifier the tool detects
    TeethUsed,  \* the entries of ROTARY_PULSECOUNT the user may choose
    LightsUsed, \* those of LIGHTS_COMM
    MapsUsed    \* those of BUTTON_MAPTYPE

KOC == 1        \* USBEMANI_PID_KOC
DAO == 2        \* USBEMANI_PID_DAO

HOME      == 64
C_Default == 0
C_USBOnly == 1
L_Direct  == 0
B_IIDX    == 1
B_Custom  == 255

ASSUME BoardAssumption == Board \in {KOC, DAO}
ASSUME EntriesAssumption ==
    TeethUsed \subseteq 0 .. 3 /\ LightsUsed \subseteq 0 .. 2 /\ MapsUsed \subseteq 0 .. 6

\* The bytes of Settings_t that are modelled, in the order of the struct.
Order ==
    [i \in 1 .. 6 |-> CASE i = 1 -> "PPRLow"     [] i = 2 -> "PPRHigh"
                        [] i = 3 -> "LightsComm" [] i = 4 -> "DeviceType"
                        [] i = 5 -> "DeviceComm" [] OTHER -> "ButtonMap"]
Cells == {"PPRLow", "PPRHigh", "LightsComm", "DeviceType", "DeviceComm", "ButtonMap"}
Size  == 6      \* sizeof(Settings_t), in modelled bytes
Byte  == 0 .. 255

Controls == [teeth : 0 .. 3, lights : 0 .. 2, ps2 : BOOLEAN, map : 0 .. 6]

VARIABLES
    pc,         \* where the tool is: closed, in its dialog, or sending
    controls,   \* what the dialog shows
    Settings,   \* the tool's struct
    file,       \* USBemani.settings: none, or the settings in it
    next,       \* the index of the byte to be sent, Size + 1 for the command
    command,    \* the command that ends the round: 0xF0 or 0xF1
    on,         \* the board has power and is enumerated
    live,       \* the board's struct
    saved,      \* the board's copy in EEPROM: none before the first boot
    endpoint,   \* the report in the board's OUT endpoint, if there is one
    spoilt,     \* a write failed or the board restarted in this round (history)
    mixed,      \* the copies that may hold parts of two rounds (history)
    shown       \* the controls as the file in place was saved (history)

tool  == <<pc, controls, Settings, file, next, command, shown>>
board == <<on, live, saved, endpoint>>
vars  == <<tool, board, spoilt, mixed>>
-----------------------------------------------------------------------------
(* The dialog *)

Teeth == [k \in 0 .. 3 |-> CASE k = 0 -> 256 [] k = 1 -> 100 [] k = 2 -> 200 [] OTHER -> 144]
TeethIn(s) == s["PPRLow"] + 256 * s["PPRHigh"]

\* Both programs start from the same struct.
Defaults ==
    [c \in Cells |-> CASE c = "PPRHigh" -> 1 [] c = "ButtonMap" -> B_IIDX [] OTHER -> 0]

\* Fault: a tooth count is written into a byte.
BuildWide(d) ==
    [c \in Cells |->
        CASE c = "PPRLow"     -> Teeth[d.teeth]
          [] c = "LightsComm" -> d.lights
          [] c = "DeviceComm" -> IF d.ps2 THEN C_Default ELSE C_USBOnly
          [] c = "ButtonMap"  -> IF d.map = 6 THEN B_Custom ELSE d.map + 1
          [] OTHER -> 0]

\* BuildConfig: the struct that the controls stand for.
Built(d, c) ==
    CASE c = "PPRLow"     -> Teeth[d.teeth] % 256
      [] c = "PPRHigh"    -> Teeth[d.teeth] \div 256
      [] c = "LightsComm" -> d.lights
      [] c = "DeviceType" -> 0
      [] c = "DeviceComm" -> IF d.ps2 THEN C_Default ELSE C_USBOnly
      [] c = "ButtonMap"  -> IF d.map = 6 THEN B_Custom ELSE d.map + 1
Build(d) == [c \in Cells |-> Built(d, c)]

Capped(pos, count) == IF pos >= count THEN count - 1 ELSE pos

\* Fault: the entries of the map are shown without the offset BuildConfig adds.
InitDialogShifted(s) ==
    [teeth  |-> IF \E k \in 1 .. 3 : Teeth[k] = TeethIn(s)
                THEN CHOOSE k \in 1 .. 3 : Teeth[k] = TeethIn(s) ELSE 0,
     lights |-> IF Board = KOC THEN 0 ELSE Capped(s["LightsComm"], 3),
     ps2    |-> s["DeviceComm"] = C_Default,
     map    |-> Capped(s["ButtonMap"], 7)]

\* WM_INITDIALOG: the controls that show a struct.
InitDialog(s) ==
    [teeth  |-> IF \E k \in 1 .. 3 : Teeth[k] = TeethIn(s)
                THEN CHOOSE k \in 1 .. 3 : Teeth[k] = TeethIn(s) ELSE 0,
     lights |-> IF Board = KOC THEN 0 ELSE Capped(s["LightsComm"], 3),
     ps2    |-> s["DeviceComm"] = C_Default,
     map    |-> IF s["ButtonMap"] = B_Custom THEN 6
                ELSE IF s["ButtonMap"] = 0 THEN 0 ELSE Capped(s["ButtonMap"] - 1, 7)]

\* Fault: the list of lights keeps its entry.
SettledNot(d) == d

\* The end of WM_COMMAND: the lights are driven directly in the default mode.
Settled(d) == IF d.ps2 THEN [d EXCEPT !.lights = 0] ELSE d

Init ==
    /\ pc = "closed" /\ Settings = Defaults /\ controls = InitDialog(Defaults)
    /\ file = {} /\ shown = {}
    /\ next = Size + 1 /\ command = "none"
    /\ on = FALSE /\ live = Defaults /\ saved = {} /\ endpoint = {}
    /\ spoilt = FALSE /\ mixed = {}

\* The board is there and the file, if there is one, is read.  The last
\* control that WM_INITDIALOG fills, the name, sends a WM_COMMAND.
Open ==
    /\ pc = "closed" /\ on
    /\ \E s \in IF file = {} THEN {Defaults} ELSE file :
          /\ Settings' = Build(InitDialog(s))
          /\ controls' = Settled(InitDialog(s))
    /\ pc' = "dialog"
    /\ UNCHANGED <<file, next, command, shown, board, spoilt, mixed>>

\* No board, or a file that cannot be read: no dialog, and the file is saved.
OpenFails ==
    /\ pc = "closed"
    /\ ~on \/ file # {}
    /\ file' = {Defaults}
    /\ shown' = {}
    /\ UNCHANGED <<pc, controls, Settings, next, command, board, spoilt, mixed>>

\* A control is changed: only those that are enabled can be.
Change ==
    /\ pc = "dialog"
    /\ \E d \in {[controls EXCEPT !.teeth = k] : k \in TeethUsed}
             \cup {[controls EXCEPT !.ps2 = ~@]}
             \cup {[controls EXCEPT !.map = k] : k \in {m \in MapsUsed : controls.ps2}}
             \cup {[controls EXCEPT !.lights = k] :
                       k \in {l \in LightsUsed : Board # KOC /\ ~controls.ps2}} :
          /\ Settings' = Build(d)
          /\ controls' = Settled(d)
    /\ UNCHANGED <<pc, file, next, command, shown, board, spoilt, mixed>>

\* Fault: the settings that are sent are those of the last change.
ClickStale ==
    /\ pc = "dialog"
    /\ pc' = "sending"
    /\ next' = 1
    /\ command' \in {"apply", "store"}
    /\ spoilt' = FALSE
    /\ UNCHANGED <<Settings, controls, file, shown, board, mixed>>

\* BUTTON_APPLYSET or BUTTON_STORESET: a round begins.
Click ==
    /\ pc = "dialog"
    /\ Settings' = Build(controls)
    /\ pc' = "sending"
    /\ next' = 1
    /\ command' \in {"apply", "store"}
    /\ spoilt' = FALSE
    /\ UNCHANGED <<controls, file, shown, board, mixed>>

\* The next session starts from the initial struct.
Ended == pc' = "closed" /\ Settings' = Defaults /\ controls' = InitDialog(Defaults)

\* The dialog is closed and the file written, or not.
Close ==
    /\ pc = "dialog"
    /\ Ended
    /\ \/ file' = {Build(controls)} /\ shown' = {controls}
       \/ UNCHANGED <<file, shown>>
    /\ UNCHANGED <<next, command, board, spoilt, mixed>>

\* The tool is ended from outside.
Kill ==
    /\ pc # "closed"
    /\ Ended
    /\ next' = Size + 1 /\ command' = "none" /\ spoilt' = FALSE
    /\ UNCHANGED <<file, shown, board, mixed>>
-----------------------------------------------------------------------------
(* Device_SendCommand *)

Report(cell, value, goal) == [cell |-> cell, value |-> value, goal |-> goal]

\* The byte that is next, or the command.
ToSend ==
    IF next <= Size THEN Report(Order[next], Settings[Order[next]], {})
    ELSE Report(command, 0, IF spoilt THEN {} ELSE {Build(controls)})

Arrives ==
    /\ on /\ endpoint = {}
    /\ endpoint' = {ToSend}

BackToDialog ==
    /\ pc' = "dialog" /\ command' = "none" /\ next' = next
    /\ controls' = Settled(controls)

\* After the command the dialog goes on; after a byte, the next one.
GoesOn ==
    IF next <= Size
    THEN next' = next + 1 /\ UNCHANGED <<pc, controls, command>>
    ELSE BackToDialog

\* A byte that fails ends UpdateSettings; the command is sent all the same.
GivesUp ==
    IF next <= Size
    THEN next' = Size + 1 /\ UNCHANGED <<pc, controls, command>>
    ELSE BackToDialog

Send ==
    /\ pc = "sending"
    /\ Arrives
    /\ GoesOn
    /\ spoilt' = (spoilt /\ next <= Size)
    /\ UNCHANGED <<Settings, file, shown, on, live, saved, mixed>>

\* The write times out, or there is no board to open.
SendFails ==
    /\ pc = "sending"
    /\ Arrives \/ UNCHANGED endpoint
    /\ GivesUp
    /\ spoilt' = (next <= Size)
    /\ UNCHANGED <<Settings, file, shown, on, live, saved, mixed>>
-----------------------------------------------------------------------------
(* The board *)

Identify(s) == [s EXCEPT !["DeviceType"] = HOME]

\* A round that arrived whole leaves no mixture in the copies it wrote.
MixedAfter(r) ==
    LET inLive == IF r.goal = {} THEN mixed \cap {"live"} ELSE {}
    IN  IF r.cell = "apply" THEN inLive \cup (mixed \cap {"saved"})
        ELSE inLive \cup {"saved" : c \in inLive}

FailSafe(s) == IF s["DeviceComm"] = C_Default THEN [s EXCEPT !["LightsComm"] = L_Direct] ELSE s

\* ProcessGenericHIDReport: a settings byte.
ProcessByte ==
    /\ on
    /\ \E r \in endpoint : r.cell \in Cells /\ live' = [live EXCEPT ![r.cell] = r.value]
    /\ endpoint' = {}
    /\ mixed' = mixed \cup {"live"}
    /\ UNCHANGED <<tool, on, saved, spoilt>>

\* ProcessGenericHIDReport: 0xF0 or 0xF1.
ProcessCommand ==
    /\ on
    /\ \E r \in endpoint :
          /\ r.cell \in {"apply", "store"}
          /\ live' = Identify(live)
          /\ saved' = IF r.cell = "store" THEN {live'} ELSE saved
          /\ mixed' = MixedAfter(r)
    /\ endpoint' = {}
    /\ UNCHANGED <<tool, on, spoilt>>

PowerOff ==
    /\ on
    /\ on' = FALSE
    /\ live' = Defaults
    /\ endpoint' = {}
    /\ spoilt' = (pc = "sending")
    /\ UNCHANGED <<tool, saved, mixed>>

\* Config_Init and SetupHardware; the first boot saves the defaults.
Boot ==
    /\ ~on
    /\ on' = TRUE
    /\ saved' = IF saved = {} THEN {Defaults} ELSE saved
    /\ \E s \in saved' : live' = FailSafe(Identify(s))
    /\ mixed' = IF "saved" \in mixed THEN {"live", "saved"} ELSE {}
    /\ UNCHANGED <<tool, endpoint, spoilt>>

Next ==
    \/ Open
    \/ OpenFails
    \/ Change
    \/ Click
    \/ Close
    \/ Kill
    \/ Send
    \/ SendFails
    \/ ProcessByte
    \/ ProcessCommand
    \/ PowerOff
    \/ Boot

Spec == Init /\ [][Next]_vars
-----------------------------------------------------------------------------
(* Properties *)

(* Structs hold bytes, the dialog shows entries that exist, the tool is in *)
(* one of its phases and the endpoint holds one report at most.            *)
TypeOK ==
    /\ pc \in {"closed", "dialog", "sending"}
    /\ controls \in Controls
    /\ Settings \in [Cells -> Byte]
    /\ file \subseteq [Cells -> Byte] /\ saved \subseteq [Cells -> Byte]
    /\ live \in [Cells -> Byte]
    /\ next \in 1 .. Size + 1
    /\ command \in {"none", "apply", "store"}
    /\ on \in BOOLEAN /\ spoilt \in BOOLEAN
    /\ \A r \in endpoint : /\ r.cell \in Cells \cup {"apply", "store"}
                            /\ r.value \in Byte
                            /\ r.goal \subseteq [Cells -> Byte]
                            /\ endpoint = {r}
    /\ mixed \subseteq {"live", "saved"}
    /\ shown \subseteq Controls

\* A step that takes a command with a goal reaches it.
GoalReached ==
    \A r \in endpoint : \A s \in r.goal :
        on' /\ endpoint' # endpoint =>
            live' = Identify(s) /\ (r.cell = "store" => saved' = {Identify(s)})

(* The board runs, and with the store command saves, exactly what the      *)
(* dialog showed when the button was pressed, unless a write failed or the *)
(* board restarted since: whatever ran before, whatever is pressed next,   *)
(* and though the bytes of the struct arrive one at a time.                *)
AppliedAsChosen == [][GoalReached]_vars

Conflict(s) == s["DeviceComm"] = C_Default /\ s["LightsComm"] # L_Direct
Toothed(s)  == TeethIn(s) \in {Teeth[k] : k \in 0 .. 3}

(* The fail-safe of Config_Init is only that, "as the configuration tool   *)
(* SHOULD take care of this" (Config.c:125): a copy that is not a mixture  *)
(* of two rounds has no conflicting settings and a tooth count the tool    *)
(* knows, though a dialog has both choices and makes them one at a time.   *)
MixedOnlyByFailure ==
    /\ "live" \notin mixed => ~Conflict(live) /\ Toothed(live)
    /\ \A s \in saved : "saved" \notin mixed => ~Conflict(s) /\ Toothed(s)

(* A dialog shows again what the last one showed when it was closed, if    *)
(* the file was written and no session without a board replaced it.        *)
ReopensAsClosed ==
    \A d \in shown : \A s \in file : InitDialog(s) = d
=============================================================================
