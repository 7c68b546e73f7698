-------------------------- MODULE ConfigToolProofs --------------------------
(***************************************************************************)
(* Proofs about ConfigTool, for every board and every choice of entries.   *)
(* The round trip through the dialog is a fact about its two functions;    *)
(* the rest follows from IInv, whose heart is Round: in a round that did   *)
(* not fail the board has the bytes that were sent, the last one perhaps   *)
(* still in its endpoint, so that a command that carries a goal finds the  *)
(* whole struct of that goal in place.                                     *)
(***************************************************************************)
EXTENDS ConfigTool, TLAPS

-----------------------------------------------------------------------------
(* The dialog *)

LEMMA TeethFacts ==
    ASSUME NEW k \in 0 .. 3
    PROVE  /\ Teeth[k] \in {256, 100, 200, 144}
           /\ Teeth[k] % 256 \in Byte /\ Teeth[k] \div 256 \in Byte
           /\ (Teeth[k] % 256) + (256 * (Teeth[k] \div 256)) = Teeth[k]
<1>1. CASE k = 0 BY <1>1 DEF Teeth, Byte
<1>2. CASE k = 1 BY <1>2 DEF Teeth, Byte
<1>3. CASE k = 2 BY <1>3 DEF Teeth, Byte
<1>4. CASE k = 3 BY <1>4 DEF Teeth, Byte
<1> QED BY <1>1, <1>2, <1>3, <1>4

LEMMA TeethShown ==
    ASSUME NEW k \in 0 .. 3
    PROVE  (IF \E j \in 1 .. 3 : Teeth[j] = Teeth[k]
            THEN CHOOSE j \in 1 .. 3 : Teeth[j] = Teeth[k] ELSE 0) = k
<1>1. Teeth[0] = 256 /\ Teeth[1] = 100 /\ Teeth[2] = 200 /\ Teeth[3] = 144
  BY DEF Teeth
<1>2. CASE k = 0
  <2>1. \A j \in 1 .. 3 : Teeth[j] # Teeth[k] BY <1>1, <1>2
  <2> QED BY <2>1, <1>2
<1>3. CASE k \in 1 .. 3
  <2>1. \A j \in 1 .. 3 : Teeth[j] = Teeth[k] <=> j = k BY <1>1, <1>3
  <2> DEFINE j0 == CHOOSE j \in 1 .. 3 : Teeth[j] = Teeth[k]
  <2>2. j0 \in 1 .. 3 /\ Teeth[j0] = Teeth[k] BY <1>3
  <2> QED BY <2>1, <2>2, <1>3
<1> QED BY <1>2, <1>3

\* The struct of a dialog holds bytes.
LEMMA BuildType ==
    ASSUME NEW d \in Controls
    PROVE  /\ Build(d) \in [Cells -> Byte]
           /\ Build(d)["PPRLow"] = Teeth[d.teeth] % 256
           /\ Build(d)["PPRHigh"] = Teeth[d.teeth] \div 256
           /\ Build(d)["LightsComm"] = d.lights
           /\ Build(d)["DeviceComm"] = (IF d.ps2 THEN C_Default ELSE C_USBOnly)
           /\ Build(d)["ButtonMap"] = (IF d.map = 6 THEN B_Custom ELSE d.map + 1)
           /\ TeethIn(Build(d)) = Teeth[d.teeth]
<1>1. d.teeth \in 0 .. 3 /\ d.lights \in 0 .. 2 /\ d.ps2 \in BOOLEAN /\ d.map \in 0 .. 6
  BY DEF Controls
<1>2. /\ Teeth[d.teeth] % 256 \in Byte /\ Teeth[d.teeth] \div 256 \in Byte
      /\ (Teeth[d.teeth] % 256) + (256 * (Teeth[d.teeth] \div 256)) = Teeth[d.teeth]
  BY <1>1, TeethFacts
<1>3. /\ Build(d)["PPRLow"] = Teeth[d.teeth] % 256
      /\ Build(d)["PPRHigh"] = Teeth[d.teeth] \div 256
      /\ Build(d)["LightsComm"] = d.lights
      /\ Build(d)["DeviceComm"] = (IF d.ps2 THEN C_Default ELSE C_USBOnly)
      /\ Build(d)["ButtonMap"] = (IF d.map = 6 THEN B_Custom ELSE d.map + 1)
      /\ Build(d)["DeviceType"] = 0
  BY DEF Build, Built, Cells
<1>4. \A c \in Cells : Build(d)[c] \in Byte
  BY <1>1, <1>2, <1>3 DEF Cells, Byte, C_Default, C_USBOnly, B_Custom
<1>5. Build(d) \in [Cells -> Byte]
  BY <1>4 DEF Build
<1> QED BY <1>2, <1>3, <1>5 DEF TeethIn

\* What a dialog may show: the lights are left alone where they are locked.
Shown(d) == (Board = KOC => d.lights = 0) /\ (d.ps2 => d.lights = 0)

(* A dialog that is filled from the struct its controls stand for shows    *)
(* them again, whatever they are: InitDialog undoes BuildConfig.           *)
THEOREM RoundTrip ==
    ASSUME NEW d \in Controls, Board = KOC => d.lights = 0
    PROVE  InitDialog(Build(d)) = d
<1> DEFINE s == Build(d)
<1> HIDE DEF s
<1>1. /\ d.teeth \in 0 .. 3 /\ d.lights \in 0 .. 2 /\ d.ps2 \in BOOLEAN /\ d.map \in 0 .. 6
      /\ d = [teeth |-> d.teeth, lights |-> d.lights, ps2 |-> d.ps2, map |-> d.map]
  BY DEF Controls
<1>2. /\ s["LightsComm"] = d.lights
      /\ s["DeviceComm"] = (IF d.ps2 THEN C_Default ELSE C_USBOnly)
      /\ s["ButtonMap"] = (IF d.map = 6 THEN B_Custom ELSE d.map + 1)
      /\ TeethIn(s) = Teeth[d.teeth]
  BY BuildType DEF s
<1>3. (IF \E k \in 1 .. 3 : Teeth[k] = TeethIn(s)
       THEN CHOOSE k \in 1 .. 3 : Teeth[k] = TeethIn(s) ELSE 0) = d.teeth
  BY <1>1, <1>2, TeethShown
<1>4. (IF Board = KOC THEN 0 ELSE Capped(s["LightsComm"], 3)) = d.lights
  BY <1>1, <1>2 DEF Capped
<1>5. (s["DeviceComm"] = C_Default) = d.ps2
  <2>1. (s["DeviceComm"] = C_Default) <=> d.ps2
    BY <1>1, <1>2 DEF C_Default, C_USBOnly
  <2> QED BY <2>1, <1>1
<1>6. (IF s["ButtonMap"] = B_Custom THEN 6
       ELSE IF s["ButtonMap"] = 0 THEN 0 ELSE Capped(s["ButtonMap"] - 1, 7)) = d.map
  <2>1. CASE d.map = 6 BY <2>1, <1>2 DEF B_Custom
  <2>2. CASE d.map # 6 BY <2>2, <1>1, <1>2 DEF B_Custom, Capped
  <2> QED BY <2>1, <2>2
<1>7. InitDialog(s) = [teeth |-> d.teeth, lights |-> d.lights, ps2 |-> d.ps2, map |-> d.map]
  BY <1>3, <1>4, <1>5, <1>6, Zenon DEF InitDialog
<1> QED BY <1>1, <1>7, Zenon DEF s

\* A dialog never shows a conflict, and so its struct holds none.
LEMMA BuildGood ==
    ASSUME NEW d \in Controls, Shown(d)
    PROVE  ~Conflict(Build(d)) /\ Toothed(Build(d))
<1>1. d.teeth \in 0 .. 3 /\ d.lights \in 0 .. 2 /\ d.ps2 \in BOOLEAN
  BY DEF Controls
<1>2. /\ Build(d)["LightsComm"] = d.lights
      /\ Build(d)["DeviceComm"] = (IF d.ps2 THEN C_Default ELSE C_USBOnly)
      /\ TeethIn(Build(d)) = Teeth[d.teeth]
  BY BuildType
<1> QED BY <1>1, <1>2 DEF Shown, Conflict, Toothed, C_Default, C_USBOnly, L_Direct

LEMMA InitDialogType ==
    ASSUME NEW s \in [Cells -> Byte]
    PROVE  /\ InitDialog(s) \in Controls
           /\ Board = KOC => InitDialog(s).lights = 0
<1>1. s["LightsComm"] \in Byte /\ s["ButtonMap"] \in Byte
  BY DEF Cells
<1>2. (IF \E k \in 1 .. 3 : Teeth[k] = TeethIn(s)
       THEN CHOOSE k \in 1 .. 3 : Teeth[k] = TeethIn(s) ELSE 0) \in 0 .. 3
  <2> DEFINE k0 == CHOOSE k \in 1 .. 3 : Teeth[k] = TeethIn(s)
  <2>1. CASE \E k \in 1 .. 3 : Teeth[k] = TeethIn(s)
    <3>1. k0 \in 1 .. 3 BY <2>1
    <3> QED BY <3>1, <2>1
  <2>2. CASE ~\E k \in 1 .. 3 : Teeth[k] = TeethIn(s)
    BY <2>2
  <2> QED BY <2>1, <2>2
<1>3. (IF Board = KOC THEN 0 ELSE Capped(s["LightsComm"], 3)) \in 0 .. 2
  BY <1>1 DEF Capped, Byte
<1>4. (IF s["ButtonMap"] = B_Custom THEN 6
       ELSE IF s["ButtonMap"] = 0 THEN 0 ELSE Capped(s["ButtonMap"] - 1, 7)) \in 0 .. 6
  BY <1>1 DEF Capped, Byte
<1> QED BY <1>2, <1>3, <1>4 DEF InitDialog, Controls

LEMMA SettledLemma ==
    ASSUME NEW d \in Controls, Board = KOC => d.lights = 0
    PROVE  Settled(d) \in Controls /\ Shown(Settled(d))
BY DEF Settled, Controls, Shown

\* The choices of the user are entries of the lists.
LEMMA ChangeLemma ==
    ASSUME TypeOK, Board = KOC => controls.lights = 0, Change
    PROVE  /\ Settings' \in [Cells -> Byte]
           /\ controls' \in Controls /\ Shown(controls')
<1>1. PICK d \in {[controls EXCEPT !.teeth = k] : k \in TeethUsed}
                 \cup {[controls EXCEPT !.ps2 = ~@]}
                 \cup {[controls EXCEPT !.map = k] : k \in {m \in MapsUsed : controls.ps2}}
                 \cup {[controls EXCEPT !.lights = k] :
                           k \in {l \in LightsUsed : Board # KOC /\ ~controls.ps2}} :
             Settings' = Build(d) /\ controls' = Settled(d)
  BY DEF Change
<1>2. controls \in Controls
  BY DEF TypeOK
<1>3. d \in Controls /\ (Board = KOC => d.lights = 0)
  BY <1>1, <1>2, EntriesAssumption DEF Controls
<1> QED BY <1>1, <1>3, BuildType, SettledLemma

\* The struct both programs start from, and the dialog it is shown in.
LEMMA DefaultsLemma ==
    /\ Defaults \in [Cells -> Byte]
    /\ ~Conflict(Defaults) /\ Toothed(Defaults)
    /\ InitDialog(Defaults) \in Controls /\ Shown(InitDialog(Defaults))
<1>1. /\ Defaults \in [Cells -> Byte]
      /\ Defaults["PPRLow"] = 0 /\ Defaults["PPRHigh"] = 1
      /\ Defaults["LightsComm"] = 0 /\ Defaults["DeviceComm"] = 0
  BY DEF Defaults, Cells, Byte, B_IIDX
<1>2. TeethIn(Defaults) = 256 /\ Teeth[0] = 256
  BY <1>1 DEF TeethIn, Teeth
<1>3. InitDialog(Defaults).lights = 0
  BY <1>1 DEF InitDialog, Capped
<1> QED BY <1>1, <1>2, <1>3, InitDialogType DEF Conflict, Toothed, L_Direct, Shown

\* What the board does to a struct keeps what matters of it.
LEMMA BoardLemma ==
    ASSUME NEW s \in [Cells -> Byte]
    PROVE  /\ Identify(s) \in [Cells -> Byte] /\ FailSafe(s) \in [Cells -> Byte]
           /\ (~Conflict(s) => ~Conflict(Identify(s))) /\ ~Conflict(FailSafe(s))
           /\ Toothed(s) => Toothed(Identify(s)) /\ Toothed(FailSafe(s))
<1>1. /\ Identify(s) \in [Cells -> Byte] /\ FailSafe(s) \in [Cells -> Byte]
      /\ Identify(s)["LightsComm"] = s["LightsComm"] /\ Identify(s)["DeviceComm"] = s["DeviceComm"]
      /\ TeethIn(Identify(s)) = TeethIn(s) /\ TeethIn(FailSafe(s)) = TeethIn(s)
  <2>1. Identify(s) \in [Cells -> Byte] /\ FailSafe(s) \in [Cells -> Byte]
    <3>1. HOME \in Byte /\ L_Direct \in Byte BY DEF HOME, L_Direct, Byte
    <3> QED BY <3>1 DEF Identify, FailSafe
  <2>2. \A c \in {"PPRLow", "PPRHigh", "LightsComm", "DeviceComm"} : Identify(s)[c] = s[c]
    BY DEF Identify, Cells
  <2>3. \A c \in {"PPRLow", "PPRHigh"} : FailSafe(s)[c] = s[c]
    BY DEF FailSafe, Cells
  <2> QED BY <2>1, <2>2, <2>3, Zenon DEF TeethIn
<1>2. ~Conflict(FailSafe(s))
  BY DEF FailSafe, Cells, L_Direct, Conflict
<1> QED BY <1>1, <1>2 DEF Conflict, Toothed
-----------------------------------------------------------------------------
(* The inductive invariant *)

Dialog == Shown(controls) /\ (pc = "sending" => Settings = Build(controls) /\ command # "none")

\* What has been sent in a round that did not fail.
Round ==
    pc = "sending" /\ ~spoilt /\ next > 1 =>
        /\ on
        /\ \A i \in 1 .. next - 1 :
              live[Order[i]] = Settings[Order[i]] \/ (i = next - 1 /\ endpoint # {})
        /\ \A r \in endpoint : r.cell = Order[next - 1] /\ r.value = Settings[Order[next - 1]]

\* A command with a goal finds it in place.
Goal ==
    \A r \in endpoint : \A s \in r.goal :
        r.cell \notin Cells /\ live = s /\ ~Conflict(s) /\ Toothed(s)

Powered == on \/ endpoint = {}

IInv == TypeOK /\ Dialog /\ Powered /\ Round /\ Goal /\ MixedOnlyByFailure /\ ReopensAsClosed

LEMMA OrderLemma ==
    /\ \A i \in 1 .. Size : Order[i] \in Cells
    /\ \A c \in Cells : \E i \in 1 .. Size : Order[i] = c
<1>1. /\ Order[1] = "PPRLow" /\ Order[2] = "PPRHigh" /\ Order[3] = "LightsComm"
      /\ Order[4] = "DeviceType" /\ Order[5] = "DeviceComm" /\ Order[6] = "ButtonMap"
  BY DEF Order
<1>2. \A i \in 1 .. Size : i \in {1, 2, 3, 4, 5, 6} BY DEF Size
<1>3. {1, 2, 3, 4, 5, 6} \subseteq 1 .. Size BY DEF Size
<1>4. \A i \in 1 .. Size : Order[i] \in Cells
  BY <1>1, <1>2, Zenon DEF Cells
<1>5. \A c \in Cells : \E i \in {1, 2, 3, 4, 5, 6} : Order[i] = c
  BY <1>1, Zenon DEF Cells
<1> QED BY <1>3, <1>4, <1>5

\* The report that is next is one, and its goal is the dialog's struct.
LEMMA ToSendLemma ==
    ASSUME IInv, pc = "sending"
    PROVE  /\ ToSend.cell \in Cells \cup {"apply", "store"}
           /\ ToSend.value \in Byte
           /\ ToSend.goal \subseteq {Build(controls)}
           /\ next <= Size => /\ ToSend.cell = Order[next] /\ ToSend.value = Settings[Order[next]]
                              /\ ToSend.goal = {}
           /\ next > Size => /\ ToSend.cell = command
                             /\ spoilt => ToSend.goal = {}
<1>1. next \in 1 .. Size + 1 /\ Settings \in [Cells -> Byte] /\ spoilt \in BOOLEAN
      /\ command \in {"apply", "store"}
  BY DEF IInv, TypeOK, Dialog
<1>2. CASE next <= Size
  <2>1. ToSend = Report(Order[next], Settings[Order[next]], {}) BY <1>2 DEF ToSend
  <2>2. Order[next] \in Cells BY <1>1, <1>2, OrderLemma DEF Size
  <2> QED BY <2>1, <2>2, <1>1, <1>2 DEF Report, Size
<1>3. CASE ~(next <= Size)
  <2>1. ToSend = Report(command, 0, IF spoilt THEN {} ELSE {Build(controls)})
    BY <1>3, Zenon DEF ToSend
  <2> QED BY <2>1, <1>1, <1>3 DEF Report, Size, Byte
<1> QED BY <1>2, <1>3

LEMMA InitOK == Init => IInv
<1> SUFFICES ASSUME Init PROVE IInv
  OBVIOUS
<1> USE DEF Init
<1>1. TypeOK
  <2>1. next \in 1 .. Size + 1 BY DEF Size
  <2>2. Settings \in [Cells -> Byte] /\ live \in [Cells -> Byte] /\ controls \in Controls
    BY DefaultsLemma
  <2>3. on \in BOOLEAN /\ spoilt \in BOOLEAN BY Zenon
  <2>4. file \subseteq [Cells -> Byte] /\ saved \subseteq [Cells -> Byte] /\ endpoint = {}
    OBVIOUS
  <2> QED BY <2>1, <2>2, <2>3, <2>4, Zenon DEF TypeOK
<1>2. Dialog
  BY DefaultsLemma DEF Dialog
<1>3. Powered /\ Round /\ Goal /\ ReopensAsClosed
  BY DEF Powered, Round, Goal, ReopensAsClosed
<1>4. MixedOnlyByFailure
  BY DefaultsLemma DEF MixedOnlyByFailure
<1> QED BY <1>1, <1>2, <1>3, <1>4 DEF IInv

\* Which steps a proof about the tool or about the board has to look at.
LEMMA Steps ==
    ASSUME [Next]_vars
    PROVE  \/ Open \/ OpenFails \/ Change \/ Click \/ Close \/ Kill \/ Send \/ SendFails
           \/ ProcessByte \/ ProcessCommand \/ PowerOff \/ Boot
           \/ UNCHANGED vars
BY Zenon DEF Next

\* A dialog that is closed, and one that a round comes back to.
LEMMA EndedLemma ==
    ASSUME Ended
    PROVE  Settings' \in [Cells -> Byte] /\ controls' \in Controls /\ Shown(controls')
BY DefaultsLemma DEF Ended

LEMMA BackLemma ==
    ASSUME IInv
    PROVE  Settled(controls) \in Controls /\ Shown(Settled(controls))
BY SettledLemma DEF IInv, TypeOK, Dialog, Shown

LEMMA OpenLemma ==
    ASSUME IInv, Open
    PROVE  Settings' \in [Cells -> Byte] /\ controls' \in Controls /\ Shown(controls')
<1>1. PICK s \in IF file = {} THEN {Defaults} ELSE file :
          Settings' = Build(InitDialog(s)) /\ controls' = Settled(InitDialog(s))
  BY DEF Open
<1>2. s \in [Cells -> Byte]
  BY <1>1, DefaultsLemma DEF IInv, TypeOK
<1> QED BY <1>1, <1>2, InitDialogType, BuildType, SettledLemma

LEMMA DialogStep == IInv /\ [Next]_vars => Dialog' /\ controls' \in Controls /\ Settings' \in [Cells -> Byte]
<1> SUFFICES ASSUME IInv, [Next]_vars
             PROVE  Dialog' /\ controls' \in Controls /\ Settings' \in [Cells -> Byte]
  OBVIOUS
<1>0. /\ controls \in Controls /\ Settings \in [Cells -> Byte] /\ Shown(controls)
      /\ pc = "sending" => Settings = Build(controls) /\ command # "none"
  BY DEF IInv, TypeOK, Dialog
<1>a. Dialog' <=> Shown(controls') /\ (pc' = "sending" => Settings' = Build(controls') /\ command' # "none")
  BY DEF Dialog, Shown
<1>1. CASE Open
  BY <1>1, <1>a, OpenLemma DEF Open
<1>2. CASE Change
  BY <1>2, <1>0, <1>a, ChangeLemma DEF Change, IInv, Shown
<1>3. CASE Click
  BY <1>3, <1>0, <1>a, BuildType DEF Click
<1>4. CASE Close \/ Kill
  BY <1>4, <1>a, EndedLemma DEF Close, Kill, Ended
<1>5. CASE Send
  <2>1. CASE next <= Size
    BY <2>1, <1>5, <1>0, <1>a DEF Send, GoesOn
  <2>2. CASE ~(next <= Size)
    BY <2>2, <1>5, <1>0, <1>a, BackLemma DEF Send, GoesOn, BackToDialog
  <2> QED BY <2>1, <2>2
<1>6. CASE SendFails
  <2>1. CASE next <= Size
    BY <2>1, <1>6, <1>0, <1>a DEF SendFails, GivesUp
  <2>2. CASE ~(next <= Size)
    BY <2>2, <1>6, <1>0, <1>a, BackLemma DEF SendFails, GivesUp, BackToDialog
  <2> QED BY <2>1, <2>2
<1>7. CASE OpenFails \/ ProcessByte \/ ProcessCommand \/ PowerOff \/ Boot \/ UNCHANGED vars
  BY <1>7, <1>0, <1>a DEF OpenFails, ProcessByte, ProcessCommand, PowerOff, Boot, tool, board, vars
<1> QED BY Steps, <1>1, <1>2, <1>3, <1>4, <1>5, <1>6, <1>7

\* The endpoint after a report was sent, or was not.
LEMMA EndpointLemma ==
    ASSUME IInv, pc = "sending", Arrives \/ UNCHANGED endpoint
    PROVE  /\ \A r \in endpoint' : /\ r.cell \in Cells \cup {"apply", "store"}
                                   /\ r.value \in Byte
                                   /\ r.goal \subseteq [Cells -> Byte]
                                   /\ endpoint' = {r}
           /\ on \/ endpoint' = {}
<1>1. CASE Arrives
  <2>1. endpoint' = {ToSend} /\ on BY <1>1 DEF Arrives
  <2>2. Build(controls) \in [Cells -> Byte] BY BuildType DEF IInv, TypeOK
  <2> QED BY <2>1, <2>2, ToSendLemma
<1>2. CASE UNCHANGED endpoint
  BY <1>2 DEF IInv, TypeOK, Powered
<1> QED BY <1>1, <1>2

LEMMA TypeStep == IInv /\ [Next]_vars => TypeOK' /\ Powered'
<1> SUFFICES ASSUME IInv, [Next]_vars
             PROVE  TypeOK' /\ Powered'
  OBVIOUS
<1>0. controls' \in Controls /\ Settings' \in [Cells -> Byte]
  BY DialogStep
<1>a. TypeOK /\ Powered
  BY DEF IInv
<1>b. next \in 1 .. 7 /\ Size = 6
  BY <1>a DEF TypeOK, Size
<1>1. CASE Open \/ Change \/ Click
  <2>1. UNCHANGED <<file, shown, on, live, saved, endpoint, mixed>>
    BY <1>1, Zenon DEF Open, Change, Click, board
  <2>2. /\ pc' \in {"closed", "dialog", "sending"} /\ command' \in {"none", "apply", "store"}
        /\ next' \in 1 .. 7
    <3>1. CASE Open BY <3>1, <1>a, <1>b DEF Open, TypeOK
    <3>2. CASE Change BY <3>2, <1>a, <1>b DEF Change, TypeOK
    <3>3. CASE Click BY <3>3 DEF Click
    <3> QED BY <1>1, <3>1, <3>2, <3>3
  <2>3. spoilt' \in BOOLEAN
    BY <1>1, <1>a, Zenon DEF Open, Change, Click, TypeOK
  <2> QED BY <2>1, <2>2, <2>3, <1>0, <1>a, <1>b DEF TypeOK, Powered
<1>2. CASE OpenFails
  BY <1>2, <1>0, <1>a, DefaultsLemma DEF OpenFails, TypeOK, Powered, board
<1>3. CASE Close
  <2>1. Build(controls) \in [Cells -> Byte] BY <1>a, BuildType DEF TypeOK
  <2>2. file' \subseteq [Cells -> Byte] /\ shown' \subseteq Controls
    BY <2>1, <1>3, <1>a DEF Close, TypeOK
  <2> QED BY <1>3, <2>2, <1>0, <1>a DEF Close, Ended, TypeOK, Powered, board
<1>4. CASE Kill
  <2>1. UNCHANGED <<file, shown, on, live, saved, endpoint, mixed>>
    BY <1>4, Zenon DEF Kill, board
  <2>2. pc' = "closed" /\ command' = "none" /\ next' = 7
    BY <1>4, <1>b DEF Kill, Ended
  <2>3. spoilt' \in BOOLEAN
    BY <1>4, Zenon DEF Kill
  <2> QED BY <2>1, <2>2, <2>3, <1>0, <1>a, <1>b DEF TypeOK, Powered
<1>5. CASE Send \/ SendFails
  <2>1. pc = "sending" /\ (Arrives \/ UNCHANGED endpoint) BY <1>5 DEF Send, SendFails
  <2>2. next' \in 1 .. 7 /\ pc' \in {"closed", "dialog", "sending"} /\ command' \in {"none", "apply", "store"}
    <3>1. CASE next <= Size
      BY <3>1, <1>5, <1>a, <1>b DEF Send, SendFails, GoesOn, GivesUp, TypeOK
    <3>2. CASE ~(next <= Size)
      BY <3>2, <1>5, <1>a, <1>b DEF Send, SendFails, GoesOn, GivesUp, BackToDialog, TypeOK
    <3> QED BY <3>1, <3>2
  <2>3. spoilt' \in BOOLEAN
    <3>1. CASE Send
      <4>1. spoilt' = (spoilt /\ next <= Size) BY <3>1, Zenon DEF Send
      <4> QED BY <4>1, Zenon
    <3>2. CASE SendFails
      <4>1. spoilt' = (next <= Size) BY <3>2, Zenon DEF SendFails
      <4> QED BY <4>1, <1>b
    <3> QED BY <3>1, <3>2, <1>5
  <2>4. UNCHANGED <<Settings, file, shown, on, live, saved, mixed>> BY <1>5, Zenon DEF Send, SendFails
  <2> QED BY <2>1, <2>2, <2>3, <2>4, <1>0, <1>a, <1>b, EndpointLemma DEF TypeOK, Powered
<1>6. CASE ProcessByte
  BY <1>6, <1>0, <1>a DEF ProcessByte, TypeOK, Powered, tool
<1>7. CASE ProcessCommand
  <2>1. PICK r \in endpoint :
          /\ r.cell \in {"apply", "store"}
          /\ live' = Identify(live)
          /\ saved' = IF r.cell = "store" THEN {live'} ELSE saved
          /\ mixed' = MixedAfter(r)
    BY <1>7 DEF ProcessCommand
  <2>2. live' \in [Cells -> Byte] BY <2>1, <1>a, BoardLemma DEF TypeOK
  <2>3. mixed' \subseteq {"live", "saved"} BY <2>1, <1>a DEF MixedAfter, TypeOK
  <2> QED BY <2>1, <2>2, <2>3, <1>7, <1>0, <1>a DEF ProcessCommand, TypeOK, Powered, tool
<1>8. CASE PowerOff
  <2>1. spoilt' \in BOOLEAN
    <3>1. spoilt' = (pc = "sending") BY <1>8, Zenon DEF PowerOff
    <3> QED BY <3>1, Zenon
  <2> QED BY <2>1, <1>8, <1>0, <1>a, DefaultsLemma DEF PowerOff, TypeOK, Powered, tool
<1>9. CASE Boot
  <2>1. saved' \subseteq [Cells -> Byte] /\ saved' # {}
    BY <1>9, <1>a, DefaultsLemma DEF Boot, TypeOK
  <2>2. PICK s \in saved' : live' = FailSafe(Identify(s))
    BY <1>9, <2>1 DEF Boot
  <2>3. live' \in [Cells -> Byte] BY <2>1, <2>2, BoardLemma
  <2>4. mixed' \subseteq {"live", "saved"} /\ endpoint' = endpoint /\ on' = TRUE /\ UNCHANGED tool /\ spoilt' = spoilt
    BY <1>9, Zenon DEF Boot
  <2> QED BY <2>1, <2>3, <2>4, <1>0, <1>a DEF TypeOK, Powered, tool
<1>10. CASE UNCHANGED vars
  BY <1>10, <1>a DEF vars, tool, board, TypeOK, Powered
<1> QED BY Steps, <1>1, <1>2, <1>3, <1>4, <1>5, <1>6, <1>7, <1>8, <1>9, <1>10

\* The steps of the tool outside of a round leave the board alone.
LEMMA RoundStep == IInv /\ [Next]_vars => Round'
<1> SUFFICES ASSUME IInv, [Next]_vars, pc' = "sending", ~spoilt', next' > 1
             PROVE  /\ on'
                    /\ \A i \in 1 .. next' - 1 :
                          live'[Order[i]] = Settings'[Order[i]] \/ (i = next' - 1 /\ endpoint' # {})
                    /\ \A r \in endpoint' : /\ r.cell = Order[next' - 1]
                                            /\ r.value = Settings'[Order[next' - 1]]
  BY DEF Round
<1>a. TypeOK /\ Round /\ next \in 1 .. 7 /\ Size = 6
  BY DEF IInv, TypeOK, Size
<1>1. ~Open /\ ~OpenFails /\ ~Change /\ ~Click /\ ~Close /\ ~Kill
  BY <1>a DEF Open, OpenFails, Change, Click, Close, Kill, Ended
<1>2. CASE Send
  <2>1. next <= Size
    BY <1>2, Zenon DEF Send, GoesOn, BackToDialog
  <2>2. next' = next + 1 /\ ~spoilt /\ endpoint = {} /\ endpoint' = {ToSend} /\ on' /\ pc = "sending"
    BY <1>2, <2>1 DEF Send, GoesOn, Arrives
  <2>3. live' = live /\ Settings' = Settings
    BY <1>2 DEF Send
  <2>4. ToSend.cell = Order[next] /\ ToSend.value = Settings[Order[next]]
    BY <2>1, <2>2, ToSendLemma
  <2>5. \A i \in 1 .. next : live[Order[i]] = Settings[Order[i]] \/ i = next
    BY <1>a, <2>2 DEF Round
  <2> QED BY <1>a, <2>2, <2>3, <2>4, <2>5
<1>3. ~SendFails
  <2>1. CASE next <= Size BY <2>1 DEF SendFails
  <2>2. CASE ~(next <= Size) BY <2>2 DEF SendFails, GivesUp, BackToDialog
  <2> QED BY <2>1, <2>2
<1>4. CASE ProcessByte
  <2>1. PICK r \in endpoint : r.cell \in Cells /\ live' = [live EXCEPT ![r.cell] = r.value]
    BY <1>4 DEF ProcessByte
  <2>2. /\ pc = "sending" /\ ~spoilt /\ next > 1 /\ on /\ on' = on
        /\ endpoint' = {} /\ next' = next /\ Settings' = Settings
    BY <1>4, <1>a DEF ProcessByte, tool, Round
  <2>3. r.cell = Order[next - 1] /\ r.value = Settings[Order[next - 1]]
    BY <1>a, <2>1, <2>2 DEF Round
  <2>4. ASSUME NEW i \in 1 .. next - 1
        PROVE  live'[Order[i]] = Settings[Order[i]]
    <3>1. Order[i] \in Cells BY <1>a, OrderLemma
    <3>2. live[Order[i]] = Settings[Order[i]] \/ i = next - 1 BY <1>a, <2>2 DEF Round
    <3> QED BY <3>1, <3>2, <2>1, <2>3, <1>a DEF TypeOK
  <2> QED BY <2>2, <2>4
<1>5. ~ProcessCommand
  <2> SUFFICES ASSUME ProcessCommand PROVE FALSE
    OBVIOUS
  <2>1. PICK r \in endpoint : r.cell \in {"apply", "store"}
    BY DEF ProcessCommand
  <2>2. r.cell = Order[next - 1] /\ next > 1
    BY <1>a, <2>1 DEF ProcessCommand, tool, Round
  <2>3. r.cell \in Cells BY <2>2, <1>a, OrderLemma
  <2> QED BY <2>1, <2>3 DEF Cells
<1>6. ~PowerOff
  BY DEF PowerOff, tool
<1>7. ~Boot
  BY <1>a DEF Boot, tool, Round
<1>8. CASE UNCHANGED vars
  BY <1>8, <1>a DEF vars, tool, board, Round
<1> QED BY Steps, <1>1, <1>2, <1>3, <1>4, <1>5, <1>6, <1>7, <1>8

\* The command that ends a round that did not fail finds the round's struct.
LEMMA GoalLemma ==
    ASSUME IInv, pc = "sending", Arrives, NEW r \in endpoint', NEW s \in r.goal
    PROVE  r.cell \notin Cells /\ live = s /\ ~Conflict(s) /\ Toothed(s)
<1>a. TypeOK /\ Round /\ Dialog /\ next \in 1 .. 7 /\ Size = 6
  BY DEF IInv, TypeOK, Size
<1>1. r = ToSend /\ endpoint = {} BY DEF Arrives
<1>2. s = Build(controls) /\ next = 7 /\ ~spoilt /\ r.cell = command
  BY <1>1, <1>a, ToSendLemma
<1>3. command \in {"apply", "store"} BY <1>a DEF Dialog, TypeOK
<1>4. \A i \in 1 .. Size : live[Order[i]] = Settings[Order[i]]
  BY <1>a, <1>1, <1>2 DEF Round
<1>5. \A c \in Cells : live[c] = Settings[c]
  BY <1>4, OrderLemma
<1>6. live = Settings
  <2>1. live \in [Cells -> Byte] /\ Settings \in [Cells -> Byte] BY <1>a DEF TypeOK
  <2> QED BY <1>5, <2>1
<1>7. Settings = Build(controls) /\ Shown(controls) /\ controls \in Controls
  BY <1>a DEF Dialog, TypeOK
<1> QED BY <1>2, <1>3, <1>6, <1>7, BuildGood DEF Cells

LEMMA GoalStep == IInv /\ [Next]_vars => Goal'
<1> SUFFICES ASSUME IInv, [Next]_vars, NEW r \in endpoint', NEW s \in r.goal
             PROVE  r.cell \notin Cells /\ live' = s /\ ~Conflict(s) /\ Toothed(s)
  BY DEF Goal
<1>a. Goal /\ Powered
  BY DEF IInv
<1>1. CASE Send \/ SendFails
  <2>1. pc = "sending" /\ live' = live /\ (Arrives \/ UNCHANGED endpoint)
    BY <1>1 DEF Send, SendFails
  <2>2. CASE Arrives BY <2>1, <2>2, GoalLemma
  <2>3. CASE UNCHANGED endpoint BY <2>1, <2>3, <1>a DEF Goal
  <2> QED BY <2>1, <2>2, <2>3
<1>2. CASE Open \/ OpenFails \/ Change \/ Click \/ Close \/ Kill \/ UNCHANGED vars
  <2>1. endpoint' = endpoint /\ live' = live
    BY <1>2, Zenon DEF Open, OpenFails, Change, Click, Close, Kill, board, vars
  <2> QED BY <2>1, <1>a DEF Goal
<1>3. CASE ProcessByte \/ ProcessCommand \/ PowerOff
  BY <1>3 DEF ProcessByte, ProcessCommand, PowerOff
<1>4. CASE Boot
  BY <1>4, <1>a DEF Boot, Powered
<1> QED BY Steps, <1>1, <1>2, <1>3, <1>4
-----------------------------------------------------------------------------
(* The properties *)

LEMMA MixedStep == IInv /\ [Next]_vars => MixedOnlyByFailure'
<1> SUFFICES ASSUME IInv, [Next]_vars
             PROVE  MixedOnlyByFailure'
  OBVIOUS
<1>a. TypeOK /\ Goal /\ MixedOnlyByFailure
  BY DEF IInv
<1> DEFINE Good(s) == ~Conflict(s) /\ Toothed(s)
<1>b. ASSUME NEW s \in [Cells -> Byte], Good(s)
      PROVE  Good(Identify(s)) /\ Identify(s) \in [Cells -> Byte] /\ Good(FailSafe(s))
  BY <1>b, BoardLemma
<1>c. /\ "live" \notin mixed => Good(live)
      /\ \A s \in saved : "saved" \notin mixed => Good(s)
      /\ live \in [Cells -> Byte] /\ saved \subseteq [Cells -> Byte]
  BY <1>a DEF MixedOnlyByFailure, TypeOK
<1>d. Good(Defaults) /\ Defaults \in [Cells -> Byte]
  BY DefaultsLemma
<1> SUFFICES /\ "live" \notin mixed' => Good(live')
             /\ \A s \in saved' : "saved" \notin mixed' => Good(s)
  BY DEF MixedOnlyByFailure
<1> HIDE DEF Good
<1>1. CASE Open \/ OpenFails \/ Change \/ Click \/ Close \/ Kill \/ Send \/ SendFails \/ UNCHANGED vars
  <2>1. live' = live /\ saved' = saved /\ mixed' = mixed
    BY <1>1, Zenon DEF Open, OpenFails, Change, Click, Close, Kill, Send, SendFails, board, vars
  <2> QED BY <2>1, <1>c
<1>2. CASE ProcessByte
  BY <1>2, <1>c DEF ProcessByte
<1>3. CASE ProcessCommand
  <2>1. PICK r \in endpoint :
          /\ r.cell \in {"apply", "store"}
          /\ live' = Identify(live)
          /\ saved' = IF r.cell = "store" THEN {live'} ELSE saved
          /\ mixed' = MixedAfter(r)
    BY <1>3 DEF ProcessCommand
  <2>2. "live" \notin mixed' => Good(live)
    <3>1. CASE r.goal = {} BY <3>1, <2>1, <1>c DEF MixedAfter
    <3>2. CASE r.goal # {}
      <4>1. PICK s \in r.goal : TRUE BY <3>2
      <4>2. live = s /\ ~Conflict(s) /\ Toothed(s) BY <4>1, <2>1, <1>a DEF Goal
      <4> QED BY <4>2 DEF Good
    <3> QED BY <3>1, <3>2
  <2>3. "live" \notin mixed' => Good(live')
    BY <2>1, <2>2, <1>b, <1>c
  <2>4. CASE r.cell = "store"
    <3>1. "saved" \notin mixed' => "live" \notin mixed' BY <2>1, <2>4 DEF MixedAfter
    <3> QED BY <3>1, <2>1, <2>3, <2>4
  <2>5. CASE r.cell = "apply"
    <3>1. "saved" \notin mixed' => "saved" \notin mixed BY <2>1, <2>5 DEF MixedAfter
    <3> QED BY <3>1, <2>1, <2>3, <2>5, <1>c
  <2> QED BY <2>1, <2>4, <2>5
<1>4. CASE PowerOff
  BY <1>4, <1>c, <1>d DEF PowerOff
<1>5. CASE Boot
  <2>1. /\ saved' = IF saved = {} THEN {Defaults} ELSE saved
        /\ \E s \in saved' : live' = FailSafe(Identify(s))
        /\ mixed' = IF "saved" \in mixed THEN {"live", "saved"} ELSE {}
    BY <1>5, Zenon DEF Boot
  <2>2. \A s \in saved' : "saved" \notin mixed => Good(s) /\ s \in [Cells -> Byte]
    BY <2>1, <1>c, <1>d
  <2>3. PICK s \in saved' : live' = FailSafe(Identify(s)) BY <2>1
  <2>4. "saved" \notin mixed => Good(live')
    BY <2>2, <2>3, <1>b
  <2> QED BY <2>1, <2>2, <2>4
<1> QED BY Steps, <1>1, <1>2, <1>3, <1>4, <1>5

LEMMA ReopensStep == IInv /\ [Next]_vars => ReopensAsClosed'
<1> SUFFICES ASSUME IInv, [Next]_vars
             PROVE  ReopensAsClosed'
  OBVIOUS
<1>1. CASE OpenFails
  BY <1>1 DEF OpenFails, ReopensAsClosed
<1>2. CASE Close
  <2>1. InitDialog(Build(controls)) = controls
    BY RoundTrip DEF IInv, TypeOK, Dialog, Shown
  <2>2. CASE file' = {Build(controls)} /\ shown' = {controls}
    BY <2>1, <2>2 DEF ReopensAsClosed
  <2>3. CASE UNCHANGED <<file, shown>>
    BY <2>3 DEF ReopensAsClosed, IInv
  <2> QED BY <1>2, <2>2, <2>3 DEF Close
<1>3. CASE Open \/ Change \/ Click \/ Kill \/ Send \/ SendFails \/ ProcessByte \/ ProcessCommand
           \/ PowerOff \/ Boot \/ UNCHANGED vars
  <2>1. file' = file /\ shown' = shown
    BY <1>3, Zenon DEF Open, Change, Click, Kill, Send, SendFails, ProcessByte, ProcessCommand,
       PowerOff, Boot, tool, vars
  <2> QED BY <2>1 DEF ReopensAsClosed, IInv
<1> QED BY Steps, <1>1, <1>2, <1>3

LEMMA StepOK == IInv /\ [Next]_vars => IInv'
BY TypeStep, DialogStep, RoundStep, GoalStep, MixedStep, ReopensStep DEF IInv

LEMMA Inductive == Spec => []IInv
BY InitOK, StepOK, PTL DEF Spec

(* Structs hold bytes, the dialog shows entries that exist, and the tool   *)
(* is in one of its phases, in every run of the tool and the board.        *)
THEOREM TypeCorrect == Spec => []TypeOK
<1>1. IInv => TypeOK BY DEF IInv
<1> QED BY <1>1, Inductive, PTL

(* Without a failed write or a restart the board never holds conflicting   *)
(* settings or a tooth count the tool does not know.                       *)
THEOREM MixedOnlyAfterFailure == Spec => []MixedOnlyByFailure
<1>1. IInv => MixedOnlyByFailure BY DEF IInv
<1> QED BY <1>1, Inductive, PTL

(* A dialog reopens with what it showed when it was closed.                *)
THEOREM ReopensSame == Spec => []ReopensAsClosed
<1>1. IInv => ReopensAsClosed BY DEF IInv
<1> QED BY <1>1, Inductive, PTL

(* The board applies and stores exactly what the dialog showed when the    *)
(* button was pressed, if no write of the round failed and the board kept  *)
(* its power.                                                              *)
THEOREM AppliesChoice == Spec => AppliedAsChosen
<1>1. IInv /\ [Next]_vars => GoalReached
  <2> SUFFICES ASSUME IInv, [Next]_vars, NEW r \in endpoint, NEW s \in r.goal,
                      on', endpoint' # endpoint
               PROVE  live' = Identify(s) /\ (r.cell = "store" => saved' = {Identify(s)})
    BY DEF GoalReached
  <2>1. endpoint = {r} /\ live = s /\ r.cell \notin Cells
    BY DEF IInv, TypeOK, Goal
  <2>2. ProcessCommand
    <3>1. ~Open /\ ~OpenFails /\ ~Change /\ ~Click /\ ~Close /\ ~Kill /\ ~Boot /\ ~UNCHANGED vars
      BY Zenon DEF Open, OpenFails, Change, Click, Close, Kill, Boot, board, vars
    <3>2. ~Send /\ ~SendFails
      BY <2>1 DEF Send, SendFails, Arrives
    <3>3. ~PowerOff BY DEF PowerOff
    <3>4. ~ProcessByte BY <2>1 DEF ProcessByte
    <3> QED BY Steps, <3>1, <3>2, <3>3, <3>4
  <2> QED BY <2>1, <2>2 DEF ProcessCommand
<1> QED BY <1>1, Inductive, PTL DEF Spec, AppliedAsChosen
=============================================================================
