--------------------------- MODULE USBDeviceProofs ---------------------------
(***************************************************************************)
(* Proofs about USBDevice, for descriptors of every length: the types;     *)
(* that a device HID_Task finds configured has its endpoints and was asked *)
(* to be configured, whenever the interrupt changes its state; and that    *)
(* answers, refusals and acknowledgements reach the request they are for.  *)
(***************************************************************************)
EXTENDS USBDevice, TLAPS

Pcs == {"hid", "out", "in", "task", "handle", "write", "wait out", "read", "wait in",
        "status", "wait sent", "store", "endpoint 1", "make 1", "others 1", "make 2", "others 2",
        "final"}
Bank == [from : Requests \cup {"HID"}, last : BOOLEAN]
Ep0  == [setup : Requests \cup {None}, out : BOOLEAN, stalled : BOOLEAN, in : {None} \cup Bank]
Transfer == [req : Requests, stage : {"in", "out", "status", "ack"}]

(* What the operators on the control endpoint return is one again.         *)
LEMMA EndpointTypes ==
    ASSUME NEW e \in Ep0, NEW p \in Bank
    PROVE  /\ ClearSETUP(e) \in Ep0 /\ ClearOUT(e) \in Ep0 /\ ClearIN(e, p) \in Ep0
           /\ [ClearSETUP(e) EXCEPT !.stalled = TRUE] \in Ep0
           /\ ClearIN(ClearSETUP(e), p) \in Ep0
BY DEF Ep0, Bank, ClearSETUP, ClearOUT, ClearIN

LEMMA PacketTypes == \A r \in Requests \cup {"HID"}, b \in BOOLEAN : Packet(r, b) \in Bank
BY DEF Packet, Bank

LEMMA EmptyType == Empty \in Ep0
BY DEF Empty, Ep0

\* TypeOK in parts: the library, the main loop, the device, the host.
LibraryType == state \in States /\ config \in 0 .. 1 /\ interrupt \in {"suspend", "wake"}
LoopType    == /\ pc \in Pcs /\ hdr \in Requests /\ left \in 0 .. Packets
               /\ pc = "write" => left > 0
               /\ data \in {"none", "host", "garbage"}
DeviceType  == uadd \in 0 .. 1 /\ selected \in 0 .. 3 /\ endpoints \subseteq 1 .. 2
HostType    == /\ transfer \in {None} \cup Transfer /\ hostaddr \in {None, 0, 1}
               /\ line \in {"active", "suspended", "settling"}
FlagType    == /\ adden \in BOOLEAN /\ control \in BOOLEAN /\ asked \in BOOLEAN
               /\ connected \in BOOLEAN /\ early \in {"no", "handler", "report"}

LEMMA TypeParts ==
    TypeOK <=> LibraryType /\ LoopType /\ DeviceType /\ ep0 \in Ep0 /\ HostType /\ FlagType
BY Zenon DEF TypeOK, LibraryType, LoopType, DeviceType, HostType, FlagType, Pcs, Ep0, Bank, Transfer

LEMMA TypePartsNext ==
    TypeOK' <=> LibraryType' /\ LoopType' /\ DeviceType' /\ ep0' \in Ep0 /\ HostType' /\ FlagType'
BY Zenon DEF TypeOK, LibraryType, LoopType, DeviceType, HostType, FlagType, Pcs, Ep0, Bank, Transfer

(* Init has the types.                                                     *)
LEMMA TypeInit == Init => TypeOK
<1> SUFFICES ASSUME Init PROVE TypeOK
  OBVIOUS
<1>1. FlagType
  BY Zenon DEF Init, FlagType
<1>2. LibraryType /\ LoopType /\ DeviceType /\ HostType
  BY PacketsAssumption DEF Init, LibraryType, LoopType, DeviceType, HostType, States, Pcs, Requests
<1>3. ep0 \in Ep0
  BY EmptyType DEF Init
<1> QED
  BY <1>1, <1>2, <1>3, TypeParts

(* Every step of the main loop keeps the types.                            *)
LEMMA TypeMainLoop == TypeOK /\ MainLoop => TypeOK'
<1> SUFFICES ASSUME TypeOK, MainLoop PROVE TypeOK'
  OBVIOUS
<1>t. LibraryType /\ LoopType /\ DeviceType /\ ep0 \in Ep0 /\ HostType /\ FlagType
  BY TypeParts
<1>h. HostType'
  <2>1. UNCHANGED <<transfer, hostaddr, line>>
    BY Zenon DEF MainLoop, HID_Task, HIDReport, HIDAnswer, DeviceTask, GetReport, SetReport,
      GetDescriptor, GetConfiguration, SetAddress, SetConfiguration, Unhandled, WriteStream, WriteEnd,
      ReadStream, ReadEnd, ClearStatusStage, EnableDeviceAddress, StoreState, ConfigureEndpoint, Final, bus
  <2> QED
    BY <1>t, <2>1 DEF HostType
<1>f. FlagType'
  <2>1. UNCHANGED <<asked, connected, early>>
    BY Zenon DEF MainLoop, HID_Task, HIDReport, HIDAnswer, DeviceTask, GetReport, SetReport,
      GetDescriptor, GetConfiguration, SetAddress, SetConfiguration, Unhandled, WriteStream, WriteEnd,
      ReadStream, ReadEnd, ClearStatusStage, EnableDeviceAddress, StoreState, ConfigureEndpoint, Final, bus
  <2>2. adden' = adden \/ adden' = TRUE
    BY Zenon DEF MainLoop, HID_Task, HIDReport, HIDAnswer, DeviceTask, GetReport, SetReport,
      GetDescriptor, GetConfiguration, SetAddress, SetConfiguration, Unhandled, WriteStream, WriteEnd,
      ReadStream, ReadEnd, ClearStatusStage, EnableDeviceAddress, StoreState, ConfigureEndpoint, Final,
      device
  <2>3. UNCHANGED control \/ control' \in BOOLEAN
    BY Zenon DEF MainLoop, HID_Task, HIDReport, HIDAnswer, DeviceTask, GetReport, SetReport,
      GetDescriptor, GetConfiguration, SetAddress, SetConfiguration, Unhandled, WriteStream, WriteEnd,
      ReadStream, ReadEnd, ClearStatusStage, EnableDeviceAddress, StoreState, ConfigureEndpoint, Configure,
      Final, device
  <2> QED
    BY <1>t, <2>1, <2>2, <2>3, Zenon DEF FlagType
<1>l. LibraryType'
  <2>1. UNCHANGED library \/ SetConfiguration \/ StoreState
    BY Zenon DEF MainLoop, HID_Task, HIDReport, HIDAnswer, DeviceTask, GetReport, SetReport,
      GetDescriptor, GetConfiguration, SetAddress, Unhandled, WriteStream, WriteEnd,
      ReadStream, ReadEnd, ClearStatusStage, EnableDeviceAddress, ConfigureEndpoint, Final
  <2>2. CASE UNCHANGED library
    BY <1>t, <2>2 DEF library, LibraryType
  <2>3. CASE SetConfiguration
    BY <1>t, <2>3 DEF SetConfiguration, LibraryType
  <2>4. CASE StoreState
    BY <1>t, <2>4 DEF StoreState, LibraryType, States
  <2> QED
    BY <2>1, <2>2, <2>3, <2>4
<1>d. DeviceType'
  <2>1. uadd' = uadd \/ uadd' = 1
    BY Zenon DEF MainLoop, HID_Task, HIDReport, HIDAnswer, DeviceTask, GetReport, SetReport,
      GetDescriptor, GetConfiguration, SetAddress, SetConfiguration, Unhandled, WriteStream, WriteEnd,
      ReadStream, ReadEnd, ClearStatusStage, EnableDeviceAddress, StoreState, ConfigureEndpoint, Final, device
  <2>2. selected' \in 0 .. 3
    <3>1. \/ selected' = selected
          \/ HID_Task \/ HIDReport \/ DeviceTask \/ ConfigureEndpoint
      BY Zenon DEF MainLoop, HIDAnswer, GetReport, SetReport,
        GetDescriptor, GetConfiguration, SetAddress, SetConfiguration, Unhandled, WriteStream, WriteEnd,
        ReadStream, ReadEnd, ClearStatusStage, EnableDeviceAddress, StoreState, Final, device
    <3>2. QED
      <4>1. selected' \in {selected, 0, 1, 2, 3}
        <5>1. CASE HID_Task
          BY <5>1 DEF HID_Task
        <5>2. CASE HIDReport
          BY <5>2 DEF HIDReport
        <5>3. CASE DeviceTask
          BY <5>3 DEF DeviceTask
        <5>4. CASE ConfigureEndpoint
          BY <5>4 DEF ConfigureEndpoint
        <5> QED
          BY <3>1, <5>1, <5>2, <5>3, <5>4
      <4> QED
        BY <1>t, <4>1 DEF DeviceType
  <2>3. endpoints' \subseteq 1 .. 2
    <3>1. endpoints' = endpoints \/ ConfigureEndpoint
      BY Zenon DEF MainLoop, HID_Task, HIDReport, HIDAnswer, DeviceTask, GetReport, SetReport,
        GetDescriptor, GetConfiguration, SetAddress, SetConfiguration, Unhandled, WriteStream, WriteEnd,
        ReadStream, ReadEnd, ClearStatusStage, EnableDeviceAddress, StoreState, Final, device
    <3>2. CASE ConfigureEndpoint
      <4>1. endpoints' \in {endpoints, endpoints \cup {}, endpoints \cup {1}, endpoints \cup {2}}
        BY <3>2 DEF ConfigureEndpoint, Configure
      <4> QED
        BY <1>t, <4>1 DEF DeviceType
    <3> QED
      BY <1>t, <3>1, <3>2 DEF DeviceType
  <2> QED
    BY <1>t, <2>1, <2>2, <2>3 DEF DeviceType
<1>e. ep0' \in Ep0
  <2>p. \A b \in BOOLEAN : Packet(hdr, b) \in Bank /\ Packet("HID", b) \in Bank
    BY <1>t, PacketTypes DEF LoopType
  <2>1. CASE HIDReport
    BY <1>t, <2>1, <2>p, EndpointTypes DEF HIDReport
  <2>2. CASE HIDAnswer
    BY <1>t, <2>2, <2>p, EndpointTypes DEF HIDAnswer
  <2>3. CASE GetReport \/ SetReport \/ GetDescriptor \/ SetAddress \/ SetConfiguration
    BY <1>t, <2>3, <2>p, EndpointTypes DEF GetReport, SetReport, GetDescriptor, SetAddress, SetConfiguration
  <2>4. CASE GetConfiguration
    BY <1>t, <2>4, <2>p, EndpointTypes DEF GetConfiguration
  <2>5. CASE WriteStream
    <3>1. Packet(hdr, left = 1) \in Bank
      BY <2>p
    <3> QED
      BY <1>t, <2>5, <3>1, EndpointTypes DEF WriteStream
  <2>6. CASE WriteEnd \/ ReadStream \/ ReadEnd
    BY <1>t, <2>6, <2>p, EndpointTypes DEF WriteEnd, ReadStream, ReadEnd
  <2>7. CASE ClearStatusStage
    BY <1>t, <2>7, <2>p, EndpointTypes DEF ClearStatusStage
  <2>8. CASE Final
    BY <1>t, <2>8, <2>p, EndpointTypes DEF Final
  <2>9. CASE HID_Task \/ DeviceTask \/ Unhandled \/ EnableDeviceAddress \/ StoreState
    BY <1>t, <2>9 DEF HID_Task, DeviceTask, Unhandled, EnableDeviceAddress, StoreState, device
  <2>10. CASE ConfigureEndpoint
    <3>1. ep0' = ep0 \/ ep0' = Empty
      BY <2>10 DEF ConfigureEndpoint, Configure
    <3> QED
      BY <1>t, <3>1, EmptyType
  <2> QED
    BY <2>1, <2>2, <2>3, <2>4, <2>5, <2>6, <2>7, <2>8, <2>9, <2>10 DEF MainLoop
<1>p. LoopType'
  <2> USE DEF LoopType, Pcs
  <2>1. CASE HID_Task \/ HIDReport \/ HIDAnswer
    BY <1>t, <2>1 DEF HID_Task, HIDReport, HIDAnswer
  <2>2. CASE DeviceTask
    <3>1. hdr' \in Requests
      BY <1>t, <2>2 DEF DeviceTask, Ep0, IsSETUPReceived
    <3> QED
      BY <1>t, <2>2, <3>1 DEF DeviceTask
  <2>3. CASE GetReport \/ SetReport \/ GetDescriptor
    <3>1. left' \in 0 .. Packets /\ (pc' = "write" => left' > 0)
      <4>1. CASE GetReport
        <5>1. left' = 1
          BY <4>1, Zenon DEF GetReport
        <5> QED
          BY <5>1, PacketsAssumption
      <4>2. CASE SetReport
        BY <1>t, <4>2 DEF SetReport
      <4>3. CASE GetDescriptor
        <5>1. left' \in 1 .. Packets
          BY <4>3, Zenon DEF GetDescriptor
        <5> QED
          BY <5>1, PacketsAssumption
      <4> QED
        BY <2>3, <4>1, <4>2, <4>3
    <3>2. pc' \in {"write", "read"} /\ hdr' = hdr /\ data' \in {data, "none"}
      BY <2>3 DEF GetReport, SetReport, GetDescriptor
    <3> QED
      BY <1>t, <3>1, <3>2
  <2>4. CASE GetConfiguration \/ SetAddress \/ SetConfiguration \/ Unhandled
    BY <1>t, <2>4 DEF GetConfiguration, SetAddress, SetConfiguration, Unhandled, library
  <2>5. CASE WriteStream
    <3>1. Packets \in Nat /\ left \in 0 .. Packets /\ left > 0
      BY <1>t, <2>5, PacketsAssumption DEF WriteStream
    <3>2. left' \in 0 .. Packets /\ pc' \in Pcs /\ (pc' = "write" => left' > 0)
      <4>1. CASE left' = left /\ pc' \in {"final", "wait out"}
        BY <3>1, <4>1
      <4>2. CASE left' = left - 1 /\ pc' = IF left = 1 THEN "wait out" ELSE "write"
        <5>1. CASE left = 1
          <6>1. left - 1 = 0 /\ 0 \in 0 .. Packets
            BY <5>1, PacketsAssumption
          <6>2. left' = 0 /\ pc' = "wait out"
            BY <4>2, <5>1, <6>1
          <6> QED
            BY <6>1, <6>2
        <5>2. CASE left # 1
          <6>1. left - 1 \in 0 .. Packets /\ left - 1 > 0
            BY <3>1, <5>2
          <6> QED
            BY <4>2, <5>2, <6>1
        <5> QED
          BY <5>1, <5>2
      <4> QED
        BY <2>5, <4>1, <4>2 DEF WriteStream
    <3> QED
      BY <1>t, <2>5, <3>2 DEF WriteStream
  <2>6. CASE WriteEnd \/ ReadStream \/ ReadEnd
    BY <1>t, <2>6 DEF WriteEnd, ReadStream, ReadEnd
  <2>7. CASE ClearStatusStage
    <3>1. pc' \in {"final", "wait sent", "store"}
      BY <2>7 DEF ClearStatusStage
    <3> QED
      BY <1>t, <2>7, <3>1 DEF ClearStatusStage
  <2>8. CASE EnableDeviceAddress \/ StoreState \/ ConfigureEndpoint \/ Final
    BY <1>t, <2>8 DEF EnableDeviceAddress, StoreState, ConfigureEndpoint, Final
  <2> QED
    BY <2>1, <2>2, <2>3, <2>4, <2>5, <2>6, <2>7, <2>8 DEF MainLoop
<1> QED
  BY <1>h, <1>f, <1>l, <1>d, <1>e, <1>p, TypePartsNext

(* The interrupt keeps the types.                                          *)
LEMMA TypeBusEvent == TypeOK /\ BusEvent => TypeOK'
<1> SUFFICES ASSUME TypeOK, BusEvent PROVE TypeOK'
  OBVIOUS
<1>t. LibraryType /\ LoopType /\ DeviceType /\ ep0 \in Ep0 /\ HostType /\ FlagType
  BY TypeParts
<1>l. LibraryType'
  BY <1>t DEF LibraryType, States, BusEvent, EndOfReset, Suspend, WakeUp, Connect, Disconnect
<1>p. LoopType'
  <2>1. UNCHANGED <<pc, hdr, left, data>>
    BY Zenon DEF BusEvent, EndOfReset, Suspend, WakeUp, Connect, Disconnect
  <2> QED
    BY <1>t, <2>1 DEF LoopType
<1>d. DeviceType' /\ ep0' \in Ep0
  <2>1. CASE EndOfReset
    <3>1. uadd' = 0 /\ selected' = 0 /\ endpoints' = {} /\ ep0' = Empty
      BY <2>1, Zenon DEF EndOfReset
    <3> QED
      BY <3>1, EmptyType DEF DeviceType
  <2>2. CASE UNCHANGED device
    BY <1>t, <2>2 DEF DeviceType, device
  <2> QED
    BY <2>1, <2>2, Zenon DEF BusEvent, Suspend, WakeUp, Connect, Disconnect
<1>h. HostType'
  BY <1>t DEF HostType, BusEvent, EndOfReset, Suspend, WakeUp, Connect, Disconnect
<1>f. FlagType'
  BY <1>t, Zenon DEF FlagType, device, BusEvent, EndOfReset, Suspend, WakeUp, Connect, Disconnect
<1> QED
  BY <1>l, <1>p, <1>d, <1>h, <1>f, TypePartsNext

(* And so does the host.                                                   *)
LEMMA TypeHost == TypeOK /\ Host => TypeOK'
<1> SUFFICES ASSUME TypeOK, Host PROVE TypeOK'
  OBVIOUS
<1>t. LibraryType /\ LoopType /\ DeviceType /\ ep0 \in Ep0 /\ HostType /\ FlagType
  BY TypeParts
<1>l. LibraryType' /\ LoopType'
  <2>1. UNCHANGED <<library, pc, hdr, left, data>>
    BY Zenon DEF Host, Settle, Setup, TakeIN, SendOUT, TakeStall, Abort
  <2> QED
    BY <1>t, <2>1 DEF library, LibraryType, LoopType
<1>d. DeviceType'
  <2>1. UNCHANGED <<uadd, selected, endpoints>>
    BY Zenon DEF Host, Settle, Setup, TakeIN, SendOUT, TakeStall, Abort, device
  <2> QED
    BY <1>t, <2>1 DEF DeviceType
<1>e. ep0' \in Ep0
  BY <1>t DEF Ep0, Host, Settle, Setup, TakeIN, SendOUT, TakeStall, Abort, device
<1>h. HostType'
  <2>1. ASSUME NEW r \in Requests, Setup(r) PROVE HostType'
    <3>1. FirstStage(r) \in {"in", "out", "status", "ack"}
      BY DEF FirstStage
    <3> QED
      BY <1>t, <2>1, <3>1 DEF Setup, HostType, Transfer
  <2>2. CASE TakeIN
    BY <1>t, <2>2 DEF TakeIN, Talks, HostType, Transfer
  <2>3. CASE SendOUT
    BY <1>t, <2>3 DEF SendOUT, Talks, HostType, Transfer, bus
  <2>4. CASE TakeStall \/ Abort
    BY <1>t, <2>4 DEF TakeStall, Abort, HostType, bus
  <2>5. CASE Settle
    BY <1>t, <2>5 DEF Settle, HostType
  <2> QED
    BY <2>1, <2>2, <2>3, <2>4, <2>5 DEF Host
<1>f. FlagType'
  <2>1. Interrupted \in {"no", "handler", "report"}
    BY DEF Interrupted
  <2> QED
    BY <1>t, <2>1, Zenon DEF FlagType, device, bus, Host, Settle, Setup, TakeIN, SendOUT, TakeStall, Abort
<1> QED
  BY <1>l, <1>d, <1>e, <1>h, <1>f, TypePartsNext

LEMMA TypeStep == TypeOK /\ [Next]_vars => TypeOK'
<1>1. ASSUME TypeOK, UNCHANGED vars PROVE TypeOK'
  <2>1. LibraryType /\ LoopType /\ DeviceType /\ ep0 \in Ep0 /\ HostType /\ FlagType
    BY <1>1, TypeParts
  <2>2. LibraryType' /\ LoopType' /\ DeviceType' /\ ep0' \in Ep0 /\ HostType'
    BY <1>1, <2>1 DEF LibraryType, LoopType, DeviceType, HostType, vars, library, device, bus
  <2>3. FlagType'
    BY <1>1, <2>1, Zenon DEF FlagType, vars, device, bus
  <2> QED
    BY <2>2, <2>3, TypePartsNext
<1> QED
  BY <1>1, TypeMainLoop, TypeBusEvent, TypeHost DEF Next

(* The variables of the library, the endpoint and the host's transfer keep *)
(* their types, and a stream that sends has packets left, for descriptors  *)
(* of every length.                                                        *)
THEOREM TypeCorrect == Spec => []TypeOK
BY TypeInit, TypeStep, PTL DEF Spec
-----------------------------------------------------------------------------
Cfg  == {"Configure", "Deconfigure"}
Tail == {"endpoint 1", "make 1", "others 1", "make 2", "others 2"}

\* The host can be heard again: after a reset or a resume the main loop comes to
\* a wait first.
Hears == hostaddr # None /\ line = "active"

\* What is handled where the handlers share a loop.
Handled ==
    /\ pc = "status"    => hdr \in Cfg \cup {"GetConfiguration", "SetAddress"}
    /\ pc = "wait sent" => hdr = "SetAddress"
    /\ pc = "store"     => hdr \in Cfg \cup {"SetAddress"}

\* The handler of SetConfiguration has still to make both endpoints.
SettingUp ==
    \/ pc \in {"status", "store"} /\ hdr \in Cfg
    \/ pc = "endpoint 1"
    \/ pc = "make 1" /\ selected # 0

\* Where the device has, or may come to have, its configuration, its endpoints
\* are made or will be before HID_Task runs.
Endpointed ==
    state = "Configured" \/ config = 1 =>
        \/ SettingUp
        \/ pc = "others 1" /\ 1 \in endpoints
        \/ pc = "make 2" /\ selected # 0 /\ 1 \in endpoints
        \/ endpoints = {1, 2}

\* The request to be handled is the one pending, unless a reset took it away.
Current == pc = "handle" => ep0.setup = hdr \/ (~Hears /\ ep0.setup = None)

\* Some SetConfiguration is under way or done, and no reset undid it.
Configuring ==
    \/ config = 1
    \/ state = "Configured"
    \/ ep0.setup \in Cfg
    \/ pc \in {"status", "store"} /\ hdr \in Cfg /\ adden

Requested == Configuring => asked

ConfiguredInv == Handled /\ Endpointed /\ Current /\ Requested

LEMMA ConfiguredInit == Init => ConfiguredInv
<1> SUFFICES ASSUME Init PROVE ConfiguredInv
  OBVIOUS
<1>1. state = "Unattached" /\ config = 0 /\ pc = "hid" /\ ep0.setup = None
  BY DEF Init, Empty
<1>2. None \notin Cfg
  BY NoneAssumption DEF Cfg, Requests
<1> QED
  BY <1>1, <1>2 DEF ConfiguredInv, Handled, Endpointed, Current, Requested, Configuring

\* The facts of TypeOK that the steps below need.
LEMMA TypeFacts ==
    TypeOK => endpoints \subseteq {1, 2} /\ config \in {0, 1} /\ ep0 \in Ep0
<1>1. 1 .. 2 = {1, 2} /\ 0 .. 1 = {0, 1}
  OBVIOUS
<1> QED
  BY <1>1, TypeParts, Zenon DEF LibraryType, DeviceType

\* What a reset leaves is no configuration.
LEMMA ResetConfiguration ==
    EndOfReset =>
        /\ state' # "Configured" /\ config' # 1 /\ ~adden' /\ ~Hears'
        /\ ep0'.setup = None /\ ep0'.in = None
<1>1. 0 # 1
  OBVIOUS
<1>2. EndOfReset => config' = 0
  BY Zenon DEF EndOfReset
<1>3. EndOfReset => ~adden'
  BY Zenon DEF EndOfReset
<1>4. EndOfReset => ~Hears'
  BY DEF EndOfReset, Hears
<1> QED
  BY <1>1, <1>2, <1>3, <1>4 DEF EndOfReset, Empty

\* The main loop does not change what the host hears, and no other bus event or
\* action of the host but Settle makes it heard.
LEMMA HearsFrame ==
    /\ MainLoop => (Hears' <=> Hears)
    /\ Suspend \/ WakeUp \/ Connect \/ Disconnect => (Hears' => Hears)
    /\ (\E r \in Requests : Setup(r)) \/ SendOUT \/ TakeStall \/ Abort => (Hears' <=> Hears)
<1>1. MainLoop => UNCHANGED <<hostaddr, line>>
  BY Zenon DEF MainLoop, HID_Task, HIDReport, HIDAnswer, DeviceTask, GetReport, SetReport,
    GetDescriptor, GetConfiguration, SetAddress, SetConfiguration, Unhandled, WriteStream, WriteEnd,
    ReadStream, ReadEnd, ClearStatusStage, EnableDeviceAddress, StoreState, ConfigureEndpoint, Final, bus
<1>2. Suspend \/ WakeUp \/ Connect \/ Disconnect => (Hears' => Hears)
  BY DEF Suspend, WakeUp, Connect, Disconnect, Hears
<1>3. (\E r \in Requests : Setup(r)) \/ SendOUT \/ TakeStall \/ Abort => UNCHANGED <<hostaddr, line>>
  BY Zenon DEF Setup, SendOUT, TakeStall, Abort, bus
<1> QED
  BY <1>1, <1>2, <1>3 DEF Hears

\* A host that is heard has an address for the device.
LEMMA HeardHears == TypeOK /\ Heard => Hears
<1> SUFFICES ASSUME TypeOK, Heard PROVE Hears
  OBVIOUS
<1>1. uadd \in 0 .. 1
  BY TypeParts, Zenon DEF DeviceType
<1>2. hostaddr \in 0 .. 1 /\ line = "active"
  BY <1>1 DEF Heard
<1> QED
  BY <1>2, NoneAssumption DEF Hears

\* What the main loop does to a SETUP packet is clear it.
LEMMA MainLoopSetup ==
    TypeOK /\ MainLoop => ep0'.setup = ep0.setup \/ ep0'.setup = None
<1> SUFFICES ASSUME TypeOK, MainLoop PROVE ep0'.setup = ep0.setup \/ ep0'.setup = None
  OBVIOUS
<1>1. \A e \in Ep0 : \A p : /\ ClearSETUP(e).setup = None
                          /\ ClearOUT(e).setup = e.setup
                          /\ ClearIN(e, p).setup = e.setup
                          /\ ClearIN(ClearSETUP(e), p).setup = None
                          /\ [ClearSETUP(e) EXCEPT !.stalled = TRUE].setup = None
  BY DEF Ep0, ClearSETUP, ClearOUT, ClearIN
<1>2. ep0 \in Ep0
  BY TypeFacts
<1>3. CASE HIDReport
  BY <1>1, <1>2, <1>3 DEF HIDReport
<1>4. CASE HIDAnswer
  BY <1>1, <1>2, <1>4 DEF HIDAnswer
<1>5. CASE GetReport
  BY <1>1, <1>2, <1>5 DEF GetReport
<1>9. CASE SetReport
  BY <1>1, <1>2, <1>9 DEF SetReport
<1>10. CASE GetDescriptor
  BY <1>1, <1>2, <1>10 DEF GetDescriptor
<1>11. CASE SetAddress
  BY <1>1, <1>2, <1>11 DEF SetAddress
<1>12. CASE SetConfiguration
  BY <1>1, <1>2, <1>12 DEF SetConfiguration
<1>13. CASE GetConfiguration
  BY <1>1, <1>2, <1>13 DEF GetConfiguration
<1>14. CASE WriteStream
  <2>1. ep0' = ep0 \/ ep0' = ClearOUT(ep0) \/ \E p : ep0' = ClearIN(ep0, p)
    BY <1>14, Zenon DEF WriteStream
  <2> QED
    BY <1>1, <1>2, <2>1
<1>15. CASE WriteEnd
  BY <1>1, <1>2, <1>15 DEF WriteEnd
<1>16. CASE ReadStream
  <2>1. ep0' = ep0 \/ ep0' = ClearOUT(ep0) \/ \E p : ep0' = ClearIN(ep0, p)
    BY <1>16, Zenon DEF ReadStream
  <2> QED
    BY <1>1, <1>2, <2>1
<1>17. CASE ReadEnd
  BY <1>1, <1>2, <1>17 DEF ReadEnd
<1>6. CASE ClearStatusStage
  BY <1>1, <1>2, <1>6 DEF ClearStatusStage
<1>7. CASE Final
  BY <1>1, <1>2, <1>7 DEF Final
<1>8. CASE HID_Task \/ DeviceTask \/ Unhandled \/ EnableDeviceAddress \/ StoreState
  BY <1>8 DEF HID_Task, DeviceTask, Unhandled, EnableDeviceAddress, StoreState, device
<1>18. CASE ConfigureEndpoint
  <2>1. ep0' = ep0 \/ ep0' = Empty
    BY <1>18 DEF ConfigureEndpoint, Configure
  <2>2. Empty.setup = None
    BY DEF Empty
  <2> QED
    BY <2>1, <2>2
<1> QED
  BY <1>18, <1>3, <1>4, <1>5, <1>6, <1>7, <1>8, <1>9, <1>10, <1>11, <1>12, <1>13, <1>14, <1>15, <1>16, <1>17
     DEF MainLoop

\* The report endpoints are not the control endpoint.
LEMMA ReportEndpoints == 1 # 0 /\ 2 # 0
OBVIOUS

(* A step of the main loop keeps the invariant: it is the handler of       *)
(* SetConfiguration that gives the device its state and its endpoints.     *)
LEMMA ConfiguredMainLoop == TypeOK /\ ConfiguredInv /\ MainLoop => ConfiguredInv'
<1> SUFFICES ASSUME TypeOK, ConfiguredInv, MainLoop PROVE ConfiguredInv'
  OBVIOUS
<1> USE DEF ConfiguredInv, Handled, Endpointed, SettingUp, Requested, Configuring, Cfg
<1>h. asked' <=> asked
  <2>1. UNCHANGED asked
    BY Zenon DEF MainLoop, HID_Task, HIDReport, HIDAnswer, DeviceTask, GetReport, SetReport,
      GetDescriptor, GetConfiguration, SetAddress, SetConfiguration, Unhandled, WriteStream, WriteEnd,
      ReadStream, ReadEnd, ClearStatusStage, EnableDeviceAddress, StoreState, ConfigureEndpoint, Final, bus
  <2> QED
    BY <2>1
<1>s. ep0'.setup = ep0.setup \/ ep0'.setup = None
  BY MainLoopSetup
<1>n. None \notin Cfg
  BY NoneAssumption DEF Requests
<1>c. ep0'.setup \in Cfg => ep0.setup \in Cfg
  BY <1>s, <1>n
<1>a. adden' <=> adden \/ EnableDeviceAddress
  <2>1. EnableDeviceAddress => adden' = TRUE
    BY Zenon DEF EnableDeviceAddress
  <2>2. ~EnableDeviceAddress => UNCHANGED adden
    BY Zenon DEF MainLoop, HID_Task, HIDReport, HIDAnswer, DeviceTask, GetReport, SetReport,
      GetDescriptor, GetConfiguration, SetAddress, SetConfiguration, Unhandled, WriteStream, WriteEnd,
      ReadStream, ReadEnd, ClearStatusStage, StoreState, ConfigureEndpoint, Final, device
  <2>3. CASE EnableDeviceAddress
    BY <2>1, <2>3
  <2>4. CASE ~EnableDeviceAddress
    <3>1. adden' = adden
      BY <2>2, <2>4
    <3>2. adden' <=> adden
      BY <3>1
    <3> QED
      BY <2>4, <3>2, Zenon
  <2> QED
    BY <2>3, <2>4
<1>1. CASE \/ HID_Task \/ HIDReport \/ HIDAnswer \/ GetReport \/ SetReport \/ GetDescriptor
         \/ Unhandled \/ WriteStream \/ WriteEnd \/ ReadStream \/ ReadEnd \/ Final
  <2>1. /\ UNCHANGED <<state, config, hdr, endpoints>>
        /\ pc' \in {"hid", "out", "in", "task", "write", "read", "wait out", "wait in", "final"}
        /\ pc \notin Tail \cup {"status", "store"}
    <3>1. CASE HID_Task \/ HIDReport \/ HIDAnswer
      BY <3>1 DEF HID_Task, HIDReport, HIDAnswer, library, Tail
    <3>2. CASE GetReport \/ SetReport \/ GetDescriptor
      BY <3>2 DEF GetReport, SetReport, GetDescriptor, Handles, library, Tail
    <3>3. CASE Unhandled
      BY <3>3 DEF Unhandled, library, device, Tail
    <3>4. CASE WriteStream \/ WriteEnd \/ ReadStream \/ ReadEnd \/ Final
      <4>1. /\ UNCHANGED <<state, config, hdr, endpoints>>
            /\ pc' \in {"write", "wait out", "wait in", "final", "hid"}
            /\ pc \in {"write", "wait out", "read", "wait in", "final"}
        BY <3>4 DEF WriteStream, WriteEnd, ReadStream, ReadEnd, Final, library
      <4> QED
        BY <4>1 DEF Tail
    <3> QED
      BY <1>1, <3>1, <3>2, <3>3, <3>4
  <2>2. Handled' /\ Endpointed' /\ Current'
    BY <2>1 DEF Current, Tail
  <2>3. Requested'
    BY <2>1, <1>h, <1>c
  <2> QED
    BY <2>2, <2>3
<1>2. CASE DeviceTask
  <2>1. /\ UNCHANGED <<state, config, endpoints, ep0>>
        /\ \/ pc' = "hid" /\ hdr' = hdr
           \/ pc' = "handle" /\ hdr' = ep0.setup
        /\ pc = "task"
    BY <1>2, Zenon DEF DeviceTask, library
  <2>2. Handled' /\ Endpointed' /\ Current'
    BY <2>1 DEF Current
  <2>3. Requested'
    BY <2>1, <1>h
  <2> QED
    BY <2>2, <2>3
<1>3. CASE GetConfiguration \/ SetAddress \/ SetConfiguration
  <2>1. /\ UNCHANGED <<state, hdr, endpoints>>
        /\ config' = config \/ hdr \in Cfg
        /\ pc = "handle" /\ pc' = "status" /\ ep0.setup # None
        /\ hdr \in Cfg \cup {"GetConfiguration", "SetAddress"}
    BY <1>3 DEF GetConfiguration, SetAddress, SetConfiguration, Handles, Class, IsSETUPReceived, library
  <2>2. ep0.setup = hdr
    BY <2>1 DEF Current
  <2>3. Handled' /\ Endpointed' /\ Current'
    BY <2>1 DEF Current
  <2>4. Requested'
    BY <2>1, <2>2, <1>h, <1>c
  <2> QED
    BY <2>3, <2>4
<1>4. CASE ClearStatusStage
  <2>1. /\ UNCHANGED <<state, config, hdr, endpoints, adden>>
        /\ pc = "status"
        /\ \/ pc' = "final" /\ hdr = "GetConfiguration"
           \/ pc' = "wait sent" /\ hdr = "SetAddress"
           \/ pc' = "store" /\ hdr \notin {"GetConfiguration", "SetAddress"}
    BY <1>4 DEF ClearStatusStage, library
  <2>2. Handled' /\ Endpointed' /\ Current'
    BY <2>1 DEF Current
  <2>3. (adden' <=> adden) /\ (pc' = "store" => pc = "status")
    BY <2>1
  <2>4. Requested'
    BY <2>1, <2>3, <1>h, <1>c
  <2> QED
    BY <2>2, <2>4
<1>5. CASE EnableDeviceAddress
  <2>1. /\ UNCHANGED <<state, config, hdr, endpoints>>
        /\ pc = "wait sent" /\ pc' = "store"
    BY <1>5, Zenon DEF EnableDeviceAddress, library
  <2>2. Handled' /\ Endpointed' /\ Current'
    BY <2>1 DEF Current
  <2>3. Requested'
    BY <2>1, <1>h, <1>c
  <2> QED
    BY <2>2, <2>3
<1>6. CASE StoreState
  <2>1. /\ UNCHANGED <<config, hdr, endpoints>>
        /\ pc = "store"
        /\ \/ hdr = "SetAddress" /\ state' = "Addressed" /\ pc' = "final"
           \/ /\ hdr # "SetAddress" /\ pc' = "endpoint 1"
              /\ state' = "Configured" => config # 0 \/ adden
    <3>1. ASSUME hdr # "SetAddress", state' = "Configured" PROVE config # 0 \/ adden
      <4>1. state' = IF config # 0 \/ adden THEN "Configured" ELSE "Powered"
        BY <1>6, <3>1, Zenon DEF StoreState
      <4>2. CASE ~(config # 0 \/ adden)
        <5>1. state' = "Powered"
          BY <4>1, <4>2, Zenon
        <5> QED
          BY <3>1, <5>1
      <4> QED
        BY <4>2
    <3> QED
      BY <1>6, <3>1, Zenon DEF StoreState, device
  <2>0. config = 0 \/ config = 1
    BY TypeFacts
  <2>2. Handled' /\ Endpointed' /\ Current'
    BY <2>1 DEF Current
  <2>3. Requested'
    BY <2>0, <2>1, <1>h, <1>c
  <2> QED
    BY <2>2, <2>3
<1>7. CASE ConfigureEndpoint
  <2>0. endpoints \subseteq {1, 2}
    BY TypeFacts
  <2>1. /\ UNCHANGED <<state, config, hdr>>
        /\ \/ pc = "endpoint 1" /\ pc' = "make 1" /\ selected' = 1 /\ endpoints' = endpoints
           \/ /\ pc = "make 1" /\ pc' = "others 1"
              /\ endpoints' = IF selected = 0 THEN endpoints ELSE endpoints \cup {1}
           \/ pc = "others 1" /\ pc' = "make 2" /\ selected' = 2 /\ endpoints' = endpoints
           \/ /\ pc = "make 2" /\ pc' = "others 2"
              /\ endpoints' = IF selected = 0 THEN endpoints ELSE endpoints \cup {2}
           \/ pc = "others 2" /\ pc' = "final" /\ endpoints' = endpoints
    BY <1>7 DEF ConfigureEndpoint, Configure, library
  <2>2. Handled' /\ Current'
    BY <2>1 DEF Current
  <2>5. selected' = 1 \/ selected' = 2 => selected' # 0
    BY ReportEndpoints, Zenon
  <2>3. Endpointed'
    <3>1. CASE pc = "endpoint 1"
      BY <2>1, <2>5, <3>1
    <3>2. CASE pc = "make 1"
      BY <2>0, <2>1, <3>2
    <3>3. CASE pc = "others 1"
      <4>1. pc' = "make 2" /\ selected' # 0 /\ UNCHANGED <<state, config, endpoints>>
        BY <2>1, <2>5, <3>3
      <4> QED
        BY <3>3, <4>1
    <3>4. CASE pc = "make 2"
      BY <2>0, <2>1, <3>4
    <3>5. CASE pc = "others 2"
      BY <2>1, <3>5
    <3> QED
      BY <2>1, <3>1, <3>2, <3>3, <3>4, <3>5
  <2>4. Requested'
    BY <2>1, <1>h, <1>c
  <2> QED
    BY <2>2, <2>3, <2>4
<1> QED
  BY <1>1, <1>2, <1>3, <1>4, <1>5, <1>6, <1>7 DEF MainLoop

(* The interrupt keeps the invariant: a reset takes the configuration      *)
(* away, with the address, so that a handler it found does not restore it. *)
LEMMA ConfiguredBusEvent == TypeOK /\ ConfiguredInv /\ BusEvent => ConfiguredInv'
<1> SUFFICES ASSUME TypeOK, ConfiguredInv, BusEvent PROVE ConfiguredInv'
  OBVIOUS
<1> USE DEF ConfiguredInv, Handled, Endpointed, SettingUp, Requested, Configuring, Cfg
<1>n. None \notin Cfg
  BY NoneAssumption DEF Requests
<1>p. UNCHANGED <<pc, hdr>>
  BY Zenon DEF BusEvent, EndOfReset, Suspend, WakeUp, Connect, Disconnect
<1>0. Handled'
  BY <1>p
<1>1. CASE EndOfReset
  <2>1. state' # "Configured" /\ config' # 1 /\ ~adden' /\ ~Hears' /\ ep0'.setup = None
    BY <1>1, ResetConfiguration
  <2>2. Requested' /\ Endpointed' /\ Current'
    BY <1>n, <2>1 DEF Current
  <2> QED
    BY <1>0, <2>2
<1>2. CASE Suspend \/ WakeUp \/ Connect \/ Disconnect
  <2>1. /\ UNCHANGED <<config, endpoints, ep0, selected, asked, adden>>
        /\ state' = "Configured" => state = "Configured" \/ config # 0
    BY <1>2 DEF Suspend, WakeUp, Connect, Disconnect, device
  <2>2. config = 0 \/ config = 1
    BY TypeFacts
  <2>3. Endpointed'
    BY <1>p, <2>1, <2>2
  <2>4. (asked' <=> asked) /\ (adden' <=> adden)
    BY <2>1
  <2>5. Requested'
    BY <1>p, <2>1, <2>2, <2>4
  <2>6. Current'
    BY <1>2, <1>p, <2>1, HearsFrame DEF Current
  <2> QED
    BY <1>0, <2>3, <2>5, <2>6
<1> QED
  BY <1>1, <1>2 DEF BusEvent

(* The host keeps it: its SetConfiguration is remembered in asked, and it  *)
(* sends no request to a handler that has not looked at the last.          *)
LEMMA ConfiguredHost == TypeOK /\ ConfiguredInv /\ Host => ConfiguredInv'
<1> SUFFICES ASSUME TypeOK, ConfiguredInv, Host PROVE ConfiguredInv'
  OBVIOUS
<1> USE DEF ConfiguredInv, Handled, Endpointed, SettingUp, Requested, Configuring, Cfg
<1>1. UNCHANGED <<state, config, pc, hdr, endpoints, selected, adden>>
  BY Zenon DEF Host, Settle, Setup, TakeIN, SendOUT, TakeStall, Abort, library, device
<1>2. Handled' /\ Endpointed'
  BY <1>1
<1>3. ep0 \in Ep0 /\ hdr \in Requests /\ None \notin Requests
  BY TypeFacts, TypeParts, NoneAssumption, Zenon DEF LoopType
<1>a. adden' <=> adden
  BY <1>1
<1>4. ASSUME NEW r \in Requests, Setup(r) PROVE Requested' /\ Current'
  <2>1. ep0'.setup = r
    BY <1>3, <1>4 DEF Setup, Ep0
  <2>2. asked \/ r \in Cfg => asked'
    BY <1>4, Zenon DEF Setup
  <2>3. Hears /\ ep0.setup = None
    BY <1>4, HeardHears, Zenon DEF Setup, IsSETUPReceived
  <2>4. pc # "handle"
    BY <1>3, <2>3 DEF Current
  <2> QED
    BY <1>1, <1>a, <2>1, <2>2, <2>4 DEF Current
<1>5. CASE Settle \/ TakeIN \/ SendOUT \/ TakeStall \/ Abort
  <2>1. ep0'.setup = ep0.setup
    BY <1>3, <1>5 DEF Settle, TakeIN, SendOUT, TakeStall, Abort, device, Ep0
  <2>2. asked' <=> asked
    <3>1. UNCHANGED asked
      BY <1>5, Zenon DEF Settle, TakeIN, SendOUT, TakeStall, Abort, bus
    <3> QED
      BY <3>1
  <2>3. Requested'
    BY <1>1, <1>a, <2>1, <2>2
  <2>4. pc = "handle" => (Hears' => Hears)
    <3>1. CASE Settle
      BY <3>1 DEF Settle, Waiting, Diverted
    <3>2. CASE TakeIN
      BY <3>2, HeardHears, Zenon DEF TakeIN, Talks
    <3> QED
      BY <1>5, <3>1, <3>2, HearsFrame
  <2>5. Current'
    BY <1>1, <2>1, <2>4, Zenon DEF Current
  <2> QED
    BY <1>2, <2>3, <2>5
<1> QED
  BY <1>2, <1>4, <1>5 DEF Host

LEMMA ConfiguredStep == TypeOK /\ ConfiguredInv /\ [Next]_vars => ConfiguredInv'
<1>1. ASSUME ConfiguredInv, UNCHANGED vars PROVE ConfiguredInv'
  BY <1>1, Zenon DEF ConfiguredInv, Handled, Endpointed, SettingUp, Current, Hears, Requested, Configuring,
    vars, library, device, bus
<1> QED
  BY <1>1, ConfiguredMainLoop, ConfiguredBusEvent, ConfiguredHost DEF Next

(* HID_Task never finds a device configured without its endpoints, nor one *)
(* that no host asked to be configured since the last reset, at whatever   *)
(* moment the interrupt runs and whatever handler a reset finds at work.   *)
THEOREM ConfiguredHasEndpoints == Spec => []StateFollowsHost
<1>1. ConfiguredInv => StateFollowsHost
  BY DEF ConfiguredInv, Endpointed, SettingUp, Requested, Configuring, StateFollowsHost
<1> QED
  BY <1>1, TypeInit, TypeStep, ConfiguredInit, ConfiguredStep, PTL DEF Spec
-----------------------------------------------------------------------------
\* Where the main loop is between two handlers, and where a handler waits.
Between == {"hid", "out", "in", "task"}
Loops   == {"write", "wait out", "read", "wait in", "status", "wait sent"}

\* The request whose handler is in a loop of a stream, or makes endpoints.
Streams ==
    /\ pc \in {"write", "wait out"} => hdr \in {"GetReport", "GetDescriptor"}
    /\ pc \in {"read", "wait in"} => hdr = "SetReport"
    /\ pc \in Tail => hdr \in Cfg
    /\ pc = "in" => selected \in {0, 1}

\* A library that has nobody to talk to is not in a transfer.
Reachable ==
    /\ state = "Unattached" => ~connected
    /\ state = "Suspended" => line = "suspended"
    /\ transfer # None => connected /\ Hears

\* The endpoint that the main loop selected is selected, where it matters.
Selects ==
    /\ pc = "in" => selected = 1 \/ (ep0.setup = None /\ transfer = None)
    /\ pc \in Loops \cup {"handle", "store"} => selected = 0
    /\ pc = "final" /\ hdr \notin Cfg => selected = 0

\* A SETUP packet that no handler has touched, though one may have been running
\* when it came: those of SetConfiguration leave what is pending alone.
Untouched ==
    \/ pc \in Between \cup {"handle"}
    \/ pc \in Tail \cup {"store", "final"} /\ hdr \in Cfg

\* While a SETUP packet is pending.
Pending ==
    ep0.setup # None =>
        /\ ~ep0.stalled
        /\ transfer # None => /\ transfer.req = ep0.setup
                              /\ transfer.stage = FirstStage(ep0.setup)
        /\ Untouched => ep0.in = None /\ (Hears => transfer # None)
        /\ early = "no" =>
              \/ pc \in Between \cup {"handle"}
              \/ pc = "final" /\ hdr = "Unknown" /\ ep0.setup = "Unknown"

\* While the host exchanges packets of its transfer.
Served ==
    ep0.setup = None /\ transfer # None =>
        \/ ep0.stalled /\ (transfer.req = "Unknown" \/ early # "no")
        \/ /\ ~ep0.stalled
           /\ ep0.in # None => ep0.in.from = transfer.req
           /\ pc \in Loops => hdr = transfer.req
           /\ pc = "read" => ep0.in = None
           /\ transfer.req = "SetReport" /\ (pc = "wait in" \/ ep0.in # None)
                 => data = "host"

\* A handler that is about to acknowledge has its host waiting, if the host hears.
Acknowledging ==
    pc = "status" /\ hdr # "GetConfiguration" =>
        /\ ep0.setup = None /\ ep0.in = None
        /\ Hears => ~ep0.stalled /\ transfer # None /\ transfer.stage = "status"

Undisturbed == Selects /\ Pending /\ Served /\ Acknowledging

\* All that, unless the last request met a diverted report.
ServingInv == Streams /\ Reachable /\ (early = "report" \/ Undisturbed)

(* The operators on the control endpoint, field by field.                  *)
LEMMA Fields ==
    ASSUME NEW e \in Ep0, NEW p
    PROVE  /\ ClearSETUP(e).setup = None /\ ClearSETUP(e).in = e.in /\ ClearSETUP(e).stalled = e.stalled
           /\ ClearOUT(e).setup = e.setup /\ ClearOUT(e).in = e.in /\ ClearOUT(e).stalled = e.stalled
           /\ ClearIN(e, p).setup = e.setup /\ ClearIN(e, p).stalled = e.stalled
           /\ ClearIN(e, p).in = IF e.in = None THEN p ELSE e.in
BY DEF Ep0, ClearSETUP, ClearOUT, ClearIN

LEMMA EndpointFields ==
    ASSUME NEW e \in Ep0 PROVE ClearSETUP(e) \in Ep0
BY DEF Ep0, ClearSETUP

\* A bank that was empty then holds the handler's packet.
LEMMA Answered ==
    ASSUME NEW e \in Ep0, NEW r, NEW l
    PROVE  /\ ClearIN(e, Packet(r, l)).setup = e.setup
           /\ ClearIN(e, Packet(r, l)).stalled = e.stalled
           /\ \/ ClearIN(e, Packet(r, l)).in = e.in
              \/ ClearIN(e, Packet(r, l)).in.from = r
           /\ e.in = None => ClearIN(e, Packet(r, l)).in.from = r
BY DEF Ep0, ClearIN, Packet

LEMMA AnsweredNext ==
    ASSUME ep0 \in Ep0, NEW l, ep0' = ClearIN(ep0, Packet(hdr, l))
    PROVE  ep0'.in = ep0.in \/ ep0'.in.from = hdr
BY DEF Ep0, ClearIN, Packet

LEMMA GoneIsIdle == Reachable /\ Gone => transfer = None
<1>1. ASSUME line = "suspended" PROVE ~Hears
  BY <1>1 DEF Hears
<1> QED
  BY <1>1, Zenon DEF Reachable, Gone

LEMMA PacketFrom == \A r, l : Packet(r, l).from = r
BY DEF Packet

LEMMA ServingInit == Init => ServingInv
<1> SUFFICES ASSUME Init PROVE ServingInv
  OBVIOUS
<1>1. state = "Unattached" /\ pc = "hid" /\ ep0.setup = None /\ transfer = None
  BY DEF Init, Empty
<1>2. ~connected
  BY Zenon DEF Init
<1> QED
  BY <1>1, <1>2 DEF ServingInv, Streams, Reachable, Undisturbed, Selects, Untouched, Pending, Served,
    Acknowledging, Between, Loops, Tail

(* What a step of the main loop leaves alone.                              *)
LEMMA MainLoopFrame ==
    MainLoop => UNCHANGED <<transfer, early, connected, line>>
BY Zenon DEF MainLoop, HID_Task, HIDReport, HIDAnswer, DeviceTask, GetReport, SetReport,
    GetDescriptor, GetConfiguration, SetAddress, SetConfiguration, Unhandled, WriteStream, WriteEnd,
    ReadStream, ReadEnd, ClearStatusStage, EnableDeviceAddress, StoreState, ConfigureEndpoint, Final,
    bus

(* A step of the main loop puts the library back among the reachable, and  *)
(* starts no transfer.                                                     *)
LEMMA ReachableMainLoop == Reachable /\ MainLoop => Reachable'
<1> SUFFICES ASSUME Reachable, MainLoop PROVE Reachable'
  OBVIOUS
<1>1. state' = state \/ state' \in {"Addressed", "Configured", "Powered"}
  <2>1. state' = state \/ StoreState
    BY Zenon DEF MainLoop, HID_Task, HIDReport, HIDAnswer, DeviceTask, GetReport, SetReport,
      GetDescriptor, GetConfiguration, SetAddress, SetConfiguration, Unhandled, WriteStream, WriteEnd,
      ReadStream, ReadEnd, ClearStatusStage, EnableDeviceAddress, ConfigureEndpoint, Final, library
  <2> QED
    BY <2>1 DEF StoreState
<1>2. UNCHANGED <<transfer, connected, line>>
  BY MainLoopFrame
<1>3. (connected' <=> connected) /\ (Hears' <=> Hears)
  BY <1>2, HearsFrame
<1>4. CASE state' = state
  BY <1>2, <1>3, <1>4, Zenon DEF Reachable
<1>5. CASE state' \in {"Addressed", "Configured", "Powered"}
  <2>1. state' # "Unattached" /\ state' # "Suspended"
    BY <1>5
  <2> QED
    BY <1>2, <1>3, <2>1, Zenon DEF Reachable
<1> QED
  BY <1>1, <1>4, <1>5

LEMMA StreamsMainLoop == Handled /\ Streams /\ MainLoop => Streams'
<1> SUFFICES ASSUME Handled, Streams, MainLoop PROVE Streams'
  OBVIOUS
<1>1. CASE HID_Task \/ HIDReport \/ HIDAnswer \/ DeviceTask \/ Unhandled \/ Final
  BY <1>1 DEF HID_Task, HIDReport, HIDAnswer, DeviceTask, Unhandled, Final, Streams, Tail
<1>2. CASE GetReport \/ SetReport \/ GetDescriptor \/ GetConfiguration \/ SetAddress \/ SetConfiguration
  BY <1>2 DEF GetReport, SetReport, GetDescriptor, GetConfiguration, SetAddress, SetConfiguration,
    Handles, Streams, Tail
<1>3. CASE WriteStream \/ WriteEnd \/ ReadStream \/ ReadEnd
  BY <1>3 DEF WriteStream, WriteEnd, ReadStream, ReadEnd, Streams, Tail
<1>4. CASE ClearStatusStage \/ EnableDeviceAddress \/ StoreState
  BY <1>4 DEF ClearStatusStage, EnableDeviceAddress, StoreState, Handled, Streams, Tail, Cfg
<1>5. CASE ConfigureEndpoint
  BY <1>5 DEF ConfigureEndpoint, Streams, Tail
<1> QED
  BY <1>1, <1>2, <1>3, <1>4, <1>5 DEF MainLoop

(* A step of the main loop keeps the invariant: a packet pending is left   *)
(* alone or refused, and a request is answered by its own handler.         *)
LEMMA ServingMainLoop == TypeOK /\ ConfiguredInv /\ ServingInv /\ MainLoop => ServingInv'
<1> SUFFICES ASSUME TypeOK, ConfiguredInv, ServingInv, Undisturbed, MainLoop PROVE ServingInv'
  BY MainLoopFrame, ReachableMainLoop, StreamsMainLoop DEF ServingInv, ConfiguredInv
<1>r. Reachable'
  BY ReachableMainLoop DEF ServingInv
<1>h. UNCHANGED <<transfer, early>>
  BY MainLoopFrame
<1>b. (Hears' <=> Hears) /\ early' = early
  BY <1>h, HearsFrame
<1>e. ep0 \in Ep0
  BY TypeFacts
<1>g. Gone => transfer = None
  BY GoneIsIdle DEF ServingInv
<1>i. Handled /\ Current /\ Streams /\ Undisturbed
  BY Zenon DEF ServingInv, ConfiguredInv
<1>s. Streams'
  BY <1>i, StreamsMainLoop
<1>n. None \notin Requests /\ None \notin Cfg /\ hdr # None
  <2>1. hdr \in Requests
    BY TypeParts, Zenon DEF LoopType
  <2> QED
    BY <2>1, NoneAssumption DEF Requests, Cfg
<1>p. \A l : Packet(hdr, l).from = hdr
  BY PacketFrom
<1>1. CASE HID_Task
  <2>1. /\ pc = "hid" /\ UNCHANGED <<hdr, data>>
        /\ (pc' = "out" /\ selected' = 2) \/ pc' = "task"
        /\ ep0' = ep0
    BY <1>e, <1>p, <1>1, Fields DEF HID_Task, Cfg, library, device
  <2>3. Undisturbed'
    BY <1>h, <1>b, <1>i, <1>n, <2>1 DEF Handled, Streams, Undisturbed, Selects, Pending, Untouched,
       Served, Acknowledging, Between, Loops, Tail, Cfg
  <2> QED
    BY <1>r, <1>s, <2>3 DEF ServingInv
<1>2. CASE HIDReport
  <2>1. /\ pc = "out" /\ pc' = "in" /\ selected' = 1 /\ UNCHANGED <<hdr, data>>
        /\ ep0'.setup = ep0.setup /\ ep0'.in = ep0.in /\ ep0'.stalled = ep0.stalled
    BY <1>e, <1>p, <1>2, Fields DEF HIDReport, Cfg, library, device
  <2>3. Undisturbed'
    BY <1>h, <1>b, <1>i, <1>n, <2>1 DEF Handled, Streams, Undisturbed, Selects, Pending, Untouched,
       Served, Acknowledging, Between, Loops, Tail, Cfg
  <2> QED
    BY <1>r, <1>s, <2>3 DEF ServingInv
<1>3. CASE HIDAnswer
  <2>1. /\ pc = "in" /\ pc' = "task" /\ UNCHANGED <<hdr, data>>
        /\ selected # 0 => ep0' = ep0
        /\ ep0'.setup = ep0.setup
    BY <1>e, <1>p, <1>3, Fields DEF HIDAnswer
  <2>3. Undisturbed'
    <3>1. Selects' /\ Acknowledging'
      BY <2>1 DEF Selects, Acknowledging, Loops
    <3>2. CASE selected = 1
      <4>1. ep0' = ep0
        BY <2>1, <3>2, ReportEndpoints
      <4>2. Pending' /\ Served'
        BY <1>h, <1>b, <1>i, <1>n, <2>1, <4>1 DEF Undisturbed, Pending, Untouched, Served,
           Between, Loops, Tail, Cfg
      <4> QED
        BY <3>1, <4>2 DEF Undisturbed
    <3>3. CASE ep0.setup = None /\ transfer = None
      <4>1. Pending' /\ Served'
        BY <1>h, <2>1, <3>3 DEF Pending, Served
      <4> QED
        BY <3>1, <4>1 DEF Undisturbed
    <3> QED
      BY <1>i, <2>1, <3>2, <3>3 DEF Undisturbed, Selects
  <2> QED
    BY <1>r, <1>s, <2>3 DEF ServingInv
<1>4. CASE DeviceTask
  <2>1. /\ pc = "task" /\ UNCHANGED data
        /\ \/ pc' = "handle" /\ hdr' = ep0.setup /\ ep0.setup # None /\ selected' = 0
           \/ pc' = "hid" /\ hdr' = hdr
        /\ ep0' = ep0
    <3>1. /\ pc = "task" /\ UNCHANGED <<data, ep0>>
          /\ \/ pc' = "handle" /\ hdr' = ep0.setup /\ ep0.setup # None /\ selected' = 0
             \/ pc' = "hid" /\ hdr' = hdr
      BY <1>4, Zenon DEF DeviceTask, IsSETUPReceived
    <3> QED
      BY <3>1
  <2>3. Undisturbed'
    BY <1>h, <1>b, <1>i, <1>n, <2>1 DEF Handled, Streams, Undisturbed, Selects, Pending, Untouched,
       Served, Acknowledging, Between, Loops, Tail, Cfg
  <2> QED
    BY <1>r, <1>s, <2>3 DEF ServingInv
<1>5. CASE GetReport
  <2>1. /\ pc = "handle" /\ hdr = "GetReport" /\ pc' = "write" /\ UNCHANGED <<hdr, selected>>
        /\ UNCHANGED data
        /\ ep0'.setup = None /\ ep0'.stalled = ep0.stalled
        /\ ep0'.in = ep0.in
    BY <1>e, <1>p, <1>5, Fields DEF GetReport, Handles, IsSETUPReceived, Cfg, library, device
  <2>3. Undisturbed'
    <3>1. selected = 0
      BY <1>i, <2>1 DEF Undisturbed, Selects
    <3>2. transfer # None => /\ transfer.req = hdr
                             /\ ep0.in = None /\ ~ep0.stalled
      <4>1. transfer # None => ep0.setup = hdr
        BY <1>i, <2>1, Zenon DEF Current, ServingInv, Reachable
      <4> QED
        BY <1>i, <1>n, <2>1, <4>1 DEF Undisturbed, Pending, Untouched
    <3> QED
      BY <1>h, <1>b, <1>n, <2>1, <3>1, <3>2 DEF Undisturbed, Selects, Pending, Untouched,
         Served, Acknowledging, Between, Loops, Tail, Cfg
  <2> QED
    BY <1>r, <1>s, <2>3 DEF ServingInv
<1>6. CASE SetReport
  <2>1. /\ pc = "handle" /\ hdr = "SetReport" /\ pc' = "read" /\ UNCHANGED <<hdr, selected>>
        /\ ep0'.setup = None /\ ep0'.stalled = ep0.stalled
        /\ ep0'.in = ep0.in
    BY <1>e, <1>p, <1>6, Fields DEF SetReport, Handles, IsSETUPReceived, Cfg, library, device
  <2>3. Undisturbed'
    <3>1. selected = 0
      BY <1>i, <2>1 DEF Undisturbed, Selects
    <3>2. transfer # None => /\ transfer.req = hdr
                             /\ ep0.in = None /\ ~ep0.stalled
      <4>1. transfer # None => ep0.setup = hdr
        BY <1>i, <2>1, Zenon DEF Current, ServingInv, Reachable
      <4> QED
        BY <1>i, <1>n, <2>1, <4>1 DEF Undisturbed, Pending, Untouched
    <3> QED
      BY <1>h, <1>b, <1>n, <2>1, <3>1, <3>2 DEF Undisturbed, Selects, Pending, Untouched,
         Served, Acknowledging, Between, Loops, Tail, Cfg
  <2> QED
    BY <1>r, <1>s, <2>3 DEF ServingInv
<1>7. CASE GetDescriptor
  <2>1. /\ pc = "handle" /\ hdr = "GetDescriptor" /\ pc' = "write" /\ UNCHANGED <<hdr, selected>>
        /\ UNCHANGED data
        /\ ep0.setup # None /\ ep0'.setup = None /\ ep0'.stalled = ep0.stalled
        /\ ep0'.in = ep0.in
    BY <1>e, <1>p, <1>7, Fields DEF GetDescriptor, Handles, IsSETUPReceived, Class, Cfg, library, device
  <2>3. Undisturbed'
    <3>1. ep0.setup = hdr /\ selected = 0
      BY <1>i, <2>1 DEF Undisturbed, Selects, Current
    <3>2. /\ transfer # None => transfer.req = hdr
          /\ Hears => transfer # None
          /\ ep0.in = None /\ ~ep0.stalled
      BY <1>i, <1>n, <2>1, <3>1 DEF Undisturbed, Pending, Untouched
    <3>3. ~ep0'.stalled /\ ep0'.in = None
      BY <2>1, <3>2
    <3> QED
      BY <1>h, <1>b, <1>n, <2>1, <3>1, <3>2, <3>3 DEF Undisturbed, Selects, Pending, Untouched,
         Served, Acknowledging, Between, Loops, Tail, Cfg
  <2> QED
    BY <1>r, <1>s, <2>3 DEF ServingInv
<1>8. CASE GetConfiguration
  <2>1. /\ pc = "handle" /\ hdr = "GetConfiguration" /\ pc' = "status" /\ UNCHANGED <<hdr, selected>>
        /\ UNCHANGED data
        /\ ep0.setup # None /\ ep0'.setup = None /\ ep0'.stalled = ep0.stalled
        /\ ep0.in = None => ep0'.in.from = hdr
    <3>1. /\ pc = "handle" /\ hdr = "GetConfiguration" /\ pc' = "status"
          /\ UNCHANGED <<hdr, selected, data>>
          /\ \E l : ep0' = ClearIN(ClearSETUP(ep0), Packet(hdr, l))
      BY <1>8, Zenon DEF GetConfiguration, Handles
    <3>2. ep0.setup # None
      BY <1>8 DEF GetConfiguration, Handles, Class, IsSETUPReceived
    <3> QED
      BY <1>e, <3>1, <3>2, Fields, Answered, EndpointFields
  <2>3. Undisturbed'
    <3>1. ep0.setup = hdr /\ selected = 0
      BY <1>i, <2>1 DEF Undisturbed, Selects, Current
    <3>2. /\ transfer # None => transfer.req = hdr
          /\ Hears => transfer # None
          /\ ep0.in = None /\ ~ep0.stalled
      BY <1>i, <1>n, <2>1, <3>1 DEF Undisturbed, Pending, Untouched
    <3>3. ~ep0'.stalled /\ ep0'.in.from = hdr
      BY <2>1, <3>2
    <3> QED
      BY <1>h, <1>b, <1>n, <2>1, <3>1, <3>2, <3>3 DEF Undisturbed, Selects, Pending, Untouched,
         Served, Acknowledging, Between, Loops, Tail, Cfg
  <2> QED
    BY <1>r, <1>s, <2>3 DEF ServingInv
<1>9. CASE SetAddress
  <2>1. /\ pc = "handle" /\ hdr = "SetAddress" /\ pc' = "status" /\ UNCHANGED <<hdr, selected>>
        /\ UNCHANGED data
        /\ ep0.setup # None /\ ep0'.setup = None /\ ep0'.stalled = ep0.stalled
        /\ ep0'.in = ep0.in
    BY <1>e, <1>p, <1>9, Fields DEF SetAddress, Handles, IsSETUPReceived, Class, Cfg, library, device
  <2>3. Undisturbed'
    <3>1. ep0.setup = hdr /\ selected = 0
      BY <1>i, <2>1 DEF Undisturbed, Selects, Current
    <3>2. /\ transfer # None => transfer.req = hdr
          /\ Hears => transfer # None
          /\ transfer # None => transfer.stage = "status"
          /\ ep0.in = None /\ ~ep0.stalled
      BY <1>i, <1>n, <2>1, <3>1 DEF Undisturbed, Pending, Untouched, FirstStage, Cfg
    <3>3. ~ep0'.stalled /\ ep0'.in = None
      BY <2>1, <3>2
    <3> QED
      BY <1>h, <1>b, <1>n, <2>1, <3>1, <3>2, <3>3 DEF Undisturbed, Selects, Pending, Untouched,
         Served, Acknowledging, Between, Loops, Tail, Cfg
  <2> QED
    BY <1>r, <1>s, <2>3 DEF ServingInv
<1>10. CASE SetConfiguration
  <2>1. /\ pc = "handle" /\ hdr \in Cfg /\ pc' = "status" /\ UNCHANGED <<hdr, selected>>
        /\ UNCHANGED data
        /\ ep0.setup # None /\ ep0'.setup = None /\ ep0'.stalled = ep0.stalled
        /\ ep0'.in = ep0.in
    BY <1>e, <1>p, <1>10, Fields DEF SetConfiguration, Handles, IsSETUPReceived, Class, Cfg, library, device
  <2>3. Undisturbed'
    <3>1. ep0.setup = hdr /\ selected = 0
      BY <1>i, <2>1 DEF Undisturbed, Selects, Current
    <3>2. /\ transfer # None => transfer.req = hdr
          /\ Hears => transfer # None
          /\ transfer # None => transfer.stage = "status"
          /\ ep0.in = None /\ ~ep0.stalled
      BY <1>i, <1>n, <2>1, <3>1 DEF Undisturbed, Pending, Untouched, FirstStage, Cfg
    <3>3. ~ep0'.stalled /\ ep0'.in = None
      BY <2>1, <3>2
    <3>4. Selects' /\ Acknowledging'
      BY <1>h, <1>b, <2>1, <3>1, <3>2, <3>3 DEF Selects, Acknowledging
    <3>5. Pending' /\ Served'
      BY <1>h, <2>1, <3>2, <3>3 DEF Pending, Served
    <3> QED
      BY <3>4, <3>5 DEF Undisturbed
  <2> QED
    BY <1>r, <1>s, <2>3 DEF ServingInv
<1>11. CASE Unhandled
  <2>1. /\ pc = "handle" /\ pc' = "final" /\ UNCHANGED <<hdr, selected, data>>
        /\ hdr = "Unknown" \/ ep0.setup = None
        /\ ep0' = ep0
    BY <1>e, <1>p, <1>11, Fields DEF Unhandled, Handles, IsSETUPReceived, Class, Cfg, library, device
  <2>3. Undisturbed'
    <3>1. selected = 0
      BY <1>i, <2>1 DEF Undisturbed, Selects
    <3>2. Selects' /\ Acknowledging'
      BY <2>1, <3>1 DEF Selects, Acknowledging, Loops
    <3>3. ep0.setup # None => hdr = "Unknown" /\ ep0.setup = "Unknown" /\ hdr \notin Cfg
      BY <1>i, <1>n, <2>1 DEF Current, Cfg
    <3>4. Pending'
      BY <1>h, <1>i, <2>1, <3>3 DEF Undisturbed, Pending, Untouched, Between, Tail
    <3>5. Served'
      BY <1>h, <1>b, <1>i, <2>1 DEF Undisturbed, Served, Loops
    <3> QED
      BY <3>2, <3>4, <3>5 DEF Undisturbed
  <2> QED
    BY <1>r, <1>s, <2>3 DEF ServingInv
<1>12. CASE WriteStream
  <2>1. /\ pc = "write" /\ pc' \in {"write", "wait out", "final"} /\ UNCHANGED <<hdr, selected, data>>
        /\ ep0'.setup = ep0.setup /\ ep0'.stalled = ep0.stalled
        /\ \/ ep0'.in = ep0.in
           \/ ep0.setup = None /\ ep0'.in.from = hdr
    <3>1. /\ pc = "write" /\ pc' \in {"write", "wait out", "final"} /\ UNCHANGED <<hdr, selected, data>>
          /\ \/ ep0' = ep0 \/ ep0' = ClearOUT(ep0)
             \/ ep0.setup = None /\ ep0.in = None /\ (\E l : ep0' = ClearIN(ep0, Packet(hdr, l)))
      BY <1>12, Zenon DEF WriteStream, IsSETUPReceived, IsINReady
    <3>2. ep0'.setup = ep0.setup
      BY <1>e, <3>1 DEF Ep0, ClearIN, ClearOUT
    <3>3. ep0'.stalled = ep0.stalled
      BY <1>e, <3>1 DEF Ep0, ClearIN, ClearOUT
    <3>4. ep0'.in = ep0.in \/ (ep0.setup = None /\ ep0'.in.from = hdr)
      BY <1>e, <3>1, AnsweredNext, Fields
    <3> QED
      BY <3>1, <3>2, <3>3, <3>4
  <2>3. Undisturbed'
    BY <1>h, <1>b, <1>i, <1>n, <2>1 DEF Handled, Streams, Undisturbed, Selects, Pending, Untouched,
       Served, Acknowledging, Between, Loops, Tail, Cfg
  <2> QED
    BY <1>r, <1>s, <2>3 DEF ServingInv
<1>13. CASE WriteEnd
  <2>1. /\ pc = "wait out" /\ pc' = "final" /\ UNCHANGED <<hdr, selected, data>>
        /\ ep0'.setup = ep0.setup /\ ep0'.stalled = ep0.stalled
        /\ ep0'.in = ep0.in
    BY <1>e, <1>p, <1>13, Fields DEF WriteEnd, Cfg, library, device
  <2>3. Undisturbed'
    BY <1>h, <1>b, <1>i, <1>n, <2>1 DEF Handled, Streams, Undisturbed, Selects, Pending, Untouched,
       Served, Acknowledging, Between, Loops, Tail, Cfg
  <2> QED
    BY <1>r, <1>s, <2>3 DEF ServingInv
<1>14. CASE ReadStream
  <2>1. /\ pc = "read" /\ UNCHANGED <<hdr, selected>>
        /\ \/ pc' = "final" /\ (Gone \/ ep0.setup # None)
           \/ pc' = "wait in" /\ data' = "host" /\ ep0'.in = ep0.in
        /\ ep0'.setup = ep0.setup /\ ep0'.stalled = ep0.stalled
    <3>1. /\ pc = "read" /\ UNCHANGED <<hdr, selected>>
          /\ \/ pc' = "final" /\ (Gone \/ ep0.setup # None) /\ (\E l : ep0' = ClearIN(ep0, Packet(hdr, l)))
             \/ pc' = "wait in" /\ data' = "host" /\ ep0' = ClearOUT(ep0)
      BY <1>14, Zenon DEF ReadStream, IsSETUPReceived
    <3> QED
      BY <1>e, <3>1 DEF Ep0, ClearIN, ClearOUT, Packet
  <2>3. Undisturbed'
    BY <1>g, <1>h, <1>b, <1>i, <1>n, <2>1 DEF Handled, Streams, Undisturbed, Selects, Pending, Untouched,
       Served, Acknowledging, Between, Loops, Tail, Cfg
  <2> QED
    BY <1>r, <1>s, <2>3 DEF ServingInv
<1>15. CASE ReadEnd
  <2>1. /\ pc = "wait in" /\ pc' = "final" /\ UNCHANGED <<hdr, selected, data>>
        /\ ep0'.setup = ep0.setup /\ ep0'.stalled = ep0.stalled
        /\ ep0'.in = ep0.in \/ ep0'.in.from = hdr
    <3>1. /\ pc = "wait in" /\ pc' = "final" /\ UNCHANGED <<hdr, selected, data>>
          /\ \E l : ep0' = ClearIN(ep0, Packet(hdr, l))
      BY <1>15, Zenon DEF ReadEnd, Gone
    <3>2. ep0'.setup = ep0.setup
      BY <1>e, <3>1 DEF Ep0, ClearIN, ClearOUT
    <3>3. ep0'.stalled = ep0.stalled
      BY <1>e, <3>1 DEF Ep0, ClearIN, ClearOUT
    <3>4. ep0'.in = ep0.in \/ ep0'.in.from = hdr
      BY <1>e, <3>1, AnsweredNext
    <3> QED
      BY <3>1, <3>2, <3>3, <3>4
  <2>3. Undisturbed'
    BY <1>h, <1>b, <1>i, <1>n, <2>1 DEF Handled, Streams, Undisturbed, Selects, Pending, Untouched,
       Served, Acknowledging, Between, Loops, Tail, Cfg
  <2> QED
    BY <1>r, <1>s, <2>3 DEF ServingInv
<1>16. CASE ClearStatusStage
  <2>1. /\ pc = "status" /\ UNCHANGED <<hdr, selected, data>>
        /\ \/ pc' = "final" /\ hdr = "GetConfiguration" /\ ep0'.in = ep0.in
           \/ pc' = "wait sent" /\ hdr = "SetAddress"
           \/ pc' = "store" /\ hdr \notin {"GetConfiguration", "SetAddress"}
        /\ ep0'.setup = ep0.setup /\ ep0'.stalled = ep0.stalled
        /\ ep0'.in = ep0.in \/ ep0'.in.from = hdr
    <3>1. /\ pc = "status" /\ UNCHANGED <<hdr, selected, data>>
          /\ \/ ep0' = ep0
             \/ hdr = "GetConfiguration" /\ ep0' = ClearOUT(ep0)
             \/ hdr # "GetConfiguration" /\ (\E l : ep0' = ClearIN(ep0, Packet(hdr, l)))
      BY <1>16, Zenon DEF ClearStatusStage, StatusReady
    <3>2. ep0'.setup = ep0.setup
      BY <1>e, <3>1 DEF Ep0, ClearIN, ClearOUT
    <3>3. ep0'.stalled = ep0.stalled
      BY <1>e, <3>1 DEF Ep0, ClearIN, ClearOUT
    <3>4. ep0'.in = ep0.in \/ ep0'.in.from = hdr
      BY <1>e, <3>1 DEF Ep0, ClearIN, ClearOUT, Packet
    <3>5. \/ pc' = "final" /\ hdr = "GetConfiguration" /\ ep0'.in = ep0.in
          \/ pc' = "wait sent" /\ hdr = "SetAddress"
          \/ pc' = "store" /\ hdr \notin {"GetConfiguration", "SetAddress"}
      <4>1. hdr = "GetConfiguration" => ep0'.in = ep0.in
        BY <1>e, <3>1 DEF Ep0, ClearOUT
      <4> QED
        BY <1>16, <4>1 DEF ClearStatusStage
    <3> QED
      BY <3>1, <3>2, <3>3, <3>4, <3>5
  <2>3. Undisturbed'
    BY <1>h, <1>b, <1>i, <1>n, <2>1 DEF Handled, Streams, Undisturbed, Selects, Pending, Untouched,
       Served, Acknowledging, Between, Loops, Tail, Cfg
  <2> QED
    BY <1>r, <1>s, <2>3 DEF ServingInv
<1>17. CASE EnableDeviceAddress
  <2>1. /\ pc = "wait sent" /\ pc' = "store" /\ UNCHANGED <<hdr, selected, data>>
        /\ ep0' = ep0
    BY <1>e, <1>p, <1>17, Fields DEF EnableDeviceAddress, Cfg, library, device
  <2>3. Undisturbed'
    BY <1>h, <1>b, <1>i, <1>n, <2>1 DEF Handled, Streams, Undisturbed, Selects, Pending, Untouched,
       Served, Acknowledging, Between, Loops, Tail, Cfg
  <2> QED
    BY <1>r, <1>s, <2>3 DEF ServingInv
<1>18. CASE StoreState
  <2>1. /\ pc = "store" /\ UNCHANGED <<hdr, selected, data>>
        /\ \/ pc' = "final" /\ hdr = "SetAddress"
           \/ pc' = "endpoint 1" /\ hdr # "SetAddress"
        /\ ep0' = ep0
    BY <1>e, <1>p, <1>18, Fields DEF StoreState, Cfg, library, device
  <2>3. Undisturbed'
    BY <1>h, <1>b, <1>i, <1>n, <2>1 DEF Handled, Streams, Undisturbed, Selects, Pending, Untouched,
       Served, Acknowledging, Between, Loops, Tail, Cfg
  <2> QED
    BY <1>r, <1>s, <2>3 DEF ServingInv
<1>19. CASE ConfigureEndpoint
  <2>1. /\ pc \in Tail /\ pc' \in Tail \cup {"final"} /\ UNCHANGED <<hdr, data>>
        /\ ep0' = ep0 \/ ep0' = Empty
    BY <1>19 DEF ConfigureEndpoint, Configure, library, Tail
  <2>2. hdr \in Cfg
    BY <1>i, <2>1 DEF Streams
  <2>4. Selects' /\ Acknowledging'
    BY <2>1, <2>2 DEF Selects, Acknowledging, Loops, Tail
  <2>5. CASE ep0' = ep0
    <3>1. Pending' /\ Served'
      BY <1>h, <1>b, <1>i, <1>n, <2>1, <2>2, <2>5 DEF Undisturbed, Pending, Untouched, Served,
         Between, Loops, Tail, Cfg
    <3> QED
      BY <1>r, <1>s, <2>4, <3>1 DEF ServingInv, Undisturbed
  <2>6. CASE ep0' = Empty
    <3>1. ep0'.setup = None /\ ep0'.in = None /\ ~ep0'.stalled
      BY <2>6 DEF Empty
    <3>2. Pending' /\ Served'
      BY <2>1, <3>1 DEF Pending, Served, Loops, Tail
    <3> QED
      BY <1>r, <1>s, <2>4, <3>2 DEF ServingInv, Undisturbed
  <2> QED
    BY <2>1, <2>5, <2>6
<1>20. CASE Final
  <2>1. /\ pc = "final" /\ pc' = "hid" /\ UNCHANGED <<hdr, selected, data>>
        /\ \/ ep0' = ep0 /\ (selected # 0 \/ ep0.setup = None)
           \/ /\ selected = 0 /\ ep0.setup # None
              /\ ep0'.setup = None /\ ep0'.in = ep0.in /\ ep0'.stalled = TRUE
    BY <1>e, <1>p, <1>20, Fields DEF Final, IsSETUPReceived, ClearSETUP, Ep0, Cfg, library, device
  <2>3. Undisturbed'
    BY <1>h, <1>b, <1>i, <1>n, <2>1 DEF Handled, Streams, Undisturbed, Selects, Pending, Untouched,
       Served, Acknowledging, Between, Loops, Tail, Cfg
  <2> QED
    BY <1>r, <1>s, <2>3 DEF ServingInv
<1> QED
  BY <1>1, <1>2, <1>3, <1>4, <1>5, <1>6, <1>7, <1>8, <1>9, <1>10, <1>11, <1>12, <1>13, <1>14, <1>15, <1>16, <1>17, <1>18, <1>19, <1>20 DEF MainLoop

(* A transfer that ends, or a host that is heard again, while the main     *)
(* loop waits, leaves the invariant: a handler that only acknowledges is   *)
(* not waiting, nor is one that has a SETUP packet to take.                *)
LEMMA GivenUp ==
    ASSUME Undisturbed, early' = early, UNCHANGED <<pc, hdr, data, selected, ep0>>,
           transfer' = None \/ transfer' = transfer,
           \/ Waiting
           \/ ep0.setup = None /\ pc \in {"out", "in", "final"}
    PROVE  Undisturbed'
<1>1. ep0.setup # None => pc \in {"wait out", "wait in", "wait sent", "status"}
  BY DEF Waiting, IsSETUPReceived
<1>2. ~(pc = "status" /\ hdr # "GetConfiguration")
  BY DEF Undisturbed, Acknowledging, Waiting, StatusReady, IsINReady
<1>3. ep0.setup # None => ~Untouched
  BY <1>1 DEF Untouched, Between, Tail
<1>4. Pending'
  BY <1>1, <1>3 DEF Undisturbed, Pending, Untouched
<1>5. Selects'
  BY DEF Undisturbed, Selects
<1>6. Served' /\ Acknowledging'
  BY <1>2 DEF Undisturbed, Served, Acknowledging
<1> QED
  BY <1>4, <1>5, <1>6 DEF Undisturbed

\* So does a transfer that ends wherever the main loop is, with the host not
\* heard any more.
LEMMA CutOff ==
    ASSUME Undisturbed, early' = early, UNCHANGED <<pc, hdr, data, selected, ep0>>,
           transfer' = None, ~Hears'
    PROVE  Undisturbed'
<1>1. Pending'
  BY DEF Undisturbed, Pending, Untouched
<1>2. Selects'
  BY DEF Undisturbed, Selects
<1>3. Served' /\ Acknowledging'
  BY DEF Undisturbed, Served, Acknowledging
<1> QED
  BY <1>1, <1>2, <1>3 DEF Undisturbed

(* The interrupt keeps the invariant: whatever it finds the main loop at,  *)
(* it takes the transfer away, and the host is not heard for a while.      *)
LEMMA ServingBusEvent == TypeOK /\ ServingInv /\ BusEvent => ServingInv'
<1> SUFFICES ASSUME TypeOK, ServingInv, BusEvent PROVE ServingInv'
  OBVIOUS
<1>i. Streams /\ Reachable /\ (early = "report" \/ Undisturbed)
  BY Zenon DEF ServingInv
<1>p. UNCHANGED <<pc, hdr, data>>
  BY Zenon DEF BusEvent, EndOfReset, Suspend, WakeUp, Connect, Disconnect
<1>s. Streams'
  <2>1. selected' = selected \/ selected' = 0
    BY Zenon DEF BusEvent, EndOfReset, Suspend, WakeUp, Connect, Disconnect, device
  <2> QED
    BY <1>i, <1>p, <2>1 DEF Streams
<1>1. CASE EndOfReset
  <2>1. state' = "Default" /\ transfer' = None /\ selected' = 0
    BY <1>1, Zenon DEF EndOfReset
  <2>2. ep0'.setup = None /\ ep0'.in = None /\ ~Hears'
    BY <1>1, ResetConfiguration
  <2>3. Reachable'
    BY <2>1 DEF Reachable
  <2>4. Undisturbed'
    BY <2>1, <2>2 DEF Undisturbed, Selects, Pending, Served, Acknowledging
  <2> QED
    BY <1>s, <2>3, <2>4 DEF ServingInv
<1>2. CASE Suspend \/ Disconnect
  <2>1. /\ transfer' = None /\ early' = early
        /\ UNCHANGED <<selected, ep0>>
    <3>1. transfer' = None /\ UNCHANGED <<early, selected, ep0>>
      BY <1>2, Zenon DEF Suspend, Disconnect, device
    <3> QED
      BY <3>1
  <2>2. ~Hears'
    BY <1>2 DEF Suspend, Disconnect, Hears
  <2>3. Reachable'
    <3>1. CASE Suspend
      <4>1. state' = "Suspended" /\ line' = "suspended"
        BY <3>1, Zenon DEF Suspend
      <4> QED
        BY <2>1, <4>1 DEF Reachable
    <3>2. CASE Disconnect
      <4>1. state' = "Unattached" /\ ~connected'
        BY <3>2, Zenon DEF Disconnect
      <4> QED
        BY <2>1, <4>1 DEF Reachable
    <3> QED
      BY <1>2, <3>1, <3>2
  <2>4. Undisturbed => Undisturbed'
    BY <1>p, <2>1, <2>2, CutOff
  <2> QED
    BY <1>i, <1>s, <2>1, <2>3, <2>4 DEF ServingInv
<1>3. CASE WakeUp \/ Connect
  <2>1. UNCHANGED <<selected, ep0, transfer>>
    BY <1>3, Zenon DEF WakeUp, Connect, device
  <2>2. early' = early
    <3>1. UNCHANGED early
      BY <1>3, Zenon DEF WakeUp, Connect
    <3> QED
      BY <3>1
  <2>3. state' \in {"Configured", "Addressed", "Powered"}
    BY <1>3 DEF WakeUp, Connect
  <2>4. (connected => connected') /\ (Hears' => Hears)
    <3>1. connected' = connected \/ connected' = TRUE
      BY <1>3, Zenon DEF WakeUp, Connect
    <3> QED
      BY <1>3, <3>1, HearsFrame
  <2>5. Hears => Hears'
    BY <1>3 DEF WakeUp, Connect, Hears
  <2>6. Reachable'
    BY <1>i, <2>1, <2>3, <2>4, <2>5 DEF Reachable
  <2>7. Undisturbed => Undisturbed'
    BY <1>p, <2>1, <2>2, <2>4 DEF Undisturbed, Selects, Pending, Untouched, Served, Acknowledging
  <2> QED
    BY <1>i, <1>s, <2>2, <2>6, <2>7 DEF ServingInv
<1> QED
  BY <1>1, <1>2, <1>3 DEF BusEvent

(* The host keeps it: a request it sends empties the bank, and it takes a  *)
(* packet only of its own transfer.                                        *)
LEMMA ServingHost == TypeOK /\ ConfiguredInv /\ ServingInv /\ Host => ServingInv'
<1> SUFFICES ASSUME TypeOK, ConfiguredInv, ServingInv, Host PROVE ServingInv'
  OBVIOUS
<1>i. Current /\ Streams /\ Reachable /\ (early = "report" \/ Undisturbed)
  BY Zenon DEF ServingInv, ConfiguredInv
<1>e. ep0 \in Ep0
  BY TypeFacts
<1>t. transfer \in {None} \cup Transfer /\ hdr \in Requests
  BY TypeParts, Zenon DEF HostType, LoopType
<1>p. UNCHANGED <<state, pc, hdr, data, selected>>
  BY Zenon DEF Host, Settle, Setup, TakeIN, SendOUT, TakeStall, Abort, library, device
<1>c. connected' <=> connected
  <2>1. UNCHANGED connected
    BY Zenon DEF Host, Settle, Setup, TakeIN, SendOUT, TakeStall, Abort, bus
  <2> QED
    BY <2>1
<1>s. Streams'
  BY <1>i, <1>p DEF Streams
<1>1. ASSUME NEW r \in Requests, Setup(r) PROVE ServingInv'
  <2>1. connected /\ Hears /\ transfer = None /\ ep0.setup = None
    BY <1>1, HeardHears, Zenon DEF Setup, Heard, IsSETUPReceived
  <2>2. transfer' = [req |-> r, stage |-> FirstStage(r)] /\ early' = Interrupted /\ line' = line
    BY <1>1, Zenon DEF Setup
  <2>3. ep0'.setup = r /\ ep0'.in = None /\ ~ep0'.stalled
    BY <1>e, <1>1 DEF Setup, Ep0
  <2>4. transfer' # None /\ transfer'.req = r /\ transfer'.stage = FirstStage(r)
    <3>1. FirstStage(r) \in {"in", "out", "status"}
      BY DEF FirstStage
    <3> QED
      BY <1>1, <2>2, <3>1, NoneAssumption
  <2>5. Hears'
    BY <1>1, <2>1, HearsFrame
  <2>6. Reachable'
    BY <1>i, <1>p, <1>c, <2>1, <2>2, <2>5 DEF Reachable
  <2>7. r # None /\ hdr # None
    BY <1>1, <1>t, NoneAssumption
  <2>8. CASE Handling
    <3>1. CASE early = "report"
      BY <1>s, <2>2, <2>6, <2>8, <3>1 DEF ServingInv, Interrupted
    <3>2. CASE early # "report"
      <4>1. early' # "no" /\ pc \notin Between
        BY <2>2, <2>8, <3>2 DEF Interrupted, Handling, Diverted, Between
      <4>2. pc # "handle" /\ ~(pc = "status" /\ hdr # "GetConfiguration")
        BY <1>i, <2>1, <2>7, <3>2 DEF Undisturbed, Acknowledging, Current
      <4>3. Undisturbed'
        BY <1>i, <1>p, <2>2, <2>3, <2>4, <2>7, <3>2, <4>1, <4>2 DEF Undisturbed, Selects, Pending,
          Served, Acknowledging, Between
      <4> QED
        BY <1>s, <2>6, <4>3 DEF ServingInv
    <3> QED
      BY <3>1, <3>2
  <2>9. CASE ~Handling
    <3>1. pc \in Between
      BY <2>9 DEF Handling, Between
    <3>2. CASE Diverted
      BY <1>s, <2>2, <2>6, <3>2 DEF ServingInv, Interrupted
    <3>3. CASE ~Diverted
      <4>1. pc = "in" => selected = 1
        BY <1>i, <3>3 DEF Streams, Diverted
      <4>2. Selects' /\ Acknowledging'
        BY <1>p, <3>1, <4>1 DEF Selects, Acknowledging, Between, Loops
      <4>3. Pending' /\ Served'
        BY <1>p, <2>2, <2>3, <2>4, <2>7, <3>1 DEF Pending, Served
      <4> QED
        BY <1>s, <2>6, <4>2, <4>3 DEF ServingInv, Undisturbed
    <3> QED
      BY <3>2, <3>3
  <2> QED
    BY <2>8, <2>9
<1>2. CASE TakeIN \/ SendOUT
  <2>1. /\ connected /\ Hears /\ transfer # None /\ ep0.setup = None /\ ~ep0.stalled
        /\ early' = early
    <3>1. UNCHANGED early
      BY <1>2, Zenon DEF TakeIN, SendOUT
    <3>2. connected /\ Heard /\ transfer # None /\ ep0.setup = None /\ ~ep0.stalled
      BY <1>2, Zenon DEF TakeIN, SendOUT, Talks, Heard, IsSETUPReceived
    <3> QED
      BY <3>1, <3>2, HeardHears
  <2>2. /\ ep0'.setup = ep0.setup /\ ep0'.stalled = ep0.stalled
        /\ ep0'.in = None \/ ep0'.in = ep0.in
    BY <1>e, <1>2 DEF TakeIN, SendOUT, Ep0
  <2>3. transfer' = None \/ transfer'.req = transfer.req
    BY <1>t, <1>2, <2>1 DEF TakeIN, SendOUT, Transfer
  <2>4. ep0.in # None \/ transfer.stage # "status"
    BY <1>2 DEF TakeIN, SendOUT, IsINReady
  <2>5. Hears' /\ line' = line
    <3>1. CASE TakeIN
      <4>1. hostaddr' \in {1, hostaddr} /\ line' = line
        BY <3>1 DEF TakeIN
      <4> QED
        BY <2>1, <4>1, NoneAssumption DEF Hears
    <3>2. CASE SendOUT
      BY <2>1, <3>2, HearsFrame DEF SendOUT, bus
    <3> QED
      BY <1>2, <3>1, <3>2
  <2>6. Reachable'
    BY <1>i, <1>p, <1>c, <2>1, <2>5 DEF Reachable
  <2>7. Undisturbed => Undisturbed'
    BY <1>p, <2>1, <2>2, <2>3, <2>4 DEF Undisturbed, Selects, Pending, Served, Acknowledging
  <2> QED
    BY <1>i, <1>s, <2>1, <2>6, <2>7 DEF ServingInv
<1>3. CASE TakeStall
  <2>1. /\ transfer' = None /\ early' = early /\ UNCHANGED <<ep0, line>>
        /\ ep0.stalled /\ ep0.setup = None
    <3>1. transfer' = None /\ UNCHANGED <<early, ep0, line>> /\ ep0.stalled /\ ep0.setup = None
      BY <1>3, Zenon DEF TakeStall, Talks, IsSETUPReceived, device, bus
    <3> QED
      BY <3>1
  <2>2. Hears
    BY <1>3, HeardHears, Zenon DEF TakeStall, Talks
  <2>3. Reachable'
    BY <1>i, <1>p, <1>c, <2>1 DEF Reachable
  <2>4. Undisturbed => Undisturbed'
    BY <1>p, <2>1, <2>2 DEF Undisturbed, Selects, Pending, Served, Acknowledging
  <2> QED
    BY <1>i, <1>s, <2>1, <2>3, <2>4 DEF ServingInv
<1>4. CASE Abort
  <2>1. transfer' = None /\ early' = early /\ UNCHANGED <<ep0, line>> /\ Waiting
    <3>1. transfer' = None /\ UNCHANGED <<early, ep0, line>> /\ Waiting
      BY <1>4, Zenon DEF Abort, device, bus
    <3> QED
      BY <3>1
  <2>2. Reachable'
    BY <1>i, <1>p, <1>c, <2>1 DEF Reachable
  <2>3. Undisturbed => Undisturbed'
    BY <1>p, <2>1, GivenUp
  <2> QED
    BY <1>i, <1>s, <2>1, <2>2, <2>3 DEF ServingInv
<1>5. CASE Settle
  <2>1. /\ UNCHANGED <<transfer, ep0, state>> /\ early' = early
        /\ line = "settling" /\ line' = "active"
    <3>1. UNCHANGED <<transfer, ep0, state, early>> /\ line = "settling" /\ line' = "active"
      BY <1>5, Zenon DEF Settle, device, library
    <3> QED
      BY <3>1
  <2>2. transfer = None /\ state # "Suspended"
    BY <1>i, <2>1 DEF Reachable, Hears
  <2>3. Waiting \/ (ep0.setup = None /\ pc \in {"out", "in", "final"})
    BY <1>5 DEF Settle, IsSETUPReceived, Diverted
  <2>4. Reachable'
    BY <1>i, <1>p, <1>c, <2>1, <2>2 DEF Reachable
  <2>5. Undisturbed => Undisturbed'
    BY <1>p, <2>1, <2>2, <2>3, GivenUp
  <2> QED
    BY <1>i, <1>s, <2>1, <2>4, <2>5 DEF ServingInv
<1> QED
  BY <1>1, <1>2, <1>3, <1>4, <1>5 DEF Host

LEMMA ServingStep == TypeOK /\ ConfiguredInv /\ ServingInv /\ [Next]_vars => ServingInv'
<1>1. ASSUME ServingInv, UNCHANGED vars PROVE ServingInv'
  <2>1. UNCHANGED <<state, pc, hdr, data, selected, ep0, transfer, hostaddr, line, connected, early>>
    BY <1>1, Zenon DEF vars, library, device, bus
  <2>2. (connected' <=> connected) /\ early' = early /\ (Hears' <=> Hears)
    BY <2>1 DEF Hears
  <2>3. Streams' /\ Reachable'
    BY <1>1, <2>1, <2>2 DEF ServingInv, Streams, Reachable
  <2>4. Undisturbed => Undisturbed'
    BY <2>1, <2>2 DEF Undisturbed, Selects, Untouched, Pending, Served, Acknowledging
  <2> QED
    BY <1>1, <2>2, <2>3, <2>4 DEF ServingInv
<1> QED
  BY <1>1, ServingMainLoop, ServingBusEvent, ServingHost DEF Next

(* Wherever resets, suspends and the plug find the main loop, and however  *)
(* long the descriptors: an answer a host takes was made for its request,  *)
(* and only an unknown request is refused, or one that came while a        *)
(* handler was still running; but for what met a diverted report.          *)
THEOREM RequestsAnswered == Spec => []AnswersMatch
<1>1. ServingInv => AnswersMatch
  BY DEF ServingInv, Undisturbed, Served, AnswersMatch, Talks, IsSETUPReceived, IsINReady
<1> QED
  BY <1>1, TypeInit, TypeStep, ConfiguredInit, ConfiguredStep, ServingInit, ServingStep, PTL DEF Spec

(* A report that its host sees acknowledged was read, though the handler   *)
(* acknowledges one that it left early too, for a suspend, the plug or the *)
(* next request; but for what met a diverted report.                       *)
THEOREM ReportsReallyArrive == Spec => []ReportsArrive
<1>1. ServingInv => ReportsArrive
  BY DEF ServingInv, Undisturbed, Served, ReportsArrive, Talks, IsSETUPReceived, IsINReady
<1> QED
  BY <1>1, TypeInit, TypeStep, ConfiguredInit, ConfiguredStep, ServingInit, ServingStep, PTL DEF Spec
-----------------------------------------------------------------------------
(* The steps behind MainLoopReturns.                                       *)

\* How far the main loop is from coming round.
Far(p) ==
    CASE p = "hid"        -> 0
      [] p = "final"      -> 1
      [] p = "others 2"   -> 2
      [] p = "make 2"     -> 3
      [] p = "others 1"   -> 4
      [] p = "make 1"     -> 5
      [] p = "endpoint 1" -> 6
      [] p = "store"      -> 7
      [] p = "wait sent"  -> 8
      [] p \in {"wait out", "wait in", "status"} -> 9
      [] p \in {"write", "read"} -> 10
      [] p = "handle"     -> 11
      [] p = "task"       -> 12
      [] p = "in"         -> 13
      [] p = "out"        -> 14
Distance == Far(pc)

(* Every step of the main loop brings it nearer to HID_Task, or sends one  *)
(* of the packets that a stream has left; no bus event and nothing the     *)
(* host does takes it back.                                                *)
MainLoopComesNearer ==
    [][IF MainLoop
       THEN pc = "hid" \/ Distance' < Distance \/ (Distance' = Distance /\ left' < left)
       ELSE UNCHANGED <<Distance, left>>]_vars

(* A request finds every loop of the main loop open, but for the three     *)
(* that do not look for it.                                                *)
RequestsUnblock == Waiting /\ IsSETUPReceived => Trapped

\* A SETUP packet discards what is in the bank, and a handler that waits for
\* the bank does not fill it again.
BankFree == pc \in {"wait in", "status"} /\ IsSETUPReceived => IsINReady

LEMMA FarIs ==
    /\ Far("hid") = 0 /\ Far("final") = 1 /\ Far("others 2") = 2 /\ Far("make 2") = 3
    /\ Far("others 1") = 4 /\ Far("make 1") = 5 /\ Far("endpoint 1") = 6
    /\ Far("store") = 7 /\ Far("wait sent") = 8
    /\ Far("wait out") = 9 /\ Far("wait in") = 9 /\ Far("status") = 9
    /\ Far("write") = 10 /\ Far("read") = 10 /\ Far("handle") = 11
    /\ Far("task") = 12 /\ Far("in") = 13 /\ Far("out") = 14
BY Zenon DEF Far

\* Where the main loop goes from where.
Onward ==
    \/ pc = "hid" /\ pc' \in {"out", "task"}
    \/ pc = "out" /\ pc' = "in"
    \/ pc = "in" /\ pc' = "task"
    \/ pc = "task" /\ pc' \in {"handle", "hid"}
    \/ pc = "handle" /\ pc' \in {"write", "read", "status", "final"}
    \/ pc = "write" /\ pc' \in {"wait out", "final"}
    \/ pc = "write" /\ pc' = "write" /\ left' = left - 1
    \/ pc = "read" /\ pc' \in {"wait in", "final"}
    \/ pc \in {"wait out", "wait in"} /\ pc' = "final"
    \/ pc = "status" /\ pc' \in {"final", "wait sent", "store"}
    \/ pc = "wait sent" /\ pc' = "store"
    \/ pc = "store" /\ pc' \in {"final", "endpoint 1"}
    \/ pc = "endpoint 1" /\ pc' = "make 1"
    \/ pc = "make 1" /\ pc' = "others 1"
    \/ pc = "others 1" /\ pc' = "make 2"
    \/ pc = "make 2" /\ pc' = "others 2"
    \/ pc = "others 2" /\ pc' = "final"
    \/ pc = "final" /\ pc' = "hid"

LEMMA MainLoopOnward == MainLoop => Onward
<1>1. HID_Task \/ HIDReport \/ HIDAnswer \/ DeviceTask => Onward
  BY DEF HID_Task, HIDReport, HIDAnswer, DeviceTask, Onward
<1>2. GetReport \/ SetReport \/ GetDescriptor \/ GetConfiguration \/ SetAddress \/ SetConfiguration
        \/ Unhandled => Onward
  BY DEF GetReport, SetReport, GetDescriptor, GetConfiguration, SetAddress, SetConfiguration,
    Unhandled, Handles, Onward
<1>3. WriteStream \/ WriteEnd \/ ReadStream \/ ReadEnd => Onward
  BY DEF WriteStream, WriteEnd, ReadStream, ReadEnd, Onward
<1>4. ClearStatusStage => Onward
  <2>1. ClearStatusStage => pc = "status" /\ pc' \in {"final", "wait sent", "store"}
    BY Zenon DEF ClearStatusStage
  <2> QED
    BY <2>1 DEF Onward
<1>5. EnableDeviceAddress \/ StoreState \/ ConfigureEndpoint \/ Final => Onward
  BY DEF EnableDeviceAddress, StoreState, ConfigureEndpoint, Final, Onward
<1> QED
  BY <1>1, <1>2, <1>3, <1>4, <1>5 DEF MainLoop

\* What neither the interrupt nor the host touches.
LEMMA OthersFrame == BusEvent \/ Host => UNCHANGED <<pc, hdr, left>>
<1>1. BusEvent => UNCHANGED <<pc, hdr, left>>
  BY Zenon DEF BusEvent, EndOfReset, Suspend, WakeUp, Connect, Disconnect
<1>2. Host => UNCHANGED <<pc, hdr, left>>
  BY Zenon DEF Host, Settle, Setup, TakeIN, SendOUT, TakeStall, Abort
<1> QED
  BY <1>1, <1>2

(* MainLoopComesNearer: handlers and their loops never go back, so each    *)
(* pass of the main loop takes boundedly many steps of its own, however    *)
(* long the descriptors and whatever the interrupt changes under it.       *)
THEOREM MainLoopNeverTurnsBack == Spec => MainLoopComesNearer
<1>1. TypeOK /\ [Next]_vars =>
        [IF MainLoop
         THEN pc = "hid" \/ Distance' < Distance \/ (Distance' = Distance /\ left' < left)
         ELSE UNCHANGED <<Distance, left>>]_vars
  <2> SUFFICES ASSUME TypeOK, Next
               PROVE  IF MainLoop
                      THEN pc = "hid" \/ Distance' < Distance \/ (Distance' = Distance /\ left' < left)
                      ELSE UNCHANGED <<Distance, left>>
    OBVIOUS
  <2>1. CASE MainLoop
    <3>1. Onward
      BY <2>1, MainLoopOnward
    <3>2. left \in Int
      BY PacketsAssumption, TypeParts DEF LoopType
    <3>3. CASE pc = "write" /\ pc' = "write" /\ left' = left - 1
      BY <2>1, <3>2, <3>3 DEF Distance
    <3>4. CASE pc = "hid"
      BY <2>1, <3>4
    <3>5. CASE ~(pc = "write" /\ pc' = "write" /\ left' = left - 1) /\ pc # "hid"
      <4>1. \/ Far(pc) = 14 /\ Far(pc') = 13
            \/ Far(pc) = 13 /\ Far(pc') = 12
            \/ Far(pc) = 12 /\ Far(pc') \in {11, 0}
            \/ Far(pc) = 11 /\ Far(pc') \in {10, 9, 1}
            \/ Far(pc) = 10 /\ Far(pc') \in {9, 1}
            \/ Far(pc) = 9 /\ Far(pc') \in {8, 7, 1}
            \/ Far(pc) = 8 /\ Far(pc') = 7
            \/ Far(pc) = 7 /\ Far(pc') \in {6, 1}
            \/ Far(pc) = 6 /\ Far(pc') = 5
            \/ Far(pc) = 5 /\ Far(pc') = 4
            \/ Far(pc) = 4 /\ Far(pc') = 3
            \/ Far(pc) = 3 /\ Far(pc') = 2
            \/ Far(pc) = 2 /\ Far(pc') = 1
            \/ Far(pc) = 1 /\ Far(pc') = 0
        BY <3>1, <3>5, FarIs, ZenonT(60) DEF Onward
      <4>2. Far(pc') < Far(pc)
        BY <4>1
      <4> QED
        BY <2>1, <4>2 DEF Distance
    <3> QED
      BY <3>3, <3>4, <3>5
  <2>2. CASE ~MainLoop
    <3>1. UNCHANGED <<pc, left>>
      BY <2>2, OthersFrame DEF Next
    <3> QED
      BY <2>2, <3>1 DEF Distance
  <2> QED
    BY <2>1, <2>2
<1> QED
  BY <1>1, TypeCorrect, PTL DEF Spec, MainLoopComesNearer

LEMMA BankFreeStep == TypeOK /\ BankFree /\ [Next]_vars => BankFree'
<1> SUFFICES ASSUME TypeOK, BankFree, [Next]_vars, pc' \in {"wait in", "status"}, ep0'.setup # None
             PROVE  ep0'.in = None
  BY DEF BankFree, IsSETUPReceived, IsINReady
<1>1. ep0 \in Ep0
  BY TypeParts
<1>2. pc \in {"wait in", "status"} /\ ep0.setup # None => ep0.in = None
  BY DEF BankFree, IsSETUPReceived, IsINReady
<1>3. CASE MainLoop
  <2>1. CASE pc = "handle"
    <3>1. ep0' = ClearSETUP(ep0) \/ ep0' = ClearIN(ClearSETUP(ep0), Packet(hdr, TRUE))
      BY <1>3, <2>1 DEF MainLoop, HID_Task, HIDReport, HIDAnswer, DeviceTask, GetReport, SetReport,
        GetDescriptor, GetConfiguration, SetAddress, SetConfiguration, Unhandled, Handles, WriteStream,
        WriteEnd, ReadStream, ReadEnd, ClearStatusStage, EnableDeviceAddress, StoreState,
        ConfigureEndpoint, Final
    <3>2. ClearSETUP(ep0) \in Ep0
      BY <1>1, EndpointFields
    <3>3. ClearSETUP(ep0).setup = None
      BY <1>1, Fields
    <3>4. ClearIN(ClearSETUP(ep0), Packet(hdr, TRUE)).setup = ClearSETUP(ep0).setup
      BY <3>2, Fields
    <3> QED
      BY <3>1, <3>3, <3>4
  <2>2. CASE pc = "read"
    <3>1. ReadStream
      BY <1>3, <2>2 DEF MainLoop, HID_Task, HIDReport, HIDAnswer, DeviceTask, GetReport, SetReport,
        GetDescriptor, GetConfiguration, SetAddress, SetConfiguration, Unhandled, Handles, WriteStream,
        WriteEnd, ReadEnd, ClearStatusStage, EnableDeviceAddress, StoreState, ConfigureEndpoint, Final
    <3>2. ep0.setup = None /\ ep0' = ClearOUT(ep0)
      BY <3>1 DEF ReadStream, IsSETUPReceived
    <3> QED
      BY <1>1, <3>2, Fields
  <2>3. pc \in {"handle", "read"}
    BY <1>3, MainLoopOnward DEF Onward
  <2> QED
    BY <2>1, <2>2, <2>3
<1>4. CASE BusEvent
  <2>1. ep0' = ep0 \/ ep0' = Empty
    BY <1>4, Zenon DEF BusEvent, EndOfReset, Suspend, WakeUp, Connect, Disconnect, device
  <2>2. pc' = pc
    BY <1>4, OthersFrame
  <2>3. Empty.setup = None
    BY DEF Empty
  <2> QED
    BY <1>2, <2>1, <2>2, <2>3
<1>5. CASE Host
  <2>1. pc' = pc
    BY <1>5, OthersFrame
  <2>2. ASSUME NEW r \in Requests, Setup(r) PROVE ep0'.in = None
    BY <1>1, <2>2 DEF Setup, Ep0
  <2>3. CASE TakeIN
    BY <1>1, <2>3 DEF TakeIN, Ep0
  <2>4. CASE SendOUT
    <3>1. ep0.setup = None /\ ep0' = [ep0 EXCEPT !.out = TRUE]
      BY <2>4 DEF SendOUT, Talks, IsSETUPReceived
    <3> QED
      BY <1>1, <3>1 DEF Ep0
  <2>5. CASE Settle \/ TakeStall \/ Abort
    BY <1>2, <2>1, <2>5 DEF Settle, TakeStall, Abort, device
  <2> QED
    BY <1>5, <2>2, <2>3, <2>4, <2>5 DEF Host
<1>6. CASE UNCHANGED vars
  BY <1>2, <1>6 DEF vars, device
<1> QED
  BY <1>3, <1>4, <1>5, <1>6 DEF Next

(* RequestsUnblock: only the three loops that Trapped names make a host's  *)
(* next request wait for a device that waits for the host.                 *)
THEOREM OnlyThreeLoopsAreDeaf == Spec => []RequestsUnblock
<1>1. Init => BankFree
  BY DEF Init, BankFree
<1>2. BankFree => RequestsUnblock
  BY DEF BankFree, RequestsUnblock, Waiting, Trapped, StatusReady
<1> QED
  BY <1>1, <1>2, TypeCorrect, BankFreeStep, PTL DEF Spec
=============================================================================
