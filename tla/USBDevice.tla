------------------------------ MODULE USBDevice ------------------------------
(***************************************************************************)
(* The device side of LUFA as this firmware is built: the main loop that   *)
(* runs HID_Task and USB_DeviceTask, the handlers of control requests, the *)
(* loops they wait in, and the interrupt that changes USB_DeviceState and  *)
(* the selected endpoint under them; and the host that asks and answers.   *)
(*                                                                         *)
(* A step of the main loop is one turn of a waiting loop, or the code      *)
(* between two of them; resets, suspends, wake-ups and the plug come       *)
(* between any two.  Assumed of the controller: while a SETUP packet is    *)
(* pending it answers nothing else, that packet discards an IN packet that *)
(* was not sent, and a reset frees the report endpoints.  Assumed of the   *)
(* host: it does not send a SETUP packet on top of a pending one, and it   *)
(* keeps the recovery times of USB, 10 ms without a request after a reset  *)
(* or a resume, which last longer than the code between two waits but not  *)
(* as long as a report's stream may wait (Settle).                         *)
(***************************************************************************)
EXTENDS Integers

CONSTANTS
    Packets,    \* bound: the packets of a descriptor
    None

ASSUME PacketsAssumption == Packets \in Nat \ {0}

Requests ==
    {"GetReport", "SetReport", "GetDescriptor", "GetConfiguration", "SetAddress",
     "Configure", "Deconfigure", "Unknown"}
Class    == {"GetReport", "SetReport"}
States   == {"Unattached", "Powered", "Default", "Addressed", "Configured", "Suspended"}

\* No request, no control transfer and no address.
ASSUME NoneAssumption ==
    /\ None \notin Requests /\ None \notin {0, 1}
    /\ None \notin [req : Requests, stage : {"in", "out", "status", "ack"}]

VARIABLES
    state,      \* USB_DeviceState
    config,     \* USB_Device_ConfigurationNumber
    interrupt,  \* which of SUSPI and WAKEUPI is enabled
    pc,         \* where the main loop is
    hdr,        \* USB_ControlRequest
    left,       \* packets that the stream has left to send
    data,       \* the report that the last SetReport read
    uadd,       \* the address in UDADDR
    adden,      \* ADDEN, its enable bit
    selected,   \* UENUM
    endpoints,  \* the report endpoints that are configured
    control,    \* endpoint 0 is configured as a control endpoint
    ep0,        \* what it holds
    transfer,   \* the host's control transfer: its request and stage
    hostaddr,   \* the address the host has for the device
    asked,      \* the host sent a SetConfiguration since the last reset
    connected,  \* there is VBUS
    line,       \* the bus is active, suspended, or recovers from a reset or resume
    early       \* what ran when the last SETUP packet came: no code that it had
                \* to wait for, a handler, or the stream of a report (history)

library == <<state, config, interrupt>>
device  == <<uadd, adden, selected, endpoints, control, ep0>>
bus     == <<hostaddr, asked, connected, line>>
vars    == <<library, pc, hdr, left, data, device, transfer, bus, early>>

Packet(r, last) == [from |-> r, last |-> last]
Empty == [setup |-> None, out |-> FALSE, in |-> None, stalled |-> FALSE]

Init ==
    /\ state = "Unattached" /\ config = 0 /\ interrupt = "suspend"
    /\ pc = "hid" /\ hdr = "Unknown" /\ left = 0 /\ data = "none"
    /\ uadd = 0 /\ adden = FALSE /\ selected = 0 /\ endpoints = {}
    /\ control = TRUE /\ ep0 = Empty
    /\ transfer = None /\ hostaddr = None /\ asked = FALSE
    /\ connected = FALSE /\ line = "active" /\ early = "no"
-----------------------------------------------------------------------------
(* The control endpoint *)

ClearSETUP(e) == [e EXCEPT !.setup = None]
ClearOUT(e)   == [e EXCEPT !.out = FALSE]
\* The bank is sent, if it is not being sent already.
ClearIN(e, p) == [e EXCEPT !.in = IF @ = None THEN p ELSE @]

IsSETUPReceived == ep0.setup # None
IsOUTReceived   == ep0.out
IsINReady       == ep0.in = None

\* What the loops of the streams test besides.
Gone == state \in {"Unattached", "Suspended"}
-----------------------------------------------------------------------------
(* The main loop *)

HID_Task ==
    /\ pc = "hid"
    /\ IF state = "Configured" THEN pc' = "out" /\ selected' = 2
                               ELSE pc' = "task" /\ UNCHANGED selected
    /\ UNCHANGED <<library, hdr, left, data, uadd, adden, endpoints, control, ep0, transfer, bus, early>>

\* A report from the host, if there is one: Panel and AssertTimers have it.
\* An interrupt may have selected the control endpoint meanwhile.
HIDReport ==
    /\ pc = "out"
    /\ pc' = "in"
    /\ ep0' = IF selected = 0 THEN ClearOUT(ep0) ELSE ep0
    /\ selected' = 1
    /\ UNCHANGED <<library, hdr, left, data, uadd, adden, endpoints, control, transfer, bus, early>>

\* A report to the host, likewise: its stream then waits for the control endpoint
\* in vain, until its time is over.
HIDAnswer ==
    /\ pc = "in"
    /\ pc' = "task"
    /\ ep0' = IF selected = 0 THEN ClearIN(ep0, Packet("HID", TRUE)) ELSE ep0
    /\ UNCHANGED <<library, hdr, left, data, uadd, adden, selected, endpoints, control, transfer, bus, early>>

\* USB_DeviceTask, and the header that USB_Device_ProcessControlRequest reads.
\* The endpoint selected before is selected again at the end, which matters to
\* nobody: HID_Task and this task both select their own.
DeviceTask ==
    /\ pc = "task"
    /\ selected' = IF state = "Unattached" THEN selected ELSE 0
    /\ IF state # "Unattached" /\ IsSETUPReceived
       THEN pc' = "handle" /\ hdr' = ep0.setup
       ELSE pc' = "hid" /\ UNCHANGED hdr
    /\ UNCHANGED <<library, left, data, uadd, adden, endpoints, control, ep0, transfer, bus, early>>

\* A request of the class is handled whatever became of its SETUP packet,
\* a standard one only while it is pending.
Handles(r) == pc = "handle" /\ hdr = r /\ (r \in Class \/ IsSETUPReceived)

GetReport ==
    /\ Handles("GetReport")
    /\ ep0' = ClearSETUP(ep0) /\ left' = 1 /\ pc' = "write"
    /\ UNCHANGED <<library, hdr, data, uadd, adden, selected, endpoints, control, transfer, bus, early>>

SetReport ==
    /\ Handles("SetReport")
    /\ ep0' = ClearSETUP(ep0) /\ data' = "none" /\ pc' = "read"
    /\ UNCHANGED <<library, hdr, left, uadd, adden, selected, endpoints, control, transfer, bus, early>>

GetDescriptor ==
    /\ Handles("GetDescriptor")
    /\ ep0' = ClearSETUP(ep0) /\ left' \in 1 .. Packets /\ pc' = "write"
    /\ UNCHANGED <<library, hdr, data, uadd, adden, selected, endpoints, control, transfer, bus, early>>

GetConfiguration ==
    /\ Handles("GetConfiguration")
    /\ ep0' = ClearIN(ClearSETUP(ep0), Packet(hdr, TRUE)) /\ pc' = "status"
    /\ UNCHANGED <<library, hdr, left, data, uadd, adden, selected, endpoints, control, transfer, bus, early>>

SetAddress ==
    /\ Handles("SetAddress")
    /\ uadd' = 1 /\ ep0' = ClearSETUP(ep0) /\ pc' = "status"
    /\ UNCHANGED <<library, hdr, left, data, adden, selected, endpoints, control, transfer, bus, early>>

SetConfiguration ==
    /\ \/ Handles("Configure") /\ config' = 1
       \/ Handles("Deconfigure") /\ config' = 0
    /\ ep0' = ClearSETUP(ep0) /\ pc' = "status"
    /\ UNCHANGED <<state, interrupt, hdr, left, data, uadd, adden, selected, endpoints, control, transfer, bus, early>>

Unhandled ==
    /\ pc = "handle"
    /\ hdr = "Unknown" \/ ~Handles(hdr)
    /\ pc' = "final"
    /\ UNCHANGED <<library, hdr, left, data, device, transfer, bus, early>>
-----------------------------------------------------------------------------
(* The loops of the handlers *)

\* Fault: the loop goes on after the last packet.
WriteStreamOn ==
    /\ pc = "write"
    /\ \/ /\ Gone \/ IsSETUPReceived \/ IsOUTReceived
          /\ ep0' = ClearOUT(ep0) /\ pc' = "final"
          /\ UNCHANGED left
       \/ /\ ~Gone /\ ~IsSETUPReceived /\ ~IsOUTReceived /\ IsINReady
          /\ ep0' = ClearIN(ep0, Packet(hdr, left = 1)) /\ left' = left - 1
          /\ pc' = "write"
    /\ UNCHANGED <<library, hdr, data, uadd, adden, selected, endpoints, control, transfer, bus, early>>

\* Endpoint_Write_Control_Stream: it queues packets until the host has all of
\* them or wants no more; ClearOUT ends the transfer.
WriteStream ==
    /\ pc = "write"
    /\ \/ /\ Gone \/ IsSETUPReceived
          /\ ep0' = ClearOUT(ep0) /\ pc' = "final"
          /\ UNCHANGED left
       \/ /\ ~Gone /\ ~IsSETUPReceived /\ IsOUTReceived
          /\ pc' = "wait out"
          /\ UNCHANGED <<ep0, left>>
       \/ /\ ~Gone /\ ~IsSETUPReceived /\ ~IsOUTReceived /\ IsINReady
          /\ ep0' = ClearIN(ep0, Packet(hdr, left = 1)) /\ left' = left - 1
          /\ pc' = IF left = 1 THEN "wait out" ELSE "write"
    /\ UNCHANGED <<library, hdr, data, uadd, adden, selected, endpoints, control, transfer, bus, early>>

WriteEnd ==
    /\ pc = "wait out"
    /\ Gone \/ IsOUTReceived
    /\ ep0' = ClearOUT(ep0) /\ pc' = "final"
    /\ UNCHANGED <<library, hdr, left, data, uadd, adden, selected, endpoints, control, transfer, bus, early>>

\* Fault: the loop does not look for a SETUP packet.
ReadStreamDeaf ==
    /\ pc = "read"
    /\ \/ /\ Gone
          /\ data' = "garbage"
          /\ ep0' = ClearIN(ep0, Packet(hdr, TRUE)) /\ pc' = "final"
       \/ /\ ~Gone /\ IsOUTReceived
          /\ data' = "host"
          /\ ep0' = ClearOUT(ep0) /\ pc' = "wait in"
    /\ UNCHANGED <<library, hdr, left, uadd, adden, selected, endpoints, control, transfer, bus, early>>

\* Endpoint_Read_Control_Stream: the report is one packet.  Left early, the
\* handler goes on all the same, with what LightsData happens to hold.
ReadStream ==
    /\ pc = "read"
    /\ \/ /\ Gone \/ IsSETUPReceived
          /\ data' = "garbage"
          /\ ep0' = ClearIN(ep0, Packet(hdr, TRUE)) /\ pc' = "final"
       \/ /\ ~Gone /\ ~IsSETUPReceived /\ IsOUTReceived
          /\ data' = "host"
          /\ ep0' = ClearOUT(ep0) /\ pc' = "wait in"
    /\ UNCHANGED <<library, hdr, left, uadd, adden, selected, endpoints, control, transfer, bus, early>>

ReadEnd ==
    /\ pc = "wait in"
    /\ Gone \/ IsINReady
    /\ ep0' = ClearIN(ep0, Packet(hdr, TRUE)) /\ pc' = "final"
    /\ UNCHANGED <<library, hdr, left, data, uadd, adden, selected, endpoints, control, transfer, bus, early>>

StatusReady == IF hdr = "GetConfiguration" THEN IsOUTReceived ELSE IsINReady

\* Endpoint_ClearStatusStage, of the requests that end with it.
ClearStatusStage ==
    /\ pc = "status"
    /\ StatusReady \/ state = "Unattached"
    /\ ep0' = IF ~StatusReady THEN ep0
              ELSE IF hdr = "GetConfiguration" THEN ClearOUT(ep0)
              ELSE ClearIN(ep0, Packet(hdr, TRUE))
    /\ pc' = CASE hdr = "GetConfiguration" -> "final"
               [] hdr = "SetAddress"       -> "wait sent"
               [] OTHER                    -> "store"
    /\ UNCHANGED <<library, hdr, left, data, uadd, adden, selected, endpoints, control, transfer, bus, early>>

EnableDeviceAddress ==
    /\ pc = "wait sent"
    /\ IsINReady
    /\ adden' = TRUE /\ pc' = "store"
    /\ UNCHANGED <<library, hdr, left, data, uadd, selected, endpoints, control, ep0, transfer, bus, early>>

\* The last lines of SetAddress and of SetConfiguration.
StoreState ==
    /\ pc = "store"
    /\ \/ /\ hdr = "SetAddress"
          /\ state' = "Addressed" /\ pc' = "final"
       \/ /\ hdr # "SetAddress"
          /\ state' = IF config # 0 \/ adden THEN "Configured" ELSE "Powered"
          /\ pc' = "endpoint 1"
    /\ UNCHANGED <<config, interrupt, hdr, left, data, device, transfer, bus, early>>

\* The registers of the selected endpoint are written, to make those of S.  A
\* reset may have selected the control endpoint meanwhile: it is configured
\* instead, as another kind of endpoint or again as it was, or no write was left.
Configure(S) ==
    IF selected = 0
    THEN control' \in BOOLEAN /\ ep0' \in {ep0, Empty} /\ UNCHANGED endpoints
    ELSE endpoints' = endpoints \cup S /\ UNCHANGED <<control, ep0>>

\* EVENT_USB_Device_ConfigurationChanged, an endpoint after the other: each is
\* selected and then written to, and so are those after it, to be made again if
\* they were in use.  One of these stands for them all.
ConfigureEndpoint ==
    /\ \/ pc = "endpoint 1" /\ selected' = 1 /\ pc' = "make 1"
          /\ UNCHANGED <<endpoints, control, ep0>>
       \/ pc = "make 1" /\ Configure({1}) /\ selected' = 2 /\ pc' = "others 1"
       \/ pc = "others 1" /\ Configure({}) /\ selected' = 2 /\ pc' = "make 2"
       \/ pc = "make 2" /\ Configure({2}) /\ selected' = 3 /\ pc' = "others 2"
       \/ pc = "others 2" /\ Configure({}) /\ selected' = 2 /\ pc' = "final"
    /\ UNCHANGED <<library, hdr, left, data, uadd, adden, transfer, bus, early>>

\* Fault: what is left is cleared and not refused.
FinalKind ==
    /\ pc = "final"
    /\ pc' = "hid"
    /\ ep0' = IF selected = 0 THEN ClearSETUP(ep0) ELSE ep0
    /\ UNCHANGED <<library, hdr, left, data, uadd, adden, selected, endpoints, control, transfer, bus, early>>

\* A SETUP packet that is still there, or there already, is refused.
Final ==
    /\ pc = "final"
    /\ pc' = "hid"
    /\ ep0' = IF selected = 0 /\ IsSETUPReceived
              THEN [ClearSETUP(ep0) EXCEPT !.stalled = TRUE] ELSE ep0
    /\ UNCHANGED <<library, hdr, left, data, uadd, adden, selected, endpoints, control, transfer, bus, early>>

MainLoop ==
    \/ HID_Task
    \/ HIDReport
    \/ HIDAnswer
    \/ DeviceTask
    \/ GetReport
    \/ SetReport
    \/ GetDescriptor
    \/ GetConfiguration
    \/ SetAddress
    \/ SetConfiguration
    \/ Unhandled
    \/ WriteStream
    \/ WriteEnd
    \/ ReadStream
    \/ ReadEnd
    \/ ClearStatusStage
    \/ EnableDeviceAddress
    \/ StoreState
    \/ ConfigureEndpoint
    \/ Final
-----------------------------------------------------------------------------
(* The interrupt *)

\* The main loop cannot go on, or has nothing to do.
Waiting ==
    \/ pc \in {"hid", "task"} /\ ~IsSETUPReceived
    \/ pc = "write" /\ ~Gone /\ ~IsSETUPReceived /\ ~IsOUTReceived /\ ~IsINReady
    \/ pc = "read" /\ ~Gone /\ ~IsSETUPReceived /\ ~IsOUTReceived
    \/ pc = "wait out" /\ ~Gone /\ ~IsOUTReceived
    \/ pc = "wait in" /\ ~Gone /\ ~IsINReady
    \/ pc = "wait sent" /\ ~IsINReady
    \/ pc = "status" /\ state # "Unattached" /\ ~StatusReady

Handling == pc \notin {"hid", "out", "in", "task"}

\* A report for the host is on its way to the control endpoint.
Diverted == pc = "in" /\ selected = 0

\* What a SETUP packet that comes now has to wait for: a handler, or the stream of
\* a diverted report, and whatever waits for what that one spoils.
Interrupted ==
    IF Diverted \/ (Handling /\ early = "report") THEN "report"
    ELSE IF Handling THEN "handler" ELSE "no"

\* Fault: the configuration outlives the reset.
EndOfResetKeepsConfig ==
    /\ connected
    /\ state' = "Default" /\ interrupt' = "wake"
    /\ uadd' = 0 /\ adden' = FALSE
    /\ selected' = 0 /\ endpoints' = {} /\ control' = TRUE /\ ep0' = Empty
    /\ transfer' = None /\ hostaddr' = 0 /\ asked' = FALSE /\ line' = "settling"
    /\ early' = "no"
    /\ UNCHANGED <<config, pc, hdr, left, data, connected>>

\* The control endpoint is configured again, which selects it.
EndOfReset ==
    /\ connected
    /\ state' = "Default" /\ config' = 0 /\ interrupt' = "wake"
    /\ uadd' = 0 /\ adden' = FALSE
    /\ selected' = 0 /\ endpoints' = {} /\ control' = TRUE /\ ep0' = Empty
    /\ transfer' = None /\ hostaddr' = 0 /\ asked' = FALSE /\ line' = "settling"
    /\ early' = "no"
    /\ UNCHANGED <<pc, hdr, left, data, connected>>

Suspend ==
    /\ connected /\ line # "suspended" /\ interrupt = "suspend"
    /\ state' = "Suspended" /\ interrupt' = "wake"
    /\ transfer' = None /\ line' = "suspended"
    /\ UNCHANGED <<config, pc, hdr, left, data, device, hostaddr, asked, connected, early>>

\* Enabled by a reset too: the first activity after it is a wake-up.
WakeUp ==
    /\ connected /\ interrupt = "wake"
    /\ state' = IF config # 0 THEN "Configured" ELSE IF adden THEN "Addressed" ELSE "Powered"
    /\ interrupt' = "suspend"
    /\ line' = IF line = "suspended" THEN "settling" ELSE line
    /\ UNCHANGED <<config, pc, hdr, left, data, device, transfer, hostaddr, asked, connected, early>>

\* VBUS comes and goes; the board may be powered by the console.
Connect ==
    /\ ~connected
    /\ connected' = TRUE /\ state' = "Powered"
    /\ UNCHANGED <<config, interrupt, pc, hdr, left, data, device, transfer, hostaddr, asked, line, early>>

Disconnect ==
    /\ connected
    /\ connected' = FALSE /\ line' = "active" /\ state' = "Unattached"
    /\ transfer' = None /\ hostaddr' = None
    /\ UNCHANGED <<config, interrupt, pc, hdr, left, data, device, asked, early>>

BusEvent == EndOfReset \/ Suspend \/ WakeUp \/ Connect \/ Disconnect
-----------------------------------------------------------------------------
(* The host *)

Heard == connected /\ line = "active" /\ control /\ hostaddr = IF adden THEN uadd ELSE 0

FirstStage(r) ==
    CASE r = "SetReport" -> "out"
      [] r \in {"SetAddress", "Configure", "Deconfigure"} -> "status"
      [] OTHER -> "in"

\* The recovery is over: the code that ran has come to a wait, if only that of a
\* report's stream, or a report it had to process held the interrupt of the reset
\* off while the EEPROM was written.
Settle ==
    /\ line = "settling"
    /\ \/ Waiting
       \/ ~IsSETUPReceived /\ (pc = "out" \/ Diverted \/ (pc = "final" /\ hdr = "SetReport"))
    /\ line' = "active"
    /\ UNCHANGED <<library, pc, hdr, left, data, device, transfer, hostaddr, asked, connected, early>>

\* A device without an address is asked for its descriptor and given one.
Setup(r) ==
    /\ Heard /\ transfer = None /\ ~IsSETUPReceived
    /\ r = "GetDescriptor" \/ (r = "SetAddress" <=> hostaddr = 0)
    /\ transfer' = [req |-> r, stage |-> FirstStage(r)]
    /\ ep0' = [ep0 EXCEPT !.setup = r, !.in = None, !.stalled = FALSE]
    /\ asked' = (asked \/ r \in {"Configure", "Deconfigure"})
    /\ early' = Interrupted
    /\ UNCHANGED <<library, pc, hdr, left, data, uadd, adden, selected, endpoints, control, hostaddr, connected, line>>

\* The host can exchange packets of its transfer.
Talks == Heard /\ transfer # None /\ ~IsSETUPReceived

TakeIN ==
    /\ Talks /\ ~ep0.stalled /\ ~IsINReady
    /\ transfer.stage \in {"in", "status"}
    /\ ep0' = [ep0 EXCEPT !.in = None]
    /\ transfer' = IF transfer.stage = "status" THEN None
                   ELSE [transfer EXCEPT !.stage = IF ep0.in.last THEN "ack" ELSE "in"]
    /\ hostaddr' = IF transfer.req = "SetAddress" THEN 1 ELSE hostaddr
    /\ UNCHANGED <<library, pc, hdr, left, data, uadd, adden, selected, endpoints, control, asked, connected, line, early>>

\* The report, or the packet that ends a transfer: of a descriptor the host
\* may want only a part.
SendOUT ==
    /\ Talks /\ ~ep0.stalled /\ ~IsOUTReceived
    /\ \/ transfer.stage = "out" /\ transfer' = [transfer EXCEPT !.stage = "status"]
       \/ transfer.stage = "ack" /\ transfer' = None
       \/ transfer.stage = "in" /\ transfer.req = "GetDescriptor" /\ IsINReady /\ transfer' = None
    /\ ep0' = [ep0 EXCEPT !.out = TRUE]
    /\ UNCHANGED <<library, pc, hdr, left, data, uadd, adden, selected, endpoints, control, bus, early>>

TakeStall ==
    /\ Talks /\ ep0.stalled
    /\ transfer' = None
    /\ UNCHANGED <<library, pc, hdr, left, data, device, bus, early>>

\* The host gives up: its patience is longer than the code between two waits.
Abort ==
    /\ transfer # None /\ Waiting
    /\ transfer' = None
    /\ UNCHANGED <<library, pc, hdr, left, data, device, bus, early>>

Host ==
    \/ Settle
    \/ \E r \in Requests : Setup(r)
    \/ TakeIN
    \/ SendOUT
    \/ TakeStall
    \/ Abort

Next == MainLoop \/ BusEvent \/ Host

\* The main loop runs: what it waits for lasts longer than a turn of a loop,
\* even where a reset then takes it away.  The host goes on with a transfer or
\* gives it up.
Fairness == SF_vars(MainLoop) /\ WF_vars(TakeIN \/ SendOUT \/ TakeStall) /\ WF_vars(Abort)

Spec == Init /\ [][Next]_vars /\ Fairness
-----------------------------------------------------------------------------
(* Properties *)

(* The variables have their types; a stream that sends has packets left.   *)
TypeOK ==
    /\ state \in States /\ config \in 0 .. 1 /\ interrupt \in {"suspend", "wake"}
    /\ pc \in {"hid", "out", "in", "task", "handle", "write", "wait out", "read", "wait in",
              "status", "wait sent", "store", "endpoint 1", "make 1", "others 1", "make 2", "others 2", "final"}
    /\ hdr \in Requests /\ left \in 0 .. Packets
    /\ pc = "write" => left > 0
    /\ data \in {"none", "host", "garbage"}
    /\ uadd \in 0 .. 1 /\ adden \in BOOLEAN /\ selected \in 0 .. 3 /\ endpoints \subseteq 1 .. 2
    /\ control \in BOOLEAN
    /\ ep0 \in [setup : Requests \cup {None}, out : BOOLEAN, stalled : BOOLEAN,
               in : {None} \cup [from : Requests \cup {"HID"}, last : BOOLEAN]]
    /\ transfer \in {None} \cup [req : Requests, stage : {"in", "out", "status", "ack"}]
    /\ hostaddr \in {None, 0, 1}
    /\ asked \in BOOLEAN /\ connected \in BOOLEAN /\ early \in {"no", "handler", "report"}
    /\ line \in {"active", "suspended", "settling"}

(* What the host takes for the answer to its request was made for it,      *)
(* wherever resets, suspends and the plug found the main loop before; and  *)
(* only an unknown request is refused, "unknown requests are automatically *)
(* STALLed" (Events.h:238), or one that came while a handler was still     *)
(* running, which refuses it when it ends.  The one exception: a request   *)
(* that came while a report was still being written that a reset had       *)
(* diverted to the control endpoint is answered with that, and may take    *)
(* with it those that come before its handler ends.                        *)
AnswersMatch ==
    Talks =>
        IF ep0.stalled THEN transfer.req = "Unknown" \/ early # "no"
        ELSE ~IsINReady /\ transfer.stage \in {"in", "status"} =>
                ep0.in.from = transfer.req \/ early = "report"

(* A host whose SetReport succeeds has had its report read, unless its     *)
(* request met a diverted report: what the handler acknowledges that was   *)
(* left early, by a suspend, the plug or the next request, is never taken  *)
(* for success.                                                            *)
ReportsArrive ==
    Talks /\ transfer.req = "SetReport" /\ transfer.stage = "status"
            /\ ~ep0.stalled /\ ~IsINReady
        => data = "host" \/ early = "report"

(* Whenever HID_Task finds the device configured its endpoints are, though *)
(* the state is stored before they are made and the interrupt changes it   *)
(* at any time; and the host has asked for it since the last reset,        *)
(* wherever that reset found the handler that stores the state.            *)
StateFollowsHost ==
    pc = "hid" /\ state = "Configured" => endpoints = {1, 2} /\ asked

\* Loops without an exit for a SETUP packet, and a host that asks nothing.
Trapped ==
    IsSETUPReceived /\ (pc \in {"wait out", "wait sent"} \/ (pc = "status" /\ hdr = "GetConfiguration"))
Silent  == transfer = None /\ ~IsSETUPReceived

(* The main loop comes round again, and with it HID_Task, unless the host  *)
(* says nothing more or its next request finds the main loop in one of the *)
(* three loops that do not look for it.                                    *)
MainLoopReturns == []<>(pc = "hid") \/ <>[](Silent \/ Trapped)
=============================================================================
