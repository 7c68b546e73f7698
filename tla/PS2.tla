-------------------------------- MODULE PS2 --------------------------------
(***************************************************************************)
(* The PlayStation 2 side of the controller (PS2.c): the SPI interrupt     *)
(* that answers the console a byte at a time, and PS2_LoadData, which the  *)
(* main loop calls to refresh the two bytes of buttons it answers with.    *)
(*                                                                         *)
(* The console is the environment.  It polls the pad with 01 42 00 00 00,  *)
(* sending each byte only when the one before was acknowledged; it may     *)
(* send a command the pad does not know; it talks to the memory card in    *)
(* the same port, whose frames the pad sees too and whose bytes the card   *)
(* acknowledges; and it may end a frame at any byte.  The interrupt may be *)
(* late (interrupts are off while the EEPROM is written): the shift        *)
(* register then still holds the byte just received, and a further byte    *)
(* takes the place of one not yet served.                                  *)
(*                                                                         *)
(* What a scan of the buttons finds is left out: a scan is its number.     *)
(***************************************************************************)
EXTENDS Integers, Sequences

CONSTANTS
    StateSize,  \* the number of values of PS2_State (256)
    CardBytes,  \* what the console may send a memory card after 81
    MaxCard,    \* bound: the bytes of a memory card frame
    MaxSince,   \* bound: bytes served without a 01 among them
    MaxScans    \* bound: scans of the buttons

Bytes == {"00", "01", "42", "43", "81"}

ASSUME StateSizeAssumption == StateSize \in Nat /\ StateSize >= 6
ASSUME CardBytesAssumption == CardBytes \subseteq Bytes
ASSUME BoundsAssumption == MaxCard \in Nat /\ MaxSince \in Nat /\ MaxScans \in Nat

VARIABLES
    frame,      \* whom the console is talking to
    sent,       \* how many bytes of the frame it has sent
    heard,      \* the replies it heard with the bytes of a poll
    rx,         \* the byte received last
    tx,         \* SPDR, the reply that goes out with the next byte
    spif,       \* the interrupt flag: a received byte waits to be served
    acked,      \* the byte received last was acknowledged
    PS2_State,  \* the place in the frame, as the interrupt counts it
    PS2_Data,   \* the two bytes of buttons, by the scan they come from
    PS2Assert,  \* whether Settings.Device.PS2Assert is not zero
    scan,       \* the number of the last scan of the buttons
    unstored,   \* the bytes of that scan not yet stored to PS2_Data
    since       \* bytes served since the last 01 (history), -1 before any

console == <<frame, sent, heard>>
spi     == <<rx, tx, spif, acked>>
load    == <<PS2_Data, scan, unstored>>
vars    == <<frame, sent, heard, rx, tx, spif, acked, PS2_State, PS2_Data,
             PS2Assert, scan, unstored, since>>
-----------------------------------------------------------------------------
\* A reply: one of the fixed bytes, a byte echoed by the shift register, or
\* the low or high byte of the buttons found by a scan.
Kinds       == {"00", "41", "5A", "FF", "lo", "hi", "echo"}
Reply       == [kind : Kinds, scan : Nat]
Fixed(kind) == [kind |-> kind, scan |-> 0]
Data(half)  == [kind |-> half, scan |-> PS2_Data[half]]

\* The values the variables of PS2.c start with: no button is pressed.
Initialized == PS2_State = 0 /\ PS2_Data = [half \in {"lo", "hi"} |-> 0]

\* PS2_Init sets SPCR, when the board starts or is first told to use the port,
\* and nothing clears it again.  The console may be in the middle of a frame,
\* whose other bytes then arrive out of step, like bytes for the card.
Init ==
    /\ frame \in {"none", "card"} /\ sent = 0 /\ heard = <<>>
    /\ rx = "00" /\ tx = Fixed("00") /\ spif = FALSE /\ acked = FALSE
    /\ Initialized
    /\ PS2Assert = FALSE
    /\ scan = 0
    /\ unstored = {}
    /\ since = -1

(* The console *)

\* A byte is exchanged: the console hears tx, the pad receives b.
Exchange(b) ==
    /\ rx' = b
    /\ tx' = Fixed("echo")
    /\ spif' = TRUE
    /\ acked' = FALSE
    /\ UNCHANGED <<PS2_State, PS2Assert, since, load>>

StartPoll ==
    /\ frame = "none"
    /\ Exchange("01")
    /\ frame' = "poll" /\ sent' = 1 /\ heard' = <<tx>>

ContinuePoll ==
    /\ frame = "poll" /\ sent < 5 /\ acked
    /\ \E b \in IF sent = 1 THEN {"42", "43"} ELSE {"00"} : Exchange(b)
    /\ sent' = sent + 1
    /\ heard' = Append(heard, tx)
    /\ UNCHANGED frame

StartCard ==
    /\ frame = "none"
    /\ Exchange("81")
    /\ frame' = "card" /\ sent' = 1
    /\ UNCHANGED heard

ContinueCard ==
    /\ frame = "card" /\ sent < MaxCard
    /\ \E b \in CardBytes : Exchange(b)
    /\ sent' = sent + 1
    /\ UNCHANGED <<frame, heard>>

EndFrame ==
    /\ frame # "none"
    /\ frame' = "none" /\ sent' = 0 /\ heard' = <<>>
    /\ UNCHANGED <<spi, PS2_State, PS2Assert, since, load>>

(* The interrupt *)

\* Fault: 01 starts a frame only when the last one was over.
StateForLate(b) == IF b = "01" /\ PS2_State >= 5 THEN 0 ELSE PS2_State

\* The state a received byte is answered in: 01 starts a frame anew.
StateFor(b) == IF b = "01" THEN 0 ELSE PS2_State

\* What is left in SPDR, and whether the byte is acknowledged.
Answer(s, b) ==
    CASE s = 0 -> Fixed("41")
      [] s = 1 -> IF b = "42" THEN Fixed("5A") ELSE Fixed("00")
      [] s = 2 -> Data("lo")
      [] s = 3 -> Data("hi")
      [] OTHER -> Fixed("FF")

\* Fault: the default case acknowledges too.
AcknowledgesAll(s, b) == s # 1 \/ b = "42"

Acknowledges(s, b) == s \in {0, 2, 3, 4} \/ (s = 1 /\ b = "42")

\* Fault: PS2_State is wider than a byte.
NextWideState(s) == s + 1

NextPS2State(s) == (s + 1) % StateSize

SPI_ISR ==
    /\ spif
    /\ rx = "01" \/ since < MaxSince
    /\ spif' = FALSE
    /\ PS2Assert' = TRUE
    /\ tx' = Answer(StateFor(rx), rx)
    /\ acked' = Acknowledges(StateFor(rx), rx)
    /\ PS2_State' = NextPS2State(StateFor(rx))
    /\ since' = IF rx = "01" THEN 0 ELSE since + 1
    /\ UNCHANGED <<console, rx, load>>

(* The main loop *)

\* PS2_LoadData computes w_temp from a fresh scan...
LoadScan ==
    /\ unstored = {}
    /\ PS2Assert
    /\ scan < MaxScans
    /\ scan' = scan + 1
    /\ unstored' = {"lo", "hi"}
    /\ UNCHANGED <<console, spi, PS2_State, PS2Assert, since, PS2_Data>>

\* Fault: the high byte keeps what it held.
LoadStoreLow ==
    \E half \in unstored :
        /\ PS2_Data' = [PS2_Data EXCEPT !["lo"] = scan]
        /\ unstored' = unstored \ {half}
        /\ UNCHANGED <<console, spi, PS2_State, PS2Assert, since, scan>>

\* ...and stores it to PS2_Data, in two byte stores, in either order.
LoadStore ==
    \E half \in unstored :
        /\ PS2_Data' = [PS2_Data EXCEPT ![half] = scan]
        /\ unstored' = unstored \ {half}
        /\ UNCHANGED <<console, spi, PS2_State, PS2Assert, since, scan>>

\* The reports to the host have counted PS2Assert down to zero.
Drained ==
    /\ PS2Assert
    /\ PS2Assert' = FALSE
    /\ UNCHANGED <<console, spi, PS2_State, since, load>>

Next ==
    \/ StartPoll
    \/ ContinuePoll
    \/ StartCard
    \/ ContinueCard
    \/ EndFrame
    \/ SPI_ISR
    \/ LoadScan
    \/ LoadStore
    \/ Drained

Spec == Init /\ [][Next]_vars
-----------------------------------------------------------------------------
(* Properties *)

(* Every variable keeps its range, PS2_State its byte.                      *)
TypeOK ==
    /\ frame \in {"none", "poll", "card"}
    /\ sent \in Nat
    /\ heard \in Seq(Reply)
    /\ rx \in Bytes
    /\ tx \in Reply
    /\ spif \in BOOLEAN
    /\ acked \in BOOLEAN
    /\ PS2_State \in 0 .. StateSize - 1
    /\ PS2_Data \in [{"lo", "hi"} -> Nat]
    /\ PS2Assert \in BOOLEAN
    /\ scan \in Nat
    /\ unstored \in SUBSET {"lo", "hi"}
    /\ since \in Int /\ since >= -1

\* The reply a console expects with each byte of a poll after the first.
Expected == [i \in 2..5 |-> CASE i = 2 -> "41" [] i = 3 -> "5A" [] i = 4 -> "lo" [] i = 5 -> "hi"]

(* A poll is answered the same whatever the bus carried before it: aborted *)
(* polls, memory card frames, or bytes the interrupt was too late for.     *)
(* The console hears 41 5A lo hi in its places, and every byte served is   *)
(* acknowledged unless it is an unknown command (PS2.c:233-271).           *)
PollAnswered ==
    frame = "poll" =>
        /\ \A i \in 2..5 : i <= sent => heard[i].kind = Expected[i]
        /\ ~spif => (acked <=> rx # "43")

(* Once a frame is over the pad stays off the acknowledge line, which the  *)
(* memory card shares, for as long as PS2_State can count                  *)
(* (PS2.c:265-268).                                                        *)
SilentAfterFrame ==
    [][SPI_ISR /\ since' \in 5 .. StateSize - 1 => ~acked']_vars

(* The two bytes of a reply may come from different scans (PS2.c:253,258,  *)
(* 333), but the second is never from one that is more than a scan older   *)
(* than the first.                                                         *)
HighNotOlder ==
    frame = "poll" /\ sent = 5 => heard[5].scan >= heard[4].scan - 1
=============================================================================
