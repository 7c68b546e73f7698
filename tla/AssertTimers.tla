---------------------------- MODULE AssertTimers ----------------------------
(***************************************************************************)
(* Who drives the lights: the two countdowns of USBemani.c and PS2.c.      *)
(*                                                                         *)
(* PS2Assert says how many more reports the PS2 counts as active, and      *)
(* LightsAssert how many more the host's lights stay up.  The SPI          *)
(* interrupt, on every byte from the console, sets the one to Reload       *)
(* (1000) and the other to zero.  The main loop tests them, counts them    *)
(* down in CreateGenericHIDReport and sets LightsAssert to Reload in       *)
(* ProcessGenericHIDReport.                                                *)
(*                                                                         *)
(* Both are volatile 16-bit words on an 8-bit processor: the main loop     *)
(* reads and writes them a byte at a time, through a pair of registers,    *)
(* and the interrupt may come between any two accesses.  The order in      *)
(* which the two bytes are accessed is left open.                          *)
(***************************************************************************)
EXTENDS Integers

CONSTANTS
    ByteSize,   \* the number of values of a byte (256)
    Reload      \* what a countdown starts from (1000)

Halves   == {"lo", "hi"}
WordSize == ByteSize * ByteSize

\* A word in memory or in a pair of registers, and the number it is.
Word     == [Halves -> 0 .. ByteSize - 1]
Num(w)   == w["hi"] * ByteSize + w["lo"]
ToWord(n) == [h \in Halves |-> IF h = "lo" THEN n % ByteSize ELSE n \div ByteSize]

ASSUME ByteSizeAssumption == ByteSize \in Nat /\ ByteSize >= 2
\* 1000 is 0x03E8: neither of its bytes is zero.
ASSUME ReloadAssumption ==
    /\ Reload \in 1 .. WordSize - 1
    /\ Reload % ByteSize # 0
    /\ Reload \div ByteSize \in 1 .. ByteSize - 1

VARIABLES
    PS2Assert,      \* Settings.Device.PS2Assert
    LightsAssert,   \* Settings.Lights.LightsAssert
    pc,             \* the access the main loop is at
    reg,            \* the registers it reads into and writes from
    todo            \* the bytes it has still to read or write

timers == <<PS2Assert, LightsAssert>>
vars   == <<PS2Assert, LightsAssert, pc, reg, todo>>
-----------------------------------------------------------------------------
(* The accesses of the main loop, by the statement they belong to:         *)
(*   p_check  if (Device->PS2Assert == 0)     in ProcessGenericHIDReport   *)
(*   p_set    Lights->LightsAssert = 1000                                  *)
(*   c_check  if (Device->PS2Assert)          in CreateGenericHIDReport    *)
(*   c_load   Device->PS2Assert--, its read                                *)
(*   c_store  Device->PS2Assert--, its write                               *)
(*   l_check  if (Lights->LightsAssert)                                    *)
(*   l_load   Lights->LightsAssert--, its read                             *)
(*   l_store  Lights->LightsAssert--, its write                            *)

PS2Reads     == {"p_check", "c_check", "c_load"}
LightsReads  == {"l_check", "l_load"}
Reads        == PS2Reads \cup LightsReads
PS2Writes    == {"c_store"}
LightsWrites == {"p_set", "l_store"}
Writes       == PS2Writes \cup LightsWrites

Zero == ToWord(0)

\* Faults: a decrement without the borrow of the high byte, and one that is
\* not cut to 16 bits.
DecrementLow(w)  == [w EXCEPT !["lo"] = (@ - 1) % ByteSize]
DecrementLong(w) == ToWord(Num(w) - 1)

\* The decrement of a 16-bit word.
Decrement(w) == ToWord((Num(w) - 1) % WordSize)

\* Faults: a test of the high byte only, and a test left out.
AssertedHigh(w) == w["hi"] # 0
AssertedAny(w)  == TRUE

\* Whether a countdown is running.
Asserted(w) == w # Zero

\* The main loop goes on to the accesses of label l.
Goto(l) == pc' = l /\ todo' = IF l = "idle" THEN {} ELSE Halves

Init ==
    /\ PS2Assert = Zero
    /\ LightsAssert = Zero
    /\ pc = "idle"
    /\ reg = Zero
    /\ todo = {}

(* An output report arrives: its command may be a settings write to a byte *)
(* of a countdown, to which the configuration tool always writes zero.     *)
StartProcess ==
    /\ pc = "idle"
    /\ \/ UNCHANGED timers
       \/ \E h \in Halves : /\ PS2Assert' = [PS2Assert EXCEPT ![h] = 0]
                            /\ UNCHANGED LightsAssert
       \/ \E h \in Halves : /\ LightsAssert' = [LightsAssert EXCEPT ![h] = 0]
                            /\ UNCHANGED PS2Assert
    /\ Goto("p_check")
    /\ UNCHANGED reg

(* An input report is due. *)
StartCreate ==
    /\ pc = "idle"
    /\ Goto("c_check")
    /\ UNCHANGED <<timers, reg>>

ReadByte ==
    /\ pc \in Reads
    /\ \E h \in todo :
        /\ reg' = [reg EXCEPT ![h] = IF pc \in PS2Reads THEN PS2Assert[h] ELSE LightsAssert[h]]
        /\ todo' = todo \ {h}
    /\ UNCHANGED <<timers, pc>>

\* What the main loop does with a word it has read: where it goes next and
\* what it leaves in the registers.
Decide ==
    /\ pc \in Reads
    /\ todo = {}
    /\ \/ pc = "p_check" /\ ~Asserted(reg) /\ Goto("p_set") /\ reg' = ToWord(Reload)
       \/ pc = "p_check" /\ Asserted(reg) /\ Goto("idle") /\ reg' = reg
       \/ pc = "c_check" /\ Asserted(reg) /\ Goto("c_load") /\ reg' = reg
       \/ pc = "c_check" /\ ~Asserted(reg) /\ Goto("l_check") /\ reg' = reg
       \/ pc = "c_load" /\ Goto("c_store") /\ reg' = Decrement(reg)
       \/ pc = "l_check" /\ Asserted(reg) /\ Goto("l_load") /\ reg' = reg
       \/ pc = "l_check" /\ ~Asserted(reg) /\ Goto("idle") /\ reg' = reg
       \/ pc = "l_load" /\ Goto("l_store") /\ reg' = Decrement(reg)
    /\ UNCHANGED timers

WriteByte ==
    /\ pc \in Writes
    /\ \E h \in todo :
        /\ IF pc \in PS2Writes
           THEN PS2Assert' = [PS2Assert EXCEPT ![h] = reg[h]] /\ UNCHANGED LightsAssert
           ELSE LightsAssert' = [LightsAssert EXCEPT ![h] = reg[h]] /\ UNCHANGED PS2Assert
        /\ todo' = todo \ {h}
    /\ UNCHANGED <<pc, reg>>

\* The statement after a write.
Written ==
    /\ pc \in Writes
    /\ todo = {}
    /\ IF pc = "c_store" THEN Goto("l_check") ELSE Goto("idle")
    /\ UNCHANGED <<timers, reg>>

(* A byte from the console. *)
SPI_ISR ==
    /\ PS2Assert' = ToWord(Reload)
    /\ LightsAssert' = Zero
    /\ UNCHANGED <<pc, reg, todo>>

Main == ReadByte \/ Decide \/ WriteByte \/ Written

Next == StartProcess \/ StartCreate \/ Main \/ SPI_ISR

Spec == Init /\ [][Next]_vars

\* The main loop runs, and the host keeps polling: HID_Task looks at the IN
\* endpoint on every pass, after at most one output report.
FairSpec == Spec /\ WF_vars(Main) /\ SF_vars(StartCreate)
-----------------------------------------------------------------------------
(* Properties *)

(* The words keep their width and the registers theirs.                     *)
TypeOK ==
    /\ PS2Assert \in Word
    /\ LightsAssert \in Word
    /\ pc \in {"idle"} \cup Reads \cup Writes
    /\ reg \in Word
    /\ todo \in SUBSET Halves

(* However reads and writes tear, the countdown of the PS2 never wraps     *)
(* below zero: its high byte is never above that of Reload, so a torn      *)
(* access can lengthen it by less than ByteSize reports (USBemani.c:231).  *)
PS2AssertBounded == PS2Assert["hi"] <= Reload \div ByteSize

(* When the console falls silent and the host keeps polling, the PS2 stops *)
(* counting as active, whatever the host sends in the meantime.            *)
PS2Drains ==
    <>[][~SPI_ISR]_vars => <>[](PS2Assert = Zero)

(* When the host stops sending output reports as well, the lights go back  *)
(* to the buttons, even after a countdown that wrapped.                    *)
LightsDrain ==
    <>[][~SPI_ISR /\ ~StartProcess]_vars => <>[](LightsAssert = Zero)

(* USBemani.c:229: "If either lighting or PS2 is asserted, we'll decrement *)
(* the variables": a lights countdown is never decremented below zero.     *)
LightsTimeoutKept ==
    pc = "idle" => Num(LightsAssert) <= Reload
=============================================================================
