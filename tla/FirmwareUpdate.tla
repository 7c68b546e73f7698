--------------------------- MODULE FirmwareUpdate ---------------------------
(***************************************************************************)
(* Programming the board: Device_UpdateFirmware of the tool (Bootloader.c) *)
(* and main of the command line loader (hid_bootloader_cli.c), which share *)
(* their reader of Intel HEX files and their loop over the blocks, and the *)
(* board they find as application, as bootloader or not at all.            *)
(*                                                                         *)
(* A line of the file is a record of what parse_hex_line tells apart.  The *)
(* file on disk may change at any time; a read sees it as it was opened.   *)
(* A write may be reported failed though the board received it.            *)
(*                                                                         *)
(* Assumed of the bootloader, whose source is not here: it programs the    *)
(* block it is sent, and at the first one may erase all the others, which  *)
(* is what Bootloader.c:108 sends that block for.                          *)
(***************************************************************************)
EXTENDS Integers, Sequences, FiniteSets

CONSTANTS
    MaxMemory,  \* MAX_MEMORY_SIZE
    AddressSize, \* 2^32: an unsigned int's values, and indexes of an array
    BlockSize,  \* block_size
    Chips,      \* the code sizes that -mmcu can choose for the loader
    ToolCode,   \* code_size of the tool
    Files,      \* what the file may hold: sequences of lines
    Strays,     \* what extended_addr may hold when it was overwritten
    NoFile,     \* the file cannot be opened
    MaxTries,   \* bound: how often an update is started
    MaxUnplugs  \* bound: how often the board is unplugged

Address == 0 .. MaxMemory - 1
Blank   == 255
Byte    == 0 .. 255

Lines == [frame : BOOLEAN, code : 0 .. 5, addr : Nat, data : Seq(Byte), base : Nat, sum : BOOLEAN]

ASSUME SizesAssumption ==
    /\ MaxMemory \in Nat \ {0} /\ BlockSize \in Nat \ {0}
    /\ \E blocks \in 1 .. MaxMemory : MaxMemory = blocks * BlockSize
    /\ AddressSize \in Nat /\ AddressSize > MaxMemory /\ Strays \subseteq 0 .. AddressSize - 1
    /\ ToolCode \in 1 .. MaxMemory - 1 /\ Chips \subseteq 1 .. MaxMemory
ASSUME FilesAssumption == Files \subseteq Seq(Lines) /\ NoFile \notin Files
ASSUME BoundsAssumption == MaxTries \in Nat /\ MaxUnplugs \in Nat

VARIABLES
    program,    \* "tool" or "loader"
    options,    \* the loader's -r, -w and -n, and code_size
    pc,         \* where the program is
    result,     \* what Device_UpdateFirmware returns, or how the loader ended
    waited,     \* the board was not there at once
    file,       \* the file on disk
    source,     \* the file that is being read or was read last
    line,       \* how many of its lines were read
    image,      \* firmware_image where firmware_mask is set, None elsewhere
    extended,   \* extended_addr
    block,      \* addr, the block to be programmed
    mode,       \* the board: app, resetting, boot or unplugged
    flash,      \* the program memory of the board
    tries, unplugs \* counters for the bounds

reader  == <<source, line, image, extended>>
board   == <<mode, flash>>
counts  == <<tries, unplugs>>
vars    == <<program, options, pc, result, waited, file, reader, block, board, counts>>

None == -1
CodeSize == options.code
Page(b) == {a \in Address : b <= a /\ a < b + BlockSize}
-----------------------------------------------------------------------------
\* parse_options, and the variables the tool has in their place.
LoaderOptions(sizes) == [reboot : BOOLEAN, wait : BOOLEAN, start : BOOLEAN, code : sizes]

ToolOptions == [reboot |-> TRUE, wait |-> FALSE, start |-> TRUE, code |-> ToolCode]

Empty == [a \in Address |-> None]

Init ==
    /\ \/ program = "tool" /\ options = ToolOptions
       \/ program = "loader" /\ options \in LoaderOptions(Chips)
    /\ pc = "idle" /\ result = "none" /\ waited = FALSE
    /\ file \in Files \cup {NoFile}
    /\ source = NoFile /\ line = 0 /\ image = Empty /\ extended = 0
    /\ block = 0
    /\ mode \in {"app", "boot", "unplugged"}
    /\ flash = [a \in Address |-> Blank]
    /\ tries = 0 /\ unplugs = 0

End(r) == pc' = "idle" /\ result' = r

\* Fault: the image of the last read is kept.
OpenFileKept ==
    /\ source' = file
    /\ line' = 0 /\ extended' = 0
    /\ UNCHANGED image

\* read_intel_hex: everything is reset, and the file opened.
OpenFile ==
    /\ source' = file
    /\ line' = 0 /\ extended' = 0
    /\ image' = Empty

\* The user starts an update: hard_reboot_device is a local of the tool, and
\* the loader a new process.
Start ==
    /\ pc = "idle" /\ tries < MaxTries
    /\ tries' = tries + 1
    /\ pc' = "reading" /\ result' = "none" /\ waited' = FALSE
    /\ \/ program = "tool" /\ options' = [options EXCEPT !.reboot = TRUE]
       \/ program = "loader" /\ options' \in LoaderOptions({CodeSize})
    /\ OpenFile
    /\ block' = 0
    /\ UNCHANGED <<program, file, board, unplugs>>
-----------------------------------------------------------------------------
(* The Intel HEX reader *)

Current == source[line + 1]
Length(l) == Len(l.data)

\* Where the data of a line goes.
First(l) == (l.addr + extended) % AddressSize

\* The lines that parse_hex_line refuses, but for the sum of a data line.  The
\* address after the line is compared, which wraps where the addresses end.
Refused(l) == ~l.frame \/ (First(l) + Length(l)) % AddressSize >= MaxMemory

SetsBase(l) == l.code \in {2, 4} /\ Length(l) = 2 /\ l.sum

\* The image after a data line.
Stored(l) ==
    [a \in Address |->
        LET n == (a - First(l)) % AddressSize
        IN  IF n < Length(l) THEN l.data[n + 1] ELSE image[a]]

\* A data line across the last address is not refused, and what it has before
\* that address is stored in front of the arrays: over the end of the one in
\* front of the other, if it is one of the two.
Overruns(l) == l.code = 0 /\ First(l) + Length(l) >= AddressSize

Overwritten(l) ==
    LET last == {a \in Address : a + AddressSize >= MaxMemory + First(l)}
    IN  {[a \in Address |-> IF a \in DOMAIN s THEN s[a] ELSE Stored(l)[a]] :
             s \in UNION {[S -> {None, Blank, 1}] : S \in SUBSET last}}

\* The second read, after the board was waited for, has a result of its own.
ReadFails ==
    /\ End(IF waited THEN "reread failed" ELSE "read failed")
    /\ UNCHANGED <<source, extended>>

\* The end record, or the end of the file: the program goes on.
ReadDone ==
    /\ pc' = IF waited THEN "programming" ELSE "opening"
    /\ UNCHANGED <<source, extended, result>>

\* Fault: a data line with a wrong sum is a line like the others.
SumKept(l) == FALSE

SumWrong(l) == l.code = 0 /\ ~l.sum

\* A data line: the reader fails if its sum is wrong, and goes on otherwise.
DataRead(l) ==
    /\ image' = Stored(l)
    /\ IF SumWrong(l) THEN ReadFails ELSE UNCHANGED <<pc, result, source, extended>>

\* One that overruns kills the program, or changes end_record_seen, byte_count
\* or extended_addr, which may lie in front of the arrays, or none of them.
DataOverruns(l) ==
    /\ image' \in Overwritten(l)
    /\ \/ End("killed") /\ UNCHANGED <<source, extended>>
       \/ ReadFails
       \/ ~SumWrong(l) /\ ReadDone
       \/ ~SumWrong(l) /\ extended' \in {extended} \cup Strays /\ UNCHANGED <<pc, result, source>>

Read ==
    /\ pc = "reading"
    /\ \/ /\ source = NoFile
          /\ ReadFails
          /\ UNCHANGED <<line, image>>
       \/ /\ source # NoFile /\ line = Len(source)
          /\ ReadDone
          /\ UNCHANGED <<line, image>>
       \/ /\ source # NoFile /\ line < Len(source)
          /\ line' = line + 1
          /\ \/ /\ Refused(Current)
                /\ ReadFails
                /\ UNCHANGED image
             \/ /\ ~Refused(Current) /\ Current.code = 1
                /\ ReadDone
                /\ UNCHANGED image
             \/ /\ ~Refused(Current) /\ Current.code = 0
                /\ IF Overruns(Current) THEN DataOverruns(Current) ELSE DataRead(Current)
             \/ /\ ~Refused(Current) /\ Current.code \notin {0, 1}
                /\ extended' = IF SetsBase(Current) THEN Current.base ELSE extended
                /\ UNCHANGED <<pc, result, source, image>>
    /\ UNCHANGED <<program, options, waited, file, block, board, counts>>
-----------------------------------------------------------------------------
(* Finding the bootloader *)

Found ==
    /\ pc = "opening" /\ mode = "boot"
    /\ IF waited THEN pc' = "reading" /\ OpenFile
                 ELSE pc' = "programming" /\ UNCHANGED reader
    /\ UNCHANGED <<program, options, result, waited, file, block, board, counts>>

\* Fault: the tool sends what the loader sends.
ObeysNobody(p) == FALSE

\* What the firmware takes for its reset command: the tool sends F5 73, the
\* loader FF FF, which is none.
Obeys(p) == p = "tool"

\* Device_Reboot and hard_reboot, and the firmware that receives the command.
RebootSent ==
    /\ pc = "opening" /\ mode = "app" /\ options.reboot
    /\ mode' = IF Obeys(program) THEN "resetting" ELSE mode
    /\ options' = [options EXCEPT !.reboot = FALSE, !.wait = TRUE]
    /\ waited' = TRUE
    /\ UNCHANGED <<program, pc, result, file, reader, block, flash, counts>>

RebootFails ==
    /\ pc = "opening" /\ mode # "boot" /\ options.reboot
    /\ End("no board")
    /\ mode' \in IF mode = "app" /\ Obeys(program) THEN {mode, "resetting"} ELSE {mode}
    /\ UNCHANGED <<program, options, waited, file, reader, block, flash, counts>>

\* The loop goes on, or the program gives up.
NotFound ==
    /\ pc = "opening" /\ mode # "boot" /\ ~options.reboot
    /\ IF options.wait THEN waited' = TRUE /\ UNCHANGED <<pc, result>>
                       ELSE End("not found") /\ UNCHANGED waited
    /\ UNCHANGED <<program, options, file, reader, block, board, counts>>
-----------------------------------------------------------------------------
(* Programming *)

\* Fault: only the first byte of a block is looked at.
WithinRangeFirst(b) == b + BlockSize <= MaxMemory /\ image[b] # None

WithinRange(b) == b + BlockSize <= MaxMemory /\ \E a \in Page(b) : image[a] # None

\* Fault: bytes that the file leaves out are sent as they are.
GetDataRaw(b) == [a \in Page(b) |-> image[a]]

\* ihex_get_data: the last block of the memory is always blank.
GetData(b) ==
    [a \in Page(b) |->
        IF b + BlockSize >= MaxMemory \/ image[a] = None THEN Blank ELSE image[a]]

\* The flash after a write that reached the board: the rest of it is as it was,
\* or blank.
Programmed(b, rest) == [a \in Address |-> IF a \in Page(b) THEN GetData(b)[a] ELSE rest[a]]
Erased == [a \in Address |-> Blank]
Writes(b) == {Programmed(b, rest) : rest \in IF b = 0 THEN {flash, Erased} ELSE {flash}}

BlockIsNext ==
    /\ pc = "programming" /\ block < CodeSize
    /\ block = 0 \/ WithinRange(block)

ProgramBlock ==
    /\ BlockIsNext /\ mode = "boot"
    /\ flash' \in Writes(block)
    /\ block' = block + BlockSize
    /\ UNCHANGED <<program, options, pc, result, waited, file, reader, mode, counts>>

\* The write fails, though it may have reached the board.
WriteFails ==
    /\ BlockIsNext
    /\ flash' \in IF mode = "boot" THEN {flash} \cup Writes(block) ELSE {flash}
    /\ End("write failed")
    /\ UNCHANGED <<program, options, waited, file, reader, block, mode, counts>>

SkipBlock ==
    /\ pc = "programming" /\ block < CodeSize
    /\ block # 0 /\ ~WithinRange(block)
    /\ block' = block + BlockSize
    /\ UNCHANGED <<program, options, pc, result, waited, file, reader, board, counts>>

\* The board is told to start its program; whether it hears it is not asked.
Finish ==
    /\ pc = "programming" /\ block >= CodeSize
    /\ End("updated")
    /\ mode' \in IF options.start /\ mode = "boot" THEN {"boot", "app"} ELSE {mode}
    /\ UNCHANGED <<program, options, waited, file, reader, block, flash, counts>>
-----------------------------------------------------------------------------
(* The board, its user and the disk *)

\* The watchdog resets the board, and the bootloader runs.
Reset ==
    /\ mode = "resetting"
    /\ mode' = "boot"
    /\ UNCHANGED <<program, options, pc, result, waited, file, reader, block, flash, counts>>

Unplug ==
    /\ mode # "unplugged" /\ unplugs < MaxUnplugs
    /\ mode' = "unplugged"
    /\ unplugs' = unplugs + 1
    /\ UNCHANGED <<program, options, pc, result, waited, file, reader, block, flash, tries>>

Plug ==
    /\ mode = "unplugged"
    /\ mode' \in {"app", "boot"}
    /\ UNCHANGED <<program, options, pc, result, waited, file, reader, block, flash, counts>>

FileChanges ==
    /\ file' \in (Files \cup {NoFile}) \ {file}
    /\ UNCHANGED <<program, options, pc, result, waited, reader, block, board, counts>>

Host ==
    \/ Start
    \/ Read
    \/ Found
    \/ RebootSent
    \/ RebootFails
    \/ NotFound
    \/ ProgramBlock
    \/ WriteFails
    \/ SkipBlock
    \/ Finish

Next == Host \/ Reset \/ Unplug \/ Plug \/ FileChanges

\* The program runs, and the watchdog, once enabled, resets the board.
Fairness == WF_vars(Host) /\ WF_vars(Reset)

Spec == Init /\ [][Next]_vars /\ Fairness
-----------------------------------------------------------------------------
(* Properties *)

(* The program is in one of its phases, and the image and the flash have a *)
(* byte or nothing at every address.                                       *)
TypeOK ==
    /\ program \in {"tool", "loader"}
    /\ options \in LoaderOptions(Chips \cup {ToolCode})
    /\ pc \in {"idle", "reading", "opening", "programming"}
    /\ result \in {"none", "killed", "read failed", "no board", "not found", "reread failed",
                  "write failed", "updated"}
    /\ waited \in BOOLEAN
    /\ file \in Files \cup {NoFile} /\ source \in Files \cup {NoFile}
    /\ line \in Nat /\ block \in Nat /\ extended \in Nat
    /\ image \in [Address -> Byte \cup {None}]
    /\ mode \in {"app", "resetting", "boot", "unplugged"}
    /\ flash \in [Address -> Byte]
    /\ tries \in 0 .. MaxTries /\ unplugs \in 0 .. MaxUnplugs

\* The format's own account of the first n lines of a file: the base is set
\* by the last good extended address, and a byte by the last line over it.
Latest(S) == CHOOSE j \in S : \A i \in S : i <= j

Bases(f, n) == {j \in 1 .. n : SetsBase(f[j])}
BaseAt(f, n) == IF Bases(f, n) = {} THEN 0 ELSE f[Latest(Bases(f, n))].base

Place(f, j) == f[j].addr + BaseAt(f, j)
Covering(f, n, a) ==
    {j \in 1 .. n : f[j].code = 0 /\ a \in Place(f, j) .. Place(f, j) + Length(f[j]) - 1}
ByteOf(f, j, a) == f[j].data[a - Place(f, j) + 1]
Meaning(f, n, a) ==
    IF Covering(f, n, a) = {} THEN None ELSE ByteOf(f, Latest(Covering(f, n, a)), a)

\* No line of the first n reaches across the last address, where the sum that
\* parse_hex_line compares wraps.
WithinAddresses(f, n) ==
    \A j \in 1 .. n : f[j].addr + BaseAt(f, j - 1) + Length(f[j]) < AddressSize

(* What the reader has made of the lines it has read, one after the other  *)
(* and with the state it carries between them, is what they mean, if none  *)
(* of them reaches across the last address.                                *)
ImageIsFile ==
    pc \in {"reading", "opening", "programming"} /\ source # NoFile
        /\ WithinAddresses(source, line) =>
        \A a \in Address : image[a] = Meaning(source, line, a)

\* The file is whole as far as it was read: every line is well formed and
\* within the memory, the sums of its data are right, and nothing was left
\* unread but what follows an end record.
Whole(f, n) ==
    /\ \A j \in 1 .. n :
          /\ f[j].frame
          /\ f[j].addr + BaseAt(f, j - 1) + Length(f[j]) < MaxMemory
          /\ f[j].code = 0 => f[j].sum
          /\ f[j].code = 1 => j = n
    /\ n = Len(f) \/ f[n].code = 1

\* What the file says of an address, in what is programmed.
Says(a) ==
    IF Meaning(source, line, a) = None \/ a >= MaxMemory - BlockSize
    THEN Blank ELSE Meaning(source, line, a)

\* A step that changes the flash.
FlashStep ==
    flash' # flash =>
        /\ source # NoFile
        /\ WithinAddresses(source, line) =>
              /\ Whole(source, line)
              /\ \A a \in Address : flash'[a] # flash[a] =>
                    flash'[a] = Says(a) \/ (block = 0 /\ a \notin Page(0) /\ flash'[a] = Blank)

(* Programming begins only with a file that is whole ("this is done first  *)
(* so any error is reported before using USB", Bootloader.c:46), unless a  *)
(* line reaches across the last address.  A byte of the board changes only *)
(* to what the file says of its address, or is erased, outside of the      *)
(* first block and while that is written ("to erase the chip", line 108).  *)
(* The last block of a memory as large as the reader's is not programmed.  *)
FlashOnlyFromWholeFile == [][FlashStep]_vars

(* "The USBemani has been updated": every byte of the file that fits the   *)
(* code size is in the board, whatever an update that failed left there,   *)
(* except in the last block of a memory as large as the reader's, which    *)
(* ihex_get_data takes to be outside of it; if no line of the file reaches *)
(* across the last address.                                                *)
UpdatedMeansProgrammed ==
    result = "updated" /\ WithinAddresses(source, line) =>
        \A a \in 0 .. CodeSize - 1 :
            a < MaxMemory - BlockSize /\ Meaning(source, line, a) # None =>
                flash[a] = Meaning(source, line, a)

(* An update ends, though the tool waits for the bootloader without a      *)
(* timeout: the board that took the reset command comes back as one.  Only *)
(* a board that was unplugged, or a loader that was told to wait or whose  *)
(* reset command the firmware does not know, can make it wait for ever.    *)
UpdateEnds ==
    pc # "idle" ~> pc = "idle" \/ unplugs > 0 \/ (program = "loader" /\ options.wait)
=============================================================================
