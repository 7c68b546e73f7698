# USBemani in TLA+

USBemani is the firmware of a game controller board (an 8-bit AVR, ATmega16u4)
that is a USB joystick to a PC and a PlayStation 2 pad at the same time. It has
twelve buttons, twelve lights on the same pins, and rotary encoders for
turntables and knobs; its settings live in EEPROM and are written over USB by a
configuration tool, which can also replace the firmware. This directory holds
TLA+ models of all of it, the TLC runs that check them, and TLAPS proofs of what
matters most. Paths below are relative to the repository.

## 1. The system

### What runs, and what may come in between

On the board there is one main loop (`USBemani.c:65`) and three interrupts that
matter:

| actor | code | runs |
|---|---|---|
| main loop | `HID_Task`, `USB_USBTask`, `PS2_LoadData` | always; it waits only in the handlers of control requests |
| timer interrupt | `Rotary.c:119` | at every compare match; not while interrupts are off |
| SPI interrupt | `PS2.c:225` | after every byte on the PS2 port; not while interrupts are off |
| USB interrupt | `USBInterrupt_AVR8.c:77` | at a bus reset, suspend, wake-up, or a change of VBUS |

On the PC there is the configuration tool, whose user presses buttons in any
order, and which waits for the board only while it updates the firmware. What
can go wrong between the two is that a write fails, that the board loses power,
that it is unplugged, and that a file is not what it was.

Control requests are handled by `USB_USBTask` in the main loop too
(`INTERRUPT_CONTROL_ENDPOINT` is not defined). Interrupts do not nest. The
processor has 8 bits: a 16-bit variable is two accesses, and an interrupt may
come between them. Interrupts are off during the set-up functions and, much
longer, during `Config_SaveEEPROM`. All parts share one struct, `Settings`
(`Config.c:9`), of which each holds a pointer to its own piece; the host writes
it a byte at a time, while everything else runs.

### Components

| component | state | operations | what makes it correct |
|---|---|---|---|
| Rotary encoders (`Rotary.c`) | pins, decoder state, position, direction, hold counter per encoder; hold time | timer interrupt, `Rotary_Init`, `Rotary_AttachEncoder`, getters | the position follows the shaft; the decoder recovers from skipped steps; the digital direction agrees with the position and is released |
| PlayStation 2 (`PS2.c`) | `PS2_State`, `PS2_Data`, `PS2_INPUTMAP`, `InvertMask`, SPDR, the acknowledge line | SPI interrupt, `PS2_Init`, `PS2_LoadData` | polls are answered in order after anything the bus may carry; the pad is silent in frames of others; the buttons it reports are those pressed |
| Report handlers (`USBemani.c`) | the countdowns `PS2Assert` and `LightsAssert` | `HID_Task`, control requests, `ProcessGenericHIDReport`, `CreateGenericHIDReport` | the countdowns end when their source falls silent and never wrap |
| Buttons, Lights (`Button.c`, `Lights.c`) | the direction and port registers of twelve shared pins, the latch, the LED | `Button_GetState`, `Lights_SetState`, `Button_Init`, `Lights_Init` | reading does not see the lights; lighting does not see the reading; the host's lights stay |
| Settings (`Config.c`) | `Settings`, the EEPROM's header and its copy | `Config_Init`, load, save, identify, update | what was saved is what is loaded, whenever the power fails |
| Descriptors (`Descriptors.c`) | the report descriptor's logical maximum | `CALLBACK_USB_GetDescriptor` | the maximum bounds what is then reported |
| Configuration tool (`Win32ConfigUtility/USBemaniConfig.c`) | the dialog's controls, its copy of the settings, the file | load, save, build, send settings, apply, store | what the user chose arrives whole, or a write failed; a dialog reopens as it was closed |
| Firmware updater (`Win32ConfigUtility/Bootloader.c`) | the hex image, the options | read, reset, find bootloader, write blocks, reboot | the image is what the file means; success means it is in the board; the wait ends |
| HID bootloader loader (`HostLoaderApp/`) | the same | the same, with options | the same |
| LUFA (`LUFA/Drivers/USB/Core/`) | the device state, configuration, selected endpoint, the control endpoint's bank | `USB_DeviceTask`, standard requests, control streams, the USB interrupt | the answer a host takes was made for its request; a configured device has its endpoints; the main loop comes round |
| Build files, data | | | no behaviour of their own |

### What is hard about it

- **Interleaving and atomicity.** `if (PS2Assert) PS2Assert--` is six byte
  accesses with an interrupt that stores 1000 in between; `PS2_Data` is written
  in two stores and read in two runs of the interrupt; the tooth count the timer
  interrupt divides by changes a byte at a time and may be zero.
- **Ordering.** The shaft bounces, reverses within a tooth and skips steps while
  interrupts are off. The PS2 bus carries frames of the memory card, aborted
  polls, and bytes the interrupt is too late for.
- **Crash.** Power may fail between any two bytes of a save, of a round of
  settings, or of a firmware update.
- **Partial failure.** The tool ignores a settings byte that fails and sends the
  command all the same; a write that is reported failed may have arrived.
- **Interrupts under handlers.** A bus reset changes the device state and the
  selected endpoint while a handler of a control request waits, or between its
  last wait and the store of the new state.
- **Waiting.** Loops that wait for a packet, a bank or a bootloader, with and
  without an exit.
- **Stale state.** The map in use, the map that was chosen, the descriptor the
  host read, the buttons of the last scan, the file that was read before the
  wait: all copies that lag behind.
- **Limits.** `PS2_State` is a byte nothing stops; countdowns can wrap;
  positions are bytes and tooth counts words.

`PROJECT.json` lists each hazard with its line and the properties that cover it.

## 2. The modules

| module | models | extends |
|---|---|---|
| `Rotary` | the encoders, the shaft, the settings they read | |
| `Dial` | what `Rotary` promises: an absolute dial | |
| `Descriptors` | `Rotary` with the descriptor callback | `Rotary` |
| `PS2` | the SPI interrupt, the console and its memory card, `PS2_Data` | |
| `AssertTimers` | the two countdowns, byte access by byte access | |
| `Panel` | buttons, lights, the main loop, the button maps | |
| `Config` | settings, EEPROM, commands, crashes | |
| `DurableSettings` | what `Config` promises: an abstract store | |
| `ConfigTool` | the dialog, its file, the round of reports, the board that takes them | |
| `FirmwareUpdate` | the Intel HEX reader, both updaters, the board as application or bootloader | |
| `USBDevice` | LUFA's device side: main loop, control requests, interrupt; the host | |
| `MC*` | constants for the runs | the module they are named for |
| `*Proofs` | theorems | the module they are named for; `RotaryProofs` also `Descriptors` |

### Rotary

`Rotary` (the array of `Rotary_t`), `HoldTime` and `SettingsRotary` are the
code's variables. `phase` and `moved` are the shaft: its place in the cycle of
the two pins, and how many quarter steps it made since the last sample.
`TimerISR` is the whole interrupt for all encoders: `NextState` is
`RotaryProcess` with the half-step table as it is in `Rotary.c:20`, then hold
counter, position and direction. The position is computed in 16 bits as the code
does, remainder by the tooth count, and cut to a byte. A division by zero, which
is undefined, gives what the AVR library's shift-and-subtract loop gives: the
dividend. The host writes the bytes of the settings (`UpdateInvert`,
`UpdateHold`, `UpdatePPR`); `ApplyCommand` and `StoreCommand` lead through the
save, in which no interrupt runs, `Rotary_Init` and `Rotary_AttachEncoder`.

### Dial

`Dial` has no pins, table, hold counter or remainder: a dial has two marks per
tooth, `Turn` moves it by one, `Read` reads its position to the nearest tooth,
and its `angle` may be lost by more than one mark between two readings or by
`Adjust`, which gives it another number of teeth, and by nothing else: a step
that leaves the tooth count and the shaft as they are leaves every angle too.
`ImplementsDial` says that `Rotary` implements it. The refinement mapping
(`Angle`) reconstructs the mark from what the code keeps: twice the position,
less the mark that the decoder has seen and not yet reported (`Lag` of its row),
plus the step it has not sampled. It is lost while the row does not stand for a
phase or the position is not below the tooth count. Saves, set-ups, commands,
inversion, hold times and the other encoders must be stutters, and are.

### Descriptors

`Descriptors.c:52` and `Rotary.c:38` both define `Rotary`, one a pointer and
one the array. They are tentative definitions of one symbol, so setting the
pointer overwrites the first bytes of encoder 0. `AddressRotary` is that store,
`AlterMaximum` the read through the pointer and the patch of the descriptor; the
interrupt may come in between, and then the pointer points elsewhere and the
tooth count read is any word. Pin bytes are not state in `Rotary`, and the low
byte of the address is taken to be the pin's own value.

### PS2

The module begins where `PS2_Init` enables the SPI, which may be in the middle
of a frame; nothing disables it again, and the maps that `PS2_Init` loads are in
`Panel`. The console is the environment: it polls with 01 42 00 00 00, sends the next
byte only when the last was acknowledged, may send a command the pad does not
know, talks to the memory card, and ends any frame at any byte. `Exchange` is
the shift register: the console hears what the interrupt left in SPDR (`tx`), or
the byte it just sent if the interrupt is late. `SPI_ISR` is the whole
interrupt. Replies are kinds ("41", "5A", low or high byte of the buttons, ...)
tagged with the scan they come from; `LoadScan` and `LoadStore` are the
computation and the two stores of `PS2_LoadData`.

### AssertTimers

The labels of `pc` are the statements of `ProcessGenericHIDReport` and
`CreateGenericHIDReport` that access a countdown; `ReadByte` and `WriteByte` are
single byte accesses, in either order since the order is the compiler's, and
`Decide` and `Written` are what comes after. `SPI_ISR` may come between any two.
Words are functions on their two bytes.

### Panel

The main loop as a whole: an output report, an input report, a control request,
`PS2_LoadData`, and again. A handler is a few steps, so that the player
(`Press`, `Turn`) and the interrupt (`SPI_ISR`) can come between a test of a
countdown and its use; here one access to a countdown is one step, and
`AssertTimers` has the bytes. `High` is the electrical side as `Button.c:29-41`
describes it: a button pulls its pin through a resistor, so it matters only
while the pin is an input. `Button_GetState` leaves the pins as inputs;
`Lights_SetState` drives them and pulses the latch. Maps are as in `PS2.c`; a map
number that is none of them leaves the loaded one. `Held` follows the live
setting and the map the loaded one, as in the code.

### Config and DurableSettings

An EEPROM cell that is being written when power fails is left `Erased`.
`WriteHeader` and `WriteSettings` write one byte each, in any order;
`Crash` and `CrashInSettings` can come at any moment. The struct is a function
on the cells the code treats specially, and one for the rest. `stored` is
history: the settings of the last save if it was finished.
`DurableSettings` knows no header and no cells: it has settings in memory,
settings that were saved, and power failures. `ImplementsDurable` says that
`Config` implements it, with `stored` for what was saved.

### ConfigTool

`controls` is what the dialog shows, `Settings` the tool's struct, `file` the
file beside it. `InitDialog` is `WM_INITDIALOG`, `Build` is `BuildConfig`, and
`Settled` the end of `WM_COMMAND`, which locks the lights while the PS2 is in
use. `Click` builds the struct and starts a round; `Send` and `SendFails` are one
`Device_SendCommand` each. As in the code, a byte that fails ends the round of
bytes and the command follows all the same (`USBemaniConfig.c:556`). A write that
fails may have reached the board (`Arrives \/ UNCHANGED endpoint`). On the board
`ProcessByte` and `ProcessCommand` are the same function,
`ProcessGenericHIDReport`, on a byte and on a command. A save to EEPROM is one
step here: `Config` shows that it is (`ImplementsDurable`). The history `spoilt`
says that the present round was disturbed, `mixed` which of the board's copies
may hold parts of two rounds, and the `goal` of a command what the dialog showed
when the button was pressed.

The struct is six bytes in the order of the code, the two of the tooth count and
one of each kind of setting that depends on another; the other bytes travel the
same way.

### FirmwareUpdate

The tool's `Device_UpdateFirmware` and the loader's `main` differ in their
options and in the reset command: the tool has none of the options and sends
`F5 73`, which the firmware obeys; the loader has `-w`, `-r` and `-n`, and the
Windows build sends `FF FF`, which the firmware does not know. `Start` clears the
reader, `Read` is one line, `Found`, `RebootSent`, `RebootFails` and `NotFound`
are one turn of the loop that waits, and `ProgramBlock`, `SkipBlock`,
`WriteFails` one block. After a wait the file is read again, since it may have
changed. `Meaning` is the reference: what a byte of the image is according to the
lines up to here, defined without the reader's state.

Addresses wrap at `AddressSize`, as the sum that `parse_hex_line` compares does at
32 bits. A line across the last address (base FFFF, address FFFF) therefore passes
the check (`Overruns`): what it has before that address goes in front of the
arrays, where the end of the other array, the reader's own variables (`Strays`
for `extended_addr`) or memory that kills the program may be, and the rest over
byte 0. `WithinAddresses` is the premise that no line read so far does so; where it
fails the properties promise nothing.

Assumed of the bootloader, which is not in the repository: it programs the block
it is sent, and may erase everything else when it is sent the first one, which
`Bootloader.c:108` says is what that block is always sent for (`Writes`).

### USBDevice

A step of the main loop is a turn of a waiting loop, or the code between two of
them, so that the interrupt and the host can come before and after every wait
and before the stores at the end of `SetAddress` and `SetConfiguration`. `pc`
says which loop, `hdr` is `USB_ControlRequest`, `selected` is UENUM, which every
endpoint macro depends on and a reset changes. `ep0` is the control endpoint:
the SETUP packet, whether an OUT packet is there, the IN packet in the bank, and
the stall. The interrupt is `EndOfReset`, `Suspend`, `WakeUp`, `Connect` and
`Disconnect`. `Unhandled` and `Final` are the end of
`USB_Device_ProcessControlRequest`, where what is still pending is stalled. The
history `early` says what the last SETUP packet came upon: nothing it had to wait
for, a handler that was still running, or the stream of a diverted report.

`ConfigureEndpoint` is the loop of `Endpoint_ConfigureEndpoint_Prv`, once for each
report endpoint: it selects an endpoint, writes its registers, and does the same
with the ones after it. A reset between the two selects the control endpoint, and
the writes go there (`Configure`): it may be disabled and made another kind of
endpoint (`control`), or be made again as it was and lose what it held, and the
report endpoint is not made. The next reset makes the control endpoint again.

Assumed of the controller: while a SETUP packet is pending it answers nothing
else, the packet discards an IN packet that was not sent, and a reset frees the
report endpoints. Assumed of the host: it does not send a SETUP packet on top of a
pending one, it does not give up on a transfer while the board runs code between
two waits, and it keeps the recovery times of USB: after a reset or a resume it
sends nothing for 10 ms, far longer than the code between two waits takes. So the
bus is `settling` until the main loop has come to a wait (`Settle`). Two things
take longer. One is the store of the settings to EEPROM (some 200 ms), which the
processing of a report may begin: with interrupts off, so that the reset is
processed after it. There the recovery may end at once. (A resume within such a
store, of a host that suspended the bus while its own request was pending and
took less than the store to do both, is left out.) The other is the wait at the
start of an endpoint stream, of up to 100 ms (`Endpoint_WaitUntilReady`): it finds
its endpoint ready, because `HID_Task` has looked, unless a reset came in between and
selected the control endpoint. Then it waits there in vain and does not look for a
SETUP packet; the host may send one meanwhile, and what `HID_Task` then sends, with
`Endpoint_ClearIN`, is taken for the answer (`Diverted`).
The reports of endpoints 1 and 2 belong to `Panel` and `AssertTimers`.

## 3. The runs

| run | states | shows |
|---|---|---|
| `rotary` | 240 000 | `DecoderInv`, `Resync`: the decoder is never wrong about where the shaft came from, and one sample recovers it. `NoDrift`: the position moves by the shaft's half steps modulo the tooth count. `BackInRange`: a position left outside a tooth count that changed is repaired by the next movement. `DirectionAgrees`: position and direction never disagree, inverted or not. `ImplementsDial`: all of it amounts to an absolute dial. `HeldDirection`, `SpinDown`: a direction is held while its counter runs and is released when the shaft stops |
| `descriptors` | 155 000 | `WithinMaximum`: an encoder that is not inverted moves to positions within the maximum told to the host |
| `ps2` | 17 000 | `PollAnswered`, `HighNotOlder`, `SilentAfterFrame` |
| `timers` | 4 300 | `PS2AssertBounded`: the PS2 countdown never wraps however it is torn; `PS2Drains`, `LightsDrain`: both end when their source is silent |
| `panel` | 370 000 | `HostLightsKept`, `PadFollows`, `LightsFollow`: the host's lights stay, the pad reports what the player does, and the lights return to the buttons |
| `config` | 340 000 | `SaveIsDurable`, `HeaderHealed`, `NeverInverted`, `ImplementsDurable` |
| `tool` | 2 200 000 | `AppliedAsChosen`: a round that nothing disturbs leaves the board with exactly what the dialog showed. `MixedOnlyByFailure`: conflicting settings, and tooth counts the tool does not know, come of failures only. `ReopensAsClosed`: a dialog reopens as it was closed |
| `update` | 482 000 | `ImageIsFile`: the reader's image is what the lines mean. `FlashOnlyFromWholeFile`: nothing is programmed from a broken file, and nothing changes but to what the file says or, with the first block, to blank. `UpdatedMeansProgrammed`: an update that reports success is in the board, whatever an earlier one that failed left there. All three but for a line across the last address. `UpdateEnds`: the wait for the bootloader ends, but for a board that was unplugged and a loader whose reset command nobody obeys |
| `usb` | 409 000 | `AnswersMatch`, `ReportsArrive`: answers, refusals and acknowledgements reach the request they are for, wherever resets, suspends and the plug find the main loop, but for what meets a diverted report. `StateFollowsHost`: a configured device has its endpoints, and was asked to be since the last reset. `MainLoopReturns`: the main loop comes round, but for three loops that do not look for a SETUP packet |

Three runs show that a comment or document of the repository does not hold of the
code:

| run | what fails | the statement |
|---|---|---|
| `descriptors_dial` | reading a descriptor overwrites the position of encoder 0 | `README.md:6` |
| `timers_wrap` | a byte from the console between the test of `LightsAssert` and its decrement wraps it to its largest value | `USBemani.c:229` |
| `config_header` | a power failure in the first save leaves a good header before settings that were never written | `Config.c:54` |

Other behaviour of the code that a reader may not expect, and that the
properties above are worded to allow:

- An inverted encoder reports the complement of its position, which is above the
  maximum told to the host.
- A long enough frame for another device wraps `PS2_State` into states that
  acknowledge; `SilentAfterFrame` counts the bytes until then.
- A byte from the console between the test of `PS2Assert` and the store to
  `LightsAssert` leaves both countdowns running.
- The descriptor's product identifier is 0x0001 (`Descriptors.c:250`), for which
  the tool locks the choice of lights; the run `tool` uses the other product it
  knows, where more can change.
- The last block of a memory as large as the reader's is never programmed with
  data, an end record's sum is not looked at, data beyond the code size is
  dropped silently, and blocks that the file does not mention keep what they
  have, unless the bootloader erased them.
- A line across the last 32-bit address passes the check of the reader and is
  stored around the image (`Overruns`).
- A report that a handler leaves early is processed with whatever the buffer
  holds; `ReportsArrive` says that its host never sees it succeed.
- A handler refuses what is pending when it ends, so a request that comes while
  another one's handler still runs may be refused though the device knows it
  (`early = "handler"` in `AnswersMatch`).
- A reset that comes between `HID_Task`'s choice of the IN endpoint and the end of the
  report's stream diverts the report to the control endpoint. A request sent less
  than 100 ms after is answered with it (`early = "report"`, the exception that
  `AnswersMatch` and `ReportsArrive` make): a SetAddress then seems done to the host
  before the device has its address, and the two lose each other until the next
  reset. A request that comes later, or finds no handler of such a one running,
  takes no harm. The same reset at the OUT endpoint leaves the report that is
  processed with what the stack held.
- A reset while the endpoints are being configured may disable the control
  endpoint until the next reset: the host then finds a device that says nothing.
- The loops that wait for the end of a transfer, or for the address to be sent,
  have no exit for a SETUP packet (`MainLoopReturns` names the three). A bus
  event or the device's disconnection still ends most of them.

### Bounds, and why they are enough

- `rotary`: one encoder (they do not interact but through the settings), bytes
  of 4 values so that words of 16 wrap and are cut; tooth counts 3 and 4 at
  boot and any word made of the bytes 0, 1 and 3 after, so zero, in range, and
  beyond a byte all occur; hold time 2, which the host may turn into 0; two
  quarter steps skipped, where the pins cannot tell which way.
- `descriptors`: the same without changes of the hold time.
- `ps2`: a `PS2_State` of 8 values, the smallest that has all five replies and
  room after them, so that it wraps; card frames of 6 bytes drawn from 00, 01
  and 42, so that data can look like a poll, and the bus idle or in such a frame
  at the start; 9 bytes without a 01, one more than
  it takes to wrap; three scans, so that a reply can mix two of them and a third
  is told apart.
- `timers`: bytes of 4 values and a start of 6 = (1, 2), which like 1000 = 0x03E8
  has no zero byte; `ReloadAssumption` states that, and the proof shows it is
  what the result rests on.
- `panel`: a countdown from 3 in words of 5 values, so that it outlasts a pass
  of the main loop (which counts it down twice at most) and still wraps soon;
  one wired button, encoders still or turning in opposite directions, a map
  with held inputs and the custom map with one input the host may write.
- `config`: a header of two bytes, so that it can be half written; one value per
  cell besides the default, among them the ones the fail-safe and
  `InvertMask` look at.
- `tool`: two tooth counts whose bytes both differ, two ways to drive the lights,
  the PS2 on or off; the map is left alone, since every choice of it multiplies
  the structs that five variables hold, and what the dialog makes of it is proved
  for every entry (`RoundTrip`).
- `update`: four blocks of two bytes; code sizes of half the memory and all of
  it; six files with every kind of line: overlaps, both kinds of base, wrong
  sums, a line over the end, one across the last address (addresses wrap at 10,
  two past the memory, so that such a line also reaches byte 0), garbage, no end
  record, lines after the end; two strays, one in the memory and odd, so that
  what follows straddles blocks; two updates, so that one can fail and the next
  repair it; one unplugging.
- `usb`: descriptors of one or two packets, so that the host can want less than
  all; everything else is finite as it is.

No run turns deadlock checking off.

### Fairness

- `rotary`: strong fairness of `TimerISR`, since a compare match that comes while
  interrupts are off stays pending and is served after; weak fairness of
  `SaveDone`, since a write to the EEPROM takes bounded time.
- `timers`: weak fairness of the main loop's own steps, and strong of
  `StartCreate`: the IN endpoint is looked at on every pass, after at most one
  output report, and the host polls it. The premise of each property says which
  source falls silent.
- `panel`: weak fairness of the main loop, which waits nowhere that this module
  models. What the host, the
  console and the player do is in the premises: `PadFollows` assumes that the
  console keeps the PS2 active, `LightsFollow` that the host keeps asking for
  input reports and sends no output reports. `LightsFollow` also needs the
  console silent: a byte in each window between the test and the decrement of
  `LightsAssert` could wrap it again and again.
- `tool`: none, the run is about safety.
- `update`: weak fairness of the program's own steps and of the watchdog reset.
  Nothing makes the user plug the board in.
- `usb`: strong fairness of the main loop: what it waits for lasts longer than a
  turn of a loop, even where a reset then takes it away. Weak fairness of the
  host's next packet and of its giving up: it goes on with a transfer or ends it.
  Nothing makes it start one, and nothing makes the bus reset.

## 4. The proofs

TLAPS proves these for every value of the constants, under the assumptions the
modules name, all of them checked by TLC in the runs.

| module | theorem | says |
|---|---|---|
| `RotaryProofs` | `TypeCorrect`, `DecoderCorrect`, `DecoderInPhase`, `DirectionHeld`, `DecoderResyncs`, `PositionFollowsShaft`, `PositionsComeBack`, `DirectionsAgree` | the safety properties of the run `rotary`, for every byte size, tooth count, hold time, skip and number of encoders |
| | `EncodersAreDials` | the refinement of `Dial` |
| | `StillShaftCountsDown` | the step behind `SpinDown`: a sample of a shaft at rest moves nothing and counts the hold counter down, whatever row the decoder was left in |
| | `MaximumIsToothCounts`, `PositionsWithinMaximum` | the maximum in the descriptor bounds positions, for every tooth count and width |
| `PS2Proofs` | `TypeCorrect`, `PollsAnswered`, `RepliesNeverOlder`, `SilentAfterFrames` | all properties of the run `ps2`, for every width of `PS2_State` from six values and every traffic |
| `AssertTimersProofs` | `TypeCorrect`, `CountdownNeverWraps` | for every byte size and every start without a zero byte |
| | `PS2OnlyCountsDown`, `LightsOnlyCountDown` | the steps behind `PS2Drains` and `LightsDrain`: without the source of a countdown it never goes up, torn accesses and bytes from the host included, and each report it runs for takes one |
| `PanelProofs` | `TypeCorrect`, `LightsAreTheHosts` | for every countdown, wiring and choice of maps |
| | `PadKeepsFollowing`, `LightsKeepFollowing` | the steps behind `PadFollows` and `LightsFollow`: what the pad and the lights show stays right while the player holds still, and each store and each input report makes it right |
| `ConfigProofs` | `TypeCorrect`, `SavesAreDurable`, `HeaderIsHealed`, `RepliesNeverInverted`, `SettingsAreDurable` | for every header and every byte the host writes; the last is the refinement of `DurableSettings` |
| `ConfigToolProofs` | `RoundTrip`, `TypeCorrect`, `MixedOnlyAfterFailure`, `ReopensSame`, `AppliesChoice` | all properties of the run `tool`, for both boards and every choice of entries, the custom map included |
| `FirmwareUpdateProofs` | `TypeCorrect`, `ReadsWhatFileMeans`, `UpdatedIsProgrammed`, `OnlyWholeFilesFlashed` | the safety properties of the run `update`, for every memory, block and code size, every set of files and any number of tries; but for lines across the last address (`WithinAddresses`), where the reader itself goes wrong |
| | `UpdateNeverTurnsBack`, `ToolWaitsForItsBoard` | the steps behind `UpdateEnds`: but for the turns of the loop that waits every step brings an update nearer to its end, and the tool waits only for a board that obeyed, or was unplugged |
| `USBDeviceProofs` | `TypeCorrect`, `ConfiguredHasEndpoints`, `RequestsAnswered`, `ReportsReallyArrive` | the safety properties of the run `usb`, for descriptors of every length and bus events at every step, with no exceptions but the two of `early` |
| | `MainLoopNeverTurnsBack`, `OnlyThreeLoopsAreDeaf` | the steps behind `MainLoopReturns`: no step of the main loop goes back, for descriptors of every length, and a pending request finds it waiting in no loop but the three of `Trapped` |

The invariants that carry them:

- **Rotary.** `TypeOK` with `DecoderInv` and `HeldDirection`. The lemmas about
  the table go through its 24 entries; `NoDrift` follows from what a sample does
  when at most one quarter step was made, and from the arithmetic of remainders
  in 16 bits (`AdvanceLemma`). One code moves the position by one tooth into the
  range from wherever it was (`MoveLemma`, `RangeLemma`), which gives
  `BackInRange`, and it is the direction that the digital output then shows, which
  gives `DirectionAgrees`. For `Dial`: a turn moves the reconstructed mark by one
  (`TurnLemma`, `MarkLemma`), and a sample leaves it where it is, because a code
  gives the position two marks that `Lag` then gives back (`ReadLemma`); the
  arithmetic is that of marks on a circle (`CircleLemma`). No invariant beyond
  `TypeOK` is needed, since the mapping is lost where the row is wrong.
- **Descriptors.** `WithinMaximum` needs `MaximumInv`: while the maximum counts as
  made from the tooth count in use, it is that count less one in a byte, and the
  count is not zero. The pointer that overwrites encoder 0 leaves the row alone,
  so the step lemmas of `Rotary` still apply.
- **PS2.** `PollAnswered` is not inductive: it says nothing of the byte that is
  on its way. `PollInv` says where the interrupt is with respect to the console
  (one behind while a byte waits, and then SPDR holds the reply that comes
  next); it holds from the first 01 because that byte resets `PS2_State` from
  anywhere. `ScanInv` keeps what is stored within one scan of the last; and
  `SinceInv` ties `PS2_State` to the bytes since a 01 until it wraps.
- **AssertTimers.** That the decrement does not wrap needs that what is read for
  it is not zero, though the word may change between the test, the two reads
  and the writes. `CheckInv`: what the test read is still there unless the
  interrupt stored `Reload`. `LoadInv`: from then on the word is not zero, and
  nor is any mix of a byte read before the interrupt and one after, because
  neither byte of `Reload` is zero. `StoreInv`: so what is written back has a
  high byte no larger than `Reload`'s. That a countdown only goes down is about
  what is left of it when the write under way is done (`PS2Left`,
  `LightsLeft`): half-written words may be larger than both the old and the new.
  `Steady` says that nobody else's access came between the main loop's, and the
  theorems that it stays so.
- **Panel.** `HostLightsKept` needs `CountingInv`: between the test of the
  countdown and its decrement the interrupt may clear it, and the decrement
  wraps to a running countdown, so the lights must be the host's although it is
  at zero. `PadStaysRight` adds to what the pad shows what `PS2_LoadData` has read
  and not yet stored (`Fresh`), and `LightsStayRight` to the lights what
  `CreateGenericHIDReport` has (`Released`): neither is stable without.
- **Config.** What each phase of a save has written so far, and that a save of
  the host's starts from a good header. Each step maps to one step of
  `DurableSettings` or to a stutter: the writes of single bytes are stutters.
- **ConfigTool.** `AppliedAsChosen` needs to know what the board holds in the
  middle of a round: `IInv` says that while no failure has spoilt it, the bytes
  sent so far are in the board's struct or the last of them in the endpoint, that
  the command's goal is what the dialog shows, and that the copies that are not
  mixed come from one struct built from controls. `RoundTrip`, that `InitDialog`
  undoes `BuildConfig`, gives `ReopensAsClosed`.
- **FirmwareUpdate.** `IInv` ties the reader to the reference line by line:
  `Reader` that the base is that of the lines read, as long as these are
  `WithinAddresses`, `Ready` that programming
  begins only with a whole file, `Written` that every block below the current one
  is in the flash, `Aligned` that blocks do not straddle, `Fresh` that a new read
  starts from nothing. The lemmas about `Meaning` say what one more line adds.
  `UpdateComesNearer` orders the phases (`Stage`), the second read after the wait
  below the wait, and counts lines and bytes within a phase (`Rest`);
  `WaitsForBoard` needs `Obeyed`: until the tool has sent its command it is going
  to, and a board that was sent it is resetting or a bootloader.
- **USBDevice.** `ConfiguredInv`: where the device has, or may come to have, its
  configuration, its endpoints are made or will be before `HID_Task` runs
  (`Endpointed`), and a SetConfiguration since the last reset is under way or
  done (`Requested`), for each place the handler may be in. The second needs
  `Current`: a handler that a reset overtook before it looked at its request
  finds none, since the host keeps silent until the main loop has come to a wait
  (`Hears`). `ServingInv`, unless the last request met a diverted report: the
  endpoint that the main loop selected is selected, or no request has come yet
  (`Selects`), a pending SETUP packet is the host's request and untouched unless
  a handler may still refuse it (`Pending`), what lies in the bank was made for
  the transfer (`Served`), and a handler about to acknowledge has its host
  waiting, if the host is heard (`Acknowledging`). A SETUP packet that finds no
  handler and no diverted report puts all of it right again, whatever the last
  one met. `Acknowledging` is what allows `GivenUp`: a host that gives up while
  the main loop waits disturbs nothing. `MainLoopComesNearer` ranks the places
  of the main loop (`Far`) and counts the packets of a stream, and
  `RequestsUnblock` needs `BankFree`: a SETUP packet empties the bank, and a
  handler that waits for the bank does not fill it again.

Only model-checked: the liveness properties (`SpinDown`, `PS2Drains`,
`LightsDrain`, `PadFollows`, `LightsFollow`, `UpdateEnds`, `MainLoopReturns`),
since fairness and ENABLED are out of the prover's reach. Their safety half is
proved: which steps make progress, that no step undoes it, and for the last two
what a wait can be for. `TypeOK` of `Panel` is the only type invariant that is
proved and not run; every property of the passing runs but these seven is proved.

## 5. What is not modelled

- The EEPROM's wear and the time a write takes; a cell's value while it is
  written, other than erased.
- `LoadInEEPROM` returns with interrupts off after a good load; `Rotary_Init`, the
  first function `SetupHardware` calls, turns them on, and nothing in between
  depends on them.
- The methods of driving lights other than `L_Direct`, of which only the
  setting exists: `LightsComm` has no reader on the board. That it never conflicts
  with the other settings is `MixedOnlyByFailure`.
- A write to SPDR while a byte is being shifted.
- The choice of the descriptor to return, and the requests GetStatus,
  ClearFeature and SetFeature: a halted endpoint and remote wake-up.
- What the descriptors, the tool's window and its controls for hold time,
  inversion, names and the custom map contain: further bytes of the same round.
- Which of the reader's variables lie in front of its arrays, where a line across
  the last address is stored: any of them may, or none. Result 4 of
  `Device_UpdateFirmware` when the tool has found no board and is not to wait: it
  always waits.
- A SetAddress to address 0 (`DeviceStandardReq.c:139`), which no host sends a
  device that it gives an address: `SetAddress` is the branch of another address.
- The turns of the waiting loops of `HID_Task`'s endpoint streams: a report is one
  step, at the end of its stream, and the host may be heard before it (`Diverted`).
  Nor the wait for more of an output report that is too short.
- The loader's variants for other systems: libusb and uhid send their reset
  command to another vendor, and the uhid variant does not compile.
- LUFA beyond what this firmware builds: the host side, other controllers, class
  drivers, serial and board drivers, and the project's templates. These are most
  of the repository's lines.

## 6. Plan

Done: the rotary encoders, the PS2 port, the countdowns, the panel, the settings,
the configuration tool, the firmware update, the USB device; the abstract store
and the abstract dial; proofs for all of them. Next, in this order:

1. `GetStatus`, `ClearFeature` and `SetFeature` in `USBDevice`.
2. An abstract control pipe (a request is answered, refused or given up) that
   `USBDevice` implements, and an abstract pad (a poll is answered with a scan)
   that `PS2` implements.

Runs for these are kept to one per component, with the bounds chosen as above:
the least that lets every branch be taken and every counter wrap.
