# Verification of the Ph2_ACF acquisition framework

TLA+ specifications of the data-acquisition framework in `src/Ph2_ACF`, the TLC
models that check them on small instances, and proofs that TLAPS checks for every
value of the constants. Paths below are relative to `src/Ph2_ACF` unless they name
a module of this directory.

1. [The system](#1-the-system)
2. [The modules and the code](#2-the-modules-and-the-code)
3. [The runs, their bounds and what they show](#3-the-runs)
4. [Fairness and other assumptions](#4-fairness-and-other-assumptions)
5. [What is proved](#5-what-is-proved)
6. [What was found](#6-what-was-found)
7. [What is not modelled](#7-what-is-not-modelled)
8. [Plan](#8-plan)
9. [How to run](#9-how-to-run)

## 1. The system

Ph2_ACF controls and reads out prototypes of a silicon tracker: front-end chips
(CBC, MPA, SSA) sit on modules, modules on a back-end FPGA board, and the software
speaks to the boards through registers (IPbus). A tool (calibration, noise scan,
data taking) configures chips, asks boards for events, decodes them and fills
histograms; raw data may go to a file at the same time.

    tool ── SystemController ── CbcInterface, MPA-, SSAInterface ──┐
                │   │    │                          ├── BeBoardFWInterface ── RegManager ── board
                │   │    └── BeBoardInterface ──────┘        │
                │   │           (setBoard)                   └── FileHandler ── writer thread ── .raw file
                │   └── FileParser ── boards, modules, chips (register files)
                └── Data ── asynchronous task ── events ── S-link payload

Tools run in one thread. Concurrency comes from the firmware, which runs while the
software polls it; from the FileHandler's writer thread; from the task that `Data`
gives to `std::async`; from the threads of the watchdog and of the FPGA upload; and
from the board's microcontroller at the other end of its pipe.

### Components

The machine-readable list, with every source file, is in `PROJECT.json`; "hazards"
there lists what is hard to test, at its line, and which property covers it.

| component | state | operations | what makes it right |
|---|---|---|---|
| **Raw data file writer** (`Utils/FileHandler`) | a queue, two mutexes, the flag `fFileIsOpened`, a thread, a stream | `set`, `writeFile`/`dequeue` (thread), `openFile`, `closeFile`, destructor | the file is a prefix of what was pushed, in order; closing waits for the thread and comes back; pushed blocks reach an open file |
| **CBC register path** (`CbcInterface`, `Cbc3Fc7FWInterface`) | the software's copy of each chip's registers, the words of a transaction, the replies, the retry counter | write one or several registers, configure a chip, broadcast, read one or all, hard reset | a success is true of the chip; the copy is wrong only where there was reason to doubt it; retries end |
| **D19C readout** (`D19cFWInterface`) | word counters, poll counters, configuration registers, the caller's vector | `Start`, `Stop`, `Pause`, `Resume`, `ReadData`, `ReadNEvents`, `ResetReadout` | callers get whole events, as many as reported, once, in order; file and callers agree; no attempt hangs |
| **Event delivery** (`SystemController`, `Data`, `BeBoardInterface`) | the selected board, one `Data` object, its future and event list, the task | `ReadData`, `ReadNEvents` (one board or all), `setData`, the getters, `Destroy` | a getter answers from the last read of the right board, cut at the right words; the tool and the task never share the list |
| **SRAM readout** (`GlibFWInterface`, `CtaFWInterface`) | `fNthAcq`, whose parity selects the memory, the firmware's own turn, the I2C words in the same memories | configure, start, stop, pause, `ReadData`, `ReadNEvents`, I2C with retries | blocks come in turn, events are new, every call comes back |
| **Packet readout and I2C of the IC boards** (`ICGlibFWInterface`, `ICFc7FWInterface`, `Cbc3Fc7FWInterface`) | packet size, events ready, the buffer, I2C command and reply FIFOs per module | tuning, run control, `ReadData`, `ReadNEvents`; writes, broadcasts and reads in chunks | a read has the events asked for; replies fit the reply buffer; a write that succeeded is true of the chip |
| **Set-up** (`SystemController`, `FileParser`, `HWDescription`, `RegManager`) | boards, modules, chips and their register maps; the boards' maps; files of registers | parse, `InitializeHw`, `ConfigureHw`, board writes, tools' writes, saving, `Destroy` | chips hold what the description says; a saved set-up can be loaded again; condition data are current |
| **MPA and SSA control** (`MPAInterface`, `SSAInterface`, the PS part of `D19cFWInterface`) | I2C FIFOs and master of the board, power, chips' registers and the copies | power on and off, register writes and reads, pixels, counters | a reply is taken by the call it belongs to; the counters give the curve |
| **FPGA configuration** (`CtaFpgaConfig`, `fpgaconfig`, `MmcPipeInterface`, `GlibFpgaConfig`) | upload thread, progress, the pipe's two FIFOs, the SD card, the flash | upload, download, delete, list, jump; MCS files to flash | an image in the card or the flash is the file's, or the failure is reported |
| **Watchdog** (`Utils/Watchdog`, `src/cbc3irrad.cc`) | thread, flag, condition variable, callback | start, reset, stop | it bites when, and only when, nobody reset it in time |
| **Event formats**, **S-link** (`Cbc2Event` … `GenericPayload`) | none | cutting, accessors, encoding | every accessor reads the chip's own words; all views agree; no bit of the payload lost |
| **Calibration, noise** (`Calibration`, `PedeNoise`) | the chips' offsets and thresholds, test groups, occupancies | bitwise searches, S-curve sweep, validation | the search finds what a full scan would; channels measured alone; curves complete |
| **Hybrid tests** (`HybridTester`, `ShortFinder`, `RegisterTester`, `AntennaTester`) | test patterns, hits, lists of pads | register, short, occupancy tests | only shorts that are there are reported |
| **Scans and sweeps** (`LatencyScan`, `PulseShape`, `SignalScan`, `SignalScanFit`, `BiasSweep`, `StubSweep`, `CMTester`) | loop counters of several widths, a run started and stopped per step | the loops | events counted at their setting, curves without holes, every scan ends |
| **AMC13**, **web monitor**, helpers, other executables, third-party code | – | thin layers, input and output | – |

### How they interact, and where it is hard

* *Software against firmware.* Reads count words, pop headers, count again and read
  blocks, while triggers are accepted and words arrive. Every count is stale when it
  is used. Two memories are filled in turn, and each side has its own idea of whose
  turn it is.
* *Positions for identities.* I2C replies carry no sequence number; they are matched
  with the words sent by their place in a vector. A lost or refused word shifts
  what follows; a word left in a FIFO is the next call's.
* *Recursive retries.* `WriteCbcBlockReg`, `ReadData` and `ReadNEvents` retry by
  calling themselves, sharing a counter or the caller's vector by reference; what
  the outer frames do after the inner one returned is easily overlooked.
* *Objects deleted under tasks.* Each read deletes the `Data` object and makes
  another; the task of the old one may be running.
* *Threads without a handshake.* `closeFile` lowers a flag and joins; the upload
  thread shares its progress with the caller; the watchdog lowers its flag before it
  calls back.
* *Modes that stick.* `ReadNEvents` reconfigures the readout and leaves it so; tools
  leave masks, thresholds and patterns in chips.
* *One register, several owners.* Eight channel masks, or a pulse and a multiplexer,
  share a register; settings, registers and globals of a description change bits of it
  in an order.
* *Counters of every width.* A `uint8_t` latency against an `int` bound, a wrapping
  threshold, 16-bit pixel counts.

## 2. The modules and the code

A component has a module with its state and one action per step; an `MC` module gives
values to constants and, where it `EXTENDS` several components, puts their programs
side by side under one `Next` (a variable `program` says which one runs). One `.cfg`
per run, and a `_proofs` module where theorems are proved. Every definition that models
code is tied to its lines by "map" in `PROJECT.json`. An operator named
`X_Something` before `X` is a faulty variant of `X`: a plausible bug (a dropped
guard, an off-by-one, a missing reset) used to make sure that the properties can fail.

| module | models | built on |
|---|---|---|
| `RawDataLog` | what a raw file promises | – |
| `FileHandler` | `Utils/FileHandler` in write mode | implements `RawDataLog` |
| `CbcRegisters` | `CbcInterface`, I2C of the CBC3FC7 | – |
| `D19cReadout` | reads of the D19C | – |
| `EventData` | `SystemController`'s reads, `Data`, `setBoard` | – |
| `SramReadout` | `GlibFWInterface`, `CtaFWInterface` | – |
| `PacketReadout`, `PacketI2c` | the boards with Imperial College firmware: reads, then I2C on the same boards | `PacketI2c` extends `PacketReadout` |
| `Calibration`, `PedeNoise` | the searches of `calibrate`, then its noise measurement on the same chips | `PedeNoise` extends `Calibration` |
| `MmcPipe`, `FpgaConfig` | the pipe and its transactions; the programs and threads that use it | `FpgaConfig` extends `MmcPipe` |
| `GlibFpgaConfig` | MCS files into the flash | – |
| `Watchdog` | `Utils/Watchdog` under `cbc3irrad` | – |
| `GenericPayload`, `EventFormats` | bit strings; events cut, read and written as S-link events | `EventFormats` extends `GenericPayload` |
| `HybridTests`, `ScanTools`, `SweepTools` | tests of hybrids; threshold and latency scans; bias, stub and common-mode sweeps | – |
| `RegisterFile`, `DescriptionParser`, `SystemSetUp` | chips' files; XML to objects; a session from `InitializeHw` to `Destroy` | each extends the one before |
| `PsChips`, `PsRegisters` | the interface board of MPA and SSA; the registers of those chips over the same FIFOs | `PsRegisters` extends `PsChips` |
| `MpaCounters` | the S-curve of `MPA_async_test` | – |
| `MpaLight` | the words of an MPA light: configuration, read-out, event | – |
| `MCPrograms` | composes `FpgaConfig`, `GlibFpgaConfig`, `Watchdog` | |
| `MCTools` | composes `HybridTests`, `ScanTools`, `SweepTools` | |
| `MCSetUp` | composes `SystemSetUp`, `PsRegisters`, `MpaCounters`; evaluates `MpaLight` | |

### `RawDataLog` and `FileHandler`

`RawDataLog` is what a file promises: accepted blocks reach it in order, each at
most once; the file may end early, and opening it again truncates it.

`FileHandler` is the class in write mode. Producers are the threads that call
`set` (lock, push and unlock, two steps). The writer's control point goes through
`writeFile` and `dequeue`: the loop test, taking the queue's mutex with the
(inverted) predicate of `wait_for`, the time-out, the pop, the members' mutex,
writing and flushing. An empty block makes `at(0)` throw in the thread, which ends
the process. The owner constructs, closes, deletes and reopens; `closeFile` is
three steps (lower the flag, join, close the stream), and the destructor's second
`closeFile` is modelled as the code has it. `Exit` is the end of the process at any
moment. A block is a model value; `buf` is what the stream has not flushed and
`disk` what would be found after a crash. `LogSpec` says that all this implements
`RawDataLog!Spec` under the mapping `stored <- disk`.

### `CbcRegisters`

Each call of `CbcInterface` that touches registers is an action that encodes the words
(`EncodeReg`); the board executes them one at a time (`FwWrite`, `FwRead`,
`FwBroadcast`), where a word may be taken, refused (an error flag in the reply) or
missed, and with `Lossy` a reply may be missing; then the software compares by position
(`CompareWord`), retries by recursion (`WriteAgain`, the counter shared by
reference), and returns (`WriteReturns`, `ReadReturns`, `BroadcastReturns`) or
exits after too many mismatches (`WriteThrows`). `Board` selects the comparison of the
CBC3FC7 (the one that is run) or of the D19C, which accepts everything. Chips and the
I2C manager of the FPGA are external: they are modelled from how the code uses them.
`outOfRange` records that replies were compared past the end of their vector, where the
code reads memory that is not its own; a result obtained that way is not "clean", and
the properties that speak of a result claim nothing about it.

### `D19cReadout`

The firmware is external: triggers are accepted while the state machine runs, a
trigger may leave no event (`LoseTrigger`), and the builder writes words into the
FIFO. What the source does not tell is a constant of a board: whether parts of
events show in `words_cnt` (`streamed`), and whether the builder waits for the
handshake (`holds`). The software is one step per register access. `ReadNEvents` is
`Configure`, then per event `NextEvent`, `PollWords`, `CheckFsm`, `ReadHeader`,
`WaitRest`, `ReadRest`, then `Save`; a failed attempt is `Fail` and `Retry`, with
`depth` for the frames of the recursion, all of which save the vector when they
return. `ReadData` is `WordsPresent`, `NothingYet`, the packages of the handshake
mode (`PackageRequested`, `CountPackage`, `ReadPackage`, `Restart`) or whatever is
there (`CountAvailable`, `ReadAvailable`), and the exit of the zero-suppressed board
without handshake (`ExitZS`). A word is its event and its place in it; reading
past the end of the FIFO gives `Underrun`.

### `EventData`

The controller has one `Data` object for all boards. A read deletes it
(`DeleteEvents` empties the list, whether or not the task still pushes into it; then the
members go, which waits for a started task and drops one left to the getter), makes
another, selects the board (`SetBoard`, which does nothing when the identifier is the
remembered one), reads (`Read`) and gives the block to a task (`Set`). `std::async` is
called without a policy, so the task is a thread or is left to the getter: both are
possible at every `Set`. The task runs the loop of `privateSet` word by word, for events of one
size and for zero-suppressed ones whose header gives the size, where the
unsigned `size - 1` of the initial size zero never equals an index. A header may hold a size
larger than the block. A getter without a valid future does not return to the tool, as in
the code.

### `SramReadout`

The firmware fills the two memories in turn, one `FillPacket` per block, raises
`SRAMn_full`, and takes a memory back after the pulse of `end_readout` (`Release`). The software
picks the memory by the parity of `fNthAcq` (`SelectDaqSRAM`): `ReadData` waits for it,
reads, pulses and counts on; `ReadNEvents` starts a run of its own, stops it and does not
pulse. On the GLIB, I2C uses the first memory, so a write of registers asks for it,
sends, retries and gives it back; the CTA has FIFOs for it and breaks the triggers. `spoilt`
records that a call has disturbed the blocks of its run (a read of events or GLIB I2C inside a run, a pause
with blocks left), which the block properties then leave alone.

### `PacketReadout` and `PacketI2c`

Configuration comes first, with the tuning of the clock and data lines that
the CBC3FC7 does by polling. IC boards give packets: `ReadNEvents` reprograms the packet size and
`Ncycle`, reads as many packets as it needs, and leaves the settings changed. The CBC3FC7
is read as words in a buffer (`BuildEvent` blocks when it is full). `PacketI2c` adds the calls for
registers on the same boards: a `Chunk` of commands at a time, the replies in
one queue per module, the comparison and the retry. Whether the board reads a word back is the bit `read` of the
word, set when it is encoded (`Answers`); how many replies the code expects and which it compares is the argument
`readback` (`Width`, `Compared`). A repetition sends the same words with the argument set, so the repetition of an
unverified write gets one reply a word where two are expected: half of the replies are compared, and the places beyond
them (`PastEnd`) with whatever is behind the vector, any of which may compare, or end the program (`WriteCrashes`).
As many as `TooMany` mismatches throw. A broadcast on a CBC3FC7 with two
modules reads only one of the queues; `clean` records that something was left in the other.

### `MmcPipe`, `FpgaConfig`, `GlibFpgaConfig`, `Watchdog`

An operation on the pipe is a list of steps, which two threads, the caller and the detached
uploader, carry out in turns with the microcontroller, which puts a reply in its FIFO word by word; looking at the fill
levels and using what was seen are separate steps. `Receive` compares the size of the payload with a level that still
counts the header it has taken, so up to two words may be read that have not come yet: those are any words, and the
late ones stay for the next who reads. `torn` records that this has happened, and `op.inStep` that it had not when the
operation was called. `FpgaConfig` is the guard of `BeBoardInterface`/`CtaFWInterface`
(`numUploadingFpga`, which nobody resets), the uploads, downloads, reboots and deletions. A download first lists the
names on the card; `runDownload` then starts the thread that reads the image twice, and a third time if the two differ. It counts as a
configuration under way only if the image is the first on the card, because of a `break` (section 6). `GlibFpgaConfig` goes record by record through a file: buffer, unlock, erase, program, lock, with a flash that may refuse.
`Watchdog` has the mutex, the condition variable and the callback as separate
steps; time is only whether the deadline has passed.

### `GenericPayload` and `EventFormats`

A word is the set of its bits that are 1. `append` and `insert` have the branches of the code, with
the shifts as x86-64 makes them. For each of five formats `SetEvent` cuts what the board sends into the
chips' words, the accessors read channels, clusters, stubs, pipeline addresses and errors each in their own
way, and `GetSLinkEvent` writes the payload chip by chip in the order of the code.

### `Calibration` and `PedeNoise`

A channel fires in all, half or none of the events as its level lies above, at or below a point. The
tools are then exact algorithms over occupancies: the bitwise search for a threshold and for the
offsets, group by group with the others off; the search for the pedestal and the sweep up and down
from it; and the validation that masks channels. Every chip type and mode is an initial state.

### `HybridTests`, `ScanTools`, `SweepTools`

A hybrid is its wires between pads; `HybridTests` writes the two patterns, pulses group after group, pairs the pads
and reports. `ScanTools` is one loop per tool, with the counter's width, run control around each
setting, and a board that stores events. `SweepTools` is what the irradiation test does to registers that other
settings share, and the common-mode histograms. Each is run as one of the programs of `MCTools`.

### `RegisterFile`, `DescriptionParser`, `SystemSetUp`

A file is a sequence of lines; loading and saving are by name, and by page and address. The parser works on records of nodes and keeps the
code's way of walking from the first child with a tag over all its siblings. `SystemSetUp` makes boards and files,
computes the steps of `ConfigureHw` and does them one by one, with alignment attempts and the power of DIO5 cards, then lets a
tool write registers of boards and chips, take events with condition data, save, configure again and
close; a second session gets the saved files.

### `PsChips`, `PsRegisters`, `MpaCounters`, `MpaLight`

The power utilities are lists of steps over a pair of I2C FIFOs and a master that is turned
over between the chips and the interface board. `PsRegisters` adds what programs ask of
the chips: the calls of `MPAInterface` and `SSAInterface`, encoded, sent, polled and decoded, with the board's table of chip addresses. Programs run
one after the other in any order and may be stopped at any step, with what they left in the FIFOs. `MpaCounters`
is the threshold scan of the counters, with the shutter and the fast commands of each point and read-outs that come late.

`MpaLight` has no state: operators for the fields of the configuration words, the counters and the memory of a read-out, and the
cutting of an event. `MCSetUp` states as assumptions, which its runs evaluate, that changing a configuration by what its own
file says changes nothing, that hits come back out of the memory, that the counters come back in their order, and that every chip has its own part of an
event (of the interleaved offset pages `MPAlightEvent` takes the first half for the beam's, as the code does).

## 3. The runs

| run | instance | shows |
|---|---|---|
| `filehandler` | 2 producers, 2 blocks and the empty one, 3 calls of `set` | under every interleaving with closing, deleting, reopening and the end of the process the handler refines `RawDataLog`; under fairness blocks reach an open file and `closeFile` returns |
| `cbc` | 2 chips, a register and a fuse, a request that names a register twice, 1 retry, exit after 2 errors, replies may be missing | a verified success is true of the chip and of the copy; the copy is trusted wherever nothing spoke against it; every call comes back |
| `readout` | four boards (parts of events visible; whole events; zero-suppressed with and without handshake), events of 2 words, requests for 1 and 2, FIFO of 4, 16 events, 1 lost trigger, 2 restarts, 2 calls | reads are exact up to the first read past the end of the FIFO, words come once and in order, file and callers agree, no attempt hangs on a board with the handshake |
| `eventdata` | a zero-suppressed board (events of 2 or 3 words) and one of fixed size 2, blocks of up to 3 events, 3 reads | answers from the last read of the right board, exact cuts, the one-fetch discipline is sufficient, every call comes back |
| `sram` | GLIB and CTA, blocks of 2 events, requests for 1 and 2, 7 blocks per run, 2 write attempts, 6 calls | `ReadData` gives the blocks in turn with their number of events; `ReadNEvents` gives new ones; every call comes back |
| `packets` | three boards, 2 modules, 2 chips, packets of at most 3, requests for 2 and 5, buffer of 10 words, replies for 6 words, 2 repetitions of a write, 3 mismatches throw, 3 failures, 2 calls | the right number of whole new events; replies fit what is compared; a register that a write does not reach has failed as often as the repetitions can repair, and the write is not called good; every call comes back |
| `noise` | 2 chips, 2 channels in 2 groups, offsets of 2 bits, thresholds of 3, three points, every chip type and mode | the bitwise search finds what a scan of all values would; channels are measured alone; S-curves are complete |
| `programs` | pipe of 5 words, replies word by word, 2 images of 4 words, 2 faults, 3 calls; MCS files of 3, 5 and 9 records, 2 flash faults; 2 resets of a watchdog | images and flash hold what they were given, transfers fit the FIFOs, the watchdog bites in time |
| `formats` | five formats, four layouts of modules and chips, contents on both sides of every word limit, all S-link modes | chips get their own words, all accessors agree, the S-link event reads as the event |
| `tools` | hybrids of 2 chips with 3 pads, up to 3 wires, 3 groups; thresholds to 15, coarse steps of 4, bytes of 8; 2 chips in sweeps | only real shorts are reported, curves are whole, events are counted at their setting, stubs are read with only their pair, scans end |
| `setup` | fourteen descriptions, 2 sessions, 2 configurations, 2 changes; 3 programs on the PS board with 2 chips of which 1 is in the address table; 4 thresholds | chips are configured as described and the same again from saved files; condition data are current; replies belong to their call; the counters give the curve |
| `setup_chips` | one description: two CBCs on a module, settings at the first | *violation*: the second chip is configured with the settings of the first |

`CHECK_DEADLOCK FALSE` is set everywhere because each of these systems may really
stop: a tool stops calling, an object is deleted, a program ends or exits.

### Why the bounds are enough

* *FileHandler.* A violation of the order needs two blocks from two producers; a
  block left in hand while another is queued and one in the stream's buffer needs
  three. The empty block and the crash can come at every place among them. The
  theorems hold for every number.
* *CbcRegisters.* A shift of positions needs two words in a transaction; a wrong
  chip needs two chips; a value set twice needs two values and a
  request that names a register twice. One retry separates the first
  activation from the recursive one; the fuse is the register that never reads back.
* *D19cReadout.* Two words per event separate header and rest. Requests for one and two events and
  packages of none, one and two distinguish the loop counters. Two polls before the state machine is
  asked make the poll counter both hit and miss; two restarts give an outer, a
  middle and an inner frame. `MaxEvents`, where the builder stops as if no trigger came, is above what two calls can
  ask for. A larger instance (events of 3 words, FIFO of 6) was checked for the safety properties when they
  were first stated; the theorems cover every size.
* *EventData.* Three events in a block give a first, a middle and a last; sizes 2 and
  3 make a wrong boundary visible; three reads let an object's task meet the next
  two objects; two boards of different type show a stale route.
* *SramReadout.* Parity has period two, so seven blocks and six calls pass each memory three times, with
  starts, stops and pauses at either parity.
* *Packets.* A request above and one below the packet size, not divisible by it; a list of registers that takes two chunks of replies and
  one that takes one; failures in one, in two and in all three attempts, with and without read-back, on one register or several.
  The buffer takes the three words of the long list with read-back, whose failures then are `TooMany`.
* *Noise.* Two bits have a top bit and a last one; a group of one channel and another group show
  whether the others are off; points at and beyond the ends of the range leave no
  crossing to find.
* *Programs.* The image is not a multiple of what the pipe holds; three calls are one that tears a reply, one that meets its late words and one
  after that; files that end inside the first block, reach the second
  and run past the area; one fault may be retried, two may coincide.
* *Formats.* Channels at both sides of each 32-bit word; clusters of width 1, several and the maximum; boards with
  missing first modules and missing chips, where offsets by index and by identifier differ.
* *Tools.* Wires within a chip, across chips, within a group and between groups; up to three on the same pads; a ground.
  Scan counters of 8 values wrap as 256 do: starts and ranges reach, meet and pass the end.
* *SetUp.* Every kind of node, each setting, each order of precedence and every way of failing in the parser
  occurs in a description. Time-outs of the PS chips' calls and of the counters' poll may come at any time, so no number of polls is
  needed there (50 in the code).

The constants named `Max…` bound counters that the code leaves open; they stand in guards.

## 4. Fairness and other assumptions

Only what the code's scheduling gives is assumed, and only the liveness properties
use it.

* *FileHandler.* The writer thread, a call of the owner under way, and a producer
  inside `set` go on (weak fairness: the operating system runs threads that can
  run, and `wait_for` has a time-out). Nobody is obliged to call anything.
* *CbcRegisters.* The host goes on, and so does the I2C manager of the board. That a
  word is ever accepted is not assumed: the retry limit ends the call.
* *D19cReadout.* A call under way goes on, a running state machine gets triggers, a
  builder with room completes its event. `ReadData` with `pWait` waits for ever
  on a stopped board, by design: `CallReturns` asks for triggers without limit in that
  case.
* *EventData.* A call under way and a task that has been started go on.
* *SramReadout.* A read and an I2C call under way go on; the firmware acknowledges a start, fills a memory
  that is free while triggers come, and releases one that was read.
* *PacketReadout, PacketI2c.* Triggers come, the builder builds where there is room, a call of either kind goes on.
* *ScanTools.* Triggers come and the tool goes on. `Ends` claims nothing of ranges that do not fit
  their counter (see below).
* *Noise, programs, formats, setup.* Safety only, so no fairness.

What the source does not say of firmware and hardware is assumed where a module's header says *external*, and
in these points:

* `SramReadout`: taking `PC_config_ok` away empties the memories and begins with the first. `spoilt` marks a run in which a
  call used the memories otherwise (a read of events or GLIB I2C inside the run, a resumed run with blocks left): the
  block properties speak of the others.
* `PacketI2c`: replies are there when the software has slept for them. Zero replies make the CBC3FC7 code exit.
* `MmcPipe`: what is read of a FIFO beyond its end is any word, and a word that comes later is still in the FIFO. A word that is no
  number counts, taken for a size, as larger than the FIFO, and, taken for an error flag, as an error.
  A reboot takes longer than a poll of the link.
* `FpgaConfig`: the caller waits for the end of a download and does not reboot a D19C during an upload (no program here does).
* `PsRegisters`: the firmware executes a command and answers it in one go.
* `HybridTests`, `Calibration`, `SweepTools`: writes reach the chip. `CbcRegisters` and `PacketI2c` have what happens when they do not;
  the tools ignore the results of writes.

## 5. What is proved

The theorems hold for every value of the constants that the named assumptions of
the modules allow. Those assumptions only say that constants are of their
kind (the holder of no mutex is no producer; limits are naturals; an event has at
least two words; a broken header names a size larger than any block), with a few that say what the code relies on:

* `D19cReadout!PackageAssumption`: the firmware of a zero-suppressed board with handshake waits for it. `ReadData` takes a package to
  be `packet_nbr + 1` events whatever `words_cnt` says.
* `PacketAssumption`: a buffer holds the events of one request. `I2cAssumption`: chips are numbered from 1 and there is a finite number of them, at
  least one; the reply buffer has room for the replies of all of them to one command.
* `GlibAssumption`: the areas of the flash do not overlap, a block is a whole number of buffers.
* `ScanAssumption`: thresholds and a coarse step fit the 16 bits of the counter (0x3FF + 10 in the code).
* `SweepAssumption`: a test group has at least two pairs (16 in the code).
* `MmcAssumption`: the card holds a finite number of images whose list fits the pipe (a list that does not never ends, see section 6); an image has more
  words than there are per cents of progress.
* `RegistersAssumption`: a program is a sequence of calls; registers have 16-bit addresses and the list of names is that of the map.
* `CountersAssumption`: the thresholds begin at 0 and have no gap.

No theorem has another hypothesis: `ImagesAreRight` and `TransfersAlwaysFit` hold for replies that come word by word, and `WritesAlwaysHeal` for any
number of failures. What the properties themselves leave out is in their statements: `TransfersFit` speaks of the time before a reply was
read in part (`torn`), and of that read itself; `ImagesRight` of operations that were called before; `WritesHeal` of queues in which no
broadcast has left replies (`clean`), and of calls that did not throw.

| module | theorem | says |
|---|---|---|
| `FileHandler_proofs` | `TypeCorrect`, `Invariance` | `TypeOK` and the inductive `IInv` hold always |
| | `FileIsPrefix`, `NothingLostOnTheWay` | the file is a prefix of what was pushed; until the stream is closed every block is in exactly one place |
| | `QueueMutualExclusion`, `SafePop`, `SafeClose` | push and pop exclude each other, no pop of an empty queue, no close before the join |
| | `Refinement` | `Spec => LogSpec`: the detailed handler implements the log |
| `CbcRegisters_proofs` | `TypeCorrect` | types |
| | `VerifiedWriteHolds`, `CopyIsTrusted`, `RecursionBounded` | `VerifiedWrite`, `CopyTrusted` of the run `cbc`, and the bound of the recursion |
| `D19cReadout_proofs` | `Invariance`, `TypeCorrect` | the inductive `IInv` |
| | `DeliveryInOrder` | `OnceInOrder`, for every mix of boards, calls, losses and restarts |
| | `FileHoldsWhatCallersGot` | `SavedIsReturned` |
| | `DeliveryInvariance`, `DeliveryOfWholeEvents` | the inductive `DeliveryInv`, and `Delivered`: whole events, as many as reported, for every event size |
| `EventData_proofs` | `Invariance` | the inductive `IInv` |
| | `DisciplinedToolsAreSafe` | `DisciplineSuffices` |
| | `AnswersTheLastRead` | the part of `Fetched` that says which block and which board |
| | `EventsInvariance`, `EventsAreWhole` | the inductive `EventInv`, and `Fetched`: the events cut from a block are those the board sent, for any boards, number and sizes of events and broken headers |
| `SramReadout_proofs` | `Invariance`, `TypeCorrect` | the inductive `IInv` |
| | `ReadsInTurn`, `ReadsFreshEvents` | `BlocksInTurn` and `EventsAreFresh`, for both boards, any packet size, number of blocks, retries and calls |
| `PacketReadout_proofs` | `PacketInvariance` | the inductive `PacketInv`, with the I2C calls in between |
| | `NEventsAreRight` | `NEventsRight`, for any modules, packet limits, words per event and depth of the buffer that holds a request |
| | `NothingIsMadeUp` | no call reads beyond what the firmware has written |
| | `TransactionsRight` | the inductive `OrderInv` of the register transactions |
| | `RepliesAlwaysFit` | `RepliesFit`, for any chips, queues, lists of registers and size of the buffer |
| | `WritesAlwaysHeal` | `WritesHeal`, for the same and any number of failures and repetitions |
| `Programs_proofs` | `FlashIsRight` | `FlashRight`, for every layout of the flash, size of a buffer, file and number of faults |
| | `WatchdogBitesInTime` | `BitesInTime`, for any number of resets |
| | `TransfersAlwaysFit` | `TransfersFit`, for any size of the pipe and of the images, any number of calls and faults, and replies that come word by word |
| | `ImagesAreRight` | `ImagesRight`, for the same |
| `Tools_proofs` | `EventsAtTheirSetting` | `EventsAtSetting`, for every scan, range and depth of the board's memory |
| | `CurveIsComplete` | `CurveComplete`, for every range, coarse step and curve, and whatever `cDoubleVcth` holds |
| | `OnlyThePairIsOut` | `OnlyThePair`, for any number of chips, groups and pairs and any width of a mask |
| | `GroupsAreAlone` | `MeasuredAlone`, for any chips, channels, groups, points and limits |
| | `CurveIsKept` | the action property `CurveKept`, for any hits, thresholds and time-outs |
| | `OwnReplies` | `RepliesAreTheirs`, for any chips, address table and programs |

The invariants that only these theorems state (`TypeOK`, `IInv`, `Conservation`, `QueueExclusive`, `CloseAfterJoin`,
`RetryBounded` and others) are in the modules next to the properties; the runs check the properties
that follow from them.

### The arguments

*FileHandler.* `DiskIsPrefix` is not inductive: to append the stream's buffer to the
file one has to know that the buffer is what comes next. `Conservation` says so
(`accepted = disk \o buf \o InHand \o fQueue`), and needs in turn that one thread
touches the queue at a time (`MutexInv`: who holds which mutex, from the control
points), that the writer has gone when the stream closes (`ThreadInv`), and that a
failed, closed or reopened stream holds nothing unflushed (`StreamInv`). The
refinement adds that every step of `FileHandler` is a step of the log or leaves it
alone: a push is `Accept`, a flush or a spill of the buffer is `Store`, closing and the end of the
process are `End`, reopening is `Truncate`.

*CbcRegisters.* Success is read off the replies, so the invariant (`IInv` of the proofs module) ties
replies to the chip while a call is under way. A word yields at most two replies, so
if the vector has its full length none is missing and every second one is what the
chip still holds for the register it answers for, unless a later word names that
register again (`WriteInv`). A comparison that found nothing wrong and read nothing out of
range had a reply for every word, hence all of them (`CompareInv`). Reads have the same
with one reply per word (`ReadInv`). Every register that the call in progress may
change is suspect from its beginning (`CallInv`), and leaves the set only with a
verified success or an answered read.

*D19cReadout.* `OnceInOrder` speaks of words already returned. The invariant carries
the whole way: what was returned, what the call has taken, the header it holds and
the FIFO follow each other in the firmware's order, and all of it comes before the
next word the builder will write (`StreamInv`). Clearing the FIFO and dropping an
attempt only remove from that sequence. Which calls may be at which point
(`CallInv`) and that whole-event builders never stop inside one (`BuildInv`) make it
inductive; `SaveInv` relates file and callers, with the vector of a call that is
about to return counted apart.

*EventData.* A task that is not done has a future nobody took (`FutureInv`); a disciplined tool
took it before the next deletion, so the task is done. The selected interface is that of the
remembered board, and a block on its way is the newest (`RouteInv`). That the events are cut where they begin and end needs to know at each word
how far the loop is: after `e` events and `p` words of the next the list has the first `e` events, `lvec` the `p` words,
`cWordIndex` is the length of `e` events plus `p`, and on a zero-suppressed board the event's own index and size agree with its header (`CutAt`).
The block is a concatenation of events of any sizes (`FlattenSeq`): lemma `Places` says where in it the words of each event are, and `Sums` that
with one size the multiples of it are the ends. A broken header names more words than any block has (`Broken`), and ends the loop with the events before it.

*D19cReadout, `Delivered`.* What is held and what is in the FIFO form one sequence; while no read has gone past the end it
is *in place*: word number `EventSize * q + r` is word `r` of its event (`InPlace`, `Continues`), from a header on wherever the code goes on
reading (`PlaceInv`). The counts follow: what the code counted is still there when it reads (`CountInv`), packages of a
builder that waits hold the events the handshake promised (`HoldInv`), and the caller's vector has a whole number of events at the points
where the loop tests it. `PackageAssumption` is needed here: a zero-suppressed board with the handshake does not build on after a package.

*SramReadout.* `IInv` says where the two sides stand to each other in a run: the firmware's turn is the parity of
the blocks filled, the software's that of `fNthAcq`, the difference is 0, 1 or 2, and it tells which memories are full and with which block
(`StreamOK`); `fNthAcq` is one ahead of the blocks taken exactly while the pulse is out (`ReleaseOK`). Only the block after a pause may be
incomplete, and only on the CTA. `RunOK` and `EventsOK` say the same of the runs that `ReadNEvents` starts.

*PacketReadout.* The software never takes more than it has seen (`BufferOK`). On IC boards the packets of a call follow one another
and their number counts down (`PacketsOK`). On the CBC3FC7 the buffer begins with the first event of the call, and a generator that
is alone has triggered what is there and still has to trigger the rest (`EventsOK`, in multiples of the event's words).

*PacketI2c.* `OrderInv`. The replies of a chunk are a function of its length (`RepliesOf`): `Answers` of them for each chip and register, never
more than the `Width` that are expected, so that a chunk of `cM`
commands never fills more than the buffer. A call to one chip is one chunk (`AtOnce`, `Sending`), hence the replies are all
there and in the places of its registers; the number expected is the number that comes except when unverified words are repeated (`AllThere`), and
then a reply that is right means a register that is right (`Replied`). The registers to
write again are those of the wrong replies (`get_mismatches`), so those that are not written again have their value and keep it, and
a register without it has failed once in each attempt so far (`Attempted`, `Failures`). Of an unverified write this goes as far as the first
repetition, whose comparison may leave a failed register out: it has failed twice by then, and the result is that of the
first attempt, which was not good.

*GlibFpgaConfig.* While a file is read the invariant is `Begins`, or `UploadOK(e, a)` for an extended-address record `e` and a data record
`a` of it: what is read so far, what waits in the buffer, where in the flash the rest went (`InPlace`), which commands are
pending and in which order (`CommandsOK`), and which blocks are unlocked (`LocksOK`). The arithmetic is that of the file's layout: two
extended records to a block, buffers that divide them (`GlibAssumption`; an extended record has data, `Ela > 0`).

*Watchdog.* `DogInv`: who holds the mutex at which point, that the deadline has passed and cannot move while the thread holds the
mutex to bite, and that a joined thread has ended.

*FpgaConfig.* `SdInv`. One thread has steps to do at a time (`Turn`): a caller that is refused has none, and nothing is called during
a download. For the thread at work, `Coming` is what is in the FIFO of a reply and what has still to come of it, and `Place` says what is in the two FIFOs at each kind of step: a command the microcontroller has still to take,
or its reply, as far as it was received, and nothing besides; what was seen of a fill level can only have changed to the safe side
since. `Storing` says how far an image has got: the words in the FIFO follow those that are stored. `Uploads` and `OnTheCard`
follow the steps of an upload, so the image is in the card's memory (`InMemory`) from the last good reply on, and stays there while the thread reboots (`Booting`,
`Booted`), because nothing deletes it any more. `Fetches` counts the reads a download has made by the steps it has left, which gives `FileRight`.
`Closing` says that the texts of a reply come only at the end of an operation, so that a step that reads one in part is the last, or that before
a download starts (`TornThere`). All this holds until then; for the rest of that operation, `Behind` takes over (`FpgaInv`): an
upload has ended or its thread is about to end the program, and the image stays where it was; a download that is still started finds the late words of the list, which
are no zero, in the place of its first reply (`Jammed`), takes them for an error and writes no file.

*PedeNoise.* `AloneInv`: from the choice of a group to its end the offsets of all other channels are `Off` (`OthersOff`), and the stub logic is off from
`Initialise` to the end of a tool (`StubOff`); a sweep of all channels at once has the group −1, to which all belong.

*ScanTools.* `EventsInv`: the board runs only between the start and the stop of a setting, so what is stored when it
is read was taken at the setting of the bin. `CurveInv` follows a search by its distance from the start (`Position`; the counter wraps
round when it counts down, which is why `cMaxVcth + Coarse < Word`). The coarse search stands at multiples of
its step and has left out one value at most, the one `cDoubleVcth` happens to hold, so two steps back there were no hits; the
fine one has filled exactly the hits it has passed and the one it came from, and cannot have counted more thresholds with all firing than it passed.

*SweepTools.* `StubInv`: all masks are empty but that of the pair under way, which is the original's again afterwards. The
lemmas behind it say that a pair's register exists and that a group's pairs are the first ones.

*MpaCounters.* `KeptInv`: the thresholds before `ith` are read and the others are not; the repeats of a point are at most the read-outs in a row that
gave nothing, and a point is repeated only after one with many hits.

*PsRegisters.* `RepliesInv`: a utility turns the master over and resets the FIFOs before it sends, so from its first command on they
hold its one command or the reply to it (`OwnFifos`). A call that waits has the rest of its commands in one FIFO, and in the other the replies to
all the others, or none at all if the chip does not answer (`CallFifos`); nobody else uses them meanwhile.

### Only model-checked

* Liveness (`CallReturns`, `Ends`, `EventuallyStored`, `CloseReturns`), which is outside the prover.
* `SearchIsExact` (`Calibration`): the bits of a value are powers of two, of which the provers know nothing. `SCurveComplete` (`PedeNoise`) has
  the range `2^VcthBits` as well, and is exact only for the few channels and the one board of the instance: with more channels a point with
  98 % of the hits counts as one with all.
* `ShortsReported` (`HybridTests`): folds whose accumulator holds the lists that are still to be searched.
* `ChipsAreOwn`, `ViewsAgree`, `SLinkReads` (`EventFormats`): what the decoders select and concatenate from a whole buffer. `ChipsAsDescribed`, `Reproduced`,
  `ConditionsCurrent`: the parser recurses over its nodes.

Induction is not available as a theorem about every formula. Where a lemma here needs one over the naturals (`EventData_proofs`,
`PacketReadout_proofs`), it is for a *set* of them: lemma `Naturals` says that a set with 0 and every successor has all naturals, and follows
from the well-foundedness of inclusion of finite sets (`Least`). It reaches a recursive function, as that of `FlattenSeq`, by sets of
indices. It does not reach RECURSIVE operators.

The violation run is a counterexample, not a theorem.

## 6. What was found

A run ends in the violation of one property:

* `setup_chips`: `parseCbcSettings` takes `pModuleNode.child ("CBC")`, the first CBC node, for every chip of the
  module (`System/FileParser.cc:420`): settings of any other chip are never read. The run `setup` uses
  descriptions in which only first chips have settings.

Seen while modelling, kept in the models as the code has it, and left out of the premises of
the properties they would break. Paths are in `HWInterface/`, `Utils/`, `tools/` or `src/` as the name tells.

*Raw data file.* The predicate of `wait_for` is inverted (`FileHandler.cc:253`), so the writer polls; harmless for the
data. The flag is raised although the stream failed to open (`114`). Blocks still queued at `closeFile` never reach
the file: only a suffix is lost (`120-128`). A block of no words makes the thread throw (`243`). Reopening truncates,
and has no thread. Not in the model: `rewind` locks the mutex twice (`FileHandler.h:125-129`), `readFile`
returns one word too many at the end (`157-162`).

*CBC path.* The result of the retry is dropped (`Cbc3Fc7FWInterface.cc:685`): a repaired write reports failure and leaves the copy
stale. The comparison of the D19C accepts everything (`D19cFWInterface.cc:1512`), so every D19C write succeeds, also after a time-out.
With missing replies the comparison reads past the end of the vector (`Cbc3Fc7FWInterface.cc:656-668`). The success of a
broadcast is that of the last reply (`712-724`). `ReadCbc` stores values by position under names (`CbcInterface.cc:139-148`).

*D19C readout.* Every frame of the recursion saves the same vector (`D19cFWInterface.cc:1094`). The count of words
includes the popped header (`1064`). `ReadNEvents` leaves the handshake off and the package size zero (`1015-1016`), after which the
zero-suppressed `ReadData` exits; its recursion drops its `pWait` (`1090`). A header of size zero makes the wait endless
(`1064`). A package that never is a multiple of the event size restarts without limit. A board that shows parts of events may, after
a read past the end, wait for a word already taken.

*Event delivery.* Reading all boards leaves only the last board's events reachable. `GetNextEvent` can only ever give the first
event (`Data.h:141`). `MPA_sync_test.cc:108` fetches without having read.

*SRAM boards.* `ReadNEvents` counts on without the pulse, and `Start` sets the count to zero. GLIB's `Stop` clears one
`end_readout` only, `DecodeReg` loses the module. On the CTA the acknowledgment is looked for once with `pWait` false, broadcasts always return false,
the board information is tested with `||`.

*IC and CBC3FC7 boards.* The IC `ReadData` without waiting always returns 0. `Ncycle` and the packet size stay changed after
`ReadNEvents`; above 2000 events, not divisible, it returns more than asked while `Data::Set` is told the number asked (2800 for
2700). `nword_all` against `nword_events` may read part of an event. One state and counter of the tuning serve all modules, and its
`exit(1)` leaves register 0x12 of the chips changed. A broadcast on two modules leaves replies in the
second queue. The repetition of an unverified write sends words whose read bit is 0 with read-back expected
(`ICFc7FWInterface.cc:571`, `ICGlibFWInterface.cc:568`, `Cbc3Fc7FWInterface.cc:685`): half of the single replies are compared and then what is
behind them (`ICFc7FWInterface.cc:539-542`), so a register that failed twice may stay unwritten, or the read may end the program; only the dropped result of the retry
keeps the write from being called good. A broadcast in chunks keeps only the last chunk's replies and flag. `SCurve` edges are measured twice. The generator counts on through a pause.

*FPGA, flash, watchdog.* `numUploadingFpga` is never reset, so every later operation is refused. `fpgaconfig` exits at progress 100, before the reboot.
`runDownload` has a `break` outside its `if`, so only the first name on the card is compared. `D19cFWInterface::RebootBoard` does not check for an upload. Exceptions (of strings) in
the detached threads end the process. `Receive` compares the size of a payload with a level that counts the two header words it has just
read (`MmcPipeInterface.cc:112-120`): of a reply that is still coming up to two words may be read too early, and the late ones are
taken for the next reply's header; an upload or download called after that may do anything. Here it hits the texts only (errors, the name of the
image, the list): the other replies have no payload. A list of more than 63 images never returns. `FileToSD` writes its header without
looking; `EnterSecureMode("")` sends `SetTextSpace`. On the GLIB the last block is never locked, an `ELA` beyond the area wraps, a buffer crosses
an `ELA` when records are not contiguous. A shortened `Reset()` is noticed only when the old wait ends; `Stop()` after a time-out never joins, and `Start()` after one ends
the process; the flag is lowered before the callback (`Watchdog.cc:48`), which runs with the mutex held.

*Calibration and noise.* With group −1 `PedeNoise` turns the test pulse off for all chips (`PedeNoise.cc:268`). With two boards
`bitwiseOffset` runs its loop of bits once per board, `measureSCurves` changes the value per board, hit counters accumulate, and the `break` of `findPedestal` ends the search for
all. `setThresholdtoNSigma` wraps at 16 bits. Calibrating without the Vplus step leaves stale offsets. Stub logic is
on again after the first sweep.

*Formats.* A second module's S-link header is misplaced (`D19cCbc3Event.cc:747`). The zero-suppressed format decodes a second module one
word off (`D19cCbc3EventZS.cc:134`) and counts overlapping clusters twice. `DataBit(254)` is accepted; channels 126 to 189 shift by 32 or more (undefined), `append` by 64.
`Cbc2` takes a cluster's first strip as strip/2, the zero-suppressed one as the channel. MPA rows of stubs are always 0, and the MPA's S-link, stub, bit and
hit accessors are CBC code on MPA words. The checksum covers `sizeof(&vector)`. Unequal numbers of chips (`Cbc2`) and a second module (`Cbc3`) read past the event.

*Hybrid tests.* Register patterns stay in the chips (`HybridTester.cc:709-713`). Shorts are told by group, so two between the same groups are mispaired, two pads of one
group depend on the order, pads 100 or more apart are never paired. A second board overwrites the lists. `FindShorts` does not put threshold and latency back; with `--calibrate` the
occupancy is measured after that. The last pad is never classified, bins are listed for pads.

*Scans and sweeps.* `cDoubleVcth` is uninitialised; the search wraps when noise begins in the first two coarse steps. `ScanStubLatency`
never ends if start + range > 255, `ScanLatency2D` if > 256; the former's event number is shared and its result ignores the start, the
latter's counts are cumulative and its optimum leaves the last bins out. `ScanLatency`'s number of events is uninitialised there. `SignalScan` counts leftover events; an exception in
`SignalScanFit` returns without `Stop`. `cStubs[0]` is read from an empty vector. `PulseShape` only uses the first module, and 0x3F as the limit on a CBC3. The test pulse is never
disabled after `StubSweep` (`StubSweep.cc:110`, `249`). `BiasSweep` does not take the last value; an instrument that fails leaves the DAQ started. `CMTester` takes bin −1 for noisy and the last strip never; its masks are those of the first chip.
`cHoleMode`, `cCheck` are uninitialised without the setting.

*Set-up.* The board's identifier is always 0 in `parseHWxml`. `Global` nodes after chips are parsed as chips, as are siblings of another kind. More than 16 chips on a GLIB give an event size of 0. `ConfigureBoard`
resets `fNCbc` but not `fNMPA`, `fNSSA`; `ConfigureHw` ignores the results of `ConfigureCbc`; the line that would enable the phase tuning again is
commented out (`D19cFWInterface.cc:744`). `ReadBoardReg` adds registers to the map. A raw name without `.raw` gives all boards one file; saved files are named by
module and chip only; comments after the last register are lost. `Destroy` leaks the file handlers. `WriteStackReg` never counts its errors.

*MPA and SSA.* `PowerOff` clears DAC channels 0x36, 0x32, 0x30, 0x34 where `PowerOn` set 0x33, 0x31, 0x35, 0x36, and leaves the master until `MainPowerOff`. `SendI2CCommand` waits for
ever. `ReadMPAReg`, `ReadMPAMultReg`, `ReadSSAReg` index past the vector after a time-out (any value in the model); `ReadMPA` stops there. A write without read-back
returns before it is executed, and the next call's reset of the FIFOs may drop it. `fI2CVersion` ≥ 1 broadcasts use the old format. The read-out of counters takes the ready flag before the
start, gives zeros after 50 polls and wraps 0 − 1 to 65535; a repeat does not clear the counters, and a fifth repeat stores zeros at the threshold before.
`Pix_Smode` shadows `smodewrite`; `Send_pulses` ignores its number; `~found` in `Format_l1` is always true.

## 7. What is not modelled

* Inside modelled components: read mode of the FileHandler; the DDR3 memory of the
  D19C, whose write pointer is not in the source (`D19cFWInterface.cc:945`), and that of the CTA; CBC pages and the addressing of
  hybrid-wide broadcasts; bit and byte reversals in `privateSet`; `pBreakTrigger` in reads; callers that pass a vector which is not
  empty (none in this repository does). `fSaveToFile` is taken as set in
  `D19cReadout`; without it `Save` has no effect. The counters of the pipe modulo 512. `StackReg`, which nothing calls. D19C broadcasts to PS chips, the chip
  emulator and `ConfigureHw` inside `SSA_test`. `Pix_read` and `Read_pixel_counter`, which nothing calls.
* Classes that nothing instantiates: `SSAEvent`, `MPAEvent`. Of the MPA light, the power, the sequencer and the waits for its read-out.
* Undefined behaviour is made visible (a read past the end, an invalid future, two
  threads on a list) and then excluded by the premise of the property, or a nondeterministic value where the code goes on with it (`Junk`, `cDoubleVcth`, `PastEnd`, what is read of a FIFO beyond its end).
* Formatting, logging, histograms' book-keeping, ROOT, fits; the text of XML and of register files; checksums (a value);
  the external libraries uHAL, AMC13 and USB. Vendored code.
* Components marked `not_modelled` in `PROJECT.json`, each with its reason: the AMC13 layer, the web monitor, helpers and visitors, other
  executables, third-party code. They have no state or interaction that a property could be about.

Properties checked during development and not kept as runs of their own, because others imply them or they
said little: type invariants of the modules, mutual exclusion of the queue, offsets restored after the noise sweep, sweeps restoring registers, patterns gone after the register
test, own I2C replies on the GLIB.

## 8. Plan

Done: all modules and proofs above. What would come next:

* an abstract register bank (a write succeeds, fails, or leaves doubt) that `CbcRegisters` and `PacketI2c` both refine;
* `FileReader`: read mode of the FileHandler into `EventData`, playback giving the events that were written;
* the D19C with a second board in one read, and `D19cReadout` behind `EventData`'s `Read`.

## 9. How to run

    tlc -workers 2 -config FileHandler.cfg MCFileHandler
    tlc -workers 2 -config CbcRegisters.cfg MCCbcRegisters
    tlc -workers 2 -config D19cReadout.cfg MCD19cReadout
    tlc -workers 2 -config EventData.cfg MCEventData
    tlc -workers 2 -config SramReadout.cfg MCSramReadout
    tlc -workers 2 -config PacketReadout.cfg MCPacketReadout
    tlc -workers 2 -config PedeNoise.cfg MCPedeNoise
    tlc -workers 2 -config Programs.cfg MCPrograms
    tlc -workers 2 -config EventFormats.cfg MCEventFormats
    tlc -workers 2 -config Tools.cfg MCTools
    tlc -workers 2 -config SetUp.cfg MCSetUp
    tlc -workers 2 -config SetUp_chips.cfg MCSetUp
    tlapm FileHandler_proofs.tla

and `tlapm` for the seven other `_proofs` modules, a few minutes each at most. Every run and its configuration is listed
under "runs" in `PROJECT.json`. The longest run takes about a minute and a half; the largest (`readout`) has 1.2 million states.
