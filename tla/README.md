# A formal model of the NMFTA CAN Logger

This directory specifies and verifies the firmware of the CAN logger in TLA+:
the sketch `_07_Low_Latency_Logger_with_Requests`, which runs on a Teensy 3.2
with an SD card and two CAN ports; the two libraries it rests on, SdFat (from
the streams down to the SPI drivers) and MCP2515; the formatter that prepares
its cards; and three loggers from which it descends. TLC checks small instances
of the modules; TLAPS proves safety properties of ten components for every value of
the constants - the main loop, the log session, the recovery, the volume, the contents of a
file, the formatter, the card driver, the MCP2515 driver, the serial console and the record clock - the digits of
every number, and that the main loop implements its abstract specification.

`L` below stands for
`_07_Low_Latency_Logger_with_Requests/_07_Low_Latency_Logger_with_Requests.ino`,
`FatLib/...` and `SdSpiCard/...` for files under
`Arduino_Libraries_to_Install/SdFat/src/`.

## 1. The system

| Component | State it keeps | Operations | Correct when |
|---|---|---|---|
| `logData()` main loop (L:576-727) | two rings of block pointers, the current block, overrun and sample counters, `closeFile` | one pass: poll the serial port; read a message, send a request, look at the silence timer; give a block to the card | no buffer shared or leaked; records in order; a bounded loss at the end; the log ends |
| `truncateTempfiles()` (L:859-948) | bisection indices, position of the file | probe, narrow, truncate, rename | the search ends and keeps the data, whatever an erased block reads as |
| Log session (L:495-574, 728-856) | `binName`, the temporary file, the named logs | find a name, create, erase, wait, close, truncate, rename, delete; boot | a named log is never overwritten; every log survives a power failure; the logger comes up |
| Readers of a log (L:354-488) | position in the file | print the records and overruns of a block | what is printed is what was recorded |
| Timestamps (L:147-156, 777-780) | `microsecondsPerSecond`, system time, RTC | read the time, resynchronise every second, set the clock | a record's time is close to the RTC's |
| Serial console, autobaud (L:273-348) | the serial port, `serialInput`, the rate tried | set the clock, stop a log, obey a command, try four rates | nothing typed before a log stops or commands the next; the clock gets whole times; the rate of the bus is found |
| SdFat volume (`FatVolume`) | the FAT, `m_allocSearchStart` | allocate a contiguous file or a cluster, free a chain, read and write an entry | chains disjoint; room found; entries read back |
| SdFat files (`FatFile`, `FatCache`) | position, cluster, two cache blocks with a dirty flag | read, write, seek, truncate, sync | the file is what was written; what was synchronised survives |
| SdFat directories (`FatFile*`) | entries with long names, `..`, dates | open, list, remove, rename, mkdir, rmdir, rmRfStar, chdir, timestamp | a name leads to its file, whenever the power fails |
| SdFat streams (`StdioStream`, `istream`, `ostream`) | a buffer, flags, a position | the calls of stdio, `<<` and `>>` | the file is read and written in order; what is printed is read back |
| SdFat card driver (`SdSpiCard`) | card type, chip select, a transfer under way | begin, erase, read, write, their multiple-block forms | what is reported done is done; every call returns |
| SdFat SPI drivers (`SdSpi*`) | FIFOs, flags, DMA channels | send and receive a buffer | exactly the bytes asked for |
| SPI by software (`SoftSPI`, the AVR part of `DigitalPin`) | three pins, bits of shared port registers | exchange a byte bit by bit | the bits exact, and the pins of others left alone |
| Formatter, `init()`, `wipe()` | the layout of the card | erase, write boot sectors, FATs and root directory, mount | the layout fits the card and is mounted as it was made; the volume is empty |
| MCP2515 driver | controller mode, transmit and receive buffers, masks and filters | begin, set a filter, send, read | messages whole and once; what is set is set |
| `_03_Low_Latency_Logger`, SdFat's `LowLatencyLogger` and `AnalogBinLogger` | as the main loop | as the main loop | logs whole; what is missing is counted |

How they interact. The CAN controller fills its receive FIFO by interrupt; the
loop takes at most one message per pass, into the current block. A full block
goes through `fullQueue` to the card, which is busy for a while after each one,
and back through `emptyQueue`. The serial port stops the loop, the silence timer
stops it, a full file stops it. `loop()` then calls `logData()` again. A power
failure can come at any instruction, and the next boot starts in `setup()` with
what is on the card. The log's blocks go straight to the card driver
(`writeStart`, `writeData`); everything else - names, truncation, the text files
made from a log - goes through the caches of SdFat, which write a block when
another takes its place. Under all of them a call waits for the card by polling,
with a limit. The second CAN port is behind an SPI bus, and its controller goes on
receiving and transmitting between two transfers of one call.

What is hard about it:

* the loop, the CAN controllers, the card, the clock and the user are concurrent,
  and every test of a queue, a status register or a timer is made at one point and
  acted upon at another;
* buffers are recycled - blocks of a log, the two cache blocks, the buffer of a
  stream - so that they hold something of an earlier use;
* counters of 32 bits are stored in 16, clocks wrap, divisions are made by shifts;
* three different ends of a log (a character, a silent bus, a full file) leave
  the queues in different states;
* the card is the only persistent state, and every call that changes it does so
  by several writes whose intermediate states a power failure can expose.

`PROJECT.json` lists the components and, under `hazards`, where in the code each
of these bites and which properties cover it.

## 2. The modules

| Module | What it is |
|---|---|
| `LogBuffers`, `LogBuffersProps` | the main loop of `logData()` with its environment; its properties, its fairness and the refinement |
| `LogStream` | the abstract specification: a stream of records, a file that is a prefix of it, ends with a limit on the loss |
| `LogBuffersProofs` | type correctness and ownership of buffers, the other safety properties of the loop and the refinement, proved |
| `DataLemmas` | lemmas: induction over data, sequences of sequences, counters that wrap |
| `TempFile` | how the temporary file can be cut off and what the recovery makes of each case, as one operator; shared by the next two |
| `TempFileRecovery` | the bisection of `truncateTempfiles()`; its safety is proved in `LogSessionProofs` |
| `LogSession`, `LogSessionProofs` | the files on the card, boot after boot; that what was logged is found again, proved |
| `FatVolume`, `VolumeProofs` | the cluster allocation, cluster by cluster; that chains stay apart and no cluster is lost, proved |
| `FatTable` | the entries of the FAT as bytes of its blocks, for 16 and 32 bits, and for the 12 that the build leaves out |
| `FatFileData`, `FatFileDataProofs` | one file through the two caches, with refused writes and power failures; that it is what was written, proved |
| `StdioStream` | the buffered streams over such a file |
| `Directory` | a directory with long names, entry by entry, with power failures |
| `DirectoryTree` | paths and the calls that move, make and remove directories, with power failures |
| `LongName`, `FileStamp` | the letters of a name, and dates and times, to the entry and back |
| `SdFormatter` | formatting, mounting and wiping a card; that the layout fits every card and the volume starts empty is proved in `VolumeProofs` |
| `SdSpiCard`, `SdSpiCardProofs` | the card driver against a card that is late, refuses, or goes away; that its reports are true, proved |
| `CardCodes` | the size of a card, the erase mask and the check codes, bit by bit |
| `SdSpi` | eight SPI drivers over the registers, FIFOs and DMA channels of the processor, or the library they call |
| `SoftSpi` | SPI over pins, in its four modes, beside an interrupt that writes the same port |
| `Mcp2515`, `Mcp2515Proofs` | the driver of the second CAN port with its controller, SPI transfer by SPI transfer; that messages stay whole and single, proved |
| `CanRegisters` | what that driver puts into and takes out of the bits of the registers |
| `SerialConsole` | the three readers of the serial port, and the search for the rate of the bus |
| `RecordClock` | the RTC, the Time library's clock and the microseconds counter |
| `FmtNumber` | decimal digits by shifts and sums |
| `ConsoleProofs` | that what is typed is never stale, stamps are close and digits right, proved |
| `FmtFloat`, `TextInput`, `TextStreams` | floats, characters, words and lines, and whole items, written and read back |
| `LowLatencyLogger` | `_03_Low_Latency_Logger`, boot after boot |
| `IntervalLogger` | SdFat's example `LowLatencyLogger` |
| `AnalogBinLogger` | SdFat's example `AnalogBinLogger`, with its interrupts |
| `MC...` | the modules TLC runs |

Components that share a run (a module `MC...` with a variable `part`) do not
interact there: `part` is chosen at the beginning, and the variables of the other
parts stand still. Components that do interact are connected in three ways:
`LogSession` takes the result of the recovery from `TempFile`, and
`TempFileRecovery` shows that the bisection gives no other; `LogBuffers` implements
`LogStream` by a refinement mapping; and a module of a higher layer assumes of the
layer below what that layer's module checks (`StdioStream` of `FatFileData`,
`FatFileData` of `FatVolume` and `SdSpiCard`, `SdSpiCard` of `SdSpi` and `CardCodes`,
`Mcp2515` of `CanRegisters`).

A mutant of a definition - the form a plausible mistake would give it - stands
before it, with a comment that begins with "Mutant". It takes no part in the model.

### The main loop: LogBuffers, LogBuffersProps, LogStream

A pass of the loop is three steps, each with all that the code does between two
points at which something else can be noticed: `pc = "poll"` (L:616-619,
`PollSerial`), `"fill"` (L:621-684: `FlushCurBlock`, `CountOverrun` or
`FillBlock`) and `"drain"` (L:686-726: `SkipDrain`, `ExitLoop`, `WriteBlock` or
`WriteFails`). Before the loop, `"wait"` is the wait for the first message
(L:591), in which `SetTimeWhileWaiting` is `processSetTimeUtility()` and
`FirstMessage` takes the message that ends it, which is not recorded. After it,
`"close"` leads to `CloseLog` or, if one of the calls of L:730-754 fails, to
`CloseFails`. `"writeFailed"` and `"closeFailed"` are the endless loop of
`fatalBlink()`.

| Variable | In the code |
|---|---|
| `emptyQueue`, `emptyHead`, `emptyTail`, `fullQueue`, `fullHead`, `fullTail` | the same; a pointer is the number of a buffer, 0 for SdFat's cache and `i` for `block[i-1]` |
| `block[b]` | a `block_t`: `count`, `overrun`, `data`; a record is the place of its message in the order of arrival |
| `curBlock` | the same; `NoBlock` is a null pointer |
| `overrun`, `overrunTotal`, `count`, `pgnIndex` | the same, with the widths `Uint32`, `Uint16` |
| `silence`, `requestDue` | whether `lastCANmessageTimer > 10000`, `requestTimer >= millisBetweenRequests` |
| `fifo`, `serial`, `cardBusy`, `card` | the controller's FIFO, the serial port, `isBusy()`, and the blocks `writeData()` was given (`bn` is `Len(card)`) |
| `arrived`, `lost`, `acquired`, `spins`, `busQuiet`, `typed`, `expired` | observation: read by no step of the program (`typed`, `expired` are the counters of two bounds) |

The environment acts between any two steps: a message arrives (and is lost if
the FIFO is full), the bus falls silent, a timer expires, a character is typed,
the card finishes. `lastCANmessageTimer` is a Boolean that becomes true when ten
seconds may have passed since it was last restarted: while waiting, at any time;
afterwards only on a silent bus or with a message left unread in the FIFO. LEDs,
printing and the content of messages are left out.

### What a power failure leaves: TempFile, TempFileRecovery, LogSession

`InitRecovery` of `TempFileRecovery` is every file that a power failure can leave: cut off
while it was being created (its chain may be incomplete) or erased (its blocks are
anything), while it was being logged to (`dataEnd` blocks with data, the rest
erased), inside `truncate()` (the cluster chain already shorter than the size in the
directory entry) and after it. What an erased block reads as is the card's choice
(`SdSpiCard.h:76-79`: "either 0 or 1, depends on the card vendor"; the formatter says 0x00
for most, `Utility_SdFormatter.ino:475-477`): `ones` is TRUE for a card that
erases to 0xFF, which the bisection looks for, and FALSE for one that erases to 0x00, on which it takes
every block for written. `EndSeen` is the end it can see, that of the data or that of the
chain. `OpenTemp` is the check of the first block, `Probe`
one turn of the bisection with `LowerHigh` or `RaiseLow`, `Truncate` the call of
`truncate()`. `seekSet()` fails past the end of the file and past the end of its
chain and leaves the position alone, and the sketch does not look: `at` and
`inside` are where the four bytes are read.

In `LogSession` one step is one write to the card that a power failure can
separate from the next, or a step of the program between such writes. `dir` is the
directory; `reach`, `erased` and `written` describe the data of each file, and `ones` is the
kind of the card, as above.

| Actions | In the code |
|---|---|
| `NoTempFile`, `RecoverTempFile` | L:862-905: what the bisection finds is any of `RecoveryResults` for the state the file was left in |
| `FreeFile`, `DeleteEntry` | `FatFile::remove()`: the chain, then the entry |
| `FreeTail`, `Resize` | `FatFile::truncate()`: the clusters, then the entry; used by the recovery and by the close |
| `TryNextName`, `NameFound` | L:514-532 and L:914-932; 999 is refused even if unused |
| `CreateFile`, `LinkClusters` | `createContiguous()`: the entry is written before the last of the FAT |
| `EraseBlocks`, `StartWriting`, `FirstMessage`, `WriteBlock`, `StopLogging`, `CloseFile` | L:557-741 |
| `RenameAtOnce`; `WriteNewEntry`, `RemoveOldEntry` | `rename()`: the two entries in one block of the directory, or in two |
| `CallFails`, `PowerFails`, `Blinking` | `error()`; `setup()` again; `fatalBlink()` |

After a rename `loop()` goes on with the name it has, and after a power failure with
000. L:748-755, which would delete an old temporary file, is no step: the rename
before it has removed the entry, or failed.

### The volume: FatVolume, FatTable, FatFileData, StdioStream

In `FatVolume` `CreateContiguous`, `Grow` and `Cut` begin a call and its loop runs
one turn at a time: `SearchOn`, `RunFound`, `NoRoom`, `LinkOne`, `Linked` for
`allocContiguous()`; `FindOn`, `FoundOne`, `FoundNone` for `allocateCluster()`;
`FreeOne`, `EndChain` for `freeChain()`. `Mount` is `init()`, which puts
`m_allocSearchStart` back to 1. `FatTable` writes and reads single entries through
blocks of bytes, and counts the free ones. `FAT12_SUPPORT` is 0 (`FatLib/FatLibConfig.h:130`):
entries of 12 bits are modelled as the source has them, but no hazard of the logger. `FatFileData` has the members of one `FatFile`, the two caches
(`cache`, `fatCache` with their dirty flags), the card (`disk`, `fatDisk`) and the
clusters of other files; `write()` and `read()` go one turn of their loop per step,
and each write to the card may be refused. What a power failure would leave is a
function of the state, so that the crash properties are invariants of every state.
`StdioStream` keeps the members of `StdioStream` and takes the file below as what
`FatFileData` shows it to be.

### Names: Directory, DirectoryTree, LongName, FileStamp

`Directory` keeps an array of entries as the program sees it (`dir`, of which one
block, `dirty`, differs from the card) and as it is on the card (`disk`), and the
clusters of the directory in the FAT's cache and on the card. `OpenNew`, `FillBlock`,
`RemoveShort`, `RemoveLong`, `Rename`, `Copy`, `SyncData` and `SyncFat` are the steps
between which the power may fail. `DirectoryTree` takes a call as a list of such
steps on whole blocks of a directory (an object has one entry there), along paths
of names; `MakeEntry`, `Allocate`, `ChangeEntry`, `Dots`, `FreeClusters` and
`CacheSync` execute them, `NoRoom` ends a call on a full volume. `LongName` and
`FileStamp` are the conversions.

### The card: SdFormatter, SdSpiCard, CardCodes, SdSpi, SoftSpi

`SdFormatter` uses the numbers of the code, in blocks of a real card: `disk` is a set of
ranges of blocks with one content each, no two of which share a block, so that TLC's
state stays small for a card of any size; a write cuts away what it writes over (`Put`). In `SdSpiCard` a call is a list of steps, each a command with its
response, a block of data or a wait; the card (external, from how the code talks to
it) answers, refuses, stays busy, is pulled out or loses its power between any two.
`late` and `initLate` are time-outs. A caller goes on after a call that failed (`Fail`), as the
code's do: L:848-851 does not look at what `baudFile` returns, `FatFile::write()` returns -1
and leaves the rest to its caller, `writeBlocks()` gives up its transfer without a stop token. So
the next command may go to a card that is busy, or still in the transfer given up.
Only when `begin()` has failed must it come again. Of the card is assumed that it takes
nothing inside a command or a block it ignores for a token, and that one told to stop
reading (CMD12) stops, even if its answer is an error or is missed. `misled` and `strays`
follow the one sequence in which nothing but a busy card's zeros makes a call succeed
(section 6). In `SdSpi` the loops of a driver are a program of
steps over the hardware's FIFOs, and the hardware moves frames between any two of
them; a FIFO that is not emptied in time overruns, an interrupt may hold the
processor up anywhere. The drivers of the Particle, STM32 and ESP8266 hand buffers to a
library (external): a step is a call of it, and the DMA callback comes between two of the
driver's. In `SoftSpi` a step is one access to a pin; the write of a pin in a high
port register is four (save the interrupts' state, disable them, read and store, restore),
and an interrupt that writes another pin of the same port comes between any two.

### The second CAN port: Mcp2515, CanRegisters

In `Mcp2515` a step is one or a few SPI transfers of a call; `MessageArrives`,
`Transmit` and `ChangeMode` are the controller (external). Buffer 0 rolls over into
buffer 1; pending buffers are sent in the order of their priority. `CanRegisters` has
the same calls as functions of the bits: identifiers of both lengths, masks and
filters, data length, remote bit, bit timing for every rate in the table.

### Text: SerialConsole, RecordClock, FmtNumber, FmtFloat, TextInput, TextStreams

`SerialConsole` has one step per reader and turn. A time message is the header, twice as
`PythonTimeSetter.py` sends it, its first and its last digits (`High`, `Low`, each as one
character), and the line end, in one packet or in two; `parsed` is the number that
`parseInt()` makes of the digits it gets, and is compared with `DEFAULT_TIME`. A pass of
`logData()` is one step once `closeFile` is set: a character or the silence sets it, the
current block is queued (by the next pass, after a silence), and the pass leaves the loop if the
full queue is empty (`EndPass`: the silent exit of `silence_exit` is the case of an empty
queue in `Silence`); `FileFull` is the third end of a log. `RecordClock` counts in ticks: `Second` of them a
second, `Milli` a millisecond as `millis()` sees it; the two readings of a record are
two steps. The conversions build digits or read characters one step at a time and keep
beside them what the number or text was.

### The other loggers: LowLatencyLogger, IntervalLogger, AnalogBinLogger

Their queues are those of `LogBuffers`; in the first two only counted, not told apart.
`AnalogBinLogger` has the steps of both interrupts between any two of the loop, the
hardware (`adc`, `tickDue`, the flag that is cleared late), and `adcInit()` with the
arithmetic of the code for intervals at its limits.

## 3. The runs

| Run | Shows | Bounds |
|---|---|---|
| `log` | types; buffers neither shared nor lost; records in order; a stopped log complete; the silence timer honest; `LogStream` implemented | the cache and 2 buffers of 2 records, a file of 3 blocks, 10 messages, 1 character, `Uint16 = 4`, `Uint32 = 8` |
| `close` | a character ends the log and closing finishes; a log nobody stops ends with the traffic | the cache and 1 buffer, 4 blocks, 7 messages, 1 character, 1 request |
| `silence_exit` | a disagreement, section 6 | the cache and 1 buffer, 3 messages |
| `recovery` | the bisection ends and keeps the data, on both kinds of card; names and paths lead where they led, whenever the power fails | 9 blocks; 1 short and 2 long names of 2 and 3 entries in blocks of 2, 3 clusters, 3 files; 2 names (symmetric), paths of 2, 3 clusters, 4 calls |
| `session` | logs found in order, whole, and never changed by another; the logger comes up | 3 files of 5 blocks erased by 2, 8 names, 2 power failures; both kinds of card |
| `volume` | chains apart and whole, room found; the layout of cards fits and is mounted; entries, names and dates are read back | 5 clusters, 2 files of up to 4; 29 sizes of card; 10 entries in blocks of 8 bytes; paths of 5 characters; 2 files, 4 time stamps of 1970, 1980, 2107 |
| `file` | a file, and a stream over a file, is what was written, read in order; synchronised data survives | 3 clusters of 2 blocks of 2 units, another file with cluster 3 or none, transfers of 1, 3 and 5, 5 calls, 1 refusal; a buffer of 4, six modes, 6 calls |
| `file_blocks` | a disagreement, section 6 | 2 clusters, 4 calls |
| `card` | what is reported done is done, also after failures; reads are right; types, and the driver's idea of the card; the bus is given back; every call returns | 2 blocks, 1 refusal, 1 reset or failure or removal |
| `buses` | CAN messages whole and once, registers exact, nothing accepted left lying; bytes over SPI exact, by hardware and by pins; sizes and codes exact | 3 received, 4 sent, 1 filter; identifiers at the limits of their fields, 3 calls; transfers of 1, 2, 7, 8, 10 bytes; six sizes in every field; up to 3 bytes |
| `console` | no stale command or stop, no part of a time; stamps close; digits, floats, texts and items read back; the rate found | 3 things typed, 2 logs of 2 blocks, 4 rates, times of 10 digits cut in the middle; 24 ticks, 6 a second; texts of 4 characters; 2 items |
| `loggers` | samples, logs and schedule accounted for; rates that fit | 2 pins, 2 buffers, 8 ticks; 7 messages for one file, 6 for the other, 1 failure; 9 steps of a clock that wraps |

Why the bounds are enough. Two or three buffers in rings of three or four slots make each
index wrap, several times over with ten messages; the code treats a buffer like every
other, so that more of them add no new case. With
`(BufferBlockCount + 2) * DataDim + 1` messages all buffers can be full with
messages left over, so that overruns happen. `DataDim = 2` has an empty, a half
full and a full block; the narrow words overflow within a run. The bisection is checked
with 10 blocks, whose halves are both odd and even; the real number, 2^22, is covered
by the proofs. In a session, three files and two power failures are enough to interrupt a
recovery of an interrupted log, and to record after it; five blocks are erased
by two calls and a shorter one; with a radix of two every digit of the number is
carried. Five clusters hold two files in every fragmentation: a run before,
around and behind the place where the search begins. Cards are taken on both sides
of every limit at which the formatter changes its layout. A transfer of 3 or 5 units
begins and ends inside blocks, covers whole ones and crosses clusters. A directory
whose long names take 2 and 3 entries in blocks of 2 has every position of a name
over a block. SPI transfers of 1, 7, 8 and 10 bytes are below, at and beyond the
depth of the FIFO. Identifiers have ones on both sides of each border between two
registers. Numbers are taken around all powers of ten and of two at which the shifts
could err; the proofs cover the others.

`CHECK_DEADLOCK FALSE` stands where a program does stop: a sketch in `fatalBlink()`,
a conversion that is done, a bound on calls that is used up.

## 4. Fairness

* `close`: the loop keeps running (`WF_vars(LoopStep)`: nothing else runs on the
  processor but interrupts, and no step of the loop waits) and a busy card becomes
  ready (`WF_vars(CardReady)`: the card specification bounds the programming time).
  `SilenceStopsLog` has as its premise that the bus falls silent at last and that time
  passes. Nothing is assumed of the user, of messages or of requests.
* `session` (`ComesUp`): the program keeps running from boot to boot; power failures
  are bounded in number, not in time.
* `volume` (`RoomIsFound`): the loops of the volume keep running.
* `card` (`CallsReturn`): the driver keeps running, and its time-outs expire
  (`StepIsLate`, `InitIsLate`); nothing is assumed of the card.
* `buses` (`TrafficIsServed`): the driver keeps running, the sketch asks for messages
  again and again (`ReadStatus`), the bus lets everybody transmit in the end
  (`Transmit`), and the controller changes its mode when it can (`ChangeMode`).
* `console` (`BaudRateIsFound`): the sketch keeps running; strong fairness of
  `Confirmed`, because on a bus with traffic a message comes within the time of a try
  at its rate, if it is tried again and again.

## 5. What is proved

`LogBuffersProofs` proves `Spec => []LogInv` and from it `TypeOK` and
`EveryBufferOnce`, for any number of buffers, records per
block, blocks per file and messages, from `SizesAssumption` (the sizes are
positive), `WidthsAssumption` (a block's count fits in 16 bits, 2^16 divides
2^32) and `BoundsAssumption`. Ownership is not inductive by itself: whether
the head of a queue runs over its own tail depends on how many slots are in use.
`OwnershipInv` therefore says that the two rings and the current block are
disjoint, that they cover all buffers, and that their lengths add up to
`BufferBlockCount + 1` (one less after a failed write), so that a ring with
`BufferBlockCount + 2` slots always has one to spare. The queues are first
considered as values (`TakeEmpty`, `PushCurrent`, `DropFull`, `RecycleFull`);
each step of the loop is one of these or a combination of two. `TypeOK` needs
the same invariant: a null pointer never comes out of a queue.

It goes on with the other safety properties of the loop that the run `log`
checks - `RecordsInOrder`, `StoppedLogIsComplete`, `SilenceCloseIsGenuine` - and
`ImplementsLogStream`, under the same assumptions. Its invariant, `StreamInv`, has five
parts:

* `LogInv`, as above: without it a block that waits for the card could be overwritten;
* `DataInv`: the records on the card, followed by those of the queued blocks and of the
  current one, are the messages taken (`InOrder`); only the last block queued may be
  empty, and only at the end (`EmptyLast`), which is why a reader that stops at an empty
  block misses nothing; the three counters are sums over the same blocks (`Counters`).
  `RecordsInOrder` says this of the blocks a reader looks at, and is not inductive;
* `PhaseInv`: what `closeFile`, `serialInput` and the queues are at each `pc`. That a file
  that becomes full leaves a buffer empty (the one just written) is where the limit
  `BufferBlockCount * DataDim` on the loss comes from;
* `SilenceInv`: an expired timer means a silent bus, a message left unread, or nothing
  recorded;
* `ArrivalInv`: the messages taken and those in the FIFO, one after the other, are in the
  order of arrival, and nothing is missing from them but the first and those lost.

The queue of full blocks is first considered as a value: `FullPush` and `FullDrop` say what
a queue whose indices wrap has as a sequence. Each step then moves records from one end
of that sequence to the other. For the refinement, each action of the loop is shown to be
an action of `LogStream` or none: `FillBlock` is `Record`, `GoSilent` or nothing, `PollSerial` is
`Stop` or nothing, `WriteBlock` is `Save`, `CloseLog` is `Close`, with the loss each phase allows.

These proofs need what recursive definitions compute for every input: the records of a list of
blocks, their overruns, the lines of `checkOverrun()`. The library's induction theorems
cannot be used with the provers at hand, and `DataLemmas` does without them: a set that
holds 0, and n + 1 with n, holds every number, because the intervals `0 .. n` are
well-founded under inclusion (`SetInduction`); a recursive function exists because each
of its beginnings does (`RunExists`). From these follow the lemmas about `FlattenSeq`, and about
counters whose width divides another's.

`SdSpiCardProofs` proves both safety properties of the card driver, `ReportsAreTrue` and
`DriverMatchesCard`, for a card of any number of blocks that refuses, is reset, loses its power or
is pulled out any number of times, whose callers go on after failed calls, from `SizesAssumption`
and `BoundsAssumption`. Neither is inductive. `cardCommand()` sends its command even to a
card that stayed busy, and takes the zeros it then reads for success: why a call that reports
success does not rest on such answers, but for one of `writeStart()`, is what the invariant has
to say. Its parts:

* `ListsInv`: the steps that a call has still to do are the end of its list (`Program`), so that
  their number tells where the call is (`Placed`); in `begin()` the type found so far too;
* `SessionInv`: which calls each state of a session admits, and who holds the bus; a
  session begins anew after each failure, whatever state the card was left in;
* `MisledInv`: a card misled is in the middle of an older transfer;
* `KindInv`: `begin()` goes on past its first command only with a card that answered it, which
  is then not busy, so that none of its later answers are false;
* `CardInv`: a card is busy only when ready or between two blocks of a transfer, and what it
  programs is in doubt or may still be lost;
* `PlaceInv`: a card in the middle of a transfer is at the block that the driver means, unless
  the transfer is one given up before. A busy card
  is never sending, so a read that began with a false answer finds no token and fails; a
  `writeBlock` that did sends a token that the card does not expect;
* `DoubtInv`, `WriteInv`, `EraseInv`, `ReadInv`: what each call has done at each of its
  steps, but for `strays`, the blocks of a transfer that the card did not start. An erasure is safe because it reads the CSD first, which a busy card does
  not send: from then on the card is ready, and the two addresses are the ones it
  was given.

`LogSessionProofs` proves `LogsAreFound` and `LogsStay`, for any number of files of any
size, of power failures and of names, on cards that erase to ones or to zeros, from `FileBlockCountAssumption`, `EraseAssumption` and
`NamesAssumption`. A log promises no more than its clusters reach, and no more than was written
unless it was recovered on a card that erases to zeros. That is not inductive: it depends
on what the temporary file was when it got its name, and that on the call in which the power
failed. The invariant's parts:

* `EntriesInv`, `FreshInv`: the temporary entry belongs to the file created last, and is there
  in the phases that work on it; of files to come nothing is known;
* `NumbersInv`: the names given have no gap, and the search has passed only names
  that were given, so that the next log's name is the last. The number in a name determines it
  (`ValueDetermines`), and the search adds one to it (`NextName`), in any base;
* `EraseInv`, `LoggingInv`: the erase calls come out even (this is what `EraseAssumption` is
  for), hence blocks are written only to a file that is erased, linked and at its full size;
* `AliasInv`: only a rename cut off between its two writes leaves a log that
  is the temporary file, too, and may be cut with it;
* `CuttingInv`, `PromiseInv`, `HeldInv`, `FoundInv`: what the temporary file lacks of what was
  written is at most one block for each recovery, in its entry and in its chain alike, at
  every write of `truncate()`, `remove()` and `rename()`, so that a recovery which is itself
  cut off costs no more than it says; a name takes this over to the log.

What the recovery finds is taken here from `RecoveryResults`; that it finds this is proved
of the bisection:

`LogSessionProofs` also proves `RecoveryTypeOK`, `EndIsBracketed`,
`KeepsAllButTheLast`, `ProbeNarrows` and `ResultIsForeseen`, on both kinds of card, for a file of
any number of blocks but one (`FileBlockCountAssumption`: a file of one block would be cut to none, which
is why the assumption leaves it out; the code has 2^22). Its invariant, `SearchInv`, says that
the interval is never empty and that the block probed last is in the file; where the erasure
was complete before the power failed, moreover (`EndInv`), that the end which can be seen
(`EndSeen`) lies between the indices and the block probed last is that end or the one
before it; and what became of a file that was being written to (`WholeInv`, `LoggedInv`). `ResultIsForeseen`
is about the other power failures, too, and `EndInv` about a file whose chain is shorter than its
entry: a block behind the chain cannot be sought, and is taken for the position before it, so
that the search is around the end of the data, or behind the chain for good, where the truncation fails
and the LED blinks.

`VolumeProofs` proves `VolumeIsInOrder` for a volume of any number of clusters, any files and
any contiguous length, from `ClustersAssumption` and `CountAssumption`. The property follows chains by
`ClusterAt`, a recursive function, and only between calls; the invariant, `VolumeInv`, says that there is an
array of clusters for each file (`chain`) and a place in it (`k`, the next to be freed) for
which the following holds at every turn of every loop:

* `FilesInv`, `KeptApart`, `LinksInv`: an entry has the first cluster and the length of the
  file's chain, no cluster is in two places, and the FAT leads from each to the next, but for those between the cut and `k`;
* `RestInv`: a cluster in no chain is free, unless it is in the run that is being linked,
  from its end towards its beginning;
* `SearchInv`, `LinkInv`, `FindInv`, `FreeInv`: the run found so far is free; it is in no
  chain until its file gets its entry; the cluster a file grows from is its last; the cluster freed next is the `k`-th.

Each step is shown to keep it with the same chains or, where a file gets its entry or a cluster, with chains
that differ in that file; that `ClusterAt` follows a chain is an induction over a set
(`ChainWalked`). That `contiguousRange()` gives the clusters of a file in one piece, and of
no other, follows from the first place where the chain leaves the order of the clusters (`LeastOf`).
Of `RoomIsFound` two parts are proved as well: `RangeIsTheRoom` (theorem `RangeFound`) from what
`LinkInv` says of the run just linked, and `RoomMissedOnlyAtStart` (`RoomSeen`) from an invariant of
its own, `SeenInv`: the run that the search is in begins behind a cluster in use or at the start of
its lap, and is too short, and every run that is long enough and lies in this lap reaches to
the cluster looked at next, or beyond. Before the proof TLC checked `VolumeInv`, with `chain` and `k` as history variables, on volumes of five and six clusters.

`VolumeProofs` also proves `LayoutFits` for every size of card that the assumptions on
`StandardCards` and `HighCapacityCards` admit. The arithmetic of the search for the start of
the data (`initSizes()`, `makeFat16()`, `makeFat32()`) is a division of the room left
by the size of a cluster, repeated with a larger FAT; the invariant says what is
known of the start tried so far, and lemmas on quotients turn each turn of the
search into linear arithmetic.

From the layout `VolumeProofs` goes on to `VolumeStartsEmpty`, for the same cards, a volume
wiped any number of times, and from `CardsAssumption` alone. The property is not inductive: whether
`init()` finds the volume depends on a sector that was written many steps earlier,
in other units, and on nothing having been written over it since. A write changes the
blocks it writes and no others (`PutIs`, from the ranges' having no block in common).
The parts of the invariant:

* `ModeInv`, `CardInv`: which variables each `pc` has set, and that the card's size stays;
* `NumbersInv` (`StartInv`, `GeometryInv`, `LayoutKept`): the start tried stays on the card, the
  reserved blocks fit into the 16 bits of the boot sector, and heads and tracks into their fields,
  so that what is read back is what was computed and not its remainder;
* `WrittenInv`: at each step of the formatter what the steps before it have left on the card:
  erased blocks, the boot sectors, zeros in the FATs and the root directory, the
  reserved entries;
* `WipedInv`: what `init()` reads is the layout that was written, and `wipe()` has cleared
  the root directory before the FATs; the two exceptions of the property are where it clears less.

`FatFileDataProofs` proves `FileIsAsWritten` and `FailuresAreContained` of one file, for any
number of clusters, blocks of a cluster and units of a block (at least two, so that a block can be
written in part), transfers of any length and any number of calls and refusals, from
`SizesAssumption` and `OthersAssumption`. Both properties read the file by following links, and
only `ClustersStayApart` holds after a refusal. The invariant, `FileInv(s)`, is therefore about a
sequence of clusters `s`, of which the theorem says that one exists in every state; it is in
two halves. `StructInv(s)` holds always:

* `ChainInv`, `OthersInv`, `PlaceInv`: the clusters of `s` are different and no other
  file's, the FAT's cache leads from each to the next, all others are free; the current
  cluster is one of `s`, or the file has none; what the cache has yet to write back
  is in no other file's block;
* `ShapeInv`, `WorkInv`: what the cache and the card consist of, and what a call under way has
  still to do.

`DataInv(s)` holds until a write is refused or a transfer of several blocks compares the
cached block from the wrong side (the disagreement that `file_blocks` shows):

* `PositionInv`, `LengthInv`: the current cluster is that of the unit before the
  position, and in the middle of a block that of the unit behind it; the length lags behind what
  was written only during a write, and the position is behind the end only where
  a write found the card full;
* `UnitsInv`, `CoherentInv`: every unit is in its place on the card as it would be with the
  dirty block written back (`Synced`); a clean cached block is the card's; the entry is the
  one on the card, in the cache, or marked to be written;
* `ReadingInv`: what `read()` has got is what is in front of the position;
* `SyncedInv`: the entry, the links and the units that lead to what was synchronised are on the card
  itself. It is inductive because, while the file only grows, a write begins behind
  that part, and a link of the FAT changes only at the end of the chain.

Each step is considered twice, for the structure and for the data. The turns of `write()` come
down to one fact (`OnlyWrote`): the units written are where the chain says and all others
are as they were, be it by the cache, one block past it, or several; those of `read()`
to what was got being the next units (`Gets`) while the card, with the cached block, stays as it is
(`CardKept`). `truncate()` has a shorter `s`, and a write that takes a cluster a longer one; that
links followed from a cluster of `s` lead along `s` is an induction over the steps
(`FollowRuns`). The arithmetic of `ClusterNo`, `BlockNo` and `UnitNo`, where products of two
constants occur, is in lemmas of its own (`PlaceOf`, `PlaceIs`, `BlockAtOnce`).

Two things came of this proof. The clusters of other files had been written
into `Init` as numbers, which a smaller card does not have; they are a constant now
(`OtherFiles`), with the assumption that they are on the card. And the position
behind the end, after a write to a full card, had to be admitted by the invariant: such a file reads
as nothing there, which `ReadsWhatIsThere` allows.

`Mcp2515Proofs` proves `MessagesAreExact` for any number of messages in both directions and any
time-out, from `BoundsAssumption` and `TimeoutAssumption`. The property speaks of messages
that are delivered or sent; what may happen to one on its way, between two SPI
transfers of one call, is in the invariant `McpInv`:

* `PlaceInv`: a message that arrived is in one place - lost, in a receive buffer with its flag
  set, or delivered;
* `ReadingInv`: the buffer being read keeps its message until the flag is cleared, and a
  message that meanwhile takes buffer 0 is newer than the one in buffer 1;
* `TxInv`: what waits in a transmit buffer is whole, and nowhere else;
* `FillingInv`: the message under way is in the driver and piece by piece in a buffer that does
  not wait - that `sendMsg()` sees a buffer free, and fills it five transfers later,
  is safe because only the driver makes it wait;
* `FilterInv`: before the first message no buffer waits, so that the controller does change to
  the mode asked for, and a filter is set in configuration mode.

`ConsoleProofs` has three results. `TypedIsRight` proves `TypedIsNotStale` for any
number of characters typed and of logs, and times of any digits (`TimeAssumption`: neither
half alone is as late as `DEFAULT_TIME`): nothing typed before a log was done with stops the next or is
obeyed after it, and the number that sets the clock is the time sent. More is not so: the line
end of a time message sent just before a log stops it. What is in the port could be taken
for a number it is not, unless it is known what it can be: the grammar of what is
typed (`PortInv`: the first half of a time is followed by the second, now or when the rest
of the packet comes, and the second by its line end), which decides what `parseInt()`
reads after what it has read so far (`DigitsInv`), and that `serialInput` and all that is in
the port were typed since the last log was done with (`SinceInv`, `PortInv`). `StampsAreRight` proves `StampIsRight` for any length of
a second that `millis()` divides (`TickAssumption`). Its invariant says which of two events set the
software clock last: the RTC, with which the microseconds counter began again
(`ReadFromRTC`), or the host, with which it did not (`SetByHost`); and that the
two readings of a record are within a second of it (`RecordInv`). `DigitsCorrect` proves
`DigitsAreRight`: for every number of 16 or of 32 bits the
sums of shifts, too small by a bounded amount, are a tenth of the number after the one
correction; digits written and number left are the number begun with.

TLC checked each of these invariants on the instance of its run before it was proved (that
of a file, for example, on 2154886 states).

Only model-checked, because out of the prover's reach: what holds under fairness, which needs
ENABLED (`CharacterStopsLog`, `SilenceStopsLog`, `ComesUp`, `CallsReturn`, `TrafficIsServed`,
`BaudRateIsFound`, and of `RoomIsFound` all but its two parts above); and what operators on bits
compute (`CanRegisters`, `CardCodes`, in `BytesAreExact`). Only model-checked, because not
attempted: the directories (`NamesAreKept`, `TreeIsKept`), the streams (`StreamIsInOrder`), the
SPI drivers (in `BytesAreExact`), the conversions (`EntriesAreReadBack`,
`FloatsAreReadBack`, `TextIsReadBack`), whose inputs TLC enumerates at the limits of their fields, and
the three other loggers (`TicksAreAccountedFor`, `AcceptedRatesFit`, `LogsAreKept`, `ScheduleIsKept`).

## 6. Disagreements between the code and what is written about it

Two have runs that must find a violation, and entries under `findings`.

* `silence_exit`: a log ended by 10 s of silence loses the current block, although
  L:688 says "Exit loop if done."
* `file_blocks`: `write()` of several blocks looks for the cached block on the wrong
  side (`FatLib/FatFile.cpp:1448`), under "invalidate cache if block is in cache"; a
  block is lost, or outlives what was written over it. `read()` has the same test.

Others are written into the models as the code has them; the properties name the cases
they leave out.

*The sketch.* A first message that comes more than 10 s after `logData()` began closes
the log at once (L:675). `pgnIndex` reaches `numRequests`, and a PGN behind the list is
requested (L:658). The temporary file "will be deleted if a reset or power failure occurs"
(L:239), but `truncateTempfiles()` keeps it as a log unless its first block reads as
erased. "Use bisection search to find the end of the file" (L:887) holds for cards that erase to 0xFF; on
one that erases to 0x00, as most do by the formatter's own word, every block seems to be
written, and a recovered log has `FILE_BLOCK_COUNT - 1` blocks, most of them
never written: their `count` reads as 0, at which `dumpData()` stops, but the file is as long as that, and
a temporary file without data becomes a log, too (`KeepsAllButTheLast`, `LogsPromiseNoMore` say
what holds on which card). The recovery truncates to the block it probed last, which may be one too few
(L:903). A file whose truncation was interrupted, or done but not yet followed by the
rename, makes the recovery fail at each boot. 65536 overruns in a row are stored in a
block as none. The line end of a time message stays in the serial port and stops the next
log at its first pass; a newline after 'c' or 'd' replaces the command. Setting the clock
does not reset the microseconds counter, so that stamps run ahead until the next
resynchronisation; the fraction may be printed as 1000000. Autobaud never ends
at a rate that is not in its list. `checkOverrun` does not list the overruns of an empty
last block, which the printed total has. The name of the CSV file is built with two dots (L:370).

*Volume.* `allocContiguous()` ends its search in the middle of a run, and refuses a file
there is room for (`RoomMissedOnlyAtStart`); a search that begins at cluster 1, as
after each mount, never ends when there is no room (`FatVolume.cpp:150-151`). `wipe()` on
ARM writes back a stale first block of the FAT (`FatVolume.h:170-176` invalidates one of two
caches; `FatVolume.cpp:586`), and counts the blocks of both FATs in 16 bits (:528, :555),
although it is documented as "Wipe all data from the volume." `freeClusterCount()`
compares FAT32 entries without the mask that `fatGet()` applies.

*Files.* A write without room leaves the position behind the end; a refused one leaves the
cluster ahead of the position; `truncate(0)` after a refused write at 0 keeps a cluster.
`sync()` writes the entry before the FAT.

*Directories.* `remove()` deletes the short entry before the long ones: a power failure
between them leaves orphans, behind which `openNext()` stops and which make `open()` of
their name fail. A data block is written before the FAT (`FatVolume.h:299-301`), so
that a rename into a cluster just added to the directory can lose both names. A
directory may be renamed into itself. A directory that is moved when the power fails
can keep its old `..`. Without a clock the year is before 1980, and wraps to 2098.

*Streams.* `fseek()` from the current position adds it twice (`StdioStream.cpp:181-190`) and
does not clear the end of file; a write straight after a read goes behind what was
buffered; a stream for appending is put to its end by every flush. A word that
is cut by its width loses the next character (`istream.cpp:324-334`); a number that is too
large leaves the position inside it. "-5" is accepted as an unsigned short.

*Card.* `cardCommand()` ignores that the card stayed busy (`SdSpiCard.cpp:211`), for 600 ms
(`SD_WRITE_TIMEOUT`). One call succeeds with nothing but the zeros of a busy card: a
`writeStart()` while the card is still programming a block of a transfer that was given up before, as
`writeBlocks()` does after a timeout. CMD55, ACMD23 and CMD25 all seem to be obeyed, and the
blocks that follow land where the old transfer was. `FatFile::write()` with
`USE_MULTI_BLOCK_IO` (`FatFile.cpp:1439-1457`), repeated after such a failure, can come to this.
`ReportsAreTrue` leaves out the blocks concerned, and no others.
`writeStop()` succeeds on a card that is gone; at 2 TiB the size wraps to 0; with check
codes on, two reads of the SPI bus stand in one expression in no order (:427).
`send()` of an odd number of bytes on a Teensy returns before its last word is sent.
The formatter's size in MB wraps from 64 GiB on (`Utility_SdFormatter.ino:542`).

*MCP2515.* `begin()` succeeds at a rate it does not know, and stays in configuration
mode; the poll after a transmission reads another register than the control register, and
a success at the last poll is a timeout; `setCANCTRL_Mode()` takes the echo of CANCTRL
for the mode the chip is in; masks and filters with a number too high are reported set
(`mcp_can.cpp:574-576`); `sendMsgBuf()` and `readMsgBuf()` return nothing, although a
sketch compares the result; a read without a message returns the one before; messages
overtake each other in both directions.

*Other loggers.* `_03` never reads the serial port: one character makes every later log
close empty; it deletes the temporary file that a power failure leaves, with it perhaps
a log named a moment before. `LowLatencyLogger` stops with "Rate too fast" and loses the
recording. `AnalogBinLogger` may write its last block twice or, stopped before the first
value, a block of garbage; an interval below 160 cycles wraps and is accepted (:297); its
`!binFile.read(..) == 512` never reports an error.

## 7. Not modelled

* Card reads that fail under the file system: the code returns an error up to the
  sketch, which halts.
* The content of messages, LEDs, printing, the measurement of latency.
* `CAN conditioner` (`_05`) and the receive tests: loops over indices that are never
  initialised (:181-211), `while (vinCount >= 50)` that never runs, an array
  of requests that is never written. No state after the first pass is determined.
* The Python reader ignores `count` and takes all records of a block: it promises
  nothing that could be checked beyond that.
* The pins of processors other than the AVR and the class `DigitalPin`, which goes through
  the same functions; `bugDelay` of the Particle driver, a wait for a defect of its library.
* The choice of pins (`DigitalPin.h`), `SdFat.h` and other headers of forwarding calls,
  the examples that show one call, bench utilities: hardly any state of their own.
* `openParent()` and the csv readers of `_03`, which nothing calls; FAT12 and the
  running count of free clusters, which the build leaves out (`FAT12_SUPPORT`,
  `MAINTAIN_FREE_CLUSTER_COUNT`; FAT12's entries are in `FatTable` all the same).
* In `CanRegisters` standard frames under an extended mask, whose filters look at data
  bytes, and lengths above 8, which no controller sends.
* In `StdioStream` a call in the wrong direction, after which the program only closes the
  stream, and `fopen()` on an open one.
* In `FmtFloat` the width of a float's field and numbers out of range; floats are exact decimals.
* Hazards left out: clusters leaked when `createContiguous()` fails
  (`FatVolume.cpp:164`), how much of the file the erase calls cover (only that blocks are
  erased before they are written, `LogsAreFound`), collisions of the hash in
  a short name.

## 8. Plan

Done: everything in section 2. What could follow are proofs of what the runs show, in this order:

1. `SdSpi`: that a transfer is whole, from the positions of the frames in the FIFOs.
2. `StdioStream`: `StreamIsInOrder`, over the file that `FatFileDataProofs` gives it.
3. `Directory` and `DirectoryTree`: `NamesAreKept` and `TreeIsKept`, by an invariant of the
   entries between two writes of a call.
