# libch32v in TLA+

libch32v is a bare-metal library for WCH's CH32V RISC-V microcontrollers:
drivers for DMA, USART, CAN, I2C, GPIO and timers, a buffered standard output
and an intrusive linked list. There is no operating system. A program is a main
loop and interrupt handlers, which share memory without locks; what keeps them
apart is the enable bit of an interrupt, the priority threshold of the interrupt
controller (PFIC), and the order of the assignments. None of that can be tested
well on a board. This directory models it, checks the models with TLC and proves
their main invariants with TLAPS.

## 1. The system

| Part | Code | State | Operations |
|---|---|---|---|
| linked list | `lib/src/list_mgr.c`, `lib/include/list_mgr.h` | head pointer, prev/next of each node | insert before/after, remove, build from an array, traversal macros |
| DMA driver | `lib/src/dma.c`, `dma.h` | one request queue per channel, the channel registers | `dma_queue_xfer_request`, `program_dma_request`, `int_handler_dma1_chan4`, the `cb` of a request |
| buffered output | `lib/src/stdout-buffered.c` | ring buffer, `wr_idx`, `rd_idx`, `dma_in_progress`, one `dma_req` | `stdout_init`, `_putchar`, `drain_buffer`, `dma_cb` |
| core, PFIC | `lib/src/core.c`, `core.h`, `reset.S` | enable bits, priorities, threshold, nesting depth, SysTick | enable/disable an interrupt, set priority and threshold, delays |
| USART | `lib/src/usart.c` | registers; the `UsartTxBufferRequest` being sent | configure, enable, send a byte, start a request, handle its interrupt |
| CAN | `lib/src/can.c` | three transmit mailboxes, two receive FIFOs, 28 filter banks, the registered callback | init, filter set-up, `can_tx_req`, `can_check_tx_complete`, two receive handlers |
| clock control | `lib/src/v203/rcc.c`, `v307/rcc.c` | clock registers, `rcc_pll_input_clk` | `rcc_init`, peripheral clocks and resets, derived frequencies |
| I2C, DS3231 | `lib/src/i2c.c`, `app/i2c-ds3231` | bus registers; a copy of the clock's registers | connect, read, write, disconnect; refresh, get time |
| GPIO, AFIO | `lib/src/gpio.c`, `afio.c` | port registers | pin set-up, set, remap |
| timers | `lib/src/gptm.c` | timer registers | PWM frequency and duty |
| SPI, ADC, ADTM | `lib/src/spi.c`, `adc.c`, `adtm.c` | register blocks | none |
| printf | `lib/src/printf.c` | the caller's buffer, how much of it is written | `printf`, `sprintf`, `snprintf`, `fctprintf` and their field formatters |
| start-up, scripts | `reset.S`, `init.c`, `vector.S`, `scripts/*.py` | `.data`, `.bss` | section initialisation, `init_system`; host tools |

How they interact. `printf` calls `_putchar` for each character, from the main
loop or from a handler (`app/can-example` prints from the CAN receive handler).
`_putchar` raises the PFIC threshold, fills the ring buffer and hands chunks of
it to the DMA driver. The driver links each request into its queue with the list
functions, programs the channel for the head, and its interrupt handler calls
the request's callback, unlinks the request and programs the next. The callback
of the output (`dma_cb`) moves `rd_idx` and clears the flag `_putchar` spins on.
The channel feeds the USART. CAN transmission waits with `core_delay_ms`; most
drivers ask the clock control for a frequency when they are configured.

What is hard. The handler may run between any two steps of a call; callbacks
queue requests while their own is still linked; `_putchar` busy-waits on a flag
that only another handler clears; interrupts nest as deep as the device was
configured for; status registers change under a read-modify-write; a peripheral
goes on while the processor is elsewhere. PROJECT.json lists each such place
under "hazards", with the properties that cover it.

What makes each part correct:

- list: the pointers are the ring the calls asked for; removed nodes are clean;
  traversals end.
- DMA driver: requests are served one at a time, in order, from the first byte
  to the last; no request is stranded; no transfer is restarted.
- output: one caller at a time in `_putchar`; no character is sent twice or
  forgotten; the bytes sent are bytes of the buffer; finished lines go out.
- USART: each byte goes over the line once, in order; the callback comes after
  the last, or early over a single byte and in no other case; the interrupt is on
  exactly while something is to be sent.
- CAN: an accepted frame is sent once and in order; the answers about a request
  are about that request; no call hangs on a dead bus; a filter passes the
  identifiers it was given and no other; the callback is told every frame that
  passed once and in order, or the frame was overwritten in a full FIFO.
- clock control: the system clock does not exceed the maximum, the derived
  frequencies are those of the hardware, after any number of resets.
- the drivers configured from those frequencies: each device runs at the rate
  asked for, with its clock on, whatever was configured after it.
- I2C, DS3231: every call returns; a connection reported made is one the device
  answered; the time told is the time the clock shows.
- GPIO: pins that share a register keep what each was given.
- printf: the text is that of the C standard, cut to the buffer, and the
  directives consume the arguments they were given.

## 2. The modules

| Module | What it is |
|---|---|
| `ListMgr` | the list functions as operators on one record of pointers |
| `ListClient`, `MCListClient` | a program making every sequence of calls; four nodes |
| `ListClientProofs` | what each operation does to the sequence a ring represents; the theorems |
| `Dma` | the driver: registers of the channel, queue, steps of the call and of the handler; EXTENDS `ListMgr` |
| `DmaService` | what the driver promises, in three actions |
| `DmaQueue`, `MCDmaQueue` | the driver under a main loop and callbacks that queue; EXTENDS `Dma`, INSTANCEs `DmaService` |
| `DmaQueueProofs` | the inductive invariant, the theorems, and two step simulations: of `DmaService`, and of `ListClient` (INSTANCE of `ListClientProofs`) |
| `StdoutDma`, `MCStdoutDma` | the buffered output over the driver; EXTENDS `Dma` |
| `StdoutDmaProofs` | its inductive invariant and theorems |
| `UsartTx`, `MCUsartTx`, `UsartTxProofs` | sending a buffer by interrupts; its inductive invariant and theorems |
| `CanTx`, `MCCanTx` | sending frames through the mailboxes |
| `CanLoop`, `MCCanLoop` | both sides of the controller in loopback: `CanTx` composed with filter banks, FIFOs, their handlers and the callback; EXTENDS `CanTx` |
| `CanTxProofs` | the inductive invariant of `CanTx`, its theorems, and the same for `CanLoop` |
| `Rcc` | the clock tree of both families: the driver's reading of it and the hardware's |
| `Rates` | the divisors that USART, I2C, CAN, timers and SysTick get from it; EXTENDS `Rcc` |
| `Board`, `MCBoard`, `BoardProofs` | reset, start-up, and the set-up calls of `main`; EXTENDS `Rates`; its inductive invariants and theorems |
| `I2c` | the driver's calls and the bus, with a device and another master |
| `Ds3231`, `MCDs3231`, `Ds3231Proofs` | the clock read over it and the addresses scanned; EXTENDS `I2c`; its inductive invariant and theorems |
| `PrintfFields` | the formatters of integers, floating-point numbers and strings |
| `Printf` | a call: the format parsed, arguments taken, characters put out; EXTENDS `PrintfFields` |
| `PrintfStandard`, `MCPrintf` | what the C standard says the text is, and where the library differs; EXTENDS `Printf`; the calls checked |
| `PrintfProofs` | the inductive invariants and theorems of `Printf`, whatever the calls |

**List.** `list` holds `head`, `prev` and `next`. Each operator makes its
function's assignments in their order (`prev1`, `next2`, `prev3`, ...), since a
pointer just written may be the one read next. `ListClient` keeps, as history,
the sequence of nodes the caller asked for; `Represents` relates the two.
`list_init_from_array` is one step per iteration, because it meets nodes that
still carry old pointers. A call is one atomic step here; the DMA driver runs it
with the handler shut out.

**DMA driver.** `q` is the queue; `chan`, `flags` and `irqen` are the
channel's registers, its flags and the PFIC bit; `isr` is where the handler
stands. `dma_queue_xfer_request` is four actions (`DisableIrq`,
`InsertRequest`, `StartIfHead`, `EnableIrq`) because the handler may come
between them. The handler is four as well: flags cleared and head read, callback
returned, head removed, next programmed. `Beat` and `BusError` are the
channel's own steps. Copying the values of `peripheral_lookup` into the request
is left out: they are constants for the one peripheral there is. In `DmaQueue`
the contexts are the main loop and the callback; who may interrupt whom is in
`Running`. A request is queued by one context at a time and not while it is
queued (the code cannot know either), except that `CbQueues` decides whether a
callback may queue its own request.

**Buffered output.** Each context (main loop, handlers that print) has a program
counter and the locals of `_putchar`; the labels are the lines between which
shared state can change: threshold read (`Call`) and written (`Raise`), store
and `wr_idx++` (`Put`), the test of `dma_in_progress` (`Test`), the wait
(`Spin`), the count (`Count`), the drain loop (`Loop`, `Prepare`, `Mark`), the
four steps of the driver's call (`Queue`), the threshold put back (`Restore`).
`drain_buffer` is inlined. Priorities are the PFIC's, 0 the most urgent. A
handler interrupts another when its `Group` is more urgent: with a nesting depth
of 8, 4 or 2 the controller compares three, two or one bits of the priority
(`INTSYSCR_PMTCFG` in `reset.S`; the listing by depth in `core.h:87-118`). A
character is its position in the stream, so a wrong, lost or repeated byte
shows; `seen` and `lineEnd` are history. `rd_idx` is not volatile and 64 bits
wide in the code: the models read it where the source does, in one step.

**USART.** `tdr` and `shift` are the data and shift registers, `tc` and `tcie`
the flag and its enable bit, `FrameEnd` the end of a byte on the line. The start
of a request and the handler are one action per register access that matters.
The callback may start the next request, in which case the handler's last test
sees its length. `usart_tx_buffer_request_start` runs in both contexts, and at
any time after `usart_send_byte`, whose byte may still be on the line; `over` is
history: whether that ever was so.

**CAN.** `frame`, `pend` and `rqcp` are the mailboxes, those asking to be sent
in order, and those with RQCP (and TXOK) set. The scan reads the three bits one
after the other; filling a mailbox and setting TXRQ are two steps; the `|=` at
the end of `can_check_tx_complete` is a read and a write. `can_init` sets TXFP
and leaves automatic retransmission on, so a frame nobody acknowledges stays
where it is; then `CAN_TX_ERROR` cannot come up and is left out. The payload
is abstracted to the number of the frame.

`CanLoop` adds what `app/can-example` uses: `can_init` leaves the controller in
loopback, so each frame `Transmit` puts on the bus goes through the filter banks
in the same step (`LoopBack`). `can_filter_init` and `can_filter_init_ex` write
the banks byte by byte; `Compared` is what the controller compares them with.
Each FIFO holds three frames, and as `can_init` leaves RFLM clear, a frame that
finds it full replaces the last. A handler is two steps, the mailbox read and
the callback (`Handle`), then the FIFO released and the flags cleared
(`Release`); frames arrive in between. The main loop stands still meanwhile. The
callback does not send; `can_init` may have been given none (`rx_cb`), and the
handlers then only release.

**Clocks, start-up, set-up.** `Board` starts at reset with garbage in the RAM.
`pc` follows `reset.S` (`CopyData`, `ClearBss`), `core_init`, and `rcc_init` at
the lines where it waits for an oscillator; `Reset` may come at any moment,
clears the registers and keeps the RAM. From `main` on, each set-up call of the
drivers is one action, in any order and repeatedly. `gpio_pin_init` is two,
since a handler may set its own pin between the read and the write of OUTDR.
Frequencies are in kHz: `b.hse % 8 = 0` keeps the arithmetic exact through the
prescalers `rcc_init` chooses. `asked` is history: what each device was last
asked for. `HardwareClock`, `HsiToPll`, `FactorTwice`, `BusFactor` and
`CoreFactor` are the clock tree of the reference manual, against which
`rcc_get_clk_freq` is checked. They take nothing from the driver: `HsiToPll`
halves the internal oscillator on both families, as the hardware does out of
reset, whatever the initialiser of `rcc_pll_input_clk` says.

**I2C and DS3231.** `bus` is the controller (START, STOP, SB, ADDR, the bytes on
their way) and who owns the bus; `drv` is the call under way: where it polls,
how often it has, what it returns. `i2c_connect` gives up after `MAX_LOOP` polls;
`i2c_read` and `i2c_write` wait without a limit. The address is answered or not,
early or after the driver gave up; another master may take the bus while it is
free and keep it. `Ds3231` is the program: `ds3231_get_date_time` with its two
connections, and the scan of `app/i2c-scan`.

**printf.** `Printf` reads the format a character at a time as `_vsnprintf` does
(flags, width, precision, length, conversion; a number digit by digit, as `_atoi`
does); a directive takes its arguments from `args` and hands its text to `out`,
which stores it, gives it to a function or drops it. `Glyph` is the character of
each value of a char. The formats the header documents are sequences of pieces,
text or directives; `WellFormed` says that a call's format is made of them and that
its arguments have the types they name. `idx`, widths and precisions do not wrap
at 2^32. `PrintfFields` has `_ntoa_format`, `_ftoa` and `_etoa`. A double is
an exact decimal `n * 10^x`; binary rounding is left out, hence no value of the
run is one where a double and its decimal lie on different sides of a tie,
except in ways both texts of which are accepted (`Nearest`). The operators were
compared with the compiled library on some five thousand calls; they agree on
all but `%.0E` of 0.95, which is such a value and is not in the run.

## 3. The runs

Bounds are in the cfg files, and are the smallest at which the cases named here
occur; TLC explores all of the states of the passing runs.

| Run | Bounds | Shows |
|---|---|---|
| `list` | 4 nodes, 4 arrays; deadlock checked | `RingInOrder`, `FreeNodesUnlinked`, `TraversalEnds` hold over all sequences of calls. Four nodes allow an insertion or a removal with distinct neighbours on both sides, at both ends, and on a ring of one and of two |
| `dma_queue` | 3 requests of 1, 2, 2 bytes, one ending in a bus error, one without callback | the invariants and `NeverRestarted`, liveness `EachCompletes`, and that the driver implements `DmaService`. Three requests are one at the head, one in the middle, one at the tail; the main loop is interrupted in each of its steps |
| `stdout` | buffer 8, 10 characters, main and two handlers of priorities 5 and 2, depth 8 | the safety properties, and `LinesGoOut` under fairness. Ten characters go round the end of the buffer with chunks of two (a quarter) and of a whole line |
| `stdout_depth2` | the same contexts with a nesting depth of 2 | **violation** of `LinesGoOut`: the program stops for good, so deadlock is not checked in this run |
| `usart_tx` | requests of 1 to 3 bytes, 7 bytes | the safety properties, `EarlyOnlyOverAByte` among them, and `EachByteSent`, with requests started over a single byte as well. A request is finished by its first interrupt, its second and a later one |
| `usart_early` | the same | **violation** of `CallbackWhenSent` |
| `can_loop` | 2 request objects, 4 frames with standard and extended identifiers, waits of 0 to 2 ms, FIFOs of three, `can_filter_init` and two lists, a callback or none | `SentOnceInOrder`, `DoneMeansSent`, `ToldInOrder`, `AcceptsListed`, `CallsReturn`. Four frames are more than the mailboxes and more than a FIFO hold: calls wait, give up and reuse a request, and a FIFO overruns |
| `can_flags` | `CanTx`, 2 request objects, 5 frames | **violation** of `ClearsOwnFlags` |
| `printf` | every set of flags, widths, precisions, all conversions and lengths; sinks of 0, 1, 4 bytes and without limit | `AsStandard`, `CutToFit`, `ArgumentsMatch`. Values have at most nine places. Every call of the run is `WellFormed`, one of them with a directive that is cut off |
| `board` | 7 boards of both families, two PWM frequencies, resets at any moment | `FrequencyReported`, `RunsAsAsked`, `PinsAsSet`. The crystals take the PLL through each of its cases: none, the factor it lacks (17), factors of its table's second half, and clocks that no divisor hits; one baud rate has a fraction that carries, and a second frequency meets a channel set up for the first |
| `ds3231` | two addresses, two polls, four registers, three times of day | `TimeTold`, `HeldIfConnected`, `CallsReturn`. Two polls allow an answer before, between and after them; four registers allow the read its last three bytes and one before |
| `ds3231_hours` | the same | **violation** of `Always24Hours` |

The violations are disagreements between the code and what it says of itself;
PROJECT.json quotes both sides under "findings". In short: on the CH32V203
(nesting depth 2) a handler in the urgent half of the priorities must not print;
a request started right after `usart_send_byte` takes that byte's interrupt for
its own, and its callback is called before its last byte has left;
`can_check_tx_complete` clears other mailboxes' completions; and the hours of a
clock in twelve hour mode are told wrongly. (A CAN request remembers its mailbox
only: it is reported as running once the mailbox has been given to another, so a
caller has to ask before it sends again. `DoneMeansSent` is what can be relied
on.)

Other disagreements have no run of their own. The passing property states what the
code does instead, to the value, so any other fault in the same place violates it:

- `gptm.h:171` says of `gptm_config_for_pwm` "Note: duty cycle will be set to
  zero"; the code (`gptm.c:56-67`) leaves the compare register and the channel's
  enable bit alone. `ChannelFollows`: the channel keeps the share of the period
  that its duty was asked at, although the period changes.
- `rcc.h:121` says "Return frequency of specified clock source". On a v203 without
  a crystal every clock behind the PLL is reported as twice what it is: the
  initialiser (`v203/rcc.c:152`) is the undivided oscillator, the hardware halves
  it, and `v307/rcc.c:150` knows. `Overstated`: by exactly two, on these boards
  only; the devices then run at half the rate asked for.
- `core.h:164` says "Delay for given number of us"; `core.c:49` drops what is left
  of a tick in each of them. `DelayLasts`: by exactly that (`PartOfTick`).
- `usart.c:130` masks a fraction that rounds up to sixteen, where it should carry
  (`Carry`: BRR is sixteen too low in this case, within one in all others).
- `rcc.c:182` writes a code for the PLL factor 17, which the PLL lacks
  (`FrequencyReported`: the core may then run at 18/17 of the limit, else never
  beyond it).
- `rcc.c:216` writes the number of a bit for the bit (`TimerRuns`: once I2C1 or
  CAN1 was set up, the timer is in reset and stays so; I2C1 and CAN1 are not).
- printf departs from the C standard where `Differs` says so; `printf.c:333` itself
  says of `%f` above 10^9 that "standard printf behavior is to print EVERY whole
  number digit". `OwnTexts` is what comes out instead: `-` turns a precision off;
  `#` takes the place of digits, doubles an octal zero, and leaves one out; `%hhd` is
  not negative; a field longer than its buffer loses its beginning; a negative
  precision by `*` is zero; `nan` and `inf` are never upper case, lose a sign and are
  not filled when `0` is given; a tie of nines does not carry; a mantissa that rounds
  up to ten keeps its exponent; the exponent of zero is -308; `#` does nothing for a
  floating-point number; `%g` chooses its form by the value alone and keeps its zeros.
- `ds3231.c:18`, of the run `ds3231_hours`: `TimeTold` of the passing run says what
  is told of all other hours (`MisreadHour`).

Where the code goes wrong in a way nothing in the repository contradicts, the
property names the case and says that it is the only one:

- A callback that queues its own request (`CbQueues`, `NoSelfRequeue`): it is
  still linked, and the queue is corrupted. With `MCSelfCbQueues` for `CbQueues`
  TLC shows it.
- The wrong bytes of the buffered output (`WrongOnlyByOverrun`): `drain_buffer`
  splits a chunk that goes round the end of the buffer the wrong way
  (`count - head_room` for `head_room`), and a full buffer is overwritten.
- An odd number of identifiers lets the standard identifier 0 pass as well
  (`OddSlot`); those after the fourteenth are ignored (`Listed`).
- A silent CAN controller stays silent until it is reset (`CanRuns`).
- A handler that sets its pin while `gpio_pin_init` gives another pin of the port
  a pull resistor has it set back (`Quiet`).
- A START whose wait was given up is sent all the same, and the bus is then held
  (`left`); when a STOP goes out between the two `i2c_disconnect` of
  `ds3231.c:55` and `59`, the second stays requested and ends the next
  connection (`BackToBack`). `CallsReturn` rests on the latter, and on the other
  master never taking a bus that is held.

Bounds named in the modules: `MaxChars` (characters printed), `MaxBytes` (bytes
asked of the USART), `MaxFrames` and `MaxWait` (CAN), `MAX_IDS` (fourteen in the
code, cut to four), `MAX_LOOP` and `REG_COUNT` (I2C), `MemSize` (the memory
looked at behind the caller's buffer). The first four stand for counters that
the code lets grow: `wr_idx` and `rd_idx` are 64 bits wide, and no behaviour
depends on their wrapping. Each module bounded in this way has an action `Done`
that stutters when the bound is reached and nothing is left to do, so that any
other stop is reported as a deadlock. No symmetry is used.

### Fairness

- `DmaQueue`: weak fairness of each step of a call once begun, of the channel
  (USART1 asks for bytes for ever, or the bus reports an error) and of the steps
  of the handler. Strong fairness of entering the handler: the main loop masks
  the interrupt for a few instructions in each call, and a pending interrupt is
  taken in the first gap. Nothing makes the program queue a request.
- `StdoutDma`: weak fairness of each context's steps (it goes on when nothing
  more urgent runs), of the channel and of the handler. The handler is not masked
  while a context spins, so weak fairness is enough. Calls are not fair.
- `UsartTx`: weak fairness of the steps of a start, of the handler and of the
  line. `SendByte` and `Request` are not fair.
- `CanTx`, `CanLoop`: weak fairness of the processor's steps and of the receive
  handlers only. The bus may be dead: `Transmit` is not fair, and `CallsReturn`
  holds all the same.
- `Ds3231`: weak fairness of the program's steps, of the driver's and of the
  controller's. The other master need not give the bus back.
- `Board` and `Printf` state no fairness: an oscillator may never get ready, and
  what is said of a call is said of what it has written.

## 4. The proofs

All theorems hold for every value of the constants that satisfies the named
assumptions of the module (`NullAssumption`, `ArraysAssumption`,
`DmaQueueAssumption`, `StdoutAssumption`, `UsartTxAssumption`,
`CanTxAssumption`, `CanLoopAssumption`, `RccFrequencies`, `BoardAssumption`,
`RatesFit`, `I2cAssumption`, `Ds3231Assumption`, `PrintfSizes`, `PrintfWidths`,
`PrintfCalls`). Two of them carry numbers of the code. `CanLoopAssumption` takes identifiers from what `CAN_STD_ID` and
`CAN_EXT_ID` make, eleven and 29 bits. `RatesFit` names the rates whose divisors
fit: a driver masks or truncates a divisor that is too large for its register
without a word, so for another rate nothing can be said.

**List** (`ListClientProofs`). For each operation a lemma says
that it takes a ring representing `s` to one representing the changed sequence
and leaves other free nodes alone; the cases are where the node goes in a
sequence (only, first, inner, last). `ListInOrder`, `ListUnlinked` and
`ListTraversal` follow with the invariant `TypeOK /\ RingInOrder /\
FreeNodesUnlinked` and the fact that free and listed nodes are disjoint.

**DMA driver** (`DmaQueueProofs`). `IInv` is `TypeOK`, `QueueInOrder`,
`ChannelServesHead`, `NeverStranded` and four parts they need. `HandlerInv`: a
flag means the channel is at rest, the channel is at rest while the handler
runs, and the handler's local request is the head. `MaskInv`: the handler is out
while the main loop is between disabling and enabling. `ArgInv`: a request about
to be inserted is on nobody's list. `StartInv`: who finds the queue empty finds
the channel at rest. Without the last, programming the channel could hit a
running transfer. The theorems assume `NoSelfRequeue`, without which they are false.
`ChannelAtHead` also says that a completion finds its request queued
(`CompletionHasRequest`). `DriverImplementsService` says that every
step is a step of `DmaService` or a stutter, under the mapping that the run
`dma_queue` checks: bytes moved are the channel's while it is at work on the head
or the handler has not removed it. `QueueIsRing` says that the driver implements
`ListClient`: what it does to its queue are appends of requests that are on no
list and removals of the head (`RingStep`, from `ArgInv` and `HandlerInv`), so it
never links a request twice nor removes one that is not linked. What is proved of the list then
holds of the queue (`QueueTraversal`): a completed request holds no pointer into
it, and the traversals of `list_mgr.h` end.

**Buffered output** (`StdoutDmaProofs`). `InsideInv` carries the mutual
exclusion: whoever is inside is the most urgent of the active contexts, saved a
threshold of zero, and the threshold is 1 exactly while somebody is inside; a
context interrupted before it raised the threshold may have others pass, and
each gives back what it found. `DataInv` ties `dma_in_progress` to the queue,
which is empty or holds the one request: the two differ only between `Mark` and
the insertion, and between callback and removal. From this follow
`PutcharExclusive`, `CallbackNeverTraps`, `CharactersAccountedFor` and
`RequestNeverShared`, for any buffer of at least four bytes, any set of printing
interrupts, any priorities below the channel's and any nesting depth.
`WrongBytesExplained` needs `StreamInv` besides: until a full buffer is
overwritten, at most `BufSize` characters are between `rd_idx` and `wr_idx` and
each of them is in its slot; the request being prepared, or queued, begins at the
slot of `rd_idx`; and what the channel has done and has left are the request's
length. So the byte of the n-th beat is the n-th character from `rd_idx` as long
as the chunk ends before the buffer does.

**USART** (`UsartTxProofs`). There are two invariants. `SettledInv` holds until a
request is started over a byte (`over`). Its `LineInv` says that the line works
through the stream: the byte on it is the next one, the byte behind it the one
after. A running request is `Serving`: the byte its `_idx` stands for is on the
line and TC is clear, or it is over and TC is set. `StartInv` says that the line
is empty while a request is started; it is what fails once the interrupt of an
older byte is taken for the request's own. `WeakInv` holds always. Its `EnabledInv`
says that the interrupt is on exactly where somebody is to be served, and `BusyInv`
that a running request has a byte on the line or TC set, though it may be another's
byte. From the first follow `BytesInOrder` and `CallbackEarlyOnlyOverAByte`, from
the second `RequestNeverStranded`, `InterruptServed` and `UsartTyped`, whatever the
single bytes do.

**CAN** (`CanTxProofs`). `OrderInv` states the order element by element: what
waits in the mailboxes continues what was sent. `CallInv` is about the call
under way: the mailbox it has found stays free until TXRQ is set, because only
the controller runs beside it and only frees mailboxes. `PendInv` keeps a
waiting mailbox's flag down, and `TrackInv` says that what was accepted for a
request is sent or is what its mailbox holds: so a flag that is up answers for
the request, also after the mailbox has been used by others. `FramesInOrder`
and `DoneIsSent` follow. Every step of `CanLoop` is a step of `CanTx` or leaves
its variables alone (`LoopStepIsStep`), so the invariant holds in loopback with
filters, FIFOs and handlers beside it: `LoopFramesInOrder`, `LoopDoneIsSent`,
`LoopTyped`. Of the receiving side, `RxInv` says that what a FIFO's callback was
told, followed by what is still in the FIFO, are the frames routed there and not
overwritten, in the order of the bus; between mailbox read and release the head of
the FIFO counts as told. (`MuteInv` is its counterpart without a callback.) A frame on the bus is later than all before it by
`OrderInv`, hence `LoopToldInOrder`. `LoopAcceptsListed` is about words: the four
bytes `can_filter_init_ex` writes are those the controller compares for the same
identifier, and those of two identifiers differ, whatever their kinds; a bank of
one identifier compares with zeros too, which are the word of the standard
identifier 0 only.

**Clocks** (`BoardProofs`). `MainRunsOnReportedClock` is `FrequencyReported` for
every crystal that three times fits under the limit, and any values of the two
frequencies. `ClockInv` follows `rcc_init` through its stages. `BeforeSource`:
once `.data` is copied the RAM holds the oscillator's frequency, whatever an
earlier run left there. `SourceChosen`: the register and `rcc_pll_input_clk` name
the same source, and a crystal is taken only when it is ready. `PllSet` and
`Switched`: the fields are those `rcc_init` computes, and the switch follows the
PLL. `MainKeepsClock` says that no set-up call and no handler changes any of it.
The rest is arithmetic: `CodeStandsFor` (a code of PLLMUL is read back by the
driver and by the hardware as the same factor, at most the quotient, or eighteen
for seventeen), `ReportsHardware` (so each derived frequency is the hardware's, or
`Overstated` times it: that the hardware's own way of the oscillator to the PLL is
the driver's on a v307 is part of the proof, that it is half of it on a v203 too),
and the two bounds of the core's frequency.

**Devices** (`BoardProofs`, for `RatesFit`). `BoardInv` adds to `ClockInv` what
the set-up calls rely on. Before `main` nothing has been asked for and the devices
are as reset left them; `StartInv` has the two things start-up must have done by
then, the cleared `_us_tick_count` and the lowest priorities. While `main` runs
the clocks reported are `Settled(board)`, a function of the board alone, and the
hardware's are those or half of them (`MainClocks`), so a divisor that was right stays right. `DeviceInv` is `RunsAsAsked` with `TicksKept`
(the cached ticks of a microsecond are zero or those of this clock, also after a
reset that keeps the RAM) and `Silenced`. For each call a lemma says what it writes
and whose state it leaves alone (`...Does`), and one that all devices run after it
(`...Called`). A peripheral clock once on stays on, but for the one `can_deinit`
turns off. `ResetBits`: what `rcc_reset_peripherial` writes for I2C1 or CAN1 are
bits below 16, which hold neither of the two in reset, and bit 0 is among them, the
timer's. The rest is arithmetic: `BrrFits`, `CkcfgrFits`, `BtrFits`, `AtrlrFits`,
`DutyFits` and `DelayFits` put each divisor within one of the exact quotient, and
inside its register. `BoardTyped` and `DevicesRunAsAsked` follow.

**Pins** (`BoardProofs`, for `Quiet`). `PinsKeepTheirLevel` rests on `PinInv`:
the mode registers are what was asked for, and so is OUTDR, but between
`gpio_pin_init`'s read and write of it, when the value read and changed (`dr`)
is. Without `Quiet` the handler's change lands in a register that is about to be
overwritten.

**I2C and the clock** (`Ds3231Proofs`, for `BackToBack`). `ControlInv` is about
the line and the call. `BusInv` says what the controller can be in: a STOP is only
asked for while the bus is held, nothing is on the line that no phase allows.
`Starting` and `Addressed` say that between the request for a START and the answer
nothing else is going on, so ADDR is the answer to this address; `Connected` and
`Transferring` that the bus is held from then to `i2c_disconnect`; `Given` that in
between a STOP is on its way, or a START was given up. `DataInv` is about what is
read. `PointerSet` follows the byte that sets the register pointer from the buffer
to the line to the device, past two disconnects. `InOrder` says that what was
received and not yet read continues what was read, and the pointer continues that,
round the end of the registers, since the controller may take two bytes more than
asked for. `ConnectedIsHeld` and `ClockIsTold` follow, the latter with
`ReadsTheClock`, which says of each of the three registers that its parser undoes
its coding.

**printf** (`PrintfProofs`). `OutputIsCutToFit` is about the sinks. `CutToFit` by
itself is not inductive: it says nothing of a call under way. `MemInv` does: until
the terminator is written the buffer holds the output as far as it fits, and nothing
else; it needs `ReadInv`, by which `idx` is the number of characters put out and
width, precision and arguments are numbers and sequences, so that each field is a
text whose length is a number (`...Text`, one lemma for each formatter).
`DirectivesTakeTheirArguments` is about the reading. `OrderInv` says where the call
stands: at the start of piece k with the arguments that the pieces from k on name
still left (`AtStart`), or within it, before or after its width, precision and length
(`InWidth`, `InPrecision`, `AtLength`, `AtConv`). The difficulty is the loop over the
flags, which also takes the zeros that a width begins with, so the place in the
format does not say which part of the directive is being read: `InWidth` allows
flags and width together, and what matters is only that a `*` is not passed
unseen. No conversion of a piece is a character that a directive may have before it
(`Letter`), hence each loop stops where the part ends. `FlattenSeq` puts the pieces
together; that its value has each part at its place (`JoinedExists`, `FlattenLaid`)
is an induction over their number. It is done by the least counterexample on a set
of numbers (`SetInduction`), since the library's induction theorems take an operator
as a parameter. `LowDigits` is a recursive function, of which only the kind of its
value is used: what digits a number has is left to TLC.

The type invariants `DriverTyped`, `StdoutTyped`, `UsartTyped`, `LoopTyped`,
`BusTyped`, `BoardTyped` and, with `ListTraversal`, that of the list are theorems
as well. Every invariant and every action property that a passing run checks is
a theorem, but for `AsStandard`.

The SMT translation of tlapm 1.4.5 equates `DOMAIN s = 1 .. n` with `Len(s) = n`
for every value, sequence or not; together with a function over another range,
such as the mailboxes 0 to 2, that is a contradiction from which anything
follows. All modules were therefore also proved with that axiom cut down to the
direction that holds (`DOMAIN s = 1 .. n` implies `Len(s) = n`), and no leaf
needs the other.

TLC has checked each of these inductive invariants on its run's instance, that of
`OrderInv` with the places of the pieces computed (`Starts`, `Turns` are CHOOSEs).

Only model-checked: the liveness properties `EachCompletes`, `LinesGoOut`,
`EachByteSent` and `CallsReturn`, and the fairness half of `ImplementsService`
(ENABLED and fairness are outside the proof system's reach); `AsStandard`, whose
text of the standard (`Expected`) is a recursive operator, which the proof system
does not take, and which would need what the digits of a number are, an induction
over its value; and the violations, which are counterexamples.

## 5. Not modelled

- SPI, ADC and the advanced timer are register blocks without code. `afio_remap`
  routes a device to other pins, which the models do not tell apart. The vector
  table, the linker script, the host scripts and the
  demonstrations under `app/` that only call what is modelled are left out.
- CAN2, whose code is CAN1's; an automatic retransmission turned off, with which
  `CAN_TX_ERROR` could come up; `can_tx_req` from the receive callback while the
  main loop is in it, and `can_check_tx_complete` after a `can_tx_req` that
  failed, which shifts by more than the width of its operand: nothing says what
  either should do. Bit rates above an eighth of the bus clock set BTIMR to all
  ones.
- A delay in a handler during a delay of the main loop: there is one SysTick.
- Requests of length zero (DMA, USART): the headers do not say what they mean.
- Printing before `stdout_init`, as `app/buffered-stdio` does.

Noticed in the source, without a property: IOPC and IOPD have the same bit
(`rcc.h:76-77`); `app/i2c-scan/i2c-scan.c:91` calls
`i2c_connect` with two arguments where `i2c.h` declares another number, and does
not compile against it; `core_check_pfic_irq` (`core.h:239-247`), which is to check a bit, writes the
register; nothing calls it.

What could come next: an abstract character stream that the buffered output
implements when a line fits the buffer and no chunk goes round its end, and a bus
transaction that `I2c` implements, each with its step simulation proved.
The hazards that no property covers carry a note in PROJECT.json saying why.
