# A verification project for py32-hal

`py32-hal` is an async hardware abstraction layer for the PY32 microcontrollers
(Cortex-M0+), written in Rust for the embassy executor.  Paths below are
relative to the crate's `src/`.

## 1. Inventory

One core runs tasks (the executor's thread), interrupt handlers that preempt
them, and peripherals and DMA controllers that run concurrently with both.
Everything hard in this code comes from these three meeting in shared state:
registers, atomics in a static per peripheral, and buffers in memory.

| Component | State it keeps | Operations | What makes it correct |
|---|---|---|---|
| DMA channel (`dma/dma.rs`) | per channel: waker, `complete_count`; registers CR, NDTR, ISR | `on_irq`, `configure`, `start`, pause, stop, `Transfer` | every completion counted once, the waiting task woken, the channel disabled when it runs dry |
| DMA ring buffers (`dma/ringbuffer`) | `DmaIndex` of reader and writer | `read`, `read_exact`, `len`, `reset`, `write`, `write_exact`, ... | elements returned in order, none lost or invented; overruns reported, and only real ones |
| Timer time driver (`embassy/time_driver.rs`) | `period`, alarm `timestamp`, queue; CNT, SR, DIER, CCR | `now`, `schedule_wake`, `on_interrupt` | `now()` exact across counter overflows; no alarm early, missed or forgotten |
| SysTick time driver (`embassy/systick_time_driver.rs`) | `ticks`, alarm, queue | `on_systick`, `set_alarm`, `schedule_wake` | no alarm early or forgotten |
| Buffered UART (`usart/buffered.rs`) | two rings, two wakers, `tx_done`, a reference count | `on_interrupt`, `read`, `write`, `flush`, `set_config`, drops | bytes in order, no task left asleep, `flush` means transmitted |
| UART (`usart/mod.rs`) | wakers, reference count | DMA reads and writes, idle detection, errors | an error or an idle line ends the read exactly once |
| Ring-buffered UART (`usart/ringbuffered.rs`) | a readable ring | `start_uart`, `read`, errors, drop | background reception stops on error and restarts empty |
| EXTI (`exti.rs`) | a waker per line; IMR, RTSR, FTSR | `wait_for_*`, `on_irq`, future drop | no lost edge, no other line's mask disturbed |
| I2C master (`i2c/`) | the bus and the peripheral's state machine | blocking and DMA reads, writes, transactions | START, STOP and NACK placed as the operations promise |
| Flash (`flash/`) | lock bit, PG/PER/SER/MER bits | `blocking_write`, `blocking_erase` | locked when idle; a failed operation leaves no bit behind |
| ADC (`adc/`) | waker, sequence registers, a ring | conversions, ring-buffered sequence | a sample goes to the channel it was taken from |
| RCC (`rcc/`) | reference counts, frozen clocks | `init`, enable, disable | a clock stays on while someone uses it |
| Timers and PWM (`timer/`) | PSC, ARR, CCR; capture wakers | frequencies, duty cycles, dead times, captures | the rate asked for, within the registers' width; no lost capture |
| GPIO (`gpio.rs`) | the registers of each pin | sequences of register writes | a pin never drives what nobody asked for |
| USB glue (`usb.rs`) | none | clock and pins for an external driver | its protocol is external |

How they interact: a UART, an ADC or a ring buffer owns a DMA channel and calls
`AnyChannel`; the DMA interrupt wakes the task whose waker is in the channel's
static; the executor's timers call the time driver through
`embassy-time-driver`, and the time driver's interrupt wakes them through the
external queue.

## 2. Modules

| Module | What it models |
|---|---|
| `DmaIndex` | the position arithmetic of `DmaIndex` (`as_index`, `dma_sync`, `advance`, `normalize`, `diff`), parameterised by the capacity |
| `DmaChannel` | one channel: the registers, the controller that moves elements, `on_irq`, the operations of `AnyChannel` |
| `SampleStream` | the abstract specification of a readable ring: a stream of numbered elements, read in order, skipped only by a reset |
| `DmaReader` | `ReadableRingBuffer`, as steps of a task interleaved with controller and handler |
| `DmaWriter` | `WritableRingBuffer`, likewise |
| `TimeDriver` | the timer-based time driver with its interrupt handler and the external queue |
| `SysTick` | the SysTick time driver with the queue |
| `BufferedUart` | the buffered UART: a reading and a writing task, the interrupt handler, the peripheral's registers and line, and the life of the two halves |
| `Uart` | asynchronous reads of a plain and of a ring-buffered UART with errors, idle lines and DMA, and the transmitter's `flush`, with the interrupt enabled or, in a `UartTx` of its own, not |
| `I2c` | the I2C master: frames, blocking and DMA transactions, the controller, the bus and another master |
| `Exti`, `Capture`, `Adc` | waits for an edge, a timer capture, an ADC sample: a handler and tasks that share registers |
| `Flash` | `blocking_write` and `blocking_erase` and what the controller does with them |
| `Gpio`, `Rcc` | operators: the register writes that configure a pin; peripheral clocks with reference counts |
| `Drivers` | constructors, reconfigurations and drops of every driver, on shared pins and clocks |
| `ClockTree` | `rcc::init` of the three chip families, one register write or wait at a time, and the frozen frequencies |
| `Rates` | operators: baud rate, timer, PWM, dead-time, I2C and ADC divider arithmetic |
| `Chip` | a driver computes its dividers from the frequencies that `ClockTree` froze |
| `Firmware`, `MCFirmware` | composition of `Drivers`, `Chip`, `Flash`, `SysTick` and `DmaWriter`; its pins and peripherals for TLC |
| `Peripherals` | composition of `Exti`, `Capture`, `Adc` and `Uart` |
| `TimeAndI2c` | composition of `TimeDriver` and `I2c` |
| `DmaReaderProofs`, `TimeDriverProofs`, `BufferedUartProofs`, `PeripheralsProofs`, `FirmwareProofs`, `I2cProofs` | theorems about the modules they are named after |
| `DmaIndexProofs`, `DmaWriterProofs` | lemmas: the position arithmetic, for both sides of the ring; the writing side's invariant, for `FirmwareProofs` |

The three compositions put next to one another drivers that share no state in the
code (beyond the clock frequencies, and the time that I2C's timeouts are measured in,
which `I2c` lets expire at any moment): a behaviour follows one of them (`story`,
`part`, `service`), so that one run explores each and no product of them.

### How the models correspond to the code

**Preemption.**  DMA interrupts have the highest priority by default
(`lib.rs:105`), so in `DmaReader` an interrupt that is pending is served before
the task takes another step (`~IrqPending` guards every task step), while the
controller may move elements between any two steps.  The time driver runs
everything but `now()` in critical sections; its variable `cs` is the critical
section in progress, and the counter ticks between any two of its steps.

In `BufferedUart` the handler is three steps: it reads SR and DR; if TC was up it
reads SR again and writes back what it read with TC cleared
(`usart/buffered.rs:89`), which also clears the RXNE of a byte that came in between
(`cleared` counts these); it looks at TXE and writes DR.  Each task's poll is cut at every access to what the handler shares, and the line moves
between any two steps; the two tasks share one executor, so only one poll is in
progress (`InPoll`).

**Granularity.**  Every access to something the hardware or a handler also
touches is a step of its own: taking the completion counter, reading NDTR,
copying one element, reading the status register, clearing it, writing the
compare value, enabling the compare interrupt.

In `Exti`, `Capture`, `Adc`, `Uart` and `I2c` the steps are the accesses to registers that
the handler or the hardware also touches.  Exti's handlers all have one priority
above the tasks', so a handler is not interrupted by another, but edges come
between its read and its clearing of the pending bits.  In `Uart` the DMA
controller and the handler come before the next step of a task.  `Drivers` runs a
constructor as one step with the exception of the pins: these are written one
register at a time (`todo`), because the outside world sees each write.  The order in
which a constructor takes its pins is not modelled: `CHOOSE` picks the next of the
`untouched` roles, so TLC explores one order and the proof covers all of them.

**Numbers instead of data.**  Elements are numbered in the order the controller
moves them (`pass + pos` have been moved) and the buffer holds the numbers, so
"intact and in order" is a statement about numbers (`IntactRead`).  `next` is the number of
the element at `read_index`, the only history variable beside `delivered`.

`DmaWriter` does the same for the outgoing stream: `slots` holds numbers, and `missed`
the numbers that were not in their slot when the controller came.  `Uart` numbers
the bytes of the line; `Adc`'s samples are the channel they were taken from.
`Flash` keeps of a page whether it is erased, programmed or programmed over.
`I2c` keeps the wire as the sequence of its conditions and bytes.

`BufferedUart` only counts bytes: `written - popped` are in `tx_buf`, and `tdr` and `shift` hold
the number of the byte in the data and in the shift register, 0 for none.

**External code.**  `embassy-time-queue-utils`' `Queue`, the executor (a task
that is `woken` is polled again) and the hardware are modelled from how the code
uses them and are marked external in the map.

## 3. What the runs check

| Run | Shows | Bounds |
|---|---|---|
| `dma_reader` | Reads are intact and in order while the controller writes (`IntactRead`), the ring implements `SampleStream` (`StreamSpec`), a parked `read_exact` has seen everything up to the last half-buffer boundary (`NoLostWakeup`), `stop()` returns (`StopCompletes`) | four slots, ten elements (two and a half passes, so the reader is lapped twice), reads of up to three |
| `time_and_i2c` | time driver: `TimeTypeOK`, `NowIsExact`, `NoMissedAlarm`, `AlarmIsEarliest`, `NeverEarly`, `EveryTaskWoken`; I2C: `TypeOK`, `WireContract` (what is on the wire is what `embedded_hal` promises), `ErrorIsReal`, `QuietWhenIdle`, `NoLostWakeup`, `Completes` | periods of four ticks, eighteen ticks (two turns of the counter and a quarter), two tasks, alarms at four times: just before a period begins, as it begins, just after, and at the last moment the lookahead allows, two of them more than a turn ahead; up to three operations of up to two bytes over all transactions: all frame options, a merged group, a group of more than one byte with its early NACK |
| `buffered_uart` | `Accounted` and `SentInOrder` for the bytes; `ReaderWoken`, `WriterWoken`, `FlushWoken` for the tasks; `EverythingSent`; with futures cancelled, `set_config` succeeding and failing, halves dropped in either order and the driver built again | rings of one and two bytes, two bytes received (ring full, and data register overrun), five written (twice round the ring, and one more than ring, data and shift register hold, so that a writer waits for room and goes on) |
| `firmware` | `ClockSafe`, `FrozenFrequencies` and `SettingFits` for the clocks; `PinsWellDriven`, `ClockedWhileUsed`, `ReleasedWhenDropped`, `InterruptServed` for the drivers; `FlashContract`; `WokenInTime`; `WriterContract` | clocks: three chips, every source and prescaler 1 and 8, HSI divided by 1 and 128, HSE at its limits, rates from one that needs the largest prescaler to one that is refused; drivers: three calls (a driver, one that collides with it, a third after a drop) on four pins on which roles meet, a user timer that shares its enable bit with the time driver's; flash: four pages in two sectors, either of them protected, unaligned and outside ranges, any number of calls, also after an erase that failed; three sleepers and six ticks; a ring of three slots that is sent twice over, writes of up to two |
| `peripherals` | `WaitsAreTruthful` and `WaitsEnd` (EXTI, capture, ADC); `ReadIsTrue`, `QuietOutsideRead`, `ReadEnds`, `FlushEnds` (UART) | two lines with a level wait and one for any edge, two capture channels, two ADC inputs, buffers of one and two bytes and a ring of two (its half and its end; an overrun of the ring takes a third byte, and only the proofs cover it), two bytes received |
| `buffered_uart_flush` | violated: `FlushMeansSent`, the first `flush` does not wait | two bytes written |
| `dma_reader_window` | violated: `NotOverwritten` when the timing assumption of `dma_sync` is dropped | fourteen elements |
| `dma_reader_reused_channel` | violated: `NothingInvented` when a plain transfer ran on the channel before | one transfer |
| `dma_reader_after_stop` | violated: `OverrunIsReal` when the ring is read after `stop()` | as `dma_reader` |
| `uart_split` | violated: `FlushEnds` with the two halves in tasks of their own (`Split`) | one byte received |
| `uart_latent` | violated: `LatentErrorEnds`, a parity error that is pending when a read with `detect_previous_overrun` begins is not reported | one byte received |
| `uart_tx_only` | violated: `TxFlushEnds`, nothing wakes the `flush` of a `UartTx` of its own | no byte needs to be received |

Deadlock checking is off because the bounds (`MaxElements`, `MaxTime`,
`MaxArrived`, `MaxWritten`, `MaxBytes`, `MaxOps`, `MaxCalls`, `LastTick`, one setting in
`Chip`) let the hardware stop and the callers run out of calls.

The definitions marked "Mutant" stand next to the definition they replace: each
is a plausible bug, and each property of a passing run is violated with one of
them in place.

### Assumptions the passing runs make

* `RaceFree`: between the two loads of a `dma_sync` the controller does not wrap
  while it is already a pass ahead of `write_index`, nor at all within
  `reset()`.  The code does not ensure it; `dma_reader_window` shows what
  happens without it.
* `PriorTransfers = 0`, `ReadAfterStop = FALSE`: see the two other violated runs.
* A transfer-complete interrupt is served within one pass (`MoveElement`'s guard
  on `tcif`): the flag is one bit, so the code cannot count two passes from one.
* `TimingAssumption`: a period interrupt of the time driver is served within half
  a period (half a second at 32768 Hz) and a thread's `now()` is not held up for
  longer than the rest of a period.  The half period is exactly the slack
  between a period's start and the first alarm `next_period` enables; `now()`
  alone would do with a whole period.

* `BufferedUart`: a poll is shorter than a frame (`fresh_rx`, `fresh_tx`: what begins
  on the line during a poll does not end in it).  What began before a poll may end at
  any point of it, between `flush`'s load and its registration too, where the code
  loses the wake-up: `FlushWoken` therefore speaks of a completion that comes once
  `flush` waits, and not of one that came while it was getting there (section 5).
* `Quiet = TRUE`: `set_config` and the drop of the writing half happen only when
  everything has been sent and `tx_done` is set.  Otherwise `configure` clears the
  transmit interrupt enables and the rest of the ring stays where it is, and
  `tx_done` survives as FALSE into the next driver.
* The handler's first read of SR and that of DR are one step, as its comment asks
  (`usart/buffered.rs:41`); ORE comes with RXNE only.  `AtomicWaker` is taken by
  its contract: a wake reaches the waker registered last.

* `DmaWriter` excludes what `RaceFree` excludes for the reader: a wrap between the
  two loads of the second `len()` of a write the controller has already
  overtaken (the write would succeed although elements went out stale), and
  within `reset()`.  The channel ran no plain transfer before.  Its `stop()` waits
  for the end of the pass, not for the end of the queued elements, whatever the
  doc at `dma/dma.rs:848` says; the model follows the code.
* `I2c`: the driver goes on within the time of a byte (`Prompt`), and `settled`
  excepts transactions that begin while a START, STOP or flag of an abandoned
  one is still to come: neither a timeout nor a cancellation nor an error
  releases the bus, so the next transaction may fail with an error of the last.
* `Uart`: DMA controller and handler are faster than a byte and than the tasks; of
  the bytes that end within the few instructions that enable a reception, at most
  one finds DR empty or holding a byte of before.  An error between the check of DMAR,
  or a reading of SR, and the reading of DR after it is lowered unseen and the read
  waits on: `ReadEnds` is about errors that come at any other time of the wait, with
  their interrupt enabled.  `uart_latent` shows how that of parity errors gets lost.
  With `Split = FALSE` one task uses a UART.  `FlushEnds` is about the drivers whose
  interrupt is enabled (`Served`), and `uart_tx_only` about the one whose is not.
* `Adc`, `Capture`: a cancelled wait leaves its conversion running, or its channel
  capturing; `undisturbed` and `backlog` name the next wait, which may get it.
* `Flash`: write protection is by whole sectors.  Programming with an erase bit set, and
  erasing with both, is not defined: the page's sector may hold anything after it,
  and the operation may end in any way (`Outcomes`).  The driver does both when an
  erase has failed before, and nothing keeps a caller from it, so the model does too;
  `clean` says that a call found no other kind's erase bit set.  For the others
  `FlashContract` only promises that the controller is locked with PG clear, and that
  a refused range changes nothing.
* `I2c`: `WireContract` is about transactions whose STOP is out; a bus on which it never
  comes is `Completes`' matter.  Another master wins the arbitration only during
  the address bytes.
* `Drivers`: `InterruptServed` is about receivers and buffered UARTs; a `UartTx` of its own
  has no interrupt (`uart_tx_only`).
* `SysTick`: a tick is served before the next one comes.  A flash operation runs in
  a critical section that is longer than that, and ticks are then lost.
* `Drivers`: constructors of one executor do not interleave.  `handed` excepts pins
  that timers and MCO leave connected when they are dropped.
* `SettingFits` claims the widths of all registers, CCR's 12 bits too: the code cuts the value
  to them (`% CcrLimit`).  What it does not claim is the speed of a CCR that was cut, and
  the length of a dead time of 128 ticks or more, see section 5.

### Fairness

`DmaReader`: the peripheral keeps producing, a pending interrupt is served, the
executor polls a woken task.  Nothing is assumed of the caller, who may never
call again.  `TimeDriver`: time passes, a critical section ends, and (strongly
fair, because critical sections hold it off again and again) a pending interrupt
is served and a thread's `now()` returns.  `BufferedUart`: the line and the
handler go on as long as one of them can (weakly fair together, which is less than
the hardware does); a woken task is polled (strongly fair, because the other
task's polls and the handler come in between again and
again).  No fairness is assumed of the callers: whether to read, write, cancel or
drop is theirs.  The leads-to properties end with `~irq`: a failed `set_config`
leaves the interrupt disabled, and then nobody is woken.

`TimeAndI2c` has the fairness of both; the time driver's clock ticks only in the
behaviours that exercise it.  `I2c`: the controller, the interrupt, the driver and the end of another master's
transfer are weakly fair, a pending START strongly, because another master may
take the bus again and again.  `Exti`, `Capture`, `Adc`, `Uart`: handlers and hardware are
weakly fair; the polls of a woken task are strongly fair where handlers interrupt
them again and again (`Exti`, `Uart`).  `firmware` checks safety only.

## 4. What is proved

`DmaReaderProofs`, for every buffer size from 2 to 65535, every number of
elements and every read length:

* `TypeCorrect`: `Spec => []TypeOK`, whatever the hazard switches say.  It needs
  `ReadableInv`: a read in progress never returns more than the caller asked for.
* `ReadsAreIntact`: `Spec => []IntactRead`, under `RaceFree`, `PriorTransfers = 0`
  and `~ReadAfterStop`.
* `NothingIsInvented`: `Spec => []NothingInvented`, under the same assumptions.

`IntactRead` speaks of the last read only and is not inductive.  `IInv` adds
what the code relies on without saying so:

* `BufferInv`: each slot holds the last element of its residue the controller wrote.
* `Counted`: the pass in progress is the pass of `write_index` plus the completions
  not yet taken into it, wherever they are: in the flag, in the counter, or in
  the local `count_diff` of a `dma_sync` in progress.
* `CopyInv`: a copied element is the expected one, or the controller has lapped
  the reader, and then the second `len()` is going to find more than a buffer full.
* `CircularInv`, `UnbuiltInv`: what holds before the ring is built and while it runs.

The heart of the proof is `SyncFacts` (what a `dma_sync` finds lies between what
the last one found and what the controller has moved), `WriteSync` (a step of the
controller never lowers it, given `RaceFree`) and `SlotElement` (the slot
`read_buf` looks at holds the expected element unless it has been lapped).

`WakeupNeverLost` (`Spec => []NoLostWakeup`, under the same assumptions) adds
`WakeInv` to `IInv`: while a `read_exact()` is polled its waker is registered or has
been woken, and a pass completed after the second `dma_sync` took the counter has
woken it.  When it goes to sleep un-woken no pass is uncounted, and then
`SyncFindsAll` says that the `dma_sync` found everything that had arrived.

`ImplementsStream` (`Spec => StreamSpec`, under the same assumptions) is the refinement
that the run `dma_reader` checks.  The refinement mapping replaces `produced` by
`Moved`.  `IInv` decides every step: a failed `len()` is an overrun that happened
(`FailIsOverrun`, so `DmaUnsynced` is never reported), a read that returns delivers
expected elements (`ReturnedElements`); `ResetReason` adds that a reset follows an
overrun or a `clear()`.

`TimeDriverProofs`, for every period, latency, set of tasks and alarm times that
satisfies `TimingAssumption`:

* `NowExact`: `TimeSpec => []NowIsExact`.
* `NeverWokenEarly`: `TimeSpec => NeverEarly`, which follows because the queue is
  cleared of what has expired by `now()`.

`NowIsExact` does not say why the software's count is right.  `ClockInv` does:
`Lag` (the count is at most one period behind), `Accounted` (a period start not
yet counted is known by exactly one flag, in the register or in the handler's
snapshot, the overflow's or the midway point's by the parity of the period),
`Snapshot` (a flag is cleared before it is counted) and `LoadedInv` for a thread
in the middle of `now()`.  `CounterAt` says what the register shows k ticks into
a period, and `CalcNow` that `calc_now` undoes it.

* `DriverTypes`, `AlarmEarliest`, `AlarmNeverMissed`: `TimeTypeOK`, `AlarmIsEarliest`
  and `NoMissedAlarm` are invariants.

For these, `AlarmInv` adds to `ClockInv` that no task in the queue is due before `timestamp`
except while the handler clears the queue (`AlarmSet`), and that an alarm which is
due while nobody programs it is flagged and enabled, or was when the handler read
the registers (`AlarmDue`).  The step that needs `ClockInv` is `FarIsLater`: an
alarm whose interrupt is left disabled is further away than the end of this
period, however late that end is counted, so that `next_period` is still in time
to enable it.  `SnapshotFresh` says that the enable bits the handler read are
those in the register until it has acknowledged the flags.

`BufferedUartProofs`, for all lengths of the rings and both settings of `Quiet` and
`BlockingWrite`:

* `TypeCorrect`: `Spec => []TypeOK`.  The rings are never over-full, and `Halves` says that
  the reference count is the number of halves alive.
* `NothingMislaid`: `Spec => []Accounted`.  Bytes whose RXNE the handler's write-back clears are among
  those it accounts for (`cleared`); it does not say that there are none.
* `SentOrder`: `Spec => SentInOrder`.  The invariant behind it is `OnTheLine`: the bytes in
  the shift register and in DR are exactly those between `sent` and `popped`, and
  DR is empty when the shift register is.  It holds because the handler writes
  DR only after it has seen TXE, in the same step that pops the byte.

Each of the four parts of `IInv` (`TxInv`, `RxInv`, `Halves`, `Control`) is inductive by itself, so
each has a step lemma of its own that treats the actions touching it one by one
and the others by a frame lemma.

`FirmwareProofs` proves every property of the run `firmware`, each for the part of the
composition it is about: a step of `FirmwareSpec` is a step of the one part whose
`story` is told, and leaves the others alone (`OneStory`).

* `AlwaysWokenInTime` (`SysTick`), for every set of tasks and every tick bound.  The one
  arithmetic fact is `SetAlarmInTime`: the loop around `set_alarm` leaves the alarm at the
  earliest task left in the queue and in the future.  It takes `Min` of a set of
  naturals, whose existence follows from the library's well-founded induction.
* `FlashContractHolds`, for every size of flash and sector and every protection, for all that a
  call promises, calls after a failed erase included.  `LoopInv` says of the loop of a `clean`
  call that the pages before `from` are done and the others untouched; that whole sectors are erased and nothing beyond the range is
  `NextMultiple`: both ends are multiples of a sector.
* `WriterContractHolds`, for every buffer size, number of elements and length of a
  write (`WriterInv`, in `DmaWriterProofs`).  `TrackInv` says that `read_index` lags the controller by passes that
  are counted somewhere, and `WriteInv` that a write which was overtaken before its
  second `len()` finds the lag there, because no pass ends between the two loads.
* `ClocksAlwaysSafe` and `FrequenciesAlwaysTrue`, for all three chips and all frequencies and
  prescalers: `SwitchInv` (what the system runs from, step by step), `SourceInv` (no
  oscillator is stopped once it may be in use) and `WrittenInv` (what each register
  holds once it is written).  The first has a hypothesis: `HseWithinFlash`, an external clock of at most
  48 MHz.  On the f002b `init` takes any external clock.  The frequencies need no hypothesis.
* `SettingsAlwaysFit`: each divider with its own lemma on integer division (`BrrIsNearest`,
  `PeriodIsLongest`, ...), and the width of each register.  It has no hypothesis.
* `DriversAlwaysClocked`, `DriversAlwaysReleased`, `InterruptsAlwaysServed`: any number of calls, any
  assignment of enable bits to peripherals.  `Counts` says that the enable bits set are those of
  the parts in use and that a shared one has as many references as users;
  `HalvesInv` that each half of a UART is counted once, as plain or as buffered.  The
  promises hold only between calls, so the invariant says what holds in the middle
  of one (`doing`).
* `PinsAlwaysWellDriven`: `Settles` says of the writes to come, and not only of the next one,
  that they leave the pin silent until the last and bring each register to the
  value its function asks for.  That holds for each sequence `Gpio` builds
  (`AfSettles`, `GpioSettles`) because the mode is written last and a
  pin is analog before, and each write keeps it (`SettlesStays`).

`PeripheralsProofs`, for all lines, channels, inputs and buffers: `WaitsAlwaysTruthful`,
`AlwaysQuietOutsideRead` and `ReadsAlwaysTrue`.  `PeripheralsInv` is one invariant for each part of the
composition: `EdgeInv` relates a future's place in its poll to the mask and trigger
registers, `CaptureInv` and `SampleInv` say what a flag found set, or an interrupt found
masked, stands for (a capture of this wait or one nobody took; a conversion of this
read), `QuietInv` says which interrupts belong to which place of a read, and `TrueInv`
which bytes a read has: consecutive ones that the byte in DR, or the next on the line,
goes on from; and that only the last can have come with an error whose interrupt was
enabled, whose flag is still up.  In the ring, what is missing between two elements came with an error.

`I2cProofs`, for all bounds on transactions, frames and the bus, on three invariants, each
inductive on top of those before it:

* `TypeCorrect`, `AlwaysQuietWhenIdle`, `WakeupNeverLost`.  The parts of `Inv` are `Place`
  (which steps a frame can be at, and how much of it is left there), `Waits` (only an
  asynchronous transaction is suspended, and it never enters the blocking loops),
  `Quiet` (interrupts and DMA requests are off in blocking transactions and between
  transactions) and `Asleep` (a wait that sleeps un-woken has its interrupts enabled, and
  its DMA transfer, if it waits for one, has not ended).  The steps of the controller
  and the bus touch few of the variables; `BusFrame` and `ControllerFrame` say so once.
* `ErrorsAlwaysReal`, prompt or not.  `ErrorInv` is `BusInv` (the register's bits mirror the
  phase of the bus), `OwnInv` (after its first START the bus does what this
  transaction asked for, the blocking loops leave no byte on the wire, a read provokes
  no error), `EndInv` (a transaction that ended by itself leaves no error behind, nor
  one to come) and `SettledInv` (on a settled bus nothing happens until the first
  START, and every flag seen after it is on the wire).
* `WireAlwaysConforms`, under the hypothesis `Prompt`.  `LinkInv` says for every place of
  a frame what the wire, with the bytes still in DR and the shift register (`Flowing`),
  has got to: `Before(frame)` and then `Upto(k)`, k bytes into the frame; and what is
  programmed for the bytes to come (ACK, LAST, the STOP).  `Prompt` is used once, in
  `ReceiveLink`: without it a byte can be answered before the driver has said how.
  `Contract` concatenates the parts of all operations with `FlattenSeq`, a recursive function;
  what it does when a sequence grows by one (`FlattenGrows`) and that the result is a
  sequence of symbols (`BeforeTypes`) follow from the least counterexample
  (`Least`, from the well-foundedness of < in the library).

Every invariant and action property of the passing runs that does not speak of
liveness is stated by a theorem.  Model-checked only: the liveness properties.

## 5. Hazards without a property

`PROJECT.json` lists the hazards of this code with the property that would catch
each.  Two have none: a `set_config` and a drop of the buffered UART during a
transmission (`EverythingSent` and `FlushWoken` fail with `Quiet = FALSE`, and no
doc speaks of it).  What the code does wrong in these cases no run shows, because no
statement of the repository contradicts it or because another run has the place; the
models contain all but the last of them, and the properties name them:

* `BufferedUartTx::flush` loads `tx_done`, the handler sets it and wakes nobody, and
  the waker is registered afterwards (`usart/buffered.rs:521-522`): the task sleeps until
  something else wakes it.  `writer = "flushing" ~> writer # "flushing" \/ ~irq` is violated by
  it: the last frame ends, and the handler runs, between `flush_loads` and `tx_registers`.
* The handler of the buffered UART clears TC by a read and a write of SR
  (`usart/buffered.rs:89`).  A byte that comes in between loses its RXNE and is never
  read although the ring has room: `cleared = 0` is not an invariant.  The time driver's
  handler explains why it avoids this (`embassy/time_driver.rs:279-281`).
* An erase that fails leaves PER or SER set (`flash/low_level.rs:100-108`), and the next
  operation sets PG, or the other erase bit, beside it.
* An I2C speed that takes a CCR of more than 12 bits is not refused: at 24 MHz and
  1 kHz CCR is 12000 and 3808 is written, for 3.2 kHz (`i2c/v1.rs:788-851`).
* `compute_dead_time_value` encodes its two longer ranges without the bits that select
  them (`timer/complementary_pwm.rs:253`, `:255`): 400 ticks become 32 + 400/8 = 82, which the
  generator reads as 82 ticks.  The comment says (`timer/complementary_pwm.rs:215`):
  "DTG[7:5]=110 => DT=(32+DTG[4:0])xtdtg with Tdtg=8xtDTS."  The unit test has the code's value.
* An error found by `check_for_errors` at the beginning of a ring-buffered read does
  not stop the reception (`usart/ringbuffered.rs:157`), where the doc says that it is
  terminated (lines 145-146).
* An error of a UART reception between two reads of SR and DR is lowered unseen
  (`usart/mod.rs:757`).
* The alignment of the ADC's ring: it is cleared after the conversions have started
  (`adc/ringbuffered_v2.rs:239`), so the first element need not be the first channel's.

Met while modelling and outside the properties:

* Port registers are read, modified and written without a critical section
  (`gpio.rs:108`), and a rebuilt MODER of a shared port can undo another task's.
* `set_config` on a half-duplex UART clears HDSEL; a failed one leaves UE off and the
  interrupt disabled (`usart/mod.rs:1312`).
* `get_frequency` of a timer divides by ARR where the period is ARR + 1, and fails when
  ARR is 0 (`timer/low_level.rs:341`).
* An asynchronous I2C operation has no timeout, and an empty one panics in the DMA
  transfer's assertion although `Error::ZeroLengthTransfer` exists.
* The next input capture may return at once with an edge captured between two
  waits (`timer/input_capture.rs:132`).

## 6. Not modelled

* The ring-buffered ADC sequence, the blocking and nb forms of the plain UART,
  breaks and the half-duplex turn-round; setters of single timer fields; I2C's
  packet error checking and bus errors; DMA request multiplexing, priorities and
  transfer errors (a panic).
* USB glue, logging, units, the unique id, the interrupt-binding macros and the
  generated peripheral tables: no state, or generated.
* Liveness, and what recursive definitions compute, are out of the prover's reach
  and stay with TLC.
