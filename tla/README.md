# GhostBlade / apex-one: TLA+ verification project

The repository is a handheld radio device made of a Linux host (RK3576) and a
coprocessor (RP2350B) joined by one SPI bus and one interrupt line, `INT_REQ`.
This directory models its firmware, its Linux driver and the user library on top
of it, most finely where interrupts, threads, resets and lost or late messages
meet, checks them with TLC on small instances, and proves the most important
invariants with TLAPS for every value of the constants.

`PROJECT.json` lists the components, runs, mutants, source map, findings, hazards
and theorems. Source paths below are relative to `src/`.

## 1. Inventory

| Component | State it keeps | Operations | Hard behaviour |
|---|---|---|---|
| `firmware/rp2350b/src/spi0_isr.c` | receive buffer, assembly state, response buffer, pin | interrupt handler, `get_frame`, `release_frame`, `queue_response` | the interrupt preempts the main loop between any two stores; frames are handed over in place |
| `sdr_dma.c` | ring of IQ blocks, two pointers, a count | DMA interrupt, `start`, `stop`, `get_block`, `release_block` | lock-free producer and consumer, start and stop on a third thread, overrun at the ring's limit |
| `rp2350b_init.c` | byte ring with head and tail | weak `spi0_handler`, pin setters, register set-up | lock-free ring, full against empty |
| `spi_protocol.c` | assembler context, device state, transmit ring | `process`, six command handlers, telemetry, IQ chunks | arbitrary byte streams; buffers kept from frame to frame; two cores that write one ring |
| `main.c`, `watchdog.c`, `battery_monitor.c` | loop flags, cached voltage, scratch registers | boot, main loop, brownout check | resets between any two calls; state that survives them |
| `sleep_wake.c` (in no build, called by nobody) | sleep state, activity tracker, wake flag | `process`, `force_wake` | bytes and wake requests in the middle of a transition; calls that wait for the other core |
| `linux-drivers/src/apex_bridge.c`, streaming engine | pool of buffers, engine state, index, completion | start and stop ioctls, work item, DMA callback | work item without a lock, free while a transfer is in flight, timeouts |
| the same, device file | open count, FIFO, cached telemetry, flags, PM count | open, release, read, write, ioctls, sysfs attributes, interrupt, work item, suspend, resume | races of release with open, of an unlocked wipe with readers, of power management with an edge interrupt |
| the same, binding | what probe has acquired | probe with seven error exits, remove | an interrupt between two steps of either |
| `peripheral_power.c` | state and pin of six rails | rail on and off, on and off sequence | resets and single-rail calls between the steps of a sequence |
| `adc_calibration.c` | coefficients in RAM and in flash | load, apply, factory calibration | power lost during erase and program; integer arithmetic |
| `battery_monitor.c` | power state, brownout flag | conversions, flags, power state machine | thresholds that meet, hysteresis, fixed point |
| `cc1101_init.c` | none; the chip's registers and FIFOs | initialise, band, receive, send, sleep, FIFOs, power | waits that time out half way; status reads the chip takes as commands |
| `st25r3916_init.c` | none; the chip's field and flags | initialise, field, REQA, transaction | a tag that answers late; flags that outlive their exchange |
| `lms7002m_driver.c` | driver record | initialise, channel, synthesiser | gaps between divider ranges |
| `libapex/src` | handle with its last error | commands and telemetry, in C and Python | each layer checks and converts again, by its own rules |
| device tree, hardware, tools, tests, docs | none | none | no behaviour of their own; tests and docs are read as claims |

Interactions: host writes reach the MCU as bytes in the SPI0 FIFO; the SPI0
interrupt either assembles frames itself (`spi0_isr.c`) or fills the byte ring
(`rp2350b_init.c`) from which `spi_protocol_process` assembles them; a valid frame
is dispatched to a command handler; responses and telemetry go into a transmit
buffer and `INT_REQ` falls; the driver's interrupt queues a work item that reads
one frame over SPI, caches telemetry and wakes readers. On the MCU the DMA
interrupt, the SPI0 interrupt and the main loop share memory without locks; on the
host the ioctls hold `sg_lock`, and the work item and the DMA callback do not.

What makes each correct: a frame in use never changes and a receiver never stays
deaf; a ring loses nothing it has accepted and keeps the order; a dispatched
command is one that was sent; reported state is the state of the hardware; a
brownout reset is recognised; a call that has a reason to wake wakes; no transfer writes into
freed memory; a stop ends what it stops and returns; power references balance; an
edge leads to a transfer; rails come up and go down in order; a transmitter is not
left on; an answer belongs to its request; coefficients in use are whole; what a
program asks for is what the hardware does, and what it is told is what was
measured; an unbound driver holds nothing. Where the code falls short of this, or of
what its own comments, headers, tests or documents promise, the promise is a property
that TLC refutes (section 4), and the property beside it says what does hold.

## 2. Modules

| Module | Models | State and actions against the code |
|---|---|---|
| `SpiFrame` | the wire format | A field of several bytes is one cell, a checksum an arbitrary function of what it covers (`Crc64`, `Crc32`). |
| `Spi0Isr` (`MCSpi0Isr`) | `spi0_isr.c` | `rx` and `tx` are the two static structs. The handler's loop round is `IsrByte`, its end `IsrExit`. `release_frame` and `queue_response` are one action per store, because the handler may come in between. `GpioRead`/`GpioWrite` are the read-modify-write of another pin of the same register. In `MCSpi0Isr` a behaviour looks at one `side`: bytes received, or responses sent. |
| `SdrDma` | `sdr_dma.c` | One action per memory access of the consumer and of `start` and `stop`, which run on a thread of their own because nothing in the tree says on which core they are called; the handler is atomic. A block's content is the number of the capture that filled it, or that it is wiped. |
| `ByteQueue`, `RxRing` | `rp2350b_init.c`, weak `spi0_handler`; the drain loop of `spi_protocol_process` | `ByteQueue` is what the ring promises, `RxRing` how it does it. |
| `SpiParser` (`MCSpiParser`) | frame assembler of `spi_protocol.c` | One action per byte; the context keeps three buffers with their old contents. |
| `McuMain` | `main.c` with the handlers, telemetry and transmit ring of `spi_protocol.c`, brownout hysteresis, scratch register 7 | One action per call of the loop; `Reset` between any two and during the boot. The copy loop of `build_response_frame` is one step per cell, on core 0 for telemetry and on core 1 for an IQ block: nothing in the tree calls `spi_protocol_send_iq_chunk`, but its comment (`spi_protocol.c:775`) and `main.c:87` name the caller. |
| `SleepWake` | `sleep_wake.c`, the loop of `core1_entry` | `sleep_wake_process` step by step: wake, read, decide, reset of the tracker, entry. A call begins at any time or never. The two inter-core calls wait as the SDK's do: the push for room in the FIFO, the launch for an answer core 1 does not give. |
| `ApexSg` | `apex_bridge.c` 1584-1929 | The ioctl thread (one, because of `sg_lock`), the work item and the callback; the kernel's work queue and completion are modelled by their contract. An item that has stored IDLE is on its way out until it returns, and a stop or a start may come in between. |
| `ApexBridge` | `apex_bridge.c` 426-1013, 1996-2258 | Processes, interrupt, work item, runtime and system power management. Open is two steps (exchange, power), release two (count, wipe). |
| `BridgeLifecycle` | `apex_bridge.c` 351-414, 538-546, 1996-2178 | One step per acquisition or release, and the work item that the interrupt may start in between. A process that holds the file across an unbind through sysfs is outside the module. |
| `PeripheralPower` | `peripheral_power.c` | A call takes one step per rail, two when it ramps; `PowerReset` between any two, after which each pin has dropped or kept its level. |
| `Cc1101` | `cc1101_init.c`, chip select in `rp2350b_init.c` | A call is one step, with the outcomes its waits can have. A status read is the strobe of its address, as the chip takes it without the burst bit, and returns the chip status byte; bytes in the FIFOs carry the carrier they belong to. |
| `St25r3916` | `st25r3916_init.c` | REQA and the transaction are one action per register access that matters, with the tag in between. |
| `AdcCalibration` | `adc_calibration.c` | Erase, program and verify are steps; power lost during one leaves a torn record, whose bytes sum to anything. Erased flash is 0xFF. Products that wrap in C wrap here. |
| `BatteryMonitor` | `battery_monitor.c` | The conversions are functions of the raw reading; reading and `power_state_update` are one step. The true temperature is kept beside the one computed. |
| `Lms7002m` | `lms7002m_driver.c` | What works without `initialized`, which never becomes true; frequencies in 10 kHz. |
| `HostCommands` | command functions of `pyapex.c` and `libapex.c`, the ioctls, the handlers of `spi_protocol.c` | A request goes through `PyRequest`, `LibAccepts` and `LibFrame`, `DriverAccepts`, the link, and `dispatch_frame`. It is recorded as the caller gave it, before any layer converts it. |
| `HostTelemetry` | `collect_telemetry`, telemetry frame, `last_telem`, its readers | Values travel as 16-bit words; each carries, as history, the measurement it comes from. The ioctl copies all words under one lock, a sysfs attribute is one word under a lock of its own, and the wipe of release goes word by word without it. Readers change nothing: they are operators, and the property applies them at every moment. |
| `MCUnits` | `SdrDma`, `RxRing`, `SleepWake`, `PeripheralPower`, `Cc1101`, `St25r3916`, `AdcCalibration`, `BatteryMonitor`, `Lms7002m`, `HostCommands`, `HostTelemetry` and `BridgeLifecycle`, which share no state | `focus` names the one component that moves, so the state space is the sum of theirs. The next-state relations are those of the modules. |
| `SdrDmaProofs`, `Spi0IsrProofs`, `SpiParserProofs`, `McuMainProofs`, `ApexSgProofs`, `ApexBridgeProofs` | theorems about the module each extends | |
| `DriverProofs` | theorems about `St25r3916`, `PeripheralPower`, `Cc1101`, `BatteryMonitor`, `Lms7002m`, `AdcCalibration`, `RxRing` and `SleepWake`, one section each | A component's specification, such as `NfcSpec`, is its Init and Next and leaves the variables of the others free. |
| `HostProofs` | theorems about `BridgeLifecycle`, `HostCommands` and `HostTelemetry` | as above |

Variables of the modules that `MCUnits` extends have a prefix (`cc_`, `nfc_`, `hc_`, ...)
because one module extends them all.

`RxRing` and `SpiParser` are two halves of one path: the first is shown to be a
queue of bytes, the second to work for every sequence of bytes taken from a queue.
`McuMain` continues with the frames `SpiParser` dispatches; `HostCommands` looks at
the same commands from the other side, with the argument checks `McuMain` leaves
out.

Definitions named `Mut...` are wrong variants of the definition that follows
them, marked "Bug shape". They are used by no specification; each shows that a
property fails when the code is broken in that way.

## 3. Runs

| Run | Checks | Bounds, and why they are enough |
|---|---|---|
| `spi0` | held frame stable and valid, buffer never overrun, receiver never complete without a frame, wiped before reuse; a release that has begun reopens the receiver; a pending response is signalled | receive side: three byte values, payload of one cell, so that lengths are zero, legal and too long; checksums that collide; two bytes per interrupt, so frames end within one or span several. Response side: two different responses longer than the FIFO, queued over each other, with rewrites of a neighbouring pin. 356 thousand states. |
| `spi_parser` | room for each byte; command and payload of a dispatched frame are those received; a frame as the sender builds it is dispatched | byte values 0 to 3, payloads of up to two cells: short, longest and oversized frames after one another, with remains of earlier ones. 3.1 million states. |
| `mcu_main` | radio pins follow the reported state; ring holds whole frames until both cores write at once; brownout marker | voltages on both sides of both thresholds, a ring of eight cells that fills exactly and not exactly. 1.6 million states. |
| `sg_engine` | no DMA into freed buffers and READY is filled until a wait times out; the worker has buffers; a returned stop leaves no item in its loop and no transfer; every stop returns | two buffers, two starts, two timeouts, error limit of two: every exit of the work item is taken. A kernel that followed a NULL pointer stops, so deadlock is not checked here. |
| `bridge` | one holder; power references balance; the telemetry cache is wiped by the end of a release; no edge lost; readers wake | two processes, two sessions, one edge of `INT_REQ` pending at a time, a FIFO of one cell, which is empty or full. 93 thousand states. |
| `units` | see below | each component's state space is exhausted; 662 thousand states together |
| `spi0_tx_stuck`, `sdr_overrun`, `sg_timeout`, `bridge_cache`, `mcu_ring_race`, `overtemp_missed` | disagreements, section 4 | those of the passing run of the component, or smaller |

`units` asks of each component its own question:

| Component | Property | Bounds |
|---|---|---|
| `SdrDma` | `CountIsDistanceUntilOverrun`; `InOrderUntilOverrun`: every capture once, whole and in order, zeros after a stop; until an overrun or a start inside a consumer's call | three blocks, seven captures: both pointers go round twice and overruns occur, starts and stops at any access |
| `RxRing` | `LoadedIsOldest`; `QueueSpec`, refinement of `ByteQueue` | four slots, three byte values: full, empty and wrapped |
| `SleepWake` | `ChipMatchesState`; `WakesWhenDue`: a call that begins with a wake request, or after a byte outside the window before the reset of the tracker, does not return asleep | timeouts of 2 and 4, three bytes |
| `PeripheralPower` | `RailsSequenced`: a sequence keeps the order of its own code after any single-rail calls, pins follow the reported state of an initialised driver, no rail stays ramping | all six rails |
| `Cc1101` | `ChipLeftUsable`: carrier in its band, chip select released, and no bytes of another carrier unless a band switch gave up half done | FIFO of two bytes; lengths 0, 1 and too long; every result of every wait |
| `St25r3916` | `FieldOffAfterExchange`, `AnswerIsOfThisCall` | two polling rounds; answers empty and longer than FIFO and buffer, with and without checksum error, at any time |
| `AdcCalibration` | `CalibrationIsSound`: coefficients nominal, or of one calibration and right to 25 mV at its points, or of a torn record that passes the sum by chance | references at the accepted limits and beyond; readings for flat, good and wrapping measurements; sums for which the stored or torn record is valid and is not |
| `BatteryMonitor` | `ShutdownMatchesReports` | readings on both sides of every threshold |
| `Lms7002m` | `PllCovers`: from 58.75 MHz to the limit the VCO is in range and the error bounded; the rest is refused | both ends of every divider range with their neighbours |
| `HostCommands` | `DoesWhatWasAsked`: the MCU acts only for a call of that kind and with the arguments given, but for an address Python has wrapped and for what a read writes | arguments at and beyond every limit, also those only Python can pass |
| `HostTelemetry` | `ReportedIsMeasured`: whatever a reader is told at any moment was measured or is wiped, and what one copy tells is of one measurement unless a release has wiped the cache | negative and positive temperatures and registers, battery at the threshold; frames lost, resets, a wipe between any two words |
| `BridgeLifecycle` | `ResourcesNested` | none needed: the component is finite |

The type invariants (`TypeOK`, `DmaTypeOK`, `SleepTypeOK`) are proved in the proof modules, for
every value of the constants; no run repeats them.

### Fairness

* `Spi0Isr`: the handler runs to its end, and the host keeps clocking (weak). A
  function of the main loop that has been entered (a release, a queueing, a pin
  setter) goes on between interrupts, which end because a host transaction is finite:
  strong fairness, since an interrupt disables it for a while. Nothing forces
  `spi0_rx_get_frame` or `spi0_rx_release_frame` to be called, and in this tree nothing
  does: the loop of `main.c:317-359` calls `spi_protocol_process` only, although
  `spi0_isr.c:419` says that the main loop calls them. As the code stands a receiver of `spi0_isr.c`
  stays deaf after its first frame; `ReleaseReopens` says only that a release, once
  begun, reopens it.
* `SleepWake`: none. `sleep_wake_process` has no caller and its file is in no build, so
  `WakesWhenDue` is an action property of the calls that are made.
  `SleepLiveSpec`, used by `SleepWakeDeep.cfg` only, lets a call that has begun go on.
* `ApexSg`: the work queue runs its item, the SPI controller completes what it has
  accepted, the ioctl thread goes on when it may (weak). Nothing forces user space
  to start or stop.
* `ApexBridge`: the work queue runs, suspend and resume go on once begun (weak);
  a process that has begun a release or whose data is there is scheduled between
  two system sleeps (strong). Nothing forces the MCU to send.

## 4. Disagreements between code and claims

Six are runs that TLC refutes (PROJECT.json, "findings"):

* `spi0_tx_stuck`: the interrupt loads a response from its first byte every time, so
  a response longer than the FIFO never completes and `INT_REQ` is never released.
* `sdr_overrun`: on an overrun the read pointer moves but the count is not reduced;
  `tests/test_sdr_dma.c:283` says the ring then holds seven blocks.
* `sg_timeout`: a timed-out transfer is not aborted, and its late callback marks as
  READY the buffer that the next transfer is writing.
* `bridge_cache`: `apex_bridge.c:586` frees the device for the next open before `:591`
  wipes `last_telem`, which `:588` wants wiped "to prevent information leakage between
  user sessions".
* `mcu_ring_race`: `build_response_frame` (`spi_protocol.c:443`) advances `tx_head`
  without a lock on both cores; `:775` places the second caller on core 1.
* `overtemp_missed`: `battery_monitor.c:358` divides microvolts by 1721, which gives
  degrees, and takes the quotient for tenths: a die at 87 degrees reads 33.0, and
  neither the overtemperature nor the critical flag is set by heat.

Fourteen more are claims with a configuration of their own, outside the runs; TLC
refutes each in seconds (`tlc -config X.cfg M`, with M the module in brackets):

| Configuration | Claim | Said by | What the code does |
|---|---|---|---|
| `SdrDmaStop` (`SdrDma`) | `StopDrains` | `sdr_dma.h:74`: stop "drains the ring buffer" | `sdr_dma.c:336` wipes the blocks and keeps `blocks_filled`: `get_block` then hands out wiped blocks |
| `ApexSgStop` (`ApexSg`) | `StopFreesBuffers` | `apex_bridge.c:1858`: "Stop SG DMA streaming and free buffers" | `:1871` returns at once when a single batch has ended by itself (`:1694`), and frees nothing |
| `SpiParserTrailer` (`MCSpiParser`) | `TrailerIsChecked` | `test_spi_protocol.c:820`: "Detect corrupted CRC-32 trailer" of a NOP | `spi_protocol.c:669` accepts an empty payload with any trailer |
| `SpiParserReserved` (`MCSpiParser`) | `MatchingHeaderAccepted` | `test_spi_protocol.c:873`: "Frame with non-zero reserved bytes validates" | `spi_protocol.c:647` drops it |
| `McuMainHealthy` (`McuMain`) | `HealthyBatteryUnreported` | `watchdog.h:77`: "Check if the last reset was due to brownout" | `main.c:344` tests a voltage of 0 before the first reading and marks a brownout |
| `SleepWakeLate` (`SleepWake`) | `LateByteDetected` | `sleep_wake.c:62`: "wake events from pre-sleep activity are properly detected" | `:87` takes a byte that came after the check as seen |
| `SleepWakeDeep` (`SleepWake`) | `ActivityReturnsToIdle` | `sleep_wake.h:37`: any state to IDLE on SPI activity | `sleep_wake.c:167` launches a core 1 that has never stopped and does not answer |
| `Lms7002mRange` (`Lms7002m`) | `TunableRangeCovered` | `lms7002m_driver.h:40`, `:290`, `libapex.h:98`, `:180`: 100 kHz to 3.8 GHz | `lms7002m_driver.c:233` has no divider below 58.75 MHz and refuses |
| `PeripheralPowerTree` (`MCUnits`) | `SdioFirst` | `peripheral_power.h:14`, `docs/power-tree.md:118`: SDIO first on, last off | `peripheral_power.c:241`, `:281`: SDR 1V8 first, SDIO last |
| `PeripheralPowerReset` (`MCUnits`) | `RailsSurviveWarmReset` | `docs/power-sequencing-timing.md:136`: rails "remain ON during warm reset" | `peripheral_power.c:149` drives every rail off at the boot that follows |
| `Cc1101Status` (`Cc1101`) | `SetUpLeavesTxOff` | `cc1101_init.c:91`: status registers are read "with bit 6 set"; `:646`: "should already be in IDLE" | `:499` leaves the bit out: reading MARCSTATE is the strobe STX, PARTNUM is SRES |
| `AdcCalibrationTorn` (`AdcCalibration`) | `TornRecordRefused` | `adc_calibration.h:113`: "checksum for data integrity verification" | `adc_calibration.c:129` sums the checksum byte with the rest: a torn record that sums to 0 is valid |
| `HostCommandsRead` (`MCUnits`) | `ReadsWriteNothing` | `libapex.h:329`: "Read consecutive CC1101 registers" | `libapex.c:462` sends the write ioctl with zeros |
| `HostCommandsWrap` (`MCUnits`) | `WritesWhereAsked` | `pyapex.c:516`, `libapex.c:253`: the address range is validated | `pyapex.c:161` wraps an address above 255 first |

Others met while reading and modelling:

* `apex_bridge.c:504` with `:591`: release wipes the cached telemetry only. The frames a
  session left unread in `rx_fifo`, telemetry among them, stay there for the next one,
  against the comment at `:588`.
* `battery_monitor.c:441`: thresholds 2800 and 3000 mV; `battery_monitor.h:131-132` says
  3000 and 3300, and `docs/sysfs-attributes.md:88` says `LOW_BATTERY` is below 3.3 V.
* `peripheral_power.h:158` and `tests/test_peripheral_power.c:276-285` expect -1 for a rail
  that is already on; the code returns 0, and likewise for one already off.
* `spi0_isr.c:419` names the main loop as caller of `spi0_rx_get_frame`; `main.c` calls
  neither it nor `spi0_rx_release_frame`. Nothing calls `spi_protocol_send_iq_chunk`.
* `cc1101_init.c:785`: with the status read a strobe, the RSSI of the telemetry is the
  chip status byte.
* `spi_protocol.c:433`: nothing advances `tx_tail`; once the ring is full all frames
  are refused. The comment at `:225` says the ISR reads the ring, `:228` that it
  does not.
* `spi_protocol.c:782`: a full-size IQ frame (4112 bytes) never fits the ring (4095).
* `apex_bridge.c:494`: the telemetry flags are tested with the driver's bit number
  for `LOW_BATTERY`, which selects the SDR flags (`FlagMaskHits`).
* `apex_bridge.c:2112`: probe's power reference is never put: `PmBalanced` counts it,
  and an idle device never suspends at run time.
* `libapex.c:484`: a band switch travels as register address 0xFF, which the firmware
  refuses (and band 0, a length of 0, the driver).
* `libapex.c:534`: the NFC poll waits for data the ioctl never copies back, so it
  always times out. `libapex.c:594` formats telemetry flags as a version.
* `pyapex.c:195`, `:221`: a channel above 255 and a power above 127 wrap
  without an error.
* `st25r3916_init.c:579`: the flags are read again into the variable the loop has just
  set, so an answer that ended the loop is reported as none. `TransactDone` needs a
  second answer in that moment.
* `cc1101_init.c:673` says the TX FIFO is sent; `cc1101_enter_tx` flushes it.
* `adc_calibration.c:101`: for the same reason as above 255 of 256 whole records are
  refused at the next boot. The product at `:229` wraps above 4.29 V. The self test
  expects 1300 to 1700 on channel 4, where the temperature sensor gives about 876.
* `lms7002m_driver.c:145`: `lms7002m_init` reads a register before it sets
  `initialized`, which the read requires: it always fails. `:252` cuts the fraction at
  half its range, which costs up to half a reference step.
* `apex_bridge.c:2096`: the device node exists before the streaming engine's lock is
  initialised (`:2115`).
* `apex_bridge.c:1666`: a work item that a stop waits for may write ERROR over IDLE.

## 5. Proofs

Every invariant and action property that a passing run checks is also proved, and so
is the refinement of `ByteQueue`: the run shows it on the small instance of section
3, the theorem for every value of the constants. What remains with TLC alone is
listed at the end of this section.

The constants satisfy the assumptions named in the modules, which TLC evaluates in
the runs. They say no more than the code does: sizes are positive (`DmaAssumption`,
`RingAssumption`, `SgAssumption`, `SleepAssumption`, `McuAssumption`, `IsrAssumption`,
`FrameAssumption`, `NfcAssumption`, `CcAssumption`), there are finitely many processes
(`BridgeAssumption`), the rails are a sequence that is not empty (`PowerAssumption`), a
conversion has twelve bits and a measurement sixteen (`BattAssumption`,
`CalAssumption`, `HtAssumption`), a request is a call with two integers
(`HcAssumption`), a frequency is a natural number (`LmsAssumption`). Checksums are
arbitrary functions throughout.

Firmware core:

* `SdrDmaProofs`: `Typing`; `CountExactUntilOverrun` and `CapturesInOrder`, with start
  and stop on a thread of their own. The count alone is not inductive. `ControlInv` says
  which accesses can be under way together; `CountInv` that a consumer inside get or
  release has a block to itself; `ContentInv` that the filled blocks hold consecutive
  captures from `expect` on, or are wiped once a stop has wiped them. The last two hold
  while the `epoch` is unbroken: an overrun breaks it, and so does a start in the middle
  of a consumer's call, which resets the pointers under it; the next start mends it.
* `Spi0IsrProofs`: `FrameStaysStable`, `RoomInBuffer`, `ReceiverStaysAlive` and
  `BufferIsWiped` from one invariant, `RxInv`. None of the four is inductive alone; what
  is missing is who owns the buffer. `Ownership` says it for every store of
  `release_frame`: from `frame_ready` to the last store the handler drops all bytes, and
  each store knows what the stores before it have done. `Assembled` says what a byte may
  rely on in each state. `ResponseIsSignalled` needs `GpioStale`: a handler of another
  pin that has read the bit of `INT_REQ` as released did so when nothing was pending.
* `SpiParserProofs`: `BuffersHaveRoom`, `NothingMadeUp` and `NothingLost`. The invariant
  `Following` relates each state of the assembler to the bytes that have arrived since
  the sync byte: how many, and that each is in its buffer at its place, so that what the
  buffers keep of earlier frames cannot matter.
* `McuMainProofs`: `MarkerSurvives`, with `MarkerInv`: the marker is
  in the scratch register for as long as the flag is set, and through the reset;
  `RadioFollowsState`; `RingHolds`, with `RingInv`: until the two cores have been in
  `build_response_frame` at once, the head is the sum of the lengths of the accepted
  frames and of the copied part of the one in progress, of whichever core, and has not
  wrapped, because nothing advances the tail. The sum
  is a recursive function of the sequence; that it grows by the new frame is shown from
  a least counterexample (the well-foundedness of the naturals), as the induction
  theorems of the library cannot be instantiated here.

Linux driver and host:

* `ApexSgProofs`: `WorkerSafe` from `WorkInv` (an engine that nobody is stopping has
  a work item in its loop only while it is not IDLE; an item that has stored IDLE and is
  on its way out touches no buffer; the cancellation leaves neither), whatever
  timeouts occur; `DmaSafe`, `ReadySafe` and `StopSafe` from `FlightInv` (until a
  wait times out there is at most one transfer in flight, that of the buffer the
  work item waits for, and `current_idx` still names it). `StopSafe` tells the two
  returns of a stop apart: the early one may find an item on its way out.
* `ApexBridgeProofs`: `ExclusiveUse` and `ReferencesBalance` count processes, for any
  finite number of them: each step moves one process into or out of a set, which
  changes its cardinality by one. `CacheIsWiped` is inductive beside the types: a
  release under way excuses the cache until it has wiped it, and a late work item
  stores for the session that is open then. It says nothing of the FIFO.
* `HostProofs`: `TeardownIsNested`, with `LcInv`: the position in the order of probe, of
  its error labels or of remove determines what is held, each of these sets is closed
  under what a resource rests on, and the MCU is in reset where an interrupt would find
  half a driver. `CommandsAreFaithful`: the
  request is recorded as the caller gave it; a frame on the way is what `LibFrame` makes
  of one that library and driver let pass, and the firmware's check of such a frame
  leaves only what was asked, but for an address that Python has wrapped and for the
  write that a read performs. `TelemetryIsFaithful`, with `TelemInv`: each word of
  `last_telem` is of one frame or wiped, and all are of the same frame until a release
  wipes them; decoding a word gives the signed value back, so that the readers, the copy
  of the ioctl and each single attribute, are told what was measured.

Drivers of the firmware (`DriverProofs`):

* `FieldIsSwitchedOff`; `AnswersAreOfThisCall`, with `FlagsAreFresh`: a receive flag seen
  during a call was set during it.
* `RailsStaySequenced`, an invariant and an action property, for any number of rails:
  `PowerInv` says how far a sequence has come, and that only the rail of the call ramps.
  The order is that of the code.
* `RadioIsLeftUsable`, with `CcInv`: the carrier is one of three words, and every entry
  of a FIFO is of the tuned one unless a band switch gave up half done (`cc_half`). Every
  status read is a strobe in it.
* `ShutdownIsReported`, with `BattInv`: a report is consistent with itself. The thresholds
  are nested (brownout, with its hysteresis, within critical within low) and the
  percentage, which is piecewise linear, meets them.
* `SynthesiserHasNoGap`: from 58.75 MHz on each octave has a divider, and the cut of the fraction costs at
  most 1536 of 3072 units before the division.
* `CalibrationStaysSound`, with `CalInv`: the coefficients in RAM, in flash and in the
  record being written are all sound. An accepted calibration is, because
  `offset * (gain - 1)` is at most 20 mV and the two divisions drop less than 3 mV; a
  negative slope is excluded by the gain's limits. A torn record is refused, or its bytes
  sum to 0 (`TakenByChance`).
* `RingTyping`; `OldestLoaded`; `RingIsQueue`, the refinement `Spec => QueueSpec`. The
  mapping takes the slots from tail to head as the queue; a handler step is `Arrive`, the
  store that gives a slot back is `Take`, all other steps stutter. The proof needs how
  `(head - tail) % N` changes by one at either end, and that a used slot is not the one
  written.
* `SleepTyping`; `ChipFollowsState`, with `EntryInv`: a transition under way leads from
  IDLE to LIGHT or from LIGHT to DEEP. `CallsWakeWhenDue`, an action property, with
  `DueInv`: the tracker has not passed over a byte that is still to be noticed,
  and a call that has a reason to wake is not on its way to sleep.

Only model-checked: the liveness properties `ReleaseReopens`, `StopReturns`,
`EdgeServed` and `ReaderWakes`, since fairness and ENABLED are outside the prover's
reach, and the disagreements, which are counterexamples.

## 6. Not modelled, and why

Register set-up and the CRC tables (straight-line code; checksums are arbitrary
functions here); statistics and log output; the watchdog's bark handler, which no
code installs; `sdr_dma_process` and `battery_monitor_update`, which have no
definition in the tree; `sg_lock` as a lock, of which only the exclusion of the two
ioctls is kept, so that a cycle of locks would not be seen; driver `mmap`, `poll` and the statistics attributes; the SDR
operations behind an initialisation that never succeeds; `apex_get_status`,
`apex_sdr_read_iq` and the version string of the library; the ADC self test; tuning
of the analogue parts of the radio chips. Device tree, hardware, tools, tests and
docs have no behaviour. Time is abstract: a periodic call happens or not.
Word-sized indices are natural numbers where their wrap-around is masked; the
eight-bit `blocks_filled` keeps its width.

## 7. Plan

1. Done: receivers, rings, main loop, sleep states, streaming engine, device file,
   binding, power rails, radio drivers, calibration, battery monitor, and the paths
   of commands and telemetry; a theorem for each invariant and action property checked.
2. Abstract specifications of more components, with the refinement proved: the DMA ring
   as a queue of captures until its first overrun, `SpiParser` as a function from bytes
   to frames.
3. Driver `mmap` against a stop; scratch register 0 of the watchdog.
4. Driver and MCU composed over the bus with both directions of the link, from the
   promises of `ApexBridge` and `SpiParser`.
