------------------------------- MODULE McuMain -------------------------------
(***************************************************************************)
(* The firmware's boot sequence and main loop (main.c) with what it drives: *)
(* the command handlers, telemetry and transmit ring of spi_protocol.c, the *)
(* brownout hysteresis of battery_monitor.c, and the watchdog's scratch     *)
(* register 7, which survives a reset (watchdog.c).                        *)
(*                                                                         *)
(* Core 1 queues captured blocks while core 0 runs the loop: both copy into  *)
(* the transmit ring, cell by cell and without a lock.  (Nothing in the tree *)
(* calls spi_protocol_send_iq_chunk; its comment and core1_entry's name the   *)
(* caller.)  A write of one pin is atomic here.                            *)
(*                                                                         *)
(* A reset may come between any two calls of the loop and during the boot;   *)
(* the brownout check at the end of a round is one call.  Commands arrive as *)
(* the valid frames module SpiParser dispatches.  Time is left out: each    *)
(* periodic call of a round happens or not.  battery_monitor_update and     *)
(* battery_monitor_get_vbat_mv have no definition in the tree and are taken *)
(* from their contract in battery_monitor.h ("If no reading has been taken  *)
(* yet, returns 0").                                                       *)
(***************************************************************************)
EXTENDS Integers, Sequences

CONSTANTS
  BROWNOUT_THRESHOLD_MV,  \* 2800 in the code
  BROWNOUT_HYSTERESIS_MV, \* 200
  Volts,                  \* battery voltages the ADC may read, in mV
  TX_RING_SIZE,           \* 4096
  SPI_MAX_PAYLOAD,        \* 4092
  FRAME_OVERHEAD,         \* SPI_HDR_SIZE + SPI_CRC32_SIZE: 20
  TELEM_SIZE,             \* sizeof(struct telemetry_payload): 16
  TERMINATED,             \* the largest antenna id: 3
  ChunkLens,              \* lengths of the IQ blocks handed to send_iq_chunk
  MaxFrames               \* bound: frames queued, more than fit without a race

ASSUME McuAssumption ==
  /\ BROWNOUT_THRESHOLD_MV \in Nat \ {0} /\ BROWNOUT_HYSTERESIS_MV \in Nat
  /\ Volts \subseteq Nat /\ ChunkLens \subseteq Nat
  /\ TX_RING_SIZE \in Nat \ {0} /\ SPI_MAX_PAYLOAD \in Nat
  /\ FRAME_OVERHEAD \in Nat \ {0} /\ TERMINATED \in Nat /\ MaxFrames \in Nat
  /\ TELEM_SIZE \in 0 .. SPI_MAX_PAYLOAD

VARIABLES
  pc,             \* "boot", or the next call of the main loop
  battery_ready,  \* g_state.battery_monitor_ready
  vbat,           \* the cached reading, 0 before the first one
  brownout_active,\* static variable of the main loop
  device_state,   \* sdr_streaming, sdr_rx_enabled, nfc_active, brownout_active
  pins,           \* rx_enable, lna_enable, int_req (TRUE: asserted)
  antenna,        \* the antenna selected last since the boot
  tx_head, tx_tail,
  writer,         \* how far each core is in build_response_frame
  queued,         \* history: lengths of the frames in the transmit ring, oldest first
  overlap,        \* history: both cores were in it at once since the boot
  scratch7,       \* TRUE: scratch register 7 holds the brownout magic
  down,           \* history: the firmware went down in a brownout and kept power
  reported        \* watchdog_check_brownout's answer at this boot

vars == <<pc, battery_ready, vbat, brownout_active, device_state, pins, antenna,
          tx_head, tx_tail, writer, queued, overlap, scratch7, down, reported>>
battVars == <<battery_ready, vbat, brownout_active>>
devVars == <<device_state, pins, antenna>>
txVars == <<tx_head, tx_tail, writer, queued, overlap>>
bootVars == <<scratch7, down, reported>>

Off == [sdr_streaming |-> FALSE, sdr_rx_enabled |-> FALSE, nfc_active |-> FALSE,
        brownout_active |-> FALSE]
PinsOff == [rx_enable |-> FALSE, lna_enable |-> FALSE, int_req |-> FALSE]
Cores == {"main", "core1"}
Resting == [state |-> "idle", len |-> 0, done |-> 0, reg |-> 0]
NotSelected == -1

-----------------------------------------------------------------------------
(* The command handlers.  NOP, SDR_TUNE and CC1101_CFG change nothing of the  *)
(* state kept here: tune only checks its arguments, the CC1101 registers are *)
(* the radio's own.                                                          *)
Process == pc = "process" /\ pc' = pc

(* Bug shape: the stop branch leaves the LNA on.                             *)
MutSdrStream(enable) ==
  /\ Process /\ enable # device_state.sdr_streaming
  /\ device_state' = [device_state EXCEPT !.sdr_streaming = enable,
                                          !.sdr_rx_enabled = enable]
  /\ pins' = [pins EXCEPT !.rx_enable = enable, !.lna_enable = @ \/ enable]
  /\ UNCHANGED <<battVars, antenna, txVars, bootVars>>

(* A start while streaming and a stop while stopped are ignored.             *)
handle_cmd_sdr_stream(enable) ==
  /\ Process /\ enable # device_state.sdr_streaming
  /\ device_state' = [device_state EXCEPT !.sdr_streaming = enable,
                                          !.sdr_rx_enabled = enable]
  /\ pins' = [pins EXCEPT !.rx_enable = enable, !.lna_enable = enable]
  /\ UNCHANGED <<battVars, antenna, txVars, bootVars>>

handle_cmd_ant_select(ant_id) ==
  /\ Process /\ ant_id <= TERMINATED
  /\ antenna' = ant_id
  /\ UNCHANGED <<battVars, device_state, pins, txVars, bootVars>>

(* Well-formed transactions only mark NFC as active.                         *)
handle_cmd_nfc_transact ==
  /\ Process
  /\ device_state' = [device_state EXCEPT !.nfc_active = TRUE]
  /\ UNCHANGED <<battVars, pins, antenna, txVars, bootVars>>

(* The ring is drained: spi_protocol_process returns.                        *)
ProcessDone ==
  /\ pc = "process" /\ pc' = "collect"
  /\ UNCHANGED <<battVars, devVars, txVars, bootVars>>

-----------------------------------------------------------------------------
(* The transmit ring.                                                        *)
Used == (tx_head - tx_tail) % TX_RING_SIZE

(* A frame is the length of its payload; what it takes on the ring.          *)
Cells(len) == len + FRAME_OVERHEAD

(* Bug shape: the frame may take the last free slot, full looks like empty.  *)
MutRoom(len) == Cells(len) <= TX_RING_SIZE - Used

(* All of the frame fits, and one slot stays free.                           *)
Room(len) == Cells(len) <= TX_RING_SIZE - Used - 1

(* build_response_frame on core w: a frame without room is refused (the       *)
(* callers do not look at the result), ...                                   *)
BuildBegin(w, len) ==
  /\ writer[w].state = "idle" /\ Len(queued) < MaxFrames
  /\ writer' = IF Room(len)
               THEN [writer EXCEPT ![w].state = "copy", ![w].len = len] ELSE writer
  /\ overlap' = (overlap \/ (Room(len) /\ \E v \in Cores \ {w} : writer[v].state # "idle"))

(* ... else it is copied cell by cell, tx_head being loaded ...              *)
CopyLoad(w) ==
  /\ writer[w].state = "copy"
  /\ writer' = [writer EXCEPT ![w].state = "store", ![w].reg = tx_head]
  /\ UNCHANGED <<pc, battVars, devVars, tx_head, tx_tail, queued, overlap, bootVars>>

(* ... and stored for each, ...                                              *)
CopyStore(w) ==
  /\ writer[w].state = "store"
  /\ tx_head' = (writer[w].reg + 1) % TX_RING_SIZE
  /\ writer' = [writer EXCEPT ![w].done = @ + 1, ![w].reg = 0,
       ![w].state = IF writer[w].done + 1 < Cells(writer[w].len)
                    THEN "copy" ELSE "signal"]
  /\ UNCHANGED <<pc, battVars, devVars, tx_tail, queued, overlap, bootVars>>

(* ... and INT_REQ is asserted when the whole frame is there.                *)
Signal(w) ==
  /\ writer[w].state = "signal"
  /\ pins' = [pins EXCEPT !.int_req = TRUE]
  /\ queued' = Append(queued, writer[w].len)
  /\ writer' = [writer EXCEPT ![w] = Resting]
  /\ pc' = IF w = "main" THEN "brownout" ELSE pc
  /\ UNCHANGED <<battVars, device_state, antenna, tx_head, tx_tail, overlap, bootVars>>

(* The payload of the frame is module HostTelemetry's subject.               *)
spi_protocol_send_telemetry ==
  /\ pc = "telemetry" /\ pc' = IF Room(TELEM_SIZE) THEN "sending" ELSE "brownout"
  /\ BuildBegin("main", TELEM_SIZE)
  /\ UNCHANGED <<battVars, devVars, tx_head, tx_tail, queued, bootVars>>

(* Called on core 1 for each captured block.                                 *)
spi_protocol_send_iq_chunk(len) ==
  /\ pc # "boot" /\ device_state.sdr_streaming
  /\ BuildBegin("core1", IF len > SPI_MAX_PAYLOAD THEN SPI_MAX_PAYLOAD ELSE len)
  /\ UNCHANGED <<pc, battVars, devVars, tx_head, tx_tail, queued, bootVars>>

-----------------------------------------------------------------------------
(* The rest of the loop.                                                     *)

(* What a reading says: low, recovered, or in between.                       *)
Low(mv) == mv < BROWNOUT_THRESHOLD_MV
Recovered(mv) == mv >= BROWNOUT_THRESHOLD_MV + BROWNOUT_HYSTERESIS_MV

collect_telemetry(mv) ==
  /\ pc = "collect" /\ pc' = "telemetry"
  /\ vbat' = IF battery_ready THEN mv ELSE vbat
  /\ UNCHANGED <<battery_ready, brownout_active, devVars, txVars, bootVars>>

NotDue ==
  /\ \/ pc = "collect" /\ pc' = "telemetry"
     \/ pc = "telemetry" /\ pc' = "brownout"
  /\ UNCHANGED <<battVars, devVars, txVars, bootVars>>

battery_is_brownout(mv, active) == IF active THEN ~Recovered(mv) ELSE Low(mv)

(* Bug shape: the marker is written when the brownout is over.               *)
MutBrownoutCheck ==
  /\ pc = "brownout" /\ pc' = "process"
  /\ IF battery_ready
     THEN LET low == battery_is_brownout(vbat, brownout_active)
          IN  /\ brownout_active' = low
              /\ scratch7' = (scratch7 \/ (brownout_active /\ ~low))
              /\ device_state' = [device_state EXCEPT !.brownout_active = low]
     ELSE UNCHANGED <<brownout_active, scratch7, device_state>>
  /\ UNCHANGED <<battery_ready, vbat, pins, antenna, txVars, down, reported>>

(* The end of a round: hysteresis, watchdog_mark_brownout,                   *)
(* spi_protocol_set_brownout, a few instructions taken as one step.          *)
BrownoutCheck ==
  /\ pc = "brownout" /\ pc' = "process"
  /\ IF battery_ready
     THEN LET low == battery_is_brownout(vbat, brownout_active)
          IN  /\ brownout_active' = low
              /\ scratch7' = (scratch7 \/ low)
              /\ device_state' = [device_state EXCEPT !.brownout_active = low]
     ELSE UNCHANGED <<brownout_active, scratch7, device_state>>
  /\ UNCHANGED <<battery_ready, vbat, pins, antenna, txVars, down, reported>>

-----------------------------------------------------------------------------
(* Resets, which may come during the boot too.  The scratch registers survive *)
(* all but a power cycle; both cores stop where they are.                    *)
(* watchdog_bark_handler is never installed.                                 *)
Reset(why) ==
  /\ pc' = "boot"
  /\ down' = (why # "power" /\ IF pc = "boot" THEN down ELSE brownout_active)
  /\ scratch7' = (scratch7 /\ why # "power")
  /\ writer' = [w \in Cores |-> Resting]
  /\ UNCHANGED <<battVars, devVars, tx_head, tx_tail, queued, overlap, reported>>

(* init_peripherals (GPIOs off, protocol handler reset, battery monitor       *)
(* possibly not available), then watchdog_check_brownout, which clears the   *)
(* marker it finds.                                                          *)
Boot ==
  /\ pc = "boot" /\ pc' = "process"
  /\ battery_ready' \in BOOLEAN
  /\ vbat' = 0 /\ brownout_active' = FALSE
  /\ device_state' = Off /\ pins' = PinsOff /\ antenna' = NotSelected
  /\ tx_head' = 0 /\ tx_tail' = 0 /\ queued' = << >> /\ overlap' = FALSE
  /\ reported' = scratch7 /\ scratch7' = FALSE
  /\ UNCHANGED <<writer, down>>

Init ==
  /\ pc = "boot" /\ battery_ready = FALSE /\ vbat = 0
  /\ brownout_active = FALSE
  /\ device_state = Off /\ pins = PinsOff /\ antenna = NotSelected
  /\ tx_head = 0 /\ tx_tail = 0 /\ queued = << >> /\ overlap = FALSE
  /\ writer = [w \in Cores |-> Resting]
  /\ scratch7 = FALSE /\ down = FALSE /\ reported = FALSE

Loop ==
  \/ ProcessDone
  \/ \E mv \in Volts : collect_telemetry(mv)
  \/ NotDue
  \/ spi_protocol_send_telemetry
  \/ BrownoutCheck

Next ==
  \/ Boot \/ Loop
  \/ \E enable \in BOOLEAN : handle_cmd_sdr_stream(enable)
  \/ \E ant_id \in 0 .. TERMINATED + 1 : handle_cmd_ant_select(ant_id)
  \/ handle_cmd_nfc_transact
  \/ \E len \in ChunkLens : spi_protocol_send_iq_chunk(len)
  \/ \E w \in Cores : CopyLoad(w) \/ CopyStore(w) \/ Signal(w)
  \/ \E why \in {"power", "watchdog", "undervoltage"} : Reset(why)

Spec == Init /\ [][Next]_vars

-----------------------------------------------------------------------------
(* Types of all variables.                                                   *)
TypeOK ==
  /\ pc \in {"boot", "process", "collect", "telemetry", "sending", "brownout"}
  /\ battery_ready \in BOOLEAN /\ vbat \in Volts \cup {0}
  /\ brownout_active \in BOOLEAN
  /\ device_state \in [sdr_streaming : BOOLEAN, sdr_rx_enabled : BOOLEAN,
                       nfc_active : BOOLEAN, brownout_active : BOOLEAN]
  /\ pins \in [rx_enable : BOOLEAN, lna_enable : BOOLEAN, int_req : BOOLEAN]
  /\ antenna \in NotSelected .. TERMINATED
  /\ tx_head \in 0 .. TX_RING_SIZE - 1 /\ tx_tail \in 0 .. TX_RING_SIZE - 1
  /\ queued \in Seq(Nat) /\ overlap \in BOOLEAN
  /\ writer \in [Cores -> [state : {"idle", "copy", "store", "signal"},
                           len : Nat, done : Nat, reg : 0 .. TX_RING_SIZE - 1]]
  /\ scratch7 \in BOOLEAN /\ down \in BOOLEAN /\ reported \in BOOLEAN

(* The receive path of the radio and what the firmware believes and reports  *)
(* about it never drift apart, across commands and resets.                   *)
RadioMatchesState ==
  pc # "boot" =>
    /\ device_state.sdr_rx_enabled = device_state.sdr_streaming
    /\ pins.rx_enable = device_state.sdr_streaming
    /\ pins.lna_enable = device_state.sdr_streaming

(* Total length of the frames of a sequence, on the ring.                    *)
QueuedCells(frames) ==
  LET Sum[k \in 0 .. Len(frames)] ==
        IF k = 0 THEN 0 ELSE Sum[k - 1] + Cells(frames[k])
  IN  Sum[Len(frames)]

(* Until the two cores have been in build_response_frame at once, the ring     *)
(* holds exactly the frames that were accepted and the part of one that is     *)
(* being copied, and INT_REQ is asserted when and only when a whole one is     *)
(* there.                                                                    *)
RingHoldsFrames ==
  pc # "boot" /\ ~overlap =>
    /\ Used = QueuedCells(queued) + writer["main"].done + writer["core1"].done
    /\ pins.int_req <=> queued # << >>

(* "Build a response frame in the TX ring buffer" (spi_protocol.c:391): with    *)
(* no copy under way the ring holds the frames build_response_frame said it   *)
(* queued.  Violated: two cores move tx_head without a lock.                 *)
RingHoldsWholeFrames ==
  pc # "boot" /\ (\A w \in Cores : writer[w].state = "idle") =>
    Used = QueuedCells(queued)

(* "can detect it after the inevitable reset": a reset that came in a         *)
(* brownout is reported by the boot that follows, unless power was cut.      *)
BrownoutResetReported ==
  pc # "boot" /\ down => reported

(* "Check if the last reset was due to brownout" (watchdog.h:77): a board       *)
(* whose battery never reads low never reports one.  Violated: the rounds      *)
(* before the first reading compare 0 mV with the threshold.                 *)
HealthyBatteryUnreported == (\A mv \in Volts : ~Low(mv)) => ~reported
=============================================================================
