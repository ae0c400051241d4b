------------------------------- MODULE Spi0Isr -------------------------------
(***************************************************************************)
(* The SPI0 slave interrupt handler of the RP2350B (spi0_isr.c): frame     *)
(* assembly in interrupt context, the frame hand-over to the main loop     *)
(* (get_frame / release_frame), and the response path (queue_response,     *)
(* TX FIFO, INT_REQ line).                                                 *)
(*                                                                         *)
(* The handler preempts the main loop at any point and runs to its end, so *)
(* every main-loop action is one store (or one loop round) and needs       *)
(* isr = "out".  The wire may deliver any byte at any time.                *)
(* The diagnostic counters spi0_stats are left out.                        *)
(***************************************************************************)
EXTENDS SpiFrame

CONSTANTS
  MAX_ITERATIONS,  \* bytes one handler invocation reads at most (256)
  TX_FIFO_DEPTH,   \* entries of the SSP transmit FIFO (16)
  Responses,       \* identities of the response frames the firmware queues
  ResponseLens     \* lengths those frames may have

(* What a cell of the response buffer holds before any memcpy.             *)
NoResponse == "none"

ASSUME IsrAssumption ==
  /\ MAX_ITERATIONS \in Nat \ {0}
  /\ TX_FIFO_DEPTH \in Nat \ {0}
  /\ ResponseLens \subseteq Nat
  /\ NoResponse \notin Responses

VARIABLES
  rx,      \* spi0_rx: buf, pos, state, payload_len, frame_ready
  tx,      \* spi0_tx: buf (cells of a response), len, response_pending
  int_req, \* TRUE while PIN_INT_REQ is driven low (asserted)
  fifo,    \* the transmit FIFO
  isr,     \* "out", or "in" while the handler runs
  budget,  \* bytes the running invocation may still read
  mpc,     \* where the main loop is
  idx,     \* its loop index (wipe, memcpy)
  arg,     \* response being queued by the main loop
  held     \* history: the frame get_frame handed to the main loop

vars == <<rx, tx, int_req, fifo, isr, budget, mpc, idx, arg, held>>
rxVars == <<rx, held>>
txVars == <<tx, int_req, fifo, arg>>

EmptyRx == [buf |-> [c \in Cells |-> 0], pos |-> 0, state |-> "IDLE",
            payload_len |-> 0, frame_ready |-> FALSE]
NoFrame == [len |-> 0, buf |-> EmptyRx.buf]
EmptyTx == [buf |-> [c \in Cells |-> NoResponse], len |-> 0,
            response_pending |-> FALSE]

-----------------------------------------------------------------------------
(* Frame assembly: spi0_process_byte, one operator per state of the machine. *)

(* A sync byte starts a new frame at cell 0.                                *)
StartFrame(r, b) ==
  [r EXCEPT !.buf[0] = b, !.pos = 1, !.state = "HEADER"]

(* IDLE and ERROR look for a sync byte and drop every other byte.           *)
SeekSync(r, b) == IF b = SPI_SYNC_BYTE THEN StartFrame(r, b) ELSE r

(* Bug shape: the length field is trusted.                                  *)
MutHeaderVerdict(buf) == IF validate_header_crc64(buf) THEN "PAYLOAD" ELSE "ERROR"

(* The state a complete header leads to.                                    *)
HeaderVerdict(buf) ==
  IF validate_header_crc64(buf) /\ extract_payload_length(buf) <= SPI_MAX_PAYLOAD
  THEN "PAYLOAD" ELSE "ERROR"

(* payload_len is written as soon as the header CRC is right, before the    *)
(* length is checked.                                                       *)
AddHeader(r, b) ==
  LET buf  == [r.buf EXCEPT ![r.pos] = b]
      full == r.pos + 1 = SPI_HDR_SIZE
  IN  IF r.pos < SPI_HDR_SIZE
      THEN [r EXCEPT !.buf = buf, !.pos = r.pos + 1,
                     !.payload_len = IF full /\ validate_header_crc64(buf)
                                     THEN extract_payload_length(buf) ELSE @,
                     !.state = IF full THEN HeaderVerdict(buf) ELSE @]
      ELSE r

AddPayload(r, b) ==
  LET end  == FrameLen(r.payload_len)
      buf  == [r.buf EXCEPT ![r.pos] = b]
      full == r.pos + 1 = end
      good == full /\ validate_payload_crc32(buf, r.payload_len)
  IN  IF r.pos < end
      THEN [r EXCEPT !.buf = buf, !.pos = r.pos + 1,
                     !.state = IF good THEN "COMPLETE"
                               ELSE IF full THEN "ERROR" ELSE @,
                     !.frame_ready = good \/ @]
      ELSE [r EXCEPT !.state = "ERROR"]

(* Bug shape: no FRAME_STATE_COMPLETE case, the byte starts the next frame. *)
MutNoCompleteCase(r, b) ==
  CASE r.state \in {"IDLE", "ERROR", "COMPLETE"} -> SeekSync(r, b)
    [] r.state = "HEADER"  -> AddHeader(r, b)
    [] r.state = "PAYLOAD" -> AddPayload(r, b)

(* COMPLETE: the main loop still owns the buffer, the byte is dropped.      *)
spi0_process_byte(r, b) ==
  CASE r.state \in {"IDLE", "ERROR"} -> SeekSync(r, b)
    [] r.state = "HEADER"   -> AddHeader(r, b)
    [] r.state = "PAYLOAD"  -> AddPayload(r, b)
    [] r.state = "COMPLETE" -> r

-----------------------------------------------------------------------------
(* The interrupt handler.                                                   *)

(* The RX FIFO is not empty: the handler starts.                            *)
IsrEnter ==
  /\ isr = "out"
  /\ isr' = "in" /\ budget' = MAX_ITERATIONS
  /\ UNCHANGED <<rxVars, txVars, mpc, idx>>

(* One round of the while (RNE) loop.                                       *)
IsrByte(b) ==
  /\ isr = "in" /\ budget > 0
  /\ rx' = spi0_process_byte(rx, b)
  /\ budget' = budget - 1
  /\ UNCHANGED <<txVars, isr, mpc, idx, held>>

(* How many cells of the response the loop writes into the transmit FIFO.   *)
TxLoad == LET free == TX_FIFO_DEPTH - Len(fifo)
          IN  IF tx.len <= free THEN tx.len ELSE free

(* Bug shape: INT_REQ is released although the response did not fit.        *)
MutIsrExit ==
  /\ isr = "in" /\ budget < MAX_ITERATIONS
  /\ isr' = "out" /\ budget' = 0
  /\ IF tx.response_pending
     THEN /\ fifo' = fifo \o [k \in 1 .. TxLoad |-> tx.buf[k - 1]]
          /\ tx' = [tx EXCEPT !.response_pending = TxLoad < tx.len]
          /\ int_req' = FALSE
     ELSE UNCHANGED <<tx, int_req, fifo>>
  /\ UNCHANGED <<rxVars, arg, mpc, idx>>

(* The RX FIFO is empty or the budget is used: load the transmit FIFO from  *)
(* cell 0 of a pending response, drop the response if all of it fitted.     *)
IsrExit ==
  /\ isr = "in" /\ budget < MAX_ITERATIONS
  /\ isr' = "out" /\ budget' = 0
  /\ IF tx.response_pending
     THEN /\ fifo' = fifo \o [k \in 1 .. TxLoad |-> tx.buf[k - 1]]
          /\ tx' = [tx EXCEPT !.response_pending = TxLoad < tx.len]
          /\ int_req' = (int_req /\ TxLoad < tx.len)
     ELSE UNCHANGED <<tx, int_req, fifo>>
  /\ UNCHANGED <<rxVars, arg, mpc, idx>>

(* The host's clock shifts one cell out of the transmit FIFO.               *)
HostClock ==
  /\ fifo # << >>
  /\ fifo' = Tail(fifo)
  /\ UNCHANGED <<rxVars, tx, int_req, arg, isr, budget, mpc, idx>>

-----------------------------------------------------------------------------
(* The main loop: each action is one store that the ISR can observe.        *)
Main(from, to) == isr = "out" /\ mpc = from /\ mpc' = to

(* spi0_rx_get_frame: the main loop now reads rx.buf[0 .. pos-1] in place.  *)
spi0_rx_get_frame ==
  /\ Main("loop", "hold")
  /\ rx.frame_ready
  /\ held' = [len |-> rx.pos, buf |-> rx.buf]
  /\ UNCHANGED <<rx, txVars, isr, budget, idx>>

(* spi0_rx_release_frame: the wipe loop and then four stores.               *)
ReleaseBegin ==
  /\ Main("hold", "wipe")
  /\ idx' = 0
  /\ UNCHANGED <<rxVars, txVars, isr, budget>>

(* Bug shape: the wipe stops one cell early.                                *)
MutReleaseWipe ==
  /\ isr = "out" /\ mpc = "wipe"
  /\ IF idx + 1 < rx.pos
     THEN /\ rx' = [rx EXCEPT !.buf[idx] = 0]
          /\ idx' = idx + 1 /\ mpc' = mpc
     ELSE /\ mpc' = "rel_ready" /\ idx' = 0
          /\ UNCHANGED rx
  /\ UNCHANGED <<txVars, isr, budget, held>>

ReleaseWipe ==
  /\ isr = "out" /\ mpc = "wipe"
  /\ IF idx < rx.pos
     THEN /\ rx' = [rx EXCEPT !.buf[idx] = 0]
          /\ idx' = idx + 1 /\ mpc' = mpc
     ELSE /\ mpc' = "rel_ready" /\ idx' = 0
          /\ UNCHANGED rx
  /\ UNCHANGED <<txVars, isr, budget, held>>

(* Bug shape: the state is reset first, the ISR may start a frame at once.  *)
MutReleaseStateFirst ==
  \/ /\ Main("rel_ready", "rel_pos") /\ rx' = [rx EXCEPT !.state = "IDLE"]
     /\ UNCHANGED <<txVars, isr, budget, idx, held>>
  \/ /\ Main("rel_pos", "rel_len") /\ rx' = [rx EXCEPT !.pos = 0]
     /\ UNCHANGED <<txVars, isr, budget, idx, held>>
  \/ /\ Main("rel_len", "rel_state") /\ rx' = [rx EXCEPT !.payload_len = 0]
     /\ UNCHANGED <<txVars, isr, budget, idx, held>>
  \/ /\ Main("rel_state", "loop") /\ rx' = [rx EXCEPT !.frame_ready = FALSE]
     /\ held' = NoFrame
     /\ UNCHANGED <<txVars, isr, budget, idx>>

(* Bug shape: the release does not reopen the state machine.                *)
MutReleaseKeepsState ==
  /\ \/ Main("rel_ready", "rel_pos") /\ rx' = [rx EXCEPT !.frame_ready = FALSE]
     \/ Main("rel_pos", "rel_len")   /\ rx' = [rx EXCEPT !.pos = 0]
     \/ Main("rel_len", "rel_state") /\ rx' = [rx EXCEPT !.payload_len = 0]
     \/ Main("rel_state", "loop")    /\ rx' = rx
  /\ held' = IF mpc = "rel_state" THEN NoFrame ELSE held
  /\ UNCHANGED <<txVars, isr, budget, idx>>

ReleaseReset ==
  /\ \/ Main("rel_ready", "rel_pos") /\ rx' = [rx EXCEPT !.frame_ready = FALSE]
     \/ Main("rel_pos", "rel_len")   /\ rx' = [rx EXCEPT !.pos = 0]
     \/ Main("rel_len", "rel_state") /\ rx' = [rx EXCEPT !.payload_len = 0]
     \/ Main("rel_state", "loop")    /\ rx' = [rx EXCEPT !.state = "IDLE"]
  /\ held' = IF mpc = "rel_state" THEN NoFrame ELSE held
  /\ UNCHANGED <<txVars, isr, budget, idx>>

(* spi0_tx_queue_response: memcpy cell by cell, then three stores.  Nothing  *)
(* keeps the caller from queueing while a response is still pending.        *)
QueueBegin(r, n) ==
  /\ Main("loop", "q_copy")
  /\ n <= SPI_FRAME_BUF_SIZE
  /\ arg' = [id |-> r, len |-> n] /\ idx' = 0
  /\ UNCHANGED <<rxVars, tx, int_req, fifo, isr, budget>>

QueueCopy ==
  /\ isr = "out" /\ mpc = "q_copy"
  /\ IF idx < arg.len
     THEN /\ tx' = [tx EXCEPT !.buf[idx] = arg.id]
          /\ idx' = idx + 1 /\ mpc' = mpc
     ELSE /\ mpc' = "q_len" /\ idx' = 0
          /\ UNCHANGED tx
  /\ UNCHANGED <<rxVars, int_req, fifo, arg, isr, budget>>

QueueStores ==
  /\ \/ /\ Main("q_len", "q_pending")
        /\ tx' = [tx EXCEPT !.len = arg.len] /\ UNCHANGED int_req
     \/ /\ Main("q_pending", "q_assert")
        /\ tx' = [tx EXCEPT !.response_pending = TRUE] /\ UNCHANGED int_req
     \/ /\ Main("q_assert", "loop")
        /\ int_req' = TRUE /\ UNCHANGED tx
  /\ UNCHANGED <<rxVars, fifo, arg, isr, budget, idx>>

(* A command handler writes another pin of the same GPIO_OUT register with  *)
(* a read-modify-write (apex_sdr_rx_enable and its kin): the INT_REQ bit is *)
(* read now and written back, possibly stale, after the ISR ran.            *)
GpioRead ==
  /\ Main("loop", "gpio")
  /\ idx' = IF int_req THEN 1 ELSE 0
  /\ UNCHANGED <<rxVars, txVars, isr, budget>>

GpioWrite ==
  /\ Main("gpio", "loop")
  /\ int_req' = (idx = 1) /\ idx' = 0
  /\ UNCHANGED <<rxVars, tx, fifo, arg, isr, budget>>

-----------------------------------------------------------------------------
(* spi0_rx_reset and spi0_tx_reset, called before the interrupt is enabled.  *)
Init ==
  /\ rx = EmptyRx /\ held = NoFrame
  /\ tx = EmptyTx /\ int_req = FALSE /\ fifo = << >>
  /\ arg = [id |-> NoResponse, len |-> 0]
  /\ isr = "out" /\ budget = 0 /\ mpc = "loop" /\ idx = 0

Isr == IsrEnter \/ (\E b \in Byte : IsrByte(b)) \/ IsrExit

Release == ReleaseWipe \/ ReleaseReset
Queue == QueueCopy \/ QueueStores

Next ==
  \/ Isr
  \/ HostClock
  \/ spi0_rx_get_frame
  \/ ReleaseBegin
  \/ Release
  \/ \E r \in Responses, n \in ResponseLens : QueueBegin(r, n)
  \/ Queue
  \/ GpioRead \/ GpioWrite

Spec == Init /\ [][Next]_vars

(* The handler finishes; the host keeps clocking; a function the main loop  *)
(* has entered gets the CPU again and again between two handler invocations *)
(* (host transactions are finite) and runs to its end.  Nothing forces the  *)
(* main loop to call any of them: main.c calls neither get nor release.     *)
Fairness ==
  /\ WF_vars(IsrEnter) /\ WF_vars(\E b \in Byte : IsrByte(b)) /\ WF_vars(IsrExit)
  /\ WF_vars(HostClock)
  /\ SF_vars(Release) /\ SF_vars(Queue) /\ SF_vars(GpioWrite)

FairSpec == Spec /\ Fairness

-----------------------------------------------------------------------------
(* A frame as the dispatcher may assume it: sync byte, header CRC, a payload *)
(* length within bounds, payload CRC, and pos at the end of the frame.       *)
ValidFrame(buf, len) ==
  /\ buf[0] = SPI_SYNC_BYTE
  /\ validate_header_crc64(buf)
  /\ extract_payload_length(buf) <= SPI_MAX_PAYLOAD
  /\ validate_payload_crc32(buf, extract_payload_length(buf))
  /\ len = FrameLen(extract_payload_length(buf))

(* spi0_rx_get_frame promises a buffer that stays valid until the release:   *)
(* for as long as the main loop holds a frame, every byte of it is what it   *)
(* was when handed over, and it passed every check, whatever the wire does.  *)
HeldFrameStable ==
  mpc = "hold" =>
    /\ rx.buf = held.buf /\ rx.pos = held.len
    /\ ValidFrame(held.buf, held.len)

(* The assembly position never leaves the buffer: each state of the machine  *)
(* has room for the byte it is about to store ("should never happen" branch  *)
(* of the PAYLOAD case included).                                            *)
RoomForNextByte ==
  /\ rx.state = "HEADER"  => rx.pos \in 1 .. SPI_HDR_SIZE - 1
  /\ rx.state = "PAYLOAD" => /\ rx.payload_len <= SPI_MAX_PAYLOAD
                             /\ rx.pos \in SPI_HDR_SIZE .. FrameLen(rx.payload_len) - 1

(* COMPLETE drops every byte, so the receiver is dead unless the main loop   *)
(* can still see the frame or is on its way through the release stores.      *)
ReceiverNotDead ==
  rx.state = "COMPLETE" <=>
    rx.frame_ready \/ mpc \in {"rel_pos", "rel_len", "rel_state"}

(* release_frame wipes before it lets the ISR in again: once the wipe loop   *)
(* is over no cell of the frame that was handed over is left in the buffer.  *)
WipedBeforeReuse ==
  mpc \in {"rel_ready", "rel_pos", "rel_len", "rel_state"} =>
    \A c \in Cells : c < held.len => rx.buf[c] = 0

(* The host is never left waiting: a pending response is signalled on        *)
(* INT_REQ, except for the instant between the two stores of the queueing.   *)
PendingIsSignalled == tx.response_pending => int_req \/ mpc = "q_assert"

(* A release that has begun reopens the receiver, however many interrupts    *)
(* come between its stores.  Whether anybody releases is up to the caller.   *)
ReleaseReopens ==
  mpc \in {"wipe", "rel_ready", "rel_pos", "rel_len", "rel_state"}
    ~> (rx.state # "COMPLETE")

(* "Releases PIN_INT_REQ (drives HIGH) after the host has read the response  *)
(* frame": a queued response is transmitted completely and INT_REQ released. *)
ResponseCompletes == tx.response_pending ~> ~int_req
=============================================================================
