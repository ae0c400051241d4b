------------------------------ MODULE SpiParser ------------------------------
(***************************************************************************)
(* The frame assembler of spi_protocol_process (spi_protocol.c): it takes   *)
(* one byte after the other from the receive ring (module RxRing), collects *)
(* header, payload and CRC-32 in three buffers, and hands a valid frame to  *)
(* dispatch_frame.  The three buffers keep what earlier frames left there.  *)
(*                                                                         *)
(* The wire delivers any cell at any time.  What a command does is module   *)
(* McuMain; here dispatch only records the frame it was given.             *)
(* The frame counters of rx_ctx are left out.                              *)
(***************************************************************************)
EXTENDS SpiFrame, Integers

VARIABLES
  rx_ctx,     \* state, the three buffers, their indices, expected_payload_len
  dispatched, \* history: frames dispatch_frame got for the last byte (0 or 1)
  wire        \* history: the cells of the frame that is arriving

vars == <<rx_ctx, dispatched, wire>>

HdrCells == 0 .. SPI_HDR_SIZE - 1
PayloadCells == 0 .. SPI_MAX_PAYLOAD - 1
Crc32Cells == 0 .. SPI_CRC32_SIZE - 1

(* memset(&rx_ctx, 0, ...) of spi_protocol_init.                             *)
ResetCtx ==
  [state |-> "IDLE", hdr_buf |-> [c \in HdrCells |-> 0],
   payload_buf |-> [c \in PayloadCells |-> 0],
   crc32_buf |-> [c \in Crc32Cells |-> 0],
   hdr_idx |-> 0, payload_idx |-> 0, crc32_idx |-> 0, expected_payload_len |-> 0]

(* The payload dispatch_frame is given.                                      *)
Payload(ctx) ==
  [k \in 1 .. ctx.expected_payload_len |-> ctx.payload_buf[k - 1]]

-----------------------------------------------------------------------------
(* Unlike spi0_isr.c this receiver also wants the reserved field to be zero. *)
validate_frame_header(hdr) ==
  hdr[0] = SPI_SYNC_BYTE /\ hdr[3] = 0 /\ validate_header_crc64(hdr)

(* Bug shape: the checksum is computed but its result is not used.           *)
MutValidatePayload(ctx) == TRUE

(* A frame without payload is accepted whatever its CRC-32 cells are.        *)
validate_frame_payload(ctx) ==
  ctx.expected_payload_len > 0 =>
    \A c \in Crc32Cells : ctx.crc32_buf[c] = Crc32(Payload(ctx))

SeekSync(ctx, b) ==
  IF b = SPI_SYNC_BYTE
  THEN [ctx EXCEPT !.hdr_buf[0] = b, !.hdr_idx = 1, !.state = "HEADER"]
  ELSE ctx

(* Bug shape: the length is not compared with the size of payload_buf.       *)
MutAfterHeader(ctx) ==
  LET len == extract_payload_length(ctx.hdr_buf)
  IN  IF ~validate_frame_header(ctx.hdr_buf) THEN [ctx EXCEPT !.state = "IDLE"]
      ELSE IF len > 0
      THEN [ctx EXCEPT !.expected_payload_len = len, !.payload_idx = 0,
                       !.state = "PAYLOAD"]
      ELSE [ctx EXCEPT !.expected_payload_len = len, !.crc32_idx = 0,
                       !.state = "CRC32"]

(* Bug shape: the comparison is off by one, a full payload is refused.       *)
MutAfterHeaderFull(ctx) ==
  LET len == extract_payload_length(ctx.hdr_buf)
      sized == [ctx EXCEPT !.expected_payload_len = len]
  IN  IF ~validate_frame_header(ctx.hdr_buf) THEN [ctx EXCEPT !.state = "IDLE"]
      ELSE IF len >= SPI_MAX_PAYLOAD THEN [sized EXCEPT !.state = "IDLE"]
      ELSE IF len > 0 THEN [sized EXCEPT !.payload_idx = 0, !.state = "PAYLOAD"]
      ELSE [sized EXCEPT !.crc32_idx = 0, !.state = "CRC32"]

(* Where a complete header leads; expected_payload_len is written before the *)
(* length is checked.                                                        *)
AfterHeader(ctx) ==
  LET len == extract_payload_length(ctx.hdr_buf)
      sized == [ctx EXCEPT !.expected_payload_len = len]
  IN  CASE ~validate_frame_header(ctx.hdr_buf) -> [ctx EXCEPT !.state = "IDLE"]
        [] validate_frame_header(ctx.hdr_buf) /\ len > SPI_MAX_PAYLOAD ->
             [sized EXCEPT !.state = "IDLE"]
        [] validate_frame_header(ctx.hdr_buf) /\ len \in 1 .. SPI_MAX_PAYLOAD ->
             [sized EXCEPT !.payload_idx = 0, !.state = "PAYLOAD"]
        [] validate_frame_header(ctx.hdr_buf) /\ len = 0 ->
             [sized EXCEPT !.crc32_idx = 0, !.state = "CRC32"]

AddHeader(ctx, b) ==
  LET next == [ctx EXCEPT !.hdr_buf[ctx.hdr_idx] = b, !.hdr_idx = @ + 1]
  IN  IF next.hdr_idx >= SPI_HDR_SIZE THEN AfterHeader(next) ELSE next

AddPayload(ctx, b) ==
  LET next == [ctx EXCEPT !.payload_buf[ctx.payload_idx] = b, !.payload_idx = @ + 1]
  IN  IF next.payload_idx >= ctx.expected_payload_len
      THEN [next EXCEPT !.crc32_idx = 0, !.state = "CRC32"] ELSE next

(* dispatch_frame ends with a wipe of the payload it was given.              *)
Wipe(ctx) ==
  [ctx EXCEPT !.payload_buf =
     [c \in PayloadCells |-> IF c < ctx.expected_payload_len THEN 0 ELSE @[c]]]

(* The last CRC-32 cell: dispatch a valid frame, look for the next in any    *)
(* case.                                                                     *)
AddCrc32(ctx, b) ==
  LET next == [ctx EXCEPT !.crc32_buf[ctx.crc32_idx] = b, !.crc32_idx = @ + 1]
      end  == IF validate_frame_payload(next) THEN Wipe(next) ELSE next
  IN  IF next.crc32_idx >= SPI_CRC32_SIZE THEN [end EXCEPT !.state = "IDLE"]
      ELSE next

(* The frame the byte completes, as << cmd, payload >>, if it is dispatched. *)
Dispatched(ctx, b) ==
  LET next == [ctx EXCEPT !.crc32_buf[ctx.crc32_idx] = b]
  IN  IF /\ ctx.state = "CRC32" /\ ctx.crc32_idx + 1 >= SPI_CRC32_SIZE
         /\ validate_frame_payload(next)
      THEN << <<ctx.hdr_buf[1], Payload(ctx)>> >> ELSE << >>

(* The cells of the frames the receiver accepts, and what there is of them   *)
(* before the last cell; without a payload the CRC-32 cells may be anything. *)
Accepted(c, p) ==
  IF p # << >> THEN {BuildFrame(c, p)}
  ELSE {SubSeq(BuildFrame(c, p), 1, SPI_HDR_SIZE) \o t :
          t \in [1 .. SPI_CRC32_SIZE -> Byte]}

AcceptedFrames ==
  UNION {Accepted(c, p) : c \in Byte,
                          p \in UNION {[1 .. n -> Byte] : n \in 0 .. SPI_MAX_PAYLOAD}}

Unfinished ==
  UNION {{SubSeq(f, 1, k) : k \in 1 .. Len(f) - 1} : f \in AcceptedFrames}

(* One round of the loop of spi_protocol_process.  The history wire begins   *)
(* with a cell that finds IDLE and follows an acceptable frame to its end    *)
(* even if the receiver gives it up.                                         *)
spi_protocol_process(b) ==
  /\ rx_ctx' = CASE rx_ctx.state = "IDLE"    -> SeekSync(rx_ctx, b)
                 [] rx_ctx.state = "HEADER"  -> AddHeader(rx_ctx, b)
                 [] rx_ctx.state = "PAYLOAD" -> AddPayload(rx_ctx, b)
                 [] rx_ctx.state = "CRC32"   -> AddCrc32(rx_ctx, b)
  /\ dispatched' = Dispatched(rx_ctx, b)
  /\ wire' = IF rx_ctx.state = "IDLE" /\ wire \notin Unfinished THEN <<b>>
             ELSE Append(wire, b)

Init == rx_ctx = ResetCtx /\ dispatched = << >> /\ wire = << >>

Next == \E b \in Byte : spi_protocol_process(b)

Spec == Init /\ [][Next]_vars

-----------------------------------------------------------------------------
(* Every buffer has room for the byte its state is about to store: an index  *)
(* is reset before each use, and the length was checked against the buffer.  *)
RoomForNextByte ==
  CASE rx_ctx.state = "IDLE"    -> TRUE
    [] rx_ctx.state = "HEADER"  -> rx_ctx.hdr_idx \in 1 .. SPI_HDR_SIZE - 1
    [] rx_ctx.state = "PAYLOAD" ->
         /\ rx_ctx.expected_payload_len <= SPI_MAX_PAYLOAD
         /\ rx_ctx.payload_idx < rx_ctx.expected_payload_len
    [] rx_ctx.state = "CRC32"   -> rx_ctx.crc32_idx < SPI_CRC32_SIZE

(* No command is made up: the command and the payload a handler gets are,     *)
(* cell for cell, those of the frame that has just arrived, with nothing in   *)
(* them of the frames before, and the checksums that were compared (CRC-64     *)
(* always, CRC-32 when there is a payload) are theirs.                       *)
DispatchedWasReceived ==
  \A k \in 1 .. Len(dispatched) : wire \in Accepted(dispatched[k][1], dispatched[k][2])

(* No command is lost: a frame as BuildFrame makes them (reserved field zero), *)
(* whose first cell finds the receiver idle, is dispatched with its last cell. *)
GoodFrameIsDispatched ==
  LET n == Len(wire) - FrameLen(0)
      c == wire[2]
      p == SubSeq(wire, SPI_HDR_SIZE + 1, SPI_HDR_SIZE + n)
  IN  Len(wire) >= FrameLen(0) /\ n <= SPI_MAX_PAYLOAD /\ wire \in Accepted(c, p)
        => dispatched = << <<c, p>> >>

(* "Detect corrupted CRC-32 trailer" (test_spi_protocol.c:820, a NOP without   *)
(* payload): both checksums of every dispatched frame match.  Violated: the    *)
(* receiver does not look at the CRC-32 of an empty payload.                 *)
TrailerIsChecked ==
  \A k \in 1 .. Len(dispatched) : wire = BuildFrame(dispatched[k][1], dispatched[k][2])

(* "Frame with non-zero reserved bytes validates (CRC covers it)"              *)
(* (test_spi_protocol.c:873): a header whose checksum matches and whose length *)
(* fits is not dropped.  Violated: the receiver wants the field to be zero.   *)
MatchingHeaderAccepted ==
  Len(wire) = SPI_HDR_SIZE /\ wire[1] = SPI_SYNC_BYTE /\ wire[3] <= SPI_MAX_PAYLOAD
    /\ wire[5] = Crc64(wire[1], wire[2], wire[3], wire[4])
  => rx_ctx.state # "IDLE"
=============================================================================
