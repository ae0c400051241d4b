------------------------------ MODULE SpiFrame ------------------------------
(***************************************************************************)
(* The frame of the RK3576 <-> RP2350B bridge (spi_protocol.h), with one   *)
(* cell per field instead of one byte per byte:                            *)
(*                                                                         *)
(*   cell   0     1    2    3         4        5 ..          last two      *)
(*          sync  cmd  len  reserved  hdr_crc  payload       CRC-32        *)
(*                                                                         *)
(* The two CRCs are parameters: what the receivers guarantee must not      *)
(* depend on which function the checksum is.                               *)
(***************************************************************************)
EXTENDS Naturals, Sequences

CONSTANTS
  BYTE_MAX,          \* a cell holds 0 .. BYTE_MAX
  SPI_SYNC_BYTE,     \* 0xAA in the code
  SPI_MAX_PAYLOAD,   \* 4092 in the code
  Crc64(_, _, _, _), \* header checksum over sync, cmd, len, reserved
  Crc32(_)           \* payload checksum over a sequence of cells

ASSUME FrameAssumption ==
  /\ BYTE_MAX \in Nat
  /\ SPI_SYNC_BYTE \in 1 .. BYTE_MAX
  /\ SPI_MAX_PAYLOAD \in Nat

SPI_HDR_SIZE == 5
SPI_CRC32_SIZE == 2
SPI_FRAME_BUF_SIZE == SPI_HDR_SIZE + SPI_MAX_PAYLOAD + SPI_CRC32_SIZE

Byte == 0 .. BYTE_MAX
Cells == 0 .. SPI_FRAME_BUF_SIZE - 1

(* The length of a whole frame that carries n payload cells.               *)
FrameLen(n) == SPI_HDR_SIZE + n + SPI_CRC32_SIZE

(* Readers of a buffer of cells, indexed from 0 as in C.                    *)
extract_payload_length(buf) == buf[2]

validate_header_crc64(buf) == buf[4] = Crc64(buf[0], buf[1], buf[2], buf[3])

PayloadOf(buf, n) == [k \in 1 .. n |-> buf[SPI_HDR_SIZE + k - 1]]

validate_payload_crc32(buf, n) ==
  /\ buf[SPI_HDR_SIZE + n] = Crc32(PayloadOf(buf, n))
  /\ buf[SPI_HDR_SIZE + n + 1] = Crc32(PayloadOf(buf, n))

(* The cells of a well-formed frame, what build_response_frame on the MCU   *)
(* and apex_build_frame on the host put on the wire.                        *)
BuildFrame(cmd, payload) ==
  << SPI_SYNC_BYTE, cmd, Len(payload), 0,
     Crc64(SPI_SYNC_BYTE, cmd, Len(payload), 0) >>
    \o payload \o << Crc32(payload), Crc32(payload) >>
=============================================================================
