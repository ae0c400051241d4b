---------------------------- MODULE Spi0IsrProofs ----------------------------
(***************************************************************************)
(* Proofs about the SPI0 interrupt handler (Spi0Isr), for every size of     *)
(* cell, payload and FIFO and whatever the two checksums compute: types,    *)
(* the room in the receive buffer, the hand-over of a frame to the main     *)
(* loop and back, and the signalling of a response.                        *)
(***************************************************************************)
EXTENDS Spi0Isr, TLAPS

Receiver ==
  [buf : [Cells -> Byte], pos : 0 .. SPI_FRAME_BUF_SIZE,
   state : {"IDLE", "HEADER", "PAYLOAD", "COMPLETE", "ERROR"},
   payload_len : Byte, frame_ready : BOOLEAN]

(* What the state machine knows of the bytes it has stored so far.          *)
Assembled(r) ==
  /\ r.state = "HEADER" => r.pos \in 1 .. SPI_HDR_SIZE - 1 /\ r.buf[0] = SPI_SYNC_BYTE
  /\ r.state = "PAYLOAD" =>
       /\ r.payload_len <= SPI_MAX_PAYLOAD
       /\ r.pos \in SPI_HDR_SIZE .. FrameLen(r.payload_len) - 1
       /\ r.buf[0] = SPI_SYNC_BYTE /\ validate_header_crc64(r.buf)
       /\ r.payload_len = extract_payload_length(r.buf)

(* What a byte may do to a receiver whose frame is not complete.            *)
Advanced(n) ==
  /\ n \in Receiver /\ Assembled(n)
  /\ n.frame_ready <=> n.state = "COMPLETE"
  /\ n.frame_ready => ValidFrame(n.buf, n.pos)

(* The cells of a header and of a frame lie within the buffer.              *)
LEMMA Sizes ==
  /\ SPI_FRAME_BUF_SIZE \in Nat /\ SPI_HDR_SIZE = 5 /\ 0 \in Byte
  /\ 0 .. 4 \subseteq Cells
  /\ \A c \in Nat : c < SPI_FRAME_BUF_SIZE => c \in Cells
  /\ \A n \in Nat : n <= SPI_MAX_PAYLOAD =>
       FrameLen(n) \in SPI_HDR_SIZE + 1 .. SPI_FRAME_BUF_SIZE
  BY FrameAssumption
     DEF SPI_FRAME_BUF_SIZE, SPI_HDR_SIZE, SPI_CRC32_SIZE, Cells, FrameLen, Byte

(* The fields of a receiver, each of its type.                              *)
LEMMA Fields ==
  ASSUME NEW r \in Receiver
  PROVE  /\ r.buf \in [Cells -> Byte] /\ r.pos \in 0 .. SPI_FRAME_BUF_SIZE
         /\ r.payload_len \in Byte /\ r.frame_ready \in BOOLEAN
         /\ r.state \in {"IDLE", "HEADER", "PAYLOAD", "COMPLETE", "ERROR"}
  BY DEF Receiver

(* A record of such fields is a receiver.                                    *)
LEMMA FromFields ==
  ASSUME NEW buf \in [Cells -> Byte], NEW pos \in 0 .. SPI_FRAME_BUF_SIZE,
         NEW state \in {"IDLE", "HEADER", "PAYLOAD", "COMPLETE", "ERROR"},
         NEW len \in Byte, NEW ready \in BOOLEAN
  PROVE  [buf |-> buf, pos |-> pos, state |-> state, payload_len |-> len,
          frame_ready |-> ready] \in Receiver
  BY DEF Receiver

(* IDLE and ERROR.                                                          *)
LEMMA SeekAdvances ==
  ASSUME NEW r \in Receiver, NEW b \in Byte, r.state \in {"IDLE", "ERROR"},
         ~r.frame_ready
  PROVE  Advanced(SeekSync(r, b))
<1> USE DEF Receiver, Assembled, Advanced
<1>1. CASE b = SPI_SYNC_BYTE
  <2> DEFINE n == StartFrame(r, b)
  <2>1. n.buf = [r.buf EXCEPT ![0] = b] /\ n.pos = 1 /\ n.state = "HEADER"
        /\ n.payload_len = r.payload_len /\ n.frame_ready = r.frame_ready
    BY DEF StartFrame
  <2>2. n.buf \in [Cells -> Byte] /\ n.buf[0] = b
    BY <2>1, Sizes
  <2>3. n = [buf |-> [r.buf EXCEPT ![0] = b], pos |-> 1, state |-> "HEADER",
             payload_len |-> r.payload_len, frame_ready |-> r.frame_ready]
    <3>1. n = [r EXCEPT !.buf = [r.buf EXCEPT ![0] = b], !.pos = 1, !.state = "HEADER"]
      BY DEF StartFrame
    <3> HIDE DEF n
    <3> QED BY <3>1
  <2>4. 1 \in 0 .. SPI_FRAME_BUF_SIZE
    BY FrameAssumption DEF SPI_FRAME_BUF_SIZE, SPI_HDR_SIZE, SPI_CRC32_SIZE
  <2> HIDE DEF n
  <2>5. n \in Receiver
    BY <2>1, <2>2, <2>3, <2>4, Fields, FromFields
  <2>6. Advanced(n)
    BY <1>1, <2>1, <2>2, <2>5, Sizes
  <2> QED BY <1>1, <2>6 DEF SeekSync, n
<1>2. CASE b # SPI_SYNC_BYTE
  BY <1>2 DEF SeekSync
<1> QED BY <1>1, <1>2

(* HEADER.                                                                  *)
LEMMA HeaderAdvances ==
  ASSUME NEW r \in Receiver, NEW b \in Byte, r.state = "HEADER", Assembled(r),
         ~r.frame_ready
  PROVE  Advanced(AddHeader(r, b))
<1> DEFINE buf == [r.buf EXCEPT ![r.pos] = b]
           full == r.pos + 1 = SPI_HDR_SIZE
           n == AddHeader(r, b)
<1> USE DEF Receiver
<1>1. r.pos \in 1 .. 4 /\ r.buf[0] = SPI_SYNC_BYTE /\ r.pos < SPI_HDR_SIZE
      /\ r.pos \in Cells
  BY Sizes DEF Assembled
<1>2. buf \in [Cells -> Byte] /\ buf[0] = SPI_SYNC_BYTE /\ 0 \in Cells /\ 2 \in Cells
  BY <1>1, Sizes
<1>3. buf[2] \in Byte
  BY <1>2
<1>4. n = [r EXCEPT !.buf = buf, !.pos = r.pos + 1,
                    !.payload_len = IF full /\ validate_header_crc64(buf)
                                    THEN extract_payload_length(buf) ELSE @,
                    !.state = IF full THEN HeaderVerdict(buf) ELSE @]
  BY <1>1 DEF AddHeader
<1> HIDE DEF buf
<1>5. CASE ~full
  <2>1. n = [r EXCEPT !.buf = buf, !.pos = r.pos + 1]
    BY <1>4, <1>5
  <2>2. r.pos + 1 \in 1 .. SPI_HDR_SIZE - 1 /\ r.pos + 1 \in 0 .. SPI_FRAME_BUF_SIZE
    BY <1>1, <1>5, Sizes, FrameAssumption DEF SPI_FRAME_BUF_SIZE, SPI_CRC32_SIZE
  <2> HIDE DEF n
  <2>3. n \in Receiver
    BY <2>1, <2>2, <1>2
  <2>4. n.buf = buf /\ n.pos = r.pos + 1 /\ n.state = "HEADER" /\ ~n.frame_ready
    BY <2>1
  <2> QED BY <2>2, <2>3, <2>4, <1>2 DEF Advanced, Assembled, n
<1>6. CASE full
  <2>1. /\ n.buf = buf /\ n.pos = SPI_HDR_SIZE /\ n.state = HeaderVerdict(buf)
        /\ n.payload_len = (IF validate_header_crc64(buf)
                            THEN extract_payload_length(buf) ELSE r.payload_len)
        /\ ~n.frame_ready /\ n.frame_ready = r.frame_ready
    BY <1>4, <1>6
  <2>2. n \in Receiver
    <3>1. SPI_HDR_SIZE \in 0 .. SPI_FRAME_BUF_SIZE
      BY FrameAssumption DEF SPI_FRAME_BUF_SIZE, SPI_CRC32_SIZE, SPI_HDR_SIZE
    <3>2. n.payload_len \in Byte
      BY <2>1, <1>3 DEF extract_payload_length
    <3>3. n.state \in {"PAYLOAD", "ERROR"}
      BY <2>1 DEF HeaderVerdict
    <3>4. n = [buf |-> n.buf, pos |-> n.pos, state |-> n.state,
               payload_len |-> n.payload_len, frame_ready |-> n.frame_ready]
      BY <1>4
    <3> HIDE DEF n
    <3> QED BY <2>1, <3>1, <3>2, <3>3, <3>4, <1>2
  <2>3. CASE validate_header_crc64(buf) /\ extract_payload_length(buf) <= SPI_MAX_PAYLOAD
    <3>1. n.state = "PAYLOAD" /\ n.payload_len = extract_payload_length(buf)
          /\ n.payload_len \in Nat
      BY <2>1, <2>3, <1>3 DEF HeaderVerdict, extract_payload_length, Byte
    <3>2. n.pos \in SPI_HDR_SIZE .. FrameLen(n.payload_len) - 1
      BY <2>1, <3>1, Sizes DEF FrameLen, SPI_CRC32_SIZE
    <3> QED BY <2>1, <2>2, <2>3, <3>1, <3>2, <1>2 DEF Advanced, Assembled
  <2>4. CASE ~(validate_header_crc64(buf) /\ extract_payload_length(buf) <= SPI_MAX_PAYLOAD)
    BY <2>1, <2>2, <2>4 DEF HeaderVerdict, Advanced, Assembled
  <2> QED BY <2>3, <2>4
<1> QED BY <1>5, <1>6

(* PAYLOAD: the frame that becomes ready passed every check.                *)
LEMMA PayloadAdvances ==
  ASSUME NEW r \in Receiver, NEW b \in Byte, r.state = "PAYLOAD", Assembled(r),
         ~r.frame_ready
  PROVE  Advanced(AddPayload(r, b))
<1> DEFINE end == FrameLen(r.payload_len)
           buf == [r.buf EXCEPT ![r.pos] = b]
           full == r.pos + 1 = end
           good == full /\ validate_payload_crc32(buf, r.payload_len)
           n == AddPayload(r, b)
<1> USE DEF Receiver
<1>1. /\ r.payload_len <= SPI_MAX_PAYLOAD /\ r.pos \in SPI_HDR_SIZE .. end - 1
      /\ r.buf[0] = SPI_SYNC_BYTE /\ validate_header_crc64(r.buf)
      /\ r.payload_len = extract_payload_length(r.buf) /\ r.payload_len \in Nat
  BY DEF Assembled, Byte
<1>2. end \in SPI_HDR_SIZE + 1 .. SPI_FRAME_BUF_SIZE
  BY <1>1, Sizes
<1>3. r.pos \in Nat /\ r.pos >= 5 /\ r.pos < end /\ r.pos \in Cells
      /\ r.pos + 1 \in SPI_HDR_SIZE .. end /\ r.pos + 1 \in 0 .. SPI_FRAME_BUF_SIZE
  <2> HIDE DEF end
  <2> QED BY <1>1, <1>2, Sizes
<1>4. buf \in [Cells -> Byte] /\ \A c \in 0 .. 4 : buf[c] = r.buf[c]
  BY <1>3, Sizes
<1>5. buf[0] = SPI_SYNC_BYTE /\ validate_header_crc64(buf)
      /\ extract_payload_length(buf) = r.payload_len
  <2>1. buf[0] = r.buf[0] /\ buf[1] = r.buf[1] /\ buf[2] = r.buf[2]
        /\ buf[3] = r.buf[3] /\ buf[4] = r.buf[4]
    BY <1>4
  <2> HIDE DEF buf
  <2> QED BY <1>1, <2>1 DEF validate_header_crc64, extract_payload_length
<1>6. n = [r EXCEPT !.buf = buf, !.pos = r.pos + 1,
                    !.state = IF good THEN "COMPLETE" ELSE IF full THEN "ERROR" ELSE @,
                    !.frame_ready = good \/ @]
  BY <1>3 DEF AddPayload
<1> HIDE DEF buf, end, n
<1>7. CASE good
  <2>1. n = [r EXCEPT !.buf = buf, !.pos = r.pos + 1, !.state = "COMPLETE",
                      !.frame_ready = TRUE]
    BY <1>6, <1>7
  <2>5. n = [buf |-> buf, pos |-> r.pos + 1, state |-> "COMPLETE",
             payload_len |-> r.payload_len, frame_ready |-> TRUE]
    BY <2>1
  <2>2. n \in Receiver /\ n.buf = buf /\ n.pos = end /\ n.state = "COMPLETE"
        /\ n.frame_ready
    BY <2>5, <1>3, <1>4, <1>7, Fields, FromFields
  <2>3. ValidFrame(buf, end)
    BY <1>1, <1>5, <1>7 DEF ValidFrame, end
  <2> QED BY <2>2, <2>3 DEF Advanced, Assembled, n
<1>8. CASE ~good /\ full
  <2>1. n = [r EXCEPT !.buf = buf, !.pos = r.pos + 1, !.state = "ERROR",
                      !.frame_ready = FALSE]
    BY <1>6, <1>8
  <2>2. n = [buf |-> buf, pos |-> r.pos + 1, state |-> "ERROR",
             payload_len |-> r.payload_len, frame_ready |-> FALSE]
    BY <2>1
  <2>3. n \in Receiver /\ n.state = "ERROR" /\ ~n.frame_ready
    BY <2>2, <1>3, <1>4, Fields, FromFields
  <2> QED BY <2>3 DEF Advanced, Assembled, n
<1>9. CASE ~full
  <2>1. n = [r EXCEPT !.buf = buf, !.pos = r.pos + 1, !.frame_ready = FALSE]
    BY <1>6, <1>9
  <2>4. n = [buf |-> buf, pos |-> r.pos + 1, state |-> "PAYLOAD",
             payload_len |-> r.payload_len, frame_ready |-> FALSE]
    BY <2>1
  <2>2. n \in Receiver /\ n.buf = buf /\ n.pos = r.pos + 1 /\ n.state = "PAYLOAD"
        /\ ~n.frame_ready /\ n.payload_len = r.payload_len
    BY <2>4, <1>3, <1>4, Fields, FromFields
  <2>3. n.pos \in SPI_HDR_SIZE .. end - 1
    BY <2>2, <1>2, <1>3, <1>9, Sizes
  <2> QED BY <2>2, <2>3, <1>1, <1>5 DEF Advanced, Assembled, end, n
<1> QED BY <1>7, <1>8, <1>9 DEF n

(* One byte: a complete frame is left alone, any other receiver advances.    *)
LEMMA ByteAdvances ==
  ASSUME NEW r \in Receiver, NEW b \in Byte, Assembled(r),
         r.frame_ready => r.state = "COMPLETE"
  PROVE  /\ r.state = "COMPLETE" => spi0_process_byte(r, b) = r
         /\ r.state # "COMPLETE" => Advanced(spi0_process_byte(r, b))
<1>1. CASE r.state \in {"IDLE", "ERROR"}
  <2>1. spi0_process_byte(r, b) = SeekSync(r, b)
    BY <1>1 DEF spi0_process_byte
  <2> QED BY <1>1, <2>1, SeekAdvances
<1>2. CASE r.state = "HEADER"
  <2>1. spi0_process_byte(r, b) = AddHeader(r, b)
    BY <1>2 DEF spi0_process_byte
  <2> QED BY <1>2, <2>1, HeaderAdvances
<1>3. CASE r.state = "PAYLOAD"
  <2>1. spi0_process_byte(r, b) = AddPayload(r, b)
    BY <1>3 DEF spi0_process_byte
  <2> QED BY <1>3, <2>1, PayloadAdvances
<1>4. CASE r.state = "COMPLETE"
  BY <1>4 DEF spi0_process_byte
<1> QED BY <1>1, <1>2, <1>3, <1>4 DEF Receiver

-----------------------------------------------------------------------------
(* The hand-over of a frame.                                                *)
MainPc == {"loop", "hold", "wipe", "rel_ready", "rel_pos", "rel_len", "rel_state",
           "q_copy", "q_len", "q_pending", "q_assert", "gpio"}
Released == {"rel_pos", "rel_len", "rel_state"}

(* The buffer belongs to the main loop from the moment a frame is ready to   *)
(* the last store of the release, and each step of the release knows what    *)
(* the steps before it have done.                                           *)
Ownership ==
  /\ mpc \in {"hold", "wipe", "rel_ready"} => rx.frame_ready /\ rx.pos = held.len
  /\ mpc \in Released => ~rx.frame_ready
  /\ rx.frame_ready /\ mpc \notin {"wipe", "rel_ready"} => ValidFrame(rx.buf, rx.pos)
  /\ mpc = "hold" => rx.buf = held.buf
  /\ mpc = "wipe" => \A c \in Cells : c < idx => rx.buf[c] = 0

RxTyped ==
  /\ rx \in Receiver /\ mpc \in MainPc /\ idx \in Nat
  /\ held \in [len : 0 .. SPI_FRAME_BUF_SIZE, buf : [Cells -> Byte]]

RxInv ==
  RxTyped /\ Assembled(rx) /\ ReceiverNotDead /\ Ownership /\ WipedBeforeReuse

(* The stores of the transmit path do not concern the receiver.             *)
LEMMA RxUntouched ==
  ASSUME RxInv, UNCHANGED <<rx, held>>, mpc' \in MainPc, idx' \in Nat,
         \/ mpc' = mpc /\ (idx' = idx \/ mpc # "wipe")
         \/ mpc \notin {"hold", "wipe", "rel_ready"} \cup Released
              /\ mpc' \notin {"hold", "wipe", "rel_ready"} \cup Released
  PROVE  RxInv'
<1>1. RxTyped' /\ Assembled(rx)'
  BY DEF RxInv, RxTyped
<1>2. ReceiverNotDead'
  BY DEF RxInv, ReceiverNotDead, Released
<1>3. Ownership'
  BY DEF RxInv, Ownership, Released
<1>4. WipedBeforeReuse'
  BY DEF RxInv, WipedBeforeReuse, Released
<1> QED BY <1>1, <1>2, <1>3, <1>4 DEF RxInv

(* A byte from the wire finds the buffer owned, or completes a valid frame.  *)
LEMMA RxByte ==
  ASSUME RxInv, NEW b \in Byte, IsrByte(b)
  PROVE  RxInv'
<1>1. rx' = spi0_process_byte(rx, b) /\ UNCHANGED <<mpc, idx, held>>
  BY DEF IsrByte
<1>2. rx.frame_ready => rx.state = "COMPLETE"
  BY DEF RxInv, ReceiverNotDead
<1>3. CASE rx.state = "COMPLETE"
  <2>1. rx' = rx
    BY <1>1, <1>2, <1>3, ByteAdvances DEF RxInv, RxTyped
  <2> QED BY <1>1, <2>1, RxUntouched DEF RxInv, RxTyped
<1>4. CASE rx.state # "COMPLETE"
  <2>1. Advanced(rx')
    BY <1>1, <1>2, <1>4, ByteAdvances DEF RxInv, RxTyped
  <2>2. mpc \notin {"hold", "wipe", "rel_ready"} \cup Released
    BY <1>4 DEF RxInv, ReceiverNotDead, Ownership, Released
  <2>3. RxTyped' /\ Assembled(rx)'
    BY <1>1, <2>1 DEF RxInv, RxTyped, Advanced
  <2>4. ReceiverNotDead'
    BY <1>1, <2>1, <2>2 DEF ReceiverNotDead, Advanced, Released
  <2>5. Ownership'
    BY <1>1, <2>1, <2>2 DEF Ownership, Advanced, Released
  <2>6. WipedBeforeReuse'
    BY <1>1, <2>2 DEF WipedBeforeReuse, Released
  <2> QED BY <2>3, <2>4, <2>5, <2>6 DEF RxInv
<1> QED BY <1>3, <1>4

(* The wipe loop zeroes the cells in order up to pos.                        *)
LEMMA RxWipe ==
  ASSUME RxInv, ReleaseWipe
  PROVE  RxInv'
<1> USE DEF RxInv, RxTyped
<1>1. mpc = "wipe" /\ UNCHANGED held /\ rx.frame_ready /\ rx.pos = held.len
      /\ rx.state = "COMPLETE"
  BY DEF ReleaseWipe, Ownership, ReceiverNotDead
<1>2. CASE idx < rx.pos
  <2>1. rx' = [rx EXCEPT !.buf[idx] = 0] /\ idx' = idx + 1 /\ mpc' = mpc
    BY <1>2 DEF ReleaseWipe
  <2>2. rx' = [rx EXCEPT !.buf = [rx.buf EXCEPT ![idx] = 0]]
    BY <2>1
  <2>3. rx'.buf = [rx.buf EXCEPT ![idx] = 0] /\ rx'.pos = rx.pos
        /\ rx'.state = "COMPLETE" /\ rx'.frame_ready = rx.frame_ready
    BY <1>1, <2>2 DEF Receiver
  <2>4. rx'.buf \in [Cells -> Byte]
    BY <2>3, Sizes DEF Receiver
  <2>5. rx' = [buf |-> rx'.buf, pos |-> rx.pos, state |-> "COMPLETE",
               payload_len |-> rx.payload_len, frame_ready |-> rx.frame_ready]
    BY <1>1, <2>2, <2>3 DEF Receiver
  <2>6. rx' \in Receiver
    BY <2>4, <2>5, Fields, FromFields
  <2>7. Assembled(rx)'
    BY <2>3 DEF Assembled
  <2>8. RxTyped'
    BY <2>1, <2>6, <1>1
  <2>9. ReceiverNotDead'
    BY <1>1, <2>1, <2>3 DEF ReceiverNotDead
  <2>10. \A c \in Cells : c < idx + 1 => rx'.buf[c] = 0
    <3> SUFFICES ASSUME NEW c \in Cells, c < idx + 1 PROVE rx'.buf[c] = 0
      OBVIOUS
    <3>1. CASE c = idx
      BY <3>1, <2>3 DEF Receiver
    <3>2. CASE c # idx
      <4>1. c < idx
        BY <3>2 DEF Cells
      <4> QED BY <3>2, <4>1, <2>3, <1>1 DEF Receiver, Ownership
    <3> QED BY <3>1, <3>2
  <2>11. Ownership'
    BY <1>1, <2>1, <2>3, <2>10 DEF Ownership, Released
  <2>12. WipedBeforeReuse'
    BY <1>1, <2>1 DEF WipedBeforeReuse
  <2> QED BY <2>7, <2>8, <2>9, <2>11, <2>12
<1>3. CASE ~(idx < rx.pos)
  <2>1. mpc' = "rel_ready" /\ idx' = 0 /\ UNCHANGED rx
    BY <1>3 DEF ReleaseWipe
  <2>2. RxTyped' /\ Assembled(rx)' /\ ReceiverNotDead'
    BY <1>1, <2>1 DEF ReceiverNotDead, MainPc
  <2>3. \A c \in Cells : c < held.len => c < idx
    BY <1>1, <1>3 DEF Cells, Receiver
  <2>4. Ownership' /\ WipedBeforeReuse'
    BY <1>1, <2>1, <2>3 DEF Ownership, WipedBeforeReuse, Released
  <2> QED BY <2>2, <2>4
<1> QED BY <1>2, <1>3

(* The four stores of the release; the last one reopens the state machine.   *)
LEMMA RxRelease ==
  ASSUME RxInv, ReleaseReset
  PROVE  RxInv'
<1> USE DEF RxInv, RxTyped
<1>1. UNCHANGED idx /\ held' = IF mpc = "rel_state" THEN NoFrame ELSE held
  BY DEF ReleaseReset
<1>2. CASE mpc = "rel_ready"
  <2>1. mpc' = "rel_pos" /\ rx' = [rx EXCEPT !.frame_ready = FALSE] /\ held' = held
    BY <1>1, <1>2 DEF ReleaseReset, Main
  <2>2. rx' \in Receiver /\ rx.state = "COMPLETE" /\ rx'.state = rx.state
        /\ rx'.buf = rx.buf /\ ~rx'.frame_ready
    BY <1>2, <2>1 DEF Receiver, Ownership, ReceiverNotDead
  <2>3. RxTyped' /\ Assembled(rx)' /\ ReceiverNotDead'
    BY <1>1, <2>1, <2>2 DEF ReceiverNotDead, Assembled, MainPc
  <2>4. Ownership' /\ WipedBeforeReuse'
    BY <1>2, <2>1, <2>2 DEF Ownership, WipedBeforeReuse, Released
  <2> QED BY <2>3, <2>4
<1>3. CASE mpc = "rel_pos"
  <2>1. mpc' = "rel_len" /\ rx' = [rx EXCEPT !.pos = 0] /\ held' = held
    BY <1>1, <1>3 DEF ReleaseReset, Main
  <2>2. rx' \in Receiver /\ rx.state = "COMPLETE" /\ rx'.state = rx.state
        /\ rx'.buf = rx.buf /\ ~rx'.frame_ready
    BY <1>3, <2>1, Sizes DEF Receiver, Ownership, ReceiverNotDead, Released
  <2>3. RxTyped' /\ Assembled(rx)' /\ ReceiverNotDead'
    BY <1>1, <2>1, <2>2 DEF ReceiverNotDead, Assembled, MainPc
  <2>4. Ownership' /\ WipedBeforeReuse'
    BY <1>3, <2>1, <2>2 DEF Ownership, WipedBeforeReuse, Released
  <2> QED BY <2>3, <2>4
<1>4. CASE mpc = "rel_len"
  <2>1. mpc' = "rel_state" /\ rx' = [rx EXCEPT !.payload_len = 0] /\ held' = held
    BY <1>1, <1>4 DEF ReleaseReset, Main
  <2>2. rx' \in Receiver /\ rx.state = "COMPLETE" /\ rx'.state = rx.state
        /\ rx'.buf = rx.buf /\ ~rx'.frame_ready
    BY <1>4, <2>1, Sizes DEF Receiver, Ownership, ReceiverNotDead, Released
  <2>3. RxTyped' /\ Assembled(rx)' /\ ReceiverNotDead'
    BY <1>1, <2>1, <2>2 DEF ReceiverNotDead, Assembled, MainPc
  <2>4. Ownership' /\ WipedBeforeReuse'
    BY <1>4, <2>1, <2>2 DEF Ownership, WipedBeforeReuse, Released
  <2> QED BY <2>3, <2>4
<1>5. CASE mpc = "rel_state"
  <2>1. mpc' = "loop" /\ rx' = [rx EXCEPT !.state = "IDLE"] /\ held' = NoFrame
    BY <1>1, <1>5 DEF ReleaseReset, Main
  <2>2. rx' \in Receiver /\ rx'.state = "IDLE" /\ ~rx'.frame_ready
    BY <1>5, <2>1 DEF Receiver, Ownership, Released
  <2>3. held' \in [len : 0 .. SPI_FRAME_BUF_SIZE, buf : [Cells -> Byte]]
    BY <2>1, Sizes DEF NoFrame, EmptyRx
  <2>4. RxTyped' /\ Assembled(rx)' /\ ReceiverNotDead'
    BY <1>1, <2>1, <2>2, <2>3 DEF ReceiverNotDead, Assembled, MainPc
  <2>5. Ownership' /\ WipedBeforeReuse'
    BY <2>1, <2>2 DEF Ownership, WipedBeforeReuse, Released
  <2> QED BY <2>4, <2>5
<1> QED BY <1>2, <1>3, <1>4, <1>5 DEF ReleaseReset, Main

(* Every step keeps the hand-over in order.                                 *)
LEMMA RxStep ==
  ASSUME RxInv, [Next]_vars
  PROVE  RxInv'
<1> USE DEF RxInv, RxTyped
<1>1. CASE IsrEnter \/ IsrExit \/ HostClock \/ UNCHANGED vars
  <2>1. UNCHANGED <<rx, held, mpc, idx>>
    BY <1>1 DEF IsrEnter, IsrExit, HostClock, vars, rxVars
  <2> QED BY <2>1, RxUntouched
<1>2. ASSUME NEW b \in Byte, IsrByte(b) PROVE RxInv'
  BY <1>2, RxByte
<1>3. CASE spi0_rx_get_frame
  <2>1. mpc = "loop" /\ mpc' = "hold" /\ UNCHANGED <<rx, idx>> /\ rx.frame_ready
        /\ held' = [len |-> rx.pos, buf |-> rx.buf]
    BY <1>3 DEF spi0_rx_get_frame, Main
  <2>2. RxTyped' /\ Assembled(rx)' /\ ReceiverNotDead'
    BY <2>1, Fields DEF ReceiverNotDead, MainPc
  <2>3. Ownership' /\ WipedBeforeReuse'
    BY <2>1 DEF Ownership, WipedBeforeReuse, Released
  <2> QED BY <2>2, <2>3
<1>4. CASE ReleaseBegin
  <2>1. mpc = "hold" /\ mpc' = "wipe" /\ idx' = 0 /\ UNCHANGED <<rx, held>>
    BY <1>4 DEF ReleaseBegin, Main, rxVars
  <2>2. RxTyped' /\ Assembled(rx)' /\ ReceiverNotDead'
    BY <2>1 DEF ReceiverNotDead, MainPc
  <2>3. Ownership' /\ WipedBeforeReuse'
    BY <2>1 DEF Ownership, WipedBeforeReuse, Released, Cells
  <2> QED BY <2>2, <2>3
<1>5. CASE ReleaseWipe
  BY <1>5, RxWipe
<1>6. CASE ReleaseReset
  BY <1>6, RxRelease
<1>7. ASSUME NEW r \in Responses, NEW n \in ResponseLens, QueueBegin(r, n)
      PROVE  RxInv'
  BY <1>7, RxUntouched DEF QueueBegin, Main, rxVars, MainPc, Released
<1>8. CASE QueueCopy
  BY <1>8, RxUntouched DEF QueueCopy, rxVars, MainPc, Released
<1>9. CASE QueueStores
  BY <1>9, RxUntouched DEF QueueStores, Main, rxVars, MainPc, Released
<1>10. CASE GpioRead \/ GpioWrite
  BY <1>10, RxUntouched DEF GpioRead, GpioWrite, Main, rxVars, MainPc, Released
<1> QED
  BY <1>1, <1>2, <1>3, <1>4, <1>5, <1>6, <1>7, <1>8, <1>9, <1>10
     DEF Next, Isr, Release, Queue

(* The receive side is in order from spi0_rx_reset on.                       *)
LEMMA RxAlways == Spec => []RxInv
<1>1. Init => RxInv
  <2> SUFFICES ASSUME Init PROVE RxInv
    OBVIOUS
  <2>1. rx = [buf |-> [c \in Cells |-> 0], pos |-> 0, state |-> "IDLE",
              payload_len |-> 0, frame_ready |-> FALSE]
        /\ held = [len |-> 0, buf |-> [c \in Cells |-> 0]] /\ mpc = "loop" /\ idx = 0
    BY DEF Init, EmptyRx, NoFrame
  <2>2. RxTyped
    BY <2>1, Sizes DEF RxTyped, Receiver, MainPc
  <2>3. Assembled(rx) /\ ReceiverNotDead /\ Ownership /\ WipedBeforeReuse
    BY <2>1 DEF Assembled, ReceiverNotDead, Ownership, WipedBeforeReuse, Released
  <2> QED BY <2>2, <2>3 DEF RxInv
<1> QED BY <1>1, RxStep, PTL DEF Spec

(* The frame the main loop holds stays, cell for cell, what it was when it   *)
(* was handed over, and passed every check.                                 *)
THEOREM FrameStaysStable == Spec => []HeldFrameStable
<1>1. RxInv => HeldFrameStable
  BY DEF RxInv, Ownership, HeldFrameStable
<1> QED BY <1>1, RxAlways, PTL

(* No byte is ever stored outside the receive buffer.                       *)
THEOREM RoomInBuffer == Spec => []RoomForNextByte
<1>1. RxInv => RoomForNextByte
  BY DEF RxInv, Assembled, RoomForNextByte
<1> QED BY <1>1, RxAlways, PTL

(* The receiver drops bytes only while the main loop has a frame to take or  *)
(* is about to finish its release.                                          *)
THEOREM ReceiverStaysAlive == Spec => []ReceiverNotDead
<1>1. RxInv => ReceiverNotDead
  BY DEF RxInv
<1> QED BY <1>1, RxAlways, PTL

(* Nothing of a frame is left in the buffer when the receiver reopens it.    *)
THEOREM BufferIsWiped == Spec => []WipedBeforeReuse
<1>1. RxInv => WipedBeforeReuse
  BY DEF RxInv
<1> QED BY <1>1, RxAlways, PTL

-----------------------------------------------------------------------------
(* The response path.                                                       *)
Cell == Responses \cup {NoResponse}

(* Types; the transmit FIFO never holds more than its depth, and neither the *)
(* queued response nor the one being copied is longer than the buffer.      *)
TypeOK ==
  /\ RxTyped /\ budget \in 0 .. MAX_ITERATIONS /\ isr \in {"out", "in"}
  /\ tx \in [buf : [Cells -> Cell], len : 0 .. SPI_FRAME_BUF_SIZE,
              response_pending : BOOLEAN]
  /\ int_req \in BOOLEAN
  /\ fifo \in Seq(Cell) /\ Len(fifo) <= TX_FIFO_DEPTH
  /\ arg \in [id : Cell, len : 0 .. SPI_FRAME_BUF_SIZE]

(* The cells the handler adds fit into the FIFO and come from the buffer.    *)
LEMMA LoadFits ==
  ASSUME TypeOK
  PROVE  /\ TxLoad \in 0 .. SPI_FRAME_BUF_SIZE
         /\ [k \in 1 .. TxLoad |-> tx.buf[k - 1]] \in Seq(Cell)
         /\ Len(fifo \o [k \in 1 .. TxLoad |-> tx.buf[k - 1]]) <= TX_FIFO_DEPTH
<1> DEFINE load == [k \in 1 .. TxLoad |-> tx.buf[k - 1]]
<1> USE DEF TypeOK
<1>1. Len(fifo) \in Nat /\ TX_FIFO_DEPTH \in Nat /\ tx.len \in Nat
      /\ SPI_FRAME_BUF_SIZE \in Nat
  BY IsrAssumption, Sizes
<1>2. TxLoad \in Nat /\ TxLoad <= tx.len /\ TxLoad <= TX_FIFO_DEPTH - Len(fifo)
  BY <1>1 DEF TxLoad
<1>3. tx.len <= SPI_FRAME_BUF_SIZE
  BY <1>1
<1>4. TxLoad \in 0 .. SPI_FRAME_BUF_SIZE
  BY <1>1, <1>2, <1>3
<1> HIDE DEF TypeOK
<1>5. ASSUME NEW k \in 1 .. TxLoad PROVE tx.buf[k - 1] \in Cell
  <2>1. k - 1 \in Cells
    BY <1>4, <1>1 DEF Cells
  <2> QED BY <2>1 DEF TypeOK
<1>6. load \in Seq(Cell) /\ Len(load) = TxLoad
  BY <1>5, <1>2
<1> HIDE DEF load
<1>7. Len(fifo \o load) = Len(fifo) + TxLoad
  <2>1. fifo \in Seq(Cell)
    BY DEF TypeOK
  <2> QED BY <1>6, <2>1
<1> QED BY <1>1, <1>2, <1>4, <1>6, <1>7 DEF load

(* Every step keeps the types.                                              *)
LEMMA StepTyped ==
  ASSUME RxInv, TypeOK, [Next]_vars
  PROVE  TypeOK'
<1>1. RxTyped'
  BY RxStep DEF RxInv
<1> USE <1>1 DEF TypeOK
<1>2. CASE IsrEnter
  BY <1>2, IsrAssumption DEF IsrEnter, txVars
<1>3. ASSUME NEW b \in Byte, IsrByte(b) PROVE TypeOK'
  <2>1. budget' \in 0 .. MAX_ITERATIONS
    BY <1>3, IsrAssumption DEF IsrByte
  <2> QED BY <1>3, <2>1 DEF IsrByte, txVars
<1>4. CASE IsrExit
  <2>1. UNCHANGED arg /\ isr' = "out" /\ budget' \in 0 .. MAX_ITERATIONS
    BY <1>4, IsrAssumption DEF IsrExit
  <2>2. CASE tx.response_pending
    <3>1. fifo' = fifo \o [k \in 1 .. TxLoad |-> tx.buf[k - 1]]
          /\ tx' = [tx EXCEPT !.response_pending = TxLoad < tx.len]
          /\ int_req' = (int_req /\ TxLoad < tx.len)
      BY <1>4, <2>2 DEF IsrExit
    <3>2. fifo' \in Seq(Cell) /\ Len(fifo') <= TX_FIFO_DEPTH
      BY <3>1, LoadFits
    <3>3. int_req' \in BOOLEAN
      BY <3>1
    <3>4. tx' \in [buf : [Cells -> Cell], len : 0 .. SPI_FRAME_BUF_SIZE,
                   response_pending : BOOLEAN]
      <4>1. (TxLoad < tx.len) \in BOOLEAN
        OBVIOUS
      <4> HIDE DEF TxLoad
      <4>2. PICK more \in BOOLEAN : tx' = [tx EXCEPT !.response_pending = more]
        BY <3>1, <4>1
      <4> QED BY <4>2
    <3> QED BY <2>1, <3>2, <3>3, <3>4
  <2>3. CASE ~tx.response_pending
    BY <1>4, <2>1, <2>3 DEF IsrExit
  <2> QED BY <2>2, <2>3
<1>5. CASE HostClock
  <2>1. Tail(fifo) \in Seq(Cell) /\ Len(Tail(fifo)) <= TX_FIFO_DEPTH
    BY <1>5, IsrAssumption DEF HostClock
  <2> QED BY <1>5, <2>1 DEF HostClock
<1>6. CASE spi0_rx_get_frame \/ ReleaseBegin \/ Release
  <2>1. UNCHANGED <<txVars, isr, budget>>
    BY <1>6 DEF spi0_rx_get_frame, Release, ReleaseBegin, ReleaseWipe, ReleaseReset
  <2> QED BY <2>1 DEF txVars
<1>7. ASSUME NEW r \in Responses, NEW n \in ResponseLens, QueueBegin(r, n)
      PROVE  TypeOK'
  <2>1. n \in 0 .. SPI_FRAME_BUF_SIZE /\ r \in Cell
    BY <1>7, IsrAssumption, Sizes DEF QueueBegin, Cell
  <2> QED BY <1>7, <2>1 DEF QueueBegin
<1>8. CASE QueueCopy
  <2>1. UNCHANGED <<int_req, fifo, arg, isr, budget>>
    BY <1>8 DEF QueueCopy
  <2>2. CASE idx < arg.len
    <3>1. tx' = [tx EXCEPT !.buf = [tx.buf EXCEPT ![idx] = arg.id]]
      BY <1>8, <2>2 DEF QueueCopy
    <3>2. [tx.buf EXCEPT ![idx] = arg.id] \in [Cells -> Cell]
      OBVIOUS
    <3>3. tx' \in [buf : [Cells -> Cell], len : 0 .. SPI_FRAME_BUF_SIZE,
                   response_pending : BOOLEAN]
      BY <3>1, <3>2
    <3> QED BY <2>1, <3>3
  <2>3. CASE ~(idx < arg.len)
    BY <1>8, <2>1, <2>3 DEF QueueCopy
  <2> QED BY <2>2, <2>3
<1>9. CASE QueueStores
  <2>1. UNCHANGED <<fifo, arg, isr, budget>>
    BY <1>9 DEF QueueStores
  <2>2. tx' \in [buf : [Cells -> Cell], len : 0 .. SPI_FRAME_BUF_SIZE,
                 response_pending : BOOLEAN]
    BY <1>9 DEF QueueStores
  <2>3. int_req' \in BOOLEAN
    BY <1>9 DEF QueueStores
  <2> QED BY <2>1, <2>2, <2>3
<1>10. CASE GpioRead
  BY <1>10 DEF GpioRead, txVars
<1>11. CASE GpioWrite
  <2>1. int_req' \in BOOLEAN
    BY <1>11 DEF GpioWrite
  <2> QED BY <1>11, <2>1 DEF GpioWrite
<1>12. CASE UNCHANGED vars
  BY <1>12 DEF vars
<1> QED
  BY <1>2, <1>3, <1>4, <1>5, <1>6, <1>7, <1>8, <1>9, <1>10, <1>11, <1>12
     DEF Next, Isr, Queue

(* Types, with the bounds of the receive buffer and of the transmit FIFO.    *)
THEOREM Typing == Spec => []TypeOK
<1>1. Init /\ RxInv => TypeOK
  <2> SUFFICES ASSUME Init, RxInv PROVE TypeOK
    OBVIOUS
  <2>1. tx \in [buf : [Cells -> Cell], len : 0 .. SPI_FRAME_BUF_SIZE,
                response_pending : BOOLEAN]
    BY Sizes DEF Init, EmptyTx, Cell
  <2>2. arg \in [id : Cell, len : 0 .. SPI_FRAME_BUF_SIZE]
    BY Sizes DEF Init, Cell
  <2>3. fifo \in Seq(Cell) /\ Len(fifo) <= TX_FIFO_DEPTH
    BY IsrAssumption DEF Init
  <2>4. budget \in 0 .. MAX_ITERATIONS
    BY IsrAssumption DEF Init
  <2>5. int_req \in BOOLEAN /\ isr \in {"out", "in"} /\ RxTyped
    BY Zenon DEF Init, RxInv
  <2> QED BY <2>1, <2>2, <2>3, <2>4, <2>5 DEF TypeOK
<1> QED BY <1>1, StepTyped, RxAlways, PTL DEF Spec

(* While a handler is between its read and its write of the GPIO register,   *)
(* a low bit it has read means that there is nothing to signal.             *)
GpioStale == mpc = "gpio" /\ idx # 1 => ~tx.response_pending

(* A pending response is signalled on INT_REQ, even when a read-modify-write *)
(* of the same register straddles the interrupt.                            *)
THEOREM ResponseIsSignalled == Spec => []PendingIsSignalled
<1> DEFINE IInv == PendingIsSignalled /\ GpioStale
<1>1. Init => IInv
  BY DEF Init, EmptyTx, PendingIsSignalled, GpioStale
<1>2. TypeOK /\ IInv /\ [Next]_vars => IInv'
  <2> SUFFICES ASSUME TypeOK, IInv, [Next]_vars PROVE IInv'
    OBVIOUS
  <2> USE DEF PendingIsSignalled, GpioStale, Main, txVars
  <2>1. CASE IsrEnter \/ HostClock \/ UNCHANGED vars
    BY <2>1 DEF IsrEnter, HostClock, vars
  <2>2. ASSUME NEW b \in Byte, IsrByte(b) PROVE IInv'
    BY <2>2 DEF IsrByte
  <2>3. CASE IsrExit
    <3>1. CASE tx.response_pending
      <4>1. tx' = [tx EXCEPT !.response_pending = TxLoad < tx.len]
            /\ int_req' = (int_req /\ TxLoad < tx.len) /\ UNCHANGED <<mpc, idx>>
        BY <2>3, <3>1 DEF IsrExit
      <4>2. tx'.response_pending = (TxLoad < tx.len)
        BY <4>1 DEF TypeOK
      <4> HIDE DEF TxLoad
      <4> QED BY <3>1, <4>1, <4>2
    <3>2. CASE ~tx.response_pending
      BY <2>3, <3>2 DEF IsrExit
    <3> QED BY <3>1, <3>2
  <2>4. CASE spi0_rx_get_frame \/ ReleaseBegin
    BY <2>4 DEF spi0_rx_get_frame, ReleaseBegin
  <2>5. CASE ReleaseWipe
    BY <2>5 DEF ReleaseWipe
  <2>6. CASE ReleaseReset
    BY <2>6 DEF ReleaseReset
  <2>7. ASSUME NEW r \in Responses, NEW n \in ResponseLens, QueueBegin(r, n)
        PROVE  IInv'
    BY <2>7 DEF QueueBegin
  <2>8. CASE QueueCopy
    <3>1. tx'.response_pending = tx.response_pending /\ UNCHANGED int_req
          /\ mpc = "q_copy" /\ mpc' # "gpio"
      BY <2>8 DEF QueueCopy, TypeOK
    <3> QED BY <3>1
  <2>9. CASE QueueStores
    <3>1. CASE mpc = "q_len"
      BY <2>9, <3>1 DEF QueueStores, TypeOK
    <3>2. CASE mpc = "q_pending"
      BY <2>9, <3>2 DEF QueueStores, TypeOK
    <3>3. CASE mpc = "q_assert"
      BY <2>9, <3>3 DEF QueueStores, TypeOK
    <3> QED BY <2>9, <3>1, <3>2, <3>3 DEF QueueStores
  <2>10. CASE GpioRead
    BY <2>10 DEF GpioRead
  <2>11. CASE GpioWrite
    BY <2>11 DEF GpioWrite
  <2> QED
    BY <2>1, <2>2, <2>3, <2>4, <2>5, <2>6, <2>7, <2>8, <2>9, <2>10, <2>11
       DEF Next, Isr, Release, Queue
<1>3. IInv => PendingIsSignalled
  OBVIOUS
<1> QED BY <1>1, <1>2, <1>3, Typing, PTL DEF Spec
=============================================================================
