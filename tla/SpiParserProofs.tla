--------------------------- MODULE SpiParserProofs ---------------------------
(***************************************************************************)
(* Proofs about the frame assembler of spi_protocol_process (SpiParser), for *)
(* every size of cell and payload and whatever the two checksums compute:   *)
(* its buffers are never overrun, it dispatches what arrived and nothing    *)
(* else, and it dispatches every well-formed frame.                        *)
(***************************************************************************)
EXTENDS SpiParser, SequenceTheorems, TLAPS

(* What the cells of a frame may hold, whatever the checksums compute.       *)
FrameCell(c, p) ==
  Byte \cup {Len(p), Crc32(p), Crc64(SPI_SYNC_BYTE, c, Len(p), 0)}

(* The cells of an accepted frame with payload p, one by one.                *)
Shape(w, c, p) ==
  /\ Len(w) = 7 + Len(p)
  /\ w[1] = SPI_SYNC_BYTE /\ w[2] = c /\ w[3] = Len(p) /\ w[4] = 0
  /\ w[5] = Crc64(SPI_SYNC_BYTE, c, Len(p), 0)
  /\ \A k \in 1 .. Len(p) : w[5 + k] = p[k]
  /\ Len(p) > 0 => w[6 + Len(p)] = Crc32(p) /\ w[7 + Len(p)] = Crc32(p)

(* An array of n cells is a sequence of length n.                            *)
LEMMA ArrayIsSeq ==
  ASSUME NEW S, NEW n \in Nat, NEW t \in [1 .. n -> S]
  PROVE  t \in Seq(S) /\ Len(t) = n
<1>1. t \in Seq(S)
  OBVIOUS
<1>2. Len(t) \in Nat /\ DOMAIN t = 1 .. Len(t)
  BY <1>1, LenProperties
<1>3. 1 .. n = 1 .. Len(t)
  BY <1>2
<1>4. CASE n < Len(t)
  <2>1. Len(t) \in 1 .. Len(t)
    BY <1>2, <1>4
  <2> QED BY <1>2, <1>3, <1>4, <2>1
<1>5. CASE Len(t) < n
  <2>1. n \in 1 .. n
    BY <1>2, <1>5
  <2> QED BY <1>2, <1>3, <1>5, <2>1
<1> QED BY <1>1, <1>2, <1>4, <1>5

(* The two parts of a concatenation, cell by cell.                           *)
LEMMA ConcatCells ==
  ASSUME NEW S, NEW s \in Seq(S), NEW t \in Seq(S)
  PROVE  /\ s \o t \in Seq(S) /\ Len(s \o t) = Len(s) + Len(t)
         /\ \A k \in 1 .. Len(s) : (s \o t)[k] = s[k]
         /\ \A k \in 1 .. Len(t) : (s \o t)[Len(s) + k] = t[k]
<1>1. /\ s \o t \in Seq(S) /\ Len(s \o t) = Len(s) + Len(t)
      /\ \A i \in 1 .. Len(s) + Len(t) :
           (s \o t)[i] = IF i <= Len(s) THEN s[i] ELSE t[i - Len(s)]
  BY ConcatProperties
<1> DEFINE st == s \o t
<1> HIDE DEF st
<1>2. Len(s) \in Nat /\ Len(t) \in Nat
  OBVIOUS
<1>3. \A i \in 1 .. Len(s) + Len(t) : st[i] = IF i <= Len(s) THEN s[i] ELSE t[i - Len(s)]
  BY <1>1 DEF st
<1>4. \A k \in 1 .. Len(s) : st[k] = s[k]
  BY <1>2, <1>3
<1>5. ASSUME NEW k \in 1 .. Len(t) PROVE st[Len(s) + k] = t[k]
  <2>1. Len(s) + k \in 1 .. Len(s) + Len(t) /\ ~(Len(s) + k <= Len(s))
        /\ (Len(s) + k) - Len(s) = k
    BY <1>2
  <2> QED BY <2>1, <1>3
<1> QED BY <1>1, <1>4, <1>5 DEF st

(* A prefix.                                                                 *)
LEMMA PrefixCells ==
  ASSUME NEW S, NEW s \in Seq(S), NEW n \in Nat, n <= Len(s)
  PROVE  /\ SubSeq(s, 1, n) \in Seq(S) /\ Len(SubSeq(s, 1, n)) = n
         /\ \A k \in 1 .. n : SubSeq(s, 1, n)[k] = s[k]
<1>1. \A i \in 1 .. n : s[i] \in S
  OBVIOUS
<1>2. /\ SubSeq(s, 1, n) \in Seq(S)
      /\ Len(SubSeq(s, 1, n)) = IF 1 <= n THEN n - 1 + 1 ELSE 0
      /\ \A i \in 1 .. n - 1 + 1 : SubSeq(s, 1, n)[i] = s[1 + i - 1]
  BY <1>1, SubSeqProperties
<1> QED BY <1>2

(* What BuildFrame puts where.                                               *)
LEMMA BuildFrameCells ==
  ASSUME NEW c \in Byte, NEW p \in Seq(Byte)
  PROVE  /\ BuildFrame(c, p) \in Seq(FrameCell(c, p))
         /\ Shape(BuildFrame(c, p), c, p)
<1> DEFINE crc == Crc32(p)
           hcrc == Crc64(SPI_SYNC_BYTE, c, Len(p), 0)
           S == FrameCell(c, p)
           h == << SPI_SYNC_BYTE, c, Len(p), 0, hcrc >>
           t == << crc, crc >>
           f == BuildFrame(c, p)
<1>1. 0 \in Byte /\ SPI_SYNC_BYTE \in Byte
  BY FrameAssumption DEF Byte
<1>2. h \in Seq(S) /\ Len(h) = 5 /\ h[1] = SPI_SYNC_BYTE /\ h[2] = c /\ h[3] = Len(p)
      /\ h[4] = 0 /\ h[5] = hcrc
  BY <1>1 DEF FrameCell
<1>3. t \in Seq(S) /\ Len(t) = 2 /\ t[1] = crc /\ t[2] = crc
  BY DEF FrameCell
<1>4. p \in Seq(S) /\ Len(p) \in Nat
  BY DEF FrameCell
<1>5. f = (h \o p) \o t
  BY DEF BuildFrame
<1> HIDE DEF h, t, S, f, crc, hcrc
<1>6. /\ (h \o p) \in Seq(S) /\ Len(h \o p) = 5 + Len(p)
      /\ \A k \in 1 .. 5 : (h \o p)[k] = h[k]
      /\ \A k \in 1 .. Len(p) : (h \o p)[5 + k] = p[k]
  <2>1. h \in Seq(S) /\ p \in Seq(S)
    BY <1>2, <1>4
  <2>2. /\ (h \o p) \in Seq(S) /\ Len(h \o p) = Len(h) + Len(p)
        /\ \A k \in 1 .. Len(h) : (h \o p)[k] = h[k]
        /\ \A k \in 1 .. Len(p) : (h \o p)[Len(h) + k] = p[k]
    BY <2>1, ConcatCells
  <2> QED BY <2>2, <1>2
<1> DEFINE hp == h \o p
<1> HIDE DEF hp
<1>7. /\ hp \in Seq(S) /\ Len(hp) = 5 + Len(p)
      /\ \A k \in 1 .. 5 : hp[k] = h[k]
      /\ \A k \in 1 .. Len(p) : hp[5 + k] = p[k]
  BY <1>6 DEF hp
<1>8. hp \o t \in Seq(S) /\ Len(hp \o t) = 7 + Len(p)
      /\ \A k \in 1 .. 5 + Len(p) : (hp \o t)[k] = hp[k]
      /\ (hp \o t)[6 + Len(p)] = t[1] /\ (hp \o t)[7 + Len(p)] = t[2]
  <2>1. hp \in Seq(S) /\ t \in Seq(S)
    BY <1>3, <1>7
  <2>2. hp \o t \in Seq(S) /\ Len(hp \o t) = Len(hp) + Len(t)
        /\ \A k \in 1 .. Len(hp) : (hp \o t)[k] = hp[k]
    BY <2>1, ConcatCells, Zenon
  <2>3. \A k \in 1 .. Len(t) : (hp \o t)[Len(hp) + k] = t[k]
    BY <2>1, ConcatCells
  <2> DEFINE hpt == hp \o t
  <2> HIDE DEF hpt
  <2>4. \A k \in 1 .. Len(t) : hpt[Len(hp) + k] = t[k]
    BY <2>3 DEF hpt
  <2>5. hpt[Len(hp) + 1] = t[1] /\ hpt[Len(hp) + 2] = t[2]
    BY <2>4, <1>3
  <2>6. Len(hp) + 1 = 6 + Len(p) /\ Len(hp) + 2 = 7 + Len(p)
        /\ Len(hp) + Len(t) = 7 + Len(p)
    BY <1>3, <1>4, <1>7
  <2> QED BY <2>2, <2>5, <2>6, <1>7 DEF hpt
<1>9. f = hp \o t
  BY <1>5 DEF hp
<1>10. f \in Seq(S) /\ Len(f) = 7 + Len(p)
       /\ f[6 + Len(p)] = crc /\ f[7 + Len(p)] = crc
  BY <1>8, <1>9, <1>3
<1>11. f[1] = h[1] /\ f[2] = h[2] /\ f[3] = h[3] /\ f[4] = h[4] /\ f[5] = h[5]
  BY <1>4, <1>7, <1>8, <1>9
<1>12. \A k \in 1 .. Len(p) : f[5 + k] = p[k]
  BY <1>4, <1>7, <1>8, <1>9
<1> QED BY <1>2, <1>10, <1>11, <1>12 DEF Shape, f, S, crc, hcrc

(* Accepted frames are those of the right shape: no cell is free except the  *)
(* two checksum cells of a frame without payload.                           *)
LEMMA AcceptedShape ==
  ASSUME NEW c \in Byte, NEW p \in Seq(Byte), NEW w \in Accepted(c, p)
  PROVE  w \in Seq(FrameCell(c, p))
         /\ Shape(w, c, p)
<1> DEFINE S == FrameCell(c, p)
           f == BuildFrame(c, p)
<1>1. f \in Seq(S) /\ Shape(f, c, p)
  BY BuildFrameCells
<1> HIDE DEF f, S
<1>2. CASE p # << >>
  BY <1>1, <1>2 DEF Accepted, f, S
<1>3. CASE p = << >>
  <2>1. Len(p) = 0
    BY <1>3
  <2>2. PICK t \in [1 .. SPI_CRC32_SIZE -> Byte] : w = SubSeq(f, 1, SPI_HDR_SIZE) \o t
    BY <1>3 DEF Accepted, f
  <2>3. t \in Seq(S) /\ Len(t) = 2
    <3>1. t \in [1 .. 2 -> Byte] /\ Byte \subseteq S
      BY <2>2 DEF SPI_CRC32_SIZE, S, FrameCell
    <3>2. t \in [1 .. 2 -> S]
      BY <3>1
    <3> QED BY <3>2, ArrayIsSeq
  <2>4. Len(f) = 7
    BY <1>1, <2>1 DEF Shape
  <2>5. SubSeq(f, 1, 5) \in Seq(S) /\ Len(SubSeq(f, 1, 5)) = 5
        /\ \A k \in 1 .. 5 : SubSeq(f, 1, 5)[k] = f[k]
    <3>1. 5 \in Nat /\ 5 <= Len(f)
      BY <2>4
    <3> QED BY <1>1, <3>1, PrefixCells, Zenon
  <2>6. w \in Seq(S) /\ Len(w) = 7 /\ \A k \in 1 .. 5 : w[k] = f[k]
    <3> DEFINE h == SubSeq(f, 1, 5)
    <3>1. w = h \o t
      BY <2>2 DEF SPI_HDR_SIZE
    <3> HIDE DEF h
    <3>2. h \in Seq(S) /\ Len(h) = 5
      BY <2>5 DEF h
    <3>3. h \in Seq(S) /\ t \in Seq(S)
      BY <2>3, <3>2
    <3>4. /\ h \o t \in Seq(S) /\ Len(h \o t) = Len(h) + Len(t)
          /\ \A k \in 1 .. Len(h) : (h \o t)[k] = h[k]
      BY <3>3, ConcatCells, Zenon
    <3>5. w \in Seq(S) /\ Len(w) = Len(h) + Len(t) /\ \A k \in 1 .. Len(h) : w[k] = h[k]
      BY <3>1, <3>4, Zenon
    <3> QED BY <2>3, <2>5, <3>2, <3>5 DEF h
  <2> QED BY <1>1, <2>1, <2>6 DEF Shape, S
<1> QED BY <1>2, <1>3

(* And a sequence of that shape is accepted.                                 *)
LEMMA ShapeAccepted ==
  ASSUME NEW c \in Byte, NEW p \in Seq(Byte), NEW w \in Seq(Byte), Shape(w, c, p)
  PROVE  w \in Accepted(c, p)
<1> DEFINE f == BuildFrame(c, p)
           S == FrameCell(c, p)
<1>1. f \in Seq(S) /\ Shape(f, c, p)
  BY BuildFrameCells
<1>2. Len(p) \in Nat
  OBVIOUS
<1> HIDE DEF f, S
<1>3. w[1] = f[1] /\ w[2] = f[2] /\ w[3] = f[3] /\ w[4] = f[4] /\ w[5] = f[5]
      /\ Len(w) = 7 + Len(p) /\ Len(f) = 7 + Len(p)
  BY <1>1 DEF Shape
<1>4. CASE p # << >>
  <2>1. Len(p) > 0
    BY <1>4
  <2>2. ASSUME NEW k \in 1 .. Len(w) PROVE w[k] = f[k]
    <3>1. CASE k <= 5
      BY <1>3, <3>1
    <3>2. CASE k \in 6 .. 5 + Len(p)
      <4>1. k - 5 \in 1 .. Len(p) /\ 5 + (k - 5) = k
        BY <3>2, <1>2
      <4>2. w[5 + (k - 5)] = p[k - 5] /\ f[5 + (k - 5)] = p[k - 5]
        BY <4>1, <1>1 DEF Shape
      <4> QED BY <4>1, <4>2
    <3>3. CASE k = 6 + Len(p) \/ k = 7 + Len(p)
      BY <3>3, <2>1, <1>1 DEF Shape
    <3> QED BY <1>2, <1>3, <3>1, <3>2, <3>3
  <2>3. w = f
    BY <1>1, <1>3, <2>2
  <2> QED BY <1>4, <2>3 DEF Accepted, f
<1>5. CASE p = << >>
  <2> DEFINE t == [k \in 1 .. 2 |-> w[5 + k]]
             h == SubSeq(f, 1, 5)
  <2>1. Len(w) = 7 /\ Len(f) = 7
    BY <1>3, <1>5
  <2>2. t \in [1 .. 2 -> Byte] /\ t \in Seq(Byte) /\ Len(t) = 2
    <3>1. ASSUME NEW k \in 1 .. 2 PROVE w[5 + k] \in Byte
      <4>1. 5 + k \in 1 .. Len(w)
        BY <2>1
      <4> QED BY <4>1
    <3>2. t \in [1 .. 2 -> Byte]
      BY <3>1
    <3> HIDE DEF t
    <3> QED BY <3>2, ArrayIsSeq
  <2>3. h \in Seq(S) /\ Len(h) = 5 /\ \A k \in 1 .. 5 : h[k] = f[k]
    <3>1. 5 \in Nat /\ 5 <= Len(f)
      BY <2>1
    <3> QED BY <1>1, <3>1, PrefixCells, Zenon
  <2>4. h = SubSeq(w, 1, 5)
    <3> HIDE DEF h
    <3>1. SubSeq(w, 1, 5) \in Seq(Byte) /\ Len(SubSeq(w, 1, 5)) = 5
          /\ \A k \in 1 .. 5 : SubSeq(w, 1, 5)[k] = w[k]
      <4>1. 5 \in Nat /\ 5 <= Len(w)
        BY <2>1
      <4> QED BY <4>1, PrefixCells, Zenon
    <3>2. \A k \in 1 .. 5 : w[k] = f[k]
      BY <1>3
    <3> QED BY <2>3, <3>1, <3>2
  <2>5. SubSeq(w, 1, 5) \o t = w
    BY <2>1, <2>2
  <2> QED BY <1>5, <2>2, <2>4, <2>5 DEF Accepted, f, SPI_HDR_SIZE, SPI_CRC32_SIZE
<1> QED BY <1>4, <1>5

(* What there is of an accepted frame before its last cell: it starts with a *)
(* sync byte, and once the header is there it is a valid one whose length    *)
(* field says that cells are missing.                                       *)
LEMMA UnfinishedShape ==
  ASSUME NEW w \in Unfinished
  PROVE  /\ Len(w) \in Nat /\ Len(w) >= 1 /\ w[1] = SPI_SYNC_BYTE
         /\ Len(w) >= 5 =>
              /\ w[3] \in 0 .. SPI_MAX_PAYLOAD /\ w[4] = 0
              /\ w[5] = Crc64(w[1], w[2], w[3], w[4])
              /\ Len(w) < 7 + w[3]
<1>1. PICK f \in AcceptedFrames : w \in {SubSeq(f, 1, k) : k \in 1 .. Len(f) - 1}
  BY DEF Unfinished
<1>2. PICK k \in 1 .. Len(f) - 1 : w = SubSeq(f, 1, k)
  BY <1>1
<1>3. PICK c \in Byte, p \in UNION {[1 .. n -> Byte] : n \in 0 .. SPI_MAX_PAYLOAD} :
        f \in Accepted(c, p)
  BY DEF AcceptedFrames
<1>4. PICK n \in 0 .. SPI_MAX_PAYLOAD : p \in [1 .. n -> Byte]
  BY <1>3
<1>5. n \in Nat /\ n <= SPI_MAX_PAYLOAD
  BY FrameAssumption
<1>6. p \in Seq(Byte) /\ Len(p) = n
  BY <1>4, <1>5, ArrayIsSeq
<1> DEFINE S == FrameCell(c, p)
<1>7. f \in Seq(S) /\ Shape(f, c, p)
  BY <1>3, <1>6, AcceptedShape
<1> HIDE DEF S
<1>8. Len(f) = 7 + n /\ f[1] = SPI_SYNC_BYTE /\ f[2] = c /\ f[3] = n /\ f[4] = 0
      /\ f[5] = Crc64(SPI_SYNC_BYTE, c, n, 0)
  BY <1>6, <1>7 DEF Shape
<1>9. k \in Nat /\ k <= Len(f) /\ k >= 1 /\ k < 7 + n
  BY <1>2, <1>5, <1>8
<1>10. Len(w) = k /\ \A j \in 1 .. k : w[j] = f[j]
  BY <1>2, <1>7, <1>9, PrefixCells, Zenon
<1>11. w[1] = SPI_SYNC_BYTE
  BY <1>8, <1>9, <1>10
<1>12. CASE k >= 5
  <2>1. w[1] = f[1] /\ w[2] = f[2] /\ w[3] = f[3] /\ w[4] = f[4] /\ w[5] = f[5]
    BY <1>9, <1>10, <1>12
  <2> QED BY <2>1, <1>5, <1>8, <1>9, <1>10, <1>11
<1>13. CASE ~(k >= 5)
  BY <1>9, <1>10, <1>11, <1>13
<1> QED BY <1>12, <1>13

(* The payload of a sequence that is long enough for a frame.               *)
LEMMA PayloadCellsOf ==
  ASSUME NEW w \in Seq(Byte), NEW n \in Nat, Len(w) = 7 + n
  PROVE  /\ SubSeq(w, 6, 5 + n) \in Seq(Byte) /\ Len(SubSeq(w, 6, 5 + n)) = n
         /\ \A k \in 1 .. n : SubSeq(w, 6, 5 + n)[k] = w[5 + k]
<1>1. \A i \in 6 .. 5 + n : w[i] \in Byte
  OBVIOUS
<1>2. 6 \in Int /\ 5 + n \in Int
  OBVIOUS
<1> DEFINE m == 5 + n
<1> HIDE DEF m
<1>3. m \in Int /\ \A i \in 6 .. m : w[i] \in Byte
  BY <1>1, <1>2 DEF m
<1>4. /\ SubSeq(w, 6, m) \in Seq(Byte)
      /\ Len(SubSeq(w, 6, m)) = IF 6 <= m THEN m - 6 + 1 ELSE 0
      /\ \A i \in 1 .. m - 6 + 1 : SubSeq(w, 6, m)[i] = w[6 + i - 1]
  BY <1>2, <1>3, SubSeqProperties
<1> DEFINE q == SubSeq(w, 6, m)
<1> HIDE DEF q
<1>5. q \in Seq(Byte) /\ Len(q) = (IF 6 <= m THEN m - 6 + 1 ELSE 0)
      /\ \A i \in 1 .. m - 6 + 1 : q[i] = w[6 + i - 1]
  BY <1>4 DEF q
<1>6. q \in Seq(Byte) /\ Len(q) = n /\ \A k \in 1 .. n : q[k] = w[5 + k]
  BY <1>5 DEF m
<1> QED BY <1>6 DEF q, m

-----------------------------------------------------------------------------
(* What the receiver has stored, compared with what has arrived.            *)
Parser ==
  [state : {"IDLE", "HEADER", "PAYLOAD", "CRC32"}, hdr_buf : [HdrCells -> Byte],
   payload_buf : [PayloadCells -> Byte], crc32_buf : [Crc32Cells -> Byte],
   hdr_idx : Nat, payload_idx : Nat, crc32_idx : Nat, expected_payload_len : Nat]

HeaderIn(ctx, w, n) == \A k \in 1 .. n : w[k] = ctx.hdr_buf[k - 1]
PayloadIn(ctx, w, n) == \A k \in 1 .. n : w[5 + k] = ctx.payload_buf[k - 1]

HeaderDone(ctx, w) ==
  /\ HeaderIn(ctx, w, 5) /\ validate_frame_header(ctx.hdr_buf)
  /\ ctx.expected_payload_len = ctx.hdr_buf[2]
  /\ ctx.expected_payload_len <= SPI_MAX_PAYLOAD

(* Each state of the machine: how far the frame has come, and that every     *)
(* cell of it is in the buffer where it belongs.                            *)
Following(ctx, w) ==
  /\ ctx.state = "HEADER" =>
       /\ ctx.hdr_idx \in 1 .. 4 /\ Len(w) = ctx.hdr_idx
       /\ HeaderIn(ctx, w, ctx.hdr_idx)
  /\ ctx.state = "PAYLOAD" =>
       /\ HeaderDone(ctx, w) /\ ctx.payload_idx < ctx.expected_payload_len
       /\ Len(w) = 5 + ctx.payload_idx /\ PayloadIn(ctx, w, ctx.payload_idx)
  /\ ctx.state = "CRC32" =>
       /\ HeaderDone(ctx, w) /\ ctx.crc32_idx \in 0 .. 1
       /\ Len(w) = 5 + ctx.expected_payload_len + ctx.crc32_idx
       /\ PayloadIn(ctx, w, ctx.expected_payload_len)
       /\ ctx.crc32_idx = 1 => w[6 + ctx.expected_payload_len] = ctx.crc32_buf[0]
  /\ ctx.state = "IDLE" => w \notin Unfinished

Inv == rx_ctx \in Parser /\ wire \in Seq(Byte) /\ Following(rx_ctx, wire)
Reported == DispatchedWasReceived /\ GoodFrameIsDispatched

(* The cells of three buffers.                                              *)
LEMMA Buffers ==
  /\ HdrCells = 0 .. 4 /\ Crc32Cells = 0 .. 1 /\ 0 \in Byte /\ SPI_SYNC_BYTE \in Byte
  /\ \A n \in Nat : n < SPI_MAX_PAYLOAD => n \in PayloadCells
  BY FrameAssumption
     DEF HdrCells, Crc32Cells, PayloadCells, SPI_HDR_SIZE, SPI_CRC32_SIZE, Byte

(* One more cell on the wire.                                               *)
LEMMA OneMore ==
  ASSUME NEW w \in Seq(Byte), NEW b \in Byte
  PROVE  /\ Append(w, b) \in Seq(Byte) /\ Len(Append(w, b)) = Len(w) + 1
         /\ \A k \in 1 .. Len(w) : Append(w, b)[k] = w[k]
         /\ Append(w, b)[Len(w) + 1] = b
  BY AppendProperties

(* A sequence that is not a whole frame asks for no dispatch.               *)
LEMMA NothingDue ==
  ASSUME wire' \in Seq(Byte), dispatched' = << >>,
         Len(wire') < 7 \/ Len(wire') # 7 + wire'[3]
  PROVE  Reported'
<1>1. DispatchedWasReceived'
  BY DEF DispatchedWasReceived
<1>2. GoodFrameIsDispatched'
  <2> DEFINE w == wire'
             n == Len(w) - 7
             q == SubSeq(w, 6, 5 + n)
  <2> SUFFICES ASSUME Len(w) >= 7, n <= SPI_MAX_PAYLOAD, w \in Accepted(w[2], q)
               PROVE  FALSE
    BY DEF GoodFrameIsDispatched, FrameLen, SPI_HDR_SIZE, SPI_CRC32_SIZE
  <2>1. n \in Nat /\ Len(w) = 7 + n /\ w[2] \in Byte
    OBVIOUS
  <2>2. q \in Seq(Byte) /\ Len(q) = n
    BY <2>1, PayloadCellsOf
  <2> HIDE DEF q
  <2>3. Shape(w, w[2], q)
    BY <2>1, <2>2, AcceptedShape
  <2> QED BY <2>1, <2>2, <2>3 DEF Shape
<1> QED BY <1>1, <1>2 DEF Reported

(* IDLE.                                                                    *)
LEMMA IdleStep ==
  ASSUME Inv, NEW b \in Byte, spi_protocol_process(b), rx_ctx.state = "IDLE"
  PROVE  Inv' /\ Reported'
<1> USE DEF Inv
<1>1. rx_ctx' = SeekSync(rx_ctx, b) /\ dispatched' = << >> /\ wire' = <<b>>
  BY DEF spi_protocol_process, Dispatched, Following
<1>2. wire' \in Seq(Byte) /\ Len(wire') = 1 /\ wire'[1] = b
  BY <1>1
<1>3. Reported'
  BY <1>1, <1>2, NothingDue
<1>4. CASE b = SPI_SYNC_BYTE
  <2>1. rx_ctx' = [rx_ctx EXCEPT !.hdr_buf = [rx_ctx.hdr_buf EXCEPT ![0] = b],
                                 !.hdr_idx = 1, !.state = "HEADER"]
    BY <1>1, <1>4 DEF SeekSync
  <2>2. [rx_ctx.hdr_buf EXCEPT ![0] = b] \in [HdrCells -> Byte]
        /\ [rx_ctx.hdr_buf EXCEPT ![0] = b][0] = b
    BY Buffers DEF Parser
  <2>3. rx_ctx' \in Parser
    BY <2>1, <2>2 DEF Parser
  <2>4. rx_ctx'.state = "HEADER" /\ rx_ctx'.hdr_idx = 1 /\ rx_ctx'.hdr_buf[0] = b
    BY <2>1, <2>2 DEF Parser
  <2>5. Following(rx_ctx, wire)'
    BY <1>2, <2>4 DEF Following, HeaderIn
  <2> QED BY <1>2, <1>3, <2>3, <2>5
<1>5. CASE b # SPI_SYNC_BYTE
  <2>1. rx_ctx' = rx_ctx
    BY <1>1, <1>5 DEF SeekSync
  <2>2. wire' \notin Unfinished
    BY <1>2, <1>5, UnfinishedShape
  <2> QED BY <1>2, <1>3, <2>1, <2>2 DEF Following
<1> QED BY <1>4, <1>5

(* HEADER: a header is given up only if no accepted frame begins with it.    *)
LEMMA HeaderStep ==
  ASSUME Inv, NEW b \in Byte, spi_protocol_process(b), rx_ctx.state = "HEADER"
  PROVE  Inv' /\ Reported'
<1> DEFINE i == rx_ctx.hdr_idx
           hdr == [rx_ctx.hdr_buf EXCEPT ![i] = b]
           next == [rx_ctx EXCEPT !.hdr_buf = hdr, !.hdr_idx = i + 1]
<1>1. rx_ctx \in Parser /\ wire \in Seq(Byte) /\ i \in 1 .. 4 /\ Len(wire) = i
      /\ \A k \in 1 .. i : wire[k] = rx_ctx.hdr_buf[k - 1]
  BY DEF Inv, Following, HeaderIn
<1>2. rx_ctx' = AddHeader(rx_ctx, b) /\ dispatched' = << >> /\ wire' = Append(wire, b)
  BY DEF spi_protocol_process, Dispatched
<1>3. wire' \in Seq(Byte) /\ Len(wire') = i + 1 /\ wire'[i + 1] = b
      /\ \A k \in 1 .. i : wire'[k] = wire[k]
  BY <1>1, <1>2, OneMore
<1>4. Reported'
  BY <1>1, <1>2, <1>3, NothingDue
<1>5. hdr \in [HdrCells -> Byte]
  BY <1>1, Buffers DEF Parser
<1>6. ASSUME NEW k \in 1 .. i + 1 PROVE wire'[k] = hdr[k - 1]
  <2>1. i \in HdrCells /\ k - 1 \in HdrCells
    BY <1>1, Buffers
  <2>2. CASE k = i + 1
    BY <1>1, <1>3, <2>1, <2>2 DEF Parser
  <2>3. CASE k # i + 1
    <3>1. k \in 1 .. i /\ k - 1 # i
      BY <1>1, <2>3
    <3> QED BY <1>1, <1>3, <2>1, <3>1 DEF Parser
  <2> QED BY <2>2, <2>3
<1>7. next \in Parser /\ next.state = "HEADER" /\ next.hdr_buf = hdr /\ next.hdr_idx = i + 1
  <2>1. i + 1 \in Nat /\ rx_ctx \in Parser
    BY <1>1
  <2> HIDE DEF hdr, i
  <2> QED BY <2>1, <1>5 DEF Parser
<1>8. rx_ctx' = IF i + 1 >= 5 THEN AfterHeader(next) ELSE next
  <2>1. next = [rx_ctx EXCEPT !.hdr_buf[rx_ctx.hdr_idx] = b, !.hdr_idx = @ + 1]
    BY <1>1 DEF Parser
  <2> HIDE DEF next
  <2> QED BY <1>2, <1>7, <2>1 DEF AddHeader, SPI_HDR_SIZE
<1> HIDE DEF next, hdr
<1>9. CASE i < 4
  <2>1. rx_ctx' = next
    BY <1>1, <1>8, <1>9
  <2>2. Following(next, wire')
    BY <1>1, <1>3, <1>6, <1>7, <1>9 DEF Following, HeaderIn
  <2> QED BY <1>3, <1>4, <1>7, <2>1, <2>2 DEF Inv
<1>10. CASE i = 4
  <2> DEFINE len == hdr[2]
             sized == [next EXCEPT !.expected_payload_len = len]
  <2>1. rx_ctx' = AfterHeader(next)
    BY <1>8, <1>10
  <2>2. len \in Nat /\ \A k \in 1 .. 5 : wire'[k] = hdr[k - 1]
    BY <1>5, <1>6, <1>10, Buffers DEF Byte
  <2>3. wire'[1] = hdr[0] /\ wire'[2] = hdr[1] /\ wire'[3] = hdr[2] /\ wire'[4] = hdr[3]
        /\ wire'[5] = hdr[4] /\ Len(wire') = 5
    BY <2>2, <1>3, <1>10
  <2>4. CASE ~validate_frame_header(hdr) \/ len > SPI_MAX_PAYLOAD
    <3>1. wire' \notin Unfinished
      <4> SUFFICES ASSUME wire' \in Unfinished PROVE FALSE
        OBVIOUS
      <4>1. wire'[1] = SPI_SYNC_BYTE /\ wire'[3] \in 0 .. SPI_MAX_PAYLOAD /\ wire'[4] = 0
            /\ wire'[5] = Crc64(wire'[1], wire'[2], wire'[3], wire'[4])
        <5>1. Len(wire') >= 5
          BY <2>3
        <5> QED BY <5>1, UnfinishedShape, Zenon
      <4>2. validate_frame_header(hdr)
        BY <2>3, <4>1 DEF validate_frame_header, validate_header_crc64
      <4>3. ~(len > SPI_MAX_PAYLOAD)
        BY <2>2, <2>3, <4>1, FrameAssumption
      <4> QED BY <2>4, <4>2, <4>3
    <3>2. rx_ctx' \in Parser /\ rx_ctx'.state = "IDLE"
      <4>1. CASE ~validate_frame_header(hdr)
        <5>1. rx_ctx' = [next EXCEPT !.state = "IDLE"]
          BY <2>1, <1>7, <4>1 DEF AfterHeader
        <5> QED BY <5>1, <1>7 DEF Parser
      <4>2. CASE validate_frame_header(hdr) /\ len > SPI_MAX_PAYLOAD
        <5>1. len # 0 /\ ~(len \in 1 .. SPI_MAX_PAYLOAD)
          BY <4>2, <2>2, FrameAssumption
        <5>2. rx_ctx' = [sized EXCEPT !.state = "IDLE"]
          BY <2>1, <1>7, <4>2, <5>1 DEF AfterHeader, extract_payload_length
        <5> QED BY <5>2, <1>7, <2>2 DEF Parser
      <4> QED BY <2>4, <4>1, <4>2
    <3> QED BY <1>3, <1>4, <3>1, <3>2 DEF Inv, Following
  <2>5. CASE validate_frame_header(hdr) /\ len \in 1 .. SPI_MAX_PAYLOAD
    <3>0. len # 0 /\ ~(len > SPI_MAX_PAYLOAD)
      BY <2>5, <2>2, FrameAssumption
    <3>1. rx_ctx' = [sized EXCEPT !.payload_idx = 0, !.state = "PAYLOAD"]
      BY <2>1, <1>7, <2>5, <3>0 DEF AfterHeader, extract_payload_length
    <3>2. rx_ctx' \in Parser /\ rx_ctx'.state = "PAYLOAD" /\ rx_ctx'.payload_idx = 0
          /\ rx_ctx'.expected_payload_len = len /\ rx_ctx'.hdr_buf = hdr
      BY <3>1, <1>7, <2>2 DEF Parser
    <3>3. Following(rx_ctx, wire)'
      BY <2>2, <2>3, <2>5, <3>2, FrameAssumption
         DEF Following, HeaderDone, HeaderIn, PayloadIn
    <3> QED BY <1>3, <1>4, <3>2, <3>3 DEF Inv
  <2>6. CASE validate_frame_header(hdr) /\ len = 0
    <3>0. ~(len > SPI_MAX_PAYLOAD) /\ ~(len \in 1 .. SPI_MAX_PAYLOAD)
      BY <2>6, FrameAssumption
    <3>1. rx_ctx' = [sized EXCEPT !.crc32_idx = 0, !.state = "CRC32"]
      BY <2>1, <1>7, <2>6, <3>0 DEF AfterHeader, extract_payload_length
    <3>2. rx_ctx' \in Parser /\ rx_ctx'.state = "CRC32" /\ rx_ctx'.crc32_idx = 0
          /\ rx_ctx'.expected_payload_len = len /\ rx_ctx'.hdr_buf = hdr
      BY <3>1, <1>7, <2>2 DEF Parser
    <3>3. Following(rx_ctx, wire)'
      BY <2>2, <2>3, <2>6, <3>2, FrameAssumption
         DEF Following, HeaderDone, HeaderIn, PayloadIn
    <3> QED BY <1>3, <1>4, <3>2, <3>3 DEF Inv
  <2> QED BY <2>2, <2>4, <2>5, <2>6, FrameAssumption
<1> QED BY <1>1, <1>9, <1>10

(* PAYLOAD.                                                                 *)
LEMMA PayloadStep ==
  ASSUME Inv, NEW b \in Byte, spi_protocol_process(b), rx_ctx.state = "PAYLOAD"
  PROVE  Inv' /\ Reported'
<1> DEFINE i == rx_ctx.payload_idx
           len == rx_ctx.expected_payload_len
           buf == [rx_ctx.payload_buf EXCEPT ![i] = b]
           next == [rx_ctx EXCEPT !.payload_buf = buf, !.payload_idx = i + 1]
<1>1. rx_ctx \in Parser /\ wire \in Seq(Byte) /\ HeaderDone(rx_ctx, wire) /\ i < len
      /\ len <= SPI_MAX_PAYLOAD /\ Len(wire) = 5 + i /\ i \in Nat /\ len \in Nat
      /\ \A k \in 1 .. i : wire[5 + k] = rx_ctx.payload_buf[k - 1]
  BY DEF Inv, Following, PayloadIn, HeaderDone, Parser
<1>2. rx_ctx' = AddPayload(rx_ctx, b) /\ dispatched' = << >> /\ wire' = Append(wire, b)
  BY DEF spi_protocol_process, Dispatched
<1>3. wire' \in Seq(Byte) /\ Len(wire') = 6 + i /\ wire'[6 + i] = b
      /\ \A k \in 1 .. 5 + i : wire'[k] = wire[k]
  BY <1>1, <1>2, OneMore
<1>4. wire'[3] = len /\ \A k \in 1 .. 5 : wire'[k] = rx_ctx.hdr_buf[k - 1]
  <2>1. \A k \in 1 .. 5 : k \in 1 .. 5 + i
    BY <1>1
  <2>2. \A k \in 1 .. 5 : wire'[k] = wire[k]
    BY <1>3, <2>1
  <2>3. \A k \in 1 .. 5 : wire[k] = rx_ctx.hdr_buf[k - 1]
    BY <1>1 DEF HeaderDone, HeaderIn
  <2>4. len = rx_ctx.hdr_buf[2]
    BY <1>1 DEF HeaderDone
  <2> QED BY <2>2, <2>3, <2>4
<1>5. Reported'
  BY <1>1, <1>2, <1>3, <1>4, NothingDue
<1>6. i \in PayloadCells /\ buf \in [PayloadCells -> Byte]
  BY <1>1, Buffers, FrameAssumption DEF Parser
<1>7. ASSUME NEW k \in 1 .. i + 1 PROVE wire'[5 + k] = buf[k - 1]
  <2>1. k - 1 \in PayloadCells
    BY <1>1, FrameAssumption DEF PayloadCells
  <2>2. CASE k = i + 1
    <3>1. 5 + k = 6 + i /\ k - 1 = i
      BY <1>1, <2>2
    <3>2. buf[i] = b
      BY <1>1, <1>6 DEF Parser
    <3>3. wire'[6 + i] = b
      BY <1>3
    <3> QED BY <3>1, <3>2, <3>3
  <2>3. CASE k # i + 1
    <3>1. k \in 1 .. i /\ k - 1 # i /\ 5 + k \in 1 .. 5 + i
      BY <1>1, <2>3
    <3> QED BY <1>1, <1>3, <2>1, <3>1 DEF Parser
  <2> QED BY <2>2, <2>3
<1>8. next \in Parser /\ next.state = "PAYLOAD" /\ next.payload_buf = buf
      /\ next.payload_idx = i + 1 /\ next.expected_payload_len = len
      /\ next.hdr_buf = rx_ctx.hdr_buf
  <2>1. i + 1 \in Nat /\ rx_ctx \in Parser
    BY <1>1
  <2> HIDE DEF buf, i
  <2> QED BY <2>1, <1>6 DEF Parser
<1>9. rx_ctx' = IF i + 1 >= len THEN [next EXCEPT !.crc32_idx = 0, !.state = "CRC32"]
                ELSE next
  <2>1. next = [rx_ctx EXCEPT !.payload_buf[rx_ctx.payload_idx] = b, !.payload_idx = @ + 1]
    BY <1>1 DEF Parser
  <2> HIDE DEF next
  <2> QED BY <1>2, <1>8, <2>1 DEF AddPayload
<1> HIDE DEF next, buf
<1>10. CASE i + 1 < len
  <2>1. rx_ctx' = next
    BY <1>1, <1>9, <1>10
  <2>2. Following(next, wire')
    BY <1>1, <1>3, <1>4, <1>7, <1>8, <1>10 DEF Following, HeaderDone, HeaderIn, PayloadIn
  <2> QED BY <1>3, <1>5, <1>8, <2>1, <2>2 DEF Inv
<1>11. CASE i + 1 = len
  <2>1. rx_ctx' = [next EXCEPT !.crc32_idx = 0, !.state = "CRC32"]
    BY <1>1, <1>9, <1>11
  <2>2. rx_ctx' \in Parser /\ rx_ctx'.state = "CRC32" /\ rx_ctx'.payload_buf = buf
        /\ rx_ctx'.crc32_idx = 0 /\ rx_ctx'.expected_payload_len = len
        /\ rx_ctx'.hdr_buf = rx_ctx.hdr_buf
    BY <1>8, <2>1 DEF Parser
  <2>3. Following(rx_ctx, wire)'
    BY <1>1, <1>3, <1>4, <1>7, <1>11, <2>2, SMTT(60)
       DEF Following, HeaderDone, HeaderIn, PayloadIn
  <2> QED BY <1>3, <1>5, <2>2, <2>3 DEF Inv
<1> QED BY <1>1, <1>10, <1>11

(* CRC32, with a cell still to come.                                        *)
LEMMA Crc32First ==
  ASSUME Inv, NEW b \in Byte, spi_protocol_process(b), rx_ctx.state = "CRC32",
         rx_ctx.crc32_idx = 0
  PROVE  Inv' /\ Reported'
<1> DEFINE len == rx_ctx.expected_payload_len
           crc == [rx_ctx.crc32_buf EXCEPT ![0] = b]
           next == [rx_ctx EXCEPT !.crc32_buf = crc, !.crc32_idx = 1]
<1>1. rx_ctx \in Parser /\ wire \in Seq(Byte) /\ HeaderDone(rx_ctx, wire)
      /\ Len(wire) = 5 + len /\ len \in Nat /\ PayloadIn(rx_ctx, wire, len)
  BY DEF Inv, Following, Parser
<1>2. rx_ctx' = AddCrc32(rx_ctx, b) /\ dispatched' = << >> /\ wire' = Append(wire, b)
  BY DEF spi_protocol_process, Dispatched, SPI_CRC32_SIZE
<1>3. wire' \in Seq(Byte) /\ Len(wire') = 6 + len /\ wire'[6 + len] = b
      /\ \A k \in 1 .. 5 + len : wire'[k] = wire[k]
  BY <1>1, <1>2, OneMore
<1>4. wire'[3] = len /\ \A k \in 1 .. 5 : wire'[k] = rx_ctx.hdr_buf[k - 1]
  <2>1. \A k \in 1 .. 5 : wire'[k] = wire[k]
    <3>1. \A k \in 1 .. 5 : k \in 1 .. 5 + len
      BY <1>1
    <3> QED BY <1>3, <3>1
  <2>2. \A k \in 1 .. 5 : wire[k] = rx_ctx.hdr_buf[k - 1]
    BY <1>1 DEF HeaderDone, HeaderIn
  <2>3. len = rx_ctx.hdr_buf[2]
    BY <1>1 DEF HeaderDone
  <2>4. wire'[3] = rx_ctx.hdr_buf[2]
    BY <2>1, <2>2
  <2> QED BY <2>1, <2>2, <2>3, <2>4
<1>5. Reported'
  BY <1>1, <1>2, <1>3, <1>4, NothingDue
<1>6. crc \in [Crc32Cells -> Byte] /\ crc[0] = b
  BY <1>1, Buffers DEF Parser
<1>7. next \in Parser /\ next.state = "CRC32" /\ next.payload_buf = rx_ctx.payload_buf
      /\ next.crc32_idx = 1 /\ next.expected_payload_len = len
      /\ next.hdr_buf = rx_ctx.hdr_buf /\ next.crc32_buf = crc
  <2> HIDE DEF crc
  <2> QED BY <1>1, <1>6 DEF Parser
<1>8. rx_ctx' = next
  <2>1. next = [rx_ctx EXCEPT !.crc32_buf[rx_ctx.crc32_idx] = b, !.crc32_idx = @ + 1]
    BY <1>1 DEF Parser
  <2> HIDE DEF next
  <2> QED BY <1>2, <1>7, <2>1 DEF AddCrc32, SPI_CRC32_SIZE
<1> HIDE DEF next, crc
<1>9. ASSUME NEW k \in 1 .. len PROVE wire'[5 + k] = rx_ctx.payload_buf[k - 1]
  BY <1>1, <1>3 DEF PayloadIn
<1>10. HeaderDone(next, wire')
  BY <1>1, <1>4, <1>7 DEF HeaderDone, HeaderIn
<1>11. Following(next, wire')
  BY <1>1, <1>3, <1>6, <1>7, <1>9, <1>10 DEF Following, PayloadIn
<1> QED BY <1>3, <1>5, <1>7, <1>8, <1>11 DEF Inv

(* CRC32, the last cell: the frame is dispatched exactly if it has the shape *)
(* of an accepted frame.                                                    *)
LEMMA Crc32Last ==
  ASSUME Inv, NEW b \in Byte, spi_protocol_process(b), rx_ctx.state = "CRC32",
         rx_ctx.crc32_idx = 1
  PROVE  Inv' /\ Reported'
<1> DEFINE len == rx_ctx.expected_payload_len
           crc == [rx_ctx.crc32_buf EXCEPT ![1] = b]
           next == [rx_ctx EXCEPT !.crc32_buf = crc, !.crc32_idx = 2]
           seen == [rx_ctx EXCEPT !.crc32_buf = crc]
           c == rx_ctx.hdr_buf[1]
           p == Payload(rx_ctx)
           w == wire'
           valid == len > 0 => rx_ctx.crc32_buf[0] = Crc32(p) /\ b = Crc32(p)
<1>1. rx_ctx \in Parser /\ wire \in Seq(Byte) /\ HeaderDone(rx_ctx, wire)
      /\ Len(wire) = 6 + len /\ len \in Nat /\ PayloadIn(rx_ctx, wire, len)
      /\ wire[6 + len] = rx_ctx.crc32_buf[0] /\ len <= SPI_MAX_PAYLOAD
  BY DEF Inv, Following, Parser, HeaderDone
<1>2. rx_ctx' = AddCrc32(rx_ctx, b) /\ dispatched' = Dispatched(rx_ctx, b)
      /\ wire' = Append(wire, b)
  BY DEF spi_protocol_process
<1>3. w \in Seq(Byte) /\ Len(w) = 7 + len /\ w[7 + len] = b
      /\ \A k \in 1 .. 6 + len : w[k] = wire[k]
  BY <1>1, <1>2, OneMore
<1>4. \A k \in 1 .. 5 : w[k] = rx_ctx.hdr_buf[k - 1]
  <2>1. \A k \in 1 .. 5 : w[k] = wire[k]
    BY <1>1, <1>3
  <2>2. \A k \in 1 .. 5 : wire[k] = rx_ctx.hdr_buf[k - 1]
    BY <1>1 DEF HeaderDone, HeaderIn
  <2> QED BY <2>1, <2>2
<1>5. w[1] = SPI_SYNC_BYTE /\ w[2] = c /\ w[3] = len /\ w[4] = 0
      /\ w[5] = Crc64(SPI_SYNC_BYTE, c, len, 0) /\ c \in Byte
  <2>1. w[1] = rx_ctx.hdr_buf[0] /\ w[2] = rx_ctx.hdr_buf[1] /\ w[3] = rx_ctx.hdr_buf[2]
        /\ w[4] = rx_ctx.hdr_buf[3] /\ w[5] = rx_ctx.hdr_buf[4]
    BY <1>4
  <2>2. c \in Byte
    BY <1>1, Buffers DEF Parser
  <2> QED BY <1>1, <2>1, <2>2
          DEF HeaderDone, validate_frame_header, validate_header_crc64
<1>6. ASSUME NEW k \in 1 .. len PROVE rx_ctx.payload_buf[k - 1] \in Byte
  <2>1. k - 1 \in PayloadCells
    BY <1>1, FrameAssumption DEF PayloadCells
  <2> QED BY <1>1, <2>1 DEF Parser
<1>7. p \in Seq(Byte) /\ Len(p) = len /\ \A k \in 1 .. len : p[k] = rx_ctx.payload_buf[k - 1]
  <2>1. p \in [1 .. len -> Byte]
    BY <1>6 DEF Payload
  <2>2. \A k \in 1 .. len : p[k] = rx_ctx.payload_buf[k - 1]
    BY DEF Payload
  <2>3. len \in Nat
    BY <1>1
  <2> HIDE DEF p, len
  <2> QED BY <2>1, <2>2, <2>3, ArrayIsSeq
<1>8. ASSUME NEW k \in 1 .. len PROVE w[5 + k] = p[k]
  <2>1. p[k] = rx_ctx.payload_buf[k - 1]
    BY <1>7, <1>8
  <2>2. w[5 + k] = rx_ctx.payload_buf[k - 1]
    BY <1>1, <1>3, <1>8 DEF PayloadIn
  <2> QED BY <2>1, <2>2
<1>9. w[6 + len] = rx_ctx.crc32_buf[0]
  BY <1>1, <1>3
<1>10. crc \in [Crc32Cells -> Byte] /\ crc[0] = rx_ctx.crc32_buf[0] /\ crc[1] = b
  BY <1>1, Buffers DEF Parser
<1>11. /\ next \in Parser /\ next.payload_buf = rx_ctx.payload_buf /\ next.crc32_buf = crc
       /\ next.expected_payload_len = len /\ next.crc32_idx = 2
       /\ seen \in Parser /\ seen.payload_buf = rx_ctx.payload_buf /\ seen.crc32_buf = crc
       /\ seen.expected_payload_len = len
  <2> HIDE DEF crc
  <2> QED BY <1>1, <1>10 DEF Parser
<1> HIDE DEF p, c, w, crc
<1>12. Payload(next) = p /\ Payload(seen) = p
  <2> HIDE DEF next, seen
  <2> QED BY <1>11 DEF Payload, p
<1>13. (validate_frame_payload(next) <=> valid) /\ (validate_frame_payload(seen) <=> valid)
  <2> HIDE DEF next, seen
  <2>1. \A x \in {0, 1} : x \in Crc32Cells
    BY Buffers
  <2>2. \A x \in Crc32Cells : x = 0 \/ x = 1
    BY Buffers
  <2> QED BY <1>10, <1>11, <1>12, <2>1, <2>2 DEF validate_frame_payload
<1>14. valid <=> Shape(w, c, p)
  BY <1>1, <1>3, <1>5, <1>7, <1>8, <1>9 DEF Shape
<1>15. dispatched' = IF valid THEN << <<c, p>> >> ELSE << >>
  <2>1. seen = [rx_ctx EXCEPT !.crc32_buf[rx_ctx.crc32_idx] = b]
    BY <1>1 DEF Parser, crc
  <2> HIDE DEF seen, valid
  <2> QED BY <1>2, <1>13, <2>1 DEF Dispatched, SPI_CRC32_SIZE, c, p
<1>16. rx_ctx' \in Parser /\ rx_ctx'.state = "IDLE"
  <2>1. next = [rx_ctx EXCEPT !.crc32_buf[rx_ctx.crc32_idx] = b, !.crc32_idx = @ + 1]
    BY <1>1 DEF Parser, crc
  <2> HIDE DEF next
  <2>2. rx_ctx' = [IF validate_frame_payload(next) THEN Wipe(next) ELSE next
                   EXCEPT !.state = "IDLE"]
    BY <1>2, <1>11, <2>1 DEF AddCrc32, SPI_CRC32_SIZE
  <2>3. Wipe(next) \in Parser
    <3> DEFINE wiped == [x \in PayloadCells |->
                           IF x < next.expected_payload_len THEN 0 ELSE next.payload_buf[x]]
    <3>1. Wipe(next) = [next EXCEPT !.payload_buf = wiped]
      BY <1>11 DEF Wipe, Parser
    <3>2. wiped \in [PayloadCells -> Byte]
      BY <1>11, Buffers DEF Parser
    <3> HIDE DEF wiped
    <3> QED BY <1>11, <3>1, <3>2 DEF Parser
  <2>4. CASE validate_frame_payload(next)
    BY <2>2, <2>3, <2>4 DEF Parser
  <2>5. CASE ~validate_frame_payload(next)
    BY <2>2, <1>11, <2>5 DEF Parser
  <2> QED BY <2>4, <2>5
<1>17. w \notin Unfinished
  <2> SUFFICES ASSUME w \in Unfinished PROVE FALSE
    OBVIOUS
  <2>1. Len(w) >= 5
    BY <1>1, <1>3
  <2>2. Len(w) < 7 + w[3]
    BY <2>1, UnfinishedShape, Zenon
  <2> QED BY <1>1, <1>3, <1>5, <2>2
<1>18. Inv'
  BY <1>3, <1>16, <1>17 DEF Inv, Following, w
<1>19. DispatchedWasReceived'
  <2>1. CASE valid
    <3>1. w \in Accepted(c, p)
      BY <1>3, <1>5, <1>7, <1>14, <2>1, ShapeAccepted
    <3>2. dispatched' = << <<c, p>> >>
      BY <1>15, <2>1
    <3> QED BY <3>1, <3>2 DEF DispatchedWasReceived, w
  <2>2. CASE ~valid
    <3>1. dispatched' = << >>
      BY <1>15, <2>2
    <3> QED BY <3>1 DEF DispatchedWasReceived
  <2> QED BY <2>1, <2>2
<1>20. GoodFrameIsDispatched'
  <2> DEFINE n == Len(w) - 7
             q == SubSeq(w, 6, 5 + n)
  <2> SUFFICES ASSUME Len(w) >= 7, n <= SPI_MAX_PAYLOAD, w \in Accepted(w[2], q)
               PROVE  dispatched' = << <<w[2], q>> >>
    BY DEF GoodFrameIsDispatched, FrameLen, SPI_HDR_SIZE, SPI_CRC32_SIZE, w
  <2>1. n = len
    BY <1>1, <1>3
  <2>2. q \in Seq(Byte) /\ Len(q) = len /\ \A k \in 1 .. len : q[k] = w[5 + k]
    <3>1. len \in Nat /\ Len(w) = 7 + len /\ w \in Seq(Byte)
      BY <1>1, <1>3
    <3>2. q = SubSeq(w, 6, 5 + len)
      BY <2>1
    <3> HIDE DEF q, n, len
    <3> QED BY <3>1, <3>2, PayloadCellsOf
  <2> HIDE DEF q
  <2>3. q = p
    BY <1>7, <1>8, <2>2, SeqEqual
  <2>4. Shape(w, c, p)
    BY <1>5, <1>7, <2>3, AcceptedShape
  <2> QED BY <1>5, <1>14, <1>15, <2>3, <2>4
<1> QED BY <1>18, <1>19, <1>20 DEF Reported

(* Every cell keeps the buffers in step with the wire, and what it makes the *)
(* receiver dispatch is right.                                              *)
LEMMA ByteStep ==
  ASSUME Inv, Next
  PROVE  Inv' /\ Reported'
<1>1. PICK b \in Byte : spi_protocol_process(b)
  BY DEF Next
<1>2. rx_ctx.state \in {"IDLE", "HEADER", "PAYLOAD", "CRC32"}
  BY DEF Inv, Parser
<1>3. CASE rx_ctx.state = "CRC32"
  <2>1. rx_ctx.crc32_idx = 0 \/ rx_ctx.crc32_idx = 1
    BY <1>3 DEF Inv, Following
  <2> QED BY <1>1, <1>3, <2>1, Crc32First, Crc32Last
<1> QED BY <1>1, <1>2, <1>3, IdleStep, HeaderStep, PayloadStep

(* The invariant holds from spi_protocol_init on.                           *)
LEMMA Always == Spec => [](Inv /\ Reported)
<1>1. Init => Inv /\ Reported
  <2> SUFFICES ASSUME Init PROVE Inv /\ Reported
    OBVIOUS
  <2>1. wire = << >> /\ dispatched = << >> /\ rx_ctx = ResetCtx
    BY DEF Init
  <2>2. wire \in Seq(Byte) /\ Len(wire) = 0
    BY <2>1
  <2>3. wire \notin Unfinished
    BY <2>2, UnfinishedShape
  <2>4. rx_ctx \in Parser /\ rx_ctx.state = "IDLE"
    BY <2>1, Buffers DEF ResetCtx, Parser
  <2>5. Following(rx_ctx, wire)
    BY <2>3, <2>4 DEF Following
  <2>6. DispatchedWasReceived
    BY <2>1 DEF DispatchedWasReceived
  <2>7. GoodFrameIsDispatched
    BY <2>2 DEF GoodFrameIsDispatched, FrameLen, SPI_HDR_SIZE, SPI_CRC32_SIZE
  <2> QED BY <2>2, <2>4, <2>5, <2>6, <2>7 DEF Inv, Reported
<1>2. Inv /\ Reported /\ [Next]_vars => Inv' /\ Reported'
  <2> SUFFICES ASSUME Inv, Reported, [Next]_vars PROVE Inv' /\ Reported'
    OBVIOUS
  <2>1. CASE Next
    BY <2>1, ByteStep
  <2>2. CASE UNCHANGED vars
    <3>1. UNCHANGED <<rx_ctx, dispatched, wire>>
      BY <2>2 DEF vars
    <3> QED BY <3>1 DEF Inv, Reported, DispatchedWasReceived, GoodFrameIsDispatched
  <2> QED BY <2>1, <2>2
<1> QED BY <1>1, <1>2, PTL DEF Spec

(* No cell is stored outside its buffer.                                    *)
THEOREM BuffersHaveRoom == Spec => []RoomForNextByte
<1>1. Inv => RoomForNextByte
  <2> SUFFICES ASSUME Inv PROVE RoomForNextByte
    OBVIOUS
  <2>1. rx_ctx.state \in {"IDLE", "HEADER", "PAYLOAD", "CRC32"}
    BY DEF Inv, Parser
  <2>2. CASE rx_ctx.state = "HEADER"
    BY <2>2 DEF Inv, Following, RoomForNextByte, SPI_HDR_SIZE
  <2>3. CASE rx_ctx.state = "PAYLOAD"
    BY <2>3 DEF Inv, Following, HeaderDone, RoomForNextByte
  <2>4. CASE rx_ctx.state = "CRC32"
    BY <2>4 DEF Inv, Following, RoomForNextByte, SPI_CRC32_SIZE
  <2>5. CASE rx_ctx.state = "IDLE"
    BY <2>5 DEF RoomForNextByte
  <2> QED BY <2>1, <2>2, <2>3, <2>4, <2>5
<1> QED BY <1>1, Always, PTL

(* A handler is given, cell for cell, a frame that has just arrived.         *)
THEOREM NothingMadeUp == Spec => []DispatchedWasReceived
<1>1. Reported => DispatchedWasReceived
  BY DEF Reported
<1> QED BY <1>1, Always, PTL

(* A well-formed frame whose first cell finds the receiver idle is           *)
(* dispatched with its last cell.                                           *)
THEOREM NothingLost == Spec => []GoodFrameIsDispatched
<1>1. Reported => GoodFrameIsDispatched
  BY DEF Reported
<1> QED BY <1>1, Always, PTL
=============================================================================
