---------------------------- MODULE SdrDmaProofs -----------------------------
(***************************************************************************)
(* Proofs about the IQ capture ring (SdrDma): its types, that the block    *)
(* count is exact and that captures are delivered whole and in order, for  *)
(* every ring size and however often the interrupt preempts the consumer.  *)
(*                                                                         *)
(* The two pointers only ever meet through differences modulo the ring     *)
(* size.  Lead(a, b) is that difference; the lemmas below turn it and Succ *)
(* into a case split without modulo, which is what the steps use.          *)
(***************************************************************************)
EXTENDS SdrDma, TLAPS

N == SDR_RING_NUM_BLOCKS

Lead(a, b) == (a - b) % N

(* The ring, and that the count has room for one more than the ring holds.    *)
LEMMA RingSize == N \in Nat /\ N > 1 /\ COUNT_WRAP \in Nat /\ COUNT_WRAP > N
  BY DmaAssumption DEF N

(* Blocks are numbers below the ring size.                                   *)
LEMMA BlocksRange == \A b \in Blocks : b \in Nat /\ b < N
  BY DmaAssumption DEF Blocks, N

(* Succ wraps at the last block and nowhere else.                           *)
LEMMA SuccCases ==
  ASSUME NEW b \in Blocks
  PROVE  /\ Succ(b) \in Blocks
         /\ Succ(b) = IF b = N - 1 THEN 0 ELSE b + 1
  BY DmaAssumption DEF Succ, Blocks, N

(* The lead of a over b around the ring, without modulo.                    *)
LEMMA LeadCases ==
  ASSUME NEW a \in Blocks, NEW b \in Blocks
  PROVE  /\ Lead(a, b) \in Blocks
         /\ Lead(a, b) = IF a >= b THEN a - b ELSE a - b + N
  BY DmaAssumption DEF Lead, Blocks, N

(* The writer moves one block ahead, unless that meets the reader.           *)
LEMMA WriterMoves ==
  ASSUME NEW a \in Blocks, NEW b \in Blocks, Succ(a) # b
  PROVE  Lead(Succ(a), b) = Lead(a, b) + 1
<1>1. Succ(a) \in Blocks /\ Succ(a) = IF a = N - 1 THEN 0 ELSE a + 1
  BY SuccCases
<1>2. Lead(a, b) = IF a >= b THEN a - b ELSE a - b + N
  BY LeadCases
<1>3. Lead(Succ(a), b) = IF Succ(a) >= b THEN Succ(a) - b ELSE Succ(a) - b + N
  BY <1>1, LeadCases
<1> QED BY <1>1, <1>2, <1>3, DmaAssumption DEF Blocks, N

(* The reader moves one block ahead, unless it has met the other.            *)
LEMMA ReaderMoves ==
  ASSUME NEW a \in Blocks, NEW b \in Blocks, a # b
  PROVE  Lead(a, Succ(b)) = Lead(a, b) - 1
<1>1. Succ(b) \in Blocks /\ Succ(b) = IF b = N - 1 THEN 0 ELSE b + 1
  BY SuccCases
<1>2. Lead(a, b) = IF a >= b THEN a - b ELSE a - b + N
  BY LeadCases
<1>3. Lead(a, Succ(b)) = IF a >= Succ(b) THEN a - Succ(b) ELSE a - Succ(b) + N
  BY <1>1, LeadCases
<1> QED BY <1>1, <1>2, <1>3, DmaAssumption DEF Blocks, N

(* A block is determined by its lead; lead 0 is the block itself.            *)
LEMMA LeadInjective ==
  ASSUME NEW a \in Blocks, NEW b \in Blocks, NEW c \in Blocks
  PROVE  /\ Lead(a, c) = Lead(b, c) => a = b
         /\ Lead(a, a) = 0
<1>1. Lead(a, c) = IF a >= c THEN a - c ELSE a - c + N
  BY LeadCases
<1>2. Lead(b, c) = IF b >= c THEN b - c ELSE b - c + N
  BY LeadCases
<1>3. Lead(a, a) = a - a
  BY LeadCases DEF Blocks
<1> QED BY <1>1, <1>2, <1>3, DmaAssumption DEF Blocks, N

(* The block behind the reader is the last one of the ring.                  *)
LEMMA LeadBehind ==
  ASSUME NEW b \in Blocks
  PROVE  Lead(b, Succ(b)) = N - 1
<1>1. Succ(b) \in Blocks /\ Succ(b) = IF b = N - 1 THEN 0 ELSE b + 1
  BY SuccCases
<1>2. Lead(b, Succ(b)) = IF b >= Succ(b) THEN b - Succ(b) ELSE b - Succ(b) + N
  BY <1>1, LeadCases
<1> QED BY <1>1, <1>2, DmaAssumption DEF Blocks, N

(* The count does not wrap while it is at most the ring size.                *)
LEMMA CountExact ==
  ASSUME NEW c \in 0 .. N
  PROVE  c % COUNT_WRAP = c
  BY DmaAssumption DEF N

(* What sdr_dma_stop leaves in the ring, and what it holds on the way.       *)
LEMMA WipedRing ==
  /\ [b \in Blocks |-> WIPED] \in [Blocks -> Int]
  /\ [b \in Blocks |-> TORN] \in [Blocks -> Int]
  BY DEF WIPED, TORN

-----------------------------------------------------------------------------
(* sdr_dma_init leaves well-typed state.                                     *)
LEMMA InitTypeOK == DmaInit => DmaTypeOK
<1> SUFFICES ASSUME DmaInit PROVE DmaTypeOK
  OBVIOUS
<1>1. 0 \in Blocks /\ 0 \in 0 .. COUNT_WRAP - 1
  BY DmaAssumption DEF Blocks
<1> QED BY <1>1, WipedRing DEF DmaInit, DmaTypeOK, CPc, APc, Epoch

(* Both block pointers stay in the ring and every other variable keeps its  *)
(* type: sdr_dma_irq_handler and the stores of sdr_dma_release_block wrap.  *)
THEOREM Typing == DmaSpec => []DmaTypeOK
<1>1. DmaInit => DmaTypeOK
  BY InitTypeOK
<1>2. DmaTypeOK /\ [DmaNext]_dmaVars => DmaTypeOK'
  <2> SUFFICES ASSUME DmaTypeOK, [DmaNext]_dmaVars PROVE DmaTypeOK'
    OBVIOUS
  <2> USE DmaAssumption DEF DmaTypeOK, CPc, APc, Epoch, ptrVars, hwVars, cVars, histVars
  <2>1. CASE DmaFill
    BY <2>1 DEF DmaFill, TORN
  <2>2. CASE DmaComplete
    BY <2>2 DEF DmaComplete
  <2>3. CASE sdr_dma_irq_handler
    <3>1. /\ Succ(dma_write_block) \in Blocks /\ Succ(proto_read_block) \in Blocks
          /\ (blocks_filled + 1) % COUNT_WRAP \in 0 .. COUNT_WRAP - 1
      BY SuccCases
    <3> QED BY <2>3, <3>1 DEF sdr_dma_irq_handler
  <2>4. CASE StartBegin
    <3>1. 0 \in Blocks /\ epoch' \in Epoch /\ apc' \in APc
      BY <2>4 DEF StartBegin, Control, Blocks
    <3> QED BY <2>4, <3>1 DEF StartBegin
  <2>5. CASE StartStores
    <3>1. 0 \in Blocks /\ 0 \in 0 .. COUNT_WRAP - 1 /\ captures + 1 \in Nat
      BY DEF Blocks
    <3> QED BY <2>5, <3>1 DEF StartStores, Control
  <2>6. CASE StopBegin \/ StopHalt
    BY <2>6 DEF StopBegin, StopHalt, Control
  <2>7. CASE StopWipe
    BY <2>7, WipedRing DEF StopWipe, Control
  <2>8. CASE GetCheck
    BY <2>8 DEF GetCheck, Consumer
  <2>9. CASE GetIndex
    BY <2>9 DEF GetIndex, Consumer
  <2>10. CASE BlockSent
    BY <2>10 DEF BlockSent, Consumer
  <2>11. CASE ReleaseCheck
    BY <2>11 DEF ReleaseCheck, Consumer
  <2>12. CASE ReleaseLoad
    BY <2>12 DEF ReleaseLoad, Consumer
  <2>13. CASE ReleaseStore
    BY <2>13, SuccCases DEF ReleaseStore, Consumer
  <2>14. CASE ReleaseSub
    BY <2>14 DEF ReleaseSub, Consumer
  <2>15. CASE UNCHANGED dmaVars
    BY <2>15 DEF dmaVars
  <2> QED
    BY <2>1, <2>2, <2>3, <2>4, <2>5, <2>6, <2>7, <2>8, <2>9, <2>10, <2>11,
       <2>12, <2>13, <2>14, <2>15 DEF DmaNext
<1> QED
  BY <1>1, <1>2, PTL DEF DmaSpec
-----------------------------------------------------------------------------
(* The capture in the block the reader's pointer names: the one expected    *)
(* next, or, between BlockSent and the store that frees the block, the one before.*)
Oldest == IF cpc \in {"release", "load", "store"} THEN expect - 1 ELSE expect

(* Where the starting and stopping thread is, the channel and the flag      *)
(* follow; a start that nobody disturbs has the pointers reset so far.      *)
ControlInv ==
  /\ apc \in {"s_read", "s_count", "s_run", "halt", "wipe", "wiping"} => ~dma_running
  /\ ~dma_running /\ apc # "halt" => xfer = "off"
  /\ apc = "s_arm" => xfer = "off" /\ dma_running
  /\ apc \in {"s_run", "s_arm"} => epoch \in {"capture", "broken"}
  /\ apc \in {"s_read", "s_count"} => epoch \in {"starting", "broken"}
  /\ epoch = "starting" =>
       /\ cpc = "rest" /\ apc \in {"s_read", "s_count"} /\ dma_write_block = 0
       /\ apc = "s_count" => proto_read_block = 0

(* The count, and that a consumer inside get or release has a block.        *)
CountInv ==
  /\ blocks_filled = Lead(dma_write_block, proto_read_block)
                       + (IF cpc = "sub" THEN 1 ELSE 0)
  /\ cpc \in {"get", "hold", "release", "load", "store"} =>
       dma_write_block # proto_read_block
  /\ cpc = "store" => ctmp = proto_read_block

(* The consumer's block; before a stop wipes them the filled blocks hold    *)
(* consecutive captures, the last one is the last the DMA completed.        *)
ContentInv ==
  /\ cpc = "hold" => cblk = proto_read_block
  /\ epoch = "wiped" =>
       /\ xfer = "off"
       /\ apc # "wiping" => \A b \in Blocks : ring[b] = WIPED
  /\ epoch = "capture" =>
       /\ apc # "wiping"
       /\ \A b \in Blocks :
            Lead(b, proto_read_block) < Lead(dma_write_block, proto_read_block)
              => ring[b] = Oldest + Lead(b, proto_read_block)
       /\ apc # "wipe" =>
            captures = Oldest + Lead(dma_write_block, proto_read_block)
                         - (IF xfer = "done" THEN 0 ELSE 1)
       /\ xfer = "done" => ring[dma_write_block] = captures

(* Until something has broken the capture, which an overrun does because it *)
(* moves the reader's pointer under the consumer.                           *)
Unbroken == epoch \in {"capture", "wiped"}
IInv == DmaTypeOK /\ ControlInv /\ (Unbroken => CountInv /\ ContentInv)

(* The control part of the invariant needs no more than itself.             *)
LEMMA ControlStep ==
  ASSUME DmaTypeOK, ControlInv, Unbroken => ContentInv, DmaNext
  PROVE  ControlInv'
<1> USE DEF DmaTypeOK, ControlInv
<1>1. CASE DmaFill \/ DmaComplete \/ GetIndex \/ BlockSent \/ ReleaseCheck \/ ReleaseLoad
           \/ ReleaseStore \/ ReleaseSub
  <2>1. /\ UNCHANGED <<apc, dma_running, epoch, dma_write_block>>
        /\ (xfer # "off" /\ xfer # xfer') \/ xfer' = xfer
        /\ cpc # "rest" \/ cpc' = cpc
        /\ cpc # "rest" \/ proto_read_block' = proto_read_block
    BY <1>1 DEF DmaFill, DmaComplete, GetIndex, BlockSent, ReleaseCheck, ReleaseLoad,
                ReleaseStore, ReleaseSub, Consumer, ptrVars, hwVars, cVars, histVars
  <2> QED BY <2>1
<1>2. CASE sdr_dma_irq_handler
  BY <1>2 DEF sdr_dma_irq_handler, cVars
<1>3. CASE StartBegin
  BY <1>3 DEF StartBegin, Control, hwVars, cVars
<1>4. CASE StartStores
  <2>1. CASE apc = "s_read"
    BY <1>4, <2>1 DEF StartStores, Control, hwVars, cVars, histVars
  <2>2. CASE apc = "s_count"
    BY <1>4, <2>2 DEF StartStores, Control, hwVars, cVars
  <2>3. CASE apc = "s_run"
    BY <1>4, <2>3 DEF StartStores, Control, hwVars, cVars, histVars, ptrVars
  <2>4. CASE apc = "s_arm"
    BY <1>4, <2>4 DEF StartStores, Control, cVars, histVars, ptrVars
  <2> QED BY <1>4, <2>1, <2>2, <2>3, <2>4 DEF StartStores, Control
<1>5. CASE StopBegin \/ StopHalt
  BY <1>5 DEF StopBegin, StopHalt, Control, hwVars, cVars, histVars, ptrVars
<1>6. CASE StopWipe
  BY <1>6 DEF StopWipe, Control, cVars, histVars, ptrVars
<1>7. CASE GetCheck
  BY <1>7 DEF GetCheck, Consumer, hwVars, ptrVars
<1> QED BY <1>1, <1>2, <1>3, <1>4, <1>5, <1>6, <1>7 DEF DmaNext

(* A step inside an unbroken capture, the wiping of its ring included.      *)
LEMMA IInvStep ==
  ASSUME DmaTypeOK, DmaTypeOK', ControlInv, CountInv, ContentInv, Unbroken, Unbroken', DmaNext
  PROVE  CountInv' /\ ContentInv'
<1> USE DEF DmaTypeOK
<1> DEFINE w == dma_write_block
           r == proto_read_block
<1>0. /\ Lead(w, r) \in Nat
      /\ (Lead(w, r) = 0) <=> (w = r)
      /\ \A b \in Blocks : Lead(b, r) \in Nat
      /\ \A b \in Blocks : Lead(b, r) = Lead(w, r) => b = w
      /\ Oldest \in Int
  <2>1. \A b \in Blocks : Lead(b, r) \in Nat
    <3>1. \A b \in Blocks : Lead(b, r) \in Blocks
      BY LeadCases
    <3> QED BY <3>1, BlocksRange, RingSize
  <2>2. Lead(r, r) = 0 /\ \A b \in Blocks : Lead(b, r) = Lead(w, r) => b = w
    BY LeadInjective
  <2>3. Oldest \in Int
    BY DEF Oldest
  <2> QED BY <2>1, <2>2, <2>3
<1>1. CASE DmaFill
  <2>1. epoch = "capture" /\ xfer = "armed" /\ xfer' = "filling"
    BY <1>1 DEF DmaFill, ContentInv, Unbroken
  <2>2. \A b \in Blocks : Lead(b, r) < Lead(w, r) => ring'[b] = ring[b]
    BY <1>1, <1>0 DEF DmaFill
  <2> QED BY <1>1, <2>1, <2>2
             DEF DmaFill, CountInv, ContentInv, Oldest, ptrVars, cVars, histVars
<1>2. CASE DmaComplete
  <2>1. epoch = "capture" /\ xfer = "filling" /\ xfer' = "done" /\ apc # "wipe"
    BY <1>2 DEF DmaComplete, ContentInv, ControlInv, Unbroken
  <2>2. \A b \in Blocks : Lead(b, r) < Lead(w, r) => ring'[b] = ring[b]
    BY <1>2, <1>0 DEF DmaComplete
  <2>3. ring'[w] = captures'
    BY <1>2 DEF DmaComplete
  <2> QED
    BY <1>0, <1>2, <2>1, <2>2, <2>3
       DEF DmaComplete, CountInv, ContentInv, Oldest, ptrVars, cVars, histVars
<1>3. CASE sdr_dma_irq_handler
  <2>1. /\ Succ(w) # r /\ w' = Succ(w) /\ r' = r /\ xfer = "done"
        /\ UNCHANGED <<cpc, cblk, ctmp, expect, epoch, apc, dma_running, ring, captures>>
        /\ blocks_filled' = (blocks_filled + 1) % COUNT_WRAP
        /\ xfer' = IF dma_running THEN "armed" ELSE "off"
    BY <1>3 DEF sdr_dma_irq_handler, cVars, Unbroken
  <2>2. Lead(w', r') = Lead(w, r) + 1 /\ Lead(w', r') \in 0 .. N - 1
    <3>1. Lead(w', r') = Lead(w, r) + 1
      BY <2>1, WriterMoves
    <3>2. Lead(w', r') \in Blocks
      BY LeadCases
    <3> QED BY <3>1, <3>2, BlocksRange, RingSize
  <2>3. CountInv'
    <3>1. blocks_filled + 1 \in 0 .. N
      <4>1. blocks_filled = Lead(w, r) \/ blocks_filled = Lead(w, r) + 1
        BY <1>0 DEF CountInv
      <4>2. Lead(w, r) \in 0 .. N - 2
        BY <1>0, <2>2, RingSize
      <4> QED BY <4>1, <4>2, RingSize
    <3>2. blocks_filled' = blocks_filled + 1
      BY <2>1, <3>1, CountExact
    <3> QED BY <1>0, <2>1, <2>2, <3>2 DEF CountInv
  <2>4. ContentInv'
    <3>1. epoch = "capture" /\ captures = Oldest + Lead(w, r) /\ ring[w] = captures
      BY <1>0, <2>1 DEF ContentInv, Unbroken, ControlInv
    <3>2. \A b \in Blocks : Lead(b, r) < Lead(w, r) + 1
            => ring[b] = Oldest + Lead(b, r)
      BY <1>0, <3>1 DEF ContentInv
    <3>3. Oldest' = Oldest
      BY <2>1 DEF Oldest
    <3> QED BY <1>0, <2>1, <2>2, <3>1, <3>2, <3>3 DEF ContentInv
  <2> QED BY <2>3, <2>4
<1>4. CASE StartBegin \/ StartStores
  <2>1. apc \in {"s_run", "s_arm"} /\ epoch' = epoch
    BY <1>4 DEF StartBegin, StartStores, Control, ControlInv, Unbroken, histVars
  <2>2. /\ UNCHANGED <<ptrVars, ring, captures, cVars, histVars>>
        /\ apc' # "wiping" /\ (xfer' = xfer \/ (xfer = "off" /\ xfer' = "armed"))
    BY <1>4, <2>1 DEF StartBegin, StartStores, Control, ControlInv, hwVars
  <2>3. epoch = "wiped" => xfer' = "off"
    <3>1. epoch # "wiped"
      BY <2>1 DEF ControlInv
    <3> QED BY <3>1
  <2> QED BY <2>1, <2>2, <2>3
             DEF CountInv, ContentInv, Oldest, ptrVars, cVars, histVars
<1>5. CASE StopBegin \/ StopHalt \/ StopWipe
  <2>1. CountInv'
    <3>1. UNCHANGED <<ptrVars, cVars>>
      BY <1>5 DEF StopBegin, StopHalt, StopWipe
    <3> QED BY <3>1 DEF CountInv, ptrVars, cVars
  <2>2. CASE StopBegin
    <3>1. UNCHANGED <<ptrVars, hwVars, cVars, histVars>> /\ apc = "idle" /\ apc' = "halt"
      BY <2>2 DEF StopBegin, Control
    <3>2. UNCHANGED <<w, r, cpc, cblk, ring, xfer, captures, epoch, Oldest>>
      BY <3>1 DEF Oldest, ptrVars, hwVars, cVars, histVars
    <3> QED BY <2>1, <3>1, <3>2 DEF ContentInv
  <2>3. CASE StopHalt
    <3>1. /\ UNCHANGED <<ptrVars, ring, captures, cVars, histVars>>
          /\ apc = "halt" /\ apc' = "wipe" /\ xfer' = "off"
      BY <2>3 DEF StopHalt, Control
    <3>2. UNCHANGED <<w, r, cpc, cblk, ring, captures, epoch, Oldest>>
      BY <3>1 DEF Oldest, ptrVars, cVars, histVars
    <3> QED BY <2>1, <3>1, <3>2 DEF ContentInv
  <2>4. CASE StopWipe
    <3>1. UNCHANGED <<ptrVars, xfer, captures, cVars, expect>> /\ epoch' = "wiped"
      BY <2>4 DEF StopWipe, Control, ContentInv, Unbroken, histVars
    <3>2. xfer = "off" /\ (apc' # "wiping" => \A b \in Blocks : ring'[b] = WIPED)
      BY <2>4 DEF StopWipe, Control, ControlInv
    <3>3. UNCHANGED <<r, cpc, cblk, xfer>>
      BY <3>1 DEF ptrVars, cVars
    <3> QED BY <2>1, <3>1, <3>2, <3>3 DEF ContentInv
  <2> QED BY <1>5, <2>1, <2>2, <2>3, <2>4
<1>6. CASE GetCheck
  BY <1>0, <1>6 DEF Unbroken, GetCheck, Consumer, CountInv, ContentInv, Oldest, ptrVars, hwVars, histVars
<1>7. CASE GetIndex
  BY <1>7 DEF GetIndex, Consumer, CountInv, ContentInv, Oldest, ptrVars, hwVars, histVars
<1>8. CASE BlockSent
  BY <1>8 DEF BlockSent, Consumer, CountInv, ContentInv, Oldest, ptrVars, hwVars, histVars
<1>9. CASE ReleaseCheck
  BY <1>0, <1>9 DEF ReleaseCheck, Consumer, CountInv, ContentInv, Oldest, ptrVars, hwVars, histVars
<1>10. CASE ReleaseLoad
  BY <1>10 DEF ReleaseLoad, Consumer, CountInv, ContentInv, Oldest, ptrVars, hwVars, histVars
<1>11. CASE ReleaseStore
  <2>1. /\ cpc = "store" /\ cpc' = "sub" /\ w # r /\ r' = Succ(r)
        /\ UNCHANGED <<dma_write_block, blocks_filled, dma_running, hwVars, expect,
                       epoch, apc>>
    BY <1>11 DEF ReleaseStore, Consumer, CountInv, histVars
  <2>2. Lead(w', r') = Lead(w, r) - 1 /\ Lead(w', r') \in Nat
    <3>1. Lead(w', r') = Lead(w, r) - 1
      BY <2>1, ReaderMoves
    <3> QED BY <3>1, <1>0, <2>1
  <2>3. CountInv'
    BY <1>0, <2>1, <2>2 DEF CountInv
  <2>4. \A b \in Blocks : Lead(b, r') < Lead(w', r') => Lead(b, r') = Lead(b, r) - 1
    <3> SUFFICES ASSUME NEW b \in Blocks, Lead(b, r') < Lead(w', r')
                 PROVE  Lead(b, r') = Lead(b, r) - 1
      OBVIOUS
    <3>1. b # r
      <4>1. Lead(w, r) \in 0 .. N - 1
        <5>1. Lead(w, r) \in Blocks
          BY LeadCases
        <5> QED BY <5>1, BlocksRange, RingSize
      <4>2. Lead(r, r') = N - 1
        BY <2>1, LeadBehind
      <4> QED BY <2>2, <4>1, <4>2, RingSize
    <3> QED BY <2>1, <3>1, ReaderMoves
  <2>5. Oldest = expect - 1 /\ Oldest' = expect
    BY <2>1 DEF Oldest
  <2>6. \A b \in Blocks : Lead(b, r') < Lead(w', r') => Lead(b, r) < Lead(w, r)
    BY <1>0, <2>2, <2>4
  <2>7. ContentInv'
    BY <1>0, <2>1, <2>2, <2>4, <2>5, <2>6 DEF ContentInv, hwVars
  <2> QED BY <2>3, <2>7
<1>12. CASE ReleaseSub
  <2>1. cpc = "sub" /\ cpc' = "rest" /\ w' = w /\ r' = r
    BY <1>12 DEF ReleaseSub, Consumer
  <2>2. blocks_filled' = blocks_filled - 1
    <3>1. blocks_filled - 1 \in 0 .. N
      <4>1. Lead(w, r) \in Blocks
        BY LeadCases
      <4>2. blocks_filled = Lead(w, r) + 1
        BY <2>1 DEF CountInv
      <4>3. Lead(w, r) \in Int /\ 0 <= Lead(w, r) /\ Lead(w, r) <= N - 1
        BY <4>1, BlocksRange, RingSize
      <4> QED BY <4>2, <4>3, RingSize
    <3> QED BY <1>12, <3>1, CountExact DEF ReleaseSub
  <2>3. CountInv'
    BY <1>0, <2>1, <2>2 DEF CountInv
  <2>4. ContentInv'
    BY <1>12, <2>1 DEF ReleaseSub, ContentInv, Oldest, hwVars, histVars
  <2> QED BY <2>3, <2>4
<1> QED
  BY <1>1, <1>2, <1>3, <1>4, <1>5, <1>6, <1>7, <1>8, <1>9, <1>10, <1>11, <1>12
     DEF DmaNext
(* Only a start leads back into an unbroken capture, at its last store of a  *)
(* pointer, and it finds the consumer between two calls.                     *)
LEMMA Begins ==
  ASSUME DmaTypeOK, ControlInv, [DmaNext]_dmaVars, ~Unbroken, Unbroken'
  PROVE  CountInv' /\ ContentInv'
<1> USE DEF DmaTypeOK, Epoch
<1>1. epoch = "starting" /\ apc = "s_count" /\ StartStores
  BY DEF Unbroken, dmaVars, DmaNext, DmaFill, DmaComplete, sdr_dma_irq_handler, StartBegin,
         StartStores, StopBegin, StopHalt, StopWipe, GetCheck, GetIndex, BlockSent,
         ReleaseCheck, ReleaseLoad, ReleaseStore, ReleaseSub, histVars, Control
<1>2. /\ cpc = "rest" /\ dma_write_block = 0 /\ proto_read_block = 0 /\ xfer = "off"
      /\ UNCHANGED <<dma_write_block, proto_read_block, hwVars, cVars>>
      /\ blocks_filled' = 0 /\ expect' = captures + 1 /\ epoch' = "capture"
      /\ apc' = "s_run"
  BY <1>1 DEF StartStores, Control, ControlInv
<1>3. 0 \in Blocks /\ Lead(0, 0) = 0 /\ \A b \in Blocks : Lead(b, 0) \in Nat
  <2>1. 0 \in Blocks
    BY DmaAssumption DEF Blocks
  <2>2. Lead(0, 0) = 0
    BY <2>1, LeadInjective
  <2>3. \A b \in Blocks : Lead(b, 0) \in Nat
    <3>1. \A b \in Blocks : Lead(b, 0) \in Blocks
      BY <2>1, LeadCases
    <3> QED BY <3>1, BlocksRange, RingSize
  <2> QED BY <2>1, <2>2, <2>3
<1>4. CountInv'
  BY <1>2, <1>3 DEF CountInv, cVars
<1>5. Oldest' = captures + 1 /\ captures' = captures /\ xfer' = "off" /\ cpc' = "rest"
  BY <1>2 DEF Oldest, cVars, hwVars
<1>6. ContentInv'
  BY <1>2, <1>3, <1>5 DEF ContentInv
<1> QED BY <1>4, <1>6

(* The strengthening of both properties below: while nothing has broken the  *)
(* capture the count is exact and the filled blocks hold consecutive         *)
(* captures, or zeros once a stop has wiped them.                            *)
THEOREM Inductive == DmaSpec => []IInv
<1>1. DmaInit => IInv
  <2> SUFFICES ASSUME DmaInit PROVE IInv
    OBVIOUS
  <2>1. DmaTypeOK
    BY InitTypeOK
  <2>2. Lead(0, 0) = 0
    BY LeadInjective, DmaAssumption DEF Blocks
  <2>3. CountInv
    BY <2>2 DEF DmaInit, CountInv
  <2>4. ContentInv /\ ControlInv
    BY DEF DmaInit, ContentInv, ControlInv
  <2> QED BY <2>1, <2>3, <2>4 DEF IInv
<1>2. IInv /\ DmaTypeOK' /\ [DmaNext]_dmaVars => IInv'
  <2> SUFFICES ASSUME IInv, DmaTypeOK', [DmaNext]_dmaVars
               PROVE  ControlInv' /\ (Unbroken' => CountInv' /\ ContentInv')
    BY DEF IInv
  <2>1. CASE UNCHANGED dmaVars
    BY <2>1 DEF IInv, dmaVars, Unbroken, ControlInv, CountInv, ContentInv, Oldest
  <2>2. CASE DmaNext
    <3>1. ControlInv'
      BY <2>2, ControlStep DEF IInv
    <3>2. ASSUME Unbroken, Unbroken' PROVE CountInv' /\ ContentInv'
      BY <2>2, <3>2, IInvStep DEF IInv
    <3>3. ASSUME ~Unbroken, Unbroken' PROVE CountInv' /\ ContentInv'
      BY <3>3, Begins DEF IInv
    <3> QED BY <3>1, <3>2, <3>3
  <2> QED BY <2>1, <2>2
<1> QED BY <1>1, <1>2, Typing, PTL DEF DmaSpec

(* blocks_filled is the writer's lead over the reader at every preemption    *)
(* point of the handler, of start and of stop, for every ring size, until an *)
(* overrun or a start inside a consumer's call.                              *)
THEOREM CountExactUntilOverrun == DmaSpec => []CountIsDistanceUntilOverrun
<1>1. IInv => CountIsDistanceUntilOverrun
  BY DEF IInv, CountInv, CountIsDistanceUntilOverrun, Distance, Lead, N, Unbroken
<1> QED BY <1>1, Inductive, PTL

(* sdr_dma_get_block hands out every capture once, whole and in order, and   *)
(* after a stop zeros, until an overrun or a start inside a consumer's call. *)
THEOREM CapturesInOrder == DmaSpec => []InOrderUntilOverrun
<1>1. IInv => InOrderUntilOverrun
  <2> SUFFICES ASSUME IInv, cpc = "hold", Unbroken
               PROVE  /\ epoch = "capture" => ring[cblk] = expect
                      /\ epoch = "wiped" /\ apc # "wiping" => ring[cblk] = WIPED
    BY DEF InOrderUntilOverrun, Unbroken
  <2> DEFINE w == dma_write_block
             r == proto_read_block
  <2>1. cblk = r /\ w # r /\ r \in Blocks /\ w \in Blocks /\ Oldest = expect
    BY DEF IInv, DmaTypeOK, CountInv, ContentInv, Oldest
  <2>2. Lead(r, r) = 0 /\ Lead(w, r) # 0 /\ Lead(w, r) \in Nat
    <3>1. Lead(r, r) = 0 /\ (Lead(w, r) = Lead(r, r) => w = r)
      BY <2>1, LeadInjective
    <3>2. Lead(w, r) \in Nat
      BY <2>1, LeadCases, BlocksRange, RingSize
    <3> QED BY <2>1, <3>1, <3>2
  <2>3. epoch = "capture" => ring[r] = Oldest + Lead(r, r)
    BY <2>1, <2>2 DEF IInv, ContentInv
  <2>4. epoch = "wiped" /\ apc # "wiping" => ring[r] = WIPED
    BY <2>1 DEF IInv, ContentInv
  <2> QED BY <2>1, <2>2, <2>3, <2>4 DEF IInv, DmaTypeOK
<1> QED BY <1>1, Inductive, PTL
=============================================================================
