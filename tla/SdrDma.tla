------------------------------- MODULE SdrDma --------------------------------
(***************************************************************************)
(* The IQ capture ring of sdr_dma.c: DMA channel 0 fills blocks, its       *)
(* interrupt handler publishes them, the protocol side takes them with     *)
(* sdr_dma_get_block and hands them back with sdr_dma_release_block, and    *)
(* sdr_dma_start / sdr_dma_stop open and close a capture.                  *)
(*                                                                         *)
(* The handler is atomic; it may run between any two memory accesses of    *)
(* the consumer and of the thread that starts and stops.  Nothing in the   *)
(* tree says on which core that thread runs, so it too may run between any *)
(* two accesses of the consumer.  A block's contents are the number of the *)
(* capture that filled it: WIPED after the wipe, TORN while it is written. *)
(***************************************************************************)
EXTENDS Integers

CONSTANTS
  SDR_RING_NUM_BLOCKS, \* 8 in the code
  COUNT_WRAP,          \* blocks_filled is an uint8_t: 256 in the code
  MaxCaptures          \* bound: captures in one behaviour

ASSUME DmaAssumption ==
  /\ SDR_RING_NUM_BLOCKS \in Nat \ {0, 1}
  /\ COUNT_WRAP \in Nat /\ COUNT_WRAP > SDR_RING_NUM_BLOCKS
  /\ MaxCaptures \in Nat

VARIABLES
  dma_write_block, proto_read_block, blocks_filled, dma_running,
  ring,     \* contents of sdr_ring_buf, per block
  xfer,     \* DMA channel 0: "off", "armed", "filling" or "done" (IRQ pending)
  captures, \* captures completed by the DMA so far
  apc,      \* the thread in sdr_dma_start or sdr_dma_stop: where it is
  cpc, cblk, ctmp, \* the consumer: where it is, its block, its register
  expect,   \* history: the capture the consumer should see next
  epoch     \* history of the capture since the last start: "starting",
            \* "capture", "wiped" by a stop, or "broken" by an overrun or by
            \* a start that found the consumer inside one of its calls

dmaVars == <<dma_write_block, proto_read_block, blocks_filled, dma_running,
          ring, xfer, captures, apc, cpc, cblk, ctmp, expect, epoch>>
hwVars == <<ring, xfer, captures>>
cVars == <<cpc, cblk, ctmp>>
ptrVars == <<dma_write_block, proto_read_block, blocks_filled>>
histVars == <<expect, epoch>>

Blocks == 0 .. SDR_RING_NUM_BLOCKS - 1
WIPED == 0
TORN == -1

Succ(b) == (b + 1) % SDR_RING_NUM_BLOCKS

-----------------------------------------------------------------------------
(* The DMA channel: bytes of the next capture land in the armed block, the  *)
(* last one raises the interrupt.                                           *)
DmaFill ==
  /\ xfer = "armed"
  /\ xfer' = "filling" /\ ring' = [ring EXCEPT ![dma_write_block] = TORN]
  /\ UNCHANGED <<ptrVars, dma_running, captures, apc, cVars, histVars>>

DmaComplete ==
  /\ xfer = "filling" /\ captures < MaxCaptures
  /\ captures' = captures + 1
  /\ ring' = [ring EXCEPT ![dma_write_block] = captures + 1]
  /\ xfer' = "done"
  /\ UNCHANGED <<ptrVars, dma_running, apc, cVars, histVars>>

(* sdr_dma_irq_handler: publish the block, on overrun drop the oldest one   *)
(* by moving the reader's pointer, count the new block, re-arm.             *)
sdr_dma_irq_handler ==
  LET next_write == Succ(dma_write_block)
      overrun    == next_write = proto_read_block
  IN  /\ xfer = "done"
      /\ epoch' = IF overrun THEN "broken" ELSE epoch
      /\ proto_read_block' = IF overrun THEN Succ(proto_read_block)
                             ELSE proto_read_block
      /\ dma_write_block' = next_write
      /\ blocks_filled' = (blocks_filled + 1) % COUNT_WRAP
      /\ xfer' = IF dma_running THEN "armed" ELSE "off"
      /\ UNCHANGED <<dma_running, ring, captures, apc, cVars, expect>>

-----------------------------------------------------------------------------
Control(from, to) == apc = from /\ apc' = to

(* sdr_dma_start: nothing if already running; otherwise the write pointer   *)
(* first.                                                                   *)
StartBegin ==
  /\ Control("idle", "s_read") /\ ~dma_running
  /\ dma_write_block' = 0
  /\ epoch' = IF cpc = "rest" THEN "starting" ELSE "broken"
  /\ UNCHANGED <<proto_read_block, blocks_filled, dma_running, hwVars, cVars,
                 expect>>

(* The read pointer, the count, the flag, and sdr_dma_start_block.          *)
StartStores ==
  \/ /\ Control("s_read", "s_count") /\ proto_read_block' = 0
     /\ UNCHANGED <<dma_write_block, blocks_filled, dma_running, hwVars, cVars,
                    histVars>>
  \/ /\ Control("s_count", "s_run") /\ blocks_filled' = 0
     /\ expect' = captures + 1
     /\ epoch' = IF epoch = "starting" THEN "capture" ELSE epoch
     /\ UNCHANGED <<dma_write_block, proto_read_block, dma_running, hwVars, cVars>>
  \/ /\ Control("s_run", "s_arm") /\ dma_running' = TRUE
     /\ UNCHANGED <<ptrVars, hwVars, cVars, histVars>>
  \/ /\ Control("s_arm", "idle") /\ xfer' = "armed"
     /\ UNCHANGED <<ptrVars, dma_running, ring, captures, cVars, histVars>>

(* sdr_dma_stop: the flag, the channel with its interrupt, and the wipe of  *)
(* the whole ring byte by byte.  Pointers and blocks_filled stay.           *)
StopBegin ==
  /\ Control("idle", "halt") /\ dma_running' = FALSE
  /\ UNCHANGED <<ptrVars, hwVars, cVars, histVars>>

StopHalt ==
  /\ Control("halt", "wipe") /\ xfer' = "off"
  /\ UNCHANGED <<ptrVars, dma_running, ring, captures, cVars, histVars>>

StopWipe ==
  \/ /\ Control("wipe", "wiping") /\ ring' = [b \in Blocks |-> TORN]
     /\ epoch' = IF epoch = "capture" THEN "wiped" ELSE epoch
     /\ UNCHANGED <<ptrVars, dma_running, xfer, captures, cVars, expect>>
  \/ /\ Control("wiping", "idle") /\ ring' = [b \in Blocks |-> WIPED]
     /\ UNCHANGED <<ptrVars, dma_running, xfer, captures, cVars, histVars>>

-----------------------------------------------------------------------------
(* The consumer, one memory access per action.                              *)
Consumer(from, to) == cpc = from /\ cpc' = to

(* sdr_dma_get_block: the count, then the read pointer.                     *)
GetCheck ==
  /\ Consumer("rest", "get") /\ blocks_filled # 0
  /\ epoch' = IF epoch = "starting" THEN "broken" ELSE epoch
  /\ UNCHANGED <<ptrVars, dma_running, hwVars, apc, cblk, ctmp, expect>>

(* Bug shape: the block the DMA writes is handed out.                       *)
MutGetIndex ==
  /\ Consumer("get", "hold") /\ cblk' = dma_write_block
  /\ UNCHANGED <<ptrVars, dma_running, hwVars, apc, ctmp, histVars>>

GetIndex ==
  /\ Consumer("get", "hold") /\ cblk' = proto_read_block
  /\ UNCHANGED <<ptrVars, dma_running, hwVars, apc, ctmp, histVars>>

(* The block has been sent to the host.                                     *)
BlockSent ==
  /\ Consumer("hold", "release") /\ expect' = expect + 1
  /\ UNCHANGED <<ptrVars, dma_running, hwVars, apc, cblk, ctmp, epoch>>

(* sdr_dma_release_block: test, load and store of the pointer, atomic sub.  *)
ReleaseCheck ==
  /\ Consumer("release", IF blocks_filled > 0 THEN "load" ELSE "rest")
  /\ UNCHANGED <<ptrVars, dma_running, hwVars, apc, cblk, ctmp, histVars>>

ReleaseLoad ==
  /\ Consumer("load", "store") /\ ctmp' = proto_read_block
  /\ UNCHANGED <<ptrVars, dma_running, hwVars, apc, cblk, histVars>>

ReleaseStore ==
  /\ Consumer("store", "sub") /\ proto_read_block' = Succ(ctmp)
  /\ UNCHANGED <<dma_write_block, blocks_filled, dma_running, hwVars, apc,
                 cblk, ctmp, histVars>>

(* Bug shape: the freed block is not taken off the count.                   *)
MutReleaseSub ==
  /\ Consumer("sub", "rest")
  /\ UNCHANGED <<ptrVars, dma_running, hwVars, apc, cblk, ctmp, histVars>>

ReleaseSub ==
  /\ Consumer("sub", "rest")
  /\ blocks_filled' = (blocks_filled - 1) % COUNT_WRAP
  /\ UNCHANGED <<dma_write_block, proto_read_block, dma_running, hwVars, apc,
                 cblk, ctmp, histVars>>

-----------------------------------------------------------------------------
(* sdr_dma_init.                                                            *)
DmaInit ==
  /\ dma_write_block = 0 /\ proto_read_block = 0 /\ blocks_filled = 0
  /\ dma_running = FALSE
  /\ ring = [b \in Blocks |-> WIPED] /\ xfer = "off" /\ captures = 0
  /\ apc = "idle" /\ cpc = "rest" /\ cblk = 0 /\ ctmp = 0
  /\ expect = 1 /\ epoch = "wiped"

DmaNext ==
  \/ DmaFill \/ DmaComplete \/ sdr_dma_irq_handler
  \/ StartBegin \/ StartStores
  \/ StopBegin \/ StopHalt \/ StopWipe
  \/ GetCheck \/ GetIndex \/ BlockSent
  \/ ReleaseCheck \/ ReleaseLoad \/ ReleaseStore \/ ReleaseSub

DmaSpec == DmaInit /\ [][DmaNext]_dmaVars

-----------------------------------------------------------------------------
CPc == {"rest", "get", "hold", "release", "load", "store", "sub"}
APc == {"idle", "s_read", "s_count", "s_run", "s_arm", "halt", "wipe", "wiping"}
Epoch == {"starting", "capture", "wiped", "broken"}

(* Types of all variables; in particular both pointers stay in the ring.    *)
DmaTypeOK ==
  /\ dma_write_block \in Blocks /\ proto_read_block \in Blocks
  /\ blocks_filled \in 0 .. COUNT_WRAP - 1
  /\ dma_running \in BOOLEAN /\ apc \in APc /\ epoch \in Epoch
  /\ ring \in [Blocks -> Int] /\ captures \in Nat
  /\ xfer \in {"off", "armed", "filling", "done"}
  /\ cpc \in CPc /\ cblk \in Blocks /\ ctmp \in Blocks /\ expect \in Nat

(* How far the writer is ahead of the reader.                               *)
Distance == (dma_write_block - proto_read_block) % SDR_RING_NUM_BLOCKS

(* "Number of filled blocks available": the count is the writer's lead over *)
(* the reader, plus one in the window between the two stores of a release,  *)
(* at every preemption point, also across stops, until an overrun or a      *)
(* start in the middle of a consumer's call; the next start that finds the  *)
(* consumer between two calls makes it exact again.                         *)
CountIsDistanceUntilOverrun ==
  epoch \in {"capture", "wiped"} =>
    blocks_filled = Distance + (IF cpc = "sub" THEN 1 ELSE 0)

(* Under the same condition the consumer reads each capture once, in order  *)
(* and whole, never a block the DMA is writing, until a stop wipes the      *)
(* ring; a block it holds or gets after that is zeros, never samples.       *)
InOrderUntilOverrun ==
  cpc = "hold" =>
    /\ epoch = "capture" => ring[cblk] = expect
    /\ epoch = "wiped" /\ apc # "wiping" => ring[cblk] = WIPED

(* A block count above what the ring can hold, or below zero (wrapped), is  *)
(* a count nobody can trust.                                                *)
CountWithinRing == blocks_filled < SDR_RING_NUM_BLOCKS

(* sdr_dma.h on sdr_dma_stop: "Halts DMA transfers and drains the ring      *)
(* buffer": a stopped ring has no block to hand out.                        *)
StopDrains == ~dma_running /\ apc = "idle" => blocks_filled = 0
=============================================================================
