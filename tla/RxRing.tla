------------------------------- MODULE RxRing --------------------------------
(***************************************************************************)
(* The receive ring between the default SPI0 handler (rp2350b_init.c) and   *)
(* the loop that drains it (spi_protocol_process).  The handler is atomic   *)
(* and preempts the loop between any two of its accesses to the ring.      *)
(***************************************************************************)
EXTENDS Integers, Sequences

CONSTANTS
  Bytes,           \* values of a received byte
  SPI_RX_BUF_SIZE  \* 8192 in the code, a power of two

ASSUME RingAssumption == SPI_RX_BUF_SIZE \in Nat \ {0, 1} /\ 0 \in Bytes

VARIABLES
  spi_rx_buf, spi_rx_head, spi_rx_tail,
  spi_rx_overrun, \* the counter, as "a byte was dropped"
  pc,    \* the draining loop: "test", "load" or "store"
  byte,  \* the byte it has loaded
  last   \* history: the byte whose slot was given back last

vars == <<spi_rx_buf, spi_rx_head, spi_rx_tail, spi_rx_overrun, pc, byte, last>>

Slots == 0 .. SPI_RX_BUF_SIZE - 1

(* The handler takes the remainder, the loop masks: the same for a power of 2.*)
Next1(i) == (i + 1) % SPI_RX_BUF_SIZE

(* Bug shape: the ring is filled to the last slot, full looks like empty.    *)
MutHandler(b) ==
  /\ spi_rx_buf' = [spi_rx_buf EXCEPT ![spi_rx_head] = b]
  /\ spi_rx_head' = Next1(spi_rx_head)
  /\ UNCHANGED <<spi_rx_overrun, spi_rx_tail, pc, byte, last>>

(* spi0_handler: one slot stays free, a byte for a full ring is counted and  *)
(* dropped.                                                                  *)
spi0_handler(b) ==
  /\ IF Next1(spi_rx_head) # spi_rx_tail
     THEN /\ spi_rx_buf' = [spi_rx_buf EXCEPT ![spi_rx_head] = b]
          /\ spi_rx_head' = Next1(spi_rx_head)
          /\ UNCHANGED spi_rx_overrun
     ELSE /\ spi_rx_overrun' = TRUE
          /\ UNCHANGED <<spi_rx_buf, spi_rx_head>>
  /\ UNCHANGED <<spi_rx_tail, pc, byte, last>>

(* while (spi_rx_head != spi_rx_tail) { byte = buf[tail]; tail = ...; }      *)
DrainTest ==
  /\ pc = "test" /\ spi_rx_head # spi_rx_tail
  /\ pc' = "load"
  /\ UNCHANGED <<spi_rx_buf, spi_rx_head, spi_rx_tail, spi_rx_overrun, byte, last>>

(* Bug shape: the slot is given back before it is read.                      *)
MutDrainLoad ==
  /\ pc = "load"
  /\ spi_rx_tail' = Next1(spi_rx_tail) /\ pc' = "store"
  /\ UNCHANGED <<spi_rx_buf, spi_rx_head, spi_rx_overrun, byte, last>>

DrainLoad ==
  /\ pc = "load"
  /\ byte' = spi_rx_buf[spi_rx_tail] /\ pc' = "store"
  /\ UNCHANGED <<spi_rx_buf, spi_rx_head, spi_rx_tail, spi_rx_overrun, last>>

DrainStore ==
  /\ pc = "store"
  /\ spi_rx_tail' = Next1(spi_rx_tail) /\ pc' = "test" /\ last' = byte
  /\ UNCHANGED <<spi_rx_buf, spi_rx_head, spi_rx_overrun, byte>>

Init ==
  /\ spi_rx_buf = [i \in Slots |-> 0] /\ spi_rx_head = 0 /\ spi_rx_tail = 0
  /\ spi_rx_overrun = FALSE /\ pc = "test" /\ byte \in Bytes
  /\ last = byte

Next ==
  \/ \E b \in Bytes : spi0_handler(b)
  \/ DrainTest \/ DrainLoad \/ DrainStore

Spec == Init /\ [][Next]_vars

-----------------------------------------------------------------------------
(* Types of all variables.                                                   *)
TypeOK ==
  /\ spi_rx_buf \in [Slots -> Bytes] /\ byte \in Bytes
  /\ last \in Bytes /\ spi_rx_head \in Slots /\ spi_rx_tail \in Slots
  /\ spi_rx_overrun \in BOOLEAN /\ pc \in {"test", "load", "store"}

(* Bytes received and not yet given back.                                    *)
Used == (spi_rx_head - spi_rx_tail) % SPI_RX_BUF_SIZE
Pending == [k \in 1 .. Used |-> spi_rx_buf[(spi_rx_tail + k - 1) % SPI_RX_BUF_SIZE]]

(* The byte the loop is about to use is the oldest one of the ring, however   *)
(* often the handler ran since the loop looked.                              *)
LoadedIsOldest ==
  /\ pc \in {"load", "store"} => Used > 0
  /\ pc = "store" => byte = spi_rx_buf[spi_rx_tail]

(* The ring implements a queue of SPI_RX_BUF_SIZE - 1 bytes: nothing is lost  *)
(* unless it is full, nothing is duplicated, reordered or overwritten.  A    *)
(* byte is taken by the store that gives its slot back.                      *)
Queue == INSTANCE ByteQueue WITH
           queue <- Pending, taken <- last, Capacity <- SPI_RX_BUF_SIZE - 1
QueueSpec == Queue!Spec
=============================================================================
