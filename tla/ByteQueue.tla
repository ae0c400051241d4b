------------------------------ MODULE ByteQueue ------------------------------
(* What the SPI0 receive ring promises the protocol handler: a first-in       *)
(* first-out queue of bounded length that drops a byte only when it is full. *)
EXTENDS Naturals, Sequences

CONSTANTS Bytes, Capacity

VARIABLES queue, taken

(* The interrupt handler hands over one received byte.                       *)
Arrive(b) ==
  /\ queue' = IF Len(queue) < Capacity THEN Append(queue, b) ELSE queue
  /\ UNCHANGED taken

(* The protocol handler gets the oldest byte.                                *)
Take ==
  /\ queue # << >>
  /\ taken' = Head(queue) /\ queue' = Tail(queue)

Init == queue = << >> /\ taken \in Bytes
Next == Take \/ \E b \in Bytes : Arrive(b)
Spec == Init /\ [][Next]_<<queue, taken>>
=============================================================================
