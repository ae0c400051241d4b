------------------------------ MODULE MCSpi0Isr ------------------------------
(***************************************************************************)
(* Spi0Isr for TLC, with checksums small enough to collide.  A behaviour     *)
(* looks at one side, so that the states are the sum and not the product:    *)
(* any bytes arrive and no response is queued, or responses are queued while *)
(* the frames that arrive, whole or damaged, are those of a NOP.            *)
(***************************************************************************)
EXTENDS Spi0Isr

VARIABLE side

MCInit == Init /\ side \in {"receive", "respond"}

MCNext ==
  /\ Next /\ UNCHANGED side
  /\ side = "receive" => tx' = tx /\ mpc' # "q_copy"
  /\ side = "respond" =>
       rx'.payload_len = 0 /\ \A k \in 1 .. 3 : rx'.buf[k] = 0

MCSpec == MCInit /\ [][MCNext]_<<vars, side>> /\ Fairness

MCCrc64(sync, cmd, len, reserved) == (sync + cmd + len + reserved) % (BYTE_MAX + 1)
MCCrc32(s) == IF Len(s) = 0 THEN 0 ELSE (s[1] + 1) % (BYTE_MAX + 1)
=============================================================================
