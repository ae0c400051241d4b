---------------------------- MODULE McuMainProofs ----------------------------
(***************************************************************************)
(* Proofs about the main loop (McuMain), for every threshold, hysteresis,   *)
(* set of voltages and ring size: types, the marker that survives a reset,  *)
(* the radio's pins, and the transmit ring with its two writers.            *)
(***************************************************************************)
EXTENDS McuMain, WellFoundedInduction, TLAPS

DeviceState == [sdr_streaming : BOOLEAN, sdr_rx_enabled : BOOLEAN,
                nfc_active : BOOLEAN, brownout_active : BOOLEAN]
Pins == [rx_enable : BOOLEAN, lna_enable : BOOLEAN, int_req : BOOLEAN]
Writer == [state : {"idle", "copy", "store", "signal"}, len : Nat, done : Nat,
           reg : 0 .. TX_RING_SIZE - 1]

(* The parts of the type invariant that the frame builder touches.          *)
TxTyped ==
  /\ tx_head \in 0 .. TX_RING_SIZE - 1 /\ tx_tail \in 0 .. TX_RING_SIZE - 1
  /\ queued \in Seq(Nat) /\ overlap \in BOOLEAN
  /\ pins \in Pins
  /\ writer \in [Cores -> Writer]

(* The constants of the initial state are well-typed.                        *)
LEMMA OffTyped ==
  /\ Off \in DeviceState /\ PinsOff \in Pins
  /\ NotSelected \in NotSelected .. TERMINATED
  /\ 0 \in 0 .. TX_RING_SIZE - 1
  /\ [w \in Cores |-> Resting] \in [Cores -> Writer]
<1>1. Off \in DeviceState /\ PinsOff \in Pins
  BY DEF Off, PinsOff, DeviceState, Pins
<1>2. NotSelected \in NotSelected .. TERMINATED /\ 0 \in 0 .. TX_RING_SIZE - 1
  BY McuAssumption DEF NotSelected
<1>3. Resting \in Writer
  BY <1>2 DEF Resting, Writer
<1> QED BY <1>1, <1>2, <1>3

(* No frame at all is a sequence of frames.                                  *)
LEMMA EmptyTyped == << >> \in Seq(Nat)
  OBVIOUS

(* The lengths handed to build_response_frame.                               *)
LEMMA LengthsTyped ==
  /\ TELEM_SIZE \in Nat
  /\ \A len \in ChunkLens : (IF len > SPI_MAX_PAYLOAD THEN SPI_MAX_PAYLOAD ELSE len) \in Nat
  BY McuAssumption

(* A frame is taken or refused.                                              *)
LEMMA BeginTyped ==
  ASSUME TxTyped, NEW w \in Cores, NEW len \in Nat, BuildBegin(w, len),
         UNCHANGED <<tx_head, tx_tail, queued, pins>>
  PROVE  TxTyped'
<1> USE DEF TxTyped
<1>1. [writer EXCEPT ![w].state = "copy", ![w].len = len] \in [Cores -> Writer]
  BY DEF Writer
<1>2. writer' \in [Cores -> Writer]
  BY <1>1 DEF BuildBegin
<1>3. overlap' \in BOOLEAN
  BY DEF BuildBegin
<1> QED BY <1>2, <1>3

(* The copy loop keeps the ring's head in the ring.                          *)
LEMMA CopyTyped ==
  ASSUME TxTyped, NEW w \in Cores, CopyLoad(w) \/ CopyStore(w) \/ Signal(w)
  PROVE  TxTyped'
<1> USE DEF TxTyped, devVars
<1>1. CASE CopyLoad(w)
  <2>1. [writer EXCEPT ![w].state = "store", ![w].reg = tx_head] \in [Cores -> Writer]
    BY DEF Writer
  <2> QED BY <1>1, <2>1 DEF CopyLoad
<1>2. CASE CopyStore(w)
  <2> DEFINE st == IF writer[w].done + 1 < Cells(writer[w].len) THEN "copy" ELSE "signal"
  <2>1. writer[w] \in Writer /\ st \in {"idle", "copy", "store", "signal"}
    OBVIOUS
  <2>2. writer[w].done + 1 \in Nat /\ writer[w].reg + 1 \in Nat
        /\ 0 \in 0 .. TX_RING_SIZE - 1
    BY <2>1, McuAssumption DEF Writer
  <2>3. tx_head' \in 0 .. TX_RING_SIZE - 1
    BY <1>2, <2>2, McuAssumption DEF CopyStore
  <2>4. writer' = [writer EXCEPT ![w].done = @ + 1, ![w].reg = 0, ![w].state = st]
    BY <1>2 DEF CopyStore
  <2> HIDE DEF st
  <2>5. writer' \in [Cores -> Writer]
    BY <2>1, <2>2, <2>4 DEF Writer
  <2> QED BY <1>2, <2>3, <2>5 DEF CopyStore
<1>3. CASE Signal(w)
  <2>1. [pins EXCEPT !.int_req = TRUE] \in Pins
    BY DEF Pins
  <2>2. writer[w].len \in Nat
    BY DEF Writer
  <2>3. Append(queued, writer[w].len) \in Seq(Nat)
    BY <2>2
  <2>4. [writer EXCEPT ![w] = Resting] \in [Cores -> Writer]
    BY McuAssumption DEF Resting, Writer
  <2> QED BY <1>3, <2>1, <2>3, <2>4 DEF Signal
<1> QED BY <1>1, <1>2, <1>3

(* TypeOK in the names used here.                                           *)
Types ==
  /\ pc \in {"boot", "process", "collect", "telemetry", "sending", "brownout"}
  /\ battery_ready \in BOOLEAN /\ vbat \in Volts \cup {0}
  /\ brownout_active \in BOOLEAN /\ device_state \in DeviceState
  /\ antenna \in NotSelected .. TERMINATED
  /\ TxTyped
  /\ scratch7 \in BOOLEAN /\ down \in BOOLEAN /\ reported \in BOOLEAN

(* The end of a round: its flag is a Boolean.                               *)
LEMMA BrownoutTyped ==
  ASSUME Types, BrownoutCheck
  PROVE  Types'
<1> DEFINE low == battery_is_brownout(vbat, brownout_active)
<1>1. low \in BOOLEAN
  <2>1. CASE brownout_active
    BY <2>1 DEF battery_is_brownout
  <2>2. CASE ~brownout_active
    BY <2>2 DEF battery_is_brownout, Low
  <2> QED BY <2>1, <2>2
<1>2. [device_state EXCEPT !.brownout_active = low] \in DeviceState
  BY <1>1 DEF Types, DeviceState
<1>3. /\ brownout_active' \in BOOLEAN /\ scratch7' \in BOOLEAN
      /\ device_state' \in DeviceState
  BY <1>1, <1>2 DEF BrownoutCheck, Types
<1>4. TxTyped'
  BY DEF BrownoutCheck, Types, TxTyped, txVars
<1> QED BY <1>3, <1>4 DEF BrownoutCheck, Types

(* Every action keeps the types.                                            *)
LEMMA StepTyped ==
  ASSUME Types, [Next]_vars
  PROVE  Types'
<1> USE DEF battVars, devVars, txVars, bootVars
<1>1. CASE Boot
  <2>1. TxTyped'
    <3>1. overlap' \in BOOLEAN
      BY <1>1, Zenon DEF Boot
    <3>2. queued' \in Seq(Nat)
      BY <1>1, EmptyTyped DEF Boot
    <3> QED BY <1>1, <3>1, <3>2, OffTyped DEF Boot, TxTyped, Types
  <2>2. battery_ready' \in BOOLEAN /\ brownout_active' \in BOOLEAN
        /\ reported' \in BOOLEAN /\ scratch7' \in BOOLEAN
    BY <1>1 DEF Boot, Types
  <2>3. vbat' \in Volts \cup {0} /\ device_state' \in DeviceState
        /\ antenna' \in NotSelected .. TERMINATED
    BY <1>1, OffTyped DEF Boot
  <2> QED BY <1>1, <2>1, <2>2, <2>3 DEF Boot, Types
<1>2. CASE ProcessDone
  BY <1>2 DEF ProcessDone, Types, TxTyped
<1>3. ASSUME NEW mv \in Volts, collect_telemetry(mv) PROVE Types'
  BY <1>3 DEF collect_telemetry, Types, TxTyped
<1>4. CASE NotDue
  BY <1>4 DEF NotDue, Types, TxTyped
<1>5. CASE spi_protocol_send_telemetry
  <2>1. TxTyped'
    BY <1>5, LengthsTyped, BeginTyped DEF spi_protocol_send_telemetry, Types, Cores
  <2>2. pc' \in {"sending", "brownout"}
    BY <1>5 DEF spi_protocol_send_telemetry
  <2> QED BY <1>5, <2>1, <2>2 DEF spi_protocol_send_telemetry, Types
<1>6. CASE BrownoutCheck
  BY <1>6, BrownoutTyped
<1>7. ASSUME NEW enable \in BOOLEAN, handle_cmd_sdr_stream(enable) PROVE Types'
  <2>1. [pins EXCEPT !.rx_enable = enable, !.lna_enable = enable] \in Pins
    BY DEF Types, TxTyped, Pins
  <2>2. [device_state EXCEPT !.sdr_streaming = enable, !.sdr_rx_enabled = enable]
          \in DeviceState
    BY DEF Types, DeviceState
  <2>3. TxTyped'
    BY <1>7, <2>1 DEF handle_cmd_sdr_stream, Types, TxTyped
  <2> QED BY <1>7, <2>2, <2>3 DEF handle_cmd_sdr_stream, Process, Types
<1>8. ASSUME NEW ant_id \in 0 .. TERMINATED + 1, handle_cmd_ant_select(ant_id)
      PROVE  Types'
  <2>1. antenna' \in NotSelected .. TERMINATED
    BY <1>8, McuAssumption DEF handle_cmd_ant_select, NotSelected
  <2>2. TxTyped'
    BY <1>8 DEF handle_cmd_ant_select, Types, TxTyped
  <2> QED BY <1>8, <2>1, <2>2 DEF handle_cmd_ant_select, Process, Types
<1>9. CASE handle_cmd_nfc_transact
  <2>1. [device_state EXCEPT !.nfc_active = TRUE] \in DeviceState
    BY DEF Types, DeviceState
  <2>2. TxTyped'
    BY <1>9 DEF handle_cmd_nfc_transact, Types, TxTyped
  <2> QED BY <1>9, <2>1, <2>2 DEF handle_cmd_nfc_transact, Process, Types
<1>10. ASSUME NEW len \in ChunkLens, spi_protocol_send_iq_chunk(len) PROVE Types'
  <2>1. TxTyped'
    BY <1>10, LengthsTyped, BeginTyped DEF spi_protocol_send_iq_chunk, Types, Cores
  <2> QED BY <1>10, <2>1 DEF spi_protocol_send_iq_chunk, Types
<1>11. ASSUME NEW why \in {"power", "watchdog", "undervoltage"}, Reset(why)
       PROVE  Types'
  <2>1. scratch7' \in BOOLEAN /\ down' \in BOOLEAN
    BY <1>11 DEF Reset, Types
  <2>2. TxTyped'
    BY <1>11, OffTyped DEF Reset, Types, TxTyped
  <2> QED BY <1>11, <2>1, <2>2 DEF Reset, Types
<1>12. ASSUME NEW w \in Cores, CopyLoad(w) \/ CopyStore(w) \/ Signal(w) PROVE Types'
  <2>1. TxTyped'
    BY <1>12, CopyTyped DEF Types
  <2>2. pc' \in {pc, "brownout"} /\ UNCHANGED <<battVars, device_state, antenna, bootVars>>
    BY <1>12 DEF CopyLoad, CopyStore, Signal
  <2> QED BY <2>1, <2>2 DEF Types
<1>13. CASE UNCHANGED vars
  BY <1>13 DEF vars, Types, TxTyped
<1> QED
  BY <1>1, <1>2, <1>3, <1>4, <1>5, <1>6, <1>7, <1>8, <1>9, <1>10, <1>11, <1>12, <1>13
     DEF Next, Loop

(* Type correctness: the transmit ring's head stays in the ring, even when     *)
(* the two cores race, and the antenna switch only ever gets a valid position. *)
THEOREM Typing == Spec => []TypeOK
<1>1. Init => Types
  <2>1. Init => TxTyped
    <3> SUFFICES ASSUME Init PROVE TxTyped
      OBVIOUS
    <3>1. overlap \in BOOLEAN
      BY Zenon DEF Init
    <3>2. queued \in Seq(Nat)
      BY EmptyTyped DEF Init
    <3> QED BY <3>1, <3>2, OffTyped DEF Init, TxTyped
  <2>2. Init => vbat \in Volts \cup {0} /\ device_state \in DeviceState
                 /\ antenna \in NotSelected .. TERMINATED
    BY OffTyped DEF Init
  <2> QED BY <2>1, <2>2 DEF Init, Types
<1>2. Types /\ [Next]_vars => Types'
  BY StepTyped
<1>3. Types => TypeOK
  BY DEF Types, TypeOK, TxTyped, DeviceState, Pins, Writer
<1> QED BY <1>1, <1>2, <1>3, PTL DEF Spec

(* The same, in the names of this module.                                    *)
LEMMA TypesAlways == Spec => []Types
<1>1. TypeOK => Types
  BY DEF Types, TypeOK, TxTyped, DeviceState, Pins, Writer
<1> QED BY <1>1, Typing, PTL

-----------------------------------------------------------------------------
(* While the board boots neither core is in build_response_frame.            *)
BootIsQuiet == pc = "boot" => writer = [w \in Cores |-> Resting]

(* A reset stops both cores, and nothing starts them before the boot ends.   *)
LEMMA QuietAlways == Spec => []BootIsQuiet
<1>1. Init => BootIsQuiet
  BY DEF Init, BootIsQuiet
<1>2. BootIsQuiet /\ [Next]_vars => BootIsQuiet'
  <2> SUFFICES ASSUME BootIsQuiet, [Next]_vars PROVE BootIsQuiet'
    OBVIOUS
  <2> USE DEF BootIsQuiet, txVars
  <2>1. CASE Boot \/ Loop
    BY <2>1 DEF Boot, Loop, ProcessDone, collect_telemetry, NotDue,
                spi_protocol_send_telemetry, BrownoutCheck
  <2>2. ASSUME NEW enable \in BOOLEAN, handle_cmd_sdr_stream(enable) PROVE BootIsQuiet'
    BY <2>2 DEF handle_cmd_sdr_stream, Process
  <2>3. ASSUME NEW ant_id \in 0 .. TERMINATED + 1, handle_cmd_ant_select(ant_id)
        PROVE  BootIsQuiet'
    BY <2>3 DEF handle_cmd_ant_select, Process
  <2>4. CASE handle_cmd_nfc_transact
    BY <2>4 DEF handle_cmd_nfc_transact, Process
  <2>5. ASSUME NEW len \in ChunkLens, spi_protocol_send_iq_chunk(len) PROVE BootIsQuiet'
    BY <2>5 DEF spi_protocol_send_iq_chunk
  <2>6. ASSUME NEW why \in {"power", "watchdog", "undervoltage"}, Reset(why)
        PROVE  BootIsQuiet'
    BY <2>6 DEF Reset
  <2>7. ASSUME NEW w \in Cores, CopyLoad(w) \/ CopyStore(w) \/ Signal(w)
        PROVE  BootIsQuiet'
    <3>1. writer[w].state # "idle"
      BY <2>7 DEF CopyLoad, CopyStore, Signal
    <3>2. pc # "boot"
      BY <3>1 DEF Resting
    <3>3. pc' \in {pc, "brownout"}
      BY <2>7 DEF CopyLoad, CopyStore, Signal
    <3> QED BY <3>2, <3>3
  <2>8. CASE UNCHANGED vars
    BY <2>8 DEF vars
  <2> QED BY <2>1, <2>2, <2>3, <2>4, <2>5, <2>6, <2>7, <2>8 DEF Next
<1> QED BY <1>1, <1>2, PTL DEF Spec

(* A core that is in build_response_frame runs, and moves the INT_REQ pin only. *)
LEMMA WriterRuns ==
  ASSUME Types, BootIsQuiet, NEW w \in Cores, CopyLoad(w) \/ CopyStore(w) \/ Signal(w)
  PROVE  /\ pc # "boot" /\ pc' # "boot"
         /\ UNCHANGED <<battVars, device_state, antenna, bootVars, tx_tail, overlap>>
         /\ pins'.rx_enable = pins.rx_enable /\ pins'.lna_enable = pins.lna_enable
<1>1. writer[w].state # "idle"
  BY DEF CopyLoad, CopyStore, Signal
<1>2. pc # "boot"
  BY <1>1 DEF Resting, BootIsQuiet
<1>3. pc' \in {pc, "brownout"}
  BY DEF CopyLoad, CopyStore, Signal
<1>4. pins' \in {pins, [pins EXCEPT !.int_req = TRUE]}
  BY DEF CopyLoad, CopyStore, Signal, devVars
<1>5. UNCHANGED <<battVars, device_state, antenna, bootVars, tx_tail, overlap>>
  BY DEF CopyLoad, CopyStore, Signal, devVars
<1> QED BY <1>2, <1>3, <1>4, <1>5 DEF Types, TxTyped, Pins

-----------------------------------------------------------------------------
(* The marker is in the scratch register for as long as the flag is set, and *)
(* through the reset that follows, unless power is cut.                      *)
MarkerInv ==
  /\ pc # "boot" => (brownout_active => scratch7)
  /\ pc = "boot" /\ down => scratch7
  /\ BrownoutResetReported

(* A reset during a brownout is reported by the next boot, whichever call of *)
(* the main loop it interrupts.                                              *)
THEOREM MarkerSurvives == Spec => []BrownoutResetReported
<1>1. Init => MarkerInv
  BY DEF Init, MarkerInv, BrownoutResetReported
<1>2. Types /\ BootIsQuiet /\ MarkerInv /\ [Next]_vars => MarkerInv'
  <2> SUFFICES ASSUME Types, BootIsQuiet, MarkerInv, [Next]_vars PROVE MarkerInv'
    OBVIOUS
  <2> USE DEF MarkerInv, BrownoutResetReported, battVars, bootVars
  <2>1. CASE Boot
    BY <2>1 DEF Boot
  <2>2. CASE BrownoutCheck
    BY <2>2 DEF BrownoutCheck
  <2>3. ASSUME NEW why \in {"power", "watchdog", "undervoltage"}, Reset(why)
        PROVE  MarkerInv'
    BY <2>3 DEF Reset
  <2>4. ASSUME NEW mv \in Volts, collect_telemetry(mv) PROVE MarkerInv'
    BY <2>4 DEF collect_telemetry
  <2>5. CASE ProcessDone \/ NotDue \/ spi_protocol_send_telemetry
    BY <2>5 DEF ProcessDone, NotDue, spi_protocol_send_telemetry
  <2>6. ASSUME NEW enable \in BOOLEAN, handle_cmd_sdr_stream(enable) PROVE MarkerInv'
    BY <2>6 DEF handle_cmd_sdr_stream, Process
  <2>7. ASSUME NEW ant_id \in 0 .. TERMINATED + 1, handle_cmd_ant_select(ant_id)
        PROVE  MarkerInv'
    BY <2>7 DEF handle_cmd_ant_select, Process
  <2>8. CASE handle_cmd_nfc_transact
    BY <2>8 DEF handle_cmd_nfc_transact, Process
  <2>9. ASSUME NEW len \in ChunkLens, spi_protocol_send_iq_chunk(len)
        PROVE  MarkerInv'
    BY <2>9 DEF spi_protocol_send_iq_chunk
  <2>10. ASSUME NEW w \in Cores, CopyLoad(w) \/ CopyStore(w) \/ Signal(w)
         PROVE  MarkerInv'
    BY <2>10, WriterRuns
  <2>11. CASE UNCHANGED vars
    BY <2>11 DEF vars
  <2> QED
    BY <2>1, <2>2, <2>3, <2>4, <2>5, <2>6, <2>7, <2>8, <2>9, <2>10, <2>11 DEF Next, Loop
<1>3. MarkerInv => BrownoutResetReported
  BY DEF MarkerInv
<1> QED BY <1>1, <1>2, <1>3, TypesAlways, QuietAlways, PTL DEF Spec

-----------------------------------------------------------------------------
(* The receive path and the low-noise amplifier are on exactly when the       *)
(* firmware believes and reports that it streams, after any sequence of       *)
(* commands, frames, brownouts and resets.                                   *)
THEOREM RadioFollowsState == Spec => []RadioMatchesState
<1>1. Init => RadioMatchesState
  BY DEF Init, RadioMatchesState
<1>2. Types /\ BootIsQuiet /\ RadioMatchesState /\ [Next]_vars => RadioMatchesState'
  <2> SUFFICES ASSUME Types, BootIsQuiet, RadioMatchesState, [Next]_vars
               PROVE  RadioMatchesState'
    OBVIOUS
  <2> USE DEF RadioMatchesState, devVars
  <2>1. CASE Boot
    BY <2>1 DEF Boot, Off, PinsOff
  <2>2. ASSUME NEW enable \in BOOLEAN, handle_cmd_sdr_stream(enable)
        PROVE  RadioMatchesState'
    BY <2>2 DEF handle_cmd_sdr_stream, Process, Types, DeviceState, TxTyped, Pins
  <2>3. CASE BrownoutCheck
    <3>1. pc # "boot" /\ pins' = pins
      BY <2>3 DEF BrownoutCheck
    <3>2. /\ device_state'.sdr_streaming = device_state.sdr_streaming
          /\ device_state'.sdr_rx_enabled = device_state.sdr_rx_enabled
      BY <2>3 DEF BrownoutCheck, Types, DeviceState
    <3> QED BY <3>1, <3>2
  <2>4. CASE handle_cmd_nfc_transact
    BY <2>4 DEF handle_cmd_nfc_transact, Process, Types, DeviceState
  <2>5. CASE spi_protocol_send_telemetry
    BY <2>5 DEF spi_protocol_send_telemetry
  <2>6. ASSUME NEW len \in ChunkLens, spi_protocol_send_iq_chunk(len)
        PROVE  RadioMatchesState'
    BY <2>6 DEF spi_protocol_send_iq_chunk
  <2>7. ASSUME NEW mv \in Volts, collect_telemetry(mv)
        PROVE  RadioMatchesState'
    BY <2>7 DEF collect_telemetry
  <2>8. CASE ProcessDone \/ NotDue
    BY <2>8 DEF ProcessDone, NotDue
  <2>9. ASSUME NEW ant_id \in 0 .. TERMINATED + 1, handle_cmd_ant_select(ant_id)
        PROVE  RadioMatchesState'
    BY <2>9 DEF handle_cmd_ant_select, Process
  <2>10. ASSUME NEW why \in {"power", "watchdog", "undervoltage"}, Reset(why)
         PROVE  RadioMatchesState'
    BY <2>10 DEF Reset
  <2>11. ASSUME NEW w \in Cores, CopyLoad(w) \/ CopyStore(w) \/ Signal(w)
         PROVE  RadioMatchesState'
    BY <2>11, WriterRuns
  <2>12. CASE UNCHANGED vars
    BY <2>12 DEF vars
  <2> QED
    BY <2>1, <2>2, <2>3, <2>4, <2>5, <2>6, <2>7, <2>8, <2>9, <2>10, <2>11, <2>12
       DEF Next, Loop
<1> QED BY <1>1, <1>2, TypesAlways, QuietAlways, PTL DEF Spec

-----------------------------------------------------------------------------
(* Every non-empty set of natural numbers has a least element.               *)
LEMMA LeastNat ==
  ASSUME NEW T \in SUBSET Nat, T # {}
  PROVE  \E n \in T : \A m \in T : n <= m
<1> DEFINE R == {ss \in Nat \X Nat : ss[1] < ss[2]}
<1>1. IsWellFoundedOn(R, Nat)
  BY NatLessThanWellFounded DEF OpToRel
<1> HIDE DEF R
<1>2. PICK n \in T : \A m \in T : <<m, n>> \notin R
  BY <1>1, WFMin
<1>3. ASSUME NEW m \in T, m < n PROVE FALSE
  <2>1. <<m, n>> \in R
    BY <1>3 DEF R
  <2> QED BY <1>2, <2>1
<1>4. \A m \in T : n <= m
  BY <1>3
<1> QED BY <1>4

(* Induction over the natural numbers, for a set of them.                    *)
LEMMA NatInduct ==
  ASSUME NEW S \in SUBSET Nat, 0 \in S, \A n \in S : n + 1 \in S
  PROVE  S = Nat
<1> SUFFICES ASSUME Nat \ S # {} PROVE FALSE
  OBVIOUS
<1>1. PICK n \in Nat \ S : \A m \in Nat \ S : n <= m
  BY LeastNat
<1>2. n - 1 \in S
  BY <1>1
<1> QED BY <1>1, <1>2

(* f sums the lengths of the first n frames of s, as the function inside      *)
(* QueuedCells does.                                                         *)
Summed(s, n, f) ==
  f = [k \in 0 .. n |-> IF k = 0 THEN 0 ELSE f[k - 1] + Cells(s[k])]

(* There is such a function for every n: the recursion is well defined.      *)
LEMMA SumExists ==
  ASSUME NEW s
  PROVE  \A n \in Nat : \E f : Summed(s, n, f)
<1> DEFINE S == {n \in Nat : \E f : Summed(s, n, f)}
<1>1. 0 \in S
  <2>1. Summed(s, 0, [k \in 0 .. 0 |-> 0])
    BY DEF Summed
  <2> QED BY <2>1
<1>2. ASSUME NEW n \in S PROVE n + 1 \in S
  <2>1. PICK f : Summed(s, n, f)
    OBVIOUS
  <2> DEFINE g == [k \in 0 .. n + 1 |->
                     IF k = n + 1 THEN f[n] + Cells(s[n + 1]) ELSE f[k]]
  <2>2. \A k \in 0 .. n : g[k] = f[k]
    OBVIOUS
  <2>3. ASSUME NEW k \in 0 .. n + 1
        PROVE  g[k] = IF k = 0 THEN 0 ELSE g[k - 1] + Cells(s[k])
    <3>1. CASE k = 0
      BY <2>1, <3>1 DEF Summed
    <3>2. CASE k \in 1 .. n
      BY <2>1, <3>2 DEF Summed
    <3>3. CASE k = n + 1
      BY <3>3
    <3> QED BY <3>1, <3>2, <3>3
  <2>4. g = [k \in 0 .. n + 1 |->
               IF k = 0 THEN 0 ELSE g[k - 1] + Cells(s[k])]
    BY <2>3
  <2>5. Summed(s, n + 1, g)
    BY <2>4 DEF Summed
  <2> QED BY <2>5
<1>3. S = Nat
  BY <1>1, <1>2, NatInduct
<1> QED BY <1>3

(* QueuedCells is the last value of that function.                           *)
LEMMA QueuedIs ==
  ASSUME NEW s, Len(s) \in Nat
  PROVE  \E f : Summed(s, Len(s), f) /\ QueuedCells(s) = f[Len(s)]
<1>1. \E f : Summed(s, Len(s), f)
  BY SumExists
<1> DEFINE Sum == CHOOSE f : Summed(s, Len(s), f)
<1>2. Summed(s, Len(s), Sum)
  BY <1>1
<1>3. QueuedCells(s) = Sum[Len(s)]
  BY DEF QueuedCells, Summed
<1> QED BY <1>2, <1>3

(* Two such functions agree where their sequences do.                        *)
LEMMA SumUnique ==
  ASSUME NEW s, NEW t, NEW m \in Nat, NEW n \in Nat, m <= n, NEW f, NEW g,
         Summed(s, m, f), Summed(t, n, g), \A k \in 1 .. m : s[k] = t[k]
  PROVE  \A k \in 0 .. m : f[k] = g[k]
<1> DEFINE S == {k \in Nat : k <= m => f[k] = g[k]}
<1>1. 0 \in S
  BY DEF Summed
<1>2. ASSUME NEW k \in S PROVE k + 1 \in S
  <2>1. CASE k + 1 <= m
    <3>1. f[k + 1] = f[k] + Cells(s[k + 1])
      BY <2>1 DEF Summed
    <3>2. g[k + 1] = g[k] + Cells(t[k + 1])
      BY <2>1 DEF Summed
    <3> QED BY <2>1, <3>1, <3>2
  <2>2. CASE ~(k + 1 <= m)
    BY <2>2
  <2> QED BY <2>1, <2>2
<1>3. S = Nat
  BY <1>1, <1>2, NatInduct
<1> QED BY <1>3

(* A frame that is appended adds its own length and nothing else.            *)
LEMMA QueuedAppend ==
  ASSUME NEW s \in Seq(Nat), NEW e \in Nat
  PROVE  QueuedCells(Append(s, e)) = QueuedCells(s) + Cells(e)
<1> DEFINE t == Append(s, e)
           n == Len(s)
<1>1. n \in Nat /\ Len(t) = n + 1 /\ t[n + 1] = e /\ \A k \in 1 .. n : t[k] = s[k]
  OBVIOUS
<1>2. PICK f : Summed(s, n, f) /\ QueuedCells(s) = f[n]
  BY <1>1, QueuedIs
<1> HIDE DEF t
<1>3. PICK g : Summed(t, n + 1, g) /\ QueuedCells(t) = g[n + 1]
  BY <1>1, QueuedIs
<1> HIDE DEF n
<1>4. f[n] = g[n]
  <2>1. \A k \in 0 .. n : f[k] = g[k]
    BY <1>1, <1>2, <1>3, SumUnique
  <2> QED BY <1>1, <2>1
<1>5. g[n + 1] = g[n] + Cells(e)
  BY <1>1, <1>3 DEF Summed
<1> QED BY <1>2, <1>3, <1>4, <1>5 DEF t

(* No frame, no cells.                                                       *)
LEMMA QueuedEmpty == QueuedCells(<< >>) = 0
<1>1. PICK f : Summed(<< >>, 0, f) /\ QueuedCells(<< >>) = f[0]
  BY QueuedIs
<1> QED BY <1>1 DEF Summed

(* One writer of the ring: what it has announced fits, and how far it is.    *)
Progress(w) ==
  /\ writer[w].state = "idle" => writer[w].done = 0
  /\ writer[w].state # "idle" =>
       QueuedCells(queued) + Cells(writer[w].len) <= TX_RING_SIZE - 1
  /\ writer[w].state \in {"copy", "store"} => writer[w].done < Cells(writer[w].len)
  /\ writer[w].state = "signal" => writer[w].done = Cells(writer[w].len)
  /\ writer[w].state = "store" => writer[w].reg = tx_head

(* Nothing advances tx_tail, so the head is where the frames and the copied    *)
(* part of one end: it has not wrapped, because a frame is accepted only when *)
(* all of it fits, and no other is begun before it is complete.              *)
Exact(w, o) ==
  /\ QueuedCells(queued) \in Nat
  /\ tx_head = QueuedCells(queued) + writer[w].done + writer[o].done
  /\ pins.int_req <=> queued # << >>
  /\ writer[w].state = "idle" \/ writer[o].state = "idle"
  /\ Progress(w) /\ Progress(o)

RingInv ==
  /\ tx_tail = 0
  /\ pc # "boot" /\ ~overlap => Exact("main", "core1")

(* The two writers are interchangeable.                                      *)
LEMMA ExactSwaps ==
  ASSUME Types, NEW w \in Cores, NEW o \in Cores
  PROVE  Exact(w, o) <=> Exact(o, w)
<1>1. writer[w].done \in Nat /\ writer[o].done \in Nat
  BY DEF Types, TxTyped, Writer
<1>2. ASSUME QueuedCells(queued) \in Nat
      PROVE  QueuedCells(queued) + writer[w].done + writer[o].done
               = QueuedCells(queued) + writer[o].done + writer[w].done
  BY <1>1, <1>2
<1> QED BY <1>2 DEF Exact

(* The same, in the next state.                                              *)
LEMMA Swapped ==
  ASSUME Types'
  PROVE  Exact("main", "core1")' <=> Exact("core1", "main")'
<1>1. writer'["main"].done \in Nat /\ writer'["core1"].done \in Nat
  BY DEF Types, TxTyped, Writer, Cores
<1>2. ASSUME QueuedCells(queued') \in Nat
      PROVE  QueuedCells(queued') + writer'["main"].done + writer'["core1"].done
               = QueuedCells(queued') + writer'["core1"].done + writer'["main"].done
  BY <1>1, <1>2
<1> QED BY <1>2 DEF Exact

(* A number below the modulus is its own remainder.                          *)
LEMMA ModSmall ==
  ASSUME NEW n \in Nat \ {0}, NEW x \in 0 .. n - 1
  PROVE  x % n = x
  OBVIOUS

(* A frame that is taken fits behind the others.                             *)
LEMMA BeginExact ==
  ASSUME Types, tx_tail = 0, NEW w \in Cores, NEW o \in Cores, Cores = {w, o}, w # o,
         ~overlap => Exact(w, o), NEW len \in Nat, BuildBegin(w, len),
         UNCHANGED <<tx_head, tx_tail, queued, pins>>, ~overlap'
  PROVE  Exact(w, o)'
<1> USE DEF Types, TxTyped
<1>1. writer[w].state = "idle" /\ ~overlap /\ Exact(w, o)
  BY DEF BuildBegin
<1>2. CASE ~Room(len)
  BY <1>1, <1>2 DEF BuildBegin, Exact, Progress
<1>3. CASE Room(len)
  <2>1. /\ writer' = [writer EXCEPT ![w].state = "copy", ![w].len = len]
        /\ writer[o].state = "idle"
    BY <1>3 DEF BuildBegin
  <2>2. /\ writer'[o] = writer[o] /\ writer'[w].state = "copy" /\ writer'[w].len = len
        /\ writer'[w].done = writer[w].done
    BY <2>1 DEF Writer
  <2>3. writer[w].done = 0 /\ writer[o].done = 0 /\ tx_head = QueuedCells(queued)
    BY <1>1, <2>1 DEF Exact, Progress
  <2>4. Used = tx_head
    BY McuAssumption DEF Used
  <2>5. QueuedCells(queued) + Cells(len) <= TX_RING_SIZE - 1
    BY <1>1, <1>3, <2>3, <2>4, McuAssumption DEF Room, Cells, Exact
  <2>6. 0 < Cells(len)
    BY McuAssumption DEF Cells
  <2>7. Progress(w)'
    BY <2>2, <2>3, <2>5, <2>6 DEF Progress
  <2>8. Progress(o)'
    BY <1>1, <2>1, <2>2 DEF Exact, Progress
  <2> QED BY <1>1, <2>1, <2>2, <2>7, <2>8 DEF Exact
<1> QED BY <1>2, <1>3

(* The copy loop of one writer while the other is idle.                      *)
LEMMA CopyExact ==
  ASSUME Types, NEW w \in Cores, NEW o \in Cores, w # o, Exact(w, o),
         CopyLoad(w) \/ CopyStore(w) \/ Signal(w)
  PROVE  Exact(w, o)'
<1> USE DEF Types, TxTyped
<1>0. writer[w].state # "idle" /\ writer[o].state = "idle"
  BY DEF CopyLoad, CopyStore, Signal, Exact
<1>1. /\ writer[w] \in Writer /\ writer[o].done = 0 /\ QueuedCells(queued) \in Nat
      /\ tx_head = QueuedCells(queued) + writer[w].done
      /\ writer[w].done \in Nat /\ writer[w].len \in Nat
  BY <1>0 DEF Exact, Progress, Writer
<1>2. CASE CopyLoad(w)
  <2>1. writer' = [writer EXCEPT ![w].state = "store", ![w].reg = tx_head]
        /\ writer[w].state = "copy" /\ UNCHANGED <<tx_head, queued, pins>>
    BY <1>2 DEF CopyLoad, devVars
  <2>2. /\ writer'[o] = writer[o] /\ writer'[w].state = "store"
        /\ writer'[w].len = writer[w].len /\ writer'[w].done = writer[w].done
        /\ writer'[w].reg = tx_head
    BY <2>1 DEF Writer
  <2>3. Progress(w)' /\ Progress(o)'
    BY <1>0, <2>1, <2>2 DEF Exact, Progress
  <2> QED BY <1>0, <2>1, <2>2, <2>3 DEF Exact
<1>3. CASE CopyStore(w)
  <2> DEFINE st == IF writer[w].done + 1 < Cells(writer[w].len) THEN "copy" ELSE "signal"
  <2>1. /\ writer[w].state = "store" /\ tx_head' = (writer[w].reg + 1) % TX_RING_SIZE
        /\ writer' = [writer EXCEPT ![w].done = @ + 1, ![w].reg = 0, ![w].state = st]
        /\ UNCHANGED <<queued, pins>>
    BY <1>3 DEF CopyStore, devVars
  <2>2. st \in {"copy", "signal"}
    OBVIOUS
  <2>3. /\ writer[w].reg = tx_head /\ writer[w].done < Cells(writer[w].len)
        /\ QueuedCells(queued) + Cells(writer[w].len) <= TX_RING_SIZE - 1
    BY <2>1 DEF Exact, Progress
  <2>4. Cells(writer[w].len) \in Nat
    BY <1>1, McuAssumption DEF Cells
  <2>5. tx_head + 1 \in 0 .. TX_RING_SIZE - 1
    BY <1>1, <2>3, <2>4, McuAssumption
  <2>6. tx_head' = tx_head + 1
    BY <2>1, <2>3, <2>5, ModSmall, McuAssumption
  <2>7. /\ st = "copy" => writer[w].done + 1 < Cells(writer[w].len)
        /\ st = "signal" => writer[w].done + 1 = Cells(writer[w].len)
    BY <1>1, <2>3, <2>4
  <2> HIDE DEF st
  <2>8. /\ writer'[o] = writer[o] /\ writer'[w].state = st
        /\ writer'[w].len = writer[w].len /\ writer'[w].done = writer[w].done + 1
    BY <1>1, <2>1 DEF Writer
  <2>9. Progress(w)'
    BY <2>1, <2>2, <2>3, <2>7, <2>8 DEF Progress
  <2>10. Progress(o)'
    BY <1>0, <1>1, <2>8 DEF Progress
  <2>11. tx_head' = QueuedCells(queued) + writer'[w].done + writer'[o].done
    BY <1>1, <2>6, <2>8
  <2> QED BY <1>0, <1>1, <2>1, <2>8, <2>9, <2>10, <2>11 DEF Exact
<1>4. CASE Signal(w)
  <2>1. /\ writer[w].state = "signal" /\ pins' = [pins EXCEPT !.int_req = TRUE]
        /\ queued' = Append(queued, writer[w].len)
        /\ writer' = [writer EXCEPT ![w] = Resting] /\ UNCHANGED tx_head
    BY <1>4 DEF Signal
  <2>2. writer'[o] = writer[o] /\ writer'[w] = Resting
    BY <2>1
  <2>3. writer'[w].done = 0 /\ writer'[w].state = "idle"
    BY <2>2 DEF Resting
  <2>4. QueuedCells(queued') = QueuedCells(queued) + Cells(writer[w].len)
    BY <1>1, <2>1, QueuedAppend
  <2>5. writer[w].done = Cells(writer[w].len)
    BY <2>1 DEF Exact, Progress
  <2>6. /\ QueuedCells(queued') \in Nat
        /\ tx_head' = QueuedCells(queued') + writer'[w].done + writer'[o].done
    BY <1>1, <2>1, <2>2, <2>3, <2>4, <2>5
  <2>7. pins'.int_req = TRUE /\ queued' # << >>
    BY <1>1, <2>1 DEF Pins
  <2>8. Progress(w)' /\ Progress(o)'
    BY <1>0, <1>1, <2>2, <2>3 DEF Progress
  <2> QED BY <2>3, <2>6, <2>7, <2>8 DEF Exact
<1> QED BY <1>2, <1>3, <1>4

(* As long as the two cores have not been in build_response_frame at once,     *)
(* the transmit ring holds exactly the frames that were accepted, whole, and   *)
(* the copied part of the one in progress, and INT_REQ is asserted exactly     *)
(* when there is a whole one, for every ring size and all frame lengths.     *)
THEOREM RingHolds == Spec => []RingHoldsFrames
<1>1. Init => RingInv
  BY DEF Init, RingInv
<1>2. Types /\ BootIsQuiet /\ RingInv /\ [Next]_vars => RingInv'
  <2> SUFFICES ASSUME Types, BootIsQuiet, RingInv, [Next]_vars PROVE RingInv'
    OBVIOUS
  <2> USE DEF txVars, devVars
  <2>1. CASE Boot
    <3>1. writer' = [w \in Cores |-> Resting] /\ tx_head' = 0 /\ tx_tail' = 0
          /\ queued' = << >> /\ pins' = PinsOff
      BY <2>1 DEF Boot, BootIsQuiet
    <3>2. QueuedCells(queued') = 0
      BY <3>1, QueuedEmpty
    <3>3. writer'["main"] = Resting /\ writer'["core1"] = Resting
      BY <3>1 DEF Cores
    <3>4. Progress("main")' /\ Progress("core1")'
      BY <3>3 DEF Progress, Resting
    <3>5. Exact("main", "core1")'
      BY <3>1, <3>2, <3>3, <3>4 DEF Exact, Resting, PinsOff
    <3> QED BY <3>1, <3>5 DEF RingInv
  <2>2. CASE spi_protocol_send_telemetry
    <3>1. BuildBegin("main", TELEM_SIZE) /\ UNCHANGED <<tx_head, tx_tail, queued, pins>>
          /\ pc # "boot"
      BY <2>2 DEF spi_protocol_send_telemetry
    <3>2. ~overlap' => Exact("main", "core1")'
      BY <3>1, BeginExact, LengthsTyped DEF RingInv, Cores
    <3> QED BY <3>1, <3>2 DEF RingInv
  <2>3. ASSUME NEW len \in ChunkLens, spi_protocol_send_iq_chunk(len)
        PROVE  RingInv'
    <3> DEFINE n == IF len > SPI_MAX_PAYLOAD THEN SPI_MAX_PAYLOAD ELSE len
    <3>1. BuildBegin("core1", n) /\ UNCHANGED <<tx_head, tx_tail, queued, pins>>
          /\ pc # "boot"
      BY <2>3 DEF spi_protocol_send_iq_chunk
    <3>2. n \in Nat
      BY LengthsTyped
    <3> HIDE DEF n
    <3>3. ~overlap => Exact("core1", "main")
      BY <3>1, ExactSwaps DEF RingInv, Cores
    <3>4. ~overlap' => Exact("core1", "main")'
      BY <3>1, <3>2, <3>3, BeginExact DEF RingInv, Cores
    <3>5. Types'
      BY StepTyped
    <3>6. Exact("main", "core1")' <=> Exact("core1", "main")'
      BY <3>5, Swapped
    <3> QED BY <3>1, <3>4, <3>6 DEF RingInv
  <2>4. ASSUME NEW enable \in BOOLEAN, handle_cmd_sdr_stream(enable)
        PROVE  RingInv'
    <3>1. /\ pins' = [pins EXCEPT !.rx_enable = enable, !.lna_enable = enable]
          /\ UNCHANGED txVars /\ pc # "boot"
      BY <2>4 DEF handle_cmd_sdr_stream, Process
    <3>2. pins'.int_req = pins.int_req
      BY <3>1 DEF Types, TxTyped, Pins
    <3> QED BY <3>1, <3>2 DEF RingInv, Exact, Progress
  <2>5. CASE BrownoutCheck \/ handle_cmd_nfc_transact \/ ProcessDone \/ NotDue
    <3>1. UNCHANGED <<txVars, pins>> /\ pc # "boot"
      BY <2>5 DEF BrownoutCheck, handle_cmd_nfc_transact, Process, ProcessDone, NotDue
    <3> QED BY <3>1 DEF RingInv, Exact, Progress
  <2>6. ASSUME NEW mv \in Volts, collect_telemetry(mv) PROVE RingInv'
    BY <2>6 DEF collect_telemetry, RingInv, Exact, Progress
  <2>7. ASSUME NEW ant_id \in 0 .. TERMINATED + 1, handle_cmd_ant_select(ant_id)
        PROVE  RingInv'
    BY <2>7 DEF handle_cmd_ant_select, Process, RingInv, Exact, Progress
  <2>8. ASSUME NEW why \in {"power", "watchdog", "undervoltage"}, Reset(why)
        PROVE  RingInv'
    BY <2>8 DEF Reset, RingInv
  <2>9. ASSUME NEW w \in Cores, CopyLoad(w) \/ CopyStore(w) \/ Signal(w)
        PROVE  RingInv'
    <3>1. pc # "boot" /\ UNCHANGED <<tx_tail, overlap>>
      BY <2>9, WriterRuns
    <3>2. CASE w = "main"
      <4>1. ~overlap => Exact("main", "core1")'
        BY <2>9, <3>1, <3>2, CopyExact DEF RingInv, Cores
      <4> QED BY <3>1, <4>1 DEF RingInv
    <3>3. CASE w = "core1"
      <4>1. ~overlap => Exact("core1", "main")
        BY <3>1, ExactSwaps DEF RingInv, Cores
      <4>2. ~overlap => Exact("core1", "main")'
        BY <2>9, <3>3, <4>1, CopyExact DEF Cores
      <4>3. Types'
        BY StepTyped
      <4>4. Exact("main", "core1")' <=> Exact("core1", "main")'
        BY <4>3, Swapped
      <4> QED BY <3>1, <4>2, <4>4 DEF RingInv
    <3> QED BY <3>2, <3>3 DEF Cores
  <2>10. CASE UNCHANGED vars
    BY <2>10 DEF vars, RingInv, Exact, Progress
  <2> QED
    BY <2>1, <2>2, <2>3, <2>4, <2>5, <2>6, <2>7, <2>8, <2>9, <2>10 DEF Next, Loop
<1>3. Types /\ RingInv => RingHoldsFrames
  <2> SUFFICES ASSUME Types, RingInv, pc # "boot", ~overlap
               PROVE  /\ Used = QueuedCells(queued) + writer["main"].done
                                 + writer["core1"].done
                      /\ pins.int_req <=> queued # << >>
    BY DEF RingHoldsFrames
  <2>1. tx_head \in 0 .. TX_RING_SIZE - 1
    BY DEF Types, TxTyped
  <2>2. Used = tx_head
    BY <2>1, McuAssumption DEF Used, RingInv
  <2> QED BY <2>2 DEF RingInv, Exact
<1> QED BY <1>1, <1>2, <1>3, TypesAlways, QuietAlways, PTL DEF Spec
=============================================================================
