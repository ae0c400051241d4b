---------------------------- MODULE DriverProofs -----------------------------
(***************************************************************************)
(* Proofs about the parts of the firmware that share no state, one section  *)
(* each: the NFC reader, the power sequencing, the CC1101 radio, the battery *)
(* monitor, the SDR synthesiser, the battery calibration, the SPI0 receive  *)
(* ring and the sleep state machine.                                       *)
(***************************************************************************)
EXTENDS RxRing, SleepWake, PeripheralPower, Cc1101, St25r3916, AdcCalibration,
        BatteryMonitor, Lms7002m, SequenceTheorems, TLAPS

-----------------------------------------------------------------------------
(* The NFC reader.                                                          *)
NfcSpec == NfcInit /\ [][NfcNext]_nfcVars

(* A flag that is set, or was read, during a call was set during that call.  *)
FlagsAreFresh ==
  /\ nfc_pc # "out" /\ "RXE" \in nfc_irq => nfc_answered
  /\ nfc_pc \in {"poll3", "verdict"} /\ "RXE" \in nfc_seen => nfc_answered

(* The transmitter is off after every call that ends an exchange, on each of *)
(* its exits (FieldOffAfterExchange).                                       *)
THEOREM FieldIsSwitchedOff == NfcSpec => []FieldOffAfterExchange
<1>1. NfcInit => FieldOffAfterExchange
  BY DEF NfcInit, FieldOffAfterExchange
<1>2. FieldOffAfterExchange /\ [NfcNext]_nfcVars => FieldOffAfterExchange'
  <2> SUFFICES ASSUME FieldOffAfterExchange, [NfcNext]_nfcVars PROVE FieldOffAfterExchange'
    OBVIOUS
  <2> USE DEF FieldOffAfterExchange
  <2>1. ASSUME NEW n, NEW flags, TagAnswers(n, flags) PROVE FieldOffAfterExchange'
    BY <2>1 DEF TagAnswers
  <2>2. ASSUME NEW rc, st25r3916_init(rc) PROVE FieldOffAfterExchange'
    BY <2>2 DEF st25r3916_init, NfcReturn
  <2>3. CASE st25r3916_field_on \/ st25r3916_start_polling
    BY <2>3 DEF st25r3916_field_on, st25r3916_start_polling, NfcSwitch, NfcReturn
  <2>4. CASE st25r3916_field_off \/ st25r3916_sleep \/ st25r3916_stop_polling
    BY <2>4 DEF st25r3916_field_off, st25r3916_sleep, st25r3916_stop_polling, NfcSwitch
  <2>5. CASE st25r3916_get_field_strength_mv \/ st25r3916_measure_vdd
    BY <2>5 DEF st25r3916_get_field_strength_mv, st25r3916_measure_vdd, NfcSwitch, NfcReturn
  <2>6. CASE \/ ReqaBegin \/ (\E len \in NfcBufSizes : TransactBegin(len))
             \/ ReqaTransmit \/ TransactTransmit
    BY <2>6 DEF ReqaBegin, TransactBegin, ReqaTransmit, TransactTransmit
  <2>7. CASE ReqaEnd \/ TransactRefused
    BY <2>7 DEF ReqaEnd, TransactRefused, NfcReturn
  <2>8. CASE PollIrq1 \/ PollIrq3 \/ PollTimeout \/ TransactClear
    BY <2>8 DEF PollIrq1, PollIrq3, PollTimeout, TransactClear
  <2>9. CASE PollCrcError \/ TransactNoResponse \/ TransactDone
    BY <2>9 DEF PollCrcError, TransactNoResponse, TransactDone
  <2>10. CASE UNCHANGED nfcVars
    BY <2>10 DEF nfcVars, nfcChip
  <2> QED
    BY <2>1, <2>2, <2>3, <2>4, <2>5, <2>6, <2>7, <2>8, <2>9, <2>10 DEF NfcNext
<1> QED BY <1>1, <1>2, PTL DEF NfcSpec

(* A success of transact or reqa reports an answer that ended during the     *)
(* call: the flags are cleared when a call begins, so no earlier call leaves *)
(* one behind (AnswerIsOfThisCall).                                         *)
THEOREM AnswersAreOfThisCall == NfcSpec => []AnswerIsOfThisCall
<1> DEFINE Inv == AnswerIsOfThisCall /\ FlagsAreFresh
<1>1. NfcInit => Inv
  BY DEF NfcInit, AnswerIsOfThisCall, FlagsAreFresh
<1>2. Inv /\ [NfcNext]_nfcVars => Inv'
  <2> SUFFICES ASSUME Inv, [NfcNext]_nfcVars PROVE Inv'
    OBVIOUS
  <2> USE DEF AnswerIsOfThisCall, FlagsAreFresh
  <2>1. ASSUME NEW n, NEW flags, TagAnswers(n, flags) PROVE Inv'
    BY <2>1 DEF TagAnswers
  <2>2. ASSUME NEW rc, st25r3916_init(rc) PROVE Inv'
    BY <2>2 DEF st25r3916_init, NfcReturn
  <2>3. CASE \/ st25r3916_field_on \/ st25r3916_start_polling \/ st25r3916_field_off
             \/ st25r3916_sleep \/ st25r3916_stop_polling
             \/ st25r3916_get_field_strength_mv \/ st25r3916_measure_vdd
    <3>1. /\ nfc_pc' = "out"
          /\ nfc_last'.call \notin {"transact", "reqa"}
      BY <2>3 DEF st25r3916_field_on, st25r3916_start_polling, st25r3916_field_off,
                  st25r3916_sleep, st25r3916_stop_polling, st25r3916_get_field_strength_mv,
                  st25r3916_measure_vdd, NfcSwitch, NfcReturn
    <3> QED BY <3>1
  <2>4. CASE ReqaBegin \/ ReqaTransmit \/ TransactTransmit
    BY <2>4 DEF ReqaBegin, ReqaTransmit, TransactTransmit
  <2>5. CASE \E len \in NfcBufSizes : TransactBegin(len)
    BY <2>5 DEF TransactBegin
  <2>6. CASE ReqaEnd
    <3>1. nfc_pc = "reqa" /\ nfc_pc' = "out" /\ nfc_answered' = nfc_answered
          /\ nfc_last' = [call |-> "reqa", rc |-> IF "RXE" \in nfc_irq THEN 0 ELSE -1]
      BY <2>6 DEF ReqaEnd, NfcReturn
    <3>2. nfc_last'.rc = 0 => "RXE" \in nfc_irq
      BY <3>1
    <3> QED BY <3>1, <3>2
  <2>7. CASE TransactRefused
    BY <2>7 DEF TransactRefused, NfcReturn
  <2>8. CASE PollIrq1
    BY <2>8 DEF PollIrq1
  <2>9. CASE PollIrq3
    BY <2>9 DEF PollIrq3
  <2>10. CASE PollCrcError
    BY <2>10 DEF PollCrcError, NfcReturn
  <2>11. CASE PollTimeout
    BY <2>11 DEF PollTimeout, nfcChip
  <2>12. CASE TransactClear
    BY <2>12 DEF TransactClear
  <2>13. CASE TransactNoResponse
    BY <2>13 DEF TransactNoResponse, NfcReturn
  <2>14. CASE TransactDone
    BY <2>14 DEF TransactDone, NfcReturn
  <2>15. CASE UNCHANGED nfcVars
    BY <2>15 DEF nfcVars, nfcChip
  <2> QED
    BY <2>1, <2>2, <2>3, <2>4, <2>5, <2>6, <2>7, <2>8, <2>9, <2>10, <2>11, <2>12, <2>13,
       <2>14, <2>15 DEF NfcNext
<1>3. Inv => AnswerIsOfThisCall
  OBVIOUS
<1> QED BY <1>1, <1>2, <1>3, PTL DEF NfcSpec

-----------------------------------------------------------------------------
(* The supply rails.                                                        *)
NumRails == Len(PowerRails)

(* There is at least one rail.                                              *)
LEMMA RailCount == NumRails \in Nat /\ NumRails > 0 /\ RailIds = 1 .. NumRails
  BY PowerAssumption DEF NumRails, RailIds

PowerTyped ==
  /\ rail_state \in [RailIds -> {"OFF", "RAMPING", "STABLE"}]
  /\ rail_pin \in [RailIds -> BOOLEAN]
  /\ power_todo \in Seq(RailIds)
  /\ power_call \in {"none", "on", "off", "on_sequence", "off_sequence"}

(* A pin is high just when its rail is not off, and only the rail that a call *)
(* is switching on ramps.                                                   *)
PinsFollow == \A i \in RailIds : rail_pin[i] <=> rail_state[i] # "OFF"
RampsInCall ==
  \A i \in RailIds : rail_state[i] = "RAMPING" =>
    power_call \in {"on", "on_sequence"} /\ power_todo # << >> /\ i = Head(power_todo)

(* What a sequence has still to do is the end of its order, and what it has   *)
(* done is on, or off.                                                      *)
OnSequence ==
  power_call = "on_sequence" =>
    /\ Len(power_todo) <= NumRails
    /\ \A m \in 1 .. Len(power_todo) : power_todo[m] = NumRails - Len(power_todo) + m
    /\ \A i \in 1 .. NumRails - Len(power_todo) : rail_state[i] = "STABLE"
OffSequence ==
  power_call = "off_sequence" =>
    /\ Len(power_todo) <= NumRails
    /\ \A m \in 1 .. Len(power_todo) : power_todo[m] = Len(power_todo) - m + 1
    /\ \A i \in Len(power_todo) + 1 .. NumRails : rail_state[i] = "OFF"

PowerInv ==
  /\ PowerTyped /\ RampsInCall /\ OnSequence /\ OffSequence
  /\ power_ready => PinsFollow
  /\ power_call # "none" => power_ready
  /\ power_call = "none" => power_todo = << >>

(* Orders of the two sequences.                                             *)
LEMMA Orders ==
  /\ OnOrder \in Seq(RailIds) /\ Len(OnOrder) = NumRails
  /\ \A m \in 1 .. NumRails : OnOrder[m] = m
  /\ OffOrder \in Seq(RailIds) /\ Len(OffOrder) = NumRails
  /\ \A m \in 1 .. NumRails : OffOrder[m] = NumRails - m + 1
<1>1. OnOrder \in [1 .. NumRails -> RailIds] /\ \A m \in 1 .. NumRails : OnOrder[m] = m
  BY RailCount DEF OnOrder
<1>2. OnOrder \in Seq(RailIds) /\ Len(OnOrder) = NumRails
  BY <1>1, RailCount
<1>3. OffOrder = [m \in 1 .. NumRails |-> OnOrder[(NumRails - m) + 1]]
  BY <1>2 DEF OffOrder, Reverse
<1>4. \A m \in 1 .. NumRails : OffOrder[m] = NumRails - m + 1
  BY <1>1, <1>3, RailCount
<1>5. OffOrder \in [1 .. NumRails -> RailIds]
  BY <1>1, <1>3, RailCount
<1>6. OffOrder \in Seq(RailIds) /\ Len(OffOrder) = NumRails
  BY <1>5, RailCount
<1> QED BY <1>1, <1>2, <1>4, <1>6

(* A call that begins.                                                      *)
LEMMA CallBegins ==
  ASSUME PowerInv, NEW name \in {"on", "off", "on_sequence", "off_sequence"},
         NEW rails \in Seq(RailIds), PowerCall(name, rails),
         name = "on_sequence" => rails = OnOrder,
         name = "off_sequence" => rails = OffOrder
  PROVE  PowerInv'
<1>1. UNCHANGED <<rail_state, rail_pin, power_ready>> /\ power_call = "none"
  BY DEF PowerCall
<1>2. CASE UNCHANGED <<power_call, power_todo>>
  BY <1>1, <1>2 DEF PowerInv, PowerTyped, PinsFollow, RampsInCall, OnSequence, OffSequence
<1>3. CASE power_ready /\ power_call' = name /\ power_todo' = rails
  <2>1. PowerTyped' /\ PinsFollow' /\ power_ready'
    BY <1>1, <1>3 DEF PowerInv, PowerTyped, PinsFollow
  <2>2. RampsInCall'
    BY <1>1, <1>3 DEF PowerInv, RampsInCall
  <2>3. OnSequence'
    <3>1. power_call' = "on_sequence" => power_todo' = OnOrder
      BY <1>3
    <3>2. power_call' = "on_sequence" => Len(power_todo') = NumRails
      BY <3>1, Orders
    <3>3. power_call' = "on_sequence" => \A m \in 1 .. NumRails : power_todo'[m] = m
      BY <3>1, Orders
    <3> QED BY <3>2, <3>3, RailCount DEF OnSequence
  <2>4. OffSequence'
    BY <1>3, Orders, RailCount DEF OffSequence
  <2>5. power_call' # "none"
    BY <1>3
  <2> QED BY <2>1, <2>2, <2>3, <2>4, <2>5 DEF PowerInv
<1> QED BY <1>2, <1>3 DEF PowerCall

(* What is left to do after one rail.                                       *)
LEMMA RestOfTodo ==
  ASSUME PowerTyped, power_todo # << >>
  PROVE  /\ Head(power_todo) \in RailIds /\ Head(power_todo) = power_todo[1]
         /\ Tail(power_todo) \in Seq(RailIds) /\ Len(power_todo) \in Nat
         /\ Len(power_todo) > 0 /\ Len(Tail(power_todo)) = Len(power_todo) - 1
         /\ \A m \in 1 .. Len(power_todo) - 1 : Tail(power_todo)[m] = power_todo[m + 1]
  BY DEF PowerTyped

(* One rail switched: the sequences go on where they were.                  *)
LEMMA RailDone ==
  ASSUME PowerInv, power_todo # << >>, power_todo' = Tail(power_todo),
         power_call' = power_call, power_call # "none",
         rail_state' \in [RailIds -> {"OFF", "RAMPING", "STABLE"}],
         \A i \in RailIds : i # Head(power_todo) => rail_state'[i] = rail_state[i],
         power_call = "on_sequence" => rail_state'[Head(power_todo)] = "STABLE",
         power_call = "off_sequence" => rail_state'[Head(power_todo)] = "OFF",
         rail_state'[Head(power_todo)] # "RAMPING"
  PROVE  /\ OnSequence' /\ OffSequence' /\ RampsInCall'
         /\ power_todo' \in Seq(RailIds)
<1> DEFINE n == Len(power_todo)
           h == Head(power_todo)
<1>1. /\ h \in RailIds /\ h = power_todo[1] /\ n \in Nat /\ n > 0
      /\ power_todo' \in Seq(RailIds) /\ Len(power_todo') = n - 1
      /\ \A m \in 1 .. n - 1 : power_todo'[m] = power_todo[m + 1]
  BY RestOfTodo DEF PowerInv
<1> HIDE DEF n, h
<1>2. OnSequence'
  <2>1. SUFFICES ASSUME power_call = "on_sequence"
                 PROVE  /\ n - 1 <= NumRails
                        /\ \A m \in 1 .. n - 1 : power_todo'[m] = NumRails - (n - 1) + m
                        /\ \A i \in 1 .. NumRails - (n - 1) : rail_state'[i] = "STABLE"
    BY <1>1 DEF OnSequence
  <2>2. /\ n <= NumRails
        /\ \A m \in 1 .. n : power_todo[m] = NumRails - n + m
        /\ \A i \in 1 .. NumRails - n : rail_state[i] = "STABLE"
    BY <2>1 DEF PowerInv, OnSequence, n
  <2>3. h = NumRails - n + 1
    BY <1>1, <2>2, RailCount
  <2>4. ASSUME NEW i \in 1 .. NumRails - (n - 1) PROVE rail_state'[i] = "STABLE"
    <3>1. CASE i = h
      BY <2>1, <3>1 DEF h
    <3>2. CASE i # h
      <4>1. i \in RailIds /\ i \in 1 .. NumRails - n
        BY <1>1, <2>2, <2>3, <3>2, RailCount
      <4> QED BY <2>2, <3>2, <4>1 DEF h
    <3> QED BY <3>1, <3>2
  <2>5. ASSUME NEW m \in 1 .. n - 1 PROVE power_todo'[m] = NumRails - (n - 1) + m
    BY <1>1, <2>2, RailCount
  <2> QED BY <1>1, <2>2, <2>4, <2>5, RailCount
<1>3. OffSequence'
  <2>1. SUFFICES ASSUME power_call = "off_sequence"
                 PROVE  /\ n - 1 <= NumRails
                        /\ \A m \in 1 .. n - 1 : power_todo'[m] = n - 1 - m + 1
                        /\ \A i \in n - 1 + 1 .. NumRails : rail_state'[i] = "OFF"
    BY <1>1 DEF OffSequence
  <2>2. /\ n <= NumRails
        /\ \A m \in 1 .. n : power_todo[m] = n - m + 1
        /\ \A i \in n + 1 .. NumRails : rail_state[i] = "OFF"
    BY <2>1 DEF PowerInv, OffSequence, n
  <2>3. h = n
    BY <1>1, <2>2
  <2>4. ASSUME NEW i \in n - 1 + 1 .. NumRails PROVE rail_state'[i] = "OFF"
    <3>1. CASE i = h
      BY <2>1, <3>1 DEF h
    <3>2. CASE i # h
      <4>1. i \in RailIds /\ i \in n + 1 .. NumRails
        BY <1>1, <2>2, <2>3, <3>2, RailCount
      <4> QED BY <2>2, <3>2, <4>1 DEF h
    <3> QED BY <3>1, <3>2
  <2>5. ASSUME NEW m \in 1 .. n - 1 PROVE power_todo'[m] = n - 1 - m + 1
    BY <1>1, <2>2
  <2> QED BY <1>1, <2>2, <2>4, <2>5, RailCount
<1>4. RampsInCall'
  <2>1. SUFFICES ASSUME NEW i \in RailIds, rail_state'[i] = "RAMPING" PROVE FALSE
    BY DEF RampsInCall
  <2>2. i # h
    BY <2>1 DEF h
  <2>3. rail_state[i] = "RAMPING"
    BY <2>1, <2>2 DEF h
  <2> QED BY <2>2, <2>3 DEF PowerInv, RampsInCall, h
<1> QED BY <1>1, <1>2, <1>3, <1>4

(* The module after a reset, when no pin is as it says, or after             *)
(* peripheral_power_init.                                                   *)
LEMMA AllOff ==
  ASSUME rail_state' = AllRails("OFF"), rail_pin' \in [RailIds -> BOOLEAN],
         power_ready' => rail_pin' = AllRails(FALSE),
         power_call' = "none", power_todo' = << >>
  PROVE  PowerInv'
<1>1. /\ rail_state' \in [RailIds -> {"OFF", "RAMPING", "STABLE"}]
      /\ \A i \in RailIds : rail_state'[i] = "OFF"
  BY DEF AllRails
<1>2. power_ready' => \A i \in RailIds : rail_pin'[i] = FALSE
  BY DEF AllRails
<1>3. PowerTyped'
  <2>1. power_todo' \in Seq(RailIds) /\ power_call' \in {"none"}
    OBVIOUS
  <2> QED BY <1>1, <2>1 DEF PowerTyped
<1>4. (power_ready' => PinsFollow') /\ RampsInCall'
  BY <1>1, <1>2 DEF PinsFollow, RampsInCall
<1> QED BY <1>3, <1>4 DEF PowerInv, OnSequence, OffSequence

(* The power sequencer starts in PowerInv ...                               *)
LEMMA PowerStart == PowerInit => PowerInv
<1> SUFFICES ASSUME PowerInit PROVE PowerInv
  OBVIOUS
<1>1. /\ rail_state \in [RailIds -> {"OFF", "RAMPING", "STABLE"}]
      /\ \A i \in RailIds : rail_state[i] = "OFF"
  BY DEF AllRails, PowerInit
<1>2. rail_pin \in [RailIds -> BOOLEAN] /\ \A i \in RailIds : rail_pin[i] = FALSE
  BY DEF AllRails, PowerInit
<1>3. power_call = "none" /\ power_todo = << >>
  BY DEF PowerInit
<1>4. PowerTyped
  BY <1>1, <1>2, <1>3 DEF PowerTyped
<1>5. PinsFollow /\ RampsInCall
  BY <1>1, <1>2 DEF PinsFollow, RampsInCall
<1> QED BY <1>3, <1>4, <1>5 DEF PowerInv, OnSequence, OffSequence

(* ... and every step of it keeps PowerInv.                                 *)
LEMMA PowerStep == PowerInv /\ [PowerNext]_powerVars => PowerInv'
<1> SUFFICES ASSUME PowerInv, [PowerNext]_powerVars PROVE PowerInv'
  OBVIOUS
<1> DEFINE h == Head(power_todo)
<1>0. PowerTyped /\ RampsInCall
  BY DEF PowerInv
<1>p. power_call # "none" => power_ready /\ PinsFollow
  BY DEF PowerInv
<1>a. AllRails(FALSE) \in [RailIds -> BOOLEAN]
  BY DEF AllRails
<1>1. CASE peripheral_power_init
  <2>1. /\ rail_state' = AllRails("OFF") /\ rail_pin' = AllRails(FALSE)
        /\ power_call' = "none" /\ power_todo' = << >>
    BY <1>1 DEF peripheral_power_init, PowerInv
  <2> QED BY <1>a, <2>1, AllOff
<1>2. CASE PowerReset
  <2>1. /\ rail_state' = AllRails("OFF") /\ rail_pin' \in {AllRails(FALSE), rail_pin}
        /\ power_call' = "none" /\ power_todo' = << >> /\ power_ready' = FALSE
    BY <1>2 DEF PowerReset
  <2>2. rail_pin' \in [RailIds -> BOOLEAN]
    BY <1>0, <1>a, <2>1 DEF PowerTyped
  <2> QED BY <2>1, <2>2, AllOff
<1>3. ASSUME NEW i \in RailIds, peripheral_power_on(i) \/ peripheral_power_off(i)
      PROVE  PowerInv'
  <2>1. <<i>> \in Seq(RailIds)
    OBVIOUS
  <2> QED BY <1>3, <2>1, CallBegins DEF peripheral_power_on, peripheral_power_off
<1>4. CASE peripheral_power_on_sequence
  BY <1>4, CallBegins, Orders DEF peripheral_power_on_sequence
<1>5. CASE peripheral_power_off_sequence
  BY <1>5, CallBegins, Orders DEF peripheral_power_off_sequence
<1>6. CASE RailAlreadyOn
  <2>1. /\ power_todo # << >> /\ power_todo' = Tail(power_todo)
        /\ power_call \in {"on", "on_sequence"} /\ rail_state[h] = "STABLE"
        /\ UNCHANGED <<rail_state, rail_pin, power_call, power_ready>>
    BY <1>6 DEF RailAlreadyOn, Doing
  <2>2. rail_state' \in [RailIds -> {"OFF", "RAMPING", "STABLE"}]
    BY <1>0, <2>1 DEF PowerTyped
  <2>3. OnSequence' /\ OffSequence' /\ RampsInCall' /\ power_todo' \in Seq(RailIds)
    BY <2>1, <2>2, RailDone
  <2>4. PowerTyped' /\ PinsFollow' /\ power_call' # "none" /\ power_ready'
    BY <1>0, <1>p, <2>1, <2>3 DEF PowerTyped, PinsFollow
  <2> QED BY <2>3, <2>4 DEF PowerInv
<1>7. CASE RampBegins
  <2>1. /\ power_todo # << >> /\ power_call \in {"on", "on_sequence"}
        /\ rail_state[h] = "OFF" /\ rail_state' = [rail_state EXCEPT ![h] = "RAMPING"]
        /\ rail_pin' = [rail_pin EXCEPT ![h] = TRUE]
        /\ UNCHANGED <<power_todo, power_call, power_ready>>
    BY <1>7 DEF RampBegins, Doing, set_rail_gpio
  <2>2. h \in RailIds
    BY <1>0, <2>1, RestOfTodo
  <2> HIDE DEF h
  <2>3. /\ rail_state' \in [RailIds -> {"OFF", "RAMPING", "STABLE"}]
        /\ rail_state'[h] = "RAMPING"
        /\ \A i \in RailIds : i # h => rail_state'[i] = rail_state[i]
    BY <1>0, <2>1, <2>2 DEF PowerTyped
  <2>4. /\ rail_pin' \in [RailIds -> BOOLEAN]
        /\ rail_pin'[h] = TRUE
        /\ \A i \in RailIds : i # h => rail_pin'[i] = rail_pin[i]
    BY <1>0, <2>1, <2>2 DEF PowerTyped
  <2>5. PowerTyped'
    BY <1>0, <2>1, <2>3, <2>4 DEF PowerTyped
  <2>6. PinsFollow'
    <3>1. SUFFICES ASSUME NEW i \in RailIds PROVE rail_pin'[i] <=> rail_state'[i] # "OFF"
      BY DEF PinsFollow
    <3>2. CASE i = h
      BY <2>3, <2>4, <3>2
    <3>3. CASE i # h
      BY <1>p, <2>1, <2>3, <2>4, <3>3 DEF PinsFollow
    <3> QED BY <3>2, <3>3
  <2>7. RampsInCall'
    BY <1>0, <2>1, <2>3 DEF RampsInCall, h
  <2>8. OnSequence'
    <3>1. SUFFICES ASSUME power_call = "on_sequence",
                          NEW i \in 1 .. NumRails - Len(power_todo)
                   PROVE  rail_state'[i] = "STABLE"
      BY <2>1 DEF OnSequence, PowerInv
    <3>2. rail_state[i] = "STABLE"
      BY <3>1 DEF OnSequence, PowerInv
    <3>3. i \in RailIds
      BY <1>0, RailCount DEF PowerTyped
    <3> QED BY <2>1, <2>3, <3>2, <3>3
  <2>9. OffSequence'
    BY <2>1 DEF OffSequence
  <2> QED BY <1>p, <2>1, <2>5, <2>6, <2>7, <2>8, <2>9 DEF PowerInv
<1>8. CASE RampEnds
  <2>1. /\ power_todo # << >> /\ power_call \in {"on", "on_sequence"}
        /\ rail_state[h] = "RAMPING" /\ rail_state' = [rail_state EXCEPT ![h] = "STABLE"]
        /\ power_todo' = Tail(power_todo) /\ UNCHANGED <<rail_pin, power_call, power_ready>>
    BY <1>8 DEF RampEnds, Doing
  <2>2. h \in RailIds
    BY <1>0, <2>1, RestOfTodo
  <2>3. /\ rail_state' \in [RailIds -> {"OFF", "RAMPING", "STABLE"}]
        /\ rail_state'[h] = "STABLE"
        /\ \A i \in RailIds : i # h => rail_state'[i] = rail_state[i]
    BY <1>0, <2>1, <2>2 DEF PowerTyped
  <2>4. OnSequence' /\ OffSequence' /\ RampsInCall' /\ power_todo' \in Seq(RailIds)
    BY <2>1, <2>3, RailDone
  <2>5. PowerTyped' /\ power_call' # "none"
    BY <1>0, <2>1, <2>3, <2>4 DEF PowerTyped
  <2> HIDE DEF h
  <2>6. PinsFollow'
    <3>1. SUFFICES ASSUME NEW i \in RailIds PROVE rail_pin'[i] <=> rail_state'[i] # "OFF"
      BY DEF PinsFollow
    <3>2. rail_pin[i] <=> rail_state[i] # "OFF"
      BY <1>p, <2>1 DEF PinsFollow
    <3>3. rail_pin'[i] = rail_pin[i]
      BY <2>1
    <3>4. CASE i = h
      BY <2>1, <2>3, <3>2, <3>3, <3>4
    <3>5. CASE i # h
      BY <2>3, <3>2, <3>3, <3>5
    <3> QED BY <3>4, <3>5
  <2> QED BY <1>p, <2>1, <2>4, <2>5, <2>6 DEF PowerInv
<1>9. CASE RailOff
  <2>1. /\ power_todo # << >> /\ power_call \in {"off", "off_sequence"}
        /\ rail_state' = [rail_state EXCEPT ![h] = "OFF"]
        /\ rail_pin' = [rail_pin EXCEPT ![h] = FALSE]
        /\ power_todo' = Tail(power_todo) /\ UNCHANGED <<power_call, power_ready>>
    BY <1>9 DEF RailOff, Doing, set_rail_gpio
  <2>2. h \in RailIds
    BY <1>0, <2>1, RestOfTodo
  <2>3. /\ rail_state' \in [RailIds -> {"OFF", "RAMPING", "STABLE"}]
        /\ rail_state'[h] = "OFF"
        /\ \A i \in RailIds : i # h => rail_state'[i] = rail_state[i]
    BY <1>0, <2>1, <2>2 DEF PowerTyped
  <2>4. OnSequence' /\ OffSequence' /\ RampsInCall' /\ power_todo' \in Seq(RailIds)
    BY <2>1, <2>3, RailDone
  <2> HIDE DEF h
  <2>5. /\ rail_pin' \in [RailIds -> BOOLEAN]
        /\ rail_pin'[h] = FALSE
        /\ \A i \in RailIds : i # h => rail_pin'[i] = rail_pin[i]
    BY <1>0, <2>1, <2>2 DEF PowerTyped
  <2>6. PowerTyped' /\ power_call' # "none"
    BY <1>0, <2>1, <2>3, <2>4, <2>5 DEF PowerTyped
  <2>7. PinsFollow'
    <3>1. SUFFICES ASSUME NEW i \in RailIds PROVE rail_pin'[i] <=> rail_state'[i] # "OFF"
      BY DEF PinsFollow
    <3>2. CASE i = h
      BY <2>3, <2>5, <3>2
    <3>3. CASE i # h
      BY <1>p, <2>1, <2>3, <2>5, <3>3 DEF PinsFollow
    <3> QED BY <3>2, <3>3
  <2> QED BY <1>p, <2>1, <2>4, <2>6, <2>7 DEF PowerInv
<1>10. CASE PowerReturns
  <2>1. /\ power_todo = << >> /\ power_call' = "none"
        /\ UNCHANGED <<rail_state, rail_pin, power_todo>> /\ power_call # "none"
    BY <1>10 DEF PowerReturns
  <2>2. PowerTyped' /\ PinsFollow'
    BY <1>0, <1>p, <2>1 DEF PowerTyped, PinsFollow
  <2>3. RampsInCall'
    BY <1>0, <2>1 DEF RampsInCall
  <2> QED BY <2>1, <2>2, <2>3 DEF PowerInv, OnSequence, OffSequence
<1>11. CASE UNCHANGED powerVars
  <2>1. UNCHANGED <<rail_state, rail_pin, power_call, power_todo, power_ready>>
    BY <1>11 DEF powerVars
  <2> QED BY <2>1 DEF PowerInv, PowerTyped, PinsFollow, RampsInCall, OnSequence, OffSequence
<1> QED
  BY <1>1, <1>2, <1>3, <1>4, <1>5, <1>6, <1>7, <1>8, <1>9, <1>10, <1>11 DEF PowerNext

(* Between calls the rails follow the state.                                *)
LEMMA PowerFollows == PowerInv => RailsFollowState
<1> SUFFICES ASSUME PowerInv PROVE RailsFollowState
  OBVIOUS
<1>1. (power_ready => PinsFollow) /\ RampsInCall /\ OnSequence /\ OffSequence
  BY DEF PowerInv
<1>2. ASSUME power_todo = << >>, NEW i \in RailIds
      PROVE  /\ rail_state[i] # "RAMPING"
             /\ power_call = "on_sequence" => rail_state[i] = "STABLE"
             /\ power_call = "off_sequence" => rail_state[i] = "OFF"
  <2>1. Len(power_todo) = 0
    BY <1>2
  <2>2. rail_state[i] # "RAMPING"
    BY <1>1, <1>2 DEF RampsInCall
  <2>3. i \in 1 .. NumRails - 0 /\ i \in 0 + 1 .. NumRails
    BY RailCount
  <2>4. power_call = "on_sequence" => rail_state[i] = "STABLE"
    BY <1>1, <2>1, <2>3 DEF OnSequence
  <2>5. power_call = "off_sequence" => rail_state[i] = "OFF"
    BY <1>1, <2>1, <2>3 DEF OffSequence
  <2> QED BY <2>2, <2>4, <2>5
<1>3. power_ready => \A i \in RailIds : rail_pin[i] <=> rail_state[i] # "OFF"
  BY <1>1 DEF PinsFollow
<1> QED BY <1>2, <1>3 DEF RailsFollowState, peripheral_power_all_on, peripheral_power_all_off

(* The rail that a step may switch on or off.                               *)
RailsInOrder ==
  \A i \in RailIds :
    /\ power_call = "on_sequence" /\ ~rail_pin[i] /\ rail_pin'[i] =>
         \A j \in 1 .. i - 1 : rail_state[j] = "STABLE"
    /\ power_call = "off_sequence" /\ power_ready' /\ rail_pin[i] /\ ~rail_pin'[i] =>
         \A j \in i + 1 .. Len(PowerRails) : rail_state[j] = "OFF"

(* Rails are switched in their order, up and down.                          *)
LEMMA StepsInOrder == PowerInv /\ [PowerNext]_powerVars => [RailsInOrder]_powerVars
<1> SUFFICES ASSUME PowerInv, PowerNext, NEW i \in RailIds
             PROVE  /\ power_call = "on_sequence" /\ ~rail_pin[i] /\ rail_pin'[i] =>
                         \A j \in 1 .. i - 1 : rail_state[j] = "STABLE"
                    /\ power_call = "off_sequence" /\ power_ready' /\ rail_pin[i] /\ ~rail_pin'[i] =>
                         \A j \in i + 1 .. NumRails : rail_state[j] = "OFF"
  BY DEF RailsInOrder, NumRails
<1>0. PowerTyped
  BY DEF PowerInv
<1>1. CASE power_call = "none" \/ UNCHANGED rail_pin \/ PowerReset
  <2>1. CASE power_call = "none"
    BY <2>1
  <2>2. CASE UNCHANGED rail_pin
    BY <2>2
  <2>3. CASE PowerReset
    <3>1. power_ready' = FALSE /\ rail_pin' \in {AllRails(FALSE), rail_pin}
      BY <2>3 DEF PowerReset
    <3>2. AllRails(FALSE)[i] = FALSE
      BY DEF AllRails
    <3>3. rail_pin'[i] = FALSE \/ rail_pin'[i] = rail_pin[i]
      BY <3>1, <3>2
    <3> QED BY <3>1, <3>3
  <2> QED BY <1>1, <2>1, <2>2, <2>3
<1>2. CASE RampBegins
  <2>1. /\ power_todo # << >> /\ power_call \in {"on", "on_sequence"}
        /\ rail_pin' = [rail_pin EXCEPT ![Head(power_todo)] = TRUE]
    BY <1>2 DEF RampBegins, Doing, set_rail_gpio
  <2>2. ASSUME power_call = "on_sequence", ~rail_pin[i], rail_pin'[i],
               NEW j \in 1 .. i - 1
        PROVE  rail_state[j] = "STABLE"
    <3>1. i = Head(power_todo)
      BY <1>0, <2>1, <2>2 DEF PowerTyped
    <3>2. Head(power_todo) = power_todo[1] /\ Len(power_todo) \in Nat /\ Len(power_todo) > 0
      BY <1>0, <2>1, RestOfTodo
    <3>3. i = NumRails - Len(power_todo) + 1
      BY <2>2, <3>1, <3>2, RailCount DEF PowerInv, OnSequence
    <3>4. j \in 1 .. NumRails - Len(power_todo)
      BY <3>2, <3>3, RailCount
    <3> QED BY <2>2, <3>4 DEF PowerInv, OnSequence
  <2> QED BY <2>1, <2>2
<1>3. CASE RailOff
  <2>1. /\ power_todo # << >> /\ power_call \in {"off", "off_sequence"}
        /\ rail_pin' = [rail_pin EXCEPT ![Head(power_todo)] = FALSE]
    BY <1>3 DEF RailOff, Doing, set_rail_gpio
  <2>2. ASSUME power_call = "off_sequence", rail_pin[i], ~rail_pin'[i],
               NEW j \in i + 1 .. NumRails
        PROVE  rail_state[j] = "OFF"
    <3>1. i = Head(power_todo)
      BY <1>0, <2>1, <2>2 DEF PowerTyped
    <3>2. Head(power_todo) = power_todo[1] /\ Len(power_todo) \in Nat /\ Len(power_todo) > 0
      BY <1>0, <2>1, RestOfTodo
    <3>3. i = Len(power_todo)
      BY <2>2, <3>1, <3>2, RailCount DEF PowerInv, OffSequence
    <3> QED BY <2>2, <3>3 DEF PowerInv, OffSequence
  <2> QED BY <2>1, <2>2
<1>4. \/ power_call = "none" \/ UNCHANGED rail_pin \/ PowerReset \/ RampBegins \/ RailOff
  BY DEF PowerNext, peripheral_power_init, peripheral_power_on, peripheral_power_off,
         peripheral_power_on_sequence, peripheral_power_off_sequence, PowerCall,
         RailAlreadyOn, RampEnds, PowerReturns
<1> QED BY <1>1, <1>2, <1>3, <1>4

(* The on sequence enables a rail only when all earlier ones are stable, the  *)
(* off sequence lets go of one only when all later ones are off, pins and     *)
(* states agree at every moment, and no call that returned leaves a rail      *)
(* ramping (RailsSequenced), for any number of rails.                        *)
THEOREM RailsStaySequenced == PowerSpec => RailsSequenced
<1>1. PowerSpec => []PowerInv
  BY PowerStart, PowerStep, PTL DEF PowerSpec
<1>2. PowerSpec => []RailsFollowState
  BY <1>1, PowerFollows, PTL
<1>3. PowerSpec => [][RailsInOrder]_powerVars
  BY <1>1, StepsInOrder, PTL DEF PowerSpec
<1> QED BY <1>2, <1>3, PTL DEF RailsSequenced, RailsInOrder

-----------------------------------------------------------------------------
(* The sub-GHz radio.                                                       *)
(* The bands and the words of their tables.                                 *)
LEMMA Bands ==
  /\ DOMAIN BandTable = {433, 868, 915}
  /\ BandTable[433] = 1091426 /\ BandTable[868] = 2187894 /\ BandTable[915] = 2306363
<1>1. DOMAIN BandTable = {433, 868, 915}
  BY SMT DEF BandTable
<1>2. BandTable[433] = 1091426
  BY SMT DEF BandTable, cc1101_config_433mhz
<1>3. BandTable[868] = 2187894
  BY SMT DEF BandTable, cc1101_config_868mhz
<1>4. BandTable[915] = 2306363
  BY SMT DEF BandTable, cc1101_config_915mhz
<1> QED BY <1>1, <1>2, <1>3, <1>4, SMT

(* Their carriers, to within a kHz.                                         *)
LEMMA Carriers ==
  /\ CarrierKHz(1091426) = 432999 /\ CarrierKHz(2187894) = 867999
  /\ CarrierKHz(2306363) = 914999
  BY SMT DEF CarrierKHz

(* The smaller of two numbers.                                              *)
LEMMA MinOfTwo ==
  ASSUME NEW a \in Int, NEW b \in Int
  PROVE  Min({a, b}) = IF a <= b THEN a ELSE b
<1>1. CASE a <= b
  BY <1>1 DEF Min
<1>2. CASE a > b
  BY <1>2 DEF Min
<1> QED BY <1>1, <1>2

CcWords == {0, 1091426, 2187894, 2306363}

(* The FIFOs hold at most what they can, and bytes of the tuned carrier only, *)
(* unless a band switch was left half done.                                 *)
FifoOk(q) ==
  /\ q \in Seq(CcWords) /\ Len(q) <= CC1101_FIFO
  /\ \A k \in 1 .. Len(q) : cc_half \/ q[k] = cc_freq

CcInv ==
  /\ cc_freq \in CcWords
  /\ cc_cs => cc_ret = [call |-> "init", rc |-> -2]
  /\ FifoOk(cc_rx) /\ FifoOk(cc_tx)

(* The invariant of the radio implies that it is usable.                    *)
LEMMA CcUsable == CcInv => ChipLeftUsable
<1> SUFFICES ASSUME CcInv PROVE ChipLeftUsable
  OBVIOUS
<1>1. cc_freq # 0 => \E band \in DOMAIN BandTable : CarrierKHz(cc_freq) - 1000 * band \in -1 .. 1
  <2>1. CASE cc_freq = 1091426
    <3>1. CarrierKHz(cc_freq) - 1000 * 433 \in -1 .. 1 /\ 433 \in DOMAIN BandTable
      BY <2>1, Carriers, Bands, SMT
    <3> QED BY <3>1, SMT
  <2>2. CASE cc_freq = 2187894
    <3>1. CarrierKHz(cc_freq) - 1000 * 868 \in -1 .. 1 /\ 868 \in DOMAIN BandTable
      BY <2>2, Carriers, Bands, SMT
    <3> QED BY <3>1, SMT
  <2>3. CASE cc_freq = 2306363
    <3>1. CarrierKHz(cc_freq) - 1000 * 915 \in -1 .. 1 /\ 915 \in DOMAIN BandTable
      BY <2>3, Carriers, Bands, SMT
    <3> QED BY <3>1, SMT
  <2> QED BY <2>1, <2>2, <2>3, SMT DEF CcInv, CcWords
<1>2. ~cc_half => \A k \in DOMAIN cc_rx : cc_rx[k] = cc_freq
  BY SMT DEF CcInv, FifoOk
<1>3. ~cc_half => \A k \in DOMAIN cc_tx : cc_tx[k] = cc_freq
  BY SMT DEF CcInv, FifoOk
<1>4. cc_cs => cc_ret = [call |-> "init", rc |-> -2]
  BY DEF CcInv
<1> QED BY <1>1, <1>2, <1>3, <1>4 DEF ChipLeftUsable

(* An empty FIFO holds nothing of another carrier.                          *)
LEMMA EmptyFifo == FifoOk(<< >>)
<1>1. << >> \in Seq(CcWords) /\ Len(<< >>) = 0
  OBVIOUS
<1> QED BY <1>1, CcAssumption, SMT DEF FifoOk

(* Writing to a FIFO: what fits is queued for the tuned carrier.             *)
LEMMA FifoWritten ==
  ASSUME FifoOk(cc_tx), cc_freq \in CcWords, NEW n \in Nat, cc1101_write_tx_fifo(n)
  PROVE  FifoOk(cc_tx)' /\ cc_freq' = cc_freq /\ cc_half' = cc_half
<1> DEFINE sent == Min({n, CC1101_FIFO})
           fits == Min({sent, CC1101_FIFO - Len(cc_tx)})
           more == [k \in 1 .. fits |-> cc_freq]
<1>1. cc_tx' = cc_tx \o more /\ cc_freq' = cc_freq /\ cc_half' = cc_half
  BY DEF cc1101_write_tx_fifo
<1>2. cc_tx \in Seq(CcWords) /\ Len(cc_tx) \in Nat /\ Len(cc_tx) <= CC1101_FIFO
      /\ \A k \in 1 .. Len(cc_tx) : cc_half \/ cc_tx[k] = cc_freq
  BY DEF FifoOk
<1>3. CC1101_FIFO \in Nat
  BY CcAssumption
<1>4. sent \in Nat
  BY <1>3, MinOfTwo
<1> HIDE DEF sent
<1>5. fits \in Nat /\ fits <= CC1101_FIFO - Len(cc_tx)
  <2> DEFINE room == CC1101_FIFO - Len(cc_tx)
  <2>1. room \in Nat
    BY <1>2, <1>3
  <2> HIDE DEF room
  <2>2. Min({sent, room}) = IF sent <= room THEN sent ELSE room
    BY <1>4, <2>1, MinOfTwo
  <2>3. Min({sent, room}) \in Nat /\ Min({sent, room}) <= room
    BY <1>4, <2>1, <2>2
  <2> QED BY <2>3 DEF room
<1> HIDE DEF fits
<1>6. more \in Seq(CcWords) /\ Len(more) = fits
  <2>1. more \in [1 .. fits -> CcWords]
    OBVIOUS
  <2> QED BY <1>5, <2>1
<1>7. \A k \in 1 .. fits : more[k] = cc_freq
  OBVIOUS
<1> HIDE DEF more
<1>8. /\ cc_tx \o more \in Seq(CcWords) /\ Len(cc_tx \o more) = Len(cc_tx) + fits
      /\ \A k \in 1 .. Len(cc_tx) + fits :
           (cc_tx \o more)[k] = IF k <= Len(cc_tx) THEN cc_tx[k] ELSE more[k - Len(cc_tx)]
  BY <1>2, <1>6, ConcatProperties
<1>9. ASSUME NEW k \in 1 .. Len(cc_tx) + fits PROVE cc_half \/ (cc_tx \o more)[k] = cc_freq
  <2>1. CASE k <= Len(cc_tx)
    BY <1>2, <1>8, <2>1
  <2>2. CASE k > Len(cc_tx)
    <3>1. k - Len(cc_tx) \in 1 .. fits
      BY <1>2, <1>5, <2>2
    <3>2. (cc_tx \o more)[k] = more[k - Len(cc_tx)]
      BY <1>2, <1>8, <2>2
    <3> QED BY <1>7, <3>1, <3>2
  <2>3. k \in Int /\ Len(cc_tx) \in Int
    BY <1>2, <1>5
  <2>4. k <= Len(cc_tx) \/ k > Len(cc_tx)
    BY <2>3
  <2> QED BY <2>1, <2>2, <2>4
<1>10. Len(cc_tx \o more) <= CC1101_FIFO
  BY <1>2, <1>3, <1>5, <1>8
<1> QED BY <1>1, <1>8, <1>9, <1>10 DEF FifoOk

(* Reading from it: the oldest bytes go.                                    *)
LEMMA FifoRead ==
  ASSUME FifoOk(cc_rx), NEW n \in Nat, cc1101_read_rx_fifo(n)
  PROVE  FifoOk(cc_rx)' /\ cc_freq' = cc_freq /\ cc_half' = cc_half
<1> DEFINE asked == Min({n, CC1101_FIFO})
           m == asked + 1
           l == Len(cc_rx)
<1>1. cc_rx' = SubSeq(cc_rx, m, l) /\ cc_freq' = cc_freq /\ cc_half' = cc_half
  BY DEF cc1101_read_rx_fifo
<1>2. cc_rx \in Seq(CcWords) /\ l \in Nat /\ l <= CC1101_FIFO
      /\ \A k \in 1 .. l : cc_half \/ cc_rx[k] = cc_freq
  BY DEF FifoOk
<1>3. CC1101_FIFO \in Nat
  BY CcAssumption
<1>4. asked \in Nat
  BY <1>3, MinOfTwo
<1>5. m \in Nat /\ m > 0
  BY <1>4
<1> HIDE DEF m, asked
<1>6. \A k \in m .. l : cc_rx[k] \in CcWords
  BY <1>2, <1>5
<1>d. l = Len(cc_rx)
  OBVIOUS
<1> HIDE DEF l
<1>7. /\ SubSeq(cc_rx, m, l) \in Seq(CcWords)
      /\ Len(SubSeq(cc_rx, m, l)) = IF m <= l THEN l - m + 1 ELSE 0
      /\ \A k \in 1 .. l - m + 1 : SubSeq(cc_rx, m, l)[k] = cc_rx[m + k - 1]
  BY <1>2, <1>5, <1>6, SubSeqProperties
<1>8. Len(SubSeq(cc_rx, m, l)) <= CC1101_FIFO
  BY <1>2, <1>3, <1>5, <1>7
<1>9. ASSUME NEW k \in 1 .. Len(SubSeq(cc_rx, m, l)) PROVE cc_half \/ SubSeq(cc_rx, m, l)[k] = cc_freq
  <2>1. k \in 1 .. l - m + 1 /\ m + k - 1 \in 1 .. l
    BY <1>2, <1>5, <1>7
  <2> QED BY <1>2, <1>7, <2>1
<1> QED BY <1>1, <1>7, <1>8, <1>9 DEF FifoOk

(* Calls that leave carrier and FIFOs alone, or empty a FIFO.                *)
LEMMA CcKeeps ==
  ASSUME CcInv, UNCHANGED <<cc_freq, cc_half>>, cc_cs' = FALSE \/ UNCHANGED <<cc_cs, cc_ret>>,
         cc_rx' = cc_rx \/ cc_rx' = << >>, cc_tx' = cc_tx \/ cc_tx' = << >>
  PROVE  CcInv'
<1>1. FifoOk(cc_rx)'
  BY EmptyFifo DEF CcInv, FifoOk
<1>2. FifoOk(cc_tx)'
  BY EmptyFifo DEF CcInv, FifoOk
<1>3. cc_cs' => cc_ret' = [call |-> "init", rc |-> -2]
  BY DEF CcInv
<1> QED BY <1>1, <1>2, <1>3 DEF CcInv

(* Calls that tune to another carrier and empty both FIFOs.                 *)
LEMMA CcRetunes ==
  ASSUME cc_freq' \in CcWords, cc_cs' = FALSE, cc_rx' = << >>, cc_tx' = << >>
  PROVE  CcInv'
<1>1. FifoOk(cc_rx)' /\ FifoOk(cc_tx)'
  BY EmptyFifo DEF FifoOk
<1> QED BY <1>1 DEF CcInv

(* Every call on the radio, failed or not, keeps CcInv.                     *)
LEMMA CcStep == CcInv /\ [CcNext]_ccVars => CcInv'
<1> SUFFICES ASSUME CcInv, [CcNext]_ccVars PROVE CcInv'
  OBVIOUS
<1>1. CASE CcReceives
  <2>1. /\ cc_rx' = Append(cc_rx, cc_freq) /\ Len(cc_rx) < CC1101_FIFO
        /\ UNCHANGED <<cc_cs, cc_freq, cc_tx, cc_ret, cc_half>>
    BY <1>1 DEF CcReceives
  <2>2. /\ cc_rx \in Seq(CcWords) /\ cc_freq \in CcWords
        /\ \A k \in 1 .. Len(cc_rx) : cc_half \/ cc_rx[k] = cc_freq
    BY DEF CcInv, FifoOk
  <2>3. /\ cc_rx' \in Seq(CcWords) /\ Len(cc_rx') = Len(cc_rx) + 1
        /\ \A k \in 1 .. Len(cc_rx) + 1 : cc_half \/ cc_rx'[k] = cc_freq
    BY <2>1, <2>2
  <2>4. Len(cc_rx') <= CC1101_FIFO
    BY <2>1, <2>2, <2>3, CcAssumption
  <2>5. FifoOk(cc_rx)'
    BY <2>1, <2>3, <2>4 DEF FifoOk
  <2>6. FifoOk(cc_tx)'
    BY <2>1 DEF CcInv, FifoOk
  <2>7. cc_cs' => cc_ret' = [call |-> "init", rc |-> -2]
    BY <2>1 DEF CcInv
  <2> QED BY <2>1, <2>2, <2>5, <2>6, <2>7 DEF CcInv
<1>2. CASE CcSends
  <2>1. /\ cc_tx' = Tail(cc_tx) /\ cc_tx # << >>
        /\ UNCHANGED <<cc_cs, cc_freq, cc_rx, cc_ret, cc_half>>
    BY <1>2 DEF CcSends
  <2>2. /\ cc_tx \in Seq(CcWords) /\ cc_freq \in CcWords /\ Len(cc_tx) <= CC1101_FIFO
        /\ \A k \in 1 .. Len(cc_tx) : cc_half \/ cc_tx[k] = cc_freq
    BY DEF CcInv, FifoOk
  <2>3. /\ cc_tx' \in Seq(CcWords) /\ Len(cc_tx') = Len(cc_tx) - 1
        /\ \A k \in 1 .. Len(cc_tx) - 1 : cc_half \/ cc_tx'[k] = cc_freq
    BY <2>1, <2>2
  <2>4. Len(cc_tx') <= CC1101_FIFO
    BY <2>1, <2>2, <2>3, CcAssumption
  <2>5. FifoOk(cc_tx)'
    BY <2>1, <2>3, <2>4 DEF FifoOk
  <2>6. FifoOk(cc_rx)'
    BY <2>1 DEF CcInv, FifoOk
  <2>7. cc_cs' => cc_ret' = [call |-> "init", rc |-> -2]
    BY <2>1 DEF CcInv
  <2> QED BY <2>1, <2>2, <2>5, <2>6, <2>7 DEF CcInv
<1>r. CASE ChipReset /\ cc_cs' = FALSE
  <2>1. cc_freq' \in CcWords /\ cc_rx' = << >> /\ cc_tx' = << >>
    BY <1>r, SMT DEF ChipReset, CcWords
  <2> QED BY <1>r, <2>1, CcRetunes
<1>3. ASSUME NEW rc \in {0, -1, -2, -3, -4}, cc1101_init(rc) PROVE CcInv'
  <2>1. cc_ret' = [call |-> "init", rc |-> rc] /\ cc_cs' = (rc = -2)
    BY <1>3 DEF cc1101_init, CcReturn
  <2>2. CASE rc = -2
    <3>1. UNCHANGED <<cc_freq, cc_rx, cc_tx, cc_half>>
      BY <1>3, <2>2, SMT DEF cc1101_init
    <3>2. FifoOk(cc_rx)' /\ FifoOk(cc_tx)' /\ cc_freq' \in CcWords
      BY <3>1 DEF CcInv, FifoOk
    <3>3. cc_ret' = [call |-> "init", rc |-> -2]
      BY <2>1, <2>2
    <3> QED BY <3>2, <3>3 DEF CcInv
  <2>3. CASE rc # -2
    <3>1. cc_cs' = FALSE
      BY <2>1, <2>3
    <3>2. CASE UNCHANGED <<cc_freq, cc_rx, cc_tx, cc_half>>
      BY <3>1, <3>2, CcKeeps
    <3>3. CASE ChipReset
      BY <1>r, <3>1, <3>3
    <3>4. CASE rc = -3
      <4>1. \/ UNCHANGED <<cc_freq, cc_sync, cc_pa, cc_rx, cc_tx, cc_half>>
            \/ ChipReset
        BY <1>3, <3>4, SMT DEF cc1101_init
      <4> QED BY <3>2, <3>3, <4>1
    <3>5. CASE rc = -4
      <4>1. WriteTable(cc1101_config_868mhz) /\ cc_rx' = << >> /\ cc_tx' = << >>
        BY <1>3, <3>5, SMT DEF cc1101_init
      <4>2. cc_freq' \in CcWords
        BY <4>1, SMT DEF WriteTable, cc1101_config_868mhz, CcWords
      <4> QED BY <3>1, <4>1, <4>2, CcRetunes
    <3>6. CASE rc # -3 /\ rc # -4
      <4>1. ChipReset
        BY <1>3, <2>3, <3>6, SMT DEF cc1101_init
      <4> QED BY <3>3, <4>1
    <3> QED BY <3>4, <3>5, <3>6
  <2> QED BY <2>2, <2>3
<1>4. CASE SetBandNotIdle
  BY <1>4, CcKeeps DEF SetBandNotIdle, Accessed
<1>5. ASSUME NEW band \in DOMAIN BandTable, SetBandUncalibrated(band) PROVE CcInv'
  <2>1. /\ cc_freq' = BandTable[band] /\ cc_cs' = FALSE /\ cc_half' = TRUE
        /\ cc_rx' \in {<< >>, cc_rx} /\ cc_tx' \in {<< >>, cc_tx}
    BY <1>5 DEF SetBandUncalibrated, WriteTable, Accessed
  <2>2. BandTable[band] \in CcWords
    BY Bands, SMT DEF CcWords
  <2>3. FifoOk(cc_rx)'
    <3>1. cc_rx' \in Seq(CcWords) /\ Len(cc_rx') <= CC1101_FIFO
      BY <2>1, EmptyFifo DEF CcInv, FifoOk
    <3> QED BY <2>1, <3>1 DEF FifoOk
  <2>4. FifoOk(cc_tx)'
    <3>1. cc_tx' \in Seq(CcWords) /\ Len(cc_tx') <= CC1101_FIFO
      BY <2>1, EmptyFifo DEF CcInv, FifoOk
    <3> QED BY <2>1, <3>1 DEF FifoOk
  <2> QED BY <2>1, <2>2, <2>3, <2>4 DEF CcInv
<1>6. ASSUME NEW rc \in {0, -1}, cc1101_set_band(rc) PROVE CcInv'
  BY <1>6, <1>r DEF cc1101_set_band, Accessed
<1>a. CASE cc1101_enter_rx \/ cc1101_enter_tx \/ cc1101_enter_idle \/ cc1101_enter_sleep
  BY <1>a, CcKeeps DEF cc1101_enter_rx, cc1101_enter_tx, cc1101_enter_idle,
     cc1101_enter_sleep, Flushed, Accessed
<1>b. CASE cc1101_get_partnum
  BY <1>b, <1>r DEF cc1101_get_partnum, Accessed
<1>c. CASE cc1101_get_tx_bytes \/ cc1101_get_rx_bytes
  BY <1>c, CcKeeps DEF cc1101_get_tx_bytes, cc1101_get_rx_bytes, Flushed, Accessed
<1>d. ASSUME NEW reg \in DOMAIN StrobeMoves, cc1101_read_status(reg) PROVE CcInv'
  BY <1>d, CcKeeps DEF cc1101_read_status, Accessed
<1>7. ASSUME NEW n \in CcLens, cc1101_write_tx_fifo(n) PROVE CcInv'
  <2>1. n \in Nat
    BY CcAssumption
  <2>2. FifoOk(cc_tx)' /\ cc_freq' = cc_freq /\ cc_half' = cc_half
    BY <1>7, <2>1, FifoWritten DEF CcInv
  <2>3. cc_cs' = FALSE /\ UNCHANGED cc_rx
    BY <1>7 DEF cc1101_write_tx_fifo, Accessed
  <2>4. FifoOk(cc_rx)'
    BY <2>2, <2>3 DEF CcInv, FifoOk
  <2> QED BY <2>2, <2>3, <2>4 DEF CcInv
<1>8. ASSUME NEW n \in CcLens, cc1101_read_rx_fifo(n) PROVE CcInv'
  <2>1. n \in Nat
    BY CcAssumption
  <2>2. FifoOk(cc_rx)' /\ cc_freq' = cc_freq /\ cc_half' = cc_half
    BY <1>8, <2>1, FifoRead DEF CcInv
  <2>3. cc_cs' = FALSE /\ UNCHANGED cc_tx
    BY <1>8 DEF cc1101_read_rx_fifo, Accessed
  <2>4. FifoOk(cc_tx)'
    BY <2>2, <2>3 DEF CcInv, FifoOk
  <2> QED BY <2>2, <2>3, <2>4 DEF CcInv
<1>9. CASE cc1101_set_sync_word \/ cc1101_read_config_reg
  BY <1>9, CcKeeps DEF cc1101_set_sync_word, cc1101_read_config_reg, Accessed
<1>10. ASSUME NEW dbm, cc1101_set_tx_power(dbm) PROVE CcInv'
  BY <1>10, CcKeeps DEF cc1101_set_tx_power, Accessed
<1>11. CASE UNCHANGED ccVars
  BY <1>11, CcKeeps DEF ccVars
<1> QED
  BY <1>1, <1>2, <1>3, <1>4, <1>5, <1>6, <1>a, <1>b, <1>c, <1>d, <1>7, <1>8, <1>9, <1>10,
     <1>11 DEF CcNext

(* Whatever calls failed before and whatever strobes the status reads were:   *)
(* chip select is released, a configured carrier is that of its band, and no  *)
(* FIFO holds bytes of another carrier than the one tuned unless a band       *)
(* switch was left half done (ChipLeftUsable), for FIFOs and lengths of any   *)
(* size.                                                                     *)
THEOREM RadioIsLeftUsable == CcSpec => []ChipLeftUsable
<1>1. CcInit => CcInv
  <2> SUFFICES ASSUME CcInit PROVE CcInv
    OBVIOUS
  <2>1. cc_freq \in CcWords
    BY SMT DEF CcInit, CcWords
  <2>2. FifoOk(cc_rx) /\ FifoOk(cc_tx) /\ ~cc_cs
    BY EmptyFifo DEF CcInit
  <2> QED BY <2>1, <2>2 DEF CcInv
<1>2. CcSpec => []CcInv
  BY <1>1, CcStep, PTL DEF CcSpec
<1> QED BY <1>2, CcUsable, PTL

-----------------------------------------------------------------------------
(* The battery monitor.  Its percentage is below 10 just when the battery is  *)
(* low, and 0 when it is critical.                                          *)
LEMMA PercentMatches ==
  ASSUME NEW mv \in Int
  PROVE  /\ mv < 3300 <=> battery_get_percent(mv) < 10
         /\ mv < 3000 => battery_get_percent(mv) = 0
<1>1. CASE mv >= 4200
  <2>1. battery_get_percent(mv) = 100
    BY <1>1, SMT DEF battery_get_percent
  <2> QED BY <1>1, <2>1, SMT
<1>2. CASE mv <= 3000
  <2>1. battery_get_percent(mv) = 0
    BY <1>2, SMT DEF battery_get_percent
  <2> QED BY <1>2, <2>1, SMT
<1>3. CASE 3700 <= mv /\ mv < 4200
  <2>1. battery_get_percent(mv) = ((mv - 3700) * 50) \div 500 + 50
    BY <1>3, SMT DEF battery_get_percent
  <2> QED BY <1>3, <2>1, SMT
<1>4. CASE 3300 <= mv /\ mv < 3700
  <2>1. battery_get_percent(mv) = ((mv - 3300) * 40) \div 400 + 10
    BY <1>4, SMT DEF battery_get_percent
  <2> QED BY <1>4, <2>1, SMT
<1>5. CASE 3000 < mv /\ mv < 3300
  <2>1. battery_get_percent(mv) = ((mv - 3000) * 10) \div 300
    BY <1>5, SMT DEF battery_get_percent
  <2> QED BY <1>5, <2>1, SMT
<1> QED BY <1>1, <1>2, <1>3, <1>4, <1>5, SMT

(* What a report says of its own numbers.                                   *)
Consistent(r) ==
  /\ r.mv \in Int /\ r.dc10 \in Int
  /\ "LOW" \in r.flags <=> battery_is_low(r.mv)
  /\ "CRITICAL" \in r.flags <=> battery_is_critical(r.mv)
  /\ "CRIT_TEMP" \in r.flags <=> temperature_is_critical(r.dc10)
  /\ "BROWNOUT" \in r.flags <=> r.mv < BROWNOUT_THRESHOLD_MV
  /\ "CRITICAL" \in r.flags => r.pct = 0
  /\ "LOW" \in r.flags <=> r.pct < 10

(* Every reading gives a report that is consistent with itself.             *)
LEMMA ReportConsistent ==
  ASSUME NEW raw \in Int, NEW die \in Int
  PROVE  Consistent(battery_monitor_read(raw, die))
<1> DEFINE r == battery_monitor_read(raw, die)
           mv == battery_read_voltage_mv(raw)
           dc10 == temperature_read_dc10(SensorRaw(die))
<1>1. mv \in Int
  <2>1. adc_read_channel_averaged(raw, 8) \in Int
    BY SMT DEF adc_read_channel_averaged
  <2> QED BY <2>1, SMT DEF battery_read_voltage_mv
<1>2. dc10 \in Int
  <2>1. SensorRaw(die) \in Int
    BY SMT DEF SensorRaw
  <2>2. adc_read_channel_averaged(SensorRaw(die), 8) \in Int
    BY <2>1, SMT DEF adc_read_channel_averaged
  <2> DEFINE a == adc_read_channel_averaged(SensorRaw(die), 8)
             u == a * 806 - 706000
  <2>3. u \in Int
    BY <2>2, SMT
  <2>4. dc10 = 270 - (IF u < 0 THEN -((-u) \div 1721) ELSE u \div 1721)
    BY SMT DEF temperature_read_dc10
  <2> HIDE DEF u
  <2> QED BY <2>3, <2>4, SMT
<1> DEFINE Holds2(f) == CASE f = "LOW"       -> battery_is_low(mv)
                          [] f = "CRITICAL"  -> battery_is_critical(mv)
                          [] f = "OVERTEMP"  -> temperature_is_overtemp(dc10)
                          [] f = "CRIT_TEMP" -> temperature_is_critical(dc10)
                          [] f = "BROWNOUT"  -> mv < BROWNOUT_THRESHOLD_MV
           flags == {f \in {"LOW", "CRITICAL", "OVERTEMP", "CRIT_TEMP", "BROWNOUT"} : Holds2(f)}
<1>3. r = [mv |-> mv, dc10 |-> dc10, pct |-> battery_get_percent(mv), die |-> die,
           flags |-> flags]
  BY Zenon DEF battery_monitor_read
<1> HIDE DEF r, mv, dc10
<1>4. /\ "LOW" \in flags <=> battery_is_low(mv)
      /\ "CRITICAL" \in flags <=> battery_is_critical(mv)
      /\ "CRIT_TEMP" \in flags <=> temperature_is_critical(dc10)
      /\ "BROWNOUT" \in flags <=> mv < BROWNOUT_THRESHOLD_MV
  BY SMT
<1> HIDE DEF flags
<1>5. r.mv = mv /\ r.dc10 = dc10 /\ r.flags = flags /\ r.pct = battery_get_percent(mv)
  BY <1>3, SMT
<1>6. battery_is_critical(mv) => battery_get_percent(mv) = 0
  BY <1>1, PercentMatches, SMT DEF battery_is_critical
<1>7. battery_is_low(mv) <=> battery_get_percent(mv) < 10
  BY <1>1, PercentMatches, SMT DEF battery_is_low
<1>8. Consistent(r)
  BY <1>1, <1>2, <1>4, <1>5, <1>6, <1>7, SMT DEF Consistent
<1> QED BY <1>8 DEF r

(* The inductive invariant: besides the property, that the last report is    *)
(* consistent with itself and that the state is one of the four.            *)
BattInv ==
  /\ power_state \in PowerState
  /\ Consistent(batt_report)
  /\ ShutdownMatchesReports

(* The thresholds are nested: a brownout, latched or not, is critical.      *)
LEMMA BrownoutIsCritical ==
  ASSUME NEW mv \in Int, NEW active
  PROVE  /\ battery_is_brownout(mv, active) => battery_is_critical(mv)
         /\ mv < BROWNOUT_THRESHOLD_MV => battery_is_brownout(mv, active)
BY SMT DEF battery_is_brownout, battery_is_critical, BROWNOUT_THRESHOLD_MV,
           BROWNOUT_HYSTERESIS_MV

(* The switch enters the shutdown just when it is told to, and never leaves it. *)
LEMMA SwitchesDown ==
  ASSUME NEW state \in PowerState, NEW down, NEW low, NEW activity
  PROVE  /\ NextPowerState(state, down, low, activity) \in PowerState
         /\ NextPowerState(state, down, low, activity) = "SHUTDOWN"
              <=> (state = "SHUTDOWN" \/ down)
<1>1. CASE state = "SHUTDOWN" \/ down
  BY <1>1 DEF NextPowerState, PowerState
<1>2. CASE state = "ACTIVE" /\ ~down
  BY <1>2 DEF NextPowerState, PowerState
<1>3. CASE state = "IDLE" /\ ~down
  BY <1>3 DEF NextPowerState, PowerState
<1>4. CASE state = "SLEEP" /\ ~down
  BY <1>4 DEF NextPowerState, PowerState
<1> QED BY <1>1, <1>2, <1>3, <1>4 DEF PowerState

(* An update with any reading keeps the reports and the state in agreement. *)
LEMMA BattUpdateStep ==
  ASSUME BattInv, NEW raw \in Int, NEW die \in Int, NEW activity,
         power_state_update(raw, die, activity)
  PROVE  BattInv'
<1> DEFINE r == battery_monitor_read(raw, die)
           b == battery_is_brownout(r.mv, brownout_flag)
           down == battery_is_critical(r.mv) \/ b \/ temperature_is_critical(r.dc10)
<1>1. Consistent(r)
  BY ReportConsistent
<1>2. /\ batt_report' = r
      /\ brownout_flag' = b
      /\ power_state' = NextPowerState(power_state, down, battery_is_low(r.mv), activity)
      /\ batt_updated' = TRUE
      /\ batt_reason' = (batt_reason \/ r.flags \cap {"CRITICAL", "CRIT_TEMP"} # {})
  BY Zenon DEF power_state_update
<1> HIDE DEF r
<1>3. r.mv \in Int
  BY <1>1 DEF Consistent
<1>4. /\ b => battery_is_critical(r.mv)
      /\ r.mv < BROWNOUT_THRESHOLD_MV => b
  BY <1>3, BrownoutIsCritical
<1> HIDE DEF b
<1>5. down <=> r.flags \cap {"CRITICAL", "CRIT_TEMP"} # {}
  BY <1>1, <1>4 DEF Consistent
<1> HIDE DEF down
<1> DEFINE low == battery_is_low(r.mv)
<1> HIDE DEF low
<1>6. /\ power_state' \in PowerState
      /\ power_state' = "SHUTDOWN" <=> (power_state = "SHUTDOWN" \/ down)
  <2>1. power_state \in PowerState
    BY DEF BattInv
  <2>2. power_state' = NextPowerState(power_state, down, low, activity)
    BY <1>2 DEF low, down
  <2> QED BY <2>1, <2>2, SwitchesDown
<1>7. power_state = "SHUTDOWN" <=> batt_reason
  BY DEF BattInv, ShutdownMatchesReports
<1>8. power_state' = "SHUTDOWN" <=> batt_reason'
  BY <1>2, <1>5, <1>6, <1>7
<1>9. /\ batt_report'.flags \cap {"CRITICAL", "CRIT_TEMP"} # {} => power_state' = "SHUTDOWN"
      /\ "BROWNOUT" \in batt_report'.flags => brownout_flag'
      /\ brownout_flag' => "CRITICAL" \in batt_report'.flags
  BY <1>1, <1>2, <1>4, <1>5, <1>6 DEF Consistent
<1>10. /\ "CRITICAL" \in batt_report'.flags => batt_report'.pct = 0
       /\ "LOW" \in batt_report'.flags <=> batt_report'.pct < 10
  BY <1>1, <1>2 DEF Consistent
<1>11. ShutdownMatchesReports'
  BY <1>8, <1>9, <1>10 DEF ShutdownMatchesReports
<1>12. Consistent(batt_report)'
  BY <1>1, <1>2 DEF Consistent
<1> QED BY <1>6, <1>11, <1>12 DEF BattInv

(* Every step of the monitor keeps BattInv.                                 *)
LEMMA BattStep == BattInv /\ [BattNext]_battVars => BattInv'
<1> SUFFICES ASSUME BattInv, [BattNext]_battVars PROVE BattInv'
  OBVIOUS
<1>1. ASSUME NEW raw \in BattRaws, NEW die \in DieTemps, NEW activity \in BOOLEAN,
             power_state_update(raw, die, activity)
      PROVE  BattInv'
  <2>1. raw \in Int /\ die \in Int
    BY <1>1, BattAssumption, SMT
  <2> QED BY <1>1, <2>1, BattUpdateStep
<1>2. ASSUME NEW state \in PowerState, power_state_set(state) PROVE BattInv'
  BY <1>2 DEF power_state_set, BattInv, ShutdownMatchesReports, Consistent
<1>3. CASE BattReset
  BY <1>3 DEF BattReset, BattInv, ShutdownMatchesReports, Consistent, PowerState
<1>4. CASE UNCHANGED battVars
  BY <1>4 DEF battVars, BattInv, ShutdownMatchesReports, Consistent
<1> QED BY <1>1, <1>2, <1>3, <1>4 DEF BattNext

(* For every conversion and every temperature, after any history of sags,     *)
(* recoveries, forced states and resets: the flags, the percentage, the       *)
(* brownout latch and the power state agree (ShutdownMatchesReports).        *)
THEOREM ShutdownIsReported == BattSpec => []ShutdownMatchesReports
<1>1. BattInit => BattInv
  <2> SUFFICES ASSUME BattInit PROVE BattInv
    OBVIOUS
  <2>1. 1293 \in Int /\ 270 \in Int
    BY SMT
  <2>2. Consistent(battery_monitor_read(1293, 270))
    BY <2>1, ReportConsistent, SMT
  <2>3. batt_report = battery_monitor_read(1293, 270)
    BY SMT DEF BattInit
  <2>4. Consistent(batt_report)
    BY <2>2, <2>3, SMT
  <2>5. power_state = "ACTIVE" /\ ~batt_updated /\ ~batt_reason
    BY SMT DEF BattInit
  <2> QED BY <2>4, <2>5 DEF BattInv, ShutdownMatchesReports, Consistent, PowerState
<1>2. BattSpec => []BattInv
  BY <1>1, BattStep, PTL DEF BattSpec
<1>3. BattInv => ShutdownMatchesReports
  BY DEF BattInv
<1> QED BY <1>2, <1>3, PTL

-----------------------------------------------------------------------------
(* The SDR driver and the arithmetic of its synthesiser.                     *)
Steps == {1, 2, 4, 8, 16, 32}

(* Membership of the ranges, with their bounds kept symbolic.               *)
LEMMA LmsRanges ==
  ASSUME NEW v \in Int
  PROVE  /\ v \in VCO_MIN .. VCO_MAX <=> (VCO_MIN <= v /\ v <= VCO_MAX)
         /\ v \in FREQ_MIN .. FREQ_MAX <=> (FREQ_MIN <= v /\ v <= FREQ_MAX)
         /\ v \in VCO_MIN \div 32 .. FREQ_MAX <=> (VCO_MIN \div 32 <= v /\ v <= FREQ_MAX)
<1>1. VCO_MIN \in Int /\ VCO_MAX \in Int /\ FREQ_MIN \in Int /\ FREQ_MAX \in Int
  BY SMT DEF VCO_MIN, VCO_MAX, FREQ_MIN, FREQ_MAX
<1> QED BY <1>1, SMT

(* The bounds, where their values matter.                                   *)
LEMMA LmsNumbers ==
  /\ VCO_MIN = 188000 /\ VCO_MAX = 580000 /\ FREQ_MIN = 10 /\ FREQ_MAX = 380000
  /\ VCO_MIN \div 32 = 5875 /\ REF_CLK = 3072
BY SMT DEF VCO_MIN, VCO_MAX, FREQ_MIN, FREQ_MAX, REF_CLK

(* A divider is usable when it brings the VCO into its range.               *)
LEMMA DividersAre ==
  ASSUME NEW f \in Nat, NEW d
  PROVE  d \in Dividers(f) <=> (d \in Steps /\ 188000 <= f * d /\ f * d <= 580000)
<1>1. ASSUME d \in Steps PROVE f * d \in VCO_MIN .. VCO_MAX <=> (188000 <= f * d /\ f * d <= 580000)
  <2>1. f * d \in Int
    BY <1>1, SMT DEF Steps
  <2> DEFINE v == f * d
  <2> HIDE DEF v
  <2>2. v \in Int
    BY <2>1, SMT DEF v
  <2>3. v \in VCO_MIN .. VCO_MAX <=> (188000 <= v /\ v <= 580000)
    <3>1. v \in VCO_MIN .. VCO_MAX <=> (VCO_MIN <= v /\ v <= VCO_MAX)
      BY <2>2, LmsRanges, SMT
    <3>2. (VCO_MIN <= v /\ v <= VCO_MAX) <=> (188000 <= v /\ v <= 580000)
      BY LmsNumbers, SMT
    <3> QED BY <3>1, <3>2, PTL
  <2> QED BY <2>3, SMT DEF v
<1>2. d \in Dividers(f) <=> (d \in Steps /\ f * d \in VCO_MIN .. VCO_MAX)
  BY Zenon DEF Dividers, Steps
<1> QED BY <1>1, <1>2, SMT

(* Each octave from 58.75 MHz up has a smallest usable divider ...          *)
LEMMA LeastDivider ==
  ASSUME NEW f \in Nat, 5875 <= f, f <= 380000
  PROVE  \E d \in Dividers(f) : \A e \in Dividers(f) : d <= e
<1>1. CASE 188000 <= f
  <2>1. 1 \in Dividers(f)
    BY <1>1, DividersAre, SMT DEF Steps
  <2>2. \A e \in Dividers(f) : 1 <= e
    BY DividersAre, SMT DEF Steps
  <2> QED BY <2>1, <2>2, SMT
<1>2. CASE 94000 <= f /\ f < 188000
  <2>1. 2 \in Dividers(f)
    BY <1>2, DividersAre, SMT DEF Steps
  <2>2. \A e \in Dividers(f) : 2 <= e
    BY <1>2, DividersAre, SMT DEF Steps
  <2> QED BY <2>1, <2>2, SMT
<1>3. CASE 47000 <= f /\ f < 94000
  <2>1. 4 \in Dividers(f)
    BY <1>3, DividersAre, SMT DEF Steps
  <2>2. \A e \in Dividers(f) : 4 <= e
    BY <1>3, DividersAre, SMT DEF Steps
  <2> QED BY <2>1, <2>2, SMT
<1>4. CASE 23500 <= f /\ f < 47000
  <2>1. 8 \in Dividers(f)
    BY <1>4, DividersAre, SMT DEF Steps
  <2>2. \A e \in Dividers(f) : 8 <= e
    BY <1>4, DividersAre, SMT DEF Steps
  <2> QED BY <2>1, <2>2, SMT
<1>5. CASE 11750 <= f /\ f < 23500
  <2>1. 16 \in Dividers(f)
    BY <1>5, DividersAre, SMT DEF Steps
  <2>2. \A e \in Dividers(f) : 16 <= e
    BY <1>5, DividersAre, SMT DEF Steps
  <2> QED BY <2>1, <2>2, SMT
<1>6. CASE f < 11750
  <2>1. 32 \in Dividers(f)
    BY <1>6, DividersAre, SMT DEF Steps
  <2>2. \A e \in Dividers(f) : 32 <= e
    BY <1>6, DividersAre, SMT DEF Steps
  <2> QED BY <2>1, <2>2, SMT
<1> QED BY <1>1, <1>2, <1>3, <1>4, <1>5, <1>6, SMT

(* The least element of a set that has one is in it.                        *)
LEMMA MinIsMember ==
  ASSUME NEW S, NEW d \in S, \A e \in S : d <= e
  PROVE  Min(S) \in S
BY Zenon DEF Min

(* ... and that one, which is usable, is what the search returns.           *)
LEMMA DividerChosen ==
  ASSUME NEW f \in Nat, 5875 <= f, f <= 380000
  PROVE  Min(Dividers(f)) \in Dividers(f)
<1>1. PICK d \in Dividers(f) : \A e \in Dividers(f) : d <= e
  BY LeastDivider, SMT
<1> QED BY <1>1, MinIsMember, SMT

(* The fraction loses one unit to rounding, or what the cut takes off.     *)
LEMMA FractionOff ==
  ASSUME NEW r \in Int, 0 <= r, r < 3072
  PROVE  LET q == (r * 16384) \div 3
             n == Min({q, 8388607})
         IN  /\ n \in Int
             /\ (n * 3) \div 16384 \in Int
             /\ 0 <= r - (n * 3) \div 16384
             /\ r - (n * 3) \div 16384 <= 1536
<1> DEFINE q == (r * 16384) \div 3
           n == Min({q, 8388607})
<1>1. q \in Int /\ 3 * q <= r * 16384 /\ r * 16384 <= 3 * q + 2
  BY SMT
<1> HIDE DEF q
<1>2. q <= 8388607 => n = q
  BY <1>1, SMT DEF Min
<1>3. q > 8388607 => n = 8388607
  BY <1>1, SMT DEF Min
<1> HIDE DEF n
<1>4. n \in Int
  BY <1>1, <1>2, <1>3, SMT
<1>5. CASE q <= 8388607
  <2>1. n = q
    BY <1>2, <1>5, SMT
  <2> QED BY <1>1, <2>1, SMT DEF n, q
<1>6. CASE q > 8388607
  <2>1. n = 8388607
    BY <1>3, <1>6, SMT
  <2> QED BY <1>1, <1>6, <2>1, SMT DEF n, q
<1> QED BY <1>1, <1>5, <1>6, SMT

(* Dividing again by the divider loses what is left of that, rounded up.    *)
LEMMA DivideBack ==
  ASSUME NEW f \in Int, NEW d \in Steps, NEW e \in Int, 0 <= e, e <= 1536
  PROVE  LET s == (f * d - e) \div d
         IN  s \in Int /\ 0 <= f - s /\ f - s <= 3072 \div (2 * d) + 1
<1>1. CASE d = 1
  BY <1>1, SMT
<1>2. CASE d = 2
  BY <1>2, SMT
<1>3. CASE d = 4
  BY <1>3, SMT
<1>4. CASE d = 8
  BY <1>4, SMT
<1>5. CASE d = 16
  BY <1>5, SMT
<1>6. CASE d = 32
  BY <1>6, SMT
<1> QED BY <1>1, <1>2, <1>3, <1>4, <1>5, <1>6, SMT DEF Steps

(* What PllCovers says of parameters that have been computed.               *)
Covered(p) ==
  /\ p.rc = "OK" <=> p.freq \in VCO_MIN \div 32 .. FREQ_MAX
  /\ p.rc = "OK" =>
       /\ p.freq * p.div \in VCO_MIN .. VCO_MAX
       /\ p.freq - Synthesised(p) \in 0 .. (REF_CLK \div (2 * p.div)) + 1

(* A frequency out of the range is refused.                                 *)
LEMMA LowIsRefused ==
  ASSUME NEW f \in Nat, ~(5875 <= f /\ f <= 380000)
  PROVE  Covered(PllParams(f))
<1>1. f < 5875 => Dividers(f) = {}
  <2>1. ASSUME f < 5875 PROVE \A d : d \notin Dividers(f)
    BY <2>1, DividersAre, SMT DEF Steps
  <2> QED BY <2>1, SMT
<1>2. f \notin FREQ_MIN .. FREQ_MAX \/ Dividers(f) = {}
  <2>1. f \in FREQ_MIN .. FREQ_MAX <=> (FREQ_MIN <= f /\ f <= FREQ_MAX)
    BY LmsRanges, SMT
  <2>2. ~(FREQ_MIN <= f /\ f <= FREQ_MAX) \/ Dividers(f) = {}
    BY <1>1, LmsNumbers, SMT
  <2>3. ~(f \in FREQ_MIN .. FREQ_MAX) \/ Dividers(f) = {}
    BY <2>1, <2>2, PTL
  <2> QED BY <2>3, SMT
<1>3. PllParams(f) = [NoPll EXCEPT !.rc = "INVALID_PARAM", !.freq = f]
  BY <1>2, SMT DEF PllParams
<1>4. PllParams(f).rc = "INVALID_PARAM" /\ PllParams(f).freq = f
  BY <1>3, SMT DEF NoPll
<1>5. f \notin VCO_MIN \div 32 .. FREQ_MAX
  <2>1. f \in VCO_MIN \div 32 .. FREQ_MAX <=> (VCO_MIN \div 32 <= f /\ f <= FREQ_MAX)
    BY LmsRanges, SMT
  <2>2. ~(VCO_MIN \div 32 <= f /\ f <= FREQ_MAX)
    BY LmsNumbers, SMT
  <2>3. ~(f \in VCO_MIN \div 32 .. FREQ_MAX)
    BY <2>1, <2>2, PTL
  <2> QED BY <2>3, SMT
<1> QED BY <1>4, <1>5, SMT DEF Covered

(* A frequency of the range: the VCO is in range and its ratio in 1 .. 255.  *)
LEMMA InRangeIsCovered ==
  ASSUME NEW f \in Nat, 5875 <= f, f <= 380000
  PROVE  Covered(PllParams(f))
<1> DEFINE d == Min(Dividers(f))
           v == f * d
           nint == v \div REF_CLK
           r == v % REF_CLK
           nfrac == Min({(r * 16384) \div 3, 8388607})
<1>1. d \in Dividers(f)
  BY DividerChosen, SMT
<1> HIDE DEF d
<1>2. d \in Steps /\ 188000 <= v /\ v <= 580000
  BY <1>1, DividersAre, SMT
<1>3. v \in Int
  BY <1>2, SMT DEF Steps
<1> HIDE DEF v
<1>4. /\ nint \in Int /\ 1 <= nint /\ nint <= 255
      /\ r \in Int /\ 0 <= r /\ r < 3072 /\ v = nint * 3072 + r
  BY <1>2, <1>3, LmsNumbers, SMT
<1> HIDE DEF nint, r
<1>5. nint \in PLL_INT
  BY <1>4, SMT DEF PLL_INT
<1>6. f \in FREQ_MIN .. FREQ_MAX /\ f \in VCO_MIN \div 32 .. FREQ_MAX
  <2>1. /\ f \in FREQ_MIN .. FREQ_MAX <=> (FREQ_MIN <= f /\ f <= FREQ_MAX)
        /\ f \in VCO_MIN \div 32 .. FREQ_MAX <=> (VCO_MIN \div 32 <= f /\ f <= FREQ_MAX)
    BY LmsRanges, SMT
  <2>2. FREQ_MIN <= f /\ VCO_MIN \div 32 <= f /\ f <= FREQ_MAX
    BY LmsNumbers, SMT
  <2> QED BY <2>1, <2>2, PTL
<1> DEFINE p == PllParams(f)
<1>7. p = [rc |-> "OK", freq |-> f, nint |-> nint, nfrac |-> nfrac, div |-> d]
  <2>1. Dividers(f) # {}
    BY <1>1, SMT
  <2> QED BY <1>5, <1>6, <2>1, SMT DEF PllParams, d, v, nint, r
<1> HIDE DEF p, nfrac
<1>8. p.rc = "OK" /\ p.freq = f /\ p.nint = nint /\ p.nfrac = nfrac /\ p.div = d
  BY <1>7, SMT
<1> DEFINE e == r - (nfrac * 3) \div 16384
<1>9. e \in Int /\ 0 <= e /\ e <= 1536 /\ (nfrac * 3) \div 16384 = r - e
  BY <1>4, FractionOff, SMT DEF nfrac
<1> HIDE DEF e
<1>10. Synthesised(p) = (f * d - e) \div d
  <2>1. Synthesised(p) = (nint * 3072 + (r - e)) \div d
    BY <1>8, <1>9, LmsNumbers, SMT DEF Synthesised
  <2>2. nint * 3072 + (r - e) = f * d - e
    BY <1>3, <1>4, <1>9, SMT DEF v
  <2> QED BY <2>1, <2>2, SMT
<1> DEFINE s == Synthesised(p)
<1>11. s \in Int /\ 0 <= f - s /\ f - s <= REF_CLK \div (2 * d) + 1
  BY <1>2, <1>9, <1>10, DivideBack, LmsNumbers, SMT
<1> HIDE DEF s
<1>12. f * d \in VCO_MIN .. VCO_MAX
  <2>1. v \in VCO_MIN .. VCO_MAX <=> (VCO_MIN <= v /\ v <= VCO_MAX)
    BY <1>3, LmsRanges, SMT
  <2>2. VCO_MIN <= v /\ v <= VCO_MAX
    BY <1>2, LmsNumbers, SMT
  <2>3. v \in VCO_MIN .. VCO_MAX
    BY <2>1, <2>2, PTL
  <2> QED BY <2>3, SMT DEF v
<1> DEFINE b == REF_CLK \div (2 * d) + 1
<1>13. b \in Int
  BY <1>2, LmsNumbers, SMT DEF Steps
<1> HIDE DEF b
<1>14. f - s \in 0 .. b
  BY <1>11, <1>13, SMT DEF b
<1> QED BY <1>6, <1>8, <1>12, <1>14, SMT DEF Covered, s, b, p

(* The property, in terms of Covered.                                       *)
LmsInv == lms_pll # NoPll => Covered(lms_pll)

(* The synthesiser has no gap: whatever frequencies are asked for, those from *)
(* VCO_MIN / 32 to the upper limit get parameters that put the VCO in range,  *)
(* lower ones are refused, and the error is bounded (PllCovers).             *)
THEOREM SynthesiserHasNoGap == LmsSpec => []PllCovers
<1>1. LmsInit => LmsInv
  BY SMT DEF LmsInit, LmsInv
<1>2. LmsInv /\ [LmsNext]_lmsVars => LmsInv'
  <2> SUFFICES ASSUME LmsInv, [LmsNext]_lmsVars PROVE LmsInv'
    OBVIOUS
  <2>1. ASSUME NEW f \in LmsFreqs, lms7002m_calculate_pll_params(f) PROVE LmsInv'
    <3>1. f \in Nat
      BY LmsAssumption
    <3>2. Covered(PllParams(f))
      BY <3>1, LowIsRefused, InRangeIsCovered, SMT
    <3>3. lms_pll' = PllParams(f)
      BY <2>1 DEF lms7002m_calculate_pll_params
    <3> QED BY <3>2, <3>3 DEF LmsInv
  <2>2. CASE UNCHANGED lms_pll
    BY <2>2 DEF LmsInv
  <2> QED
    BY <2>1, <2>2 DEF LmsNext, lmsVars, lms7002m_reset, NeedsInit, lms7002m_init,
                      lms7002m_set_channel
<1>3. LmsInv <=> PllCovers
  BY PTL DEF LmsInv, PllCovers, Covered
<1> QED BY <1>1, <1>2, <1>3, PTL DEF LmsSpec

-----------------------------------------------------------------------------
(* The battery calibration.                                                 *)
(* Euclid's division with a positive divisor.                               *)
LEMMA DivBounds ==
  ASSUME NEW a \in Int, NEW b \in Int, b > 0
  PROVE  /\ a \div b \in Int
         /\ (a \div b) * b <= a
         /\ a < (a \div b) * b + b
BY SMT

(* Truncation is the floor when nothing is negative ...                     *)
LEMMA CDivPositive ==
  ASSUME NEW a \in Int, NEW b \in Int, a >= 0, b > 0
  PROVE  CDiv(a, b) = a \div b
<1>1. Abs(a) = a /\ Abs(b) = b /\ ~(a < 0) /\ ~(b < 0)
  BY SMT DEF Abs
<1>2. CDiv(a, b) = 1 * (a \div b)
  BY <1>1, SMT DEF CDiv
<1> QED BY <1>2, DivBounds, SMT

(* The case of the thousandths the coefficients are kept in.                *)
LEMMA CDivThousand ==
  ASSUME NEW a \in Int, a >= 0
  PROVE  CDiv(a, 1000) = a \div 1000
<1>1. 1000 \in Int /\ 1000 > 0
  BY SMT
<1> QED BY <1>1, CDivPositive, SMT

(* ... and a negative divisor gives no positive quotient.                   *)
LEMMA CDivNegative ==
  ASSUME NEW a \in Int, NEW b \in Int, a >= 0, b < 0
  PROVE  CDiv(a, b) <= 0
<1>1. Abs(a) = a /\ Abs(b) = -b /\ ~(a < 0) /\ b < 0
  BY SMT DEF Abs
<1>2. CDiv(a, b) = (-1) * (a \div (-b))
  BY <1>1, SMT DEF CDiv
<1>3. a \div (-b) \in Int /\ a \div (-b) >= 0
  <2> DEFINE c == -b
             q == a \div c
  <2>1. c \in Int /\ c > 0
    BY SMT
  <2> HIDE DEF c
  <2>2. q \in Int /\ q * c <= a /\ a < q * c + c
    BY <2>1, DivBounds, SMT
  <2> HIDE DEF q
  <2>3. q >= 0
    BY <2>1, <2>2, SMT
  <2> QED BY <2>2, <2>3, SMT DEF q, c
<1> QED BY <1>2, <1>3, SMT

(* The offset times the deviation of the gain: at most 20 mV, in thousandths. *)
LEMMA OffsetError ==
  ASSUME NEW o \in Int, NEW g \in Int, -200 <= o, o <= 200, 900 <= g, g <= 1100
  PROVE  /\ o * g \in Int
         /\ -20000 <= o * g - 1000 * o /\ o * g - 1000 * o <= 20000
<1> DEFINE k == g - 1000
<1>1. k \in Int /\ -100 <= k /\ k <= 100
  BY SMT
<1>2. o * g - 1000 * o = o * k
  BY SMT
<1> HIDE DEF k
<1>3. -20000 <= o * k /\ o * k <= 20000
  BY <1>1, SMT
<1> QED BY <1>2, <1>3, SMT

(* An accepted calibration: the high point is also measured higher, and the  *)
(* gain and the offset are those of the line, within their limits.          *)
LEMMA AcceptedLine ==
  ASSUME NEW low \in Int, NEW high \in Int, NEW ml \in Nat, NEW mh \in Nat,
         CalVerdict(low, high, ml, mh) = 0
  PROVE  LET g == Gain(low, high, ml, mh)
             o == Offset(low, ml, g)
         IN  /\ g \in Int /\ 900 <= g /\ g <= 1100
             /\ o \in Int /\ -200 <= o /\ o <= 200
             /\ 2800 <= low /\ low < high /\ high <= 4500
             /\ g * (mh - ml) <= (high - low) * 1000
             /\ (high - low) * 1000 < g * (mh - ml) + (mh - ml)
             /\ 1000 * (low - o) <= ml * g /\ ml * g < 1000 * (low - o) + 1000
<1> DEFINE g == Gain(low, high, ml, mh)
           o == Offset(low, ml, g)
<1>1. /\ ~(low < 2800 \/ low > 4500 \/ high < 2800 \/ high > 4500 \/ high <= low)
      /\ mh # ml
      /\ ~(g < 900 \/ g > 1100)
      /\ ~(o < -200 \/ o > 200)
  BY SMT DEF CalVerdict
<1>2. 2800 <= low /\ low < high /\ high <= 4500
  BY <1>1, SMT
<1> DEFINE a == (high - low) * 1000
           b == mh - ml
<1>3. a \in Int /\ b \in Int /\ a >= 0 /\ b # 0
  BY <1>1, <1>2, SMT
<1>4. g = CDiv(a, b)
  BY SMT DEF Gain
<1> HIDE DEF a, b
<1>5. b > 0
  <2>1. ASSUME b < 0 PROVE FALSE
    <3>1. g <= 0
      BY <1>3, <1>4, <2>1, CDivNegative, SMT
    <3>2. ~(g < 900)
      BY <1>1, PTL
    <3>3. g \in Int
      <4>1. Abs(a) = a /\ Abs(b) = -b /\ ~(a < 0) /\ b < 0
        BY <1>3, <2>1, SMT DEF Abs
      <4>2. g = (-1) * (a \div (-b))
        BY <1>4, <4>1, SMT DEF CDiv
      <4>3. a \div (-b) \in Int
        BY <1>3, <2>1, SMT
      <4> QED BY <4>2, <4>3, SMT
    <3> HIDE DEF g
    <3> QED BY <3>1, <3>2, <3>3, SMT
  <2> QED BY <1>3, <2>1, SMT
<1>6. g = a \div b
  BY <1>3, <1>4, <1>5, CDivPositive, SMT
<1>7. g \in Int /\ g * b <= a /\ a < g * b + b
  BY <1>3, <1>5, <1>6, DivBounds, SMT
<1> HIDE DEF g
<1>8. 900 <= g /\ g <= 1100
  BY <1>1, <1>7, SMT
<1> DEFINE c == ml * g
<1>9. c \in Int /\ c >= 0
  BY <1>7, <1>8, SMT
<1>10. o = low - CDiv(c, 1000)
  BY SMT DEF Offset
<1> HIDE DEF c
<1>11. CDiv(c, 1000) = c \div 1000
  BY <1>9, CDivThousand, SMT
<1>12. o = low - c \div 1000
  BY <1>10, <1>11, SMT
<1> HIDE DEF o
<1>13. o \in Int /\ 1000 * (low - o) <= c /\ c < 1000 * (low - o) + 1000
  BY <1>9, <1>12, SMT
<1>14. -200 <= o /\ o <= 200
  BY <1>1, <1>13, SMT
<1>15. /\ g * (mh - ml) <= (high - low) * 1000
       /\ (high - low) * 1000 < g * (mh - ml) + (mh - ml)
  BY <1>7, SMT DEF a, b
<1>16. 1000 * (low - o) <= ml * g /\ ml * g < 1000 * (low - o) + 1000
  BY <1>13, SMT DEF c
<1>17. g \in Int /\ o \in Int
  BY <1>7, <1>13
<1> QED BY <1>2, <1>8, <1>14, <1>15, <1>16, <1>17, PTL DEF g, o

(* A value of the right size is applied without truncation or clamp.        *)
LEMMA AppliedValue ==
  ASSUME NEW c, NEW m \in Int, NEW o \in Int, NEW g \in Int, c.offset = o, c.gain = g,
         NEW ref \in Int, 2800 <= ref, ref <= 4500, NEW err \in Int,
         -22000 <= err, err <= 22000, (m + o) * g = 1000 * ref + err
  PROVE  adc_cal_apply_vbat(c, m) - ref \in -CAL_ERROR_MV .. CAL_ERROR_MV
<1> DEFINE w == (m + o) * g
           v == CDiv(w, 1000)
<1>1. w \in Int /\ w >= 0 /\ w = 1000 * ref + err
  BY SMT
<1> HIDE DEF w
<1>2. v = w \div 1000
  BY <1>1, CDivThousand, SMT
<1> HIDE DEF v
<1>3. v \in Int /\ v - ref >= -22 /\ v - ref <= 22 /\ v >= 0 /\ v <= 65535
  BY <1>1, <1>2, SMT
<1>4. adc_cal_apply_vbat(c, m) = IF v < 0 THEN 0 ELSE IF v > 65535 THEN 65535 ELSE v
  BY SMT DEF adc_cal_apply_vbat, v, w
<1>5. adc_cal_apply_vbat(c, m) = v
  BY <1>3, <1>4, SMT
<1>6. v - ref \in -CAL_ERROR_MV .. CAL_ERROR_MV
  BY <1>3, SMT DEF CAL_ERROR_MV
<1> QED BY <1>5, <1>6, SMT

(* The coefficients of an accepted calibration are sound: gain * (mV + offset) *)
(* for gain * mV + offset costs offset * (gain - 1), 20 mV at most; what the   *)
(* divisions drop costs at the high point at most 1.9 mV more.                *)
LEMMA AcceptedIsSound ==
  ASSUME NEW low \in Int, NEW high \in Int, NEW ml \in Nat, NEW mh \in Nat,
         CalVerdict(low, high, ml, mh) = 0,
         NEW c,
         c.gain = Gain(low, high, ml, mh),
         c.offset = Offset(low, ml, Gain(low, high, ml, mh)),
         c.calibrated, c.points = {<<ml, low>>, <<mh, high>>}
  PROVE  FitsItsPoints(c)
<1> DEFINE g == Gain(low, high, ml, mh)
           o == Offset(low, ml, g)
           x == ml * g
           y == o * g
           z == g * (mh - ml)
<1>1. /\ g \in Int /\ 900 <= g /\ g <= 1100
      /\ o \in Int /\ -200 <= o /\ o <= 200
      /\ 2800 <= low /\ low < high /\ high <= 4500
      /\ z <= (high - low) * 1000 /\ (high - low) * 1000 < z + (mh - ml)
      /\ 1000 * (low - o) <= x /\ x < 1000 * (low - o) + 1000
  BY AcceptedLine, SMT
<1>2. c.gain = g /\ c.offset = o
  OBVIOUS
<1> HIDE DEF g, o
<1>3. y \in Int /\ -20000 <= y - 1000 * o /\ y - 1000 * o <= 20000
  BY <1>1, OffsetError, SMT
<1>4. x \in Int /\ z \in Int /\ z >= 900 * (mh - ml)
  <2>1. mh - ml > 0
    BY <1>1, SMT
  <2> QED BY <1>1, <2>1, SMT
<1>5. /\ (ml + o) * g = x + y
      /\ (mh + o) * g = x + z + y
  BY <1>1, SMT
<1> HIDE DEF x, y, z
<1>6. adc_cal_apply_vbat(c, ml) - low \in -CAL_ERROR_MV .. CAL_ERROR_MV
  <2> DEFINE e == x + y - 1000 * low
  <2>1. e \in Int /\ -22000 <= e /\ e <= 22000 /\ x + y = 1000 * low + e
    BY <1>1, <1>3, <1>4, SMT
  <2> HIDE DEF e
  <2>2. (ml + o) * g = 1000 * low + e
    BY <1>5, <2>1, SMT
  <2>3. ml \in Int /\ low <= 4500
    BY <1>1, SMT
  <2> QED BY <1>1, <1>2, <2>1, <2>2, <2>3, AppliedValue, SMT
<1>7. adc_cal_apply_vbat(c, mh) - high \in -CAL_ERROR_MV .. CAL_ERROR_MV
  <2> DEFINE e == x + z + y - 1000 * high
  <2>1. mh - ml <= 1900
    BY <1>1, <1>4, SMT
  <2>2. e \in Int /\ -22000 <= e /\ e <= 22000 /\ x + z + y = 1000 * high + e
    BY <1>1, <1>3, <1>4, <2>1, SMT
  <2> HIDE DEF e
  <2>3. (mh + o) * g = 1000 * high + e
    BY <1>5, <2>2, SMT
  <2>4. mh \in Int /\ 2800 <= high
    BY <1>1, SMT
  <2> QED BY <1>1, <1>2, <2>2, <2>3, <2>4, AppliedValue, SMT
<1>8. c.points # {}
  OBVIOUS
<1> QED BY <1>6, <1>7, <1>8, SMT DEF FitsItsPoints

(* Coefficients with points come whole from one calibration and give its      *)
(* references back; those of a torn or erased record have none.              *)
WholeFits(c) == c.points = {} \/ FitsItsPoints(c)

RecordOk(r) ==
  /\ r.sum \in Int /\ 0 <= r.sum /\ r.sum <= 255
  /\ r.checksum \in Int /\ 0 <= r.checksum /\ r.checksum <= 255
  /\ WholeFits(r.coeffs)

(* A torn record came into use by the chance of its sum.                     *)
TakenByChance ==
  /\ cal_coeffs = cal_flash.coeffs /\ cal_coeffs.points = {}
  /\ cal_flash.magic /\ cal_flash.sum % 256 = 0

(* The inductive invariant: the coefficients in use, those in flash and those *)
(* on their way there fit their points if they have any, and flash is only    *)
(* written while coefficients with points are in use.                        *)
CalInv ==
  /\ WholeFits(cal_coeffs) /\ RecordOk(cal_flash) /\ RecordOk(cal_record)
  /\ cal_loaded => cal_coeffs = Nominal \/ cal_coeffs.points # {} \/ TakenByChance
  /\ cal_step \in {"erase", "program", "verify"} => cal_coeffs.points # {}

(* The nominal coefficients and an erased record have no points.             *)
LEMMA ErasedIsOk == WholeFits(Nominal) /\ RecordOk(Erased)
<1>1. Nominal.points = {} /\ Erased.coeffs.points = {}
  BY SMT DEF Nominal, Erased
<1>2. Erased.sum = 0 /\ Erased.checksum = 255
  BY SMT DEF Erased
<1> QED BY <1>1, <1>2, SMT DEF WholeFits, RecordOk

(* Nor has a torn record.                                                   *)
LEMMA TornIsOk ==
  ASSUME NEW r, RecordOk(r), NEW t \in Torn(r)
  PROVE  RecordOk(t)
<1>1. PICK sum \in CalSums, checksum \in {r.checksum, 255} :
        t.sum = sum /\ t.checksum = checksum /\ t.coeffs.points = {}
  BY SMT DEF Torn
<1>2. sum \in Int /\ 0 <= sum /\ sum <= 255
  BY CalAssumption, SMT
<1>3. checksum \in Int /\ 0 <= checksum /\ checksum <= 255
  BY SMT DEF RecordOk
<1> QED BY <1>1, <1>2, <1>3, SMT DEF RecordOk, WholeFits

(* A record is taken as valid only when its bytes sum to 0.                  *)
LEMMA ValidMeansZero ==
  ASSUME NEW r, RecordOk(r), ValidRecord(r)
  PROVE  r.magic /\ r.sum % 256 = 0
<1> DEFINE a == r.sum
           b == r.checksum
<1>1. a \in Int /\ 0 <= a /\ a <= 255 /\ b \in Int /\ 0 <= b /\ b <= 255
  BY SMT DEF RecordOk
<1>2. r.magic /\ b = (a + b) % 256
  BY SMT DEF ValidRecord, compute_checksum
<1> HIDE DEF a, b
<1>3. a = 0
  BY <1>1, <1>2, SMT
<1>4. a % 256 = 0
  BY <1>3, SMT
<1> QED BY <1>2, <1>4, SMT DEF a

(* The computation keeps CalInv.                                            *)
LEMMA CalComputeStep ==
  ASSUME CalInv, NEW low \in Int, NEW high \in Int, NEW ml \in Nat, NEW mh \in Nat,
         NEW sum \in CalSums, CalCompute(low, high, ml, mh, sum)
  PROVE  CalInv'
<1> DEFINE g == Gain(low, high, ml, mh)
           o == Offset(low, ml, g)
           c == [offset |-> o, gain |-> g, calibrated |-> TRUE,
                 points |-> {<<ml, low>>, <<mh, high>>}]
           r == [magic |-> TRUE, coeffs |-> c, sum |-> sum, checksum |-> 0]
<1>1. /\ CalVerdict(low, high, ml, mh) = 0
      /\ cal_coeffs' = c
      /\ cal_record' = [r EXCEPT !.checksum = compute_checksum(r)]
      /\ cal_flash' = cal_flash
  BY Zenon DEF CalCompute
<1>2. FitsItsPoints(c)
  <2>1. c.gain = g /\ c.offset = o /\ c.calibrated /\ c.points = {<<ml, low>>, <<mh, high>>}
    BY SMT
  <2> HIDE DEF c
  <2> QED BY <1>1, <2>1, AcceptedIsSound, SMT
<1>3. c.points # {}
  BY <1>2, Zenon DEF FitsItsPoints
<1> HIDE DEF c
<1>4. /\ cal_record'.coeffs = c /\ cal_record'.sum = sum
      /\ cal_record'.checksum = compute_checksum(r)
  BY <1>1, SMT
<1>5. sum \in Int /\ 0 <= sum /\ sum <= 255
  BY CalAssumption, SMT
<1>6. compute_checksum(r) = (sum + 0) % 256
  BY SMT DEF compute_checksum
<1>7. compute_checksum(r) \in Int /\ 0 <= compute_checksum(r) /\ compute_checksum(r) <= 255
  BY <1>5, <1>6, SMT
<1>8. RecordOk(cal_record)'
  BY <1>2, <1>4, <1>5, <1>7, SMT DEF RecordOk, WholeFits
<1>9. RecordOk(cal_flash)'
  BY <1>1, SMT DEF CalInv
<1>10. WholeFits(cal_coeffs)' /\ cal_coeffs'.points # {}
  BY <1>1, <1>2, <1>3, SMT DEF WholeFits
<1> QED BY <1>8, <1>9, <1>10, Zenon DEF CalInv

(* Flash changes only while coefficients with points are in use.             *)
LEMMA CalFlashStep ==
  ASSUME CalInv, cal_step \in {"erase", "program"}, RecordOk(cal_flash)',
         UNCHANGED <<cal_coeffs, cal_record>>
  PROVE  CalInv'
<1>1. cal_coeffs.points # {}
  BY SMT DEF CalInv
<1>2. WholeFits(cal_coeffs)' /\ RecordOk(cal_record)' /\ cal_coeffs'.points # {}
  BY <1>1, SMT DEF CalInv
<1> QED BY <1>2, Zenon DEF CalInv

(* Every step of the calibration, and every loss of power, keeps CalInv.     *)
LEMMA CalStep == CalInv /\ [CalNext]_calVars => CalInv'
<1> SUFFICES ASSUME CalInv, [CalNext]_calVars PROVE CalInv'
  OBVIOUS
<1>1. CASE adc_cal_init
  <2>1. /\ cal_coeffs' = IF ValidRecord(cal_flash) THEN cal_flash.coeffs ELSE Nominal
        /\ UNCHANGED <<cal_flash, cal_record>> /\ cal_step' = "run"
    BY <1>1, Zenon DEF adc_cal_init
  <2>2. RecordOk(cal_flash)' /\ RecordOk(cal_record)' /\ RecordOk(cal_flash)
    BY <2>1, SMT DEF CalInv
  <2>3. CASE ValidRecord(cal_flash)
    <3>1. cal_flash.magic /\ cal_flash.sum % 256 = 0
      BY <2>2, <2>3, ValidMeansZero, SMT
    <3>2. cal_coeffs' = cal_flash'.coeffs /\ WholeFits(cal_coeffs)'
      BY <2>1, <2>2, <2>3, SMT DEF RecordOk
    <3>3. cal_coeffs'.points # {} \/ TakenByChance'
      BY <2>1, <3>1, <3>2, SMT DEF TakenByChance
    <3> QED BY <2>1, <2>2, <3>2, <3>3, SMT DEF CalInv
  <2>4. CASE ~ValidRecord(cal_flash)
    <3>1. cal_coeffs' = Nominal /\ WholeFits(cal_coeffs)'
      BY <2>1, <2>4, ErasedIsOk, SMT
    <3> QED BY <2>1, <2>2, <3>1, SMT DEF CalInv
  <2> QED BY <2>3, <2>4
<1>2. CASE CalPowerLoss
  <2>1. /\ cal_coeffs' = Nominal /\ cal_record' = Erased /\ cal_step' = "off"
        /\ \/ cal_flash' = cal_flash
           \/ cal_flash' \in Torn(cal_flash) \/ cal_flash' \in Torn(cal_record)
    BY <1>2, Zenon DEF CalPowerLoss
  <2>2. RecordOk(cal_flash) /\ RecordOk(cal_record)
    BY Zenon DEF CalInv
  <2>3. RecordOk(cal_flash')
    BY <2>1, <2>2, TornIsOk, Zenon
  <2>4. WholeFits(cal_coeffs') /\ RecordOk(cal_record')
    BY <2>1, ErasedIsOk, Zenon
  <2> QED BY <2>1, <2>3, <2>4, SMT DEF CalInv
<1>3. ASSUME NEW low, NEW high, NEW ml, NEW mh, CalRefused(low, high, ml, mh) PROVE CalInv'
  <2>1. UNCHANGED <<cal_coeffs, cal_loaded, cal_flash, cal_record, cal_step>>
    BY <1>3, Zenon DEF CalRefused
  <2> QED BY <2>1, SMT DEF CalInv, TakenByChance
<1>4. ASSUME NEW low \in CalVolts, NEW high \in CalVolts, NEW rl \in CalRaws,
             NEW rh \in CalRaws, NEW sum \in CalSums,
             CalCompute(low, high, MeasuredMv(rl), MeasuredMv(rh), sum)
      PROVE  CalInv'
  <2>1. low \in Int /\ high \in Int /\ rl \in Int /\ rh \in Int
    BY CalAssumption, SMT
  <2>2. MeasuredMv(rl) \in Nat /\ MeasuredMv(rh) \in Nat
    BY <2>1, SMT DEF MeasuredMv
  <2> QED BY <1>4, <2>1, <2>2, CalComputeStep, SMT
<1>5. CASE FlashErase
  <2>1. cal_step = "erase" /\ cal_flash' = Erased /\ UNCHANGED <<cal_coeffs, cal_record>>
    BY <1>5, Zenon DEF FlashErase
  <2>2. RecordOk(cal_flash)'
    BY <2>1, ErasedIsOk, SMT
  <2> QED BY <2>1, <2>2, CalFlashStep, SMT
<1>6. CASE FlashProgram
  <2>1. /\ cal_step = "program" /\ UNCHANGED <<cal_coeffs, cal_record>>
        /\ cal_flash' = cal_record \/ cal_flash' \in Torn(cal_record)
    BY <1>6, Zenon DEF FlashProgram
  <2>2. RecordOk(cal_record)
    BY Zenon DEF CalInv
  <2>3. RecordOk(cal_flash')
    BY <2>1, <2>2, TornIsOk, Zenon
  <2> QED BY <2>1, <2>3, CalFlashStep, SMT
<1>7. CASE CalVerify
  <2>1. UNCHANGED <<cal_coeffs, cal_loaded, cal_flash, cal_record>> /\ cal_step' = "run"
    BY <1>7, Zenon DEF CalVerify
  <2> QED BY <2>1, SMT DEF CalInv, TakenByChance
<1>8. CASE UNCHANGED calVars
  BY <1>8, SMT DEF calVars, CalInv, TakenByChance
<1> QED
  BY <1>1, <1>2, <1>3, <1>4, <1>5, <1>6, <1>7, <1>8, SMT DEF CalNext

(* For every reference voltage, reading and checksum, and with calibrations   *)
(* refused, torn by a loss of power at any step or failing to verify: the     *)
(* coefficients in use are nominal or correct at both points of one           *)
(* calibration to within 25 mV, or those of a torn record whose bytes happen  *)
(* to sum to 0 (CalibrationIsSound).                                         *)
THEOREM CalibrationStaysSound == CalSpec => []CalibrationIsSound
<1>1. CalInit => CalInv
  <2> SUFFICES ASSUME CalInit PROVE CalInv
    OBVIOUS
  <2>1. /\ cal_coeffs = Nominal /\ cal_flash = Erased /\ cal_record = Erased
        /\ cal_step = "off"
    BY Zenon DEF CalInit
  <2> QED BY <2>1, ErasedIsOk, SMT DEF CalInv
<1>2. CalInv => CalibrationIsSound
  BY SMT DEF CalInv, WholeFits, TakenByChance, CalibrationIsSound
<1> QED BY <1>1, <1>2, CalStep, PTL DEF CalSpec

-----------------------------------------------------------------------------
(* The SPI0 receive ring, for every ring size and every set of bytes.        *)
N == SPI_RX_BUF_SIZE

(* Slots in use when the head is a and the tail is b, and the slot of the   *)
(* k-th of them.                                                            *)
Lead(a, b) == (a - b) % N
Slot(b, k) == (b + k - 1) % N

(* The ring has at least two slots.                                         *)
LEMMA RingSize == N \in Nat /\ N > 1
  BY RingAssumption DEF N

(* The index after the last slot is 0.                                      *)
LEMMA Next1Cases ==
  ASSUME NEW i \in Slots
  PROVE  /\ Next1(i) \in Slots
         /\ Next1(i) = IF i = N - 1 THEN 0 ELSE i + 1
  BY RingAssumption DEF Next1, Slots, N

(* The number of slots in use, without modulo.                              *)
LEMMA LeadCases ==
  ASSUME NEW a \in Slots, NEW b \in Slots
  PROVE  /\ Lead(a, b) \in Nat /\ Lead(a, b) < N
         /\ Lead(a, b) = IF a >= b THEN a - b ELSE a - b + N
         /\ (Lead(a, b) = 0) <=> (a = b)
<1>1. /\ Lead(a, b) \in 0 .. N - 1
      /\ Lead(a, b) = IF a >= b THEN a - b ELSE a - b + N
  BY RingAssumption DEF Lead, Slots, N
<1> QED BY <1>1, RingAssumption DEF Slots, N

(* The slot of the k-th byte, without modulo.                               *)
LEMMA SlotCases ==
  ASSUME NEW b \in Slots, NEW k \in 1 .. N
  PROVE  /\ Slot(b, k) \in Slots
         /\ Slot(b, k) = IF b + k - 1 < N THEN b + k - 1 ELSE b + k - 1 - N
  BY RingAssumption DEF Slot, Slots, N

(* Filling one more slot, which is the one at the head.                      *)
LEMMA HeadMoves ==
  ASSUME NEW a \in Slots, NEW b \in Slots, Next1(a) # b
  PROVE  /\ Lead(Next1(a), b) = Lead(a, b) + 1
         /\ Slot(b, Lead(a, b) + 1) = a
         /\ \A k \in 1 .. Lead(a, b) : Slot(b, k) # a
<1>1. Next1(a) \in Slots /\ Next1(a) = IF a = N - 1 THEN 0 ELSE a + 1
  BY Next1Cases
<1>2. Lead(a, b) \in Nat /\ Lead(a, b) < N
      /\ Lead(a, b) = IF a >= b THEN a - b ELSE a - b + N
  BY LeadCases
<1>3. Lead(Next1(a), b) = IF Next1(a) >= b THEN Next1(a) - b ELSE Next1(a) - b + N
  BY <1>1, LeadCases
<1>4. \A k \in 1 .. N :
        Slot(b, k) = IF b + k - 1 < N THEN b + k - 1 ELSE b + k - 1 - N
  BY SlotCases
<1>5. Lead(Next1(a), b) = Lead(a, b) + 1
  BY <1>1, <1>2, <1>3, RingSize DEF Slots, N
<1>6. Lead(a, b) + 1 \in 1 .. N
  BY <1>2, RingSize
<1>7. Slot(b, Lead(a, b) + 1) = a
  BY <1>2, <1>4, <1>6, RingSize DEF Slots, N
<1>8. \A k \in 1 .. Lead(a, b) : Slot(b, k) # a
  BY <1>2, <1>4, RingSize DEF Slots, N
<1> QED BY <1>5, <1>7, <1>8

(* Freeing the slot at the tail, after which the second byte is the first.   *)
LEMMA TailMoves ==
  ASSUME NEW a \in Slots, NEW b \in Slots, a # b
  PROVE  /\ Lead(a, Next1(b)) = Lead(a, b) - 1
         /\ Slot(b, 1) = b
         /\ \A k \in 1 .. Lead(a, b) - 1 : Slot(Next1(b), k) = Slot(b, k + 1)
<1>1. Next1(b) \in Slots /\ Next1(b) = IF b = N - 1 THEN 0 ELSE b + 1
  BY Next1Cases
<1>2. Lead(a, b) \in Nat /\ Lead(a, b) < N
      /\ Lead(a, b) = IF a >= b THEN a - b ELSE a - b + N
  BY LeadCases
<1>3. Lead(a, Next1(b)) = IF a >= Next1(b) THEN a - Next1(b) ELSE a - Next1(b) + N
  BY <1>1, LeadCases
<1>4. \A k \in 1 .. N :
        Slot(b, k) = IF b + k - 1 < N THEN b + k - 1 ELSE b + k - 1 - N
  BY SlotCases
<1>5. \A k \in 1 .. N : Slot(Next1(b), k)
        = IF Next1(b) + k - 1 < N THEN Next1(b) + k - 1 ELSE Next1(b) + k - 1 - N
  BY <1>1, SlotCases
<1>6. Lead(a, Next1(b)) = Lead(a, b) - 1
  BY <1>1, <1>2, <1>3, RingSize DEF Slots, N
<1>7. Slot(b, 1) = b
  BY <1>4, RingSize DEF Slots, N
<1>8. ASSUME NEW k \in 1 .. Lead(a, b) - 1 PROVE Slot(Next1(b), k) = Slot(b, k + 1)
  <2>1. k \in 1 .. N /\ k + 1 \in 1 .. N
    BY <1>2, RingSize
  <2> QED BY <1>1, <1>4, <1>5, <2>1, RingSize DEF Slots, N
<1> QED BY <1>6, <1>7, <1>8

-----------------------------------------------------------------------------
(* Head, tail and every byte keep their types: the handler and the loop      *)
(* wrap their indices.                                                       *)
THEOREM RingTyping == Spec => []TypeOK
<1>1. Init => TypeOK
  <2>1. 0 \in Slots /\ 0 \in Bytes
    BY RingAssumption DEF Slots
  <2>2. [i \in Slots |-> 0] \in [Slots -> Bytes]
    BY <2>1
  <2> QED BY <2>1, <2>2 DEF Init, TypeOK
<1>2. TypeOK /\ [Next]_vars => TypeOK'
  <2> SUFFICES ASSUME TypeOK, [Next]_vars PROVE TypeOK'
    OBVIOUS
  <2> USE DEF TypeOK
  <2>1. ASSUME NEW b \in Bytes, spi0_handler(b) PROVE TypeOK'
    <3>1. Next1(spi_rx_head) \in Slots
      BY Next1Cases
    <3> QED BY <2>1, <3>1 DEF spi0_handler
  <2>2. CASE DrainTest
    BY <2>2 DEF DrainTest
  <2>3. CASE DrainLoad
    BY <2>3 DEF DrainLoad
  <2>4. CASE DrainStore
    BY <2>4, Next1Cases DEF DrainStore
  <2>5. CASE UNCHANGED vars
    BY <2>5 DEF vars
  <2> QED BY <2>1, <2>2, <2>3, <2>4, <2>5 DEF Next
<1> QED BY <1>1, <1>2, PTL DEF Spec

(* A handler that preempts the loop adds behind the oldest byte and never at *)
(* its slot.                                                                 *)
LEMMA LoadedStep ==
  ASSUME TypeOK, TypeOK', LoadedIsOldest, [Next]_vars
  PROVE  LoadedIsOldest'
<1> USE DEF TypeOK
<1>0. /\ (Used > 0) <=> (spi_rx_head # spi_rx_tail)
      /\ (Used' > 0) <=> (spi_rx_head' # spi_rx_tail')
  <2>1. /\ Lead(spi_rx_head, spi_rx_tail) \in Nat
        /\ (Lead(spi_rx_head, spi_rx_tail) = 0) <=> (spi_rx_head = spi_rx_tail)
    BY LeadCases
  <2>2. /\ Lead(spi_rx_head', spi_rx_tail') \in Nat
        /\ (Lead(spi_rx_head', spi_rx_tail') = 0) <=> (spi_rx_head' = spi_rx_tail')
    BY LeadCases
  <2>3. /\ Used = Lead(spi_rx_head, spi_rx_tail)
        /\ Used' = Lead(spi_rx_head', spi_rx_tail')
    BY DEF Used, Lead, N
  <2> QED BY <2>1, <2>2, <2>3
<1>1. ASSUME NEW b \in Bytes, spi0_handler(b) PROVE LoadedIsOldest'
  BY <1>0, <1>1 DEF spi0_handler, LoadedIsOldest
<1>2. CASE DrainTest
  BY <1>0, <1>2 DEF DrainTest, LoadedIsOldest
<1>3. CASE DrainLoad
  BY <1>0, <1>3 DEF DrainLoad, LoadedIsOldest
<1>4. CASE DrainStore
  BY <1>4 DEF DrainStore, LoadedIsOldest
<1>5. CASE UNCHANGED vars
  BY <1>0, <1>5 DEF vars, LoadedIsOldest
<1> QED BY <1>1, <1>2, <1>3, <1>4, <1>5 DEF Next

(* The byte the loop has loaded is the oldest one and its slot is still in   *)
(* use, whenever spi0_handler preempts spi_protocol_process.                 *)
THEOREM OldestLoaded == Spec => []LoadedIsOldest
<1>1. Init => LoadedIsOldest
  BY DEF Init, LoadedIsOldest
<1>2. TypeOK /\ TypeOK' /\ LoadedIsOldest /\ [Next]_vars => LoadedIsOldest'
  BY LoadedStep
<1> QED BY <1>1, <1>2, RingTyping, PTL DEF Spec

-----------------------------------------------------------------------------
(* The refinement mapping for given contents, head and tail: a sequence with  *)
(* one element per used slot.                                                *)
PendingOf(buf, a, b) == [k \in 1 .. Lead(a, b) |-> buf[Slot(b, k)]]

(* It is a sequence of bytes as long as the ring is filled.                  *)
LEMMA PendingSeq ==
  ASSUME NEW a \in Slots, NEW b \in Slots, NEW buf \in [Slots -> Bytes]
  PROVE  /\ Lead(a, b) \in 0 .. N - 1
         /\ PendingOf(buf, a, b) \in Seq(Bytes)
         /\ Len(PendingOf(buf, a, b)) = Lead(a, b)
         /\ \A k \in 1 .. Lead(a, b) : PendingOf(buf, a, b)[k] = buf[Slot(b, k)]
<1>1. Lead(a, b) \in Nat /\ Lead(a, b) < N
  BY LeadCases
<1>2. \A k \in 1 .. Lead(a, b) : Slot(b, k) \in Slots
  <2> TAKE k \in 1 .. Lead(a, b)
  <2>1. k \in 1 .. N
    BY <1>1, RingSize
  <2> QED BY <2>1, SlotCases
<1>3. PendingOf(buf, a, b) \in [1 .. Lead(a, b) -> Bytes]
  BY <1>2 DEF PendingOf
<1> QED BY <1>1, <1>3, RingSize DEF PendingOf

(* The refinement mapping of RxRing is that sequence, before and after a step.*)
LEMMA PendingIs ==
  /\ Used = Lead(spi_rx_head, spi_rx_tail)
  /\ Used' = Lead(spi_rx_head', spi_rx_tail')
  /\ Pending = PendingOf(spi_rx_buf, spi_rx_head, spi_rx_tail)
  /\ Pending' = PendingOf(spi_rx_buf', spi_rx_head', spi_rx_tail')
  BY DEF Pending, PendingOf, Used, Lead, Slot, N

(* spi0_handler is an arrival: it appends its byte, or finds the queue full. *)
LEMMA HandlerArrives ==
  ASSUME TypeOK, TypeOK', NEW b \in Bytes, spi0_handler(b)
  PROVE  Queue!Arrive(b)
<1> DEFINE h == spi_rx_head
           t == spi_rx_tail
<1> USE DEF TypeOK
<1>1. /\ Used = Lead(h, t) /\ Used \in 0 .. N - 1 /\ Pending \in Seq(Bytes)
      /\ Len(Pending) = Used
      /\ \A k \in 1 .. Used : Pending[k] = spi_rx_buf[Slot(t, k)]
  BY PendingSeq, PendingIs
<1>2. CASE Next1(h) # t
  <2>1. /\ Used' = Lead(h', t') /\ Pending' \in Seq(Bytes) /\ Len(Pending') = Used'
        /\ \A k \in 1 .. Used' : Pending'[k] = spi_rx_buf'[Slot(t', k)]
    BY PendingSeq, PendingIs
  <2>2. h' = Next1(h) /\ t' = t /\ spi_rx_buf' = [spi_rx_buf EXCEPT ![h] = b]
    BY <1>2 DEF spi0_handler
  <2>3. /\ Used' = Used + 1 /\ Slot(t, Used + 1) = h
        /\ \A k \in 1 .. Used : Slot(t, k) # h
    BY <1>1, <1>2, <2>1, <2>2, HeadMoves
  <2>4. \A k \in 1 .. Used : Slot(t, k) \in Slots
    <3> TAKE k \in 1 .. Used
    <3>1. k \in 1 .. N
      BY <1>1, RingSize
    <3> QED BY <3>1, SlotCases
  <2>5. \A k \in 1 .. Used : Pending'[k] = Pending[k]
    BY <1>1, <2>1, <2>2, <2>3, <2>4
  <2>6. Pending'[Used + 1] = b
    BY <1>1, <2>1, <2>2, <2>3
  <2>7. Append(Pending, b) \in Seq(Bytes) /\ Len(Append(Pending, b)) = Used + 1
        /\ Append(Pending, b)[Used + 1] = b
        /\ \A k \in 1 .. Used : Append(Pending, b)[k] = Pending[k]
    BY <1>1
  <2>8. Pending' = Append(Pending, b)
    <3>1. \A k \in 1 .. Len(Pending') : Pending'[k] = Append(Pending, b)[k]
      BY <1>1, <2>1, <2>3, <2>5, <2>6, <2>7
    <3> QED BY <2>1, <2>3, <2>7, <3>1, SeqEqual
  <2>9. Len(Pending) < SPI_RX_BUF_SIZE - 1
    <3>1. Used' < N
      BY <2>1, LeadCases
    <3> QED BY <1>1, <2>3, <3>1, RingSize DEF N
  <2> QED BY <2>8, <2>9 DEF Queue!Arrive, spi0_handler
<1>3. CASE Next1(h) = t
  <2>1. Pending' = Pending
    BY <1>3 DEF spi0_handler, Pending, Used
  <2>2. Used = N - 1
    <3>1. Next1(h) = IF h = N - 1 THEN 0 ELSE h + 1
      BY Next1Cases
    <3>2. Lead(h, t) = IF h >= t THEN h - t ELSE h - t + N
      BY LeadCases
    <3> QED BY <1>1, <1>3, <3>1, <3>2, RingSize DEF Slots, N
  <2> QED BY <1>1, <2>1, <2>2 DEF Queue!Arrive, spi0_handler, N
<1> QED BY <1>2, <1>3

(* The store of the tail takes the head of the queue.                        *)
LEMMA StoreTakes ==
  ASSUME TypeOK, TypeOK', LoadedIsOldest, DrainStore
  PROVE  Queue!Take
<1> DEFINE h == spi_rx_head
           t == spi_rx_tail
<1> USE DEF TypeOK
<1>1. /\ Used = Lead(h, t) /\ Used \in 0 .. N - 1 /\ Pending \in Seq(Bytes)
      /\ Len(Pending) = Used
      /\ \A k \in 1 .. Used : Pending[k] = spi_rx_buf[Slot(t, k)]
  BY PendingSeq, PendingIs
<1>2. /\ Used' = Lead(h', t') /\ Pending' \in Seq(Bytes) /\ Len(Pending') = Used'
      /\ \A k \in 1 .. Used' : Pending'[k] = spi_rx_buf'[Slot(t', k)]
  BY PendingSeq, PendingIs
<1>3. h' = h /\ t' = Next1(t) /\ spi_rx_buf' = spi_rx_buf /\ last' = byte
      /\ byte = spi_rx_buf[t] /\ Used > 0
  BY DEF DrainStore, LoadedIsOldest
<1>4. h # t
  BY <1>1, <1>3, LeadCases
<1>5. /\ Used' = Used - 1 /\ Slot(t, 1) = t
      /\ \A k \in 1 .. Used - 1 : Slot(Next1(t), k) = Slot(t, k + 1)
  BY <1>1, <1>2, <1>3, <1>4, TailMoves
<1>6. Pending # << >> /\ Head(Pending) = last'
  BY <1>1, <1>3, <1>5
<1>7. /\ Tail(Pending) \in Seq(Bytes) /\ Len(Tail(Pending)) = Used - 1
      /\ \A k \in 1 .. Used - 1 : Tail(Pending)[k] = Pending[k + 1]
  BY <1>1, <1>6, HeadTailProperties
<1>8. \A k \in 1 .. Used - 1 : Pending'[k] = Pending[k + 1]
  BY <1>1, <1>2, <1>3, <1>5
<1>9. Pending' = Tail(Pending)
  BY <1>1, <1>2, <1>5, <1>7, <1>8, SeqEqual
<1> QED BY <1>6, <1>9 DEF Queue!Take

(* The receive ring is a first-in first-out queue of SPI_RX_BUF_SIZE - 1     *)
(* bytes: no preemption of the loop loses, duplicates or reorders one.       *)
THEOREM RingIsQueue == Spec => QueueSpec
<1>1. Init => Queue!Init
  <2> SUFFICES ASSUME Init PROVE Queue!Init
    OBVIOUS
  <2>1. Used = 0
    BY RingAssumption DEF Init, Used
  <2>2. Pending = << >>
    BY <2>1 DEF Pending
  <2> QED BY <2>2 DEF Init, Queue!Init
<1>2. TypeOK /\ TypeOK' /\ LoadedIsOldest /\ [Next]_vars
        => [Queue!Next]_<<Pending, last>>
  <2> SUFFICES ASSUME TypeOK, TypeOK', LoadedIsOldest, [Next]_vars
               PROVE  [Queue!Next]_<<Pending, last>>
    OBVIOUS
  <2>1. ASSUME NEW b \in Bytes, spi0_handler(b) PROVE Queue!Next
    BY <2>1, HandlerArrives DEF Queue!Next
  <2>2. CASE DrainTest
    BY <2>2 DEF DrainTest, Pending, Used
  <2>3. CASE DrainLoad
    BY <2>3 DEF DrainLoad, Pending, Used
  <2>4. CASE DrainStore
    BY <2>4, StoreTakes DEF Queue!Next
  <2>5. CASE UNCHANGED vars
    BY <2>5 DEF vars, Pending, Used
  <2> QED BY <2>1, <2>2, <2>3, <2>4, <2>5 DEF Next
<1> QED BY <1>1, <1>2, RingTyping, OldestLoaded, PTL DEF Spec, QueueSpec, Queue!Spec

-----------------------------------------------------------------------------
(* The sleep state machine, for every pair of timeouts.                      *)

(* Types are preserved; the elapsed time saturates at the longest timeout.  *)
THEOREM SleepTyping == SleepSpec => []SleepTypeOK
<1>1. SleepInit => SleepTypeOK
  <2>1. 0 \in 0 .. SLEEP_LIGHT_TIMEOUT_MS /\ 0 \in 0 .. MaxBytes
    BY SleepAssumption
  <2>2. 0 \in 0 .. SIO_FIFO_DEPTH
    BY DEF SIO_FIFO_DEPTH
  <2> QED BY <2>1, <2>2 DEF SleepInit, SleepTypeOK, SleepState
<1>2. SleepTypeOK /\ [SleepNext]_sleepVars => SleepTypeOK'
  <2> SUFFICES ASSUME SleepTypeOK, [SleepNext]_sleepVars PROVE SleepTypeOK'
    OBVIOUS
  <2> USE SleepAssumption
      DEF SleepTypeOK, SleepState, SIO_FIFO_DEPTH, sleepLocals, sleepChip, sleepHist
  <2>1. CASE SpiByte
    <3>1. unseen' \in BOOLEAN /\ late' \in BOOLEAN
      BY <2>1 DEF SpiByte
    <3>2. spi_rx_count' \in 0 .. MaxBytes
      BY <2>1 DEF SpiByte
    <3>3. UNCHANGED <<sleep_state, sleep_idle, force_wake_pending, last_head, sleep_pc,
                      sleepLocals, sleepChip, due>>
      BY <2>1 DEF SpiByte
    <3> QED BY <3>1, <3>2, <3>3
  <2>2. CASE sleep_wake_force_wake
    BY <2>2 DEF sleep_wake_force_wake
  <2>3. CASE SleepTick
    BY <2>3 DEF SleepTick
  <2>4. CASE ProcessBegin
    <3>1. has_activity' \in BOOLEAN /\ unseen' \in BOOLEAN /\ late' \in BOOLEAN
          /\ due' \in BOOLEAN
      BY <2>4 DEF ProcessBegin
    <3>2. UNCHANGED <<sleep_state, sleep_idle, force_wake_pending, spi_rx_count, sleep_target, sleepChip>>
          /\ sleep_pc' = "decide" /\ idle_ms' = sleep_idle /\ last_head' = spi_rx_count
      BY <2>4 DEF ProcessBegin
    <3> QED BY <3>1, <3>2
  <2>5. CASE ForcedWake \/ ActivityWake
    BY <2>5 DEF ForcedWake, ActivityWake
  <2>6. CASE Wake \/ DeepWake
    BY <2>6 DEF Wake, DeepWake
  <2>7. CASE Idle
    BY <2>7 DEF Idle, Deeper
  <2>8. CASE ResetTracker
    BY <2>8 DEF ResetTracker
  <2>9. CASE EnterLight \/ EnterDeep
    BY <2>9 DEF EnterLight, EnterDeep
  <2>10. CASE SleepReset
    <3>1. /\ sleep_idle' \in 0 .. SLEEP_LIGHT_TIMEOUT_MS
          /\ idle_ms' \in 0 .. SLEEP_LIGHT_TIMEOUT_MS
          /\ spi_rx_count' \in 0 .. MaxBytes /\ last_head' \in 0 .. MaxBytes
          /\ core1_fifo' \in 0 .. SIO_FIFO_DEPTH
      BY <2>10 DEF SleepReset
    <3>2. /\ force_wake_pending' \in BOOLEAN /\ has_activity' \in BOOLEAN
          /\ unseen' \in BOOLEAN /\ late' \in BOOLEAN /\ due' \in BOOLEAN
      BY <2>10, Zenon DEF SleepReset
    <3>3. /\ sleep_state' = "IDLE" /\ sleep_target' = "IDLE" /\ sleep_pc' = "out"
          /\ clock' = "full"
      BY <2>10, Zenon DEF SleepReset
    <3> QED BY <3>1, <3>2, <3>3, Zenon
  <2>11. CASE UNCHANGED sleepVars
    BY <2>11 DEF sleepVars
  <2> QED
    BY <2>1, <2>2, <2>3, <2>4, <2>5, <2>6, <2>7, <2>8, <2>9, <2>10, <2>11
       DEF SleepNext, SleepProcess
<1> QED BY <1>1, <1>2, PTL DEF SleepSpec

-----------------------------------------------------------------------------
(* A call on its way into a sleep state goes exactly one state deeper, so    *)
(* the clock it slows down and the word it sends are those of its target;    *)
(* and a call waits for core 1 in deep sleep only.                          *)
EntryInv ==
  /\ sleep_pc \in {"track", "set"} =>
       \/ sleep_state = "IDLE" /\ sleep_target = "LIGHT"
       \/ sleep_state = "LIGHT" /\ sleep_target = "DEEP"
  /\ sleep_pc = "launch" => sleep_state = "DEEP"

(* The clock is full and core 1 was sent a word exactly as the state says, on *)
(* every path through sleep_wake_process, whichever interrupts preempt it and *)
(* wherever a reset ends it.                                                 *)
THEOREM ChipFollowsState == SleepSpec => []ChipMatchesState
<1> DEFINE IInv == ChipMatchesState /\ EntryInv
<1>1. SleepInit => IInv
  BY DEF SleepInit, ChipMatchesState, EntryInv
<1>2. SleepTypeOK /\ IInv /\ [SleepNext]_sleepVars => IInv'
  <2> SUFFICES ASSUME SleepTypeOK, IInv, [SleepNext]_sleepVars PROVE IInv'
    OBVIOUS
  <2> USE DEF SleepTypeOK, SleepState, ChipMatchesState, EntryInv, sleepChip, sleepLocals
  <2>1. CASE SpiByte \/ sleep_wake_force_wake \/ SleepTick
    BY <2>1 DEF SpiByte, sleep_wake_force_wake, SleepTick
  <2>2. CASE ProcessBegin
    BY <2>2 DEF ProcessBegin
  <2>3. CASE ForcedWake \/ ActivityWake
    BY <2>3 DEF ForcedWake, ActivityWake
  <2>4. CASE Wake
    BY <2>4 DEF Wake
  <2>5. CASE DeepWake
    BY <2>5 DEF DeepWake
  <2>6. CASE Idle
    BY <2>6 DEF Idle, Deeper
  <2>7. CASE ResetTracker
    BY <2>7 DEF ResetTracker
  <2>8. CASE EnterLight
    BY <2>8 DEF EnterLight
  <2>9. CASE EnterDeep
    BY <2>9 DEF EnterDeep
  <2>10. CASE SleepReset
    BY <2>10 DEF SleepReset
  <2>11. CASE UNCHANGED sleepVars
    BY <2>11 DEF sleepVars
  <2> QED
    BY <2>1, <2>2, <2>3, <2>4, <2>5, <2>6, <2>7, <2>8, <2>9, <2>10, <2>11
       DEF SleepNext, SleepProcess
<1>3. IInv => ChipMatchesState
  OBVIOUS
<1> QED BY <1>1, <1>2, <1>3, SleepTyping, PTL DEF SleepSpec

-----------------------------------------------------------------------------
(* A byte that still has to be noticed is one the tracker has not passed      *)
(* over, and a call that has a reason to wake is not on its way to sleep.    *)
DueInv ==
  /\ last_head <= spi_rx_count
  /\ unseen => last_head < spi_rx_count
  /\ sleep_pc \in {"decide", "track"} => ~unseen
  /\ sleep_pc = "decide" /\ due => force_wake_pending \/ has_activity
  /\ sleep_pc \in {"track", "set"} => ~due

(* A call that begins with a forced wake pending, or after a byte that came   *)
(* outside the window before the reset of the tracker, does not return        *)
(* asleep, however interrupts and resets fall between its steps.            *)
THEOREM CallsWakeWhenDue == SleepSpec => WakesWhenDue
<1>1. SleepInit => DueInv
  BY DEF SleepInit, DueInv
<1>2. SleepTypeOK /\ DueInv /\ [SleepNext]_sleepVars => DueInv'
  <2> SUFFICES ASSUME SleepTypeOK, DueInv, [SleepNext]_sleepVars PROVE DueInv'
    OBVIOUS
  <2> USE DEF SleepTypeOK, DueInv, sleepHist, sleepLocals
  <2>a. spi_rx_count \in Nat /\ last_head \in Nat
    BY SleepAssumption
  <2>1. CASE SpiByte
    <3>1. spi_rx_count' = spi_rx_count + 1 /\ last_head' = last_head
          /\ sleep_pc' = sleep_pc /\ has_activity' = has_activity
          /\ force_wake_pending' = force_wake_pending /\ due' = due
      BY <2>1 DEF SpiByte
    <3>2. sleep_pc \in {"decide", "track"} => ~unseen'
      BY <2>1 DEF SpiByte
    <3> QED BY <2>a, <3>1, <3>2
  <2>2. CASE sleep_wake_force_wake
    BY <2>2 DEF sleep_wake_force_wake
  <2>3. CASE SleepTick
    BY <2>3 DEF SleepTick
  <2>4. CASE ProcessBegin
    <3>1. sleep_pc' = "decide" /\ last_head' = spi_rx_count /\ spi_rx_count' = spi_rx_count
          /\ force_wake_pending' = force_wake_pending
      BY <2>4 DEF ProcessBegin
    <3>u. unseen => spi_rx_count # last_head
      BY <2>a
    <3>2. ~unseen'
      BY <2>4, <3>u, Zenon DEF ProcessBegin
    <3>3. due' => force_wake_pending \/ has_activity'
      <4>1. has_activity' <=> spi_rx_count # last_head
        BY <2>4, Zenon DEF ProcessBegin
      <4>2. due' => force_wake_pending \/ unseen
        BY <2>4, Zenon DEF ProcessBegin
      <4> QED BY <3>u, <4>1, <4>2, Zenon
    <3> QED BY <2>a, <3>1, <3>2, <3>3
  <2>5. CASE ForcedWake \/ ActivityWake
    BY <2>5 DEF ForcedWake, ActivityWake
  <2>6. CASE Wake \/ DeepWake
    BY <2>6 DEF Wake, DeepWake
  <2>7. CASE Idle
    BY <2>7 DEF Idle
  <2>8. CASE ResetTracker
    BY <2>8, <2>a DEF ResetTracker
  <2>9. CASE EnterLight \/ EnterDeep
    BY <2>9 DEF EnterLight, EnterDeep
  <2>10. CASE SleepReset
    BY <2>10 DEF SleepReset
  <2>11. CASE UNCHANGED sleepVars
    BY <2>11 DEF sleepVars
  <2> QED
    BY <2>1, <2>2, <2>3, <2>4, <2>5, <2>6, <2>7, <2>8, <2>9, <2>10, <2>11
       DEF SleepNext, SleepProcess
<1>3. DueInv /\ [SleepNext]_sleepVars =>
        [sleep_pc # "out" /\ sleep_pc' = "out" /\ due => sleep_state' = "IDLE"]_sleepVars
  <2> SUFFICES ASSUME DueInv, SleepNext, sleep_pc # "out", sleep_pc' = "out", due
               PROVE  sleep_state' = "IDLE"
    OBVIOUS
  <2>1. Wake \/ Idle \/ EnterLight \/ EnterDeep \/ SleepReset
    BY DEF SleepNext, SleepProcess, SpiByte, sleep_wake_force_wake, SleepTick, ProcessBegin,
           ForcedWake, ActivityWake, DeepWake, ResetTracker
  <2>2. ~Idle /\ ~EnterLight /\ ~EnterDeep
    BY DEF DueInv, Idle, EnterLight, EnterDeep
  <2> QED BY <2>1, <2>2 DEF Wake, SleepReset
<1> QED BY <1>1, <1>2, <1>3, SleepTyping, PTL DEF SleepSpec, WakesWhenDue
=============================================================================
