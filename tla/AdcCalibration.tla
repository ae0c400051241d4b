--------------------------- MODULE AdcCalibration ----------------------------
(***************************************************************************)
(* Battery ADC calibration (adc_calibration.c): the coefficients in RAM, the *)
(* record in flash, factory calibration with its erase and program steps,   *)
(* and restarts in between.  Power may be lost at any step; lost during an   *)
(* erase or a program it leaves a torn record, in which each field is erased *)
(* or not.                                                                  *)
(*                                                                         *)
(* struct adc_cal_record is not packed: the checksum is followed by three   *)
(* bytes of padding, so "all bytes but the last" includes the checksum.     *)
(* The sum of the other bytes depends on the time stamp and may have any    *)
(* value.  The temperature coefficients are constants and are left out.    *)
(***************************************************************************)
EXTENDS Integers

CONSTANTS
  CalVolts,    \* reference voltages a station asks for, in mV
  CalRaws,     \* readings of the ADC, 0 .. 4095
  CalSums      \* sums of the record's bytes, modulo 256

ASSUME CalAssumption ==
  /\ CalVolts \subseteq Nat /\ CalRaws \subseteq 0 .. 4095
  /\ CalSums \subseteq 0 .. 255

VARIABLES
  cal_coeffs,  \* cal_state.coeffs, with the points they come from (history)
  cal_loaded,  \* cal_state.loaded
  cal_flash,   \* the record in flash, or Erased
  cal_record,  \* the record factory calibration is writing
  cal_step,    \* "off", "run", "erase", "program" or "verify"
  cal_rc       \* result of the last factory calibration

calVars == <<cal_coeffs, cal_loaded, cal_flash, cal_record, cal_step, cal_rc>>

Nominal == [offset |-> 0, gain |-> 1000, calibrated |-> FALSE, points |-> {}]

(* Erased flash reads 0xFF: an offset of -1, the largest gain, and a set flag. *)
Erased ==
  [magic |-> FALSE, sum |-> 0, checksum |-> 255,
   coeffs |-> [offset |-> -1, gain |-> 65535, calibrated |-> TRUE, points |-> {}]]

(* A record of which some fields are erased.  Its bytes may have any sum.     *)
Torn(r) ==
  {[magic |-> magic, sum |-> sum, checksum |-> checksum,
    coeffs |-> [offset |-> offset, gain |-> gain, calibrated |-> calibrated,
                points |-> {}]] :
      magic \in {r.magic, FALSE}, sum \in CalSums, checksum \in {r.checksum, 255},
      offset \in {r.coeffs.offset, -1}, gain \in {r.coeffs.gain, 65535},
      calibrated \in {r.coeffs.calibrated, TRUE}}

(* C division truncates towards zero.                                        *)
Abs(n) == IF n < 0 THEN -n ELSE n
CDiv(a, b) == (IF (a < 0) = (b < 0) THEN 1 ELSE -1) * (Abs(a) \div Abs(b))

(* (raw * 3249700 + 500) / 1000000 in 32-bit arithmetic, which wraps above     *)
(* raw = 1321 (4.29 V): counted in hundreds, 2^32 is 42949672.96.            *)
MeasuredMv(raw) == ((raw * 32497 + 5) % 42949673) \div 10000

-----------------------------------------------------------------------------
(* compute_checksum sums the record with its own checksum byte.              *)
compute_checksum(r) == (r.sum + r.checksum) % 256

(* Bug shape: the checksum is not looked at.                                 *)
MutValidRecord(r) == r.magic /\ r.coeffs.calibrated

ValidRecord(r) ==
  r.magic /\ r.checksum = compute_checksum(r) /\ r.coeffs.calibrated

(* adc_cal_init: the stored coefficients if valid, nominal ones otherwise.   *)
adc_cal_init ==
  /\ cal_step = "off" /\ cal_step' = "run"
  /\ cal_coeffs' = IF ValidRecord(cal_flash) THEN cal_flash.coeffs ELSE Nominal
  /\ cal_loaded' = TRUE
  /\ UNCHANGED <<cal_flash, cal_record, cal_rc>>

(* adc_cal_apply_vbat, with its clamp to 16 bits.                            *)
adc_cal_apply_vbat(c, mv) ==
  LET v == CDiv((mv + c.offset) * c.gain, 1000)
  IN  IF v < 0 THEN 0 ELSE IF v > 65535 THEN 65535 ELSE v

-----------------------------------------------------------------------------
(* adc_cal_factory_calibrate.  Gain and offset of the line through the points *)
(* (measured, reference); an error code, or 0, in the order of the checks.   *)
Gain(low, high, ml, mh) == CDiv((high - low) * 1000, mh - ml)
Offset(low, ml, gain) == low - CDiv(ml * gain, 1000)

CalVerdict(low, high, ml, mh) ==
  IF low < 2800 \/ low > 4500 \/ high < 2800 \/ high > 4500 \/ high <= low THEN -1
  ELSE IF mh = ml THEN -2
  ELSE LET gain == Gain(low, high, ml, mh)
           offset == Offset(low, ml, gain)
       IN  IF gain < 900 \/ gain > 1100 THEN -3
           ELSE IF offset < -200 \/ offset > 200 THEN -4 ELSE 0

CalRefused(low, high, ml, mh) ==
  /\ cal_step = "run" /\ CalVerdict(low, high, ml, mh) # 0
  /\ cal_rc' = CalVerdict(low, high, ml, mh)
  /\ UNCHANGED <<cal_coeffs, cal_loaded, cal_flash, cal_record, cal_step>>

(* Coefficients are in use before they are in flash.                         *)
CalCompute(low, high, ml, mh, sum) ==
  LET gain == Gain(low, high, ml, mh)
      c == [offset |-> Offset(low, ml, gain), gain |-> gain, calibrated |-> TRUE,
            points |-> {<<ml, low>>, <<mh, high>>}]
      r == [magic |-> TRUE, coeffs |-> c, sum |-> sum, checksum |-> 0]
  IN  /\ cal_step = "run" /\ CalVerdict(low, high, ml, mh) = 0
      /\ cal_coeffs' = c
      /\ cal_record' = [r EXCEPT !.checksum = compute_checksum(r)]
      /\ cal_step' = "erase"
      /\ UNCHANGED <<cal_loaded, cal_flash, cal_rc>>

FlashErase ==
  /\ cal_step = "erase" /\ cal_step' = "program"
  /\ cal_flash' = Erased
  /\ UNCHANGED <<cal_coeffs, cal_loaded, cal_record, cal_rc>>

(* The page is programmed, or badly, which the read-back notices.            *)
FlashProgram ==
  /\ cal_step = "program" /\ cal_step' = "verify"
  /\ cal_flash' \in {cal_record} \cup Torn(cal_record)
  /\ UNCHANGED <<cal_coeffs, cal_loaded, cal_record, cal_rc>>

CalVerify ==
  /\ cal_step = "verify" /\ cal_step' = "run"
  /\ cal_rc' = IF cal_flash = cal_record THEN 0 ELSE -5
  /\ UNCHANGED <<cal_coeffs, cal_loaded, cal_flash, cal_record>>

(* Power is lost: RAM is cleared, flash is kept, or torn when it was being    *)
(* erased or programmed.                                                     *)
CalPowerLoss ==
  /\ cal_step # "off" /\ cal_step' = "off"
  /\ cal_coeffs' = Nominal /\ cal_loaded' = FALSE
  /\ cal_record' = Erased /\ cal_rc' = 0
  /\ \/ UNCHANGED cal_flash
     \/ cal_step = "erase" /\ cal_flash' \in Torn(cal_flash)
     \/ cal_step = "program" /\ cal_flash' \in Torn(cal_record)

-----------------------------------------------------------------------------
CalInit ==
  /\ cal_coeffs = Nominal /\ cal_loaded = FALSE /\ cal_flash = Erased
  /\ cal_record = Erased /\ cal_step = "off" /\ cal_rc = 0

CalNext ==
  \/ adc_cal_init \/ CalPowerLoss
  \/ \E low, high \in CalVolts, rl, rh \in CalRaws :
       \/ CalRefused(low, high, MeasuredMv(rl), MeasuredMv(rh))
       \/ \E sum \in CalSums :
            CalCompute(low, high, MeasuredMv(rl), MeasuredMv(rh), sum)
  \/ FlashErase \/ FlashProgram \/ CalVerify

CalSpec == CalInit /\ [][CalNext]_calVars

-----------------------------------------------------------------------------
CAL_ERROR_MV == 25

(* The coefficients are the whole result of one calibration: applied to       *)
(* either point it was made from they give the reference voltage to within    *)
(* 25 mV (the line is fitted as gain * mV + offset but applied as             *)
(* gain * (mV + offset), which costs up to 20 of them).                      *)
FitsItsPoints(c) ==
  /\ c.calibrated /\ c.points # {}
  /\ \A p \in c.points :
       adc_cal_apply_vbat(c, p[1]) - p[2] \in -CAL_ERROR_MV .. CAL_ERROR_MV

(* Whatever calibrations were refused, torn or failed to verify, the          *)
(* coefficients in use are the nominal ones or those of one whole             *)
(* calibration.  A torn record is the only other thing that may come into     *)
(* use, and only when its magic number is whole and its bytes happen to sum   *)
(* to 0; blank flash never is.                                               *)
CalibrationIsSound ==
  cal_loaded =>
    \/ cal_coeffs = Nominal
    \/ FitsItsPoints(cal_coeffs)
    \/ /\ cal_coeffs = cal_flash.coeffs /\ cal_coeffs.points = {}
       /\ cal_flash.magic /\ cal_flash.sum % 256 = 0

(* What the header says the record is for: "Uses a magic number and checksum  *)
(* for data integrity verification", so that no torn record is used.         *)
TornRecordRefused ==
  cal_loaded => cal_coeffs = Nominal \/ FitsItsPoints(cal_coeffs)
=============================================================================
