--------------------------- MODULE BatteryMonitor ----------------------------
(***************************************************************************)
(* battery_monitor.c: what an ADC conversion is turned into, and the power  *)
(* state machine behind it.  Every caller reads the monitor and hands the    *)
(* values to power_state_update; that is one step.  power_state_set may      *)
(* force any state.  Averaging eight conversions gives a conversion.        *)
(***************************************************************************)
EXTENDS Integers

CONSTANTS
  BattRaws,  \* conversions of channel 0, the battery divider
  DieTemps   \* temperatures of the die, in tenths of a degree

ASSUME BattAssumption == BattRaws \subseteq 0 .. 4095 /\ DieTemps \subseteq -400 .. 1500

VARIABLES
  batt_report,   \* what battery_monitor_read returned last, and the true temperature
  power_state,   \* current_power_state
  brownout_flag,
  batt_updated,  \* history: power_state is the result of an update
  batt_reason    \* history: a report or a caller asked for the shutdown

battVars == <<batt_report, power_state, brownout_flag, batt_updated, batt_reason>>

PowerState == {"ACTIVE", "IDLE", "SLEEP", "SHUTDOWN"}
BROWNOUT_THRESHOLD_MV == 2800
BROWNOUT_HYSTERESIS_MV == 200

-----------------------------------------------------------------------------
(* The sensor: 706 mV at 27 degrees, 1.721 mV less for each degree more, read *)
(* by a 12-bit converter with a 3.3 V reference.                             *)
SensorRaw(dc10) == (((7060000 - 1721 * (dc10 - 270)) \div 1000) * 4095) \div 33000

adc_read_channel_averaged(raw, samples) == (samples * raw) \div samples

battery_read_voltage_mv(raw) == (adc_read_channel_averaged(raw, 8) * 29260 + 4504) \div 9009

battery_get_percent(mv) ==
  CASE mv >= 4200              -> 100
    [] mv <= 3000              -> 0
    [] 3700 <= mv /\ mv < 4200 -> ((mv - 3700) * 50) \div 500 + 50
    [] 3300 <= mv /\ mv < 3700 -> ((mv - 3300) * 40) \div 400 + 10
    [] 3000 < mv /\ mv < 3300  -> ((mv - 3000) * 10) \div 300

battery_is_low(mv) == mv < 3300
battery_is_critical(mv) == mv < 3000

(* C division truncates: the quotient is in degrees, where tenths are meant.  *)
temperature_read_dc10(raw) ==
  LET delta_uv == adc_read_channel_averaged(raw, 8) * 806 - 706000
  IN  270 - (IF delta_uv < 0 THEN -((-delta_uv) \div 1721) ELSE delta_uv \div 1721)

temperature_is_overtemp(dc10) == dc10 > 850
temperature_is_critical(dc10) == dc10 > 1050

battery_monitor_read(raw, die) ==
  LET mv == battery_read_voltage_mv(raw)
      dc10 == temperature_read_dc10(SensorRaw(die))
  IN  [mv |-> mv, dc10 |-> dc10, pct |-> battery_get_percent(mv), die |-> die,
       flags |-> {f \in {"LOW", "CRITICAL", "OVERTEMP", "CRIT_TEMP", "BROWNOUT"} :
                    CASE f = "LOW"       -> battery_is_low(mv)
                      [] f = "CRITICAL"  -> battery_is_critical(mv)
                      [] f = "OVERTEMP"  -> temperature_is_overtemp(dc10)
                      [] f = "CRIT_TEMP" -> temperature_is_critical(dc10)
                      [] f = "BROWNOUT"  -> mv < BROWNOUT_THRESHOLD_MV}]

(* Bug shape: the hysteresis is added twice.                                 *)
MutIsBrownout(mv, active) ==
  IF active THEN mv < BROWNOUT_THRESHOLD_MV + 2 * BROWNOUT_HYSTERESIS_MV
  ELSE mv < BROWNOUT_THRESHOLD_MV

battery_is_brownout(mv, active) ==
  IF active THEN mv < BROWNOUT_THRESHOLD_MV + BROWNOUT_HYSTERESIS_MV
  ELSE mv < BROWNOUT_THRESHOLD_MV

-----------------------------------------------------------------------------
(* The switch of power_state_update.                                         *)
NextPowerState(state, down, low, activity) ==
  CASE state = "SHUTDOWN" \/ down -> "SHUTDOWN"
    [] state = "ACTIVE" /\ ~down -> IF low /\ ~activity THEN "SLEEP" ELSE "ACTIVE"
    [] state = "IDLE" /\ ~down   -> IF low THEN "SLEEP"
                                    ELSE IF activity THEN "ACTIVE" ELSE "IDLE"
    [] state = "SLEEP" /\ ~down  -> IF activity THEN "ACTIVE" ELSE "SLEEP"

power_state_update(raw, die, activity) ==
  LET r == battery_monitor_read(raw, die)
      is_brownout == battery_is_brownout(r.mv, brownout_flag)
      down == battery_is_critical(r.mv) \/ is_brownout \/ temperature_is_critical(r.dc10)
  IN  /\ batt_report' = r
      /\ brownout_flag' = is_brownout
      /\ power_state' = NextPowerState(power_state, down, battery_is_low(r.mv), activity)
      /\ batt_updated' = TRUE
      /\ batt_reason' = (batt_reason \/ r.flags \cap {"CRITICAL", "CRIT_TEMP"} # {})

power_state_set(state) ==
  /\ power_state' = state
  /\ batt_updated' = FALSE /\ batt_reason' = (state = "SHUTDOWN")
  /\ UNCHANGED <<batt_report, brownout_flag>>

BattInit ==
  /\ batt_report = battery_monitor_read(1293, 270)
  /\ power_state = "ACTIVE" /\ brownout_flag = FALSE
  /\ batt_updated = FALSE /\ batt_reason = FALSE

(* A reset gives the static variables their initial values.                  *)
BattReset ==
  /\ power_state' = "ACTIVE" /\ brownout_flag' = FALSE
  /\ batt_updated' = FALSE /\ batt_reason' = FALSE
  /\ UNCHANGED batt_report

BattNext ==
  \/ \E raw \in BattRaws, die \in DieTemps, activity \in BOOLEAN :
       power_state_update(raw, die, activity)
  \/ \E state \in PowerState : power_state_set(state)
  \/ BattReset

BattSpec == BattInit /\ [][BattNext]_battVars

-----------------------------------------------------------------------------
(* The three thresholds, the hysteresis and the state machine agree, at every *)
(* boundary and after any history of sags and recoveries: what is reported    *)
(* critical shows 0 percent and is shut down, a low battery is one below 10   *)
(* percent, a brownout is latched when it is reported and never outlives the  *)
(* critical report, and the shutdown has a cause that was reported.          *)
ShutdownMatchesReports ==
  /\ batt_updated =>
       /\ batt_report.flags \cap {"CRITICAL", "CRIT_TEMP"} # {} => power_state = "SHUTDOWN"
       /\ "BROWNOUT" \in batt_report.flags => brownout_flag
       /\ brownout_flag => "CRITICAL" \in batt_report.flags
  /\ "CRITICAL" \in batt_report.flags => batt_report.pct = 0
  /\ "LOW" \in batt_report.flags <=> batt_report.pct < 10
  /\ power_state = "SHUTDOWN" <=> batt_reason

(* "Bit 2: Overtemperature (> 85 C)": a die that is more than a degree hotter  *)
(* than the limit when it is read is reported, so that it can be throttled.   *)
OvertempIsReported == batt_report.die > 860 => "OVERTEMP" \in batt_report.flags
=============================================================================
