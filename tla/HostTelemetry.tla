---------------------------- MODULE HostTelemetry ----------------------------
(***************************************************************************)
(* A measurement on its way from the sensors to a program: collect_telemetry *)
(* (main.c), the cache and the telemetry frame of spi_protocol.c, last_telem *)
(* of the driver, and what its three readers are told: the ioctl behind      *)
(* libapex and the Python binding, which copies all words under the lock,    *)
(* and the sysfs attributes, which are a file and a locked read each.  A     *)
(* release of the device file wipes last_telem word by word without the      *)
(* lock.  Signed values travel as unsigned 16-bit words.  A frame may be     *)
(* lost or damaged, and the MCU may be reset, at any time.  Of the words,    *)
(* uptime_ms, nfc_field_mv and the SDR RSSI (always 0) are left out, of the  *)
(* flags those of the radios.  The RSSI register is the byte                 *)
(* cc1101_read_status returns; module Cc1101 says what the chip makes of     *)
(* that access.                                                            *)
(***************************************************************************)
EXTENDS Integers

CONSTANT HtMeasures  \* temperature in tenths of a degree, RSSI register, battery in mV

INT16_MIN == -32768
INT16_MAX == 32767
UINT16_MAX == 65535

ASSUME HtAssumption ==
  HtMeasures \subseteq [temp : INT16_MIN .. INT16_MAX, rssi : -1 .. 255, mv : 0 .. UINT16_MAX]

VARIABLES
  ht_bits,   \* device_state: which of the flagged conditions hold
  ht_cache,  \* device_state.last_*, with the measurement it comes from
  ht_frame,  \* the telemetry frame on the link, or NoTelemetry
  ht_telem,  \* dev->last_telem of the driver: for each word the frame it is from
  ht_wipe,   \* the words a release has yet to wipe
  ht_torn    \* history: no whole frame has come in since a release began to wipe

htVars == <<ht_bits, ht_cache, ht_frame, ht_telem, ht_wipe, ht_torn>>
htHost == <<ht_telem, ht_wipe, ht_torn>>

(* A measurement; the register is -1 when there is no radio.                  *)
NoMeasure == [temp |-> 0, rssi |-> -1, mv |-> 0]
ZeroWords == [temp |-> 0, cc_rssi |-> 0, mv |-> 0, flags |-> 0]
NoTelemetry == [words |-> ZeroWords, of |-> NoMeasure, bits |-> {}]
HtBits == {"SDR_RX", "LOW_BATTERY"}
HtFields == {"temp", "cc_rssi", "mv", "flags"}

Word(n) == n % 65536
SignedWord(w) == IF w > INT16_MAX THEN w - 65536 ELSE w

-----------------------------------------------------------------------------
(* cc1101_get_rssi_dbm: a signed register in half dB, C division truncates.  *)
cc1101_get_rssi_dbm(reg) ==
  IF reg >= 128 THEN -((256 - reg) \div 2) - 74 ELSE (reg \div 2) - 74

cc1101_get_rssi_x10(reg) == 10 * cc1101_get_rssi_dbm(reg)

(* collect_telemetry; a battery monitor or radio that is not ready leaves 0.  *)
collect_telemetry(m) ==
  /\ ht_cache' = [words |-> [temp |-> Word(m.temp), mv |-> m.mv, flags |-> 0,
                             cc_rssi |-> IF m.rssi < 0 THEN 0
                                         ELSE Word(cc1101_get_rssi_x10(m.rssi))],
                  of |-> m, bits |-> {}]
  /\ UNCHANGED <<ht_bits, ht_frame, htHost>>

(* Commands and the brownout check of the main loop change the conditions.   *)
ConditionChanges(b) ==
  /\ ht_bits' = (ht_bits \ {b}) \cup ({b} \ ht_bits)
  /\ UNCHANGED <<ht_cache, ht_frame, htHost>>

FlagWord(bits) ==
  (IF "SDR_RX" \in bits THEN 1 ELSE 0) + (IF "LOW_BATTERY" \in bits THEN 128 ELSE 0)

(* spi_protocol_send_telemetry: the cached words and the conditions of now.   *)
spi_protocol_send_telemetry ==
  /\ ht_frame = NoTelemetry
  /\ ht_frame' = [ht_cache EXCEPT !.words.flags = FlagWord(ht_bits), !.bits = ht_bits]
  /\ UNCHANGED <<ht_bits, ht_cache, htHost>>

(* The work item of the driver takes the frame over under the lock, which a   *)
(* wipe does not hold: a word of it may be wiped at once, ...                *)
TelemetryArrives ==
  /\ ht_frame # NoTelemetry
  /\ ht_telem' = [f \in HtFields |-> ht_frame] /\ ht_frame' = NoTelemetry
  /\ ht_torn' = (ht_wipe # {})
  /\ UNCHANGED <<ht_bits, ht_cache, ht_wipe>>

(* ... or drops it as damaged.                                               *)
TelemetryLost ==
  /\ ht_frame # NoTelemetry /\ ht_frame' = NoTelemetry
  /\ UNCHANGED <<ht_bits, ht_cache, htHost>>

(* The wipe of apex_bridge_release, and one store of it.                      *)
ReleaseWipes ==
  /\ ht_wipe' = HtFields /\ ht_torn' = TRUE
  /\ UNCHANGED <<ht_bits, ht_cache, ht_frame, ht_telem>>

WipeWord(f) ==
  /\ f \in ht_wipe /\ ht_wipe' = ht_wipe \ {f}
  /\ ht_telem' = [ht_telem EXCEPT ![f] = NoTelemetry]
  /\ UNCHANGED <<ht_bits, ht_cache, ht_frame, ht_torn>>

HtReset ==
  /\ ht_bits' = {} /\ ht_cache' = NoTelemetry /\ ht_frame' = NoTelemetry
  /\ UNCHANGED htHost

-----------------------------------------------------------------------------
apex_battery_percent(mv) ==
  CASE mv >= 4200              -> 100
    [] mv <= 3000              -> 0
    [] 3700 <= mv /\ mv < 4200 -> ((mv - 3700) * 50) \div 500 + 50
    [] 3300 <= mv /\ mv < 3700 -> ((mv - 3300) * 40) \div 400 + 10
    [] 3000 < mv /\ mv < 3300  -> ((mv - 3000) * 10) \div 300

apex_is_low_battery(mv) == mv < 3300
apex_is_overtemp(temp) == temp > 850

FlagSet(w) ==
  {b \in HtBits : CASE b = "SDR_RX"      -> w % 2 = 1
                    [] b = "LOW_BATTERY" -> (w \div 128) % 2 = 1}

(* The readers change nothing.  What a reader is told at a moment:            *)
(* last_telem as APEX_IOC_GET_TELEMETRY copies it, ...                       *)
LastTelem == [f \in HtFields |-> ht_telem[f].words[f]]

(* Bug shape: the temperature is read as the unsigned word it travels in.    *)
MutGetTelemetry(t) ==
  [temp |-> t.temp, cc_rssi |-> SignedWord(t.cc_rssi), mv |-> t.mv, flags |-> FlagSet(t.flags)]

(* ... its words as apex_get_telemetry returns them, signed and unsigned, ... *)
apex_get_telemetry(t) ==
  [temp |-> SignedWord(t.temp), cc_rssi |-> SignedWord(t.cc_rssi), mv |-> t.mv,
   flags |-> FlagSet(t.flags)]

(* ... in the dictionary of the Python binding, ...                          *)
pyapex_get_telemetry(t) == apex_get_telemetry(t)

(* ... and in the attribute temp_c_x10, cc1101_rssi_x10, vbat_mv or mcu_flags. *)
sysfs_show(f, t) ==
  CASE f \in {"temp", "cc_rssi"} -> SignedWord(t[f])
    [] f = "mv"                  -> t.mv
    [] f = "flags"               -> FlagSet(t.flags)

-----------------------------------------------------------------------------
HtInit ==
  /\ ht_bits = {} /\ ht_cache = NoTelemetry /\ ht_frame = NoTelemetry
  /\ ht_telem = [f \in HtFields |-> NoTelemetry] /\ ht_wipe = {} /\ ht_torn = FALSE

HtNext ==
  \/ \E m \in HtMeasures : collect_telemetry(m)
  \/ \E b \in HtBits : ConditionChanges(b)
  \/ spi_protocol_send_telemetry \/ TelemetryArrives \/ TelemetryLost \/ HtReset
  \/ ReleaseWipes \/ \E f \in HtFields : WipeWord(f)

HtSpec == HtInit /\ [][HtNext]_htVars

-----------------------------------------------------------------------------
(* A register value as the data sheet reads it, in tenths of a dBm.          *)
RssiReference(reg) == 5 * (IF reg >= 128 THEN reg - 256 ELSE reg) - 740

(* What a reader is told by one word of a frame.                             *)
Faithful(f, x, t) ==
  CASE f = "temp"    -> x = t.of.temp /\ (apex_is_overtemp(x) <=> t.of.temp > 850)
    [] f = "mv"      -> x = t.of.mv /\ (apex_is_low_battery(x) <=> apex_battery_percent(x) < 10)
    [] f = "flags"   -> x = t.bits
    [] f = "cc_rssi" -> IF t.of.rssi < 0 THEN x = 0
                        ELSE x - RssiReference(t.of.rssi) \in -5 .. 5

(* Every value a reader is told is that of one measurement, or zero once it    *)
(* was wiped: with the sign of a temperature below zero and of an RSSI kept   *)
(* on the way, the RSSI within half a dB of the radio's, the conditions those *)
(* of one moment, and the percentage of the host in step with its low-battery *)
(* test.  The values of one copy are of the same measurement, unless a release *)
(* has wiped the cache since; attributes read one after the other need not be. *)
ReportedIsMeasured ==
  /\ \A f \in HtFields :
       /\ Faithful(f, apex_get_telemetry(LastTelem)[f], ht_telem[f])
       /\ Faithful(f, pyapex_get_telemetry(LastTelem)[f], ht_telem[f])
       /\ Faithful(f, sysfs_show(f, LastTelem), ht_telem[f])
  /\ ~ht_torn => \A f, g \in HtFields : ht_telem[f] = ht_telem[g]
=============================================================================
