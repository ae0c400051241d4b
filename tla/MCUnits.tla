------------------------------- MODULE MCUnits -------------------------------
(***************************************************************************)
(* The components that share no state, checked in one run.  `focus' is       *)
(* chosen once and only the component it names moves, so the state space is  *)
(* the sum of theirs and not the product; what a component does is the       *)
(* next-state relation of its own module, unchanged.                        *)
(***************************************************************************)
EXTENDS SdrDma, RxRing, SleepWake, PeripheralPower, Cc1101, St25r3916,
        AdcCalibration, BatteryMonitor, Lms7002m, HostCommands, HostTelemetry,
        BridgeLifecycle

VARIABLE focus

Units == {"sdr_dma", "rx_ring", "sleep_wake", "power", "cc1101", "nfc",
          "calibration", "battery", "lms", "commands", "telemetry", "lifecycle"}

(* Only the unit in focus moves.                                             *)
Others(unit, v) == IF focus = unit THEN TRUE ELSE UNCHANGED v
Only(unit) ==
  /\ focus = unit /\ UNCHANGED focus
  /\ Others("sdr_dma", dmaVars) /\ Others("rx_ring", vars)
  /\ Others("sleep_wake", sleepVars) /\ Others("power", powerVars)
  /\ Others("cc1101", ccVars) /\ Others("nfc", nfcVars)
  /\ Others("calibration", calVars) /\ Others("battery", battVars)
  /\ Others("lms", lmsVars) /\ Others("commands", hcVars)
  /\ Others("telemetry", htVars) /\ Others("lifecycle", lcVars)

UnitsInit ==
  /\ focus \in Units
  /\ DmaInit /\ Init /\ SleepInit /\ PowerInit /\ CcInit /\ NfcInit /\ CalInit
  /\ BattInit /\ LmsInit /\ HcInit /\ HtInit /\ LcInit
  /\ focus # "rx_ring" => byte = 0

UnitsNext ==
  \/ Only("sdr_dma") /\ DmaNext
  \/ Only("rx_ring") /\ Next
  \/ Only("sleep_wake") /\ SleepNext
  \/ Only("power") /\ PowerNext
  \/ Only("cc1101") /\ CcNext
  \/ Only("nfc") /\ NfcNext
  \/ Only("calibration") /\ CalNext
  \/ Only("battery") /\ BattNext
  \/ Only("lms") /\ LmsNext
  \/ Only("commands") /\ HcNext
  \/ Only("telemetry") /\ HtNext
  \/ Only("lifecycle") /\ LcNext

allVars == <<focus, dmaVars, vars, sleepVars, powerVars, ccVars, nfcVars,
             calVars, battVars, lmsVars, hcVars, htVars, lcVars>>

UnitsSpec == UnitsInit /\ [][UnitsNext]_allVars

-----------------------------------------------------------------------------
(* The constants: thresholds with their neighbours, the end of every range,  *)
(* and what a Python caller may pass that a C caller cannot.                 *)
(* A cold and a hot device, a weak and a strong signal, a battery on either   *)
(* side of the low-battery limit.                                            *)
MCMeasures ==
  {[temp |-> -400, rssi |-> 129, mv |-> 3299],
   [temp |-> 851, rssi |-> 127, mv |-> 3300]}

MCRails == <<"SDR_1V8", "SDR_1V1", "SDR_3V3", "NFC", "SUBGHZ", "SDIO">>

Request(call, a, b) == [call |-> call, a |-> a, b |-> b]
MCRequests ==
  {Request("antenna", n, 0) : n \in {-1, 3, 4}}
    \cup {Request("stream", n, 0) : n \in {0, 1}}
    \cup {Request("write", p[1], p[2]) :
            p \in {<<46, 2>>, <<47, 1>>, <<61, 2>>, <<0, 65>>, <<256, 1>>}}
    \cup {Request("nfc", n, 0) : n \in {256, 257}}
    \cup {Request("band", n, 0) : n \in {0, 2}}
    \cup {Request("tune", 99, 0), Request("read", 45, 2), Request("channel", 300, 0),
          Request("poll", 0, 0)}
=============================================================================
