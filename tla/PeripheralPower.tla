--------------------------- MODULE PeripheralPower ---------------------------
(***************************************************************************)
(* The switched supply rails of peripheral_power.c.  A call runs to its end *)
(* on one core, but peripheral_power_on sleeps while the rail ramps, so a   *)
(* sequence takes a step for each rail and a reset of the MCU may cut it    *)
(* short anywhere.  The event callback and the rail's current limit and     *)
(* delays are left out.                                                    *)
(***************************************************************************)
EXTENDS Sequences, SequencesExt, Integers

CONSTANT PowerRails  \* the rails in the order of enum power_rail_id

ASSUME PowerAssumption == PowerRails \in Seq(STRING) /\ PowerRails # << >>

VARIABLES
  rail_state,     \* pp_state.states
  rail_pin,       \* the enable pin of each rail is high
  power_ready,    \* pp_state.initialized
  power_call,     \* call under way, "none" between two calls
  power_todo,     \* the rails it has still to switch, in order
  power_result    \* what the last call returned

powerVars == <<rail_state, rail_pin, power_ready, power_call, power_todo,
               power_result>>

RailIds == 1 .. Len(PowerRails)
AllRails(v) == [i \in RailIds |-> v]

-----------------------------------------------------------------------------
(* set_rail_gpio: every rail of the table is active high.                    *)
set_rail_gpio(i, on) == rail_pin' = [rail_pin EXCEPT ![i] = on]

peripheral_power_init ==
  /\ power_call = "none"
  /\ rail_state' = AllRails("OFF") /\ rail_pin' = AllRails(FALSE)
  /\ power_ready' = TRUE /\ power_result' = 0
  /\ UNCHANGED <<power_call, power_todo>>

OnOrder == [i \in RailIds |-> i]

(* Bug shape: the off sequence uses the order of the on sequence.            *)
MutOffOrder == OnOrder

OffOrder == Reverse(OnOrder)

(* A call of the module, before initialisation refused with -1.              *)
PowerCall(name, rails) ==
  /\ power_call = "none"
  /\ IF power_ready
     THEN power_call' = name /\ power_todo' = rails /\ power_result' = 0
     ELSE power_result' = -1 /\ UNCHANGED <<power_call, power_todo>>
  /\ UNCHANGED <<rail_state, rail_pin, power_ready>>

peripheral_power_on(i) == PowerCall("on", <<i>>)
peripheral_power_off(i) == PowerCall("off", <<i>>)
peripheral_power_on_sequence == PowerCall("on_sequence", OnOrder)
peripheral_power_off_sequence == PowerCall("off_sequence", OffOrder)

Doing(calls) == power_call \in calls /\ power_todo # << >>

(* peripheral_power_on of the next rail: an enabled rail is skipped, ...     *)
RailAlreadyOn ==
  /\ Doing({"on", "on_sequence"}) /\ rail_state[Head(power_todo)] = "STABLE"
  /\ power_todo' = Tail(power_todo)
  /\ UNCHANGED <<rail_state, rail_pin, power_ready, power_call, power_result>>

(* ... another one is enabled and starts to ramp, ...                        *)
RampBegins ==
  /\ Doing({"on", "on_sequence"}) /\ rail_state[Head(power_todo)] = "OFF"
  /\ set_rail_gpio(Head(power_todo), TRUE)
  /\ rail_state' = [rail_state EXCEPT ![Head(power_todo)] = "RAMPING"]
  /\ UNCHANGED <<power_ready, power_call, power_todo, power_result>>

(* ... and is stable after ramp_ms.                                          *)
RampEnds ==
  /\ Doing({"on", "on_sequence"}) /\ rail_state[Head(power_todo)] = "RAMPING"
  /\ rail_state' = [rail_state EXCEPT ![Head(power_todo)] = "STABLE"]
  /\ power_todo' = Tail(power_todo)
  /\ UNCHANGED <<rail_pin, power_ready, power_call, power_result>>

(* peripheral_power_off of the next rail; a rail that is off stays so.       *)
RailOff ==
  /\ Doing({"off", "off_sequence"})
  /\ set_rail_gpio(Head(power_todo), FALSE)
  /\ rail_state' = [rail_state EXCEPT ![Head(power_todo)] = "OFF"]
  /\ power_todo' = Tail(power_todo)
  /\ UNCHANGED <<power_ready, power_call, power_result>>

PowerReturns ==
  /\ power_call # "none" /\ power_todo = << >>
  /\ power_call' = "none"
  /\ UNCHANGED <<rail_state, rail_pin, power_ready, power_todo, power_result>>

PowerInit ==
  /\ rail_state = AllRails("OFF") /\ rail_pin = AllRails(FALSE)
  /\ power_ready = FALSE
  /\ power_call = "none" /\ power_todo = << >> /\ power_result = 0

(* A reset clears the module's memory.  The pull-downs of the enable pins     *)
(* switch the rails off, or, after a warm reset, the rails stay as they are   *)
(* until peripheral_power_init drives the pins.                              *)
PowerReset ==
  /\ rail_state' = AllRails("OFF") /\ rail_pin' \in {AllRails(FALSE), rail_pin}
  /\ power_ready' = FALSE
  /\ power_call' = "none" /\ power_todo' = << >> /\ power_result' = 0

PowerNext ==
  \/ peripheral_power_init \/ PowerReset
  \/ \E i \in RailIds : peripheral_power_on(i) \/ peripheral_power_off(i)
  \/ peripheral_power_on_sequence \/ peripheral_power_off_sequence
  \/ RailAlreadyOn \/ RampBegins \/ RampEnds \/ RailOff \/ PowerReturns

PowerSpec == PowerInit /\ [][PowerNext]_powerVars

-----------------------------------------------------------------------------
peripheral_power_all_on == \A i \in RailIds : rail_state[i] = "STABLE"
peripheral_power_all_off == \A i \in RailIds : rail_state[i] = "OFF"

RailsFollowState ==
  /\ power_ready => \A i \in RailIds : rail_pin[i] <=> rail_state[i] # "OFF"
  /\ power_todo = << >> =>
       /\ \A i \in RailIds : rail_state[i] # "RAMPING"
       /\ power_call = "on_sequence" => peripheral_power_all_on
       /\ power_call = "off_sequence" => peripheral_power_all_off

(* The order of enum power_rail_id and of the two functions, whatever single  *)
(* rails were switched before: the on sequence enables a rail only when all   *)
(* earlier ones are stable, the off sequence lets go of a rail only when all  *)
(* later ones are off.  Once the module is initialised, at every moment in    *)
(* between peripheral_power_get_state answers what the pins do, no rail is    *)
(* left RAMPING by a call that returned (so peripheral_power_on never meets   *)
(* one, and its -1 and the rollbacks of the on sequence are not reached), and *)
(* the two sequences end where they say.                                     *)
RailsSequenced ==
  /\ []RailsFollowState
  /\ [][\A i \in RailIds :
          /\ power_call = "on_sequence" /\ ~rail_pin[i] /\ rail_pin'[i] =>
               \A j \in 1 .. i - 1 : rail_state[j] = "STABLE"
          /\ power_call = "off_sequence" /\ power_ready' /\ rail_pin[i] /\ ~rail_pin'[i] =>
               \A j \in i + 1 .. Len(PowerRails) : rail_state[j] = "OFF"]_powerVars

(* What the header gives as the sequence of power-tree.md, where VCC_SDIO      *)
(* comes before every other switched rail.                                   *)
SdioFirst ==
  [][\A i, j \in RailIds :
       power_call = "on_sequence" /\ ~rail_pin[i] /\ rail_pin'[i]
           /\ PowerRails[i] # "SDIO" /\ PowerRails[j] = "SDIO" =>
         rail_pin[j]]_powerVars

(* What power-sequencing-timing.md says of a warm reset: the rails remain on,  *)
(* from the reset to the end of peripheral_power_init.                       *)
RailsSurviveWarmReset ==
  [][~power_ready /\ power_ready' => rail_pin' = rail_pin]_powerVars
=============================================================================
