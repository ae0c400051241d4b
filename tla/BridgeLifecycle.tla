--------------------------- MODULE BridgeLifecycle ---------------------------
(***************************************************************************)
(* Binding and unbinding of the Linux driver: apex_bridge_probe with its     *)
(* error exits, apex_bridge_remove, and the work item that the interrupt of  *)
(* the MCU may start at any moment in between.  An MCU that is held in reset *)
(* does not pull INT_REQ.  Any step of probe may fail.  No process has the   *)
(* device file open while the driver is unbound: cdev.owner keeps the module *)
(* loaded as long as one has, and an unbind through sysfs, which it does not *)
(* prevent, is outside this module.                                         *)
(***************************************************************************)
EXTENDS Sequences, SequencesExt, Naturals

VARIABLES
  lc_at,       \* "unbound", "probe", "release", "unwind", "bound" or "remove"
  lc_step,     \* steps of probe done, or steps of the exit left, in order
  lc_held,     \* resources that are allocated or registered
  lc_running,  \* the MCU is out of reset
  lc_work      \* rx_work: "idle", "pending" or "running"

lcVars == <<lc_at, lc_step, lc_held, lc_running, lc_work>>

(* The steps of probe, in order.  spi_setup, the GPIOs (released by the device *)
(* core) and gpio_to_irq can fail but hold nothing that probe gives back.     *)
ProbeOrder == <<"dev", "rx_fifo", "tx_fifo", "spi_setup", "gpio_init", "gpio_to_irq",
                "irq", "chrdev", "cdev", "class", "device">>
Holds(step) == {step} \ {"spi_setup", "gpio_init", "gpio_to_irq"}

-----------------------------------------------------------------------------
ProbeBegins ==
  /\ lc_at = "unbound" /\ lc_at' = "probe" /\ lc_step' = ProbeOrder
  /\ UNCHANGED <<lc_held, lc_running, lc_work>>

(* apex_gpio_init and apex_mcu_reset_assert put the MCU in reset.            *)
InReset(step) == step \in {"gpio_init", "reset"}

ProbeStep ==
  /\ lc_at = "probe" /\ lc_step # << >>
  /\ lc_held' = lc_held \cup Holds(Head(lc_step)) /\ lc_step' = Tail(lc_step)
  /\ lc_running' = (lc_running /\ ~InReset(Head(lc_step)))
  /\ UNCHANGED <<lc_at, lc_work>>

(* The exits of probe, from the label a failing step jumps to.               *)
ErrorExits == <<"class", "cdev", "chrdev", "irq", "tx_fifo", "rx_fifo", "dev">>

ErrorLabel(step) ==
  CASE step = "device"  -> "class"
    [] step = "class"   -> "cdev"
    [] step = "cdev"    -> "chrdev"
    [] step = "chrdev"  -> "irq"
    [] step \in {"irq", "gpio_to_irq", "gpio_init", "spi_setup"} -> "tx_fifo"
    [] step = "tx_fifo" -> "rx_fifo"
    [] step = "rx_fifo" -> "dev"
    [] step = "dev"     -> "none"

ExitsFrom(label) ==
  IF label = "none" THEN << >>
  ELSE SubSeq(ErrorExits, CHOOSE i \in DOMAIN ErrorExits : ErrorExits[i] = label,
              Len(ErrorExits))

ProbeFails ==
  /\ lc_at = "probe" /\ lc_step # << >>
  /\ lc_at' = "unwind" /\ lc_step' = ExitsFrom(ErrorLabel(Head(lc_step)))
  /\ UNCHANGED <<lc_held, lc_running, lc_work>>

(* All steps done, the MCU leaves reset and may signal at once, ...           *)
apex_mcu_reset_release ==
  /\ lc_at = "probe" /\ lc_step = << >>
  /\ lc_at' = "release" /\ lc_running' = TRUE
  /\ UNCHANGED <<lc_step, lc_held, lc_work>>

(* ... then runtime power management and the streaming engine are set up.    *)
ProbeEnds ==
  /\ lc_at = "release" /\ lc_at' = "bound" /\ lc_held' = lc_held \cup {"pm"}
  /\ UNCHANGED <<lc_step, lc_running, lc_work>>

(* Bug shape: the MCU is put in reset after the work was cancelled.          *)
MutRemoveOrder == <<"pm", "cancel_work", "sg_stop", "reset", "device", "class", "cdev",
                    "chrdev", "irq", "rx_fifo", "tx_fifo", "dev">>

(* apex_bridge_remove: reset, power management, cancel_work_sync, the          *)
(* streaming engine, then what probe acquired.                               *)
RemoveOrder == <<"reset", "pm", "cancel_work", "sg_stop", "device", "class", "cdev",
                 "chrdev", "irq", "rx_fifo", "tx_fifo", "dev">>

RemoveBegins ==
  /\ lc_at = "bound" /\ lc_at' = "remove" /\ lc_step' = RemoveOrder
  /\ UNCHANGED <<lc_held, lc_running, lc_work>>

(* One step of either way out; cancel_work_sync waits for work that runs.    *)
ExitStep ==
  /\ lc_at \in {"unwind", "remove"} /\ lc_step # << >>
  /\ Head(lc_step) = "cancel_work" => lc_work # "running"
  /\ lc_work' = IF Head(lc_step) = "cancel_work" THEN "idle" ELSE lc_work
  /\ lc_running' = (lc_running /\ ~InReset(Head(lc_step)))
  /\ lc_held' = lc_held \ {Head(lc_step)} /\ lc_step' = Tail(lc_step)
  /\ UNCHANGED lc_at

Unbound ==
  /\ lc_at \in {"unwind", "remove"} /\ lc_step = << >>
  /\ lc_at' = "unbound"
  /\ UNCHANGED <<lc_step, lc_held, lc_running, lc_work>>

-----------------------------------------------------------------------------
(* INT_REQ falls: apex_irq_handler.                                          *)
apex_irq_handler ==
  /\ "irq" \in lc_held /\ lc_running /\ lc_work # "pending"
  /\ lc_work' = "pending"
  /\ UNCHANGED <<lc_at, lc_step, lc_held, lc_running>>

WorkStarts ==
  /\ lc_work = "pending" /\ lc_work' = "running"
  /\ UNCHANGED <<lc_at, lc_step, lc_held, lc_running>>

WorkEnds ==
  /\ lc_work = "running" /\ lc_work' = "idle"
  /\ UNCHANGED <<lc_at, lc_step, lc_held, lc_running>>

LcInit ==
  /\ lc_at = "unbound" /\ lc_step = << >> /\ lc_held = {} /\ lc_running = TRUE
  /\ lc_work = "idle"

LcNext ==
  \/ ProbeBegins \/ ProbeStep \/ ProbeFails \/ apex_mcu_reset_release \/ ProbeEnds
  \/ RemoveBegins \/ ExitStep \/ Unbound \/ apex_irq_handler \/ WorkStarts \/ WorkEnds

-----------------------------------------------------------------------------
(* What has to exist while something that uses it exists.                    *)
NeededBy(r) ==
  CASE r \in {"rx_fifo", "tx_fifo"} -> {"dev"}
    [] r \in {"irq", "chrdev"}      -> {"dev", "rx_fifo", "tx_fifo"}
    [] r = "cdev"                   -> {"chrdev", "irq"}
    [] r = "class"                  -> {"cdev"}
    [] r = "device"                 -> {"class", "cdev"}
    [] OTHER                        -> {}

(* On every way in and out of probe and remove, wherever a step fails and      *)
(* whenever the interrupt comes: nothing is registered whose parts are gone,  *)
(* the work item never waits or runs on a device whose queue is freed, and an *)
(* unbound driver holds nothing.                                             *)
ResourcesNested ==
  /\ \A r \in lc_held : NeededBy(r) \subseteq lc_held
  /\ lc_work # "idle" => {"dev", "rx_fifo"} \subseteq lc_held
  /\ lc_at = "unbound" => lc_held = {}
=============================================================================
