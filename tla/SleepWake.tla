------------------------------ MODULE SleepWake ------------------------------
(***************************************************************************)
(* The sleep state machine of sleep_wake.c.  Its header wants the main loop  *)
(* to call sleep_wake_process; nothing in the firmware does, and the file is *)
(* not in the build, so a call may begin at any time or never.  The SPI0     *)
(* interrupt advances spi_rx_head and may call sleep_wake_force_wake between *)
(* any two accesses to the shared words.  Time passes between two calls      *)
(* only: a call is short.  spi_rx_head is a plain counter here,              *)
(* spi_rx_count; that a whole lap of the ring between two calls looks like   *)
(* no activity is left out.  Core 1 runs core1_entry (main.c), whose loop    *)
(* never reads the inter-core FIFO and never ends.                          *)
(***************************************************************************)
EXTENDS Naturals

CONSTANTS
  SLEEP_IDLE_TIMEOUT_MS,   \* idle time before light sleep
  SLEEP_LIGHT_TIMEOUT_MS,  \* idle time before deep sleep
  MaxBytes                 \* bound: bytes received between two resets

ASSUME SleepAssumption ==
  /\ SLEEP_IDLE_TIMEOUT_MS \in Nat /\ MaxBytes \in Nat
  /\ SLEEP_LIGHT_TIMEOUT_MS \in Nat
  /\ SLEEP_IDLE_TIMEOUT_MS <= SLEEP_LIGHT_TIMEOUT_MS

VARIABLES
  sleep_state,        \* sw_state.state
  sleep_idle,         \* now - last_activity_ms, up to the longest timeout
  force_wake_pending,
  spi_rx_count,       \* spi_rx_head
  last_head,
  sleep_pc,           \* in sleep_wake_process: "out", "decide", "wake", "launch",
                      \* "track" or "set"
  has_activity, idle_ms, sleep_target, \* its locals
  clock,              \* system clock: "full" (150 MHz) or "slow" (48 MHz)
  core1_fifo,         \* words sent to core 1, which reads none of them
  unseen, late,       \* history: bytes no call has reacted to, see SpiByte
  due                 \* history: this call began with a reason to wake

sleepVars == <<sleep_state, sleep_idle, force_wake_pending, spi_rx_count, last_head,
               sleep_pc, has_activity, idle_ms, sleep_target, clock, core1_fifo,
               unseen, late, due>>
sleepLocals == <<has_activity, idle_ms, sleep_target>>
sleepChip == <<clock, core1_fifo>>
sleepHist == <<unseen, late, due>>

SleepState == {"IDLE", "LIGHT", "DEEP"}
SIO_FIFO_DEPTH == 4

-----------------------------------------------------------------------------
(* Interrupt context.  A byte that comes between the check at the start of a  *)
(* call and the reset of the tracker is `late', any other one is `unseen'.   *)
SpiByte ==
  /\ spi_rx_count < MaxBytes
  /\ spi_rx_count' = spi_rx_count + 1
  /\ unseen' = (unseen \/ sleep_pc \notin {"decide", "track"})
  /\ late' = (late \/ sleep_pc \in {"decide", "track"})
  /\ UNCHANGED <<sleep_state, sleep_idle, force_wake_pending, last_head, sleep_pc,
                 sleepLocals, sleepChip, due>>

sleep_wake_force_wake ==
  /\ force_wake_pending' = TRUE
  /\ UNCHANGED <<sleep_state, sleep_idle, spi_rx_count, last_head, sleep_pc,
                 sleepLocals, sleepChip, sleepHist>>

SleepTick ==
  /\ sleep_pc = "out" /\ sleep_idle < SLEEP_LIGHT_TIMEOUT_MS
  /\ sleep_idle' = sleep_idle + 1
  /\ UNCHANGED <<sleep_state, force_wake_pending, spi_rx_count, last_head, sleep_pc,
                 sleepLocals, sleepChip, sleepHist>>

-----------------------------------------------------------------------------
(* sleep_wake_process: idle_ms and check_spi_activity, ...                   *)
ProcessBegin ==
  /\ sleep_pc = "out" /\ sleep_pc' = "decide"
  /\ idle_ms' = sleep_idle
  /\ has_activity' = (spi_rx_count # last_head) /\ last_head' = spi_rx_count
  /\ due' = (force_wake_pending \/ unseen)
  /\ unseen' = (unseen /\ spi_rx_count = last_head)
  /\ late' = (late /\ spi_rx_count = last_head)
  /\ UNCHANGED <<sleep_state, sleep_idle, force_wake_pending, spi_rx_count,
                 sleep_target, sleepChip>>

(* ... then a forced wake, ...                                               *)
ForcedWake ==
  /\ sleep_pc = "decide" /\ force_wake_pending
  /\ force_wake_pending' = FALSE /\ sleep_pc' = "wake"
  /\ UNCHANGED <<sleep_state, sleep_idle, spi_rx_count, last_head, sleepLocals,
                 sleepChip, sleepHist>>

(* ... or activity, ...                                                      *)
ActivityWake ==
  /\ sleep_pc = "decide" /\ ~force_wake_pending /\ has_activity
  /\ sleep_pc' = "wake"
  /\ UNCHANGED <<sleep_state, sleep_idle, force_wake_pending, spi_rx_count, last_head,
                 sleepLocals, sleepChip, sleepHist>>

(* Bug shape: exit_light_sleep does not restore the clock.                   *)
MutWake ==
  /\ sleep_pc = "wake" /\ sleep_state # "DEEP" /\ sleep_pc' = "out"
  /\ sleep_state' = "IDLE" /\ sleep_idle' = 0
  /\ UNCHANGED <<force_wake_pending, spi_rx_count, last_head, core1_fifo, sleepLocals,
                 sleepHist, clock>>

(* ... which both return to IDLE, from light sleep by exit_light_sleep, ...   *)
Wake ==
  /\ sleep_pc = "wake" /\ sleep_state # "DEEP" /\ sleep_pc' = "out"
  /\ sleep_state' = "IDLE" /\ sleep_idle' = 0
  /\ clock' = IF sleep_state = "LIGHT" THEN "full" ELSE clock
  /\ UNCHANGED <<force_wake_pending, spi_rx_count, last_head, core1_fifo, sleepLocals,
                 sleepHist>>

(* ... from deep sleep by exit_deep_sleep: the clock, the watchdog (not here),*)
(* then multicore_launch_core1.  That call sends the first word of a          *)
(* handshake which only the boot ROM of core 1 answers, and waits for the     *)
(* answer.  Core 1 is in the loop of core1_entry, so the wait does not end.   *)
DeepWake ==
  /\ sleep_pc = "wake" /\ sleep_state = "DEEP" /\ sleep_pc' = "launch"
  /\ clock' = "full"
  /\ core1_fifo < SIO_FIFO_DEPTH /\ core1_fifo' = core1_fifo + 1
  /\ UNCHANGED <<sleep_state, sleep_idle, force_wake_pending, spi_rx_count, last_head,
                 sleepLocals, sleepHist>>

(* ... or a timeout that starts the way into the next sleep state, ...       *)
Deeper ==
  CASE sleep_state = "IDLE" /\ idle_ms >= SLEEP_IDLE_TIMEOUT_MS -> "LIGHT"
    [] sleep_state = "LIGHT" /\ idle_ms >= SLEEP_LIGHT_TIMEOUT_MS -> "DEEP"
    [] OTHER -> sleep_state

Idle ==
  /\ sleep_pc = "decide" /\ ~force_wake_pending /\ ~has_activity
  /\ sleep_target' = Deeper
  /\ sleep_pc' = IF Deeper = sleep_state THEN "out" ELSE "track"
  /\ UNCHANGED <<sleep_state, sleep_idle, force_wake_pending, spi_rx_count, last_head,
                 has_activity, idle_ms, sleepChip, sleepHist>>

(* ... which begins with reset_spi_activity_tracker ...                      *)
ResetTracker ==
  /\ sleep_pc = "track" /\ sleep_pc' = "set"
  /\ last_head' = spi_rx_count
  /\ UNCHANGED <<sleep_state, sleep_idle, force_wake_pending, spi_rx_count,
                 sleepLocals, sleepChip, sleepHist>>

(* Bug shape: the tracker is reset after the clocks were changed.            *)
MutEnterLight ==
  /\ sleep_pc = "set" /\ sleep_target = "LIGHT" /\ sleep_pc' = "out"
  /\ clock' = "slow" /\ sleep_state' = "LIGHT"
  /\ last_head' = spi_rx_count
  /\ UNCHANGED <<sleep_idle, force_wake_pending, spi_rx_count, core1_fifo, sleepLocals,
                 sleepHist>>

(* ... and ends with the slow clock, ...                                     *)
EnterLight ==
  /\ sleep_pc = "set" /\ sleep_target = "LIGHT" /\ sleep_pc' = "out"
  /\ clock' = "slow" /\ sleep_state' = "LIGHT"
  /\ UNCHANGED <<sleep_idle, force_wake_pending, spi_rx_count, last_head, core1_fifo,
                 sleepLocals, sleepHist>>

(* ... or with a word for core 1, which waits while the FIFO is full.         *)
EnterDeep ==
  /\ sleep_pc = "set" /\ sleep_target = "DEEP" /\ sleep_pc' = "out"
  /\ core1_fifo < SIO_FIFO_DEPTH /\ core1_fifo' = core1_fifo + 1
  /\ sleep_state' = "DEEP"
  /\ UNCHANGED <<sleep_idle, force_wake_pending, spi_rx_count, last_head, clock,
                 sleepLocals, sleepHist>>

-----------------------------------------------------------------------------
(* sleep_wake_init, after a boot that has set the clocks and launched core 1. *)
SleepInit ==
  /\ sleep_state = "IDLE" /\ sleep_idle = 0 /\ force_wake_pending = FALSE
  /\ spi_rx_count = 0 /\ last_head = 0 /\ sleep_pc = "out"
  /\ has_activity = FALSE /\ idle_ms = 0 /\ sleep_target = "IDLE"
  /\ clock = "full" /\ core1_fifo = 0
  /\ unseen = FALSE /\ late = FALSE /\ due = FALSE

(* A reset, by the watchdog or the host, and the boot after it.              *)
SleepReset ==
  /\ sleep_state' = "IDLE" /\ sleep_idle' = 0 /\ force_wake_pending' = FALSE
  /\ spi_rx_count' = 0 /\ last_head' = 0 /\ sleep_pc' = "out"
  /\ has_activity' = FALSE /\ idle_ms' = 0 /\ sleep_target' = "IDLE"
  /\ clock' = "full" /\ core1_fifo' = 0
  /\ unseen' = FALSE /\ late' = FALSE /\ due' = FALSE

(* The rest of a call that has begun.                                        *)
SleepProcess == ForcedWake \/ ActivityWake \/ Wake \/ DeepWake \/ Idle
             \/ ResetTracker \/ EnterLight \/ EnterDeep

SleepNext == SpiByte \/ sleep_wake_force_wake \/ SleepTick \/ ProcessBegin
          \/ SleepProcess \/ SleepReset

SleepSpec == SleepInit /\ [][SleepNext]_sleepVars

(* Core 0 goes on with a call that has begun; nothing makes it begin one.     *)
SleepLiveSpec == SleepSpec /\ WF_sleepVars(SleepProcess)

-----------------------------------------------------------------------------
(* Types of all variables.                                                   *)
SleepTypeOK ==
  /\ sleep_state \in SleepState /\ sleep_target \in SleepState
  /\ sleep_idle \in 0 .. SLEEP_LIGHT_TIMEOUT_MS /\ idle_ms \in 0 .. SLEEP_LIGHT_TIMEOUT_MS
  /\ force_wake_pending \in BOOLEAN /\ has_activity \in BOOLEAN
  /\ spi_rx_count \in 0 .. MaxBytes /\ last_head \in 0 .. MaxBytes
  /\ sleep_pc \in {"out", "decide", "wake", "launch", "track", "set"}
  /\ clock \in {"full", "slow"} /\ core1_fifo \in 0 .. SIO_FIFO_DEPTH
  /\ unseen \in BOOLEAN /\ late \in BOOLEAN /\ due \in BOOLEAN

(* The clock is what the state says on every path in and out, except for a     *)
(* call that waits for core 1; and core 1 is sent one word per deep sleep, so *)
(* the FIFO it never reads is not full and no push waits for room.           *)
ChipMatchesState ==
  /\ clock = "full" <=> (sleep_state = "IDLE" \/ sleep_pc = "launch")
  /\ core1_fifo = IF sleep_state # "DEEP" THEN 0 ELSE IF sleep_pc = "launch" THEN 2 ELSE 1

(* A call that begins after a forced wake, or after a byte that came between   *)
(* two calls or after the reset of the tracker, does not return asleep: no    *)
(* request is lost by the store that clears the flag, and no such byte by the *)
(* reset, "so that any new SPI activity upon waking triggers an immediate     *)
(* wake detection".                                                          *)
WakesWhenDue ==
  [][sleep_pc # "out" /\ sleep_pc' = "out" /\ due => sleep_state' = "IDLE"]_sleepVars

(* What the comment on check_spi_activity says, "so wake events from pre-sleep *)
(* activity are properly detected": a byte that came while a call was on its  *)
(* way to sleep is seen by the next one.                                     *)
LateByteDetected == late /\ sleep_pc = "out" => spi_rx_count # last_head

(* "Any -> IDLE: SPI0 activity detected": a call that has decided to wake does *)
(* so, from whatever sleep state.                                            *)
ActivityReturnsToIdle == sleep_pc = "wake" ~> sleep_state = "IDLE"
=============================================================================
