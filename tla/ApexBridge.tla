----------------------------- MODULE ApexBridge ------------------------------
(***************************************************************************)
(* The character device of the Linux driver (apex_bridge.c): open, release,*)
(* read, write, the ioctls that talk to the MCU, the INT_REQ interrupt and *)
(* its work item, the cached telemetry, and power management.              *)
(*                                                                         *)
(* The MCU is the environment: INT_REQ falls at any time, and a transfer    *)
(* fails, returns garbage, or returns any frame.  A frame is what the       *)
(* driver tells apart: telemetry with its flags, or another payload.       *)
(* The ioctls that only read (GET_TELEMETRY, GET_STATUS) are left out.     *)
(***************************************************************************)
EXTENDS Naturals, FiniteSets

CONSTANTS
  Procs,       \* processes that open the device
  FIFO_SIZE,   \* capacity of rx_fifo, in cells (64 KiB)
  TELEM_SIZE,  \* cells of a telemetry payload
  MaxSessions, \* bound: successful opens
  MaxEdges     \* bound: rising edges the brownout counter counts

ASSUME BridgeAssumption ==
  /\ FIFO_SIZE \in Nat \ {0} /\ TELEM_SIZE \in 1 .. FIFO_SIZE
  /\ MaxSessions \in Nat /\ MaxEdges \in Nat /\ IsFiniteSet(Procs)

VARIABLES
  open_count,
  user,        \* where each process is
  session,     \* history: number of successful opens
  last_telem,  \* the session during which it was received, or NOBODY
  rx_fifo,     \* number of cells in the FIFO
  work,        \* rx_work: "idle", "xfer" or "deliver"
  work_pending,\* rx_work is queued
  frame,       \* frame the work item has fetched
  flags,       \* driver flags that are set
  brownout_prev_flag, brownout_count,
  usage,       \* runtime PM usage count
  power,       \* "on", or "off" between suspend and resume
  asleep,      \* the system is in (or entering) system sleep
  latched      \* an INT_REQ edge came while the interrupt was disabled

vars == <<open_count, user, session, last_telem, rx_fifo, work,
          work_pending, frame, flags, brownout_prev_flag, brownout_count,
          usage, power, asleep, latched>>
userVars == <<open_count, user, session>>
workVars == <<work, work_pending, frame>>
browVars == <<brownout_prev_flag, brownout_count>>
pmVars == <<usage, power, asleep, latched>>

(* Telemetry that was wiped, or that arrived while the device was closed.    *)
NOBODY == 0
Telemetry == [kind : {"telemetry"}, sdr_active : BOOLEAN]
Other == [kind : {"other"}, sdr_active : {FALSE}]
NoFrame == [kind |-> "other", sdr_active |-> FALSE]

(* kfifo_in copies what fits and drops the rest.                             *)
kfifo_in(n) == IF rx_fifo + n <= FIFO_SIZE THEN rx_fifo + n ELSE FIFO_SIZE

kfifo_out(n) == rx_fifo' = rx_fifo - n

(* A process holds an open handle (or release has not given it up yet).      *)
InSession == \E p \in Procs : user[p] \in {"open", "wait", "rel_count"}

-----------------------------------------------------------------------------
(* INT_REQ falls.  apex_irq_handler only queues rx_work; a disabled edge      *)
(* interrupt is latched by the interrupt core until it is enabled again.     *)
apex_irq_handler ==
  /\ IF power = "on" THEN work_pending' = TRUE /\ UNCHANGED latched
                     ELSE latched' = TRUE /\ UNCHANGED work_pending
  /\ UNCHANGED <<userVars, last_telem, rx_fifo, work, frame, flags, browVars,
                 usage, power, asleep>>

(* A reference on the device wakes it up, except in system sleep.            *)
pm_runtime_get_sync == usage' = usage + 1
pm_runtime_put == usage' = usage - 1

(* The work item starts: pm_runtime_get_sync, then the two buffers.          *)
WorkBegin ==
  /\ work = "idle" /\ work_pending
  /\ work' = "xfer" /\ work_pending' = FALSE
  /\ pm_runtime_get_sync
  /\ UNCHANGED <<userVars, last_telem, rx_fifo, frame, flags, browVars, power,
                 asleep, latched>>

(* Bug shape: the early exits forget the reference.                          *)
MutWorkGivesUp ==
  /\ work = "xfer"
  /\ flags' \in {flags, flags \cup {"SPI_ERROR"}}
  /\ work' = "idle"
  /\ UNCHANGED <<userVars, last_telem, rx_fifo, work_pending, frame, browVars,
                 usage, power, asleep, latched>>

(* No memory, a failed transfer, a frame apex_validate_frame rejects, or     *)
(* telemetry of the wrong size: the work item drops its reference.           *)
WorkGivesUp ==
  /\ work = "xfer"
  /\ flags' \in {flags, flags \cup {"SPI_ERROR"}}
  /\ work' = "idle"
  /\ pm_runtime_put
  /\ UNCHANGED <<userVars, last_telem, rx_fifo, work_pending, frame, browVars,
                 power, asleep, latched>>

WorkFrame(f) ==
  /\ work = "xfer"
  /\ f.sdr_active => brownout_count < MaxEdges
  /\ work' = "deliver" /\ frame' = f
  /\ UNCHANGED <<userVars, last_telem, rx_fifo, work_pending, flags, browVars,
                 pmVars>>

(* The mask the code applies to the telemetry flags is the driver's own bit  *)
(* number APEX_FLAG_LOW_BATTERY = 3, which redefines BIT(7) of the register   *)
(* header: it selects SDR_RX_ACTIVE and SDR_TX_ACTIVE, never LOW_BATTERY.    *)
FlagMaskHits(f) == f.sdr_active

(* Under rx_lock: cache the telemetry, update flag and counter, push the     *)
(* payload, wake readers; then drop the reference.                           *)
WorkTelemetry ==
  /\ work = "deliver" /\ frame.kind = "telemetry"
  /\ last_telem' = IF InSession THEN session ELSE NOBODY
  /\ IF FlagMaskHits(frame)
     THEN /\ flags' = flags \cup {"LOW_BATTERY"}
          /\ brownout_count' = brownout_count + (IF brownout_prev_flag THEN 0 ELSE 1)
          /\ brownout_prev_flag' = TRUE
     ELSE /\ flags' = flags \ {"LOW_BATTERY"}
          /\ brownout_prev_flag' = FALSE
          /\ UNCHANGED brownout_count
  /\ rx_fifo' = kfifo_in(TELEM_SIZE)
  /\ work' = "idle" /\ frame' = NoFrame /\ pm_runtime_put
  /\ UNCHANGED <<userVars, work_pending, power, asleep, latched>>

WorkPayload ==
  /\ work = "deliver" /\ frame.kind = "other"
  /\ rx_fifo' \in {kfifo_in(n) : n \in 0 .. FIFO_SIZE}
  /\ work' = "idle" /\ frame' = NoFrame /\ pm_runtime_put
  /\ UNCHANGED <<userVars, last_telem, work_pending, flags, browVars, power,
                 asleep, latched>>

-----------------------------------------------------------------------------
(* The file operations.  In system sleep the processes are frozen.           *)
User(p, from, to) == ~asleep /\ user[p] = from /\ user' = [user EXCEPT ![p] = to]

(* Bug shape: the device is not claimed when it is opened.                   *)
MutOpenClaim(p) ==
  /\ User(p, "closed", "opening")
  /\ session < MaxSessions
  /\ open_count' = 1
  /\ UNCHANGED <<session, last_telem, rx_fifo, workVars, flags, browVars,
                 pmVars>>

(* apex_bridge_open: cmpxchg on open_count; an open that finds the device     *)
(* busy leaves no trace, ...                                                 *)
OpenClaim(p) ==
  /\ User(p, "closed", "opening")
  /\ open_count = 0 /\ session < MaxSessions
  /\ open_count' = 1
  /\ UNCHANGED <<session, last_telem, rx_fifo, workVars, flags, browVars,
                 pmVars>>

(* ... then the reference, which counts even when the device does not wake    *)
(* up; if it does the session begins, ...                                    *)
OpenGet(p) ==
  /\ \/ User(p, "opening", "open") /\ session' = session + 1
     \/ User(p, "opening", "undo") /\ UNCHANGED session
  /\ pm_runtime_get_sync
  /\ UNCHANGED <<open_count, last_telem, rx_fifo, workVars, flags, browVars,
                 power, asleep, latched>>

(* ... else the claim is given up first and the reference after it.          *)
OpenUndoCount(p) ==
  /\ User(p, "undo", "undo_put")
  /\ open_count' = 0
  /\ UNCHANGED <<session, last_telem, rx_fifo, workVars, flags, browVars,
                 pmVars>>

OpenUndoPut(p) ==
  /\ User(p, "undo_put", "closed")
  /\ pm_runtime_put
  /\ UNCHANGED <<open_count, session, last_telem, rx_fifo, workVars, flags,
                 browVars, power, asleep, latched>>

(* apex_bridge_release, up to and including pm_runtime_put_autosuspend, ...  *)
ReleasePut(p) ==
  /\ User(p, "open", "rel_count")
  /\ pm_runtime_put
  /\ UNCHANGED <<open_count, session, last_telem, rx_fifo, workVars,
                 flags, browVars, power, asleep, latched>>

(* ... the next process may open from here on, ...                           *)
ReleaseCount(p) ==
  /\ User(p, "rel_count", "rel_wipe")
  /\ open_count' = 0
  /\ UNCHANGED <<session, last_telem, rx_fifo, workVars, flags, browVars,
                 pmVars>>

(* Bug shape: the wipe is forgotten.                                         *)
MutReleaseWipe(p) ==
  /\ User(p, "rel_wipe", "closed")
  /\ UNCHANGED <<open_count, session, last_telem, rx_fifo, workVars, flags,
                 browVars, pmVars>>

(* ... and only now the cached telemetry is wiped, without rx_lock; the FIFO   *)
(* is left as it is.                                                         *)
ReleaseWipe(p) ==
  /\ User(p, "rel_wipe", "closed")
  /\ last_telem' = NOBODY
  /\ UNCHANGED <<open_count, session, rx_fifo, workVars, flags, browVars,
                 pmVars>>

(* apex_bridge_read: an empty FIFO blocks the caller ...                     *)
ReadBlocks(p) ==
  /\ User(p, "open", "wait") /\ rx_fifo = 0
  /\ UNCHANGED <<open_count, session, last_telem, rx_fifo, workVars,
                 flags, browVars, pmVars>>

(* Bug shape: the condition wait_event checks on wake-up is never true.      *)
MutReadReturns(p) ==
  /\ ~asleep /\ user[p] = "open" /\ rx_fifo > 0
  /\ user' = [user EXCEPT ![p] = "open"]
  /\ \E n \in 1 .. rx_fifo : kfifo_out(n)
  /\ UNCHANGED <<open_count, session, last_telem, workVars, flags,
                 browVars, pmVars>>

(* ... until it has cells; then up to the size asked for are taken.          *)
ReadReturns(p) ==
  /\ ~asleep /\ user[p] \in {"open", "wait"} /\ rx_fifo > 0
  /\ user' = [user EXCEPT ![p] = "open"]
  /\ \E n \in 1 .. rx_fifo : kfifo_out(n)
  /\ UNCHANGED <<open_count, session, last_telem, workVars, flags,
                 browVars, pmVars>>

(* A signal interrupts the wait.                                             *)
ReadInterrupted(p) ==
  /\ User(p, "wait", "open")
  /\ UNCHANGED <<open_count, session, last_telem, rx_fifo, workVars,
                 flags, browVars, pmVars>>

(* apex_bridge_write and the command ioctls: one transfer.  A failure sets    *)
(* the error flag; only write pushes a valid response into the FIFO.         *)
Transfer(p) ==
  /\ User(p, "open", "open")
  /\ \/ flags' = flags \cup {"SPI_ERROR"} /\ UNCHANGED rx_fifo
     \/ /\ rx_fifo' \in {kfifo_in(n) : n \in 0 .. FIFO_SIZE}
        /\ UNCHANGED flags
  /\ UNCHANGED <<open_count, session, last_telem, workVars, browVars,
                 pmVars>>

(* APEX_IOC_MCU_RESET.                                                       *)
McuReset(p, assert) ==
  /\ User(p, "open", "open")
  /\ flags' = IF assert THEN flags \cup {"MCU_RESET"}
              ELSE (flags \ {"MCU_RESET"}) \cup {"MCU_READY"}
  /\ UNCHANGED <<open_count, session, last_telem, rx_fifo, workVars,
                 browVars, pmVars>>

-----------------------------------------------------------------------------
(* Power management.                                                         *)
EnterSleep ==
  /\ ~asleep /\ asleep' = TRUE
  /\ UNCHANGED <<userVars, last_telem, rx_fifo, workVars, flags, browVars, usage,
                 power, latched>>

(* The runtime PM core may suspend a device nobody holds and that             *)
(* runtime_idle lets go; system sleep suspends it in any case.               *)
MaySuspend == asleep \/ (usage = 0 /\ open_count = 0)

(* apex_bridge_runtime_suspend: low SPI speed, interrupt disabled.           *)
apex_bridge_runtime_suspend ==
  /\ power = "on" /\ MaySuspend
  /\ power' = "off"
  /\ UNCHANGED <<userVars, last_telem, rx_fifo, workVars, flags, browVars, usage,
                 asleep, latched>>

(* Bug shape: the interrupt is left as it was, the latched edge is lost.     *)
MutResumeDropsEdge ==
  /\ power = "off" /\ power' = "on" /\ asleep' = FALSE
  /\ latched' = FALSE
  /\ UNCHANGED <<userVars, last_telem, rx_fifo, workVars, flags, browVars, usage>>

(* apex_bridge_runtime_resume, by system resume or by a new reference:        *)
(* enable_irq replays a latched edge.                                        *)
apex_bridge_runtime_resume ==
  /\ power = "off" /\ power' = "on" /\ asleep' = FALSE
  /\ work_pending' = (work_pending \/ latched) /\ latched' = FALSE
  /\ UNCHANGED <<userVars, last_telem, rx_fifo, work, frame, flags, browVars,
                 usage>>

-----------------------------------------------------------------------------
(* apex_bridge_probe: the MCU is released from reset, and probe keeps the    *)
(* reference it took with pm_runtime_get_sync.                               *)
Init ==
  /\ open_count = 0 /\ user = [p \in Procs |-> "closed"] /\ session = 0
  /\ last_telem = NOBODY /\ rx_fifo = 0
  /\ work = "idle" /\ work_pending = FALSE /\ frame = NoFrame
  /\ flags = {"MCU_READY"}
  /\ brownout_prev_flag = FALSE /\ brownout_count = 0
  /\ usage = 1 /\ power = "on" /\ asleep = FALSE /\ latched = FALSE

Work ==
  \/ WorkBegin \/ WorkGivesUp
  \/ \E f \in Telemetry \cup Other : WorkFrame(f)
  \/ WorkTelemetry \/ WorkPayload

Open(p) == OpenClaim(p) \/ OpenGet(p) \/ OpenUndoCount(p) \/ OpenUndoPut(p)

Release(p) == ReleasePut(p) \/ ReleaseCount(p) \/ ReleaseWipe(p)

Next ==
  \/ apex_irq_handler
  \/ Work
  \/ \E p \in Procs :
       \/ Open(p) \/ Release(p)
       \/ ReadBlocks(p) \/ ReadReturns(p) \/ ReadInterrupted(p)
       \/ Transfer(p)
       \/ \E assert \in BOOLEAN : McuReset(p, assert)
  \/ EnterSleep \/ apex_bridge_runtime_suspend \/ apex_bridge_runtime_resume

Spec == Init /\ [][Next]_vars

(* The workqueue runs, sleep ends, a release that began finishes, and a       *)
(* reader whose data is there gets the processor between two sleeps.         *)
Fairness ==
  /\ WF_vars(Work)
  /\ WF_vars(apex_bridge_runtime_suspend) /\ WF_vars(apex_bridge_runtime_resume)
  /\ \A p \in Procs :
       /\ SF_vars(ReleaseCount(p)) /\ SF_vars(ReleaseWipe(p))
       /\ SF_vars(ReadReturns(p))

FairSpec == Spec /\ Fairness

-----------------------------------------------------------------------------
(* One process at most is between its claim of the device and the store that  *)
(* gives it up, on the error path of open too, and open_count says whether    *)
(* there is one.                                                             *)
Holders == {p \in Procs : user[p] \in {"opening", "open", "wait", "rel_count", "undo"}}
OneHolder == Cardinality(Holders) = open_count

(* Every path, error paths included, gives back the power reference it took:  *)
(* probe's, one per handle not yet released or open not yet undone, one per  *)
(* running work item.                                                        *)
References ==
  1 + Cardinality({p \in Procs : user[p] \in {"open", "wait", "undo", "undo_put"}})
    + (IF work = "idle" THEN 0 ELSE 1)
PmBalanced == usage = References

(* No INT_REQ edge is lost to power management: whether it came before or     *)
(* while the interrupt was disabled, a transfer follows.                     *)
EdgeServed == (latched \/ work_pending) ~> work = "xfer"

(* A blocked reader returns once data is there, unless another read takes it. *)
ReaderWakes == \A p \in Procs :
  (user[p] = "wait" /\ rx_fifo > 0) ~> (user[p] # "wait" \/ rx_fifo = 0)

(* The telemetry cache once no release is under way: what                    *)
(* APEX_IOC_GET_TELEMETRY returns arrived in the current session, and nothing *)
(* of a session is left in the cache of a closed device.                     *)
CacheWipedByRelease ==
  (\A p \in Procs : user[p] # "rel_wipe") =>
    last_telem \in (IF InSession THEN {NOBODY, session} ELSE {NOBODY})

(* "prevent information leakage between user sessions" (apex_bridge.c:588):    *)
(* a session never finds the cached telemetry of an earlier one.  Violated:   *)
(* release opens the device before it wipes.                                 *)
CacheOfOwnSession ==
  (\E p \in Procs : user[p] \in {"open", "wait"}) => last_telem \in {NOBODY, session}
=============================================================================
