------------------------------- MODULE ApexSg --------------------------------
(***************************************************************************)
(* The scatter-gather engine of the Linux driver (apex_bridge.c): the      *)
(* ioctls APEX_IOC_SG_START and APEX_IOC_SG_STOP, the work item that        *)
(* submits one SPI transfer after the other, and the completion callback   *)
(* the SPI controller runs for each of them.                               *)
(*                                                                         *)
(* The work item takes no lock: it shares state, current_idx, sequence and *)
(* the buffer descriptors with the ioctls and the callback, one access per *)
(* action.  Transfers complete in the order of their submission.           *)
(* Sizes, time stamps and byte counts are left out, and so is the skip of  *)
(* buffers in state USERSPACE: no code puts a buffer in that state.        *)
(***************************************************************************)
EXTENDS Naturals, Sequences

CONSTANTS
  BUF_COUNT,   \* config.buf_count (2 .. 64)
  MAX_ERRORS,  \* failed submissions tolerated before ERROR (100)
  MaxStarts,   \* bound: allocations of the buffer pool
  MaxTimeouts  \* bound: no timeout once this many errors are counted

ASSUME SgAssumption ==
  /\ BUF_COUNT \in Nat \ {0, 1}
  /\ MAX_ERRORS \in Nat
  /\ MaxStarts \in Nat /\ MaxTimeouts \in Nat

VARIABLES
  state,       \* eng->state
  pool,        \* number of the live buffer pool, NULL when eng->bufs is NULL
  desc,        \* descriptor state of each buffer of the pool
  current_idx, sequence, errors,
  continuous, timed,   \* config of the last start
  done,        \* sg_buf_complete.done
  wpc, widx,   \* the work item: where it is, its idx
  ending,      \* a work item has left its loop and has not returned yet
  cpc,         \* the ioctl thread: "rest" or inside apex_sg_engine_stop
  inflight,    \* submitted transfers, oldest first: pool and buffer
  streaming,   \* the MCU streams IQ data
  starts,      \* pools allocated so far
  oops,        \* the kernel followed a NULL pointer: nothing runs any more
  late,        \* history: a wait has timed out, its callback comes too late
  stopped      \* history: the last ioctl was a stop and has returned "early",
               \* because the engine was idle, or done everything: "full"

vars == <<state, pool, desc, current_idx, sequence, errors, continuous, timed,
          done, wpc, widx, ending, cpc, inflight, streaming, starts, oops, late,
          stopped>>
config == <<continuous, timed>>
ioctlVars == <<cpc, streaming, starts, oops, late, stopped>>

Bufs == 0 .. BUF_COUNT - 1
NULL == 0
EngineState == {"IDLE", "RUNNING", "ERROR"}
BufState == {"FREE", "DMA_ACTIVE", "READY"}
Fresh == [i \in Bufs |-> "FREE"]

-----------------------------------------------------------------------------
(* The ioctl thread is at pc.  Both ioctls hold sg_lock from end to end, so   *)
(* one thread stands for all callers.                                        *)
Ioctl(pc) == ~oops /\ cpc = pc

(* The stream command goes out with apex_spi_xfer, whose result is ignored: *)
(* it arrives or it does not.                                               *)
SendStream(on) == streaming' \in {streaming, on}

(* apex_sg_engine_start.                                                     *)
apex_sg_engine_start(c, t) ==
  /\ Ioctl("rest") /\ state = "IDLE" /\ starts < MaxStarts
  /\ starts' = starts + 1 /\ pool' = starts + 1 /\ desc' = Fresh
  /\ current_idx' = 0 /\ sequence' = 0 /\ errors' = 0
  /\ continuous' = c /\ timed' = t /\ done' = 0
  /\ state' = "RUNNING"
  /\ SendStream(TRUE)
  /\ wpc' = "queued" /\ stopped' = "no"
  /\ UNCHANGED <<widx, ending, cpc, inflight, oops, late>>

(* One of its allocations fails: everything allocated so far is freed.       *)
StartNoMemory ==
  /\ Ioctl("rest") /\ state = "IDLE"
  /\ pool' = NULL /\ stopped' = "no"
  /\ UNCHANGED <<state, desc, current_idx, sequence, errors, config, done, wpc,
                 widx, ending, cpc, inflight, streaming, starts, oops, late>>

(* apex_sg_engine_stop: an idle engine is "already stopped", otherwise the   *)
(* state is set, ...                                                         *)
StopBegin ==
  /\ Ioctl("rest")
  /\ state' = "IDLE"
  /\ IF state = "IDLE" THEN cpc' = "rest" /\ stopped' = "early"
                       ELSE cpc' = "cancel" /\ stopped' = "no"
  /\ UNCHANGED <<pool, desc, current_idx, sequence, errors, config, done, wpc,
                 widx, ending, inflight, streaming, starts, oops, late>>

(* Bug shape: cancel_work in place of cancel_work_sync.                      *)
MutStopCancel ==
  /\ Ioctl("cancel")
  /\ wpc' = (IF wpc = "queued" THEN "none" ELSE wpc) /\ cpc' = "free"
  /\ UNCHANGED <<state, pool, desc, current_idx, sequence, errors, config, done,
                 widx, ending, inflight, streaming, starts, oops, late, stopped>>

(* ... cancel_work_sync takes a queued work item off the queue and waits     *)
(* for a running one, ...                                                    *)
StopCancel ==
  /\ Ioctl("cancel") /\ wpc \in {"none", "queued"} /\ ~ending
  /\ wpc' = "none" /\ cpc' = "free"
  /\ UNCHANGED <<state, pool, desc, current_idx, sequence, errors, config, done,
                 widx, ending, inflight, streaming, starts, oops, late, stopped>>

(* ... the MCU is told to stop, and the buffers are wiped and freed.         *)
StopFree ==
  /\ Ioctl("free")
  /\ SendStream(FALSE)
  /\ pool' = NULL /\ cpc' = "rest" /\ stopped' = "full"
  /\ UNCHANGED <<state, desc, current_idx, sequence, errors, config, done, wpc,
                 widx, ending, inflight, starts, oops, late>>

-----------------------------------------------------------------------------
(* apex_sg_work_handler.  "none": the loop is left for good, and nothing     *)
(* remains but the log line before the return.                               *)
Worker(from, to) ==
  ~oops /\ wpc = from /\ wpc' = to /\ ending' = (to = "none")

(* The work queue does not run an item again before it has returned.         *)
WorkBegin ==
  /\ Worker("queued", "top") /\ ~ending
  /\ UNCHANGED <<state, pool, desc, current_idx, sequence, errors, config, done,
                 widx, ioctlVars, inflight>>

(* Bug shape: the loop does not look at the state.                           *)
MutWorkTop ==
  /\ Worker("top", "submit")
  /\ widx' = current_idx
  /\ desc' = [desc EXCEPT ![current_idx] = "DMA_ACTIVE"]
  /\ UNCHANGED <<state, pool, current_idx, sequence, errors, config, done,
                 ioctlVars, inflight>>

(* Bug shape: the buffer is not marked, it stays READY from the lap before.  *)
MutWorkTopKeepsState ==
  /\ Worker("top", IF state = "RUNNING" THEN "submit" ELSE "none")
  /\ widx' = IF state = "RUNNING" THEN current_idx ELSE widx
  /\ UNCHANGED <<state, pool, desc, current_idx, sequence, errors, config, done,
                 ioctlVars, inflight>>

(* while (state == RUNNING): take the current buffer and mark it.            *)
WorkTop ==
  /\ Worker("top", IF state = "RUNNING" THEN "submit" ELSE "none")
  /\ IF state = "RUNNING"
     THEN /\ widx' = current_idx
          /\ desc' = [desc EXCEPT ![current_idx] = "DMA_ACTIVE"]
     ELSE UNCHANGED <<widx, desc>>
  /\ UNCHANGED <<state, pool, current_idx, sequence, errors, config, done,
                 ioctlVars, inflight>>

(* spi_async accepts the transfer.                                           *)
WorkSubmit ==
  /\ Worker("submit", "wait")
  /\ inflight' = Append(inflight, [pool |-> pool, buf |-> widx])
  /\ UNCHANGED <<state, pool, desc, current_idx, sequence, errors, config, done,
                 widx, ioctlVars>>

(* spi_async refuses it: retry, until too many errors end the engine.        *)
WorkSubmitFails ==
  /\ Worker("submit", IF errors + 1 > MAX_ERRORS THEN "none" ELSE "top")
  /\ errors' = errors + 1
  /\ desc' = [desc EXCEPT ![widx] = "FREE"]
  /\ state' = IF errors + 1 > MAX_ERRORS THEN "ERROR" ELSE state
  /\ UNCHANGED <<pool, current_idx, sequence, config, done, widx, ioctlVars,
                 inflight>>

(* wait_for_completion, with or without a timeout.                           *)
WorkCompleted ==
  /\ Worker("wait", "after") /\ done > 0
  /\ done' = done - 1
  /\ UNCHANGED <<state, pool, desc, current_idx, sequence, errors, config, widx,
                 ioctlVars, inflight>>

WorkTimeout ==
  /\ Worker("wait", "after") /\ timed /\ done = 0 /\ errors < MaxTimeouts
  /\ errors' = errors + 1 /\ late' = TRUE
  /\ desc' = [desc EXCEPT ![widx] = "FREE"]
  /\ UNCHANGED <<state, pool, current_idx, sequence, config, done, widx, inflight,
                 cpc, streaming, starts, oops, stopped>>

(* reinit_completion, and the end of a single batch: IDLE is stored while    *)
(* the handler still runs.                                                   *)
WorkAfter ==
  LET batch_over == ~continuous /\ sequence >= BUF_COUNT
  IN  /\ Worker("after", IF batch_over THEN "none" ELSE "top")
      /\ done' = 0
      /\ state' = IF batch_over THEN "IDLE" ELSE state
      /\ UNCHANGED <<pool, desc, current_idx, sequence, errors, config, widx,
                     ioctlVars, inflight>>

(* The handler returns; a start or stop may have run since it left the loop. *)
WorkReturns ==
  /\ ~oops /\ ending /\ ending' = FALSE
  /\ UNCHANGED <<state, pool, desc, current_idx, sequence, errors, config, done,
                 wpc, widx, ioctlVars, inflight>>

(* sequence is only ever compared with buf_count: it saturates there.       *)
NextSequence == IF sequence < BUF_COUNT THEN sequence + 1 ELSE sequence

(* The oldest transfer completes: apex_sg_dma_callback publishes the buffer  *)
(* current_idx names, whichever the transfer wrote.                          *)
apex_sg_dma_callback ==
  /\ ~oops /\ inflight # << >> /\ pool # NULL
  /\ inflight' = Tail(inflight)
  /\ desc' = [desc EXCEPT ![current_idx] = "READY"]
  /\ sequence' = NextSequence
  /\ current_idx' = (current_idx + 1) % BUF_COUNT
  /\ done' = done + 1
  /\ UNCHANGED <<state, pool, errors, config, wpc, widx, ending, ioctlVars>>

(* The same callback after the buffers are gone: bufs[idx] of a NULL bufs.   *)
CallbackAfterFree ==
  /\ ~oops /\ inflight # << >> /\ pool = NULL
  /\ oops' = TRUE
  /\ UNCHANGED <<state, pool, desc, current_idx, sequence, errors, config, done,
                 wpc, widx, ending, inflight, cpc, streaming, starts, late,
                 stopped>>

-----------------------------------------------------------------------------
(* apex_sg_engine_init.                                                      *)
Init ==
  /\ state = "IDLE" /\ pool = NULL /\ desc = Fresh
  /\ current_idx = 0 /\ sequence = 0 /\ errors = 0
  /\ continuous = FALSE /\ timed = FALSE /\ done = 0
  /\ wpc = "none" /\ widx = 0 /\ ending = FALSE /\ cpc = "rest"
  /\ inflight = << >> /\ streaming = FALSE /\ starts = 0
  /\ oops = FALSE /\ late = FALSE /\ stopped = "no"

Stop == StopBegin \/ StopCancel \/ StopFree
Work == WorkBegin \/ WorkTop \/ WorkSubmit \/ WorkSubmitFails
          \/ WorkCompleted \/ WorkTimeout \/ WorkAfter \/ WorkReturns

Next ==
  \/ \E c \in BOOLEAN, t \in BOOLEAN : apex_sg_engine_start(c, t)
  \/ StartNoMemory
  \/ Stop
  \/ Work
  \/ apex_sg_dma_callback
  \/ CallbackAfterFree

Spec == Init /\ [][Next]_vars

(* The workqueue runs its items, the SPI controller completes what it has    *)
(* accepted, and the stop ioctl runs on once it may.                         *)
Fairness ==
  /\ WF_vars(Work) /\ WF_vars(apex_sg_dma_callback)
  /\ WF_vars(StopCancel) /\ WF_vars(StopFree)

FairSpec == Spec /\ Fairness

-----------------------------------------------------------------------------
(* Types of all variables.                                                   *)
TypeOK ==
  /\ state \in EngineState /\ pool \in Nat /\ desc \in [Bufs -> BufState]
  /\ current_idx \in Bufs /\ sequence \in Nat /\ errors \in Nat
  /\ continuous \in BOOLEAN /\ timed \in BOOLEAN /\ done \in Nat
  /\ wpc \in {"none", "queued", "top", "submit", "wait", "after"}
  /\ widx \in Bufs /\ cpc \in {"rest", "cancel", "free"}
  /\ inflight \in Seq([pool : Nat, buf : Bufs])
  /\ streaming \in BOOLEAN /\ starts \in Nat /\ oops \in BOOLEAN
  /\ late \in BOOLEAN /\ ending \in BOOLEAN
  /\ stopped \in {"no", "early", "full"}

(* The SPI controller never writes into a buffer that was freed: until a     *)
(* wait times out, every transfer in flight belongs to the live pool.        *)
NoDmaAfterFree ==
  ~late => \A k \in 1 .. Len(inflight) : pool # NULL /\ inflight[k].pool = pool

(* READY is "Filled, waiting for userspace read": no transfer that is still   *)
(* in flight writes a buffer that is READY ...                               *)
ReadyMeansFilled ==
  \A k \in 1 .. Len(inflight) :
    inflight[k].pool = pool => desc[inflight[k].buf] # "READY"

(* ... and none does until a wait times out: apex_sg_dma_callback publishes   *)
(* the buffer whose transfer has completed.                                  *)
ReadyIsFilled == ~late => ReadyMeansFilled

(* The work item never runs without buffers, whichever ioctls run meanwhile   *)
(* and however late callbacks come.                                          *)
WorkerHasBuffers == wpc # "none" => pool # NULL

(* A stop that went through cancel_work_sync leaves no work item, not even    *)
(* one on its way out, and no buffers; one that returned early because a      *)
(* batch had ended by itself may leave the item at its last log line, never   *)
(* inside its loop.  Neither leaves a transfer, unless a wait has timed out.  *)
StopIsQuiet ==
  /\ stopped = "full" => wpc = "none" /\ ~ending /\ pool = NULL
  /\ stopped = "early" => wpc = "none"
  /\ stopped # "no" => late \/ inflight = << >>

(* apex_sg_engine_stop: "Stop SG DMA streaming and free buffers".             *)
StopFreesBuffers == stopped # "no" => pool = NULL

(* A stop ioctl returns (or the kernel has died): cancel_work_sync, called    *)
(* with sg_lock held, does not wait for a work item that waits for it.       *)
StopReturns == cpc = "cancel" ~> (cpc = "rest" \/ oops)
=============================================================================
