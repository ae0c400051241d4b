---------------------------- MODULE ApexSgProofs -----------------------------
(***************************************************************************)
(* Proofs about the scatter-gather engine (ApexSg), for every number of     *)
(* buffers, every error limit and every number of starts.                  *)
(*                                                                         *)
(* Two invariants: WorkInv, why the work item has buffers whatever the     *)
(* configuration; and FlightInv, which adds, until a wait times out, that  *)
(* at most one transfer is in flight and whose it is.                      *)
(***************************************************************************)
EXTENDS ApexSg, SequenceTheorems, TLAPS

(* The indices wrap, and the first buffer is one.                           *)
LEMMA BufIndex ==
  /\ 0 \in Bufs
  /\ \A i \in Bufs : (i + 1) % BUF_COUNT \in Bufs
  BY SgAssumption DEF Bufs

(* A pool of fresh descriptors.                                             *)
LEMMA FreshTyped == Fresh \in [Bufs -> BufState]
  BY DEF Fresh, BufState

(* A transfer appended to, and the oldest one taken from, the flight list.  *)
LEMMA FlightTyped ==
  ASSUME TypeOK
  PROVE  /\ Append(inflight, [pool |-> pool, buf |-> widx])
              \in Seq([pool : Nat, buf : Bufs])
         /\ inflight # << >> => Tail(inflight) \in Seq([pool : Nat, buf : Bufs])
  BY HeadTailProperties DEF TypeOK

(* apex_sg_engine_init leaves well-typed state.                             *)
LEMMA InitTyped == Init => TypeOK
  BY BufIndex, FreshTyped DEF Init, TypeOK, NULL, EngineState

(* Every variable keeps its type: the callback's index wraps at buf_count.  *)
LEMMA StepTyped ==
  ASSUME TypeOK, [Next]_vars
  PROVE  TypeOK'
<1> USE DEF TypeOK, config, ioctlVars, EngineState, Worker, Ioctl
<1>1. ASSUME NEW c \in BOOLEAN, NEW t \in BOOLEAN, apex_sg_engine_start(c, t)
      PROVE  TypeOK'
  <2>1. streaming' \in BOOLEAN
    BY <1>1 DEF apex_sg_engine_start, SendStream
  <2>2. starts + 1 \in Nat
    OBVIOUS
  <2> QED BY <1>1, <2>1, <2>2, BufIndex, FreshTyped DEF apex_sg_engine_start
<1>2. CASE StartNoMemory
  BY <1>2 DEF StartNoMemory, NULL
<1>3. CASE StopBegin
  BY <1>3 DEF StopBegin
<1>4. CASE StopCancel
  BY <1>4 DEF StopCancel
<1>5. CASE StopFree
  BY <1>5 DEF StopFree, SendStream, NULL
<1>6. CASE WorkBegin
  BY <1>6 DEF WorkBegin
<1>7. CASE WorkTop
  BY <1>7 DEF WorkTop, BufState
<1>8. CASE WorkSubmit
  BY <1>8, FlightTyped DEF WorkSubmit
<1>9. CASE WorkSubmitFails
  BY <1>9 DEF WorkSubmitFails, BufState
<1>10. CASE WorkCompleted
  BY <1>10 DEF WorkCompleted
<1>11. CASE WorkTimeout
  BY <1>11 DEF WorkTimeout, BufState
<1>12. CASE WorkAfter
  BY <1>12 DEF WorkAfter
<1>13. CASE apex_sg_dma_callback
  BY <1>13, BufIndex, FlightTyped DEF apex_sg_dma_callback, NextSequence, BufState
<1>14. CASE CallbackAfterFree
  BY <1>14 DEF CallbackAfterFree
<1>15. CASE WorkReturns
  BY <1>15 DEF WorkReturns
<1>16. CASE UNCHANGED vars
  BY <1>16 DEF vars
<1> QED
  BY <1>1, <1>2, <1>3, <1>4, <1>5, <1>6, <1>7, <1>8, <1>9, <1>10, <1>11, <1>12,
     <1>13, <1>14, <1>15, <1>16 DEF Next, Stop, Work

(* Type correctness; in particular current_idx always names a buffer.        *)
THEOREM Typing == Spec => []TypeOK
  BY InitTyped, StepTyped, PTL DEF Spec
-----------------------------------------------------------------------------
(* An engine that nobody is stopping has a work item in its loop only while *)
(* it is not IDLE; an item on its way out has left the loop, so a second    *)
(* one waits in the queue; and cancel_work_sync leaves neither.             *)
WorkInv ==
  /\ WorkerHasBuffers
  /\ ending => wpc \in {"none", "queued"}
  /\ state = "IDLE" /\ cpc = "rest" => wpc = "none"
  /\ cpc = "free" => wpc = "none" /\ ~ending
  /\ stopped = "full" => wpc = "none" /\ ~ending /\ pool = NULL
  /\ stopped = "early" => wpc = "none"
  /\ cpc # "rest" => stopped = "no"

(* Every action preserves it; only the two ioctls and the end of the work    *)
(* item touch what it speaks of.                                            *)
LEMMA WorkStep ==
  ASSUME TypeOK, WorkInv, [Next]_vars
  PROVE  WorkInv'
<1> USE DEF TypeOK, WorkInv, WorkerHasBuffers, config, ioctlVars, Worker, Ioctl
<1>1. ASSUME NEW c \in BOOLEAN, NEW t \in BOOLEAN, apex_sg_engine_start(c, t)
      PROVE  WorkInv'
  <2>1. starts + 1 # NULL
    BY DEF NULL
  <2> QED BY <1>1, <2>1 DEF apex_sg_engine_start
<1>2. CASE StartNoMemory
  BY <1>2 DEF StartNoMemory
<1>3. CASE StopBegin
  BY <1>3 DEF StopBegin
<1>4. CASE StopCancel
  BY <1>4 DEF StopCancel
<1>5. CASE StopFree
  BY <1>5 DEF StopFree
<1>6. CASE WorkBegin
  BY <1>6 DEF WorkBegin
<1>7. CASE WorkTop
  BY <1>7 DEF WorkTop
<1>8. CASE WorkSubmit
  BY <1>8 DEF WorkSubmit
<1>9. CASE WorkSubmitFails
  BY <1>9 DEF WorkSubmitFails
<1>10. CASE WorkCompleted
  BY <1>10 DEF WorkCompleted
<1>11. CASE WorkTimeout
  BY <1>11 DEF WorkTimeout
<1>12. CASE WorkAfter
  BY <1>12 DEF WorkAfter
<1>13. CASE apex_sg_dma_callback
  BY <1>13 DEF apex_sg_dma_callback
<1>14. CASE CallbackAfterFree
  BY <1>14 DEF CallbackAfterFree
<1>15. CASE WorkReturns
  BY <1>15 DEF WorkReturns
<1>16. CASE UNCHANGED vars
  BY <1>16 DEF vars
<1> QED
  BY <1>1, <1>2, <1>3, <1>4, <1>5, <1>6, <1>7, <1>8, <1>9, <1>10, <1>11, <1>12,
     <1>13, <1>14, <1>15, <1>16 DEF Next, Stop, Work

(* apex_sg_work_handler never runs without buffers, with or without transfer  *)
(* timeouts and whichever start and stop ioctls run meanwhile.               *)
THEOREM WorkerSafe == Spec => []WorkerHasBuffers
<1>1. Init => WorkInv
  BY DEF Init, WorkInv, WorkerHasBuffers
<1>2. TypeOK /\ WorkInv /\ [Next]_vars => WorkInv'
  BY WorkStep
<1>3. WorkInv => WorkerHasBuffers
  BY DEF WorkInv
<1> QED BY <1>1, <1>2, <1>3, Typing, PTL DEF Spec

-----------------------------------------------------------------------------
(* Until a wait times out the work item waits for the transfer it submitted: *)
(* a transfer is in flight only while it waits, it is that buffer's of that  *)
(* pool, and the callback finds current_idx still naming it.                 *)
FlightInv == ~late =>
  /\ wpc \in {"submit", "wait"} /\ done = 0 =>
       widx = current_idx /\ desc[widx] = "DMA_ACTIVE"
  /\ IF wpc = "wait" /\ done = 0
     THEN inflight = << [pool |-> pool, buf |-> widx] >>
     ELSE inflight = << >>
  /\ done <= 1 /\ (done > 0 => wpc = "wait")

(* A one-element flight list: appended to an empty one, emptied by a Tail.    *)
LEMMA OneInFlight ==
  ASSUME NEW x
  PROVE  /\ Append(<< >>, x) = << x >>
         /\ Tail(<< x >>) = << >> /\ Len(<< x >>) = 1 /\ << x >>[1] = x
  OBVIOUS

(* Every action preserves it; a timeout ends what it promises.               *)
LEMMA FlightStep ==
  ASSUME TypeOK, WorkInv, FlightInv, [Next]_vars
  PROVE  FlightInv'
<1> SUFFICES ASSUME ~late' PROVE FlightInv'
  BY DEF FlightInv
<1>0. ~late
  <2>1. ASSUME NEW c \in BOOLEAN, NEW t \in BOOLEAN, apex_sg_engine_start(c, t)
        PROVE  ~late
    BY <2>1 DEF apex_sg_engine_start
  <2>2. CASE StartNoMemory \/ StopBegin \/ StopCancel \/ StopFree
    BY <2>2 DEF StartNoMemory, StopBegin, StopCancel, StopFree
  <2>3. CASE Work
    BY <2>3 DEF Work, WorkBegin, WorkTop, WorkSubmit, WorkSubmitFails,
                WorkCompleted, WorkTimeout, WorkAfter, WorkReturns, ioctlVars
  <2>4. CASE apex_sg_dma_callback \/ CallbackAfterFree
    BY <2>4 DEF apex_sg_dma_callback, CallbackAfterFree, ioctlVars
  <2>5. CASE UNCHANGED vars
    BY <2>5 DEF vars
  <2> QED BY <2>1, <2>2, <2>3, <2>4, <2>5 DEF Next, Stop
<1> USE <1>0
<1> USE DEF TypeOK, FlightInv, config, ioctlVars, Worker, Ioctl
<1>1. ASSUME NEW c \in BOOLEAN, NEW t \in BOOLEAN, apex_sg_engine_start(c, t)
      PROVE  FlightInv'
  <2>1. wpc = "none"
    BY <1>1 DEF apex_sg_engine_start, WorkInv
  <2> QED BY <1>1, <2>1 DEF apex_sg_engine_start
<1>2. CASE StartNoMemory
  <2>1. wpc = "none"
    BY <1>2 DEF StartNoMemory, WorkInv
  <2> QED BY <1>2, <2>1 DEF StartNoMemory
<1>3. CASE StopBegin
  BY <1>3 DEF StopBegin
<1>4. CASE StopCancel
  BY <1>4 DEF StopCancel
<1>5. CASE StopFree
  <2>1. wpc = "none"
    BY <1>5 DEF StopFree, WorkInv
  <2> QED BY <1>5, <2>1 DEF StopFree
<1>6. CASE WorkBegin
  BY <1>6 DEF WorkBegin
<1>7. CASE WorkTop
  BY <1>7 DEF WorkTop
<1>8. CASE WorkSubmit
  <2>1. inflight' = << [pool |-> pool, buf |-> widx] >>
    BY <1>8, OneInFlight DEF WorkSubmit
  <2> QED BY <1>8, <2>1 DEF WorkSubmit
<1>9. CASE WorkSubmitFails
  BY <1>9 DEF WorkSubmitFails
<1>10. CASE WorkCompleted
  BY <1>10 DEF WorkCompleted
<1>11. CASE WorkTimeout
  BY <1>11 DEF WorkTimeout
<1>12. CASE WorkAfter
  BY <1>12 DEF WorkAfter
<1>13. CASE apex_sg_dma_callback
  <2>1. wpc = "wait" /\ done = 0 /\ inflight = << [pool |-> pool, buf |-> widx] >>
    BY <1>13 DEF apex_sg_dma_callback
  <2>2. inflight' = << >>
    BY <1>13, <2>1, OneInFlight DEF apex_sg_dma_callback
  <2> QED BY <1>13, <2>1, <2>2 DEF apex_sg_dma_callback
<1>14. CASE CallbackAfterFree
  BY <1>14 DEF CallbackAfterFree
<1>15. CASE WorkReturns
  BY <1>15 DEF WorkReturns
<1>16. CASE UNCHANGED vars
  BY <1>16 DEF vars
<1> QED
  BY <1>1, <1>2, <1>3, <1>4, <1>5, <1>6, <1>7, <1>8, <1>9, <1>10, <1>11, <1>12,
     <1>13, <1>14, <1>15, <1>16 DEF Next, Stop, Work

(* Both invariants hold, whatever the configuration.                         *)
THEOREM Inductive == Spec => [](TypeOK /\ WorkInv /\ FlightInv)
<1>1. Init => WorkInv /\ FlightInv
  BY DEF Init, WorkInv, WorkerHasBuffers, FlightInv
<1>2. TypeOK /\ WorkInv /\ FlightInv /\ [Next]_vars => WorkInv' /\ FlightInv'
  BY WorkStep, FlightStep
<1> QED BY <1>1, <1>2, Typing, PTL DEF Spec

(* What a transfer in flight tells, used three times below.                   *)
LEMMA FlightFacts ==
  ASSUME TypeOK, WorkInv, FlightInv, ~late, NEW k \in 1 .. Len(inflight)
  PROVE  /\ wpc = "wait" /\ inflight[k] = [pool |-> pool, buf |-> widx]
         /\ desc[widx] = "DMA_ACTIVE"
<1>1. wpc = "wait" /\ done = 0
  BY DEF FlightInv, TypeOK
<1>2. inflight = << [pool |-> pool, buf |-> widx] >>
  BY <1>1 DEF FlightInv
<1> QED BY <1>1, <1>2, OneInFlight DEF FlightInv

(* Until a wait times out no transfer is in flight into a freed pool, so the *)
(* SPI controller never writes, and apex_sg_dma_callback never follows, a    *)
(* buffer pointer that apex_sg_engine_stop has freed.                        *)
THEOREM DmaSafe == Spec => []NoDmaAfterFree
<1>1. TypeOK /\ WorkInv /\ FlightInv => NoDmaAfterFree
  BY FlightFacts DEF NoDmaAfterFree, WorkInv, WorkerHasBuffers
<1> QED BY <1>1, Inductive, PTL

(* Until a wait times out READY is filled: apex_sg_dma_callback publishes *)
(* the buffer whose transfer has completed.                                  *)
THEOREM ReadySafe == Spec => []ReadyIsFilled
<1>1. TypeOK /\ WorkInv /\ FlightInv => ReadyIsFilled
  BY FlightFacts DEF ReadyIsFilled, ReadyMeansFilled
<1> QED BY <1>1, Inductive, PTL

(* Once APEX_IOC_SG_STOP has returned no work item is in its loop, after a    *)
(* stop that cancelled it none runs at all and no buffer is left, and until   *)
(* a wait times out no transfer is in flight.                                *)
THEOREM StopSafe == Spec => []StopIsQuiet
<1>1. TypeOK /\ WorkInv /\ FlightInv => StopIsQuiet
  BY DEF TypeOK, WorkInv, FlightInv, StopIsQuiet
<1> QED BY <1>1, Inductive, PTL
=============================================================================
