--------------------------- MODULE ApexBridgeProofs ---------------------------
(***************************************************************************)
(* Proofs about the character device (ApexBridge), for any finite set of    *)
(* processes and any queue size: types, exclusive use, the balance of power *)
(* references, and the wiping of the telemetry cache.                      *)
(***************************************************************************)
EXTENDS ApexBridge, FiniteSetTheorems, TLAPS

UserState == {"closed", "opening", "undo", "undo_put", "open", "wait", "rel_count",
              "rel_wipe"}

(* Types of all variables; the queue never holds more than its capacity.     *)
TypeOK ==
  /\ open_count \in {0, 1} /\ user \in [Procs -> UserState] /\ session \in Nat
  /\ last_telem \in Nat /\ rx_fifo \in 0 .. FIFO_SIZE
  /\ work \in {"idle", "xfer", "deliver"} /\ work_pending \in BOOLEAN
  /\ frame \in Telemetry \cup Other
  /\ flags \in SUBSET {"MCU_READY", "MCU_RESET", "SPI_ERROR", "LOW_BATTERY"}
  /\ brownout_prev_flag \in BOOLEAN /\ brownout_count \in Nat
  /\ usage \in Int /\ power \in {"on", "off"} /\ asleep \in BOOLEAN
  /\ latched \in BOOLEAN

(* kfifo_in never fills the queue beyond its capacity.                       *)
LEMMA FifoBounded ==
  ASSUME rx_fifo \in 0 .. FIFO_SIZE, NEW n \in Nat
  PROVE  kfifo_in(n) \in 0 .. FIFO_SIZE
  BY BridgeAssumption DEF kfifo_in

(* Telemetry from the MCU: flag and counter, and its payload in the queue.   *)
LEMMA TelemetryTyped ==
  ASSUME TypeOK, WorkTelemetry
  PROVE  TypeOK'
<1> USE DEF TypeOK
<1>1. rx_fifo' \in 0 .. FIFO_SIZE
  BY FifoBounded, BridgeAssumption DEF WorkTelemetry
<1>2. last_telem' \in Nat
  BY DEF WorkTelemetry, NOBODY
<1>3. /\ flags' \in SUBSET {"MCU_READY", "MCU_RESET", "SPI_ERROR", "LOW_BATTERY"}
      /\ brownout_prev_flag' \in BOOLEAN /\ brownout_count' \in Nat
  <2>1. CASE FlagMaskHits(frame)
    <3>1. brownout_prev_flag' = TRUE /\ flags' = flags \cup {"LOW_BATTERY"}
          /\ brownout_count' = brownout_count + (IF brownout_prev_flag THEN 0 ELSE 1)
      BY <2>1 DEF WorkTelemetry
    <3>2. brownout_count' \in Nat
      BY <3>1
    <3> QED BY <3>1, <3>2
  <2>2. CASE ~FlagMaskHits(frame)
    BY <2>2 DEF WorkTelemetry
  <2> QED BY <2>1, <2>2
<1>4. frame' \in Telemetry \cup Other /\ work' = "idle" /\ usage' \in Int
  BY DEF WorkTelemetry, NoFrame, Other, pm_runtime_put
<1> QED BY <1>1, <1>2, <1>3, <1>4 DEF WorkTelemetry, userVars

(* Every action keeps the types.                                             *)
LEMMA StepTyped ==
  ASSUME TypeOK, [Next]_vars
  PROVE  TypeOK'
<1> USE DEF TypeOK, userVars, workVars, browVars, pmVars, pm_runtime_get_sync,
            pm_runtime_put
<1>1. CASE apex_irq_handler
  <2>1. CASE power = "on"
    BY <1>1, <2>1 DEF apex_irq_handler
  <2>2. CASE power # "on"
    BY <1>1, <2>2 DEF apex_irq_handler
  <2> QED BY <2>1, <2>2
<1>2. CASE WorkBegin
  <2>1. work_pending' \in BOOLEAN
    BY <1>2, Zenon DEF WorkBegin
  <2>2. usage' \in Int
    BY <1>2 DEF WorkBegin
  <2> QED BY <1>2, <2>1, <2>2 DEF WorkBegin
<1>3. CASE WorkGivesUp
  BY <1>3 DEF WorkGivesUp
<1>4. ASSUME NEW f \in Telemetry \cup Other, WorkFrame(f) PROVE TypeOK'
  BY <1>4 DEF WorkFrame
<1>5. CASE WorkTelemetry
  BY <1>5, TelemetryTyped
<1>6. CASE WorkPayload
  <2>1. rx_fifo' \in 0 .. FIFO_SIZE
    BY <1>6, FifoBounded, BridgeAssumption DEF WorkPayload
  <2>2. frame' \in Telemetry \cup Other
    BY <1>6 DEF WorkPayload, NoFrame, Other
  <2> QED BY <1>6, <2>1, <2>2 DEF WorkPayload
<1>7. ASSUME NEW p \in Procs, Open(p) PROVE TypeOK'
  <2>1. CASE OpenClaim(p)
    BY <2>1 DEF OpenClaim, User, UserState
  <2>2. CASE OpenGet(p)
    BY <2>2 DEF OpenGet, User, UserState
  <2>3. CASE OpenUndoCount(p)
    BY <2>3 DEF OpenUndoCount, User, UserState
  <2>4. CASE OpenUndoPut(p)
    BY <2>4 DEF OpenUndoPut, User, UserState
  <2> QED BY <1>7, <2>1, <2>2, <2>3, <2>4 DEF Open
<1>8. ASSUME NEW p \in Procs, Release(p) PROVE TypeOK'
  <2>1. CASE ReleasePut(p)
    BY <2>1 DEF ReleasePut, User, UserState
  <2>2. CASE ReleaseCount(p)
    BY <2>2 DEF ReleaseCount, User, UserState
  <2>3. CASE ReleaseWipe(p)
    BY <2>3 DEF ReleaseWipe, User, UserState, NOBODY
  <2> QED BY <1>8, <2>1, <2>2, <2>3 DEF Release
<1>9. ASSUME NEW p \in Procs, ReadBlocks(p) \/ ReadReturns(p) \/ ReadInterrupted(p)
      PROVE  TypeOK'
  <2>1. CASE ReadBlocks(p)
    BY <2>1 DEF ReadBlocks, User, UserState
  <2>2. CASE ReadReturns(p)
    <3>1. PICK n \in 1 .. rx_fifo : kfifo_out(n)
      BY <2>2 DEF ReadReturns
    <3>2. rx_fifo' \in 0 .. FIFO_SIZE
      BY <3>1, BridgeAssumption DEF kfifo_out
    <3> QED BY <2>2, <3>2 DEF ReadReturns, UserState
  <2>3. CASE ReadInterrupted(p)
    BY <2>3 DEF ReadInterrupted, User, UserState
  <2> QED BY <1>9, <2>1, <2>2, <2>3
<1>10. ASSUME NEW p \in Procs, Transfer(p) PROVE TypeOK'
  <2>1. rx_fifo' \in 0 .. FIFO_SIZE
    BY <1>10, FifoBounded, BridgeAssumption DEF Transfer
  <2> QED BY <1>10, <2>1 DEF Transfer, User, UserState
<1>11. ASSUME NEW p \in Procs, NEW assert \in BOOLEAN, McuReset(p, assert)
       PROVE  TypeOK'
  BY <1>11 DEF McuReset, User, UserState
<1>12. CASE EnterSleep
  BY <1>12 DEF EnterSleep
<1>13. CASE apex_bridge_runtime_suspend
  BY <1>13 DEF apex_bridge_runtime_suspend
<1>14. CASE apex_bridge_runtime_resume
  <2>1. work_pending' \in BOOLEAN
    BY <1>14 DEF apex_bridge_runtime_resume
  <2> QED BY <1>14, <2>1 DEF apex_bridge_runtime_resume
<1>15. CASE UNCHANGED vars
  BY <1>15 DEF vars
<1> QED
  BY <1>1, <1>2, <1>3, <1>4, <1>5, <1>6, <1>7, <1>8, <1>9, <1>10, <1>11, <1>12,
     <1>13, <1>14, <1>15 DEF Next, Work

(* Type correctness; in particular the receive queue never overflows.        *)
THEOREM Typing == Spec => []TypeOK
<1>1. Init => TypeOK
  <2> SUFFICES ASSUME Init PROVE TypeOK
    OBVIOUS
  <2>1. /\ open_count \in {0, 1} /\ session \in Nat /\ last_telem \in Nat
        /\ rx_fifo \in 0 .. FIFO_SIZE /\ brownout_count \in Nat /\ usage \in Int
    BY BridgeAssumption DEF Init, NOBODY
  <2>2. user \in [Procs -> UserState] /\ frame \in Telemetry \cup Other
    BY DEF Init, UserState, NoFrame, Other
  <2>3. /\ work_pending \in BOOLEAN /\ brownout_prev_flag \in BOOLEAN
        /\ asleep \in BOOLEAN /\ latched \in BOOLEAN
    BY DEF Init
  <2> QED BY <2>1, <2>2, <2>3 DEF Init, TypeOK
<1>2. TypeOK /\ [Next]_vars => TypeOK'
  BY StepTyped
<1> QED BY <1>1, <1>2, PTL DEF Spec

-----------------------------------------------------------------------------
(* A process that moves to another state enters or leaves a set of processes *)
(* chosen by their state.                                                    *)
LEMMA MovesIn ==
  ASSUME user \in [Procs -> UserState], NEW A, NEW p \in Procs, NEW to \in A,
         user' = [user EXCEPT ![p] = to]
  PROVE  {q \in Procs : user'[q] \in A} = {q \in Procs : user[q] \in A} \cup {p}
  OBVIOUS

(* The two sets that are counted.                                            *)
Handles == {p \in Procs : user[p] \in {"open", "wait", "undo", "undo_put"}}

(* Both sets are finite, so that their sizes are numbers.                   *)
LEMMA Counted ==
  /\ IsFiniteSet(Holders) /\ Cardinality(Holders) \in Nat
  /\ IsFiniteSet(Handles) /\ Cardinality(Handles) \in Nat
<1>1. Holders \in SUBSET Procs /\ Handles \in SUBSET Procs
  BY DEF Holders, Handles
<1>2. IsFiniteSet(Holders) /\ IsFiniteSet(Handles)
  BY <1>1, BridgeAssumption, FS_Subset
<1> QED BY <1>2, FS_CardinalityType

(* What a step of a process does to the two numbers.                         *)
LEMMA UserSteps ==
  ASSUME TypeOK, NEW p \in Procs
  PROVE  /\ OpenClaim(p) =>
              /\ Cardinality(Holders') = Cardinality(Holders) + 1
              /\ Handles' = Handles
         /\ OpenGet(p) =>
              /\ Holders' = Holders
              /\ Cardinality(Handles') = Cardinality(Handles) + 1
         /\ OpenUndoCount(p) =>
              /\ Cardinality(Holders') = Cardinality(Holders) - 1
              /\ Cardinality(Holders) # 0
              /\ Handles' = Handles
         /\ OpenUndoPut(p) =>
              /\ Holders' = Holders
              /\ Cardinality(Handles') = Cardinality(Handles) - 1
         /\ ReleasePut(p) =>
              /\ Holders' = Holders
              /\ Cardinality(Handles') = Cardinality(Handles) - 1
         /\ ReleaseCount(p) =>
              /\ Cardinality(Holders') = Cardinality(Holders) - 1
              /\ Cardinality(Holders) # 0
              /\ Handles' = Handles
<1> USE DEF TypeOK, User, Holders, Handles
<1>1. ASSUME OpenClaim(p)
      PROVE  Cardinality(Holders') = Cardinality(Holders) + 1 /\ Handles' = Handles
  <2>1. Holders' = Holders \cup {p} /\ p \notin Holders
    BY <1>1, MovesIn DEF OpenClaim
  <2>2. Handles' = Handles
    BY <1>1 DEF OpenClaim
  <2> HIDE DEF Holders, Handles
  <2> QED BY <2>1, <2>2, Counted, FS_AddElement
<1>4. ASSUME OpenGet(p)
      PROVE  Holders' = Holders /\ Cardinality(Handles') = Cardinality(Handles) + 1
  <2>1. PICK to \in {"open", "undo"} :
          user[p] = "opening" /\ user' = [user EXCEPT ![p] = to]
    BY <1>4 DEF OpenGet
  <2>2. Holders' = Holders
    BY <2>1
  <2>3. Handles' = Handles \cup {p} /\ p \notin Handles
    BY <2>1, MovesIn
  <2> HIDE DEF Holders, Handles
  <2> QED BY <2>2, <2>3, Counted, FS_AddElement
<1>5. ASSUME OpenUndoCount(p)
      PROVE  /\ Cardinality(Holders') = Cardinality(Holders) - 1
             /\ Cardinality(Holders) # 0
             /\ Handles' = Handles
  <2>1. Holders' = Holders \ {p} /\ p \in Holders
    BY <1>5 DEF OpenUndoCount
  <2>2. Handles' = Handles
    BY <1>5 DEF OpenUndoCount
  <2> HIDE DEF Holders, Handles
  <2> QED BY <2>1, <2>2, Counted, FS_RemoveElement, FS_EmptySet
<1>6. ASSUME OpenUndoPut(p)
      PROVE  /\ Holders' = Holders
             /\ Cardinality(Handles') = Cardinality(Handles) - 1
  <2>1. Holders' = Holders
    BY <1>6 DEF OpenUndoPut
  <2>2. Handles' = Handles \ {p} /\ p \in Handles
    BY <1>6 DEF OpenUndoPut
  <2> HIDE DEF Holders, Handles
  <2> QED BY <2>1, <2>2, Counted, FS_RemoveElement
<1>2. ASSUME ReleasePut(p)
      PROVE  /\ Holders' = Holders
             /\ Cardinality(Handles') = Cardinality(Handles) - 1
  <2>1. Holders' = Holders
    BY <1>2 DEF ReleasePut
  <2>2. Handles' = Handles \ {p} /\ p \in Handles
    BY <1>2 DEF ReleasePut
  <2> HIDE DEF Holders, Handles
  <2> QED BY <2>1, <2>2, Counted, FS_RemoveElement
<1>3. ASSUME ReleaseCount(p)
      PROVE  /\ Cardinality(Holders') = Cardinality(Holders) - 1
             /\ Cardinality(Holders) # 0
             /\ Handles' = Handles
  <2>1. Holders' = Holders \ {p} /\ p \in Holders
    BY <1>3 DEF ReleaseCount
  <2>2. Handles' = Handles
    BY <1>3 DEF ReleaseCount
  <2> HIDE DEF Holders, Handles
  <2> QED BY <2>1, <2>2, Counted, FS_RemoveElement, FS_EmptySet
<1> QED BY <1>1, <1>2, <1>3, <1>4, <1>5, <1>6

(* The other steps of a process change neither set.                          *)
LEMMA QuietSteps ==
  ASSUME TypeOK, NEW p \in Procs,
         \/ ReleaseWipe(p) \/ ReadBlocks(p) \/ ReadReturns(p)
         \/ ReadInterrupted(p) \/ Transfer(p) \/ \E assert \in BOOLEAN : McuReset(p, assert)
  PROVE  Holders' = Holders /\ Handles' = Handles /\ UNCHANGED <<open_count, usage, work>>
<1> USE DEF TypeOK, User, Holders, Handles, pmVars, workVars
<1>1. CASE ReleaseWipe(p)
  BY <1>1 DEF ReleaseWipe
<1>2. CASE ReadBlocks(p)
  BY <1>2 DEF ReadBlocks
<1>3. CASE ReadReturns(p)
  BY <1>3 DEF ReadReturns
<1>4. CASE ReadInterrupted(p)
  BY <1>4 DEF ReadInterrupted
<1>5. CASE Transfer(p)
  BY <1>5 DEF Transfer
<1>6. ASSUME NEW assert \in BOOLEAN, McuReset(p, assert)
      PROVE  Holders' = Holders /\ Handles' = Handles /\ UNCHANGED <<open_count, usage, work>>
  BY <1>6 DEF McuReset
<1> QED BY <1>1, <1>2, <1>3, <1>4, <1>5, <1>6

(* Interrupt, work item and power management leave the processes alone.      *)
LEMMA SystemSteps ==
  ASSUME \/ apex_irq_handler \/ Work \/ EnterSleep \/ apex_bridge_runtime_suspend
         \/ apex_bridge_runtime_resume \/ UNCHANGED vars
  PROVE  UNCHANGED <<open_count, user, session>>
<1> USE DEF userVars
<1>1. CASE Work
  BY <1>1 DEF Work, WorkBegin, WorkGivesUp, WorkFrame, WorkTelemetry, WorkPayload
<1> QED
  BY <1>1 DEF apex_irq_handler, EnterSleep, apex_bridge_runtime_suspend,
              apex_bridge_runtime_resume, vars

(* At most one process uses the device at any time, and open_count says       *)
(* whether one does, however opens and releases of the processes interleave.  *)
THEOREM ExclusiveUse == Spec => []OneHolder
<1>1. Init => OneHolder
  <2> SUFFICES ASSUME Init PROVE OneHolder
    OBVIOUS
  <2>1. Holders = {}
    BY DEF Init, Holders
  <2> QED BY <2>1, FS_EmptySet DEF Init, OneHolder
<1>2. TypeOK /\ OneHolder /\ [Next]_vars => OneHolder'
  <2> SUFFICES ASSUME TypeOK, OneHolder, [Next]_vars PROVE OneHolder'
    OBVIOUS
  <2>1. ASSUME NEW p \in Procs, Open(p) PROVE OneHolder'
    <3>1. CASE OpenClaim(p)
      BY <3>1, UserSteps DEF OneHolder, OpenClaim
    <3>2. CASE OpenGet(p)
      BY <3>2, UserSteps DEF OneHolder, OpenGet
    <3>3. CASE OpenUndoCount(p)
      <4>1. open_count = 1
        BY <3>3, UserSteps DEF OneHolder, TypeOK
      <4> QED BY <3>3, <4>1, UserSteps DEF OneHolder, OpenUndoCount
    <3>4. CASE OpenUndoPut(p)
      BY <3>4, UserSteps DEF OneHolder, OpenUndoPut
    <3> QED BY <2>1, <3>1, <3>2, <3>3, <3>4 DEF Open
  <2>2. ASSUME NEW p \in Procs, ReleasePut(p) PROVE OneHolder'
    BY <2>2, UserSteps DEF OneHolder, ReleasePut
  <2>3. ASSUME NEW p \in Procs, ReleaseCount(p) PROVE OneHolder'
    <3>1. open_count = 1
      BY <2>3, UserSteps DEF OneHolder, TypeOK
    <3> QED BY <2>3, <3>1, UserSteps DEF OneHolder, ReleaseCount
  <2>4. ASSUME NEW p \in Procs,
               \/ ReleaseWipe(p) \/ ReadBlocks(p) \/ ReadReturns(p)
               \/ ReadInterrupted(p) \/ Transfer(p)
               \/ \E assert \in BOOLEAN : McuReset(p, assert)
        PROVE  OneHolder'
    BY <2>4, QuietSteps DEF OneHolder
  <2>5. CASE \/ apex_irq_handler \/ Work \/ EnterSleep \/ apex_bridge_runtime_suspend
             \/ apex_bridge_runtime_resume \/ UNCHANGED vars
    BY <2>5, SystemSteps DEF OneHolder, Holders
  <2> QED BY <2>1, <2>2, <2>3, <2>4, <2>5 DEF Next, Release
<1> QED BY <1>1, <1>2, Typing, PTL DEF Spec

(* Every path of the driver, the error exits of the work item included, gives *)
(* back exactly the power references it took.                                *)
THEOREM ReferencesBalance == Spec => []PmBalanced
<1>1. Init => PmBalanced
  <2> SUFFICES ASSUME Init PROVE PmBalanced
    OBVIOUS
  <2>1. Handles = {}
    BY DEF Init, Handles
  <2> QED BY <2>1, FS_EmptySet DEF Init, PmBalanced, References, Handles
<1>2. TypeOK /\ PmBalanced /\ [Next]_vars => PmBalanced'
  <2> SUFFICES ASSUME TypeOK, PmBalanced, [Next]_vars PROVE PmBalanced'
    OBVIOUS
  <2> DEFINE Bal == usage = 1 + Cardinality(Handles) + (IF work = "idle" THEN 0 ELSE 1)
  <2>0. Bal /\ (Bal' => PmBalanced')
    BY DEF PmBalanced, References, Handles
  <2> HIDE DEF PmBalanced
  <2> USE Counted DEF pm_runtime_get_sync, pm_runtime_put, workVars, pmVars
  <2>1. ASSUME NEW p \in Procs, Open(p) PROVE Bal'
    <3>1. CASE OpenClaim(p)
      BY <2>0, <3>1, UserSteps DEF OpenClaim
    <3>2. CASE OpenGet(p)
      BY <2>0, <3>2, UserSteps DEF OpenGet
    <3>3. CASE OpenUndoCount(p)
      BY <2>0, <3>3, UserSteps DEF OpenUndoCount
    <3>4. CASE OpenUndoPut(p)
      BY <2>0, <3>4, UserSteps DEF OpenUndoPut
    <3> QED BY <2>1, <3>1, <3>2, <3>3, <3>4 DEF Open
  <2>2. ASSUME NEW p \in Procs, ReleasePut(p) PROVE Bal'
    BY <2>0, <2>2, UserSteps DEF ReleasePut
  <2>3. ASSUME NEW p \in Procs, ReleaseCount(p) PROVE Bal'
    BY <2>0, <2>3, UserSteps DEF ReleaseCount
  <2>4. ASSUME NEW p \in Procs,
               \/ ReleaseWipe(p) \/ ReadBlocks(p) \/ ReadReturns(p)
               \/ ReadInterrupted(p) \/ Transfer(p)
               \/ \E assert \in BOOLEAN : McuReset(p, assert)
        PROVE  Bal'
    BY <2>0, <2>4, QuietSteps
  <2>5. CASE Work
    <3>1. Handles' = Handles
      BY <2>5, SystemSteps DEF Handles
    <3>2. CASE WorkBegin
      BY <2>0, <3>1, <3>2 DEF WorkBegin
    <3>3. CASE WorkGivesUp
      BY <2>0, <3>1, <3>3 DEF WorkGivesUp
    <3>4. ASSUME NEW f \in Telemetry \cup Other, WorkFrame(f) PROVE Bal'
      BY <2>0, <3>1, <3>4 DEF WorkFrame
    <3>5. CASE WorkTelemetry
      BY <2>0, <3>1, <3>5 DEF WorkTelemetry
    <3>6. CASE WorkPayload
      BY <2>0, <3>1, <3>6 DEF WorkPayload
    <3> QED BY <2>0, <2>5, <3>2, <3>3, <3>4, <3>5, <3>6 DEF Work
  <2>6. CASE \/ apex_irq_handler \/ EnterSleep \/ apex_bridge_runtime_suspend
             \/ apex_bridge_runtime_resume \/ UNCHANGED vars
    <3>1. Handles' = Handles
      BY <2>6, SystemSteps DEF Handles
    <3>2. UNCHANGED <<usage, work>>
      BY <2>6 DEF apex_irq_handler, EnterSleep, apex_bridge_runtime_suspend,
                  apex_bridge_runtime_resume, vars
    <3> QED BY <2>0, <3>1, <3>2
  <2> QED BY <2>0, <2>1, <2>2, <2>3, <2>4, <2>5, <2>6 DEF Next, Release
<1> QED BY <1>1, <1>2, Typing, PTL DEF Spec

-----------------------------------------------------------------------------
(* Two processes that both hold the device are one and the same.             *)
LEMMA HolderUnique ==
  ASSUME TypeOK, OneHolder, NEW p \in Holders, NEW q \in Holders
  PROVE  p = q
<1>1. /\ IsFiniteSet(Holders \ {p})
      /\ Cardinality(Holders \ {p}) = Cardinality(Holders) - 1
  BY Counted, FS_RemoveElement
<1>2. Cardinality(Holders \ {p}) \in Nat
  BY <1>1, FS_CardinalityType
<1>3. Cardinality(Holders \ {p}) = 0
  BY <1>1, <1>2 DEF OneHolder, TypeOK
<1>4. Holders \ {p} = {}
  BY <1>1, <1>3, FS_EmptySet
<1> QED BY <1>4

(* A work item that fetched telemetry stores it for the session that runs.   *)
LEMMA TelemetryOfSession ==
  ASSUME WorkTelemetry
  PROVE  CacheWipedByRelease'
<1>1. UNCHANGED <<user, session>>
  BY DEF WorkTelemetry, userVars
<1>2. last_telem' = IF InSession THEN session ELSE NOBODY
  BY DEF WorkTelemetry
<1>3. InSession' <=> InSession
  BY <1>1 DEF InSession
<1> QED BY <1>1, <1>2, <1>3 DEF CacheWipedByRelease

(* Once no release is under way, the telemetry cache is of the session that   *)
(* is open, and that of a closed device is empty, wherever an open of the      *)
(* next process or a late work item falls into the release before.           *)
THEOREM CacheIsWiped == Spec => []CacheWipedByRelease
<1>1. Init => CacheWipedByRelease
  BY DEF Init, CacheWipedByRelease, InSession
<1>2. TypeOK /\ OneHolder /\ CacheWipedByRelease /\ [Next]_vars => CacheWipedByRelease'
  <2> SUFFICES ASSUME TypeOK, OneHolder, CacheWipedByRelease, [Next]_vars
               PROVE  CacheWipedByRelease'
    OBVIOUS
  <2> DEFINE Wiping == \E p \in Procs : user[p] = "rel_wipe"
  <2>0. /\ ~Wiping => last_telem \in (IF InSession THEN {NOBODY, session} ELSE {NOBODY})
        /\ CacheWipedByRelease' =
             (~Wiping' => last_telem' \in
                (IF InSession' THEN {NOBODY, session'} ELSE {NOBODY}))
    BY DEF CacheWipedByRelease
  <2> USE DEF TypeOK, User
  <2>1. ASSUME NEW p \in Procs, Open(p) PROVE CacheWipedByRelease'
    <3>1. PICK from, to \in UserState \ {"rel_wipe", "wait", "rel_count"} :
            /\ user[p] = from /\ from # "open" /\ user' = [user EXCEPT ![p] = to]
      BY <2>1 DEF Open, OpenClaim, OpenGet, OpenUndoCount, OpenUndoPut, UserState
    <3>2. Wiping' <=> Wiping
      BY <3>1
    <3>3. InSession => InSession'
      BY <3>1 DEF InSession
    <3>4. UNCHANGED last_telem
      BY <2>1 DEF Open, OpenClaim, OpenGet, OpenUndoCount, OpenUndoPut
    <3>5. ~InSession \/ UNCHANGED session
      <4>1. SUFFICES ASSUME InSession, OpenGet(p) PROVE FALSE
        BY <2>1 DEF Open, OpenClaim, OpenUndoCount, OpenUndoPut
      <4>2. p \in Holders /\ user[p] = "opening"
        BY <4>1 DEF OpenGet, Holders
      <4>3. PICK q \in Procs : user[q] \in {"open", "wait", "rel_count"}
        BY <4>1 DEF InSession
      <4>4. q \in Holders
        BY <4>3 DEF Holders
      <4>5. p = q
        BY <4>2, <4>4, HolderUnique
      <4> QED BY <4>2, <4>3, <4>5
    <3> QED BY <2>0, <3>2, <3>3, <3>4, <3>5
  <2>2. ASSUME NEW p \in Procs, ReleasePut(p) PROVE CacheWipedByRelease'
    <3>1. (Wiping' <=> Wiping) /\ (InSession' <=> InSession)
      BY <2>2 DEF ReleasePut, InSession
    <3> QED BY <2>0, <2>2, <3>1 DEF ReleasePut
  <2>3. ASSUME NEW p \in Procs, ReleaseCount(p) PROVE CacheWipedByRelease'
    <3>1. Wiping'
      BY <2>3 DEF ReleaseCount
    <3> QED BY <2>0, <3>1
  <2>4. ASSUME NEW p \in Procs, ReleaseWipe(p) PROVE CacheWipedByRelease'
    BY <2>4 DEF ReleaseWipe, CacheWipedByRelease
  <2>5. ASSUME NEW p \in Procs,
               \/ ReadBlocks(p) \/ ReadReturns(p) \/ ReadInterrupted(p) \/ Transfer(p)
               \/ \E assert \in BOOLEAN : McuReset(p, assert)
        PROVE  CacheWipedByRelease'
    <3>1. UNCHANGED <<session, last_telem>>
      BY <2>5 DEF ReadBlocks, ReadReturns, ReadInterrupted, Transfer, McuReset
    <3>2. \E to \in {"open", "wait"} :
            user[p] \in {"open", "wait"} /\ user' = [user EXCEPT ![p] = to]
      BY <2>5 DEF ReadBlocks, ReadReturns, ReadInterrupted, Transfer, McuReset
    <3>3. (Wiping' <=> Wiping) /\ (InSession' <=> InSession)
      BY <3>2 DEF InSession
    <3> QED BY <2>0, <3>1, <3>3
  <2>6. CASE WorkTelemetry
    BY <2>6, TelemetryOfSession
  <2>7. CASE \/ apex_irq_handler \/ WorkBegin \/ WorkGivesUp \/ WorkPayload
             \/ (\E f \in Telemetry \cup Other : WorkFrame(f))
             \/ EnterSleep \/ apex_bridge_runtime_suspend \/ apex_bridge_runtime_resume
             \/ UNCHANGED vars
    <3>1. UNCHANGED <<open_count, user, session>>
      BY <2>7, SystemSteps DEF Work
    <3>2. UNCHANGED last_telem
      BY <2>7 DEF apex_irq_handler, WorkBegin, WorkGivesUp, WorkPayload, WorkFrame,
                  EnterSleep, apex_bridge_runtime_suspend, apex_bridge_runtime_resume,
                  vars
    <3>3. InSession' <=> InSession
      BY <3>1 DEF InSession
    <3> QED BY <3>1, <3>2, <3>3 DEF CacheWipedByRelease
  <2> HIDE DEF Wiping
  <2> QED BY <2>1, <2>2, <2>3, <2>4, <2>5, <2>6, <2>7 DEF Next, Release, Work
<1> QED BY <1>1, <1>2, Typing, ExclusiveUse, PTL DEF Spec
=============================================================================
