------------------------- MODULE JobLifecycleProofs -------------------------
(* What holds of JobLifecycle for any set of jobs and of watchers, any quota  *)
(* and blocking policy, and any number of failures of any kind; and, at the   *)
(* end, of the watcher's Preemption for any number of nodes and victims.      *)
EXTENDS JobLifecycle, Preemption, SumProofs

-----------------------------------------------------------------------------
(* Every action keeps the shape of the state.                              *)

LEMMA NotifyType == ASSUME TypeOK, Notify PROVE signals' \subseteq Watchers
  BY DEF TypeOK, Notify

LEMMA FaultType == ASSUME TypeOK, NEW f, Fault(f) PROVE faults' \in 0..MaxFaults
  BY ConfigAssumption DEF TypeOK, Fault

LEMMA RemoveType ==
  ASSUME TypeOK, NEW S \in SUBSET Jobs, ClusterRemove(S)
  PROVE  /\ cluster' \in [Jobs -> Phases \cup {"absent"}]
         /\ exposed' \subseteq Jobs /\ dirty' \subseteq Jobs
  BY DEF TypeOK, ClusterRemove

LEMMA CreateType ==
  ASSUME TypeOK, NEW j \in Jobs, ClusterCreate(j)
  PROVE  /\ cluster' \in [Jobs -> Phases \cup {"absent"}]
         /\ exposed' \subseteq Jobs /\ dirty' \subseteq Jobs
  BY DEF TypeOK, ClusterCreate, Phases

LEMMA EndRoundType ==
  ASSUME TypeOK, NEW w \in Watchers, NEW need \in BOOLEAN, EndRound(w, need)
  PROVE  /\ watcher' \in [Watchers -> WatcherState] /\ wake' \subseteq Watchers
         /\ \A v \in Watchers : Activating(v)' => v # w /\ Activating(v) /\ watcher'[v] = watcher[v]
<1>1. [NoWatch EXCEPT !.needScan = need] \in WatcherState
  BY DEF NoWatch, WatcherState
<1>2. [NoWatch EXCEPT !.needScan = need].pc \notin InTransaction
  BY DEF NoWatch, InTransaction
<1> QED
  BY <1>1, <1>2 DEF TypeOK, EndRound, Activating

LEMMA ClusterType ==
  ASSUME TypeOK, NEW j \in Jobs, Evolve(j) \/ Clean(j) \/ Timeout(j)
  PROVE  TypeOK'
<1>1. CASE Evolve(j)
  <2>1. NextPhase[cluster[j]] \in Phases
    BY <1>1 DEF Evolve, NextPhase, Phases
  <2> QED
    BY <1>1, <2>1 DEF TypeOK, Evolve, dbVars, loopVars, Activating
<1>2. CASE Clean(j)
  BY <1>2, RemoveType DEF TypeOK, Clean, dbVars, loopVars, Activating
<1>3. CASE Timeout(j)
  BY <1>3 DEF TypeOK, Timeout, clusterVars, loopVars, Activating
<1> QED
  BY <1>1, <1>2, <1>3

LEMMA SubmitType ==
  ASSUME TypeOK, NEW j \in Jobs, SubmitCheck(j) \/ SubmitStep(j)
  PROVE  TypeOK'
<1>1. CASE SubmitCheck(j)
  BY <1>1 DEF TypeOK, SubmitCheck, SubmitVars, dbVars, clusterVars, loopVars, Activating
<1>2. CASE SubmitQueue(j)
  BY <1>2 DEF TypeOK, SubmitQueue, SubmitVars, clusterVars, loopVars, Activating, Status
<1>3. CASE SubmitNotify(j)
  BY <1>3, NotifyType DEF TypeOK, SubmitNotify, SubmitVars, dbVars, clusterVars, loopVars, Activating
<1>4. CASE SubmitCreate(j)
  BY <1>4, CreateType, FaultType DEF TypeOK, SubmitCreate, SubmitVars, dbVars, clusterVars, loopVars, Activating
<1>5. CASE SubmitExpose(j)
  BY <1>5, RemoveType, FaultType DEF TypeOK, SubmitExpose, SubmitVars, dbVars, clusterVars, loopVars, Activating
<1> QED
  BY <1>1, <1>2, <1>3, <1>4, <1>5 DEF SubmitStep

LEMMA DeleteType ==
  ASSUME TypeOK, NEW j \in Jobs, DeleteRead(j) \/ DeleteStep(j)
  PROVE  TypeOK'
<1>1. CASE DeleteRead(j)
  <2> DEFINE queued == rec[j] = "Prequeue"
  <2>1. del[j] \in DeleteState /\ queued \in BOOLEAN
    BY DEF TypeOK
  <2>2. del' = [del EXCEPT ![j].pc = "plan", ![j].queued = queued]
    BY <1>1 DEF DeleteRead
  <2> HIDE DEF queued
  <2>3. [del[j] EXCEPT !.pc = "plan", !.queued = queued] \in DeleteState
    BY <2>1 DEF DeleteState
  <2>4. del' \in [Jobs -> DeleteState]
    BY <2>2, <2>3 DEF TypeOK
  <2> QED
    BY <1>1, <2>4 DEF TypeOK, DeleteRead, DeleteVars, clusterVars, loopVars, Activating
<1>2. CASE DeletePlan(j)
  <2> DEFINE dropJob == cluster[j] # "absent"
             dropRow == IF cluster[j] = "absent" THEN ~del[j].queued ELSE cluster[j] = "Completed"
  <2>1. del[j] \in DeleteState /\ dropJob \in BOOLEAN /\ dropRow \in BOOLEAN
    BY DEF TypeOK
  <2>2. del' = [del EXCEPT ![j].pc = "apply", ![j].dropJob = dropJob, ![j].dropRow = dropRow]
    BY <1>2 DEF DeletePlan
  <2> HIDE DEF dropJob, dropRow
  <2>3. [del[j] EXCEPT !.pc = "apply", !.dropJob = dropJob, !.dropRow = dropRow] \in DeleteState
    BY <2>1 DEF DeleteState
  <2>4. del' \in [Jobs -> DeleteState]
    BY <2>2, <2>3 DEF TypeOK
  <2> QED
    BY <1>2, <2>4 DEF TypeOK, DeletePlan, DeleteVars, clusterVars, loopVars, Activating
<1>3. CASE DeleteApply(j)
  BY <1>3 DEF TypeOK, DeleteApply, DeleteVars, DeleteState, clusterVars, loopVars, Activating, Status, Ended
<1>4. CASE DeleteCluster(j)
  BY <1>4, RemoveType, NotifyType
     DEF TypeOK, DeleteCluster, DeleteVars, DeleteState, NoDelete, clusterVars, loopVars, Activating
<1> QED
  BY <1>1, <1>2, <1>3, <1>4 DEF DeleteStep

LEMMA StatusOfType ==
  ASSUME NEW phase \in Phases, NEW old \in Status, NEW now \in Status
  PROVE  StatusOf(phase, old, now) \in Status
  BY DEF StatusOf, Status, Phases, Occupied, Ended

LEMMA ReconcileType ==
  ASSUME TypeOK, Reconcile \/ ReconcileFail
  PROVE  TypeOK'
<1>0. NoReconcile \in ReconcileState /\ NoReconcile.pc = "idle"
  BY DEF NoReconcile, ReconcileState, Status
<1>1. CASE ReconcileGet
  <2>1. PICK j \in dirty : /\ dirty' = dirty \ {j}
                          /\ rc' = [rc EXCEPT !.pc = "read", !.job = j, !.phase = cluster[j]]
    BY <1>1 DEF ReconcileGet
  <2>2. cluster[j] \in Phases \cup {"absent"} /\ j \in Jobs /\ rc \in ReconcileState
    BY <2>1 DEF TypeOK
  <2>3. rc' \in ReconcileState /\ rc'.job \in Jobs
    BY <2>1, <2>2 DEF ReconcileState
  <2>4. dirty' \subseteq Jobs
    BY <2>1 DEF TypeOK
  <2> QED
    BY <1>1, <2>3, <2>4 DEF TypeOK, ReconcileGet, ReconcileVars, loopVars, Activating
<1>2. CASE ReconcileRead
  <2>1. rc' \in ReconcileState /\ (rc'.pc # "idle" => rc'.job \in Jobs)
    <3> DEFINE read == [rc EXCEPT !.pc = "write", !.old = rec[rc.job]]
    <3>1. rc \in ReconcileState /\ rc.job \in Jobs /\ rec[rc.job] \in Status
      BY <1>2 DEF TypeOK, ReconcileRead
    <3>2. read \in ReconcileState /\ read.job \in Jobs
      BY <3>1 DEF ReconcileState
    <3>3. rc' = read \/ rc' = NoReconcile
      BY <1>2 DEF ReconcileRead
    <3> QED
      BY <1>0, <3>2, <3>3
  <2>2. signals' \subseteq Watchers
    BY <1>2, NotifyType DEF TypeOK, ReconcileRead
  <2> QED
    BY <1>2, <2>1, <2>2 DEF TypeOK, ReconcileRead, ReconcileVars, loopVars, Activating
<1>3. CASE ReconcileWrite
  <2>1. rec' \in [Jobs -> Status]
    <3>1. /\ rec \in [Jobs -> Status] /\ rc.job \in Jobs
          /\ rc.phase \in Phases \cup {"absent"} /\ rc.old \in Status
      BY <1>3 DEF TypeOK, ReconcileWrite, ReconcileState
    <3>2. {"Freed", "blank"} \cup (Phases \ {"new"}) \subseteq Status
      BY DEF Status, Phases, Occupied, Ended
    <3>3. rc.phase # "absent" => StatusOf(rc.phase, rc.old, rec[rc.job]) \in Status
      BY <3>1, StatusOfType
    <3> QED
      BY <1>3, <3>1, <3>2, <3>3 DEF ReconcileWrite, CreatedStatus
  <2>2. signals' \subseteq Watchers
    BY <1>3, NotifyType DEF TypeOK, ReconcileWrite
  <2> QED
    BY <1>0, <1>3, <2>1, <2>2 DEF TypeOK, ReconcileWrite, ReconcileVars, loopVars, Activating
<1>4. CASE ReconcileFail
  BY <1>0, <1>4, FaultType DEF TypeOK, ReconcileFail, ReconcileState, dbVars, loopVars, Activating
<1> QED
  BY <1>1, <1>2, <1>3, <1>4 DEF Reconcile

\* What a step of watcher w has to leave in place for the shape to be kept.
LEMMA WatcherOnly ==
  ASSUME TypeOK, UNCHANGED <<order, overdue, QueueQuotaEnabled, sub, del, rc>>, rec' \in [Jobs -> Status],
         cluster' \in [Jobs -> Phases \cup {"absent"}], exposed' \subseteq Jobs, dirty' \subseteq Jobs,
         watcher' \in [Watchers -> WatcherState], wake' \subseteq Watchers, signals' \subseteq Watchers,
         \A w \in Watchers : Activating(w)' => watcher[w]'.cur \in Jobs,
         claims' \in [Jobs -> Nat], faults' \in 0..MaxFaults
  PROVE  TypeOK'
  BY DEF TypeOK

LEMMA MoveType ==
  ASSUME TypeOK, NEW w \in Watchers, NEW s \in WatcherState, watcher' = [watcher EXCEPT ![w] = s],
         s.pc \in InTransaction => s.cur \in Jobs
  PROVE  /\ watcher' \in [Watchers -> WatcherState]
         /\ \A v \in Watchers : Activating(v)' => watcher[v]'.cur \in Jobs
  BY DEF TypeOK, Activating

LEMMA BeginType ==
  ASSUME TypeOK, NEW w \in Watchers, NEW need \in BOOLEAN, Begin(w, need)
  PROVE  /\ watcher' \in [Watchers -> WatcherState]
         /\ \A v \in Watchers : Activating(v)' => watcher[v]'.cur \in Jobs
<1> DEFINE s == [watcher[w] EXCEPT !.pc = "scan", !.needScan = need]
<1>1. watcher' = [watcher EXCEPT ![w] = s]
  BY DEF TypeOK, Begin
<1>2. s \in WatcherState /\ s.pc \notin InTransaction
  BY DEF TypeOK, WatcherState, InTransaction
<1> HIDE DEF s
<1> QED
  BY <1>1, <1>2, MoveType

LEMMA NextCandidateType ==
  ASSUME TypeOK, NEW w \in Watchers, NEW c \in Jobs, NEW missed \in BOOLEAN,
         NextCandidate(w, c, missed)
  PROVE  /\ watcher' \in [Watchers -> WatcherState] /\ wake' \subseteq Watchers
         /\ \A v \in Watchers : Activating(v)' => v # w /\ Activating(v) /\ watcher'[v] = watcher[v]
<1> DEFINE more == watcher[w].more \/ missed
           left == watcher[w].batch \ {c}
<1>1. more \in BOOLEAN /\ left \subseteq Jobs /\ watcher[w] \in WatcherState
  BY DEF TypeOK, WatcherState
<1>2. CASE left = {}
  BY <1>1, <1>2, EndRoundType DEF NextCandidate
<1>3. CASE left # {}
  <2>1. /\ watcher' = [watcher EXCEPT ![w].pc = "claim", ![w].batch = left,
                         ![w].more = more, ![w].cur = NoJob]
        /\ UNCHANGED wake
    BY <1>3 DEF NextCandidate
  <2> HIDE DEF more, left
  <2>2. [watcher[w] EXCEPT !.pc = "claim", !.batch = left, !.more = more, !.cur = NoJob] \in WatcherState
    BY <1>1 DEF WatcherState
  <2> QED
    BY <2>1, <2>2 DEF TypeOK, Activating, InTransaction
<1> QED
  BY <1>2, <1>3

LEMMA WatcherType ==
  ASSUME TypeOK, NEW w \in Watchers, WatcherStep(w) \/ WatcherReadFails(w)
  PROVE  TypeOK'
<1>0. watcher[w] \in WatcherState
  BY DEF TypeOK
<1>1. CASE WatcherSignal(w)
  BY <1>1, BeginType DEF TypeOK, WatcherSignal, LoopOthers, clusterVars
<1>2. CASE WatcherWake(w)
  BY <1>0, <1>2, BeginType DEF TypeOK, WatcherWake, WatcherState, LoopOthers, clusterVars
<1>3. CASE WatcherTick(w)
  BY <1>3, BeginType DEF TypeOK, WatcherTick, LoopOthers, clusterVars
<1>4. CASE WatcherPreempt(w)
  <2>1. PICK V \in SUBSET Jobs : ClusterRemove(V)
    BY <1>4, ConfigAssumption DEF WatcherPreempt
  <2>2. \/ EndRound(w, TRUE) /\ UNCHANGED faults
        \/ Fault("preempt") /\ EndRound(w, TRUE)
    BY <1>4 DEF WatcherPreempt, FailRound
  <2>3. faults' \in 0..MaxFaults
    BY <2>2, FaultType DEF TypeOK
  <2>4. UNCHANGED <<LoopOthers, rec, signals, claims>>
    BY <1>4 DEF WatcherPreempt
  <2> QED
    BY <2>1, <2>2, <2>3, <2>4, RemoveType, EndRoundType DEF TypeOK, LoopOthers
<1>5. CASE WatcherScan(w)
  <2>0. UNCHANGED <<LoopOthers, rec, clusterVars, signals, claims, faults>>
    BY <1>5 DEF WatcherScan
  <2>1. CASE watcher[w].needScan
    <3> DEFINE page == {c \in Jobs : rec[c] = "Prequeue" /\ ~BlockedCandidate(c)}
    <3>1. page \subseteq Jobs
      OBVIOUS
    <3>2. watcher' = [watcher EXCEPT ![w].pc = "select", ![w].page = page] /\ UNCHANGED wake
      BY <1>5, <2>1 DEF WatcherScan
    <3> DEFINE s == [watcher[w] EXCEPT !.pc = "select", !.page = page]
    <3>3. watcher' = [watcher EXCEPT ![w] = s]
      BY <3>2 DEF TypeOK
    <3> HIDE DEF page
    <3>4. s \in WatcherState /\ s.pc \notin InTransaction
      BY <1>0, <3>1 DEF WatcherState, InTransaction
    <3> HIDE DEF s
    <3> QED
      BY <2>0, <3>2, <3>3, <3>4, MoveType DEF TypeOK, LoopOthers, clusterVars
  <2>2. CASE EndRound(w, FALSE)
    BY <2>0, <2>2, EndRoundType DEF TypeOK, LoopOthers, clusterVars
  <2> QED
    BY <1>5, <2>1, <2>2 DEF WatcherScan
<1>6. CASE WatcherSelect(w)
  <2>0. UNCHANGED <<LoopOthers, rec, clusterVars, signals, claims, faults>>
    BY <1>6 DEF WatcherSelect
  <2>1. CASE EndRound(w, FALSE)
    BY <2>0, <2>1, EndRoundType DEF TypeOK, LoopOthers, clusterVars
  <2>2. CASE watcher' = [watcher EXCEPT ![w].pc = "claim"] /\ UNCHANGED wake
    <3> DEFINE s == [watcher[w] EXCEPT !.pc = "claim"]
    <3>1. watcher' = [watcher EXCEPT ![w] = s]
      BY <2>2 DEF TypeOK
    <3>2. s \in WatcherState /\ s.pc \notin InTransaction
      BY <1>0 DEF WatcherState, InTransaction
    <3> HIDE DEF s
    <3> QED
      BY <2>0, <2>2, <3>1, <3>2, MoveType DEF TypeOK, LoopOthers, clusterVars
  <2>3. CASE ~EndRound(w, FALSE) /\ watcher' # [watcher EXCEPT ![w].pc = "claim"]
    <3>1. PICK c \in watcher[w].page, fits \in BOOLEAN, full \in BOOLEAN :
            /\ watcher' = [watcher EXCEPT
                 ![w].page  = IF fits /\ full THEN {} ELSE @ \ {c},
                 ![w].batch = IF fits /\ ~full THEN @ \cup {c} ELSE @,
                 ![w].more  = fits /\ full]
            /\ UNCHANGED wake
      BY <1>6, <2>3 DEF WatcherSelect
    <3> DEFINE page  == IF fits /\ full THEN {} ELSE watcher[w].page \ {c}
               batch == IF fits /\ ~full THEN watcher[w].batch \cup {c} ELSE watcher[w].batch
               more  == fits /\ full
               s     == [watcher[w] EXCEPT !.page = page, !.batch = batch, !.more = more]
    <3>2. page \subseteq Jobs /\ batch \subseteq Jobs /\ more \in BOOLEAN
      BY <1>0 DEF WatcherState
    <3>3. watcher' = [watcher EXCEPT ![w] = s]
      BY <3>1 DEF TypeOK
    <3> HIDE DEF page, batch, more
    <3>4. s \in WatcherState /\ s.pc = watcher[w].pc
      BY <1>0, <3>2 DEF WatcherState
    <3> HIDE DEF s
    <3>5. s.pc \notin InTransaction
      BY <1>6, <3>4 DEF WatcherSelect, InTransaction
    <3> QED
      BY <2>0, <3>1, <3>3, <3>4, <3>5, MoveType DEF TypeOK, LoopOthers, clusterVars
  <2> QED
    BY <1>6, <2>1, <2>2, <2>3 DEF WatcherSelect
<1>7. CASE WatcherClaim(w)
  <2>0. UNCHANGED <<LoopOthers, rec, clusterVars, signals, claims, faults>>
    BY <1>7 DEF WatcherClaim
  <2>1. PICK c \in Jobs :
          \/ watcher' = [watcher EXCEPT ![w].pc = "create", ![w].cur = c] /\ UNCHANGED wake
          \/ NextCandidate(w, c, TRUE)
    BY <1>0, <1>7 DEF WatcherClaim, WatcherState
  <2>2. CASE NextCandidate(w, c, TRUE)
    BY <2>0, <2>2, NextCandidateType DEF TypeOK, LoopOthers, clusterVars
  <2>3. CASE watcher' = [watcher EXCEPT ![w].pc = "create", ![w].cur = c] /\ UNCHANGED wake
    <3> DEFINE s == [watcher[w] EXCEPT !.pc = "create", !.cur = c]
    <3>1. watcher' = [watcher EXCEPT ![w] = s]
      BY <2>3 DEF TypeOK
    <3>2. s \in WatcherState /\ s.cur \in Jobs
      BY <1>0 DEF WatcherState, InTransaction
    <3> HIDE DEF s
    <3> QED
      BY <2>0, <2>3, <3>1, <3>2, MoveType DEF TypeOK, LoopOthers, clusterVars
  <2> QED
    BY <2>1, <2>2, <2>3
<1>8. CASE WatcherCreate(w) \/ WatcherExpose(w)
  <2>0. watcher[w].cur \in Jobs
    BY <1>8 DEF TypeOK, Activating, InTransaction, WatcherCreate, WatcherExpose
  <2>1. UNCHANGED <<LoopOthers, rec, signals, claims>>
    BY <1>8 DEF WatcherCreate, WatcherExpose
  <2>2. /\ cluster' \in [Jobs -> Phases \cup {"absent"}]
        /\ exposed' \subseteq Jobs /\ dirty' \subseteq Jobs
    BY <1>8, <2>0, CreateType, RemoveType DEF TypeOK, WatcherCreate, WatcherExpose, clusterVars
  <2>3. faults' \in 0..MaxFaults
    BY <1>8, FaultType DEF TypeOK, WatcherCreate, WatcherExpose
  <2>4. \/ EndRound(w, TRUE)
        \/ \E pc \in {"expose", "commit"} :
             watcher' = [watcher EXCEPT ![w].pc = pc] /\ UNCHANGED wake
    BY <1>8 DEF WatcherCreate, WatcherExpose, FailRound
  <2>5. CASE EndRound(w, TRUE)
    BY <2>1, <2>2, <2>3, <2>5, EndRoundType DEF TypeOK, LoopOthers
  <2>6. ASSUME NEW pc \in {"expose", "commit"},
               watcher' = [watcher EXCEPT ![w].pc = pc], UNCHANGED wake
        PROVE  TypeOK'
    <3> DEFINE s == [watcher[w] EXCEPT !.pc = pc]
    <3>1. watcher' = [watcher EXCEPT ![w] = s]
      BY <2>6 DEF TypeOK
    <3>2. s \in WatcherState /\ s.cur \in Jobs
      BY <1>0, <2>0 DEF WatcherState, InTransaction
    <3> HIDE DEF s
    <3> QED
      BY <2>1, <2>2, <2>3, <2>6, <3>1, <3>2, MoveType DEF TypeOK, LoopOthers
  <2> QED
    BY <2>4, <2>5, <2>6
<1>9. CASE WatcherCommit(w)
  <2>0. watcher[w].cur \in Jobs
    BY <1>9 DEF TypeOK, Activating, InTransaction, WatcherCommit
  <2>1. UNCHANGED <<LoopOthers, clusterVars, signals>> /\ faults' \in 0..MaxFaults
    BY <1>9, FaultType DEF TypeOK, WatcherCommit
  <2>2. rec' \in [Jobs -> Status] /\ claims' \in [Jobs -> Nat]
    <3>1. "Pending" \in Status
      BY DEF Status, Occupied
    <3>2. /\ rec' = rec \/ rec' = [rec EXCEPT ![watcher[w].cur] = "Pending"]
          /\ claims' = claims \/ claims' = [claims EXCEPT ![watcher[w].cur] = @ + 1]
      BY <1>9 DEF WatcherCommit
    <3>3. rec \in [Jobs -> Status] /\ claims \in [Jobs -> Nat]
      BY DEF TypeOK
    <3>4. claims' \in [Jobs -> Nat]
      <4>1. claims[watcher[w].cur] + 1 \in Nat
        BY <2>0, <3>3
      <4> QED
        BY <3>2, <3>3, <4>1
    <3> QED
      BY <3>1, <3>2, <3>3, <3>4
  <2>3. NextCandidate(w, watcher[w].cur, FALSE) \/ EndRound(w, TRUE)
    BY <1>9 DEF WatcherCommit, FailRound
  <2> QED
    BY <2>0, <2>1, <2>2, <2>3, NextCandidateType, EndRoundType DEF TypeOK, LoopOthers, clusterVars
<1>10. CASE WatcherReadFails(w)
  BY <1>10, FaultType, EndRoundType DEF TypeOK, WatcherReadFails, FailRound, LoopOthers, clusterVars
<1> QED
  BY <1>1, <1>2, <1>3, <1>4, <1>5, <1>6, <1>7, <1>8, <1>9, <1>10 DEF WatcherStep

LEMMA RestartType == ASSUME TypeOK, Restart PROVE TypeOK'
<1>1. NoWatch \in WatcherState /\ NoWatch.pc \notin InTransaction
  BY DEF NoWatch, WatcherState, InTransaction
<1>2. NoReconcile \in ReconcileState /\ NoReconcile.pc = "idle"
  BY DEF NoReconcile, ReconcileState, Status
<1>3. [NoDelete EXCEPT !.pc = "failed"] \in DeleteState
  BY DEF NoDelete, DeleteState
<1>4. faults' \in 0..MaxFaults
  BY FaultType DEF Restart
<1>5. sub' \in [Jobs -> {"idle", "queue", "queued", "direct", "expose", "done", "failed"}]
  BY DEF TypeOK, Restart
<1>6. del' \in [Jobs -> DeleteState]
  BY <1>3 DEF TypeOK, Restart
<1> QED
  BY <1>1, <1>2, <1>4, <1>5, <1>6 DEF TypeOK, Restart, dbVars, Activating

\* The state has its shape whatever happens.
THEOREM TypeCorrect == Spec => []TypeOK
<1>1. Init => TypeOK
  <2> SUFFICES ASSUME Init PROVE TypeOK
    OBVIOUS
  <2>1. NoWatch \in WatcherState /\ NoWatch.pc \notin InTransaction
    BY DEF NoWatch, WatcherState, InTransaction
  <2>2. NoReconcile \in ReconcileState /\ NoReconcile.pc = "idle"
    BY DEF NoReconcile, ReconcileState, Status
  <2>3. NoDelete \in DeleteState
    BY DEF NoDelete, DeleteState
  <2> QED
    BY <2>1, <2>2, <2>3, ConfigAssumption DEF Init, TypeOK, Status, Activating
<1>2. TypeOK /\ [Next]_vars => TypeOK'
  <2> SUFFICES ASSUME TypeOK, [Next]_vars PROVE TypeOK'
    OBVIOUS
  <2>1. CASE UNCHANGED vars
    BY <2>1 DEF TypeOK, vars, dbVars, clusterVars, loopVars, Activating
  <2>2. CASE Next
    BY <2>2, SubmitType, DeleteType, ClusterType, ReconcileType, WatcherType, RestartType DEF Next
  <2> QED
    BY <2>1, <2>2
<1> QED
  BY <1>1, <1>2, PTL DEF Spec

-----------------------------------------------------------------------------
(* A row is activated at most once.                                        *)

\* What a step may do to rows, requests and watchers without touching the claims.
ClaimFrame ==
  /\ UNCHANGED <<order, claims>>
  /\ \A v \in Watchers : Activating(v)' => Activating(v) /\ watcher[v]'.cur = watcher[v].cur
  /\ \A j \in Jobs : Locked(j) => rec'[j] = rec[j]
  /\ \A j \in Jobs : rec'[j] = "Prequeue" => rec[j] = "Prequeue"
  /\ \A j \in Jobs : sub[j] \in {"queued", "done", "failed"} => sub'[j] \in {"queued", "done", "failed"}

LEMMA ClaimFramed == ASSUME TypeOK, ClaimInv, ClaimFrame PROVE ClaimInv'
<1>1. \A j \in Jobs : Queued(j)' <=> Queued(j)
  BY DEF ClaimFrame, Queued
<1>2. ASSUME NEW w \in Watchers, Activating(w)' PROVE rec'[watcher[w]'.cur] = "Prequeue"
  <2>1. Activating(w) /\ watcher[w]'.cur = watcher[w].cur /\ watcher[w].cur \in Jobs
    BY <1>2 DEF ClaimFrame, TypeOK
  <2>2. Locked(watcher[w].cur)
    BY <2>1 DEF Locked
  <2> QED
    BY <2>1, <2>2 DEF ClaimFrame, ClaimInv
<1>3. ASSUME NEW w \in Watchers, NEW v \in Watchers, Activating(w)', Activating(v)', w # v
      PROVE  watcher[w]'.cur # watcher[v]'.cur
  BY <1>3 DEF ClaimFrame, ClaimInv
<1>4. ASSUME NEW j \in Jobs
      PROVE  /\ claims'[j] = 0 \/ (claims'[j] = 1 /\ rec'[j] # "Prequeue")
             /\ claims'[j] # 0 \/ rec'[j] = "Prequeue" => Queued(j)'
             /\ Queued(j)' => sub'[j] \in {"queued", "done", "failed"}
  BY <1>1 DEF ClaimFrame, ClaimInv
<1> QED
  BY <1>2, <1>3, <1>4 DEF ClaimInv

LEMMA ClaimClusterStep ==
  ASSUME TypeOK, NEW j \in Jobs, Evolve(j) \/ Clean(j) \/ Timeout(j)
  PROVE  ClaimFrame
  BY DEF TypeOK, Evolve, Clean, Timeout, ClaimFrame, Activating, dbVars, loopVars, clusterVars

LEMMA QueuedByAppend ==
  ASSUME order \in Seq(Jobs), NEW j \in Jobs, order' = Append(order, j)
  PROVE  \A k \in Jobs : Queued(k)' <=> Queued(k) \/ k = j
<1>1. /\ DOMAIN order = 1..Len(order) /\ Len(order) \in Nat
      /\ DOMAIN order' = 1..(Len(order) + 1) /\ order'[Len(order) + 1] = j
      /\ \A i \in 1..Len(order) : order'[i] = order[i]
  OBVIOUS
<1>2. \A i \in DOMAIN order' : i \in DOMAIN order \/ i = Len(order) + 1
  BY <1>1
<1>3. DOMAIN order \subseteq DOMAIN order' /\ Len(order) + 1 \in DOMAIN order'
  BY <1>1
<1> QED
  BY <1>1, <1>2, <1>3 DEF Queued

LEMMA ClaimSubmitStep ==
  ASSUME TypeOK, ClaimInv, NEW j \in Jobs, SubmitCheck(j) \/ SubmitStep(j)
  PROVE  ClaimInv'
<1>1. CASE SubmitQueue(j)
  <2>1. /\ sub[j] = "queue" /\ UNCHANGED <<watcher, claims>>
        /\ rec' = [rec EXCEPT ![j] = "Prequeue"] /\ sub' = [sub EXCEPT ![j] = "queued"]
        /\ order' = Append(order, j)
    BY <1>1 DEF SubmitQueue, SubmitVars, loopVars
  <2>2. \A k \in Jobs : Queued(k)' <=> Queued(k) \/ k = j
    BY <2>1, QueuedByAppend DEF TypeOK
  <2>3. ~Queued(j)
    BY <2>1 DEF ClaimInv
  <2>4. claims[j] = 0
    BY <2>3 DEF ClaimInv
  <2>5. \A w \in Watchers : Activating(w)' <=> Activating(w)
    BY <2>1 DEF Activating
  <2>6. ASSUME NEW k \in Jobs
        PROVE  /\ claims'[k] = 0 \/ (claims'[k] = 1 /\ rec'[k] # "Prequeue")
               /\ claims'[k] # 0 \/ rec'[k] = "Prequeue" => Queued(k)'
               /\ Queued(k)' => sub'[k] \in {"queued", "done", "failed"}
    BY <2>1, <2>2, <2>4 DEF TypeOK, ClaimInv
  <2>7. \A w \in Watchers : Activating(w)' => rec'[watcher'[w].cur] = "Prequeue"
    BY <2>1, <2>5 DEF TypeOK, ClaimInv
  <2> QED
    BY <2>1, <2>5, <2>6, <2>7 DEF ClaimInv
<1>2. CASE SubmitCheck(j) \/ SubmitNotify(j) \/ SubmitCreate(j) \/ SubmitExpose(j)
  <2>1. ClaimFrame
    BY <1>2 DEF TypeOK, SubmitCheck, SubmitNotify, SubmitCreate, SubmitExpose, ClaimFrame, Activating,
                SubmitVars, dbVars, loopVars
  <2> QED
    BY <2>1, ClaimFramed
<1> QED
  BY <1>1, <1>2 DEF SubmitStep

LEMMA ClaimDeleteStep ==
  ASSUME TypeOK, NEW j \in Jobs, DeleteRead(j) \/ DeleteStep(j)
  PROVE  ClaimFrame
<1>1. CASE DeleteRead(j) \/ DeletePlan(j) \/ DeleteCluster(j)
  BY <1>1 DEF DeleteRead, DeletePlan, DeleteCluster, DeleteVars, ClaimFrame, Activating, loopVars
<1>2. CASE DeleteApply(j)
  BY <1>2 DEF TypeOK, DeleteApply, DeleteVars, ClaimFrame, Activating, loopVars
<1> QED
  BY <1>1, <1>2 DEF DeleteStep

LEMMA ClaimReconcileStep ==
  ASSUME TypeOK, Reconcile \/ ReconcileFail
  PROVE  ClaimFrame
<1>1. CASE ReconcileGet \/ ReconcileRead \/ ReconcileFail
  BY <1>1 DEF ReconcileGet, ReconcileRead, ReconcileFail, ReconcileVars, ClaimFrame, Activating, dbVars, loopVars
<1>2. CASE ReconcileWrite
  <2>1. /\ ~Locked(rc.job) /\ UNCHANGED <<order, claims, watcher, sub>> /\ rc.job \in Jobs
        /\ rc.phase \in Phases \cup {"absent"}
    BY <1>2 DEF TypeOK, ReconcileWrite, ReconcileVars, ReconcileState, loopVars
  <2>2. \A now : StatusOf(rc.phase, rc.old, now) = "Prequeue" => now = "Prequeue"
    BY <2>1 DEF StatusOf, Phases
  <2>3. rec'[rc.job] = "Prequeue" => rec[rc.job] = "Prequeue"
    BY <1>2, <2>1, <2>2 DEF TypeOK, ReconcileWrite, CreatedStatus, Phases
  <2>4. \A j \in Jobs : j # rc.job => rec'[j] = rec[j]
    BY <1>2 DEF TypeOK, ReconcileWrite
  <2> QED
    BY <2>1, <2>3, <2>4 DEF ClaimFrame, Activating
<1> QED
  BY <1>1, <1>2 DEF Reconcile
LEMMA RoundEnds ==
  ASSUME TypeOK, NEW w \in Watchers, NEW need \in BOOLEAN, EndRound(w, need)
  PROVE  \A v \in Watchers : Activating(v)' => v # w /\ Activating(v) /\ watcher[v]'.cur = watcher[v].cur
  BY EndRoundType

LEMMA ClaimWatcherStep ==
  ASSUME TypeOK, ClaimInv, NEW w \in Watchers, WatcherStep(w) \/ WatcherReadFails(w)
  PROVE  ClaimInv'
<1> USE DEF ClaimFrame
<1>0. watcher[w] \in WatcherState
  BY DEF TypeOK
<1>1. CASE WatcherSignal(w) \/ WatcherWake(w) \/ WatcherTick(w)
  <2>1. UNCHANGED <<LoopOthers, rec, claims>> /\ \E need \in BOOLEAN : Begin(w, need)
    BY <1>0, <1>1 DEF WatcherSignal, WatcherWake, WatcherTick, WatcherState
  <2>2. \A v \in Watchers : Activating(v)' => v # w /\ watcher[v]' = watcher[v]
    BY <2>1 DEF TypeOK, Begin, Activating, InTransaction
  <2> QED
    BY <2>1, <2>2, ClaimFramed DEF LoopOthers, Activating
<1>2. CASE WatcherPreempt(w) \/ WatcherReadFails(w)
  <2>1. UNCHANGED <<LoopOthers, rec, claims>> /\ EndRound(w, TRUE)
    BY <1>2 DEF WatcherPreempt, WatcherReadFails, FailRound
  <2> QED
    BY <2>1, RoundEnds, ClaimFramed DEF LoopOthers
<1>3. CASE WatcherScan(w) \/ WatcherSelect(w)
  <2>1. UNCHANGED <<LoopOthers, rec, claims>>
    BY <1>3 DEF WatcherScan, WatcherSelect
  <2>2. \A v \in Watchers : Activating(v)' => Activating(v) /\ watcher[v]'.cur = watcher[v].cur
    <3>1. CASE EndRound(w, FALSE)
      BY <3>1, RoundEnds
    <3>2. CASE ~EndRound(w, FALSE)
      <4>1. \A v \in Watchers : v # w => watcher[v]' = watcher[v]
        BY <1>3, <3>2 DEF TypeOK, WatcherScan, WatcherSelect
      <4>2. CASE WatcherScan(w)
        <5>1. \E page : watcher' = [watcher EXCEPT ![w].pc = "select", ![w].page = page]
          BY <3>2, <4>2 DEF WatcherScan
        <5>2. watcher[w]'.pc = "select"
          BY <1>0, <5>1 DEF TypeOK, WatcherState
        <5> QED
          BY <4>1, <5>2 DEF Activating, InTransaction
      <4>3. CASE WatcherSelect(w)
        <5>1. watcher[w]'.pc \in {watcher[w].pc, "claim"} /\ watcher[w].pc = "select"
          <6>1. watcher[w].pc = "select"
            BY <4>3 DEF WatcherSelect
          <6>2. CASE watcher' = [watcher EXCEPT ![w].pc = "claim"]
            BY <1>0, <6>1, <6>2 DEF TypeOK, WatcherState
          <6>3. CASE watcher' # [watcher EXCEPT ![w].pc = "claim"]
            <7>1. PICK c \in watcher[w].page, fits \in BOOLEAN, full \in BOOLEAN :
                    watcher' = [watcher EXCEPT
                      ![w].page  = IF fits /\ full THEN {} ELSE @ \ {c},
                      ![w].batch = IF fits /\ ~full THEN @ \cup {c} ELSE @,
                      ![w].more  = fits /\ full]
              BY <3>2, <4>3, <6>3 DEF WatcherSelect
            <7> QED
              BY <1>0, <6>1, <7>1 DEF TypeOK, WatcherState
          <6> QED
            BY <6>2, <6>3
        <5> QED
          BY <4>1, <5>1 DEF Activating, InTransaction
      <4> QED
        BY <1>3, <4>2, <4>3
    <3> QED
      BY <3>1, <3>2
  <2> QED
    BY <2>1, <2>2, ClaimFramed DEF LoopOthers
<1>4. CASE WatcherCreate(w) \/ WatcherExpose(w)
  <2>1. UNCHANGED <<LoopOthers, rec, claims>>
    BY <1>4 DEF WatcherCreate, WatcherExpose
  <2>2. \A v \in Watchers : Activating(v)' => Activating(v) /\ watcher[v]'.cur = watcher[v].cur
    <3>1. CASE EndRound(w, TRUE)
      BY <3>1, RoundEnds
    <3>2. CASE ~EndRound(w, TRUE)
      <4>1. Activating(w)
        BY <1>4 DEF WatcherCreate, WatcherExpose, Activating, InTransaction
      <4>2. PICK pc \in {"expose", "commit"} : watcher' = [watcher EXCEPT ![w].pc = pc]
        BY <1>4, <3>2 DEF WatcherCreate, WatcherExpose, FailRound
      <4>3. watcher[w]'.cur = watcher[w].cur /\ \A v \in Watchers : v # w => watcher[v]' = watcher[v]
        BY <1>0, <4>2 DEF TypeOK, WatcherState
      <4> QED
        BY <4>1, <4>3 DEF Activating
    <3> QED
      BY <3>1, <3>2
  <2> QED
    BY <2>1, <2>2, ClaimFramed DEF LoopOthers
<1>5. CASE WatcherClaim(w)
  <2>1. UNCHANGED <<order, sub, rec, claims>>
    BY <1>5 DEF WatcherClaim, LoopOthers
  <2>2. PICK c \in Jobs :
          \/ /\ watcher' = [watcher EXCEPT ![w].pc = "create", ![w].cur = c]
             /\ ~Locked(c) /\ rec[c] = "Prequeue"
          \/ NextCandidate(w, c, TRUE)
    BY <1>0, <1>5 DEF WatcherClaim, WatcherState
  <2>3. CASE NextCandidate(w, c, TRUE)
    <3>1. \A v \in Watchers : Activating(v)' => Activating(v) /\ watcher[v]'.cur = watcher[v].cur
      BY <2>3, NextCandidateType
    <3> QED
      BY <2>1, <3>1, ClaimFramed
  <2>4. CASE /\ watcher' = [watcher EXCEPT ![w].pc = "create", ![w].cur = c]
             /\ ~Locked(c) /\ rec[c] = "Prequeue"
    <3>1. watcher[w]'.cur = c /\ \A v \in Watchers : v # w => watcher[v]' = watcher[v]
      BY <1>0, <2>4 DEF TypeOK, WatcherState
    <3>2. \A v \in Watchers : v # w /\ Activating(v)' => Activating(v) /\ watcher[v]'.cur = watcher[v].cur
      BY <3>1 DEF Activating
    <3>3. \A v \in Watchers : Activating(v)' => rec'[watcher[v]'.cur] = "Prequeue"
      BY <2>1, <2>4, <3>1, <3>2 DEF ClaimInv
    <3>4. \A u, v \in Watchers :
            Activating(u)' /\ Activating(v)' /\ u # v => watcher[u]'.cur # watcher[v]'.cur
      <4>1. \A v \in Watchers : v # w /\ Activating(v)' => watcher[v]'.cur # c
        BY <2>4, <3>2 DEF Locked
      <4>2. \A u, v \in Watchers : u # w /\ v # w /\ u # v /\ Activating(u)' /\ Activating(v)'
                                 => watcher[u]'.cur # watcher[v]'.cur
        BY <3>2 DEF ClaimInv
      <4> QED
        BY <3>1, <4>1, <4>2
    <3>5. \A j \in Jobs : Queued(j)' <=> Queued(j)
      BY <2>1 DEF Queued
    <3> QED
      BY <2>1, <3>3, <3>4, <3>5 DEF ClaimInv
  <2> QED
    BY <2>2, <2>3, <2>4
<1>6. CASE WatcherCommit(w)
  <2> DEFINE c == watcher[w].cur
  <2>1. Activating(w) /\ c \in Jobs /\ UNCHANGED <<order, sub>>
    BY <1>6 DEF WatcherCommit, TypeOK, Activating, InTransaction, LoopOthers
  <2>2. \A v \in Watchers : Activating(v)' => v # w /\ Activating(v) /\ watcher[v]'.cur = watcher[v].cur
    BY <1>6, <2>1, NextCandidateType, RoundEnds DEF WatcherCommit, FailRound
  <2>3. CASE UNCHANGED <<rec, claims>>
    BY <2>1, <2>2, <2>3, ClaimFramed
  <2>4. CASE rec' = [rec EXCEPT ![c] = "Pending"] /\ claims' = [claims EXCEPT ![c] = @ + 1]
    <3>1. rec[c] = "Prequeue" /\ claims[c] = 0
      BY <2>1 DEF ClaimInv
    <3>2. \A v \in Watchers : Activating(v)' => rec'[watcher[v]'.cur] = "Prequeue"
      <4>1. ASSUME NEW v \in Watchers, Activating(v)'
            PROVE  /\ watcher[v]'.cur = watcher[v].cur /\ watcher[v].cur \in Jobs
                   /\ watcher[v].cur # c /\ rec[watcher[v].cur] = "Prequeue"
        BY <2>1, <2>2, <4>1 DEF ClaimInv, TypeOK
      <4> QED
        BY <2>4, <4>1 DEF TypeOK
    <3>3. \A j \in Jobs : Queued(j)' <=> Queued(j)
      BY <2>1 DEF Queued
    <3>4. ASSUME NEW j \in Jobs
          PROVE  /\ claims'[j] = 0 \/ (claims'[j] = 1 /\ rec'[j] # "Prequeue")
                 /\ claims'[j] # 0 \/ rec'[j] = "Prequeue" => Queued(j)'
                 /\ Queued(j)' => sub'[j] \in {"queued", "done", "failed"}
      BY <2>1, <2>4, <3>1, <3>3 DEF ClaimInv, TypeOK
    <3> QED
      BY <2>2, <3>2, <3>4 DEF ClaimInv
  <2> QED
    BY <1>6, <2>3, <2>4 DEF WatcherCommit
<1> QED
  BY <1>1, <1>2, <1>3, <1>4, <1>5, <1>6 DEF WatcherStep

LEMMA ClaimRestart == ASSUME TypeOK, Restart PROVE ClaimFrame
<1>1. \A w \in Watchers : ~Activating(w)'
  BY DEF Restart, Activating, NoWatch, InTransaction
<1> QED
  BY <1>1 DEF TypeOK, Restart, ClaimFrame, dbVars

\* The inductive invariant.
THEOREM ClaimsSound == Spec => []ClaimInv
<1>1. Init => ClaimInv
  BY DEF Init, ClaimInv, Activating, NoWatch, InTransaction, Queued
<1>2. TypeOK /\ ClaimInv /\ [Next]_vars => ClaimInv'
  <2> SUFFICES ASSUME TypeOK, ClaimInv, [Next]_vars PROVE ClaimInv'
    OBVIOUS
  <2>1. CASE UNCHANGED vars
    <3>1. ClaimFrame
      BY <2>1 DEF vars, dbVars, loopVars, ClaimFrame, Activating
    <3> QED
      BY <3>1, ClaimFramed
  <2>2. CASE Next
    BY <2>2, ClaimSubmitStep, ClaimDeleteStep, ClaimClusterStep, ClaimReconcileStep, ClaimWatcherStep,
       ClaimRestart, ClaimFramed DEF Next
  <2> QED
    BY <2>1, <2>2
<1> QED
  BY <1>1, <1>2, TypeCorrect, PTL DEF Spec

\* However many watchers scan, and whatever fails or restarts in between, a row
\* is activated at most once.
THEOREM AtMostOneClaim == Spec => []ClaimedOnce
<1>1. ClaimInv => ClaimedOnce
  BY DEF ClaimInv, ClaimedOnce
<1> QED
  BY <1>1, ClaimsSound, PTL

-----------------------------------------------------------------------------
(* A job activated from the queue is not created again.                    *)

LEMMA CreatedUnclaimed ==
  ASSUME TypeOK, ClaimInv, Next, NEW j \in Jobs, cluster[j] = "absent", cluster'[j] # "absent"
  PROVE  claims[j] = 0
<1>1. \A S \in SUBSET Jobs : ~ClusterRemove(S)
  BY DEF ClusterRemove
<1>2. \A k \in Jobs : ClusterCreate(k) => k = j
  BY DEF TypeOK, ClusterCreate
<1>3. UNCHANGED cluster => FALSE
  OBVIOUS
<1>4. ASSUME NEW k \in Jobs, SubmitCreate(k) PROVE claims[j] = 0
  <2>1. ClusterCreate(k) /\ sub[k] = "direct"
    BY <1>3, <1>4 DEF SubmitCreate, clusterVars
  <2>2. ~Queued(j)
    BY <1>2, <2>1 DEF ClaimInv
  <2> QED
    BY <2>2 DEF ClaimInv
<1>5. ASSUME NEW w \in Watchers, WatcherCreate(w) PROVE claims[j] = 0
  <2>1. Activating(w) /\ watcher[w].cur \in Jobs
    BY <1>5 DEF TypeOK, WatcherCreate, Activating, InTransaction
  <2>2. ClusterCreate(watcher[w].cur)
    BY <1>3, <1>5 DEF WatcherCreate, clusterVars
  <2> QED
    BY <1>2, <2>1, <2>2 DEF ClaimInv
<1>6. ASSUME NEW k \in Jobs PROVE ~Evolve(k)
  BY DEF TypeOK, Evolve, NextPhase
<1>7. ASSUME NEW k \in Jobs, \/ SubmitCheck(k) \/ (SubmitStep(k) /\ ~SubmitCreate(k))
                              \/ DeleteRead(k) \/ DeleteStep(k) \/ Clean(k) \/ Timeout(k)
      PROVE  FALSE
  BY <1>1, <1>3, <1>7
     DEF SubmitCheck, SubmitStep, SubmitQueue, SubmitNotify, SubmitExpose, DeleteRead, DeleteStep,
         DeletePlan, DeleteApply, DeleteCluster, Clean, Timeout, clusterVars
<1>8. ~(Reconcile \/ ReconcileFail \/ Restart)
  BY <1>3 DEF Reconcile, ReconcileGet, ReconcileRead, ReconcileWrite, ReconcileFail, ReconcileVars, Restart
<1>9. ASSUME NEW w \in Watchers, WatcherStep(w) \/ WatcherReadFails(w), ~WatcherCreate(w)
      PROVE  FALSE
  <2>1. CASE WatcherPreempt(w)
    <3>1. \E V \in SUBSET Jobs : ClusterRemove(V)
      BY <2>1, ConfigAssumption DEF WatcherPreempt
    <3> QED
      BY <1>1, <3>1
  <2>2. CASE WatcherExpose(w)
    <3>1. watcher[w].cur \in Jobs
      BY <2>2 DEF TypeOK, WatcherExpose, Activating, InTransaction
    <3> QED
      BY <1>1, <1>3, <2>2, <3>1 DEF WatcherExpose, clusterVars
  <2> QED
    BY <1>3, <1>9, <2>1, <2>2
       DEF WatcherStep, WatcherSignal, WatcherWake, WatcherTick, WatcherScan, WatcherSelect, WatcherClaim,
           WatcherCommit, WatcherReadFails, clusterVars
<1> QED
  BY <1>4, <1>5, <1>6, <1>7, <1>8, <1>9 DEF Next, SubmitStep

\* No step creates in the cluster a job that was activated from the queue.
THEOREM NoSecondRun == Spec => NeverRestarted
<1> DEFINE Fresh == \A j \in Jobs : cluster[j] = "absent" /\ cluster'[j] # "absent" => claims[j] = 0
<1>1. TypeOK /\ ClaimInv /\ [Next]_vars => [Fresh]_vars
  BY CreatedUnclaimed
<1> QED
  BY <1>1, TypeCorrect, ClaimsSound, PTL DEF Spec, NeverRestarted

-----------------------------------------------------------------------------
(* The queue implements JobAdmission.                                      *)

Stage == [j \in Jobs |-> StageOf(j)]

LEMMA StageKept ==
  ASSUME UNCHANGED <<rec, order, claims>>
  PROVE  Stage' = Stage
  BY DEF Stage, StageOf, Queued

\* A step that claims nothing moves at most the row it writes, out of the queue.
LEMMA StageLeft ==
  ASSUME TypeOK, ClaimInv, ClaimFrame,
         NEW k \in Jobs, \A j \in Jobs \ {k} : rec'[j] = rec[j]
  PROVE  Admission!Next \/ Stage' = Stage
<1>1. \A j \in Jobs : Queued(j)' <=> Queued(j)
  BY DEF ClaimFrame, Queued
<1>2. \A j \in Jobs \ {k} : StageOf(j)' = StageOf(j)
  BY <1>1 DEF StageOf, ClaimFrame
<1>3. CASE rec[k] = "Prequeue" /\ rec'[k] # "Prequeue"
  <2>1. StageOf(k) = "queued"
    BY <1>3 DEF StageOf
  <2>2. StageOf(k)' = "left"
    BY <1>1, <1>3 DEF StageOf, ClaimFrame, ClaimInv
  <2>3. Stage' = [Stage EXCEPT ![k] = "left"] /\ Stage[k] = "queued"
    BY <1>2, <2>1, <2>2 DEF Stage
  <2> QED
    BY <2>3 DEF Stage, Admission!Next, Admission!Move
<1>4. CASE ~(rec[k] = "Prequeue" /\ rec'[k] # "Prequeue")
  <2>1. StageOf(k)' = StageOf(k)
    BY <1>1, <1>4 DEF StageOf, ClaimFrame
  <2> QED
    BY <1>2, <2>1 DEF Stage
<1> QED
  BY <1>3, <1>4

LEMMA StageQueued ==
  ASSUME TypeOK, ClaimInv, NEW k \in Jobs, SubmitQueue(k)
  PROVE  Admission!Next
<1>1. /\ sub[k] = "queue" /\ UNCHANGED claims
      /\ rec' = [rec EXCEPT ![k] = "Prequeue"] /\ order' = Append(order, k)
  BY DEF SubmitQueue, SubmitVars
<1>2. ~Queued(k) /\ claims[k] = 0 /\ rec[k] # "Prequeue"
  BY <1>1 DEF ClaimInv
<1>3. StageOf(k) = "outside" /\ StageOf(k)' = "queued"
  <2>1. rec'[k] = "Prequeue"
    BY <1>1 DEF TypeOK
  <2> QED
    BY <1>2, <2>1 DEF StageOf
<1>4. ASSUME NEW j \in Jobs, j # k PROVE StageOf(j)' = StageOf(j)
  BY <1>1, <1>4, QueuedByAppend DEF StageOf, TypeOK
<1>5. Stage' = [Stage EXCEPT ![k] = "queued"] /\ Stage[k] = "outside"
  BY <1>3, <1>4 DEF Stage
<1> QED
  BY <1>5 DEF Stage, Admission!Next, Admission!Move

LEMMA StageAdmitted ==
  ASSUME TypeOK, ClaimInv, NEW w \in Watchers, WatcherCommit(w)
  PROVE  Admission!Next \/ Stage' = Stage
<1> DEFINE c == watcher[w].cur
<1>1. Activating(w) /\ c \in Jobs /\ UNCHANGED order
  BY DEF WatcherCommit, TypeOK, Activating, InTransaction, LoopOthers
<1>2. CASE UNCHANGED <<rec, claims>>
  BY <1>1, <1>2, StageKept
<1>3. CASE rec' = [rec EXCEPT ![c] = "Pending"] /\ claims' = [claims EXCEPT ![c] = @ + 1]
  <2>1. rec[c] = "Prequeue" /\ claims[c] = 0
    BY <1>1 DEF ClaimInv
  <2>2. rec'[c] = "Pending" /\ claims'[c] = 1
    BY <1>1, <1>3, <2>1 DEF TypeOK
  <2>3. ASSUME NEW j \in Jobs
        PROVE  StageOf(j)' = IF j = c THEN "admitted" ELSE StageOf(j)
    <3>1. Queued(j)' <=> Queued(j)
      BY <1>1 DEF Queued
    <3>2. CASE j = c
      BY <2>2, <3>2 DEF StageOf
    <3>3. CASE j # c
      <4>1. rec'[j] = rec[j] /\ claims'[j] = claims[j]
        BY <1>3, <3>3 DEF TypeOK
      <4> QED
        BY <3>1, <3>3, <4>1 DEF StageOf
    <3> QED
      BY <3>2, <3>3
  <2>4. StageOf(c) = "queued"
    BY <2>1 DEF StageOf
  <2>5. Stage' = [Stage EXCEPT ![c] = "admitted"] /\ Stage[c] = "queued"
    BY <1>1, <2>3, <2>4 DEF Stage
  <2> QED
    BY <1>1, <2>5 DEF Stage, Admission!Next, Admission!Move
<1> QED
  BY <1>2, <1>3 DEF WatcherCommit

LEMMA StageStep ==
  ASSUME TypeOK, ClaimInv, Next
  PROVE  Admission!Next \/ Stage' = Stage
<1>1. ASSUME NEW j \in Jobs, SubmitCheck(j) \/ SubmitStep(j) PROVE Admission!Next \/ Stage' = Stage
  <2>1. CASE ~SubmitQueue(j)
    BY <1>1, <2>1, StageKept
       DEF SubmitCheck, SubmitStep, SubmitNotify, SubmitCreate, SubmitExpose, SubmitVars, dbVars
  <2> QED
    BY <2>1, StageQueued
<1>2. ASSUME NEW j \in Jobs, Evolve(j) \/ Clean(j) \/ Timeout(j) PROVE Stage' = Stage
  BY <1>2, StageKept DEF Evolve, Clean, Timeout, dbVars
<1>3. ASSUME NEW j \in Jobs, DeleteRead(j) \/ DeleteStep(j) PROVE Admission!Next \/ Stage' = Stage
  <2>1. \A k \in Jobs \ {j} : rec'[k] = rec[k]
    BY <1>3 DEF TypeOK, DeleteRead, DeleteStep, DeletePlan, DeleteApply, DeleteCluster
  <2> QED
    BY <1>3, <2>1, ClaimDeleteStep, StageLeft
<1>4. CASE Reconcile \/ ReconcileFail
  <2>1. CASE ReconcileWrite
    <3>1. rc.job \in Jobs /\ \A k \in Jobs \ {rc.job} : rec'[k] = rec[k]
      BY <2>1 DEF TypeOK, ReconcileWrite
    <3> QED
      BY <1>4, <3>1, ClaimReconcileStep, StageLeft
  <2> QED
    BY <1>4, <2>1, StageKept
       DEF Reconcile, ReconcileGet, ReconcileRead, ReconcileFail, ReconcileVars, dbVars
<1>5. ASSUME NEW w \in Watchers, WatcherStep(w) \/ WatcherReadFails(w)
      PROVE  Admission!Next \/ Stage' = Stage
  <2>1. CASE ~WatcherCommit(w)
    BY <1>5, <2>1, StageKept
       DEF WatcherStep, WatcherSignal, WatcherWake, WatcherTick, WatcherPreempt, WatcherScan, WatcherSelect,
           WatcherClaim, WatcherCreate, WatcherExpose, WatcherReadFails, LoopOthers
  <2> QED
    BY <2>1, StageAdmitted
<1>6. CASE Restart
  BY <1>6, StageKept DEF Restart, dbVars
<1> QED
  BY <1>1, <1>2, <1>3, <1>4, <1>5, <1>6 DEF Next

\* Whoever scans, deletes, reconciles or restarts, the rows follow JobAdmission.
THEOREM QueueImplementsAdmission == Spec => RefinesAdmission
<1>1. Init => Admission!Init
  BY DEF Init, Admission!Init, StageOf, Queued
<1>2. TypeOK /\ ClaimInv /\ [Next]_vars => [Admission!Next]_Stage
  <2>1. UNCHANGED vars => Stage' = Stage
    BY StageKept DEF vars, dbVars
  <2> QED
    BY <2>1, StageStep
<1> QED
  BY <1>1, <1>2, TypeCorrect, ClaimsSound, PTL DEF Spec, RefinesAdmission, Admission!Spec, Stage

-----------------------------------------------------------------------------
(* The rows follow the cluster.                                            *)

\* The submission of a job that reached neither the rows nor the cluster yet.
Early(j) == sub[j] \in {"idle", "queue", "direct"}

\* The reconciler has the job in its queue or in its hands.
InHand(j) == j \in dirty \/ rc.job = j

\* Why the rows follow the cluster.  Whatever changes a job in the cluster puts it
\* into the reconciler's hands; what the reconciler holds is up to date, or the job
\* waits in the queue again; and it lets go of a job only when the row is right.
RowInv(j) ==
  /\ Early(j) => cluster[j] = "absent" /\ rec[j] = "none" /\ ~InHand(j) /\ del[j].pc = "idle"
  /\ del[j].pc = "cluster" => rec[j] # "Prequeue"
  /\ rc.job = j => j \in dirty \/ rc.phase = cluster[j]
  /\ rc.job = j /\ rc.pc = "write" /\ rc.old # "none" /\ del[j].pc = "idle" => rec[j] # "none"
  /\ ~InHand(j) /\ cluster[j] \notin {"absent", "new"} /\ del[j].pc = "idle" => rec[j] = cluster[j]
  /\ "restart" \notin Faults /\ ~InHand(j) /\ cluster[j] = "absent" => rec[j] \notin Occupied \cup {"blank"}

FlowInv ==
  /\ \A j \in Jobs : RowInv(j)
  /\ \A w \in Watchers : watcher[w].pc \in {"expose", "commit"} => cluster[watcher[w].cur] # "absent"
  /\ rc.pc = "idle" <=> rc.job = NoJob

\* A step that leaves the row of a job to the others, and the cluster job too
\* unless the reconciler is told.
RowFrame(j) ==
  /\ rec'[j] = rec[j] /\ rc' = rc
  /\ del'[j].pc = del[j].pc \/ (del'[j].pc \notin {"idle", "cluster"} /\ del[j].pc # "idle")
  /\ Early(j)' => Early(j)
  /\ \/ cluster'[j] = cluster[j] /\ (j \in dirty' <=> j \in dirty)
     \/ j \in dirty' /\ ~Early(j)'

LEMMA RowFramed ==
  ASSUME NEW j \in Jobs, RowInv(j), RowFrame(j)
  PROVE  RowInv(j)'
  BY DEF RowInv, RowFrame, InHand, Early

LEMMA RowsRemoved ==
  ASSUME FlowInv, NEW S \in SUBSET Jobs, ClusterRemove(S), UNCHANGED <<rec, rc, sub>>,
         \A j \in Jobs : \/ del'[j] = del[j]
                         \/ del'[j].pc \notin {"idle", "cluster"} /\ del[j].pc # "idle"
  PROVE  \A j \in Jobs : RowInv(j)'
<1>1. ASSUME NEW j \in Jobs PROVE RowFrame(j)
  <2>1. CASE j \in S /\ cluster[j] # "absent"
    BY <2>1 DEF ClusterRemove, RowFrame, FlowInv, RowInv, Early
  <2>2. CASE ~(j \in S /\ cluster[j] # "absent")
    BY <2>2 DEF ClusterRemove, RowFrame, Early
  <2> QED
    BY <2>1, <2>2
<1> QED
  BY <1>1, RowFramed DEF FlowInv

\* A job a watcher is about to commit is not removed: its row is still Prequeue
\* and its submission is over.
LEMMA CreatedKept ==
  ASSUME TypeOK, ClaimInv, FlowInv,
         NEW S \in SUBSET Jobs, \A j \in S : rec[j] # "Prequeue" \/ ~Queued(j),
         \/ ClusterRemove(S) \/ cluster' = cluster
         \/ \E j \in Jobs, p \in Phases : cluster' = [cluster EXCEPT ![j] = p],
         \A w \in Watchers : watcher'[w].pc \in {"expose", "commit"} =>
           watcher[w].pc \in {"expose", "commit"} /\ watcher'[w].cur = watcher[w].cur
  PROVE  \A w \in Watchers : watcher'[w].pc \in {"expose", "commit"} => cluster'[watcher'[w].cur] # "absent"
<1> SUFFICES ASSUME NEW w \in Watchers, watcher'[w].pc \in {"expose", "commit"}
             PROVE  cluster'[watcher'[w].cur] # "absent"
  OBVIOUS
<1> DEFINE c == watcher[w].cur
<1>1. /\ Activating(w) /\ c \in Jobs /\ watcher'[w].cur = c /\ cluster[c] # "absent"
  BY DEF TypeOK, FlowInv, Activating, InTransaction
<1>2. c \notin S
  BY <1>1 DEF ClaimInv
<1>3. "absent" \notin Phases
  BY DEF Phases
<1> QED
  BY <1>1, <1>2, <1>3 DEF ClusterRemove, TypeOK

\* The watchers stay out of a transaction or where they were in it.
WatchersKept ==
  \A w \in Watchers : watcher'[w].pc \in {"expose", "commit"} =>
    watcher[w].pc \in {"expose", "commit"} /\ watcher'[w].cur = watcher[w].cur

LEMMA FlowRemoved ==
  ASSUME TypeOK, ClaimInv, FlowInv, NEW S \in SUBSET Jobs, ClusterRemove(S),
         \A j \in S : rec[j] # "Prequeue" \/ ~Queued(j),
         UNCHANGED <<rec, rc, sub>>, WatchersKept,
         \A j \in Jobs : \/ del'[j] = del[j]
                         \/ del'[j].pc \notin {"idle", "cluster"} /\ del[j].pc # "idle"
  PROVE  FlowInv'
  BY RowsRemoved, CreatedKept DEF FlowInv, WatchersKept

LEMMA FlowFramed ==
  ASSUME TypeOK, ClaimInv, FlowInv, \A j \in Jobs : RowFrame(j), cluster' = cluster, rc' = rc, WatchersKept
  PROVE  FlowInv'
<1>1. \A w \in Watchers : watcher'[w].pc \in {"expose", "commit"} => cluster'[watcher'[w].cur] # "absent"
  BY DEF WatchersKept, FlowInv
<1> QED
  BY <1>1, RowFramed DEF FlowInv

LEMMA FlowClusterStep ==
  ASSUME TypeOK, ClaimInv, FlowInv, NEW j \in Jobs, Evolve(j) \/ Clean(j) \/ Timeout(j)
  PROVE  FlowInv'
<1>0. WatchersKept
  BY DEF Evolve, Clean, Timeout, loopVars, WatchersKept
<1>1. CASE Evolve(j)
  <2>1. \A k \in Jobs : RowFrame(k)
    BY <1>1 DEF TypeOK, Evolve, dbVars, RowFrame, Early, FlowInv, RowInv, NextPhase
  <2>2. NextPhase[cluster[j]] \in Phases
    BY <1>1 DEF Evolve, NextPhase, Phases
  <2>3. \A w \in Watchers : watcher'[w].pc \in {"expose", "commit"} => cluster'[watcher'[w].cur] # "absent"
    <3>1. \E p \in Phases : cluster' = [cluster EXCEPT ![j] = p]
      BY <1>1, <2>2 DEF Evolve
    <3> QED
      BY <1>0, <3>1, CreatedKept, {} \in SUBSET Jobs DEF WatchersKept
  <2> QED
    BY <1>1, <2>1, <2>3, RowFramed DEF Evolve, FlowInv
<1>2. CASE Clean(j)
  <2>1. ClusterRemove({j}) /\ rec[j] # "Prequeue" /\ {j} \in SUBSET Jobs
    BY <1>2 DEF Clean, Occupied
  <2> QED
    BY <1>0, <1>2, <2>1, FlowRemoved DEF Clean, dbVars
<1>3. CASE Timeout(j)
  <2>1. \A k \in Jobs : RowFrame(k)
    BY <1>3 DEF Timeout, clusterVars, RowFrame, Early
  <2> QED
    BY <1>0, <1>3, <2>1, FlowFramed DEF Timeout, clusterVars
<1> QED
  BY <1>1, <1>2, <1>3

LEMMA FlowSubmitStep ==
  ASSUME TypeOK, ClaimInv, FlowInv, NEW j \in Jobs, SubmitCheck(j) \/ SubmitStep(j)
  PROVE  FlowInv'
<1>0. WatchersKept
  BY DEF SubmitCheck, SubmitStep, SubmitQueue, SubmitNotify, SubmitCreate, SubmitExpose,
         SubmitVars, loopVars, WatchersKept
<1>1. CASE SubmitCheck(j) \/ SubmitNotify(j)
  <2>1. \A k \in Jobs : RowFrame(k)
    BY <1>1 DEF TypeOK, SubmitCheck, SubmitNotify, SubmitVars, dbVars, clusterVars, RowFrame, Early
  <2> QED
    BY <1>0, <1>1, <2>1, FlowFramed DEF SubmitCheck, SubmitNotify, SubmitVars, clusterVars
<1>2. CASE SubmitQueue(j)
  <2>1. \A k \in Jobs \ {j} : RowFrame(k)
    BY <1>2 DEF TypeOK, SubmitQueue, SubmitVars, clusterVars, RowFrame, Early
  <2>2. /\ sub[j] = "queue" /\ rec'[j] = "Prequeue" /\ sub'[j] = "queued"
        /\ UNCHANGED <<cluster, dirty, rc, del>>
    BY <1>2 DEF TypeOK, SubmitQueue, SubmitVars, clusterVars
  <2>3. cluster[j] = "absent" /\ ~InHand(j) /\ del[j].pc = "idle"
    BY <2>2 DEF FlowInv, RowInv, Early
  <2>4. RowInv(j)'
    BY <2>2, <2>3 DEF RowInv, InHand, Early, Occupied
  <2>5. \A w \in Watchers : watcher'[w].pc \in {"expose", "commit"} => cluster'[watcher'[w].cur] # "absent"
    BY <1>0, <2>2 DEF WatchersKept, FlowInv
  <2> QED
    BY <2>1, <2>2, <2>4, <2>5, RowFramed DEF FlowInv
<1>3. CASE SubmitCreate(j)
  <2>1. UNCHANGED <<rec, rc, del>> /\ sub[j] = "direct"
    BY <1>3 DEF SubmitCreate, SubmitVars, dbVars
  <2>2. CASE ClusterCreate(j) /\ sub' = [sub EXCEPT ![j] = "expose"]
    <3>1. \A k \in Jobs : RowFrame(k)
      BY <2>1, <2>2 DEF TypeOK, ClusterCreate, RowFrame, Early
    <3>2. \A w \in Watchers : watcher'[w].pc \in {"expose", "commit"} => cluster'[watcher'[w].cur] # "absent"
      <4>1. cluster' = [cluster EXCEPT ![j] = "new"] /\ "new" \in Phases
        BY <2>2 DEF ClusterCreate, Phases
      <4> QED
        BY <1>0, <4>1, CreatedKept, {} \in SUBSET Jobs DEF WatchersKept
    <3> QED
      BY <2>1, <3>1, <3>2, RowFramed DEF FlowInv
  <2>3. CASE UNCHANGED clusterVars /\ sub' = [sub EXCEPT ![j] = "failed"]
    <3>1. \A k \in Jobs : RowFrame(k)
      BY <2>1, <2>3 DEF TypeOK, clusterVars, RowFrame, Early
    <3> QED
      BY <1>0, <2>1, <2>3, <3>1, FlowFramed DEF clusterVars
  <2> QED
    BY <1>3, <2>2, <2>3 DEF SubmitCreate
<1>4. CASE SubmitExpose(j)
  <2>1. /\ UNCHANGED <<rec, rc, del>> /\ sub[j] = "expose"
        /\ \A k \in Jobs : Early(k)' <=> Early(k)
    BY <1>4 DEF TypeOK, SubmitExpose, SubmitVars, dbVars, Early
  <2>2. CASE UNCHANGED <<cluster, dirty>>
    <3>1. \A k \in Jobs : RowFrame(k)
      BY <2>1, <2>2 DEF RowFrame
    <3> QED
      BY <1>0, <2>1, <2>2, <3>1, FlowFramed
  <2>3. CASE ClusterRemove({j})
    <3>1. \A k \in Jobs : RowFrame(k)
      BY <2>1, <2>3 DEF ClusterRemove, RowFrame, Early, FlowInv, RowInv
    <3>2. ~Queued(j) /\ {j} \in SUBSET Jobs
      BY <2>1 DEF ClaimInv
    <3>3. \A w \in Watchers : watcher'[w].pc \in {"expose", "commit"} => cluster'[watcher'[w].cur] # "absent"
      BY <1>0, <2>3, <3>2, CreatedKept DEF WatchersKept
    <3> QED
      BY <2>1, <3>1, <3>3, RowFramed DEF FlowInv
  <2> QED
    BY <1>4, <2>2, <2>3 DEF SubmitExpose, clusterVars
<1> QED
  BY <1>1, <1>2, <1>3, <1>4 DEF SubmitStep

LEMMA FlowDeleteStep ==
  ASSUME TypeOK, ClaimInv, FlowInv, NEW j \in Jobs, DeleteRead(j) \/ DeleteStep(j)
  PROVE  FlowInv'
<1>0. WatchersKept /\ UNCHANGED <<sub, rc>> /\ \A k \in Jobs \ {j} : del'[k] = del[k] /\ rec'[k] = rec[k]
  BY DEF TypeOK, DeleteRead, DeleteStep, DeletePlan, DeleteApply, DeleteCluster, DeleteVars, loopVars, WatchersKept
<1>1. CASE DeleteRead(j) \/ DeletePlan(j)
  <2>1. UNCHANGED <<rec, cluster, dirty>>
    BY <1>1 DEF DeleteRead, DeletePlan, clusterVars
  <2>2. del'[j].pc \in {"plan", "apply"} /\ ~Early(j)
    <3>1. del[j] \in DeleteState
      BY DEF TypeOK
    <3>2. CASE DeleteRead(j)
      <4>1. \E queued : del' = [del EXCEPT ![j].pc = "plan", ![j].queued = queued]
        BY <3>2 DEF DeleteRead
      <4>2. rec[j] # "none"
        BY <3>2 DEF DeleteRead
      <4> QED
        BY <3>1, <4>1, <4>2 DEF TypeOK, DeleteState, FlowInv, RowInv
    <3>3. CASE DeletePlan(j)
      <4>1. \E dropJob, dropRow :
              del' = [del EXCEPT ![j].pc = "apply", ![j].dropJob = dropJob, ![j].dropRow = dropRow]
        BY <3>3 DEF DeletePlan
      <4>2. del[j].pc # "idle"
        BY <3>3 DEF DeletePlan
      <4> QED
        BY <3>1, <4>1, <4>2 DEF TypeOK, DeleteState, FlowInv, RowInv
    <3> QED
      BY <1>1, <3>2, <3>3
  <2>3. \A k \in Jobs \ {j} : RowInv(k)'
    BY <1>0, <2>1, RowFramed DEF RowFrame, Early, FlowInv
  <2>4. RowInv(j)'
    BY <1>0, <2>1, <2>2 DEF RowInv, InHand, Early, FlowInv
  <2>5. \A w \in Watchers : watcher'[w].pc \in {"expose", "commit"} => cluster'[watcher'[w].cur] # "absent"
    BY <1>0, <2>1 DEF WatchersKept, FlowInv
  <2> QED
    BY <1>0, <2>3, <2>4, <2>5 DEF FlowInv
<1>2. CASE DeleteApply(j)
  <2>1. UNCHANGED <<cluster, dirty>>
    BY <1>2 DEF DeleteApply, clusterVars
  <2>2. /\ del[j].pc = "apply" /\ del'[j].pc = "cluster" /\ rec'[j] \in {"none", "Deleted"}
    BY <1>2 DEF TypeOK, DeleteApply, DeleteState
  <2>3. \A k \in Jobs \ {j} : RowInv(k)'
    BY <1>0, <2>1, RowFramed DEF RowFrame, Early, FlowInv
  <2>4. RowInv(j)'
    BY <1>0, <2>1, <2>2 DEF RowInv, InHand, Early, FlowInv, Occupied
  <2>5. \A w \in Watchers : watcher'[w].pc \in {"expose", "commit"} => cluster'[watcher'[w].cur] # "absent"
    BY <1>0, <2>1 DEF WatchersKept, FlowInv
  <2> QED
    BY <1>0, <2>3, <2>4, <2>5 DEF FlowInv
<1>3. CASE DeleteCluster(j)
  <2>1. del'[j].pc \in {"failed", "done"} /\ del[j].pc = "cluster" /\ UNCHANGED rec
    BY <1>3 DEF TypeOK, DeleteCluster, NoDelete
  <2>2. rec[j] # "Prequeue"
    BY <2>1 DEF FlowInv, RowInv
  <2>3. \A k \in Jobs : \/ del'[k] = del[k]
                        \/ del'[k].pc \notin {"idle", "cluster"} /\ del[k].pc # "idle"
    BY <1>0, <2>1
  <2>4. CASE ClusterRemove({j})
    <3>1. {j} \in SUBSET Jobs
      OBVIOUS
    <3> QED
      BY <1>0, <2>1, <2>2, <2>3, <2>4, <3>1, FlowRemoved
  <2>5. CASE UNCHANGED clusterVars
    <3>1. \A k \in Jobs : RowFrame(k)
      BY <1>0, <2>1, <2>3, <2>5 DEF clusterVars, RowFrame, Early
    <3> QED
      BY <1>0, <2>5, <3>1, FlowFramed DEF clusterVars
  <2> QED
    BY <1>3, <2>4, <2>5 DEF DeleteCluster
<1> QED
  BY <1>1, <1>2, <1>3 DEF DeleteStep

LEMMA FlowReconcileStep ==
  ASSUME TypeOK, ClaimInv, FlowInv, Reconcile \/ ReconcileFail
  PROVE  FlowInv'
<1>0. WatchersKept /\ UNCHANGED <<sub, del, cluster>>
  BY DEF Reconcile, ReconcileGet, ReconcileRead, ReconcileWrite, ReconcileFail, ReconcileVars, loopVars, WatchersKept
<1>1. \A w \in Watchers : watcher'[w].pc \in {"expose", "commit"} => cluster'[watcher'[w].cur] # "absent"
  BY <1>0 DEF WatchersKept, FlowInv
<1>2. NoReconcile.pc = "idle" /\ NoReconcile.job = NoJob /\ NoJob \notin Jobs /\ rc \in ReconcileState
  BY ConfigAssumption DEF NoReconcile, TypeOK
<1>3. CASE ReconcileGet
  <2>1. PICK j \in dirty : /\ dirty' = dirty \ {j}
                          /\ rc' = [rc EXCEPT !.pc = "read", !.job = j, !.phase = cluster[j]]
    BY <1>3 DEF ReconcileGet
  <2>2. /\ rc.job = NoJob /\ rc'.pc = "read" /\ rc'.job = j /\ rc'.phase = cluster[j] /\ UNCHANGED rec
        /\ j \in Jobs /\ rc'.job # NoJob
    BY <1>2, <1>3, <2>1 DEF ReconcileGet, FlowInv, ReconcileState, TypeOK
  <2>3. ASSUME NEW k \in Jobs PROVE RowInv(k)'
    BY <1>0, <1>2, <2>1, <2>2 DEF FlowInv, RowInv, InHand, Early
  <2> QED
    BY <1>1, <2>2, <2>3 DEF FlowInv
<1>4. CASE ReconcileRead
  <2>1. /\ UNCHANGED <<dirty, rec>> /\ rc.pc = "read" /\ rc.job \in Jobs /\ rec[rc.job] \in Status
    BY <1>4 DEF ReconcileRead, TypeOK
  <2>2. CASE rc' = [rc EXCEPT !.pc = "write", !.old = rec[rc.job]]
    <3>1. rc'.pc = "write" /\ rc'.job = rc.job /\ rc'.phase = rc.phase /\ rc'.old = rec[rc.job]
      BY <1>2, <2>2 DEF ReconcileState
    <3>2. ASSUME NEW k \in Jobs PROVE RowInv(k)'
      BY <1>0, <2>1, <3>1 DEF FlowInv, RowInv, InHand, Early
    <3> QED
      BY <1>1, <1>2, <2>1, <3>1, <3>2 DEF FlowInv
  <2>3. CASE /\ rc' = NoReconcile /\ rc.phase = "absent"
             /\ rec[rc.job] \in {"none", "Prequeue"} \cup Ended
    <3>1. ASSUME NEW k \in Jobs, k # rc.job PROVE RowInv(k)'
      BY <1>0, <1>2, <2>1, <2>3, <3>1 DEF FlowInv, RowInv, InHand, Early
    <3>2. PICK j \in Jobs : j = rc.job
      BY <2>1
    <3>3. RowInv(j)'
      BY <1>0, <1>2, <2>1, <2>3, <3>2 DEF FlowInv, RowInv, InHand, Early, Ended, Occupied
    <3> QED
      BY <1>1, <1>2, <2>3, <3>1, <3>2, <3>3 DEF FlowInv
  <2> QED
    BY <1>4, <2>2, <2>3 DEF ReconcileRead
<1>5. CASE ReconcileWrite
  <2>0. PICK j \in Jobs : j = rc.job
    BY <1>5 DEF ReconcileWrite, TypeOK
  <2>1. /\ UNCHANGED dirty /\ rc.pc = "write" /\ rc.job = j /\ rc' = NoReconcile
        /\ rc.phase \in Phases \cup {"absent"} /\ rc.old \in Status /\ j # NoJob
    BY <1>2, <1>5, <2>0 DEF ReconcileWrite, TypeOK, ReconcileState
  <2>2. \A k \in Jobs : k # j => rec'[k] = rec[k]
    BY <1>5, <2>1 DEF ReconcileWrite, TypeOK
  <2>3. rec'[j] = IF rc.phase = "absent" THEN IF rec[j] = "none" THEN rec[j] ELSE "Freed"
                  ELSE IF rc.old = "none" THEN CreatedStatus(rc.phase)
                  ELSE IF rec[j] = "none" THEN rec[j] ELSE StatusOf(rc.phase, rc.old, rec[j])
    BY <1>5, <2>1 DEF ReconcileWrite, TypeOK
  <2>4. ASSUME NEW k \in Jobs, k # j PROVE RowInv(k)'
    BY <1>0, <1>2, <2>1, <2>2, <2>4 DEF FlowInv, RowInv, InHand, Early
  <2>5. ~Early(j) /\ del'[j] = del[j]
    BY <1>0, <2>1 DEF FlowInv, RowInv, InHand
  <2>6. del[j].pc = "cluster" => rec'[j] # "Prequeue"
    <3>1. rec'[j] = "Prequeue" => rec[j] = "Prequeue"
      BY <2>1, <2>3 DEF CreatedStatus, StatusOf, Phases
    <3> QED
      BY <2>1, <3>1 DEF FlowInv, RowInv
  <2>7. ASSUME j \in dirty PROVE RowInv(j)'
    BY <1>0, <1>2, <2>1, <2>5, <2>6, <2>7 DEF RowInv, InHand, Early
  <2>8. ASSUME j \notin dirty PROVE RowInv(j)'
    <3>1. rc.phase = cluster[j] /\ (rc.old # "none" /\ del[j].pc = "idle" => rec[j] # "none")
      BY <2>1, <2>8 DEF FlowInv, RowInv
    <3>2. cluster[j] \notin {"absent", "new"} /\ del[j].pc = "idle" => rec'[j] = cluster[j]
      BY <2>3, <3>1 DEF CreatedStatus, StatusOf
    <3>3. cluster[j] = "absent" => rec'[j] \notin Occupied \cup {"blank"}
      BY <2>3, <3>1 DEF Occupied
    <3> QED
      BY <1>0, <1>2, <2>1, <2>5, <2>6, <3>2, <3>3 DEF RowInv, InHand, Early
  <2> QED
    BY <1>1, <1>2, <2>1, <2>4, <2>7, <2>8 DEF FlowInv
<1>6. CASE ReconcileFail
  <2>1. /\ rc' = NoReconcile /\ dirty' = dirty \cup {rc.job} /\ UNCHANGED rec
        /\ rc.job \in Jobs
    BY <1>6 DEF ReconcileFail, dbVars, TypeOK
  <2>2. ASSUME NEW k \in Jobs PROVE RowInv(k)'
    BY <1>0, <1>2, <2>1 DEF FlowInv, RowInv, InHand, Early
  <2> QED
    BY <1>1, <1>2, <2>1, <2>2 DEF FlowInv
<1> QED
  BY <1>3, <1>4, <1>5, <1>6 DEF Reconcile

LEMMA FlowRestart == ASSUME TypeOK, FlowInv, Restart PROVE FlowInv'
<1>1. /\ UNCHANGED <<rec, cluster>> /\ rc' = NoReconcile /\ "restart" \in Faults
      /\ dirty' = {j \in Jobs : cluster[j] # "absent"}
  BY DEF Restart, dbVars, Fault
<1>2. NoReconcile.pc = "idle" /\ NoReconcile.job = NoJob /\ NoJob \notin Jobs
  BY ConfigAssumption DEF NoReconcile
<1>3. \A w \in Watchers : watcher'[w].pc = "wait"
  BY DEF Restart, NoWatch
<1>4. ASSUME NEW j \in Jobs
      PROVE  /\ Early(j)' => Early(j)
             /\ del'[j] = del[j] \/ (del[j].pc # "idle" /\ del'[j].pc = "failed")
  BY DEF TypeOK, Restart, Early, NoDelete
<1>5. ASSUME NEW j \in Jobs PROVE RowInv(j)'
  BY <1>1, <1>2, <1>4 DEF FlowInv, RowInv, InHand, Early
<1> QED
  BY <1>1, <1>2, <1>3, <1>5 DEF FlowInv

LEMMA FlowWatcherStep ==
  ASSUME TypeOK, ClaimInv, FlowInv, NEW w \in Watchers, WatcherStep(w) \/ WatcherReadFails(w)
  PROVE  FlowInv'
<1>0. watcher[w] \in WatcherState /\ UNCHANGED <<sub, del, rc>>
  BY DEF TypeOK, WatcherStep, WatcherSignal, WatcherWake, WatcherTick, WatcherPreempt, WatcherScan, WatcherSelect,
         WatcherClaim, WatcherCreate, WatcherExpose, WatcherCommit, WatcherReadFails, LoopOthers
<1>1. \A need \in BOOLEAN : EndRound(w, need) => WatchersKept
  BY DEF TypeOK, EndRound, NoWatch, WatchersKept
<1>2. CASE WatcherSignal(w) \/ WatcherWake(w) \/ WatcherTick(w) \/ WatcherScan(w) \/ WatcherSelect(w)
           \/ WatcherClaim(w) \/ WatcherReadFails(w)
  <2>1. UNCHANGED <<rec, cluster, dirty>>
    BY <1>2 DEF WatcherSignal, WatcherWake, WatcherTick, WatcherScan, WatcherSelect, WatcherClaim,
                WatcherReadFails, clusterVars
  <2>2. WatchersKept
    <3>1. CASE \E need \in BOOLEAN : EndRound(w, need)
      BY <1>1, <3>1
    <3>2. CASE \E need \in BOOLEAN : Begin(w, need)
      BY <1>0, <3>2 DEF TypeOK, Begin, WatcherState, WatchersKept
    <3>3. CASE WatcherScan(w) \/ WatcherSelect(w)
      <4>1. CASE EndRound(w, FALSE)
        BY <1>1, <4>1
      <4>2. CASE WatcherScan(w) /\ ~EndRound(w, FALSE)
        <5>1. \E page : watcher' = [watcher EXCEPT ![w].pc = "select", ![w].page = page]
          BY <4>2 DEF WatcherScan
        <5> QED
          BY <1>0, <5>1 DEF TypeOK, WatcherState, WatchersKept
      <4>3. CASE WatcherSelect(w) /\ watcher' = [watcher EXCEPT ![w].pc = "claim"]
        BY <1>0, <4>3 DEF TypeOK, WatcherState, WatchersKept
      <4>4. CASE WatcherSelect(w) /\ ~EndRound(w, FALSE) /\ watcher' # [watcher EXCEPT ![w].pc = "claim"]
        <5>1. PICK c \in watcher[w].page, fits \in BOOLEAN, full \in BOOLEAN :
                watcher' = [watcher EXCEPT
                  ![w].page  = IF fits /\ full THEN {} ELSE @ \ {c},
                  ![w].batch = IF fits /\ ~full THEN @ \cup {c} ELSE @,
                  ![w].more  = fits /\ full]
          BY <4>4 DEF WatcherSelect
        <5> QED
          BY <1>0, <5>1 DEF TypeOK, WatcherState, WatchersKept
      <4> QED
        BY <3>3, <4>1, <4>2, <4>3, <4>4
    <3>4. CASE WatcherClaim(w)
      <4>1. PICK c \in Jobs : \/ watcher' = [watcher EXCEPT ![w].pc = "create", ![w].cur = c]
                             \/ NextCandidate(w, c, TRUE)
        BY <1>0, <3>4 DEF WatcherClaim, WatcherState
      <4>2. CASE watcher' = [watcher EXCEPT ![w].pc = "create", ![w].cur = c]
        BY <1>0, <4>2 DEF TypeOK, WatcherState, WatchersKept
      <4>3. CASE NextCandidate(w, c, TRUE)
        BY <1>0, <4>3, NextCandidateType DEF WatchersKept, Activating, InTransaction, TypeOK
      <4> QED
        BY <4>1, <4>2, <4>3
    <3> QED
      BY <1>0, <1>2, <3>1, <3>2, <3>3, <3>4
         DEF WatcherSignal, WatcherWake, WatcherTick, WatcherReadFails, FailRound, WatcherState
  <2>3. \A k \in Jobs : RowFrame(k)
    BY <1>0, <2>1 DEF RowFrame, Early
  <2> QED
    BY <1>0, <2>1, <2>2, <2>3, FlowFramed
<1>3. CASE WatcherPreempt(w)
  <2>1. PICK V \in SUBSET {v \in Backfill : rec[v] = "Running" /\ TRUE} : ClusterRemove(V)
    BY <1>3 DEF WatcherPreempt
  <2>2. V \in SUBSET Jobs /\ \A v \in V : rec[v] # "Prequeue"
    BY <2>1, ConfigAssumption
  <2>3. WatchersKept /\ UNCHANGED rec
    BY <1>1, <1>3 DEF WatcherPreempt, FailRound
  <2> QED
    BY <1>0, <2>1, <2>2, <2>3, FlowRemoved
<1>4. CASE WatcherCreate(w) \/ WatcherExpose(w)
  <2> DEFINE c == watcher[w].cur
  <2>1. /\ c \in Jobs /\ Activating(w) /\ UNCHANGED rec /\ rec[c] = "Prequeue" /\ ~Early(c)
    BY <1>4 DEF WatcherCreate, WatcherExpose, TypeOK, Activating, InTransaction, ClaimInv, FlowInv, RowInv
  <2>2. CASE ClusterCreate(c) /\ watcher' = [watcher EXCEPT ![w].pc = "expose"]
    <3>1. \A k \in Jobs : RowFrame(k)
      BY <1>0, <2>1, <2>2 DEF TypeOK, ClusterCreate, RowFrame, Early
    <3>2. watcher'[w].cur = c /\ cluster'[c] = "new" /\ \A v \in Watchers \ {w} : watcher'[v] = watcher[v]
      BY <1>0, <2>1, <2>2 DEF TypeOK, ClusterCreate, WatcherState
    <3>3. \A k \in Jobs : cluster[k] # "absent" => cluster'[k] # "absent"
      BY <2>1, <2>2 DEF TypeOK, ClusterCreate
    <3>4. ASSUME NEW v \in Watchers, watcher'[v].pc \in {"expose", "commit"}
          PROVE  cluster'[watcher'[v].cur] # "absent"
      <4>1. CASE v = w
        BY <3>2, <4>1
      <4>2. CASE v # w
        <5>1. Activating(v) /\ watcher'[v] = watcher[v] /\ watcher[v].cur \in Jobs
          BY <3>2, <3>4, <4>2 DEF TypeOK, Activating, InTransaction
        <5> QED
          BY <3>3, <3>4, <5>1 DEF FlowInv
      <4> QED
        BY <4>1, <4>2
    <3> QED
      BY <1>0, <3>1, <3>4, RowFramed DEF FlowInv
  <2>3. CASE /\ UNCHANGED <<cluster, dirty>> /\ watcher' = [watcher EXCEPT ![w].pc = "commit"]
             /\ cluster[c] # "absent"
    <3>1. \A k \in Jobs : RowFrame(k)
      BY <1>0, <2>1, <2>3 DEF RowFrame, Early
    <3>2. watcher'[w].cur = c /\ \A v \in Watchers \ {w} : watcher'[v] = watcher[v]
      BY <1>0, <2>3 DEF TypeOK, WatcherState
    <3>3. \A v \in Watchers : watcher'[v].pc \in {"expose", "commit"} => cluster'[watcher'[v].cur] # "absent"
      BY <2>3, <3>2 DEF FlowInv
    <3> QED
      BY <1>0, <3>1, <3>3, RowFramed DEF FlowInv
  <2>4. CASE EndRound(w, TRUE) /\ UNCHANGED <<cluster, dirty>>
    <3>1. \A k \in Jobs : RowFrame(k)
      BY <1>0, <2>1, <2>4 DEF RowFrame, Early
    <3> QED
      BY <1>0, <1>1, <2>4, <3>1, FlowFramed
  <2>5. CASE EndRound(w, TRUE) /\ ClusterRemove({c})
    <3>1. \A k \in Jobs : RowFrame(k)
      BY <1>0, <2>1, <2>5 DEF ClusterRemove, RowFrame, Early
    <3>2. ASSUME NEW v \in Watchers, watcher'[v].pc \in {"expose", "commit"}
          PROVE  cluster'[watcher'[v].cur] # "absent"
      <4>1. v # w /\ Activating(v) /\ watcher'[v].cur = watcher[v].cur
            /\ watcher[v].pc \in {"expose", "commit"}
        BY <1>1, <2>5, <3>2, RoundEnds DEF Activating, InTransaction, WatchersKept
      <4>2. watcher[v].cur # c /\ watcher[v].cur \in Jobs
        BY <2>1, <4>1 DEF ClaimInv, TypeOK
      <4> QED
        BY <2>5, <4>1, <4>2 DEF ClusterRemove, FlowInv
    <3> QED
      BY <1>0, <3>1, <3>2, RowFramed DEF FlowInv
  <2>6. WatcherExpose(w) => cluster[c] # "absent"
    BY DEF WatcherExpose, FlowInv
  <2>7. CASE WatcherCreate(w)
    BY <2>2, <2>3, <2>4, <2>7 DEF WatcherCreate, FailRound, clusterVars
  <2>8. CASE WatcherExpose(w)
    BY <2>3, <2>4, <2>5, <2>6, <2>8 DEF WatcherExpose, FailRound, clusterVars
  <2> QED
    BY <1>4, <2>7, <2>8
<1>5. CASE WatcherCommit(w)
  <2>0. PICK c \in Jobs : c = watcher[w].cur
    BY <1>5 DEF WatcherCommit, TypeOK, Activating, InTransaction
  <2>1. /\ watcher[w].cur = c /\ Activating(w) /\ rec[c] = "Prequeue" /\ UNCHANGED <<cluster, dirty>>
        /\ cluster[c] # "absent"
    BY <1>5, <2>0 DEF WatcherCommit, TypeOK, Activating, InTransaction, ClaimInv, FlowInv, clusterVars
  <2>2. WatchersKept
    <3>1. NextCandidate(w, c, FALSE) \/ EndRound(w, TRUE)
      BY <1>5, <2>1 DEF WatcherCommit, FailRound
    <3>2. \A v \in Watchers : Activating(v)' => v # w /\ watcher[v]' = watcher[v]
      BY <2>1, <3>1, NextCandidateType, EndRoundType
    <3> QED
      BY <3>2 DEF WatchersKept, Activating, InTransaction
  <2>3. CASE UNCHANGED rec
    <3>1. \A k \in Jobs : RowFrame(k)
      BY <1>0, <2>1, <2>3 DEF RowFrame, Early
    <3> QED
      BY <1>0, <2>1, <2>2, <3>1, FlowFramed
  <2>4. CASE rec' = [rec EXCEPT ![c] = "Pending"]
    <3>1. ASSUME NEW k \in Jobs, k # c PROVE RowInv(k)'
      <4>1. RowFrame(k)
        BY <1>0, <2>1, <2>4, <3>1 DEF TypeOK, RowFrame, Early
      <4> QED
        BY <4>1, RowFramed DEF FlowInv
    <3>2. RowInv(c)'
      <4>1. rec'[c] = "Pending"
        BY <2>1, <2>4 DEF TypeOK
      <4>2. RowInv(c) /\ ~Early(c)
        BY <2>1 DEF FlowInv, RowInv
      <4>3. InHand(c) \/ cluster[c] = "new" \/ del[c].pc # "idle"
        BY <2>1, <4>2 DEF RowInv, TypeOK, Phases
      <4> QED
        BY <1>0, <2>1, <4>1, <4>2, <4>3 DEF RowInv, InHand, Early
    <3> QED
      BY <1>0, <2>1, <2>2, <3>1, <3>2 DEF FlowInv, WatchersKept
  <2> QED
    BY <1>5, <2>1, <2>3, <2>4 DEF WatcherCommit
<1> QED
  BY <1>2, <1>3, <1>4, <1>5 DEF WatcherStep

\* What the rows say of the cluster, the inductive invariant.
THEOREM RowsSound == Spec => []FlowInv
<1>1. Init => FlowInv
  BY ConfigAssumption
     DEF Init, FlowInv, RowInv, Early, InHand, NoDelete, NoReconcile, NoWatch, Occupied
<1>2. TypeOK /\ ClaimInv /\ FlowInv /\ [Next]_vars => FlowInv'
  <2> SUFFICES ASSUME TypeOK, ClaimInv, FlowInv, [Next]_vars PROVE FlowInv'
    OBVIOUS
  <2>1. CASE UNCHANGED vars
    <3>1. (\A j \in Jobs : RowFrame(j)) /\ WatchersKept /\ UNCHANGED <<cluster, rc>>
      BY <2>1 DEF vars, dbVars, clusterVars, loopVars, RowFrame, Early, WatchersKept
    <3> QED
      BY <3>1, FlowFramed
  <2>2. CASE Next
    BY <2>2, FlowSubmitStep, FlowDeleteStep, FlowClusterStep, FlowReconcileStep, FlowWatcherStep, FlowRestart
       DEF Next
  <2> QED
    BY <2>1, <2>2
<1> QED
  BY <1>1, <1>2, TypeCorrect, ClaimsSound, PTL DEF Spec

\* Whatever fails and whenever the process restarts, a row that nothing works on
\* says what its job does in the cluster.
THEOREM RowsFollow == Spec => []RowFollowsCluster
<1>1. FlowInv => RowFollowsCluster
  BY DEF FlowInv, RowInv, InHand, RowFollowsCluster, Quiet
<1> QED
  BY <1>1, RowsSound, PTL

\* Unless the process restarts, no row of a job that is gone counts as usage once
\* the reconciler has dealt with it.
THEOREM NoPhantoms == ASSUME "restart" \notin Faults PROVE Spec => []NoPhantomUsage
<1>1. FlowInv => NoPhantomUsage
  BY DEF FlowInv, RowInv, InHand, NoPhantomUsage, Quiet
<1> QED
  BY <1>1, RowsSound, PTL

-----------------------------------------------------------------------------
(* What the watcher activated can be reached.                              *)

Exposing(j) == \E w \in Watchers : watcher[w].pc = "expose" /\ watcher[w].cur = j

\* A job that was queued and is in the cluster has its ingresses, or a watcher is
\* about to create them.
ReachInv == \A j \in Jobs : Queued(j) /\ cluster[j] # "absent" => j \in exposed \/ Exposing(j)

\* A step that takes no ingress away, creates no job and ends no exposing.
LEMMA ReachKept ==
  ASSUME ReachInv, UNCHANGED order,
         \A j \in Jobs : Queued(j) /\ cluster'[j] # "absent" =>
           cluster[j] # "absent" /\ (j \in exposed => j \in exposed') /\ (Exposing(j) => Exposing(j)')
  PROVE  ReachInv'
  BY DEF ReachInv, Queued

LEMMA ReachRemoved ==
  ASSUME TypeOK, ReachInv, NEW S \in SUBSET Jobs, ClusterRemove(S), UNCHANGED order,
         \A j \in Jobs : j \in S \/ (Exposing(j) => Exposing(j)')
  PROVE  ReachInv'
  BY ReachKept DEF ClusterRemove

LEMMA ReachQuietStep ==
  ASSUME TypeOK, ClaimInv, FlowInv, ReachInv, NEW j \in Jobs,
         \/ SubmitCheck(j) \/ SubmitStep(j) \/ DeleteRead(j) \/ DeleteStep(j)
         \/ Evolve(j) \/ Clean(j) \/ Timeout(j),
         "cleanup" \notin Faults
  PROVE  ReachInv'
<1>0. UNCHANGED watcher
  BY DEF SubmitCheck, SubmitStep, SubmitQueue, SubmitNotify, SubmitCreate, SubmitExpose, SubmitVars,
         DeleteRead, DeleteStep, DeletePlan, DeleteApply, DeleteCluster, DeleteVars,
         Evolve, Clean, Timeout, loopVars
<1>1. \A k \in Jobs : Exposing(k) => Exposing(k)'
  BY <1>0 DEF Exposing
<1>2. {j} \in SUBSET Jobs
  OBVIOUS
<1>3. CASE ClusterRemove({j}) /\ UNCHANGED order
  BY <1>1, <1>2, <1>3, ReachRemoved
<1>4. CASE UNCHANGED <<cluster, exposed, order>>
  BY <1>1, <1>4, ReachKept
<1>5. CASE SubmitQueue(j)
  <2>1. UNCHANGED <<cluster, exposed>> /\ order' = Append(order, j) /\ sub[j] = "queue"
    BY <1>5 DEF SubmitQueue, clusterVars
  <2>2. \A k \in Jobs : Queued(k)' <=> Queued(k) \/ k = j
    BY <2>1, QueuedByAppend DEF TypeOK
  <2>3. cluster[j] = "absent"
    BY <2>1 DEF FlowInv, RowInv, Early
  <2> QED
    BY <1>1, <2>1, <2>2, <2>3 DEF ReachInv
<1>6. CASE SubmitCreate(j) /\ ClusterCreate(j)
  <2>1. UNCHANGED order /\ sub[j] = "direct"
    BY <1>6 DEF SubmitCreate, dbVars
  <2>2. ~Queued(j)
    BY <2>1 DEF ClaimInv
  <2> QED
    BY <1>1, <1>6, <2>1, <2>2, ReachKept DEF ClusterCreate, TypeOK
<1>7. CASE SubmitExpose(j) /\ UNCHANGED cluster /\ (exposed' = exposed \/ exposed' = exposed \cup {j})
  BY <1>1, <1>7, ReachKept DEF SubmitExpose, dbVars
<1>8. CASE Evolve(j)
  BY <1>1, <1>8, ReachKept DEF Evolve, dbVars, TypeOK, NextPhase
<1> QED
  <2>1. CASE SubmitCreate(j) \/ SubmitExpose(j)
    BY <1>3, <1>4, <1>6, <1>7, <2>1 DEF SubmitCreate, SubmitExpose, clusterVars, dbVars
  <2>2. CASE SubmitCheck(j) \/ SubmitNotify(j) \/ Timeout(j) \/ DeleteRead(j) \/ DeletePlan(j) \/ DeleteApply(j)
    BY <1>4, <2>2 DEF SubmitCheck, SubmitNotify, Timeout, DeleteRead, DeletePlan, DeleteApply,
                      clusterVars, dbVars, DeleteVars
  <2>3. CASE DeleteCluster(j) \/ Clean(j)
    BY <1>3, <1>4, <2>3 DEF DeleteCluster, Clean, clusterVars, dbVars, DeleteVars
  <2> QED
    BY <1>5, <1>8, <2>1, <2>2, <2>3 DEF SubmitStep, DeleteStep

LEMMA ReachWatcherStep ==
  ASSUME TypeOK, ClaimInv, ReachInv, NEW w \in Watchers, WatcherStep(w) \/ WatcherReadFails(w),
         "cleanup" \notin Faults
  PROVE  ReachInv'
<1>0. watcher[w] \in WatcherState /\ UNCHANGED order
  BY DEF TypeOK, WatcherStep, WatcherSignal, WatcherWake, WatcherTick, WatcherPreempt, WatcherScan, WatcherSelect,
         WatcherClaim, WatcherCreate, WatcherExpose, WatcherCommit, WatcherReadFails, LoopOthers
<1>1. \A v \in Watchers \ {w} : watcher'[v] = watcher[v]
  BY DEF TypeOK, WatcherStep, WatcherSignal, WatcherWake, WatcherTick, WatcherPreempt, WatcherScan, WatcherSelect,
         WatcherClaim, WatcherCreate, WatcherExpose, WatcherCommit, WatcherReadFails, NextCandidate, EndRound,
         FailRound, Begin
<1>2. \A k \in Jobs : Exposing(k) => Exposing(k)' \/ (watcher[w].pc = "expose" /\ watcher[w].cur = k)
  BY <1>1 DEF Exposing
<1>3. CASE watcher[w].pc # "expose" /\ UNCHANGED <<cluster, exposed>>
  BY <1>0, <1>2, <1>3, ReachKept
<1>4. CASE WatcherPreempt(w)
  <2>1. PICK V \in SUBSET Jobs : ClusterRemove(V)
    BY <1>4, ConfigAssumption DEF WatcherPreempt
  <2>2. watcher[w].pc # "expose"
    BY <1>4 DEF WatcherPreempt
  <2> QED
    BY <1>0, <1>2, <2>1, <2>2, ReachRemoved
<1>5. CASE WatcherCreate(w)
  <2>1. PICK c \in Jobs : c = watcher[w].cur
    BY <1>5 DEF WatcherCreate, TypeOK, Activating, InTransaction
  <2>2. watcher[w].pc = "create"
    BY <1>5 DEF WatcherCreate
  <2>3. CASE ClusterCreate(c) /\ watcher' = [watcher EXCEPT ![w].pc = "expose"]
    <3>1. watcher'[w].pc = "expose" /\ watcher'[w].cur = c
      BY <1>0, <2>1, <2>3 DEF TypeOK, WatcherState
    <3>2. Exposing(c)'
      BY <3>1 DEF Exposing
    <3>3. \A k \in Jobs \ {c} : cluster'[k] = cluster[k]
      BY <2>3 DEF TypeOK, ClusterCreate
    <3>4. \A k \in Jobs : (Queued(k)' <=> Queued(k)) /\ (Exposing(k) => Exposing(k)')
      BY <1>0, <1>2, <2>2 DEF Queued
    <3> QED
      BY <2>3, <3>2, <3>3, <3>4 DEF ReachInv, ClusterCreate
  <2> QED
    BY <1>3, <1>5, <2>1, <2>2, <2>3 DEF WatcherCreate, clusterVars
<1>6. CASE WatcherExpose(w)
  <2>1. PICK c \in Jobs : c = watcher[w].cur
    BY <1>6 DEF WatcherExpose, TypeOK, Activating, InTransaction
  <2>2. CASE UNCHANGED cluster /\ exposed' = IF cluster[c] = "absent" THEN exposed ELSE exposed \cup {c}
    <3>1. \A k \in Jobs : (Queued(k)' <=> Queued(k)) /\ (Exposing(k) => Exposing(k)' \/ k = c)
      BY <1>0, <1>2, <2>1 DEF Queued
    <3> QED
      BY <2>2, <3>1 DEF ReachInv
  <2>3. CASE ClusterRemove({c})
    <3>1. \A k \in Jobs : k \in {c} \/ (Exposing(k) => Exposing(k)')
      BY <1>2, <2>1
    <3> QED
      BY <1>0, <2>3, <3>1, ReachRemoved, {c} \in SUBSET Jobs
  <2> QED
    BY <1>6, <2>1, <2>2, <2>3 DEF WatcherExpose
<1> QED
  <2>1. CASE \/ WatcherSignal(w) \/ WatcherWake(w) \/ WatcherTick(w) \/ WatcherScan(w) \/ WatcherSelect(w)
             \/ WatcherClaim(w) \/ WatcherReadFails(w) \/ WatcherCommit(w)
    BY <1>3, <2>1 DEF WatcherSignal, WatcherWake, WatcherTick, WatcherScan, WatcherSelect, WatcherClaim,
                      WatcherReadFails, WatcherCommit, clusterVars
  <2> QED
    BY <1>4, <1>5, <1>6, <2>1 DEF WatcherStep

LEMMA ReachStep ==
  ASSUME TypeOK, ClaimInv, FlowInv, ReachInv, [Next]_vars, {"restart", "cleanup"} \cap Faults = {}
  PROVE  ReachInv'
<1>0. "cleanup" \notin Faults /\ ~Restart
  BY DEF Restart, Fault
<1>1. CASE UNCHANGED vars \/ Reconcile \/ ReconcileFail
  <2>1. UNCHANGED <<order, cluster, exposed, watcher>>
    BY <1>1 DEF vars, dbVars, clusterVars, loopVars, Reconcile, ReconcileGet, ReconcileRead, ReconcileWrite,
                ReconcileFail, ReconcileVars
  <2> QED
    BY <2>1, ReachKept DEF Exposing
<1> QED
  BY <1>0, <1>1, ReachQuietStep, ReachWatcherStep DEF Next

\* Where a failed clean-up and a restart cannot leave a half-created job behind, a
\* job that was activated from the queue and is in the cluster has its ingresses.
THEOREM Reachable ==
  ASSUME {"restart", "cleanup"} \cap Faults = {}
  PROVE  Spec => []ActivatedIsExposed
<1>1. Init => ReachInv
  BY DEF Init, ReachInv
<1>2. TypeOK /\ ClaimInv /\ FlowInv /\ ReachInv /\ [Next]_vars => ReachInv'
  BY ReachStep
<1>3. TypeOK /\ ClaimInv /\ ReachInv => ActivatedIsExposed
  <2> SUFFICES ASSUME TypeOK, ClaimInv, ReachInv, NEW j \in Jobs, claims[j] > 0, cluster[j] # "absent"
               PROVE  j \in exposed
    BY DEF ActivatedIsExposed
  <2>1. claims[j] # 0 /\ rec[j] # "Prequeue" /\ Queued(j)
    BY DEF ClaimInv, TypeOK
  <2>2. ~Exposing(j)
    BY <2>1 DEF Exposing, ClaimInv, Activating, InTransaction
  <2> QED
    BY <2>1, <2>2 DEF ReachInv
<1> QED
  BY <1>1, <1>2, <1>3, TypeCorrect, ClaimsSound, RowsSound, PTL DEF Spec

-----------------------------------------------------------------------------
(* What comes through the queue fits the quota.                            *)

\* What the argument needs.  A second watcher selects on the same usage; a delete
\* writes a row that counts and that the reconciler then revives; and a clean-up after a failed
\* exposure lets the reconciler free the row of the activation that follows.
Undisturbed == (\A v, w \in Watchers : v = w) /\ Deletable \subseteq Backfill /\ "expose" \notin Faults

\* The quotas are numbers and the jobs finitely many, so that there are sums.
QuotaAssumption == IsFiniteSet(Jobs) /\ \A j \in Jobs : Limit[Owner[j]] \in Nat

\* Why a row that left the quota stays out of it: its job is over in the cluster
\* and everywhere the reconciler may still write it from, and what the reconciler
\* holds as gone or over is gone or over.
Settled(j) ==
  /\ claims[j] > 0 /\ rec[j] \notin Occupied =>
       cluster[j] \in {"absent", "Completed"} /\ (rc.job = j => rc.phase \in {"absent", "Completed"})
  /\ rc.job = j /\ rc.phase = "absent" => cluster[j] = "absent"
  /\ rc.job = j /\ rc.phase = "Completed" => cluster[j] \in {"absent", "Completed"}
  /\ InHand(j) /\ cluster[j] = "absent" => rec[j] # "Prequeue"
  /\ rc.job = j /\ rc.pc = "write" /\ rc.old = "none" => ~Queued(j)
  /\ Queued(j) => rec[j] # "none"
  /\ del[j].pc = "idle"

\* The rows of an owner that were activated and occupy quota, and the candidates a
\* round has selected for it: together they fit.
Spenders(o)  == {j \in Normal : Owner[j] = o /\ claims[j] > 0 /\ rec[j] \in Occupied}
Chosen(w, o) == {j \in watcher[w].batch \cap Normal : Owner[j] = o}
Owners       == {Owner[j] : j \in Jobs}

RoundsFit ==
  /\ \A w \in Watchers : Activating(w) => watcher[w].cur \in watcher[w].batch
  /\ QueueQuotaEnabled => \A o \in Owners :
       /\ RequestOf(Spenders(o)) <= Limit[o]
       /\ \A w \in Watchers : RequestOf(Spenders(o)) + RequestOf(Chosen(w, o)) <= Limit[o]

QuotaInv == (\A j \in Normal : Settled(j)) /\ RoundsFit

LEMMA RequestSum == ASSUME NEW S PROVE RequestOf(S) = Total(Need, S)
  BY DEF RequestOf, Total

LEMMA RequestIsNat ==
  ASSUME QuotaAssumption, NEW S \in SUBSET Jobs
  PROVE  RequestOf(S) \in Nat
<1>1. IsFiniteSet(S) /\ \A x \in S : Need[x] \in Nat
  BY FS_Subset, ConfigAssumption DEF QuotaAssumption
<1>2. Total(Need, S) \in Int
  BY <1>1, TotalIsInt
<1>3. Total(Need, {}) <= Total(Need, S)
  BY <1>1, TotalGrows
<1> QED
  BY <1>2, <1>3, EmptyTotal, RequestSum

LEMMA RequestGrows ==
  ASSUME QuotaAssumption, NEW S \in SUBSET Jobs, NEW T \in SUBSET S
  PROVE  RequestOf(T) <= RequestOf(S)
<1>1. IsFiniteSet(S) /\ \A x \in S : Need[x] \in Nat
  BY FS_Subset, ConfigAssumption DEF QuotaAssumption
<1> QED
  BY <1>1, TotalGrows, RequestSum

LEMMA RequestWith ==
  ASSUME QuotaAssumption, NEW S \in SUBSET Jobs, NEW j \in Jobs \ S
  PROVE  RequestOf(S \cup {j}) = RequestOf(S) + Need[j]
<1>1. IsFiniteSet(S) /\ \A x \in S \cup {j} : Need[x] \in Int
  BY FS_Subset, ConfigAssumption DEF QuotaAssumption
<1>2. Total(Need, S \cup {j}) = Total(Need, S) + Need[j]
  BY <1>1, TotalWith
<1> QED
  BY <1>2, RequestSum

LEMMA RequestOfNone == RequestOf({}) = 0
  BY EmptyTotal, RequestSum

\* A step that writes no row in use and touches a job in the cluster only to
\* run it, to remove it, or to create it outside the reconciler's hands.
SettledFrame(j) ==
  /\ claims'[j] = claims[j] /\ rec'[j] = rec[j] /\ (Queued(j)' <=> Queued(j))
  /\ del[j].pc = "idle" => del'[j].pc = "idle"
  /\ rc' = rc \/ rc'.job # j
  /\ \/ cluster'[j] = cluster[j] /\ (InHand(j)' => InHand(j) \/ cluster[j] # "absent")
     \/ cluster[j] \notin {"absent", "Completed"} /\ cluster'[j] # "absent"
     \/ cluster'[j] = "absent" /\ rec[j] # "Prequeue"
     \/ cluster'[j] # "absent" /\ claims[j] = 0 /\ ~InHand(j)

LEMMA SettledFramed ==
  ASSUME NEW j \in Normal, claims[j] \in Nat, Settled(j), SettledFrame(j)
  PROVE  Settled(j)'
  BY DEF Settled, SettledFrame, InHand

\* No step but a commit adds to what is spent.
NothingSpent ==
  /\ UNCHANGED <<claims, QueueQuotaEnabled>>
  /\ \A j \in Normal : claims[j] > 0 /\ rec'[j] \in Occupied => rec[j] \in Occupied

LEMMA SettledQuietStep ==
  ASSUME TypeOK, ClaimInv, FlowInv, \A j \in Normal : Settled(j), Undisturbed, NEW j \in Jobs,
         \/ SubmitCheck(j) \/ SubmitStep(j) \/ DeleteRead(j) \/ DeleteStep(j)
         \/ Evolve(j) \/ Clean(j) \/ Timeout(j)
  PROVE  NothingSpent /\ UNCHANGED watcher /\ \A k \in Normal : Settled(k)'
<1>0. \A k \in Normal : k \in Jobs /\ claims[k] \in Nat
  BY DEF TypeOK, Normal
<1>1. CASE DeleteRead(j) \/ DeleteStep(j)
  <2>1. j \notin Normal
    BY <1>1 DEF DeleteRead, DeleteStep, DeletePlan, DeleteApply, DeleteCluster, Undisturbed, Normal, Settled
  <2>2. UNCHANGED <<watcher, claims, QueueQuotaEnabled, rc, order>>
    BY <1>1 DEF DeleteRead, DeleteStep, DeletePlan, DeleteApply, DeleteCluster, DeleteVars, loopVars
  <2>3. \A k \in Jobs \ {j} : rec'[k] = rec[k] /\ del'[k] = del[k]
    BY <1>1 DEF DeleteRead, DeleteStep, DeletePlan, DeleteApply, DeleteCluster, TypeOK
  <2>4. \A k \in Jobs \ {j} : cluster'[k] = cluster[k] /\ (k \in dirty' <=> k \in dirty)
    BY <1>1 DEF DeleteRead, DeleteStep, DeletePlan, DeleteApply, DeleteCluster, ClusterRemove, clusterVars, TypeOK
  <2>5. \A k \in Normal : SettledFrame(k)
    BY <1>0, <2>1, <2>2, <2>3, <2>4 DEF SettledFrame, InHand, Queued
  <2> QED
    BY <1>0, <2>1, <2>2, <2>3, <2>5, SettledFramed DEF NothingSpent
<1>2. CASE SubmitQueue(j)
  <2>0. UNCHANGED <<watcher, claims, QueueQuotaEnabled, rc, del>>
    BY <1>2 DEF SubmitQueue, SubmitVars, loopVars
  <2>1. UNCHANGED <<cluster, dirty>> /\ order' = Append(order, j) /\ sub[j] = "queue"
        /\ rec' = [rec EXCEPT ![j] = "Prequeue"]
    BY <1>2 DEF SubmitQueue, clusterVars
  <2>2. \A k \in Jobs : Queued(k)' <=> Queued(k) \/ k = j
    BY <2>1, QueuedByAppend DEF TypeOK
  <2>3. ~InHand(j) /\ claims[j] = 0
    BY <2>1 DEF FlowInv, RowInv, Early, ClaimInv
  <2>4. rec'[j] = "Prequeue" /\ \A k \in Jobs \ {j} : rec'[k] = rec[k]
    BY <2>1 DEF TypeOK
  <2>5. j \in Normal => Settled(j)'
    BY <2>0, <2>1, <2>3, <2>4 DEF Settled, InHand
  <2>6. ASSUME NEW k \in Normal \ {j} PROVE Settled(k)'
    <3>1. SettledFrame(k)
      BY <1>0, <2>0, <2>1, <2>2, <2>4 DEF SettledFrame, InHand
    <3> QED
      BY <1>0, <3>1, SettledFramed
  <2> QED
    BY <1>0, <2>0, <2>4, <2>5, <2>6 DEF NothingSpent, Occupied
<1>3. CASE ~DeleteRead(j) /\ ~DeleteStep(j) /\ ~SubmitQueue(j)
  <2>0. UNCHANGED <<watcher, claims, QueueQuotaEnabled, rc, del>>
    BY <1>3 DEF SubmitCheck, SubmitStep, SubmitNotify, SubmitCreate, SubmitExpose, SubmitVars,
                Evolve, Clean, Timeout, dbVars, loopVars
  <2>1. UNCHANGED <<rec, order>>
    BY <1>3 DEF SubmitCheck, SubmitStep, SubmitNotify, SubmitCreate, SubmitExpose, Evolve, Clean, Timeout, dbVars
  <2>2. ASSUME NEW k \in Normal PROVE SettledFrame(k)
    <3>1. CASE UNCHANGED <<cluster, dirty>>
      BY <1>0, <2>0, <2>1, <3>1 DEF SettledFrame, InHand, Queued
    <3>2. CASE SubmitCreate(j) /\ ClusterCreate(j)
      <4>1. ~InHand(j) /\ claims[j] = 0
        BY <3>2 DEF SubmitCreate, FlowInv, RowInv, Early, ClaimInv
      <4> QED
        BY <1>0, <2>0, <2>1, <3>2, <4>1 DEF ClusterCreate, TypeOK, SettledFrame, InHand, Queued
    <3>3. CASE Clean(j)
      BY <1>0, <2>0, <2>1, <3>3 DEF Clean, ClusterRemove, TypeOK, SettledFrame, InHand, Queued, Occupied
    <3>4. CASE Evolve(j)
      BY <1>0, <2>0, <2>1, <3>4 DEF Evolve, NextPhase, TypeOK, SettledFrame, InHand, Queued
    <3> QED
      BY <1>3, <3>1, <3>2, <3>3, <3>4
         DEF SubmitCheck, SubmitStep, SubmitNotify, SubmitCreate, SubmitExpose, Timeout, clusterVars, Undisturbed, Fault
  <2> QED
    BY <1>0, <2>0, <2>1, <2>2, SettledFramed DEF NothingSpent
<1> QED
  BY <1>1, <1>2, <1>3

LEMMA SettledReconcileStep ==
  ASSUME TypeOK, ClaimInv, FlowInv, \A j \in Normal : Settled(j), Reconcile \/ ReconcileFail
  PROVE  NothingSpent /\ UNCHANGED watcher /\ \A k \in Normal : Settled(k)'
<1>0. /\ \A k \in Normal : claims[k] \in Nat /\ k \in Jobs
      /\ rc \in ReconcileState /\ NoReconcile.job \notin Jobs
      /\ UNCHANGED <<watcher, claims, QueueQuotaEnabled, order, del, cluster>>
  BY ConfigAssumption
     DEF TypeOK, Normal, NoReconcile, Reconcile, ReconcileGet, ReconcileRead, ReconcileWrite, ReconcileFail, ReconcileVars,
         dbVars, loopVars
<1>1. \A k \in Jobs : Queued(k)' <=> Queued(k)
  BY <1>0 DEF Queued
<1>2. CASE ReconcileGet
  <2>1. PICK j \in dirty : /\ dirty' = dirty \ {j}
                          /\ rc' = [rc EXCEPT !.pc = "read", !.job = j, !.phase = cluster[j]]
    BY <1>2 DEF ReconcileGet
  <2>2. rc'.pc = "read" /\ rc'.job = j /\ rc'.phase = cluster[j] /\ UNCHANGED rec /\ j \in Jobs
    BY <1>0, <1>2, <2>1 DEF ReconcileGet, ReconcileState, TypeOK
  <2>3. j \in Normal => Settled(j)'
    BY <1>0, <1>1, <2>1, <2>2 DEF Settled, InHand
  <2>4. \A k \in Normal \ {j} : SettledFrame(k)
    BY <1>0, <1>1, <2>1, <2>2 DEF SettledFrame, InHand
  <2> QED
    BY <1>0, <2>2, <2>3, <2>4, SettledFramed DEF NothingSpent
<1>3. CASE ReconcileRead
  <2>1. PICK j \in Jobs : j = rc.job
    BY <1>3 DEF ReconcileRead, TypeOK
  <2>2. UNCHANGED <<dirty, rec>>
    BY <1>3 DEF ReconcileRead
  <2>3. CASE rc' = NoReconcile
    <3>1. \A k \in Normal : SettledFrame(k)
      BY <1>0, <1>1, <2>2, <2>3 DEF SettledFrame, InHand
    <3> QED
      BY <1>0, <2>2, <3>1, SettledFramed DEF NothingSpent
  <2>4. CASE rc' = [rc EXCEPT !.pc = "write", !.old = rec[j]]
    <3>1. rc'.pc = "write" /\ rc'.job = j /\ rc'.phase = rc.phase /\ rc'.old = rec[j]
      BY <1>0, <2>1, <2>4 DEF ReconcileState
    <3>2. j \in Normal => Settled(j)'
      BY <1>0, <1>1, <2>1, <2>2, <3>1 DEF Settled, InHand
    <3>3. \A k \in Normal \ {j} : SettledFrame(k)
      BY <1>0, <1>1, <2>2, <3>1 DEF SettledFrame, InHand
    <3> QED
      BY <1>0, <2>2, <3>2, <3>3, SettledFramed DEF NothingSpent
  <2> QED
    BY <1>3, <2>1, <2>3, <2>4 DEF ReconcileRead
<1>4. CASE ReconcileWrite
  <2>1. PICK j \in Jobs : j = rc.job
    BY <1>4 DEF ReconcileWrite, TypeOK
  <2>2. /\ UNCHANGED dirty /\ rc' = NoReconcile /\ rc.pc = "write"
        /\ \A k \in Jobs \ {j} : rec'[k] = rec[k]
    BY <1>4, <2>1 DEF ReconcileWrite, TypeOK
  <2>3. rec'[j] = IF rc.phase = "absent" THEN IF rec[j] = "none" THEN rec[j] ELSE "Freed"
                  ELSE IF rc.old = "none" THEN CreatedStatus(rc.phase)
                  ELSE IF rec[j] = "none" THEN rec[j] ELSE StatusOf(rc.phase, rc.old, rec[j])
    BY <1>4, <2>1 DEF ReconcileWrite, TypeOK
  <2>4. rc.phase \in Phases \cup {"absent"}
    BY <1>0 DEF ReconcileState
  <2>5. \A k \in Normal \ {j} : SettledFrame(k)
    BY <1>0, <1>1, <2>2 DEF SettledFrame, InHand
  <2>6. /\ rec'[j] = "Prequeue" => rec[j] = "Prequeue"
        /\ rec'[j] = "none" => rec[j] = "none"
    BY <2>3, <2>4 DEF CreatedStatus, StatusOf, Phases
  <2>7. j \in Normal /\ claims[j] > 0 => Queued(j) /\ rec[j] # "none" /\ rc.old # "none"
    BY <1>0, <2>1, <2>2 DEF ClaimInv, Settled
  <2>8. ASSUME j \in Normal, claims[j] > 0 PROVE rec[j] \in Occupied \/ rec'[j] \notin Occupied
    <3>1. CASE rec[j] \notin Occupied
      <4>1. rc.phase \in {"absent", "Completed"}
        BY <2>1, <2>8, <3>1 DEF Settled
      <4> QED
        BY <2>3, <2>7, <2>8, <4>1 DEF StatusOf, Occupied
    <3> QED
      BY <3>1
  <2>9. ASSUME j \in Normal, claims[j] > 0, rec'[j] \notin Occupied PROVE cluster[j] \in {"absent", "Completed"}
    <3>0. Settled(j)
      BY <2>9
    <3>1. CASE rec[j] \notin Occupied
      BY <2>9, <3>0, <3>1 DEF Settled
    <3>2. CASE rec[j] \in Occupied
      <4>1. rc.phase \in {"absent", "Completed"}
        BY <2>3, <2>4, <2>7, <2>9, <3>2 DEF StatusOf, Occupied, Phases
      <4> QED
        BY <2>1, <3>0, <4>1 DEF Settled
    <3> QED
      BY <3>1, <3>2
  <2>10. ASSUME j \in Normal PROVE Settled(j)'
    <3>1. rc'.job # j
      BY <1>0, <2>2
    <3>2. claims'[j] > 0 /\ rec'[j] \notin Occupied => cluster'[j] \in {"absent", "Completed"}
      BY <1>0, <2>9, <2>10
    <3> QED
      BY <1>0, <1>1, <2>1, <2>2, <2>6, <2>10, <3>1, <3>2 DEF Settled, InHand
  <2> QED
    BY <1>0, <2>2, <2>5, <2>8, <2>10, SettledFramed DEF NothingSpent
<1>5. CASE ReconcileFail
  <2>1. UNCHANGED rec /\ rc' = NoReconcile /\ dirty' = dirty \cup {rc.job}
    BY <1>5 DEF ReconcileFail, dbVars
  <2>2. \A k \in Normal : SettledFrame(k)
    BY <1>0, <1>1, <2>1 DEF SettledFrame, InHand
  <2> QED
    BY <1>0, <2>1, <2>2, SettledFramed DEF NothingSpent
<1> QED
  BY <1>2, <1>3, <1>4, <1>5 DEF Reconcile

LEMMA SettledRestart ==
  ASSUME TypeOK, \A j \in Normal : Settled(j), Restart
  PROVE  NothingSpent /\ \A k \in Normal : Settled(k)'
<1>1. /\ UNCHANGED <<rec, order, QueueQuotaEnabled, cluster, claims>> /\ rc'.job \notin Jobs
      /\ dirty' = {j \in Jobs : cluster[j] # "absent"}
      /\ \A j \in Normal : j \in Jobs /\ claims[j] \in Nat /\ (del[j].pc = "idle" => del'[j].pc = "idle")
  BY ConfigAssumption DEF Restart, dbVars, NoReconcile, TypeOK, Normal
<1>2. \A k \in Normal : SettledFrame(k)
  BY <1>1 DEF SettledFrame, InHand, Queued
<1> QED
  BY <1>1, <1>2, SettledFramed DEF NothingSpent

\* A step that spends nothing and selects nothing leaves more room, not less.
LEMMA RoundsKept ==
  ASSUME TypeOK, QuotaAssumption, RoundsFit, NothingSpent,
         \A v \in Watchers : watcher'[v].batch \in SUBSET watcher[v].batch,
         \A v \in Watchers : Activating(v)' => watcher'[v].cur \in watcher'[v].batch
  PROVE  RoundsFit'
<1> SUFFICES ASSUME QueueQuotaEnabled', NEW o \in Owners
             PROVE  /\ RequestOf(Spenders(o)') <= Limit[o]
                    /\ \A w \in Watchers : RequestOf(Spenders(o)') + RequestOf(Chosen(w, o)') <= Limit[o]
  BY DEF RoundsFit, Owners
<1>1. Limit[o] \in Nat
  BY DEF QuotaAssumption, Owners
<1>2. Spenders(o) \in SUBSET Jobs /\ Spenders(o)' \in SUBSET Spenders(o)
  BY DEF Spenders, NothingSpent, Normal
<1>3. /\ RequestOf(Spenders(o)') \in Nat /\ RequestOf(Spenders(o)) \in Nat
      /\ RequestOf(Spenders(o)') <= RequestOf(Spenders(o))
  BY <1>2, RequestIsNat, RequestGrows
<1>4. RequestOf(Spenders(o)) <= Limit[o]
  BY DEF RoundsFit, NothingSpent
<1>5. ASSUME NEW w \in Watchers
      PROVE  RequestOf(Spenders(o)') + RequestOf(Chosen(w, o)') <= Limit[o]
  <2>1. Chosen(w, o) \in SUBSET Jobs /\ Chosen(w, o)' \in SUBSET Chosen(w, o)
    BY DEF Chosen, Normal
  <2>2. /\ RequestOf(Chosen(w, o)') \in Nat /\ RequestOf(Chosen(w, o)) \in Nat
        /\ RequestOf(Chosen(w, o)') <= RequestOf(Chosen(w, o))
    BY <2>1, RequestIsNat, RequestGrows
  <2>3. RequestOf(Spenders(o)) + RequestOf(Chosen(w, o)) <= Limit[o]
    BY DEF RoundsFit, NothingSpent
  <2> QED
    BY <1>1, <1>3, <2>2, <2>3
<1> QED
  BY <1>1, <1>3, <1>4, <1>5

\* A candidate that fits on top of the rows and of what the round has selected
\* fits on top of what is spent, too.
LEMMA RoundsSelect ==
  ASSUME TypeOK, QuotaAssumption, RoundsFit, NothingSpent, UNCHANGED rec, NEW w \in Watchers, \A v \in Watchers : v = w,
         NEW c \in Jobs, FitsQuota(c, watcher[w].batch), ~Activating(w)',
         watcher'[w].batch = watcher[w].batch \cup {c}
  PROVE  RoundsFit'
<1> SUFFICES ASSUME QueueQuotaEnabled', NEW o \in Owners
             PROVE  /\ RequestOf(Spenders(o)') <= Limit[o]
                    /\ RequestOf(Spenders(o)') + RequestOf(Chosen(w, o)') <= Limit[o]
  BY DEF RoundsFit, Owners
<1>1. Spenders(o)' = Spenders(o)
  BY DEF Spenders, NothingSpent
<1>2. /\ RequestOf(Spenders(o)) <= Limit[o]
      /\ RequestOf(Spenders(o)) + RequestOf(Chosen(w, o)) <= Limit[o]
  BY DEF RoundsFit, NothingSpent
<1>3. CASE c \in watcher[w].batch \/ c \in Backfill \/ Owner[c] # o
  <2>1. Chosen(w, o)' = Chosen(w, o)
    BY <1>3 DEF Chosen, Normal
  <2> QED
    BY <1>1, <1>2, <2>1
<1>4. CASE c \notin watcher[w].batch /\ c \notin Backfill /\ Owner[c] = o
  <2>1. Chosen(w, o)' = Chosen(w, o) \cup {c} /\ c \notin Chosen(w, o) /\ Chosen(w, o) \in SUBSET Jobs
    BY <1>4 DEF Chosen, Normal
  <2>2. RequestOf(Chosen(w, o)') = RequestOf(Chosen(w, o)) + Need[c]
    BY <2>1, RequestWith
  <2>3. Usage(o) + RequestOf(Chosen(w, o)) + Need[c] <= Limit[o]
    <3>1. Chosen(w, o) = {k \in watcher[w].batch \cap Normal : Owner[k] = o}
      BY DEF Chosen
    <3> QED
      BY <1>4, <3>1 DEF FitsQuota, NothingSpent
  <2> DEFINE InUse == {k \in Normal : Owner[k] = o /\ rec[k] \in Occupied}
  <2>4. InUse \in SUBSET Jobs /\ Spenders(o) \in SUBSET InUse
    BY DEF Spenders, Normal
  <2>5. Usage(o) = RequestOf(InUse)
    BY DEF Usage
  <2> HIDE DEF InUse
  <2>6. RequestOf(Spenders(o)) <= Usage(o) /\ Usage(o) \in Nat /\ RequestOf(Spenders(o)) \in Nat
    BY <2>4, <2>5, RequestGrows, RequestIsNat
  <2>7. RequestOf(Chosen(w, o)) \in Nat /\ Need[c] \in Nat /\ Limit[o] \in Nat
    BY <2>1, RequestIsNat, ConfigAssumption DEF QuotaAssumption, Owners
  <2> QED
    BY <1>1, <1>2, <2>2, <2>3, <2>6, <2>7
<1> QED
  BY <1>3, <1>4

\* A commit spends what its round has reserved.
LEMMA RoundsCommit ==
  ASSUME TypeOK, ClaimInv, QuotaAssumption, RoundsFit, NEW w \in Watchers, \A v \in Watchers : v = w,
         NEW c \in Jobs, watcher[w].cur = c, Activating(w), ~Activating(w)', UNCHANGED QueueQuotaEnabled,
         rec' = [rec EXCEPT ![c] = "Pending"], claims' = [claims EXCEPT ![c] = @ + 1],
         watcher'[w].batch \in SUBSET (watcher[w].batch \ {c})
  PROVE  RoundsFit'
<1> SUFFICES ASSUME QueueQuotaEnabled', NEW o \in Owners
             PROVE  /\ RequestOf(Spenders(o)') <= Limit[o]
                    /\ RequestOf(Spenders(o)') + RequestOf(Chosen(w, o)') <= Limit[o]
  BY DEF RoundsFit, Owners
<1>1. /\ c \in watcher[w].batch /\ claims[c] = 0
      /\ rec'[c] = "Pending" /\ claims'[c] = 1
      /\ \A j \in Jobs \ {c} : rec'[j] = rec[j] /\ claims'[j] = claims[j]
  BY DEF RoundsFit, ClaimInv, TypeOK
<1>2. RequestOf(Spenders(o)) + RequestOf(Chosen(w, o)) <= Limit[o]
  BY DEF RoundsFit
<1>3. /\ Spenders(o) \in SUBSET Jobs /\ Chosen(w, o) \in SUBSET Jobs
      /\ Chosen(w, o)' \in SUBSET Jobs /\ Spenders(o)' \in SUBSET Jobs
  BY DEF Spenders, Chosen, Normal
<1>4. /\ RequestOf(Spenders(o)) \in Nat /\ RequestOf(Chosen(w, o)) \in Nat /\ Limit[o] \in Nat
      /\ RequestOf(Chosen(w, o)') \in Nat
  BY <1>3, RequestIsNat DEF QuotaAssumption, Owners
<1>5. CASE c \in Normal /\ Owner[c] = o
  <2>1. Spenders(o)' = Spenders(o) \cup {c} /\ c \notin Spenders(o)
    BY <1>1, <1>5 DEF Spenders, Normal, Occupied
  <2>2. RequestOf(Spenders(o)') = RequestOf(Spenders(o)) + Need[c]
    BY <1>3, <2>1, RequestWith
  <2> DEFINE Left == Chosen(w, o) \ {c}
  <2>3. Left \in SUBSET Jobs /\ c \notin Left /\ Chosen(w, o) = Left \cup {c} /\ Chosen(w, o)' \in SUBSET Left
    BY <1>1, <1>3, <1>5 DEF Chosen
  <2> HIDE DEF Left
  <2>4. RequestOf(Chosen(w, o)) = RequestOf(Left) + Need[c] /\ RequestOf(Left) \in Nat
    BY <2>3, RequestWith, RequestIsNat
  <2>5. RequestOf(Chosen(w, o)') <= RequestOf(Left)
    BY <2>3, RequestGrows
  <2>6. Need[c] \in Nat
    BY ConfigAssumption
  <2> QED
    BY <1>2, <1>4, <2>2, <2>4, <2>5, <2>6
<1>6. CASE ~(c \in Normal /\ Owner[c] = o)
  <2>1. Spenders(o)' = Spenders(o)
    BY <1>1, <1>6 DEF Spenders, Normal
  <2>2. Chosen(w, o)' \in SUBSET Chosen(w, o)
    BY DEF Chosen
  <2>3. RequestOf(Chosen(w, o)') <= RequestOf(Chosen(w, o))
    BY <1>3, <2>2, RequestGrows
  <2> QED
    BY <1>2, <1>4, <2>1, <2>3
<1> QED
  BY <1>5, <1>6

\* A step that keeps the batches, or makes them smaller.
BatchesKept ==
  /\ \A v \in Watchers : watcher'[v].batch \in SUBSET watcher[v].batch
  /\ \A v \in Watchers : Activating(v)' => watcher'[v].cur \in watcher'[v].batch

LEMMA RoundEndKeeps ==
  ASSUME TypeOK, RoundsFit, NEW w \in Watchers, NEW need \in BOOLEAN, EndRound(w, need)
  PROVE  BatchesKept /\ ~Activating(w)' /\ watcher'[w].batch = {}
  BY DEF TypeOK, EndRound, NoWatch, BatchesKept, Activating, InTransaction, RoundsFit

LEMMA NextCandidateKeeps ==
  ASSUME TypeOK, RoundsFit, NEW w \in Watchers, NEW c \in Jobs, NEW missed \in BOOLEAN,
         NextCandidate(w, c, missed)
  PROVE  BatchesKept /\ ~Activating(w)' /\ watcher'[w].batch \in SUBSET (watcher[w].batch \ {c})
<1> DEFINE more == watcher[w].more \/ missed
           left == watcher[w].batch \ {c}
<1>1. more \in BOOLEAN /\ left \subseteq Jobs /\ watcher[w] \in WatcherState
  BY DEF TypeOK, WatcherState
<1>2. CASE left = {}
  <2>1. EndRound(w, more)
    BY <1>2 DEF NextCandidate
  <2> QED
    BY <1>1, <2>1, RoundEndKeeps
<1>3. CASE left # {}
  <2>1. watcher' = [watcher EXCEPT ![w].pc = "claim", ![w].batch = left,
                      ![w].more = more, ![w].cur = NoJob]
    BY <1>3 DEF NextCandidate
  <2>2. left \in SUBSET watcher[w].batch /\ left \in SUBSET (watcher[w].batch \ {c})
    OBVIOUS
  <2> HIDE DEF more, left
  <2>3. /\ watcher'[w].pc = "claim" /\ watcher'[w].batch = left
        /\ \A v \in Watchers \ {w} : watcher'[v] = watcher[v]
    BY <1>1, <2>1 DEF TypeOK, WatcherState
  <2> QED
    BY <2>2, <2>3 DEF BatchesKept, Activating, InTransaction, RoundsFit
<1> QED
  BY <1>2, <1>3

LEMMA QuotaWatcherStep ==
  ASSUME TypeOK, ClaimInv, FlowInv, QuotaInv, Undisturbed, QuotaAssumption,
         NEW w \in Watchers, WatcherStep(w) \/ WatcherReadFails(w)
  PROVE  QuotaInv'
<1>0. /\ watcher[w] \in WatcherState /\ UNCHANGED <<order, QueueQuotaEnabled, del, rc>>
      /\ \A v \in Watchers : v = w
  BY DEF TypeOK, WatcherStep, WatcherSignal, WatcherWake, WatcherTick, WatcherPreempt, WatcherScan, WatcherSelect,
         WatcherClaim, WatcherCreate, WatcherExpose, WatcherCommit, WatcherReadFails, LoopOthers, Undisturbed
<1>1. /\ RoundsFit /\ \A k \in Normal : Settled(k) /\ claims[k] \in Nat /\ k \in Jobs
      /\ \A k \in Jobs : Queued(k)' <=> Queued(k)
  BY <1>0 DEF QuotaInv, TypeOK, Queued, Normal
<1>2. ASSUME UNCHANGED <<rec, claims>>, \A k \in Normal : SettledFrame(k)
      PROVE  NothingSpent /\ \A k \in Normal : Settled(k)'
  BY <1>0, <1>1, <1>2, SettledFramed DEF NothingSpent
<1>3. ASSUME UNCHANGED <<rec, claims, cluster, dirty>>
      PROVE  NothingSpent /\ \A k \in Normal : Settled(k)'
  <2>1. \A k \in Normal : SettledFrame(k)
    BY <1>0, <1>1, <1>3 DEF SettledFrame, InHand
  <2> QED
    BY <1>2, <1>3, <2>1
<1>4. CASE \/ WatcherSignal(w) \/ WatcherWake(w) \/ WatcherTick(w) \/ WatcherScan(w) \/ WatcherReadFails(w)
           \/ WatcherClaim(w)
  <2>1. UNCHANGED <<rec, claims, cluster, dirty>>
    BY <1>4 DEF WatcherSignal, WatcherWake, WatcherTick, WatcherScan, WatcherClaim, WatcherReadFails, clusterVars
  <2>2. BatchesKept
    <3>1. CASE \E need \in BOOLEAN : EndRound(w, need)
      BY <1>1, <3>1, RoundEndKeeps
    <3>2. CASE \E need \in BOOLEAN : Begin(w, need)
      <4>1. watcher'[w].pc = "scan" /\ watcher'[w].batch = watcher[w].batch
        BY <1>0, <3>2 DEF Begin, TypeOK, WatcherState
      <4> QED
        BY <1>0, <4>1 DEF BatchesKept, Activating, InTransaction
    <3>3. CASE WatcherScan(w) /\ ~EndRound(w, FALSE)
      <4>1. \E page : watcher' = [watcher EXCEPT ![w].pc = "select", ![w].page = page]
        BY <3>3 DEF WatcherScan
      <4>2. watcher'[w].pc = "select" /\ watcher'[w].batch = watcher[w].batch
        BY <1>0, <4>1 DEF TypeOK, WatcherState
      <4> QED
        BY <1>0, <4>2 DEF BatchesKept, Activating, InTransaction
    <3>4. CASE WatcherClaim(w)
      <4>1. PICK c \in watcher[w].batch :
              \/ watcher' = [watcher EXCEPT ![w].pc = "create", ![w].cur = c]
              \/ NextCandidate(w, c, TRUE)
        BY <3>4 DEF WatcherClaim
      <4>2. CASE watcher' = [watcher EXCEPT ![w].pc = "create", ![w].cur = c]
        <5>1. watcher'[w].cur = c /\ watcher'[w].batch = watcher[w].batch
          BY <1>0, <4>2 DEF TypeOK, WatcherState
        <5> QED
          BY <1>0, <4>1, <5>1 DEF BatchesKept
      <4>3. CASE NextCandidate(w, c, TRUE)
        BY <1>0, <1>1, <4>3, NextCandidateKeeps DEF WatcherState
      <4> QED
        BY <4>1, <4>2, <4>3
    <3> QED
      BY <1>0, <1>4, <3>1, <3>2, <3>3, <3>4
         DEF WatcherSignal, WatcherWake, WatcherTick, WatcherReadFails, FailRound, WatcherState
  <2> QED
    BY <1>1, <1>3, <2>1, <2>2, RoundsKept DEF QuotaInv, BatchesKept
<1>5. CASE WatcherSelect(w)
  <2>1. UNCHANGED <<rec, claims, cluster, dirty>> /\ watcher[w].pc = "select"
    BY <1>5 DEF WatcherSelect, clusterVars
  <2>2. CASE EndRound(w, FALSE)
    BY <1>1, <1>3, <2>1, <2>2, RoundEndKeeps, RoundsKept DEF QuotaInv, BatchesKept
  <2>3. CASE watcher' = [watcher EXCEPT ![w].pc = "claim"]
    <3>1. watcher'[w].pc = "claim" /\ watcher'[w].batch = watcher[w].batch
      BY <1>0, <2>3 DEF TypeOK, WatcherState
    <3>2. BatchesKept
      BY <1>0, <3>1 DEF BatchesKept, Activating, InTransaction
    <3> QED
      BY <1>1, <1>3, <2>1, <3>2, RoundsKept DEF QuotaInv, BatchesKept
  <2>4. CASE ~EndRound(w, FALSE) /\ watcher' # [watcher EXCEPT ![w].pc = "claim"]
    <3>1. PICK c \in watcher[w].page, full \in BOOLEAN :
            watcher' = [watcher EXCEPT
              ![w].page  = IF FitsQuota(c, watcher[w].batch) /\ full THEN {} ELSE @ \ {c},
              ![w].batch = IF FitsQuota(c, watcher[w].batch) /\ ~full THEN @ \cup {c} ELSE @,
              ![w].more  = FitsQuota(c, watcher[w].batch) /\ full]
      BY <1>5, <2>4 DEF WatcherSelect
    <3> DEFINE fits  == FitsQuota(c, watcher[w].batch)
               page  == IF fits /\ full THEN {} ELSE watcher[w].page \ {c}
               batch == IF fits /\ ~full THEN watcher[w].batch \cup {c} ELSE watcher[w].batch
               more  == fits /\ full
    <3>2. watcher'[w] = [watcher[w] EXCEPT !.page = page, !.batch = batch, !.more = more]
      BY <3>1 DEF TypeOK
    <3>3. batch = watcher[w].batch \/ (fits /\ batch = watcher[w].batch \cup {c})
      OBVIOUS
    <3> HIDE DEF page, batch, more
    <3>4. watcher'[w].batch = batch /\ watcher'[w].pc = "select" /\ c \in Jobs
      BY <1>0, <2>1, <3>2 DEF WatcherState
    <3>5. ~Activating(w)'
      BY <3>4 DEF Activating, InTransaction
    <3>6. CASE batch = watcher[w].batch
      <4>1. BatchesKept
        BY <1>0, <3>4, <3>5, <3>6 DEF BatchesKept
      <4> QED
        BY <1>1, <1>3, <2>1, <4>1, RoundsKept DEF QuotaInv, BatchesKept
    <3>7. CASE fits /\ batch = watcher[w].batch \cup {c}
      BY <1>0, <1>1, <1>3, <2>1, <3>4, <3>5, <3>7, RoundsSelect DEF QuotaInv
    <3> QED
      BY <3>3, <3>6, <3>7
  <2> QED
    BY <2>2, <2>3, <2>4
<1>6. CASE WatcherPreempt(w)
  <2>1. PICK V \in SUBSET {v \in Backfill : rec[v] = "Running" /\ TRUE} : ClusterRemove(V)
    BY <1>6 DEF WatcherPreempt
  <2>2. UNCHANGED <<rec, claims>> /\ EndRound(w, TRUE)
    BY <1>6 DEF WatcherPreempt, FailRound
  <2>3. \A k \in Normal : SettledFrame(k)
    BY <1>0, <1>1, <2>1, <2>2 DEF ClusterRemove, SettledFrame, InHand
  <2> QED
    BY <1>1, <1>2, <2>2, <2>3, RoundEndKeeps, RoundsKept DEF QuotaInv, BatchesKept
<1>7. CASE WatcherCreate(w) \/ WatcherExpose(w)
  <2>1. PICK c \in Jobs : c = watcher[w].cur
    BY <1>7 DEF WatcherCreate, WatcherExpose, TypeOK, Activating, InTransaction
  <2>2. UNCHANGED <<rec, claims>> /\ Activating(w) /\ rec[c] = "Prequeue"
    BY <1>7, <2>1 DEF WatcherCreate, WatcherExpose, ClaimInv, Activating, InTransaction
  <2>3. UNCHANGED <<cluster, dirty>> \/ ClusterCreate(c)
    BY <1>7, <2>1 DEF WatcherCreate, WatcherExpose, clusterVars, Undisturbed, Fault
  <2>4. ASSUME NEW k \in Normal, ClusterCreate(c) PROVE SettledFrame(k)
    <3>1. CASE k = c
      <4>1. ~InHand(c) /\ claims[c] = 0
        BY <1>1, <2>2, <2>4, <3>1 DEF ClusterCreate, Settled, ClaimInv
      <4> QED
        BY <1>0, <1>1, <2>2, <2>4, <3>1, <4>1 DEF ClusterCreate, TypeOK, SettledFrame
    <3>2. CASE k # c
      BY <1>0, <1>1, <2>2, <2>4, <3>2 DEF ClusterCreate, TypeOK, SettledFrame, InHand
    <3> QED
      BY <3>1, <3>2
  <2>5. NothingSpent /\ \A k \in Normal : Settled(k)'
    BY <1>2, <1>3, <2>2, <2>3, <2>4
  <2>6. BatchesKept
    <3>1. CASE EndRound(w, TRUE)
      BY <1>1, <3>1, RoundEndKeeps
    <3>2. CASE ~EndRound(w, TRUE)
      <4>1. PICK pc \in {"expose", "commit"} : watcher' = [watcher EXCEPT ![w].pc = pc]
        BY <1>7, <3>2 DEF WatcherCreate, WatcherExpose, FailRound
      <4>2. watcher'[w].cur = watcher[w].cur /\ watcher'[w].batch = watcher[w].batch
        BY <1>0, <4>1 DEF TypeOK, WatcherState
      <4> QED
        BY <1>0, <1>1, <2>2, <4>2 DEF BatchesKept, RoundsFit
    <3> QED
      BY <3>1, <3>2
  <2> QED
    BY <1>1, <2>5, <2>6, RoundsKept DEF QuotaInv, BatchesKept
<1>8. CASE WatcherCommit(w)
  <2>1. PICK c \in Jobs : c = watcher[w].cur
    BY <1>8 DEF WatcherCommit, TypeOK, Activating, InTransaction
  <2>2. Activating(w) /\ UNCHANGED <<cluster, dirty>>
    BY <1>8 DEF WatcherCommit, Activating, InTransaction, clusterVars
  <2>3. CASE UNCHANGED <<rec, claims>>
    <3>1. NextCandidate(w, c, FALSE) \/ EndRound(w, TRUE)
      BY <1>8, <2>1 DEF WatcherCommit, FailRound
    <3>2. BatchesKept
      BY <1>1, <3>1, RoundEndKeeps, NextCandidateKeeps
    <3> QED
      BY <1>1, <1>3, <2>2, <2>3, <3>2, RoundsKept DEF QuotaInv, BatchesKept
  <2>4. CASE /\ rec' = [rec EXCEPT ![c] = "Pending"] /\ claims' = [claims EXCEPT ![c] = @ + 1]
             /\ NextCandidate(w, c, FALSE)
    <3>1. /\ rec'[c] = "Pending" /\ \A k \in Jobs \ {c} : rec'[k] = rec[k] /\ claims'[k] = claims[k]
      BY <2>4 DEF TypeOK
    <3>2. ASSUME NEW k \in Normal \ {c} PROVE Settled(k)'
      <4>1. SettledFrame(k)
        BY <1>0, <1>1, <2>2, <3>1 DEF SettledFrame, InHand
      <4> QED
        BY <1>1, <4>1, SettledFramed
    <3>3. c \in Normal => Settled(c)'
      BY <1>0, <1>1, <2>2, <3>1 DEF Settled, InHand, Occupied
    <3>4. ~Activating(w)' /\ watcher'[w].batch \in SUBSET (watcher[w].batch \ {c})
      BY <1>1, <2>4, NextCandidateKeeps
    <3>5. RoundsFit'
      BY <1>0, <1>1, <2>1, <2>2, <2>4, <3>4, RoundsCommit
    <3> QED
      BY <3>2, <3>3, <3>5 DEF QuotaInv
  <2> QED
    BY <1>8, <2>1, <2>3, <2>4 DEF WatcherCommit
<1> QED
  BY <1>4, <1>5, <1>6, <1>7, <1>8 DEF WatcherStep

LEMMA QuotaStep ==
  ASSUME TypeOK, ClaimInv, FlowInv, QuotaInv, Undisturbed, QuotaAssumption, [Next]_vars
  PROVE  QuotaInv'
<1>1. RoundsFit /\ \A j \in Normal : Settled(j)
  BY DEF QuotaInv
<1>2. ASSUME NothingSpent, UNCHANGED watcher PROVE RoundsFit'
  <2>1. BatchesKept
    BY <1>1, <1>2 DEF BatchesKept, Activating, RoundsFit
  <2> QED
    BY <1>1, <1>2, <2>1, RoundsKept DEF BatchesKept
<1>3. CASE UNCHANGED vars
  <2>1. NothingSpent /\ UNCHANGED watcher /\ \A j \in Normal : Settled(j)'
    BY <1>1, <1>3 DEF vars, dbVars, clusterVars, loopVars, NothingSpent, Settled, InHand, Queued
  <2> QED
    BY <1>2, <2>1 DEF QuotaInv
<1>4. ASSUME NEW j \in Jobs, \/ SubmitCheck(j) \/ SubmitStep(j) \/ DeleteRead(j) \/ DeleteStep(j)
                              \/ Evolve(j) \/ Clean(j) \/ Timeout(j)
      PROVE  QuotaInv'
  BY <1>1, <1>2, <1>4, SettledQuietStep DEF QuotaInv
<1>5. CASE Reconcile \/ ReconcileFail
  BY <1>1, <1>2, <1>5, SettledReconcileStep DEF QuotaInv
<1>6. CASE Restart
  <2>1. BatchesKept
    BY <1>6 DEF Restart, NoWatch, BatchesKept, Activating, InTransaction
  <2> QED
    BY <1>1, <1>6, <2>1, SettledRestart, RoundsKept DEF QuotaInv, BatchesKept
<1> QED
  BY <1>3, <1>4, <1>5, <1>6, QuotaWatcherStep DEF Next

\* However long before its claims a round reads the usage, whatever other rows and
\* jobs do meanwhile, and although commits fail, jobs are evicted and the process
\* restarts, what an owner got through the queue and occupies fits its quota.
THEOREM QuotaRespected ==
  ASSUME Undisturbed, QuotaAssumption
  PROVE  Spec => []ActivatedWithinQuota
<1>1. Init => QuotaInv
  <2> SUFFICES ASSUME Init PROVE QuotaInv
    OBVIOUS
  <2>1. \A j \in Normal : Settled(j)
    BY ConfigAssumption DEF Init, Settled, InHand, NoReconcile, NoDelete, Queued, Normal
  <2>2. \A o \in Owners : Spenders(o) = {} /\ Limit[o] \in Nat
    BY DEF Init, Spenders, Normal, Owners, QuotaAssumption
  <2>3. \A w \in Watchers : ~Activating(w) /\ \A o \in Owners : Chosen(w, o) = {}
    BY DEF Init, Activating, InTransaction, NoWatch, Chosen
  <2>4. \A o \in Owners : RequestOf(Spenders(o)) = 0 /\ \A w \in Watchers : RequestOf(Chosen(w, o)) = 0
    BY <2>2, <2>3, RequestOfNone
  <2> QED
    BY <2>1, <2>2, <2>3, <2>4 DEF QuotaInv, RoundsFit
<1>2. TypeOK /\ ClaimInv /\ FlowInv /\ QuotaInv /\ [Next]_vars => QuotaInv'
  BY QuotaStep
<1>3. QuotaInv => ActivatedWithinQuota
  BY DEF QuotaInv, RoundsFit, ActivatedWithinQuota, Spenders, Owners
<1> QED
  BY <1>1, <1>2, <1>3, TypeCorrect, ClaimsSound, RowsSound, PTL DEF Spec

-----------------------------------------------------------------------------
(* Alike jobs are activated in the order in which they were queued.        *)

Ahead(a, c) == \E i, k \in DOMAIN order : i < k /\ order[i] = a /\ order[k] = c

\* A job is queued once and waits from then on; of two normal jobs in the queue
\* the one ahead runs out of patience first.
InPatience ==
  /\ \A i, k \in DOMAIN order : order[i] = order[k] => i = k
  /\ \A j \in Jobs : Early(j) => j \notin overdue
  /\ \A a, c \in Jobs : Ahead(a, c) /\ a \in Normal /\ rec[a] = "Prequeue" /\ c \in overdue => a \in overdue

\* A round that holds a candidate holds the alike ones ahead of it, too, and has
\* selected them if it selected the candidate.
KeepsTurn(page, batch) ==
  ~QueueQuotaEnabled =>
    \A a, c \in Jobs : Ahead(a, c) /\ Alike(a, c) /\ rec[a] = "Prequeue" =>
      /\ c \in page \cup batch => a \in page \cup batch
      /\ c \in batch => a \in batch

Turn(w) ==
  /\ \A c \in watcher[w].page \cup watcher[w].batch : Queued(c)
  /\ watcher[w].pc \in {"wait", "scan"} => watcher[w].batch = {}
  /\ Activating(w) => watcher[w].cur \in watcher[w].batch /\ First(watcher[w].cur, watcher[w].batch)
  /\ KeepsTurn(watcher[w].page, watcher[w].batch)

TurnInv == InPatience /\ \A w \in Watchers : Turn(w)

\* No row comes into the queue and nobody's patience ends.
QueueFrame ==
  /\ UNCHANGED <<order, overdue, QueueQuotaEnabled>>
  /\ \A j \in Jobs : rec'[j] = "Prequeue" => rec[j] = "Prequeue"
  /\ \A j \in Jobs : Early(j)' => Early(j)

LEMMA AheadKept == ASSUME UNCHANGED order PROVE \A a, c : Ahead(a, c)' <=> Ahead(a, c)
  BY DEF Ahead

LEMMA PatienceKept == ASSUME InPatience, QueueFrame PROVE InPatience'
  BY AheadKept DEF InPatience, QueueFrame

LEMMA KeepsTurnKept ==
  ASSUME QueueFrame, NEW page, NEW batch, KeepsTurn(page, batch)
  PROVE  KeepsTurn(page, batch)'
  BY AheadKept DEF KeepsTurn, QueueFrame, Alike

LEMMA TurnKept ==
  ASSUME NEW w \in Watchers, Turn(w), QueueFrame, watcher'[w] = watcher[w]
  PROVE  Turn(w)'
<1>1. KeepsTurn(watcher[w].page, watcher[w].batch)
  BY DEF Turn
<1> PICK page, batch : page = watcher[w].page /\ batch = watcher[w].batch
  OBVIOUS
<1>2. KeepsTurn(page, batch)' /\ watcher'[w].page = page /\ watcher'[w].batch = batch
  BY <1>1, KeepsTurnKept
<1>3. KeepsTurn(watcher[w].page, watcher[w].batch)'
  BY <1>2 DEF KeepsTurn, Alike
<1>4. Activating(w)' <=> Activating(w)
  BY DEF Activating
<1>5. \A c : Queued(c)' <=> Queued(c)
  BY DEF QueueFrame, Queued
<1>6. \A c, S : First(c, S)' <=> First(c, S)
  BY DEF QueueFrame, First
<1> QED
  BY <1>3, <1>4, <1>5, <1>6 DEF Turn

\* A row comes into the queue behind all others.
LEMMA TurnSubmitQueue ==
  ASSUME TypeOK, ClaimInv, TurnInv, NEW j \in Jobs, SubmitQueue(j)
  PROVE  TurnInv'
<1>1. /\ sub[j] = "queue" /\ UNCHANGED <<watcher, overdue, QueueQuotaEnabled>>
      /\ rec' = [rec EXCEPT ![j] = "Prequeue"] /\ sub' = [sub EXCEPT ![j] = "queued"]
      /\ order' = Append(order, j)
  BY DEF SubmitQueue, SubmitVars, loopVars
<1>2. ~Queued(j) /\ j \notin overdue
  BY <1>1 DEF ClaimInv, TurnInv, InPatience, Early
<1>3. \A k \in Jobs : Queued(k)' <=> Queued(k) \/ k = j
  BY <1>1, QueuedByAppend DEF TypeOK
<1>4. /\ DOMAIN order = 1..Len(order) /\ Len(order) \in Nat
      /\ DOMAIN order' = 1..(Len(order) + 1) /\ order'[Len(order) + 1] = j
      /\ \A i \in 1..Len(order) : order'[i] = order[i]
  BY <1>1 DEF TypeOK
<1>5. \A k \in Jobs \ {j} : rec'[k] = rec[k] /\ sub'[k] = sub[k]
  BY <1>1 DEF TypeOK
<1>6. ASSUME NEW a \in Jobs, NEW c \in Jobs, Ahead(a, c)'
      PROVE  a # j /\ (c # j => Ahead(a, c))
  <2>1. PICK i \in DOMAIN order', k \in DOMAIN order' : i < k /\ order'[i] = a /\ order'[k] = c
    BY <1>6 DEF Ahead
  <2>2. i \in DOMAIN order /\ order[i] = a
    BY <1>4, <2>1
  <2>3. a # j
    BY <1>2, <2>2 DEF Queued
  <2>4. ASSUME c # j PROVE Ahead(a, c)
    <3>1. k \in DOMAIN order /\ order[k] = c
      BY <1>4, <2>1, <2>4
    <3> QED
      BY <2>1, <2>2, <3>1 DEF Ahead
  <2> QED
    BY <2>3, <2>4
<1>7. InPatience'
  <2>1. \A i \in DOMAIN order : order[i] # j
    BY <1>2 DEF Queued
  <2>2. \A i, k \in DOMAIN order' : order'[i] = order'[k] => i = k
    BY <1>4, <2>1 DEF TurnInv, InPatience
  <2>3. \A k \in Jobs : Early(k)' => k \notin overdue'
    BY <1>1, <1>2, <1>5 DEF TurnInv, InPatience, Early
  <2>4. ASSUME NEW a \in Jobs, NEW c \in Jobs, Ahead(a, c)', a \in Normal, rec'[a] = "Prequeue", c \in overdue'
        PROVE  a \in overdue'
    <3>1. a # j /\ c # j /\ Ahead(a, c)
      BY <1>1, <1>2, <1>6, <2>4
    <3> QED
      BY <1>1, <1>5, <2>4, <3>1 DEF TurnInv, InPatience
  <2> QED
    BY <2>2, <2>3, <2>4 DEF InPatience
<1>8. ASSUME NEW w \in Watchers PROVE Turn(w)'
  <2>1. PICK page, batch : page = watcher[w].page /\ batch = watcher[w].batch
    OBVIOUS
  <2>2. page \subseteq Jobs /\ batch \subseteq Jobs
    BY <2>1 DEF TypeOK, WatcherState
  <2>3. Turn(w)
    BY DEF TurnInv
  <2>4. j \notin page \cup batch /\ \A c \in page \cup batch : Queued(c)'
    BY <1>2, <1>3, <2>1, <2>2, <2>3 DEF Turn
  <2>5. KeepsTurn(page, batch)'
    BY <1>1, <1>5, <1>6, <2>1, <2>3, <2>4 DEF Turn, KeepsTurn, Alike
  <2>6. First(watcher[w].cur, batch) => First(watcher[w].cur, batch)'
    <3>1. ASSUME NEW c, First(c, batch) PROVE c \in batch /\ \E i \in DOMAIN order' :
                order'[i] = c /\ \A k \in 1..(i - 1) : order'[k] \notin batch
      BY <1>4, <3>1 DEF First
    <3> QED
      BY <1>1, <3>1 DEF First
  <2>7. watcher'[w] = watcher[w] /\ (Activating(w)' <=> Activating(w))
    BY <1>1 DEF Activating
  <2>8. KeepsTurn(watcher[w].page, watcher[w].batch)'
    BY <2>1, <2>5, <2>7 DEF KeepsTurn, Alike
  <2>9. Activating(w)' => watcher'[w].cur \in watcher'[w].batch /\ First(watcher[w].cur, watcher[w].batch)'
    <3>1. batch = watcher'[w].batch
      BY <2>1, <2>7
    <3>2. First(watcher[w].cur, batch)' <=> First(watcher[w].cur, watcher[w].batch)'
      BY <3>1 DEF First
    <3> QED
      BY <2>1, <2>3, <2>6, <2>7, <3>2 DEF Turn
  <2> QED
    BY <2>1, <2>3, <2>4, <2>7, <2>8, <2>9 DEF Turn
<1> QED
  BY <1>7, <1>8 DEF TurnInv

LEMMA TurnFramed == ASSUME TurnInv, QueueFrame, UNCHANGED watcher PROVE TurnInv'
  BY PatienceKept, TurnKept DEF TurnInv

\* With one tolerance for all, patience ends in the order of the queue.
LEMMA TurnTimeout ==
  ASSUME TypeOK, FlowInv, TurnInv, UniformTolerance, NEW j \in Jobs, Timeout(j)
  PROVE  TurnInv'
<1>1. /\ UNCHANGED <<rec, order, sub, watcher, QueueQuotaEnabled>> /\ overdue' = overdue \cup {j}
      /\ rec[j] # "none"
  BY DEF Timeout, Waiting, loopVars
<1>2. ~Early(j)
  BY <1>1 DEF FlowInv, RowInv
<1>3. \A a \in Normal : Ahead(a, j) /\ rec[a] = "Prequeue" => a \in overdue
  BY DEF Timeout, Waiting, Ahead
<1>4. InPatience'
  <2>1. \A k \in Jobs : Early(k)' <=> Early(k)
    BY <1>1 DEF Early
  <2> QED
    BY <1>1, <1>2, <1>3, <2>1, AheadKept DEF TurnInv, InPatience
<1>5. ASSUME NEW w \in Watchers PROVE Turn(w)'
  BY <1>1, <1>5, AheadKept DEF TurnInv, Turn, KeepsTurn, Alike, Queued, First, Activating
<1> QED
  BY <1>4, <1>5 DEF TurnInv

LEMMA TurnQuietStep ==
  ASSUME TypeOK, NEW j \in Jobs,
         \/ SubmitCheck(j) \/ SubmitNotify(j) \/ SubmitCreate(j) \/ SubmitExpose(j)
         \/ DeleteRead(j) \/ DeleteStep(j) \/ Evolve(j) \/ Clean(j)
  PROVE  QueueFrame /\ UNCHANGED <<watcher, claims>>
<1>1. CASE SubmitCheck(j) \/ SubmitNotify(j) \/ SubmitCreate(j) \/ SubmitExpose(j)
  <2>1. UNCHANGED <<rec, order, overdue, QueueQuotaEnabled, watcher, claims>>
    BY <1>1 DEF SubmitCheck, SubmitNotify, SubmitCreate, SubmitExpose, SubmitVars, dbVars, loopVars
  <2>2. \E s : sub' = [sub EXCEPT ![j] = s] /\ (s \in {"idle", "queue", "direct"} => Early(j))
    BY <1>1 DEF SubmitCheck, SubmitNotify, SubmitCreate, SubmitExpose, Early
  <2>3. \A k \in Jobs : Early(k)' => Early(k)
    BY <2>2 DEF Early, TypeOK
  <2> QED
    BY <2>1, <2>3 DEF QueueFrame
<1>2. CASE DeleteRead(j) \/ DeletePlan(j) \/ DeleteCluster(j) \/ Evolve(j) \/ Clean(j)
  BY <1>2 DEF DeleteRead, DeletePlan, DeleteCluster, DeleteVars, Evolve, Clean, QueueFrame, dbVars, loopVars, Early
<1>3. CASE DeleteApply(j)
  BY <1>3 DEF TypeOK, DeleteApply, DeleteVars, QueueFrame, loopVars, Early
<1> QED
  BY <1>1, <1>2, <1>3 DEF DeleteStep

LEMMA TurnReconcileStep ==
  ASSUME TypeOK, Reconcile \/ ReconcileFail
  PROVE  QueueFrame /\ UNCHANGED <<watcher, claims>>
<1>1. UNCHANGED <<order, overdue, QueueQuotaEnabled, sub, watcher, claims>>
  BY DEF Reconcile, ReconcileGet, ReconcileRead, ReconcileWrite, ReconcileFail, ReconcileVars, dbVars, loopVars
<1>2. \A j \in Jobs : rec'[j] = "Prequeue" => rec[j] = "Prequeue"
  BY ClaimReconcileStep DEF ClaimFrame
<1> QED
  BY <1>1, <1>2 DEF QueueFrame, Early

LEMMA TurnRestart == ASSUME TypeOK, TurnInv, Restart PROVE TurnInv'
<1>1. QueueFrame
  BY DEF Restart, QueueFrame, dbVars, Early, TypeOK
<1>2. \A w \in Watchers : Turn(w)'
  BY DEF Restart, NoWatch, Turn, KeepsTurn, Activating, InTransaction
<1> QED
  BY <1>1, <1>2, PatienceKept DEF TurnInv

LEMMA TurnEnds ==
  ASSUME TypeOK, NEW w \in Watchers, NEW need \in BOOLEAN, EndRound(w, need)
  PROVE  Turn(w)'
<1>1. /\ watcher'[w].pc = "wait" /\ watcher'[w].page = {} /\ watcher'[w].batch = {}
  BY DEF TypeOK, EndRound, NoWatch
<1> QED
  BY <1>1 DEF Turn, KeepsTurn, Activating, InTransaction

\* A round goes on with the page and the batch it has, outside a transaction.
LEMMA TurnGoesOn ==
  ASSUME NEW w \in Watchers, Turn(w), QueueFrame, ~Activating(w)',
         watcher'[w].page = watcher[w].page, watcher'[w].batch = watcher[w].batch,
         watcher'[w].pc \in {"wait", "scan"} => watcher[w].pc \in {"wait", "scan"}
  PROVE  Turn(w)'
<1> PICK page, batch : page = watcher[w].page /\ batch = watcher[w].batch
  OBVIOUS
<1>1. KeepsTurn(page, batch)' /\ watcher'[w].page = page /\ watcher'[w].batch = batch
  BY KeepsTurnKept DEF Turn
<1>2. KeepsTurn(watcher[w].page, watcher[w].batch)'
  BY <1>1 DEF KeepsTurn, Alike
<1>3. \A c : Queued(c)' <=> Queued(c)
  BY DEF QueueFrame, Queued
<1> QED
  BY <1>2, <1>3 DEF Turn

\* A round lets go of a candidate that is not in the queue any more.
LEMMA TurnDropped ==
  ASSUME TypeOK, NEW w \in Watchers, Turn(w), QueueFrame, NEW c \in Jobs, NEW missed \in BOOLEAN,
         NextCandidate(w, c, missed), rec'[c] # "Prequeue"
  PROVE  Turn(w)'
<1> DEFINE more == watcher[w].more \/ missed
           left == watcher[w].batch \ {c}
<1>1. more \in BOOLEAN /\ watcher[w] \in WatcherState
  BY DEF TypeOK, WatcherState
<1>2. CASE left = {}
  <2>1. EndRound(w, more)
    BY <1>2 DEF NextCandidate
  <2> QED
    BY <1>1, <2>1, TurnEnds
<1>3. CASE left # {}
  <2>1. watcher' = [watcher EXCEPT ![w].pc = "claim", ![w].batch = left,
                      ![w].more = more, ![w].cur = NoJob]
    BY <1>3 DEF NextCandidate
  <2> PICK page, batch, rest : page = watcher[w].page /\ batch = watcher[w].batch /\ rest = left
    OBVIOUS
  <2>2. rest = batch \ {c}
    OBVIOUS
  <2> HIDE DEF more, left
  <2>3. watcher'[w].pc = "claim" /\ watcher'[w].page = page /\ watcher'[w].batch = rest
    BY <1>1, <2>1 DEF TypeOK, WatcherState
  <2>4. KeepsTurn(page, batch)'
    BY KeepsTurnKept DEF Turn
  <2>5. KeepsTurn(page, rest)'
    BY <2>2, <2>4 DEF KeepsTurn
  <2>6. KeepsTurn(watcher[w].page, watcher[w].batch)'
    BY <2>3, <2>5 DEF KeepsTurn, Alike
  <2>7. \A b \in page \cup rest : Queued(b)'
    BY <2>2 DEF Turn, QueueFrame, Queued
  <2> QED
    BY <2>3, <2>6, <2>7 DEF Turn, Activating, InTransaction
<1> QED
  BY <1>2, <1>3

\* A job that nobody blocks has nobody alike blocked ahead of it.
LEMMA UnblockedInTurn ==
  ASSUME TypeOK, InPatience, NEW a \in Jobs, NEW c \in Jobs, Ahead(a, c), Alike(a, c),
         rec[a] = "Prequeue", ~BlockedCandidate(c)
  PROVE  ~BlockedCandidate(a)
<1>1. \A S : S \subseteq Jobs => (CoveredBy(S, a) <=> CoveredBy(S, c))
  BY DEF CoveredBy, Alike
<1>2. BlockersIn("Pending") \subseteq Jobs /\ BlockersIn("Prequeue") \subseteq Jobs
  BY DEF BlockersIn, Normal
<1>3. c \in overdue => a \in overdue
  BY DEF TypeOK, InPatience, Alike
<1> QED
  BY <1>1, <1>2, <1>3 DEF BlockedCandidate, Alike

LEMMA TurnScan ==
  ASSUME TypeOK, ClaimInv, InPatience, NEW w \in Watchers, Turn(w), QueueFrame, WatcherScan(w)
  PROVE  Turn(w)'
<1>0. watcher[w] \in WatcherState /\ UNCHANGED <<rec, order, QueueQuotaEnabled>> /\ watcher[w].pc = "scan"
  BY DEF TypeOK, WatcherScan, LoopOthers
<1>1. CASE EndRound(w, FALSE)
  BY <1>1, TurnEnds
<1>2. CASE ~EndRound(w, FALSE)
  <2>1. PICK page : /\ page = {c \in Jobs : rec[c] = "Prequeue" /\ ~BlockedCandidate(c)}
                    /\ watcher' = [watcher EXCEPT ![w].pc = "select", ![w].page = page]
    BY <1>2 DEF WatcherScan
  <2>2. watcher'[w].pc = "select" /\ watcher'[w].page = page /\ watcher'[w].batch = {}
    BY <1>0, <2>1 DEF TypeOK, WatcherState, Turn
  <2>3. \A c \in page : Queued(c)'
    BY <1>0, <2>1 DEF ClaimInv, Queued
  <2>4. KeepsTurn(page, {})
    BY <2>1, UnblockedInTurn DEF KeepsTurn
  <2>5. KeepsTurn(page, {})'
    BY <2>4, KeepsTurnKept
  <2>6. KeepsTurn(watcher[w].page, watcher[w].batch)'
    BY <2>2, <2>5 DEF KeepsTurn, Alike
  <2> QED
    BY <2>2, <2>3, <2>6 DEF Turn, Activating, InTransaction
<1> QED
  BY <1>1, <1>2

\* Nobody of the set stands ahead of its first.
LEMMA FirstIsAhead ==
  ASSUME InPatience, NEW a, NEW c, NEW S, First(c, S), Ahead(a, c), order \in Seq(Jobs)
  PROVE  a \notin S
<1>1. PICK i \in DOMAIN order : order[i] = c /\ \A k \in 1..(i - 1) : order[k] \notin S
  BY DEF First
<1>2. PICK h \in DOMAIN order, k \in DOMAIN order : h < k /\ order[h] = a /\ order[k] = c
  BY DEF Ahead
<1>3. k = i
  BY <1>1, <1>2 DEF InPatience
<1>4. h \in 1..(i - 1)
  BY <1>2, <1>3
<1> QED
  BY <1>1, <1>2, <1>4

LEMMA TurnSelect ==
  ASSUME TypeOK, InPatience, NEW w \in Watchers, Turn(w), QueueFrame, WatcherSelect(w)
  PROVE  Turn(w)'
<1>0. watcher[w] \in WatcherState /\ UNCHANGED <<rec, order, QueueQuotaEnabled>> /\ watcher[w].pc = "select"
  BY DEF TypeOK, WatcherSelect, LoopOthers
<1>1. CASE EndRound(w, FALSE)
  BY <1>1, TurnEnds
<1>2. CASE watcher' = [watcher EXCEPT ![w].pc = "claim"]
  <2>1. /\ watcher'[w].pc = "claim" /\ watcher'[w].page = watcher[w].page
        /\ watcher'[w].batch = watcher[w].batch
    BY <1>0, <1>2 DEF TypeOK, WatcherState
  <2> QED
    BY <2>1, TurnGoesOn DEF Activating, InTransaction
<1>3. CASE ~EndRound(w, FALSE) /\ watcher' # [watcher EXCEPT ![w].pc = "claim"]
  <2>1. PICK c \in watcher[w].page, fits \in BOOLEAN, full \in BOOLEAN :
          /\ First(c, watcher[w].page) /\ (~QueueQuotaEnabled => fits)
          /\ watcher' = [watcher EXCEPT
               ![w].page  = IF fits /\ full THEN {} ELSE @ \ {c},
               ![w].batch = IF fits /\ ~full THEN @ \cup {c} ELSE @,
               ![w].more  = fits /\ full]
    BY <1>3 DEF WatcherSelect, FitsQuota
  <2> PICK page, batch, page2, batch2, more :
        /\ page = watcher[w].page /\ batch = watcher[w].batch /\ more = (fits /\ full)
        /\ page2 = (IF fits /\ full THEN {} ELSE page \ {c})
        /\ batch2 = (IF fits /\ ~full THEN batch \cup {c} ELSE batch)
    OBVIOUS
  <2>2. watcher'[w] = [watcher[w] EXCEPT !.page = page2, !.batch = batch2, !.more = more]
    BY <2>1 DEF TypeOK
  <2>3. watcher'[w].pc = "select" /\ watcher'[w].page = page2 /\ watcher'[w].batch = batch2
    BY <1>0, <2>2 DEF WatcherState
  <2>4. page2 \cup batch2 \subseteq page \cup batch
    BY <2>1
  <2>5. KeepsTurn(page2, batch2)
    <3> SUFFICES ASSUME ~QueueQuotaEnabled, NEW a \in Jobs, NEW b \in Jobs,
                        Ahead(a, b), Alike(a, b), rec[a] = "Prequeue"
                 PROVE  /\ b \in page2 \cup batch2 => a \in page2 \cup batch2
                        /\ b \in batch2 => a \in batch2
      BY DEF KeepsTurn
    <3>1. (b \in page \cup batch => a \in page \cup batch) /\ (b \in batch => a \in batch)
      BY DEF Turn, KeepsTurn
    <3>2. b = c => a \notin page
      BY <2>1, FirstIsAhead DEF TypeOK
    <3> QED
      BY <2>1, <3>1, <3>2
  <2>6. KeepsTurn(page2, batch2)'
    BY <2>5, KeepsTurnKept
  <2>7. KeepsTurn(watcher[w].page, watcher[w].batch)'
    BY <2>3, <2>6 DEF KeepsTurn, Alike
  <2>8. \A b \in page2 \cup batch2 : Queued(b)'
    BY <1>0, <2>4 DEF Turn, Queued
  <2> QED
    BY <2>3, <2>7, <2>8 DEF Turn, Activating, InTransaction
<1> QED
  BY <1>1, <1>2, <1>3

LEMMA TurnClaim ==
  ASSUME TypeOK, NEW w \in Watchers, Turn(w), QueueFrame, UNCHANGED rec, WatcherClaim(w)
  PROVE  Turn(w)'
<1>0. watcher[w] \in WatcherState
  BY DEF TypeOK
<1>1. PICK c \in Jobs :
        /\ First(c, watcher[w].batch) /\ c \in watcher[w].batch
        /\ \/ watcher' = [watcher EXCEPT ![w].pc = "create", ![w].cur = c]
           \/ rec[c] # "Prequeue" /\ NextCandidate(w, c, TRUE)
  BY <1>0 DEF WatcherClaim, WatcherState
<1>2. CASE rec[c] # "Prequeue" /\ NextCandidate(w, c, TRUE)
  BY <1>2, TurnDropped
<1>3. CASE watcher' = [watcher EXCEPT ![w].pc = "create", ![w].cur = c]
  <2> PICK page, batch : page = watcher[w].page /\ batch = watcher[w].batch
    OBVIOUS
  <2>1. /\ watcher'[w].pc = "create" /\ watcher'[w].cur = c
        /\ watcher'[w].page = page /\ watcher'[w].batch = batch
    BY <1>0, <1>3 DEF TypeOK, WatcherState
  <2>2. KeepsTurn(page, batch)'
    BY KeepsTurnKept DEF Turn
  <2>3. KeepsTurn(watcher[w].page, watcher[w].batch)'
    BY <2>1, <2>2 DEF KeepsTurn, Alike
  <2>4. \A b \in page \cup batch : Queued(b)'
    BY DEF Turn, QueueFrame, Queued
  <2>5. First(watcher[w].cur, watcher[w].batch)'
    BY <1>1, <2>1 DEF First, QueueFrame
  <2> QED
    BY <1>1, <2>1, <2>3, <2>4, <2>5 DEF Turn
<1> QED
  BY <1>1, <1>2, <1>3

LEMMA TurnActivate ==
  ASSUME TypeOK, NEW w \in Watchers, Turn(w), QueueFrame, WatcherCreate(w) \/ WatcherExpose(w)
  PROVE  Turn(w)'
<1>0. watcher[w] \in WatcherState /\ Activating(w)
  BY DEF TypeOK, WatcherCreate, WatcherExpose, Activating, InTransaction
<1>1. CASE EndRound(w, TRUE)
  BY <1>1, TurnEnds
<1>2. CASE ~EndRound(w, TRUE)
  <2>1. PICK pc \in {"expose", "commit"} : watcher' = [watcher EXCEPT ![w].pc = pc]
    BY <1>2 DEF WatcherCreate, WatcherExpose, FailRound
  <2> PICK page, batch : page = watcher[w].page /\ batch = watcher[w].batch
    OBVIOUS
  <2>2. /\ watcher'[w].pc = pc /\ watcher'[w].cur = watcher[w].cur
        /\ watcher'[w].page = page /\ watcher'[w].batch = batch
    BY <1>0, <2>1 DEF TypeOK, WatcherState
  <2>3. KeepsTurn(page, batch)'
    BY KeepsTurnKept DEF Turn
  <2>4. KeepsTurn(watcher[w].page, watcher[w].batch)'
    BY <2>2, <2>3 DEF KeepsTurn, Alike
  <2>5. \A b \in page \cup batch : Queued(b)'
    BY DEF Turn, QueueFrame, Queued
  <2>6. First(watcher[w].cur, watcher[w].batch)'
    BY <1>0, <2>2 DEF First, QueueFrame, Turn
  <2> QED
    BY <1>0, <2>2, <2>4, <2>5, <2>6 DEF Turn
<1> QED
  BY <1>1, <1>2

\* What a commit does to the row of its candidate, and that it is the round's first.
LEMMA CommitsFirst ==
  ASSUME TypeOK, NEW w \in Watchers, Turn(w), WatcherCommit(w)
  PROVE  \E c \in Jobs :
           /\ c \in watcher[w].batch /\ First(c, watcher[w].batch)
           /\ \/ /\ rec' = [rec EXCEPT ![c] = "Pending"] /\ claims' = [claims EXCEPT ![c] = @ + 1]
                 /\ NextCandidate(w, c, FALSE)
              \/ UNCHANGED <<rec, claims>> /\ EndRound(w, TRUE)
BY DEF WatcherCommit, FailRound, TypeOK, Turn, Activating, InTransaction

LEMMA TurnCommit ==
  ASSUME TypeOK, NEW w \in Watchers, Turn(w), QueueFrame, WatcherCommit(w)
  PROVE  Turn(w)'
<1>1. PICK c \in Jobs :
        \/ rec' = [rec EXCEPT ![c] = "Pending"] /\ NextCandidate(w, c, FALSE)
        \/ EndRound(w, TRUE)
  BY CommitsFirst
<1>2. CASE EndRound(w, TRUE)
  BY <1>2, TurnEnds
<1>3. CASE rec' = [rec EXCEPT ![c] = "Pending"] /\ NextCandidate(w, c, FALSE)
  <2>1. rec'[c] # "Prequeue"
    BY <1>3 DEF TypeOK
  <2> QED
    BY <1>3, <2>1, TurnDropped
<1> QED
  BY <1>1, <1>2, <1>3

\* Only commits write rows, and they take the row out of the queue.
LEMMA WatcherFrames ==
  ASSUME TypeOK, TurnInv, NEW w \in Watchers, WatcherStep(w) \/ WatcherReadFails(w)
  PROVE  /\ QueueFrame /\ \A v \in Watchers \ {w} : watcher'[v] = watcher[v]
         /\ ~WatcherCommit(w) => UNCHANGED <<rec, claims>>
<1>1. UNCHANGED <<order, overdue, QueueQuotaEnabled, sub>>
  BY DEF WatcherStep, WatcherSignal, WatcherWake, WatcherTick, WatcherPreempt, WatcherScan, WatcherSelect,
         WatcherClaim, WatcherCreate, WatcherExpose, WatcherCommit, WatcherReadFails, LoopOthers
<1>2. ~WatcherCommit(w) => UNCHANGED <<rec, claims>>
  BY DEF WatcherStep, WatcherSignal, WatcherWake, WatcherTick, WatcherPreempt, WatcherScan, WatcherSelect,
         WatcherClaim, WatcherCreate, WatcherExpose, WatcherReadFails
<1>3. \A j \in Jobs : rec'[j] = "Prequeue" => rec[j] = "Prequeue"
  BY <1>2, CommitsFirst DEF TypeOK, TurnInv
<1>4. \A v \in Watchers \ {w} : watcher'[v] = watcher[v]
  BY DEF TypeOK, WatcherStep, WatcherSignal, WatcherWake, WatcherTick, WatcherPreempt, WatcherScan, WatcherSelect,
         WatcherClaim, WatcherCreate, WatcherExpose, WatcherCommit, WatcherReadFails, Begin, EndRound, FailRound,
         NextCandidate
<1> QED
  BY <1>1, <1>2, <1>3, <1>4 DEF QueueFrame, Early

LEMMA TurnWatcherStep ==
  ASSUME TypeOK, ClaimInv, TurnInv, NEW w \in Watchers, WatcherStep(w) \/ WatcherReadFails(w)
  PROVE  TurnInv'
<1>0. watcher[w] \in WatcherState /\ QueueFrame /\ InPatience /\ \A v \in Watchers : Turn(v)
  BY WatcherFrames DEF TypeOK, TurnInv
<1>1. InPatience' /\ \A v \in Watchers \ {w} : Turn(v)'
  BY <1>0, WatcherFrames, PatienceKept, TurnKept
<1>2. CASE WatcherSignal(w) \/ WatcherWake(w) \/ WatcherTick(w)
  <2>1. PICK need \in BOOLEAN : Begin(w, need)
    BY <1>0, <1>2 DEF WatcherSignal, WatcherWake, WatcherTick, WatcherState
  <2>2. /\ watcher'[w].pc = "scan" /\ watcher'[w].page = watcher[w].page
        /\ watcher'[w].batch = watcher[w].batch /\ watcher[w].pc = "wait"
    BY <1>0, <1>2, <2>1 DEF Begin, TypeOK, WatcherState, WatcherSignal, WatcherWake, WatcherTick
  <2> QED
    BY <1>0, <1>1, <2>2, TurnGoesOn DEF Activating, InTransaction, TurnInv
<1>3. CASE WatcherPreempt(w) \/ WatcherReadFails(w)
  <2>1. EndRound(w, TRUE)
    BY <1>3 DEF WatcherPreempt, WatcherReadFails, FailRound
  <2> QED
    BY <1>1, <2>1, TurnEnds DEF TurnInv
<1>4. CASE WatcherScan(w) \/ WatcherSelect(w)
  BY <1>0, <1>1, <1>4, TurnScan, TurnSelect DEF TurnInv
<1>5. CASE WatcherClaim(w)
  <2>1. UNCHANGED rec
    BY <1>5 DEF WatcherClaim
  <2> QED
    BY <1>0, <1>1, <1>5, <2>1, TurnClaim DEF TurnInv
<1>6. CASE WatcherCreate(w) \/ WatcherExpose(w)
  BY <1>0, <1>1, <1>6, TurnActivate DEF TurnInv
<1>7. CASE WatcherCommit(w)
  BY <1>0, <1>1, <1>7, TurnCommit DEF TurnInv
<1> QED
  BY <1>2, <1>3, <1>4, <1>5, <1>6, <1>7 DEF WatcherStep

\* The step the promise is about: a commit passes nobody alike.
LEMMA CommitInTurn ==
  ASSUME TypeOK, ClaimInv, TurnInv, Next, ~QueueQuotaEnabled, NEW i \in DOMAIN order, NEW k \in DOMAIN order,
         i < k, Alike(order[i], order[k]), claims'[order[k]] > claims[order[k]]
  PROVE  rec'[order[i]] # "Prequeue"
<1> DEFINE a == order[i]
           c == order[k]
<1>0. a \in Jobs /\ c \in Jobs /\ Ahead(a, c) /\ claims[c] \in Nat
  BY DEF TypeOK, Ahead
<1>1. claims' # claims
  BY <1>0
<1>2. ASSUME NEW j \in Jobs, \/ SubmitCheck(j) \/ SubmitStep(j) \/ DeleteRead(j) \/ DeleteStep(j)
                              \/ Evolve(j) \/ Clean(j) \/ Timeout(j)
      PROVE  FALSE
  BY <1>1, <1>2 DEF SubmitCheck, SubmitStep, SubmitQueue, SubmitNotify, SubmitCreate, SubmitExpose, SubmitVars,
       DeleteRead, DeleteStep, DeletePlan, DeleteApply, DeleteCluster, DeleteVars, Evolve, Clean, Timeout
<1>3. ~(Reconcile \/ ReconcileFail \/ Restart)
  BY <1>1, TurnReconcileStep DEF Restart
<1>4. PICK w \in Watchers : WatcherStep(w) \/ WatcherReadFails(w)
  BY <1>2, <1>3 DEF Next
<1>5. QueueFrame /\ WatcherCommit(w)
  BY <1>1, <1>4, WatcherFrames
<1>6. PICK b \in Jobs : /\ b \in watcher[w].batch /\ First(b, watcher[w].batch)
                        /\ claims' = [claims EXCEPT ![b] = @ + 1]
  BY <1>1, <1>5, CommitsFirst DEF TurnInv
<1>7. b = c
  BY <1>0, <1>6 DEF TypeOK
<1>8. a \notin watcher[w].batch
  BY <1>0, <1>6, <1>7, FirstIsAhead DEF TurnInv, TypeOK
<1>9. rec[a] # "Prequeue"
  BY <1>0, <1>6, <1>7, <1>8 DEF TurnInv, Turn, KeepsTurn
<1> QED
  BY <1>0, <1>5, <1>9 DEF QueueFrame

\* When all who wait were submitted with the same tolerance, then without quotas a
\* job is never activated past one like it that was queued earlier and is still in
\* the queue, whatever fails, is deleted, restarts or is timed out meanwhile.
THEOREM ServedInTurn == ASSUME UniformTolerance PROVE Spec => FirstComeFirstServed
<1>1. Init => TurnInv
  BY DEF Init, TurnInv, InPatience, Ahead, Turn, KeepsTurn, NoWatch, Activating, InTransaction
<1>2. TypeOK /\ ClaimInv /\ FlowInv /\ TurnInv /\ [Next]_vars => TurnInv'
  <2> SUFFICES ASSUME TypeOK, ClaimInv, FlowInv, TurnInv, [Next]_vars PROVE TurnInv'
    OBVIOUS
  <2>1. CASE UNCHANGED vars
    BY <2>1, TurnFramed DEF vars, dbVars, loopVars, QueueFrame, Early
  <2>2. ASSUME NEW j \in Jobs, \/ SubmitCheck(j) \/ SubmitStep(j) \/ DeleteRead(j) \/ DeleteStep(j)
                                \/ Evolve(j) \/ Clean(j) \/ Timeout(j)
        PROVE  TurnInv'
    BY <2>2, TurnQuietStep, TurnSubmitQueue, TurnTimeout, TurnFramed DEF SubmitStep
  <2>3. CASE Reconcile \/ ReconcileFail
    BY <2>3, TurnReconcileStep, TurnFramed
  <2> QED
    BY <2>1, <2>2, <2>3, TurnWatcherStep, TurnRestart DEF Next
<1> DEFINE Passed == \A i, k \in DOMAIN order :
             ~QueueQuotaEnabled /\ i < k /\ Alike(order[i], order[k]) /\ claims'[order[k]] > claims[order[k]]
               => rec'[order[i]] # "Prequeue"
<1>3. TypeOK /\ ClaimInv /\ TurnInv /\ [Next]_vars => [Passed]_vars
  BY CommitInTurn
<1> QED
  BY <1>1, <1>2, <1>3, TypeCorrect, ClaimsSound, RowsSound, PTL DEF Spec, FirstComeFirstServed

-----------------------------------------------------------------------------
(* What victims request together.                                          *)

\* What a victim requests is known, and there are finitely many.
Sized == IsFiniteSet(Victims) /\ size \in [Victims -> Sums]

SizesOf(r) == [v \in Victims |-> size[v][r]]

LEMMA SizeIsTotal ==
  ASSUME Sized, NEW S \in SUBSET Victims, NEW r \in Resource
  PROVE  SizeOf(S)[r] = Total(SizesOf(r), S)
<1> DEFINE f == SizesOf(r)
           Adds(g) == g = [s \in SUBSET S |-> IF s = {} THEN 0
                                              ELSE size[AnyOf(s)][r] + g[s \ {AnyOf(s)}]]
           fold == CHOOSE g : Adds(g)
<1>0. IsFiniteSet(S)
  BY FS_Subset DEF Sized
<1>1. \A s \in SUBSET S : s # {} => f[AnyOf(s)] = size[AnyOf(s)][r]
  BY Member DEF SizesOf
<1>2. \A g : Adds(g) <=> IsSum(g, f, S)
  BY <1>1 DEF IsSum
<1>3. \E g : Adds(g)
  <2> HIDE DEF Adds, f
  <2> QED
    BY <1>0, <1>2, SummationExists
<1>4. Adds(fold)
  <2> HIDE DEF Adds
  <2> QED
    BY <1>3
<1>5. IsSum(fold, f, S)
  <2> HIDE DEF Adds, fold, f
  <2> QED
    BY <1>2, <1>4
<1>6. SizeOf(S)[r] = fold[S]
  BY DEF SizeOf, MapThenSumSet, MapThenFoldSet, AnyOf
<1>7. PICK h : IsSum(h, f, S) /\ Total(f, S) = h[S]
  <2> HIDE DEF f
  <2> QED
    BY <1>0, TotalFold
<1>8. fold[S] = h[S]
  <2> HIDE DEF f, fold
  <2> QED
    BY <1>0, <1>5, <1>7, SummationAgrees
<1> QED
  BY <1>6, <1>7, <1>8

LEMMA SizesAreNat ==
  ASSUME Sized, NEW r \in Resource, NEW S \in SUBSET Victims
  PROVE  IsFiniteSet(S) /\ \A v \in S : SizesOf(r)[v] \in Nat /\ SizesOf(r)[v] = size[v][r]
  BY FS_Subset DEF Sized, Sums, SizesOf

LEMMA SizeType == ASSUME Sized, NEW S \in SUBSET Victims PROVE SizeOf(S) \in Sums
<1>1. ASSUME NEW r \in Resource PROVE SizeOf(S)[r] \in Nat
  <2>1. SizeOf(S)[r] = Total(SizesOf(r), S) /\ IsFiniteSet(S) /\ \A v \in S : SizesOf(r)[v] \in Nat
    BY SizesAreNat, SizeIsTotal
  <2>2. Total(SizesOf(r), {}) <= Total(SizesOf(r), S)
    BY <2>1, TotalGrows
  <2>3. Total(SizesOf(r), S) \in Int /\ Total(SizesOf(r), {}) = 0
    BY <2>1, TotalIsInt, EmptyTotal
  <2> QED
    BY <2>1, <2>2, <2>3
<1>2. SizeOf(S) = [r \in Resource |-> SizeOf(S)[r]]
  BY DEF SizeOf
<1> QED
  BY <1>1, <1>2 DEF Sums

LEMMA SizeEmpty == ASSUME Sized PROVE SizeOf({}) = None
<1>1. \A r \in Resource : SizeOf({})[r] = 0
  BY SizeIsTotal, EmptyTotal
<1>2. SizeOf({}) = [r \in Resource |-> SizeOf({})[r]]
  BY DEF SizeOf
<1> QED
  BY <1>1, <1>2 DEF None

LEMMA SizeWithout ==
  ASSUME Sized, NEW S \in SUBSET Victims, NEW v \in S, NEW r \in Resource
  PROVE  SizeOf(S)[r] = size[v][r] + SizeOf(S \ {v})[r]
<1>1. Total(SizesOf(r), S) = SizesOf(r)[v] + Total(SizesOf(r), S \ {v})
  BY SizesAreNat, TotalWithout
<1> QED
  BY <1>1, SizesAreNat, SizeIsTotal

LEMMA SizeGrows ==
  ASSUME Sized, NEW S \in SUBSET Victims, NEW T \in SUBSET S, NEW r \in Resource
  PROVE  SizeOf(T)[r] <= SizeOf(S)[r]
<1>1. Total(SizesOf(r), T) <= Total(SizesOf(r), S)
  BY SizesAreNat, TotalGrows
<1> QED
  BY <1>1, SizeIsTotal

LEMMA SizeUnion ==
  ASSUME Sized, NEW S \in SUBSET Victims, NEW T \in SUBSET Victims, S \cap T = {}, NEW r \in Resource
  PROVE  SizeOf(S \cup T)[r] = SizeOf(S)[r] + SizeOf(T)[r]
<1>1. S \cup T \in SUBSET Victims
  OBVIOUS
<1>2. Total(SizesOf(r), S \cup T) = Total(SizesOf(r), S) + Total(SizesOf(r), T)
  <2>1. IsFiniteSet(S) /\ IsFiniteSet(T) /\ \A v \in S \cup T : SizesOf(r)[v] \in Int
    BY <1>1, SizesAreNat
  <2> QED
    BY <2>1, TotalUnion
<1> QED
  BY <1>1, <1>2, SizeIsTotal

-----------------------------------------------------------------------------
(* The search.                                                             *)

\* One step of the search, from what f says of later ones.
SearchStep(f, cand, deficit, s) ==
  IF s[2] = 0 THEN IF ResourceListCovers(s[4], deficit) THEN s[3] ELSE <<>>
  ELSE IF Len(cand) - s[1] + 1 < s[2] THEN <<>>
  ELSE LET next  == Append(s[3], cand[s[1]])
           found == f[<<s[1] + 1, s[2] - 1, next, Plus(s[4], size[cand[s[1]]])>>]
       IN  IF found # <<>> THEN found ELSE f[<<s[1] + 1, s[2], next, s[4]>>]

Searches(f, cand, deficit) == f = [s \in SearchState |-> SearchStep(f, cand, deficit, s)]

\* How many candidates are ahead.
Remaining(cand, s) == Len(cand) + 1 - s[1]

\* The step looks only at states with fewer candidates ahead.
LEMMA StepAgrees ==
  ASSUME Sized, NEW cand \in Seq(Victims), NEW deficit, NEW f, NEW g, NEW n \in Nat,
         \A s \in SearchState : Remaining(cand, s) <= n => f[s] = g[s],
         NEW s \in SearchState, Remaining(cand, s) <= n + 1
  PROVE  SearchStep(f, cand, deficit, s) = SearchStep(g, cand, deficit, s)
<1>1. CASE s[2] = 0
  BY <1>1 DEF SearchStep
<1>2. CASE Len(cand) - s[1] + 1 < s[2]
  BY <1>2 DEF SearchStep
<1>3. CASE s[2] # 0 /\ ~(Len(cand) - s[1] + 1 < s[2])
  <2> DEFINE next == Append(s[3], cand[s[1]])
             with == <<s[1] + 1, s[2] - 1, next, Plus(s[4], size[cand[s[1]]])>>
             past == <<s[1] + 1, s[2], next, s[4]>>
  <2>1. s[1] \in Nat \ {0} /\ s[2] \in Nat /\ s[3] \in Seq(Victims) /\ s[4] \in Sums
    BY DEF SearchState
  <2>2. Len(cand) \in Nat /\ s[1] \in 1..Len(cand) /\ cand[s[1]] \in Victims
    BY <1>3, <2>1
  <2>3. next \in Seq(Victims) /\ Plus(s[4], size[cand[s[1]]]) \in Sums
    BY <2>1, <2>2 DEF Sized, Plus, Sums
  <2>4. s[2] - 1 \in Nat /\ s[1] + 1 \in Nat \ {0}
    BY <1>3, <2>1
  <2>5. with \in SearchState /\ past \in SearchState
    BY <2>1, <2>3, <2>4 DEF SearchState
  <2>6. Remaining(cand, with) <= n /\ Remaining(cand, past) <= n
    BY <2>1, <2>2 DEF Remaining
  <2>7. f[with] = g[with] /\ f[past] = g[past]
    BY <2>5, <2>6
  <2> QED
    BY <1>3, <2>7 DEF SearchStep
<1> QED
  BY <1>1, <1>2, <1>3

\* There is a function that does each step of the search.
LEMMA SearchExists ==
  ASSUME Sized, NEW cand \in Seq(Victims), NEW deficit
  PROVE  \E f : Searches(f, cand, deficit)
<1> DEFINE On(f) == f = [s \in SearchState |-> f[s]]
           Upto(n) == \E f : On(f) /\ \A s \in SearchState :
                        Remaining(cand, s) <= n => f[s] = SearchStep(f, cand, deficit, s)
           T == {n \in Nat : ~Upto(n)}
<1>0. \A s \in SearchState : Remaining(cand, s) \in Int /\ Remaining(cand, s) <= Len(cand) /\ Len(cand) \in Nat
  BY DEF SearchState, Remaining
<1>1. Upto(0)
  <2> DEFINE z == [s \in SearchState |-> <<>>]
             f == [s \in SearchState |-> SearchStep(z, cand, deficit, s)]
  <2>1. ASSUME NEW s \in SearchState, Remaining(cand, s) <= 0, NEW g, NEW h
        PROVE  SearchStep(g, cand, deficit, s) = SearchStep(h, cand, deficit, s)
    <3>1. s[1] \in Nat /\ s[2] \in Nat /\ Len(cand) \in Nat
      BY DEF SearchState
    <3>2. s[2] = 0 \/ Len(cand) - s[1] + 1 < s[2]
      BY <2>1, <3>1 DEF Remaining
    <3> QED
      BY <3>2 DEF SearchStep
  <2>2. \A s \in SearchState : f[s] = SearchStep(z, cand, deficit, s)
    OBVIOUS
  <2>3. On(f)
    OBVIOUS
  <2> HIDE DEF f, z
  <2> QED
    BY <2>1, <2>2, <2>3
<1>2. ASSUME NEW n \in Nat, Upto(n) PROVE Upto(n + 1)
  <2>1. PICK f : On(f) /\ \A s \in SearchState :
                   Remaining(cand, s) <= n => f[s] = SearchStep(f, cand, deficit, s)
    BY <1>2
  <2> DEFINE g == [s \in SearchState |-> SearchStep(f, cand, deficit, s)]
  <2>2. \A s \in SearchState : g[s] = SearchStep(f, cand, deficit, s)
    OBVIOUS
  <2>3. On(g)
    OBVIOUS
  <2> HIDE DEF g
  <2>4. \A s \in SearchState : Remaining(cand, s) <= n => f[s] = g[s]
    BY <2>1, <2>2
  <2>5. \A s \in SearchState : Remaining(cand, s) <= n + 1 => g[s] = SearchStep(g, cand, deficit, s)
    BY <2>2, <2>4, StepAgrees
  <2> QED
    BY <2>3, <2>5
<1>3. T = {}
  <2> SUFFICES ASSUME T # {} PROVE FALSE
    OBVIOUS
  <2>1. PICK n \in T : \A m \in T : n <= m
    <3>1. T \in SUBSET Nat
      OBVIOUS
    <3> HIDE DEF T
    <3> QED
      BY <3>1, LeastNumber
  <2> HIDE DEF Upto
  <2>2. n # 0
    BY <1>1
  <2>3. n - 1 \in Nat /\ ~(n <= n - 1)
    BY <2>2
  <2>4. Upto(n - 1)
    BY <2>1, <2>3
  <2>5. Upto(n)
    BY <1>2, <2>3, <2>4
  <2> QED
    BY <2>5
<1>4. PICK f : On(f) /\ \A s \in SearchState :
                 Remaining(cand, s) <= Len(cand) => f[s] = SearchStep(f, cand, deficit, s)
  <2>1. Len(cand) \in Nat
    OBVIOUS
  <2> QED
    BY <1>3, <2>1
<1>5. Searches(f, cand, deficit)
  <2>1. \A s \in SearchState : f[s] = SearchStep(f, cand, deficit, s)
    BY <1>0, <1>4
  <2> QED
    BY <1>4, <2>1 DEF Searches
<1> QED
  BY <1>5

LEMMA SearchUnfolds ==
  ASSUME Sized, NEW cand \in Seq(Victims), NEW deficit
  PROVE  Searches(Search(cand, deficit), cand, deficit)
<1> DEFINE f == CHOOSE g : Searches(g, cand, deficit)
<1>1. Searches(f, cand, deficit)
  <2>1. \E g : Searches(g, cand, deficit)
    BY SearchExists
  <2> QED
    BY <2>1
<1>2. Search(cand, deficit) = f
  BY DEF Search, Searches, SearchStep
<1> QED
  BY <1>1, <1>2

\* The candidates from the i-th on, and the first k of them.
From(cand, i)  == {cand[j] : j \in i..Len(cand)}
FirstOf(cand, k) == [j \in 1..k |-> cand[j]]

\* Candidates are distinct victims.
Distinct(cand) == cand \in Seq(Victims) /\ \A i, j \in 1..Len(cand) : cand[i] = cand[j] => i = j

\* A state in which the search tries the i-th candidate.
Tried(cand, s) == s \in SearchState /\ s[1] \in 1..(Len(cand) + 1) /\ s[3] = FirstOf(cand, s[1] - 1)

\* What is summed already and T give enough.
Enough(T, s, deficit) == \A r \in Resource : s[4][r] + SizeOf(T)[r] >= deficit[r]

\* A result is of the first candidates, as many as are left to take among them give enough.
Relieves(p, cand, deficit, s) ==
  \E k \in 1..Len(cand) : /\ p = FirstOf(cand, k) /\ s[1] - 1 <= k
                          /\ \E T \in SUBSET {v \in From(cand, s[1]) : v \in ToSet(p)} :
                               Cardinality(T) = s[2] /\ Enough(T, s, deficit)

\* When there is no result, no choice of those ahead would have been enough.
Hopeless(cand, deficit, s) ==
  \A T \in SUBSET From(cand, s[1]) : Cardinality(T) = s[2] => ~Enough(T, s, deficit)

Right(p, cand, deficit, s) ==
  /\ p # <<>> => Relieves(p, cand, deficit, s)
  /\ p = <<>> /\ (s[2] # 0 \/ s[1] # 1) => Hopeless(cand, deficit, s)

LEMMA FromFacts ==
  ASSUME Sized, NEW cand, Distinct(cand), NEW i \in 1..(Len(cand) + 1)
  PROVE  /\ From(cand, i) \in SUBSET Victims
         /\ IsFiniteSet(From(cand, i)) /\ Cardinality(From(cand, i)) <= Len(cand) + 1 - i
         /\ i <= Len(cand) => /\ From(cand, i) = From(cand, i + 1) \cup {cand[i]}
                              /\ cand[i] \notin From(cand, i + 1) /\ cand[i] \in Victims
<1>0. Len(cand) \in Nat /\ i \in Nat \ {0} /\ cand \in Seq(Victims)
  BY DEF Distinct
<1>1. From(cand, i) \in SUBSET Victims
  BY <1>0 DEF From
<1>2. IsFiniteSet(From(cand, i)) /\ Cardinality(From(cand, i)) <= Len(cand) + 1 - i
  <2> DEFINE f == [j \in i..Len(cand) |-> cand[j]]
             F == From(cand, i)
  <2>1. f \in [i..Len(cand) -> F] /\ \A v \in F : \E j \in i..Len(cand) : f[j] = v
    BY DEF From
  <2>2. f \in Surjection(i..Len(cand), F)
    BY <2>1 DEF Surjection
  <2>3. IsFiniteSet(i..Len(cand)) /\ Cardinality(i..Len(cand)) = Len(cand) + 1 - i
    <3> SUFFICES ASSUME NEW n \in Nat, i \in 1..(n + 1)
                 PROVE  IsFiniteSet(i..n) /\ Cardinality(i..n) = n + 1 - i
      BY <1>0
    <3>1. i \in Int /\ n \in Int
      BY <1>0
    <3>2. IsFiniteSet(i..n) /\ Cardinality(i..n) = IF i > n THEN 0 ELSE n - i + 1
      BY <3>1, FS_Interval, Zenon
    <3>3. i > n => n + 1 - i = 0
      BY <1>0
    <3> QED
      BY <3>1, <3>2, <3>3
  <2> HIDE DEF f, F
  <2>4. IsFiniteSet(F) /\ Cardinality(F) <= Cardinality(i..Len(cand))
    BY <2>2, <2>3, FS_Surjection
  <2> QED
    BY <2>3, <2>4 DEF F
<1>3. ASSUME i <= Len(cand)
      PROVE  /\ From(cand, i) = From(cand, i + 1) \cup {cand[i]}
             /\ cand[i] \notin From(cand, i + 1) /\ cand[i] \in Victims
  <2>1. i..Len(cand) = ((i + 1)..Len(cand)) \cup {i}
    BY <1>0, <1>3
  <2>2. From(cand, i) = From(cand, i + 1) \cup {cand[i]}
    BY <2>1 DEF From
  <2>3. cand[i] \notin From(cand, i + 1)
    BY <1>0, <1>3 DEF From, Distinct
  <2> QED
    BY <1>0, <1>3, <2>2, <2>3
<1> QED
  BY <1>1, <1>2, <1>3

LEMMA FirstGrows ==
  ASSUME NEW cand \in Seq(Victims), NEW i \in 1..Len(cand)
  PROVE  /\ FirstOf(cand, i - 1) \in Seq(Victims) /\ Len(FirstOf(cand, i - 1)) = i - 1
         /\ Append(FirstOf(cand, i - 1), cand[i]) = FirstOf(cand, i)
<1>1. i - 1 \in Nat /\ Len(cand) \in Nat /\ \A j \in 1..Len(cand) : cand[j] \in Victims
  OBVIOUS
<1>2. FirstOf(cand, i - 1) \in Seq(Victims) /\ Len(FirstOf(cand, i - 1)) = i - 1
  BY <1>1 DEF FirstOf
<1>3. DOMAIN Append(FirstOf(cand, i - 1), cand[i]) = 1..i
  BY <1>1, <1>2
<1>4. \A j \in 1..i : Append(FirstOf(cand, i - 1), cand[i])[j] = cand[j]
  BY <1>1, <1>2 DEF FirstOf
<1> QED
  BY <1>1, <1>2, <1>3, <1>4 DEF FirstOf

\* None of the candidates ahead is taken.
LEMMA NothingLeft ==
  ASSUME Sized, NEW cand, Distinct(cand), NEW deficit \in Sums, NEW s, Tried(cand, s), s[2] = 0,
         NEW f, f[s] = SearchStep(f, cand, deficit, s)
  PROVE  Right(f[s], cand, deficit, s)
<1>1. f[s] = IF ResourceListCovers(s[4], deficit) THEN FirstOf(cand, s[1] - 1) ELSE <<>>
  BY DEF SearchStep, Tried
<1>2. ResourceListCovers(s[4], deficit) <=> Enough({}, s, deficit)
  <2>1. \A r \in Resource : SizeOf({})[r] = 0 /\ s[4][r] \in Nat
    BY SizeEmpty DEF None, Tried, SearchState, Sums
  <2> QED
    BY <2>1 DEF ResourceListCovers, Enough
<1>3. \A T \in SUBSET From(cand, s[1]) : Cardinality(T) = 0 => T = {}
  BY FromFacts, FS_Subset, FS_EmptySet DEF Tried
<1>4. s[1] \in Nat \ {0} /\ s[1] <= Len(cand) + 1 /\ Len(cand) \in Nat
  BY DEF Tried, Distinct, SearchState
<1>5. ASSUME f[s] # <<>> PROVE Relieves(f[s], cand, deficit, s)
  <2>1. f[s] = FirstOf(cand, s[1] - 1) /\ Enough({}, s, deficit)
    BY <1>1, <1>2, <1>5
  <2>2. s[1] - 1 # 0
    BY <1>5, <2>1 DEF FirstOf
  <2>3. s[1] - 1 \in 1..Len(cand) /\ Cardinality({}) = s[2]
    BY <1>4, <2>2, FS_EmptySet
  <2> QED
    BY <2>1, <2>3 DEF Relieves
<1>6. ASSUME f[s] = <<>>, s[1] # 1 PROVE Hopeless(cand, deficit, s)
  <2>1. s[1] - 1 \in Nat \ {0}
    BY <1>4, <1>6
  <2>2. FirstOf(cand, s[1] - 1) # <<>>
    <3> SUFFICES ASSUME NEW k \in Nat \ {0} PROVE FirstOf(cand, k) # <<>>
      BY <2>1
    <3> QED
      BY DEF FirstOf
  <2> QED
    BY <1>1, <1>2, <1>3, <1>6, <2>2 DEF Hopeless
<1> QED
  BY <1>5, <1>6 DEF Right

\* Fewer candidates are ahead than have to be taken.
LEMMA TooFewLeft ==
  ASSUME Sized, NEW cand, Distinct(cand), NEW deficit \in Sums, NEW s, Tried(cand, s), s[2] # 0,
         Len(cand) - s[1] + 1 < s[2],
         NEW f, f[s] = SearchStep(f, cand, deficit, s)
  PROVE  Right(f[s], cand, deficit, s)
<1>1. f[s] = <<>>
  BY DEF SearchStep
<1>2. s[1] \in Nat /\ s[2] \in Nat /\ Len(cand) \in Nat
  BY DEF Tried, Distinct, SearchState
<1>3. ASSUME NEW T \in SUBSET From(cand, s[1]) PROVE Cardinality(T) # s[2]
  <2>1. IsFiniteSet(From(cand, s[1])) /\ Cardinality(From(cand, s[1])) <= Len(cand) + 1 - s[1]
    BY FromFacts DEF Tried
  <2>2. Cardinality(T) <= Cardinality(From(cand, s[1])) /\ Cardinality(T) \in Nat /\ Cardinality(From(cand, s[1])) \in Nat
    BY <2>1, FS_Subset, FS_CardinalityType
  <2> QED
    BY <1>2, <2>1, <2>2
<1> QED
  BY <1>1, <1>3 DEF Right, Hopeless

\* The next candidate is taken, or else passed.
LEMMA NextIsTried ==
  ASSUME Sized, NEW cand, Distinct(cand), NEW deficit \in Sums, NEW s, Tried(cand, s), s[2] # 0,
         ~(Len(cand) - s[1] + 1 < s[2]),
         NEW f, f[s] = SearchStep(f, cand, deficit, s),
         \A t : Tried(cand, t) /\ t[1] = s[1] + 1 => Right(f[t], cand, deficit, t)
  PROVE  Right(f[s], cand, deficit, s)
<1> DEFINE n    == Len(cand)
           i    == s[1]
           left == s[2]
           v    == cand[i]
           rest == From(cand, i + 1)
           with == Plus(s[4], size[v])
           taken  == <<i + 1, left - 1, FirstOf(cand, i), with>>
           passed == <<i + 1, left, FirstOf(cand, i), s[4]>>
<1>1. n \in Nat /\ cand \in Seq(Victims) /\ i \in 1..n /\ left \in Nat \ {0} /\ s[4] \in Sums
  BY DEF Tried, Distinct, SearchState
<1>2. /\ i \in 1..(Len(cand) + 1) /\ i \in 1..Len(cand) /\ i <= Len(cand)
      /\ i + 1 \in 1..(Len(cand) + 1) /\ i + 1 \in Nat \ {0}
      /\ left - 1 \in Nat /\ (i + 1) - 1 = i /\ i + 1 # 1
  <2> HIDE DEF i, left
  <2> QED
    BY <1>1
<1> HIDE DEF i
<1>3. /\ From(cand, i) = rest \cup {v} /\ v \notin rest /\ v \in Victims
      /\ rest \in SUBSET Victims /\ IsFiniteSet(rest)
  <2>1. From(cand, i) = rest \cup {v} /\ v \notin rest /\ v \in Victims
    BY <1>2, FromFacts
  <2>2. rest \in SUBSET Victims /\ IsFiniteSet(rest)
    BY <1>2, FromFacts
  <2> QED
    BY <2>1, <2>2
<1>4. Append(FirstOf(cand, i - 1), v) = FirstOf(cand, i) /\ FirstOf(cand, i) \in Seq(Victims)
  <2>1. Append(FirstOf(cand, i - 1), v) = FirstOf(cand, i)
    BY <1>1, <1>2, FirstGrows
  <2>2. \A j \in 1..i : cand[j] \in Victims
    BY <1>1
  <2>3. i \in Nat
    BY <1>1
  <2>4. FirstOf(cand, i) \in Seq(Victims)
    BY <2>2, <2>3 DEF FirstOf
  <2> QED
    BY <2>1, <2>4
<1>5. with \in Sums /\ \A r \in Resource : /\ with[r] = s[4][r] + size[v][r]
                                           /\ s[4][r] \in Nat /\ size[v][r] \in Nat
  <2>1. size[v] \in Sums
    BY <1>3 DEF Sized
  <2> HIDE DEF v
  <2> QED
    BY <1>1, <2>1 DEF Plus, Sums
<1> HIDE DEF n, left, v, rest, with
<1>6. s[3] = FirstOf(cand, i - 1)
  BY DEF Tried, i
<1>7. f[s] = IF f[taken] # <<>> THEN f[taken] ELSE f[passed]
  <2>1. s[3] = FirstOf(cand, s[1] - 1) /\ Append(s[3], cand[s[1]]) = FirstOf(cand, i)
    BY <1>4, <1>6 DEF i, v
  <2> QED
    BY <2>1 DEF SearchStep, i, v, left, with
<1>8. Tried(cand, taken) /\ Tried(cand, passed)
  <2>1. taken \in SearchState /\ passed \in SearchState
    BY <1>1, <1>2, <1>4, <1>5 DEF SearchState
  <2>2. taken[1] = i + 1 /\ passed[1] = i + 1 /\ taken[3] = FirstOf(cand, i) /\ passed[3] = FirstOf(cand, i)
    OBVIOUS
  <2> HIDE DEF taken, passed
  <2> QED
    BY <1>2, <2>1, <2>2 DEF Tried
<1>9. /\ taken[1] = i + 1 /\ passed[1] = i + 1 /\ taken[2] = left - 1 /\ passed[2] = left
      /\ taken[4] = with /\ passed[4] = s[4]
  OBVIOUS
<1> HIDE DEF taken, passed
<1>10. Right(f[taken], cand, deficit, taken) /\ Right(f[passed], cand, deficit, passed)
  BY <1>8, <1>9 DEF i
<1>11. ASSUME NEW T \in SUBSET rest
       PROVE  /\ T \in SUBSET Victims /\ IsFiniteSet(T) /\ Cardinality(T) \in Nat
              /\ Cardinality(T \cup {v}) = Cardinality(T) + 1
              /\ Enough(T \cup {v}, s, deficit) <=> Enough(T, taken, deficit)
  <2>1. T \in SUBSET Victims /\ IsFiniteSet(T) /\ Cardinality(T) \in Nat /\ v \notin T
    BY <1>3, FS_Subset, FS_CardinalityType
  <2>2. Cardinality(T \cup {v}) = Cardinality(T) + 1
    BY <2>1, FS_AddElement
  <2>3. ASSUME NEW r \in Resource
        PROVE  s[4][r] + SizeOf(T \cup {v})[r] = with[r] + SizeOf(T)[r]
    <3> DEFINE U == T \cup {v}
    <3>1. U \in SUBSET Victims /\ v \in U /\ U \ {v} = T
      BY <1>3, <2>1
    <3> HIDE DEF U
    <3>2. SizeOf(U)[r] = size[v][r] + SizeOf(T)[r]
      BY <3>1, SizeWithout
    <3>3. SizeOf(T)[r] \in Nat
      BY <2>1, SizeType DEF Sums
    <3>4. SizeOf(U)[r] \in Nat
      BY <3>1, SizeType DEF Sums
    <3>5. s[4][r] + SizeOf(U)[r] = with[r] + SizeOf(T)[r]
      BY <1>5, <3>2, <3>3, <3>4
    <3> QED
      BY <3>5 DEF U
  <2>4. Enough(T \cup {v}, s, deficit) <=> Enough(T, taken, deficit)
    BY <1>9, <2>3 DEF Enough
  <2> QED
    BY <2>1, <2>2, <2>4
<1>12. ASSUME f[taken] # <<>> PROVE Right(f[s], cand, deficit, s)
  <2>1. f[s] = f[taken]
    BY <1>7, <1>12
  <2>2. PICK k \in 1..Len(cand) :
          /\ f[taken] = FirstOf(cand, k) /\ (i + 1) - 1 <= k
          /\ \E T \in SUBSET {w \in rest : w \in ToSet(f[taken])} :
               Cardinality(T) = left - 1 /\ Enough(T, taken, deficit)
    BY <1>9, <1>10, <1>12 DEF Right, Relieves, rest
  <2>3. PICK T \in SUBSET {w \in rest : w \in ToSet(f[taken])} :
          Cardinality(T) = left - 1 /\ Enough(T, taken, deficit)
    BY <2>2
  <2>4. i <= k /\ i - 1 <= k /\ i \in 1..k
    BY <1>1, <1>2, <2>2 DEF n
  <2>5. v \in ToSet(f[taken])
    <3>1. i \in DOMAIN f[taken] /\ f[taken][i] = v
      BY <2>2, <2>4 DEF FirstOf, v
    <3> QED
      BY <3>1 DEF ToSet
  <2>6. T \cup {v} \in SUBSET {w \in From(cand, i) : w \in ToSet(f[s])}
    BY <1>3, <2>1, <2>3, <2>5
  <2>7. Cardinality(T \cup {v}) = left /\ Enough(T \cup {v}, s, deficit)
    <3>1. T \in SUBSET rest
      OBVIOUS
    <3>2. Cardinality(T \cup {v}) = Cardinality(T) + 1 /\ (Enough(T \cup {v}, s, deficit) <=> Enough(T, taken, deficit))
      BY <1>11, <3>1
    <3> QED
      BY <1>1, <2>3, <3>2
  <2>8. Relieves(f[s], cand, deficit, s)
    BY <2>1, <2>2, <2>4, <2>6, <2>7 DEF Relieves, i, left
  <2> QED
    BY <1>12, <2>1, <2>8 DEF Right
<1>13. ASSUME f[taken] = <<>>, f[passed] # <<>> PROVE Right(f[s], cand, deficit, s)
  <2>1. f[s] = f[passed]
    BY <1>7, <1>13
  <2>2. PICK k \in 1..Len(cand) :
          /\ f[passed] = FirstOf(cand, k) /\ (i + 1) - 1 <= k
          /\ \E T \in SUBSET {w \in rest : w \in ToSet(f[passed])} :
               Cardinality(T) = left /\ Enough(T, passed, deficit)
    BY <1>9, <1>10, <1>13 DEF Right, Relieves, rest
  <2>3. PICK T \in SUBSET {w \in rest : w \in ToSet(f[passed])} :
          Cardinality(T) = left /\ Enough(T, passed, deficit)
    BY <2>2
  <2>4. T \in SUBSET {w \in From(cand, i) : w \in ToSet(f[s])} /\ Enough(T, s, deficit)
    BY <1>3, <1>9, <2>1, <2>3 DEF Enough
  <2>5. i - 1 <= k
    BY <1>1, <1>2, <2>2
  <2>6. Relieves(f[s], cand, deficit, s)
    BY <2>1, <2>2, <2>3, <2>4, <2>5 DEF Relieves, i, left
  <2> QED
    BY <1>13, <2>1, <2>6 DEF Right
<1>14. ASSUME f[taken] = <<>>, f[passed] = <<>> PROVE Right(f[s], cand, deficit, s)
  <2>1. f[s] = <<>>
    BY <1>7, <1>14
  <2>2. Hopeless(cand, deficit, taken) /\ Hopeless(cand, deficit, passed)
    BY <1>2, <1>9, <1>10, <1>14 DEF Right
  <2>3. ASSUME NEW T \in SUBSET From(cand, i), Cardinality(T) = left PROVE ~Enough(T, s, deficit)
    <3>1. CASE v \in T
      <4> DEFINE U == T \ {v}
      <4>1. U \in SUBSET rest /\ U \cup {v} = T
        BY <1>3, <3>1
      <4> HIDE DEF U
      <4>2. Cardinality(T) = Cardinality(U) + 1 /\ Cardinality(U) \in Nat /\ (Enough(T, s, deficit) <=> Enough(U, taken, deficit))
        BY <1>11, <4>1
      <4>3. Cardinality(U) = left - 1
        BY <1>1, <2>3, <4>2
      <4>4. ~Enough(U, taken, deficit)
        BY <1>9, <2>2, <4>1, <4>3 DEF Hopeless, rest
      <4> QED
        BY <4>2, <4>4
    <3>2. CASE v \notin T
      <4>1. T \in SUBSET rest
        BY <1>3, <3>2
      <4>2. ~Enough(T, passed, deficit)
        BY <1>9, <2>2, <2>3, <4>1 DEF Hopeless, rest
      <4> QED
        BY <1>9, <4>2 DEF Enough
    <3> QED
      BY <3>1, <3>2
  <2>4. Hopeless(cand, deficit, s)
    BY <2>3 DEF Hopeless, i, left
  <2> QED
    BY <2>1, <2>4 DEF Right
<1> QED
  BY <1>12, <1>13, <1>14

\* What the search says is right wherever it is asked.
LEMMA SearchIsRight ==
  ASSUME Sized, NEW cand, Distinct(cand), NEW deficit \in Sums, NEW s, Tried(cand, s)
  PROVE  Right(Search(cand, deficit)[s], cand, deficit, s)
<1> DEFINE f == Search(cand, deficit)
           T == {n \in Nat : \E t : Tried(cand, t) /\ Remaining(cand, t) = n /\ ~Right(f[t], cand, deficit, t)}
<1>0. Searches(f, cand, deficit)
  BY SearchUnfolds DEF Distinct
<1>1. \A t \in SearchState : f[t] = SearchStep(f, cand, deficit, t)
  BY <1>0 DEF Searches
<1>2. \A t : Tried(cand, t) => Remaining(cand, t) \in Nat /\ t[1] \in Nat /\ Len(cand) \in Nat
  BY DEF Tried, Remaining, Distinct, SearchState
<1> HIDE DEF f
<1>3. T = {}
  <2> SUFFICES ASSUME T # {} PROVE FALSE
    OBVIOUS
  <2>1. PICK n \in T : \A m \in T : n <= m
    <3>1. T \in SUBSET Nat
      OBVIOUS
    <3> HIDE DEF T
    <3> QED
      BY <3>1, LeastNumber
  <2>2. PICK t : Tried(cand, t) /\ Remaining(cand, t) = n /\ ~Right(f[t], cand, deficit, t)
    BY <2>1
  <2>3. f[t] = SearchStep(f, cand, deficit, t)
    BY <1>1, <2>2 DEF Tried
  <2>4. ASSUME NEW u, Tried(cand, u), u[1] = t[1] + 1 PROVE Right(f[u], cand, deficit, u)
    <3>1. Remaining(cand, u) = n - 1 /\ Remaining(cand, u) \in Nat /\ n \in Nat
      <4>1. n = Len(cand) + 1 - t[1] /\ Remaining(cand, u) = Len(cand) + 1 - (t[1] + 1)
        BY <2>2, <2>4 DEF Remaining
      <4>2. t[1] \in Nat /\ Len(cand) \in Nat /\ Remaining(cand, u) \in Nat
        BY <1>2, <2>2, <2>4
      <4> QED
        BY <4>1, <4>2
    <3>2. Remaining(cand, u) \notin T
      BY <2>1, <3>1
    <3> QED
      BY <2>4, <3>1, <3>2
  <2>5. t[2] # 0
    BY <2>2, <2>3, NothingLeft
  <2>6. ~(Len(cand) - t[1] + 1 < t[2])
    BY <2>2, <2>3, <2>5, TooFewLeft
  <2> QED
    BY <2>2, <2>3, <2>4, <2>5, <2>6, NextIsTried
<1> QED
  BY <1>2, <1>3 DEF f

\* What the search is asked first.
LEMMA FoundIsRight ==
  ASSUME Sized, NEW cand, Distinct(cand), NEW deficit \in Sums, NEW n \in 1..Len(cand)
  PROVE  /\ Found(cand, deficit, n) # <<>> =>
              \E k \in 1..Len(cand) :
                 /\ Found(cand, deficit, n) = FirstOf(cand, k)
                 /\ \E T \in SUBSET {v \in From(cand, 1) : v \in ToSet(FirstOf(cand, k))} :
                      Cardinality(T) = n /\ ResourceListCovers(SizeOf(T), deficit)
         /\ Found(cand, deficit, n) = <<>> =>
              \A T \in SUBSET From(cand, 1) :
                 Cardinality(T) = n => ~ResourceListCovers(SizeOf(T), deficit)
<1> DEFINE s == <<1, n, <<>>, None>>
<1>1. s \in SearchState
  <2>1. n \in Nat /\ <<>> \in Seq(Victims) /\ None \in Sums /\ 1 \in Nat \ {0}
    BY DEF Distinct, None, Sums
  <2> QED
    BY <2>1 DEF SearchState
<1>2. s[1] = 1 /\ s[2] = n /\ s[3] = <<>> /\ s[4] = None /\ n # 0
  BY DEF Distinct
<1> HIDE DEF s
<1>3. Tried(cand, s)
  <2>1. FirstOf(cand, 1 - 1) = <<>>
    BY DEF FirstOf
  <2>2. 1 \in 1..(Len(cand) + 1)
    BY DEF Distinct
  <2> QED
    BY <1>1, <1>2, <2>1, <2>2 DEF Tried
<1>4. Right(Found(cand, deficit, n), cand, deficit, s)
  BY <1>3, SearchIsRight DEF Found, s
<1>5. ASSUME NEW T \in SUBSET From(cand, 1)
      PROVE  Enough(T, s, deficit) <=> ResourceListCovers(SizeOf(T), deficit)
  <2>1. T \in SUBSET Victims
    BY <1>3, <1>2, FromFacts DEF Tried
  <2>2. \A r \in Resource : SizeOf(T)[r] \in Nat /\ None[r] = 0
    BY <2>1, SizeType DEF Sums, None
  <2> QED
    BY <1>2, <2>2 DEF Enough, ResourceListCovers
<1>6. ASSUME Found(cand, deficit, n) # <<>>
      PROVE  \E k \in 1..Len(cand) :
                 /\ Found(cand, deficit, n) = FirstOf(cand, k)
                 /\ \E T \in SUBSET {v \in From(cand, 1) : v \in ToSet(FirstOf(cand, k))} :
                      Cardinality(T) = n /\ ResourceListCovers(SizeOf(T), deficit)
  BY <1>2, <1>4, <1>5, <1>6 DEF Right, Relieves
<1>7. ASSUME Found(cand, deficit, n) = <<>>, NEW T \in SUBSET From(cand, 1), Cardinality(T) = n
      PROVE  ~ResourceListCovers(SizeOf(T), deficit)
  BY <1>2, <1>4, <1>5, <1>7 DEF Right, Hopeless
<1> QED
  BY <1>6, <1>7

\* p holds a smallest set of candidates that covers the deficit.
Smallest(p, cand, deficit) ==
  \E S \in SUBSET {v \in From(cand, 1) : v \in ToSet(p)} :
     /\ ResourceListCovers(SizeOf(S), deficit)
     /\ \A T \in SUBSET From(cand, 1) :
          ResourceListCovers(SizeOf(T), deficit) => Cardinality(S) <= Cardinality(T)

LEMMA SubsetIsSmallest ==
  ASSUME Sized, NEW cand, Distinct(cand), NEW deficit \in Sums, deficit # None
  PROVE  \/ /\ SelectSubset(cand, deficit) = <<>>
            /\ \A T \in SUBSET From(cand, 1) : ~ResourceListCovers(SizeOf(T), deficit)
         \/ /\ \E k \in 1..Len(cand) : SelectSubset(cand, deficit) = FirstOf(cand, k)
            /\ Smallest(SelectSubset(cand, deficit), cand, deficit)
<1> DEFINE fails(n) == Found(cand, deficit, n) = <<>>
           first(n) == ~fails(n) /\ \A m \in 1..(n - 1) : fails(m)
           n0 == CHOOSE n \in 1..Len(cand) : first(n)
<1>0. Len(cand) \in Nat
  BY DEF Distinct
<1>1. ASSUME NEW T \in SUBSET From(cand, 1), ResourceListCovers(SizeOf(T), deficit)
      PROVE  Cardinality(T) \in 1..Len(cand) /\ ~fails(Cardinality(T))
  <2>1. /\ From(cand, 1) \in SUBSET Victims /\ IsFiniteSet(From(cand, 1))
        /\ Cardinality(From(cand, 1)) <= Len(cand) + 1 - 1
    <3>1. 1 \in 1..(Len(cand) + 1)
      BY <1>0
    <3> QED
      BY <3>1, FromFacts
  <2>2. /\ IsFiniteSet(T) /\ Cardinality(T) \in Nat
        /\ Cardinality(T) <= Cardinality(From(cand, 1)) /\ Cardinality(From(cand, 1)) \in Nat
    BY <2>1, FS_Subset, FS_CardinalityType
  <2>3. T # {}
    <3>1. PICK r \in Resource : deficit[r] # 0
      BY DEF Sums, None
    <3>2. deficit[r] \in Nat /\ SizeOf({})[r] = 0
      BY SizeEmpty DEF Sums, None
    <3>3. ~(SizeOf({})[r] >= deficit[r])
      BY <3>1, <3>2
    <3> QED
      BY <1>1, <3>3 DEF ResourceListCovers
  <2>4. Cardinality(T) # 0
    BY <2>2, <2>3, FS_EmptySet
  <2>5. Cardinality(T) \in 1..Len(cand)
    BY <1>0, <2>1, <2>2, <2>4
  <2> QED
    BY <1>1, <2>5, FoundIsRight
<1>2. CASE \A n \in 1..Len(cand) : fails(n)
  <2>1. SelectSubset(cand, deficit) = <<>>
    BY <1>2 DEF SelectSubset
  <2> QED
    BY <1>1, <1>2, <2>1
<1>3. CASE \E n \in 1..Len(cand) : ~fails(n)
  <2>1. SelectSubset(cand, deficit) = Found(cand, deficit, n0)
    BY <1>3 DEF SelectSubset
  <2>2. n0 \in 1..Len(cand) /\ first(n0)
    <3> DEFINE N == {n \in 1..Len(cand) : ~fails(n)}
    <3>1. PICK n \in N : \A m \in N : n <= m
      <4>1. N \in SUBSET Nat /\ N # {}
        BY <1>0, <1>3
      <4> HIDE DEF N
      <4> QED
        BY <4>1, LeastNumber
    <3> HIDE DEF fails
    <3>2. first(n)
      BY <1>0, <3>1
    <3> HIDE DEF first
    <3> QED
      BY <3>1, <3>2
  <2> HIDE DEF n0
  <2>3. PICK k \in 1..Len(cand) :
          /\ Found(cand, deficit, n0) = FirstOf(cand, k)
          /\ \E T \in SUBSET {v \in From(cand, 1) : v \in ToSet(FirstOf(cand, k))} :
               Cardinality(T) = n0 /\ ResourceListCovers(SizeOf(T), deficit)
    BY <2>2, FoundIsRight
  <2>4. PICK S \in SUBSET {v \in From(cand, 1) : v \in ToSet(FirstOf(cand, k))} :
          Cardinality(S) = n0 /\ ResourceListCovers(SizeOf(S), deficit)
    BY <2>3
  <2>5. ASSUME NEW T \in SUBSET From(cand, 1), ResourceListCovers(SizeOf(T), deficit)
        PROVE  n0 <= Cardinality(T)
    <3>1. Cardinality(T) \in 1..Len(cand) /\ ~fails(Cardinality(T))
      BY <1>1, <2>5
    <3>2. Cardinality(T) \notin 1..(n0 - 1)
      BY <2>2, <3>1
    <3> QED
      BY <1>0, <2>2, <3>1, <3>2
  <2>6. Smallest(SelectSubset(cand, deficit), cand, deficit)
    BY <2>1, <2>3, <2>4, <2>5 DEF Smallest
  <2> QED
    BY <2>1, <2>3, <2>6
<1> QED
  BY <1>2, <1>3

-----------------------------------------------------------------------------
(* The candidates in order.                                                *)

Ascends(q, S) == q \in [1..Cardinality(S) -> S] /\ \A i, j \in 1..Cardinality(S) : i < j => q[i] < q[j]

\* A least member and then the others in ascending order.
LEMMA AscendsFrom ==
  ASSUME NEW S, IsFiniteSet(S), S \subseteq Nat, NEW m \in S, \A x \in S : m <= x,
         NEW q, Ascends(q, S \ {m})
  PROVE  \E p : Ascends(p, S)
<1> DEFINE n == Cardinality(S)
           p == [i \in 1..n |-> IF i = 1 THEN m ELSE q[i - 1]]
<1>1. n \in Nat \ {0} /\ Cardinality(S \ {m}) = n - 1
  BY FS_CardinalityType, FS_EmptySet, FS_RemoveElement
<1>2. q \in [1..(n - 1) -> S \ {m}] /\ \A i, j \in 1..(n - 1) : i < j => q[i] < q[j]
  BY <1>1 DEF Ascends
<1> HIDE DEF n
<1>3. \A i \in 1..n : i # 1 => i - 1 \in 1..(n - 1) /\ q[i - 1] \in S \ {m}
  BY <1>1, <1>2
<1>4. p \in [1..n -> S]
  BY <1>1, <1>3
<1>5. ASSUME NEW i \in 1..n, NEW j \in 1..n, i < j PROVE p[i] < p[j]
  <2>1. j # 1 /\ p[j] = q[j - 1] /\ q[j - 1] \in S \ {m}
    BY <1>1, <1>3, <1>5
  <2>2. CASE i = 1
    <3>1. p[i] = m /\ m <= q[j - 1] /\ m # q[j - 1] /\ m \in Nat /\ q[j - 1] \in Nat
      BY <1>1, <2>1, <2>2
    <3> QED
      BY <2>1, <3>1
  <2>3. CASE i # 1
    <3>1. p[i] = q[i - 1] /\ i - 1 \in 1..(n - 1) /\ j - 1 \in 1..(n - 1) /\ i - 1 < j - 1
      BY <1>1, <1>3, <1>5, <2>1, <2>3
    <3> QED
      BY <1>2, <2>1, <3>1
  <2> QED
    BY <2>2, <2>3
<1> HIDE DEF p
<1> QED
  BY <1>4, <1>5 DEF Ascends, n

LEMMA AscendingExists ==
  ASSUME NEW S, IsFiniteSet(S), S \subseteq Nat
  PROVE  \E q : Ascends(q, S)
<1> DEFINE F == {s \in SUBSET S : \A q : ~Ascends(q, s)}
<1>1. ASSUME F # {} PROVE FALSE
  <2>1. PICK s \in F : \A t \in F : Cardinality(s) <= Cardinality(t)
    <3>1. \A t \in F : IsFiniteSet(t)
      BY FS_Subset
    <3> HIDE DEF F
    <3> QED
      BY <1>1, <3>1, SmallestSet
  <2>2. s \in SUBSET S /\ s \in SUBSET Nat /\ IsFiniteSet(s) /\ \A q : ~Ascends(q, s)
    BY <2>1, FS_Subset
  <2>3. s # {}
    <3> SUFFICES ASSUME s = {} PROVE FALSE
      OBVIOUS
    <3>1. Cardinality(s) = 0
      BY FS_EmptySet
    <3>2. Ascends([i \in 1..0 |-> 0], s)
      BY <3>1 DEF Ascends
    <3> QED
      BY <2>2, <3>2
  <2>4. PICK m \in s : \A x \in s : m <= x
    BY <2>2, <2>3, LeastNumber
  <2> DEFINE r == s \ {m}
  <2>5. Cardinality(r) = Cardinality(s) - 1 /\ Cardinality(s) \in Nat
    BY <2>2, FS_RemoveElement, FS_CardinalityType
  <2>6. r \in SUBSET S /\ ~(Cardinality(s) <= Cardinality(r))
    BY <2>2, <2>5
  <2>7. PICK q : Ascends(q, r)
    BY <2>1, <2>6
  <2> QED
    BY <2>2, <2>4, <2>7, AscendsFrom
<1>2. S \notin F
  BY <1>1
<1> QED
  BY <1>2

\* Distinct victims, all those of S.
LEMMA AscendingFacts ==
  ASSUME IsFiniteSet(Victims), Victims \subseteq Nat, NEW S \in SUBSET Victims
  PROVE  Distinct(Ascending(S)) /\ From(Ascending(S), 1) = S
<1> DEFINE q == Ascending(S)
           n == Cardinality(S)
<1>1. IsFiniteSet(S) /\ S \subseteq Nat /\ n \in Nat
  BY FS_Subset, FS_CardinalityType
<1>2. Ascends(q, S)
  <2>1. PICK p : Ascends(p, S)
    BY <1>1, AscendingExists
  <2>2. p \in [1..n -> S] /\ \A i, j \in DOMAIN p : i < j => p[i] < p[j]
    BY <2>1 DEF Ascends
  <2>3. q \in [1..n -> S] /\ \A i, j \in DOMAIN q : i < j => q[i] < q[j]
    <3> HIDE DEF n
    <3> QED
      BY <2>2 DEF Ascending, n
  <2> QED
    BY <2>3 DEF Ascends
<1> HIDE DEF q, n
<1>3. q \in [1..n -> S] /\ \A i, j \in 1..n : i < j => q[i] < q[j]
  BY <1>2 DEF Ascends, n
<1>4. q \in Seq(Victims) /\ Len(q) = n /\ DOMAIN q = 1..n
  <2>1. q \in [1..n -> Victims]
    BY <1>3
  <2> QED
    BY <1>1, <2>1
<1>5. \A i, j \in 1..n : q[i] = q[j] => i = j
  <2> SUFFICES ASSUME NEW i \in 1..n, NEW j \in 1..n, i < j PROVE q[i] # q[j]
    BY <1>1
  <2>1. q[i] < q[j] /\ q[i] \in Nat /\ q[j] \in Nat
    BY <1>1, <1>3
  <2> QED
    BY <2>1
<1>6. q \in Injection(1..n, S)
  BY <1>3, <1>5 DEF Injection, IsInjective
<1>7. q \in Surjection(1..n, S)
  <2>1. Cardinality(1..n) = n
    BY <1>1, FS_Interval
  <2> QED
    BY <1>1, <1>6, <2>1, FS_Injection DEF n
<1>8. From(q, 1) = S
  BY <1>3, <1>4, <1>7 DEF From, Surjection
<1> QED
  BY <1>4, <1>5, <1>8 DEF Distinct, q

-----------------------------------------------------------------------------
(* Plans.                                                                  *)

LEMMA PRIsSized == ASSUME PRTypeOK PROVE Sized
<1>1. ASSUME NEW v \in Victims PROVE size[v] \in Sums
  BY <1>1, PreemptionAssumption DEF PRTypeOK, Quantities, Sums
<1> QED
  BY <1>1, PreemptionAssumption DEF PRTypeOK, Sized

LEMMA RoomType ==
  ASSUME PRTypeOK, NEW n \in Nodes, NEW S
  PROVE  /\ \A r \in Resource : AvailableWithout(S, n)[r] \in Int /\ demand[r] \in Nat
         /\ Deficit(n) \in Sums
         /\ Deficit(n) # None <=> ~ResourceListCovers(Available(n), demand)
<1>1. ASSUME NEW T, NEW r \in Resource PROVE AvailableWithout(T, n)[r] \in Int /\ demand[r] \in Nat
  <2>1. demand[r] \in Nat /\ spare[n][r] \in Nat
    BY PreemptionAssumption DEF PRTypeOK, Sums, Quantities
  <2>2. VictimsOf(n) \ (pods \ T) \in SUBSET Victims
    BY DEF VictimsOf
  <2>3. SizeOf(VictimsOf(n) \ (pods \ T))[r] \in Nat
    BY <2>2, PRIsSized, SizeType DEF Sums
  <2> QED
    BY <2>1, <2>3 DEF AvailableWithout
<1>2. \A r \in Resource : Available(n)[r] \in Int /\ demand[r] \in Nat
  BY <1>1 DEF Available
<1>3. Deficit(n) \in Sums
  BY <1>2 DEF Deficit, Sums
<1>4. Deficit(n) # None <=> ~ResourceListCovers(Available(n), demand)
  BY <1>2 DEF Deficit, None, ResourceListCovers
<1> QED
  BY <1>1, <1>3, <1>4

\* What is available when the pods of S are gone, too.
LEMMA RoomWithout ==
  ASSUME PRTypeOK, NEW n \in Nodes, NEW S \in SUBSET VictimsOf(n), S \subseteq pods, NEW r \in Resource
  PROVE  AvailableWithout(S, n)[r] = Available(n)[r] + SizeOf(S)[r]
<1> DEFINE gone == VictimsOf(n) \ pods
<1>1. gone \in SUBSET Victims /\ S \in SUBSET Victims /\ gone \cap S = {}
  BY DEF VictimsOf
<1>2. VictimsOf(n) \ (pods \ S) = gone \cup S /\ VictimsOf(n) \ (pods \ {}) = gone
  OBVIOUS
<1> HIDE DEF gone
<1>3. SizeOf(gone \cup S)[r] = SizeOf(gone)[r] + SizeOf(S)[r]
  BY <1>1, PRIsSized, SizeUnion
<1>4. SizeOf(gone)[r] \in Nat /\ SizeOf(S)[r] \in Nat
  BY <1>1, PRIsSized, SizeType DEF Sums
<1>5. demand[r] \in Nat /\ spare[n][r] \in Nat
  BY PreemptionAssumption DEF PRTypeOK, Sums, Quantities
<1>6. /\ AvailableWithout(S, n)[r] = spare[n][r] + SizeOf(gone \cup S)[r] - IF at = n THEN demand[r] ELSE 0
      /\ Available(n)[r] = spare[n][r] + SizeOf(gone)[r] - IF at = n THEN demand[r] ELSE 0
  BY <1>2 DEF AvailableWithout, Available
<1> QED
  BY <1>3, <1>4, <1>5, <1>6

LEMMA CandidateFacts ==
  ASSUME PRTypeOK, NEW n \in Nodes
  PROVE  Distinct(Candidates(n)) /\ From(Candidates(n), 1) = rows \cap VictimsOf(n)
<1>1. rows \cap VictimsOf(n) \in SUBSET Victims
  BY DEF VictimsOf
<1> QED
  BY <1>1, PreemptionAssumption, AscendingFacts DEF Candidates

\* The plan of a node is of its oldest candidates, as many as it takes.
LEMMA NodePlanFacts ==
  ASSUME PRTypeOK, NEW n \in Nodes
  PROVE  \/ NodePlan(n) = <<>>
         \/ /\ n \in allowed /\ Deficit(n) # None
            /\ \E k \in 1..Len(Candidates(n)) : NodePlan(n) = FirstOf(Candidates(n), k)
            /\ Smallest(NodePlan(n), Candidates(n), Deficit(n))
<1>1. CASE n \notin allowed \/ Deficit(n) = None
  BY <1>1 DEF NodePlan
<1>2. CASE n \in allowed /\ Deficit(n) # None
  <2>1. NodePlan(n) = SelectSubset(Candidates(n), Deficit(n))
    BY <1>2 DEF NodePlan
  <2>2. Deficit(n) \in Sums
    BY RoomType
  <2> QED
    BY <1>2, <2>1, <2>2, PRIsSized, CandidateFacts, SubsetIsSmallest
<1> QED
  BY <1>1, <1>2

LEMMA FirstIsInjective ==
  ASSUME NEW cand, Distinct(cand), NEW k \in 1..Len(cand)
  PROVE  LET p == FirstOf(cand, k)
         IN  /\ p \in Seq(Victims) /\ p # <<>> /\ IsInjective(p)
             /\ ToSet(p) \subseteq From(cand, 1)
<1>1. Len(cand) \in Nat /\ k \in Nat /\ k # 0
  BY DEF Distinct
<1>2. \A i \in 1..k : i \in 1..Len(cand) /\ cand[i] \in Victims
  BY <1>1 DEF Distinct
<1>3. FirstOf(cand, k) \in [1..k -> Victims] /\ FirstOf(cand, k) # <<>>
  BY <1>1, <1>2 DEF FirstOf
<1>4. IsInjective(FirstOf(cand, k))
  BY <1>2 DEF IsInjective, FirstOf, Distinct
<1>5. ToSet(FirstOf(cand, k)) \subseteq From(cand, 1)
  BY <1>2 DEF ToSet, FirstOf, From
<1> QED
  BY <1>1, <1>3, <1>4, <1>5

LEMMA NodePlanShape ==
  ASSUME PRTypeOK, NEW n \in Nodes, NodePlan(n) # <<>>
  PROVE  /\ NodePlan(n) \in Seq(Victims) /\ IsInjective(NodePlan(n))
         /\ ToSet(NodePlan(n)) \subseteq rows \cap VictimsOf(n)
<1>1. PICK k \in 1..Len(Candidates(n)) : NodePlan(n) = FirstOf(Candidates(n), k)
  BY NodePlanFacts
<1> QED
  BY <1>1, CandidateFacts, FirstIsInjective

\* Some plan is better than all others.
LEMMA BestExists ==
  ASSUME NEW P, P # {}, \A p \in P : Len(p) \in Nat /\ home[Head(p)] \in Nat
  PROVE  \E p \in P : \A q \in P : Better(p, q)
<1> DEFINE L == {Len(p) : p \in P}
<1>1. PICK n \in L : \A m \in L : n <= m
  <2>1. L \in SUBSET Nat /\ L # {}
    OBVIOUS
  <2> HIDE DEF L
  <2> QED
    BY <2>1, LeastNumber
<1> DEFINE H == {home[Head(p)] : p \in {q \in P : Len(q) = n}}
<1>2. PICK h \in H : \A g \in H : h <= g
  <2>1. H \in SUBSET Nat /\ H # {}
    BY <1>1
  <2> HIDE DEF H
  <2> QED
    BY <2>1, LeastNumber
<1>3. PICK p \in P : Len(p) = n /\ home[Head(p)] = h
  BY <1>2
<1>4. ASSUME NEW q \in P PROVE Better(p, q)
  <2>1. n <= Len(q) /\ Len(q) \in Nat /\ n \in Nat
    BY <1>1, <1>3
  <2>2. Len(q) = n => h <= home[Head(q)]
    BY <1>2
  <2> QED
    BY <1>3, <2>1, <2>2 DEF Better
<1> QED
  BY <1>4

LEMMA BestPlanFacts ==
  ASSUME PRTypeOK, BestPlan # <<>>
  PROVE  \E n \in Nodes : NodePlan(n) # <<>> /\ BestPlan = NodePlan(n)
<1> DEFINE plans == {NodePlan(n) : n \in Nodes} \ {<<>>}
<1>1. plans # {} /\ BestPlan = CHOOSE p \in plans : \A q \in plans : Better(p, q)
  BY DEF BestPlan
<1>2. \A p \in plans : Len(p) \in Nat /\ home[Head(p)] \in Nat
  <2> SUFFICES ASSUME NEW n \in Nodes, NodePlan(n) # <<>>
               PROVE  Len(NodePlan(n)) \in Nat /\ home[Head(NodePlan(n))] \in Nat
    OBVIOUS
  <2>1. NodePlan(n) \in Seq(Victims)
    BY NodePlanShape
  <2>2. Head(NodePlan(n)) \in Victims /\ Len(NodePlan(n)) \in Nat
    BY <2>1
  <2> QED
    BY <2>2, PreemptionAssumption DEF PRTypeOK
<1>3. BestPlan \in plans
  <2> HIDE DEF plans
  <2> QED
    BY <1>1, <1>2, BestExists
<1> QED
  BY <1>3

-----------------------------------------------------------------------------
(* The theorems about preemption.                                          *)

LEMMA PRInitType == PRInit => PRTypeOK
<1> SUFFICES ASSUME PRInit PROVE PRTypeOK
  OBVIOUS
<1>1. demand \in Sums /\ 0 \in 0..MaxFailures
  BY PreemptionAssumption DEF PRInit, Sums
<1>2. plan = <<>> /\ plan \in Seq(Victims) /\ IsInjective(plan) /\ ToSet(plan) = {}
  BY DEF PRInit, IsInjective, ToSet
<1> QED
  BY <1>1, <1>2 DEF PRInit, PRTypeOK

\* A new plan is of distinct jobs of one node.
LEMMA ScanType == ASSUME PRTypeOK, Scan PROVE PRTypeOK'
<1>1. plan' = BestPlan /\ BestPlan # <<>>
  BY DEF Scan
<1>2. PICK n \in Nodes : plan' = NodePlan(n) /\ NodePlan(n) # <<>>
  BY <1>1, BestPlanFacts
<1>3. plan' \in Seq(Victims) /\ IsInjective(plan') /\ ToSet(plan') \subseteq VictimsOf(n)
  BY <1>2, NodePlanShape
<1>4. \A u, v \in ToSet(plan') : home[u] = home[v]
  BY <1>3 DEF VictimsOf
<1> QED
  BY <1>3, <1>4 DEF Scan, PRTypeOK, input

\* What is left of a plan is of distinct jobs of one node, too.
LEMMA DeleteNextType == ASSUME PRTypeOK, DeleteNext PROVE PRTypeOK'
<1>1. plan \in Seq(Victims) /\ plan # <<>> /\ plan' = Tail(plan)
  BY DEF DeleteNext, PRTypeOK
<1>2. /\ plan' \in Seq(Victims) /\ DOMAIN plan' = 1..(Len(plan) - 1) /\ DOMAIN plan = 1..Len(plan) /\ Len(plan) \in Nat
      /\ \A i \in 1..(Len(plan) - 1) : plan'[i] = plan[i + 1]
  BY <1>1
<1>3. \A i \in DOMAIN plan' : i + 1 \in DOMAIN plan /\ plan'[i] = plan[i + 1] /\ i \in Int
  BY <1>2
<1>4. IsInjective(plan')
  <2> SUFFICES ASSUME NEW i \in DOMAIN plan', NEW j \in DOMAIN plan', plan'[i] = plan'[j] PROVE i = j
    BY DEF IsInjective
  <2>1. i + 1 = j + 1
    BY <1>3 DEF PRTypeOK, IsInjective
  <2> QED
    BY <1>3, <2>1
<1>5. ToSet(plan') \subseteq ToSet(plan)
  BY <1>3 DEF ToSet
<1> QED
  BY <1>2, <1>4, <1>5 DEF DeleteNext, PRTypeOK, input

LEMMA PRNextType == PRTypeOK /\ [PRNext]_prvars => PRTypeOK'
<1> SUFFICES ASSUME PRTypeOK, [PRNext]_prvars PROVE PRTypeOK'
  OBVIOUS
<1>1. CASE Scan
  BY <1>1, ScanType
<1>2. CASE DeleteNext
  BY <1>2, DeleteNextType
<1>3. CASE DeleteFails
  <2>1. plan' \in Seq(Victims) /\ IsInjective(plan') /\ ToSet(plan') = {}
    BY <1>3 DEF DeleteFails, IsInjective, ToSet
  <2>2. failures' \in 0..MaxFailures
    BY <1>3, PreemptionAssumption DEF DeleteFails, PRTypeOK
  <2> QED
    BY <1>3, <2>1, <2>2 DEF DeleteFails, PRTypeOK, input
<1>4. CASE Bind
  <2>1. at' \in Nodes
    BY <1>4 DEF Bind, PRTypeOK
  <2> QED
    BY <1>4, <2>1 DEF Bind, PRTypeOK, input
<1>5. CASE SyncWaiting
  BY <1>5 DEF SyncWaiting, PRTypeOK, input
<1>6. ASSUME NEW v \in Victims, Vanish(v) PROVE PRTypeOK'
  BY <1>6 DEF Vanish, PRTypeOK, input
<1>7. ASSUME NEW v \in Victims, Complete(v) PROVE PRTypeOK'
  BY <1>7 DEF Complete, PRTypeOK, input
<1>8. ASSUME NEW v \in Victims, SyncVictim(v) PROVE PRTypeOK'
  BY <1>8 DEF SyncVictim, PRTypeOK, input
<1>9. CASE UNCHANGED prvars
  BY <1>9 DEF prvars, PRTypeOK, input
<1> QED
  BY <1>1, <1>2, <1>3, <1>4, <1>5, <1>6, <1>7, <1>8, <1>9 DEF PRNext

\* The state of the rounds has its shape; the jobs of a plan are distinct and share a node.
THEOREM PlanTypeCorrect == PRSpec => []PRTypeOK
  BY PRInitType, PRNextType, PTL DEF PRSpec

\* A plan is made only by a scan.
LEMMA PlanIsBest ==
  ASSUME [PRNext]_prvars, plan = <<>>, plan' # <<>>
  PROVE  Scan
  BY DEF PRNext, prvars, DeleteNext, DeleteFails, Bind, SyncWaiting, Vanish, Complete, SyncVictim

LEMMA ScanMakesRoom ==
  ASSUME PRTypeOK, Scan
  PROVE  \E n \in allowed :
           /\ ~ResourceListCovers(Available(n), demand)
           /\ ToSet(plan') \subseteq rows \cap VictimsOf(n)
           /\ rows \subseteq pods => ResourceListCovers(AvailableWithout(ToSet(plan'), n), demand)
<1>1. plan' = BestPlan /\ BestPlan # <<>>
  BY DEF Scan
<1>2. PICK n \in Nodes : plan' = NodePlan(n) /\ NodePlan(n) # <<>>
  BY <1>1, BestPlanFacts
<1>3. n \in allowed /\ Deficit(n) # None /\ Smallest(plan', Candidates(n), Deficit(n))
  BY <1>2, NodePlanFacts
<1>4. ToSet(plan') \subseteq rows \cap VictimsOf(n)
  BY <1>2, NodePlanShape
<1>5. ~ResourceListCovers(Available(n), demand)
  BY <1>3, RoomType
<1>6. ASSUME rows \subseteq pods, NEW r \in Resource
      PROVE  AvailableWithout(ToSet(plan'), n)[r] >= demand[r]
  <2> DEFINE P == ToSet(plan')
  <2>1. PICK S \in SUBSET P : SizeOf(S)[r] >= Deficit(n)[r]
    BY <1>3 DEF Smallest, ResourceListCovers
  <2>2. P \in SUBSET VictimsOf(n) /\ P \subseteq pods /\ P \in SUBSET Victims /\ S \in SUBSET Victims
    BY <1>4, <1>6 DEF VictimsOf
  <2> HIDE DEF P
  <2>3. SizeOf(S)[r] <= SizeOf(P)[r] /\ SizeOf(S)[r] \in Nat /\ SizeOf(P)[r] \in Nat
    BY <2>2, PRIsSized, SizeGrows, SizeType DEF Sums
  <2>4. AvailableWithout(P, n)[r] = Available(n)[r] + SizeOf(P)[r]
    BY <2>2, RoomWithout
  <2>5. Available(n)[r] \in Int /\ demand[r] \in Nat
    BY RoomType DEF Available
  <2>6. Available(n)[r] + Deficit(n)[r] >= demand[r] /\ Deficit(n)[r] \in Nat
    BY <2>5 DEF Deficit
  <2>7. AvailableWithout(P, n)[r] >= demand[r]
    BY <2>1, <2>3, <2>4, <2>5, <2>6
  <2> QED
    BY <2>7 DEF P
<1> QED
  BY <1>3, <1>4, <1>5, <1>6 DEF ResourceListCovers

\* A plan is of running rows of one node that lacks room and on which the pending job may
\* run, and makes room for it there.
THEOREM PlansMakeRoom == PRSpec => PlanMakesRoom
<1> DEFINE Makes ==
      plan = <<>> /\ plan' # <<>> =>
        \E n \in allowed :
          /\ ~ResourceListCovers(Available(n), demand)
          /\ ToSet(plan') \subseteq rows \cap VictimsOf(n)
          /\ rows \subseteq pods => ResourceListCovers(AvailableWithout(ToSet(plan'), n), demand)
<1>1. PRTypeOK /\ [PRNext]_prvars => [Makes]_prvars
  BY PlanIsBest, ScanMakesRoom
<1> QED
  BY <1>1, PlanTypeCorrect, PTL DEF PRSpec, PlanMakesRoom

LEMMA PlanIsSmallest == PRTypeOK => PlanHoldsSmallest
<1> SUFFICES ASSUME PRTypeOK, NEW n \in allowed, Deficit(n) # None
             PROVE  IF Relieving(n) = {} THEN NodePlan(n) = <<>>
                    ELSE \E S \in Relieving(n) :
                           /\ S \subseteq ToSet(NodePlan(n)) \cap rows \cap VictimsOf(n)
                           /\ \A T \in Relieving(n) : Cardinality(S) <= Cardinality(T)
  BY DEF PlanHoldsSmallest
<1> DEFINE cand == Candidates(n)
           deficit == Deficit(n)
<1>0. n \in Nodes
  BY DEF PRTypeOK
<1>1. Distinct(cand) /\ From(cand, 1) = rows \cap VictimsOf(n) /\ deficit \in Sums
  BY <1>0, CandidateFacts, RoomType
<1>2. NodePlan(n) = SelectSubset(cand, deficit)
  BY DEF NodePlan
<1>3. \A S : S \in Relieving(n) <=> S \in SUBSET From(cand, 1) /\ ResourceListCovers(SizeOf(S), deficit)
  BY <1>1 DEF Relieving
<1> HIDE DEF cand, deficit
<1>4. \/ /\ NodePlan(n) = <<>>
         /\ \A T \in SUBSET From(cand, 1) : ~ResourceListCovers(SizeOf(T), deficit)
      \/ /\ NodePlan(n) # <<>>
         /\ Smallest(NodePlan(n), cand, deficit)
  <2>1. deficit # None
    BY DEF deficit
  <2>2. \A k \in 1..Len(cand) : FirstOf(cand, k) # <<>>
    BY <1>1, FirstIsInjective
  <2> QED
    BY <1>1, <1>2, <2>1, <2>2, PRIsSized, SubsetIsSmallest
<1>5. CASE Relieving(n) = {}
  BY <1>3, <1>4, <1>5 DEF Smallest
<1>6. CASE Relieving(n) # {}
  <2>1. Smallest(NodePlan(n), cand, deficit)
    BY <1>3, <1>4, <1>6
  <2>2. PICK S \in SUBSET {v \in From(cand, 1) : v \in ToSet(NodePlan(n))} :
          /\ ResourceListCovers(SizeOf(S), deficit)
          /\ \A T \in SUBSET From(cand, 1) :
               ResourceListCovers(SizeOf(T), deficit) => Cardinality(S) <= Cardinality(T)
    BY <2>1 DEF Smallest
  <2>3. S \in Relieving(n) /\ S \subseteq ToSet(NodePlan(n)) \cap rows \cap VictimsOf(n)
    BY <1>1, <1>3, <2>2
  <2> QED
    BY <1>3, <1>6, <2>2, <2>3
<1> QED
  BY <1>5, <1>6

\* The plan of a node holds a smallest set of its running rows that would do, if there is one.
THEOREM PlansHoldSmallest == PRSpec => []PlanHoldsSmallest
  BY PlanTypeCorrect, PlanIsSmallest, PTL
=============================================================================
