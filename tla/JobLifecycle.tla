---------------------------- MODULE JobLifecycle ----------------------------
(***************************************************************************)
(* The life of a Volcano job in Orbit: a submission handler either creates *)
(* the job in the cluster or parks it as a Prequeue row; the prequeue      *)
(* watcher scans the rows, claims candidates inside a database transaction *)
(* and creates them in the cluster; the VcJob reconciler copies what the   *)
(* cluster does back into the rows; a delete handler removes jobs.  The    *)
(* actors share only the job rows, the cluster and the watcher's signals.  *)
(*                                                                         *)
(* Every step below is one database statement, one Kubernetes call or one  *)
(* decision taken on values read before, so the actors interleave between  *)
(* the reads and the writes of the code.                                   *)
(***************************************************************************)
EXTENDS Integers, Sequences, FiniteSets, FiniteSetsExt

CONSTANTS
  Jobs, NoJob,        \* the jobs users may submit (a name is used once); no job
  Watchers,           \* backend replicas that run the watcher loop
  Backfill,           \* jobs of schedule type backfill; the others are normal
  Owner,              \* the account, user and queue a job is charged to
  Need, Limit,        \* a job's request, and the quota of an owner
  Covers,             \* <<b, c>>: b and c share account and queue, b's resource
                      \* domain can block c's and their node constraints overlap
  BackfillEnabled, QuotaModes,   \* PrequeueRuntimeConfig; what QueueQuotaEnabled may be
  UniformTolerance,   \* all jobs waiting were submitted with the same tolerance
  Preempts,           \* <<b, v>>: a plan that makes room for b may remove v
  RoundLimit,         \* min(MaxTotalActivationsPerRound, PrequeueCandidateSize)
  Deletable,          \* jobs whose owner may call the delete endpoint (once)
  Removable,          \* cluster jobs a cleaner or kubectl may remove
  Faults, MaxFaults   \* the failures that may happen, and how many of them

ASSUME ConfigAssumption ==
  /\ NoJob \notin Jobs
  /\ Backfill \subseteq Jobs /\ Deletable \subseteq Jobs /\ Removable \subseteq Jobs
  /\ Need \in [Jobs -> Nat] /\ Covers \subseteq Jobs \X Jobs
  /\ Preempts \subseteq (Jobs \ Backfill) \X Backfill /\ UniformTolerance \in BOOLEAN
  /\ RoundLimit \in Nat \ {0} /\ MaxFaults \in Nat
  /\ BackfillEnabled \in BOOLEAN /\ QuotaModes \subseteq BOOLEAN

VARIABLES
  rec,        \* committed status of the row of a job; "blank" is the empty string
  order,      \* prequeue rows by creation_timestamp
  overdue,    \* normal jobs that waited longer than their tolerance
  QueueQuotaEnabled,   \* whether quotas are enforced; read anew in every round
  cluster,    \* phase of the Volcano job; "new" before Volcano set one
  exposed,    \* cluster jobs whose ingresses exist
  sub, del,   \* progress of the submit and of the delete request of a job
  dirty, rc,  \* the reconciler's work queue and the reconcile in progress
  watcher, signals, wake,   \* the watcher loops; who has signals, who a kick pending
  claims,     \* activations committed by a watcher, per job
  faults      \* failures so far

dbVars      == <<rec, order, overdue, QueueQuotaEnabled>>
clusterVars == <<cluster, exposed, dirty>>
loopVars    == <<watcher, wake>>
vars == <<dbVars, clusterVars, loopVars, signals, sub, del, rc, claims, faults>>

Normal   == Jobs \ Backfill
Occupied == {"Pending", "Running"}
Ended    == {"Completed", "Freed", "Deleted"}
Phases   == {"new", "Pending", "Running", "Completed"}
Status   == {"none", "Prequeue", "blank"} \cup Occupied \cup Ended

Fault(f) == f \in Faults /\ faults < MaxFaults /\ faults' = faults + 1

\* RequestFullScan: a send that is dropped when signalCh is full, of which the
\* loop only learns whether there was any.  Nobody listens in a replica whose
\* watcher is not the leader ("replica").
Notify ==
  \/ \E w \in Watchers : signals' = signals \cup {w}
  \/ "replica" \in Faults /\ UNCHANGED signals

-----------------------------------------------------------------------------
(* Quota and blockers, as the handlers and the watcher read them.          *)

ShouldBlock == BackfillEnabled \/ QueueQuotaEnabled

RequestOf(S) == MapThenSumSet(LAMBDA j : Need[j], S)

\* What the rows say an owner occupies.
Usage(o) == RequestOf({k \in Normal : Owner[k] = o /\ rec[k] \in Occupied})

BlockersIn(status) == {b \in Normal : rec[b] = status /\ b \in overdue}
CoveredBy(B, c) == \E b \in B : <<b, c>> \in Covers

\* A timed-out pending job blocks everyone it covers, a timed-out prequeue job
\* only those that have not reached their own tolerance.
BlockedCandidate(c) ==
  /\ ShouldBlock
  /\ c \in Normal \/ BackfillEnabled
  /\ \/ CoveredBy(BlockersIn("Pending"), c)
     \/ c \notin overdue /\ CoveredBy(BlockersIn("Prequeue"), c)

\* Mutant: the round forgets what it selected already.
FitsRowsOnly(c, selected) ==
  c \in Backfill \/ ~QueueQuotaEnabled \/ Usage(Owner[c]) + Need[c] <= Limit[Owner[c]]

\* A candidate fits on top of the rows and of those the round selected before it.
FitsQuota(c, selected) ==
  \/ c \in Backfill \/ ~QueueQuotaEnabled
  \/ LET mine == {k \in selected \cap Normal : Owner[k] = Owner[c]}
     IN  Usage(Owner[c]) + RequestOf(mine) + Need[c] <= Limit[Owner[c]]

-----------------------------------------------------------------------------
(* The cluster.                                                            *)

\* Mutant: nobody watches deletions.
RemoveUnseen(S) ==
  /\ cluster' = [j \in Jobs |-> IF j \in S THEN "absent" ELSE cluster[j]]
  /\ exposed' = exposed \ S /\ UNCHANGED dirty

\* Deleted Volcano jobs take their ingresses along (owner references).
ClusterRemove(S) ==
  /\ cluster' = [j \in Jobs |-> IF j \in S THEN "absent" ELSE cluster[j]]
  /\ exposed' = exposed \ S
  /\ dirty' = dirty \cup {j \in S : cluster[j] # "absent"}

ClusterCreate(j) ==
  /\ cluster[j] = "absent"
  /\ cluster' = [cluster EXCEPT ![j] = "new"]
  /\ dirty' = dirty \cup {j}
  /\ UNCHANGED exposed

NextPhase == [new |-> "Pending", Pending |-> "Running", Running |-> "Completed"]

Evolve(j) ==
  /\ cluster[j] \in DOMAIN NextPhase
  /\ cluster' = [cluster EXCEPT ![j] = NextPhase[@]]
  /\ dirty' = dirty \cup {j}
  /\ UNCHANGED <<exposed, dbVars, loopVars, signals, sub, del, rc, claims, faults>>

\* Cleaners of idle and waiting jobs pick a row and delete its cluster job.
Clean(j) ==
  /\ j \in Removable /\ rec[j] \in Occupied /\ cluster[j] # "absent"
  /\ ClusterRemove({j})
  /\ UNCHANGED <<dbVars, loopVars, signals, sub, del, rc, claims, faults>>

Waiting(j) == rec[j] \in {"Prequeue", "Pending"}

\* The waiting tolerance of a normal job elapses.
Timeout(j) ==
  /\ j \in Normal \ overdue /\ Waiting(j)
  /\ UniformTolerance => \A i, k \in DOMAIN order :
       i < k /\ order[k] = j /\ order[i] \in Normal /\ Waiting(order[i])
         => order[i] \in overdue
  /\ overdue' = overdue \cup {j}
  /\ UNCHANGED <<rec, order, QueueQuotaEnabled, clusterVars, loopVars, signals, sub, del, rc, claims, faults>>

-----------------------------------------------------------------------------
(* Row locks: the claim's UPDATE locks the row until its transaction ends. *)

\* Mutant: the claim is a read and a write without a transaction.
NeverLocked(j) == FALSE

InTransaction == {"create", "expose", "commit"}
Activating(w) == watcher[w].pc \in InTransaction
Locked(j) == \E w \in Watchers : Activating(w) /\ watcher[w].cur = j

-----------------------------------------------------------------------------
(* submitJob.                                                              *)

SubmitVars == <<loopVars, del, rc, claims>>

\* The request of a normal job on top of what its owner uses breaks the quota.
Exceeds(used, j) ==
  j \in Normal /\ QueueQuotaEnabled /\ used + Need[j] > Limit[Owner[j]]

\* Reads quota usage and blockers, and decides on what it read.
SubmitCheck(j) ==
  /\ sub[j] = "idle"
  /\ j \in Normal \/ BackfillEnabled
  /\ LET blocked == ShouldBlock /\ CoveredBy(BlockersIn("Pending"), j)
     IN  sub' = [sub EXCEPT ![j] =
           IF Exceeds(0, j) THEN "failed"
           ELSE IF Exceeds(Usage(Owner[j]), j) \/ blocked THEN "queue" ELSE "direct"]
  /\ UNCHANGED <<SubmitVars, dbVars, clusterVars, signals, faults>>

SubmitQueue(j) ==
  /\ sub[j] = "queue"
  /\ rec' = [rec EXCEPT ![j] = "Prequeue"]
  /\ order' = Append(order, j)
  /\ sub' = [sub EXCEPT ![j] = "queued"]
  /\ UNCHANGED <<SubmitVars, overdue, QueueQuotaEnabled, clusterVars, signals, faults>>

SubmitNotify(j) ==
  /\ sub[j] = "queued"
  /\ Notify
  /\ sub' = [sub EXCEPT ![j] = "done"]
  /\ UNCHANGED <<SubmitVars, dbVars, clusterVars, faults>>

\* ActivateJob outside any transaction: no row is written here.  When the access
\* resources fail a deferred Delete cleans up, and its own error is ignored.
SubmitCreate(j) ==
  /\ sub[j] = "direct"
  /\ \/ /\ ClusterCreate(j)
        /\ sub' = [sub EXCEPT ![j] = "expose"] /\ UNCHANGED faults
     \/ /\ Fault("create")
        /\ sub' = [sub EXCEPT ![j] = "failed"] /\ UNCHANGED clusterVars
  /\ UNCHANGED <<SubmitVars, dbVars, signals>>

SubmitExpose(j) ==
  /\ sub[j] = "expose"
  /\ \/ /\ exposed' = IF cluster[j] = "absent" THEN exposed ELSE exposed \cup {j}
        /\ sub' = [sub EXCEPT ![j] = "done"]
        /\ UNCHANGED <<cluster, dirty, faults>>
     \/ /\ Fault("expose")
        /\ ClusterRemove({j}) \/ ("cleanup" \in Faults /\ UNCHANGED clusterVars)
        /\ sub' = [sub EXCEPT ![j] = "failed"]
  /\ UNCHANGED <<SubmitVars, dbVars, signals>>

SubmitStep(j) ==
  SubmitQueue(j) \/ SubmitNotify(j) \/ SubmitCreate(j) \/ SubmitExpose(j)

-----------------------------------------------------------------------------
(* deleteJob: read the row, read the cluster job, write the row, delete    *)
(* the cluster job, notify.                                                *)

DeleteVars == <<order, overdue, QueueQuotaEnabled, loopVars, sub, rc, claims, faults>>
NoDelete   == [pc |-> "idle", queued |-> FALSE, dropRow |-> FALSE, dropJob |-> FALSE]

DeleteRead(j) ==
  /\ j \in Deletable /\ del[j].pc = "idle" /\ rec[j] # "none"
  /\ del' = [del EXCEPT ![j].pc = "plan", ![j].queued = rec[j] = "Prequeue"]
  /\ UNCHANGED <<DeleteVars, rec, clusterVars, signals>>

\* buildDeleteJobPlan: the plan is built from the row read before.
DeletePlan(j) ==
  /\ del[j].pc = "plan"
  /\ del' = [del EXCEPT
       ![j].pc = "apply",
       ![j].dropJob = cluster[j] # "absent",
       ![j].dropRow = IF cluster[j] = "absent" THEN ~del[j].queued
                      ELSE cluster[j] = "Completed"]
  /\ UNCHANGED <<DeleteVars, rec, clusterVars, signals>>

\* applyDeleteJobPlan: the write is by job name and looks at no status.
DeleteApply(j) ==
  /\ del[j].pc = "apply" /\ ~Locked(j)
  /\ rec' = [rec EXCEPT ![j] = IF @ = "none" \/ del[j].dropRow THEN "none" ELSE "Deleted"]
  /\ del' = [del EXCEPT ![j].pc = "cluster"]
  /\ UNCHANGED <<DeleteVars, clusterVars, signals>>

\* deleteClusterJob fails when the job is gone meanwhile; the caller is told
\* "done" otherwise, and the watcher is notified when the row was deleted.
DeleteCluster(j) ==
  /\ del[j].pc = "cluster"
  /\ LET fails == del[j].dropJob /\ cluster[j] = "absent"
     IN  /\ del' = [del EXCEPT ![j] = [NoDelete EXCEPT !.pc = IF fails THEN "failed" ELSE "done"]]
         /\ IF del[j].dropJob THEN ClusterRemove({j}) ELSE UNCHANGED clusterVars
         /\ IF del[j].dropRow /\ ~fails THEN Notify
            ELSE UNCHANGED signals
  /\ UNCHANGED <<DeleteVars, rec>>

DeleteStep(j) == DeletePlan(j) \/ DeleteApply(j) \/ DeleteCluster(j)

-----------------------------------------------------------------------------
(* VcJobReconciler.Reconcile: one worker takes a job from the queue, reads  *)
(* the cluster job, reads the row, and writes the row.                      *)

ReconcileVars == <<order, overdue, QueueQuotaEnabled, cluster, exposed, loopVars, sub, del, claims, faults>>
NoReconcile   == [pc |-> "idle", job |-> NoJob, phase |-> "absent", old |-> "none"]

ReconcileGet ==
  /\ rc.pc = "idle"
  /\ \E j \in dirty :
       /\ dirty' = dirty \ {j}
       /\ rc' = [rc EXCEPT !.pc = "read", !.job = j, !.phase = cluster[j]]
  /\ UNCHANGED <<ReconcileVars, rec, signals>>

\* A missing cluster job frees every row that is neither queued nor ended.
ReconcileRead ==
  /\ rc.pc = "read"
  /\ LET old   == rec[rc.job]
         frees == old \notin {"none", "Prequeue"} \cup Ended
     IN  IF rc.phase # "absent" \/ frees
         THEN /\ rc' = [rc EXCEPT !.pc = "write", !.old = old]
              /\ UNCHANGED signals
         ELSE /\ rc' = NoReconcile
              /\ IF old = "Deleted" THEN Notify
                 ELSE UNCHANGED signals
  /\ UNCHANGED <<ReconcileVars, dirty, rec>>

\* Mutants: an empty phase is written; a waiting row gets back the status it was
\* read with; an ended row is never revived.
RawStatus(phase, old, now) == phase
KeptStatus(phase, old, now) ==
  IF phase # "new" THEN phase ELSE IF old \in {"Pending", "Prequeue"} THEN old ELSE now
EndedStatus(phase, old, now) == IF now \in Ended THEN now ELSE
  IF phase # "new" THEN phase ELSE IF old \in {"Pending", "Prequeue"} THEN "Pending" ELSE now

\* The status generateUpdateJobModel writes; an empty phase leaves a row as it
\* is, unless the row read before was waiting.
StatusOf(phase, old, now) ==
  IF phase # "new" THEN phase
  ELSE IF old \in {"Pending", "Prequeue"} THEN "Pending" ELSE now

\* A new row gets the phase as it is, the empty one too.
CreatedStatus(phase) == IF phase = "new" THEN "blank" ELSE phase

\* shouldActivatePrequeueOnPhaseChange
Released(phase, old) ==
  phase = "Completed" /\ old \notin {"none", "Prequeue"} \cup Ended

\* Frees the row, creates it (the upsert revives a deleted one), or updates it.
ReconcileWrite ==
  LET j == rc.job IN
  /\ rc.pc = "write" /\ ~Locked(j)
  /\ rec' = [rec EXCEPT ![j] =
       IF rc.phase = "absent" THEN IF @ = "none" THEN @ ELSE "Freed"
       ELSE IF rc.old = "none" THEN CreatedStatus(rc.phase)
       ELSE IF @ = "none" THEN @ ELSE StatusOf(rc.phase, rc.old, @)]
  /\ rc' = NoReconcile
  /\ IF rc.phase = "absent" \/ Released(rc.phase, rc.old)
     THEN Notify ELSE UNCHANGED signals
  /\ UNCHANGED <<ReconcileVars, dirty>>

\* A database error: nothing is written and the request is queued again.  (The
\* fetch before it reads the informer's cache, which fails for missing jobs only.)
ReconcileFail ==
  /\ rc.pc \in {"read", "write"} /\ Fault("reconcile")
  /\ rc' = NoReconcile /\ dirty' = dirty \cup {rc.job}
  /\ UNCHANGED <<dbVars, cluster, exposed, loopVars, signals, sub, del, claims>>

Reconcile == ReconcileGet \/ ReconcileRead \/ ReconcileWrite

-----------------------------------------------------------------------------
(* PrequeueWatcher.Start.  A round ends in "wait" with needScan set by what *)
(* it left over; kick and retryLater are what wakes the loop up again.      *)

LoopOthers == <<order, overdue, QueueQuotaEnabled, sub, del, rc>>
NoWatch == [pc |-> "wait", needScan |-> TRUE, page |-> {}, batch |-> {},
            more |-> FALSE, cur |-> NoJob]

\* Mutant: ORDER BY creation_timestamp DESC.
Newest(c, S) == c \in S /\ \E i \in DOMAIN order :
                order[i] = c /\ \A k \in (i + 1)..Len(order) : order[k] \notin S

\* Rows are listed, checked and activated by creation_timestamp.
First(c, S) == c \in S /\ \E i \in DOMAIN order :
                 order[i] = c /\ \A k \in 1..(i - 1) : order[k] \notin S

Begin(w, need) ==
  watcher' = [watcher EXCEPT ![w].pc = "scan", ![w].needScan = need]

EndRound(w, need) ==
  /\ watcher' = [watcher EXCEPT ![w] = [NoWatch EXCEPT !.needScan = need]]
  /\ wake' = IF need THEN wake \cup {w} ELSE wake

\* An error ends the round like work left over, only that retryLater delays the
\* kick, and a kick may come late anyway.
FailRound(w) == EndRound(w, TRUE)

WatcherSignal(w) ==
  /\ watcher[w].pc = "wait" /\ w \in signals
  /\ signals' = signals \ {w}
  /\ Begin(w, TRUE)
  /\ UNCHANGED <<LoopOthers, rec, clusterVars, wake, claims, faults>>

WatcherWake(w) ==
  /\ watcher[w].pc = "wait" /\ w \in wake
  /\ wake' = wake \ {w}
  /\ Begin(w, watcher[w].needScan)
  /\ UNCHANGED <<LoopOthers, rec, clusterVars, signals, claims, faults>>

\* Mutant: the ticker does not ask for a scan.
IdleTick(w) ==
  /\ watcher[w].pc = "wait"
  /\ Begin(w, watcher[w].needScan)
  /\ UNCHANGED <<LoopOthers, rec, clusterVars, wake, signals, claims, faults>>

WatcherTick(w) ==
  /\ watcher[w].pc = "wait"
  /\ Begin(w, TRUE)
  /\ UNCHANGED <<LoopOthers, rec, clusterVars, wake, signals, claims, faults>>

\* refreshRuntimeConfig or a query of the scan fails.
WatcherReadFails(w) ==
  /\ watcher[w].pc \in {"scan", "select"} /\ Fault("read")
  /\ FailRound(w)
  /\ UNCHANGED <<LoopOthers, rec, clusterVars, signals, claims>>

\* A pending job out of patience may have backfill jobs of a node removed; the
\* round ends there.  Which rows a plan picks is Preempts, whether the node
\* lacks room at this moment is left open.
WatcherPreempt(w) ==
  /\ watcher[w].pc = "scan" /\ watcher[w].needScan /\ ShouldBlock
  /\ \E b \in BlockersIn("Pending") :
       \E V \in SUBSET {v \in Backfill : rec[v] = "Running" /\ <<b, v>> \in Preempts} :
         V # {} /\ ClusterRemove(V)
  /\ \/ EndRound(w, TRUE) /\ UNCHANGED faults
     \/ Fault("preempt") /\ FailRound(w)
  /\ UNCHANGED <<LoopOthers, rec, signals, claims>>

\* runScanIfRequested: the blockers and the page of prequeue rows are read.
WatcherScan(w) ==
  /\ watcher[w].pc = "scan"
  /\ IF watcher[w].needScan
     THEN /\ watcher' = [watcher EXCEPT ![w].pc = "select", ![w].page =
               {c \in Jobs : rec[c] = "Prequeue" /\ ~BlockedCandidate(c)}]
          /\ UNCHANGED wake
     ELSE EndRound(w, FALSE)
  /\ UNCHANGED <<LoopOthers, rec, clusterVars, signals, claims, faults>>

\* selectActivationCandidates checks one candidate of the page, with the usage
\* read anew; one that fits beyond the limit only tells that there are more.
WatcherSelect(w) ==
  LET me == watcher[w] IN
  /\ me.pc = "select"
  /\ \/ \E c \in me.page : First(c, me.page) /\
          LET fits == FitsQuota(c, me.batch)
              full == Cardinality(me.batch) = RoundLimit
          IN  watcher' = [watcher EXCEPT
                ![w].page  = IF fits /\ full THEN {} ELSE @ \ {c},
                ![w].batch = IF fits /\ ~full THEN @ \cup {c} ELSE @,
                ![w].more  = fits /\ full]
        /\ UNCHANGED wake
     \/ me.page = {} /\ me.batch = {} /\ EndRound(w, FALSE)
     \/ /\ me.page = {} /\ me.batch # {}
        /\ watcher' = [watcher EXCEPT ![w].pc = "claim"]
        /\ UNCHANGED wake
  /\ UNCHANGED <<LoopOthers, rec, clusterVars, signals, claims, faults>>

\* Candidate c is dealt with; "missed" when its row was no longer Prequeue.
NextCandidate(w, c, missed) ==
  LET more == watcher[w].more \/ missed
      left == watcher[w].batch \ {c}
  IN  IF left = {} THEN EndRound(w, more)
      ELSE /\ watcher' = [watcher EXCEPT ![w].pc = "claim", ![w].batch = left,
                            ![w].more = more, ![w].cur = NoJob]
           /\ UNCHANGED wake

\* UPDATE ... WHERE id = c AND status = 'Prequeue', not yet committed.
WatcherClaim(w) ==
  /\ watcher[w].pc = "claim"
  /\ \E c \in watcher[w].batch :
       /\ First(c, watcher[w].batch) /\ ~Locked(c)
       /\ IF rec[c] = "Prequeue"
          THEN /\ watcher' = [watcher EXCEPT ![w].pc = "create", ![w].cur = c]
               /\ UNCHANGED wake
          ELSE NextCandidate(w, c, TRUE)
  /\ UNCHANGED <<LoopOthers, rec, clusterVars, signals, claims, faults>>

\* ActivateJob inside the transaction; AlreadyExists skips the rest of it.
WatcherCreate(w) ==
  /\ watcher[w].pc = "create"
  /\ LET c == watcher[w].cur
     IN  \/ /\ ClusterCreate(c)
            /\ watcher' = [watcher EXCEPT ![w].pc = "expose"]
            /\ UNCHANGED <<wake, faults>>
         \/ /\ cluster[c] # "absent"
            /\ watcher' = [watcher EXCEPT ![w].pc = "commit"]
            /\ UNCHANGED <<clusterVars, wake, faults>>
         \/ /\ Fault("create") /\ FailRound(w)
            /\ UNCHANGED clusterVars
  /\ UNCHANGED <<LoopOthers, rec, signals, claims>>

\* Mutant: no clean-up.
ExposeLeaky(w) ==
  /\ watcher[w].pc = "expose"
  /\ LET c == watcher[w].cur
     IN  \/ /\ exposed' = IF cluster[c] = "absent" THEN exposed ELSE exposed \cup {c}
            /\ watcher' = [watcher EXCEPT ![w].pc = "commit"]
            /\ UNCHANGED <<cluster, dirty, wake, faults>>
         \/ Fault("expose") /\ FailRound(w) /\ UNCHANGED clusterVars
  /\ UNCHANGED <<LoopOthers, rec, signals, claims>>

\* ensureJobAccessResources, with the same clean-up as SubmitExpose.
WatcherExpose(w) ==
  /\ watcher[w].pc = "expose"
  /\ LET c == watcher[w].cur
     IN  \/ /\ exposed' = IF cluster[c] = "absent" THEN exposed ELSE exposed \cup {c}
            /\ watcher' = [watcher EXCEPT ![w].pc = "commit"]
            /\ UNCHANGED <<cluster, dirty, wake, faults>>
         \/ /\ Fault("expose") /\ FailRound(w)
            /\ ClusterRemove({c}) \/ ("cleanup" \in Faults /\ UNCHANGED clusterVars)
  /\ UNCHANGED <<LoopOthers, rec, signals, claims>>

WatcherCommit(w) ==
  /\ watcher[w].pc = "commit"
  /\ LET c == watcher[w].cur
     IN  \/ /\ rec' = [rec EXCEPT ![c] = "Pending"]
            /\ claims' = [claims EXCEPT ![c] = @ + 1]
            /\ NextCandidate(w, c, FALSE)
            /\ UNCHANGED faults
         \/ /\ Fault("commit") /\ FailRound(w)
            /\ UNCHANGED <<rec, claims>>
  /\ UNCHANGED <<LoopOthers, clusterVars, signals>>

WatcherStep(w) ==
  \/ WatcherSignal(w) \/ WatcherWake(w) \/ WatcherTick(w) \/ WatcherPreempt(w)
  \/ WatcherScan(w) \/ WatcherSelect(w) \/ WatcherClaim(w)
  \/ WatcherCreate(w) \/ WatcherExpose(w) \/ WatcherCommit(w)

-----------------------------------------------------------------------------
(* The backend process stops and starts again.  Open transactions roll back *)
(* and requests in flight are lost; the new process lists the cluster jobs  *)
(* that exist, so a job deleted before it listed them is never reconciled.  *)

Restart ==
  /\ Fault("restart")
  /\ watcher' = [w \in Watchers |-> NoWatch]
  /\ wake' = {} /\ signals' = {}
  /\ rc' = NoReconcile
  /\ dirty' = {j \in Jobs : cluster[j] # "absent"}
  /\ sub' = [j \in Jobs |-> IF sub[j] \in {"idle", "done", "failed"} THEN sub[j]
                             ELSE IF sub[j] = "queued" THEN "done" ELSE "failed"]
  /\ del' = [j \in Jobs |-> IF del[j].pc \in {"idle", "done", "failed"} THEN del[j]
                             ELSE [NoDelete EXCEPT !.pc = "failed"]]
  /\ UNCHANGED <<dbVars, cluster, exposed, claims>>

-----------------------------------------------------------------------------
Init ==
  /\ rec = [j \in Jobs |-> "none"] /\ order = <<>> /\ overdue = {}
  /\ QueueQuotaEnabled \in QuotaModes
  /\ cluster = [j \in Jobs |-> "absent"] /\ exposed = {} /\ dirty = {}
  /\ sub = [j \in Jobs |-> "idle"] /\ del = [j \in Jobs |-> NoDelete]
  /\ rc = NoReconcile
  /\ watcher = [w \in Watchers |-> NoWatch]
  /\ signals = {} /\ wake = {}
  /\ claims = [j \in Jobs |-> 0] /\ faults = 0

Next ==
  \/ \E j \in Jobs : \/ SubmitCheck(j) \/ SubmitStep(j)
                     \/ DeleteRead(j) \/ DeleteStep(j)
                     \/ Evolve(j) \/ Clean(j) \/ Timeout(j)
  \/ Reconcile \/ ReconcileFail
  \/ \E w \in Watchers : WatcherStep(w) \/ WatcherReadFails(w)
  \/ Restart

\* The process runs its loops and requests to their end, and
\* Volcano runs what it was given; nobody has to submit, delete or fail.
Fairness ==
  /\ WF_vars(Reconcile)
  /\ \A w \in Watchers : WF_vars(WatcherStep(w))
  /\ \A j \in Jobs : WF_vars(SubmitStep(j)) /\ WF_vars(DeleteStep(j)) /\ WF_vars(Evolve(j))

Spec     == Init /\ [][Next]_vars
FairSpec == Spec /\ Fairness

-----------------------------------------------------------------------------
\* The shape of the state.
WatcherState ==
  [pc : {"wait", "scan", "select", "claim"} \cup InTransaction, needScan : BOOLEAN,
   page : SUBSET Jobs, batch : SUBSET Jobs, more : BOOLEAN, cur : Jobs \cup {NoJob}]
DeleteState ==
  [pc : {"idle", "plan", "apply", "cluster", "done", "failed"},
   queued : BOOLEAN, dropRow : BOOLEAN, dropJob : BOOLEAN]
ReconcileState ==
  [pc : {"idle", "read", "write"}, job : Jobs \cup {NoJob},
   phase : Phases \cup {"absent"}, old : Status]

TypeOK ==
  /\ rec \in [Jobs -> Status] /\ order \in Seq(Jobs) /\ overdue \subseteq Normal
  /\ QueueQuotaEnabled \in BOOLEAN
  /\ cluster \in [Jobs -> Phases \cup {"absent"}] /\ exposed \subseteq Jobs /\ dirty \subseteq Jobs
  /\ sub \in [Jobs -> {"idle", "queue", "queued", "direct", "expose", "done", "failed"}]
  /\ del \in [Jobs -> DeleteState]
  /\ rc \in ReconcileState /\ (rc.pc # "idle" => rc.job \in Jobs)
  /\ watcher \in [Watchers -> WatcherState]
  /\ \A w \in Watchers : Activating(w) => watcher[w].cur \in Jobs
  /\ signals \subseteq Watchers /\ wake \subseteq Watchers
  /\ claims \in [Jobs -> Nat] /\ faults \in 0..MaxFaults

\* A prequeue row of the job was created.
Queued(j) == \E i \in DOMAIN order : order[i] = j

\* A prequeue row is activated at most once, however many watchers run, whatever
\* transaction is rolled back and whoever else writes the row meanwhile.
ClaimedOnce == \A j \in Jobs : claims[j] <= 1

\* Why it holds.  A row being activated is still committed as Prequeue and locked
\* for one watcher alone; it was queued by a submission that is past that step,
\* and no row that was activated is Prequeue again.
ClaimInv ==
  /\ \A w \in Watchers : Activating(w) => rec[watcher[w].cur] = "Prequeue"
  /\ \A w, v \in Watchers :
       Activating(w) /\ Activating(v) /\ w # v => watcher[w].cur # watcher[v].cur
  /\ \A j \in Jobs :
       /\ claims[j] = 0 \/ (claims[j] = 1 /\ rec[j] # "Prequeue")
       /\ claims[j] # 0 \/ rec[j] = "Prequeue" => Queued(j)
       /\ Queued(j) => sub[j] \in {"queued", "done", "failed"}

\* A job that was activated from the queue is never created in the cluster a
\* second time, not even after it ended there or was deleted.
NeverRestarted ==
  [][\A j \in Jobs : cluster[j] = "absent" /\ cluster'[j] # "absent" => claims[j] = 0]_vars

\* The queue keeps the promise of JobAdmission: where a job stands can be told
\* from its row, the activations committed and the rows ever queued.
StageOf(j) ==
  IF rec[j] = "Prequeue" THEN "queued"
  ELSE IF claims[j] > 0 THEN "admitted"
  ELSE IF Queued(j) THEN "left" ELSE "outside"
Admission == INSTANCE JobAdmission WITH stage <- [j \in Jobs |-> StageOf(j)]
RefinesAdmission == Admission!Spec

\* A job that the watcher activated and that is in the cluster can be reached:
\* no failed activation leaves a job behind that a later one takes for its own.
ActivatedIsExposed ==
  \A j \in Jobs : claims[j] > 0 /\ cluster[j] # "absent" => j \in exposed

\* The jobs an owner got through the queue and still occupies fit the quota,
\* although usage is read long before the rows are claimed.
ActivatedWithinQuota ==
  QueueQuotaEnabled => \A o \in {Owner[j] : j \in Jobs} :
    RequestOf({j \in Normal : Owner[j] = o /\ claims[j] > 0 /\ rec[j] \in Occupied}) <= Limit[o]

\* Two jobs the policy cannot tell apart.
Alike(a, b) ==
  /\ a \in Normal <=> b \in Normal
  /\ Owner[a] = Owner[b] /\ Need[a] = Need[b]
  /\ \A x \in Jobs : <<x, a>> \in Covers <=> <<x, b>> \in Covers

\* Without quotas the watcher never activates a job past one like it that was
\* queued earlier and is still in the queue.
FirstComeFirstServed ==
  [][\A i, k \in DOMAIN order :
       ~QueueQuotaEnabled /\ i < k /\ Alike(order[i], order[k]) /\ claims'[order[k]] > claims[order[k]]
         => rec'[order[i]] # "Prequeue"]_vars

\* Nothing about a job is in flight.
Quiet(j) ==
  /\ j \notin dirty /\ rc.job # j /\ ~Locked(j)
  /\ del[j].pc \in {"idle", "done", "failed"}

\* Whenever nothing about a job in the cluster is in flight, its row says the
\* phase that Volcano reported last, unless its owner asked to delete it.
RowFollowsCluster ==
  \A j \in Jobs :
    Quiet(j) /\ cluster[j] \notin {"absent", "new"} =>
      rec[j] = cluster[j] \/ del[j].pc # "idle"

\* Whenever nothing about a job is in flight and it is not in the cluster, its
\* row neither counts as usage nor blocks others.
NoPhantomUsage ==
  \A j \in Jobs :
    Quiet(j) /\ cluster[j] = "absent" => rec[j] \notin Occupied \cup {"blank"}

\* A queued job does not wait forever.
PrequeueIsLeft ==
  \A j \in Jobs : rec[j] = "Prequeue" ~> rec[j] # "Prequeue"
=============================================================================
