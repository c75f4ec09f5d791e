------------------------------ MODULE CronJobs ------------------------------
(***************************************************************************)
(* The cron job manager: rows in the database say what shall be scheduled, *)
(* a scheduler in memory does it, and an update writes both while the jobs *)
(* themselves write the status of their rows.                              *)
(*                                                                         *)
(* An update, and the synchronisation at the start, hold cronMutex from    *)
(* their first step to their last, and the lock of each row they have read *)
(* for update or written.  Entry numbers start anew with the process; the  *)
(* rows keep those of the process before.                                  *)
(***************************************************************************)
EXTENDS Integers, FiniteSets

CONSTANTS
    Jobs,          \* names of cron jobs
    Plans, Bad,    \* a schedule with its parameters; those the scheduler refuses
    Slots,         \* executions under way at a time
    Faults,        \* what may fail: "load" (of the rows, at the start), "write" (a statement), "commit"
    MaxEntries,    \* bound: entries a process makes
    MaxCrashes     \* bound: restarts of the process

ASSUME JobAssumption == Jobs # {}
ASSUME PlanAssumption == Plans # {} /\ Bad \subseteq Plans
ASSUME BoundAssumption == MaxEntries \in Nat /\ MaxCrashes \in Nat

VARIABLES
    row,           \* the table of configurations
    entries,       \* what the scheduler holds
    lastId,        \* the last entry number given
    op,            \* who holds the mutex
    synced,        \* SyncCronJob is over
    run,           \* executions
    crashes,
    torn,          \* ghost: jobs scheduled by an update before the synchronisation, or by
                   \* a transaction that did not commit
    stale,         \* ghost: jobs whose row has a number of an earlier process
    edited,        \* ghost: jobs whose row got another plan since they were scheduled
    left           \* ghost: jobs whose row was left running by a failure

ghosts == <<torn, stale, edited, left>>
vars == <<row, entries, lastId, op, synced, run, crashes, ghosts>>

Ids == -1 .. MaxEntries
Rows == [status : {"idle", "running", "suspended"}, entry : Ids, plan : Plans]
Entries == [id : 1 .. MaxEntries, job : Jobs, plan : Plans]

\* The holder of the mutex: an update of one job (to "idle", to "suspended", or of
\* its plan alone), or the synchronisation, with the jobs it has still to schedule; and the entry
\* it has made for a job, 0 for none.
Ops ==
    [kind : {"none", "activate", "suspend", "edit", "sync"}, stage : {"locked", "scheduled"},
     jobs : SUBSET Jobs, plan : Plans, todo : SUBSET Jobs, made : [Jobs -> 0 .. MaxEntries]]
None ==
    [kind |-> "none", stage |-> "locked", jobs |-> {}, plan |-> CHOOSE p \in Plans : TRUE,
     todo |-> {}, made |-> [j \in Jobs |-> 0]]

Executions == [stage : {"none", "called", "working"}, job : Jobs]
NoExecution == [stage |-> "none", job |-> CHOOSE j \in Jobs : TRUE]

\* One type for every variable.
TypeOK ==
    /\ row \in [Jobs -> Rows]
    /\ entries \in SUBSET Entries
    /\ lastId \in 0 .. MaxEntries
    /\ op \in Ops
    /\ synced \in BOOLEAN
    /\ run \in [Slots -> Executions]
    /\ crashes \in 0 .. MaxCrashes
    /\ torn \in SUBSET Jobs /\ stale \in SUBSET Jobs
    /\ edited \in SUBSET Jobs /\ left \in SUBSET Jobs

Suspended(j) == row[j].status = "suspended"
EntriesOf(j) == {e \in entries : e.job = j}
Remove(id) == {e \in entries : e.id # id}
Committed == op' = None
Numbered == {j \in Jobs : row[j].entry > 0}
Made == {j \in Jobs : op.made[j] # 0}

\* What earlier processes leave in a row: a number of one of them, none in a
\* row that was suspended (and perhaps revived by an execution).
LeftBehind(r) ==
    /\ r.entry # 0
    /\ r.status = "suspended" => r.entry = -1

Init ==
    /\ row \in [Jobs -> {r \in Rows : LeftBehind(r)}]
    /\ entries = {} /\ lastId = 0
    /\ op = None /\ synced = FALSE
    /\ run = [k \in Slots |-> NoExecution]
    /\ crashes = 0
    /\ torn = {} /\ stale = Numbered /\ edited = {} /\ left = {}

-----------------------------------------------------------------------------
(* Updates. *)

\* The request of a page, or of a service that suspends a job: under the mutex
\* the row is read and locked, and its status and the one that is asked for, if any,
\* decide what is to be done.
UpdateJobConfig(j, goal, p) ==
    /\ op.kind = "none"
    /\ goal = "idle" => lastId + (IF synced THEN 0 ELSE Cardinality(Jobs)) < MaxEntries   \* bound
    /\ op' = [None EXCEPT !.jobs = {j}, !.plan = p,
          !.kind = IF goal = "idle" THEN "activate"
                   ELSE IF goal = "suspended" /\ ~Suspended(j) THEN "suspend" ELSE "edit"]
    /\ UNCHANGED <<row, entries, lastId, synced, run, crashes, ghosts>>

\* updateActiveJobConfig replaces the entry of an active job.  A schedule that
\* is refused ends the update: the row stays as it was, its entry is gone.
Reschedule(j) ==
    /\ op.kind = "activate" /\ op.stage = "locked" /\ j \in op.jobs
    /\ LET rest == IF ~Suspended(j) /\ row[j].entry > 0 THEN Remove(row[j].entry) ELSE entries
       IN  IF op.plan \in Bad
           THEN entries' = rest /\ Committed /\ UNCHANGED <<lastId, torn>>
           ELSE /\ lastId < MaxEntries     \* bound
                /\ lastId' = lastId + 1
                /\ entries' = rest \cup {[id |-> lastId', job |-> j, plan |-> op.plan]}
                /\ op' = [op EXCEPT !.stage = "scheduled", !.made[j] = lastId']
                /\ torn' = IF synced THEN torn ELSE torn \cup {j}
    /\ UNCHANGED <<row, synced, run, crashes, stale, edited, left>>

\* updateSuspendedJobConfig writes the row, then removes the entry it had.
Unschedule(j) ==
    /\ op.kind = "suspend" /\ op.stage = "locked" /\ j \in op.jobs
    /\ entries' = Remove(row[j].entry)
    /\ op' = [op EXCEPT !.stage = "scheduled"]
    /\ UNCHANGED <<row, lastId, synced, run, crashes, ghosts>>

\* The row as the update leaves it.  Without a status to take, the scheduler is not told.
Updated(j) ==
    CASE op.kind = "activate" -> [status |-> "idle", entry |-> op.made[j], plan |-> op.plan]
      [] op.kind = "suspend" -> [status |-> "suspended", entry |-> -1, plan |-> op.plan]
      [] OTHER -> [row[j] EXCEPT !.plan = op.plan]

CommitUpdate(j) ==
    /\ op.kind \in {"activate", "suspend", "edit"} /\ j \in op.jobs
    /\ op.stage = "scheduled" \/ op.kind = "edit"
    /\ row' = [row EXCEPT ![j] = Updated(j)]
    /\ Committed
    /\ IF op.kind = "edit"
       THEN /\ edited' = IF Suspended(j) \/ op.plan = row[j].plan THEN edited ELSE edited \cup {j}
            /\ UNCHANGED <<stale, left>>
       ELSE stale' = stale \ {j} /\ edited' = edited \ {j} /\ left' = left \ {j}
    /\ UNCHANGED <<entries, lastId, synced, run, crashes, torn>>

\* Mutant: the new entry is not taken back.
WriteFailsKeeping(j) ==
    /\ "write" \in Faults
    /\ op.kind \in {"activate", "suspend", "edit"} /\ j \in op.jobs
    /\ (op.stage = "scheduled") <=> (op.kind = "activate")
    /\ Committed
    /\ UNCHANGED <<row, entries, lastId, synced, run, crashes, ghosts>>

\* The statement fails.  An entry just made is taken back; the one before it is
\* not put back.
WriteFails(j) ==
    /\ "write" \in Faults
    /\ op.kind \in {"activate", "suspend", "edit"} /\ j \in op.jobs
    /\ (op.stage = "scheduled") <=> (op.kind = "activate")
    /\ entries' = Remove(op.made[j])
    /\ Committed
    /\ UNCHANGED <<row, lastId, synced, run, crashes, ghosts>>

\* Rows that say running where no execution will say otherwise.
Working(j) == \E k \in Slots : run[k].stage = "working" /\ run[k].job = j
Unattended == {j \in Jobs : row[j].status = "running" /\ ~Working(j)}

\* The transaction fails after all: the scheduler keeps what was done to it.
CommitFails ==
    /\ "commit" \in Faults
    /\ op.kind # "none" /\ op.todo = {}
    /\ op.stage = "scheduled" \/ op.kind \in {"edit", "sync"}
    /\ torn' = torn \cup Made
    /\ left' = IF op.kind = "sync" THEN Unattended ELSE left
    /\ Committed
    /\ synced' = (synced \/ op.kind = "sync")
    /\ UNCHANGED <<row, entries, lastId, run, crashes, stale, edited>>

-----------------------------------------------------------------------------
(* The start of a process. *)

SyncCronJob ==
    /\ ~synced /\ op.kind = "none"
    /\ op' = [None EXCEPT !.kind = "sync", !.jobs = Jobs, !.todo = {j \in Jobs : ~Suspended(j)}]
    /\ UNCHANGED <<row, entries, lastId, synced, run, crashes, ghosts>>

\* The rows cannot be read: the scheduler runs, with what it has.
SyncLoadFails ==
    /\ "load" \in Faults
    /\ ~synced /\ op.kind = "none"
    /\ synced' = TRUE
    /\ left' = Unattended
    /\ UNCHANGED <<row, entries, lastId, op, run, crashes, torn, stale, edited>>

\* A job whose schedule is refused is skipped, its row left alone.
SyncJob(j) ==
    /\ op.kind = "sync" /\ j \in op.todo
    /\ IF row[j].plan \in Bad
       THEN op' = [op EXCEPT !.todo = @ \ {j}] /\ UNCHANGED <<entries, lastId>>
       ELSE /\ lastId < MaxEntries         \* bound
            /\ lastId' = lastId + 1
            /\ entries' = entries \cup {[id |-> lastId', job |-> j, plan |-> row[j].plan]}
            /\ op' = [op EXCEPT !.todo = @ \ {j}, !.made[j] = lastId']
    /\ UNCHANGED <<row, synced, run, crashes, ghosts>>

\* The jobs that got an entry start afresh.
Synchronised ==
    /\ Committed /\ synced' = TRUE
    /\ stale' = stale \ Made /\ edited' = edited \ Made /\ left' = Unattended \ Made
    /\ UNCHANGED <<entries, lastId, run, crashes, torn>>

\* Mutant: the rows keep the numbers of the process before.
SyncStatusOnly ==
    /\ op.kind = "sync" /\ op.todo = {}
    /\ row' = [j \in Jobs |-> IF j \in Made THEN [row[j] EXCEPT !.status = "idle"] ELSE row[j]]
    /\ Synchronised

\* Mutant: a row that says running is left so.
SyncEntryOnly ==
    /\ op.kind = "sync" /\ op.todo = {}
    /\ row' = [j \in Jobs |-> IF j \in Made THEN [row[j] EXCEPT !.entry = op.made[j]] ELSE row[j]]
    /\ Synchronised

SyncCommit ==
    /\ op.kind = "sync" /\ op.todo = {}
    /\ row' = [j \in Jobs |->
          IF j \in Made THEN [row[j] EXCEPT !.status = "idle", !.entry = op.made[j]] ELSE row[j]]
    /\ Synchronised

-----------------------------------------------------------------------------
(* Executions. *)

\* Rows that a transaction under way has locked.
LockedRow(j) == IF op.kind = "sync" THEN op.made[j] # 0 ELSE j \in op.jobs

\* The scheduler, started by the synchronisation, calls a job in a goroutine of
\* its own, whether or not the last call has returned.
Fire(k) ==
    /\ synced \/ op.kind = "sync"
    /\ run[k].stage = "none"
    /\ \E e \in entries : run' = [run EXCEPT ![k] = [stage |-> "called", job |-> e.job]]
    /\ UNCHANGED <<row, entries, lastId, op, synced, crashes, ghosts>>

\* WrapFunc marks the row running; a row that is not idle is only reported.
RunBegins(k) ==
    /\ run[k].stage = "called" /\ ~LockedRow(run[k].job)
    /\ row' = [row EXCEPT ![run[k].job].status = "running"]
    /\ run' = [run EXCEPT ![k].stage = "working"]
    /\ left' = left \ {run[k].job}
    /\ UNCHANGED <<entries, lastId, op, synced, crashes, torn, stale, edited>>

RunFails(k) ==
    /\ "write" \in Faults
    /\ run[k].stage = "called"
    /\ run' = [run EXCEPT ![k] = NoExecution]
    /\ UNCHANGED <<row, entries, lastId, op, synced, crashes, ghosts>>

\* The job has run; the row is idle again unless somebody has changed it.
RunEnds(k) ==
    /\ run[k].stage = "working" /\ ~LockedRow(run[k].job)
    /\ row' = [row EXCEPT ![run[k].job].status = IF @ = "running" THEN "idle" ELSE @]
    /\ run' = [run EXCEPT ![k] = NoExecution]
    /\ left' = left \ {run[k].job}
    /\ UNCHANGED <<entries, lastId, op, synced, crashes, torn, stale, edited>>

\* That statement is tried three times and then given up: the row goes on saying running.
RunGivesUp(k) ==
    /\ "write" \in Faults
    /\ run[k].stage = "working"
    /\ run' = [run EXCEPT ![k] = NoExecution]
    /\ left' = IF row[run[k].job].status = "running" THEN left \cup {run[k].job} ELSE left
    /\ UNCHANGED <<row, entries, lastId, op, synced, crashes, torn, stale, edited>>

\* The process stops and starts: transactions under way are undone.
Crash ==
    /\ crashes < MaxCrashes
    /\ crashes' = crashes + 1
    /\ entries' = {} /\ lastId' = 0
    /\ op' = None /\ synced' = FALSE
    /\ run' = [k \in Slots |-> NoExecution]
    /\ torn' = {} /\ stale' = Numbered /\ edited' = {} /\ left' = {}
    /\ UNCHANGED row

-----------------------------------------------------------------------------

UpdateStep(j) == Reschedule(j) \/ Unschedule(j) \/ CommitUpdate(j) \/ WriteFails(j)
Sync == SyncCronJob \/ SyncLoadFails \/ (\E j \in Jobs : SyncJob(j)) \/ SyncCommit
Execution(k) == RunBegins(k) \/ RunFails(k) \/ RunEnds(k) \/ RunGivesUp(k)

Next ==
    \/ \E j \in Jobs :
          \/ \E goal \in {"idle", "suspended", "none"}, p \in Plans : UpdateJobConfig(j, goal, p)
          \/ UpdateStep(j)
    \/ CommitFails
    \/ Sync
    \/ \E k \in Slots : Fire(k) \/ Execution(k)
    \/ Crash

Spec == Init /\ [][Next]_vars

-----------------------------------------------------------------------------
(* Properties. *)

\* Between updates the scheduler runs what the rows say: at most one entry of a
\* job, the one its row names, with the schedule and parameters of the row unless they
\* were updated without a status, and none of a suspended job.
ScheduleFollowsRows ==
    synced /\ op.kind = "none" =>
        \A j \in Jobs \ torn :
            \A e \in EntriesOf(j) :
                /\ e.id = row[j].entry /\ ~Suspended(j)
                /\ e.plan = row[j].plan \/ j \in edited

\* An update never takes another job's entry away, although it removes by number and a
\* row may hold the number of an entry of an earlier process (updateActiveJobConfig,
\* updateSuspendedJobConfig), unless the row of its job has been neither synchronised
\* nor updated in this process.
OthersStayScheduled ==
    [][\A j \in Jobs :
          EntriesOf(j) # {} /\ EntriesOf(j)' = {}
              => j \in op.jobs \/ op.jobs \cap stale # {} \/ crashes' # crashes]_vars

\* Once the process is synchronised a row says "running" only while an execution of its
\* job is under way that will end that: not after a crash, a suspension or an update in the
\* middle of an execution, unless the end of an execution could not be written, or the
\* synchronisation failed for the job.
RunningIsAttended ==
    synced => \A j \in Jobs : row[j].status = "running" => Working(j) \/ j \in left
=============================================================================
