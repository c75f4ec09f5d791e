--------------------------- MODULE CronJobProofs ---------------------------
(* What holds of CronJobs for any jobs, schedules, executions and faults.   *)
EXTENDS CronJobs, TLAPS

-----------------------------------------------------------------------------
(* What the properties rest on.                                             *)

\* What the holder of the mutex has done so far.  An update has one job, whose row
\* is locked and stays as it was read; a synchronisation schedules no suspended job.
OpInv ==
  /\ op.kind = "none" => op.jobs = {}
  /\ op.kind # "sync" => op.todo = {}
  /\ op.kind # "none" /\ op.kind # "sync" => \E j \in Jobs : op.jobs = {j}
  /\ \A j \in Jobs : op.made[j] # 0 => op.kind \in {"activate", "sync"} /\ j \in op.jobs
  /\ \A j \in op.jobs :
        /\ op.kind = "activate" => ((op.stage = "scheduled") <=> (op.made[j] # 0))
        /\ op.kind = "activate" /\ op.stage = "scheduled" => synced \/ j \in torn
        /\ op.kind = "suspend" => ~Suspended(j)
  /\ op.kind = "sync" =>
        /\ ~synced /\ op.jobs = Jobs
        /\ \A j \in op.todo : op.made[j] = 0 /\ ~Suspended(j)
        /\ \A j \in Jobs : op.made[j] # 0 => ~Suspended(j)

\* Numbers are given in order, and a row is as LeftBehind says.
NumberInv ==
  /\ \A e \in entries : e.id <= lastId
  /\ \A j \in Jobs : op.made[j] <= lastId
  /\ \A j \in Jobs : LeftBehind(row[j])

\* Where the entries of a job come from.
EntryInv ==
  \A j \in Jobs \ torn : \A e \in EntriesOf(j) :
    /\ IF ~synced
       THEN op.kind = "sync" /\ e.id = op.made[j] /\ e.plan = row[j].plan
       ELSE IF j \in op.jobs /\ op.stage = "scheduled"
       THEN op.kind = "activate" /\ e.id = op.made[j] /\ e.plan = op.plan
       ELSE e.id = row[j].entry /\ (e.plan = row[j].plan \/ j \in edited) /\ ~Suspended(j)

\* A number that the holder of the mutex has, or a row that got it in this process,
\* names an entry of that job or none.
OwnerInv ==
  /\ \A j \in Jobs, e \in entries : op.made[j] # 0 /\ e.id = op.made[j] => e.job = j
  /\ \A j \in Jobs \ stale :
        /\ row[j].entry <= lastId
        /\ \A e \in entries : e.id = row[j].entry => e.job = j

IInv == TypeOK /\ OpInv /\ NumberInv /\ EntryInv /\ OwnerInv

-----------------------------------------------------------------------------
(* Facts of the operators.                                                  *)

LEMMA NoneFacts ==
  /\ None \in Ops
  /\ None.kind = "none" /\ None.stage = "locked" /\ None.jobs = {} /\ None.todo = {}
  /\ \A j \in Jobs : None.made[j] = 0
<1>1. (CHOOSE p \in Plans : TRUE) \in Plans
  BY PlanAssumption
<1>2. [j \in Jobs |-> 0] \in [Jobs -> 0 .. MaxEntries]
  BY BoundAssumption
<1>3. QED
  BY <1>1, <1>2 DEF None, Ops

LEMMA NoExecutionFacts ==
  /\ NoExecution \in Executions
  /\ NoExecution.stage = "none"
<1>1. (CHOOSE j \in Jobs : TRUE) \in Jobs
  BY JobAssumption
<1>2. QED
  BY <1>1 DEF NoExecution, Executions

LEMMA OpFacts ==
  ASSUME TypeOK
  PROVE  /\ op \in Ops
         /\ op.kind \in {"none", "activate", "suspend", "edit", "sync"}
         /\ op.stage \in {"locked", "scheduled"}
         /\ op.jobs \subseteq Jobs /\ op.todo \subseteq Jobs /\ op.plan \in Plans
         /\ op.made \in [Jobs -> 0 .. MaxEntries]
         /\ \A j \in Jobs : op.made[j] \in 0 .. MaxEntries
  BY DEF TypeOK, Ops

LEMMA RowFacts ==
  ASSUME TypeOK, NEW j \in Jobs
  PROVE  /\ row[j] \in Rows
         /\ row[j].status \in {"idle", "running", "suspended"}
         /\ row[j].entry \in Ids /\ row[j].plan \in Plans
  BY DEF TypeOK, Rows

LEMMA EntryFacts ==
  ASSUME TypeOK, NEW e \in entries
  PROVE  /\ e \in Entries
         /\ e.id \in 1 .. MaxEntries /\ e.job \in Jobs /\ e.plan \in Plans
  BY DEF TypeOK, Entries

LEMMA EntriesOfFacts ==
  \A j, e : e \in EntriesOf(j) <=> e \in entries /\ e.job = j
  BY DEF EntriesOf

-----------------------------------------------------------------------------
(* Types.                                                                   *)

LEMMA InitType == Init => TypeOK
<1> SUFFICES ASSUME Init PROVE TypeOK
  OBVIOUS
<1>1. run \in [Slots -> Executions]
  BY NoExecutionFacts DEF Init
<1>2. lastId \in 0 .. MaxEntries /\ crashes \in 0 .. MaxCrashes
  BY BoundAssumption DEF Init
<1>3. row \in [Jobs -> Rows]
  BY DEF Init
<1>4. /\ entries = {} /\ synced = FALSE /\ op \in Ops
      /\ torn = {} /\ stale \in SUBSET Jobs /\ edited = {} /\ left = {}
  BY NoneFacts DEF Init, Numbered
<1>5. QED
  BY <1>1, <1>2, <1>3, <1>4 DEF TypeOK

LEMMA BeginType ==
  ASSUME TypeOK, NEW j \in Jobs, NEW goal \in {"idle", "suspended", "none"}, NEW p \in Plans,
         UpdateJobConfig(j, goal, p)
  PROVE  TypeOK'
<1> DEFINE kind == IF goal = "idle" THEN "activate"
                   ELSE IF goal = "suspended" /\ ~Suspended(j) THEN "suspend" ELSE "edit"
           o == [None EXCEPT !.jobs = {j}, !.plan = p, !.kind = kind]
<1>1. kind \in {"none", "activate", "suspend", "edit", "sync"}
  OBVIOUS
<1>2. o \in Ops
  <2> HIDE DEF kind
  <2> QED BY <1>1, NoneFacts DEF Ops
<1>3. op' = o
  BY DEF UpdateJobConfig
<1> HIDE DEF o
<1>4. QED
  BY <1>2, <1>3 DEF TypeOK, UpdateJobConfig, ghosts

LEMMA RescheduleType ==
  ASSUME TypeOK, NEW j \in Jobs, Reschedule(j)
  PROVE  TypeOK'
<1> DEFINE rest == IF ~Suspended(j) /\ row[j].entry > 0 THEN Remove(row[j].entry) ELSE entries
<1>1. rest \subseteq Entries
  BY DEF TypeOK, Remove
<1>2. CASE op.plan \in Bad
  <2>1. entries' = rest /\ op' = None /\ UNCHANGED <<row, lastId, synced, run, crashes, ghosts>>
    BY <1>2 DEF Reschedule, Committed, ghosts
  <2> HIDE DEF rest
  <2>2. QED
    BY <1>1, <2>1, NoneFacts DEF TypeOK, ghosts
<1>3. CASE op.plan \notin Bad
  <2> DEFINE n == lastId + 1
             o == [op EXCEPT !.stage = "scheduled", !.made[j] = n]
             e == [id |-> n, job |-> j, plan |-> op.plan]
  <2>1. /\ lastId < MaxEntries /\ lastId' = n
        /\ entries' = rest \cup {e}
        /\ op' = o
        /\ torn' \in SUBSET Jobs
        /\ UNCHANGED <<row, synced, run, crashes, stale, edited, left>>
    BY <1>3 DEF Reschedule, TypeOK
  <2>2. n \in 1 .. MaxEntries
    BY <2>1, BoundAssumption DEF TypeOK
  <2> HIDE DEF rest, n
  <2>3. o \in Ops
    <3>1. [op.made EXCEPT ![j] = n] \in [Jobs -> 0 .. MaxEntries]
      BY <2>2, OpFacts
    <3>2. o = [op EXCEPT !.stage = "scheduled", !.made = [op.made EXCEPT ![j] = n]]
      OBVIOUS
    <3>3. QED
      BY <3>1, <3>2, OpFacts DEF Ops
  <2>4. e \in Entries
    BY <2>2, OpFacts DEF Entries
  <2> HIDE DEF o, e
  <2>5. QED
    BY <1>1, <2>1, <2>2, <2>3, <2>4 DEF TypeOK
<1>4. QED
  BY <1>2, <1>3

LEMMA UpdateType ==
  ASSUME TypeOK, NEW j \in Jobs, Unschedule(j) \/ CommitUpdate(j) \/ WriteFails(j)
  PROVE  TypeOK'
<1>1. CASE Unschedule(j)
  <2> DEFINE o == [op EXCEPT !.stage = "scheduled"]
  <2>1. o \in Ops
    BY OpFacts DEF Ops
  <2>2. op' = o /\ entries' \subseteq entries /\ UNCHANGED <<row, lastId, synced, run, crashes, ghosts>>
    BY <1>1 DEF Unschedule, Remove
  <2> HIDE DEF o
  <2>3. QED
    BY <2>1, <2>2 DEF TypeOK, ghosts
<1>2. CASE CommitUpdate(j)
  <2>1. Updated(j) \in Rows
    BY OpFacts, RowFacts, BoundAssumption DEF Updated, Rows, Ids
  <2>2. QED
    BY <1>2, <2>1, NoneFacts DEF TypeOK, CommitUpdate, Committed
<1>3. CASE WriteFails(j)
  BY <1>3, NoneFacts DEF TypeOK, WriteFails, Committed, Remove, ghosts
<1>4. QED
  BY <1>1, <1>2, <1>3

LEMMA SyncType ==
  ASSUME TypeOK, Sync \/ CommitFails
  PROVE  TypeOK'
<1>1. CASE CommitFails
  BY <1>1, NoneFacts DEF TypeOK, CommitFails, Committed, Made, Unattended
<1>2. CASE SyncCronJob
  <2> DEFINE o == [None EXCEPT !.kind = "sync", !.jobs = Jobs, !.todo = {j \in Jobs : ~Suspended(j)}]
  <2>1. o \in Ops
    BY NoneFacts DEF Ops
  <2>2. op' = o
    BY <1>2 DEF SyncCronJob
  <2> HIDE DEF o
  <2>3. QED
    BY <1>2, <2>1, <2>2 DEF TypeOK, SyncCronJob, ghosts
<1>3. ASSUME NEW j \in Jobs, SyncJob(j)
      PROVE  TypeOK'
  <2>1. CASE row[j].plan \in Bad
    <3> DEFINE o == [op EXCEPT !.todo = @ \ {j}]
    <3>1. o \in Ops
      BY OpFacts DEF Ops
    <3>2. op' = o /\ UNCHANGED <<entries, lastId, row, synced, run, crashes, ghosts>>
      BY <1>3, <2>1 DEF SyncJob
    <3> HIDE DEF o
    <3>3. QED
      BY <3>1, <3>2 DEF TypeOK, ghosts
  <2>2. CASE row[j].plan \notin Bad
    <3> DEFINE n == lastId + 1
               o == [op EXCEPT !.todo = @ \ {j}, !.made[j] = n]
               e == [id |-> n, job |-> j, plan |-> row[j].plan]
    <3>1. /\ lastId < MaxEntries /\ lastId' = n
          /\ entries' = entries \cup {e} /\ op' = o
          /\ UNCHANGED <<row, synced, run, crashes, ghosts>>
      BY <1>3, <2>2 DEF SyncJob
    <3>2. n \in 1 .. MaxEntries
      BY <3>1, BoundAssumption DEF TypeOK
    <3> HIDE DEF n
    <3>3. o \in Ops
      <4>1. [op.made EXCEPT ![j] = n] \in [Jobs -> 0 .. MaxEntries]
        BY <3>2, OpFacts
      <4>2. o = [op EXCEPT !.todo = op.todo \ {j}, !.made = [op.made EXCEPT ![j] = n]]
        BY OpFacts DEF Ops
      <4>3. QED
        BY <4>1, <4>2, OpFacts DEF Ops
    <3>4. e \in Entries
      BY <3>2, RowFacts DEF Entries
    <3> HIDE DEF o, e
    <3>5. QED
      BY <3>1, <3>2, <3>3, <3>4 DEF TypeOK, ghosts
  <2>3. QED
    BY <2>1, <2>2
<1>4. CASE SyncCommit
  <2> DEFINE r(j) == IF j \in Made THEN [row[j] EXCEPT !.status = "idle", !.entry = op.made[j]] ELSE row[j]
  <2>1. ASSUME NEW j \in Jobs PROVE r(j) \in Rows
    <3>1. op.made[j] \in Ids
      BY OpFacts, BoundAssumption DEF Ids
    <3>2. [row[j] EXCEPT !.status = "idle", !.entry = op.made[j]] \in Rows
      BY <3>1, RowFacts DEF Rows
    <3>3. QED
      BY <3>2, RowFacts
  <2>2. row' = [j \in Jobs |-> r(j)]
    BY <1>4 DEF SyncCommit
  <2> HIDE DEF r
  <2>3. row' \in [Jobs -> Rows]
    BY <2>1, <2>2
  <2>4. QED
    BY <1>4, <2>3, NoneFacts DEF TypeOK, SyncCommit, Synchronised, Committed, Made, Unattended
<1>5. CASE SyncLoadFails
  BY <1>5 DEF TypeOK, SyncLoadFails, Unattended
<1>6. QED
  BY <1>1, <1>2, <1>3, <1>4, <1>5 DEF Sync

LEMMA RunType ==
  ASSUME TypeOK, NEW k \in Slots, Fire(k) \/ Execution(k)
  PROVE  TypeOK'
<1>1. CASE Fire(k)
  <2>1. PICK e \in entries : run' = [run EXCEPT ![k] = [stage |-> "called", job |-> e.job]]
    BY <1>1 DEF Fire
  <2>2. [stage |-> "called", job |-> e.job] \in Executions
    BY EntryFacts DEF Executions
  <2>3. QED
    BY <1>1, <2>1, <2>2 DEF TypeOK, Fire, ghosts
<1>2. run[k] \in Executions /\ run[k].job \in Jobs
  BY DEF TypeOK, Executions
<1>3. CASE RunBegins(k)
  <2>1. [row[run[k].job] EXCEPT !.status = "running"] \in Rows
    BY <1>2, RowFacts DEF Rows
  <2>2. [run[k] EXCEPT !.stage = "working"] \in Executions
    BY <1>2 DEF Executions
  <2>3. QED
    BY <1>2, <1>3, <2>1, <2>2 DEF TypeOK, RunBegins
<1>4. CASE RunFails(k)
  BY <1>4, NoExecutionFacts DEF TypeOK, RunFails, ghosts
<1>5. CASE RunEnds(k)
  <2>1. [row[run[k].job] EXCEPT !.status = IF @ = "running" THEN "idle" ELSE @] \in Rows
    BY <1>2, RowFacts DEF Rows
  <2>2. QED
    BY <1>2, <1>5, <2>1, NoExecutionFacts DEF TypeOK, RunEnds
<1>6. CASE RunGivesUp(k)
  BY <1>2, <1>6, NoExecutionFacts DEF TypeOK, RunGivesUp
<1>7. QED
  BY <1>1, <1>3, <1>4, <1>5, <1>6 DEF Execution

LEMMA TypeStep == TypeOK /\ [Next]_vars => TypeOK'
<1> SUFFICES ASSUME TypeOK, [Next]_vars PROVE TypeOK'
  OBVIOUS
<1>1. CASE UNCHANGED vars
  BY <1>1 DEF TypeOK, vars, ghosts
<1>2. CASE Crash
  <2>1. run' \in [Slots -> Executions]
    BY <1>2, NoExecutionFacts DEF Crash
  <2>2. lastId' \in 0 .. MaxEntries /\ crashes' \in 0 .. MaxCrashes
    BY <1>2, BoundAssumption DEF TypeOK, Crash
  <2>3. /\ entries' = {} /\ synced' = FALSE /\ op' \in Ops /\ row' = row
        /\ torn' = {} /\ stale' \in SUBSET Jobs /\ edited' = {} /\ left' = {}
    BY <1>2, NoneFacts DEF Crash, Numbered
  <2>4. QED
    BY <2>1, <2>2, <2>3 DEF TypeOK
<1>3. QED
  BY <1>1, <1>2, BeginType, RescheduleType, UpdateType, SyncType, RunType DEF Next, UpdateStep

\* TypeOK: every reachable state has the declared types, whatever the constants.
THEOREM CronTypeCorrect == Spec => []TypeOK
<1>1. QED
  BY InitType, TypeStep, PTL DEF Spec

-----------------------------------------------------------------------------
(* Steps: first what each does, field by field, then what it keeps.         *)

LEMMA BeginFacts ==
  ASSUME TypeOK, NEW j \in Jobs, NEW goal \in {"idle", "suspended", "none"}, NEW p \in Plans,
         UpdateJobConfig(j, goal, p)
  PROVE  /\ op.kind = "none"
         /\ op'.kind \in {"activate", "suspend", "edit"}
         /\ op'.kind = "suspend" => ~Suspended(j)
         /\ op'.jobs = {j} /\ op'.todo = {} /\ op'.stage = "locked"
         /\ \A k \in Jobs : op'.made[k] = 0
         /\ UNCHANGED <<row, entries, lastId, synced, torn, stale, edited>>
<1>1. None \in [kind : {"none", "activate", "suspend", "edit", "sync"}, stage : {"locked", "scheduled"},
          jobs : SUBSET Jobs, plan : Plans, todo : SUBSET Jobs, made : [Jobs -> 0 .. MaxEntries]]
  BY NoneFacts DEF Ops
<1>2. op' = [None EXCEPT !.jobs = {j}, !.plan = p,
          !.kind = IF goal = "idle" THEN "activate"
                   ELSE IF goal = "suspended" /\ ~Suspended(j) THEN "suspend" ELSE "edit"]
  BY DEF UpdateJobConfig
<1>3. /\ op'.kind = IF goal = "idle" THEN "activate"
                    ELSE IF goal = "suspended" /\ ~Suspended(j) THEN "suspend" ELSE "edit"
      /\ op'.jobs = {j} /\ op'.todo = None.todo /\ op'.stage = None.stage /\ op'.made = None.made
  BY <1>1, <1>2
<1>4. QED
  BY <1>3, NoneFacts DEF UpdateJobConfig, ghosts

LEMMA BeginKeeps ==
  ASSUME IInv, NEW j \in Jobs, NEW goal \in {"idle", "suspended", "none"}, NEW p \in Plans,
         UpdateJobConfig(j, goal, p)
  PROVE  IInv'
<1>1. TypeOK' /\ TypeOK
  BY BeginType DEF IInv
<1>2. OpInv'
  BY <1>1, BeginFacts DEF OpInv, Suspended
<1>3. NumberInv'
  BY <1>1, BeginFacts, OpFacts DEF IInv, NumberInv, LeftBehind, TypeOK
<1>4. EntryInv'
  BY <1>1, BeginFacts DEF IInv, EntryInv, OpInv, EntriesOf, Suspended
<1>5. OwnerInv'
  BY <1>1, BeginFacts DEF IInv, OwnerInv
<1>6. QED
  BY <1>1, <1>2, <1>3, <1>4, <1>5 DEF IInv

\* A transaction that ends without a write of its own.
LEMMA NoneIsFine ==
  ASSUME IInv, op' = None
  PROVE  /\ OpInv'
         /\ \A k \in Jobs : op'.made[k] = 0
         /\ op'.jobs = {} /\ op'.kind = "none"
<1>1. QED
  BY NoneFacts DEF OpInv

\* The entries of the job whose entry is removed by its number.
LEMMA OwnEntriesGo ==
  ASSUME IInv, NEW j \in Jobs \ torn, op.jobs = {j}, op.stage = "locked", op.kind # "sync",
         NEW rest, rest \subseteq entries,
         Suspended(j) \/ row[j].entry <= 0 \/ rest = Remove(row[j].entry)
  PROVE  \A e \in rest : e.job # j
<1> SUFFICES ASSUME NEW e \in rest, e.job = j PROVE FALSE
  OBVIOUS
<1>1. e \in EntriesOf(j) /\ e.id \in 1 .. MaxEntries
  BY EntryFacts DEF IInv, EntriesOf
<1>2. synced /\ e.id = row[j].entry /\ ~Suspended(j)
  BY <1>1 DEF IInv, EntryInv
<1>3. row[j].entry \in Ids
  BY RowFacts DEF IInv
<1>4. ~(row[j].entry <= 0)
  BY <1>1, <1>2, <1>3 DEF Ids
<1>5. QED
  BY <1>2, <1>4 DEF Remove

LEMMA RescheduleKeeps ==
  ASSUME IInv, NEW j \in Jobs, Reschedule(j)
  PROVE  IInv'
<1> DEFINE rest == IF ~Suspended(j) /\ row[j].entry > 0 THEN Remove(row[j].entry) ELSE entries
<1>1. TypeOK /\ TypeOK'
  BY RescheduleType DEF IInv
<1>2. op.kind = "activate" /\ op.stage = "locked" /\ op.jobs = {j}
  BY DEF IInv, OpInv, Reschedule
<1>3. rest \subseteq entries
  BY DEF Remove
<1>4. j \notin torn => \A e \in rest : e.job # j
  <2>1. Suspended(j) \/ row[j].entry <= 0 \/ rest = Remove(row[j].entry)
    BY <1>1, RowFacts DEF Ids
  <2> HIDE DEF rest
  <2>2. QED
    BY <1>2, <1>3, <2>1, OwnEntriesGo
<1>5. CASE op.plan \in Bad
  <2>1. op' = None /\ entries' = rest /\ UNCHANGED <<row, lastId, synced, torn, stale, edited>>
    BY <1>5 DEF Reschedule, Committed
  <2> HIDE DEF rest
  <2>2. OpInv' /\ (\A k \in Jobs : op'.made[k] = 0) /\ op'.jobs = {} /\ op'.kind = "none"
    BY <2>1, NoneIsFine
  <2>3. NumberInv'
    BY <1>1, <1>3, <2>1, <2>2 DEF IInv, NumberInv, LeftBehind, TypeOK
  <2>4. EntryInv'
    BY <1>2, <1>3, <1>4, <2>1, <2>2 DEF IInv, EntryInv, EntriesOf, Suspended
  <2>5. OwnerInv'
    BY <1>3, <2>1, <2>2 DEF IInv, OwnerInv
  <2>6. QED
    BY <1>1, <2>2, <2>3, <2>4, <2>5 DEF IInv
<1>6. CASE op.plan \notin Bad
  <2> DEFINE n == lastId + 1
             new == [id |-> n, job |-> j, plan |-> op.plan]
  <2>1. /\ lastId' = n
        /\ entries' = rest \cup {new}
        /\ op' = [op EXCEPT !.stage = "scheduled", !.made[j] = n]
        /\ torn' = IF synced THEN torn ELSE torn \cup {j}
        /\ UNCHANGED <<row, synced, stale, edited>>
    BY <1>6 DEF Reschedule
  <2>2. n \in Nat \ {0} /\ n > lastId /\ lastId \in Nat
    BY <1>1, BoundAssumption DEF TypeOK
  <2>3. new.id = n /\ new.job = j /\ new.plan = op.plan
    OBVIOUS
  <2>4. /\ op'.kind = "activate" /\ op'.stage = "scheduled"
        /\ op'.jobs = {j} /\ op'.todo = op.todo /\ op'.plan = op.plan
        /\ op'.made[j] = n
        /\ \A k \in Jobs : k # j => op'.made[k] = op.made[k]
    BY <1>1, <1>2, <2>1, OpFacts DEF Ops
  <2>5. \A k \in Jobs : op.made[k] = 0
    BY <1>1, <1>2, OpFacts DEF IInv, OpInv
  <2>6. torn \subseteq torn' /\ (synced \/ j \in torn') /\ (j \notin torn' => j \notin torn)
    BY <2>1
  <2>7. op.todo = {}
    BY <1>2 DEF IInv, OpInv
  <2> HIDE DEF n, new, rest
  <2>8. OpInv'
    BY <2>1, <2>2, <2>4, <2>5, <2>6, <2>7 DEF OpInv
  <2>9. NumberInv'
    <3>1. \A e \in entries' : e.id <= lastId'
      BY <1>1, <1>3, <2>1, <2>2, <2>3, EntryFacts DEF IInv, NumberInv
    <3>2. \A k \in Jobs : op'.made[k] <= lastId'
      BY <2>1, <2>2, <2>4, <2>5
    <3>3. QED
      BY <2>1, <3>1, <3>2 DEF IInv, NumberInv, LeftBehind
  <2>10. EntryInv'
    <3> SUFFICES ASSUME NEW k \in Jobs, k \notin torn', NEW e \in entries', e.job = k
                 PROVE  IF ~synced'
                        THEN op'.kind = "sync" /\ e.id = op'.made[k] /\ e.plan = row'[k].plan
                        ELSE IF k \in op'.jobs /\ op'.stage = "scheduled"
                        THEN op'.kind = "activate" /\ e.id = op'.made[k] /\ e.plan = op'.plan
                        ELSE /\ e.id = row'[k].entry /\ ~Suspended(k)'
                             /\ e.plan = row'[k].plan \/ k \in edited'
      BY DEF EntryInv, EntriesOf
    <3>1. CASE e = new
      BY <2>1, <2>3, <2>4, <2>6, <3>1
    <3>2. CASE e \in rest
      <4>1. k # j
        BY <1>4, <2>6, <3>2
      <4>2. e \in EntriesOf(k) /\ k \notin torn
        BY <1>3, <2>6, <3>2 DEF EntriesOf
      <4>3. QED
        BY <1>2, <2>1, <2>4, <4>1, <4>2 DEF IInv, EntryInv, Suspended
    <3>3. QED
      BY <2>1, <3>1, <3>2
  <2>11. OwnerInv'
    <3>1. \A k \in Jobs, e \in entries' : op'.made[k] # 0 /\ e.id = op'.made[k] => e.job = k
      <4> SUFFICES ASSUME NEW k \in Jobs, NEW e \in entries', op'.made[k] # 0, e.id = op'.made[k]
                   PROVE  e.job = k
        OBVIOUS
      <4>1. k = j /\ e.id = n
        BY <2>4, <2>5
      <4>2. e \notin rest
        BY <1>1, <1>3, <2>2, <4>1, EntryFacts DEF IInv, NumberInv
      <4>3. QED
        BY <2>1, <2>3, <4>1, <4>2
    <3>2. ASSUME NEW k \in Jobs, k \notin stale'
          PROVE  row'[k].entry <= lastId' /\ \A e \in entries' : e.id = row'[k].entry => e.job = k
      <4>1. row'[k].entry = row[k].entry /\ row[k].entry \in Ids /\ row[k].entry <= lastId /\ k \notin stale
        BY <1>1, <2>1, <3>2, RowFacts DEF IInv, OwnerInv
      <4>2. row'[k].entry <= lastId' /\ row'[k].entry # n
        BY <2>1, <2>2, <4>1 DEF Ids
      <4>3. QED
        BY <1>3, <2>1, <2>3, <4>1, <4>2 DEF IInv, OwnerInv
    <3>3. QED
      BY <3>1, <3>2 DEF OwnerInv
  <2>12. QED
    BY <1>1, <2>8, <2>9, <2>10, <2>11 DEF IInv
<1>7. QED
  BY <1>5, <1>6

LEMMA UnscheduleKeeps ==
  ASSUME IInv, NEW j \in Jobs, Unschedule(j)
  PROVE  IInv'
<1>1. TypeOK /\ TypeOK'
  BY UpdateType DEF IInv
<1>2. op.kind = "suspend" /\ op.stage = "locked" /\ op.jobs = {j}
  BY DEF IInv, OpInv, Unschedule
<1>3. entries' = Remove(row[j].entry) /\ entries' \subseteq entries
  BY DEF Unschedule, Remove
<1>4. j \notin torn => \A e \in entries' : e.job # j
  BY <1>2, <1>3, OwnEntriesGo
<1>5. /\ op'.kind = "suspend" /\ op'.stage = "scheduled" /\ op'.jobs = {j}
      /\ op'.todo = op.todo /\ op'.made = op.made /\ op'.plan = op.plan
      /\ UNCHANGED <<row, lastId, synced, torn, stale, edited>>
  BY <1>1, <1>2, OpFacts DEF Unschedule, Ops, ghosts
<1>6. OpInv'
  BY <1>2, <1>5 DEF IInv, OpInv, Suspended
<1>7. NumberInv'
  BY <1>3, <1>5 DEF IInv, NumberInv, LeftBehind
<1>8. EntryInv'
  BY <1>2, <1>3, <1>4, <1>5 DEF IInv, EntryInv, EntriesOf, Suspended
<1>9. OwnerInv'
  BY <1>3, <1>5 DEF IInv, OwnerInv
<1>10. QED
  BY <1>1, <1>6, <1>7, <1>8, <1>9 DEF IInv

LEMMA CommitUpdateKeeps ==
  ASSUME IInv, NEW j \in Jobs, CommitUpdate(j)
  PROVE  IInv'
<1>1. TypeOK /\ TypeOK'
  BY UpdateType DEF IInv
<1>2. /\ op.kind \in {"activate", "suspend", "edit"} /\ op.jobs = {j}
      /\ op.stage = "scheduled" \/ op.kind = "edit"
      /\ op' = None
      /\ row'[j] = Updated(j)
      /\ \A k \in Jobs : k # j => row'[k] = row[k] /\ (k \in stale' <=> k \in stale)
                               /\ (k \in edited' <=> k \in edited)
      /\ UNCHANGED <<entries, lastId, synced, torn>>
  BY <1>1 DEF IInv, OpInv, CommitUpdate, Committed, TypeOK
<1>3. OpInv' /\ (\A k \in Jobs : op'.made[k] = 0) /\ op'.jobs = {} /\ op'.kind = "none"
  BY <1>2, NoneIsFine
<1>4. op.made[j] \in Nat /\ op.made[j] <= lastId /\ lastId \in Nat
  BY <1>1, OpFacts, BoundAssumption DEF IInv, NumberInv, TypeOK
<1>5. CASE op.kind = "activate"
  <2>1. row'[j] = [status |-> "idle", entry |-> op.made[j], plan |-> op.plan]
    BY <1>2, <1>5 DEF Updated
  <2>2. row'[j].status = "idle" /\ row'[j].entry = op.made[j] /\ row'[j].plan = op.plan
    BY <2>1
  <2>3. op.made[j] # 0 /\ op.stage = "scheduled" /\ (synced \/ j \in torn)
    BY <1>2, <1>5 DEF IInv, OpInv
  <2>4. NumberInv'
    BY <1>2, <1>3, <1>4, <2>2, <2>3 DEF IInv, NumberInv, LeftBehind
  <2>5. EntryInv'
    BY <1>2, <1>3, <1>5, <2>2, <2>3 DEF IInv, EntryInv, EntriesOf, Suspended
  <2>6. OwnerInv'
    BY <1>2, <1>3, <1>4, <2>2, <2>3 DEF IInv, OwnerInv
  <2>7. QED
    BY <1>1, <1>3, <2>4, <2>5, <2>6 DEF IInv
<1>6. CASE op.kind = "suspend"
  <2>1. row'[j].status = "suspended" /\ row'[j].entry = -1
    BY <1>2, <1>6 DEF Updated
  <2>2. j \notin torn => \A e \in entries : e.job # j
    BY <1>2, <1>6 DEF IInv, EntryInv, EntriesOf, OpInv
  <2>3. NumberInv'
    BY <1>2, <1>3, <1>4, <2>1 DEF IInv, NumberInv, LeftBehind
  <2>4. EntryInv'
    BY <1>2, <1>3, <1>6, <2>2 DEF IInv, EntryInv, EntriesOf, Suspended
  <2>5. OwnerInv'
    BY <1>1, <1>2, <1>3, <1>4, <2>1, EntryFacts DEF IInv, OwnerInv
  <2>6. QED
    BY <1>1, <1>3, <2>3, <2>4, <2>5 DEF IInv
<1>7. CASE op.kind = "edit"
  <2>1. row'[j] = [row[j] EXCEPT !.plan = op.plan]
    BY <1>2, <1>7 DEF Updated
  <2>2. row'[j].status = row[j].status /\ row'[j].entry = row[j].entry /\ row'[j].plan = op.plan
    BY <1>1, <2>1, RowFacts DEF Rows
  <2>3. /\ stale' = stale /\ edited \subseteq edited'
        /\ Suspended(j) \/ row'[j].plan = row[j].plan \/ j \in edited'
    BY <1>7, <2>2 DEF CommitUpdate
  <2>4. NumberInv'
    BY <1>2, <1>3, <1>4, <2>2 DEF IInv, NumberInv, LeftBehind
  <2>5. EntryInv'
    <3> SUFFICES ASSUME NEW k \in Jobs, k \notin torn, NEW e \in entries, e.job = k
                 PROVE  synced /\ e.id = row'[k].entry /\ ~Suspended(k)'
                        /\ (e.plan = row'[k].plan \/ k \in edited')
      BY <1>2, <1>3 DEF EntryInv, EntriesOf, Suspended
    <3>1. op.made[k] = 0 /\ e.id # 0
      BY <1>1, <1>2, <1>7, EntryFacts DEF IInv, OpInv
    <3>2. synced /\ e.id = row[k].entry /\ (e.plan = row[k].plan \/ k \in edited) /\ ~Suspended(k)
      BY <1>2, <1>7, <3>1 DEF IInv, EntryInv, EntriesOf
    <3>3. CASE k = j
      BY <2>2, <2>3, <3>2, <3>3 DEF Suspended
    <3>4. CASE k # j
      BY <1>2, <3>2, <3>4 DEF Suspended
    <3>5. QED
      BY <3>3, <3>4
  <2>6. OwnerInv'
    BY <1>2, <1>3, <2>2, <2>3 DEF IInv, OwnerInv
  <2>7. QED
    BY <1>1, <1>3, <2>4, <2>5, <2>6 DEF IInv
<1>8. QED
  BY <1>2, <1>5, <1>6, <1>7

LEMMA WriteFailsKeeps ==
  ASSUME IInv, NEW j \in Jobs, WriteFails(j)
  PROVE  IInv'
<1>1. TypeOK /\ TypeOK'
  BY UpdateType DEF IInv
<1>2. /\ op.kind \in {"activate", "suspend", "edit"} /\ op.jobs = {j}
      /\ (op.stage = "scheduled") <=> (op.kind = "activate")
      /\ op' = None
      /\ entries' = Remove(op.made[j]) /\ entries' \subseteq entries
      /\ UNCHANGED <<row, lastId, synced, torn, stale, edited>>
  BY DEF IInv, OpInv, WriteFails, Committed, Remove, ghosts
<1>3. OpInv' /\ (\A k \in Jobs : op'.made[k] = 0) /\ op'.jobs = {} /\ op'.kind = "none"
  BY <1>2, NoneIsFine
<1>4. NumberInv'
  BY <1>1, <1>2, <1>3 DEF IInv, NumberInv, LeftBehind, TypeOK
<1>5. EntryInv'
  <2>1. op.kind = "activate" /\ j \notin torn => \A e \in entries' : e.job # j
    BY <1>2 DEF IInv, EntryInv, EntriesOf, OpInv, Remove
  <2>2. QED
    BY <1>2, <1>3, <2>1 DEF IInv, EntryInv, EntriesOf, Suspended
<1>6. OwnerInv'
  BY <1>2, <1>3 DEF IInv, OwnerInv
<1>7. QED
  BY <1>1, <1>3, <1>4, <1>5, <1>6 DEF IInv

LEMMA CommitFailsKeeps ==
  ASSUME IInv, CommitFails
  PROVE  IInv'
<1>1. TypeOK /\ TypeOK'
  BY SyncType DEF IInv
<1>2. /\ op.kind # "none" /\ op.todo = {}
      /\ op.stage = "scheduled" \/ op.kind \in {"edit", "sync"}
      /\ torn' = torn \cup {j \in Jobs : op.made[j] # 0}
      /\ op' = None
      /\ synced' = (synced \/ op.kind = "sync")
      /\ UNCHANGED <<row, entries, lastId, stale, edited>>
  BY DEF CommitFails, Committed, Made
<1>3. OpInv' /\ (\A k \in Jobs : op'.made[k] = 0) /\ op'.jobs = {} /\ op'.kind = "none"
  BY <1>2, NoneIsFine
<1>4. NumberInv'
  BY <1>1, <1>2, <1>3 DEF IInv, NumberInv, LeftBehind, TypeOK
<1>5. EntryInv'
  <2> SUFFICES ASSUME NEW j \in Jobs, j \notin torn', NEW e \in entries, e.job = j
               PROVE  synced' /\ e.id = row[j].entry /\ (e.plan = row[j].plan \/ j \in edited) /\ ~Suspended(j)
    BY <1>2, <1>3 DEF EntryInv, EntriesOf, Suspended
  <2>1. j \notin torn /\ op.made[j] = 0 /\ e \in EntriesOf(j)
    BY <1>2 DEF EntriesOf
  <2>2. e.id # 0
    BY <1>1, EntryFacts
  <2>3. synced /\ e.id = row[j].entry /\ (e.plan = row[j].plan \/ j \in edited) /\ ~Suspended(j)
    BY <2>1, <2>2 DEF IInv, EntryInv
  <2>4. QED
    BY <1>2, <2>3
<1>6. OwnerInv'
  BY <1>2, <1>3 DEF IInv, OwnerInv
<1>7. QED
  BY <1>1, <1>3, <1>4, <1>5, <1>6 DEF IInv

LEMMA SyncCronJobKeeps ==
  ASSUME IInv, SyncCronJob
  PROVE  IInv'
<1>1. TypeOK /\ TypeOK'
  BY SyncType DEF IInv, Sync
<1>2. op.kind = "none" /\ ~synced /\ UNCHANGED <<row, entries, lastId, synced, torn, stale, edited>>
  BY DEF SyncCronJob, ghosts
<1>3. /\ op'.kind = "sync" /\ op'.jobs = Jobs /\ op'.todo = {j \in Jobs : ~Suspended(j)}
      /\ \A j \in Jobs : op'.made[j] = 0
  <2>1. None \in [kind : {"none", "activate", "suspend", "edit", "sync"}, stage : {"locked", "scheduled"},
            jobs : SUBSET Jobs, plan : Plans, todo : SUBSET Jobs, made : [Jobs -> 0 .. MaxEntries]]
    BY NoneFacts DEF Ops
  <2>2. op' = [None EXCEPT !.kind = "sync", !.jobs = Jobs, !.todo = {j \in Jobs : ~Suspended(j)}]
    BY DEF SyncCronJob
  <2>3. op'.kind = "sync" /\ op'.jobs = Jobs /\ op'.todo = {j \in Jobs : ~Suspended(j)} /\ op'.made = None.made
    BY <2>1, <2>2
  <2>4. QED
    BY <2>3, NoneFacts
<1>4. OpInv'
  BY <1>2, <1>3 DEF OpInv, Suspended
<1>5. NumberInv'
  BY <1>1, <1>2, <1>3, BoundAssumption DEF IInv, NumberInv, LeftBehind, TypeOK
<1>6. EntryInv'
  BY <1>2 DEF IInv, EntryInv, EntriesOf
<1>7. OwnerInv'
  BY <1>2, <1>3 DEF IInv, OwnerInv
<1>8. QED
  BY <1>1, <1>4, <1>5, <1>6, <1>7 DEF IInv

LEMMA SyncLoadFailsKeeps ==
  ASSUME IInv, SyncLoadFails
  PROVE  IInv'
<1>1. TypeOK /\ TypeOK'
  BY SyncType DEF IInv, Sync
<1>2. /\ op.kind = "none" /\ ~synced /\ synced'
      /\ UNCHANGED <<row, entries, lastId, op, torn, stale, edited>>
  BY DEF SyncLoadFails
<1>3. OpInv' /\ NumberInv' /\ OwnerInv'
  BY <1>2 DEF IInv, OpInv, NumberInv, LeftBehind, OwnerInv, Suspended
<1>4. EntryInv'
  BY <1>2 DEF IInv, EntryInv, EntriesOf
<1>5. QED
  BY <1>1, <1>3, <1>4 DEF IInv

LEMMA SyncJobKeeps ==
  ASSUME IInv, NEW j \in Jobs, SyncJob(j)
  PROVE  IInv'
<1>1. TypeOK /\ TypeOK'
  BY SyncType DEF IInv, Sync
<1>2. /\ op.kind = "sync" /\ op.jobs = Jobs /\ j \in op.todo /\ ~synced
      /\ op.made[j] = 0 /\ ~Suspended(j)
      /\ UNCHANGED <<row, synced, torn, stale, edited>>
  BY DEF IInv, OpInv, SyncJob, ghosts
<1>3. CASE row[j].plan \in Bad
  <2>1. /\ op'.kind = "sync" /\ op'.jobs = Jobs /\ op'.todo = op.todo \ {j} /\ op'.made = op.made
        /\ op'.stage = op.stage /\ op'.plan = op.plan
        /\ UNCHANGED <<entries, lastId>>
    BY <1>1, <1>2, <1>3, OpFacts DEF SyncJob, Ops
  <2>3. OpInv'
    <3>1. /\ \A k \in Jobs : op'.made[k] # 0 => ~Suspended(k)'
          /\ \A k \in op'.todo : op'.made[k] = 0 /\ ~Suspended(k)'
      BY <1>2, <2>1 DEF IInv, OpInv, Suspended
    <3>2. QED
      BY <1>2, <2>1, <3>1 DEF OpInv, Suspended
  <2>4. NumberInv' /\ EntryInv' /\ OwnerInv'
    BY <1>2, <2>1 DEF IInv, NumberInv, LeftBehind, EntryInv, EntriesOf, OwnerInv, Suspended
  <2>5. QED
    BY <1>1, <2>3, <2>4 DEF IInv
<1>4. CASE row[j].plan \notin Bad
  <2> DEFINE n == lastId + 1
             new == [id |-> n, job |-> j, plan |-> row[j].plan]
  <2>1. /\ lastId' = n /\ entries' = entries \cup {new}
        /\ op' = [op EXCEPT !.todo = @ \ {j}, !.made[j] = n]
    BY <1>4 DEF SyncJob
  <2>2. n \in Nat \ {0} /\ n > lastId /\ lastId \in Nat
    BY <1>1, BoundAssumption DEF TypeOK
  <2>3. new.id = n /\ new.job = j /\ new.plan = row[j].plan
    OBVIOUS
  <2>4. /\ op'.kind = "sync" /\ op'.jobs = Jobs /\ op'.todo = op.todo \ {j} /\ op'.stage = op.stage
        /\ op'.made[j] = n
        /\ \A k \in Jobs : k # j => op'.made[k] = op.made[k]
    BY <1>1, <1>2, <2>1, OpFacts DEF Ops
  <2>5. \A k \in Jobs : op.made[k] \in Nat /\ op.made[k] <= lastId
    BY <1>1, OpFacts DEF IInv, NumberInv
  <2> HIDE DEF n, new
  <2>6. OpInv'
    <3>1. /\ \A k \in Jobs : op'.made[k] # 0 => ~Suspended(k)'
          /\ \A k \in op'.todo : op'.made[k] = 0 /\ ~Suspended(k)'
      BY <1>1, <1>2, <1>4, <2>2, <2>4, OpFacts DEF IInv, OpInv, Suspended
    <3>2. QED
      BY <1>2, <2>4, <3>1 DEF OpInv, Suspended
  <2>7. NumberInv'
    <3>1. \A e \in entries' : e.id <= lastId'
      BY <1>1, <2>1, <2>2, <2>3, EntryFacts DEF IInv, NumberInv
    <3>2. \A k \in Jobs : op'.made[k] <= lastId'
      BY <2>1, <2>2, <2>4, <2>5
    <3>3. QED
      BY <1>2, <3>1, <3>2 DEF IInv, NumberInv, LeftBehind
  <2>8. EntryInv'
    <3> SUFFICES ASSUME NEW k \in Jobs, k \notin torn, NEW e \in entries', e.job = k
                 PROVE  e.id = op'.made[k] /\ e.plan = row[k].plan
      BY <1>2, <2>4 DEF EntryInv, EntriesOf
    <3>1. CASE e = new
      BY <2>3, <2>4, <3>1
    <3>2. CASE e \in entries
      <4>1. e.id = op.made[k] /\ e.plan = row[k].plan /\ e.id # 0
        BY <1>1, <1>2, <3>2, EntryFacts DEF IInv, EntryInv, EntriesOf
      <4>2. QED
        BY <1>2, <2>4, <4>1
    <3>3. QED
      BY <2>1, <3>1, <3>2
  <2>9. OwnerInv'
    <3>0. \A k \in Jobs \ stale : row[k].entry <= lastId' /\ \A e \in entries' : e.id = row[k].entry => e.job = k
      <4> SUFFICES ASSUME NEW k \in Jobs, k \notin stale
                   PROVE  row[k].entry <= lastId' /\ \A e \in entries' : e.id = row[k].entry => e.job = k
        OBVIOUS
      <4>1. row[k].entry \in Ids /\ row[k].entry <= lastId
        BY <1>1, RowFacts DEF IInv, OwnerInv
      <4>2. row[k].entry <= lastId' /\ row[k].entry # n
        BY <2>1, <2>2, <4>1 DEF Ids
      <4>3. QED
        BY <2>1, <2>3, <4>2 DEF IInv, OwnerInv
    <3> SUFFICES ASSUME NEW k \in Jobs, NEW e \in entries', op'.made[k] # 0, e.id = op'.made[k]
                 PROVE  e.job = k
      BY <1>2, <3>0 DEF OwnerInv
    <3>1. CASE e = new
      <4>1. k = j
        BY <2>2, <2>3, <2>4, <2>5, <3>1
      <4>2. QED
        BY <2>3, <3>1, <4>1
    <3>2. CASE e \in entries
      <4>1. e.id \in Nat /\ e.id <= lastId
        BY <1>1, <3>2, EntryFacts DEF IInv, NumberInv
      <4>2. k # j
        BY <2>2, <2>4, <4>1
      <4>3. QED
        BY <2>4, <3>2, <4>2 DEF IInv, OwnerInv
    <3>3. QED
      BY <2>1, <3>1, <3>2
  <2>10. QED
    BY <1>1, <2>6, <2>7, <2>8, <2>9 DEF IInv
<1>5. QED
  BY <1>3, <1>4

LEMMA SyncCommitKeeps ==
  ASSUME IInv, SyncCommit
  PROVE  IInv'
<1>1. TypeOK /\ TypeOK'
  BY SyncType DEF IInv, Sync
<1>2. /\ op.kind = "sync" /\ op.todo = {} /\ op' = None /\ synced'
      /\ stale' = stale \ {j \in Jobs : op.made[j] # 0}
      /\ UNCHANGED <<entries, lastId, torn>>
  BY DEF SyncCommit, Synchronised, Committed, Made
<1>3. ASSUME NEW j \in Jobs
      PROVE  /\ op.made[j] # 0 => /\ row'[j].status = "idle" /\ row'[j].entry = op.made[j]
                                  /\ row'[j].plan = row[j].plan
             /\ op.made[j] = 0 => row'[j] = row[j]
  BY <1>1, RowFacts DEF SyncCommit, Rows, Made
<1>4. OpInv' /\ (\A k \in Jobs : op'.made[k] = 0) /\ op'.jobs = {} /\ op'.kind = "none"
  BY <1>2, NoneIsFine
<1>5. \A j \in Jobs : op.made[j] \in Nat /\ op.made[j] <= lastId /\ lastId \in Nat
  BY <1>1, OpFacts, BoundAssumption DEF IInv, NumberInv, TypeOK
<1>6. NumberInv'
  <2>1. \A j \in Jobs : LeftBehind(row'[j])
    BY <1>2, <1>3, <1>5 DEF IInv, NumberInv, OpInv, LeftBehind
  <2>2. QED
    BY <1>2, <1>4, <1>5, <2>1 DEF IInv, NumberInv
<1>7. EntryInv'
  <2> SUFFICES ASSUME NEW j \in Jobs, j \notin torn, NEW e \in entries, e.job = j
               PROVE  e.id = row'[j].entry /\ e.plan = row'[j].plan /\ row'[j].status # "suspended"
    BY <1>2, <1>4 DEF EntryInv, EntriesOf, Suspended
  <2>1. e.id = op.made[j] /\ e.plan = row[j].plan /\ e.id # 0
    BY <1>1, <1>2, EntryFacts DEF IInv, EntryInv, EntriesOf, OpInv
  <2>2. QED
    BY <1>3, <2>1
<1>8. OwnerInv'
  <2> SUFFICES ASSUME NEW j \in Jobs, j \notin stale'
               PROVE  row'[j].entry <= lastId /\ \A e \in entries : e.id = row'[j].entry => e.job = j
    BY <1>2, <1>4 DEF OwnerInv
  <2>1. CASE op.made[j] # 0
    BY <1>3, <1>5, <2>1 DEF IInv, OwnerInv
  <2>2. CASE op.made[j] = 0
    <3>1. row'[j] = row[j] /\ j \notin stale
      BY <1>2, <1>3, <2>2
    <3>2. QED
      BY <3>1 DEF IInv, OwnerInv
  <2>3. QED
    BY <2>1, <2>2
<1>9. QED
  BY <1>1, <1>4, <1>6, <1>7, <1>8 DEF IInv

\* An execution writes only the status of a row that is not locked, and never
\* suspends a job.
LEMMA StatusKeeps ==
  ASSUME IInv, TypeOK', NEW i \in Jobs, ~LockedRow(i),
         row'[i].entry = row[i].entry, row'[i].plan = row[i].plan,
         row'[i].status # "suspended" \/ row'[i].status = row[i].status,
         \A j \in Jobs : j # i => row'[j] = row[j],
         UNCHANGED <<entries, lastId, op, synced, torn, stale, edited>>
  PROVE  IInv'
<1>1. \A j \in Jobs : /\ row'[j].entry = row[j].entry /\ row'[j].plan = row[j].plan
                      /\ ~Suspended(j) => ~Suspended(j)'
  BY DEF Suspended
<1>2. op.kind # "sync" => i \notin op.jobs
  BY DEF LockedRow
<1>3. OpInv'
  <2>1. CASE op.kind = "sync"
    <3>1. /\ \A k \in Jobs : op.made[k] # 0 => ~Suspended(k)'
          /\ \A k \in op.todo : op.made[k] = 0 /\ ~Suspended(k)'
          /\ ~synced /\ op.jobs = Jobs
      BY <1>1, <2>1, OpFacts DEF IInv, OpInv, Suspended
    <3>2. QED
      BY <2>1, <3>1 DEF OpInv, Suspended
  <2>2. CASE op.kind # "sync"
    <3>1. op.jobs \subseteq Jobs /\ \A j \in op.jobs : row'[j] = row[j]
      BY <1>2, <2>2, OpFacts DEF IInv
    <3>2. QED
      BY <2>2, <3>1 DEF IInv, OpInv, Suspended
  <2>3. QED
    BY <2>1, <2>2
<1>4. NumberInv'
  BY <1>1 DEF IInv, NumberInv, LeftBehind, Suspended
<1>5. EntryInv'
  BY <1>1 DEF IInv, EntryInv, EntriesOf, Suspended
<1>6. OwnerInv'
  BY <1>1 DEF IInv, OwnerInv
<1>7. QED
  BY <1>3, <1>4, <1>5, <1>6 DEF IInv

LEMMA RunKeeps ==
  ASSUME IInv, NEW k \in Slots, Fire(k) \/ Execution(k)
  PROVE  IInv'
<1>1. TypeOK /\ TypeOK'
  BY RunType DEF IInv
<1>2. run[k].job \in Jobs
  BY <1>1 DEF TypeOK, Executions
<1>3. CASE RunBegins(k)
  <2> DEFINE i == run[k].job
  <2>1. row'[i] = [row[i] EXCEPT !.status = "running"]
    BY <1>1, <1>2, <1>3 DEF RunBegins, TypeOK
  <2>2. row'[i].entry = row[i].entry /\ row'[i].plan = row[i].plan /\ row'[i].status = "running"
    BY <1>1, <1>2, <2>1, RowFacts DEF Rows
  <2>3. \A j \in Jobs : j # i => row'[j] = row[j]
    BY <1>1, <1>3 DEF RunBegins, TypeOK
  <2>4. QED
    BY <1>1, <1>2, <1>3, <2>2, <2>3, StatusKeeps DEF RunBegins
<1>4. CASE RunEnds(k)
  <2> DEFINE i == run[k].job
  <2>1. row'[i] = [row[i] EXCEPT !.status = IF @ = "running" THEN "idle" ELSE @]
    BY <1>1, <1>2, <1>4 DEF RunEnds, TypeOK
  <2>2. /\ row'[i].entry = row[i].entry /\ row'[i].plan = row[i].plan
        /\ row'[i].status = IF row[i].status = "running" THEN "idle" ELSE row[i].status
    BY <1>1, <1>2, <2>1, RowFacts DEF Rows
  <2>3. \A j \in Jobs : j # i => row'[j] = row[j]
    BY <1>1, <1>4 DEF RunEnds, TypeOK
  <2>4. QED
    BY <1>1, <1>2, <1>4, <2>2, <2>3, StatusKeeps DEF RunEnds
<1>5. CASE Fire(k) \/ RunFails(k) \/ RunGivesUp(k)
  <2>1. UNCHANGED <<row, entries, lastId, op, synced, torn, stale, edited>>
    BY <1>5 DEF Fire, RunFails, RunGivesUp, ghosts
  <2>2. QED
    BY <1>1, <2>1 DEF IInv, OpInv, NumberInv, LeftBehind, EntryInv, EntriesOf, OwnerInv, Suspended
<1>6. QED
  BY <1>3, <1>4, <1>5 DEF Execution

LEMMA CrashKeeps ==
  ASSUME IInv, Crash
  PROVE  IInv'
<1>1. TypeOK'
  BY TypeStep DEF IInv, Next
<1>2. /\ op' = None /\ entries' = {} /\ lastId' = 0 /\ ~synced' /\ row' = row
      /\ \A j \in Jobs \ stale' : ~(row[j].entry > 0)
  BY DEF Crash, Numbered
<1>3. OpInv' /\ (\A k \in Jobs : op'.made[k] = 0)
  BY <1>2, NoneIsFine
<1>4. \A j \in Jobs \ stale' : row[j].entry <= 0
  BY <1>2, RowFacts DEF IInv, Ids
<1>5. OwnerInv'
  BY <1>2, <1>3, <1>4 DEF OwnerInv
<1>6. QED
  BY <1>1, <1>2, <1>3, <1>5 DEF IInv, NumberInv, LeftBehind, EntryInv, EntriesOf

-----------------------------------------------------------------------------
(* The theorems.                                                            *)

LEMMA Inductive == IInv /\ [Next]_vars => IInv'
<1> SUFFICES ASSUME IInv, [Next]_vars PROVE IInv'
  OBVIOUS
<1>1. CASE UNCHANGED vars
  BY <1>1, TypeStep DEF IInv, OpInv, NumberInv, LeftBehind, EntryInv, EntriesOf, OwnerInv, Suspended, vars, ghosts
<1>2. CASE Sync
  BY <1>2, SyncCronJobKeeps, SyncLoadFailsKeeps, SyncJobKeeps, SyncCommitKeeps DEF Sync
<1>3. ASSUME NEW j \in Jobs, UpdateStep(j) PROVE IInv'
  BY <1>3, RescheduleKeeps, UnscheduleKeeps, CommitUpdateKeeps, WriteFailsKeeps DEF UpdateStep
<1>4. QED
  BY <1>1, <1>2, <1>3, BeginKeeps, CommitFailsKeeps, RunKeeps, CrashKeeps DEF Next

LEMMA Invariant == Spec => []IInv
<1>1. Init => IInv
  <2> SUFFICES ASSUME Init PROVE IInv
    OBVIOUS
  <2>1. TypeOK
    BY InitType
  <2>2. OpInv /\ EntryInv
    BY NoneFacts DEF Init, OpInv, EntryInv, EntriesOf
  <2>3. NumberInv
    BY NoneFacts DEF Init, NumberInv
  <2>4. OwnerInv
    <3>1. \A j \in Jobs \ stale : row[j].entry <= 0
      BY <2>1, RowFacts DEF Init, Numbered, Ids
    <3>2. QED
      BY <3>1 DEF Init, OwnerInv
  <2>5. QED
    BY <2>1, <2>2, <2>3, <2>4 DEF IInv
<1>2. QED
  BY <1>1, Inductive, PTL DEF Spec

\* ScheduleFollowsRows: between updates the scheduler runs what the rows say, for any
\* number of jobs, executions, failures and restarts.
THEOREM ScheduleSound == Spec => []ScheduleFollowsRows
<1>1. IInv => ScheduleFollowsRows
  BY DEF IInv, OpInv, EntryInv, ScheduleFollowsRows
<1>2. QED
  BY <1>1, Invariant, PTL

\* OthersStayScheduled: an update removes no entry of a job it is not about, whatever
\* numbers of earlier processes are left in the rows of other jobs.
THEOREM OthersKept == Spec => OthersStayScheduled
<1> DEFINE Kept == \A j \in Jobs :
             EntriesOf(j) # {} /\ EntriesOf(j)' = {}
                 => j \in op.jobs \/ op.jobs \cap stale # {} \/ crashes' # crashes
<1>1. IInv /\ [Next]_vars => Kept
  <2> SUFFICES ASSUME IInv, [Next]_vars, NEW j \in Jobs, EntriesOf(j) # {}, EntriesOf(j)' = {},
                      j \notin op.jobs, op.jobs \cap stale = {}, crashes' = crashes
               PROVE  FALSE
    OBVIOUS
  <2>1. PICK e \in entries : e.job = j
    BY DEF EntriesOf
  <2>2. e \notin entries'
    BY <2>1 DEF EntriesOf
  <2>3. ~Crash
    BY DEF Crash, IInv, TypeOK
  <2>4. PICK i \in Jobs : Reschedule(i) \/ Unschedule(i) \/ WriteFails(i)
    BY <2>2, <2>3 DEF Next, UpdateStep, Sync, Execution, UpdateJobConfig, CommitUpdate, CommitFails,
       SyncCronJob, SyncLoadFails, SyncJob, SyncCommit, Synchronised,
       Fire, RunBegins, RunFails, RunEnds, RunGivesUp, vars
  <2>5. i \in op.jobs /\ i # j /\ i \notin stale
    BY <2>4 DEF Reschedule, Unschedule, WriteFails
  <2>6. CASE e.id = row[i].entry
    BY <2>1, <2>5, <2>6 DEF IInv, OwnerInv
  <2>7. CASE e.id = op.made[i] /\ WriteFails(i)
    <3>1. e.id # 0
      BY EntryFacts DEF IInv
    <3>2. QED
      BY <2>1, <2>5, <2>7, <3>1 DEF IInv, OwnerInv
  <2>8. QED
    BY <2>2, <2>4, <2>6, <2>7 DEF Reschedule, Unschedule, WriteFails, Remove
<1>2. QED
  BY <1>1, Invariant, PTL DEF Spec, OthersStayScheduled

-----------------------------------------------------------------------------
(* Rows that say running.                                                   *)

LEMMA AttendedStart == Init => RunningIsAttended
  BY DEF Init, RunningIsAttended

LEMMA AttendedUpdate ==
  ASSUME TypeOK, RunningIsAttended, NEW j \in Jobs, UpdateStep(j)
  PROVE  RunningIsAttended'
<1>1. synced' = synced /\ run' = run
  BY DEF UpdateStep, Reschedule, Unschedule, CommitUpdate, WriteFails, ghosts
<1>2. CASE CommitUpdate(j)
  <2>1. /\ row' = [row EXCEPT ![j] = Updated(j)]
        /\ left \ {j} \subseteq left'
        /\ Updated(j).status = "running" => row[j].status = "running" /\ left' = left
    BY <1>2, RowFacts DEF CommitUpdate, Updated, Rows
  <2>2. \A i \in Jobs : row'[i].status = "running" =>
          row[i].status = "running" /\ (i \in left => i \in left')
    BY <2>1 DEF TypeOK
  <2>3. QED
    BY <1>1, <2>2 DEF RunningIsAttended, Working
<1>3. CASE ~CommitUpdate(j)
  <2>1. row' = row /\ left' = left
    BY <1>3 DEF UpdateStep, Reschedule, Unschedule, WriteFails, ghosts
  <2>2. QED
    BY <1>1, <2>1 DEF RunningIsAttended, Working
<1>4. QED
  BY <1>2, <1>3

\* However the synchronisation ends, what it leaves running is attended or left.
LEMMA AttendedSync ==
  ASSUME TypeOK, RunningIsAttended, Sync \/ CommitFails
  PROVE  RunningIsAttended'
<1>1. run' = run
  BY DEF Sync, SyncCronJob, SyncLoadFails, SyncJob, SyncCommit, Synchronised, CommitFails
<1>2. CASE SyncCommit
  <2>1. row' = [j \in Jobs |->
          IF j \in Made THEN [row[j] EXCEPT !.status = "idle", !.entry = op.made[j]] ELSE row[j]]
    BY <1>2 DEF SyncCommit
  <2>2. ASSUME NEW j \in Jobs, row'[j].status = "running"
        PROVE  row[j].status = "running" /\ j \notin Made
    BY <2>1, <2>2, RowFacts DEF Rows
  <2>3. left' = Unattended \ Made
    BY <1>2 DEF SyncCommit, Synchronised
  <2>4. QED
    BY <1>1, <2>2, <2>3 DEF RunningIsAttended, Unattended, Working
<1>3. CASE SyncLoadFails
  BY <1>1, <1>3 DEF SyncLoadFails, RunningIsAttended, Unattended, Working
<1>4. CASE CommitFails
  BY <1>1, <1>4 DEF CommitFails, RunningIsAttended, Unattended, Working
<1>5. CASE SyncCronJob \/ \E j \in Jobs : SyncJob(j)
  BY <1>1, <1>5 DEF SyncCronJob, SyncJob, ghosts, RunningIsAttended, Working
<1>6. QED
  BY <1>2, <1>3, <1>4, <1>5 DEF Sync

LEMMA AttendedRun ==
  ASSUME TypeOK, RunningIsAttended, NEW k \in Slots, Fire(k) \/ Execution(k)
  PROVE  RunningIsAttended'
<1> DEFINE w == run[k].job
<1>1. w \in Jobs /\ synced' = synced
  BY DEF TypeOK, Executions, Fire, Execution, RunBegins, RunFails, RunEnds, RunGivesUp
\* An execution of another slot, or of another job, is what it was.
<1>2. ASSUME NEW j \in Jobs, Working(j), j # w \/ run[k].stage # "working" PROVE Working(j)'
  <2>1. PICK i \in Slots : run[i].stage = "working" /\ run[i].job = j
    BY <1>2 DEF Working
  <2>2. i # k /\ run'[i] = run[i]
    BY <1>2, <2>1 DEF TypeOK, Fire, Execution, RunBegins, RunFails, RunEnds, RunGivesUp
  <2>3. QED
    BY <2>1, <2>2 DEF Working
<1>3. CASE Fire(k) \/ RunFails(k)
  BY <1>1, <1>2, <1>3 DEF Fire, RunFails, ghosts, RunningIsAttended
<1>4. CASE RunBegins(k)
  <2>1. ASSUME NEW j \in Jobs, j = w PROVE Working(j)'
    BY <1>4, <2>1 DEF RunBegins, Working, TypeOK, Executions
  <2>2. \A j \in Jobs : j # w => row'[j] = row[j] /\ (j \in left => j \in left')
    BY <1>4 DEF RunBegins, TypeOK
  <2>3. ASSUME NEW j \in Jobs, synced', row'[j].status = "running" PROVE Working(j)' \/ j \in left'
    <3>1. CASE j = w
      BY <2>1, <3>1
    <3>2. CASE j # w
      BY <1>1, <1>2, <2>2, <2>3, <3>2 DEF RunningIsAttended
    <3>3. QED
      BY <3>1, <3>2
  <2>4. QED
    BY <2>3 DEF RunningIsAttended
<1>5. CASE RunEnds(k)
  <2>1. row'[w].status # "running"
    BY <1>1, <1>5, RowFacts DEF RunEnds, TypeOK, Rows
  <2>2. \A j \in Jobs : j # w => row'[j] = row[j] /\ (j \in left => j \in left')
    BY <1>5 DEF RunEnds, TypeOK
  <2>3. ASSUME NEW j \in Jobs, synced', row'[j].status = "running" PROVE Working(j)' \/ j \in left'
    <3>1. j # w /\ row[j].status = "running" /\ (j \in left => j \in left')
      BY <2>1, <2>2, <2>3
    <3>2. Working(j) \/ j \in left
      BY <1>1, <2>3, <3>1 DEF RunningIsAttended
    <3>3. QED
      BY <1>2, <3>1, <3>2
  <2>4. QED
    BY <2>3 DEF RunningIsAttended
<1>6. CASE RunGivesUp(k)
  <2>1. row' = row /\ left \subseteq left' /\ (row[w].status = "running" => w \in left')
    BY <1>6 DEF RunGivesUp
  <2>2. QED
    BY <1>1, <1>2, <2>1 DEF RunningIsAttended
<1>7. QED
  BY <1>3, <1>4, <1>5, <1>6 DEF Execution

\* RunningIsAttended: a row that says running after the synchronisation has an execution
\* under way that will write it, unless a statement of an execution or of the
\* synchronisation failed; for any number of jobs, overlapping executions and restarts.
THEOREM RunningAttended == Spec => []RunningIsAttended
<1>1. TypeOK /\ RunningIsAttended /\ [Next]_vars => RunningIsAttended'
  <2> SUFFICES ASSUME TypeOK, RunningIsAttended, [Next]_vars PROVE RunningIsAttended'
    OBVIOUS
  <2>1. CASE UNCHANGED vars
    BY <2>1 DEF vars, ghosts, RunningIsAttended, Working
  <2>2. ASSUME NEW j \in Jobs, NEW goal \in {"idle", "suspended", "none"}, NEW p \in Plans,
               UpdateJobConfig(j, goal, p)
        PROVE  RunningIsAttended'
    BY <2>2 DEF UpdateJobConfig, ghosts, RunningIsAttended, Working
  <2>3. CASE Crash
    BY <2>3 DEF Crash, RunningIsAttended
  <2>4. QED
    BY <2>1, <2>2, <2>3, AttendedUpdate, AttendedSync, AttendedRun DEF Next
<1>2. QED
  BY <1>1, AttendedStart, CronTypeCorrect, PTL DEF Spec

=============================================================================
