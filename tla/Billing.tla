------------------------------- MODULE Billing -------------------------------
(***************************************************************************)
(* How Orbit charges running jobs.  The base loop of every replica issues  *)
(* the periodic points of an account and settles all running jobs; the     *)
(* reconciler and the delete handler make the final settlement of a job.   *)
(* Each of these is a database transaction that locks the rows it reads    *)
(* (SELECT ... FOR UPDATE) one after another, works on its copies and      *)
(* writes them when it commits; the list of running jobs it starts from is *)
(* read without a lock.  The database aborts a transaction that waits in a *)
(* circle.  Time is in minutes.                                            *)
(***************************************************************************)
EXTENDS Integers, FiniteSets, FiniteSetsExt

CONSTANTS
  Jobs, NoJob,      \* jobs of one account; no job
  Users, NoUser,    \* members of the account; no user
  OwnerOf, Rate,    \* who a job is charged to, and what a minute of it costs
  Loops,            \* replicas that run the billing base loop
  Reconciler,       \* the worker of the VcJob reconciler
  NoProc,           \* holder of a row nobody has locked
  NoCopy,           \* of a row a transaction has not read under a lock
  Deletable,        \* jobs whose delete endpoint may be called
  FreeMinutes, IssueAmount, Period, Interval,   \* the billing configuration
  Deltas,           \* what an administrator may add to a user's extra balance
  Events, MaxEvents, MaxTime   \* what may happen besides, how often; the clock

ASSUME BillingAssumption ==
  /\ NoJob \notin Jobs /\ NoUser \notin Users /\ Deletable \subseteq Jobs
  /\ OwnerOf \in [Jobs -> Users] /\ Rate \in [Jobs -> Nat]
  /\ Reconciler \notin Loops \cup Jobs /\ Loops \cap Jobs = {}
  /\ NoProc \notin Loops \cup Jobs \cup {Reconciler}
  /\ NoCopy \notin Int \cup [settled : Int, points : Int, minutes : SUBSET Int, runs : SUBSET Int]
  /\ FreeMinutes \in Nat /\ IssueAmount \in Nat \ {0}
  /\ Period \in Nat \ {0} /\ Interval \in Nat \ {0} /\ Deltas \subseteq Int
  /\ MaxTime \in Nat /\ MaxEvents \in Nat

VARIABLES
  now,
  vc,          \* the Volcano job: phase, when it last began to run, when it stopped
  row,         \* the job's row as the reconciler and the delete handler write it
  bill,        \* the row's last_settled_at and billed_points_total
  free, extra, \* period free balance of the membership, extra balance of the user
  lastIssued,  \* billing_last_issued_at of the account
  lastTick,    \* lastRunningSettleAt of a replica, in memory
  tx,          \* the transaction a process is in
  lock,        \* who has locked a row of the database
  dirty, rc,   \* the reconciler's queue and the reconcile in progress
  del,         \* progress of a delete request
  granted,     \* points a user was ever given
  events       \* restarts, removals, deletes, adjustments and crashes so far

clusterVars == <<vc, dirty>>
moneyVars   == <<bill, free, extra, lastIssued, granted>>
callerVars  == <<rc, del, lastTick>>
vars == <<now, clusterVars, row, moneyVars, callerVars, tx, lock, events>>

Never == -1
Procs == Loops \cup {Reconciler} \cup Deletable

AccountRow == <<"account", NoUser>>
Rows == ({"job"} \X Jobs) \cup ({"member", "user"} \X Users) \cup {AccountRow}

NoVc  == [phase |-> "Pending", begin |-> Never, end |-> Never]
NoRow == [status |-> "Pending", start |-> Never, done |-> Never, gone |-> FALSE]
NoTx  == [pc |-> "idle", kind |-> "none", at |-> Never, jobs |-> {}, cur |-> NoJob,
          users |-> {}, who |-> NoUser, cost |-> 0, bill |-> [j \in Jobs |-> NoCopy],
          free |-> [u \in Users |-> NoCopy], extra |-> [u \in Users |-> NoCopy]]
NoReconcile == [pc |-> "idle", job |-> NoJob, seen |-> NoVc, old |-> NoRow]
NoDelete    == [pc |-> "idle", at |-> Never, dropRow |-> FALSE, dropJob |-> FALSE]

Event(e) == e \in Events /\ events < MaxEvents /\ events' = events + 1

Ended == {"Completed", "Freed", "Deleted"}

Least(a, b) == IF a < b THEN a ELSE b

\* What a transaction finds in rows: its copy, or what is committed.
Over(copy, f) == [y \in DOMAIN f |-> IF copy[y] = NoCopy THEN f[y] ELSE copy[y]]

-----------------------------------------------------------------------------
(* The arithmetic of a settlement.                                         *)

\* Mutants: the last settlement is not looked at; neither when the minutes are
\* counted; the free minutes start anew with each window.
BillableAgain(b, start, at) == start # Never /\ at > start
DueFromStart(b, start, at)  == (at - start) - Least(FreeMinutes, at - start)
DueFreeAnew(b, start, at) ==
  LET from == IF b.settled > start THEN b.settled ELSE start
  IN  (at - from) - Least(FreeMinutes, at - from)

\* computeSettlementWindow finds something to settle.
Billable(b, start, at) == start # Never /\ at > start /\ at > b.settled

\* computeSettlementWindow: the minutes to charge between the last settlement
\* of this run and at, the rest of the free minutes taken off the front.
DueMinutes(b, start, at) ==
  LET from == IF b.settled > start THEN b.settled ELSE start
      left == FreeMinutes - Least(FreeMinutes, from - start)
  IN  (at - from) - Least(left, at - from)

\* Mutants: extra points are not capped at what there is; they are only looked at
\* when there are free points.
ExtraUncapped(f, e, cost) == IF f > 0 THEN cost - Least(cost, f) ELSE cost
ExtraWithFree(f, e, cost) == IF f > 0 /\ e > 0 THEN Least(cost - Least(cost, f), e) ELSE 0

\* computeSettlementDeductions: free points first, then extra points, the rest
\* is a debt of the free balance.
FromExtra(f, e, cost) ==
  LET fromFree == IF f > 0 THEN Least(cost, f) ELSE 0
  IN  IF e > 0 THEN Least(cost - fromFree, e) ELSE 0

NewFree(f, e, cost)  == f - (cost - FromExtra(f, e, cost))
NewExtra(f, e, cost) == e - FromExtra(f, e, cost)

\* settleOneJobTx on a job's bill; minutes and runs remember which minutes were
\* charged, and of runs that began when.
Settled(j, b, start, at) ==
  LET due == DueMinutes(b, start, at)
  IN  [settled |-> at, points |-> b.points + due * Rate[j],
       minutes |-> b.minutes \cup (at - due + 1 .. at), runs |-> b.runs \cup {start}]

-----------------------------------------------------------------------------
(* Transactions.  A process in "account", "job", "member", "user" or       *)
(* "members" waits for the row it wants next.                              *)

Wanted(p) ==
  IF tx[p].pc = "account" THEN AccountRow
  ELSE IF tx[p].pc = "job" THEN <<"job", tx[p].cur>>
  ELSE <<IF tx[p].pc = "user" THEN "user" ELSE "member", tx[p].who>>

Waiting(p) == tx[p].pc \in {"account", "job", "member", "user", "members"}
\* Mutant: rows are read without clause.Locking.
Unlocked(p) == TRUE
CanLock(p) == lock[Wanted(p)] \in {NoProc, p}
Take(p)    == lock' = [lock EXCEPT ![Wanted(p)] = p]
Release(p) == lock' = [r \in Rows |-> IF lock[r] = p THEN NoProc ELSE lock[r]]
Free(r)    == lock[r] = NoProc

\* What follows the settlement of the last job in the list, rows being locked in
\* the order the database finds them.
AfterJobs(t) ==
  IF t.kind = "issue" /\ Users # {}
  THEN {[t EXCEPT !.pc = "members", !.who = u, !.users = Users \ {u}] : u \in Users}
  ELSE {[t EXCEPT !.pc = "commit"]}

Onwards(t) ==
  IF t.jobs = {} THEN AfterJobs(t)
  ELSE {[t EXCEPT !.pc = "job", !.cur = j, !.who = OwnerOf[j], !.jobs = @ \ {j}] : j \in t.jobs}

\* A transaction that ends without an effect: what the caller does next.
Fail(p) ==
  /\ tx' = [tx EXCEPT ![p] = NoTx]
  /\ Release(p)
  /\ del' = IF p \in Deletable THEN [del EXCEPT ![p] = NoDelete] ELSE del
  /\ UNCHANGED <<rc, lastTick>>

\* IssueDueAccounts begins: now is read before the account is locked.
LoopIssue(p) ==
  /\ p \in Loops /\ tx[p].pc = "idle"
  /\ tx' = [tx EXCEPT ![p] = [NoTx EXCEPT !.pc = "account", !.kind = "issue", !.at = now]]
  /\ UNCHANGED <<now, clusterVars, row, moneyVars, callerVars, lock, events>>

\* The running jobs as they are committed now; none of them is locked yet.
Running(j) == ~row[j].gone /\ row[j].status = "Running"

Listed(t) == Onwards([t EXCEPT !.jobs = {j \in Jobs : Running(j)}])

\* An account issued less than a period ago is left alone.
Due(at) == lastIssued = Never \/ at - lastIssued >= Period

LockAccount(p) ==
  /\ tx[p].pc = "account" /\ CanLock(p)
  /\ IF Due(tx[p].at)
     THEN Take(p) /\ \E t \in Listed(tx[p]) : tx' = [tx EXCEPT ![p] = t]
     ELSE UNCHANGED lock /\ tx' = [tx EXCEPT ![p] = [NoTx EXCEPT !.pc = "tick"]]
  /\ UNCHANGED <<now, clusterVars, row, moneyVars, callerVars, events>>

\* runRunningSettlementTickWithInterval, after the issue of the same round.
LoopTick(p) ==
  /\ tx[p].pc = "tick"
  /\ IF lastTick[p] # Never /\ now - lastTick[p] < Interval
     THEN tx' = [tx EXCEPT ![p] = NoTx]
     ELSE \E t \in Listed([NoTx EXCEPT !.kind = "tick", !.at = now]) : tx' = [tx EXCEPT ![p] = t]
  /\ UNCHANGED <<now, clusterVars, row, moneyVars, callerVars, lock, events>>

\* settleOneJobTx up to the charge: a deleted row fails the whole transaction,
\* a job that has nothing to settle is passed over, a free one costs nothing.
LockJob(p) ==
  /\ tx[p].pc = "job" /\ CanLock(p)
  /\ LET t == tx[p]  j == t.cur  b == Settled(j, bill[j], row[j].start, t.at)
     IN  IF row[j].gone THEN Fail(p)
         ELSE /\ Take(p)
              /\ IF ~Billable(bill[j], row[j].start, t.at)
                 THEN \E n \in Onwards(t) : tx' = [tx EXCEPT ![p] = n]
                 ELSE LET c == b.points - bill[j].points
                          s == [t EXCEPT !.bill[j] = b, !.cost = c]
                      IN  IF c > 0 THEN tx' = [tx EXCEPT ![p] = [s EXCEPT !.pc = "member"]]
                          ELSE \E n \in Onwards(s) : tx' = [tx EXCEPT ![p] = n]
              /\ UNCHANGED callerVars
  /\ UNCHANGED <<now, clusterVars, row, moneyVars, events>>

\* deductSettlementCost reads the membership, then the user; what it read of a
\* row before in this transaction includes its own writes.
LockMember(p) ==
  /\ tx[p].pc = "member" /\ CanLock(p)
  /\ Take(p)
  /\ LET t == tx[p]  u == t.who
     IN  tx' = [tx EXCEPT ![p] = [t EXCEPT !.pc = "user", !.free[u] = Over(t.free, free)[u]]]
  /\ UNCHANGED <<now, clusterVars, row, moneyVars, callerVars, events>>

LockUser(p) ==
  /\ tx[p].pc = "user" /\ CanLock(p)
  /\ Take(p)
  /\ LET t == tx[p]  u == t.who  f == t.free[u]  e == Over(t.extra, extra)[u]
         s == [t EXCEPT !.free[u] = NewFree(f, e, t.cost), !.extra[u] = NewExtra(f, e, t.cost),
                        !.cost = 0]
     IN  \E n \in Onwards(s) : tx' = [tx EXCEPT ![p] = n]
  /\ UNCHANGED <<now, clusterVars, row, moneyVars, callerVars, events>>

\* issueAccountNowTx locks every membership before it writes them.
LockMembers(p) ==
  /\ tx[p].pc = "members" /\ CanLock(p)
  /\ Take(p)
  /\ IF tx[p].users = {} THEN tx' = [tx EXCEPT ![p].pc = "commit"]
     ELSE \E u \in tx[p].users : tx' = [tx EXCEPT ![p].who = u, ![p].users = @ \ {u}]
  /\ UNCHANGED <<now, clusterVars, row, moneyVars, callerVars, events>>

\* What follows a transaction that is committed.
Return(p) ==
  /\ tx' = [tx EXCEPT ![p] = IF @.kind = "issue" THEN [NoTx EXCEPT !.pc = "tick"] ELSE NoTx]
  /\ lastTick' = IF tx[p].kind = "tick" THEN [lastTick EXCEPT ![p] = tx[p].at] ELSE lastTick
  /\ del' = IF p \in Deletable THEN [del EXCEPT ![p].pc = "apply"] ELSE del
  /\ UNCHANGED rc

\* An issue replaces the free balances: points left of the last period expire
\* and debts are forgiven.
Commit(p) ==
  /\ tx[p].pc = "commit"
  /\ LET t == tx[p]  f == Over(t.free, free)
     IN  /\ bill' = Over(t.bill, bill)
         /\ extra' = Over(t.extra, extra)
         /\ IF t.kind = "issue"
            THEN /\ free' = [u \in Users |-> IssueAmount]
                 /\ granted' = [u \in Users |-> granted[u] + IssueAmount - f[u]]
                 /\ lastIssued' = t.at
            ELSE free' = f /\ UNCHANGED <<granted, lastIssued>>
  /\ Release(p) /\ Return(p)
  /\ UNCHANGED <<now, clusterVars, row, events>>

\* The database aborts a transaction that waits in a circle: every member of S
\* waits for a member of S and is waited for by one.
Circle(S) ==
  /\ \A p \in S : Waiting(p) /\ lock[Wanted(p)] \in S \ {p}
  /\ S \subseteq {lock[Wanted(p)] : p \in S}

DeadlockVictim(p) ==
  /\ Waiting(p) /\ ~CanLock(p)
  /\ \E S \in SUBSET Procs : p \in S /\ Circle(S)
  /\ Fail(p)
  /\ UNCHANGED <<now, clusterVars, row, moneyVars, events>>

Transaction(p) ==
  \/ LoopIssue(p) \/ LockAccount(p) \/ LoopTick(p) \/ LockJob(p)
  \/ LockMember(p) \/ LockUser(p) \/ LockMembers(p)
  \/ Commit(p) \/ DeadlockVictim(p)

\* A transaction that settles job j alone.
Final(j, at) ==
  [NoTx EXCEPT !.pc = "job", !.kind = "final", !.at = at, !.cur = j, !.who = OwnerOf[j]]

\* AdjustUserExtraBalance locks, checks and writes one row.
Adjust(u, d) ==
  /\ Event("adjust")
  /\ Free(<<"user", u>>)
  /\ extra[u] + d >= 0
  /\ extra' = [extra EXCEPT ![u] = @ + d]
  /\ granted' = [granted EXCEPT ![u] = @ + d]
  /\ UNCHANGED <<now, clusterVars, row, bill, free, lastIssued, callerVars, tx, lock>>

-----------------------------------------------------------------------------
(* The Volcano jobs (external), the clock, and the reconciler.             *)

ClusterStep(j, v) ==
  /\ vc' = [vc EXCEPT ![j] = v] /\ dirty' = dirty \cup {j}
  /\ UNCHANGED <<now, row, moneyVars, callerVars, tx, lock>>

Begin(j) == /\ vc[j].phase = "Pending"
            /\ ClusterStep(j, [vc[j] EXCEPT !.phase = "Running", !.begin = now])
            /\ UNCHANGED events
End(j) == /\ vc[j].phase = "Running"
          /\ ClusterStep(j, [vc[j] EXCEPT !.phase = "Completed", !.end = now])
          /\ UNCHANGED events
\* The RestartJob policy: the conditions keep the old times until it runs again.
Restart(j) == /\ vc[j].phase = "Running" /\ Event("restart")
              /\ ClusterStep(j, [vc[j] EXCEPT !.phase = "Restarting", !.end = now])
BeginAgain(j) == /\ vc[j].phase = "Restarting"
                 /\ ClusterStep(j, [vc[j] EXCEPT !.phase = "Running", !.begin = now])
                 /\ UNCHANGED events
\* A cleaner or an administrator removes the Volcano job.
Vanish(j) == /\ vc[j].phase # "absent" /\ Event("remove")
             /\ ClusterStep(j, [NoVc EXCEPT !.phase = "absent"])

Pass == /\ now < MaxTime /\ now' = now + 1
        /\ UNCHANGED <<clusterVars, row, moneyVars, callerVars, tx, lock, events>>

\* Reconcile reads the Volcano job and the row.  Nothing is done about a missing
\* Volcano job whose row has ended.
ReconcileRead(j) ==
  /\ rc.pc = "idle" /\ tx[Reconciler].pc = "idle" /\ j \in dirty
  /\ dirty' = dirty \ {j}
  /\ rc' = IF vc[j].phase = "absent" /\ (row[j].gone \/ row[j].status \in Ended) THEN rc
           ELSE [pc |-> "write", job |-> j, seen |-> vc[j], old |-> row[j]]
  /\ UNCHANGED <<now, vc, row, moneyVars, del, lastTick, tx, lock, events>>

\* The columns Reconcile writes: it frees the row of a missing job, revives a
\* deleted row (whose bill is kept, and whose run is unknown at first), or
\* copies phase and times, a time that is not known being left alone.
Written(r) ==
  IF rc.seen.phase = "absent" THEN [r EXCEPT !.status = "Freed", !.done = now]
  ELSE IF rc.old.gone THEN [NoRow EXCEPT !.status = rc.seen.phase]
  ELSE [r EXCEPT !.status = rc.seen.phase,
                 !.start = IF rc.seen.begin # Never THEN rc.seen.begin ELSE @,
                 !.done  = IF rc.seen.phase = "Completed" THEN rc.seen.end ELSE @]

\* The final settlement of a job that was freed or has stopped, and up to when.
Hooked ==
  IF rc.seen.phase = "absent" THEN {now}
  ELSE IF ~rc.old.gone /\ rc.seen.phase \in {"Completed", "Restarting"}
          /\ rc.old.status \in {"Pending", "Running"} THEN {rc.seen.end}
  ELSE {}

\* The update skips a row that was deleted meanwhile.
ReconcileWrite ==
  LET j == rc.job IN
  /\ rc.pc = "write" /\ Free(<<"job", j>>)
  /\ row' = IF row[j].gone /\ ~(rc.old.gone /\ rc.seen.phase # "absent") THEN row
            ELSE [row EXCEPT ![j] = Written(@)]
  /\ rc' = NoReconcile
  /\ IF Hooked = {} THEN UNCHANGED tx
     ELSE \E at \in Hooked : tx' = [tx EXCEPT ![Reconciler] = Final(j, at)]
  /\ UNCHANGED <<now, clusterVars, moneyVars, del, lastTick, lock, events>>

-----------------------------------------------------------------------------
(* deleteJob: settle, write the row, delete the Volcano job.               *)

\* buildDeleteJobPlan and the time of the final settlement.
DeletePlan(j) ==
  /\ Event("delete")
  /\ del[j].pc = "idle" /\ ~row[j].gone
  /\ LET stopped == vc[j].phase = "Completed"
         drop    == stopped \/ vc[j].phase = "absent"
         at      == IF drop /\ row[j].done # Never THEN row[j].done
                    ELSE IF stopped THEN vc[j].end ELSE now
     IN  /\ del' = [del EXCEPT ![j] = [pc |-> "settle", at |-> at, dropRow |-> drop,
                                       dropJob |-> vc[j].phase # "absent"]]
         /\ tx' = [tx EXCEPT ![j] = Final(j, at)]
  /\ UNCHANGED <<now, clusterVars, row, moneyVars, rc, lastTick, lock>>

DeleteApply(j) ==
  /\ del[j].pc = "apply" /\ Free(<<"job", j>>)
  /\ row' = [row EXCEPT ![j] =
       IF @.gone THEN @ ELSE IF del[j].dropRow THEN [@ EXCEPT !.gone = TRUE]
       ELSE [@ EXCEPT !.status = "Deleted", !.done = del[j].at]]
  /\ del' = [del EXCEPT ![j].pc = "cluster"]
  /\ UNCHANGED <<now, clusterVars, moneyVars, rc, lastTick, tx, lock, events>>

DeleteCluster(j) ==
  /\ del[j].pc = "cluster"
  /\ del' = [del EXCEPT ![j] = NoDelete]
  /\ IF del[j].dropJob /\ vc[j].phase # "absent"
     THEN vc' = [vc EXCEPT ![j] = [NoVc EXCEPT !.phase = "absent"]] /\ dirty' = dirty \cup {j}
     ELSE UNCHANGED clusterVars
  /\ UNCHANGED <<now, row, moneyVars, rc, lastTick, tx, lock, events>>

\* The backend stops and starts: open transactions are rolled back, and the
\* reconciler sees every Volcano job again.
Crash ==
  /\ Event("crash")
  /\ tx' = [p \in Procs |-> NoTx] /\ lock' = [r \in Rows |-> NoProc]
  /\ rc' = NoReconcile /\ del' = [j \in Deletable |-> NoDelete]
  /\ lastTick' = [p \in Loops |-> Never]
  /\ dirty' = {j \in Jobs : vc[j].phase # "absent"}
  /\ UNCHANGED <<now, vc, row, moneyVars>>

Init ==
  /\ now = 0 /\ vc = [j \in Jobs |-> NoVc] /\ row = [j \in Jobs |-> NoRow]
  /\ bill = [j \in Jobs |-> [settled |-> Never, points |-> 0, minutes |-> {}, runs |-> {}]]
  /\ free = [u \in Users |-> 0] /\ extra = [u \in Users |-> 0]
  /\ granted = [u \in Users |-> 0]
  /\ lastIssued = Never /\ lastTick = [p \in Loops |-> Never]
  /\ tx = [p \in Procs |-> NoTx] /\ lock = [r \in Rows |-> NoProc]
  /\ dirty = {} /\ rc = NoReconcile /\ del = [j \in Deletable |-> NoDelete]
  /\ events = 0

Next ==
  \/ \E p \in Procs : Transaction(p)
  \/ \E j \in Jobs : Begin(j) \/ End(j) \/ Restart(j) \/ BeginAgain(j) \/ Vanish(j) \/ ReconcileRead(j)
  \/ ReconcileWrite
  \/ \E j \in Deletable : DeletePlan(j) \/ DeleteApply(j) \/ DeleteCluster(j)
  \/ \E u \in Users, d \in Deltas : Adjust(u, d)
  \/ Pass \/ Crash

Spec == Init /\ [][Next]_vars

-----------------------------------------------------------------------------
(* What must hold.                                                         *)

Bill == [settled : {Never} \cup (0 .. MaxTime), points : Nat, minutes : SUBSET (1 .. MaxTime),
         runs : SUBSET (0 .. MaxTime)]
Clock == {Never} \cup (0 .. MaxTime)
Phases == {"Pending", "Running", "Restarting", "Completed", "absent"}
Cluster == [phase : Phases, begin : Clock, end : Clock]
RowType == [status : (Phases \ {"absent"}) \cup Ended, start : Clock, done : Clock, gone : BOOLEAN]
TxType ==
  [pc : {"idle", "account", "tick", "job", "member", "user", "members", "commit"},
   kind : {"none", "issue", "tick", "final"}, at : Clock, jobs : SUBSET Jobs,
   cur : Jobs \cup {NoJob}, users : SUBSET Users, who : Users \cup {NoUser}, cost : Nat,
   bill : [Jobs -> {NoCopy} \cup Bill], free : [Users -> {NoCopy} \cup Int],
   extra : [Users -> {NoCopy} \cup Nat]]

\* Every variable has the type its comment gives, a transaction that waits knows
\* for what, and extra balances are not negative.
TypeOK ==
  /\ now \in 0 .. MaxTime /\ vc \in [Jobs -> Cluster] /\ row \in [Jobs -> RowType]
  /\ bill \in [Jobs -> Bill] /\ free \in [Users -> Int] /\ extra \in [Users -> Nat]
  /\ granted \in [Users -> Int] /\ lastIssued \in Clock /\ lastTick \in [Loops -> Clock]
  /\ tx \in [Procs -> TxType] /\ lock \in [Rows -> Procs \cup {NoProc}]
  /\ dirty \in SUBSET Jobs
  /\ rc \in [pc : {"idle", "write"}, job : Jobs \cup {NoJob}, seen : Cluster, old : RowType]
  /\ del \in [Deletable -> [pc : {"idle", "settle", "apply", "cluster"}, at : Clock,
                            dropRow : BOOLEAN, dropJob : BOOLEAN]]
  /\ events \in 0 .. MaxEvents
  /\ \A p \in Procs :
       /\ tx[p].pc = "job" => tx[p].cur \in Jobs
       /\ tx[p].pc \in {"job", "member", "user", "members"} => tx[p].who \in Users
       /\ tx[p].pc = "user" => tx[p].free[tx[p].who] # NoCopy
  /\ rc.pc = "write" => rc.job \in Jobs

\* What a transaction has copied of a job is the settlement of the bill as it is
\* committed now, the run it found, and its own time.
Copied(j, t) ==
  \E start \in 0 .. MaxTime :
    Billable(bill[j], start, t.at) /\ t.bill[j] = Settled(j, bill[j], start, t.at)

\* Nobody else can have written what a transaction works on: an issue holds the
\* account, which is still due, and a copy of a job its row, which has not been
\* settled since (the clause.Locking of IssueDueAccounts and
\* loadJobForSettlementTx, held until the commit).
LockInv ==
  \A p \in Procs :
    /\ tx[p].kind = "issue" /\ tx[p].pc # "account" => lock[AccountRow] = p /\ Due(tx[p].at)
    /\ \A j \in Jobs : tx[p].bill[j] # NoCopy => lock[<<"job", j>>] = p /\ Copied(j, tx[p])

\* A job pays for each minute once, however ticks, issues and final settlements
\* meet: its points are the price of the minutes charged (settleOneJobTx).
ChargedOnce == \A j \in Jobs : bill[j].points = Rate[j] * Cardinality(bill[j].minutes)

\* Of a job with one run exactly the minutes from the end of the free ones up to
\* the last settlement were charged, in however many windows it was settled
\* (computeSettlementWindow).
FreeMinutesOnce ==
  \A j \in Jobs, start \in 0 .. MaxTime :
    bill[j].runs = {start} => bill[j].minutes = start + FreeMinutes + 1 .. bill[j].settled

Points    == [j \in Jobs |-> bill[j].points]
JobsOf(u) == {j \in Jobs : OwnerOf[j] = u}

\* No point appears or is lost: what a user has and what was billed add up to
\* what the user was given (deductSettlementCost, persistJobSettlementState).
Billed(u) == MapThenSumSet(LAMBDA j : Points[j], JobsOf(u))
BalancesAddUp == \A u \in Users : free[u] + extra[u] + Billed(u) = granted[u]

\* Transactions that lock row by row and work on copies of what they read, many jobs and
\* users at a time, change balances and bills as if each were one step of PointLedger: a
\* bill and its payment appear together, and several payments are as one of their sum.
Ledger == INSTANCE PointLedger WITH billed <- [u \in Users |-> Billed(u)]
RefinesLedger == Ledger!Spec

\* A settlement that puts a user into debt has used up the extra balance
\* (computeSettlementDeductions on values read under a lock).
DebtComesLast ==
  [][\A u \in Users : free'[u] < free[u] /\ free'[u] < 0 => extra'[u] = 0]_vars

\* The base loops of several replicas issue the account at most once a period.
IssuedOncePerPeriod ==
  [][lastIssued' # lastIssued /\ lastIssued # Never => lastIssued' >= lastIssued + Period]_vars

\* The settlement of a job never goes back in time, in whatever order
\* settlements with different times commit.
SettledAdvances == [][\A j \in Jobs : bill'[j].settled >= bill[j].settled]_vars
=============================================================================
