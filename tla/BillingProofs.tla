---------------------------- MODULE BillingProofs ----------------------------
(* What holds of Billing for any number of jobs, users and replicas, any      *)
(* prices and configuration, and any number of crashes and removals.          *)
EXTENDS Billing, SumProofs, FiniteSetTheorems, TLAPS

-----------------------------------------------------------------------------
(* The arithmetic of a settlement.                                         *)

\* The due minutes are the end of the window, which begins after the last settlement.
LEMMA DueWindow ==
  ASSUME NEW b \in Bill, NEW start \in 0 .. MaxTime, NEW at \in Clock, Billable(b, start, at)
  PROVE  /\ DueMinutes(b, start, at) \in Nat
         /\ at - DueMinutes(b, start, at) >= b.settled
         /\ at - DueMinutes(b, start, at) >= start
         /\ at \in 1 .. MaxTime /\ b.settled < at /\ start < at
<1> DEFINE from == IF b.settled > start THEN b.settled ELSE start
           left == FreeMinutes - Least(FreeMinutes, from - start)
<1>1. FreeMinutes \in Nat /\ MaxTime \in Nat /\ b.settled \in Int /\ at \in Int
  BY BillingAssumption DEF Bill, Clock, Never
<1>2. at > start /\ at > b.settled /\ at \in 1 .. MaxTime
  BY <1>1 DEF Billable, Clock, Never
<1>3. from \in Int /\ from >= start /\ from >= b.settled /\ from < at
  BY <1>1, <1>2
<1>4. left \in Nat
  BY <1>1, <1>3 DEF Least
<1>5. DueMinutes(b, start, at) = (at - from) - Least(left, at - from)
  BY DEF DueMinutes
<1> HIDE DEF from, left
<1> QED
  BY <1>1, <1>2, <1>3, <1>4, <1>5 DEF Least

LEMMA PriceType == \A minutes \in Nat, rate \in Nat : minutes * rate \in Nat
  OBVIOUS

LEMMA SettledType ==
  ASSUME NEW j \in Jobs, NEW b \in Bill, NEW start \in 0 .. MaxTime, NEW at \in Clock,
         Billable(b, start, at)
  PROVE  /\ Settled(j, b, start, at) \in Bill
         /\ Settled(j, b, start, at).points - b.points \in Nat
         /\ Settled(j, b, start, at).settled = at
<1> DEFINE due == DueMinutes(b, start, at)
<1>1. /\ due \in Nat /\ at - due >= start /\ at \in 1 .. MaxTime
  BY DueWindow
<1>2. Rate[j] \in Nat /\ b.points \in Nat /\ b.minutes \subseteq 1 .. MaxTime /\ b.runs \subseteq 0 .. MaxTime
  BY BillingAssumption DEF Bill
<1>3. due * Rate[j] \in Nat
  BY <1>1, <1>2, PriceType
<1>4. at - due + 1 .. at \subseteq 1 .. MaxTime
  BY <1>1, BillingAssumption
<1>5. Settled(j, b, start, at) = [settled |-> at, points |-> b.points + due * Rate[j],
        minutes |-> b.minutes \cup (at - due + 1 .. at), runs |-> b.runs \cup {start}]
  BY DEF Settled
<1>6. b.points + due * Rate[j] \in Nat /\ (b.points + due * Rate[j]) - b.points \in Nat
  BY <1>2, <1>3
<1> HIDE DEF due
<1> QED
  BY <1>1, <1>2, <1>4, <1>5, <1>6 DEF Bill

LEMMA DeductType ==
  ASSUME NEW f \in Int, NEW e \in Nat, NEW cost \in Nat
  PROVE  NewFree(f, e, cost) \in Int /\ NewExtra(f, e, cost) \in Nat
  BY DEF NewFree, NewExtra, FromExtra, Least

-----------------------------------------------------------------------------
(* Every action keeps the shape of the state.                              *)

Shaped(t) ==
  /\ t \in TxType
  /\ t.pc = "job" => t.cur \in Jobs
  /\ t.pc \in {"job", "member", "user", "members"} => t.who \in Users
  /\ t.pc = "user" => t.free[t.who] # NoCopy

LEMMA TxShaped == ASSUME TypeOK, NEW p \in Procs PROVE Shaped(tx[p])
  BY DEF TypeOK, Shaped

LEMMA Others == NoProc \notin Procs
  BY BillingAssumption DEF Procs

LEMMA WantedRow ==
  ASSUME TypeOK, NEW p \in Procs, Waiting(p)
  PROVE  Wanted(p) \in Rows
<1>1. CASE tx[p].pc = "account"
  BY <1>1 DEF Wanted, Rows
<1>2. CASE tx[p].pc = "job"
  <2>1. tx[p].cur \in Jobs
    BY <1>2, TxShaped DEF Shaped
  <2>2. Wanted(p) = <<"job", tx[p].cur>>
    BY <1>2 DEF Wanted
  <2> QED
    BY <2>1, <2>2 DEF Rows
<1>3. CASE tx[p].pc \in {"member", "user", "members"}
  <2>1. tx[p].who \in Users
    BY <1>3, TxShaped DEF Shaped
  <2>2. Wanted(p) = <<IF tx[p].pc = "user" THEN "user" ELSE "member", tx[p].who>>
    BY <1>3 DEF Wanted
  <2> QED
    BY <2>1, <2>2 DEF Rows
<1> QED
  BY <1>1, <1>2, <1>3 DEF Waiting

LEMMA IdleShaped == Shaped(NoTx) /\ Shaped([NoTx EXCEPT !.pc = "tick"])
  BY DEF Shaped, TxType, NoTx, Clock, Never

\* What follows a job in a transaction keeps what it has read and charged.
LEMMA OnwardsShaped ==
  ASSUME NEW t \in TxType, NEW n \in Onwards(t)
  PROVE  /\ Shaped(n) /\ n.pc \in {"job", "members", "commit"}
         /\ n.bill = t.bill /\ n.kind = t.kind /\ n.at = t.at
<1>1. CASE t.jobs = {}
  <2>1. n \in AfterJobs(t)
    BY <1>1 DEF Onwards
  <2>2. CASE t.kind = "issue" /\ Users # {}
    <3>1. PICK u \in Users : n = [t EXCEPT !.pc = "members", !.who = u, !.users = Users \ {u}]
      BY <2>1, <2>2 DEF AfterJobs
    <3> QED
      BY <3>1 DEF Shaped, TxType
  <2>3. CASE ~(t.kind = "issue" /\ Users # {})
    <3>1. n = [t EXCEPT !.pc = "commit"]
      BY <2>1, <2>3 DEF AfterJobs
    <3> QED
      BY <3>1 DEF Shaped, TxType
  <2> QED
    BY <2>2, <2>3
<1>2. CASE t.jobs # {}
  <2>1. PICK j \in t.jobs : n = [t EXCEPT !.pc = "job", !.cur = j, !.who = OwnerOf[j], !.jobs = @ \ {j}]
    BY <1>2 DEF Onwards
  <2>2. j \in Jobs /\ OwnerOf[j] \in Users
    BY BillingAssumption DEF TxType
  <2> QED
    BY <2>1, <2>2 DEF Shaped, TxType
<1> QED
  BY <1>1, <1>2

LEMMA ListedShaped ==
  ASSUME NEW t \in TxType, NEW n \in Listed(t)
  PROVE  /\ Shaped(n) /\ n.pc \in {"job", "members", "commit"}
         /\ n.bill = t.bill /\ n.kind = t.kind /\ n.at = t.at
<1> DEFINE s == [t EXCEPT !.jobs = {j \in Jobs : Running(j)}]
<1>1. s \in TxType /\ s.bill = t.bill /\ s.kind = t.kind /\ s.at = t.at
  BY DEF TxType
<1>2. n \in Onwards(s)
  BY DEF Listed
<1> HIDE DEF s
<1> QED
  BY <1>1, <1>2, OnwardsShaped

LEMMA FinalShaped ==
  ASSUME NEW j \in Jobs, NEW at \in Clock
  PROVE  Shaped(Final(j, at))
  BY BillingAssumption DEF Final, Shaped, TxType, NoTx

\* A step of one transaction that changes nothing else but locks.
LEMMA TxStepType ==
  ASSUME TypeOK, NEW p \in Procs, NEW t, Shaped(t), tx' = [tx EXCEPT ![p] = t],
         lock' \in [Rows -> Procs \cup {NoProc}],
         UNCHANGED <<now, clusterVars, row, moneyVars, rc, events>>,
         lastTick' \in [Loops -> Clock],
         del' \in [Deletable -> [pc : {"idle", "settle", "apply", "cluster"}, at : Clock,
                                 dropRow : BOOLEAN, dropJob : BOOLEAN]]
  PROVE  TypeOK'
  BY DEF TypeOK, Shaped, clusterVars, moneyVars

LEMMA LockType ==
  ASSUME TypeOK, NEW p \in Procs, Take(p) \/ Release(p) \/ UNCHANGED lock
  PROVE  lock' \in [Rows -> Procs \cup {NoProc}]
  BY DEF TypeOK, Take, Release

LEMMA FailType ==
  ASSUME TypeOK, NEW p \in Procs, Fail(p), UNCHANGED <<now, clusterVars, row, moneyVars, events>>
  PROVE  TypeOK'
<1>1. Shaped(NoTx) /\ tx' = [tx EXCEPT ![p] = NoTx]
  BY IdleShaped DEF Fail
<1>2. lock' \in [Rows -> Procs \cup {NoProc}]
  BY LockType DEF Fail
<1>3. del' \in [Deletable -> [pc : {"idle", "settle", "apply", "cluster"}, at : Clock,
                              dropRow : BOOLEAN, dropJob : BOOLEAN]]
  BY DEF TypeOK, Fail, NoDelete, Clock, Never
<1> QED
  BY <1>1, <1>2, <1>3, TxStepType DEF TypeOK, Fail

LEMMA LockJobType ==
  ASSUME TypeOK, NEW p \in Procs, LockJob(p)
  PROVE  TypeOK'
<1> DEFINE t == tx[p]
           j == t.cur
           b == Settled(j, bill[j], row[j].start, t.at)
           s == [t EXCEPT !.bill[j] = b, !.cost = b.points - bill[j].points]
<1>1. t \in TxType /\ j \in Jobs /\ t.who \in Users /\ t.at \in Clock
  BY TxShaped DEF LockJob, Shaped, TxType
<1>2. bill[j] \in Bill /\ row[j].start \in Clock
  BY <1>1 DEF TypeOK, RowType
<1>3. CASE row[j].gone
  BY <1>3, FailType DEF LockJob
<1>4. CASE ~row[j].gone
  <2>1. lock' \in [Rows -> Procs \cup {NoProc}] /\ UNCHANGED <<now, clusterVars, row, moneyVars, callerVars, events>>
    BY <1>4, LockType DEF LockJob
  <2>2. \E n : Shaped(n) /\ tx' = [tx EXCEPT ![p] = n]
    <3>1. CASE ~Billable(bill[j], row[j].start, t.at)
      <4>1. PICK n \in Onwards(t) : tx' = [tx EXCEPT ![p] = n]
        BY <1>4, <3>1 DEF LockJob
      <4> QED
        BY <1>1, <4>1, OnwardsShaped
    <3>2. CASE Billable(bill[j], row[j].start, t.at)
      <4>1. row[j].start \in 0 .. MaxTime
        BY <1>2, <3>2 DEF Billable, Clock
      <4>2. b \in Bill /\ b.points - bill[j].points \in Nat
        BY <1>1, <1>2, <3>2, <4>1, SettledType
      <4>3. s \in TxType /\ s.who \in Users
        BY <1>1, <4>2 DEF TxType
      <4>4. \/ tx' = [tx EXCEPT ![p] = [s EXCEPT !.pc = "member"]]
            \/ \E n \in Onwards(s) : tx' = [tx EXCEPT ![p] = n]
        BY <1>4, <3>2 DEF LockJob
      <4> HIDE DEF s
      <4>5. Shaped([s EXCEPT !.pc = "member"])
        BY <4>3 DEF Shaped, TxType
      <4> QED
        BY <4>3, <4>4, <4>5, OnwardsShaped
    <3> QED
      BY <3>1, <3>2
  <2> QED
    BY <2>1, <2>2, TxStepType DEF TypeOK, callerVars
<1> QED
  BY <1>3, <1>4

LEMMA LockUserShaped ==
  ASSUME TypeOK, NEW p \in Procs, LockUser(p)
  PROVE  \E n : /\ Shaped(n) /\ tx' = [tx EXCEPT ![p] = n] /\ n.bill = tx[p].bill
                /\ n.kind = tx[p].kind /\ n.at = tx[p].at /\ n.pc # "account"
<1> DEFINE t == tx[p]
           u == t.who
           f == t.free[u]
           e == Over(t.extra, extra)[u]
           s == [t EXCEPT !.free[u] = NewFree(f, e, t.cost), !.extra[u] = NewExtra(f, e, t.cost), !.cost = 0]
<1>1. t \in TxType /\ u \in Users
  BY TxShaped DEF LockUser, Shaped
<1>2. f \in Int /\ e \in Nat /\ t.cost \in Nat
  <2>1. t.free \in [Users -> {NoCopy} \cup Int] /\ f # NoCopy /\ t.cost \in Nat
    BY <1>1, TxShaped DEF LockUser, Shaped, TxType
  <2>2. t.extra \in [Users -> {NoCopy} \cup Nat] /\ extra \in [Users -> Nat]
    BY <1>1 DEF TypeOK, TxType
  <2>3. e \in Nat
    BY <1>1, <2>2 DEF Over
  <2> QED
    BY <1>1, <2>1, <2>3
<1>3. NewFree(f, e, t.cost) \in Int /\ NewExtra(f, e, t.cost) \in Nat
  BY <1>2, DeductType
<1>4. s \in TxType /\ s.bill = t.bill /\ s.kind = t.kind /\ s.at = t.at
  BY <1>1, <1>3 DEF TxType
<1>5. PICK n \in Onwards(s) : tx' = [tx EXCEPT ![p] = n]
  BY DEF LockUser
<1> HIDE DEF s
<1> QED
  BY <1>4, <1>5, OnwardsShaped

\* The steps of a transaction that only wait for the next row.
LEMMA LockTxShaped ==
  ASSUME TypeOK, NEW p \in Procs, LockMember(p) \/ LockMembers(p)
  PROVE  \E n : /\ Shaped(n) /\ tx' = [tx EXCEPT ![p] = n] /\ n.bill = tx[p].bill
                /\ n.kind = tx[p].kind /\ n.at = tx[p].at /\ n.pc # "account"
<1>0. tx[p] \in TxType /\ tx[p].who \in Users
  BY TxShaped DEF LockMember, LockMembers, Shaped
<1>1. CASE LockMember(p)
  <2> DEFINE u == tx[p].who
             c == Over(tx[p].free, free)[u]
             n == [tx[p] EXCEPT !.pc = "user", !.free[u] = c]
  <2>1. c \in Int /\ c # NoCopy
    <3>1. tx[p].free \in [Users -> {NoCopy} \cup Int] /\ free \in [Users -> Int]
      BY <1>0 DEF TypeOK, TxType
    <3>2. c \in Int
      BY <1>0, <3>1 DEF Over
    <3> QED
      BY <3>2, BillingAssumption
  <2>2. tx' = [tx EXCEPT ![p] = n]
    BY <1>1 DEF LockMember
  <2> HIDE DEF c
  <2>3. Shaped(n) /\ n.bill = tx[p].bill /\ n.kind = tx[p].kind /\ n.at = tx[p].at /\ n.pc # "account"
    BY <1>0, <2>1 DEF Shaped, TxType
  <2> QED
    BY <2>2, <2>3
<1>2. CASE LockMembers(p) /\ tx[p].users = {}
  <2> DEFINE n == [tx[p] EXCEPT !.pc = "commit"]
  <2>1. tx' = [tx EXCEPT ![p] = n]
    BY <1>2 DEF LockMembers, TypeOK
  <2>2. Shaped(n) /\ n.bill = tx[p].bill /\ n.kind = tx[p].kind /\ n.at = tx[p].at /\ n.pc # "account"
    BY <1>0 DEF Shaped, TxType
  <2> QED
    BY <2>1, <2>2
<1>3. CASE LockMembers(p) /\ tx[p].users # {}
  <2>1. PICK u \in tx[p].users : tx' = [tx EXCEPT ![p] = [tx[p] EXCEPT !.who = u, !.users = @ \ {u}]]
    BY <1>3 DEF LockMembers, TypeOK
  <2> DEFINE n == [tx[p] EXCEPT !.who = u, !.users = @ \ {u}]
  <2>2. u \in Users /\ tx[p].pc = "members"
    BY <1>0, <1>3 DEF TxType, LockMembers
  <2>3. Shaped(n) /\ n.bill = tx[p].bill /\ n.kind = tx[p].kind /\ n.at = tx[p].at /\ n.pc # "account"
    BY <1>0, <2>2 DEF Shaped, TxType
  <2> QED
    BY <2>1, <2>3
<1> QED
  BY <1>1, <1>2, <1>3

LEMMA LoopType ==
  ASSUME TypeOK, NEW p \in Procs, LoopIssue(p) \/ LockAccount(p) \/ LoopTick(p)
  PROVE  TypeOK'
<1>0. now \in Clock /\ tx[p] \in TxType
  BY DEF TypeOK, Clock
<1>1. Shaped([NoTx EXCEPT !.pc = "account", !.kind = "issue", !.at = now])
  BY <1>0 DEF Shaped, TxType, NoTx
<1>2. \E n : Shaped(n) /\ tx' = [tx EXCEPT ![p] = n]
  <2>1. CASE LoopIssue(p)
    BY <1>1, <2>1 DEF LoopIssue
  <2>2. CASE LockAccount(p)
    BY <1>0, IdleShaped, <2>2, ListedShaped DEF LockAccount
  <2>3. CASE LoopTick(p)
    <3>1. [NoTx EXCEPT !.kind = "tick", !.at = now] \in TxType
      BY <1>0 DEF TxType, NoTx
    <3> QED
      BY <2>3, <3>1, IdleShaped, ListedShaped DEF LoopTick
  <2> QED
    BY <2>1, <2>2, <2>3
<1>3. lock' \in [Rows -> Procs \cup {NoProc}]
  BY LockType DEF LoopIssue, LockAccount, LoopTick
<1>4. UNCHANGED <<now, clusterVars, row, moneyVars, callerVars, events>>
  BY DEF LoopIssue, LockAccount, LoopTick
<1> QED
  BY <1>2, <1>3, <1>4, TxStepType DEF TypeOK, callerVars

LEMMA CommitType ==
  ASSUME TypeOK, NEW p \in Procs, Commit(p)
  PROVE  TypeOK'
<1> DEFINE t == tx[p]
           f == Over(t.free, free)
<1>1. t \in TxType
  BY DEF TypeOK
<1>2. bill' \in [Jobs -> Bill] /\ extra' \in [Users -> Nat] /\ f \in [Users -> Int]
  <2>1. bill' = Over(t.bill, bill) /\ extra' = Over(t.extra, extra)
    BY DEF Commit
  <2>2. /\ t.bill \in [Jobs -> {NoCopy} \cup Bill] /\ t.free \in [Users -> {NoCopy} \cup Int]
        /\ t.extra \in [Users -> {NoCopy} \cup Nat]
    BY <1>1 DEF TxType
  <2> QED
    BY <2>1, <2>2 DEF TypeOK, Over
<1>3. free' \in [Users -> Int] /\ granted' \in [Users -> Int] /\ lastIssued' \in Clock
  <2>1. /\ free' = [u \in Users |-> IssueAmount] \/ free' = f
        /\ granted' = [u \in Users |-> granted[u] + IssueAmount - f[u]] \/ granted' = granted
        /\ lastIssued' = t.at \/ lastIssued' = lastIssued
    BY DEF Commit
  <2> HIDE DEF f
  <2> QED
    BY <1>1, <1>2, <2>1, BillingAssumption DEF TypeOK, TxType
<1>4. lock' \in [Rows -> Procs \cup {NoProc}]
  BY LockType DEF Commit
<1>5. lastTick' \in [Loops -> Clock]
  BY <1>1 DEF TypeOK, Commit, Return, TxType
<1>6. del' \in [Deletable -> [pc : {"idle", "settle", "apply", "cluster"}, at : Clock,
                              dropRow : BOOLEAN, dropJob : BOOLEAN]]
  BY DEF TypeOK, Commit, Return
<1>7. \E n : Shaped(n) /\ tx' = [tx EXCEPT ![p] = n]
  <2>1. tx' = [tx EXCEPT ![p] = NoTx] \/ tx' = [tx EXCEPT ![p] = [NoTx EXCEPT !.pc = "tick"]]
    BY DEF Commit, Return
  <2> QED
    BY <2>1, IdleShaped
<1>8. tx' \in [Procs -> TxType] /\ \A q \in Procs : Shaped(tx'[q])
  BY <1>7, TxShaped DEF TypeOK, Shaped
<1> QED
  BY <1>2, <1>3, <1>4, <1>5, <1>6, <1>8 DEF TypeOK, Shaped, Commit, Return, clusterVars

LEMMA TransactionType ==
  ASSUME TypeOK, NEW p \in Procs, Transaction(p)
  PROVE  TypeOK'
<1>1. CASE LockMember(p) \/ LockMembers(p)
  <2>1. lock' \in [Rows -> Procs \cup {NoProc}] /\ UNCHANGED <<now, clusterVars, row, moneyVars, callerVars, events>>
    BY <1>1, LockType DEF LockMember, LockMembers
  <2> QED
    BY <1>1, <2>1, LockTxShaped, TxStepType DEF TypeOK, callerVars
<1>2. CASE LockUser(p)
  <2>1. lock' \in [Rows -> Procs \cup {NoProc}] /\ UNCHANGED <<now, clusterVars, row, moneyVars, callerVars, events>>
    BY <1>2, LockType DEF LockUser
  <2> QED
    BY <1>2, <2>1, LockUserShaped, TxStepType DEF TypeOK, callerVars
<1>3. CASE DeadlockVictim(p)
  BY <1>3, FailType DEF DeadlockVictim
<1> QED
  BY <1>1, <1>2, <1>3, LoopType, LockJobType, CommitType DEF Transaction

LEMMA ClusterType ==
  ASSUME TypeOK, NEW j \in Jobs, Begin(j) \/ End(j) \/ Restart(j) \/ BeginAgain(j) \/ Vanish(j)
  PROVE  TypeOK'
<1>1. /\ vc[j] \in Cluster /\ now \in Clock /\ NoVc \in Cluster
  BY DEF TypeOK, Clock, NoVc, Cluster, Phases, Never
<1>2. \E v \in Cluster : ClusterStep(j, v)
  <2>1. \A phase \in Phases :
          /\ [vc[j] EXCEPT !.phase = phase, !.begin = now] \in Cluster
          /\ [vc[j] EXCEPT !.phase = phase, !.end = now] \in Cluster
          /\ [NoVc EXCEPT !.phase = phase] \in Cluster
    BY <1>1 DEF Cluster
  <2>2. {"Running", "Completed", "Restarting", "absent"} \subseteq Phases
    BY DEF Phases
  <2> QED
    BY <2>1, <2>2 DEF Begin, End, Restart, BeginAgain, Vanish
<1>3. events' \in 0 .. MaxEvents
  BY BillingAssumption DEF TypeOK, Begin, End, Restart, BeginAgain, Vanish, Event
<1> QED
  BY <1>2, <1>3 DEF TypeOK, ClusterStep, moneyVars, callerVars

LEMMA EventType == ASSUME TypeOK, NEW e, Event(e) PROVE events' \in 0 .. MaxEvents
  BY BillingAssumption DEF TypeOK, Event

LEMMA AdjustType ==
  ASSUME TypeOK, NEW u \in Users, NEW d \in Deltas, Adjust(u, d)
  PROVE  TypeOK'
<1>1. d \in Int /\ extra[u] \in Nat /\ granted[u] \in Int
  BY BillingAssumption DEF TypeOK
<1>2. extra' \in [Users -> Nat] /\ granted' \in [Users -> Int]
  BY <1>1 DEF TypeOK, Adjust
<1> QED
  BY <1>2, EventType DEF TypeOK, Adjust, clusterVars, callerVars

LEMMA ReconcileReadType ==
  ASSUME TypeOK, NEW j \in Jobs, ReconcileRead(j)
  PROVE  TypeOK'
<1>1. vc[j] \in Cluster /\ row[j] \in RowType
  BY DEF TypeOK
<1>2. rc' = rc \/ rc' = [pc |-> "write", job |-> j, seen |-> vc[j], old |-> row[j]]
  BY DEF ReconcileRead
<1> QED
  BY <1>1, <1>2 DEF TypeOK, ReconcileRead, moneyVars

LEMMA ReconcileWriteType ==
  ASSUME TypeOK, ReconcileWrite
  PROVE  TypeOK'
<1> DEFINE j == rc.job
<1>1. j \in Jobs /\ rc.seen \in Cluster /\ rc.old \in RowType /\ row[j] \in RowType /\ now \in Clock
  BY DEF TypeOK, ReconcileWrite, Clock
<1>2. Written(row[j]) \in RowType
  <2>1. NoRow \in RowType
    BY DEF NoRow, RowType, Phases, Clock, Never
  <2> QED
    BY <1>1, <2>1 DEF Written, RowType, Cluster, Phases, Ended, NoRow
<1>3. row' \in [Jobs -> RowType]
  BY <1>1, <1>2 DEF TypeOK, ReconcileWrite
<1>4. tx' = tx \/ \E at \in Clock : tx' = [tx EXCEPT ![Reconciler] = Final(j, at)]
  <2>1. Hooked \subseteq Clock
    BY <1>1 DEF Hooked, Cluster
  <2> QED
    BY <2>1 DEF ReconcileWrite
<1>5. tx' \in [Procs -> TxType] /\ \A q \in Procs : Shaped(tx'[q])
  <2>1. tx \in [Procs -> TxType] /\ \A q \in Procs : Shaped(tx[q])
    BY TxShaped DEF TypeOK
  <2>2. \A at \in Clock : Shaped(Final(j, at)) /\ Final(j, at) \in TxType
    BY <1>1, FinalShaped DEF Shaped
  <2> QED
    BY <1>4, <2>1, <2>2
<1>6. NoReconcile \in [pc : {"idle", "write"}, job : Jobs \cup {NoJob}, seen : Cluster, old : RowType]
  BY DEF NoReconcile, NoVc, NoRow, Cluster, RowType, Phases, Clock, Never
<1> QED
  BY <1>3, <1>5, <1>6 DEF TypeOK, Shaped, ReconcileWrite, NoReconcile, clusterVars, moneyVars

LEMMA DeleteType ==
  ASSUME TypeOK, NEW j \in Deletable, DeletePlan(j) \/ DeleteApply(j) \/ DeleteCluster(j)
  PROVE  TypeOK'
<1>0. j \in Jobs /\ row[j] \in RowType /\ vc[j] \in Cluster /\ now \in Clock
  BY BillingAssumption DEF TypeOK, Clock
<1>1. CASE DeletePlan(j)
  <2>1. PICK at \in Clock, dropRow \in BOOLEAN, dropJob \in BOOLEAN :
          /\ del' = [del EXCEPT ![j] = [pc |-> "settle", at |-> at, dropRow |-> dropRow, dropJob |-> dropJob]]
          /\ tx' = [tx EXCEPT ![j] = Final(j, at)]
    <3> DEFINE stopped == vc[j].phase = "Completed"
               drop    == stopped \/ vc[j].phase = "absent"
               at      == IF drop /\ row[j].done # Never THEN row[j].done
                          ELSE IF stopped THEN vc[j].end ELSE now
    <3>1. at \in Clock
      BY <1>0 DEF RowType, Cluster
    <3>2. drop \in BOOLEAN /\ (vc[j].phase # "absent") \in BOOLEAN
      OBVIOUS
    <3>3. /\ del' = [del EXCEPT ![j] = [pc |-> "settle", at |-> at, dropRow |-> drop,
                                       dropJob |-> vc[j].phase # "absent"]]
          /\ tx' = [tx EXCEPT ![j] = Final(j, at)]
      BY <1>1 DEF DeletePlan
    <3> HIDE DEF at, drop
    <3> QED
      BY <3>1, <3>2, <3>3
  <2>2. tx' \in [Procs -> TxType] /\ \A q \in Procs : Shaped(tx'[q])
    BY <1>0, <2>1, FinalShaped, TxShaped DEF TypeOK, Shaped
  <2>3. del' \in [Deletable -> [pc : {"idle", "settle", "apply", "cluster"}, at : Clock,
                                dropRow : BOOLEAN, dropJob : BOOLEAN]]
    BY <2>1 DEF TypeOK
  <2>4. events' \in 0 .. MaxEvents /\ UNCHANGED <<now, clusterVars, row, moneyVars, rc, lastTick, lock>>
    BY <1>1, EventType DEF DeletePlan
  <2> QED
    BY <2>2, <2>3, <2>4 DEF TypeOK, Shaped, clusterVars, moneyVars
<1>2. CASE DeleteApply(j)
  <2>1. del[j].at \in Clock
    BY DEF TypeOK
  <2>2. row' \in [Jobs -> RowType]
    BY <1>0, <1>2, <2>1 DEF TypeOK, DeleteApply, RowType, Ended
  <2> QED
    BY <1>2, <2>2 DEF TypeOK, DeleteApply, clusterVars, moneyVars
<1>3. CASE DeleteCluster(j)
  <2>1. vc' \in [Jobs -> Cluster] /\ dirty' \in SUBSET Jobs
    <3>1. [NoVc EXCEPT !.phase = "absent"] \in Cluster
      BY DEF Cluster, NoVc, Phases, Clock, Never
    <3> QED
      BY <1>0, <1>3, <3>1 DEF TypeOK, DeleteCluster, clusterVars
  <2>2. NoDelete \in [pc : {"idle", "settle", "apply", "cluster"}, at : Clock, dropRow : BOOLEAN, dropJob : BOOLEAN]
    BY DEF NoDelete, Clock, Never
  <2> QED
    BY <1>3, <2>1, <2>2 DEF TypeOK, DeleteCluster, moneyVars
<1> QED
  BY <1>1, <1>2, <1>3

LEMMA CrashType == ASSUME TypeOK, Crash PROVE TypeOK'
<1>1. Shaped(NoTx)
  BY IdleShaped
<1>2. NoReconcile \in [pc : {"idle", "write"}, job : Jobs \cup {NoJob}, seen : Cluster, old : RowType]
  BY DEF NoReconcile, NoVc, NoRow, Cluster, RowType, Phases, Clock, Never
<1>3. NoDelete \in [pc : {"idle", "settle", "apply", "cluster"}, at : Clock, dropRow : BOOLEAN, dropJob : BOOLEAN]
  BY DEF NoDelete, Clock, Never
<1> QED
  BY <1>1, <1>2, <1>3, EventType
     DEF TypeOK, Crash, Shaped, moneyVars, NoReconcile, Clock, Never

LEMMA TypeStep == TypeOK /\ [Next]_vars => TypeOK'
<1>1. TypeOK /\ UNCHANGED vars => TypeOK'
  BY DEF TypeOK, vars, clusterVars, moneyVars, callerVars
<1>2. TypeOK /\ Pass => TypeOK'
  BY BillingAssumption DEF TypeOK, Pass, clusterVars, moneyVars, callerVars
<1> QED
  BY <1>1, <1>2, TransactionType, ClusterType, ReconcileReadType, ReconcileWriteType, DeleteType,
     AdjustType, CrashType DEF Next

\* The state of the billing model always has the declared shape.
THEOREM BillingTypeCorrect == Spec => []TypeOK
<1>1. Init => TypeOK
  <2>1. Shaped(NoTx)
    BY IdleShaped
  <2>2. NoReconcile \in [pc : {"idle", "write"}, job : Jobs \cup {NoJob}, seen : Cluster, old : RowType]
    BY DEF NoReconcile, NoVc, NoRow, Cluster, RowType, Phases, Clock, Never
  <2>3. NoDelete \in [pc : {"idle", "settle", "apply", "cluster"}, at : Clock, dropRow : BOOLEAN, dropJob : BOOLEAN]
    BY DEF NoDelete, Clock, Never
  <2>4. NoVc \in Cluster /\ NoRow \in RowType
    BY DEF NoVc, NoRow, Cluster, RowType, Phases, Clock, Never
  <2>5. [settled |-> Never, points |-> 0, minutes |-> {}, runs |-> {}] \in Bill
    BY DEF Bill, Never
  <2> QED
    BY <2>1, <2>2, <2>3, <2>4, <2>5, BillingAssumption DEF Init, TypeOK, Shaped, NoReconcile, Clock, Never
<1> QED
  BY <1>1, TypeStep, PTL DEF Spec

-----------------------------------------------------------------------------
(* Locks keep what a transaction has read true until it commits.           *)

LockMove(p) == \/ Waiting(p) /\ CanLock(p) /\ Take(p)
               \/ Release(p)
               \/ UNCHANGED lock

\* No step of a transaction takes a row away from another.
LEMMA LockKept ==
  ASSUME TypeOK, NEW p \in Procs, LockMove(p), NEW q \in Procs \ {p}, NEW r \in Rows, lock[r] = q
  PROVE  lock'[r] = q
<1>1. CASE Waiting(p) /\ CanLock(p) /\ Take(p)
  <2>1. Wanted(p) # r
    BY <1>1, Others DEF CanLock
  <2> QED
    BY <1>1, <2>1 DEF TypeOK, Take
<1>2. CASE Release(p)
  BY <1>2 DEF Release
<1> QED
  BY <1>1, <1>2 DEF LockMove

LEMMA RowsExist == AccountRow \in Rows /\ \A j \in Jobs : <<"job", j>> \in Rows
  BY DEF Rows

LEMMA TxStepLock ==
  ASSUME TypeOK, LockInv, NEW p \in Procs, NEW t, tx' = [tx EXCEPT ![p] = t], LockMove(p),
         UNCHANGED <<bill, lastIssued>>,
         t.kind = "issue" /\ t.pc # "account" => lock'[AccountRow] = p /\ Due(t.at),
         \A j \in Jobs : t.bill[j] # NoCopy => lock'[<<"job", j>>] = p /\ Copied(j, t)
  PROVE  LockInv'
<1>1. ASSUME NEW q \in Procs \ {p} PROVE tx'[q] = tx[q]
  BY DEF TypeOK
<1>2. tx'[p] = t
  BY DEF TypeOK
<1>3. ASSUME NEW q \in Procs, tx'[q].kind = "issue", tx'[q].pc # "account"
      PROVE  lock'[AccountRow] = q /\ Due(tx[q].at)'
  <2>1. lock'[AccountRow] = q /\ Due(tx'[q].at)
    BY <1>1, <1>2, <1>3, LockKept, RowsExist DEF LockInv
  <2> QED
    BY <2>1 DEF Due
<1>4. ASSUME NEW q \in Procs, NEW j \in Jobs, tx'[q].bill[j] # NoCopy
      PROVE  lock'[<<"job", j>>] = q /\ Copied(j, tx[q])'
  <2>1. lock'[<<"job", j>>] = q /\ Copied(j, tx'[q])
    BY <1>1, <1>2, <1>4, LockKept, RowsExist DEF LockInv
  <2> QED
    BY <2>1 DEF Copied
<1> QED
  BY <1>3, <1>4 DEF LockInv

\* A transaction goes on with the copies it has.
LEMMA GoOnLock ==
  ASSUME TypeOK, LockInv, NEW p \in Procs, NEW n, tx' = [tx EXCEPT ![p] = n],
         n.bill = tx[p].bill, n.kind = tx[p].kind, n.at = tx[p].at, tx[p].pc # "account",
         Waiting(p), CanLock(p), Take(p), UNCHANGED <<bill, lastIssued>>
  PROVE  LockInv'
<1>1. \A r \in Rows : lock[r] = p => lock'[r] = p
  BY DEF TypeOK, Take
<1>2. \A j \in Jobs : Copied(j, n) <=> Copied(j, tx[p])
  BY DEF Copied
<1>3. n.kind = "issue" /\ n.pc # "account" => lock'[AccountRow] = p /\ Due(n.at)
  BY <1>1, RowsExist DEF LockInv
<1>4. \A j \in Jobs : n.bill[j] # NoCopy => lock'[<<"job", j>>] = p /\ Copied(j, n)
  BY <1>1, <1>2, RowsExist DEF LockInv
<1>5. LockMove(p)
  BY DEF LockMove
<1> QED
  BY <1>3, <1>4, <1>5, TxStepLock

\* A transaction begins or ends without copies.
LEMMA EmptyLock ==
  ASSUME TypeOK, LockInv, NEW p \in Procs, NEW n, tx' = [tx EXCEPT ![p] = n], n.bill = NoTx.bill,
         n.kind = "issue" => n.pc = "account", LockMove(p), UNCHANGED <<bill, lastIssued>>
  PROVE  LockInv'
<1>1. \A j \in Jobs : n.bill[j] = NoCopy
  BY DEF NoTx
<1> QED
  BY <1>1, TxStepLock

LEMMA LoopLock ==
  ASSUME TypeOK, LockInv, NEW p \in Procs, LoopIssue(p) \/ LockAccount(p) \/ LoopTick(p)
  PROVE  LockInv'
<1>0. UNCHANGED <<bill, lastIssued>>
  BY DEF LoopIssue, LockAccount, LoopTick, moneyVars
<1>1. CASE LoopIssue(p)
  <2> DEFINE n == [NoTx EXCEPT !.pc = "account", !.kind = "issue", !.at = now]
  <2>1. n.bill = NoTx.bill /\ n.pc = "account"
    BY DEF NoTx
  <2>2. tx' = [tx EXCEPT ![p] = n] /\ LockMove(p)
    BY <1>1 DEF LoopIssue, LockMove
  <2> HIDE DEF n
  <2> QED
    BY <1>0, <2>1, <2>2, EmptyLock
<1>2. CASE LockAccount(p) /\ Due(tx[p].at)
  <2>0. tx[p] \in TxType
    BY DEF TypeOK
  <2>1. PICK n \in Listed(tx[p]) : tx' = [tx EXCEPT ![p] = n]
    BY <1>2 DEF LockAccount
  <2>2. n.bill = tx[p].bill /\ n.at = tx[p].at
    BY <2>0, ListedShaped
  <2>3. Waiting(p) /\ CanLock(p) /\ Take(p) /\ Wanted(p) = AccountRow
    BY <1>2 DEF LockAccount, Waiting, Wanted
  <2>4. lock'[AccountRow] = p /\ \A r \in Rows : lock[r] = p => lock'[r] = p
    BY <2>3, RowsExist DEF TypeOK, Take
  <2>5. \A j \in Jobs : Copied(j, n) <=> Copied(j, tx[p])
    BY <2>2 DEF Copied
  <2>6. \A j \in Jobs : n.bill[j] # NoCopy => lock'[<<"job", j>>] = p /\ Copied(j, n)
    BY <2>2, <2>4, <2>5, RowsExist DEF LockInv
  <2>7. lock'[AccountRow] = p /\ Due(n.at) /\ LockMove(p)
    BY <1>2, <2>2, <2>3, <2>4 DEF LockMove
  <2> QED
    BY <1>0, <2>1, <2>6, <2>7, TxStepLock
<1>3. CASE LockAccount(p) /\ ~Due(tx[p].at)
  <2>1. tx' = [tx EXCEPT ![p] = [NoTx EXCEPT !.pc = "tick"]] /\ LockMove(p)
    BY <1>3 DEF LockAccount, LockMove
  <2>2. [NoTx EXCEPT !.pc = "tick"].bill = NoTx.bill /\ [NoTx EXCEPT !.pc = "tick"].kind # "issue"
    BY DEF NoTx
  <2> QED
    BY <1>0, <2>1, <2>2, EmptyLock
<1>4. CASE LoopTick(p)
  <2> DEFINE s == [NoTx EXCEPT !.kind = "tick", !.at = now]
  <2>1. now \in Clock
    BY DEF TypeOK, Clock
  <2>2. s \in TxType /\ s.bill = NoTx.bill /\ s.kind = "tick" /\ NoTx.kind # "issue"
    BY <2>1 DEF NoTx, TxType
  <2>3. (tx' = [tx EXCEPT ![p] = NoTx] \/ \E n \in Listed(s) : tx' = [tx EXCEPT ![p] = n]) /\ LockMove(p)
    BY <1>4 DEF LoopTick, LockMove
  <2> HIDE DEF s
  <2>4. \A n \in Listed(s) : n.bill = NoTx.bill /\ n.kind = "tick"
    BY <2>2, ListedShaped
  <2> QED
    BY <1>0, <2>2, <2>3, <2>4, EmptyLock
<1> QED
  BY <1>1, <1>2, <1>3, <1>4

LEMMA FailLock ==
  ASSUME TypeOK, LockInv, NEW p \in Procs, Fail(p), UNCHANGED moneyVars
  PROVE  LockInv'
<1>1. NoTx.kind # "issue"
  BY DEF NoTx
<1> QED
  BY <1>1, EmptyLock DEF Fail, LockMove, moneyVars

\* A job is copied under its lock, from the bill that is committed.
LEMMA LockJobLock ==
  ASSUME TypeOK, LockInv, NEW p \in Procs, LockJob(p)
  PROVE  LockInv'
<1> DEFINE t == tx[p]
           j == t.cur
           start == row[j].start
           b == Settled(j, bill[j], start, t.at)
           s == [t EXCEPT !.bill[j] = b, !.cost = b.points - bill[j].points]
<1>1. t \in TxType /\ j \in Jobs /\ t.at \in Clock /\ t.who \in Users
  BY TxShaped DEF LockJob, Shaped, TxType
<1>2. bill[j] \in Bill /\ start \in Clock
  BY <1>1 DEF TypeOK, RowType
<1>3. CASE row[j].gone
  BY <1>3, FailLock DEF LockJob
<1>4. CASE ~row[j].gone
  <2>1. /\ Waiting(p) /\ CanLock(p) /\ Take(p) /\ t.pc # "account" /\ UNCHANGED <<bill, lastIssued>>
        /\ Wanted(p) = <<"job", j>>
    BY <1>4 DEF LockJob, Waiting, Wanted, moneyVars
  <2>2. CASE ~Billable(bill[j], start, t.at)
    <3>1. PICK n \in Onwards(t) : tx' = [tx EXCEPT ![p] = n]
      BY <1>4, <2>2 DEF LockJob
    <3> QED
      BY <1>1, <2>1, <3>1, OnwardsShaped, GoOnLock
  <2>3. CASE Billable(bill[j], start, t.at)
    <3>1. start \in 0 .. MaxTime
      BY <1>2, <2>3 DEF Billable, Clock
    <3>2. b \in Bill /\ b.points - bill[j].points \in Nat
      BY <1>1, <1>2, <2>3, <3>1, SettledType
    <3>3. /\ s \in TxType /\ s.at = t.at /\ s.kind = t.kind
          /\ s.bill = [t.bill EXCEPT ![j] = b]
      BY <1>1, <3>2 DEF TxType
    <3>4. \/ tx' = [tx EXCEPT ![p] = [s EXCEPT !.pc = "member"]]
          \/ \E n \in Onwards(s) : tx' = [tx EXCEPT ![p] = n]
      BY <1>4, <2>3 DEF LockJob
    <3> HIDE DEF s
    <3>5. PICK n : tx' = [tx EXCEPT ![p] = n] /\ n.bill = s.bill /\ n.at = t.at /\ n.kind = t.kind
      <4>1. CASE tx' = [tx EXCEPT ![p] = [s EXCEPT !.pc = "member"]]
        <5>1. /\ [s EXCEPT !.pc = "member"].bill = s.bill /\ [s EXCEPT !.pc = "member"].at = s.at
              /\ [s EXCEPT !.pc = "member"].kind = s.kind
          BY <3>3 DEF TxType
        <5> QED
          BY <3>3, <4>1, <5>1
      <4>2. CASE \E n \in Onwards(s) : tx' = [tx EXCEPT ![p] = n]
        <5>1. PICK n \in Onwards(s) : tx' = [tx EXCEPT ![p] = n]
          BY <4>2
        <5>2. n.bill = s.bill /\ n.kind = s.kind /\ n.at = s.at
          BY <3>3, <5>1, OnwardsShaped
        <5> QED
          BY <3>3, <5>1, <5>2
      <4> QED
        BY <3>4, <4>1, <4>2
    <3>6. lock'[<<"job", j>>] = p /\ \A r \in Rows : lock[r] = p => lock'[r] = p
      BY <1>1, <2>1, RowsExist DEF TypeOK, Take
    <3>7. ASSUME NEW i \in Jobs, n.bill[i] # NoCopy
          PROVE  lock'[<<"job", i>>] = p /\ Copied(i, n)
      <4>1. CASE i = j
        <5>1. t.bill \in [Jobs -> {NoCopy} \cup Bill]
          BY <1>1 DEF TxType
        <5>2. n.bill[j] = b
          BY <1>1, <3>3, <3>5, <5>1
        <5> QED
          BY <2>3, <3>1, <3>5, <3>6, <4>1, <5>2 DEF Copied
      <4>2. CASE i # j
        <5>1. t.bill \in [Jobs -> {NoCopy} \cup Bill]
          BY <1>1 DEF TxType
        <5>2. n.bill[i] = t.bill[i]
          BY <3>3, <3>5, <4>2, <5>1
        <5>3. lock[<<"job", i>>] = p /\ Copied(i, t)
          BY <3>7, <5>2 DEF LockInv
        <5> QED
          BY <3>5, <3>6, <5>2, <5>3, RowsExist DEF Copied
      <4> QED
        BY <4>1, <4>2
    <3>8. n.kind = "issue" /\ n.pc # "account" => lock'[AccountRow] = p /\ Due(n.at)
      BY <2>1, <3>5, <3>6, RowsExist DEF LockInv
    <3> QED
      BY <2>1, <3>5, <3>7, <3>8, TxStepLock DEF LockMove
  <2> QED
    BY <2>2, <2>3
<1> QED
  BY <1>3, <1>4

\* A job's bill changes by a settlement that had something to settle, or not at all.
BillStep ==
  \A j \in Jobs :
    \/ bill'[j] = bill[j]
    \/ \E start \in 0 .. MaxTime, at \in Clock :
         Billable(bill[j], start, at) /\ bill'[j] = Settled(j, bill[j], start, at)

\* The account is issued when it is due, or not at all.
IssueStep == lastIssued' = lastIssued \/ Due(lastIssued')

LEMMA CommitLock ==
  ASSUME TypeOK, LockInv, NEW p \in Procs, Commit(p)
  PROVE  LockInv' /\ BillStep /\ IssueStep
<1> DEFINE t == tx[p]
<1>1. t \in TxType /\ t.at \in Clock /\ t.pc = "commit"
  BY DEF TypeOK, TxType, Commit
<1>2. \A j \in Jobs : bill'[j] = IF t.bill[j] = NoCopy THEN bill[j] ELSE t.bill[j]
  <2>1. bill' = Over(t.bill, bill) /\ DOMAIN t.bill = Jobs /\ DOMAIN bill = Jobs
    BY <1>1 DEF Commit, TxType, TypeOK
  <2> QED
    BY <2>1 DEF Over
<1>3. t.kind = "issue" => lock[AccountRow] = p /\ Due(t.at) /\ lastIssued' = t.at
  BY <1>1 DEF LockInv, Commit
<1>4. t.kind # "issue" => lastIssued' = lastIssued
  BY DEF Commit
<1>5. LockMove(p)
  BY DEF Commit, LockMove
<1>6. tx' = [tx EXCEPT ![p] = tx'[p]] /\ tx'[p].kind # "issue" /\ tx'[p].bill = NoTx.bill
  <2>1. tx' = [tx EXCEPT ![p] = NoTx] \/ tx' = [tx EXCEPT ![p] = [NoTx EXCEPT !.pc = "tick"]]
    BY DEF Commit, Return
  <2>2. /\ NoTx.kind # "issue" /\ [NoTx EXCEPT !.pc = "tick"].kind # "issue"
        /\ [NoTx EXCEPT !.pc = "tick"].bill = NoTx.bill
    BY DEF NoTx
  <2> QED
    BY <2>1, <2>2 DEF TypeOK
<1>7. \A q \in Procs \ {p} : tx'[q] = tx[q]
  BY <1>6 DEF TypeOK
<1>8. ASSUME NEW q \in Procs, tx'[q].kind = "issue", tx'[q].pc # "account"
      PROVE  lock'[AccountRow] = q /\ Due(tx[q].at)'
  <2>1. q # p /\ lock[AccountRow] = q /\ Due(tx[q].at)
    BY <1>6, <1>7, <1>8 DEF LockInv
  <2>2. lastIssued' = lastIssued
    BY <1>3, <1>4, <2>1
  <2> QED
    BY <1>5, <1>7, <2>1, <2>2, LockKept, RowsExist DEF Due
<1>9. ASSUME NEW q \in Procs, NEW j \in Jobs, tx'[q].bill[j] # NoCopy
      PROVE  lock'[<<"job", j>>] = q /\ Copied(j, tx[q])'
  <2>1. q # p
    BY <1>6, <1>9 DEF NoTx
  <2>2. lock[<<"job", j>>] = q /\ Copied(j, tx[q])
    BY <1>7, <1>9, <2>1 DEF LockInv
  <2>3. bill'[j] = bill[j]
    BY <1>2, <2>1, <2>2 DEF LockInv
  <2> QED
    BY <1>5, <1>7, <2>1, <2>2, <2>3, LockKept, RowsExist DEF Copied
<1>10. BillStep
  <2>1. ASSUME NEW j \in Jobs, bill'[j] # bill[j] PROVE Copied(j, t) /\ bill'[j] = t.bill[j]
    BY <1>2, <2>1 DEF LockInv
  <2> HIDE DEF t
  <2> QED
    BY <1>1, <2>1 DEF Copied, BillStep
<1> QED
  BY <1>3, <1>4, <1>8, <1>9, <1>10 DEF LockInv, IssueStep

LEMMA NextLock ==
  ASSUME TypeOK, LockInv, Next
  PROVE  LockInv' /\ BillStep /\ IssueStep
<1>1. ASSUME UNCHANGED <<bill, lastIssued>> PROVE BillStep /\ IssueStep
  BY <1>1 DEF BillStep, IssueStep
<1>2. ASSUME UNCHANGED <<tx, lock, bill, lastIssued>> PROVE LockInv'
  BY <1>2 DEF LockInv, Copied, Due
<1>3. ASSUME NEW p \in Procs, Transaction(p) PROVE LockInv' /\ BillStep /\ IssueStep
  <2>1. CASE LoopIssue(p) \/ LockAccount(p) \/ LoopTick(p)
    BY <1>1, <2>1, LoopLock DEF LoopIssue, LockAccount, LoopTick, moneyVars
  <2>2. CASE LockJob(p)
    BY <1>1, <2>2, LockJobLock DEF LockJob, moneyVars
  <2>3. CASE LockMember(p) \/ LockMembers(p) \/ LockUser(p)
    <3>1. /\ Waiting(p) /\ CanLock(p) /\ Take(p) /\ tx[p].pc # "account"
          /\ UNCHANGED <<bill, lastIssued>>
      BY <2>3 DEF LockMember, LockMembers, LockUser, Waiting, moneyVars
    <3>2. \E n : /\ tx' = [tx EXCEPT ![p] = n] /\ n.bill = tx[p].bill
                 /\ n.kind = tx[p].kind /\ n.at = tx[p].at
      BY <2>3, LockTxShaped, LockUserShaped
    <3> QED
      BY <1>1, <3>1, <3>2, GoOnLock
  <2>4. CASE Commit(p)
    BY <2>4, CommitLock
  <2>5. CASE DeadlockVictim(p)
    BY <1>1, <2>5, FailLock DEF DeadlockVictim, moneyVars
  <2> QED
    BY <1>3, <2>1, <2>2, <2>3, <2>4, <2>5 DEF Transaction
<1>4. ASSUME NEW p \in Procs, NEW j, NEW at, tx' = [tx EXCEPT ![p] = Final(j, at)], UNCHANGED <<lock, bill, lastIssued>>
      PROVE  LockInv'
  <2>1. Final(j, at).bill = NoTx.bill /\ Final(j, at).kind # "issue"
    BY DEF Final, NoTx
  <2> QED
    BY <1>4, <2>1, EmptyLock DEF LockMove
<1>5. ASSUME NEW j \in Jobs, Begin(j) \/ End(j) \/ Restart(j) \/ BeginAgain(j) \/ Vanish(j) \/ ReconcileRead(j)
      PROVE  LockInv' /\ BillStep /\ IssueStep
  BY <1>1, <1>2, <1>5 DEF Begin, End, Restart, BeginAgain, Vanish, ReconcileRead, ClusterStep, moneyVars
<1>6. CASE ReconcileWrite
  <2>1. UNCHANGED <<lock, bill, lastIssued>> /\ (tx' = tx \/ \E at : tx' = [tx EXCEPT ![Reconciler] = Final(rc.job, at)])
    BY <1>6 DEF ReconcileWrite, moneyVars
  <2>2. Reconciler \in Procs
    BY DEF Procs
  <2> QED
    BY <1>1, <1>2, <1>4, <2>1, <2>2
<1>7. ASSUME NEW j \in Deletable, DeletePlan(j) \/ DeleteApply(j) \/ DeleteCluster(j)
      PROVE  LockInv' /\ BillStep /\ IssueStep
  <2>1. UNCHANGED <<lock, bill, lastIssued>> /\ (tx' = tx \/ \E at : tx' = [tx EXCEPT ![j] = Final(j, at)])
    BY <1>7 DEF DeletePlan, DeleteApply, DeleteCluster, moneyVars
  <2>2. j \in Procs
    BY DEF Procs
  <2> QED
    BY <1>1, <1>2, <1>4, <2>1, <2>2
<1>8. ASSUME NEW u \in Users, NEW d \in Deltas, Adjust(u, d) PROVE LockInv' /\ BillStep /\ IssueStep
  BY <1>1, <1>2, <1>8 DEF Adjust
<1>9. CASE Pass
  BY <1>1, <1>2, <1>9 DEF Pass, moneyVars
<1>10. CASE Crash
  <2>1. \A p \in Procs : tx'[p] = NoTx
    BY <1>10 DEF Crash
  <2>2. NoTx.kind # "issue" /\ \A j \in Jobs : NoTx.bill[j] = NoCopy
    BY DEF NoTx
  <2>3. UNCHANGED <<bill, lastIssued>>
    BY <1>10 DEF Crash, moneyVars
  <2> QED
    BY <1>1, <2>1, <2>2, <2>3 DEF LockInv
<1> QED
  BY <1>3, <1>5, <1>6, <1>7, <1>8, <1>9, <1>10 DEF Next

\* Whatever a transaction works on is still what it read when it commits.
THEOREM LocksSound == Spec => []LockInv
<1>1. Init => LockInv
  BY DEF Init, LockInv, NoTx
<1>2. TypeOK /\ LockInv /\ [Next]_vars => LockInv'
  <2>1. LockInv /\ UNCHANGED vars => LockInv'
    BY DEF LockInv, Copied, Due, vars, moneyVars
  <2> QED
    BY <2>1, NextLock
<1> QED
  BY <1>1, <1>2, BillingTypeCorrect, PTL DEF Spec

\* A settlement never goes back in time, in whatever order settlements commit.
THEOREM SettlementsAdvance == Spec => SettledAdvances
<1>1. TypeOK /\ LockInv /\ [Next]_vars => [\A j \in Jobs : bill'[j].settled >= bill[j].settled]_vars
  <2> SUFFICES ASSUME TypeOK, LockInv, Next, NEW j \in Jobs PROVE bill'[j].settled >= bill[j].settled
    OBVIOUS
  <2>1. bill[j] \in Bill /\ bill[j].settled \in Int
    BY BillingAssumption DEF TypeOK, Bill, Never
  <2>2. CASE bill'[j] = bill[j]
    BY <2>1, <2>2
  <2>3. CASE bill'[j] # bill[j]
    <3>1. PICK start \in 0 .. MaxTime, at \in Clock :
            Billable(bill[j], start, at) /\ bill'[j] = Settled(j, bill[j], start, at)
      BY <2>3, NextLock DEF BillStep
    <3>2. bill'[j].settled = at /\ bill[j].settled < at /\ at \in 1 .. MaxTime
      BY <2>1, <3>1, SettledType, DueWindow
    <3> QED
      BY <2>1, <3>2, BillingAssumption
  <2> QED
    BY <2>2, <2>3
<1> QED
  BY <1>1, BillingTypeCorrect, LocksSound, PTL DEF Spec, SettledAdvances

\* However many replicas run the base loop, a period is issued at most once.
THEOREM OneIssuePerPeriod == Spec => IssuedOncePerPeriod
<1>1. TypeOK /\ LockInv /\ [Next]_vars =>
        [lastIssued' # lastIssued /\ lastIssued # Never => lastIssued' >= lastIssued + Period]_vars
  <2> SUFFICES ASSUME TypeOK, TypeOK', LockInv, Next, lastIssued' # lastIssued, lastIssued # Never
               PROVE  lastIssued' >= lastIssued + Period
    <3>1. TypeOK /\ [Next]_vars => TypeOK'
      BY TypeStep
    <3> QED
      BY <3>1
  <2>1. Due(lastIssued')
    BY NextLock DEF IssueStep
  <2>2. lastIssued' - lastIssued >= Period
    BY <2>1 DEF Due
  <2>3. lastIssued \in Int /\ lastIssued' \in Int /\ Period \in Int
    BY BillingAssumption DEF TypeOK, Clock, Never
  <2>4. \A a \in Int, b \in Int, c \in Int : a - b >= c => a >= b + c
    OBVIOUS
  <2> QED
    BY <2>2, <2>3, <2>4
<1> QED
  BY <1>1, BillingTypeCorrect, LocksSound, PTL DEF Spec, IssuedOncePerPeriod

-----------------------------------------------------------------------------
(* What a job has paid.                                                    *)

\* The charged minutes lie before the last settlement, and there is one only
\* after a run has begun.
BillsInv ==
  \A j \in Jobs :
    /\ bill[j].minutes \subseteq 1 .. bill[j].settled
    /\ bill[j].runs = {} => bill[j].settled = Never
    /\ \A start \in 0 .. MaxTime : bill[j].runs = {start} => start < bill[j].settled

LEMMA BillsStep ==
  ASSUME NEW j \in Jobs, NEW b \in Bill, NEW start \in 0 .. MaxTime, NEW at \in Clock,
         Billable(b, start, at), b.minutes \subseteq 1 .. b.settled,
         \A s \in 0 .. MaxTime : b.runs = {s} => s < b.settled,
         NEW c, c = Settled(j, b, start, at)
  PROVE  /\ c.minutes \subseteq 1 .. c.settled /\ c.runs # {}
         /\ \A s \in 0 .. MaxTime : c.runs = {s} => s < c.settled
<1> DEFINE due == DueMinutes(b, start, at)
<1>1. /\ due \in Nat /\ at - due >= start /\ at \in 1 .. MaxTime /\ b.settled < at /\ start < at
  BY DueWindow
<1>2. c.minutes = b.minutes \cup (at - due + 1 .. at) /\ c.settled = at /\ c.runs = b.runs \cup {start}
  BY DEF Settled
<1>3. b.settled \in Int /\ MaxTime \in Int
  BY BillingAssumption DEF Bill, Never
<1>4. at - due + 1 .. at \subseteq 1 .. at /\ 1 .. b.settled \subseteq 1 .. at
  BY <1>1, <1>3
<1> HIDE DEF due
<1> QED
  BY <1>1, <1>2, <1>4

\* The new minutes are none of the old ones, so the price of all of them is paid.
LEMMA ChargeStep ==
  ASSUME NEW j \in Jobs, NEW b \in Bill, NEW start \in 0 .. MaxTime, NEW at \in Clock,
         Billable(b, start, at), b.minutes \subseteq 1 .. b.settled,
         b.points = Rate[j] * Cardinality(b.minutes),
         NEW c, c = Settled(j, b, start, at)
  PROVE  c.points = Rate[j] * Cardinality(c.minutes)
<1> DEFINE due == DueMinutes(b, start, at)
           new == at - due + 1 .. at
<1>1. due \in Nat /\ at - due >= b.settled /\ at \in 1 .. MaxTime
  BY DueWindow
<1>2. c.minutes = b.minutes \cup new /\ c.points = b.points + due * Rate[j]
  BY DEF Settled
<1>3. b.settled \in Int /\ MaxTime \in Int /\ Rate[j] \in Nat
  BY BillingAssumption DEF Bill, Never
<1>4. IsFiniteSet(b.minutes) /\ Cardinality(b.minutes) \in Nat
  <2>0. 1 \in Int
    OBVIOUS
  <2>1. IsFiniteSet(1 .. b.settled)
    BY <1>3, <2>0, FS_Interval
  <2> QED
    BY <2>1, FS_Subset, FS_CardinalityType
<1>5. IsFiniteSet(new) /\ Cardinality(new) = due
  <2>1. at - due + 1 \in Int /\ at \in Int
    BY <1>1, <1>3
  <2>2. IsFiniteSet(new) /\ Cardinality(new) = IF at - due + 1 > at THEN 0 ELSE at - (at - due + 1) + 1
    BY <2>1, FS_Interval
  <2> QED
    BY <1>1, <1>3, <2>2
<1>6. b.minutes \cap new = {}
  <2>1. (1 .. b.settled) \cap new = {}
    BY <1>1, <1>3
  <2> QED
    BY <2>1
<1>7. Cardinality(b.minutes \cup new) = Cardinality(b.minutes) + due
  <2>1. Cardinality(b.minutes \cup new) = Cardinality(b.minutes) + Cardinality(new) - Cardinality(b.minutes \cap new)
    BY <1>4, <1>5, FS_Union
  <2>2. Cardinality(b.minutes \cap new) = 0
    BY <1>6, FS_EmptySet
  <2> HIDE DEF due, new
  <2> QED
    BY <1>1, <1>4, <1>5, <2>1, <2>2
<1> HIDE DEF due, new
<1>8. \A n \in Nat, m \in Nat, r \in Nat : r * (n + m) = r * n + m * r
  OBVIOUS
<1>9. c.points = Rate[j] * (Cardinality(b.minutes) + due)
  BY <1>1, <1>2, <1>3, <1>4, <1>8
<1> QED
  BY <1>2, <1>7, <1>9

\* A window ends the free minutes of a run at the same minute as its first one did.
LEMMA FreeStep ==
  ASSUME NEW j \in Jobs, NEW b \in Bill, NEW start \in 0 .. MaxTime, NEW at \in Clock,
         Billable(b, start, at), b.minutes \subseteq 1 .. b.settled,
         b.runs = {} => b.settled = Never,
         \A s \in 0 .. MaxTime : b.runs = {s} =>
           s < b.settled /\ b.minutes = s + FreeMinutes + 1 .. b.settled,
         NEW c, c = Settled(j, b, start, at),
         NEW s \in 0 .. MaxTime, c.runs = {s}
  PROVE  c.minutes = s + FreeMinutes + 1 .. c.settled
<1> DEFINE due == DueMinutes(b, start, at)
           from == IF b.settled > start THEN b.settled ELSE start
           left == FreeMinutes - Least(FreeMinutes, from - start)
<1>1. s = start /\ (b.runs = {} \/ b.runs = {start})
  <2>1. c.runs = b.runs \cup {start}
    BY DEF Settled
  <2> QED
    BY <2>1
<1>2. c.minutes = b.minutes \cup (at - due + 1 .. at) /\ c.settled = at
  BY DEF Settled
<1>3. /\ b.settled \in Int /\ MaxTime \in Int /\ FreeMinutes \in Nat /\ at \in Int /\ start \in Nat
      /\ b.settled < at /\ start < at
  BY DueWindow, BillingAssumption DEF Bill, Never
<1>4. due = (at - from) - Least(left, at - from)
  BY DEF DueMinutes
<1>5. CASE b.runs = {}
  <2>1. b.settled = -1 /\ b.minutes = {}
    <3>1. b.settled = -1 /\ b.minutes \subseteq 1 .. -1
      BY <1>5 DEF Never
    <3> QED
      BY <3>1
  <2>2. from = start /\ left = FreeMinutes
    BY <1>3, <2>1 DEF Least
  <2>3. at - due + 1 .. at = start + FreeMinutes + 1 .. at
    <3>1. due = (at - start) - Least(FreeMinutes, at - start)
      BY <1>4, <2>2
    <3> HIDE DEF due
    <3> QED
      BY <1>3, <3>1 DEF Least
  <2> QED
    BY <1>1, <1>2, <2>1, <2>3
<1>6. CASE b.runs = {start}
  <2>1. start < b.settled /\ b.minutes = start + FreeMinutes + 1 .. b.settled
    BY <1>6
  <2>2. from = b.settled /\ left = FreeMinutes - Least(FreeMinutes, b.settled - start)
    BY <1>3, <2>1
  <2>3. due = (at - b.settled) - Least(FreeMinutes - Least(FreeMinutes, b.settled - start), at - b.settled)
    BY <1>4, <2>2
  <2> HIDE DEF due
  <2>4. (start + FreeMinutes + 1 .. b.settled) \cup (at - due + 1 .. at) = start + FreeMinutes + 1 .. at
    <3>1. CASE b.settled - start >= FreeMinutes
      <4>1. due = at - b.settled
        BY <1>3, <2>1, <2>3, <3>1 DEF Least
      <4> QED
        BY <1>3, <2>1, <3>1, <4>1
    <3>2. CASE b.settled - start < FreeMinutes
      <4>1. due = IF at - start <= FreeMinutes THEN 0 ELSE at - start - FreeMinutes
        BY <1>3, <2>1, <2>3, <3>2 DEF Least
      <4> QED
        BY <1>3, <2>1, <3>2, <4>1
    <3> QED
      BY <1>3, <3>1, <3>2
  <2> QED
    BY <1>1, <1>2, <2>1, <2>4
<1> QED
  BY <1>1, <1>5, <1>6

LEMMA BillsSound == Spec => [](BillsInv /\ ChargedOnce /\ FreeMinutesOnce)
<1>1. Init => BillsInv /\ ChargedOnce /\ FreeMinutesOnce
  <2> SUFFICES ASSUME Init, NEW j \in Jobs
               PROVE  /\ bill[j].minutes = {} /\ bill[j].runs = {} /\ bill[j].settled = Never
                      /\ bill[j].points = Rate[j] * Cardinality(bill[j].minutes)
    BY DEF BillsInv, ChargedOnce, FreeMinutesOnce
  <2>1. bill[j] = [settled |-> Never, points |-> 0, minutes |-> {}, runs |-> {}]
    BY DEF Init
  <2>2. Rate[j] * Cardinality({}) = 0
    <3>1. \A r \in Nat : r * 0 = 0
      OBVIOUS
    <3> QED
      BY <3>1, BillingAssumption, FS_EmptySet
  <2> QED
    BY <2>1, <2>2
<1>2. TypeOK /\ LockInv /\ BillsInv /\ ChargedOnce /\ FreeMinutesOnce /\ [Next]_vars
        => (BillsInv /\ ChargedOnce /\ FreeMinutesOnce)'
  <2> SUFFICES ASSUME TypeOK, LockInv, BillsInv, ChargedOnce, FreeMinutesOnce, [Next]_vars, NEW j \in Jobs
               PROVE  /\ bill'[j].minutes \subseteq 1 .. bill'[j].settled
                      /\ bill'[j].runs = {} => bill'[j].settled = Never
                      /\ \A s \in 0 .. MaxTime : bill'[j].runs = {s} => s < bill'[j].settled
                      /\ bill'[j].points = Rate[j] * Cardinality(bill'[j].minutes)
                      /\ \A s \in 0 .. MaxTime : bill'[j].runs = {s}
                           => bill'[j].minutes = s + FreeMinutes + 1 .. bill'[j].settled
    BY DEF BillsInv, ChargedOnce, FreeMinutesOnce
  <2> DEFINE b == bill[j]
  <2>1. /\ b \in Bill /\ b.minutes \subseteq 1 .. b.settled /\ (b.runs = {} => b.settled = Never)
        /\ b.points = Rate[j] * Cardinality(b.minutes)
        /\ \A s \in 0 .. MaxTime : b.runs = {s} => s < b.settled /\ b.minutes = s + FreeMinutes + 1 .. b.settled
    BY DEF TypeOK, BillsInv, ChargedOnce, FreeMinutesOnce
  <2>2. bill'[j] = bill[j] \/ \E start \in 0 .. MaxTime, at \in Clock :
          Billable(bill[j], start, at) /\ bill'[j] = Settled(j, bill[j], start, at)
    BY NextLock DEF BillStep, vars, moneyVars
  <2>3. CASE bill'[j] = bill[j]
    BY <2>1, <2>3
  <2>4. ASSUME NEW start \in 0 .. MaxTime, NEW at \in Clock, Billable(b, start, at),
               bill'[j] = Settled(j, b, start, at)
        PROVE  /\ bill'[j].minutes \subseteq 1 .. bill'[j].settled
               /\ bill'[j].runs # {}
               /\ \A s \in 0 .. MaxTime : bill'[j].runs = {s} => s < bill'[j].settled
               /\ bill'[j].points = Rate[j] * Cardinality(bill'[j].minutes)
               /\ \A s \in 0 .. MaxTime : bill'[j].runs = {s}
                    => bill'[j].minutes = s + FreeMinutes + 1 .. bill'[j].settled
    <3> HIDE DEF b
    <3>1. /\ bill'[j].minutes \subseteq 1 .. bill'[j].settled /\ bill'[j].runs # {}
          /\ \A s \in 0 .. MaxTime : bill'[j].runs = {s} => s < bill'[j].settled
      BY <2>1, <2>4, BillsStep
    <3>2. bill'[j].points = Rate[j] * Cardinality(bill'[j].minutes)
      BY <2>1, <2>4, ChargeStep
    <3>3. \A s \in 0 .. MaxTime : bill'[j].runs = {s}
            => bill'[j].minutes = s + FreeMinutes + 1 .. bill'[j].settled
      BY <2>1, <2>4, FreeStep
    <3> QED
      BY <3>1, <3>2, <3>3
  <2> QED
    BY <2>2, <2>3, <2>4
<1> QED
  BY <1>1, <1>2, BillingTypeCorrect, LocksSound, PTL DEF Spec

\* No minute of a job is charged twice, however its settlements meet.
THEOREM EachMinuteOnce == Spec => []ChargedOnce
  BY BillsSound, PTL

\* A run has its free minutes once, and pays for every minute after them that is settled.
THEOREM FreeMinutesGivenOnce == Spec => []FreeMinutesOnce
  BY BillsSound, PTL

-----------------------------------------------------------------------------
(* What a transaction has moved and not yet committed.                     *)

\* The balances and charges as a transaction with copies t sees them.
FreeIn(t, u, f)  == IF t.free[u] = NoCopy THEN f[u] ELSE t.free[u]
ExtraIn(t, u, e) == IF t.extra[u] = NoCopy THEN e[u] ELSE t.extra[u]
Charged(t, b)    == [j \in Jobs |-> IF t.bill[j] = NoCopy THEN 0 ELSE t.bill[j].points - b[j].points]

\* By how much the copies of t change what a user has and was billed, and by how
\* much they should: a job that is charged has still to be paid.
Moved(t, u, f, e, b) ==
  (FreeIn(t, u, f) - f[u]) + (ExtraIn(t, u, e) - e[u]) + Total(Charged(t, b), JobsOf(u))
Owed(t, u) == IF t.pc \in {"member", "user"} /\ t.who = u THEN t.cost ELSE 0

\* Of free and extra points f and e a payment leaves f2 and e2; it does not matter
\* in how many parts it was made.
Paid(f, e, f2, e2) == f2 + e2 <= f + e /\ e2 = NewExtra(f, e, (f + e) - (f2 + e2))

LEMMA PaidNothing == ASSUME NEW f \in Int, NEW e \in Nat PROVE Paid(f, e, f, e)
  BY DEF Paid, NewExtra, FromExtra, Least

LEMMA PaidMore ==
  ASSUME NEW f \in Int, NEW e \in Nat, NEW f2 \in Int, NEW e2 \in Nat, Paid(f, e, f2, e2),
         NEW cost \in Nat
  PROVE  Paid(f, e, NewFree(f2, e2, cost), NewExtra(f2, e2, cost))
  BY DEF Paid, NewFree, NewExtra, FromExtra, Least

\* A debt leaves no extra points.
LEMMA PaidDebt ==
  ASSUME NEW f \in Int, NEW e \in Nat, NEW f2 \in Int, NEW e2 \in Nat, Paid(f, e, f2, e2),
         f2 < f, f2 < 0
  PROVE  e2 = 0
  BY DEF Paid, NewExtra, FromExtra, Least

\* Copies are made under locks, of jobs not yet to come; a user's balance is read
\* after the membership, and both are what payments leave of what is committed.
Work(p, t, lk, f, e) ==
  /\ \A j \in Jobs : t.bill[j] # NoCopy => lk[<<"job", j>>] = p /\ j \notin t.jobs
  /\ \A u \in Users :
       /\ t.free[u] # NoCopy => lk[<<"member", u>>] = p
       /\ t.extra[u] # NoCopy => lk[<<"user", u>>] = p /\ t.free[u] # NoCopy
       /\ t.extra[u] = NoCopy => t.free[u] \in {NoCopy, f[u]}
       /\ Paid(f[u], e[u], FreeIn(t, u, f), ExtraIn(t, u, e))

\* A transaction is about to lock a job it has not copied, has none before it lists
\* the jobs, and an issue commits with all memberships locked.
Place(p, t, lk) ==
  /\ t.pc = "account" => \A j \in Jobs : t.bill[j] = NoCopy
  /\ t.pc = "job" => t.who = OwnerOf[t.cur] /\ t.cur \notin t.jobs /\ t.bill[t.cur] = NoCopy
  /\ t.kind = "issue" /\ t.pc = "members" =>
       \A u \in Users \ (t.users \cup {t.who}) : lk[<<"member", u>>] = p
  /\ t.kind = "issue" /\ t.pc = "commit" => \A u \in Users : lk[<<"member", u>>] = p

Sound(p, t, lk, f, e, b) ==
  Work(p, t, lk, f, e) /\ Place(p, t, lk) /\ \A u \in Users : Moved(t, u, f, e, b) = Owed(t, u)

CopyInv == \A p \in Procs : Sound(p, tx[p], lock, free, extra, bill)

LEMMA MoneyRows ==
  ASSUME NEW u \in Users PROVE <<"member", u>> \in Rows /\ <<"user", u>> \in Rows
  BY DEF Rows

LEMMA PointsType ==
  ASSUME NEW t \in TxType, NEW b \in [Jobs -> Bill], NEW j \in Jobs
  PROVE  b[j].points \in Int /\ Charged(t, b)[j] \in Int
<1>1. b[j] \in Bill /\ t.bill[j] \in {NoCopy} \cup Bill
  BY DEF TxType
<1>2. CASE t.bill[j] = NoCopy
  BY <1>1, <1>2 DEF Charged, Bill
<1>3. CASE t.bill[j] # NoCopy
  BY <1>1, <1>3 DEF Charged, Bill
<1> QED
  BY <1>2, <1>3

LEMMA JobsFinite ==
  ASSUME IsFiniteSet(Jobs), NEW u
  PROVE  IsFiniteSet(JobsOf(u)) /\ JobsOf(u) \subseteq Jobs
  BY FS_Subset DEF JobsOf

LEMMA BalanceType ==
  ASSUME NEW t \in TxType, NEW u \in Users, NEW f \in [Users -> Int], NEW e \in [Users -> Nat]
  PROVE  /\ f[u] \in Int /\ FreeIn(t, u, f) \in Int
         /\ e[u] \in Nat /\ ExtraIn(t, u, e) \in Nat
  BY DEF TxType, FreeIn, ExtraIn

LEMMA MovedType ==
  ASSUME IsFiniteSet(Jobs), NEW t \in TxType, NEW b \in [Jobs -> Bill], NEW u \in Users
  PROVE  Total(Charged(t, b), JobsOf(u)) \in Int
<1>1. \A j \in JobsOf(u) : Charged(t, b)[j] \in Int
  BY JobsFinite, PointsType
<1> QED
  BY <1>1, JobsFinite, TotalIsInt

\* What others do to rows a transaction has not copied does not concern it.
LEMMA KeptSound ==
  ASSUME NEW p \in Procs, NEW t \in TxType, NEW lk, NEW lk2,
         NEW f \in [Users -> Int], NEW f2 \in [Users -> Int],
         NEW e \in [Users -> Nat], NEW e2 \in [Users -> Nat],
         NEW b \in [Jobs -> Bill], NEW b2 \in [Jobs -> Bill],
         Sound(p, t, lk, f, e, b),
         \A r \in Rows : lk[r] = p => lk2[r] = p,
         \A u \in Users : t.free[u] # NoCopy => f2[u] = f[u],
         \A u \in Users : t.extra[u] # NoCopy => e2[u] = e[u],
         \A j \in Jobs : t.bill[j] # NoCopy => b2[j] = b[j],
         Shaped(t)
  PROVE  Sound(p, t, lk2, f2, e2, b2)
<1>1. Work(p, t, lk2, f2, e2)
  <2>1. ASSUME NEW j \in Jobs, t.bill[j] # NoCopy PROVE lk2[<<"job", j>>] = p /\ j \notin t.jobs
    BY <2>1, RowsExist DEF Sound, Work
  <2>2. ASSUME NEW u \in Users
        PROVE  /\ t.free[u] # NoCopy => lk2[<<"member", u>>] = p
               /\ t.extra[u] # NoCopy => lk2[<<"user", u>>] = p /\ t.free[u] # NoCopy
               /\ t.extra[u] = NoCopy => t.free[u] \in {NoCopy, f2[u]}
    <3>1. /\ t.free[u] # NoCopy => lk[<<"member", u>>] = p
          /\ t.extra[u] # NoCopy => lk[<<"user", u>>] = p /\ t.free[u] # NoCopy
          /\ t.extra[u] = NoCopy => t.free[u] \in {NoCopy, f[u]}
      BY DEF Sound, Work
    <3> QED
      BY <3>1, MoneyRows
  <2>3. ASSUME NEW u \in Users PROVE Paid(f2[u], e2[u], FreeIn(t, u, f2), ExtraIn(t, u, e2))
    <3>1. f2[u] \in Int /\ e2[u] \in Nat
      OBVIOUS
    <3>2. CASE t.extra[u] = NoCopy
      <4>1. t.free[u] \in {NoCopy, f2[u]}
        BY <2>2, <3>2
      <4>2. FreeIn(t, u, f2) = f2[u] /\ ExtraIn(t, u, e2) = e2[u]
        BY <3>2, <4>1 DEF FreeIn, ExtraIn
      <4> QED
        BY <3>1, <4>2, PaidNothing
    <3>3. CASE t.extra[u] # NoCopy
      <4>1. t.free[u] # NoCopy
        BY <3>3 DEF Sound, Work
      <4>2. f2[u] = f[u] /\ e2[u] = e[u]
        BY <3>3, <4>1
      <4>3. FreeIn(t, u, f2) = FreeIn(t, u, f) /\ ExtraIn(t, u, e2) = ExtraIn(t, u, e)
        BY <3>3, <4>1 DEF FreeIn, ExtraIn
      <4> QED
        BY <4>2, <4>3 DEF Sound, Work
    <3> QED
      BY <3>2, <3>3
  <2> QED
    BY <2>1, <2>2, <2>3 DEF Work
<1>2. Place(p, t, lk2)
  BY MoneyRows DEF Sound, Place, Shaped
<1>3. ASSUME NEW u \in Users PROVE Moved(t, u, f2, e2, b2) = Owed(t, u)
  <2>1. Charged(t, b2) = Charged(t, b)
    BY DEF Charged
  <2>2. FreeIn(t, u, f2) - f2[u] = FreeIn(t, u, f) - f[u]
    BY DEF FreeIn
  <2>3. ExtraIn(t, u, e2) - e2[u] = ExtraIn(t, u, e) - e[u]
    BY DEF ExtraIn
  <2> QED
    BY <2>1, <2>2, <2>3 DEF Moved, Sound
<1> QED
  BY <1>1, <1>2, <1>3 DEF Sound

\* A transaction that has copied nothing has moved nothing.
LEMMA NothingMoved ==
  ASSUME IsFiniteSet(Jobs), NEW p, NEW t, NEW lk,
         NEW f \in [Users -> Int], NEW e \in [Users -> Nat], NEW b \in [Jobs -> Bill],
         t.bill = NoTx.bill, t.free = NoTx.free, t.extra = NoTx.extra
  PROVE  Work(p, t, lk, f, e) /\ \A u \in Users : Moved(t, u, f, e, b) = 0
<1>1. /\ \A j \in Jobs : t.bill[j] = NoCopy
      /\ \A u \in Users : t.free[u] = NoCopy /\ t.extra[u] = NoCopy
  BY DEF NoTx
<1>2. ASSUME NEW u \in Users PROVE FreeIn(t, u, f) = f[u] /\ ExtraIn(t, u, e) = e[u] /\ f[u] \in Int /\ e[u] \in Nat
  BY <1>1 DEF FreeIn, ExtraIn
<1>3. Work(p, t, lk, f, e)
  BY <1>1, <1>2, PaidNothing DEF Work
<1>4. ASSUME NEW u \in Users PROVE Moved(t, u, f, e, b) = 0
  <2>1. \A j \in JobsOf(u) : Charged(t, b)[j] = 0
    BY <1>1 DEF Charged, JobsOf
  <2>2. Total(Charged(t, b), JobsOf(u)) = 0
    BY <2>1, JobsFinite, TotalOfZeros
  <2> QED
    BY <1>2, <2>2 DEF Moved
<1> QED
  BY <1>3, <1>4

LEMMA SameCopies ==
  ASSUME NEW p, NEW t, NEW n, NEW lk, NEW f, NEW e, NEW b, Work(p, t, lk, f, e),
         n.bill = t.bill, n.free = t.free, n.extra = t.extra, n.jobs \subseteq t.jobs
  PROVE  Work(p, n, lk, f, e) /\ \A u \in Users : Moved(n, u, f, e, b) = Moved(t, u, f, e, b)
  BY DEF Work, FreeIn, ExtraIn, Moved, Charged

\* A transaction that has paid for what it charged goes on to the next job.
LEMMA OnwardsSound ==
  ASSUME NEW p, NEW t \in TxType, NEW n \in Onwards(t), NEW lk, NEW f, NEW e, NEW b,
         Work(p, t, lk, f, e), \A u \in Users : Moved(t, u, f, e, b) = 0
  PROVE  Sound(p, n, lk, f, e, b)
<1>1. CASE t.jobs = {}
  <2>1. n \in AfterJobs(t)
    BY <1>1 DEF Onwards
  <2>2. CASE t.kind = "issue" /\ Users # {}
    <3>1. PICK u \in Users : n = [t EXCEPT !.pc = "members", !.who = u, !.users = Users \ {u}]
      BY <2>1, <2>2 DEF AfterJobs
    <3>2. /\ n.bill = t.bill /\ n.free = t.free /\ n.extra = t.extra /\ n.jobs = t.jobs
          /\ n.pc = "members" /\ n.users \cup {n.who} = Users
      BY <3>1 DEF TxType
    <3> QED
      BY <3>2, SameCopies DEF Sound, Place, Owed
  <2>3. CASE ~(t.kind = "issue" /\ Users # {})
    <3>1. n = [t EXCEPT !.pc = "commit"]
      BY <2>1, <2>3 DEF AfterJobs
    <3>2. /\ n.bill = t.bill /\ n.free = t.free /\ n.extra = t.extra /\ n.jobs = t.jobs
          /\ n.pc = "commit" /\ n.kind = t.kind
      BY <3>1 DEF TxType
    <3> QED
      BY <2>3, <3>2, SameCopies DEF Sound, Place, Owed
  <2> QED
    BY <2>2, <2>3
<1>2. CASE t.jobs # {}
  <2>1. PICK j \in t.jobs : n = [t EXCEPT !.pc = "job", !.cur = j, !.who = OwnerOf[j], !.jobs = @ \ {j}]
    BY <1>2 DEF Onwards
  <2>2. /\ n.bill = t.bill /\ n.free = t.free /\ n.extra = t.extra /\ n.jobs = t.jobs \ {j}
        /\ n.pc = "job" /\ n.cur = j /\ n.who = OwnerOf[j] /\ j \in Jobs
    BY <2>1 DEF TxType
  <2>3. t.bill[j] = NoCopy
    BY <2>2 DEF Work
  <2> QED
    BY <2>2, <2>3, SameCopies DEF Sound, Place, Owed
<1> QED
  BY <1>1, <1>2

\* One transaction moves on, no row is taken from another, and nothing is written.
LEMMA TxStepSound ==
  ASSUME TypeOK, CopyInv, NEW p \in Procs, NEW n, tx' = [tx EXCEPT ![p] = n], LockMove(p),
         UNCHANGED <<free, extra, bill>>, Sound(p, n, lock', free, extra, bill)
  PROVE  CopyInv'
<1>1. tx'[p] = n /\ \A q \in Procs \ {p} : tx'[q] = tx[q]
  BY DEF TypeOK
<1>2. ASSUME NEW q \in Procs \ {p} PROVE Sound(q, tx[q], lock', free, extra, bill)
  <2>1. /\ tx[q] \in TxType /\ Shaped(tx[q]) /\ Sound(q, tx[q], lock, free, extra, bill)
        /\ free \in [Users -> Int] /\ extra \in [Users -> Nat] /\ bill \in [Jobs -> Bill]
    BY TxShaped DEF CopyInv, TypeOK
  <2>2. \A r \in Rows : lock[r] = q => lock'[r] = q
    BY LockKept
  <2> QED
    BY <2>1, <2>2, KeptSound
<1>3. ASSUME NEW q \in Procs PROVE Sound(q, tx'[q], lock', free', extra', bill')
  BY <1>1, <1>2, <1>3
<1> QED
  BY <1>3 DEF CopyInv

LEMMA EmptySound ==
  ASSUME IsFiniteSet(Jobs), NEW p, NEW t, NEW lk,
         NEW f \in [Users -> Int], NEW e \in [Users -> Nat], NEW b \in [Jobs -> Bill],
         t.bill = NoTx.bill, t.free = NoTx.free, t.extra = NoTx.extra,
         t.pc \in {"idle", "account", "tick"}
  PROVE  Sound(p, t, lk, f, e, b)
<1>1. Work(p, t, lk, f, e) /\ \A u \in Users : Moved(t, u, f, e, b) = 0
  BY NothingMoved
<1>2. \A u \in Users : Owed(t, u) = 0
  BY DEF Owed
<1>3. \A j \in Jobs : t.bill[j] = NoCopy
  BY DEF NoTx
<1> QED
  BY <1>1, <1>2, <1>3 DEF Sound, Place

LEMMA FinalSound ==
  ASSUME IsFiniteSet(Jobs), NEW p, NEW j \in Jobs, NEW at, NEW lk,
         NEW f \in [Users -> Int], NEW e \in [Users -> Nat], NEW b \in [Jobs -> Bill]
  PROVE  Sound(p, Final(j, at), lk, f, e, b)
<1> DEFINE t == Final(j, at)
<1>1. /\ t.bill = NoTx.bill /\ t.free = NoTx.free /\ t.extra = NoTx.extra /\ t.jobs = {}
      /\ t.pc = "job" /\ t.kind = "final" /\ t.cur = j /\ t.who = OwnerOf[j]
  BY DEF Final, NoTx
<1> HIDE DEF t
<1>2. Work(p, t, lk, f, e) /\ \A u \in Users : Moved(t, u, f, e, b) = 0
  BY <1>1, NothingMoved
<1>3. t.bill[j] = NoCopy
  BY <1>1 DEF NoTx
<1>4. Sound(p, t, lk, f, e, b)
  BY <1>1, <1>2, <1>3 DEF Sound, Place, Owed
<1> QED
  BY <1>4 DEF t

\* A transaction that waits for a row and gets it keeps what it has.
LEMMA TakeSound ==
  ASSUME TypeOK, CopyInv, NEW p \in Procs, Waiting(p), CanLock(p), Take(p)
  PROVE  /\ Sound(p, tx[p], lock', free, extra, bill) /\ LockMove(p)
         /\ lock'[Wanted(p)] = p /\ \A r \in Rows : lock[r] = p => lock'[r] = p
<1>1. LockMove(p)
  BY DEF LockMove
<1>2. lock'[Wanted(p)] = p /\ \A r \in Rows : lock[r] = p => lock'[r] = p
  BY WantedRow DEF TypeOK, Take
<1>3. /\ tx[p] \in TxType /\ Shaped(tx[p]) /\ Sound(p, tx[p], lock, free, extra, bill)
      /\ free \in [Users -> Int] /\ extra \in [Users -> Nat] /\ bill \in [Jobs -> Bill]
  BY TxShaped DEF CopyInv, TypeOK
<1>4. Sound(p, tx[p], lock', free, extra, bill)
  BY <1>2, <1>3, KeptSound
<1> QED
  BY <1>1, <1>2, <1>4

LEMMA LoopSound ==
  ASSUME IsFiniteSet(Jobs), TypeOK, CopyInv, NEW p \in Procs, LoopIssue(p) \/ LockAccount(p) \/ LoopTick(p)
  PROVE  CopyInv'
<1>0. /\ UNCHANGED <<free, extra, bill>> /\ tx[p] \in TxType /\ now \in Clock
      /\ free \in [Users -> Int] /\ extra \in [Users -> Nat] /\ bill \in [Jobs -> Bill]
  BY DEF LoopIssue, LockAccount, LoopTick, moneyVars, TypeOK, Clock
<1>1. CASE LoopIssue(p)
  <2> DEFINE n == [NoTx EXCEPT !.pc = "account", !.kind = "issue", !.at = now]
  <2>1. n.bill = NoTx.bill /\ n.free = NoTx.free /\ n.extra = NoTx.extra /\ n.pc = "account"
    BY DEF NoTx
  <2>2. tx' = [tx EXCEPT ![p] = n] /\ LockMove(p)
    BY <1>1 DEF LoopIssue, LockMove
  <2> HIDE DEF n
  <2>3. Sound(p, n, lock', free, extra, bill)
    BY <1>0, <2>1, EmptySound
  <2> QED
    BY <1>0, <2>2, <2>3, TxStepSound
<1>2. CASE LockAccount(p) /\ Due(tx[p].at)
  <2> DEFINE s == [tx[p] EXCEPT !.jobs = {j \in Jobs : Running(j)}]
  <2>1. PICK n \in Onwards(s) : tx' = [tx EXCEPT ![p] = n]
    BY <1>2 DEF LockAccount, Listed
  <2>2. Waiting(p) /\ CanLock(p) /\ Take(p) /\ tx[p].pc = "account"
    BY <1>2 DEF LockAccount, Waiting
  <2>3. Sound(p, tx[p], lock', free, extra, bill) /\ LockMove(p)
    BY <2>2, TakeSound
  <2>4. s \in TxType /\ s.bill = tx[p].bill /\ s.free = tx[p].free /\ s.extra = tx[p].extra
    BY <1>0 DEF TxType
  <2> HIDE DEF s
  <2>5. \A j \in Jobs : tx[p].bill[j] = NoCopy
    BY <2>2, <2>3 DEF Sound, Place
  <2>6. Work(p, s, lock', free, extra)
    BY <2>3, <2>4, <2>5 DEF Sound, Work, FreeIn, ExtraIn
  <2>7. \A u \in Users : Moved(s, u, free, extra, bill) = 0
    BY <2>2, <2>3, <2>4 DEF Sound, Moved, FreeIn, ExtraIn, Charged, Owed
  <2>8. Sound(p, n, lock', free, extra, bill)
    BY <2>4, <2>6, <2>7, OnwardsSound
  <2> QED
    BY <1>0, <2>1, <2>3, <2>8, TxStepSound
<1>3. CASE LockAccount(p) /\ ~Due(tx[p].at)
  <2> DEFINE n == [NoTx EXCEPT !.pc = "tick"]
  <2>1. tx' = [tx EXCEPT ![p] = n] /\ LockMove(p)
    BY <1>3 DEF LockAccount, LockMove
  <2>2. n.bill = NoTx.bill /\ n.free = NoTx.free /\ n.extra = NoTx.extra /\ n.pc = "tick"
    BY DEF NoTx
  <2> HIDE DEF n
  <2>3. Sound(p, n, lock', free, extra, bill)
    BY <1>0, <2>2, EmptySound
  <2> QED
    BY <1>0, <2>1, <2>3, TxStepSound
<1>4. CASE LoopTick(p)
  <2> DEFINE s == [[NoTx EXCEPT !.kind = "tick", !.at = now] EXCEPT !.jobs = {j \in Jobs : Running(j)}]
  <2>1. (tx' = [tx EXCEPT ![p] = NoTx] \/ \E n \in Onwards(s) : tx' = [tx EXCEPT ![p] = n]) /\ LockMove(p)
    BY <1>4 DEF LoopTick, Listed, LockMove
  <2>2. s \in TxType /\ s.bill = NoTx.bill /\ s.free = NoTx.free /\ s.extra = NoTx.extra
    BY <1>0 DEF TxType, NoTx
  <2> HIDE DEF s
  <2>3. Work(p, s, lock', free, extra) /\ \A u \in Users : Moved(s, u, free, extra, bill) = 0
    BY <1>0, <2>2, NothingMoved
  <2>4. \A n \in Onwards(s) : Sound(p, n, lock', free, extra, bill)
    BY <2>2, <2>3, OnwardsSound
  <2>5. Sound(p, NoTx, lock', free, extra, bill)
    <3>1. NoTx.pc = "idle"
      BY DEF NoTx
    <3> QED
      BY <1>0, <3>1, EmptySound
  <2> QED
    BY <1>0, <2>1, <2>4, <2>5, TxStepSound
<1> QED
  BY <1>1, <1>2, <1>3, <1>4

LEMMA FailSound ==
  ASSUME IsFiniteSet(Jobs), TypeOK, CopyInv, NEW p \in Procs, Fail(p), UNCHANGED moneyVars
  PROVE  CopyInv'
<1>1. NoTx.pc = "idle" /\ tx' = [tx EXCEPT ![p] = NoTx] /\ LockMove(p) /\ UNCHANGED <<free, extra, bill>>
  BY DEF NoTx, Fail, LockMove, moneyVars
<1>2. free \in [Users -> Int] /\ extra \in [Users -> Nat] /\ bill \in [Jobs -> Bill]
  BY DEF TypeOK
<1>3. Sound(p, NoTx, lock', free, extra, bill)
  BY <1>1, <1>2, EmptySound
<1> QED
  BY <1>1, <1>3, TxStepSound

\* A job that is charged adds its price to what its owner still has to pay.
LEMMA ChargeMoves ==
  ASSUME IsFiniteSet(Jobs), NEW t \in TxType, NEW s \in TxType, NEW j \in Jobs,
         NEW f \in [Users -> Int], NEW e \in [Users -> Nat], NEW b \in [Jobs -> Bill],
         NEW c \in Bill, t.bill[j] = NoCopy, s.bill = [t.bill EXCEPT ![j] = c],
         s.free = t.free, s.extra = t.extra, NEW u \in Users
  PROVE  Moved(s, u, f, e, b) = Moved(t, u, f, e, b) + (IF u = OwnerOf[j] THEN c.points - b[j].points ELSE 0)
<1>0. c # NoCopy /\ c.points \in Int /\ b[j].points \in Int
  BY BillingAssumption DEF Bill, Never
<1>1. \A i \in Jobs : i # j => Charged(s, b)[i] = Charged(t, b)[i]
  BY DEF TxType, Charged
<1>2. Charged(s, b)[j] = c.points - b[j].points /\ Charged(t, b)[j] = 0
  BY <1>0 DEF TxType, Charged
<1>3. IsFiniteSet(JobsOf(u)) /\ \A i \in JobsOf(u) : Charged(s, b)[i] \in Int /\ Charged(t, b)[i] \in Int
  BY JobsFinite, PointsType
<1>4. Total(Charged(s, b), JobsOf(u))
        = Total(Charged(t, b), JobsOf(u)) + (IF u = OwnerOf[j] THEN c.points - b[j].points ELSE 0)
  <2>1. CASE u # OwnerOf[j]
    <3>1. \A i \in JobsOf(u) : Charged(t, b)[i] \in Int /\ Charged(s, b)[i] = Charged(t, b)[i]
      BY <1>1, <1>3, <2>1 DEF JobsOf
    <3>2. Total(Charged(s, b), JobsOf(u)) = Total(Charged(t, b), JobsOf(u))
      BY <1>3, <3>1, TotalAgrees
    <3> QED
      BY <2>1, <3>2, MovedType
  <2>2. CASE u = OwnerOf[j]
    <3> DEFINE R == JobsOf(u) \ {j}
    <3>1. j \in JobsOf(u) /\ R \subseteq Jobs /\ IsFiniteSet(R)
      BY <1>3, <2>2, FS_Subset DEF JobsOf
    <3>2. Total(Charged(s, b), JobsOf(u)) = Charged(s, b)[j] + Total(Charged(s, b), R)
      BY <1>3, <3>1, TotalWithout
    <3>3. Total(Charged(t, b), JobsOf(u)) = Charged(t, b)[j] + Total(Charged(t, b), R)
      BY <1>3, <3>1, TotalWithout
    <3>4. \A i \in R : Charged(t, b)[i] \in Int /\ Charged(s, b)[i] = Charged(t, b)[i]
      BY <1>1, <1>3, <3>1
    <3> HIDE DEF R
    <3>5. Total(Charged(s, b), R) = Total(Charged(t, b), R) /\ Total(Charged(t, b), R) \in Int
      BY <3>1, <3>4, TotalAgrees, TotalIsInt
    <3> QED
      BY <1>0, <1>2, <2>2, <3>2, <3>3, <3>5
  <2> QED
    BY <2>1, <2>2
<1>5. FreeIn(s, u, f) = FreeIn(t, u, f) /\ ExtraIn(s, u, e) = ExtraIn(t, u, e)
  BY DEF FreeIn, ExtraIn
<1>6. Total(Charged(t, b), JobsOf(u)) \in Int
  BY MovedType
<1>7. /\ f[u] \in Int /\ FreeIn(t, u, f) \in Int
      /\ e[u] \in Int /\ ExtraIn(t, u, e) \in Int
  BY BalanceType
<1> QED
  BY <1>0, <1>4, <1>5, <1>6, <1>7 DEF Moved

LEMMA LockJobSound ==
  ASSUME IsFiniteSet(Jobs), TypeOK, CopyInv, NEW p \in Procs, LockJob(p)
  PROVE  CopyInv'
<1> DEFINE t == tx[p]
           j == t.cur
           start == row[j].start
           b == Settled(j, bill[j], start, t.at)
           c == b.points - bill[j].points
           s == [t EXCEPT !.bill[j] = b, !.cost = c]
<1>0. /\ t \in TxType /\ j \in Jobs /\ t.at \in Clock /\ t.pc = "job" /\ UNCHANGED moneyVars
      /\ free \in [Users -> Int] /\ extra \in [Users -> Nat] /\ bill \in [Jobs -> Bill]
      /\ bill[j] \in Bill /\ start \in Clock
  BY TxShaped DEF LockJob, Shaped, TxType, TypeOK, RowType
<1>1. CASE row[j].gone
  BY <1>0, <1>1, FailSound DEF LockJob
<1>2. CASE ~row[j].gone
  <2>1. Waiting(p) /\ CanLock(p) /\ Take(p) /\ Wanted(p) = <<"job", j>> /\ UNCHANGED <<free, extra, bill>>
    BY <1>2 DEF LockJob, Waiting, Wanted, moneyVars
  <2>2. Sound(p, t, lock', free, extra, bill) /\ LockMove(p) /\ lock'[<<"job", j>>] = p
    BY <2>1, TakeSound
  <2>3. Work(p, t, lock', free, extra) /\ t.who = OwnerOf[j] /\ j \notin t.jobs /\ t.bill[j] = NoCopy
    BY <1>0, <2>2 DEF Sound, Place
  <2>4. \A u \in Users : Moved(t, u, free, extra, bill) = 0
    BY <1>0, <2>2 DEF Sound, Owed
  <2>5. CASE ~Billable(bill[j], start, t.at)
    <3>1. PICK n \in Onwards(t) : tx' = [tx EXCEPT ![p] = n]
      BY <1>2, <2>5 DEF LockJob
    <3>2. Sound(p, n, lock', free, extra, bill)
      BY <1>0, <2>3, <2>4, OnwardsSound
    <3> QED
      BY <2>1, <2>2, <3>1, <3>2, TxStepSound
  <2>6. CASE Billable(bill[j], start, t.at)
    <3>1. start \in 0 .. MaxTime
      BY <1>0, <2>6 DEF Billable, Clock
    <3>2. b \in Bill /\ c \in Nat
      BY <1>0, <2>6, <3>1, SettledType
    <3>3. /\ s \in TxType /\ s.bill = [t.bill EXCEPT ![j] = b] /\ s.free = t.free /\ s.extra = t.extra
          /\ s.jobs = t.jobs /\ s.cost = c /\ s.who = t.who
      BY <1>0, <3>2 DEF TxType
    <3>4. IF c > 0 THEN tx' = [tx EXCEPT ![p] = [s EXCEPT !.pc = "member"]]
          ELSE \E n \in Onwards(s) : tx' = [tx EXCEPT ![p] = n]
      BY <1>2, <2>6 DEF LockJob
    <3> HIDE DEF s
    <3>5. \A u \in Users : Moved(s, u, free, extra, bill) = IF u = OwnerOf[j] THEN c ELSE 0
      <4> SUFFICES ASSUME NEW u \in Users
                   PROVE  Moved(s, u, free, extra, bill) = IF u = OwnerOf[j] THEN c ELSE 0
        OBVIOUS
      <4>1. Moved(s, u, free, extra, bill)
              = Moved(t, u, free, extra, bill) + (IF u = OwnerOf[j] THEN b.points - bill[j].points ELSE 0)
        <5> HIDE DEF b, t
        <5> QED
          BY <1>0, <2>3, <3>2, <3>3, ChargeMoves
      <4> HIDE DEF b, t
      <4> QED
        BY <2>4, <3>2, <4>1
    <3>6. Work(p, s, lock', free, extra)
      <4>1. ASSUME NEW i \in Jobs, s.bill[i] # NoCopy PROVE lock'[<<"job", i>>] = p /\ i \notin s.jobs
        <5>1. t.bill \in [Jobs -> {NoCopy} \cup Bill]
          BY <1>0 DEF TxType
        <5>2. i = j \/ t.bill[i] # NoCopy
          BY <3>3, <4>1, <5>1
        <5> QED
          BY <2>2, <2>3, <3>3, <5>2 DEF Work
      <4>2. /\ s.free = t.free /\ s.extra = t.extra
            /\ \A u \in Users : FreeIn(s, u, free) = FreeIn(t, u, free) /\ ExtraIn(s, u, extra) = ExtraIn(t, u, extra)
        BY <3>3 DEF FreeIn, ExtraIn
      <4> HIDE DEF t
      <4> QED
        BY <2>3, <4>1, <4>2 DEF Work
    <3>7. CASE c > 0
      <4> DEFINE n == [s EXCEPT !.pc = "member"]
      <4>1. /\ n.bill = s.bill /\ n.free = s.free /\ n.extra = s.extra /\ n.jobs = s.jobs
            /\ n.pc = "member" /\ n.who = OwnerOf[j] /\ n.cost = c
        BY <2>3, <3>3 DEF TxType
      <4>2. tx' = [tx EXCEPT ![p] = n]
        BY <3>4, <3>7
      <4> HIDE DEF n, c
      <4>3. Work(p, n, lock', free, extra) /\ \A u \in Users : Moved(n, u, free, extra, bill) = Moved(s, u, free, extra, bill)
        BY <3>6, <4>1, SameCopies
      <4>4. \A u \in Users : Moved(n, u, free, extra, bill) = Owed(n, u)
        BY <3>5, <4>1, <4>3 DEF Owed
      <4>5. Sound(p, n, lock', free, extra, bill)
        BY <4>1, <4>3, <4>4 DEF Sound, Place
      <4> QED
        BY <2>1, <2>2, <4>2, <4>5, TxStepSound
    <3>8. CASE ~(c > 0)
      <4>1. PICK n \in Onwards(s) : tx' = [tx EXCEPT ![p] = n]
        BY <3>4, <3>8
      <4>2. c = 0
        <5> HIDE DEF c
        <5> QED
          BY <3>2, <3>8
      <4>3. \A u \in Users : Moved(s, u, free, extra, bill) = 0
        BY <3>5, <4>2
      <4>4. Sound(p, n, lock', free, extra, bill)
        BY <3>3, <3>6, <4>3, OnwardsSound
      <4> QED
        BY <2>1, <2>2, <4>1, <4>4, TxStepSound
    <3> QED
      BY <3>7, <3>8
  <2> QED
    BY <2>5, <2>6
<1> QED
  BY <1>1, <1>2

LEMMA LockMemberSound ==
  ASSUME TypeOK, CopyInv, NEW p \in Procs, LockMember(p)
  PROVE  CopyInv'
<1> DEFINE t == tx[p]
           u == t.who
           n == [t EXCEPT !.pc = "user", !.free[u] = FreeIn(t, u, free)]
<1>0. /\ t \in TxType /\ u \in Users /\ t.pc = "member" /\ UNCHANGED <<free, extra, bill>>
      /\ free \in [Users -> Int] /\ extra \in [Users -> Nat]
      /\ t.free \in [Users -> {NoCopy} \cup Int]
  BY TxShaped DEF LockMember, Shaped, TxType, TypeOK, moneyVars
<1>1. Waiting(p) /\ CanLock(p) /\ Take(p) /\ Wanted(p) = <<"member", u>>
  BY DEF LockMember, Waiting, Wanted
<1>2. Sound(p, t, lock', free, extra, bill) /\ LockMove(p) /\ lock'[<<"member", u>>] = p
  BY <1>1, TakeSound
<1>3. tx' = [tx EXCEPT ![p] = n]
  BY <1>0 DEF LockMember, Over, FreeIn
<1>4. /\ n.bill = t.bill /\ n.extra = t.extra /\ n.jobs = t.jobs /\ n.who = u /\ n.cost = t.cost
      /\ n.pc = "user" /\ n.free = [t.free EXCEPT ![u] = FreeIn(t, u, free)]
  BY <1>0 DEF TxType
<1>5. FreeIn(t, u, free) \in Int /\ FreeIn(t, u, free) # NoCopy
  BY <1>0, BalanceType, BillingAssumption
<1>6. /\ \A v \in Users : v # u => n.free[v] = t.free[v]
      /\ n.free[u] = FreeIn(t, u, free)
  BY <1>0, <1>4
<1>7. \A v \in Users : FreeIn(n, v, free) = FreeIn(t, v, free) /\ ExtraIn(n, v, extra) = ExtraIn(t, v, extra)
  BY <1>4, <1>5, <1>6 DEF FreeIn, ExtraIn
<1>8. Charged(n, bill) = Charged(t, bill) /\ \A v \in Users : Owed(n, v) = Owed(t, v)
  BY <1>0, <1>4 DEF Charged, Owed
<1> HIDE DEF n, t, u
<1>9. Work(p, n, lock', free, extra)
  <2>1. \A j \in Jobs : n.bill[j] # NoCopy => lock'[<<"job", j>>] = p /\ j \notin n.jobs
    BY <1>2, <1>4 DEF Sound, Work
  <2>2. ASSUME NEW v \in Users
        PROVE  /\ n.free[v] # NoCopy => lock'[<<"member", v>>] = p
               /\ n.extra[v] # NoCopy => lock'[<<"user", v>>] = p /\ n.free[v] # NoCopy
               /\ n.extra[v] = NoCopy => n.free[v] \in {NoCopy, free[v]}
               /\ Paid(free[v], extra[v], FreeIn(n, v, free), ExtraIn(n, v, extra))
    <3>1. /\ t.free[v] # NoCopy => lock'[<<"member", v>>] = p
          /\ t.extra[v] # NoCopy => lock'[<<"user", v>>] = p /\ t.free[v] # NoCopy
          /\ t.extra[v] = NoCopy => t.free[v] \in {NoCopy, free[v]}
          /\ Paid(free[v], extra[v], FreeIn(t, v, free), ExtraIn(t, v, extra))
      BY <1>2 DEF Sound, Work
    <3>2. t.extra[v] = NoCopy => FreeIn(t, v, free) = free[v]
      BY <3>1 DEF FreeIn
    <3> QED
      BY <1>2, <1>4, <1>5, <1>6, <1>7, <3>1, <3>2
  <2> QED
    BY <2>1, <2>2 DEF Work
<1>10. Sound(p, n, lock', free, extra, bill)
  BY <1>2, <1>4, <1>7, <1>8, <1>9 DEF Sound, Place, Moved
<1> QED
  BY <1>0, <1>2, <1>3, <1>10, TxStepSound

LEMMA LockMembersSound ==
  ASSUME TypeOK, CopyInv, NEW p \in Procs, LockMembers(p)
  PROVE  CopyInv'
<1> DEFINE t == tx[p]
<1>0. t \in TxType /\ t.pc = "members" /\ UNCHANGED <<free, extra, bill>>
  BY DEF LockMembers, TypeOK, moneyVars
<1>1. Waiting(p) /\ CanLock(p) /\ Take(p) /\ Wanted(p) = <<"member", t.who>>
  BY DEF LockMembers, Waiting, Wanted
<1>2. Sound(p, t, lock', free, extra, bill) /\ LockMove(p) /\ lock'[<<"member", t.who>>] = p
  BY <1>1, TakeSound
<1>3. PICK n : /\ tx' = [tx EXCEPT ![p] = n] /\ n.bill = t.bill /\ n.free = t.free /\ n.extra = t.extra
               /\ n.jobs = t.jobs /\ n.kind = t.kind
               /\ \/ n.pc = "commit" /\ t.users = {}
                  \/ n.pc = "members" /\ n.users \cup {n.who} = t.users
  <2>1. CASE t.users = {}
    <3> DEFINE m == [t EXCEPT !.pc = "commit"]
    <3>1. tx' = [tx EXCEPT ![p] = m]
      BY <2>1 DEF LockMembers, TypeOK
    <3>2. /\ m.bill = t.bill /\ m.free = t.free /\ m.extra = t.extra
          /\ m.jobs = t.jobs /\ m.kind = t.kind /\ m.pc = "commit"
      BY <1>0 DEF TxType
    <3> QED
      BY <2>1, <3>1, <3>2
  <2>2. CASE t.users # {}
    <3>1. PICK u \in t.users : tx' = [tx EXCEPT ![p] = [t EXCEPT !.who = u, !.users = @ \ {u}]]
      BY <2>2 DEF LockMembers, TypeOK
    <3> DEFINE m == [t EXCEPT !.who = u, !.users = @ \ {u}]
    <3>2. /\ m.bill = t.bill /\ m.free = t.free /\ m.extra = t.extra /\ m.pc = "members"
          /\ m.jobs = t.jobs /\ m.kind = t.kind /\ m.users \cup {m.who} = t.users
      BY <1>0 DEF TxType
    <3> QED
      BY <3>1, <3>2
  <2> QED
    BY <2>1, <2>2
<1> HIDE DEF t
<1>4. Work(p, n, lock', free, extra) /\ \A u \in Users : Moved(n, u, free, extra, bill) = Moved(t, u, free, extra, bill)
  BY <1>2, <1>3, SameCopies DEF Sound
<1>5. \A u \in Users : Owed(n, u) = 0 /\ Owed(t, u) = 0
  BY <1>0, <1>3 DEF Owed
<1>6. Place(p, n, lock')
  BY <1>0, <1>2, <1>3 DEF Sound, Place
<1>7. Sound(p, n, lock', free, extra, bill)
  BY <1>2, <1>4, <1>5, <1>6 DEF Sound
<1> QED
  BY <1>0, <1>2, <1>3, <1>7, TxStepSound

\* A payment takes what it costs.
LEMMA Payment ==
  ASSUME NEW f \in Int, NEW e \in Nat, NEW cost \in Nat
  PROVE  /\ NewFree(f, e, cost) \in Int /\ NewExtra(f, e, cost) \in Nat
         /\ NewFree(f, e, cost) + NewExtra(f, e, cost) = f + e - cost
  BY DEF NewFree, NewExtra, FromExtra, Least

LEMMA LockUserSound ==
  ASSUME IsFiniteSet(Jobs), TypeOK, CopyInv, NEW p \in Procs, LockUser(p)
  PROVE  CopyInv'
<1> DEFINE t == tx[p]
           u == t.who
           f == t.free[u]
           e == ExtraIn(t, u, extra)
           s == [t EXCEPT !.free[u] = NewFree(f, e, t.cost), !.extra[u] = NewExtra(f, e, t.cost), !.cost = 0]
<1>0. /\ t \in TxType /\ u \in Users /\ t.pc = "user" /\ UNCHANGED <<free, extra, bill>>
      /\ free \in [Users -> Int] /\ extra \in [Users -> Nat] /\ bill \in [Jobs -> Bill]
      /\ t.free \in [Users -> {NoCopy} \cup Int] /\ t.extra \in [Users -> {NoCopy} \cup Nat]
      /\ f # NoCopy /\ t.cost \in Nat
  BY TxShaped DEF LockUser, Shaped, TxType, TypeOK, moneyVars
<1>1. Waiting(p) /\ CanLock(p) /\ Take(p) /\ Wanted(p) = <<"user", u>>
  BY DEF LockUser, Waiting, Wanted
<1>2. Sound(p, t, lock', free, extra, bill) /\ LockMove(p) /\ lock'[<<"user", u>>] = p
  BY <1>1, TakeSound
<1>3. PICK n \in Onwards(s) : tx' = [tx EXCEPT ![p] = n]
  BY <1>0 DEF LockUser, Over, ExtraIn
<1>4. f \in Int /\ e \in Nat /\ f = FreeIn(t, u, free)
  BY <1>0, BalanceType DEF FreeIn
<1> DEFINE f1 == NewFree(f, e, t.cost)
           e1 == NewExtra(f, e, t.cost)
<1>5. f1 \in Int /\ e1 \in Nat /\ f1 + e1 = f + e - t.cost
  <2> HIDE DEF t, f, e
  <2> QED
    BY <1>0, <1>4, Payment
<1>6. f1 # NoCopy /\ e1 # NoCopy
  BY <1>5, BillingAssumption
<1>7. /\ s \in TxType /\ s.bill = t.bill /\ s.jobs = t.jobs
      /\ s.free = [t.free EXCEPT ![u] = f1] /\ s.extra = [t.extra EXCEPT ![u] = e1]
  BY <1>0, <1>5 DEF TxType
<1>8. /\ s.free[u] = f1 /\ s.extra[u] = e1
      /\ \A v \in Users : v # u => s.free[v] = t.free[v] /\ s.extra[v] = t.extra[v]
  BY <1>0, <1>7
<1>9. /\ FreeIn(s, u, free) = f1 /\ ExtraIn(s, u, extra) = e1
      /\ \A v \in Users : v # u => FreeIn(s, v, free) = FreeIn(t, v, free) /\ ExtraIn(s, v, extra) = ExtraIn(t, v, extra)
  BY <1>6, <1>8 DEF FreeIn, ExtraIn
<1>10. e = ExtraIn(t, u, extra) /\ u = t.who
  OBVIOUS
<1> HIDE DEF s, f1, e1, e, f, u, t
<1>11. Work(p, s, lock', free, extra)
  <2>1. \A j \in Jobs : s.bill[j] # NoCopy => lock'[<<"job", j>>] = p /\ j \notin s.jobs
    BY <1>2, <1>7 DEF Sound, Work
  <2>2. ASSUME NEW v \in Users
        PROVE  /\ s.free[v] # NoCopy => lock'[<<"member", v>>] = p
               /\ s.extra[v] # NoCopy => lock'[<<"user", v>>] = p /\ s.free[v] # NoCopy
               /\ s.extra[v] = NoCopy => s.free[v] \in {NoCopy, free[v]}
               /\ Paid(free[v], extra[v], FreeIn(s, v, free), ExtraIn(s, v, extra))
    <3>1. /\ t.free[v] # NoCopy => lock'[<<"member", v>>] = p
          /\ t.extra[v] # NoCopy => lock'[<<"user", v>>] = p /\ t.free[v] # NoCopy
          /\ t.extra[v] = NoCopy => t.free[v] \in {NoCopy, free[v]}
          /\ Paid(free[v], extra[v], FreeIn(t, v, free), ExtraIn(t, v, extra))
      BY <1>2 DEF Sound, Work
    <3>2. CASE v # u
      BY <1>8, <1>9, <3>1, <3>2
    <3>3. CASE v = u
      <4>1. t.free[u] # NoCopy
        BY <1>0 DEF f
      <4>2. Paid(free[u], extra[u], f1, e1)
        <5>1. free[u] \in Int /\ extra[u] \in Nat
          BY <1>0
        <5>2. Paid(free[u], extra[u], f, e)
          BY <1>4, <1>10, <3>1, <3>3
        <5> QED
          BY <1>0, <1>4, <5>1, <5>2, PaidMore DEF f1, e1
      <4> QED
        BY <1>2, <1>6, <1>8, <1>9, <3>1, <3>3, <4>1, <4>2
    <3> QED
      BY <3>2, <3>3
  <2> QED
    BY <2>1, <2>2 DEF Work
<1>12. ASSUME NEW v \in Users PROVE Moved(s, v, free, extra, bill) = 0
  <2>1. Charged(s, bill) = Charged(t, bill)
    BY <1>7 DEF Charged
  <2>2. Moved(t, v, free, extra, bill) = Owed(t, v)
    BY <1>2 DEF Sound
  <2>3. CASE v # u
    BY <1>9, <1>10, <2>1, <2>2, <2>3 DEF Moved, Owed
  <2>4. CASE v = u
    <3>1. Owed(t, u) = t.cost
      BY <1>0, <1>10 DEF Owed
    <3>2. Total(Charged(t, bill), JobsOf(u)) \in Int
      BY <1>0, <2>4, MovedType
    <3>3. (f - free[u]) + (e - extra[u]) + Total(Charged(t, bill), JobsOf(u)) = t.cost
      BY <1>4, <1>10, <2>2, <2>4, <3>1 DEF Moved
    <3>4. Moved(s, u, free, extra, bill) = (f1 - free[u]) + (e1 - extra[u]) + Total(Charged(t, bill), JobsOf(u))
      BY <1>9, <2>1 DEF Moved
    <3>5. free[u] \in Int /\ extra[u] \in Nat
      BY <1>0
    <3> QED
      BY <1>0, <1>4, <1>5, <2>4, <3>2, <3>3, <3>4, <3>5
  <2> QED
    BY <2>3, <2>4
<1>13. Sound(p, n, lock', free, extra, bill)
  BY <1>7, <1>11, <1>12, OnwardsSound
<1> QED
  BY <1>0, <1>2, <1>3, <1>13, TxStepSound

Add(f, e, points, g) == \A u \in Users : f[u] + e[u] + Total(points, JobsOf(u)) = g[u]

LEMMA Balance == BalancesAddUp <=> Add(free, extra, Points, granted)
  BY DEF BalancesAddUp, Billed, Add, Total

LEMMA BalanceAfter == BalancesAddUp' <=> Add(free', extra', Points', granted')
<1>1. (BalancesAddUp <=> Add(free, extra, Points, granted))'
  BY Balance, PTL
<1>2. Add(free, extra, Points, granted)' <=> Add(free', extra', Points', granted')
  BY DEF Add
<1> QED
  BY <1>1, <1>2

LEMMA SameBalance ==
  ASSUME BalancesAddUp, UNCHANGED <<free, extra, bill, granted>>
  PROVE  BalancesAddUp'
  BY Balance, BalanceAfter DEF Points

LEMMA CommitWrites ==
  ASSUME TypeOK, NEW p \in Procs, Commit(p)
  PROVE  /\ \A j \in Jobs : bill'[j] = IF tx[p].bill[j] = NoCopy THEN bill[j] ELSE tx[p].bill[j]
         /\ \A u \in Users :
              /\ extra'[u] = ExtraIn(tx[p], u, extra)
              /\ free'[u] = IF tx[p].kind = "issue" THEN IssueAmount ELSE FreeIn(tx[p], u, free)
              /\ granted'[u] = IF tx[p].kind = "issue" THEN granted[u] + IssueAmount - FreeIn(tx[p], u, free)
                               ELSE granted[u]
<1> DEFINE t == tx[p]
<1>1. /\ bill \in [Jobs -> Bill] /\ free \in [Users -> Int] /\ extra \in [Users -> Nat]
      /\ t.bill \in [Jobs -> {NoCopy} \cup Bill] /\ t.free \in [Users -> {NoCopy} \cup Int]
      /\ t.extra \in [Users -> {NoCopy} \cup Nat]
  BY DEF TypeOK, TxType
<1>2. /\ bill' = Over(t.bill, bill) /\ extra' = Over(t.extra, extra)
      /\ IF t.kind = "issue"
         THEN /\ free' = [u \in Users |-> IssueAmount]
              /\ granted' = [u \in Users |-> granted[u] + IssueAmount - Over(t.free, free)[u]]
         ELSE free' = Over(t.free, free) /\ granted' = granted
  BY DEF Commit
<1> HIDE DEF t
<1>3. \A u \in Users : Over(t.free, free)[u] = FreeIn(t, u, free) /\ Over(t.extra, extra)[u] = ExtraIn(t, u, extra)
  BY <1>1 DEF Over, FreeIn, ExtraIn
<1>4. \A j \in Jobs : Over(t.bill, bill)[j] = IF t.bill[j] = NoCopy THEN bill[j] ELSE t.bill[j]
  BY <1>1 DEF Over
<1>5. ASSUME NEW u \in Users
      PROVE  /\ extra'[u] = ExtraIn(t, u, extra)
             /\ free'[u] = IF t.kind = "issue" THEN IssueAmount ELSE FreeIn(t, u, free)
             /\ granted'[u] = IF t.kind = "issue" THEN granted[u] + IssueAmount - FreeIn(t, u, free)
                              ELSE granted[u]
  BY <1>2, <1>3
<1> QED
  BY <1>2, <1>4, <1>5 DEF t

LEMMA CommitSound ==
  ASSUME IsFiniteSet(Jobs), TypeOK, TypeOK', CopyInv, NEW p \in Procs, Commit(p)
  PROVE  CopyInv'
<1>1. /\ tx[p] \in TxType /\ tx[p].pc = "commit" /\ LockMove(p)
      /\ Sound(p, tx[p], lock, free, extra, bill)
  BY DEF TypeOK, Commit, LockMove, CopyInv
<1>2. /\ free \in [Users -> Int] /\ extra \in [Users -> Nat] /\ bill \in [Jobs -> Bill]
      /\ free' \in [Users -> Int] /\ extra' \in [Users -> Nat] /\ bill' \in [Jobs -> Bill]
  BY DEF TypeOK
<1>3. ASSUME NEW q \in Procs \ {p} PROVE Sound(q, tx'[q], lock', free', extra', bill')
  <2>1. PICK s \in TxType : s = tx[q]
    BY DEF TypeOK
  <2>2. tx'[q] = s /\ Shaped(s) /\ Sound(q, s, lock, free, extra, bill)
    BY <2>1, TxShaped DEF Commit, Return, CopyInv, TypeOK
  <2>3. \A r \in Rows : lock[r] = q => lock'[r] = q
    BY <1>1, LockKept
  <2>4. ASSUME NEW u \in Users, s.free[u] # NoCopy
        PROVE  free'[u] = free[u] /\ extra'[u] = extra[u]
    <3>1. lock[<<"member", u>>] # p
      BY <2>2, <2>4 DEF Sound, Work
    <3>2. tx[p].free[u] = NoCopy /\ tx[p].extra[u] = NoCopy
      BY <1>1, <3>1 DEF Sound, Work
    <3>3. tx[p].kind # "issue"
      BY <1>1, <3>1 DEF Sound, Place
    <3> QED
      BY <3>2, <3>3, CommitWrites DEF FreeIn, ExtraIn
  <2>5. ASSUME NEW u \in Users, s.extra[u] # NoCopy PROVE extra'[u] = extra[u]
    BY <2>2, <2>4, <2>5 DEF Sound, Work
  <2>6. ASSUME NEW j \in Jobs, s.bill[j] # NoCopy PROVE bill'[j] = bill[j]
    <3>1. tx[p].bill[j] = NoCopy
      BY <1>1, <2>2, <2>6 DEF Sound, Work
    <3> QED
      BY <3>1, CommitWrites
  <2>7. Sound(q, s, lock', free', extra', bill')
    <3>1. /\ \A u \in Users : s.free[u] # NoCopy => free'[u] = free[u]
          /\ \A u \in Users : s.extra[u] # NoCopy => extra'[u] = extra[u]
          /\ \A j \in Jobs : s.bill[j] # NoCopy => bill'[j] = bill[j]
      BY <2>4, <2>5, <2>6
    <3>2. q \in Procs /\ s \in TxType
      OBVIOUS
    <3>3. PICK lk, f, e, b : lk = lock' /\ f = free' /\ e = extra' /\ b = bill'
      OBVIOUS
    <3>4. /\ f \in [Users -> Int] /\ e \in [Users -> Nat] /\ b \in [Jobs -> Bill]
          /\ \A r \in Rows : lock[r] = q => lk[r] = q
          /\ \A u \in Users : s.free[u] # NoCopy => f[u] = free[u]
          /\ \A u \in Users : s.extra[u] # NoCopy => e[u] = extra[u]
          /\ \A j \in Jobs : s.bill[j] # NoCopy => b[j] = bill[j]
      BY <1>2, <2>3, <3>1, <3>3
    <3>5. /\ free \in [Users -> Int] /\ extra \in [Users -> Nat] /\ bill \in [Jobs -> Bill]
          /\ Shaped(s) /\ Sound(q, s, lock, free, extra, bill)
      BY <1>2, <2>2
    <3>6. Sound(q, s, lk, f, e, b)
      BY <3>2, <3>4, <3>5, KeptSound
    <3> QED
      BY <3>3, <3>6
  <2> QED
    BY <2>2, <2>7
<1>4. Sound(p, tx'[p], lock', free', extra', bill')
  <2>1. tx'[p] = NoTx \/ tx'[p] = [NoTx EXCEPT !.pc = "tick"]
    BY DEF Commit, Return, TypeOK
  <2>2. PICK s : s = tx'[p]
    OBVIOUS
  <2>3. s.bill = NoTx.bill /\ s.free = NoTx.free /\ s.extra = NoTx.extra /\ s.pc \in {"idle", "tick"}
    BY <2>1, <2>2 DEF NoTx
  <2>4. Sound(p, s, lock', free', extra', bill')
    BY <1>2, <2>3, EmptySound
  <2> QED
    BY <2>2, <2>4
<1> QED
  BY <1>3, <1>4 DEF CopyInv

\* What a transaction commits it has taken from one balance and put to another.
LEMMA CommitBalance ==
  ASSUME IsFiniteSet(Jobs), TypeOK, CopyInv, BalancesAddUp, NEW p \in Procs, Commit(p)
  PROVE  BalancesAddUp'
<1> SUFFICES ASSUME NEW u \in Users
             PROVE  free'[u] + extra'[u] + Total(Points', JobsOf(u)) = granted'[u]
  BY BalanceAfter DEF Add
<1> DEFINE t == tx[p]
<1>1. /\ t \in TxType /\ t.pc = "commit" /\ Sound(p, t, lock, free, extra, bill)
      /\ free \in [Users -> Int] /\ extra \in [Users -> Nat] /\ bill \in [Jobs -> Bill] /\ granted[u] \in Int
  BY DEF TypeOK, Commit, CopyInv
<1>2. (FreeIn(t, u, free) - free[u]) + (ExtraIn(t, u, extra) - extra[u]) + Total(Charged(t, bill), JobsOf(u)) = 0
  BY <1>1 DEF Sound, Moved, Owed
<1>3. free[u] + extra[u] + Total(Points, JobsOf(u)) = granted[u]
  BY Balance DEF Add
<1>4. Total(Points', JobsOf(u)) = Total(Points, JobsOf(u)) + Total(Charged(t, bill), JobsOf(u))
  <2>1. ASSUME NEW j \in JobsOf(u)
        PROVE  /\ Points[j] \in Int /\ Charged(t, bill)[j] \in Int
               /\ Points'[j] = Points[j] + Charged(t, bill)[j]
    <3>1. j \in Jobs /\ bill[j].points \in Int /\ Charged(t, bill)[j] \in Int
      BY <1>1, JobsFinite, PointsType
    <3>2. bill'[j] = IF t.bill[j] = NoCopy THEN bill[j] ELSE t.bill[j]
      BY <3>1, CommitWrites
    <3>3. Points[j] = bill[j].points /\ Points'[j] = bill'[j].points
      BY <3>1 DEF Points
    <3>4. Charged(t, bill)[j] = IF t.bill[j] = NoCopy THEN 0 ELSE t.bill[j].points - bill[j].points
      BY <3>1 DEF Charged
    <3>5. CASE t.bill[j] = NoCopy
      BY <3>1, <3>2, <3>3, <3>4, <3>5
    <3>6. CASE t.bill[j] # NoCopy
      <4>1. t.bill[j].points \in Int
        BY <1>1, <3>1, <3>6 DEF TxType, Bill
      <4> QED
        BY <3>1, <3>2, <3>3, <3>4, <3>6, <4>1
    <3> QED
      BY <3>1, <3>3, <3>5, <3>6
  <2> HIDE DEF t
  <2>2. PICK points2 : points2 = Points'
    OBVIOUS
  <2>3. Total(points2, JobsOf(u)) = Total(Points, JobsOf(u)) + Total(Charged(t, bill), JobsOf(u))
    BY <2>1, <2>2, JobsFinite, TotalPlus
  <2> QED
    BY <2>2, <2>3
<1>5. /\ Total(Points, JobsOf(u)) \in Int /\ Total(Charged(t, bill), JobsOf(u)) \in Int
      /\ free[u] \in Int /\ FreeIn(t, u, free) \in Int /\ extra[u] \in Int /\ ExtraIn(t, u, extra) \in Int
      /\ IssueAmount \in Int
  <2>1. \A j \in JobsOf(u) : Points[j] \in Int
    BY <1>1, JobsFinite, PointsType DEF Points
  <2>2. Total(Points, JobsOf(u)) \in Int
    BY <2>1, JobsFinite, TotalIsInt
  <2> HIDE DEF t
  <2> QED
    BY <1>1, <2>2, MovedType, BalanceType, BillingAssumption
<1>6. /\ extra'[u] = ExtraIn(t, u, extra)
      /\ free'[u] = IF t.kind = "issue" THEN IssueAmount ELSE FreeIn(t, u, free)
      /\ granted'[u] = IF t.kind = "issue" THEN granted[u] + IssueAmount - FreeIn(t, u, free) ELSE granted[u]
  BY CommitWrites
<1> HIDE DEF t
<1>7. CASE t.kind = "issue"
  BY <1>1, <1>2, <1>3, <1>4, <1>5, <1>6, <1>7
<1>8. CASE t.kind # "issue"
  BY <1>1, <1>2, <1>3, <1>4, <1>5, <1>6, <1>8
<1> QED
  BY <1>7, <1>8

DebtStep == \A u \in Users : free'[u] < free[u] /\ free'[u] < 0 => extra'[u] = 0

LEMMA CommitDebt ==
  ASSUME TypeOK, CopyInv, NEW p \in Procs, Commit(p)
  PROVE  DebtStep
<1> SUFFICES ASSUME NEW u \in Users, free'[u] < free[u], free'[u] < 0 PROVE extra'[u] = 0
  BY DEF DebtStep
<1>1. /\ Sound(p, tx[p], lock, free, extra, bill) /\ tx[p] \in TxType
      /\ free \in [Users -> Int] /\ extra \in [Users -> Nat]
  BY DEF CopyInv, TypeOK
<1>2. tx[p].kind # "issue"
  <2>1. IssueAmount \in Nat
    BY BillingAssumption
  <2> QED
    BY <2>1, CommitWrites
<1>3. free'[u] = FreeIn(tx[p], u, free) /\ extra'[u] = ExtraIn(tx[p], u, extra)
  BY <1>2, CommitWrites
<1>4. Paid(free[u], extra[u], FreeIn(tx[p], u, free), ExtraIn(tx[p], u, extra))
  BY <1>1 DEF Sound, Work
<1> QED
  BY <1>1, <1>3, <1>4, BalanceType, PaidDebt

\* Steps that write no balance and no bill.
LEMMA IdleSound ==
  ASSUME TypeOK, CopyInv, UNCHANGED <<tx, lock, free, extra, bill>>
  PROVE  CopyInv'
  BY DEF CopyInv

LEMMA BeginFinal ==
  ASSUME IsFiniteSet(Jobs), TypeOK, CopyInv, NEW p \in Procs, NEW j \in Jobs, NEW at,
         tx' = [tx EXCEPT ![p] = Final(j, at)], UNCHANGED <<lock, free, extra, bill>>
  PROVE  CopyInv'
<1>1. free \in [Users -> Int] /\ extra \in [Users -> Nat] /\ bill \in [Jobs -> Bill] /\ LockMove(p)
  BY DEF TypeOK, LockMove
<1>2. Sound(p, Final(j, at), lock', free, extra, bill)
  BY <1>1, FinalSound
<1> QED
  BY <1>1, <1>2, TxStepSound

\* An administrator gives points, or takes them back, while no transaction has
\* read the user's balance.
LEMMA AdjustSound ==
  ASSUME IsFiniteSet(Jobs), TypeOK, TypeOK', CopyInv, BalancesAddUp, NEW u \in Users, NEW d \in Deltas, Adjust(u, d)
  PROVE  CopyInv' /\ BalancesAddUp' /\ DebtStep
<1>1. /\ UNCHANGED <<tx, lock, free, bill>> /\ lock[<<"user", u>>] = NoProc /\ d \in Int
      /\ extra' = [extra EXCEPT ![u] = @ + d] /\ granted' = [granted EXCEPT ![u] = @ + d]
  BY BillingAssumption DEF Adjust, Free
<1>2. /\ free \in [Users -> Int] /\ extra \in [Users -> Nat] /\ bill \in [Jobs -> Bill]
      /\ extra' \in [Users -> Nat] /\ granted \in [Users -> Int]
  BY DEF TypeOK
<1>3. ASSUME NEW q \in Procs PROVE Sound(q, tx[q], lock, free, extra', bill)
  <2>1. tx[q] \in TxType /\ Shaped(tx[q]) /\ Sound(q, tx[q], lock, free, extra, bill)
    BY TxShaped DEF TypeOK, CopyInv
  <2>2. tx[q].extra[u] = NoCopy
    BY <1>1, <2>1, Others DEF Sound, Work
  <2>3. \A v \in Users : tx[q].extra[v] # NoCopy => extra'[v] = extra[v]
    BY <1>1, <1>2, <2>2
  <2>4. PICK e : e = extra'
    OBVIOUS
  <2>5. e \in [Users -> Nat] /\ \A v \in Users : tx[q].extra[v] # NoCopy => e[v] = extra[v]
    BY <1>2, <2>3, <2>4
  <2>6. Sound(q, tx[q], lock, free, e, bill)
    BY <1>2, <2>1, <2>5, KeptSound
  <2> QED
    BY <2>4, <2>6
<1>4. CopyInv'
  BY <1>1, <1>3 DEF CopyInv
<1>5. ASSUME NEW v \in Users PROVE free'[v] + extra'[v] + Total(Points', JobsOf(v)) = granted'[v]
  <2>1. free[v] + extra[v] + Total(Points, JobsOf(v)) = granted[v]
    BY Balance DEF Add
  <2>2. Points' = Points
    BY <1>1 DEF Points
  <2>3. Total(Points, JobsOf(v)) \in Int
    <3>1. \A j \in JobsOf(v) : Points[j] \in Int
      <4> SUFFICES ASSUME NEW j \in JobsOf(v) PROVE Points[j] \in Int
        OBVIOUS
      <4>1. j \in Jobs /\ bill[j] \in Bill
        BY <1>2 DEF JobsOf
      <4> QED
        BY <4>1 DEF Points, Bill
    <3> QED
      BY <3>1, JobsFinite, TotalIsInt
  <2>4. free[v] \in Int /\ extra[v] \in Int
    BY <1>2
  <2>5. CASE v = u
    <3>1. extra'[v] = extra[v] + d /\ granted'[v] = granted[v] + d
      BY <1>1, <1>2, <2>5
    <3> QED
      BY <1>1, <2>1, <2>2, <2>3, <2>4, <3>1
  <2>6. CASE v # u
    <3>1. extra'[v] = extra[v] /\ granted'[v] = granted[v]
      BY <1>1, <1>2, <2>6
    <3> QED
      BY <1>1, <2>1, <2>2, <3>1
  <2> QED
    BY <2>5, <2>6
<1>6. BalancesAddUp'
  BY <1>5, BalanceAfter DEF Add
<1>7. DebtStep
  BY <1>1, <1>2 DEF DebtStep
<1> QED
  BY <1>4, <1>6, <1>7

LEMMA NextSound ==
  ASSUME IsFiniteSet(Jobs), TypeOK, TypeOK', CopyInv, BalancesAddUp, Next
  PROVE  CopyInv' /\ BalancesAddUp' /\ DebtStep
<1>1. ASSUME UNCHANGED moneyVars PROVE BalancesAddUp' /\ DebtStep
  <2>1. UNCHANGED <<free, extra, bill, granted>>
    BY <1>1 DEF moneyVars
  <2>2. \A u \in Users : free[u] \in Int
    BY DEF TypeOK
  <2> QED
    BY <2>1, <2>2, SameBalance DEF DebtStep
<1>2. ASSUME NEW p \in Procs, Transaction(p) PROVE CopyInv' /\ BalancesAddUp' /\ DebtStep
  <2>1. CASE LoopIssue(p) \/ LockAccount(p) \/ LoopTick(p)
    BY <1>1, <2>1, LoopSound DEF LoopIssue, LockAccount, LoopTick
  <2>2. CASE LockJob(p)
    BY <1>1, <2>2, LockJobSound DEF LockJob
  <2>3. CASE LockMember(p) \/ LockUser(p) \/ LockMembers(p)
    BY <1>1, <2>3, LockMemberSound, LockUserSound, LockMembersSound DEF LockMember, LockUser, LockMembers
  <2>4. CASE Commit(p)
    BY <2>4, CommitSound, CommitBalance, CommitDebt
  <2>5. CASE DeadlockVictim(p)
    BY <1>1, <2>5, FailSound DEF DeadlockVictim
  <2> QED
    BY <1>2, <2>1, <2>2, <2>3, <2>4, <2>5 DEF Transaction
<1>3. ASSUME NEW j \in Jobs, Begin(j) \/ End(j) \/ Restart(j) \/ BeginAgain(j) \/ Vanish(j) \/ ReconcileRead(j)
      PROVE  CopyInv' /\ BalancesAddUp' /\ DebtStep
  <2>1. UNCHANGED <<tx, lock, moneyVars>>
    BY <1>3 DEF Begin, End, Restart, BeginAgain, Vanish, ReconcileRead, ClusterStep
  <2> QED
    BY <1>1, <2>1, IdleSound DEF moneyVars
<1>4. CASE ReconcileWrite
  <2>1. /\ UNCHANGED <<lock, moneyVars>> /\ Reconciler \in Procs /\ rc.job \in Jobs
        /\ tx' = tx \/ \E at : tx' = [tx EXCEPT ![Reconciler] = Final(rc.job, at)]
    BY <1>4 DEF ReconcileWrite, TypeOK, Procs
  <2> QED
    BY <1>1, <2>1, IdleSound, BeginFinal DEF moneyVars
<1>5. ASSUME NEW j \in Deletable, DeletePlan(j) \/ DeleteApply(j) \/ DeleteCluster(j)
      PROVE  CopyInv' /\ BalancesAddUp' /\ DebtStep
  <2>1. /\ UNCHANGED <<lock, moneyVars>> /\ j \in Procs /\ j \in Jobs
        /\ tx' = tx \/ \E at : tx' = [tx EXCEPT ![j] = Final(j, at)]
    BY <1>5, BillingAssumption DEF DeletePlan, DeleteApply, DeleteCluster, Procs
  <2> QED
    BY <1>1, <2>1, IdleSound, BeginFinal DEF moneyVars
<1>6. ASSUME NEW u \in Users, NEW d \in Deltas, Adjust(u, d) PROVE CopyInv' /\ BalancesAddUp' /\ DebtStep
  BY <1>6, AdjustSound
<1>7. CASE Pass
  BY <1>1, <1>7, IdleSound DEF Pass, moneyVars
<1>8. CASE Crash
  <2>1. UNCHANGED moneyVars
    BY <1>8 DEF Crash
  <2>2. ASSUME NEW p \in Procs PROVE Sound(p, tx'[p], lock', free', extra', bill')
    <3>1. tx'[p] = NoTx /\ NoTx.pc = "idle"
      BY <1>8 DEF Crash, NoTx
    <3>2. free \in [Users -> Int] /\ extra \in [Users -> Nat] /\ bill \in [Jobs -> Bill]
      BY DEF TypeOK
    <3>3. Sound(p, NoTx, lock', free, extra, bill)
      BY <3>1, <3>2, EmptySound
    <3> QED
      BY <2>1, <3>1, <3>3 DEF moneyVars
  <2> QED
    BY <1>1, <2>1, <2>2 DEF CopyInv
<1> QED
  BY <1>2, <1>3, <1>4, <1>5, <1>6, <1>7, <1>8 DEF Next

LEMMA CopiesSound == ASSUME IsFiniteSet(Jobs) PROVE Spec => [](CopyInv /\ BalancesAddUp)
<1>1. Init => CopyInv /\ BalancesAddUp
  <2> SUFFICES ASSUME Init PROVE CopyInv /\ BalancesAddUp
    OBVIOUS
  <2>1. /\ free \in [Users -> Int] /\ extra \in [Users -> Nat] /\ bill \in [Jobs -> Bill]
    <3>1. [settled |-> Never, points |-> 0, minutes |-> {}, runs |-> {}] \in Bill
      BY DEF Bill, Never
    <3> QED
      BY <3>1 DEF Init
  <2>2. ASSUME NEW p \in Procs PROVE Sound(p, tx[p], lock, free, extra, bill)
    <3>1. tx[p] = NoTx /\ NoTx.pc = "idle"
      BY DEF Init, NoTx
    <3> QED
      BY <2>1, <3>1, EmptySound
  <2>3. ASSUME NEW u \in Users PROVE free[u] + extra[u] + Total(Points, JobsOf(u)) = granted[u]
    <3>1. \A j \in JobsOf(u) : Points[j] = 0
      BY DEF Init, Points, JobsOf
    <3>2. Total(Points, JobsOf(u)) = 0
      BY <3>1, JobsFinite, TotalOfZeros
    <3>3. free[u] = 0 /\ extra[u] = 0 /\ granted[u] = 0
      BY DEF Init
    <3> QED
      BY <3>2, <3>3
  <2> QED
    BY <2>2, <2>3, Balance DEF CopyInv, Add
<1>2. TypeOK /\ TypeOK' /\ CopyInv /\ BalancesAddUp /\ [Next]_vars => (CopyInv /\ BalancesAddUp)'
  <2>1. TypeOK /\ CopyInv /\ BalancesAddUp /\ UNCHANGED vars => (CopyInv /\ BalancesAddUp)'
    BY IdleSound, SameBalance DEF vars, moneyVars
  <2> QED
    BY <2>1, NextSound
<1> QED
  BY <1>1, <1>2, BillingTypeCorrect, PTL DEF Spec

\* No point appears or is lost, however settlements, issues and adjustments of a
\* user's points interleave, fail or are cut off by a crash.
THEOREM PointsConserved == ASSUME IsFiniteSet(Jobs) PROVE Spec => []BalancesAddUp
  BY CopiesSound, PTL

\* A user whose settlement ends in debt has no extra points left, whatever the
\* settlement met on its way.
THEOREM DebtIsLast == ASSUME IsFiniteSet(Jobs) PROVE Spec => DebtComesLast
<1>1. TypeOK /\ TypeOK' /\ CopyInv /\ BalancesAddUp /\ [Next]_vars
        => [\A u \in Users : free'[u] < free[u] /\ free'[u] < 0 => extra'[u] = 0]_vars
  <2> SUFFICES ASSUME TypeOK, TypeOK', CopyInv, BalancesAddUp, Next
               PROVE  \A u \in Users : free'[u] < free[u] /\ free'[u] < 0 => extra'[u] = 0
    OBVIOUS
  <2> QED
    BY NextSound DEF DebtStep
<1> QED
  BY <1>1, CopiesSound, BillingTypeCorrect, PTL DEF Spec, DebtComesLast

-----------------------------------------------------------------------------
(* Every step is one of PointLedger.                                       *)

LEMMA BilledIsTotal == \A u : Billed(u) = Total(Points, JobsOf(u))
  BY DEF Billed, Total

LEMMA BilledIsTotalAfter == \A u : Billed(u)' = Total(Points', JobsOf(u))
<1>1. (\A u : Billed(u) = Total(Points, JobsOf(u)))'
  BY BilledIsTotal, PTL
<1> QED
  BY <1>1

LEMMA SameBilled == UNCHANGED bill => UNCHANGED [u \in Users |-> Billed(u)]
<1> SUFFICES ASSUME UNCHANGED bill PROVE \A u \in Users : Billed(u)' = Billed(u)
  OBVIOUS
<1>1. Points' = Points
  BY DEF Points
<1> QED
  BY <1>1, BilledIsTotal, BilledIsTotalAfter

LEMMA BilledIsNat == ASSUME IsFiniteSet(Jobs), TypeOK, NEW u \in Users PROVE Billed(u) \in Nat
<1>1. Billed(u) = Total(Points, JobsOf(u))
  BY BilledIsTotal
<1>2. IsFiniteSet(JobsOf(u)) /\ \A j \in JobsOf(u) : Points[j] \in Nat
  <2>1. \A j \in Jobs : bill[j] \in Bill
    BY DEF TypeOK
  <2> QED
    BY <2>1, JobsFinite DEF Points, Bill
<1>3. Total(Points, {}) <= Total(Points, JobsOf(u)) /\ Total(Points, {}) = 0
  BY <1>2, TotalGrows, EmptyTotal
<1>4. Total(Points, JobsOf(u)) \in Int
  BY <1>2, TotalIsInt
<1> QED
  BY <1>1, <1>3, <1>4

LEMMA BilledIsNatAfter == IsFiniteSet(Jobs) /\ TypeOK' => \A u \in Users : Billed(u)' \in Nat
<1>1. IsFiniteSet(Jobs) /\ TypeOK => \A u \in Users : Billed(u) \in Nat
  BY BilledIsNat
<1>2. (IsFiniteSet(Jobs) /\ TypeOK => \A u \in Users : Billed(u) \in Nat)'
  BY <1>1, PTL
<1> QED
  BY <1>2

\* What is billed in a step is what the copies committed have paid.
LEMMA CommitPays ==
  ASSUME IsFiniteSet(Jobs), TypeOK, TypeOK', CopyInv, BalancesAddUp, BalancesAddUp',
         NEW p \in Procs, Commit(p), NEW u \in Users
  PROVE  /\ Billed(u) \in Nat /\ Billed(u)' \in Nat
         /\ Ledger!Pays(u, Billed(u)' - Billed(u))
         /\ tx[p].kind # "issue" =>
              free'[u] = free[u] + extra[u] - extra'[u] - (Billed(u)' - Billed(u))
<1> DEFINE f2 == FreeIn(tx[p], u, free)
           e2 == ExtraIn(tx[p], u, extra)
<1>1. /\ Sound(p, tx[p], lock, free, extra, bill) /\ tx[p] \in TxType
      /\ free \in [Users -> Int] /\ extra \in [Users -> Nat] /\ granted[u] \in Int /\ IssueAmount \in Int
  BY BillingAssumption DEF CopyInv, TypeOK
<1>2. free[u] \in Int /\ extra[u] \in Nat /\ f2 \in Int /\ e2 \in Nat
  BY <1>1, BalanceType
<1>3. Paid(free[u], extra[u], f2, e2)
  BY <1>1 DEF Sound, Work
<1>4. Billed(u) \in Nat /\ Billed(u)' \in Nat
  BY BilledIsNat, BilledIsNatAfter
<1>5. /\ free[u] + extra[u] + Billed(u) = granted[u]
      /\ free'[u] + extra'[u] + Billed(u)' = granted'[u]
  BY DEF BalancesAddUp
<1>6. /\ extra'[u] = e2
      /\ free'[u] = IF tx[p].kind = "issue" THEN IssueAmount ELSE f2
      /\ granted'[u] = IF tx[p].kind = "issue" THEN granted[u] + IssueAmount - f2 ELSE granted[u]
  BY CommitWrites
<1> HIDE DEF f2, e2
<1>7. Billed(u)' - Billed(u) = (free[u] + extra[u]) - (f2 + e2)
  BY <1>1, <1>2, <1>4, <1>5, <1>6
<1>8. Ledger!Pays(u, Billed(u)' - Billed(u))
  <2>1. PICK cost : cost = (free[u] + extra[u]) - (f2 + e2)
    OBVIOUS
  <2>2. cost >= 0 /\ e2 = Ledger!ExtraLeft(free[u], extra[u], cost)
    BY <1>2, <1>3, <2>1, SMTT(60) DEF Paid, NewExtra, FromExtra, Least, Ledger!Positive, Ledger!ExtraLeft
  <2>3. Ledger!Pays(u, cost)
    BY <1>6, <2>2 DEF Ledger!Pays
  <2> QED
    BY <1>7, <2>1, <2>3
<1> QED
  BY <1>2, <1>4, <1>6, <1>7, <1>8

LEMMA CommitIsLedger ==
  ASSUME IsFiniteSet(Jobs), TypeOK, TypeOK', LockInv, CopyInv, BalancesAddUp, BalancesAddUp',
         NEW p \in Procs, Commit(p)
  PROVE  Ledger!Settle \/ Ledger!Issue
<1>1. /\ free' \in [Users -> Int] /\ extra' \in [Users -> Nat]
      /\ [u \in Users |-> Billed(u)]' \in [Users -> Nat]
  BY CommitPays DEF TypeOK
<1>2. ASSUME NEW u \in Users
      PROVE  /\ [v \in Users |-> Billed(v)]'[u] = Billed(u)'
             /\ [v \in Users |-> Billed(v)][u] = Billed(u)
  OBVIOUS
<1>3. CASE tx[p].kind = "issue"
  <2>1. /\ free' = [u \in Users |-> IssueAmount] /\ lastIssued' = tx[p].at
        /\ Due(tx[p].at)
    BY <1>3 DEF Commit, LockInv
  <2>2. lastIssued = Never \/ lastIssued' >= lastIssued + Period
    BY <2>1, BillingAssumption DEF Due, TypeOK, TxType, Clock, Never
  <2>3. \A u \in Users : Ledger!Pays(u, [v \in Users |-> Billed(v)]'[u] - [v \in Users |-> Billed(v)][u])
    BY <1>2, CommitPays
  <2> QED
    BY <1>1, <2>1, <2>2, <2>3 DEF Ledger!Issue, Ledger!Never, Never
<1>4. CASE tx[p].kind # "issue"
  <2>1. UNCHANGED lastIssued
    BY <1>4 DEF Commit
  <2>2. ASSUME NEW u \in Users
        PROVE  LET cost == [v \in Users |-> Billed(v)]'[u] - [v \in Users |-> Billed(v)][u]
               IN  Ledger!Pays(u, cost) /\ free'[u] = free[u] + extra[u] - extra'[u] - cost
    BY <1>2, <1>4, CommitPays
  <2> QED
    BY <1>1, <2>1, <2>2 DEF Ledger!Settle
<1> QED
  BY <1>3, <1>4

LEMMA SameLedger ==
  ASSUME UNCHANGED moneyVars
  PROVE  UNCHANGED <<free, extra, [u \in Users |-> Billed(u)], lastIssued>>
  BY SameBilled DEF moneyVars

LEMMA AdjustIsLedger ==
  ASSUME NEW u \in Users, NEW d \in Deltas, Adjust(u, d)
  PROVE  Ledger!Adjust(u)
<1>1. UNCHANGED <<bill, free, lastIssued>> /\ extra[u] + d >= 0 /\ extra' = [extra EXCEPT ![u] = @ + d]
  BY DEF Adjust
<1>2. [v \in Users |-> Billed(v)]' = [v \in Users |-> Billed(v)]
  BY <1>1, SameBilled
<1> QED
  BY <1>1, <1>2 DEF Ledger!Adjust

\* Only a commit and an adjustment write points.
LEMMA MoneyStep ==
  ASSUME TypeOK, [Next]_vars
  PROVE  \/ UNCHANGED moneyVars
         \/ \E p \in Procs : Commit(p)
         \/ \E u \in Users, d \in Deltas : Adjust(u, d)
<1>1. ASSUME NEW p \in Procs, Transaction(p) PROVE Commit(p) \/ UNCHANGED moneyVars
  BY <1>1 DEF Transaction, LoopIssue, LockAccount, LoopTick, LockJob, LockMember, LockUser, LockMembers, DeadlockVictim
<1>2. ASSUME NEW j \in Jobs, Begin(j) \/ End(j) \/ Restart(j) \/ BeginAgain(j) \/ Vanish(j) \/ ReconcileRead(j)
      PROVE  UNCHANGED moneyVars
  BY <1>2 DEF Begin, End, Restart, BeginAgain, Vanish, ReconcileRead, ClusterStep
<1>3. ASSUME NEW j \in Deletable, DeletePlan(j) \/ DeleteApply(j) \/ DeleteCluster(j)
      PROVE  UNCHANGED moneyVars
  BY <1>3 DEF DeletePlan, DeleteApply, DeleteCluster
<1>4. ReconcileWrite \/ Pass \/ Crash => UNCHANGED moneyVars
  BY DEF ReconcileWrite, Pass, Crash
<1> QED
  BY <1>1, <1>2, <1>3, <1>4 DEF Next, vars

\* However transactions interleave, abort or are cut off by a crash, points move as if each
\* that commits were one step: PointLedger is implemented.
THEOREM LedgerImplemented == ASSUME IsFiniteSet(Jobs) PROVE Spec => RefinesLedger
<1>1. Init => Ledger!Init
  <2> SUFFICES ASSUME Init PROVE Ledger!Init
    OBVIOUS
  <2>1. ASSUME NEW u \in Users PROVE Billed(u) = 0
    <3>1. \A j \in JobsOf(u) : Points[j] = 0
      BY DEF Init, Points, JobsOf
    <3>2. Total(Points, JobsOf(u)) = 0
      BY <3>1, JobsFinite, TotalOfZeros
    <3> QED
      BY <3>2 DEF Billed, Total
  <2> QED
    BY <2>1 DEF Init, Ledger!Init, Ledger!Never, Never
<1>2. TypeOK /\ TypeOK' /\ LockInv /\ CopyInv /\ BalancesAddUp /\ BalancesAddUp' /\ [Next]_vars
        => [Ledger!Next]_<<free, extra, [u \in Users |-> Billed(u)], lastIssued>>
  <2> SUFFICES ASSUME TypeOK, TypeOK', LockInv, CopyInv, BalancesAddUp, BalancesAddUp', [Next]_vars
               PROVE  Ledger!Next \/ UNCHANGED <<free, extra, [u \in Users |-> Billed(u)], lastIssued>>
    OBVIOUS
  <2>1. ASSUME NEW p \in Procs, Commit(p) PROVE Ledger!Next
    BY <2>1, CommitIsLedger DEF Ledger!Next
  <2>2. ASSUME NEW u \in Users, NEW d \in Deltas, Adjust(u, d) PROVE Ledger!Next
    BY <2>2, AdjustIsLedger DEF Ledger!Next
  <2> QED
    BY <2>1, <2>2, SameLedger, MoneyStep
<1> QED
  BY <1>1, <1>2, BillingTypeCorrect, LocksSound, CopiesSound, PTL DEF Spec, RefinesLedger, Ledger!Spec

=============================================================================
