--------------------------- MODULE ApprovalProofs ---------------------------
(* What holds of Approval for any orders, jobs, administrators and pages, and *)
(* any number of requests, failures and units of time.                        *)
EXTENDS Approval, TLAPS

-----------------------------------------------------------------------------
(* What the properties rest on.                                               *)

\* A page selects and decides orders it shows, and an open dialog has one.
PageInv ==
  /\ \A a \in Admins : ui[a].seen \subseteq Shows[a] /\ ui[a].sel \in Shows[a] \cup {NoOrder}
  /\ \A a \in Admins : ui[a].open => ui[a].sel # NoOrder
  /\ \A c \in Slots : Active(c) => call[c].order \in Shows[call[c].by]

\* An approval is sent when the lock of its order was written, on a detail page that of
\* an order it showed; and no lock is answered as done before it was written.
GrantInv ==
  /\ \A o \in Orders : create[o] = "locked" => o \in granted
  /\ \A c \in Slots : Active(c) =>
        /\ call[c].kind = "approve" => Behind(c) \cap locked[call[c].by] # {}
        /\ call[c].kind = "lock" /\ call[c].at = "done" => call[c].order \in locked[call[c].by]

\* A user has one request under way, and while it may end in an automatic approval the
\* earlier ones are old enough.
WindowInv ==
  /\ AutoOncePerWindow
  /\ \A o \in Orders : create[o] # "done" => o \notin auto
  /\ \A o \in Orders : Row(o) => create[o] = "done"
  /\ \A o, p \in Orders :
        Creator[o] = Creator[p] /\ create[o] \notin {"idle", "done"} /\ create[p] \notin {"idle", "done"} => o = p
  /\ \A o \in Orders : create[o] \in {"eligible", "locking", "locked"} =>
        \A p \in auto : Row(p) /\ Creator[p] = Creator[o] => now >= born[p] + Window

\* A quiet job runs, its row says so, and neither the reconciler nor the check holds
\* anything else of it, but for a row the check could not read.
QuietInv ==
  /\ \A j \in quiet : phase[j] = "Running" /\ row[j] = "Running" /\ seen[j] \in {"none", "Running"}
  /\ \A o \in Orders : check.found = o /\ JobOf[o] \in quiet => check.error

-----------------------------------------------------------------------------
(* Facts of the operators.                                                    *)

LEMMA IdleIsNoCall == Idle \notin Calls
  BY DEF Idle, Calls

LEMMA CallFacts ==
  ASSUME TypeOK, NEW c \in Slots, Active(c)
  PROVE  /\ call[c] \in Calls
         /\ call[c].by \in Admins /\ call[c].order \in Orders
         /\ call[c].kind \in {"lock", "approve", "reject"}
         /\ call[c].at \in {"sent", "read", "done", "failed"}
<1>1. call[c] \in Calls
  BY DEF TypeOK, Active
<1>2. QED
  BY <1>1 DEF Calls

LEMMA ViewFacts ==
  ASSUME TypeOK, NEW a \in Admins
  PROVE  /\ ui[a] \in Views
         /\ ui[a].sel \in Orders \cup {NoOrder} /\ ui[a].open \in BOOLEAN /\ ui[a].seen \subseteq Orders
         /\ \A o \in Orders \cup {NoOrder}, b \in BOOLEAN :
               /\ [ui[a] EXCEPT !.sel = o, !.open = b] \in Views
               /\ [ui[a] EXCEPT !.sel = o, !.open = b].sel = o
               /\ [ui[a] EXCEPT !.sel = o, !.open = b].open = b
               /\ [ui[a] EXCEPT !.sel = o, !.open = b].seen = ui[a].seen
<1>1. ui[a] \in Views
  BY DEF TypeOK
<1>2. QED
  BY <1>1 DEF Views

\* What a page looks like after it closed its dialog, cleared its selection, or took the
\* text of an answer for an order.
LEMMA CloseFacts ==
  ASSUME TypeOK, NEW a \in Admins
  PROVE  /\ Closed(a) \in Views /\ ~Closed(a).open
         /\ Closed(a).sel \in {ui[a].sel, NoOrder} /\ Closed(a).seen = ui[a].seen
<1>1. ui[a] \in Views
  BY DEF TypeOK
<1>2. QED
  BY <1>1 DEF Views, Closed

LEMMA ClearFacts ==
  ASSUME NEW v \in Views
  PROVE  /\ Cleared(v) \in Views /\ ~Cleared(v).open
         /\ Cleared(v).sel = NoOrder /\ Cleared(v).seen = v.seen
  BY DEF Views, Cleared

LEMMA OverwrittenFacts ==
  ASSUME TypeOK, NEW a \in Admins, NEW v \in Overwritten(a) \cup {ui[a]}
  PROVE  /\ v \in Views /\ v.sel = ui[a].sel /\ v.open = ui[a].open /\ v.seen \subseteq ui[a].seen
<1>1. ui[a] \in Views
  BY DEF TypeOK
<1>2. CASE v = ui[a]
  BY <1>1, <1>2
<1>3. CASE v \in Overwritten(a)
  <2>1. PICK o \in Shows[a] : v = [ui[a] EXCEPT !.seen = ui[a].seen \ {o}]
    BY <1>3 DEF Overwritten
  <2>2. QED
    BY <1>1, <2>1 DEF Views
<1>4. QED
  BY <1>2, <1>3

LEMMA SentFacts ==
  ASSUME NEW a \in Admins, NEW o \in Orders, NEW k \in {"lock", "approve", "reject"}
  PROVE  /\ Sent(a, o, k) \in Calls /\ Sent(a, o, k) # Idle
         /\ Sent(a, o, k).by = a /\ Sent(a, o, k).order = o /\ Sent(a, o, k).kind = k
         /\ Sent(a, o, k).at = "sent"
<1>1. Sent(a, o, k) \in Calls
  BY DEF Sent, Calls
<1>2. QED
  BY <1>1, IdleIsNoCall DEF Sent

\* A page that changes leaves its requests what they are, but for the dialog that
\* showed them.
LEMMA ShowFacts ==
  ASSUME TypeOK, NEW a \in Admins, NEW v \in Views,
         NEW calls \in [Slots -> Calls \cup {Idle}], Show(a, v, calls)
  PROVE  /\ ui' \in [Admins -> Views] /\ call' \in [Slots -> Calls \cup {Idle}]
         /\ ui'[a] = v /\ \A b \in Admins \ {a} : ui'[b] = ui[b]
         /\ \A c \in Slots :
               /\ (call'[c] = Idle) <=> (calls[c] = Idle)
               /\ call'[c] # Idle =>
                     /\ call'[c].by = calls[c].by /\ call'[c].order = calls[c].order
                     /\ call'[c].kind = calls[c].kind /\ call'[c].at = calls[c].at
<1>1. ui' = [ui EXCEPT ![a] = v] /\ ui \in [Admins -> Views]
  BY DEF Show, TypeOK
<1>2. ASSUME NEW c \in Slots
      PROVE  /\ call'[c] \in Calls \cup {Idle}
             /\ (call'[c] = Idle) <=> (calls[c] = Idle)
             /\ call'[c] # Idle =>
                   /\ call'[c].by = calls[c].by /\ call'[c].order = calls[c].order
                   /\ call'[c].kind = calls[c].kind /\ call'[c].at = calls[c].at
  <2>1. call'[c] = calls[c] \/ (calls[c] # Idle /\ call'[c] = [calls[c] EXCEPT !.mounted = FALSE])
    BY DEF Show
  <2>2. CASE call'[c] = calls[c]
    BY <2>2
  <2>3. CASE calls[c] # Idle /\ call'[c] = [calls[c] EXCEPT !.mounted = FALSE]
    <3>1. calls[c] \in Calls
      BY <2>3
    <3>2. [calls[c] EXCEPT !.mounted = FALSE] \in Calls
      BY <3>1 DEF Calls
    <3>3. QED
      BY <2>3, <3>1, <3>2, IdleIsNoCall DEF Calls
  <2>4. QED
    BY <2>1, <2>2, <2>3
<1>3. call' = [c \in Slots |-> call'[c]]
  BY DEF Show
<1>4. QED
  BY <1>1, <1>2, <1>3
-----------------------------------------------------------------------------
(* Types.                                                                     *)

LEMMA InitType == Init => TypeOK
  BY DEF Init, TypeOK, Statuses, Stages, Views, Phases, Rows, Checks, NoCheck

\* What happens to one order outside the pages.
OrderStep(o) == Creation(o) \/ DeleteApprovalOrder(o) \/ CheckOrder(o) \/ cancelApprovalOrder(o)

\* What the check holds after it read an order, and after it handled the one it found.
LEMMA CheckFacts ==
  ASSUME TypeOK, NEW s \in SUBSET Orders, NEW f \in Orders \cup {NoOrder}, NEW e \in BOOLEAN
  PROVE  /\ [check EXCEPT !.left = s, !.found = f] \in Checks
         /\ [check EXCEPT !.left = s, !.found = f].found = f
         /\ [check EXCEPT !.left = s, !.found = f].error = check.error
         /\ [check EXCEPT !.left = s, !.found = f, !.error = e] \in Checks
         /\ [check EXCEPT !.left = s, !.found = f, !.error = e].found = f
         /\ [check EXCEPT !.left = s, !.found = f, !.error = e].error = e
         /\ [check EXCEPT !.found = f, !.error = e] \in Checks
         /\ [check EXCEPT !.found = f, !.error = e].found = f
<1>1. check \in Checks
  BY DEF TypeOK
<1>2. QED
  BY <1>1 DEF Checks

LEMMA CheckOrderFacts ==
  ASSUME TypeOK, NEW o \in Orders, CheckOrder(o)
  PROVE  /\ check' \in Checks /\ check'.found \in {NoOrder, o}
         /\ check'.found = o => row[JobOf[o]] # "Running" \/ check'.error
         /\ faults' \in Nat
<1> DEFINE s == check.left \ {o}
           f == IF isJobRunning(JobOf[o]) THEN NoOrder ELSE o
<1>1. s \in SUBSET Orders /\ f \in Orders \cup {NoOrder}
  BY DEF TypeOK, Checks
<1>2. \/ check' = [check EXCEPT !.left = s, !.found = f] /\ faults' = faults
      \/ check' = [check EXCEPT !.left = s, !.found = o, !.error = TRUE] /\ faults' = faults + 1
  BY DEF CheckOrder
<1>3. f \in {NoOrder, o} /\ (f = o => row[JobOf[o]] # "Running")
  BY OrderAssumption DEF isJobRunning
<1> HIDE DEF s, f
<1>4. CASE check' = [check EXCEPT !.left = s, !.found = f] /\ faults' = faults
  <2>1. check' \in Checks /\ check'.found = f
    BY <1>1, <1>4, CheckFacts
  <2>2. faults' \in Nat
    BY <1>4 DEF TypeOK
  <2>3. QED
    BY <1>3, <2>1, <2>2
<1>5. CASE check' = [check EXCEPT !.left = s, !.found = o, !.error = TRUE] /\ faults' = faults + 1
  <2>1. check' \in Checks /\ check'.found = o /\ check'.error = TRUE
    BY <1>1, <1>5, CheckFacts
  <2>2. faults' \in Nat
    BY <1>5 DEF TypeOK
  <2>3. QED
    BY <2>1, <2>2
<1>6. QED
  BY <1>2, <1>4, <1>5

LEMMA CancelFacts ==
  ASSUME TypeOK, NEW o \in Orders, cancelApprovalOrder(o)
  PROVE  check' \in Checks /\ check'.found = NoOrder
  BY CheckFacts DEF cancelApprovalOrder

LEMMA CreationType ==
  ASSUME TypeOK, NEW o \in Orders, OrderStep(o)
  PROVE  TypeOK'
<1> USE OrderAssumption DEF TypeOK, Statuses, Stages, orderVars, jobVars, pageVars
<1>1. CASE Ask(o)
  BY <1>1 DEF Ask
<1>2. CASE AutoLockRead(o)
  BY <1>2 DEF AutoLockRead
<1>3. CASE AutoLockWrite(o)
  BY <1>3 DEF AutoLockWrite
<1>4. CASE AutoLockFails(o)
  BY <1>4 DEF AutoLockFails, CanFail
<1>5. CASE Insert(o)
  BY <1>5 DEF Insert
<1>6. CASE InsertFails(o)
  BY <1>6 DEF InsertFails, CanFail
<1>7. CASE DeleteApprovalOrder(o)
  BY <1>7 DEF DeleteApprovalOrder
<1>8. CASE CheckOrder(o)
  <2>1. check' \in Checks /\ faults' \in Nat
    BY <1>8, CheckOrderFacts
  <2>2. UNCHANGED <<orderVars, create, granted, locked, pinned, jobVars, pageVars, now>>
    BY <1>8 DEF CheckOrder
  <2>3. QED
    BY <2>1, <2>2
<1>9. CASE cancelApprovalOrder(o)
  <2>1. check' \in Checks
    BY <1>9, CancelFacts
  <2>2. UNCHANGED <<auto, born, create, granted, locked, pinned, jobVars, pageVars, now>>
        /\ faults' \in Nat /\ status' \in [Orders -> Statuses]
    BY <1>9 DEF cancelApprovalOrder
  <2>3. QED
    BY <2>1, <2>2
<1>10. QED
  BY <1>1, <1>2, <1>3, <1>4, <1>5, <1>6, <1>7, <1>8, <1>9 DEF OrderStep, Creation

\* A change of a job, or what the reconciler does about it, leaves the requests, the pages
\* and the locks alone, and no order but by cancelling it.
LEMMA JobFacts ==
  ASSUME TypeOK, NEW j \in Jobs, Job(j)
  PROVE  /\ UNCHANGED <<auto, born, create, granted, locked, check, pageVars, now>>
         /\ \A o \in Orders : status'[o] = status[o] \/ (status[o] = "Pending" /\ status'[o] = "Canceled")
<1>1. UNCHANGED <<auto, born, create, granted, locked, check, pageVars, now>>
  BY DEF Job, Reconciler, PhaseChanges, Activate, DeleteJob, Reconcile, WriteRow,
         cancelPendingApprovalOrders, FreeRow, ClearLockTime, orderVars
<1>2. CASE cancelPendingApprovalOrders(j)
  BY <1>1, <1>2 DEF cancelPendingApprovalOrders
<1>3. CASE PhaseChanges(j) \/ Activate(j) \/ DeleteJob(j) \/ Reconcile(j) \/ WriteRow(j) \/ FreeRow(j)
           \/ ClearLockTime(j)
  BY <1>1, <1>3 DEF PhaseChanges, Activate, DeleteJob, Reconcile, WriteRow, FreeRow, ClearLockTime, orderVars
<1>4. QED
  BY <1>2, <1>3 DEF Job, Reconciler

LEMMA StatusForType == \A p \in Phases \ {"absent"}, x \in Rows : StatusFor(p, x) \in Rows
  BY DEF StatusFor, Phases, Rows

LEMMA JobType ==
  ASSUME TypeOK, NEW j \in Jobs, Job(j)
  PROVE  TypeOK'
<1>1. /\ auto' \subseteq Orders /\ born' \in [Orders -> Nat] /\ create' \in [Orders -> Stages]
      /\ granted' \subseteq Orders /\ locked' \in [Admins -> SUBSET Orders] /\ check' \in Checks
      /\ ui' \in [Admins -> Views] /\ call' \in [Slots -> Calls \cup {Idle}] /\ now' \in Nat
  BY JobFacts DEF TypeOK, pageVars
<1>2. status' \in [Orders -> Statuses] /\ faults' \in Nat /\ pinned' \subseteq Jobs
  <2>1. CASE cancelPendingApprovalOrders(j)
    BY <2>1 DEF cancelPendingApprovalOrders, TypeOK, Statuses
  <2>2. CASE PhaseChanges(j) \/ Activate(j) \/ Reconcile(j) \/ ClearLockTime(j)
    BY <2>2 DEF PhaseChanges, Activate, Reconcile, ClearLockTime, TypeOK, orderVars
  <2>3. CASE DeleteJob(j) \/ WriteRow(j) \/ FreeRow(j)
    BY <2>3 DEF DeleteJob, WriteRow, FreeRow, Requeue, TypeOK, orderVars
  <2>4. QED
    BY <2>1, <2>2, <2>3 DEF Job, Reconciler
<1>3. /\ phase' \in [Jobs -> Phases] /\ row' \in [Jobs -> Rows] /\ dirty' \subseteq Jobs
      /\ seen' \in [Jobs -> Phases \cup {"none", "cancel", "freeing"}]
      /\ ran' \subseteq Jobs /\ quiet' \subseteq Jobs
  <2>1. CASE PhaseChanges(j)
    <3>1. \A p \in Phases \ {"absent"} : Follows[p] \subseteq Phases
      BY DEF Follows, Phases
    <3>2. QED
      BY <2>1, <3>1 DEF PhaseChanges, TypeOK
  <2>2. CASE Activate(j)
    BY <2>2 DEF Activate, TypeOK, Phases, Rows
  <2>3. CASE DeleteJob(j)
    BY <2>3 DEF DeleteJob, TypeOK, Phases, Rows
  <2>4. CASE Reconcile(j)
    BY <2>4 DEF Reconcile, TypeOK
  <2>5. CASE WriteRow(j)
    <3>1. StatusFor(seen[j], row[j]) \in Rows
      BY <2>5, StatusForType DEF WriteRow, TypeOK
    <3>2. QED
      BY <2>5, <3>1 DEF WriteRow, Requeue, TypeOK
  <2>6. CASE cancelPendingApprovalOrders(j)
    BY <2>6 DEF cancelPendingApprovalOrders, TypeOK
  <2>7. CASE FreeRow(j)
    BY <2>7 DEF FreeRow, Requeue, TypeOK, Phases, Rows
  <2>8. CASE ClearLockTime(j)
    BY <2>8 DEF ClearLockTime, TypeOK, jobVars
  <2>9. QED
    BY <2>1, <2>2, <2>3, <2>4, <2>5, <2>6, <2>7, <2>8 DEF Job, Reconciler
<1>4. QED
  BY <1>1, <1>2, <1>3 DEF TypeOK

\* What a reviewer does changes the page and its requests and nothing else.
Untouched == <<orderVars, create, granted, locked, pinned, jobVars, check, now, faults>>

LEMMA PageStep ==
  ASSUME TypeOK, ui' \in [Admins -> Views], call' \in [Slots -> Calls \cup {Idle}], UNCHANGED Untouched
  PROVE  TypeOK'
  BY DEF TypeOK, Untouched, orderVars, jobVars

LEMMA SeenFacts ==
  ASSUME TypeOK, NEW a \in Admins, NEW s \in SUBSET Orders
  PROVE  /\ [ui[a] EXCEPT !.seen = s] \in Views
         /\ [ui[a] EXCEPT !.seen = s].seen = s
         /\ [ui[a] EXCEPT !.seen = s].open = ui[a].open
         /\ [ui[a] EXCEPT !.seen = s].sel = ui[a].sel
<1>1. ui[a] \in Views
  BY DEF TypeOK
<1>2. QED
  BY <1>1 DEF Views

LEMMA NavigateFacts ==
  ASSUME TypeOK, NEW a \in Admins, Navigate(a)
  PROVE  /\ call' \in [Slots -> Calls \cup {Idle}]
         /\ \A c \in Slots : call'[c] # Idle =>
               /\ call[c] # Idle /\ call'[c].by = call[c].by /\ call'[c].order = call[c].order
               /\ call'[c].kind = call[c].kind /\ call'[c].at = call[c].at
<1>1. ASSUME NEW c \in Slots
      PROVE  /\ call'[c] \in Calls \cup {Idle}
             /\ call'[c] # Idle =>
                   /\ call[c] # Idle /\ call'[c].by = call[c].by /\ call'[c].order = call[c].order
                   /\ call'[c].kind = call[c].kind /\ call'[c].at = call[c].at
  <2>1. call'[c] = call[c] \/ (Active(c) /\ call'[c] = [call[c] EXCEPT !.mounted = FALSE])
    BY DEF Navigate
  <2>2. CASE call'[c] = call[c]
    BY <2>2 DEF TypeOK
  <2>3. CASE Active(c) /\ call'[c] = [call[c] EXCEPT !.mounted = FALSE]
    <3>1. call[c] \in Calls
      BY <2>3, CallFacts
    <3>2. QED
      BY <2>3, <3>1 DEF Calls, Active
  <2>4. QED
    BY <2>1, <2>2, <2>3
<1>2. call' = [c \in Slots |-> call'[c]]
  BY DEF Navigate
<1>3. QED
  BY <1>1, <1>2

LEMMA ReviewerType ==
  ASSUME TypeOK, PageInv, NEW a \in Admins, Reviewer(a)
  PROVE  TypeOK' /\ PageInv' /\ UNCHANGED Untouched
<1> USE DEF Untouched
<1>1. CASE Refresh(a)
  <2>1. PICK s \in SUBSET Shows[a] : ui' = [ui EXCEPT ![a] = [ui[a] EXCEPT !.seen = s]]
    <3>1. CASE Page[a] = "detail"
      <4>1. PICK o \in Shows[a] :
              ui' = [ui EXCEPT ![a].seen = IF status[o] = "Pending" THEN @ \cup {o} ELSE @ \ {o}]
        BY <1>1, <3>1 DEF Refresh
      <4> DEFINE s == IF status[o] = "Pending" THEN ui[a].seen \cup {o} ELSE ui[a].seen \ {o}
      <4>2. s \in SUBSET Shows[a]
        BY DEF PageInv
      <4>3. ui' = [ui EXCEPT ![a] = [ui[a] EXCEPT !.seen = s]]
        BY <4>1
      <4>4. QED
        BY <4>2, <4>3
    <3>2. CASE Page[a] # "detail"
      <4> DEFINE s == {o \in Shows[a] : status[o] = "Pending"}
      <4>1. ui' = [ui EXCEPT ![a] = [ui[a] EXCEPT !.seen = s]]
        BY <1>1, <3>2 DEF Refresh
      <4>2. s \in SUBSET Shows[a]
        OBVIOUS
      <4>3. QED
        BY <4>1, <4>2
    <3>3. QED
      BY <3>1, <3>2
  <2> DEFINE v == [ui[a] EXCEPT !.seen = s]
  <2>2. v \in Views /\ v.seen = s /\ v.open = ui[a].open /\ v.sel = ui[a].sel
    <3>1. s \in SUBSET Orders
      BY OrderAssumption
    <3>2. QED
      BY <3>1, SeenFacts
  <2>3. ui' = [ui EXCEPT ![a] = v] /\ call' = call /\ UNCHANGED Untouched
    BY <1>1, <2>1 DEF Refresh
  <2> HIDE DEF v, Untouched
  <2>4. ui' \in [Admins -> Views] /\ ui'[a] = v /\ \A b \in Admins \ {a} : ui'[b] = ui[b]
    BY <2>2, <2>3 DEF TypeOK
  <2>5. TypeOK'
    BY <2>3, <2>4, PageStep DEF TypeOK
  <2>6. PageInv'
    BY <2>1, <2>2, <2>3, <2>4 DEF PageInv, Active
  <2>7. QED
    BY <2>3, <2>5, <2>6
<1>2. ASSUME NEW v \in Views, Show(a, v, call), v.seen = ui[a].seen, UNCHANGED Untouched,
             v.sel \in Shows[a] \cup {NoOrder}, v.open => v.sel # NoOrder
      PROVE  TypeOK' /\ PageInv'
  <2> HIDE DEF Untouched
  <2>1. call \in [Slots -> Calls \cup {Idle}]
    BY DEF TypeOK
  <2>2. TypeOK'
    BY <1>2, <2>1, ShowFacts, PageStep
  <2>3. \A b \in Admins : (ui'[b] = v /\ b = a) \/ ui'[b] = ui[b]
    BY <1>2, <2>1, ShowFacts
  <2>4. \A c \in Slots : call'[c] # Idle =>
           call[c] # Idle /\ call'[c].order = call[c].order /\ call'[c].by = call[c].by
    BY <1>2, <2>1, ShowFacts
  <2>5. QED
    BY <1>2, <2>2, <2>3, <2>4 DEF PageInv, Active
<1>3. CASE CloseDialog(a)
  <2>1. Closed(a) \in Views /\ ~Closed(a).open /\ Closed(a).sel \in {ui[a].sel, NoOrder}
        /\ Closed(a).seen = ui[a].seen
    BY CloseFacts
  <2>2. Show(a, Closed(a), call) /\ UNCHANGED Untouched
    BY <1>3 DEF CloseDialog
  <2> HIDE DEF Untouched
  <2>3. QED
    BY <1>2, <2>1, <2>2 DEF PageInv
<1>4. ASSUME NEW o \in Orders, handleApproveWithDelay(a, o)
      PROVE  TypeOK' /\ PageInv' /\ UNCHANGED Untouched
  <2> DEFINE v == [ui[a] EXCEPT !.sel = o, !.open = TRUE]
  <2>1. v \in Views /\ v.sel = o /\ v.seen = ui[a].seen
    BY ViewFacts
  <2>2. Show(a, v, call) /\ UNCHANGED Untouched
    BY <1>4 DEF handleApproveWithDelay
  <2>3. o \in Shows[a] /\ o # NoOrder
    BY <1>4, OrderAssumption DEF handleApproveWithDelay, PageInv
  <2> HIDE DEF v, Untouched
  <2>4. QED
    BY <1>2, <2>1, <2>2, <2>3
<1>5. ASSUME NEW c \in Slots, NEW o \in Shows[a], NEW k \in {"lock", "reject"},
             call' = [call EXCEPT ![c] = Sent(a, o, k)], ui' = ui, UNCHANGED Untouched
      PROVE  TypeOK' /\ PageInv'
  <2> HIDE DEF Untouched
  <2>1. o \in Orders
    BY OrderAssumption
  <2>2. Sent(a, o, k) \in Calls /\ Sent(a, o, k).order = o /\ Sent(a, o, k).by = a
    BY <2>1, SentFacts
  <2>3. TypeOK'
    BY <1>5, <2>2, PageStep DEF TypeOK
  <2>4. \A d \in Slots : d # c => call'[d] = call[d]
    BY <1>5 DEF TypeOK
  <2>5. call'[c] = Sent(a, o, k)
    BY <1>5 DEF TypeOK
  <2>6. QED
    BY <1>5, <2>2, <2>3, <2>4, <2>5 DEF PageInv, Active
<1>6. ASSUME NEW c \in Slots, SubmitLock(a, c)
      PROVE  TypeOK' /\ PageInv' /\ UNCHANGED Untouched
  <2>1. ui[a].sel \in Shows[a]
    BY <1>6 DEF SubmitLock, PageInv
  <2>2. call' = [call EXCEPT ![c] = Sent(a, ui[a].sel, "lock")] /\ ui' = ui /\ UNCHANGED Untouched
    BY <1>6 DEF SubmitLock
  <2> HIDE DEF Untouched
  <2>3. QED
    BY <1>5, <2>1, <2>2
<1>7. ASSUME NEW c \in Slots, NEW o \in Orders, Reject(a, c, o)
      PROVE  TypeOK' /\ PageInv' /\ UNCHANGED Untouched
  <2>1. o \in Shows[a]
    BY <1>7 DEF Reject, PageInv
  <2>2. call' = [call EXCEPT ![c] = Sent(a, o, "reject")] /\ ui' = ui /\ UNCHANGED Untouched
    BY <1>7 DEF Reject
  <2> HIDE DEF Untouched
  <2>3. QED
    BY <1>5, <2>1, <2>2
<1>8. CASE Navigate(a)
  <2>1. /\ call' \in [Slots -> Calls \cup {Idle}]
        /\ \A c \in Slots : call'[c] # Idle =>
             call[c] # Idle /\ call'[c].order = call[c].order /\ call'[c].by = call[c].by
    BY <1>8, NavigateFacts
  <2>2. ui' = ui /\ UNCHANGED Untouched
    BY <1>8 DEF Navigate
  <2> HIDE DEF Untouched
  <2>3. TypeOK'
    BY <2>1, <2>2, PageStep DEF TypeOK
  <2>4. PageInv'
    BY <2>1, <2>2 DEF PageInv, Active
  <2>5. QED
    BY <2>2, <2>3, <2>4
<1>9. Refresh(a) \/ CloseDialog(a) => UNCHANGED Untouched
  BY DEF Refresh, CloseDialog
<1> HIDE DEF Untouched
<1>10. QED
  BY <1>1, <1>3, <1>4, <1>6, <1>7, <1>8, <1>9 DEF Reviewer

\* A request moves on without another one noticing.
LEMMA MoveFacts ==
  ASSUME TypeOK, NEW c \in Slots, Active(c), NEW s \in {"sent", "read", "done", "failed"},
         call' = [call EXCEPT ![c].at = s]
  PROVE  /\ call' \in [Slots -> Calls \cup {Idle}]
         /\ call'[c] # Idle /\ call'[c].by = call[c].by /\ call'[c].order = call[c].order
         /\ call'[c].kind = call[c].kind /\ call'[c].at = s
         /\ \A d \in Slots : d # c => call'[d] = call[d]
<1>1. call[c] \in Calls
  BY CallFacts
<1>2. call \in [Slots -> Calls \cup {Idle}]
  BY DEF TypeOK
<1>3. [call[c] EXCEPT !.at = s] \in Calls
  BY <1>1 DEF Calls
<1>4. call' = [call EXCEPT ![c] = [call[c] EXCEPT !.at = s]]
  BY <1>2
<1>5. [call[c] EXCEPT !.at = s].by = call[c].by /\ [call[c] EXCEPT !.at = s].order = call[c].order
      /\ [call[c] EXCEPT !.at = s].kind = call[c].kind /\ [call[c] EXCEPT !.at = s].at = s
  BY <1>1 DEF Calls
<1> DEFINE r == [call[c] EXCEPT !.at = s]
<1>6. r \in Calls /\ r.by = call[c].by /\ r.order = call[c].order /\ r.kind = call[c].kind /\ r.at = s
  BY <1>3, <1>5
<1>7. call' = [call EXCEPT ![c] = r]
  BY <1>4
<1> HIDE DEF r
<1>8. QED
  BY <1>2, <1>6, <1>7, IdleIsNoCall

LEMMA AnswerFacts ==
  ASSUME TypeOK, NEW c \in Slots, Active(c), Answer(c)
  PROVE  /\ call' \in [Slots -> Calls \cup {Idle}] /\ faults' \in Nat
         /\ call'[c] # Idle /\ call'[c].by = call[c].by /\ call'[c].order = call[c].order
         /\ call'[c].kind = call[c].kind
         /\ \A d \in Slots : d # c => call'[d] = call[d]
<1>1. CASE call' = [call EXCEPT ![c].at = "done"] /\ UNCHANGED faults
  BY <1>1, MoveFacts DEF TypeOK
<1>2. CASE CanFail /\ call' = [call EXCEPT ![c].at = "failed"] /\ faults' = faults + 1
  <2>1. faults' \in Nat
    BY <1>2 DEF TypeOK
  <2>2. QED
    BY <1>2, <2>1, MoveFacts
<1>3. QED
  BY <1>1, <1>2 DEF Answer

LEMMA ServeType ==
  ASSUME TypeOK, PageInv, NEW c \in Slots, Serve(c) \/ RequestFails(c)
  PROVE  /\ TypeOK' /\ PageInv'
         /\ Active(c) /\ call'[c] # Idle /\ call'[c].order = call[c].order /\ call'[c].kind = call[c].kind
         /\ \A d \in Slots : d # c => call'[d] = call[d]
         /\ call'[c].by = call[c].by
         /\ UNCHANGED <<auto, born, create, granted, jobVars, check, ui, now>>
<1>1. Active(c)
  BY DEF Serve, AddLockTimeRead, AddLockTimeWrite, UpdateApprovalOrder, RequestFails
<1>2. UNCHANGED <<auto, born, create, granted, jobVars, check, ui, now>>
  BY DEF Serve, AddLockTimeRead, AddLockTimeWrite, UpdateApprovalOrder, RequestFails, orderVars, pageVars
<1>3. /\ call' \in [Slots -> Calls \cup {Idle}] /\ faults' \in Nat
      /\ call'[c] # Idle /\ call'[c].by = call[c].by /\ call'[c].order = call[c].order
      /\ call'[c].kind = call[c].kind
      /\ \A d \in Slots : d # c => call'[d] = call[d]
  <2>1. CASE AddLockTimeRead(c)
    <3> DEFINE s == IF Lockable(JobOf[call[c].order]) THEN "read" ELSE "failed"
    <3>1. call' = [call EXCEPT ![c].at = s] /\ faults' = faults /\ s \in {"sent", "read", "done", "failed"}
      BY <2>1 DEF AddLockTimeRead
    <3> HIDE DEF s
    <3>2. QED
      BY <1>1, <3>1, MoveFacts DEF TypeOK
  <2>2. CASE AddLockTimeWrite(c) \/ UpdateApprovalOrder(c)
    BY <1>1, <2>2, AnswerFacts DEF AddLockTimeWrite, UpdateApprovalOrder
  <2>3. CASE RequestFails(c)
    <3>1. call' = [call EXCEPT ![c].at = "failed"] /\ faults' = faults + 1
      BY <2>3 DEF RequestFails
    <3>2. faults' \in Nat
      BY <3>1 DEF TypeOK
    <3>3. QED
      BY <1>1, <3>1, <3>2, MoveFacts
  <2>4. QED
    BY <2>1, <2>2, <2>3 DEF Serve
<1>4. status' \in [Orders -> Statuses] /\ locked' \in [Admins -> SUBSET Orders] /\ pinned' \subseteq Jobs
  <2>1. call[c].order \in Orders /\ JobOf[call[c].order] \in Jobs /\ call[c].by \in Admins
    BY <1>1, CallFacts, OrderAssumption
  <2>2. CASE AddLockTimeRead(c)
    BY <2>2 DEF AddLockTimeRead, TypeOK, orderVars
  <2>3. CASE AddLockTimeWrite(c)
    BY <2>1, <2>3 DEF AddLockTimeWrite, TypeOK, orderVars
  <2>4. CASE UpdateApprovalOrder(c)
    BY <2>4 DEF UpdateApprovalOrder, TypeOK, Statuses
  <2>5. CASE RequestFails(c)
    BY <2>5 DEF RequestFails, TypeOK, orderVars
  <2>6. QED
    BY <2>2, <2>3, <2>4, <2>5 DEF Serve
<1>5. TypeOK'
  BY <1>2, <1>3, <1>4 DEF TypeOK, jobVars
<1>6. PageInv'
  BY <1>1, <1>2, <1>3 DEF PageInv, Active
<1>7. QED
  BY <1>1, <1>2, <1>3, <1>5, <1>6

\* What the answer of a request turns it into: nothing, or the approval of its target.
LEMMA AnsweredType ==
  ASSUME TypeOK, PageInv, NEW c \in Slots, Answered(c)
  PROVE  /\ TypeOK' /\ PageInv' /\ UNCHANGED Untouched
         /\ \A d \in Slots : d # c /\ call'[d] # Idle =>
               /\ call[d] # Idle /\ call'[d].order = call[d].order /\ call'[d].by = call[d].by
               /\ call'[d].kind = call[d].kind /\ call'[d].at = call[d].at
         /\ call'[c] # Idle =>
               /\ Active(c) /\ call[c].kind = "lock" /\ call[c].at = "done"
               /\ call'[c].kind = "approve" /\ call'[c].order = Target(c) /\ call'[c].by = call[c].by
<1>1. Active(c) /\ UNCHANGED Untouched
  BY DEF Answered, LockAnswered, ApproveAnswered, RejectAnswered, Failed, Untouched
<1> DEFINE a == call[c].by
<1>2. call[c] \in Calls /\ a \in Admins /\ call \in [Slots -> Calls \cup {Idle}]
  BY <1>1, CallFacts DEF TypeOK
<1>3. ASSUME NEW v \in Views, NEW r \in Calls \cup {Idle}, Show(a, v, [call EXCEPT ![c] = r]),
             v.sel \in {ui[a].sel, NoOrder}, v.open => v.sel # NoOrder,
             v.seen \subseteq ui[a].seen,
             r # Idle => /\ call[c].kind = "lock" /\ call[c].at = "done" /\ r.kind = "approve"
                         /\ r.order = Target(c) /\ r.by = a /\ r.order \in Shows[a]
      PROVE  /\ TypeOK' /\ PageInv'
             /\ \A d \in Slots : d # c /\ call'[d] # Idle =>
                   /\ call[d] # Idle /\ call'[d].order = call[d].order /\ call'[d].by = call[d].by
                   /\ call'[d].kind = call[d].kind /\ call'[d].at = call[d].at
             /\ call'[c] # Idle =>
                   /\ call[c].kind = "lock" /\ call[c].at = "done"
                   /\ call'[c].kind = "approve" /\ call'[c].order = Target(c) /\ call'[c].by = a
  <2> DEFINE cs == [call EXCEPT ![c] = r]
  <2>1. cs \in [Slots -> Calls \cup {Idle}] /\ cs[c] = r /\ \A d \in Slots : d # c => cs[d] = call[d]
    BY <1>2
  <2>2. Show(a, v, cs)
    BY <1>3
  <2> HIDE DEF cs, a
  <2>3. /\ ui' \in [Admins -> Views] /\ call' \in [Slots -> Calls \cup {Idle}]
        /\ ui'[a] = v /\ \A b \in Admins \ {a} : ui'[b] = ui[b]
        /\ \A d \in Slots :
              /\ (call'[d] = Idle) <=> (cs[d] = Idle)
              /\ call'[d] # Idle =>
                    /\ call'[d].by = cs[d].by /\ call'[d].order = cs[d].order
                    /\ call'[d].kind = cs[d].kind /\ call'[d].at = cs[d].at
    BY <1>2, <2>1, <2>2, ShowFacts
  <2>4. TypeOK'
    BY <1>1, <2>3, PageStep
  <2>5. PageInv'
    BY <1>2, <1>3, <2>1, <2>3 DEF PageInv, Active
  <2>6. QED
    BY <1>3, <2>1, <2>3, <2>4, <2>5
<1>10. a = call[c].by
  OBVIOUS
<1> HIDE DEF a
<1>4. /\ Closed(a) \in Views /\ ~Closed(a).open
      /\ Closed(a).sel \in {ui[a].sel, NoOrder} /\ Closed(a).seen = ui[a].seen
  BY <1>2, CloseFacts
<1>5. CASE LockAnswered(c)
  <2> DEFINE r == IF Target(c) = NoOrder THEN Idle ELSE Sent(a, Target(c), "approve")
  <2>1. Show(a, Closed(a), [call EXCEPT ![c] = r]) /\ call[c].kind = "lock" /\ call[c].at = "done"
    BY <1>5 DEF LockAnswered, a
  <2>2. Target(c) # NoOrder => Target(c) \in Shows[a] /\ Target(c) \in Orders
    BY <1>1, <1>2, OrderAssumption DEF Target, PageInv, a
  <2>3. r \in Calls \cup {Idle}
        /\ (r # Idle => r.kind = "approve" /\ r.order = Target(c) /\ r.by = a /\ r.order \in Shows[a])
    BY <1>2, <2>2, SentFacts
  <2> HIDE DEF r
  <2>4. QED
    BY <1>1, <1>3, <1>10, <1>4, <2>1, <2>3
<1>6. CASE ApproveAnswered(c)
  <2>1. PICK w \in Overwritten(a) \cup {ui[a]} : Show(a, Cleared(w), [call EXCEPT ![c] = Idle])
    <3>1. \E w \in IF Page[a] = "detail" THEN Overwritten(a) ELSE {ui[a]} :
             Show(a, Cleared(w), [call EXCEPT ![c] = Idle])
      BY <1>6 DEF ApproveAnswered, a
    <3>2. QED
      BY <3>1
  <2>2. w \in Views /\ w.seen \subseteq ui[a].seen
    BY <1>2, OverwrittenFacts
  <2> DEFINE v == Cleared(w)
  <2>3. v \in Views /\ ~v.open /\ v.sel = NoOrder /\ v.seen \subseteq ui[a].seen
    BY <2>2, ClearFacts
  <2>4. Show(a, v, [call EXCEPT ![c] = Idle])
    BY <2>1
  <2> HIDE DEF v
  <2>5. QED
    BY <1>1, <1>3, <1>10, <2>3, <2>4
<1>7. CASE RejectAnswered(c)
  <2>1. PICK v \in Overwritten(a) \cup {ui[a]} : ui' = [ui EXCEPT ![a] = v] /\ call' = [call EXCEPT ![c] = Idle]
    <3>1. \E v \in IF Page[a] = "detail" THEN Overwritten(a) ELSE {ui[a]} : ui' = [ui EXCEPT ![a] = v]
      BY <1>7 DEF RejectAnswered, a
    <3>2. QED
      BY <1>7, <3>1 DEF RejectAnswered
  <2>2. ui' \in [Admins -> Views] /\ \A b \in Admins :
           ui'[b].seen \subseteq ui[b].seen /\ ui'[b].sel = ui[b].sel /\ ui'[b].open = ui[b].open
    BY <1>2, <2>1, OverwrittenFacts DEF TypeOK
  <2>3. call' \in [Slots -> Calls \cup {Idle}] /\ call'[c] = Idle /\ \A d \in Slots : d # c => call'[d] = call[d]
    BY <1>2, <2>1
  <2>4. TypeOK'
    BY <1>1, <2>2, <2>3, PageStep
  <2>5. PageInv'
    BY <2>2, <2>3 DEF PageInv, Active
  <2>6. QED
    BY <1>1, <2>3, <2>4, <2>5
<1>8. CASE Failed(c)
  <2> DEFINE v == IF Page[a] = "detail" /\ call[c].kind = "approve" THEN Cleared(ui[a]) ELSE ui[a]
  <2>1. Show(a, v, [call EXCEPT ![c] = Idle])
    BY <1>8 DEF Failed, a
  <2>2. v \in Views /\ v.sel \in {ui[a].sel, NoOrder} /\ (v.open => v.sel # NoOrder) /\ v.seen \subseteq ui[a].seen
    BY <1>2, ClearFacts DEF PageInv, TypeOK
  <2> HIDE DEF v
  <2>3. QED
    BY <1>1, <1>3, <1>10, <2>1, <2>2
<1>9. QED
  BY <1>5, <1>6, <1>7, <1>8 DEF Answered

LEMMA TypeStep ==
  ASSUME TypeOK, PageInv, [Next]_vars
  PROVE  TypeOK' /\ PageInv'
<1>1. ASSUME UNCHANGED pageVars PROVE PageInv'
  BY <1>1 DEF PageInv, Active, pageVars
<1>2. CASE \E o \in Orders : OrderStep(o)
  <2>1. UNCHANGED pageVars
    BY <1>2 DEF OrderStep, Creation, Ask, AutoLockRead, AutoLockWrite, AutoLockFails, Insert, InsertFails,
                DeleteApprovalOrder, CheckOrder, cancelApprovalOrder
  <2>2. QED
    BY <1>1, <1>2, <2>1, CreationType
<1>3. CASE \E j \in Jobs : Job(j)
  BY <1>1, <1>3, JobFacts, JobType
<1>4. CASE \E a \in Admins : Reviewer(a)
  BY <1>4, ReviewerType
<1>5. CASE \E c \in Slots : Serve(c) \/ RequestFails(c) \/ Answered(c)
  BY <1>5, ServeType, AnsweredType
<1>6. CASE CheckOrders
  BY <1>1, <1>6 DEF CheckOrders, TypeOK, orderVars, jobVars, pageVars, NoCheck, Checks
<1>7. CASE Tick
  BY <1>1, <1>7 DEF Tick, TypeOK, orderVars, jobVars, pageVars
<1>8. CASE UNCHANGED vars
  BY <1>1, <1>8 DEF vars, TypeOK, orderVars, jobVars, pageVars
<1>9. QED
  BY <1>2, <1>3, <1>4, <1>5, <1>6, <1>7, <1>8 DEF Next, OrderStep

\* The tables, pages and requests keep their types, and a dialog that is open locks a job.
THEOREM TypeCorrect == Spec => []TypeOK
<1>1. Init => TypeOK /\ PageInv
  BY InitType DEF Init, PageInv, Active
<1>2. TypeOK /\ PageInv /\ [Next]_vars => (TypeOK /\ PageInv)'
  BY TypeStep
<1>3. QED
  BY <1>1, <1>2, PTL DEF Spec

-----------------------------------------------------------------------------
(* An approved order had its job locked.                                      *)

LEMMA GrantStep ==
  ASSUME TypeOK, TypeOK', PageInv, GrantInv, [Next]_vars
  PROVE  GrantInv'
<1>1. ASSUME NEW o \in Orders, OrderStep(o)
      PROVE  GrantInv'
  <2> USE <1>1 DEF GrantInv, Behind, Active, TypeOK, orderVars, pageVars
  <2>1. CASE Ask(o)
    BY <2>1 DEF Ask
  <2>2. CASE AutoLockRead(o)
    BY <2>2 DEF AutoLockRead
  <2>3. CASE AutoLockWrite(o)
    BY <2>3 DEF AutoLockWrite
  <2>4. CASE AutoLockFails(o)
    BY <2>4 DEF AutoLockFails
  <2>5. CASE Insert(o)
    BY <2>5 DEF Insert
  <2>6. CASE InsertFails(o)
    BY <2>6 DEF InsertFails
  <2>7. CASE DeleteApprovalOrder(o)
    BY <2>7 DEF DeleteApprovalOrder
  <2>8. CASE CheckOrder(o) \/ cancelApprovalOrder(o)
    BY <2>8 DEF CheckOrder, cancelApprovalOrder
  <2>9. QED
    BY <2>1, <2>2, <2>3, <2>4, <2>5, <2>6, <2>7, <2>8 DEF OrderStep, Creation
<1>2. ASSUME NEW j \in Jobs, Job(j)
      PROVE  GrantInv'
  BY <1>2, JobFacts DEF GrantInv, Behind, Active, pageVars
<1>3. ASSUME NEW a \in Admins, Reviewer(a)
      PROVE  GrantInv'
  <2>1. UNCHANGED <<create, granted, locked>>
    BY <1>3, ReviewerType DEF Untouched, orderVars
  <2>2. \A c \in Slots : call'[c] # Idle =>
          \/ /\ call[c] # Idle /\ call'[c].order = call[c].order /\ call'[c].kind = call[c].kind
             /\ call'[c].at = call[c].at /\ call'[c].by = call[c].by
          \/ call'[c].kind \in {"lock", "reject"} /\ call'[c].at = "sent"
    <3>1. call \in [Slots -> Calls \cup {Idle}]
      BY DEF TypeOK
    <3>2. CASE Refresh(a)
      BY <3>2 DEF Refresh
    <3>3. ASSUME NEW v \in Views, Show(a, v, call)
          PROVE  \A c \in Slots : call'[c] # Idle =>
                   /\ call[c] # Idle /\ call'[c].order = call[c].order /\ call'[c].kind = call[c].kind
                   /\ call'[c].at = call[c].at /\ call'[c].by = call[c].by
      BY <3>1, <3>3, ShowFacts
    <3>4. CASE CloseDialog(a) \/ \E o \in Orders : handleApproveWithDelay(a, o)
      <4>1. \E v \in Views : Show(a, v, call)
        BY <3>4, CloseFacts, ViewFacts DEF CloseDialog, handleApproveWithDelay
      <4>2. QED
        BY <3>3, <4>1
    <3>5. ASSUME NEW c \in Slots, NEW o \in Orders, NEW k \in {"lock", "reject"},
                 call' = [call EXCEPT ![c] = Sent(a, o, k)]
          PROVE  \A d \in Slots : call'[d] = call[d] \/ (call'[d].kind = k /\ call'[d].at = "sent")
      <4>1. Sent(a, o, k).kind = k /\ Sent(a, o, k).at = "sent"
        BY SentFacts
      <4>2. QED
        BY <3>1, <3>5, <4>1
    <3>6. CASE \E c \in Slots : SubmitLock(a, c)
      <4>1. PICK c \in Slots : SubmitLock(a, c)
        BY <3>6
      <4>2. ui[a].sel \in Orders /\ call' = [call EXCEPT ![c] = Sent(a, ui[a].sel, "lock")]
        BY <4>1, ViewFacts DEF SubmitLock, PageInv
      <4>3. QED
        BY <3>5, <4>2
    <3>7. CASE \E c \in Slots, o \in Orders : Reject(a, c, o)
      BY <3>5, <3>7 DEF Reject
    <3>8. CASE Navigate(a)
      BY <3>8, NavigateFacts
    <3>9. QED
      BY <1>3, <3>2, <3>4, <3>6, <3>7, <3>8 DEF Reviewer
  <2>3. QED
    BY <2>1, <2>2 DEF GrantInv, Behind, Active
<1>4. ASSUME NEW c \in Slots, Serve(c) \/ RequestFails(c)
      PROVE  GrantInv'
  <2>1. /\ Active(c) /\ call'[c] # Idle /\ call'[c].order = call[c].order /\ call'[c].kind = call[c].kind
        /\ call'[c].by = call[c].by /\ \A d \in Slots : d # c => call'[d] = call[d]
        /\ create' = create /\ granted' = granted
    BY <1>4, ServeType
  <2>2. call[c].order \in Orders /\ call[c].by \in Admins
    BY <2>1, CallFacts
  <2>3. \A a \in Admins : locked[a] \subseteq locked'[a]
    BY <1>4 DEF Serve, AddLockTimeRead, AddLockTimeWrite, UpdateApprovalOrder, RequestFails, TypeOK
  <2>4. call'[c].kind = "lock" /\ call'[c].at = "done" => call[c].order \in locked'[call[c].by]
    <3>1. CASE AddLockTimeWrite(c)
      BY <2>2, <3>1 DEF AddLockTimeWrite, TypeOK
    <3>2. CASE AddLockTimeRead(c)
      BY <2>1, <3>2, MoveFacts DEF AddLockTimeRead
    <3>3. CASE RequestFails(c)
      BY <2>1, <3>3, MoveFacts DEF RequestFails
    <3>4. CASE UpdateApprovalOrder(c)
      BY <2>1, <3>4 DEF UpdateApprovalOrder
    <3>5. QED
      BY <1>4, <3>1, <3>2, <3>3, <3>4 DEF Serve
  <2>5. \A d \in Slots : call[d] # Idle => call[d].by \in Admins
    BY CallFacts DEF Active
  <2>6. QED
    BY <2>1, <2>2, <2>3, <2>4, <2>5 DEF GrantInv, Behind, Active
<1>5. ASSUME NEW c \in Slots, Answered(c)
      PROVE  GrantInv'
  <2>1. /\ UNCHANGED <<create, granted, locked>>
        /\ \A d \in Slots : d # c /\ call'[d] # Idle =>
              /\ call[d] # Idle /\ call'[d].order = call[d].order /\ call'[d].by = call[d].by
              /\ call'[d].kind = call[d].kind /\ call'[d].at = call[d].at
        /\ call'[c] # Idle =>
              /\ Active(c) /\ call[c].kind = "lock" /\ call[c].at = "done"
              /\ call'[c].kind = "approve" /\ call'[c].order = Target(c) /\ call'[c].by = call[c].by
    BY <1>5, AnsweredType DEF Untouched
  <2>2. call'[c] # Idle => call[c].order \in (Behind(c))' /\ call[c].order \in locked[call[c].by]
    BY <2>1 DEF Behind, Target, PageInv, GrantInv, Active
  <2>3. QED
    BY <2>1, <2>2 DEF GrantInv, Behind, Active
<1>6. CASE CheckOrders \/ Tick \/ UNCHANGED vars
  BY <1>6 DEF CheckOrders, Tick, vars, pageVars, GrantInv, Behind, Active
<1>7. QED
  BY <1>1, <1>2, <1>3, <1>4, <1>5, <1>6 DEF Next, OrderStep

\* The step that approves an order is the handler's, after its lock, or serves the
\* approval of a page.
LEMMA ApprovingStep ==
  ASSUME TypeOK, PageInv, GrantInv, [Next]_vars,
         NEW o \in Orders, status[o] # "Approved", status'[o] = "Approved"
  PROVE  \/ o \in granted
         \/ \E c \in Slots : /\ Active(c) /\ call[c].kind = "approve" /\ call[c].order = o
                             /\ Behind(c) \cap locked[call[c].by] # {}
<1>1. ASSUME NEW p \in Orders, OrderStep(p)
      PROVE  o \in granted
  <2>1. CASE Insert(p)
    BY <2>1 DEF Insert, GrantInv, TypeOK
  <2>2. CASE DeleteApprovalOrder(p) \/ cancelApprovalOrder(p)
    BY <2>2 DEF DeleteApprovalOrder, cancelApprovalOrder, TypeOK
  <2>3. CASE Ask(p) \/ AutoLockRead(p) \/ AutoLockWrite(p) \/ AutoLockFails(p) \/ InsertFails(p) \/ CheckOrder(p)
    BY <2>3 DEF Ask, AutoLockRead, AutoLockWrite, AutoLockFails, InsertFails, CheckOrder, orderVars
  <2>4. QED
    BY <1>1, <2>1, <2>2, <2>3 DEF OrderStep, Creation
<1>2. ASSUME NEW j \in Jobs, Job(j)
      PROVE  FALSE
  BY <1>2, JobFacts
<1>3. ASSUME NEW a \in Admins, Reviewer(a)
      PROVE  FALSE
  BY <1>3, ReviewerType DEF Untouched, orderVars
<1>4. ASSUME NEW c \in Slots, Serve(c) \/ RequestFails(c)
      PROVE  /\ Active(c) /\ call[c].kind = "approve" /\ call[c].order = o
             /\ Behind(c) \cap locked[call[c].by] # {}
  <2>1. CASE UpdateApprovalOrder(c)
    <3>1. Active(c) /\ call[c].kind = "approve" /\ call[c].order = o
      BY <2>1 DEF UpdateApprovalOrder, TypeOK
    <3>2. QED
      BY <3>1 DEF GrantInv
  <2>2. CASE AddLockTimeRead(c) \/ AddLockTimeWrite(c) \/ RequestFails(c)
    BY <2>2 DEF AddLockTimeRead, AddLockTimeWrite, RequestFails, orderVars
  <2>3. QED
    BY <1>4, <2>1, <2>2 DEF Serve
<1>5. ASSUME NEW c \in Slots, Answered(c)
      PROVE  FALSE
  BY <1>5, AnsweredType DEF Untouched, orderVars
<1>6. CASE CheckOrders \/ Tick \/ UNCHANGED vars
  BY <1>6 DEF CheckOrders, Tick, vars, orderVars
<1>7. QED
  BY <1>1, <1>2, <1>3, <1>4, <1>5, <1>6 DEF Next, OrderStep

\* Whatever dialogs are closed, reopened and answered late, the list and the tab approve
\* an order only after its own lock, and a detail page after that of an order of the job.
THEOREM ApprovedLocked == Spec => ApprovedAfterLock
<1>1. Init => TypeOK /\ PageInv /\ GrantInv
  BY InitType DEF Init, PageInv, GrantInv, Active
<1>2. TypeOK /\ PageInv /\ GrantInv /\ [Next]_vars => (TypeOK /\ PageInv /\ GrantInv)'
  BY TypeStep, GrantStep
<1>3. TypeOK /\ PageInv /\ GrantInv /\ [Next]_vars =>
        [\A o \in Orders : status[o] # "Approved" /\ status'[o] = "Approved" =>
           \/ o \in granted
           \/ \E c \in Slots : /\ Active(c) /\ call[c].kind = "approve" /\ call[c].order = o
                               /\ Behind(c) \cap locked[call[c].by] # {}]_vars
  BY ApprovingStep
<1>4. QED
  BY <1>1, <1>2, <1>3, PTL DEF Spec, ApprovedAfterLock

-----------------------------------------------------------------------------
(* One automatic approval in 48 hours.                                        *)

\* A step that creates no order keeps the invariant: the clock goes forward, and a
\* request goes on only from one stage that may end in an automatic approval to another.
LEMMA WindowKept ==
  ASSUME TypeOK, TypeOK', WindowInv, auto' = auto, born' = born, now <= now',
         \A o \in Orders : Row(o)' => Row(o),
         \A o \in Orders : create[o] = "done" => create'[o] = "done",
         \A o \in Orders : create'[o] \notin {"idle", "done"} => create[o] \notin {"idle", "done"},
         \A o \in Orders : create'[o] \in {"eligible", "locking", "locked"} =>
                             create[o] \in {"eligible", "locking", "locked"}
  PROVE  WindowInv'
<1>1. AutoOncePerWindow'
  BY DEF WindowInv, AutoOncePerWindow, TypeOK
<1>2. \A o \in Orders : create'[o] \in {"eligible", "locking", "locked"} =>
         \A p \in auto' : Row(p)' /\ Creator[p] = Creator[o] => now' >= born'[p] + Window
  <2>1. SUFFICES ASSUME NEW o \in Orders, create'[o] \in {"eligible", "locking", "locked"},
                        NEW p \in auto, Row(p)', Creator[p] = Creator[o]
                 PROVE  now' >= born[p] + Window
    OBVIOUS
  <2>2. now >= born[p] + Window /\ now \in Nat /\ now' \in Nat /\ born[p] \in Nat
    BY <2>1 DEF WindowInv, TypeOK
  <2>3. QED
    BY <2>2, OrderAssumption
<1>3. QED
  BY <1>1, <1>2 DEF WindowInv

LEMMA WindowStep ==
  ASSUME TypeOK, TypeOK', PageInv, WindowInv, [Next]_vars
  PROVE  WindowInv'
<1>1. ASSUME UNCHANGED <<auto, born, create, now>>, \A o \in Orders : Row(o)' => Row(o)
      PROVE  WindowInv'
  BY <1>1, WindowKept DEF TypeOK
<1>2. ASSUME NEW o \in Orders, UNCHANGED <<orderVars, now>>, create[o] \notin {"idle", "done"},
             NEW s \in Stages, create' = [create EXCEPT ![o] = s],
             s \in {"eligible", "locking", "locked"} => create[o] \in {"eligible", "locking", "locked"}
      PROVE  WindowInv'
  <2>1. \A p \in Orders : create'[p] = IF p = o THEN s ELSE create[p]
    BY <1>2 DEF TypeOK
  <2>2. auto' = auto /\ born' = born /\ now <= now' /\ \A p \in Orders : Row(p)' => Row(p)
    BY <1>2 DEF orderVars, Row, TypeOK
  <2>3. QED
    BY <1>2, <2>1, <2>2, WindowKept
<1>3. ASSUME NEW o \in Orders, OrderStep(o)
      PROVE  WindowInv'
  <2>1. CASE Ask(o)
    <3> DEFINE s == IF o \in Short /\ ~RecentAuto(o) THEN "eligible" ELSE "plain"
    <3>1. /\ UNCHANGED <<orderVars, now>> /\ create[o] = "idle"
          /\ \A p \in Orders : Creator[p] = Creator[o] => create[p] \in {"idle", "done"}
          /\ \A p \in Orders : create'[p] = IF p = o THEN s ELSE create[p]
      BY <2>1 DEF Ask, isSubmitting, TypeOK
    <3>2. s = "eligible" => \A p \in auto : Row(p) /\ Creator[p] = Creator[o] => now >= born[p] + Window
      <4>1. ASSUME s = "eligible", NEW p \in auto, Row(p), Creator[p] = Creator[o]
            PROVE  now >= born[p] + Window
        <5>1. ~(born[p] > now - Window)
          BY <4>1 DEF RecentAuto
        <5>2. born[p] \in Nat /\ now \in Nat /\ Window \in Nat
          BY OrderAssumption DEF TypeOK
        <5>3. QED
          BY <5>1, <5>2
      <4>2. QED
        BY <4>1
    <3>3. AutoOncePerWindow' /\ \A p \in Orders : Row(p)' <=> Row(p)
      BY <3>1 DEF WindowInv, AutoOncePerWindow, orderVars, Row
    <3>4. \A p \in Orders : p # o => create'[p] = create[p]
      BY <3>1
    <3>5. create'[o] \in {"eligible", "plain"}
      BY <3>1
    <3>6. auto' = auto /\ born' = born /\ now' = now
      BY <3>1 DEF orderVars
    <3>7. s \in {"eligible", "plain"} /\ create'[o] = s
      BY <3>1
    <3> HIDE DEF s
    <3>8. ~Row(o) /\ o \notin auto
      BY <3>1 DEF WindowInv
    <3>9. \A p \in Orders : create'[p] # "done" => p \notin auto'
      BY <3>4, <3>6, <3>8 DEF WindowInv
    <3>10. \A p \in Orders : Row(p)' => create'[p] = "done"
      BY <3>3, <3>4, <3>8 DEF WindowInv
    <3>11. \A p, q \in Orders :
             Creator[p] = Creator[q] /\ create'[p] \notin {"idle", "done"} /\ create'[q] \notin {"idle", "done"} => p = q
      BY <3>1, <3>4 DEF WindowInv
    <3>12. \A p \in Orders : create'[p] \in {"eligible", "locking", "locked"} =>
             \A q \in auto' : Row(q)' /\ Creator[q] = Creator[p] => now' >= born'[q] + Window
      BY <3>2, <3>3, <3>4, <3>6, <3>7 DEF WindowInv, TypeOK
    <3>13. QED
      BY <3>3, <3>9, <3>10, <3>11, <3>12 DEF WindowInv
  <2>2. CASE AutoLockRead(o) \/ AutoLockWrite(o) \/ AutoLockFails(o) \/ InsertFails(o)
    <3>1. UNCHANGED <<orderVars, now>> /\ create[o] \notin {"idle", "done"}
      BY <2>2 DEF AutoLockRead, AutoLockWrite, AutoLockFails, InsertFails
    <3>2. \E s \in Stages : create' = [create EXCEPT ![o] = s] /\
            (s \in {"eligible", "locking", "locked"} => create[o] \in {"eligible", "locking", "locked"})
      BY <2>2 DEF AutoLockRead, AutoLockWrite, AutoLockFails, InsertFails, Stages
    <3>3. QED
      BY <1>2, <3>1, <3>2
  <2>3. CASE Insert(o)
    <3>1. /\ create[o] \in {"locked", "plain"} /\ now' = now
          /\ \A p \in Orders : create'[p] = IF p = o THEN "done" ELSE create[p]
          /\ \A p \in Orders : born'[p] = IF p = o THEN now ELSE born[p]
          /\ auto' = (IF create[o] = "locked" THEN auto \cup {o} ELSE auto)
      BY <2>3 DEF Insert, TypeOK
    <3>2. \A p \in Orders : p # o => (Row(p)' <=> Row(p))
      BY <2>3 DEF Insert, Row, TypeOK
    <3>3. now \in Nat /\ Window \in Nat /\ auto \subseteq Orders /\ born \in [Orders -> Nat] /\ o \notin auto
      BY <3>1, OrderAssumption DEF TypeOK, WindowInv
    <3>4. \A p \in auto' : p # o => p \in auto
      BY <3>1
    <3>5. \A p \in auto : p # o /\ create[o] = "locked" /\ Row(p) /\ Creator[p] = Creator[o] => now >= born[p] + Window
      BY <3>3 DEF WindowInv
    <3>6. AutoOncePerWindow'
      <4>1. SUFFICES ASSUME NEW p \in auto', NEW q \in auto', p # q, Row(p)', Row(q)', Creator[p] = Creator[q]
                     PROVE  born'[p] >= born'[q] + Window \/ born'[q] >= born'[p] + Window
        BY DEF AutoOncePerWindow
      <4>2. p \in Orders /\ q \in Orders
        BY DEF TypeOK
      <4>3. CASE p # o /\ q # o
        BY <3>1, <3>2, <3>4, <4>1, <4>2, <4>3 DEF WindowInv, AutoOncePerWindow
      <4>4. CASE p = o
        <5>1. create[o] = "locked" /\ q \in auto /\ q # o /\ Row(q)
          BY <3>1, <3>2, <3>3, <3>4, <4>1, <4>2, <4>4
        <5>2. born'[p] = now /\ born'[q] = born[q]
          BY <3>1, <4>2, <4>4, <5>1
        <5>3. QED
          BY <3>5, <4>1, <4>4, <5>1, <5>2
      <4>5. CASE q = o
        <5>1. create[o] = "locked" /\ p \in auto /\ p # o /\ Row(p)
          BY <3>1, <3>2, <3>3, <3>4, <4>1, <4>2, <4>5
        <5>2. born'[q] = now /\ born'[p] = born[p]
          BY <3>1, <4>2, <4>5, <5>1
        <5>3. QED
          BY <3>5, <4>1, <4>5, <5>1, <5>2
      <4>6. QED
        BY <4>3, <4>4, <4>5
    <3>7. \A p \in Orders : create'[p] # "done" => p \notin auto'
      BY <3>1, <3>4 DEF WindowInv
    <3>8. \A p \in Orders : Row(p)' => create'[p] = "done"
      BY <3>1, <3>2 DEF WindowInv
    <3>9. \A p, q \in Orders :
            Creator[p] = Creator[q] /\ create'[p] \notin {"idle", "done"} /\ create'[q] \notin {"idle", "done"} => p = q
      BY <3>1 DEF WindowInv
    <3>10. \A p \in Orders : create'[p] \in {"eligible", "locking", "locked"} =>
            \A q \in auto' : Row(q)' /\ Creator[q] = Creator[p] => now' >= born'[q] + Window
      <4>1. SUFFICES ASSUME NEW p \in Orders, create'[p] \in {"eligible", "locking", "locked"},
                            NEW q \in auto', Row(q)', Creator[q] = Creator[p]
                     PROVE  now' >= born'[q] + Window
        OBVIOUS
      <4>2. p # o /\ create'[p] = create[p] /\ Creator[p] # Creator[o]
        BY <3>1, <4>1 DEF WindowInv
      <4>3. q # o /\ q \in auto /\ q \in Orders
        BY <3>3, <3>4, <4>1, <4>2
      <4>4. Row(q) /\ born'[q] = born[q]
        BY <3>1, <3>2, <4>1, <4>3
      <4>5. QED
        BY <3>1, <4>1, <4>2, <4>3, <4>4 DEF WindowInv
    <3>11. QED
      BY <3>6, <3>7, <3>8, <3>9, <3>10 DEF WindowInv
  <2>4. CASE DeleteApprovalOrder(o) \/ CheckOrder(o) \/ cancelApprovalOrder(o)
    <3>1. UNCHANGED <<auto, born, create, now>>
      BY <2>4 DEF DeleteApprovalOrder, CheckOrder, cancelApprovalOrder, orderVars
    <3>2. \A p \in Orders : Row(p)' => Row(p)
      BY <2>4 DEF DeleteApprovalOrder, CheckOrder, cancelApprovalOrder, orderVars, Row, TypeOK
    <3>3. QED
      BY <1>1, <3>1, <3>2
  <2>5. QED
    BY <1>3, <2>1, <2>2, <2>3, <2>4 DEF OrderStep, Creation
<1>4. ASSUME NEW j \in Jobs, Job(j)
      PROVE  WindowInv'
  BY <1>1, <1>4, JobFacts DEF Row
<1>5. ASSUME NEW a \in Admins, Reviewer(a)
      PROVE  WindowInv'
  BY <1>1, <1>5, ReviewerType DEF Untouched, orderVars, Row
<1>6. ASSUME NEW c \in Slots, Serve(c) \/ RequestFails(c)
      PROVE  WindowInv'
  <2>1. UNCHANGED <<auto, born, create, now>>
    BY <1>6, ServeType
  <2>2. \A o \in Orders : Row(o)' => Row(o)
    <3>1. CASE UpdateApprovalOrder(c)
      BY <3>1 DEF UpdateApprovalOrder, Row, TypeOK
    <3>2. CASE AddLockTimeRead(c) \/ AddLockTimeWrite(c) \/ RequestFails(c)
      BY <3>2 DEF AddLockTimeRead, AddLockTimeWrite, RequestFails, orderVars, Row
    <3>3. QED
      BY <1>6, <3>1, <3>2 DEF Serve
  <2>3. QED
    BY <1>1, <2>1, <2>2
<1>7. ASSUME NEW c \in Slots, Answered(c)
      PROVE  WindowInv'
  BY <1>1, <1>7, AnsweredType DEF Untouched, orderVars, Row
<1>8. CASE CheckOrders \/ UNCHANGED vars
  BY <1>1, <1>8 DEF CheckOrders, vars, orderVars, Row
<1>9. CASE Tick
  <2>1. now' = now + 1 /\ UNCHANGED <<orderVars, create>>
    BY <1>9 DEF Tick
  <2>2. now <= now' /\ auto' = auto /\ born' = born /\ create' = create /\ \A o \in Orders : Row(o)' => Row(o)
    BY <2>1 DEF TypeOK, orderVars, Row
  <2>3. QED
    BY <2>2, WindowKept
<1>10. QED
  BY <1>3, <1>4, <1>5, <1>6, <1>7, <1>8, <1>9 DEF Next, OrderStep

\* As long as each user sends one request at a time, the handler approves at most one
\* short order without review in 48 hours.
THEOREM AutoApprovedOnce == Spec => []AutoOncePerWindow
<1>1. Init => TypeOK /\ PageInv /\ WindowInv
  BY InitType DEF Init, PageInv, WindowInv, AutoOncePerWindow, Active, Row
<1>2. TypeOK /\ PageInv /\ WindowInv /\ [Next]_vars => (TypeOK /\ PageInv /\ WindowInv)'
  BY TypeStep, WindowStep
<1>3. WindowInv => AutoOncePerWindow
  BY DEF WindowInv
<1>4. QED
  BY <1>1, <1>2, <1>3, PTL DEF Spec

-----------------------------------------------------------------------------
(* Orders of jobs that run are not cancelled.                                 *)

LEMMA QuietStep ==
  ASSUME TypeOK, PageInv, QuietInv, [Next]_vars
  PROVE  QuietInv'
<1>1. ASSUME UNCHANGED <<phase, row, seen, quiet, check>>
      PROVE  QuietInv'
  BY <1>1 DEF QuietInv
<1>2. ASSUME NEW o \in Orders, OrderStep(o)
      PROVE  QuietInv'
  <2>1. CASE CheckOrder(o)
    <3>1. check'.found \in {NoOrder, o} /\ (check'.found = o => row[JobOf[o]] # "Running" \/ check'.error)
      BY <2>1, CheckOrderFacts
    <3>2. NoOrder \notin Orders /\ UNCHANGED jobVars
      BY <2>1, OrderAssumption DEF CheckOrder
    <3>3. QED
      BY <3>1, <3>2 DEF QuietInv, jobVars
  <2>2. CASE cancelApprovalOrder(o)
    <3>1. check'.found = NoOrder
      BY <2>2, CancelFacts
    <3>2. NoOrder \notin Orders /\ UNCHANGED jobVars
      BY <2>2, OrderAssumption DEF cancelApprovalOrder
    <3>3. QED
      BY <3>1, <3>2 DEF QuietInv, jobVars
  <2>3. CASE Creation(o) \/ DeleteApprovalOrder(o)
    BY <1>1, <2>3 DEF Creation, Ask, AutoLockRead, AutoLockWrite, AutoLockFails, Insert, InsertFails,
                      DeleteApprovalOrder, jobVars
  <2>4. QED
    BY <1>2, <2>1, <2>2, <2>3 DEF OrderStep
<1>3. ASSUME NEW j \in Jobs, Job(j)
      PROVE  QuietInv'
  <2> USE DEF TypeOK
  <2>1. check' = check
    BY <1>3, JobFacts
  <2>2. ASSUME quiet' \subseteq quiet \ {j},
               \A k \in Jobs : k # j => phase'[k] = phase[k] /\ row'[k] = row[k] /\ seen'[k] = seen[k]
        PROVE  QuietInv'
    BY <2>1, <2>2 DEF QuietInv
  <2>3. CASE PhaseChanges(j)
    <3>1. PICK p : phase' = [phase EXCEPT ![j] = p] /\ quiet' = IF p = phase[j] THEN quiet ELSE quiet \ {j}
      BY <2>3 DEF PhaseChanges
    <3>2. UNCHANGED <<row, seen>>
      BY <2>3 DEF PhaseChanges
    <3>3. CASE p = phase[j]
      BY <1>1, <2>1, <3>1, <3>2, <3>3
    <3>4. CASE p # phase[j]
      BY <2>2, <3>1, <3>2, <3>4
    <3>5. QED
      BY <3>3, <3>4
  <2>4. CASE Activate(j)
    <3>1. j \notin quiet
      BY <2>4 DEF Activate, QuietInv
    <3>2. QED
      BY <2>2, <2>4, <3>1 DEF Activate
  <2>5. CASE DeleteJob(j)
    BY <2>2, <2>5 DEF DeleteJob
  <2>6. CASE Reconcile(j)
    BY <2>1, <2>6 DEF Reconcile, QuietInv
  <2>7. CASE WriteRow(j)
    <3>1. CASE Requeue(j)
      BY <2>1, <2>7, <3>1 DEF WriteRow, Requeue, QuietInv
    <3>2. CASE ~Requeue(j)
      <4>1. /\ row' = [row EXCEPT ![j] = StatusFor(seen[j], row[j])]
            /\ seen' = [seen EXCEPT ![j] =
                 IF row[j] = "none" \/ seen[j] \in {"Running", "Pending"} THEN "none" ELSE "cancel"]
            /\ quiet' = IF /\ seen[j] = "Running" /\ phase[j] = "Running"
                           /\ \A o \in Orders : check.found = o => JobOf[o] # j
                        THEN quiet \cup {j} ELSE quiet
            /\ phase' = phase /\ seen[j] \in Phases \ {"absent"}
        BY <2>7, <3>2 DEF WriteRow
      <4>2. seen[j] = "Running" => row'[j] = "Running" /\ seen'[j] = "none"
        BY <4>1 DEF StatusFor
      <4>3. j \in quiet => seen[j] = "Running"
        BY <4>1 DEF QuietInv, Phases
      <4>4. QED
        BY <2>1, <4>1, <4>2, <4>3 DEF QuietInv
    <3>3. QED
      BY <3>1, <3>2
  <2>8. CASE cancelPendingApprovalOrders(j)
    <3>1. j \notin quiet
      BY <2>8 DEF cancelPendingApprovalOrders, QuietInv
    <3>2. QED
      BY <2>2, <2>8, <3>1 DEF cancelPendingApprovalOrders
  <2>9. CASE FreeRow(j)
    <3>1. j \notin quiet
      BY <2>9 DEF FreeRow, QuietInv
    <3>2. QED
      BY <2>2, <2>9, <3>1 DEF FreeRow, Requeue
  <2>10. CASE ClearLockTime(j)
    BY <1>1, <2>10 DEF ClearLockTime, jobVars
  <2>11. QED
    BY <1>3, <2>3, <2>4, <2>5, <2>6, <2>7, <2>8, <2>9, <2>10 DEF Job, Reconciler
<1>4. ASSUME NEW a \in Admins, Reviewer(a)
      PROVE  QuietInv'
  BY <1>1, <1>4, ReviewerType DEF Untouched, jobVars
<1>5. ASSUME NEW c \in Slots, Serve(c) \/ RequestFails(c)
      PROVE  QuietInv'
  BY <1>1, <1>5, ServeType DEF jobVars
<1>6. ASSUME NEW c \in Slots, Answered(c)
      PROVE  QuietInv'
  BY <1>1, <1>6, AnsweredType DEF Untouched, jobVars
<1>7. CASE CheckOrders
  BY <1>7, OrderAssumption DEF CheckOrders, NoCheck, QuietInv, jobVars
<1>8. CASE Tick \/ UNCHANGED vars
  BY <1>1, <1>8 DEF Tick, vars, jobVars
<1>9. QED
  BY <1>2, <1>3, <1>4, <1>5, <1>6, <1>7, <1>8 DEF Next, OrderStep

\* The step that cancels an order is the reconciler's or the check's.
LEMMA CancelingStep ==
  ASSUME TypeOK, PageInv, QuietInv, [Next]_vars,
         NEW o \in Orders, status[o] # "Canceled", status'[o] = "Canceled"
  PROVE  JobOf[o] \notin quiet \/ check.error
<1>1. ASSUME NEW p \in Orders, OrderStep(p)
      PROVE  JobOf[o] \notin quiet \/ check.error
  <2>1. CASE Insert(p)
    BY <2>1 DEF Insert, TypeOK
  <2>2. CASE DeleteApprovalOrder(p)
    BY <2>2 DEF DeleteApprovalOrder, TypeOK
  <2>3. CASE cancelApprovalOrder(p)
    <3>1. p = o
      BY <2>3 DEF cancelApprovalOrder, TypeOK
    <3>2. QED
      BY <2>3, <3>1 DEF cancelApprovalOrder, QuietInv
  <2>4. CASE Ask(p) \/ AutoLockRead(p) \/ AutoLockWrite(p) \/ AutoLockFails(p) \/ InsertFails(p) \/ CheckOrder(p)
    BY <2>4 DEF Ask, AutoLockRead, AutoLockWrite, AutoLockFails, InsertFails, CheckOrder, orderVars
  <2>5. QED
    BY <1>1, <2>1, <2>2, <2>3, <2>4 DEF OrderStep, Creation
<1>2. ASSUME NEW j \in Jobs, Job(j)
      PROVE  JobOf[o] \notin quiet
  <2>1. CASE cancelPendingApprovalOrders(j)
    <3>1. JobOf[o] = j
      BY <2>1 DEF cancelPendingApprovalOrders
    <3>2. QED
      BY <2>1, <3>1 DEF cancelPendingApprovalOrders, QuietInv
  <2>2. CASE PhaseChanges(j) \/ Activate(j) \/ DeleteJob(j) \/ Reconcile(j) \/ WriteRow(j) \/ FreeRow(j)
             \/ ClearLockTime(j)
    BY <2>2 DEF PhaseChanges, Activate, DeleteJob, Reconcile, WriteRow, FreeRow, ClearLockTime, orderVars
  <2>3. QED
    BY <1>2, <2>1, <2>2 DEF Job, Reconciler
<1>3. ASSUME NEW a \in Admins, Reviewer(a)
      PROVE  FALSE
  BY <1>3, ReviewerType DEF Untouched, orderVars
<1>4. ASSUME NEW c \in Slots, Serve(c) \/ RequestFails(c)
      PROVE  FALSE
  <2>1. CASE UpdateApprovalOrder(c)
    BY <2>1 DEF UpdateApprovalOrder, TypeOK
  <2>2. CASE AddLockTimeRead(c) \/ AddLockTimeWrite(c) \/ RequestFails(c)
    BY <2>2 DEF AddLockTimeRead, AddLockTimeWrite, RequestFails, orderVars
  <2>3. QED
    BY <1>4, <2>1, <2>2 DEF Serve
<1>5. ASSUME NEW c \in Slots, Answered(c)
      PROVE  FALSE
  BY <1>5, AnsweredType DEF Untouched, orderVars
<1>6. CASE CheckOrders \/ Tick \/ UNCHANGED vars
  BY <1>6 DEF CheckOrders, Tick, vars, orderVars
<1>7. QED
  BY <1>1, <1>2, <1>3, <1>4, <1>5, <1>6 DEF Next, OrderStep

\* Whatever restarts, deletions, late reconciliations and checks interleave, a job that
\* was found running and still runs keeps its orders, but for a check that fails to read it.
THEOREM RunningKeepOrders == Spec => RunningJobsKeepOrders
<1>1. Init => TypeOK /\ PageInv /\ QuietInv
  BY InitType, OrderAssumption DEF Init, PageInv, QuietInv, Active, NoCheck
<1>2. TypeOK /\ PageInv /\ QuietInv /\ [Next]_vars => (TypeOK /\ PageInv /\ QuietInv)'
  BY TypeStep, QuietStep
<1>3. TypeOK /\ PageInv /\ QuietInv /\ [Next]_vars =>
        [\A o \in Orders : status[o] # "Canceled" /\ status'[o] = "Canceled" =>
           JobOf[o] \notin quiet \/ check.error]_vars
  BY CancelingStep
<1>4. QED
  BY <1>1, <1>2, <1>3, PTL DEF Spec, RunningJobsKeepOrders
=============================================================================
