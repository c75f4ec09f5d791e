------------------------------ MODULE Approval ------------------------------
(***************************************************************************)
(* The approval of job lock orders.  A user asks for a lock of a job; a    *)
(* short request is granted at once, the others wait for an administrator, *)
(* whose page locks the job in a dialog and approves the order when the    *)
(* lock is answered.  The reconciler cancels the pending orders of a job   *)
(* it sees neither running nor pending, and an administrator's check those *)
(* of a job whose row it does not read as running.                         *)
(*                                                                         *)
(* Three pages share the hook useApprovalOrderLock and the dialog:         *)
(*   "list"    the dialog stays mounted when it closes;                    *)
(*   "tab"     the orders of a job: the dialog unmounts when it closes;    *)
(*   "detail"  one order of a job at a time, its related orders a click    *)
(*             away on the same component: closing clears the selection,   *)
(*             and the answer of the lock is handled for what is selected  *)
(*             then.                                                       *)
(* A callback of a mutation runs with the values of the last render of the *)
(* dialog that started it, also after that dialog is unmounted.            *)
(*                                                                         *)
(* How long a lock lasts is left out; a job is pinned when it is locked    *)
(* for ever, which is when an extension is refused.                        *)
(***************************************************************************)
EXTENDS Integers

CONSTANTS
  Orders, NoOrder,     \* requests for a lock; none
  Jobs, JobOf,         \* the job an order is about
  Changing,            \* jobs that start, restart, end or are deleted meanwhile; the others run
  Users, Creator,      \* the user who asks
  Short,               \* orders for less than 12 hours
  Deletable,           \* orders their creator may delete
  CheckIsUsed,         \* an administrator may call the check (no page does)
  Admins, Page,        \* administrators at work, and the page each works on
  Shows,               \* the orders of that page; those a detail page can show, of one job
  Slots,               \* requests of the administrators' browsers under way
  Window,              \* the 48 hours between two automatic approvals
  MaxTime, MaxFaults   \* bounds: the clock, and the requests that fail

ASSUME OrderAssumption ==
  /\ NoOrder \notin Orders
  /\ JobOf \in [Orders -> Jobs] /\ Creator \in [Orders -> Users] /\ Short \subseteq Orders
  /\ Changing \subseteq Jobs /\ Deletable \subseteq Orders /\ CheckIsUsed \in BOOLEAN
  /\ Page \in [Admins -> {"list", "tab", "detail"}]
  /\ Shows \in [Admins -> SUBSET Orders]
  /\ \A a \in Admins : Page[a] = "detail" => \A o, p \in Shows[a] : JobOf[o] = JobOf[p]
  /\ Window \in Nat /\ MaxTime \in Nat /\ MaxFaults \in Nat

VARIABLES
  status,      \* the row of an order; "none" before it is created, "deleted" after
  auto, born,  \* approved without review (its review notes), and when it was created
  create,      \* the creation request of an order
  granted, locked, \* orders for which the handler, and an administrator, wrote a lock of the job
  pinned,      \* jobs locked for ever
  phase, row,  \* a job in the cluster ("absent" where there is none), and its database row
  dirty, seen, \* jobs to reconcile, and what the reconciler that has a job in hand acts on
  ran,         \* jobs whose row was running at some time: a cached list may still say so
  quiet,       \* history: jobs found running, with nothing of an earlier phase left to do
  check,       \* an administrator's check: orders left, and the one to cancel and why
  ui,          \* what a page has selected, its dialog, and the orders it shows as pending
  call,        \* the requests of the pages
  now, faults

orderVars == <<status, auto, born>>
jobVars   == <<phase, row, dirty, seen, ran, quiet>>
pageVars  == <<ui, call>>
vars == <<orderVars, create, granted, locked, pinned, jobVars, check, pageVars, now, faults>>

Statuses == {"none", "Pending", "Approved", "Rejected", "Canceled", "deleted"}
Phases   == {"absent", "new", "Pending", "Running", "Restarting", "Ended"}
Rows     == {"none", "Prequeue"} \cup (Phases \ {"absent"})
Stages   == {"idle", "eligible", "locking", "locked", "plain", "done"}

Calls == [by : Admins, kind : {"lock", "approve", "reject"}, order : Orders,
          at : {"sent", "read", "done", "failed"}, mounted : BOOLEAN]
Idle == [at |-> "idle"]
Checks  == [left : SUBSET Orders, found : Orders \cup {NoOrder}, error : BOOLEAN]
NoCheck == [left |-> {}, found |-> NoOrder, error |-> FALSE]
Views == [sel : Orders \cup {NoOrder}, open : BOOLEAN, seen : SUBSET Orders]

Active(c)     == call[c] # Idle
Row(o)        == status[o] \notin {"none", "deleted"}
Sent(a, o, k) == [by |-> a, kind |-> k, order |-> o, at |-> "sent", mounted |-> TRUE]
CanFail       == faults < MaxFaults

\* A request of kind k that the page of a has under way: isPending of its mutation.
Busy(a, k) == \E c \in Slots : Active(c) /\ call[c].by = a /\ call[c].kind = k

Init ==
  /\ status = [o \in Orders |-> "none"] /\ auto = {} /\ born = [o \in Orders |-> 0]
  /\ create = [o \in Orders |-> "idle"]
  /\ granted = {} /\ locked = [a \in Admins |-> {}] /\ pinned = {}
  /\ phase \in [Jobs -> {"absent", "Running"}] /\ \A j \in Jobs \ Changing : phase[j] = "Running"
  /\ row = [j \in Jobs |-> IF phase[j] = "Running" THEN "Running" ELSE "Prequeue"]
  /\ dirty = {} /\ seen = [j \in Jobs |-> "none"]
  /\ ran = {j \in Jobs : phase[j] = "Running"} /\ quiet = ran
  /\ check = NoCheck
  /\ ui = [a \in Admins |-> [sel |-> NoOrder, open |-> FALSE, seen |-> {}]]
  /\ call = [c \in Slots |-> Idle]
  /\ now = 0 /\ faults = 0

-----------------------------------------------------------------------------
(* A user asks for a lock.                                                  *)

\* Mutant: the window is one unit short.
RecentAutoShort(o) ==
  \E p \in auto : Row(p) /\ Creator[p] = Creator[o] /\ born[p] > now - Window + 1

\* An approval without review among the creator's orders of the last 48 hours.
RecentAuto(o) ==
  \E p \in auto : Row(p) /\ Creator[p] = Creator[o] /\ born[p] > now - Window

\* JobLockSheet sends one request at a time.
isSubmitting(u) == \E p \in Orders : Creator[p] = u /\ create[p] \notin {"idle", "done"}

\* The handler finds the job's row, whatever its status is, and decides whether the
\* order needs a review.
Ask(o) ==
  /\ create[o] = "idle" /\ ~isSubmitting(Creator[o]) /\ row[JobOf[o]] # "none"
  /\ create' = [create EXCEPT ![o] = IF o \in Short /\ ~RecentAuto(o) THEN "eligible" ELSE "plain"]
  /\ UNCHANGED <<orderVars, granted, locked, pinned, jobVars, check, pageVars, now, faults>>

\* A lock extends that of a row that is there and not locked for ever.
Lockable(j) == row[j] # "none" /\ j \notin pinned

\* lockJobForApproval reads the lock and writes the extended one; when that fails the
\* order is created all the same.
AutoLockRead(o) ==
  /\ create[o] = "eligible"
  /\ create' = [create EXCEPT ![o] = IF Lockable(JobOf[o]) THEN "locking" ELSE "plain"]
  /\ UNCHANGED <<orderVars, granted, locked, pinned, jobVars, check, pageVars, now, faults>>

AutoLockWrite(o) ==
  /\ create[o] = "locking"
  /\ create' = [create EXCEPT ![o] = "locked"]
  /\ granted' = granted \cup {o} /\ pinned' = pinned \ {JobOf[o]}
  /\ UNCHANGED <<orderVars, locked, jobVars, check, pageVars, now, faults>>

Insert(o) ==
  /\ create[o] \in {"locked", "plain"}
  /\ create' = [create EXCEPT ![o] = "done"]
  /\ status' = [status EXCEPT ![o] = IF create[o] = "locked" THEN "Approved" ELSE "Pending"]
  /\ auto' = IF create[o] = "locked" THEN auto \cup {o} ELSE auto
  /\ born' = [born EXCEPT ![o] = now]
  /\ UNCHANGED <<granted, locked, pinned, jobVars, check, pageVars, now, faults>>

\* A failure to lock leaves the order to a review; a failure to insert it ends the
\* request, and the lock stays.
AutoLockFails(o) ==
  /\ CanFail /\ create[o] \in {"eligible", "locking"}
  /\ create' = [create EXCEPT ![o] = "plain"]
  /\ faults' = faults + 1
  /\ UNCHANGED <<orderVars, granted, locked, pinned, jobVars, check, pageVars, now>>

InsertFails(o) ==
  /\ CanFail /\ create[o] \in {"locked", "plain"}
  /\ create' = [create EXCEPT ![o] = "done"]
  /\ faults' = faults + 1
  /\ UNCHANGED <<orderVars, granted, locked, pinned, jobVars, check, pageVars, now>>

DeleteApprovalOrder(o) ==
  /\ o \in Deletable /\ Row(o)
  /\ status' = [status EXCEPT ![o] = "deleted"]
  /\ UNCHANGED <<auto, born, create, granted, locked, pinned, jobVars, check, pageVars, now, faults>>

-----------------------------------------------------------------------------
(* Jobs change, and pending orders are cancelled.                           *)

\* "Restarting" stands for the phases that are neither active nor final, "Ended" for the
\* final ones.
Follows == [new        |-> {"Pending", "Ended", "absent"},
            Pending    |-> {"Running", "Restarting", "Ended", "absent"},
            Running    |-> {"Restarting", "Ended", "absent"},
            Restarting |-> {"Pending", "Running", "Ended", "absent"},
            Ended      |-> {"absent"}]

\* The job changes its phase or something else: an event for the reconciler.
PhaseChanges(j) ==
  /\ j \in Changing /\ phase[j] # "absent"
  /\ \E p \in Follows[phase[j]] \cup {phase[j]} :
        /\ phase' = [phase EXCEPT ![j] = p]
        /\ quiet' = IF p = phase[j] THEN quiet ELSE quiet \ {j}
  /\ dirty' = dirty \cup {j}
  /\ UNCHANGED <<orderVars, create, granted, locked, pinned, row, seen, ran, check, pageVars, now, faults>>

\* The prequeue watcher creates a queued job; the commit of its row may fail.
Activate(j) ==
  /\ j \in Changing /\ phase[j] = "absent" /\ row[j] = "Prequeue"
  /\ phase' = [phase EXCEPT ![j] = "new"] /\ dirty' = dirty \cup {j}
  /\ row' \in {row, [row EXCEPT ![j] = "Pending"]}
  /\ UNCHANGED <<orderVars, create, granted, locked, pinned, seen, ran, quiet, check, pageVars, now, faults>>

\* A user deletes the job: the row goes with a final phase or without a job, else its
\* status is final; deleting the job from the cluster may fail then.
DeleteJob(j) ==
  /\ j \in Changing /\ row[j] # "none"
  /\ row' = [row EXCEPT ![j] =
       IF phase[j] = "Ended" \/ (phase[j] = "absent" /\ @ # "Prequeue") THEN "none" ELSE "Ended"]
  /\ quiet' = quiet \ {j}
  /\ \/ /\ phase' = [phase EXCEPT ![j] = "absent"]
        /\ dirty' = IF phase[j] = "absent" THEN dirty ELSE dirty \cup {j}
        /\ UNCHANGED faults
     \/ /\ CanFail /\ phase[j] # "absent" /\ faults' = faults + 1
        /\ UNCHANGED <<phase, dirty>>
  /\ UNCHANGED <<orderVars, create, granted, locked, pinned, seen, ran, check, pageVars, now>>

\* Reconcile fetches the job from the informer's cache.
Reconcile(j) ==
  /\ j \in dirty /\ seen[j] = "none"
  /\ dirty' = dirty \ {j} /\ seen' = [seen EXCEPT ![j] = phase[j]]
  /\ UNCHANGED <<orderVars, create, granted, locked, pinned, phase, row, ran, quiet, check, pageVars, now, faults>>

\* The status an existing row takes: an empty phase leaves it, or makes it pending.
StatusFor(p, r) ==
  IF p = "new" /\ r # "none" THEN IF r = "Prequeue" THEN "Pending" ELSE r ELSE p

\* An error of the database queues the job again.
Requeue(j) ==
  /\ CanFail /\ faults' = faults + 1
  /\ dirty' = dirty \cup {j} /\ seen' = [seen EXCEPT ![j] = "none"]
  /\ UNCHANGED <<row, ran, quiet>>

\* Mutant: the orders of a job that is not active are left alone.
WriteRowOnly(j) ==
  /\ seen[j] \in Phases \ {"absent"}
  /\ row' = [row EXCEPT ![j] = StatusFor(seen[j], @)]
  /\ seen' = [seen EXCEPT ![j] = "none"]
  /\ ran' = IF row'[j] = "Running" THEN ran \cup {j} ELSE ran
  /\ UNCHANGED <<orderVars, create, granted, locked, pinned, phase, dirty, quiet, check, pageVars, now, faults>>

\* The row of a job that is there is created, and that is all, or it is updated; then
\* the orders are cancelled unless the phase is active.
WriteRow(j) ==
  /\ seen[j] \in Phases \ {"absent"}
  /\ \/ /\ row' = [row EXCEPT ![j] = StatusFor(seen[j], @)]
        /\ seen' = [seen EXCEPT ![j] =
             IF row[j] = "none" \/ @ \in {"Running", "Pending"} THEN "none" ELSE "cancel"]
        /\ ran' = IF row'[j] = "Running" THEN ran \cup {j} ELSE ran
        /\ quiet' = IF /\ seen[j] = "Running" /\ phase[j] = "Running"
                       /\ \A o \in Orders : check.found = o => JobOf[o] # j
                    THEN quiet \cup {j} ELSE quiet
        /\ UNCHANGED <<dirty, faults>>
     \/ Requeue(j)
  /\ UNCHANGED <<orderVars, create, granted, locked, pinned, phase, check, pageVars, now>>

\* One conditional statement; its error is only logged.  It comes after the row of a job
\* that is there, and before the row of one that is gone.
cancelPendingApprovalOrders(j) ==
  /\ seen[j] \in {"absent", "cancel"}
  /\ seen' = [seen EXCEPT ![j] = IF @ = "absent" THEN "freeing" ELSE "none"]
  /\ \/ /\ status' = [o \in Orders |-> IF JobOf[o] = j /\ status[o] = "Pending" THEN "Canceled" ELSE status[o]]
        /\ UNCHANGED faults
     \/ /\ CanFail /\ faults' = faults + 1
        /\ UNCHANGED status
  /\ UNCHANGED <<auto, born, create, granted, locked, pinned, phase, row, dirty, ran, quiet, check, pageVars, now>>

\* The row of a job that is gone, unless it is still queued, is final from now on.
FreeRow(j) ==
  /\ seen[j] = "freeing"
  /\ \/ /\ row' = [row EXCEPT ![j] = IF @ \in {"none", "Prequeue"} THEN @ ELSE "Ended"]
        /\ seen' = [seen EXCEPT ![j] = "none"]
        /\ UNCHANGED <<dirty, ran, quiet, faults>>
     \/ Requeue(j)
  /\ UNCHANGED <<orderVars, create, granted, locked, pinned, phase, check, pageVars, now>>

\* UpdateApprovalOrderByJobStatus reads the pending orders, then the job of each in turn.
CheckOrders ==
  /\ CheckIsUsed /\ check = NoCheck
  /\ check' = [NoCheck EXCEPT !.left = {o \in Orders : status[o] = "Pending"}]
  /\ UNCHANGED <<orderVars, create, granted, locked, pinned, jobVars, pageVars, now, faults>>

isJobRunning(j) == row[j] = "Running"

\* Mutant: the check does not look at the job.
CheckAnyOrder(o) ==
  /\ o \in check.left /\ check.found = NoOrder
  /\ check' = [check EXCEPT !.left = @ \ {o}, !.found = o]
  /\ UNCHANGED <<orderVars, create, granted, locked, pinned, jobVars, pageVars, now, faults>>

\* An order is to be cancelled when its job does not run by its row, and on any error
\* of that query, as if the job did not exist.
CheckOrder(o) ==
  /\ o \in check.left /\ check.found = NoOrder
  /\ \/ /\ check' = [check EXCEPT !.left = @ \ {o},
                                  !.found = IF isJobRunning(JobOf[o]) THEN NoOrder ELSE o]
        /\ UNCHANGED faults
     \/ /\ check' = [check EXCEPT !.left = @ \ {o}, !.found = o, !.error = TRUE]
        /\ CanFail /\ faults' = faults + 1
  /\ UNCHANGED <<orderVars, create, granted, locked, pinned, jobVars, pageVars, now>>

\* Cancels by the order's id, whatever its status is by then; an error is only logged.
cancelApprovalOrder(o) ==
  /\ check.found = o
  /\ check' = [check EXCEPT !.found = NoOrder, !.error = FALSE]
  /\ \/ /\ status' = IF Row(o) THEN [status EXCEPT ![o] = "Canceled"] ELSE status
        /\ UNCHANGED faults
     \/ /\ CanFail /\ faults' = faults + 1
        /\ UNCHANGED status
  /\ UNCHANGED <<auto, born, create, granted, locked, pinned, jobVars, pageVars, now>>

-----------------------------------------------------------------------------
(* An administrator's page.                                                 *)

\* The page fetches its orders, a detail page the one it shows; between two fetches it
\* shows what was.
Refresh(a) ==
  /\ IF Page[a] = "detail"
     THEN \E o \in Shows[a] :
            ui' = [ui EXCEPT ![a].seen = IF status[o] = "Pending" THEN @ \cup {o} ELSE @ \ {o}]
     ELSE ui' = [ui EXCEPT ![a].seen = {o \in Shows[a] : status[o] = "Pending"}]
  /\ UNCHANGED <<orderVars, create, granted, locked, pinned, jobVars, check, call, now, faults>>

\* A dialog is mounted while its page has a selection; on the tab, while it is open too.
Mounted(a, v) == v.sel # NoOrder /\ (Page[a] = "tab" => v.open)

\* The page of a shows v from now on.  A dialog for another order is another component,
\* and what an unmounted dialog has under way does not disable the next one.
Show(a, v, calls) ==
  /\ ui' = [ui EXCEPT ![a] = v]
  /\ call' = [c \in Slots |->
       IF calls[c] # Idle /\ calls[c].by = a /\ (~Mounted(a, v) \/ v.sel # ui[a].sel)
       THEN [calls[c] EXCEPT !.mounted = FALSE] ELSE calls[c]]

\* Another order on the same detail page: while it loads the dialog is not mounted.
Navigate(a) ==
  /\ Page[a] = "detail"
  /\ call' = [c \in Slots |->
       IF Active(c) /\ call[c].by = a THEN [call[c] EXCEPT !.mounted = FALSE] ELSE call[c]]
  /\ UNCHANGED <<orderVars, create, granted, locked, pinned, jobVars, check, ui, now, faults>>

\* handleApproveWithDelay, once the job was found running in the cached list of jobs.
handleApproveWithDelay(a, o) ==
  /\ o \in ui[a].seen /\ ~ui[a].open /\ JobOf[o] \in ran
  /\ ~Busy(a, "reject") /\ (Page[a] = "detail" => ~Busy(a, "approve"))
  /\ Show(a, [ui[a] EXCEPT !.sel = o, !.open = TRUE], call)
  /\ UNCHANGED <<orderVars, create, granted, locked, pinned, jobVars, check, now, faults>>

\* setOpen(false) as the page wires it: the detail page clears its selection as well.
Closed(a) ==
  [ui[a] EXCEPT !.open = FALSE,
                !.sel = IF Page[a] = "detail" /\ ~Busy(a, "approve") THEN NoOrder ELSE @]
Cleared(v) == [v EXCEPT !.open = FALSE, !.sel = NoOrder]

\* Escape and a click beside the dialog close it also while its lock is under way.
CloseDialog(a) ==
  /\ ui[a].open
  /\ Show(a, Closed(a), call)
  /\ UNCHANGED <<orderVars, create, granted, locked, pinned, jobVars, check, now, faults>>

SubmitLock(a, c) ==
  /\ ui[a].open /\ ~Active(c)
  /\ ~\E d \in Slots : Active(d) /\ call[d].by = a /\ call[d].kind = "lock" /\ call[d].mounted
  /\ call' = [call EXCEPT ![c] = Sent(a, ui[a].sel, "lock")]
  /\ UNCHANGED <<orderVars, create, granted, locked, pinned, jobVars, check, ui, now, faults>>

\* The reject dialog of the list and of the detail page, and the button of the tab.
Reject(a, c, o) ==
  /\ o \in ui[a].seen /\ ~ui[a].open /\ ~Active(c)
  /\ ~Busy(a, "reject") /\ (Page[a] = "detail" => ~Busy(a, "approve"))
  /\ call' = [call EXCEPT ![c] = Sent(a, o, "reject")]
  /\ UNCHANGED <<orderVars, create, granted, locked, pinned, jobVars, check, ui, now, faults>>

\* The answer of a served request reaches the page, or is lost.
Answer(c) ==
  \/ call' = [call EXCEPT ![c].at = "done"] /\ UNCHANGED faults
  \/ CanFail /\ call' = [call EXCEPT ![c].at = "failed"] /\ faults' = faults + 1

\* AddLockTime reads the row of the job and refuses to extend a lock for ever ...
AddLockTimeRead(c) ==
  /\ Active(c) /\ call[c].kind = "lock" /\ call[c].at = "sent"
  /\ call' = [call EXCEPT ![c].at = IF Lockable(JobOf[call[c].order]) THEN "read" ELSE "failed"]
  /\ UNCHANGED <<orderVars, create, granted, locked, pinned, jobVars, check, ui, now, faults>>

\* ... and writes the new one, for ever if the dialog says so, over whatever is stored.
AddLockTimeWrite(c) ==
  /\ Active(c) /\ call[c].kind = "lock" /\ call[c].at = "read"
  /\ locked' = [locked EXCEPT ![call[c].by] = @ \cup {call[c].order}]
  /\ pinned' \in {pinned \cup {JobOf[call[c].order]}, pinned \ {JobOf[call[c].order]}}
  /\ Answer(c)
  /\ UNCHANGED <<orderVars, create, granted, jobVars, check, ui, now>>

ClearLockTime(j) ==
  /\ j \in pinned
  /\ pinned' = pinned \ {j}
  /\ UNCHANGED <<orderVars, create, granted, locked, jobVars, check, pageVars, now, faults>>

\* Updates by the order's id, whatever its status is.
UpdateApprovalOrder(c) ==
  /\ Active(c) /\ call[c].kind \in {"approve", "reject"} /\ call[c].at = "sent"
  /\ LET o == call[c].order
         s == IF call[c].kind = "approve" THEN "Approved" ELSE "Rejected"
     IN  status' = IF Row(o) THEN [status EXCEPT ![o] = s] ELSE status
  /\ Answer(c)
  /\ UNCHANGED <<auto, born, create, granted, locked, pinned, jobVars, check, ui, now>>

\* A request fails before it wrote anything.
RequestFails(c) ==
  /\ Active(c) /\ call[c].at \in {"sent", "read"} /\ CanFail
  /\ call' = [call EXCEPT ![c].at = "failed"] /\ faults' = faults + 1
  /\ UNCHANGED <<orderVars, create, granted, locked, pinned, jobVars, check, ui, now>>

\* Mutants: the callback reads the selection on every page (the dialog without a key);
\* it is lost with its dialog.
SelectedTarget(c) == ui[call[c].by].sel
MountedTarget(c) == IF call[c].mounted THEN call[c].order ELSE NoOrder

\* The order the callback of a lock approves: the one its dialog was for, and on the
\* detail page the one that is selected.
Target(c) == IF Page[call[c].by] = "detail" THEN ui[call[c].by].sel ELSE call[c].order

\* onSuccess of the lock closes the dialog that is open, and approves the target.
LockAnswered(c) ==
  /\ Active(c) /\ call[c].kind = "lock" /\ call[c].at = "done"
  /\ LET a == call[c].by
     IN  Show(a, Closed(a),
              [call EXCEPT ![c] = IF Target(c) = NoOrder THEN Idle
                                  ELSE Sent(a, Target(c), "approve")])
  /\ UNCHANGED <<orderVars, create, granted, locked, pinned, jobVars, check, now, faults>>

\* The detail page takes the text of an answer for the order it shows, which it then
\* does not show as pending until it fetched it.
Overwritten(a) == {[ui[a] EXCEPT !.seen = @ \ {o}] : o \in Shows[a]}

\* onSuccess of the approval clears the selection, whatever it is by now.
ApproveAnswered(c) ==
  /\ Active(c) /\ call[c].kind = "approve" /\ call[c].at = "done"
  /\ LET a == call[c].by
     IN  \E v \in IF Page[a] = "detail" THEN Overwritten(a) ELSE {ui[a]} :
            Show(a, Cleared(v), [call EXCEPT ![c] = Idle])
  /\ UNCHANGED <<orderVars, create, granted, locked, pinned, jobVars, check, now, faults>>

RejectAnswered(c) ==
  /\ Active(c) /\ call[c].kind = "reject" /\ call[c].at = "done"
  /\ LET a == call[c].by
     IN  \E v \in IF Page[a] = "detail" THEN Overwritten(a) ELSE {ui[a]} :
            ui' = [ui EXCEPT ![a] = v]
  /\ call' = [call EXCEPT ![c] = Idle]
  /\ UNCHANGED <<orderVars, create, granted, locked, pinned, jobVars, check, now, faults>>

\* onError shows a message; only the detail page clears its selection, after an approval.
Failed(c) ==
  /\ Active(c) /\ call[c].at = "failed"
  /\ LET a == call[c].by
     IN  Show(a, IF Page[a] = "detail" /\ call[c].kind = "approve" THEN Cleared(ui[a]) ELSE ui[a],
              [call EXCEPT ![c] = Idle])
  /\ UNCHANGED <<orderVars, create, granted, locked, pinned, jobVars, check, now, faults>>

Tick ==
  /\ now < MaxTime
  /\ now' = now + 1
  /\ UNCHANGED <<orderVars, create, granted, locked, pinned, jobVars, check, pageVars, faults>>

-----------------------------------------------------------------------------
Creation(o) ==
  \/ Ask(o) \/ AutoLockRead(o) \/ AutoLockWrite(o) \/ AutoLockFails(o)
  \/ Insert(o) \/ InsertFails(o)
Reconciler(j) == Reconcile(j) \/ WriteRow(j) \/ cancelPendingApprovalOrders(j) \/ FreeRow(j)
Job(j)    == PhaseChanges(j) \/ Activate(j) \/ DeleteJob(j) \/ Reconciler(j) \/ ClearLockTime(j)
Serve(c)  == AddLockTimeRead(c) \/ AddLockTimeWrite(c) \/ UpdateApprovalOrder(c)
Answered(c) == LockAnswered(c) \/ ApproveAnswered(c) \/ RejectAnswered(c) \/ Failed(c)
Reviewer(a) ==
  \/ Refresh(a) \/ Navigate(a) \/ CloseDialog(a)
  \/ \E o \in Orders : handleApproveWithDelay(a, o)
  \/ \E c \in Slots : SubmitLock(a, c)
  \/ \E c \in Slots, o \in Orders : Reject(a, c, o)

Next ==
  \/ \E o \in Orders : Creation(o) \/ DeleteApprovalOrder(o) \/ CheckOrder(o) \/ cancelApprovalOrder(o)
  \/ \E j \in Jobs : Job(j)
  \/ \E a \in Admins : Reviewer(a)
  \/ \E c \in Slots : Serve(c) \/ RequestFails(c) \/ Answered(c)
  \/ CheckOrders \/ Tick

Spec == Init /\ [][Next]_vars

\* Requests are served or fail and their answers are handled; the reconciler works
\* its queue off.  Nobody has to press a button.
FairSpec ==
  /\ Spec
  /\ \A c \in Slots : WF_vars(Serve(c) \/ Answered(c))
  /\ \A j \in Jobs : WF_vars(Reconciler(j))

-----------------------------------------------------------------------------
TypeOK ==
  /\ status \in [Orders -> Statuses] /\ auto \subseteq Orders /\ born \in [Orders -> Nat]
  /\ create \in [Orders -> Stages] /\ granted \subseteq Orders
  /\ locked \in [Admins -> SUBSET Orders] /\ pinned \subseteq Jobs
  /\ phase \in [Jobs -> Phases] /\ row \in [Jobs -> Rows] /\ dirty \subseteq Jobs
  /\ seen \in [Jobs -> Phases \cup {"none", "cancel", "freeing"}]
  /\ ran \subseteq Jobs /\ quiet \subseteq Jobs /\ check \in Checks
  /\ ui \in [Admins -> Views] /\ call \in [Slots -> Calls \cup {Idle}]
  /\ now \in Nat /\ faults \in Nat

\* An order becomes approved only after a lock of its job was written for it, by the
\* handler or by the dialog the callback belongs to, whichever dialogs were closed and
\* opened in between.  On a detail page the lock may be that of another order of the same
\* job it showed: the late answer of one lock approves what is selected by then.
Behind(c) == IF Page[call[c].by] = "detail" THEN Shows[call[c].by] ELSE {call[c].order}
ApprovedAfterLock ==
  [][\A o \in Orders : status[o] # "Approved" /\ status'[o] = "Approved" =>
       \/ o \in granted
       \/ \E c \in Slots : /\ Active(c) /\ call[c].kind = "approve" /\ call[c].order = o
                           /\ Behind(c) \cap locked[call[c].by] # {}]_vars

\* Two orders of a user approved without review are 48 hours apart, unless one of them
\* was deleted.
AutoOncePerWindow ==
  \A o, p \in auto :
    o # p /\ Row(o) /\ Row(p) /\ Creator[o] = Creator[p] =>
      born[o] >= born[p] + Window \/ born[p] >= born[o] + Window

\* Neither the reconciler nor the check cancels an order of a job that runs since before
\* either looked at it, unless the check could not read the row of the job.
RunningJobsKeepOrders ==
  [][\A o \in Orders : status[o] # "Canceled" /\ status'[o] = "Canceled" =>
       JobOf[o] \notin quiet \/ check.error]_vars

\* The answer of a lock on the list and on the tab makes the order leave "Pending" or
\* its reviewer sees that the approval failed, also when the dialog was closed.
ApprovalFailed(o) == \E c \in Slots : Active(c) /\ call[c].kind = "approve" /\ call[c].order = o /\ call[c].at = "failed"
LockedBy(a, o) ==
  \E c \in Slots : Active(c) /\ call[c].by = a /\ call[c].kind = "lock" /\ call[c].order = o /\ call[c].at = "done"
LockIsFollowedUp ==
  \A a \in {b \in Admins : Page[b] # "detail"} :
    \A o \in Shows[a] : LockedBy(a, o) ~> status[o] # "Pending" \/ ApprovalFailed(o)

\* Once the reconciler heard of the end of a job, or of its disappearance, no order of it
\* stays pending, unless a request failed.  A job that is queued by its row may start again
\* before the reconciler looks.
Over(j) == j \in dirty /\ phase[j] \in {"Ended", "absent"} /\ row[j] # "Prequeue"
NonePending(j) == \A o \in Orders : JobOf[o] = j => status[o] # "Pending"
EndedJobsOrdersSettle ==
  \A j \in Jobs : Over(j) ~> NonePending(j) \/ faults > 0
=============================================================================
