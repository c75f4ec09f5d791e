----------------------------- MODULE MCApproval -----------------------------
(* A small instance of Approval: the orders of one user for one job, reviewed *)
(* on the tab of the job and on a detail page, and three stories of which a   *)
(* behaviour tells one.                                                       *)
EXTENDS Approval

CONSTANTS s1, s2, l1, l2, tab, detail, user, job, c1, c2

OneJob  == [o \in Orders |-> job]
OneUser == [o \in Orders |-> user]
Pages   == [a \in Admins |-> IF a = tab THEN "tab" ELSE "detail"]
Lists   == [a \in Admins |-> Orders \ (IF a = tab THEN Short ELSE {l1, l2})]

Unasked(S) == \A o \in S : create[o] = "idle"
JobRuns    == quiet = Jobs /\ dirty = {} /\ seen[job] = "none" /\ row[job] = "Running"
OneRequest == ~Active(c2)

\* Short orders and a reviewer on the detail page, while the clock runs; long orders and a
\* reviewer with two requests under way on the tab; an order of a job that changes, with
\* the tab and the check, which begins while no dialog was opened.  Only what somebody
\* chooses to do is cut off: no story is left by a step that fairness asks for.
ShortOrders == Unasked({l1, l2}) /\ JobRuns /\ OneRequest /\ check = NoCheck
LongOrders  == Unasked({s1, s2}) /\ JobRuns /\ now = 0 /\ check = NoCheck /\ pinned = {}
MovingJob   == /\ Unasked({s1, s2, l2}) /\ now = 0 /\ OneRequest /\ pinned = {}
               /\ check = NoCheck \/ ui[tab].sel = NoOrder
OneStory    == ShortOrders \/ LongOrders \/ MovingJob
=============================================================================
