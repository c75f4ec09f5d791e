----------------------------- MODULE Preemption -----------------------------
(***************************************************************************)
(* How the prequeue watcher makes room for a normal job that has been      *)
(* pending for too long: it picks a node, picks running backfill jobs of   *)
(* that node and deletes them, and scans again at once.  The rows it picks *)
(* from, the pods that occupy a node and the cluster jobs it deletes are   *)
(* three views of the same jobs that change one after the other.           *)
(*                                                                         *)
(* JobLifecycle has the same step with the choice left open (Preempts).    *)
(***************************************************************************)
EXTENDS Integers, Sequences, FiniteSets, FiniteSetsExt, SequencesExt

CONSTANTS
  Victims,       \* preemptable backfill jobs, numbered by creation timestamp
  Nodes,         \* nodes, numbered by name
  Resource,      \* resource names
  MaxQuantity,   \* of a resource a victim requests or a node has to spare
  MaxFailures    \* deletions that may fail

ASSUME PreemptionAssumption ==
  /\ IsFiniteSet(Victims) /\ Victims \subseteq Nat /\ Nodes \subseteq Nat \ {0}
  /\ MaxQuantity \in Nat /\ MaxFailures \in Nat

VARIABLES
  size, home,       \* what a victim requests, and its node
  spare,            \* what a node has left while all its victims run
  demand, allowed,  \* the request of the pending job; nodes its pod may run on
  rows,             \* victims whose row says Running
  live,             \* victims whose Volcano job exists
  pods,             \* victims whose pod occupies its node
  waiting,          \* the pending job's row says Pending
  at,               \* the node of its pod, or 0
  plan,             \* victims the round still has to delete
  failures

input == <<size, home, spare, demand, allowed>>
prvars  == <<input, rows, live, pods, waiting, at, plan, failures>>

Quantities == [Resource -> 0..MaxQuantity]
None       == [r \in Resource |-> 0]
Sums       == [Resource -> Nat]

Plus(a, b)   == [r \in Resource |-> a[r] + b[r]]
SizeOf(S)    == [r \in Resource |-> MapThenSumSet(LAMBDA v : size[v][r], S)]
ResourceListCovers(a, b) == \A r \in Resource : a[r] >= b[r]

-----------------------------------------------------------------------------
(* The plan.                                                               *)

VictimsOf(n) == {v \in Victims : home[v] = n}

\* Allocatable minus the requests of the pods on the node, once those of S are gone.
AvailableWithout(S, n) ==
  [r \in Resource |-> spare[n][r] + SizeOf(VictimsOf(n) \ (pods \ S))[r]
                        - IF at = n THEN demand[r] ELSE 0]
Available(n) == AvailableWithout({}, n)

\* Mutant: what is available is not subtracted.
WholeDemand(n) == demand

Deficit(n) ==
  [r \in Resource |-> IF Available(n)[r] >= demand[r] THEN 0 ELSE demand[r] - Available(n)[r]]

\* searchPreemptionSubset(cand, deficit, i, left, current, sum), with the loop over i
\* unrolled.  A candidate that was tried in vain stays in nextCurrent, only its
\* resources are taken out again.
SearchState == (Nat \ {0}) \X Nat \X Seq(Victims) \X Sums

Search(cand, deficit) ==
  LET search[s \in SearchState] ==
        IF s[2] = 0 THEN IF ResourceListCovers(s[4], deficit) THEN s[3] ELSE <<>>
        ELSE IF Len(cand) - s[1] + 1 < s[2] THEN <<>>
        ELSE LET next  == Append(s[3], cand[s[1]])
                 found == search[<<s[1] + 1, s[2] - 1, next, Plus(s[4], size[cand[s[1]]])>>]
             IN  IF found # <<>> THEN found ELSE search[<<s[1] + 1, s[2], next, s[4]>>]
  IN  search

\* What the search finds that takes count of the candidates.
Found(cand, deficit, count) == Search(cand, deficit)[<<1, count, <<>>, None>>]

\* Mutant: the sizes stop one short of all candidates.
SmallSubset(cand, deficit) ==
  LET fails(n) == Found(cand, deficit, n) = <<>>
  IN  IF \A n \in 1..(Len(cand) - 1) : fails(n) THEN <<>>
      ELSE Found(cand, deficit, CHOOSE n \in 1..Len(cand) : ~fails(n) /\ \A m \in 1..(n - 1) : fails(m))

\* selectMinimalPreemptionSubset: the first size for which the search succeeds.
SelectSubset(cand, deficit) ==
  LET fails(n) == Found(cand, deficit, n) = <<>>
  IN  IF \A n \in 1..Len(cand) : fails(n) THEN <<>>
      ELSE Found(cand, deficit, CHOOSE n \in 1..Len(cand) : ~fails(n) /\ \A m \in 1..(n - 1) : fails(m))

\* The members of a set of numbers in ascending order.
Ascending(S) ==
  CHOOSE q \in [1..Cardinality(S) -> S] : \A i, j \in DOMAIN q : i < j => q[i] < q[j]

\* Mutant: the rows are not grouped by node.
RowsOf(n) == Ascending(rows)

\* Rows of the node that say Running, oldest first.
Candidates(n) == Ascending(rows \cap VictimsOf(n))

\* Mutant: NodeMatchesPodSchedulingConstraints is not asked.
AnyNodePlan(n) == IF Deficit(n) = None THEN <<>> ELSE SelectSubset(Candidates(n), Deficit(n))

NodePlan(n) ==
  LET deficit == Deficit(n) IN
  IF n \notin allowed \/ deficit = None THEN <<>> ELSE SelectSubset(Candidates(n), deficit)

\* The shortest plan of a node, and among those the one of the first node by name.
Better(p, q) ==
  Len(p) < Len(q) \/ (Len(p) = Len(q) /\ home[Head(p)] <= home[Head(q)])
BestPlan ==
  LET plans == {NodePlan(n) : n \in Nodes} \ {<<>>}
  IN  IF plans = {} THEN <<>> ELSE CHOOSE p \in plans : \A q \in plans : Better(p, q)

-----------------------------------------------------------------------------
(* Rounds of the watcher.                                                  *)

\* A round without a plan goes on to activate jobs, which is JobLifecycle's part.
Scan ==
  /\ plan = <<>> /\ waiting
  /\ LET best == BestPlan IN best # <<>> /\ plan' = best
  /\ UNCHANGED <<input, rows, live, pods, waiting, at, failures>>

\* A job that is gone already is passed over.
DeleteNext ==
  /\ plan # <<>>
  /\ live' = live \ {Head(plan)}
  /\ plan' = Tail(plan)
  /\ UNCHANGED <<input, rows, pods, waiting, at, failures>>

\* Any other error ends the round, and the rest of the plan is forgotten.
DeleteFails ==
  /\ plan # <<>> /\ failures < MaxFailures
  /\ plan' = <<>> /\ failures' = failures + 1
  /\ UNCHANGED <<input, rows, live, pods, waiting, at>>

-----------------------------------------------------------------------------
(* The cluster, and the reconciler that copies it into the rows.           *)

\* The pod of a deleted job leaves its node, some time later.
Vanish(v) ==
  /\ v \in pods \ live /\ pods' = pods \ {v}
  /\ UNCHANGED <<input, rows, live, waiting, at, plan, failures>>

Complete(v) ==
  /\ v \in pods \cap live /\ pods' = pods \ {v}
  /\ UNCHANGED <<input, rows, live, waiting, at, plan, failures>>

\* The row of a job that was deleted or has ended stops saying Running; that its
\* pod is still there does not matter.
SyncVictim(v) ==
  /\ v \in rows /\ v \notin live \cap pods
  /\ rows' = rows \ {v}
  /\ UNCHANGED <<input, live, pods, waiting, at, plan, failures>>

\* Volcano binds the pending job to a node with room.
Bind ==
  /\ at = 0
  /\ \E n \in allowed : ResourceListCovers(Available(n), demand) /\ at' = n
  /\ UNCHANGED <<input, rows, live, pods, waiting, plan, failures>>

SyncWaiting ==
  /\ waiting /\ at # 0 /\ waiting' = FALSE
  /\ UNCHANGED <<input, rows, live, pods, at, plan, failures>>

-----------------------------------------------------------------------------
PRInit ==
  /\ size \in [Victims -> Quantities \ {None}] /\ home \in [Victims -> Nodes]
  /\ spare \in [Nodes -> Quantities]
  /\ demand \in [Resource -> 1..(MaxQuantity + 1)] /\ allowed \in SUBSET Nodes \ {{}}
  /\ rows = Victims /\ live = Victims /\ pods = Victims
  /\ waiting = TRUE /\ at = 0 /\ plan = <<>> /\ failures = 0

PRNext ==
  \/ Scan \/ DeleteNext \/ DeleteFails \/ Bind \/ SyncWaiting
  \/ \E v \in Victims : Vanish(v) \/ Complete(v) \/ SyncVictim(v)

\* The loop runs its rounds to their end, pods of deleted jobs leave, the
\* reconciler sees every event and Volcano binds what fits; no job has to end.
PRFairness ==
  /\ WF_prvars(Scan) /\ WF_prvars(DeleteNext) /\ WF_prvars(Bind) /\ WF_prvars(SyncWaiting)
  /\ \A v \in Victims : WF_prvars(Vanish(v)) /\ WF_prvars(SyncVictim(v))

PRSpec     == PRInit /\ [][PRNext]_prvars
PRFairSpec == PRSpec /\ PRFairness

-----------------------------------------------------------------------------
\* The shape of the state; the jobs of a plan are distinct and share a node.
PRTypeOK ==
  /\ size \in [Victims -> Quantities] /\ home \in [Victims -> Nodes]
  /\ spare \in [Nodes -> Quantities] /\ demand \in Sums /\ allowed \subseteq Nodes
  /\ rows \subseteq Victims /\ live \subseteq Victims /\ pods \subseteq Victims
  /\ waiting \in BOOLEAN /\ at \in Nodes \cup {0}
  /\ plan \in Seq(Victims) /\ failures \in 0..MaxFailures
  /\ IsInjective(plan) /\ \A u, v \in ToSet(plan) : home[u] = home[v]

\* A plan is made for one node that lacks room for the pending job and on which it may run.
\* It is of rows of that node that say Running (as JobLifecycle supposes of plans) and, when
\* all such rows have a pod, there is room once those of the plan are gone.
PlanMakesRoom ==
  [][plan = <<>> /\ plan' # <<>> =>
       \E n \in allowed :
         /\ ~ResourceListCovers(Available(n), demand)
         /\ ToSet(plan') \subseteq rows \cap VictimsOf(n)
         /\ rows \subseteq pods => ResourceListCovers(AvailableWithout(ToSet(plan'), n), demand)]_prvars

\* The plan of a node holds a smallest set of its rows that would do, and there is one
\* whenever all of them together would; that it holds no more than that, as is said of
\* buildNodeBackfillPreemptionPlan, is not so: what the search rejected stays in it.
Relieving(n) == {S \in SUBSET (rows \cap VictimsOf(n)) : ResourceListCovers(SizeOf(S), Deficit(n))}
PlanHoldsSmallest ==
  \A n \in allowed : Deficit(n) # None =>
    IF Relieving(n) = {} THEN NodePlan(n) = <<>>
    ELSE \E S \in Relieving(n) :
           /\ S \subseteq ToSet(NodePlan(n)) \cap rows \cap VictimsOf(n)
           /\ \A T \in Relieving(n) : Cardinality(S) <= Cardinality(T)

\* A pending job for which the backfill jobs of some node leave enough room when
\* they are all gone gets that room, whatever stale rows the rounds plan with.
Feasible == \E n \in allowed : ResourceListCovers(Plus(spare[n], SizeOf(VictimsOf(n))), demand)
PendingIsBound == Feasible ~> at # 0

=============================================================================
