----------------------------- MODULE MCCronJobs -----------------------------
(***************************************************************************)
(* A small instance of CronJobs for TLC.                                   *)
(***************************************************************************)
EXTENDS CronJobs

CONSTANTS j1, j2, k1, k2, hourly, broken

\* A restart leads to an initial state, where a behaviour ends.  Executions are of one
\* job, the second one at a time only where the other job is suspended.
AtRest(j) == Suspended(j) /\ EntriesOf(j) = {} /\ op.jobs # {j} /\ row[j].plan = hourly
Restarted == crashes > 0
OneStory  ==
  /\ Restarted => op = None /\ ~synced
  /\ \A k \in Slots : run[k] # NoExecution => run[k].job = j1
  /\ run[k2] # NoExecution => AtRest(j2)
=============================================================================
