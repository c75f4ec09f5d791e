--------------------------- MODULE MCJobLifecycle ---------------------------
(* Small instances of JobLifecycle.  All jobs belong to one owner whose quota *)
(* has room for one of them; j2 is the backfill job of the instances that     *)
(* have one, and a job that ran out of patience covers every other.           *)
EXTENDS JobLifecycle, TLC

CONSTANTS j1, j2, j3, owner

OneOwner == [j \in Jobs |-> owner]
UnitNeed == [j \in Jobs |-> 1]
OneSlot  == [o \in {owner} |-> 1]
CoverAll == Jobs \X Jobs
Evicts   == Normal \X Backfill
Nobody   == {}
Replicas == Permutations(Watchers)
AnyJob   == Permutations(Jobs)
AnyJobReplica == AnyJob \cup Replicas
\* The failures of one activation and a crash; those of the writers of a row; both
\* and those of a round without the crash; what leaves a job without ingresses or
\* a signal unheard.
ClaimFaults == {"create", "expose", "commit", "restart"}
RowFaults   == {"commit", "reconcile"}
SoftFaults  == RowFaults \cup {"create", "expose", "read", "preempt"}
LateFaults  == {"expose", "cleanup", "replica"}
=============================================================================
