---------------------------- MODULE ModelDownload ----------------------------
(***************************************************************************)
(* Downloads of models and datasets.  One row, shared by all who want the  *)
(* same thing, names the cluster job that fetches it; handlers create,     *)
(* retry, pause, resume and delete, and a reconciler copies what it sees   *)
(* of jobs into the row and removes jobs that no row names.  Only the      *)
(* creation and the retry read and write the row in one transaction; all   *)
(* other writes go by the row's id, whatever it says by then.              *)
(*                                                                         *)
(* Progress, sizes, messages and the reference count, which nothing reads, *)
(* are left out.  A deletion keeps the row for later ("deleted").          *)
(***************************************************************************)
EXTENDS Integers

CONSTANTS
    Users,
    Slots,       \* requests of users under way at a time
    MaxNames,    \* bound: job names given out
    MaxEvents    \* bound: requests, steps that fail, and restarts

ASSUME DownloadAssumption == Users # {} /\ MaxNames \in Nat /\ MaxEvents \in Nat

VARIABLES
    row,         \* the row of the download
    wants,       \* users associated with it
    given,       \* the last job name given out
    job,         \* the cluster's jobs
    gone,        \* names queued for the reconciler, although their job may be gone
    req,         \* requests under way
    rec,         \* what the reconciler is at
    dataset,     \* the dataset that stands for what was downloaded
    events,      \* requests and failures so far
    reused       \* ghost: names that came back with a deleted row

vars == <<row, wants, given, job, gone, req, rec, dataset, events, reused>>

Names == 1 .. MaxNames
Statuses == {"Pending", "Downloading", "Paused", "Ready", "Failed"}
Ended == {"succeeded", "failed"}
Phases == {"none", "new", "active"} \cup Ended
Rows == [state : {"none", "live", "deleted"}, status : Statuses, job : 0 .. MaxNames]

Requests ==
    [kind : {"create", "retry", "pause", "resume", "delete"},
     at : {"idle", "join", "submit", "mark", "undo", "stop", "write", "rename", "count", "remove"},
     user : Users, name : 0 .. MaxNames]
NoRequest ==
    [kind |-> "create", at |-> "idle", user |-> CHOOSE u \in Users : TRUE, name |-> 0]

Rounds ==
    [at : {"idle", "dataset", "write", "orphan"}, name : 0 .. MaxNames, status : Statuses]
NoRound == [at |-> "idle", name |-> 0, status |-> "Pending"]

\* One type for every variable.
TypeOK ==
    /\ row \in Rows /\ wants \in SUBSET Users /\ given \in 0 .. MaxNames
    /\ job \in [Names -> Phases] /\ gone \in SUBSET Names
    /\ req \in [Slots -> Requests] /\ rec \in Rounds
    /\ dataset \in {"none", "created", "skipped"}
    /\ events \in 0 .. MaxEvents /\ reused \in SUBSET Names

Live == row.state = "live"
Counts == events < MaxEvents /\ events' = events + 1      \* bound

Init ==
    /\ row = [state |-> "none", status |-> "Pending", job |-> 0]
    /\ wants = {} /\ given = 0
    /\ job = [n \in Names |-> "none"] /\ gone = {}
    /\ req = [s \in Slots |-> NoRequest] /\ rec = NoRound
    /\ dataset = "none" /\ events = 0 /\ reused = {}

\* A statement by id changes the row unless it is deleted.
Write(status) == row' = IF Live THEN [row EXCEPT !.status = status] ELSE row

\* A request goes on to another stage, or is over.
Goes(s, at) == req' = [req EXCEPT ![s].at = at]
Over(s) == req' = [req EXCEPT ![s] = NoRequest]
Begins(s, kind, at, u, n) ==
    /\ req[s].at = "idle" /\ Counts
    /\ req' = [req EXCEPT ![s] = [NoRequest EXCEPT !.kind = kind, !.at = at, !.user = u, !.name = n]]
At(s, kinds, at) == req[s].kind \in kinds /\ req[s].at = at

Remove(n) ==
    /\ job' = [job EXCEPT ![n] = "none"]
    /\ gone' = IF job[n] = "none" THEN gone ELSE gone \cup {n}

-----------------------------------------------------------------------------
(* CreateDownload. *)

\* findReadyOrOngoingDownload: the user is to share what is there.
Share(s, u) ==
    /\ Live /\ row.status \in {"Ready", "Pending", "Downloading"}
    /\ Begins(s, "create", "join", u, 0)
    /\ UNCHANGED <<row, wants, given, job, gone, rec, dataset, reused>>

Join(s) ==
    /\ req[s].at = "join"
    /\ wants' = wants \cup {req[s].user} /\ Over(s)
    /\ UNCHANGED <<row, given, job, gone, rec, dataset, events, reused>>

\* A new row, a failed one, or a deleted one that had failed: a new name.
StartAnew(s, u) ==
    /\ row.state = "none" \/ row.status = "Failed"
    /\ given < MaxNames      \* bound
    /\ given' = given + 1
    /\ row' = [state |-> "live", status |-> "Pending", job |-> given']
    /\ wants' = wants \cup {u}
    /\ Begins(s, "create", "submit", u, given')
    /\ UNCHANGED <<job, gone, rec, dataset, reused>>

\* Any other deleted row comes back with its status and its job name.
Restore(s, u) ==
    /\ row.state = "deleted" /\ row.status # "Failed"
    /\ row' = [row EXCEPT !.state = "live"]
    /\ wants' = wants \cup {u}
    /\ Begins(s, "create", "submit", u, row.job)
    /\ reused' = reused \cup {row.job}
    /\ UNCHANGED <<given, job, gone, rec, dataset>>

\* submitDownloadJob: refused when there is a job of that name.
Submit(s) ==
    /\ req[s].at = "submit"
    /\ IF job[req[s].name] = "none"
       THEN /\ job' = [job EXCEPT ![req[s].name] = "new"]
            /\ IF req[s].kind = "create" THEN Goes(s, "mark") ELSE Over(s)
       ELSE UNCHANGED job /\ Goes(s, "undo")
    /\ UNCHANGED <<row, wants, given, gone, rec, dataset, events, reused>>

SubmitFails(s) ==
    /\ Counts /\ req[s].at = "submit"
    /\ Goes(s, "undo")
    /\ UNCHANGED <<row, wants, given, job, gone, rec, dataset, reused>>

\* The status after the submission, and after a submission that failed.
Answer(s) ==
    /\ req[s].at \in {"mark", "undo"}
    /\ Write(CASE req[s].at = "mark" -> "Downloading"
               [] req[s].kind = "resume" -> "Paused"
               [] OTHER -> "Failed")
    /\ Over(s)
    /\ UNCHANGED <<wants, given, job, gone, rec, dataset, events, reused>>

-----------------------------------------------------------------------------
(* RetryDownload, PauseDownload, ResumeDownload. *)

Retry(s, u) ==
    /\ Live /\ u \in wants /\ row.status = "Failed"
    /\ given < MaxNames      \* bound
    /\ given' = given + 1
    /\ row' = [row EXCEPT !.status = "Downloading", !.job = given']
    /\ Begins(s, "retry", "submit", u, given')
    /\ UNCHANGED <<wants, job, gone, rec, dataset, reused>>

Pause(s, u) ==
    /\ Live /\ u \in wants /\ row.status = "Downloading"
    /\ Begins(s, "pause", "stop", u, row.job)
    /\ UNCHANGED <<row, wants, given, job, gone, rec, dataset, reused>>

PauseWrite(s) ==
    /\ At(s, {"pause"}, "write")
    /\ Write("Paused") /\ Over(s)
    /\ UNCHANGED <<wants, given, job, gone, rec, dataset, events, reused>>

Resume(s, u) ==
    /\ Live /\ u \in wants /\ row.status = "Paused"
    /\ Begins(s, "resume", "rename", u, 0)
    /\ UNCHANGED <<row, wants, given, job, gone, rec, dataset, reused>>

\* The row gets the new name before the job is submitted; when the row is
\* deleted the statement changes nothing and the job is submitted all the same.
Rename(s) ==
    /\ At(s, {"resume"}, "rename")
    /\ given < MaxNames      \* bound
    /\ given' = given + 1
    /\ row' = IF Live THEN [row EXCEPT !.status = "Downloading", !.job = given'] ELSE row
    /\ req' = [req EXCEPT ![s].at = "submit", ![s].name = given']
    /\ UNCHANGED <<wants, job, gone, rec, dataset, events, reused>>

-----------------------------------------------------------------------------
(* DeleteDownload, AdminDeleteDownload. *)

Leave(s, u) ==
    /\ u \in wants /\ wants' = wants \ {u}
    /\ Begins(s, "delete", "count", u, 0)
    /\ UNCHANGED <<row, given, job, gone, rec, dataset, reused>>

\* Without users the row's job is stopped while it runs, and the row is removed.
StopOrRemove(s) ==
    req' = [req EXCEPT ![s].at = IF row.status = "Downloading" THEN "stop" ELSE "remove",
                       ![s].name = row.job]

\* The users that are left are counted, and the row is read.
Count(s) ==
    /\ At(s, {"delete"}, "count")
    /\ IF Live /\ wants = {} THEN StopOrRemove(s) ELSE Over(s)
    /\ UNCHANGED <<row, wants, given, job, gone, rec, dataset, events, reused>>

\* The error of the count is dropped, and what is left of it is a count of 0.
CountFails(s) ==
    /\ Live /\ Counts /\ At(s, {"delete"}, "count")
    /\ StopOrRemove(s)
    /\ UNCHANGED <<row, wants, given, job, gone, rec, dataset, reused>>

\* The job is removed, here and for a pause; that it fails is ignored.
Stop(s) ==
    /\ req[s].at = "stop"
    /\ Remove(req[s].name)
    /\ Goes(s, IF req[s].kind = "pause" THEN "write" ELSE "remove")
    /\ UNCHANGED <<row, wants, given, rec, dataset, events, reused>>

StopFails(s) ==
    /\ Counts /\ req[s].at = "stop"
    /\ Goes(s, IF req[s].kind = "pause" THEN "write" ELSE "remove")
    /\ UNCHANGED <<row, wants, given, job, gone, rec, dataset, reused>>

SoftDelete(s) ==
    /\ At(s, {"delete"}, "remove")
    /\ row' = IF Live THEN [row EXCEPT !.state = "deleted"] ELSE row
    /\ Over(s)
    /\ UNCHANGED <<wants, given, job, gone, rec, dataset, events, reused>>

AdminDelete ==
    /\ Live /\ Counts
    /\ row' = [row EXCEPT !.state = "deleted"]
    /\ UNCHANGED <<wants, given, job, gone, req, rec, dataset, reused>>

\* A request ends at any point, and its last statement may fail unnoticed.
RequestFails(s) ==
    /\ Counts /\ req[s].at # "idle"
    /\ Over(s)
    /\ UNCHANGED <<row, wants, given, job, gone, rec, dataset, reused>>

-----------------------------------------------------------------------------
(* The reconciler, one key at a time. *)

\* getJobStatus
JobStatus(phase) ==
    CASE phase = "succeeded" -> "Ready"
      [] phase = "failed" -> "Failed"
      [] phase = "active" -> "Downloading"
      [] OTHER -> "Pending"

\* Mutant: only a row that is under way counts.
NamedUnderWay(n) == Live /\ row.job = n /\ row.status \in {"Pending", "Downloading"}

\* The row is found by the name of its job.
Named(n) == Live /\ row.job = n

\* Mutant: a download that is not seen running needs no dataset.
ThenRunningOnly(status) ==
    IF status = "Ready" /\ row.status = "Downloading" THEN "dataset" ELSE "write"

\* The dataset is created before the row says Ready.
Then(status) == IF status = "Ready" THEN "dataset" ELSE "write"

\* Mutant: only a job of a deleted row is cleared away.
OrphanDeleted(n) == row.state = "deleted" /\ job[n] \in Ended

Orphan(n) == ~Named(n) /\ job[n] \in Ended

Unsettled == row.status \in {"Pending", "Downloading"}

\* Mutant: a row that is settled stays so while its job exists.
ChangesUnsettled(n) == Named(n) /\ job[n] # "none" /\ Unsettled /\ row.status # JobStatus(job[n])

Changes(n) == Named(n) /\ job[n] # "none" /\ row.status # JobStatus(job[n])

Lost(n) == Named(n) /\ job[n] = "none" /\ Unsettled

\* The round is to write the status.
Gets(n, status) == rec' = [at |-> Then(status), name |-> n, status |-> status]

\* fetchJob, fetchDownloadRecord, handleJobNotFound, syncDownloadWithJob, after
\* an event or a resynchronisation of a job that exists and after the removal of
\* one: a job that no row names is removed when it has ended; a row whose job was
\* removed has failed, unless it is settled; otherwise the row gets the status of
\* the job, if it has another.
Reconcile(n) ==
    /\ rec.at = "idle" /\ (job[n] # "none" \/ n \in gone)
    /\ gone' = gone \ {n}
    /\ \/ Orphan(n) /\ rec' = [at |-> "orphan", name |-> n, status |-> "Pending"]
       \/ Changes(n) /\ Gets(n, JobStatus(job[n]))
       \/ Lost(n) /\ Gets(n, "Failed")
       \/ ~(Orphan(n) \/ Changes(n) \/ Lost(n)) /\ UNCHANGED rec
    /\ UNCHANGED <<row, wants, given, job, req, dataset, events, reused>>

\* createDatasetForModel: created, found, or brought back when its owner deleted it.
CreateDataset ==
    /\ rec.at = "dataset"
    /\ dataset' = "created" /\ rec' = [rec EXCEPT !.at = "write"]
    /\ UNCHANGED <<row, wants, given, job, gone, req, events, reused>>

\* A failure is logged, and the row will say Ready.
DatasetFails ==
    /\ Counts /\ rec.at = "dataset"
    /\ rec' = [rec EXCEPT !.at = "write"]
    /\ dataset' = IF dataset = "none" THEN "skipped" ELSE dataset
    /\ UNCHANGED <<row, wants, given, job, gone, req, reused>>

\* updateDownloadStatus
UpdateStatus ==
    /\ rec.at = "write"
    /\ Write(rec.status) /\ rec' = NoRound
    /\ UNCHANGED <<wants, given, job, gone, req, dataset, events, reused>>

DeleteOrphan ==
    /\ rec.at = "orphan"
    /\ Remove(rec.name) /\ rec' = NoRound
    /\ UNCHANGED <<row, wants, given, req, dataset, events, reused>>

\* The key is queued again when the row could not be written.
RoundFails ==
    /\ Counts /\ rec.at \in {"write", "orphan"}
    /\ gone' = IF rec.at = "write" THEN gone \cup {rec.name} ELSE gone
    /\ rec' = NoRound
    /\ UNCHANGED <<row, wants, given, job, req, dataset, reused>>

-----------------------------------------------------------------------------
(* The cluster, and a restart. *)

JobRuns(n) ==
    /\ \/ job[n] = "new" /\ job' = [job EXCEPT ![n] = "active"]
       \/ job[n] = "active" /\ \E phase \in Ended : job' = [job EXCEPT ![n] = phase]
    /\ UNCHANGED <<row, wants, given, gone, req, rec, dataset, events, reused>>

\* Jobs that exist are listed anew; nobody is told of those that were removed.
Restart ==
    /\ Counts
    /\ gone' = {} /\ rec' = NoRound
    /\ req' = [s \in Slots |-> NoRequest]
    /\ UNCHANGED <<row, wants, given, job, dataset, reused>>

-----------------------------------------------------------------------------

Request(s, u) ==
    \/ Share(s, u) \/ StartAnew(s, u) \/ Restore(s, u)
    \/ Retry(s, u) \/ Pause(s, u) \/ Resume(s, u) \/ Leave(s, u)
RequestStep(s) ==
    \/ Join(s) \/ Submit(s) \/ Answer(s) \/ PauseWrite(s) \/ Rename(s)
    \/ Count(s) \/ Stop(s) \/ SoftDelete(s)
Fails(s) == SubmitFails(s) \/ StopFails(s) \/ CountFails(s) \/ RequestFails(s)
Round == CreateDataset \/ UpdateStatus \/ DeleteOrphan

Next ==
    \/ \E s \in Slots : (\E u \in Users : Request(s, u)) \/ RequestStep(s) \/ Fails(s)
    \/ \E n \in Names : Reconcile(n) \/ JobRuns(n)
    \/ Round \/ DatasetFails \/ RoundFails
    \/ AdminDelete \/ Restart

Spec == Init /\ [][Next]_vars

\* Requests and rounds go on to their end, and the reconciler comes to every job
\* that exists, at the latest when the cache is synchronised anew.
Fairness ==
    /\ \A s \in Slots : WF_vars(RequestStep(s))
    /\ WF_vars(Round)
    /\ \A n \in Names : SF_vars(Reconcile(n))

FairSpec == Spec /\ Fairness

-----------------------------------------------------------------------------
(* Properties. *)

\* The reconciler removes only jobs that have ended and that the row does not
\* name, although it decides on reads made before: names are not used again and
\* are in the row before the job is submitted (ResumeDownload).  A deleted row
\* that comes back with its old name is the exception.
OnlyOrphansRemoved ==
    rec.at = "orphan" /\ rec.name \notin reused =>
        ~(Live /\ row.job = rec.name) /\ job[rec.name] \in Ended \cup {"none"}

\* A download that was ever ready has its dataset, perhaps deleted by its owner
\* meanwhile, whatever restart came between the dataset and the status
\* (syncDownloadWithJob): a row that is ready is not looked at again.
ReadyHasDataset ==
    row.status = "Ready" => dataset # "none"

\* Again and again the row says what its job does, whatever the late writes of
\* handlers and rounds: a download that is shown running does not hide a job that
\* has ended, nor one that is shown paused or failed a job that runs.
StatusFollowsJob ==
    \A n \in Names : []<>(Named(n) /\ job[n] # "none" => row.status = JobStatus(job[n]))

\* A job that has ended and is not, or no longer, the row's is cleared away.
OrphansAreCleared ==
    \A n \in Names : job[n] \in Ended ~> job[n] \notin Ended \/ Named(n)
=============================================================================
