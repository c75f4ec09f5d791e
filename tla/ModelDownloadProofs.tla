------------------------- MODULE ModelDownloadProofs -------------------------
(* What holds of ModelDownload for any users, requests, names and failures.   *)
EXTENDS ModelDownload, TLAPS

-----------------------------------------------------------------------------
(* What the properties rest on.                                              *)

\* Names are given in order, and whoever works with a name has one that was given.
NameInv ==
  /\ row.state # "none" => row.job \in 1 .. given
  /\ \A s \in Slots : req[s].at \in {"submit", "stop"} => req[s].name \in 1 .. given
  /\ \A n \in Names : job[n] # "none" => n <= given
  /\ rec.at # "idle" => rec.name \in Names
  /\ rec.at = "orphan" => rec.name <= given

\* A name that is to be submitted and did not come back with a deleted row is new to
\* the cluster and to the reconciler, and belongs to one request.
FreshInv ==
  \A s \in Slots : req[s].at = "submit" /\ req[s].name \notin reused =>
    /\ job[req[s].name] = "none"
    /\ ~(rec.at = "orphan" /\ rec.name = req[s].name)
    /\ \A t \in Slots : req[t].at = "submit" /\ req[t].name = req[s].name => t = s

\* The dataset is there before the status is written.
ReadyInv ==
  /\ ReadyHasDataset
  /\ rec.at = "write" /\ rec.status = "Ready" => dataset # "none"

IInv == TypeOK /\ NameInv /\ FreshInv /\ OnlyOrphansRemoved /\ ReadyInv

-----------------------------------------------------------------------------
(* Facts of the operators.                                                   *)

LEMMA NoRequestFacts ==
  NoRequest \in Requests /\ NoRequest.at = "idle"
<1>1. (CHOOSE u \in Users : TRUE) \in Users
  BY DownloadAssumption
<1>2. 0 \in 0 .. MaxNames
  BY DownloadAssumption
<1>3. QED
  BY <1>1, <1>2 DEF NoRequest, Requests

LEMMA NoRoundFacts ==
  NoRound \in Rounds /\ NoRound.at = "idle" /\ NoRound.name = 0 /\ NoRound.status = "Pending"
<1>1. 0 \in 0 .. MaxNames
  BY DownloadAssumption
<1>2. QED
  BY <1>1 DEF NoRound, Rounds, Statuses

LEMMA RowFacts ==
  ASSUME TypeOK
  PROVE  /\ row \in Rows /\ row.state \in {"none", "live", "deleted"}
         /\ row.status \in Statuses /\ row.job \in 0 .. MaxNames
         /\ given \in 0 .. MaxNames /\ events \in 0 .. MaxEvents
  BY DEF TypeOK, Rows

LEMMA RequestFacts ==
  ASSUME TypeOK, NEW s \in Slots
  PROVE  /\ req \in [Slots -> Requests] /\ req[s] \in Requests
         /\ req[s].user \in Users /\ req[s].name \in 0 .. MaxNames
  BY DEF TypeOK, Requests

\* What a request's next stage leaves of the requests.
LEMMA GoesFacts ==
  ASSUME TypeOK, NEW s \in Slots, NEW at \in {"mark", "undo", "write", "remove"}, Goes(s, at)
  PROVE  /\ req' \in [Slots -> Requests]
         /\ req'[s].at = at /\ \A t \in Slots : t # s => req'[t] = req[t]
<1>1. [req[s] EXCEPT !.at = at] \in Requests
  BY DEF TypeOK, Requests
<1>2. QED
  BY <1>1 DEF TypeOK, Goes

LEMMA OverFacts ==
  ASSUME TypeOK, NEW s \in Slots, Over(s)
  PROVE  /\ req' \in [Slots -> Requests]
         /\ req'[s].at = "idle" /\ \A t \in Slots : t # s => req'[t] = req[t]
  BY NoRequestFacts DEF TypeOK, Over

LEMMA BeginsFacts ==
  ASSUME TypeOK, NEW s \in Slots, NEW kind \in {"create", "retry", "pause", "resume", "delete"},
         NEW at \in {"join", "submit", "stop", "rename", "count"}, NEW u \in Users,
         NEW n \in 0 .. MaxNames, Begins(s, kind, at, u, n)
  PROVE  /\ req' \in [Slots -> Requests] /\ events' \in 0 .. MaxEvents
         /\ req'[s].at = at /\ req'[s].name = n /\ \A t \in Slots : t # s => req'[t] = req[t]
<1> DEFINE r == [NoRequest EXCEPT !.kind = kind, !.at = at, !.user = u, !.name = n]
<1>1. r \in Requests /\ r.at = at /\ r.name = n
  BY NoRequestFacts DEF Requests
<1>2. req' = [req EXCEPT ![s] = r]
  BY DEF Begins
<1> HIDE DEF r
<1>3. events' \in 0 .. MaxEvents
  BY DownloadAssumption DEF TypeOK, Begins, Counts
<1>4. QED
  BY <1>1, <1>2, <1>3 DEF TypeOK

LEMMA CountsFacts ==
  ASSUME TypeOK, Counts
  PROVE  events' \in 0 .. MaxEvents
  BY DownloadAssumption DEF TypeOK, Counts

LEMMA WriteFacts ==
  ASSUME TypeOK, NEW status \in Statuses, Write(status)
  PROVE  /\ row' \in Rows /\ row'.state = row.state /\ row'.job = row.job
         /\ row'.status = IF Live THEN status ELSE row.status
<1>1. row' = IF Live THEN [row EXCEPT !.status = status] ELSE row
  BY DEF Write
<1>2. row \in Rows
  BY RowFacts
<1>3. [row EXCEPT !.status = status] \in Rows
  BY <1>2 DEF Rows
<1>4. QED
  BY <1>1, <1>2, <1>3 DEF Rows

LEMMA RemoveFacts ==
  ASSUME TypeOK, NEW n \in Names, Remove(n)
  PROVE  /\ job' \in [Names -> Phases] /\ gone' \in SUBSET Names
         /\ job'[n] = "none" /\ \A m \in Names : m # n => job'[m] = job[m]
  BY DEF TypeOK, Remove, Phases

LEMMA JobStatusFacts ==
  \A phase : JobStatus(phase) \in Statuses
  BY DEF JobStatus, Statuses

\* A round of the reconciler ends, finds an orphan, or has a status to write.
LEMMA ReconcileFacts ==
  ASSUME TypeOK, NEW n \in Names, Reconcile(n)
  PROVE  /\ rec' \in Rounds /\ gone' \in SUBSET Names
         /\ \/ rec'.at = "idle"
            \/ rec'.at = "orphan" /\ rec'.name = n /\ Orphan(n)
            \/ rec'.at \in {"dataset", "write"} /\ rec'.name = n
         /\ rec'.at = "write" => rec'.status # "Ready"
<1> DEFINE found(status) == [at |-> Then(status), name |-> n, status |-> status]
<1>1. \A status \in Statuses :
         /\ found(status) \in Rounds /\ found(status).at \in {"dataset", "write"}
         /\ found(status).name = n
         /\ found(status).at = "write" => found(status).status # "Ready"
  BY DEF Then, Rounds, Names
<1>2. \/ rec' = [at |-> "orphan", name |-> n, status |-> "Pending"] /\ Orphan(n)
      \/ rec' = found(JobStatus(job[n]))
      \/ rec' = found("Failed")
      \/ rec' = rec
  BY DEF Reconcile, Gets
<1>3. rec.at = "idle" /\ rec \in Rounds /\ gone' \in SUBSET Names
  BY DEF Reconcile, TypeOK
<1>4. "Failed" \in Statuses /\ JobStatus(job[n]) \in Statuses
  BY JobStatusFacts DEF Statuses
<1>5. /\ [at |-> "orphan", name |-> n, status |-> "Pending"] \in Rounds
      /\ [at |-> "orphan", name |-> n, status |-> "Pending"].at = "orphan"
      /\ [at |-> "orphan", name |-> n, status |-> "Pending"].name = n
  BY DEF Rounds, Names, Statuses
<1> HIDE DEF found
<1>6. QED
  BY <1>1, <1>2, <1>3, <1>4, <1>5

-----------------------------------------------------------------------------
(* Types.                                                                    *)

LEMMA InitInv == Init => IInv
<1> SUFFICES ASSUME Init PROVE IInv
  OBVIOUS
<1>1. 0 \in 0 .. MaxNames /\ 0 \in 0 .. MaxEvents
  BY DownloadAssumption
<1>2. row \in Rows
  BY <1>1 DEF Init, Rows, Statuses
<1>3. req \in [Slots -> Requests] /\ rec \in Rounds
  BY NoRequestFacts, NoRoundFacts DEF Init
<1>4. TypeOK
  BY <1>1, <1>2, <1>3 DEF Init, TypeOK, Phases
<1>5. (\A s \in Slots : req[s].at = "idle") /\ rec.at = "idle"
  BY NoRequestFacts, NoRoundFacts DEF Init
<1>6. NameInv /\ FreshInv
  BY <1>5 DEF Init, NameInv, FreshInv
<1>7. OnlyOrphansRemoved /\ ReadyInv
  BY <1>5 DEF Init, OnlyOrphansRemoved, ReadyInv, ReadyHasDataset
<1>8. QED
  BY <1>4, <1>6, <1>7 DEF IInv

\* A new name is in range.
LEMMA NewName ==
  ASSUME TypeOK, given < MaxNames
  PROVE  given + 1 \in 1 .. MaxNames
  BY DownloadAssumption DEF TypeOK

-----------------------------------------------------------------------------
(* Steps that give no name, bring no row back and submit nothing.            *)

\* A request that is not the one before submits nothing and stops a known job; a
\* round ends, or goes on to write with the dataset in place.
Quiet ==
  /\ row' \in Rows /\ row'.job = row.job
  /\ (row'.state # "none" => row.state # "none") /\ (Live' => Live)
  /\ row'.status = "Ready" => dataset' # "none"
  /\ wants' \in SUBSET Users /\ given' = given /\ reused' = reused /\ events' \in 0 .. MaxEvents
  /\ job' \in [Names -> Phases] /\ gone' \in SUBSET Names
  /\ \A n \in Names : job'[n] = job[n] \/ job'[n] = "none"
  /\ dataset' \in {"none", "created", "skipped"} /\ (dataset # "none" => dataset' # "none")
  /\ req' \in [Slots -> Requests]
  /\ \A t \in Slots :
        \/ req'[t] = req[t]
        \/ req'[t].at # "submit" /\ (req'[t].at = "stop" => req'[t].name \in 1 .. given)
  /\ rec' \in Rounds
  /\ \/ rec' = rec
     \/ rec'.at = "idle"
     \/ rec.at = "dataset" /\ rec'.at = "write" /\ rec'.name = rec.name /\ dataset' # "none"

LEMMA QuietKeeps ==
  ASSUME IInv, Quiet
  PROVE  IInv'
<1>1. TypeOK'
  <2>1. given \in 0 .. MaxNames /\ reused \in SUBSET Names
    BY DEF IInv, TypeOK
  <2>2. QED
    BY <2>1 DEF Quiet, TypeOK
<1>2. NameInv'
  <2>1. (row.state # "none" => row.job \in 1 .. given)'
    BY DEF Quiet, IInv, NameInv
  <2>2. ASSUME NEW s \in Slots, req'[s].at \in {"submit", "stop"}
        PROVE  req'[s].name \in 1 .. given
    BY <2>2 DEF Quiet, IInv, NameInv
  <2>3. \A n \in Names : job'[n] # "none" => n <= given
    BY DEF Quiet, IInv, NameInv
  <2>4. (rec'.at # "idle" => rec'.name \in Names) /\ (rec'.at = "orphan" => rec'.name <= given)
    BY DEF Quiet, IInv, NameInv
  <2>5. given' = given
    BY DEF Quiet
  <2>6. QED
    BY <2>1, <2>2, <2>3, <2>4, <2>5 DEF NameInv, Names
<1>3. FreshInv'
  <2>1. SUFFICES ASSUME NEW s \in Slots, req'[s].at = "submit", req'[s].name \notin reused
                 PROVE  /\ job'[req'[s].name] = "none"
                        /\ ~(rec'.at = "orphan" /\ rec'.name = req'[s].name)
                        /\ \A t \in Slots : req'[t].at = "submit" /\ req'[t].name = req'[s].name => t = s
    BY DEF FreshInv, Quiet
  <2>2. req'[s] = req[s] /\ req[s].name \in Names
    BY <2>1, RequestFacts DEF Quiet, IInv, NameInv, TypeOK, Names
  <2>3. /\ job[req[s].name] = "none"
        /\ ~(rec.at = "orphan" /\ rec.name = req[s].name)
        /\ \A t \in Slots : req[t].at = "submit" /\ req[t].name = req[s].name => t = s
    BY <2>1, <2>2 DEF IInv, FreshInv
  <2>4. \A t \in Slots : req'[t].at = "submit" => req'[t] = req[t]
    BY DEF Quiet
  <2>5. QED
    BY <2>2, <2>3, <2>4 DEF Quiet
<1>4. OnlyOrphansRemoved'
  <2>1. SUFFICES ASSUME rec'.at = "orphan", rec'.name \notin reused
                 PROVE  ~(Live' /\ row'.job = rec'.name) /\ job'[rec'.name] \in Ended \cup {"none"}
    BY DEF OnlyOrphansRemoved, Quiet
  <2>2. rec' = rec /\ rec.name \in Names
    BY <2>1 DEF Quiet, IInv, NameInv
  <2>3. ~(Live /\ row.job = rec.name) /\ job[rec.name] \in Ended \cup {"none"}
    BY <2>1, <2>2 DEF IInv, OnlyOrphansRemoved
  <2>4. QED
    BY <2>2, <2>3 DEF Quiet
<1>5. ReadyInv'
  BY DEF Quiet, IInv, ReadyInv, ReadyHasDataset
<1>6. QED
  BY <1>1, <1>2, <1>3, <1>4, <1>5 DEF IInv

\* What TypeOK and ReadyInv say of the variables a step leaves alone.
Same ==
  /\ row \in Rows /\ wants \in SUBSET Users /\ given \in 0 .. MaxNames
  /\ job \in [Names -> Phases] /\ gone \in SUBSET Names
  /\ req \in [Slots -> Requests] /\ rec \in Rounds
  /\ dataset \in {"none", "created", "skipped"} /\ events \in 0 .. MaxEvents
  /\ row.status = "Ready" => dataset # "none"

LEMMA SameFacts == IInv => Same
  BY DEF IInv, TypeOK, Same, ReadyInv, ReadyHasDataset

LEMMA ShareQuiet ==
  ASSUME IInv, NEW s \in Slots, NEW u \in Users, Share(s, u)
  PROVE  Quiet
<1>1. TypeOK /\ Same
  BY SameFacts DEF IInv
<1>2. Begins(s, "create", "join", u, 0)
  BY DEF Share
<1>3. 0 \in 0 .. MaxNames
  BY <1>1, RowFacts, DownloadAssumption
<1>4. /\ req' \in [Slots -> Requests] /\ events' \in 0 .. MaxEvents
      /\ req'[s].at = "join" /\ req'[s].name = 0 /\ \A t \in Slots : t # s => req'[t] = req[t]
  BY <1>1, <1>2, <1>3, BeginsFacts
<1>6. QED
  BY <1>1, <1>4 DEF Share, Quiet, Same, Live

LEMMA PauseQuiet ==
  ASSUME IInv, NEW s \in Slots, NEW u \in Users, Pause(s, u)
  PROVE  Quiet
<1>1. TypeOK /\ Same
  BY SameFacts DEF IInv
<1>2. Begins(s, "pause", "stop", u, row.job)
  BY DEF Pause
<1>3. row.job \in 0 .. MaxNames
  BY <1>1, RowFacts, DownloadAssumption
<1>4. /\ req' \in [Slots -> Requests] /\ events' \in 0 .. MaxEvents
      /\ req'[s].at = "stop" /\ req'[s].name = row.job /\ \A t \in Slots : t # s => req'[t] = req[t]
  BY <1>1, <1>2, <1>3, BeginsFacts
<1>5. row.job \in 1 .. given
  BY DEF Pause, Live, IInv, NameInv
<1>6. QED
  BY <1>1, <1>4, <1>5 DEF Pause, Quiet, Same, Live

LEMMA ResumeQuiet ==
  ASSUME IInv, NEW s \in Slots, NEW u \in Users, Resume(s, u)
  PROVE  Quiet
<1>1. TypeOK /\ Same
  BY SameFacts DEF IInv
<1>2. Begins(s, "resume", "rename", u, 0)
  BY DEF Resume
<1>3. 0 \in 0 .. MaxNames
  BY <1>1, RowFacts, DownloadAssumption
<1>4. /\ req' \in [Slots -> Requests] /\ events' \in 0 .. MaxEvents
      /\ req'[s].at = "rename" /\ req'[s].name = 0 /\ \A t \in Slots : t # s => req'[t] = req[t]
  BY <1>1, <1>2, <1>3, BeginsFacts
<1>6. QED
  BY <1>1, <1>4 DEF Resume, Quiet, Same, Live

LEMMA LeaveQuiet ==
  ASSUME IInv, NEW s \in Slots, NEW u \in Users, Leave(s, u)
  PROVE  Quiet
<1>1. TypeOK /\ Same
  BY SameFacts DEF IInv
<1>2. Begins(s, "delete", "count", u, 0)
  BY DEF Leave
<1>3. 0 \in 0 .. MaxNames
  BY <1>1, RowFacts, DownloadAssumption
<1>4. /\ req' \in [Slots -> Requests] /\ events' \in 0 .. MaxEvents
      /\ req'[s].at = "count" /\ req'[s].name = 0 /\ \A t \in Slots : t # s => req'[t] = req[t]
  BY <1>1, <1>2, <1>3, BeginsFacts
<1>6. QED
  BY <1>1, <1>4 DEF Leave, Quiet, Same, Live

\* Steps of a request that is over, or only goes on.
LEMMA EndQuiet ==
  ASSUME IInv, NEW s \in Slots, Join(s) \/ RequestFails(s)
  PROVE  Quiet
<1>1. TypeOK /\ Same
  BY SameFacts DEF IInv
<1>2. req' \in [Slots -> Requests] /\ req'[s].at = "idle" /\ \A t \in Slots : t # s => req'[t] = req[t]
  BY <1>1, OverFacts DEF Join, RequestFails
<1>3. events' \in 0 .. MaxEvents
  BY <1>1, CountsFacts DEF Join, RequestFails, Same
<1>4. req[s].user \in Users
  BY <1>1, RequestFacts
<1>5. QED
  BY <1>1, <1>2, <1>3, <1>4 DEF Join, RequestFails, Quiet, Same, Live

LEMMA SubmitFailsQuiet ==
  ASSUME IInv, NEW s \in Slots, SubmitFails(s)
  PROVE  Quiet
<1>1. TypeOK /\ Same
  BY SameFacts DEF IInv
<1>2. req' \in [Slots -> Requests] /\ req'[s].at = "undo" /\ \A t \in Slots : t # s => req'[t] = req[t]
  BY <1>1, GoesFacts DEF SubmitFails
<1>3. events' \in 0 .. MaxEvents
  BY <1>1, CountsFacts DEF SubmitFails
<1>4. QED
  BY <1>1, <1>2, <1>3 DEF SubmitFails, Quiet, Same, Live

LEMMA StopFailsQuiet ==
  ASSUME IInv, NEW s \in Slots, StopFails(s)
  PROVE  Quiet
<1>1. TypeOK /\ Same
  BY SameFacts DEF IInv
<1>2. PICK at \in {"write", "remove"} : Goes(s, at)
  BY DEF StopFails
<1>3. req' \in [Slots -> Requests] /\ req'[s].at = at /\ \A t \in Slots : t # s => req'[t] = req[t]
  BY <1>1, <1>2, GoesFacts
<1>4. events' \in 0 .. MaxEvents
  BY <1>1, CountsFacts DEF StopFails
<1>5. QED
  BY <1>1, <1>3, <1>4 DEF StopFails, Quiet, Same, Live

LEMMA StopQuiet ==
  ASSUME IInv, NEW s \in Slots, Stop(s)
  PROVE  Quiet
<1>1. TypeOK /\ Same
  BY SameFacts DEF IInv
<1>2. PICK at \in {"write", "remove"} : Goes(s, at)
  BY DEF Stop
<1>3. req' \in [Slots -> Requests] /\ req'[s].at = at /\ \A t \in Slots : t # s => req'[t] = req[t]
  BY <1>1, <1>2, GoesFacts
<1>4. req[s].name \in Names
  <2>1. req[s].name \in 1 .. given
    BY DEF Stop, IInv, NameInv
  <2>2. QED
    BY <1>1, <2>1, DownloadAssumption DEF Same, Names
<1>5. /\ job' \in [Names -> Phases] /\ gone' \in SUBSET Names
      /\ \A n \in Names : job'[n] = job[n] \/ job'[n] = "none"
  BY <1>1, <1>4, RemoveFacts DEF Stop
<1>6. QED
  BY <1>1, <1>3, <1>5 DEF Stop, Quiet, Same, Live

\* A count, also one that fails, leads to a stop of the row's job, or to the
\* removal of the row.
LEMMA CountQuiet ==
  ASSUME IInv, NEW s \in Slots, Count(s) \/ CountFails(s)
  PROVE  Quiet
<1>1. TypeOK /\ Same
  BY SameFacts DEF IInv
<1>2. /\ req' \in [Slots -> Requests] /\ \A t \in Slots : t # s => req'[t] = req[t]
      /\ req'[s].at # "submit" /\ (req'[s].at = "stop" => req'[s].name \in 1 .. given)
  <2>1. CASE Live /\ StopOrRemove(s)
    <3>1. PICK at \in {"stop", "remove"} : req' = [req EXCEPT ![s].at = at, ![s].name = row.job]
      BY <2>1 DEF StopOrRemove
    <3>2. row.job \in 1 .. given /\ row.job \in 0 .. MaxNames
      BY <1>1, <2>1, RowFacts DEF Live, IInv, NameInv
    <3>3. PICK r \in Requests : r = [req[s] EXCEPT !.at = at, !.name = row.job]
      BY <1>1, <3>2, RequestFacts DEF Requests
    <3>4. r.at = at /\ r.name = row.job
      BY <1>1, <3>3, RequestFacts DEF Requests
    <3>5. req' = [req EXCEPT ![s] = r]
      BY <3>1, <3>3
    <3>6. QED
      BY <1>1, <3>2, <3>4, <3>5 DEF Same
  <2>2. CASE Over(s)
    BY <1>1, <2>2, OverFacts
  <2>3. QED
    BY <2>1, <2>2 DEF Count, CountFails
<1>3. events' \in 0 .. MaxEvents
  BY <1>1, CountsFacts DEF Count, CountFails, Same
<1>4. QED
  BY <1>1, <1>2, <1>3 DEF Count, CountFails, Quiet, Same, Live

\* Writes of a status by a request: never "Ready".
LEMMA AnswerQuiet ==
  ASSUME IInv, NEW s \in Slots, Answer(s) \/ PauseWrite(s)
  PROVE  Quiet
<1>1. TypeOK /\ Same
  BY SameFacts DEF IInv
<1>2. PICK status \in Statuses : Write(status) /\ status # "Ready"
  <2>1. CASE PauseWrite(s)
    BY <2>1 DEF PauseWrite, Statuses
  <2>2. CASE Answer(s)
    <3>1. CASE req[s].at = "mark"
      BY <2>2, <3>1 DEF Answer, Statuses
    <3>2. CASE req[s].at # "mark" /\ req[s].kind = "resume"
      BY <2>2, <3>2 DEF Answer, Statuses
    <3>3. CASE req[s].at # "mark" /\ req[s].kind # "resume"
      BY <2>2, <3>3 DEF Answer, Statuses
    <3>4. QED
      BY <3>1, <3>2, <3>3
  <2>3. QED
    BY <2>1, <2>2
<1>3. /\ row' \in Rows /\ row'.state = row.state /\ row'.job = row.job
      /\ row'.status = IF Live THEN status ELSE row.status
  BY <1>1, <1>2, WriteFacts
<1>4. req' \in [Slots -> Requests] /\ req'[s].at = "idle" /\ \A t \in Slots : t # s => req'[t] = req[t]
  BY <1>1, OverFacts DEF Answer, PauseWrite
<1>5. UNCHANGED <<wants, given, job, gone, rec, dataset, events, reused>>
  BY DEF Answer, PauseWrite
<1>6. QED
  BY <1>1, <1>2, <1>3, <1>4, <1>5 DEF Quiet, Same, Live

LEMMA DeleteQuiet ==
  ASSUME IInv, AdminDelete \/ \E s \in Slots : SoftDelete(s)
  PROVE  Quiet
<1>1. TypeOK /\ Same
  BY SameFacts DEF IInv
<1>2. (row' = [row EXCEPT !.state = "deleted"] /\ Live) \/ row' = row
  BY DEF AdminDelete, SoftDelete
<1>3. /\ row' \in Rows /\ row'.job = row.job /\ row'.status = row.status
      /\ (row'.state # "none" => row.state # "none") /\ (Live' => Live)
  BY <1>1, <1>2 DEF Same, Rows, Live
<1>4. /\ req' \in [Slots -> Requests]
      /\ \A t \in Slots : req'[t] = req[t] \/ req'[t].at = "idle"
  <2>1. CASE AdminDelete
    BY <1>1, <2>1 DEF AdminDelete, Same
  <2>2. ASSUME NEW s \in Slots, SoftDelete(s)
        PROVE  /\ req' \in [Slots -> Requests]
               /\ \A t \in Slots : req'[t] = req[t] \/ req'[t].at = "idle"
    BY <1>1, <2>2, OverFacts DEF SoftDelete
  <2>3. QED
    BY <2>1, <2>2
<1>5. events' \in 0 .. MaxEvents
  BY <1>1, CountsFacts DEF AdminDelete, SoftDelete, Same
<1>6. UNCHANGED <<wants, given, job, gone, rec, dataset, reused>>
  BY DEF AdminDelete, SoftDelete
<1>7. QED
  BY <1>1, <1>3, <1>4, <1>5, <1>6 DEF Quiet, Same

\* Steps of the reconciler after its reads, and a restart.
LEMMA RoundQuiet ==
  ASSUME IInv, CreateDataset \/ DatasetFails \/ RoundFails \/ Restart
  PROVE  Quiet
<1>1. TypeOK /\ Same
  BY SameFacts DEF IInv
<1>2. events' \in 0 .. MaxEvents
  BY <1>1, CountsFacts DEF CreateDataset, DatasetFails, RoundFails, Restart, Same
<1>3. CASE CreateDataset \/ DatasetFails
  <2>1. rec' = [rec EXCEPT !.at = "write"] /\ rec.at = "dataset"
    BY <1>3 DEF CreateDataset, DatasetFails
  <2>2. rec' \in Rounds /\ rec'.at = "write" /\ rec'.name = rec.name
    BY <1>1, <2>1 DEF Same, Rounds
  <2>3. dataset' \in {"created", "skipped"}
    BY <1>1, <1>3 DEF CreateDataset, DatasetFails, Same
  <2>4. UNCHANGED <<row, wants, given, job, gone, req, reused>>
    BY <1>3 DEF CreateDataset, DatasetFails
  <2>5. QED
    BY <1>1, <1>2, <2>1, <2>2, <2>3, <2>4 DEF Quiet, Same, Live
<1>4. CASE RoundFails
  <2>1. rec' \in Rounds /\ rec'.at = "idle"
    BY <1>4, NoRoundFacts DEF RoundFails
  <2>2. rec.name \in Names
    BY <1>4 DEF RoundFails, IInv, NameInv
  <2>3. gone' \in SUBSET Names
    BY <1>1, <1>4, <2>2 DEF RoundFails, Same
  <2>4. QED
    BY <1>1, <1>2, <1>4, <2>1, <2>3 DEF RoundFails, Quiet, Same, Live
<1>5. CASE Restart
  <2>1. rec' \in Rounds /\ rec'.at = "idle"
    BY <1>5, NoRoundFacts DEF Restart
  <2>2. req' \in [Slots -> Requests] /\ \A t \in Slots : req'[t].at = "idle"
    BY <1>5, NoRequestFacts DEF Restart
  <2>3. QED
    BY <1>1, <1>2, <1>5, <2>1, <2>2 DEF Restart, Quiet, Same, Live
<1>6. QED
  BY <1>3, <1>4, <1>5

\* The dataset is in place when the status is written.
LEMMA UpdateQuiet ==
  ASSUME IInv, UpdateStatus
  PROVE  Quiet
<1>1. TypeOK /\ Same
  BY SameFacts DEF IInv
<1>2. rec.status \in Statuses /\ rec.at = "write"
  BY <1>1 DEF UpdateStatus, Same, Rounds
<1>3. rec.status = "Ready" => dataset # "none"
  BY <1>2 DEF IInv, ReadyInv
<1>4. /\ row' \in Rows /\ row'.state = row.state /\ row'.job = row.job
      /\ row'.status = IF Live THEN rec.status ELSE row.status
  BY <1>1, <1>2, WriteFacts DEF UpdateStatus
<1>5. rec' \in Rounds /\ rec'.at = "idle"
  BY NoRoundFacts DEF UpdateStatus
<1>6. QED
  BY <1>1, <1>3, <1>4, <1>5 DEF UpdateStatus, Quiet, Same, Live

LEMMA DeleteOrphanQuiet ==
  ASSUME IInv, DeleteOrphan
  PROVE  Quiet
<1>1. TypeOK /\ Same
  BY SameFacts DEF IInv
<1>2. rec.name \in Names
  BY DEF DeleteOrphan, IInv, NameInv
<1>3. /\ job' \in [Names -> Phases] /\ gone' \in SUBSET Names
      /\ \A n \in Names : job'[n] = job[n] \/ job'[n] = "none"
  BY <1>1, <1>2, RemoveFacts DEF DeleteOrphan
<1>4. rec' \in Rounds /\ rec'.at = "idle"
  BY NoRoundFacts DEF DeleteOrphan
<1>5. QED
  BY <1>1, <1>3, <1>4 DEF DeleteOrphan, Quiet, Same, Live

\* A submission that is refused changes the request only.
LEMMA RefusedQuiet ==
  ASSUME IInv, NEW s \in Slots, Submit(s), job[req[s].name] # "none"
  PROVE  Quiet
<1>1. TypeOK /\ Same
  BY SameFacts DEF IInv
<1>2. Goes(s, "undo") /\ UNCHANGED job
  BY DEF Submit
<1>3. req' \in [Slots -> Requests] /\ req'[s].at = "undo" /\ \A t \in Slots : t # s => req'[t] = req[t]
  BY <1>1, <1>2, GoesFacts
<1>4. QED
  BY <1>1, <1>2, <1>3 DEF Submit, Quiet, Same, Live

-----------------------------------------------------------------------------
(* Steps that give a name, bring a row back, submit a job or look at one.     *)

\* A step that gives the next name to a request, and perhaps to the row.
Gives(s) ==
  /\ given < MaxNames /\ given' = given + 1
  /\ row' \in Rows /\ (row'.status = "Ready" => dataset # "none")
  /\ (row'.state # "none" => row'.job \in 1 .. given')
  /\ (Live' => row'.job = given' \/ (Live /\ row'.job = row.job))
  /\ wants' \in SUBSET Users /\ events' \in 0 .. MaxEvents
  /\ req' \in [Slots -> Requests] /\ req'[s].at = "submit" /\ req'[s].name = given'
  /\ \A t \in Slots : t # s => req'[t] = req[t]
  /\ UNCHANGED <<job, gone, rec, dataset, reused>>

LEMMA GivesKeeps ==
  ASSUME IInv, NEW s \in Slots, Gives(s)
  PROVE  IInv'
<1>1. TypeOK /\ Same
  BY SameFacts DEF IInv
<1>2. given \in 0 .. MaxNames /\ given' \in 1 .. MaxNames /\ given' = given + 1 /\ given' \in Names
  BY <1>1, NewName, DownloadAssumption DEF Gives, Same, Names
<1>3. TypeOK'
  BY <1>1, <1>2 DEF Gives, Same, TypeOK
<1>4. NameInv'
  <2>1. (row.state # "none" => row.job \in 1 .. given)'
    BY DEF Gives
  <2>2. ASSUME NEW t \in Slots, req'[t].at \in {"submit", "stop"}
        PROVE  req'[t].name \in 1 .. given'
    <3>1. CASE t = s
      BY <1>2, <3>1 DEF Gives
    <3>2. CASE t # s
      <4>1. req'[t] = req[t] /\ req[t].name \in 1 .. given
        BY <2>2, <3>2 DEF Gives, IInv, NameInv
      <4>2. QED
        BY <1>2, <4>1
    <3>3. QED
      BY <3>1, <3>2
  <2>3. ASSUME NEW n \in Names, job'[n] # "none" PROVE n <= given'
    BY <1>2, <2>3 DEF Gives, IInv, NameInv, Names
  <2>4. (rec'.at # "idle" => rec'.name \in Names) /\ (rec'.at = "orphan" => rec'.name <= given')
    BY <1>2 DEF Gives, IInv, NameInv, Names
  <2>5. QED
    BY <2>1, <2>2, <2>3, <2>4 DEF NameInv
<1>5. FreshInv'
  <2>1. SUFFICES ASSUME NEW t \in Slots, req'[t].at = "submit", req'[t].name \notin reused
                 PROVE  /\ job[req'[t].name] = "none"
                        /\ ~(rec.at = "orphan" /\ rec.name = req'[t].name)
                        /\ \A o \in Slots : req'[o].at = "submit" /\ req'[o].name = req'[t].name => o = t
    BY DEF FreshInv, Gives
  <2>2. \A o \in Slots : o # s /\ req'[o].at = "submit" => req'[o] = req[o] /\ req[o].name \in 1 .. given
    BY DEF Gives, IInv, NameInv
  <2>3. CASE t = s
    <3>1. job[given'] = "none" /\ ~(rec.at = "orphan" /\ rec.name = given')
      BY <1>2 DEF IInv, NameInv
    <3>2. req'[t].name = given'
      BY <2>3 DEF Gives
    <3>3. \A o \in Slots : o # s /\ req'[o].at = "submit" => req'[o].name # given'
      BY <1>2, <2>2
    <3>4. QED
      BY <2>3, <3>1, <3>2, <3>3
  <2>4. CASE t # s
    <3>1. req'[t] = req[t] /\ req[t].name \in 1 .. given
      BY <2>1, <2>2, <2>4
    <3>2. /\ job[req[t].name] = "none"
          /\ ~(rec.at = "orphan" /\ rec.name = req[t].name)
          /\ \A o \in Slots : req[o].at = "submit" /\ req[o].name = req[t].name => o = t
      BY <2>1, <3>1 DEF IInv, FreshInv
    <3>3. req'[s].name # req[t].name
      BY <1>2, <3>1 DEF Gives
    <3>4. QED
      BY <2>2, <3>1, <3>2, <3>3
  <2>5. QED
    BY <2>3, <2>4
<1>6. OnlyOrphansRemoved'
  <2>1. SUFFICES ASSUME rec.at = "orphan", rec.name \notin reused
                 PROVE  ~(Live' /\ row'.job = rec.name) /\ job[rec.name] \in Ended \cup {"none"}
    BY DEF OnlyOrphansRemoved, Gives
  <2>2. ~(Live /\ row.job = rec.name) /\ job[rec.name] \in Ended \cup {"none"}
    BY <2>1 DEF IInv, OnlyOrphansRemoved
  <2>3. rec.name # given'
    BY <1>2, <2>1 DEF IInv, NameInv, Names
  <2>4. QED
    BY <2>2, <2>3 DEF Gives
<1>7. ReadyInv'
  BY DEF Gives, IInv, ReadyInv, ReadyHasDataset
<1>8. QED
  BY <1>3, <1>4, <1>5, <1>6, <1>7 DEF IInv

\* A request that begins with a new name.
LEMMA BeginsGives ==
  ASSUME IInv, NEW s \in Slots, NEW u \in Users, NEW kind \in {"create", "retry"},
         Begins(s, kind, "submit", u, given'), given < MaxNames, given' = given + 1
  PROVE  /\ req' \in [Slots -> Requests] /\ events' \in 0 .. MaxEvents
         /\ req'[s].at = "submit" /\ req'[s].name = given' /\ \A t \in Slots : t # s => req'[t] = req[t]
         /\ given' \in 1 .. MaxNames /\ given' \in 0 .. MaxNames
<1>1. TypeOK /\ given' \in 1 .. MaxNames /\ given' \in 0 .. MaxNames
  BY NewName, DownloadAssumption DEF IInv, TypeOK
<1>2. QED
  BY <1>1, BeginsFacts

LEMMA StartAnewGives ==
  ASSUME IInv, NEW s \in Slots, NEW u \in Users, StartAnew(s, u)
  PROVE  Gives(s)
<1>1. TypeOK /\ Same
  BY SameFacts DEF IInv
<1>2. given < MaxNames /\ given' = given + 1 /\ Begins(s, "create", "submit", u, given')
  BY DEF StartAnew
<1>3. /\ req' \in [Slots -> Requests] /\ events' \in 0 .. MaxEvents
      /\ req'[s].at = "submit" /\ req'[s].name = given' /\ \A t \in Slots : t # s => req'[t] = req[t]
      /\ given' \in 1 .. MaxNames /\ given' \in 0 .. MaxNames
  BY <1>2, BeginsGives
<1>4. row' = [state |-> "live", status |-> "Pending", job |-> given']
  BY DEF StartAnew
<1>5. row' \in Rows /\ row'.status # "Ready" /\ row'.job = given'
  BY <1>3, <1>4 DEF Rows, Statuses
<1>6. given' \in 1 .. given'
  BY <1>3
<1>7. QED
  BY <1>1, <1>2, <1>3, <1>5, <1>6 DEF StartAnew, Gives, Same

LEMMA RetryGives ==
  ASSUME IInv, NEW s \in Slots, NEW u \in Users, Retry(s, u)
  PROVE  Gives(s)
<1>1. TypeOK /\ Same
  BY SameFacts DEF IInv
<1>2. given < MaxNames /\ given' = given + 1 /\ Begins(s, "retry", "submit", u, given')
  BY DEF Retry
<1>3. /\ req' \in [Slots -> Requests] /\ events' \in 0 .. MaxEvents
      /\ req'[s].at = "submit" /\ req'[s].name = given' /\ \A t \in Slots : t # s => req'[t] = req[t]
      /\ given' \in 1 .. MaxNames /\ given' \in 0 .. MaxNames
  BY <1>2, BeginsGives
<1>4. row' = [row EXCEPT !.status = "Downloading", !.job = given']
  BY DEF Retry
<1>5. row' \in Rows /\ row'.status # "Ready" /\ row'.job = given'
  BY <1>1, <1>3, <1>4 DEF Same, Rows, Statuses
<1>6. given' \in 1 .. given'
  BY <1>3
<1>7. QED
  BY <1>1, <1>2, <1>3, <1>5, <1>6 DEF Retry, Gives, Same

LEMMA RenameGives ==
  ASSUME IInv, NEW s \in Slots, Rename(s)
  PROVE  Gives(s)
<1>1. TypeOK /\ Same
  BY SameFacts DEF IInv
<1>2. given < MaxNames /\ given' = given + 1 /\ given' \in 1 .. MaxNames /\ given' \in 1 .. given'
      /\ given' \in 0 .. MaxNames
  BY <1>1, NewName, DownloadAssumption DEF Rename, Same
<1>3. row' \in Rows /\ (row'.status = "Ready" => dataset # "none")
      /\ (row'.state # "none" => row'.job \in 1 .. given')
      /\ (Live' => row'.job = given')
  <2>1. CASE Live
    <3>1. row' = [row EXCEPT !.status = "Downloading", !.job = given']
      BY <2>1 DEF Rename
    <3>2. QED
      BY <1>1, <1>2, <3>1 DEF Same, Rows, Statuses
  <2>2. CASE ~Live
    <3>1. row' = row
      BY <2>2 DEF Rename
    <3>2. row.state # "none" => row.job \in 1 .. given'
      BY <1>1, <1>2 DEF IInv, NameInv, Same
    <3>3. QED
      BY <1>1, <2>2, <3>1, <3>2 DEF Same, Live
  <2>3. QED
    BY <2>1, <2>2
<1>4. req' \in [Slots -> Requests] /\ req'[s].at = "submit" /\ req'[s].name = given'
      /\ \A t \in Slots : t # s => req'[t] = req[t]
  <2>1. PICK r \in Requests : r = [req[s] EXCEPT !.at = "submit", !.name = given']
    BY <1>1, <1>2, RequestFacts DEF Requests
  <2>2. r.at = "submit" /\ r.name = given'
    BY <1>1, <2>1, RequestFacts DEF Requests
  <2>3. req' = [req EXCEPT ![s] = r]
    BY <2>1 DEF Rename
  <2>4. QED
    BY <1>1, <2>2, <2>3 DEF Same
<1>5. UNCHANGED <<wants, job, gone, rec, dataset, events, reused>>
  BY DEF Rename
<1>6. QED
  BY <1>1, <1>2, <1>3, <1>4, <1>5 DEF Gives, Same

\* A name that comes back is in the row of before.
LEMMA RestoreKeeps ==
  ASSUME IInv, NEW s \in Slots, NEW u \in Users, Restore(s, u)
  PROVE  IInv'
<1>1. TypeOK /\ Same
  BY SameFacts DEF IInv
<1>2. row.job \in 1 .. given /\ row.job \in Names /\ row.job \in 0 .. MaxNames
  <2>1. row.job \in 1 .. given
    BY DEF Restore, IInv, NameInv
  <2>2. QED
    BY <1>1, <2>1, DownloadAssumption DEF Same, Names
<1>3. /\ req' \in [Slots -> Requests] /\ events' \in 0 .. MaxEvents
      /\ req'[s].at = "submit" /\ req'[s].name = row.job /\ \A t \in Slots : t # s => req'[t] = req[t]
  BY <1>1, <1>2, BeginsFacts DEF Restore
<1>4. row' \in Rows /\ row'.job = row.job /\ row'.status = row.status
  BY <1>1 DEF Restore, Same, Rows
<1>5. reused' = reused \cup {row.job} /\ UNCHANGED <<given, job, gone, rec, dataset>>
  BY DEF Restore
<1>6. TypeOK'
  <2>1. wants' \in SUBSET Users /\ reused' \in SUBSET Names
    BY <1>1, <1>2, <1>5 DEF Restore, Same, TypeOK
  <2>2. QED
    BY <1>1, <1>3, <1>4, <1>5, <2>1 DEF Same, TypeOK
<1>7. NameInv'
  <2>1. \A t \in Slots : req'[t].at \in {"submit", "stop"} => req'[t].name \in 1 .. given
    BY <1>2, <1>3 DEF IInv, NameInv
  <2>2. QED
    BY <1>2, <1>4, <1>5, <2>1 DEF IInv, NameInv
<1>8. FreshInv'
  <2>1. SUFFICES ASSUME NEW t \in Slots, req'[t].at = "submit", req'[t].name \notin reused'
                 PROVE  /\ job[req'[t].name] = "none"
                        /\ ~(rec.at = "orphan" /\ rec.name = req'[t].name)
                        /\ \A o \in Slots : req'[o].at = "submit" /\ req'[o].name = req'[t].name => o = t
    BY <1>5 DEF FreshInv
  <2>2. t # s /\ req'[t] = req[t] /\ req[t].name \notin reused /\ req[t].name # row.job
    BY <1>3, <1>5, <2>1
  <2>3. /\ job[req[t].name] = "none"
        /\ ~(rec.at = "orphan" /\ rec.name = req[t].name)
        /\ \A o \in Slots : req[o].at = "submit" /\ req[o].name = req[t].name => o = t
    BY <2>1, <2>2 DEF IInv, FreshInv
  <2>4. QED
    BY <1>3, <2>2, <2>3
<1>9. OnlyOrphansRemoved'
  BY <1>4, <1>5 DEF IInv, OnlyOrphansRemoved, Live
<1>10. ReadyInv'
  BY <1>4, <1>5 DEF IInv, ReadyInv, ReadyHasDataset
<1>11. QED
  BY <1>6, <1>7, <1>8, <1>9, <1>10 DEF IInv

\* A job that is created has a name that nobody else submits or removes.
LEMMA CreatedKeeps ==
  ASSUME IInv, NEW s \in Slots, Submit(s), job[req[s].name] = "none"
  PROVE  IInv'
<1> DEFINE n == req[s].name
<1>1. TypeOK /\ Same
  BY SameFacts DEF IInv
<1>2. req[s].at = "submit" /\ n \in 1 .. given /\ n \in Names
  <2>1. req[s].at = "submit" /\ n \in 1 .. given
    BY DEF Submit, IInv, NameInv
  <2>2. QED
    BY <1>1, <2>1, DownloadAssumption DEF Same, Names
<1>3. job' = [job EXCEPT ![n] = "new"] /\ UNCHANGED <<row, wants, given, gone, rec, dataset, events, reused>>
  BY DEF Submit
<1>4. /\ req' \in [Slots -> Requests] /\ \A t \in Slots : t # s => req'[t] = req[t]
      /\ req'[s].at \in {"mark", "idle"}
  <2>1. Goes(s, "mark") \/ Over(s)
    BY DEF Submit
  <2>2. QED
    BY <1>1, <2>1, GoesFacts, OverFacts
<1> HIDE DEF n
<1>5. job' \in [Names -> Phases] /\ \A m \in Names : m # n => job'[m] = job[m]
  BY <1>1, <1>2, <1>3 DEF Same, Phases
<1>6. TypeOK'
  BY <1>1, <1>3, <1>4, <1>5 DEF TypeOK
<1>7. NameInv'
  <2>1. \A t \in Slots : req'[t].at \in {"submit", "stop"} => req'[t].name \in 1 .. given
    BY <1>4 DEF IInv, NameInv
  <2>2. \A m \in Names : job'[m] # "none" => m <= given
    BY <1>1, <1>2, <1>5 DEF IInv, NameInv, Same
  <2>3. QED
    BY <1>3, <2>1, <2>2 DEF IInv, NameInv
<1>8. FreshInv'
  <2>1. SUFFICES ASSUME NEW t \in Slots, req'[t].at = "submit", req'[t].name \notin reused
                 PROVE  /\ job'[req'[t].name] = "none"
                        /\ ~(rec.at = "orphan" /\ rec.name = req'[t].name)
                        /\ \A o \in Slots : req'[o].at = "submit" /\ req'[o].name = req'[t].name => o = t
    BY <1>3 DEF FreshInv
  <2>2. t # s /\ req'[t] = req[t] /\ \A o \in Slots : req'[o].at = "submit" => req'[o] = req[o]
    BY <1>4, <2>1
  <2>3. /\ job[req[t].name] = "none"
        /\ ~(rec.at = "orphan" /\ rec.name = req[t].name)
        /\ \A o \in Slots : req[o].at = "submit" /\ req[o].name = req[t].name => o = t
    BY <2>1, <2>2 DEF IInv, FreshInv
  <2>4. req[t].name # n /\ req[t].name \in Names
    <3>1. req[t].name # n
      BY <1>2, <2>2, <2>3 DEF n
    <3>2. req[t].name \in 1 .. given
      BY <2>1, <2>2 DEF IInv, NameInv
    <3>3. QED
      BY <1>1, <3>1, <3>2, DownloadAssumption DEF Same, Names
  <2>5. QED
    BY <1>5, <2>2, <2>3, <2>4
<1>9. OnlyOrphansRemoved'
  <2>1. SUFFICES ASSUME rec.at = "orphan", rec.name \notin reused
                 PROVE  ~(Live /\ row.job = rec.name) /\ job'[rec.name] \in Ended \cup {"none"}
    BY <1>3 DEF OnlyOrphansRemoved, Live
  <2>2. ~(Live /\ row.job = rec.name) /\ job[rec.name] \in Ended \cup {"none"}
    BY <2>1 DEF IInv, OnlyOrphansRemoved
  <2>3. rec.name # n /\ rec.name \in Names
    BY <1>2, <2>1 DEF IInv, NameInv, FreshInv, n
  <2>4. QED
    BY <1>5, <2>2, <2>3
<1>10. ReadyInv'
  BY <1>3 DEF IInv, ReadyInv, ReadyHasDataset
<1>11. QED
  BY <1>6, <1>7, <1>8, <1>9, <1>10 DEF IInv

\* A job that is found to be an orphan has ended, so nobody submits its name anew.
LEMMA ReconcileKeeps ==
  ASSUME IInv, NEW n \in Names, Reconcile(n)
  PROVE  IInv'
<1>1. TypeOK /\ Same
  BY SameFacts DEF IInv
<1>2. /\ rec' \in Rounds /\ gone' \in SUBSET Names
      /\ rec'.at \in {"idle", "orphan", "dataset", "write"}
      /\ rec'.at # "idle" => rec'.name = n
      /\ rec'.at = "orphan" => Orphan(n)
      /\ rec'.at = "write" => rec'.status # "Ready"
  BY <1>1, ReconcileFacts
<1>3. UNCHANGED <<row, wants, given, job, req, dataset, events, reused>>
  BY DEF Reconcile
<1>4. Orphan(n) => ~(Live /\ row.job = n) /\ job[n] \in Ended /\ job[n] # "none"
  BY DEF Orphan, Named, Ended
<1>5. TypeOK'
  BY <1>1, <1>2, <1>3 DEF TypeOK
<1>6. NameInv'
  BY <1>2, <1>3, <1>4 DEF IInv, NameInv
<1>7. FreshInv'
  BY <1>2, <1>3, <1>4 DEF IInv, FreshInv
<1>8. OnlyOrphansRemoved'
  BY <1>2, <1>3, <1>4 DEF OnlyOrphansRemoved, Live
<1>9. ReadyInv'
  BY <1>2, <1>3 DEF IInv, ReadyInv, ReadyHasDataset
<1>10. QED
  BY <1>5, <1>6, <1>7, <1>8, <1>9 DEF IInv

LEMMA JobRunsKeeps ==
  ASSUME IInv, NEW n \in Names, JobRuns(n)
  PROVE  IInv'
<1>1. TypeOK /\ Same
  BY SameFacts DEF IInv
<1>2. UNCHANGED <<row, wants, given, gone, req, rec, dataset, events, reused>>
  BY DEF JobRuns
<1>3. /\ job' \in [Names -> Phases] /\ job[n] \notin Ended \cup {"none"}
      /\ \A m \in Names : m # n => job'[m] = job[m]
  BY <1>1 DEF JobRuns, Same, Phases, Ended
<1>4. TypeOK'
  BY <1>1, <1>2, <1>3 DEF TypeOK
<1>5. NameInv'
  BY <1>2, <1>3 DEF IInv, NameInv
<1>6. FreshInv'
  <2>1. \A s \in Slots : req[s].at = "submit" => req[s].name \in Names
    BY <1>1, DownloadAssumption DEF IInv, NameInv, Same, Names
  <2>2. QED
    BY <1>2, <1>3, <2>1 DEF IInv, FreshInv
<1>7. OnlyOrphansRemoved'
  <2>1. rec.at = "orphan" => rec.name \in Names
    BY DEF IInv, NameInv
  <2>2. QED
    BY <1>2, <1>3, <2>1 DEF IInv, OnlyOrphansRemoved, Live
<1>8. ReadyInv'
  BY <1>2 DEF IInv, ReadyInv, ReadyHasDataset
<1>9. QED
  BY <1>4, <1>5, <1>6, <1>7, <1>8 DEF IInv

-----------------------------------------------------------------------------
(* Every step.                                                               *)

LEMMA NextKeeps ==
  ASSUME IInv, [Next]_vars
  PROVE  IInv'
<1>1. CASE UNCHANGED vars
  BY <1>1 DEF vars, IInv, TypeOK, NameInv, FreshInv, OnlyOrphansRemoved, ReadyInv,
              ReadyHasDataset, Live
<1>2. ASSUME NEW s \in Slots, NEW u \in Users, Request(s, u)
      PROVE  IInv'
  <2>1. CASE Share(s, u) \/ Pause(s, u) \/ Resume(s, u) \/ Leave(s, u)
    BY <2>1, ShareQuiet, PauseQuiet, ResumeQuiet, LeaveQuiet, QuietKeeps
  <2>2. CASE StartAnew(s, u) \/ Retry(s, u)
    BY <2>2, StartAnewGives, RetryGives, GivesKeeps
  <2>3. CASE Restore(s, u)
    BY <2>3, RestoreKeeps
  <2>4. QED
    BY <1>2, <2>1, <2>2, <2>3 DEF Request
<1>3. ASSUME NEW s \in Slots, RequestStep(s)
      PROVE  IInv'
  <2>1. CASE Join(s) \/ Answer(s) \/ PauseWrite(s) \/ Count(s) \/ Stop(s)
    BY <2>1, EndQuiet, AnswerQuiet, CountQuiet, StopQuiet, QuietKeeps
  <2>2. CASE SoftDelete(s)
    BY <2>2, DeleteQuiet, QuietKeeps
  <2>3. CASE Rename(s)
    BY <2>3, RenameGives, GivesKeeps
  <2>4. CASE Submit(s)
    BY <2>4, RefusedQuiet, CreatedKeeps, QuietKeeps
  <2>5. QED
    BY <1>3, <2>1, <2>2, <2>3, <2>4 DEF RequestStep
<1>4. ASSUME NEW s \in Slots, Fails(s)
      PROVE  IInv'
  BY <1>4, SubmitFailsQuiet, StopFailsQuiet, CountQuiet, EndQuiet, QuietKeeps DEF Fails
<1>5. ASSUME NEW n \in Names, Reconcile(n) \/ JobRuns(n)
      PROVE  IInv'
  BY <1>5, ReconcileKeeps, JobRunsKeeps
<1>6. CASE Round
  BY <1>6, RoundQuiet, UpdateQuiet, DeleteOrphanQuiet, QuietKeeps DEF Round
<1>7. CASE DatasetFails \/ RoundFails \/ Restart
  BY <1>7, RoundQuiet, QuietKeeps
<1>8. CASE AdminDelete
  BY <1>8, DeleteQuiet, QuietKeeps
<1>9. QED
  BY <1>1, <1>2, <1>3, <1>4, <1>5, <1>6, <1>7, <1>8 DEF Next

LEMMA Invariance == Spec => []IInv
<1>1. Init => IInv
  BY InitInv
<1>2. IInv /\ [Next]_vars => IInv'
  BY NextKeeps
<1>3. QED
  BY <1>1, <1>2, PTL DEF Spec

\* Every variable has its type (the handlers, the reconciler and the cluster).
THEOREM TypeCorrect == Spec => []TypeOK
<1>1. IInv => TypeOK
  BY DEF IInv
<1>2. QED
  BY <1>1, Invariance, PTL

\* The reconciler removes a job only when it has ended and the row does not name it,
\* however long ago it looked (handleJobNotFound and the handlers' new names).
THEOREM OrphansOnly == Spec => []OnlyOrphansRemoved
<1>1. IInv => OnlyOrphansRemoved
  BY DEF IInv
<1>2. QED
  BY <1>1, Invariance, PTL

\* A row says Ready only once its dataset was created, or its creation was tried
\* (syncDownloadWithJob, createDatasetForModel).
THEOREM DatasetFirst == Spec => []ReadyHasDataset
<1>1. IInv => ReadyHasDataset
  BY DEF IInv, ReadyInv
<1>2. QED
  BY <1>1, Invariance, PTL

=============================================================================
