---------------------------- MODULE Checkpoints ----------------------------
(***************************************************************************)
(* The checkpoints of one training job.  The SDK writes a checkpoint, its  *)
(* manifest and its success marker into the staging directory; the agent   *)
(* beside the job copies what is complete to the final directory and tells *)
(* the backend; a scan compares the rows with the final directory; users   *)
(* delete checkpoints and clean up old ones.  Nothing is locked: the four  *)
(* share the rows and the directory.                                       *)
(*                                                                         *)
(* A checkpoint stands for its name, and its number for its step.  What is *)
(* written is the number of the save; a copy made or read in the middle of *)
(* a save is Torn, and its check sum belongs to no manifest.  A checkpoint *)
(* is a file here: the marker of a directory lies inside it, and goes when *)
(* it goes.  One deletion and one scan of the job run at a time.           *)
(***************************************************************************)
EXTENDS Integers, FiniteSets

CONSTANTS
  N,            \* checkpoints of the job
  KeepLast,     \* what a cleanup keeps
  Budgets       \* the bounds a behaviour may have: checkpoints that are there already,
                \* saves of each checkpoint, requests to delete, failures and whose

Checkpoints == 1..N
Parties == {"agent", "event", "scan", "delete"}

\* What may happen in a behaviour.
Bounds == [old : SUBSET Checkpoints, saves : [Checkpoints -> Nat], deletes : Nat,
           faults : Nat, prone : SUBSET Parties]

ASSUME CheckpointAssumption ==
  /\ N \in Nat \ {0} /\ KeepLast \in Nat \ {0}
  /\ Budgets \subseteq Bounds

VARIABLES
  stage,      \* the staging directory, and how far the save under way is
  disk,       \* the final directory
  status,     \* the row of a checkpoint
  flagged,    \* rows that say they are the latest
  pointer,    \* latestCheckpoint in the job's row
  agent,      \* the agent's walk through the staging directory
  processed,  \* the manifests the agent remembers
  skipped,    \* history: those of them it found without their success marker
  event,      \* the agent's request in the backend
  scan,       \* the scan under way
  del,        \* the deletion or cleanup under way
  budget      \* what may still happen

rowVars == <<status, flagged, pointer>>
vars == <<stage, disk, rowVars, agent, processed, skipped, event, scan, del, budget>>

Absent == 0
Torn   == -1
Contents == Int
Statuses == {"none", "creating", "uploading", "committed", "failed", "deleting", "deleted", "missing", "invalid"}

StagedFiles == [pc : {"idle", "open", "write", "manifest", "marker"},
                data : Contents, manifest : Nat, marker : BOOLEAN]
Files == [data : Contents, manifest : Nat, marker : BOOLEAN]
Walks == [pc : {"look", "posted", "copy", "remove", "rename", "manifest", "marker"},
          at : Checkpoints, manifest : Nat, copy : Contents]
Events == [pc : {"idle", "apply", "read", "clear", "set", "point"},
           to : {"uploading", "committed", "failed"}, latest : SUBSET Checkpoints]
Scans == [pc : {"idle", "list", "save", "missing", "deleted", "point"}, at : Checkpoints,
          items : SUBSET Checkpoints, valid : SUBSET Checkpoints]
Deletions == [pc : {"idle", "mark", "data", "manifest", "marker", "done", "failed", "clear", "set", "point"},
              todo : SUBSET Checkpoints, at : Checkpoints, all : BOOLEAN, latest : SUBSET Checkpoints]

NoEvent == [pc |-> "idle", to |-> "uploading", latest |-> {}]
NoScan  == [pc |-> "idle", at |-> 1, items |-> {}, valid |-> {}]
NoDelete == [pc |-> "idle", todo |-> {}, at |-> 1, all |-> FALSE, latest |-> {}]

\* The checkpoint of S with the highest step, if there is one.
Top(S) == {c \in S : \A d \in S : d <= c}
Committed == {c \in Checkpoints : status[c] = "committed"}

Spend(f) == budget[f] > 0 /\ budget' = [budget EXCEPT ![f] = @ - 1]
Fault(who) == who \in budget.prone /\ Spend("faults")

\* The old checkpoints were saved once, published and scanned.
Init ==
  /\ budget \in Budgets
  /\ LET old(c) == c \in budget.old
         v(c) == IF old(c) THEN 1 ELSE 0
     IN  /\ stage = [c \in Checkpoints |-> [pc |-> "idle", data |-> v(c), manifest |-> v(c), marker |-> old(c)]]
         /\ disk = [c \in Checkpoints |-> [data |-> v(c), manifest |-> v(c), marker |-> old(c)]]
         /\ status = [c \in Checkpoints |-> IF old(c) THEN "committed" ELSE "none"]
         /\ processed = [c \in Checkpoints |-> v(c)]
  /\ skipped = [c \in Checkpoints |-> 0]
  /\ flagged = Top(budget.old) /\ pointer = Top(budget.old)
  /\ agent = [pc |-> "look", at |-> 1, manifest |-> 0, copy |-> Absent]
  /\ event = NoEvent /\ scan = NoScan /\ del = NoDelete

-----------------------------------------------------------------------------
(* Manager.save: an existing file is removed, but its manifest and marker   *)
(* stay until the new ones overwrite them.                                  *)

SaveOthers == <<disk, rowVars, agent, processed, skipped, event, scan, del>>

SaveRemove(c) ==
  /\ stage[c].pc = "idle" /\ budget.saves[c] > 0
  /\ budget' = [budget EXCEPT !.saves[c] = @ - 1]
  /\ stage' = [stage EXCEPT ![c].pc = "open", ![c].data = Absent]
  /\ UNCHANGED SaveOthers

SaveOpen(c) ==
  /\ stage[c].pc = "open"
  /\ stage' = [stage EXCEPT ![c].pc = "write", ![c].data = Torn]
  /\ UNCHANGED <<SaveOthers, budget>>

SaveWrite(c) ==
  /\ stage[c].pc = "write"
  /\ stage' = [stage EXCEPT ![c].pc = "manifest", ![c].data = stage[c].manifest + 1]
  /\ UNCHANGED <<SaveOthers, budget>>

SaveManifest(c) ==
  /\ stage[c].pc = "manifest"
  /\ stage' = [stage EXCEPT ![c].pc = "marker", ![c].manifest = @ + 1]
  /\ UNCHANGED <<SaveOthers, budget>>

SaveMarker(c) ==
  /\ stage[c].pc = "marker"
  /\ stage' = [stage EXCEPT ![c].pc = "idle", ![c].marker = TRUE]
  /\ UNCHANGED <<SaveOthers, budget>>

SaveGoesOn(c) == SaveOpen(c) \/ SaveWrite(c) \/ SaveManifest(c) \/ SaveMarker(c)

-----------------------------------------------------------------------------
(* The agent: processStaging walks from one manifest to the next and gives  *)
(* up at the first error; the next poll starts from the first again.        *)

Following(c) == IF c = N THEN 1 ELSE c + 1

LookAt(c) == [agent EXCEPT !.pc = "look", !.at = c]
Post(to)  == [NoEvent EXCEPT !.pc = "apply", !.to = to]
Others    == <<stage, rowVars, scan, del>>

\* The manifests that were not handled, as their modification times tell.
Unseen(c) == stage[c].manifest > processed[c]

\* Mutant: the success marker is not looked for.
Unmarked(c) == TRUE
Marked(c) == stage[c].marker

\* A manifest without its marker counts as handled; one without its data is an error.
AgentLook ==
  /\ agent.pc = "look"
  /\ LET c == agent.at
         s == stage[c]
         skip == ~Unseen(c)
         lost == Unseen(c) /\ s.data = Absent
         done == Unseen(c) /\ s.data # Absent /\ ~Marked(c)
         take == Unseen(c) /\ s.data # Absent /\ Marked(c)
     IN  \/ skip /\ agent' = LookAt(Following(c)) /\ UNCHANGED <<processed, skipped, event>>
         \/ lost /\ agent' = LookAt(1) /\ UNCHANGED <<processed, skipped, event>>
         \/ /\ done /\ agent' = LookAt(Following(c))
            /\ processed' = [processed EXCEPT ![c] = s.manifest]
            /\ skipped' = [skipped EXCEPT ![c] = s.manifest] /\ UNCHANGED event
         \/ /\ take /\ agent' = [agent EXCEPT !.pc = "posted", !.manifest = s.manifest]
            /\ event' = Post("uploading") /\ UNCHANGED <<processed, skipped>>
  /\ UNCHANGED <<Others, disk, budget>>

\* The copy goes to a temporary name first.
AgentCopy ==
  /\ agent.pc = "copy" /\ stage[agent.at].data # Absent
  /\ agent' = [agent EXCEPT !.pc = "remove", !.copy = stage[agent.at].data]
  /\ UNCHANGED <<Others, disk, processed, skipped, event, budget>>

AgentRemove ==
  /\ agent.pc = "remove"
  /\ agent' = [agent EXCEPT !.pc = "rename"]
  /\ disk' = [disk EXCEPT ![agent.at].data = Absent]
  /\ UNCHANGED <<Others, processed, skipped, event, budget>>

AgentRename ==
  /\ agent.pc = "rename"
  /\ agent' = [agent EXCEPT !.pc = "manifest", !.copy = Absent]
  /\ disk' = [disk EXCEPT ![agent.at].data = agent.copy]
  /\ UNCHANGED <<Others, processed, skipped, event, budget>>

AgentManifest ==
  /\ agent.pc = "manifest"
  /\ agent' = [agent EXCEPT !.pc = "marker"]
  /\ disk' = [disk EXCEPT ![agent.at].manifest = agent.manifest]
  /\ UNCHANGED <<Others, processed, skipped, event, budget>>

AgentMarker ==
  /\ agent.pc = "marker"
  /\ agent' = [agent EXCEPT !.pc = "posted"]
  /\ disk' = [disk EXCEPT ![agent.at].marker = TRUE]
  /\ event' = Post("committed")
  /\ UNCHANGED <<Others, processed, skipped, budget>>

\* copyPathAtomically, writeManifest or writeSuccessMarker fails.
AgentFails ==
  /\ \/ agent.pc = "copy" /\ stage[agent.at].data = Absent /\ UNCHANGED budget
     \/ agent.pc \in {"copy", "remove", "rename", "manifest", "marker"} /\ Fault("agent")
  /\ agent' = [agent EXCEPT !.pc = "posted", !.copy = Absent]
  /\ event' = Post("failed")
  /\ UNCHANGED <<Others, disk, processed, skipped>>

\* What it processed is forgotten; a request that was not answered is not repeated.
AgentRestart ==
  /\ Fault("agent") /\ event.pc \in {"idle", "apply"}
  /\ agent' = [pc |-> "look", at |-> 1, manifest |-> 0, copy |-> Absent]
  /\ processed' = [c \in Checkpoints |-> 0] /\ skipped' = processed' /\ event' = NoEvent
  /\ UNCHANGED <<Others, disk>>

AgentStep == AgentLook \/ AgentCopy \/ AgentRemove \/ AgentRename \/ AgentManifest \/ AgentMarker

-----------------------------------------------------------------------------
(* The backend handles an event of the agent.                               *)

EventOthers == <<stage, disk, skipped, scan, del, budget>>

\* The latest of the committed rows: one that is flagged already comes first.
Latest == Top(IF Committed \cap flagged # {} THEN Committed \cap flagged ELSE Committed)

\* Mutant: the manifest counts as handled once it is announced.
AnsweredEarly(to) ==
  /\ processed' = IF to = "uploading" THEN [processed EXCEPT ![agent.at] = agent.manifest] ELSE processed
  /\ agent' = CASE to = "uploading" -> [agent EXCEPT !.pc = "copy"]
                [] to = "committed" -> LookAt(Following(agent.at))
                [] OTHER            -> LookAt(1)

\* The agent goes on when its request is answered.
Answered(to) ==
  /\ processed' = IF to = "committed" THEN [processed EXCEPT ![agent.at] = agent.manifest] ELSE processed
  /\ agent' = CASE to = "uploading" -> [agent EXCEPT !.pc = "copy"]
                [] to = "committed" -> LookAt(Following(agent.at))
                [] OTHER            -> LookAt(1)

\* updateCheckpointFromInternalEvent overwrites the row whatever it says, or creates it.
EventApply ==
  /\ event.pc = "apply"
  /\ status' = [status EXCEPT ![agent.at] = event.to]
  /\ flagged' = IF event.to = "committed" THEN flagged ELSE flagged \ {agent.at}
  /\ IF event.to = "committed"
     THEN event' = [event EXCEPT !.pc = "read"] /\ UNCHANGED <<agent, processed>>
     ELSE event' = NoEvent /\ Answered(event.to)
  /\ UNCHANGED <<EventOthers, pointer>>

\* refreshLatestForCheckpointJob
EventRead ==
  /\ event.pc = "read"
  /\ event' = [event EXCEPT !.pc = "clear", !.latest = Latest]
  /\ UNCHANGED <<EventOthers, rowVars, agent, processed>>

EventClear ==
  /\ event.pc = "clear"
  /\ event' = [event EXCEPT !.pc = "set"] /\ flagged' = {}
  /\ UNCHANGED <<EventOthers, status, pointer, agent, processed>>

EventSet ==
  /\ event.pc = "set"
  /\ event' = [event EXCEPT !.pc = "point"] /\ flagged' = flagged \cup event.latest
  /\ UNCHANGED <<EventOthers, status, pointer, agent, processed>>

EventPoint ==
  /\ event.pc = "point"
  /\ pointer' = event.latest
  /\ event' = NoEvent /\ Answered(event.to)
  /\ UNCHANGED <<EventOthers, status, flagged>>

\* A statement fails or the backend stops; the agent gives up its walk.  A row that
\* findOrCreateInternalCheckpoint created is left as it was created.
EventFails ==
  /\ Fault("event") /\ event.pc # "idle"
  /\ event' = NoEvent /\ agent' = LookAt(1)
  /\ \/ UNCHANGED status
     \/ /\ event.pc = "apply" /\ status[agent.at] = "none"
        /\ status' = [status EXCEPT ![agent.at] = "creating"]
  /\ UNCHANGED <<stage, disk, flagged, pointer, processed, skipped, scan, del>>

EventStep == EventApply \/ EventRead \/ EventClear \/ EventSet \/ EventPoint

-----------------------------------------------------------------------------
(* A scan: the directory is read, each file is looked at in turn, and       *)
(* persistScan writes a row for each of them before it turns to the rows    *)
(* that were not listed.                                                    *)

ScanOthers == <<stage, disk, agent, processed, skipped, event, del, budget>>

\* What validateCheckpointManifest accepts.
Valid(c) == disk[c].manifest > 0 /\ disk[c].data = disk[c].manifest /\ disk[c].marker

\* The entry it comes to next, or the next step when there is none.
ScanNext(pc, next) == [scan EXCEPT !.pc = IF scan.at = N THEN next ELSE pc, !.at = IF @ = N THEN 1 ELSE @ + 1]

ScanStart ==
  /\ scan.pc = "idle"
  /\ scan' = [scan EXCEPT !.pc = "list",
                          !.items = {c \in Checkpoints : disk[c].data # Absent \/ disk[c].manifest # 0}]
  /\ UNCHANGED <<ScanOthers, rowVars>>

\* scanLocalCheckpointDir, in the order of the names: a file that is gone by now is left out
ScanList ==
  /\ scan.pc = "list"
  /\ scan' = [ScanNext("list", "save") EXCEPT
       !.items = IF disk[scan.at].data = Absent THEN @ \ {scan.at} ELSE @,
       !.valid = IF scan.at \in scan.items /\ Valid(scan.at) THEN @ \cup {scan.at} ELSE @]
  /\ UNCHANGED <<ScanOthers, rowVars>>

\* persistScan: what was listed
ScanSave ==
  /\ scan.pc = "save"
  /\ LET c == scan.at
     IN  /\ status' = IF c \notin scan.items THEN status
                      ELSE [status EXCEPT ![c] = IF c \in scan.valid THEN "committed" ELSE "invalid"]
         /\ flagged' = CASE c \notin scan.items   -> flagged
                         [] c \in Top(scan.valid) -> flagged \cup {c}
                         [] OTHER                 -> flagged \ {c}
  /\ scan' = ScanNext("save", "missing")
  /\ UNCHANGED <<ScanOthers, pointer>>

\* Mutants: committed rows that were not listed stay; so do those being deleted.
ScanKeepsMissing ==
  /\ scan.pc = "missing"
  /\ scan' = [scan EXCEPT !.pc = "deleted"]
  /\ UNCHANGED <<ScanOthers, rowVars>>
ScanKeepsDeleting ==
  /\ scan.pc = "deleted"
  /\ scan' = [scan EXCEPT !.pc = "point"]
  /\ UNCHANGED <<ScanOthers, rowVars>>

\* The rows that say s and were not listed say t and are not the latest.
Unlisted(s, t) ==
  LET rest == {c \in Checkpoints \ scan.items : status[c] = s}
  IN  /\ status' = [c \in Checkpoints |-> IF c \in rest THEN t ELSE status[c]]
      /\ flagged' = flagged \ rest

ScanMissing ==
  /\ scan.pc = "missing"
  /\ Unlisted("committed", "missing")
  /\ scan' = [scan EXCEPT !.pc = "deleted"]
  /\ UNCHANGED <<ScanOthers, pointer>>

ScanDeleted ==
  /\ scan.pc = "deleted"
  /\ Unlisted("deleting", "deleted")
  /\ scan' = [scan EXCEPT !.pc = "point"]
  /\ UNCHANGED <<ScanOthers, pointer>>

ScanPoint ==
  /\ scan.pc = "point"
  /\ pointer' = Top(scan.valid) /\ scan' = NoScan
  /\ UNCHANGED <<ScanOthers, status, flagged>>

\* A request or a statement fails, or the backend stops: the rest is left out.
ScanFails ==
  /\ Fault("scan") /\ scan.pc # "idle"
  /\ scan' = NoScan
  /\ UNCHANGED <<stage, disk, rowVars, agent, processed, skipped, event, del>>

ScanStep == ScanStart \/ ScanList \/ ScanSave \/ ScanMissing \/ ScanDeleted \/ ScanPoint

-----------------------------------------------------------------------------
(* Deleting one checkpoint, and cleaning up: the same for each of several.  *)

DelOthers == <<stage, agent, processed, skipped, event, scan>>

\* The order of selectCleanupCheckpoints: the latest first, then by step.
Before(c, d) ==
  \/ c \in flagged /\ d \notin flagged
  \/ (c \in flagged <=> d \in flagged) /\ c > d
Excess == {c \in Committed : Cardinality({d \in Committed : Before(d, c)}) >= KeepLast}

DeleteJobCheckpoint(c) ==
  /\ Spend("deletes") /\ del.pc = "idle" /\ c \in Committed
  /\ del' = [NoDelete EXCEPT !.pc = "mark", !.todo = {c}]
  /\ UNCHANGED <<DelOthers, disk, rowVars>>

CleanupJobCheckpoints ==
  /\ Spend("deletes") /\ del.pc = "idle"
  /\ del' = [NoDelete EXCEPT !.pc = "mark", !.todo = Excess, !.all = TRUE]
  /\ UNCHANGED <<DelOthers, disk, rowVars>>

Row(c, s) ==
  /\ status' = [status EXCEPT ![c] = s] /\ flagged' = flagged \ {c}
  /\ UNCHANGED pointer

markCheckpointDeleting(c) ==
  /\ del.pc = "mark" /\ c \in del.todo
  /\ Row(c, "deleting")
  /\ del' = [del EXCEPT !.pc = "data", !.at = c, !.todo = @ \ {c}]
  /\ UNCHANGED <<DelOthers, disk, budget>>

\* FileSystemScanner.Delete
DeleteData ==
  /\ del.pc = "data"
  /\ del' = [del EXCEPT !.pc = "manifest"]
  /\ disk' = [disk EXCEPT ![del.at].data = Absent]
  /\ UNCHANGED <<DelOthers, rowVars, budget>>

DeleteManifest ==
  /\ del.pc = "manifest"
  /\ del' = [del EXCEPT !.pc = "marker"]
  /\ disk' = [disk EXCEPT ![del.at].manifest = 0]
  /\ UNCHANGED <<DelOthers, rowVars, budget>>

DeleteMarker ==
  /\ del.pc = "marker"
  /\ del' = [del EXCEPT !.pc = "done"]
  /\ disk' = [disk EXCEPT ![del.at].marker = FALSE]
  /\ UNCHANGED <<DelOthers, rowVars, budget>>

markCheckpointDeleted ==
  /\ del.pc = "done"
  /\ Row(del.at, "deleted")
  /\ del' = [del EXCEPT !.pc = "mark"]
  /\ UNCHANGED <<DelOthers, disk, budget>>

\* A cleanup goes on with its next candidate, the deletion of one returns its error.
GivesUp(d) == IF d.all THEN [d EXCEPT !.pc = "mark"] ELSE NoDelete

markCheckpointDeleteFailed ==
  /\ del.pc = "failed"
  /\ Row(del.at, "failed")
  /\ del' = GivesUp(del)
  /\ UNCHANGED <<DelOthers, disk, budget>>

\* refreshLatestAfterMutation
DeleteRead ==
  /\ del.pc = "mark" /\ del.todo = {}
  /\ del' = [del EXCEPT !.pc = "clear", !.latest = Latest]
  /\ UNCHANGED <<DelOthers, disk, rowVars, budget>>

DeleteClear ==
  /\ del.pc = "clear"
  /\ del' = [del EXCEPT !.pc = "set"] /\ flagged' = {}
  /\ UNCHANGED <<DelOthers, disk, status, pointer, budget>>

DeleteSet ==
  /\ del.pc = "set"
  /\ del' = [del EXCEPT !.pc = "point"] /\ flagged' = flagged \cup del.latest
  /\ UNCHANGED <<DelOthers, disk, status, pointer, budget>>

DeletePoint ==
  /\ del.pc = "point"
  /\ pointer' = del.latest /\ del' = NoDelete
  /\ UNCHANGED <<DelOthers, disk, status, flagged, budget>>

\* The scanner service fails, a statement fails, or the backend stops.
DeleteFails ==
  /\ Fault("delete")
  /\ \/ del.pc \in {"data", "manifest", "marker"} /\ del' = [del EXCEPT !.pc = "failed"]
     \/ del.pc \in {"done", "failed"} /\ del' = GivesUp(del)
     \/ \E c \in del.todo : del.pc = "mark" /\ del' = GivesUp([del EXCEPT !.todo = @ \ {c}])
     \/ del.pc # "idle" /\ del' = NoDelete
  /\ UNCHANGED <<stage, disk, rowVars, agent, processed, skipped, event, scan>>

DeleteStep ==
  \/ \E c \in Checkpoints : markCheckpointDeleting(c)
  \/ DeleteData \/ DeleteManifest \/ DeleteMarker
  \/ markCheckpointDeleted \/ markCheckpointDeleteFailed
  \/ DeleteRead \/ DeleteClear \/ DeleteSet \/ DeletePoint

-----------------------------------------------------------------------------
Next ==
  \/ \E c \in Checkpoints : SaveRemove(c) \/ SaveGoesOn(c) \/ DeleteJobCheckpoint(c)
  \/ AgentStep \/ AgentFails \/ AgentRestart
  \/ EventStep \/ EventFails
  \/ ScanStep \/ ScanFails
  \/ CleanupJobCheckpoints \/ DeleteStep \/ DeleteFails

Spec == Init /\ [][Next]_vars

\* A save that began goes on, the agent polls, requests are handled, and the scanner
\* runs again and again (its interval is set).  Nobody has to save or to delete.
FairSpec ==
  /\ Spec
  /\ \A c \in Checkpoints : WF_vars(SaveGoesOn(c))
  /\ WF_vars(AgentStep \/ AgentFails) /\ WF_vars(EventStep) /\ WF_vars(ScanStep) /\ WF_vars(DeleteStep)

-----------------------------------------------------------------------------
TypeOK ==
  /\ stage \in [Checkpoints -> StagedFiles] /\ disk \in [Checkpoints -> Files]
  /\ status \in [Checkpoints -> Statuses] /\ flagged \subseteq Checkpoints /\ pointer \subseteq Checkpoints
  /\ agent \in Walks /\ event \in Events
  /\ processed \in [Checkpoints -> Nat] /\ skipped \in [Checkpoints -> Nat]
  /\ scan \in Scans /\ del \in Deletions /\ budget \in Bounds

\* "Only a manifest with a success marker becomes committed": a row is committed only if
\* the job once finished saving the checkpoint, whoever wrote the row.
CommittedIsSaved == \A c \in Committed : stage[c].marker

\* Why it holds: only what was marked is announced, copied or found in the final directory.
SavedInv ==
  /\ CommittedIsSaved
  /\ \A c \in Checkpoints : disk[c].marker => stage[c].marker
  /\ agent.pc # "look" => stage[agent.at].marker
  /\ event.pc # "idle" => agent.pc = "posted"
  /\ \A c \in scan.valid : stage[c].marker

\* Nothing but scans is under way.
Still ==
  /\ \A c \in Checkpoints : stage[c].pc = "idle" /\ ~Unseen(c)
  /\ agent.pc = "look" /\ event.pc = "idle" /\ del.pc = "idle"

\* The rows agree with the final directory.
Agrees ==
  LET valid == {c \in Checkpoints : Valid(c)}
  IN  Committed = valid /\ flagged \cap valid = Top(valid) /\ pointer = Top(valid)

\* Scans repair whatever crossing events, deletions and failures left behind: when
\* nothing else happens any more, the rows agree with the directory in the end.
ScanRepairs == <>[]Still => <>[]Agrees

\* No row stays "deleting", also when the deletion was given up in the middle.
DeletingEnds == \A c \in Checkpoints : status[c] = "deleting" ~> status[c] # "deleting"

\* The manifest of a finished save gets to the final directory, or a later one does,
\* whatever fails and however often the agent restarts, unless somebody deletes
\* checkpoints, or the agent found the manifest before its marker was written: it
\* remembers such a manifest as handled and does not come back to it.
Finished(c, v) == stage[c].marker /\ stage[c].manifest = v
SavesArePublished ==
  [](del.pc = "idle") =>
    \A c \in Checkpoints : \A v \in 1..2 :
      Finished(c, v) ~> disk[c].manifest >= v \/ skipped[c] >= v

\* "The checkpoint agent copies committed manifests to ORBIT_CHECKPOINT_FINAL_DIR", says
\* the documentation of the SDK, and names no exception.
FinishedSavesArePublished ==
  [](del.pc = "idle") =>
    \A c \in Checkpoints : \A v \in 1..2 : Finished(c, v) ~> disk[c].manifest >= v
=============================================================================
