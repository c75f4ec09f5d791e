-------------------------- MODULE CheckpointProofs --------------------------
(* What holds of Checkpoints for any number of checkpoints, saves, deletions *)
(* and failures.                                                             *)
EXTENDS Checkpoints, TLAPS

-----------------------------------------------------------------------------
(* Facts of the operators.                                                  *)

LEMMA NameFacts ==
  /\ 1 \in Checkpoints /\ \A c \in Checkpoints : c \in Int
  /\ \A c \in Checkpoints : Following(c) \in Checkpoints
  /\ \A c \in Checkpoints : c # N => c + 1 \in Checkpoints
BY CheckpointAssumption DEF Checkpoints, Following

LEMMA ContentFacts == Absent \in Contents
BY DEF Absent, Contents

LEMMA TopFacts == ASSUME NEW S \in SUBSET Checkpoints PROVE Top(S) \subseteq S
BY DEF Top

LEMMA LatestFacts == Latest \subseteq Checkpoints
<1>1. Committed \subseteq Checkpoints
  BY DEF Committed
<1>2. QED
  BY <1>1 DEF Latest, Top

LEMMA IdleFacts ==
  /\ NoEvent \in Events /\ NoEvent.pc = "idle"
  /\ NoScan \in Scans /\ NoScan.valid = {}
  /\ NoDelete \in Deletions
  /\ \A to \in {"uploading", "committed", "failed"} : Post(to) \in Events
BY NameFacts DEF NoEvent, Events, NoScan, Scans, NoDelete, Deletions, Post

-----------------------------------------------------------------------------
(* Types.                                                                   *)

LEMMA InitType == Init => TypeOK
<1> SUFFICES ASSUME Init PROVE TypeOK
  OBVIOUS
<1>1. budget \in Bounds /\ budget.old \subseteq Checkpoints
  BY CheckpointAssumption DEF Init, Bounds
<1>2. stage \in [Checkpoints -> StagedFiles] /\ disk \in [Checkpoints -> Files]
  BY DEF Init, StagedFiles, Files, Contents, Absent
<1>3. /\ status \in [Checkpoints -> Statuses]
      /\ processed \in [Checkpoints -> Nat] /\ skipped \in [Checkpoints -> Nat]
  BY DEF Init, Statuses
<1>4. flagged \subseteq Checkpoints /\ pointer \subseteq Checkpoints
  BY <1>1, TopFacts DEF Init
<1>5. agent \in Walks
  BY NameFacts DEF Init, Walks, Contents, Absent
<1>6. event \in Events /\ scan \in Scans /\ del \in Deletions
  BY IdleFacts DEF Init
<1>7. QED
  BY <1>1, <1>2, <1>3, <1>4, <1>5, <1>6 DEF TypeOK

LEMMA SpendType ==
  ASSUME TypeOK, NEW f \in {"deletes", "faults"}, Spend(f)
  PROVE  budget' \in Bounds
BY DEF TypeOK, Bounds, Spend

LEMMA SaveType ==
  ASSUME TypeOK, NEW c \in Checkpoints, SaveRemove(c) \/ SaveGoesOn(c)
  PROVE  TypeOK'
<1>1. stage' \in [Checkpoints -> StagedFiles]
  BY DEF TypeOK, StagedFiles, Contents, Absent, Torn, SaveRemove, SaveGoesOn, SaveOpen, SaveWrite,
     SaveManifest, SaveMarker
<1>2. budget' \in Bounds
  BY DEF TypeOK, Bounds, SaveRemove, SaveGoesOn, SaveOpen, SaveWrite, SaveManifest, SaveMarker
<1>3. QED
  BY <1>1, <1>2 DEF TypeOK, SaveOthers, rowVars, SaveRemove, SaveGoesOn, SaveOpen, SaveWrite,
     SaveManifest, SaveMarker

LEMMA WalkFacts ==
  ASSUME TypeOK
  PROVE  /\ agent.at \in Checkpoints /\ agent.manifest \in Nat /\ agent.copy \in Contents
         /\ LookAt(1) \in Walks /\ LookAt(Following(agent.at)) \in Walks
         /\ [agent EXCEPT !.pc = "copy"] \in Walks
         /\ stage[agent.at] \in StagedFiles /\ stage[agent.at].manifest \in Nat
         /\ stage[agent.at].data \in Contents
<1>1. agent.at \in Checkpoints /\ stage[agent.at] \in StagedFiles
  BY DEF TypeOK, Walks
<1>2. QED
  BY <1>1, NameFacts DEF TypeOK, Walks, LookAt, StagedFiles

LEMMA DiskType ==
  ASSUME TypeOK, NEW c \in Checkpoints
  PROVE  /\ \A x \in Contents : [disk EXCEPT ![c].data = x] \in [Checkpoints -> Files]
         /\ \A n \in Nat : [disk EXCEPT ![c].manifest = n] \in [Checkpoints -> Files]
         /\ [disk EXCEPT ![c].marker = TRUE] \in [Checkpoints -> Files]
         /\ [disk EXCEPT ![c].marker = FALSE] \in [Checkpoints -> Files]
<1>1. disk[c] \in Files
  BY DEF TypeOK
<1>2. \A x \in Contents : [disk EXCEPT ![c].data = x] \in [Checkpoints -> Files]
  BY <1>1 DEF TypeOK, Files
<1>3. \A n \in Nat : [disk EXCEPT ![c].manifest = n] \in [Checkpoints -> Files]
  BY <1>1 DEF TypeOK, Files
<1>4. [disk EXCEPT ![c].marker = TRUE] \in [Checkpoints -> Files]
  BY <1>1 DEF TypeOK, Files
<1>5. [disk EXCEPT ![c].marker = FALSE] \in [Checkpoints -> Files]
  BY <1>1 DEF TypeOK, Files
<1>6. QED
  BY <1>2, <1>3, <1>4, <1>5

LEMMA AgentType ==
  ASSUME TypeOK, AgentStep \/ AgentFails \/ AgentRestart
  PROVE  TypeOK'
<1>1. agent' \in Walks
  <2> agent \in Walks
    BY DEF TypeOK
  <2>1. CASE AgentLook
    <3>1. [agent EXCEPT !.pc = "posted", !.manifest = stage[agent.at].manifest] \in Walks
      BY WalkFacts DEF Walks
    <3>2. QED
      BY <2>1, <3>1, WalkFacts DEF AgentLook
  <2>2. CASE AgentStep /\ ~AgentLook
    <3>1. CASE AgentCopy
      BY <3>1, WalkFacts DEF Walks, AgentCopy
    <3>2. CASE AgentRename
      BY <3>2, ContentFacts DEF Walks, AgentRename
    <3>3. CASE AgentRemove \/ AgentManifest \/ AgentMarker
      BY <3>3 DEF Walks, AgentRemove, AgentManifest, AgentMarker
    <3>4. QED
      BY <2>2, <3>1, <3>2, <3>3 DEF AgentStep
  <2>3. CASE AgentFails
    BY <2>3, ContentFacts DEF Walks, AgentFails
  <2>4. CASE AgentRestart
    BY <2>4, NameFacts DEF Walks, AgentRestart, Contents, Absent
  <2>5. QED
    BY <2>1, <2>2, <2>3, <2>4
<1>2. event' \in Events
  BY IdleFacts DEF TypeOK, AgentStep, AgentLook, AgentCopy, AgentRemove, AgentRename, AgentManifest,
     AgentMarker, AgentFails, AgentRestart
<1>3. processed' \in [Checkpoints -> Nat] /\ skipped' \in [Checkpoints -> Nat]
  BY WalkFacts DEF TypeOK, AgentStep, AgentLook, AgentCopy, AgentRemove, AgentRename, AgentManifest,
     AgentMarker, AgentFails, AgentRestart
<1>4. disk' \in [Checkpoints -> Files]
  <2>1. CASE AgentRemove \/ AgentRename
    <3>1. \E x \in Contents : disk' = [disk EXCEPT ![agent.at].data = x]
      BY <2>1, WalkFacts, ContentFacts DEF AgentRemove, AgentRename
    <3>2. PICK x \in Contents : disk' = [disk EXCEPT ![agent.at].data = x]
      BY <3>1
    <3>3. \A y \in Contents : [disk EXCEPT ![agent.at].data = y] \in [Checkpoints -> Files]
      BY WalkFacts, DiskType, Zenon
    <3>4. QED
      BY <3>2, <3>3, Zenon
  <2>2. CASE AgentManifest
    <3>1. disk' = [disk EXCEPT ![agent.at].manifest = agent.manifest]
      BY <2>2 DEF AgentManifest
    <3>2. QED
      BY <3>1, WalkFacts, DiskType, Zenon
  <2>3. CASE AgentMarker
    <3>1. disk' = [disk EXCEPT ![agent.at].marker = TRUE]
      BY <2>3 DEF AgentMarker
    <3>2. QED
      BY <3>1, WalkFacts, DiskType, Zenon
  <2>4. CASE AgentLook \/ AgentCopy
    BY <2>4 DEF TypeOK, AgentLook, AgentCopy
  <2>5. CASE AgentFails \/ AgentRestart
    BY <2>5 DEF TypeOK, AgentFails, AgentRestart
  <2>6. QED
    BY <2>1, <2>2, <2>3, <2>4, <2>5 DEF AgentStep
<1>5. budget' \in Bounds
  BY SpendType DEF TypeOK, Fault, AgentStep, AgentLook, AgentCopy, AgentRemove, AgentRename,
     AgentManifest, AgentMarker, AgentFails, AgentRestart
<1>6. UNCHANGED Others
  BY DEF AgentStep, AgentLook, AgentCopy, AgentRemove, AgentRename, AgentManifest, AgentMarker,
     AgentFails, AgentRestart
<1>7. QED
  BY <1>1, <1>2, <1>3, <1>4, <1>5, <1>6 DEF TypeOK, Others, rowVars

LEMMA AnsweredType ==
  ASSUME TypeOK, NEW to \in {"uploading", "committed", "failed"}, Answered(to)
  PROVE  agent' \in Walks /\ processed' \in [Checkpoints -> Nat]
<1>1. agent' \in Walks
  BY WalkFacts DEF Answered
<1>2. processed' \in [Checkpoints -> Nat]
  BY WalkFacts DEF TypeOK, Answered
<1>3. QED
  BY <1>1, <1>2

LEMMA EventType ==
  ASSUME TypeOK, EventStep \/ EventFails
  PROVE  TypeOK'
<1>1. event.to \in {"uploading", "committed", "failed"} /\ event.latest \subseteq Checkpoints
  BY DEF TypeOK, Events
<1>2. event' \in Events
  BY LatestFacts, IdleFacts DEF TypeOK, Events, EventStep, EventApply, EventRead, EventClear, EventSet,
     EventPoint, EventFails
<1>3. agent' \in Walks /\ processed' \in [Checkpoints -> Nat]
  BY <1>1, AnsweredType, WalkFacts DEF TypeOK, EventStep, EventApply, EventRead, EventClear, EventSet,
     EventPoint, EventFails, EventOthers
<1>4. status' \in [Checkpoints -> Statuses]
  BY <1>1 DEF TypeOK, Statuses, EventStep, EventApply, EventRead, EventClear, EventSet, EventPoint,
     EventFails, rowVars
<1>5. flagged' \subseteq Checkpoints /\ pointer' \subseteq Checkpoints
  BY <1>1 DEF TypeOK, EventStep, EventApply, EventRead, EventClear, EventSet, EventPoint, EventFails, rowVars
<1>6. budget' \in Bounds
  BY SpendType DEF TypeOK, Fault, EventStep, EventApply, EventRead, EventClear, EventSet, EventPoint,
     EventFails, EventOthers
<1>7. UNCHANGED <<stage, disk, skipped, scan, del>>
  BY DEF EventStep, EventApply, EventRead, EventClear, EventSet, EventPoint, EventFails, EventOthers
<1>8. QED
  BY <1>2, <1>3, <1>4, <1>5, <1>6, <1>7 DEF TypeOK

LEMMA ScanType ==
  ASSUME TypeOK, ScanStep \/ ScanFails
  PROVE  TypeOK'
<1>1. scan.at \in Checkpoints /\ scan.items \subseteq Checkpoints /\ scan.valid \subseteq Checkpoints
  BY DEF TypeOK, Scans
<1>2. scan' \in Scans
  <2>1. CASE ScanList \/ ScanSave
    <3>1. /\ ScanNext("list", "save") \in Scans /\ ScanNext("save", "missing") \in Scans
          /\ ScanNext("list", "save").items = scan.items /\ ScanNext("list", "save").valid = scan.valid
      BY NameFacts DEF TypeOK, Scans, ScanNext
    <3>2. ASSUME NEW r \in Scans, NEW I \in SUBSET Checkpoints, NEW V \in SUBSET Checkpoints
          PROVE  [r EXCEPT !.items = I, !.valid = V] \in Scans
      BY <3>2 DEF Scans
    <3>3. CASE ScanList
      <4> DEFINE I == IF disk[scan.at].data = Absent THEN scan.items \ {scan.at} ELSE scan.items
                 V == IF scan.at \in scan.items /\ Valid(scan.at) THEN scan.valid \cup {scan.at} ELSE scan.valid
      <4>1. I \in SUBSET Checkpoints /\ V \in SUBSET Checkpoints
        BY <1>1
      <4>2. scan' = [ScanNext("list", "save") EXCEPT !.items = I, !.valid = V]
        BY <3>1, <3>3 DEF ScanList, Scans
      <4>3. QED
        BY <3>1, <3>2, <4>1, <4>2
    <3>4. QED
      BY <2>1, <3>1, <3>3 DEF ScanSave
  <2>2. CASE (ScanStep /\ ~ScanList /\ ~ScanSave) \/ ScanFails
    BY <2>2, IdleFacts DEF TypeOK, Scans, ScanStep, ScanStart, ScanMissing, ScanDeleted, ScanPoint, ScanFails
  <2>3. QED
    BY <2>1, <2>2
<1>3. status' \in [Checkpoints -> Statuses]
  BY <1>1 DEF TypeOK, Statuses, ScanStep, ScanStart, ScanList, ScanSave, ScanMissing, ScanDeleted,
     ScanPoint, ScanFails, Unlisted, rowVars
<1>4. flagged' \subseteq Checkpoints /\ pointer' \subseteq Checkpoints
  BY <1>1, TopFacts DEF TypeOK, ScanStep, ScanStart, ScanList, ScanSave, ScanMissing, ScanDeleted,
     ScanPoint, ScanFails, Unlisted, rowVars
<1>5. budget' \in Bounds
  BY SpendType DEF TypeOK, Fault, ScanStep, ScanStart, ScanList, ScanSave, ScanMissing, ScanDeleted,
     ScanPoint, ScanFails, ScanOthers
<1>6. UNCHANGED <<stage, disk, agent, processed, skipped, event, del>>
  BY DEF ScanStep, ScanStart, ScanList, ScanSave, ScanMissing, ScanDeleted, ScanPoint, ScanFails, ScanOthers
<1>7. QED
  BY <1>2, <1>3, <1>4, <1>5, <1>6 DEF TypeOK

LEMMA DeleteType ==
  ASSUME TypeOK, DeleteStep \/ DeleteFails \/ CleanupJobCheckpoints
                 \/ \E c \in Checkpoints : DeleteJobCheckpoint(c)
  PROVE  TypeOK'
<1>1. /\ del.at \in Checkpoints /\ del.todo \subseteq Checkpoints /\ del.latest \subseteq Checkpoints
      /\ del.all \in BOOLEAN
  BY DEF TypeOK, Deletions
<1>2. Excess \subseteq Checkpoints
  BY DEF Excess, Committed
<1>3. del' \in Deletions
  <2> del \in Deletions
    BY DEF TypeOK
  <2>0. \A d \in Deletions : GivesUp(d) \in Deletions
    BY IdleFacts DEF Deletions, GivesUp
  <2>1. CASE DeleteStep
    <3>1. CASE \E c \in Checkpoints : markCheckpointDeleting(c)
      <4>1. ASSUME NEW c \in Checkpoints, NEW T \in SUBSET Checkpoints
            PROVE  [del EXCEPT !.pc = "data", !.at = c, !.todo = T] \in Deletions
        BY DEF Deletions
      <4>2. PICK c \in Checkpoints : markCheckpointDeleting(c)
        BY <3>1
      <4>3. del' = [del EXCEPT !.pc = "data", !.at = c, !.todo = del.todo \ {c}]
        BY <4>2 DEF markCheckpointDeleting
      <4>4. del.todo \ {c} \in SUBSET Checkpoints
        BY <1>1
      <4>5. QED
        BY <4>1, <4>3, <4>4
    <3>2. CASE DeleteData \/ DeleteManifest \/ DeleteMarker \/ markCheckpointDeleted
      BY <3>2 DEF Deletions, DeleteData, DeleteManifest, DeleteMarker, markCheckpointDeleted
    <3>3. CASE markCheckpointDeleteFailed
      BY <2>0, <3>3 DEF markCheckpointDeleteFailed
    <3>4. CASE DeleteRead
      BY <3>4, LatestFacts DEF Deletions, DeleteRead
    <3>5. CASE DeleteClear \/ DeleteSet \/ DeletePoint
      BY <3>5, IdleFacts DEF Deletions, DeleteClear, DeleteSet, DeletePoint
    <3>6. QED
      BY <2>1, <3>1, <3>2, <3>3, <3>4, <3>5 DEF DeleteStep
  <2>2. CASE DeleteFails
    <3>1. [del EXCEPT !.pc = "failed"] \in Deletions
      BY DEF Deletions
    <3>2. ASSUME NEW c \in del.todo PROVE [del EXCEPT !.todo = @ \ {c}] \in Deletions
      BY DEF Deletions
    <3>3. QED
      BY <2>0, <2>2, <3>1, <3>2, IdleFacts DEF DeleteFails
  <2>3. CASE CleanupJobCheckpoints
    BY <1>2, <2>3, IdleFacts DEF Deletions, CleanupJobCheckpoints
  <2>4. CASE \E c \in Checkpoints : DeleteJobCheckpoint(c)
    <3>1. PICK c \in Checkpoints : DeleteJobCheckpoint(c)
      BY <2>4
    <3>2. [NoDelete EXCEPT !.pc = "mark", !.todo = {c}] \in Deletions
      BY IdleFacts DEF Deletions
    <3>3. QED
      BY <3>1, <3>2 DEF DeleteJobCheckpoint
  <2>5. QED
    BY <2>1, <2>2, <2>3, <2>4
<1>4. status' \in [Checkpoints -> Statuses]
  BY <1>1 DEF TypeOK, Statuses, Row, rowVars, DeleteStep, markCheckpointDeleting, DeleteData, DeleteManifest,
     DeleteMarker, markCheckpointDeleted, markCheckpointDeleteFailed, DeleteRead, DeleteClear, DeleteSet,
     DeletePoint, DeleteFails, CleanupJobCheckpoints, DeleteJobCheckpoint
<1>5. flagged' \subseteq Checkpoints /\ pointer' \subseteq Checkpoints
  BY <1>1 DEF TypeOK, Row, rowVars, DeleteStep, markCheckpointDeleting, DeleteData, DeleteManifest,
     DeleteMarker, markCheckpointDeleted, markCheckpointDeleteFailed, DeleteRead, DeleteClear, DeleteSet,
     DeletePoint, DeleteFails, CleanupJobCheckpoints, DeleteJobCheckpoint
<1>6. disk' \in [Checkpoints -> Files]
  <2>1. CASE DeleteData \/ DeleteManifest
    <3>1. \/ disk' = [disk EXCEPT ![del.at].data = Absent]
          \/ disk' = [disk EXCEPT ![del.at].manifest = 0]
      BY <2>1 DEF DeleteData, DeleteManifest
    <3>2. /\ [disk EXCEPT ![del.at].data = Absent] \in [Checkpoints -> Files]
          /\ [disk EXCEPT ![del.at].manifest = 0] \in [Checkpoints -> Files]
      <4>1. 0 \in Nat
        OBVIOUS
      <4>2. QED
        BY <4>1, <1>1, DiskType, ContentFacts, Zenon
    <3>3. QED
      BY <3>1, <3>2, Zenon
  <2>2. CASE ~(DeleteData \/ DeleteManifest \/ DeleteMarker)
    BY <2>2 DEF TypeOK, DeleteStep, markCheckpointDeleting, markCheckpointDeleted,
       markCheckpointDeleteFailed, DeleteRead, DeleteClear, DeleteSet, DeletePoint, DeleteFails,
       CleanupJobCheckpoints, DeleteJobCheckpoint
  <2>3. CASE DeleteMarker
    <3>1. disk' = [disk EXCEPT ![del.at].marker = FALSE]
      BY <2>3 DEF DeleteMarker
    <3>2. QED
      BY <1>1, <3>1, DiskType, Zenon
  <2>4. QED
    BY <2>1, <2>2, <2>3
<1>7. budget' \in Bounds
  BY SpendType DEF TypeOK, Fault, DeleteStep, markCheckpointDeleting, DeleteData, DeleteManifest,
     DeleteMarker, markCheckpointDeleted, markCheckpointDeleteFailed, DeleteRead, DeleteClear, DeleteSet,
     DeletePoint, DeleteFails, CleanupJobCheckpoints, DeleteJobCheckpoint
<1>8. UNCHANGED DelOthers
  BY DEF DelOthers, DeleteStep, markCheckpointDeleting, DeleteData, DeleteManifest,
     DeleteMarker, markCheckpointDeleted, markCheckpointDeleteFailed, DeleteRead, DeleteClear, DeleteSet,
     DeletePoint, DeleteFails, CleanupJobCheckpoints, DeleteJobCheckpoint
<1>9. QED
  BY <1>3, <1>4, <1>5, <1>6, <1>7, <1>8 DEF TypeOK, DelOthers

LEMMA NextType == TypeOK /\ [Next]_vars => TypeOK'
<1> SUFFICES ASSUME TypeOK, [Next]_vars PROVE TypeOK'
  OBVIOUS
<1>1. CASE UNCHANGED vars
  BY <1>1 DEF vars, rowVars, TypeOK
<1>2. CASE Next
  BY <1>2, SaveType, AgentType, EventType, ScanType, DeleteType DEF Next
<1>3. QED
  BY <1>1, <1>2

\* TypeOK: every variable stays in its type, for any number of checkpoints and any bounds.
THEOREM TypeCorrect == Spec => []TypeOK
BY InitType, NextType, PTL DEF Spec

-----------------------------------------------------------------------------
(* Only what was saved is committed.                                        *)

LEMMA MarkersStay ==
  ASSUME TypeOK, NEW c \in Checkpoints, SaveRemove(c) \/ SaveGoesOn(c)
  PROVE  \A d \in Checkpoints : stage[d].marker => stage'[d].marker
<1>1. CASE SaveMarker(c)
  BY <1>1 DEF TypeOK, StagedFiles, SaveMarker
<1>2. CASE ~SaveMarker(c)
  BY <1>2 DEF TypeOK, StagedFiles, SaveRemove, SaveGoesOn, SaveOpen, SaveWrite, SaveManifest
<1>3. QED
  BY <1>1, <1>2

LEMMA SaveKeeps ==
  ASSUME TypeOK, SavedInv, NEW c \in Checkpoints, SaveRemove(c) \/ SaveGoesOn(c)
  PROVE  SavedInv'
<1>1. UNCHANGED SaveOthers
  BY DEF SaveRemove, SaveGoesOn, SaveOpen, SaveWrite, SaveManifest, SaveMarker
<1>2. agent.at \in Checkpoints /\ scan.valid \subseteq Checkpoints
  BY DEF TypeOK, Walks, Scans
<1>3. QED
  BY <1>1, <1>2, MarkersStay DEF SavedInv, CommittedIsSaved, Committed, SaveOthers, rowVars

LEMMA AgentKeeps ==
  ASSUME TypeOK, SavedInv, AgentStep \/ AgentFails \/ AgentRestart
  PROVE  SavedInv'
<1> USE DEF SavedInv
<1>1. UNCHANGED Others
  BY DEF AgentStep, AgentLook, AgentCopy, AgentRemove, AgentRename, AgentManifest, AgentMarker,
     AgentFails, AgentRestart
<1>2. CommittedIsSaved' /\ \A c \in scan'.valid : stage'[c].marker
  BY <1>1 DEF CommittedIsSaved, Committed, Others, rowVars
<1>3. /\ agent'.pc # "look" => stage'[agent'.at].marker
      /\ event'.pc # "idle" => agent'.pc = "posted"
  <2>1. CASE AgentLook
    <3>1. CASE agent' = [agent EXCEPT !.pc = "posted", !.manifest = stage[agent.at].manifest] /\ stage[agent.at].marker
      BY <1>1, <3>1 DEF TypeOK, Walks, Others
    <3>2. CASE UNCHANGED event /\ (agent' = LookAt(1) \/ agent' = LookAt(Following(agent.at)))
      BY <2>1, <3>2 DEF TypeOK, Walks, LookAt, AgentLook
    <3>3. QED
      BY <2>1, <3>1, <3>2 DEF AgentLook, Marked
  <2>2. CASE AgentCopy \/ AgentRemove \/ AgentRename \/ AgentManifest
    BY <1>1, <2>2 DEF TypeOK, Walks, Others, AgentCopy, AgentRemove, AgentRename, AgentManifest
  <2>3. CASE AgentMarker \/ AgentFails
    BY <1>1, <2>3 DEF TypeOK, Walks, Others, AgentMarker, AgentFails
  <2>4. CASE AgentRestart
    BY <2>4, IdleFacts DEF AgentRestart
  <2>5. QED
    BY <2>1, <2>2, <2>3, <2>4 DEF AgentStep
<1>4. \A c \in Checkpoints : disk'[c].marker => stage'[c].marker
  <2>1. CASE AgentMarker
    <3>1. stage[agent.at].marker
      BY <2>1 DEF AgentMarker
    <3>2. QED
      BY <1>1, <2>1, <3>1 DEF TypeOK, Files, Others, AgentMarker
  <2>2. CASE AgentRemove \/ AgentRename \/ AgentManifest
    BY <1>1, <2>2 DEF TypeOK, Files, Others, AgentRemove, AgentRename, AgentManifest
  <2>3. CASE AgentLook \/ AgentCopy
    BY <1>1, <2>3 DEF Others, AgentLook, AgentCopy
  <2>4. CASE AgentFails \/ AgentRestart
    BY <1>1, <2>4 DEF Others, AgentFails, AgentRestart
  <2>5. QED
    BY <2>1, <2>2, <2>3, <2>4 DEF AgentStep
<1>5. QED
  BY <1>2, <1>3, <1>4

LEMMA EventKeeps ==
  ASSUME TypeOK, SavedInv, EventStep \/ EventFails
  PROVE  SavedInv'
<1> USE DEF SavedInv
<1>1. UNCHANGED <<stage, disk, scan, del>>
  BY DEF EventStep, EventApply, EventRead, EventClear, EventSet, EventPoint, EventFails, EventOthers
<1>2. event.pc # "idle" => agent.pc = "posted" /\ stage[agent.at].marker
  OBVIOUS
<1>3. CommittedIsSaved'
  <2>1. CASE EventApply
    <3>1. stage[agent.at].marker
      BY <1>2, <2>1 DEF EventApply
    <3>2. QED
      BY <1>1, <2>1, <3>1 DEF TypeOK, CommittedIsSaved, Committed, EventApply
  <2>2. CASE EventFails
    <3>1. \A c \in Checkpoints : status'[c] = "committed" => status[c] = "committed"
      BY <2>2 DEF TypeOK, EventFails
    <3>2. QED
      BY <1>1, <3>1 DEF CommittedIsSaved, Committed
  <2>3. CASE UNCHANGED status
    BY <1>1, <2>3 DEF CommittedIsSaved, Committed
  <2>4. QED
    BY <2>1, <2>2, <2>3 DEF EventStep, EventRead, EventClear, EventSet, EventPoint, rowVars
<1>4. /\ agent'.pc # "look" => stage'[agent'.at].marker
      /\ event'.pc # "idle" => agent'.pc = "posted"
  <2>1. CASE UNCHANGED agent /\ event.pc # "idle"
    BY <1>1, <1>2, <2>1
  <2>2. CASE event' = NoEvent /\ agent' = [agent EXCEPT !.pc = "copy"] /\ event.pc # "idle"
    BY <1>1, <1>2, <2>2, IdleFacts DEF TypeOK, Walks
  <2>3. CASE event' = NoEvent /\ (agent' = LookAt(1) \/ agent' = LookAt(Following(agent.at)))
    BY <2>3, IdleFacts DEF TypeOK, Walks, LookAt
  <2>4. QED
    BY <2>1, <2>2, <2>3 DEF TypeOK, Events, EventStep, EventApply, EventRead, EventClear, EventSet, EventPoint, EventFails,
       EventOthers, Answered
<1>5. QED
  BY <1>1, <1>3, <1>4

LEMMA ScanKeeps ==
  ASSUME TypeOK, SavedInv, ScanStep \/ ScanFails
  PROVE  SavedInv'
<1> USE DEF SavedInv
<1>1. UNCHANGED <<stage, disk, agent, event>>
  BY DEF ScanStep, ScanStart, ScanList, ScanSave, ScanMissing, ScanDeleted, ScanPoint, ScanFails, ScanOthers
<1>2. scan.at \in Checkpoints
  BY DEF TypeOK, Scans
<1>3. \A c \in scan'.valid : stage[c].marker
  <2>1. CASE ScanList
    <3>1. scan'.valid \subseteq scan.valid \cup (IF Valid(scan.at) THEN {scan.at} ELSE {})
      BY <2>1 DEF TypeOK, Scans, ScanList, ScanNext
    <3>2. QED
      BY <1>2, <3>1 DEF Valid
  <2>2. CASE ScanStart \/ ScanSave \/ ScanMissing \/ ScanDeleted
    BY <2>2 DEF TypeOK, Scans, ScanStart, ScanSave, ScanNext, ScanMissing, ScanDeleted
  <2>3. CASE ScanPoint \/ ScanFails
    BY <2>3, IdleFacts DEF ScanPoint, ScanFails
  <2>4. QED
    BY <2>1, <2>2, <2>3 DEF ScanStep
<1>4. \A c \in Checkpoints : status'[c] = "committed" => status[c] = "committed" \/ c \in scan.valid
  <2>1. CASE ScanSave
    BY <1>2, <2>1 DEF TypeOK, ScanSave
  <2>2. CASE ScanMissing \/ ScanDeleted
    BY <2>2 DEF ScanMissing, ScanDeleted, Unlisted
  <2>3. CASE ScanStart \/ ScanList \/ ScanPoint \/ ScanFails
    BY <2>3 DEF ScanStart, ScanList, ScanPoint, ScanFails, rowVars
  <2>4. QED
    BY <2>1, <2>2, <2>3 DEF ScanStep
<1>5. QED
  BY <1>1, <1>3, <1>4 DEF CommittedIsSaved, Committed

LEMMA DeleteKeeps ==
  ASSUME TypeOK, SavedInv,
         DeleteStep \/ DeleteFails \/ CleanupJobCheckpoints \/ \E c \in Checkpoints : DeleteJobCheckpoint(c)
  PROVE  SavedInv'
<1> USE DEF SavedInv
<1>1. UNCHANGED DelOthers
  BY DEF DelOthers, DeleteStep, markCheckpointDeleting, DeleteData, DeleteManifest,
     DeleteMarker, markCheckpointDeleted, markCheckpointDeleteFailed, DeleteRead, DeleteClear, DeleteSet,
     DeletePoint, DeleteFails, CleanupJobCheckpoints, DeleteJobCheckpoint
<1>2. \A c \in Checkpoints : status'[c] = "committed" => status[c] = "committed"
  BY DEF TypeOK, Row, rowVars, DeleteStep, markCheckpointDeleting, DeleteData, DeleteManifest,
     DeleteMarker, markCheckpointDeleted, markCheckpointDeleteFailed, DeleteRead, DeleteClear, DeleteSet,
     DeletePoint, DeleteFails, CleanupJobCheckpoints, DeleteJobCheckpoint
<1>3. \A c \in Checkpoints : disk'[c].marker => disk[c].marker
  <2>1. CASE DeleteData \/ DeleteManifest
    BY <2>1 DEF TypeOK, Files, DeleteData, DeleteManifest
  <2>2. CASE DeleteMarker
    BY <2>2 DEF TypeOK, Files, DeleteMarker
  <2>3. CASE ~(DeleteData \/ DeleteManifest \/ DeleteMarker)
    BY <2>3 DEF DeleteStep, markCheckpointDeleting, markCheckpointDeleted, markCheckpointDeleteFailed, DeleteRead,
       DeleteClear, DeleteSet, DeletePoint, DeleteFails, CleanupJobCheckpoints, DeleteJobCheckpoint
  <2>4. QED
    BY <2>1, <2>2, <2>3
<1>4. QED
  BY <1>1, <1>2, <1>3 DEF CommittedIsSaved, Committed, DelOthers

LEMMA SavedStep == TypeOK /\ SavedInv /\ [Next]_vars => SavedInv'
<1> SUFFICES ASSUME TypeOK, SavedInv, [Next]_vars PROVE SavedInv'
  OBVIOUS
<1>1. CASE UNCHANGED vars
  BY <1>1 DEF vars, rowVars, SavedInv, CommittedIsSaved, Committed
<1>2. CASE Next
  BY <1>2, SaveKeeps, AgentKeeps, EventKeeps, ScanKeeps, DeleteKeeps DEF Next
<1>3. QED
  BY <1>1, <1>2

\* CommittedIsSaved: a row is committed only when the job once finished saving the
\* checkpoint, for any number of checkpoints, saves, deletions, failures and restarts.
THEOREM OnlySavedCommitted == Spec => []CommittedIsSaved
<1>1. Init => SavedInv
  <2> SUFFICES ASSUME Init PROVE SavedInv
    OBVIOUS
  <2>1. \A c \in Checkpoints : (status[c] = "committed" <=> c \in budget.old) /\ stage[c].marker = (c \in budget.old)
                            /\ disk[c].marker = (c \in budget.old)
    BY DEF Init
  <2>2. agent.pc = "look" /\ event.pc = "idle" /\ scan.valid = {}
    BY IdleFacts DEF Init
  <2>3. QED
    BY <2>1, <2>2 DEF SavedInv, CommittedIsSaved, Committed
<1>2. SavedInv => CommittedIsSaved
  BY DEF SavedInv
<1>3. QED
  BY <1>1, <1>2, TypeCorrect, SavedStep, PTL DEF Spec

=============================================================================
