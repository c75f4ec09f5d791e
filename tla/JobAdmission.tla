---------------------------- MODULE JobAdmission ----------------------------
(* What the prequeue promises about a job, whoever scans, crashes or writes   *)
(* rows: it is queued at most once, it is admitted at most once and only out  *)
(* of the queue, and a job that left the queue never comes back.              *)

CONSTANT Jobs
VARIABLE stage

Stages == {"outside", "queued", "admitted", "left"}

Move(from, to) ==
  \E j \in Jobs : stage[j] = from /\ stage' = [stage EXCEPT ![j] = to]

Init == stage = [j \in Jobs |-> "outside"]
Next == Move("outside", "queued") \/ Move("queued", "admitted") \/ Move("queued", "left")
Spec == Init /\ [][Next]_stage
=============================================================================
