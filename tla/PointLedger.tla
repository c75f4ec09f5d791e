----------------------------- MODULE PointLedger -----------------------------
(* What billing promises about the points of the users of an account, as if   *)
(* every transaction were one step: what a user is billed for is taken from   *)
(* that user at the same moment, from free points first, then from extra      *)
(* points, the rest as a debt; the account is issued at most once a period;   *)
(* besides, only an administrator changes a balance.                          *)
EXTENDS Integers

CONSTANTS Users, IssueAmount, Period, Deltas
VARIABLES free, extra, billed, lastIssued

Never == -1
Positive(x) == IF x > 0 THEN x ELSE 0

\* Free points pay first, and extra points are not overdrawn.
ExtraLeft(f, e, cost) ==
  IF cost <= Positive(f) THEN e ELSE Positive(e + Positive(f) - cost)
Pays(u, cost) == cost >= 0 /\ extra'[u] = ExtraLeft(free[u], extra[u], cost)

Settle ==
  /\ billed' \in [Users -> Nat] /\ extra' \in [Users -> Nat] /\ free' \in [Users -> Int]
  /\ \A u \in Users : \E cost \in {billed'[u] - billed[u]} :
       Pays(u, cost) /\ free'[u] = free[u] + extra[u] - extra'[u] - cost
  /\ UNCHANGED lastIssued

\* An issue settles first; what is left of the last period, or owed, is forgotten.
Issue ==
  /\ billed' \in [Users -> Nat] /\ extra' \in [Users -> Nat]
  /\ \A u \in Users : \E cost \in {billed'[u] - billed[u]} : Pays(u, cost)
  /\ free' = [u \in Users |-> IssueAmount]
  /\ lastIssued = Never \/ lastIssued' >= lastIssued + Period

Adjust(u) ==
  /\ \E d \in Deltas : extra[u] + d >= 0 /\ extra' = [extra EXCEPT ![u] = @ + d]
  /\ UNCHANGED <<free, billed, lastIssued>>

Init ==
  /\ free = [u \in Users |-> 0] /\ extra = [u \in Users |-> 0] /\ billed = [u \in Users |-> 0]
  /\ lastIssued = Never

Next == Settle \/ Issue \/ \E u \in Users : Adjust(u)
Spec == Init /\ [][Next]_<<free, extra, billed, lastIssued>>
=============================================================================
