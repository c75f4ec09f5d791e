---------------------------- MODULE MCCheckpoints ----------------------------
(* Small instances of Checkpoints, told apart by what may happen in them.     *)
EXTENDS Checkpoints

Bound(old, first, second, deletes, prone) ==
  [old |-> old, saves |-> [c \in Checkpoints |-> IF c = 1 THEN first ELSE second],
   deletes |-> deletes, faults |-> IF prone = {} THEN 0 ELSE 1, prone |-> prone]

AllBudgets == {
  Bound({1}, 1, 0, 0, Parties),               \* saved again under its name
  Bound({1}, 0, 1, 0, Parties),               \* a second one
  Bound({1}, 0, 1, 1, {}),                    \* a second one, and a deletion or cleanup
  Bound({2}, 0, 0, 1, Parties),               \* the only one is deleted
  Bound({1, 2}, 0, 0, 1, {"scan", "delete"})  \* the newest or the older one goes
}

\* A first save, and nothing that fails or is deleted.
FirstSave == {Bound({}, 1, 0, 0, {})}
=============================================================================
