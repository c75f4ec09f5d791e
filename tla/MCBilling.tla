----------------------------- MODULE MCBilling -----------------------------
EXTENDS Billing, TLC

CONSTANTS j1, j2, l1, l2, u1

OneOwner == [j \in Jobs |-> u1]
TwoPoints == [j \in Jobs |-> 2]
Grants   == {1}
AnyEvent == {"restart", "remove", "delete", "adjust", "crash"}

\* A behaviour has two jobs, two replicas or an event, and then two minutes; or
\* none of them, and three minutes.  With two of a kind the jobs begin at once.
\* Which job begins and which replica acts first makes no difference.
Begun  == {j \in Jobs : vc[j].phase # "Pending"}
Active == {l \in Loops : tx[l].pc # "idle" \/ lastTick[l] # Never}
Several(S) == IF Cardinality(S) > 1 THEN 1 ELSE 0
OneComplication ==
  /\ 3 * (Several(Begun) + Several(Active) + events) + now <= 5
  /\ Several(Begun) + Several(Active) = 0 \/ \A j \in Begun : vc[j].begin <= 0
  /\ j2 \in Begun => j1 \in Begun
  /\ l2 \in Active => l1 \in Active

AnyJob == Permutations(Jobs)
=============================================================================
