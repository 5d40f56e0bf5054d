------------------------------ MODULE MCDedup -------------------------------
(* An instance of ActivePool with spends that are eligible for deduplication. *)
EXTENDS ActivePool, TLC

CONSTANTS T, U, V           \* bundles
CONSTANTS g1, g2, t1, u1    \* coins
CONSTANTS s1                \* a solution

\* T and U spend g1 with the same solution, so that the second to come waits
\* on the first; V spends what T created.
TwinBundles == {T, U, V}
TwinCoins == {g1, g2, t1, u1}
TwinGenesis == {g1, g2}
TwinRemovals == T :> {g1} @@ U :> {g1, g2} @@ V :> {t1}
TwinAdditions == T :> {t1} @@ U :> {t1, u1} @@ V :> {}
TwinFee == T :> 2 @@ U :> 6 @@ V :> 3
TwinVirtualCost == T :> 2 @@ U :> 3 @@ V :> 2
TwinNumSpends == [b \in TwinBundles |-> Cardinality(TwinRemovals[b])]
TwinDedupKeys == T :> {<<g1, s1>>} @@ U :> {<<g1, s1>>} @@ V :> {}
TwinBeforeHeight == [b \in TwinBundles |-> Unlimited]
TwinBeforeSeconds == [b \in TwinBundles |-> Unlimited]
TwinAssertHeight == [b \in TwinBundles |-> 0]
TwinAssertSeconds == [b \in TwinBundles |-> 0]
=============================================================================
