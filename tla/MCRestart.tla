----------------------------- MODULE MCRestart ------------------------------
(* A small instance of Restart for TLC.                                      *)
EXTENDS Restart, TLC

CONSTANTS P, C, W           \* bundles
CONSTANTS g1, p1            \* coins
CONSTANTS s1                \* a solution
CONSTANTS t1                \* a thread

\* P creates the coin for which C and W compete.  C must be in a block before
\* height 2; W is timelocked until height 1, pays less than C, and displaces
\* its own parent P when it comes first, because there is no room for both.
HomeBundles == {P, C, W}
HomeCoins == {g1, p1}
HomeGenesis == {g1}
HomeRemovals == P :> {g1} @@ C :> {p1} @@ W :> {p1}
HomeAdditions == P :> {p1} @@ C :> {} @@ W :> {}
HomeFee == P :> 1 @@ C :> 6 @@ W :> 4
HomeVirtualCost == P :> 1 @@ C :> 2 @@ W :> 3
HomeNumSpends == [b \in HomeBundles |-> 1]
HomeDedupKeys == [b \in HomeBundles |-> {}]
HomeBeforeHeight == [b \in HomeBundles |-> IF b = C THEN 2 ELSE Unlimited]
HomeBeforeSeconds == [b \in HomeBundles |-> Unlimited]
HomeAssertHeight == [b \in HomeBundles |-> IF b = W THEN 1 ELSE 0]
HomeAssertSeconds == [b \in HomeBundles |-> 0]
\* P's rate is the bound of the first two buckets, C's in the second of two with
\* the same bound; W is not counted.
HomeCost == P :> 1 @@ C :> 1 @@ W :> 0
HomeBucketLower == <<6, 6, 8, 16, 16, 24>>
=============================================================================
