------------------------------ MODULE MCBlocks ------------------------------
(* A small instance of Blocks for TLC.                                       *)
EXTENDS Blocks, TLC

CONSTANTS S1, S2, S3, A, B, W               \* bundles
CONSTANTS g1, g2, g3, g4, s1c, s2c, x1, a1 \* coins
CONSTANTS one                               \* a solution
CONSTANTS singleton, none                   \* a launcher, and none

\* Three spends of a singleton one after the other, of which the second has a
\* deadline; A, B and W share an identical spend, to which each adds one of its
\* own, A that of a second coin of S1.
ChainIdOrder == <<S1, S2, S3, A, B, W>>
ChainBundles == {S1, S2, S3, A, B, W}
ChainCoins == {g1, g2, g3, g4, s1c, s2c, x1, a1}
ChainGenesis == {g1, g2, g3, g4}
ChainRemovals ==
    S1 :> {g1} @@ S2 :> {s1c} @@ S3 :> {s2c} @@ A :> {g2, x1} @@ B :> {g2, g3} @@
    W :> {g2, g4}
ChainAdditions ==
    S1 :> {s1c, x1} @@ S2 :> {s2c} @@ S3 :> {} @@ A :> {a1} @@ B :> {a1} @@
    W :> {a1}
ChainFee == S1 :> 1 @@ S2 :> 3 @@ S3 :> 6 @@ A :> 3 @@ B :> 5 @@ W :> 4
ChainVirtualCost ==
    S1 :> 1 @@ S2 :> 1 @@ S3 :> 1 @@ A :> 1 @@ B :> 2 @@ W :> 2
ChainNumSpends == [b \in ChainBundles |-> Cardinality(ChainRemovals[b])]
ChainDedupKeys ==
    [b \in ChainBundles |->
        IF b \in {A, B, W} THEN ChainRemovals[b] \X {one} ELSE {}]
ChainBeforeHeight == [b \in ChainBundles |-> IF b = S2 THEN 2 ELSE Unlimited]
ChainBeforeSeconds == [b \in ChainBundles |-> Unlimited]
ChainAssertHeight == [b \in ChainBundles |-> IF b = W THEN 1 ELSE 0]
ChainAssertSeconds == [b \in ChainBundles |-> 0]
ChainLauncher ==
    [b \in ChainBundles |-> IF b \in {S1, S2, S3} THEN singleton ELSE none]
RestoreOnly == {"restore"}
WithRestore == {"remove", "restore"}

\* No step and no invariant depends on the last answer.
WithoutAnswer == <<pool, chain, tables>>
=============================================================================
