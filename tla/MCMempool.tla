----------------------------- MODULE MCMempool ------------------------------
(* Small instances of Mempool for TLC.                                       *)
EXTENDS Mempool, TLC

CONSTANTS A, R, W, X        \* bundles
CONSTANTS g1, g2, a1        \* coins
CONSTANTS s1                \* a solution
CONSTANTS t1, t2            \* threads

\* A and R compete for g1, R and W for g2; R and W are timelocked until
\* height 1, W must be in a block before height 2, and only one of A and R fits
\* in the pool at a time.
FewBundles == {A, R, W}
FewCoins == {g1, g2, a1}
FewGenesis == {g1, g2}
FewRemovals == A :> {g1} @@ R :> {g1, g2} @@ W :> {g2}
FewAdditions == A :> {a1} @@ R :> {} @@ W :> {}
FewFee == A :> 2 @@ R :> 4 @@ W :> 1
FewVirtualCost == A :> 2 @@ R :> 2 @@ W :> 1
FewNumSpends == A :> 1 @@ R :> 2 @@ W :> 1
FewDedupKeys == [b \in FewBundles |-> {}]
FewBeforeHeight == A :> Unlimited @@ R :> Unlimited @@ W :> 2
FewBeforeSeconds == [b \in FewBundles |-> Unlimited]
FewAssertHeight == A :> 0 @@ R :> 1 @@ W :> 1
FewAssertSeconds == [b \in FewBundles |-> 0]

\* X outbids W for g2, is timelocked as well, and fits in no pool.
MoreBundles == FewBundles \cup {X}
MoreRemovals == FewRemovals @@ X :> {g2}
MoreAdditions == FewAdditions @@ X :> {}
MoreFee == FewFee @@ X :> 3
MoreVirtualCost == FewVirtualCost @@ X :> 3
MoreNumSpends == FewNumSpends @@ X :> 1
MoreDedupKeys == FewDedupKeys @@ X :> {}
MoreBeforeHeight == FewBeforeHeight @@ X :> Unlimited
MoreBeforeSeconds == FewBeforeSeconds @@ X :> Unlimited
MoreAssertHeight == FewAssertHeight @@ X :> 1
MoreAssertSeconds == FewAssertSeconds @@ X :> 0

\* R competes with A for g1, and W spends what A creates.
HeirRemovals == A :> {g1} @@ R :> {g1} @@ W :> {a1}
HeirNumSpends == [b \in FewBundles |-> 1]
HeirBeforeHeight == [b \in FewBundles |-> Unlimited]
HeirAssertHeight == [b \in FewBundles |-> 0]

Symmetric == Permutations({t1, t2})

\* The state without its history of what was handed back, which only the
\* property HandedBackCanReturn asks for and no step depends on.
Present ==
    <<structures, chain, follower,
      [t \in Callers |->
        IF submissions[t] = Idle THEN Idle
        ELSE [submissions[t] EXCEPT !.again = FALSE]]>>
=============================================================================
