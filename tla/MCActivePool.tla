---------------------------- MODULE MCActivePool ----------------------------
(* Small instances of ActivePool for TLC.                                    *)
EXTENDS ActivePool, TLC

CONSTANTS P, C, D, X, Q, S, Z                \* bundles
CONSTANTS g1, g2, g3, p1, p2, c1, d1, x1, q1 \* coins
CONSTANTS s1                                \* a solution

\* A family: P creates the coins its child C and its grandchild D spend, D
\* spending one of each.  X spends P's coin and one more, S spends P's coin and
\* what D creates.  Q is a stranger with a deadline at height 2, which C and X
\* share, and Z competes with Q at a lower rate but for a higher fee, from
\* height 1 on; D expires at second 1.
FamilyBundles == {P, C, D, X, Q, S, Z}
FamilyCoins == {g1, g2, g3, p1, p2, c1, d1, x1, q1}
FamilyGenesis == {g1, g2, g3}
FamilyRemovals ==
    P :> {g1} @@ C :> {p1} @@ D :> {c1, p2} @@ X :> {g1, g2} @@ Q :> {g3} @@
    S :> {g1, d1} @@ Z :> {g3}
FamilyAdditions ==
    P :> {p1, p2} @@ C :> {c1} @@ D :> {d1} @@ X :> {x1} @@ Q :> {q1} @@
    S :> {} @@ Z :> {}
FamilyFee ==
    P :> 1 @@ C :> 6 @@ D :> 2 @@ X :> 9 @@ Q :> 10 @@ S :> 8 @@ Z :> 11
FamilyVirtualCost ==
    P :> 2 @@ C :> 2 @@ D :> 2 @@ X :> 5 @@ Q :> 3 @@ S :> 2 @@ Z :> 4
FamilyNumSpends == [b \in FamilyBundles |-> Cardinality(FamilyRemovals[b])]
FamilyDedupKeys == [b \in FamilyBundles |-> {}]
FamilyBeforeHeight ==
    [b \in FamilyBundles |-> IF b \in {C, Q, X} THEN 2 ELSE Unlimited]
FamilyBeforeSeconds ==
    [b \in FamilyBundles |-> IF b = D THEN 1 ELSE Unlimited]
FamilyAssertHeight == [b \in FamilyBundles |-> IF b = Z THEN 1 ELSE 0]
FamilyAssertSeconds == [b \in FamilyBundles |-> 0]

AllCalls == CallKinds

\* A line of three, P, C and D, of which the last pays for all, and a sibling S
\* of C whose deadline is the first block.
LineBundles == {P, C, D, S}
LineRemovals == P :> {g1} @@ C :> {p1} @@ D :> {c1} @@ S :> {p2}
LineAdditions == P :> {p1, p2} @@ C :> {c1} @@ D :> {} @@ S :> {}
LineFee == P :> 1 @@ C :> 2 @@ D :> 12 @@ S :> 1
LineVirtualCost == [b \in LineBundles |-> 2]
LineNumSpends == [b \in LineBundles |-> 1]
LineDedupKeys == [b \in LineBundles |-> {}]
LineBeforeHeight == [b \in LineBundles |-> IF b = S THEN 1 ELSE Unlimited]
LineBeforeSeconds == [b \in LineBundles |-> Unlimited]
LineAssertHeight == [b \in LineBundles |-> 0]
LineAssertSeconds == [b \in LineBundles |-> 0]
=============================================================================
