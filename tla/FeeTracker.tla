----------------------------- MODULE FeeTracker -----------------------------
(* The fee estimator (fee/tracker.rs): buckets of fee rates whose counters    *)
(* decay by a factor with every block, and a rolling window of summaries.     *)
(*                                                                            *)
(* A tracker is a record                                                      *)
(*   unit      : what one observation of the latest block counts for          *)
(*   observed  : bucket -> total_observed, in these units                     *)
(*   confirmed : bucket -> horizon -> confirmed_in_<horizon>, likewise        *)
(*   history   : block_history, oldest first                                  *)
(* The floating-point counters are kept exact: instead of the counters, the   *)
(* unit grows by the denominator of the decay factor.                         *)
EXTENDS Bundles, Sequences

CONSTANTS
    Cost,           \* bundle -> the CLVM cost its ConfirmedBundleInfo states
    BucketLower,    \* fee_rate_lower of each bucket, lowest first
    Window,         \* config.fee_estimator_window
    DecayNum,       \* DECAY_FACTOR, as a fraction
    DecayDen

\* build_buckets() rounds the bounds, so that some of many buckets have the same.
ASSUME TrackerConstants ==
    /\ Cost \in [Bundles -> Nat]
    /\ BucketLower \in Seq(Nat) /\ Len(BucketLower) > 1
    /\ \A i, j \in DOMAIN BucketLower : i < j => BucketLower[i] <= BucketLower[j]
    /\ Window \in Nat
    /\ DecayNum \in Nat /\ DecayDen \in Nat \ {0} /\ DecayNum < DecayDen

Buckets == DOMAIN BucketLower
Horizons == {1, 2, 5, 10}

NewTracker == [unit |-> 1,
               observed |-> [i \in Buckets |-> 0],
               confirmed |-> [i \in Buckets |-> [h \in Horizons |-> 0]],
               history |-> <<>>]

-----------------------------------------------------------------------------
\* Mutant of FindBucket: the middle is rounded down, and the half above taken.
FindBucketLow(rate) ==
    LET narrowed[range \in Buckets \X Buckets] ==
            LET lo == range[1]
                hi == range[2]
                mid == (lo + hi) \div 2
            IN  IF lo >= hi THEN lo
                ELSE IF BucketLower[mid] < rate THEN narrowed[<<mid + 1, hi>>]
                     ELSE narrowed[<<lo, mid>>]
    IN  IF rate <= BucketLower[1] THEN 1 ELSE narrowed[<<1, Len(BucketLower)>>]

\* find_bucket_idx: the binary search over the lower bounds.  (A rate above the
\* upper bound of the last bucket finds that bucket by the search as well.)
FindBucket(rate) ==
    LET narrowed[range \in Buckets \X Buckets] ==
            LET lo == range[1]
                hi == range[2]
                mid == (lo + hi + 1) \div 2
            IN  IF lo >= hi THEN lo
                ELSE IF BucketLower[mid] <= rate THEN narrowed[<<mid, hi>>]
                     ELSE narrowed[<<lo, mid - 1>>]
    IN  IF rate <= BucketLower[1] THEN 1 ELSE narrowed[<<1, Len(BucketLower)>>]

\* The bundles of a block that record_block does not skip.
Counted(K) == {b \in K : Cost[b] # 0}

\* BlockFeeData of the bundles that count; the median is the upper one of an
\* even number of rates.
Summary(height, K) ==
    LET rates == {OwnFeeRate(b) : b \in K}
        Below(r) == Cardinality({b \in K : OwnFeeRate(b) < r})
        UpTo(r) == Cardinality({b \in K : OwnFeeRate(b) <= r})
        half == Cardinality(K) \div 2
    IN  [height |-> height,
         num |-> Cardinality(K),
         min |-> IF K = {} THEN 0 ELSE Min(rates),
         max |-> Highest(rates),
         median |-> IF K = {} THEN 0
                    ELSE CHOOSE r \in rates : Below(r) <= half /\ half < UpTo(r)]

\* The window makes room for one more block; it never shrinks by more.
Rolled(history) ==
    IF Len(history) >= Window /\ history # <<>> THEN Tail(history) ELSE history

\* Mutant of Recorded: the window is not rolled.
RecordedOnly(t, height, K) ==
    LET unit == t.unit * DecayDen
        Placed(i) ==
            unit * Cardinality({b \in Counted(K) : FindBucket(OwnFeeRate(b)) = i})
    IN  [unit |-> unit,
         observed |-> [i \in Buckets |-> t.observed[i] * DecayNum + Placed(i)],
         confirmed |-> [i \in Buckets |-> [h \in Horizons |->
                            t.confirmed[i][h] * DecayNum + Placed(i)]],
         history |-> Append(t.history, Summary(height, Counted(K)))]

\* record_block: every counter decays, then each bundle that counts does so as
\* confirmed after one block.
Recorded(t, height, K) ==
    LET unit == t.unit * DecayDen
        Placed(i) ==
            unit * Cardinality({b \in Counted(K) : FindBucket(OwnFeeRate(b)) = i})
    IN  [unit |-> unit,
         observed |-> [i \in Buckets |-> t.observed[i] * DecayNum + Placed(i)],
         confirmed |-> [i \in Buckets |-> [h \in Horizons |->
                            t.confirmed[i][h] * DecayNum + Placed(i)]],
         history |-> Append(Rolled(t.history), Summary(height, Counted(K)))]

\* The counter that answers for a target number of blocks.
HorizonOf(target) ==
    IF target <= 1 THEN 1 ELSE IF target = 2 THEN 2 ELSE IF target <= 5 THEN 5 ELSE 10

\* estimate_fee_rate: the buckets it looks through from the top, and the lower
\* bound of the first of them; NoEstimate stands for None.
NoEstimate == -1
EstimateFeeRate(t, target) ==
    LET likely == {i \in Buckets :
                    /\ t.observed[i] >= t.unit
                    /\ t.confirmed[i][HorizonOf(target)] * 100 >= t.observed[i] * 85}
    IN  IF Len(t.history) < Window \div 2 \/ likely = {} THEN NoEstimate
        ELSE BucketLower[Max(likely)] \div FpcScale
=============================================================================
