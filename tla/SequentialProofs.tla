------------------------- MODULE SequentialProofs ---------------------------
(* Theorems about a node whose calls wait for each other: what it holds is   *)
(* up to date with the chain, what it hands back it takes again, and its     *)
(* calls, lock by lock as they are made, implement the single steps of       *)
(* ActivePool.                                                               *)
EXTENDS RestartProofs

-----------------------------------------------------------------------------
(* What a call knows.                                                        *)

\* What validation makes sure of before it passes a bundle on to phase 2b.
Validated(t) ==
    LET call == submissions[t]
    IN  /\ MissingCoins(pool, call.bundle, call.known) = {}
        /\ ~IsImpossible(call.bundle)
        /\ ~IsExpired(call.bundle, call.height, call.seconds)
        /\ ~IsTimelocked(call.bundle, call.height, call.seconds)

\* A submission still sees the chain and the pool as they are, since no block
\* can be told of before it returns, and what validation found is still so.
UpToDate(t) ==
    /\ submissions[t].height = height /\ submissions[t].seconds = seconds
    /\ submissions[t].known \in {Removals[Bundle(t)] \cap coins : coins \in Records}
    /\ submissions[t].at = "admit" => Validated(t)

\* The block that is being told of follows the chain as it was told of before;
\* or it is all that happened while the node was down.
Follows(K, s) ==
    /\ K \cap Told[1] = {}
    /\ Told[2] < MaxHeight /\ s >= Told[3]
    /\ ValidBlock(Told[1], K, Told[2] + 1, s)
    /\ follower.spent = SpentBy(K)
    /\ confirmed = Told[1] \cup K /\ height = Told[2] + 1 /\ seconds = s
Telling == \E K \in SUBSET Bundles, s \in 0..MaxSeconds : Follows(K, s)

InView ==
    /\ \A t \in Callers : submissions[t] # Idle => UpToDate(t)
    /\ Stale => Telling \/ follower.before = chain

\* Between calls, and whenever the chain is not moving on, there is little to see.
LEMMA NoneInView ==
    ASSUME \A t \in Callers : submissions'[t] = Idle, ~Stale'
    PROVE  InView'
BY DEF InView

\* A submission that goes on sees what it saw.
LEMMA WentOnInView ==
    ASSUME IInv, OneAtATime, InView, NEW t \in Callers, NEW step \in Steps,
           At(t, step), NEW next \in Steps, Goes(t, next),
           UNCHANGED <<pool, follower, chain>>,
           next = "admit" => Validated(t)
    PROVE  InView'
<1>1. Alone(t) /\ submissions[t] # Idle
    BY CallerAlone DEF At, Steps, Idle
<1>2. submissions[t] \in Calling
    BY InCall DEF IInv
<1>3. \A u \in Callers \ {t} : submissions'[u] = Idle
    BY <1>1 DEF Alone, Goes, IInv, CallsOK
<1>4. /\ submissions'[t].at = next /\ Bundle(t)' = Bundle(t)
      /\ submissions'[t].height = submissions[t].height
      /\ submissions'[t].seconds = submissions[t].seconds
      /\ submissions'[t].known = submissions[t].known
    BY <1>2 DEF Goes, Bundle, IInv, CallsOK, Calling
<1>5. UpToDate(t)
    BY <1>1 DEF InView
<1>6. Records' = Records
    BY DEF Records, chain
<1>7. UpToDate(t)'
    BY <1>4, <1>5, <1>6 DEF UpToDate, Validated, Bundle, chain
<1>8. ~Stale'
    BY <1>1 DEF Alone, Stale, Idle
<1> QED BY <1>3, <1>7, <1>8 DEF InView

\* What a step of submit() does to its call: the caller is alone, the chain
\* stands still, and the call returns or goes on with an untouched pool.
LEMMA SubmitStepEffect ==
    ASSUME IInv, OneAtATime, NEW t \in Callers, SubmitStep(t)
    PROVE  /\ \E step \in Steps : At(t, step)
           /\ Alone(t) /\ Bundle(t) \in Bundles
           /\ follower = Idle /\ ~Stale /\ ~Stale'
           /\ UNCHANGED <<chain, follower, returned>>
           /\ \/ Returns(t) /\ \A u \in Callers : submissions'[u] = Idle
              \/ /\ UNCHANGED <<pool, result>>
                 /\ \E next \in Steps \ {"seen", "admit"} : Goes(t, next)
              \/ /\ Validate(t) /\ Goes(t, "admit") /\ UNCHANGED <<pool, result>>
                 /\ Validated(t)
<1>1. PICK step \in Steps : At(t, step)
    BY DEF SubmitStep, CheckSeen, CheckActive, CheckPending, CheckConflict,
           Validate, Queue, FindAdmitted, Refuse, GiveUp, Admit, Admitting, Steps
<1>2. Alone(t) /\ Bundle(t) \in Bundles
    BY <1>1, CallerAlone
<1>3. UNCHANGED <<chain, follower, returned>>
    BY DEF SubmitStep, CheckSeen, CheckActive, CheckPending, CheckConflict,
           Validate, Queue, FindAdmitted, Refuse, GiveUp, Admit
<1>4. follower = Idle /\ ~Stale /\ ~Stale'
    BY <1>2, <1>3 DEF Alone, Stale, Idle
<1>5. Returns(t) => \A u \in Callers : submissions'[u] = Idle
    BY <1>2 DEF Alone, Returns, IInv, CallsOK
<1>6. CASE Validate(t)
    <2>1. UNCHANGED pool
        BY <1>6 DEF Validate, structures
    <2>2. \/ Returns(t)
          \/ Goes(t, "queue") /\ UNCHANGED result
          \/ Goes(t, "admit") /\ UNCHANGED result /\ Validated(t)
        BY <1>6 DEF Validate, Validated
    <2> QED BY <1>1, <1>2, <1>3, <1>4, <1>5, <1>6, <2>1, <2>2 DEF Steps
<1>7. CASE ~Validate(t)
    <2>1. \/ Returns(t)
          \/ /\ UNCHANGED <<pool, result>>
             /\ \E next \in Steps \ {"seen", "admit"} : Goes(t, next)
        BY <1>7 DEF SubmitStep, CheckSeen, CheckActive, CheckPending, CheckConflict,
                    Queue, FindAdmitted, Refuse, GiveUp, Admit, Steps, structures
    <2> QED BY <1>1, <1>2, <1>3, <1>4, <1>5, <2>1
<1> QED BY <1>6, <1>7

\* The start of a submission.
LEMMA SubmitEffect ==
    ASSUME ~Concurrent, IInv, NEW t \in Callers, NEW b \in Bundles, Submit(t, b)
    PROVE  /\ follower = Idle /\ ~Stale /\ ~Stale'
           /\ \A u \in Callers : submissions[u] = Idle
           /\ UNCHANGED <<pool, seen, chain, follower, result>>
           /\ returned' = returned \ {b}
           /\ \A u \in Callers \ {t} : submissions'[u] = Idle
           /\ submissions'[t].at = "seen" /\ Bundle(t)' = b
           /\ submissions'[t].height = height /\ submissions'[t].seconds = seconds
           /\ submissions'[t].known \in {Removals[b] \cap coins : coins \in Records}
           /\ submissions'[t].again = (b \in returned)
<1>1. /\ follower = Idle /\ \A u \in Callers : submissions[u] = Idle
      /\ UNCHANGED <<pool, seen, chain, follower, result>>
      /\ returned' = returned \ {b}
    BY DEF Submit, Free, structures
<1>2. PICK coins \in Records :
        submissions' = [submissions EXCEPT ![t] =
            [at |-> "seen", bundle |-> b, height |-> height,
             seconds |-> seconds, known |-> Removals[b] \cap coins,
             again |-> b \in returned]]
    BY DEF Submit
<1>3. \A u \in Callers \ {t} : submissions'[u] = Idle
    BY <1>1, <1>2 DEF IInv, CallsOK
<1>4. submissions'[t] = [at |-> "seen", bundle |-> b, height |-> height,
                         seconds |-> seconds, known |-> Removals[b] \cap coins,
                         again |-> b \in returned]
    BY <1>2 DEF IInv, CallsOK
<1>5. ~Stale /\ ~Stale'
    BY <1>1 DEF Stale, Idle
<1> QED BY <1>1, <1>3, <1>4, <1>5 DEF Bundle

\* The chain follower in a call: no submission is in progress.
LEMMA FollowerAlone ==
    ASSUME OneAtATime, follower # Idle, UNCHANGED submissions
    PROVE  \A t \in Callers : submissions'[t] = Idle
BY DEF OneAtATime, Alone

\* Every step of a node keeps the calls' view true.
LEMMA NextInView ==
    ASSUME ~Concurrent, IInv, OneAtATime, InView, [NodeNext]_nodeVars
    PROVE  InView'
<1>1. ASSUME NEW K \in SUBSET (Bundles \ confirmed), NEW s \in 0..MaxSeconds,
             TellBlock(K, s)
      PROVE  InView'
    <2>1. /\ follower = Idle /\ \A t \in Callers : submissions'[t] = Idle
          /\ confirmed' = confirmed \cup K /\ height' = height + 1 /\ seconds' = s
          /\ follower' = [at |-> "clearSeen", spent |-> SpentBy(K), before |-> chain]
          /\ height < MaxHeight /\ s >= seconds
          /\ ValidBlock(confirmed, K, height + 1, s)
        BY <1>1 DEF TellBlock, BlockConfirmed, Free
    <2>2. Told' = <<confirmed, height, seconds>>
        BY <2>1 DEF Told, chain
    <2>3. Follows(K, s)'
        BY <2>1, <2>2 DEF Follows, ValidBlock, SpentBy, CreatedBy, Unspent, IsExpired,
                          Compatible
    <2> QED BY <2>1, <2>3 DEF InView, Telling
<1>2. CASE FinishBlock
    <2>1. follower # Idle /\ UNCHANGED submissions /\ ~Stale'
        BY <1>2 DEF FinishBlock, RecordBlock, Idle, Stale
    <2> QED BY <2>1, FollowerAlone, NoneInView
<1>3. ASSUME NEW t \in Callers, SubmitStep(t) PROVE InView'
    <2>1. CASE \A u \in Callers : submissions'[u] = Idle
        BY <1>3, <2>1, SubmitStepEffect, NoneInView
    <2>2. PICK step \in Steps : At(t, step)
        BY <1>3, SubmitStepEffect
    <2>3. ASSUME UNCHANGED pool, NEW next \in Steps, Goes(t, next),
                 next = "admit" => Validated(t)
          PROVE  InView'
        <3>1. UNCHANGED <<pool, follower, chain>>
            BY <1>3, <2>3, SubmitStepEffect
        <3> QED BY <2>2, <2>3, <3>1, WentOnInView
    <2> QED BY <1>3, <2>1, <2>3, SubmitStepEffect DEF Steps
<1>4. ASSUME NEW t \in Callers, NEW b \in Bundles, Submit(t, b) PROVE InView'
    <2>1. Records' = Records
        BY <1>4, SubmitEffect DEF Records, chain
    <2>2. UpToDate(t)'
        BY <1>4, <2>1, SubmitEffect DEF UpToDate, chain
    <2> QED BY <1>4, <2>2, SubmitEffect DEF InView
<1>5. CASE ForgetSeen
    <2>1. follower # Idle /\ UNCHANGED <<chain, submissions>> /\ Stale
        BY <1>5 DEF ForgetSeen, Idle, Stale
    <2>2. follower \in [at : {"clearSeen", "removeSpent"}, spent : SUBSET Coins,
                        before : (SUBSET Bundles) \X Nat \X Nat]
        BY <1>5 DEF ForgetSeen, IInv, CallsOK, Following, Idle
    <2>3. /\ follower'.spent = follower.spent /\ follower'.before = follower.before
          /\ follower'.at = "removeSpent"
        BY <1>5, <2>2 DEF ForgetSeen
    <2>4. Told' = Told
        BY <2>1, <2>3 DEF Told, Stale
    <2>5. Telling => Telling'
        BY <2>1, <2>3, <2>4 DEF Telling, Follows, chain
    <2>6. follower.before = chain => (follower.before = chain)'
        BY <2>1, <2>3 DEF chain
    <2> QED BY <2>1, <2>5, <2>6, FollowerAlone DEF InView
<1>6. CASE \/ RemoveSpentAndExpired \/ Promote \/ CollectRetries
           \/ ClearPending \/ ClearConflict \/ ClearSeen
    <2>1. follower # Idle /\ UNCHANGED submissions /\ ~Stale'
        BY <1>6 DEF RemoveSpentAndExpired, Promote, CollectRetries, ClearPending,
                    ClearConflict, ClearSeen, Idle, Stale
    <2> QED BY <2>1, FollowerAlone, NoneInView
<1>7. CASE ClearPool \/ DrainPending \/ DrainConflict
    <2>1. (\A t \in Callers : submissions'[t] = Idle) /\ ~Stale'
        BY <1>7 DEF ClearPool, DrainPending, DrainConflict, Free, Stale, Idle
    <2> QED BY <2>1, NoneInView
<1>8. CASE \/ SaveActive \/ SavePending \/ SaveConflict \/ SaveFees
           \/ UNCHANGED nodeVars
    <2>1. UNCHANGED <<pool, chain, submissions, follower>>
        BY <1>8 DEF SaveActive, SavePending, SaveConflict, SaveFees, nodeVars, vars,
                    structures
    <2> QED BY <2>1 DEF InView, UpToDate, Validated, Records, Bundle, Stale, Telling,
                        Follows, Told, chain
<1>9. CASE Restart
    <2>1. /\ \A t \in Callers : submissions'[t] = Idle
          /\ follower'.before = chain /\ chain' = chain
        BY <1>9 DEF Restart
    <2> QED BY <2>1 DEF InView
<1> QED BY <1>1, <1>2, <1>3, <1>4, <1>5, <1>6, <1>7, <1>8, <1>9 DEF NodeNext, OtherCall

\* So all the states that such a node reaches have it so.
LEMMA NodeInView ==
    ASSUME ~Concurrent
    PROVE  NodeSpec => [](IInv /\ OneAtATime /\ InView)
<1>1. NodeInit => InView
    BY DEF NodeInit, Init, InView, Stale, Idle
<1>2. IInv /\ OneAtATime /\ InView /\ [NodeNext]_nodeVars => InView'
    BY NextInView
<1>3. NodeSpec => [](OneAtATime /\ SavedApart)
    BY NodeOneAtATime
<1>4. NodeInv => IInv
    BY DEF NodeInv
<1> QED BY <1>1, <1>2, <1>3, <1>4, NodeInvariant, PTL DEF NodeSpec

-----------------------------------------------------------------------------
(* Nothing stale, for calls made one at a time and without deduplication.    *)

\* None of the items spends a coin of the set.
SpendNone(items, coins) == \A b \in items : Removals[b] \cap coins = {}

\* The chain has only spent coins that existed.  The pool is behind it by at
\* most what the call in progress will clean up, and what a snapshot holds is
\* behind the chain by what was confirmed since it was read.
FreshInv ==
    /\ SpentBy(confirmed) \subseteq Genesis \cup CreatedBy(confirmed)
    /\ Stale => SpendNone(Active(pool), SpentBy(confirmed) \ follower.spent)
    /\ NothingStaleOnceTold
    /\ SpendNone(DOMAIN disk.items, SpentBy(disk.told))
    /\ saver.at \in {"pending", "conflict", "fees"} =>
        SpendNone(DOMAIN saver.items, SpentBy(saver.told))

\* The coins that active bundles create have not been spent on chain.
LEMMA CreatedUnspent ==
    ASSUME IInv, FreshInv, ~Stale
    PROVE  DOMAIN pool.mempoolCoins \cap SpentBy(confirmed) = {}
<1> SUFFICES ASSUME NEW c \in DOMAIN pool.mempoolCoins, c \in SpentBy(confirmed)
             PROVE  FALSE
    OBVIOUS
<1>1. PICK q \in Active(pool) : c \in Additions[q]
    BY DEF IInv, StructuresOK, PoolInv, Resolves
<1>2. q \in Bundles /\ confirmed \subseteq Bundles
    BY PoolTypes DEF IInv, StructuresOK, PoolInv, CallsOK
<1>3. PICK k \in confirmed : c \in Additions[k]
    BY <1>1, <1>2, GenesisFirst DEF FreshInv, CreatedBy
<1>4. Removals[k] \cap Removals[q] # {}
    BY <1>1, <1>2, <1>3, CreatedByOneSpend
<1> QED BY <1>1, <1>3, <1>4 DEF FreshInv, NothingStaleOnceTold, SpentBy

\* on_new_block() cleans a pool whose arrears it is told of.
LEMMA AfterBlockFresh ==
    ASSUME NEW p, PoolInv(p), Indexed(p), NEW coins, NEW arrears,
           SpendNone(Active(p), arrears \ coins)
    PROVE  \A b \in Active(AfterBlock(p, coins, height, seconds)) :
            /\ Removals[b] \cap arrears = {}
            /\ ~IsExpired(b, height, seconds)
<1> DEFINE spenders == Spenders(p, coins)
           r == Cascade(p, spenders)
           late == {b \in Active(r) : IsExpired(b, height, seconds)}
           q == Cascade(r, late)
<1>1. PoolInv(r) /\ Active(r) = Active(p) \ Descendants(p, spenders)
    BY RemoveAllKeeps DEF Cascade
<1>2. Active(q) = Active(r) \ Descendants(r, late)
    BY <1>1, RemoveAllKeeps DEF Cascade
<1>3. Active(p) \subseteq Bundles
    BY PoolTypes DEF PoolInv
<1>4. ASSUME NEW b \in Active(q) PROVE Removals[b] \cap arrears = {}
    <2>1. b \in Active(p) /\ b \in Bundles /\ b \notin Descendants(p, spenders)
        BY <1>1, <1>2, <1>3
    <2>2. b \notin spenders
        BY <2>1 DEF Descendants, Closure
    <2>3. \A c \in Removals[b] : c \in DOMAIN p.coinIndex /\ p.coinIndex[c] = b
        BY <2>1 DEF Indexed
    <2>4. Removals[b] \cap coins = {}
        BY <2>2, <2>3 DEF Spenders
    <2> QED BY <2>1, <2>4 DEF SpendNone
<1>5. ASSUME NEW b \in Active(q) PROVE ~IsExpired(b, height, seconds)
    <2>1. b \in Active(r) /\ b \in Bundles /\ b \notin Descendants(r, late)
        BY <1>1, <1>2, <1>3
    <2>2. b \notin late
        BY <2>1 DEF Descendants, Closure
    <2> QED BY <2>1, <2>2
<1>6. AfterBlock(p, coins, height, seconds) = q
    BY DEF AfterBlock
<1> HIDE DEF q
<1> QED BY <1>4, <1>5, <1>6

\* The part of FreshInv that is about the calls of Mempool.
PoolFresh ==
    /\ Stale => SpendNone(Active(pool), SpentBy(confirmed) \ follower.spent)
    /\ NothingStaleOnceTold

\* A submission leaves nothing stale: the coins it was told of and those it
\* finds are unspent on chain.
LEMMA SubmitFresh ==
    ASSUME IInv, OneAtATime, InView, FreshInv, NEW t \in Callers, SubmitStep(t)
    PROVE  PoolFresh'
<1> DEFINE b == Bundle(t)
           known == submissions[t].known
<1>1. ASSUME \A a \in Active(pool') \ Active(pool) :
                Removals[a] \cap SpentBy(confirmed) = {} /\ ~IsExpired(a, height, seconds)
      PROVE  PoolFresh'
    <2>1. ~Stale /\ ~Stale' /\ UNCHANGED chain
        BY SubmitStepEffect
    <2> QED BY <1>1, <2>1 DEF PoolFresh, FreshInv, NothingStaleOnceTold, chain, Active
<1>2. CASE GiveUp(t)
    <2>1. Active(pool') \subseteq Active(pool)
        BY <1>2, SubmitStepEffect, PreparedOK DEF GiveUp, Remains, IInv, StructuresOK
    <2> QED BY <1>1, <2>1
<1>3. CASE Admit(t)
    <2>1. At(t, "admit") /\ b \in Bundles /\ submissions[t] # Idle
        BY <1>3, SubmitStepEffect DEF Admit, Admitting, At, Idle
    <2>2. UpToDate(t) /\ ~Stale
        BY <2>1, SubmitStepEffect DEF InView
    <2>3. Active(pool') \subseteq Active(pool) \cup {b}
        <3>1. PICK q \in Prepared(pool, b, submissions[t].height) :
                pool' = Admitted(pool, q, b, known)
            BY <1>3 DEF Admit
        <3>2. Active(q) \subseteq Active(pool)
            BY <2>1, PreparedOK DEF Remains, IInv, StructuresOK
        <3>3. Active(pool') = Active(q) \cup {b}
            BY <3>1, AdmittedActive
        <3> QED BY <3>2, <3>3
    <2>4. Removals[b] \subseteq known \cup DOMAIN pool.mempoolCoins
        BY <2>1, <2>2 DEF UpToDate, Validated, At, MissingCoins, Bundle
    <2>5. Removals[b] \cap SpentBy(confirmed) = {}
        <3>1. known \subseteq Unspent(confirmed) \cup DOMAIN pool.mempoolCoins
            BY <2>2 DEF UpToDate, Records
        <3>2. Unspent(confirmed) \cap SpentBy(confirmed) = {}
            BY DEF Unspent
        <3> HIDE DEF b, known
        <3> QED BY <2>2, <2>4, <3>1, <3>2, CreatedUnspent
    <2>6. ~IsExpired(b, height, seconds)
        BY <2>1, <2>2 DEF UpToDate, Validated, At, Bundle
    <2> QED BY <1>1, <2>3, <2>5, <2>6
<1>4. CASE ~GiveUp(t) /\ ~Admit(t)
    <2>1. UNCHANGED pool
        BY <1>4 DEF SubmitStep, CheckSeen, CheckActive, CheckPending, CheckConflict,
                    Validate, Queue, FindAdmitted, Refuse, structures
    <2> QED BY <1>1, <2>1
<1> QED BY <1>2, <1>3, <1>4

\* The other calls leave nothing stale, but for what a block has just spent.
LEMMA CallFresh ==
    ASSUME NoDedup, ~Concurrent, IInv, OneAtATime, InView, FreshInv, OtherCall
    PROVE  PoolFresh'
<1>1. ASSUME NEW t \in Callers, SubmitStep(t) PROVE PoolFresh'
    BY <1>1, SubmitFresh
<1>2. ASSUME NEW t \in Callers, NEW b \in Bundles, Submit(t, b) PROVE PoolFresh'
    BY <1>2, SubmitEffect DEF PoolFresh, FreshInv, NothingStaleOnceTold, chain, Active
<1>4. CASE ForgetSeen
    <2>1. /\ Stale
          /\ UNCHANGED <<pool, chain>>
        BY <1>4 DEF ForgetSeen, Stale, Idle
    <2>2. follower \in [at : {"clearSeen", "removeSpent"}, spent : SUBSET Coins,
                        before : (SUBSET Bundles) \X Nat \X Nat]
        BY <1>4 DEF ForgetSeen, IInv, CallsOK, Following, Idle
    <2>3. Stale' /\ follower'.spent = follower.spent
        BY <1>4, <2>2 DEF ForgetSeen, Stale
    <2> QED BY <2>1, <2>3
            DEF PoolFresh, FreshInv, NothingStaleOnceTold, SpendNone, Active, chain
<1>5. CASE RemoveSpentAndExpired
    <2>1. /\ Stale /\ ~Stale'
          /\ pool' = AfterBlock(pool, follower.spent, height, seconds)
          /\ UNCHANGED chain
        BY <1>5 DEF RemoveSpentAndExpired, Stale, Idle
    <2>2. PoolInv(pool) /\ Indexed(pool)
        BY NoDedup DEF IInv, StructuresOK
    <2>3. SpendNone(Active(pool), SpentBy(confirmed) \ follower.spent)
        BY <2>1 DEF FreshInv
    <2>4. \A b \in Active(pool') : /\ Removals[b] \cap SpentBy(confirmed) = {}
                                   /\ ~IsExpired(b, height, seconds)
        BY <2>1, <2>2, <2>3, AfterBlockFresh
    <2> QED BY <2>1, <2>4 DEF PoolFresh, NothingStaleOnceTold, Active, chain
<1>6. CASE Promote \/ CollectRetries \/ ClearPending \/ ClearConflict \/ ClearSeen
    <2>1. /\ ~Stale /\ ~Stale'
          /\ UNCHANGED <<pool, chain>>
        BY <1>6 DEF Promote, CollectRetries, ClearPending, ClearConflict, ClearSeen,
                    Stale, Idle
    <2> QED BY <2>1 DEF PoolFresh, FreshInv, NothingStaleOnceTold, Active, chain
<1>7. CASE ClearPool
    <2>1. Active(pool') = {} /\ ~Stale'
        BY <1>7 DEF ClearPool, Free, EmptyPool, Active, Stale
    <2> QED BY <2>1 DEF PoolFresh, NothingStaleOnceTold, Active
<1>8. CASE DrainPending \/ DrainConflict
    <2>1. ~Stale /\ ~Stale' /\ UNCHANGED <<pool, chain>>
        BY <1>8 DEF DrainPending, DrainConflict, Free, Stale, Idle
    <2> QED BY <2>1 DEF PoolFresh, FreshInv, NothingStaleOnceTold, Active, chain
<1> QED BY <1>1, <1>2, <1>4, <1>5, <1>6, <1>7, <1>8 DEF OtherCall

\* Every step of a node leaves nothing stale that has been told of.
LEMMA NextFreshInv ==
    ASSUME NoDedup, ~Concurrent, IInv, OneAtATime, InView, FreshInv,
           [NodeNext]_nodeVars
    PROVE  FreshInv'
<1>1. ASSUME PoolFresh', UNCHANGED <<confirmed, saver, disk>> PROVE FreshInv'
    BY <1>1 DEF PoolFresh, FreshInv
<1>2. ASSUME UNCHANGED vars PROVE PoolFresh'
    BY <1>2 DEF vars, structures, chain, PoolFresh, FreshInv, Stale, SpendNone,
                NothingStaleOnceTold, Active
<1>3. ASSUME NEW K \in SUBSET (Bundles \ confirmed), NEW s \in 0..MaxSeconds,
             TellBlock(K, s)
      PROVE  FreshInv'
    <2>1. /\ follower = Idle
          /\ pool' = pool /\ confirmed' = confirmed \cup K
          /\ follower'.at = "clearSeen" /\ follower'.spent = SpentBy(K)
          /\ ValidBlock(confirmed, K, height + 1, s)
        BY <1>3 DEF TellBlock, BlockConfirmed, Free, structures
    <2>2. SpentBy(confirmed') = SpentBy(confirmed) \cup SpentBy(K)
          /\ CreatedBy(confirmed') = CreatedBy(confirmed) \cup CreatedBy(K)
        BY <2>1 DEF SpentBy, CreatedBy
    <2>3. SpentBy(confirmed') \subseteq Genesis \cup CreatedBy(confirmed')
        BY <2>1, <2>2 DEF ValidBlock, Unspent, FreshInv
    <2>4. SpendNone(Active(pool'), SpentBy(confirmed') \ follower'.spent)
        <3>1. ~Stale
            BY <2>1 DEF Stale, Idle
        <3> QED BY <2>1, <2>2, <3>1 DEF FreshInv, NothingStaleOnceTold, SpendNone
    <2>5. Stale'
        BY <2>1 DEF Stale
    <2>6. UNCHANGED <<saver, disk>>
        BY <1>3 DEF TellBlock, Beside, saving
    <2>7. SpendNone(Active(pool)', (SpentBy(confirmed) \ follower.spent)')
        BY <2>4 DEF Active, SpentBy
    <2> QED BY <2>1, <2>3, <2>5, <2>6, <2>7
            DEF FreshInv, NothingStaleOnceTold, SpendNone, SpentBy, CreatedBy
<1>4. CASE FinishBlock
    <2>1. ~Stale /\ ~Stale' /\ UNCHANGED <<pool, chain>>
        BY <1>4 DEF FinishBlock, RecordBlock, structures, Stale, Idle
    <2>2. PoolFresh'
        BY <2>1 DEF PoolFresh, FreshInv, NothingStaleOnceTold, Active, chain
    <2> QED BY <1>1, <1>4, <2>1, <2>2 DEF FinishBlock, Beside, saving, chain
<1>5. CASE OtherCall
    <2>1. PoolFresh'
        BY <1>5, CallFresh
    <2>2. UNCHANGED confirmed
        BY <1>5 DEF OtherCall, Submit, SubmitStep, CheckSeen, CheckActive, CheckPending,
                    CheckConflict, Validate, Queue, FindAdmitted, Refuse, GiveUp, Admit,
                    ForgetSeen, RemoveSpentAndExpired, Promote, CollectRetries,
                    ClearPool, ClearPending, ClearConflict, ClearSeen, DrainPending,
                    DrainConflict, chain
    <2> QED BY <1>1, <1>5, <2>1, <2>2 DEF OtherCall, Beside, saving
<1>6. CASE SaveActive
    <2>1. /\ follower = Idle /\ saver'.items = pool.items /\ saver'.told = Told[1]
          /\ UNCHANGED <<vars, disk>>
        BY <1>6 DEF SaveActive, Free
    <2>2. saver'.told = confirmed /\ ~Stale
        BY <2>1 DEF Told, chain, Stale, Idle
    <2>3. SpendNone(DOMAIN saver'.items, SpentBy(saver'.told))
        BY <2>1, <2>2 DEF FreshInv, NothingStaleOnceTold, SpendNone, Active
    <2>4. PoolFresh' /\ UNCHANGED confirmed
        BY <1>2, <2>1 DEF vars, chain
    <2> QED BY <2>1, <2>3, <2>4 DEF FreshInv, PoolFresh
<1>7. CASE SavePending \/ SaveConflict
    <2>1. /\ saver.at \in {"pending", "conflict"}
          /\ saver'.items = saver.items /\ saver'.told = saver.told
          /\ UNCHANGED <<vars, disk>>
        BY <1>7 DEF SavePending, SaveConflict
    <2>2. PoolFresh' /\ UNCHANGED confirmed
        BY <1>2, <2>1 DEF vars, chain
    <2> QED BY <2>1, <2>2 DEF FreshInv, PoolFresh
<1>8. CASE SaveFees
    <2>1. /\ saver.at = "fees" /\ saver'.at = "idle"
          /\ disk'.items = saver.items /\ disk'.told = saver.told
          /\ UNCHANGED vars
        BY <1>8 DEF SaveFees, Idle
    <2>2. PoolFresh' /\ UNCHANGED confirmed
        BY <1>2, <2>1 DEF vars, chain
    <2> QED BY <2>1, <2>2 DEF FreshInv, PoolFresh
<1>9. CASE Restart
    <2>1. /\ Active(pool') = DOMAIN disk.items
          /\ follower'.at = "clearSeen" /\ follower'.spent = SpentBy(CaughtUpOn)
          /\ saver'.at = "idle" /\ UNCHANGED <<confirmed, disk>>
        BY <1>9 DEF Restart, RefilledPool, Active, Idle, chain
    <2>2. SpentBy(confirmed) \subseteq SpentBy(disk.told) \cup SpentBy(CaughtUpOn)
        BY DEF SpentBy, CaughtUpOn
    <2>3. SpendNone(DOMAIN disk.items, SpentBy(confirmed) \ SpentBy(CaughtUpOn))
        BY <2>2 DEF FreshInv, SpendNone
    <2>4. SpendNone(Active(pool)', (SpentBy(confirmed) \ follower.spent)')
        BY <2>1, <2>3 DEF Active
    <2>5. Stale'
        BY <2>1 DEF Stale
    <2> QED BY <2>1, <2>4, <2>5 DEF FreshInv, NothingStaleOnceTold
<1>10. CASE UNCHANGED nodeVars
    <2>1. UNCHANGED vars /\ UNCHANGED <<confirmed, saver, disk>>
        BY <1>10 DEF nodeVars, vars, chain, saving
    <2> QED BY <1>1, <1>2, <2>1
<1> QED BY <1>3, <1>4, <1>5, <1>6, <1>7, <1>8, <1>9, <1>10 DEF NodeNext

\* A node whose calls wait for each other, and that deduplicates nothing, holds
\* nothing that the chain has spent or that is past its deadline, once it has
\* told the mempool of what happened while it was down.
THEOREM NodeNothingStaleTheorem ==
    ASSUME NoDedup, ~Concurrent
    PROVE  NodeSpec => []NothingStaleOnceTold
<1>1. NodeInit => FreshInv
    <2> SUFFICES ASSUME NodeInit PROVE FreshInv
        OBVIOUS
    <2>1. /\ saver.at = "idle" /\ DOMAIN disk.items = {} /\ confirmed = {}
          /\ Active(pool) = {}
        BY DEF NodeInit, Init, Idle, NoSnapshot, EmptyPool, Active
    <2> QED BY <2>1 DEF FreshInv, SpendNone, SpentBy, NothingStaleOnceTold
<1>2. IInv /\ OneAtATime /\ InView /\ FreshInv /\ [NodeNext]_nodeVars => FreshInv'
    BY NoDedup, NextFreshInv
<1>3. NodeSpec => [](IInv /\ OneAtATime /\ InView)
    BY NodeInView
<1>4. FreshInv => NothingStaleOnceTold
    BY DEF FreshInv
<1> QED BY <1>1, <1>2, <1>3, <1>4, PTL DEF NodeSpec

-----------------------------------------------------------------------------
(* What is handed back can be submitted again, where nothing drains.         *)

\* Nothing that was handed back is remembered as seen: a block forgets all it
\* has seen before it hands back anything, and a bundle that is seen again has
\* been taken from those handed back when its call began.
Forgotten ==
    /\ returned \cap Range(seen) = {}
    /\ follower.at \in {"removeSpent", "promote", "retry", "record"} => seen = <<>>
    /\ \A t \in Callers :
        At(t, "seen") /\ submissions[t].again => Bundle(t) \notin Range(seen)

\* The seen cache only gains what it is told of.
LEMMA SeenRange ==
    ASSUME NEW s \in Seq(Bundles), NEW b \in Bundles
    PROVE  Range(Seen(s, b)) \subseteq Range(s) \cup {b}
<1> DEFINE fits == IF MaxSeen > 0 /\ Len(s) >= MaxSeen
                   THEN SubSeq(s, Len(s) - MaxSeen + 2, Len(s))
                   ELSE s
<1>1. MaxSeen \in Nat
    BY SideLimits
<1>2. fits \in Seq(Bundles) /\ \A i \in 1..Len(fits) : \E j \in 1..Len(s) : fits[i] = s[j]
    BY <1>1
<1> HIDE DEF fits
<1>3. \A i \in 1..Len(Append(fits, b)) :
        \/ i \in 1..Len(fits) /\ Append(fits, b)[i] = fits[i]
        \/ Append(fits, b)[i] = b
    BY <1>2
<1>4. /\ DOMAIN s = 1..Len(s)
      /\ DOMAIN Append(fits, b) = 1..Len(Append(fits, b))
    BY <1>2
<1>5. Range(Append(fits, b)) \subseteq Range(s) \cup {b}
    BY <1>2, <1>3, <1>4 DEF Range
<1> QED BY <1>5 DEF Seen, fits

\* Every step of a node that never drains keeps it so.
LEMMA NextForgotten ==
    ASSUME ~Concurrent, "drain" \notin Calls, IInv, OneAtATime, Forgotten,
           [NodeNext]_nodeVars
    PROVE  Forgotten'
<1>1. ASSUME UNCHANGED <<returned, seen, follower, submissions>> PROVE Forgotten'
    BY <1>1 DEF Forgotten, At, Bundle
<1>2. ASSUME returned' = {}, seen' = <<>>, \A t \in Callers : submissions'[t] = Idle
      PROVE  Forgotten'
    <2>1. Range(<<>>) = {}
        BY DEF Range
    <2> QED BY <1>2, <2>1 DEF Forgotten, At, Idle
<1>3. ASSUME UNCHANGED <<returned, seen>>, \A t \in Callers : submissions'[t] = Idle,
             follower'.at \in {"removeSpent", "promote", "retry", "record"} => seen = <<>>
      PROVE  Forgotten'
    BY <1>3 DEF Forgotten, At, Idle
<1>4. ASSUME follower # Idle, UNCHANGED submissions
      PROVE  \A t \in Callers : submissions'[t] = Idle
    BY <1>4 DEF OneAtATime, Alone
<1>5. CASE Restart
    BY <1>2, <1>5 DEF Restart
<1>6. CASE SaveActive \/ SavePending \/ SaveConflict \/ SaveFees \/ UNCHANGED nodeVars
    BY <1>1, <1>6 DEF SaveActive, SavePending, SaveConflict, SaveFees, nodeVars, vars,
                      structures
<1>7. ASSUME NEW K \in SUBSET (Bundles \ confirmed), NEW s \in 0..MaxSeconds,
             TellBlock(K, s)
      PROVE  Forgotten'
    BY <1>3, <1>7 DEF TellBlock, BlockConfirmed, Free, structures
<1>8. CASE FinishBlock
    <2>1. /\ follower # Idle /\ UNCHANGED <<seen, submissions>> /\ follower' = Idle
          /\ seen = <<>>
        BY <1>8 DEF FinishBlock, RecordBlock, structures, Forgotten, Idle
    <2>2. \A t \in Callers : submissions'[t] = Idle
        BY <1>4, <2>1
    <2>3. Range(<<>>) = {}
        BY DEF Range
    <2> QED BY <2>1, <2>2, <2>3 DEF Forgotten, At, Idle
<1>9. ASSUME NEW t \in Callers, NEW b \in Bundles, Submit(t, b) PROVE Forgotten'
    <2>1. \A u \in Callers \ {t} : ~At(u, "seen")'
        BY <1>9, SubmitEffect DEF At, Idle
    <2>2. At(t, "seen")' /\ submissions'[t].again => Bundle(t)' \notin Range(seen')
        BY <1>9, SubmitEffect DEF Forgotten
    <2>3. follower'.at = "idle"
        BY <1>9, SubmitEffect DEF Idle
    <2> QED BY <1>9, <2>1, <2>2, <2>3, SubmitEffect DEF Forgotten
<1>10. ASSUME NEW t \in Callers, SubmitStep(t) PROVE Forgotten'
    <2>1. PICK step \in Steps : At(t, step)
        BY <1>10, SubmitStepEffect
    <2>2. Bundle(t) \in Bundles \ returned
        BY <1>10, SubmitStepEffect DEF Alone
    <2>3. \A u \in Callers : ~At(u, "seen")'
        <3>1. submissions[t] \in Calling
            BY <2>1, InCall DEF IInv
        <3>2. \A u \in Callers \ {t} : submissions[u] = Idle
            BY <1>10, SubmitStepEffect DEF Alone
        <3> QED BY <1>10, <3>1, <3>2, SubmitStepEffect
                DEF Goes, At, Idle, IInv, CallsOK, Calling
    <2>4. Range(seen') \subseteq Range(seen) \cup {Bundle(t)}
        <3>1. seen \in Seq(Bundles)
            BY DEF IInv, CallsOK
        <3>2. seen' \in {seen, Seen(seen, Bundle(t))}
            BY <1>10 DEF SubmitStep, CheckSeen, CheckActive, CheckPending, CheckConflict,
                         Validate, Queue, FindAdmitted, Refuse, GiveUp, Admit, structures
        <3> QED BY <2>2, <3>1, <3>2, SeenRange
    <2>5. follower'.at = "idle" /\ returned' = returned
        BY <1>10, SubmitStepEffect DEF Idle
    <2> QED BY <2>2, <2>3, <2>4, <2>5 DEF Forgotten
<1>11. CASE ForgetSeen \/ ClearSeen
    <2>1. /\ follower # Idle /\ UNCHANGED <<returned, submissions>> /\ seen' = <<>>
        BY <1>11 DEF ForgetSeen, ClearSeen, Idle
    <2>2. \A t \in Callers : submissions'[t] = Idle
        BY <1>4, <2>1
    <2>3. Range(<<>>) = {}
        BY DEF Range
    <2> QED BY <2>1, <2>2, <2>3 DEF Forgotten, At, Idle
<1>12. CASE RemoveSpentAndExpired \/ Promote \/ CollectRetries
    <2>1. /\ follower # Idle /\ UNCHANGED <<returned, seen, submissions>>
          /\ seen = <<>>
        BY <1>12 DEF RemoveSpentAndExpired, Promote, CollectRetries, Forgotten, Idle
    <2> QED BY <1>3, <1>4, <2>1
<1>13. CASE ClearPending \/ ClearConflict
    <2>1. /\ follower # Idle /\ UNCHANGED <<returned, seen, submissions>>
          /\ follower'.at \notin {"removeSpent", "promote", "retry", "record"}
        BY <1>13 DEF ClearPending, ClearConflict, Idle
    <2> QED BY <1>3, <1>4, <2>1
<1>14. CASE ClearPool
    BY <1>3, <1>14 DEF ClearPool, Free
<1>15. ~DrainPending /\ ~DrainConflict
    BY DEF DrainPending, DrainConflict
<1> QED BY <1>5, <1>6, <1>7, <1>8, <1>9, <1>10, <1>11, <1>12, <1>13, <1>14, <1>15
        DEF NodeNext, OtherCall

\* A node whose calls wait for each other, and that leaves the drains alone, is
\* never turned away as already seen with a bundle it was handed back.
THEOREM NodeHandedBackTheorem ==
    ASSUME ~Concurrent, "drain" \notin Calls
    PROVE  NodeSpec => HandedBackCanReturn
<1>1. NodeInit => Forgotten
    <2> SUFFICES ASSUME NodeInit PROVE Forgotten
        OBVIOUS
    <2>1. /\ returned = {} /\ follower.at = "idle"
          /\ \A t \in Callers : submissions[t].at = "idle"
        BY DEF NodeInit, Init, Idle
    <2> QED BY <2>1 DEF Forgotten, At
<1>2. IInv /\ OneAtATime /\ Forgotten /\ [NodeNext]_nodeVars => Forgotten'
    BY NextForgotten
<1>3. NodeSpec => [](IInv /\ OneAtATime /\ InView)
    BY NodeInView
<1>4. Forgotten =>
        [\A t \in Callers :
            /\ At(t, "seen") /\ Bundle(t) \in Range(seen)
            /\ submissions'[t] = Idle
            /\ submissions[t].again
            =>  \/ Bundle(t) \in Active(pool) \cup pending.items \cup conflict.cache
                \/ \E u \in Callers \ {t} :
                    submissions[u] # Idle /\ Bundle(u) = Bundle(t)]_vars
    BY DEF Forgotten
<1> QED BY <1>1, <1>2, <1>3, <1>4, PTL
        DEF NodeSpec, HandedBackCanReturn

-----------------------------------------------------------------------------
(* The single steps of ActivePool.                                           *)

\* ActivePool, instantiated, counts as the modules it is composed from do ...
LEMMA SameNumbers ==
    /\ \A m, n : Atomic!SatAdd(m, n) = SatAdd(m, n)
    /\ \A m, n : Atomic!SatSub(m, n) = SatSub(m, n)
    /\ \A f, S : Atomic!Total(f, S) = Total(f, S)
    /\ \A S : Atomic!Highest(S) = Highest(S)
    /\ \A f, c : Atomic!FeePerCost(f, c) = FeePerCost(f, c)
    /\ \A b : Atomic!OwnFeeRate(b) = OwnFeeRate(b)
<1>1. \A m, n : Atomic!SatAdd(m, n) = SatAdd(m, n)
    BY DEF Atomic!SatAdd, SatAdd
<1>2. \A m, n : Atomic!SatSub(m, n) = SatSub(m, n)
    BY DEF Atomic!SatSub, SatSub
<1>3. \A f, S : Atomic!Total(f, S) = Total(f, S)
    <2>1. \A S : Atomic!Cardinality(S) = Cardinality(S)
        BY DEF Atomic!Cardinality, Cardinality
    <2> QED BY <2>1 DEF Atomic!Total, Total, Atomic!Units, Units
<1>4. \A S : Atomic!Highest(S) = Highest(S)
    BY DEF Atomic!Highest, Highest, Atomic!Max, Max
<1>5. \A f, c : Atomic!FeePerCost(f, c) = FeePerCost(f, c)
    BY DEF Atomic!FeePerCost, FeePerCost
<1>6. \A b : Atomic!OwnFeeRate(b) = OwnFeeRate(b)
    BY <1>5 DEF Atomic!OwnFeeRate, OwnFeeRate
<1> QED BY <1>1, <1>2, <1>3, <1>4, <1>5, <1>6

\* ... sees the same chain ...
LEMMA SameChain ==
    /\ \A S : Atomic!SpentBy(S) = SpentBy(S)
    /\ \A S : Atomic!CreatedBy(S) = CreatedBy(S)
    /\ \A K : Atomic!Unspent(K) = Unspent(K)
    /\ \A b, h, s : Atomic!IsExpired(b, h, s) = IsExpired(b, h, s)
    /\ \A b : Atomic!IsImpossible(b) = IsImpossible(b)
    /\ \A b, h, s : Atomic!IsTimelocked(b, h, s) = IsTimelocked(b, h, s)
    /\ \A C, K, h, s : Atomic!ValidBlock(C, K, h, s) = ValidBlock(C, K, h, s)
<1>1. \A S : Atomic!SpentBy(S) = SpentBy(S)
    BY DEF Atomic!SpentBy, SpentBy
<1>2. \A S : Atomic!CreatedBy(S) = CreatedBy(S)
    BY DEF Atomic!CreatedBy, CreatedBy
<1>3. \A K : Atomic!Unspent(K) = Unspent(K)
    BY <1>1, <1>2 DEF Atomic!Unspent, Unspent
<1>4. \A b, h, s : Atomic!IsExpired(b, h, s) = IsExpired(b, h, s)
    BY DEF Atomic!IsExpired, IsExpired
<1>5. \A S : Atomic!Compatible(S) = Compatible(S)
    BY DEF Atomic!Compatible, Compatible
<1>7. \A b : Atomic!IsImpossible(b) = IsImpossible(b)
    BY DEF Atomic!IsImpossible, IsImpossible
<1>8. \A b, h, s : Atomic!IsTimelocked(b, h, s) = IsTimelocked(b, h, s)
    BY DEF Atomic!IsTimelocked, IsTimelocked
<1>6. \A C, K, h, s : Atomic!ValidBlock(C, K, h, s) = ValidBlock(C, K, h, s)
    BY <1>1, <1>2, <1>3, <1>4, <1>5, <1>8 DEF Atomic!ValidBlock, ValidBlock
<1> QED BY <1>1, <1>2, <1>3, <1>4, <1>6, <1>7, <1>8

\* ... reads the pool's maps alike ...
LEMMA SameMaps ==
    /\ Atomic!EmptyPool = EmptyPool
    /\ \A p : Atomic!Active(p) = Active(p)
    /\ \A p, b : Atomic!Children(p, b) = Children(p, b)
    /\ \A p, b : Atomic!Parents(p, b) = Parents(p, b)
    /\ \A p, b : Atomic!Score(p, b) = Score(p, b)
    /\ \A p : Atomic!HeldKeys(p) = HeldKeys(p)
    /\ \A item : Atomic!PackageFeeRate(item) = PackageFeeRate(item)
    /\ \A f, D : Atomic!Without(f, D) = Without(f, D)
    /\ \A f, D, v : Atomic!Assign(f, D, v) = Assign(f, D, v)
<1>1. \A p : Atomic!Active(p) = Active(p)
    BY DEF Atomic!Active, Active
<1> QED BY <1>1, SameNumbers
        DEF Atomic!EmptyPool, EmptyPool, Atomic!Children, Children,
            Atomic!Parents, Parents, Atomic!Score, Score, Atomic!HeldKeys, HeldKeys,
            Atomic!PackageFeeRate, PackageFeeRate, Atomic!Without, Without,
            Atomic!Assign, Assign

\* ... inserts and removes alike ...
LEMMA SamePool ==
    /\ \A p, b, item : Atomic!Insert(p, b, item) = Insert(p, b, item)
    /\ \A p, S : Atomic!RemoveAll(p, S) = RemoveAll(p, S)
    /\ \A p, S : Atomic!Cascade(p, S) = Cascade(p, S)
    /\ \A p, b : Atomic!RaiseScores(p, b) = RaiseScores(p, b)
<1>1. \A p, b, item : Atomic!Insert(p, b, item) = Insert(p, b, item)
    BY DEF Atomic!Insert, Insert, Atomic!Children, Children, Atomic!Assign, Assign,
           Atomic!SatAdd, SatAdd
<1>2. \A p, b, C : Atomic!RecomputedScore(p, b, C) = RecomputedScore(p, b, C)
    BY SameNumbers, SameMaps DEF Atomic!RecomputedScore, RecomputedScore
<1>3. \A p, S : Atomic!RemoveAll(p, S) = RemoveAll(p, S)
    BY DEF Atomic!RemoveAll, RemoveAll, Atomic!RecomputedScore, RecomputedScore,
           Atomic!Active, Active, Atomic!Children, Children, Atomic!Without, Without,
           Atomic!SpentBy, SpentBy, Atomic!CreatedBy, CreatedBy,
           Atomic!SatSub, SatSub, Atomic!Total, Total, Atomic!Units, Units,
           Atomic!Cardinality, Cardinality, Atomic!Highest, Highest, Atomic!Max, Max,
           Atomic!PackageFeeRate, PackageFeeRate, Atomic!OwnFeeRate, OwnFeeRate,
           Atomic!FeePerCost, FeePerCost
<1>4. \A p, S : Atomic!Descendants(p, S) = Descendants(p, S)
    BY DEF Atomic!Descendants, Descendants, Atomic!Closure, Closure,
           Atomic!Children, Children
<1>5. \A p, S : Atomic!Cascade(p, S) = Cascade(p, S)
    BY <1>3, <1>4 DEF Atomic!Cascade, Cascade
<1>6. ASSUME NEW p, NEW b PROVE Atomic!RaiseScores(p, b) = RaiseScores(p, b)
    <2> DEFINE rate == PackageFeeRate(p.items[b])
               lower == {a \in Active(p) : Score(p, a) < rate}
               rate0 == Atomic!PackageFeeRate(p.items[b])
               lower0 == {a \in Atomic!Active(p) : Atomic!Score(p, a) < rate0}
               up == Closure(Parents(p, b) \cap lower, LAMBDA a : Parents(p, a) \cap lower)
               up0 == Atomic!Closure(Atomic!Parents(p, b) \cap lower0,
                                     LAMBDA a : Atomic!Parents(p, a) \cap lower0)
    <2>1. rate0 = rate
        BY SameMaps
    <2> HIDE DEF rate, rate0
    <2>2. lower0 = lower
        BY <2>1, SameMaps
    <2> HIDE DEF lower, lower0
    <2>3. up0 = up
        BY <2>2 DEF Atomic!Closure, Closure, Atomic!Parents, Parents,
                    Atomic!Active, Active
    <2>4. /\ RaiseScores(p, b) =
                [p EXCEPT !.items = [a \in Active(p) |->
                    IF a \in up THEN [p.items[a] EXCEPT !.descendant_score = rate]
                    ELSE p.items[a]]]
          /\ Atomic!RaiseScores(p, b) =
                [p EXCEPT !.items = [a \in Atomic!Active(p) |->
                    IF a \in up0 THEN [p.items[a] EXCEPT !.descendant_score = rate0]
                    ELSE p.items[a]]]
        BY DEF RaiseScores, Atomic!RaiseScores, rate, rate0, lower, lower0
    <2> HIDE DEF up, up0
    <2> QED BY <2>1, <2>3, <2>4, SameMaps
<1> QED BY <1>1, <1>3, <1>5, <1>6

\* ... makes room alike ...
LEMMA SameEviction ==
    /\ \A p, b : Atomic!Fits(p, b) = Fits(p, b)
    /\ \A p, b, h : Atomic!MakeRoom(p, b, h) = MakeRoom(p, b, h)
<1>1. \A p, b : Atomic!Fits(p, b) = Fits(p, b)
    BY SameNumbers DEF Atomic!Fits, Fits
<1>2. \A b, h : Atomic!IsProtected(b, h) = IsProtected(b, h)
    BY SameNumbers DEF Atomic!IsProtected, IsProtected, Atomic!Unlimited, Unlimited
<1>3. ASSUME NEW p, NEW b, NEW U
      PROVE  Atomic!EvictionPass(p, b, U) = EvictionPass(p, b, U)
    <2> DEFINE beatable == {u \in U : Score(p, u) < OwnFeeRate(b)}
               beatable0 == {u \in U : Atomic!Score(p, u) < Atomic!OwnFeeRate(b)}
               first == LowestFirst(p, beatable, LAMBDA E : Fits(RemoveAll(p, E), b))
               first0 == Atomic!LowestFirst(p, beatable0,
                            LAMBDA E : Atomic!Fits(Atomic!RemoveAll(p, E), b))
    <2>1. beatable0 = beatable
        BY SameNumbers, SameMaps
    <2> HIDE DEF beatable, beatable0
    <2>2. first0 = first
        BY <1>1, <2>1, SamePool, SameMaps DEF Atomic!LowestFirst, LowestFirst
    <2>3. EvictionPass(p, b, U) = {RemoveAll(p, E) : E \in first}
        BY DEF EvictionPass, beatable
    <2>4. Atomic!EvictionPass(p, b, U) = {Atomic!RemoveAll(p, E) : E \in first0}
        BY DEF Atomic!EvictionPass, beatable0
    <2> HIDE DEF first, first0
    <2> QED BY <2>2, <2>3, <2>4, SamePool
<1>4. ASSUME NEW p, NEW b, NEW h PROVE Atomic!EvictFor(p, b, h) = EvictFor(p, b, h)
    <2> DEFINE guarded(q) == {a \in Active(q) : IsProtected(a, h)}
               guarded0(q) == {a \in Atomic!Active(q) : Atomic!IsProtected(a, h)}
               open(q) == Active(q) \ guarded(q)
               open0(q) == Atomic!Active(q) \ guarded0(q)
               Second(q) == IF Fits(q, b) \/ open(q) # {} \/ ~IsProtected(b, h)
                            THEN {q} ELSE EvictionPass(q, b, guarded(q))
               Second0(q) == IF Atomic!Fits(q, b) \/ open0(q) # {}
                                    \/ ~Atomic!IsProtected(b, h)
                             THEN {q} ELSE Atomic!EvictionPass(q, b, guarded0(q))
    <2>1. \A q : guarded0(q) = guarded(q)
        BY <1>2, SameMaps
    <2>2. \A q : open0(q) = open(q)
        BY <2>1, SameMaps
    <2> HIDE DEF guarded, guarded0, open, open0
    <2>3. \A q : Second0(q) = Second(q)
        BY <1>1, <1>2, <1>3, <2>1, <2>2
    <2>4. Atomic!EvictionPass(p, b, open0(p)) = EvictionPass(p, b, open(p))
        BY <1>3, <2>2
    <2>5. EvictFor(p, b, h) = IF VirtualCost[b] > MaxTotalCost THEN {p}
                              ELSE UNION {Second(q) : q \in EvictionPass(p, b, open(p))}
        BY DEF EvictFor, open, guarded
    <2>6. Atomic!EvictFor(p, b, h) =
            IF VirtualCost[b] > MaxTotalCost THEN {p}
            ELSE UNION {Second0(q) : q \in Atomic!EvictionPass(p, b, open0(p))}
        BY DEF Atomic!EvictFor, open0, guarded0
    <2> HIDE DEF Second, Second0
    <2> QED BY <2>3, <2>4, <2>5, <2>6
<1>5. \A p, b, h : Atomic!MakeRoom(p, b, h) = MakeRoom(p, b, h)
    BY <1>1, <1>4 DEF Atomic!MakeRoom, MakeRoom
<1> QED BY <1>1, <1>5

\* ... takes a block alike ...
LEMMA SameBlock ==
    \A p, coins, h, s : Atomic!AfterBlock(p, coins, h, s) = AfterBlock(p, coins, h, s)
<1>1. \A p, coins : Atomic!Spenders(p, coins) = Spenders(p, coins)
    BY DEF Atomic!Spenders, Spenders
<1> QED BY <1>1, SamePool, SameMaps, SameChain DEF Atomic!AfterBlock, AfterBlock

\* ... and admits alike.
LEMMA SameAdmission ==
    /\ \A p, b, known : Atomic!MissingCoins(p, b, known) = MissingCoins(p, b, known)
    /\ \A p, b, known : Atomic!AdmissionError(p, b, known) = AdmissionError(p, b, known)
    /\ \A p, b, h : Atomic!Prepared(p, b, h) = Prepared(p, b, h)
    /\ \A p, q, b, known : Atomic!Admitted(p, q, b, known) = Admitted(p, q, b, known)
<1>1. \A p, b, known : Atomic!MissingCoins(p, b, known) = MissingCoins(p, b, known)
    BY DEF Atomic!MissingCoins, MissingCoins
<1>2. \A p, b, known : Atomic!DependsOn(p, b, known) = DependsOn(p, b, known)
    BY DEF Atomic!DependsOn, DependsOn, Atomic!CreatedInPool, CreatedInPool
<1>3. \A p, deps : Atomic!Depth(p, deps) = Depth(p, deps)
    BY SameNumbers, SameMaps DEF Atomic!Depth, Depth
<1>4. \A p, b, deps : Atomic!ClosesCycle(p, b, deps) = ClosesCycle(p, b, deps)
    BY DEF Atomic!ClosesCycle, ClosesCycle, Atomic!Closure, Closure,
           Atomic!Parents, Parents, Atomic!Active, Active
<1>5. \A p, b, deps : Atomic!PackageFee(p, b, deps) = PackageFee(p, b, deps)
    BY SameNumbers, SameMaps DEF Atomic!PackageFee, PackageFee, Atomic!Wrapped, Wrapped
<1>6. \A p, b, deps :
        Atomic!PackageVirtualCost(p, b, deps) = PackageVirtualCost(p, b, deps)
    BY SameNumbers, SameMaps
    DEF Atomic!PackageVirtualCost, PackageVirtualCost, Atomic!Wrapped, Wrapped
<1>7. \A p, b, known : Atomic!NewItem(p, b, known) = NewItem(p, b, known)
    BY <1>2, <1>3, <1>5, <1>6, SameNumbers DEF Atomic!NewItem, NewItem
<1>8. \A p, b : Atomic!Conflicts(p, b) = Conflicts(p, b)
    BY SameMaps DEF Atomic!Conflicts, Conflicts, Atomic!Waits, Waits
<1>9. \A b, K : Atomic!RbfError(b, K) = RbfError(b, K)
    BY SameNumbers, SameChain DEF Atomic!RbfError, RbfError
<1>10. \A p, b, known : Atomic!AdmissionError(p, b, known) = AdmissionError(p, b, known)
    BY <1>1, <1>2, <1>3, <1>4, <1>8, <1>9, SameNumbers
       DEF Atomic!AdmissionError, AdmissionError
<1>11. \A p, b, h : Atomic!Prepared(p, b, h) = Prepared(p, b, h)
    BY <1>8, SamePool, SameEviction DEF Atomic!Prepared, Prepared
<1>12. \A p, q, b, known : Atomic!Admitted(p, q, b, known) = Admitted(p, q, b, known)
    BY <1>7, SamePool DEF Atomic!Admitted, Admitted
<1> QED BY <1>1, <1>10, <1>11, <1>12

\* The caller of a submission knows coins that ActivePool lets a caller know,
\* and sees the chain that the pool has been told of.
LEMMA SubmitSees ==
    ASSUME IInv, OneAtATime, InView, NEW t \in Callers, SubmitStep(t)
    PROVE  /\ submissions[t].known \in Atomic!CoinRecords(Bundle(t))
           /\ submissions[t].height = Told[2] /\ submissions[t].seconds = Told[3]
           /\ Told' = Told
<1>1. UpToDate(t) /\ ~Stale /\ ~Stale' /\ UNCHANGED chain
    BY SubmitStepEffect DEF InView, At, Idle, Steps
<1>2. Told = chain /\ Told' = chain
    BY <1>1 DEF Told, Stale
<1>3. \A K : Atomic!Unspent(K) = Unspent(K)
    BY SameChain
<1>4. submissions[t].known \in Atomic!CoinRecords(Bundle(t))
    BY <1>1, <1>2, <1>3 DEF UpToDate, Records, Atomic!CoinRecords, chain
<1> QED BY <1>1, <1>2, <1>4 DEF UpToDate, chain

\* A step of submit() is one that ActivePool takes, or leaves the pool and the
\* last answer alone.
LEMMA SubmitRefines ==
    ASSUME ~Concurrent, IInv, OneAtATime, InView, NEW t \in Callers, SubmitStep(t)
    PROVE  Atomic!Next \/ UNCHANGED Atomic!vars
<1> DEFINE b == Bundle(t)
           known == submissions[t].known
           error == Atomic!SubmitError(b, known)
<1>1. /\ b \in Bundles /\ known \in Atomic!CoinRecords(b)
      /\ submissions[t].height = Told[2] /\ submissions[t].seconds = Told[3]
      /\ Told' = Told
    BY SubmitStepEffect, SubmitSees
<1>2. error = IF b \in Active(pool) THEN "AlreadySeen"
              ELSE IF MissingCoins(pool, b, known) # {} THEN "CoinNotFound"
              ELSE IF IsImpossible(b) THEN "ImpossibleTimelocks"
              ELSE IF IsExpired(b, submissions[t].height, submissions[t].seconds)
                   THEN "Expired"
              ELSE IF IsTimelocked(b, submissions[t].height, submissions[t].seconds)
                   THEN "Pending"
              ELSE AdmissionError(pool, b, known)
    <2>1. /\ Atomic!Active(pool) = Active(pool)
          /\ Atomic!MissingCoins(pool, b, known) = MissingCoins(pool, b, known)
          /\ Atomic!IsImpossible(b) = IsImpossible(b)
          /\ Atomic!IsExpired(b, Told[2], Told[3]) = IsExpired(b, Told[2], Told[3])
          /\ Atomic!IsTimelocked(b, Told[2], Told[3]) = IsTimelocked(b, Told[2], Told[3])
          /\ Atomic!AdmissionError(pool, b, known) = AdmissionError(pool, b, known)
        BY SameMaps, SameAdmission, SameChain
    <2> HIDE DEF b, known
    <2> QED BY <1>1, <2>1 DEF Atomic!SubmitError, error
<1>3. \A h : Atomic!Prepared(pool, b, h) = Prepared(pool, b, h)
    BY SameAdmission
<1>4. \A q : Atomic!Fits(q, b) = Fits(q, b)
    BY SameEviction
<1>5. UNCHANGED <<pool, result>> => UNCHANGED Atomic!vars
    BY <1>1 DEF Atomic!vars
<1>6. ASSUME error # "none", result' = error, UNCHANGED pool
      PROVE  Atomic!Next
    <2>1. Atomic!SubmitRefused(b)
        BY <1>1, <1>6 DEF Atomic!SubmitRefused, Atomic!chain
    <2> QED BY <1>1, <2>1 DEF Atomic!Next, Atomic!Submits
<1>7. At(t, "admit") => Validated(t)
    BY SubmitStepEffect DEF InView, UpToDate, At, Idle
<1>8. Admitting(t) => error = Error(t)
    BY <1>2, <1>7 DEF Admitting, Error, Validated, Bundle
<1>9. CASE CheckActive(t) /\ b \in Active(pool)
    <2>1. result' = "AlreadySeen" /\ UNCHANGED pool
        BY <1>9 DEF CheckActive, Answers, structures
    <2> QED BY <1>2, <1>6, <1>9, <2>1
<1>10. CASE Validate(t)
    <2>1. b \notin Active(pool)
        BY <1>10 DEF OneAtATime, Alone, Validate, At, Idle
    <2>2. UNCHANGED pool
        BY <1>10 DEF Validate, structures
    <2>3. \/ /\ MissingCoins(pool, b, known) # {}
             /\ result' = "CoinNotFound"
          \/ /\ MissingCoins(pool, b, known) = {}
             /\ IsImpossible(b)
             /\ result' = "ImpossibleTimelocks"
          \/ /\ MissingCoins(pool, b, known) = {} /\ ~IsImpossible(b)
             /\ IsExpired(b, submissions[t].height, submissions[t].seconds)
             /\ result' = "Expired"
          \/ UNCHANGED result
        BY <1>10 DEF Validate, Answers, Bundle
    <2>4. CASE UNCHANGED result
        BY <1>5, <2>2, <2>4
    <2>5. CASE result' = error /\ error # "none"
        BY <1>6, <2>2, <2>5
    <2> QED BY <1>2, <2>1, <2>3, <2>4, <2>5
<1>11. CASE Refuse(t)
    BY <1>6, <1>8, <1>11 DEF Refuse, Answers
<1>12. CASE GiveUp(t)
    <2>1. error = "none"
        BY <1>8, <1>12 DEF GiveUp
    <2>2. PICK q \in Prepared(pool, b, submissions[t].height) :
            /\ pool' = q
            /\ \/ ~Fits(q, b) /\ Answers("MempoolFull")
               \/ Fits(q, b) /\ "policy" \in Calls /\ Answers("PolicyRejected")
        BY <1>12 DEF GiveUp
    <2>3. CASE ~Fits(q, b) /\ Answers("MempoolFull")
        <3>1. Atomic!SubmitFull(b)
            BY <1>1, <1>3, <1>4, <2>1, <2>2, <2>3
               DEF Atomic!SubmitFull, Atomic!chain, Answers
        <3> QED BY <1>1, <3>1 DEF Atomic!Next, Atomic!Submits
    <2>4. CASE Fits(q, b) /\ "policy" \in Calls /\ Answers("PolicyRejected")
        <3>1. Atomic!SubmitVetoed(b)
            BY <1>1, <1>3, <1>4, <2>1, <2>2, <2>4
               DEF Atomic!SubmitVetoed, Atomic!chain, Answers
        <3> QED BY <1>1, <3>1 DEF Atomic!Next, Atomic!Submits
    <2> QED BY <2>2, <2>3, <2>4
<1>13. CASE Admit(t)
    <2>1. error = "none"
        BY <1>8, <1>13 DEF Admit
    <2>2. PICK q \in Prepared(pool, b, submissions[t].height) :
            Fits(q, b) /\ pool' = Admitted(pool, q, b, known)
        BY <1>13 DEF Admit
    <2>3. Atomic!Admitted(pool, q, b, known) = Admitted(pool, q, b, known)
        BY SameAdmission
    <2>4. result' = "Success"
        BY <1>13 DEF Admit, Answers
    <2>5. Atomic!SubmitAdmitted(b)
        <3> HIDE DEF b, known
        <3> QED BY <1>1, <1>3, <1>4, <2>1, <2>2, <2>3, <2>4
                DEF Atomic!SubmitAdmitted, Atomic!chain, error
    <2> QED BY <1>1, <2>5 DEF Atomic!Next, Atomic!Submits
<1>14. CASE CheckActive(t) /\ b \notin Active(pool)
    BY <1>5, <1>14 DEF CheckActive, structures
<1>15. CASE \/ CheckSeen(t) \/ CheckPending(t) \/ CheckConflict(t)
            \/ Queue(t) \/ FindAdmitted(t)
    BY <1>5, <1>15 DEF CheckSeen, CheckPending, CheckConflict, Queue, FindAdmitted,
                       structures
<1> QED BY <1>9, <1>10, <1>11, <1>12, <1>13, <1>14, <1>15 DEF SubmitStep

\* The first two steps of on_new_block() under the pool's lock are ActivePool's
\* block, or bring a restored pool up to date.
LEMMA BlockRefines ==
    ASSUME ~Concurrent, IInv, OneAtATime, InView, RemoveSpentAndExpired
    PROVE  Atomic!Next \/ CatchUp
<1>1. /\ follower.at = "removeSpent" /\ Stale /\ ~Stale'
      /\ pool' = AfterBlock(pool, follower.spent, height, seconds)
      /\ result' = "NewBlock" /\ UNCHANGED chain
    BY DEF RemoveSpentAndExpired, Answers, Stale
<1>2. CASE follower.before = chain
    BY <1>1, <1>2 DEF CatchUp
<1>3. CASE Telling
    <2>1. PICK K \in SUBSET Bundles, s \in 0..MaxSeconds : Follows(K, s)
        BY <1>3 DEF Telling
    <2>2. Told' = <<Told[1] \cup K, Told[2] + 1, s>>
        BY <1>1, <2>1 DEF Told, Stale, Follows, chain
    <2>3. pool' = Atomic!AfterBlock(pool, Atomic!SpentBy(K), Told[2] + 1, s)
        <3>1. pool' = AfterBlock(pool, SpentBy(K), Told[2] + 1, s)
            BY <1>1, <2>1 DEF Follows
        <3> QED BY <3>1, SameBlock, SameChain
    <2>4. Atomic!ValidBlock(Told[1], K, Told[2] + 1, s)
        BY <2>1, SameChain DEF Follows
    <2>5. Atomic!NewBlock(K, s)
        BY <1>1, <2>1, <2>2, <2>3, <2>4 DEF Atomic!NewBlock, Follows
    <2>6. K \in SUBSET (Bundles \ Told[1])
        BY <2>1 DEF Follows
    <2> QED BY <2>5, <2>6 DEF Atomic!Next, Atomic!Submits
<1> QED BY <1>1, <1>2, <1>3 DEF InView

\* Every step of a node is one of the abstract node's, or a stutter.
LEMMA NodeRefines ==
    ASSUME ~Concurrent, IInv, OneAtATime, InView, [NodeNext]_nodeVars
    PROVE  [Atomic!Next \/ Restart \/ CatchUp]_(Atomic!vars)
<1>1. ASSUME UNCHANGED <<pool, result>>, Told' = Told PROVE UNCHANGED Atomic!vars
    BY <1>1 DEF Atomic!vars
<1>2. ASSUME NEW K \in SUBSET (Bundles \ confirmed), NEW s \in 0..MaxSeconds,
             TellBlock(K, s)
      PROVE  UNCHANGED Atomic!vars
    BY <1>1, <1>2 DEF TellBlock, BlockConfirmed, structures, Told, Idle
<1>3. CASE \/ FinishBlock \/ Promote \/ CollectRetries
           \/ ClearPending \/ ClearConflict \/ ClearSeen
           \/ DrainPending \/ DrainConflict
    BY <1>1, <1>3 DEF FinishBlock, RecordBlock, Promote, CollectRetries, structures,
                      ClearPending, ClearConflict, ClearSeen, DrainPending,
                      DrainConflict, Told, chain, Idle
<1>4. ASSUME NEW t \in Callers, SubmitStep(t)
      PROVE  Atomic!Next \/ UNCHANGED Atomic!vars
    BY <1>4, SubmitRefines
<1>5. ASSUME NEW t \in Callers, NEW b \in Bundles, Submit(t, b)
      PROVE  UNCHANGED Atomic!vars
    BY <1>1, <1>5 DEF Submit, structures, Told, chain
<1>6. CASE ForgetSeen
    <2>1. follower \in [at : {"clearSeen", "removeSpent"}, spent : SUBSET Coins,
                        before : (SUBSET Bundles) \X Nat \X Nat]
        BY <1>6 DEF ForgetSeen, IInv, CallsOK, Following, Idle
    <2>2. Told' = Told /\ UNCHANGED <<pool, result>>
        BY <1>6, <2>1 DEF ForgetSeen, Told
    <2> QED BY <1>1, <2>2
<1>7. CASE RemoveSpentAndExpired
    BY <1>7, BlockRefines
<1>8. CASE ClearPool
    <2>1. /\ "clear" \in Calls /\ pool' = EmptyPool /\ result' = "Cleared"
          /\ Told' = Told
        BY <1>8 DEF ClearPool, Answers, Told, chain, Idle
    <2>2. Atomic!Clear
        BY <2>1, SameMaps DEF Atomic!Clear, Atomic!chain
    <2> QED BY <2>2 DEF Atomic!Next, Atomic!Submits
<1>9. CASE SaveActive \/ SavePending \/ SaveConflict \/ SaveFees \/ UNCHANGED nodeVars
    BY <1>1, <1>9 DEF SaveActive, SavePending, SaveConflict, SaveFees, nodeVars, vars,
                      structures, Told, chain
<1> QED BY <1>2, <1>3, <1>4, <1>5, <1>6, <1>7, <1>8, <1>9 DEF NodeNext, OtherCall

\* The calls of a node, lock by lock but one at a time, with its snapshots and
\* restarts, implement the single steps of ActivePool.
THEOREM NodeRefinesActivePool ==
    ASSUME ~Concurrent
    PROVE  NodeSpec => ActivePoolBetweenRestarts
<1>1. NodeInit => Atomic!Init
    BY SameMaps DEF NodeInit, Init, Atomic!Init, Told, chain, Idle
<1>2. IInv /\ OneAtATime /\ InView /\ [NodeNext]_nodeVars
        => [Atomic!Next \/ Restart \/ CatchUp]_(Atomic!vars)
    BY NodeRefines
<1>3. NodeSpec => [](IInv /\ OneAtATime /\ InView)
    BY NodeInView
<1> QED BY <1>1, <1>2, <1>3, PTL DEF NodeSpec, ActivePoolBetweenRestarts

=============================================================================
