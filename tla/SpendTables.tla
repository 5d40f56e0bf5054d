---------------------------- MODULE SpendTables -----------------------------
(* The tables of ActivePool that order bundles among themselves: which of    *)
(* the bundles with an identical spend bears its cost and which wait, the    *)
(* chain of active spends of each singleton, and when each item was added.   *)
(*                                                                           *)
(*   bearer  : dedup_index,      key -> the bundle that bears its cost       *)
(*   waiters : dedup_waiters,    key -> the other bundles that have it       *)
(*   chains  : singleton_spends, launcher -> its spends in order of arrival  *)
(*   added   : height_added of the active items                              *)
EXTENDS PoolIndex, Sequences

CONSTANTS
    Launcher,       \* bundle -> the singleton it spends, or NoLauncher
    NoLauncher,     \* singleton_lineage is None
    IdOrder         \* the bundles in the order of their ids

Elements(line) == {line[i] : i \in DOMAIN line}

ASSUME TableData ==
    /\ DOMAIN Launcher = Bundles
    /\ IdOrder \in Seq(Bundles)
    /\ Elements(IdOrder) = Bundles /\ Len(IdOrder) = Cardinality(Bundles)

NoTables == [bearer |-> [k \in {} |-> {}],
             waiters |-> [k \in {} |-> {}],
             chains |-> [l \in {} |-> {}],
             added |-> [b \in {} |-> {}]]

Line(f, k) == IF k \in DOMAIN f THEN f[k] ELSE <<>>

-----------------------------------------------------------------------------
\* The members of S in the order of a relation on them: each comes after those
\* that are related to it.
Ranked(S, order) ==
    [n \in 1..Cardinality(S) |->
        CHOOSE x \in S : Cardinality({y \in S : <<y, x>> \in order}) = n - 1]

\* Vec::retain: what is left of the line when b leaves it.
Retained(line, b) ==
    LET places == {i \in DOMAIN line : line[i] # b}
        kept == Ranked(places, {p \in places \X places : p[1] < p[2]})
    IN  [n \in DOMAIN kept |-> line[kept[n]]]

\* b comes last in the lines of the given keys; a line in which nobody is left
\* is deleted.
Joined(f, keys, b) ==
    [k \in DOMAIN f \cup keys |->
        IF k \in keys THEN Append(Line(f, k), b) ELSE f[k]]
Shortened(f, left(_)) == [k \in {x \in DOMAIN f : left(x) # <<>>} |-> left(k)]

-----------------------------------------------------------------------------
\* The part of ActivePool::insert that PoolIndex leaves out.
TablesWith(d, b, height) ==
    LET held == DedupKeys[b] \cap DOMAIN d.bearer
    IN  [bearer |-> Assign(d.bearer, DedupKeys[b] \ held, b),
         waiters |-> Joined(d.waiters, held, b),
         chains |-> Joined(d.chains, {Launcher[b]} \ {NoLauncher}, b),
         added |-> Assign(d.added, {b}, height)]

\* Mutant of TablesWithout: a waiter that goes stays in line.
TablesOutlived(d, b) ==
    LET borne == {k \in DedupKeys[b] \cap DOMAIN d.bearer : d.bearer[k] = b}
        inherited == borne \cap DOMAIN d.waiters
        Waiting(k) == IF k \in inherited THEN Tail(d.waiters[k]) ELSE d.waiters[k]
        Behind(l) == IF l = Launcher[b] THEN Retained(d.chains[l], b) ELSE d.chains[l]
    IN  [bearer |-> [k \in (DOMAIN d.bearer \ borne) \cup inherited |->
                        IF k \in inherited THEN Head(d.waiters[k]) ELSE d.bearer[k]],
         waiters |-> Shortened(d.waiters, Waiting),
         chains |-> Shortened(d.chains, Behind),
         added |-> Without(d.added, {b})]

\* Mutant of TablesWithout: the last of a chain takes the place of the one that
\* leaves (swap_remove).
TablesSwapped(d, b) ==
    LET borne == {k \in DedupKeys[b] \cap DOMAIN d.bearer : d.bearer[k] = b}
        inherited == borne \cap DOMAIN d.waiters
        Waiting(k) == IF k \in inherited THEN Tail(d.waiters[k])
                      ELSE IF k \in DedupKeys[b] THEN Retained(d.waiters[k], b)
                      ELSE d.waiters[k]
        Behind(l) ==
            LET line == d.chains[l]
            IN  IF l # Launcher[b] THEN line
                ELSE [i \in 1..(Len(line) - 1) |->
                        IF line[i] = b THEN line[Len(line)] ELSE line[i]]
    IN  [bearer |-> [k \in (DOMAIN d.bearer \ borne) \cup inherited |->
                        IF k \in inherited THEN Head(d.waiters[k]) ELSE d.bearer[k]],
         waiters |-> Shortened(d.waiters, Waiting),
         chains |-> Shortened(d.chains, Behind),
         added |-> Without(d.added, {b})]

\* The part of ActivePool::remove that PoolIndex leaves out: of a key that b
\* bore, the first waiter is the bearer next, and leaves the line.
TablesWithout(d, b) ==
    LET borne == {k \in DedupKeys[b] \cap DOMAIN d.bearer : d.bearer[k] = b}
        inherited == borne \cap DOMAIN d.waiters
        Waiting(k) == IF k \in inherited THEN Tail(d.waiters[k])
                      ELSE IF k \in DedupKeys[b] THEN Retained(d.waiters[k], b)
                      ELSE d.waiters[k]
        Behind(l) == IF l = Launcher[b] THEN Retained(d.chains[l], b) ELSE d.chains[l]
    IN  [bearer |-> [k \in (DOMAIN d.bearer \ borne) \cup inherited |->
                        IF k \in inherited THEN Head(d.waiters[k]) ELSE d.bearer[k]],
         waiters |-> Shortened(d.waiters, Waiting),
         chains |-> Shortened(d.chains, Behind),
         added |-> Without(d.added, {b})]

\* A set of bundles goes, one after the other.  (The order makes no difference:
\* TableRemovalsCompose in BlocksProofs.)
TablesWithoutAll(d, S) ==
    LET after[n \in 0..Len(IdOrder)] ==
            IF n = 0 THEN d
            ELSE IF IdOrder[n] \in S THEN TablesWithout(after[n - 1], IdOrder[n])
            ELSE after[n - 1]
    IN  after[Len(IdOrder)]

\* insert() of the members of an empty pool in the order of their ranks, with
\* the heights they were added at.
RefilledTables(added, rank) ==
    LET S == DOMAIN rank
        after[n \in 0..Cardinality(S)] ==
            IF n = 0 THEN NoTables
            ELSE LET b == CHOOSE x \in S : rank[x] = n
                 IN  TablesWith(after[n - 1], b, added[b])
    IN  after[Cardinality(S)]
=============================================================================
