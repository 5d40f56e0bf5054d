---------------------------- MODULE LocksProofs -----------------------------
(* No deadlock between the methods of Mempool, for any number of threads and *)
(* of calls.                                                                 *)
(*                                                                           *)
(* The inductive invariant says where a thread is in its section: it has     *)
(* nothing, the outer lock, or the outer and the next of the inner ones.     *)
(* As inner locks are ranked above outer ones, the locks are asked for in    *)
(* order; and of the threads that wait, the one that waits for the lock of   *)
(* the highest rank waits for a thread that does not wait.                   *)
EXTENDS Locks, SequenceTheorems, TLAPS

Access == [lock : LockNames, mode : {"read", "write"}]

Sections ==
    {s \in [outer : Access, inner : Seq(Access), ends : BOOLEAN] :
        \A i \in DOMAIN s.inner : Rank[s.outer.lock] < Rank[s.inner[i].lock]}

\* What t has locked is what its place in the section says.
AtItsPlace(t) ==
    \/ holds[t] = <<>> /\ taken[t] = 0
    \/ /\ Busy(t)
       /\ holds[t] = <<Section(t).outer>>
       /\ taken[t] <= Len(Section(t).inner)
    \/ /\ Busy(t)
       /\ holds[t] = <<Section(t).outer, Section(t).inner[taken[t] + 1]>>
       /\ taken[t] < Len(Section(t).inner)

LockInv ==
    /\ rest \in [Threads -> Seq(Sections)]
    /\ holds \in [Threads -> Seq(Access)]
    /\ taken \in [Threads -> Nat]
    /\ queued \subseteq Threads
    /\ calls \in Nat
    /\ \A t \in Threads : AtItsPlace(t)
    /\ \A t \in queued : Locking(t) /\ Wanted(t).mode = "write"

-----------------------------------------------------------------------------
(* The calls of the code.                                                    *)

\* A lock, with others of a higher rank inside it, is a section.
LEMMA AroundIsSection ==
    ASSUME NEW a \in Access, NEW inner \in Seq(Access),
           \A i \in DOMAIN inner : Rank[a.lock] < Rank[inner[i].lock]
    PROVE  Around(a, inner) \in Sections
  BY DEF Around, Sections

\* A lock by itself is one, whether or not the call may return after it.
LEMMA AloneIsSection ==
    ASSUME NEW lock \in LockNames
    PROVE  /\ Alone(Read(lock)) \in Sections /\ Alone(Write(lock)) \in Sections
           /\ Ending(Read(lock)) \in Sections /\ Ending(Write(lock)) \in Sections
  <1>1. Read(lock) \in Access /\ Write(lock) \in Access
    BY DEF Read, Write, Access
  <1>2. <<>> \in Seq(Access) /\ DOMAIN (<<>>) = {}
    OBVIOUS
  <1>3. Alone(Read(lock)) \in Sections /\ Alone(Write(lock)) \in Sections
    BY <1>1, <1>2, AroundIsSection DEF Alone
  <1>4. ASSUME NEW a, Alone(a) \in Sections
        PROVE  Ending(a) \in Sections
    <2> DEFINE s == Alone(a)
               e == [s EXCEPT !.ends = TRUE]
    <2>1. s \in [outer : Access, inner : Seq(Access), ends : BOOLEAN]
      BY <1>4 DEF Sections
    <2>2. /\ e \in [outer : Access, inner : Seq(Access), ends : BOOLEAN]
          /\ e.outer = s.outer /\ e.inner = s.inner
      BY <2>1
    <2> QED  BY <1>4, <2>2 DEF Sections, Ending
  <1> QED  BY <1>3, <1>4

\* What stats(), on_new_block() and a refused replacement nest is in order.
LEMMA NestedIsSection ==
    /\ Around(Read("pool"), <<Write("conflict")>>) \in Sections
    /\ Around(Read("pool"), <<Read("pending"), Read("conflict")>>) \in Sections
    /\ \A cached \in BOOLEAN : Refusal(cached) \in Sections
  <1>1. /\ Rank["pool"] = 1 /\ Rank["pending"] = 2
        /\ Rank["conflict"] = 3 /\ Rank["hooks"] = 4
    BY DEF Rank
  <1>2. \A lock \in LockNames :
            /\ Read(lock) \in Access /\ Read(lock).lock = lock
            /\ Write(lock) \in Access /\ Write(lock).lock = lock
    BY DEF Read, Write, Access
  <1>3. {"pool", "pending", "conflict", "hooks"} \subseteq LockNames
    BY DEF LockNames
  <1>4. ASSUME NEW a \in Access, NEW b \in Access, Rank[a.lock] < Rank[b.lock]
        PROVE  Around(a, <<b>>) \in Sections
    <2>1. <<b>> \in Seq(Access) /\ \A i \in DOMAIN <<b>> : <<b>>[i] = b
      OBVIOUS
    <2> QED  BY <1>4, <2>1, AroundIsSection
  <1>5. ASSUME NEW a \in Access, NEW b \in Access, NEW c \in Access,
               Rank[a.lock] < Rank[b.lock], Rank[a.lock] < Rank[c.lock]
        PROVE  Around(a, <<b, c>>) \in Sections
    <2>1. /\ <<b, c>> \in Seq(Access)
          /\ \A i \in DOMAIN <<b, c>> : <<b, c>>[i] \in {b, c}
      OBVIOUS
    <2> QED  BY <1>5, <2>1, AroundIsSection
  <1>6. /\ Around(Read("pool"), <<Write("conflict")>>) \in Sections
        /\ Around(Read("pool"), <<Read("pending"), Read("conflict")>>) \in Sections
    BY <1>1, <1>2, <1>3, <1>4, <1>5
  <1>7. /\ Around(Write("pool"), <<Write("conflict")>>) \in Sections
        /\ Around(Write("pool"), <<Write("conflict"), Read("hooks")>>) \in Sections
    BY <1>1, <1>2, <1>3, <1>4, <1>5
  <1> QED  BY <1>6, <1>7 DEF Refusal

\* Every call is a sequence of such sections.
LEMMA PathsInOrder == Paths \subseteq Seq(Sections)
  <1>1. /\ Alone(Read("pool")) \in Sections /\ Alone(Write("pool")) \in Sections
        /\ Alone(Read("pending")) \in Sections /\ Alone(Write("pending")) \in Sections
        /\ Alone(Read("conflict")) \in Sections /\ Alone(Write("conflict")) \in Sections
        /\ Alone(Read("fee")) \in Sections /\ Alone(Write("fee")) \in Sections
        /\ Alone(Write("seen")) \in Sections
        /\ Notify \in Sections /\ Alone(Write("hooks")) \in Sections
    BY AloneIsSection DEF LockNames, Notify
  <1>2. /\ Ending(Read("seen")) \in Sections /\ Ending(Write("seen")) \in Sections
        /\ Ending(Read("pool")) \in Sections /\ Ending(Write("pool")) \in Sections
        /\ Ending(Read("pending")) \in Sections /\ Ending(Write("pending")) \in Sections
        /\ Ending(Read("conflict")) \in Sections /\ Ending(Write("conflict")) \in Sections
        /\ Ending(Write("bls")) \in Sections /\ Ending(Write("fee")) \in Sections
    BY AloneIsSection DEF LockNames
  <1>3. Checks \in Seq(Sections)
    BY <1>1, <1>2 DEF Checks
  <1>4. SubmitPaths \subseteq Seq(Sections)
    <2>1. ASSUME NEW a \in Sections, NEW b \in Sections
          PROVE  Checks \o <<a>> \in Seq(Sections) /\ Checks \o <<a, b>> \in Seq(Sections)
      BY <1>3
    <2>2. \A cached \in BOOLEAN : Checks \o <<Refusal(cached)>> \in Seq(Sections)
      BY <2>1, NestedIsSection
    <2>3. /\ Checks \o <<Ending(Write("pending")), Notify>> \in Seq(Sections)
          /\ Checks \o <<Ending(Write("pool")), Notify>> \in Seq(Sections)
      BY <2>1, <1>1, <1>2
    <2> QED  BY <2>2, <2>3 DEF SubmitPaths
  <1>5. NewBlockPath \in Seq(Sections) /\ ClearPath \in Seq(Sections)
    BY <1>1, <1>2, NestedIsSection DEF NewBlockPath, ClearPath
  <1>6. /\ EvictPath \in Seq(Sections) /\ StatsPath \in Seq(Sections)
        /\ SelectPath \in Seq(Sections) /\ HookPath \in Seq(Sections)
    BY <1>1, <1>2, NestedIsSection DEF EvictPath, StatsPath, SelectPath, HookPath
  <1>7. SnapshotPath \in Seq(Sections) /\ RestorePath \in Seq(Sections)
    BY <1>1 DEF SnapshotPath, RestorePath
  <1>8. CachePaths \subseteq Seq(Sections) /\ EstimatePaths \subseteq Seq(Sections)
    BY <1>1, <1>2 DEF CachePaths, EstimatePaths
  <1> QED  BY <1>4, <1>5, <1>6, <1>7, <1>8 DEF Paths

-----------------------------------------------------------------------------
(* The place of every thread in its call.                                    *)

\* What a thread that is about to lock wants, and what it has by then.
LEMMA WantedAt ==
    ASSUME LockInv, NEW t \in Threads, Locking(t)
    PROVE  /\ Section(t) \in Sections /\ Wanted(t) \in Access
           /\ \/ /\ holds[t] = <<>> /\ taken[t] = 0
                 /\ Wanted(t) = Section(t).outer
              \/ /\ holds[t] = <<Section(t).outer>>
                 /\ taken[t] < Len(Section(t).inner)
                 /\ Wanted(t) = Section(t).inner[taken[t] + 1]
                 /\ Rank[Section(t).outer.lock] < Rank[Wanted(t).lock]
  <1>1. rest[t] \in Seq(Sections) /\ rest[t] # <<>> /\ taken[t] \in Nat
    BY DEF LockInv, Locking, Busy
  <1>2. Section(t) \in Sections
    BY <1>1 DEF Section
  <1>3. /\ Section(t).outer \in Access /\ Section(t).inner \in Seq(Access)
        /\ \A i \in DOMAIN Section(t).inner :
              Rank[Section(t).outer.lock] < Rank[Section(t).inner[i].lock]
    BY <1>2 DEF Sections
  <1>4. AtItsPlace(t)
    BY DEF LockInv
  <1>5. CASE holds[t] = <<>>
    <2>1. taken[t] = 0
      BY <1>4, <1>5 DEF AtItsPlace
    <2> QED  BY <1>2, <1>3, <1>5, <2>1 DEF Wanted
  <1>6. CASE holds[t] # <<>>
    <2>1. Len(holds[t]) = 1 /\ taken[t] < Len(Section(t).inner)
      BY <1>6 DEF Locking
    <2>2. holds[t] = <<Section(t).outer>>
      BY <1>4, <1>6, <2>1 DEF AtItsPlace
    <2>3. /\ taken[t] + 1 \in DOMAIN Section(t).inner
          /\ Section(t).inner[taken[t] + 1] \in Access
      BY <1>1, <1>3, <2>1
    <2> QED  BY <1>2, <1>3, <1>6, <2>1, <2>2, <2>3 DEF Wanted
  <1> QED  BY <1>5, <1>6

\* At first nobody has or wants anything.
LEMMA InitLockInv == Init => LockInv
  BY CallsBounded DEF Init, LockInv, AtItsPlace

\* A thread that a step does not touch keeps its place, and what it waits for.
LEMMA OthersStay ==
    ASSUME NEW u,
           rest'[u] = rest[u], holds'[u] = holds[u], taken'[u] = taken[u]
    PROVE  /\ AtItsPlace(u)' <=> AtItsPlace(u)
           /\ Locking(u)' <=> Locking(u)
           /\ Wanted(u)' = Wanted(u)
  BY DEF AtItsPlace, Locking, Wanted, Busy, Section

\* The steps of one thread keep the invariant if they keep what it says of
\* that thread.
LEMMA StepOfOne ==
    ASSUME LockInv, NEW t \in Threads,
           NEW r \in Seq(Sections), rest' = [rest EXCEPT ![t] = r],
           NEW h \in Seq(Access), holds' = [holds EXCEPT ![t] = h],
           NEW n \in Nat, taken' = [taken EXCEPT ![t] = n],
           queued' \subseteq queued \cup {t}, calls' \in Nat,
           AtItsPlace(t)',
           t \in queued' => Locking(t)' /\ Wanted(t)'.mode = "write"
    PROVE  LockInv'
  <1>1. /\ rest' \in [Threads -> Seq(Sections)]
        /\ holds' \in [Threads -> Seq(Access)]
        /\ taken' \in [Threads -> Nat]
        /\ queued' \subseteq Threads
    BY DEF LockInv
  <1>2. \A u \in Threads \ {t} :
            rest'[u] = rest[u] /\ holds'[u] = holds[u] /\ taken'[u] = taken[u]
    BY DEF LockInv
  <1>3. \A u \in Threads : AtItsPlace(u)'
    BY <1>2, OthersStay DEF LockInv
  <1>4. \A u \in queued' : Locking(u)' /\ Wanted(u)'.mode = "write"
    <2> SUFFICES ASSUME NEW u \in queued', u # t
                 PROVE  Locking(u)' /\ Wanted(u)'.mode = "write"
      OBVIOUS
    <2>1. u \in queued /\ u \in Threads \ {t}
      BY <1>1
    <2>2. Locking(u) /\ Wanted(u).mode = "write"
      BY <2>1 DEF LockInv
    <2> QED  BY <1>2, <2>1, <2>2, OthersStay
  <1> QED  BY <1>1, <1>3, <1>4 DEF LockInv

-----------------------------------------------------------------------------
(* Every step keeps the invariant.                                           *)

\* A new call, of a thread that is in none and so has nothing.
LEMMA CallKeeps ==
    ASSUME LockInv, NEW t \in Threads, Call(t)
    PROVE  LockInv'
  <1>1. PICK path \in Paths : rest' = [rest EXCEPT ![t] = path]
    BY DEF Call
  <1>2. path \in Seq(Sections)
    BY PathsInOrder
  <1>3. holds[t] = <<>> /\ taken[t] = 0
    BY DEF LockInv, AtItsPlace, Call
  <1>4. /\ holds' = [holds EXCEPT ![t] = <<>>] /\ taken' = [taken EXCEPT ![t] = 0]
        /\ queued' = queued /\ calls' \in Nat
    BY <1>3 DEF Call, LockInv
  <1>5. t \notin queued
    BY DEF LockInv, Locking, Call
  <1>6. AtItsPlace(t)'
    BY <1>4 DEF AtItsPlace, LockInv
  <1>7. <<>> \in Seq(Access) /\ 0 \in Nat
    OBVIOUS
  <1> QED  BY <1>1, <1>2, <1>4, <1>5, <1>6, <1>7, StepOfOne

\* The second of two elements is appended to the first.
LEMMA SecondAppended ==
    ASSUME NEW S, NEW a \in S, NEW b \in S
    PROVE  Append(<<a>>, b) = <<a, b>>
  <1> DEFINE both == <<a>> \o <<b>>
  <1>1. Len(both) = 2
    OBVIOUS
  <1>2. both[1] = a
    OBVIOUS
  <1>3. both[2] = b
    OBVIOUS
  <1>4. both \in Seq(S)
    OBVIOUS
  <1>5. <<a, b>> \in Seq(S) /\ Len(<<a, b>>) = 2 /\ <<a, b>>[1] = a /\ <<a, b>>[2] = b
    OBVIOUS
  <1>6. <<a>> \in Seq(S)
    OBVIOUS
  <1>7. Append(<<a>>, b) = both
    BY <1>6, AppendIsConcat
  <1> HIDE DEF both
  <1>8. \A i \in 1 .. 2 : i = 1 \/ i = 2
    OBVIOUS
  <1>9. Len(both) = Len(<<a, b>>) /\ \A i \in 1 .. Len(both) : both[i] = <<a, b>>[i]
    BY <1>1, <1>2, <1>3, <1>5, <1>8
  <1>10. both = <<a, b>>
    BY <1>4, <1>5, <1>9, SeqEqual
  <1> QED  BY <1>7, <1>10

\* A lock that is granted.
LEMMA AcquireKeeps ==
    ASSUME LockInv, NEW t \in Threads, Acquire(t)
    PROVE  LockInv'
  <1> DEFINE h == Append(holds[t], Wanted(t))
  <1>1. Locking(t) /\ Busy(t)
    BY DEF Acquire, Locking
  <1>2. /\ rest[t] \in Seq(Sections) /\ taken[t] \in Nat
        /\ holds[t] \in Seq(Access) /\ Wanted(t) \in Access
    BY <1>1, WantedAt DEF LockInv
  <1>3. /\ rest' = [rest EXCEPT ![t] = rest[t]] /\ taken' = [taken EXCEPT ![t] = taken[t]]
        /\ holds' = [holds EXCEPT ![t] = h] /\ h \in Seq(Access)
        /\ queued' \subseteq queued \cup {t} /\ t \notin queued' /\ calls' \in Nat
    BY <1>2 DEF Acquire, LockInv
  <1>4. rest'[t] = rest[t] /\ taken'[t] = taken[t] /\ holds'[t] = h
    BY <1>3 DEF LockInv, Acquire
  <1>5. Busy(t)' /\ Section(t)' = Section(t)
    BY <1>1, <1>4 DEF Busy, Section
  <1>6. /\ Section(t).inner \in Seq(Access)
        /\ \/ h = <<Section(t).outer>> /\ taken[t] = 0
           \/ /\ h = <<Section(t).outer, Section(t).inner[taken[t] + 1]>>
              /\ taken[t] < Len(Section(t).inner)
    <2>1. Section(t) \in Sections
      BY <1>1, WantedAt
    <2>2. Section(t).inner \in Seq(Access)
      BY <2>1 DEF Sections
    <2>3. CASE holds[t] = <<>> /\ taken[t] = 0 /\ Wanted(t) = Section(t).outer
      BY <2>2, <2>3
    <2>4. CASE /\ holds[t] = <<Section(t).outer>>
               /\ taken[t] < Len(Section(t).inner)
               /\ Wanted(t) = Section(t).inner[taken[t] + 1]
      <3>1. Section(t).outer \in Access
        BY <2>1 DEF Sections
      <3> QED  BY <1>2, <2>2, <2>4, <3>1, SecondAppended
    <2> QED  BY <1>1, <2>3, <2>4, WantedAt
  <1>7. AtItsPlace(t)'
    BY <1>4, <1>5, <1>6 DEF AtItsPlace
  <1> QED  BY <1>2, <1>3, <1>7, StepOfOne

\* A writer that joins the queue.
LEMMA WaitKeeps ==
    ASSUME LockInv, NEW t \in Threads, Wait(t)
    PROVE  LockInv'
  <1>1. /\ rest' = rest /\ holds' = holds /\ taken' = taken /\ calls' = calls
        /\ queued' = queued \cup {t} /\ Locking(t) /\ Wanted(t).mode = "write"
    BY DEF Wait
  <1>2. \A u \in Threads : /\ AtItsPlace(u)' <=> AtItsPlace(u)
                           /\ Locking(u)' <=> Locking(u)
                           /\ Wanted(u)' = Wanted(u)
    BY <1>1, OthersStay
  <1> QED  BY <1>1, <1>2 DEF LockInv

\* The end of an inner lock.
LEMMA ReleaseInnerKeeps ==
    ASSUME LockInv, NEW t \in Threads, ReleaseInner(t)
    PROVE  LockInv'
  <1>1. AtItsPlace(t) /\ Len(holds[t]) = 2
    BY DEF LockInv, ReleaseInner
  <1>2. /\ Busy(t) /\ taken[t] < Len(Section(t).inner)
        /\ holds[t] = <<Section(t).outer, Section(t).inner[taken[t] + 1]>>
    BY <1>1 DEF AtItsPlace
  <1>3. /\ rest[t] \in Seq(Sections) /\ taken[t] \in Nat
        /\ Section(t).outer \in Access /\ Section(t).inner \in Seq(Access)
    <2>1. rest[t] \in Seq(Sections) /\ rest[t] # <<>> /\ taken[t] \in Nat
      BY <1>2 DEF LockInv, Busy
    <2>2. Section(t) \in Sections
      BY <2>1 DEF Section
    <2> QED  BY <2>1, <2>2 DEF Sections
  <1>4. /\ rest' = [rest EXCEPT ![t] = rest[t]]
        /\ taken' = [taken EXCEPT ![t] = taken[t] + 1]
        /\ holds' = [holds EXCEPT ![t] = <<Section(t).outer>>]
        /\ queued' = queued /\ calls' \in Nat
    BY <1>2 DEF ReleaseInner, LockInv
  <1>5. t \notin queued
    <2>1. Len(<<>>) = 0
      OBVIOUS
    <2>2. ~Locking(t)
      BY <1>1, <2>1 DEF Locking
    <2> QED  BY <2>2 DEF LockInv
  <1>6. rest'[t] = rest[t] /\ taken'[t] = taken[t] + 1 /\ holds'[t] = <<Section(t).outer>>
    BY <1>4 DEF LockInv
  <1>7. Busy(t)' /\ Section(t)' = Section(t)
    BY <1>2, <1>6 DEF Busy, Section
  <1>8. taken[t] + 1 <= Len(Section(t).inner) /\ taken[t] + 1 \in Nat
    BY <1>2, <1>3
  <1>9. AtItsPlace(t)'
    BY <1>6, <1>7, <1>8 DEF AtItsPlace
  <1>10. <<Section(t).outer>> \in Seq(Access)
    BY <1>3
  <1> QED  BY <1>3, <1>4, <1>5, <1>8, <1>9, <1>10, StepOfOne

\* The end of a section, and perhaps of the call.
LEMMA ReleaseOuterKeeps ==
    ASSUME LockInv, NEW t \in Threads, ReleaseOuter(t)
    PROVE  LockInv'
  <1>1. AtItsPlace(t) /\ holds[t] # <<>> /\ ~Locking(t) /\ rest[t] \in Seq(Sections)
    <2>1. Len(holds[t]) = 1 /\ ~Locking(t)
      BY DEF ReleaseOuter
    <2>2. AtItsPlace(t) /\ rest[t] \in Seq(Sections)
      BY DEF LockInv
    <2>3. Len(<<>>) = 0
      OBVIOUS
    <2>4. holds[t] # <<>>
      BY <2>1, <2>3
    <2> QED  BY <2>1, <2>2, <2>4
  <1>2. rest[t] # <<>>
    BY <1>1 DEF AtItsPlace, Busy
  <1>3. PICK r \in Seq(Sections) : rest' = [rest EXCEPT ![t] = r]
    <2>1. Tail(rest[t]) \in Seq(Sections) /\ <<>> \in Seq(Sections)
      BY <1>1, <1>2
    <2> QED  BY <2>1 DEF ReleaseOuter
  <1>4. /\ taken' = [taken EXCEPT ![t] = 0] /\ holds' = [holds EXCEPT ![t] = <<>>]
        /\ queued' = queued /\ calls' \in Nat
    BY DEF ReleaseOuter, LockInv
  <1>5. t \notin queued
    BY <1>1 DEF LockInv
  <1>6. AtItsPlace(t)'
    BY <1>4 DEF AtItsPlace, LockInv
  <1>7. <<>> \in Seq(Access) /\ 0 \in Nat
    OBVIOUS
  <1> QED  BY <1>3, <1>4, <1>5, <1>6, <1>7, StepOfOne

\* So the invariant is inductive.
LEMMA NextLockInv == LockInv /\ [Next]_vars => LockInv'
  <1> SUFFICES ASSUME LockInv, [Next]_vars PROVE LockInv'
    OBVIOUS
  <1>1. CASE UNCHANGED vars
    <2>1. /\ rest' = rest /\ holds' = holds /\ taken' = taken
          /\ queued' = queued /\ calls' = calls
      BY <1>1 DEF vars
    <2>2. \A u \in Threads : /\ AtItsPlace(u)' <=> AtItsPlace(u)
                             /\ Locking(u)' <=> Locking(u)
                             /\ Wanted(u)' = Wanted(u)
      BY <2>1, OthersStay
    <2> QED  BY <2>1, <2>2 DEF LockInv
  <1>2. CASE Next
    <2>1. PICK t \in Threads : Call(t) \/ Step(t)
      BY <1>2 DEF Next
    <2> QED  BY <2>1, CallKeeps, AcquireKeeps, WaitKeeps, ReleaseInnerKeeps,
                ReleaseOuterKeeps DEF Step
  <1> QED  BY <1>1, <1>2

-----------------------------------------------------------------------------
(* What follows from it.                                                     *)

\* Locks are asked for in the order of POL-010.
LEMMA InvInOrder == LockInv => LocksInOrder
  <1> SUFFICES ASSUME LockInv, NEW t \in Threads, Locking(t), NEW i \in DOMAIN holds[t]
               PROVE  Rank[holds[t][i].lock] < Rank[Wanted(t).lock]
    BY DEF LocksInOrder
  <1> QED  BY WantedAt

\* A set of ranks has a highest one.
LEMMA HighestRank ==
    ASSUME NEW S \in SUBSET (0 .. 4), S # {}
    PROVE  \E m \in S : \A n \in S : n <= m
  <1>1. CASE 4 \in S
    BY <1>1
  <1>2. CASE 4 \notin S /\ 3 \in S
    BY <1>2
  <1>3. CASE 4 \notin S /\ 3 \notin S /\ 2 \in S
    BY <1>3
  <1>4. CASE 4 \notin S /\ 3 \notin S /\ 2 \notin S /\ 1 \in S
    BY <1>4
  <1>5. CASE 4 \notin S /\ 3 \notin S /\ 2 \notin S /\ 1 \notin S
    <2>1. \A n \in S : n = 0
      BY <1>5
    <2>2. PICK m \in S : TRUE
      OBVIOUS
    <2> QED  BY <2>1, <2>2
  <1> QED  BY <1>1, <1>2, <1>3, <1>4, <1>5

\* Somebody has any lock that is not granted: the one who wants it, or a
\* writer in front of it, waits for a thread that has it.
LEMMA SomebodyHas ==
    ASSUME LockInv, NEW t \in Threads, Locking(t), ~Grantable(t),
           \A u \in queued : ~Grantable(u)
    PROVE  \E u \in Threads : \E i \in DOMAIN holds[u] :
              holds[u][i].lock = Wanted(t).lock
  <1>1. CASE \E u \in Threads : Has(u, Wanted(t).lock, {"read", "write"})
    BY <1>1 DEF Has
  <1>2. CASE \E u \in Threads : Has(u, Wanted(t).lock, {"write"})
    BY <1>2 DEF Has
  <1>3. CASE \E u \in queued \ {t} : Wanted(u).lock = Wanted(t).lock
    <2>1. PICK u \in queued : Wanted(u).lock = Wanted(t).lock
      BY <1>3
    <2>2. Wanted(u).mode = "write" /\ ~Grantable(u)
      BY DEF LockInv
    <2>3. \E v \in Threads : Has(v, Wanted(u).lock, {"read", "write"})
      BY <2>2 DEF Grantable
    <2> QED  BY <2>1, <2>3 DEF Has
  <1> QED  BY <1>1, <1>2, <1>3 DEF Grantable

\* Among the threads in a call, the one that wants the lock of the highest
\* rank cannot be waiting for another that waits too.
LEMMA InvNoDeadlock == LockInv => NoDeadlock
  <1> SUFFICES ASSUME LockInv, NEW b \in Threads, Busy(b),
                      \A t \in Threads : ~CanGoOn(t)
               PROVE  FALSE
    BY DEF NoDeadlock
  <1> DEFINE S == {Rank[Wanted(t).lock] : t \in {u \in Threads : Busy(u)}}
  <1>1. \A t \in Threads : Busy(t) => Locking(t) /\ ~Grantable(t)
    BY DEF CanGoOn
  <1>2. S \in SUBSET (0 .. 4) /\ S # {}
    <2>1. \A t \in Threads : Busy(t) => Wanted(t).lock \in LockNames
      BY <1>1, WantedAt DEF Access
    <2>2. \A lock \in LockNames : Rank[lock] \in 0 .. 4
      BY DEF LockNames, Rank
    <2> QED  BY <2>1, <2>2
  <1>3. PICK t \in Threads :
            Busy(t) /\ \A u \in Threads : Busy(u) => Rank[Wanted(u).lock] <= Rank[Wanted(t).lock]
    BY <1>2, HighestRank
  <1>4. \A u \in queued : ~Grantable(u)
    BY <1>1 DEF LockInv, Locking
  <1>5. PICK u \in Threads :
            \E i \in DOMAIN holds[u] : holds[u][i].lock = Wanted(t).lock
    BY <1>1, <1>3, <1>4, SomebodyHas
  <1>6. Busy(u)
    BY <1>5 DEF LockInv, AtItsPlace
  <1>7. Rank[Wanted(t).lock] < Rank[Wanted(u).lock]
    BY <1>1, <1>5, <1>6, InvInOrder DEF LocksInOrder
  <1>8. Rank[Wanted(t).lock] \in Int /\ Rank[Wanted(u).lock] \in Int
    BY <1>2, <1>3, <1>6
  <1> QED  BY <1>3, <1>6, <1>7, <1>8

\* The invariant, of every behaviour.
THEOREM LockInvariant == Spec => []LockInv
  BY InitLockInv, NextLockInv, PTL DEF Spec

\* Every method of Mempool takes its locks in the order of POL-010, whatever
\* the number of threads.
THEOREM LocksInOrderTheorem == Spec => []LocksInOrder
  BY LockInvariant, InvInOrder, PTL

\* And so no calls ever wait for each other, with locks on which readers wait
\* for the writers before them.
THEOREM NoDeadlockTheorem == Spec => []NoDeadlock
  BY LockInvariant, InvNoDeadlock, PTL
=============================================================================
