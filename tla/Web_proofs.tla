---------------------------- MODULE Web_proofs ----------------------------
(***************************************************************************)
(* Theorems about the web app and the parts that the runs check together:  *)
(* the cache (TimedCache), for any threads, keys and lifetimes, and any    *)
(* length of a query and of the clock's run; the CSV download (Export),    *)
(* for days of any length, pages and chunks of any size, and any number of *)
(* writes and faults meanwhile; the views of the pings (PingCharts), from  *)
(* the theorems of PingCharts_proofs; the list of restarts (RestartPanel), *)
(* for any requests and limits, and any number of restarts and reloads;    *)
(* and the admin form (AdminPage), for any browsers and number of changes. *)
(***************************************************************************)
EXTENDS MCWeb, FiniteSets, Sequences, SequenceTheorems, FiniteSetTheorems,
        WellFoundedInduction, TLAPS
-----------------------------------------------------------------------------
(* The cache *)

LEMMA InitCacheInv == Init => CacheInv
<1> SUFFICES ASSUME Init PROVE CacheInv
  OBVIOUS
<1>1. TypeOK
  BY CacheAssumption DEF Init, TypeOK
<1>2. LockInv /\ EntryInv /\ QueryInv
  BY CacheAssumption DEF Init, LockInv, EntryInv, QueryInv
<1> QED BY <1>1, <1>2 DEF CacheInv

\* Only Store writes an entry; the lock decides who is past the with statement.
LEMMA NextCacheInv == CacheInv /\ [Next]_vars => CacheInv'
<1> SUFFICES ASSUME CacheInv, [Next]_vars PROVE CacheInv'
  OBVIOUS
<1> USE CacheAssumption
<1>0. TypeOK /\ LockInv /\ EntryInv /\ QueryInv
  BY DEF CacheInv
<1>1. CASE Tick
  <2>1. TypeOK'
    BY <1>0, <1>1 DEF TypeOK, Tick
  <2>2. LockInv'
    BY <1>0, <1>1 DEF LockInv, Tick
  <2>3. EntryInv'
    BY <1>0, <1>1 DEF TypeOK, EntryInv, Tick
  <2>4. QueryInv'
    BY <1>0, <1>1 DEF TypeOK, QueryInv, Tick, Querying
  <2> QED BY <2>1, <2>2, <2>3, <2>4 DEF CacheInv
<1>2. ASSUME NEW t \in Threads, Request(t) PROVE CacheInv'
  <2>1. TypeOK'
    BY <1>0, <1>2 DEF TypeOK, Request
  <2>2. LockInv'
    BY <1>0, <1>2 DEF TypeOK, LockInv, Request
  <2>3. EntryInv'
    BY <1>0, <1>2 DEF EntryInv, Request
  <2>4. QueryInv'
    BY <1>0, <1>2 DEF TypeOK, QueryInv, Request
  <2> QED BY <2>1, <2>2, <2>3, <2>4 DEF CacheInv
<1>3. ASSUME NEW t \in Threads, Acquire(t) PROVE CacheInv'
  <2>1. TypeOK'
    BY <1>0, <1>3 DEF TypeOK, Acquire
  <2>2. LockInv'
    BY <1>0, <1>3 DEF TypeOK, LockInv, Acquire
  <2>3. EntryInv'
    BY <1>0, <1>3 DEF EntryInv, Acquire
  <2>4. QueryInv'
    BY <1>0, <1>3 DEF TypeOK, QueryInv, Acquire
  <2> QED BY <2>1, <2>2, <2>3, <2>4 DEF CacheInv
<1>4. ASSUME NEW t \in Threads, Look(t) PROVE CacheInv'
  <2>0. key[t] \in Keys /\ lock = t
    BY <1>0, <1>4 DEF TypeOK, LockInv, Look
  <2>1. TypeOK'
    BY <1>0, <1>4, <2>0 DEF TypeOK, Look, Fresh
  <2>2. LockInv'
    BY <1>0, <1>4, <2>0 DEF TypeOK, LockInv, Look
  <2>3. EntryInv'
    BY <1>0, <1>4, <2>0 DEF TypeOK, EntryInv, Look, Fresh
  <2>4. QueryInv'
    <3> SUFFICES ASSUME NEW s \in Threads, pc'[s] \in {"query", "store"}
                 PROVE (/\ begun <= now /\ now <= begun + MaxQuery
                        /\ pc[s] = "store" => begun <= got[s] /\ got[s] <= now
                        /\ \A k \in Keys : entries[k] # Never => entries[k].at <= begun)'
      BY DEF QueryInv
    <3>1. s = t /\ pc'[t] = "query" /\ begun' = now
      BY <1>0, <1>4, <2>0 DEF TypeOK, LockInv, Look
    <3> QED BY <1>0, <1>4, <3>1 DEF TypeOK, EntryInv, Look
  <2> QED BY <2>1, <2>2, <2>3, <2>4 DEF CacheInv
<1>5. ASSUME NEW t \in Threads, Query(t) PROVE CacheInv'
  <2>0. lock = t
    BY <1>0, <1>5 DEF LockInv, Query
  <2>1. TypeOK'
    BY <1>0, <1>5 DEF TypeOK, Query
  <2>2. LockInv'
    BY <1>0, <1>5, <2>0 DEF TypeOK, LockInv, Query
  <2>3. EntryInv'
    BY <1>0, <1>5 DEF EntryInv, Query
  <2>4. QueryInv'
    BY <1>0, <1>5, <2>0 DEF TypeOK, LockInv, QueryInv, Query
  <2> QED BY <2>1, <2>2, <2>3, <2>4 DEF CacheInv
<1>6. ASSUME NEW t \in Threads, Store(t) PROVE CacheInv'
  <2>0. /\ key[t] \in Keys /\ lock = t
        /\ got[t] <= now /\ begun <= got[t] /\ now <= begun + MaxQuery
    BY <1>0, <1>6 DEF TypeOK, LockInv, QueryInv, Store
  <2>1. TypeOK'
    BY <1>0, <1>6, <2>0 DEF TypeOK, Store, Stamp
  <2>2. LockInv'
    BY <1>0, <1>6, <2>0 DEF TypeOK, LockInv, Store
  <2>3. EntryInv'
    BY <1>0, <1>6, <2>0 DEF TypeOK, EntryInv, Store, Stamp
  <2>4. QueryInv'
    BY <1>0, <1>6, <2>0 DEF TypeOK, LockInv, QueryInv, Store
  <2> QED BY <2>1, <2>2, <2>3, <2>4 DEF CacheInv
<1>7. CASE UNCHANGED vars
  BY <1>7 DEF vars, CacheInv, TypeOK, LockInv, EntryInv, QueryInv
<1> QED BY <1>1, <1>2, <1>3, <1>4, <1>5, <1>6, <1>7 DEF Next, Holding

\* A step of the app is a step of the cache, or leaves it alone.
LEMMA CacheSteps == [PartNext]_partVars => [Next]_vars
BY DEF PartNext, Caching, partVars

LEMMA CacheInvariant == PartSpec => []CacheInv
<1>1. PartInit => CacheInv
  BY InitCacheInv DEF PartInit
<1> QED BY <1>1, CacheSteps, NextCacheInv, PTL DEF PartSpec

\* Every variable of the cache keeps its type.
THEOREM TypeCorrect == PartSpec => []TypeOK
<1>1. CacheInv => TypeOK
  BY DEF CacheInv
<1> QED BY <1>1, CacheInvariant, PTL

\* The lock is held across the query: there is one query at a time.
THEOREM QueriesAreShared == PartSpec => []OneQueryAtATime
<1>1. CacheInv => OneQueryAtATime
  BY DEF CacheInv, LockInv, OneQueryAtATime
<1> QED BY <1>1, CacheInvariant, PTL

\* An answer is younger than its key's lifetime and one query, whether it comes
\* from the cache or from the query.
THEOREM AnswersRecent == PartSpec => AnswersAreRecent
<1>1. CacheInv /\ [Next]_vars =>
        [\A t \in Threads : Answered(t) => now < shown'[key[t]] + Ttl[key[t]] + MaxQuery]_vars
  <2> SUFFICES ASSUME CacheInv, Next, NEW t \in Threads, Answered(t)
               PROVE now < shown'[key[t]] + Ttl[key[t]] + MaxQuery
    OBVIOUS
  <2> USE CacheAssumption
  <2>0. TypeOK /\ LockInv /\ EntryInv /\ QueryInv
    BY DEF CacheInv
  <2>1. Look(t) \/ Store(t)
    <3>1. \A s \in Threads : (Request(s) \/ Acquire(s) \/ Holding(s)) => pc'[t] = pc[t] \/ s = t
      BY <2>0 DEF TypeOK, Request, Acquire, Holding, Look, Query, Store
    <3>2. ~Tick
      BY DEF Answered, Tick
    <3>3. Request(t) \/ Acquire(t) \/ Holding(t)
      BY <3>1, <3>2 DEF Next, Answered
    <3> QED BY <3>3 DEF Answered, Request, Acquire, Holding, Query
  <2>2. CASE Look(t)
    <3>1. Fresh(key[t]) /\ shown'[key[t]] = entries[key[t]].value
      BY <2>0, <2>2 DEF TypeOK, Look, Answered
    <3> QED BY <2>0, <3>1 DEF TypeOK, EntryInv, Fresh
  <2>3. CASE Store(t)
    <3>1. shown'[key[t]] = got[t] /\ begun <= got[t] /\ now <= begun + MaxQuery
      BY <2>0, <2>3 DEF TypeOK, QueryInv, Store
    <3>2. /\ Ttl[key[t]] \in Nat /\ Ttl[key[t]] > 0
          /\ got[t] \in Nat /\ begun \in Nat /\ now \in Nat /\ MaxQuery \in Nat
      BY <2>0 DEF TypeOK
    <3> QED BY <3>1, <3>2
  <2> QED BY <2>1, <2>2, <2>3
<1> QED BY <1>1, CacheSteps, CacheInvariant, PTL DEF PartSpec, AnswersAreRecent

\* What a key shows never goes back in time: a query reads the database after
\* every entry there was had been stored.
THEOREM AnswersMonotonic == PartSpec => AnswersNeverGoBack
<1>1. CacheInv /\ [Next]_vars => [\A k \in Keys : shown[k] # Never => shown'[k] >= shown[k]]_vars
  <2> SUFFICES ASSUME CacheInv, Next, NEW k \in Keys, shown[k] # Never
               PROVE shown'[k] >= shown[k]
    OBVIOUS
  <2> USE CacheAssumption
  <2>0. TypeOK /\ LockInv /\ EntryInv /\ QueryInv
    BY DEF CacheInv
  <2>1. shown[k] \in Nat /\ entries[k] # Never /\ shown[k] = entries[k].value
    BY <2>0 DEF TypeOK, EntryInv
  <2>2. CASE UNCHANGED shown
    BY <2>1, <2>2
  <2>3. ASSUME NEW t \in Threads, Look(t) PROVE shown'[k] >= shown[k]
    BY <2>0, <2>1, <2>3 DEF TypeOK, Look
  <2>4. ASSUME NEW t \in Threads, Store(t) PROVE shown'[k] >= shown[k]
    <3>1. begun <= got[t] /\ entries[k].at <= begun /\ entries[k].value <= entries[k].at
      BY <2>0, <2>1, <2>4 DEF QueryInv, EntryInv, Store
    <3>2. shown'[k] \in {shown[k], got[t]}
      BY <2>0, <2>4 DEF TypeOK, Store
    <3> QED BY <2>0, <2>1, <3>1, <3>2 DEF TypeOK
  <2> QED BY <2>2, <2>3, <2>4 DEF Next, Tick, Request, Acquire, Holding, Query
<1> QED BY <1>1, CacheSteps, CacheInvariant, PTL DEF PartSpec, AnswersNeverGoBack

\* After a query has succeeded none for the same key begins within its lifetime.
THEOREM QueriesSpaced == PartSpec => QueriesAreSpaced
<1>1. CacheInv /\ [Next]_vars =>
        [\A t \in Threads :
           pc[t] = "look" /\ pc'[t] = "query" /\ stored[key[t]] # Never
             => now >= stored[key[t]] + Ttl[key[t]]]_vars
  <2> SUFFICES ASSUME CacheInv, Next, NEW t \in Threads,
                      pc[t] = "look", pc'[t] = "query", stored[key[t]] # Never
               PROVE now >= stored[key[t]] + Ttl[key[t]]
    OBVIOUS
  <2> USE CacheAssumption
  <2>0. TypeOK /\ EntryInv
    BY DEF CacheInv
  <2>1. ~Fresh(key[t])
    BY <2>0 DEF TypeOK, Next, Tick, Request, Acquire, Holding, Look, Query, Store
  <2> QED BY <2>0, <2>1 DEF TypeOK, EntryInv, Fresh
<1> QED BY <1>1, CacheSteps, CacheInvariant, PTL DEF PartSpec, QueriesAreSpaced


-----------------------------------------------------------------------------
(* The export's rows, in order *)

\* The export's copy of the standard module is the standard module.
LEMMA SameCardinality == \A S : CSV!Cardinality(S) = Cardinality(S)
BY DEF Cardinality, CSV!Cardinality

\* A set of naturals has a least.
LEMMA LeastOf ==
  ASSUME NEW S \in SUBSET Nat, S # {}
  PROVE  \E x \in S : \A y \in S : x <= y
<1>1. PICK x \in S : \A y \in S : ~(<<y, x>> \in OpToRel(<, Nat))
  BY NatLessThanWellFounded, WFMin
<1>2. \A y \in S : x <= y
  <2> TAKE y \in S
  <2>1. x \in Nat /\ y \in Nat
    OBVIOUS
  <2>2. ~(y < x)
    BY <1>1, <2>1 DEF OpToRel
  <2> QED BY <2>1, <2>2
<1> QED BY <1>1, <1>2

\* In a finite set of naturals there is one of each rank, and only one.
LEMMA RankExists ==
  ASSUME NEW S \in SUBSET Nat, IsFiniteSet(S), NEW i \in 1..Cardinality(S)
  PROVE  \E t \in S : CSV!Rank(S, t) = i - 1
<1> DEFINE n == Cardinality(S)
           Below(t) == {s \in S : s < t}
           Missing == {k \in 1..n : \A t \in S : CSV!Rank(S, t) # k - 1}
<1>0. n \in Nat /\ \A t : IsFiniteSet(Below(t)) /\ Cardinality(Below(t)) \in Nat
  <2>1. \A t : Below(t) \in SUBSET S
    OBVIOUS
  <2> QED BY <2>1, FS_CardinalityType, FS_Subset
<1> SUFFICES ASSUME Missing # {} PROVE FALSE
  BY DEF Missing
<1>1. PICK k \in Missing : \A j \in Missing : k <= j
  <2>1. Missing \in SUBSET Nat
    BY <1>0
  <2> HIDE DEF Missing
  <2> QED BY <2>1, LeastOf
<1>2. k \in 1..n /\ \A t \in S : CSV!Rank(S, t) # k - 1
  BY <1>1
<1>3. CASE k = 1
  <2>1. S # {}
    BY <1>0, <1>2, FS_EmptySet
  <2>2. PICK x \in S : \A y \in S : x <= y
    BY <2>1, LeastOf
  <2>3. Below(x) = {}
    <3> SUFFICES ASSUME NEW s \in S, s < x PROVE FALSE
      OBVIOUS
    <3>1. s \in Nat /\ x \in Nat /\ x <= s
      BY <2>2
    <3> QED BY <3>1
  <2>4. CSV!Rank(S, x) = 0
    BY <2>3, FS_EmptySet, SameCardinality DEF CSV!Rank
  <2> QED BY <1>2, <1>3, <2>4
<1>4. CASE k > 1
  <2>1. k - 1 \in 1..n /\ k - 1 \notin Missing
    BY <1>0, <1>1, <1>2, <1>4
  <2>2. PICK t \in S : CSV!Rank(S, t) = k - 2
    BY <2>1, <1>0, <1>2
  <2> DEFINE Above == {s \in S : s > t}
  <2>3. IsFiniteSet(Below(t) \cup {t}) /\ Cardinality(Below(t) \cup {t}) = k - 1
    <3>1. t \notin Below(t) /\ IsFiniteSet(Below(t)) /\ Cardinality(Below(t)) = k - 2
      BY <1>0, <2>2, SameCardinality DEF CSV!Rank
    <3> HIDE DEF Below
    <3> QED BY <3>1, FS_AddElement, <1>0, <1>2
  <2>4. Above # {}
    <3> SUFFICES ASSUME Above = {} PROVE FALSE
      OBVIOUS
    <3>1. S = Below(t) \cup {t}
      <4> SUFFICES ASSUME NEW s \in S PROVE s < t \/ s = t
        OBVIOUS
      <4>1. s \in Nat /\ t \in Nat /\ ~(s > t)
        OBVIOUS
      <4> QED BY <4>1
    <3> QED BY <1>0, <1>2, <2>3, <3>1
  <2>5. PICK u \in Above : \A y \in Above : u <= y
    BY <2>4, LeastOf
  <2>6. Below(u) = Below(t) \cup {t}
    <3> SUFFICES ASSUME NEW s \in S PROVE s < u <=> s < t \/ s = t
      BY <2>5
    <3>1. s \in Nat /\ t \in Nat /\ u \in Nat /\ t < u
      BY <2>5
    <3>2. s > t => u <= s
      BY <2>5
    <3> QED BY <3>1, <3>2
  <2>7. CSV!Rank(S, u) = k - 1
    BY <2>3, <2>6, SameCardinality DEF CSV!Rank
  <2> QED BY <1>2, <2>5, <2>7
<1> QED BY <1>0, <1>2, <1>3, <1>4

\* The greater has the higher rank.
LEMMA RankGrows ==
  ASSUME NEW S \in SUBSET Nat, IsFiniteSet(S), NEW t \in S, NEW u \in S, t < u
  PROVE  CSV!Rank(S, t) \in Nat /\ CSV!Rank(S, u) \in Nat /\ CSV!Rank(S, t) < CSV!Rank(S, u)
<1> DEFINE A == {s \in S : s < t}
           B == {s \in S : s < u}
<1>1. A \in SUBSET B /\ B \in SUBSET S /\ A # B
  <2>1. t \in B /\ t \notin A
    OBVIOUS
  <2>2. A \in SUBSET B
    <3> SUFFICES ASSUME NEW s \in A PROVE s \in B
      OBVIOUS
    <3>1. s \in Nat /\ t \in Nat /\ u \in Nat /\ s \in S /\ s < t
      OBVIOUS
    <3> QED BY <3>1
  <2> QED BY <2>1, <2>2
<1>2. IsFiniteSet(B)
  BY <1>1, FS_Subset
<1>3. IsFiniteSet(A) /\ Cardinality(A) <= Cardinality(B) /\ Cardinality(A) # Cardinality(B)
  BY <1>1, <1>2, FS_Subset
<1>4. Cardinality(A) \in Nat /\ Cardinality(B) \in Nat
  BY <1>2, <1>3, FS_CardinalityType
<1> QED BY <1>3, <1>4, SameCardinality DEF CSV!Rank

\* The rows of an export are those of its days: every one of them, once, the
\* earlier before the later.
THEOREM RowsOnceInOrder ==
  ASSUME NEW S \in SUBSET Nat, IsFiniteSet(S)
  PROVE  /\ CSV!InOrder(S) \in Seq(S) /\ Len(CSV!InOrder(S)) = Cardinality(S)
         /\ \A i, j \in 1..Cardinality(S) : i < j => CSV!InOrder(S)[i] < CSV!InOrder(S)[j]
         /\ \A t \in S : \E i \in 1..Cardinality(S) : CSV!InOrder(S)[i] = t
<1> DEFINE n == Cardinality(S)
           f == CSV!InOrder(S)
<1>1. n \in Nat
  BY FS_CardinalityType
<1>2. \A i \in 1..n : f[i] \in S /\ CSV!Rank(S, f[i]) = i - 1
  <2> TAKE i \in 1..n
  <2>1. \E t \in S : CSV!Rank(S, t) = i - 1
    BY RankExists
  <2>2. f[i] = CHOOSE t \in S : CSV!Rank(S, t) = i - 1
    BY SameCardinality DEF CSV!InOrder
  <2> QED BY <2>1, <2>2
<1>3. f \in [1..n -> S]
  BY <1>2, SameCardinality DEF CSV!InOrder
<1>4. f \in Seq(S) /\ Len(f) = n
  BY <1>1, <1>3, SeqDef, LenProperties
<1>5. \A i, j \in 1..n : i < j => f[i] < f[j]
  <2> SUFFICES ASSUME NEW i \in 1..n, NEW j \in 1..n, i < j, ~(f[i] < f[j]) PROVE FALSE
    OBVIOUS
  <2>1. PICK a \in S, b \in S : a = f[i] /\ b = f[j] /\ CSV!Rank(S, a) = i - 1 /\ CSV!Rank(S, b) = j - 1
    BY <1>2
  <2>2. a = b \/ b < a
    BY <2>1
  <2>3. ~(b < a)
    BY <2>1, RankGrows, <1>1
  <2>4. i - 1 = j - 1
    BY <2>1, <2>2, <2>3
  <2> QED BY <2>4, <1>1
<1>6. \A t \in S : \E i \in 1..n : f[i] = t
  <2> SUFFICES ASSUME NEW t \in S PROVE \E i \in 1..n : f[i] = t
    OBVIOUS
  <2> DEFINE Below == {s \in S : s < t}
  <2>1. Below \in SUBSET S /\ Below # S
    OBVIOUS
  <2>2. IsFiniteSet(Below) /\ Cardinality(Below) <= n /\ Cardinality(Below) # n
    BY <2>1, FS_Subset
  <2>3. Cardinality(Below) \in Nat /\ CSV!Rank(S, t) = Cardinality(Below)
    BY <2>2, FS_CardinalityType, SameCardinality DEF CSV!Rank
  <2>4. PICK r \in Nat : r = CSV!Rank(S, t) /\ r < n
    BY <1>1, <2>2, <2>3
  <2>5. r + 1 \in 1..n
    BY <1>1, <2>4
  <2>6. f[r + 1] \in S /\ CSV!Rank(S, f[r + 1]) = r
    BY <1>2, <2>5
  <2>7. f[r + 1] = t
    <3>1. PICK u \in S : u = f[r + 1] /\ CSV!Rank(S, u) = r
      BY <2>6
    <3>2. ~(u < t) /\ ~(t < u)
      BY <2>4, <3>1, RankGrows
    <3>3. u \in Nat /\ t \in Nat
      OBVIOUS
    <3> QED BY <3>1, <3>2, <3>3
  <2> QED BY <2>5, <2>7
<1> QED BY <1>1, <1>4, <1>5, <1>6

\* An instant is in a day's interval exactly when division says it is that day.
LEMMA DayOf ==
  ASSUME NEW d \in Nat, NEW n \in Nat \ {0}, NEW t \in Nat
  PROVE  /\ d * n <= t <=> d <= t \div n
         /\ t < (d + 1) * n <=> t \div n <= d
<1>1. t \div n \in Nat /\ t % n \in 0..(n - 1) /\ t = n * (t \div n) + (t % n)
  OBVIOUS
<1> QED BY <1>1

LEMMA TableFinite ==
  ASSUME CSV!ExportAssumption
  PROVE  CSV!Instants \in SUBSET Nat /\ IsFiniteSet(CSV!Instants)
<1>1. (LastDay + 1) * DayLength - 1 \in Int
  BY DEF CSV!ExportAssumption
<1> QED BY <1>1, FS_Interval DEF CSV!Instants

\* What the query's condition asks for is the days that were wanted for.
LEMMA RangeIsItsDays ==
  ASSUME CSV!ExportAssumption, NEW day1 \in CSV!Days, NEW day2 \in CSV!Days,
         NEW S \in SUBSET CSV!Instants
  PROVE  {t \in S : CSV!InRange(day1, day2, t)} = {t \in S : t \div DayLength \in day1..day2}
<1> SUFFICES ASSUME NEW t \in S
             PROVE CSV!InRange(day1, day2, t) <=> t \div DayLength \in day1..day2
  OBVIOUS
<1>1. t \in Nat /\ day1 \in Nat /\ day2 \in Nat /\ DayLength \in Nat \ {0}
  BY TableFinite DEF CSV!ExportAssumption, CSV!Days
<1>2. t \div DayLength \in Int
  BY <1>1
<1>3. /\ CSV!RangeStart(day1) <= t <=> day1 <= t \div DayLength
      /\ t < CSV!RangeEnd(day2) <=> t \div DayLength <= day2
  BY <1>1, DayOf DEF CSV!RangeStart, CSV!RangeEnd
<1> QED BY <1>1, <1>2, <1>3 DEF CSV!InRange

\* What is fetched and what stays are together what there was.
LEMMA Cut ==
  ASSUME NEW T, NEW s \in Seq(T), NEW n \in Nat \ {0}
  PROVE  /\ CSV!Upto(n, s) \in Seq(T) /\ Len(CSV!Upto(n, s)) <= n
         /\ CSV!From(n, s) \in Seq(T) /\ CSV!Upto(n, s) \o CSV!From(n, s) = s
<1>a. PICK len \in Nat : len = Len(s) /\ DOMAIN s = 1..len
  BY LenProperties
<1>0. PICK m \in 0..len : m = (IF len < n THEN len ELSE n) /\ m <= n /\ (m # n => m = len /\ len < n)
  BY <1>a
<1>1. \A i \in 1..len : s[i] \in T
  BY <1>a, ElementOfSeq
<1>2. CSV!Upto(n, s) \in Seq(T) /\ Len(CSV!Upto(n, s)) = m
  <2>1. SubSeq(s, 1, m) \in Seq(T) /\ Len(SubSeq(s, 1, m)) = IF 1 <= m THEN m - 1 + 1 ELSE 0
    BY <1>0, <1>1, SubSeqProperties
  <2> QED BY <1>a, <1>0, <2>1 DEF CSV!Upto
<1>3. CSV!From(n, s) \in Seq(T) /\ CSV!From(n, s) = SubSeq(s, m + 1, len)
  <2>1. SubSeq(s, n + 1, Len(s)) \in Seq(T)
    BY <1>a, <1>1, SubSeqProperties
  <2>2. CASE m = n
    BY <1>a, <2>1, <2>2 DEF CSV!From
  <2>3. CASE m # n
    <3>1. len < n + 1 /\ len < m + 1
      BY <1>0, <2>3
    <3>2. SubSeq(s, n + 1, len) = <<>> /\ SubSeq(s, m + 1, len) = <<>>
      BY <3>1, SubSeqEmpty
    <3> QED BY <1>a, <2>1, <3>2 DEF CSV!From
  <2> QED BY <2>2, <2>3
<1>4. SubSeq(s, 1, m) \o SubSeq(s, m + 1, len) = s
  <2>1. 1 \in 1..len + 1 /\ m \in 1 - 1..len /\ len \in m..len
    OBVIOUS
  <2>2. SubSeq(s, 1, m) \o SubSeq(s, m + 1, len) = SubSeq(s, 1, len)
    BY <1>a, <2>1, ConcatAdjacentSubSeq
  <2> QED BY <1>a, <2>2, SubSeqFull
<1> QED BY <1>a, <1>0, <1>2, <1>3, <1>4 DEF CSV!Upto

LEMMA PrefixOfConcat ==
  ASSUME NEW T, NEW s \in Seq(T), NEW t \in Seq(T)
  PROVE  CSV!IsPrefix(s, s \o t)
<1>1. Len(s) \in Nat /\ Len(t) \in Nat /\ Len(s \o t) = Len(s) + Len(t)
  BY LenProperties, ConcatProperties
<1>2. CASE Len(s) = 0
  <2>1. SubSeq(s, 1, Len(s)) = <<>> /\ SubSeq(s \o t, 1, Len(s)) = <<>>
    BY <1>2, SubSeqEmpty
  <2> QED BY <1>1, <2>1 DEF CSV!IsPrefix
<1>3. CASE Len(s) # 0
  <2>1. SubSeq(s \o t, 1, Len(s)) = SubSeq(s, 1, Len(s))
    BY <1>1, <1>3, SubSeqOfConcat1
  <2> QED BY <1>1, <2>1 DEF CSV!IsPrefix
<1> QED BY <1>2, <1>3

-----------------------------------------------------------------------------
(* A download *)

LEMMA InitExportInv == ASSUME CSV!ExportAssumption, CSV!Init PROVE CSV!ExportInv
<1>1. \A T : <<>> \in Seq(T) /\ Len(<<>>) = 0
  BY EmptySeq
<1>2. <<CSV!Header>> \in Seq({CSV!Header})
  OBVIOUS
<1>3. CSV!IsPrefix(<<>>, <<CSV!Header>> \o <<>>)
  <2>1. <<>> \o (<<CSV!Header>> \o <<>>) = <<CSV!Header>>
    BY <1>1, <1>2, ConcatEmptySeq
  <2>2. CSV!IsPrefix(<<>>, <<>> \o <<CSV!Header>>)
    BY <1>1, <1>2, PrefixOfConcat
  <2> QED BY <1>1, <1>2, <2>1, <2>2, ConcatEmptySeq
<1> USE DEF CSV!Init, CSV!ExportAssumption
<1>4. CSV!TypeOK
  <2>1. 0 \in 0..MaxWrites /\ 0 \in 0..MaxErrors /\ 0 <= Page /\ 0 <= Chunk + 1
    OBVIOUS
  <2> QED BY <1>1, <2>1 DEF CSV!TypeOK
<1>5. CSV!RestInv /\ CSV!LinesInv /\ CSV!ChunkInv
  BY DEF CSV!RestInv, CSV!LinesInv, CSV!ChunkInv
<1>6. CSV!DownloadsAreSnapshots
  BY <1>1, <1>3
  DEF CSV!DownloadsAreSnapshots, CSV!WholeOrBeginning, CSV!ErrorsAreSaid, CSV!HoldsLittle,
     CSV!Lines
<1> QED BY <1>4, <1>5, <1>6 DEF CSV!ExportInv













StampsAndHeader == CSV!Instants \cup {CSV!Header}

LEMMA LinesTyped ==
  ASSUME CSV!TypeOK
  PROVE  /\ sent \in Seq(StampsAndHeader) /\ buffer \in Seq(StampsAndHeader)
         /\ page \in Seq(StampsAndHeader) /\ cursor \in Seq(StampsAndHeader)
         /\ whole \in Seq(StampsAndHeader) /\ <<CSV!Header>> \in Seq(StampsAndHeader)
         /\ Len(buffer) \in Nat /\ Len(page) \in Nat
         /\ CSV!Written \in Seq(StampsAndHeader) /\ CSV!Unread \in Seq(StampsAndHeader)
         /\ CSV!Lines \in Seq(StampsAndHeader)
<1>1. CSV!Instants \subseteq StampsAndHeader /\ CSV!Header \in StampsAndHeader
  BY DEF StampsAndHeader
<1>2. /\ sent \in Seq(StampsAndHeader) /\ buffer \in Seq(StampsAndHeader)
      /\ page \in Seq(CSV!Instants) /\ cursor \in Seq(CSV!Instants) /\ whole \in Seq(CSV!Instants)
  BY DEF CSV!TypeOK, StampsAndHeader
<1>3. /\ page \in Seq(StampsAndHeader) /\ cursor \in Seq(StampsAndHeader)
      /\ whole \in Seq(StampsAndHeader)
  BY <1>1, <1>2, SeqMonotonic
<1>4. <<CSV!Header>> \in Seq(StampsAndHeader)
  BY <1>1
<1>5. Len(buffer) \in Nat /\ Len(page) \in Nat
  BY <1>2, LenProperties
<1> QED BY <1>2, <1>3, <1>4, <1>5, ConcatProperties DEF CSV!Written, CSV!Unread, CSV!Lines

\* What breaks off is over, and was a beginning.
LEMMA FailKeepsInv ==
  ASSUME CSV!ExportAssumption, CSV!ExportInv, serving \in {"open", "pull"}, CSV!Fail,
         UNCHANGED <<table, CSV!request, whole, writes>>, errors' \in 0..MaxErrors
  PROVE  CSV!ExportInv'
<1> USE DEF CSV!ExportAssumption
<1>0. CSV!TypeOK /\ CSV!RestInv /\ CSV!ChunkInv /\ CSV!DownloadsAreSnapshots
  BY DEF CSV!ExportInv
<1>1. /\ serving' = "failed" /\ conn' = FALSE /\ status' = IF status = 0 THEN 500 ELSE status
      /\ cursor' = <<>> /\ page' = <<>> /\ buffer' = <<>>
      /\ table' = table /\ first' = first /\ last' = last /\ whole' = whole
      /\ writes' = writes /\ sent' = sent
  BY DEF CSV!Fail, CSV!request
<1>2. CSV!TypeOK'
  <2>1. \A T : <<>> \in Seq(T) /\ Len(<<>>) = 0
    BY EmptySeq
  <2>2. 0 <= Page /\ 0 <= Chunk + 1
    OBVIOUS
  <2>3. /\ cursor' \in Seq(CSV!Instants) /\ page' \in Seq(CSV!Instants) /\ Len(page') <= Page
        /\ buffer' \in Seq(CSV!Instants \cup {CSV!Header}) /\ Len(buffer') <= Chunk + 1
    BY <1>1, <2>1, <2>2, ZenonT(40)
  <2>4. status' \in {0, 200, 400, 500} /\ conn' \in BOOLEAN
    <3>1. status \in {0, 200, 400, 500} /\ conn' \in BOOLEAN
      BY <1>0, <1>1, Zenon DEF CSV!TypeOK
    <3>2. status' \in {status, 500}
      BY <1>1, Zenon
    <3> QED BY <3>1, <3>2
  <2> HIDE DEF CSV!ExportAssumption
  <2> QED BY <1>0, <1>1, <2>3, <2>4 DEF CSV!TypeOK
<1>3. CSV!RestInv' /\ CSV!LinesInv' /\ CSV!ChunkInv'
  <2>1. status \in {0, 200}
    BY <1>0 DEF CSV!RestInv, CSV!ChunkInv
  <2> QED BY <1>1, <2>1 DEF CSV!RestInv, CSV!LinesInv, CSV!ChunkInv
<1>4. CSV!DownloadsAreSnapshots'
  <2>1. (CSV!WholeOrBeginning)'
    BY <1>0, <1>1 DEF CSV!DownloadsAreSnapshots, CSV!WholeOrBeginning, CSV!Lines
  <2>2. CSV!ErrorsAreSaid'
    BY <1>0, <1>1 DEF CSV!ErrorsAreSaid, CSV!RestInv, CSV!ChunkInv
  <2>3. CSV!HoldsLittle'
    <3>1. Len(<<>>) = 0
      BY EmptySeq
    <3> QED BY <1>1, <3>1 DEF CSV!HoldsLittle
  <2> QED BY <2>1, <2>2, <2>3 DEF CSV!DownloadsAreSnapshots
<1> QED BY <1>2, <1>3, <1>4 DEF CSV!ExportInv

LEMMA ParseKeepsInv ==
  ASSUME CSV!ExportAssumption, CSV!ExportInv, CSV!Parse PROVE CSV!ExportInv'
<1>0. CSV!TypeOK /\ CSV!RestInv /\ CSV!LinesInv /\ CSV!ChunkInv /\ CSV!DownloadsAreSnapshots
  BY DEF CSV!ExportInv
<1>1. /\ serving = "idle" /\ serving' \in {"open", "done"} /\ status' \in {0, 400}
      /\ serving' = "open" => status' = 0 /\ first \in CSV!Days /\ last \in CSV!Days
      /\ serving' = "done" => status' = 400
  BY <1>0 DEF CSV!Parse, CSV!TypeOK, CSV!RestInv
<1>2. UNCHANGED <<table, CSV!request, conn, CSV!rows, buffer, sent, whole, writes, errors>>
  BY DEF CSV!Parse
<1>3. CSV!TypeOK'
  BY <1>0, <1>1, <1>2 DEF CSV!TypeOK, CSV!request, CSV!rows
<1>4. CSV!RestInv' /\ CSV!LinesInv' /\ CSV!ChunkInv'
  BY <1>0, <1>1, <1>2 DEF CSV!RestInv, CSV!LinesInv, CSV!ChunkInv, CSV!request, CSV!rows
<1>5. CSV!DownloadsAreSnapshots'
  BY <1>0, <1>1, <1>2
  DEF CSV!DownloadsAreSnapshots, CSV!WholeOrBeginning, CSV!ErrorsAreSaid, CSV!HoldsLittle,
      CSV!RestInv, CSV!Lines,
      CSV!request, CSV!rows
<1> QED BY <1>3, <1>4, <1>5 DEF CSV!ExportInv

LEMMA OpenKeepsInv ==
  ASSUME CSV!ExportAssumption, CSV!ExportInv, CSV!Open PROVE CSV!ExportInv'
<1>0. CSV!TypeOK /\ CSV!RestInv /\ CSV!LinesInv /\ CSV!ChunkInv /\ CSV!DownloadsAreSnapshots
  BY DEF CSV!ExportInv
<1>1. CASE CSV!Fail
  <2>1. errors' \in 0..MaxErrors
    BY <1>0, <1>1 DEF CSV!Open, CSV!Fail, CSV!Fault, CSV!TypeOK, CSV!ExportAssumption
  <2>2. serving = "open" /\ UNCHANGED <<table, CSV!request, whole, writes>>
    BY <1>1 DEF CSV!Open, CSV!Fail
  <2> QED BY <1>1, <2>1, <2>2, FailKeepsInv
<1>2. CASE ~CSV!Fail
  <2> DEFINE wanted == {t \in table : CSV!InRange(first, last, t)}
             held == {t \in table : t \div DayLength \in first..last}
  <2>1. /\ serving = "open" /\ cursor' = CSV!InOrder(wanted) /\ whole' = CSV!InOrder(held)
        /\ conn' = TRUE /\ serving' = "pull"
        /\ UNCHANGED <<page, buffer, status, sent, errors, table, CSV!request, writes>>
    BY <1>2 DEF CSV!Open
  <2>2. /\ status = 0 /\ sent = <<>> /\ buffer = <<>> /\ page = <<>>
        /\ first \in CSV!Days /\ last \in CSV!Days
    BY <1>0, <2>1 DEF CSV!RestInv
  <2>3. wanted = held
    BY <1>0, <2>2, RangeIsItsDays DEF CSV!TypeOK
  <2>4. wanted \in SUBSET Nat /\ IsFiniteSet(wanted) /\ wanted \subseteq CSV!Instants
    BY <1>0, TableFinite, FS_Subset DEF CSV!TypeOK
  <2> HIDE DEF wanted, held
  <2>5. whole' \in Seq(CSV!Instants) /\ cursor' = whole'
    <3>1. CSV!InOrder(wanted) \in Seq(wanted)
      BY <2>4, RowsOnceInOrder
    <3> QED BY <2>1, <2>3, <2>4, <3>1, SeqMonotonic
  <2>6. CSV!TypeOK'
    BY <1>0, <2>1, <2>5 DEF CSV!TypeOK, CSV!request
  <2>7. /\ sent' \o buffer' = <<>> /\ page' \o cursor' = whole'
    BY <2>1, <2>2, <2>5, EmptySeq, ConcatEmptySeq
  <2>8. Len(buffer') = 0 /\ Len(page') = 0
    BY <2>1, <2>2, EmptySeq
  <2>9. CSV!RestInv' /\ CSV!LinesInv' /\ CSV!ChunkInv'
    BY <2>1, <2>2, <2>7, <2>8
    DEF CSV!RestInv, CSV!LinesInv, CSV!ChunkInv, CSV!Written, CSV!Unread,
       CSV!ExportAssumption
  <2>10. CSV!DownloadsAreSnapshots'
    <3>1. <<CSV!Header>> \o whole' \in Seq(StampsAndHeader)
      <4>1. whole' \in Seq(StampsAndHeader) /\ <<CSV!Header>> \in Seq(StampsAndHeader)
        BY <2>5, SeqMonotonic DEF StampsAndHeader
      <4> QED BY <4>1, ConcatProperties
    <3>2. CSV!IsPrefix(<<>>, <<>> \o (<<CSV!Header>> \o whole'))
      BY <3>1, EmptySeq, PrefixOfConcat
    <3>3. <<>> \o (<<CSV!Header>> \o whole') = <<CSV!Header>> \o whole'
      BY <3>1, ConcatEmptySeq
    <3>4. CSV!WholeOrBeginning'
      BY <2>1, <2>2, <3>2, <3>3 DEF CSV!WholeOrBeginning, CSV!Lines
    <3>5. CSV!ErrorsAreSaid' /\ CSV!HoldsLittle'
      BY <2>1, <2>8 DEF CSV!ErrorsAreSaid, CSV!HoldsLittle, CSV!ExportAssumption
    <3> QED BY <3>4, <3>5 DEF CSV!DownloadsAreSnapshots
  <2> QED BY <2>6, <2>9, <2>10 DEF CSV!ExportInv
<1> QED BY <1>1, <1>2

LEMMA FetchKeepsInv ==
  ASSUME CSV!ExportAssumption, CSV!ExportInv, CSV!Fetch PROVE CSV!ExportInv'
<1>0. CSV!TypeOK /\ CSV!RestInv /\ CSV!LinesInv /\ CSV!ChunkInv /\ CSV!DownloadsAreSnapshots
  BY DEF CSV!ExportInv
<1>1. CASE CSV!Fail
  <2>1. errors' \in 0..MaxErrors
    BY <1>0, <1>1 DEF CSV!Fetch, CSV!Fail, CSV!Fault, CSV!TypeOK, CSV!ExportAssumption
  <2>2. serving = "pull" /\ UNCHANGED <<table, CSV!request, whole, writes>>
    BY <1>1 DEF CSV!Fetch, CSV!Fail
  <2> QED BY <1>1, <2>1, <2>2, FailKeepsInv
<1>2. CASE ~CSV!Fail
  <2>1. /\ serving = "pull" /\ page = <<>>
        /\ page' = CSV!Upto(Page, cursor) /\ cursor' = CSV!From(Page, cursor)
        /\ UNCHANGED <<serving, conn, buffer, status, sent, errors, table, CSV!request, whole, writes>>
    BY <1>2 DEF CSV!Fetch
  <2>2. /\ page' \in Seq(CSV!Instants) /\ cursor' \in Seq(CSV!Instants) /\ Len(page') <= Page
        /\ page' \o cursor' = cursor
    BY <1>0, <2>1, Cut DEF CSV!TypeOK, CSV!ExportAssumption
  <2>3. page \o cursor = cursor
    BY <1>0, <2>1, ConcatEmptySeq DEF CSV!TypeOK
  <2>4. CSV!TypeOK'
    BY <1>0, <2>1, <2>2 DEF CSV!TypeOK, CSV!request
  <2>5. CSV!LinesInv'
    BY <1>0, <2>1, <2>2, <2>3 DEF CSV!LinesInv, CSV!Written, CSV!Unread, CSV!Lines
  <2>6. CSV!RestInv' /\ CSV!ChunkInv'
    BY <1>0, <2>1 DEF CSV!RestInv, CSV!ChunkInv
  <2>7. CSV!HoldsLittle'
    <3>1. Len(page') \in Nat /\ Len(buffer) \in Nat /\ Len(buffer) < Chunk
      BY <1>0, <2>1, <2>2, LenProperties, LinesTyped DEF CSV!ChunkInv
    <3>2. Len(page') + Len(buffer) <= Page + Chunk
      BY <2>2, <3>1 DEF CSV!ExportAssumption
    <3> QED BY <2>1, <3>2 DEF CSV!HoldsLittle
  <2>8. CSV!WholeOrBeginning' /\ CSV!ErrorsAreSaid'
    BY <1>0, <2>1
    DEF CSV!DownloadsAreSnapshots, CSV!WholeOrBeginning, CSV!ErrorsAreSaid, CSV!Lines
  <2> QED BY <2>4, <2>5, <2>6, <2>7, <2>8 DEF CSV!ExportInv, CSV!DownloadsAreSnapshots
<1> QED BY <1>1, <1>2

\* The first row pulled takes the header with it, so the chunk is one line longer.
LEMMA PullKeepsInv ==
  ASSUME CSV!ExportAssumption, CSV!ExportInv, CSV!Pull PROVE CSV!ExportInv'
<1> USE DEF CSV!ExportAssumption
<1>0. CSV!TypeOK /\ CSV!RestInv /\ CSV!LinesInv /\ CSV!ChunkInv /\ CSV!DownloadsAreSnapshots
  BY DEF CSV!ExportInv
<1> DEFINE T == StampsAndHeader
           row == <<Head(page)>>
<1>1. /\ serving = "pull" /\ page # <<>> /\ buffer' = buffer \o CSV!Begin \o row
      /\ page' = Tail(page) /\ serving' = IF CSV!Full THEN "send" ELSE "pull"
      /\ UNCHANGED <<table, CSV!request, conn, cursor, status, sent, whole, writes, errors>>
  BY DEF CSV!Pull
<1>2. /\ sent \in Seq(T) /\ buffer \in Seq(T) /\ page \in Seq(T) /\ cursor \in Seq(T)
      /\ whole \in Seq(T) /\ <<CSV!Header>> \in Seq(T)
  BY <1>0, LinesTyped
<1>3. /\ Head(page) \in CSV!Instants /\ Tail(page) \in Seq(CSV!Instants)
      /\ Len(Tail(page)) = Len(page) - 1 /\ Len(page) \in Nat
  BY <1>0, <1>1, HeadTailProperties, LenProperties DEF CSV!TypeOK
<1>4. /\ Tail(page) \in Seq(T) /\ row \in Seq(T) /\ CSV!Begin \in Seq(T)
      /\ Len(row) = 1 /\ Len(CSV!Begin) = (IF status = 0 THEN 1 ELSE 0)
      /\ page = row \o Tail(page)
  <2>1. Tail(page) \in Seq(T) /\ row \in Seq(T) /\ Len(row) = 1
    BY <1>3, SeqMonotonic DEF StampsAndHeader
  <2>2. CSV!Begin \in Seq(T) /\ Len(CSV!Begin) = (IF status = 0 THEN 1 ELSE 0)
    BY <1>2, EmptySeq DEF CSV!Begin
  <2>3. page = row \o Tail(page)
    <3>1. PICK n \in Nat : n = Len(page) /\ n # 0
      BY <1>1, <1>3, <1>2, EmptySeq
    <3>2. Len(row \o Tail(page)) = n
      BY <1>3, <2>1, <3>1, ConcatProperties
    <3>3. \A i \in 1..n : (row \o Tail(page))[i] = page[i]
      <4> TAKE i \in 1..n
      <4>0. i \in 1..Len(row) + Len(Tail(page))
        BY <1>3, <2>1, <3>1
      <4>1. (row \o Tail(page))[i] = IF i <= Len(row) THEN row[i] ELSE Tail(page)[i - Len(row)]
        BY <2>1, <4>0, ConcatProperties
      <4>2. CASE i = 1
        BY <1>2, <2>1, <4>1, <4>2
      <4>3. CASE i # 1
        <5>1. i - 1 \in 1..Len(Tail(page))
          BY <1>3, <3>1, <4>3
        <5>2. Tail(page)[i - 1] = page[i - 1 + 1]
          BY <1>1, <1>2, <5>1, HeadTailProperties
        <5>3. i - 1 + 1 = i /\ ~(i <= 1)
          BY <4>3
        <5> QED BY <2>1, <4>1, <5>2, <5>3
      <4> QED BY <4>2, <4>3
    <3>4. row \o Tail(page) \in Seq(T)
      BY <2>1, ConcatProperties
    <3> QED BY <1>2, <3>1, <3>2, <3>3, <3>4, SeqEqual, SMTT(30)
  <2> QED BY <2>1, <2>2, <2>3
<1> HIDE DEF row, T
<1>5. /\ buffer' \in Seq(T)
      /\ Len(buffer') = Len(buffer) + Len(CSV!Begin) + 1
      /\ Len(buffer) \in Nat
  <2>1. /\ buffer \o CSV!Begin \in Seq(T)
        /\ Len(buffer \o CSV!Begin) = Len(buffer) + Len(CSV!Begin)
    BY <1>2, <1>4, ConcatProperties
  <2> QED BY <1>1, <1>2, <1>4, <2>1, ConcatProperties, LenProperties
<1>6. Len(buffer) < Chunk /\ (status = 0 => Len(buffer) = 0)
  BY <1>0, <1>1, EmptySeq DEF CSV!ChunkInv
<1>7. CSV!TypeOK'
  <2>1. Len(buffer') <= Chunk + 1
    BY <1>4, <1>5, <1>6
  <2>2. Len(page') <= Page
    BY <1>0, <1>1, <1>3 DEF CSV!TypeOK
  <2>3. serving' \in {"pull", "send"} /\ page' \in Seq(CSV!Instants)
    BY <1>1, <1>3
  <2> HIDE DEF CSV!ExportAssumption
  <2> QED BY <1>0, <1>1, <1>5, <2>1, <2>2, <2>3 DEF T, CSV!TypeOK, CSV!request, StampsAndHeader
<1>8. ~CSV!Full => Len(buffer') < Chunk
  BY <1>4, <1>5 DEF CSV!Full
<1>9. buffer' # <<>>
  BY <1>4, <1>5, EmptySeq
<1>10. CSV!RestInv' /\ CSV!ChunkInv'
  BY <1>0, <1>1, <1>8, <1>9 DEF CSV!RestInv, CSV!ChunkInv, CSV!Full
<1>11. CSV!LinesInv'
  <2>1. CSV!Written' \o CSV!Unread' = CSV!Lines
    <3>1. CSV!Written' = (CSV!Written \o CSV!Begin) \o row
      <4>1. ((sent \o buffer) \o CSV!Begin) \o row = sent \o ((buffer \o CSV!Begin) \o row)
        <5>1. sent \in Seq(T) /\ buffer \in Seq(T) /\ CSV!Begin \in Seq(T) /\ row \in Seq(T)
          BY <1>2, <1>4
        <5>2. buffer \o CSV!Begin \in Seq(T)
          BY ONLY <5>1, ConcatProperties
        <5>3. (sent \o buffer) \o CSV!Begin = sent \o (buffer \o CSV!Begin)
          BY ONLY <5>1, ConcatAssociative, SMTT(30)
        <5>4. PICK lines \in Seq(T) : lines = buffer \o CSV!Begin
          BY ONLY <5>2
        <5>5. (sent \o lines) \o row = sent \o (lines \o row)
          BY ONLY <5>1, ConcatAssociative, SMTT(30)
        <5> QED BY ONLY <5>3, <5>4, <5>5
      <4> QED BY <1>1, <4>1 DEF CSV!Written
    <3>2. CSV!Unread = row \o CSV!Unread'
      <4>1. (row \o Tail(page)) \o cursor = row \o (Tail(page) \o cursor)
        <5>1. row \in Seq(T) /\ Tail(page) \in Seq(T) /\ cursor \in Seq(T)
          BY <1>2, <1>4
        <5> QED BY ONLY <5>1, ConcatAssociative, SMTT(30)
      <4> QED BY <1>1, <1>4, <4>1 DEF CSV!Unread
    <3>3. /\ CSV!Written \in Seq(T)
          /\ CSV!Unread' \in Seq(T)
          /\ CSV!Written \o CSV!Begin \in Seq(T)
      BY <1>1, <1>2, <1>4, ConcatProperties DEF CSV!Written, CSV!Unread
    <3>4. CSV!Written' \o CSV!Unread' = (CSV!Written \o CSV!Begin) \o CSV!Unread
      <4>1. ((CSV!Written \o CSV!Begin) \o row) \o CSV!Unread' = (CSV!Written \o CSV!Begin) \o (row \o CSV!Unread')
        <5>1. /\ CSV!Written \o CSV!Begin \in Seq(T) /\ row \in Seq(T) /\ CSV!Unread' \in Seq(T)
          BY <1>4, <3>3
        <5> QED BY ONLY <5>1, ConcatAssociative, SMTT(30)
      <4> QED BY <3>1, <3>2, <4>1
    <3>5. CASE status = 0
      <4>1. sent = <<>> /\ buffer = <<>>
        BY <1>0, <1>1, <3>5 DEF CSV!ChunkInv
      <4>2. CSV!Written = <<>> /\ CSV!Written \o CSV!Begin = <<CSV!Header>>
        BY <1>2, <3>5, <4>1, ConcatEmptySeq DEF CSV!Written, CSV!Begin
      <4>3. CSV!Written \o CSV!Unread = CSV!Unread
        BY <1>2, <4>2, ConcatEmptySeq, ConcatProperties DEF CSV!Unread
      <4>4. CSV!Unread = whole
        BY <1>0, <1>1, <4>2, <4>3 DEF CSV!LinesInv
      <4> QED BY <3>4, <4>2, <4>4 DEF CSV!Lines
    <3>6. CASE status # 0
      <4>1. CSV!Written # <<>>
        <5>1. sent # <<>>
          BY <1>0, <1>1, <3>6 DEF CSV!ChunkInv
        <5> QED BY <1>2, <5>1, ConcatEqualIffEmpty DEF CSV!Written
      <4>2. CSV!Written \o CSV!Begin = CSV!Written
        BY <3>3, <3>6, ConcatEmptySeq DEF CSV!Begin
      <4> QED BY <1>0, <1>1, <3>4, <4>1, <4>2 DEF CSV!LinesInv
    <3> QED BY <3>5, <3>6
  <2>2. CSV!Written' # <<>>
    BY <1>1, <1>2, <1>5, <1>9, ConcatEqualIffEmpty DEF CSV!Written
  <2>3. CSV!Lines' = CSV!Lines
    BY <1>1 DEF CSV!Lines
  <2> QED BY <2>1, <2>2, <2>3 DEF CSV!LinesInv
<1>12. CSV!DownloadsAreSnapshots'
  <2>1. CSV!WholeOrBeginning' /\ CSV!ErrorsAreSaid'
    BY <1>0, <1>1
    DEF CSV!DownloadsAreSnapshots, CSV!WholeOrBeginning, CSV!ErrorsAreSaid, CSV!Lines
  <2>2. Len(page) + Len(buffer) <= Page + Chunk /\ Len(page) <= Page
    BY <1>0 DEF CSV!DownloadsAreSnapshots, CSV!HoldsLittle, CSV!TypeOK
  <2>3. Len(page') + Len(buffer') <= Page + Chunk
    BY <1>1, <1>3, <1>4, <1>5, <1>6, <2>2
  <2>4. CSV!HoldsLittle'
    BY <1>1, <2>3 DEF CSV!HoldsLittle
  <2> QED BY <2>1, <2>4 DEF CSV!DownloadsAreSnapshots
<1> QED BY <1>7, <1>10, <1>11, <1>12 DEF CSV!ExportInv

LEMMA ExhaustedKeepsInv ==
  ASSUME CSV!ExportAssumption, CSV!ExportInv, CSV!Exhausted PROVE CSV!ExportInv'
<1> USE DEF CSV!ExportAssumption
<1>0. CSV!TypeOK /\ CSV!RestInv /\ CSV!LinesInv /\ CSV!ChunkInv /\ CSV!DownloadsAreSnapshots
  BY DEF CSV!ExportInv
<1>1. /\ serving = "pull" /\ page = <<>> /\ cursor = <<>> /\ buffer' = buffer \o CSV!Begin
      /\ serving' = (IF buffer' = <<>> THEN "done" ELSE "send") /\ conn' = FALSE
      /\ UNCHANGED <<table, CSV!request, CSV!rows, status, sent, whole, writes, errors>>
  BY DEF CSV!Exhausted
<1>2. /\ sent \in Seq(StampsAndHeader) /\ buffer \in Seq(StampsAndHeader)
      /\ whole \in Seq(StampsAndHeader) /\ <<CSV!Header>> \in Seq(StampsAndHeader)
      /\ CSV!Written \in Seq(StampsAndHeader) /\ CSV!Lines \in Seq(StampsAndHeader)
      /\ Len(buffer) \in Nat
  BY <1>0, LinesTyped
<1>3. /\ CSV!Begin \in Seq(StampsAndHeader) /\ Len(CSV!Begin) = (IF status = 0 THEN 1 ELSE 0)
      /\ CSV!Begin = <<>> <=> status # 0
  BY <1>2, EmptySeq DEF CSV!Begin
<1>4. /\ buffer' \in Seq(StampsAndHeader) /\ Len(buffer') = Len(buffer) + Len(CSV!Begin)
      /\ buffer' = <<>> <=> buffer = <<>> /\ CSV!Begin = <<>>
  <2>1. buffer \in Seq(StampsAndHeader) /\ CSV!Begin \in Seq(StampsAndHeader)
    BY <1>2, <1>3
  <2>2. /\ buffer \o CSV!Begin \in Seq(StampsAndHeader)
        /\ Len(buffer \o CSV!Begin) = Len(buffer) + Len(CSV!Begin)
    BY ONLY <2>1, ConcatProperties
  <2>3. buffer \o CSV!Begin = <<>> <=> buffer = <<>> /\ CSV!Begin = <<>>
    BY ONLY <2>1, ConcatEqualIffEmpty
  <2> QED BY <1>1, <2>2, <2>3
<1>5. Len(buffer) < Chunk /\ (status = 0 => buffer = <<>> /\ Len(buffer) = 0)
  BY <1>0, <1>1, EmptySeq DEF CSV!ChunkInv
<1>6. Len(buffer') <= Chunk
  BY <1>2, <1>3, <1>4, <1>5
<1>7. CSV!Unread = <<>> /\ CSV!Unread' = <<>> /\ Len(page') = 0
  BY <1>1, EmptySeq, ConcatEmptySeq DEF CSV!Unread, CSV!rows
<1>8. CSV!TypeOK'
  <2>1. Len(buffer') <= Chunk + 1 /\ serving' \in {"done", "send"}
    BY <1>1, <1>2, <1>3, <1>4, <1>6
  <2>2. buffer' \in Seq(CSV!Instants \cup {CSV!Header})
    BY <1>4 DEF StampsAndHeader
  <2> HIDE DEF CSV!ExportAssumption
  <2>3. UNCHANGED <<table, first, last, cursor, page, status, sent, whole, writes, errors>>
    BY <1>1 DEF CSV!request, CSV!rows
  <2>4. conn' \in BOOLEAN
    BY <1>1
  <2> QED BY <1>0, <2>1, <2>2, <2>3, <2>4 DEF CSV!TypeOK
<1>9. CSV!Written = IF CSV!Written = <<>> THEN whole ELSE CSV!Lines
  BY <1>0, <1>1, <1>2, <1>7, ConcatEmptySeq DEF CSV!LinesInv
<1>10. CSV!Written' = CSV!Lines
  <2>1. CSV!Written' = CSV!Written \o CSV!Begin
    <3>1. (sent \o buffer) \o CSV!Begin = sent \o (buffer \o CSV!Begin)
      <4>1. /\ sent \in Seq(StampsAndHeader) /\ buffer \in Seq(StampsAndHeader)
            /\ CSV!Begin \in Seq(StampsAndHeader)
        BY <1>2, <1>3
      <4> QED BY ONLY <4>1, ConcatAssociative
    <3> QED BY <1>1, <3>1 DEF CSV!Written
  <2>2. CASE status = 0
    <3>1. CSV!Written = <<>>
      BY <1>0, <1>1, <1>2, <1>5, <2>2, ConcatEmptySeq DEF CSV!ChunkInv, CSV!Written
    <3>2. whole = <<>> /\ CSV!Begin = <<CSV!Header>>
      BY <1>9, <2>2, <3>1 DEF CSV!Begin
    <3> QED BY <1>2, <2>1, <3>1, <3>2, ConcatEmptySeq DEF CSV!Lines
  <2>3. CASE status # 0
    <3>1. sent # <<>>
      BY <1>0, <1>1, <2>3 DEF CSV!ChunkInv
    <3>2. CSV!Written # <<>>
      BY <1>2, <3>1, ConcatEqualIffEmpty DEF CSV!Written
    <3> QED BY <1>2, <1>3, <1>9, <2>1, <2>3, <3>2, ConcatEmptySeq
  <2> QED BY <2>2, <2>3
<1>11. CSV!Lines' = CSV!Lines /\ CSV!Lines # <<>>
  <2>1. <<CSV!Header>> # <<>>
    OBVIOUS
  <2> QED BY <1>1, <1>2, <2>1, ConcatEqualIffEmpty DEF CSV!Lines
<1>12. CSV!LinesInv'
  BY <1>2, <1>7, <1>10, <1>11, ConcatEmptySeq DEF CSV!LinesInv
<1>13. CSV!RestInv'
  BY <1>1 DEF CSV!RestInv
<1>14. CSV!ChunkInv'
  <2>1. status \in {0, 200} /\ (status = 0 <=> sent = <<>>)
    BY <1>0, <1>1 DEF CSV!ChunkInv
  <2>2. buffer' = <<>> => status = 200
    BY <1>3, <1>4, <2>1
  <2> QED BY <1>1, <1>7, <2>1, <2>2 DEF CSV!ChunkInv
<1>15. CSV!DownloadsAreSnapshots'
  <2>1. CSV!IsPrefix(sent, CSV!Lines) /\ CSV!ErrorsAreSaid
    BY <1>0 DEF CSV!DownloadsAreSnapshots, CSV!WholeOrBeginning
  <2>2. serving' = "done" => sent' = CSV!Lines
    <3> SUFFICES ASSUME buffer' = <<>> PROVE sent' = CSV!Lines
      BY <1>1
    <3>1. CSV!Written' = sent'
      BY <1>1, <1>2, ConcatEmptySeq DEF CSV!Written
    <3> QED BY <1>10, <3>1
  <2>3. CSV!WholeOrBeginning'
    BY <1>1, <1>11, <2>1, <2>2 DEF CSV!WholeOrBeginning
  <2>4. CSV!HoldsLittle'
    <3>1. Len(buffer') \in Nat
      BY <1>4, LenProperties
    <3>2. Len(page') + Len(buffer') <= Page + Chunk
      BY <1>6, <1>7, <3>1
    <3> QED BY <1>1, <3>2 DEF CSV!HoldsLittle
  <2> QED BY <1>1, <2>1, <2>3, <2>4 DEF CSV!DownloadsAreSnapshots, CSV!ErrorsAreSaid
<1> QED BY <1>8, <1>12, <1>13, <1>14, <1>15 DEF CSV!ExportInv

LEMMA SendKeepsInv ==
  ASSUME CSV!ExportAssumption, CSV!ExportInv, CSV!Send PROVE CSV!ExportInv'
<1> USE DEF CSV!ExportAssumption
<1>0. CSV!TypeOK /\ CSV!RestInv /\ CSV!LinesInv /\ CSV!ChunkInv /\ CSV!DownloadsAreSnapshots
  BY DEF CSV!ExportInv
<1>1. /\ serving = "send" /\ status' = 200 /\ sent' = sent \o buffer /\ buffer' = <<>>
      /\ serving' = IF conn THEN "pull" ELSE "done"
      /\ UNCHANGED <<table, CSV!request, conn, CSV!rows, whole, writes, errors>>
  BY DEF CSV!Send
<1>2. /\ sent \in Seq(StampsAndHeader) /\ buffer \in Seq(StampsAndHeader)
      /\ CSV!Written \in Seq(StampsAndHeader) /\ CSV!Unread \in Seq(StampsAndHeader)
      /\ Len(page) \in Nat
  BY <1>0, LinesTyped
<1>3. /\ sent' = CSV!Written
      /\ CSV!Written' = CSV!Written
      /\ CSV!Unread' = CSV!Unread
      /\ CSV!Lines' = CSV!Lines
  <2>1. CSV!Written \o <<>> = CSV!Written
    BY <1>2, ConcatEmptySeq
  <2> QED BY <1>1, <2>1 DEF CSV!Written, CSV!Unread, CSV!Lines, CSV!rows
<1>4. CSV!Written # <<>>
  BY <1>0, <1>1, <1>2, ConcatEqualIffEmpty DEF CSV!ChunkInv, CSV!Written
<1>5. CSV!Written \o CSV!Unread = CSV!Lines
  BY <1>0, <1>1, <1>4 DEF CSV!LinesInv
<1>6. \A T : <<>> \in Seq(T) /\ Len(<<>>) = 0
  BY EmptySeq
<1>7. CSV!TypeOK'
  <2>1. Len(buffer') <= Chunk + 1 /\ serving' \in {"done", "pull"}
    BY <1>1, <1>6
  <2>2. /\ buffer' \in Seq(CSV!Instants \cup {CSV!Header})
        /\ sent' \in Seq(CSV!Instants \cup {CSV!Header})
    BY <1>1, <1>2, <1>3, <1>6 DEF StampsAndHeader
  <2> HIDE DEF CSV!ExportAssumption
  <2> QED BY <1>0, <1>1, <2>1, <2>2 DEF CSV!TypeOK, CSV!request, CSV!rows
<1>8. CSV!RestInv' /\ CSV!LinesInv' /\ CSV!ChunkInv'
  <2>1. CSV!RestInv'
    BY <1>0, <1>1 DEF CSV!RestInv
  <2>2. CSV!LinesInv'
    BY <1>3, <1>4, <1>5 DEF CSV!LinesInv
  <2>3. CSV!ChunkInv'
    BY <1>1, <1>3, <1>4, <1>6 DEF CSV!ChunkInv
  <2> QED BY <2>1, <2>2, <2>3
<1>9. CSV!DownloadsAreSnapshots'
  <2>1. CSV!IsPrefix(sent', CSV!Lines')
    BY <1>2, <1>3, <1>5, PrefixOfConcat
  <2>2. serving' = "done" => sent' = CSV!Lines'
    <3> SUFFICES ASSUME ~conn PROVE sent' = CSV!Lines'
      BY <1>1
    <3>1. CSV!Unread = <<>>
      BY <1>0, <1>1 DEF CSV!ChunkInv
    <3> QED BY <1>2, <1>3, <1>5, <3>1, ConcatEmptySeq
  <2>3. CSV!HoldsLittle'
    <3>1. Len(page') = Len(page) /\ Len(buffer') = 0 /\ Len(page) <= Page
      BY <1>0, <1>1, <1>6 DEF CSV!TypeOK, CSV!rows
    <3>2. Len(page') + Len(buffer') <= Page + Chunk
      BY <1>2, <3>1
    <3> QED BY <1>1, <3>2 DEF CSV!HoldsLittle
  <2> QED
    BY <1>1, <2>1, <2>2, <2>3
    DEF CSV!DownloadsAreSnapshots, CSV!WholeOrBeginning, CSV!ErrorsAreSaid
<1> QED BY <1>7, <1>8, <1>9 DEF CSV!ExportInv

LEMMA AbandonKeepsInv ==
  ASSUME CSV!ExportAssumption, CSV!ExportInv, CSV!Abandon PROVE CSV!ExportInv'
<1>0. CSV!TypeOK /\ CSV!RestInv /\ CSV!LinesInv /\ CSV!ChunkInv /\ CSV!DownloadsAreSnapshots
  BY DEF CSV!ExportInv
<1>1. /\ status = 200 /\ serving' = "abandoned" /\ conn' = FALSE /\ errors' \in 0..MaxErrors
      /\ UNCHANGED <<table, CSV!request, CSV!rows, buffer, status, sent, whole, writes>>
  BY <1>0 DEF CSV!Abandon, CSV!Fault, CSV!TypeOK, CSV!ExportAssumption
<1>2. CSV!TypeOK'
  BY <1>0, <1>1 DEF CSV!TypeOK, CSV!request, CSV!rows
<1>3. CSV!RestInv' /\ CSV!LinesInv' /\ CSV!ChunkInv'
  BY <1>0, <1>1 DEF CSV!RestInv, CSV!LinesInv, CSV!ChunkInv
<1>4. CSV!DownloadsAreSnapshots'
  BY <1>0, <1>1
  DEF CSV!DownloadsAreSnapshots, CSV!WholeOrBeginning, CSV!ErrorsAreSaid, CSV!HoldsLittle,
      CSV!Lines, CSV!rows
<1> QED BY <1>2, <1>3, <1>4 DEF CSV!ExportInv

\* What the other services write changes nothing of a download under way.
LEMMA WriteKeepsInv ==
  ASSUME CSV!ExportAssumption, CSV!ExportInv, CSV!Write PROVE CSV!ExportInv'
<1>0. CSV!TypeOK /\ CSV!RestInv /\ CSV!LinesInv /\ CSV!ChunkInv /\ CSV!DownloadsAreSnapshots
  BY DEF CSV!ExportInv
<1>1. /\ UNCHANGED <<serving, CSV!request, conn, CSV!rows, buffer, status, sent, whole, errors>>
      /\ writes' \in 0..MaxWrites /\ table' \subseteq CSV!Instants
  BY <1>0 DEF CSV!Write, CSV!TypeOK, CSV!ExportAssumption
<1>2. CSV!TypeOK'
  BY <1>0, <1>1 DEF CSV!TypeOK, CSV!request, CSV!rows
<1>3. CSV!RestInv' /\ CSV!LinesInv' /\ CSV!ChunkInv'
  <2>1. CSV!RestInv'
    BY <1>0, <1>1 DEF CSV!RestInv, CSV!request, CSV!rows
  <2>2. CSV!Written' = CSV!Written /\ CSV!Unread' = CSV!Unread /\ CSV!Lines' = CSV!Lines
    BY <1>1 DEF CSV!Written, CSV!Unread, CSV!Lines, CSV!rows
  <2>3. CSV!LinesInv'
    BY <1>0, <1>1, <2>2 DEF CSV!LinesInv
  <2>4. CSV!ChunkInv'
    BY <1>0, <1>1, <2>2 DEF CSV!ChunkInv
  <2> QED BY <2>1, <2>3, <2>4
<1>4. CSV!DownloadsAreSnapshots'
  BY <1>0, <1>1
  DEF CSV!DownloadsAreSnapshots, CSV!WholeOrBeginning, CSV!ErrorsAreSaid, CSV!HoldsLittle,
      CSV!Lines, CSV!rows
<1> QED BY <1>2, <1>3, <1>4 DEF CSV!ExportInv

LEMMA StepKeepsInv ==
  ASSUME CSV!ExportAssumption, CSV!ExportInv, [CSV!Next]_CSV!vars PROVE CSV!ExportInv'
<1>1. CASE UNCHANGED CSV!vars
  <2>0. CSV!TypeOK /\ CSV!RestInv /\ CSV!LinesInv /\ CSV!ChunkInv /\ CSV!DownloadsAreSnapshots
    BY DEF CSV!ExportInv
  <2>1. CSV!TypeOK'
    BY <1>1, <2>0 DEF CSV!vars, CSV!TypeOK
  <2>2. CSV!RestInv'
    BY <1>1, <2>0 DEF CSV!vars, CSV!RestInv
  <2>3. CSV!Written' = CSV!Written /\ CSV!Unread' = CSV!Unread /\ CSV!Lines' = CSV!Lines
    BY <1>1 DEF CSV!vars, CSV!Written, CSV!Unread, CSV!Lines
  <2>4. CSV!LinesInv' /\ CSV!ChunkInv'
    <3>1. CSV!LinesInv'
      BY <1>1, <2>0, <2>3 DEF CSV!vars, CSV!LinesInv
    <3>2. CSV!ChunkInv'
      BY <1>1, <2>0, <2>3 DEF CSV!vars, CSV!ChunkInv
    <3> QED BY <3>1, <3>2
  <2>5. CSV!DownloadsAreSnapshots'
    BY <1>1, <2>0, <2>3
    DEF CSV!vars, CSV!DownloadsAreSnapshots, CSV!WholeOrBeginning, CSV!ErrorsAreSaid,
        CSV!HoldsLittle
  <2> QED BY <2>1, <2>2, <2>4, <2>5 DEF CSV!ExportInv
<1>2. CASE CSV!Next
  <2>1. \/ CSV!Parse \/ CSV!Open \/ CSV!Fetch \/ CSV!Pull \/ CSV!Exhausted \/ CSV!Send
        \/ CSV!Abandon \/ CSV!Write
    BY <1>2 DEF CSV!Next, CSV!Download
  <2> QED
    BY <2>1, ParseKeepsInv, OpenKeepsInv, FetchKeepsInv, PullKeepsInv, ExhaustedKeepsInv,
       SendKeepsInv, AbandonKeepsInv, WriteKeepsInv, Zenon
<1> QED BY <1>1, <1>2 DEF CSV!vars

-----------------------------------------------------------------------------
LEMMA ExportInvariant == PartSpec => []CSV!ExportInv
<1> USE PartAssumption
<1>1. PartInit => CSV!ExportInv
  BY InitExportInv DEF PartInit, PartAssumption
<1>2. CSV!ExportInv /\ [PartNext]_partVars => CSV!ExportInv'
  <2> SUFFICES ASSUME CSV!ExportInv, [PartNext]_partVars PROVE [CSV!Next]_CSV!vars
    BY StepKeepsInv DEF PartAssumption, CSV!vars
  <2> QED BY DEF PartNext, Caching, partVars, exportVars, CSV!vars
<1> QED BY <1>1, <1>2, PTL DEF PartSpec

\* Whatever the other services write, whatever fails and whoever goes away, a
\* download that ends is the whole of its days at one moment, one that breaks off
\* is a beginning of it or says that it failed, and no more than a page and a
\* chunk is held meanwhile.
THEOREM DownloadsTrue == PartSpec => []DownloadsAreSnapshots
<1>1. CSV!ExportInv => DownloadsAreSnapshots
  BY DEF CSV!ExportInv, DownloadsAreSnapshots
<1> QED BY <1>1, ExportInvariant, PTL
-----------------------------------------------------------------------------
(* The list's rows, the newest first *)

LEMMA PanelCardinality == \A S : Panel!Cardinality(S) = Cardinality(S)
BY DEF Cardinality, Panel!Cardinality

\* In a finite set of naturals the newer a row is, the fewer are newer.
LEMMA FewerAreNewer ==
  ASSUME NEW S \in SUBSET Nat, IsFiniteSet(S), NEW t \in S, NEW u \in S, t < u
  PROVE  Cardinality({s \in S : s > u}) < Cardinality({s \in S : s > t})
<1> DEFINE A == {s \in S : s > u}
           B == {s \in S : s > t}
<1>1. A \in SUBSET B /\ B \in SUBSET S /\ A # B
  <2>1. u \in B /\ u \notin A
    OBVIOUS
  <2>2. A \in SUBSET B
    <3> SUFFICES ASSUME NEW s \in A PROVE s \in B
      OBVIOUS
    <3>1. s \in Nat /\ t \in Nat /\ u \in Nat /\ s \in S /\ s > u
      OBVIOUS
    <3> QED BY <3>1
  <2> QED BY <2>1, <2>2
<1>2. IsFiniteSet(B)
  BY <1>1, FS_Subset
<1>3. IsFiniteSet(A) /\ Cardinality(A) <= Cardinality(B) /\ Cardinality(A) # Cardinality(B)
  BY <1>1, <1>2, FS_Subset
<1>4. Cardinality(A) \in Nat /\ Cardinality(B) \in Nat
  BY <1>2, <1>3, FS_CardinalityType
<1> QED BY <1>3, <1>4

\* There is a row for every place in the list.
LEMMA PlaceExists ==
  ASSUME NEW S \in SUBSET Nat, IsFiniteSet(S), NEW i \in 1..Cardinality(S)
  PROVE  \E t \in S : Cardinality({s \in S : s > t}) = i - 1
<1> DEFINE n == Cardinality(S)
<1>1. n \in Nat
  BY FS_CardinalityType
<1>2. n + 1 - i \in 1..n
  BY <1>1
<1>3. PICK t \in S : CSV!Rank(S, t) = (n + 1 - i) - 1
  BY <1>2, RankExists
<1> DEFINE Below == {s \in S : s < t}
           Above == {s \in S : s > t}
<1>4. Below \in SUBSET S /\ Above \in SUBSET S /\ Below \cap Above = {} /\ t \notin Below
      /\ S = (Below \cup {t}) \cup Above /\ (Below \cup {t}) \cap Above = {}
  <2>1. \A s \in S : s \in Nat /\ t \in Nat
    OBVIOUS
  <2>2. \A s \in S : ~(s < t /\ s > t) /\ (s < t \/ s = t \/ s > t)
    BY <2>1
  <2>3. ~(t < t) /\ ~(t > t)
    BY <2>1
  <2> QED BY <2>2, <2>3
<1>5. IsFiniteSet(Below) /\ IsFiniteSet(Above)
      /\ Cardinality(Below) = n - i /\ Cardinality(Above) \in Nat
  <2>1. IsFiniteSet(Below) /\ IsFiniteSet(Above)
    BY <1>4, FS_Subset
  <2>2. Cardinality(Above) \in Nat
    BY <2>1, FS_CardinalityType
  <2>3. Cardinality(Below) = n - i
    BY <1>1, <1>3, SameCardinality DEF CSV!Rank
  <2> QED BY <2>1, <2>2, <2>3
<1> HIDE DEF Below, Above, n
<1>6. IsFiniteSet(Below \cup {t}) /\ Cardinality(Below \cup {t}) = n - i + 1
  BY <1>4, <1>5, FS_AddElement
<1>7. n = (n - i + 1) + Cardinality(Above)
  <2>1. Cardinality((Below \cup {t}) \cup Above)
          = Cardinality(Below \cup {t}) + Cardinality(Above) - Cardinality({})
    BY <1>4, <1>5, <1>6, FS_Union
  <2>2. Cardinality({}) = 0
    BY FS_EmptySet
  <2>3. n = Cardinality((Below \cup {t}) \cup Above)
    BY <1>4 DEF n
  <2> QED BY <1>1, <1>5, <1>6, <2>1, <2>2, <2>3
<1>8. Cardinality(Above) = i - 1
  BY <1>1, <1>5, <1>7
<1> QED BY <1>8 DEF Above

\* The order of the query: each row once, the newer before the older.
LEMMA NewestComeFirst ==
  ASSUME NEW S \in SUBSET Nat, IsFiniteSet(S)
  PROVE  /\ Cardinality(S) \in Nat
         /\ Panel!NewestFirst(S) \in Seq(S) /\ Len(Panel!NewestFirst(S)) = Cardinality(S)
         /\ \A i, j \in 1..Cardinality(S) :
              i < j => Panel!NewestFirst(S)[i] > Panel!NewestFirst(S)[j]
         /\ \A t \in S : \E i \in 1..Cardinality(S) : Panel!NewestFirst(S)[i] = t
<1> DEFINE n == Cardinality(S)
           f == Panel!NewestFirst(S)
           Newer(t) == Cardinality({s \in S : s > t})
<1>1. n \in Nat
  BY FS_CardinalityType
<1>2. \A i \in 1..n : f[i] \in S /\ Newer(f[i]) = i - 1
  <2> TAKE i \in 1..n
  <2>1. \E t \in S : Newer(t) = i - 1
    BY PlaceExists
  <2>2. f[i] = CHOOSE t \in S : Newer(t) = i - 1
    BY PanelCardinality DEF Panel!NewestFirst
  <2> QED BY <2>1, <2>2
<1>3. f \in [1..n -> S]
  BY <1>2, PanelCardinality DEF Panel!NewestFirst
<1>4. f \in Seq(S) /\ Len(f) = n
  BY <1>1, <1>3, SeqDef, LenProperties
<1>a. \A t \in S : Newer(t) \in Nat
  <2> TAKE t \in S
  <2>1. {s \in S : s > t} \in SUBSET S
    OBVIOUS
  <2> QED BY <2>1, FS_Subset, FS_CardinalityType
<1>b. \A t, u \in S : t < u => Newer(u) < Newer(t)
  BY FewerAreNewer
<1> HIDE DEF Newer, f
<1>5. \A i, j \in 1..n : i < j => f[i] > f[j]
  <2> SUFFICES ASSUME NEW i \in 1..n, NEW j \in 1..n, i < j, ~(f[i] > f[j]) PROVE FALSE
    OBVIOUS
  <2>1. PICK a \in S, b \in S : a = f[i] /\ b = f[j] /\ Newer(a) = i - 1 /\ Newer(b) = j - 1
    BY <1>2
  <2>2. a = b \/ a < b
    BY <2>1
  <2>3. Newer(b) <= Newer(a)
    BY <1>a, <1>b, <2>2
  <2> QED BY <1>1, <2>1, <2>3
<1>6. \A t \in S : \E i \in 1..n : f[i] = t
  <2> SUFFICES ASSUME NEW t \in S PROVE \E i \in 1..n : f[i] = t
    OBVIOUS
  <2> DEFINE Above == {s \in S : s > t}
  <2>1. Above \in SUBSET S /\ Above # S
    OBVIOUS
  <2>2. IsFiniteSet(Above) /\ Cardinality(Above) <= n /\ Cardinality(Above) # n
    BY <2>1, FS_Subset
  <2>3. PICK k \in Nat : k = Newer(t) /\ k < n
    <3>1. Newer(t) = Cardinality(Above)
      BY DEF Newer
    <3> QED BY <1>1, <1>a, <2>2, <3>1
  <2>4. k + 1 \in 1..n
    BY <1>1, <2>3
  <2>5. PICK u \in S : u = f[k + 1] /\ Newer(u) = k
    <3>1. f[k + 1] \in S /\ Newer(f[k + 1]) = (k + 1) - 1
      BY <1>2, <2>4
    <3>2. (k + 1) - 1 = k
      OBVIOUS
    <3> QED BY <3>1, <3>2
  <2>6. ~(u < t) /\ ~(t < u)
    <3>1. ~(k < k)
      OBVIOUS
    <3> QED BY <1>b, <2>3, <2>5, <3>1
  <2>7. u = t
    <3>1. u \in Nat /\ t \in Nat
      OBVIOUS
    <3> QED BY <2>6, <3>1
  <2> QED BY <2>4, <2>5, <2>7
<1> QED BY <1>1, <1>4, <1>5, <1>6 DEF f

\* What a query lists: no more rows than the limit, all of the kind asked for, and
\* what it leaves out is older than each of as many as the limit.
LEMMA TheRowsListed ==
  ASSUME Panel!PanelAssumption, Panel!TypeOK, NEW n \in Panel!Limits, NEW w \in BOOLEAN,
         NEW rows, rows = Panel!RecentRestarts(n, w)
  PROVE  /\ rows \in Seq(Panel!Rows) /\ Len(rows) <= n
         /\ \A i \in DOMAIN rows : rows[i] <= Len(restarts) /\ (w \/ ~restarts[rows[i]])
         /\ \A row \in 1..Len(restarts) :
              (w \/ ~restarts[row]) /\ (\A i \in DOMAIN rows : rows[i] # row)
                => Len(rows) = n /\ \A i \in DOMAIN rows : rows[i] > row
<1> DEFINE S == Panel!Listed(w)
           f == Panel!NewestFirst(S)
           c == Cardinality(S)
           m == IF c < n THEN c ELSE n
<1>1. Len(restarts) \in Nat /\ Len(restarts) <= MaxRestarts /\ MaxRestarts \in Nat
      /\ DOMAIN restarts = 1..Len(restarts) /\ n \in Nat
  BY DEF Panel!TypeOK, Panel!PanelAssumption, Panel!Limits
<1>2. S \in SUBSET (1..Len(restarts)) /\ \A row \in S : w \/ ~restarts[row]
  BY <1>1 DEF Panel!Listed
<1>3. S \in SUBSET Nat /\ IsFiniteSet(S)
  <2>1. IsFiniteSet(1..Len(restarts))
    BY <1>1, FS_Interval
  <2> QED BY <1>1, <1>2, <2>1, FS_Subset
<1> HIDE DEF S
<1>4. /\ c \in Nat /\ f \in Seq(S) /\ Len(f) = c
      /\ \A i, j \in 1..c : i < j => f[i] > f[j]
      /\ \A t \in S : \E i \in 1..c : f[i] = t
  BY <1>3, NewestComeFirst
<1>5. rows = SubSeq(f, 1, m)
  BY <1>4 DEF Panel!RecentRestarts, Panel!Upto, S
<1> HIDE DEF f, c
<1>6. m \in Nat /\ m <= n /\ m <= c
  BY <1>1, <1>4
<1>7. rows \in Seq(S) /\ Len(rows) = m /\ \A i \in 1..m : rows[i] = f[i]
  <2>1. \A i \in 1..m : f[i] \in S
    BY <1>4, <1>6
  <2> QED BY <1>5, <1>6, <2>1, SubSeqProperties
<1>8. DOMAIN rows = 1..m /\ \A i \in 1..m : rows[i] \in S
  BY <1>7
<1>9. rows \in Seq(Panel!Rows)
  <2>1. S \in SUBSET Panel!Rows
    BY <1>1, <1>2 DEF Panel!Rows
  <2> QED BY <1>7, <2>1
<1>10. ASSUME NEW row \in 1..Len(restarts), w \/ ~restarts[row],
              \A i \in DOMAIN rows : rows[i] # row
       PROVE  Len(rows) = n /\ \A i \in DOMAIN rows : rows[i] > row
  <2>1. row \in S
    BY <1>1, <1>10 DEF Panel!Listed, S
  <2>2. PICK k \in 1..c : f[k] = row
    BY <1>4, <2>1
  <2>3. k \notin 1..m
    BY <1>7, <1>8, <1>10, <2>2
  <2>4. m = n /\ k > n
    BY <1>1, <1>4, <2>2, <2>3
  <2>5. \A i \in 1..m : f[i] > f[k]
    BY <1>4, <1>6, <2>2, <2>4
  <2> QED BY <1>7, <1>8, <2>2, <2>4, <2>5
<1>11. \A i \in DOMAIN rows : rows[i] <= Len(restarts) /\ (w \/ ~restarts[rows[i]])
  <2> SUFFICES ASSUME NEW t \in S PROVE t <= Len(restarts) /\ (w \/ ~restarts[t])
    BY <1>8
  <2>1. t <= Len(restarts)
    BY <1>1, <1>2
  <2> QED BY <1>2, <2>1
<1> QED BY <1>6, <1>7, <1>9, <1>10, <1>11
-----------------------------------------------------------------------------
(* The list's cache and answers *)

LEMMA InitPanelInv == ASSUME Panel!PanelAssumption, Panel!Init PROVE Panel!PanelInv
<1>1. /\ restarts = <<>> /\ Len(restarts) = 0 /\ cache = <<>> /\ length = <<>>
      /\ DOMAIN cache = {} /\ DOMAIN length = {}
      /\ \A r \in Requests : stage[r] = "host" /\ limit[r] = 0 /\ answer[r] = <<>> /\ reads[r] = {}
  BY DEF Panel!Init
<1>2. Panel!TypeOK
  <2>1. restarts \in Seq(BOOLEAN) /\ Len(restarts) <= MaxRestarts
    BY <1>1 DEF Panel!PanelAssumption
  <2>2. \A r \in Requests : answer[r] \in Seq(Panel!Rows)
    <3>1. <<>> \in Seq(Panel!Rows)
      OBVIOUS
    <3> QED BY <1>1, <3>1
  <2>3. answer \in [Requests -> Seq(Panel!Rows)]
    BY <2>2 DEF Panel!Init
  <2>4. reloads \in 0..MaxReloads
    BY DEF Panel!Init, Panel!PanelAssumption
  <2> QED BY <1>1, <2>1, <2>3, <2>4 DEF Panel!Init, Panel!TypeOK, Panel!PanelAssumption
<1>3. Panel!EntryInv /\ Panel!AnswerInv /\ Panel!AnswersAreTheNewest
  BY <1>1 DEF Panel!EntryInv, Panel!AnswerInv, Panel!AnswersAreTheNewest, Panel!FitTheQuestion,
     Panel!HiddenByNewerOnes, Panel!Done
<1> QED BY <1>2, <1>3 DEF Panel!PanelInv

\* A restart that is recorded leaves the rows there were as they are.
LEMMA RecordKeepsInv ==
  ASSUME Panel!PanelAssumption, Panel!PanelInv, Panel!Record PROVE Panel!PanelInv'
<1>0. Panel!TypeOK /\ Panel!EntryInv /\ Panel!AnswerInv /\ Panel!AnswersAreTheNewest
  BY DEF Panel!PanelInv
<1>1. /\ UNCHANGED <<config, cache, stage, include, limit, answer, reads, length, reloads>>
      /\ Len(restarts) \in Nat /\ Len(restarts') = Len(restarts) + 1
      /\ \A i \in 1..Len(restarts) : restarts'[i] = restarts[i]
      /\ restarts' \in Seq(BOOLEAN) /\ Len(restarts') <= MaxRestarts
  BY <1>0 DEF Panel!Record, Panel!TypeOK, Panel!PanelAssumption
<1>2. Panel!TypeOK'
  BY <1>0, <1>1 DEF Panel!TypeOK
<1>3. /\ \A question \in DOMAIN cache : \A i \in DOMAIN cache[question] :
            cache[question][i] \in Nat \ {0} /\ cache[question][i] <= Len(restarts)
      /\ \A r \in Requests : stage[r] = "done" => \A i \in DOMAIN answer[r] :
            answer[r][i] \in Nat \ {0} /\ answer[r][i] <= Len(restarts)
      /\ \A question \in DOMAIN cache :
            length[question] \in Nat /\ length[question] <= Len(restarts)
  <2>1. ASSUME NEW q \in Seq(Panel!Rows), NEW i \in DOMAIN q PROVE q[i] \in Nat \ {0}
    BY DEF Panel!Rows, Panel!PanelAssumption
  <2>2. /\ \A question \in DOMAIN cache : cache[question] \in Seq(Panel!Rows)
        /\ \A r \in Requests : answer[r] \in Seq(Panel!Rows)
        /\ \A question \in DOMAIN cache : length[question] \in Nat
    BY <1>0 DEF Panel!TypeOK, Panel!PanelAssumption
  <2> QED BY <1>0, <2>1, <2>2 DEF Panel!EntryInv, Panel!AnswerInv
<1>4. Panel!EntryInv'
  BY <1>0, <1>1, <1>3 DEF Panel!EntryInv
<1>5. Panel!AnswerInv'
  BY <1>0, <1>1, <1>3 DEF Panel!AnswerInv
<1>6. Panel!FitTheQuestion'
  BY <1>0, <1>1, <1>3 DEF Panel!AnswersAreTheNewest, Panel!FitTheQuestion, Panel!Done
<1>7. Panel!HiddenByNewerOnes'
  <2>1. \A question \in DOMAIN cache : \A row \in 1..length[question] :
           restarts'[row] = restarts[row]
    BY <1>1, <1>3
  <2> QED BY <1>0, <1>1, <2>1 DEF Panel!AnswersAreTheNewest, Panel!HiddenByNewerOnes
<1> QED BY <1>2, <1>4, <1>5, <1>6, <1>7 DEF Panel!PanelInv, Panel!AnswersAreTheNewest

\* An answer is an entry, or becomes one.
LEMMA AnswerKeepsInv ==
  ASSUME Panel!PanelAssumption, Panel!PanelInv, NEW r \in Requests, Panel!Answer(r)
  PROVE  Panel!PanelInv'
<1> DEFINE question == <<limit[r], include[r]>>
           rows == Panel!RecentRestarts(limit[r], include[r])
<1>0. Panel!TypeOK /\ Panel!EntryInv /\ Panel!AnswerInv /\ Panel!FitTheQuestion
      /\ Panel!HiddenByNewerOnes
  BY DEF Panel!PanelInv, Panel!AnswersAreTheNewest
<1>1. /\ UNCHANGED <<config, restarts, reloads, include, limit, reads>>
      /\ stage' = [stage EXCEPT ![r] = "done"] /\ stage[r] = "lock"
      /\ limit[r] \in Panel!Limits /\ include[r] \in BOOLEAN /\ Len(restarts) \in Nat
      /\ Len(restarts) \in 0..MaxRestarts
  BY <1>0 DEF Panel!Answer, Panel!world, Panel!AnswerInv, Panel!TypeOK, Panel!PanelAssumption
<1>2. /\ rows \in Seq(Panel!Rows) /\ Len(rows) <= limit[r]
      /\ \A i \in DOMAIN rows : rows[i] <= Len(restarts) /\ (include[r] \/ ~restarts[rows[i]])
      /\ \A row \in 1..Len(restarts) :
           (include[r] \/ ~restarts[row]) /\ (\A i \in DOMAIN rows : rows[i] # row)
             => Len(rows) = limit[r] /\ \A i \in DOMAIN rows : rows[i] > row
  BY <1>0, <1>1, TheRowsListed
<1> HIDE DEF rows
\* Of any rows that are like that, the answer that is made of them is.
<1>3. ASSUME NEW q \in Seq(Panel!Rows), Len(q) <= limit[r],
             \A i \in DOMAIN q : q[i] <= Len(restarts) /\ (include[r] \/ ~restarts[q[i]]),
             answer' = [answer EXCEPT ![r] = q]
      PROVE  Panel!AnswerInv' /\ Panel!FitTheQuestion' /\ answer' \in [Requests -> Seq(Panel!Rows)]
  <2>1. answer'[r] = q /\ \A s \in Requests \ {r} : answer'[s] = answer[s] /\ stage'[s] = stage[s]
    BY <1>0, <1>1, <1>3 DEF Panel!TypeOK
  <2>2. stage'[r] = "done"
    BY <1>0, <1>1 DEF Panel!TypeOK
  <2>3. Panel!AnswerInv'
    BY <1>0, <1>1, <1>3, <2>1, <2>2 DEF Panel!AnswerInv
  <2>4. Panel!FitTheQuestion'
    <3> SUFFICES ASSUME NEW s \in Requests, stage'[s] = "done"
                 PROVE  /\ Len(answer'[s]) <= limit[s]
                        /\ \A i \in DOMAIN answer'[s] : include[s] \/ ~restarts[answer'[s][i]]
      BY <1>1 DEF Panel!FitTheQuestion, Panel!Done
    <3>1. CASE s = r
      BY <1>3, <2>1, <3>1
    <3>2. CASE s # r
      BY <1>0, <2>1, <3>2 DEF Panel!FitTheQuestion, Panel!Done
    <3> QED BY <3>1, <3>2
  <2>5. answer' \in [Requests -> Seq(Panel!Rows)]
    BY <1>0, <1>3 DEF Panel!TypeOK
  <2> QED BY <2>3, <2>4, <2>5
<1>4. stage' \in [Requests -> {"host", "limit", "lock", "done", "refused"}]
  BY <1>0, <1>1 DEF Panel!TypeOK
<1>5. CASE question \in DOMAIN cache /\ answer' = [answer EXCEPT ![r] = cache[question]]
           /\ UNCHANGED <<cache, length>>
  <2>1. cache[question] \in Seq(Panel!Rows) /\ Len(cache[question]) <= limit[r]
        /\ \A i \in DOMAIN cache[question] :
             cache[question][i] <= Len(restarts) /\ (include[r] \/ ~restarts[cache[question][i]])
    BY <1>0, <1>5 DEF Panel!TypeOK, Panel!EntryInv
  <2>2. Panel!AnswerInv' /\ Panel!FitTheQuestion' /\ answer' \in [Requests -> Seq(Panel!Rows)]
    BY <1>3, <1>5, <2>1
  <2>3. Panel!TypeOK' /\ Panel!EntryInv' /\ Panel!HiddenByNewerOnes'
    BY <1>0, <1>1, <1>4, <1>5, <2>2 DEF Panel!TypeOK, Panel!EntryInv, Panel!HiddenByNewerOnes
  <2> QED BY <2>2, <2>3 DEF Panel!PanelInv, Panel!AnswersAreTheNewest
<1>6. CASE /\ answer' = [answer EXCEPT ![r] = rows]
           /\ cache' = [k \in DOMAIN cache \cup {question} |->
                            IF k = question THEN rows ELSE cache[k]]
           /\ length' = [k \in DOMAIN cache \cup {question} |->
                             IF k = question THEN Len(restarts) ELSE length[k]]
  <2>1. Panel!AnswerInv' /\ Panel!FitTheQuestion' /\ answer' \in [Requests -> Seq(Panel!Rows)]
    BY <1>2, <1>3, <1>6
  <2>2. /\ DOMAIN cache' = DOMAIN cache \cup {question} /\ DOMAIN length' = DOMAIN cache'
        /\ cache'[question] = rows /\ length'[question] = Len(restarts)
        /\ \A k \in DOMAIN cache' : k # question => k \in DOMAIN cache /\ cache'[k] = cache[k]
                                               /\ length'[k] = length[k]
    BY <1>6
  <2>3. question \in Panel!Questions /\ question[1] = limit[r] /\ question[2] = include[r]
    BY <1>1 DEF Panel!Questions
  <2> HIDE DEF question
  <2>4. Panel!TypeOK'
    <3>1. DOMAIN cache' \subseteq Panel!Questions
      BY <1>0, <2>2, <2>3 DEF Panel!TypeOK
    <3>2. \A k \in DOMAIN cache' : cache'[k] \in Seq(Panel!Rows) /\ length'[k] \in 0..MaxRestarts
      BY <1>0, <1>1, <1>2, <2>2 DEF Panel!TypeOK
    <3> QED BY <1>0, <1>1, <1>4, <2>1, <2>2, <3>1, <3>2 DEF Panel!TypeOK
  <2>5. Panel!EntryInv'
    <3> SUFFICES ASSUME NEW k \in DOMAIN cache'
                 PROVE  /\ length'[k] <= Len(restarts) /\ Len(cache'[k]) <= k[1]
                        /\ \A i \in DOMAIN cache'[k] :
                             /\ cache'[k][i] <= Len(restarts)
                             /\ k[2] \/ ~restarts[cache'[k][i]]
      BY <1>1 DEF Panel!EntryInv
    <3>1. CASE k = question
      BY <1>1, <1>2, <2>2, <2>3, <3>1
    <3>2. CASE k # question
      BY <1>0, <2>2, <3>2 DEF Panel!EntryInv
    <3> QED BY <3>1, <3>2
  <2>6. Panel!HiddenByNewerOnes'
    <3> SUFFICES ASSUME NEW k \in DOMAIN cache', NEW row \in 1..length'[k],
                        k[2] \/ ~restarts[row], \A i \in DOMAIN cache'[k] : cache'[k][i] # row
                 PROVE  /\ Len(cache'[k]) = k[1]
                        /\ \A i \in DOMAIN cache'[k] : cache'[k][i] > row
      BY <1>1 DEF Panel!HiddenByNewerOnes
    <3>1. CASE k = question
      BY <1>2, <2>2, <2>3, <3>1
    <3>2. CASE k # question
      BY <1>0, <2>2, <3>2 DEF Panel!HiddenByNewerOnes
    <3> QED BY <3>1, <3>2
  <2> QED BY <2>1, <2>4, <2>5, <2>6 DEF Panel!PanelInv, Panel!AnswersAreTheNewest
<1> QED BY <1>5, <1>6 DEF Panel!Answer, Panel!CacheKey, rows

\* What is left touches neither rows, entries nor answers.
LEMMA PanelStepKeepsInv ==
  ASSUME Panel!PanelAssumption, Panel!PanelInv, [Panel!Next]_Panel!vars PROVE Panel!PanelInv'
<1>0. Panel!TypeOK /\ Panel!EntryInv /\ Panel!AnswerInv /\ Panel!FitTheQuestion
      /\ Panel!HiddenByNewerOnes
  BY DEF Panel!PanelInv, Panel!AnswersAreTheNewest
\* A step of a request that has no answer yet.
<1>1. ASSUME UNCHANGED <<restarts, cache, include, answer, length>>, Panel!TypeOK',
             \A r \in Requests : \/ stage'[r] = stage[r] /\ limit'[r] = limit[r]
                                 \/ stage'[r] = "lock" /\ limit'[r] \in Panel!Limits
                                 \/ stage'[r] \in {"limit", "refused"}
      PROVE  Panel!PanelInv'
  <2>1. Panel!EntryInv' /\ Panel!HiddenByNewerOnes'
    BY <1>0, <1>1 DEF Panel!EntryInv, Panel!HiddenByNewerOnes
  <2>2. Panel!AnswerInv'
    BY <1>0, <1>1 DEF Panel!AnswerInv
  <2>3. Panel!FitTheQuestion'
    <3> SUFFICES ASSUME NEW r \in Requests, stage'[r] = "done"
                 PROVE  /\ Len(answer[r]) <= limit'[r]
                        /\ \A i \in DOMAIN answer[r] : include[r] \/ ~restarts[answer[r][i]]
      BY <1>1 DEF Panel!FitTheQuestion, Panel!Done
    <3>1. stage[r] = "done" /\ limit'[r] = limit[r]
      BY <1>1
    <3> QED BY <1>0, <3>1 DEF Panel!FitTheQuestion, Panel!Done
  <2> QED BY <1>1, <2>1, <2>2, <2>3 DEF Panel!PanelInv, Panel!AnswersAreTheNewest
<1>2. CASE UNCHANGED Panel!vars
  <2>1. Panel!TypeOK'
    BY <1>0, <1>2 DEF Panel!vars, Panel!TypeOK
  <2> QED BY <1>1, <1>2, <2>1 DEF Panel!vars
<1>3. CASE Panel!Reload
  <2>1. Panel!TypeOK'
    BY <1>0, <1>3 DEF Panel!Reload, Panel!TypeOK, Panel!PanelAssumption
  <2> QED BY <1>1, <1>3, <2>1 DEF Panel!Reload
<1>4. ASSUME NEW r \in Requests, Panel!CheckHost(r) PROVE Panel!PanelInv'
  <2>1. Panel!TypeOK'
    <3>1. stage' \in [Requests -> {"host", "limit", "lock", "done", "refused"}]
          /\ reads' \in [Requests -> SUBSET Panel!Configs]
      BY <1>0, <1>4 DEF Panel!CheckHost, Panel!TypeOK
    <3> QED BY <1>0, <1>4, <3>1 DEF Panel!CheckHost, Panel!TypeOK, Panel!world
  <2>2. \A s \in Requests : stage'[s] = stage[s] \/ stage'[s] \in {"limit", "refused"}
    BY <1>0, <1>4 DEF Panel!CheckHost, Panel!TypeOK
  <2> QED BY <1>1, <1>4, <2>1, <2>2 DEF Panel!CheckHost, Panel!world
<1>5. ASSUME NEW r \in Requests, Panel!ReadLimit(r) PROVE Panel!PanelInv'
  <2>1. config.limit \in Panel!Limits
    BY <1>0 DEF Panel!TypeOK, Panel!Configs
  <2>2. Panel!TypeOK'
    <3>1. /\ stage' \in [Requests -> {"host", "limit", "lock", "done", "refused"}]
          /\ limit' \in [Requests -> {0} \cup Panel!Limits]
          /\ reads' \in [Requests -> SUBSET Panel!Configs]
      BY <1>0, <1>5, <2>1 DEF Panel!ReadLimit, Panel!TypeOK
    <3> QED BY <1>0, <1>5, <3>1 DEF Panel!ReadLimit, Panel!TypeOK, Panel!world
  <2>3. \A s \in Requests : \/ stage'[s] = stage[s] /\ limit'[s] = limit[s]
                            \/ stage'[s] = "lock" /\ limit'[s] \in Panel!Limits
    BY <1>0, <1>5, <2>1 DEF Panel!ReadLimit, Panel!TypeOK
  <2> QED BY <1>1, <1>5, <2>2, <2>3 DEF Panel!ReadLimit, Panel!world
<1> QED
  BY <1>2, <1>3, <1>4, <1>5, RecordKeepsInv, AnswerKeepsInv DEF Panel!Next

LEMMA PanelInvariant == PartSpec => []Panel!PanelInv
<1> USE PartAssumption
<1>1. PartInit => Panel!PanelInv
  BY InitPanelInv DEF PartInit, PartAssumption
<1>2. Panel!PanelInv /\ [PartNext]_partVars => Panel!PanelInv'
  <2> SUFFICES ASSUME Panel!PanelInv, [PartNext]_partVars PROVE [Panel!Next]_Panel!vars
    BY PanelStepKeepsInv DEF PartAssumption, Panel!vars
  <2> QED BY DEF PartNext, Caching, partVars, panelVars, Panel!vars
<1> QED BY <1>1, <1>2, PTL DEF PartSpec

\* Whatever is recorded and reloaded meanwhile, a list that is shown has no more rows
\* than the limit it was asked with, none that the toggle leaves out, and leaves a
\* restart out only for as many newer ones.
THEOREM ListsAreTheNewest == PartSpec => []AnswersAreTheNewest
<1>1. Panel!PanelInv => AnswersAreTheNewest
  BY DEF Panel!PanelInv, AnswersAreTheNewest
<1> QED BY <1>1, PanelInvariant, PTL
-----------------------------------------------------------------------------
(* The form *)

\* PingCharts_proofs says how FlattenSeq unfolds; what it says of the charts follows
\* the form.
ChartsProved == INSTANCE PingCharts_proofs WITH
    now <- hour, Targets <- {CHOOSE t \in Targets : TRUE}

\* f is what FlattenSeq computes of s on its way.
Unfolds(f, s) ==
    /\ Admin!FlattenSeq(s) = f[Len(s)]
    /\ \A i \in 1..Len(s) : f[i] = IF i = 1 THEN s[i] ELSE f[i-1] \o s[i]

LEMMA FlattenUnfolds ==
  ASSUME NEW X, NEW s \in Seq(Seq(X)), Len(s) # 0
  PROVE  \E f \in [1..Len(s) -> Seq(X)] : Unfolds(f, s)
<1>1. Admin!FlattenSeq(s) = ChartsProved!FlattenSeq(s)
  BY DEF Admin!FlattenSeq, ChartsProved!FlattenSeq
<1>2. PICK f \in [1..Len(s) -> Seq(X)] : ChartsProved!Unfolds(f, s)
  BY ChartsProved!FlattenUnfolds
<1> QED BY <1>1, <1>2 DEF Unfolds, ChartsProved!Unfolds

LEMMA FlattenTyped ==
  ASSUME NEW X, NEW s \in Seq(Seq(X)) PROVE Admin!FlattenSeq(s) \in Seq(X)
<1>1. CASE Len(s) = 0
  <2>1. s = <<>> /\ <<>> \in Seq(X)
    BY <1>1
  <2> QED BY <1>1, <2>1 DEF Admin!FlattenSeq
<1>2. CASE Len(s) # 0
  <2>1. PICK f \in [1..Len(s) -> Seq(X)] : Unfolds(f, s)
    BY <1>2, FlattenUnfolds
  <2>2. Len(s) \in 1..Len(s)
    BY <1>2
  <2> QED BY <2>1, <2>2 DEF Unfolds
<1> QED BY <1>1, <1>2

\* Lines of one entry each, one after the other, are the entries.
LEMMA FlattenLines ==
  ASSUME NEW X, NEW v \in Seq(X)
  PROVE  Admin!FlattenSeq([i \in DOMAIN v |-> <<v[i]>>]) = v
<1> DEFINE s == [i \in DOMAIN v |-> <<v[i]>>]
           n == Len(v)
           Begun(i) == SubSeq(v, 1, i)
<1>1. n \in Nat /\ DOMAIN v = 1..n /\ s \in Seq(Seq(X)) /\ Len(s) = n
      /\ \A i \in 1..n : s[i] = <<v[i]>> /\ v[i] \in X
  <2>1. \A i \in 1..n : <<v[i]>> \in Seq(X)
    OBVIOUS
  <2>2. n \in Nat /\ DOMAIN v = 1..n /\ \A i \in 1..n : v[i] \in X
    OBVIOUS
  <2>3. s \in [1..n -> Seq(X)]
    BY <2>1, <2>2
  <2>4. s \in Seq(Seq(X)) /\ Len(s) = n
    BY <2>2, <2>3, SeqDef, LenProperties
  <2> QED BY <2>2, <2>4
<1>2. CASE n = 0
  <2>1. s = v
    BY <1>1, <1>2
  <2> QED BY <1>1, <1>2, <2>1 DEF Admin!FlattenSeq
<1>3. CASE n # 0
  <2>1. PICK f \in [1..n -> Seq(X)] :
          /\ Admin!FlattenSeq(s) = f[n]
          /\ \A i \in 1..n : f[i] = IF i = 1 THEN s[i] ELSE f[i-1] \o s[i]
    <3> HIDE DEF s, n
    <3>1. \E f \in [1..Len(s) -> Seq(X)] : Unfolds(f, s)
      BY <1>1, <1>3, FlattenUnfolds
    <3> QED BY <1>1, <3>1 DEF Unfolds
  <2>2. \A i \in 1..n : Begun(i) \in Seq(X) /\ Len(Begun(i)) = i /\ \A j \in 1..i : Begun(i)[j] = v[j]
    BY <1>1
  <2>3. Begun(1) = s[1] /\ Begun(n) = v
    BY <1>1, <1>3, <2>2
  <2>4. \A i \in 2..n : Begun(i) = Begun(i-1) \o s[i]
    <3> SUFFICES ASSUME NEW i \in 2..n PROVE Begun(i) = Begun(i-1) \o s[i]
      OBVIOUS
    <3>1. i \in 1..n /\ i - 1 \in 1..n /\ v[i] \in X
      BY <1>1
    <3>2. Begun(i-1) \o <<v[i]>> \in Seq(X) /\ Len(Begun(i-1) \o <<v[i]>>) = i
          /\ \A j \in 1..i : (Begun(i-1) \o <<v[i]>>)[j] = v[j]
      BY <2>2, <3>1
    <3>3. s[i] = <<v[i]>>
      BY <1>1, <3>1
    <3> HIDE DEF Begun, s
    <3> QED BY <2>2, <3>1, <3>2, <3>3
  <2> HIDE DEF Begun, s
  <2> DEFINE Wrong == {i \in 1..n : f[i] # Begun(i)}
  <2>5. Wrong = {}
    <3> SUFFICES ASSUME Wrong # {} PROVE FALSE
      OBVIOUS
    <3>1. PICK i \in Wrong : \A j \in Wrong : i <= j
      <4>1. Wrong \in SUBSET Nat
        BY <1>1
      <4> HIDE DEF Wrong
      <4> QED BY <4>1, LeastOf
    <3>2. i \in 1..n /\ i # 1
      BY <2>1, <2>3
    <3>3. i \in 2..n /\ i - 1 \in 1..n /\ i - 1 \notin Wrong
      BY <1>1, <3>1, <3>2
    <3>4. f[i-1] = Begun(i-1)
      BY <3>3
    <3> QED BY <2>1, <2>4, <3>2, <3>3, <3>4
  <2>6. n \in 1..n
    BY <1>1, <1>3
  <2>7. f[n] = Begun(n)
    BY <2>5, <2>6
  <2>8. Admin!FlattenSeq(s) = v
    BY <2>1, <2>3, <2>7
  <2> QED BY <2>8 DEF s
<1> QED BY <1>1, <1>2, <1>3

\* What is shown in a box is read back as it was, when no entry is blank.
LEMMA ReadBack ==
  ASSUME NEW v \in Seq(Admin!Names \cup {"1", "2"})
  PROVE  Admin!Entries(Admin!ToInput(v)) = v
<1>1. Admin!FlattenSeq(Admin!ToInput(v)) = v
  BY FlattenLines DEF Admin!ToInput
<1>2. \A i \in DOMAIN v : v[i] # Admin!Blank
  BY DEF Admin!Names, Admin!Blank
<1>3. [i \in DOMAIN v |-> IF v[i] = Admin!Blank THEN <<>> ELSE <<v[i]>>]
        = [i \in DOMAIN v |-> <<v[i]>>]
  BY <1>2
<1>4. Admin!WithoutBlanks(v) = v
  BY <1>3, FlattenLines DEF Admin!WithoutBlanks
<1> QED BY <1>1, <1>4 DEF Admin!Entries

\* So the settings of a page as it was shown are those it shows.
LEMMA FormGivesBack ==
  ASSUME NEW c \in Admin!Configs
  PROVE  Admin!ConfigFromForm(Admin!ValuesFromConfig(c), running) = [c EXCEPT !.db = running.db]
<1>1. c.targets \in Seq(Admin!Names) /\ c.limit \in {"1", "2"}
      /\ c = [targets |-> c.targets, limit |-> c.limit, db |-> c.db]
  BY DEF Admin!Configs
<1>2. Admin!Entries(Admin!ToInput(c.targets)) = c.targets
  <2>1. c.targets \in Seq(Admin!Names \cup {"1", "2"})
    BY <1>1
  <2> QED BY <2>1, ReadBack
<1>3. Admin!Entries(Admin!ToInput(<<c.limit>>)) = <<c.limit>>
  <2>1. <<c.limit>> \in Seq(Admin!Names \cup {"1", "2"})
    BY <1>1
  <2> QED BY <2>1, ReadBack
<1> QED BY <1>1, <1>2, <1>3 DEF Admin!ValuesFromConfig, Admin!ConfigFromForm

\* What is shown, or typed, is lines of entries.
LEMMA TextsShown ==
  ASSUME NEW c \in Admin!Configs PROVE Admin!ValuesFromConfig(c) \in [Admin!Fields -> Admin!Texts]
<1> DEFINE Word == Admin!Names \cup {Admin!Blank, "0", "1", "2", "x"}
<1>1. ASSUME NEW v \in Seq(Word) PROVE Admin!ToInput(v) \in Seq(Seq(Word))
  <2>1. Len(v) \in Nat /\ DOMAIN v = 1..Len(v) /\ \A i \in 1..Len(v) : v[i] \in Word
    OBVIOUS
  <2>2. \A i \in 1..Len(v) : <<v[i]>> \in Seq(Word)
    BY <2>1
  <2>3. Admin!ToInput(v) \in [1..Len(v) -> Seq(Word)]
    BY <2>1, <2>2 DEF Admin!ToInput
  <2> QED BY <2>1, <2>3, SeqDef
<1>2. c.targets \in Seq(Word) /\ <<c.limit>> \in Seq(Word)
  <2>1. Admin!Names \in SUBSET Word /\ c.targets \in Seq(Admin!Names) /\ c.limit \in Word
    BY DEF Admin!Configs
  <2> HIDE DEF Word
  <2> QED BY <2>1
<1>3. Admin!ToInput(c.targets) \in Admin!Texts /\ Admin!ToInput(<<c.limit>>) \in Admin!Texts
  BY <1>1, <1>2 DEF Admin!Texts
<1> QED BY <1>3 DEF Admin!ValuesFromConfig, Admin!Fields

LEMMA TextsTyped == \A f \in Admin!Fields : Typing[f] \subseteq Admin!Texts
<1> DEFINE Word == Admin!Names \cup {Admin!Blank, "0", "1", "2", "x"}
<1>1. "a" \in Word /\ "b" \in Word /\ "0" \in Word /\ "2" \in Word /\ "x" \in Word /\ Blank \in Word
  BY DEF Admin!Names, Admin!Blank, Blank
<1> HIDE DEF Word
<1>2. \A w \in Word : <<w>> \in Seq(Word)
  OBVIOUS
<1>3. \A w, x \in Word : <<w, x>> \in Seq(Word)
  OBVIOUS
<1>4. \A l \in Seq(Word) : <<l>> \in Seq(Seq(Word))
  OBVIOUS
<1>5. \A l, m \in Seq(Word) : <<l, m>> \in Seq(Seq(Word))
  OBVIOUS
<1>6. <<>> \in Seq(Seq(Word))
  OBVIOUS
<1>7. {<<>>, <<<<"b">>, <<Blank>>>>, <<<<"a", "b">>, <<"b">>>>} \in SUBSET Seq(Seq(Word))
  BY <1>1, <1>2, <1>3, <1>5, <1>6
<1>8. {<<<<Blank>>>>, <<<<"0">>>>, <<<<"x">>>>, <<<<"2">>>>} \in SUBSET Seq(Seq(Word))
  BY <1>1, <1>2, <1>4
<1>9. Admin!Texts = Seq(Seq(Word))
  BY DEF Admin!Texts, Word
<1>10. Typing["targets"] \subseteq Admin!Texts
  <2>1. Typing["targets"] = {<<>>, <<<<"b">>, <<Blank>>>>, <<<<"a", "b">>, <<"b">>>>}
    BY Zenon DEF Typing
  <2> QED BY <1>7, <1>9, <2>1, Zenon
<1>11. Typing["limit"] \subseteq Admin!Texts
  <2>1. Typing["limit"] = {<<<<Blank>>>>, <<<<"0">>>>, <<<<"x">>>>, <<<<"2">>>>}
    BY Zenon DEF Typing
  <2> QED BY <1>8, <1>9, <2>1, Zenon
<1> QED BY <1>10, <1>11 DEF Admin!Fields

\* What a page proposes, when it makes a configuration, is one the program may have.
LEMMA FormMakesConfig ==
  ASSUME NEW values \in [Admin!Fields -> Admin!Texts], NEW c,
         c = Admin!ConfigFromForm(values, running), Admin!Valid(c), running \in Admin!Configs
  PROVE  c \in Admin!Configs /\ c.db = running.db
<1> DEFINE Word == Admin!Names \cup {Admin!Blank, "0", "1", "2", "x"}
<1>1. values.targets \in Seq(Seq(Word))
  BY DEF Admin!Fields, Admin!Texts
<1> HIDE DEF Word
<1>2. Admin!Entries(values.targets) \in Seq(Word)
  <2>1. PICK flat \in Seq(Word) : flat = Admin!FlattenSeq(values.targets)
    BY <1>1, FlattenTyped
  <2> DEFINE lines == [i \in DOMAIN flat |-> IF flat[i] = Admin!Blank THEN <<>> ELSE <<flat[i]>>]
  <2>2. lines \in [1..Len(flat) -> Seq(Word)] /\ Len(flat) \in Nat
    <3>1. DOMAIN flat = 1..Len(flat) /\ Len(flat) \in Nat
          /\ \A i \in 1..Len(flat) : flat[i] \in Word
      OBVIOUS
    <3>2. <<>> \in Seq(Word) /\ \A w \in Word : <<w>> \in Seq(Word)
      OBVIOUS
    <3> QED BY <3>1, <3>2
  <2>3. lines \in Seq(Seq(Word))
    <3> HIDE DEF lines
    <3> QED BY <2>2, SeqDef
  <2>4. Admin!WithoutBlanks(flat) = Admin!FlattenSeq(lines)
    BY DEF Admin!WithoutBlanks
  <2> QED BY <2>1, <2>3, <2>4, FlattenTyped DEF Admin!Entries
<1>3. /\ c.targets = Admin!Entries(values.targets) /\ c.db = running.db
      /\ c = [targets |-> c.targets, limit |-> c.limit, db |-> c.db]
  BY DEF Admin!ConfigFromForm
<1>4. c.targets \in Seq(Admin!Names) /\ c.limit \in {"1", "2"}
  <2>1. Len(c.targets) \in Nat /\ DOMAIN c.targets = 1..Len(c.targets)
        /\ c.targets \in [1..Len(c.targets) -> Word]
    BY <1>2, <1>3
  <2>2. \A i \in 1..Len(c.targets) : c.targets[i] \in Admin!Names
    BY <2>1 DEF Admin!Valid
  <2>3. c.targets \in [1..Len(c.targets) -> Admin!Names]
    BY <2>1, <2>2
  <2>4. c.targets \in Seq(Admin!Names)
    BY <2>1, <2>3, SeqDef
  <2> QED BY <2>4 DEF Admin!Valid
<1>5. running.db \in Admin!Databases
  BY DEF Admin!Configs
<1> QED BY <1>3, <1>4, <1>5 DEF Admin!Configs

LEMMA InitPageInv == ASSUME Admin!Init PROVE Admin!PageInv
<1>1. Admin!Possible(Admin!Shipped) /\ Admin!Shipped.db = "db"
  <2>1. <<"a", "b">> \in Seq(Admin!Names) /\ <<"a", "b">> # <<>>
        /\ DOMAIN <<"a", "b">> = 1..2 /\ \A i \in 1..2 : <<"a", "b">>[i] \in {"a", "b"}
    BY DEF Admin!Names
  <2> QED
    BY <2>1
    DEF Admin!Possible, Admin!Shipped, Admin!Configs, Admin!Valid, Admin!Databases, Admin!Names
<1> QED BY <1>1 DEF Admin!Init, Admin!PageInv, Admin!TruePage, Admin!None

\* A page that is opened, closed or typed into leaves the others.
LEMMA PageStep ==
  ASSUME Admin!PageInv, NEW b \in Browsers, NEW p, NEW how, Admin!TruePage(p),
         form' = [form EXCEPT ![b] = p], reply' = [reply EXCEPT ![b] = how]
  PROVE  /\ DOMAIN form' = Browsers /\ DOMAIN reply' = Browsers
         /\ \A c \in Browsers : Admin!TruePage(form'[c])
         /\ form'[b] = p /\ reply'[b] = how
         /\ \A c \in Browsers \ {b} : form'[c] = form[c] /\ reply'[c] = reply[c]
<1>1. /\ DOMAIN form' = Browsers /\ DOMAIN reply' = Browsers
      /\ form'[b] = p /\ reply'[b] = how
      /\ \A c \in Browsers \ {b} : form'[c] = form[c] /\ reply'[c] = reply[c]
  BY DEF Admin!PageInv
<1>2. \A c \in Browsers : Admin!TruePage(form[c])
  BY DEF Admin!PageInv
<1>3. ASSUME NEW c \in Browsers PROVE Admin!TruePage(form'[c])
  <2>1. form'[c] = p \/ form'[c] = form[c]
    BY <1>1
  <2> QED BY <1>2, <2>1
<1> QED BY <1>1, <1>3

\* The pages that the routes open.
LEMMA OpenedPages ==
  ASSUME NEW values \in [Admin!Fields -> Admin!Texts], NEW shows,
         shows # Admin!None =>
           Admin!Possible(shows) /\ values = Admin!ValuesFromConfig(shows)
  PROVE  Admin!TruePage([values |-> values, token |-> process, shows |-> shows])
BY DEF Admin!TruePage

\* Nothing moves the database of the running configuration or of a proposal, and a
\* page that says what it shows has the texts of that.
LEMMA AdminStepKeepsInv ==
  ASSUME Admin!PageInv, [Admin!Next]_Admin!vars PROVE Admin!PageInv'
<1>0. /\ DOMAIN form = Browsers /\ DOMAIN reply = Browsers
      /\ Admin!Usable(file) => Admin!Possible(file)
      /\ Admin!Possible(running) /\ running.db = "db"
      /\ staged # Admin!None => Admin!Possible(staged) /\ staged.db = "db"
      /\ \A b \in Browsers : Admin!TruePage(form[b])
  BY DEF Admin!PageInv
<1>a. Admin!TruePage(Admin!None)
  BY DEF Admin!TruePage
\* What only concerns pages, and what does not.
<1>b. ASSUME NEW b \in Browsers, NEW p, NEW how, Admin!TruePage(p),
             form' = [form EXCEPT ![b] = p], reply' = [reply EXCEPT ![b] = how],
             UNCHANGED <<file, running>>,
             staged' # Admin!None => Admin!Possible(staged') /\ staged'.db = "db"
      PROVE  Admin!PageInv'
  <2>1. DOMAIN form' = Browsers /\ DOMAIN reply' = Browsers
        /\ \A c \in Browsers : Admin!TruePage(form'[c])
    BY <1>b, PageStep
  <2>2. /\ Admin!Usable(file') => Admin!Possible(file')
        /\ Admin!Possible(running') /\ running'.db = "db"
    BY <1>0, <1>b
  <2> QED BY <1>b, <2>1, <2>2 DEF Admin!PageInv, Admin!TruePage, Admin!Possible, Admin!Valid,
       Admin!ValuesFromConfig, Admin!Usable, Admin!None, Admin!Configs, Admin!Texts, Admin!Fields
<1>c. ASSUME UNCHANGED <<form, reply>>,
             Admin!Usable(file') => Admin!Possible(file'),
             Admin!Possible(running') /\ running'.db = "db",
             staged' # Admin!None => Admin!Possible(staged') /\ staged'.db = "db"
      PROVE  Admin!PageInv'
  <2>1. DOMAIN form' = Browsers /\ DOMAIN reply' = Browsers
        /\ \A c \in Browsers : Admin!TruePage(form'[c])
    BY <1>0, <1>c
  <2> QED BY <1>c, <2>1 DEF Admin!PageInv
<1>2. ASSUME NEW b \in Browsers, Admin!Visit(b) PROVE Admin!PageInv'
  <2>0. UNCHANGED <<file, running, staged>>
    BY <1>2 DEF Admin!Visit
  <2>1. ASSUME NEW c, Admin!Possible(c), Admin!Open(b, Admin!ValuesFromConfig(c), c),
               Admin!Answer(b, "shown")
        PROVE  Admin!PageInv'
    <3>1. Admin!ValuesFromConfig(c) \in [Admin!Fields -> Admin!Texts]
      BY <2>1, TextsShown DEF Admin!Possible
    <3>2. Admin!TruePage([values |-> Admin!ValuesFromConfig(c), token |-> process, shows |-> c])
      BY <2>1, <3>1, OpenedPages
    <3> QED BY <1>0, <1>b, <2>0, <2>1, <3>2 DEF Admin!Open, Admin!Answer
  <2>2. CASE form' = [form EXCEPT ![b] = Admin!None] /\ Admin!Answer(b, "error")
    BY <1>0, <1>a, <1>b, <2>0, <2>2 DEF Admin!Answer
  <2> QED BY <1>0, <1>2, <2>1, <2>2 DEF Admin!Visit
<1>3. ASSUME NEW b \in Browsers, Admin!SubmitForeign(b) PROVE Admin!PageInv'
  BY <1>0, <1>3, <1>a, <1>b DEF Admin!SubmitForeign, Admin!Answer
<1>4. ASSUME NEW b \in Browsers, Admin!SubmitRefused(b) PROVE Admin!PageInv'
  <2>1. form[b].values \in [Admin!Fields -> Admin!Texts]
    BY <1>0, <1>4 DEF Admin!SubmitRefused, Admin!TruePage
  <2>2. Admin!TruePage([values |-> form[b].values, token |-> process, shows |-> Admin!None])
    BY <2>1, OpenedPages
  <2> QED BY <1>0, <1>4, <1>b, <2>2 DEF Admin!SubmitRefused, Admin!Open, Admin!Answer
<1>5. ASSUME NEW b \in Browsers, Admin!Submit(b) PROVE Admin!PageInv'
  <2>1. form[b].values \in [Admin!Fields -> Admin!Texts]
    BY <1>0, <1>5 DEF Admin!Submit, Admin!TruePage
  <2>2. Admin!Possible(staged') /\ staged'.db = "db"
    BY <1>0, <1>5, <2>1, FormMakesConfig DEF Admin!Submit, Admin!Possible
  <2> QED BY <1>5, <1>a, <1>b, <2>2 DEF Admin!Submit, Admin!Answer
<1>6. ASSUME NEW b \in Browsers, Admin!Type(b) PROVE Admin!PageInv'
  <2>1. PICK f \in Admin!Fields, text \in Admin!Texts :
          form' = [form EXCEPT ![b].values[f] = text, ![b].shows = Admin!None]
    BY <1>6, TextsTyped DEF Admin!Type
  <2>2. DOMAIN form[b] = {"values", "token", "shows"}
        /\ form[b].values \in [Admin!Fields -> Admin!Texts]
    BY <1>0, <1>6 DEF Admin!Type, Admin!TruePage
  <2> DEFINE p == [form[b] EXCEPT !.values[f] = text, !.shows = Admin!None]
  <2>3. form' = [form EXCEPT ![b] = p]
    BY <1>0, <2>1
  <2>4. Admin!TruePage(p)
    <3>1. DOMAIN p = {"values", "token", "shows"} /\ p.shows = Admin!None
          /\ p.values = [form[b].values EXCEPT ![f] = text]
      BY <2>2
    <3> HIDE DEF p
    <3>2. p.values \in [Admin!Fields -> Admin!Texts]
      BY <2>2, <3>1
    <3> QED BY <3>1, <3>2 DEF Admin!TruePage
  <2>5. reply' = [reply EXCEPT ![b] = "none"] /\ UNCHANGED <<file, running, staged>>
    BY <1>6 DEF Admin!Type, Admin!Answer
  <2> HIDE DEF p
  <2> QED BY <1>0, <1>b, <2>3, <2>4, <2>5
<1>7. CASE Admin!Install
  <2>1. (file' = file \/ file' = staged) /\ staged # Admin!None /\ staged' = Admin!None
        /\ UNCHANGED <<running, form, reply>>
    BY <1>7 DEF Admin!Install
  <2>2. Admin!Usable(file') => Admin!Possible(file')
    BY <1>0, <2>1
  <2> QED BY <1>0, <1>c, <2>1, <2>2
<1>8. CASE Admin!Reload
  <2>1. Admin!Usable(file) /\ file.db = running.db /\ running' = file
    BY <1>8 DEF Admin!Reload
  <2> QED BY <1>0, <1>c, <1>8, <2>1 DEF Admin!Reload
<1>9. CASE Admin!EditByHand
  <2>1. Admin!Usable(file') => Admin!Possible(file')
    <3>1. \A k : ~Admin!Usable(Admin!Unusable(k))
      BY DEF Admin!Usable, Admin!Unusable
    <3>2. \A d \in Admin!Databases : Admin!Possible([Admin!Shipped EXCEPT !.db = d, !.limit = "2"])
      <4>1. Admin!Shipped.targets \in Seq(Admin!Names) /\ Admin!Shipped.targets # <<>>
            /\ \A i \in DOMAIN Admin!Shipped.targets : Admin!Shipped.targets[i] \in Admin!Names
        BY DEF Admin!Shipped, Admin!Names
      <4>2. PICK t : Admin!Shipped = [targets |-> t, limit |-> "1", db |-> "db"]
        BY DEF Admin!Shipped
      <4>3. t \in Seq(Admin!Names) /\ t # <<>> /\ \A i \in DOMAIN t : t[i] \in Admin!Names
        BY <4>1, <4>2
      <4> SUFFICES ASSUME NEW d \in Admin!Databases, NEW x,
                          x = [[targets |-> t, limit |-> "1", db |-> "db"]
                                 EXCEPT !.db = d, !.limit = "2"]
                   PROVE  Admin!Possible(x)
        BY <4>2
      <4>4. x \in Admin!Configs /\ x.targets = t /\ x.limit = "2"
        BY <4>3 DEF Admin!Configs, Admin!Databases
      <4> QED BY <4>3, <4>4 DEF Admin!Valid, Admin!Possible
    <3> QED BY <1>9, <3>1, <3>2 DEF Admin!EditByHand
  <2> QED BY <1>0, <1>c, <1>9, <2>1 DEF Admin!EditByHand
<1>10. CASE Admin!Restart
  BY <1>0, <1>c, <1>10 DEF Admin!Restart
<1>11. CASE UNCHANGED Admin!vars
  BY <1>0, <1>c, <1>11 DEF Admin!vars
<1> QED
  BY <1>2, <1>3, <1>4, <1>5, <1>6, <1>7, <1>8, <1>9, <1>10, <1>11 DEF Admin!Next

\* What a step does to a page is what the action does whose browser it is.
LEMMA StepIsFaithful ==
  ASSUME Admin!PageInv, Admin!PageInv', [Admin!Next]_Admin!vars PROVE Admin!IsFaithful
<1>0. /\ DOMAIN form = Browsers /\ DOMAIN reply = Browsers
      /\ \A b \in Browsers : Admin!TruePage(form[b])
  BY DEF Admin!PageInv
<1>1. staged' # Admin!None => staged'.db = "db"
  BY DEF Admin!PageInv, Admin!None
<1>2. ASSUME NEW b \in Browsers PROVE Admin!ProposesWhatItShowed(b)
  <2> SUFFICES ASSUME form[b] # Admin!None, form[b].shows # Admin!None, Admin!Submit(b)
               PROVE  staged' = [form[b].shows EXCEPT !.db = running.db]
    BY DEF Admin!ProposesWhatItShowed
  <2>1. form[b].shows \in Admin!Configs
        /\ form[b].values = Admin!ValuesFromConfig(form[b].shows)
    BY <1>0 DEF Admin!TruePage, Admin!Possible
  <2> QED BY <2>1, FormGivesBack DEF Admin!Submit
<1>3. ASSUME NEW b \in Browsers, form'[b] # form[b]
      PROVE  \/ reply'[b] \notin {"refused", "shown"}
             \/ Admin!SubmitRefused(b) \/ Admin!Visit(b)
  <2>1. PICK c \in Browsers : \/ Admin!Visit(c) \/ Admin!Type(c) \/ Admin!Submit(c)
                              \/ Admin!SubmitRefused(c) \/ Admin!SubmitForeign(c)
    BY <1>3 DEF Admin!Next, Admin!vars, Admin!Install, Admin!Reload, Admin!EditByHand,
       Admin!Restart
  <2>2. \A d \in Browsers \ {c} : form'[d] = form[d]
    BY <1>0, <2>1 DEF Admin!Visit, Admin!Type, Admin!Submit, Admin!SubmitRefused,
       Admin!SubmitForeign, Admin!Open
  <2>3. c = b
    BY <1>3, <2>2
  <2>4. CASE Admin!Type(b) \/ Admin!Submit(b) \/ Admin!SubmitForeign(b)
    BY <1>0, <2>4 DEF Admin!Type, Admin!Submit, Admin!SubmitForeign, Admin!Answer
  <2> QED BY <2>1, <2>3, <2>4
<1>4. ASSUME NEW b \in Browsers PROVE Admin!KeepsTheEdit(b)
  <2> SUFFICES ASSUME reply'[b] = "refused", form'[b] # form[b]
               PROVE  form'[b].values = form[b].values /\ form'[b].token = process
    BY DEF Admin!KeepsTheEdit
  <2>1. CASE Admin!SubmitRefused(b)
    BY <1>0, <2>1 DEF Admin!SubmitRefused, Admin!Open
  <2>2. CASE Admin!Visit(b)
    BY <1>0, <2>2 DEF Admin!Visit, Admin!Answer
  <2> QED BY <1>3, <2>1, <2>2
<1>5. ASSUME NEW b \in Browsers PROVE Admin!ShowsTheFile(b)
  <2> SUFFICES ASSUME form'[b] # form[b], reply'[b] = "shown", Admin!Usable(file)
               PROVE  form'[b].shows = file
    BY DEF Admin!ShowsTheFile
  <2>1. CASE Admin!SubmitRefused(b)
    BY <1>0, <2>1 DEF Admin!SubmitRefused, Admin!Answer
  <2>2. CASE Admin!Visit(b)
    <3>1. \A k : file # Admin!Unusable(k)
      BY DEF Admin!Usable, Admin!Unusable
    <3> QED BY <1>0, <2>2, <3>1 DEF Admin!Visit, Admin!Open
  <2> QED BY <1>3, <2>1, <2>2
<1> QED BY <1>1, <1>2, <1>4, <1>5 DEF Admin!IsFaithful

LEMMA PageInvariant == PartSpec => []Admin!PageInv
<1>1. PartInit => Admin!PageInv
  BY InitPageInv DEF PartInit
<1>2. Admin!PageInv /\ [PartNext]_partVars => Admin!PageInv'
  <2> SUFFICES ASSUME Admin!PageInv, [PartNext]_partVars PROVE [Admin!Next]_Admin!vars
    BY AdminStepKeepsInv DEF Admin!vars
  <2> QED BY DEF PartNext, Caching, partVars, adminVars, Admin!vars
<1> QED BY <1>1, <1>2, PTL DEF PartSpec

\* The form shows the file, a refused edit comes back as it was typed, a page submitted
\* as it was shown proposes what it showed, however old it is and whatever was
\* installed since, and nothing proposed moves the database.
THEOREM FormsTrue == PartSpec => FormsAreFaithful
<1>1. Admin!PageInv /\ Admin!PageInv' /\ [PartNext]_partVars => [Admin!IsFaithful]_partVars
  <2> SUFFICES ASSUME Admin!PageInv, Admin!PageInv', [PartNext]_partVars PROVE Admin!IsFaithful
    OBVIOUS
  <2>1. [Admin!Next]_Admin!vars
    BY DEF PartNext, Caching, partVars, adminVars, Admin!vars
  <2> QED BY <2>1, StepIsFaithful DEF Admin!vars
<1> QED BY <1>1, PageInvariant, PTL DEF PartSpec, FormsAreFaithful
-----------------------------------------------------------------------------
(* The views of the pings *)

\* The other instance; what either defines, PartSpec's own copy of it defines alike.
BoxesProved == INSTANCE PingCharts_proofs WITH
    now <- hour, Hours <- 1, Window <- 1,
    MaxLatency <- MaxSpread, FlushLag <- 0, MaxPings <- MaxSamples, MaxNow <- 0

LEMMA SameCharts ==
  /\ ChartsProved!ChartAssumption
  /\ Charts!Init <=> ChartsProved!Init
  /\ Charts!Next <=> ChartsProved!Next
  /\ UNCHANGED Charts!vars <=> UNCHANGED ChartsProved!vars
  /\ Charts!ChartsAreTrue <=> ChartsProved!ChartsAreTrue
<1>1. ChartsProved!ChartAssumption
  BY PartAssumption
     DEF PartAssumption, Charts!ChartAssumption, Charts!IsFiniteSet, Charts!Views,
        ChartsProved!ChartAssumption, ChartsProved!IsFiniteSet, ChartsProved!Views
<1>2. Charts!Init <=> ChartsProved!Init
  BY DEF Charts!Init, Charts!NoPings, Charts!Rows, Charts!Latencies, Charts!NoReply, Charts!Views,
             Charts!NoEntry, ChartsProved!Init, ChartsProved!NoPings, ChartsProved!Rows,
             ChartsProved!Latencies, ChartsProved!NoReply, ChartsProved!Views,
             ChartsProved!NoEntry
<1>3. Charts!Next <=> ChartsProved!Next
  BY Zenon DEF Charts!Next, Charts!Tick, Charts!Flush, Charts!Ask, Charts!AnswerHourly,
             Charts!AnswerRecent, Charts!Read, Charts!Fresh, Charts!NoEntry, Charts!SummaryStart,
             Charts!Hour, Charts!Size, Charts!MapThenSumSet, Charts!MapThenFoldSet, Charts!Rows,
             Charts!Latencies, Charts!NoReply, Charts!Summary, Charts!Sampled, Charts!Box,
             Charts!Ranked, Charts!FlattenSeq, Charts!HoursShown, Charts!TextOrders,
             Charts!Listed, Charts!AtLeast, Charts!Mark, Charts!SetToSeqs, Charts!Cardinality,
             Charts!NearestRank, Charts!MedianRank, ChartsProved!Next, ChartsProved!Tick,
             ChartsProved!Flush, ChartsProved!Ask, ChartsProved!AnswerHourly,
             ChartsProved!AnswerRecent, ChartsProved!Read, ChartsProved!Fresh,
             ChartsProved!NoEntry, ChartsProved!SummaryStart, ChartsProved!Hour,
             ChartsProved!Size, ChartsProved!MapThenSumSet, ChartsProved!MapThenFoldSet,
             ChartsProved!Rows, ChartsProved!Latencies, ChartsProved!NoReply,
             ChartsProved!Summary, ChartsProved!Sampled, ChartsProved!Box, ChartsProved!Ranked,
             ChartsProved!FlattenSeq, ChartsProved!HoursShown, ChartsProved!TextOrders,
             ChartsProved!Listed, ChartsProved!AtLeast, ChartsProved!Mark, ChartsProved!SetToSeqs,
             ChartsProved!Cardinality, ChartsProved!NearestRank, ChartsProved!MedianRank
<1>4. UNCHANGED Charts!vars <=> UNCHANGED ChartsProved!vars
  BY DEF Charts!vars, ChartsProved!vars
<1>5. Charts!ChartsAreTrue <=> ChartsProved!ChartsAreTrue
  BY Zenon DEF Charts!ChartsAreTrue, Charts!IsTrue, Charts!NoEntry, Charts!BoxesAreTrue,
             Charts!NoBoxIsMissing, Charts!IsTheWindow, Charts!Columns, Charts!Samples,
             Charts!IsQuantile, Charts!IsOfQuartiles, Charts!Min, Charts!Max, Charts!ToSet,
             Charts!Hour, Charts!Size, Charts!MapThenSumSet, Charts!MapThenFoldSet, Charts!Rows,
             Charts!Latencies, Charts!NoReply, Charts!Cardinality, ChartsProved!ChartsAreTrue,
             ChartsProved!IsTrue, ChartsProved!NoEntry, ChartsProved!BoxesAreTrue,
             ChartsProved!NoBoxIsMissing, ChartsProved!IsTheWindow, ChartsProved!Columns,
             ChartsProved!Samples, ChartsProved!IsQuantile, ChartsProved!IsOfQuartiles,
             ChartsProved!Min, ChartsProved!Max, ChartsProved!ToSet, ChartsProved!Hour,
             ChartsProved!Size, ChartsProved!MapThenSumSet, ChartsProved!MapThenFoldSet,
             ChartsProved!Rows, ChartsProved!Latencies, ChartsProved!NoReply,
             ChartsProved!Cardinality
<1> QED BY <1>1, <1>2, <1>3, <1>4, <1>5

LEMMA SameBoxes ==
  /\ BoxesProved!ChartAssumption
  /\ Boxes!Init <=> BoxesProved!Init
  /\ Boxes!Next <=> BoxesProved!Next
  /\ UNCHANGED Boxes!vars <=> UNCHANGED BoxesProved!vars
  /\ Boxes!ChartsAreTrue <=> BoxesProved!ChartsAreTrue
<1>1. BoxesProved!ChartAssumption
  BY PartAssumption
     DEF PartAssumption, Boxes!ChartAssumption, Boxes!IsFiniteSet, Boxes!Views,
        BoxesProved!ChartAssumption, BoxesProved!IsFiniteSet, BoxesProved!Views
<1>2. Boxes!Init <=> BoxesProved!Init
  BY DEF Boxes!Init, Boxes!NoPings, Boxes!Rows, Boxes!Latencies, Boxes!NoReply, Boxes!Views,
             Boxes!NoEntry, BoxesProved!Init, BoxesProved!NoPings, BoxesProved!Rows,
             BoxesProved!Latencies, BoxesProved!NoReply, BoxesProved!Views, BoxesProved!NoEntry
<1>3. Boxes!Next <=> BoxesProved!Next
  BY Zenon DEF Boxes!Next, Boxes!Tick, Boxes!Flush, Boxes!Ask, Boxes!AnswerHourly,
             Boxes!AnswerRecent, Boxes!Read, Boxes!Fresh, Boxes!NoEntry, Boxes!SummaryStart,
             Boxes!Hour, Boxes!Size, Boxes!MapThenSumSet, Boxes!MapThenFoldSet, Boxes!Rows,
             Boxes!Latencies, Boxes!NoReply, Boxes!Summary, Boxes!Sampled, Boxes!Box,
             Boxes!Ranked, Boxes!FlattenSeq, Boxes!HoursShown, Boxes!TextOrders, Boxes!Listed,
             Boxes!AtLeast, Boxes!Mark, Boxes!SetToSeqs, Boxes!Cardinality, Boxes!NearestRank,
             Boxes!MedianRank, BoxesProved!Next, BoxesProved!Tick, BoxesProved!Flush,
             BoxesProved!Ask, BoxesProved!AnswerHourly, BoxesProved!AnswerRecent,
             BoxesProved!Read, BoxesProved!Fresh, BoxesProved!NoEntry, BoxesProved!SummaryStart,
             BoxesProved!Hour, BoxesProved!Size, BoxesProved!MapThenSumSet,
             BoxesProved!MapThenFoldSet, BoxesProved!Rows, BoxesProved!Latencies,
             BoxesProved!NoReply, BoxesProved!Summary, BoxesProved!Sampled, BoxesProved!Box,
             BoxesProved!Ranked, BoxesProved!FlattenSeq, BoxesProved!HoursShown,
             BoxesProved!TextOrders, BoxesProved!Listed, BoxesProved!AtLeast, BoxesProved!Mark,
             BoxesProved!SetToSeqs, BoxesProved!Cardinality, BoxesProved!NearestRank,
             BoxesProved!MedianRank
<1>4. UNCHANGED Boxes!vars <=> UNCHANGED BoxesProved!vars
  BY DEF Boxes!vars, BoxesProved!vars
<1>5. Boxes!ChartsAreTrue <=> BoxesProved!ChartsAreTrue
  BY Zenon DEF Boxes!ChartsAreTrue, Boxes!IsTrue, Boxes!NoEntry, Boxes!BoxesAreTrue,
             Boxes!NoBoxIsMissing, Boxes!IsTheWindow, Boxes!Columns, Boxes!Samples,
             Boxes!IsQuantile, Boxes!IsOfQuartiles, Boxes!Min, Boxes!Max, Boxes!ToSet, Boxes!Hour,
             Boxes!Size, Boxes!MapThenSumSet, Boxes!MapThenFoldSet, Boxes!Rows, Boxes!Latencies,
             Boxes!NoReply, Boxes!Cardinality, BoxesProved!ChartsAreTrue, BoxesProved!IsTrue,
             BoxesProved!NoEntry, BoxesProved!BoxesAreTrue, BoxesProved!NoBoxIsMissing,
             BoxesProved!IsTheWindow, BoxesProved!Columns, BoxesProved!Samples,
             BoxesProved!IsQuantile, BoxesProved!IsOfQuartiles, BoxesProved!Min, BoxesProved!Max,
             BoxesProved!ToSet, BoxesProved!Hour, BoxesProved!Size, BoxesProved!MapThenSumSet,
             BoxesProved!MapThenFoldSet, BoxesProved!Rows, BoxesProved!Latencies,
             BoxesProved!NoReply, BoxesProved!Cardinality
<1> QED BY <1>1, <1>2, <1>3, <1>4, <1>5

\* The two share their variables, which are of the part that moves.
ViewInv ==
    /\ part = "charts" => ChartsProved!ChartInv
    /\ part = "boxes" => BoxesProved!ChartInv

LEMMA InitViewInv == PartInit => ViewInv
<1>1. PartInit /\ part = "charts" => ChartsProved!ChartInv
  <2>1. PartInit /\ part = "charts" => Charts!Init
    BY DEF PartInit
  <2> QED BY <2>1, SameCharts, ChartsProved!InitChartInv
<1>2. PartInit /\ part = "boxes" => BoxesProved!ChartInv
  <2>1. PartInit /\ part = "boxes" => Boxes!Init
    BY DEF PartInit
  <2> QED BY <2>1, SameBoxes, BoxesProved!InitChartInv
<1> QED BY <1>1, <1>2 DEF ViewInv

LEMMA NextViewInv == ViewInv /\ [PartNext]_partVars => ViewInv'
<1> SUFFICES ASSUME ViewInv, [PartNext]_partVars PROVE ViewInv'
  OBVIOUS
<1>1. part' = part
  BY DEF PartNext, Caching, partVars
<1>2. ASSUME part = "charts" PROVE ChartsProved!ChartInv'
  <2>1. Charts!Next \/ UNCHANGED Charts!vars
    BY <1>2 DEF PartNext, Caching, partVars, chartVars, Charts!vars
  <2>2. ChartsProved!Next \/ UNCHANGED ChartsProved!vars
    BY <2>1, SameCharts
  <2> QED BY <1>2, <2>2, SameCharts, ChartsProved!NextChartInv DEF ViewInv
<1>3. ASSUME part = "boxes" PROVE BoxesProved!ChartInv'
  <2>1. Boxes!Next \/ UNCHANGED Boxes!vars
    BY <1>3 DEF PartNext, Caching, partVars, chartVars, Boxes!vars
  <2>2. BoxesProved!Next \/ UNCHANGED BoxesProved!vars
    BY <2>1, SameBoxes
  <2> QED BY <1>3, <2>2, SameBoxes, BoxesProved!NextChartInv DEF ViewInv
<1> QED BY <1>1, <1>2, <1>3 DEF ViewInv

\* Whatever the ping service writes meanwhile, however late the answer and whosever
\* window it was computed for: it is of the table as it was less than the lifetime
\* before; a box has the count and the five numbers of all the answered pings of its
\* hour and target, none is missing, there are no more columns than hours and turns of
\* the hour between fixing the window and querying, and the list of recent pings is that
\* of its window, in order.
THEOREM ChartsTrue == PartSpec => []ChartsAreTrue
<1>1. PartInit => ViewInv
  BY InitViewInv
<1>2. ViewInv /\ [PartNext]_partVars => ViewInv'
  BY NextViewInv
<1>3. ViewInv => ChartsAreTrue
  <2>1. ChartsProved!ChartInv => Charts!ChartsAreTrue
    BY SameCharts, ChartsProved!AnswersAreTrue
  <2>2. BoxesProved!ChartInv => Boxes!ChartsAreTrue
    BY SameBoxes, BoxesProved!AnswersAreTrue
  <2> QED BY <2>1, <2>2 DEF ViewInv, ChartsAreTrue
<1> QED BY <1>1, <1>2, <1>3, PTL DEF PartSpec
=============================================================================
