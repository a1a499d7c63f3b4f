-------------------------- MODULE PingCharts_proofs --------------------------
(***************************************************************************)
(* Theorems about PingCharts, for any targets, hours and windows, any      *)
(* number of latencies that are told apart, of pings and of instants.  The *)
(* lemmas before them say what the sums and the sequences that the views   *)
(* are built from return.                                                  *)
(***************************************************************************)
EXTENDS PingCharts, SequenceTheorems, FiniteSetTheorems, WellFoundedInduction, TLAPS

\* A set of naturals has a least.
LEMMA LeastOf ==
  ASSUME NEW S \in SUBSET Nat, S # {}
  PROVE  \E x \in S : \A y \in S : x <= y
<1>1. PICK x \in S : \A y \in S : ~(<<y, x>> \in OpToRel(<, Nat))
  BY NatLessThanWellFounded, WFMin
<1>2. \A y \in S : x <= y
  <2> TAKE y \in S
  <2>1. x \in Nat /\ y \in Nat
    OBVIOUS
  <2>2. ~(y < x)
    BY <1>1, <2>1 DEF OpToRel
  <2> QED BY <2>1, <2>2
<1> QED BY <1>1, <1>2
-----------------------------------------------------------------------------
(* Sums over a bag *)

\* The pings a bag stands for, each with a number among those of its row.
Copies(rows, bag) == {p \in rows \X Nat : 1 <= p[2] /\ p[2] <= bag[p[1]]}

\* A finite bag of at most m of each row has finitely many.
LEMMA CopiesFinite ==
  ASSUME NEW S, IsFiniteSet(S), NEW m \in Nat, NEW bag, \A r \in S : bag[r] \in 0..m,
         NEW A \in SUBSET S
  PROVE  IsFiniteSet(A) /\ IsFiniteSet(Copies(A, bag)) /\ Cardinality(Copies(A, bag)) \in Nat
<1>1. IsFiniteSet(A)
  BY FS_Subset
<1>2. IsFiniteSet(1..m)
  BY FS_Interval
<1>3. IsFiniteSet(A \X (1..m))
  BY <1>1, <1>2, FS_Product
<1>4. Copies(A, bag) \in SUBSET (A \X (1..m))
  BY DEF Copies
<1>5. IsFiniteSet(Copies(A, bag))
  BY <1>3, <1>4, FS_Subset
<1> QED BY <1>1, <1>5, FS_CardinalityType

\* One row adds as many as there are of it.
LEMMA CopiesOfOne ==
  ASSUME NEW S, IsFiniteSet(S), NEW m \in Nat, NEW bag, \A r \in S : bag[r] \in 0..m,
         NEW A \in SUBSET S, NEW x \in A
  PROVE  Cardinality(Copies(A, bag)) = bag[x] + Cardinality(Copies(A \ {x}, bag))
<1> DEFINE one == {x} \X (1..bag[x])
           rest == Copies(A \ {x}, bag)
<1>1. bag[x] \in Nat
  OBVIOUS
<1>2. IsFiniteSet(one) /\ Cardinality(one) = bag[x]
  <2>1. IsFiniteSet({x}) /\ Cardinality({x}) = 1
    BY FS_Singleton
  <2>2. PICK n \in Nat : n = bag[x]
    BY <1>1
  <2>3. IsFiniteSet(1..n) /\ Cardinality(1..n) = n
    <3>1. IsFiniteSet(1..n) /\ Cardinality(1..n) = IF 1 > n THEN 0 ELSE n - 1 + 1
      BY FS_Interval
    <3> QED BY <3>1
  <2>4. IsFiniteSet({x} \X (1..n)) /\ Cardinality({x} \X (1..n)) = 1 * n
    BY <2>1, <2>3, FS_Product
  <2> QED BY <2>2, <2>4
<1>3. IsFiniteSet(rest) /\ Cardinality(rest) \in Nat
  BY CopiesFinite
<1>4. Copies(A, bag) = one \cup rest /\ one \cap rest = {}
  BY <1>1 DEF Copies
<1>5. Cardinality(one \cup rest) = Cardinality(one) + Cardinality(rest) - Cardinality({})
  BY <1>2, <1>3, <1>4, FS_Union, ZenonT(30)
<1> HIDE DEF one, rest
<1> QED BY <1>1, <1>2, <1>3, <1>4, <1>5, FS_EmptySet DEF rest

\* The recursion by which MapThenSumSet is defined, for Size.
Sums(f, S, bag) ==
    f = [s \in SUBSET S |->
           IF s = {} THEN 0
           ELSE LET x == CHOOSE x \in s : TRUE IN bag[x] + f[s \ {x}]]

\* Size counts the pings.  Counting them satisfies the equation of the recursion, so
\* there is a function that does; and any such function counts: of the sets for
\* which it did not, one would be the smallest, and not empty, and the equation
\* would make it wrong for a smaller one too.
LEMMA SizeCounts ==
  ASSUME NEW S, IsFiniteSet(S), NEW m \in Nat, NEW bag, \A r \in S : bag[r] \in 0..m
  PROVE  Size(S, bag) = Cardinality(Copies(S, bag))
<1> DEFINE count == [s \in SUBSET S |-> Cardinality(Copies(s, bag))]
           sum == CHOOSE f : Sums(f, S, bag)
<1>1. Size(S, bag) = sum[S]
  BY DEF Size, MapThenSumSet, MapThenFoldSet, Sums
<1>2. Sums(count, S, bag)
  <2>1. ASSUME NEW s \in SUBSET S, s = {} PROVE count[s] = 0
    <3>1. Copies(s, bag) = {}
      BY <2>1 DEF Copies
    <3> QED BY <3>1, FS_EmptySet
  <2>2. ASSUME NEW s \in SUBSET S, s # {}, NEW x, x = CHOOSE y \in s : TRUE
        PROVE  count[s] = bag[x] + count[s \ {x}]
    <3>1. x \in s
      BY <2>2
    <3>2. s \ {x} \in SUBSET S
      OBVIOUS
    <3>3. Cardinality(Copies(s, bag)) = bag[x] + Cardinality(Copies(s \ {x}, bag))
      BY <3>1, CopiesOfOne
    <3> QED BY <3>2, <3>3
  <2> HIDE DEF count
  <2>3. \A s \in SUBSET S :
          count[s] = IF s = {} THEN 0
                     ELSE LET x == CHOOSE x \in s : TRUE IN bag[x] + count[s \ {x}]
    BY <2>1, <2>2
  <2>4. count = [s \in SUBSET S |-> count[s]]
    BY DEF count
  <2> QED BY <2>3, <2>4 DEF Sums
<1>3. Sums(sum, S, bag)
  BY <1>2
<1>4. \A s \in SUBSET S :
        sum[s] = IF s = {} THEN 0
                 ELSE LET x == CHOOSE x \in s : TRUE IN bag[x] + sum[s \ {x}]
  BY <1>3 DEF Sums
<1>5. \A s \in SUBSET S :
        count[s] = IF s = {} THEN 0
                   ELSE LET x == CHOOSE x \in s : TRUE IN bag[x] + count[s \ {x}]
  BY <1>2 DEF Sums
<1> HIDE DEF sum, count
<1> DEFINE wrong == {s \in SUBSET S : sum[s] # count[s]}
           sizes == {n \in Nat : \E s \in wrong : n = Cardinality(s)}
<1>6. \A s \in SUBSET S : IsFiniteSet(s) /\ Cardinality(s) \in Nat
  BY FS_Subset, FS_CardinalityType
<1>7. wrong = {}
  <2> SUFFICES ASSUME wrong # {} PROVE FALSE
    OBVIOUS
  <2>1. sizes # {} /\ sizes \in SUBSET Nat
    BY <1>6
  <2>2. PICK n \in sizes : \A k \in sizes : n <= k
    <3> HIDE DEF sizes
    <3> QED BY <2>1, LeastOf
  <2>3. PICK s \in wrong : n = Cardinality(s)
    BY <2>2
  <2>4. s # {}
    BY <1>4, <1>5, <2>3
  <2>5. PICK x \in s : x = CHOOSE y \in s : TRUE
    BY <2>4
  <2>6. Cardinality(s \ {x}) = n - 1 /\ n - 1 \in Nat /\ n \in Nat
    BY <1>6, <2>3, FS_RemoveElement
  <2>7. sum[s \ {x}] = count[s \ {x}]
    <3> SUFFICES ASSUME s \ {x} \in wrong PROVE FALSE
      BY <2>3
    <3>1. \E r \in wrong : n - 1 = Cardinality(r)
      BY <2>6
    <3>2. n - 1 \in sizes
      BY <2>6, <3>1
    <3> HIDE DEF sizes, wrong
    <3> QED BY <2>2, <2>6, <3>2
  <2>8. sum[s] = bag[x] + sum[s \ {x}] /\ count[s] = bag[x] + count[s \ {x}]
    BY <1>4, <1>5, <2>3, <2>4, <2>5
  <2> QED BY <2>3, <2>7, <2>8
<1>8. sum[S] = count[S]
  BY <1>7
<1> QED BY <1>1, <1>8 DEF count

LEMMA SizeIsNat ==
  ASSUME NEW S, IsFiniteSet(S), NEW m \in Nat, NEW bag, \A r \in S : bag[r] \in 0..m,
         NEW A \in SUBSET S
  PROVE  /\ Size(A, bag) = Cardinality(Copies(A, bag))
         /\ Size(A, bag) \in Nat
         /\ Size(A, bag) > 0 <=> \E r \in A : bag[r] > 0
<1>1. IsFiniteSet(A) /\ \A r \in A : bag[r] \in 0..m
  BY FS_Subset
<1>2. Size(A, bag) = Cardinality(Copies(A, bag))
  BY <1>1, SizeCounts
<1>3. IsFiniteSet(Copies(A, bag)) /\ Cardinality(Copies(A, bag)) \in Nat
  BY CopiesFinite
<1>4. Cardinality(Copies(A, bag)) = 0 <=> Copies(A, bag) = {}
  BY <1>3, FS_EmptySet
<1>5. ASSUME NEW r \in A, bag[r] > 0 PROVE Copies(A, bag) # {}
  <2>1. <<r, 1>> \in Copies(A, bag)
    BY <1>1, <1>5 DEF Copies
  <2> QED BY <2>1
<1>6. ASSUME Copies(A, bag) # {} PROVE \E r \in A : bag[r] > 0
  <2>1. PICK p \in Copies(A, bag) : TRUE
    BY <1>6
  <2>2. p[1] \in A /\ p[2] \in Nat /\ 1 <= p[2] /\ p[2] <= bag[p[1]]
    BY <2>1 DEF Copies
  <2> QED BY <1>1, <2>2
<1> QED BY <1>2, <1>3, <1>4, <1>5, <1>6

\* Sums of disjoint sets of rows add up.
LEMMA SizeAdds ==
  ASSUME NEW S, IsFiniteSet(S), NEW m \in Nat, NEW bag, \A r \in S : bag[r] \in 0..m,
         NEW A \in SUBSET S, NEW B \in SUBSET S, A \cap B = {}
  PROVE  Size(A \cup B, bag) = Size(A, bag) + Size(B, bag)
<1>1. A \cup B \in SUBSET S
  OBVIOUS
<1>2. /\ Size(A \cup B, bag) = Cardinality(Copies(A \cup B, bag))
      /\ Size(A, bag) = Cardinality(Copies(A, bag)) /\ Size(A, bag) \in Nat
      /\ Size(B, bag) = Cardinality(Copies(B, bag)) /\ Size(B, bag) \in Nat
  BY <1>1, SizeIsNat
<1>3. IsFiniteSet(Copies(A, bag)) /\ IsFiniteSet(Copies(B, bag))
  BY CopiesFinite
<1>4. Copies(A \cup B, bag) = Copies(A, bag) \cup Copies(B, bag)
      /\ Copies(A, bag) \cap Copies(B, bag) = {}
  BY DEF Copies
<1> DEFINE P == Copies(A, bag)  Q == Copies(B, bag)
<1>5. Cardinality(P \cup Q) = Cardinality(P) + Cardinality(Q)
  <2>1. IsFiniteSet(P) /\ IsFiniteSet(Q) /\ P \cap Q = {}
    BY <1>3, <1>4
  <2>2. Cardinality(P) \in Nat /\ Cardinality(Q) \in Nat
    BY <1>2
  <2> HIDE DEF P, Q
  <2>3. Cardinality(P \cup Q) = Cardinality(P) + Cardinality(Q) - Cardinality(P \cap Q)
    BY <2>1, FS_Union
  <2>4. Cardinality(P \cap Q) = 0
    BY <2>1, FS_EmptySet
  <2> QED BY <2>2, <2>3, <2>4
<1> QED BY <1>2, <1>4, <1>5

LEMMA SizeGrows ==
  ASSUME NEW S, IsFiniteSet(S), NEW m \in Nat, NEW bag, \A r \in S : bag[r] \in 0..m,
         NEW A \in SUBSET S, NEW B \in SUBSET A
  PROVE  Size(B, bag) <= Size(A, bag)
<1>1. B \in SUBSET S /\ A \ B \in SUBSET S /\ B \cap (A \ B) = {} /\ B \cup (A \ B) = A
  OBVIOUS
<1>2. Size(A, bag) = Size(B, bag) + Size(A \ B, bag)
  BY <1>1, SizeAdds
<1>3. Size(B, bag) \in Nat /\ Size(A \ B, bag) \in Nat
  BY <1>1, SizeIsNat
<1> QED BY <1>2, <1>3

\* One more of a row is one more in all.
LEMMA SizeOfOneMore ==
  ASSUME NEW S, IsFiniteSet(S), NEW m \in Nat, NEW bag \in [S -> 0..m], NEW x \in S
  PROVE  Size(S, [bag EXCEPT ![x] = @ + 1]) = Size(S, bag) + 1
<1> DEFINE more == [bag EXCEPT ![x] = @ + 1]
<1>1. /\ \A r \in S : bag[r] \in 0..m
      /\ \A r \in S : more[r] \in 0..(m + 1)
      /\ more[x] = bag[x] + 1 /\ bag[x] \in Nat /\ m + 1 \in Nat
      /\ \A r \in S \ {x} : more[r] = bag[r]
  OBVIOUS
<1>2. Copies(S \ {x}, more) = Copies(S \ {x}, bag)
  BY <1>1 DEF Copies
<1>3. Cardinality(Copies(S, bag)) = bag[x] + Cardinality(Copies(S \ {x}, bag))
      /\ Cardinality(Copies(S \ {x}, bag)) \in Nat
  BY <1>1, CopiesOfOne, CopiesFinite
<1> HIDE DEF more
<1>4. Cardinality(Copies(S, more)) = more[x] + Cardinality(Copies(S \ {x}, more))
  BY <1>1, CopiesOfOne
<1>5. /\ Size(S, bag) = Cardinality(Copies(S, bag))
      /\ Size(S, more) = Cardinality(Copies(S, more))
  BY <1>1, SizeCounts
<1> QED BY <1>1, <1>2, <1>3, <1>4, <1>5 DEF more
-----------------------------------------------------------------------------
(* Sequences one after the other *)

\* f is what FlattenSeq computes of s on its way.
Unfolds(f, s) ==
    /\ FlattenSeq(s) = f[Len(s)]
    /\ \A i \in 1..Len(s) : f[i] = IF i = 1 THEN s[i] ELSE f[i-1] \o s[i]

\* FlattenSeq is defined by recursion: there are functions that its equation defines
\* on every beginning of the lines, since a first beginning without one would have a
\* beginning before it that the equation extends; so it chooses one, and the values of
\* that are sequences, since a first place that has none would have one before it.
LEMMA FlattenUnfolds ==
  ASSUME NEW X, NEW s \in Seq(Seq(X)), Len(s) # 0
  PROVE  \E f \in [1..Len(s) -> Seq(X)] : Unfolds(f, s)
<1> DEFINE n == Len(s)
           Step(f, k) == [i \in 1..k |-> IF i = 1 THEN s[i] ELSE f[i-1] \o s[i]]
           flatten == CHOOSE f : f = Step(f, n)
           Defined(k) == \E f \in [1..k -> Seq(X)] : f = Step(f, k)
           Undefined == {k \in 1..n : ~Defined(k)}
<1>1. n \in Nat /\ n \in 1..n /\ \A i \in 1..n : s[i] \in Seq(X)
  OBVIOUS
<1>2. FlattenSeq(s) = flatten[n]
  BY <1>1 DEF FlattenSeq
<1> HIDE DEF n, flatten
<1>3. Defined(1)
  <2> DEFINE f == [i \in 1..1 |-> s[i]]
  <2>1. f \in [1..1 -> Seq(X)]
    BY <1>1
  <2>2. f = Step(f, 1)
    OBVIOUS
  <2> HIDE DEF f, Step
  <2> QED BY <2>1, <2>2
<1>4. ASSUME NEW k \in 1..n, k + 1 \in 1..n, Defined(k) PROVE Defined(k + 1)
  <2>1. PICK f \in [1..k -> Seq(X)] : f = Step(f, k)
    BY <1>4
  <2>2. \A i \in 1..k : f[i] = IF i = 1 THEN s[i] ELSE f[i-1] \o s[i]
    BY <2>1
  <2> DEFINE g == [i \in 1..(k + 1) |-> IF i <= k THEN f[i] ELSE f[k] \o s[i]]
  <2>3. g \in [1..(k + 1) -> Seq(X)]
    <3> SUFFICES ASSUME NEW i \in 1..(k + 1) PROVE g[i] \in Seq(X)
      OBVIOUS
    <3>1. CASE i <= k
      BY <1>1, <3>1
    <3>2. CASE i = k + 1
      <4>1. f[k] \in Seq(X) /\ s[i] \in Seq(X)
        BY <1>1, <1>4, <3>2
      <4>2. f[k] \o s[i] \in Seq(X)
        BY <4>1
      <4> QED BY <1>1, <3>2, <4>2
    <3> QED BY <1>1, <3>1, <3>2
  <2>4. \A i \in 1..(k + 1) : g[i] = IF i = 1 THEN s[i] ELSE g[i-1] \o s[i]
    <3> TAKE i \in 1..(k + 1)
    <3>1. CASE i <= k
      <4>1. i \in 1..k /\ (i # 1 => i - 1 \in 1..(k + 1) /\ i - 1 <= k)
        BY <1>1, <3>1
      <4> QED BY <2>2, <3>1, <4>1
    <3>2. CASE i = k + 1
      <4>1. i # 1 /\ i - 1 = k /\ k \in 1..(k + 1) /\ ~(i <= k)
        BY <1>1, <3>2
      <4> QED BY <3>2, <4>1
    <3> QED BY <1>1, <3>1, <3>2
  <2>5. g = Step(g, k + 1)
    <3> HIDE DEF g
    <3> QED BY <2>3, <2>4
  <2> HIDE DEF g, Step
  <2> QED BY <2>3, <2>5
<1>5. Undefined = {}
  <2> SUFFICES ASSUME Undefined # {} PROVE FALSE
    OBVIOUS
  <2>1. PICK k \in Undefined : \A j \in Undefined : k <= j
    <3> HIDE DEF Defined
    <3>1. Undefined \in SUBSET Nat
      BY <1>1
    <3> HIDE DEF Undefined
    <3> QED BY <3>1, LeastOf
  <2> HIDE DEF Defined
  <2>2. k \in 1..n /\ ~Defined(k) /\ k # 1
    BY <1>3
  <2>3. k - 1 \in 1..n /\ (k - 1) + 1 = k /\ k - 1 \notin Undefined
    BY <1>1, <2>1, <2>2
  <2> QED BY <1>4, <2>2, <2>3
<1>6. flatten = Step(flatten, n)
  <2>1. Defined(n)
    <3> HIDE DEF Defined
    <3> QED BY <1>1, <1>5
  <2>2. \E f : f = Step(f, n)
    BY <2>1
  <2> HIDE DEF Step
  <2> QED BY <2>2 DEF flatten
<1>7. \A i \in 1..n : flatten[i] = IF i = 1 THEN s[i] ELSE flatten[i-1] \o s[i]
  BY <1>6
<1> DEFINE Untyped == {i \in 1..n : flatten[i] \notin Seq(X)}
<1>8. Untyped = {}
  <2> SUFFICES ASSUME Untyped # {} PROVE FALSE
    OBVIOUS
  <2>1. PICK i \in Untyped : \A j \in Untyped : i <= j
    <3>1. Untyped \in SUBSET Nat
      BY <1>1
    <3> HIDE DEF Untyped
    <3> QED BY <3>1, LeastOf
  <2>2. i \in 1..n /\ i # 1 /\ s[i] \in Seq(X)
    BY <1>1, <1>7
  <2>3. i - 1 \in 1..n /\ i - 1 \notin Untyped
    BY <1>1, <2>1, <2>2
  <2>4. flatten[i-1] \o s[i] \in Seq(X)
    BY <2>2, <2>3
  <2> QED BY <1>7, <2>2, <2>4
<1>9. \A i \in 1..n : flatten[i] \in Seq(X)
  BY <1>8
<1>10. flatten \in [1..n -> Seq(X)]
  BY <1>6, <1>9
<1>11. Unfolds(flatten, s)
  BY <1>2, <1>7 DEF n, Unfolds
<1> QED BY <1>10, <1>11 DEF n
-----------------------------------------------------------------------------
(* Instants and rows *)

\* Comparing two timestamps as text is comparing them.
LEMMA TextIsTime ==
  ASSUME NEW t \in Int, NEW u \in Int PROVE AtLeast(t, u) <=> t >= u
<1>1. /\ t \div 2 \in Int /\ t % 2 \in {0, 1} /\ t = 2 * (t \div 2) + (t % 2)
      /\ u \div 2 \in Int /\ u % 2 \in {0, 1} /\ u = 2 * (u \div 2) + (u % 2)
  OBVIOUS
<1> DEFINE a == t \div 2  b == u \div 2  r == t % 2  q == u % 2
<1>2. AtLeast(t, u) <=> a > b \/ (a = b /\ (IF r = 0 THEN 43 ELSE 46) >= IF q = 0 THEN 43 ELSE 46)
  BY DEF AtLeast, Mark
<1>3. a \in Int /\ b \in Int /\ r \in {0, 1} /\ q \in {0, 1} /\ t = 2 * a + r /\ u = 2 * b + q
  BY <1>1
<1> HIDE DEF a, b, r, q
<1> QED BY <1>2, <1>3

\* An instant is in an hour or a later one if it is not before its top.
LEMMA HourOf ==
  ASSUME ChartAssumption, NEW t \in Nat, NEW h \in Int
  PROVE  Hour(t) \in Nat /\ (Hour(t) >= h <=> t >= h * PerHour)
<1>1. PerHour \in Nat \ {0}
  BY DEF ChartAssumption
<1>2. t \div PerHour \in Nat /\ t % PerHour \in 0..(PerHour - 1)
      /\ t = PerHour * (t \div PerHour) + (t % PerHour)
  BY <1>1
<1> QED BY <1>1, <1>2 DEF Hour

LEMMA LaterHour ==
  ASSUME ChartAssumption, NEW t \in Nat, NEW u \in Nat, t <= u
  PROVE  Hour(t) <= Hour(u)
<1>1. Hour(t) \in Nat /\ Hour(u) \in Nat /\ PerHour \in Nat
  BY HourOf DEF ChartAssumption
<1>2. t >= Hour(t) * PerHour
  BY <1>1, HourOf
<1>3. Hour(t) * PerHour \in Nat
  BY <1>1
<1>4. u >= Hour(t) * PerHour
  BY <1>2, <1>3
<1> QED BY <1>1, <1>4, HourOf

LEMMA RowFields ==
  ASSUME ChartAssumption, NEW row \in Rows
  PROVE  row.at \in 0..MaxNow /\ row.target \in Targets /\ row.latency \in 0..MaxLatency
BY DEF ChartAssumption, Rows, Latencies, NoReply

LEMMA RowsFinite == ASSUME ChartAssumption PROVE IsFiniteSet(Rows)
<1> DEFINE fields == ((0..MaxNow) \X Targets) \X (0..MaxLatency)
           f == [row \in Rows |-> <<<<row.at, row.target>>, row.latency>>]
<1>1. IsFiniteSet(0..MaxNow) /\ IsFiniteSet(0..MaxLatency) /\ IsFiniteSet(Targets)
  BY FS_Interval DEF ChartAssumption
<1>2. IsFiniteSet((0..MaxNow) \X Targets)
  BY <1>1, FS_Product
<1>3. IsFiniteSet(fields)
  BY <1>1, <1>2, FS_Product
<1>4. f \in [Rows -> fields]
  BY RowFields
<1>5. \A r, s \in Rows : f[r] = f[s] => r = s
  <2> SUFFICES ASSUME NEW r \in Rows, NEW s \in Rows, f[r] = f[s] PROVE r = s
    OBVIOUS
  <2>1. r.at = s.at /\ r.target = s.target /\ r.latency = s.latency
    OBVIOUS
  <2> QED BY <2>1 DEF Rows
<1>6. f \in Injection(Rows, fields)
  <2> HIDE DEF f, fields
  <2> QED BY <1>4, <1>5 DEF Injection, IsInjective
<1> HIDE DEF f, fields
<1> QED BY <1>3, <1>6, FS_Injection

\* What the sums of this module range over.
LEMMA BagOfPings ==
  ASSUME ChartAssumption, NEW bag \in Bags
  PROVE  IsFiniteSet(Rows) /\ MaxPings \in Nat /\ \A r \in Rows : bag[r] \in 0..MaxPings
BY RowsFinite DEF ChartAssumption, Bags
-----------------------------------------------------------------------------
(* Ranks *)

\* How many of the rows' pings took no longer than l.
Upto(rows, l, bag) == Size({row \in rows : row.latency <= l}, bag)

\* Each latency adds its own to those of the smaller ones.
LEMMA UptoGrows ==
  ASSUME ChartAssumption, NEW bag \in Bags, NEW rows \in SUBSET Rows,
         \A row \in rows : row.latency # NoReply,
         NEW l \in 0..MaxLatency
  PROVE  /\ Upto(rows, l, bag) \in Nat
         /\ l = 0 => Upto(rows, l, bag) = 0
         /\ l = MaxLatency => Upto(rows, l, bag) = Size(rows, bag)
         /\ l # 0 => Upto(rows, l, bag)
                       = Upto(rows, l - 1, bag) + Size({row \in rows : row.latency = l}, bag)
<1> DEFINE below(k) == {row \in rows : row.latency <= k}
           at == {row \in rows : row.latency = l}
<1>1. \A row \in rows : row.latency \in 1..MaxLatency
  BY RowFields DEF NoReply
<1>2. /\ below(l) \in SUBSET Rows /\ below(l - 1) \in SUBSET Rows /\ at \in SUBSET Rows
      /\ MaxLatency \in Nat
  BY DEF ChartAssumption
<1>3. Upto(rows, l, bag) = Size(below(l), bag) /\ Upto(rows, l - 1, bag) = Size(below(l - 1), bag)
  BY DEF Upto
<1>4. below(l) = below(l - 1) \cup at /\ below(l - 1) \cap at = {}
  BY <1>1, <1>2
<1>5. l = MaxLatency => below(l) = rows
  BY <1>1
<1>6. l = 0 => ~\E row \in below(l) : TRUE
  BY <1>1
<1> HIDE DEF below, at
<1>7. /\ Size(below(l), bag) \in Nat
      /\ Size(below(l), bag) > 0 <=> \E row \in below(l) : bag[row] > 0
  BY <1>2, BagOfPings, SizeIsNat
<1>8. Size(below(l - 1) \cup at, bag) = Size(below(l - 1), bag) + Size(at, bag)
  BY <1>2, <1>4, BagOfPings, SizeAdds
<1> QED BY <1>3, <1>4, <1>5, <1>6, <1>7, <1>8 DEF at

LEMMA UptoMonotone ==
  ASSUME ChartAssumption, NEW bag \in Bags, NEW rows \in SUBSET Rows,
         NEW l \in Int, NEW k \in Int, k <= l
  PROVE  /\ Upto(rows, k, bag) \in Nat /\ Upto(rows, l, bag) \in Nat
         /\ Upto(rows, k, bag) <= Upto(rows, l, bag)
<1> DEFINE below(j) == {row \in rows : row.latency <= j}
<1>1. below(l) \in SUBSET Rows /\ below(k) \in SUBSET below(l) /\ below(k) \in SUBSET Rows
  <2>1. \A row \in rows : row.latency \in Int
    BY RowFields
  <2> QED BY <2>1
<1>2. Upto(rows, l, bag) = Size(below(l), bag) /\ Upto(rows, k, bag) = Size(below(k), bag)
  BY DEF Upto
<1> HIDE DEF below
<1> QED BY <1>1, <1>2, BagOfPings, SizeIsNat, SizeGrows

\* What stands at a rank is the first latency up to which there are as many.
Stands(rows, v, rank, bag) ==
    v \in Latencies /\ Upto(rows, v - 1, bag) < rank /\ rank <= Upto(rows, v, bag)

LEMMA RankedStands ==
  ASSUME ChartAssumption, NEW bag \in Bags, NEW rows \in SUBSET Rows,
         \A row \in rows : row.latency # NoReply
  PROVE  /\ Len(Ranked(rows, bag)) = Size(rows, bag)
         /\ \A k \in 1..Size(rows, bag) : Stands(rows, Ranked(rows, bag)[k], k, bag)
<1> DEFINE n(l) == Size({row \in rows : row.latency = l}, bag)
           s == [l \in Latencies |-> [i \in 1..n(l) |-> l]]
<1>0. MaxLatency \in Nat \ {0} /\ Latencies = 1..MaxLatency
  BY DEF ChartAssumption, Latencies
<1>1. \A l \in Latencies : n(l) \in Nat
  <2> TAKE l \in Latencies
  <2>1. {row \in rows : row.latency = l} \in SUBSET Rows
    OBVIOUS
  <2> QED BY <2>1, BagOfPings, SizeIsNat
<1> HIDE DEF n
<1>2. \A l \in Latencies : s[l] \in Seq(Latencies) /\ Len(s[l]) = n(l)
                           /\ \A i \in 1..n(l) : s[l][i] = l
  <2> TAKE l \in Latencies
  <2>1. s[l] = [i \in 1..n(l) |-> l] /\ s[l] \in [1..n(l) -> Latencies]
    OBVIOUS
  <2> QED BY <1>1, <2>1, SeqDef, LenProperties
<1>3. s \in Seq(Seq(Latencies)) /\ Len(s) = MaxLatency
  <2>1. s \in [1..MaxLatency -> Seq(Latencies)]
    BY <1>0, <1>2
  <2> QED BY <1>0, <2>1, SeqDef, LenProperties
<1>4. Ranked(rows, bag) = FlattenSeq(s)
  BY DEF Ranked, n
<1> HIDE DEF s
<1>5. PICK f \in [1..MaxLatency -> Seq(Latencies)] :
        /\ FlattenSeq(s) = f[MaxLatency]
        /\ \A i \in 1..MaxLatency : f[i] = IF i = 1 THEN s[i] ELSE f[i-1] \o s[i]
  <2>0. Len(s) # 0
    BY <1>0, <1>3
  <2>1. \E f \in [1..Len(s) -> Seq(Latencies)] : Unfolds(f, s)
    BY <1>3, <2>0, FlattenUnfolds
  <2> QED BY <1>3, <2>1 DEF Unfolds
<1> DEFINE Right(l) == /\ Len(f[l]) = Upto(rows, l, bag)
                       /\ \A k \in 1..Len(f[l]) : Stands(rows, f[l][k], k, bag)
           wrong == {l \in 1..MaxLatency : ~Right(l)}
<1>6. \A l \in 1..MaxLatency :
        /\ Upto(rows, l, bag) \in Nat /\ Upto(rows, l - 1, bag) \in Nat
        /\ Upto(rows, l, bag) = Upto(rows, l - 1, bag) + n(l)
        /\ l = 1 => Upto(rows, l - 1, bag) = 0
  <2> TAKE l \in 1..MaxLatency
  <2>1. l \in 0..MaxLatency /\ l - 1 \in 0..MaxLatency /\ l # 0
    BY <1>0
  <2>2. /\ Upto(rows, l, bag) \in Nat
        /\ Upto(rows, l, bag) = Upto(rows, l - 1, bag) + Size({row \in rows : row.latency = l}, bag)
    BY <2>1, UptoGrows
  <2>3. Upto(rows, l - 1, bag) \in Nat /\ (l - 1 = 0 => Upto(rows, l - 1, bag) = 0)
    BY <2>1, UptoGrows
  <2> QED BY <1>0, <2>2, <2>3 DEF n
<1>7. ASSUME NEW l \in 1..MaxLatency, NEW k \in 1..n(l)
      PROVE  Stands(rows, l, Upto(rows, l - 1, bag) + k, bag)
  <2>1. l \in Latencies /\ n(l) \in Nat /\ k \in Nat /\ 1 <= k /\ k <= n(l)
    BY <1>0, <1>1
  <2>2. Upto(rows, l - 1, bag) \in Nat /\ Upto(rows, l, bag) = Upto(rows, l - 1, bag) + n(l)
    BY <1>6
  <2> QED BY <2>1, <2>2 DEF Stands
<1>8. Right(1)
  <2>0. PICK one \in 1..MaxLatency : one = 1
    BY <1>0
  <2>1. /\ f[one] = s[one] /\ n(one) \in Nat
        /\ Upto(rows, one, bag) = n(one) /\ Upto(rows, one - 1, bag) = 0
    <3>1. one \in Latencies /\ Upto(rows, one - 1, bag) = 0
          /\ Upto(rows, one, bag) = Upto(rows, one - 1, bag) + n(one)
      BY <1>0, <1>6, <2>0
    <3>2. f[one] = s[one]
      BY <1>5, <2>0
    <3>3. n(one) \in Nat
      BY <1>1, <3>1
    <3> QED BY <3>1, <3>2, <3>3
  <2>2. Len(f[one]) = n(one) /\ \A k \in 1..n(one) : f[one][k] = one
    BY <1>0, <1>2, <2>1
  <2>3. \A k \in 1..n(one) : Stands(rows, one, k, bag)
    <3> TAKE k \in 1..n(one)
    <3>1. Stands(rows, one, Upto(rows, one - 1, bag) + k, bag)
      BY <1>7
    <3>2. Upto(rows, one - 1, bag) + k = k
      BY <2>1
    <3> QED BY <3>1, <3>2
  <2>4. Right(one)
    BY <2>1, <2>2, <2>3
  <2> HIDE DEF Right
  <2> QED BY <2>0, <2>4
<1>9. ASSUME NEW l \in 2..MaxLatency, Right(l - 1) PROVE Right(l)
  <2>1. l \in 1..MaxLatency /\ l - 1 \in 1..MaxLatency /\ l \in Latencies /\ l # 1
    BY <1>0
  <2>2. f[l] = f[l-1] \o s[l] /\ f[l-1] \in Seq(Latencies) /\ s[l] \in Seq(Latencies)
        /\ Len(s[l]) = n(l) /\ n(l) \in Nat /\ \A i \in 1..n(l) : s[l][i] = l
    <3>1. f[l] = f[l-1] \o s[l]
      BY <1>5, <2>1
    <3>2. f[l-1] \in Seq(Latencies)
      BY <2>1
    <3> QED BY <1>1, <1>2, <2>1, <3>1, <3>2
  <2>3. Len(f[l-1]) = Upto(rows, l - 1, bag) /\ Upto(rows, l - 1, bag) \in Nat
    BY <1>6, <1>9, <2>1
  <2>4. Len(f[l]) = Upto(rows, l, bag) /\ Upto(rows, l, bag) = Upto(rows, l - 1, bag) + n(l)
    <3>0. \A a, b \in Seq(Latencies) : Len(a \o b) = Len(a) + Len(b)
      OBVIOUS
    <3>1. Len(f[l]) = Len(f[l-1]) + Len(s[l])
      BY <2>2, <3>0
    <3>2. Upto(rows, l, bag) = Upto(rows, l - 1, bag) + n(l)
      BY <1>6, <2>1
    <3> QED BY <2>2, <2>3, <3>1, <3>2
  <2>5. ASSUME NEW k \in 1..Len(f[l]) PROVE Stands(rows, f[l][k], k, bag)
    <3>1. CASE k <= Len(f[l-1])
      <4>1. k \in 1..Len(f[l-1]) /\ f[l][k] = f[l-1][k]
        BY <2>2, <2>3, <3>1
      <4> QED BY <1>9, <4>1
    <3>2. CASE k > Len(f[l-1])
      <4>1. k - Upto(rows, l - 1, bag) \in 1..n(l)
        BY <2>2, <2>3, <2>4, <3>2
      <4>2. f[l][k] = s[l][k - Len(f[l-1])]
        <5>1. k \in (Len(f[l-1]) + 1)..(Len(f[l-1]) + Len(s[l]))
          BY <2>2, <2>3, <2>4, <3>2
        <5> QED BY <2>2, <5>1
      <4>3. f[l][k] = l
        BY <2>2, <2>3, <4>1, <4>2
      <4>4. Stands(rows, l, Upto(rows, l - 1, bag) + (k - Upto(rows, l - 1, bag)), bag)
        BY <1>7, <2>1, <4>1
      <4>5. Upto(rows, l - 1, bag) + (k - Upto(rows, l - 1, bag)) = k
        BY <2>3
      <4> QED BY <4>3, <4>4, <4>5
    <3> QED BY <2>3, <3>1, <3>2
  <2> QED BY <2>4, <2>5
<1>10. wrong = {}
  <2> SUFFICES ASSUME wrong # {} PROVE FALSE
    OBVIOUS
  <2>1. wrong \in SUBSET Nat
    OBVIOUS
  <2>2. PICK l \in wrong : \A j \in wrong : l <= j
    <3> HIDE DEF wrong
    <3> QED BY <2>1, LeastOf
  <2> HIDE DEF Right
  <2>3. l \in 1..MaxLatency /\ l # 1 /\ ~Right(l)
    BY <1>8, <2>2
  <2>4. l \in 2..MaxLatency /\ l - 1 \in 1..MaxLatency /\ l - 1 \notin wrong
    BY <1>0, <2>2, <2>3
  <2> QED BY <1>9, <2>3, <2>4
<1>11. Right(MaxLatency)
  <2>1. MaxLatency \in 1..MaxLatency
    BY <1>0
  <2> HIDE DEF Right
  <2> QED BY <1>10, <2>1
<1>12. Upto(rows, MaxLatency, bag) = Size(rows, bag)
  <2>1. MaxLatency \in 0..MaxLatency
    BY <1>0
  <2> QED BY <2>1, UptoGrows
<1> QED BY <1>4, <1>5, <1>11, <1>12

\* The positions are the least that leave a fraction of the samples at or below.
LEMMA RanksOfFourths ==
  ASSUME NEW n \in Nat \ {0}
  PROVE  /\ \A f \in {1, 3} : /\ NearestRank(f, n) \in 1..n /\ 4 * NearestRank(f, n) >= f * n
                              /\ 4 * (NearestRank(f, n) - 1) < f * n
         /\ MedianRank(n) \in 1..n /\ 4 * MedianRank(n) >= 2 * n /\ 4 * (MedianRank(n) - 1) < 2 * n
<1>1. ASSUME NEW f \in {1, 3}
      PROVE  /\ NearestRank(f, n) \in 1..n /\ 4 * NearestRank(f, n) >= f * n
             /\ 4 * (NearestRank(f, n) - 1) < f * n
  <2>1. CASE f = 1
    BY <2>1 DEF NearestRank
  <2>2. CASE f = 3
    BY <2>2 DEF NearestRank
  <2> QED BY <2>1, <2>2
<1>2. MedianRank(n) \in 1..n /\ 4 * MedianRank(n) >= 2 * n /\ 4 * (MedianRank(n) - 1) < 2 * n
  BY DEF MedianRank
<1> QED BY <1>1, <1>2

\* So what stands there is the quantile.
LEMMA StandsIsQuantile ==
  ASSUME ChartAssumption, NEW bag \in Bags, NEW rows \in SUBSET Rows, NEW f \in 1..3,
         NEW rank \in Nat, NEW v, Stands(rows, v, rank, bag),
         4 * rank >= f * Size(rows, bag), 4 * (rank - 1) < f * Size(rows, bag)
  PROVE  IsQuantile(v, f, rows, bag)
<1> DEFINE part == f * Size(rows, bag)
<1>1. v \in 1..MaxLatency /\ Upto(rows, v - 1, bag) < rank /\ rank <= Upto(rows, v, bag)
  BY DEF Stands, Latencies
<1>2. v \in Int /\ v - 1 \in Int /\ Upto(rows, v - 1, bag) \in Nat /\ Upto(rows, v, bag) \in Nat
  BY <1>1, UptoMonotone
<1>3. part \in Int /\ 4 * rank >= part /\ 4 * (rank - 1) < part
  <2>1. Size(rows, bag) \in Nat
    BY BagOfPings, SizeIsNat
  <2> QED BY <2>1
<1> HIDE DEF part
<1>4. 4 * Upto(rows, v, bag) >= part
  BY <1>1, <1>2, <1>3
<1>5. ASSUME NEW l \in 1..(v - 1) PROVE 4 * Upto(rows, l, bag) < part
  <2>1. l \in Int /\ l <= v - 1
    BY <1>2
  <2>2. Upto(rows, l, bag) \in Nat /\ Upto(rows, l, bag) <= Upto(rows, v - 1, bag)
    BY <1>2, <2>1, UptoMonotone
  <2> QED BY <1>1, <1>2, <1>3, <2>2
<1> QED BY <1>4, <1>5 DEF IsQuantile, Upto, part

\* The least and the greatest latency there is a ping of.
Measured(rows, bag) == {row.latency : row \in {r \in rows : bag[r] > 0}}

LEMMA FirstIsLeast ==
  ASSUME ChartAssumption, NEW bag \in Bags, NEW rows \in SUBSET Rows, NEW v, Stands(rows, v, 1, bag)
  PROVE  Measured(rows, bag) # {} /\ v = Min(Measured(rows, bag))
<1> DEFINE below(l) == {row \in rows : row.latency <= l}
<1>1. v \in Int /\ v - 1 \in Int /\ Upto(rows, v - 1, bag) < 1 /\ 1 <= Upto(rows, v, bag)
  BY DEF Stands, Latencies
<1>2. /\ below(v) \in SUBSET Rows /\ below(v - 1) \in SUBSET Rows
      /\ Upto(rows, v, bag) = Size(below(v), bag)
      /\ Upto(rows, v - 1, bag) = Size(below(v - 1), bag)
  BY DEF Upto
<1>3. \A row \in rows : row.latency \in Int /\ bag[row] \in Nat
  <2>1. \A row \in rows : row.latency \in Int
    BY RowFields
  <2> QED BY <2>1, BagOfPings
<1> HIDE DEF below
<1>4. \E row \in below(v) : bag[row] > 0
  BY <1>1, <1>2, BagOfPings, SizeIsNat
<1>5. ~\E row \in below(v - 1) : bag[row] > 0
  BY <1>1, <1>2, BagOfPings, SizeIsNat
<1>6. \A x \in Measured(rows, bag) : x \in Int /\ v <= x
  <2> SUFFICES ASSUME NEW row \in rows, bag[row] > 0 PROVE row.latency \in Int /\ v <= row.latency
    BY DEF Measured
  <2>1. row \notin below(v - 1)
    BY <1>5
  <2> QED BY <1>1, <1>3, <2>1 DEF below
<1>7. v \in Measured(rows, bag)
  <2>1. PICK row \in below(v) : bag[row] > 0
    BY <1>4
  <2>2. row \in rows /\ row.latency <= v /\ row.latency \in Measured(rows, bag)
    BY <2>1 DEF below, Measured
  <2>3. row.latency = v
    BY <1>1, <1>6, <2>2
  <2> QED BY <2>2, <2>3
<1>8. \A x, y \in Measured(rows, bag) : x <= y /\ y <= x => x = y
  BY <1>6
<1> QED BY <1>6, <1>7, <1>8 DEF Min

LEMMA LastIsGreatest ==
  ASSUME ChartAssumption, NEW bag \in Bags, NEW rows \in SUBSET Rows,
         \A row \in rows : row.latency # NoReply,
         NEW v, Stands(rows, v, Size(rows, bag), bag)
  PROVE  v = Max(Measured(rows, bag))
<1> DEFINE below == {row \in rows : row.latency <= v}
           above == {row \in rows : row.latency > v}
           at == {row \in rows : row.latency = v}
<1>0. v \in 1..MaxLatency
  BY DEF Stands, Latencies
<1>1. /\ below \in SUBSET Rows /\ above \in SUBSET Rows /\ at \in SUBSET Rows
      /\ below \cup above = rows /\ below \cap above = {}
      /\ \A row \in rows : row.latency \in Int
  <2>1. \A row \in rows : row.latency \in Int
    BY RowFields
  <2> QED BY <1>0, <2>1
<1>2. Upto(rows, v, bag) = Size(below, bag) /\ Upto(rows, v - 1, bag) < Size(rows, bag)
      /\ Size(rows, bag) <= Upto(rows, v, bag)
  BY DEF Upto, Stands
<1>3. Upto(rows, v, bag) = Upto(rows, v - 1, bag) + Size(at, bag)
  <2>1. v \in 0..MaxLatency /\ v # 0
    BY <1>0
  <2> QED BY <2>1, UptoGrows
<1>4. Upto(rows, v - 1, bag) \in Nat /\ Upto(rows, v, bag) \in Nat
  <2>1. v \in Int /\ v - 1 \in Int /\ v - 1 <= v
    BY <1>0
  <2> QED BY <2>1, UptoMonotone
<1> HIDE DEF below, above, at
<1>5. Size(rows, bag) = Size(below, bag) + Size(above, bag)
  BY <1>1, BagOfPings, SizeAdds
<1>6. Size(above, bag) \in Nat /\ (Size(above, bag) > 0 <=> \E row \in above : bag[row] > 0)
  BY <1>1, BagOfPings, SizeIsNat
<1>7. Size(at, bag) \in Nat /\ (Size(at, bag) > 0 <=> \E row \in at : bag[row] > 0)
  BY <1>1, BagOfPings, SizeIsNat
<1>8. ~\E row \in above : bag[row] > 0
  BY <1>2, <1>4, <1>5, <1>6
<1>9. \E row \in at : bag[row] > 0
  <2>1. Size(rows, bag) \in Nat
    BY BagOfPings, SizeIsNat
  <2>2. Size(at, bag) > 0
    BY <1>2, <1>3, <1>4, <2>1, <1>7
  <2> QED BY <1>7, <2>2
<1>10. \A x \in Measured(rows, bag) : x \in Int /\ x <= v
  <2> SUFFICES ASSUME NEW row \in rows, bag[row] > 0 PROVE row.latency \in Int /\ row.latency <= v
    BY DEF Measured
  <2>1. row \notin above
    BY <1>8
  <2>2. ~(row.latency > v)
    BY <2>1 DEF above
  <2>3. row.latency \in Int
    BY <1>1
  <2>4. v \in Int
    BY <1>0
  <2> HIDE DEF Measured
  <2> QED BY <2>2, <2>3, <2>4
<1>11. v \in Measured(rows, bag)
  BY <1>9 DEF at, Measured
<1>12. \A x, y \in Measured(rows, bag) : x >= y /\ y >= x => x = y
  BY <1>10
<1>13. \A y \in Measured(rows, bag) : v >= y
  BY <1>0, <1>10
<1> QED BY <1>11, <1>12, <1>13 DEF Max

\* So a box of all the samples of its hour and target is what its names say.
LEMMA BoxIsTrue ==
  ASSUME ChartAssumption, NEW bag \in Bags, NEW since, NEW hour, NEW target,
         Sampled(hour, target, since) = Samples(hour, target),
         Size(Sampled(hour, target, since), bag) > 0
  PROVE  LET b == Box(hour, target, since, bag)
         IN  /\ b = [hour |-> hour, target |-> target, count |-> b.count, low |-> b.low,
                     q1 |-> b.q1, median |-> b.median, q3 |-> b.q3, high |-> b.high]
             /\ {b.low, b.q1, b.median, b.q3, b.high} \in SUBSET Latencies
             /\ b.count = Size(Samples(hour, target), bag)
             /\ IsOfQuartiles(b, bag)
<1> DEFINE rows == Sampled(hour, target, since)
           n == Size(rows, bag)
           at(k) == Ranked(rows, bag)[k]
           b == Box(hour, target, since, bag)
<1>1. rows \in SUBSET Rows /\ \A row \in rows : row.latency # NoReply
  BY DEF Sampled
<1>2. n \in Nat \ {0}
  <2>1. n \in Nat
    BY <1>1, BagOfPings, SizeIsNat
  <2> QED BY <2>1
<1>3. Len(Ranked(rows, bag)) = n /\ \A k \in 1..n : Stands(rows, at(k), k, bag)
  BY <1>1, RankedStands
<1>4. b = [hour |-> hour, target |-> target, count |-> n, low |-> at(1), high |-> at(n),
           q1 |-> at(NearestRank(1, n)), median |-> at(MedianRank(n)), q3 |-> at(NearestRank(3, n))]
  BY <1>3 DEF Box
<1>5. \A k \in 1..n : at(k) \in Latencies
  BY <1>3 DEF Stands
<1> HIDE DEF rows, n, at, b
<1>6. /\ b.hour = hour /\ b.target = target /\ b.count = n /\ b.low = at(1) /\ b.high = at(n)
      /\ b.q1 = at(NearestRank(1, n)) /\ b.median = at(MedianRank(n))
      /\ b.q3 = at(NearestRank(3, n))
  BY <1>4
<1>7. 1 \in 1..n /\ n \in 1..n
  BY <1>2
<1>8. /\ \A f \in {1, 3} : /\ NearestRank(f, n) \in 1..n /\ 4 * NearestRank(f, n) >= f * n
                           /\ 4 * (NearestRank(f, n) - 1) < f * n
      /\ MedianRank(n) \in 1..n /\ 4 * MedianRank(n) >= 2 * n /\ 4 * (MedianRank(n) - 1) < 2 * n
  BY <1>2, RanksOfFourths
<1>9. {b.low, b.q1, b.median, b.q3, b.high} \in SUBSET Latencies
  BY <1>5, <1>6, <1>7, <1>8
<1>10. \A k \in 1..n : Stands(rows, at(k), k, bag)
  BY <1>3 DEF at, n
<1>11. ASSUME NEW f \in 1..3, NEW rank \in 1..n, 4 * rank >= f * n, 4 * (rank - 1) < f * n
       PROVE  IsQuantile(at(rank), f, rows, bag)
  <2>1. Stands(rows, at(rank), rank, bag) /\ rank \in Nat
    BY <1>2, <1>10
  <2> QED BY <1>1, <1>11, <2>1, StandsIsQuantile DEF n
<1>12. /\ IsQuantile(b.q1, 1, rows, bag) /\ IsQuantile(b.median, 2, rows, bag)
       /\ IsQuantile(b.q3, 3, rows, bag)
  BY <1>6, <1>8, <1>11
<1>13. /\ Measured(rows, bag) # {}
       /\ b.low = Min(Measured(rows, bag)) /\ b.high = Max(Measured(rows, bag))
  BY <1>1, <1>6, <1>7, <1>10, FirstIsLeast, LastIsGreatest DEF n
<1>14. rows = Samples(b.hour, b.target)
  BY <1>6 DEF rows
<1>15. IsOfQuartiles(b, bag)
  BY <1>12, <1>13, <1>14 DEF IsOfQuartiles, Measured
<1>16. b.count = Size(Samples(hour, target), bag)
  BY <1>6 DEF rows, n
<1> QED BY <1>4, <1>6, <1>9, <1>15, <1>16 DEF b
-----------------------------------------------------------------------------
(* The window *)

\* An hour of the window is there from its first instant.
LEMMA WholeHours ==
  ASSUME ChartAssumption, NEW t \in Nat, NEW since, since = SummaryStart(t)
  PROVE  /\ \A row \in Rows : AtLeast(row.at, since) <=> Hour(row.at) >= Hour(t) - (Hours - 1)
         /\ \A hour, target : Sampled(hour, target, since)
                = IF hour >= Hour(t) - (Hours - 1) THEN Samples(hour, target) ELSE {}
<1> DEFINE first == Hour(t) - (Hours - 1)
<1>1. first \in Int /\ PerHour \in Int
  BY HourOf DEF ChartAssumption
<1>2. since = first * PerHour
  BY DEF SummaryStart
<1>3. since \in Int
  BY <1>1, <1>2
<1>4. ASSUME NEW row \in Rows PROVE AtLeast(row.at, since) <=> Hour(row.at) >= first
  <2>1. row.at \in Nat
    BY RowFields
  <2>2. AtLeast(row.at, since) <=> row.at >= since
    BY <1>3, <2>1, TextIsTime
  <2> HIDE DEF first
  <2> QED BY <1>1, <1>2, <2>1, <2>2, HourOf
<1> HIDE DEF first
<1>5. \A hour, target : Sampled(hour, target, since)
          = IF hour >= first THEN Samples(hour, target) ELSE {}
  BY <1>4 DEF Sampled, Samples
<1> QED BY <1>4, <1>5 DEF first

\* Every row is of an hour that a box may be of.
LEMMA HourIsShown ==
  ASSUME ChartAssumption, NEW t \in 0..MaxNow
  PROVE  Hour(t) \in HoursShown
<1>1. PerHour \in Nat \ {0} /\ Hours \in Nat \ {0} /\ MaxNow \in Nat
  BY DEF ChartAssumption
<1> DEFINE span == Hours * PerHour
<1>2. span \in Nat /\ -Hours * PerHour = -span
  BY <1>1
<1>3. ASSUME NEW x \in Int, x <= 0 PROVE x \div PerHour \in Int /\ x \div PerHour <= 0
  <2>1. /\ x \div PerHour \in Int /\ x % PerHour \in 0..(PerHour - 1)
        /\ x = PerHour * (x \div PerHour) + (x % PerHour)
    BY <1>1
  <2> QED BY <1>1, <1>3, <2>1
<1> HIDE DEF span
<1>4. -span \in Int /\ -span <= 0
  BY <1>2
<1>5. Hour(-span) \in Int /\ Hour(-span) <= 0
  BY <1>3, <1>4 DEF Hour
<1>6. t \in Nat /\ MaxNow \in Nat /\ t <= MaxNow
  BY <1>1
<1>7. Hour(t) \in Nat /\ Hour(MaxNow) \in Nat /\ Hour(t) <= Hour(MaxNow)
  BY <1>6, HourOf, LaterHour
<1> QED BY <1>2, <1>5, <1>7 DEF HoursShown

\* A sequence in the order of the text is in the order of time, and has every row.
LEMMA ListedInOrder ==
  ASSUME ChartAssumption, NEW rows \in SUBSET Rows, NEW s \in TextOrders(rows)
  PROVE  /\ s \in Seq(Rows) /\ ToSet(s) = rows
         /\ \A i, j \in DOMAIN s : i < j => s[i].at <= s[j].at
<1> DEFINE n == Cardinality(rows)
<1>1. IsFiniteSet(rows) /\ n \in Nat
  BY RowsFinite, FS_Subset, FS_CardinalityType
<1>2. s \in [1..n -> rows] /\ \A i, j \in 1..n : i # j => s[i] # s[j]
  BY DEF TextOrders, SetToSeqs
<1>3. DOMAIN s = 1..n /\ s \in Seq(Rows)
  <2>1. s \in [1..n -> Rows]
    BY <1>2
  <2> QED BY <1>1, <2>1
<1>4. s \in Injection(1..n, rows)
  BY <1>2 DEF Injection, IsInjective
<1>5. Cardinality(1..n) = n
  <2>1. 1 \in Int /\ n \in Int /\ n >= 0
    BY <1>1
  <2> HIDE DEF n
  <2> QED BY <2>1, FS_Interval
<1>6. s \in Surjection(1..n, rows)
  BY <1>1, <1>4, <1>5, FS_Injection
<1>7. ToSet(s) = rows
  BY <1>2, <1>3, <1>6 DEF ToSet, Surjection
<1>8. ASSUME NEW i \in DOMAIN s, NEW j \in DOMAIN s, i < j PROVE s[i].at <= s[j].at
  <2>1. s[i] \in Rows /\ s[j] \in Rows
    BY <1>2, <1>3
  <2>2. s[i].at \in Int /\ s[j].at \in Int
    BY <2>1, RowFields
  <2>3. AtLeast(s[j].at, s[i].at)
    BY <1>8 DEF TextOrders
  <2>4. s[j].at >= s[i].at
    BY <2>2, <2>3, TextIsTime
  <2> QED BY <2>2, <2>4
<1> QED BY <1>3, <1>7, <1>8
-----------------------------------------------------------------------------
(* The answers *)

\* A table has no more of a group than in all.
LEMMA SizeInTable ==
  ASSUME ChartAssumption, NEW bag \in Bags, NEW t, IsTable(bag, t), NEW rows \in SUBSET Rows
  PROVE  Size(rows, bag) \in Nat /\ Size(rows, bag) <= MaxPings
<1>1. Rows \in SUBSET Rows /\ Size(Rows, bag) <= MaxPings /\ MaxPings \in Nat
  BY DEF IsTable, ChartAssumption
<1>2. Size(rows, bag) \in Nat /\ Size(Rows, bag) \in Nat
  BY <1>1, BagOfPings, SizeIsNat
<1>3. Size(rows, bag) <= Size(Rows, bag)
  BY <1>1, BagOfPings, SizeGrows
<1> QED BY <1>1, <1>2, <1>3

\* What the dashboard is told of an hour's window.
LEMMA SummaryIsOfBoxes ==
  ASSUME ChartAssumption, NEW bag \in Bags, NEW u, IsTable(bag, u), NEW t \in 0..MaxNow
  PROVE  \A b \in Summary(SummaryStart(t), bag) :
            /\ b \in Boxes
            /\ b.hour >= Hour(t) - (Hours - 1)
            /\ \E row \in Samples(b.hour, b.target) : bag[row] > 0
            /\ b.count = Size(Samples(b.hour, b.target), bag) /\ IsOfQuartiles(b, bag)
<1> DEFINE since == SummaryStart(t)
<1> SUFFICES ASSUME NEW hour \in HoursShown, NEW target \in Targets,
                    Size(Sampled(hour, target, since), bag) > 0
             PROVE  LET b == Box(hour, target, since, bag)
                    IN  /\ b \in Boxes
                        /\ b.hour >= Hour(t) - (Hours - 1)
                        /\ \E row \in Samples(b.hour, b.target) : bag[row] > 0
                        /\ b.count = Size(Samples(b.hour, b.target), bag)
                        /\ IsOfQuartiles(b, bag)
  BY DEF Summary
<1>1. t \in Nat /\ MaxPings \in Nat
  BY DEF ChartAssumption
<1> HIDE DEF since
<1>3. Sampled(hour, target, since) \in SUBSET Rows
  BY DEF Sampled
<1>4. \E row \in Sampled(hour, target, since) : bag[row] > 0
  BY <1>3, BagOfPings, SizeIsNat
<1>5. hour >= Hour(t) - (Hours - 1) /\ Sampled(hour, target, since) = Samples(hour, target)
  <2>1. Sampled(hour, target, since)
          = IF hour >= Hour(t) - (Hours - 1) THEN Samples(hour, target) ELSE {}
    BY <1>1, WholeHours DEF since
  <2> QED BY <1>4, <2>1
<1> DEFINE b == Box(hour, target, since, bag)
<1>6. /\ b = [hour |-> hour, target |-> target, count |-> b.count, low |-> b.low,
              q1 |-> b.q1, median |-> b.median, q3 |-> b.q3, high |-> b.high]
      /\ {b.low, b.q1, b.median, b.q3, b.high} \in SUBSET Latencies
      /\ b.count = Size(Samples(hour, target), bag)
      /\ IsOfQuartiles(b, bag)
  BY <1>5, BoxIsTrue
<1> HIDE DEF b
<1>7. b.hour = hour /\ b.target = target
  BY <1>6
<1>8. b.count \in 1..MaxPings
  <2>1. b.count = Size(Sampled(hour, target, since), bag)
    BY <1>5, <1>6
  <2>2. Size(Sampled(hour, target, since), bag) \in Nat
        /\ Size(Sampled(hour, target, since), bag) <= MaxPings
    BY <1>3, SizeInTable
  <2> QED BY <1>1, <2>1, <2>2
<1>9. b \in Boxes
  BY <1>6, <1>8 DEF Boxes
<1> QED BY <1>4, <1>5, <1>6, <1>7, <1>9 DEF b

\* No hour and target that answered is left out.
LEMMA SummaryIsComplete ==
  ASSUME ChartAssumption, NEW bag \in Bags, NEW t \in 0..MaxNow
  PROVE  NoBoxIsMissing(Summary(SummaryStart(t), bag), t, bag)
<1> DEFINE since == SummaryStart(t)
<1> SUFFICES ASSUME NEW row \in Rows, bag[row] > 0, row.latency # NoReply,
                    Hour(row.at) > Hour(t) - Hours
             PROVE  \E b \in Summary(since, bag) : b.hour = Hour(row.at) /\ b.target = row.target
  BY DEF NoBoxIsMissing
<1> DEFINE hour == Hour(row.at)
           target == row.target
<1>1. row.at \in 0..MaxNow /\ row.at \in Nat /\ target \in Targets /\ t \in Nat
      /\ Hours \in Nat
  BY RowFields DEF ChartAssumption
<1>2. hour \in HoursShown /\ hour \in Nat /\ Hour(t) \in Nat
  BY <1>1, HourIsShown, HourOf
<1>3. hour >= Hour(t) - (Hours - 1)
  BY <1>1, <1>2
<1>4. Sampled(hour, target, since) = Samples(hour, target)
  <2>1. \A h, g : Sampled(h, g, since)
                    = IF h >= Hour(t) - (Hours - 1) THEN Samples(h, g) ELSE {}
    BY <1>1, WholeHours
  <2> HIDE DEF hour, target, since
  <2> QED BY <1>3, <2>1
<1> HIDE DEF since
<1>5. Sampled(hour, target, since) \in SUBSET Rows /\ row \in Sampled(hour, target, since)
  BY <1>4 DEF Samples
<1>6. Size(Sampled(hour, target, since), bag) > 0
  BY <1>5, BagOfPings, SizeIsNat
<1>7. Box(hour, target, since, bag) \in Summary(since, bag)
  <2> DEFINE g == <<hour, target>>
  <2>1. g \in HoursShown \X Targets /\ g[1] = hour /\ g[2] = target
    BY <1>1, <1>2
  <2> HIDE DEF g, hour, target
  <2>2. Box(g[1], g[2], since, bag) \in Summary(since, bag)
    BY <1>6, <2>1 DEF Summary
  <2> QED BY <2>1, <2>2
<1>8. Box(hour, target, since, bag).hour = hour /\ Box(hour, target, since, bag).target = target
  BY DEF Box
<1> QED BY <1>7, <1>8

\* Its columns are of the window's hours and of those that began since.
LEMMA ColumnsOfSummary ==
  ASSUME ChartAssumption, NEW bag \in Bags, NEW t \in 0..MaxNow, NEW u \in 0..MaxNow, t <= u,
         IsTable(bag, u)
  PROVE  Cardinality(Columns(Summary(SummaryStart(t), bag))) <= Hours + (Hour(u) - Hour(t))
<1> DEFINE first == Hour(t) - (Hours - 1)
           boxes == Summary(SummaryStart(t), bag)
<1>1. t \in Nat /\ u \in Nat /\ MaxNow \in Nat /\ Hours \in Nat \ {0} /\ PerHour \in Nat \ {0}
  BY DEF ChartAssumption
<1>2. Hour(t) \in Nat /\ Hour(u) \in Nat /\ Hour(t) <= Hour(u)
  BY <1>1, HourOf, LaterHour
<1>3. first \in Int
  BY <1>1, <1>2
<1>4. \A b \in boxes : /\ b \in Boxes /\ b.hour >= first
                       /\ \E row \in Samples(b.hour, b.target) : bag[row] > 0
  BY SummaryIsOfBoxes
<1> HIDE DEF first, boxes
<1>5. ASSUME NEW b \in boxes PROVE b.hour \in first..Hour(u)
  <2>1. PICK row \in Samples(b.hour, b.target) : bag[row] > 0
    BY <1>4
  <2>2. row \in Rows /\ Hour(row.at) = b.hour
    BY <2>1 DEF Samples
  <2>3. row.at \in Nat /\ row.at <= u
    <3>1. row.at \in Nat
      BY <1>1, <2>2, RowFields
    <3> QED BY <2>1, <2>2, <3>1 DEF IsTable
  <2>4. Hour(row.at) \in Nat /\ Hour(row.at) <= Hour(u)
    BY <1>1, <2>3, HourOf, LaterHour
  <2>5. b.hour >= first
    BY <1>4
  <2> QED BY <1>2, <1>3, <2>2, <2>4, <2>5
<1>6. Columns(boxes) \in SUBSET (first..Hour(u))
  BY <1>5 DEF Columns
<1>7. IsFiniteSet(first..Hour(u)) /\ Cardinality(first..Hour(u)) = Hours + (Hour(u) - Hour(t))
  <2>1. ~(first > Hour(u)) /\ Hour(u) - first + 1 = Hours + (Hour(u) - Hour(t))
    BY <1>1, <1>2 DEF first
  <2> QED BY <1>2, <1>3, <2>1, FS_Interval
<1> QED BY <1>6, <1>7, FS_Subset DEF boxes

\* The list is of its window.
LEMMA ListIsTheWindow ==
  ASSUME ChartAssumption, NEW bag \in Bags, NEW t \in 0..MaxNow,
         NEW s \in TextOrders(Listed(t - Window, bag))
  PROVE  s \in Seq(Rows) /\ IsTheWindow(s, t, bag)
<1> DEFINE since == t - Window
<1>1. since \in Int
  BY DEF ChartAssumption
<1>2. \A row \in Rows : AtLeast(row.at, since) <=> row.at >= since
  <2> TAKE row \in Rows
  <2>1. row.at \in Int
    BY RowFields
  <2> HIDE DEF since
  <2> QED BY <1>1, <2>1, TextIsTime
<1>3. Listed(since, bag) = {row \in Rows : bag[row] > 0 /\ row.at >= since}
  BY <1>2 DEF Listed
<1>4. Listed(since, bag) \in SUBSET Rows
  BY <1>3
<1>5. /\ s \in Seq(Rows) /\ ToSet(s) = Listed(since, bag)
      /\ \A i, j \in DOMAIN s : i < j => s[i].at <= s[j].at
  BY <1>4, ListedInOrder
<1> QED BY <1>3, <1>5 DEF IsTheWindow
-----------------------------------------------------------------------------
(* The inductive invariant *)

LEMMA InitChartInv == ASSUME ChartAssumption, Init PROVE ChartInv
<1>1. MaxNow \in Nat /\ MaxPings \in Nat
  BY DEF ChartAssumption
<1>2. pings \in Bags /\ \A row \in Rows : pings[row] = 0
  BY <1>1 DEF Init, NoPings, Bags
<1>3. TypeOK
  BY <1>1, <1>2 DEF Init, TypeOK
<1>4. IsTable(pings, now)
  <2>1. Rows \in SUBSET Rows
    OBVIOUS
  <2>2. Size(Rows, pings) \in Nat /\ (Size(Rows, pings) > 0 <=> \E row \in Rows : pings[row] > 0)
    BY <1>2, <2>1, BagOfPings, SizeIsNat
  <2> QED BY <1>1, <1>2, <2>2 DEF IsTable
<1>5. given <= now
  BY DEF Init
<1> QED BY <1>3, <1>4, <1>5 DEF Init, ChartInv, EntryInv

LEMMA FlushKeepsTable ==
  ASSUME ChartAssumption, ChartInv, Flush
  PROVE  pings' \in Bags /\ IsTable(pings', now)
<1>0. /\ pings \in [Rows -> 0..MaxPings] /\ pings \in Bags /\ IsTable(pings, now)
      /\ MaxPings \in Nat /\ MaxNow \in Nat
  BY DEF ChartInv, TypeOK, Bags, ChartAssumption
<1>1. PICK row \in Rows : row.at <= now /\ pings' = [pings EXCEPT ![row] = @ + 1]
  BY DEF Flush
<1>2. Size(Rows, pings) < MaxPings
  BY DEF Flush
<1>3. IsFiniteSet(Rows) /\ \A r \in Rows : pings[r] \in 0..MaxPings
  BY <1>0, BagOfPings
<1>4. Size(Rows, pings') = Size(Rows, pings) + 1
  BY <1>0, <1>1, <1>3, SizeOfOneMore
<1>5. Rows \in SUBSET Rows /\ Rows \ {row} \in SUBSET Rows
  OBVIOUS
<1>6. Size(Rows, pings) \in Nat
  BY <1>0, <1>3, <1>5, SizeIsNat
<1>7. pings[row] <= Size(Rows, pings) /\ pings[row] \in Nat
  <2>1. Size(Rows, pings) = Cardinality(Copies(Rows, pings))
    BY <1>0, <1>3, <1>5, SizeIsNat
  <2>2. Cardinality(Copies(Rows, pings)) = pings[row] + Cardinality(Copies(Rows \ {row}, pings))
    BY <1>0, <1>3, <1>5, CopiesOfOne
  <2>3. Cardinality(Copies(Rows \ {row}, pings)) \in Nat
    BY <1>0, <1>3, <1>5, CopiesFinite
  <2>4. pings[row] \in Nat
    BY <1>3
  <2> QED BY <2>1, <2>2, <2>3, <2>4
<1>8. pings[row] + 1 \in 0..MaxPings
  BY <1>0, <1>2, <1>6, <1>7
<1>9. pings' \in Bags
  BY <1>0, <1>1, <1>8 DEF Bags
<1>10. \A r \in Rows : pings'[r] > 0 => r.at <= now
  BY <1>0, <1>1 DEF IsTable
<1>11. Size(Rows, pings') <= MaxPings
  BY <1>0, <1>2, <1>4, <1>6
<1> QED BY <1>9, <1>10, <1>11 DEF IsTable

\* An entry depends on nothing but its history, its lifetime and the last answer.
LEMMA EntryStays ==
  ASSUME ChartAssumption, TypeOK, EntryInv, UNCHANGED <<view, entry>>, given' \in 0..MaxNow,
         entry # NoEntry =>
            given' = given \/ (given <= given' /\ given' - entry.at < Lifetime[view])
  PROVE  EntryInv'
<1> SUFFICES ASSUME entry # NoEntry
             PROVE  entry.at <= given' /\ given' - entry.at < Lifetime[view]
  BY DEF EntryInv
<1>1. entry.at \in 0..MaxNow /\ given \in 0..MaxNow /\ MaxNow \in Nat
      /\ entry.at <= given /\ given - entry.at < Lifetime[view]
  BY DEF TypeOK, EntryInv, ChartAssumption
<1> QED BY <1>1

LEMMA ReadKeepsInv ==
  ASSUME ChartAssumption, ChartInv, NEW asked, NEW values, Read(asked, values),
         \A value \in values :
            IF view = "hourly" THEN value = Summary(SummaryStart(asked), pings)
                               ELSE value \in TextOrders(Listed(asked - Window, pings))
  PROVE  ChartInv'
<1>0. /\ TypeOK /\ IsTable(pings, now) /\ EntryInv
      /\ given <= now /\ \A t \in waiting : t <= now
      /\ MaxNow \in Nat /\ now \in 0..MaxNow /\ given \in 0..MaxNow /\ pings \in Bags
  BY DEF ChartInv, TypeOK, ChartAssumption
<1>1. /\ UNCHANGED <<now, pings, view>> /\ asked \in waiting
      /\ waiting' \in {waiting, waiting \ {asked}}
  BY DEF Read
<1>2. asked \in 0..MaxNow /\ asked <= now
  BY <1>0, <1>1 DEF TypeOK
<1>3. IsTable(pings', now') /\ waiting' \in SUBSET (0..MaxNow) /\ \A t \in waiting' : t <= now'
  <2>1. waiting \in SUBSET (0..MaxNow)
    BY <1>0 DEF TypeOK
  <2> QED BY <1>0, <1>1, <2>1
<1>4. given' \in {given, now} => given' <= now'
  BY <1>0, <1>1
<1>5. CASE Fresh /\ given' = now /\ UNCHANGED entry
  <2>1. EntryInv'
    <3>1. entry # NoEntry /\ now - entry.at < Lifetime[view]
      BY <1>5 DEF Fresh
    <3>2. given <= now
      BY <1>0
    <3> QED BY <1>0, <1>1, <1>5, <3>1, EntryStays
  <2>2. TypeOK'
    BY <1>0, <1>1, <1>3, <1>5 DEF TypeOK
  <2> QED BY <1>3, <1>5, <1>4, <2>1, <2>2 DEF ChartInv
<1>6. CASE UNCHANGED <<entry, given>>
  <2>1. EntryInv'
    BY <1>0, <1>1, <1>6, EntryStays
  <2>2. TypeOK'
    BY <1>0, <1>1, <1>3, <1>6 DEF TypeOK
  <2> QED BY <1>3, <1>6, <1>4, <2>1, <2>2 DEF ChartInv
<1>7. CASE /\ given' = now
           /\ \E value \in values :
               entry' = [value |-> value, at |-> now, asked |-> asked, table |-> pings]
  <2>1. PICK value \in values :
          entry' = [value |-> value, at |-> now, asked |-> asked, table |-> pings]
    BY <1>7
  <2>2. /\ DOMAIN entry' = {"value", "at", "asked", "table"}
        /\ entry'.value = value /\ entry'.at = now /\ entry'.asked = asked /\ entry'.table = pings
    BY <2>1
  <2>3. IF view = "hourly" THEN value = Summary(SummaryStart(asked), pings)
                           ELSE value \in TextOrders(Listed(asked - Window, pings))
    OBVIOUS
  <2>4. IF view = "hourly" THEN \A b \in value : b \in Boxes ELSE value \in Seq(Rows)
    <3>1. CASE view = "hourly"
      BY <1>0, <1>2, <2>3, <3>1, SummaryIsOfBoxes
    <3>2. CASE view # "hourly"
      BY <1>0, <1>2, <2>3, <3>2, ListIsTheWindow
    <3> QED BY <3>1, <3>2
  <2>5. TypeOK'
    BY <1>0, <1>1, <1>2, <1>3, <1>7, <2>2, <2>4 DEF TypeOK
  <2>6. EntryInv'
    <3>1. now - now < Lifetime[view] /\ now <= now
      BY <1>0 DEF TypeOK, ChartAssumption
    <3> QED BY <1>0, <1>1, <1>2, <1>7, <2>2, <2>3, <3>1 DEF EntryInv
  <2> QED BY <1>3, <1>7, <1>4, <2>5, <2>6 DEF ChartInv
<1> QED BY <1>5, <1>6, <1>7 DEF Read

LEMMA NextChartInv ==
  ASSUME ChartAssumption, ChartInv, [Next]_vars
  PROVE  ChartInv'
<1>0. /\ TypeOK /\ IsTable(pings, now) /\ EntryInv
      /\ given <= now /\ \A t \in waiting : t <= now
      /\ MaxNow \in Nat /\ now \in 0..MaxNow /\ waiting \in SUBSET (0..MaxNow)
      /\ given \in 0..MaxNow
  BY DEF ChartInv, TypeOK, ChartAssumption
<1>1. CASE Tick
  <2>1. now' = now + 1 /\ now + 1 \in 0..MaxNow /\ UNCHANGED <<pings, view, waiting, entry, given>>
    BY <1>0, <1>1 DEF Tick
  <2>2. TypeOK'
    BY <1>0, <2>1 DEF TypeOK
  <2>3. IsTable(pings', now')
    <3>1. \A row \in Rows : row.at \in Int
      BY RowFields
    <3>2. \A row \in Rows : pings[row] > 0 => row.at <= now + 1
      BY <1>0, <3>1 DEF IsTable
    <3> QED BY <1>0, <2>1, <3>2 DEF IsTable
  <2>4. EntryInv'
    BY <1>0, <2>1, EntryStays
  <2>5. given' <= now' /\ \A t \in waiting' : t <= now'
    BY <1>0, <2>1
  <2> QED BY <2>2, <2>3, <2>4, <2>5 DEF ChartInv
<1>2. CASE Flush
  <2>1. pings' \in Bags /\ IsTable(pings', now) /\ UNCHANGED <<now, view, waiting, entry, given>>
    BY <1>2, FlushKeepsTable DEF Flush
  <2>2. TypeOK'
    BY <1>0, <2>1 DEF TypeOK
  <2>3. EntryInv'
    BY <1>0, <2>1, EntryStays
  <2> QED BY <1>0, <2>1, <2>2, <2>3 DEF ChartInv
<1>3. CASE Ask
  <2>1. waiting' = waiting \cup {now} /\ UNCHANGED <<now, pings, view, entry, given>>
    BY <1>3 DEF Ask
  <2>2. TypeOK'
    BY <1>0, <2>1 DEF TypeOK
  <2>3. EntryInv'
    BY <1>0, <2>1, EntryStays
  <2>4. \A t \in waiting' : t <= now'
    BY <1>0, <2>1
  <2> QED BY <1>0, <2>1, <2>2, <2>3, <2>4 DEF ChartInv
<1>4. ASSUME NEW asked \in waiting, AnswerHourly(asked) PROVE ChartInv'
  BY <1>4, ReadKeepsInv DEF AnswerHourly
<1>5. ASSUME NEW asked \in waiting, AnswerRecent(asked) PROVE ChartInv'
  BY <1>5, ReadKeepsInv DEF AnswerRecent
<1>6. CASE UNCHANGED vars
  <2>1. UNCHANGED <<now, pings, view, waiting, entry, given>>
    BY <1>6 DEF vars
  <2>2. TypeOK' /\ EntryInv'
    BY <1>0, <2>1 DEF TypeOK, EntryInv
  <2> QED BY <1>0, <2>1, <2>2 DEF ChartInv
<1> QED BY <1>1, <1>2, <1>3, <1>4, <1>5, <1>6 DEF Next
-----------------------------------------------------------------------------
(* What the views show *)

\* What the invariant says of an entry is what an answer promises.
LEMMA AnswersAreTrue ==
  ASSUME ChartAssumption, ChartInv
  PROVE  ChartsAreTrue
<1> SUFFICES ASSUME entry # NoEntry PROVE IsTrue(entry, given)
  BY DEF ChartsAreTrue
<1>1. /\ entry.asked \in 0..MaxNow /\ entry.at \in 0..MaxNow /\ entry.table \in Bags
      /\ view \in Views
  BY DEF ChartInv, TypeOK
<1>2. /\ IsTable(entry.table, entry.at)
      /\ entry.asked <= entry.at /\ entry.at <= given /\ given - entry.at < Lifetime[view]
      /\ IF view = "hourly"
         THEN entry.value = Summary(SummaryStart(entry.asked), entry.table)
         ELSE entry.value \in TextOrders(Listed(entry.asked - Window, entry.table))
  BY DEF ChartInv, EntryInv
<1>3. ASSUME view = "hourly"
      PROVE  /\ BoxesAreTrue(entry.value, entry.table)
             /\ NoBoxIsMissing(entry.value, entry.asked, entry.table)
             /\ Cardinality(Columns(entry.value)) <= Hours + (Hour(entry.at) - Hour(entry.asked))
  <2>1. entry.value = Summary(SummaryStart(entry.asked), entry.table)
    BY <1>2, <1>3
  <2>2. BoxesAreTrue(Summary(SummaryStart(entry.asked), entry.table), entry.table)
    BY <1>1, <1>2, SummaryIsOfBoxes DEF BoxesAreTrue
  <2>3. NoBoxIsMissing(Summary(SummaryStart(entry.asked), entry.table), entry.asked, entry.table)
    BY <1>1, SummaryIsComplete
  <2>4. Cardinality(Columns(Summary(SummaryStart(entry.asked), entry.table)))
          <= Hours + (Hour(entry.at) - Hour(entry.asked))
    BY <1>1, <1>2, ColumnsOfSummary
  <2> QED BY <2>1, <2>2, <2>3, <2>4
<1>4. ASSUME view = "recent" PROVE IsTheWindow(entry.value, entry.asked, entry.table)
  <2>1. entry.value \in TextOrders(Listed(entry.asked - Window, entry.table))
    BY <1>2, <1>4
  <2> QED BY <1>1, <2>1, ListIsTheWindow
<1> QED BY <1>2, <1>3, <1>4 DEF IsTrue

LEMMA ChartInvariant == ASSUME ChartAssumption PROVE Spec => []ChartInv
<1>1. Init => ChartInv
  BY InitChartInv
<1>2. ChartInv /\ [Next]_vars => ChartInv'
  BY NextChartInv
<1> QED BY <1>1, <1>2, PTL DEF Spec

\* Whatever the pings, the targets and the moment, and whosever window an answer was
\* computed for: it is of the table as it was less than the lifetime before; a box has
\* the count and the five numbers of all its hour's answered pings, no hour and target
\* that answered goes without one, a chart has no more columns than hours and turns of
\* the hour between fixing its window and querying, and the list is the window's rows
\* in their order.
THEOREM ViewsAreTrue == ASSUME ChartAssumption PROVE Spec => []ChartsAreTrue
<1>1. ChartInv => ChartsAreTrue
  BY AnswersAreTrue
<1> QED BY <1>1, ChartInvariant, PTL

\* No state holds a value its type leaves out: counts up to the bound, and entries of
\* the view that is asked for.
THEOREM ChartsAreTyped == ASSUME ChartAssumption PROVE Spec => []TypeOK
<1>1. ChartInv => TypeOK
  BY DEF ChartInv
<1> QED BY <1>1, ChartInvariant, PTL
=============================================================================
