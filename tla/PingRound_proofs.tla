-------------------------- MODULE PingRound_proofs --------------------------
(***************************************************************************)
(* Theorems about PingRound, for any number of targets and rounds, any     *)
(* limits on a ping, a write and a stop, and any cap and number of writes  *)
(* that fail.                                                              *)
(***************************************************************************)
EXTENDS PingRound, TLAPS

\* What is known of the constants.
LEMMA Constants ==
  ASSUME RoundAssumption
  PROVE  /\ Targets \in Nat \ {0} /\ FlushEvery \in Nat \ {0} /\ Cap \in Nat \ {0}
         /\ TargetTime \in Nat /\ BusyTime \in Nat /\ StopTime \in Nat
         /\ MaxRounds \in Nat \ {0} /\ MaxFaults \in Nat
BY DEF RoundAssumption

-----------------------------------------------------------------------------
(* Chains of results *)

\* A concatenation has the elements of its halves.
LEMMA ConcatElements ==
  ASSUME NEW S, NEW s \in Seq(S), NEW t \in Seq(S)
  PROVE  /\ s \o t \in Seq(S) /\ Len(s) \in Nat /\ Len(t) \in Nat
         /\ Len(s \o t) = Len(s) + Len(t)
         /\ DOMAIN s = 1..Len(s) /\ DOMAIN t = 1..Len(t)
         /\ DOMAIN (s \o t) = 1..(Len(s) + Len(t))
         /\ \A i \in 1..Len(s) : (s \o t)[i] = s[i]
         /\ \A i \in (Len(s) + 1)..(Len(s) + Len(t)) : (s \o t)[i] = t[i - Len(s)]
OBVIOUS

LEMMA ConcatRound ==
  ASSUME NEW S, NEW s \in Seq(S), NEW t \in Seq(S), NEW n, Len(t) = n
  PROVE  /\ s \o t \in Seq(S) /\ Len(s \o t) = Len(s) + n
         /\ DOMAIN s = 1..Len(s) /\ DOMAIN t = 1..n /\ DOMAIN (s \o t) = 1..(Len(s) + n)
         /\ \A i \in 1..Len(s) : (s \o t)[i] = s[i]
         /\ \A i \in (Len(s) + 1)..(Len(s) + n) : (s \o t)[i] = t[i - Len(s)]
OBVIOUS

\* Rounds are numbers.
LEMMA RoundIsNumber ==
  ASSUME NEW s \in Seq(Results), NEW i \in DOMAIN s
  PROVE  s[i].round \in 1..MaxRounds
<1>1. s[i] \in Results
  OBVIOUS
<1> QED BY <1>1 DEF Results

LEMMA ChainEmpty == Chain(<<>>)
BY DEF Chain

\* Later rounds can follow.
LEMMA ChainConcat ==
  ASSUME NEW s \in Seq(Results), NEW t \in Seq(Results), Chain(s), Chain(t),
         \A i \in DOMAIN s, j \in DOMAIN t : s[i].round < t[j].round
  PROVE  Chain(s \o t)
<1>1. /\ Len(s) \in Nat /\ Len(t) \in Nat /\ Len(s \o t) = Len(s) + Len(t)
      /\ DOMAIN s = 1..Len(s) /\ DOMAIN t = 1..Len(t)
      /\ \A i \in 1..Len(s) : (s \o t)[i] = s[i]
      /\ \A i \in (Len(s) + 1)..(Len(s) + Len(t)) : (s \o t)[i] = t[i - Len(s)]
  BY ConcatElements
<1>l. Len(s) \in Nat /\ Len(t) \in Nat
  BY <1>1
<1>2. ASSUME NEW i \in 1..(Len(s) + Len(t) - 1) PROVE InOrder((s \o t)[i], (s \o t)[i + 1])
  <2>0. i \in Nat
    BY <1>l
  <2>1. CASE i < Len(s)
    <3>1. (s \o t)[i] = s[i] /\ (s \o t)[i + 1] = s[i + 1] /\ i \in 1..(Len(s) - 1)
      BY <1>1, <2>1
    <3> QED BY <3>1 DEF Chain
  <2>2. CASE i > Len(s)
    <3>0. i - Len(s) \in 1..(Len(t) - 1)
      BY <1>l, <2>2
    <3>1. PICK k \in 1..(Len(t) - 1) : k = i - Len(s)
      BY <3>0
    <3>2. (s \o t)[i] = t[k] /\ (s \o t)[i + 1] = t[k + 1]
      <4>1. i \in (Len(s) + 1)..(Len(s) + Len(t)) /\ i + 1 \in (Len(s) + 1)..(Len(s) + Len(t))
        BY <1>1, <2>2
      <4>2. i + 1 - Len(s) = k + 1
        BY <1>1, <3>1
      <4> QED BY <1>1, <3>1, <4>1, <4>2
    <3> QED BY <3>1, <3>2 DEF Chain
  <2>3. CASE i = Len(s)
    <3>1. /\ (s \o t)[i] = s[Len(s)] /\ (s \o t)[i + 1] = t[1]
          /\ Len(s) \in DOMAIN s /\ 1 \in DOMAIN t /\ s # <<>>
      <4>1. i + 1 \in (Len(s) + 1)..(Len(s) + Len(t)) /\ i + 1 - Len(s) = 1
        BY <1>1, <2>3
      <4> QED BY <1>1, <2>3, <4>1
    <3>2. s[Len(s)].target = Targets /\ s[Len(s)].round < t[1].round
      BY <3>1 DEF Chain
    <3>3. s[Len(s)].round \in 1..MaxRounds /\ t[1].round \in 1..MaxRounds
      BY <3>1, RoundIsNumber
    <3> QED BY <3>1, <3>2, <3>3 DEF InOrder
  <2> QED BY <1>l, <2>0, <2>1, <2>2, <2>3
<1>3. s \o t # <<>> => (s \o t)[Len(s) + Len(t)].target = Targets
  <2>1. CASE t = <<>>
    <3>1. s \o t = s /\ Len(t) = 0
      BY <2>1
    <3> QED BY <1>1, <3>1 DEF Chain
  <2>2. CASE t # <<>>
    <3>1. Len(t) \in 1..Len(t)
      BY <1>1, <2>2
    <3>2. (s \o t)[Len(s) + Len(t)] = t[Len(t)]
      <4>1. Len(s) + Len(t) \in (Len(s) + 1)..(Len(s) + Len(t)) /\ Len(s) + Len(t) - Len(s) = Len(t)
        BY <1>1, <3>1
      <4> QED BY <1>1, <4>1
    <3> QED BY <2>2, <3>2 DEF Chain
  <2> QED BY <2>1, <2>2
<1> QED BY <1>1, <1>2, <1>3 DEF Chain

\* A round that has come to its end.
LEMMA ChainRound ==
  ASSUME RoundAssumption, NEW s \in Seq(Results), NEW n, Len(s) = Targets,
         \A i \in DOMAIN s : s[i] = [round |-> n, target |-> i]
  PROVE  Chain(s)
<1>0. Targets \in Nat \ {0} /\ DOMAIN s = 1..Targets
  BY Constants
<1>1. ASSUME NEW i \in 1..(Targets - 1) PROVE InOrder(s[i], s[i + 1])
  <2>1. i \in 1..Targets /\ i + 1 \in 1..Targets /\ i # Targets
    BY <1>0
  <2>2. s[i] = [round |-> n, target |-> i] /\ s[i + 1] = [round |-> n, target |-> i + 1]
    BY <1>0, <2>1
  <2> QED BY <2>1, <2>2 DEF InOrder
<1>2. s[Targets].target = Targets
  <2>1. s[Targets] = [round |-> n, target |-> Targets]
    BY <1>0
  <2> QED BY <2>1
<1> QED BY <1>1, <1>2 DEF Chain

\* The elements of the end of a sequence.
LEMMA Shortened ==
  ASSUME NEW S, NEW s \in Seq(S), NEW n \in 1..Len(s)
  PROVE  /\ SubSeq(s, n, Len(s)) \in Seq(S)
         /\ Len(SubSeq(s, n, Len(s))) = Len(s) - n + 1
         /\ DOMAIN SubSeq(s, n, Len(s)) = 1..(Len(s) - n + 1)
         /\ \A i \in 1..(Len(s) - n + 1) : SubSeq(s, n, Len(s))[i] = s[i + n - 1]
<1>1. Len(s) \in Nat /\ DOMAIN s = 1..Len(s) /\ \A i \in 1..Len(s) : s[i] \in S
  OBVIOUS
<1>2. SubSeq(s, n, Len(s)) = [i \in 1..(1 + Len(s) - n) |-> s[i + n - 1]]
  BY <1>1
<1>3. Len(s) - n + 1 = 1 + Len(s) - n /\ 1 + Len(s) - n \in Nat
  BY <1>1
<1>4. \A i \in 1..(1 + Len(s) - n) : s[i + n - 1] \in S
  BY <1>1
<1> QED BY <1>2, <1>3, <1>4

\* What the cap leaves is a chain too, no longer than the cap and than what there was.
LEMMA NewestChain ==
  ASSUME RoundAssumption, NEW s \in Seq(Results), Chain(s)
  PROVE  /\ Newest(s) \in Seq(Results) /\ Chain(Newest(s))
         /\ Len(Newest(s)) <= Cap /\ Len(Newest(s)) <= Len(s)
         /\ Len(s) <= Cap => Newest(s) = s
         /\ \A j \in DOMAIN Newest(s) : \E i \in DOMAIN s : Newest(s)[j] = s[i]
<1>0. Cap \in Nat \ {0} /\ Len(s) \in Nat /\ DOMAIN s = 1..Len(s)
  BY Constants
<1>1. CASE Len(s) <= Cap
  BY <1>0, <1>1 DEF Newest
<1>2. CASE ~(Len(s) <= Cap)
  <2>1. PICK n \in 1..Len(s) : n = Len(s) - Cap + 1
    BY <1>0, <1>2
  <2>2. Newest(s) = SubSeq(s, n, Len(s))
    BY <1>2, <2>1 DEF Newest
  <2>3. Len(s) - n + 1 = Cap
    BY <1>0, <2>1
  <2>4. /\ Newest(s) \in Seq(Results) /\ Len(Newest(s)) = Cap /\ DOMAIN Newest(s) = 1..Cap
        /\ \A i \in 1..Cap : Newest(s)[i] = s[i + n - 1]
    BY <2>2, <2>3, Shortened
  <2>5. ASSUME NEW i \in 1..(Cap - 1) PROVE InOrder(Newest(s)[i], Newest(s)[i + 1])
    <3>0. i + n - 1 \in 1..(Len(s) - 1)
      BY <1>0, <2>1
    <3>1. PICK k \in 1..(Len(s) - 1) : k = i + n - 1
      BY <3>0
    <3>2. Newest(s)[i] = s[k] /\ Newest(s)[i + 1] = s[k + 1]
      <4>1. i \in 1..Cap /\ i + 1 \in 1..Cap /\ (i + 1) + n - 1 = k + 1
        BY <1>0, <2>1, <3>1
      <4> QED BY <2>4, <3>1, <4>1
    <3> QED BY <3>1, <3>2 DEF Chain
  <2>6. Newest(s)[Cap] = s[Len(s)] /\ s # <<>>
    <3>1. Cap \in 1..Cap /\ Cap + n - 1 = Len(s)
      BY <1>0, <2>1
    <3> QED BY <1>0, <1>2, <2>4, <3>1
  <2>7. Chain(Newest(s))
    BY <2>4, <2>5, <2>6 DEF Chain
  <2>8. \A j \in 1..Cap : j + n - 1 \in 1..Len(s)
    BY <1>0, <2>1
  <2>9. \A j \in DOMAIN Newest(s) : \E i \in DOMAIN s : Newest(s)[j] = s[i]
    BY <1>0, <2>4, <2>8
  <2>10. Len(Newest(s)) <= Cap /\ Len(Newest(s)) <= Len(s)
    BY <1>0, <1>2, <2>4
  <2> QED BY <1>2, <2>4, <2>7, <2>9, <2>10
<1> QED BY <1>1, <1>2

-----------------------------------------------------------------------------
(* Whole rounds *)

\* What is known between two steps.
LEMMA Known ==
  ASSUME RoundAssumption, WholeInv
  PROVE  /\ TypeOK
         /\ pc \in {"ping", "flush", "between", "check", "exit", "ended", "killed"}
         /\ done \in Seq(Results) /\ Len(done) <= Targets /\ Len(done) \in Nat
         /\ buffer \in Seq(Results) /\ Len(buffer) <= Cap /\ Len(buffer) \in Nat
         /\ table \in Seq(Results) /\ Len(table) \in Nat
         /\ DOMAIN done = 1..Len(done) /\ DOMAIN buffer = 1..Len(buffer)
         /\ DOMAIN table = 1..Len(table)
         /\ left \in 0..FlushEvery /\ elapsed \in NotAsked..StopTime
         /\ rounds \in 0..MaxRounds /\ lost \in Nat /\ faults \in 0..MaxFaults
BY DEF WholeInv, TypeOK

\* What a write leaves: all of it stored, or all of it kept, which is a fault.
LEMMA WriteKeeps ==
  ASSUME RoundAssumption, WholeInv, Write
  PROVE  /\ buffer' \in Seq(Results) /\ Len(buffer') <= Cap /\ table' \in Seq(Results)
         /\ Chain(table') /\ Chain(buffer')
         /\ \A i \in DOMAIN table' : table'[i].round <= rounds
         /\ \A i \in DOMAIN buffer' : buffer'[i].round <= rounds
         /\ \A i \in DOMAIN table', j \in DOMAIN buffer' : table'[i].round < buffer'[j].round
         /\ Len(table') + Len(buffer') = Len(table) + Len(buffer)
         /\ faults' \in 0..MaxFaults /\ faults <= faults'
         /\ faults' = faults => buffer' = <<>>
         /\ faults' # 0 \/ faults = 0
<1>0. /\ buffer \in Seq(Results) /\ Len(buffer) <= Cap /\ table \in Seq(Results)
      /\ Chain(table) /\ Chain(buffer)
      /\ \A i \in DOMAIN table : table[i].round <= rounds
      /\ \A i \in DOMAIN buffer : buffer[i].round <= rounds
      /\ \A i \in DOMAIN table, j \in DOMAIN buffer : table[i].round < buffer[j].round
      /\ faults \in 0..MaxFaults /\ Cap \in Nat /\ MaxFaults \in Nat
  BY Constants DEF WholeInv, TypeOK
<1>1. CASE table' = table \o buffer /\ buffer' = <<>> /\ UNCHANGED faults
  <2>1. /\ Len(table \o buffer) = Len(table) + Len(buffer) /\ Len(table) \in Nat
        /\ Len(buffer) \in Nat /\ table \o buffer \in Seq(Results)
        /\ DOMAIN table = 1..Len(table) /\ DOMAIN buffer = 1..Len(buffer)
        /\ DOMAIN (table \o buffer) = 1..(Len(table) + Len(buffer))
        /\ \A i \in 1..Len(table) : (table \o buffer)[i] = table[i]
        /\ \A i \in (Len(table) + 1)..(Len(table) + Len(buffer)) :
              (table \o buffer)[i] = buffer[i - Len(table)]
    BY <1>0, ConcatElements
  <2>2. Chain(table \o buffer)
    BY <1>0, ChainConcat
  <2>3. ASSUME NEW i \in 1..(Len(table) + Len(buffer)) PROVE (table \o buffer)[i].round <= rounds
    <3>1. CASE i <= Len(table)
      BY <1>0, <2>1, <3>1
    <3>2. CASE i > Len(table)
      <4>1. i - Len(table) \in DOMAIN buffer /\ i \in (Len(table) + 1)..(Len(table) + Len(buffer))
        BY <2>1, <3>2
      <4> QED BY <1>0, <2>1, <4>1
    <3> QED BY <2>1, <3>1, <3>2
  <2>4. <<>> \in Seq(Results) /\ Len(<<>>) = 0 /\ DOMAIN <<>> = {}
    OBVIOUS
  <2> QED BY <1>0, <1>1, <2>1, <2>2, <2>3, <2>4, ChainEmpty
<1>2. CASE /\ faults < MaxFaults /\ faults' = faults + 1 /\ UNCHANGED <<table, buffer>>
  <2>1. faults' \in 0..MaxFaults /\ faults <= faults' /\ faults' # faults /\ faults' # 0
    BY <1>0, <1>2
  <2> QED BY <1>0, <1>2, <2>1
<1> QED BY <1>1, <1>2 DEF Write

\* The stop's clock does not run past its end.
LEMMA TakesTime ==
  ASSUME RoundAssumption, TypeOK, NEW time \in Nat, Takes(time)
  PROVE  /\ elapsed' \in NotAsked..StopTime
         /\ elapsed = NotAsked => elapsed' = NotAsked
         /\ elapsed # NotAsked => elapsed' = elapsed + time /\ elapsed' # NotAsked
BY Constants, SMTT(30) DEF Takes, TypeOK, NotAsked

LEMMA WriteTakesTime ==
  ASSUME RoundAssumption, TypeOK, Write
  PROVE  elapsed' \in NotAsked..StopTime
<1>1. PICK time \in 0..BusyTime : Takes(time)
  BY DEF Write
<1>2. time \in Nat
  BY <1>1, Constants
<1> QED BY <1>1, <1>2, TakesTime

\* A round more.
LEMMA Successor == ASSUME NEW n \in Nat, NEW t \in Nat PROVE (n + 1) * t = n * t + t /\ n * t \in Nat
OBVIOUS

LEMMA InitWhole == ASSUME RoundAssumption PROVE Init => WholeInv
<1> SUFFICES ASSUME Init PROVE WholeInv
  OBVIOUS
<1>1. <<>> \in Seq(Results) /\ Len(<<>>) = 0 /\ DOMAIN <<>> = {}
  OBVIOUS
<1>2. /\ left \in 0..FlushEvery /\ elapsed \in NotAsked..StopTime /\ rounds \in 0..MaxRounds
      /\ lost \in Nat /\ faults \in 0..MaxFaults /\ rounds < MaxRounds /\ left > 0
  BY Constants DEF Init, NotAsked
<1>3. TypeOK
  BY <1>1, <1>2, Constants DEF Init, TypeOK
<1>4. 0 * Targets = 0
  BY Constants
<1> QED BY <1>1, <1>2, <1>3, <1>4, ChainEmpty DEF Init, WholeInv

\* What a round adds.
LEMMA KeepWhole ==
  ASSUME RoundAssumption, WholeInv, Keep
  PROVE  WholeInv'
<1>0. /\ TypeOK /\ done \in Seq(Results) /\ buffer \in Seq(Results) /\ table \in Seq(Results)
      /\ Len(buffer) \in Nat /\ Len(table) \in Nat /\ left \in 0..FlushEvery /\ left > 0
      /\ elapsed \in NotAsked..StopTime /\ rounds \in 0..MaxRounds /\ rounds < MaxRounds
      /\ lost \in Nat /\ faults \in 0..MaxFaults
      /\ Chain(table) /\ Chain(buffer)
      /\ \A i \in DOMAIN table : table[i].round <= rounds
      /\ \A i \in DOMAIN buffer : buffer[i].round <= rounds
      /\ \A i \in DOMAIN table, j \in DOMAIN buffer : table[i].round < buffer[j].round
      /\ \A i \in DOMAIN done : done[i] = [round |-> rounds + 1, target |-> i]
      /\ Len(table) + Len(buffer) + lost = rounds * Targets
  BY Known DEF WholeInv, Keep
<1>n. /\ Targets \in Nat \ {0} /\ FlushEvery \in Nat \ {0} /\ MaxRounds \in Nat \ {0}
      /\ Cap \in Nat \ {0}
  BY Constants
<1>1. /\ Len(done) = Targets /\ buffer' = Newest(buffer \o done) /\ done' = <<>>
      /\ lost' = lost + Len(buffer) + Targets - Len(buffer')
      /\ left' = left - 1 /\ rounds' = rounds + 1
      /\ pc' \in {"flush", "between"} /\ (left = 1 => pc' = "flush")
      /\ UNCHANGED <<table, elapsed, faults>>
  BY DEF Keep
<1> DEFINE all == buffer \o done
<1>2. /\ all \in Seq(Results) /\ Len(all) = Len(buffer) + Targets
      /\ DOMAIN all = 1..(Len(buffer) + Targets) /\ DOMAIN buffer = 1..Len(buffer)
      /\ DOMAIN done = 1..Targets
      /\ \A i \in 1..Len(buffer) : all[i] = buffer[i]
      /\ \A i \in (Len(buffer) + 1)..(Len(buffer) + Targets) : all[i] = done[i - Len(buffer)]
  <2>1. done \in Seq(Results) /\ buffer \in Seq(Results) /\ Len(done) = Targets
    BY <1>0, <1>1
  <2> QED BY <2>1, ConcatRound
<1>3. Chain(all)
  <2>1. Chain(done)
    BY <1>0, <1>1, ChainRound
  <2>2. \A i \in DOMAIN buffer, j \in DOMAIN done : buffer[i].round < done[j].round
    <3>1. \A i \in DOMAIN buffer : buffer[i].round \in 1..MaxRounds
      BY <1>0, RoundIsNumber
    <3>2. \A j \in DOMAIN done : done[j].round = rounds + 1
      BY <1>0
    <3> QED BY <1>0, <3>1, <3>2
  <2> QED BY <1>0, <2>1, <2>2, ChainConcat
<1>4. ASSUME NEW i \in DOMAIN all
      PROVE  /\ all[i].round <= rounds + 1
             /\ \A k \in DOMAIN table : table[k].round < all[i].round
  <2>0. \A k \in DOMAIN table : table[k].round \in 1..MaxRounds
    BY <1>0, RoundIsNumber
  <2>1. CASE i <= Len(buffer)
    <3>1. i \in DOMAIN buffer /\ all[i] = buffer[i]
      BY <1>2, <2>1
    <3>2. buffer[i].round \in 1..MaxRounds /\ buffer[i].round <= rounds
      BY <1>0, <3>1, RoundIsNumber
    <3> QED BY <1>0, <3>1, <3>2
  <2>2. CASE i > Len(buffer)
    <3>1. i - Len(buffer) \in DOMAIN done /\ all[i] = done[i - Len(buffer)]
      BY <1>0, <1>n, <1>2, <2>2
    <3>2. all[i].round = rounds + 1
      BY <1>0, <3>1
    <3> QED BY <1>0, <2>0, <3>2
  <2> QED BY <1>0, <1>2, <2>1, <2>2
<1> HIDE DEF all
<1>5. /\ buffer' \in Seq(Results) /\ Chain(buffer') /\ Len(buffer') <= Cap
      /\ Len(buffer') <= Len(buffer) + Targets /\ Len(buffer') \in Nat
      /\ \A j \in DOMAIN buffer' : \E i \in DOMAIN all : buffer'[j] = all[i]
  <2>1. buffer' = Newest(all)
    BY <1>1 DEF all
  <2>2. /\ Newest(all) \in Seq(Results) /\ Chain(Newest(all))
        /\ Len(Newest(all)) <= Cap /\ Len(Newest(all)) <= Len(all)
        /\ \A j \in DOMAIN Newest(all) : \E i \in DOMAIN all : Newest(all)[j] = all[i]
    BY <1>2, <1>3, NewestChain
  <2>3. Len(Newest(all)) \in Nat
    BY <2>2
  <2>4. Len(Newest(all)) <= Len(buffer) + Targets
    BY <1>2, <2>2
  <2> QED BY <2>1, <2>2, <2>3, <2>4, Zenon
<1>6. /\ \A j \in DOMAIN buffer' : buffer'[j].round <= rounds + 1
      /\ \A k \in DOMAIN table, j \in DOMAIN buffer' : table[k].round < buffer'[j].round
  BY <1>4, <1>5
<1>7. \A i \in DOMAIN table : table[i].round <= rounds + 1
  <2>1. \A i \in DOMAIN table : table[i].round \in 1..MaxRounds
    BY <1>0, RoundIsNumber
  <2> QED BY <1>0, <2>1
<1>8. lost' \in Nat /\ Len(table') + Len(buffer') + lost' = rounds' * Targets
  <2>1. (rounds + 1) * Targets = rounds * Targets + Targets /\ rounds * Targets \in Nat
    BY <1>0, <1>n, Successor
  <2>2. lost' \in Nat
    <3>1. ASSUME NEW l \in Nat, NEW b \in Nat, NEW t \in Nat, NEW c \in Nat, c <= b + t
          PROVE  l + b + t - c \in Nat
      BY <3>1
    <3>2. Len(buffer') \in Nat /\ Len(buffer') <= Len(buffer) + Targets
      BY <1>5
    <3>3. Len(buffer) \in Nat /\ lost \in Nat /\ Targets \in Nat
      BY <1>0, <1>n
    <3>4. lost + Len(buffer) + Targets - Len(buffer') \in Nat
      BY <3>1, <3>2, <3>3
    <3> QED BY <1>1, <3>4
  <2>3. Len(table') + Len(buffer') + lost' = Len(table) + Len(buffer) + lost + Targets
    BY <1>0, <1>1, <1>5, <1>n
  <2>4. Len(table') + Len(buffer') + lost' = rounds * Targets + Targets
    BY <1>0, <2>1, <2>3, <1>n
  <2> QED BY <1>1, <2>1, <2>2, <2>4
<1>9. left' \in 0..FlushEvery /\ (pc' = "between" => left' > 0) /\ rounds' \in 0..MaxRounds
  BY <1>0, <1>1, <1>n
<1>10. /\ <<>> \in Seq(Results) /\ Len(<<>>) = 0 /\ DOMAIN <<>> = {} /\ 0 <= Targets
  BY <1>n
<1>11. TypeOK'
  BY <1>0, <1>1, <1>5, <1>8, <1>9, <1>10 DEF TypeOK
<1> QED BY <1>0, <1>1, <1>5, <1>6, <1>7, <1>8, <1>9, <1>10, <1>11 DEF WholeInv

LEMMA NextWhole == ASSUME RoundAssumption PROVE WholeInv /\ [Next]_vars => WholeInv'
<1> SUFFICES ASSUME WholeInv, [Next]_vars PROVE WholeInv'
  OBVIOUS
<1>0. /\ TypeOK
      /\ pc \in {"ping", "flush", "between", "check", "exit", "ended", "killed"}
      /\ done \in Seq(Results) /\ Len(done) <= Targets /\ Len(done) \in Nat
      /\ buffer \in Seq(Results) /\ Len(buffer) <= Cap /\ Len(buffer) \in Nat
      /\ table \in Seq(Results) /\ Len(table) \in Nat
      /\ left \in 0..FlushEvery /\ elapsed \in NotAsked..StopTime
      /\ rounds \in 0..MaxRounds /\ lost \in Nat /\ faults \in 0..MaxFaults
  BY Known
<1>w. /\ pc \in {"ping", "between", "check"} => left > 0
      /\ pc = "ping" => rounds < MaxRounds
      /\ Chain(table) /\ Chain(buffer)
      /\ \A i \in DOMAIN table : table[i].round <= rounds
      /\ \A i \in DOMAIN buffer : buffer[i].round <= rounds
      /\ \A i \in DOMAIN table, j \in DOMAIN buffer : table[i].round < buffer[j].round
      /\ \A i \in DOMAIN done : done[i] = [round |-> rounds + 1, target |-> i]
      /\ Len(table) + Len(buffer) + lost = rounds * Targets
  BY DEF WholeInv
<1>n. /\ Targets \in Nat \ {0} /\ FlushEvery \in Nat \ {0} /\ MaxRounds \in Nat \ {0}
      /\ Cap \in Nat \ {0} /\ TargetTime \in Nat /\ BusyTime \in Nat /\ StopTime \in Nat
  BY Constants
\* An empty round.
<1>e. <<>> \in Seq(Results) /\ Len(<<>>) = 0 /\ Len(<<>>) <= Targets /\ DOMAIN <<>> = {}
      /\ Len(<<>>) <= Cap
  BY <1>n
<1>1. CASE Ping
  <2>1. /\ UNCHANGED <<buffer, table, left, rounds, lost, faults>>
        /\ pc = "ping" /\ Len(done) < Targets
    BY <1>1 DEF Ping
  <2>2. PICK outcome \in Outcomes, time \in 0..TargetTime :
          /\ Takes(time)
          /\ IF outcome = "no binary"
             THEN pc' = "exit" /\ done' = <<>>
             ELSE done' = Append(done, Result(Len(done) + 1)) /\ UNCHANGED pc
    BY <1>1 DEF Ping
  <2>3. elapsed' \in NotAsked..StopTime
    <3>1. time \in Nat
      BY <1>n
    <3> QED BY <1>0, <2>2, <3>1, TakesTime
  <2>4. CASE pc' = "exit" /\ done' = <<>>
    <3>1. TypeOK'
      BY <1>0, <1>e, <2>1, <2>3, <2>4 DEF TypeOK
    <3> QED BY <1>w, <1>e, <2>1, <2>4, <3>1 DEF WholeInv
  <2>5. CASE done' = Append(done, Result(Len(done) + 1)) /\ UNCHANGED pc
    <3> DEFINE r == Result(Len(done) + 1)
    <3>1. r = [round |-> rounds + 1, target |-> Len(done) + 1] /\ r \in Results
      <4>1. Len(done) + 1 \in 1..Targets /\ rounds + 1 \in 1..MaxRounds
        BY <1>0, <1>w, <1>n, <2>1
      <4> QED BY <4>1 DEF Result, Results
    <3>1a. done' = Append(done, r)
      BY <2>5
    <3> HIDE DEF r
    <3>2. /\ done' \in Seq(Results) /\ Len(done') = Len(done) + 1
          /\ DOMAIN done' = 1..(Len(done) + 1) /\ DOMAIN done = 1..Len(done)
          /\ done'[Len(done) + 1] = r /\ \A i \in DOMAIN done : done'[i] = done[i]
      BY <1>0, <3>1, <3>1a
    <3>3. Len(done') <= Targets
      BY <1>0, <1>n, <2>1, <3>2
    <3>4. \A i \in DOMAIN done' : done'[i] = [round |-> rounds + 1, target |-> i]
      <4>1. \A i \in DOMAIN done' : i \in DOMAIN done \/ i = Len(done) + 1
        BY <1>0, <3>2
      <4> QED BY <1>w, <3>1, <3>2, <4>1
    <3>5. TypeOK'
      BY <1>0, <2>1, <2>3, <2>5, <3>2, <3>3 DEF TypeOK
    <3> QED BY <1>w, <2>1, <2>5, <3>4, <3>5 DEF WholeInv
  <2> QED BY <2>2, <2>4, <2>5
<1>2. CASE Keep
  BY <1>2, KeepWhole
<1>3. CASE Flush \/ Exit
  <2>1. /\ Write /\ UNCHANGED <<done, rounds, lost>> /\ pc' \in {"between", "exit", "ended"}
        /\ left' \in 0..FlushEvery /\ (pc' = "between" => left' > 0)
    BY <1>0, <1>n, <1>3 DEF Flush, Exit
  <2>2. elapsed' \in NotAsked..StopTime
    BY <1>0, <2>1, WriteTakesTime
  <2>3. /\ buffer' \in Seq(Results) /\ Len(buffer') <= Cap /\ table' \in Seq(Results)
        /\ Chain(table') /\ Chain(buffer')
        /\ \A i \in DOMAIN table' : table'[i].round <= rounds
        /\ \A i \in DOMAIN buffer' : buffer'[i].round <= rounds
        /\ \A i \in DOMAIN table', j \in DOMAIN buffer' : table'[i].round < buffer'[j].round
        /\ Len(table') + Len(buffer') = Len(table) + Len(buffer)
        /\ faults' \in 0..MaxFaults
    BY <2>1, WriteKeeps
  <2>4. TypeOK'
    BY <1>0, <2>1, <2>2, <2>3 DEF TypeOK
  <2>5. Len(table') + Len(buffer') + lost' = rounds' * Targets
    BY <1>w, <2>1, <2>3
  <2> QED BY <1>w, <2>1, <2>3, <2>4, <2>5 DEF WholeInv
<1>4. CASE Between \/ Check
  <2>1. /\ UNCHANGED <<done, buffer, table, left, rounds, lost, faults>>
        /\ pc \in {"between", "check"} /\ pc' \in {"check", "exit", "ping"}
        /\ pc' = "ping" => rounds < MaxRounds
    BY <1>4 DEF Between, Check
  <2>2. elapsed' \in NotAsked..StopTime
    <3>1. CASE Check
      BY <1>0, <3>1 DEF Check
    <3>2. CASE Between
      <4>1. PICK time \in 0..BusyTime : Takes(time)
        BY <3>2 DEF Between
      <4>2. time \in Nat
        BY <1>n
      <4> QED BY <1>0, <4>1, <4>2, TakesTime
    <3> QED BY <1>4, <3>1, <3>2
  <2>3. TypeOK'
    BY <1>0, <2>1, <2>2 DEF TypeOK
  <2> QED BY <1>w, <2>1, <2>3 DEF WholeInv
<1>5. CASE Term
  <2>1. /\ UNCHANGED <<pc, done, buffer, table, left, rounds, lost, faults>>
        /\ elapsed' \in NotAsked..StopTime
    BY <1>n, <1>5 DEF Term, NotAsked
  <2>2. TypeOK'
    BY <1>0, <2>1 DEF TypeOK
  <2> QED BY <1>w, <2>1, <2>2 DEF WholeInv
<1>6. CASE Kill
  <2>1. /\ UNCHANGED <<table, left, elapsed, rounds, faults>> /\ pc' = "killed"
        /\ done' = <<>> /\ buffer' = <<>> /\ lost' = lost + Len(buffer)
    BY <1>6 DEF Kill
  <2>2. lost' \in Nat /\ Len(table') + Len(buffer') + lost' = rounds' * Targets
    <3>1. Len(table') + Len(buffer') + lost' = Len(table) + Len(buffer) + lost
      BY <1>0, <1>e, <2>1
    <3> QED BY <1>0, <1>w, <2>1, <3>1
  <2>3. TypeOK'
    BY <1>0, <1>e, <2>1, <2>2 DEF TypeOK
  <2> QED BY <1>w, <1>e, <2>1, <2>2, <2>3, ChainEmpty DEF WholeInv
<1>7. CASE UNCHANGED vars
  <2>1. TypeOK'
    BY <1>0, <1>7 DEF TypeOK, vars
  <2> QED BY <1>w, <1>7, <2>1 DEF WholeInv, vars
<1> QED BY <1>1, <1>2, <1>3, <1>4, <1>5, <1>6, <1>7 DEF Next

LEMMA WholeIsWhole == ASSUME RoundAssumption PROVE WholeInv /\ FlushInv => RoundsAreWhole
<1> SUFFICES ASSUME WholeInv, FlushInv PROVE RoundsAreWhole
  OBVIOUS
<1>1. table \in Seq(Results) /\ buffer \in Seq(Results)
  BY DEF WholeInv, TypeOK
<1>2. Chain(table \o buffer)
  BY <1>1, ChainConcat DEF WholeInv
<1>3. Len(table \o buffer) + lost = rounds * Targets
  BY <1>1, ConcatElements DEF WholeInv
<1> QED BY <1>2, <1>3 DEF FlushInv, RoundsAreWhole, Chain

-----------------------------------------------------------------------------
(* Flush intervals *)

\* The rounds still to come before the flush, and the pings of this round, at
\* their most.
LEMMA Product ==
  ASSUME NEW n \in Nat, NEW d \in 0..n, NEW t \in Nat
  PROVE  /\ n * t \in Nat /\ (n - d) * t \in Nat /\ (n - d) * t <= n * t
         /\ d < n => (n - (d + 1)) * t + t = (n - d) * t /\ t <= (n - d) * t
<1>1. PICK m \in Nat : m = n - d
  OBVIOUS
<1>2. n * t = m * t + d * t /\ m * t \in Nat /\ d * t \in Nat
  BY <1>1
<1>3. d < n => (m - 1) * t + t = m * t /\ (m - 1) * t \in Nat
  <2>1. SUFFICES ASSUME d < n PROVE (m - 1) * t + t = m * t /\ (m - 1) * t \in Nat
    OBVIOUS
  <2>2. m - 1 \in Nat
    BY <1>1, <2>1
  <2> QED BY <2>2
<1>4. n - (d + 1) = m - 1
  BY <1>1
<1> QED BY <1>1, <1>2, <1>3, <1>4

LEMMA InitFlush == ASSUME RoundAssumption PROVE Init => FlushInv
<1> SUFFICES ASSUME Init PROVE FlushInv
  OBVIOUS
<1>1. FlushEvery \in Nat \ {0} /\ Targets \in Nat
  BY Constants
<1>2. PICK m \in Nat : m = FlushEvery - 1
  BY <1>1
<1>3. m * Targets \in Nat
  BY <1>1
<1> QED BY <1>2, <1>3 DEF Init, FlushInv

\* What an interval can still measure, and what it has.
LEMMA Interval ==
  ASSUME RoundAssumption, WholeInv
  PROVE  /\ (FlushEvery - left) * Targets \in Nat /\ FlushEvery * Targets \in Nat
         /\ (FlushEvery - left) * Targets <= FlushEvery * Targets
         /\ left > 0 => /\ (FlushEvery - (left - 1)) * Targets = (FlushEvery - left) * Targets + Targets
                        /\ (FlushEvery - left) * Targets + Targets <= FlushEvery * Targets
<1>0. left \in 0..FlushEvery /\ Targets \in Nat /\ FlushEvery \in Nat
  BY Constants, Known
<1>1. /\ (FlushEvery - left) * Targets \in Nat /\ FlushEvery * Targets \in Nat
      /\ (FlushEvery - left) * Targets <= FlushEvery * Targets
  BY <1>0, Product
<1>2. ASSUME left > 0
      PROVE  /\ (FlushEvery - (left - 1)) * Targets = (FlushEvery - left) * Targets + Targets
             /\ (FlushEvery - left) * Targets + Targets <= FlushEvery * Targets
  <2>1. PICK l \in 0..FlushEvery : l = left - 1 /\ l < FlushEvery /\ l + 1 = left
    BY <1>0, <1>2
  <2>2. /\ (FlushEvery - (l + 1)) * Targets + Targets = (FlushEvery - l) * Targets
        /\ (FlushEvery - l) * Targets <= FlushEvery * Targets
    BY <1>0, <2>1, Product
  <2> QED BY <2>1, <2>2
<1> QED BY <1>1, <1>2

LEMMA NextFlush == ASSUME RoundAssumption PROVE WholeInv /\ FlushInv /\ [Next]_vars => FlushInv'
<1> SUFFICES ASSUME WholeInv, FlushInv, [Next]_vars PROVE FlushInv'
  OBVIOUS
<1>0. /\ buffer \in Seq(Results) /\ Len(buffer) \in Nat /\ done \in Seq(Results)
      /\ left \in 0..FlushEvery /\ Targets \in Nat /\ FlushEvery \in Nat \ {0} /\ Cap \in Nat
      /\ pc = "ping" => left > 0
      /\ faults = 0 => Len(buffer) <= (FlushEvery - left) * Targets
      /\ faults = 0 /\ FlushEvery * Targets <= Cap => lost = 0 \/ pc = "killed"
      /\ pc = "ended" /\ faults = 0 => buffer = <<>>
      /\ pc # "ping" => done = <<>>
      /\ faults \in Nat
  BY Constants, Known DEF WholeInv, FlushInv
<1>1. /\ (FlushEvery - left) * Targets \in Nat /\ FlushEvery * Targets \in Nat
      /\ left > 0 => /\ (FlushEvery - (left - 1)) * Targets = (FlushEvery - left) * Targets + Targets
                     /\ (FlushEvery - left) * Targets + Targets <= FlushEvery * Targets
  BY Interval
<1>2. CASE Ping
  <2>1. /\ UNCHANGED <<buffer, left, lost, faults>> /\ pc = "ping"
        /\ pc' = "ping" \/ (pc' = "exit" /\ done' = <<>>)
    BY <1>2 DEF Ping
  <2> QED BY <1>0, <2>1 DEF FlushInv
<1>3. CASE Keep
  <2>1. /\ pc = "ping" /\ buffer' = Newest(buffer \o done) /\ Len(done) = Targets
        /\ left' = left - 1 /\ left > 0 /\ done' = <<>> /\ pc' \in {"flush", "between"}
        /\ lost' = lost + Len(buffer) + Targets - Len(buffer') /\ UNCHANGED faults
    BY <1>0, <1>3 DEF Keep
  <2>2. /\ WholeInv' /\ Len(buffer') \in Nat
    <3>1. WholeInv'
      BY <1>3, KeepWhole
    <3>2. buffer' \in Seq(Results)
      BY <3>1 DEF WholeInv, TypeOK
    <3> QED BY <3>1, <3>2
  <2>3. buffer \o done \in Seq(Results) /\ Len(buffer \o done) = Len(buffer) + Targets
    <3>1. buffer \o done \in Seq(Results) /\ Len(buffer \o done) = Len(buffer) + Len(done)
      BY <1>0, ConcatElements
    <3> QED BY <2>1, <3>1
  <2>4. /\ Len(buffer') <= Len(buffer) + Targets
        /\ Len(buffer) + Targets <= Cap => Len(buffer') = Len(buffer) + Targets
    <3>1. CASE Len(buffer) + Targets <= Cap
      <4>1. buffer' = buffer \o done
        BY <2>1, <2>3, <3>1 DEF Newest
      <4>2. Len(buffer') = Len(buffer) + Targets
        BY <2>3, <4>1
      <4> QED BY <1>0, <4>2
    <3>2. CASE ~(Len(buffer) + Targets <= Cap)
      <4>1. Len(buffer') <= Cap
        BY <2>2 DEF WholeInv, TypeOK
      <4> QED BY <1>0, <2>2, <3>2, <4>1
    <3> QED BY <3>1, <3>2
  <2>5. faults' = 0 => Len(buffer') <= (FlushEvery - left') * Targets
    <3>1. (FlushEvery - left') * Targets = (FlushEvery - left) * Targets + Targets
      BY <1>1, <2>1
    <3> QED BY <1>0, <1>1, <2>1, <2>2, <2>4, <3>1
  <2>6. faults' = 0 /\ FlushEvery * Targets <= Cap => lost' = 0
    <3> SUFFICES ASSUME faults = 0, FlushEvery * Targets <= Cap PROVE lost' = 0
      BY <2>1
    <3>1. lost = 0
      BY <1>0, <2>1
    <3>2. Len(buffer) + Targets <= Cap
      <4>1. /\ Len(buffer) <= (FlushEvery - left) * Targets
            /\ (FlushEvery - left) * Targets + Targets <= FlushEvery * Targets
        BY <1>0, <1>1, <2>1
      <4>2. ASSUME NEW b \in Nat, NEW p \in Nat, NEW q \in Nat, NEW t \in Nat, NEW c \in Nat,
                   b <= p, p + t <= q, q <= c
            PROVE  b + t <= c
        BY <4>2
      <4> QED BY <1>0, <1>1, <4>1, <4>2
    <3> QED BY <1>0, <2>1, <2>4, <3>1, <3>2
  <2> QED BY <2>1, <2>5, <2>6 DEF FlushInv
<1>4. CASE Flush \/ Exit
  <2>1. /\ pc \in {"flush", "exit"} /\ pc' \in {"between", "exit", "ended"} /\ Write
        /\ left' \in 0..FlushEvery /\ UNCHANGED <<done, lost>>
    BY <1>0, <1>4 DEF Flush, Exit
  <2>2. faults' = 0 => faults = 0 /\ buffer' = <<>>
    <3>1. /\ faults' \in 0..MaxFaults /\ faults <= faults'
          /\ faults' = faults => buffer' = <<>>
      BY <2>1, WriteKeeps
    <3>2. faults' = 0 => faults = 0
      BY <1>0, <3>1
    <3> QED BY <3>1, <3>2
  <2>3. Len(<<>>) = 0 /\ (FlushEvery - left') * Targets \in Nat
    <3>1. left' \in 0..FlushEvery /\ FlushEvery \in Nat /\ Targets \in Nat
      BY <1>0, <2>1
    <3>2. (FlushEvery - left') * Targets \in Nat
      BY <3>1, Product
    <3> QED BY <3>2
  <2>4. faults' = 0 => Len(buffer') <= (FlushEvery - left') * Targets
    BY <2>2, <2>3
  <2> QED BY <1>0, <2>1, <2>2, <2>4 DEF FlushInv
<1>5. CASE Kill
  <2>1. pc' = "killed" /\ buffer' = <<>> /\ done' = <<>> /\ UNCHANGED <<left, faults>>
    BY <1>5 DEF Kill
  <2>2. Len(buffer') = 0
    BY <2>1
  <2> QED BY <1>1, <2>1, <2>2 DEF FlushInv
<1>6. CASE Between \/ Check \/ Term
  <2>1. /\ UNCHANGED <<buffer, left, done, lost, faults>>
        /\ \/ pc # "ping" /\ pc # "killed" /\ pc' \notin {"ended", "killed"}
           \/ UNCHANGED pc
    BY <1>6 DEF Between, Check, Term
  <2> QED BY <1>0, <2>1 DEF FlushInv
<1>7. CASE UNCHANGED vars
  BY <1>0, <1>7 DEF FlushInv, vars
<1> QED BY <1>2, <1>3, <1>4, <1>5, <1>6, <1>7 DEF Next

\* What a kill can take is what one flush interval measures, or a full buffer.
LEMMA FlushBounds ==
  ASSUME RoundAssumption
  PROVE  WholeInv /\ FlushInv =>
            /\ faults = 0 => Len(buffer) + Len(done) <= FlushEvery * Targets
            /\ Len(buffer) + Len(done) <= Cap + Targets
<1> SUFFICES ASSUME WholeInv, FlushInv
             PROVE  /\ faults = 0 => Len(buffer) + Len(done) <= FlushEvery * Targets
                    /\ Len(buffer) + Len(done) <= Cap + Targets
  OBVIOUS
<1>0. /\ Len(buffer) \in Nat /\ Len(done) \in Nat /\ Len(done) <= Targets /\ Len(buffer) <= Cap
      /\ left \in 0..FlushEvery /\ Targets \in Nat /\ FlushEvery \in Nat /\ Cap \in Nat
      /\ pc = "ping" => left > 0
      /\ faults = 0 => Len(buffer) <= (FlushEvery - left) * Targets
      /\ pc # "ping" => done = <<>>
  BY Constants, Known DEF WholeInv, FlushInv
<1>1. /\ (FlushEvery - left) * Targets \in Nat /\ FlushEvery * Targets \in Nat
      /\ (FlushEvery - left) * Targets <= FlushEvery * Targets
      /\ left > 0 => (FlushEvery - left) * Targets + Targets <= FlushEvery * Targets
  BY Interval
<1>2. CASE done = <<>>
  <2>1. Len(done) = 0
    BY <1>2
  <2> QED BY <1>0, <1>1, <2>1
<1>3. CASE left > 0
  BY <1>0, <1>1, <1>3
<1> QED BY <1>0, <1>2, <1>3

-----------------------------------------------------------------------------
(* Stops *)

\* What remains is never less than what the process is at, nor more than a whole
\* round and the writes after it.
LEMMA RemainingBounds ==
  ASSUME RoundAssumption, TypeOK, NEW writes \in {2, 3}
  PROVE  /\ Remaining(writes) \in Nat /\ Busy <= Remaining(writes) /\ Busy \in Nat
         /\ Remaining(writes) <= Targets * TargetTime + writes * BusyTime
<1>0. /\ Len(done) \in 0..Targets /\ Targets \in Nat /\ TargetTime \in Nat /\ BusyTime \in Nat
  BY Constants DEF TypeOK
<1>1. /\ Targets * TargetTime \in Nat /\ (Targets - Len(done)) * TargetTime \in Nat
      /\ (Targets - Len(done)) * TargetTime <= Targets * TargetTime
      /\ Len(done) < Targets => TargetTime <= (Targets - Len(done)) * TargetTime
  BY <1>0, Product
<1>2. writes * BusyTime \in Nat /\ BusyTime + BusyTime <= writes * BusyTime
  <2>1. 2 * BusyTime = BusyTime + BusyTime /\ 3 * BusyTime = BusyTime + BusyTime + BusyTime
    BY <1>0
  <2> QED BY <1>0, <2>1
<1>3. PICK r \in Nat, p \in Nat, w \in Nat :
        /\ r = (Targets - Len(done)) * TargetTime /\ p = Targets * TargetTime
        /\ w = writes * BusyTime
  BY <1>1, <1>2
<1>4. /\ r <= p /\ (Len(done) < Targets => TargetTime <= r) /\ BusyTime + BusyTime <= w
  BY <1>1, <1>2, <1>3
<1>5. Remaining(writes) =
        IF pc = "ping" THEN r + w
        ELSE IF pc = "flush" THEN w
        ELSE (IF pc = "between" THEN BusyTime ELSE 0)
             + (IF pc # "ended" /\ buffer # <<>> THEN BusyTime ELSE 0)
  BY <1>3 DEF Remaining
<1>6. CASE pc = "ping"
  BY <1>0, <1>3, <1>4, <1>5, <1>6 DEF Busy
<1>7. CASE pc = "flush"
  BY <1>0, <1>3, <1>4, <1>5, <1>7 DEF Busy
<1>8. CASE pc \notin {"ping", "flush"}
  BY <1>0, <1>3, <1>4, <1>5, <1>8 DEF Busy
<1> QED BY <1>6, <1>7, <1>8

LEMMA InitStop == ASSUME RoundAssumption PROVE Init => StopInv
BY DEF Init, StopInv

LEMMA NextStop == ASSUME RoundAssumption PROVE WholeInv /\ StopInv /\ [Next]_vars => StopInv'
<1> SUFFICES ASSUME WholeInv, StopInv, [Next]_vars, NEW writes \in {2, 3},
                    Targets * TargetTime + writes * BusyTime <= StopTime,
                    writes = 3 \/ faults' = 0
             PROVE  /\ pc' # "killed"
                    /\ elapsed' # NotAsked => elapsed' + Remaining(writes)' <= StopTime
  BY DEF StopInv
<1>0. /\ TypeOK /\ elapsed \in NotAsked..StopTime /\ Len(done) \in Nat
      /\ Targets \in Nat /\ TargetTime \in Nat /\ BusyTime \in Nat /\ StopTime \in Nat
      /\ Targets * TargetTime \in Nat /\ faults \in Nat
  <2>1. Targets \in Nat /\ TargetTime \in Nat /\ BusyTime \in Nat /\ StopTime \in Nat
        /\ MaxFaults \in Nat
    BY Constants
  <2>2. TypeOK /\ elapsed \in NotAsked..StopTime /\ Len(done) \in Nat /\ faults \in 0..MaxFaults
    BY Known
  <2>3. faults \in Nat
    BY <2>1, <2>2
  <2>4. Targets * TargetTime \in Nat
    BY <2>1
  <2> QED BY <2>1, <2>2, <2>3, <2>4
<1>b. PICK w \in Nat : w = writes * BusyTime /\ BusyTime + BusyTime <= w
                       /\ (writes = 3 => BusyTime + BusyTime + BusyTime <= w)
  <2>1. 2 * BusyTime = BusyTime + BusyTime /\ 3 * BusyTime = BusyTime + BusyTime + BusyTime
    BY <1>0
  <2> QED BY <1>0, <2>1
\* Failed writes do not become fewer.
<1>f. writes = 3 \/ faults = 0
  <2>1. ASSUME faults' = 0 PROVE faults = 0
    <3>1. CASE Write
      BY <1>0, <2>1, <3>1, WriteKeeps
    <3>2. CASE UNCHANGED faults
      BY <2>1, <3>2
    <3> QED BY <3>1, <3>2
            DEF Next, vars, Ping, Keep, Flush, Between, Check, Exit, Term, Kill
  <2> QED BY <2>1
<1>1. pc # "killed" /\ (elapsed # NotAsked => elapsed + Remaining(writes) <= StopTime)
  BY <1>f DEF StopInv
<1>2. /\ Remaining(writes) \in Nat /\ Busy <= Remaining(writes) /\ Busy \in Nat
      /\ Remaining(writes) <= Targets * TargetTime + writes * BusyTime
  BY <1>0, RemainingBounds
\* It is enough that what a step takes is taken off what remains.
<1>3. ASSUME NEW time \in Nat, Takes(time), Remaining(writes)' \in Nat,
             time + Remaining(writes)' <= Remaining(writes)
      PROVE  elapsed' # NotAsked => elapsed' + Remaining(writes)' <= StopTime
  <2>1. elapsed = NotAsked => elapsed' = NotAsked
    BY <1>3 DEF Takes
  <2>2. elapsed # NotAsked => elapsed' = elapsed + time
    BY <1>3 DEF Takes
  <2>3. ASSUME elapsed # NotAsked PROVE elapsed' + Remaining(writes)' <= StopTime
    <3>1. /\ elapsed' = elapsed + time /\ elapsed + Remaining(writes) <= StopTime
          /\ time + Remaining(writes)' <= Remaining(writes)
      BY <1>1, <1>3, <2>2, <2>3
    <3>2. /\ elapsed \in Int /\ time \in Nat /\ Remaining(writes) \in Nat
          /\ Remaining(writes)' \in Nat /\ StopTime \in Nat
      BY <1>0, <1>2, <1>3 DEF NotAsked
    <3>3. ASSUME NEW e \in Int, NEW t \in Nat, NEW r \in Nat, NEW q \in Nat, NEW s \in Nat,
                 e + r <= s, t + q <= r
          PROVE  (e + t) + q <= s
      BY <3>3
    <3> QED BY <3>1, <3>2, <3>3
  <2> QED BY <2>1, <2>3
<1>4. CASE Ping
  <2>1. pc = "ping" /\ Len(done) < Targets /\ buffer' = buffer
    BY <1>4 DEF Ping
  <2>2. PICK outcome \in Outcomes, time \in 0..TargetTime :
          /\ Takes(time)
          /\ IF outcome = "no binary"
             THEN pc' = "exit" /\ done' = <<>>
             ELSE done' = Append(done, Result(Len(done) + 1)) /\ UNCHANGED pc
    BY <1>4 DEF Ping
  <2>3. PICK m \in Nat, n \in Nat :
          /\ m = (Targets - Len(done)) * TargetTime
          /\ n = (Targets - (Len(done) + 1)) * TargetTime /\ n + TargetTime = m
    <3>1. Len(done) \in 0..Targets /\ Len(done) + 1 \in 0..Targets
      BY <1>0, <2>1
    <3>2. /\ (Targets - Len(done)) * TargetTime \in Nat
          /\ (Targets - (Len(done) + 1)) * TargetTime \in Nat
      BY <1>0, <3>1, Product
    <3>3. (Targets - (Len(done) + 1)) * TargetTime + TargetTime = (Targets - Len(done)) * TargetTime
      BY <1>0, <2>1, <3>1, Product
    <3> QED BY <3>2, <3>3
  <2>4. Remaining(writes) = m + w
    BY <2>1, <2>3, <1>b DEF Remaining
  <2>5. time \in Nat /\ time <= TargetTime
    BY <1>0
  <2>6. CASE pc' = "exit"
    <3>1. Remaining(writes)' = BusyTime \/ Remaining(writes)' = 0
      BY <1>0, <2>1, <2>6 DEF Remaining
    <3>2. Remaining(writes)' \in Nat /\ time + Remaining(writes)' <= Remaining(writes)
      BY <2>3, <2>4, <2>5, <3>1, <1>0, <1>b
    <3> QED BY <1>3, <2>2, <2>5, <2>6, <3>2
  <2>7. CASE done' = Append(done, Result(Len(done) + 1)) /\ UNCHANGED pc
    <3>1. Len(done') = Len(done) + 1
      BY <2>7 DEF WholeInv, TypeOK
    <3>2. Remaining(writes)' = n + w
      BY <2>1, <2>3, <2>7, <3>1, <1>b DEF Remaining
    <3>3. Remaining(writes)' \in Nat /\ time + Remaining(writes)' <= Remaining(writes)
      BY <2>3, <2>4, <2>5, <3>2, <1>0, <1>b
    <3> QED BY <1>1, <1>3, <2>2, <2>5, <2>7, <3>3
  <2> QED BY <2>2, <2>6, <2>7
<1>5. CASE Keep
  <2>1. pc = "ping" /\ Len(done) = Targets /\ elapsed' = elapsed /\ pc' \in {"flush", "between"}
    BY <1>5 DEF Keep
  <2>2. Remaining(writes) = w
    <3>1. (Targets - Targets) * TargetTime = 0
      BY <1>0
    <3> QED BY <1>0, <1>b, <2>1, <3>1 DEF Remaining
  <2>3. Remaining(writes)' \in Nat /\ Remaining(writes)' <= Remaining(writes)
    <3>1. CASE pc' = "flush"
      <4>1. Remaining(writes)' = w
        BY <1>b, <3>1 DEF Remaining
      <4> QED BY <1>b, <2>2, <4>1
    <3>2. CASE pc' = "between"
      <4>1. Remaining(writes)' = BusyTime \/ Remaining(writes)' = BusyTime + BusyTime
        BY <1>0, <3>2 DEF Remaining
      <4> QED BY <1>0, <1>b, <2>2, <4>1
    <3> QED BY <2>1, <3>1, <3>2
  <2>4. elapsed \in Int /\ Remaining(writes) \in Nat /\ StopTime \in Nat
    BY <1>0, <1>2 DEF NotAsked
  <2>5. elapsed' # NotAsked => elapsed' + Remaining(writes)' <= StopTime
    <3>1. ASSUME NEW e \in Int, NEW r \in Nat, NEW q \in Nat, NEW s \in Nat, e + r <= s, q <= r
          PROVE  e + q <= s
      BY <3>1
    <3>2. elapsed # NotAsked => elapsed + Remaining(writes)' <= StopTime
      BY <1>1, <2>3, <2>4, <3>1
    <3> QED BY <2>1, <3>2
  <2> QED BY <2>1, <2>5
<1>6. CASE Flush
  <2>1. pc = "flush" /\ pc' \in {"between", "exit"} /\ Write
    BY <1>6 DEF Flush
  <2>2. PICK time \in 0..BusyTime : Takes(time)
    BY <2>1 DEF Write
  <2>3. time \in Nat /\ time <= BusyTime
    BY <1>0
  <2>4. Remaining(writes) = w
    BY <1>b, <2>1 DEF Remaining
  <2>5. Remaining(writes)' \in Nat /\ time + Remaining(writes)' <= Remaining(writes)
    <3>1. CASE buffer' = <<>>
      <4>1. Remaining(writes)' = BusyTime \/ Remaining(writes)' = 0
        BY <1>0, <2>1, <3>1 DEF Remaining
      <4> QED BY <1>0, <1>b, <2>3, <2>4, <4>1
    <3>2. CASE buffer' # <<>>
      <4>1. writes = 3
        <5>1. faults' # 0
          BY <1>0, <2>1, <3>2, WriteKeeps DEF Write
        <5> QED BY <5>1
      <4>2. Remaining(writes)' = BusyTime + BusyTime \/ Remaining(writes)' = BusyTime
        BY <1>0, <2>1, <3>2 DEF Remaining
      <4> QED BY <1>0, <1>b, <2>3, <2>4, <4>1, <4>2
    <3> QED BY <3>1, <3>2
  <2> QED BY <1>3, <2>1, <2>2, <2>3, <2>5
<1>7. CASE Between
  <2>1. pc = "between" /\ pc' \in {"check", "exit"} /\ buffer' = buffer
    BY <1>7 DEF Between
  <2>2. PICK time \in 0..BusyTime : Takes(time)
    BY <1>7 DEF Between
  <2>3. time \in Nat /\ time <= BusyTime
    BY <1>0
  <2>4. Remaining(writes) = BusyTime + Remaining(writes)' /\ Remaining(writes)' \in Nat
    <3>1. CASE buffer = <<>>
      BY <1>0, <2>1, <3>1 DEF Remaining
    <3>2. CASE buffer # <<>>
      BY <1>0, <2>1, <3>2 DEF Remaining
    <3> QED BY <3>1, <3>2
  <2>5. time + Remaining(writes)' <= Remaining(writes)
    BY <1>0, <2>3, <2>4
  <2> QED BY <1>3, <2>1, <2>2, <2>3, <2>4, <2>5
<1>8. CASE Exit
  <2>1. pc = "exit" /\ pc' = "ended" /\ Write
    BY <1>8 DEF Exit
  <2>2. CASE buffer = <<>>
    <3>1. Takes(0) /\ buffer' = <<>>
      BY <2>1, <2>2 DEF Write
    <3>2. Remaining(writes) = 0 /\ Remaining(writes)' = 0
      BY <2>1, <2>2, <3>1 DEF Remaining
    <3> QED BY <1>3, <2>1, <3>1, <3>2
  <2>3. CASE buffer # <<>>
    <3>1. PICK time \in 0..BusyTime : Takes(time)
      BY <2>1 DEF Write
    <3>2. Remaining(writes)' = 0 /\ Remaining(writes) = BusyTime
      BY <1>0, <2>1, <2>3 DEF Remaining
    <3>3. time \in Nat /\ time + Remaining(writes)' <= Remaining(writes)
      BY <1>0, <3>2
    <3> QED BY <1>3, <2>1, <3>1, <3>2, <3>3
  <2> QED BY <2>2, <2>3
<1>9. CASE Check
  <2>1. UNCHANGED <<buffer, elapsed>> /\ pc = "check"
        /\ (pc' = "exit" \/ (pc' = "ping" /\ elapsed = NotAsked))
    BY <1>9 DEF Check
  <2>2. pc' = "exit" => Remaining(writes)' = Remaining(writes)
    BY <2>1 DEF Remaining
  <2> QED BY <1>1, <2>1, <2>2
<1>10. CASE Term
  <2>1. UNCHANGED <<pc, done, buffer>> /\ elapsed' = 0
    BY <1>10 DEF Term
  <2>2. Remaining(writes)' = Remaining(writes)
    BY <2>1 DEF Remaining
  <2>3. Remaining(writes) <= StopTime
    BY <1>0, <1>2, <1>b
  <2> QED BY <1>0, <1>1, <1>2, <2>1, <2>2, <2>3
<1>11. ~Kill
  <2> SUFFICES ASSUME Kill PROVE FALSE
    OBVIOUS
  <2>1. elapsed # NotAsked /\ elapsed + Busy > StopTime
    BY DEF Kill
  <2> QED BY <1>0, <1>1, <1>2, <2>1 DEF NotAsked
<1>12. CASE UNCHANGED vars
  <2>1. UNCHANGED <<pc, done, buffer, elapsed>>
    BY <1>12 DEF vars
  <2>2. Remaining(writes)' = Remaining(writes)
    BY <2>1 DEF Remaining
  <2> QED BY <1>1, <2>1, <2>2
<1> QED BY <1>4, <1>5, <1>6, <1>7, <1>8, <1>9, <1>10, <1>11, <1>12 DEF Next

LEMMA StopsInTime ==
  ASSUME RoundAssumption PROVE WholeInv /\ FlushInv /\ StopInv => StopsAreInTime
BY FlushBounds DEF StopInv, StopsAreInTime

-----------------------------------------------------------------------------
(* The theorems *)

\* What is stored and kept is rounds from end to end, each once and in order, but
\* for the beginning that a full buffer has cut, however the binary goes missing,
\* whichever writes fail, and whenever the service is stopped or killed.
THEOREM RoundsStayWhole == ASSUME RoundAssumption PROVE Spec => []RoundsAreWhole
BY InitWhole, NextWhole, InitFlush, NextFlush, WholeIsWhole, PTL DEF Spec

\* A stop time as long as the slowest round, the purge, the final flush and one
\* that failed is enough, wherever in a round the stop comes, and the time of two
\* writes is while none fails; where it is not enough, what is lost is no more than
\* one flush interval's results, or a full buffer and a round's.
THEOREM StopsLeaveTime == ASSUME RoundAssumption PROVE Spec => []StopsAreInTime
BY InitWhole, NextWhole, InitFlush, NextFlush, InitStop, NextStop, StopsInTime, PTL DEF Spec
=============================================================================
