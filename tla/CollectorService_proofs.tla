---------------------- MODULE CollectorService_proofs ----------------------
(***************************************************************************)
(* Theorems about CollectorService, for any capacity, batch and flush      *)
(* interval, any kinds of faults, and any number of results, faults,       *)
(* versions of the file and stops.                                         *)
(***************************************************************************)
EXTENDS CollectorService, TLAPS

-----------------------------------------------------------------------------
(* The sequences of results *)

LEMMA SeqGrows ==
  ASSUME NEW m \in Nat, NEW n \in Nat, m <= n, NEW s \in Seq(1..m)
  PROVE  s \in Seq(1..n)
<1>1. s \in [1..Len(s) -> 1..m] /\ Len(s) \in Nat
  OBVIOUS
<1>2. s \in [1..Len(s) -> 1..n]
  BY <1>1
<1> QED BY <1>1, <1>2

LEMMA Numbered ==
  ASSUME NEW m \in Nat, NEW k \in Nat
  PROVE  /\ [i \in 1..k |-> m + i] \in Seq(1..(m + k))
         /\ Len([i \in 1..k |-> m + i]) = k
<1>1. [i \in 1..k |-> m + i] \in [1..k -> 1..(m + k)]
  OBVIOUS
<1> QED BY <1>1

\* What the cap leaves of a buffer is no longer than the cap.
LEMMA KeepNewestBounds ==
  ASSUME NEW S, NEW s \in Seq(S)
  PROVE  KeepNewest(s) \in Seq(S) /\ Len(KeepNewest(s)) <= Cap
<1> USE CollectorAssumption
<1>1. CASE Len(s) <= Cap
  BY <1>1 DEF KeepNewest
<1>2. CASE ~(Len(s) <= Cap)
  <2>1. Len(s) \in Nat /\ Len(s) - Cap + 1 \in 1..Len(s)
    BY <1>2
  <2>2. SubSeq(s, Len(s) - Cap + 1, Len(s)) \in Seq(S)
    BY <2>1
  <2>3. Len(SubSeq(s, Len(s) - Cap + 1, Len(s))) = Cap
    BY <2>1
  <2> QED BY <1>2, <2>2, <2>3 DEF KeepNewest
<1> QED BY <1>1, <1>2

LEMMA CollectedBuffer ==
  ASSUME NEW m \in Nat, NEW k \in Nat, NEW s \in Seq(1..m)
  PROVE  KeepNewest(s \o [i \in 1..k |-> m + i]) \in Seq(1..(m + k))
<1>1. s \in Seq(1..(m + k))
  BY SeqGrows
<1>2. s \o [i \in 1..k |-> m + i] \in Seq(1..(m + k))
  BY <1>1, Numbered
<1> QED BY <1>2, KeepNewestBounds

-----------------------------------------------------------------------------
(* Types *)

\* What the steps that leave the results alone keep.
LEMMA ResultsFrame ==
  ASSUME TypeOK, UNCHANGED <<table, measured>>, buffer' = buffer \/ buffer' = <<>>
  PROVE  /\ buffer' \in Seq(1..measured') /\ Len(buffer') <= Cap
         /\ table' \in Seq(1..measured') /\ measured' \in 0..MaxResults
<1>1. <<>> \in Seq(1..measured) /\ Len(<<>>) <= Cap
  BY CollectorAssumption
<1> QED BY <1>1 DEF TypeOK

LEMMA FaultBound == ASSUME TypeOK, NEW kind, Fault(kind) PROVE faults' \in 0..MaxFaults
BY CollectorAssumption DEF TypeOK, Fault

LEMMA EndTypes ==
  ASSUME NEW how, End(how)
  PROVE  /\ pc' = how /\ buffer' = <<>>
         /\ handles' \in BOOLEAN /\ stop' \in BOOLEAN
         /\ reload' \in BOOLEAN /\ wake' \in BOOLEAN
BY DEF End

\* A flush writes the buffer, or leaves it as it is.
LEMMA FlushTypes ==
  ASSUME TypeOK, Flush
  PROVE  /\ buffer' \in Seq(1..measured) /\ Len(buffer') <= Cap
         /\ table' \in Seq(1..measured)
         /\ faults' \in 0..MaxFaults
<1> USE CollectorAssumption
<1>1. table \o buffer \in Seq(1..measured)
  BY DEF TypeOK
<1>2. faults' \in 0..MaxFaults
  BY FaultBound DEF Flush, TypeOK
<1>3. <<>> \in Seq(1..measured) /\ Len(<<>>) <= Cap
  OBVIOUS
<1>4. /\ table' = table \/ table' = table \o buffer
      /\ buffer' = buffer \/ buffer' = <<>>
  BY DEF Flush
<1> QED BY <1>1, <1>2, <1>3, <1>4 DEF TypeOK

LEMMA TypesKept == TypeOK /\ [Next]_vars => TypeOK'
<1> SUFFICES ASSUME TypeOK, [Next]_vars PROVE TypeOK'
  OBVIOUS
<1> USE CollectorAssumption DEF Building, Looping, Ending, Gone, loopVars, signalVars, confVars
<1>1. CASE Load
  <2>1. CASE pc' = "install" /\ UNCHANGED <<signalVars, buffer, faults>> /\ conf' = file
    BY <1>1, <2>1, ResultsFrame DEF TypeOK, Load
  <2>2. CASE Fault("load") /\ End("dead") /\ UNCHANGED conf
    <3>1. faults' \in 0..MaxFaults
      BY <2>2, FaultBound
    <3> QED BY <1>1, <2>2, <3>1, EndTypes, ResultsFrame DEF TypeOK, Load
  <2> QED BY <1>1, <2>1, <2>2 DEF Load
<1>2. CASE Reread
  BY <1>2, ResultsFrame DEF TypeOK, Reread
<1>3. CASE Returned
  <2>1. CASE reload
    <3>1. ToSet(buffer) \subseteq 1..measured
      BY DEF TypeOK, ToSet
    <3>2. discarded' \subseteq 1..measured'
      BY <1>3, <2>1, <3>1 DEF TypeOK, Returned
    <3> QED BY <1>3, <2>1, <3>2, ResultsFrame DEF TypeOK, Returned
  <2>2. CASE ~reload
    BY <1>3, <2>2, EndTypes, ResultsFrame DEF TypeOK, Returned, HowItEnds
  <2> QED BY <2>1, <2>2
<1>4. CASE Install
  BY <1>4, ResultsFrame DEF TypeOK, Install
<1>5. CASE Honour
  BY <1>5, ResultsFrame DEF TypeOK, Honour
<1>6. CASE Check
  BY <1>6, ResultsFrame DEF TypeOK, Check
<1>7. CASE Collect
  <2>1. ASSUME NEW k \in 0..Batch, measured + k <= MaxResults, measured' = measured + k,
               buffer' = KeepNewest(buffer \o [i \in 1..k |-> measured + i])
        PROVE  /\ buffer' \in Seq(1..measured') /\ Len(buffer') <= Cap
               /\ table' \in Seq(1..measured') /\ measured' \in 0..MaxResults
               /\ discarded' \subseteq 1..measured'
    <3>1. buffer \in Seq(1..measured) /\ table \in Seq(1..measured)
          /\ measured \in Nat /\ k \in Nat /\ measured + k \in Nat /\ discarded \subseteq 1..measured
      BY DEF TypeOK
    <3>2. buffer' \in Seq(1..measured')
      BY <2>1, <3>1, CollectedBuffer
    <3>3. Len(buffer') <= Cap
      <4>1. buffer \o [i \in 1..k |-> measured + i] \in Seq(1..(measured + k))
        BY <3>1, SeqGrows, Numbered
      <4> QED BY <2>1, <4>1, KeepNewestBounds
    <3>4. table' \in Seq(1..measured')
      BY <1>7, <2>1, <3>1, SeqGrows DEF Collect
    <3> QED BY <1>7, <2>1, <3>1, <3>2, <3>3, <3>4 DEF Collect
  <2>2. CASE Fault("collector") /\ pc' = "exit_failed" /\ UNCHANGED <<buffer, measured>>
    <3>1. faults' \in 0..MaxFaults
      BY <2>2, FaultBound
    <3> QED BY <1>7, <2>2, <3>1, ResultsFrame DEF TypeOK, Collect
  <2>3. CASE pc' = "due" /\ UNCHANGED faults
    <3>1. PICK k \in 0..Batch :
            /\ measured + k <= MaxResults /\ measured' = measured + k
            /\ buffer' = KeepNewest(buffer \o [i \in 1..k |-> measured + i])
      BY <1>7, <2>3 DEF Collect
    <3> QED BY <1>7, <2>1, <2>3, <3>1 DEF TypeOK, Collect
  <2> QED BY <1>7, <2>2, <2>3 DEF Collect
<1>8. CASE FlushDue
  <2>1. CASE UNCHANGED <<buffer, table, faults>>
    BY <1>8, <2>1, ResultsFrame DEF TypeOK, FlushDue
  <2>2. CASE Flush /\ pc' = "between" /\ sinceFlush' = 0
    BY <1>8, <2>2, FlushTypes DEF TypeOK, FlushDue
  <2>3. CASE FlushRaises /\ pc' = "exit_raised" /\ UNCHANGED sinceFlush
    <3>1. faults' \in 0..MaxFaults
      BY <2>3, FaultBound DEF FlushRaises
    <3> QED BY <1>8, <2>3, <3>1, ResultsFrame DEF TypeOK, FlushDue, FlushRaises
  <2> QED BY <1>8, <2>1, <2>2, <2>3 DEF FlushDue
<1>9. CASE Between
  <2>1. faults' \in 0..MaxFaults /\ pc' \in {"sleep", "exit_raised"}
    BY <1>9, FaultBound DEF Between, Purge, TypeOK
  <2> QED BY <1>9, <2>1, ResultsFrame DEF TypeOK, Between
<1>10. CASE Sleep
  BY <1>10, ResultsFrame DEF TypeOK, Sleep
<1>11. CASE FlushOnExit
  <2>1. CASE Flush /\ pc' \in {"returned", "failed"} /\ UNCHANGED signalVars
    BY <1>11, <2>1, FlushTypes DEF TypeOK, FlushOnExit
  <2>2. CASE FlushAndEnd
    <3>1. table' \in Seq(1..measured)
      <4>1. table \in Seq(1..measured) /\ table \o buffer \in Seq(1..measured)
        BY DEF TypeOK
      <4>2. table' = table \/ table' = table \o buffer
        BY <2>2 DEF FlushAndEnd
      <4> QED BY <4>1, <4>2
    <3>2. faults' \in 0..MaxFaults
      BY <2>2, FaultBound DEF FlushAndEnd, TypeOK
    <3>3. <<>> \in Seq(1..measured) /\ Len(<<>>) <= Cap
      OBVIOUS
    <3> QED BY <1>11, <2>2, <3>1, <3>2, <3>3, EndTypes
            DEF TypeOK, FlushOnExit, FlushAndEnd, HowItEnds
  <2> QED BY <1>11, <2>1, <2>2 DEF FlushOnExit
<1>12. CASE Restart \/ Start
  BY <1>12, ResultsFrame DEF TypeOK, Restart, Start
<1>13. CASE Term
  <2>1. CASE handles
    BY <1>13, <2>1, ResultsFrame DEF TypeOK, Term
  <2>2. CASE ~handles
    <3>1. End("stopped")
      BY <1>13, <2>2 DEF Term
    <3> QED BY <1>13, <3>1, EndTypes, ResultsFrame DEF TypeOK, Term
  <2> QED BY <2>1, <2>2
<1>14. CASE InstallConfig
  BY <1>14, ResultsFrame DEF TypeOK, InstallConfig
<1>15. CASE Hup
  <2>1. CASE reload' = TRUE /\ wake' = TRUE /\ signalled' = file
             /\ UNCHANGED <<pc, handles, stop, buffer>>
    <3>1. UNCHANGED <<sinceFlush, table, measured, file, conf, discarded, faults, stops>>
          /\ hup' = FALSE
      BY <1>15 DEF Hup
    <3>2. signalled' \in 0..file'
      BY <2>1, <3>1 DEF TypeOK
    <3> QED BY <2>1, <3>1, <3>2, ResultsFrame DEF TypeOK
  <2>2. CASE End("hungup") /\ UNCHANGED signalled
    <3>1. UNCHANGED <<table, measured>> /\ buffer' = <<>> /\ pc' = "hungup" /\ hup' = FALSE
      BY <1>15, <2>2, EndTypes DEF Hup
    <3> QED BY <1>15, <2>2, <3>1, EndTypes, ResultsFrame DEF TypeOK, Hup
  <2> QED BY <1>15, <2>1, <2>2 DEF Hup
<1>16. CASE HupSkipped
  BY <1>16, ResultsFrame DEF TypeOK, HupSkipped
<1>17. CASE Kill
  <2>1. faults' \in 0..MaxFaults
    BY <1>17, FaultBound DEF Kill
  <2> QED BY <1>17, <2>1, EndTypes, ResultsFrame DEF TypeOK, Kill, HowItEnds
<1>18. CASE UNCHANGED vars
  BY <1>18 DEF TypeOK, vars
<1> QED BY <1>1, <1>2, <1>3, <1>4, <1>5, <1>6, <1>7, <1>8, <1>9, <1>10, <1>11, <1>12, <1>13,
           <1>14, <1>15, <1>16, <1>17, <1>18 DEF Next, Process

\* Every variable keeps its type; above all the buffer keeps to its capacity,
\* however long writes fail.
THEOREM TypeCorrect == Spec => []TypeOK
<1>1. Init => TypeOK
  <2> SUFFICES ASSUME Init PROVE TypeOK
    OBVIOUS
  <2> USE CollectorAssumption
  <2>1. <<>> \in Seq(1..0) /\ Len(<<>>) <= Cap
    OBVIOUS
  <2>2. /\ sinceFlush \in 0..FlushEvery /\ file \in 1..MaxVersions
        /\ measured \in 0..MaxResults /\ faults \in 0..MaxFaults /\ stops \in 0..MaxStops
    BY DEF Init
  <2>3. /\ handles \in BOOLEAN /\ stop \in BOOLEAN /\ reload \in BOOLEAN
        /\ wake \in BOOLEAN /\ hup \in BOOLEAN
    BY DEF Init
  <2> QED BY <2>1, <2>2, <2>3 DEF Init, TypeOK
<1> QED BY <1>1, TypesKept, PTL DEF Spec

-----------------------------------------------------------------------------
(* The loop implements the log *)

\* A step that measures and writes nothing, and keeps the buffer or loses it.
LEMMA QuietStep ==
  ASSUME UNCHANGED <<table, measured>>, buffer' = buffer \/ buffer' = <<>>
  PROVE  [Log!Next]_Log!logVars
<1>1. CASE buffer' = buffer
  BY <1>1 DEF Log!logVars
<1>2. CASE buffer' = <<>> /\ buffer # <<>>
  BY <1>2 DEF Log!Next, Log!Lose, Log!logVars
<1> QED BY <1>1, <1>2

\* A step that writes the whole buffer and empties it.
LEMMA StoreStep ==
  ASSUME TypeOK, table' = table \o buffer, buffer' = <<>>, UNCHANGED measured
  PROVE  [Log!Next]_Log!logVars
<1>1. CASE buffer = <<>>
  <2>1. table \in Seq(1..measured)
    BY DEF TypeOK
  <2>2. table \o <<>> = table
    BY <2>1
  <2> QED BY <1>1, <2>2 DEF Log!logVars
<1>2. CASE buffer # <<>>
  BY <1>2 DEF Log!Next, Log!Store, Log!logVars
<1> QED BY <1>1, <1>2

\* A cycle that measures k results.
LEMMA MeasureStep ==
  ASSUME TypeOK, NEW k \in Nat, measured' = measured + k,
         buffer' = KeepNewest(buffer \o [i \in 1..k |-> measured + i]),
         UNCHANGED table
  PROVE  [Log!Next]_Log!logVars
<1>1. measured \in Nat /\ buffer \in Seq(1..measured) /\ Len(buffer) <= Cap
  BY CollectorAssumption DEF TypeOK
<1>2. CASE k = 0
  <2>1. [i \in 1..k |-> measured + i] = <<>>
    BY <1>2
  <2>2. buffer \o <<>> = buffer
    BY <1>1
  <2>3. buffer' = buffer /\ measured' = measured
    BY <1>1, <1>2, <2>1, <2>2 DEF KeepNewest
  <2> QED BY <2>3 DEF Log!logVars
<1>3. CASE k > 0
  <2>1. measured' > measured /\ measured' - measured = k
    BY <1>1, <1>3
  <2>2. buffer' = Log!Newest(buffer \o [i \in 1..(measured' - measured) |-> measured + i])
    BY <2>1 DEF KeepNewest, Log!Newest
  <2> QED BY <2>1, <2>2 DEF Log!Next, Log!Measure
<1> QED BY <1>2, <1>3

LEMMA StepsAreLogSteps == TypeOK /\ [Next]_vars => [Log!Next]_Log!logVars
<1> SUFFICES ASSUME TypeOK, [Next]_vars PROVE [Log!Next]_Log!logVars
  OBVIOUS
<1> USE DEF loopVars
<1>1. CASE Load \/ Reread \/ Returned
  BY <1>1, QuietStep, EndTypes DEF Load, Reread, Returned
<1>2. CASE Install \/ Honour \/ Check
  BY <1>2, QuietStep DEF Install, Honour, Check
<1>3. CASE Collect
  <2>1. CASE \E k \in 0..Batch :
               /\ measured' = measured + k
               /\ buffer' = KeepNewest(buffer \o [i \in 1..k |-> measured + i])
    <3>1. PICK k \in 0..Batch :
               /\ measured' = measured + k
               /\ buffer' = KeepNewest(buffer \o [i \in 1..k |-> measured + i])
      BY <2>1
    <3>2. k \in Nat
      BY CollectorAssumption
    <3> QED BY <1>3, <3>1, <3>2, MeasureStep DEF Collect
  <2>2. CASE UNCHANGED <<buffer, measured>>
    BY <1>3, <2>2, QuietStep DEF Collect
  <2> QED BY <1>3, <2>1, <2>2 DEF Collect
<1>4. CASE FlushDue
  <2>1. \/ UNCHANGED <<buffer, table>>
        \/ table' = table \o buffer /\ buffer' = <<>>
    BY <1>4 DEF FlushDue, Flush, FlushRaises
  <2>2. UNCHANGED measured
    BY <1>4 DEF FlushDue
  <2> QED BY <2>1, <2>2, QuietStep, StoreStep
<1>5. CASE Between \/ Sleep
  BY <1>5, QuietStep DEF Between, Sleep
<1>6. CASE FlushOnExit
  <2>1. UNCHANGED measured
    BY <1>6 DEF FlushOnExit
  <2>2. CASE Flush
    <3>1. \/ UNCHANGED <<buffer, table>>
          \/ table' = table \o buffer /\ buffer' = <<>>
      BY <2>2 DEF Flush
    <3> QED BY <2>1, <3>1, QuietStep, StoreStep
  <2>3. CASE FlushAndEnd
    <3>1. buffer' = <<>> /\ (table' = table \/ table' = table \o buffer)
      BY <2>3, EndTypes DEF FlushAndEnd
    <3> QED BY <2>1, <3>1, QuietStep, StoreStep
  <2> QED BY <1>6, <2>2, <2>3 DEF FlushOnExit
<1>7. CASE Restart \/ Start \/ InstallConfig \/ HupSkipped
  BY <1>7, QuietStep DEF Restart, Start, InstallConfig, HupSkipped
<1>8. CASE Term \/ Hup \/ Kill
  BY <1>8, QuietStep, EndTypes DEF Term, Hup, Kill
<1>9. CASE UNCHANGED vars
  BY <1>9, QuietStep DEF vars
<1> QED BY <1>1, <1>2, <1>3, <1>4, <1>5, <1>6, <1>7, <1>8, <1>9 DEF Next, Process

\* However the process is stopped, reloaded, restarted or killed, and whatever
\* fails, no result is written twice, results are written in the order they were
\* measured, and those that go for want of room are the oldest.
THEOREM ImplementsLog == Spec => KeepsLog
<1>1. Init => Log!Init
  BY DEF Init, Log!Init
<1> QED BY <1>1, TypeCorrect, StepsAreLogSteps, PTL DEF Spec, KeepsLog, Log!Spec

-----------------------------------------------------------------------------
(* Signals *)

LEMMA WakeKept == RequestsWake /\ [Next]_vars => RequestsWake'
<1> SUFFICES ASSUME RequestsWake, [Next]_vars PROVE RequestsWake'
  OBVIOUS
<1> USE DEF RequestsWake, Looping, signalVars
<1>1. CASE Load \/ Reread \/ Returned
  BY <1>1, EndTypes DEF Load, Reread, Returned, HowItEnds, End
<1>2. CASE Install \/ Honour
  BY <1>2 DEF Install, Honour
<1>3. CASE Check \/ Collect \/ FlushDue \/ Between \/ Sleep
  BY <1>3 DEF Check, Collect, FlushDue, Between, Purge, Sleep
<1>4. CASE FlushOnExit
  BY <1>4 DEF FlushOnExit, FlushAndEnd, End
<1>5. CASE Restart \/ Start \/ InstallConfig \/ HupSkipped
  BY <1>5 DEF Restart, Start, InstallConfig, HupSkipped
<1>6. CASE Term \/ Hup \/ Kill
  BY <1>6 DEF Term, Hup, Kill, End
<1>7. CASE UNCHANGED vars
  BY <1>7 DEF vars
<1> QED BY <1>1, <1>2, <1>3, <1>4, <1>5, <1>6, <1>7 DEF Next, Process

\* A run that has been asked to stop or to reload does not wait out its
\* interval, whenever the signal came: Honour looks for what came before it.
THEOREM RequestsAreHeard == Spec => []RequestsWake
<1>1. Init => RequestsWake
  BY DEF Init, RequestsWake, Looping
<1> QED BY <1>1, WakeKept, PTL DEF Spec

\* What ReloadsAreAnswered says of a process that handles signals is so already
\* of one that is about to.
ReloadInv == handles \/ pc = "install" => conf >= signalled \/ reload \/ pc = "reread"

LEMMA ReloadInvKept == TypeOK /\ ReloadInv /\ [Next]_vars => ReloadInv'
<1> SUFFICES ASSUME TypeOK, ReloadInv, [Next]_vars PROVE ReloadInv'
  OBVIOUS
<1> USE DEF ReloadInv, signalVars, confVars, Building, Looping, Ending, Gone
<1>0. /\ file \in Nat /\ conf \in Nat /\ signalled \in Nat /\ signalled <= file
  BY CollectorAssumption DEF TypeOK
<1>1. CASE Load \/ Reread
  BY <1>0, <1>1 DEF Load, Reread, End
<1>2. CASE Returned
  BY <1>2 DEF Returned, HowItEnds, End
<1>3. CASE Install \/ Honour \/ Check
  BY <1>3 DEF Install, Honour, Check
<1>4. CASE Collect \/ FlushDue \/ Between \/ Sleep
  BY <1>4 DEF Collect, FlushDue, Between, Purge, Sleep
<1>5. CASE FlushOnExit
  BY <1>5 DEF FlushOnExit, FlushAndEnd, HowItEnds, End
<1>6. CASE Restart \/ Start \/ InstallConfig \/ HupSkipped
  BY <1>6 DEF Restart, Start, InstallConfig, HupSkipped
<1>7. CASE Term \/ Hup \/ Kill
  BY <1>7 DEF Term, Hup, Kill, HowItEnds, End
<1>8. CASE UNCHANGED vars
  BY <1>8 DEF vars
<1> QED BY <1>1, <1>2, <1>3, <1>4, <1>5, <1>6, <1>7, <1>8 DEF Next, Process

\* No SIGHUP is lost: after the last one that was handled the file has been read
\* again, or a reload stands that will read it, across any number of runs.
THEOREM ReloadsAnswered == Spec => []ReloadsAreAnswered
<1>1. Init => ReloadInv
  BY DEF Init, ReloadInv
<1>2. Spec => []ReloadInv
  BY <1>1, TypeCorrect, ReloadInvKept, PTL DEF Spec
<1>3. ReloadInv => ReloadsAreAnswered
  BY DEF ReloadInv, ReloadsAreAnswered
<1> QED BY <1>2, <1>3, PTL

\* Both at once, as the run checks it: a signal sent to the collector makes it
\* stop or read its file again, whenever it arrives.
THEOREM SignalsHeard == Spec => []SignalsAreHeard
<1>1. RequestsWake /\ ReloadsAreAnswered => SignalsAreHeard
  BY DEF SignalsAreHeard
<1> QED BY <1>1, RequestsAreHeard, ReloadsAnswered, PTL

-----------------------------------------------------------------------------
(* Nothing is lost without a fault *)

\* The elements of a concatenation are those of its two halves.
LEMMA ConcatElements ==
  ASSUME NEW S, NEW s \in Seq(S), NEW t \in Seq(S)
  PROVE  ToSet(s \o t) = ToSet(s) \cup ToSet(t)
<1>1. /\ Len(s) \in Nat /\ Len(t) \in Nat /\ s \o t \in Seq(S)
      /\ DOMAIN s = 1..Len(s) /\ DOMAIN t = 1..Len(t)
      /\ DOMAIN (s \o t) = 1..(Len(s) + Len(t))
  OBVIOUS
<1>2. \A i \in 1..Len(s) : (s \o t)[i] = s[i]
  OBVIOUS
<1>3. \A i \in 1..Len(t) : (s \o t)[Len(s) + i] = t[i]
  OBVIOUS
<1>4. ASSUME NEW x \in ToSet(s \o t) PROVE x \in ToSet(s) \cup ToSet(t)
  <2>1. PICK i \in 1..(Len(s) + Len(t)) : x = (s \o t)[i]
    BY <1>1, <1>4 DEF ToSet
  <2>2. CASE i <= Len(s)
    BY <1>1, <1>2, <2>1, <2>2 DEF ToSet
  <2>3. CASE i > Len(s)
    <3>1. i - Len(s) \in 1..Len(t) /\ Len(s) + (i - Len(s)) = i
      BY <1>1, <2>1, <2>3
    <3>2. x = t[i - Len(s)]
      BY <1>3, <2>1, <3>1
    <3> QED BY <1>1, <3>1, <3>2 DEF ToSet
  <2> QED BY <1>1, <2>1, <2>2, <2>3
<1>5. ASSUME NEW x \in ToSet(s) PROVE x \in ToSet(s \o t)
  <2>1. PICK i \in 1..Len(s) : x = s[i]
    BY <1>1, <1>5 DEF ToSet
  <2>2. i \in DOMAIN (s \o t) /\ x = (s \o t)[i]
    BY <1>1, <1>2, <2>1
  <2> QED BY <2>2 DEF ToSet
<1>6. ASSUME NEW x \in ToSet(t) PROVE x \in ToSet(s \o t)
  <2>1. PICK i \in 1..Len(t) : x = t[i]
    BY <1>1, <1>6 DEF ToSet
  <2>2. Len(s) + i \in DOMAIN (s \o t) /\ x = (s \o t)[Len(s) + i]
    BY <1>1, <1>3, <2>1
  <2> QED BY <2>2 DEF ToSet
<1> QED BY <1>4, <1>5, <1>6

\* A cycle's results are the next numbers.
LEMMA NumberedElements ==
  ASSUME NEW m \in Nat, NEW k \in Nat, NEW n \in (m + 1)..(m + k)
  PROVE  n \in ToSet([i \in 1..k |-> m + i])
<1>1. n - m \in 1..k /\ m + (n - m) = n
  OBVIOUS
<1>2. [i \in 1..k |-> m + i][n - m] = n
  BY <1>1
<1> QED BY <1>1, <1>2 DEF ToSet

\* What there is room for fits the capacity, and is what one more interval adds.
LEMMA RoomFits ==
  ASSUME TypeOK, CapHoldsAnInterval, RoomForACycle
  PROVE  /\ Len(buffer) + Batch <= Cap
         /\ Len(buffer) + Batch <= Batch * sinceFlush \/ sinceFlush = FlushEvery
<1>1. /\ Len(buffer) \in Nat /\ sinceFlush \in Nat /\ sinceFlush <= FlushEvery
      /\ Batch \in Nat /\ FlushEvery \in Nat /\ Cap \in Nat
  BY CollectorAssumption DEF TypeOK
<1>2. Batch * sinceFlush <= Batch * FlushEvery
  <2>1. PICK d \in Nat : FlushEvery = sinceFlush + d
    <3>1. FlushEvery - sinceFlush \in Nat /\ FlushEvery = sinceFlush + (FlushEvery - sinceFlush)
      BY <1>1
    <3> QED BY <3>1
  <2>2. Batch * (sinceFlush + d) = Batch * sinceFlush + Batch * d /\ Batch * d \in Nat
    BY <1>1
  <2>3. Batch * sinceFlush \in Nat
    BY <1>1
  <2> QED BY <2>1, <2>2, <2>3
<1>3. Batch * sinceFlush \in Nat /\ Batch * FlushEvery \in Nat
  BY <1>1
<1>4. CASE Len(buffer) + Batch <= Batch * sinceFlush
  BY <1>1, <1>2, <1>3, <1>4 DEF CapHoldsAnInterval
<1>5. CASE buffer = <<>> /\ FlushEvery = 0
  BY <1>1, <1>5 DEF CapHoldsAnInterval
<1>6. CASE buffer = <<>> /\ sinceFlush > 0
  <2>1. PICK d \in Nat : sinceFlush = d + 1
    <3>1. sinceFlush - 1 \in Nat /\ sinceFlush = (sinceFlush - 1) + 1
      BY <1>1, <1>6
    <3> QED BY <3>1
  <2>2. Batch * (d + 1) = Batch * d + Batch /\ Batch * d \in Nat
    BY <1>1
  <2>3. Len(buffer) = 0
    BY <1>6
  <2> QED BY <1>1, <2>1, <2>2, <2>3 DEF CapHoldsAnInterval
<1> QED BY <1>4, <1>5, <1>6 DEF RoomForACycle

\* A step that leaves the results where they are, or empties an empty buffer.
LEMMA HeldStep ==
  ASSUME RoomInv, faults = 0, UNCHANGED <<table, measured>>,
         buffer' = buffer \/ (buffer = <<>> /\ buffer' = <<>>)
  PROVE  \A n \in 1..measured' : n \in ToSet(table') \cup ToSet(buffer')
BY DEF RoomInv

\* A flush that returns and meets no error writes all there is.
LEMMA FlushedAll ==
  ASSUME TypeOK, RoomInv, faults = 0, faults' = 0, UNCHANGED measured, Flush
  PROVE  /\ buffer' = <<>>
         /\ \A n \in 1..measured' : n \in ToSet(table') \cup ToSet(buffer')
<1>1. buffer' = <<>> /\ table' = table \o buffer
  <2>1. CASE buffer = <<>> /\ UNCHANGED <<buffer, table>>
    <3>1. table \o <<>> = table
      BY DEF TypeOK
    <3> QED BY <2>1, <3>1
  <2> QED BY <2>1 DEF Flush, Fault
<1>2. ToSet(table') = ToSet(table) \cup ToSet(buffer)
  <2>1. table \in Seq(1..measured) /\ buffer \in Seq(1..measured)
    BY DEF TypeOK
  <2> QED BY <1>1, <2>1, ConcatElements
<1> QED BY <1>1, <1>2 DEF RoomInv

LEMMA RoomInvKept ==
  ASSUME CapHoldsAnInterval
  PROVE  TypeOK /\ RoomInv /\ [Next]_vars => RoomInv'
<1> SUFFICES ASSUME TypeOK, RoomInv, [Next]_vars, faults' = 0 PROVE RoomInv'
  BY DEF RoomInv
<1> USE DEF Looping, signalVars, confVars, loopVars
<1>0. /\ Batch \in Nat /\ FlushEvery \in Nat /\ faults \in Nat /\ sinceFlush \in 0..FlushEvery
      /\ Len(buffer) \in Nat /\ measured \in Nat
  BY CollectorAssumption DEF TypeOK
<1>1. faults = 0
  <2>1. ASSUME NEW kind PROVE Fault(kind) => faults = 0
    BY <1>0 DEF Fault
  <2>2. Process => faults = 0
    BY <2>1 DEF Process, Load, Reread, Returned, Install, Honour, Check, Collect, FlushDue, Flush,
                FlushRaises, Between, Purge, Sleep, FlushOnExit, FlushAndEnd
  <2>3. ~Process => faults = 0
    BY <2>1 DEF Next, Restart, Start, Term, InstallConfig, Hup, HupSkipped, Kill, vars
  <2> QED BY <2>2, <2>3
<1>2. \A kind : ~Fault(kind)
  BY <1>1 DEF Fault
<1>3. CASE Load \/ Reread \/ Returned
  <2>1. buffer = <<>> /\ buffer' = <<>> /\ UNCHANGED <<table, measured>>
    BY <1>1, <1>2, <1>3 DEF RoomInv, Load, Reread, Returned, End
  <2>2. pc' \notin {"check", "collect", "due", "between", "sleep"}
    BY <1>2, <1>3 DEF Load, Reread, Returned, End, HowItEnds
  <2>3. handles' \/ pc' \in {"load", "install", "dead", "stopped", "hungup"}
    BY <1>1, <1>2, <1>3 DEF RoomInv, Load, Reread, Returned, End, HowItEnds, Gone
  <2> QED BY <1>1, <2>1, <2>2, <2>3, HeldStep DEF RoomInv, Gone
<1>4. CASE Install \/ Honour
  <2>1. buffer = <<>> /\ buffer' = <<>> /\ UNCHANGED <<table, measured>>
    BY <1>1, <1>4 DEF RoomInv, Install, Honour
  <2>2. pc' = "honour" \/ (pc' = "check" /\ sinceFlush' = FlushEvery)
    BY <1>4 DEF Install, Honour
  <2>3. pc' = "check" => RoomForACycle'
    BY <1>0, <2>1, <2>2 DEF RoomForACycle
  <2>4. handles'
    BY <1>1, <1>4 DEF RoomInv, Install, Honour, Gone
  <2> QED BY <1>1, <2>1, <2>2, <2>3, <2>4, HeldStep DEF RoomInv
<1>5. CASE Check
  <2>1. UNCHANGED <<buffer, table, measured, sinceFlush>> /\ handles'
    BY <1>1, <1>5 DEF RoomInv, Check, Gone
  <2>2. pc' = "exit" \/ (pc' = "collect" /\ RoomForACycle')
    BY <1>1, <1>5, <2>1 DEF Check, RoomInv, RoomForACycle
  <2> QED BY <1>1, <2>1, <2>2, HeldStep DEF RoomInv
<1>6. CASE Collect
  <2>1. PICK k \in 0..Batch :
          /\ buffer' = KeepNewest(buffer \o [i \in 1..k |-> measured + i])
          /\ measured' = measured + k
    BY <1>2, <1>6 DEF Collect
  <2>2. /\ k \in Nat /\ k <= Batch /\ pc' = "due" /\ UNCHANGED <<table, sinceFlush>>
        /\ handles'
    <3>1. k \in Nat /\ k <= Batch
      BY <1>0
    <3>2. /\ pc = "collect" /\ pc' = "due" /\ UNCHANGED <<table, sinceFlush>>
          /\ handles' = handles
      BY <1>2, <1>6 DEF Collect
    <3>3. handles
      BY <1>1, <3>2 DEF RoomInv, Gone
    <3> QED BY <3>1, <3>2, <3>3
  <2>3. buffer \in Seq(1..(measured + k)) /\ [i \in 1..k |-> measured + i] \in Seq(1..(measured + k))
    BY <1>0, <2>2, SeqGrows, Numbered DEF TypeOK
  <2>4. RoomForACycle
    BY <1>1, <1>6 DEF Collect, RoomInv
  <2>5. Len(buffer \o [i \in 1..k |-> measured + i]) = Len(buffer) + k
    BY <1>0, <2>2, <2>3, Numbered
  <2>6. buffer' = buffer \o [i \in 1..k |-> measured + i]
    <3>1. Len(buffer) + k <= Cap
      <4>1. Len(buffer) + Batch <= Cap /\ Cap \in Nat
        BY <2>4, RoomFits, CollectorAssumption
      <4> QED BY ONLY <1>0, <2>2, <4>1
    <3> QED BY <2>1, <2>5, <3>1 DEF KeepNewest
  <2>7. \A n \in 1..measured' : n \in ToSet(table') \cup ToSet(buffer')
    <3>1. ToSet(buffer') = ToSet(buffer) \cup ToSet([i \in 1..k |-> measured + i])
      BY <2>3, <2>6, ConcatElements, ZenonT(60)
    <3>2. ASSUME NEW n \in 1..measured' PROVE n \in ToSet(table') \cup ToSet(buffer')
      <4>1. CASE n \in 1..measured
        BY <1>1, <2>2, <3>1, <4>1 DEF RoomInv
      <4>2. CASE n \notin 1..measured
        <5>1. n \in (measured + 1)..(measured + k)
          BY <1>0, <2>1, <2>2, <4>2
        <5> QED BY <1>0, <2>2, <3>1, <5>1, NumberedElements
      <4> QED BY <4>1, <4>2
    <3> QED BY <3>2
  <2>8. Len(buffer') <= Batch * sinceFlush' \/ sinceFlush' = FlushEvery
    <3>1. Len(buffer) + Batch <= Batch * sinceFlush \/ sinceFlush = FlushEvery
      BY <2>4, RoomFits
    <3>2. Batch * sinceFlush \in Nat
      BY <1>0
    <3> QED BY <1>0, <2>2, <2>5, <2>6, <3>1, <3>2
  <2> QED BY <1>1, <2>2, <2>7, <2>8 DEF RoomInv
<1>7. CASE FlushDue
  <2>1. handles' /\ UNCHANGED measured /\ pc' = "between"
    BY <1>1, <1>2, <1>7 DEF RoomInv, FlushDue, FlushRaises, Gone
  <2>2. CASE sinceFlush < FlushEvery /\ UNCHANGED <<buffer, table, sinceFlush>>
    <3>1. Len(buffer) <= Batch * sinceFlush
      BY <1>0, <1>1, <1>7, <2>2 DEF RoomInv, FlushDue
    <3> QED BY <1>1, <2>1, <2>2, <3>1, HeldStep DEF RoomInv
  <2>3. CASE sinceFlush = FlushEvery /\ Flush /\ sinceFlush' = 0
    <3>1. /\ buffer' = <<>>
          /\ \A n \in 1..measured' : n \in ToSet(table') \cup ToSet(buffer')
      BY <1>1, <2>1, <2>3, FlushedAll
    <3>2. Len(buffer') = 0 /\ Batch * 0 = 0 /\ (0 < FlushEvery \/ FlushEvery = 0)
      BY <1>0, <3>1
    <3> QED BY <2>1, <2>3, <3>1, <3>2 DEF RoomInv
  <2> QED BY <1>2, <1>7, <2>2, <2>3 DEF FlushDue, FlushRaises
<1>8. CASE Between
  <2>1. UNCHANGED <<buffer, table, measured, sinceFlush>> /\ handles' /\ pc' = "sleep"
    BY <1>1, <1>2, <1>8 DEF RoomInv, Between, Purge, Gone
  <2>2. Len(buffer) <= Batch * sinceFlush /\ (sinceFlush < FlushEvery \/ FlushEvery = 0)
    BY <1>1, <1>8 DEF RoomInv, Between
  <2> QED BY <1>1, <2>1, <2>2, HeldStep DEF RoomInv
<1>9. CASE Sleep
  <2>1. /\ UNCHANGED <<buffer, table, measured, wake>> /\ handles' /\ pc' = "check"
        /\ sinceFlush' = IF wake \/ sinceFlush = FlushEvery THEN sinceFlush ELSE sinceFlush + 1
    BY <1>1, <1>9 DEF RoomInv, Sleep, Gone
  <2>2. Len(buffer) <= Batch * sinceFlush /\ (sinceFlush < FlushEvery \/ FlushEvery = 0)
    BY <1>1, <1>9 DEF RoomInv, Sleep
  <2>3. wake' \/ RoomForACycle'
    <3>1. CASE ~wake /\ sinceFlush < FlushEvery
      <4>1. sinceFlush' = sinceFlush + 1
        BY <2>1, <3>1, <1>0
      <4>2. Batch * (sinceFlush + 1) = Batch * sinceFlush + Batch /\ Batch * sinceFlush \in Nat
        BY <1>0
      <4> QED BY <1>0, <2>1, <2>2, <4>1, <4>2 DEF RoomForACycle
    <3>2. CASE ~wake /\ FlushEvery = 0
      <4>1. sinceFlush = 0 /\ Batch * 0 = 0
        BY <1>0, <3>2
      <4>2. buffer = <<>>
        BY <1>0, <2>2, <4>1 DEF TypeOK
      <4> QED BY <2>1, <3>2, <4>2 DEF RoomForACycle
    <3> QED BY <2>1, <2>2, <3>1, <3>2
  <2> QED BY <1>1, <2>1, <2>3, HeldStep DEF RoomInv
<1>10. CASE FlushOnExit
  <2>1. UNCHANGED <<measured, sinceFlush>>
    BY <1>10 DEF FlushOnExit
  <2>2. CASE Flush /\ pc' \in {"returned", "failed"} /\ handles' = handles /\ pc \in Ending
    <3>1. /\ buffer' = <<>>
          /\ \A n \in 1..measured' : n \in ToSet(table') \cup ToSet(buffer')
      BY <1>1, <2>1, <2>2, FlushedAll
    <3>2. handles'
      BY <1>1, <2>2 DEF RoomInv, Ending, Gone
    <3> QED BY <2>2, <3>1, <3>2 DEF RoomInv
  <2>3. CASE FlushAndEnd /\ pc \in Ending
    <3>1. pc = "exit_raised" /\ table' = table \o buffer
      BY <1>2, <2>3 DEF FlushAndEnd
    <3>2. buffer = <<>>
      BY <1>1, <3>1 DEF RoomInv
    <3>3. table' = table
      BY <3>1, <3>2 DEF TypeOK
    <3>4. buffer' = <<>> /\ pc' \in {"stopped", "dead"}
      BY <2>3 DEF FlushAndEnd, End, HowItEnds
    <3> QED BY <1>1, <2>1, <3>2, <3>3, <3>4, HeldStep DEF RoomInv, Gone
  <2> QED BY <1>10, <2>2, <2>3 DEF FlushOnExit
<1>11. CASE Restart \/ Start
  <2>1. buffer = <<>> /\ buffer' = <<>> /\ UNCHANGED <<table, measured>> /\ pc' = "load"
    BY <1>1, <1>11 DEF RoomInv, Restart, Start
  <2> QED BY <1>1, <2>1, HeldStep DEF RoomInv
<1>12. CASE \/ InstallConfig \/ HupSkipped \/ UNCHANGED vars
            \/ Term /\ handles /\ pc' = pc
            \/ Hup /\ handles /\ pc' = pc
  <2>1. /\ UNCHANGED <<buffer, table, measured, sinceFlush, pc, handles>>
        /\ wake => wake'
    BY <1>12 DEF InstallConfig, HupSkipped, vars, Term, Hup, End
  <2> QED BY <1>1, <2>1, HeldStep DEF RoomInv, RoomForACycle
<1>13. CASE (Term \/ Hup) /\ ~handles
  <2>1. buffer = <<>> /\ buffer' = <<>> /\ UNCHANGED <<table, measured>>
    BY <1>1, <1>13 DEF RoomInv, Term, Hup, End, Gone
  <2>2. pc' \in Gone
    BY <1>13 DEF Term, Hup, End, Gone
  <2> QED BY <1>1, <2>1, <2>2, HeldStep DEF RoomInv, Gone
<1>14. (Term \/ Hup) /\ handles => pc' = pc
  BY DEF Term, Hup
<1>15. ~Kill
  BY <1>2 DEF Kill
<1> QED
  BY <1>3, <1>4, <1>5, <1>6, <1>7, <1>8, <1>9, <1>10, <1>11, <1>12, <1>13, <1>14, <1>15
     DEF Next, Process

\* While nothing fails and the buffer is large enough for what one flush interval
\* measures (5000 results in the code, for a minute of pings), every result ends
\* up in the database or is still waiting: no stop, reload or restart, wherever
\* in the loop it comes, loses one.
THEOREM NothingLost ==
  ASSUME CapHoldsAnInterval
  PROVE  Spec => []NothingLostWithoutFault
<1>1. Init => RoomInv
  BY DEF Init, RoomInv, Looping, Gone
<1>2. RoomInv => NothingLostWithoutFault
  BY DEF RoomInv, NothingLostWithoutFault
<1> QED BY <1>1, <1>2, TypeCorrect, RoomInvKept, PTL DEF Spec

=============================================================================
