--------------------------- MODULE Services_proofs ---------------------------
(***************************************************************************)
(* Theorems about what the collector services do besides their common      *)
(* loop, for all values of the constants: any intervals and windows, any   *)
(* number of targets, edits, stops and faults, and any lag of the clock.   *)
(***************************************************************************)
EXTENDS MCServices, Sequences, WellFoundedInduction, TLAPS

-----------------------------------------------------------------------------
(* When a speed test runs *)

\* The number the saturated counters stop at, and what a reboot is compared with.
LEMMA LongestInterval ==
  /\ TestIntervals \subseteq Nat \ {0} /\ RebootIntervals \subseteq Nat
  /\ MaxInterval \in Nat /\ \A t \in TestIntervals : t <= MaxInterval
  /\ MaxTest \in Nat \ {0} /\ SkipBefore \in Nat /\ MaxTest <= SkipBefore
<1>1. PICK m \in TestIntervals : \A t \in TestIntervals : m >= t
  BY ScheduleAssumption
<1>2. MaxInterval \in TestIntervals /\ \A t \in TestIntervals : MaxInterval >= t
  BY <1>1 DEF MaxInterval, Max
<1>3. TestIntervals \subseteq Nat \ {0}
  BY ScheduleAssumption
<1>4. \A t \in TestIntervals : t <= MaxInterval
  BY <1>2, <1>3
<1> QED BY <1>2, <1>3, <1>4, ScheduleAssumption

LEMMA SettingsFields ==
  ASSUME NEW c \in Settings
  PROVE  /\ c.test \in Nat /\ c.test > 0 /\ c.test <= MaxInterval
         /\ c.reboot \in Nat
<1>1. c.test \in TestIntervals /\ c.reboot \in RebootIntervals
  BY DEF Settings
<1>2. /\ TestIntervals \subseteq Nat \ {0} /\ RebootIntervals \subseteq Nat
      /\ \A t \in TestIntervals : t <= MaxInterval
  BY LongestInterval
<1>3. c.test \in Nat \ {0} /\ c.test <= MaxInterval /\ c.reboot \in Nat
  BY <1>1, <1>2
<1> QED BY <1>3

\* A reboot that is not imminent is further off than the longest test.
LEMMA NotImminent ==
  ASSUME conf \in Settings, uptime \in Nat, ~Imminent
  PROVE  uptime + MaxTest < conf.reboot
<1> DEFINE until == conf.reboot - uptime
<1>1. until \in Int /\ conf.reboot \in Nat
  BY SettingsFields
<1>2. Max({until, 0}) = IF until >= 0 THEN until ELSE 0
  BY <1>1 DEF Max
<1>3. ~(Max({until, 0}) <= SkipBefore)
  BY DEF Imminent
<1>4. until > SkipBefore
  BY <1>1, <1>2, <1>3, LongestInterval
<1> QED BY <1>1, <1>4, LongestInterval

LEMMA ScheduleInit == Init => ScheduleInv
<1> SUFFICES ASSUME Init PROVE ScheduleInv
  OBVIOUS
<1>1. NeverEnded \in 0..NeverEnded
  BY LongestInterval DEF NeverEnded
<1> QED BY <1>1 DEF Init, ScheduleInv, TestFitsBeforeReboot, RebootSparesTests, WaitsOutTheInterval

LEMMA ScheduleKept == ScheduleInv /\ [Next]_vars => ScheduleInv'
<1> SUFFICES ASSUME ScheduleInv, [Next]_vars PROVE ScheduleInv'
  OBVIOUS
<1> USE DEF requests, settings, frame
<1>0. /\ conf \in Settings /\ file \in Settings
      /\ uptime \in Nat /\ left \in Nat /\ sinceEnded \in 0..NeverEnded
      /\ conf.test \in Nat /\ conf.test > 0 /\ conf.test <= MaxInterval /\ conf.reboot \in Nat
      /\ MaxInterval \in Nat /\ NeverEnded = MaxInterval + 1 /\ MaxTest \in Nat
  BY LongestInterval, SettingsFields DEF ScheduleInv, NeverEnded
<1>1. TestFitsBeforeReboot /\ RebootSparesTests /\ WaitsOutTheInterval
  BY DEF ScheduleInv
\* What ends the process, or the machine's run, also ends what the invariant speaks of.
<1>2. ASSUME NEW cause, Gone(cause), conf' \in Settings, file' \in Settings, uptime' \in Nat,
             RebootSparesTests'
      PROVE  ScheduleInv'
  <2>1. pc' = "off" /\ left' = 0 /\ sinceEnded' = NeverEnded
    BY <1>2 DEF Gone
  <2>2. NeverEnded \in 0..NeverEnded
    BY <1>0
  <2> QED BY <1>2, <2>1, <2>2 DEF ScheduleInv, TestFitsBeforeReboot, WaitsOutTheInterval
<1>3. CASE Tick
  <2>1. /\ pc' = pc /\ UNCHANGED <<conf, file, stop, reload, sure, cut>>
        /\ left' = left - 1 /\ left > 0
        /\ uptime' \in Nat /\ uptime' <= uptime + 1
        /\ sinceEnded' = IF sinceEnded < MaxInterval THEN sinceEnded + 1 ELSE sinceEnded
        /\ pc \in {"first", "sleep", "testing"}
        /\ pc \in {"first", "sleep"} => ~Awake
    <3>1. UNCHANGED <<pc, conf, file, stop, reload, sure, cut>> /\ left' = left - 1
      BY <1>3 DEF Tick
    <3>2. left > 0 /\ pc \in {"first", "sleep", "testing"} /\ (pc \in {"first", "sleep"} => ~Awake)
      BY <1>3 DEF Tick, Waiting
    <3>3. uptime' = uptime + 1 \/ uptime' = uptime
      BY <1>3 DEF Tick
    <3>4. sinceEnded' = IF sinceEnded < MaxInterval THEN sinceEnded + 1 ELSE sinceEnded
      BY <1>3 DEF Tick
    <3> QED BY <1>0, <3>1, <3>2, <3>3, <3>4
  <2>2. left' \in Nat /\ sinceEnded' \in 0..NeverEnded
    BY <1>0, <2>1
  <2>3. TestFitsBeforeReboot' /\ RebootSparesTests'
    BY <1>0, <1>1, <2>1 DEF TestFitsBeforeReboot, RebootSparesTests
  <2>4. pc \in {"first", "sleep"} => sinceEnded' + left' = conf.test
    <3>1. pc \in {"first", "sleep"} => sinceEnded + left = conf.test
      BY <1>1, <2>1 DEF WaitsOutTheInterval
    <3> QED BY <1>0, <2>1, <3>1
  <2>5. WaitsOutTheInterval'
    BY <2>1, <2>4 DEF WaitsOutTheInterval
  <2>6. pc' \in {"first", "sleep"} /\ left' = 0 => TestIsDue'
    BY <1>0, <2>1, <2>2, <2>4 DEF TestIsDue
  <2> QED BY <1>0, <2>1, <2>2, <2>3, <2>5, <2>6 DEF ScheduleInv
<1>4. CASE Start
  BY <1>0, <1>1, <1>4
     DEF Start, ScheduleInv, TestFitsBeforeReboot, RebootSparesTests, WaitsOutTheInterval
<1>5. CASE Build
  <2>1. /\ pc' = "first" /\ left' = SecondsUntilDue
        /\ UNCHANGED <<conf, file, uptime, sinceEnded, sure, cut>>
    BY <1>5 DEF Build
  <2>2. /\ left' \in Nat /\ (left' = 0 => TestIsDue) /\ (left' > 0 => sinceEnded + left' = conf.test)
    BY <1>0, <2>1 DEF SecondsUntilDue, TestIsDue
  <2> QED BY <1>0, <1>1, <2>1, <2>2
          DEF ScheduleInv, TestFitsBeforeReboot, RebootSparesTests, WaitsOutTheInterval, TestIsDue
<1>6. CASE WaitEnds
  <2>1. /\ pc' = "check" /\ left' = 0
        /\ UNCHANGED <<conf, file, uptime, sinceEnded, stop, reload, sure, cut>>
    BY <1>6 DEF WaitEnds
  <2>2. Awake' \/ TestIsDue'
    BY <1>6, <2>1 DEF WaitEnds, ScheduleInv, Awake, TestIsDue
  <2> QED BY <1>0, <1>1, <2>1, <2>2
          DEF ScheduleInv, TestFitsBeforeReboot, RebootSparesTests, WaitsOutTheInterval
<1>7. CASE Check
  <2>1. UNCHANGED <<uptime, file>> /\ pc = "check"
    BY <1>7 DEF Check
  <2>2. CASE ~Awake /\ pc' = "collect" /\ UNCHANGED <<left, sinceEnded, sure, cut, conf>>
    <3>1. TestIsDue'
      BY <2>1, <2>2 DEF ScheduleInv, TestIsDue
    <3> QED BY <1>0, <1>1, <2>1, <2>2, <3>1
            DEF ScheduleInv, TestFitsBeforeReboot, RebootSparesTests, WaitsOutTheInterval
  <2>3. CASE Gone("stop") /\ UNCHANGED conf
    BY <1>0, <1>1, <1>2, <2>1, <2>3 DEF Gone, RebootSparesTests
  <2>4. CASE pc' = "build" /\ conf' = file /\ UNCHANGED <<left, sinceEnded, sure, cut>>
    BY <1>0, <1>1, <2>1, <2>4
       DEF ScheduleInv, TestFitsBeforeReboot, RebootSparesTests, WaitsOutTheInterval
  <2> QED BY <1>7, <2>2, <2>3, <2>4 DEF Check
<1>8. CASE Collect
  <2>1. UNCHANGED <<conf, file, uptime, sinceEnded, cut>> /\ pc' \in {"ended", "testing"}
    BY <1>8 DEF Collect
  <2>2. left' \in Nat /\ TestFitsBeforeReboot'
    <3>1. CASE pc' = "ended" /\ left' = left
      BY <1>0, <3>1 DEF TestFitsBeforeReboot
    <3>2. CASE ~Imminent /\ left' = MaxTest
      BY <1>0, <2>1, <3>2, NotImminent DEF TestFitsBeforeReboot
    <3>3. CASE left' = MaxTest /\ sure' = FALSE
      BY <1>0, <3>3 DEF TestFitsBeforeReboot
    <3> QED BY <1>8, <3>1, <3>2, <3>3 DEF Collect
  <2> QED BY <1>0, <1>1, <2>1, <2>2 DEF ScheduleInv, RebootSparesTests, WaitsOutTheInterval
<1>9. CASE TestEnds
  BY <1>0, <1>1, <1>9
     DEF TestEnds, ScheduleInv, TestFitsBeforeReboot, RebootSparesTests, WaitsOutTheInterval
<1>10. CASE CycleEnded
  BY <1>0, <1>1, <1>10
     DEF CycleEnded, ScheduleInv, TestFitsBeforeReboot, RebootSparesTests, WaitsOutTheInterval
<1>11. CASE Stop
  <2>1. UNCHANGED <<conf, file, uptime, sinceEnded, sure>> /\ stop' = TRUE /\ RebootSparesTests'
    BY <1>1, <1>11 DEF Stop, RebootSparesTests
  <2>2. CASE UNCHANGED <<pc, left>>
    BY <1>0, <1>1, <2>1, <2>2
       DEF ScheduleInv, TestFitsBeforeReboot, WaitsOutTheInterval, TestIsDue, Awake
  <2>3. CASE pc' = "ended" /\ left' = 0
    BY <1>0, <2>1, <2>3 DEF ScheduleInv, TestFitsBeforeReboot, WaitsOutTheInterval
  <2> QED BY <1>11, <2>2, <2>3 DEF Stop
<1>12. CASE StopTimesOut \/ Kill \/ PowerCut
  <2>1. PICK cause \in {"stop", "fault"} : Gone(cause)
    BY <1>12 DEF StopTimesOut, Kill, PowerCut, Boot
  <2>2. conf' \in Settings /\ file' \in Settings /\ uptime' \in Nat
    BY <1>0, <1>12 DEF StopTimesOut, Kill, PowerCut, Boot
  <2>3. RebootSparesTests'
    BY <1>1, <2>1 DEF Gone, RebootSparesTests
  <2> QED BY <1>2, <2>1, <2>2, <2>3
<1>13. CASE Reboot
  <2>1. PICK cause \in {"unsure", "changed", "reboot"} :
          /\ Gone(cause) /\ uptime' = 0 /\ conf' = file /\ file' = file
          /\ cause = "reboot" => sure /\ pinger = conf.reboot
    BY <1>13 DEF Reboot, Boot
  <2>2. cause = "reboot" => pc # "testing"
    BY <1>0, <1>1, <1>13, <2>1 DEF Reboot, TestFitsBeforeReboot
  <2>3. RebootSparesTests'
    BY <1>1, <2>1, <2>2 DEF Gone, RebootSparesTests
  <2> QED BY <1>0, <1>2, <2>1, <2>3
<1>14. CASE Edit
  BY <1>0, <1>1, <1>14
     DEF Edit, ScheduleInv, TestFitsBeforeReboot, RebootSparesTests, WaitsOutTheInterval,
         TestIsDue, Awake
<1>15. CASE Hup \/ PingerReloads
  <2>1. /\ UNCHANGED <<pc, left, sinceEnded, stop, uptime, conf, file, sure, cut>>
        /\ pc = "check" /\ Awake => Awake'
    <3>1. CASE Hup
      <4>1. UNCHANGED <<pc, left, sinceEnded, stop, uptime, conf, file, sure, cut>>
        BY <3>1 DEF Hup
      <4>2. reload' = (pc # "off")
        BY <3>1 DEF Hup
      <4>3. pc = "check" => Awake'
        BY <4>2 DEF Awake
      <4> QED BY <4>1, <4>3
    <3>2. CASE PingerReloads
      BY <3>2 DEF PingerReloads, Awake
    <3> QED BY <1>15, <3>1, <3>2
  <2> QED BY <1>0, <1>1, <2>1
          DEF ScheduleInv, TestFitsBeforeReboot, RebootSparesTests, WaitsOutTheInterval, TestIsDue
<1>16. CASE UNCHANGED vars
  BY <1>16 DEF vars, ScheduleInv, TestFitsBeforeReboot, RebootSparesTests, WaitsOutTheInterval,
               TestIsDue, Awake
<1> QED BY <1>3, <1>4, <1>5, <1>6, <1>7, <1>8, <1>9, <1>10, <1>11, <1>12, <1>13, <1>14, <1>15,
           <1>16 DEF Next, Service

\* While the schedule moves so does nothing else, and while something else moves
\* the schedule rests.
LEMMA ScheduleInvariant == PartSpec => []ScheduleInv /\ [][Next]_vars
<1>1. PartInit => Init
  BY DEF PartInit
<1>2. [PartNext]_partVars => [Next]_vars
  BY DEF PartNext, Scheduling, Purging, partVars
<1> QED BY <1>1, <1>2, ScheduleInit, ScheduleKept, PTL DEF PartSpec

\* A scheduled reboot cuts no speed test short, however the service is reloaded,
\* stopped and restarted before it, unless the reboot interval is changed during
\* the test or the uptime could not be read.
THEOREM RebootsSpareTests == PartSpec => []RebootSparesTests
<1>1. ScheduleInv => RebootSparesTests
  BY DEF ScheduleInv
<1> QED BY <1>1, ScheduleInvariant, PTL

\* No reload puts the next test off, and none brings it forward.
THEOREM TestsAreSpaced == PartSpec => TestsKeepTheInterval
<1>1. ScheduleInv /\ [Next]_vars => [WaitsOutTheInterval /\ TestsKeepTheirDistance]_vars
  <2> SUFFICES ASSUME ScheduleInv, Next, pc = "collect"
               PROVE  sinceEnded # NeverEnded => sinceEnded >= conf.test
    BY DEF ScheduleInv, TestsKeepTheirDistance
  <2> QED BY DEF ScheduleInv, TestIsDue
<1> QED BY <1>1, ScheduleInvariant, PTL DEF TestsKeepTheInterval

-----------------------------------------------------------------------------
(* What becomes of a speed test *)

\* A set of lines has a last one: of the distances to the end one is the least.
LEMMA LastLine ==
  ASSUME NEW n \in Nat, NEW lines \in SUBSET (1..n), lines # {}
  PROVE  Output!Max(lines) \in lines /\ \A i \in lines : i <= Output!Max(lines)
<1> DEFINE rest == {n - i : i \in lines}
<1>1. rest \subseteq Nat /\ rest # {}
  <2>1. ASSUME NEW i \in lines PROVE n - i \in Nat
    <3>1. i \in 1..n
      OBVIOUS
    <3> QED BY <3>1
  <2> QED BY <2>1
<1>2. PICK x \in rest : \A y \in rest : ~(<<y, x>> \in OpToRel(<, Nat))
  BY <1>1, NatLessThanWellFounded, WFMin
<1>3. \A y \in rest : x <= y
  <2> TAKE y \in rest
  <2>1. x \in Nat /\ y \in Nat
    BY <1>1
  <2>2. ~(y < x)
    BY <1>2, <2>1 DEF OpToRel
  <2> QED BY <2>1, <2>2
<1>4. PICK latest \in lines : x = n - latest
  BY <1>2
<1>5. \A i \in lines : latest >= i
  <2> TAKE i \in lines
  <2>1. x <= n - i
    BY <1>3
  <2> QED BY <1>4, <2>1
<1>6. Output!Max(lines) \in lines /\ \A i \in lines : Output!Max(lines) >= i
  BY <1>4, <1>5 DEF Output!Max
<1> QED BY <1>6

\* What is found is what was printed, and of several result lines the last.
LEMMA FoundIsPrinted ==
  ASSUME output.lines \in Seq(Output!Lines)
  PROVE  /\ Output!Found(output) <=> Output!Printed
         /\ \A i \in Output!ResultLines(output) :
              output.whole = "result" \/ i <= Output!FindResultObject(output)
<1> DEFINE lines == Output!ResultLines(output)
<1>1. lines \in SUBSET (1..Len(output.lines)) /\ Len(output.lines) \in Nat
  BY DEF Output!ResultLines
<1>2. lines # {} <=> "result" \in Output!ToSet(output.lines)
  BY DEF Output!ResultLines, Output!ToSet
<1>3. ASSUME lines # {} PROVE Output!Max(lines) \in lines /\ \A i \in lines : i <= Output!Max(lines)
  BY <1>1, <1>3, LastLine
<1>4. ASSUME lines # {} PROVE Output!Max(lines) > 0
  BY <1>1, <1>3, <1>4
<1> HIDE DEF lines
<1>5. Output!FindResultObject(output)
        = IF output.whole = "result" \/ lines = {} THEN 0 ELSE Output!Max(lines)
  BY DEF Output!FindResultObject, lines
<1>6. Output!Found(output) <=> Output!Printed
  BY <1>2, <1>4, <1>5 DEF Output!Found, Output!Printed
<1>7. \A i \in lines : output.whole = "result" \/ i <= Output!FindResultObject(output)
  BY <1>3, <1>5
<1> QED BY <1>6, <1>7 DEF lines

\* What a result object becomes.
LEMMA ResultOf ==
  ASSUME NEW obj \in Output!Objects
  PROVE  LET numeric == obj.download = "number" /\ obj.upload = "number" /\ obj.latency = "number"
             success == Output!ToResult(obj) \in {"success", "unbindable"}
         IN  /\ success => numeric
             /\ numeric /\ obj.server # "text" => success
<1> DEFINE numbers == <<obj.download, obj.upload, obj.latency>>
           odd == {i \in 1..3 : numbers[i] # "number"}
<1>1. odd = {} <=> (obj.download = "number" /\ obj.upload = "number" /\ obj.latency = "number")
  <2>1. numbers[1] = obj.download /\ numbers[2] = obj.upload /\ numbers[3] = obj.latency
    OBVIOUS
  <2>2. odd = {} <=> (numbers[1] = "number" /\ numbers[2] = "number" /\ numbers[3] = "number")
    OBVIOUS
  <2> QED BY <2>1, <2>2
<1>2. odd # {} => Output!ToResult(obj) \in {"failure", "exception"}
  BY DEF Output!ToResult
<1>3. odd = {} => Output!ToResult(obj) =
        IF obj.server = "text" THEN "exception"
        ELSE IF obj.server = "nested" \/ obj.isp = "nested" THEN "unbindable" ELSE "success"
  BY DEF Output!ToResult
<1> QED BY <1>1, <1>2, <1>3

LEMMA InitOutput == Output!Init => Output!OutputInv
BY DEF Output!Init, Output!OutputInv, Output!Nothing

LEMMA OutputKept == Output!OutputInv /\ [Output!Next]_(Output!vars) => Output!OutputInv'
<1> SUFFICES ASSUME Output!OutputInv, [Output!Next]_(Output!vars) PROVE Output!OutputInv'
  OBVIOUS
<1>0. Output!Nothing.lines \in Seq(Output!Lines) /\ Output!Expected \in Output!Objects
  BY DEF Output!Nothing, Output!Expected, Output!Objects, Output!Numbers
<1>1. CASE Output!Test
  <2>1. PICK how \in Output!Ends :
          \E out \in IF how = "clean" THEN Output!Outputs ELSE {Output!Nothing} :
          \E obj \in IF Output!Found(out) THEN Output!Objects ELSE {Output!Expected} :
            /\ end' = how /\ output' = out /\ object' = obj
            /\ result' = Output!Collect(how, out, obj)
    BY <1>1 DEF Output!Test
  <2>2. PICK out \in IF how = "clean" THEN Output!Outputs ELSE {Output!Nothing} :
          \E obj \in IF Output!Found(out) THEN Output!Objects ELSE {Output!Expected} :
            /\ end' = how /\ output' = out /\ object' = obj
            /\ result' = Output!Collect(how, out, obj)
    BY <2>1
  <2>3. PICK obj \in IF Output!Found(out) THEN Output!Objects ELSE {Output!Expected} :
            /\ end' = how /\ output' = out /\ object' = obj
            /\ result' = Output!Collect(how, out, obj)
    BY <2>2
  <2>4. out.lines \in Seq(Output!Lines)
    <3>1. CASE out = Output!Nothing
      BY <1>0, <3>1
    <3>2. CASE out \in Output!Outputs
      <4>1. out.lines \in Output!SeqOf(Output!Lines, MaxLines)
        BY <3>2 DEF Output!Outputs
      <4> QED BY <4>1 DEF Output!SeqOf
    <3> QED BY <3>1, <3>2
  <2>5. obj \in Output!Objects
    BY <1>0
  <2>6. result' # "none"
    BY <2>3 DEF Output!Collect, Output!ToResult
  <2>7. testing' = "stopped" => result' = "exception"
    BY <1>1 DEF Output!Test
  <2> QED BY <2>3, <2>4, <2>5, <2>6, <2>7 DEF Output!OutputInv, Output!Collect
<1>2. CASE Output!Flush \/ Output!StartAgain
  BY <1>0, <1>2 DEF Output!Flush, Output!StartAgain, Output!Forget, Output!OutputInv
<1>3. CASE UNCHANGED Output!vars
  BY <1>3 DEF Output!vars, Output!OutputInv
<1> QED BY <1>1, <1>2, <1>3 DEF Output!Next

LEMMA OutputInvariant == PartSpec => []Output!OutputInv
<1>1. PartInit => Output!Init
  BY DEF PartInit
<1>2. [PartNext]_partVars => [Output!Next]_(Output!vars)
  BY DEF PartNext, Scheduling, Purging, partVars, outputVars, Output!vars
<1> QED BY <1>1, <1>2, InitOutput, OutputKept, PTL DEF PartSpec

\* What is recorded of a speed test is what became of it, for outputs of any length:
\* a result among other lines is found, the last of several counts, only numbers
\* make a success, and a test that fails, hangs or cannot start is a failure.
THEOREM SpeedtestsAreTrue == PartSpec => []ResultsAreTrue
<1>1. Output!OutputInv => ResultsAreTrue
  <2> SUFFICES ASSUME Output!OutputInv PROVE ResultsAreTrue
    OBVIOUS
  <2>0. /\ output.lines \in Seq(Output!Lines)
        /\ result = "none" => output = Output!Nothing /\ end = "clean"
        /\ result # "none" => object \in Output!Objects
                              /\ result = Output!Collect(end, output, object)
        /\ testing = "stopped" => result = "exception"
    BY DEF Output!OutputInv
  <2>1. /\ Output!Found(output) <=> Output!Printed
        /\ \A i \in Output!ResultLines(output) :
              output.whole = "result" \/ i <= Output!FindResultObject(output)
    BY <2>0, FoundIsPrinted
  <2>2. CASE result = "none"
    <3>1. ~Output!Printed
      BY <2>0, <2>2 DEF Output!Nothing, Output!Printed, Output!ToSet
    <3> QED BY <2>0, <2>1, <2>2, <3>1
            DEF ResultsAreTrue, Output!ResultsAreTrue, Output!SuccessesAreMeasurements,
                Output!OutagesAreRecorded
  <2>3. CASE result # "none"
    <3>1. object \in Output!Objects /\ result = Output!Collect(end, output, object)
      BY <2>0, <2>3
    <3>2. result \in {"success", "unbindable"} =>
            end = "clean" /\ Output!Found(output) /\ result = Output!ToResult(object)
      BY <3>1 DEF Output!Collect
    <3>3. end = "clean" /\ Output!Found(output) => result = Output!ToResult(object)
      BY <3>1 DEF Output!Collect
    <3>4. end \in {"nonzero", "timeout", "unrunnable"} => result = "failure"
      BY <3>1 DEF Output!Collect
    <3>5. /\ Output!ToResult(object) \in {"success", "unbindable"} => Output!Numeric
          /\ Output!Numeric /\ object.server # "text"
               => Output!ToResult(object) \in {"success", "unbindable"}
      BY <3>1, ResultOf DEF Output!Numeric
    <3>6. Output!SuccessesAreMeasurements
      BY <2>1, <3>2, <3>3, <3>5 DEF Output!SuccessesAreMeasurements
    <3>7. Output!OutagesAreRecorded
      BY <2>0, <3>4 DEF Output!OutagesAreRecorded
    <3> QED BY <3>6, <3>7 DEF ResultsAreTrue, Output!ResultsAreTrue
  <2> QED BY <2>2, <2>3
<1> QED BY <1>1, OutputInvariant, PTL

-----------------------------------------------------------------------------
(* Which pings are kept *)

\* There is a longest window that can be counted back: of the distances to the
\* first day one is the least.
LEMMA LongestDated ==
    Keeping!MaxAge \in Nat /\ MaxLag < Keeping!MaxAge
<1> DEFINE rest == {Reach - w : w \in Keeping!Dated}
<1>0. /\ Keeping!Dated \subseteq Nat /\ Keeping!Dated # {} /\ \A w \in Keeping!Dated : w <= Reach
      /\ Reach \in Nat /\ Interval \in Nat \ {0} /\ MaxLag \in Nat
  BY PartAssumption DEF Keeping!Dated, Keeping!RetentionAssumption
<1>1. rest \subseteq Nat /\ rest # {}
  <2>1. ASSUME NEW w \in Keeping!Dated PROVE Reach - w \in Nat
    <3>1. w \in Nat /\ w <= Reach
      BY <1>0
    <3> QED BY <1>0, <3>1
  <2> QED BY <1>0, <2>1
<1>2. PICK x \in rest : \A y \in rest : ~(<<y, x>> \in OpToRel(<, Nat))
  BY <1>1, NatLessThanWellFounded, WFMin
<1>3. \A y \in rest : x <= y
  <2> TAKE y \in rest
  <2>1. x \in Nat /\ y \in Nat
    BY <1>1
  <2>2. ~(y < x)
    BY <1>2, <2>1 DEF OpToRel
  <2> QED BY <2>1, <2>2
<1>4. PICK longest \in Keeping!Dated : x = Reach - longest
  BY <1>2
<1>5. \A w \in Keeping!Dated : longest >= w
  <2> TAKE w \in Keeping!Dated
  <2>1. x <= Reach - w
    BY <1>3
  <2>2. w \in Nat /\ longest \in Nat
    BY <1>0
  <2> QED BY <1>0, <1>4, <2>1, <2>2
<1>6. Keeping!Max(Keeping!Dated) \in Keeping!Dated
  BY <1>4, <1>5 DEF Keeping!Max
<1>7. Keeping!Max(Keeping!Dated) \in Nat
  BY <1>0, <1>6
<1> QED BY <1>0, <1>7 DEF Keeping!MaxAge

\* The numbers that the steps below compare.
LEMMA RetentionConstants ==
    /\ Windows \subseteq Nat /\ Interval \in Nat \ {0}
    /\ Keeping!MaxAge \in Nat /\ MaxLag \in Nat /\ MaxLag < Keeping!MaxAge /\ MaxPurgeFaults \in Nat
BY LongestDated, PartAssumption DEF Keeping!RetentionAssumption

LEMMA InitKeptInv == Keeping!Init => Keeping!KeptInv
BY PartAssumption
   DEF Keeping!RetentionAssumption, Keeping!Init, Keeping!KeptInv, Keeping!TypeOK, Keeping!Purged,
       Keeping!NeverPurged

\* Time makes a row one older, and a purge one less recent.
LEMMA PassAges ==
    ASSUME Keeping!TypeOK, Keeping!Pass
    PROVE  /\ rows' \subseteq 0..Keeping!MaxAge
           /\ \A age \in rows' : \E a \in rows : age <= a + 1
           /\ sincePurge' \in Keeping!NeverPurged..Interval
           /\ sincePurge' # Keeping!NeverPurged /\ sincePurge' < Interval
                => sincePurge # Keeping!NeverPurged /\ sincePurge' = sincePurge + 1
<1> USE DEF Keeping!NeverPurged
<1>0. /\ rows \subseteq 0..Keeping!MaxAge /\ Keeping!MaxAge \in Nat
      /\ sincePurge \in Keeping!NeverPurged..Interval /\ Interval \in Nat \ {0}
  BY RetentionConstants DEF Keeping!TypeOK
<1>1. ASSUME NEW age \in rows
      PROVE  Keeping!UpTo(Keeping!MaxAge, age + 1) \in 0..Keeping!MaxAge /\ Keeping!UpTo(Keeping!MaxAge, age + 1) <= age + 1
  <2>1. age \in Nat /\ age <= Keeping!MaxAge
    BY <1>0
  <2> QED BY <1>0, <2>1 DEF Keeping!UpTo
<1>2. \A age \in rows' : \E a \in rows : age = Keeping!UpTo(Keeping!MaxAge, a + 1)
  BY DEF Keeping!Pass
<1>3. rows' \subseteq 0..Keeping!MaxAge /\ \A age \in rows' : \E a \in rows : age <= a + 1
  BY <1>1, <1>2
<1> QED BY <1>0, <1>3 DEF Keeping!Pass, Keeping!UpTo

LEMMA NextKeptInv == Keeping!KeptInv /\ [Keeping!Next]_(Keeping!vars) => Keeping!KeptInv'
<1> SUFFICES ASSUME Keeping!KeptInv, [Keeping!Next]_(Keeping!vars) PROVE Keeping!KeptInv'
  OBVIOUS
<1> USE RetentionConstants DEF Keeping!NeverPurged, Keeping!Fault
<1>0. /\ purging \in {"off", "collect", "check", "sleep"} /\ rows \subseteq 0..Keeping!MaxAge
      /\ lag \in 0..MaxLag /\ lagThen \in 0..MaxLag /\ window \in Windows /\ saved \in Windows
      /\ sincePurge \in Keeping!NeverPurged..Interval
      /\ outcome \in {"idle", "purged", "failed", "raised"} /\ mishaps \in 0..MaxPurgeFaults
  BY DEF Keeping!KeptInv, Keeping!TypeOK
<1>1. CASE Keeping!Start \/ Keeping!Reload
  <2>1. /\ sincePurge' = Keeping!NeverPurged /\ window' = saved /\ lagThen' = 0 /\ outcome' = "idle"
        /\ purging' = "collect" /\ mishaps' \in 0..MaxPurgeFaults /\ UNCHANGED <<rows, lag, saved>>
    BY <1>0, <1>1 DEF Keeping!Start, Keeping!Reload, Keeping!Build
  <2>2. Keeping!TypeOK'
    BY <1>0, <2>1 DEF Keeping!TypeOK
  <2> QED BY <2>1, <2>2 DEF Keeping!KeptInv, Keeping!Purged
<1>2. CASE Keeping!Collect
  <2>1. Keeping!TypeOK'
    BY <1>0, <1>2 DEF Keeping!TypeOK, Keeping!Collect
  <2>2. Keeping!Purged' => lag <= lagThen /\ \A age \in rows' : age <= window + lagThen + sincePurge
    BY <1>0, <1>2 DEF Keeping!KeptInv, Keeping!Purged, Keeping!Collect
  <2> QED BY <1>2, <2>1, <2>2 DEF Keeping!KeptInv, Keeping!Purged, Keeping!Collect
<1>3. CASE Keeping!Check
  <2>1. CASE Keeping!IsDue /\ window <= Reach /\ Keeping!Purge /\ purging' = "sleep"
    <3>1. CASE rows' = rows \ Keeping!Expired /\ sincePurge' = 0 /\ lagThen' = lag /\ outcome' = "purged"
               /\ UNCHANGED mishaps
      <4>1. Keeping!TypeOK' /\ lag' = lag /\ window' = window
        <5>1. /\ rows' \subseteq 0..Keeping!MaxAge /\ sincePurge' \in Keeping!NeverPurged..Interval
              /\ UNCHANGED <<lag, window, saved, mishaps>> /\ lagThen' = lag
          <6>1. 0 \in Keeping!NeverPurged..Interval
            OBVIOUS
          <6> QED BY <1>0, <1>3, <3>1, <6>1 DEF Keeping!Check
        <5> QED BY <1>0, <2>1, <3>1, <5>1 DEF Keeping!TypeOK
      <4>2. \A age \in rows' : age <= window' + lagThen' + sincePurge'
        BY <1>0, <1>3, <3>1 DEF Keeping!Expired, Keeping!Check
      <4> QED BY <1>0, <3>1, <4>1, <4>2 DEF Keeping!KeptInv, Keeping!Purged
    <3>2. CASE Keeping!Fault /\ outcome' = "failed" /\ UNCHANGED <<rows, sincePurge, lagThen>>
      BY <1>0, <1>3, <3>2 DEF Keeping!KeptInv, Keeping!TypeOK, Keeping!Purged, Keeping!Check
    <3> QED BY <2>1, <3>1, <3>2 DEF Keeping!Purge
  <2>2. CASE ~Keeping!IsDue /\ outcome' = "idle" /\ purging' = "sleep" /\ UNCHANGED <<rows, sincePurge, lagThen, mishaps>>
    BY <1>0, <1>3, <2>2
       DEF Keeping!KeptInv, Keeping!TypeOK, Keeping!Purged, Keeping!IsDue, Keeping!Check
  <2>3. CASE outcome' = "raised" /\ purging' = "off" /\ UNCHANGED <<rows, sincePurge, lagThen, mishaps>>
    BY <1>0, <1>3, <2>3 DEF Keeping!KeptInv, Keeping!TypeOK, Keeping!Purged, Keeping!Check
  <2> QED BY <1>3, <2>1, <2>2, <2>3 DEF Keeping!Check
<1>4. CASE Keeping!Sleep \/ Keeping!Down
  <2>1. Keeping!Pass /\ Keeping!TypeOK /\ UNCHANGED <<lag, window, saved, lagThen, outcome, mishaps>>
    BY <1>4 DEF Keeping!KeptInv, Keeping!Sleep, Keeping!Down
  <2>2. Keeping!TypeOK'
    BY <1>0, <1>4, <2>1, PassAges DEF Keeping!TypeOK, Keeping!Sleep, Keeping!Down
  <2>3. ASSUME Keeping!Purged' PROVE lag <= lagThen /\ \A age \in rows' : age <= window + lagThen + sincePurge'
    <3>1. Keeping!Purged /\ sincePurge' = sincePurge + 1
      BY <1>0, <1>4, <2>1, <2>3, PassAges DEF Keeping!Purged, Keeping!Sleep, Keeping!Down
    <3>2. lag <= lagThen /\ \A a \in rows : a <= window + lagThen + sincePurge
      BY <3>1 DEF Keeping!KeptInv
    <3>3. \A age \in rows' : age \in Int /\ \E a \in rows : age <= a + 1
      BY <2>1, PassAges
    <3> QED BY <1>0, <3>1, <3>2, <3>3
  <2> QED BY <1>4, <2>1, <2>2, <2>3 DEF Keeping!KeptInv, Keeping!Sleep, Keeping!Down
<1>5. CASE Keeping!Stop \/ Keeping!Reboot
  <2>1. Keeping!TypeOK' /\ purging' = "off"
    <3>1. /\ purging' = "off" /\ lag' \in 0..MaxLag /\ mishaps' \in 0..MaxPurgeFaults
          /\ UNCHANGED <<rows, window, sincePurge, saved, lagThen, outcome>>
      BY <1>0, <1>5 DEF Keeping!Stop, Keeping!Reboot
    <3> QED BY <1>0, <3>1 DEF Keeping!TypeOK
  <2> QED BY <2>1 DEF Keeping!KeptInv, Keeping!Purged
<1>6. CASE Keeping!ClockSet \/ Keeping!Save
  <2>1. lag' \in 0..MaxLag /\ lag' <= lag /\ saved' \in Windows /\ mishaps' \in 0..MaxPurgeFaults
    BY <1>0, <1>6 DEF Keeping!ClockSet, Keeping!Save
  <2>2. UNCHANGED <<purging, rows, window, sincePurge, lagThen, outcome>>
    BY <1>6 DEF Keeping!ClockSet, Keeping!Save
  <2>3. Keeping!TypeOK'
    BY <1>0, <2>1, <2>2 DEF Keeping!TypeOK
  <2>4. Keeping!Purged' => lag' <= lagThen
    BY <1>0, <2>1, <2>2 DEF Keeping!KeptInv, Keeping!Purged
  <2> QED BY <2>2, <2>3, <2>4 DEF Keeping!KeptInv, Keeping!Purged
<1>7. CASE UNCHANGED Keeping!vars
  BY <1>7 DEF Keeping!vars, Keeping!KeptInv, Keeping!TypeOK, Keeping!Purged
<1> QED BY <1>1, <1>2, <1>3, <1>4, <1>5, <1>6, <1>7 DEF Keeping!Next, Keeping!Loop

LEMMA PurgeInvariant == PartSpec => []Keeping!KeptInv /\ [][Keeping!Next]_(Keeping!vars)
<1>1. PartInit => Keeping!KeptInv
  BY InitKeptInv DEF PartInit
<1>2. [PartNext]_partVars => [Keeping!Next]_(Keeping!vars)
  BY DEF PartNext, Scheduling, Purging, partVars, purgeVars, Keeping!vars
<1> QED BY <1>1, <1>2, NextKeptInv, PTL DEF PartSpec

LEMMA KeptOverstays == Keeping!KeptInv => Keeping!NothingOverstays
<1> SUFFICES ASSUME Keeping!KeptInv, purging = "sleep", outcome # "failed", NEW age \in rows
             PROVE  age < window + Interval + lagThen
  BY DEF Keeping!NothingOverstays
<1>1. age <= window + lagThen + sincePurge /\ sincePurge < Interval
  BY DEF Keeping!KeptInv, Keeping!Purged
<1>2. age \in Int /\ window \in Int /\ lagThen \in Int /\ sincePurge \in Int /\ Interval \in Int
  BY RetentionConstants DEF Keeping!KeptInv, Keeping!TypeOK, Keeping!NeverPurged
<1> QED BY <1>1, <1>2

\* A ping stays no longer than the window, an interval and what the clock was
\* behind at the last purge, whatever the clock, reloads, restarts and reboots do,
\* as long as the last purge did not fail.
THEOREM NoPingOverstays == PartSpec => []NothingOverstays
BY KeptOverstays, PurgeInvariant, PTL DEF NothingOverstays

LEMMA NextKeepsWindow ==
    Keeping!KeptInv /\ [Keeping!Next]_(Keeping!vars) => [Keeping!KeepsTheWindow]_(Keeping!vars)
<1> SUFFICES ASSUME Keeping!TypeOK, Keeping!Next, purging = "check", purging' = "sleep"
             PROVE  Keeping!TakesOnlyExpired /\ Keeping!OncePerInterval
  BY DEF Keeping!KeepsTheWindow, Keeping!KeptInv
<1> USE RetentionConstants DEF Keeping!NeverPurged
<1>1. Keeping!Check
  BY DEF Keeping!Next, Keeping!Start, Keeping!Loop, Keeping!Collect, Keeping!Sleep,
         Keeping!Reload, Keeping!Stop, Keeping!Down, Keeping!Reboot, Keeping!ClockSet,
         Keeping!Save
<1>2. /\ rows \subseteq 0..Keeping!MaxAge /\ lag \in 0..MaxLag /\ window \in Windows
      /\ sincePurge \in Keeping!NeverPurged..Interval
  BY DEF Keeping!TypeOK
<1>3. Keeping!TakesOnlyExpired
  BY <1>1, <1>2 DEF Keeping!TakesOnlyExpired, Keeping!Check, Keeping!Purge, Keeping!Expired
<1>4. Keeping!OncePerInterval
  BY <1>1, <1>2 DEF Keeping!OncePerInterval, Keeping!Check, Keeping!IsDue
<1> QED BY <1>3, <1>4

\* A purge takes no ping whose timestamp is within the window, also when the clock
\* is behind, and a process purges no more often than once an interval.
THEOREM TheWindowIsKept == PartSpec => WindowIsKept
<1>1. Keeping!KeptInv /\ [Keeping!Next]_(Keeping!vars) => [Keeping!KeepsTheWindow]_partVars
  <2> SUFFICES ASSUME Keeping!KeptInv, [Keeping!Next]_(Keeping!vars) PROVE Keeping!KeepsTheWindow
    OBVIOUS
  <2>1. [Keeping!KeepsTheWindow]_(Keeping!vars)
    BY NextKeepsWindow
  <2>2. UNCHANGED Keeping!vars => Keeping!KeepsTheWindow
    BY DEF Keeping!vars, Keeping!KeepsTheWindow
  <2> QED BY <2>1, <2>2
<1> QED BY <1>1, PurgeInvariant, PTL DEF PartSpec, WindowIsKept

-----------------------------------------------------------------------------
(* What a round of pings leaves: PingRound's theorems, of the three         *)
(* instances that are run                                                   *)

OneProved == INSTANCE PingRound_proofs WITH
    pc <- pinging, buffer <- kept, table <- written, left <- remaining, faults <- failures,
    MaxFaults <- MaxFailures, Targets <- 1
TwoProved == INSTANCE PingRound_proofs WITH
    pc <- pinging, buffer <- kept, table <- written, left <- remaining, faults <- failures,
    MaxFaults <- MaxFailures, Targets <- 2
ThreeProved == INSTANCE PingRound_proofs WITH
    pc <- pinging, buffer <- kept, table <- written, left <- remaining, faults <- failures,
    MaxFaults <- MaxFailures, Targets <- 3

\* PingRound_proofs has its own copies of PingRound; each is the one that runs.
LEMMA SameOne ==
  /\ OneProved!RoundAssumption
  /\ One!Init <=> OneProved!Init
  /\ One!Next <=> OneProved!Next
  /\ UNCHANGED One!vars <=> UNCHANGED OneProved!vars
<1>1. OneProved!RoundAssumption
  BY PartAssumption DEF OneProved!RoundAssumption, One!RoundAssumption
<1>2. One!Init <=> OneProved!Init
  BY Zenon DEF One!Init, OneProved!Init, One!NotAsked, OneProved!NotAsked
<1>3. One!Next <=> OneProved!Next
  BY Zenon
     DEF One!Next, One!Ping, One!Keep, One!Newest, One!Flush, One!Write, One!Between,
         One!Check, One!Exit, One!Term, One!Kill, One!Takes, One!Result, One!Busy,
         One!Outcomes, One!NotAsked, OneProved!Next, OneProved!Ping, OneProved!Keep,
         OneProved!Newest, OneProved!Flush, OneProved!Write, OneProved!Between,
         OneProved!Check, OneProved!Exit, OneProved!Term, OneProved!Kill, OneProved!Takes,
         OneProved!Result, OneProved!Busy, OneProved!Outcomes, OneProved!NotAsked
<1>4. UNCHANGED One!vars <=> UNCHANGED OneProved!vars
  BY DEF One!vars, OneProved!vars
<1> QED BY <1>1, <1>2, <1>3, <1>4

LEMMA SameTwo ==
  /\ TwoProved!RoundAssumption
  /\ Two!Init <=> TwoProved!Init
  /\ Two!Next <=> TwoProved!Next
  /\ UNCHANGED Two!vars <=> UNCHANGED TwoProved!vars
<1>1. TwoProved!RoundAssumption
  BY PartAssumption DEF TwoProved!RoundAssumption, Two!RoundAssumption
<1>2. Two!Init <=> TwoProved!Init
  BY Zenon DEF Two!Init, TwoProved!Init, Two!NotAsked, TwoProved!NotAsked
<1>3. Two!Next <=> TwoProved!Next
  BY Zenon
     DEF Two!Next, Two!Ping, Two!Keep, Two!Newest, Two!Flush, Two!Write, Two!Between,
         Two!Check, Two!Exit, Two!Term, Two!Kill, Two!Takes, Two!Result, Two!Busy,
         Two!Outcomes, Two!NotAsked, TwoProved!Next, TwoProved!Ping, TwoProved!Keep,
         TwoProved!Newest, TwoProved!Flush, TwoProved!Write, TwoProved!Between,
         TwoProved!Check, TwoProved!Exit, TwoProved!Term, TwoProved!Kill, TwoProved!Takes,
         TwoProved!Result, TwoProved!Busy, TwoProved!Outcomes, TwoProved!NotAsked
<1>4. UNCHANGED Two!vars <=> UNCHANGED TwoProved!vars
  BY DEF Two!vars, TwoProved!vars
<1> QED BY <1>1, <1>2, <1>3, <1>4

LEMMA SameThree ==
  /\ ThreeProved!RoundAssumption
  /\ Three!Init <=> ThreeProved!Init
  /\ Three!Next <=> ThreeProved!Next
  /\ UNCHANGED Three!vars <=> UNCHANGED ThreeProved!vars
<1>1. ThreeProved!RoundAssumption
  BY PartAssumption DEF ThreeProved!RoundAssumption, Three!RoundAssumption
<1>2. Three!Init <=> ThreeProved!Init
  BY Zenon DEF Three!Init, ThreeProved!Init, Three!NotAsked, ThreeProved!NotAsked
<1>3. Three!Next <=> ThreeProved!Next
  BY Zenon
     DEF Three!Next, Three!Ping, Three!Keep, Three!Newest, Three!Flush, Three!Write,
         Three!Between, Three!Check, Three!Exit, Three!Term, Three!Kill, Three!Takes,
         Three!Result, Three!Busy, Three!Outcomes, Three!NotAsked, ThreeProved!Next,
         ThreeProved!Ping, ThreeProved!Keep, ThreeProved!Newest, ThreeProved!Flush,
         ThreeProved!Write, ThreeProved!Between, ThreeProved!Check, ThreeProved!Exit,
         ThreeProved!Term, ThreeProved!Kill, ThreeProved!Takes, ThreeProved!Result,
         ThreeProved!Busy, ThreeProved!Outcomes, ThreeProved!NotAsked
<1>4. UNCHANGED Three!vars <=> UNCHANGED ThreeProved!vars
  BY DEF Three!vars, ThreeProved!vars
<1> QED BY <1>1, <1>2, <1>3, <1>4

\* What is invariant of the pings, of the part that moves.
RoundInv ==
    /\ part \in {"schedule", "output", "one", "two", "three", "keeping"}
    /\ part = "one" => OneProved!WholeInv /\ OneProved!FlushInv /\ OneProved!StopInv
    /\ part = "two" => TwoProved!WholeInv /\ TwoProved!FlushInv /\ TwoProved!StopInv
    /\ part = "three" => ThreeProved!WholeInv /\ ThreeProved!FlushInv /\ ThreeProved!StopInv

LEMMA RoundInit == PartInit => RoundInv
<1> SUFFICES ASSUME PartInit PROVE RoundInv
  OBVIOUS
<1>1. One!Init /\ Two!Init /\ Three!Init
  BY DEF PartInit, One!Init, Two!Init, Three!Init, One!NotAsked, Two!NotAsked, Three!NotAsked
<1>2. OneProved!WholeInv /\ OneProved!FlushInv /\ OneProved!StopInv
  BY <1>1, SameOne, OneProved!InitWhole, OneProved!InitFlush, OneProved!InitStop
<1>3. TwoProved!WholeInv /\ TwoProved!FlushInv /\ TwoProved!StopInv
  BY <1>1, SameTwo, TwoProved!InitWhole, TwoProved!InitFlush, TwoProved!InitStop
<1>4. ThreeProved!WholeInv /\ ThreeProved!FlushInv /\ ThreeProved!StopInv
  BY <1>1, SameThree, ThreeProved!InitWhole, ThreeProved!InitFlush, ThreeProved!InitStop
<1> QED BY <1>2, <1>3, <1>4 DEF RoundInv, PartInit

LEMMA RoundKept == RoundInv /\ [PartNext]_partVars => RoundInv'
<1> SUFFICES ASSUME RoundInv, [PartNext]_partVars PROVE RoundInv'
  OBVIOUS
<1>1. /\ part' = part
      /\ part = "one" => [One!Next]_(One!vars)
      /\ part = "two" => [Two!Next]_(Two!vars)
      /\ part = "three" => [Three!Next]_(Three!vars)
  BY DEF PartNext, Scheduling, Purging, partVars, roundVars, One!vars, Two!vars, Three!vars
<1>2. ASSUME part = "one"
      PROVE  OneProved!WholeInv' /\ OneProved!FlushInv' /\ OneProved!StopInv'
  <2>1. [OneProved!Next]_(OneProved!vars)
    BY <1>1, <1>2, SameOne
  <2> QED BY <1>2, <2>1, SameOne, OneProved!NextWhole, OneProved!NextFlush,
             OneProved!NextStop
             DEF RoundInv
<1>3. ASSUME part = "two"
      PROVE  TwoProved!WholeInv' /\ TwoProved!FlushInv' /\ TwoProved!StopInv'
  <2>1. [TwoProved!Next]_(TwoProved!vars)
    BY <1>1, <1>3, SameTwo
  <2> QED BY <1>3, <2>1, SameTwo, TwoProved!NextWhole, TwoProved!NextFlush,
             TwoProved!NextStop
             DEF RoundInv
<1>4. ASSUME part = "three"
      PROVE  ThreeProved!WholeInv' /\ ThreeProved!FlushInv' /\ ThreeProved!StopInv'
  <2>1. [ThreeProved!Next]_(ThreeProved!vars)
    BY <1>1, <1>4, SameThree
  <2> QED BY <1>4, <2>1, SameThree, ThreeProved!NextWhole, ThreeProved!NextFlush,
             ThreeProved!NextStop
             DEF RoundInv
<1> QED BY <1>1, <1>2, <1>3, <1>4 DEF RoundInv

LEMMA RoundInvariant == PartSpec => []RoundInv
BY RoundInit, RoundKept, PTL DEF PartSpec

\* What is stored and kept of the pings is rounds from end to end, in the configured
\* order and each once, but for the beginning a full buffer had no room for, however
\* many rounds there are, whichever writes fail, and whenever the binary goes missing
\* or the service is stopped.
THEOREM PingRoundsAreWhole == PartSpec => []RoundsAreWhole
<1>1. RoundInv => RoundsAreWhole
  <2> SUFFICES ASSUME RoundInv PROVE RoundsAreWhole
    OBVIOUS
  <2>1. part = "one" => One!RoundsAreWhole
    <3>1. part = "one" => OneProved!RoundsAreWhole
      BY SameOne, OneProved!WholeIsWhole DEF RoundInv
    <3> QED BY <3>1, Zenon DEF One!RoundsAreWhole, OneProved!RoundsAreWhole, One!InOrder,
                               OneProved!InOrder
  <2>2. part = "two" => Two!RoundsAreWhole
    <3>1. part = "two" => TwoProved!RoundsAreWhole
      BY SameTwo, TwoProved!WholeIsWhole DEF RoundInv
    <3> QED BY <3>1, Zenon DEF Two!RoundsAreWhole, TwoProved!RoundsAreWhole, Two!InOrder,
                               TwoProved!InOrder
  <2>3. part = "three" => Three!RoundsAreWhole
    <3>1. part = "three" => ThreeProved!RoundsAreWhole
      BY SameThree, ThreeProved!WholeIsWhole DEF RoundInv
    <3> QED BY <3>1, Zenon DEF Three!RoundsAreWhole, ThreeProved!RoundsAreWhole, Three!InOrder,
                               ThreeProved!InOrder
  <2> QED BY <2>1, <2>2, <2>3 DEF RoundsAreWhole
<1> QED BY <1>1, RoundInvariant, PTL

\* A stop whose time is that of a round, a purge, the final flush and a failed one
\* kills nothing, nor one of a write less while none fails; and with less time a kill
\* takes no more than one flush interval measures, or than a full buffer and a round.
THEOREM RoundsEndInTime == PartSpec => []StopsAreInTime
<1>1. RoundInv => StopsAreInTime
  <2> SUFFICES ASSUME RoundInv PROVE StopsAreInTime
    OBVIOUS
  <2>1. part = "one" => One!StopsAreInTime
    <3>1. part = "one" => OneProved!StopsAreInTime
      BY SameOne, OneProved!StopsInTime DEF RoundInv
    <3> QED BY <3>1, Zenon DEF One!StopsAreInTime, OneProved!StopsAreInTime
  <2>2. part = "two" => Two!StopsAreInTime
    <3>1. part = "two" => TwoProved!StopsAreInTime
      BY SameTwo, TwoProved!StopsInTime DEF RoundInv
    <3> QED BY <3>1, Zenon DEF Two!StopsAreInTime, TwoProved!StopsAreInTime
  <2>3. part = "three" => Three!StopsAreInTime
    <3>1. part = "three" => ThreeProved!StopsAreInTime
      BY SameThree, ThreeProved!StopsInTime DEF RoundInv
    <3> QED BY <3>1, Zenon DEF Three!StopsAreInTime, ThreeProved!StopsAreInTime
  <2> QED BY <2>1, <2>2, <2>3 DEF StopsAreInTime
<1> QED BY <1>1, RoundInvariant, PTL
=============================================================================
