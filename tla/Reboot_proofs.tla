--------------------------- MODULE Reboot_proofs ---------------------------
(***************************************************************************)
(* Theorems about Reboot, for every value of its constants: any number of  *)
(* boots, faults, presses and re-runs, and any lag of the clock.           *)
(***************************************************************************)
EXTENDS Reboot, TLAPS

\* What one write of the request may change, and to what.
LEMMA WriteRequestType ==
    ASSUME TypeOK, NEW a \in Askers, WriteRequest(a)
    PROVE  /\ request' \in Requests /\ faults' \in 0..MaxFaults
           /\ asker' \in [Askers -> {"off", "idle", "asking", "refused"}]
<1>1. \A w \in BOOLEAN : [by |-> a, boot |-> boot, whole |-> w] \in Requests
  BY DEF TypeOK, Requests
<1>2. request' \in Requests
  BY <1>1 DEF WriteRequest, TypeOK
<1>3. asker' \in [Askers -> {"off", "idle", "asking", "refused"}]
  BY DEF WriteRequest, TypeOK
<1>4. faults' \in 0..MaxFaults
  BY RebootAssumption DEF WriteRequest, Fault, TypeOK
<1> QED BY <1>2, <1>3, <1>4

\* The type invariant holds of every behaviour, faults included.
THEOREM TypeCorrect == Spec => []TypeOK
<1>1. Init => TypeOK
  <2> SUFFICES ASSUME Init PROVE TypeOK
    OBVIOUS
  <2>1. trigger \in BOOLEAN /\ triggered \in BOOLEAN /\ watch \in BOOLEAN /\ noticed \in BOOLEAN
    BY DEF Init
  <2>2. /\ lag \in 0..MaxLag /\ uptime \in 0..Interval /\ waited \in 0..NotAsked
        /\ faults \in 0..MaxFaults /\ presses \in 0..MaxPresses /\ reruns \in 0..MaxReruns
    BY RebootAssumption DEF Init, NotAsked
  <2> QED BY <2>1, <2>2 DEF Init, TypeOK, Requests
<1>2. TypeOK /\ [Next]_vars => TypeOK'
  <2> SUFFICES ASSUME TypeOK, [Next]_vars PROVE TypeOK'
    OBVIOUS
  <2> USE RebootAssumption DEF TypeOK, disk, units, bounds, NotAsked
  <2>1. ASSUME PowerCut \/ GoDown PROVE TypeOK'
    <3>1. /\ trigger' \in BOOLEAN /\ triggered' \in BOOLEAN
          /\ watch' \in BOOLEAN /\ noticed' \in BOOLEAN
      BY <2>1 DEF PowerCut, GoDown, Boot
    <3>2. boot' \in Nat \ {0} /\ lag' \in 0..MaxLag
      BY <2>1 DEF PowerCut, GoDown, Boot
    <3>4. planned' \subseteq Nat
      <4>1. boot + 1 \in Nat /\ planned \subseteq Nat
        OBVIOUS
      <4>2. planned' = planned \/ planned' = planned \cup {boot + 1}
        BY <2>1 DEF PowerCut, GoDown
      <4> QED BY ONLY <4>1, <4>2
    <3>3. uptime' \in 0..Interval /\ waited' \in 0..NotAsked
      BY <2>1 DEF PowerCut, GoDown, Boot
    <3> QED BY <2>1, <3>1, <3>2, <3>3, <3>4 DEF PowerCut, GoDown, Boot, Requests
  <2>2. CASE Tick
    BY <2>2 DEF Tick
  <2>3. CASE ClockSynchronised
    BY <2>3 DEF ClockSynchronised
  <2>4. CASE InitUnit
    <3> USE DEF initFrame
    <3>1. CASE InitFails
      BY <3>1 DEF InitFails, Fault
    <3>2. CASE ClearTrigger
      <4>1. trigger' \in BOOLEAN
        BY <3>2 DEF ClearTrigger
      <4>2. faults' \in 0..MaxFaults
        BY <3>2 DEF ClearTrigger, Fault
      <4> QED BY <3>2, <4>1, <4>2 DEF ClearTrigger
    <3>3. CASE WaitForSync
      BY <3>3 DEF WaitForSync
    <3>4. CASE RecordStartup
      <4>1. request' \in Requests /\ judged' \in Requests
        BY <3>4 DEF RecordStartup, ConsumeRequest, ClearRequest, Requests
      <4>2. faults' \in 0..MaxFaults
        BY <3>4 DEF RecordStartup, ConsumeRequest, ClearRequest, Fault
      <4>3. unrecorded' \subseteq Nat /\ init' \in {"insert", "done"}
        BY <3>4 DEF RecordStartup
      <4> QED BY <3>4, <4>1, <4>2, <4>3 DEF RecordStartup
    <3>5. CASE InsertRestart
      <4>1. [boot |-> boot, at |-> Now, expected |-> judged # NoRequest, request |-> judged]
              \in Rows
        BY DEF Rows, Now
      <4>2. rows' \in Seq(Rows)
        BY <3>5, <4>1 DEF InsertRestart
      <4>3. faults' \in 0..MaxFaults
        BY <3>5 DEF InsertRestart, Fault
      <4>4. unrecorded' \subseteq Nat /\ judged' \in Requests
        BY <3>5 DEF InsertRestart, Requests
      <4> HIDE DEF Rows, Now
      <4> QED BY <3>5, <4>2, <4>3, <4>4 DEF InsertRestart
    <3> QED BY <2>4, <3>1, <3>2, <3>3, <3>4, <3>5 DEF InitUnit
  <2>5. CASE RerunInit
    <3>1. watch' \in BOOLEAN /\ noticed' \in BOOLEAN
      BY <2>5 DEF RerunInit
    <3>2. reruns' \in 0..MaxReruns /\ waited' \in 0..NotAsked
      BY <2>5 DEF RerunInit
    <3> QED BY <2>5, <3>1, <3>2 DEF RerunInit
  <2>6. CASE RebootUnits
    <3> USE DEF unitFrame, askers
    <3>1. CASE StartWatch
      BY <3>1 DEF StartWatch
    <3>2. CASE PathFires
      BY <3>2 DEF PathFires
    <3>3. CASE RemoveTrigger
      <4>1. trigger' \in BOOLEAN
        BY <3>3 DEF RemoveTrigger
      <4>2. faults' \in 0..MaxFaults
        BY <3>3 DEF RemoveTrigger, Fault
      <4> QED BY <3>3, <4>1, <4>2 DEF RemoveTrigger
    <3>4. CASE OrderReboot
      BY <3>4 DEF OrderReboot
    <3> QED BY <2>6, <3>1, <3>2, <3>3, <3>4 DEF RebootUnits
  <2>7. ASSUME NEW a \in Askers, StartAsker(a) PROVE TypeOK'
    BY <2>7 DEF StartAsker, askerFrame
  <2>8. ASSUME NEW a \in Askers, WriteTrigger(a) PROVE TypeOK'
    <3>1. asker' \in [Askers -> {"off", "idle", "asking", "refused"}]
      BY <2>8 DEF WriteTrigger
    <3>2. waited' \in 0..NotAsked /\ noticed' \in BOOLEAN /\ faults' \in 0..MaxFaults
      BY <2>8 DEF WriteTrigger, Fault
    <3> QED BY <2>8, <3>1, <3>2 DEF WriteTrigger, askerFrame
  <2>9. ASSUME NEW a \in Askers, TakeBack(a) PROVE TypeOK'
    BY <2>9 DEF TakeBack, ClearRequest, Fault, askerFrame, Requests
  <2>10. CASE SchedulerCheck
    <3>1. /\ request' \in Requests /\ faults' \in 0..MaxFaults
          /\ asker' \in [Askers -> {"off", "idle", "asking", "refused"}]
      BY <2>10, WriteRequestType DEF SchedulerCheck, Askers
    <3> QED BY <2>10, <3>1 DEF SchedulerCheck, askerFrame
  <2>11. CASE PressButton
    <3>1. /\ request' \in Requests /\ faults' \in 0..MaxFaults
          /\ asker' \in [Askers -> {"off", "idle", "asking", "refused"}]
      BY <2>11, WriteRequestType DEF PressButton, Askers
    <3> QED BY <2>11, <3>1 DEF PressButton, askerFrame
  <2>12. CASE ReloadPinger
    BY <2>12 DEF ReloadPinger
  <2>13. ASSUME NEW a \in Askers, Crash(a) PROVE TypeOK'
    BY <2>13 DEF Crash, Fault, askerFrame
  <2>14. CASE UNCHANGED vars
    BY <2>14 DEF vars
  <2> QED
    BY <2>1, <2>2, <2>3, <2>4, <2>5, <2>6, <2>7, <2>8, <2>9, <2>10, <2>11, <2>12, <2>13,
       <2>14 DEF Next, Asking
<1> QED BY <1>1, <1>2, PTL DEF Spec

-----------------------------------------------------------------------------
\* No boot loop: bbmon-reboot.service runs only in a boot in which its trigger
\* was written, whichever faults strike and whatever an earlier boot left behind.
THEOREM RebootsAreAsked == Spec => []NoUnaskedReboot
<1>1. Init => TriggerInv
  BY DEF Init, TriggerInv, NoUnaskedReboot
<1>2. TypeOK /\ TriggerInv /\ [Next]_vars => TriggerInv'
  <2> SUFFICES ASSUME TypeOK, TriggerInv, [Next]_vars PROVE TriggerInv'
    OBVIOUS
  <2> USE DEF TriggerInv, NoUnaskedReboot
  <2>1. CASE UNCHANGED <<units, triggered>>
    BY <2>1 DEF units
  <2>2. CASE PowerCut \/ GoDown
    BY <2>2 DEF PowerCut, GoDown, Boot
  <2>3. CASE RerunInit
    BY <2>3 DEF RerunInit
  <2>4. ASSUME NEW a \in Askers, WriteTrigger(a) PROVE TriggerInv'
    BY <2>4 DEF WriteTrigger, askerFrame
  <2>5. CASE PathFires
    BY <2>5 DEF PathFires, unitFrame
  <2>6. CASE RemoveTrigger \/ OrderReboot
    BY <2>6 DEF RemoveTrigger, OrderReboot, unitFrame
  <2>7. CASE StartWatch
    BY <2>7 DEF StartWatch, unitFrame
  <2>8. Tick \/ ClockSynchronised \/ InitUnit => UNCHANGED <<units, triggered>>
    BY DEF Tick, ClockSynchronised, InitUnit, InitFails, ClearTrigger, WaitForSync,
           RecordStartup, InsertRestart, initFrame
  <2>9. SchedulerCheck \/ PressButton \/ ReloadPinger => UNCHANGED <<units, triggered>>
    BY DEF SchedulerCheck, PressButton, ReloadPinger, askerFrame, units
  <2>10. \A a \in Askers :
           StartAsker(a) \/ TakeBack(a) \/ Crash(a) => UNCHANGED <<units, triggered>>
    BY DEF StartAsker, TakeBack, Crash, askerFrame, units
  <2>11. UNCHANGED vars => UNCHANGED <<units, triggered>>
    BY DEF vars, units
  <2> QED
    BY <2>1, <2>2, <2>3, <2>4, <2>5, <2>6, <2>7, <2>8, <2>9, <2>10, <2>11
       DEF Next, Asking, RebootUnits
<1>3. TriggerInv => NoUnaskedReboot
  BY DEF TriggerInv
<1> QED BY <1>1, <1>2, <1>3, TypeCorrect, PTL DEF Spec
-----------------------------------------------------------------------------
\* What the other two invariants read of the state, besides the clock.
recordFrame == <<rows, boot, init, unrecorded>>

\* Only the boot, the clock and bbmon-init itself touch what a row is judged by.
LEMMA RecordFrame ==
    ASSUME Tick \/ RebootUnits \/ Asking \/ SchedulerCheck \/ PressButton \/ ReloadPinger
             \/ (\E a \in Askers : Crash(a)) \/ UNCHANGED vars
    PROVE  UNCHANGED <<recordFrame, lag, judged>>
<1> USE DEF recordFrame
<1>1. Tick \/ ReloadPinger \/ UNCHANGED vars => UNCHANGED <<recordFrame, lag, judged>>
  BY DEF Tick, ReloadPinger, vars, disk
<1>2. RebootUnits => UNCHANGED <<recordFrame, lag, judged>>
  BY DEF RebootUnits, StartWatch, PathFires, RemoveTrigger, OrderReboot, unitFrame
<1>3. SchedulerCheck \/ PressButton => UNCHANGED <<recordFrame, lag, judged>>
  BY DEF SchedulerCheck, PressButton, askerFrame
<1>4. \A a \in Askers : StartAsker(a) \/ WriteTrigger(a) \/ TakeBack(a) \/ Crash(a)
        => UNCHANGED <<recordFrame, lag, judged>>
  BY DEF StartAsker, WriteTrigger, TakeBack, Crash, askerFrame
<1> QED BY <1>1, <1>2, <1>3, <1>4 DEF Asking

\* A row of the table names a boot.
LEMMA RowBoots == rows \in Seq(Rows) => \A i \in DOMAIN rows : rows[i].boot \in Nat
<1> SUFFICES ASSUME rows \in Seq(Rows), NEW i \in DOMAIN rows PROVE rows[i].boot \in Nat
  OBVIOUS
<1>1. rows[i] \in Rows
  OBVIOUS
<1> QED BY <1>1 DEF Rows

\* While bbmon-init waits for a right clock, each boot gets exactly one row:
\* never a second one, and one unless bbmon-init met an error.
THEOREM OneRowEach ==
    ASSUME ~SyncMayFail
    PROVE  Spec => [](OneRowPerBoot /\ EveryBootRecorded)
<1>1. Init => RecordInv
  BY DEF Init, RecordInv, OneRowPerBoot, EveryBootRecorded
<1>2. TypeOK /\ RecordInv /\ [Next]_vars => RecordInv'
  <2> SUFFICES ASSUME TypeOK, RecordInv, [Next]_vars PROVE RecordInv'
    OBVIOUS
  <2> USE DEF RecordInv, OneRowPerBoot, EveryBootRecorded
  <2>0. rows \in Seq(Rows) /\ boot \in Nat /\ lag \in Nat
    BY RebootAssumption DEF TypeOK
  <2>1. CASE UNCHANGED <<recordFrame, lag>>
    BY <2>1 DEF recordFrame
  <2>2. CASE PowerCut \/ GoDown
    <3>1. /\ rows' = rows /\ boot' = boot + 1 /\ init' = "clear" /\ unrecorded' = unrecorded
      BY <2>2 DEF PowerCut, GoDown, Boot, disk
    <3>2. \A i \in DOMAIN rows : rows[i].boot \in Nat
      BY <2>0, RowBoots
    <3> QED BY <2>0, <3>1, <3>2
  <2>3. CASE ClockSynchronised
    BY <2>3 DEF ClockSynchronised, disk
  <2>4. CASE RerunInit
    BY <2>4 DEF RerunInit, disk
  <2>5. CASE InitFails \/ ClearTrigger
    BY <2>5 DEF InitFails, ClearTrigger, initFrame, disk
  <2>6. CASE WaitForSync
    BY <2>6 DEF WaitForSync, initFrame, disk
  <2>7. CASE RecordStartup
    <3>1. /\ rows' = rows /\ boot' = boot /\ lag' = lag /\ lag = 0
      BY <2>7 DEF RecordStartup, initFrame
    <3>2. \A i \in DOMAIN rows : rows[i].boot \in Nat
      BY <2>0, RowBoots
    <3>3. CASE AlreadyRecorded /\ init' = "done" /\ unrecorded' = unrecorded
      <4>1. PICK i \in DOMAIN rows : rows[i].at >= 2 * boot
        BY <3>1, <3>3, <2>0 DEF AlreadyRecorded, BootTime
      <4>2. rows[i].boot = boot
        BY <4>1, <3>2, <2>0
      <4> QED BY <3>1, <3>3, <4>2
    <3>4. CASE ~AlreadyRecorded /\ init' = "insert" /\ unrecorded' = unrecorded
      <4>1. \A i \in DOMAIN rows : rows[i].boot # boot
        BY <3>1, <3>2, <3>4, <2>0 DEF AlreadyRecorded, BootTime
      <4> QED BY <3>1, <3>4, <4>1
    <3>5. CASE init' = "done" /\ unrecorded' = unrecorded \cup {boot}
      BY <3>1, <3>5
    <3> QED BY <2>7, <3>3, <3>4, <3>5 DEF RecordStartup
  <2>8. CASE InsertRestart
    <3>1. /\ boot' = boot /\ lag' = lag /\ lag = 0 /\ init' = "done" /\ init = "insert"
      BY <2>8 DEF InsertRestart, initFrame
    <3>2. CASE rows' = rows /\ unrecorded' = unrecorded \cup {boot}
      BY <3>1, <3>2
    <3>3. ASSUME NEW r \in Rows, r.boot = boot, r.at = 2 * boot + 1,
                 rows' = Append(rows, r), unrecorded' = unrecorded
          PROVE  RecordInv'
      <4>1. /\ DOMAIN rows' = 1..(Len(rows) + 1) /\ DOMAIN rows = 1..Len(rows)
            /\ rows'[Len(rows) + 1] = r /\ Len(rows) \in Nat
            /\ \A i \in DOMAIN rows : rows'[i] = rows[i]
        BY <2>0, <3>3
      <4>2. \A i \in DOMAIN rows' : i \in DOMAIN rows \/ i = Len(rows) + 1
        BY <4>1
      <4>3. OneRowPerBoot'
        <5>1. \A i \in DOMAIN rows : rows'[i].boot # rows'[Len(rows) + 1].boot
          BY <3>1, <3>3, <4>1
        <5>2. \A i, j \in DOMAIN rows : rows'[i].boot = rows'[j].boot => i = j
          BY <4>1
        <5> QED BY <4>2, <5>1, <5>2
      <4>4. \A i \in DOMAIN rows' : rows'[i].boot <= boot /\ rows'[i].at = 2 * rows'[i].boot + 1
        BY <2>0, <3>1, <3>3, <4>1, <4>2
      <4>5. EveryBootRecorded'
        BY <3>1, <3>3, <4>1
      <4> QED BY <3>1, <4>3, <4>4, <4>5
    <3>4. CASE rows' = Append(rows, [boot |-> boot, at |-> Now,
                         expected |-> judged # NoRequest, request |-> judged])
               /\ unrecorded' = unrecorded
      <4> DEFINE r == [boot |-> boot, at |-> Now,
                         expected |-> judged # NoRequest, request |-> judged]
      <4>1. r \in Rows
        <5>1. boot \in Nat /\ Now \in Int /\ judged \in Requests
          BY <2>0 DEF TypeOK, Now
        <5> QED BY <5>1 DEF Rows
      <4>2. r.boot = boot /\ r.at = 2 * boot + 1
        BY <2>0, <3>1 DEF Now
      <4> QED BY <3>3, <3>4, <4>1, <4>2
    <3> QED BY <2>8, <3>2, <3>4 DEF InsertRestart
  <2> QED
    BY <2>1, <2>2, <2>3, <2>4, <2>5, <2>6, <2>7, <2>8, RecordFrame DEF Next, InitUnit
<1>3. RecordInv => OneRowPerBoot /\ EveryBootRecorded
  BY DEF RecordInv
<1> QED BY <1>1, <1>2, <1>3, TypeCorrect, PTL DEF Spec
-----------------------------------------------------------------------------
\* While the request file can be read and deleted, one planned reboot excuses no
\* power cut after the next recorded boot, whatever else fails.
THEOREM RestartsJudgedAlone ==
    ASSUME "unlink" \notin FaultKinds, "read" \notin FaultKinds
    PROVE  Spec => []JudgedOnItsOwn
<1>1. Init => RequestInv
  BY DEF Init, RequestInv, JudgedOnItsOwn, NoRequest
<1>2. TypeOK /\ RequestInv /\ [Next]_vars => RequestInv'
  <2> SUFFICES ASSUME TypeOK, RequestInv, [Next]_vars PROVE RequestInv'
    OBVIOUS
  <2> USE DEF RequestInv, JudgedOnItsOwn
  <2>0. /\ rows \in Seq(Rows) /\ boot \in Nat
        /\ request \in Requests /\ judged \in Requests
        /\ \A i \in DOMAIN rows : rows[i].boot \in Nat
    BY RowBoots DEF TypeOK
  <2>1. NoRequest.boot = 0 /\ \A r \in Requests : r.boot \in Nat
    BY DEF NoRequest, Requests
  <2>2. ClearRequest => request' = NoRequest
    BY DEF ClearRequest, Fault
  <2>3. CASE UNCHANGED <<request, rows, boot, init, judged, asker>>
    BY <2>3
  <2>4. CASE PowerCut \/ GoDown
    <3>1. /\ rows' = rows /\ request' = request /\ boot' = boot + 1 /\ init' = "clear"
          /\ judged' = NoRequest /\ \A a \in Askers : asker'[a] = "off"
      BY <2>4 DEF PowerCut, GoDown, Boot, disk
    <3> QED BY <2>0, <2>1, <3>1
  <2>5. CASE RerunInit
    <3>1. /\ rows' = rows /\ request' = request /\ boot' = boot /\ init' = "clear"
          /\ judged' = judged /\ init # "insert" /\ \A a \in Askers : asker'[a] = "off"
      BY <2>5 DEF RerunInit, disk
    <3> QED BY <3>1
  <2>6. CASE InitFails \/ ClearTrigger \/ WaitForSync
    <3>1. /\ rows' = rows /\ request' = request /\ boot' = boot /\ judged' = judged
          /\ asker' = asker /\ init \in {"clear", "sync"} /\ init' \in {"sync", "record", "failed"}
      BY <2>6 DEF InitFails, ClearTrigger, WaitForSync, initFrame, disk
    <3> QED BY <3>1
  <2>7. CASE RecordStartup
    <3>1. /\ rows' = rows /\ boot' = boot /\ asker' = asker /\ init = "record"
          /\ init' \in {"done", "insert"}
      BY <2>7 DEF RecordStartup, initFrame
    <3>2. CASE request' = NoRequest /\ judged' = judged /\ init' = "done"
      BY <2>0, <2>1, <3>1, <3>2
    <3>3. CASE request' = request /\ judged' = judged /\ init' = "done"
      BY <3>1, <3>3
    <3>4. CASE request' = NoRequest /\ judged' = request /\ init' = "insert"
      BY <2>0, <2>1, <3>1, <3>4
    <3> QED BY <2>2, <2>7, <3>2, <3>3, <3>4 DEF RecordStartup, ConsumeRequest, Fault
  <2>8. CASE InsertRestart
    <3>1. /\ boot' = boot /\ request' = request /\ request = NoRequest /\ asker' = asker
          /\ judged' = NoRequest /\ init = "insert" /\ init' = "done"
      BY <2>8 DEF InsertRestart, initFrame
    <3>2. CASE rows' = rows
      BY <2>1, <3>1, <3>2
    <3>3. ASSUME NEW r, r.boot = boot, r.expected => judged # NoRequest, r.request = judged,
                 rows' = Append(rows, r)
          PROVE  RequestInv'
      <4>1. /\ DOMAIN rows' = 1..(Len(rows) + 1) /\ DOMAIN rows = 1..Len(rows)
            /\ rows'[Len(rows) + 1] = r /\ Len(rows) \in Nat
            /\ \A i \in DOMAIN rows : rows'[i] = rows[i]
        BY <2>0, <3>3
      <4>2. \A i \in DOMAIN rows' : i \in DOMAIN rows \/ i = Len(rows) + 1
        BY <4>1
      <4>3. \A i \in DOMAIN rows' : rows'[i].boot <= boot /\ rows'[i].boot \in Nat
        BY <2>0, <3>3, <4>1, <4>2
      <4>4. ASSUME NEW i \in DOMAIN rows', NEW j \in DOMAIN rows', rows'[i].expected,
                   rows'[i].request.boot < rows'[j].boot, rows'[j].boot < rows'[i].boot
            PROVE  FALSE
        <5>1. CASE i \in DOMAIN rows /\ j \in DOMAIN rows
          BY <4>1, <4>4, <5>1
        <5>2. CASE i \in DOMAIN rows /\ j = Len(rows) + 1
          <6>1. rows'[j].boot = boot /\ rows'[i].boot <= boot /\ rows'[i].boot \in Nat
            BY <3>3, <4>1, <4>3, <5>2
          <6> QED BY <2>0, <4>4, <6>1
        <5>3. CASE i = Len(rows) + 1 /\ j \in DOMAIN rows
          <6>1. judged # NoRequest /\ rows'[i].request = judged /\ rows'[j] = rows[j]
            BY <3>3, <4>1, <4>4, <5>3
          <6>2. rows[j].boot <= judged.boot /\ rows[j].boot \in Nat /\ judged.boot \in Nat
            BY <2>0, <2>1, <5>3, <6>1
          <6> QED BY <4>4, <6>1, <6>2
        <5>4. CASE i = Len(rows) + 1 /\ j = Len(rows) + 1
          BY <2>0, <3>3, <4>1, <4>4, <5>4
        <5> QED BY <4>2, <5>1, <5>2, <5>3, <5>4
      <4>5. JudgedOnItsOwn'
        BY <4>4
      <4> QED BY <2>1, <3>1, <4>3, <4>5
    <3> QED BY <2>8, <3>2, <3>3 DEF InsertRestart
  <2>9. ASSUME NEW a \in Askers, StartAsker(a) \/ WriteTrigger(a) \/ Crash(a)
        PROVE  RequestInv'
    <3>1. UNCHANGED <<request, rows, boot, init, judged>>
      BY <2>9 DEF StartAsker, WriteTrigger, Crash, askerFrame
    <3>2. init # "done" => \A b \in Askers : asker'[b] = "off"
      BY <2>9 DEF StartAsker, WriteTrigger, Crash, TypeOK
    <3> QED BY <3>1, <3>2
  <2>10. ASSUME NEW a \in Askers, TakeBack(a) PROVE RequestInv'
    <3>1. request' = NoRequest /\ UNCHANGED <<rows, boot, init, judged>> /\ init = "done"
      BY <2>2, <2>10 DEF TakeBack, askerFrame
    <3> QED BY <2>1, <2>0, <3>1
  <2>11. CASE SchedulerCheck \/ PressButton
    <3>1. UNCHANGED <<rows, boot, init, judged>> /\ init = "done"
      BY <2>11 DEF SchedulerCheck, PressButton, askerFrame, Askers
    <3>2. request' = request \/ request'.boot = boot
      BY <2>11 DEF SchedulerCheck, PressButton, WriteRequest
    <3> QED BY <2>0, <3>1, <3>2
  <2>12. CASE Tick \/ ClockSynchronised \/ RebootUnits \/ ReloadPinger \/ UNCHANGED vars
    BY <2>3, <2>12
       DEF Tick, ClockSynchronised, RebootUnits, StartWatch, PathFires, RemoveTrigger,
           OrderReboot, ReloadPinger, unitFrame, askers, disk, vars
  <2> QED
    BY <2>4, <2>5, <2>6, <2>7, <2>8, <2>9, <2>10, <2>11, <2>12 DEF Next, InitUnit, Asking
<1>3. RequestInv => JudgedOnItsOwn
  BY DEF RequestInv
<1> QED BY <1>1, <1>2, <1>3, TypeCorrect, PTL DEF Spec
-----------------------------------------------------------------------------
\* The half that is about the rows that are missing: a boot whose bbmon-init is
\* done and met no error has its row, however far behind the clock once was.
THEOREM BootsAreRecorded ==
    ASSUME ~SyncMayFail
    PROVE  Spec => []EveryBootRecorded
BY OneRowEach, PTL
-----------------------------------------------------------------------------
\* Time, and a reload of the pinger, touch no request and nothing that acts on one.
LEMMA RequestFrame ==
    ASSUME Tick \/ ClockSynchronised \/ ReloadPinger \/ UNCHANGED vars
    PROVE  UNCHANGED <<request, rows, boot, init, judged, asker, watch, noticed, service,
                       planned, triggered>>
BY DEF Tick, ClockSynchronised, ReloadPinger, vars, disk, units

\* However many requests overwrite one another, and though askers are killed,
\* files cannot be deleted and rows cannot be written: a reboot that
\* bbmon-reboot.service carried out is not recorded as a power cut.  A refused
\* trigger, an unreadable request and an update in the middle of it are the
\* three things that can make it one.
THEOREM PlannedRebootsAreExpected ==
    ASSUME "trigger" \notin FaultKinds, "read" \notin FaultKinds, MaxReruns = 0
    PROVE  Spec => []PlannedIsExpected
<1>1. Init => PlannedInv
  BY DEF Init, PlannedInv, PlannedIsExpected
<1>2. TypeOK /\ PlannedInv /\ [Next]_vars => PlannedInv'
  <2> SUFFICES ASSUME TypeOK, PlannedInv, [Next]_vars PROVE PlannedInv'
    OBVIOUS
  <2> USE DEF PlannedInv, PlannedIsExpected
  <2>0. rows \in Seq(Rows) /\ boot \in Nat /\ \A i \in DOMAIN rows : rows[i].boot \in Nat
    BY RowBoots DEF TypeOK
  <2>1. CASE UNCHANGED <<request, rows, boot, init, judged, asker, watch, noticed, service,
                         planned>>
    BY <2>1
  <2>2. CASE PowerCut
    <3>1. /\ UNCHANGED <<request, rows, planned>> /\ boot' = boot + 1 /\ init' = "clear"
          /\ service' = "idle" /\ noticed' = FALSE /\ watch' = FALSE
          /\ \A a \in Askers : asker'[a] = "off"
      BY <2>2 DEF PowerCut, Boot, disk
    <3>2. planned \subseteq Nat
      BY DEF TypeOK
    <3> QED BY <2>0, <3>1, <3>2
  <2>3. CASE GoDown
    <3>1. /\ UNCHANGED <<request, rows>> /\ boot' = boot + 1 /\ init' = "clear"
          /\ planned' = planned \cup {boot + 1}
          /\ service' = "idle" /\ noticed' = FALSE /\ watch' = FALSE
          /\ \A a \in Askers : asker'[a] = "off"
      BY <2>3 DEF GoDown, Boot, disk
    <3>2. planned \subseteq Nat
      BY DEF TypeOK
    <3>3. request' # NoRequest
      BY <2>3, <3>1 DEF GoDown
    <3>4. \A b \in planned' : b <= boot'
      BY <2>0, <3>1, <3>2
    <3>5. \A i \in DOMAIN rows' : rows'[i].boot <= boot' /\ rows'[i].boot # boot + 1
      BY <2>0, <3>1
    <3>6. PlannedIsExpected'
      BY <3>1, <3>5
    <3> QED BY <3>1, <3>3, <3>4, <3>5, <3>6
  <2>4. ~RerunInit
    BY RebootAssumption DEF RerunInit, TypeOK
  <2>5. CASE InitFails \/ ClearTrigger \/ WaitForSync
    <3>1. /\ UNCHANGED <<request, rows, judged, boot, asker, watch, noticed, service, planned>>
          /\ init \in {"clear", "sync"} /\ init' \in {"sync", "record", "failed"}
      BY <2>5 DEF InitFails, ClearTrigger, WaitForSync, initFrame, units, disk
    <3> QED BY <3>1
  <2>6. CASE RecordStartup
    <3>1. /\ UNCHANGED <<rows, boot, asker, watch, noticed, service, planned>>
          /\ init = "record" /\ service = "idle" /\ ~noticed /\ ~watch
      BY <2>6 DEF RecordStartup, initFrame, units
    <3>2. CASE init' = "done"
      BY <3>1, <3>2
    <3>3. CASE init' = "insert" /\ ConsumeRequest
      <4>1. judged' = request
        BY <3>3 DEF ConsumeRequest, Fault
      <4> QED BY <3>1, <3>3, <4>1
    <3> QED BY <2>6, <3>2, <3>3 DEF RecordStartup
  <2>7. CASE InsertRestart
    <3>1. /\ UNCHANGED <<request, boot, asker, watch, noticed, service, planned>>
          /\ init = "insert" /\ init' = "done"
      BY <2>7 DEF InsertRestart, initFrame, units
    <3>2. CASE rows' = rows
      BY <3>1, <3>2
    <3>3. ASSUME NEW r, r.boot = boot, judged # NoRequest => r.expected, rows' = Append(rows, r)
          PROVE  PlannedInv'
      <4>1. /\ DOMAIN rows' = 1..(Len(rows) + 1) /\ DOMAIN rows = 1..Len(rows)
            /\ rows'[Len(rows) + 1] = r /\ Len(rows) \in Nat
            /\ \A i \in DOMAIN rows : rows'[i] = rows[i]
        BY <2>0, <3>3
      <4>2. \A i \in DOMAIN rows' : i \in DOMAIN rows \/ i = Len(rows) + 1
        BY <4>1
      <4>3. \A i \in DOMAIN rows' : rows'[i].boot <= boot'
        BY <2>0, <3>1, <3>3, <4>1, <4>2
      <4>4. PlannedIsExpected'
        <5>1. boot \in planned => r.expected
          BY <3>1, <3>3
        <5> QED BY <3>1, <3>3, <4>1, <4>2, <5>1
      <4> QED BY <3>1, <4>3, <4>4
    <3>4. rows' = rows \/ rows' = Append(rows, [boot |-> boot, at |-> Now,
                                   expected |-> judged # NoRequest, request |-> judged])
      BY <2>7 DEF InsertRestart
    <3> QED BY <3>2, <3>3, <3>4
  <2>8. ASSUME NEW a \in Askers, StartAsker(a) \/ Crash(a) PROVE PlannedInv'
    <3>1. UNCHANGED <<request, rows, boot, init, judged, watch, noticed, service, planned>>
      BY <2>8 DEF StartAsker, Crash, askerFrame
    <3>2. /\ init = "done"
          /\ \A b \in Askers : asker'[b] = asker[b] \/ asker'[b] \in {"idle", "off"}
      BY <2>8 DEF StartAsker, Crash, TypeOK
    <3> QED BY <3>1, <3>2
  <2>9. ASSUME NEW a \in Askers, WriteTrigger(a) PROVE PlannedInv'
    <3>1. UNCHANGED <<request, rows, boot, init, judged, watch, service, planned>>
      BY <2>9 DEF WriteTrigger, askerFrame
    <3>2. init = "done" /\ request # NoRequest
      BY <2>9 DEF WriteTrigger
    <3>3. \A b \in Askers : asker'[b] = asker[b] \/ asker'[b] = "idle"
      BY <2>9 DEF WriteTrigger, Fault, TypeOK
    <3> QED BY <3>1, <3>2, <3>3
  <2>10. ASSUME NEW a \in Askers PROVE ~TakeBack(a)
    BY DEF TakeBack
  <2>11. CASE SchedulerCheck \/ PressButton
    <3>1. PICK a \in Askers : asker[a] = "idle" /\ WriteRequest(a)
      BY <2>11 DEF SchedulerCheck, PressButton, Askers
    <3>2. UNCHANGED <<rows, boot, init, judged, watch, noticed, service, planned>>
      BY <2>11 DEF SchedulerCheck, PressButton, askerFrame
    <3>3. init = "done"
      BY <3>1
    <3>4. CASE UNCHANGED <<request, asker>>
      BY <3>2, <3>4
    <3>5. \A b \in Askers : asker'[b] = asker[b] \/ asker'[b] = "asking"
      BY <3>1 DEF WriteRequest, TypeOK
    <3>6. \/ UNCHANGED <<request, asker>>
          \/ request'.boot = boot /\ request' # NoRequest
      BY <3>1 DEF WriteRequest, NoRequest, TypeOK
    <3> QED BY <3>2, <3>3, <3>4, <3>5, <3>6
  <2>12. CASE RebootUnits
    <3>1. UNCHANGED <<request, rows, boot, init, judged, asker, planned>>
      BY <2>12 DEF RebootUnits, StartWatch, PathFires, RemoveTrigger, OrderReboot, unitFrame,
                   askers
    <3>2. CASE StartWatch
      BY <3>1, <3>2 DEF StartWatch
    <3>3. CASE PathFires
      BY <3>1, <3>3 DEF PathFires
    <3>4. CASE RemoveTrigger \/ OrderReboot
      BY <3>1, <3>4 DEF RemoveTrigger, OrderReboot
    <3> QED BY <2>12, <3>2, <3>3, <3>4 DEF RebootUnits
  <2>13. CASE Tick \/ ClockSynchronised \/ ReloadPinger \/ UNCHANGED vars
    BY <2>1, <2>13, RequestFrame
  <2> QED
    BY <2>2, <2>3, <2>4, <2>5, <2>6, <2>7, <2>8, <2>9, <2>10, <2>11, <2>12, <2>13
       DEF Next, InitUnit, Asking
<1>3. PlannedInv => PlannedIsExpected
  BY DEF PlannedInv
<1> QED BY <1>1, <1>2, <1>3, TypeCorrect, PTL DEF Spec
-----------------------------------------------------------------------------
\* No whole request outlives the ask it belongs to: whichever of the two askers
\* is refused, in whatever order their writes come and fail, its reason does not
\* tell the next boot that a reboot was meant.
THEOREM RefusedRequestsAreTakenBack ==
    ASSUME {"unlink", "read", "db", "crash"} \cap FaultKinds = {}
    PROVE  Spec => []StandingRequestWasTriggered
<1>1. Init => StandingInv
  BY DEF Init, StandingInv, NoRequest
<1>2. TypeOK /\ StandingInv /\ [Next]_vars => StandingInv'
  <2> SUFFICES ASSUME TypeOK, StandingInv, [Next]_vars PROVE StandingInv'
    OBVIOUS
  <2> USE DEF StandingInv
  <2>0. boot \in Nat /\ boot # 0 /\ request.boot \in Nat /\ NoRequest.boot = 0
    BY DEF TypeOK, Requests, NoRequest
  <2>1. ClearRequest => request' = NoRequest
    BY DEF ClearRequest, Fault
  <2>2. CASE UNCHANGED <<request, boot, init, asker, triggered>>
    BY <2>2
  <2>3. CASE PowerCut \/ GoDown
    <3>1. /\ request' = request /\ boot' = boot + 1 /\ init' = "clear"
          /\ \A a \in Askers : asker'[a] = "off"
      BY <2>3 DEF PowerCut, GoDown, Boot, disk
    <3> QED BY <2>0, <3>1
  <2>4. CASE RerunInit
    BY <2>4 DEF RerunInit, disk
  <2>5. CASE InitFails \/ ClearTrigger \/ WaitForSync
    <3>1. /\ UNCHANGED <<request, boot, asker, triggered>>
          /\ init # "done" /\ init' \in {"sync", "record", "failed"}
      BY <2>5 DEF InitFails, ClearTrigger, WaitForSync, initFrame, disk
    <3> QED BY <3>1
  <2>6. CASE RecordStartup
    <3>1. /\ UNCHANGED <<boot, asker, triggered>> /\ init = "record"
          /\ init' \in {"insert", "done"}
      BY <2>6 DEF RecordStartup, initFrame
    <3>2. request' = NoRequest
      BY <2>1, <2>6 DEF RecordStartup, ConsumeRequest, Fault
    <3> QED BY <2>0, <3>1, <3>2
  <2>7. CASE InsertRestart
    <3>1. /\ UNCHANGED <<request, boot, asker, triggered>>
          /\ init = "insert" /\ init' = "done"
      BY <2>7 DEF InsertRestart, initFrame
    <3> QED BY <2>0, <3>1
  <2>8. ASSUME NEW a \in Askers, StartAsker(a) PROVE StandingInv'
    <3>1. /\ UNCHANGED <<request, boot, init, triggered>> /\ init = "done" /\ asker[a] = "off"
          /\ asker' = [asker EXCEPT ![a] = "idle"]
      BY <2>8 DEF StartAsker, askerFrame
    <3> QED BY <3>1 DEF TypeOK
  <2>9. ASSUME NEW a \in Askers, WriteTrigger(a) PROVE StandingInv'
    <3>1. UNCHANGED <<request, boot, init>> /\ init = "done"
      BY <2>9 DEF WriteTrigger, askerFrame
    <3>2. CASE triggered'
      BY <3>1, <3>2
    <3>3. CASE asker' = [asker EXCEPT ![a] = "refused"]
      <4>1. asker'[a] \in {"asking", "refused"}
        BY <3>3 DEF TypeOK
      <4> QED BY <3>1, <4>1
    <3> QED BY <2>9, <3>2, <3>3 DEF WriteTrigger
  <2>10. ASSUME NEW a \in Askers, TakeBack(a) PROVE StandingInv'
    <3>1. UNCHANGED <<boot, init>> /\ init = "done" /\ request' = NoRequest
      BY <2>1, <2>10 DEF TakeBack, askerFrame
    <3> QED BY <2>0, <3>1
  <2>11. CASE SchedulerCheck \/ PressButton
    <3>1. PICK a \in Askers : asker[a] = "idle" /\ WriteRequest(a)
      BY <2>11 DEF SchedulerCheck, PressButton, Askers
    <3>2. UNCHANGED <<boot, init, triggered>> /\ init = "done"
      BY <2>11, <3>1 DEF SchedulerCheck, PressButton, askerFrame
    <3>3. CASE UNCHANGED asker /\ (request' = request \/ ~request'.whole)
      <4>1. CASE request' = request
        BY <3>2, <3>3, <4>1
      <4>2. CASE ~request'.whole
        <5>1. request'.boot <= boot'
          BY <2>0, <3>1, <3>2 DEF WriteRequest
        <5> QED BY <3>2, <4>2, <5>1
      <4> QED BY <3>3, <4>1, <4>2
    <3>4. CASE /\ request' = [by |-> a, boot |-> boot, whole |-> TRUE]
               /\ asker' = [asker EXCEPT ![a] = "asking"]
      <4>1. asker'[a] \in {"asking", "refused"} /\ request'.boot = boot
        BY <3>4 DEF TypeOK
      <4> QED BY <2>0, <3>2, <4>1
    <3> QED BY <3>1, <3>3, <3>4 DEF WriteRequest
  <2>12. CASE RebootUnits
    BY <2>2, <2>12 DEF RebootUnits, StartWatch, PathFires, RemoveTrigger, OrderReboot, unitFrame,
                       askers
  <2>13. ASSUME NEW a \in Askers PROVE ~Crash(a)
    BY DEF Crash, Fault
  <2>14. CASE Tick \/ ClockSynchronised \/ ReloadPinger \/ UNCHANGED vars
    BY <2>2, <2>14, RequestFrame
  <2> QED
    BY <2>3, <2>4, <2>5, <2>6, <2>7, <2>8, <2>9, <2>10, <2>11, <2>12, <2>13, <2>14
       DEF Next, InitUnit, Asking
<1>3. StandingInv => StandingRequestWasTriggered
  BY DEF StandingInv, StandingRequestWasTriggered
<1> QED BY <1>1, <1>2, <1>3, TypeCorrect, PTL DEF Spec
=============================================================================
