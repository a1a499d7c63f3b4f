------------------------------- MODULE Reboot -------------------------------
(***************************************************************************)
(* How bbmon reboots the machine and how the next boot is judged.          *)
(*                                                                         *)
(* Two processes may ask for a reboot, by the same request_reboot of       *)
(* bbmon/reboot.py: the RebootScheduler inside the ping loop ("scheduler") *)
(* and the dashboard's force-reboot button ("button").  Asking is two file *)
(* writes, the request (why the machine goes down, read by the next boot)  *)
(* and the trigger (watched by bbmon-reboot.path).  The path unit starts   *)
(* bbmon-reboot.service, which deletes the trigger and reboots.  On the    *)
(* way up bbmon-init deletes a stale trigger, waits for the clock, and     *)
(* writes the boot's one row of the restarts table.                        *)
(*                                                                         *)
(* Time.  Boot n happens at wall-clock time 2n and everything bbmon-init   *)
(* does in it at 2n+1, when the clock is right; an unsynchronised clock is *)
(* `lag' behind.  Uptime and the age of the last ask are only ever         *)
(* compared with a limit, so they are counted up to that limit.            *)
(*                                                                         *)
(* Data.  A request is the process that wrote it, the boot it was written  *)
(* in, and whether all of its reason was: a write that fails may already   *)
(* have emptied the file, and an empty request is a request.  The reason's *)
(* wording is left out.  Two writes to one file are ordered, as are a      *)
(* write and an unlink.                                                    *)
(***************************************************************************)
EXTENDS Integers, Sequences

CONSTANTS
    Interval,     \* uptime at which the periodic reboot is due (interval_days)
    Retry,        \* age at which an unanswered ask is repeated (REBOOT_RETRY_SECONDS)
    MaxLag,       \* how far behind the clock may be before it is synchronised
    SyncMayFail,  \* whether the wait for the clock may end without a synchronised clock
    FaultKinds,   \* which faults this instance has, a subset of Faults
    MaxFaults,    \* bound: faults in one behaviour
    MaxBoots,     \* bound: boots in one behaviour
    MaxPresses,   \* bound: presses of the force-reboot button
    MaxReruns     \* bound: re-runs of bbmon-init by an update

Askers == {"scheduler", "button"}

\* Each is an error path of the code or a loss the code cannot see:
\*   request, trigger  write_text of that file raises OSError, before or after it
\*                     has truncated it
\*   unlink            deleting a file raises OSError
\*   read              the request file exists and cannot be read
\*   db                uptime unreadable, or a DatabaseError in bbmon-init
\*   schema            bbmon-init exits before it clears the trigger
\*   event             the trigger's write is noticed by nobody
\*   crash             an asker is killed and restarted by systemd
Faults == {"request", "trigger", "unlink", "read", "db", "schema", "event", "crash"}

ASSUME RebootAssumption ==
    /\ Interval \in Nat \ {0}
    /\ Retry \in Nat \ {0}
    /\ MaxLag \in Nat
    /\ SyncMayFail \in BOOLEAN
    /\ FaultKinds \subseteq Faults
    /\ MaxFaults \in Nat /\ MaxBoots \in Nat /\ MaxPresses \in Nat /\ MaxReruns \in Nat

VARIABLES
    \* on disk
    request,    \* contents of reboot-requested, or NoRequest
    trigger,    \* whether reboot-now exists
    rows,       \* the restarts table
    \* this boot
    boot,       \* number of the current boot
    lag,        \* how far the wall clock is behind
    init,       \* where bbmon-init is
    judged,     \* what _consume_request returned, between the read and the insert
    asker,      \* where each asker is in request_reboot
    uptime,     \* counted up to Interval
    waited,     \* age of the scheduler's last ask, counted up to Retry, or NotAsked
    watch,      \* whether bbmon-reboot.path is waiting for a write
    noticed,    \* a write bbmon-reboot.path has yet to act on
    service,    \* where bbmon-reboot.service is
    \* history
    planned,    \* boots that followed a reboot by bbmon-reboot.service
    unrecorded, \* boots whose row bbmon-init met an error writing
    triggered,  \* whether the trigger has been written in this boot
    \* bounds
    faults, presses, reruns

disk == <<request, trigger, rows>>
askers == <<asker, waited>>
units == <<watch, noticed, service>>
bounds == <<faults, presses, reruns>>
vars == <<request, trigger, rows, boot, lag, init, judged, asker, uptime, waited, watch,
          noticed, service, planned, unrecorded, triggered, faults, presses, reruns>>

NoRequest == [by |-> "nobody", boot |-> 0, whole |-> FALSE]
Requests == [by : Askers, boot : Nat, whole : BOOLEAN] \cup {NoRequest}
Rows == [boot : Nat, at : Int, expected : BOOLEAN, request : Requests]
NotAsked == Retry + 1

TypeOK ==
    /\ request \in Requests /\ judged \in Requests
    /\ trigger \in BOOLEAN /\ triggered \in BOOLEAN
    /\ rows \in Seq(Rows)
    /\ boot \in Nat \ {0}
    /\ lag \in 0..MaxLag
    /\ init \in {"clear", "sync", "record", "insert", "done", "failed"}
    /\ asker \in [Askers -> {"off", "idle", "asking", "refused"}]
    /\ uptime \in 0..Interval
    /\ waited \in 0..NotAsked
    /\ watch \in BOOLEAN /\ noticed \in BOOLEAN
    /\ service \in {"idle", "starting", "rebooting", "ordered"}
    /\ planned \subseteq Nat /\ unrecorded \subseteq Nat
    /\ faults \in 0..MaxFaults /\ presses \in 0..MaxPresses /\ reruns \in 0..MaxReruns
-----------------------------------------------------------------------------
\* One of the bounded number of faults, of a kind this instance has.
Fault(kind) == kind \in FaultKinds /\ faults < MaxFaults /\ faults' = faults + 1

\* The mutant that empties the file instead of deleting it.
ClearRequestTruncates ==
    \/ request' = [by |-> "nobody", boot |-> boot, whole |-> FALSE] /\ UNCHANGED faults
    \/ Fault("unlink") /\ UNCHANGED request

\* _clear_request: an unlink that fails is logged and the file stays.
ClearRequest ==
    \/ request' = NoRequest /\ UNCHANGED faults
    \/ Fault("unlink") /\ UNCHANGED request

Init ==
    /\ request = NoRequest /\ judged = NoRequest /\ trigger = FALSE /\ rows = <<>>
    /\ boot = 1 /\ lag \in 0..MaxLag /\ init = "clear"
    /\ asker = [a \in Askers |-> "off"] /\ uptime = 0 /\ waited = NotAsked
    /\ watch = FALSE /\ noticed = FALSE /\ service = "idle"
    /\ planned = {} /\ unrecorded = {} /\ triggered = FALSE
    /\ faults = 0 /\ presses = 0 /\ reruns = 0
-----------------------------------------------------------------------------
(* The machine *)

\* The machine comes up again.  Only files survive; the clock resumes from what
\* the filesystem last knew.
Boot ==
    /\ boot < MaxBoots
    /\ boot' = boot + 1
    /\ lag' \in 0..MaxLag
    /\ init' = "clear" /\ judged' = NoRequest
    /\ asker' = [a \in Askers |-> "off"] /\ uptime' = 0 /\ waited' = NotAsked
    /\ watch' = FALSE /\ noticed' = FALSE /\ service' = "idle" /\ triggered' = FALSE
    /\ UNCHANGED <<disk, unrecorded, bounds>>

PowerCut == Boot /\ UNCHANGED planned

GoDown == service = "ordered" /\ Boot /\ planned' = planned \cup {boot + 1}

Tick ==
    /\ uptime < Interval \/ waited < Retry
    /\ uptime' = IF uptime < Interval THEN uptime + 1 ELSE uptime
    /\ waited' = IF waited < Retry THEN waited + 1 ELSE waited
    /\ UNCHANGED <<disk, boot, lag, init, judged, asker, units, planned, unrecorded,
                   triggered, bounds>>

ClockSynchronised ==
    /\ lag > 0
    /\ lag' = 0
    /\ UNCHANGED <<disk, boot, init, judged, asker, uptime, waited, units, planned,
                   unrecorded, triggered, bounds>>
-----------------------------------------------------------------------------
(* bbmon-init *)

initFrame == <<boot, lag, asker, uptime, waited, units, planned, triggered, presses, reruns>>

\* main returns 1 before clear_trigger: the configuration or the schema is bad.
InitFails ==
    /\ init = "clear"
    /\ Fault("schema")
    /\ init' = "failed"
    /\ unrecorded' = unrecorded \cup {boot}
    /\ UNCHANGED <<disk, judged, initFrame>>

ClearTrigger ==
    /\ init = "clear"
    /\ init' = "sync"
    /\ \/ trigger' = FALSE /\ UNCHANGED faults
       \/ Fault("unlink") /\ UNCHANGED trigger
    /\ UNCHANGED <<request, rows, judged, unrecorded, initFrame>>

\* The mutant of an init that records the boot without waiting for the clock.
WaitForSyncSkipped ==
    /\ init = "sync"
    /\ init' = "record"
    /\ UNCHANGED <<disk, judged, unrecorded, faults, initFrame>>

\* wait_for_synchronised returns True on a right clock, and False when it has
\* timed out or nothing manages the clock; main carries on either way.
WaitForSync ==
    /\ init = "sync"
    /\ lag = 0 \/ SyncMayFail
    /\ init' = "record"
    /\ UNCHANGED <<disk, judged, unrecorded, faults, initFrame>>

Now == 2 * boot + 1 - lag
BootTime == 2 * boot - lag

\* The mutant that compares the latest row with now instead of the boot time.
AlreadyRecordedByNow == \E i \in DOMAIN rows : rows[i].at > Now

\* latest_restart's timestamp is at or after the boot.
AlreadyRecorded == \E i \in DOMAIN rows : rows[i].at >= BootTime

\* The mutant that reads the request and leaves it in place.
ConsumeRequestKept ==
    \/ judged' = request /\ UNCHANGED <<request, faults>>
    \/ Fault("read") /\ judged' = NoRequest /\ UNCHANGED request

\* The mutant that deletes the request before it reads it.
ConsumeRequestUnread ==
    \/ judged' = NoRequest /\ ClearRequest
    \/ Fault("read") /\ judged' = NoRequest /\ UNCHANGED request

\* _consume_request: reads and deletes; an unreadable request counts as none and stays.
ConsumeRequest ==
    \/ judged' = request /\ ClearRequest
    \/ Fault("read") /\ judged' = NoRequest /\ UNCHANGED request

\* record_startup up to the insert.
RecordStartup ==
    /\ init = "record"
    /\ \/ /\ AlreadyRecorded
          /\ ClearRequest
          /\ init' = "done"
          /\ UNCHANGED <<judged, unrecorded>>
       \/ /\ ~AlreadyRecorded
          /\ ConsumeRequest
          /\ init' = "insert"
          /\ UNCHANGED unrecorded
       \/ /\ Fault("db")
          /\ init' = "done"
          /\ unrecorded' = unrecorded \cup {boot}
          /\ UNCHANGED <<request, judged>>
    /\ UNCHANGED <<trigger, rows, initFrame>>

\* insert_restart; its failure is logged and swallowed, and the request is gone.
InsertRestart ==
    /\ init = "insert"
    /\ init' = "done"
    /\ judged' = NoRequest
    /\ \/ /\ rows' = Append(rows, [boot |-> boot, at |-> Now,
                                   expected |-> judged # NoRequest, request |-> judged])
          /\ UNCHANGED <<unrecorded, faults>>
       \/ /\ Fault("db")
          /\ unrecorded' = unrecorded \cup {boot}
          /\ UNCHANGED rows
    /\ UNCHANGED <<request, trigger, initFrame>>

\* scripts/update.sh restarts bbmon-init; every other unit Requires= it, so the
\* services and the path unit stop with it.  The pinger finishes its cycle on
\* SIGTERM; the web app is ended where it stands.
RerunInit ==
    /\ init \in {"done", "failed"} /\ reruns < MaxReruns
    /\ asker["scheduler"] \in {"off", "idle"} /\ service # "ordered"
    /\ init' = "clear"
    /\ asker' = [a \in Askers |-> "off"] /\ waited' = NotAsked
    /\ watch' = FALSE /\ noticed' = FALSE
    /\ reruns' = reruns + 1
    /\ UNCHANGED <<disk, boot, lag, judged, uptime, service, planned, unrecorded, triggered,
                   faults, presses>>
-----------------------------------------------------------------------------
(* The askers: request_reboot, and who calls it *)

askerFrame == <<rows, boot, lag, init, judged, uptime, watch, service, planned, unrecorded,
                reruns>>

StartAsker(a) ==
    /\ init = "done" /\ asker[a] = "off"
    /\ asker' = [asker EXCEPT ![a] = "idle"]
    /\ UNCHANGED <<request, trigger, noticed, waited, triggered, faults, presses, askerFrame>>

\* request_reboot's first write.  write_text opens the file, which truncates it,
\* and then writes: either may fail, and what stands then is not taken back.
WriteRequest(a) ==
    \/ /\ request' = [by |-> a, boot |-> boot, whole |-> TRUE]
       /\ asker' = [asker EXCEPT ![a] = "asking"]
       /\ UNCHANGED faults
    \/ /\ Fault("request")
       /\ request' \in {request, [by |-> a, boot |-> boot, whole |-> FALSE]}
       /\ UNCHANGED asker

\* The mutant of a _waiting_to_go_down that never gives up waiting.
WaitingForGood == waited # NotAsked

\* _waiting_to_go_down.
Waiting == waited < Retry

\* RebootScheduler.check: not waiting, and the interval has passed.
SchedulerCheck ==
    /\ asker["scheduler"] = "idle"
    /\ ~Waiting /\ uptime = Interval
    /\ WriteRequest("scheduler")
    /\ waited' = NotAsked
    /\ UNCHANGED <<trigger, noticed, triggered, presses, askerFrame>>

\* force_reboot.
PressButton ==
    /\ asker["button"] = "idle" /\ presses < MaxPresses
    /\ WriteRequest("button")
    /\ presses' = presses + 1
    /\ UNCHANGED <<trigger, noticed, waited, triggered, askerFrame>>

\* SystemdPathReboot.reboot, and check's last line when it succeeds.  A write
\* is noticed when the path unit is waiting for one.
WriteTrigger(a) ==
    /\ asker[a] = "asking"
    /\ \/ /\ trigger' = TRUE /\ triggered' = TRUE
          /\ asker' = [asker EXCEPT ![a] = "idle"]
          /\ waited' = IF a = "scheduler" THEN 0 ELSE waited
          /\ \/ noticed' = (noticed \/ (watch /\ service = "idle")) /\ UNCHANGED faults
             \/ Fault("event") /\ UNCHANGED noticed
       \/ /\ Fault("trigger")
          /\ asker' = [asker EXCEPT ![a] = "refused"]
          /\ UNCHANGED <<trigger, triggered, waited, noticed>>
    /\ UNCHANGED <<request, presses, askerFrame>>

\* The mutant that leaves the request of a refused reboot lying around.
RequestLeft(a) ==
    /\ asker[a] = "refused"
    /\ asker' = [asker EXCEPT ![a] = "idle"]
    /\ UNCHANGED <<request, faults, trigger, noticed, waited, triggered, presses, askerFrame>>

\* request_reboot takes the request back when the trigger was refused.
TakeBack(a) ==
    /\ asker[a] = "refused"
    /\ ClearRequest
    /\ asker' = [asker EXCEPT ![a] = "idle"]
    /\ UNCHANGED <<trigger, noticed, waited, triggered, presses, askerFrame>>

\* SIGHUP, between two cycles: pinger._run builds a new RebootScheduler, which
\* has asked for nothing.
ReloadPinger ==
    /\ asker["scheduler"] = "idle" /\ waited # NotAsked
    /\ waited' = NotAsked
    /\ UNCHANGED <<disk, boot, lag, init, judged, asker, uptime, units, planned, unrecorded,
                   triggered, bounds>>

Crash(a) ==
    /\ asker[a] # "off" /\ Fault("crash")
    /\ asker' = [asker EXCEPT ![a] = "off"]
    /\ waited' = IF a = "scheduler" THEN NotAsked ELSE waited
    /\ UNCHANGED <<request, trigger, noticed, triggered, presses, askerFrame>>
-----------------------------------------------------------------------------
(* bbmon-reboot.path and bbmon-reboot.service *)

unitFrame == <<request, rows, boot, lag, init, judged, askers, uptime, planned, unrecorded,
               triggered, presses, reruns>>

\* The mutant of a path unit that fires on a trigger that is merely present.
StartWatchPathExists ==
    /\ init = "done" /\ ~watch
    /\ watch' = TRUE /\ noticed' = trigger
    /\ UNCHANGED <<trigger, service, faults, unitFrame>>

\* PathModified=: a trigger that is already there does not fire.
StartWatch ==
    /\ init = "done" /\ ~watch
    /\ watch' = TRUE
    /\ UNCHANGED <<trigger, noticed, service, faults, unitFrame>>

PathFires ==
    /\ watch /\ noticed
    /\ noticed' = FALSE
    /\ service' = IF service = "idle" THEN "starting" ELSE service
    /\ UNCHANGED <<trigger, watch, faults, unitFrame>>

\* ExecStartPre=rm -f; its failure fails the unit before it reboots anything.
RemoveTrigger ==
    /\ service = "starting"
    /\ \/ trigger' = FALSE /\ service' = "rebooting" /\ UNCHANGED faults
       \/ Fault("unlink") /\ service' = "idle" /\ UNCHANGED trigger
    /\ UNCHANGED <<watch, noticed, unitFrame>>

\* ExecStart=systemctl --no-block reboot.
OrderReboot ==
    /\ service = "rebooting"
    /\ service' = "ordered"
    /\ UNCHANGED <<trigger, watch, noticed, faults, unitFrame>>
-----------------------------------------------------------------------------
InitUnit == InitFails \/ ClearTrigger \/ WaitForSync \/ RecordStartup \/ InsertRestart
RebootUnits == StartWatch \/ PathFires \/ RemoveTrigger \/ OrderReboot
Asking == \E a \in Askers : StartAsker(a) \/ WriteTrigger(a) \/ TakeBack(a)

Next ==
    \/ PowerCut \/ GoDown \/ Tick \/ ClockSynchronised
    \/ InitUnit \/ RerunInit \/ RebootUnits \/ Asking
    \/ SchedulerCheck \/ PressButton \/ ReloadPinger
    \/ \E a \in Askers : Crash(a)

\* systemd starts what it is asked to start, the ping loop comes round, and
\* time passes.  Nobody has to press the button, and no fault has to happen.
Fairness ==
    /\ WF_vars(Tick) /\ WF_vars(GoDown)
    /\ WF_vars(ClearTrigger) /\ WF_vars(WaitForSync)
    /\ WF_vars(RecordStartup) /\ WF_vars(InsertRestart)
    /\ WF_vars(StartWatch) /\ WF_vars(PathFires)
    /\ WF_vars(RemoveTrigger) /\ WF_vars(OrderReboot)
    /\ WF_vars(SchedulerCheck)
    /\ \A a \in Askers : WF_vars(StartAsker(a)) /\ WF_vars(WriteTrigger(a)) /\ WF_vars(TakeBack(a))

Spec == Init /\ [][Next]_vars
FairSpec == Spec /\ Fairness
-----------------------------------------------------------------------------
(* Properties *)

\* record_startup writes the restart "exactly once": however often bbmon-init is
\* run again in a boot, and whatever fails in it, no boot gets a second row.
OneRowPerBoot ==
    \A i, j \in DOMAIN rows : rows[i].boot = rows[j].boot => i = j

\* A boot whose bbmon-init is done with it, having met no error, has a row: the
\* comparison of clock readings never mistakes it for a boot already recorded.
EveryBootRecorded ==
    init = "done" /\ boot \notin unrecorded => \E i \in DOMAIN rows : rows[i].boot = boot

\* A reboot that bbmon-reboot.service carried out, if it is recorded at all, is
\* recorded as expected.
PlannedIsExpected ==
    \A i \in DOMAIN rows : rows[i].boot \in planned => rows[i].expected

\* "The next restart is judged on its own": a request is never held against a
\* boot once a row has been written for a boot in between, so one planned
\* reboot does not excuse the power cuts that follow it.
JudgedOnItsOwn ==
    \A i, j \in DOMAIN rows :
        rows[i].expected =>
            ~(rows[i].request.boot < rows[j].boot /\ rows[j].boot < rows[i].boot)

\* No boot loop: bbmon-reboot.service only ever runs in a boot in which an asker
\* wrote the trigger, whatever was left on the disk by the boots before.
NoUnaskedReboot == service # "idle" => triggered

\* A whole request that stands while nobody is asking was followed by a trigger
\* in this boot: one that was refused has been taken back, whichever asker wrote
\* it and whatever writes failed around it.  (Not so what a failed write leaves.)
StandingRequestWasTriggered ==
    /\ init = "done" /\ \A a \in Askers : asker[a] \in {"off", "idle"}
    /\ request.boot = boot /\ request.whole
    => triggered

\* "A request left lying around would make the next unexpected restart, whenever
\* it came, look like this planned one": no request of any kind is left.
NothingLeftLyingAround ==
    /\ init = "done" /\ \A a \in Askers : asker[a] \in {"off", "idle"}
    /\ request.boot = boot
    => triggered

\* A due reboot happens, although any one ask may be refused or noticed by nobody.
DueRebootHappens ==
    \A b \in 1..(MaxBoots - 1) : (boot = b /\ uptime = Interval) ~> boot = b + 1

\* deploy/systemd/bbmon-reboot.service: "The restarts row is written before this
\* unit is ever started".
RowWrittenBeforeReboot ==
    service # "idle" => \E i \in DOMAIN rows : rows[i].request.boot = boot
-----------------------------------------------------------------------------
(* Strengthenings of the properties above that every step preserves *)

\* While the wait for the clock never fails: bbmon-init judges with a right
\* clock, so a row carries its boot's time and comparing times compares boots.
RecordInv ==
    /\ init \in {"record", "insert"} => lag = 0
    /\ \A i \in DOMAIN rows : rows[i].boot <= boot /\ rows[i].at = 2 * rows[i].boot + 1
    /\ init = "insert" => \A i \in DOMAIN rows : rows[i].boot # boot
    /\ OneRowPerBoot
    /\ EveryBootRecorded

\* While a request can always be read and deleted: no row is newer than the
\* request that stands, or than the one bbmon-init has in its hands.
RequestInv ==
    /\ init # "done" => \A a \in Askers : asker[a] = "off"
    /\ request.boot <= boot
    /\ \A i \in DOMAIN rows : rows[i].boot <= boot
    /\ request # NoRequest => \A i \in DOMAIN rows : rows[i].boot <= request.boot
    /\ init = "insert" => request = NoRequest
    /\ judged # NoRequest =>
         init = "insert" /\ \A i \in DOMAIN rows : rows[i].boot <= judged.boot
    /\ JudgedOnItsOwn

\* Whatever the trigger's past, what the path unit acts on was written in this boot.
TriggerInv ==
    /\ noticed => triggered
    /\ NoUnaskedReboot

\* While the trigger can be written, the request read, and no update re-runs
\* bbmon-init under a reboot: from the ask until the next boot has judged it, a
\* reboot on its way has a request behind it.
PlannedInv ==
    /\ watch => init = "done"
    /\ init # "done" => service = "idle" /\ ~noticed /\ \A a \in Askers : asker[a] = "off"
    /\ \A a \in Askers : asker[a] # "refused" /\ (asker[a] = "asking" => request # NoRequest)
    /\ noticed \/ service # "idle" => request # NoRequest
    /\ \A b \in planned : b <= boot
    /\ \A i \in DOMAIN rows : rows[i].boot <= boot
    /\ boot \in planned /\ init \in {"clear", "sync", "record"} => request # NoRequest
    /\ boot \in planned /\ init = "insert" => judged # NoRequest
    /\ PlannedIsExpected

\* While a refused request can be taken back and bbmon-init clears what it finds:
\* an untriggered whole request of this boot is in the hands of an asker.
StandingInv ==
    /\ init # "done" => \A a \in Askers : asker[a] = "off"
    /\ init = "insert" => request = NoRequest
    /\ request.boot <= boot
    /\ init = "done" /\ request.boot = boot /\ request.whole /\ ~triggered
         => \E a \in Askers : asker[a] \in {"asking", "refused"}
=============================================================================
