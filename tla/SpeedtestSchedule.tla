-------------------------- MODULE SpeedtestSchedule --------------------------
(***************************************************************************)
(* When a speed test runs: bbmon/speedtest.py, the loop it runs in, the    *)
(* test it leaves out before a reboot, and the scheduled reboot itself,    *)
(* which the ping service carries out.  The two services share nothing but *)
(* the configuration file, which each reads again at its own time, and the *)
(* machine's uptime.                                                       *)
(*                                                                         *)
(* Time is counted in minutes; the steps between two waits take none, and  *)
(* neither does being started again by systemd.                            *)
(* `left' is what remains of the wait the service is in.                   *)
(***************************************************************************)
EXTENDS Integers, FiniteSetsExt

CONSTANTS
    TestIntervals,   \* values of speedtest.interval_hours, in minutes
    RebootIntervals, \* values of reboot.interval_days, in minutes
    SkipBefore,      \* SKIP_BEFORE_REBOOT_SECONDS
    MaxTest,         \* TIMEOUT_SECONDS, after which a test is killed
    StopTimeout,     \* TimeoutStopSec of bbmon-speedtest.service
    RebootWorks,     \* whether asking for a reboot reboots the machine
    MaxEdits,        \* bound: saves of the configuration
    MaxFaults        \* bound: stops, kills, power cuts and unreadable uptimes

ASSUME ScheduleAssumption ==
    /\ TestIntervals \subseteq Nat \ {0} /\ \E m \in TestIntervals : \A t \in TestIntervals : m >= t
    /\ RebootIntervals \subseteq Nat /\ RebootIntervals # {}
    /\ SkipBefore \in Nat /\ MaxTest \in Nat \ {0} /\ StopTimeout \in Nat \ {0}
    /\ MaxTest <= SkipBefore
    /\ \A r \in RebootIntervals : SkipBefore < r
    /\ RebootWorks \in BOOLEAN
    /\ MaxEdits \in Nat /\ MaxFaults \in Nat

Settings == [test : TestIntervals, reboot : RebootIntervals]

VARIABLES
    pc,         \* what the service is doing
    left,       \* what remains of the wait it is in, or of the test's time limit
    sinceEnded, \* time since SpeedtestSchedule._last_ended, or NeverEnded
    conf,       \* the configuration the service runs on
    stop, reload, \* ServiceRequests
    stopping,   \* what remains of TimeoutStopSec
    uptime,     \* of the machine
    pinger,     \* the reboot interval the ping service runs on
    file,       \* the configuration file
    unread,     \* services that have yet to be sent the SIGHUP for it
    \* history
    sure,       \* whether the uptime could be read when the last test started
    cut,        \* what has cut a test short
    \* bounds
    edits, faults

vars == <<pc, left, sinceEnded, conf, stop, reload, stopping, uptime, pinger, file, unread,
          sure, cut, edits, faults>>
requests == <<stop, reload, stopping>>
settings == <<conf, pinger, file, unread>>

MaxInterval == Max(TestIntervals)
MaxUptime == Max(RebootIntervals)
NeverEnded == MaxInterval + 1

TypeOK ==
    /\ pc \in {"off", "build", "first", "check", "collect", "testing", "ended", "sleep"}
    /\ left \in 0..Max({MaxInterval, MaxTest})
    /\ sinceEnded \in 0..NeverEnded
    /\ conf \in Settings /\ file \in Settings /\ pinger \in RebootIntervals
    /\ stop \in BOOLEAN /\ reload \in BOOLEAN /\ sure \in BOOLEAN
    /\ stopping \in 0..StopTimeout
    /\ uptime \in 0..MaxUptime
    /\ unread \subseteq {"speedtest", "pinger"}
    /\ cut \subseteq {"reboot", "changed", "unsure", "stop", "fault"}
    /\ edits \in 0..MaxEdits /\ faults \in 0..MaxFaults

Init ==
    /\ pc = "off" /\ left = 0 /\ sinceEnded = NeverEnded
    /\ file \in Settings /\ conf = file /\ pinger = file.reboot /\ unread = {}
    /\ stop = FALSE /\ reload = FALSE /\ stopping = 0
    /\ uptime = 0 /\ sure = TRUE /\ cut = {} /\ edits = 0 /\ faults = 0

Fault == faults < MaxFaults /\ faults' = faults + 1

\* A request that wakes the loop.
Awake == stop \/ reload

Waiting == pc \in {"first", "sleep"} /\ left > 0 /\ ~Awake
Stopping == stop /\ pc = "testing"

\* A minute passes, while the service waits or tests.
Tick ==
    /\ Waiting \/ (pc = "testing" /\ left > 0)
    /\ Stopping => stopping > 0
    /\ uptime' = IF uptime < MaxUptime THEN uptime + 1 ELSE uptime
    /\ left' = left - 1
    /\ stopping' = IF Stopping THEN stopping - 1 ELSE stopping
    /\ sinceEnded' = IF sinceEnded < MaxInterval THEN sinceEnded + 1 ELSE sinceEnded
    /\ UNCHANGED <<pc, settings, stop, reload, sure, cut, edits, faults>>
-----------------------------------------------------------------------------
(* The speed test service *)

frame == <<uptime, settings, edits>>

\* The process goes; what it had of a test goes with it.
Gone(cause) ==
    /\ pc' = "off" /\ left' = 0 /\ sinceEnded' = NeverEnded
    /\ stop' = FALSE /\ reload' = FALSE /\ stopping' = 0 /\ sure' = TRUE
    /\ cut' = IF pc = "testing" THEN cut \cup {cause} ELSE cut

\* main, up to the first run, with a new SpeedtestSchedule.
Start ==
    /\ pc = "off"
    /\ pc' = "build"
    /\ conf' = file /\ unread' = unread \ {"speedtest"}
    /\ UNCHANGED <<left, sinceEnded, requests, uptime, pinger, file, sure, cut, edits, faults>>

\* The mutant that takes a reload for a startup.
SecondsUntilDueNow == 0

\* SpeedtestSchedule.seconds_until_due.
SecondsUntilDue ==
    IF sinceEnded = NeverEnded \/ sinceEnded >= conf.test THEN 0 ELSE conf.test - sinceEnded

\* _run, as far as the first wait.
Build ==
    /\ pc = "build"
    /\ pc' = "first" /\ left' = SecondsUntilDue
    /\ UNCHANGED <<sinceEnded, requests, sure, cut, faults, frame>>

\* A wait ends when its time is up, or at a stop or a reload.
WaitEnds ==
    /\ pc \in {"first", "sleep"}
    /\ left = 0 \/ Awake
    /\ pc' = "check" /\ left' = 0
    /\ UNCHANGED <<sinceEnded, requests, sure, cut, faults, frame>>

\* The mutant of a main that never clears the reload it has answered.
CheckKeepsReload ==
    /\ pc = "check"
    /\ \/ ~Awake /\ pc' = "collect" /\ UNCHANGED <<left, sinceEnded, requests, sure, cut, conf>>
       \/ ~reload /\ stop /\ Gone("stop") /\ UNCHANGED conf
       \/ /\ reload
          /\ pc' = "build" /\ conf' = file
          /\ UNCHANGED <<left, sinceEnded, requests, sure, cut>>
    /\ UNCHANGED <<uptime, pinger, file, unread, edits, faults>>

\* should_continue: on to the next test, or back to main, which returns or
\* reads the file again.
Check ==
    /\ pc = "check"
    /\ \/ ~Awake /\ pc' = "collect" /\ UNCHANGED <<left, sinceEnded, requests, sure, cut, conf>>
       \/ ~reload /\ stop /\ Gone("stop") /\ UNCHANGED conf
       \/ /\ reload
          /\ pc' = "build" /\ reload' = FALSE /\ conf' = file
          /\ UNCHANGED <<left, sinceEnded, stop, stopping, sure, cut>>
    /\ UNCHANGED <<uptime, pinger, file, unread, edits, faults>>

\* The mutant that leaves no room between the end of the slowest test and the reboot.
ImminentStrictly == conf.reboot - uptime < MaxTest

\* reboot_is_imminent; a reboot that is overdue is due in no time.
Imminent == Max({conf.reboot - uptime, 0}) <= SkipBefore

\* SpeedtestCollector.collect: leave the test out, or start it.  An uptime that
\* cannot be read leaves nothing out.
Collect ==
    /\ pc = "collect"
    /\ \/ Imminent /\ pc' = "ended" /\ UNCHANGED <<left, sure, faults>>
       \/ ~Imminent /\ pc' = "testing" /\ left' = MaxTest /\ sure' = TRUE /\ UNCHANGED faults
       \/ Fault /\ pc' = "testing" /\ left' = MaxTest /\ sure' = FALSE
    /\ UNCHANGED <<sinceEnded, requests, cut, frame>>

\* The test finishes, or is killed at its time limit; either way there is a row.
TestEnds ==
    /\ pc = "testing"
    /\ pc' = "ended" /\ left' = 0
    /\ UNCHANGED <<sinceEnded, requests, sure, cut, faults, frame>>

\* cycle_ended, and the loop goes to sleep.
CycleEnded ==
    /\ pc = "ended"
    /\ pc' = "sleep" /\ left' = conf.test /\ sinceEnded' = 0
    /\ UNCHANGED <<requests, sure, cut, faults, frame>>
-----------------------------------------------------------------------------
(* systemd and the machine *)

\* systemctl stop: SIGTERM to every process of the unit, so the running Ookla
\* client may end with the signal, which is a failed test.
Stop ==
    /\ pc # "off" /\ ~stop /\ Fault
    /\ stop' = TRUE /\ stopping' = StopTimeout
    /\ \/ UNCHANGED <<pc, left, cut>>
       \/ pc = "testing" /\ pc' = "ended" /\ left' = 0 /\ cut' = cut \cup {"stop"}
    /\ UNCHANGED <<sinceEnded, reload, sure, frame>>

\* TimeoutStopSec has passed, and systemd kills what is still there.
StopTimesOut ==
    /\ Stopping /\ stopping = 0
    /\ Gone("stop")
    /\ UNCHANGED <<faults, frame>>

Kill ==
    /\ pc # "off" /\ Fault
    /\ Gone("fault")
    /\ UNCHANGED frame

\* The machine comes up again, and every service reads the file.
Boot(cause) ==
    /\ Gone(cause)
    /\ uptime' = 0
    /\ conf' = file /\ pinger' = file.reboot /\ unread' = {}
    /\ UNCHANGED <<file, edits>>

PowerCut == Fault /\ Boot("fault")

\* A scheduled reboot: RebootScheduler.check, on the interval the ping service has.
Reboot ==
    /\ RebootWorks
    /\ uptime >= pinger
    /\ Boot(IF ~sure THEN "unsure" ELSE IF pinger # conf.reboot THEN "changed" ELSE "reboot")
    /\ UNCHANGED faults

\* A save from the admin page, installed.
Edit ==
    /\ edits < MaxEdits /\ edits' = edits + 1
    /\ file' \in Settings \ {file}
    /\ unread' = {"speedtest", "pinger"}
    /\ UNCHANGED <<pc, left, sinceEnded, requests, uptime, conf, pinger, sure, cut, faults>>

\* SIGHUP to this service; a service that is down gets none.
Hup ==
    /\ "speedtest" \in unread /\ unread' = unread \ {"speedtest"}
    /\ reload' = (pc # "off")
    /\ UNCHANGED <<pc, left, sinceEnded, stop, stopping, uptime, conf, pinger, file, sure, cut,
                   edits, faults>>

\* SIGHUP to the ping service, whose cycles are short.
PingerReloads ==
    /\ "pinger" \in unread /\ unread' = unread \ {"pinger"}
    /\ pinger' = file.reboot
    /\ UNCHANGED <<pc, left, sinceEnded, requests, uptime, conf, file, sure, cut, edits, faults>>
-----------------------------------------------------------------------------
Service == Build \/ WaitEnds \/ Check \/ Collect \/ CycleEnded

Next ==
    \/ Tick \/ Start \/ Service \/ TestEnds
    \/ Stop \/ StopTimesOut \/ Kill \/ PowerCut \/ Reboot \/ Edit \/ Hup \/ PingerReloads

\* Time passes, the service runs and is started, a test comes to its end, a
\* pending SIGHUP arrives, and a reboot that is due is carried out.
Fairness ==
    /\ WF_vars(Tick) /\ WF_vars(Start) /\ WF_vars(Service) /\ WF_vars(TestEnds)
    /\ WF_vars(StopTimesOut) /\ WF_vars(Reboot) /\ WF_vars(Hup) /\ WF_vars(PingerReloads)

Spec == Init /\ [][Next]_vars /\ Fairness
-----------------------------------------------------------------------------
(* Properties *)

\* "Skips if a reboot is imminently due, to avoid the two overlapping": a
\* scheduled reboot cuts no test short, unless the reboot interval was changed
\* while the test ran or the uptime could not be read.
RebootSparesTests == "reboot" \notin cut

\* However often the service is reloaded in between, the wait for the next test
\* is what remains of the interval as it now reads: no reload puts a test off.
WaitsOutTheInterval ==
    pc \in {"first", "sleep"} /\ left > 0 => sinceEnded + left = conf.test

\* Nor does one bring it forward: within one process two tests are never closer
\* than the interval between them.
TestsKeepTheirDistance ==
    pc = "collect" /\ pc' = "testing" /\ sinceEnded # NeverEnded => sinceEnded >= conf.test

TestsKeepTheInterval == [][WaitsOutTheInterval /\ TestsKeepTheirDistance]_vars

\* The tests go on: one that is left out for a reboot is made up for after it.
TestsGoOn == []<>(pc = "testing")

\* deploy/systemd/bbmon-speedtest.service: "Stopping the service should not mean
\* killing a test partway through."
StopFinishesTest == "stop" \notin cut
-----------------------------------------------------------------------------
(* Strengthenings of the properties above that every step preserves *)

\* The next test may start.
TestIsDue == sinceEnded = NeverEnded \/ sinceEnded >= conf.test

\* A test that began with the reboot's time known ends before it.
TestFitsBeforeReboot == pc = "testing" /\ sure => uptime + left < conf.reboot

\* From the end of a wait to the next test the interval has passed, or a request
\* has ended the wait and goes before the test.
ScheduleInv ==
    /\ conf \in Settings /\ file \in Settings
    /\ uptime \in Nat /\ left \in Nat /\ sinceEnded \in 0..NeverEnded
    /\ TestFitsBeforeReboot /\ RebootSparesTests
    /\ WaitsOutTheInterval
    /\ pc \in {"first", "sleep"} /\ left = 0 => TestIsDue
    /\ pc = "check" => Awake \/ TestIsDue
    /\ pc = "collect" => TestIsDue
=============================================================================
