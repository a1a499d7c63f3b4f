-------------------------- MODULE CollectorService --------------------------
(***************************************************************************)
(* One collector process of bbmon: the loop of bbmon/service.py that       *)
(* measures, buffers and writes, the signals that stop and reload it, the  *)
(* main of bbmon/pinger.py that rebuilds it on a reload, and systemd,      *)
(* which starts it again when it fails.                                    *)
(*                                                                         *)
(* `pc' names the next thing the process does, so a signal or a kill may   *)
(* come between any two of them.  Signal handlers of Python run between    *)
(* bytecodes of the one thread, so handling a signal is one step.          *)
(*                                                                         *)
(* Data.  A result is its number in the order of measuring.  The           *)
(* configuration is the version of the file last read.  Time is counted in *)
(* collection intervals since the last flush, up to FlushEvery.            *)
(***************************************************************************)
EXTENDS Naturals, Sequences, SequencesExt

CONSTANTS
    Cap,          \* max_buffered_results
    Batch,        \* most results one cycle measures
    FlushEvery,   \* flush_interval_seconds, in collection intervals
    FaultKinds,   \* which faults this instance has, a subset of Faults
    MaxResults,   \* bound: results measured
    MaxFaults,    \* bound: faults in one behaviour
    MaxVersions,  \* bound: versions of the configuration file
    MaxStops      \* bound: SIGTERMs in one behaviour

\* Each is an error path of the code, or the end of the process:
\*   write      store raises DatabaseError
\*   pragma     connect raises sqlite3.Error, which is not a DatabaseError
\*   collector  collect raises CollectorError
\*   load       main cannot load its configuration or its database
\*   kill       the process is killed: out of memory, SIGKILL, power
Faults == {"write", "pragma", "collector", "load", "kill"}

ASSUME CollectorAssumption ==
    /\ Cap \in Nat \ {0} /\ Batch \in Nat \ {0} /\ FlushEvery \in Nat
    /\ FaultKinds \subseteq Faults
    /\ MaxResults \in Nat /\ MaxFaults \in Nat /\ MaxVersions \in Nat \ {0} /\ MaxStops \in Nat

VARIABLES
    pc,          \* what the process does next, or how it ended
    handles,     \* whether the process has installed its signal handlers
    stop, reload,\* ServiceRequests
    wake,        \* this run's event
    buffer,      \* results measured and not written
    sinceFlush,  \* intervals since the last flush
    table,       \* results in the database, in the order written
    file,        \* version of the configuration file
    conf,        \* version the process last read
    hup,         \* a SIGHUP systemd has yet to send
    \* history
    measured,    \* results measured so far
    signalled,   \* file version when the last handled SIGHUP arrived
    discarded,   \* results given up by a process that went on to reload
    \* bounds
    faults, stops

loopVars == <<buffer, sinceFlush, table, measured>>
signalVars == <<handles, stop, reload, wake>>
confVars == <<file, conf, hup, signalled>>
vars == <<pc, handles, stop, reload, wake, buffer, sinceFlush, table, file, conf, hup,
          measured, signalled, discarded, faults, stops>>

Building == {"install", "honour"}
Looping == {"check", "collect", "due", "between", "sleep"}
Ending == {"exit", "exit_failed", "exit_raised"}
Gone == {"dead", "stopped", "hungup"}

TypeOK ==
    /\ pc \in {"load", "returned", "failed", "reread"} \cup Building \cup Looping \cup Ending \cup Gone
    /\ handles \in BOOLEAN /\ stop \in BOOLEAN /\ reload \in BOOLEAN /\ wake \in BOOLEAN
    /\ buffer \in Seq(1..measured) /\ Len(buffer) <= Cap
    /\ table \in Seq(1..measured)
    /\ sinceFlush \in 0..FlushEvery
    /\ file \in 1..MaxVersions /\ conf \in 0..file /\ signalled \in 0..file
    /\ hup \in BOOLEAN
    /\ measured \in 0..MaxResults
    /\ discarded \subseteq 1..measured
    /\ faults \in 0..MaxFaults /\ stops \in 0..MaxStops

Init ==
    /\ pc = "load" /\ handles = FALSE /\ stop = FALSE /\ reload = FALSE /\ wake = FALSE
    /\ buffer = <<>> /\ sinceFlush = FlushEvery /\ table = <<>>
    /\ file = 1 /\ conf = 0 /\ hup = FALSE
    /\ measured = 0 /\ signalled = 0 /\ discarded = {}
    /\ faults = 0 /\ stops = 0

Fault(kind) == kind \in FaultKinds /\ faults < MaxFaults /\ faults' = faults + 1

\* The process ends and takes its memory with it.
End(how) ==
    /\ pc' = how
    /\ handles' = FALSE /\ stop' = FALSE /\ reload' = FALSE /\ wake' = FALSE
    /\ buffer' = <<>>

\* systemd restarts what failed, except while it is being stopped.
HowItEnds == IF stop THEN "stopped" ELSE "dead"
-----------------------------------------------------------------------------
(* pinger.main *)

\* Everything before the first run: the configuration and the database.
Load ==
    /\ pc = "load"
    /\ \/ pc' = "install" /\ conf' = file /\ UNCHANGED <<signalVars, buffer, faults>>
       \/ Fault("load") /\ End("dead") /\ UNCHANGED conf
    /\ UNCHANGED <<sinceFlush, table, file, hup, measured, signalled, discarded, stops>>

\* reloaded: the file is read, whether or not it is then taken.
Reread ==
    /\ pc = "reread"
    /\ pc' = "install" /\ conf' = file
    /\ UNCHANGED <<signalVars, loopVars, file, hup, signalled, discarded, faults, stops>>

\* _run has returned: without a reload main returns, and with one it goes round.
Returned ==
    /\ pc \in {"returned", "failed"}
    /\ \/ /\ ~reload
          /\ End(IF pc = "returned" THEN "stopped" ELSE HowItEnds)
          /\ UNCHANGED discarded
       \/ /\ reload
          /\ reload' = FALSE
          /\ pc' = "reread"
          /\ buffer' = <<>> /\ discarded' = discarded \cup ToSet(buffer)
          /\ UNCHANGED <<handles, stop, wake>>
    /\ UNCHANGED <<sinceFlush, table, measured, confVars, faults, stops>>
-----------------------------------------------------------------------------
(* run_until_stopped *)

\* The mutant of a run that begins with its requests cleared.
InstallForgets ==
    /\ pc = "install"
    /\ pc' = "honour"
    /\ handles' = TRUE /\ wake' = FALSE /\ stop' = FALSE /\ reload' = FALSE
    /\ UNCHANGED <<loopVars, confVars, discarded, faults, stops>>

Install ==
    /\ pc = "install"
    /\ pc' = "honour"
    /\ handles' = TRUE /\ wake' = FALSE
    /\ UNCHANGED <<stop, reload, loopVars, confVars, discarded, faults, stops>>

\* The mutant without the check for a request made since the previous run ended.
HonourNothing ==
    /\ pc = "honour"
    /\ pc' = "check"
    /\ sinceFlush' = FlushEvery
    /\ UNCHANGED <<signalVars, buffer, table, measured, confVars, discarded, faults, stops>>

\* A request made before these handlers were installed wakes this run too.  The
\* new loop's last flush is backdated by a full interval.
Honour ==
    /\ pc = "honour"
    /\ pc' = "check"
    /\ wake' = (wake \/ stop \/ reload)
    /\ sinceFlush' = FlushEvery
    /\ UNCHANGED <<handles, stop, reload, buffer, table, measured, confVars,
                   discarded, faults, stops>>

\* should_continue.
Check ==
    /\ pc = "check"
    /\ pc' = IF wake THEN "exit" ELSE "collect"
    /\ UNCHANGED <<signalVars, loopVars, confVars, discarded, faults, stops>>
-----------------------------------------------------------------------------
(* CollectorService *)

\* The mutant whose buffer grows for as long as writes fail.
KeepAll(s) == s

\* The end of _collect_once.
KeepNewest(s) == IF Len(s) <= Cap THEN s ELSE SubSeq(s, Len(s) - Cap + 1, Len(s))

Collect ==
    /\ pc = "collect"
    /\ \/ \E k \in 0..Batch :
            /\ measured + k <= MaxResults
            /\ buffer' = KeepNewest(buffer \o [i \in 1..k |-> measured + i])
            /\ measured' = measured + k
            /\ pc' = "due"
            /\ UNCHANGED faults
       \/ Fault("collector") /\ pc' = "exit_failed" /\ UNCHANGED <<buffer, measured>>
    /\ UNCHANGED <<sinceFlush, table, signalVars, confVars, discarded, stops>>

\* The mutant that writes the buffer and forgets to empty it.
FlushKeeps ==
    \/ buffer = <<>> /\ UNCHANGED <<buffer, table, faults>>
    \/ buffer # <<>> /\ table' = table \o buffer /\ UNCHANGED <<buffer, faults>>
    \/ buffer # <<>> /\ Fault("write") /\ UNCHANGED <<buffer, table>>

\* _flush, when it returns: nothing to write, written, or kept for the next one.
Flush ==
    \/ buffer = <<>> /\ UNCHANGED <<buffer, table, faults>>
    \/ buffer # <<>> /\ table' = table \o buffer /\ buffer' = <<>> /\ UNCHANGED faults
    \/ buffer # <<>> /\ Fault("write") /\ UNCHANGED <<buffer, table>>

\* _flush, when connect's pragma raises past it.
FlushRaises == buffer # <<>> /\ Fault("pragma") /\ UNCHANGED <<buffer, table>>

\* The mutant that counts the interval from the last cycle, not the last flush.
FlushDueForgetsTime ==
    /\ pc = "due"
    /\ \/ /\ sinceFlush < FlushEvery
          /\ pc' = "between" /\ sinceFlush' = 0 /\ UNCHANGED <<buffer, table, faults>>
       \/ sinceFlush = FlushEvery /\ Flush /\ pc' = "between" /\ sinceFlush' = 0
       \/ /\ sinceFlush = FlushEvery
          /\ FlushRaises /\ pc' = "exit_raised" /\ UNCHANGED sinceFlush
    /\ UNCHANGED <<measured, signalVars, confVars, discarded, stops>>

\* The flush of a cycle, when the flush interval has passed.
FlushDue ==
    /\ pc = "due"
    /\ \/ /\ sinceFlush < FlushEvery
          /\ pc' = "between" /\ UNCHANGED <<buffer, table, sinceFlush, faults>>
       \/ sinceFlush = FlushEvery /\ Flush /\ pc' = "between" /\ sinceFlush' = 0
       \/ /\ sinceFlush = FlushEvery
          /\ FlushRaises /\ pc' = "exit_raised" /\ UNCHANGED sinceFlush
    /\ UNCHANGED <<measured, signalVars, confVars, discarded, stops>>

\* The purge of old rows: due or not, done or failed, it leaves the loop's state
\* alone, and its connect can raise past it as _flush's can.
Purge ==
    \/ pc' = "sleep" /\ UNCHANGED faults
    \/ Fault("pragma") /\ pc' = "exit_raised"

\* between_cycles: the purge, and the reboot check, which raises nothing.
Between ==
    /\ pc = "between"
    /\ Purge
    /\ UNCHANGED <<loopVars, signalVars, confVars, discarded, stops>>

\* wake.wait(interval): ended by the event, or by the interval.
Sleep ==
    /\ pc = "sleep"
    /\ pc' = "check"
    /\ sinceFlush' = IF wake \/ sinceFlush = FlushEvery THEN sinceFlush ELSE sinceFlush + 1
    /\ UNCHANGED <<buffer, table, measured, signalVars, confVars, discarded, faults,
                   stops>>

\* A flush on the way out that does not return: the process ends with it.
FlushAndEnd ==
    /\ End(HowItEnds)
    /\ \/ pc = "exit_raised" /\ table' = table \o buffer /\ UNCHANGED faults
       \/ pc = "exit_raised" /\ buffer # <<>> /\ Fault("write") /\ UNCHANGED table
       \/ buffer # <<>> /\ Fault("pragma") /\ UNCHANGED table

\* The mutant of a loop that does not write what it holds on the way out.
FlushOnExitSkipped ==
    /\ pc \in Ending
    /\ \/ pc = "exit" /\ pc' = "returned" /\ UNCHANGED <<signalVars, buffer>>
       \/ pc = "exit_failed" /\ pc' = "failed" /\ UNCHANGED <<signalVars, buffer>>
       \/ pc = "exit_raised" /\ End(HowItEnds)
    /\ UNCHANGED <<table, faults, sinceFlush, measured, confVars, discarded, stops>>

\* The finally of run, and what run_until_stopped makes of how it was left.
FlushOnExit ==
    /\ pc \in Ending
    /\ \/ pc = "exit" /\ Flush /\ pc' = "returned" /\ UNCHANGED signalVars
       \/ pc = "exit_failed" /\ Flush /\ pc' = "failed" /\ UNCHANGED signalVars
       \/ FlushAndEnd
    /\ UNCHANGED <<sinceFlush, measured, confVars, discarded, stops>>
-----------------------------------------------------------------------------
(* Signals, and systemd *)

\* SIGTERM.  Before the handlers are there it simply ends the process.
Term ==
    /\ pc \notin Gone /\ stops < MaxStops
    /\ stops' = stops + 1
    /\ \/ handles /\ stop' = TRUE /\ wake' = TRUE /\ UNCHANGED <<pc, handles, reload, buffer>>
       \/ ~handles /\ End("stopped")
    /\ UNCHANGED <<sinceFlush, table, measured, confVars, discarded, faults>>

\* bbmon-config.service installs a new file, and then has systemd reload the unit.
InstallConfig ==
    /\ file < MaxVersions
    /\ file' = file + 1 /\ hup' = TRUE
    /\ UNCHANGED <<pc, signalVars, loopVars, conf, signalled, discarded, faults, stops>>

\* SIGHUP.  The unit is Type=simple, so systemd may send it before the handlers
\* are there: it then ends the process, and systemd takes that for a clean end.
Hup ==
    /\ hup /\ hup' = FALSE
    /\ pc \notin Gone
    /\ \/ /\ handles
          /\ reload' = TRUE /\ wake' = TRUE /\ signalled' = file
          /\ UNCHANGED <<pc, handles, stop, buffer>>
       \/ ~handles /\ End("hungup") /\ UNCHANGED signalled
    /\ UNCHANGED <<sinceFlush, table, measured, file, conf, discarded, faults, stops>>

\* try-reload-or-restart leaves a unit that is not running alone.
HupSkipped ==
    /\ hup /\ hup' = FALSE
    /\ pc \in Gone
    /\ UNCHANGED <<pc, signalVars, loopVars, file, conf, signalled, discarded, faults, stops>>

Kill ==
    /\ pc \notin Gone /\ Fault("kill")
    /\ End(HowItEnds)
    /\ UNCHANGED <<sinceFlush, table, measured, confVars, discarded, stops>>

\* Restart=on-failure.
Restart ==
    /\ pc = "dead"
    /\ pc' = "load"
    /\ UNCHANGED <<signalVars, loopVars, confVars, discarded, faults, stops>>

\* A unit that was stopped is started again by whoever stopped it.
Start ==
    /\ pc \in {"stopped", "hungup"}
    /\ pc' = "load"
    /\ UNCHANGED <<signalVars, loopVars, confVars, discarded, faults, stops>>
-----------------------------------------------------------------------------
Process ==
    \/ Load \/ Reread \/ Returned \/ Install \/ Honour \/ Check
    \/ Collect \/ FlushDue \/ Between \/ Sleep \/ FlushOnExit

Next ==
    \/ Process \/ Restart \/ Start
    \/ Term \/ InstallConfig \/ Hup \/ HupSkipped \/ Kill

\* A process that can run does, a failed one is started again, and a SIGHUP that
\* systemd has been asked to send is sent.
Fairness == WF_vars(Process) /\ WF_vars(Restart) /\ WF_vars(Hup)

Spec == Init /\ [][Next]_vars /\ Fairness
-----------------------------------------------------------------------------
(* Properties *)

\* The loop, its buffer and the database keep what ResultLog promises.
Log == INSTANCE ResultLog WITH waiting <- buffer, stored <- table
KeepsLog == Log!Spec

\* As long as nothing fails, every result measured is in the database or still
\* in the buffer, whatever stops and reloads come and wherever they come: the
\* final flush of each run, and a buffer that holds what one interval measures.
NothingLostWithoutFault ==
    faults = 0 => \A n \in 1..measured : n \in ToSet(table) \cup ToSet(buffer)

\* A loop that has been asked to stop or to reload is awake, so neither waits
\* out an interval that for the speed test is hours; that includes a request
\* that came between two runs.
RequestsWake == pc \in Looping /\ (stop \/ reload) => wake

\* The file is read again after the last SIGHUP, or is about to be: a SIGHUP
\* that comes while the file is being reread is not lost.
ReloadsAreAnswered == handles => conf >= signalled \/ reload \/ pc = "reread"

\* No signal is lost, whenever it comes.
SignalsAreHeard == RequestsWake /\ ReloadsAreAnswered

\* SIGTERM ends the process, also when a reload was asked for as well.
StopEnds == stop ~> pc \in Gone

\* A result does not stay in the buffer for good.
ResultsLeaveTheBuffer ==
    \A n \in 1..MaxResults : n \in ToSet(buffer) ~> n \notin ToSet(buffer)

\* bbmon/service.py on a write that failed: "Retained rather than dropped: the
\* next flush retries them".
ReloadKeepsResults == discarded = {}

\* bbmon/service.py's _flush is "keeping it intact if the write fails", and
\* between_cycles "must not raise".
WritesNeverRaise == pc # "exit_raised"

\* bbmon-pinger.service on its ExecReload: an edit from the admin page takes effect
\* "without anything being restarted", and so without anything ending.
ReloadEndsNothing == pc # "hungup"
-----------------------------------------------------------------------------
(* Strengthenings of the properties above that every step preserves *)

\* The buffer holds what one flush interval can measure, and one cycle at least.
CapHoldsAnInterval == Batch <= Cap /\ Batch * FlushEvery <= Cap

\* There is room for another cycle before the next flush is due.
RoomForACycle ==
    /\ sinceFlush > 0 \/ FlushEvery = 0
    /\ buffer = <<>> \/ Len(buffer) + Batch <= Batch * sinceFlush

\* As long as nothing fails: no more waits than was measured since the last
\* flush, and nothing waits once the loop has been left.
RoomInv ==
    faults = 0 =>
      /\ \A n \in 1..measured : n \in ToSet(table) \cup ToSet(buffer)
      /\ ~handles => pc \in {"load", "install"} \cup Gone
      /\ pc \notin Looping \cup {"exit"} => buffer = <<>>
      /\ pc = "check" => wake \/ RoomForACycle
      /\ pc = "collect" => RoomForACycle
      /\ pc = "due" => Len(buffer) <= Batch * sinceFlush \/ sinceFlush = FlushEvery
      /\ pc \in {"between", "sleep"} =>
           /\ Len(buffer) <= Batch * sinceFlush
           /\ sinceFlush < FlushEvery \/ FlushEvery = 0
=============================================================================
