------------------------------ MODULE Retention ------------------------------
(***************************************************************************)
(* Which pings are kept: bbmon/retention.py, called once a cycle by the    *)
(* ping loop, with a window that reloads change, on a machine whose wall   *)
(* clock is behind after a boot until it is set.                           *)
(*                                                                         *)
(* Time is counted in cycles.  It is kept as ages, so it is unbounded: a   *)
(* row is the true time that has passed since the instant its timestamp    *)
(* names, up to MaxAge.  A row stamped by a clock `lag' behind is that old *)
(* from the start.  Rows of the same timestamp are one.                    *)
(***************************************************************************)
EXTENDS Integers, FiniteSetsExt

CONSTANTS
    Windows,   \* values of retention.ping_days, in cycles
    Reach,     \* how many cycles ago datetime's first day was
    Interval,  \* PURGE_INTERVAL_SECONDS, in cycles
    MaxLag,    \* how far the clock may be behind
    MaxFaults  \* bound: purges that fail, stops, reboots, saves, other reloads

RetentionAssumption ==
    /\ Windows \subseteq Nat \ {0} /\ IsFiniteSet(Windows) /\ Windows # {}
    /\ Reach \in Nat /\ \E w \in Windows : w <= Reach
    /\ Interval \in Nat \ {0}
    /\ MaxLag \in Nat /\ MaxFaults \in Nat

VARIABLES
    pc,         \* what the ping loop does next
    rows,       \* ages of the timestamps in ping_results
    lag,        \* how far the wall clock is behind
    window,     \* RetentionPurge._ping_days
    sincePurge, \* monotonic time since RetentionPurge._last_purge, or NeverPurged
    file,       \* the window in the configuration file
    \* history
    lagThen,    \* the lag at the last purge of this process
    outcome,    \* of the last check of this process
    faults

vars == <<pc, rows, lag, window, sincePurge, file, lagThen, outcome, faults>>

\* The windows whose cutoff is a date.
Dated == {w \in Windows : w <= Reach}
MaxAge == Max(Dated) + Interval + MaxLag + 1
NeverPurged == -1

TypeOK ==
    /\ pc \in {"off", "collect", "check", "sleep"}
    /\ rows \subseteq 0..MaxAge
    /\ lag \in 0..MaxLag /\ lagThen \in 0..MaxLag
    /\ window \in Windows /\ file \in Windows
    /\ sincePurge \in NeverPurged..Interval
    /\ outcome \in {"idle", "purged", "failed", "raised"} /\ faults \in 0..MaxFaults

Init ==
    /\ pc = "off" /\ rows = {} /\ lag \in 0..MaxLag
    /\ file \in Windows /\ window = file
    /\ sincePurge = NeverPurged /\ lagThen = 0 /\ outcome = "idle" /\ faults = 0

Fault == faults < MaxFaults /\ faults' = faults + 1

UpTo(limit, n) == IF n <= limit THEN n ELSE limit

\* A cycle's time passes, for the rows and for the monotonic clock.
Pass ==
    /\ rows' = {UpTo(MaxAge, age + 1) : age \in rows}
    /\ sincePurge' = IF sincePurge = NeverPurged THEN NeverPurged ELSE UpTo(Interval, sincePurge + 1)

\* A new RetentionPurge, on the configuration as it is.
Build ==
    /\ window' = file
    /\ sincePurge' = NeverPurged /\ lagThen' = 0 /\ outcome' = "idle"
-----------------------------------------------------------------------------
(* The ping loop *)

Start ==
    /\ pc = "off" /\ pc' = "collect"
    /\ Build
    /\ UNCHANGED <<rows, lag, file, faults>>

\* A cycle's results are stamped by the wall clock, and written.
Collect ==
    /\ pc = "collect" /\ pc' = "check"
    /\ rows' = rows \cup {lag}
    /\ UNCHANGED <<lag, window, sincePurge, file, lagThen, outcome, faults>>

IsDue == sincePurge = NeverPurged \/ sincePurge >= Interval

\* The mutant that takes the ping at the boundary too.
ExpiredInclusive == {age \in rows : age - lag >= window}

\* purge_ping_results: rows stamped before the wall clock less the window.
Expired == {age \in rows : age - lag > window}

\* The mutant that is latched off by a failure.
PurgeLatched ==
    \/ outcome # "failed" /\ rows' = rows \ Expired /\ outcome' = "purged"
       /\ sincePurge' = 0 /\ lagThen' = lag /\ UNCHANGED faults
    \/ outcome # "failed" /\ Fault /\ outcome' = "failed" /\ UNCHANGED <<rows, sincePurge, lagThen>>
    \/ outcome = "failed" /\ UNCHANGED <<rows, sincePurge, lagThen, outcome, faults>>

\* The purge itself: done, or failed and still due.
Purge ==
    \/ /\ rows' = rows \ Expired
       /\ sincePurge' = 0 /\ lagThen' = lag /\ outcome' = "purged"
       /\ UNCHANGED faults
    \/ /\ Fault
       /\ outcome' = "failed"
       /\ UNCHANGED <<rows, sincePurge, lagThen>>

\* RetentionPurge.check.  A cutoff before the first day is an OverflowError, which
\* ends the process.
Check ==
    /\ pc = "check"
    /\ \/ IsDue /\ window <= Reach /\ Purge /\ pc' = "sleep"
       \/ IsDue /\ window > Reach /\ outcome' = "raised" /\ pc' = "off"
             /\ UNCHANGED <<rows, sincePurge, lagThen, faults>>
       \/ ~IsDue /\ outcome' = "idle" /\ pc' = "sleep"
             /\ UNCHANGED <<rows, sincePurge, lagThen, faults>>
    /\ UNCHANGED <<lag, window, file>>

Sleep ==
    /\ pc = "sleep" /\ pc' = "collect"
    /\ Pass
    /\ UNCHANGED <<lag, window, file, lagThen, outcome, faults>>

\* The mutant whose reload only changes the setting of the purge it has.
ReloadInPlace ==
    /\ pc = "sleep" /\ window # file /\ pc' = "collect"
    /\ window' = file
    /\ UNCHANGED <<rows, lag, sincePurge, file, lagThen, outcome, faults>>

\* SIGHUP, noticed between two cycles, for this setting or for another one:
\* everything is built anew.
Reload ==
    /\ pc = "sleep" /\ pc' = "collect"
    /\ \/ window # file /\ UNCHANGED faults
       \/ window = file /\ Fault
    /\ Build
    /\ UNCHANGED <<rows, lag, file>>
-----------------------------------------------------------------------------
(* Everything else *)

Stop ==
    /\ pc # "off" /\ Fault
    /\ pc' = "off"
    /\ UNCHANGED <<rows, lag, window, sincePurge, file, lagThen, outcome>>

\* Time goes by while the service is down.
Down ==
    /\ pc = "off"
    /\ Pass
    /\ UNCHANGED <<pc, lag, window, file, lagThen, outcome, faults>>

\* After a reboot the clock resumes from disk.
Reboot ==
    /\ Fault
    /\ pc' = "off" /\ lag' \in 0..MaxLag
    /\ UNCHANGED <<rows, window, sincePurge, file, lagThen, outcome>>

\* NTP sets the clock, which only ever moves forward.
ClockSet ==
    /\ lag > 0 /\ lag' \in 0..(lag - 1)
    /\ UNCHANGED <<pc, rows, window, sincePurge, file, lagThen, outcome, faults>>

Save ==
    /\ Fault /\ file' \in Windows \ {file}
    /\ UNCHANGED <<pc, rows, lag, window, sincePurge, lagThen, outcome>>
-----------------------------------------------------------------------------
Loop == Collect \/ Check \/ Sleep

Next == Start \/ Loop \/ Reload \/ Stop \/ Down \/ Reboot \/ ClockSet \/ Save

\* The loop comes round, and systemd starts the service.
Fairness == WF_vars(Start) /\ WF_vars(Loop)

Spec == Init /\ [][Next]_vars /\ Fairness
-----------------------------------------------------------------------------
(* Properties *)

\* A clock that is behind can only keep a ping for longer, never delete one whose
\* timestamp is still within the window, and the ping at the boundary stays.
TakesOnlyExpired == \A age \in rows \ rows' : age > window + lag

\* "An NTP step must not skip a purge or trigger a burst of them": one process
\* purges once an interval, whatever the wall clock does.
OncePerInterval == outcome' = "purged" /\ sincePurge # NeverPurged => sincePurge = Interval

\* The window really is the configured length, and what enforces it is rare.
KeepsTheWindow == pc = "check" /\ pc' = "sleep" => TakesOnlyExpired /\ OncePerInterval

WindowIsKept == [][KeepsTheWindow]_vars

\* As long as purges succeed no ping outlives its window by more than the time to
\* the next purge and what the clock was behind at the last one, from the first
\* cycle after a start or a reload on: a shorter window is applied at once.
NothingOverstays ==
    pc = "sleep" /\ outcome # "failed" => \A age \in rows : age < window + Interval + lagThen

\* A purge that failed is tried again and not latched off: whatever fails, old
\* pings go in the end, as long as the window can be counted back.
OldPingsGo ==
    []<>(window > Reach \/ \A age \in rows : age < Max(Dated) + Interval + MaxLag)

\* What check's comment says: "Never raises: this runs inside the ping loop, and a
\* machine that stops measuring because it could not delete old rows has failed at
\* the more important job of the two".
NeverRaises == outcome # "raised"
-----------------------------------------------------------------------------
(* The inductive invariant behind the properties above *)

\* A process that has purged within the interval has no row older than the window,
\* the time since and what the clock was behind; and after a check that did not
\* fail it has purged within the interval.
Purged == pc # "off" /\ sincePurge # NeverPurged /\ sincePurge < Interval

KeptInv ==
    /\ TypeOK
    /\ Purged => lag <= lagThen /\ \A age \in rows : age <= window + lagThen + sincePurge
    /\ pc = "sleep" /\ outcome # "failed" => Purged
=============================================================================
