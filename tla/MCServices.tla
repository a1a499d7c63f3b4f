----------------------------- MODULE MCServices -----------------------------
(* What the two collector services do besides their common loop, for TLC:  *)
(* when a speed test runs and what becomes of its output, what a round of  *)
(* pings leaves when it is stopped, and how long pings are kept.           *)
(*                                                                         *)
(* The four modules share no variable, so what one does does not depend on *)
(* where the others are, and it is enough to let one of them move in a     *)
(* behaviour, which `part' says, while the others rest as they began.      *)
EXTENDS SpeedtestSchedule

CONSTANTS
    MaxLines, MaxTests,                                   \* of SpeedtestOutput
    TargetTime, BusyTime, StopTime, FlushEvery, Cap, MaxRounds, MaxFailures, \* of PingRound
    Windows, Reach, Interval, MaxLag, MaxPurgeFaults      \* of Retention

VARIABLES
    part,
    testing, unstored, stored, tests, output, object, end, result,
    pinging, done, kept, written, remaining, elapsed, rounds, lost, failures,
    purging, rows, lag, window, sincePurge, saved, lagThen, outcome, mishaps

outputVars == <<testing, unstored, stored, tests, output, object, end, result>>
roundVars == <<pinging, done, kept, written, remaining, elapsed, rounds, lost, failures>>
purgeVars == <<purging, rows, lag, window, sincePurge, saved, lagThen, outcome, mishaps>>
partVars == <<part, vars, outputVars, roundVars, purgeVars>>

Output == INSTANCE SpeedtestOutput WITH pc <- testing, buffer <- unstored, table <- stored

\* The stop's time is enough for a target in any case, for two while writes succeed,
\* and for three it is not.
One == INSTANCE PingRound WITH
    pc <- pinging, buffer <- kept, table <- written, left <- remaining, faults <- failures,
    MaxFaults <- MaxFailures, Targets <- 1
Two == INSTANCE PingRound WITH
    pc <- pinging, buffer <- kept, table <- written, left <- remaining, faults <- failures,
    MaxFaults <- MaxFailures, Targets <- 2
Three == INSTANCE PingRound WITH
    pc <- pinging, buffer <- kept, table <- written, left <- remaining, faults <- failures,
    MaxFaults <- MaxFailures, Targets <- 3

Keeping == INSTANCE Retention WITH
    pc <- purging, file <- saved, faults <- mishaps, MaxFaults <- MaxPurgeFaults

ASSUME PartAssumption ==
    /\ Output!OutputAssumption
    /\ One!RoundAssumption /\ Two!RoundAssumption /\ Three!RoundAssumption
    /\ Keeping!RetentionAssumption

\* Only the part that moves begins in more than one way.
PartInit ==
    /\ part \in {"schedule", "output", "one", "two", "three", "keeping"}
    /\ Init /\ Output!Init /\ Two!Init /\ Keeping!Init
    /\ part = "schedule" \/ file = CHOOSE c \in Settings : TRUE
    /\ part = "keeping" \/ (lag = 0 /\ saved = CHOOSE w \in Windows : TRUE)

Scheduling(A) == part = "schedule" /\ A /\ UNCHANGED <<part, outputVars, roundVars, purgeVars>>
Purging(A) == part = "keeping" /\ A /\ UNCHANGED <<part, vars, outputVars, roundVars>>

PartNext ==
    \/ Scheduling(Next)
    \/ Purging(Keeping!Next)
    \/ part = "output" /\ Output!Next /\ UNCHANGED <<part, vars, roundVars, purgeVars>>
    \/ part = "one" /\ One!Next /\ UNCHANGED <<part, vars, outputVars, purgeVars>>
    \/ part = "two" /\ Two!Next /\ UNCHANGED <<part, vars, outputVars, purgeVars>>
    \/ part = "three" /\ Three!Next /\ UNCHANGED <<part, vars, outputVars, purgeVars>>
    \* Those that come to a bound, or to an end, stay there.
    \/ part \in {"output", "one", "two", "three"} /\ UNCHANGED partVars

PartSpec ==
    /\ PartInit /\ [][PartNext]_partVars
    /\ WF_partVars(Scheduling(Tick)) /\ WF_partVars(Scheduling(Start))
    /\ WF_partVars(Scheduling(Service)) /\ WF_partVars(Scheduling(TestEnds))
    /\ WF_partVars(Scheduling(StopTimesOut)) /\ WF_partVars(Scheduling(Reboot))
    /\ WF_partVars(Scheduling(Hup)) /\ WF_partVars(Scheduling(PingerReloads))
    /\ WF_partVars(Purging(Keeping!Start)) /\ WF_partVars(Purging(Keeping!Loop))
-----------------------------------------------------------------------------
(* The properties, of the part that moves *)

\* The speed tests go on, reboots, reloads and faults notwithstanding.
SpeedtestsGoOn == part = "schedule" => TestsGoOn

\* What is recorded of a speed test is what became of it.
ResultsAreTrue == Output!ResultsAreTrue

\* What is stored of the pings is whole rounds, in order.
RoundsAreWhole ==
    /\ part = "one" => One!RoundsAreWhole
    /\ part = "two" => Two!RoundsAreWhole
    /\ part = "three" => Three!RoundsAreWhole

\* A stop's time is enough for a round and the last flush where it can be, and
\* what a kill takes is what was measured since the last flush.
StopsAreInTime ==
    /\ part = "one" => One!StopsAreInTime
    /\ part = "two" => Two!StopsAreInTime
    /\ part = "three" => Three!StopsAreInTime

\* No ping is deleted within the window, whatever the clock does, and a process
\* purges once an interval.
WindowIsKept == [][Keeping!KeepsTheWindow]_partVars

\* While purges succeed, no ping stays longer than the window and an interval.
NothingOverstays == Keeping!NothingOverstays

\* A purge that failed is made up for.
OldPingsGo == Keeping!OldPingsGo
=============================================================================
