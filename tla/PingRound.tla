------------------------------ MODULE PingRound ------------------------------
(***************************************************************************)
(* A round of pings and the end of the service: PingCollector of           *)
(* bbmon/collectors/ping.py, one target after the other with a limit on    *)
(* each, in the loop of bbmon/service.py, which systemd gives so long to   *)
(* stop.  CollectorService has the rest of that loop.                      *)
(*                                                                         *)
(* Time is counted in units of five seconds, and only after a SIGTERM.     *)
(***************************************************************************)
EXTENDS Integers, Sequences

CONSTANTS
    Targets,    \* how many targets there are, in configured order
    TargetTime, \* limit on one ping: REPLY_TIMEOUT_SECONDS and the margin
    BusyTime,   \* BUSY_TIMEOUT_MS, a limit on a write
    StopTime,   \* TimeoutStopSec of bbmon-pinger.service
    FlushEvery, \* rounds between two flushes
    Cap,        \* max_buffered_results
    MaxRounds,  \* bound: rounds
    MaxFaults   \* bound: writes that fail

RoundAssumption ==
    /\ Targets \in Nat \ {0} /\ TargetTime \in Nat /\ BusyTime \in Nat /\ StopTime \in Nat
    /\ FlushEvery \in Nat \ {0} /\ Cap \in Nat \ {0}
    /\ MaxRounds \in Nat \ {0} /\ MaxFaults \in Nat

\* What ping does: it answers, it ends otherwise (with an exit status, or without a
\* time that can be read), it is not back in time, it cannot be started, or is gone.
Outcomes == {"reply", "no reply", "timeout", "unrunnable", "no binary"}

VARIABLES
    pc,      \* "ping", "flush", "between", "check", "exit", and "ended" or "killed"
    done,    \* the results of the round under way
    buffer, table, \* results, each its round and its target
    left,    \* rounds until the next flush
    elapsed, \* time since SIGTERM, or NotAsked
    \* history and bounds
    rounds,  \* rounds that came to their end
    lost,    \* results the cap has deleted, or SIGKILL has taken
    faults

vars == <<pc, done, buffer, table, left, elapsed, rounds, lost, faults>>

NotAsked == -1
Results == [round : 1..MaxRounds, target : 1..Targets]

TypeOK ==
    /\ pc \in {"ping", "flush", "between", "check", "exit", "ended", "killed"}
    /\ done \in Seq(Results) /\ Len(done) <= Targets
    /\ buffer \in Seq(Results) /\ Len(buffer) <= Cap /\ table \in Seq(Results)
    /\ left \in 0..FlushEvery
    /\ elapsed \in NotAsked..StopTime
    /\ rounds \in 0..MaxRounds /\ lost \in Nat /\ faults \in 0..MaxFaults

\* The first flush follows the first round.
Init ==
    /\ pc = "ping" /\ done = <<>> /\ buffer = <<>> /\ table = <<>>
    /\ left = 1 /\ elapsed = NotAsked /\ rounds = 0 /\ lost = 0 /\ faults = 0

\* Something took this long, which is in time if systemd still waits.
Takes(time) ==
    IF elapsed = NotAsked THEN elapsed' = elapsed
    ELSE elapsed + time <= StopTime /\ elapsed' = elapsed + time

Result(n) == [round |-> rounds + 1, target |-> n]

\* The mutant that leaves the round with what it has.
PingKeepsGoing ==
    /\ pc = "ping" /\ Len(done) < Targets
    /\ \E outcome \in Outcomes, time \in 0..TargetTime :
        /\ Takes(time)
        /\ IF outcome = "no binary"
           THEN pc' = "exit" /\ done' = <<>> /\ buffer' = buffer \o done
           ELSE done' = Append(done, Result(Len(done) + 1)) /\ UNCHANGED <<pc, buffer>>
    /\ UNCHANGED <<table, left, rounds, lost, faults>>

\* _ping of the next target.  Without the binary the round ends with an exception,
\* and its results so far are gone.
Ping ==
    /\ pc = "ping" /\ Len(done) < Targets
    /\ \E outcome \in Outcomes, time \in 0..TargetTime :
        /\ Takes(time)
        /\ IF outcome = "no binary"
           THEN pc' = "exit" /\ done' = <<>>
           ELSE done' = Append(done, Result(Len(done) + 1)) /\ UNCHANGED pc
    /\ UNCHANGED <<buffer, table, left, rounds, lost, faults>>

\* What the cap leaves of results: the newest, which may begin within a round.
Newest(results) ==
    IF Len(results) <= Cap THEN results
    ELSE SubSeq(results, Len(results) - Cap + 1, Len(results))

\* The end of _collect_once.
Keep ==
    /\ pc = "ping" /\ Len(done) = Targets
    /\ buffer' = Newest(buffer \o done) /\ done' = <<>>
    /\ lost' = lost + Len(buffer) + Targets - Len(buffer')
    /\ left' = left - 1 /\ rounds' = rounds + 1
    /\ pc' = IF left = 1 THEN "flush" ELSE "between"
    /\ UNCHANGED <<table, elapsed, faults>>

\* The write of _flush, which there is none of when there is nothing to write.  One
\* that fails, in its time or for want of it, leaves the buffer for the next.
Write ==
    /\ \E time \in 0..BusyTime : (buffer = <<>> => time = 0) /\ Takes(time)
    /\ \/ table' = table \o buffer /\ buffer' = <<>> /\ UNCHANGED faults
       \/ /\ buffer # <<>> /\ faults < MaxFaults /\ faults' = faults + 1
          /\ UNCHANGED <<table, buffer>>

\* A flush that is due.  What its connect raises may pass _flush, and end the loop.
Flush ==
    /\ pc = "flush" /\ left' = FlushEvery
    /\ Write
    /\ pc' = "between" \/ (pc' = "exit" /\ faults' # faults)
    /\ UNCHANGED <<done, rounds, lost>>

\* between_cycles: the purge, if it is due, is another write, and may raise too.
Between ==
    /\ pc = "between" /\ pc' \in {"check", "exit"}
    /\ \E time \in 0..BusyTime : Takes(time)
    /\ UNCHANGED <<done, buffer, table, left, rounds, lost, faults>>

\* The mutant that starts another round when it has been asked to stop.
CheckAfterRound ==
    /\ pc = "check" /\ rounds < MaxRounds /\ pc' = "ping"
    /\ UNCHANGED <<done, buffer, table, left, elapsed, rounds, lost, faults>>

\* The wait, which a stop ends at once, and should_continue.
Check ==
    /\ pc = "check"
    /\ \/ elapsed # NotAsked /\ pc' = "exit"
       \/ elapsed = NotAsked /\ rounds < MaxRounds /\ pc' = "ping"
    /\ UNCHANGED <<done, buffer, table, left, elapsed, rounds, lost, faults>>

\* The final flush, after which the process ends, written or not.
Exit ==
    /\ pc = "exit" /\ pc' = "ended"
    /\ Write
    /\ UNCHANGED <<done, left, rounds, lost>>

Term ==
    /\ pc \notin {"ended", "killed"} /\ elapsed = NotAsked /\ elapsed' = 0
    /\ UNCHANGED <<pc, done, buffer, table, left, rounds, lost, faults>>

\* What a process is at, besides steps that take no time to speak of.
Busy ==
    IF pc = "ping" /\ Len(done) < Targets THEN TargetTime
    ELSE IF pc = "between" \/ (pc \in {"flush", "exit"} /\ buffer # <<>>) THEN BusyTime ELSE 0

\* SIGKILL, when what the process is at can last past its time.
Kill ==
    /\ pc \notin {"ended", "killed"} /\ elapsed # NotAsked /\ elapsed + Busy > StopTime
    /\ pc' = "killed" /\ done' = <<>> /\ buffer' = <<>> /\ lost' = lost + Len(buffer)
    /\ UNCHANGED <<table, left, elapsed, rounds, faults>>

Next == Ping \/ Keep \/ Flush \/ Between \/ Check \/ Exit \/ Term \/ Kill

Spec == Init /\ [][Next]_vars
-----------------------------------------------------------------------------
(* Properties *)

\* What comes after a result: the round's next target, or after its last one a
\* later round, which the cap may have left without its beginning.
InOrder(one, next) ==
    IF one.target = Targets THEN next.round > one.round
    ELSE next = [round |-> one.round, target |-> one.target + 1]

\* A round is stored and kept whole, in the configured order, or without the
\* beginning that the full buffer had no room for, and never when the binary went
\* missing half way through it; no round is there twice, or after a later one; what
\* is not there was deleted by the cap, after a write had failed, or was taken by
\* SIGKILL; and a service that ends of itself has stored all, or could not write.
RoundsAreWhole ==
    LET kept == table \o buffer
    IN  /\ \A i \in 1..(Len(kept) - 1) : InOrder(kept[i], kept[i + 1])
        /\ kept # <<>> => kept[Len(kept)].target = Targets
        /\ Len(kept) + lost = rounds * Targets
        /\ faults = 0 /\ FlushEvery * Targets <= Cap => lost = 0 \/ pc = "killed"
        /\ pc = "ended" /\ faults = 0 => buffer = <<>>

\* A stop at any point leaves time for the rest of the round, the purge and the
\* final flush, if StopTime is as long as the slowest of them; writes that fail take
\* one more, for the flush that was due.  If StopTime is shorter, SIGKILL takes at
\* most what was measured since the last flush interval began, when writes succeed,
\* and a full buffer and a round when they do not.
StopsAreInTime ==
    /\ Targets * TargetTime + 3 * BusyTime <= StopTime => pc # "killed"
    /\ faults = 0 /\ Targets * TargetTime + 2 * BusyTime <= StopTime => pc # "killed"
    /\ faults = 0 => Len(buffer) + Len(done) <= FlushEvery * Targets
    /\ Len(buffer) + Len(done) <= Cap + Targets

\* The comment beside TimeoutStopSec: "this timeout gives the final flush room to
\* complete before SIGKILL", for the targets of the shipped configuration.
StopLeavesTimeToFlush == pc # "killed"
-----------------------------------------------------------------------------
(* Strengthenings of the properties above that every step preserves *)

\* Rounds that came to their end, the first perhaps without its beginning.
Chain(results) ==
    /\ \A i \in 1..(Len(results) - 1) : InOrder(results[i], results[i + 1])
    /\ results # <<>> => results[Len(results)].target = Targets

\* What is stored and what is kept are rounds each by itself, of which those kept are
\* the later; the round under way has got as far as it has; and nothing else is
\* missing than what was lost.
WholeInv ==
    /\ TypeOK
    /\ pc \in {"ping", "between", "check"} => left > 0
    /\ pc = "ping" => rounds < MaxRounds
    /\ Chain(table) /\ Chain(buffer)
    /\ \A i \in DOMAIN table : table[i].round <= rounds
    /\ \A i \in DOMAIN buffer : buffer[i].round <= rounds
    /\ \A i \in DOMAIN table, j \in DOMAIN buffer : table[i].round < buffer[j].round
    /\ \A i \in DOMAIN done : done[i] = [round |-> rounds + 1, target |-> i]
    /\ Len(table) + Len(buffer) + lost = rounds * Targets

\* What a flush interval measures waits for its flush, and has room.
FlushInv ==
    /\ faults = 0 => Len(buffer) <= (FlushEvery - left) * Targets
    /\ faults = 0 /\ FlushEvery * Targets <= Cap => lost = 0 \/ pc = "killed"
    /\ pc = "ended" /\ faults = 0 => buffer = <<>>
    /\ pc # "ping" => done = <<>>

\* What remains to be done after a stop, all of it at its slowest, when as many
\* writes can follow a round as this.
Remaining(writes) ==
    IF pc = "ping" THEN (Targets - Len(done)) * TargetTime + writes * BusyTime
    ELSE IF pc = "flush" THEN writes * BusyTime
    ELSE (IF pc = "between" THEN BusyTime ELSE 0)
         + (IF pc # "ended" /\ buffer # <<>> THEN BusyTime ELSE 0)

\* The flush that was due and the final one are both slow only if the first failed.
StopInv ==
    \A writes \in {2, 3} :
      /\ Targets * TargetTime + writes * BusyTime <= StopTime
      /\ writes = 3 \/ faults = 0
      =>
      /\ pc # "killed"
      /\ elapsed # NotAsked => elapsed + Remaining(writes) <= StopTime
=============================================================================
