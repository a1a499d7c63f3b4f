------------------------------ MODULE PingCharts ------------------------------
(***************************************************************************)
(* The dashboard's two views of the pings: /api/ping and /api/ping/hourly  *)
(* of bbmon/web/app.py with recent_ping_results and hourly_ping_summary of *)
(* bbmon/db.py, through the cache, while the ping service flushes.         *)
(*                                                                         *)
(* A request fixes its window first and comes to the cache once its lock   *)
(* is free, so time passes in between, and the entry that answers it may   *)
(* be of the window of another request, asked before or after it.  Entries *)
(* of different keys do not depend on each other, and a behaviour is about *)
(* one key.  A query takes no time here: what its length adds to the age   *)
(* of an answer is TimedCache's.  The wall clock of the windows and the    *)
(* monotonic one of the entries go alike.                                  *)
(*                                                                         *)
(* An instant is half a second, which makes every other timestamp one that *)
(* isoformat() writes without a fraction; an hour is PerHour instants.     *)
(***************************************************************************)
EXTENDS Integers, FiniteSets, FiniteSetsExt, Sequences, SequencesExt

CONSTANTS
    Targets,
    PerHour,      \* instants in an hour, a whole number of seconds
    Hours,        \* BOX_PLOT_HOURS
    Window,       \* the window /api/ping is asked for
    MaxLatency,   \* latencies are told apart up to this
    FlushLag,     \* how old a ping may be when it is flushed
    Lifetime,     \* how long the cache uses an answer of each view
    MaxPings, MaxNow, MaxWaiting \* bounds

Views == {"hourly", "recent"}

ChartAssumption ==
    /\ PerHour \in Nat \ {0} /\ PerHour % 2 = 0
    /\ Hours \in Nat \ {0} /\ Window \in Nat \ {0} /\ MaxLatency \in Nat \ {0}
    /\ FlushLag \in Nat /\ MaxPings \in Nat /\ MaxNow \in Nat /\ MaxWaiting \in Nat
    /\ Lifetime \in [Views -> Nat \ {0}]
    /\ IsFiniteSet(Targets)

\* The null latency of a ping that failed.
NoReply == 0
Latencies == 1..MaxLatency
Rows == [at : 0..MaxNow, target : Targets, latency : Latencies \cup {NoReply}]

VARIABLES
    now,
    pings,   \* how many of each row the table holds
    view,    \* the view that is asked for
    waiting, \* when each request that is not answered yet fixed its window
    entry,   \* the cache's entry: the value and when it was stored; and, as history,
             \* when its window was fixed and what the table held
    \* history
    given    \* when the entry last answered a request

vars == <<now, pings, view, waiting, entry, given>>

Hour(t) == t \div PerHour
HoursShown == Hour(-Hours * PerHour)..Hour(MaxNow)
Boxes == [hour : HoursShown, target : Targets, count : 1..MaxPings,
          low : Latencies, q1 : Latencies, median : Latencies, q3 : Latencies, high : Latencies]

Bags == [Rows -> 0..MaxPings]
NoPings == [row \in Rows |-> 0]
NoEntry == <<>>

TypeOK ==
    /\ now \in 0..MaxNow
    /\ pings \in Bags
    /\ view \in Views
    /\ waiting \in SUBSET (0..MaxNow)
    /\ entry # NoEntry =>
         /\ DOMAIN entry = {"value", "at", "asked", "table"}
         /\ entry.at \in 0..MaxNow /\ entry.asked \in 0..MaxNow /\ entry.table \in Bags
         /\ IF view = "hourly" THEN \A b \in entry.value : b \in Boxes
                               ELSE entry.value \in Seq(Rows)
    /\ given \in 0..MaxNow

Init ==
    /\ now = 0 /\ pings = NoPings
    /\ view \in Views /\ waiting = {} /\ entry = NoEntry /\ given = 0

Tick ==
    /\ now < MaxNow /\ now' = now + 1
    /\ UNCHANGED <<pings, view, waiting, entry, given>>

Size(rows, bag) == MapThenSumSet(LAMBDA row : bag[row], rows)

\* The ping service writes what it measured a little earlier.
Flush ==
    /\ Size(Rows, pings) < MaxPings
    /\ \E row \in Rows :
        /\ now - FlushLag <= row.at /\ row.at <= now
        /\ pings' = [pings EXCEPT ![row] = @ + 1]
    /\ UNCHANGED <<now, view, waiting, entry, given>>
-----------------------------------------------------------------------------
(* Timestamps as text *)

\* What follows the seconds in isoformat(): "+00:00", or a fraction.
Mark(t) == IF t % 2 = 0 THEN 43 ELSE 46

\* How SQLite compares two of them.
AtLeast(t, u) ==
    \/ t \div 2 > u \div 2
    \/ t \div 2 = u \div 2 /\ Mark(t) >= Mark(u)
-----------------------------------------------------------------------------
(* The hourly summary *)

\* From the top of an hour, so that the oldest box is a full one.
SummaryStart(t) == (Hour(t) - (Hours - 1)) * PerHour

\* The rows of one group: of the window, of the hour and target, with a latency.
Sampled(hour, target, since) ==
    {row \in Rows : /\ Hour(row.at) = hour /\ row.target = target
                    /\ AtLeast(row.at, since) /\ row.latency # NoReply}

\* ROW_NUMBER() OVER (... ORDER BY latency_ms): the group's latencies in order.
Ranked(rows, bag) ==
    FlattenSeq([l \in Latencies |->
        [i \in 1..Size({row \in rows : row.latency = l}, bag) |-> l]])

\* The mutant that takes the position after, as one counting from 0 would.
NearestRankAfter(fourths, total) == (fourths * total) \div 4 + 1

\* ceil(total * fourths / 4), by integer division.
NearestRank(fourths, total) == (fourths * total + 3) \div 4

\* The SQL's median position, (total + 1) / 2.
MedianRank(total) == (total + 1) \div 2

Box(hour, target, since, bag) ==
    LET ranked == Ranked(Sampled(hour, target, since), bag)
        total == Len(ranked)
    IN  [hour |-> hour, target |-> target, count |-> total,
         low |-> ranked[1], high |-> ranked[total],
         q1 |-> ranked[NearestRank(1, total)], median |-> ranked[MedianRank(total)],
         q3 |-> ranked[NearestRank(3, total)]]

Summary(since, bag) ==
    {Box(group[1], group[2], since, bag) : group \in
        {g \in HoursShown \X Targets : Size(Sampled(g[1], g[2], since), bag) > 0}}
-----------------------------------------------------------------------------
(* The requests *)

Ask ==
    /\ Cardinality(waiting) < MaxWaiting
    /\ waiting' = waiting \cup {now}
    /\ UNCHANGED <<now, pings, view, entry, given>>

Fresh == entry # NoEntry /\ now - entry.at < Lifetime[view]

\* read, of a request that fixed its window at asked: the entry, whoever's window it
\* is of, or a query, or one that raises, which leaves the entry as it is.  Requests
\* of one instant wait as one, so that another may be left.
Read(asked, values) ==
    /\ asked \in waiting /\ waiting' \in {waiting, waiting \ {asked}}
    /\ \/ Fresh /\ given' = now /\ UNCHANGED entry
       \/ /\ ~Fresh /\ given' = now
          /\ \E value \in values :
              entry' = [value |-> value, at |-> now, asked |-> asked, table |-> pings]
       \/ ~Fresh /\ UNCHANGED <<entry, given>>
    /\ UNCHANGED <<now, pings, view>>

AnswerHourly(asked) ==
    view = "hourly" /\ Read(asked, {Summary(SummaryStart(asked), pings)})

\* ORDER BY timestamp: in the order of the text, those of one timestamp in any.
TextOrders(rows) ==
    {s \in SetToSeqs(rows) : \A i, j \in DOMAIN s : i < j => AtLeast(s[j].at, s[i].at)}

\* A row stands for its duplicates.
Listed(since, bag) == {row \in Rows : bag[row] > 0 /\ AtLeast(row.at, since)}

AnswerRecent(asked) ==
    view = "recent" /\ Read(asked, TextOrders(Listed(asked - Window, pings)))

Next ==
    \/ Tick \/ Flush \/ Ask
    \/ \E asked \in waiting : AnswerHourly(asked) \/ AnswerRecent(asked)

Spec == Init /\ [][Next]_vars
-----------------------------------------------------------------------------
(* Properties *)

Samples(hour, target) ==
    {row \in Rows : Hour(row.at) = hour /\ row.target = target /\ row.latency # NoReply}

\* value is the least latency that the fraction fourths/4 of the samples do not
\* exceed.
IsQuantile(value, fourths, rows, bag) ==
    LET upTo(l) == Size({row \in rows : row.latency <= l}, bag)
    IN  /\ 4 * upTo(value) >= fourths * Size(rows, bag)
        /\ \A l \in 1..(value - 1) : 4 * upTo(l) < fourths * Size(rows, bag)

\* The five numbers of a box are what their names say, by counting: positions
\* computed by integer division are right for every number of samples.
IsOfQuartiles(b, bag) ==
    LET rows == Samples(b.hour, b.target)
        values == {row.latency : row \in {r \in rows : bag[r] > 0}}
    IN  /\ values # {} /\ b.low = Min(values) /\ b.high = Max(values)
        /\ IsQuantile(b.q1, 1, rows, bag)
        /\ IsQuantile(b.median, 2, rows, bag)
        /\ IsQuantile(b.q3, 3, rows, bag)

\* A box is of all the pings of a whole hour.
BoxesAreTrue(boxes, bag) ==
    \A b \in boxes : b.count = Size(Samples(b.hour, b.target), bag) /\ IsOfQuartiles(b, bag)

\* No hour of the window that has an answered ping goes without its box.
NoBoxIsMissing(boxes, asked, bag) ==
    \A row \in Rows :
        bag[row] > 0 /\ row.latency # NoReply /\ Hour(row.at) > Hour(asked) - Hours =>
            \E b \in boxes : b.hour = Hour(row.at) /\ b.target = row.target

\* Comparing timestamps as text is comparing times: the recent pings are those of
\* the window, and in their order.
IsTheWindow(rows, asked, bag) ==
    /\ ToSet(rows) = {row \in Rows : bag[row] > 0 /\ row.at >= asked - Window}
    /\ \A i, j \in DOMAIN rows : i < j => rows[i].at <= rows[j].at

Columns(boxes) == {b.hour : b \in boxes}

\* An answer is true of the table as it was less than its lifetime before it was
\* shown, and of a window fixed no later than that, so that it leaves nothing out that
\* was in the table then and is of the window as it is now.
IsTrue(e, shown) ==
    /\ e.asked <= e.at /\ e.at <= shown /\ shown - e.at < Lifetime[view]
    /\ view = "hourly" =>
         /\ BoxesAreTrue(e.value, e.table) /\ NoBoxIsMissing(e.value, e.asked, e.table)
         /\ Cardinality(Columns(e.value)) <= Hours + (Hour(e.at) - Hour(e.asked))
    /\ view = "recent" => IsTheWindow(e.value, e.asked, e.table)

\* Both views show what was measured, also a request whose window is not the one the
\* answer was computed for: a box is of all the pings of a whole hour, those that
\* failed apart, and none of what a window clipped; there is one for every hour of
\* the window and target that answered, and no more columns than hours were asked
\* for and times that the hour turned between fixing the window and querying; and the
\* list is of its window.
ChartsAreTrue == entry # NoEntry => IsTrue(entry, given)

\* bbmon/web/app.py's "window labelled 24" has 24 columns, also when the hour turns
\* while the request waits for the cache's lock.
ColumnsFit == view = "hourly" /\ entry # NoEntry => Cardinality(Columns(entry.value)) <= Hours
-----------------------------------------------------------------------------
(* The inductive invariant behind the properties above *)

\* A table holds no ping of a time to come, and no more of them than were written.
IsTable(bag, t) ==
    /\ \A row \in Rows : bag[row] > 0 => row.at <= t
    /\ Size(Rows, bag) <= MaxPings

\* The entry is what the table said of the window of the request that queried.
EntryInv ==
    entry # NoEntry =>
        /\ IsTable(entry.table, entry.at)
        /\ entry.asked <= entry.at /\ entry.at <= given /\ given - entry.at < Lifetime[view]
        /\ IF view = "hourly"
           THEN entry.value = Summary(SummaryStart(entry.asked), entry.table)
           ELSE entry.value \in TextOrders(Listed(entry.asked - Window, entry.table))

ChartInv ==
    /\ TypeOK /\ IsTable(pings, now) /\ EntryInv
    /\ given <= now /\ \A asked \in waiting : asked <= now
=============================================================================
