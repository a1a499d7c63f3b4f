-------------------------------- MODULE Export --------------------------------
(***************************************************************************)
(* The CSV download of one table: csv_download of bbmon/web/app.py,        *)
(* bbmon/web/export.py and the rows it streams from bbmon/db.py, while the *)
(* collectors write to the table and the purge deletes from it.            *)
(*                                                                         *)
(* The body is a chain of generators that the server pulls chunk by chunk: *)
(* rows leave SQLite a page at a time, gather in a buffer and leave as a   *)
(* chunk.  A row is its timestamp, a number of instants, of which there    *)
(* are DayLength in a UTC day.                                             *)
(***************************************************************************)
EXTENDS Integers, FiniteSets, Sequences, SequencesExt

CONSTANTS
    DayLength, \* instants in a day
    LastDay,   \* date.max: the day after it does not exist
    Page,      \* EXPORT_FETCH_ROWS
    Chunk,     \* rows that fill CHUNK_BYTES
    MaxWrites, \* bound: commits of the other services
    MaxFaults  \* bound: database errors and clients that go away

ExportAssumption ==
    /\ DayLength \in Nat \ {0} /\ LastDay \in Nat
    /\ Page \in Nat \ {0} /\ Chunk \in Nat \ {0}
    /\ MaxWrites \in Nat /\ MaxFaults \in Nat

Days == 0..LastDay
Instants == 0..((LastDay + 1) * DayLength - 1)

\* What may stand in for a day in the query string.
NoDay == -1

Header == -1

VARIABLES
    pc,       \* what the server does next for this request
    table,    \* timestamps in the table
    first, last, \* the days asked for
    conn,     \* whether the download's connection is open
    cursor,   \* rows of the query still in SQLite
    page,     \* rows fetched and not pulled
    buffer,   \* lines written and not drained
    status,   \* of the response, 0 before there is one
    sent,     \* lines handed to the client
    \* history
    whole,    \* what those days held when they were read
    \* bounds
    writes, faults

vars == <<pc, table, first, last, conn, cursor, page, buffer, status, sent, whole, writes, faults>>
request == <<first, last>>
rows == <<cursor, page>>

TypeOK ==
    /\ pc \in {"idle", "open", "pull", "send", "done", "failed", "abandoned"}
    /\ table \subseteq Instants
    /\ first \in Days \cup {NoDay} /\ last \in Days \cup {NoDay}
    /\ conn \in BOOLEAN
    /\ cursor \in Seq(Instants) /\ page \in Seq(Instants) /\ Len(page) <= Page
    /\ buffer \in Seq(Instants \cup {Header}) /\ Len(buffer) <= Chunk + 1
    /\ status \in {0, 200, 400, 500}
    /\ sent \in Seq(Instants \cup {Header}) /\ whole \in Seq(Instants)
    /\ writes \in 0..MaxWrites /\ faults \in 0..MaxFaults

Init ==
    /\ pc = "idle" /\ table \in SUBSET Instants
    /\ first \in Days \cup {NoDay} /\ last \in Days \cup {NoDay}
    /\ conn = FALSE /\ cursor = <<>> /\ page = <<>> /\ buffer = <<>>
    /\ status = 0 /\ sent = <<>> /\ whole = <<>>
    /\ writes = 0 /\ faults = 0

Fault == faults < MaxFaults /\ faults' = faults + 1

\* DateRange.start and DateRange.end.
RangeStart(day) == day * DayLength
RangeEnd(day) == (day + 1) * DayLength

\* The condition of the export queries.
InRange(day1, day2, t) == RangeStart(day1) <= t /\ t < RangeEnd(day2)

\* ORDER BY timestamp: each stands where as many come before it as are smaller.
Rank(stamps, t) == Cardinality({s \in stamps : s < t})
InOrder(stamps) ==
    [i \in 1..Cardinality(stamps) |-> CHOOSE t \in stamps : Rank(stamps, t) = i - 1]
-----------------------------------------------------------------------------
(* The request *)

\* requested_range: both days are required, in order.
Parse ==
    /\ pc = "idle"
    /\ IF first # NoDay /\ last # NoDay /\ first <= last
       THEN pc' = "open" /\ UNCHANGED status
       ELSE pc' = "done" /\ status' = 400
    /\ UNCHANGED <<table, request, conn, rows, buffer, sent, whole, writes, faults>>

\* Whatever raises before the response has begun becomes its status; after that
\* the download just ends.  The generators unwind and close the connection.
Fail ==
    /\ pc' = "failed" /\ conn' = FALSE
    /\ status' = IF status = 0 THEN 500 ELSE status
    /\ cursor' = <<>> /\ page' = <<>> /\ buffer' = <<>>
    /\ UNCHANGED sent

\* connect, and the query: one snapshot of the table for all of the download.
Open ==
    /\ pc = "open"
    /\ \/ /\ last < LastDay
          /\ cursor' = InOrder({t \in table : InRange(first, last, t)})
          /\ whole' = InOrder({t \in table : t \div DayLength \in first..last})
          /\ conn' = TRUE /\ pc' = "pull"
          /\ UNCHANGED <<page, buffer, status, sent, faults>>
       \/ last = LastDay /\ Fail /\ UNCHANGED <<whole, faults>>
       \/ Fault /\ Fail /\ UNCHANGED whole
    /\ UNCHANGED <<table, request, writes>>

Upto(n, s) == SubSeq(s, 1, IF Len(s) < n THEN Len(s) ELSE n)
From(n, s) == SubSeq(s, n + 1, Len(s))

\* The mutant that asks for each page anew, after the rows it has had.
FetchByOffset ==
    LET had == Len(SelectSeq(sent \o buffer, LAMBDA line : line # Header))
        live == InOrder({t \in table : InRange(first, last, t)})
    IN  /\ pc = "pull" /\ page = <<>> /\ cursor # <<>>
        /\ page' = Upto(Page, From(had, live)) /\ cursor' = From(had + Page, live)
        /\ UNCHANGED <<pc, conn, buffer, status, sent, table, request, whole, writes, faults>>

\* fetchmany.
Fetch ==
    /\ pc = "pull" /\ page = <<>> /\ cursor # <<>>
    /\ \/ /\ page' = Upto(Page, cursor) /\ cursor' = From(Page, cursor)
          /\ UNCHANGED <<pc, conn, buffer, status, sent, faults>>
       \/ Fault /\ Fail
    /\ UNCHANGED <<table, request, whole, writes>>

\* The header is written once the first row has been pulled, or there is none.
Begin == IF status = 0 THEN <<Header>> ELSE <<>>

\* When a chunk leaves: the first row's at once, the others when they are full.
Full == status = 0 \/ Len(buffer') >= Chunk

\* A row is pulled and written.
Pull ==
    /\ pc = "pull" /\ page # <<>>
    /\ buffer' = buffer \o Begin \o <<Head(page)>>
    /\ page' = Tail(page)
    /\ pc' = IF Full THEN "send" ELSE "pull"
    /\ UNCHANGED <<table, request, conn, cursor, status, sent, whole, writes, faults>>

\* There are no more rows: the connection is closed, and what is left drained.
Exhausted ==
    /\ pc = "pull" /\ page = <<>> /\ cursor = <<>>
    /\ buffer' = buffer \o Begin
    /\ pc' = IF buffer' = <<>> THEN "done" ELSE "send"
    /\ conn' = FALSE
    /\ UNCHANGED <<table, request, rows, status, sent, whole, writes, faults>>

\* A chunk goes to the client; the first one takes the status with it.
Send ==
    /\ pc = "send"
    /\ status' = 200
    /\ sent' = sent \o buffer /\ buffer' = <<>>
    /\ pc' = IF conn THEN "pull" ELSE "done"
    /\ UNCHANGED <<table, request, conn, rows, whole, writes, faults>>
-----------------------------------------------------------------------------
(* The client, and the other services *)

\* The client goes away: the server closes the body.
Abandon ==
    /\ status = 200 /\ pc \in {"pull", "send"} /\ Fault
    /\ pc' = "abandoned" /\ conn' = FALSE
    /\ UNCHANGED <<table, request, rows, buffer, status, sent, whole, writes>>

\* A collector flushes, or the purge deletes, in a transaction of its own.
Write ==
    /\ pc \in {"open", "pull", "send"}
    /\ writes < MaxWrites /\ writes' = writes + 1
    /\ \/ \E t \in Instants : table' = table \cup {t}
       \/ \E cutoff \in Instants : table' = {t \in table : t >= cutoff}
    /\ table' # table
    /\ UNCHANGED <<pc, request, conn, rows, buffer, status, sent, whole, faults>>
-----------------------------------------------------------------------------
Download == Parse \/ Open \/ Fetch \/ Pull \/ Exhausted \/ Send

Next == Download \/ Abandon \/ Write

Spec == Init /\ [][Next]_vars
-----------------------------------------------------------------------------
(* Properties *)

Lines == <<Header>> \o whole

\* A download that comes to its end is the whole of what its days held at one
\* moment, the last of them included, and one that breaks off a beginning of it: each row once and in order,
\* none missing that has a later one after it.
WholeOrBeginning ==
    /\ IsPrefix(sent, Lines)
    /\ pc = "done" /\ status = 200 => sent = Lines

\* "A database error can then still become an error response": a read that fails
\* before there is a row is never a successful, short file.
ErrorsAreSaid == pc = "failed" /\ sent = <<>> => status = 500

\* The connection, and the snapshot it holds, last no longer than the download,
\* and "no step holds more than one chunk" and a page, however long it is.
HoldsLittle ==
    /\ pc \in {"done", "failed", "abandoned"} => ~conn
    /\ Len(page) + Len(buffer) <= Page + Chunk

\* Whatever is written or purged, fails or goes away meanwhile, a download is a
\* snapshot of its range, says so when it is not, and leaves nothing behind.
DownloadsAreSnapshots == WholeOrBeginning /\ ErrorsAreSaid /\ HoldsLittle
-----------------------------------------------------------------------------
(* Strengthenings, for the proofs *)

\* Nothing has been read before the query, and no connection outlives its rows.
RestInv ==
    /\ pc \in {"idle", "open"} =>
          /\ status = 0 /\ sent = <<>> /\ whole = <<>>
          /\ buffer = <<>> /\ page = <<>> /\ cursor = <<>>
    /\ pc = "open" => first \in Days /\ last \in Days
    /\ conn => pc \in {"pull", "send"}
    /\ pc = "pull" => conn

\* Every line is in one of the four places, in order, from the client back to
\* SQLite; the header is the first, once there is a line.
Written == sent \o buffer
Unread == page \o cursor
LinesInv ==
    pc \in {"pull", "send"} =>
        Written \o Unread = IF Written = <<>> THEN whole ELSE Lines

\* How full the buffer is, and that the status goes with the first line.
ChunkInv ==
    /\ pc = "pull" => Len(buffer) < Chunk /\ (status = 0 => buffer = <<>>)
    /\ pc = "send" => buffer # <<>> /\ (~conn => Unread = <<>>)
    /\ pc \in {"pull", "send"} => status \in {0, 200} /\ (status = 0 <=> sent = <<>>)
    /\ pc = "done" => status \in {200, 400}
    /\ pc # "done" => status # 400

ExportInv == TypeOK /\ RestInv /\ LinesInv /\ ChunkInv /\ DownloadsAreSnapshots

=============================================================================
