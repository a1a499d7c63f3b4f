-------------------------------- MODULE MCWeb --------------------------------
(* The web app, for TLC: the cache its reads go through, and a module for  *)
(* each kind of request.  They share no variable, so what one does does    *)
(* not depend on where the others are, and it is enough to let one of them *)
(* move in a behaviour, which `part' says, while the others rest as they   *)
(* began.                                                                  *)
EXTENDS TimedCache

CONSTANTS
    ping, summary,
    DayLength, LastDay, Page, Chunk, MaxWrites, MaxErrors,        \* of Export
    Targets, PerHour, Hours, Window, MaxLatency, FlushLag, Lifetime, MaxPings, MaxNow, MaxWaiting,
    MaxSamples, MaxSpread,                                        \* of PingCharts
    Requests, MaxLimit, MaxRestarts, MaxReloads,                  \* of RestartPanel
    Browsers, MaxChanges                                          \* of AdminPage

\* One key with the default lifetime and one, the hourly summary's, with a longer.
ShortAndLong == [k \in Keys |-> IF k = ping THEN 1 ELSE 3]
HourlyIsLonger == [hourly |-> 3, recent |-> 2]

VARIABLES
    part,
    serving, table, first, last, conn, cursor, page, buffer, status, sent, whole, writes, errors,
    hour, pings, view, waiting, entry, given,
    config, restarts, cache, stage, include, limit, answer, reads, length, reloads,
    file, running, process, staged, form, reply, changes

exportVars == <<serving, table, first, last, conn, cursor, page, buffer, status, sent, whole,
                writes, errors>>
chartVars == <<hour, pings, view, waiting, entry, given>>
panelVars == <<config, restarts, cache, stage, include, limit, answer, reads, length, reloads>>
adminVars == <<file, running, process, staged, form, reply, changes>>
partVars == <<part, vars, exportVars, chartVars, panelVars, adminVars>>

CSV == INSTANCE Export WITH pc <- serving, faults <- errors, MaxFaults <- MaxErrors

\* The pings of one target over time, and every bag of samples of one hour.
Charts == INSTANCE PingCharts WITH now <- hour, Targets <- {CHOOSE t \in Targets : TRUE}
Boxes == INSTANCE PingCharts WITH
    now <- hour, Hours <- 1, Window <- 1,
    MaxLatency <- MaxSpread, FlushLag <- 0, MaxPings <- MaxSamples, MaxNow <- 0

Panel == INSTANCE RestartPanel WITH pc <- stage

\* Typed into the boxes: nothing, blank lines, and two names on one line; no number,
\* one that is out of range, what is none, and a good one among blanks.
Blank == "blank"
Typing ==
    [targets |-> {<<>>, <<<<"b">>, <<Blank>>>>, <<<<"a", "b">>, <<"b">>>>},
     limit   |-> {<<<<Blank>>>>, <<<<"0">>>>, <<<<"x">>>>, <<<<"2">>>>}]
Admin == INSTANCE AdminPage WITH page <- form, Typed <- Typing, Broken <- {"invalid"}

ASSUME PartAssumption ==
    /\ CSV!ExportAssumption
    /\ Charts!ChartAssumption /\ Boxes!ChartAssumption
    /\ Panel!PanelAssumption /\ Admin!AdminAssumption

Parts == {"cache", "export", "charts", "boxes", "panel", "admin"}

\* Only the part that moves begins in more than one way.
PartInit ==
    /\ part \in Parts
    /\ Init /\ (part = "cache" \/ key = [t \in Threads |-> ping])
    /\ IF part = "boxes" THEN Boxes!Init ELSE Charts!Init
    /\ part = "charts" \/ view = "hourly"
    /\ Panel!Init
    /\ part = "panel" \/ (config = [limit |-> 1, named |-> TRUE]
                          /\ include = [r \in Requests |-> TRUE])
    /\ Admin!Init
    /\ CSV!Init /\ (part = "export" \/ (table = {} /\ first = 0 /\ last = 0))

Caching(A) ==
    part = "cache" /\ A /\ UNCHANGED <<part, exportVars, chartVars, panelVars, adminVars>>

PartNext ==
    \/ Caching(Next)
    \/ part = "export" /\ CSV!Next /\ UNCHANGED <<part, vars, chartVars, panelVars, adminVars>>
    \/ part = "charts" /\ Charts!Next /\ UNCHANGED <<part, vars, exportVars, panelVars, adminVars>>
    \/ part = "boxes" /\ Boxes!Next /\ UNCHANGED <<part, vars, exportVars, panelVars, adminVars>>
    \/ part = "panel" /\ Panel!Next /\ UNCHANGED <<part, vars, exportVars, chartVars, adminVars>>
    \/ part = "admin" /\ Admin!Next /\ UNCHANGED <<part, vars, exportVars, chartVars, panelVars>>
    \* Those that come to a bound, or to an end, stay there.
    \/ part \in {"export", "charts", "boxes", "panel"} /\ UNCHANGED partVars

PartSpec ==
    /\ PartInit /\ [][PartNext]_partVars
    /\ \A t \in Threads : WF_partVars(Caching(Holding(t)))
-----------------------------------------------------------------------------
(* The properties of the parts that are instances *)

\* A download is a snapshot of its days, or says that it is not.
DownloadsAreSnapshots == CSV!DownloadsAreSnapshots

\* Boxes and lists show what was measured.
ChartsAreTrue ==
    /\ part = "charts" => Charts!ChartsAreTrue
    /\ part = "boxes" => Boxes!ChartsAreTrue

\* The restarts that are listed are the newest of the kind that was asked for.
AnswersAreTheNewest == Panel!AnswersAreTheNewest

\* The admin form shows the file, keeps an edit, and proposes what it showed.
FormsAreFaithful == [][Admin!IsFaithful]_partVars
==============================================================================
