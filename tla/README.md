# A verification of bbmon

bbmon measures a broadband line from a Raspberry Pi: it pings, runs speed tests, reboots the Pi
every few days, records why it restarted, and shows all of it on a dashboard with an admin page.
This directory holds TLA+ models of its parts, TLC configurations that check them on small
instances, and theorems proved with TLAPS.

Run a model with `tlc -config X.cfg M` and the proofs of a module with
`tlapm M_proofs.tla`, here.
`PROJECT.json` lists the runs, the source lines behind every definition, a mutant of the code for
every property, the hazards, and the disagreements found between the code and what is said of it.

## 1. The system

| Component | State it keeps | Operations | Talks to |
|---|---|---|---|
| Collector services: `service.py`, `pinger.py`, `speedtest.py` | result buffer, time of the last flush, stop and reload events, time the last test ended | collect, flush, wait, stop, reload, rebuild | database; systemd's signals; the config file |
| Measurement: `collectors/ping.py`, `collectors/speedtest.py` | none between two cycles | ping each target; run the Ookla client and find its result | subprocesses |
| Reboot: `reboot.py`, `init.py`, `timesync.py`, `bbmon-reboot.path`, `bbmon-reboot.service`, `bbmon-init.service` | the files `reboot-requested` and `reboot-now`, the `restarts` table, when the scheduler last asked | ask, take back, notice, reboot, clear, wait for the clock, judge and record | pinger and web app ask, by files; systemd acts; the next boot reads |
| Configuration: `config.py`, `configstore.py`, `web/app.py`, `bbmon-config.path`, `bbmon-config.service` | staged proposal, installed file, what each service runs on | save, stage, read and consume, check, install, SIGHUP, read again | web app to root helper by a file; helper to services by signals |
| Admin page: `web/adminform.py`, `web/app.py` | the pages people have open, CSRF token, running configuration | show, refuse, save | configstore; the config file |
| Query cache: `web/cache.py` | entries with their times, one lock | `get_or_call` | request threads; database |
| Charts and panels: `web/app.py`, `db.py` | none of their own | recent pings, hourly summary, restarts | cache; database; running configuration |
| CSV export: `web/export.py`, `db.py` | a connection, its snapshot, one chunk | parse the range, stream, end or break off | database; the client |
| Update and deploy: `scripts/update.sh`, `scripts/deploy.sh` | checkout, commit, unit files, dependencies, stamp, what runs | fetch, discard, merge, stamp, install, restart; rsync, stamp, restart | git, systemd, the laptop |
| Retention: `retention.py` | time of the last purge | purge when due | runs inside the ping loop |
| Schema: `db.py` | tables, index and `user_version` of one SQLite file | `initialise` | every service as it starts |
| First installation: `scripts/bootstrap.sh` | users, directories, units | idempotent set-up | systemd |

### What is hard in it

* **Files as messages.** A reboot is two files written one after the other by one process, noticed
  by systemd, deleted by a third party and read by the next boot. A save is a file that may be
  replaced while it is being read. A power cut can come between any two operations.
* **Path units.** `PathModified=` notices a write only while it watches, and does not watch while
  the service it starts runs.
* **Clocks.** The Pi has no clock that survives a power cut: the boot time, the timestamps of rows
  and the purge's cutoff are all of a clock that may be hours behind until it is synchronised.
* **Signals.** SIGTERM and SIGHUP arrive between any two steps of a loop that is rebuilt on every
  reload, and between any two reads of the configuration within one request.
* **Two processes, one schedule.** The speed test keeps out of the way of a reboot that another
  process carries out, from the same configuration read at another time.
* **Readers and writers.** Downloads of minutes and shared, cached answers, while rows are inserted
  and purged.
* **Things computed early and used late.** A chart's window, before a wait for a lock; a form, before
  an install; a stop's time limit, before anyone knew how many targets there are.
* **Scripts that stop half way**, on a checkout that two scripts change in different ways.

### What makes each correct

| Component | Properties |
|---|---|
| Reboot | one row per boot and none missing; a planned reboot is expected; a request excuses one boot at most; no reboot that nobody asked for; a due reboot happens |
| Collector service | every result stored once, in order, the oldest given up first; nothing lost by a stop or a reload; no signal lost; a stop ends it |
| Measurement | whole rounds, also when one breaks off, but for what a full buffer cuts; a stop has time for the last flush; a success is a measurement and the other way round; no output stops the service |
| Configuration | only usable files installed and run; no older save over a newer one; no proposal left lying; installed files reach every service |
| Admin page | shows what a restart would run on; proposes what it showed; keeps what was typed; never moves the database |
| Cache | one query at a time; answers recent and never going back; queries spaced; the lock given back |
| Charts and panels | boxes of whole hours with true quartiles; a list of its window; the newest restarts of the kind asked for |
| CSV export | a snapshot of its days, or a beginning of one that is not reported as whole; little memory; the connection closed |
| Speed test | no test cut by a reboot; distance between tests; reloads do not move a test; tests go on |
| Retention | nothing young deleted; nothing old kept; once an interval; failures made up for |
| Schema | the stamp never ahead of the tables; every service starts |
| Update and deploy | success means the services run the files, with their units and dependencies; the footer tells the truth |

## 2. The modules

### Reboot (`Reboot.tla`, instances in `MCReboot.tla`, proofs in `Reboot_proofs.tla`)

`request`, `trigger` and `rows` are what is on disk; everything else is lost in `Boot`.
`request_reboot` is three actions, because a crash, the other asker and the path unit can come
between them: `SchedulerCheck` or `PressButton` writes the request, `WriteTrigger` the trigger, and
`TakeBack` removes the request when the trigger was refused. `bbmon-init` is `ClearTrigger`,
`WaitForSync`, `RecordStartup` (which reads and deletes the request) and `InsertRestart`. Writing a file
truncates it first, so a failed write of the request may leave an empty one (`whole` is false), which
counts as a request like any other.
`StartWatch`, `PathFires`, `RemoveTrigger` and `OrderReboot` are the two units. `RerunInit` is the
restart of `bbmon-init` by `update.sh`, which takes everything that `Requires=` it along.

Time: boot *n* is at 2*n* and what `bbmon-init` does in it at 2*n*+1. A clock that is not
synchronised is `lag` behind, up to one and a half boots, so that a boot can seem older than the row
of the boot before. Uptime and the age of the last ask are only compared with limits and are counted
up to them.

Faults are error paths of the code (a write, a read, an unlink, the database, the schema) or losses
it cannot see (a trigger noticed by nobody, a crash of an asker). An instance has the kinds named in
its `FaultKinds`, at most `MaxFaults` of them.

### Collector service (`CollectorService.tla`, abstract specification `ResultLog.tla`, instance in `MCCollectorService.tla`, proofs in `CollectorService_proofs.tla`)

`pc` names the next step of the process: the program counter of `CollectorService.run`,
`run_until_stopped` and `pinger.main`. Signals, kills and installs of a new file interleave at
every step. `ResultLog` is what the component promises of results; `KeepsLog` is the refinement,
with `buffer` as what waits and `table` as what is stored. A SIGHUP before the handlers are there
ends the process for good (`hungup`): systemd counts an end by SIGHUP as clean. A result here is its
number.

### Ping rounds (`PingRound.tla`, proofs in `PingRound_proofs.tla` and `Services_proofs.tla`)

`PingCollector.collect` and `_ping`, target by target, with every way a ping can end and every time
it can take within its limit; `Keep`, `Flush`, `Between`, `Check` and `Exit` are the loop of `run`. A
write may fail, after up to its busy timeout, which leaves the buffer for the next (`Write`), or end the
loop; the cap then deletes the oldest results, wherever in a round that is (`Newest`); the purge of
`between_cycles` takes up to a busy timeout too, also after a SIGTERM. Time is counted only after a
SIGTERM, in units of five seconds, and `Kill` is possible as soon as what the process is at can last
past `StopTime`.

### Speed tests (`SpeedtestSchedule.tla`, `SpeedtestOutput.tla`, proofs in `Services_proofs.tla`)

`SpeedtestSchedule`: minutes pass only while the service waits or tests. `left` is what remains of
its wait. `conf` and `pinger` are the configurations the two services run on, which differ between
two SIGHUPs.

`SpeedtestOutput`: what the Ookla client prints is a sequence of lines by kind (a result object, a log
object, another JSON value, no JSON) and what the output is as a whole; `FindResultObject`,
`ToResult` and `Collect` are translated from it to the row that is stored or the exception
that leaves `collect`. `Flush` stores a batch whole or not at all.

### Retention (`Retention.tla`, proofs in `Services_proofs.tla`)

Time is in cycles of the ping loop and kept as ages: a row is the true time since its timestamp, so a
row stamped by a clock that is behind is born old, and the cutoff in true time is `window + lag`.
`Check` is `RetentionPurge.check` with its early return, its cutoff, which may be no date, and the
purge, which may fail. `Reload` builds a new `RetentionPurge`, which has never purged.

### Configuration (`ConfigFlow.tla`, abstract specification `Mailbox.tla`, instance in `MCConfigFlow.tla`, proofs in `ConfigFlow_proofs.tla`)

One save goes through `Save`, `PathFires`, `Open`, `Consume`, `Install`, `Reload`, and each
service's handler and re-read. A configuration is its number and whether it loads, names the same
database, another one beside it or one out of the directory where the reboot trigger is watched, or is
not even text: a running service ignores a file that names another database, the helper refuses one
that leaves the directory. A run that finds no proposal succeeds, and so reloads the services all the
same. The form stages only what it
accepts; the model lets it stage anything, since the helper's checks are there for that. The web app's
handler is a stack of frames, since Python runs a handler between two bytecodes of whatever the main
thread is at, the handler itself included: a second SIGHUP may come after `reloaded` has read the file
and before the result is assigned, and the outer handler then assigns the older one. `overtaken`
records what a handler had read when it was interrupted, from the first frame until the stack is empty
and begun anew; no action reads it. `WebRunsTheFile` is what remains true: a file in `overtaken` may come back, nothing
from before. `Mailbox` is what the saves are promised: each is posted, then waits, becomes
current or is discarded, and no save becomes current after a later one; only a proposal that the
helper could not remove may be installed again. `KeepsMailbox` is the
refinement, with the saves staged or held by the helper as those that wait.

### Admin page (`AdminPage.tla`, proofs in `Web_proofs.tla`)

A configuration is a record of texts, one setting of each kind: a list of names, a number and the
database, which the form leaves out. `ToInput`, `Entries` and `ConfigFromForm` are the conversions
to and from boxes, with blank lines and several names on one; `Visit`, `Submit`, `SubmitRefused` and
`SubmitForeign` are the routes, where a submission is refused for what it says or because it could not be
staged, with the token of the process that made the page. Each browser keeps
its page while files are installed, edited by hand and reloaded and the web app restarts.

### Cache (`TimedCache.tla`, proofs in `Web_proofs.tla`)

`get_or_call` as acquire, look, query, store, per thread. A query returns the time at which it read
the database, so the age of an answer is a subtraction.

### Charts (`PingCharts.tla`, proofs in `PingCharts_proofs.tla` and `Web_proofs.tla`) and restarts (`RestartPanel.tla`, proofs in `Web_proofs.tla`)

`PingCharts` has a bag of pings, times of which are whole or broken seconds, compared as the text
`isoformat` writes (`Mark`, `AtLeast`). `Ask` fixes the window; `AnswerHourly` and `AnswerRecent` come to
the cache later, in any order, and go through `Read`: a fresh entry is the answer, whoever's window it is
of, and without one the table is queried for the request's own. Keys do not depend on each other, so a
behaviour has one `view` and one `entry`, which remembers as history when its window was fixed and what
the table held. `ChartsAreTrue` is of every answer, cached or not, and says so of the entry and of `given`, the
moment of its last use. A query takes no time here, `TimedCache` has what that adds; and the two clocks of
the code, monotonic for entries and wall clock for windows, are one. `Box` is a group of the SQL, with its
integer positions. The list of recent pings is ordered by timestamp only, so those of one timestamp come
in any order (`TextOrders`).

`RestartPanel` has requests that read the configuration at `CheckHost` and `ReadLimit`, and answer
through shared entries under `CacheKey`, while rows are recorded and the configuration changes.

### Export (`Export.tla`, proofs in `Web_proofs.tla`)

A table is a set of instants, some at midnight. `InOrder` is the query's `ORDER BY`: an instant stands
where its rank says. `Open` takes the snapshot, `Fetch` a page of it,
`Pull` a row into the chunk, `Send` the chunk to the client; the first row is pulled before the response
begins, which is where an error can still be said. `Abandon` is a client that goes away, `Write` the
collectors and the purge.

### Schema (`SchemaSetup.tla`, proofs in `Update_proofs.tla`)

`initialise` per service and statement: `Check`, `Create`, `Stamp`. Python's `sqlite3` opens no
transaction for a `CREATE` or a `PRAGMA`, so each commits by itself.

### Update and deploy (`Update.tla`, proofs in `Update_proofs.tla`)

A tree is a version per part: each service's files, the shared modules, `pyproject.toml`, the unit
files; these are what `services_for_path` and the greps of `update.sh` tell apart. Each command of
the scripts is an action, and the laptop may edit, revert and commit between any two. The stamp is
a commit and whether it is marked `+local`; `DeployStamp` takes both from git on the laptop, which may
no longer be as it was when `rsync` copied it. `Interrupted` is `set -e` or a lost session after any of them. One script
runs at a time.

### systemd and other externals

What systemd does is modelled from how the units use it and marked external in the map:
`PathModified=` fires on a write while watching, looks again for a file that came or went when its
service has ended, and not for one that is merely there at its start; `Restart=on-failure`;
`Requires=` propagating a restart; `try-reload-or-restart`; `TimeoutStopSec=`. The kernel, the clock,
git, the laptop, the Ookla client's output and whoever types into a form are external too.

### Composition

`CollectorService` is the loop of both collectors with what it calls in it (collect, flush, purge,
reload); `ConfigFlow` composes the form's save, the path unit, the helper and all the services;
`Reboot` the askers, the path unit, the service it starts and the next boot's init;
`SpeedtestSchedule` the speed test with the reboots of the ping service.

`MCServices`, `MCWeb` and `MCUpdate` put several modules into one run each: the components in them
share no state, so nothing one does depends on where another is, and interleaving them would only
multiply states. `part`, chosen at the start, says which of them moves; the others rest in an initial
state. Every behaviour of each component is a behaviour of the run, and every property is of the
component that moves. A component that comes to the end of its bounds stutters, so that deadlock is
still checked for those that never should.

## 3. The runs

| Run | Bounds | What it shows |
|---|---|---|
| `reboot_faults` | 3 boots, 2 faults of any kind, 1 press, 1 re-run, lag up to 3 | types, one row per boot, none missing, no boot loop |
| `reboot_judged` | 3 boots, 2 faults of the kinds after which the code knows what it did | planned is expected, each boot judged alone |
| `reboot_live` | 2 boots, 2 faults, the clock never synchronised or right | a due reboot happens, a refused request is taken back whatever writes fail |
| `collector` | 5 results, buffer of 4, batches of 2, 2 faults of any kind, 3 versions of the file, 1 stop | `ResultLog`, no signal lost, nothing lost without a fault, a stop ends |
| `config` | 3 saves of any kind or edits by hand, 1 crash or power cut, 2 handlers in one another, web app and one collector | `Mailbox`; installed files usable and reaching everybody |
| `services`: schedule | test intervals 6 and 8, reboot intervals 9 and 14, 1 edit, 1 fault | reboots spare tests, the wait survives reloads, tests go on |
| `services`: output | outputs of up to 3 lines, every result object, 2 tests | what is recorded is what happened |
| `services`: one, two, three | 1, 2 and 3 targets, pings up to 2, writes and the purge up to 1, a stop of 6, 4 rounds, a buffer of 7, 2 failed writes | rounds whole but for what the cap cuts, and accounted for; enough time to stop, or a bounded loss |
| `services`: keeping | windows 2, 4 and 5, the last out of reach, purges every 3, lag up to 2, 2 faults | the window is kept to, on both sides |
| `web`: cache | 2 threads, 2 keys with lifetimes 1 and 3, queries up to 2 | age of answers, spacing of queries, the lock |
| `web`: export | 3 days of 2 instants, pages of 2, chunks of 2, 2 writes or purges, 1 fault | a snapshot, in little memory |
| `web`: charts, boxes | 1 target over three hours with late flushes, 2 requests waiting, entries used for 3 and 2 instants; every bag of up to 5 pings of one hour, 2 targets and 3 latencies | the window, the columns and what the cache shares; the quartiles |
| `web`: panel | 2 requests, limits up to 2, 3 restarts, 1 reload | shared answers fit each question |
| `web`: admin | 2 browsers, 3 installs, edits, reloads or restarts, texts good and bad | the form is faithful |
| `update`: scripts | 2 services, 2 edits, 1 failing command | success means what it says |
| `update`: schema | 3 services, 3 statements, faults and power cuts, a file of no, this or another build | the stamp is a promise, every service starts |
| `speedtest_overdue`, `retention_forever`, `output_shapes`, `update_current` | smallest that shows it | a comment or document that the code contradicts (section 6) |

The exact numbers are in the `.cfg` of each.

Why the bounds are enough. Three boots are a boot, the one it is confused with and one in
between, which `JudgedOnItsOwn` needs. Two faults let one undo the recovery from the other. Five
results overflow a buffer of four during a failed flush, and a third version of the file can come
while the second is being read. Three saves are one under way, one written during it and one written
during that one's run; edits by hand share that bound, and two handlers in one another are one that
is interrupted, over and over. One collector stands for both, which differ only in whether they start
on a moved database. Cache times go beyond both lifetimes and a query. In the schedule the margin (5)
is more than a test (3), the intervals do not divide each other, and both orders of reading a new file
occur. Three lines of output let the result come before, after or between others, or twice. One target
is a stop that fits into its time whatever fails, two one that does while writes succeed, and three one
that does not, which is how the shipped units and configuration are. Two failed flushes fill a buffer of
seven, which is no multiple of three, so that the cap cuts a round. A lag of two is more than the difference of the windows. Pages and chunks are shorter
than a day, so that a download has several of each with writes between. The charts' clock begins three
hours for a window of one, so that a window could clip an hour, the hour turns while a request waits, and an
entry of one hour answers in the next. One to five samples are every remainder by four, and the least numbers. Two versions let a commit differ from the
deploy before it and from the one after.

Deadlock is left unchecked where the bounds end a behaviour: `reboot_faults` and `reboot_judged`
(no more boots), `config` (no more saves), `update` (no more edits and nothing to pull), and
`output_shapes` (no more tests).

### Fairness, and why the code has it

* `Reboot!FairSpec`: systemd runs what was asked of it, the ping loop comes round (its waits are
  bounded), time passes. No fairness of the button, of crashes, of power cuts or of re-runs.
* `CollectorService`: the process takes its next step, `Restart=on-failure` restarts it, a SIGHUP
  systemd was told to send is sent. None for stops, kills, `systemctl start` or saves.
* `ConfigFlow`: path unit and helper run, signals are handled, loops come round, services that are
  down and can start are started. None for saves, edits or crashes.
* `TimedCache`: a thread that holds the lock goes on, since SQLite's busy timeout bounds its query.
  None for getting the lock: Python's `Lock` promises no order.
* `SpeedtestSchedule`: time passes, the service runs, a test comes to its end (its time limit), a
  due reboot is carried out when `RebootWorks`.
* `Retention`: the service is started and its loop comes round. None for the clock being set.
* `SchemaSetup`: each service takes its steps and is started again when it ended.

`Export`, `PingCharts`, `RestartPanel`, `AdminPage`, `PingRound`, `SpeedtestOutput` and `Update` have
safety properties only and state none.

## 4. What is proved

Every theorem is for all values of the constants that the assumption of its module allows; what it
assumes beyond that is in its statement and named here. The invariants behind the theorems are
the last section of the module they are about, or the beginning of its proofs;
each was checked with TLC, on the run of its module, before it was proved.

### `Reboot_proofs.tla`

For every interval, retry time, lag, number of boots, faults, presses and re-runs
(`RebootAssumption`):

* `TypeCorrect`: `[]TypeOK`.
* `RebootsAreAsked`: `[]NoUnaskedReboot`, for every set of faults. The invariant is `TriggerInv`: a
  write the path unit has yet to act on was made in this boot. It is needed because the service is
  started from `noticed`, a step before it shows; it is inductive because `Boot` forgets `noticed`
  and `StartWatch` does not look at the file.
* `OneRowEach` and `BootsAreRecorded`: `[]OneRowPerBoot` and `[]EveryBootRecorded`, assuming
  `~SyncMayFail`. The invariant is `RecordInv`: past the wait the clock is right, so every row carries
  its own boot's time and comparing times compares boots. Without the assumption a boot may be
  recorded with the time of an earlier one, or taken for one that has its row (section 6).
* `RestartsJudgedAlone`: `[]JudgedOnItsOwn`, assuming that requests can be read and deleted
  (`"read"` and `"unlink"` are not among the faults). The invariant is `RequestInv`: no row is
  newer than the request that stands, or than the one `bbmon-init` has in its hands; it holds because
  a row is written only after the request was taken away, and askers only run once
  `bbmon-init` is done.
* `PlannedRebootsAreExpected`: `[]PlannedIsExpected`, assuming that triggers can be written, requests
  read, and that no update re-runs `bbmon-init`. The invariant `PlannedInv` follows the request: a
  reboot on its way has one behind it, from the ask to the boot that judges it. Each hypothesis
  is the last thing that can break it: a refused trigger takes back the other asker's request, an
  unreadable request does not count, and a re-run takes the request of a reboot that is under way.
  Failed deletes, crashes of an asker and database errors may happen.
* `RefusedRequestsAreTakenBack`: `[]StandingRequestWasTriggered`, assuming no failing delete, read or
  insert and no crash of an asker; writes of either file may fail. The invariant is `StandingInv`: an
  untriggered whole request of this boot is in the hands of an asker that has yet to trigger it or take
  it back. What a failed write leaves is not whole, and nobody takes it back (section 6).

The lemmas `RecordFrame` and `RowBoots` carry the steps that touch no row.

### `CollectorService_proofs.tla`

For every capacity, batch, flush interval and set of faults, and any number of results, faults,
versions of the file and stops (`CollectorAssumption`):

* `TypeCorrect`: `[]TypeOK`, which bounds the buffer by `Cap`. The lemmas before it say what `\o`,
  numbering and `KeepNewest` return.
* `ImplementsLog`: `Spec => KeepsLog`, the refinement of `ResultLog`. Every step either leaves
  the table and keeps or loses the buffer (`QuietStep`), writes all of it (`StoreStep`) or measures
  (`MeasureStep`); a cycle that measures nothing is a stutter because the buffer is within `Cap`.
* `SignalsHeard`: `[]SignalsAreHeard`, from `RequestsAreHeard` (`[]RequestsWake`, inductive as it
  stands) and `ReloadsAnswered` (`[]ReloadsAreAnswered`). The invariant of the latter is `ReloadInv`,
  which says it also of a process that is about to install its handlers: without that part, installing
  them could make an old SIGHUP count.
* `NothingLost`: `[]NothingLostWithoutFault`, assuming `CapHoldsAnInterval`: the buffer holds what one
  flush interval measures. In the code that is 5000 results against the 36 that three targets give in
  the 60 seconds between flushes. The invariant `RoomInv` counts: no more waits than was measured
  since the last flush, so there is room for another cycle wherever the loop measures one, and nothing
  waits once the loop is left. Without the assumption results go for want of room, as they must.

### `ConfigFlow_proofs.tla`

For either set of collectors and any number of saves, edits by hand, crashes and nested handlers
(`ConfigAssumption`):

* `TypeCorrect`, and `UsableOnly`: `[]OnlyUsableFiles`. The part that has to be added is `FramesInv`:
  what the web app's handlers are about to assign is usable too.
* `WebFollowsFile`: `[]WebRunsTheFile`, with handlers nested to any depth. `WebInv`: what a frame below
  the top has read is in `overtaken`; and unless a signal has yet to be sent or handled, the innermost
  handler is about to read the file, or to assign what a reload leaves or something overtaken.
* `ImplementsMailbox`: `Spec => KeepsMailbox`, the refinement of `Mailbox`. `BoxInv`: what the helper
  holds is a save not later than the staged one, and those two are all that is under way. So the one
  that is installed has nothing older than itself waiting, and `WaitingFew` gets from it that at most
  two wait.

### `Services_proofs.tla`, `PingRound_proofs.tla`

About the services' behaviours as the run `services` has them (`PartSpec`). For any intervals,
margins, edits, stops and faults of the speed test (`ScheduleAssumption`: a longest test interval exists,
a test is no longer than the margin, and every reboot interval is longer than that):

* `RebootsSpareTests`: `[]RebootSparesTests`, and `TestsAreSpaced`: `TestsKeepTheInterval`. The
  invariant `ScheduleInv` says that a test that began with the uptime known ends before the reboot
  (`TestFitsBeforeReboot`), and that from the end of a wait to the test the interval has passed, or a
  request has ended the wait and goes first. `NotImminent` is the arithmetic of the margin.

For outputs of any number of lines:

* `SpeedtestsAreTrue`: `[]ResultsAreTrue`. `OutputInv` keeps the parts of one test together; the rest is
  about `FindResultObject`. That it finds the last result needs that a finite set of lines has a last
  one (`LastLine`), from the library's theorem on minimal elements.

For any finite set of windows, interval, lag and number of faults (`RetentionAssumption`):

* `NoPingOverstays`: `[]NothingOverstays`. The invariant is `KeptInv`: while a process lives and has
  purged within the interval, no row is older than the window, what the clock was behind at that purge
  and the time since. It holds of new rows because the clock only moves forward while the process
  lives, so they are stamped at most `lagThen` behind. `LongestDated` gives the longest window that can
  be counted back.
* `TheWindowIsKept`: `WindowIsKept`, from types alone.

For any number of targets, rounds and failing writes, any cap and any limits on a ping, a write and a
stop, in `PingRound_proofs`:

* `RoundsStayWhole`: `[]RoundsAreWhole`. `WholeInv` says it of the table and of the buffer separately, that
  the latter's rounds are the later, that the round under way has got as far as it has, and that all
  else was lost. `Chain` is what both are: each result followed by the round's next or, after the
  round's last, by a later round. It is kept by appending later rounds (`ChainConcat`) and by the cap's
  deletion of the oldest (`NewestChain`).
* `StopsLeaveTime`: `[]StopsAreInTime`. `FlushInv` bounds what waits by what the interval measures as long
  as no write has failed, so a kill costs no more than that; `StopInv` says that the time used and what
  remains at its slowest (`Remaining`) fit into a stop that is as long as a whole round, the purge, the
  final flush and, if one has failed, the flush that was due.

`RoundAssumption` is a hypothesis there. `Services_proofs` discharges it for the three instances of the
run and states the same of the run's own definitions: `PingRoundsAreWhole`, `RoundsEndInTime`. The lemmas
`SameOne`, `SameTwo` and `SameThree` say that the proofs' copies of the module are the run's.

### `Update_proofs.tla`

About `PartSpec` of `MCUpdate`, for any services, files, and number of edits, pushes and faults:

* `SuccessRuns`: `[]SuccessIsRunning`, and `StampIsTrue`: `[]StampNamesTheTree`. `UpdateInv` has three
  parts. `ScriptInv`: what the script goes by, such as the commit it began from. It holds
  whatever failed before and whatever is done on the laptop, and is enough for the stamp: a deploy
  that wrote a wrong one has `strayed`. `InstalledInv`: dependencies and
  units are those of the commit checked out, or of the one before until the script has come to them.
  `RunningInv`: a service that the script need not restart any more runs what is in the checkout; the
  point is `NeedsNoRestart`, which for an update that found nothing new, and for a deploy, includes the
  services whose files did not change.
* `StampPromises`: `[]StampIsAPromise`, for any services, versions and number of statements of the
  schema. The invariant is `Progress`: the statements a service has got through are there, since nobody
  takes a table away, and it only gets that far on a file of its own version or none.
  `StampIsAPromise` alone is not inductive: `Stamp` does not look at the tables.

### `Web_proofs.tla`

Everything here is of the run's `PartSpec`, whichever part moves.

For any threads, keys, lifetimes and length of query (`CacheAssumption`): `TypeCorrect`,
`QueriesAreShared` (`[]OneQueryAtATime`), `AnswersRecent`, `AnswersMonotonic` and `QueriesSpaced` (the
action properties `AnswersAreRecent`, `AnswersNeverGoBack`, `QueriesAreSpaced`). One invariant,
`CacheInv`, is behind all of them. `LockInv`: exactly the thread that holds the lock is past the `with`.
`EntryInv`: an entry was stamped after its query had read the database, by at most a query. `QueryInv`: a
running query began after every entry there is was stored, so what it reads is newer than what was
shown. `CacheSteps`: a step of the app is one of the cache or leaves it alone.

For days of any length, any table, pages and chunks of any size, and any number of writes, purges and
faults meanwhile (`ExportAssumption`):

* `RowsOnceInOrder`: what `InOrder` returns for a finite set of instants has each of them, once and
  ascending. A set of naturals with an empty rank would have a least empty rank, which contradicts
  the next larger element of the one before it.
* `DownloadsTrue`: `[]DownloadsAreSnapshots`. The invariant is `ExportInv`; at its centre `LinesInv`: the
  lines sent, buffered, fetched and still in SQLite, in this order, are always the snapshot, with the
  header once there is a line. `ChunkInv` says how full the buffer is and that the status goes with the
  first line, which is what makes an error before it one that can be said. `RangeIsItsDays` is that
  comparing with two midnights selects whole days.

For any requests and limits, and any number of restarts and reloads (`PanelAssumption`):

* `ListsAreTheNewest`: `[]AnswersAreTheNewest`. `NewestComeFirst` is the order of the query, by the same
  argument as `RowsOnceInOrder`; `TheRowsListed` says what filtering, ordering and limiting return. Of
  the cache, `EntryInv` needs that rows are never rewritten, so that what was true of them at the query
  still is.

For any browsers and number of changes:

* `FormsTrue`: `FormsAreFaithful`. `PageInv` has two parts. A page that says what it shows has the texts
  of that, and the running configuration and every proposal name the database that is watched; the
  second is inductive because a reload refuses another database, and a start refuses to run on one. That
  showing and reading back lose nothing (`ReadBack`) rests on `FlattenSeq`, which is defined by recursion:
  `FlattenUnfolds` shows that its equation has a solution, and every later lemma finds a first
  place where it would go wrong.

For any targets, hours, windows, lifetimes, latencies and numbers of pings and requests (`ChartAssumption`):

* `ChartsTrue`: `[]ChartsAreTrue`, from `PingCharts_proofs` for both instances of the run. `SameCharts`
  and `SameBoxes` say that the proofs' copies of the module are the run's; `ViewInv` is `ChartInv` of
  whichever instance moves.

### `PingCharts_proofs.tla`

For any constants that `ChartAssumption` allows; the only sets it asks to be finite are the targets.

* `ViewsAreTrue`: `[]ChartsAreTrue`. The invariant is `ChartInv`: the table has no ping of a time to come
  and no more than were written (`IsTable`), and the entry is what such a table said of the window of the
  request that queried, and was last used within its lifetime (`EntryInv`). It speaks of the entry and its
  history only, so flushes and later requests leave it alone (`EntryStays`), whatever their windows.
  `AnswersAreTrue` gets the property from it, and needs most of the module:
  * *Sums.* `Size` is the community modules' `MapThenSumSet`, a recursive function on subsets chosen by
    its equation. `SizeCounts`: for a finite bag it is the cardinality of the set of copies (`Copies`).
    The counting function satisfies the equation, so there is one that does; and the one chosen
    counts, since a smallest set for which it did not would, without one of its elements, be a smaller
    one. From there `SizeAdds`, `SizeGrows`, `SizeIsNat` and `SizeOfOneMore` are facts about cardinalities.
  * *Ranks.* `RankedStands`: the latency at rank k of `Ranked`, which flattens one run of samples per
    latency, is the first up to which there are k samples. `FlattenUnfolds` gives the stages
    of the flattening; a first latency after which a stage is wrong would have a right one before it.
    `RanksOfFourths` is the arithmetic of the integer positions, `StandsIsQuantile`, `FirstIsLeast` and
    `LastIsGreatest` turn ranks into the five numbers of `BoxIsTrue`.
  * *Windows.* `TextIsTime`: comparing timestamps as text is comparing instants. `WholeHours`: a window
    that begins with an hour takes each hour whole or not at all. `ListedInOrder`: a sequence without
    repetition as long as its set has every element.

### What is only model-checked, and why

* Liveness (`DueRebootHappens`, `StopEnds`, `ResultsLeaveTheBuffer`, `OverlappingSavesAreRuledOn`,
  `ServicesConverge`, `SpeedtestsGoOn`, `OldPingsGo`, `LockIsGivenBack`, `ServicesStart`): fairness and
  `ENABLED` are out of the prover's reach.

Every other property of a passing run is a theorem.

## 5. What is left out

* The speed test's two queries (a latest row and a list) and their routes, how the build stamp is
  worded and shown, and the bounds of query parameters: each is a function of its input.
* Which host names are allowed: `RestartPanel` has the check and when it reads the configuration, not
  the comparison of names.
* The text of pages, CSV cells, log lines and reasons; the pattern that finds a latency in `ping`'s
  output, which is found or not; the checks of a host name or a port, which are a verdict.
* `configstore`'s checks of a proposal's owner and file type are verdicts: a proposal they refuse
  goes the way of one that does not load.
* `RebootScheduler.check` reading the uptime a second time after a successful ask, outside its
  handler: `/proc/uptime` was readable a moment before.
* The dashboard's page and drawing in the browser, and `tools/render-dashboard.js`.
* `bootstrap.sh`: run once by hand, from a clean machine.
* Restart limits of systemd (`StartLimitBurst=`) and its ordering of units at boot, beyond "after
  `bbmon-init`".

## 6. Where code and text disagree

Shown by a run each, with the lines quoted in `PROJECT.json`:

* `speedtest_overdue`: once a reboot is overdue and does not happen, no speed test runs again.
* `retention_forever`: a `retention.ping_days` longer than the calendar is valid and ends the ping
  service in every first cycle.
* `output_shapes`: a server that is a text, or a number too large for a float, stops the speed test
  service; an `isp` that is an object makes a row that blocks the buffer.
* `update_current`: an update without a new commit, after a deploy, restarts nothing and leaves
  services on files it has just discarded.

Stated in a module, known not to hold, and not spent a run on. Each fails under its module's `Spec`
with the constants of the passing run that has the module, unless others are named:

| Property | What the code does |
|---|---|
| `CollectorService!WritesNeverRaise` | an error of `connect`'s PRAGMA is a `sqlite3.Error`, past a flush that is "keeping it intact if the write fails" and a purge that "Never raises" |
| `CollectorService!ReloadKeepsResults` | when the last flush before a reload fails, what it keeps for the next flush goes with the service object |
| `CollectorService!ReloadEndsNothing` | a SIGHUP during start-up ends the service and systemd does not start it again |
| `ConfigFlow!NoProposalConsumedUnread` | a save that arrives between the helper's open and its unlink is deleted unread |
| `ConfigFlow!ProposalsAreRuledOn` | a third save, made while the helper is at work on one that came during a run, is left lying until the next |
| `ConfigFlow!ReloadsEndNoService` | a file that is no UTF-8 raises `UnicodeDecodeError` past `load` and `reloaded`, which "Never raises" |
| `ConfigFlow!WebRunsTheLatest` | two files installed within one run of the web app's handler: the interrupted handler assigns the older one |
| `AdminPage!NeverADeadEnd`, with `"garbled"` in `Broken` | for such a file the admin page is an error, "Still a form, not a dead end" |
| `SpeedtestSchedule!StopFinishesTest` | a stop reaches the client too, and its time limit is shorter than a test's |
| `PingRound!StopLeavesTimeToFlush`, with 3 targets | the shipped three targets and a write may take 35 seconds of `TimeoutStopSec=30`, and up to 45 with the purge and a failed flush |
| `PingCharts!ColumnsFit` | when the hour turns during the wait for the lock, 25 columns for a "window labelled 24" |
| `RestartPanel!RequestSeesOneConfig` | a request reads the running configuration several times; "never a mixture of the two" holds of each read |
| `Reboot!EveryBootRecorded`, with `SyncMayFail = TRUE` | `requirements.md` wants one row per boot, and a boot whose clock stays behind the last row gets none |
| `Reboot!PlannedIsExpected`, with the `trigger` fault | one asker's refusal takes back the other's request |
| `Reboot!JudgedOnItsOwn`, with the `read` fault | an unreadable request is left in place |
| `Reboot!NothingLeftLyingAround`, with the `request` fault | writing the request empties the file first; an empty one that a failed write leaves is not taken back, and excuses the next power cut ("a request left lying around would make the next unexpected restart [...] look like this planned one") |
| `Reboot!RowWrittenBeforeReboot` | `bbmon-reboot.service`'s comment speaks of the row where the code writes the request |
| `Update!DeploySuccessRunsTheTree` | a deploy whose restart failed does not repeat it when it is run again |
| `Update!UnmarkedIsWhatWasCopied` | the stamp asks git on the laptop after `rsync`; work reverted, or an edit committed, in between makes it "name a commit that is not what was actually copied" |
| `Update!ServicesLeftRunning` | `update.sh` says so when `bbmon-init` fails, although `Requires=` stops them |

Not a contradiction, but worth knowing: of two people who save the admin form at once the later takes
back the earlier one's settings, since the form carries all of them; `web.restart_limit` has no upper
bound, and from 2^63 on SQLite cannot bind it; a download up to 9999-12-31 is an internal server
error, since there is no midnight after it.

## 7. The plan

Done, in this order: `Reboot` with its first proofs; `CollectorService` refining `ResultLog`;
`ConfigFlow` refining `Mailbox`; `TimedCache`; `SpeedtestSchedule`; `Update`; `Retention`; `PingRound`;
`SpeedtestOutput`; `Export`; `AdminPage`; `PingCharts`; `RestartPanel`; `SchemaSetup`; then the proofs
of section 4, for every safety property of the runs.

Next, models: the ordering of units at boot as a graph, with the cycle that
`DefaultDependencies=no` avoids; a composition of `Reboot` and `SpeedtestSchedule` over one uptime, to
replace the latter's `Reboot`.
