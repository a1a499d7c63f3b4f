----------------------------- MODULE ConfigFlow -----------------------------
(***************************************************************************)
(* How a setting saved on the admin page reaches the running services.     *)
(*                                                                         *)
(* The web app stages a proposal (configstore.stage), bbmon-config.path    *)
(* notices it and has systemd run bbmon-config.service, whose main reads   *)
(* and consumes the proposal, checks it and installs it; systemd then      *)
(* sends SIGHUP to the three services, and each reads the file again.      *)
(* Saves, the root helper, the three services and a power cut interleave   *)
(* at every file operation.                                                *)
(*                                                                         *)
(* Data.  A configuration is the number of the save it came from and       *)
(* whether it can be used: "good", "renames" (it loads, and names another  *)
(* database in the watched directory), "moves" (it loads, and its database *)
(* leaves the watched directory), "invalid" (load refuses it), or          *)
(* "garbled" (reading it raises what load does not turn into a             *)
(* ConfigError: bytes that are not text, a date YAML cannot build).        *)
(* Replacing a file by rename is one step, as is reading it.               *)
(***************************************************************************)
EXTENDS Naturals, Sequences

CONSTANTS
    Collectors,      \* the collector services, some of {"pinger", "speedtest"}
    MaxChanges,      \* bound: saves from the admin page and edits of the file by hand
    MaxCrashes,      \* bound: service restarts, power cuts and failures of the helper's files
    MaxHandlers      \* bound: SIGHUP handlers of the web app under way, one inside the other

ASSUME ConfigAssumption ==
    /\ Collectors \subseteq {"pinger", "speedtest"}
    /\ MaxChanges \in Nat /\ MaxCrashes \in Nat
    /\ MaxHandlers \in Nat \ {0}

Services == Collectors \cup {"web"}
Kinds == {"good", "renames", "moves", "invalid", "garbled"}
Configs == [no : Nat, kind : Kinds]
None == [no |-> 0, kind |-> "none"]
Frames == [read : BOOLEAN, config : Configs \cup {None}]
Shipped == [no |-> 0, kind |-> "good"]

VARIABLES
    staged,   \* the proposal at the watched path, or None
    file,     \* the installed configuration
    \* bbmon-config.path and bbmon-config.service
    event,    \* a write the path unit has yet to act on
    existed,  \* whether the path unit last knew the proposal to exist
    helper,   \* where the helper is
    held,     \* the proposal the helper has read, or None
    \* the services
    hup,      \* services with a SIGHUP pending
    asked,    \* collectors that have been asked to reload
    frames,   \* the web app's running SIGHUP handlers, innermost last: what was
              \* running when each began, and once it has read what reloaded returned
    running,  \* what each service runs on, or None when it is down
    \* history and bounds
    fate,     \* what became of each save
    byHand,   \* whether the installed file was last written by hand
    overtaken, \* what the web app's handlers had read when another SIGHUP interrupted
              \* them, since the last time none was running
    edits, crashes

pathVars == <<event, existed>>
helperVars == <<helper, held>>
serviceVars == <<hup, asked, frames, running, overtaken>>
vars == <<staged, file, event, existed, helper, held, hup, asked, frames, running, fate,
          byHand, overtaken, edits, crashes>>

Saved == 1..Len(fate)

Fates == {"staged", "held", "unread", "settled"}

TypeOK ==
    /\ staged \in Configs \cup {None} /\ held \in Configs \cup {None}
    /\ file \in Configs
    /\ event \in BOOLEAN /\ existed \in BOOLEAN /\ byHand \in BOOLEAN
    /\ helper \in {"idle", "open", "consume", "install", "reload"}
    /\ hup \subseteq Services /\ asked \subseteq Collectors
    /\ frames \in Seq(Frames) /\ overtaken \subseteq Configs \cup {None}
    /\ running \in [Services -> Configs \cup {None}]
    /\ fate \in Seq(Fates)
    /\ edits \in 0..MaxChanges /\ crashes \in 0..MaxCrashes

Init ==
    /\ staged = None /\ file = Shipped
    /\ event = FALSE /\ existed = FALSE
    /\ helper = "idle" /\ held = None
    /\ hup = {} /\ asked = {} /\ frames = <<>> /\ overtaken = {}
    /\ running = [s \in Services |-> Shipped]
    /\ fate = <<>> /\ byHand = FALSE /\ edits = 0 /\ crashes = 0

Crash == crashes < MaxCrashes /\ crashes' = crashes + 1

\* What the save numbered n came to.
Settle(f, n, how) == IF n = 0 THEN f ELSE [f EXCEPT ![n] = how]
-----------------------------------------------------------------------------
(* The web app *)

\* save_config, which stages only what the form accepts.  The kinds other than
\* "good" are what a mistake in the form would let through, which is what the
\* helper's own checks are for.
Save ==
    /\ running["web"] # None /\ Len(fate) + edits < MaxChanges
    /\ \E kind \in Kinds :
         staged' = [no |-> Len(fate) + 1, kind |-> kind]
    /\ fate' = Append(IF staged = held THEN fate ELSE Settle(fate, staged.no, "settled"), "staged")
    /\ event' = TRUE
    /\ UNCHANGED <<file, existed, helperVars, serviceVars, byHand, edits, crashes>>

\* Somebody edits the installed file on the machine and reloads the services.
EditByHand ==
    /\ Len(fate) + edits < MaxChanges /\ edits' = edits + 1
    /\ \E kind \in Kinds : file' = [no |-> file.no, kind |-> kind]
    /\ byHand' = TRUE
    /\ hup' = {s \in Services : running[s] # None}
    /\ UNCHANGED <<staged, pathVars, helperVars, asked, frames, running, overtaken, fate, crashes>>
-----------------------------------------------------------------------------
(* bbmon-config.path *)

\* PathModified=: a write starts the helper.  While the helper runs the path
\* unit is not watching.
PathFires ==
    /\ event /\ helper = "idle"
    /\ event' = FALSE
    /\ helper' = "open"
    /\ UNCHANGED <<staged, file, existed, held, serviceVars, fate, byHand, edits, crashes>>

\* The mutant of a path unit that looks at nothing when it resumes watching.
ResumeBlind(exists) == event' = FALSE /\ UNCHANGED existed

\* When the helper ends, the path unit looks whether the file has come or gone
\* since it last looked, and starts the helper again if so.
Resume(exists) ==
    /\ event' = (exists # existed)
    /\ existed' = exists
-----------------------------------------------------------------------------
(* bbmon-config.service: configstore.main *)

\* config.load takes it.
Loads(c) == c.kind \in {"good", "renames", "moves"}

\* Which database it names.
Database(c) == IF c.kind \in {"renames", "moves"} THEN c.kind ELSE "shipped"

\* _require_installable: load takes it, and bbmon-reboot.path watches its trigger.
Usable(c) == Loads(c) /\ c.kind # "moves"

\* os.open: the helper now has that proposal, whatever the path names later, or
\* none if it cannot be opened.  With no proposal there main succeeds all the same,
\* and ExecStartPost= follows.
Open ==
    /\ helper = "open"
    /\ \/ staged = None /\ helper' = "reload" /\ UNCHANGED <<pathVars, held, fate, crashes>>
       \/ /\ staged # None
          /\ helper' = "consume" /\ held' = staged
          /\ fate' = Settle(fate, staged.no, "held")
          /\ UNCHANGED <<pathVars, crashes>>
       \/ staged # None /\ Crash /\ helper' = "consume" /\ UNCHANGED <<pathVars, held, fate>>
    /\ UNCHANGED <<staged, file, serviceVars, byHand, edits>>

\* _consume: unlink whatever the path names now; if that fails it stays.
Consume ==
    /\ helper = "consume"
    /\ \/ /\ staged' = None
          /\ fate' = IF staged \in {None, held} THEN fate ELSE Settle(fate, staged.no, "unread")
          /\ UNCHANGED crashes
       \/ Crash /\ UNCHANGED <<staged, fate>>
    /\ IF held = None
       THEN helper' = "idle" /\ Resume(staged' # None)
       ELSE helper' = "install" /\ UNCHANGED pathVars
    /\ UNCHANGED <<file, held, serviceVars, byHand, edits>>

\* The helper is done with the proposal, unless it could not be removed; a main
\* that fails sends no reload.
Rule(next) ==
    /\ fate' = Settle(fate, held.no, IF staged = held THEN "staged" ELSE "settled")
    /\ held' = None /\ helper' = next
    /\ IF next = "idle" THEN Resume(staged # None) ELSE UNCHANGED pathVars

\* The mutant that installs whatever loads.
InstallWhatLoads ==
    /\ helper = "install"
    /\ \/ Loads(held) /\ file' = held /\ byHand' = FALSE /\ Rule("reload")
          /\ UNCHANGED crashes
       \/ ~Loads(held) /\ Rule("idle") /\ UNCHANGED <<file, byHand, crashes>>
       \/ Crash /\ Rule("idle") /\ UNCHANGED <<file, byHand>>
    /\ UNCHANGED <<staged, serviceVars, edits>>

\* The mutant that falls back to the shipped file when it cannot write.
InstallFallsBack ==
    /\ helper = "install"
    /\ \/ Usable(held) /\ file' = held /\ byHand' = FALSE /\ Rule("reload")
          /\ UNCHANGED crashes
       \/ ~Usable(held) /\ Rule("idle") /\ UNCHANGED <<file, byHand, crashes>>
       \/ Crash /\ file' = Shipped /\ Rule("idle") /\ UNCHANGED byHand
    /\ UNCHANGED <<staged, serviceVars, edits>>

\* _install_validated: load and _require_installable, then the rename.  An
\* OSError on the way leaves the installed file alone.
Install ==
    /\ helper = "install"
    /\ \/ /\ Usable(held)
          /\ file' = held /\ byHand' = FALSE
          /\ Rule("reload")
          /\ UNCHANGED crashes
       \/ ~Usable(held) /\ Rule("idle") /\ UNCHANGED <<file, byHand, crashes>>
       \/ Crash /\ Rule("idle") /\ UNCHANGED <<file, byHand>>
    /\ UNCHANGED <<staged, serviceVars, edits>>

\* The mutant of a unit whose ExecStartPost leaves the web app out.
ReloadCollectors ==
    /\ helper = "reload"
    /\ hup' = hup \cup {s \in Collectors : running[s] # None}
    /\ helper' = "idle" /\ Resume(staged # None)
    /\ UNCHANGED <<staged, file, held, asked, frames, running, overtaken, fate, byHand, edits,
                   crashes>>

\* ExecStartPost=-systemctl try-reload-or-restart.
Reload ==
    /\ helper = "reload"
    /\ hup' = hup \cup {s \in Services : running[s] # None}
    /\ helper' = "idle" /\ Resume(staged # None)
    /\ UNCHANGED <<staged, file, held, asked, frames, running, overtaken, fate, byHand, edits,
                   crashes>>
-----------------------------------------------------------------------------
(* The services *)

serviceFrame == <<staged, file, pathVars, helperVars, fate, byHand, edits>>

\* Reading the file raises past ConfigError, through reloaded, and out of main or
\* the handler: the process is gone.
Garbled == file.kind = "garbled"

\* config.reloaded: a file that does not load, or that names another database
\* than the running one, leaves the running one in place.
Reloaded(now, was) == IF Loads(now) /\ Database(now) = Database(was) THEN now ELSE was

\* The handler of run_until_stopped sets the request...
CollectorSignalled(s) ==
    /\ s \in hup
    /\ hup' = hup \ {s} /\ asked' = asked \cup {s}
    /\ UNCHANGED <<frames, running, overtaken, serviceFrame, crashes>>

\* The mutant of a main that rebuilds from what it had.
RebuildFromOld(s) ==
    /\ s \in asked
    /\ asked' = asked \ {s}
    /\ UNCHANGED <<running, hup, frames, overtaken, serviceFrame, crashes>>

\* ...and main clears it and rebuilds the service from the file.
Rebuild(s) ==
    /\ s \in asked
    /\ asked' = asked \ {s}
    /\ running' = [running EXCEPT ![s] = IF Garbled THEN None ELSE Reloaded(file, running[s])]
    /\ hup' = IF Garbled THEN hup \ {s} ELSE hup
    /\ UNCHANGED <<frames, overtaken, serviceFrame, crashes>>

Top == frames[Len(frames)]

\* The web app's handler starts and looks what is running; Python runs it on the
\* main thread, between two bytecodes of whatever runs there, which may be this
\* handler.
WebSignalled ==
    /\ "web" \in hup /\ Len(frames) < MaxHandlers
    /\ hup' = hup \ {"web"}
    /\ \/ frames = <<>> /\ overtaken' = {}
       \/ /\ frames # <<>>
          /\ overtaken' = IF Top.read THEN overtaken \cup {Top.config} ELSE overtaken
    /\ frames' = Append(frames, [read |-> FALSE, config |-> running["web"]])
    /\ UNCHANGED <<asked, running, serviceFrame, crashes>>

\* RunningConfig.reload: what reloaded returns...
WebReads ==
    /\ frames # <<>> /\ ~Top.read
    /\ \/ /\ ~Garbled
          /\ frames' = [frames EXCEPT ![Len(frames)] =
                           [read |-> TRUE, config |-> Reloaded(file, Top.config)]]
          /\ UNCHANGED <<hup, running, overtaken>>
       \/ /\ Garbled
          /\ running' = [running EXCEPT !["web"] = None]
          /\ frames' = <<>> /\ hup' = hup \ {"web"} /\ overtaken' = {}
    /\ UNCHANGED <<asked, serviceFrame, crashes>>

\* ...becomes the running configuration, and the handler returns.
WebAssigns ==
    /\ frames # <<>> /\ Top.read
    /\ running' = [running EXCEPT !["web"] = Top.config]
    /\ frames' = SubSeq(frames, 1, Len(frames) - 1)
    /\ UNCHANGED <<hup, asked, overtaken, serviceFrame, crashes>>

Forget(s) ==
    /\ hup' = hup \ {s} /\ asked' = asked \ {s}
    /\ frames' = IF s = "web" THEN <<>> ELSE frames
    /\ overtaken' = IF s = "web" THEN {} ELSE overtaken

Stop(s) ==
    /\ running[s] # None /\ Crash
    /\ running' = [running EXCEPT ![s] = None]
    /\ Forget(s)
    /\ UNCHANGED serviceFrame

\* main loads the file.  The pinger and the web app also refuse to start on a
\* configuration that moves the reboot trigger; the speed test has none.
Start(s) ==
    /\ running[s] = None
    /\ Usable(file) \/ (s = "speedtest" /\ Loads(file))
    /\ running' = [running EXCEPT ![s] = file]
    /\ UNCHANGED <<hup, asked, frames, overtaken, serviceFrame, crashes>>

\* The machine loses power and comes back.  A proposal that is there when the
\* path unit starts does not fire it.
PowerCut ==
    /\ Crash
    /\ helper' = "idle" /\ held' = None
    /\ fate' = Settle(Settle(fate, held.no, "settled"), staged.no, "settled")
    /\ event' = FALSE /\ existed' = (staged # None)
    /\ hup' = {} /\ asked' = {} /\ frames' = <<>> /\ overtaken' = {}
    /\ running' = [s \in Services |-> None]
    /\ UNCHANGED <<staged, file, byHand, edits>>
-----------------------------------------------------------------------------
Helper == Open \/ Consume \/ Install \/ Reload
Web == WebSignalled \/ WebReads \/ WebAssigns

Next ==
    \/ Save \/ EditByHand \/ PathFires \/ Helper \/ Web \/ PowerCut
    \/ \E s \in Collectors : CollectorSignalled(s) \/ Rebuild(s)
    \/ \E s \in Services : Stop(s) \/ Start(s)

\* systemd runs what it has been asked to run, and the services handle their
\* signals and come round their loops.  Nobody has to save anything.
Fairness ==
    /\ WF_vars(PathFires) /\ WF_vars(Helper) /\ WF_vars(Web)
    /\ \A s \in Collectors : WF_vars(CollectorSignalled(s)) /\ WF_vars(Rebuild(s))
    /\ \A s \in Services : WF_vars(Start(s))

Spec == Init /\ [][Next]_vars /\ Fairness
-----------------------------------------------------------------------------
(* Properties *)

\* The helper's checks hold whatever was staged: nothing but a usable
\* configuration that keeps the reboot trigger watched is ever installed.
OnlyUsableInstalled == ~byHand => Usable(file)

\* A reload never puts a service on a file it could not have started with.
RunsOnlyUsable ==
    \A s \in Services :
        running[s] # None => Usable(running[s]) \/ (s = "speedtest" /\ Loads(running[s]))

\* Neither a save nor a reload puts a file in use that the checks would refuse.
OnlyUsableFiles == OnlyUsableInstalled /\ RunsOnlyUsable

\* The saves under way.
Waiting == {n \in Saved : fate[n] \in {"staged", "held"}}

\* A save and its installation keep what Mailbox promises: of two saves the later
\* one wins, and no save that was taken out of the box is installed twice, whatever
\* the order of runs, restarts, failures and power cuts.
Box == INSTANCE Mailbox WITH
    posted <- Len(fate),
    waiting <- Waiting,
    current <- file.no
KeepsMailbox == Box!Spec

\* A proposal is ruled on, replaced by a newer save, or cut off by a power cut.
RuledOn == staged = None \/ fate[staged.no] # "staged"

\* A save made while the helper is busy with another is ruled on too, as long as
\* the helper was not already at work on one such.
OverlappingSavesAreRuledOn == []<>(RuledOn \/ existed)

\* bbmon/web/app.py of a proposal: "It is installed within a moment or two".  At
\* the least none is left lying, however many saves there are.
ProposalsAreRuledOn == []<>RuledOn

\* What a reload leaves a service on that ran on c: the file, unless that names
\* another database.
Stays(c) == c = file \/ Database(c) # Database(file)

\* What a service may go on running on; the web app's handler may have been overtaken.
UpToDate(s) == Stays(running[s]) \/ (s = "web" /\ running[s] \in overtaken)

\* What is installed reaches every service that runs, without a restart, unless it
\* names another database; the web app may fall back on what a handler had read
\* when the next SIGHUP interrupted it.
ServicesConverge == \A s \in Services : []<>((running[s] # None /\ UpToDate(s)) \/ byHand)

\* bbmon/config.py on reloaded: "Never raises", so that a service does not stop
\* "because someone saved a typo".
ReloadsEndNoService ==
    [][\A s \in Services : running[s] # None /\ running'[s] = None => crashes' # crashes]_vars

\* bbmon/configstore.py: what is consumed is "a proposal that has been ruled on".
NoProposalConsumedUnread == \A n \in Saved : fate[n] # "unread"

\* Once nothing is left to signal or to handle, the web app runs on the installed
\* file, also when SIGHUPs interrupted its handler.  What they can do is to bring
\* back a file that a handler had read when it was interrupted, and none from before.
WebRunsTheFile ==
    helper = "idle" /\ "web" \notin hup /\ frames = <<>> /\ ~byHand /\ running["web"] # None
        => UpToDate("web")

\* bbmon/config.py on reloaded: "The configuration file as it now reads".
WebRunsTheLatest ==
    helper = "idle" /\ "web" \notin hup /\ frames = <<>> /\ ~byHand /\ running["web"] # None
        => Stays(running["web"])
=============================================================================
