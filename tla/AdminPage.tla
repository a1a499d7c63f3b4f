------------------------------ MODULE AdminPage ------------------------------
(***************************************************************************)
(* The admin page: what its form shows, what a browser may have made of it *)
(* by the time it is submitted, and what bbmon/web/app.py and              *)
(* bbmon/web/adminform.py make of that, while configurations are           *)
(* installed, reloaded and edited by hand, and the web app restarts.       *)
(*                                                                         *)
(* Data.  Of the ten settings three stand for all: ping.targets for the    *)
(* lists, web.restart_limit for the numbers, and database.path, the one    *)
(* the form leaves out.  What an input box holds is a sequence of lines,   *)
(* each a sequence of what its commas separate; Blank stands for text that *)
(* is nothing once stripped.                                               *)
(***************************************************************************)
EXTENDS Integers, Sequences, SequencesExt

CONSTANTS
    Browsers,
    Typed,     \* what somebody types into the box of each field
    Broken,    \* kinds of unusable file an edit by hand may leave
    MaxChanges \* bound: fields typed into, edits by hand, restarts

AdminAssumption ==
    /\ DOMAIN Typed = {"targets", "limit"}
    /\ Broken \subseteq {"invalid", "garbled"}
    /\ MaxChanges \in Nat

Blank == "blank"
Names == {"a", "b"}
Databases == {"db", "elsewhere"}
Fields == {"targets", "limit"}

\* Config: constructing one validates it.
Valid(c) ==
    /\ c.targets # <<>> /\ \A i \in DOMAIN c.targets : c.targets[i] \in Names
    /\ c.limit \in {"1", "2"}

Shipped == [targets |-> <<"a", "b">>, limit |-> "1", db |-> "db"]

\* A configuration file that load refuses, or that makes it raise something else.
Unusable(kind) == [kind |-> kind]
Usable(f) == "targets" \in DOMAIN f

VARIABLES
    file,     \* the configuration file, or what is wrong with it
    running,  \* RunningConfig.config, or None when the web app is down
    process,  \* which process serves, which is what its CSRF token says
    staged,   \* the proposal for the root helper, or None
    page,     \* the admin page open in each browser, or None
    \* history and bounds
    reply,    \* what the last request of each browser was answered
    changes

vars == <<file, running, process, staged, page, reply, changes>>

None == [none |-> TRUE]

Init ==
    /\ file = Shipped /\ running = Shipped /\ process = 1 /\ staged = None
    /\ page = [b \in Browsers |-> None] /\ reply = [b \in Browsers |-> "none"]
    /\ changes = 0

Change == changes < MaxChanges /\ changes' = changes + 1
Up == running # None

Texts == Seq(Seq(Names \cup {Blank, "0", "1", "2", "x"}))

TypeOK ==
    /\ Usable(file) => Valid(file)
    /\ Up => Valid(running)
    /\ staged # None => Valid(staged)
    /\ process \in 1..(MaxChanges + 1) /\ changes \in 0..MaxChanges
    /\ \A b \in Browsers :
         page[b] # None => /\ page[b].token \in 1..process
                           /\ page[b].values \in [Fields -> Texts]
-----------------------------------------------------------------------------
(* adminform.py *)

\* _to_input: an entry per line, or the text of the value.
ToInput(value) == [i \in DOMAIN value |-> <<value[i]>>]

\* values_from_config.
ValuesFromConfig(c) == [targets |-> ToInput(c.targets), limit |-> ToInput(<<c.limit>>)]

WithoutBlanks(entries) ==
    FlattenSeq([i \in DOMAIN entries |-> IF entries[i] = Blank THEN <<>> ELSE <<entries[i]>>])

\* _to_list, and for one line strip: entries of all lines, blanks dropped.
Entries(text) == WithoutBlanks(FlattenSeq(text))

\* The mutant that takes the database from the file.
ConfigFromFormAndFile(values, now) ==
    [targets |-> Entries(values.targets),
     limit |-> IF Len(Entries(values.limit)) = 1 THEN Entries(values.limit)[1] ELSE Blank,
     db |-> IF Usable(file) THEN file.db ELSE now.db]

\* config_from_form: the form's settings and the database of the running one.
ConfigFromForm(values, now) ==
    [targets |-> Entries(values.targets),
     limit |-> IF Len(Entries(values.limit)) = 1 THEN Entries(values.limit)[1] ELSE Blank,
     db |-> now.db]
-----------------------------------------------------------------------------
(* The routes *)

Open(b, values, shows) ==
    page' = [page EXCEPT ![b] = [values |-> values, token |-> process, shows |-> shows]]

Answer(b, how) == reply' = [reply EXCEPT ![b] = how]

\* GET /admin: the settings of the file, or of this process when load refuses the
\* file.
Visit(b) ==
    /\ Up
    /\ \/ Usable(file) /\ Open(b, ValuesFromConfig(file), file) /\ Answer(b, "shown")
       \/ /\ file = Unusable("invalid")
          /\ Open(b, ValuesFromConfig(running), running) /\ Answer(b, "shown")
       \/ /\ file = Unusable("garbled")
          /\ page' = [page EXCEPT ![b] = None] /\ Answer(b, "error")
    /\ UNCHANGED <<file, running, process, staged, changes>>

\* POST /admin from a page of an earlier process.
SubmitForeign(b) ==
    /\ Up /\ page[b] # None /\ page[b].token # process
    /\ page' = [page EXCEPT ![b] = None] /\ Answer(b, "forbidden")
    /\ UNCHANGED <<file, running, process, staged, changes>>

\* POST /admin of settings that make no Config, or that cannot be staged, which leaves
\* what was staged before: the page comes back as submitted.
SubmitRefused(b) ==
    /\ Up /\ page[b] # None /\ page[b].token = process
    /\ Open(b, page[b].values, None) /\ Answer(b, "refused")
    /\ UNCHANGED <<file, running, process, staged, changes>>

\* POST /admin: the configuration is staged, in place of one not yet ruled on.
Submit(b) ==
    /\ Up /\ page[b] # None /\ page[b].token = process
    /\ Valid(ConfigFromForm(page[b].values, running))
    /\ staged' = ConfigFromForm(page[b].values, running)
    /\ page' = [page EXCEPT ![b] = None] /\ Answer(b, "proposed")
    /\ UNCHANGED <<file, running, process, changes>>

Type(b) ==
    /\ page[b] # None /\ Change
    /\ \E f \in Fields : \E text \in Typed[f] :
         page' = [page EXCEPT ![b].values[f] = text, ![b].shows = None]
    /\ Answer(b, "none")
    /\ UNCHANGED <<file, running, process, staged>>
-----------------------------------------------------------------------------
(* The rest of the machine; ConfigFlow has it in detail *)

\* The helper installs a proposal that keeps the database where it is watched.
Install ==
    /\ staged # None /\ staged' = None
    /\ file' = IF staged.db = "db" THEN staged ELSE file
    /\ UNCHANGED <<running, process, page, reply, changes>>

\* RunningConfig.reload, when the file has not been garbled.
Reload ==
    /\ Up /\ file # Unusable("garbled")
    /\ running' = IF Usable(file) /\ file.db = running.db THEN file ELSE running
    /\ running' # running
    /\ UNCHANGED <<file, process, staged, page, reply, changes>>

EditByHand ==
    /\ Change
    /\ \/ \E kind \in Broken : file' = Unusable(kind)
       \/ \E d \in Databases : file' = [Shipped EXCEPT !.db = d, !.limit = "2"]
    /\ UNCHANGED <<running, process, staged, page, reply>>

\* Another process, with another token; it only starts on a file that keeps the
\* reboot trigger watched.
Restart ==
    /\ Change
    /\ Usable(file) /\ file.db = "db"
    /\ running' = file /\ process' = process + 1
    /\ UNCHANGED <<file, staged, page, reply>>
-----------------------------------------------------------------------------
Next ==
    \/ \E b \in Browsers :
         Visit(b) \/ Type(b) \/ Submit(b) \/ SubmitRefused(b) \/ SubmitForeign(b)
    \/ Install \/ Reload \/ EditByHand \/ Restart

Spec == Init /\ [][Next]_vars
-----------------------------------------------------------------------------
(* Properties *)

\* A page submitted as it was shown proposes the settings it showed, whatever has
\* been installed since, so showing and reading back lose nothing.
ProposesWhatItShowed(b) ==
    page[b] # None /\ page[b].shows # None /\ Submit(b)
        => staged' = [page[b].shows EXCEPT !.db = running.db]

\* "A rejected form does not throw away the edit": what was typed is on the page
\* that comes back, which this process will take.
KeepsTheEdit(b) ==
    reply'[b] = "refused" /\ page'[b] # page[b]
        => page'[b].values = page[b].values /\ page'[b].token = process

\* "Showing the running copy would mean a save appeared to have done nothing": a
\* visit shows what a restart would run on, when that can be read.
ShowsTheFile(b) ==
    page'[b] # page[b] /\ reply'[b] = "shown" /\ Usable(file) /\ page'[b].shows # None
        => page'[b].shows = file

\* The form is true to the settings on their way out and back, with pages of any
\* age; and what it leaves out stays where it is: no save moves the database, when
\* the file names another one or the page is older than that.
IsFaithful ==
    /\ \A b \in Browsers : ProposesWhatItShowed(b) /\ KeepsTheEdit(b) /\ ShowsTheFile(b)
    /\ staged' # None => staged'.db = "db"

FormsAreFaithful == [][IsFaithful]_vars

\* "Still a form, not a dead end: the file on disk being unreadable is precisely
\* when being able to write a good one back matters."
NeverADeadEnd == \A b \in Browsers : reply[b] # "error"
-----------------------------------------------------------------------------
(* Strengthenings *)

Configs == [targets : Seq(Names), limit : {"1", "2"}, db : Databases]

\* A configuration that the program may have.
Possible(c) == c \in Configs /\ Valid(c)

\* A page that shows settings as they are has their texts.
TruePage(p) ==
    p # None =>
        /\ DOMAIN p = {"values", "token", "shows"} /\ p.values \in [Fields -> Texts]
        /\ p.shows # None => Possible(p.shows) /\ p.values = ValuesFromConfig(p.shows)

\* Neither the running configuration nor a proposal names another database than
\* the one that is watched.
PageInv ==
    /\ DOMAIN page = Browsers /\ DOMAIN reply = Browsers
    /\ Usable(file) => Possible(file)
    /\ Possible(running) /\ running.db = "db"
    /\ staged # None => Possible(staged) /\ staged.db = "db"
    /\ \A b \in Browsers : TruePage(page[b])
=============================================================================
