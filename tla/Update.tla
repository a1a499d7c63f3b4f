------------------------------- MODULE Update -------------------------------
(***************************************************************************)
(* The two ways new code reaches the Pi: scripts/update.sh, which pulls    *)
(* committed code and restarts every service, and scripts/deploy.sh, which *)
(* copies a laptop's working tree, committed or not, and restarts what it  *)
(* sees has changed.  Each is a sequence of commands that may end after    *)
(* any of them (set -e, a lost SSH session), and services may be restarted *)
(* by systemd in between.  One script runs at a time.                      *)
(*                                                                         *)
(* Data.  A tree is a version number for each of its parts.  The commits   *)
(* are one line of history; untracked files that no commit brings are left *)
(* out.                                                                    *)
(***************************************************************************)
EXTENDS Naturals, Sequences

CONSTANTS
    Services,   \* the long-running services
    MaxVersion, \* bound: edits on the laptop
    MaxFaults   \* bound: commands that fail

ASSUME UpdateAssumption == MaxVersion \in Nat /\ MaxFaults \in Nat

\* What services_for_path and update.sh's greps tell apart: each service's own
\* files, the modules they share, pyproject.toml, and deploy/systemd.
Parts == Services \cup {"shared", "deps", "units"}
Trees == [Parts -> 0..MaxVersion]

VARIABLES
    laptop,    \* the development tree
    commits,   \* origin's branch
    \* on the Pi
    head,      \* the commit checked out
    tree,      \* the files in the checkout
    deps,      \* the version of pyproject.toml that pip last installed
    units,     \* the unit files installed and loaded
    watchers,  \* the unit files the running path units were started from
    stamp,     \* what the dashboard's footer says: a commit, and whether it adds "+local"
    running,   \* the tree each service was started from, or Down
    \* the script that runs, if any
    step, before, fetched, restart,
    result,    \* how the last script ended
    \* history and bounds
    overwritten, \* whether an update restarted nothing although it discarded files
    strayed,     \* whether a deploy wrote the stamp when the laptop was no longer as copied
    version, faults

vars == <<laptop, commits, head, tree, deps, units, watchers, stamp, running, step, before,
          fetched, restart, result, overwritten, strayed, version, faults>>
footer == <<stamp, strayed>>
origin == <<laptop, commits, version>>
locals == <<before, fetched, restart>>

Down == [p \in Parts |-> MaxVersion + 1]
First == [p \in Parts |-> 0]

UpdateSteps == {"fetch", "discard", "merge", "stamp", "compare", "pip", "units", "watchers",
                "init", "services"}
DeploySteps == {"rsync", "deploystamp", "deployrestart"}

TypeOK ==
    /\ laptop \in Trees /\ commits \in Seq(Trees) /\ commits # <<>>
    /\ head \in DOMAIN commits /\ before \in DOMAIN commits /\ fetched \in DOMAIN commits
    /\ tree \in Trees /\ stamp \in [commit : DOMAIN commits, local : BOOLEAN]
    /\ running \in [Services -> Trees \cup {Down}]
    /\ deps \in 0..MaxVersion /\ units \in 0..MaxVersion /\ watchers \in 0..MaxVersion
    /\ step \in UpdateSteps \cup DeploySteps \cup {"idle"}
    /\ restart \subseteq Services
    /\ result \in {"none", "failed", "current", "updated", "deployed"}
    /\ overwritten \in BOOLEAN /\ strayed \in BOOLEAN
    /\ version \in 0..MaxVersion /\ faults \in 0..MaxFaults

Init ==
    /\ laptop = First /\ commits = <<First>>
    /\ head = 1 /\ tree = First /\ stamp = [commit |-> 1, local |-> FALSE]
    /\ deps = 0 /\ units = 0 /\ watchers = 0
    /\ running = [s \in Services |-> First]
    /\ step = "idle" /\ before = 1 /\ fetched = 1 /\ restart = {} /\ result = "none"
    /\ overwritten = FALSE /\ strayed = FALSE /\ version = 0 /\ faults = 0
-----------------------------------------------------------------------------
(* The laptop *)

pi == <<head, tree, deps, units, watchers, footer, running, overwritten>>

Edit ==
    /\ version < MaxVersion /\ version' = version + 1
    /\ \E p \in Parts : laptop' = [laptop EXCEPT ![p] = version + 1]
    /\ UNCHANGED <<commits, pi, step, locals, result, faults>>

\* A change made on the laptop is given up again.
Revert ==
    /\ laptop # commits[Len(commits)]
    /\ laptop' = commits[Len(commits)]
    /\ UNCHANGED <<commits, version, pi, step, locals, result, faults>>

\* A commit is pushed as soon as it is made, and is the laptop's HEAD.
Push ==
    /\ laptop # commits[Len(commits)]
    /\ commits' = Append(commits, laptop)
    /\ UNCHANGED <<laptop, version, pi, step, locals, result, faults>>
-----------------------------------------------------------------------------
(* Either script *)

Go(from, to) == step = from /\ step' = to

Finish(how) == step' = "idle" /\ result' = how

\* A command fails or the session is lost: the script ends where it is.
Interrupted ==
    /\ step # "idle"
    /\ faults < MaxFaults /\ faults' = faults + 1
    /\ Finish("failed")
    /\ UNCHANGED <<origin, pi, locals>>

\* A service that is started runs what is in the checkout.
StartAll(set) == running' = [s \in Services |-> IF s \in set THEN tree ELSE running[s]]

\* systemd restarts a service that failed, whatever the scripts are doing.
Respawn(s) ==
    /\ running[s] \notin {tree, Down}
    /\ StartAll({s})
    /\ UNCHANGED <<origin, head, tree, deps, units, watchers, footer, overwritten, step, locals,
                   result, faults>>
-----------------------------------------------------------------------------
(* update.sh *)

updateFrame == <<origin, faults>>

StartUpdate ==
    /\ Go("idle", "fetch")
    /\ before' = head /\ result' = "none"
    /\ UNCHANGED <<fetched, restart, pi, updateFrame>>

Fetch ==
    /\ Go("fetch", "discard")
    /\ fetched' = Len(commits)
    /\ UNCHANGED <<before, restart, result, pi, updateFrame>>

\* discard_deploy_artifacts and remove_untracked_in_the_way.
Discard ==
    /\ Go("discard", "merge")
    /\ tree' = commits[head]
    /\ overwritten' = (overwritten \/ (tree # commits[head] /\ fetched = head))
    /\ UNCHANGED <<head, deps, units, watchers, footer, running, locals, result, updateFrame>>

Merge ==
    /\ Go("merge", "stamp")
    /\ head' = fetched /\ tree' = commits[fetched]
    /\ UNCHANGED <<deps, units, watchers, footer, running, overwritten, locals, result, updateFrame>>

\* The mutant that names the commit the update began from.
WriteStampBefore ==
    /\ Go("stamp", "compare")
    /\ stamp' = [commit |-> before, local |-> FALSE] /\ strayed' = FALSE
    /\ UNCHANGED <<head, tree, deps, units, watchers, running, overwritten, locals, result,
                   updateFrame>>

WriteStamp ==
    /\ Go("stamp", "compare")
    /\ stamp' = [commit |-> head, local |-> FALSE] /\ strayed' = FALSE
    /\ UNCHANGED <<head, tree, deps, units, watchers, running, overwritten, locals, result,
                   updateFrame>>

\* "Already up to date": nothing is restarted.
Compare ==
    /\ step = "compare"
    /\ \/ before = head /\ Finish("current")
       \/ before # head /\ step' = "pip" /\ UNCHANGED result
    /\ UNCHANGED <<locals, pi, updateFrame>>

\* The mutant that asks what the update's last commit changed.
ChangedLately(part) == head > 1 /\ commits[head - 1][part] # commits[head][part]

\* git diff --name-only before after.
Changed(part) == commits[before][part] # commits[head][part]

Pip ==
    /\ Go("pip", "units")
    /\ deps' = IF Changed("deps") THEN tree["deps"] ELSE deps
    /\ UNCHANGED <<head, tree, units, watchers, footer, running, overwritten, locals, result,
                   updateFrame>>

\* The loop of install, and daemon-reload.
InstallUnits ==
    /\ Go("units", IF Changed("units") THEN "watchers" ELSE "init")
    /\ units' = IF Changed("units") THEN tree["units"] ELSE units
    /\ UNCHANGED <<head, tree, deps, watchers, footer, running, overwritten, locals, result,
                   updateFrame>>

RestartWatchers ==
    /\ Go("watchers", "init")
    /\ watchers' = units
    /\ UNCHANGED <<head, tree, deps, units, footer, running, overwritten, locals, result,
                   updateFrame>>

\* Every service Requires= bbmon-init: it goes down with it and comes up after
\* it, or stays down when the schema check fails.
RestartInit ==
    /\ step = "init"
    /\ \/ step' = "services" /\ StartAll(Services) /\ UNCHANGED <<result, faults>>
       \/ /\ faults < MaxFaults /\ faults' = faults + 1
          /\ Finish("failed")
          /\ running' = [s \in Services |-> Down]
    /\ UNCHANGED <<origin, head, tree, deps, units, watchers, footer, overwritten, locals>>

RestartServices ==
    /\ step = "services"
    /\ Finish("updated")
    /\ StartAll(Services)
    /\ UNCHANGED <<head, tree, deps, units, watchers, footer, overwritten, locals, updateFrame>>
-----------------------------------------------------------------------------
(* deploy.sh *)

StartDeploy ==
    /\ Go("idle", "rsync")
    /\ result' = "none"
    /\ UNCHANGED <<locals, pi, updateFrame>>

\* services_for_path: a shared module is everybody's.
ServicesFor(changed) == IF "shared" \in changed THEN Services ELSE changed \cap Services

\* What rsync says it transferred, by content.
Transferred == {p \in Parts : tree[p] # laptop[p]}

\* rsync: what differs is copied, and says which services to restart.
Rsync ==
    /\ Go("rsync", "deploystamp")
    /\ restart' = ServicesFor(Transferred)
    /\ tree' = laptop
    /\ UNCHANGED <<before, fetched, head, deps, units, watchers, footer, running, overwritten,
                   result, updateFrame>>

\* build_stamp_text asks git on the laptop, which somebody may have worked on since
\* rsync: HEAD, and whether anything differs from it.
DeployStamp ==
    /\ Go("deploystamp", "deployrestart")
    /\ stamp' = [commit |-> Len(commits), local |-> laptop # commits[Len(commits)]]
    /\ strayed' = (laptop # tree)
    /\ UNCHANGED <<head, tree, deps, units, watchers, running, overwritten, locals, result,
                   updateFrame>>

\* One systemctl restart after the other; with none left the script is done.
DeployRestart ==
    /\ step = "deployrestart"
    /\ \/ /\ restart = {} /\ Finish("deployed")
          /\ UNCHANGED <<running, restart>>
       \/ /\ UNCHANGED <<step, result>>
          /\ \E s \in restart : restart' = restart \ {s} /\ StartAll({s})
    /\ UNCHANGED <<before, fetched, head, tree, deps, units, watchers, footer, overwritten,
                   updateFrame>>
-----------------------------------------------------------------------------
UpdateScript ==
    \/ Fetch \/ Discard \/ Merge \/ WriteStamp \/ Compare \/ Pip \/ InstallUnits
    \/ RestartWatchers \/ RestartInit \/ RestartServices
DeployScript == Rsync \/ DeployStamp \/ DeployRestart

Next ==
    \/ Edit \/ Revert \/ Push
    \/ StartUpdate \/ UpdateScript \/ StartDeploy \/ DeployScript \/ Interrupted
    \/ \E s \in Services : Respawn(s)

Spec == Init /\ [][Next]_vars
-----------------------------------------------------------------------------
(* Properties *)

\* Whether the service runs its files as they are in the checkout.
RunsTheCheckout(s) == \A p \in {s, "shared"} : running[s][p] = tree[p]

\* An update that reports success leaves every service on the commit it pulled,
\* with the dependencies and the unit files of that commit, whatever deploys and
\* updates came before, as long as none of them failed half way.
UpdatedRunsTheCommit ==
    result = "updated" /\ faults = 0 =>
        /\ tree = commits[head]
        /\ \A s \in Services : RunsTheCheckout(s)
        /\ deps = tree["deps"] /\ units = tree["units"] /\ watchers = tree["units"]

\* A deploy that reports success leaves every service on the files it copied:
\* what it restarts is enough, unless an update has discarded files under the
\* running services.
DeployedRunsTheTree ==
    result = "deployed" /\ faults = 0 /\ ~overwritten =>
        \A s \in Services : RunsTheCheckout(s)

\* A script that says it has brought new code has it running.
SuccessIsRunning == UpdatedRunsTheCommit /\ DeployedRunsTheTree

\* What a footer says of a tree: it is that commit's, or "+local" differs from it.
Names(text, files) == text.local <=> files # commits[text.commit]

\* The footer names the tree in the checkout whenever a script has succeeded,
\* whatever failed before it, and although the laptop commits, edits and reverts
\* all the time, unless its files changed between a deploy's rsync and its stamp.
StampNamesTheTree ==
    result \in {"current", "updated", "deployed"} /\ ~strayed => Names(stamp, tree)

\* scripts/deploy.sh: without the marker "the stamp would name a commit that is not
\* what was actually copied".
UnmarkedIsWhatWasCopied ==
    result = "deployed" /\ ~stamp.local => tree = commits[stamp.commit]

\* scripts/update.sh: "Update bbmon on this machine from git and restart the
\* services."  An update that reports success leaves the services on the checkout.
SuccessRunsTheCheckout ==
    result \in {"current", "updated"} => \A s \in Services : RunsTheCheckout(s)

\* scripts/deploy.sh: "Push the local working tree to the Pi and restart what it
\* affects."  A deploy that reports success has restarted what earlier, failed
\* ones copied, too.
DeploySuccessRunsTheTree ==
    result = "deployed" /\ ~overwritten => \A s \in Services : RunsTheCheckout(s)

\* scripts/update.sh, when the schema check fails: the services "were left running".
ServicesLeftRunning == \A s \in Services : running[s] # Down
-----------------------------------------------------------------------------
(* Strengthenings of the properties above that every step preserves *)

\* What update.sh goes by, whatever failed before it: it merges into the commit it
\* began from, and from then on the checkout is the commit that was fetched, which
\* the stamp names as soon as it is written.
ScriptInv ==
    /\ result # "none" => step = "idle"
    /\ step \in {"fetch", "discard", "merge"} => before = head
    /\ step \in {"stamp", "compare"} => head = fetched
    /\ step \in UpdateSteps \ {"fetch", "discard"} \/ result \in {"current", "updated"}
         => tree = commits[head]
    /\ \/ step \in UpdateSteps \ {"fetch", "discard", "merge", "stamp"}
       \/ step = "deployrestart"
       \/ result \in {"current", "updated", "deployed"}
       => strayed \/ Names(stamp, tree)

\* As long as no command has failed, what is installed is of the commit checked out,
\* once the update has come that far, and of the one it began from before that.
InstalledInv ==
    LET upTo(steps) == commits[IF step \in steps THEN before ELSE head]
        deciding == {"stamp", "compare", "pip"}
    IN  faults = 0 =>
          /\ deps = upTo(deciding)["deps"]
          /\ units = upTo(deciding \cup {"units"})["units"]
          /\ watchers = upTo(deciding \cup {"units", "watchers"})["units"]

\* As long as no command has failed, and no update has discarded files without
\* restarting anything, the services that a script need not restart any more run
\* what is in the checkout.
NeedsNoRestart(s) ==
    \/ step \in {"idle", "fetch", "discard", "rsync"}
    \/ step \in {"merge", "stamp", "compare"} /\ fetched = before
    \/ step \in {"deploystamp", "deployrestart"} /\ s \notin restart

RunningInv ==
    /\ faults = 0 /\ ~overwritten => \A s \in Services : NeedsNoRestart(s) => RunsTheCheckout(s)
    /\ result = "updated" => \A s \in Services : RunsTheCheckout(s)

UpdateInv == TypeOK /\ ScriptInv /\ InstalledInv /\ RunningInv
=============================================================================
