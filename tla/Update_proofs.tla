---------------------------- MODULE Update_proofs ----------------------------
(***************************************************************************)
(* Theorems about new code on the Pi, for all values of the constants: any *)
(* services, number of edits and faults, and any schema they set up.       *)
(***************************************************************************)
EXTENDS MCUpdate, TLAPS

-----------------------------------------------------------------------------
(* Types *)

LEMMA FirstTree ==
  /\ First \in Trees /\ <<First>> \in Seq(Trees) /\ Len(<<First>>) = 1
  /\ "shared" \in Parts /\ "deps" \in Parts /\ "units" \in Parts /\ Services \subseteq Parts
BY UpdateAssumption DEF First, Trees, Parts

\* What has been pushed stays where it is.
LEMMA CommitsGrow ==
  ASSUME NEW history \in Seq(Trees), NEW t \in Trees
  PROVE  /\ Append(history, t) \in Seq(Trees) /\ Append(history, t) # <<>>
         /\ \A i \in DOMAIN history : i \in DOMAIN Append(history, t) /\ Append(history,
                t)[i] = history[i]
OBVIOUS

\* A service that is started runs what is in the checkout, the others what they ran.
LEMMA Started ==
  ASSUME TypeOK, NEW set, StartAll(set)
  PROVE  /\ running' \in [Services -> Trees \cup {Down}]
         /\ \A s \in Services : running'[s] = IF s \in set THEN tree ELSE running[s]
BY DEF StartAll, TypeOK

LEMMA InitUpdate == Init => UpdateInv
<1> SUFFICES ASSUME Init PROVE UpdateInv
  OBVIOUS
<1>1. TypeOK
  <2>1. /\ commits \in Seq(Trees) /\ commits # <<>>
        /\ head \in DOMAIN commits /\ before \in DOMAIN commits /\ fetched \in DOMAIN commits
    BY FirstTree DEF Init
  <2>2. 0 \in 0..MaxVersion /\ 0 \in 0..MaxFaults
    BY UpdateAssumption
  <2>3. running \in [Services -> Trees \cup {Down}]
    BY FirstTree DEF Init
  <2> QED BY FirstTree, <2>1, <2>2, <2>3 DEF Init, TypeOK
<1>2. commits[head] = First /\ commits[before] = First /\ First["deps"] = 0 /\ First["units"] = 0
  <2>1. commits[1] = First
    BY DEF Init
  <2>2. First["deps"] = 0 /\ First["units"] = 0
    BY FirstTree DEF First
  <2> QED BY <2>1, <2>2 DEF Init
<1>3. ScriptInv /\ InstalledInv
  BY <1>2 DEF Init, ScriptInv, InstalledInv, UpdateSteps
<1>4. RunningInv
  <2>1. \A s \in Services : running[s] = tree
    BY DEF Init
  <2> QED BY <2>1 DEF Init, RunningInv, RunsTheCheckout
<1> QED BY <1>1, <1>3, <1>4 DEF UpdateInv

LEMMA TypeKept == TypeOK /\ [Next]_vars => TypeOK'
<1> SUFFICES ASSUME TypeOK, [Next]_vars PROVE TypeOK'
  OBVIOUS
<1> USE UpdateAssumption DEF TypeOK, origin, locals, pi, footer, updateFrame, UpdateSteps,
        DeploySteps, Go, Finish
<1>1. CASE Edit \/ Revert \/ Push
  <2>1. CASE Edit
    <3>1. PICK p \in Parts : laptop' = [laptop EXCEPT ![p] = version + 1]
      BY <2>1 DEF Edit
    <3>2. version + 1 \in 0..MaxVersion
      BY <2>1 DEF Edit
    <3>3. laptop' \in Trees
      BY <3>1, <3>2 DEF Trees
    <3> QED BY <2>1, <3>2, <3>3 DEF Edit
  <2>2. CASE Revert
    <3>1. commits[Len(commits)] \in Trees
      OBVIOUS
    <3> QED BY <2>2, <3>1 DEF Revert
  <2>3. CASE Push
    <3>1. /\ commits' \in Seq(Trees) /\ commits' # <<>>
          /\ \A i \in DOMAIN commits : i \in DOMAIN commits'
      BY <2>3, CommitsGrow DEF Push
    <3>2. stamp' \in [commit : DOMAIN commits', local : BOOLEAN]
      BY <2>3, <3>1 DEF Push
    <3> QED BY <2>3, <3>1, <3>2 DEF Push
  <2> QED BY <1>1, <2>1, <2>2, <2>3
<1>2. CASE StartUpdate \/ StartDeploy \/ Interrupted
  BY <1>2, SMTT(30) DEF StartUpdate, StartDeploy, Interrupted
<1>3. CASE Fetch \/ Discard \/ Merge
  <2>1. commits[head] \in Trees /\ commits[fetched] \in Trees /\ Len(commits) \in DOMAIN commits
    OBVIOUS
  <2> QED BY <1>3, <2>1 DEF Fetch, Discard, Merge
<1>4. CASE WriteStamp \/ Compare
  <2>1. CASE WriteStamp
    <3>1. stamp' \in [commit : DOMAIN commits, local : BOOLEAN]
      BY <2>1 DEF WriteStamp
    <3> QED BY <2>1, <3>1 DEF WriteStamp
  <2>2. CASE Compare
    BY <2>2 DEF Compare
  <2> QED BY <1>4, <2>1, <2>2
<1>5. CASE Pip \/ InstallUnits \/ RestartWatchers
  <2>1. tree["deps"] \in 0..MaxVersion /\ tree["units"] \in 0..MaxVersion
    BY FirstTree DEF Trees
  <2> QED BY <1>5, <2>1 DEF Pip, InstallUnits, RestartWatchers
<1>6. CASE RestartInit \/ RestartServices
  <2>1. running' \in [Services -> Trees \cup {Down}]
    BY <1>6, Started DEF RestartInit, RestartServices
  <2> QED BY <1>6, <2>1, SMTT(30) DEF RestartInit, RestartServices
<1>7. CASE Rsync
  BY <1>7 DEF Rsync, ServicesFor
<1>8. CASE DeployStamp
  <2>1. stamp' \in [commit : DOMAIN commits, local : BOOLEAN]
    <3>1. Len(commits) \in DOMAIN commits /\ (laptop # commits[Len(commits)]) \in BOOLEAN
      OBVIOUS
    <3> QED BY <1>8, <3>1 DEF DeployStamp
  <2>2. strayed' \in BOOLEAN
    BY <1>8 DEF DeployStamp
  <2> QED BY <1>8, <2>1, <2>2 DEF DeployStamp
<1>9. CASE DeployRestart
  <2>1. running' \in [Services -> Trees \cup {Down}] /\ restart' \subseteq Services
    BY <1>9, Started DEF DeployRestart
  <2> QED BY <1>9, <2>1 DEF DeployRestart
<1>10. ASSUME NEW s \in Services, Respawn(s) PROVE TypeOK'
  <2>1. running' \in [Services -> Trees \cup {Down}]
    BY <1>10, Started DEF Respawn
  <2> QED BY <1>10, <2>1 DEF Respawn
<1>11. CASE UNCHANGED vars
  BY <1>11 DEF vars
<1> QED BY <1>1, <1>2, <1>3, <1>4, <1>5, <1>6, <1>7, <1>8, <1>9, <1>10, <1>11
        DEF Next, UpdateScript, DeployScript

-----------------------------------------------------------------------------
(* What a script has done by each of its steps *)

\* Nothing that was pushed is taken back.
LEMMA CommitsStand ==
  ASSUME TypeOK, [Next]_vars
  PROVE  \A i \in DOMAIN commits : commits'[i] = commits[i]
<1> USE DEF origin, locals, pi, footer, updateFrame
<1>1. CASE Push
  BY <1>1, CommitsGrow DEF Push, TypeOK
<1>2. CASE UNCHANGED commits
  BY <1>2
<1>3. ~Push => UNCHANGED commits
  BY DEF Next, UpdateScript, DeployScript, vars, Edit, Revert, StartUpdate, StartDeploy,
         Interrupted,
         Fetch, Discard, Merge, WriteStamp, Compare, Pip, InstallUnits, RestartWatchers,
                RestartInit,
         RestartServices, Rsync, DeployStamp, DeployRestart, Respawn
<1> QED BY <1>1, <1>2, <1>3

LEMMA ScriptKept == TypeOK /\ ScriptInv /\ [Next]_vars => ScriptInv'
<1> SUFFICES ASSUME TypeOK, ScriptInv, [Next]_vars PROVE ScriptInv'
  OBVIOUS
<1> USE DEF ScriptInv, origin, locals, pi, footer, updateFrame, UpdateSteps, Go, Finish, Names
<1>0. /\ head \in DOMAIN commits /\ stamp.commit \in DOMAIN commits
      /\ \A i \in DOMAIN commits : commits'[i] = commits[i]
  BY CommitsStand DEF TypeOK
<1>1. CASE Edit \/ Revert \/ Push \/ UNCHANGED vars \/ \E s \in Services : Respawn(s)
  <2>1. UNCHANGED <<step, result, before, head, fetched, tree, stamp, strayed>>
    BY <1>1 DEF Edit, Revert, Push, Respawn, vars
  <2> QED BY <1>0, <2>1
<1>2. CASE StartUpdate \/ StartDeploy \/ Interrupted
  BY <1>0, <1>2 DEF StartUpdate, StartDeploy, Interrupted
<1>3. CASE Fetch \/ Discard \/ Merge
  BY <1>0, <1>3 DEF Fetch, Discard, Merge
<1>4. CASE WriteStamp \/ Compare
  BY <1>0, <1>4 DEF WriteStamp, Compare
<1>5. CASE Pip \/ InstallUnits \/ RestartWatchers
  BY <1>0, <1>5 DEF Pip, InstallUnits, RestartWatchers
<1>6. CASE RestartInit \/ RestartServices
  BY <1>0, <1>6 DEF RestartInit, RestartServices
<1>7. CASE Rsync \/ DeployRestart
  BY <1>0, <1>7 DEF Rsync, DeployRestart
<1>8. CASE DeployStamp
  <2>1. tree' = laptop => Names(stamp, tree)'
    <3>1. commits' = commits
      BY <1>8 DEF DeployStamp
    <3> QED BY <1>8, <3>1 DEF DeployStamp
  <2> QED BY <1>0, <1>8, <2>1 DEF DeployStamp
<1> QED BY <1>1, <1>2, <1>3, <1>4, <1>5, <1>6, <1>7, <1>8 DEF Next, UpdateScript, DeployScript

LEMMA InstalledKept == TypeOK /\ ScriptInv /\ InstalledInv /\ [Next]_vars => InstalledInv'
<1> SUFFICES ASSUME TypeOK, ScriptInv, InstalledInv, [Next]_vars,
       faults' = 0 PROVE InstalledInv'
  BY DEF InstalledInv
<1> USE DEF InstalledInv, origin, locals, pi, footer, updateFrame, Go, Finish
<1>0. /\ head \in DOMAIN commits /\ before \in DOMAIN commits
      /\ \A i \in DOMAIN commits : commits'[i] = commits[i]
      /\ faults \in Nat
  BY CommitsStand DEF TypeOK
<1>1. CASE Edit \/ Revert \/ Push \/ UNCHANGED vars \/ \E s \in Services : Respawn(s)
  <2>1. UNCHANGED <<step, before, head, deps, units, watchers, faults>>
    BY <1>1 DEF Edit, Revert, Push, Respawn, vars
  <2> QED BY <1>0, <2>1
<1>2. CASE StartUpdate \/ StartDeploy
  BY <1>0, <1>2 DEF StartUpdate, StartDeploy
<1>3. CASE Interrupted
  BY <1>0, <1>3 DEF Interrupted
<1>4. CASE Fetch \/ Discard \/ Merge
  BY <1>0, <1>4 DEF Fetch, Discard, Merge, ScriptInv
<1>5. CASE WriteStamp \/ Compare
  BY <1>0, <1>5 DEF WriteStamp, Compare
<1>6. CASE Pip \/ InstallUnits \/ RestartWatchers
  <2>1. tree = commits[head]
    BY <1>6 DEF Pip, InstallUnits, RestartWatchers, ScriptInv, UpdateSteps
  <2> QED BY <1>0, <1>6, <2>1 DEF Pip, InstallUnits, RestartWatchers, Changed
<1>7. CASE RestartInit \/ RestartServices
  BY <1>0, <1>7 DEF RestartInit, RestartServices
<1>8. CASE Rsync \/ DeployStamp \/ DeployRestart
  BY <1>0, <1>8 DEF Rsync, DeployStamp, DeployRestart
<1> QED BY <1>1, <1>2, <1>3, <1>4, <1>5, <1>6, <1>7, <1>8 DEF Next, UpdateScript, DeployScript

LEMMA RunningKept == TypeOK /\ ScriptInv /\ RunningInv /\ [Next]_vars => RunningInv'
<1> SUFFICES ASSUME TypeOK, ScriptInv, RunningInv, [Next]_vars PROVE RunningInv'
  OBVIOUS
<1> USE DEF origin, locals, pi, footer, updateFrame, Go, Finish, NeedsNoRestart
<1>0. /\ faults \in Nat /\ restart \subseteq Services /\ before = before
      /\ \A s \in Services : faults = 0 /\ ~overwritten /\ NeedsNoRestart(s) => RunsTheCheckout(s)
      /\ result = "updated" => step = "idle" /\ \A s \in Services : RunsTheCheckout(s)
  BY DEF TypeOK, RunningInv, ScriptInv
\* It is said of each service by itself.
<1>a. SUFFICES ASSUME NEW s \in Services
               PROVE  /\ faults' = 0 /\ ~overwritten' /\ NeedsNoRestart(s)' => RunsTheCheckout(s)'
                      /\ result' = "updated" => RunsTheCheckout(s)'
  BY DEF RunningInv
<1>b. ASSUME UNCHANGED <<running, tree>> PROVE RunsTheCheckout(s)' = RunsTheCheckout(s)
  BY <1>b DEF RunsTheCheckout
<1>c. running'[s] = tree' => RunsTheCheckout(s)'
  BY DEF RunsTheCheckout
<1>1. CASE Edit \/ Revert \/ Push \/ UNCHANGED vars
  <2>1. UNCHANGED <<step, result, before, fetched, restart, running, tree, overwritten, faults>>
    BY <1>1 DEF Edit, Revert, Push, vars
  <2> QED BY <1>0, <1>b, <2>1
<1>2. ASSUME NEW t \in Services, Respawn(t) PROVE RunningInv'
  <2>1. UNCHANGED <<step, result, before, fetched, restart, tree, overwritten, faults>>
    BY <1>2 DEF Respawn
  <2>2. \A r \in Services : running'[r] = tree \/ running'[r] = running[r]
    BY <1>2, Started DEF Respawn
  <2>3. \A r \in Services : RunsTheCheckout(r) => RunsTheCheckout(r)'
    BY <2>1, <2>2 DEF RunsTheCheckout
  <2> QED BY <1>0, <2>1, <2>3 DEF RunningInv
<1>3. CASE StartUpdate \/ StartDeploy
  BY <1>0, <1>b, <1>3 DEF StartUpdate, StartDeploy
<1>4. CASE Interrupted
  BY <1>0, <1>4 DEF Interrupted
<1>5. CASE Fetch
  BY <1>0, <1>b, <1>5 DEF Fetch
<1>6. CASE Discard
  <2>1. step = "discard" /\ before = head /\ UNCHANGED <<running, before, fetched, faults>>
        /\ step' = "merge" /\ result' # "updated"
    BY <1>0, <1>6 DEF Discard, ScriptInv
  <2>2. ~overwritten' /\ fetched = before => tree' = tree /\ ~overwritten
    BY <1>6, <2>1 DEF Discard
  <2> QED BY <1>0, <1>b, <2>1, <2>2
<1>7. CASE Merge
  <2>1. /\ before = head /\ tree = commits[head] /\ head' = fetched /\ tree' = commits[fetched]
        /\ UNCHANGED <<running, before, fetched, faults, overwritten>>
        /\ step = "merge" /\ step' = "stamp" /\ result' # "updated"
    BY <1>0, <1>7 DEF Merge, ScriptInv, UpdateSteps
  <2>2. fetched = before => tree' = tree
    BY <2>1
  <2> QED BY <1>0, <1>b, <2>1, <2>2
<1>8. CASE WriteStamp \/ Compare
  <2>1. /\ UNCHANGED <<running, tree, before, fetched, faults,
         overwritten>> /\ result' # "updated"
        /\ \/ step = "stamp" /\ step' = "compare"
           \/ step = "compare" /\ step' = "pip"
           \/ step = "compare" /\ step' = "idle" /\ fetched = before
    BY <1>0, <1>8 DEF WriteStamp, Compare, ScriptInv
  <2> QED BY <1>0, <1>b, <2>1
<1>9. CASE Pip \/ InstallUnits \/ RestartWatchers
  BY <1>0, <1>9 DEF Pip, InstallUnits, RestartWatchers
<1>10. CASE RestartInit
  BY <1>0, <1>10 DEF RestartInit
<1>11. CASE RestartServices
  <2>1. running'[s] = tree /\ tree' = tree
    BY <1>11, Started DEF RestartServices
  <2> QED BY <1>c, <2>1
<1>12. CASE Rsync
  <2>1. /\ restart' = ServicesFor(Transferred) /\ tree' = laptop
        /\ UNCHANGED <<running, faults, overwritten>>
        /\ step = "rsync" /\ step' = "deploystamp" /\ result' # "updated"
    BY <1>0, <1>12 DEF Rsync
  <2>2. ASSUME s \notin restart' PROVE \A p \in {s, "shared"} : tree'[p] = tree[p]
    <3>1. s \notin Transferred /\ "shared" \notin Transferred
      BY <2>1, <2>2 DEF ServicesFor
    <3> QED BY <2>1, <3>1, FirstTree DEF Transferred
  <2>3. s \notin restart' /\ RunsTheCheckout(s) => RunsTheCheckout(s)'
    BY <2>1, <2>2 DEF RunsTheCheckout
  <2> QED BY <1>0, <2>1, <2>3
<1>13. CASE DeployStamp
  BY <1>0, <1>b, <1>13 DEF DeployStamp
<1>14. CASE DeployRestart
  <2>1. UNCHANGED <<tree, overwritten, faults>> /\ step = "deployrestart" /\ result' # "updated"
    BY <1>0, <1>14 DEF DeployRestart
  <2>2. CASE restart = {} /\ Finish("deployed") /\ UNCHANGED <<running, restart>>
    BY <1>0, <1>b, <2>1, <2>2
  <2>3. CASE step' = step /\ \E t \in restart : restart' = restart \ {t} /\ StartAll({t})
    <3>1. PICK t \in restart : restart' = restart \ {t} /\ StartAll({t})
      BY <2>3
    <3>2. running'[s] = IF s = t THEN tree ELSE running[s]
      BY <3>1, Started
    <3>3. s # t /\ RunsTheCheckout(s) => RunsTheCheckout(s)'
      BY <2>1, <3>2 DEF RunsTheCheckout
    <3> QED BY <1>0, <1>c, <2>1, <2>3, <3>1, <3>2, <3>3
  <2> QED BY <1>14, <2>2, <2>3 DEF DeployRestart
<1> QED BY <1>1, <1>2, <1>3, <1>4, <1>5, <1>6, <1>7, <1>8, <1>9, <1>10, <1>11, <1>12, <1>13,
           <1>14 DEF Next, UpdateScript, DeployScript, RunningInv

LEMMA UpdateInvariant == PartSpec => []UpdateInv
<1>1. PartInit => Init
  BY DEF PartInit
<1>2. [PartNext]_partVars => [Next]_vars
  BY DEF PartNext, SettingUp, partVars
<1>3. UpdateInv /\ [Next]_vars => UpdateInv'
  BY TypeKept, ScriptKept, InstalledKept, RunningKept DEF UpdateInv
<1> QED BY <1>1, <1>2, <1>3, InitUpdate, PTL DEF PartSpec

\* update.sh and deploy.sh say that they have brought new code only when it runs:
\* in whatever order updates and deploys follow one another, with whatever is edited
\* and pushed in between, and whenever services restart by themselves.  Commands
\* that fail can break it, and for a deploy an update that restarts nothing.
THEOREM SuccessRuns == PartSpec => []SuccessIsRunning
<1>1. UpdateInv => SuccessIsRunning
  <2> SUFFICES ASSUME UpdateInv PROVE SuccessIsRunning
    OBVIOUS
  <2>1. UpdatedRunsTheCommit
    <3> SUFFICES ASSUME result = "updated", faults = 0 PROVE UpdatedRunsTheCommit
      BY DEF UpdatedRunsTheCommit
    <3>1. step = "idle" /\ tree = commits[head] /\ \A s \in Services : RunsTheCheckout(s)
      BY DEF UpdateInv, ScriptInv, RunningInv
    <3>2. deps = tree["deps"] /\ units = tree["units"] /\ watchers = tree["units"]
      BY <3>1 DEF UpdateInv, InstalledInv
    <3> QED BY <3>1, <3>2 DEF UpdatedRunsTheCommit
  <2>2. DeployedRunsTheTree
    BY DEF UpdateInv, ScriptInv, RunningInv, NeedsNoRestart, DeployedRunsTheTree
  <2> QED BY <2>1, <2>2 DEF SuccessIsRunning
<1> QED BY <1>1, UpdateInvariant, PTL

\* The dashboard's footer names what is in the checkout whenever a script has
\* succeeded, also when commands failed in scripts before it and whatever is edited,
\* committed or reverted meanwhile: only a deploy that stamps what is no longer on
\* the laptop as it was copied may write a stamp that does not.
THEOREM StampIsTrue == PartSpec => []StampNamesTheTree
<1>1. UpdateInv => StampNamesTheTree
  BY DEF UpdateInv, ScriptInv, StampNamesTheTree
<1> QED BY <1>1, UpdateInvariant, PTL

-----------------------------------------------------------------------------
(* The schema *)

LEMMA InitSetupInv == Schema!Init => Schema!SetupInv
BY PartAssumption
   DEF Schema!SchemaAssumption, Schema!Init, Schema!SetupInv, Schema!TypeOK,
       Schema!StampIsAPromise, Schema!Progress, Schema!Whole

\* One service's step leaves what the others have got through: tables are never
\* taken away, and a stamp is this build's, of a file that has them all.
LEMMA WorkSetupInv ==
    ASSUME Schema!SetupInv, NEW t \in Starters, Schema!Work(t) \/ Schema!Die(t)
    PROVE  Schema!SetupInv'
<1> USE PartAssumption DEF Schema!SchemaAssumption, Schema!Goto, Schema!Fault
<1>0. Schema!TypeOK /\ Schema!StampIsAPromise /\ \A s \in Starters : Schema!Progress(s)
  BY DEF Schema!SetupInv
<1>1. /\ stage \in [Starters -> {"off", "connect", "check", "create", "stamp", "ready"}]
      /\ next \in [Starters -> 1..(Statements + 1)] /\ Schema!Progress(t)
      /\ created \subseteq 1..Statements
  BY <1>0 DEF Schema!TypeOK
<1>2. CASE Schema!Start(t) \/ Schema!Connect(t) \/ Schema!Check(t) \/ Schema!Die(t)
  <2>1. Schema!TypeOK'
    <3>1. /\ stage' \in [Starters -> {"off", "connect", "check", "create", "stamp", "ready"}]
          /\ next' \in [Starters -> 1..(Statements + 1)]
      BY <1>1, <1>2 DEF Schema!Start, Schema!Connect, Schema!Check, Schema!Die
    <3>2. created' = created /\ stamped' = stamped /\ mishaps' \in 0..MaxSetupFaults
      BY <1>0, <1>2 DEF Schema!TypeOK, Schema!Start, Schema!Connect, Schema!Check, Schema!Die
    <3> QED BY <1>0, <3>1, <3>2 DEF Schema!TypeOK
  <2>2. Schema!StampIsAPromise'
    BY <1>0, <1>1, <1>2
       DEF Schema!StampIsAPromise, Schema!Whole, Schema!Start, Schema!Connect, Schema!Check,
           Schema!Die
  <2>3. ASSUME NEW s \in Starters PROVE Schema!Progress(s)'
    <3>1. Schema!Progress(s)
      BY <1>0
    <3>2. CASE s # t
      <4>1. stage'[s] = stage[s] /\ next'[s] = next[s] /\ created' = created /\ stamped' = stamped
        BY <1>1, <1>2, <3>2 DEF Schema!Start, Schema!Connect, Schema!Check, Schema!Die
      <4> QED BY <3>1, <4>1 DEF Schema!Progress, Schema!Whole
    <3>3. CASE s = t
      BY <1>1, <1>2, <3>3
         DEF Schema!Progress, Schema!Whole, Schema!Start, Schema!Connect, Schema!Check,
             Schema!Die
    <3> QED BY <3>2, <3>3
  <2> QED BY <2>1, <2>2, <2>3 DEF Schema!SetupInv
<1>3. CASE Schema!Create(t)
  <2>1. /\ stage[t] = "create" /\ next[t] \in 1..Statements /\ stamped' = stamped
        /\ 1..(next[t] - 1) \subseteq created /\ created' = created \cup {next[t]}
        /\ next' = [next EXCEPT ![t] = next[t] + 1]
    BY <1>1, <1>3 DEF Schema!Create, Schema!Progress
  <2>2. created \subseteq created' /\ 1..next[t] \subseteq created' /\ created' \subseteq 1..Statements
    <3>1. next[t] \in Nat /\ \A n \in 1..next[t] : n \in 1..(next[t] - 1) \/ n = next[t]
      BY <1>1, <2>1
    <3> QED BY <1>1, <2>1, <3>1
  <2>3. Schema!Whole => Schema!Whole'
    BY <2>2 DEF Schema!Whole
  <2>4. \/ stage' = stage
        \/ /\ next[t] = Statements /\ Schema!Whole'
           /\ stage' = [stage EXCEPT ![t] = "stamp"]
    <3>1. CASE next[t] = Statements
      <4>1. created' = 1..Statements
        BY <2>2, <3>1
      <4> QED BY <1>3, <3>1, <4>1 DEF Schema!Create, Schema!Whole
    <3>2. CASE next[t] # Statements
      BY <1>3, <3>2 DEF Schema!Create
    <3> QED BY <3>1, <3>2
  <2>5. Schema!TypeOK'
    <3>1. /\ stage' \in [Starters -> {"off", "connect", "check", "create", "stamp", "ready"}]
          /\ next' \in [Starters -> 1..(Statements + 1)]
      BY <1>1, <2>1, <2>4
    <3> QED BY <1>0, <1>3, <2>1, <2>2, <3>1 DEF Schema!TypeOK, Schema!Create
  <2>6. Schema!StampIsAPromise'
    BY <1>0, <1>1, <2>1, <2>3, <2>4 DEF Schema!StampIsAPromise
  <2>7. ASSUME NEW s \in Starters PROVE Schema!Progress(s)'
    <3>1. Schema!Progress(s)
      BY <1>0
    <3>2. CASE s # t
      <4>1. stage'[s] = stage[s] /\ next'[s] = next[s]
        BY <1>1, <2>1, <2>4, <3>2
      <4> QED BY <2>1, <2>2, <2>3, <3>1, <4>1 DEF Schema!Progress
    <3>3. CASE s = t /\ stage' = stage
      <4>1. next'[t] = next[t] + 1 /\ next[t] # Statements
        BY <1>1, <1>3, <2>1, <3>3 DEF Schema!Create
      <4> QED BY <1>1, <2>1, <2>2, <3>3, <4>1 DEF Schema!Progress
    <3>4. CASE s = t /\ stage' # stage
      BY <1>1, <2>1, <2>4, <3>4 DEF Schema!Progress
    <3> QED BY <3>2, <3>3, <3>4
  <2> QED BY <2>5, <2>6, <2>7 DEF Schema!SetupInv
<1>4. CASE Schema!Stamp(t)
  <2>1. /\ stamped' = SchemaVersion /\ Schema!Whole /\ Schema!Whole' /\ created' = created /\ next' = next
        /\ stage' = [stage EXCEPT ![t] = "ready"]
    BY <1>1, <1>4 DEF Schema!Stamp, Schema!Progress, Schema!Whole
  <2>2. Schema!TypeOK'
    BY <1>0, <2>1, <1>4 DEF Schema!TypeOK, Schema!Stamp
  <2>3. Schema!StampIsAPromise'
    BY <2>1 DEF Schema!StampIsAPromise
  <2>4. ASSUME NEW s \in Starters PROVE Schema!Progress(s)'
    BY <1>0, <1>1, <2>1 DEF Schema!Progress
  <2> QED BY <2>2, <2>3, <2>4 DEF Schema!SetupInv
<1> QED BY <1>2, <1>3, <1>4 DEF Schema!Work

LEMMA NextSetupInv == Schema!SetupInv /\ [Schema!Next]_(Schema!vars) => Schema!SetupInv'
<1> SUFFICES ASSUME Schema!SetupInv, [Schema!Next]_(Schema!vars) PROVE Schema!SetupInv'
  OBVIOUS
<1>1. ASSUME NEW t \in Starters, Schema!Work(t) \/ Schema!Die(t) PROVE Schema!SetupInv'
  BY <1>1, WorkSetupInv
<1>2. CASE Schema!PowerCut
  BY <1>2, PartAssumption
     DEF Schema!SchemaAssumption, Schema!SetupInv, Schema!TypeOK, Schema!StampIsAPromise,
         Schema!Progress, Schema!Whole, Schema!PowerCut, Schema!Fault
<1>3. CASE UNCHANGED Schema!vars
  BY <1>3
     DEF Schema!vars, Schema!SetupInv, Schema!TypeOK, Schema!StampIsAPromise, Schema!Progress,
         Schema!Whole
<1> QED BY <1>1, <1>2, <1>3 DEF Schema!Next

LEMMA SetupInvariant == PartSpec => []Schema!SetupInv
<1>1. PartInit => Schema!Init
  BY DEF PartInit
<1>2. [PartNext]_partVars => [Schema!Next]_(Schema!vars)
  BY DEF PartNext, SettingUp, partVars, schemaVars, Schema!vars
<1>3. Schema!SetupInv /\ [Schema!Next]_(Schema!vars) => Schema!SetupInv'
  BY NextSetupInv
<1> QED BY <1>1, <1>2, <1>3, InitSetupInv, PTL DEF PartSpec

\* The stamp that initialise writes is a promise about the tables: however many
\* services set the file up at once, and whatever fails or cuts the power
\* between two statements, a stamped file has all of them.
THEOREM StampPromises == PartSpec => []StampIsAPromise
<1>1. Schema!SetupInv => StampIsAPromise
  BY DEF Schema!SetupInv, StampIsAPromise
<1> QED BY <1>1, SetupInvariant, PTL
=============================================================================
