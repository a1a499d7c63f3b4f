----------------------------- MODULE SchemaSetup -----------------------------
(***************************************************************************)
(* initialise of bbmon/db.py, which every service calls as it starts, all  *)
(* of them at once after a boot, on one SQLite file.                       *)
(*                                                                         *)
(* Python's sqlite3 opens no transaction for a CREATE or a PRAGMA, so each *)
(* statement is committed by itself, and others' come in between.          *)
(***************************************************************************)
EXTENDS Integers, FiniteSets

CONSTANTS
    Services,
    Version,     \* SCHEMA_VERSION of this build
    Foreign,     \* versions a file written by other builds may have
    Statements,  \* how many _SCHEMA_STATEMENTS there are
    MaxFaults    \* bound: statements that fail, crashes, power cuts

SchemaAssumption ==
    /\ Version \in Nat \ {0} /\ Foreign \subseteq Nat \ {0, Version}
    /\ Statements \in Nat \ {0} /\ MaxFaults \in Nat

VARIABLES
    pc,      \* what each service does next
    next,    \* its next statement
    created, \* the statements whose object exists
    version, \* PRAGMA user_version
    faults

vars == <<pc, next, created, version, faults>>

TypeOK ==
    /\ pc \in [Services -> {"off", "connect", "check", "create", "stamp", "ready"}]
    /\ next \in [Services -> 1..(Statements + 1)]
    /\ created \subseteq 1..Statements
    /\ version \in {0, Version} \cup Foreign
    /\ faults \in 0..MaxFaults

\* A file that is not there, or one that another build left complete.
Init ==
    /\ pc = [s \in Services |-> "off"] /\ next = [s \in Services |-> 1]
    /\ faults = 0
    /\ \/ version = 0 /\ created = {}
       \/ version \in {Version} \cup Foreign /\ created = 1..Statements

Goto(s, place) == pc' = [pc EXCEPT ![s] = place]
Fault == faults < MaxFaults /\ faults' = faults + 1

Start(s) ==
    /\ pc[s] = "off" /\ Goto(s, "connect") /\ next' = [next EXCEPT ![s] = 1]
    /\ UNCHANGED <<created, version, faults>>

\* connect: opens the file, creating it, and turns write-ahead logging on.
Connect(s) ==
    /\ pc[s] = "connect" /\ Goto(s, "check")
    /\ UNCHANGED <<next, created, version, faults>>

\* The version is read, and a build refuses every other but none.
Check(s) ==
    /\ pc[s] = "check"
    /\ IF version \in {0, Version} THEN Goto(s, "create") ELSE Goto(s, "off")
    /\ UNCHANGED <<next, created, version, faults>>

\* The mutant that stamps a schema it has begun.
CreateStamped(s) ==
    /\ pc[s] = "create"
    /\ created' = created \cup {next[s]} /\ version' = Version
    /\ next' = [next EXCEPT ![s] = @ + 1]
    /\ IF next[s] = Statements THEN Goto(s, "stamp") ELSE UNCHANGED pc
    /\ UNCHANGED faults

\* The mutant without IF NOT EXISTS: the service that comes second fails.
CreateAnew(s) ==
    /\ pc[s] = "create"
    /\ IF next[s] \in created
       THEN Goto(s, "off") /\ UNCHANGED <<next, created>>
       ELSE /\ created' = created \cup {next[s]}
            /\ next' = [next EXCEPT ![s] = @ + 1]
            /\ IF next[s] = Statements THEN Goto(s, "stamp") ELSE UNCHANGED pc
    /\ UNCHANGED <<version, faults>>

\* CREATE ... IF NOT EXISTS, one statement after the other.
Create(s) ==
    /\ pc[s] = "create"
    /\ created' = created \cup {next[s]}
    /\ next' = [next EXCEPT ![s] = @ + 1]
    /\ IF next[s] = Statements THEN Goto(s, "stamp") ELSE UNCHANGED pc
    /\ UNCHANGED <<version, faults>>

Stamp(s) ==
    /\ pc[s] = "stamp" /\ Goto(s, "ready")
    /\ version' = Version
    /\ UNCHANGED <<next, created, faults>>

\* A statement finds the file locked for too long or the card full, or the
\* process ends; what was committed stays.
Die(s) ==
    /\ pc[s] # "off" /\ Fault /\ Goto(s, "off")
    /\ UNCHANGED <<next, created, version>>

PowerCut ==
    /\ Fault /\ pc' = [s \in Services |-> "off"]
    /\ UNCHANGED <<next, created, version>>

Work(s) == Start(s) \/ Connect(s) \/ Check(s) \/ Create(s) \/ Stamp(s)

Next == PowerCut \/ \E s \in Services : Work(s) \/ Die(s)

\* Each service runs, and Restart=on-failure starts it again.
Spec == Init /\ [][Next]_vars /\ \A s \in Services : WF_vars(Work(s))
-----------------------------------------------------------------------------
(* Properties *)

Whole == created = 1..Statements

\* The stamp is a promise about the schema: a power cut never leaves it without the
\* tables, and a service that runs has all of them, whoever created them and
\* however many starts it took.
StampIsAPromise ==
    /\ version # 0 => Whole
    /\ \A s \in Services : pc[s] = "ready" => version = Version

\* Whoever comes first, dies or comes again, in the end every service runs on a
\* file that this build can use.
ServicesStart == version \in Foreign \/ \A s \in Services : <>(pc[s] = "ready")
-----------------------------------------------------------------------------
(* Strengthenings of the properties above that every step preserves *)

\* What a service has got through is there: it begins at the first statement each
\* time it starts, stamps when it is through, and only where the file was its own.
Progress(s) ==
    /\ pc[s] \in {"connect", "check"} => next[s] = 1
    /\ pc[s] \in {"create", "stamp", "ready"} => version \in {0, Version}
    /\ pc[s] = "create" => next[s] <= Statements /\ 1..(next[s] - 1) \subseteq created
    /\ pc[s] = "stamp" => Whole

SetupInv == TypeOK /\ StampIsAPromise /\ \A s \in Services : Progress(s)
=============================================================================
