------------------------------ MODULE MCUpdate ------------------------------
(* New code on the Pi and the first thing it does when it starts, for TLC: *)
(* the scripts that bring it, and the schema its services then set up.     *)
(* They share no variable, so it is enough to let one of them move in a    *)
(* behaviour, which `part' says, while the other rests as it began.        *)
EXTENDS Update

CONSTANTS Starters, SchemaVersion, Foreign, Statements, MaxSetupFaults \* of SchemaSetup

VARIABLES part, stage, next, created, stamped, mishaps

schemaVars == <<stage, next, created, stamped, mishaps>>
partVars == <<part, vars, schemaVars>>

Schema == INSTANCE SchemaSetup WITH
    Services <- Starters, Version <- SchemaVersion, MaxFaults <- MaxSetupFaults,
    pc <- stage, version <- stamped, faults <- mishaps

ASSUME PartAssumption == Schema!SchemaAssumption

PartInit ==
    /\ part \in {"scripts", "schema"}
    /\ Init /\ Schema!Init
    /\ part = "schema" \/ stamped = 0

SettingUp(A) == part = "schema" /\ A /\ UNCHANGED <<part, vars>>

PartNext ==
    \/ part = "scripts" /\ Next /\ UNCHANGED <<part, schemaVars>>
    \/ SettingUp(Schema!Next)

PartSpec ==
    /\ PartInit /\ [][PartNext]_partVars
    /\ \A s \in Starters : WF_partVars(SettingUp(Schema!Work(s)))
-----------------------------------------------------------------------------
(* The properties of the schema *)

\* The schema's stamp is never ahead of its tables, nor a service of the stamp.
StampIsAPromise == Schema!StampIsAPromise

\* In the end every service has its schema.
ServicesStart == part = "schema" => Schema!ServicesStart
=============================================================================
