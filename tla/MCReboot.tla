------------------------------ MODULE MCReboot ------------------------------
(* The instances of Reboot that TLC checks.                                *)
EXTENDS Reboot

\* The faults each instance has, by what its properties are conditional on.
AllFaults == Faults
LoudFaults == {"request", "db", "schema", "event"}
LiveFaults == {"request", "trigger", "event"}
=============================================================================
