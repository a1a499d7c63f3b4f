------------------------ MODULE MCCollectorService ------------------------
(* The instances of CollectorService that TLC checks.                      *)
EXTENDS CollectorService

\* Every fault there is.
AllFaults == Faults
=============================================================================
