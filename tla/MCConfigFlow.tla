---------------------------- MODULE MCConfigFlow ----------------------------
(* The instances of ConfigFlow that TLC checks.                            *)
EXTENDS ConfigFlow
=============================================================================
