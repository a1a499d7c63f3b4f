------------------------------ MODULE ResultLog ------------------------------
(***************************************************************************)
(* What a collector promises of its results: results are numbered as they  *)
(* are measured, each is stored at most once and in the order it was       *)
(* measured, at most Cap wait to be stored, and when there are more it is  *)
(* the oldest that go.  Only a process that goes away loses what waits.    *)
(***************************************************************************)
EXTENDS Naturals, Sequences

CONSTANT Cap

VARIABLES waiting, stored, measured

logVars == <<waiting, stored, measured>>

Init == waiting = <<>> /\ stored = <<>> /\ measured = 0

Newest(s) == IF Len(s) <= Cap THEN s ELSE SubSeq(s, Len(s) - Cap + 1, Len(s))

Measure ==
    /\ measured' > measured
    /\ waiting' = Newest(waiting \o [i \in 1..(measured' - measured) |-> measured + i])
    /\ UNCHANGED stored

Store ==
    /\ waiting # <<>>
    /\ stored' = stored \o waiting
    /\ waiting' = <<>>
    /\ UNCHANGED measured

Lose == waiting # <<>> /\ waiting' = <<>> /\ UNCHANGED <<stored, measured>>

Next == Measure \/ Store \/ Lose

Spec == Init /\ [][Next]_logVars
=============================================================================
