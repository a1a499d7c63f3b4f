------------------------------- MODULE Mailbox -------------------------------
(***************************************************************************)
(* What the way of a save to the configuration file promises of saves,     *)
(* which are numbered as they are made: none is installed after a later    *)
(* one, none twice unless it could not be taken out of the box, and no     *)
(* more than two are under way, the one in the box and the one the         *)
(* installer has in hand.                                                  *)
(***************************************************************************)
EXTENDS Naturals, FiniteSets

VARIABLES
    posted,   \* how many saves there have been
    waiting,  \* the saves under way
    current   \* the save that is installed, 0 for the file that was shipped

boxVars == <<posted, waiting, current>>

Init == posted = 0 /\ waiting = {} /\ current = 0

\* A save takes the place of the one in the box.
Post ==
    /\ posted' = posted + 1
    /\ \/ waiting' = waiting \cup {posted'}
       \/ \E n \in waiting : waiting' = (waiting \ {n}) \cup {posted'}
    /\ Cardinality(waiting') <= 2
    /\ UNCHANGED current

\* A save is installed; none that waits is older.  One that could not be taken out
\* of the box goes on waiting.
Install ==
    \E n \in waiting :
        /\ current' = n
        /\ waiting' \in {waiting, waiting \ {n}}
        /\ \A m \in waiting' : m >= n
        /\ UNCHANGED posted

\* Saves are refused, or lost with a machine that goes down.
Drop ==
    /\ waiting' \in SUBSET waiting /\ waiting' # waiting
    /\ UNCHANGED <<posted, current>>

Next == Post \/ Install \/ Drop

Spec == Init /\ [][Next]_boxVars
=============================================================================
