----------------------------- MODULE TimedCache -----------------------------
(***************************************************************************)
(* The cache of bbmon/web/cache.py in front of the dashboard's queries,    *)
(* shared by the web app's request threads.  get_or_call holds one lock    *)
(* while it looks, queries and stores.                                     *)
(*                                                                         *)
(* Data.  What a query returns is the time at which it read the database,  *)
(* so the age of an answer is the time since.  A query takes at most       *)
(* MaxQuery: SQLite gives up on a lock after its busy timeout.             *)
(***************************************************************************)
EXTENDS Naturals

CONSTANTS
    Threads,  \* the web server's request threads
    Keys,     \* what the routes key on
    Ttl,      \* how long each key's value is used
    MaxQuery, \* the longest a query takes
    MaxTime,  \* bound: the monotonic clock
    Nobody,   \* no thread
    Never     \* no time and no entry

ASSUME CacheAssumption ==
    /\ Ttl \in [Keys -> Nat \ {0}]
    /\ MaxQuery \in Nat
    /\ MaxTime \in Nat
    /\ Nobody \notin Threads
    /\ Never \notin [at : 0..MaxTime, value : 0..MaxTime]

VARIABLES
    entries, \* _entries
    lock,    \* the thread that holds _lock, or Nobody
    pc,      \* where each thread is in get_or_call
    key,     \* the key each thread asks for
    got,     \* what each thread's query returned
    begun,   \* when the query of the thread that holds the lock began
    now,     \* the monotonic clock
    \* history
    shown,   \* what the latest answer for each key was, or Never
    stored   \* when a query for each key last succeeded, or Never

vars == <<entries, lock, pc, key, got, begun, now, shown, stored>>

TypeOK ==
    /\ entries \in [Keys -> [at : 0..MaxTime, value : 0..MaxTime] \cup {Never}]
    /\ lock \in Threads \cup {Nobody}
    /\ pc \in [Threads -> {"idle", "acquire", "look", "query", "store"}]
    /\ key \in [Threads -> Keys]
    /\ got \in [Threads -> 0..MaxTime]
    /\ begun \in 0..MaxTime /\ now \in 0..MaxTime
    /\ shown \in [Keys -> 0..MaxTime \cup {Never}]
    /\ stored \in [Keys -> 0..MaxTime \cup {Never}]

Init ==
    /\ entries = [k \in Keys |-> Never] /\ lock = Nobody
    /\ pc = [t \in Threads |-> "idle"] /\ key \in [Threads -> Keys]
    /\ got = [t \in Threads |-> 0] /\ begun = 0 /\ now = 0
    /\ shown = [k \in Keys |-> Never] /\ stored = [k \in Keys |-> Never]

Querying == \E t \in Threads : pc[t] \in {"query", "store"}

Tick ==
    /\ now < MaxTime
    /\ Querying => now < begun + MaxQuery
    /\ now' = now + 1
    /\ UNCHANGED <<entries, lock, pc, key, got, begun, shown, stored>>

\* A route's read.
Request(t) ==
    /\ pc[t] = "idle"
    /\ pc' = [pc EXCEPT ![t] = "acquire"]
    /\ \E k \in Keys : key' = [key EXCEPT ![t] = k]
    /\ UNCHANGED <<entries, lock, got, begun, now, shown, stored>>

Acquire(t) ==
    /\ pc[t] = "acquire" /\ lock = Nobody
    /\ lock' = t
    /\ pc' = [pc EXCEPT ![t] = "look"]
    /\ UNCHANGED <<entries, key, got, begun, now, shown, stored>>

\* The mutant that still uses an entry at the very end of its lifetime.
FreshOneTickLonger(k) == entries[k] # Never /\ now - entries[k].at <= Ttl[k]

Fresh(k) == entries[k] # Never /\ now - entries[k].at < Ttl[k]

\* The mutant that gives the lock up while it queries.
LookThenUnlock(t) ==
    /\ pc[t] = "look"
    /\ \/ /\ Fresh(key[t])
          /\ pc' = [pc EXCEPT ![t] = "idle"] /\ lock' = Nobody
          /\ shown' = [shown EXCEPT ![key[t]] = entries[key[t]].value]
          /\ UNCHANGED begun
       \/ /\ ~Fresh(key[t])
          /\ pc' = [pc EXCEPT ![t] = "query"] /\ begun' = now /\ lock' = Nobody
          /\ UNCHANGED shown
    /\ UNCHANGED <<entries, key, got, now, stored>>

\* A fresh entry is the answer; without one the thread goes on to produce.
Look(t) ==
    /\ pc[t] = "look"
    /\ \/ /\ Fresh(key[t])
          /\ pc' = [pc EXCEPT ![t] = "idle"] /\ lock' = Nobody
          /\ shown' = [shown EXCEPT ![key[t]] = entries[key[t]].value]
          /\ UNCHANGED begun
       \/ /\ ~Fresh(key[t])
          /\ pc' = [pc EXCEPT ![t] = "query"] /\ begun' = now
          /\ UNCHANGED <<lock, shown>>
    /\ UNCHANGED <<entries, key, got, now, stored>>

\* The mutant whose failing query leaves the lock held.
QueryKeepsLock(t) ==
    /\ pc[t] = "query"
    /\ \/ pc' = [pc EXCEPT ![t] = "store"] /\ got' = [got EXCEPT ![t] = now]
       \/ pc' = [pc EXCEPT ![t] = "idle"] /\ UNCHANGED got
    /\ UNCHANGED <<entries, lock, key, begun, now, shown, stored>>

\* produce: the query reads the database, or raises, which leaves the with block.
Query(t) ==
    /\ pc[t] = "query"
    /\ \/ pc' = [pc EXCEPT ![t] = "store"] /\ got' = [got EXCEPT ![t] = now] /\ UNCHANGED lock
       \/ pc' = [pc EXCEPT ![t] = "idle"] /\ lock' = Nobody /\ UNCHANGED got
    /\ UNCHANGED <<entries, key, begun, now, shown, stored>>

\* The mutant that stamps an entry with the time its query began.
StampBegun == begun

\* The clock is read again once the value is there.
Stamp == now

Store(t) ==
    /\ pc[t] = "store"
    /\ entries' = [entries EXCEPT ![key[t]] = [at |-> Stamp, value |-> got[t]]]
    /\ shown' = [shown EXCEPT ![key[t]] = got[t]]
    /\ stored' = [stored EXCEPT ![key[t]] = now]
    /\ pc' = [pc EXCEPT ![t] = "idle"] /\ lock' = Nobody
    /\ UNCHANGED <<key, got, begun, now>>

Holding(t) == Look(t) \/ Query(t) \/ Store(t)

Next == Tick \/ \E t \in Threads : Request(t) \/ Acquire(t) \/ Holding(t)

\* A thread that holds the lock runs.
Fairness == \A t \in Threads : WF_vars(Holding(t))

Spec == Init /\ [][Next]_vars /\ Fairness
-----------------------------------------------------------------------------
(* Properties *)

\* One query at a time, of all keys: several viewers who arrive together share it.
OneQueryAtATime ==
    \A s, t \in Threads :
        pc[s] \in {"query", "store"} /\ pc[t] \in {"query", "store"} => s = t

Answered(t) == pc[t] \in {"look", "store"} /\ pc'[t] = "idle"

\* No viewer is shown an answer older than its key's lifetime and one query.
AnswersAreRecent ==
    [][\A t \in Threads :
         Answered(t) => now < shown'[key[t]] + Ttl[key[t]] + MaxQuery]_vars

\* Time does not run backwards on the dashboard: an answer never shows the
\* database as it was before an earlier answer for the same key.
AnswersNeverGoBack ==
    [][\A k \in Keys : shown[k] # Never => shown'[k] >= shown[k]]_vars

\* A query is paid for once per lifetime: after one has succeeded, however long
\* it took, none for the same key begins until its Ttl has passed.
QueriesAreSpaced ==
    [][\A t \in Threads :
         pc[t] = "look" /\ pc'[t] = "query" /\ stored[key[t]] # Never
            => now >= stored[key[t]] + Ttl[key[t]]]_vars

\* The lock is always given up again, also when the query fails.
LockIsGivenBack == lock # Nobody ~> lock = Nobody
-----------------------------------------------------------------------------
(* The inductive invariant behind the safety properties *)

\* Exactly the thread that holds the lock is past the with statement.
LockInv == \A t \in Threads : pc[t] \in {"look", "query", "store"} <=> lock = t

\* An entry is what was shown last for its key.  It was stamped after its query
\* had read the database, by at most the length of a query.
EntryInv ==
    \A k \in Keys :
        IF entries[k] = Never
        THEN shown[k] = Never /\ stored[k] = Never
        ELSE /\ shown[k] = entries[k].value /\ stored[k] = entries[k].at
             /\ entries[k].value <= entries[k].at /\ entries[k].at <= now
             /\ entries[k].at <= entries[k].value + MaxQuery

\* A running query began after every entry there is was stored, and at most
\* MaxQuery ago.
QueryInv ==
    \A t \in Threads : pc[t] \in {"query", "store"} =>
        /\ begun <= now /\ now <= begun + MaxQuery
        /\ pc[t] = "store" => begun <= got[t] /\ got[t] <= now
        /\ \A k \in Keys : entries[k] # Never => entries[k].at <= begun

CacheInv == TypeOK /\ LockInv /\ EntryInv /\ QueryInv
=============================================================================
