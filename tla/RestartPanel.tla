----------------------------- MODULE RestartPanel -----------------------------
(***************************************************************************)
(* The dashboard's list of restarts, /api/restarts of bbmon/web/app.py:    *)
(* request threads that check the host, read the limit and query through   *)
(* the cache, while SIGHUPs replace the configuration under them and       *)
(* restarts are recorded.                                                  *)
(*                                                                         *)
(* What the cache promises of time is TimedCache's; here an entry expires  *)
(* whenever.                                                               *)
(***************************************************************************)
EXTENDS Integers, FiniteSets, Sequences, SequencesExt

CONSTANTS
    Requests,    \* the requests ever made
    MaxLimit,    \* bound: of web.restart_limit
    MaxRestarts, \* bound: rows
    MaxReloads   \* bound

PanelAssumption ==
    MaxLimit \in Nat \ {0} /\ MaxRestarts \in Nat /\ MaxReloads \in Nat

Limits == 1..MaxLimit

\* What a request depends on: the limit, and whether its host's name is allowed.
Configs == [limit : Limits, named : BOOLEAN]
Questions == Limits \X BOOLEAN

VARIABLES
    config,   \* RunningConfig.config
    restarts, \* for each row, oldest first, whether it was expected
    cache,    \* the entries, by key
    pc,       \* what each request does next
    include,  \* its include_expected
    limit,    \* the limit it has read
    answer,   \* the rows it was given, by number
    \* history
    reads,    \* the configurations each request has used
    length,   \* how many rows there were when each entry was queried
    reloads

vars == <<config, restarts, cache, pc, include, limit, answer, reads, length, reloads>>
world == <<config, restarts, reloads>>

Rows == 1..MaxRestarts

TypeOK ==
    /\ config \in Configs
    /\ restarts \in Seq(BOOLEAN) /\ Len(restarts) <= MaxRestarts
    /\ DOMAIN cache \subseteq Questions /\ DOMAIN length = DOMAIN cache
    /\ \A key \in DOMAIN cache : cache[key] \in Seq(Rows) /\ length[key] \in 0..MaxRestarts
    /\ pc \in [Requests -> {"host", "limit", "lock", "done", "refused"}]
    /\ include \in [Requests -> BOOLEAN]
    /\ limit \in [Requests -> {0} \cup Limits]
    /\ answer \in [Requests -> Seq(Rows)]
    /\ reads \in [Requests -> SUBSET Configs]
    /\ reloads \in 0..MaxReloads

Init ==
    /\ config \in Configs /\ restarts = <<>> /\ cache = <<>> /\ length = <<>>
    /\ pc = [r \in Requests |-> "host"] /\ include \in [Requests -> BOOLEAN]
    /\ limit = [r \in Requests |-> 0] /\ answer = [r \in Requests |-> <<>>]
    /\ reads = [r \in Requests |-> {}] /\ reloads = 0

\* insert_restart, by bbmon-init.
Record ==
    /\ Len(restarts) < MaxRestarts
    /\ \E expected \in BOOLEAN : restarts' = Append(restarts, expected)
    /\ UNCHANGED <<config, cache, pc, include, limit, answer, reads, length, reloads>>

\* RunningConfig.reload, in the handler of a SIGHUP: one attribute is rebound.
Reload ==
    /\ reloads < MaxReloads /\ reloads' = reloads + 1
    /\ config' \in Configs
    /\ UNCHANGED <<restarts, cache, pc, include, limit, answer, reads, length>>

\* reject_unexpected_hosts.
CheckHost(r) ==
    /\ pc[r] = "host"
    /\ pc' = [pc EXCEPT ![r] = IF config.named THEN "limit" ELSE "refused"]
    /\ reads' = [reads EXCEPT ![r] = @ \cup {config}]
    /\ UNCHANGED <<world, cache, include, limit, answer, length>>

\* restarts, up to the cache.
ReadLimit(r) ==
    /\ pc[r] = "limit" /\ pc' = [pc EXCEPT ![r] = "lock"]
    /\ limit' = [limit EXCEPT ![r] = config.limit]
    /\ reads' = [reads EXCEPT ![r] = @ \cup {config}]
    /\ UNCHANGED <<world, cache, include, answer, length>>

\* The condition of the query, on the rows there are.
Listed(withExpected) == {row \in DOMAIN restarts : withExpected \/ ~restarts[row]}

\* ORDER BY timestamp DESC: each stands where as many come before it as are newer.
NewestFirst(rows) ==
    [i \in 1..Cardinality(rows) |->
        CHOOSE row \in rows : Cardinality({newer \in rows : newer > row}) = i - 1]

\* LIMIT.
Upto(n, s) == SubSeq(s, 1, IF Len(s) < n THEN Len(s) ELSE n)

\* The mutant that filters what the limit has left.
RecentLimitedFirst(n, withExpected) ==
    NewestFirst(Listed(withExpected) \cap ToSet(Upto(n, NewestFirst(DOMAIN restarts))))

\* recent_restarts: the filter before the limit.
RecentRestarts(n, withExpected) == Upto(n, NewestFirst(Listed(withExpected)))

CacheKey(r) == <<limit[r], include[r]>>

\* get_or_call, which holds the lock: the entry that is there and has not
\* expired, or a query.
Answer(r) ==
    LET key == CacheKey(r)
        rows == RecentRestarts(limit[r], include[r])
    IN  /\ pc[r] = "lock" /\ pc' = [pc EXCEPT ![r] = "done"]
        /\ \/ /\ key \in DOMAIN cache
              /\ answer' = [answer EXCEPT ![r] = cache[key]]
              /\ UNCHANGED <<cache, length>>
           \/ /\ answer' = [answer EXCEPT ![r] = rows]
              /\ cache' = [k \in DOMAIN cache \cup {key} |-> IF k = key THEN rows ELSE cache[k]]
              /\ length' = [k \in DOMAIN cache \cup {key} |->
                                IF k = key THEN Len(restarts) ELSE length[k]]
        /\ UNCHANGED <<world, include, limit, reads>>

Next ==
    \/ Record \/ Reload
    \/ \E r \in Requests : CheckHost(r) \/ ReadLimit(r) \/ Answer(r)

Spec == Init /\ [][Next]_vars
-----------------------------------------------------------------------------
(* Properties *)

Done == {r \in Requests : pc[r] = "done"}

\* Two requests that share entries of the cache each get what they asked for:
\* no more rows than the limit in their own answer, no expected restart where
\* the toggle is off.
FitTheQuestion ==
    \A r \in Done :
        /\ Len(answer[r]) <= limit[r]
        /\ \A i \in DOMAIN answer[r] : include[r] \/ ~restarts[answer[r][i]]

\* A restart that was in the table and should be listed is hidden only by as
\* many newer ones as the limit, all of them listed: above all a power cut
\* is never hidden by reboots that the toggle leaves out.
HiddenByNewerOnes ==
    \A key \in DOMAIN cache : \A row \in 1..length[key] :
        /\ (key[2] \/ ~restarts[row])
        /\ \A i \in DOMAIN cache[key] : cache[key][i] # row
        => /\ Len(cache[key]) = key[1]
           /\ \A i \in DOMAIN cache[key] : cache[key][i] > row

\* Whatever is recorded or reloaded while they are made, answers from the cache and
\* from the table are the newest restarts of the kind that was asked for.
AnswersAreTheNewest == FitTheQuestion /\ HiddenByNewerOnes

\* What RunningConfig's comment says: "a request thread reads the configuration
\* from before the reload or the one from after it, never a mixture of the two".
RequestSeesOneConfig == \A r \in Requests : Cardinality(reads[r]) <= 1
-----------------------------------------------------------------------------
(* Strengthenings *)

\* What is cached, and what was answered, is of rows that are there and of the
\* kind that was asked for.
EntryInv ==
    \A key \in DOMAIN cache :
        /\ length[key] <= Len(restarts) /\ Len(cache[key]) <= key[1]
        /\ \A i \in DOMAIN cache[key] :
             cache[key][i] <= Len(restarts) /\ (key[2] \/ ~restarts[cache[key][i]])

AnswerInv ==
    \A r \in Requests :
        /\ pc[r] = "lock" => limit[r] \in Limits
        /\ pc[r] = "done" => \A i \in DOMAIN answer[r] : answer[r][i] <= Len(restarts)

PanelInv == TypeOK /\ EntryInv /\ AnswerInv /\ AnswersAreTheNewest
=============================================================================
