------------------------------ MODULE IdemStore ------------------------------
(***************************************************************************)
(* The idempotency store of packages/idempotency: one Redis record per     *)
(* key, written with SET NX when a request begins and with SET XX when it  *)
(* commits.  Neither write looks at who owns the record, and both kinds of *)
(* record expire.                                                          *)
(***************************************************************************)
CONSTANTS
    Keys,        \* store keys: tenant, route and Idempotency-Key or body hash
    RequestIds,  \* X-Request-ID values, written as the record's owner
    Responses    \* response bodies a commit may store

VARIABLE idem    \* idem[k]: the record under key k

Missing == [state |-> "missing"]
InProgress(r) == [state |-> "in-progress", owner |-> r]
Committed(x) == [state |-> "committed", response |-> x]

IdemRecord ==
    {Missing}
    \cup {InProgress(r) : r \in RequestIds}
    \cup {Committed(x) : x \in Responses}

IdemInit == idem = [k \in Keys |-> Missing]

\* A slip: SET without NX.
SetAlways(k, r) == idem' = [idem EXCEPT ![k] = InProgress(r)]

\* begin's SET NX: the record is created only if there is none.
SetIfAbsent(k, r) ==
    IF idem[k] = Missing
    THEN idem' = [idem EXCEPT ![k] = InProgress(r)]
    ELSE UNCHANGED idem

\* commit's SET XX: any record is overwritten, an expired one is not recreated.
SetIfPresent(k, x) ==
    IF idem[k] = Missing
    THEN UNCHANGED idem
    ELSE idem' = [idem EXCEPT ![k] = Committed(x)]

\* What begin lets the caller do with the record it read back: a missing
\* record (it expired between SET and GET) and the caller's own request id
\* both let the handler run.
MayProceed(k, r) == idem[k] = Missing \/ idem[k] = InProgress(r)

ExpireKey(k) ==
    /\ idem[k] # Missing
    /\ idem' = [idem EXCEPT ![k] = Missing]
==============================================================================
