------------------------------ MODULE HoldsApi ------------------------------
(***************************************************************************)
(* POST, PATCH and DELETE /v1/holds over the seat leases and the           *)
(* idempotency store, one step per await.  Records are found by the hash   *)
(* of the request's body, never by its Idempotency-Key: whose request it   *)
(* is and, for DELETE, which token it presents are not part of the hash.   *)
(***************************************************************************)
EXTENDS SeatLease, IdemStore

CONSTANTS
    Handlers,   \* bound: requests to /v1/holds in a behaviour
    Clients,    \* buyers
    Ask,        \* Ask[h]: the requests handler h may be asked to serve
    NoRequest,  \* what a handler serves before it begins
    NoToken,    \* a request without hold_token or If-Match
    MaxFaults   \* bound: crashes and failed Redis calls

HoldRequest ==
    [op : {"hold", "extend", "release"}, seats : SUBSET Seats \ {{}},
     id : RequestIds, client : Clients]

ASSUME AskTyped == Ask \in [Handlers -> SUBSET HoldRequest]
ASSUME NoRequestIsNoRequest == NoRequest \notin HoldRequest
ASSUME OneSeatAtATime ==
    \A h \in Handlers : \A q \in Ask[h] : q.op # "hold" => \E s \in Seats : q.seats = {s}
ASSUME NoTokenIsNoToken == NoToken \notin Token
ASSUME HoldBounds == MaxFaults \in Nat
\* The owner of a hold is the X-Request-ID of the request that took it.
ASSUME OwnersAreRequests == Owners = RequestIds

VARIABLES
    pc,      \* where each handler is
    req,     \* the request each handler serves
    token,   \* the token a handler presents, or has been granted
    part,    \* what a handler's body or path adds to its hash: see Begin
    reply,   \* what a handler answers, or is about to answer
    granted, \* history: every grant so far, with its seats
    late,    \* acquires their caller no longer waits for but that may yet run
    ran,     \* history: handlers that called their script
    expired, \* history: keys whose record has run out
    faults   \* faults so far

served == <<req, token, part>>
history == <<granted, late, expired>>
vars == <<hold, idem, pc, served, reply, ran, history, faults>>

Reply == [is : {"none", "held", "conflict", "extended", "not_extended", "released",
                "not_released", "in_progress", "no_token", "forbidden", "error"},
          token : Token \cup {NoToken}]
Plain(kind) == [is |-> kind, token |-> NoToken]

\* The bodies (and DELETE path) that are hashed: op, seats and a part that is
\* the hold_token of a PATCH body and the hold id of a DELETE path.
Bodies ==
    [op : {"hold"}, seats : SUBSET Seats \ {{}}, of : {NoToken}]
    \cup [op : {"extend"}, seats : SUBSET Seats \ {{}}, of : Token \cup {NoToken}]
    \cup [op : {"release"}, seats : SUBSET Seats \ {{}}, of : Owners]

\* Every body that is asked has its key, every answer that is stored is a reply.
ASSUME KeysAreBodies ==
    /\ Keys \subseteq Bodies
    /\ \A h \in Handlers : \A q \in Ask[h] : \A b \in Bodies :
          b.op = q.op /\ b.seats = q.seats => b \in Keys
ASSUME ResponsesAreReplies ==
    /\ Responses \subseteq Reply
    /\ \A t \in Token : [is |-> "held", token |-> t] \in Responses
    /\ {Plain(kind) : kind \in {"extended", "not_extended", "released", "not_released"}}
          \subseteq Responses

BodyHash(q, of) == [op |-> q.op, seats |-> q.seats, of |-> of]
KeyOf(h) == BodyHash(req[h], part[h])

Fault == faults < MaxFaults /\ faults' = faults + 1
Goto(h, step) == pc' = [pc EXCEPT ![h] = step]
Answer(h, r) == Goto(h, "done") /\ reply' = [reply EXCEPT ![h] = r]

\* The tokens a client can present: any that was ever handed out.
Presentable(q) ==
    IF q.op = "hold" THEN {NoToken} ELSE {NoToken} \cup {g.token : g \in granted}

\* A token sent in If-Match is not hashed; DELETE hashes the hold id of its path
\* instead and never compares it with the token.
Parts(q, t) ==
    CASE q.op = "hold" -> {NoToken}
      [] q.op = "extend" -> {t, NoToken}
      [] q.op = "release" -> Owners

------------------------------------------------------------------------------
\* idemStore.begin, first half: SET NX under the hash of the body.
Begin(h) ==
    /\ pc[h] = "idle"
    /\ \E q \in Ask[h] : \E t \in Presentable(q) : \E of \in Parts(q, t) :
          LET k == BodyHash(q, of)
          IN  /\ req' = [req EXCEPT ![h] = q]
              /\ token' = [token EXCEPT ![h] = t]
              /\ part' = [part EXCEPT ![h] = of]
              /\ SetIfAbsent(k, q.id)
              /\ Goto(h, IF idem[k] = Missing THEN "act" ELSE "get")
    /\ UNCHANGED <<hold, reply, ran, history, faults>>

\* A slip: a record of another request in progress stops nobody.
ReadAny(h) ==
    /\ pc[h] = "get"
    /\ idem[KeyOf(h)].state # "committed"
    /\ Goto(h, "act")
    /\ UNCHANGED <<hold, idem, served, reply, ran, history, faults>>

\* idemStore.begin, second half: GET the record the SET NX ran into.
ReadRecord(h) ==
    /\ pc[h] = "get"
    /\ MayProceed(KeyOf(h), req[h].id)
    /\ Goto(h, "act")
    /\ UNCHANGED <<hold, idem, served, reply, ran, history, faults>>

AnswerInProgress(h) ==
    /\ pc[h] = "get"
    /\ \E r \in RequestIds \ {req[h].id} : idem[KeyOf(h)] = InProgress(r)
    /\ Answer(h, Plain("in_progress"))
    /\ UNCHANGED <<hold, idem, served, ran, history, faults>>

\* The stored answer is replayed, whatever has become of the hold since.
AnswerCached(h) ==
    /\ pc[h] = "get"
    /\ \E r \in Responses : idem[KeyOf(h)] = Committed(r) /\ Answer(h, r)
    /\ UNCHANGED <<hold, idem, served, ran, history, faults>>

\* PATCH and DELETE without a token: 412, and the record stays in progress.
RefuseToken(h) ==
    /\ pc[h] = "act"
    /\ req[h].op # "hold" /\ token[h] = NoToken
    /\ Answer(h, Plain("no_token"))
    /\ UNCHANGED <<hold, idem, served, ran, history, faults>>

\* PATCH looks at the caller's scopes only here; the record stays too.
RefuseScope(h) ==
    /\ pc[h] = "act"
    /\ req[h].op = "extend" /\ token[h] # NoToken
    /\ Answer(h, Plain("forbidden"))
    /\ UNCHANGED <<hold, idem, served, ran, history, faults>>

------------------------------------------------------------------------------
(* The call of the seat-lock store *)

Conflicting(S, t) ==
    \E s \in S : hold[s] # Free /\ <<t.owner, hold[s].owner>> \notin OwnerPattern
GrantOf(h, v) == [seats |-> req[h].seats, token |-> [owner |-> req[h].id, version |-> v]]

Take(g) == Grant(g.seats, g.token) /\ granted' = granted \cup {g}
Ran(h) == ran' = [ran EXCEPT ![h] = TRUE]

\* The answer is the EVAL fallback's, and the EVALSHA before it may yet run; or
\* the first try was answered.
MayLeave(g) ==
    \/ UNCHANGED <<late, faults>>
    \/ Fault /\ late' = late \cup {g}

\* acquireAllOrNone grants a hold under version Date.now(): any version.
Acquire(h) ==
    /\ pc[h] = "act" /\ req[h].op = "hold"
    /\ \E v \in Versions :
          /\ Take(GrantOf(h, v))
          /\ MayLeave(GrantOf(h, v))
          /\ token' = [token EXCEPT ![h] = GrantOf(h, v).token]
          /\ reply' = [reply EXCEPT ![h] = [is |-> "held", token |-> GrantOf(h, v).token]]
    /\ Ran(h)
    /\ Goto(h, "remember")
    /\ UNCHANGED <<idem, req, part, expired>>

\* A slip: a conflict is answered, and remembered, as a success.
ConflictRemembered(h) ==
    /\ pc[h] = "act" /\ req[h].op = "hold"
    /\ \E v \in Versions :
          /\ Conflicting(req[h].seats, GrantOf(h, v).token)
          /\ reply' = [reply EXCEPT ![h] = [is |-> "held", token |-> GrantOf(h, v).token]]
    /\ Ran(h)
    /\ Goto(h, "remember")
    /\ UNCHANGED <<hold, idem, served, history, faults>>

\* 409; the record stays in progress.
AcquireConflict(h) ==
    /\ pc[h] = "act" /\ req[h].op = "hold"
    /\ \E v \in Versions :
          /\ Conflicting(req[h].seats, GrantOf(h, v).token)
          /\ MayLeave(GrantOf(h, v))
    /\ Ran(h)
    /\ Answer(h, Plain("conflict"))
    /\ UNCHANGED <<hold, idem, served, granted, expired>>

\* The adapter gives up (500): its acquire has run, may still run, or both.
AcquireThrows(h) ==
    /\ pc[h] = "act" /\ req[h].op = "hold"
    /\ Fault
    /\ \E v \in Versions :
          /\ Take(GrantOf(h, v)) \/ UNCHANGED <<hold, granted>>
          /\ late' = late \cup {GrantOf(h, v)} \/ UNCHANGED late
    /\ Ran(h)
    /\ Answer(h, Plain("error"))
    /\ UNCHANGED <<idem, served, expired>>

\* A left-over acquire runs, if it still can, or is lost.
LateAcquire(g) ==
    /\ g \in late
    /\ late' = late \ {g}
    /\ Take(g) \/ UNCHANGED <<hold, granted>>
    /\ UNCHANGED <<idem, pc, served, reply, ran, expired, faults>>

HeldUnderToken(h) == \A s \in req[h].seats : hold[s] = token[h]

\* extendIfOwner: the answer says whether the hold was the token's.
Extend(h) ==
    /\ pc[h] = "act" /\ req[h].op = "extend" /\ token[h] # NoToken
    /\ reply' = [reply EXCEPT ![h] =
          Plain(IF HeldUnderToken(h) THEN "extended" ELSE "not_extended")]
    /\ Ran(h)
    /\ Goto(h, "remember")
    /\ UNCHANGED <<hold, idem, served, history, faults>>

\* releaseIfOwner: the hold ends if it is the token's (204), else 200.
Release(h) ==
    /\ pc[h] = "act" /\ req[h].op = "release" /\ token[h] # NoToken
    /\ IF HeldUnderToken(h)
       THEN End(req[h].seats) /\ reply' = [reply EXCEPT ![h] = Plain("released")]
       ELSE UNCHANGED hold /\ reply' = [reply EXCEPT ![h] = Plain("not_released")]
    /\ Ran(h)
    /\ Goto(h, "remember")
    /\ UNCHANGED <<idem, served, history, faults>>

\* Either script's call throws (500): it may have run all the same.  (A release
\* that runs later still looks like a hold that runs out: ExpireHold.)
ScriptThrows(h) ==
    /\ pc[h] = "act" /\ req[h].op # "hold" /\ token[h] # NoToken
    /\ Fault
    /\ \/ UNCHANGED hold
       \/ req[h].op = "release" /\ HeldUnderToken(h) /\ End(req[h].seats)
    /\ Ran(h)
    /\ Answer(h, Plain("error"))
    /\ UNCHANGED <<idem, served, history>>

------------------------------------------------------------------------------
\* A slip: the token is stored instead of the answer.
RememberToken(h) ==
    /\ pc[h] = "remember"
    /\ SetIfPresent(KeyOf(h), token[h])
    /\ Goto(h, "reply")
    /\ UNCHANGED <<hold, served, reply, ran, history, faults>>

\* idemStore.commit: SET XX.
Remember(h) ==
    /\ pc[h] = "remember"
    /\ SetIfPresent(KeyOf(h), reply[h])
    /\ Goto(h, "reply")
    /\ UNCHANGED <<hold, served, reply, ran, history, faults>>

\* Redis fails there, before or after the SET: 500 for what has been done.
RememberFails(h) ==
    /\ pc[h] = "remember"
    /\ Fault
    /\ SetIfPresent(KeyOf(h), reply[h]) \/ UNCHANGED idem
    /\ Answer(h, Plain("error"))
    /\ UNCHANGED <<hold, served, ran, history>>

Respond(h) ==
    /\ pc[h] = "reply"
    /\ Answer(h, reply[h])
    /\ UNCHANGED <<hold, idem, served, ran, history, faults>>

\* The API process dies, or Redis fails under begin.
Crash(h) ==
    /\ pc[h] \in {"get", "act", "remember", "reply"}
    /\ Fault
    /\ Answer(h, Plain("error"))
    /\ UNCHANGED <<hold, idem, served, ran, history>>

------------------------------------------------------------------------------
\* A hold's TTL runs out.
ExpireHold(s) ==
    /\ hold[s] # Free
    /\ End({s})
    /\ UNCHANGED <<idem, pc, served, reply, ran, history, faults>>

\* 120 s pass under an in-progress record, 6 or 24 h under a committed one.
ExpireRecord(k) ==
    /\ ExpireKey(k)
    /\ expired' = expired \cup {k}
    /\ UNCHANGED <<hold, pc, served, reply, granted, late, ran, faults>>

Init ==
    /\ LeaseInit
    /\ IdemInit
    /\ pc = [h \in Handlers |-> "idle"]
    /\ req = [h \in Handlers |-> NoRequest]
    /\ token = [h \in Handlers |-> NoToken]
    /\ part = [h \in Handlers |-> NoToken]
    /\ reply = [h \in Handlers |-> Plain("none")]
    /\ granted = {}
    /\ late = {}
    /\ ran = [h \in Handlers |-> FALSE]
    /\ expired = {}
    /\ faults = 0

HandlerStep(h) ==
    \/ ReadRecord(h) \/ AnswerInProgress(h) \/ AnswerCached(h)
    \/ RefuseToken(h) \/ RefuseScope(h)
    \/ Acquire(h) \/ AcquireConflict(h) \/ Extend(h) \/ Release(h)
    \/ Remember(h) \/ Respond(h)

HandlerFault(h) ==
    AcquireThrows(h) \/ ScriptThrows(h) \/ RememberFails(h) \/ Crash(h)

Next ==
    \/ \E h \in Handlers : Begin(h) \/ HandlerStep(h) \/ HandlerFault(h)
    \/ \E g \in late : LateAcquire(g)
    \/ \E s \in Seats : ExpireHold(s)
    \/ \E k \in Keys : ExpireRecord(k)

Spec == Init /\ [][Next]_vars

------------------------------------------------------------------------------
(* Properties *)

\* Every variable keeps to the values the handlers and Redis use.
TypeOK ==
    /\ hold \in [Seats -> Token \cup {Free}]
    /\ idem \in [Keys -> IdemRecord]
    /\ pc \in [Handlers -> {"idle", "get", "act", "remember", "reply", "done"}]
    /\ req \in [Handlers -> HoldRequest \cup {NoRequest}]
    /\ token \in [Handlers -> Token \cup {NoToken}]
    /\ part \in [Handlers -> Token \cup Owners \cup {NoToken}]
    /\ reply \in [Handlers -> Reply]
    /\ granted \in SUBSET [seats : SUBSET Seats, token : Token]
    /\ late \in SUBSET [seats : SUBSET Seats, token : Token]
    /\ ran \in [Handlers -> BOOLEAN]
    /\ expired \in SUBSET Keys
    /\ faults \in 0..MaxFaults

\* Of all requests with one body (PATCH: and token, DELETE: and hold id) only
\* those of one request id call the seat-lock store while the record lives,
\* though the others may find it in progress, abandoned or committed.
OneRequestActs ==
    \A g, h \in Handlers :
        ran[g] /\ ran[h] /\ KeyOf(g) = KeyOf(h) /\ req[g].id # req[h].id
        => KeyOf(h) \in expired

\* A repeated request is told what the first was told: the answers "held" to
\* one body name one token while the record lives, whoever crashed in between.
\* Requests of one id do not count as repeated: both of them act, and what the
\* second stores is told to later repeats.  So it takes unique ids.
RepeatsAgree ==
    \A g, h \in Handlers :
        /\ pc[g] = "done" /\ pc[h] = "done" /\ KeyOf(g) = KeyOf(h)
        /\ reply[g].is = "held" /\ reply[h].is = "held"
        /\ req[g].id # req[h].id
        => reply[g] = reply[h] \/ KeyOf(h) \in expired

\* An answer kept for replay tells of a hold that was granted as a whole: no
\* conflict, failed call or lost reply leaves a success behind.
StoredHoldsWereGranted ==
    \A k \in Keys : \A r \in Responses :
        idem[k] = Committed(r) /\ r.is = "held" => [seats |-> k.seats, token |-> r.token] \in granted

\* "success indicates seats are held for the session" (prd.md): a hold that is
\* answered as a success was taken by a request of the client that is told so.
HoldIsTheClients ==
    \A h \in Handlers :
        pc[h] = "done" /\ reply[h].is = "held" =>
            \E g \in Handlers \ {i \in Handlers : pc[i] = "idle"} :
                req[g].id = reply[h].token.owner /\ req[g].client = req[h].client
==============================================================================
