------------------------------ MODULE SeatLocks ------------------------------
(***************************************************************************)
(* The Redis seat-lock store of services/inventory: the four Lua scripts   *)
(* (each runs atomically inside Redis), key expiry, and the adapter that   *)
(* calls them with up to three attempts, an EVAL fallback and a time       *)
(* budget.  One call is one adapter method invocation of an API process;   *)
(* calls of several processes interleave between attempts.                 *)
(*                                                                         *)
(* A broken connection tells the adapter nothing about the command it had  *)
(* sent: that copy may have run, may run later (Redis reads it from the    *)
(* old socket after the retry ran on a new one) or may be lost.  It stays  *)
(* in late[c] until Redis executes or drops it.                            *)
(***************************************************************************)
EXTENDS Naturals, Sequences, FiniteSets

CONSTANTS
    Seats,         \* the seats of one performance
    Owners,        \* values of the scripts' owner argument
    Versions,      \* values of the scripts' version argument
    Free,          \* stands for a missing key
    MaxTTL,        \* bound: the longest TTL, in ticks of Redis's clock
    Calls,         \* bound: the adapter calls of one behaviour
    Requests,      \* the requests those calls may carry
    MaxLate,       \* bound: copies of one call on broken connections at once
    Restarts,      \* bound: whether API processes start while calls run
    OwnerPattern   \* <<o, p>>: the Lua pattern ':o$' matches a value p wrote

Ops == {"acquire", "extend", "release", "rollback"}

Token == [owner : Owners, version : Versions]

Request ==
    [op : Ops, seats : SUBSET Seats, owner : Owners, version : Versions,
     ttl : 1..MaxTTL]

ASSUME FreeIsNoToken == Free \notin Token
ASSUME MaxTTLPositive == MaxTTL \in Nat \ {0}
ASSUME BoundsTyped == MaxLate \in Nat /\ Restarts \in BOOLEAN
\* extend, release and rollback take one key; acquire one key per seat.
ASSUME RequestsWellFormed ==
    /\ Requests \subseteq Request
    /\ \A r \in Requests : r.op # "acquire" => \E s \in Seats : r.seats = {s}
\* The owner is an X-Request-ID, taken as it comes and used as a Lua pattern, so
\* nothing is assumed of OwnerPattern.  '-' is a repetition in a pattern: a UUID
\* does not match the value it has written itself.  '.' matches any character:
\* an owner 'web.1' matches what 'web-1' has written.  An owner is plain if it
\* matches nobody but itself.
Plain(o) == \A p \in Owners : <<o, p>> \in OwnerPattern => p = o

ScriptOrder == <<"acquire", "extend", "release", "rollback">>
MaxAttempts == 3

Replies == {"none", "OK", "NOOP", "CONFLICT", "error"}

VARIABLES
    hold,     \* hold[s]: the token stored under seat s's key, or Free
    ttl,      \* ttl[s]: remaining life of the key, 0 when there is none
    req,      \* req[c]: the request call c carries
    pc,       \* pc[c]: where call c is in evalWithRetry
    attempt,  \* attempt[c]: the loop counter of evalWithRetry
    resp,     \* resp[c]: what the call returned, or threw
    late,     \* late[c]: copies of c's command on broken connections
    cached,   \* scripts Redis has in its script cache
    boot      \* scripts a starting API process has still to load

redis == <<hold, ttl>>
call == <<req, pc, attempt, resp>>
scripts == <<cached, boot>>
vars == <<hold, ttl, req, pc, attempt, resp, late, cached, boot>>

------------------------------------------------------------------------------
(* The scripts *)

TokenOf(r) == [owner |-> r.owner, version |-> r.version]

\* A slip: only newer holds are conflicts.
ConflictsByVersion(r) ==
    {s \in r.seats : /\ hold[s] # Free
                     /\ <<r.owner, hold[s].owner>> \notin OwnerPattern
                     /\ hold[s].version > r.version}

\* The seats acquire_all_or_none reports: held, and not matched by ':owner$'.
Conflicts(r) ==
    {s \in r.seats : hold[s] # Free /\ <<r.owner, hold[s].owner>> \notin OwnerPattern}

\* A slip: the version, the fencing token, is not compared.
HeldByOwner(r) == \A s \in r.seats : hold[s] # Free /\ hold[s].owner = r.owner

\* extend, release and rollback compare the owner and the version exactly.
HeldUnder(r) == \A s \in r.seats : hold[s] = TokenOf(r)

ScriptReply(r) ==
    IF r.op = "acquire"
    THEN IF Conflicts(r) = {} THEN "OK" ELSE "CONFLICT"
    ELSE IF HeldUnder(r) THEN "OK" ELSE "NOOP"

\* Slips: SET without a TTL; the seats the owner has already are left out.
AcquireWithoutTTL(r) ==
    /\ r.op = "acquire"
    /\ Conflicts(r) = {}
    /\ hold' = [s \in Seats |-> IF s \in r.seats THEN TokenOf(r) ELSE hold[s]]
    /\ UNCHANGED ttl
AcquireFreeSeats(r) ==
    LET free == {s \in r.seats : hold[s] = Free}
    IN  /\ r.op = "acquire"
        /\ Conflicts(r) = {}
        /\ hold' = [s \in Seats |-> IF s \in free THEN TokenOf(r) ELSE hold[s]]
        /\ ttl' = [s \in Seats |-> IF s \in free THEN r.ttl ELSE ttl[s]]

\* PSETEX on every key: a new value and a new TTL, over whatever was there.
AcquireScript(r) ==
    /\ r.op = "acquire"
    /\ Conflicts(r) = {}
    /\ hold' = [s \in Seats |-> IF s \in r.seats THEN TokenOf(r) ELSE hold[s]]
    /\ ttl' = [s \in Seats |-> IF s \in r.seats THEN r.ttl ELSE ttl[s]]

\* PEXPIRE sets the TTL, longer or shorter than what remained.
ExtendScript(r) ==
    /\ r.op = "extend"
    /\ HeldUnder(r)
    /\ ttl' = [s \in Seats |-> IF s \in r.seats THEN r.ttl ELSE ttl[s]]
    /\ UNCHANGED hold

DeleteKeys(r) ==
    /\ hold' = [s \in Seats |-> IF s \in r.seats THEN Free ELSE hold[s]]
    /\ ttl' = [s \in Seats |-> IF s \in r.seats THEN 0 ELSE ttl[s]]

ReleaseScript(r) == r.op = "release" /\ HeldUnder(r) /\ DeleteKeys(r)

RollbackScript(r) == r.op = "rollback" /\ HeldUnder(r) /\ DeleteKeys(r)

\* A CONFLICT or a NOOP writes nothing.
RefusedByScript(r) == ScriptReply(r) # "OK" /\ UNCHANGED redis

RunScript(r) ==
    \/ AcquireScript(r)
    \/ ExtendScript(r)
    \/ ReleaseScript(r)
    \/ RollbackScript(r)
    \/ RefusedByScript(r)

------------------------------------------------------------------------------
(* The adapter *)

Return(c, answer) ==
    /\ pc' = [pc EXCEPT ![c] = "done"]
    /\ resp' = [resp EXCEPT ![c] = answer]
    /\ UNCHANGED <<req, attempt>>

\* Slips: one attempt too many; an attempt that is not counted.
OneAttemptMore(c) ==
    /\ attempt' = [attempt EXCEPT ![c] = @ + 1]
    /\ IF attempt[c] < MaxAttempts
       THEN pc' = [pc EXCEPT ![c] = "evalsha"] /\ UNCHANGED resp
       ELSE /\ pc' = [pc EXCEPT ![c] = "done"]
            /\ resp' = [resp EXCEPT ![c] = "error"]
    /\ UNCHANGED req
UncountedAttempt(c) == pc' = [pc EXCEPT ![c] = "evalsha"] /\ UNCHANGED <<req, attempt, resp>>

\* The catch at the end of the loop body: try again, or give up and throw.
NextAttempt(c) ==
    /\ attempt' = [attempt EXCEPT ![c] = @ + 1]
    /\ IF attempt[c] + 1 < MaxAttempts
       THEN pc' = [pc EXCEPT ![c] = "evalsha"] /\ UNCHANGED resp
       ELSE /\ pc' = [pc EXCEPT ![c] = "done"]
            /\ resp' = [resp EXCEPT ![c] = "error"]
    /\ UNCHANGED req

\* An API process calls acquireAllOrNone, extendIfOwner, releaseIfOwner or
\* rollbackIfOwner.
Start(c) ==
    /\ pc[c] = "idle"
    /\ pc' = [pc EXCEPT ![c] = "evalsha"]
    /\ UNCHANGED <<redis, req, attempt, resp, late, scripts>>

\* EVALSHA finds the script, runs it, and the reply arrives.
EvalShaReply(c) ==
    /\ pc[c] = "evalsha"
    /\ req[c].op \in cached
    /\ RunScript(req[c])
    /\ Return(c, ScriptReply(req[c]))
    /\ UNCHANGED <<late, scripts>>

\* NOSCRIPT: the script was flushed; load it and use up an attempt.
EvalShaNoScript(c) ==
    /\ pc[c] = "evalsha"
    /\ req[c].op \notin cached
    /\ cached' = cached \cup {req[c].op}
    /\ NextAttempt(c)
    /\ UNCHANGED <<redis, late, boot>>

\* BUSY or LOADING: Redis runs nothing; back off and use up an attempt.
EvalShaBusy(c) ==
    /\ pc[c] = "evalsha"
    /\ NextAttempt(c)
    /\ UNCHANGED <<redis, late, scripts>>

\* A slip: every attempt falls back to EVAL.
AlwaysFallBack(c) ==
    /\ pc[c] = "evalsha"
    /\ late[c] < MaxLate
    /\ late' = [late EXCEPT ![c] = @ + 1]
    /\ pc' = [pc EXCEPT ![c] = "eval"]
    /\ UNCHANGED <<redis, req, attempt, resp, scripts>>

\* The connection breaks under EVALSHA: the first attempt falls back to EVAL,
\* a later one is counted as failed.  The copy already sent is out of reach.
EvalShaBroken(c) ==
    /\ pc[c] = "evalsha"
    /\ late[c] < MaxLate
    /\ late' = [late EXCEPT ![c] = @ + 1]
    /\ IF attempt[c] = 0
       THEN pc' = [pc EXCEPT ![c] = "eval"] /\ UNCHANGED <<req, attempt, resp>>
       ELSE NextAttempt(c)
    /\ UNCHANGED <<redis, scripts>>

\* The EVAL fallback runs the script whether it is cached or not (and EVAL
\* leaves it in the cache).
EvalReply(c) ==
    /\ pc[c] = "eval"
    /\ RunScript(req[c])
    /\ cached' = cached \cup {req[c].op}
    /\ Return(c, ScriptReply(req[c]))
    /\ UNCHANGED <<late, boot>>

\* The fallback fails too: its error is caught by the outer catch.
EvalBroken(c) ==
    /\ pc[c] = "eval"
    /\ late[c] < MaxLate
    /\ late' = [late EXCEPT ![c] = @ + 1]
    /\ NextAttempt(c)
    /\ UNCHANGED <<redis, scripts>>

\* More than 150 ms have gone by when the loop comes round: every remaining
\* attempt throws redis_timeout_overall before it sends anything.
OverBudget(c) ==
    /\ pc[c] = "evalsha"
    /\ attempt[c] > 0
    /\ Return(c, "error")
    /\ UNCHANGED <<redis, late, scripts>>

CallStep(c) ==
    \/ EvalShaReply(c)
    \/ EvalShaNoScript(c)
    \/ EvalShaBusy(c)
    \/ EvalShaBroken(c)
    \/ EvalReply(c)
    \/ EvalBroken(c)
    \/ OverBudget(c)

------------------------------------------------------------------------------
(* Redis and the network, on their own *)

\* Redis executes a copy the adapter no longer waits for; nobody sees the reply.
ExecuteLate(c) ==
    /\ late[c] > 0
    /\ RunScript(req[c])
    /\ late' = [late EXCEPT ![c] = @ - 1]
    /\ UNCHANGED <<call, scripts>>

DropLate(c) ==
    /\ late[c] > 0
    /\ late' = [late EXCEPT ![c] = @ - 1]
    /\ UNCHANGED <<redis, call, scripts>>

\* One tick of Redis's clock; keys whose time is up vanish.
Tick ==
    /\ \E s \in Seats : hold[s] # Free
    /\ hold' = [s \in Seats |-> IF ttl[s] = 1 THEN Free ELSE hold[s]]
    /\ ttl' = [s \in Seats |-> IF ttl[s] = 0 THEN 0 ELSE ttl[s] - 1]
    /\ UNCHANGED <<call, late, scripts>>

\* An API process starts: loadScripts flushes the cache all processes share,
\* then loads the four scripts one by one.
FlushScripts ==
    /\ Restarts
    /\ boot = 0
    /\ cached' = {}
    /\ boot' = Len(ScriptOrder)
    /\ UNCHANGED <<redis, call, late>>

LoadNextScript ==
    /\ boot > 0
    /\ cached' = cached \cup {ScriptOrder[Len(ScriptOrder) - boot + 1]}
    /\ boot' = boot - 1
    /\ UNCHANGED <<redis, call, late>>

\* SCRIPT LOAD fails: loadScripts throws and that process does not come up.
LoadFails ==
    /\ boot > 0
    /\ boot' = 0
    /\ UNCHANGED <<redis, call, late, cached>>

------------------------------------------------------------------------------
Init ==
    /\ hold = [s \in Seats |-> Free]
    /\ ttl = [s \in Seats |-> 0]
    /\ req \in [Calls -> Requests]
    /\ pc = [c \in Calls |-> "idle"]
    /\ attempt = [c \in Calls |-> 0]
    /\ resp = [c \in Calls |-> "none"]
    /\ late = [c \in Calls |-> 0]
    /\ cached = Ops
    /\ boot = 0

Next ==
    \/ \E c \in Calls :
          \/ Start(c)
          \/ CallStep(c)
          \/ ExecuteLate(c)
          \/ DropLate(c)
    \/ Tick
    \/ FlushScripts
    \/ LoadNextScript
    \/ LoadFails

Spec == Init /\ [][Next]_vars

\* evalWithRetry always goes on to its next step (its loop is bounded and its
\* timers fire), Redis's clock runs, and what is on a closed socket is
\* executed or discarded in the end.  Nobody is obliged to start a call.
Fairness ==
    /\ \A c \in Calls : WF_vars(CallStep(c)) /\ WF_vars(ExecuteLate(c) \/ DropLate(c))
    /\ WF_vars(Tick)

FairSpec == Spec /\ Fairness

------------------------------------------------------------------------------
(* Properties *)

\* Every variable keeps to the values evalWithRetry and the scripts give it.
TypeOK ==
    /\ hold \in [Seats -> Token \cup {Free}]
    /\ ttl \in [Seats -> 0..MaxTTL]
    /\ req \in [Calls -> Requests]
    /\ pc \in [Calls -> {"idle", "evalsha", "eval", "done"}]
    /\ attempt \in [Calls -> 0..MaxAttempts]
    /\ resp \in [Calls -> Replies]
    /\ late \in [Calls -> Nat]
    /\ cached \in SUBSET Ops
    /\ boot \in 0..Len(ScriptOrder)

\* No hold is ever left in Redis without a running TTL, whichever scripts ran
\* in whichever order: a crashed buyer cannot keep a seat for good.
HoldsAreTimed == \A s \in Seats : hold[s] # Free <=> ttl[s] > 0

\* The copies of its command that a call leaves behind are at most one per
\* attempt that failed, plus the EVAL fallback: evalWithRetry never runs a
\* script more than MaxAttempts + 1 times on a caller's behalf.
AttemptsBoundCopies ==
    \A c \in Calls :
        /\ late[c] <= MaxAttempts + 1
        /\ pc[c] \in {"evalsha", "eval"} => late[c] <= attempt[c] + 1

\* A request some process has sent and Redis may still execute.
Outstanding(r) ==
    \E c \in Calls :
        req[c] = r /\ (pc[c] \in {"evalsha", "eval"} \/ late[c] > 0)

\* A plain owner never takes a seat from another owner, whatever the retries and
\* copies left behind: the seat is free in between.  (What an owner that is not
\* plain does to others is in SeatLockClaims.)
OwnerChangesThroughFree ==
    [][\A s \in Seats :
          hold[s] # Free /\ hold'[s] # Free /\ Plain(hold'[s].owner) =>
              hold[s].owner = hold'[s].owner]_vars

\* A seat comes under a new token only by an outstanding acquire that names
\* it, and then every seat of that acquire is under that token: all or none,
\* and neither an extend nor a late release brings an expired hold back.
GrantsAreWhole ==
    [][\A s \in Seats :
          hold'[s] # hold[s] /\ hold'[s] # Free =>
              \E r \in Requests :
                  /\ Outstanding(r)
                  /\ r.op = "acquire"
                  /\ s \in r.seats
                  /\ \A u \in r.seats : hold'[u] = TokenOf(r)]_vars

\* Fencing: while its time is not up, a hold loses its key only to an
\* outstanding release or rollback that carries exactly its owner and version.
EndsByItsTokenOrExpiry ==
    [][\A s \in Seats :
          hold[s] # Free /\ hold'[s] = Free /\ ttl[s] > 1 =>
              \E r \in Requests :
                  /\ Outstanding(r)
                  /\ r.op \in {"release", "rollback"}
                  /\ r.seats = {s}
                  /\ TokenOf(r) = hold[s]]_vars

\* Fencing of PEXPIRE: the life of an unchanged hold is moved, other than by
\* the clock, only by an extend or an acquire with exactly its token.
LifeMovedByItsTokenOnly ==
    [][\A s \in Seats :
          hold[s] # Free /\ hold'[s] = hold[s] /\ ttl'[s] > ttl[s] =>
              \E r \in Requests :
                  /\ Outstanding(r)
                  /\ r.op \in {"acquire", "extend"}
                  /\ s \in r.seats
                  /\ TokenOf(r) = hold[s]]_vars

\* Every adapter call that was started returns or throws.
CallsReturn == \A c \in Calls : pc[c] = "evalsha" ~> pc[c] = "done"

\* When callers stop calling, every seat comes back, whatever replies were
\* lost and whichever copies were executed late.
SeatsComeBack == <>[](\A s \in Seats : hold[s] = Free)

\* The store implements the lease its callers rely on.
Lease == INSTANCE SeatLease
ImplementsLease == Lease!LeaseSpec
==============================================================================
