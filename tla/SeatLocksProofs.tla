--------------------------- MODULE SeatLocksProofs ---------------------------
(***************************************************************************)
(* Theorems about SeatLocks for every set of seats, owners, versions,      *)
(* calls and requests.                                                     *)
(*                                                                         *)
(* The argument: IInv (types, and a TTL beside every hold) is inductive;   *)
(* StepEffect reduces a step of the whole system to what it does to Redis  *)
(* (one outstanding request's script, a tick, or nothing), and the action  *)
(* properties and the refinement follow from the scripts alone.            *)
(***************************************************************************)
EXTENDS SeatLocks, TLAPS

\* Where a call stands in evalWithRetry's loop: the fallback belongs to the
\* first attempt, and nothing was sent before that attempt's EVALSHA.
LoopShape ==
    \A c \in Calls :
        /\ pc[c] = "idle" => attempt[c] = 0 /\ late[c] = 0
        /\ pc[c] = "evalsha" => attempt[c] < MaxAttempts /\ (attempt[c] = 0 => late[c] = 0)
        /\ pc[c] = "eval" => attempt[c] = 0

IInv == TypeOK /\ HoldsAreTimed /\ LoopShape /\ AttemptsBoundCopies

------------------------------------------------------------------------------
(* What a script does *)

\* A request's fields have the types its record type gives them, and its token
\* is a token.
LEMMA RequestFields ==
    ASSUME NEW r \in Requests
    PROVE  /\ r.op \in Ops
           /\ r.seats \in SUBSET Seats
           /\ r.owner \in Owners
           /\ r.ttl \in 1..MaxTTL
           /\ TokenOf(r) \in Token
           /\ TokenOf(r).owner = r.owner
           /\ TokenOf(r) # Free
           /\ r.op # "acquire" => \E s \in Seats : r.seats = {s}
<1>1. r \in Request
  BY RequestsWellFormed
<1>2. r.op \in Ops /\ r.seats \in SUBSET Seats /\ r.owner \in Owners
      /\ r.version \in Versions /\ r.ttl \in 1..MaxTTL
  BY <1>1 DEF Request
<1>3. TokenOf(r) \in Token /\ TokenOf(r).owner = r.owner
  BY <1>2 DEF TokenOf, Token
<1> QED
  BY <1>2, <1>3, FreeIsNoToken, RequestsWellFormed

\* Whatever a script does, it leaves typed holds with their TTLs.
LEMMA ScriptKeepsIInv ==
    ASSUME NEW r \in Requests, hold \in [Seats -> Token \cup {Free}],
           ttl \in [Seats -> 0..MaxTTL], HoldsAreTimed, RunScript(r)
    PROVE  /\ hold' \in [Seats -> Token \cup {Free}]
           /\ ttl' \in [Seats -> 0..MaxTTL]
           /\ HoldsAreTimed'
<1>0. /\ r.ttl \in 1..MaxTTL
      /\ TokenOf(r) \in Token
      /\ TokenOf(r) # Free
      /\ r.seats \in SUBSET Seats
  BY RequestFields
<1>1. CASE AcquireScript(r)
  <2>1. hold' \in [Seats -> Token \cup {Free}] /\ ttl' \in [Seats -> 0..MaxTTL]
    BY <1>0, <1>1, MaxTTLPositive DEF AcquireScript
  <2>2. HoldsAreTimed'
    BY <1>0, <1>1, MaxTTLPositive DEF AcquireScript, HoldsAreTimed
  <2> QED BY <2>1, <2>2
<1>2. CASE ExtendScript(r)
  <2>1. ttl' \in [Seats -> 0..MaxTTL] /\ hold' \in [Seats -> Token \cup {Free}]
    BY <1>0, <1>2, MaxTTLPositive DEF ExtendScript
  <2>2. HoldsAreTimed'
    BY <1>0, <1>2, MaxTTLPositive DEF ExtendScript, HeldUnder, HoldsAreTimed
  <2> QED BY <2>1, <2>2
<1>3. CASE ReleaseScript(r) \/ RollbackScript(r)
  BY <1>0, <1>3, MaxTTLPositive
  DEF ReleaseScript, RollbackScript, DeleteKeys, HoldsAreTimed
<1>4. CASE RefusedByScript(r)
  BY <1>4 DEF RefusedByScript, redis, HoldsAreTimed
<1> QED
  BY <1>1, <1>2, <1>3, <1>4 DEF RunScript

------------------------------------------------------------------------------
(* What a step of the system does to Redis *)

\* Every step runs the script of one request that was outstanding, lets a tick
\* pass, or leaves the keys alone.
LEMMA StepEffect ==
    ASSUME TypeOK, [Next]_vars
    PROVE  \/ \E r \in Requests : Outstanding(r) /\ RunScript(r)
           \/ Tick
           \/ UNCHANGED redis
<1>1. ASSUME NEW c \in Calls, RunScript(req[c]),
             pc[c] \in {"evalsha", "eval"} \/ late[c] > 0
      PROVE  \E r \in Requests : Outstanding(r) /\ RunScript(r)
  BY <1>1 DEF Outstanding, TypeOK
<1>2. ASSUME NEW c \in Calls,
             Start(c) \/ CallStep(c) \/ ExecuteLate(c) \/ DropLate(c)
      PROVE  \/ \E r \in Requests : Outstanding(r) /\ RunScript(r)
             \/ UNCHANGED redis
  <2>1. CASE EvalShaReply(c) \/ EvalReply(c)
    BY <1>1, <2>1 DEF EvalShaReply, EvalReply
  <2>2. CASE ExecuteLate(c)
    BY <1>1, <2>2 DEF ExecuteLate
  <2>3. CASE Start(c) \/ EvalShaNoScript(c) \/ EvalShaBusy(c) \/ EvalShaBroken(c)
             \/ EvalBroken(c) \/ OverBudget(c) \/ DropLate(c)
    BY <2>3 DEF Start, EvalShaNoScript, EvalShaBusy, EvalShaBroken, EvalBroken,
                OverBudget, DropLate
  <2> QED
    BY <1>2, <2>1, <2>2, <2>3 DEF CallStep
<1>3. CASE FlushScripts \/ LoadNextScript \/ LoadFails
  BY <1>3 DEF FlushScripts, LoadNextScript, LoadFails
<1>4. CASE UNCHANGED vars
  BY <1>4 DEF vars, redis
<1> QED
  BY <1>2, <1>3, <1>4 DEF Next

------------------------------------------------------------------------------
(* The inductive invariant *)

LEMMA InitIInv == Init => IInv
BY MaxTTLPositive DEF Init, IInv, TypeOK, HoldsAreTimed, LoopShape,
                      AttemptsBoundCopies, Replies, ScriptOrder, MaxAttempts

\* The Redis part of the invariant survives every step.
LEMMA RedisStep ==
    ASSUME IInv, [Next]_vars
    PROVE  /\ hold' \in [Seats -> Token \cup {Free}]
           /\ ttl' \in [Seats -> 0..MaxTTL]
           /\ HoldsAreTimed'
<1>0. hold \in [Seats -> Token \cup {Free}] /\ ttl \in [Seats -> 0..MaxTTL]
      /\ HoldsAreTimed
  BY DEF IInv, TypeOK
<1>1. CASE \E r \in Requests : Outstanding(r) /\ RunScript(r)
  BY <1>0, <1>1, ScriptKeepsIInv
<1>2. CASE Tick
  <2>1. ttl' \in [Seats -> 0..MaxTTL] /\ hold' \in [Seats -> Token \cup {Free}]
    BY <1>0, <1>2, MaxTTLPositive DEF Tick
  <2>2. HoldsAreTimed'
    BY <1>0, <1>2, MaxTTLPositive DEF Tick, HoldsAreTimed
  <2> QED BY <2>1, <2>2
<1>3. CASE UNCHANGED redis
  BY <1>0, <1>3 DEF redis, HoldsAreTimed
<1> QED
  BY <1>1, <1>2, <1>3, StepEffect DEF IInv

\* The adapter's variables keep their types and the shape of the loop.
LEMMA AdapterStep ==
    ASSUME IInv, [Next]_vars
    PROVE  /\ req' \in [Calls -> Requests]
           /\ pc' \in [Calls -> {"idle", "evalsha", "eval", "done"}]
           /\ attempt' \in [Calls -> 0..MaxAttempts]
           /\ resp' \in [Calls -> Replies]
           /\ late' \in [Calls -> Nat]
           /\ LoopShape'
           /\ AttemptsBoundCopies'
<1> DEFINE Goal ==
             /\ req' \in [Calls -> Requests]
             /\ pc' \in [Calls -> {"idle", "evalsha", "eval", "done"}]
             /\ attempt' \in [Calls -> 0..MaxAttempts]
             /\ resp' \in [Calls -> Replies]
             /\ late' \in [Calls -> Nat]
             /\ LoopShape'
             /\ AttemptsBoundCopies'
<1>0. /\ req \in [Calls -> Requests]
      /\ pc \in [Calls -> {"idle", "evalsha", "eval", "done"}]
      /\ attempt \in [Calls -> 0..MaxAttempts]
      /\ resp \in [Calls -> Replies]
      /\ late \in [Calls -> Nat]
      /\ LoopShape
      /\ AttemptsBoundCopies
  BY DEF IInv, TypeOK
<1> SUFFICES Goal
  OBVIOUS
<1> USE <1>0 DEF LoopShape, AttemptsBoundCopies, MaxAttempts
<1>1. ASSUME NEW c \in Calls, Start(c)
      PROVE  Goal
  BY <1>1 DEF Start
<1>2. ASSUME NEW c \in Calls, EvalShaReply(c) \/ EvalReply(c) \/ OverBudget(c)
      PROVE  Goal
  <2>1. ScriptReply(req[c]) \in Replies
    BY DEF ScriptReply, Replies
  <2> QED
    BY <1>2, <2>1 DEF EvalShaReply, EvalReply, OverBudget, Return, Replies
<1>3. ASSUME NEW c \in Calls, EvalShaNoScript(c) \/ EvalShaBusy(c)
      PROVE  Goal
  BY <1>3 DEF EvalShaNoScript, EvalShaBusy, NextAttempt, Replies
<1>4. ASSUME NEW c \in Calls, EvalShaBroken(c)
      PROVE  Goal
  BY <1>4 DEF EvalShaBroken, NextAttempt, Replies
<1>5. ASSUME NEW c \in Calls, EvalBroken(c)
      PROVE  Goal
  BY <1>5 DEF EvalBroken, NextAttempt, Replies
<1>6. ASSUME NEW c \in Calls, ExecuteLate(c) \/ DropLate(c)
      PROVE  Goal
  BY <1>6 DEF ExecuteLate, DropLate, call
<1>7. CASE Tick \/ FlushScripts \/ LoadNextScript \/ LoadFails
  BY <1>7 DEF Tick, FlushScripts, LoadNextScript, LoadFails, call
<1>8. CASE UNCHANGED vars
  BY <1>8 DEF vars
<1> QED
  BY <1>1, <1>2, <1>3, <1>4, <1>5, <1>6, <1>7, <1>8 DEF Next, CallStep

\* So do the script cache and a starting process.
LEMMA ScriptCacheStep ==
    ASSUME TypeOK, [Next]_vars
    PROVE  cached' \in SUBSET Ops /\ boot' \in 0..Len(ScriptOrder)
<1>1. /\ cached \in SUBSET Ops
      /\ boot \in 0..4
      /\ Len(ScriptOrder) = 4
      /\ \A i \in 1..4 : ScriptOrder[i] \in Ops
  BY DEF TypeOK, ScriptOrder, Ops
<1>2. ASSUME NEW c \in Calls,
             Start(c) \/ CallStep(c) \/ ExecuteLate(c) \/ DropLate(c)
      PROVE  cached' \in SUBSET Ops /\ boot' \in 0..4
  <2>1. req[c].op \in Ops
    BY RequestFields DEF TypeOK
  <2> QED
    BY <1>1, <1>2, <2>1
    DEF CallStep, Start, EvalShaReply, EvalShaNoScript, EvalShaBusy, EvalShaBroken,
        EvalReply, EvalBroken, OverBudget, ExecuteLate, DropLate, scripts
<1>3. CASE Tick
  BY <1>1, <1>3 DEF Tick, scripts
<1>4. CASE FlushScripts \/ LoadFails
  BY <1>1, <1>4 DEF FlushScripts, LoadFails
<1>5. CASE LoadNextScript
  <2>1. Len(ScriptOrder) - boot + 1 \in 1..4
    BY <1>1, <1>5 DEF LoadNextScript
  <2> QED
    BY <1>1, <1>5, <2>1 DEF LoadNextScript
<1>6. CASE UNCHANGED vars
  BY <1>1, <1>6 DEF vars
<1> QED
  BY <1>1, <1>2, <1>3, <1>4, <1>5, <1>6 DEF Next

LEMMA NextIInv == IInv /\ [Next]_vars => IInv'
<1> SUFFICES ASSUME IInv, [Next]_vars
             PROVE  IInv'
  OBVIOUS
<1>1. TypeOK
  BY DEF IInv
<1> QED
  BY <1>1, RedisStep, AdapterStep, ScriptCacheStep DEF IInv, TypeOK

\* IInv holds in every reachable state.
THEOREM SpecIInv == Spec => []IInv
<1>1. Init => IInv
  BY InitIInv
<1>2. IInv /\ [Next]_vars => IInv'
  BY NextIInv
<1> QED
  BY <1>1, <1>2, PTL DEF Spec

------------------------------------------------------------------------------
(* The theorems *)

\* Type correctness of the store, the adapter and the script cache.
THEOREM TypeCorrect == Spec => []TypeOK
<1>1. IInv => TypeOK
  BY DEF IInv
<1> QED
  BY <1>1, SpecIInv, PTL

\* A hold never outlives its clock: no seat is held by a key without a TTL.
THEOREM HoldsTimed == Spec => []HoldsAreTimed
<1>1. IInv => HoldsAreTimed
  BY DEF IInv
<1> QED
  BY <1>1, SpecIInv, PTL

\* evalWithRetry leaves behind at most MaxAttempts + 1 copies of a command.
THEOREM CopiesBounded == Spec => []AttemptsBoundCopies
<1>1. IInv => AttemptsBoundCopies
  BY DEF IInv
<1> QED
  BY <1>1, SpecIInv, PTL

------------------------------------------------------------------------------
(* Ownership changes hands only through a free seat *)

\* If a script leaves a seat under another token, it was an acquire that put
\* all its seats under its own.
LEMMA NewTokenIsAcquired ==
    ASSUME NEW r \in Requests, RunScript(r), TypeOK,
           NEW s \in Seats, hold'[s] # hold[s], hold'[s] # Free
    PROVE  /\ r.op = "acquire" /\ s \in r.seats /\ Conflicts(r) = {}
           /\ \A u \in r.seats : hold'[u] = TokenOf(r)
<1>0. r.seats \in SUBSET Seats
  BY RequestFields
<1>1. AcquireScript(r)
  BY DEF RunScript, ExtendScript, ReleaseScript, RollbackScript, RefusedByScript,
         DeleteKeys, redis
<1> QED
  BY <1>0, <1>1 DEF AcquireScript

\* Not even a late copy of a plain owner's acquire takes a seat from another.
LEMMA OwnerStep ==
    ASSUME TypeOK, [Next]_vars, NEW s \in Seats, hold[s] # Free, hold'[s] # Free,
           Plain(hold'[s].owner)
    PROVE  hold[s].owner = hold'[s].owner
<1>1. CASE hold'[s] = hold[s]
  BY <1>1
<1>2. CASE hold'[s] # hold[s]
  <2>1. ~Tick /\ ~UNCHANGED redis
    BY <1>2 DEF Tick, redis
  <2>2. PICK r \in Requests : RunScript(r)
    BY <2>1, StepEffect
  <2>3. /\ s \in r.seats /\ Conflicts(r) = {}
        /\ hold'[s] = TokenOf(r)
    BY <1>2, <2>2, NewTokenIsAcquired
  <2>4. <<r.owner, hold[s].owner>> \in OwnerPattern
    BY <2>3 DEF Conflicts
  <2>5. hold[s].owner \in Owners
    BY DEF TypeOK, Token
  <2>6. hold'[s].owner = r.owner
    BY <2>3, RequestFields
  <2> QED
    BY <2>4, <2>5, <2>6 DEF Plain
<1> QED
  BY <1>1, <1>2

\* A plain owner never holds a seat straight after another owner.
THEOREM OwnerSafety == Spec => OwnerChangesThroughFree
<1>1. TypeOK /\ [Next]_vars =>
        [\A s \in Seats :
            hold[s] # Free /\ hold'[s] # Free /\ Plain(hold'[s].owner) =>
                hold[s].owner = hold'[s].owner]_vars
  BY OwnerStep
<1> QED
  BY <1>1, TypeCorrect, PTL DEF Spec, OwnerChangesThroughFree

------------------------------------------------------------------------------
(* All or none, and fencing *)

\* The step form of GrantsAreWhole.
LEMMA GrantStep ==
    ASSUME TypeOK, [Next]_vars, NEW s \in Seats, hold'[s] # hold[s], hold'[s] # Free
    PROVE  \E r \in Requests :
              /\ Outstanding(r)
              /\ r.op = "acquire"
              /\ s \in r.seats
              /\ \A u \in r.seats : hold'[u] = TokenOf(r)
<1>1. ~Tick /\ ~UNCHANGED redis
  BY DEF Tick, redis
<1>2. PICK r \in Requests : Outstanding(r) /\ RunScript(r)
  BY <1>1, StepEffect
<1> QED
  BY <1>2, NewTokenIsAcquired

\* Seats are granted as the whole set one outstanding acquire asked for.
THEOREM AllOrNone == Spec => GrantsAreWhole
<1>1. TypeOK /\ [Next]_vars =>
        [\A s \in Seats :
            hold'[s] # hold[s] /\ hold'[s] # Free =>
                \E r \in Requests :
                    /\ Outstanding(r)
                    /\ r.op = "acquire"
                    /\ s \in r.seats
                    /\ \A u \in r.seats : hold'[u] = TokenOf(r)]_vars
  BY GrantStep
<1> QED
  BY <1>1, TypeCorrect, PTL DEF Spec, GrantsAreWhole

\* The step form of EndsByItsTokenOrExpiry.
LEMMA EndStep ==
    ASSUME TypeOK, [Next]_vars, NEW s \in Seats,
           hold[s] # Free, hold'[s] = Free, ttl[s] > 1
    PROVE  \E r \in Requests :
              /\ Outstanding(r)
              /\ r.op \in {"release", "rollback"}
              /\ r.seats = {s}
              /\ TokenOf(r) = hold[s]
<1>1. ~Tick
  BY DEF Tick, TypeOK
<1>2. ~UNCHANGED redis
  BY DEF redis
<1>3. PICK r \in Requests : Outstanding(r) /\ RunScript(r)
  BY <1>1, <1>2, StepEffect
<1>4. TokenOf(r) # Free /\ (r.op # "acquire" => \E u \in Seats : r.seats = {u})
  BY RequestFields
<1>5. ~AcquireScript(r) /\ ~ExtendScript(r) /\ ~RefusedByScript(r)
  BY <1>4 DEF AcquireScript, ExtendScript, RefusedByScript, redis
<1>6. /\ r.op \in {"release", "rollback"}
      /\ HeldUnder(r)
      /\ DeleteKeys(r)
  BY <1>3, <1>5 DEF RunScript, ReleaseScript, RollbackScript
<1>7. s \in r.seats
  BY <1>6 DEF DeleteKeys
<1> QED
  BY <1>3, <1>4, <1>6, <1>7 DEF HeldUnder

\* A live hold ends early only at the hands of its own token.
THEOREM Fencing == Spec => EndsByItsTokenOrExpiry
<1>1. TypeOK /\ [Next]_vars =>
        [\A s \in Seats :
            hold[s] # Free /\ hold'[s] = Free /\ ttl[s] > 1 =>
                \E r \in Requests :
                    /\ Outstanding(r)
                    /\ r.op \in {"release", "rollback"}
                    /\ r.seats = {s}
                    /\ TokenOf(r) = hold[s]]_vars
  BY EndStep
<1> QED
  BY <1>1, TypeCorrect, PTL DEF Spec, EndsByItsTokenOrExpiry

\* The step form of LifeMovedByItsTokenOnly.
LEMMA LifeStep ==
    ASSUME TypeOK, [Next]_vars, NEW s \in Seats,
           hold[s] # Free, hold'[s] = hold[s], ttl'[s] > ttl[s]
    PROVE  \E r \in Requests :
              /\ Outstanding(r)
              /\ r.op \in {"acquire", "extend"}
              /\ s \in r.seats
              /\ TokenOf(r) = hold[s]
<1>1. ttl[s] \in Nat
  BY DEF TypeOK
<1>2. ~Tick
  BY <1>1 DEF Tick
<1>3. ~UNCHANGED redis
  BY <1>1 DEF redis
<1>4. PICK r \in Requests : Outstanding(r) /\ RunScript(r)
  BY <1>2, <1>3, StepEffect
<1>5. CASE AcquireScript(r)
  <2>1. s \in r.seats
    BY <1>1, <1>5 DEF AcquireScript
  <2> QED
    BY <1>4, <1>5, <2>1 DEF AcquireScript
<1>6. CASE ExtendScript(r)
  <2>1. s \in r.seats
    BY <1>1, <1>6 DEF ExtendScript
  <2> QED
    BY <1>4, <1>6, <2>1 DEF ExtendScript, HeldUnder
<1>7. ~ReleaseScript(r) /\ ~RollbackScript(r) /\ ~RefusedByScript(r)
  BY <1>1 DEF ReleaseScript, RollbackScript, RefusedByScript, DeleteKeys, redis
<1> QED
  BY <1>4, <1>5, <1>6, <1>7 DEF RunScript

\* Nobody prolongs a hold without its token.
THEOREM LifeFencing == Spec => LifeMovedByItsTokenOnly
<1>1. TypeOK /\ [Next]_vars =>
        [\A s \in Seats :
            hold[s] # Free /\ hold'[s] = hold[s] /\ ttl'[s] > ttl[s] =>
                \E r \in Requests :
                    /\ Outstanding(r)
                    /\ r.op \in {"acquire", "extend"}
                    /\ s \in r.seats
                    /\ TokenOf(r) = hold[s]]_vars
  BY LifeStep
<1> QED
  BY <1>1, TypeCorrect, PTL DEF Spec, LifeMovedByItsTokenOnly

------------------------------------------------------------------------------
(* The store implements the lease *)

LEMMA InitImplements == Init => Lease!LeaseInit
BY DEF Init, Lease!LeaseInit

\* A successful script grants or ends; a tick ends what expired.
LEMMA StepImplements ==
    ASSUME TypeOK, [Next]_vars
    PROVE  [Lease!LeaseNext]_hold
<1>1. ASSUME NEW r \in Requests, RunScript(r)
      PROVE  [Lease!LeaseNext]_hold
  <2>0. r.seats \in SUBSET Seats /\ TokenOf(r) \in Token /\ TokenOf(r).owner = r.owner
    BY RequestFields
  <2>1. CASE AcquireScript(r)
    <3>1. \A s \in r.seats : hold[s] = Free \/ <<r.owner, hold[s].owner>> \in OwnerPattern
      BY <2>1 DEF AcquireScript, Conflicts
    <3>2. Lease!Grant(r.seats, TokenOf(r))
      BY <2>0, <2>1, <3>1 DEF AcquireScript, Lease!Grant
    <3> QED
      BY <2>0, <3>2 DEF Lease!LeaseNext, Lease!Token, Token
  <2>2. CASE ReleaseScript(r) \/ RollbackScript(r)
    BY <2>0, <2>2
    DEF ReleaseScript, RollbackScript, DeleteKeys, Lease!End, Lease!LeaseNext
  <2>3. CASE ExtendScript(r) \/ RefusedByScript(r)
    BY <2>3 DEF ExtendScript, RefusedByScript, redis
  <2> QED
    BY <1>1, <2>1, <2>2, <2>3 DEF RunScript
<1>2. CASE Tick
  <2> DEFINE Expired == {s \in Seats : ttl[s] = 1}
  <2>1. hold' = [s \in Seats |-> IF s \in Expired THEN Free ELSE hold[s]]
    BY <1>2 DEF Tick
  <2>2. Expired \in SUBSET Seats
    OBVIOUS
  <2> QED
    BY <2>1, <2>2 DEF Lease!End, Lease!LeaseNext
<1>3. CASE UNCHANGED redis
  BY <1>3 DEF redis
<1> QED
  BY <1>1, <1>2, <1>3, StepEffect

\* Whoever relies on the lease may forget scripts, retries and clocks.
THEOREM Refinement == Spec => ImplementsLease
<1>1. Init => Lease!LeaseInit
  BY InitImplements
<1>2. TypeOK /\ [Next]_vars => [Lease!LeaseNext]_hold
  BY StepImplements
<1> QED
  BY <1>1, <1>2, TypeCorrect, PTL DEF Spec, ImplementsLease, Lease!LeaseSpec
==============================================================================
