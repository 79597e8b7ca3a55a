--------------------------- MODULE HoldsApiProofs ---------------------------
(***************************************************************************)
(* Theorems about HoldsApi for every set of handlers, requests, seats and  *)
(* versions and every bound on faults.                                     *)
(*                                                                         *)
(* The argument: while a record has not expired it is there as soon as one *)
(* request with its body has begun (RecordLives), a record in progress     *)
(* names the request that acts on it (ActorOwnsRecord), and so all         *)
(* requests that act on one body have one id (OneIdActs).  If ids are      *)
(* unique, a stored answer is final (StoredIsFinal), and every success     *)
(* told is the stored one (ToldIsStored).                                  *)
(***************************************************************************)
EXTENDS HoldsApi, TLAPS

\* A handler that may call the seat-lock store or has called it.
Acts(h) == pc[h] = "act" \/ ran[h]

\* What a handler's place tells of its request, its key and its answer.
PlaceOf(h) ==
    /\ pc[h] # "idle" => req[h] \in Ask[h] /\ KeyOf(h) \in Keys
    /\ pc[h] \in {"idle", "get", "act"} => ~ran[h]
    /\ pc[h] \in {"remember", "reply"} => ran[h]
    /\ pc[h] = "remember" => reply[h] \in Responses
    /\ pc[h] = "remember" /\ reply[h].is = "held" =>
          [seats |-> req[h].seats, token |-> reply[h].token] \in granted

Places == \A h \in Handlers : PlaceOf(h)

\* The record of a request that has begun is there until it expires.
RecordLives ==
    \A h \in Handlers :
        pc[h] # "idle" => KeyOf(h) \in expired \/ idem[KeyOf(h)] # Missing

\* A record in progress names the request that acts on it.
ActorOwnsRecord ==
    \A h \in Handlers :
        Acts(h) => KeyOf(h) \in expired
                   \/ \A r \in RequestIds : idem[KeyOf(h)] = InProgress(r) => r = req[h].id

\* All requests that act on one body have one id.
OneIdActs ==
    \A g, h \in Handlers :
        Acts(g) /\ Acts(h) /\ KeyOf(g) = KeyOf(h) =>
            KeyOf(h) \in expired \/ req[g].id = req[h].id

IInv ==
    /\ TypeOK
    /\ Places
    /\ RecordLives
    /\ ActorOwnsRecord
    /\ OneIdActs
    /\ StoredHoldsWereGranted

\* No two requests carry one X-Request-ID: the clients' part of the bargain,
\* which the API does not check.
IdsAreUnique ==
    \A g, h \in Handlers : g # h => \A q \in Ask[g], r \in Ask[h] : q.id # r.id

\* Nobody is left to overwrite a stored answer.
StoredIsFinal ==
    \A h \in Handlers :
        pc[h] \in {"act", "remember"} =>
            KeyOf(h) \in expired \/ \A x \in Responses : idem[KeyOf(h)] # Committed(x)

\* Every success told is the one stored.
ToldIsStored ==
    \A h \in Handlers :
        pc[h] \in {"reply", "done"} /\ reply[h].is = "held" =>
            KeyOf(h) \in expired \/ idem[KeyOf(h)] = Committed(reply[h])

------------------------------------------------------------------------------
(* Requests, bodies and answers *)

\* A request that is asked is one, with seats of the performance and an id
\* that can own a hold.
LEMMA AskedFacts ==
    ASSUME NEW h \in Handlers, NEW q \in Ask[h]
    PROVE  /\ q \in HoldRequest
           /\ q # NoRequest
           /\ q.seats \in SUBSET Seats
           /\ q.id \in RequestIds /\ q.id \in Owners
           /\ q.op \in {"hold", "extend", "release"}
<1>1. q \in HoldRequest
  BY AskTyped
<1> QED
  BY <1>1, NoRequestIsNoRequest, OwnersAreRequests DEF HoldRequest

\* The body of an asked request has its key, and tells its seats.
LEMMA BodyFacts ==
    ASSUME TypeOK, NEW h \in Handlers, NEW q \in Ask[h], NEW t \in Presentable(q),
           NEW of \in Parts(q, t)
    PROVE  /\ t \in Token \cup {NoToken}
           /\ of \in Token \cup Owners \cup {NoToken}
           /\ BodyHash(q, of) \in Keys
<1>0. /\ q.op \in {"hold", "extend", "release"}
      /\ q.seats \in SUBSET Seats \ {{}}
      /\ granted \in SUBSET [seats : SUBSET Seats, token : Token]
  BY AskTyped DEF TypeOK, HoldRequest
<1>1. t \in Token \cup {NoToken} /\ (q.op = "hold" => t = NoToken)
  BY <1>0 DEF Presentable
<1>2. /\ q.op = "hold" => of = NoToken
      /\ q.op = "extend" => of \in Token \cup {NoToken}
      /\ q.op = "release" => of \in Owners
  BY <1>0, <1>1 DEF Parts, Token
<1>3. BodyHash(q, of) \in Bodies
  BY <1>0, <1>2 DEF BodyHash, Bodies
<1>4. BodyHash(q, of).op = q.op /\ BodyHash(q, of).seats = q.seats
  BY DEF BodyHash
<1>5. BodyHash(q, of) \in Keys
  BY <1>3, <1>4, KeysAreBodies
<1> QED
  BY <1>0, <1>1, <1>2, <1>5

\* Records and answers keep what they were made of.
LEMMA RecordFacts ==
    ASSUME NEW x, NEW y, NEW r, NEW kind
    PROVE  /\ Committed(x) # Missing /\ InProgress(r) # Missing
           /\ Committed(x) # InProgress(r)
           /\ Committed(x) = Committed(y) => x = y
           /\ InProgress(x) = InProgress(y) => x = y
           /\ Missing \in IdemRecord
           /\ r \in RequestIds => InProgress(r) \in IdemRecord
           /\ x \in Responses => Committed(x) \in IdemRecord
           /\ Plain(kind).is = kind
BY DEF Committed, Missing, InProgress, IdemRecord, Plain

\* The answers of the handlers are replies, those to remember are storable.
LEMMA ReplyFacts ==
    /\ \A kind \in {"none", "conflict", "extended", "not_extended", "released",
                    "not_released", "in_progress", "no_token", "forbidden", "error"} :
          Plain(kind) \in Reply
    /\ \A t \in Token : [is |-> "held", token |-> t] \in Reply
    /\ \A t \in Token : [is |-> "held", token |-> t] \in Responses
    /\ \A kind \in {"extended", "not_extended", "released", "not_released"} :
          Plain(kind) \in Responses
    /\ Responses \subseteq Reply
BY ResponsesAreReplies DEF Plain, Reply

\* A grant is of the request's seats, to a token of its own.
LEMMA GrantFacts ==
    ASSUME NEW h \in Handlers, req[h] \in Ask[h], NEW v \in Versions
    PROVE  /\ GrantOf(h, v) \in [seats : SUBSET Seats, token : Token]
           /\ GrantOf(h, v).seats = req[h].seats
BY AskedFacts DEF GrantOf, Token

\* A copy left behind is a grant, and counts as a fault.
LEMMA MayLeaveFacts ==
    ASSUME NEW g \in [seats : SUBSET Seats, token : Token],
           late \in SUBSET [seats : SUBSET Seats, token : Token],
           faults \in 0..MaxFaults, MayLeave(g)
    PROVE  /\ late' \in SUBSET [seats : SUBSET Seats, token : Token]
           /\ faults' \in 0..MaxFaults
BY HoldBounds DEF MayLeave, Fault

\* The seats a lease is granted or ended for are leases afterwards.
LEMMA LeaseFacts ==
    ASSUME hold \in [Seats -> Token \cup {Free}]
    PROVE  /\ \A S \in SUBSET Seats, t \in Token :
                 Grant(S, t) => hold' \in [Seats -> Token \cup {Free}]
           /\ \A S \in SUBSET Seats : End(S) => hold' \in [Seats -> Token \cup {Free}]
BY DEF Grant, End

\* A handler begins with one asked request, one token and one body.
LEMMA BeginEffect ==
    ASSUME TypeOK, NEW h \in Handlers, Begin(h)
    PROVE  \E q \in Ask[h], t \in Token \cup {NoToken},
             of \in Token \cup Owners \cup {NoToken} :
              /\ req' = [req EXCEPT ![h] = q]
              /\ token' = [token EXCEPT ![h] = t]
              /\ part' = [part EXCEPT ![h] = of]
              /\ BodyHash(q, of) \in Keys
              /\ SetIfAbsent(BodyHash(q, of), q.id)
              /\ Goto(h, IF idem[BodyHash(q, of)] = Missing THEN "act" ELSE "get")
BY BodyFacts DEF Begin

------------------------------------------------------------------------------
(* Types *)

LEMMA TypeStep ==
    ASSUME IInv, [Next]_vars
    PROVE  TypeOK'
<1>0. /\ TypeOK
      /\ MaxFaults \in Nat
      /\ \A h \in Handlers : pc[h] # "idle" =>
            /\ req[h] \in Ask[h] /\ KeyOf(h) \in Keys
            /\ req[h].seats \in SUBSET Seats
            /\ req[h].id \in RequestIds
      /\ \A h \in Handlers : pc[h] = "remember" => reply[h] \in Responses
  BY AskedFacts, HoldBounds DEF IInv, Places, PlaceOf
<1>1. ASSUME NEW h \in Handlers, Begin(h)
      PROVE  TypeOK'
  <2>1. PICK q \in Ask[h], t \in Token \cup {NoToken},
             of \in Token \cup Owners \cup {NoToken} :
            /\ req' = [req EXCEPT ![h] = q]
            /\ token' = [token EXCEPT ![h] = t]
            /\ part' = [part EXCEPT ![h] = of]
            /\ BodyHash(q, of) \in Keys
            /\ SetIfAbsent(BodyHash(q, of), q.id)
            /\ Goto(h, IF idem[BodyHash(q, of)] = Missing THEN "act" ELSE "get")
    BY <1>0, <1>1, BeginEffect
  <2>2. q \in HoldRequest /\ q.id \in RequestIds
    BY AskedFacts
  <2>3. idem' \in [Keys -> IdemRecord]
    BY <1>0, <2>1, <2>2, RecordFacts DEF SetIfAbsent, TypeOK
  <2>4. /\ req' \in [Handlers -> HoldRequest \cup {NoRequest}]
        /\ token' \in [Handlers -> Token \cup {NoToken}]
        /\ part' \in [Handlers -> Token \cup Owners \cup {NoToken}]
    BY <1>0, <2>1, <2>2 DEF TypeOK
  <2>5. pc' \in [Handlers -> {"idle", "get", "act", "remember", "reply", "done"}]
    BY <1>0, <2>1 DEF Goto, TypeOK
  <2> QED
    BY <1>0, <1>1, <2>3, <2>4, <2>5 DEF Begin, TypeOK, history
<1>2. ASSUME NEW h \in Handlers,
             \/ ReadRecord(h) \/ AnswerInProgress(h) \/ AnswerCached(h)
             \/ RefuseToken(h) \/ RefuseScope(h) \/ Respond(h)
      PROVE  TypeOK'
  <2>1. UNCHANGED <<hold, idem, served, ran, history, faults>>
    BY <1>2
    DEF ReadRecord, AnswerInProgress, AnswerCached, RefuseToken, RefuseScope, Respond
  <2>2. \/ Goto(h, "act") /\ UNCHANGED reply
        \/ \E r \in Reply : Answer(h, r)
    BY <1>0, <1>2, ReplyFacts
    DEF ReadRecord, AnswerInProgress, AnswerCached, RefuseToken, RefuseScope, Respond,
        TypeOK
  <2>3. /\ pc' \in [Handlers -> {"idle", "get", "act", "remember", "reply", "done"}]
        /\ reply' \in [Handlers -> Reply]
    BY <1>0, <2>2 DEF Goto, Answer, TypeOK
  <2> QED
    BY <1>0, <2>1, <2>3 DEF TypeOK, served, history
<1>3. ASSUME NEW h \in Handlers, Acquire(h)
      PROVE  TypeOK'
  <2>1. PICK v \in Versions :
            /\ Take(GrantOf(h, v))
            /\ MayLeave(GrantOf(h, v))
            /\ token' = [token EXCEPT ![h] = GrantOf(h, v).token]
            /\ reply' = [reply EXCEPT ![h] = [is |-> "held", token |-> GrantOf(h, v).token]]
    BY <1>3 DEF Acquire
  <2>2. GrantOf(h, v) \in [seats : SUBSET Seats, token : Token]
    BY <1>0, <1>3, GrantFacts DEF Acquire
  <2>3. hold' \in [Seats -> Token \cup {Free}]
    BY <1>0, <2>1, <2>2, LeaseFacts DEF Take, TypeOK
  <2>4. /\ granted' \in SUBSET [seats : SUBSET Seats, token : Token]
        /\ token' \in [Handlers -> Token \cup {NoToken}]
        /\ reply' \in [Handlers -> Reply]
    BY <1>0, <2>1, <2>2, ReplyFacts DEF Take, TypeOK
  <2>5. /\ late' \in SUBSET [seats : SUBSET Seats, token : Token]
        /\ faults' \in 0..MaxFaults
    BY <1>0, <2>1, <2>2, MayLeaveFacts DEF TypeOK
  <2> QED
    BY <1>0, <1>3, <2>3, <2>4, <2>5 DEF Acquire, Ran, Goto, TypeOK
<1>4. ASSUME NEW h \in Handlers, AcquireConflict(h)
      PROVE  TypeOK'
  <2>1. PICK v \in Versions : MayLeave(GrantOf(h, v))
    BY <1>4 DEF AcquireConflict
  <2>2. GrantOf(h, v) \in [seats : SUBSET Seats, token : Token]
    BY <1>0, <1>4, GrantFacts DEF AcquireConflict
  <2>3. /\ late' \in SUBSET [seats : SUBSET Seats, token : Token]
        /\ faults' \in 0..MaxFaults
    BY <1>0, <2>1, <2>2, MayLeaveFacts DEF TypeOK
  <2> QED
    BY <1>0, <1>4, <2>3, ReplyFacts DEF AcquireConflict, Ran, Goto, Answer, served, TypeOK
<1>5. ASSUME NEW h \in Handlers, AcquireThrows(h)
      PROVE  TypeOK'
  <2>1. PICK v \in Versions :
            /\ Take(GrantOf(h, v)) \/ UNCHANGED <<hold, granted>>
            /\ late' = late \cup {GrantOf(h, v)} \/ UNCHANGED late
    BY <1>5 DEF AcquireThrows
  <2>2. GrantOf(h, v) \in [seats : SUBSET Seats, token : Token]
    BY <1>0, <1>5, GrantFacts DEF AcquireThrows
  <2>3. hold' \in [Seats -> Token \cup {Free}]
    BY <1>0, <2>1, <2>2, LeaseFacts DEF Take, TypeOK
  <2>4. /\ granted' \in SUBSET [seats : SUBSET Seats, token : Token]
        /\ late' \in SUBSET [seats : SUBSET Seats, token : Token]
    BY <1>0, <2>1, <2>2 DEF Take, TypeOK
  <2> QED
    BY <1>0, <1>5, <2>3, <2>4, ReplyFacts
    DEF AcquireThrows, Fault, Ran, Goto, Answer, served, TypeOK
<1>6. ASSUME NEW g \in late, LateAcquire(g)
      PROVE  TypeOK'
  <2>1. g \in [seats : SUBSET Seats, token : Token]
    BY <1>0 DEF TypeOK
  <2>2. hold' \in [Seats -> Token \cup {Free}]
    BY <1>0, <1>6, <2>1, LeaseFacts DEF LateAcquire, Take, TypeOK
  <2> QED
    BY <1>0, <1>6, <2>1, <2>2 DEF LateAcquire, Take, served, TypeOK
<1>7. ASSUME NEW h \in Handlers, Extend(h) \/ Release(h) \/ ScriptThrows(h)
      PROVE  TypeOK'
  <2>1. hold' \in [Seats -> Token \cup {Free}]
    BY <1>0, <1>7, LeaseFacts DEF Extend, Release, ScriptThrows, TypeOK
  <2>2. UNCHANGED <<idem, served, history>>
    BY <1>7 DEF Extend, Release, ScriptThrows
  <2>3. \/ Goto(h, "remember")
        \/ Goto(h, "done")
    BY <1>7 DEF Extend, Release, ScriptThrows, Answer
  <2>4. \E r \in Reply : reply' = [reply EXCEPT ![h] = r]
    BY <1>7, ReplyFacts DEF Extend, Release, ScriptThrows, Answer
  <2>5. Ran(h) /\ (UNCHANGED faults \/ Fault)
    BY <1>7 DEF Extend, Release, ScriptThrows
  <2> QED
    BY <1>0, <2>1, <2>2, <2>3, <2>4, <2>5 DEF Ran, Fault, Goto, served, history, TypeOK
<1>8. ASSUME NEW h \in Handlers, Remember(h) \/ RememberFails(h)
      PROVE  TypeOK'
  <2>1. SetIfPresent(KeyOf(h), reply[h]) \/ UNCHANGED idem
    BY <1>8 DEF Remember, RememberFails
  <2>2. reply[h] \in Responses /\ KeyOf(h) \in Keys
    BY <1>0, <1>8 DEF Remember, RememberFails
  <2>3. idem' \in [Keys -> IdemRecord]
    BY <1>0, <2>1, <2>2, RecordFacts DEF SetIfPresent, TypeOK
  <2> QED
    BY <1>0, <1>8, <2>3, ReplyFacts
    DEF Remember, RememberFails, Fault, Goto, Answer, served, history, TypeOK
<1>9. ASSUME NEW h \in Handlers, Crash(h)
      PROVE  TypeOK'
  BY <1>0, <1>9, ReplyFacts DEF Crash, Fault, Goto, Answer, served, history, TypeOK
<1>10. ASSUME NEW s \in Seats, ExpireHold(s)
       PROVE  TypeOK'
  BY <1>0, <1>10, LeaseFacts DEF ExpireHold, served, history, TypeOK
<1>11. ASSUME NEW k \in Keys, ExpireRecord(k)
       PROVE  TypeOK'
  BY <1>0, <1>11, RecordFacts DEF ExpireRecord, ExpireKey, served, TypeOK
<1>12. CASE UNCHANGED vars
  BY <1>0, <1>12 DEF vars, served, history, TypeOK
<1> QED
  BY <1>1, <1>2, <1>3, <1>4, <1>5, <1>6, <1>7, <1>8, <1>9, <1>10, <1>11, <1>12
  DEF Next, HandlerStep, HandlerFault

------------------------------------------------------------------------------
(* What a step of the system does to handlers and records *)

Moves(h) == Begin(h) \/ HandlerStep(h) \/ HandlerFault(h)

\* One handler moves, or none does.
LEMMA WhoMoves ==
    ASSUME [Next]_vars
    PROVE  (\E h \in Handlers : Moves(h)) \/ UNCHANGED <<pc, req, part, reply, ran>>
BY DEF Next, Moves, LateAcquire, ExpireHold, ExpireRecord, vars, served

\* The other handlers stay where they are.
LEMMA OthersStay ==
    ASSUME TypeOK, NEW h \in Handlers, Moves(h), NEW g \in Handlers, g # h
    PROVE  UNCHANGED <<pc[g], req[g], part[g], reply[g], ran[g]>>
<1>1. CASE Begin(h)
  BY <1>1 DEF Begin, Goto, TypeOK
<1>2. CASE ReadRecord(h) \/ Remember(h) \/ Extend(h) \/ Release(h)
  BY <1>2 DEF ReadRecord, Remember, Extend, Release, Goto, Ran, served, TypeOK
<1>3. CASE Acquire(h)
  BY <1>3 DEF Acquire, Goto, Ran, TypeOK
<1>4. CASE \/ AnswerInProgress(h) \/ AnswerCached(h) \/ RefuseToken(h) \/ RefuseScope(h)
           \/ AcquireConflict(h) \/ Respond(h)
  BY <1>4
  DEF AnswerInProgress, AnswerCached, RefuseToken, RefuseScope, AcquireConflict,
      Respond, Answer, Goto, Ran, served, TypeOK
<1>5. CASE HandlerFault(h)
  BY <1>5
  DEF HandlerFault, AcquireThrows, ScriptThrows, RememberFails, Crash, Answer, Goto,
      Ran, served, TypeOK
<1> QED
  BY <1>1, <1>2, <1>3, <1>4, <1>5 DEF Moves, HandlerStep

\* A handler that has begun goes on with its request and its body.
LEMMA BodiesStay ==
    ASSUME TypeOK, [Next]_vars, NEW g \in Handlers, pc[g] # "idle"
    PROVE  req'[g] = req[g] /\ KeyOf(g)' = KeyOf(g) /\ pc'[g] # "idle"
<1>1. CASE UNCHANGED <<pc, req, part, reply, ran>>
  BY <1>1 DEF KeyOf
<1>2. CASE Moves(g)
  <2>1. UNCHANGED <<req[g], part[g]>>
    BY <1>2
    DEF Moves, Begin, HandlerStep, HandlerFault, ReadRecord, AnswerInProgress,
        AnswerCached, RefuseToken, RefuseScope, Acquire, AcquireConflict, Extend,
        Release, Remember, Respond, AcquireThrows, ScriptThrows, RememberFails, Crash,
        served
  <2>2. pc'[g] # "idle"
    BY <1>2
    DEF Moves, Begin, HandlerStep, HandlerFault, ReadRecord, AnswerInProgress,
        AnswerCached, RefuseToken, RefuseScope, Acquire, AcquireConflict, Extend,
        Release, Remember, Respond, AcquireThrows, ScriptThrows, RememberFails, Crash,
        Answer, Goto, TypeOK
  <2> QED
    BY <2>1, <2>2 DEF KeyOf
<1>3. CASE \E h \in Handlers : h # g /\ Moves(h)
  BY <1>3, OthersStay DEF KeyOf
<1> QED
  BY <1>1, <1>2, <1>3, WhoMoves

\* Histories only grow.
LEMMA HistoriesGrow ==
    ASSUME [Next]_vars
    PROVE  expired \subseteq expired' /\ granted \subseteq granted'
<1>1. ASSUME NEW h \in Handlers, Moves(h)
      PROVE  expired \subseteq expired' /\ granted \subseteq granted'
  BY <1>1
  DEF Moves, Begin, HandlerStep, HandlerFault, ReadRecord, AnswerInProgress,
      AnswerCached, RefuseToken, RefuseScope, Acquire, AcquireConflict, Extend,
      Release, Remember, Respond, AcquireThrows, ScriptThrows, RememberFails, Crash,
      Take, history
<1>2. CASE \/ \E g \in late : LateAcquire(g)
           \/ \E s \in Seats : ExpireHold(s)
           \/ \E k \in Keys : ExpireRecord(k)
           \/ UNCHANGED vars
  BY <1>2 DEF LateAcquire, ExpireHold, ExpireRecord, Take, history, vars
<1> QED
  BY <1>1, <1>2 DEF Next, Moves

\* A record expires, is created by a request that goes on to act, is given the
\* answer of the request that remembers, or stays.
LEMMA RecordEffect ==
    ASSUME IInv, [Next]_vars, NEW k \in Keys
    PROVE  \/ idem'[k] = idem[k]
           \/ idem'[k] = Missing /\ k \in expired'
           \/ \E h \in Handlers :
                 /\ Begin(h) /\ KeyOf(h)' = k /\ pc'[h] = "act"
                 /\ idem[k] = Missing /\ idem'[k] = InProgress(req'[h].id)
           \/ \E h \in Handlers :
                 /\ Remember(h) \/ RememberFails(h)
                 /\ KeyOf(h) = k
                 /\ idem[k] # Missing /\ idem'[k] = Committed(reply[h])
<1>0. TypeOK
  BY DEF IInv
<1>1. ASSUME NEW h \in Handlers, Begin(h)
      PROVE  \/ idem'[k] = idem[k]
             \/ /\ KeyOf(h)' = k /\ pc'[h] = "act"
                /\ idem[k] = Missing /\ idem'[k] = InProgress(req'[h].id)
  <2>1. PICK q \in Ask[h], t \in Token \cup {NoToken},
             of \in Token \cup Owners \cup {NoToken} :
            /\ req' = [req EXCEPT ![h] = q]
            /\ token' = [token EXCEPT ![h] = t]
            /\ part' = [part EXCEPT ![h] = of]
            /\ BodyHash(q, of) \in Keys
            /\ SetIfAbsent(BodyHash(q, of), q.id)
            /\ Goto(h, IF idem[BodyHash(q, of)] = Missing THEN "act" ELSE "get")
    BY <1>0, <1>1, BeginEffect
  <2>2. req'[h] = q /\ KeyOf(h)' = BodyHash(q, of)
    BY <1>0, <2>1 DEF TypeOK, KeyOf
  <2>3. CASE k = BodyHash(q, of)
    BY <1>0, <2>1, <2>2, <2>3 DEF SetIfAbsent, Goto, TypeOK
  <2>4. CASE k # BodyHash(q, of)
    BY <1>0, <2>1, <2>4 DEF SetIfAbsent, TypeOK
  <2> QED
    BY <2>3, <2>4
<1>2. ASSUME NEW h \in Handlers, Remember(h) \/ RememberFails(h)
      PROVE  \/ idem'[k] = idem[k]
             \/ KeyOf(h) = k /\ idem[k] # Missing /\ idem'[k] = Committed(reply[h])
  <2>1. SetIfPresent(KeyOf(h), reply[h]) \/ UNCHANGED idem
    BY <1>2 DEF Remember, RememberFails
  <2> QED
    BY <1>0, <2>1 DEF SetIfPresent, TypeOK
<1>3. ASSUME NEW h \in Handlers, Moves(h), ~Begin(h), ~Remember(h), ~RememberFails(h)
      PROVE  UNCHANGED idem
  BY <1>3
  DEF Moves, HandlerStep, HandlerFault, ReadRecord, AnswerInProgress, AnswerCached,
      RefuseToken, RefuseScope, Acquire, AcquireConflict, Extend, Release, Respond,
      AcquireThrows, ScriptThrows, Crash
<1>4. ASSUME NEW l \in Keys, ExpireRecord(l)
      PROVE  idem'[k] = idem[k] \/ (idem'[k] = Missing /\ k \in expired')
  BY <1>0, <1>4 DEF ExpireRecord, ExpireKey, TypeOK
<1>5. CASE (\E g \in late : LateAcquire(g)) \/ (\E s \in Seats : ExpireHold(s)) \/ UNCHANGED vars
  BY <1>5 DEF LateAcquire, ExpireHold, vars
<1> QED
  BY <1>1, <1>2, <1>3, <1>4, <1>5 DEF Next, Moves

\* Who acts after a step acted before it, or has just created its record, or
\* has just found a record that is its own or has expired.
LEMMA ActorEffect ==
    ASSUME IInv, [Next]_vars, NEW g \in Handlers, Acts(g)'
    PROVE  \/ Acts(g)
           \/ Begin(g) /\ idem[KeyOf(g)'] = Missing
              /\ idem' = [idem EXCEPT ![KeyOf(g)'] = InProgress(req'[g].id)]
           \/ ReadRecord(g)
<1>0. TypeOK
  BY DEF IInv
<1>1. CASE UNCHANGED <<pc, req, part, reply, ran>>
  BY <1>1 DEF Acts
<1>2. CASE \E h \in Handlers : h # g /\ Moves(h)
  BY <1>0, <1>2, OthersStay DEF Acts
<1>3. CASE Begin(g)
  <2>1. PICK q \in Ask[g], t \in Token \cup {NoToken},
             of \in Token \cup Owners \cup {NoToken} :
            /\ req' = [req EXCEPT ![g] = q]
            /\ token' = [token EXCEPT ![g] = t]
            /\ part' = [part EXCEPT ![g] = of]
            /\ BodyHash(q, of) \in Keys
            /\ SetIfAbsent(BodyHash(q, of), q.id)
            /\ Goto(g, IF idem[BodyHash(q, of)] = Missing THEN "act" ELSE "get")
    BY <1>0, <1>3, BeginEffect
  <2>2. req'[g] = q /\ KeyOf(g)' = BodyHash(q, of)
    BY <1>0, <2>1 DEF TypeOK, KeyOf
  <2>3. CASE idem[BodyHash(q, of)] = Missing
    BY <1>3, <2>1, <2>2, <2>3 DEF SetIfAbsent
  <2>4. CASE idem[BodyHash(q, of)] # Missing
    <3>1. pc'[g] = "get" /\ ran'[g] = ran[g]
      BY <1>0, <1>3, <2>1, <2>4 DEF Begin, Goto, TypeOK
    <3> QED
      BY <3>1 DEF Acts
  <2> QED
    BY <2>3, <2>4
<1>4. CASE HandlerStep(g) \/ HandlerFault(g)
  <2>1. CASE pc[g] = "act"
    BY <2>1 DEF Acts
  <2>2. CASE pc[g] # "act" /\ ~ReadRecord(g)
    <3>1. ran'[g] = ran[g] /\ pc'[g] # "act"
      BY <1>0, <1>4, <2>2
      DEF HandlerStep, HandlerFault, AnswerInProgress, AnswerCached, RefuseToken,
          RefuseScope, Acquire, AcquireConflict, Extend, Release, Remember, Respond,
          AcquireThrows, ScriptThrows, RememberFails, Crash, Answer, Goto, TypeOK
    <3> QED
      BY <3>1 DEF Acts
  <2> QED
    BY <2>1, <2>2
<1> QED
  BY <1>1, <1>2, <1>3, <1>4, WhoMoves DEF Moves

------------------------------------------------------------------------------
(* The inductive invariant *)

LEMMA PlacesStep ==
    ASSUME IInv, [Next]_vars
    PROVE  Places'
<1>0. /\ TypeOK /\ Places
      /\ granted \subseteq granted'
  BY HistoriesGrow DEF IInv
<1>1. ASSUME NEW g \in Handlers, UNCHANGED <<pc[g], req[g], part[g], reply[g], ran[g]>>
      PROVE  PlaceOf(g)'
  BY <1>0, <1>1 DEF Places, PlaceOf, KeyOf
<1>2. ASSUME NEW h \in Handlers, Moves(h)
      PROVE  PlaceOf(h)'
  <2>0. PlaceOf(h)
    BY <1>0 DEF Places
  <2>1. CASE Begin(h)
    <3>1. PICK q \in Ask[h], t \in Token \cup {NoToken},
               of \in Token \cup Owners \cup {NoToken} :
              /\ req' = [req EXCEPT ![h] = q]
              /\ token' = [token EXCEPT ![h] = t]
              /\ part' = [part EXCEPT ![h] = of]
              /\ BodyHash(q, of) \in Keys
              /\ SetIfAbsent(BodyHash(q, of), q.id)
              /\ Goto(h, IF idem[BodyHash(q, of)] = Missing THEN "act" ELSE "get")
      BY <1>0, <2>1, BeginEffect
    <3>2. req'[h] = q /\ KeyOf(h)' = BodyHash(q, of)
      BY <1>0, <3>1 DEF TypeOK, KeyOf
    <3>3. pc'[h] \in {"act", "get"} /\ ~ran'[h]
      BY <1>0, <2>0, <2>1, <3>1 DEF Begin, Goto, TypeOK, PlaceOf
    <3> QED
      BY <3>1, <3>2, <3>3 DEF PlaceOf
  <2>2. CASE ~Begin(h)
    <3>0. pc[h] # "idle"
      BY <1>2, <2>2
      DEF Moves, HandlerStep, HandlerFault, ReadRecord, AnswerInProgress, AnswerCached,
          RefuseToken, RefuseScope, Acquire, AcquireConflict, Extend, Release, Remember,
          Respond, AcquireThrows, ScriptThrows, RememberFails, Crash
    <3>1. req'[h] = req[h] /\ req[h] \in Ask[h] /\ KeyOf(h)' \in Keys
      BY <1>0, <2>0, <3>0, BodiesStay DEF PlaceOf
    <3>2. CASE ReadRecord(h)
      BY <1>0, <2>0, <3>1, <3>2 DEF ReadRecord, Goto, TypeOK, PlaceOf
    <3>3. CASE Acquire(h)
      <4>1. PICK v \in Versions :
              /\ Take(GrantOf(h, v))
              /\ reply' = [reply EXCEPT ![h] = [is |-> "held", token |-> GrantOf(h, v).token]]
        BY <3>3 DEF Acquire
      <4>2. GrantOf(h, v) \in [seats : SUBSET Seats, token : Token]
            /\ GrantOf(h, v).seats = req[h].seats
        BY <3>1, GrantFacts
      <4>3. reply'[h] = [is |-> "held", token |-> GrantOf(h, v).token]
        BY <1>0, <4>1 DEF TypeOK
      <4>4. reply'[h] \in Responses
        BY <4>2, <4>3, ReplyFacts
      <4>5. [seats |-> req'[h].seats, token |-> reply'[h].token] \in granted'
        <5>1. [seats |-> req'[h].seats, token |-> reply'[h].token] = GrantOf(h, v)
          BY <3>1, <4>3 DEF GrantOf
        <5> QED
          BY <4>1, <5>1 DEF Take
      <4>6. pc'[h] = "remember" /\ ran'[h]
        BY <1>0, <3>3 DEF Acquire, Goto, Ran, TypeOK
      <4> QED
        BY <3>1, <4>4, <4>5, <4>6 DEF PlaceOf
    <3>4. CASE Extend(h) \/ Release(h)
      <4>1. pc'[h] = "remember" /\ ran'[h]
        BY <1>0, <3>4 DEF Extend, Release, Goto, Ran, TypeOK
      <4>2. \E kind \in {"extended", "not_extended", "released", "not_released"} :
                reply'[h] = Plain(kind)
        BY <1>0, <3>4 DEF Extend, Release, TypeOK
      <4>3. reply'[h] \in Responses /\ reply'[h].is # "held"
        BY <4>2, ReplyFacts, RecordFacts
      <4> QED
        BY <3>1, <4>1, <4>3 DEF PlaceOf
    <3>5. CASE Remember(h)
      BY <1>0, <2>0, <3>1, <3>5 DEF Remember, Goto, TypeOK, PlaceOf
    <3>6. CASE HandlerFault(h)
      <4>1. pc'[h] = "done"
        BY <1>0, <3>6
        DEF HandlerFault, AcquireThrows, ScriptThrows, RememberFails, Crash, Answer,
            Goto, TypeOK
      <4> QED
        BY <3>1, <4>1 DEF PlaceOf
    <3>7. CASE \/ AnswerInProgress(h) \/ AnswerCached(h) \/ RefuseToken(h)
               \/ RefuseScope(h) \/ AcquireConflict(h) \/ Respond(h)
      <4>1. pc'[h] = "done"
        BY <1>0, <3>7
        DEF AnswerInProgress, AnswerCached, RefuseToken, RefuseScope, AcquireConflict,
            Respond, Answer, Goto, TypeOK
      <4> QED
        BY <3>1, <4>1 DEF PlaceOf
    <3> QED
      BY <1>2, <2>2, <3>2, <3>3, <3>4, <3>5, <3>6, <3>7 DEF Moves, HandlerStep
  <2> QED
    BY <2>1, <2>2
<1>3. CASE UNCHANGED <<pc, req, part, reply, ran>>
  BY <1>1, <1>3 DEF Places
<1>4. ASSUME NEW h \in Handlers, Moves(h)
      PROVE  Places'
  BY <1>0, <1>1, <1>2, <1>4, OthersStay DEF Places
<1> QED
  BY <1>3, <1>4, WhoMoves

\* A handler that begins finds its record or leaves one.
LEMMA BeginLeavesRecord ==
    ASSUME IInv, NEW h \in Handlers, Begin(h)
    PROVE  /\ KeyOf(h)' \in Keys
           /\ idem'[KeyOf(h)'] # Missing
           /\ pc'[h] = "act" =>
                 /\ idem[KeyOf(h)'] = Missing
                 /\ idem'[KeyOf(h)'] = InProgress(req'[h].id)
<1>0. TypeOK
  BY DEF IInv
<1>1. PICK q \in Ask[h], t \in Token \cup {NoToken},
           of \in Token \cup Owners \cup {NoToken} :
          /\ req' = [req EXCEPT ![h] = q]
          /\ token' = [token EXCEPT ![h] = t]
          /\ part' = [part EXCEPT ![h] = of]
          /\ BodyHash(q, of) \in Keys
          /\ SetIfAbsent(BodyHash(q, of), q.id)
          /\ Goto(h, IF idem[BodyHash(q, of)] = Missing THEN "act" ELSE "get")
  BY <1>0, BeginEffect
<1>2. req'[h] = q /\ KeyOf(h)' = BodyHash(q, of)
  BY <1>0, <1>1 DEF TypeOK, KeyOf
<1> QED
  BY <1>0, <1>1, <1>2, RecordFacts DEF SetIfAbsent, Goto, TypeOK

LEMMA RecordLivesStep ==
    ASSUME IInv, [Next]_vars
    PROVE  RecordLives'
<1> SUFFICES ASSUME NEW h \in Handlers, pc'[h] # "idle", KeyOf(h)' \notin expired'
             PROVE  idem'[KeyOf(h)'] # Missing
  BY DEF RecordLives
<1>0. TypeOK /\ Places /\ RecordLives /\ expired \subseteq expired'
  BY HistoriesGrow DEF IInv
<1>1. CASE pc[h] # "idle"
  <2>1. KeyOf(h)' = KeyOf(h) /\ KeyOf(h) \in Keys
    BY <1>0, <1>1, BodiesStay DEF Places, PlaceOf
  <2>2. idem[KeyOf(h)] # Missing
    BY <1>0, <1>1, <2>1 DEF RecordLives
  <2> QED
    BY <2>1, <2>2, RecordEffect, RecordFacts
<1>2. CASE pc[h] = "idle"
  <2>1. Moves(h)
    BY <1>0, <1>2, WhoMoves, OthersStay
  <2>2. Begin(h)
    BY <1>2, <2>1
    DEF Moves, HandlerStep, HandlerFault, ReadRecord, AnswerInProgress, AnswerCached,
        RefuseToken, RefuseScope, Acquire, AcquireConflict, Extend, Release, Remember,
        Respond, AcquireThrows, ScriptThrows, RememberFails, Crash
  <2> QED
    BY <2>2, BeginLeavesRecord
<1> QED
  BY <1>1, <1>2

\* A handler that acts has begun.
LEMMA ActorsHaveBegun ==
    ASSUME IInv, NEW h \in Handlers, Acts(h)
    PROVE  pc[h] # "idle" /\ KeyOf(h) \in Keys /\ req[h].id \in RequestIds
BY AskedFacts DEF IInv, Places, PlaceOf, Acts

LEMMA ActorOwnsRecordStep ==
    ASSUME IInv, [Next]_vars
    PROVE  ActorOwnsRecord'
<1> SUFFICES ASSUME NEW h \in Handlers, Acts(h)', KeyOf(h)' \notin expired',
                    NEW r \in RequestIds, idem'[KeyOf(h)'] = InProgress(r)
             PROVE  r = req'[h].id
  BY DEF ActorOwnsRecord
<1>0. TypeOK /\ Places /\ RecordLives /\ ActorOwnsRecord /\ expired \subseteq expired'
  BY HistoriesGrow DEF IInv
<1>1. CASE Begin(h)
  <2>1. pc'[h] = "act"
    BY <1>0, <1>1 DEF Begin, Places, PlaceOf, Acts
  <2> QED
    BY <1>1, <2>1, BeginLeavesRecord, RecordFacts
<1>2. CASE ~Begin(h)
  <2>1. pc[h] # "idle"
    BY <1>2, ActorEffect, ActorsHaveBegun DEF ReadRecord
  <2>2. req'[h] = req[h] /\ KeyOf(h)' = KeyOf(h) /\ KeyOf(h) \in Keys
    BY <1>0, <2>1, BodiesStay DEF Places, PlaceOf
  <2>3. idem[KeyOf(h)] # Missing
    BY <1>0, <2>1, <2>2 DEF RecordLives
  <2>4. idem'[KeyOf(h)] = idem[KeyOf(h)]
    BY <2>2, <2>3, RecordEffect, RecordFacts
  <2>5. CASE Acts(h)
    BY <1>0, <2>2, <2>4, <2>5 DEF ActorOwnsRecord
  <2>6. CASE ReadRecord(h)
    BY <2>2, <2>3, <2>4, <2>6, RecordFacts DEF ReadRecord, MayProceed
  <2> QED
    BY <1>2, <2>5, <2>6, ActorEffect
<1> QED
  BY <1>1, <1>2

LEMMA OneIdActsStep ==
    ASSUME IInv, [Next]_vars
    PROVE  OneIdActs'
<1>0. /\ TypeOK /\ Places /\ RecordLives /\ ActorOwnsRecord /\ OneIdActs
      /\ expired \subseteq expired'
  BY HistoriesGrow DEF IInv
<1>1. ASSUME NEW g \in Handlers, NEW h \in Handlers, Acts(g)', Acts(h)', Acts(g),
             KeyOf(g)' = KeyOf(h)', KeyOf(h)' \notin expired'
      PROVE  req'[g].id = req'[h].id
  <2>1. /\ pc[g] # "idle"
        /\ req'[g] = req[g] /\ KeyOf(g)' = KeyOf(g)
        /\ KeyOf(g) \in Keys /\ req[g].id \in RequestIds
    BY <1>0, <1>1, ActorsHaveBegun, BodiesStay
  <2>2. idem[KeyOf(g)] # Missing
    BY <1>0, <1>1, <2>1 DEF RecordLives
  <2>3. CASE Begin(h)
    <3>1. pc'[h] = "act"
      BY <1>0, <1>1, <2>3 DEF Begin, Places, PlaceOf, Acts
    <3> QED
      BY <1>1, <2>1, <2>2, <2>3, <3>1, BeginLeavesRecord
  <2>4. CASE ~Begin(h)
    <3>1. pc[h] # "idle"
      BY <1>1, <2>4, ActorEffect, ActorsHaveBegun DEF ReadRecord
    <3>2. req'[h] = req[h] /\ KeyOf(h)' = KeyOf(h)
      BY <1>0, <3>1, BodiesStay
    <3>3. CASE Acts(h)
      BY <1>0, <1>1, <2>1, <3>2, <3>3 DEF OneIdActs
    <3>4. CASE ReadRecord(h)
      <4>1. req[h].id \in RequestIds /\ idem[KeyOf(h)] = InProgress(req[h].id)
        BY <1>0, <1>1, <2>1, <2>2, <3>1, <3>2, <3>4, AskedFacts
        DEF ReadRecord, MayProceed, Places, PlaceOf
      <4> QED
        BY <1>0, <1>1, <2>1, <3>2, <4>1 DEF ActorOwnsRecord
    <3> QED
      BY <1>1, <2>4, <3>3, <3>4, ActorEffect
  <2> QED
    BY <2>3, <2>4
<1>2. ASSUME NEW g \in Handlers, NEW h \in Handlers, Acts(g)', Acts(h)', ~Acts(g), ~Acts(h),
             KeyOf(g)' = KeyOf(h)', KeyOf(h)' \notin expired'
      PROVE  req'[g].id = req'[h].id
  <2>1. ~UNCHANGED <<pc, req, part, reply, ran>>
    BY <1>2 DEF Acts
  <2>2. PICK i \in Handlers : Moves(i)
    BY <2>1, WhoMoves
  <2>3. g = i /\ h = i
    BY <1>0, <1>2, <2>2, OthersStay DEF Acts
  <2> QED
    BY <2>3
<1> QED
  BY <1>1, <1>2 DEF OneIdActs

LEMMA StoredStep ==
    ASSUME IInv, [Next]_vars
    PROVE  StoredHoldsWereGranted'
<1> SUFFICES ASSUME NEW k \in Keys, NEW r \in Responses,
                    idem'[k] = Committed(r), r.is = "held"
             PROVE  [seats |-> k.seats, token |-> r.token] \in granted'
  BY DEF StoredHoldsWereGranted
<1>0. Places /\ StoredHoldsWereGranted /\ granted \subseteq granted'
  BY HistoriesGrow DEF IInv
<1>1. CASE idem'[k] = idem[k]
  BY <1>0, <1>1 DEF StoredHoldsWereGranted
<1>2. CASE \E h \in Handlers :
              /\ Remember(h) \/ RememberFails(h)
              /\ KeyOf(h) = k
              /\ idem'[k] = Committed(reply[h])
  <2>1. PICK h \in Handlers :
              /\ Remember(h) \/ RememberFails(h)
              /\ KeyOf(h) = k
              /\ idem'[k] = Committed(reply[h])
    BY <1>2
  <2>2. r = reply[h]
    BY <2>1, RecordFacts
  <2>3. [seats |-> req[h].seats, token |-> r.token] \in granted
    BY <1>0, <2>1, <2>2 DEF Remember, RememberFails, Places, PlaceOf
  <2>4. k.seats = req[h].seats
    BY <2>1 DEF KeyOf, BodyHash
  <2> QED
    BY <1>0, <2>3, <2>4
<1>3. idem'[k] # Missing /\ \A i : idem'[k] # InProgress(i)
  BY RecordFacts
<1> QED
  BY <1>1, <1>2, <1>3, RecordEffect

LEMMA InitIInv == Init => IInv
<1> SUFFICES ASSUME Init
             PROVE  IInv
  OBVIOUS
<1>1. idem \in [Keys -> IdemRecord] /\ hold \in [Seats -> Token \cup {Free}]
  BY RecordFacts DEF Init, IdemInit, LeaseInit
<1>2. reply \in [Handlers -> Reply]
  BY ReplyFacts DEF Init
<1>3. TypeOK
  BY <1>1, <1>2, HoldBounds DEF Init, TypeOK
<1>4. Places /\ RecordLives
  BY DEF Init, Places, PlaceOf, RecordLives
<1>5. \A h \in Handlers : ~Acts(h)
  BY DEF Init, Acts
<1>6. StoredHoldsWereGranted
  BY RecordFacts DEF Init, IdemInit, StoredHoldsWereGranted
<1> QED
  BY <1>3, <1>4, <1>5, <1>6 DEF IInv, ActorOwnsRecord, OneIdActs

LEMMA NextIInv == IInv /\ [Next]_vars => IInv'
BY TypeStep, PlacesStep, RecordLivesStep, ActorOwnsRecordStep, OneIdActsStep, StoredStep
DEF IInv

\* IInv holds in every reachable state.
THEOREM SpecIInv == Spec => []IInv
<1>1. Init => IInv
  BY InitIInv
<1>2. IInv /\ [Next]_vars => IInv'
  BY NextIInv
<1> QED
  BY <1>1, <1>2, PTL DEF Spec

------------------------------------------------------------------------------
(* The theorems *)

\* Type correctness of the handlers, the records and the histories.
THEOREM HoldsApiTypes == Spec => []TypeOK
<1>1. IInv => TypeOK
  BY DEF IInv
<1> QED
  BY <1>1, SpecIInv, PTL

\* While the record of a body lives, the requests that reach the seat-lock
\* store with it all carry one X-Request-ID.
THEOREM OneActs == Spec => []OneRequestActs
<1>1. IInv => OneRequestActs
  BY DEF IInv, OneIdActs, Acts, OneRequestActs
<1> QED
  BY <1>1, SpecIInv, PTL

\* A success kept for replay tells of a hold that was granted as a whole.
THEOREM StoredHolds == Spec => []StoredHoldsWereGranted
<1>1. IInv => StoredHoldsWereGranted
  BY DEF IInv
<1> QED
  BY <1>1, SpecIInv, PTL

------------------------------------------------------------------------------
(* Repeated requests are told one thing, if ids are unique *)

\* With unique ids there is one handler that acts on a body at a time.
LEMMA OneHandlerActs ==
    ASSUME IdsAreUnique, IInv, NEW g \in Handlers, NEW h \in Handlers, Acts(g), Acts(h),
           KeyOf(g) = KeyOf(h), KeyOf(h) \notin expired
    PROVE  g = h
<1>1. req[g] \in Ask[g] /\ req[h] \in Ask[h]
  BY ActorsHaveBegun DEF IInv, Places, PlaceOf
<1>2. req[g].id = req[h].id
  BY DEF IInv, OneIdActs
<1> QED
  BY <1>1, <1>2 DEF IdsAreUnique

LEMMA StoredIsFinalStep ==
    ASSUME IdsAreUnique, IInv, StoredIsFinal, [Next]_vars
    PROVE  StoredIsFinal'
<1> SUFFICES ASSUME NEW h \in Handlers, pc'[h] \in {"act", "remember"},
                    KeyOf(h)' \notin expired',
                    NEW x \in Responses, idem'[KeyOf(h)'] = Committed(x)
             PROVE  FALSE
  BY DEF StoredIsFinal
<1>0. TypeOK /\ Places /\ RecordLives /\ expired \subseteq expired'
  BY HistoriesGrow DEF IInv
<1>1. Acts(h)'
  BY PlacesStep DEF Places, PlaceOf, Acts
<1>2. ~Begin(h)
  <2>1. CASE pc'[h] = "act"
    BY <2>1, BeginLeavesRecord, RecordFacts
  <2>2. CASE pc'[h] = "remember"
    BY <1>0, <2>2 DEF Begin, Goto, TypeOK
  <2> QED
    BY <2>1, <2>2
<1>3. pc[h] # "idle" /\ KeyOf(h)' = KeyOf(h) /\ KeyOf(h) \in Keys
  <2>1. pc[h] # "idle"
    BY <1>1, <1>2, ActorEffect, ActorsHaveBegun DEF ReadRecord
  <2> QED
    BY <1>0, <2>1, BodiesStay DEF Places, PlaceOf
<1>4. idem[KeyOf(h)] # Missing /\ KeyOf(h) \notin expired
  BY <1>0, <1>3 DEF RecordLives
<1>5. CASE \E g \in Handlers :
              /\ Remember(g) \/ RememberFails(g)
              /\ KeyOf(g) = KeyOf(h)
  <2>1. PICK g \in Handlers :
              /\ Remember(g) \/ RememberFails(g)
              /\ KeyOf(g) = KeyOf(h)
    BY <1>5
  <2>2. Acts(g) /\ Moves(g) /\ ~ReadRecord(h)
    <3>1. Acts(g) /\ Moves(g)
      BY <1>0, <2>1
      DEF Remember, RememberFails, Moves, HandlerStep, HandlerFault, Acts, Places, PlaceOf
    <3>2. g = h => ~ReadRecord(h)
      BY <2>1 DEF Remember, RememberFails, ReadRecord
    <3>3. g # h => ~ReadRecord(h)
      BY <1>0, <3>1, OthersStay DEF ReadRecord, Goto, TypeOK
    <3> QED
      BY <3>1, <3>2, <3>3
  <2>3. Acts(h)
    BY <1>1, <1>2, <2>2, ActorEffect
  <2>4. g = h
    BY <1>4, <2>1, <2>2, <2>3, OneHandlerActs
  <2> QED
    BY <1>0, <2>1, <2>4 DEF Remember, RememberFails, Answer, Goto, TypeOK
<1>6. CASE idem'[KeyOf(h)] = idem[KeyOf(h)]
  <2>1. CASE ReadRecord(h)
    BY <1>3, <1>4, <1>6, <2>1, RecordFacts DEF ReadRecord, MayProceed
  <2>2. CASE ~ReadRecord(h)
    <3>1. Acts(h)
      BY <1>1, <1>2, <2>2, ActorEffect
    <3>2. pc[h] \in {"act", "remember"}
      <4>1. CASE pc'[h] = pc[h]
        BY <4>1
      <4>2. CASE pc'[h] # pc[h]
        <5>1. Moves(h)
          BY <1>0, <4>2, WhoMoves, OthersStay
        <5> QED
          BY <1>0, <1>2, <2>2, <5>1
          DEF Moves, HandlerStep, HandlerFault, AnswerInProgress, AnswerCached,
              RefuseToken, RefuseScope, Acquire, AcquireConflict, Extend, Release,
              Remember, Respond, AcquireThrows, ScriptThrows, RememberFails, Crash,
              Answer, Goto, TypeOK
      <4> QED
        BY <4>1, <4>2
    <3> QED
      BY <1>3, <1>4, <1>6, <3>2 DEF StoredIsFinal
  <2> QED
    BY <2>1, <2>2
<1> QED
  BY <1>3, <1>4, <1>5, <1>6, RecordEffect, RecordFacts

LEMMA ToldIsStoredStep ==
    ASSUME IdsAreUnique, IInv, StoredIsFinal, ToldIsStored, [Next]_vars
    PROVE  ToldIsStored'
<1> SUFFICES ASSUME NEW h \in Handlers, pc'[h] \in {"reply", "done"},
                    reply'[h].is = "held", KeyOf(h)' \notin expired'
             PROVE  idem'[KeyOf(h)'] = Committed(reply'[h])
  BY DEF ToldIsStored
<1>0. TypeOK /\ Places /\ RecordLives /\ expired \subseteq expired'
  BY HistoriesGrow DEF IInv
<1>1. pc[h] # "idle"
  <2>1. ~Begin(h)
    BY <1>0 DEF Begin, Goto, TypeOK
  <2>2. CASE UNCHANGED <<pc, req, part, reply, ran>>
    BY <2>2
  <2>3. CASE \E g \in Handlers : g # h /\ Moves(g)
    BY <1>0, <2>3, OthersStay
  <2>4. CASE Moves(h)
    BY <2>1, <2>4
    DEF Moves, HandlerStep, HandlerFault, ReadRecord, AnswerInProgress, AnswerCached,
        RefuseToken, RefuseScope, Acquire, AcquireConflict, Extend, Release, Remember,
        Respond, AcquireThrows, ScriptThrows, RememberFails, Crash
  <2> QED
    BY <2>2, <2>3, <2>4, WhoMoves
<1>2. /\ KeyOf(h)' = KeyOf(h) /\ KeyOf(h) \in Keys /\ KeyOf(h) \notin expired
      /\ idem[KeyOf(h)] # Missing
  BY <1>0, <1>1, BodiesStay DEF Places, PlaceOf, RecordLives
\* A handler that has told a success, or reads it, finds it stored.
<1>3. \/ idem[KeyOf(h)] = Committed(reply'[h])
      \/ Remember(h)
  <2>1. CASE pc'[h] = pc[h] /\ reply'[h] = reply[h]
    BY <1>2, <2>1 DEF ToldIsStored
  <2>2. CASE AnswerCached(h)
    <3>1. PICK r \in Responses : idem[KeyOf(h)] = Committed(r) /\ Answer(h, r)
      BY <2>2 DEF AnswerCached
    <3>2. reply'[h] = r
      BY <1>0, <3>1 DEF Answer, TypeOK
    <3> QED
      BY <3>1, <3>2
  <2>3. CASE Respond(h)
    <3>1. reply'[h] = reply[h] /\ pc[h] = "reply"
      BY <1>0, <2>3 DEF Respond, Answer, TypeOK
    <3> QED
      BY <1>2, <3>1 DEF ToldIsStored
  <2>4. CASE \/ AnswerInProgress(h) \/ RefuseToken(h) \/ RefuseScope(h)
             \/ AcquireConflict(h) \/ HandlerFault(h)
    <3>1. \E kind \in {"in_progress", "no_token", "forbidden", "conflict", "error"} :
              reply'[h] = Plain(kind)
      BY <1>0, <2>4
      DEF AnswerInProgress, RefuseToken, RefuseScope, AcquireConflict, HandlerFault,
          AcquireThrows, ScriptThrows, RememberFails, Crash, Answer, TypeOK
    <3>2. reply'[h].is # "held"
      BY <3>1, RecordFacts
    <3> QED
      BY <3>2
  <2>5. ~(ReadRecord(h) \/ Acquire(h) \/ Extend(h) \/ Release(h))
    BY <1>0 DEF ReadRecord, Acquire, Extend, Release, Goto, TypeOK
  <2>6. CASE ~Moves(h)
    BY <1>0, <2>1, <2>6, WhoMoves, OthersStay
  <2>7. ~Begin(h)
    BY <1>1 DEF Begin
  <2> QED
    BY <2>1, <2>2, <2>3, <2>4, <2>5, <2>6, <2>7 DEF Moves, HandlerStep
<1>4. CASE Remember(h)
  <2>1. reply'[h] = reply[h] /\ SetIfPresent(KeyOf(h), reply[h])
    BY <1>4 DEF Remember
  <2>2. idem'[KeyOf(h)] = Committed(reply[h])
    BY <1>0, <1>2, <2>1 DEF SetIfPresent, TypeOK
  <2> QED
    BY <1>2, <2>1, <2>2
<1>5. CASE idem[KeyOf(h)] = Committed(reply'[h])
  <2>1. reply'[h] \in Responses
    BY <1>0, <1>2, <1>5, RecordFacts DEF TypeOK, IdemRecord
  <2>2. ASSUME NEW g \in Handlers, Remember(g) \/ RememberFails(g), KeyOf(g) = KeyOf(h)
        PROVE  FALSE
    BY <1>2, <1>5, <2>1, <2>2 DEF Remember, RememberFails, StoredIsFinal
  <2> QED
    BY <1>2, <1>5, <2>2, RecordEffect
<1> QED
  BY <1>3, <1>4, <1>5

\* If every request has an id of its own, repeats of one body are told of one
\* hold while its record lives.  With a shared id it is false: both requests
\* of that id act, and each remembers its own hold.
THEOREM RepeatsAreTold ==
    ASSUME IdsAreUnique
    PROVE  Spec => []RepeatsAgree
<1>1. Init => StoredIsFinal /\ ToldIsStored
  BY DEF Init, StoredIsFinal, ToldIsStored
<1>2. IInv /\ (StoredIsFinal /\ ToldIsStored) /\ [Next]_vars => (StoredIsFinal /\ ToldIsStored)'
  BY StoredIsFinalStep, ToldIsStoredStep
<1>3. IInv /\ (StoredIsFinal /\ ToldIsStored) => RepeatsAgree
  BY RecordFacts DEF ToldIsStored, RepeatsAgree
<1> QED
  BY <1>1, <1>2, <1>3, SpecIInv, PTL DEF Spec

------------------------------------------------------------------------------
(* The API uses the seat-lock store as the lease allows *)

\* What the API does to holds, late calls and expiries included, is to grant
\* whole sets of seats to a token and to end leases.
THEOREM UsesTheLease == Spec => LeaseSpec
<1>1. Init => LeaseInit
  BY DEF Init
<1>2. IInv /\ [Next]_vars => [LeaseNext]_hold
  <2> SUFFICES ASSUME IInv, [Next]_vars
               PROVE  [LeaseNext]_hold
    OBVIOUS
  <2>0. TypeOK /\ \A h \in Handlers : pc[h] # "idle" =>
            req[h] \in Ask[h] /\ req[h].seats \in SUBSET Seats
    BY AskedFacts DEF IInv, Places, PlaceOf
  <2>1. ASSUME NEW g \in [seats : SUBSET Seats, token : Token], Take(g)
        PROVE  LeaseNext
    BY <2>1 DEF Take, LeaseNext
  <2>2. ASSUME NEW h \in Handlers, Acquire(h) \/ AcquireThrows(h)
        PROVE  [LeaseNext]_hold
    <3>1. \A v \in Versions : GrantOf(h, v) \in [seats : SUBSET Seats, token : Token]
      BY <2>0, <2>2, GrantFacts DEF Acquire, AcquireThrows
    <3>2. (\E v \in Versions : Take(GrantOf(h, v))) \/ UNCHANGED hold
      BY <2>2 DEF Acquire, AcquireThrows
    <3> QED
      BY <2>1, <3>1, <3>2
  <2>3. ASSUME NEW g \in late, LateAcquire(g)
        PROVE  [LeaseNext]_hold
    <3>1. g \in [seats : SUBSET Seats, token : Token]
      BY <2>0 DEF TypeOK
    <3> QED
      BY <2>1, <2>3, <3>1 DEF LateAcquire
  <2>4. ASSUME NEW h \in Handlers, Release(h) \/ ScriptThrows(h)
        PROVE  [LeaseNext]_hold
    BY <2>0, <2>4 DEF Release, ScriptThrows, LeaseNext
  <2>5. ASSUME NEW s \in Seats, ExpireHold(s)
        PROVE  [LeaseNext]_hold
    BY <2>5 DEF ExpireHold, LeaseNext
  <2>6. ASSUME NEW h \in Handlers, Moves(h),
               ~Acquire(h), ~AcquireThrows(h), ~Release(h), ~ScriptThrows(h)
        PROVE  UNCHANGED hold
    BY <2>6
    DEF Moves, Begin, HandlerStep, HandlerFault, ReadRecord, AnswerInProgress,
        AnswerCached, RefuseToken, RefuseScope, AcquireConflict, Extend, Remember,
        Respond, RememberFails, Crash
  <2>7. CASE (\E k \in Keys : ExpireRecord(k)) \/ UNCHANGED vars
    BY <2>7 DEF ExpireRecord, vars
  <2> QED
    BY <2>2, <2>3, <2>4, <2>5, <2>6, <2>7 DEF Next, Moves
<1> QED
  BY <1>1, <1>2, SpecIInv, PTL DEF Spec, LeaseSpec
============================================================================
