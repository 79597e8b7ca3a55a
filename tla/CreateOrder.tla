----------------------------- MODULE CreateOrder -----------------------------
(***************************************************************************)
(* POST /v1/orders, one step per await: the idempotency record, the reads  *)
(* of the Redis holds, the Postgres transaction with its row locks and the *)
(* Stripe call in the middle, the commit of the idempotency record and the *)
(* reply.  Read committed: an UPDATE waits for the row lock of another     *)
(* open transaction and then looks at what that transaction committed.     *)
(***************************************************************************)
EXTENDS CheckoutState

Running == {"get", "verify", "open", "reserve", "intent", "commit", "remember", "reply"}

NextSeat(h) == Ask[h].seats[pos[h]]

Goto(h, step) == pc' = [pc EXCEPT ![h] = step]

\* A slip: the catch leaves the transaction open.
AnswerWithoutRollback(h, code) ==
    /\ pc' = [pc EXCEPT ![h] = "done"]
    /\ answer' = [answer EXCEPT ![h] = code]
    /\ UNCHANGED mine

\* The handler answers and is done; an open transaction is rolled back.
Answer(h, code) ==
    /\ pc' = [pc EXCEPT ![h] = "done"]
    /\ answer' = [answer EXCEPT ![h] = code]
    /\ mine' = [mine EXCEPT ![h] = {}]

\* idemStore.begin, first half: SET NX.  What the handler refuses before it (scope,
\* headers, fields) touches no state and is left out.
BeginOrder(h) ==
    /\ pc[h] = "idle"
    /\ SetIfAbsent(Ask[h].key, Ask[h].id)
    /\ Goto(h, IF idem[Ask[h].key] = Missing THEN "verify" ELSE "get")
    /\ UNCHANGED <<hold, database, pos, clash, mine, answer, stripe, known, webhooks, faults>>

\* idemStore.begin, second half: GET the record the SET NX ran into.
ReadRecord(h) ==
    /\ pc[h] = "get"
    /\ MayProceed(Ask[h].key, Ask[h].id)
    /\ Goto(h, "verify")
    /\ UNCHANGED <<hold, idem, database, pos, clash, mine, answer, stripe, known, webhooks, faults>>

\* The key is another request's and still in progress: 202.
AnswerInProgress(h) ==
    /\ pc[h] = "get"
    /\ \E r \in RequestIds \ {Ask[h].id} : idem[Ask[h].key] = InProgress(r)
    /\ Answer(h, 202)
    /\ UNCHANGED <<hold, idem, database, pos, clash, stripe, known, webhooks, faults>>

\* The key is committed: the stored response is replayed, with its 201.
AnswerCached(h) ==
    /\ pc[h] = "get"
    /\ \E o \in Responses :
          /\ idem[Ask[h].key] = Committed(o)
          /\ known' = known \cup {o}
    /\ Answer(h, 201)
    /\ UNCHANGED <<hold, idem, database, pos, clash, stripe, webhooks, faults>>

\* No usable hold token: 412, and the key stays in progress.
RefuseToken(h) ==
    /\ pc[h] = "verify"
    /\ Ask[h].token = NoToken
    /\ Answer(h, 412)
    /\ UNCHANGED <<hold, idem, database, pos, clash, stripe, known, webhooks, faults>>

\* Redis does not answer the reads: 503, and the key stays in progress.
VerifyUnavailable(h) ==
    /\ pc[h] = "verify"
    /\ Ask[h].token # NoToken
    /\ Answer(h, 503)
    /\ UNCHANGED <<hold, idem, database, pos, clash, stripe, known, webhooks, faults>>

\* One GET of VerifySeatHolds.  Only the owner is compared: the version of the
\* token the client presents is parsed and not used.
HeldByBuyer(h, s) == hold[s] # Free /\ hold[s].owner = Ask[h].token.owner

VerifySeat(h) ==
    /\ pc[h] = "verify"
    /\ Ask[h].token # NoToken
    /\ LET bad == clash[h] \/ ~HeldByBuyer(h, NextSeat(h))
       IN  IF pos[h] < Len(Ask[h].seats)
           THEN /\ clash' = [clash EXCEPT ![h] = bad]
                /\ pos' = [pos EXCEPT ![h] = @ + 1]
                /\ UNCHANGED <<pc, answer, mine>>
           ELSE IF bad
           THEN Answer(h, 409) /\ UNCHANGED <<clash, pos>>
           ELSE /\ Goto(h, "open")
                /\ pos' = [pos EXCEPT ![h] = 1]
                /\ UNCHANGED <<clash, answer, mine>>
    /\ UNCHANGED <<hold, idem, database, stripe, known, webhooks, faults>>

\* BEGIN and the INSERT of the pending order.
OpenTransaction(h) ==
    /\ pc[h] = "open"
    /\ Goto(h, "reserve")
    /\ UNCHANGED <<hold, idem, database, pos, clash, mine, answer, stripe, known, webhooks, faults>>

LockedByOther(h, s) == \E g \in Handlers \ {h} : s \in mine[g]

\* Slips: a seat beyond the last one; the UPDATE without its state condition.
ReserveBeyondLast(h) ==
    /\ pc[h] = "reserve"
    /\ seat[NextSeat(h)].state = "available"
    /\ mine' = [mine EXCEPT ![h] = @ \cup {NextSeat(h)}]
    /\ pos' = [pos EXCEPT ![h] = @ + 1]
    /\ Goto(h, IF pos[h] < Len(Ask[h].seats) THEN "reserve" ELSE "intent")
    /\ UNCHANGED <<hold, idem, database, clash, answer, stripe, known, webhooks, faults>>
ReserveAnySeat(h) ==
    /\ pc[h] = "reserve"
    /\ ~LockedByOther(h, NextSeat(h))
    /\ mine' = [mine EXCEPT ![h] = @ \cup {NextSeat(h)}]
    /\ IF pos[h] < Len(Ask[h].seats)
       THEN pos' = [pos EXCEPT ![h] = @ + 1] /\ UNCHANGED pc
       ELSE Goto(h, "intent") /\ UNCHANGED pos
    /\ UNCHANGED <<hold, idem, database, clash, answer, stripe, known, webhooks, faults>>

\* UPDATE ... SET state = 'reserved' WHERE seat_id AND state = 'available'.
ReserveSeat(h) ==
    /\ pc[h] = "reserve"
    /\ seat[NextSeat(h)].state = "available"
    /\ ~LockedByOther(h, NextSeat(h))
    /\ NextSeat(h) \notin mine[h]
    /\ mine' = [mine EXCEPT ![h] = @ \cup {NextSeat(h)}]
    /\ IF pos[h] < Len(Ask[h].seats)
       THEN pos' = [pos EXCEPT ![h] = @ + 1] /\ UNCHANGED pc
       ELSE Goto(h, "intent") /\ UNCHANGED pos
    /\ UNCHANGED <<hold, idem, database, clash, answer, stripe, known, webhooks, faults>>

\* The UPDATE finds no row: ROLLBACK and 422; the key stays in progress.
SeatGone(h) ==
    /\ pc[h] = "reserve"
    /\ \/ seat[NextSeat(h)].state # "available"
       \/ NextSeat(h) \in mine[h]
    /\ Answer(h, 422)
    /\ UNCHANGED <<hold, idem, database, pos, clash, stripe, known, webhooks, faults>>

WaitsFor(h, g) ==
    /\ pc[h] = "reserve" /\ g # h
    /\ seat[NextSeat(h)].state = "available"
    /\ NextSeat(h) \in mine[g]

\* Seats are updated in the order the client listed them, so transactions can
\* wait for each other in a circle; Postgres aborts one of them.
Deadlocked(h) ==
    \E S \in SUBSET Handlers :
        /\ h \in S
        /\ \A x \in S : (\E y \in S : WaitsFor(x, y)) /\ (\E y \in S : WaitsFor(y, x))

DeadlockAbort(h) ==
    /\ Deadlocked(h)
    /\ Answer(h, 422)
    /\ UNCHANGED <<hold, idem, database, pos, clash, stripe, known, webhooks, faults>>

\* Stripe creates the payment intent, with the seat rows locked, and the order
\* row is given its id.
CreateIntent(h) ==
    /\ pc[h] = "intent"
    /\ intent' = [intent EXCEPT ![h] = "open"]
    /\ Goto(h, "commit")
    /\ UNCHANGED <<hold, idem, database, pos, clash, mine, answer, declined, due, known, webhooks, faults>>

\* A statement of the transaction throws, or the Stripe call does, whose intent
\* may exist all the same, known to nobody: ROLLBACK and 422.
TransactionFails(h) ==
    /\ pc[h] \in {"open", "reserve", "intent"}
    /\ \/ UNCHANGED intent
       \/ pc[h] = "intent" /\ intent' = [intent EXCEPT ![h] = "open"]
    /\ Fault
    /\ Answer(h, 422)
    /\ UNCHANGED <<hold, idem, database, pos, clash, declined, due, known, webhooks>>

\* What COMMIT makes visible: the pending order and its reserved seats.
Committing(h) ==
    /\ order' = [order EXCEPT ![h] = "pending"]
    /\ seat' = [s \in Seats |-> IF s \in mine[h] THEN Reserved(h) ELSE seat[s]]

CommitOrder(h) ==
    /\ pc[h] = "commit"
    /\ Committing(h)
    /\ mine' = [mine EXCEPT ![h] = {}]
    /\ Goto(h, "remember")
    /\ UNCHANGED <<hold, idem, tickets, seen, pos, clash, answer, stripe, known, webhooks, faults>>

\* A slip: a COMMIT that throws is taken for one that was applied.
CommitErrorIgnored(h) ==
    /\ pc[h] = "commit"
    /\ Fault
    /\ mine' = [mine EXCEPT ![h] = {}]
    /\ Goto(h, "remember")
    /\ UNCHANGED <<hold, idem, database, pos, clash, answer, stripe, known, webhooks>>

\* The connection breaks under COMMIT: it may or may not have been applied,
\* and the handler answers 422 in both cases.
CommitBroken(h) ==
    /\ pc[h] = "commit"
    /\ Committing(h) \/ UNCHANGED <<order, seat>>
    /\ Fault
    /\ Answer(h, 422)
    /\ UNCHANGED <<hold, idem, tickets, seen, pos, clash, stripe, known, webhooks>>

\* idemStore.commit stores the response for replay.
RememberOrder(h) ==
    /\ pc[h] = "remember"
    /\ SetIfPresent(Ask[h].key, h)
    /\ Goto(h, "reply")
    /\ UNCHANGED <<hold, database, pos, clash, mine, answer, stripe, known, webhooks, faults>>

\* Redis fails there, before or after the SET: the catch answers 422 for an
\* order that is committed.
RememberFails(h) ==
    /\ pc[h] = "remember"
    /\ SetIfPresent(Ask[h].key, h) \/ UNCHANGED idem
    /\ Fault
    /\ Answer(h, 422)
    /\ UNCHANGED <<hold, database, pos, clash, stripe, known, webhooks>>

AnswerCreated(h) ==
    /\ pc[h] = "reply"
    /\ known' = known \cup {h}
    /\ Answer(h, 201)
    /\ UNCHANGED <<hold, idem, database, pos, clash, stripe, webhooks, faults>>

\* The API process dies, or Redis fails under begin (500): Postgres rolls the
\* open transaction back, the idempotency record and a payment intent stay.
CrashOrder(h) ==
    /\ pc[h] \in Running
    /\ Fault
    /\ Answer(h, 0)
    /\ UNCHANGED <<hold, idem, database, pos, clash, stripe, known, webhooks>>

OrderStep(h) ==
    \/ ReadRecord(h) \/ AnswerInProgress(h) \/ AnswerCached(h)
    \/ RefuseToken(h) \/ VerifyUnavailable(h) \/ VerifySeat(h)
    \/ OpenTransaction(h) \/ ReserveSeat(h) \/ SeatGone(h) \/ DeadlockAbort(h)
    \/ CreateIntent(h) \/ CommitOrder(h) \/ RememberOrder(h) \/ AnswerCreated(h)

OrderFault(h) ==
    TransactionFails(h) \/ CommitBroken(h) \/ RememberFails(h) \/ CrashOrder(h)
==============================================================================
