--------------------------- MODULE PaymentWebhook ---------------------------
(***************************************************************************)
(* POST /v1/payments/webhook/stripe: one step per statement that can wait  *)
(* or fail.  The dedupe row, the order, the seats and the tickets are      *)
(* written in one Postgres transaction (the inner BEGIN and COMMIT act on  *)
(* the transaction withTenant opened).  Several workers may handle the     *)
(* same event, or events of the same order, at once.                       *)
(***************************************************************************)
EXTENDS CheckoutState

CONSTANTS
    Workers,      \* bound: webhook requests handled at once
    PlainTables   \* what the unqualified table names of the handler may reach

\* The handler reads `orders` and writes `stripe_events` without a schema.  With
\* packages/migrations/sql/0001_core.sql applied both are in public, and nothing
\* writes public.orders; without it both are missing and the statement throws;
\* with a search_path that has the schema orders first, `orders` is orders.orders.
ASSUME PlainTablesTyped == PlainTables \subseteq {"public", "missing", "orders"}

EventOf(w) == wevent[w]
OrderOf(w) == wevent[w].order

\* The worker's transaction is over: the reply is yet to reach Stripe.
ReplyOk(w) == wpc' = [wpc EXCEPT ![w] = "reply"] /\ UNCHANGED wevent

Idle(w) ==
    /\ wpc' = [wpc EXCEPT ![w] = "idle"]
    /\ wevent' = [wevent EXCEPT ![w] = NoEvent]

\* Stripe posts an event it has no 2xx for; it may be posting it already.
Deliver(w, e) ==
    /\ wpc[w] = "idle"
    /\ e \in due
    /\ wpc' = [wpc EXCEPT ![w] = "dedupe"]
    /\ wevent' = [wevent EXCEPT ![w] = e]
    /\ UNCHANGED <<hold, idem, database, handlers, stripe, known, faults>>

\* Another open transaction has inserted the same event id: the INSERT waits.
DedupeBlocked(w) ==
    \E v \in Workers \ {w} :
        wpc[v] \in {"select", "update", "write"} /\ wevent[v] = wevent[w]

\* A slip: the dedupe row is committed before the event is acted on.
DedupeCommitsFirst(w) ==
    /\ wpc[w] = "dedupe"
    /\ ~DedupeBlocked(w)
    /\ seen' = seen \cup {EventOf(w)}
    /\ IF EventOf(w) \in seen
       THEN ReplyOk(w)
       ELSE wpc' = [wpc EXCEPT ![w] = "select"] /\ UNCHANGED wevent
    /\ UNCHANGED <<hold, idem, seat, order, tickets, handlers, stripe, known, faults>>

\* INSERT INTO webhook_events ... ON CONFLICT DO NOTHING.
Dedupe(w) ==
    /\ wpc[w] = "dedupe"
    /\ ~DedupeBlocked(w)
    /\ IF EventOf(w) \in seen
       THEN ReplyOk(w)
       ELSE wpc' = [wpc EXCEPT ![w] = "select"] /\ UNCHANGED wevent
    /\ UNCHANGED <<hold, idem, database, handlers, stripe, known, faults>>

\* payment_intent.succeeded: SELECT the order.  No order, or one confirmed
\* already: ROLLBACK, which takes the dedupe row with it, and 200.
SelectForSuccess(w) ==
    /\ wpc[w] = "select"
    /\ EventOf(w).kind = "succeeded"
    /\ IF order[OrderOf(w)] \in {"none", "confirmed"}
       THEN ReplyOk(w)
       ELSE wpc' = [wpc EXCEPT ![w] = "update"] /\ UNCHANGED wevent
    /\ UNCHANGED <<hold, idem, database, handlers, stripe, known, faults>>

Failure(e) == e.kind \in {"failed", "canceled"}

\* payment_failed and canceled: SELECT from the unqualified table orders finds
\* the order only if that is orders.orders.
SelectForFailure(w) ==
    /\ wpc[w] = "select"
    /\ Failure(EventOf(w))
    /\ "orders" \in PlainTables
    /\ order[OrderOf(w)] # "none"
    /\ wpc' = [wpc EXCEPT ![w] = "update"]
    /\ UNCHANGED <<hold, idem, database, handlers, stripe, known, wevent, faults>>

\* An order that is not found there leaves only the dedupe row behind: COMMIT, 200.
FailureFindsNoOrder(w) ==
    /\ wpc[w] = "select"
    /\ Failure(EventOf(w))
    /\ \/ "public" \in PlainTables
       \/ "orders" \in PlainTables /\ order[OrderOf(w)] = "none"
    /\ ReplyOk(w)
    /\ seen' = seen \cup {EventOf(w)}
    /\ UNCHANGED <<hold, idem, seat, order, tickets, handlers, stripe, known, faults>>

\* The table is missing: the SELECT of a failure, or the INSERT into
\* stripe_events at the end of a success, throws.  ROLLBACK, and 500.
PlainTableMissing(w) ==
    /\ "missing" \in PlainTables
    /\ \/ wpc[w] = "select" /\ Failure(EventOf(w))
       \/ wpc[w] = "write" /\ EventOf(w).kind = "succeeded"
    /\ Idle(w)
    /\ UNCHANGED <<hold, idem, database, handlers, stripe, known, faults>>

\* UPDATE orders.orders: waits for the row lock of another worker.
LockOrder(w) ==
    /\ wpc[w] = "update"
    /\ \A v \in Workers \ {w} : ~(wpc[v] = "write" /\ OrderOf(v) = OrderOf(w))
    /\ wpc' = [wpc EXCEPT ![w] = "write"]
    /\ UNCHANGED <<hold, idem, database, handlers, stripe, known, wevent, faults>>

\* The order's reserved seats become sold, a ticket is inserted for every sold
\* seat of the order that has none, stripe_events gets its row, and everything
\* commits.
ConfirmOrder(w) ==
    LET o == OrderOf(w)
        sold == {s \in Seats : seat[s] \in {Reserved(o), Sold(o)}}
    IN  /\ wpc[w] = "write"
        /\ EventOf(w).kind = "succeeded"
        /\ PlainTables \ {"missing"} # {}
        /\ order' = [order EXCEPT ![o] = "confirmed"]
        /\ seat' = [s \in Seats |-> IF s \in sold THEN Sold(o) ELSE seat[s]]
        /\ tickets' = [o2 \in Handlers |-> [s \in Seats |->
              IF o2 = o /\ s \in sold /\ tickets[o][s] = 0 THEN 1 ELSE tickets[o2][s]]]
        /\ seen' = seen \cup {EventOf(w)}
        /\ ReplyOk(w)
        /\ UNCHANGED <<hold, idem, handlers, stripe, known, faults>>

\* Slips: seats are not given back; sold seats are given back too.
FailKeepsSeats(w) ==
    /\ wpc[w] = "write"
    /\ Failure(EventOf(w))
    /\ order' = [order EXCEPT ![OrderOf(w)] = "failed"]
    /\ seen' = seen \cup {EventOf(w)}
    /\ ReplyOk(w)
    /\ UNCHANGED <<hold, idem, seat, tickets, handlers, stripe, known, faults>>
FailFreesSold(w) ==
    /\ wpc[w] = "write"
    /\ Failure(EventOf(w))
    /\ order' = [order EXCEPT ![OrderOf(w)] = "failed"]
    /\ seat' = [s \in Seats |-> IF seat[s].order = OrderOf(w) THEN Available ELSE seat[s]]
    /\ seen' = seen \cup {EventOf(w)}
    /\ ReplyOk(w)
    /\ UNCHANGED <<hold, idem, tickets, handlers, stripe, known, faults>>

\* The order is marked failed, whatever its status, and its reserved seats
\* become available again.
FailOrder(w) ==
    LET o == OrderOf(w)
    IN  /\ wpc[w] = "write"
        /\ Failure(EventOf(w))
        /\ order' = [order EXCEPT ![o] = "failed"]
        /\ seat' = [s \in Seats |-> IF seat[s] = Reserved(o) THEN Available ELSE seat[s]]
        /\ seen' = seen \cup {EventOf(w)}
        /\ ReplyOk(w)
        /\ UNCHANGED <<hold, idem, tickets, handlers, stripe, known, faults>>

\* The 200 reaches Stripe.
Acknowledge(w) ==
    /\ wpc[w] = "reply"
    /\ due' = due \ {EventOf(w)}
    /\ Idle(w)
    /\ UNCHANGED <<hold, idem, database, handlers, intent, declined, known, faults>>

\* A statement fails or the process dies (500 or nothing at all, and the open
\* transaction is rolled back), or the 200 is lost: the event stays due.
WebhookFails(w) ==
    /\ wpc[w] # "idle"
    /\ Fault
    /\ Idle(w)
    /\ UNCHANGED <<hold, idem, database, handlers, stripe, known>>

WorkerStep(w) ==
    \/ Dedupe(w)
    \/ SelectForSuccess(w)
    \/ SelectForFailure(w)
    \/ FailureFindsNoOrder(w)
    \/ PlainTableMissing(w)
    \/ LockOrder(w)
    \/ ConfirmOrder(w)
    \/ FailOrder(w)
    \/ Acknowledge(w)
==============================================================================
