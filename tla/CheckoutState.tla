---------------------------- MODULE CheckoutState ----------------------------
(***************************************************************************)
(* The state order creation and the payment webhook share: the Redis holds *)
(* (as leases), the idempotency records, the Postgres tables and Stripe's  *)
(* payment intents.  Table variables hold committed rows; what an open     *)
(* transaction has written is in the variables of the handler that runs it.*)
(*                                                                         *)
(* Each handler of POST /v1/orders creates at most one order and one       *)
(* payment intent, so a handler also names its order and its intent.       *)
(***************************************************************************)
EXTENDS SeatLease, IdemStore, Sequences, FiniteSets

CONSTANTS
    Handlers,    \* bound: executions of POST /v1/orders in a behaviour
    Ask,         \* Ask[h]: the request handler h serves
    NoOrder,     \* the order_id of a seat that has none (NULL)
    NoToken,     \* a request without a usable X-Seat-Hold-Token
    MaxFaults,   \* bound: crashes, lost replies and failed commits
    MaxDeclines  \* bound: declined card attempts per payment intent

\* seats in the order the client listed them, the hold token it presents, its
\* idempotency key and its X-Request-ID.
OrderRequest ==
    [seats : Seq(Seats), token : Token \cup {NoToken}, key : Keys, id : RequestIds]

ASSUME AskTyped ==
    /\ Ask \in [Handlers -> OrderRequest]
    /\ \A h \in Handlers : Len(Ask[h].seats) > 0
ASSUME NoOrderIsNoHandler == NoOrder \notin Handlers
ASSUME NoTokenIsNoToken == NoToken \notin Token
ASSUME CheckoutBounds == MaxFaults \in Nat /\ MaxDeclines \in Nat
\* The order a stored response describes.
ASSUME ResponsesAreOrders == Responses = Handlers

VARIABLES
    seat,      \* inventory.seat_state: [state, order] of each seat
    order,     \* orders.orders: the committed status of each order
    tickets,   \* ticketing.tickets: how many rows an order has for a seat
    seen,      \* payments.webhook_events: committed event ids
    pc,        \* where each order handler is
    pos,       \* the seat a handler is at, in the order the client listed them
    clash,     \* whether a handler met a seat that is not its buyer's
    mine,      \* seat rows a handler's open transaction has updated (locked)
    answer,    \* the status code a handler answered with
    intent,    \* Stripe: the payment intent created for an order
    declined,  \* Stripe: card attempts declined on an intent so far
    known,     \* orders whose client_secret reached a client
    due,       \* Stripe: events not yet acknowledged with a 2xx
    wpc,       \* where each webhook worker is
    wevent,    \* the event a webhook worker is handling
    faults     \* faults so far

database == <<seat, order, tickets, seen>>
handlers == <<pc, pos, clash, mine, answer>>
stripe == <<intent, declined, due>>
webhooks == <<wpc, wevent>>

Row == [state : {"available", "reserved", "sold"}, order : Handlers \cup {NoOrder}]
Available == [state |-> "available", order |-> NoOrder]
Reserved(o) == [state |-> "reserved", order |-> o]
Sold(o) == [state |-> "sold", order |-> o]

SeatsOf(h) == {Ask[h].seats[i] : i \in 1..Len(Ask[h].seats)}

Event ==
    [kind : {"succeeded", "canceled"}, order : Handlers, n : {0}]
    \cup [kind : {"failed"}, order : Handlers, n : 1..MaxDeclines]

\* What a webhook worker that handles no event is at.
NoEvent == [kind |-> "none", order |-> NoOrder, n |-> 0]

\* One more of the faults the bound allows.
Fault == faults < MaxFaults /\ faults' = faults + 1
==============================================================================
