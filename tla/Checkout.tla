------------------------------ MODULE Checkout ------------------------------
(***************************************************************************)
(* The checkout path as a whole: POST /v1/orders and the payment webhook   *)
(* over one database, buyers who hold seats and pay, Stripe, which emits   *)
(* and redelivers events in any order, and time, which expires holds and   *)
(* idempotency records.  Nothing in the repository releases the seats of   *)
(* an order that is never paid, and nothing here does.                     *)
(***************************************************************************)
EXTENDS CreateOrder, PaymentWebhook

vars == <<hold, idem, database, handlers, stripe, known, webhooks, faults>>

------------------------------------------------------------------------------
(* Buyers, time and Stripe *)

\* POST /v1/holds by the buyer of request h; the lease is SeatLocks' promise.
HoldSeats(h) ==
    /\ pc[h] \in {"idle"} \cup Running
    /\ Ask[h].token # NoToken
    /\ Grant(SeatsOf(h), Ask[h].token)
    /\ UNCHANGED <<idem, database, handlers, stripe, known, webhooks, faults>>

\* A hold is released or runs out.
EndHold(s) ==
    /\ hold[s] # Free
    /\ End({s})
    /\ UNCHANGED <<idem, database, handlers, stripe, known, webhooks, faults>>

\* 180 s pass under an in-progress record, or 24 h under a committed one.
ExpireRecord(k) ==
    /\ ExpireKey(k)
    /\ UNCHANGED <<hold, database, handlers, stripe, known, webhooks, faults>>

\* The card is declined: the intent stays open and may be tried again.
DeclineCard(o) ==
    /\ intent[o] = "open" /\ o \in known
    /\ declined[o] < MaxDeclines
    /\ declined' = [declined EXCEPT ![o] = @ + 1]
    /\ due' = due \cup {[kind |-> "failed", order |-> o, n |-> declined[o] + 1]}
    /\ UNCHANGED <<hold, idem, database, handlers, intent, known, webhooks, faults>>

ChargeCard(o) ==
    /\ intent[o] = "open" /\ o \in known
    /\ intent' = [intent EXCEPT ![o] = "succeeded"]
    /\ due' = due \cup {[kind |-> "succeeded", order |-> o, n |-> 0]}
    /\ UNCHANGED <<hold, idem, database, handlers, declined, known, webhooks, faults>>

\* The intent is canceled on Stripe's side, an orphaned one too.
CancelIntent(o) ==
    /\ intent[o] = "open"
    /\ intent' = [intent EXCEPT ![o] = "canceled"]
    /\ due' = due \cup {[kind |-> "canceled", order |-> o, n |-> 0]}
    /\ UNCHANGED <<hold, idem, database, handlers, declined, known, webhooks, faults>>

------------------------------------------------------------------------------
Init ==
    /\ LeaseInit
    /\ IdemInit
    /\ seat = [s \in Seats |-> Available]
    /\ order = [h \in Handlers |-> "none"]
    /\ tickets = [h \in Handlers |-> [s \in Seats |-> 0]]
    /\ seen = {}
    /\ pc = [h \in Handlers |-> "idle"]
    /\ pos = [h \in Handlers |-> 1]
    /\ clash = [h \in Handlers |-> FALSE]
    /\ mine = [h \in Handlers |-> {}]
    /\ answer = [h \in Handlers |-> 0]
    /\ intent = [h \in Handlers |-> "none"]
    /\ declined = [h \in Handlers |-> 0]
    /\ known = {}
    /\ due = {}
    /\ wpc = [w \in Workers |-> "idle"]
    /\ wevent = [w \in Workers |-> NoEvent]
    /\ faults = 0

Next ==
    \/ \E h \in Handlers :
          \/ BeginOrder(h)
          \/ OrderStep(h)
          \/ OrderFault(h)
          \/ HoldSeats(h)
          \/ DeclineCard(h)
          \/ ChargeCard(h)
          \/ CancelIntent(h)
    \/ \E w \in Workers :
          \/ \E e \in due : Deliver(w, e)
          \/ WorkerStep(w)
          \/ WebhookFails(w)
    \/ \E s \in Seats : EndHold(s)
    \/ \E k \in Keys : ExpireRecord(k)

Spec == Init /\ [][Next]_vars

\* A handler that runs takes its next step (awaits settle, Postgres resolves
\* deadlocks), a webhook worker too, and Stripe redelivers an event until it
\* is acknowledged.  Buyers owe nothing, and nothing has to fail or expire.
Fairness ==
    /\ \A h \in Handlers : WF_vars(OrderStep(h))
    /\ \A w \in Workers : WF_vars(WorkerStep(w))
    /\ \A e \in Event : WF_vars(\E w \in Workers : Deliver(w, e))

FairSpec == Spec /\ Fairness

------------------------------------------------------------------------------
(* Properties *)

\* Every variable keeps to the values the handlers, the schema and Stripe use.
TypeOK ==
    /\ hold \in [Seats -> Token \cup {Free}]
    /\ idem \in [Keys -> IdemRecord]
    /\ seat \in [Seats -> Row]
    /\ order \in [Handlers -> {"none", "pending", "confirmed", "failed"}]
    /\ tickets \in [Handlers -> [Seats -> Nat]]
    /\ seen \in SUBSET Event
    /\ pc \in [Handlers -> Running \cup {"idle", "done"}]
    /\ \A h \in Handlers : pos[h] \in 1..Len(Ask[h].seats)
    /\ clash \in [Handlers -> BOOLEAN]
    /\ mine \in [Handlers -> SUBSET Seats]
    /\ answer \in [Handlers -> {0, 201, 202, 409, 412, 422, 503}]
    /\ intent \in [Handlers -> {"none", "open", "succeeded", "canceled"}]
    /\ declined \in [Handlers -> 0..MaxDeclines]
    /\ known \in SUBSET Handlers
    /\ due \in SUBSET Event
    /\ wpc \in [Workers -> {"idle", "dedupe", "select", "update", "write", "reply"}]
    /\ wevent \in [Workers -> Event \cup {NoEvent}]
    /\ faults \in 0..MaxFaults

\* No oversell: whatever the interleaving of orders and redelivered or
\* reordered events, a seat has at most one ticket, and it is the ticket of
\* the order the seat is sold to.
OneTicketPerSeat ==
    \A s \in Seats :
        /\ \A o \in Handlers : tickets[o][s] > 0 => tickets[o][s] = 1 /\ seat[s] = Sold(o)
        /\ \A o \in Handlers : seat[s] = Sold(o) => tickets[o][s] = 1

\* An order awaiting payment has exactly the seats it asked for, all of them
\* reserved for it, and no other order has a seat reserved.
PendingOwnsItsSeats ==
    \A o \in Handlers :
        LET reserved == {s \in Seats : seat[s] = Reserved(o)}
        IN  IF order[o] = "pending" THEN reserved = SeatsOf(o) ELSE reserved = {}

\* Of the requests that share an idempotency key at most one has an order that
\* is or can still be paid for, however often the record expired, a request
\* crashed or a client repeated itself.
OneLiveOrderPerKey ==
    \A g, h \in Handlers :
        /\ g # h /\ Ask[g].key = Ask[h].key
        /\ declined[g] = 0 /\ declined[h] = 0
        => ~(order[g] \in {"pending", "confirmed"} /\ order[h] \in {"pending", "confirmed"})

\* What a client is told is true: an order is answered 201, or replayed, only
\* when it is committed with an open or settled payment intent behind it.
AnswersAreCommitted ==
    \A o \in known : order[o] # "none" /\ intent[o] # "none"

\* Every order request that began is answered (or its process died): awaited
\* row locks are granted in the end, and no circle of waiting lasts.
RequestsAnswered == \A h \in Handlers : pc[h] \in Running ~> pc[h] = "done"

\* Every charge on an intent whose card was never declined ends in a confirmed
\* order with a ticket for each of its seats, whatever deliveries were lost,
\* repeated or failed half-way, and stays so.
ChargesTicketed ==
    \A o \in Handlers :
        intent[o] = "succeeded" /\ declined[o] = 0 ~>
            [](order[o] = "confirmed" /\ \A s \in SeatsOf(o) : tickets[o][s] = 1)

\* Checkout implements the seat lifecycle.
Lifecycle == INSTANCE SeatLifecycle WITH Orders <- Handlers
ImplementsLifecycle == Lifecycle!LifecycleSpec
==============================================================================
