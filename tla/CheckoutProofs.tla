--------------------------- MODULE CheckoutProofs ---------------------------
(***************************************************************************)
(* Theorems about Checkout for every set of handlers, workers, seats, keys *)
(* and requests, and every bound on faults and declines.                   *)
(*                                                                         *)
(* The argument: IInv is inductive.  Besides the types it says what a      *)
(* handler has done when it is at a step (Progress), that the rows of open *)
(* transactions are available and disjoint (LockedRowsAreAvailable), that  *)
(* an event tells the truth about its intent (EventsAreTrue), and what the *)
(* status of an order says about its intent and its seats                  *)
(* (StatusIsBacked).  DatabaseEffect reduces a step of the whole system to *)
(* what it does to the tables: one commit of an order, one commit of a     *)
(* webhook transaction, or nothing.                                        *)
(***************************************************************************)
EXTENDS Checkout, TLAPS

\* The first n seats of a request.
Prefix(h, n) == {Ask[h].seats[i] : i \in 1..n}

\* A row is available, or reserved for or sold to one order.
RowsHaveOneOrder ==
    \A s \in Seats :
        seat[s] = Available \/ \E o \in Handlers : seat[s] \in {Reserved(o), Sold(o)}

\* A row an open transaction has updated is available to everybody else, and
\* no other transaction has updated it.
LockedRowsAreAvailable ==
    \A h \in Handlers : \A s \in mine[h] :
        seat[s] = Available /\ \A g \in Handlers \ {h} : s \notin mine[g]

\* Where a handler is tells what it has done: the rows it has locked, whether
\* its intent exists and whether its order is committed.
ProgressOf(h) ==
    /\ pc[h] = "open" => pos[h] = 1
    /\ pc[h] = "reserve" => mine[h] = Prefix(h, pos[h] - 1)
    /\ pc[h] \in {"intent", "commit"} => mine[h] = SeatsOf(h)
    /\ pc[h] \notin {"reserve", "intent", "commit"} => mine[h] = {}
    /\ pc[h] \in {"idle", "get", "verify", "open", "reserve", "intent"} => intent[h] = "none"
    /\ pc[h] \in {"idle", "get", "verify", "open", "reserve", "intent", "commit"} =>
          order[h] = "none"
    /\ pc[h] \in {"commit", "remember", "reply"} => intent[h] # "none"
    /\ pc[h] \in {"remember", "reply"} => order[h] # "none"

Progress == \A h \in Handlers : ProgressOf(h)

\* Stripe tells the truth about the intent an event is about.
EventTrue(e) ==
    /\ e.kind = "succeeded" => intent[e.order] = "succeeded"
    /\ e.kind = "canceled" => intent[e.order] = "canceled"
    /\ e.kind = "failed" => declined[e.order] > 0

\* Events to deliver and events being handled are true, and a worker that is
\* about to write has found the order.
EventsAreTrue ==
    /\ \A e \in due : EventTrue(e)
    /\ \A w \in Workers :
          /\ wpc[w] # "idle" => wevent[w] \in Event /\ EventTrue(wevent[w])
          /\ wpc[w] \in {"update", "write"} => order[OrderOf(w)] # "none"

\* What the status of an order says about its intent and its seats.
StatusOf(o) ==
    /\ order[o] = "confirmed" => intent[o] = "succeeded"
    /\ order[o] = "failed" => declined[o] > 0 \/ intent[o] = "canceled"
    /\ order[o] \in {"none", "pending"} => \A s \in Seats : seat[s] # Sold(o)
    /\ order[o] = "confirmed" /\ declined[o] = 0 => \A s \in SeatsOf(o) : seat[s] = Sold(o)

StatusIsBacked == \A o \in Handlers : StatusOf(o)

\* A stored response describes an order that is committed.
StoredOrdersAreCommitted ==
    \A k \in Keys, o \in Handlers :
        idem[k] = Committed(o) => order[o] # "none" /\ intent[o] # "none"

IInv ==
    /\ TypeOK
    /\ pos \in [Handlers -> Nat]
    /\ RowsHaveOneOrder
    /\ LockedRowsAreAvailable
    /\ Progress
    /\ EventsAreTrue
    /\ StatusIsBacked
    /\ PendingOwnsItsSeats
    /\ OneTicketPerSeat
    /\ StoredOrdersAreCommitted
    /\ AnswersAreCommitted

------------------------------------------------------------------------------
(* Requests and rows *)

\* A request lists seats; its prefixes grow seat by seat.
LEMMA RequestFacts ==
    ASSUME NEW h \in Handlers
    PROVE  /\ Len(Ask[h].seats) \in Nat \ {0}
           /\ \A i \in 1..Len(Ask[h].seats) : Ask[h].seats[i] \in Seats
           /\ Ask[h].key \in Keys
           /\ Ask[h].id \in RequestIds
           /\ SeatsOf(h) \in SUBSET Seats
           /\ Prefix(h, 0) = {}
           /\ \A n \in 1..Len(Ask[h].seats) :
                 Prefix(h, n) = Prefix(h, n - 1) \cup {Ask[h].seats[n]}
           /\ Prefix(h, Len(Ask[h].seats)) = SeatsOf(h)
<1>1. Ask[h] \in OrderRequest
  BY AskTyped
<1>2. Ask[h].seats \in Seq(Seats) /\ Ask[h].key \in Keys /\ Ask[h].id \in RequestIds
  BY <1>1 DEF OrderRequest
<1>3. Len(Ask[h].seats) \in Nat \ {0}
  BY <1>2, AskTyped
<1>4. \A i \in 1..Len(Ask[h].seats) : Ask[h].seats[i] \in Seats
  BY <1>2
<1>5. Prefix(h, 0) = {}
  BY DEF Prefix
<1>6. ASSUME NEW n \in 1..Len(Ask[h].seats)
      PROVE  Prefix(h, n) = Prefix(h, n - 1) \cup {Ask[h].seats[n]}
  <2>1. 1..n = (1..(n - 1)) \cup {n}
    BY <1>3
  <2> QED
    BY <2>1 DEF Prefix
<1> QED
  BY <1>2, <1>3, <1>4, <1>5, <1>6 DEF Prefix, SeatsOf

\* A row tells its state and its order.
LEMMA RowFacts ==
    ASSUME NEW o, NEW p
    PROVE  /\ Available # Reserved(o) /\ Available # Sold(o) /\ Reserved(o) # Sold(p)
           /\ Reserved(o) = Reserved(p) => o = p
           /\ Sold(o) = Sold(p) => o = p
           /\ Reserved(o).state # "available" /\ Sold(o).state # "available"
           /\ Available.state = "available"
           /\ Available \in Row
           /\ o \in Handlers => Reserved(o) \in Row /\ Sold(o) \in Row
BY DEF Available, Reserved, Sold, Row

\* An available row is the row of no order.
LEMMA AvailableRow ==
    ASSUME RowsHaveOneOrder, NEW s \in Seats, seat[s].state = "available"
    PROVE  seat[s] = Available
BY RowFacts DEF RowsHaveOneOrder

------------------------------------------------------------------------------
(* What a step of the system does to the tables and to the intents *)

\* Every step commits one order, commits one webhook transaction, or leaves
\* seats, orders and tickets alone.
LEMMA DatabaseEffect ==
    ASSUME [Next]_vars
    PROVE  \/ \E h \in Handlers : pc[h] = "commit" /\ Committing(h) /\ UNCHANGED tickets
           \/ \E w \in Workers : ConfirmOrder(w) \/ FailOrder(w)
           \/ UNCHANGED <<seat, order, tickets>>
<1>1. ASSUME NEW h \in Handlers, OrderStep(h) \/ OrderFault(h)
      PROVE  \/ pc[h] = "commit" /\ Committing(h) /\ UNCHANGED tickets
             \/ UNCHANGED <<seat, order, tickets>>
  <2>1. CASE CommitOrder(h) \/ CommitBroken(h)
    BY <2>1 DEF CommitOrder, CommitBroken
  <2>2. CASE \/ ReadRecord(h) \/ AnswerInProgress(h) \/ AnswerCached(h)
             \/ RefuseToken(h) \/ VerifyUnavailable(h) \/ VerifySeat(h)
             \/ OpenTransaction(h) \/ ReserveSeat(h) \/ SeatGone(h)
             \/ DeadlockAbort(h) \/ CreateIntent(h) \/ RememberOrder(h)
             \/ AnswerCreated(h)
    BY <2>2
    DEF ReadRecord, AnswerInProgress, AnswerCached, RefuseToken, VerifyUnavailable,
        VerifySeat, OpenTransaction, ReserveSeat, SeatGone, DeadlockAbort,
        CreateIntent, RememberOrder, AnswerCreated, database
  <2>3. CASE TransactionFails(h) \/ RememberFails(h) \/ CrashOrder(h)
    BY <2>3 DEF TransactionFails, RememberFails, CrashOrder, database
  <2> QED
    BY <1>1, <2>1, <2>2, <2>3 DEF OrderStep, OrderFault
<1>2. ASSUME NEW h \in Handlers,
             \/ BeginOrder(h) \/ HoldSeats(h)
             \/ DeclineCard(h) \/ ChargeCard(h) \/ CancelIntent(h)
      PROVE  UNCHANGED <<seat, order, tickets>>
  BY <1>2 DEF BeginOrder, HoldSeats, DeclineCard, ChargeCard, CancelIntent, database
<1>3. ASSUME NEW w \in Workers,
             (\E e \in due : Deliver(w, e)) \/ WorkerStep(w) \/ WebhookFails(w)
      PROVE  \/ ConfirmOrder(w) \/ FailOrder(w)
             \/ UNCHANGED <<seat, order, tickets>>
  BY <1>3
  DEF Deliver, WorkerStep, WebhookFails, Dedupe, SelectForSuccess, SelectForFailure, FailureFindsNoOrder,
        PlainTableMissing, Failure,
      LockOrder, Acknowledge, database
<1>4. CASE (\E s \in Seats : EndHold(s)) \/ (\E k \in Keys : ExpireRecord(k))
  BY <1>4 DEF EndHold, ExpireRecord, database
<1>5. CASE UNCHANGED vars
  BY <1>5 DEF vars, database
<1> QED
  BY <1>1, <1>2, <1>3, <1>4, <1>5 DEF Next

\* An order that is committed is never forgotten.
LEMMA OrdersStay ==
    ASSUME IInv, [Next]_vars, NEW o \in Handlers, order[o] # "none"
    PROVE  order'[o] # "none"
<1>1. order \in [Handlers -> {"none", "pending", "confirmed", "failed"}]
  BY DEF IInv, TypeOK
<1> QED
  BY <1>1, DatabaseEffect DEF Committing, ConfirmOrder, FailOrder

\* An intent is created once, a settled one stays as it is, and the count of
\* declines only grows.
LEMMA IntentsStay ==
    ASSUME IInv, [Next]_vars
    PROVE  /\ intent' \in [Handlers -> {"none", "open", "succeeded", "canceled"}]
           /\ declined' \in [Handlers -> 0..MaxDeclines]
           /\ \A o \in Handlers :
                 /\ intent[o] # "none" => intent'[o] # "none"
                 /\ intent[o] \in {"succeeded", "canceled"} => intent'[o] = intent[o]
                 /\ declined[o] > 0 => declined'[o] > 0
<1> DEFINE Goal ==
             /\ intent' \in [Handlers -> {"none", "open", "succeeded", "canceled"}]
             /\ declined' \in [Handlers -> 0..MaxDeclines]
             /\ \A o \in Handlers :
                   /\ intent[o] # "none" => intent'[o] # "none"
                   /\ intent[o] \in {"succeeded", "canceled"} => intent'[o] = intent[o]
                   /\ declined[o] > 0 => declined'[o] > 0
<1>0. /\ intent \in [Handlers -> {"none", "open", "succeeded", "canceled"}]
      /\ declined \in [Handlers -> 0..MaxDeclines]
      /\ \A h \in Handlers : pc[h] = "intent" => intent[h] = "none"
      /\ MaxDeclines \in Nat
  BY CheckoutBounds DEF IInv, TypeOK, Progress, ProgressOf
<1> SUFFICES Goal
  OBVIOUS
<1> USE <1>0
<1>1. ASSUME NEW h \in Handlers, CreateIntent(h) \/ TransactionFails(h)
      PROVE  Goal
  BY <1>1 DEF CreateIntent, TransactionFails
<1>2. ASSUME NEW h \in Handlers, DeclineCard(h) \/ ChargeCard(h) \/ CancelIntent(h)
      PROVE  Goal
  BY <1>2 DEF DeclineCard, ChargeCard, CancelIntent
<1>3. ASSUME NEW h \in Handlers,
             \/ BeginOrder(h) \/ HoldSeats(h)
             \/ OrderStep(h) /\ ~CreateIntent(h)
             \/ OrderFault(h) /\ ~TransactionFails(h)
      PROVE  Goal
  <2>1. UNCHANGED <<intent, declined>>
    BY <1>3
    DEF BeginOrder, HoldSeats, OrderStep, OrderFault, ReadRecord, AnswerInProgress,
        AnswerCached, RefuseToken, VerifyUnavailable, VerifySeat, OpenTransaction,
        ReserveSeat, SeatGone, DeadlockAbort, CommitOrder, RememberOrder,
        AnswerCreated, CommitBroken, RememberFails, CrashOrder, stripe
  <2> QED
    BY <2>1
<1>4. ASSUME NEW w \in Workers,
             (\E e \in due : Deliver(w, e)) \/ WorkerStep(w) \/ WebhookFails(w)
      PROVE  Goal
  <2>1. UNCHANGED <<intent, declined>>
    BY <1>4
    DEF Deliver, WorkerStep, WebhookFails, Dedupe, SelectForSuccess, SelectForFailure, FailureFindsNoOrder,
        PlainTableMissing, Failure,
        LockOrder, ConfirmOrder, FailOrder, Acknowledge, stripe
  <2> QED
    BY <2>1
<1>5. CASE \/ \E s \in Seats : EndHold(s)
           \/ \E k \in Keys : ExpireRecord(k)
           \/ UNCHANGED vars
  <2>1. UNCHANGED <<intent, declined>>
    BY <1>5 DEF EndHold, ExpireRecord, vars, stripe
  <2> QED
    BY <2>1
<1> QED
  BY <1>1, <1>2, <1>3, <1>4, <1>5 DEF Next

------------------------------------------------------------------------------
(* The tables *)

\* What the commit of order h finds: its rows are those it locked, and no row
\* and no ticket is the order's yet.
LEMMA CommitPoint ==
    ASSUME IInv, NEW h \in Handlers, pc[h] = "commit"
    PROVE  /\ mine[h] = SeatsOf(h)
           /\ SeatsOf(h) \in SUBSET Seats
           /\ order[h] = "none"
           /\ intent[h] # "none"
           /\ \A s \in SeatsOf(h) : seat[s] = Available
           /\ \A s \in Seats : seat[s] # Reserved(h) /\ seat[s] # Sold(h)
<1>1. mine[h] = SeatsOf(h) /\ order[h] = "none" /\ intent[h] # "none"
  BY DEF IInv, Progress, ProgressOf
<1>2. SeatsOf(h) \in SUBSET Seats
  BY RequestFacts
<1>3. \A s \in SeatsOf(h) : seat[s] = Available
  BY <1>1 DEF IInv, LockedRowsAreAvailable
<1>4. \A s \in Seats : seat[s] # Reserved(h)
  BY <1>1 DEF IInv, PendingOwnsItsSeats
<1>5. \A s \in Seats : seat[s] # Sold(h)
  BY <1>1 DEF IInv, StatusIsBacked, StatusOf
<1> QED
  BY <1>1, <1>2, <1>3, <1>4, <1>5

\* What a worker that writes finds: the order it read, and an event that is
\* true of the order's intent.
LEMMA WritePoint ==
    ASSUME IInv, NEW w \in Workers, wpc[w] = "write"
    PROVE  /\ wevent[w] \in Event
           /\ OrderOf(w) \in Handlers
           /\ order[OrderOf(w)] \in {"pending", "confirmed", "failed"}
           /\ EventTrue(wevent[w])
<1>1. wevent[w] \in Event /\ EventTrue(wevent[w]) /\ order[OrderOf(w)] # "none"
  BY DEF IInv, EventsAreTrue
<1>2. OrderOf(w) \in Handlers
  BY <1>1 DEF OrderOf, Event
<1>3. order \in [Handlers -> {"none", "pending", "confirmed", "failed"}]
  BY DEF IInv, TypeOK
<1> QED
  BY <1>1, <1>2, <1>3

\* The rows keep to one order each, in every kind of commit.
LEMMA RowsStep ==
    ASSUME IInv, [Next]_vars
    PROVE  /\ seat' \in [Seats -> Row]
           /\ RowsHaveOneOrder'
           /\ order' \in [Handlers -> {"none", "pending", "confirmed", "failed"}]
           /\ tickets' \in [Handlers -> [Seats -> Nat]]
<1>0. /\ seat \in [Seats -> Row]
      /\ RowsHaveOneOrder
      /\ order \in [Handlers -> {"none", "pending", "confirmed", "failed"}]
      /\ tickets \in [Handlers -> [Seats -> Nat]]
  BY DEF IInv, TypeOK
<1>1. ASSUME NEW h \in Handlers, Committing(h), UNCHANGED tickets
      PROVE  /\ seat' \in [Seats -> Row]
             /\ RowsHaveOneOrder'
             /\ order' \in [Handlers -> {"none", "pending", "confirmed", "failed"}]
             /\ tickets' \in [Handlers -> [Seats -> Nat]]
  BY <1>0, <1>1, RowFacts DEF Committing, RowsHaveOneOrder
<1>2. ASSUME NEW w \in Workers, ConfirmOrder(w)
      PROVE  /\ seat' \in [Seats -> Row]
             /\ RowsHaveOneOrder'
             /\ order' \in [Handlers -> {"none", "pending", "confirmed", "failed"}]
             /\ tickets' \in [Handlers -> [Seats -> Nat]]
  <2>1. OrderOf(w) \in Handlers
    BY <1>2, WritePoint DEF ConfirmOrder
  <2>2. seat' \in [Seats -> Row] /\ RowsHaveOneOrder'
    BY <1>0, <1>2, <2>1, RowFacts DEF ConfirmOrder, RowsHaveOneOrder
  <2>3. tickets' \in [Handlers -> [Seats -> Nat]]
    BY <1>0, <1>2, <2>1 DEF ConfirmOrder
  <2> QED
    BY <1>0, <1>2, <2>1, <2>2, <2>3 DEF ConfirmOrder
<1>3. ASSUME NEW w \in Workers, FailOrder(w)
      PROVE  /\ seat' \in [Seats -> Row]
             /\ RowsHaveOneOrder'
             /\ order' \in [Handlers -> {"none", "pending", "confirmed", "failed"}]
             /\ tickets' \in [Handlers -> [Seats -> Nat]]
  <2>1. seat' \in [Seats -> Row] /\ RowsHaveOneOrder'
    BY <1>0, <1>3, RowFacts DEF FailOrder, RowsHaveOneOrder
  <2> QED
    BY <1>0, <1>3, <2>1 DEF FailOrder
<1>4. CASE UNCHANGED <<seat, order, tickets>>
  BY <1>0, <1>4 DEF RowsHaveOneOrder
<1> QED
  BY <1>1, <1>2, <1>3, <1>4, DatabaseEffect

\* A pending order keeps exactly its seats.
LEMMA PendingStep ==
    ASSUME IInv, [Next]_vars
    PROVE  PendingOwnsItsSeats'
<1>0. /\ seat \in [Seats -> Row]
      /\ order \in [Handlers -> {"none", "pending", "confirmed", "failed"}]
      /\ RowsHaveOneOrder
      /\ PendingOwnsItsSeats
  BY DEF IInv, TypeOK
<1>1. ASSUME NEW h \in Handlers, pc[h] = "commit", Committing(h)
      PROVE  PendingOwnsItsSeats'
  <2>1. /\ mine[h] = SeatsOf(h) /\ SeatsOf(h) \in SUBSET Seats
        /\ \A s \in SeatsOf(h) : seat[s] = Available
        /\ \A s \in Seats : seat[s] # Reserved(h)
    BY <1>1, CommitPoint
  <2>2. \A s \in Seats : seat'[s] = Reserved(h) <=> s \in SeatsOf(h)
    BY <1>0, <1>1, <2>1 DEF Committing
  <2>3. \A o \in Handlers \ {h} : \A s \in Seats : seat'[s] = Reserved(o) <=> seat[s] = Reserved(o)
    BY <1>0, <1>1, <2>1, RowFacts DEF Committing
  <2> QED
    BY <1>0, <1>1, <2>1, <2>2, <2>3 DEF Committing, PendingOwnsItsSeats
<1>2. ASSUME NEW w \in Workers, ConfirmOrder(w) \/ FailOrder(w)
      PROVE  PendingOwnsItsSeats'
  <2>1. OrderOf(w) \in Handlers
    BY <1>2, WritePoint DEF ConfirmOrder, FailOrder
  <2>2. \A s \in Seats : seat'[s] # Reserved(OrderOf(w))
    BY <1>2, RowFacts DEF ConfirmOrder, FailOrder
  <2>3. \A o \in Handlers \ {OrderOf(w)} : \A s \in Seats :
            seat'[s] = Reserved(o) <=> seat[s] = Reserved(o)
    BY <1>2, RowFacts DEF ConfirmOrder, FailOrder
  <2>4. /\ order'[OrderOf(w)] # "pending"
        /\ \A o \in Handlers \ {OrderOf(w)} : order'[o] = order[o]
    BY <1>0, <1>2, <2>1 DEF ConfirmOrder, FailOrder
  <2> QED
    BY <1>0, <2>1, <2>2, <2>3, <2>4 DEF PendingOwnsItsSeats
<1>3. CASE UNCHANGED <<seat, order, tickets>>
  BY <1>0, <1>3 DEF PendingOwnsItsSeats
<1> QED
  BY <1>1, <1>2, <1>3, DatabaseEffect

\* Tickets stay with the order that bought the seat.
LEMMA TicketStep ==
    ASSUME IInv, [Next]_vars
    PROVE  OneTicketPerSeat'
<1>0. /\ seat \in [Seats -> Row]
      /\ tickets \in [Handlers -> [Seats -> Nat]]
      /\ RowsHaveOneOrder
      /\ OneTicketPerSeat
  BY DEF IInv, TypeOK
<1>1. ASSUME NEW h \in Handlers, pc[h] = "commit", Committing(h), UNCHANGED tickets
      PROVE  OneTicketPerSeat'
  <2>1. /\ mine[h] = SeatsOf(h) /\ SeatsOf(h) \in SUBSET Seats
        /\ \A s \in SeatsOf(h) : seat[s] = Available
    BY <1>1, CommitPoint
  <2>2. \A o \in Handlers : \A s \in Seats : seat'[s] = Sold(o) <=> seat[s] = Sold(o)
    BY <1>1, <2>1, RowFacts DEF Committing
  <2> QED
    BY <1>0, <1>1, <2>2 DEF OneTicketPerSeat
<1>2. ASSUME NEW w \in Workers, ConfirmOrder(w)
      PROVE  OneTicketPerSeat'
  <2> DEFINE o == OrderOf(w)
  <2>1. o \in Handlers
    BY <1>2, WritePoint DEF ConfirmOrder
  <2>2. \A p \in Handlers \ {o} : \A s \in Seats :
            /\ seat'[s] = Sold(p) <=> seat[s] = Sold(p)
            /\ tickets'[p][s] = tickets[p][s]
    BY <1>2, <2>1, RowFacts DEF ConfirmOrder
  <2>3. \A s \in Seats : seat'[s] = Sold(o) <=> seat[s] \in {Reserved(o), Sold(o)}
    BY <1>2, <2>1, RowFacts DEF ConfirmOrder
  <2>4. \A s \in Seats :
            tickets'[o][s] = IF seat[s] \in {Reserved(o), Sold(o)} /\ tickets[o][s] = 0
                             THEN 1 ELSE tickets[o][s]
    BY <1>2, <2>1 DEF ConfirmOrder
  <2>5. \A s \in Seats : tickets[o][s] \in Nat
    BY <1>0, <2>1
  <2> QED
    BY <1>0, <2>1, <2>2, <2>3, <2>4, <2>5 DEF OneTicketPerSeat
<1>3. ASSUME NEW w \in Workers, FailOrder(w)
      PROVE  OneTicketPerSeat'
  <2>1. \A o \in Handlers : \A s \in Seats : seat'[s] = Sold(o) <=> seat[s] = Sold(o)
    BY <1>3, RowFacts DEF FailOrder
  <2> QED
    BY <1>0, <1>3, <2>1 DEF OneTicketPerSeat, FailOrder
<1>4. CASE UNCHANGED <<seat, order, tickets>>
  BY <1>0, <1>4 DEF OneTicketPerSeat
<1> QED
  BY <1>1, <1>2, <1>3, <1>4, DatabaseEffect

\* A status is written only by an event that backs it.
LEMMA StatusStep ==
    ASSUME IInv, [Next]_vars
    PROVE  StatusIsBacked'
<1>0. /\ seat \in [Seats -> Row]
      /\ order \in [Handlers -> {"none", "pending", "confirmed", "failed"}]
      /\ declined \in [Handlers -> 0..MaxDeclines]
      /\ MaxDeclines \in Nat
      /\ StatusIsBacked
  BY CheckoutBounds DEF IInv, TypeOK
<1>1. \A o \in Handlers :
        /\ intent[o] \in {"succeeded", "canceled"} => intent'[o] = intent[o]
        /\ declined[o] > 0 => declined'[o] > 0
        /\ declined'[o] \in Nat
  BY IntentsStay, <1>0
<1>2. ASSUME NEW o \in Handlers, order'[o] = order[o],
             \A s \in Seats : seat'[s] = Sold(o) <=> seat[s] = Sold(o)
      PROVE  StatusOf(o)'
  <2>1. SeatsOf(o) \in SUBSET Seats
    BY RequestFacts
  <2>2. SeatsOf(o)' = SeatsOf(o)
    BY DEF SeatsOf
  <2> QED
    BY <1>0, <1>1, <1>2, <2>1, <2>2 DEF StatusIsBacked, StatusOf
<1>3. ASSUME NEW h \in Handlers, pc[h] = "commit", Committing(h)
      PROVE  StatusIsBacked'
  <2>1. /\ mine[h] = SeatsOf(h) /\ SeatsOf(h) \in SUBSET Seats
        /\ \A s \in SeatsOf(h) : seat[s] = Available
        /\ \A s \in Seats : seat[s] # Sold(h)
    BY <1>3, CommitPoint
  <2>2. \A o \in Handlers : \A s \in Seats : seat'[s] = Sold(o) <=> seat[s] = Sold(o)
    BY <1>3, <2>1, RowFacts DEF Committing
  <2>3. order'[h] = "pending" /\ \A o \in Handlers \ {h} : order'[o] = order[o]
    BY <1>0, <1>3 DEF Committing
  <2>4. StatusOf(h)'
    BY <2>1, <2>2, <2>3 DEF StatusOf
  <2> QED
    BY <1>2, <2>2, <2>3, <2>4 DEF StatusIsBacked
<1>4. ASSUME NEW w \in Workers, ConfirmOrder(w)
      PROVE  StatusIsBacked'
  <2> DEFINE o == OrderOf(w)
  <2>1. /\ o \in Handlers
        /\ order[o] \in {"pending", "confirmed", "failed"}
        /\ intent[o] = "succeeded"
    BY <1>4, WritePoint DEF ConfirmOrder, EventTrue, EventOf, OrderOf
  <2>2. order'[o] = "confirmed" /\ \A p \in Handlers \ {o} : order'[p] = order[p]
    BY <1>0, <1>4, <2>1 DEF ConfirmOrder
  <2>3. \A p \in Handlers \ {o} : \A s \in Seats : seat'[s] = Sold(p) <=> seat[s] = Sold(p)
    BY <1>4, <2>1, RowFacts DEF ConfirmOrder
  <2>4. \A s \in Seats : seat[s] \in {Reserved(o), Sold(o)} => seat'[s] = Sold(o)
    BY <1>4 DEF ConfirmOrder
  <2>5. declined[o] = 0 => \A s \in SeatsOf(o) : seat[s] \in {Reserved(o), Sold(o)}
    <3>1. CASE order[o] = "pending"
      BY <2>1, <3>1 DEF IInv, PendingOwnsItsSeats
    <3>2. CASE order[o] = "confirmed"
      BY <1>0, <2>1, <3>2 DEF StatusIsBacked, StatusOf
    <3>3. CASE order[o] = "failed"
      BY <1>0, <2>1, <3>3 DEF StatusIsBacked, StatusOf
    <3> QED
      BY <2>1, <3>1, <3>2, <3>3
  <2>6. SeatsOf(o) \in SUBSET Seats
    BY <2>1, RequestFacts
  <2>7. declined'[o] = 0 => declined[o] = 0
    BY <1>0, <1>1, <2>1
  <2>8. \A p \in Handlers : (p = o => StatusOf(p)')
    <3>1. TAKE p \in Handlers
    <3>2. HAVE p = o
    <3> QED
      BY <1>1, <2>1, <2>2, <2>4, <2>5, <2>6, <2>7, <3>2 DEF StatusOf, SeatsOf
  <2> QED
    BY <1>2, <2>2, <2>3, <2>8 DEF StatusIsBacked
<1>5. ASSUME NEW w \in Workers, FailOrder(w)
      PROVE  StatusIsBacked'
  <2> DEFINE o == OrderOf(w)
  <2>1. /\ o \in Handlers
        /\ intent[o] = "canceled" \/ declined[o] > 0
    BY <1>5, WritePoint DEF FailOrder, Failure, EventTrue, EventOf, OrderOf
  <2>2. order'[o] = "failed" /\ \A p \in Handlers \ {o} : order'[p] = order[p]
    BY <1>0, <1>5, <2>1 DEF FailOrder
  <2>3. \A p \in Handlers : \A s \in Seats : seat'[s] = Sold(p) <=> seat[s] = Sold(p)
    BY <1>5, RowFacts DEF FailOrder
  <2>4. \A p \in Handlers : (p = o => StatusOf(p)')
    BY <1>1, <2>1, <2>2 DEF StatusOf
  <2> QED
    BY <1>2, <2>2, <2>3, <2>4 DEF StatusIsBacked
<1>6. CASE UNCHANGED <<seat, order, tickets>>
  BY <1>2, <1>6 DEF StatusIsBacked
<1> QED
  BY <1>3, <1>4, <1>5, <1>6, DatabaseEffect

------------------------------------------------------------------------------
(* The order handlers *)

HandlersTyped ==
    /\ pc \in [Handlers -> Running \cup {"idle", "done"}]
    /\ pos \in [Handlers -> Nat]
    /\ \A h \in Handlers : pos[h] \in 1..Len(Ask[h].seats)
    /\ clash \in [Handlers -> BOOLEAN]
    /\ mine \in [Handlers -> SUBSET Seats]
    /\ answer \in [Handlers -> {0, 201, 202, 409, 412, 422, 503}]

\* So does an answer.
LEMMA AnswerTyped ==
    ASSUME HandlersTyped, NEW h \in Handlers,
           NEW code \in {0, 201, 202, 409, 412, 422, 503},
           Answer(h, code), UNCHANGED <<pos, clash>>
    PROVE  HandlersTyped'
BY DEF HandlersTyped, Answer

\* The handlers' variables keep their types.
LEMMA HandlerTypes ==
    ASSUME IInv, [Next]_vars
    PROVE  HandlersTyped'
<1>0. HandlersTyped
  BY DEF IInv, TypeOK, HandlersTyped
<1>1. \A h \in Handlers :
        /\ Len(Ask[h].seats) \in Nat \ {0}
        /\ \A i \in 1..Len(Ask[h].seats) : Ask[h].seats[i] \in Seats
  BY RequestFacts
<1>2. ASSUME NEW h \in Handlers, BeginOrder(h) \/ OrderStep(h) \/ OrderFault(h)
      PROVE  HandlersTyped'
  <2>1. CASE BeginOrder(h) \/ ReadRecord(h) \/ OpenTransaction(h)
             \/ CreateIntent(h) \/ RememberOrder(h)
    BY <1>0, <2>1
    DEF BeginOrder, ReadRecord, OpenTransaction, CreateIntent, RememberOrder, Goto,
        Running, HandlersTyped
  <2>2. CASE VerifySeat(h)
    <3> DEFINE bad == clash[h] \/ ~HeldByBuyer(h, NextSeat(h))
    <3>1. CASE pos[h] < Len(Ask[h].seats)
      <4>1. /\ clash' = [clash EXCEPT ![h] = bad]
            /\ pos' = [pos EXCEPT ![h] = @ + 1]
            /\ UNCHANGED <<pc, answer, mine>>
        BY <2>2, <3>1 DEF VerifySeat
      <4>2. pos[h] + 1 \in 1..Len(Ask[h].seats) /\ pos[h] + 1 \in Nat
        BY <1>0, <1>1, <3>1 DEF HandlersTyped
      <4>3. clash' \in [Handlers -> BOOLEAN]
        BY <1>0, <4>1 DEF HandlersTyped
      <4> QED
        BY <1>0, <4>1, <4>2, <4>3 DEF HandlersTyped
    <3>2. CASE ~(pos[h] < Len(Ask[h].seats)) /\ bad
      <4>1. Answer(h, 409) /\ UNCHANGED <<pos, clash>>
        BY <2>2, <3>2 DEF VerifySeat
      <4> QED
        BY <1>0, <4>1, AnswerTyped
    <3>3. CASE ~(pos[h] < Len(Ask[h].seats)) /\ ~bad
      <4>1. /\ Goto(h, "open")
            /\ pos' = [pos EXCEPT ![h] = 1]
            /\ UNCHANGED <<clash, answer, mine>>
        BY <2>2, <3>3 DEF VerifySeat
      <4> QED
        BY <1>0, <1>1, <4>1 DEF Goto, Running, HandlersTyped
    <3> QED
      BY <3>1, <3>2, <3>3
  <2>3. CASE ReserveSeat(h)
    <3>1. NextSeat(h) \in Seats
      BY <1>0, <1>1 DEF NextSeat, HandlersTyped
    <3>2. /\ mine' = [mine EXCEPT ![h] = @ \cup {NextSeat(h)}]
          /\ UNCHANGED <<clash, answer>>
      BY <2>3 DEF ReserveSeat
    <3>3. \/ pos[h] < Len(Ask[h].seats) /\ pos' = [pos EXCEPT ![h] = @ + 1] /\ UNCHANGED pc
          \/ Goto(h, "intent") /\ UNCHANGED pos
      BY <2>3 DEF ReserveSeat
    <3>4. mine' \in [Handlers -> SUBSET Seats]
      BY <1>0, <3>1, <3>2 DEF HandlersTyped
    <3>5. /\ pc' \in [Handlers -> Running \cup {"idle", "done"}]
          /\ pos' \in [Handlers -> Nat]
          /\ \A g \in Handlers : pos'[g] \in 1..Len(Ask[g].seats)
      <4>1. CASE /\ pos[h] < Len(Ask[h].seats)
                 /\ pos' = [pos EXCEPT ![h] = @ + 1]
                 /\ UNCHANGED pc
        <5>1. pos[h] + 1 \in 1..Len(Ask[h].seats) /\ pos[h] + 1 \in Nat
          BY <1>0, <1>1, <4>1 DEF HandlersTyped
        <5> QED
          BY <1>0, <4>1, <5>1 DEF HandlersTyped
      <4>2. CASE Goto(h, "intent") /\ UNCHANGED pos
        BY <1>0, <4>2 DEF Goto, Running, HandlersTyped
      <4> QED
        BY <3>3, <4>1, <4>2
    <3> QED
      BY <1>0, <3>2, <3>4, <3>5 DEF HandlersTyped
  <2>4. CASE CommitOrder(h)
    BY <1>0, <2>4 DEF CommitOrder, Goto, Running, HandlersTyped
  <2>5. CASE \/ AnswerInProgress(h) \/ AnswerCached(h) \/ RefuseToken(h)
             \/ VerifyUnavailable(h) \/ SeatGone(h) \/ DeadlockAbort(h)
             \/ AnswerCreated(h) \/ OrderFault(h)
    <3>1. UNCHANGED <<pos, clash>>
      BY <2>5
      DEF AnswerInProgress, AnswerCached, RefuseToken, VerifyUnavailable, SeatGone,
          DeadlockAbort, AnswerCreated, OrderFault, TransactionFails, CommitBroken,
          RememberFails, CrashOrder
    <3>2. \E code \in {0, 201, 202, 409, 412, 422, 503} : Answer(h, code)
      BY <2>5
      DEF AnswerInProgress, AnswerCached, RefuseToken, VerifyUnavailable, SeatGone,
          DeadlockAbort, AnswerCreated, OrderFault, TransactionFails, CommitBroken,
          RememberFails, CrashOrder
    <3> QED
      BY <1>0, <3>1, <3>2, AnswerTyped
  <2> QED
    BY <1>2, <2>1, <2>2, <2>3, <2>4, <2>5 DEF OrderStep
<1>3. ASSUME UNCHANGED handlers
      PROVE  HandlersTyped'
  BY <1>0, <1>3 DEF handlers, HandlersTyped
<1>4. ASSUME NEW h \in Handlers,
             HoldSeats(h) \/ DeclineCard(h) \/ ChargeCard(h) \/ CancelIntent(h)
      PROVE  UNCHANGED handlers
  BY <1>4 DEF HoldSeats, DeclineCard, ChargeCard, CancelIntent
<1>5. ASSUME NEW w \in Workers,
             (\E e \in due : Deliver(w, e)) \/ WorkerStep(w) \/ WebhookFails(w)
      PROVE  UNCHANGED handlers
  BY <1>5
  DEF Deliver, WorkerStep, WebhookFails, Dedupe, SelectForSuccess, SelectForFailure, FailureFindsNoOrder,
        PlainTableMissing, Failure,
      LockOrder, ConfirmOrder, FailOrder, Acknowledge
<1>6. CASE \/ \E s \in Seats : EndHold(s)
           \/ \E k \in Keys : ExpireRecord(k)
           \/ UNCHANGED vars
  <2>1. UNCHANGED handlers
    BY <1>6 DEF EndHold, ExpireRecord, vars
  <2> QED
    BY <1>3, <2>1
<1> QED
  BY <1>2, <1>3, <1>4, <1>5, <1>6 DEF Next

\* What a step does to the locked rows: a handler locks the available row it
\* is at, a handler lets go of its rows, or nothing changes.
LEMMA LockEffect ==
    ASSUME [Next]_vars
    PROVE  \/ \E h \in Handlers : ReserveSeat(h)
           \/ \E h \in Handlers : mine' = [mine EXCEPT ![h] = {}]
           \/ UNCHANGED mine
<1>1. ASSUME NEW h \in Handlers, BeginOrder(h) \/ OrderStep(h) \/ OrderFault(h)
      PROVE  \/ ReserveSeat(h)
             \/ mine' = [mine EXCEPT ![h] = {}]
             \/ UNCHANGED mine
  BY <1>1
  DEF BeginOrder, OrderStep, OrderFault, ReadRecord, AnswerInProgress, AnswerCached,
      RefuseToken, VerifyUnavailable, VerifySeat, OpenTransaction, SeatGone,
      DeadlockAbort, CreateIntent, CommitOrder, RememberOrder, AnswerCreated,
      TransactionFails, CommitBroken, RememberFails, CrashOrder, Answer
<1>2. ASSUME NEW h \in Handlers,
             HoldSeats(h) \/ DeclineCard(h) \/ ChargeCard(h) \/ CancelIntent(h)
      PROVE  UNCHANGED mine
  BY <1>2 DEF HoldSeats, DeclineCard, ChargeCard, CancelIntent, handlers
<1>3. ASSUME NEW w \in Workers,
             (\E e \in due : Deliver(w, e)) \/ WorkerStep(w) \/ WebhookFails(w)
      PROVE  UNCHANGED mine
  BY <1>3
  DEF Deliver, WorkerStep, WebhookFails, Dedupe, SelectForSuccess, SelectForFailure, FailureFindsNoOrder,
        PlainTableMissing, Failure,
      LockOrder, ConfirmOrder, FailOrder, Acknowledge, handlers
<1>4. CASE \/ \E s \in Seats : EndHold(s)
           \/ \E k \in Keys : ExpireRecord(k)
           \/ UNCHANGED vars
  BY <1>4 DEF EndHold, ExpireRecord, vars, handlers
<1> QED
  BY <1>1, <1>2, <1>3, <1>4 DEF Next

\* The only step that changes an available row is the commit of the order that
\* has it locked.
LEMMA AvailableRowsStay ==
    ASSUME IInv, [Next]_vars, NEW s \in Seats, seat[s] = Available, seat'[s] # Available
    PROVE  \E h \in Handlers : s \in mine[h] /\ mine'[h] = {}
<1>1. ~UNCHANGED seat
  OBVIOUS
<1>2. ASSUME NEW w \in Workers, ConfirmOrder(w) \/ FailOrder(w)
      PROVE  FALSE
  BY <1>2, RowFacts DEF ConfirmOrder, FailOrder
<1>3. PICK h \in Handlers : CommitOrder(h) \/ CommitBroken(h)
  <2>1. ASSUME NEW h \in Handlers, BeginOrder(h) \/ OrderStep(h) \/ OrderFault(h),
               ~CommitOrder(h), ~CommitBroken(h)
        PROVE  UNCHANGED seat
    BY <2>1
    DEF BeginOrder, OrderStep, OrderFault, ReadRecord, AnswerInProgress, AnswerCached,
        RefuseToken, VerifyUnavailable, VerifySeat, OpenTransaction, ReserveSeat,
        SeatGone, DeadlockAbort, CreateIntent, RememberOrder, AnswerCreated,
        TransactionFails, RememberFails, CrashOrder, database
  <2>2. ASSUME NEW h \in Handlers,
               HoldSeats(h) \/ DeclineCard(h) \/ ChargeCard(h) \/ CancelIntent(h)
        PROVE  UNCHANGED seat
    BY <2>2 DEF HoldSeats, DeclineCard, ChargeCard, CancelIntent, database
  <2>3. ASSUME NEW w \in Workers,
               (\E e \in due : Deliver(w, e)) \/ WorkerStep(w) \/ WebhookFails(w),
               ~ConfirmOrder(w), ~FailOrder(w)
        PROVE  UNCHANGED seat
    BY <2>3
    DEF Deliver, WorkerStep, WebhookFails, Dedupe, SelectForSuccess, SelectForFailure, FailureFindsNoOrder,
        PlainTableMissing, Failure,
        LockOrder, Acknowledge, database
  <2>4. CASE \/ \E r \in Seats : EndHold(r)
             \/ \E k \in Keys : ExpireRecord(k)
             \/ UNCHANGED vars
    BY <1>1, <2>4 DEF EndHold, ExpireRecord, vars, database
  <2> QED
    BY <1>1, <1>2, <2>1, <2>2, <2>3, <2>4 DEF Next
<1>4. s \in mine[h]
  BY <1>3 DEF CommitOrder, CommitBroken, Committing
<1>5. mine'[h] = {}
  BY <1>3 DEF CommitOrder, CommitBroken, Answer, IInv, TypeOK
<1> QED
  BY <1>4, <1>5

\* Open transactions never share a row.
LEMMA LockStep ==
    ASSUME IInv, [Next]_vars
    PROVE  LockedRowsAreAvailable'
<1>0. /\ mine \in [Handlers -> SUBSET Seats]
      /\ LockedRowsAreAvailable
      /\ RowsHaveOneOrder
  BY DEF IInv, TypeOK
<1>1. ASSUME NEW h \in Handlers, ReserveSeat(h)
      PROVE  LockedRowsAreAvailable'
  <2>1. NextSeat(h) \in Seats
    BY RequestFacts DEF NextSeat, IInv, TypeOK
  <2>2. seat[NextSeat(h)] = Available
    BY <1>0, <1>1, <2>1, AvailableRow DEF ReserveSeat
  <2>3. \A g \in Handlers \ {h} : NextSeat(h) \notin mine[g]
    BY <1>1 DEF ReserveSeat, LockedByOther
  <2>4. mine' = [mine EXCEPT ![h] = @ \cup {NextSeat(h)}] /\ UNCHANGED seat
    BY <1>1 DEF ReserveSeat, database
  <2> QED
    BY <1>0, <2>1, <2>2, <2>3, <2>4 DEF LockedRowsAreAvailable
<1>2. ASSUME \A g \in Handlers : mine'[g] \in {mine[g], {}}
      PROVE  LockedRowsAreAvailable'
  <2>1. ASSUME NEW g \in Handlers, NEW s \in mine'[g]
        PROVE  seat'[s] = Available
    <3>1. s \in Seats /\ s \in mine[g] /\ seat[s] = Available
      BY <1>0, <1>2, <2>1 DEF LockedRowsAreAvailable
    <3>2. ASSUME NEW h \in Handlers, s \in mine[h], mine'[h] = {}
          PROVE  FALSE
      BY <1>0, <2>1, <3>1, <3>2 DEF LockedRowsAreAvailable
    <3> QED
      BY <3>1, <3>2, AvailableRowsStay
  <2> QED
    BY <1>0, <1>2, <2>1 DEF LockedRowsAreAvailable
<1>3. ASSUME NEW h \in Handlers, mine' = [mine EXCEPT ![h] = {}]
      PROVE  \A g \in Handlers : mine'[g] \in {mine[g], {}}
  BY <1>0, <1>3
<1>4. ASSUME UNCHANGED mine
      PROVE  \A g \in Handlers : mine'[g] \in {mine[g], {}}
  BY <1>4
<1> QED
  BY <1>1, <1>2, <1>3, <1>4, LockEffect

\* A handler that stays where it is keeps its progress, if no order and no
\* intent of its own appears.
LEMMA ProgressKept ==
    ASSUME NEW h \in Handlers, ProgressOf(h),
           UNCHANGED <<pc[h], pos[h], mine[h]>>,
           order'[h] = "none" <=> order[h] = "none",
           intent'[h] = "none" <=> intent[h] = "none"
    PROVE  ProgressOf(h)'
BY DEF ProgressOf, Prefix, SeatsOf

\* An order handler's step leaves the other handlers, their orders and their
\* intents alone.
LEMMA HandlersAreSeparate ==
    ASSUME IInv, NEW h \in Handlers, BeginOrder(h) \/ OrderStep(h) \/ OrderFault(h),
           NEW g \in Handlers, g # h
    PROVE  UNCHANGED <<pc[g], pos[g], mine[g], order[g], intent[g]>>
<1>0. /\ pc \in [Handlers -> Running \cup {"idle", "done"}]
      /\ pos \in [Handlers -> Nat]
      /\ mine \in [Handlers -> SUBSET Seats]
      /\ order \in [Handlers -> {"none", "pending", "confirmed", "failed"}]
      /\ intent \in [Handlers -> {"none", "open", "succeeded", "canceled"}]
  BY DEF IInv, TypeOK
<1>1. UNCHANGED <<pc[g], pos[g], mine[g]>>
  <2>1. CASE \/ BeginOrder(h) \/ ReadRecord(h) \/ OpenTransaction(h)
             \/ CreateIntent(h) \/ RememberOrder(h) \/ CommitOrder(h)
    BY <1>0, <2>1
    DEF BeginOrder, ReadRecord, OpenTransaction, CreateIntent, RememberOrder,
        CommitOrder, Goto
  <2>2. CASE VerifySeat(h)
    BY <1>0, <2>2 DEF VerifySeat, Answer, Goto
  <2>3. CASE ReserveSeat(h)
    BY <1>0, <2>3 DEF ReserveSeat, Goto
  <2>4. CASE \/ AnswerInProgress(h) \/ AnswerCached(h) \/ RefuseToken(h)
             \/ VerifyUnavailable(h) \/ SeatGone(h) \/ DeadlockAbort(h)
             \/ AnswerCreated(h) \/ OrderFault(h)
    BY <1>0, <2>4
    DEF AnswerInProgress, AnswerCached, RefuseToken, VerifyUnavailable, SeatGone,
        DeadlockAbort, AnswerCreated, OrderFault, TransactionFails, CommitBroken,
        RememberFails, CrashOrder, Answer
  <2> QED
    BY <2>1, <2>2, <2>3, <2>4 DEF OrderStep
<1>2. UNCHANGED <<order[g], intent[g]>>
  <2>1. CASE CreateIntent(h) \/ CommitOrder(h)
    BY <1>0, <2>1 DEF CreateIntent, CommitOrder, Committing, database, stripe
  <2>2. CASE OrderFault(h)
    BY <1>0, <2>2
    DEF OrderFault, TransactionFails, CommitBroken, RememberFails, CrashOrder,
        Committing, database, stripe
  <2>3. CASE BeginOrder(h) \/ (OrderStep(h) /\ ~CreateIntent(h) /\ ~CommitOrder(h))
    BY <2>3
    DEF BeginOrder, OrderStep, ReadRecord, AnswerInProgress, AnswerCached, RefuseToken,
        VerifyUnavailable, VerifySeat, OpenTransaction, ReserveSeat, SeatGone,
        DeadlockAbort, RememberOrder, AnswerCreated, database, stripe
  <2> QED
    BY <2>1, <2>2, <2>3
<1> QED
  BY <1>1, <1>2

\* The progress of the handler that takes a step.
LEMMA OwnProgress ==
    ASSUME IInv, NEW h \in Handlers, BeginOrder(h) \/ OrderStep(h) \/ OrderFault(h)
    PROVE  ProgressOf(h)'
<1>0. /\ pc \in [Handlers -> Running \cup {"idle", "done"}]
      /\ pos \in [Handlers -> Nat]
      /\ pos[h] \in 1..Len(Ask[h].seats)
      /\ mine \in [Handlers -> SUBSET Seats]
      /\ order \in [Handlers -> {"none", "pending", "confirmed", "failed"}]
      /\ intent \in [Handlers -> {"none", "open", "succeeded", "canceled"}]
      /\ ProgressOf(h)
  BY DEF IInv, TypeOK, Progress
<1>1. CASE \/ AnswerInProgress(h) \/ AnswerCached(h) \/ RefuseToken(h)
           \/ VerifyUnavailable(h) \/ SeatGone(h) \/ DeadlockAbort(h)
           \/ AnswerCreated(h) \/ OrderFault(h)
  <2>1. \E code \in {0, 201, 202, 409, 412, 422, 503} : Answer(h, code)
    BY <1>1
    DEF AnswerInProgress, AnswerCached, RefuseToken, VerifyUnavailable, SeatGone,
        DeadlockAbort, AnswerCreated, OrderFault, TransactionFails, CommitBroken,
        RememberFails, CrashOrder
  <2>2. pc'[h] = "done" /\ mine'[h] = {}
    BY <1>0, <2>1 DEF Answer
  <2> QED
    BY <2>2 DEF ProgressOf
<1>2. CASE BeginOrder(h) \/ ReadRecord(h)
  BY <1>0, <1>2 DEF BeginOrder, ReadRecord, Goto, database, stripe, ProgressOf
<1>3. CASE VerifySeat(h)
  BY <1>0, <1>3 DEF VerifySeat, Goto, Answer, database, stripe, ProgressOf
<1>4. CASE OpenTransaction(h)
  <2>1. /\ pc'[h] = "reserve" /\ pos'[h] = 1 /\ mine'[h] = {}
        /\ order'[h] = "none" /\ intent'[h] = "none"
    BY <1>0, <1>4 DEF OpenTransaction, Goto, database, stripe, ProgressOf
  <2>2. Prefix(h, 0) = {}
    BY RequestFacts
  <2>3. Prefix(h, pos[h] - 1)' = Prefix(h, pos'[h] - 1)
    BY DEF Prefix
  <2> QED
    BY <2>1, <2>2, <2>3 DEF ProgressOf
<1>5. CASE ReserveSeat(h)
  <2>1. /\ mine[h] = Prefix(h, pos[h] - 1)
        /\ order'[h] = "none" /\ intent'[h] = "none"
    BY <1>0, <1>5 DEF ReserveSeat, database, stripe, ProgressOf
  <2>2. mine'[h] = Prefix(h, pos[h])
    BY <1>0, <1>5, <2>1, RequestFacts DEF ReserveSeat, NextSeat
  <2>3. CASE pos[h] < Len(Ask[h].seats)
    <3>1. pc'[h] = "reserve" /\ pos'[h] = pos[h] + 1
      BY <1>0, <1>5, <2>3 DEF ReserveSeat
    <3>2. mine'[h] = Prefix(h, pos'[h] - 1)
      BY <1>0, <2>2, <3>1
    <3> QED
      BY <2>1, <3>1, <3>2 DEF ProgressOf, Prefix
  <2>4. CASE ~(pos[h] < Len(Ask[h].seats))
    <3>1. pc'[h] = "intent"
      BY <1>0, <1>5, <2>4 DEF ReserveSeat, Goto
    <3>2. pos[h] = Len(Ask[h].seats)
      BY <1>0, <2>4, RequestFacts
    <3>3. mine'[h] = SeatsOf(h)
      BY <2>2, <3>2, RequestFacts
    <3> QED
      BY <2>1, <3>1, <3>3 DEF ProgressOf, SeatsOf
  <2> QED
    BY <2>3, <2>4
<1>6. CASE CreateIntent(h)
  BY <1>0, <1>6 DEF CreateIntent, Goto, database, ProgressOf, SeatsOf
<1>7. CASE CommitOrder(h)
  BY <1>0, <1>7 DEF CommitOrder, Committing, Goto, stripe, ProgressOf
<1>8. CASE RememberOrder(h)
  BY <1>0, <1>8 DEF RememberOrder, Goto, database, stripe, ProgressOf
<1> QED
  BY <1>1, <1>2, <1>3, <1>4, <1>5, <1>6, <1>7, <1>8 DEF OrderStep

\* Every handler keeps its progress, in every step of the system.
LEMMA ProgressStep ==
    ASSUME IInv, [Next]_vars
    PROVE  Progress'
<1>0. /\ order \in [Handlers -> {"none", "pending", "confirmed", "failed"}]
      /\ intent \in [Handlers -> {"none", "open", "succeeded", "canceled"}]
      /\ Progress
  BY DEF IInv, TypeOK
<1>1. ASSUME NEW h \in Handlers, BeginOrder(h) \/ OrderStep(h) \/ OrderFault(h)
      PROVE  Progress'
  <2>1. ASSUME NEW g \in Handlers, g # h
        PROVE  ProgressOf(g)'
    BY <1>0, <1>1, <2>1, HandlersAreSeparate, ProgressKept DEF Progress
  <2> QED
    BY <1>1, <2>1, OwnProgress DEF Progress
<1>2. ASSUME UNCHANGED handlers,
             \A g \in Handlers : order'[g] = "none" <=> order[g] = "none",
             \A g \in Handlers : intent'[g] = "none" <=> intent[g] = "none"
      PROVE  Progress'
  BY <1>0, <1>2, ProgressKept DEF Progress, handlers
<1>3. ASSUME NEW h \in Handlers,
             HoldSeats(h) \/ DeclineCard(h) \/ ChargeCard(h) \/ CancelIntent(h)
      PROVE  Progress'
  <2>1. UNCHANGED handlers /\ UNCHANGED order
    BY <1>3 DEF HoldSeats, DeclineCard, ChargeCard, CancelIntent, database
  <2>2. \A g \in Handlers : intent'[g] = "none" <=> intent[g] = "none"
    BY <1>0, <1>3 DEF HoldSeats, DeclineCard, ChargeCard, CancelIntent, stripe
  <2> QED
    BY <1>2, <2>1, <2>2
<1>4. ASSUME NEW w \in Workers,
             (\E e \in due : Deliver(w, e)) \/ WorkerStep(w) \/ WebhookFails(w)
      PROVE  Progress'
  <2>1. UNCHANGED handlers /\ UNCHANGED intent
    BY <1>4
    DEF Deliver, WorkerStep, WebhookFails, Dedupe, SelectForSuccess, SelectForFailure, FailureFindsNoOrder,
        PlainTableMissing, Failure,
        LockOrder, ConfirmOrder, FailOrder, Acknowledge, stripe
  <2>2. CASE ConfirmOrder(w) \/ FailOrder(w)
    <3>1. OrderOf(w) \in Handlers /\ order[OrderOf(w)] # "none"
      BY <2>2, WritePoint DEF ConfirmOrder, FailOrder
    <3>2. \A g \in Handlers : order'[g] = "none" <=> order[g] = "none"
      BY <1>0, <2>2, <3>1 DEF ConfirmOrder, FailOrder
    <3> QED
      BY <1>2, <2>1, <3>2
  <2>3. CASE ~ConfirmOrder(w) /\ ~FailOrder(w)
    <3>1. UNCHANGED order
      BY <1>4, <2>3
      DEF Deliver, WorkerStep, WebhookFails, Dedupe, SelectForSuccess,
          SelectForFailure, FailureFindsNoOrder,
        PlainTableMissing, Failure, LockOrder, Acknowledge, database
    <3> QED
      BY <1>2, <2>1, <3>1
  <2> QED
    BY <2>2, <2>3
<1>5. CASE \/ \E s \in Seats : EndHold(s)
           \/ \E k \in Keys : ExpireRecord(k)
           \/ UNCHANGED vars
  <2>1. UNCHANGED handlers /\ UNCHANGED order /\ UNCHANGED intent
    BY <1>5 DEF EndHold, ExpireRecord, vars, database, stripe
  <2> QED
    BY <1>2, <2>1
<1> QED
  BY <1>1, <1>3, <1>4, <1>5 DEF Next

------------------------------------------------------------------------------
(* Stripe and the webhook workers *)

\* What is true of an intent stays true of it.
LEMMA TruthLasts ==
    ASSUME IInv, [Next]_vars, NEW e \in Event, EventTrue(e)
    PROVE  /\ e.kind = "succeeded" => intent'[e.order] = "succeeded"
           /\ e.kind = "canceled" => intent'[e.order] = "canceled"
           /\ e.kind = "failed" => declined'[e.order] > 0
<1>1. e.order \in Handlers
  BY DEF Event
<1> QED
  BY <1>1, IntentsStay DEF EventTrue

\* Stripe emits true events only.
LEMMA DueStep ==
    ASSUME IInv, [Next]_vars
    PROVE  due' \in SUBSET Event /\ \A e \in due' : EventTrue(e)'
<1>0. /\ due \in SUBSET Event /\ \A e \in due : EventTrue(e)
      /\ intent \in [Handlers -> {"none", "open", "succeeded", "canceled"}]
      /\ declined \in [Handlers -> 0..MaxDeclines]
      /\ MaxDeclines \in Nat
  BY CheckoutBounds DEF IInv, TypeOK, EventsAreTrue
<1>1. ASSUME due' \subseteq due
      PROVE  due' \in SUBSET Event /\ \A e \in due' : EventTrue(e)'
  BY <1>0, <1>1, TruthLasts DEF EventTrue
<1>2. ASSUME NEW h \in Handlers, DeclineCard(h)
      PROVE  due' \in SUBSET Event /\ \A e \in due' : EventTrue(e)'
  <2> DEFINE new == [kind |-> "failed", order |-> h, n |-> declined[h] + 1]
  <2>1. due' = due \cup {new}
    BY <1>2 DEF DeclineCard
  <2>2. declined[h] + 1 \in 1..MaxDeclines /\ declined'[h] = declined[h] + 1
    BY <1>0, <1>2 DEF DeclineCard
  <2>3. new \in Event
    BY <2>2 DEF Event
  <2>4. ASSUME NEW e \in due'
        PROVE  EventTrue(e)'
    <3>1. CASE e \in due
      BY <1>0, <3>1, TruthLasts DEF EventTrue
    <3>2. CASE e = new
      BY <2>2, <3>2 DEF EventTrue
    <3> QED
      BY <2>1, <2>4, <3>1, <3>2
  <2> QED
    BY <1>0, <2>1, <2>3, <2>4
<1>3. ASSUME NEW h \in Handlers, NEW kind \in {"succeeded", "canceled"},
             intent' = [intent EXCEPT ![h] = kind],
             due' = due \cup {[kind |-> kind, order |-> h, n |-> 0]}
      PROVE  due' \in SUBSET Event /\ \A e \in due' : EventTrue(e)'
  <2> DEFINE new == [kind |-> kind, order |-> h, n |-> 0]
  <2>1. new \in Event
    BY DEF Event
  <2>2. intent'[h] = kind
    BY <1>0, <1>3
  <2>3. ASSUME NEW e \in due'
        PROVE  EventTrue(e)'
    <3>1. CASE e \in due
      BY <1>0, <3>1, TruthLasts DEF EventTrue
    <3>2. CASE e = new
      BY <2>2, <3>2 DEF EventTrue
    <3> QED
      BY <1>3, <2>3, <3>1, <3>2
  <2> QED
    BY <1>0, <1>3, <2>1, <2>3
<1>4. ASSUME NEW h \in Handlers, ChargeCard(h) \/ CancelIntent(h)
      PROVE  due' \in SUBSET Event /\ \A e \in due' : EventTrue(e)'
  BY <1>3, <1>4 DEF ChargeCard, CancelIntent
<1>5. ASSUME NEW h \in Handlers,
             BeginOrder(h) \/ OrderStep(h) \/ OrderFault(h) \/ HoldSeats(h)
      PROVE  due' \subseteq due
  BY <1>5
  DEF BeginOrder, OrderStep, OrderFault, HoldSeats, ReadRecord, AnswerInProgress,
      AnswerCached, RefuseToken, VerifyUnavailable, VerifySeat, OpenTransaction,
      ReserveSeat, SeatGone, DeadlockAbort, CreateIntent, CommitOrder, RememberOrder,
      AnswerCreated, TransactionFails, CommitBroken, RememberFails, CrashOrder, stripe
<1>6. ASSUME NEW w \in Workers,
             (\E e \in due : Deliver(w, e)) \/ WorkerStep(w) \/ WebhookFails(w)
      PROVE  due' \subseteq due
  BY <1>6
  DEF Deliver, WorkerStep, WebhookFails, Dedupe, SelectForSuccess, SelectForFailure, FailureFindsNoOrder,
        PlainTableMissing, Failure,
      LockOrder, ConfirmOrder, FailOrder, Acknowledge, stripe
<1>7. CASE \/ \E s \in Seats : EndHold(s)
           \/ \E k \in Keys : ExpireRecord(k)
           \/ UNCHANGED vars
  <2>1. due' \subseteq due
    BY <1>7 DEF EndHold, ExpireRecord, vars, stripe
  <2> QED
    BY <1>1, <2>1
<1> QED
  BY <1>1, <1>2, <1>4, <1>5, <1>6, <1>7 DEF Next

\* What a worker is at, its event and what it knows of the order.
WorkerOf(w) ==
    /\ wpc[w] \in {"idle", "dedupe", "select", "update", "write", "reply"}
    /\ wevent[w] \in Event \cup {NoEvent}
    /\ wpc[w] # "idle" => wevent[w] \in Event /\ EventTrue(wevent[w])
    /\ wpc[w] \in {"update", "write"} => order[OrderOf(w)] # "none"

WorkersTyped ==
    /\ wpc \in [Workers -> {"idle", "dedupe", "select", "update", "write", "reply"}]
    /\ wevent \in [Workers -> Event \cup {NoEvent}]
    /\ \A w \in Workers : WorkerOf(w)

\* A worker that takes no step keeps what it knows.
LEMMA WorkerKept ==
    ASSUME IInv, [Next]_vars, NEW w \in Workers, WorkerOf(w),
           UNCHANGED <<wpc[w], wevent[w]>>
    PROVE  WorkerOf(w)'
<1>1. wpc[w] # "idle" => EventTrue(wevent[w])'
  BY TruthLasts DEF WorkerOf, EventTrue
<1>2. wpc[w] \in {"update", "write"} => order'[wevent[w].order] # "none"
  BY OrdersStay DEF WorkerOf, OrderOf, Event
<1> QED
  BY <1>1, <1>2 DEF WorkerOf, OrderOf, EventTrue

\* The workers keep their types and what they know.
LEMMA WorkerStepKeeps ==
    ASSUME IInv, [Next]_vars
    PROVE  WorkersTyped'
<1>0. WorkersTyped
  BY DEF IInv, TypeOK, EventsAreTrue, WorkersTyped, WorkerOf
<1>1. ASSUME UNCHANGED webhooks
      PROVE  WorkersTyped'
  BY <1>0, <1>1, WorkerKept DEF WorkersTyped, webhooks
<1>2. ASSUME NEW w \in Workers, NEW step \in {"idle", "dedupe", "select", "update", "write", "reply"},
             NEW e \in Event \cup {NoEvent},
             wpc' = [wpc EXCEPT ![w] = step],
             wevent' = [wevent EXCEPT ![w] = e],
             step # "idle" => e \in Event /\ EventTrue(e),
             step \in {"update", "write"} => order[e.order] # "none"
      PROVE  WorkersTyped'
  <2>1. wpc'[w] = step /\ wevent'[w] = e
    BY <1>0, <1>2 DEF WorkersTyped
  <2>2. step # "idle" => EventTrue(e)'
    BY <1>2, TruthLasts DEF EventTrue
  <2>3. step \in {"update", "write"} => order'[e.order] # "none"
    BY <1>2, OrdersStay DEF Event
  <2>4. WorkerOf(w)'
    BY <1>2, <2>1, <2>2, <2>3 DEF WorkerOf, OrderOf, EventTrue
  <2>5. ASSUME NEW v \in Workers, v # w
        PROVE  WorkerOf(v)'
    BY <1>0, <1>2, <2>5, WorkerKept DEF WorkersTyped
  <2> QED
    BY <1>0, <1>2, <2>4, <2>5 DEF WorkersTyped
<1>3. ASSUME NEW w \in Workers, NEW e \in due, Deliver(w, e)
      PROVE  WorkersTyped'
  <2>1. e \in Event /\ EventTrue(e)
    BY DEF IInv, TypeOK, EventsAreTrue
  <2> QED
    BY <1>2, <1>3, <2>1 DEF Deliver
<1>4. ASSUME NEW w \in Workers, Idle(w)
      PROVE  WorkersTyped'
  BY <1>2, <1>4 DEF Idle
<1>5. ASSUME NEW w \in Workers, wpc[w] # "idle",
             NEW step \in {"select", "update", "write", "reply"},
             wpc' = [wpc EXCEPT ![w] = step], UNCHANGED wevent,
             step \in {"update", "write"} => order[OrderOf(w)] # "none"
      PROVE  WorkersTyped'
  <2>1. wevent' = [wevent EXCEPT ![w] = wevent[w]]
    BY <1>0, <1>5 DEF WorkersTyped
  <2>2. wevent[w] \in Event /\ EventTrue(wevent[w])
    BY <1>0, <1>5 DEF WorkersTyped, WorkerOf
  <2> QED
    BY <1>2, <1>5, <2>1, <2>2 DEF OrderOf
<1>6. ASSUME NEW w \in Workers, ReplyOk(w), wpc[w] # "idle"
      PROVE  WorkersTyped'
  BY <1>5, <1>6 DEF ReplyOk
<1>7. ASSUME NEW w \in Workers, WorkerStep(w) \/ WebhookFails(w)
      PROVE  WorkersTyped'
  <2>1. CASE Dedupe(w)
    BY <1>5, <1>6, <2>1 DEF Dedupe
  <2>2. CASE SelectForSuccess(w)
    BY <1>5, <1>6, <2>2 DEF SelectForSuccess
  <2>3. CASE SelectForFailure(w)
    BY <1>5, <1>6, <2>3 DEF SelectForFailure
  <2>4. CASE LockOrder(w)
    <3>1. order[OrderOf(w)] # "none"
      BY <1>0, <2>4 DEF LockOrder, WorkersTyped, WorkerOf
    <3> QED
      BY <1>5, <2>4, <3>1 DEF LockOrder
  <2>5. CASE ConfirmOrder(w) \/ FailOrder(w) \/ FailureFindsNoOrder(w)
    BY <1>6, <2>5 DEF ConfirmOrder, FailOrder, FailureFindsNoOrder
  <2>6. CASE Acknowledge(w) \/ PlainTableMissing(w) \/ WebhookFails(w)
    BY <1>4, <2>6 DEF Acknowledge, PlainTableMissing, WebhookFails
  <2> QED
    BY <1>7, <2>1, <2>2, <2>3, <2>4, <2>5, <2>6 DEF WorkerStep
<1>8. ASSUME NEW h \in Handlers,
             \/ BeginOrder(h) \/ OrderStep(h) \/ OrderFault(h) \/ HoldSeats(h)
             \/ DeclineCard(h) \/ ChargeCard(h) \/ CancelIntent(h)
      PROVE  UNCHANGED webhooks
  BY <1>8
  DEF BeginOrder, OrderStep, OrderFault, HoldSeats, DeclineCard, ChargeCard,
      CancelIntent, ReadRecord, AnswerInProgress, AnswerCached, RefuseToken,
      VerifyUnavailable, VerifySeat, OpenTransaction, ReserveSeat, SeatGone,
      DeadlockAbort, CreateIntent, CommitOrder, RememberOrder, AnswerCreated,
      TransactionFails, CommitBroken, RememberFails, CrashOrder
<1>9. CASE \/ \E s \in Seats : EndHold(s)
           \/ \E k \in Keys : ExpireRecord(k)
           \/ UNCHANGED vars
  <2>1. UNCHANGED webhooks
    BY <1>9 DEF EndHold, ExpireRecord, vars
  <2> QED
    BY <1>1, <2>1
<1> QED
  BY <1>1, <1>3, <1>7, <1>8, <1>9 DEF Next

------------------------------------------------------------------------------
(* Holds, idempotency records and answers *)

\* The holds stay holds, the dedupe rows events, and the faults bounded.
LEMMA OtherTypes ==
    ASSUME IInv, [Next]_vars
    PROVE  /\ hold' \in [Seats -> Token \cup {Free}]
           /\ seen' \in SUBSET Event
           /\ faults' \in 0..MaxFaults
<1> DEFINE Goal ==
             /\ hold' \in [Seats -> Token \cup {Free}]
             /\ seen' \in SUBSET Event
             /\ faults' \in 0..MaxFaults
<1>0. /\ hold \in [Seats -> Token \cup {Free}]
      /\ seen \in SUBSET Event
      /\ faults \in 0..MaxFaults
      /\ MaxFaults \in Nat
      /\ \A w \in Workers : wpc[w] # "idle" => wevent[w] \in Event
  BY CheckoutBounds DEF IInv, TypeOK, EventsAreTrue
<1> SUFFICES Goal
  OBVIOUS
<1> USE <1>0
<1>1. ASSUME NEW h \in Handlers, HoldSeats(h)
      PROVE  Goal
  <2>1. Ask[h].token \in Token
    BY <1>1, AskTyped DEF HoldSeats, OrderRequest
  <2> QED
    BY <1>1, <2>1 DEF HoldSeats, Grant, database
<1>2. ASSUME NEW s \in Seats, EndHold(s)
      PROVE  Goal
  BY <1>2 DEF EndHold, End, database
<1>3. ASSUME NEW h \in Handlers,
             \/ BeginOrder(h) \/ OrderStep(h)
             \/ DeclineCard(h) \/ ChargeCard(h) \/ CancelIntent(h)
      PROVE  Goal
  <2>1. UNCHANGED <<hold, seen, faults>>
    BY <1>3
    DEF BeginOrder, OrderStep, DeclineCard, ChargeCard, CancelIntent, ReadRecord,
        AnswerInProgress, AnswerCached, RefuseToken, VerifyUnavailable, VerifySeat,
        OpenTransaction, ReserveSeat, SeatGone, DeadlockAbort, CreateIntent,
        CommitOrder, RememberOrder, AnswerCreated, database
  <2> QED
    BY <2>1
<1>4. ASSUME NEW h \in Handlers, OrderFault(h)
      PROVE  Goal
  <2>1. UNCHANGED <<hold, seen>> /\ Fault
    BY <1>4
    DEF OrderFault, TransactionFails, CommitBroken, RememberFails, CrashOrder, database
  <2> QED
    BY <2>1 DEF Fault
<1>5. ASSUME NEW w \in Workers, (\E e \in due : Deliver(w, e)) \/ WorkerStep(w)
      PROVE  Goal
  <2>1. UNCHANGED <<hold, faults>>
    BY <1>5
    DEF Deliver, WorkerStep, Dedupe, SelectForSuccess, SelectForFailure, FailureFindsNoOrder,
        PlainTableMissing, Failure, LockOrder,
        ConfirmOrder, FailOrder, Acknowledge
  <2>2. UNCHANGED seen \/ (wpc[w] # "idle" /\ seen' = seen \cup {wevent[w]})
    BY <1>5
    DEF Deliver, WorkerStep, Dedupe, SelectForSuccess, SelectForFailure, FailureFindsNoOrder,
        PlainTableMissing, Failure, LockOrder,
        ConfirmOrder, FailOrder, Acknowledge, EventOf, database
  <2> QED
    BY <2>1, <2>2
<1>6. ASSUME NEW w \in Workers, WebhookFails(w)
      PROVE  Goal
  BY <1>6 DEF WebhookFails, Fault, database
<1>7. CASE (\E k \in Keys : ExpireRecord(k)) \/ UNCHANGED vars
  BY <1>7 DEF ExpireRecord, vars, database
<1> QED
  BY <1>1, <1>2, <1>3, <1>4, <1>5, <1>6, <1>7 DEF Next

\* What a step does to the idempotency records: one record expires, begins, or
\* is given a response by the handler of a committed order.
LEMMA RecordEffect ==
    ASSUME IInv, [Next]_vars
    PROVE  \/ UNCHANGED idem
           \/ \E k \in Keys : idem' = [idem EXCEPT ![k] = Missing]
           \/ \E k \in Keys, r \in RequestIds : idem' = [idem EXCEPT ![k] = InProgress(r)]
           \/ \E k \in Keys, h \in Handlers :
                 /\ idem' = [idem EXCEPT ![k] = Committed(h)]
                 /\ order[h] # "none" /\ intent[h] # "none"
<1> DEFINE Goal ==
             \/ UNCHANGED idem
             \/ \E k \in Keys : idem' = [idem EXCEPT ![k] = Missing]
             \/ \E k \in Keys, r \in RequestIds : idem' = [idem EXCEPT ![k] = InProgress(r)]
             \/ \E k \in Keys, h \in Handlers :
                   /\ idem' = [idem EXCEPT ![k] = Committed(h)]
                   /\ order[h] # "none" /\ intent[h] # "none"
<1>1. ASSUME NEW h \in Handlers, BeginOrder(h)
      PROVE  Goal
  BY <1>1, RequestFacts DEF BeginOrder, SetIfAbsent
<1>2. ASSUME NEW h \in Handlers, RememberOrder(h) \/ RememberFails(h)
      PROVE  Goal
  <2>1. order[h] # "none" /\ intent[h] # "none"
    BY <1>2 DEF RememberOrder, RememberFails, IInv, Progress, ProgressOf
  <2> QED
    BY <1>2, <2>1, RequestFacts DEF RememberOrder, RememberFails, SetIfPresent
<1>3. ASSUME NEW h \in Handlers,
             \/ OrderStep(h) /\ ~RememberOrder(h)
             \/ OrderFault(h) /\ ~RememberFails(h)
             \/ HoldSeats(h) \/ DeclineCard(h) \/ ChargeCard(h) \/ CancelIntent(h)
      PROVE  UNCHANGED idem
  BY <1>3
  DEF OrderStep, OrderFault, HoldSeats, DeclineCard, ChargeCard, CancelIntent,
      ReadRecord, AnswerInProgress, AnswerCached, RefuseToken, VerifyUnavailable,
      VerifySeat, OpenTransaction, ReserveSeat, SeatGone, DeadlockAbort, CreateIntent,
      CommitOrder, AnswerCreated, TransactionFails, CommitBroken, CrashOrder
<1>4. ASSUME NEW w \in Workers,
             (\E e \in due : Deliver(w, e)) \/ WorkerStep(w) \/ WebhookFails(w)
      PROVE  UNCHANGED idem
  BY <1>4
  DEF Deliver, WorkerStep, WebhookFails, Dedupe, SelectForSuccess, SelectForFailure, FailureFindsNoOrder,
        PlainTableMissing, Failure,
      LockOrder, ConfirmOrder, FailOrder, Acknowledge
<1>5. CASE \E k \in Keys : ExpireRecord(k)
  BY <1>5 DEF ExpireRecord, ExpireKey
<1>6. CASE (\E s \in Seats : EndHold(s)) \/ UNCHANGED vars
  BY <1>6 DEF EndHold, vars
<1> QED
  BY <1>1, <1>2, <1>3, <1>4, <1>5, <1>6 DEF Next

\* Records tell apart what they are and whom they are about.
LEMMA RecordFacts ==
    ASSUME NEW o, NEW p, NEW r
    PROVE  /\ Committed(o) # Missing /\ Committed(o) # InProgress(r)
           /\ Committed(o) = Committed(p) => o = p
           /\ Missing \in IdemRecord
           /\ r \in RequestIds => InProgress(r) \in IdemRecord
           /\ o \in Handlers => Committed(o) \in IdemRecord
BY ResponsesAreOrders DEF Committed, Missing, InProgress, IdemRecord

\* Stored responses go on describing committed orders.
LEMMA RecordStep ==
    ASSUME IInv, [Next]_vars
    PROVE  idem' \in [Keys -> IdemRecord] /\ StoredOrdersAreCommitted'
<1>0. /\ idem \in [Keys -> IdemRecord]
      /\ StoredOrdersAreCommitted
  BY DEF IInv, TypeOK
<1>1. ASSUME NEW o \in Handlers, order[o] # "none", intent[o] # "none"
      PROVE  order'[o] # "none" /\ intent'[o] # "none"
  BY <1>1, OrdersStay, IntentsStay
<1>2. idem' \in [Keys -> IdemRecord]
  BY <1>0, RecordEffect, RecordFacts
<1>3. ASSUME NEW k \in Keys, NEW o \in Handlers, idem'[k] = Committed(o)
      PROVE  order[o] # "none" /\ intent[o] # "none"
  BY <1>0, <1>3, RecordEffect, RecordFacts DEF StoredOrdersAreCommitted
<1> QED
  BY <1>1, <1>2, <1>3 DEF StoredOrdersAreCommitted

\* A client is told of committed orders only.
LEMMA AnswerStep ==
    ASSUME IInv, [Next]_vars
    PROVE  known' \in SUBSET Handlers /\ AnswersAreCommitted'
<1>0. known \in SUBSET Handlers /\ AnswersAreCommitted /\ StoredOrdersAreCommitted
  BY DEF IInv, TypeOK
<1>1. ASSUME NEW o \in Handlers, order[o] # "none", intent[o] # "none"
      PROVE  order'[o] # "none" /\ intent'[o] # "none"
  BY <1>1, OrdersStay, IntentsStay
<1>2. ASSUME NEW h \in Handlers, AnswerCreated(h)
      PROVE  \E o \in Handlers :
                known' = known \cup {o} /\ order[o] # "none" /\ intent[o] # "none"
  BY <1>2 DEF AnswerCreated, IInv, Progress, ProgressOf
<1>3. ASSUME NEW h \in Handlers, AnswerCached(h)
      PROVE  \E o \in Handlers :
                known' = known \cup {o} /\ order[o] # "none" /\ intent[o] # "none"
  BY <1>0, <1>3, RequestFacts, ResponsesAreOrders DEF AnswerCached, StoredOrdersAreCommitted
<1>4. ASSUME NEW h \in Handlers,
             \/ BeginOrder(h) \/ OrderStep(h) \/ OrderFault(h)
             \/ HoldSeats(h) \/ DeclineCard(h) \/ ChargeCard(h) \/ CancelIntent(h),
             ~AnswerCreated(h), ~AnswerCached(h)
      PROVE  UNCHANGED known
  BY <1>4
  DEF BeginOrder, OrderStep, OrderFault, HoldSeats, DeclineCard, ChargeCard,
      CancelIntent, ReadRecord, AnswerInProgress, RefuseToken, VerifyUnavailable,
      VerifySeat, OpenTransaction, ReserveSeat, SeatGone, DeadlockAbort, CreateIntent,
      CommitOrder, RememberOrder, TransactionFails, CommitBroken, RememberFails,
      CrashOrder
<1>5. ASSUME NEW w \in Workers,
             (\E e \in due : Deliver(w, e)) \/ WorkerStep(w) \/ WebhookFails(w)
      PROVE  UNCHANGED known
  BY <1>5
  DEF Deliver, WorkerStep, WebhookFails, Dedupe, SelectForSuccess, SelectForFailure, FailureFindsNoOrder,
        PlainTableMissing, Failure,
      LockOrder, ConfirmOrder, FailOrder, Acknowledge
<1>6. ASSUME \/ \E s \in Seats : EndHold(s)
             \/ \E k \in Keys : ExpireRecord(k)
             \/ UNCHANGED vars
      PROVE  UNCHANGED known
  BY <1>6 DEF EndHold, ExpireRecord, vars
<1>7. \/ UNCHANGED known
      \/ \E o \in Handlers :
            known' = known \cup {o} /\ order[o] # "none" /\ intent[o] # "none"
  BY <1>2, <1>3, <1>4, <1>5, <1>6 DEF Next
<1> QED
  BY <1>0, <1>1, <1>7 DEF AnswersAreCommitted

------------------------------------------------------------------------------
(* The inductive invariant *)

LEMMA InitIInv == Init => IInv
<1> SUFFICES ASSUME Init
             PROVE  IInv
  OBVIOUS
<1>1. \A h \in Handlers : 1 \in 1..Len(Ask[h].seats)
  BY RequestFacts
<1>2. /\ seat \in [Seats -> Row] /\ idem \in [Keys -> IdemRecord]
      /\ hold \in [Seats -> Token \cup {Free}]
  BY RowFacts, RecordFacts DEF Init, LeaseInit, IdemInit
<1>3. /\ tickets \in [Handlers -> [Seats -> Nat]]
      /\ declined \in [Handlers -> 0..MaxDeclines]
      /\ faults \in 0..MaxFaults
  BY CheckoutBounds DEF Init
<1>4. /\ TypeOK
      /\ pos \in [Handlers -> Nat]
  BY <1>1, <1>2, <1>3 DEF Init, TypeOK, Running
<1>5. Progress
  BY DEF Init, Progress, ProgressOf
<1>6. LockedRowsAreAvailable /\ EventsAreTrue
  BY DEF Init, LockedRowsAreAvailable, EventsAreTrue
<1>7. \A s \in Seats : seat[s] = Available /\ \A o \in Handlers : tickets[o][s] = 0
  BY DEF Init
<1>8. RowsHaveOneOrder /\ PendingOwnsItsSeats /\ OneTicketPerSeat
  <2>1. \A o \in Handlers : order[o] = "none"
    BY DEF Init
  <2>2. PendingOwnsItsSeats
    BY <1>7, <2>1, RowFacts DEF PendingOwnsItsSeats
  <2>3. OneTicketPerSeat
    <3>1. \A o \in Handlers : Available # Sold(o)
      BY RowFacts
    <3>2. \A s \in Seats, o \in Handlers : seat[s] = Available /\ ~(tickets[o][s] > 0)
      BY <1>7
    <3> QED
      BY <3>1, <3>2 DEF OneTicketPerSeat
  <2> QED
    BY <1>7, <2>2, <2>3 DEF RowsHaveOneOrder
<1>9. StatusIsBacked
  BY <1>7, RowFacts DEF Init, StatusIsBacked, StatusOf
<1>10. StoredOrdersAreCommitted /\ AnswersAreCommitted
  BY RecordFacts DEF Init, IdemInit, StoredOrdersAreCommitted, AnswersAreCommitted
<1> QED
  BY <1>4, <1>5, <1>6, <1>8, <1>9, <1>10 DEF IInv

LEMMA NextIInv == IInv /\ [Next]_vars => IInv'
<1> SUFFICES ASSUME IInv, [Next]_vars
             PROVE  IInv'
  OBVIOUS
<1>1. /\ seat' \in [Seats -> Row] /\ RowsHaveOneOrder'
      /\ order' \in [Handlers -> {"none", "pending", "confirmed", "failed"}]
      /\ tickets' \in [Handlers -> [Seats -> Nat]]
  BY RowsStep
<1>2. HandlersTyped'
  BY HandlerTypes
<1>3. /\ intent' \in [Handlers -> {"none", "open", "succeeded", "canceled"}]
      /\ declined' \in [Handlers -> 0..MaxDeclines]
  BY IntentsStay
<1>4. due' \in SUBSET Event /\ \A e \in due' : EventTrue(e)'
  BY DueStep
<1>5. WorkersTyped'
  BY WorkerStepKeeps
<1>6. /\ hold' \in [Seats -> Token \cup {Free}]
      /\ seen' \in SUBSET Event
      /\ faults' \in 0..MaxFaults
  BY OtherTypes
<1>7. /\ idem' \in [Keys -> IdemRecord] /\ StoredOrdersAreCommitted'
      /\ known' \in SUBSET Handlers /\ AnswersAreCommitted'
  BY RecordStep, AnswerStep
<1>8. TypeOK'
  BY <1>1, <1>2, <1>3, <1>4, <1>5, <1>6, <1>7 DEF TypeOK, HandlersTyped, WorkersTyped
<1>9. EventsAreTrue'
  BY <1>4, <1>5 DEF EventsAreTrue, WorkersTyped, WorkerOf
<1> QED
  BY <1>1, <1>2, <1>7, <1>8, <1>9, LockStep, ProgressStep, StatusStep, PendingStep,
     TicketStep
  DEF IInv, HandlersTyped

\* IInv holds in every reachable state.
THEOREM SpecIInv == Spec => []IInv
<1>1. Init => IInv
  BY InitIInv
<1>2. IInv /\ [Next]_vars => IInv'
  BY NextIInv
<1> QED
  BY <1>1, <1>2, PTL DEF Spec

------------------------------------------------------------------------------
(* The theorems *)

\* Type correctness of the handlers, the tables, Stripe and the workers.
THEOREM CheckoutTypes == Spec => []TypeOK
<1>1. IInv => TypeOK
  BY DEF IInv
<1> QED
  BY <1>1, SpecIInv, PTL

\* A pending order has all its seats and nobody else's, and an order that is
\* not pending reserves nothing, whatever the workers and handlers do at once.
THEOREM PendingSeats == Spec => []PendingOwnsItsSeats
<1>1. IInv => PendingOwnsItsSeats
  BY DEF IInv
<1> QED
  BY <1>1, SpecIInv, PTL

\* No oversell: one ticket per seat, held by the order the seat is sold to.
THEOREM NoOversell == Spec => []OneTicketPerSeat
<1>1. IInv => OneTicketPerSeat
  BY DEF IInv
<1> QED
  BY <1>1, SpecIInv, PTL

\* No client is told of an order that does not exist or cannot be paid.
THEOREM AnswersTrue == Spec => []AnswersAreCommitted
<1>1. IInv => AnswersAreCommitted
  BY DEF IInv
<1> QED
  BY <1>1, SpecIInv, PTL

\* A client that repeats itself under one key repeats its order: the two
\* requests want a seat in common.  The route cannot enforce it, its store key
\* is made of the tenant and the Idempotency-Key alone.
RepeatsShareASeat ==
    \A g, h \in Handlers :
        g # h /\ Ask[g].key = Ask[h].key => SeatsOf(g) \cap SeatsOf(h) # {}

\* Expired records, crashes and lost answers do not give such a client two
\* orders to pay for.  It is the seats that see to it, not the record: a
\* pending order has its seats reserved, and a confirmed one whose card was
\* never declined has them sold.
THEOREM OneOrderPerKey ==
    ASSUME RepeatsShareASeat
    PROVE  Spec => []OneLiveOrderPerKey
<1>1. ASSUME IInv, NEW o \in Handlers, declined[o] = 0,
             order[o] \in {"pending", "confirmed"}, NEW s \in SeatsOf(o)
      PROVE  seat[s] \in {Reserved(o), Sold(o)}
  <2>1. s \in Seats
    BY RequestFacts
  <2>2. CASE order[o] = "pending"
    BY <1>1, <2>2 DEF IInv, PendingOwnsItsSeats
  <2>3. CASE order[o] = "confirmed"
    BY <1>1, <2>3 DEF IInv, StatusIsBacked, StatusOf
  <2> QED
    BY <1>1, <2>2, <2>3
<1>2. IInv => OneLiveOrderPerKey
  <2> SUFFICES ASSUME IInv, NEW g \in Handlers, NEW h \in Handlers,
                      g # h, Ask[g].key = Ask[h].key,
                      declined[g] = 0, declined[h] = 0,
                      order[g] \in {"pending", "confirmed"},
                      order[h] \in {"pending", "confirmed"}
               PROVE  FALSE
    BY DEF OneLiveOrderPerKey
  <2>1. PICK s \in SeatsOf(g) : s \in SeatsOf(h)
    BY DEF RepeatsShareASeat
  <2>2. seat[s] \in {Reserved(g), Sold(g)} /\ seat[s] \in {Reserved(h), Sold(h)}
    BY <1>1, <2>1
  <2> QED
    BY <2>2, RowFacts
<1> QED
  BY <1>2, SpecIInv, PTL

------------------------------------------------------------------------------
(* Checkout implements the seat lifecycle *)

\* The lifecycle's rows are Checkout's.
LEMMA SameRows ==
    ASSUME NEW o
    PROVE  /\ Lifecycle!Available = Available
           /\ Lifecycle!Reserved(o) = Reserved(o)
           /\ Lifecycle!Sold(o) = Sold(o)
BY DEF Lifecycle!Available, Lifecycle!Reserved, Lifecycle!Sold, Available, Reserved, Sold

\* Every step reserves, sells or gives back the seats of one order, all of
\* them, or leaves seats and tickets alone.
LEMMA LifecycleStep ==
    ASSUME IInv, [Next]_vars
    PROVE  [Lifecycle!LifecycleNext]_<<seat, tickets>>
<1>0. /\ seat \in [Seats -> Row]
      /\ tickets \in [Handlers -> [Seats -> Nat]]
      /\ order \in [Handlers -> {"none", "pending", "confirmed", "failed"}]
      /\ \A o \in Handlers : SeatsOf(o) \in SUBSET Seats
  BY RequestFacts DEF IInv, TypeOK
<1>1. ASSUME NEW h \in Handlers, pc[h] = "commit", Committing(h), UNCHANGED tickets
      PROVE  Lifecycle!Reserve(h)
  <2>1. /\ \A s \in SeatsOf(h) : seat[s] = Available
        /\ mine[h] = SeatsOf(h)
    BY <1>1, CommitPoint
  <2> QED
    BY <1>1, <2>1, SameRows DEF Committing, Lifecycle!Reserve
<1>2. ASSUME NEW w \in Workers, ConfirmOrder(w)
      PROVE  Lifecycle!Sell(OrderOf(w)) \/ UNCHANGED <<seat, tickets>>
  <2> DEFINE o == OrderOf(w)
  <2>1. o \in Handlers /\ order[o] # "none"
    BY <1>2, WritePoint DEF ConfirmOrder
  <2>2. \A s \in Seats : seat[s] = Sold(o) => tickets[o][s] = 1
    BY <2>1 DEF IInv, OneTicketPerSeat
  <2>3. CASE order[o] = "pending"
    <3>1. \A s \in Seats : seat[s] = Reserved(o) <=> s \in SeatsOf(o)
      BY <1>0, <2>1, <2>3 DEF IInv, PendingOwnsItsSeats
    <3>2. \A s \in Seats : seat[s] # Sold(o)
      BY <2>1, <2>3 DEF IInv, StatusIsBacked, StatusOf
    <3>3. \A s \in Seats : tickets[o][s] = 0
      BY <1>0, <2>1, <3>2 DEF IInv, OneTicketPerSeat
    <3>4. seat' = [s \in Seats |-> IF s \in SeatsOf(o) THEN Sold(o) ELSE seat[s]]
      BY <1>2, <3>1, <3>2 DEF ConfirmOrder
    <3>5. tickets' = [tickets EXCEPT ![o] = [s \in Seats |-> IF s \in SeatsOf(o) THEN 1 ELSE 0]]
      BY <1>0, <1>2, <2>1, <3>1, <3>2, <3>3 DEF ConfirmOrder
    <3> QED
      BY <1>0, <2>1, <3>1, <3>4, <3>5, SameRows DEF Lifecycle!Sell
  <2>4. CASE order[o] # "pending"
    <3>1. \A s \in Seats : seat[s] # Reserved(o)
      BY <2>1, <2>4 DEF IInv, PendingOwnsItsSeats
    <3>2. seat' = seat
      BY <1>0, <1>2, <3>1 DEF ConfirmOrder
    <3>3. tickets' = tickets
      BY <1>0, <1>2, <2>1, <2>2, <3>1 DEF ConfirmOrder
    <3> QED
      BY <3>2, <3>3
  <2> QED
    BY <2>3, <2>4
<1>3. ASSUME NEW w \in Workers, FailOrder(w)
      PROVE  Lifecycle!GiveBack(OrderOf(w)) \/ UNCHANGED <<seat, tickets>>
  <2> DEFINE o == OrderOf(w)
  <2>1. o \in Handlers
    BY <1>3, WritePoint DEF FailOrder
  <2>2. UNCHANGED tickets
    BY <1>3 DEF FailOrder
  <2>3. CASE order[o] = "pending"
    <3>1. \A s \in Seats : seat[s] = Reserved(o) <=> s \in SeatsOf(o)
      BY <1>0, <2>1, <2>3 DEF IInv, PendingOwnsItsSeats
    <3>2. seat' = [s \in Seats |-> IF s \in SeatsOf(o) THEN Available ELSE seat[s]]
      BY <1>3, <3>1 DEF FailOrder
    <3> QED
      BY <1>0, <2>1, <2>2, <3>1, <3>2, SameRows DEF Lifecycle!GiveBack
  <2>4. CASE order[o] # "pending"
    <3>1. \A s \in Seats : seat[s] # Reserved(o)
      BY <2>1, <2>4 DEF IInv, PendingOwnsItsSeats
    <3>2. seat' = seat
      BY <1>0, <1>3, <3>1 DEF FailOrder
    <3> QED
      BY <2>2, <3>2
  <2> QED
    BY <2>3, <2>4
<1>4. ASSUME NEW w \in Workers, ConfirmOrder(w) \/ FailOrder(w)
      PROVE  OrderOf(w) \in Handlers
  BY <1>4, WritePoint DEF ConfirmOrder, FailOrder
<1> QED
  BY <1>1, <1>2, <1>3, <1>4, DatabaseEffect DEF Lifecycle!LifecycleNext

\* Whoever relies on the lifecycle may forget handlers, open transactions,
\* idempotency records, events and their redeliveries.
THEOREM LifecycleRefinement == Spec => ImplementsLifecycle
<1>1. Init => Lifecycle!LifecycleInit
  BY SameRows DEF Init, Lifecycle!LifecycleInit
<1>2. IInv /\ [Next]_vars => [Lifecycle!LifecycleNext]_<<seat, tickets>>
  BY LifecycleStep
<1> QED
  BY <1>1, <1>2, SpecIInv, PTL DEF Spec, ImplementsLifecycle, Lifecycle!LifecycleSpec
=============================================================================
