----------------------------- MODULE DomainEvents -----------------------------
(***************************************************************************)
(* The domain event bus with its persistence and retry middleware.  publish*)
(* runs the handlers that are subscribed at that moment and settles their  *)
(* errors; processRetries, started by a timer, publishes the queued events *)
(* of its snapshot one after the other and may overlap with itself.        *)
(***************************************************************************)
EXTENDS Integers, Sequences, FiniteSets, FiniteSetsExt

CONSTANTS
    BusEvents,      \* domain events
    Handlers,       \* handlers of their type
    Publishers,     \* publish calls of use cases, each made once
    RetrySweeps,    \* processRetries calls that may overlap
    MaxRetries,
    MaxItems        \* bound: items ever queued

ASSUME EventAssumption ==
    /\ Publishers \cap RetrySweeps = {} /\ IsFiniteSet(RetrySweeps)
    /\ MaxRetries \in Nat \ {0} /\ MaxItems \in Nat

VARIABLES
    subscribed,     \* handlers of the event type
    items,          \* every queued item: [event, count], shared by those who hold it
    retryQueue,     \* the items in the queue
    bus,            \* where each publisher and sweep stands
    delivered,      \* events some delivery of which had no failure
    missed,         \* events some delivery of which had one
    dead            \* events given up after MaxRetries refusals of the event store

eventVars == <<subscribed, items, retryQueue, bus, delivered, missed, dead>>

Callers == Publishers \cup RetrySweeps

\* left are the handlers still running, todo the sweep's snapshot, item the one
\* it is at.
IdleCaller ==
    [at |-> "idle", event |-> "none", left |-> {}, failed |-> FALSE, todo |-> {}, item |-> 0]

EventTypeOK ==
    /\ subscribed \subseteq Handlers
    /\ retryQueue \subseteq DOMAIN items
    /\ \A i \in DOMAIN items :
         /\ items[i].event \in BusEvents
         /\ items[i].count \in 0..(MaxRetries + Cardinality(RetrySweeps) - 1)
    /\ Len(items) <= MaxItems
    /\ \A c \in Callers :
         /\ bus[c].at \in {"idle", "sweep", "store", "handle", "remove", "done"}
         /\ bus[c].left \subseteq Handlers
         /\ bus[c].todo \cup {bus[c].item} \subseteq 0..MaxItems
    /\ delivered \cup missed \cup dead \subseteq BusEvents

EventInit ==
    /\ subscribed \in SUBSET Handlers
    /\ items = <<>>
    /\ retryQueue = {}
    /\ bus = [c \in Callers |-> IdleCaller]
    /\ delivered = {} /\ missed = {} /\ dead = {}

Set(c, caller) == bus' = [bus EXCEPT ![c] = caller]
SetAt(c, at) == bus' = [bus EXCEPT ![c].at = at]

Subscribe(h) ==
    /\ subscribed' = subscribed \cup {h}
    /\ UNCHANGED <<items, retryQueue, bus, delivered, missed, dead>>

Unsubscribe(h) ==
    /\ subscribed' = subscribed \ {h}
    /\ UNCHANGED <<items, retryQueue, bus, delivered, missed, dead>>

Publish(p, e) ==
    /\ bus[p].at = "idle"
    /\ Set(p, [bus[p] EXCEPT !.at = "store", !.event = e])
    /\ UNCHANGED <<subscribed, items, retryQueue, delivered, missed, dead>>

\* PersistenceMiddleware.beforePublish; when the store refuses, publish rejects,
\* and only a sweep catches that: it counts and goes on to its next item.
Store(c, ok) ==
    /\ bus[c].at = "store"
    /\ IF ok
       THEN /\ Set(c, [bus[c] EXCEPT !.at = "handle", !.left = subscribed, !.failed = FALSE])
            /\ UNCHANGED items
       ELSE /\ SetAt(c, IF c \in RetrySweeps THEN "sweep" ELSE "done")
            /\ items' = IF c \in RetrySweeps
                        THEN [items EXCEPT ![bus[c].item].count = @ + 1] ELSE items
    /\ UNCHANGED <<subscribed, retryQueue, delivered, missed, dead>>

\* One handler settles; the others are not affected.
Handle(c, h, ok) ==
    /\ bus[c].at = "handle"
    /\ h \in bus[c].left
    /\ Set(c, [bus[c] EXCEPT !.left = @ \ {h}, !.failed = @ \/ ~ok])
    /\ UNCHANGED <<subscribed, items, retryQueue, delivered, missed, dead>>

\* A slip: an event that is queued is not queued again.
QueuedOnce(e) ==
    IF \E i \in retryQueue : items[i].event = e THEN <<>> ELSE <<[event |-> e, count |-> 0]>>

\* RetryMiddleware.onError: a new item, whose count starts at 0 again.
QueuedFor(e) == <<[event |-> e, count |-> 0]>>

\* All handlers have settled.
Settle(c) ==
    LET e == bus[c].event
        new == IF bus[c].failed THEN QueuedFor(e) ELSE <<>>
    IN  /\ bus[c].at = "handle" /\ bus[c].left = {}
        /\ Len(items) + Len(new) <= MaxItems
        /\ items' = items \o new
        /\ retryQueue' = retryQueue \cup (DOMAIN items' \ DOMAIN items)
        /\ SetAt(c, IF c \in RetrySweeps THEN "remove" ELSE "done")
        /\ delivered' = IF bus[c].failed THEN delivered ELSE delivered \cup {e}
        /\ missed' = IF bus[c].failed THEN missed \cup {e} ELSE missed
        /\ UNCHANGED <<subscribed, dead>>

\* processRetries: a snapshot of the items that are due.
StartSweep(s, due) ==
    /\ bus[s].at = "idle"
    /\ due # {} /\ due \subseteq retryQueue
    /\ Set(s, [bus[s] EXCEPT !.at = "sweep", !.todo = due])
    /\ UNCHANGED <<subscribed, items, retryQueue, delivered, missed, dead>>

\* The next item of the snapshot, whether or not it is still queued.  An item
\* at its limit is dropped.
NextItem(s) ==
    LET i == Min(bus[s].todo)
        call == [bus[s] EXCEPT !.todo = @ \ {i}, !.item = i, !.event = items[i].event]
    IN  /\ bus[s].at = "sweep" /\ bus[s].todo # {}
        /\ IF items[i].count < MaxRetries
           THEN /\ Set(s, [call EXCEPT !.at = "store"])
                /\ UNCHANGED <<retryQueue, dead>>
           ELSE /\ Set(s, call)
                /\ retryQueue' = retryQueue \ {i}
                /\ dead' = dead \cup {items[i].event}
        /\ UNCHANGED <<subscribed, items, delivered, missed>>

\* publish has returned, whatever the handlers did: the item counts as done.
RemoveItem(s) ==
    /\ bus[s].at = "remove"
    /\ retryQueue' = retryQueue \ {bus[s].item}
    /\ SetAt(s, "sweep")
    /\ UNCHANGED <<subscribed, items, delivered, missed, dead>>

EndSweep(s) ==
    /\ bus[s].at = "sweep" /\ bus[s].todo = {}
    /\ Set(s, IdleCaller)
    /\ UNCHANGED <<subscribed, items, retryQueue, delivered, missed, dead>>

EventNext ==
    \/ \E h \in Handlers : Subscribe(h) \/ Unsubscribe(h)
    \/ \E p \in Publishers, e \in BusEvents : Publish(p, e)
    \/ \E c \in Callers :
         \/ \E ok \in BOOLEAN : Store(c, ok) \/ \E h \in Handlers : Handle(c, h, ok)
         \/ Settle(c)
    \/ \E s \in RetrySweeps :
         \/ \E due \in SUBSET retryQueue : StartSweep(s, due)
         \/ NextItem(s) \/ RemoveItem(s) \/ EndSweep(s)

EventSpec == EventInit /\ [][EventNext]_eventVars

-----------------------------------------------------------------------------
\* An event whose handlers failed is not lost: it stays queued until a delivery
\* of it succeeds, or the event store has refused it MaxRetries times, however
\* many sweeps overlap.
FailedEventsAreRetried ==
    \A e \in missed \ (delivered \cup dead) :
        \E i \in retryQueue : items[i].event = e
=============================================================================
