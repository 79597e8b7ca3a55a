----------------------------- MODULE MCHoldsApi -----------------------------
(* Small instances of HoldsApi. *)
EXTENDS HoldsApi, TLC

CONSTANTS s1, s2, alice, bob, r1, r2, r3, h1, h2, h3

Request(op, S, id, client) == [op |-> op, seats |-> S, id |-> id, client |-> client]

\* Two clients ask for the same seats with the same body; what one holds of
\* them is then extended or released.
SameBody ==
    h1 :> {Request("hold", Seats, r1, alice)} @@
    h2 :> {Request("hold", Seats, r2, bob)} @@
    h3 :> {Request(op, {s1}, r3, alice) : op \in {"extend", "release"}}

\* r1 stands for a request id with a '.', whose pattern matches r2's holds too, r2
\* for one with a '-', whose pattern does not match its own.
RequestPattern == {<<r1, r1>>, <<r1, r2>>, <<r3, r3>>}

\* The hashes these requests can have, and the answers they can store.
AskedBodies ==
    {b \in Bodies : \E h \in Handlers : \E q \in Ask[h] : b.op = q.op /\ b.seats = q.seats}

StoredReplies ==
    [is : {"held"}, token : Token]
    \cup {Plain(kind) : kind \in {"extended", "not_extended", "released", "not_released"}}
==============================================================================
