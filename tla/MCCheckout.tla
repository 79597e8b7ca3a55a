----------------------------- MODULE MCCheckout -----------------------------
(* Small instances of Checkout. *)
EXTENDS Checkout, TLC

CONSTANTS s1, s2, alice, bob, k1, k2, h1, h2, h3, r1, r2

Request(seats, token, key, id) ==
    [seats |-> seats, token |-> token, key |-> key, id |-> id]

HoldOf(o) == [owner |-> o, version |-> 1]

\* Whatever the owners' patterns match: alice's matches bob's holds too, bob's does
\* not match his own.
BuyerPattern == {<<alice, alice>>, <<alice, bob>>}

\* Two buyers want the same two seats and list them in opposite orders.
TwoBuyers ==
    h1 :> Request(<<s1, s2>>, HoldOf(alice), k1, r1) @@
    h2 :> Request(<<s2, s1>>, HoldOf(bob), k2, r2)

\* Two buyers want the same seat.
OneSeat ==
    h1 :> Request(<<s1>>, HoldOf(alice), k1, r1) @@
    h2 :> Request(<<s1>>, HoldOf(bob), k2, r2)

\* One buyer sends the same order again under the same idempotency key: once
\* repeating the X-Request-ID too, once as a new request without the hold token.
Retry ==
    h1 :> Request(<<s1>>, HoldOf(alice), k1, r1) @@
    h2 :> Request(<<s1>>, HoldOf(alice), k1, r1) @@
    h3 :> Request(<<s1>>, NoToken, k1, r2)
==============================================================================
