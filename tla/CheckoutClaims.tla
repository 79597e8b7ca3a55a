--------------------------- MODULE CheckoutClaims ---------------------------
(***************************************************************************)
(* Statements of prd.md about the checkout path that the code does not     *)
(* keep: each is the one property of a run in which TLC finds it violated. *)
(***************************************************************************)
EXTENDS MCCheckout

\* "From Reserved, if payment fails or doesn't arrive in time, the system will
\* release the reservation": no order awaits payment forever.
UnpaidOrdersEnd == \A o \in Handlers : order[o] = "pending" ~> order[o] # "pending"

\* What GET /v1/performances/:id/availability calls a seat: held when Redis has
\* a hold on it, available otherwise.
Offered(s) == hold[s] = Free

\* "After reaching Paid, the seat will no longer appear in any availability
\* queries": a sold seat is not offered as available.
SoldSeatsAreNotOffered == \A s \in Seats : seat[s].state = "sold" => ~Offered(s)
==============================================================================
