------------------------------ MODULE SeatLease ------------------------------
(***************************************************************************)
(* What the seat-lock store promises its callers, with no script, retry or *)
(* clock in sight: every seat is free or leased under one token, a token   *)
(* is granted to a whole set of seats at once, a lease may end at any time *)
(* (release or expiry), and a seat passes from one owner straight to       *)
(* another only if the second one's Lua pattern matches what the first has *)
(* written.                                                                *)
(***************************************************************************)
EXTENDS Naturals

CONSTANTS
    Seats,     \* the seats of one performance
    Owners,    \* request identities that take holds
    Versions,  \* fencing versions
    Free,      \* the holder of a seat nobody holds
    OwnerPattern  \* <<o, p>>: the Lua pattern ':o$' matches a value p wrote

Token == [owner : Owners, version : Versions]

ASSUME FreeIsNoToken == Free \notin Token

VARIABLE hold  \* hold[s] is the token a seat is leased under, or Free

LeaseInit == hold = [s \in Seats |-> Free]

\* All the seats of S go to t, if each is free or its holder counts as t's owner.
\* An owner need not even count as itself: see OwnerPattern in SeatLocks.
Grant(S, t) ==
    /\ \A s \in S : hold[s] # Free => <<t.owner, hold[s].owner>> \in OwnerPattern
    /\ hold' = [s \in Seats |-> IF s \in S THEN t ELSE hold[s]]

\* Some leases end: the holder released, or Redis expired the keys.
End(S) ==
    hold' = [s \in Seats |-> IF s \in S THEN Free ELSE hold[s]]

LeaseNext ==
    \E S \in SUBSET Seats :
        \/ \E t \in Token : Grant(S, t)
        \/ End(S)

LeaseSpec == LeaseInit /\ [][LeaseNext]_hold
==============================================================================
