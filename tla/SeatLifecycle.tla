---------------------------- MODULE SeatLifecycle ----------------------------
(***************************************************************************)
(* What checkout promises about seats, without handlers, transactions or   *)
(* events: an order reserves all its seats at once and only seats that are *)
(* available; it then sells all of them, with one ticket each, or gives    *)
(* all of them back.  A sold seat stays sold to the order that holds its   *)
(* only ticket.                                                            *)
(***************************************************************************)
EXTENDS Naturals

CONSTANTS Seats, Orders, NoOrder, SeatsOf(_)

VARIABLES seat, tickets

Available == [state |-> "available", order |-> NoOrder]
Reserved(o) == [state |-> "reserved", order |-> o]
Sold(o) == [state |-> "sold", order |-> o]

LifecycleInit ==
    /\ seat = [s \in Seats |-> Available]
    /\ tickets = [o \in Orders |-> [s \in Seats |-> 0]]

Reserve(o) ==
    /\ \A s \in SeatsOf(o) : seat[s] = Available
    /\ seat' = [s \in Seats |-> IF s \in SeatsOf(o) THEN Reserved(o) ELSE seat[s]]
    /\ UNCHANGED tickets

Sell(o) ==
    /\ \A s \in SeatsOf(o) : seat[s] = Reserved(o)
    /\ seat' = [s \in Seats |-> IF s \in SeatsOf(o) THEN Sold(o) ELSE seat[s]]
    /\ tickets' = [tickets EXCEPT ![o] = [s \in Seats |-> IF s \in SeatsOf(o) THEN 1 ELSE 0]]

GiveBack(o) ==
    /\ \A s \in SeatsOf(o) : seat[s] = Reserved(o)
    /\ seat' = [s \in Seats |-> IF s \in SeatsOf(o) THEN Available ELSE seat[s]]
    /\ UNCHANGED tickets

LifecycleNext == \E o \in Orders : Reserve(o) \/ Sell(o) \/ GiveBack(o)

LifecycleSpec == LifecycleInit /\ [][LifecycleNext]_<<seat, tickets>>
==============================================================================
