---------------------------- MODULE MCBackOffice ----------------------------
(* The back office.  Its three parts share no state, so a behaviour runs one  *)
(* of them: the states add up instead of multiplying.                        *)
EXTENDS VenueAccounts, VenueDesk, AdminAuthority

VARIABLE office     \* the part that runs

vars == <<office, accountVars, deskVars, admin>>

\* A discount of half the bill, fixed ones of more than a small bill and of
\* less than nothing, and one out of date.
MCDiscounts ==
    { [kind |-> "percentage", value |-> 50, current |-> TRUE],
      [kind |-> "fixed", value |-> 2, current |-> TRUE],
      [kind |-> "fixed", value |-> -1, current |-> TRUE],
      [kind |-> "percentage", value |-> 100, current |-> FALSE] }

MCFees == {-1, 1, 2}

MCTicketVenue(t) == IF t = "t2" THEN "v2" ELSE "v1"

DeskSymmetry == Permutations(DeskCalls)

BackOfficeInit ==
    /\ office \in {"accounts", "desk", "administrators"}
    /\ AccountInit /\ AdminInit /\ DeskInit
    /\ office # "desk" =>
         /\ operational = {}
         /\ deskUser = [u \in DeskUsers |-> Unknown]
         /\ staff = [key \in DeskUsers \X DeskVenues |-> NoStaff]

BackOfficeNext ==
    /\ office' = office
    /\ \/ office = "accounts" /\ AccountNext /\ UNCHANGED <<deskVars, admin>>
       \/ office = "desk" /\ DeskNext /\ UNCHANGED <<accountVars, admin>>
       \/ office = "administrators" /\ AdminNext /\ UNCHANGED <<accountVars, deskVars>>

BackOfficeSpec == BackOfficeInit /\ [][BackOfficeNext]_vars

\* The stored accounts, the desk's tables and calls, and the administrators
\* keep to the values the schema and the value objects allow.
BackOfficeTypeOK == AccountTypeOK /\ DeskTypeOK /\ AdminTypeOK
=============================================================================
