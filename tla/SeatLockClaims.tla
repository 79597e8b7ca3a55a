--------------------------- MODULE SeatLockClaims ---------------------------
(***************************************************************************)
(* A statement of prd.md about seat holds that the scripts do not keep for *)
(* every owner, because acquire_all_or_none uses the owner as a Lua        *)
(* pattern: TLC finds it violated.                                         *)
(***************************************************************************)
EXTENDS MCSeatLocks

\* "if a client tries to hold an already held seat (without knowing), they'll
\* get a specific error": no acquire takes a seat while another owner has it.
HeldSeatsAreRefused ==
    [][\A s \in Seats :
          hold[s] # Free /\ hold'[s] # Free => hold[s].owner = hold'[s].owner]_vars
==============================================================================
