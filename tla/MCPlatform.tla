------------------------------ MODULE MCPlatform ------------------------------
(* The services around the sale.  They share no state, so a behaviour runs    *)
(* one of them: the states add up instead of multiplying.  They do share      *)
(* their model values, so that one symmetry serves them all.                 *)
EXTENDS SeatLockService, VenueScope, TicketGate, DomainEvents, Migrations, SeatmapStore, TLC

CONSTANTS a1, a2, b1, b2, k1, k2, k3

VARIABLE part       \* the service that runs

platformVars == <<part, lockVars, scopeVars, gateVars, eventVars, migrationVars, mapVars>>

PlatformSymmetry ==
    Permutations({a1, a2}) \cup Permutations({b1, b2}) \cup Permutations({k1, k2, k3})

\* A part that does not run stays in one initial state.
PlatformInit ==
    /\ part \in {"locks", "scope", "gate", "events", "migrations", "maps"}
    /\ LockInit /\ ScopeInit /\ GateInit /\ EventInit /\ MigrationInit /\ MapInit
    /\ part # "scope" => defaultRole = "other"
    /\ part # "gate" => configured
    /\ part # "events" => subscribed = {}
    /\ part # "migrations" => changed = {}
    /\ part # "maps" => hashing /\ legacy = {}

PlatformNext ==
    /\ part' = part
    /\ \/ /\ part = "locks" /\ LockNext
          /\ UNCHANGED <<scopeVars, gateVars, eventVars, migrationVars, mapVars>>
       \/ /\ part = "scope" /\ ScopeNext
          /\ UNCHANGED <<lockVars, gateVars, eventVars, migrationVars, mapVars>>
       \/ /\ part = "gate" /\ GateNext
          /\ UNCHANGED <<lockVars, scopeVars, eventVars, migrationVars, mapVars>>
       \/ /\ part = "events" /\ EventNext
          /\ UNCHANGED <<lockVars, scopeVars, gateVars, migrationVars, mapVars>>
       \/ /\ part = "migrations" /\ MigrationNext
          /\ UNCHANGED <<lockVars, scopeVars, gateVars, eventVars, mapVars>>
       \/ /\ part = "maps" /\ MapNext
          /\ UNCHANGED <<lockVars, scopeVars, gateVars, eventVars, migrationVars>>

PlatformSpec == PlatformInit /\ [][PlatformNext]_platformVars

\* Every store of the platform holds what its schema and its commands allow,
\* and every call stands at one of its commands.
PlatformTypeOK ==
    /\ LockTypeOK /\ ScopeTypeOK /\ GateTypeOK
    /\ EventTypeOK /\ MigrationTypeOK /\ MapTypeOK
=============================================================================
