------------------------------ MODULE TicketGate ------------------------------
(***************************************************************************)
(* Signed tickets: POST /v1/tickets/issue, POST /v1/verification/redeem    *)
(* and the key ring each API process keeps in memory.  Redeeming reads the *)
(* status, then writes it, in one transaction without a lock in between.   *)
(***************************************************************************)
EXTENDS Naturals, FiniteSets

CONSTANTS
    GateProcesses,  \* API processes that issue and redeem
    GateTickets,    \* jti of the tickets, each issued once
    Scans,          \* redeem requests, each made once
    MaxKeys         \* bound: key rotations and restarts

ASSUME MaxKeysAssumption == MaxKeys \in Nat

VARIABLES
    configured,     \* TRUE if VERIFICATION_PRIVATE_PEM gives all processes one key
    ring,           \* per process: the kids in its key ring
    active,         \* per process: activeKid
    starts,         \* per process: how often it was restarted
    rotations,      \* the last kid a rotation made
    signed,         \* per ticket: the token handed out, or NoToken
    ticketRow,      \* ticketing.tickets.status
    expired,        \* tickets past exp
    scan

gateVars == <<configured, ring, active, starts, rotations, signed, ticketRow, expired, scan>>

MainKid == 0        \* VERIFICATION_KID, the same name in every process
NoToken == [kid |-> MaxKeys + 1]

\* The key pair a process has under a kid: without a configured key each
\* process generates its own, and a new one after a restart.
KeyUnder(p, kid) ==
    IF configured /\ kid = MainKid THEN [kid |-> kid]
    ELSE [kid |-> kid, of |-> p, start |-> starts[p]]

IdleScan == [at |-> "idle"]

GateTypeOK ==
    /\ configured \in BOOLEAN
    /\ ring \in [GateProcesses -> SUBSET (0..MaxKeys)]
    /\ \A p \in GateProcesses : active[p] \in ring[p] \cup {MainKid}
    /\ ticketRow \in [GateTickets -> {"none", "issued", "redeemed", "revoked"}]
    /\ \A t \in GateTickets : ticketRow[t] # "none" => signed[t] # NoToken
    /\ expired \subseteq GateTickets
    /\ \A s \in Scans : scan[s].at \in {"idle", "read", "write", "admitted", "refused", "failed"}

GateInit ==
    /\ configured \in BOOLEAN
    /\ ring = [p \in GateProcesses |-> {}]
    /\ active = [p \in GateProcesses |-> MainKid]
    /\ starts = [p \in GateProcesses |-> 0]
    /\ rotations = 0
    /\ signed = [t \in GateTickets |-> NoToken]
    /\ ticketRow = [t \in GateTickets |-> "none"]
    /\ expired = {}
    /\ scan = [s \in Scans |-> IdleScan]

\* ensureInitializedFromEnv, called for every signature and unknown kid: a ring
\* without the main key gets it, and it becomes the active one, even if a
\* rotation made another.
SigningKid(p) == IF MainKid \in ring[p] THEN active[p] ELSE MainKid

RingReady(p) ==
    /\ ring' = [ring EXCEPT ![p] = @ \cup {MainKid}]
    /\ active' = [active EXCEPT ![p] = SigningKid(p)]

KeysKept == UNCHANGED <<configured, starts, rotations>>
RingKept == KeysKept /\ UNCHANGED <<ring, active>>
TicketsKept == UNCHANGED <<signed, ticketRow, expired, scan>>

\* The token is signed, then the row inserted; the token is answered only if
\* the insert was.
Issue(p, t) ==
    /\ signed[t] = NoToken
    /\ RingReady(p)
    /\ signed' = [signed EXCEPT ![t] =
         [kid |-> SigningKid(p), key |-> KeyUnder(p, SigningKid(p)), by |-> p, start |-> starts[p]]]
    /\ ticketRow' = [ticketRow EXCEPT ![t] = "issued"]
    /\ KeysKept /\ UNCHANGED <<expired, scan>>

\* A slip: the token's kid is ignored.
PublicKeyActive(p, kid) == KeyUnder(p, SigningKid(p))

\* getPublicKeyByKid(kid) || getOrCreateKeyPair().publicKey
PublicKeyFor(p, kid) == KeyUnder(p, IF kid \in ring[p] THEN kid ELSE SigningKid(p))

Verifies(p, t) == PublicKeyFor(p, signed[t].kid) = signed[t].key

\* A scan's checks up to the transaction; before remembers who was let in.
Scan(s, p, t, sameTenant) ==
    /\ scan[s] = IdleScan
    /\ signed[t] # NoToken
    /\ IF signed[t].kid \in ring[p] THEN UNCHANGED <<ring, active>> ELSE RingReady(p)
    /\ scan' = [scan EXCEPT ![s] =
         IF Verifies(p, t) /\ t \notin expired /\ sameTenant
         THEN [at |-> "read", ticket |-> t, before |-> {d \in Scans : scan[d].at = "admitted"}]
         ELSE [at |-> "refused"]]
    /\ KeysKept /\ UNCHANGED <<signed, ticketRow, expired>>

\* A slip: a redeemed ticket is not told apart.
MayEnterUnlessRevoked(status) == status # "revoked"

MayEnter(status) == status \notin {"redeemed", "revoked"}

\* SELECT status
ReadStatus(s) ==
    /\ scan[s].at = "read"
    /\ scan' = [scan EXCEPT ![s].at =
         IF MayEnter(ticketRow[scan[s].ticket]) THEN "write" ELSE "refused"]
    /\ RingKept /\ UNCHANGED <<signed, ticketRow, expired>>

\* UPDATE ... SET status = 'redeemed' and COMMIT; either the whole transaction
\* is undone, or only its answer is lost.
Redeem(s, committed, answered) ==
    /\ scan[s].at = "write"
    /\ answered => committed
    /\ ticketRow' = IF committed THEN [ticketRow EXCEPT ![scan[s].ticket] = "redeemed"] ELSE ticketRow
    /\ scan' = [scan EXCEPT ![s].at = IF answered THEN "admitted" ELSE "failed"]
    /\ RingKept /\ UNCHANGED <<signed, expired>>

\* Nothing in the repository revokes a ticket; an operator may.
Revoke(t) ==
    /\ ticketRow[t] = "issued"
    /\ ticketRow' = [ticketRow EXCEPT ![t] = "revoked"]
    /\ RingKept /\ UNCHANGED <<signed, expired, scan>>

Expire(t) ==
    /\ signed[t] # NoToken
    /\ expired' = expired \cup {t}
    /\ RingKept /\ UNCHANGED <<signed, ticketRow, scan>>

\* rotateKeyPair: a new kid becomes the active one.
Rotate(p) ==
    /\ rotations < MaxKeys
    /\ rotations' = rotations + 1
    /\ ring' = [ring EXCEPT ![p] = @ \cup {rotations'}]
    /\ active' = [active EXCEPT ![p] = rotations']
    /\ UNCHANGED <<configured, starts>> /\ TicketsKept

\* The ring is "for process lifetime".
RestartGate(p) ==
    /\ starts[p] < MaxKeys
    /\ starts' = [starts EXCEPT ![p] = @ + 1]
    /\ ring' = [ring EXCEPT ![p] = {}]
    /\ active' = [active EXCEPT ![p] = MainKid]
    /\ UNCHANGED <<configured, rotations>> /\ TicketsKept

GateNext ==
    \/ \E p \in GateProcesses :
         \/ \E t \in GateTickets :
              \/ Issue(p, t)
              \/ \E s \in Scans, sameTenant \in BOOLEAN : Scan(s, p, t, sameTenant)
         \/ Rotate(p) \/ RestartGate(p)
    \/ \E s \in Scans :
         \/ ReadStatus(s)
         \/ \E committed, answered \in BOOLEAN : Redeem(s, committed, answered)
    \/ \E t \in GateTickets : Revoke(t) \/ Expire(t)

GateSpec == GateInit /\ [][GateNext]_gateVars

-----------------------------------------------------------------------------
\* Two scans let the same ticket in only if they overlapped: a scan that comes
\* after an admission, at any process, is refused.
NoLaterRedemption ==
    \A c, d \in Scans :
        /\ c # d /\ scan[c].at = "admitted" /\ scan[d].at = "admitted"
        /\ scan[c].ticket = scan[d].ticket
        => c \notin scan[d].before

\* Rotating the key does not invalidate tickets: the process that signed one
\* verifies it until it is restarted, and what was signed with a configured key
\* is verified by every process whatever restarts and rotations there were.
SignatureSurvivesRotation ==
    \A t \in GateTickets :
        LET token == signed[t] IN
        token # NoToken =>
          /\ starts[token.by] = token.start => Verifies(token.by, t)
          /\ configured /\ token.kid = MainKid => \A p \in GateProcesses : Verifies(p, t)
=============================================================================
