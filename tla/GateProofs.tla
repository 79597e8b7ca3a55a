------------------------------ MODULE GateProofs ------------------------------
(***************************************************************************)
(* Proofs about TicketGate, for any number of processes, tickets, scans,   *)
(* rotations and restarts: a redeemed ticket lets no later scan in, and a  *)
(* rotation invalidates no ticket.                                         *)
(***************************************************************************)
EXTENDS TicketGate, TLAPS

\* A token and the key it was signed with: the one its process had then.
SignedKey(token) ==
    IF configured /\ token.kid = MainKid THEN [kid |-> token.kid]
    ELSE [kid |-> token.kid, of |-> token.by, start |-> token.start]

\* What a scan is once its token was accepted.
TicketScan ==
    [at : {"read", "write", "admitted", "refused", "failed"},
     ticket : GateTickets, before : SUBSET Scans]

Rings ==
    /\ configured \in BOOLEAN
    /\ ring \in [GateProcesses -> SUBSET (0..MaxKeys)]
    /\ active \in [GateProcesses -> 0..MaxKeys]
    /\ starts \in [GateProcesses -> Nat]
    /\ rotations \in 0..MaxKeys
    /\ \A p \in GateProcesses : active[p] \in ring[p] \cup {MainKid}

\* A process still has the key of every token it has signed since its start.
Tokens ==
    /\ signed = [t \in GateTickets |-> signed[t]]
    /\ \A t \in GateTickets : signed[t] # NoToken =>
         /\ signed[t].kid \in 0..MaxKeys
         /\ signed[t].by \in GateProcesses
         /\ signed[t].start \in Nat
         /\ signed[t].start <= starts[signed[t].by]
         /\ signed[t].key = SignedKey(signed[t])
         /\ signed[t].start = starts[signed[t].by] => signed[t].kid \in ring[signed[t].by]

Rows ==
    /\ ticketRow \in [GateTickets -> {"none", "issued", "redeemed", "revoked"}]
    /\ \A t \in GateTickets : ticketRow[t] = "none" <=> signed[t] = NoToken
    /\ expired \subseteq GateTickets

ScansTyped == scan \in [Scans -> {IdleScan, [at |-> "refused"]} \cup TicketScan]

\* A scan past the signature holds a ticket that was issued.
ScannedWasIssued ==
    \A s \in Scans : scan[s].at \in {"read", "write"} => ticketRow[scan[s].ticket] # "none"

\* Who was let in has redeemed the ticket, for good.
AdmittedMeansRedeemed ==
    \A s \in Scans : scan[s].at = "admitted" => ticketRow[scan[s].ticket] = "redeemed"

\* A scan that has got past the status saw none of its ticket's redemptions,
\* so no scan that had been let in when it came held the same ticket.
EarlierTicketsDiffer ==
    \A c \in Scans : scan[c].at \in {"read", "write", "admitted"} =>
        \A d \in scan[c].before :
            /\ scan[d].at = "admitted"
            /\ scan[c].at # "read" => scan[d].ticket # scan[c].ticket

GateInv ==
    /\ Rings /\ Tokens /\ Rows /\ ScansTyped
    /\ ScannedWasIssued /\ AdmittedMeansRedeemed /\ EarlierTicketsDiffer

-----------------------------------------------------------------------------
LEMMA GateInitInv == GateInit => GateInv
  <1> SUFFICES ASSUME GateInit PROVE GateInv
    OBVIOUS
  <1> USE MaxKeysAssumption DEF GateInit
  <1>1. Rings
    BY DEF Rings, MainKid
  <1>2. Tokens /\ Rows
    BY DEF Tokens, Rows
  <1>3. ScansTyped /\ ScannedWasIssued /\ AdmittedMeansRedeemed /\ EarlierTicketsDiffer
    BY DEF ScansTyped, ScannedWasIssued, AdmittedMeansRedeemed, EarlierTicketsDiffer, IdleScan
  <1> QED
    BY <1>1, <1>2, <1>3 DEF GateInv

\* The main key enters a ring and is signed with, or the active one is.
LEMMA RingReadyKeeps ==
    ASSUME Rings, NEW p \in GateProcesses, RingReady(p), KeysKept
    PROVE  /\ Rings'
           /\ \A q \in GateProcesses : ring[q] \subseteq ring'[q]
           /\ SigningKid(p) \in ring'[p] /\ SigningKid(p) \in 0..MaxKeys
  BY MaxKeysAssumption DEF Rings, RingReady, KeysKept, SigningKid, MainKid

\* The rings' steps only add keys, but for a restart, which makes all tokens
\* of the process those of an earlier start.
LEMMA RingsStep ==
    ASSUME GateInv, GateNext
    PROVE  /\ Rings'
           /\ configured' = configured
           /\ \A p \in GateProcesses :
                \/ starts'[p] = starts[p] /\ ring[p] \subseteq ring'[p]
                \/ starts'[p] = starts[p] + 1
  <1> DEFINE Goal ==
        /\ Rings'
        /\ configured' = configured
        /\ \A p \in GateProcesses :
             \/ starts'[p] = starts[p] /\ ring[p] \subseteq ring'[p]
             \/ starts'[p] = starts[p] + 1
  <1> USE DEF GateInv
  <1>1. ASSUME NEW p \in GateProcesses, RingReady(p), KeysKept PROVE Goal
    BY <1>1, RingReadyKeeps DEF KeysKept
  <1>2. ASSUME UNCHANGED <<configured, ring, active, starts, rotations>> PROVE Goal
    BY <1>2 DEF Rings
  <1>3. ASSUME NEW p \in GateProcesses, NEW t \in GateTickets, Issue(p, t) PROVE Goal
    BY <1>1, <1>3 DEF Issue
  <1>4. ASSUME NEW p \in GateProcesses, NEW t \in GateTickets, NEW s \in Scans,
               NEW same \in BOOLEAN, Scan(s, p, t, same)
        PROVE  Goal
    BY <1>1, <1>2, <1>4 DEF Scan, KeysKept
  <1>5. ASSUME NEW p \in GateProcesses, Rotate(p) PROVE Goal
    BY <1>5, MaxKeysAssumption DEF Rotate, Rings
  <1>6. ASSUME NEW p \in GateProcesses, RestartGate(p) PROVE Goal
    BY <1>6, MaxKeysAssumption DEF RestartGate, Rings, MainKid
  <1>7. ASSUME NEW s \in Scans, ReadStatus(s) PROVE Goal
    BY <1>2, <1>7 DEF ReadStatus, RingKept, KeysKept
  <1>8. ASSUME NEW s \in Scans, NEW committed \in BOOLEAN, NEW answered \in BOOLEAN,
               Redeem(s, committed, answered)
        PROVE  Goal
    BY <1>2, <1>8 DEF Redeem, RingKept, KeysKept
  <1>9. ASSUME NEW t \in GateTickets, Revoke(t) \/ Expire(t) PROVE Goal
    BY <1>2, <1>9 DEF Revoke, Expire, RingKept, KeysKept
  <1> QED
    BY <1>3, <1>4, <1>5, <1>6, <1>7, <1>8, <1>9 DEF GateNext

\* Tokens and rows change in these ways only.
LEMMA TicketStep ==
    ASSUME GateInv, GateNext
    PROVE  \/ /\ \E p \in GateProcesses, t \in GateTickets : Issue(p, t)
              /\ UNCHANGED <<scan, expired>>
           \/ /\ UNCHANGED signed
              /\ expired' \subseteq GateTickets
              /\ ticketRow' \in [GateTickets -> {"none", "issued", "redeemed", "revoked"}]
              /\ \A t \in GateTickets :
                   /\ ticketRow'[t] = "none" <=> ticketRow[t] = "none"
                   /\ ticketRow[t] = "redeemed" => ticketRow'[t] = "redeemed"
  <1> DEFINE Kept ==
        /\ UNCHANGED signed
        /\ expired' \subseteq GateTickets
        /\ ticketRow' \in [GateTickets -> {"none", "issued", "redeemed", "revoked"}]
        /\ \A t \in GateTickets :
             /\ ticketRow'[t] = "none" <=> ticketRow[t] = "none"
             /\ ticketRow[t] = "redeemed" => ticketRow'[t] = "redeemed"
  <1> USE DEF GateInv, Rows
  <1>1. ASSUME NEW s \in Scans, NEW committed \in BOOLEAN, NEW answered \in BOOLEAN,
               Redeem(s, committed, answered)
        PROVE  Kept
    <2>1. scan[s] \in TicketScan
      BY <1>1 DEF Redeem, ScansTyped, IdleScan
    <2>2. PICK t \in GateTickets : t = scan[s].ticket
      BY <2>1 DEF TicketScan
    <2>3. ticketRow[t] # "none"
      BY <1>1, <2>2 DEF Redeem, ScannedWasIssued
    <2> QED
      BY <1>1, <2>2, <2>3 DEF Redeem
  <1>2. ASSUME NEW t \in GateTickets, Revoke(t) \/ Expire(t) PROVE Kept
    BY <1>2 DEF Revoke, Expire
  <1>3. ASSUME UNCHANGED <<signed, ticketRow, expired>> PROVE Kept
    BY <1>3
  <1>4. ASSUME NEW p \in GateProcesses, NEW t \in GateTickets, Issue(p, t)
        PROVE  UNCHANGED <<scan, expired>>
    BY <1>4 DEF Issue
  <1> QED
    BY <1>1, <1>2, <1>3, <1>4
       DEF GateNext, Scan, Rotate, RestartGate, ReadStatus, TicketsKept

\* Scans change in these ways only.
LEMMA ScanStep ==
    ASSUME GateInv, GateNext
    PROVE  \/ UNCHANGED scan
           \/ \E s \in Scans, t \in GateTickets :
                /\ scan[s] = IdleScan /\ signed[t] # NoToken
                /\ scan' \in {[scan EXCEPT ![s] = [at |-> "refused"]],
                             [scan EXCEPT ![s] = [at |-> "read", ticket |-> t,
                                before |-> {d \in Scans : scan[d].at = "admitted"}]]}
                /\ UNCHANGED <<signed, ticketRow>>
           \/ \E s \in Scans :
                /\ \/ ReadStatus(s)
                   \/ \E committed, answered \in BOOLEAN : Redeem(s, committed, answered)
                /\ scan[s] \in TicketScan
  <1>1. ASSUME NEW s \in Scans,
               ReadStatus(s) \/ \E committed, answered \in BOOLEAN : Redeem(s, committed, answered)
        PROVE  scan[s] \in TicketScan
    BY <1>1 DEF GateInv, ScansTyped, ReadStatus, Redeem, IdleScan
  <1>2. ASSUME NEW p \in GateProcesses, NEW t \in GateTickets, NEW s \in Scans,
               NEW same \in BOOLEAN, Scan(s, p, t, same)
        PROVE  /\ scan[s] = IdleScan /\ signed[t] # NoToken
               /\ scan' \in {[scan EXCEPT ![s] = [at |-> "refused"]],
                            [scan EXCEPT ![s] = [at |-> "read", ticket |-> t,
                               before |-> {d \in Scans : scan[d].at = "admitted"}]]}
               /\ UNCHANGED <<signed, ticketRow>>
    BY <1>2 DEF Scan
  <1> QED
    BY <1>1, <1>2 DEF GateNext, Issue, Rotate, RestartGate, Revoke, Expire, TicketsKept

-----------------------------------------------------------------------------
LEMMA TokensKept == GateInv /\ GateNext => Tokens'
  <1> SUFFICES ASSUME GateInv, GateNext PROVE Tokens'
    OBVIOUS
  <1>1. CASE UNCHANGED signed
    <2> SUFFICES ASSUME NEW t \in GateTickets, signed[t] # NoToken
                 PROVE  /\ signed[t].start <= starts'[signed[t].by]
                        /\ signed[t].key = SignedKey(signed[t])'
                        /\ signed[t].start = starts'[signed[t].by] =>
                             signed[t].kid \in ring'[signed[t].by]
      BY <1>1 DEF Tokens, GateInv
    <2> QED
      BY <1>1, RingsStep DEF Tokens, GateInv, Rings, SignedKey
  <1>2. ASSUME NEW p \in GateProcesses, NEW t \in GateTickets, Issue(p, t) PROVE Tokens'
    <2> DEFINE token == [kid |-> SigningKid(p), key |-> KeyUnder(p, SigningKid(p)),
                         by |-> p, start |-> starts[p]]
    <2>1. signed' = [signed EXCEPT ![t] = token] /\ UNCHANGED <<configured, starts>>
      BY <1>2 DEF Issue, KeysKept
    <2>2. \A q \in GateProcesses : ring[q] \subseteq ring'[q]
      BY <1>2, RingReadyKeeps DEF GateInv, Issue
    <2>3. token.kid \in ring'[p] /\ token.kid \in 0..MaxKeys
      BY <1>2, RingReadyKeeps DEF GateInv, Issue
    <2>4. token.key = SignedKey(token)
      BY DEF KeyUnder, SignedKey
    <2>5. signed'[t] = token
      BY <2>1 DEF GateInv, Tokens
    <2>6. signed' = [u \in GateTickets |-> signed'[u]]
      BY <2>1 DEF GateInv, Tokens
    <2>7. starts[p] \in Nat
      BY DEF GateInv, Rings
    <2>8. ASSUME NEW u \in GateTickets, signed'[u] # NoToken
          PROVE  /\ signed'[u].kid \in 0..MaxKeys
                 /\ signed'[u].by \in GateProcesses
                 /\ signed'[u].start \in Nat
                 /\ signed'[u].start <= starts'[signed'[u].by]
                 /\ signed'[u].key = SignedKey(signed[u])'
                 /\ signed'[u].start = starts'[signed'[u].by] =>
                      signed'[u].kid \in ring'[signed'[u].by]
      <3>1. CASE u = t
        BY <2>1, <2>3, <2>4, <2>5, <2>7, <3>1 DEF SignedKey
      <3>2. CASE u # t
        <4>1. signed'[u] = signed[u]
          BY <2>1, <3>2 DEF GateInv, Tokens
        <4> QED
          BY <2>1, <2>2, <2>8, <4>1 DEF GateInv, Tokens, SignedKey
      <3> QED
        BY <3>1, <3>2
    <2> QED
      BY <2>6, <2>8 DEF Tokens
  <1> QED
    BY <1>1, <1>2, TicketStep

LEMMA RowsKept ==
    ASSUME GateInv, GateNext
    PROVE  /\ Rows'
           /\ \A t \in GateTickets :
                /\ ticketRow[t] # "none" => ticketRow'[t] # "none"
                /\ ticketRow[t] = "redeemed" => ticketRow'[t] = "redeemed"
  <1> DEFINE Goal ==
        /\ Rows'
        /\ \A t \in GateTickets :
             /\ ticketRow[t] # "none" => ticketRow'[t] # "none"
             /\ ticketRow[t] = "redeemed" => ticketRow'[t] = "redeemed"
  <1>1. ASSUME NEW p \in GateProcesses, NEW t \in GateTickets, Issue(p, t),
               UNCHANGED <<scan, expired>>
        PROVE  Goal
    <2>1. SigningKid(p) \in 0..MaxKeys
      BY <1>1, RingReadyKeeps DEF GateInv, Issue
    <2> QED
      BY <1>1, <2>1, MaxKeysAssumption DEF GateInv, Rows, Tokens, Issue, NoToken
  <1> QED
    BY <1>1, TicketStep DEF GateInv, Rows

LEMMA ScansKept ==
    ASSUME GateInv, GateNext
    PROVE  ScansTyped' /\ ScannedWasIssued' /\ AdmittedMeansRedeemed' /\ EarlierTicketsDiffer'
  <1> DEFINE Goal ==
        ScansTyped' /\ ScannedWasIssued' /\ AdmittedMeansRedeemed' /\ EarlierTicketsDiffer'
  <1>0. \A s \in Scans :
          \/ scan[s] \in TicketScan
          \/ scan[s].at \in {"idle", "refused"} /\ scan[s] \in {IdleScan, [at |-> "refused"]}
    BY DEF GateInv, ScansTyped, IdleScan
  <1>1. CASE UNCHANGED scan
    BY <1>0, <1>1, RowsKept
       DEF GateInv, ScansTyped, ScannedWasIssued, AdmittedMeansRedeemed, EarlierTicketsDiffer, TicketScan
  <1>2. ASSUME NEW s \in Scans, NEW t \in GateTickets, scan[s] = IdleScan, signed[t] # NoToken,
               scan' = [scan EXCEPT ![s] = [at |-> "refused"]],
               UNCHANGED <<signed, ticketRow>>
        PROVE  Goal
    BY <1>2 DEF GateInv, ScansTyped, ScannedWasIssued, AdmittedMeansRedeemed, EarlierTicketsDiffer, IdleScan
  <1>3. ASSUME NEW s \in Scans, NEW t \in GateTickets, scan[s] = IdleScan, signed[t] # NoToken,
               scan' = [scan EXCEPT ![s] = [at |-> "read", ticket |-> t,
                          before |-> {d \in Scans : scan[d].at = "admitted"}]],
               UNCHANGED <<signed, ticketRow>>
        PROVE  Goal
    BY <1>3 DEF GateInv, Rows, ScansTyped, ScannedWasIssued, AdmittedMeansRedeemed,
                EarlierTicketsDiffer, IdleScan, TicketScan
  <1>4. ASSUME NEW s \in Scans, scan[s] \in TicketScan, ReadStatus(s) PROVE Goal
    <2>1. UNCHANGED ticketRow /\ scan[s].at = "read"
      BY <1>4 DEF ReadStatus
    <2> PICK at \in {"write", "refused"} :
          /\ scan' = [scan EXCEPT ![s].at = at]
          /\ at = "write" => ticketRow[scan[s].ticket] # "redeemed"
      BY <1>4 DEF ReadStatus, MayEnter
    <2>2. ScansTyped' /\ ScannedWasIssued' /\ AdmittedMeansRedeemed'
      BY <1>4, <2>1 DEF GateInv, ScansTyped, ScannedWasIssued, AdmittedMeansRedeemed, TicketScan
    <2>3. EarlierTicketsDiffer'
      BY <1>4, <2>1 DEF GateInv, ScansTyped, AdmittedMeansRedeemed, EarlierTicketsDiffer, TicketScan
    <2> QED
      BY <2>2, <2>3
  <1>5. ASSUME NEW s \in Scans, scan[s] \in TicketScan, NEW committed \in BOOLEAN,
               NEW answered \in BOOLEAN, Redeem(s, committed, answered)
        PROVE  Goal
    <2>1. scan[s].at = "write"
      BY <1>5 DEF Redeem
    <2> PICK at \in {"admitted", "failed"} :
          /\ scan' = [scan EXCEPT ![s].at = at]
          /\ at = "admitted" => ticketRow'[scan[s].ticket] = "redeemed"
      BY <1>5 DEF Redeem, GateInv, Rows, TicketScan
    <2>2. ScansTyped'
      BY <1>5, <2>1 DEF GateInv, ScansTyped, TicketScan
    <2>3. ScannedWasIssued' /\ AdmittedMeansRedeemed'
      BY <1>0, <1>5, <2>1, RowsKept DEF GateInv, ScansTyped, ScannedWasIssued, AdmittedMeansRedeemed, TicketScan
    <2>4. EarlierTicketsDiffer'
      BY <1>0, <1>5, <2>1 DEF GateInv, ScansTyped, EarlierTicketsDiffer, TicketScan
    <2> QED
      BY <2>2, <2>3, <2>4
  <1> QED
    BY <1>1, <1>2, <1>3, <1>4, <1>5, ScanStep

LEMMA GateStutter == GateInv /\ UNCHANGED gateVars => GateInv'
  BY DEF GateInv, gateVars, Rings, Tokens, Rows, ScansTyped, ScannedWasIssued,
         AdmittedMeansRedeemed, EarlierTicketsDiffer, SignedKey

\* GateInv holds in every state the gate can come to.
THEOREM GateSpecInv == GateSpec => []GateInv
  <1>1. GateInv /\ [GateNext]_gateVars => GateInv'
    BY GateStutter, RingsStep, TokensKept, RowsKept, ScansKept DEF GateInv
  <1> QED
    BY GateInitInv, <1>1, PTL DEF GateSpec

-----------------------------------------------------------------------------
\* The rings, rows and scans of the gate keep to their types.
THEOREM GateTypes == GateSpec => []GateTypeOK
  <1>1. GateInv => GateTypeOK
    <2> SUFFICES ASSUME GateInv PROVE GateTypeOK
      OBVIOUS
    <2>1. \A s \in Scans : scan[s].at \in {"idle", "read", "write", "admitted", "refused", "failed"}
      BY DEF GateInv, ScansTyped, TicketScan, IdleScan
    <2> QED
      BY <2>1 DEF GateInv, GateTypeOK, Rings, Rows
  <1> QED
    BY GateSpecInv, <1>1, PTL

\* A ticket is not redeemed again by a scan that comes after one was let in,
\* at whatever process (verification/routes.ts, redeem).
THEOREM LaterScansRefused == GateSpec => []NoLaterRedemption
  <1>1. GateInv => NoLaterRedemption
    BY DEF GateInv, EarlierTicketsDiffer, NoLaterRedemption
  <1> QED
    BY GateSpecInv, <1>1, PTL

\* A rotation invalidates no ticket: neither one of a process that was not
\* restarted, nor one signed with the configured key (verification/keys.ts).
THEOREM RotationsInvalidateNothing == GateSpec => []SignatureSurvivesRotation
  <1>1. GateInv => SignatureSurvivesRotation
    <2> SUFFICES ASSUME GateInv, NEW t \in GateTickets, signed[t] # NoToken
                 PROVE  /\ starts[signed[t].by] = signed[t].start => Verifies(signed[t].by, t)
                        /\ configured /\ signed[t].kid = MainKid =>
                             \A p \in GateProcesses : Verifies(p, t)
      BY DEF SignatureSurvivesRotation
    <2>1. ASSUME starts[signed[t].by] = signed[t].start PROVE Verifies(signed[t].by, t)
      BY <2>1 DEF GateInv, Tokens, Verifies, PublicKeyFor, KeyUnder, SignedKey
    <2>2. ASSUME configured, signed[t].kid = MainKid, NEW p \in GateProcesses PROVE Verifies(p, t)
      BY <2>2 DEF GateInv, Tokens, Verifies, PublicKeyFor, KeyUnder, SignedKey, SigningKid
    <2> QED
      BY <2>1, <2>2
  <1> QED
    BY GateSpecInv, <1>1, PTL
=============================================================================
