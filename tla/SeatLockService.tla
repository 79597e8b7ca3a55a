--------------------------- MODULE SeatLockService ---------------------------
(***************************************************************************)
(* The seat locks of the service container: AcquireSeatLocks and           *)
(* RedisSeatLockService over RedisAdapter.  One Redis key per seat holds   *)
(* the lock.  Acquiring is one Lua script; releasing, extending and        *)
(* cleaning up read and write in separate commands with an await between   *)
(* them, so each command is an action of its own here.                     *)
(*                                                                         *)
(* A user's set of locked seats is always empty: the script adds to it     *)
(* only if SET answers the string 'OK', and redis.call answers a table.    *)
(* So getUserLocks finds nothing, and a release or extension that names no *)
(* seats has none to handle.                                               *)
(***************************************************************************)
EXTENDS Naturals, FiniteSets

CONSTANTS
    LockUsers,      \* user ids
    LockSeats,      \* seat ids of one event, no more than maxTicketsPerUser
    LockCalls,      \* calls of the service, each made once
    MaxExtensions,  \* extensions a lock allows
    MaxToken        \* bound: master fencing tokens drawn in a behaviour

VARIABLES
    seatKey,    \* seat:lock:{event}:{seat}
    scripts,    \* TRUE while the service has a SHA that Redis knows
    lockCall,   \* where each call stands and what it has read
    lastToken,  \* master tokens are drawn in increasing order
    sweep,      \* the lock on a seat that cleanupExpiredLocks is about to delete, by its token
    extended,   \* kept for the properties: how often each lock was extended
    overlapped  \* kept for the properties: the locks two extensions of which overlapped

lockVars == <<seatKey, scripts, lockCall, lastToken, sweep, extended, overlapped>>
lockHistory == <<extended, overlapped>>

Nobody == "nobody"

ASSUME LockAssumption ==
    Nobody \notin LockUsers /\ MaxExtensions \in Nat /\ MaxToken \in Nat

\* A lock: its user, its fencing token (the seat's part left out), how often it
\* was extended, and whether its key has a time to live.
SeatLock == [user : LockUsers, token : 1..MaxToken, count : Nat, ttl : BOOLEAN]

NoLock == [user |-> Nobody, token |-> 0, count |-> 0, ttl |-> FALSE]

\* A call: at is its next command; seats are those still to handle (for an
\* acquisition, those asked for); seat and read are the one it is at.
IdleCall ==
    [at |-> "idle", op |-> "none", user |-> Nobody, token |-> 0, ttl |-> TRUE,
     seats |-> {}, seat |-> Nobody, read |-> NoLock]

LockTypeOK ==
    /\ seatKey \in [LockSeats -> SeatLock \cup {NoLock}]
    /\ scripts \in BOOLEAN
    /\ lastToken \in 0..MaxToken
    /\ sweep \in [LockSeats -> 0..MaxToken]
    /\ extended \in [LockSeats \X (1..MaxToken) -> Nat]
    /\ overlapped \subseteq LockSeats \X (1..MaxToken)
    /\ \A c \in LockCalls :
         /\ lockCall[c].at \in {"idle", "acquire", "next", "write", "done"}
         /\ lockCall[c].read \in SeatLock \cup {NoLock}
         /\ lockCall[c].seats \subseteq LockSeats

LockInit ==
    /\ seatKey = [s \in LockSeats |-> NoLock]
    /\ scripts = FALSE
    /\ lockCall = [c \in LockCalls |-> IdleCall]
    /\ lastToken = 0
    /\ sweep = [s \in LockSeats |-> 0]
    /\ extended = [lock \in LockSeats \X (1..MaxToken) |-> 0]
    /\ overlapped = {}

\* The constructor loads the script and nobody waits for it; a build without
\* __dirname never does.
LoadScripts ==
    /\ ~scripts
    /\ scripts' = TRUE
    /\ UNCHANGED <<seatKey, lockCall, lastToken, sweep, lockHistory>>

\* The other seat locks' adapter flushes all scripts when it starts; this
\* service does not load its own again before it is restarted.
LoseScripts ==
    /\ scripts
    /\ scripts' = FALSE
    /\ UNCHANGED <<seatKey, lockCall, lastToken, sweep, lockHistory>>

Go(c, call) == lockCall' = [lockCall EXCEPT ![c] = call]

\* The loops over seats: s is handled, the next seat is looked at.
NextSeat(c, s) ==
    Go(c, [lockCall[c] EXCEPT !.at = "next", !.seats = @ \ {s}, !.seat = Nobody, !.read = NoLock])

AskAcquire(c, u, S) ==
    /\ lockCall[c].at = "idle"
    /\ S # {}
    /\ Go(c, [IdleCall EXCEPT !.at = "acquire", !.op = "acquire", !.user = u, !.seats = S])
    /\ UNCHANGED <<seatKey, scripts, lastToken, sweep, lockHistory>>

\* Token 0 is a prefix of every token of the user, such as his id.
AskRelease(c, u, S, t) ==
    /\ lockCall[c].at = "idle"
    /\ Go(c, [IdleCall EXCEPT !.at = "next", !.op = "release", !.user = u, !.seats = S, !.token = t])
    /\ UNCHANGED <<seatKey, scripts, lastToken, sweep, lockHistory>>

\* additionalSeconds = 0 makes RedisAdapter.set write a key without expiry.
AskExtend(c, u, S, ttl) ==
    /\ lockCall[c].at = "idle"
    /\ Go(c, [IdleCall EXCEPT !.at = "next", !.op = "extend", !.user = u, !.seats = S, !.ttl = ttl])
    /\ UNCHANGED <<seatKey, scripts, lastToken, sweep, lockHistory>>

\* A slip: the script without its first pass and without NX.
TakeAll(S) == S

\* Both passes of the script: the seats nobody has locked are taken.
Takes(S) == {s \in S : seatKey[s] = NoLock}

\* acquire_seat_locks.lua, or the fallback and the NOSCRIPT error that take
\* nothing.  The caller is told of a failure whatever was taken, at one of two
\* places: the script lists seats it takes as failed ones and encodes an empty
\* list as an object, which has no map.  acquireLocks fails on acquired_locks,
\* unless the user had one of the seats already; then it succeeds, and
\* AcquireSeatLocks fails on queuedSeats.
RunAcquire(c) ==
    LET got == IF scripts THEN Takes(lockCall[c].seats) ELSE {}
        new == [user |-> lockCall[c].user, token |-> lastToken + 1, count |-> 0, ttl |-> TRUE]
    IN  /\ lockCall[c].at = "acquire"
        /\ lastToken < MaxToken
        /\ lastToken' = lastToken + 1
        /\ seatKey' = [s \in LockSeats |-> IF s \in got THEN new ELSE seatKey[s]]
        /\ Go(c, [lockCall[c] EXCEPT !.at = "done"])
        /\ UNCHANGED <<scripts, sweep, lockHistory>>

\* A slip: an extension more than the lock allows.
MayWriteOnceMore(call, lock) == lock.user = call.user /\ lock.count <= MaxExtensions

\* What release and extend check of the lock they have read; an extension does
\* not look at the fencing token.
MayWrite(call, lock) ==
    /\ lock.user = call.user
    /\ call.op = "release" => call.token \in {0, lock.token}
    /\ call.op = "extend" => lock.count < MaxExtensions

\* GET and the checks.
ReadLock(c, s) ==
    /\ lockCall[c].at = "next"
    /\ s \in lockCall[c].seats
    /\ IF MayWrite(lockCall[c], seatKey[s])
       THEN Go(c, [lockCall[c] EXCEPT !.at = "write", !.seat = s, !.read = seatKey[s]])
       ELSE NextSeat(c, s)
    /\ UNCHANGED <<seatKey, scripts, lastToken, sweep, lockHistory>>

Return(c) ==
    /\ lockCall[c].at = "next"
    /\ lockCall[c].seats = {}
    /\ Go(c, [lockCall[c] EXCEPT !.at = "done"])
    /\ UNCHANGED <<seatKey, scripts, lastToken, sweep, lockHistory>>

\* RedisAdapter.set: SETEX, or a key that never expires if the seconds are 0.
SetKey(s, lock, ttl) == seatKey' = [seatKey EXCEPT ![s] = [lock EXCEPT !.ttl = ttl]]

\* RedisAdapter.del.
DelKey(s) == seatKey' = [seatKey EXCEPT ![s] = NoLock]

\* DEL, whatever the key holds by now (and SREM, from an empty set).
DeleteLock(c) ==
    /\ lockCall[c].at = "write" /\ lockCall[c].op = "release"
    /\ DelKey(lockCall[c].seat)
    /\ NextSeat(c, lockCall[c].seat)
    /\ UNCHANGED <<scripts, lastToken, sweep, lockHistory>>

\* Call c has read a lock and is about to write it back extended.
Extending(c, s, t) ==
    /\ lockCall[c].at = "write" /\ lockCall[c].op = "extend"
    /\ lockCall[c].seat = s /\ lockCall[c].read.token = t

\* SETEX of the lock read before, whatever the key holds by now.
WriteExtended(c) ==
    \E s \in LockSeats, t \in 1..MaxToken :
        /\ Extending(c, s, t)
        /\ SetKey(s, [lockCall[c].read EXCEPT !.count = @ + 1], lockCall[c].ttl)
        /\ NextSeat(c, s)
        /\ extended' = [extended EXCEPT ![<<s, t>>] = @ + 1]
        /\ overlapped' = IF \E d \in LockCalls \ {c} : Extending(d, s, t)
                         THEN overlapped \cup {<<s, t>>} ELSE overlapped
        /\ UNCHANGED <<scripts, lastToken, sweep>>

\* A command throws: the seat is reported as failed, the others are handled.
SeatFails(c, s) ==
    /\ lockCall[c].at \in {"next", "write"}
    /\ lockCall[c].at = "write" => s = lockCall[c].seat
    /\ s \in lockCall[c].seats
    /\ NextSeat(c, s)
    /\ UNCHANGED <<seatKey, scripts, lastToken, sweep, lockHistory>>

\* cleanupExpiredLocks: TTL says the key has no expiry or less than a second...
SweepRead(s) ==
    /\ seatKey[s] # NoLock
    /\ sweep' = [sweep EXCEPT ![s] = seatKey[s].token]
    /\ UNCHANGED <<seatKey, scripts, lockCall, lastToken, lockHistory>>

\* ... and DEL follows, whatever the key holds by now.
SweepDelete(s) ==
    /\ sweep[s] # 0
    /\ DelKey(s)
    /\ sweep' = [sweep EXCEPT ![s] = 0]
    /\ UNCHANGED <<scripts, lockCall, lastToken, lockHistory>>

ExpireLock(s) ==
    /\ seatKey[s].ttl
    /\ seatKey' = [seatKey EXCEPT ![s] = NoLock]
    /\ UNCHANGED <<scripts, lockCall, lastToken, sweep, lockHistory>>

LockNext ==
    \/ LoadScripts \/ LoseScripts
    \/ \E c \in LockCalls :
         \/ \E u \in LockUsers, S \in SUBSET LockSeats :
              \/ AskAcquire(c, u, S)
              \/ \E t \in 0..lastToken : AskRelease(c, u, S, t)
              \/ \E ttl \in BOOLEAN : AskExtend(c, u, S, ttl)
         \/ RunAcquire(c)
         \/ \E s \in LockSeats : ReadLock(c, s) \/ SeatFails(c, s)
         \/ Return(c)
         \/ DeleteLock(c)
         \/ WriteExtended(c)
    \/ \E s \in LockSeats : SweepRead(s) \/ SweepDelete(s) \/ ExpireLock(s)

LockSpec == LockInit /\ [][LockNext]_lockVars

-----------------------------------------------------------------------------
\* A lock no two of whose extensions overlapped was extended at most
\* MaxExtensions times, although each extension counts in a value read earlier:
\* not even an extension that puts the lock back after it expired, was deleted
\* or was replaced by another one loses the count (extendLocks).
ExtensionsWithinLimit ==
    \A lock \in LockSeats \X (1..MaxToken) :
        lock \notin overlapped => extended[lock] <= MaxExtensions

\* A lock is replaced by another one only through an extension of a lock that
\* the extending user held on the seat when the call looked: no acquisition
\* takes a seat from under its lock, and no release puts a lock there.
ReplacedOnlyByOldHolder ==
    [][\A s \in LockSeats :
         seatKey[s] # NoLock /\ seatKey'[s] # NoLock /\ seatKey'[s] # seatKey[s] =>
           \E c \in LockCalls :
             /\ lockCall[c].op = "extend" /\ lockCall[c].seat = s
             /\ lockCall[c].read.user = lockCall[c].user
             /\ seatKey'[s].token = lockCall[c].read.token]_lockVars
=============================================================================
