---------------------------- MODULE ServicesProofs ----------------------------
(***************************************************************************)
(* Proofs about SeatLockService and VenueScope, for any number of users,   *)
(* seats, calls, venues and requests.                                      *)
(***************************************************************************)
EXTENDS SeatLockService, VenueScope, TLAPS

-----------------------------------------------------------------------------
(* SeatLockService *)

LockCall ==
    [at : {"idle", "acquire", "next", "write", "done"},
     op : {"none", "acquire", "release", "extend"},
     user : LockUsers \cup {Nobody}, token : Nat, ttl : BOOLEAN,
     seats : SUBSET LockSeats, seat : LockSeats \cup {Nobody},
     read : SeatLock \cup {NoLock}]

LocksTyped ==
    /\ seatKey \in [LockSeats -> SeatLock \cup {NoLock}]
    /\ scripts \in BOOLEAN
    /\ lastToken \in 0..MaxToken
    /\ sweep \in [LockSeats -> 0..MaxToken]
    /\ extended \in [LockSeats \X (1..MaxToken) -> Nat]
    /\ overlapped \subseteq LockSeats \X (1..MaxToken)
    /\ lockCall \in [LockCalls -> LockCall]

\* Under way a call has a user, and what it is about to write passed the checks
\* when it was read.
CallsChecked ==
    \A c \in LockCalls :
        /\ lockCall[c].at \in {"acquire", "next", "write"} => lockCall[c].user \in LockUsers
        /\ lockCall[c].at = "write" =>
             /\ lockCall[c].seat \in lockCall[c].seats
             /\ MayWrite(lockCall[c], lockCall[c].read)

\* A lock no two of whose extensions overlapped counts its extensions rightly,
\* on its key and in the calls that have read it to extend it.
ExtensionsCounted ==
    \A s \in LockSeats, t \in 1..MaxToken : <<s, t>> \notin overlapped =>
        /\ extended[<<s, t>>] <= MaxExtensions
        /\ seatKey[s].token = t => seatKey[s].count = extended[<<s, t>>]
        /\ \A c \in LockCalls : Extending(c, s, t) => lockCall[c].read.count = extended[<<s, t>>]

\* Nothing has to do with a token that is still to be drawn.
TokensDrawn ==
    /\ \A s \in LockSeats : seatKey[s].token <= lastToken
    /\ \A c \in LockCalls : lockCall[c].read.token <= lastToken
    /\ \A s \in LockSeats, t \in 1..MaxToken : t > lastToken => extended[<<s, t>>] = 0

LockInv == LocksTyped /\ CallsChecked /\ ExtensionsCounted /\ TokensDrawn

LEMMA IdleCallTyped == IdleCall \in LockCall
  BY DEF IdleCall, LockCall

LEMMA LockInitInv == LockInit => LockInv
  <1> SUFFICES ASSUME LockInit PROVE LockInv
    OBVIOUS
  <1>1. LocksTyped
    <2>1. lastToken \in 0..MaxToken
      BY LockAssumption DEF LockInit
    <2>2. sweep \in [LockSeats -> 0..MaxToken]
      BY LockAssumption DEF LockInit
    <2> QED
      BY <2>1, <2>2, IdleCallTyped DEF LockInit, LocksTyped
  <1>2. CallsChecked
    BY DEF LockInit, CallsChecked, IdleCall
  <1>3. ExtensionsCounted
    BY LockAssumption DEF LockInit, ExtensionsCounted, Extending, NoLock, IdleCall
  <1>4. TokensDrawn
    BY DEF LockInit, TokensDrawn, NoLock, IdleCall
  <1> QED
    BY <1>1, <1>2, <1>3, <1>4 DEF LockInv

\* What an extension writes is a lock that counts once more, within its limit.
LEMMA ExtendedLock ==
    ASSUME NEW call \in LockCall, NEW ttl \in BOOLEAN, call.op = "extend",
           call.user \in LockUsers, MayWrite(call, call.read)
    PROVE  LET new == [[call.read EXCEPT !.count = @ + 1] EXCEPT !.ttl = ttl] IN
           /\ new \in SeatLock
           /\ new.count = call.read.count + 1 /\ new.count <= MaxExtensions
           /\ new.token = call.read.token /\ call.read.user = call.user
  <1>1. call.read \in SeatLock
    BY LockAssumption DEF LockCall, MayWrite, NoLock
  <1>2. call.read.user \in LockUsers /\ call.read.token \in 1..MaxToken /\ call.read.count \in Nat
    BY <1>1 DEF SeatLock
  <1>3. call.read.count + 1 \in Nat /\ call.read.count + 1 <= MaxExtensions
    BY <1>2, LockAssumption DEF MayWrite
  <1> DEFINE counted == [call.read EXCEPT !.count = @ + 1]
  <1>4. /\ counted \in SeatLock /\ counted.token = call.read.token
        /\ counted.count = call.read.count + 1
    BY <1>1, <1>3 DEF SeatLock
  <1>5. /\ [counted EXCEPT !.ttl = ttl] \in SeatLock
        /\ [counted EXCEPT !.ttl = ttl].count = counted.count
        /\ [counted EXCEPT !.ttl = ttl].token = counted.token
    <2> HIDE DEF counted
    <2> QED
      BY <1>4 DEF SeatLock
  <1>6. call.read.user = call.user
    BY DEF MayWrite
  <1> QED
    BY <1>3, <1>4, <1>5, <1>6

\* What a step does to the keys: none changes, or free ones get fresh locks, or
\* one is deleted, or a call writes back the lock it has read, extended.
LEMMA KeyStep ==
    ASSUME LockInv, LockNext
    PROVE  \/ UNCHANGED seatKey
           \/ \E new \in SeatLock :
                /\ seatKey' \in [LockSeats -> SeatLock \cup {NoLock}]
                /\ \A s \in LockSeats :
                     seatKey'[s] = seatKey[s] \/ (seatKey[s] = NoLock /\ seatKey'[s] = new)
           \/ \E s \in LockSeats : seatKey' = [seatKey EXCEPT ![s] = NoLock]
           \/ \E c \in LockCalls :
                /\ lockCall[c].op = "extend" /\ lockCall[c].seat \in LockSeats
                /\ lockCall[c].read.user = lockCall[c].user
                /\ \E new \in SeatLock :
                     /\ new.token = lockCall[c].read.token
                     /\ seatKey' = [seatKey EXCEPT ![lockCall[c].seat] = new]
  <1> DEFINE Written(c) ==
        /\ lockCall[c].op = "extend" /\ lockCall[c].seat \in LockSeats
        /\ lockCall[c].read.user = lockCall[c].user
        /\ \E new \in SeatLock :
             /\ new.token = lockCall[c].read.token
             /\ seatKey' = [seatKey EXCEPT ![lockCall[c].seat] = new]
  <1> DEFINE Taken(new) ==
        /\ seatKey' \in [LockSeats -> SeatLock \cup {NoLock}]
        /\ \A s \in LockSeats :
             seatKey'[s] = seatKey[s] \/ (seatKey[s] = NoLock /\ seatKey'[s] = new)
  <1> USE DEF LockInv, LocksTyped
  <1>1. ASSUME NEW c \in LockCalls, RunAcquire(c) PROVE \E new \in SeatLock : Taken(new)
    <2> DEFINE new == [user |-> lockCall[c].user, token |-> lastToken + 1, count |-> 0, ttl |-> TRUE]
    <2>1. new \in SeatLock
      BY <1>1, LockAssumption DEF RunAcquire, CallsChecked, SeatLock
    <2>2. PICK got \in SUBSET LockSeats :
            /\ \A s \in got : seatKey[s] = NoLock
            /\ seatKey' = [s \in LockSeats |-> IF s \in got THEN new ELSE seatKey[s]]
      <3>1. Takes(lockCall[c].seats) \subseteq LockSeats
        BY DEF Takes, LockCall
      <3>2. \A s \in Takes(lockCall[c].seats) : seatKey[s] = NoLock
        BY DEF Takes
      <3> QED
        BY <1>1, <3>1, <3>2 DEF RunAcquire
    <2>3. Taken(new)
      <3> HIDE DEF new
      <3> QED
        BY <2>1, <2>2
    <2> QED
      BY <2>1, <2>3
  <1>2. ASSUME NEW c \in LockCalls, WriteExtended(c) PROVE Written(c)
    <2> DEFINE new == [[lockCall[c].read EXCEPT !.count = @ + 1] EXCEPT !.ttl = lockCall[c].ttl]
    <2>1. /\ lockCall[c].op = "extend" /\ lockCall[c].user \in LockUsers
          /\ lockCall[c].seat \in LockSeats /\ MayWrite(lockCall[c], lockCall[c].read)
          /\ lockCall[c] \in LockCall /\ lockCall[c].ttl \in BOOLEAN
      BY <1>2 DEF WriteExtended, Extending, CallsChecked, LockCall
    <2>2. new \in SeatLock /\ new.token = lockCall[c].read.token
      BY <2>1, ExtendedLock
    <2>3. seatKey' = [seatKey EXCEPT ![lockCall[c].seat] = new]
      BY <1>2 DEF WriteExtended, Extending, SetKey
    <2> QED
      BY <2>1, <2>2, <2>3 DEF MayWrite
  <1>3. ASSUME NEW c \in LockCalls, DeleteLock(c)
        PROVE  \E s \in LockSeats : seatKey' = [seatKey EXCEPT ![s] = NoLock]
    BY <1>3 DEF DeleteLock, DelKey, CallsChecked, LockCall
  <1>4. ASSUME NEW s \in LockSeats, SweepDelete(s) \/ ExpireLock(s)
        PROVE  seatKey' = [seatKey EXCEPT ![s] = NoLock]
    BY <1>4 DEF SweepDelete, ExpireLock, DelKey
  <1> QED
    BY <1>1, <1>2, <1>3, <1>4
       DEF LockNext, LoadScripts, LoseScripts, AskAcquire, AskRelease, AskExtend, ReadLock,
           SeatFails, Return, SweepRead

\* What a step does to the calls.
LEMMA CallStep ==
    ASSUME LockInv, LockNext
    PROVE  \/ UNCHANGED lockCall
           \/ \E c \in LockCalls, call \in LockCall :
                /\ lockCall' = [lockCall EXCEPT ![c] = call]
                /\ call.at \in {"acquire", "next", "write"} => call.user \in LockUsers
                /\ call.at = "write" => call.seat \in call.seats /\ MayWrite(call, call.read)
  <1> DEFINE Goal(c) ==
        \E call \in LockCall :
          /\ lockCall' = [lockCall EXCEPT ![c] = call]
          /\ call.at \in {"acquire", "next", "write"} => call.user \in LockUsers
          /\ call.at = "write" => call.seat \in call.seats /\ MayWrite(call, call.read)
  <1> USE LockAssumption DEF LockInv, LocksTyped, Go
  <1>1. ASSUME NEW c \in LockCalls, NEW u \in LockUsers, NEW S \in SUBSET LockSeats, AskAcquire(c, u, S)
        PROVE  Goal(c)
    <2> DEFINE call == [IdleCall EXCEPT !.at = "acquire", !.op = "acquire", !.user = u, !.seats = S]
    <2>1. call \in LockCall /\ call.at = "acquire" /\ call.user = u
      BY DEF LockCall, IdleCall
    <2> QED
      BY <1>1, <2>1 DEF AskAcquire
  <1>2. ASSUME NEW c \in LockCalls, NEW u \in LockUsers, NEW S \in SUBSET LockSeats,
               NEW t \in 0..lastToken, AskRelease(c, u, S, t)
        PROVE  Goal(c)
    <2> DEFINE call == [IdleCall EXCEPT !.at = "next", !.op = "release", !.user = u, !.seats = S, !.token = t]
    <2>1. t \in Nat
      OBVIOUS
    <2>2. call \in LockCall /\ call.at = "next" /\ call.user = u
      BY <2>1 DEF LockCall, IdleCall
    <2> QED
      BY <1>2, <2>2 DEF AskRelease
  <1>3. ASSUME NEW c \in LockCalls, NEW u \in LockUsers, NEW S \in SUBSET LockSeats,
               NEW ttl \in BOOLEAN, AskExtend(c, u, S, ttl)
        PROVE  Goal(c)
    <2> DEFINE call == [IdleCall EXCEPT !.at = "next", !.op = "extend", !.user = u, !.seats = S, !.ttl = ttl]
    <2>1. call \in LockCall /\ call.at = "next" /\ call.user = u
      BY DEF LockCall, IdleCall
    <2> QED
      BY <1>3, <2>1 DEF AskExtend
  <1>4. ASSUME NEW c \in LockCalls, NEW s, lockCall[c].at \in {"next", "write"}, NextSeat(c, s)
        PROVE  Goal(c)
    <2> DEFINE call == [lockCall[c] EXCEPT !.at = "next", !.seats = @ \ {s}, !.seat = Nobody, !.read = NoLock]
    <2>1. call \in LockCall /\ call.at = "next" /\ call.user = lockCall[c].user
      BY DEF LockCall
    <2>2. lockCall[c].user \in LockUsers
      BY <1>4 DEF CallsChecked
    <2> QED
      BY <1>4, <2>1, <2>2 DEF NextSeat
  <1>5. ASSUME NEW c \in LockCalls, NEW s \in LockSeats, ReadLock(c, s) PROVE Goal(c)
    <2>1. CASE MayWrite(lockCall[c], seatKey[s])
      <3> DEFINE call == [lockCall[c] EXCEPT !.at = "write", !.seat = s, !.read = seatKey[s]]
      <3>1. call \in LockCall /\ call.user \in LockUsers /\ s \in call.seats
        BY <1>5 DEF ReadLock, LockCall, CallsChecked
      <3>2. MayWrite(call, call.read)
        BY <2>1 DEF MayWrite, LockCall
      <3>3. call.seat = s /\ lockCall' = [lockCall EXCEPT ![c] = call]
        BY <1>5, <2>1 DEF ReadLock, LockCall
      <3> QED
        BY <3>1, <3>2, <3>3
    <2>2. CASE ~MayWrite(lockCall[c], seatKey[s])
      BY <1>4, <1>5, <2>2 DEF ReadLock
    <2> QED
      BY <2>1, <2>2
  <1>6. ASSUME NEW c \in LockCalls, RunAcquire(c) \/ Return(c) PROVE Goal(c)
    BY <1>6 DEF RunAcquire, Return, LockCall
  <1>7. ASSUME NEW c \in LockCalls, NEW s \in LockSeats, SeatFails(c, s) PROVE Goal(c)
    BY <1>4, <1>7 DEF SeatFails
  <1>8. ASSUME NEW c \in LockCalls, DeleteLock(c) \/ WriteExtended(c) PROVE Goal(c)
    <2>1. lockCall[c].at \in {"next", "write"} /\ \E s : NextSeat(c, s)
      <3>1. CASE DeleteLock(c)
        BY <3>1 DEF DeleteLock
      <3>2. CASE WriteExtended(c)
        BY <3>2 DEF WriteExtended, Extending
      <3> QED
        BY <1>8, <3>1, <3>2
    <2> QED
      BY <1>4, <2>1
  <1> QED
    BY <1>1, <1>2, <1>3, <1>5, <1>6, <1>7, <1>8
       DEF LockNext, LoadScripts, LoseScripts, SweepRead, SweepDelete, ExpireLock

\* Deleting locks, and leaving or beginning a loop, keeps the counts.
LEMMA CountsForgotten ==
    ASSUME LockInv, UNCHANGED <<lastToken, extended, overlapped>>,
           \A s \in LockSeats : seatKey'[s] = seatKey[s] \/ seatKey'[s] = NoLock,
           \A c \in LockCalls :
             \/ lockCall'[c] = lockCall[c]
             \/ lockCall'[c].at # "write" /\ lockCall'[c].read.token <= lastToken
    PROVE  ExtensionsCounted' /\ TokensDrawn'
  <1> USE DEF LockInv, LocksTyped
  <1>1. NoLock.token = 0 /\ lastToken >= 0
    BY LockAssumption DEF NoLock
  <1>2. ExtensionsCounted'
    <2> SUFFICES ASSUME NEW s \in LockSeats, NEW t \in 1..MaxToken, <<s, t>> \notin overlapped
                 PROVE  /\ extended[<<s, t>>] <= MaxExtensions
                        /\ seatKey'[s].token = t => seatKey'[s].count = extended[<<s, t>>]
                        /\ \A c \in LockCalls :
                             Extending(c, s, t)' => lockCall'[c].read.count = extended[<<s, t>>]
      BY DEF ExtensionsCounted
    <2>1. seatKey'[s].token = t => seatKey'[s] = seatKey[s]
      BY <1>1
    <2>2. \A c \in LockCalls : Extending(c, s, t)' => Extending(c, s, t) /\ lockCall'[c] = lockCall[c]
      BY DEF Extending
    <2> QED
      BY <2>1, <2>2 DEF ExtensionsCounted
  <1>3. TokensDrawn'
    BY <1>1 DEF TokensDrawn
  <1> QED
    BY <1>2, <1>3

\* An extension counts once more what it writes, and nothing else.
LEMMA CountsExtended ==
    ASSUME LockInv, NEW c \in LockCalls, WriteExtended(c)
    PROVE  ExtensionsCounted' /\ TokensDrawn'
  <1> USE DEF LockInv, LocksTyped
  <1>1. PICK s \in LockSeats, t \in 1..MaxToken :
          /\ Extending(c, s, t)
          /\ SetKey(s, [lockCall[c].read EXCEPT !.count = @ + 1], lockCall[c].ttl)
          /\ NextSeat(c, s)
          /\ extended' = [extended EXCEPT ![<<s, t>>] = @ + 1]
          /\ overlapped' = IF \E d \in LockCalls \ {c} : Extending(d, s, t)
                           THEN overlapped \cup {<<s, t>>} ELSE overlapped
          /\ UNCHANGED <<scripts, lastToken, sweep>>
    BY DEF WriteExtended
  <1> DEFINE new == [[lockCall[c].read EXCEPT !.count = @ + 1] EXCEPT !.ttl = lockCall[c].ttl]
  <1>2. /\ new.token = t /\ new.count = lockCall[c].read.count + 1
        /\ new.count <= MaxExtensions
    <2>1. /\ lockCall[c] \in LockCall /\ lockCall[c].ttl \in BOOLEAN
          /\ lockCall[c].op = "extend" /\ lockCall[c].user \in LockUsers
          /\ MayWrite(lockCall[c], lockCall[c].read) /\ lockCall[c].read.token = t
      BY <1>1 DEF Extending, CallsChecked, LockCall
    <2> QED
      BY <2>1, ExtendedLock
  <1>3. seatKey' = [seatKey EXCEPT ![s] = new]
    BY <1>1 DEF SetKey
  <1> HIDE DEF new
  <1>4. /\ lockCall'[c].at = "next" /\ lockCall'[c].read = NoLock
        /\ \A d \in LockCalls \ {c} : lockCall'[d] = lockCall[d]
    BY <1>1 DEF NextSeat, Go, LockCall
  <1>5. \A r \in LockSeats, v \in 1..MaxToken :
          extended'[<<r, v>>] = IF r = s /\ v = t THEN extended[<<s, t>>] + 1 ELSE extended[<<r, v>>]
    BY <1>1
  <1>6. ExtensionsCounted'
    <2> SUFFICES ASSUME NEW r \in LockSeats, NEW v \in 1..MaxToken, <<r, v>> \notin overlapped'
                 PROVE  /\ extended'[<<r, v>>] <= MaxExtensions
                        /\ seatKey'[r].token = v => seatKey'[r].count = extended'[<<r, v>>]
                        /\ \A d \in LockCalls : Extending(d, r, v)' => lockCall'[d].read.count = extended'[<<r, v>>]
      BY DEF ExtensionsCounted
    <2>1. <<r, v>> \notin overlapped
      BY <1>1
    <2>2. CASE r = s /\ v = t
      <3>1. \A d \in LockCalls \ {c} : ~Extending(d, s, t)
        BY <1>1, <2>2
      <3>2. lockCall[c].read.count = extended[<<s, t>>]
        BY <1>1, <2>1, <2>2 DEF ExtensionsCounted
      <3>3. \A d \in LockCalls : ~Extending(d, s, t)'
        BY <1>4, <3>1 DEF Extending
      <3>4. extended'[<<r, v>>] = new.count /\ seatKey'[r] = new
        BY <1>2, <1>3, <1>5, <2>2, <3>2
      <3> QED
        BY <1>2, <2>2, <3>3, <3>4
    <2>3. CASE ~(r = s /\ v = t)
      <3>1. extended'[<<r, v>>] = extended[<<r, v>>]
        BY <1>5, <2>3
      <3>2. seatKey'[r].token = v => seatKey'[r] = seatKey[r]
        BY <1>2, <1>3, <2>3
      <3>3. \A d \in LockCalls : Extending(d, r, v)' => Extending(d, r, v) /\ lockCall'[d] = lockCall[d]
        BY <1>4 DEF Extending
      <3> QED
        BY <2>1, <3>1, <3>2, <3>3 DEF ExtensionsCounted
    <2> QED
      BY <2>2, <2>3
  <1>7. TokensDrawn'
    <2>1. t <= lastToken
      BY <1>1 DEF TokensDrawn, Extending
    <2>2. NoLock.token = 0 /\ lastToken >= 0
      BY LockAssumption DEF NoLock
    <2> QED
      BY <1>1, <1>2, <1>3, <1>4, <1>5, <2>1, <2>2 DEF TokensDrawn
  <1> QED
    BY <1>6, <1>7

LEMMA CountsKept ==
    ASSUME LockInv, LockNext
    PROVE  ExtensionsCounted' /\ TokensDrawn'
  <1> DEFINE Goal == ExtensionsCounted' /\ TokensDrawn'
  <1> USE DEF LockInv, LocksTyped
  <1>1. NoLock.token = 0 /\ lastToken >= 0 /\ lastToken <= MaxToken
    BY LockAssumption DEF NoLock
  <1>2. ASSUME NEW c \in LockCalls, NEW u, NEW S, NEW t, NEW ttl,
               AskAcquire(c, u, S) \/ AskRelease(c, u, S, t) \/ AskExtend(c, u, S, ttl)
        PROVE  Goal
    <2>1. /\ lockCall'[c].at # "write" /\ lockCall'[c].read = NoLock
          /\ \A d \in LockCalls \ {c} : lockCall'[d] = lockCall[d]
      BY <1>2 DEF AskAcquire, AskRelease, AskExtend, Go, IdleCall
    <2>2. UNCHANGED <<seatKey, lastToken, extended, overlapped>>
      BY <1>2 DEF AskAcquire, AskRelease, AskExtend, lockHistory
    <2> QED
      BY <1>1, <2>1, <2>2, CountsForgotten
  <1>3. ASSUME NEW c \in LockCalls, NEW s, NextSeat(c, s)
        PROVE  /\ lockCall'[c].at # "write" /\ lockCall'[c].read.token <= lastToken
               /\ \A d \in LockCalls \ {c} : lockCall'[d] = lockCall[d]
    BY <1>1, <1>3 DEF NextSeat, Go, LockCall
  <1>4. ASSUME NEW c \in LockCalls, NEW s \in LockSeats, ReadLock(c, s), MayWrite(lockCall[c], seatKey[s])
        PROVE  Goal
    <2>1. /\ lockCall'[c].seat = s /\ lockCall'[c].read = seatKey[s]
          /\ \A d \in LockCalls \ {c} : lockCall'[d] = lockCall[d]
          /\ UNCHANGED <<seatKey, lastToken, extended, overlapped>>
      BY <1>4 DEF ReadLock, Go, LockCall, lockHistory
    <2>2. ExtensionsCounted'
      <3> SUFFICES ASSUME NEW r \in LockSeats, NEW t \in 1..MaxToken, <<r, t>> \notin overlapped
                   PROVE  /\ extended[<<r, t>>] <= MaxExtensions
                          /\ seatKey[r].token = t => seatKey[r].count = extended[<<r, t>>]
                          /\ \A d \in LockCalls :
                               Extending(d, r, t)' => lockCall'[d].read.count = extended[<<r, t>>]
        BY <2>1 DEF ExtensionsCounted
      <3>1. Extending(c, r, t)' => r = s /\ seatKey[r].token = t /\ lockCall'[c].read = seatKey[r]
        BY <2>1 DEF Extending
      <3>2. \A d \in LockCalls \ {c} : Extending(d, r, t)' => Extending(d, r, t) /\ lockCall'[d] = lockCall[d]
        BY <2>1 DEF Extending
      <3>3. extended[<<r, t>>] <= MaxExtensions /\ (seatKey[r].token = t => seatKey[r].count = extended[<<r, t>>])
        BY DEF ExtensionsCounted
      <3>4. Extending(c, r, t)' => lockCall'[c].read.count = extended[<<r, t>>]
        BY <3>1, <3>3
      <3>5. \A d \in LockCalls \ {c} : Extending(d, r, t)' => lockCall'[d].read.count = extended[<<r, t>>]
        BY <3>2 DEF ExtensionsCounted
      <3> QED
        BY <3>3, <3>4, <3>5
    <2>3. TokensDrawn'
      BY <2>1 DEF TokensDrawn
    <2> QED
      BY <2>2, <2>3
  <1>5. ASSUME NEW c \in LockCalls, NEW s \in LockSeats, ReadLock(c, s), ~MayWrite(lockCall[c], seatKey[s])
        PROVE  Goal
    BY <1>3, <1>5, CountsForgotten DEF ReadLock, lockHistory
  <1>6. ASSUME NEW c \in LockCalls, NEW s \in LockSeats, SeatFails(c, s) PROVE Goal
    BY <1>3, <1>6, CountsForgotten DEF SeatFails, lockHistory
  <1>7. ASSUME NEW c \in LockCalls, Return(c) PROVE Goal
    <2>1. /\ lockCall'[c].at # "write" /\ lockCall'[c].read = lockCall[c].read
          /\ \A d \in LockCalls \ {c} : lockCall'[d] = lockCall[d]
          /\ UNCHANGED <<seatKey, lastToken, extended, overlapped>>
      BY <1>7 DEF Return, Go, LockCall, lockHistory
    <2> QED
      BY <2>1, CountsForgotten DEF TokensDrawn
  <1>8. ASSUME NEW c \in LockCalls, DeleteLock(c) PROVE Goal
    BY <1>3, <1>8, CountsForgotten DEF DeleteLock, DelKey, lockHistory
  <1>9. ASSUME NEW s \in LockSeats, SweepRead(s) \/ SweepDelete(s) \/ ExpireLock(s) PROVE Goal
    <2>1. /\ UNCHANGED <<lockCall, lastToken, extended, overlapped>>
          /\ \A r \in LockSeats : seatKey'[r] = seatKey[r] \/ seatKey'[r] = NoLock
      BY <1>9 DEF SweepRead, SweepDelete, ExpireLock, DelKey, lockHistory
    <2> QED
      BY <2>1, CountsForgotten
  <1>10. ASSUME LoadScripts \/ LoseScripts PROVE Goal
    BY <1>10, CountsForgotten DEF LoadScripts, LoseScripts, lockHistory
  <1>11. ASSUME NEW c \in LockCalls, RunAcquire(c) PROVE Goal
    <2> DEFINE new == [user |-> lockCall[c].user, token |-> lastToken + 1, count |-> 0, ttl |-> TRUE]
    <2>1. new.token = lastToken + 1 /\ new.count = 0
      OBVIOUS
    <2>2. \A s \in LockSeats : seatKey'[s] = seatKey[s] \/ seatKey'[s] = new
      BY <1>11 DEF RunAcquire
    <2> HIDE DEF new
    <2>3. /\ lockCall'[c].at = "done" /\ lockCall'[c].read = lockCall[c].read
          /\ \A d \in LockCalls \ {c} : lockCall'[d] = lockCall[d]
          /\ lastToken' = lastToken + 1 /\ UNCHANGED <<extended, overlapped>>
      BY <1>11 DEF RunAcquire, Go, LockCall, lockHistory
    <2>4. \A s \in LockSeats, t \in 1..MaxToken : t = lastToken + 1 => extended[<<s, t>>] = 0
      BY <1>1 DEF TokensDrawn
    <2>5. ExtensionsCounted'
      <3> SUFFICES ASSUME NEW s \in LockSeats, NEW t \in 1..MaxToken, <<s, t>> \notin overlapped
                   PROVE  /\ extended[<<s, t>>] <= MaxExtensions
                          /\ seatKey'[s].token = t => seatKey'[s].count = extended[<<s, t>>]
                          /\ \A d \in LockCalls :
                               Extending(d, s, t)' => lockCall'[d].read.count = extended[<<s, t>>]
        BY <2>3 DEF ExtensionsCounted
      <3>1. \A d \in LockCalls : Extending(d, s, t)' => Extending(d, s, t) /\ lockCall'[d] = lockCall[d]
        BY <2>3 DEF Extending
      <3> QED
        BY <2>1, <2>2, <2>4, <3>1 DEF ExtensionsCounted
    <2>6. TokensDrawn'
      <3>1. \A s \in LockSeats : seatKey[s].token \in Nat
        BY DEF SeatLock, NoLock
      <3>2. \A d \in LockCalls : lockCall[d].read.token \in Nat
        BY DEF LockCall, SeatLock, NoLock
      <3> QED
        BY <1>1, <2>1, <2>2, <2>3, <3>1, <3>2 DEF TokensDrawn
    <2> QED
      BY <2>5, <2>6
  <1>12. ASSUME NEW c \in LockCalls, WriteExtended(c) PROVE Goal
    BY <1>12, CountsExtended
  <1> QED
    BY <1>2, <1>4, <1>5, <1>6, <1>7, <1>8, <1>9, <1>10, <1>11, <1>12 DEF LockNext

LEMMA LockInvKept == LockInv /\ [LockNext]_lockVars => LockInv'
  <1> SUFFICES ASSUME LockInv, [LockNext]_lockVars PROVE LockInv'
    OBVIOUS
  <1>1. CASE UNCHANGED lockVars
    BY <1>1 DEF LockInv, LocksTyped, CallsChecked, ExtensionsCounted, Extending, TokensDrawn,
                lockVars, lockHistory
  <1>2. CASE LockNext
    <2>1. seatKey' \in [LockSeats -> SeatLock \cup {NoLock}]
      BY <1>2, KeyStep DEF LockInv, LocksTyped
    <2>2. lockCall' \in [LockCalls -> LockCall] /\ CallsChecked'
      BY <1>2, CallStep DEF LockInv, LocksTyped, CallsChecked
    <2>3. /\ scripts' \in BOOLEAN /\ lastToken' \in 0..MaxToken
          /\ sweep' \in [LockSeats -> 0..MaxToken]
      <3>1. \/ UNCHANGED <<scripts, lastToken, sweep>>
            \/ scripts' \in BOOLEAN /\ UNCHANGED <<lastToken, sweep>>
            \/ lastToken < MaxToken /\ lastToken' = lastToken + 1 /\ UNCHANGED <<scripts, sweep>>
            \/ \E s \in LockSeats : \E t \in 0..MaxToken :
                 sweep' = [sweep EXCEPT ![s] = t] /\ UNCHANGED <<scripts, lastToken>>
        <4>1. ASSUME NEW c \in LockCalls, RunAcquire(c)
              PROVE  lastToken < MaxToken /\ lastToken' = lastToken + 1 /\ UNCHANGED <<scripts, sweep>>
          BY <4>1 DEF RunAcquire
        <4>2. ASSUME NEW s \in LockSeats, SweepRead(s) \/ SweepDelete(s) \/ ExpireLock(s)
              PROVE  /\ UNCHANGED <<scripts, lastToken>>
                     /\ \/ UNCHANGED sweep
                        \/ \E t \in 0..MaxToken : sweep' = [sweep EXCEPT ![s] = t]
          <5>1. seatKey[s].token \in 0..MaxToken /\ 0 \in 0..MaxToken
            BY LockAssumption DEF LockInv, LocksTyped, SeatLock, NoLock
          <5> QED
            BY <4>2, <5>1 DEF SweepRead, SweepDelete, ExpireLock
        <4>3. ASSUME LoadScripts \/ LoseScripts
              PROVE  scripts' \in BOOLEAN /\ UNCHANGED <<lastToken, sweep>>
          BY <4>3 DEF LoadScripts, LoseScripts
        <4>4. ASSUME NEW c \in LockCalls, NEW s,
                     ReadLock(c, s) \/ SeatFails(c, s) \/ Return(c) \/ DeleteLock(c) \/ WriteExtended(c)
              PROVE  UNCHANGED <<scripts, lastToken, sweep>>
          BY <4>4 DEF ReadLock, SeatFails, Return, DeleteLock, WriteExtended
        <4>5. ASSUME NEW c \in LockCalls, NEW u, NEW S, NEW t, NEW ttl,
                     AskAcquire(c, u, S) \/ AskRelease(c, u, S, t) \/ AskExtend(c, u, S, ttl)
              PROVE  UNCHANGED <<scripts, lastToken, sweep>>
          BY <4>5 DEF AskAcquire, AskRelease, AskExtend
        <4> QED
          BY <1>2, <4>1, <4>2, <4>3, <4>4, <4>5 DEF LockNext
      <3> QED
        BY <3>1, LockAssumption DEF LockInv, LocksTyped
    <2>4. /\ extended' \in [LockSeats \X (1..MaxToken) -> Nat]
          /\ overlapped' \subseteq LockSeats \X (1..MaxToken)
      <3>1. \/ UNCHANGED <<extended, overlapped>>
            \/ \E c \in LockCalls : WriteExtended(c)
        BY <1>2 DEF LockNext, LoadScripts, LoseScripts, AskAcquire, AskRelease, AskExtend, RunAcquire,
                    ReadLock, SeatFails, Return, DeleteLock, SweepRead, SweepDelete, ExpireLock, lockHistory
      <3>2. ASSUME NEW s \in LockSeats, NEW t \in 1..MaxToken,
                   extended' = [extended EXCEPT ![<<s, t>>] = @ + 1]
            PROVE  extended' \in [LockSeats \X (1..MaxToken) -> Nat]
        <4>1. extended[<<s, t>>] + 1 \in Nat
          BY DEF LockInv, LocksTyped
        <4> QED
          BY <3>2, <4>1 DEF LockInv, LocksTyped
      <3>3. ASSUME NEW c \in LockCalls, WriteExtended(c)
            PROVE  \E s \in LockSeats, t \in 1..MaxToken :
                     /\ extended' = [extended EXCEPT ![<<s, t>>] = @ + 1]
                     /\ overlapped' \in {overlapped, overlapped \cup {<<s, t>>}}
        BY <3>3 DEF WriteExtended
      <3> QED
        BY <3>1, <3>2, <3>3 DEF LockInv, LocksTyped
    <2>5. ExtensionsCounted' /\ TokensDrawn'
      BY <1>2, CountsKept
    <2> QED
      BY <2>1, <2>2, <2>3, <2>4, <2>5 DEF LockInv, LocksTyped
  <1> QED
    BY <1>1, <1>2

\* LockInv holds in every state the service can come to.
THEOREM LockSpecInv == LockSpec => []LockInv
  BY LockInitInv, LockInvKept, PTL DEF LockSpec

\* The lock keys and the calls of the service keep to their types.
THEOREM LockTypes == LockSpec => []LockTypeOK
  <1>1. LockInv => LockTypeOK
    BY DEF LockInv, LocksTyped, LockTypeOK, LockCall
  <1> QED
    BY LockSpecInv, <1>1, PTL

\* A lock no two of whose extensions overlapped is extended at most as often as
\* it allows, whatever becomes of its key in between (RedisSeatLockService.ts,
\* extendLocks).
THEOREM ExtensionsLimited == LockSpec => []ExtensionsWithinLimit
  <1>1. LockInv => ExtensionsWithinLimit
    BY DEF LockInv, ExtensionsCounted, ExtensionsWithinLimit
  <1> QED
    BY LockSpecInv, <1>1, PTL

\* Only an extension by a user who held the lock replaces one
\* (acquire_seat_locks.lua, RedisSeatLockService.ts).
THEOREM NoLockIsStolen == LockSpec => ReplacedOnlyByOldHolder
  <1> DEFINE Replaced ==
        \A s \in LockSeats :
          seatKey[s] # NoLock /\ seatKey'[s] # NoLock /\ seatKey'[s] # seatKey[s] =>
            \E c \in LockCalls :
              /\ lockCall[c].op = "extend" /\ lockCall[c].seat = s
              /\ lockCall[c].read.user = lockCall[c].user
              /\ seatKey'[s].token = lockCall[c].read.token
  <1>1. LockInv /\ LockNext => Replaced
    BY KeyStep DEF LockInv, LocksTyped
  <1>2. UNCHANGED lockVars => Replaced
    BY DEF lockVars
  <1>3. LockInv /\ [LockNext]_lockVars => [Replaced]_lockVars
    BY <1>1, <1>2
  <1> QED
    BY LockSpecInv, <1>3, PTL DEF LockSpec, ReplacedOnlyByOldHolder

-----------------------------------------------------------------------------
(* VenueScope *)

ScopedRequest ==
    [at : {"arriving", "context", "boundary", "permission", "set", "begin", "await",
           "settle", "leave", "answered"},
     user : {Signed, Anonymous}, venue : ScopeVenues \cup {NoContext},
     permissions : SUBSET VenueAdminPermissions, ran : ScopeVenues \cup {NoContext},
     answer : {"none", "400", "401", "403", "success", "failure", "thrown"}]

ScopeTyped ==
    /\ defaultRole \in Roles
    /\ context \in ScopeVenues \cup {NoContext}
    /\ overtaken \in [ScopeRequests -> SUBSET ScopeVenues]
    /\ scoped \in [ScopeRequests -> ScopedRequest]

\* A request that has not arrived has run nothing, and one that has got as far
\* as the repository names a venue.
ArrivingRanNothing == \A r \in ScopeRequests : scoped[r].at = "arriving" => scoped[r].ran = NoContext
SettingNamesVenue == \A r \in ScopeRequests : scoped[r].at = "set" => scoped[r].venue # NoContext

\* While a request is between its two reads of the field, what the field holds
\* is its own venue or one that was set since.
ContextIsRecent ==
    \A r \in ScopeRequests : scoped[r].at \in {"begin", "await"} =>
        context \in {NoContext, scoped[r].venue} \cup overtaken[r]

ScopeInv ==
    /\ ScopeTyped /\ ArrivingRanNothing /\ SettingNamesVenue
    /\ ContextIsRecent /\ StrayVenueWasSetMeanwhile

\* No role has a permission that the venue's admin lacks.
LEMMA RolesAreBelowAdmin ==
    ASSUME NEW role PROVE RolePermissions(role) \subseteq VenueAdminPermissions
  <1>1. DefaultVenuePermissions \subseteq VenueAdminPermissions
    BY DEF DefaultVenuePermissions, VenueAdminPermissions, Resources
  <1>2. VenueStaffPermissions \subseteq VenueAdminPermissions
    BY <1>1 DEF VenueStaffPermissions, VenueAdminPermissions, Resources
  <1>3. ({"customers"} \X {"read", "create", "update", "export"})
           \cup ({"tickets"} \X {"validate", "refund"}) \subseteq VenueAdminPermissions
    BY DEF VenueAdminPermissions, Resources
  <1>4. <<"tickets", "validate">> \in VenueAdminPermissions
    BY DEF VenueAdminPermissions, Resources
  <1> QED
    BY <1>1, <1>2, <1>3, <1>4 DEF RolePermissions, MergeVenuePermissions

LEMMA ScopeInitInv == ScopeInit => ScopeInv
  <1> SUFFICES ASSUME ScopeInit PROVE ScopeInv
    OBVIOUS
  <1>1. Arriving \in ScopedRequest /\ Arriving.at = "arriving" /\ Arriving.ran = NoContext
    BY DEF Arriving, ScopedRequest
  <1>2. ScopeTyped
    BY <1>1 DEF ScopeInit, ScopeTyped
  <1>3. /\ ArrivingRanNothing /\ SettingNamesVenue /\ ContextIsRecent
        /\ StrayVenueWasSetMeanwhile
    BY <1>1 DEF ScopeInit, ArrivingRanNothing, SettingNamesVenue, ContextIsRecent,
                StrayVenueWasSetMeanwhile
  <1> QED
    BY <1>2, <1>3 DEF ScopeInv

\* A step that leaves the repository's field alone moves one request, which may
\* come to run in its own venue or in what the field holds.
LEMMA KeptContextStep ==
    ASSUME ScopeInv, NEW r \in ScopeRequests, NEW request \in ScopedRequest,
           scoped' = [scoped EXCEPT ![r] = request], ContextKept,
           request.at \notin {"arriving"},
           request.at = "set" => request.venue # NoContext,
           request.at \in {"begin", "await"} =>
             scoped[r].at \in {"begin", "await"} /\ request.venue = scoped[r].venue,
           \/ request.ran \in {NoContext, request.venue}
           \/ request.venue = scoped[r].venue /\ request.ran = scoped[r].ran
           \/ /\ request.venue = scoped[r].venue /\ request.ran = context
              /\ scoped[r].at = "await"
    PROVE  ScopeInv'
  <1> USE DEF ScopeInv, ContextKept
  <1>1. ScopeTyped'
    BY DEF ScopeTyped
  <1>2. ArrivingRanNothing' /\ SettingNamesVenue'
    BY DEF ScopeTyped, ArrivingRanNothing, SettingNamesVenue
  <1>3. ContextIsRecent'
    BY DEF ScopeTyped, ContextIsRecent
  <1>4. StrayVenueWasSetMeanwhile'
    BY DEF ScopeTyped, ContextIsRecent, StrayVenueWasSetMeanwhile
  <1> QED
    BY <1>1, <1>2, <1>3, <1>4

LEMMA ScopeInvKept == ScopeInv /\ [ScopeNext]_scopeVars => ScopeInv'
  <1> SUFFICES ASSUME ScopeInv, [ScopeNext]_scopeVars PROVE ScopeInv'
    OBVIOUS
  <1> DEFINE Plain(r, at, answer) == [scoped[r] EXCEPT !.at = at, !.answer = answer]
  <1>0. \A r \in ScopeRequests : scoped[r] \in ScopedRequest
    BY DEF ScopeInv, ScopeTyped
  <1>1. ASSUME NEW r \in ScopeRequests, ContextKept,
               NEW at \in {"context", "boundary", "permission", "set", "begin", "await",
                           "settle", "leave", "answered"},
               NEW answer \in {"none", "400", "401", "403", "success", "failure", "thrown"},
               scoped' = [scoped EXCEPT ![r] = Plain(r, at, answer)],
               at = "set" => scoped[r].venue # NoContext,
               at \in {"begin", "await"} => scoped[r].at \in {"begin", "await"}
        PROVE  ScopeInv'
    <2>1. Plain(r, at, answer) \in ScopedRequest
      BY <1>0 DEF ScopedRequest
    <2>2. /\ Plain(r, at, answer).at = at
          /\ Plain(r, at, answer).venue = scoped[r].venue
          /\ Plain(r, at, answer).ran = scoped[r].ran
      BY <1>0 DEF ScopedRequest
    <2> HIDE DEF Plain
    <2> QED
      BY <1>1, <2>1, <2>2, KeptContextStep
  <1>2. ASSUME NEW r \in ScopeRequests, NEW at, NEW answer, Answer(r, at, answer)
        PROVE  scoped' = [scoped EXCEPT ![r] = Plain(r, at, answer)]
    BY <1>0, <1>2 DEF Answer, ScopeInv, ScopeTyped, ScopedRequest
  <1>3. ASSUME NEW r \in ScopeRequests, NEW at, MoveTo(r, at)
        PROVE  scoped' = [scoped EXCEPT ![r] = Plain(r, at, scoped[r].answer)]
    <2>1. [scoped[r] EXCEPT !.at = at] = Plain(r, at, scoped[r].answer)
      BY <1>0 DEF ScopedRequest
    <2> QED
      BY <1>0, <1>3, <2>1 DEF MoveTo, ScopeInv, ScopeTyped
  <1>4. \A r \in ScopeRequests : scoped[r].answer \in
          {"none", "400", "401", "403", "success", "failure", "thrown"}
    BY <1>0 DEF ScopedRequest
  <1> HIDE DEF Plain
  <1>5. ASSUME NEW r \in ScopeRequests, NEW user \in {Signed, Anonymous},
               NEW v \in ScopeVenues \cup {NoContext}, NEW stacked \in BOOLEAN,
               Arrive(r, user, v, stacked)
        PROVE  ScopeInv'
    <2>1. CASE ~stacked
      <3>1. MoveTo(r, "permission") /\ ContextKept
        BY <1>5, <2>1 DEF Arrive
      <3> QED
        BY <1>1, <1>3, <1>4, <3>1
    <2>2. CASE stacked /\ v = NoContext
      BY <1>1, <1>2, <1>5, <2>2 DEF Arrive, Refuse
    <2>3. CASE stacked /\ v # NoContext
      <3> DEFINE request == [scoped[r] EXCEPT !.at = "context", !.user = user, !.venue = v]
      <3>1. /\ request \in ScopedRequest /\ request.at = "context"
            /\ request.ran = scoped[r].ran
        BY <1>0 DEF ScopedRequest
      <3>2. scoped[r].ran = NoContext
        BY <1>5 DEF Arrive, ScopeInv, ArrivingRanNothing
      <3>3. scoped' = [scoped EXCEPT ![r] = request] /\ ContextKept
        BY <1>5, <2>3 DEF Arrive, Move
      <3> HIDE DEF request
      <3> QED
        BY <3>1, <3>2, <3>3, KeptContextStep
    <2> QED
      BY <2>1, <2>2, <2>3
  <1>6. ASSUME NEW r \in ScopeRequests, CreateVenueContext(r) PROVE ScopeInv'
    <2> DEFINE request == [WithContext(scoped[r]) EXCEPT !.at = "boundary"]
    <2>1. ContextPermissions \subseteq VenueAdminPermissions
      BY RolesAreBelowAdmin DEF ContextPermissions
    <2>2. /\ request \in ScopedRequest /\ request.at = "boundary"
          /\ request.ran = scoped[r].ran /\ request.venue = scoped[r].venue
      BY <1>0, <2>1 DEF ScopedRequest, WithContext
    <2>3. scoped' = [scoped EXCEPT ![r] = request] /\ ContextKept
      BY <1>6 DEF CreateVenueContext, Move
    <2> HIDE DEF request
    <2> QED
      BY <2>2, <2>3, KeptContextStep
  <1>7. ASSUME NEW r \in ScopeRequests, EnforceVenueBoundary(r) PROVE ScopeInv'
    BY <1>1, <1>2, <1>3, <1>4, <1>7 DEF EnforceVenueBoundary, Refuse
  <1>8. ASSUME NEW r \in ScopeRequests, NEW resource, NEW action,
               RequireVenuePermission(r, resource, action)
        PROVE  ScopeInv'
    <2>1. CASE scoped[r].venue = NoContext
      <3>1. Answer(r, "answered", "401") /\ ContextKept
        BY <1>8, <2>1 DEF RequireVenuePermission, Refuse
      <3> QED
        BY <1>1, <1>2, <3>1
    <2>2. CASE scoped[r].venue # NoContext
      BY <1>1, <1>2, <1>3, <1>4, <1>8, <2>2 DEF RequireVenuePermission, Refuse
    <2> QED
      BY <2>1, <2>2
  <1>9. ASSUME NEW r \in ScopeRequests, SetVenueContext(r) PROVE ScopeInv'
    <2>1. scoped[r].at = "set" /\ scoped[r].venue \in ScopeVenues
      BY <1>0, <1>9 DEF SetVenueContext, ScopeInv, SettingNamesVenue, ScopedRequest
    <2> DEFINE request == Plain(r, "begin", scoped[r].answer)
    <2>2. /\ request \in ScopedRequest /\ request.at = "begin"
          /\ request.ran = scoped[r].ran /\ request.venue = scoped[r].venue
      BY <1>0 DEF ScopedRequest, Plain
    <2>3. scoped' = [scoped EXCEPT ![r] = request]
      BY <1>3, <1>9 DEF SetVenueContext
    <2>4. /\ context' = scoped[r].venue /\ defaultRole' = defaultRole
          /\ overtaken' = [q \in ScopeRequests |->
               IF q # r /\ scoped[q].at \in {"begin", "await"}
               THEN overtaken[q] \cup {scoped[r].venue} ELSE overtaken[q]]
      BY <1>9 DEF SetVenueContext, NewContext
    <2> HIDE DEF request
    <2>5. ScopeTyped'
      BY <2>1, <2>2, <2>3, <2>4 DEF ScopeInv, ScopeTyped
    <2>6. ArrivingRanNothing' /\ SettingNamesVenue'
      BY <2>1, <2>2, <2>3 DEF ScopeInv, ScopeTyped, ArrivingRanNothing, SettingNamesVenue
    <2>7. ContextIsRecent'
      BY <2>1, <2>2, <2>3, <2>4 DEF ScopeInv, ScopeTyped, ContextIsRecent
    <2>8. StrayVenueWasSetMeanwhile'
      BY <2>1, <2>2, <2>3, <2>4 DEF ScopeInv, ScopeTyped, StrayVenueWasSetMeanwhile
    <2> QED
      BY <2>5, <2>6, <2>7, <2>8 DEF ScopeInv
  <1>10. ASSUME NEW r \in ScopeRequests, BeginOperation(r) PROVE ScopeInv'
    BY <1>1, <1>2, <1>3, <1>4, <1>10 DEF BeginOperation
  <1>11. ASSUME NEW r \in ScopeRequests, RunOperation(r) PROVE ScopeInv'
    <2>1. CASE context = NoContext
      BY <1>1, <1>2, <1>11, <2>1 DEF RunOperation
    <2>2. CASE context # NoContext
      <3> DEFINE request == [scoped[r] EXCEPT !.at = "settle", !.ran = context]
      <3>1. /\ request \in ScopedRequest /\ request.at = "settle"
            /\ request.ran = context /\ request.venue = scoped[r].venue
        BY <1>0 DEF ScopedRequest, ScopeInv, ScopeTyped
      <3>2. scoped' = [scoped EXCEPT ![r] = request] /\ ContextKept /\ scoped[r].at = "await"
        BY <1>11, <2>2 DEF RunOperation, Move
      <3> HIDE DEF request
      <3> QED
        BY <3>1, <3>2, KeptContextStep
    <2> QED
      BY <2>1, <2>2
  <1>12. ASSUME NEW r \in ScopeRequests, NEW ok \in BOOLEAN, SettleOperation(r, ok) PROVE ScopeInv'
    BY <1>1, <1>2, <1>12 DEF SettleOperation
  <1>13. ASSUME NEW r \in ScopeRequests, ClearVenueContext(r) PROVE ScopeInv'
    <2> DEFINE request == Plain(r, "answered", scoped[r].answer)
    <2>1. /\ request \in ScopedRequest /\ request.at = "answered"
          /\ request.ran = scoped[r].ran /\ request.venue = scoped[r].venue
      BY <1>0 DEF ScopedRequest, Plain
    <2>2. /\ scoped' = [scoped EXCEPT ![r] = request]
          /\ context' = NoContext /\ UNCHANGED <<defaultRole, overtaken>>
      BY <1>3, <1>13 DEF ClearVenueContext
    <2> HIDE DEF request
    <2>3. ScopeTyped'
      BY <2>1, <2>2 DEF ScopeInv, ScopeTyped
    <2>4. /\ ArrivingRanNothing' /\ SettingNamesVenue' /\ ContextIsRecent'
          /\ StrayVenueWasSetMeanwhile'
      BY <2>1, <2>2 DEF ScopeInv, ScopeTyped, ArrivingRanNothing, SettingNamesVenue,
                        ContextIsRecent, StrayVenueWasSetMeanwhile
    <2> QED
      BY <2>3, <2>4 DEF ScopeInv
  <1>14. ASSUME NEW r \in ScopeRequests, Leave(r) PROVE ScopeInv'
    BY <1>1, <1>3, <1>4, <1>14 DEF Leave
  <1>15. ASSUME NEW r \in ScopeRequests, NEW ok \in BOOLEAN, OperateInService(r, ok) PROVE ScopeInv'
    <2> DEFINE request == [WithContext(scoped[r]) EXCEPT
                             !.at = "answered", !.ran = scoped[r].venue,
                             !.answer = IF ok THEN "success" ELSE "failure"]
    <2>1. ContextPermissions \subseteq VenueAdminPermissions
      BY RolesAreBelowAdmin DEF ContextPermissions
    <2>2. /\ request \in ScopedRequest /\ request.at = "answered"
          /\ request.ran = scoped[r].venue /\ request.venue = scoped[r].venue
      BY <1>0, <2>1 DEF ScopedRequest, WithContext
    <2>3. scoped' = [scoped EXCEPT ![r] = request] /\ ContextKept /\ scoped[r].at = "set"
      BY <1>15 DEF OperateInService, Move
    <2> HIDE DEF request
    <2> QED
      BY <2>2, <2>3, KeptContextStep
  <1>16. CASE UNCHANGED scopeVars
    BY <1>16 DEF ScopeInv, ScopeTyped, ArrivingRanNothing, SettingNamesVenue,
                 ContextIsRecent, StrayVenueWasSetMeanwhile, scopeVars
  <1> QED
    BY <1>5, <1>6, <1>7, <1>8, <1>9, <1>10, <1>11, <1>12, <1>13, <1>14, <1>15, <1>16 DEF ScopeNext

\* ScopeInv holds in every state the repository can come to.
THEOREM ScopeSpecInv == ScopeSpec => []ScopeInv
  BY ScopeInitInv, ScopeInvKept, PTL DEF ScopeSpec

\* The repository's field and the requests keep to their types.
THEOREM ScopeTypes == ScopeSpec => []ScopeTypeOK
  <1>1. ScopeInv => ScopeTypeOK
    BY DEF ScopeInv, ScopeTyped, ScopeTypeOK, ScopedRequest
  <1> QED
    BY ScopeSpecInv, <1>1, PTL

\* An operation runs in its own venue or in one set while it was under way
\* (VenueScopedRepository.ts, executeInVenueContext).
THEOREM NoLeftoverVenue == ScopeSpec => []StrayVenueWasSetMeanwhile
  <1>1. ScopeInv => StrayVenueWasSetMeanwhile
    BY DEF ScopeInv
  <1> QED
    BY ScopeSpecInv, <1>1, PTL
=============================================================================
