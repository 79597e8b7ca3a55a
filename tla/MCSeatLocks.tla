----------------------------- MODULE MCSeatLocks -----------------------------
(* Small instances of SeatLocks: two seats, two owners, one of which takes   *)
(* the same seat under two versions.                                         *)
EXTENDS SeatLocks, TLC

CONSTANTS s1, s2, alice, bob

MCSeats == {s1, s2}
MCOwners == {alice, bob}
MCVersions == {1, 2}

Ask(op, S, o, v, t) == [op |-> op, seats |-> S, owner |-> o, version |-> v, ttl |-> t]

\* Holds of overlapping seat sets, a second hold of the same owner, and the
\* calls that act on them with current, stale and foreign tokens.
MCRequests ==
    { Ask("acquire", {s1, s2}, alice, 1, 2),
      Ask("acquire", {s1}, alice, 2, 1),
      Ask("acquire", {s1, s2}, bob, 1, 2),
      Ask("extend", {s1}, alice, 1, 2),
      Ask("release", {s1}, alice, 1, 1),
      Ask("release", {s2}, bob, 1, 1),
      Ask("rollback", {s1}, alice, 2, 1) }

\* The liveness run: one contender each, and the calls on the first one's hold.
MCFewRequests ==
    { Ask("acquire", {s1, s2}, alice, 1, 2),
      Ask("acquire", {s1, s2}, bob, 1, 2),
      Ask("extend", {s1}, alice, 1, 2) }

CallSymmetry == Permutations(Calls)

\* alice stands for an owner such as 'web.1' and bob for one such as 'web-1':
\* alice's pattern matches bob's values, bob's does not match his own.
MCOwnerPattern == {<<alice, alice>>, <<alice, bob>>}
==============================================================================
