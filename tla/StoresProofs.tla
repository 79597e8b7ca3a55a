----------------------------- MODULE StoresProofs -----------------------------
(***************************************************************************)
(* Proofs about Migrations, DomainEvents and SeatmapStore, for any number  *)
(* of runners, versions, events, handlers, sweeps and calls.               *)
(***************************************************************************)
EXTENDS Migrations, DomainEvents, SeatmapStore, FiniteSetTheorems, SequenceTheorems, TLAPS

\* A set of natural numbers has a least one.
LEMMA NatMin ==
    ASSUME NEW S, S \subseteq Nat, S # {}
    PROVE  Min(S) \in S /\ \A y \in S : Min(S) <= y
  <1> DEFINE R == {p \in Nat \X Nat : p[1] < p[2]}
  <1>1. IsWellFoundedOn(OpToRel(<, Nat), Nat)
    BY NatLessThanWellFounded
  <1>2. OpToRel(<, Nat) = R
    BY DEF OpToRel
  <1>3. IsWellFoundedOn(R, Nat)
    BY <1>1, <1>2
  <1>4. \A m, n \in Nat : ~ (<<m, n>> \in R) => n <= m
    OBVIOUS
  <1> HIDE DEF R
  <1>5. PICK x \in S : \A y \in S : ~ (<<y, x>> \in R)
    BY <1>3, WFMin
  <1>6. \A y \in S : x <= y
    BY <1>4, <1>5
  <1> QED
    BY <1>6 DEF Min

-----------------------------------------------------------------------------
(* Migrations *)

Runner ==
    [at : {"idle", "next", "record", "commit", "undo"}, todo : SUBSET Versions,
     version : Versions \cup {0}, stamp : 0..MaxStamp, wrote : BOOLEAN, row : BOOLEAN]

MigrationsTyped ==
    /\ changed \cup undone \subseteq Versions
    /\ history \in [Versions -> 0..MaxStamp]
    /\ clock \in 0..MaxStamp
    /\ core \in BOOLEAN /\ journal \in BOOLEAN /\ umzug \in BOOLEAN
    /\ runner \in [Runners -> Runner]
    /\ \A r \in Runners : runner[r].stamp <= clock

\* The version a runner is about to record: it has changed the schema for it,
\* or has found it changed and nobody has undone it unnoticed.
OpenRunsBacked ==
    \A r \in Runners :
        /\ runner[r].at \in {"record", "commit", "undo"} => runner[r].version \in Versions
        /\ runner[r].at \in {"record", "commit"} =>
             runner[r].wrote \/ runner[r].version \in changed \cup undone
        /\ runner[r].at \in {"record", "commit"} /\ runner[r].version \in SelfCommitting =>
             ~runner[r].wrote
        /\ runner[r].at = "next" => ~runner[r].wrote

JournalBacked == (journal \/ umzug) => core

MigrationInv == MigrationsTyped /\ OpenRunsBacked /\ JournalBacked /\ RecordedMeansApplied

LEMMA IdleRunnerTyped ==
    /\ IdleRunner \in Runner /\ IdleRunner.at = "idle" /\ IdleRunner.stamp = 0
    /\ ~IdleRunner.wrote
  BY MigrationAssumption DEF IdleRunner, Runner

LEMMA MigrationInitInv == MigrationInit => MigrationInv
  <1> SUFFICES ASSUME MigrationInit PROVE MigrationInv
    OBVIOUS
  <1> PICK n \in Versions :
        /\ changed = {v \in Versions : v < n}
        /\ history = [v \in Versions |-> IF v < n THEN 1 ELSE 0]
    BY DEF MigrationInit
  <1>1. history \in [Versions -> 0..MaxStamp] /\ 1 \in 0..MaxStamp
    BY MigrationAssumption
  <1>2. MigrationsTyped
    <2>1. clock \in 0..MaxStamp /\ IdleRunner.stamp <= clock
      BY MigrationAssumption, IdleRunnerTyped DEF MigrationInit
    <2> QED
      BY <1>1, <2>1, IdleRunnerTyped DEF MigrationInit, MigrationsTyped
  <1>3. Recorded \subseteq changed
    BY DEF Recorded
  <1>4. OpenRunsBacked /\ JournalBacked /\ RecordedMeansApplied
    BY <1>3, IdleRunnerTyped
       DEF MigrationInit, OpenRunsBacked, JournalBacked, RecordedMeansApplied
  <1> QED
    BY <1>2, <1>4 DEF MigrationInv

\* A step of a runner: one runner moves, and what it adds to the history is in
\* the schema or was undone under it.
LEMMA RunnerStep ==
    ASSUME MigrationInv, NEW r \in Runners, NEW state \in Runner,
           runner' = [runner EXCEPT ![r] = state], UmzugKept,
           changed' \cup undone' \subseteq Versions,
           history' \in [Versions -> 0..MaxStamp],
           clock' \in 0..MaxStamp, clock <= clock', state.stamp <= clock',
           Recorded' \subseteq changed' \cup undone',
           state.at = "next" => ~state.wrote,
           state.at \in {"record", "commit", "undo"} => state.version \in Versions,
           state.at \in {"record", "commit"} =>
             /\ state.wrote \/ state.version \in changed' \cup undone'
             /\ state.version \in SelfCommitting => ~state.wrote,
           \A q \in Runners \ {r} :
             runner[q].version \in changed \cup undone => runner[q].version \in changed' \cup undone'
    PROVE  MigrationInv'
  <1>1. MigrationsTyped'
    BY DEF MigrationInv, MigrationsTyped, UmzugKept, Runner
  <1>2. OpenRunsBacked'
    BY DEF MigrationInv, MigrationsTyped, OpenRunsBacked
  <1>3. JournalBacked' /\ RecordedMeansApplied'
    BY DEF MigrationInv, JournalBacked, RecordedMeansApplied, UmzugKept
  <1> QED
    BY <1>1, <1>2, <1>3 DEF MigrationInv

LEMMA MigrationInvKept == MigrationInv /\ [MigrationNext]_migrationVars => MigrationInv'
  <1> SUFFICES ASSUME MigrationInv, [MigrationNext]_migrationVars PROVE MigrationInv'
    OBVIOUS
  <1>0. /\ \A r \in Runners : runner[r] \in Runner
        /\ Recorded \subseteq changed \cup undone /\ clock \in Nat /\ MaxStamp \in Nat
        /\ changed \cup undone \subseteq Versions
    BY MigrationAssumption DEF MigrationInv, MigrationsTyped, RecordedMeansApplied
  <1>1. ASSUME NEW r \in Runners, NEW state \in Runner, Put(r, state),
               UNCHANGED <<changed, history, clock, undone>>, UmzugKept,
               state.stamp <= clock,
               state.at = "next" => ~state.wrote,
               state.at \in {"record", "commit", "undo"} => state.version \in Versions,
               state.at \in {"record", "commit"} =>
                 /\ state.wrote \/ state.version \in changed \cup undone
                 /\ state.version \in SelfCommitting => ~state.wrote
        PROVE  MigrationInv'
    <2>1. Recorded' = Recorded
      BY <1>1 DEF Recorded
    <2>2. /\ changed' \cup undone' \subseteq Versions /\ history' \in [Versions -> 0..MaxStamp]
          /\ clock' \in 0..MaxStamp /\ clock <= clock' /\ state.stamp <= clock'
      BY <1>0, <1>1 DEF MigrationInv, MigrationsTyped
    <2>3. runner' = [runner EXCEPT ![r] = state]
      BY <1>1 DEF Put
    <2>4. Recorded' \subseteq changed' \cup undone'
      BY <1>0, <1>1, <2>1
    <2>5. changed' \cup undone' = changed \cup undone
      BY <1>1
    <2> QED
      BY <1>1, <2>2, <2>3, <2>4, <2>5, RunnerStep
  <1>2. ASSUME NEW r \in Runners, ReadHistory(r) PROVE MigrationInv'
    <2> DEFINE state == [IdleRunner EXCEPT !.at = "next", !.todo = Versions \ Recorded]
    <2>1. state \in Runner /\ state.at = "next" /\ state.stamp = 0 /\ ~state.wrote
      BY IdleRunnerTyped DEF Runner
    <2>2. Put(r, state) /\ UNCHANGED <<changed, history, clock, undone>> /\ UmzugKept
      BY <1>2 DEF ReadHistory
    <2> HIDE DEF state
    <2>3. state.stamp <= clock
      BY <1>0, <2>1
    <2> QED
      BY <1>1, <2>1, <2>2, <2>3
  <1>3. ASSUME NEW r \in Runners, GiveUp(r), UNCHANGED <<changed, history, clock, undone>>, UmzugKept
        PROVE  MigrationInv'
    BY <1>0, <1>1, <1>3, IdleRunnerTyped DEF GiveUp
  <1>4. ASSUME NEW r \in Runners, RunFile(r) PROVE MigrationInv'
    <2> DEFINE v == Min(runner[r].todo)
               open == [runner[r] EXCEPT !.at = "record", !.todo = @ \ {v}, !.version = v,
                                         !.stamp = clock + 1]
    <2>1. /\ runner[r].todo \subseteq Nat /\ runner[r].todo # {}
          /\ runner[r].todo \subseteq Versions
      BY <1>0, <1>4, MigrationAssumption DEF RunFile, Runner
    <2>2. v \in Versions
      BY <2>1, NatMin
    <2>3. /\ clock' = clock + 1 /\ clock' \in 0..MaxStamp /\ clock <= clock'
          /\ UNCHANGED undone /\ UmzugKept
      BY <1>0, <1>4 DEF RunFile
    <2>4. \/ GiveUp(r) /\ UNCHANGED <<changed, history>>
          \/ /\ v \in SelfCommitting
             /\ changed' = changed \cup {v}
             /\ history' = [history EXCEPT ![v] = clock']
             /\ Put(r, open)
          \/ /\ v \notin SelfCommitting
             /\ Put(r, [open EXCEPT !.wrote = v \notin changed, !.row = v \notin Recorded])
             /\ UNCHANGED <<changed, history>>
      BY <1>4 DEF RunFile
    <2> HIDE DEF v
    <2>5. ~runner[r].wrote
      BY <1>4 DEF RunFile, MigrationInv, OpenRunsBacked
    <2>6. /\ open \in Runner /\ open.at = "record" /\ open.version = v
          /\ open.stamp = clock' /\ ~open.wrote
      BY <1>0, <2>2, <2>3, <2>5 DEF Runner
    <2> HIDE DEF open
    <2>7. ASSUME GiveUp(r), UNCHANGED <<changed, history>> PROVE MigrationInv'
      <3>1. Recorded' \subseteq changed' \cup undone' /\ changed' \cup undone' = changed \cup undone
        BY <1>0, <2>3, <2>7 DEF Recorded
      <3>2. changed' \cup undone' \subseteq Versions /\ history' \in [Versions -> 0..MaxStamp]
        BY <1>0, <2>7, <3>1 DEF MigrationInv, MigrationsTyped
      <3>3. runner' = [runner EXCEPT ![r] = IdleRunner] /\ IdleRunner.stamp <= clock'
        BY <1>0, <2>3, <2>7, IdleRunnerTyped DEF GiveUp, Put
      <3> QED
        BY <2>3, <3>1, <3>2, <3>3, IdleRunnerTyped, RunnerStep
    <2>8. ASSUME v \in SelfCommitting, changed' = changed \cup {v},
                 history' = [history EXCEPT ![v] = clock'], Put(r, open)
          PROVE  MigrationInv'
      <3>1. Recorded' \subseteq Recorded \cup {v}
        BY <2>8 DEF Recorded, MigrationInv, MigrationsTyped
      <3>2. /\ changed' \cup undone' \subseteq Versions
            /\ Recorded' \subseteq changed' \cup undone'
            /\ changed \cup undone \subseteq changed' \cup undone' /\ v \in changed'
        BY <1>0, <2>2, <2>3, <2>8, <3>1
      <3>3. history' \in [Versions -> 0..MaxStamp]
        BY <2>3, <2>8 DEF MigrationInv, MigrationsTyped
      <3>4. runner' = [runner EXCEPT ![r] = open] /\ open.stamp <= clock'
        BY <1>0, <2>3, <2>6, <2>8 DEF Put
      <3> QED
        BY <2>2, <2>3, <2>6, <3>2, <3>3, <3>4, RunnerStep
    <2>9. ASSUME v \notin SelfCommitting, UNCHANGED <<changed, history>>,
                 Put(r, [open EXCEPT !.wrote = v \notin changed, !.row = v \notin Recorded])
          PROVE  MigrationInv'
      <3> DEFINE state == [open EXCEPT !.wrote = v \notin changed, !.row = v \notin Recorded]
      <3>1. /\ state \in Runner /\ state.at = "record" /\ state.version = v
            /\ state.stamp = clock' /\ (state.wrote \/ v \in changed)
        BY <2>6 DEF Runner
      <3>2. runner' = [runner EXCEPT ![r] = state]
        BY <2>9 DEF Put
      <3> HIDE DEF state
      <3>3. Recorded' \subseteq changed' \cup undone' /\ changed' \cup undone' = changed \cup undone
        BY <1>0, <2>3, <2>9 DEF Recorded
      <3>4. /\ changed' \cup undone' \subseteq Versions /\ history' \in [Versions -> 0..MaxStamp]
            /\ state.wrote \/ v \in changed' \cup undone'
            /\ state.stamp <= clock'
        BY <1>0, <2>3, <2>9, <3>1, <3>3 DEF MigrationInv, MigrationsTyped
      <3> QED
        BY <2>2, <2>3, <2>9, <3>1, <3>2, <3>3, <3>4, RunnerStep
    <2> QED
      BY <2>4, <2>7, <2>8, <2>9
  <1>5. ASSUME NEW r \in Runners, Record(r) PROVE MigrationInv'
    <2> DEFINE v == runner[r].version
    <2>1. /\ v \in Versions /\ runner[r].at = "record"
          /\ runner[r].wrote \/ v \in changed \cup undone
          /\ v \in SelfCommitting => ~runner[r].wrote
      BY <1>5 DEF Record, MigrationInv, OpenRunsBacked
    <2>2. UNCHANGED <<changed, clock, undone>> /\ UmzugKept
      BY <1>5 DEF Record
    <2>3. runner[r].stamp \in 0..MaxStamp /\ runner[r].stamp <= clock
      BY <1>0 DEF Runner, MigrationInv, MigrationsTyped
    <2>4. PICK row \in BOOLEAN :
            Put(r, [runner[r] EXCEPT !.at = "commit", !.row = row])
      <3>1. CASE v \in SelfCommitting
        <4>1. [runner[r] EXCEPT !.at = "commit", !.row = runner[r].row] = [runner[r] EXCEPT !.at = "commit"]
          BY <1>0 DEF Runner
        <4> QED
          BY <1>0, <1>5, <3>1, <4>1 DEF Record, Runner
      <3>2. CASE v \notin SelfCommitting
        BY <1>0, <1>5, <3>2 DEF Record, Runner
      <3> QED
        BY <3>1, <3>2
    <2> DEFINE state == [runner[r] EXCEPT !.at = "commit", !.row = row]
    <2>5. /\ state \in Runner /\ state.at = "commit" /\ state.version = v
          /\ state.stamp = runner[r].stamp /\ state.wrote = runner[r].wrote
      BY <1>0 DEF Runner
    <2>6. runner' = [runner EXCEPT ![r] = state]
      BY <2>4 DEF Put
    <2> HIDE DEF state
    <2>7. /\ history' \in [Versions -> 0..MaxStamp]
          /\ Recorded' \subseteq changed' \cup undone'
      <3>1. CASE history' = history
        BY <1>0, <2>2, <3>1 DEF MigrationInv, MigrationsTyped, Recorded
      <3>2. CASE v \in SelfCommitting /\ history' = [history EXCEPT ![v] = runner[r].stamp]
        <4>1. Recorded' \subseteq Recorded \cup {v}
          BY <3>2 DEF Recorded, MigrationInv, MigrationsTyped
        <4> QED
          BY <1>0, <2>1, <2>2, <2>3, <3>2, <4>1 DEF MigrationInv, MigrationsTyped
      <3> QED
        BY <1>5, <3>1, <3>2 DEF Record
    <2>8. /\ changed' \cup undone' = changed \cup undone
          /\ clock' \in 0..MaxStamp /\ clock <= clock' /\ state.stamp <= clock'
      BY <1>0, <2>2, <2>3, <2>5 DEF MigrationInv, MigrationsTyped
    <2>9. state.wrote \/ state.version \in changed' \cup undone'
      BY <2>1, <2>5, <2>8
    <2> QED
      BY <1>0, <2>1, <2>2, <2>5, <2>6, <2>7, <2>8, <2>9, RunnerStep
  <1>6. ASSUME NEW r \in Runners, Commit(r) PROVE MigrationInv'
    <2> DEFINE v == runner[r].version
               state == [IdleRunner EXCEPT !.at = "next", !.todo = runner[r].todo]
    <2>1. v \in Versions /\ (runner[r].wrote \/ v \in changed \cup undone)
      BY <1>6 DEF Commit, MigrationInv, OpenRunsBacked
    <2>2. /\ UNCHANGED <<clock, undone>> /\ UmzugKept
          /\ changed' = (IF runner[r].wrote THEN changed \cup {v} ELSE changed)
          /\ history' = (IF runner[r].row THEN [history EXCEPT ![v] = runner[r].stamp] ELSE history)
          /\ runner' = [runner EXCEPT ![r] = state]
      BY <1>6 DEF Commit, CommitChanges, Put
    <2>3. /\ state \in Runner /\ state.at = "next" /\ state.stamp = 0 /\ ~state.wrote
      BY <1>0, IdleRunnerTyped DEF Runner
    <2> HIDE DEF state
    <2>4. runner[r].stamp \in 0..MaxStamp
      BY <1>0 DEF Runner
    <2>5. /\ changed \cup undone \subseteq changed' \cup undone'
          /\ changed' \cup undone' \subseteq Versions /\ v \in changed' \cup undone'
      BY <1>0, <2>1, <2>2
    <2>6. Recorded' \subseteq Recorded \cup {v} /\ history' \in [Versions -> 0..MaxStamp]
      BY <2>2, <2>4 DEF Recorded, MigrationInv, MigrationsTyped
    <2>7. /\ clock' \in 0..MaxStamp /\ clock <= clock' /\ state.stamp <= clock'
      BY <1>0, <2>2, <2>3 DEF MigrationInv, MigrationsTyped
    <2>8. Recorded' \subseteq changed' \cup undone'
      BY <1>0, <2>5, <2>6
    <2> QED
      BY <2>2, <2>3, <2>5, <2>6, <2>7, <2>8, RunnerStep
  <1>7. ASSUME NEW r \in Runners, EndRun(r) PROVE MigrationInv'
    BY <1>3, <1>7 DEF EndRun
  <1>8. ASSUME NEW r \in Runners, ReadLast(r) PROVE MigrationInv'
    <2> PICK v \in Versions :
          /\ Put(r, [IdleRunner EXCEPT !.at = "undo", !.version = v])
          /\ UNCHANGED <<changed, history, clock, undone>> /\ UmzugKept
      BY <1>8 DEF ReadLast, Recorded
    <2> DEFINE state == [IdleRunner EXCEPT !.at = "undo", !.version = v]
    <2>1. state \in Runner /\ state.at = "undo" /\ state.version = v /\ state.stamp = 0
      BY IdleRunnerTyped DEF Runner
    <2>2. Put(r, state)
      OBVIOUS
    <2> HIDE DEF state
    <2>3. state.stamp <= clock
      BY <1>0, <2>1
    <2> QED
      BY <1>1, <2>1, <2>2, <2>3
  <1>9. ASSUME NEW r \in Runners, Undo(r) PROVE MigrationInv'
    <2> DEFINE v == runner[r].version
    <2>1. v \in Versions /\ history \in [Versions -> 0..MaxStamp] /\ 0 \in 0..MaxStamp
      BY <1>9, MigrationAssumption DEF Undo, MigrationInv, OpenRunsBacked, MigrationsTyped
    <2>2. /\ changed' = changed \ {v} /\ history' = [history EXCEPT ![v] = 0]
          /\ undone' = (IF \E q \in Runners \ {r} : runner[q].version = v THEN undone \cup {v} ELSE undone)
          /\ UNCHANGED clock /\ UmzugKept
          /\ runner' = [runner EXCEPT ![r] = IdleRunner]
      BY <1>9 DEF Undo, GiveUp, Put
    <2>3. Recorded' \subseteq Recorded \ {v} /\ history' \in [Versions -> 0..MaxStamp]
      BY <2>1, <2>2 DEF Recorded
    <2>4. /\ changed' \cup undone' \subseteq Versions
          /\ Recorded' \subseteq changed' \cup undone'
      BY <1>0, <2>1, <2>2, <2>3
    <2>5. \A q \in Runners \ {r} :
            runner[q].version \in changed \cup undone => runner[q].version \in changed' \cup undone'
      BY <2>2
    <2>6. clock' \in 0..MaxStamp /\ clock <= clock' /\ IdleRunner.stamp <= clock'
      BY <1>0, <2>2, IdleRunnerTyped DEF MigrationInv, MigrationsTyped
    <2> QED
      BY <2>2, <2>3, <2>4, <2>5, <2>6, IdleRunnerTyped, RunnerStep
  <1>10. CASE UmzugUp \/ UmzugLog \/ UmzugCrash \/ UmzugDown
    <2>1. RunnersKept
      BY <1>10 DEF UmzugUp, UmzugLog, UmzugCrash, UmzugDown
    <2>2. JournalBacked' /\ core' \in BOOLEAN /\ journal' \in BOOLEAN /\ umzug' \in BOOLEAN
      BY <1>10 DEF UmzugUp, UmzugLog, UmzugCrash, UmzugDown, MigrationInv, MigrationsTyped, JournalBacked
    <2>3. MigrationsTyped' /\ OpenRunsBacked'
      BY <2>1, <2>2 DEF RunnersKept, MigrationInv, MigrationsTyped, OpenRunsBacked
    <2>4. Recorded' = Recorded
      BY <2>1 DEF RunnersKept, Recorded
    <2> QED
      BY <2>1, <2>2, <2>3, <2>4
         DEF MigrationInv, JournalBacked, RecordedMeansApplied, RunnersKept
  <1>11. CASE UNCHANGED migrationVars
    BY <1>11 DEF MigrationInv, MigrationsTyped, OpenRunsBacked, JournalBacked,
                 RecordedMeansApplied, Recorded, migrationVars
  <1> QED
    BY <1>2, <1>4, <1>5, <1>6, <1>7, <1>8, <1>9, <1>10, <1>11 DEF MigrationNext

\* MigrationInv holds in every state the runners and the script can come to.
THEOREM MigrationSpecInv == MigrationSpec => []MigrationInv
  BY MigrationInitInv, MigrationInvKept, PTL DEF MigrationSpec

\* The schema, the histories and the runners keep to their types.
THEOREM MigrationTypes == MigrationSpec => []MigrationTypeOK
  <1>1. MigrationInv => MigrationTypeOK
    BY DEF MigrationInv, MigrationsTyped, MigrationTypeOK, Runner
  <1> QED
    BY MigrationSpecInv, <1>1, PTL

\* A recorded version is in the schema, or was undone while another runner was
\* at it (migrations/runner.ts, umzug.ts).
THEOREM HistoriesAreTrue == MigrationSpec => []RecordedMeansApplied
  <1>1. MigrationInv => RecordedMeansApplied
    BY DEF MigrationInv
  <1> QED
    BY MigrationSpecInv, <1>1, PTL

-----------------------------------------------------------------------------
(* DomainEvents *)

Item == [event : BusEvents, count : Nat]

Caller ==
    [at : {"idle", "sweep", "store", "handle", "remove", "done"},
     event : BusEvents \cup {"none"}, left : SUBSET Handlers, failed : BOOLEAN,
     todo : SUBSET Nat, item : Nat]

EventsTyped ==
    /\ subscribed \subseteq Handlers
    /\ items \in Seq(Item) /\ Len(items) <= MaxItems
    /\ retryQueue \subseteq 1..Len(items)
    /\ bus \in [Callers -> Caller]
    /\ delivered \cup missed \cup dead \subseteq BusEvents

\* A caller that publishes has an event; a sweep's is that of its item.
CallerSound(c, caller) ==
    /\ caller.todo \subseteq 1..Len(items) /\ caller.item \in 0..Len(items)
    /\ caller.at \in {"store", "handle", "remove"} =>
         /\ caller.event \in BusEvents
         /\ c \in RetrySweeps =>
              caller.item \in 1..Len(items) /\ items[caller.item].event = caller.event

CallersSound == \A c \in Callers : CallerSound(c, bus[c])

\* The sweeps that have yet to store an item can still raise its count.
Storing(i) == {s \in RetrySweeps : bus[s].at = "store" /\ bus[s].item = i}

CountsBounded ==
    \A i \in 1..Len(items) :
        items[i].count + Cardinality(Storing(i)) <= MaxRetries + Cardinality(RetrySweeps) - 1

\* The queued item of an event that is still owed is not one that some sweep
\* has finished with and is about to remove.
Removing(i) == \E s \in RetrySweeps : bus[s].at = "remove" /\ bus[s].item = i

QueuedForGood ==
    \A e \in missed \ (delivered \cup dead) :
        \E i \in retryQueue : items[i].event = e /\ ~Removing(i)

EventInv == EventsTyped /\ CallersSound /\ CountsBounded /\ QueuedForGood

LEMMA IdleCallerTyped ==
    /\ IdleCaller \in Caller /\ IdleCaller.at = "idle"
    /\ IdleCaller.todo = {} /\ IdleCaller.item = 0
  BY DEF IdleCaller, Caller

LEMMA EventInitInv == EventInit => EventInv
  <1> SUFFICES ASSUME EventInit PROVE EventInv
    OBVIOUS
  <1> USE DEF EventInit
  <1>1. items = <<>> /\ items \in Seq(Item) /\ Len(items) = 0
    OBVIOUS
  <1>2. EventsTyped
    BY <1>1, IdleCallerTyped, EventAssumption DEF EventsTyped
  <1>3. CallersSound
    BY <1>1, IdleCallerTyped DEF CallersSound, CallerSound
  <1>4. CountsBounded /\ QueuedForGood
    BY <1>1 DEF CountsBounded, QueuedForGood
  <1> QED
    BY <1>2, <1>3, <1>4 DEF EventInv

LEMMA StoringIsFinite ==
    ASSUME NEW i
    PROVE  /\ IsFiniteSet(Storing(i)) /\ Cardinality(Storing(i)) \in Nat
           /\ Cardinality(RetrySweeps) \in Nat
           /\ Cardinality(Storing(i)) <= Cardinality(RetrySweeps)
  <1>1. Storing(i) \in SUBSET RetrySweeps
    BY DEF Storing
  <1> QED
    BY <1>1, EventAssumption, FS_Subset, FS_CardinalityType

LEMMA ItemsTyped ==
    ASSUME EventsTyped, NEW i \in 1..Len(items)
    PROVE  items[i] \in Item /\ items[i].event \in BusEvents /\ items[i].count \in Nat
  <1>1. items[i] \in Item
    BY ElementOfSeq DEF EventsTyped
  <1> QED
    BY <1>1 DEF Item

\* A step that leaves the queue and what became of the events alone moves one
\* caller, which does not come to store an item at its limit.
LEMMA QuietStep ==
    ASSUME EventInv, NEW c \in Callers, NEW caller \in Caller,
           bus' = [bus EXCEPT ![c] = caller],
           UNCHANGED <<subscribed, items, retryQueue, delivered, missed, dead>>,
           CallerSound(c, caller), caller.at # "remove",
           c \in RetrySweeps /\ caller.at = "store" => items[caller.item].count < MaxRetries
    PROVE  EventInv'
  <1>1. EventsTyped'
    BY DEF EventInv, EventsTyped
  <1>2. CallersSound'
    BY DEF EventInv, EventsTyped, CallersSound, CallerSound
  <1>3. QueuedForGood'
    BY DEF EventInv, EventsTyped, QueuedForGood, Removing
  <1>4. CountsBounded'
    <2> SUFFICES ASSUME NEW i \in 1..Len(items)
                 PROVE  items[i].count + Cardinality(Storing(i)') <=
                          MaxRetries + Cardinality(RetrySweeps) - 1
      BY DEF CountsBounded
    <2>1. items[i].count \in Nat
      BY ItemsTyped DEF EventInv
    <2>2. /\ Cardinality(Storing(i)) \in Nat /\ Cardinality(RetrySweeps) \in Nat
          /\ items[i].count + Cardinality(Storing(i)) <= MaxRetries + Cardinality(RetrySweeps) - 1
      BY StoringIsFinite DEF EventInv, CountsBounded
    <2>3. Storing(i)' \in SUBSET RetrySweeps
      BY DEF Storing
    <2>4. Cardinality(Storing(i)') \in Nat /\ Cardinality(Storing(i)') <= Cardinality(RetrySweeps)
      BY <2>3, EventAssumption, FS_Subset, FS_CardinalityType
    <2>5. CASE c \in RetrySweeps /\ caller.at = "store" /\ caller.item = i
      BY <2>1, <2>2, <2>4, <2>5, EventAssumption
    <2>6. CASE ~(c \in RetrySweeps /\ caller.at = "store" /\ caller.item = i)
      <3>1. Storing(i)' \in SUBSET Storing(i)
        BY <2>6 DEF Storing, EventInv, EventsTyped
      <3>2. Cardinality(Storing(i)') <= Cardinality(Storing(i))
        BY <3>1, StoringIsFinite, FS_Subset
      <3> QED
        BY <2>1, <2>2, <2>4, <3>2, EventAssumption
    <2> QED
      BY <2>5, <2>6
  <1> QED
    BY <1>1, <1>2, <1>3, <1>4 DEF EventInv

\* A refused store of a sweep: the item's count goes up, and one caller less
\* can raise it.
LEMMA RefusedStore ==
    ASSUME EventInv, NEW c \in RetrySweeps, Store(c, FALSE)
    PROVE  EventInv'
  <1> DEFINE i == bus[c].item
             caller == [bus[c] EXCEPT !.at = "sweep"]
  <1>1. bus[c] \in Caller /\ c \in Callers
    BY DEF EventInv, EventsTyped, Callers
  <1>2. /\ bus[c].at = "store" /\ i \in 1..Len(items) /\ CallerSound(c, bus[c])
    BY <1>1 DEF Store, EventInv, CallersSound, CallerSound
  <1>3. /\ bus' = [bus EXCEPT ![c] = caller]
        /\ items' = [items EXCEPT ![i].count = @ + 1]
        /\ UNCHANGED <<subscribed, retryQueue, delivered, missed, dead>>
    BY DEF Store, SetAt
  <1>4. /\ caller \in Caller /\ caller.at = "sweep"
        /\ caller.todo = bus[c].todo /\ caller.item = bus[c].item
    BY <1>1 DEF Caller
  <1> HIDE DEF caller
  <1>5. /\ items \in Seq(Item) /\ items[i] \in Item
    BY <1>2 DEF EventInv, EventsTyped
  <1>6. /\ items' \in Seq(Item) /\ Len(items') = Len(items)
        /\ \A j \in 1..Len(items) :
             /\ items'[j].event = items[j].event
             /\ items'[j].count = (IF j = i THEN items[j].count + 1 ELSE items[j].count)
    <2> DEFINE new == [items[i] EXCEPT !.count = @ + 1]
    <2>1. new \in Item /\ new.event = items[i].event /\ new.count = items[i].count + 1
      BY <1>5 DEF Item
    <2>2. items' = [items EXCEPT ![i] = new]
      BY <1>3
    <2> HIDE DEF new
    <2> QED
      BY <1>2, <1>5, <2>1, <2>2
  <1>7. EventsTyped'
    BY <1>3, <1>4, <1>6 DEF EventInv, EventsTyped
  <1>8. CallersSound'
    BY <1>2, <1>3, <1>4, <1>6 DEF EventInv, EventsTyped, CallersSound, CallerSound
  <1>9. QueuedForGood'
    BY <1>3, <1>4, <1>6 DEF EventInv, EventsTyped, QueuedForGood, Removing
  <1>10. CountsBounded'
    <2> SUFFICES ASSUME NEW j \in 1..Len(items)
                 PROVE  items'[j].count + Cardinality(Storing(j)') <=
                          MaxRetries + Cardinality(RetrySweeps) - 1
      BY <1>6 DEF CountsBounded
    <2>1. items[j].count \in Nat
      BY ItemsTyped DEF EventInv
    <2>2. /\ Cardinality(Storing(j)) \in Nat /\ Cardinality(RetrySweeps) \in Nat
          /\ items[j].count + Cardinality(Storing(j)) <= MaxRetries + Cardinality(RetrySweeps) - 1
          /\ IsFiniteSet(Storing(j))
      BY StoringIsFinite DEF EventInv, CountsBounded
    <2>3. Storing(j)' = Storing(j) \ {c}
      BY <1>3, <1>4 DEF Storing, EventInv, EventsTyped, Callers
    <2>4. j = i => c \in Storing(j)
      BY <1>2 DEF Storing
    <2>5. Cardinality(Storing(j) \ {c}) =
            IF c \in Storing(j) THEN Cardinality(Storing(j)) - 1 ELSE Cardinality(Storing(j))
      BY <2>2, FS_RemoveElement
    <2> QED
      BY <1>6, <2>1, <2>2, <2>3, <2>4, <2>5, EventAssumption
  <1> QED
    BY <1>7, <1>8, <1>9, <1>10 DEF EventInv

\* The items after a delivery: those there were, and a fresh one if some
\* handler failed.
LEMMA SettledItems ==
    ASSUME EventInv, NEW c \in Callers, Settle(c)
    PROVE  /\ items' \in Seq(Item) /\ Len(items) <= Len(items') /\ Len(items') <= MaxItems
           /\ \A i \in 1..Len(items) : items'[i] = items[i]
           /\ retryQueue' = retryQueue \cup ((Len(items) + 1)..Len(items'))
           /\ ~bus[c].failed => Len(items') = Len(items)
           /\ bus[c].failed =>
                /\ Len(items') = Len(items) + 1
                /\ items'[Len(items) + 1] = [event |-> bus[c].event, count |-> 0]
  <1> DEFINE fresh == [event |-> bus[c].event, count |-> 0]
             new == IF bus[c].failed THEN <<fresh>> ELSE <<>>
  <1>1. bus[c].event \in BusEvents
    BY DEF Settle, EventInv, CallersSound, CallerSound
  <1>2. items \in Seq(Item) /\ new \in Seq(Item) /\ fresh \in Item /\ Len(items) \in Nat
    <2>1. items \in Seq(Item) /\ Len(items) \in Nat
      BY LenProperties DEF EventInv, EventsTyped
    <2>2. fresh \in Item
      BY <1>1 DEF Item
    <2> HIDE DEF fresh
    <2>3. <<fresh>> \in Seq(Item) /\ <<>> \in Seq(Item)
      BY <2>2
    <2> QED
      BY <2>1, <2>2, <2>3
  <1>3. items' = items \o new /\ Len(items) + Len(new) <= MaxItems
    BY DEF Settle, QueuedFor
  <1>4. Len(new) = (IF bus[c].failed THEN 1 ELSE 0) /\ (bus[c].failed => new[1] = fresh)
    OBVIOUS
  <1> HIDE DEF new, fresh
  <1>5. /\ items' \in Seq(Item) /\ Len(items') = Len(items) + Len(new)
        /\ \A i \in 1 .. Len(items) + Len(new) :
             items'[i] = IF i <= Len(items) THEN items[i] ELSE new[i - Len(items)]
    BY <1>2, <1>3, ConcatProperties
  <1>6. DOMAIN items' = 1..Len(items') /\ DOMAIN items = 1..Len(items)
    BY <1>2, <1>5, LenProperties
  <1>7. retryQueue' = retryQueue \cup ((Len(items) + 1)..Len(items'))
    <2>1. retryQueue' = retryQueue \cup (DOMAIN items' \ DOMAIN items)
      BY DEF Settle
    <2>2. (1..Len(items')) \ (1..Len(items)) = (Len(items) + 1)..Len(items')
      BY <1>2, <1>4, <1>5
    <2> QED
      BY <1>6, <2>1, <2>2
  <1>8. \A i \in 1..Len(items) : items'[i] = items[i]
    BY <1>2, <1>4, <1>5
  <1>9. bus[c].failed => items'[Len(items) + 1] = fresh
    BY <1>2, <1>4, <1>5
  <1> QED
    BY <1>2, <1>3, <1>4, <1>5, <1>7, <1>8, <1>9 DEF fresh

LEMMA SettleKeeps ==
    ASSUME EventInv, NEW c \in Callers, Settle(c)
    PROVE  EventInv'
  <1> DEFINE e == bus[c].event
             at == IF c \in RetrySweeps THEN "remove" ELSE "done"
             caller == [bus[c] EXCEPT !.at = at]
  <1>1. bus[c] \in Caller /\ CallerSound(c, bus[c]) /\ bus[c].at = "handle" /\ e \in BusEvents
    BY DEF Settle, EventInv, EventsTyped, CallersSound, CallerSound
  <1>2. /\ bus' = [bus EXCEPT ![c] = caller]
        /\ delivered' = (IF bus[c].failed THEN delivered ELSE delivered \cup {e})
        /\ missed' = (IF bus[c].failed THEN missed \cup {e} ELSE missed)
        /\ UNCHANGED <<subscribed, dead>>
    BY DEF Settle, SetAt
  <1>3. /\ caller \in Caller /\ caller.at = at
        /\ caller.todo = bus[c].todo /\ caller.item = bus[c].item /\ caller.event = e
    BY <1>1 DEF Caller
  <1> HIDE DEF caller
  <1>4. bus'[c] = caller /\ \A d \in Callers \ {c} : bus'[d] = bus[d]
    BY <1>2 DEF EventInv, EventsTyped
  <1>s. /\ items' \in Seq(Item) /\ Len(items) <= Len(items') /\ Len(items') <= MaxItems
        /\ \A i \in 1..Len(items) : items'[i] = items[i]
        /\ retryQueue' = retryQueue \cup ((Len(items) + 1)..Len(items'))
        /\ ~bus[c].failed => Len(items') = Len(items)
        /\ bus[c].failed =>
             /\ Len(items') = Len(items) + 1
             /\ items'[Len(items) + 1] = [event |-> e, count |-> 0]
    BY SettledItems
  <1>5. Len(items) \in Nat /\ Len(items') \in Nat
    BY <1>s, LenProperties DEF EventInv, EventsTyped
  <1>i. \A i \in 1..Len(items) : i \in 1..Len(items') /\ items'[i] = items[i]
    BY <1>s, <1>5
  <1>6. EventsTyped'
    <2>1. retryQueue \subseteq 1..Len(items)
      BY DEF EventInv, EventsTyped
    <2>2. (Len(items) + 1)..Len(items') \subseteq 1..Len(items')
      BY <1>5
    <2>3. retryQueue' \subseteq 1..Len(items')
      BY <1>s, <1>i, <2>1, <2>2
    <2>4. bus' \in [Callers -> Caller]
      BY <1>2, <1>3 DEF EventInv, EventsTyped
    <2>5. subscribed' \subseteq Handlers /\ delivered' \cup missed' \cup dead' \subseteq BusEvents
      BY <1>1, <1>2 DEF EventInv, EventsTyped
    <2> QED
      BY <1>s, <2>3, <2>4, <2>5 DEF EventsTyped
  <1>7. CallersSound'
    <2> SUFFICES ASSUME NEW d \in Callers PROVE CallerSound(d, bus[d])'
      BY DEF CallersSound
    <2>1. CallerSound(d, bus[d])
      BY DEF EventInv, CallersSound
    <2>2. /\ bus'[d].todo = bus[d].todo /\ bus'[d].item = bus[d].item
          /\ bus'[d].event = bus[d].event
          /\ bus'[d].at \in {"store", "handle", "remove"} => bus[d].at \in {"store", "handle", "remove"}
      BY <1>1, <1>3, <1>4
    <2>3. /\ bus[d].todo \subseteq 1..Len(items')
          /\ bus[d].item \in 0..Len(items')
      BY <1>s, <1>5, <1>i, <2>1 DEF CallerSound
    <2>4. ASSUME bus'[d].at \in {"store", "handle", "remove"}
          PROVE  /\ bus[d].event \in BusEvents
                 /\ d \in RetrySweeps =>
                      bus[d].item \in 1..Len(items') /\ items'[bus[d].item].event = bus[d].event
      BY <1>i, <2>1, <2>2, <2>4 DEF CallerSound
    <2> QED
      BY <2>2, <2>3, <2>4 DEF CallerSound
  <1>8. CountsBounded'
    <2> SUFFICES ASSUME NEW i \in 1..Len(items')
                 PROVE  items'[i].count + Cardinality(Storing(i)') <=
                          MaxRetries + Cardinality(RetrySweeps) - 1
      BY DEF CountsBounded
    <2>1. Storing(i)' = Storing(i)
      BY <1>1, <1>3, <1>4 DEF Storing, Callers
    <2>2. CASE i \in 1..Len(items)
      <3>1. items'[i] = items[i]
        BY <1>i, <2>2
      <3>2. items[i].count + Cardinality(Storing(i)) <= MaxRetries + Cardinality(RetrySweeps) - 1
        BY <2>2 DEF EventInv, CountsBounded
      <3> QED
        BY <2>1, <3>1, <3>2
    <2>3. CASE i \notin 1..Len(items)
      <3>0. Len(items') = Len(items) + 1 /\ i = Len(items) + 1 /\ bus[c].failed
        BY <1>s, <1>5, <2>3
      <3>1. items'[i].count = 0
        BY <1>s, <3>0
      <3>2. Storing(i) = {}
        BY <1>5, <2>3 DEF Storing, EventInv, CallersSound, CallerSound, Callers
      <3>3. Cardinality(Storing(i)) = 0 /\ Cardinality(RetrySweeps) \in Nat
        BY <3>2, FS_EmptySet, StoringIsFinite
      <3> QED
        BY <2>1, <3>1, <3>3, EventAssumption
    <2> QED
      BY <2>2, <2>3
  <1>9. QueuedForGood'
    <2> SUFFICES ASSUME NEW f \in missed' \ (delivered' \cup dead)
                 PROVE  \E i \in retryQueue' : items'[i].event = f /\ ~Removing(i)'
      BY <1>2 DEF QueuedForGood
    <2>1. CASE bus[c].failed /\ f = e
      <3> DEFINE i == Len(items) + 1
      <3>0. i \in (Len(items) + 1)..Len(items')
        BY <1>s, <1>5, <2>1
      <3>1. i \in retryQueue' /\ items'[i].event = f
        BY <1>s, <2>1, <3>0
      <3>2. \A s \in RetrySweeps : bus'[s].item # i
        BY <1>3, <1>4, <1>5 DEF EventInv, CallersSound, CallerSound, Callers
      <3> QED
        BY <3>1, <3>2 DEF Removing
    <2>2. CASE ~(bus[c].failed /\ f = e)
      <3>1. f # e /\ f \in missed \ (delivered \cup dead)
        BY <1>2, <2>2
      <3> PICK i \in retryQueue : items[i].event = f /\ ~Removing(i)
        BY <3>1 DEF EventInv, QueuedForGood
      <3>2. i \in 1..Len(items) /\ i \in retryQueue' /\ items'[i].event = f
        BY <1>s DEF EventInv, EventsTyped
      <3>3. c \in RetrySweeps => bus[c].item # i
        BY <1>1, <3>1 DEF CallerSound
      <3> QED
        BY <1>3, <1>4, <3>2, <3>3 DEF Removing, Callers
    <2> QED
      BY <2>1, <2>2
  <1> QED
    BY <1>6, <1>7, <1>8, <1>9 DEF EventInv

\* Dropping an item that has reached its limit, and removing one that was
\* published: the queue loses one item.
LEMMA UnqueuedKeeps ==
    ASSUME EventInv, NEW s \in RetrySweeps, NEW i, NEW caller \in Caller,
           bus' = [bus EXCEPT ![s] = caller], retryQueue' = retryQueue \ {i},
           UNCHANGED <<subscribed, items, delivered, missed>>,
           dead \subseteq dead', dead' \subseteq BusEvents,
           CallerSound(s, caller), caller.at = "sweep",
           \/ bus[s].at = "remove" /\ bus[s].item = i
           \/ i \in 1..Len(items) /\ items[i].event \in dead'
    PROVE  EventInv'
  <1>0. s \in Callers /\ bus'[s] = caller /\ \A d \in Callers \ {s} : bus'[d] = bus[d]
    BY DEF EventInv, EventsTyped, Callers
  <1>1. EventsTyped'
    BY <1>0 DEF EventInv, EventsTyped
  <1>2. CallersSound'
    BY <1>0 DEF EventInv, CallersSound, CallerSound
  <1>3. CountsBounded'
    <2> SUFFICES ASSUME NEW j \in 1..Len(items)
                 PROVE  items[j].count + Cardinality(Storing(j)') <=
                          MaxRetries + Cardinality(RetrySweeps) - 1
      BY DEF CountsBounded
    <2>1. Storing(j)' \in SUBSET Storing(j)
      BY <1>0 DEF Storing, Callers
    <2>2. /\ Cardinality(Storing(j)') <= Cardinality(Storing(j))
          /\ Cardinality(Storing(j)') \in Nat /\ Cardinality(Storing(j)) \in Nat
          /\ Cardinality(RetrySweeps) \in Nat
      BY <2>1, StoringIsFinite, FS_Subset, FS_CardinalityType
    <2>3. items[j].count \in Nat
      BY ItemsTyped DEF EventInv
    <2>4. items[j].count + Cardinality(Storing(j)) <= MaxRetries + Cardinality(RetrySweeps) - 1
      BY DEF EventInv, CountsBounded
    <2> QED
      BY <2>2, <2>3, <2>4, EventAssumption
  <1>4. QueuedForGood'
    <2> SUFFICES ASSUME NEW f \in missed \ (delivered \cup dead')
                 PROVE  \E j \in retryQueue' : items[j].event = f /\ ~Removing(j)'
      BY DEF QueuedForGood
    <2> PICK j \in retryQueue : items[j].event = f /\ ~Removing(j)
      BY DEF EventInv, QueuedForGood
    <2>1. j # i
      BY DEF Removing
    <2>2. ~Removing(j)'
      BY <1>0 DEF Removing, Callers
    <2> QED
      BY <2>1, <2>2
  <1> QED
    BY <1>1, <1>2, <1>3, <1>4 DEF EventInv

LEMMA EventInvKept == EventInv /\ [EventNext]_eventVars => EventInv'
  <1> SUFFICES ASSUME EventInv, [EventNext]_eventVars PROVE EventInv'
    OBVIOUS
  <1>0. /\ \A c \in Callers : bus[c] \in Caller /\ CallerSound(c, bus[c])
        /\ Len(items) \in Nat /\ items \in Seq(Item)
    BY LenProperties DEF EventInv, EventsTyped, CallersSound
  <1>1. ASSUME NEW h \in Handlers, Subscribe(h) \/ Unsubscribe(h) PROVE EventInv'
    <2>1. /\ UNCHANGED <<items, retryQueue, bus, delivered, missed, dead>>
          /\ subscribed' = subscribed \cup {h} \/ subscribed' = subscribed \ {h}
      BY <1>1 DEF Subscribe, Unsubscribe
    <2>2. EventsTyped'
      BY <2>1 DEF EventInv, EventsTyped
    <2>3. CallersSound' /\ QueuedForGood'
      BY <2>1 DEF EventInv, CallersSound, CallerSound, QueuedForGood, Removing
    <2>4. \A i : Storing(i)' = Storing(i)
      BY <2>1 DEF Storing
    <2>5. CountsBounded'
      BY <2>1, <2>4 DEF EventInv, CountsBounded
    <2> QED
      BY <2>2, <2>3, <2>5 DEF EventInv
  <1>2. ASSUME NEW p \in Publishers, NEW e \in BusEvents, Publish(p, e) PROVE EventInv'
    <2> DEFINE caller == [bus[p] EXCEPT !.at = "store", !.event = e]
    <2>1. p \in Callers /\ p \notin RetrySweeps
      BY EventAssumption DEF Callers
    <2>2. caller \in Caller /\ caller.at = "store" /\ CallerSound(p, caller)
      BY <1>0, <2>1 DEF Caller, CallerSound
    <2>3. /\ bus' = [bus EXCEPT ![p] = caller]
          /\ UNCHANGED <<subscribed, items, retryQueue, delivered, missed, dead>>
      BY <1>2 DEF Publish, Set
    <2> HIDE DEF caller
    <2> QED
      BY <2>1, <2>2, <2>3, QuietStep
  <1>3. ASSUME NEW c \in Callers, NEW ok \in BOOLEAN, Store(c, ok) PROVE EventInv'
    <2>1. CASE ok
      <3> DEFINE caller == [bus[c] EXCEPT !.at = "handle", !.left = subscribed, !.failed = FALSE]
      <3>1. caller \in Caller /\ caller.at = "handle" /\ CallerSound(c, caller)
        BY <1>0, <1>3 DEF Store, Caller, CallerSound, EventInv, EventsTyped
      <3>2. /\ bus' = [bus EXCEPT ![c] = caller]
            /\ UNCHANGED <<subscribed, items, retryQueue, delivered, missed, dead>>
        BY <1>3, <2>1 DEF Store, Set
      <3> HIDE DEF caller
      <3> QED
        BY <3>1, <3>2, QuietStep
    <2>2. CASE ~ok /\ c \in RetrySweeps
      BY <1>3, <2>2, RefusedStore
    <2>3. CASE ~ok /\ c \notin RetrySweeps
      <3> DEFINE caller == [bus[c] EXCEPT !.at = "done"]
      <3>1. caller \in Caller /\ caller.at = "done" /\ CallerSound(c, caller)
        BY <1>0 DEF Caller, CallerSound
      <3>2. /\ bus' = [bus EXCEPT ![c] = caller]
            /\ UNCHANGED <<subscribed, items, retryQueue, delivered, missed, dead>>
        BY <1>3, <2>3 DEF Store, SetAt
      <3> HIDE DEF caller
      <3> QED
        BY <3>1, <3>2, QuietStep
    <2> QED
      BY <2>1, <2>2, <2>3
  <1>4. ASSUME NEW c \in Callers, NEW h \in Handlers, NEW ok \in BOOLEAN, Handle(c, h, ok)
        PROVE  EventInv'
    <2> DEFINE caller == [bus[c] EXCEPT !.left = @ \ {h}, !.failed = @ \/ ~ok]
    <2>1. caller \in Caller /\ caller.at = "handle" /\ CallerSound(c, caller)
      BY <1>0, <1>4 DEF Handle, Caller, CallerSound
    <2>2. /\ bus' = [bus EXCEPT ![c] = caller]
          /\ UNCHANGED <<subscribed, items, retryQueue, delivered, missed, dead>>
      BY <1>4 DEF Handle, Set
    <2> HIDE DEF caller
    <2> QED
      BY <2>1, <2>2, QuietStep
  <1>5. ASSUME NEW c \in Callers, Settle(c) PROVE EventInv'
    BY <1>5, SettleKeeps
  <1>6. ASSUME NEW s \in RetrySweeps, NEW due \in SUBSET retryQueue, StartSweep(s, due) PROVE EventInv'
    <2> DEFINE caller == [bus[s] EXCEPT !.at = "sweep", !.todo = due]
    <2>1. s \in Callers /\ due \subseteq 1..Len(items) /\ due \subseteq Nat
      BY DEF Callers, EventInv, EventsTyped
    <2>c. bus[s] \in Caller /\ CallerSound(s, bus[s])
      BY <1>0, <2>1
    <2>2. /\ caller \in Caller /\ caller.at = "sweep"
          /\ caller.todo = due /\ caller.item = bus[s].item
      BY <2>1, <2>c DEF Caller
    <2>4. CallerSound(s, caller)
      BY <2>1, <2>2, <2>c DEF CallerSound
    <2>3. /\ bus' = [bus EXCEPT ![s] = caller]
          /\ UNCHANGED <<subscribed, items, retryQueue, delivered, missed, dead>>
      BY <1>6 DEF StartSweep, Set
    <2> HIDE DEF caller
    <2> QED
      BY <2>1, <2>2, <2>3, <2>4, QuietStep
  <1>7. ASSUME NEW s \in RetrySweeps, NextItem(s) PROVE EventInv'
    <2> DEFINE i == Min(bus[s].todo)
               call == [bus[s] EXCEPT !.todo = @ \ {i}, !.item = i, !.event = items[i].event]
               storing == [call EXCEPT !.at = "store"]
    <2>1. /\ s \in Callers /\ bus[s].at = "sweep"
          /\ bus[s].todo \subseteq Nat /\ bus[s].todo # {} /\ bus[s].todo \subseteq 1..Len(items)
      BY <1>0, <1>7 DEF NextItem, Callers, Caller, CallerSound
    <2>2. i \in bus[s].todo /\ i \in 1..Len(items)
      BY <2>1, NatMin
    <2>3. /\ IF items[i].count < MaxRetries
             THEN /\ Set(s, storing)
                  /\ UNCHANGED <<retryQueue, dead>>
             ELSE /\ Set(s, call)
                  /\ retryQueue' = retryQueue \ {i}
                  /\ dead' = dead \cup {items[i].event}
          /\ UNCHANGED <<subscribed, items, delivered, missed>>
      BY <1>7 DEF NextItem
    <2> HIDE DEF i
    <2>4. items[i].event \in BusEvents
      BY <2>2, ItemsTyped DEF EventInv
    <2>c. bus[s] \in Caller /\ i \in Nat
      BY <1>0, <2>1, <2>2
    <2>t. bus[s].todo \ {i} \subseteq Nat /\ bus[s].todo \ {i} \subseteq 1..Len(items)
      BY <2>1
    <2>r. /\ call \in Caller /\ call.at = "sweep" /\ call.todo = bus[s].todo \ {i}
          /\ call.item = i /\ call.event = items[i].event
      BY <2>1, <2>4, <2>c, <2>t DEF Caller
    <2> HIDE DEF call
    <2>5. /\ call \in Caller /\ call.at = "sweep" /\ CallerSound(s, call)
          /\ call.item = i /\ call.event = items[i].event
      BY <2>2, <2>r, <2>t DEF CallerSound
    <2>6. storing \in Caller /\ storing.at = "store" /\ CallerSound(s, storing) /\ storing.item = i
      BY <2>2, <2>4, <2>5 DEF Caller, CallerSound
    <2> HIDE DEF storing
    <2>7. CASE items[i].count < MaxRetries
      BY <2>1, <2>3, <2>6, <2>7, QuietStep DEF Set
    <2>8. CASE ~(items[i].count < MaxRetries)
      <3>1. /\ bus' = [bus EXCEPT ![s] = call] /\ retryQueue' = retryQueue \ {i}
            /\ UNCHANGED <<subscribed, items, delivered, missed>>
            /\ dead' = dead \cup {items[i].event}
        BY <2>3, <2>8 DEF Set
      <3>2. dead \subseteq dead' /\ dead' \subseteq BusEvents /\ items[i].event \in dead'
        BY <2>4, <3>1 DEF EventInv, EventsTyped
      <3> QED
        BY <2>2, <2>5, <3>1, <3>2, UnqueuedKeeps
    <2> QED
      BY <2>7, <2>8
  <1>8. ASSUME NEW s \in RetrySweeps, RemoveItem(s) PROVE EventInv'
    <2> DEFINE caller == [bus[s] EXCEPT !.at = "sweep"]
               i == bus[s].item
    <2>1. s \in Callers
      BY DEF Callers
    <2>2. caller \in Caller /\ caller.at = "sweep" /\ CallerSound(s, caller)
      BY <1>0, <2>1 DEF Caller, CallerSound
    <2>3. /\ bus' = [bus EXCEPT ![s] = caller] /\ retryQueue' = retryQueue \ {i}
          /\ UNCHANGED <<subscribed, items, delivered, missed, dead>>
          /\ bus[s].at = "remove"
      BY <1>8 DEF RemoveItem, SetAt
    <2>4. dead \subseteq dead' /\ dead' \subseteq BusEvents
      BY <2>3 DEF EventInv, EventsTyped
    <2> HIDE DEF caller
    <2> QED
      BY <2>2, <2>3, <2>4, UnqueuedKeeps
  <1>9. ASSUME NEW s \in RetrySweeps, EndSweep(s) PROVE EventInv'
    <2>1. s \in Callers /\ CallerSound(s, IdleCaller)
      BY <1>0, IdleCallerTyped DEF Callers, CallerSound
    <2>2. /\ bus' = [bus EXCEPT ![s] = IdleCaller]
          /\ UNCHANGED <<subscribed, items, retryQueue, delivered, missed, dead>>
      BY <1>9 DEF EndSweep, Set
    <2> QED
      BY <2>1, <2>2, IdleCallerTyped, QuietStep
  <1>10. CASE UNCHANGED eventVars
    BY <1>10 DEF eventVars, EventInv, EventsTyped, CallersSound, CallerSound,
                 CountsBounded, Storing, QueuedForGood, Removing
  <1> QED
    BY <1>1, <1>2, <1>3, <1>4, <1>5, <1>6, <1>7, <1>8, <1>9, <1>10 DEF EventNext

\* EventInv holds in every state the bus can come to.
THEOREM EventSpecInv == EventSpec => []EventInv
  BY EventInitInv, EventInvKept, PTL DEF EventSpec

\* The queue, its items and the callers keep to their types; in particular no
\* item's count exceeds MaxRetries by more than overlapping sweeps can cause.
THEOREM EventTypes == EventSpec => []EventTypeOK
  <1>1. EventInv => EventTypeOK
    <2> SUFFICES ASSUME EventInv PROVE EventTypeOK
      OBVIOUS
    <2>1. DOMAIN items = 1..Len(items) /\ Len(items) \in Nat /\ Len(items) <= MaxItems
      BY LenProperties DEF EventInv, EventsTyped
    <2>2. ASSUME NEW i \in 1..Len(items)
          PROVE  /\ items[i].event \in BusEvents
                 /\ items[i].count \in 0..(MaxRetries + Cardinality(RetrySweeps) - 1)
      <3>1. items[i] \in Item
        BY ElementOfSeq DEF EventInv, EventsTyped
      <3>2. items[i].event \in BusEvents /\ items[i].count \in Nat
        BY <3>1 DEF Item
      <3>3. items[i].count + Cardinality(Storing(i)) <= MaxRetries + Cardinality(RetrySweeps) - 1
        BY DEF EventInv, CountsBounded
      <3>4. Cardinality(Storing(i)) \in Nat /\ Cardinality(RetrySweeps) \in Nat
        BY StoringIsFinite
      <3> QED
        BY <3>2, <3>3, <3>4, EventAssumption
    <2>3. ASSUME NEW c \in Callers
          PROVE  /\ bus[c].at \in {"idle", "sweep", "store", "handle", "remove", "done"}
                 /\ bus[c].left \subseteq Handlers
                 /\ bus[c].todo \cup {bus[c].item} \subseteq 0..MaxItems
      <3>1. bus[c] \in Caller /\ CallerSound(c, bus[c])
        BY DEF EventInv, EventsTyped, CallersSound
      <3> QED
        BY <2>1, <3>1, EventAssumption DEF Caller, CallerSound
    <2> QED
      BY <2>1, <2>2, <2>3 DEF EventInv, EventsTyped, EventTypeOK
  <1> QED
    BY EventSpecInv, <1>1, PTL

\* An event some handler has failed for stays queued until it is delivered or
\* given up (RetryMiddleware, processRetries).
THEOREM NoFailedEventIsLost == EventSpec => []FailedEventsAreRetried
  <1>1. EventInv => FailedEventsAreRetried
    BY DEF EventInv, QueuedForGood, FailedEventsAreRetried
  <1> QED
    BY EventSpecInv, <1>1, PTL

-----------------------------------------------------------------------------
(* SeatmapStore *)

MapCall ==
    [at : {"idle", "find", "insert", "log", "unpublish", "publish",
           "flush", "cached", "latest", "fill", "snapshot", "done"},
     op : {"none", "save", "publish", "mobile", "snapshot"},
     version : MapVersions \cup {NoMap}, event : MapEvents \cup {NoMap}, overtaken : BOOLEAN]

MapsTyped ==
    /\ hashing \in BOOLEAN /\ hadPublished \in BOOLEAN /\ interrupted \in BOOLEAN /\ unflushed \in BOOLEAN /\ lateFill \in BOOLEAN
    /\ legacy \cup published \cup changelog \subseteq stored
    /\ stored \subseteq MapVersions
    /\ mobile \in stored \cup {NoMap}
    /\ snapshots \in [MapEvents -> stored \cup {NoMap}]
    /\ mapCall \in [MapCalls -> MapCall]
    /\ failures \in 0..MaxFailures

\* What a call knows: it writes a version of the venue, enters a stored one in
\* the history, and has read a stored one whose hash it could check.  What a
\* mobile call is about to cache is the latest still, unless it is overtaken.
MapCallSound(call) ==
    /\ call.at \in {"find", "insert", "log", "unpublish", "publish"} => call.version \in MapVersions
    /\ call.at = "log" => call.version \in stored
    /\ call.at \in {"fill", "snapshot"} => call.version \in stored \ legacy
    /\ call.at = "fill" /\ ~call.overtaken => call.version \in Latest

MapCallsSound == \A c \in MapCalls : MapCallSound(mapCall[c])

\* The calls that have yet to write published_at, if they do.
Unstamped == {c \in MapCalls : mapCall[c].at \in {"idle", "find", "insert", "unpublish", "publish"}}

\* Dates of the past leave room for one more by each of these.
Past(n) == n \in Nat /\ n + Cardinality(Unstamped) <= Cardinality(MapCalls)

StampsBounded ==
    /\ DOMAIN publishedAt = MapVersions /\ publishedAt = [v \in MapVersions |-> publishedAt[v]]
    /\ \A v \in MapVersions : Past(publishedAt[v]) \/ publishedAt[v] = Future

MapInv ==
    /\ MapsTyped /\ MapCallsSound /\ StampsBounded
    /\ PublishedUnlessInterrupted /\ StaleMapsComeFromRaces

LEMMA IdleMapTyped == IdleMap \in MapCall /\ IdleMap.at = "idle"
  BY DEF IdleMap, MapCall

LEMMA UnstampedIsFinite ==
    /\ Unstamped \in SUBSET MapCalls /\ IsFiniteSet(Unstamped)
    /\ Cardinality(Unstamped) \in Nat /\ Cardinality(MapCalls) \in Nat
    /\ Cardinality(Unstamped) <= Cardinality(MapCalls)
  <1>1. Unstamped \in SUBSET MapCalls
    BY DEF Unstamped
  <1> QED
    BY <1>1, MapAssumption, FS_Subset, FS_CardinalityType

LEMMA MapInitInv == MapInit => MapInv
  <1> SUFFICES ASSUME MapInit PROVE MapInv
    OBVIOUS
  <1> USE DEF MapInit
  <1>0. failures \in 0..MaxFailures
    BY MapAssumption
  <1>1. MapsTyped
    BY <1>0, IdleMapTyped DEF MapsTyped
  <1>2. MapCallsSound
    BY IdleMapTyped DEF MapCallsSound, MapCallSound
  <1>3. StampsBounded
    BY UnstampedIsFinite DEF StampsBounded, Past
  <1>4. PublishedUnlessInterrupted /\ StaleMapsComeFromRaces
    BY DEF PublishedUnlessInterrupted, StaleMapsComeFromRaces
  <1> QED
    BY <1>1, <1>2, <1>3, <1>4 DEF MapInv

LEMMA NatMax ==
    ASSUME NEW S, S \subseteq Nat, S # {}, NEW n \in Nat, \A x \in S : x <= n
    PROVE  Max(S) \in S /\ \A y \in S : y <= Max(S)
  <1> DEFINE T == {n - x : x \in S}
  <1>0. \A x \in S : n - x \in Nat
    OBVIOUS
  <1>1. T \subseteq Nat /\ T # {}
    BY <1>0
  <1>2. \A x \in S : n - x \in T
    OBVIOUS
  <1>3. PICK x \in S : Min(T) = n - x
    <2>1. Min(T) \in T
      BY <1>1, NatMin
    <2> QED
      BY <2>1
  <1>4. \A y \in T : n - x <= y
    <2> HIDE DEF T
    <2> QED
      BY <1>1, <1>3, NatMin
  <1> HIDE DEF T
  <1>5. \A y \in S : y <= x
    BY <1>2, <1>4
  <1> QED
    BY <1>5 DEF Max

\* A call that has yet to write a date finds the current one within the bound.
LEMMA NextStampBounded ==
    ASSUME StampsBounded, NEW c \in Unstamped
    PROVE  /\ NextStamp \in Nat
           /\ NextStamp + Cardinality(Unstamped \ {c}) <= Cardinality(MapCalls)
  <1> DEFINE S == {0} \cup ({publishedAt[v] : v \in MapVersions} \ {Future})
             n == Cardinality(MapCalls) - Cardinality(Unstamped)
  <1>1. n \in Nat /\ Cardinality(MapCalls) \in Nat /\ Cardinality(Unstamped) \in Nat
    BY UnstampedIsFinite
  <1>2. S \subseteq Nat /\ S # {} /\ \A x \in S : x <= n
    BY <1>1 DEF StampsBounded, Past
  <1>3. Max(S) \in Nat /\ Max(S) <= n
    <2> HIDE DEF S, n
    <2> QED
      BY <1>1, <1>2, NatMax
  <1>4. Cardinality(Unstamped \ {c}) = Cardinality(Unstamped) - 1
    BY UnstampedIsFinite, FS_RemoveElement
  <1>5. NextStamp = 1 + Max(S)
    BY DEF NextStamp
  <1> HIDE DEF S
  <1> QED
    BY <1>1, <1>3, <1>4, <1>5

\* The dates stay within their bound when no call becomes unstamped, and a
\* date that is not in the future is written by one that was.
LEMMA StampsKept ==
    ASSUME StampsBounded, Unstamped' \subseteq Unstamped,
           \/ publishedAt' = publishedAt
           \/ \E v \in MapVersions, stamp \in (0..NextStamp) \cup {Future} :
                /\ publishedAt' = [publishedAt EXCEPT ![v] = stamp]
                /\ \E c \in Unstamped : c \notin Unstamped'
    PROVE  StampsBounded'
  <1>1. /\ Cardinality(Unstamped) \in Nat /\ Cardinality(MapCalls) \in Nat
        /\ Cardinality(Unstamped') \in Nat /\ Cardinality(Unstamped') <= Cardinality(Unstamped)
    BY UnstampedIsFinite, FS_Subset, FS_CardinalityType
  <1>f. Future' = Future
    BY DEF Future
  <1>2. CASE publishedAt' = publishedAt
    BY <1>1, <1>2, <1>f DEF StampsBounded, Past
  <1>3. ASSUME NEW v \in MapVersions, NEW stamp \in (0..NextStamp) \cup {Future},
               publishedAt' = [publishedAt EXCEPT ![v] = stamp],
               NEW c \in Unstamped, c \notin Unstamped'
        PROVE  StampsBounded'
    <2>1. /\ NextStamp \in Nat
          /\ NextStamp + Cardinality(Unstamped \ {c}) <= Cardinality(MapCalls)
      BY <1>3, NextStampBounded
    <2>2. IsFiniteSet(Unstamped \ {c}) /\ Unstamped' \in SUBSET (Unstamped \ {c})
      BY <1>3, UnstampedIsFinite, FS_Difference
    <2>3. /\ Cardinality(Unstamped') <= Cardinality(Unstamped \ {c})
          /\ Cardinality(Unstamped \ {c}) \in Nat
      BY <2>2, FS_Subset, FS_CardinalityType
    <2>4. \A w \in MapVersions :
            /\ publishedAt'[w] = (IF w = v THEN stamp ELSE publishedAt[w])
            /\ Past(publishedAt[w]) \/ publishedAt[w] = Future
      BY <1>3 DEF StampsBounded
    <2>5. publishedAt' = [w \in MapVersions |-> publishedAt'[w]] /\ DOMAIN publishedAt' = MapVersions
      BY <1>3 DEF StampsBounded
    <2>6. Past(stamp)' \/ stamp = Future
      BY <1>1, <2>1, <2>3 DEF Past
    <2>7. \A w \in MapVersions : Past(publishedAt[w]) => Past(publishedAt[w])' \/ w = v
      BY <1>1, <2>4 DEF Past
    <2>8. \A w \in MapVersions : Past(publishedAt[w])' \/ publishedAt'[w] = Future
      BY <1>3, <2>4, <2>6, <2>7 DEF Past
    <2> QED
      BY <1>f, <2>5, <2>8 DEF StampsBounded
  <1> QED
    BY <1>2, <1>3

\* A call moves on and no version is written.
LEMMA QuietCall ==
    ASSUME MapInv, NEW c \in MapCalls, NEW call \in MapCall,
           mapCall' = [mapCall EXCEPT ![c] = call],
           UNCHANGED <<legacy, stored, published, publishedAt>>,
           MapCallSound(call), call.at \notin {"idle", "publish"},
           call.at \in {"find", "insert", "unpublish"} => c \in Unstamped
    PROVE  /\ mapCall' \in [MapCalls -> MapCall] /\ MapCallsSound' /\ StampsBounded'
           /\ \A d \in MapCalls : mapCall'[d] = IF d = c THEN call ELSE mapCall[d]
  <1>1. /\ mapCall' \in [MapCalls -> MapCall]
        /\ \A d \in MapCalls : mapCall'[d] = IF d = c THEN call ELSE mapCall[d]
    BY DEF MapInv, MapsTyped
  <1>2. MapCallsSound'
    <2>1. Latest' = Latest
      BY DEF Latest
    <2> QED
      BY <1>1, <2>1 DEF MapInv, MapCallsSound, MapCallSound
  <1>3. Unstamped' \subseteq Unstamped
    BY <1>1 DEF Unstamped
  <1> QED
    BY <1>1, <1>2, <1>3, StampsKept DEF MapInv

\* A call writes a version: those that are about to fill the cache are overtaken.
LEMMA WritingCall ==
    ASSUME MapInv, NEW c \in MapCalls, NEW at, MapWrites(c, at), mapCall[c].at # "fill",
           at \in {"log", "publish", "flush"},
           legacy' = legacy, stored \subseteq stored',
           at = "log" => mapCall[c].version \in stored' \cap MapVersions,
           at = "publish" => mapCall[c].version \in MapVersions /\ c \in Unstamped
    PROVE  /\ mapCall' \in [MapCalls -> MapCall] /\ MapCallsSound'
           /\ Unstamped' = IF at = "publish" THEN Unstamped ELSE Unstamped \ {c}
           /\ \A d \in MapCalls : mapCall'[d].at = IF d = c THEN at ELSE mapCall[d].at
  <1>1. ASSUME NEW d \in MapCalls
        PROVE  /\ mapCall'[d] \in MapCall
               /\ mapCall'[d].at = (IF d = c THEN at ELSE mapCall[d].at)
               /\ mapCall'[d].version = mapCall[d].version
               /\ mapCall[d].at = "fill" /\ d # c => mapCall'[d].overtaken
    <2>1. mapCall[d] \in MapCall
      BY DEF MapInv, MapsTyped
    <2>2. mapCall'[d] =
            IF d = c THEN [mapCall[d] EXCEPT !.at = at]
            ELSE IF mapCall[d].at = "fill" THEN [mapCall[d] EXCEPT !.overtaken = TRUE]
            ELSE mapCall[d]
      BY DEF MapWrites
    <2> QED
      BY <2>1, <2>2 DEF MapCall
  <1>2. mapCall' = [d \in MapCalls |-> mapCall'[d]]
    BY DEF MapWrites
  <1>3. mapCall' \in [MapCalls -> MapCall]
    BY <1>1, <1>2
  <1>4. MapCallsSound'
    <2> SUFFICES ASSUME NEW d \in MapCalls PROVE MapCallSound(mapCall[d])'
      BY DEF MapCallsSound
    <2>1. MapCallSound(mapCall[d]) /\ stored \subseteq MapVersions
      BY DEF MapInv, MapCallsSound, MapsTyped
    <2>2. CASE d = c
      <3>1. mapCall'[d].at = at /\ mapCall'[d].version = mapCall[d].version
        BY <1>1, <2>2
      <3> QED
        BY <2>2, <3>1 DEF MapCallSound
    <2>3. CASE d # c
      <3>1. /\ mapCall'[d].at = mapCall[d].at /\ mapCall'[d].version = mapCall[d].version
            /\ mapCall[d].at = "fill" => mapCall'[d].overtaken
        BY <1>1, <2>3
      <3> QED
        BY <2>1, <3>1 DEF MapCallSound
    <2> QED
      BY <2>2, <2>3
  <1>5. Unstamped' = IF at = "publish" THEN Unstamped ELSE Unstamped \ {c}
    BY <1>1 DEF Unstamped
  <1> QED
    BY <1>1, <1>3, <1>4, <1>5

\* A call that only looks around or ends leaves the caches and the published
\* seatmap as they were.
LEMMA LookingCall ==
    ASSUME MapInv, NEW c \in MapCalls, NEW call \in MapCall,
           mapCall' = [mapCall EXCEPT ![c] = call],
           MapsKept, CacheKept, MapCallSound(call), call.at \notin {"idle", "publish"},
           mapCall[c].at \notin {"log", "publish", "flush"},
           call.at \in {"find", "insert", "unpublish"} => c \in Unstamped
    PROVE  MapInv'
  <1> USE DEF MapsKept, CacheKept
  <1>1. /\ mapCall' \in [MapCalls -> MapCall] /\ MapCallsSound' /\ StampsBounded'
        /\ \A d \in MapCalls : mapCall'[d] = IF d = c THEN call ELSE mapCall[d]
    BY QuietCall
  <1>2. MapsTyped'
    BY <1>1 DEF MapInv, MapsTyped
  <1>3. PublishedUnlessInterrupted'
    BY <1>1 DEF MapInv, PublishedUnlessInterrupted, MapAt
  <1>4. StaleMapsComeFromRaces'
    <2>1. Latest' = Latest
      BY DEF Latest
    <2> QED
      BY <1>1, <2>1 DEF MapInv, StaleMapsComeFromRaces
  <1> QED
    BY <1>1, <1>2, <1>3, <1>4 DEF MapInv

\* The same for a call that goes to its next command.
LEMMA CallGoes ==
    ASSUME MapInv, NEW c \in MapCalls, NEW at, MapGoes(c, at)
    PROVE  /\ mapCall[c] \in MapCall /\ MapCallSound(mapCall[c])
           /\ mapCall' = [mapCall EXCEPT ![c] = [mapCall[c] EXCEPT !.at = at]]
           /\ [mapCall[c] EXCEPT !.at = at].at = at
           /\ [mapCall[c] EXCEPT !.at = at].version = mapCall[c].version
           /\ [mapCall[c] EXCEPT !.at = at].overtaken = mapCall[c].overtaken
           /\ at \in {"insert", "flush", "latest", "done"} => [mapCall[c] EXCEPT !.at = at] \in MapCall
  <1>1. mapCall[c] \in MapCall /\ MapCallSound(mapCall[c])
    BY DEF MapInv, MapsTyped, MapCallsSound
  <1>2. mapCall' = [mapCall EXCEPT ![c] = [mapCall[c] EXCEPT !.at = at]]
    BY DEF MapGoes
  <1> QED
    BY <1>1, <1>2 DEF MapCall

LEMMA InsertKeeps ==
    ASSUME MapInv, NEW c \in MapCalls, NEW flag \in BOOLEAN, NEW stamp \in Stamps,
           InsertVersion(c, flag, stamp)
    PROVE  MapInv'
  <1> DEFINE v == mapCall[c].version
  <1>1. /\ mapCall[c].at = "insert" /\ v \in MapVersions /\ c \in Unstamped
        /\ UNCHANGED <<hashing, legacy, changelog>> /\ CacheKept
        /\ stamp \in (0..NextStamp) \cup {Future}
    BY DEF InsertVersion, MapAt, MapInv, MapCallsSound, MapCallSound, Unstamped
  <1>2. CASE v \in stored
    <2>1. MapGoes(c, "done") /\ MapsKept
      BY <1>1, <1>2 DEF InsertVersion, MapsKept
    <2> DEFINE call == [mapCall[c] EXCEPT !.at = "done"]
    <2>2. /\ call \in MapCall /\ call.at = "done" /\ mapCall' = [mapCall EXCEPT ![c] = call]
          /\ MapCallSound(call)
      BY <2>1, CallGoes DEF MapCallSound
    <2> HIDE DEF call
    <2> QED
      BY <1>1, <2>1, <2>2, LookingCall
  <1>3. CASE v \notin stored
    <2>1. /\ stored' = stored \cup {v}
          /\ published' = (IF flag THEN published \cup {v} ELSE published)
          /\ publishedAt' = [publishedAt EXCEPT ![v] = stamp]
          /\ hadPublished' = (hadPublished \/ flag)
          /\ MapWrites(c, "log")
      BY <1>3 DEF InsertVersion
    <2>2. /\ mapCall' \in [MapCalls -> MapCall] /\ MapCallsSound'
          /\ Unstamped' = Unstamped \ {c}
          /\ \A d \in MapCalls : mapCall'[d].at = IF d = c THEN "log" ELSE mapCall[d].at
      BY <1>1, <2>1, WritingCall
    <2>3. StampsBounded'
      BY <1>1, <2>1, <2>2, StampsKept DEF MapInv
    <2>4. MapsTyped'
      BY <1>1, <2>1, <2>2 DEF MapInv, MapsTyped, CacheKept
    <2>5. PublishedUnlessInterrupted'
      BY <1>1, <2>1, <2>2 DEF MapInv, PublishedUnlessInterrupted, MapAt, CacheKept
    <2>6. StaleMapsComeFromRaces'
      BY <2>2 DEF StaleMapsComeFromRaces
    <2> QED
      BY <2>2, <2>3, <2>4, <2>5, <2>6 DEF MapInv
  <1> QED
    BY <1>2, <1>3

LEMMA UnpublishKeeps ==
    ASSUME MapInv, NEW c \in MapCalls, UnpublishAll(c)
    PROVE  MapInv'
  <1>1. /\ mapCall[c].at = "unpublish" /\ mapCall[c].version \in MapVersions /\ c \in Unstamped
        /\ published' = {} /\ MapWrites(c, "publish")
        /\ UNCHANGED <<hashing, legacy, stored, publishedAt, hadPublished, changelog>> /\ CacheKept
    BY DEF UnpublishAll, MapAt, WriteAfter, MapInv, MapCallsSound, MapCallSound, Unstamped
  <1>2. /\ mapCall' \in [MapCalls -> MapCall] /\ MapCallsSound' /\ Unstamped' = Unstamped
        /\ \A d \in MapCalls : mapCall'[d].at = IF d = c THEN "publish" ELSE mapCall[d].at
    BY <1>1, WritingCall
  <1>3. StampsBounded'
    BY <1>1, <1>2, StampsKept DEF MapInv
  <1>4. MapsTyped'
    BY <1>1, <1>2 DEF MapInv, MapsTyped, CacheKept
  <1>5. PublishedUnlessInterrupted' /\ StaleMapsComeFromRaces'
    BY <1>2 DEF PublishedUnlessInterrupted, StaleMapsComeFromRaces, MapAt
  <1> QED
    BY <1>2, <1>3, <1>4, <1>5 DEF MapInv

LEMMA PublishKeeps ==
    ASSUME MapInv, NEW c \in MapCalls, PublishOne(c)
    PROVE  MapInv'
  <1> DEFINE v == mapCall[c].version
  <1>1. /\ mapCall[c].at = "publish" /\ v \in MapVersions /\ c \in Unstamped
        /\ hadPublished' = (hadPublished \/ v \in stored)
        /\ interrupted' = (v \notin stored) /\ unflushed' = (unflushed \/ v \notin stored)
        /\ UNCHANGED <<hashing, legacy, stored, changelog, mobile, snapshots, failures, lateFill>>
    BY DEF PublishOne, MapAt, MapInv, MapCallsSound, MapCallSound, Unstamped
  <1>2. CASE v \in stored
    <2>1. /\ published' = published \cup {v}
          /\ publishedAt' = [publishedAt EXCEPT ![v] = NextStamp]
          /\ MapWrites(c, "flush")
      BY <1>2 DEF PublishOne, WriteAfter
    <2>2. /\ mapCall' \in [MapCalls -> MapCall] /\ MapCallsSound'
          /\ Unstamped' = Unstamped \ {c}
          /\ \A d \in MapCalls : mapCall'[d].at = IF d = c THEN "flush" ELSE mapCall[d].at
      BY <1>1, <2>1, WritingCall
    <2>3. StampsBounded'
      <3>1. NextStamp \in Nat
        BY <1>1, NextStampBounded DEF MapInv
      <3>2. NextStamp \in (0..NextStamp) \cup {Future}
        BY <3>1
      <3> QED
        BY <1>1, <2>1, <2>2, <3>2, StampsKept DEF MapInv
    <2>4. MapsTyped'
      BY <1>1, <1>2, <2>1, <2>2 DEF MapInv, MapsTyped
    <2>5. PublishedUnlessInterrupted' /\ StaleMapsComeFromRaces'
      BY <2>1, <2>2 DEF PublishedUnlessInterrupted, StaleMapsComeFromRaces
    <2> QED
      BY <2>2, <2>3, <2>4, <2>5 DEF MapInv
  <1>3. CASE v \notin stored
    <2>1. MapGoes(c, "done") /\ UNCHANGED <<published, publishedAt>>
      BY <1>3 DEF PublishOne
    <2> DEFINE call == [mapCall[c] EXCEPT !.at = "done"]
    <2>2. /\ call \in MapCall /\ call.at = "done" /\ mapCall' = [mapCall EXCEPT ![c] = call]
          /\ MapCallSound(call)
      BY <2>1, CallGoes DEF MapCallSound
    <2> HIDE DEF call
    <2>3. mapCall' \in [MapCalls -> MapCall] /\ MapCallsSound' /\ StampsBounded'
      BY <1>1, <2>1, <2>2, QuietCall
    <2>4. MapsTyped'
      BY <1>1, <2>1, <2>3 DEF MapInv, MapsTyped
    <2>5. PublishedUnlessInterrupted' /\ StaleMapsComeFromRaces'
      BY <1>1, <1>3 DEF PublishedUnlessInterrupted, StaleMapsComeFromRaces
    <2> QED
      BY <2>3, <2>4, <2>5 DEF MapInv
  <1> QED
    BY <1>2, <1>3

\* A call that ends, having emptied or filled the cache, taken a snapshot or
\* died; what it leaves behind is for the ghosts to say.
LEMMA EndingCall ==
    ASSUME MapInv, NEW c \in MapCalls, MapGoes(c, "done"), MapsKept,
           mobile' \in stored \cup {NoMap}, snapshots' \in [MapEvents -> stored \cup {NoMap}],
           failures' \in 0..MaxFailures, interrupted' \in BOOLEAN,
           unflushed' \in BOOLEAN, lateFill' \in BOOLEAN,
           interrupted' = (interrupted \/ mapCall[c].at = "publish"),
           StaleMapsComeFromRaces'
    PROVE  MapInv'
  <1> USE DEF MapsKept
  <1> DEFINE call == [mapCall[c] EXCEPT !.at = "done"]
  <1>1. /\ call \in MapCall /\ call.at = "done" /\ mapCall' = [mapCall EXCEPT ![c] = call]
        /\ MapCallSound(call)
    BY CallGoes DEF MapCallSound
  <1> HIDE DEF call
  <1>2. /\ mapCall' \in [MapCalls -> MapCall] /\ MapCallsSound' /\ StampsBounded'
        /\ \A d \in MapCalls : mapCall'[d] = IF d = c THEN call ELSE mapCall[d]
    BY <1>1, QuietCall
  <1>3. MapsTyped'
    BY <1>2 DEF MapInv, MapsTyped
  <1>4. PublishedUnlessInterrupted'
    BY <1>1, <1>2 DEF MapInv, PublishedUnlessInterrupted, MapAt
  <1> QED
    BY <1>2, <1>3, <1>4 DEF MapInv

LEMMA MapInvKept == MapInv /\ [MapNext]_mapVars => MapInv'
  <1> SUFFICES ASSUME MapInv, [MapNext]_mapVars PROVE MapInv'
    OBVIOUS
  <1>0. \A c \in MapCalls : mapCall[c] \in MapCall /\ MapCallSound(mapCall[c])
    BY DEF MapInv, MapsTyped, MapCallsSound
  <1>a. ASSUME NEW c \in MapCalls,
               NEW op \in {"save", "publish", "mobile", "snapshot"},
               NEW at \in {"find", "done", "unpublish", "cached", "latest"},
               NEW v \in MapVersions \cup {NoMap}, NEW e \in MapEvents \cup {NoMap},
               Ask(c, op, at, v, e), at \in {"find", "unpublish"} => v \in MapVersions
        PROVE  MapInv'
    <2> DEFINE call == [mapCall[c] EXCEPT !.op = op, !.at = at, !.version = v, !.event = e]
    <2>1. call \in MapCall /\ call.at = at /\ call.version = v
      BY <1>0 DEF MapCall
    <2>2. /\ mapCall' = [mapCall EXCEPT ![c] = call] /\ MapsKept /\ CacheKept
          /\ mapCall[c].at = "idle" /\ c \in Unstamped
      BY <1>a DEF Ask, MapAt, Unstamped
    <2> HIDE DEF call
    <2>3. MapCallSound(call)
      BY <1>a, <2>1 DEF MapCallSound
    <2> QED
      BY <2>1, <2>2, <2>3, LookingCall
  <1>1. ASSUME NEW c \in MapCalls, NEW v \in MapVersions, AskSave(c, v) PROVE MapInv'
    BY <1>1, <1>a DEF AskSave
  <1>2. ASSUME NEW c \in MapCalls, NEW v \in MapVersions, AskPublish(c, v) PROVE MapInv'
    BY <1>2, <1>a DEF AskPublish, WriteAfter
  <1>3. ASSUME NEW c \in MapCalls, AskMobile(c) PROVE MapInv'
    BY <1>3, <1>a DEF AskMobile
  <1>4. ASSUME NEW c \in MapCalls, NEW e \in MapEvents, AskSnapshot(c, e) PROVE MapInv'
    BY <1>4, <1>a DEF AskSnapshot
  <1>b. ASSUME NEW c \in MapCalls, NEW at \in {"insert", "latest", "done"}, MapGoes(c, at),
               MapsKept, CacheKept, mapCall[c].at \in {"find", "cached", "latest"},
               at = "insert" => mapCall[c].at = "find"
        PROVE  MapInv'
    <2> DEFINE call == [mapCall[c] EXCEPT !.at = at]
    <2>1. /\ call \in MapCall /\ call.at = at /\ call.version = mapCall[c].version
          /\ mapCall' = [mapCall EXCEPT ![c] = call]
      BY <1>b, CallGoes
    <2> HIDE DEF call
    <2>2. MapCallSound(call) /\ (at = "insert" => c \in Unstamped)
      BY <1>0, <1>b, <2>1 DEF MapCallSound, Unstamped
    <2> QED
      BY <1>b, <2>1, <2>2, LookingCall
  <1>5. ASSUME NEW c \in MapCalls, FindVersion(c) PROVE MapInv'
    BY <1>5, <1>b DEF FindVersion, MapAt
  <1>6. ASSUME NEW c \in MapCalls, NEW flag \in BOOLEAN, NEW stamp \in Stamps,
               InsertVersion(c, flag, stamp)
        PROVE  MapInv'
    BY <1>6, InsertKeeps
  <1>7. ASSUME NEW c \in MapCalls, LogVersion(c) PROVE MapInv'
    <2> DEFINE call == [mapCall[c] EXCEPT !.at = "flush"]
    <2>1. /\ MapGoes(c, "flush") /\ mapCall[c].at = "log" /\ changelog' = changelog \cup {mapCall[c].version}
          /\ UNCHANGED <<hashing, legacy, stored, published, publishedAt, hadPublished>> /\ CacheKept
      BY <1>7 DEF LogVersion, MapAt
    <2>2. /\ call \in MapCall /\ call.at = "flush" /\ mapCall' = [mapCall EXCEPT ![c] = call]
          /\ MapCallSound(call) /\ mapCall[c].version \in stored
      BY <1>0, <2>1, CallGoes DEF MapCallSound
    <2> HIDE DEF call
    <2>3. /\ mapCall' \in [MapCalls -> MapCall] /\ MapCallsSound' /\ StampsBounded'
          /\ \A d \in MapCalls : mapCall'[d] = IF d = c THEN call ELSE mapCall[d]
      BY <2>1, <2>2, QuietCall
    <2>4. MapsTyped'
      BY <2>1, <2>2, <2>3 DEF MapInv, MapsTyped, CacheKept
    <2>5. PublishedUnlessInterrupted'
      BY <2>1, <2>3 DEF MapInv, PublishedUnlessInterrupted, MapAt, CacheKept
    <2>6. StaleMapsComeFromRaces'
      BY <2>2, <2>3 DEF StaleMapsComeFromRaces
    <2> QED
      BY <2>3, <2>4, <2>5, <2>6 DEF MapInv
  <1>8. ASSUME NEW c \in MapCalls, UnpublishAll(c) PROVE MapInv'
    BY <1>8, UnpublishKeeps
  <1>9. ASSUME NEW c \in MapCalls, PublishOne(c) PROVE MapInv'
    BY <1>9, PublishKeeps
  <1>10. ASSUME NEW c \in MapCalls, Flush(c) PROVE MapInv'
    <2>1. /\ mobile' = NoMap /\ ~unflushed' /\ ~lateFill' /\ unflushed' \in BOOLEAN /\ lateFill' \in BOOLEAN
          /\ MapGoes(c, "done") /\ MapsKept /\ UNCHANGED <<snapshots, failures, interrupted>>
          /\ mapCall[c].at = "flush"
      BY <1>10 DEF Flush, CacheAfter, MapAt
    <2>2. StaleMapsComeFromRaces'
      BY <2>1 DEF StaleMapsComeFromRaces
    <2> QED
      BY <2>1, <2>2, EndingCall DEF MapInv, MapsTyped
  <1>11. ASSUME NEW c \in MapCalls, ReadCache(c) PROVE MapInv'
    BY <1>11, <1>b DEF ReadCache, MapAt
  <1>12. ASSUME NEW c \in MapCalls, ReadLatest(c) PROVE MapInv'
    <2> DEFINE at == IF mapCall[c].op = "mobile" THEN "fill" ELSE "snapshot"
    <2>1. ASSUME NEW v \in Latest \ legacy,
                 mapCall' = [mapCall EXCEPT ![c].version = v, ![c].at = at]
          PROVE  MapInv'
      <3> DEFINE call == [mapCall[c] EXCEPT !.version = v, !.at = at]
      <3>2. v \in stored \ legacy /\ v \in MapVersions
        BY <2>1 DEF Latest, MapInv, MapsTyped
      <3>3. call \in MapCall /\ call.at = at /\ call.version = v
        BY <1>0, <3>2 DEF MapCall
      <3>4. mapCall' = [mapCall EXCEPT ![c] = call]
        BY <2>1 DEF MapInv, MapsTyped
      <3> HIDE DEF call
      <3>5. MapCallSound(call)
        BY <2>1, <3>2, <3>3 DEF MapCallSound
      <3>6. MapsKept /\ CacheKept /\ mapCall[c].at = "latest"
        BY <1>12 DEF ReadLatest, MapAt
      <3> QED
        BY <3>3, <3>4, <3>5, <3>6, LookingCall
    <2>2. CASE MapGoes(c, "done")
      BY <1>12, <1>b, <2>2 DEF ReadLatest, MapAt
    <2> QED
      BY <1>12, <2>1, <2>2 DEF ReadLatest
  <1>13. ASSUME NEW c \in MapCalls, FillCache(c) PROVE MapInv'
    <2>1. /\ mobile' = mapCall[c].version /\ lateFill' = mapCall[c].overtaken
          /\ unflushed' = (unflushed /\ lateFill') /\ mapCall[c].at = "fill"
          /\ MapGoes(c, "done") /\ MapsKept /\ UNCHANGED <<snapshots, failures, interrupted>>
      BY <1>13 DEF FillCache, MapAt
    <2>2. /\ mapCall[c].version \in stored /\ lateFill' \in BOOLEAN /\ unflushed' \in BOOLEAN
          /\ ~lateFill' => mobile' \in Latest
      BY <1>0, <2>1 DEF MapCall, MapCallSound
    <2>3. Latest' = Latest
      BY <2>1 DEF Latest, MapsKept
    <2>4. StaleMapsComeFromRaces'
      BY <2>2, <2>3 DEF StaleMapsComeFromRaces
    <2> QED
      BY <2>1, <2>2, <2>4, EndingCall DEF MapInv, MapsTyped
  <1>14. ASSUME NEW c \in MapCalls, WriteSnapshot(c) PROVE MapInv'
    <2>1. /\ snapshots' = (IF snapshots[mapCall[c].event] = NoMap
                           THEN [snapshots EXCEPT ![mapCall[c].event] = mapCall[c].version]
                           ELSE snapshots)
          /\ mapCall[c].at = "snapshot" /\ MapGoes(c, "done") /\ MapsKept
          /\ UNCHANGED <<mobile, failures, interrupted, unflushed, lateFill>>
      BY <1>14 DEF WriteSnapshot, MapAt
    <2>2. mapCall[c].version \in stored
      BY <1>0, <2>1 DEF MapCallSound
    <2>3. snapshots' \in [MapEvents -> stored \cup {NoMap}]
      BY <2>1, <2>2 DEF MapInv, MapsTyped
    <2>4. StaleMapsComeFromRaces'
      <3>1. Latest' = Latest
        BY <2>1 DEF Latest, MapsKept
      <3>2. \A d \in MapCalls : mapCall[d].at \in {"log", "publish", "flush"} => mapCall'[d] = mapCall[d]
        BY <2>1 DEF MapGoes, MapInv, MapsTyped
      <3> QED
        BY <2>1, <3>1, <3>2 DEF MapInv, StaleMapsComeFromRaces
    <2> QED
      BY <2>1, <2>3, <2>4, EndingCall DEF MapInv, MapsTyped
  <1>15. ASSUME NEW c \in MapCalls, CallDies(c) PROVE MapInv'
    <2>1. /\ failures < MaxFailures /\ failures' = failures + 1
          /\ interrupted' = (interrupted \/ mapCall[c].at = "publish")
          /\ unflushed' = (unflushed \/ mapCall[c].at \in {"log", "publish", "flush"})
          /\ MapGoes(c, "done") /\ MapsKept /\ UNCHANGED <<mobile, snapshots, lateFill>>
      BY <1>15 DEF CallDies
    <2>2. failures' \in 0..MaxFailures
      BY <2>1, MapAssumption DEF MapInv, MapsTyped
    <2>3. StaleMapsComeFromRaces'
      <3>1. Latest' = Latest
        BY <2>1 DEF Latest, MapsKept
      <3>2. \A d \in MapCalls \ {c} : mapCall'[d] = mapCall[d]
        BY <2>1 DEF MapGoes, MapInv, MapsTyped
      <3> QED
        BY <2>1, <3>1, <3>2 DEF MapInv, StaleMapsComeFromRaces
    <2>4. interrupted' \in BOOLEAN /\ unflushed' \in BOOLEAN
      BY <2>1 DEF MapInv, MapsTyped
    <2> QED
      BY <2>1, <2>2, <2>3, <2>4, EndingCall DEF MapInv, MapsTyped
  <1>16. CASE CacheExpires
    <2>1. /\ mobile' = NoMap /\ ~unflushed' /\ ~lateFill' /\ unflushed' \in BOOLEAN /\ lateFill' \in BOOLEAN
          /\ MapsKept /\ UNCHANGED <<snapshots, mapCall, failures, interrupted>>
      BY <1>16 DEF CacheExpires
    <2>2. MapsTyped' /\ StaleMapsComeFromRaces'
      BY <2>1 DEF MapInv, MapsTyped, MapsKept, StaleMapsComeFromRaces
    <2>3. MapCallsSound' /\ StampsBounded' /\ PublishedUnlessInterrupted'
      BY <2>1 DEF MapInv, MapCallsSound, MapCallSound, Latest, StampsBounded, Past, Future, Unstamped,
                  PublishedUnlessInterrupted, MapAt, MapsKept
    <2> QED
      BY <2>2, <2>3 DEF MapInv
  <1>17. CASE UNCHANGED mapVars
    BY <1>17 DEF mapVars, MapInv, MapsTyped, MapCallsSound, MapCallSound, Latest, StampsBounded,
                 Past, Future, Unstamped, PublishedUnlessInterrupted, StaleMapsComeFromRaces, MapAt
  <1> QED
    BY <1>1, <1>2, <1>3, <1>4, <1>5, <1>6, <1>7, <1>8, <1>9, <1>10, <1>11, <1>12, <1>13, <1>14,
       <1>15, <1>16, <1>17 DEF MapNext

\* MapInv holds in every state the collections and the cache can come to.
THEOREM MapSpecInv == MapSpec => []MapInv
  BY MapInitInv, MapInvKept, PTL DEF MapSpec

\* The collections, the cache and the calls keep to their types.
THEOREM MapTypes == MapSpec => []MapTypeOK
  <1>1. MapInv => MapTypeOK
    <2> SUFFICES ASSUME MapInv PROVE MapTypeOK
      OBVIOUS
    <2>1. publishedAt \in [MapVersions -> Stamps]
      BY UnstampedIsFinite DEF MapInv, StampsBounded, Past, Stamps
    <2> QED
      BY <2>1 DEF MapInv, MapsTyped, MapCall, MapCallsSound, MapCallSound, MapTypeOK
  <1> QED
    BY MapSpecInv, <1>1, PTL

\* Once a venue has had a published seatmap, it lacks one only through a
\* publishSeatmap that is, or stopped, between its two writes.
THEOREM AlwaysPublished == MapSpec => []PublishedUnlessInterrupted
  <1>1. MapInv => PublishedUnlessInterrupted
    BY DEF MapInv
  <1> QED
    BY MapSpecInv, <1>1, PTL

\* A stale mobile seatmap in the cache is the work of a race or of a call that
\* ended half-way (getMobileSeatmap, invalidateCache).
THEOREM StaleMapsExplained == MapSpec => []StaleMapsComeFromRaces
  <1>1. MapInv => StaleMapsComeFromRaces
    BY DEF MapInv
  <1> QED
    BY MapSpecInv, <1>1, PTL
=============================================================================
