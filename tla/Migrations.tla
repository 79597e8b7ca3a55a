------------------------------ MODULE Migrations ------------------------------
(***************************************************************************)
(* Two ways to change the schema: MigrationRunner, whose history is a table*)
(* of the same database, and the umzug script, whose history is a file.    *)
(* A runner reads the history once and then works through what was pending.*)
(***************************************************************************)
EXTENDS Naturals, FiniteSets, FiniteSetsExt

CONSTANTS
    Runners,        \* processes running `migration up` or `migration down`
    Versions,       \* versions of the SQL files, ordered as numbers
    Repeatable,     \* versions whose SQL may run twice (IF NOT EXISTS)
    SelfCommitting, \* versions written by createMigration, with BEGIN and COMMIT
    Reversible,     \* versions with a rollback_ file
    MaxStamp        \* bound: transactions in a behaviour

ASSUME MigrationAssumption == Versions \subseteq Nat \ {0} /\ MaxStamp \in Nat \ {0}

VARIABLES
    changed,    \* versions whose SQL is in the schema
    history,    \* schema_migrations: applied_at of each version, 0 if it has no row
    clock,      \* NOW() of the last transaction
    runner,
    undone,     \* versions rolled back while another runner was at them
    core,       \* TRUE once the umzug SQL is in the schema
    journal,    \* TRUE while .migrations.json lists it
    umzug       \* TRUE between its COMMIT and the write of the file

migrationVars == <<changed, history, clock, runner, undone, core, journal, umzug>>

\* In its transaction a runner has a version and a stamp, has changed the schema
\* or found it changed, and has inserted the row or found it.
IdleRunner ==
    [at |-> "idle", todo |-> {}, version |-> 0, stamp |-> 0, wrote |-> FALSE, row |-> FALSE]

Recorded == {v \in Versions : history[v] > 0}

MigrationTypeOK ==
    /\ changed \cup undone \subseteq Versions
    /\ history \in [Versions -> 0..MaxStamp]
    /\ core \in BOOLEAN /\ journal \in BOOLEAN /\ umzug \in BOOLEAN
    /\ \A r \in Runners :
         /\ runner[r].at \in {"idle", "next", "record", "commit", "undo"}
         /\ runner[r].todo \subseteq Versions
         /\ runner[r].version \in Versions \cup {0}
         /\ runner[r].stamp <= clock

\* Some versions may have been applied before.
MigrationInit ==
    /\ \E n \in Versions :
         /\ changed = {v \in Versions : v < n}
         /\ history = [v \in Versions |-> IF v < n THEN 1 ELSE 0]
    /\ clock = 1
    /\ runner = [r \in Runners |-> IdleRunner]
    /\ undone = {}
    /\ core = FALSE /\ journal = FALSE /\ umzug = FALSE

Put(r, state) == runner' = [runner EXCEPT ![r] = state]
GiveUp(r) == Put(r, IdleRunner)
UmzugKept == UNCHANGED <<core, journal, umzug>>

-----------------------------------------------------------------------------
(* MigrationRunner *)

\* runMigrations: the files, and what the table lists at this moment.
ReadHistory(r) ==
    /\ runner[r].at = "idle"
    /\ Put(r, [IdleRunner EXCEPT !.at = "next", !.todo = Versions \ Recorded])
    /\ UNCHANGED <<changed, history, clock, undone>> /\ UmzugKept

\* The same version is in another open transaction, which this one waits for.
UnderWay(r, v) ==
    \E q \in Runners \ {r} : runner[q].version = v /\ (runner[q].wrote \/ runner[q].row)

\* A file written by createMigration inserts its row without ON CONFLICT.
RunsAgain(v) ==
    /\ v \in changed => v \in Repeatable
    /\ v \in Recorded => v \notin SelfCommitting

\* BEGIN and the SQL of the next file.  A file with its own COMMIT has committed
\* its changes and its row before the runner goes on; the others insert their
\* row too, unless it is there.
RunFile(r) ==
    LET v == Min(runner[r].todo)
        open == [runner[r] EXCEPT !.at = "record", !.todo = @ \ {v}, !.version = v,
                                  !.stamp = clock + 1]
    IN  /\ runner[r].at = "next" /\ runner[r].todo # {}
        /\ clock < MaxStamp
        /\ clock' = clock + 1
        /\ ~UnderWay(r, v)
        /\ CASE ~RunsAgain(v) -> GiveUp(r) /\ UNCHANGED <<changed, history>>
             [] RunsAgain(v) /\ v \in SelfCommitting ->
                  /\ changed' = changed \cup {v}
                  /\ history' = [history EXCEPT ![v] = clock']
                  /\ Put(r, open)
             [] OTHER ->
                  /\ Put(r, [open EXCEPT !.wrote = v \notin changed, !.row = v \notin Recorded])
                  /\ UNCHANGED <<changed, history>>
        /\ UNCHANGED undone /\ UmzugKept

\* The runner's own INSERT ... ON CONFLICT DO NOTHING: part of the transaction,
\* or on its own after a file's COMMIT.
Record(r) ==
    LET v == runner[r].version
        new == v \notin Recorded
    IN  /\ runner[r].at = "record"
        /\ ~UnderWay(r, v)
        /\ IF v \in SelfCommitting
           THEN /\ history' = IF new THEN [history EXCEPT ![v] = runner[r].stamp] ELSE history
                /\ Put(r, [runner[r] EXCEPT !.at = "commit"])
           ELSE /\ Put(r, [runner[r] EXCEPT !.at = "commit", !.row = @ \/ new])
                /\ UNCHANGED history
        /\ UNCHANGED <<changed, clock, undone>> /\ UmzugKept

\* A slip: the row is written and the SQL's transaction is another one.
CommitRow(r) == changed

CommitChanges(r) ==
    IF runner[r].wrote THEN changed \cup {runner[r].version} ELSE changed

Commit(r) ==
    /\ runner[r].at = "commit"
    /\ changed' = CommitChanges(r)
    /\ history' = IF runner[r].row
                  THEN [history EXCEPT ![runner[r].version] = runner[r].stamp] ELSE history
    /\ Put(r, [IdleRunner EXCEPT !.at = "next", !.todo = runner[r].todo])
    /\ UNCHANGED <<clock, undone>> /\ UmzugKept

\* All is done, or an error or a crash ended the run and its transaction.
EndRun(r) ==
    /\ runner[r].at # "idle"
    /\ GiveUp(r)
    /\ UNCHANGED <<changed, history, clock, undone>> /\ UmzugKept

\* rollbackLastMigration: the newest row, and its rollback file if there is one.
ReadLast(r) ==
    /\ runner[r].at = "idle"
    /\ \E v \in Recorded \cap Reversible :
         /\ \A w \in Recorded : history[w] <= history[v]
         /\ Put(r, [IdleRunner EXCEPT !.at = "undo", !.version = v])
    /\ UNCHANGED <<changed, history, clock, undone>> /\ UmzugKept

\* The rollback SQL and the DELETE commit together.
Undo(r) ==
    LET v == runner[r].version IN
    /\ runner[r].at = "undo"
    /\ changed' = changed \ {v}
    /\ history' = [history EXCEPT ![v] = 0]
    /\ undone' = IF \E q \in Runners \ {r} : runner[q].version = v THEN undone \cup {v} ELSE undone
    /\ GiveUp(r)
    /\ UNCHANGED clock /\ UmzugKept

-----------------------------------------------------------------------------
(* The umzug script *)

RunnersKept == UNCHANGED <<changed, history, clock, runner, undone>>

\* BEGIN, the SQL and COMMIT; then umzug writes its file.
UmzugUp ==
    /\ ~journal
    /\ core' = TRUE /\ umzug' = TRUE
    /\ UNCHANGED journal /\ RunnersKept

UmzugLog ==
    /\ umzug
    /\ journal' = TRUE /\ umzug' = FALSE
    /\ UNCHANGED core /\ RunnersKept

UmzugCrash ==
    /\ umzug
    /\ umzug' = FALSE
    /\ UNCHANGED <<core, journal>> /\ RunnersKept

\* down changes nothing in the database, but the file forgets the migration.
UmzugDown ==
    /\ journal
    /\ journal' = FALSE
    /\ UNCHANGED <<core, umzug>> /\ RunnersKept

MigrationNext ==
    \/ \E r \in Runners :
         \/ ReadHistory(r) \/ RunFile(r) \/ Record(r) \/ Commit(r) \/ EndRun(r)
         \/ ReadLast(r) \/ Undo(r)
    \/ UmzugUp \/ UmzugLog \/ UmzugCrash \/ UmzugDown

MigrationSpec == MigrationInit /\ [][MigrationNext]_migrationVars

-----------------------------------------------------------------------------
\* What a history says is in the schema is there, whatever runs fail or overlap;
\* the one exception is a version that was rolled back while another runner was
\* applying it again, whose row the runner then inserts for changes it has not
\* made.
RecordedMeansApplied ==
    /\ Recorded \subseteq changed \cup undone
    /\ journal => core
=============================================================================
