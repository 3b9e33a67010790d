----------------------------- MODULE Migrations -----------------------------
(***************************************************************************)
(* The migration runner (db/migrate.py).  Several runners may work on one  *)
(* database, each with the files of its own release: release n has the     *)
(* files numbered 1..n, their names sort as their numbers do (NFR-9).  A   *)
(* file's statements and its schema_version row are one transaction.  What *)
(* the statements do is not known: they may fail, and nothing is assumed   *)
(* of them that would keep a file from being applied twice.                *)
(***************************************************************************)
EXTENDS Naturals, Sequences

CONSTANTS
  Runners,             \* processes that run the migrations
  Release,             \* [Runners -> Nat] the newest file each of them has
  MaxBroken,           \* bound: statements that fail
  MaxKilled            \* bound: runners that die

ASSUME ReleaseAssumption == Release \in [Runners -> Nat]
ASSUME KilledAssumption == MaxBroken \in Nat /\ MaxKilled \in Nat

VARIABLES
  versions,   \* the rows of schema_version
  effects,    \* how often the statements of a file have been committed
  runner,     \* where each runner is
  applied,    \* the rows it read
  at,         \* the file it looks at
  open,       \* the file whose statements wait in its transaction, 0 if none
  done,       \* what it will report
  broken, killed

migrationVars ==
  <<versions, effects, runner, applied, at, open, done, broken, killed>>

Files == UNION {1..Release[r] : r \in Runners}

MigrationsInit ==
  /\ versions = {}
  /\ effects = [f \in Files |-> 0]
  /\ runner = [r \in Runners |-> "idle"]
  /\ applied = [r \in Runners |-> {}]
  /\ at = [r \in Runners |-> 0]
  /\ open = [r \in Runners |-> 0]
  /\ done = [r \in Runners |-> <<>>]
  /\ broken = 0 /\ killed = 0

-----------------------------------------------------------------------------
Becomes(r, stage) == runner' = [runner EXCEPT ![r] = stage]

(* CREATE TABLE IF NOT EXISTS, committed on its own, begins a run.         *)
StartRun(r) ==
  /\ runner[r] \in {"idle", "returned", "raised"}
  /\ Becomes(r, "table")
  /\ done' = [done EXCEPT ![r] = <<>>]
  /\ UNCHANGED <<versions, effects, applied, at, open, broken, killed>>

(* The applied versions are read once; the read transaction is closed.     *)
ReadApplied(r) ==
  /\ runner[r] = "table"
  /\ applied' = [applied EXCEPT ![r] = versions]
  /\ at' = [at EXCEPT ![r] = 1]
  /\ Becomes(r, "loop")
  /\ UNCHANGED <<versions, effects, open, done, broken, killed>>

Skip(r) ==
  /\ runner[r] = "loop"
  /\ at[r] <= Release[r]
  /\ at[r] \in applied[r]
  /\ at' = [at EXCEPT ![r] = @ + 1]
  /\ UNCHANGED <<versions, effects, runner, applied, open, done, broken, killed>>

(* The transaction begins with the file's statements.                      *)
Execute(r) ==
  /\ runner[r] = "loop"
  /\ at[r] <= Release[r]
  /\ at[r] \notin applied[r]
  /\ open' = [open EXCEPT ![r] = at[r]]
  /\ Becomes(r, "insert")
  /\ UNCHANGED <<versions, effects, applied, at, done, broken, killed>>

(* The version row, and the commit of both.  Another runner's row for the  *)
(* same file is waited for and then refuses this one.                      *)
Commit(r) ==
  LET f == open[r] IN
  /\ runner[r] = "insert"
  /\ f \notin versions
  /\ versions' = versions \cup {f}
  /\ effects' = [effects EXCEPT ![f] = @ + 1]
  /\ open' = [open EXCEPT ![r] = 0]
  /\ done' = [done EXCEPT ![r] = Append(@, f)]
  /\ at' = [at EXCEPT ![r] = @ + 1]
  /\ Becomes(r, "loop")
  /\ UNCHANGED <<applied, broken, killed>>

(* An exception rolls the open transaction back and ends the run.          *)
Ends(r) ==
  /\ Becomes(r, "raised")
  /\ open' = [open EXCEPT ![r] = 0]
  /\ UNCHANGED <<versions, effects, applied, at, done>>

(* Mutant: the refused insert leaves its transaction open.                 *)
DuplicateKeepsOpen(r) ==
  /\ runner[r] = "insert"
  /\ open[r] \in versions
  /\ Becomes(r, "raised")
  /\ UNCHANGED <<versions, effects, applied, at, open, done, broken, killed>>

Duplicate(r) ==
  /\ runner[r] = "insert"
  /\ open[r] \in versions
  /\ Ends(r)
  /\ UNCHANGED <<broken, killed>>

(* Mutant: a file that fails is left out and the next one is tried.        *)
BreaksGoesOn(r) ==
  /\ broken < MaxBroken
  /\ runner[r] = "insert"
  /\ open' = [open EXCEPT ![r] = 0]
  /\ at' = [at EXCEPT ![r] = @ + 1]
  /\ Becomes(r, "loop")
  /\ broken' = broken + 1
  /\ UNCHANGED <<versions, effects, applied, done, killed>>

(* A statement fails: of the file, or, when two runners are at it, of the  *)
(* creation of the table.                                                  *)
Breaks(r) ==
  /\ broken < MaxBroken
  /\ runner[r] \in {"table", "insert"}
  /\ Ends(r)
  /\ broken' = broken + 1
  /\ UNCHANGED killed

(* The runner has been through its files and reports what it applied.      *)
Return(r) ==
  /\ runner[r] = "loop"
  /\ at[r] > Release[r]
  /\ Becomes(r, "returned")
  /\ UNCHANGED <<versions, effects, applied, at, open, done, broken, killed>>

Killed(r) ==
  /\ killed < MaxKilled
  /\ runner[r] \in {"table", "loop", "insert"}
  /\ Ends(r)
  /\ killed' = killed + 1
  /\ UNCHANGED broken

Migrate(r) ==
  \/ StartRun(r) \/ ReadApplied(r) \/ Skip(r) \/ Execute(r) \/ Commit(r)
  \/ Duplicate(r) \/ Breaks(r) \/ Return(r) \/ Killed(r)

MigrationsNext == \E r \in Runners : Migrate(r)

MigrationsSpec == MigrationsInit /\ [][MigrationsNext]_migrationVars

-----------------------------------------------------------------------------
(* Properties                                                              *)

(* Every variable stays in its type; only a runner about to insert has an  *)
(* open transaction.                                                       *)
MigrationsTypeOK ==
  /\ versions \subseteq Files
  /\ effects \in [Files -> Nat]
  /\ runner \in [Runners -> {"idle", "table", "loop", "insert", "returned", "raised"}]
  /\ applied \in [Runners -> SUBSET Files]
  /\ at \in [Runners -> Nat]
  /\ open \in [Runners -> Nat]
  /\ done \in [Runners -> Seq(Files)]
  /\ \A r \in Runners :
       open[r] = IF runner[r] = "insert" THEN at[r] ELSE 0
  /\ broken \in 0..MaxBroken /\ killed \in 0..MaxKilled

(* A file's statements take effect once, with its row, whoever races for   *)
(* it and wherever a runner dies (NFR-9, migrate.py:16-20).                *)
AppliedOnce ==
  \A f \in Files : effects[f] = IF f \in versions THEN 1 ELSE 0

(* The schema never has a gap: no file is applied before all with a lower  *)
(* number are, although every runner goes by an old reading of the table   *)
(* and releases differ.                                                    *)
NoGap == \A f \in versions : 1..f \subseteq versions

(* A run that returns tells the truth: every file of its release has been  *)
(* applied, and what it reports is what it committed, in order.            *)
ReportHonest ==
  \A r \in Runners : runner[r] = "returned" =>
    /\ 1..Release[r] \subseteq versions
    /\ \A i, j \in 1..Len(done[r]) : i < j => done[r][i] < done[r][j]
    /\ \A i \in 1..Len(done[r]) : done[r][i] \notin applied[r]

(* The schema is what its version rows and a runner's report say it is.    *)
SchemaSound == AppliedOnce /\ NoGap /\ ReportHonest
=============================================================================
