------------------------------- MODULE Schema -------------------------------
(***************************************************************************)
(* The tables of the platform, made at boot by every process that uses     *)
(* them: init_db and add_missing_columns of cwap_common/db.py.             *)
(*                                                                         *)
(* The database knows a table by its name, and each of its columns that a  *)
(* later release added.  A table created now has all its columns.          *)
(***************************************************************************)
EXTENDS Integers, FiniteSets, Processes

CONSTANTS
  Tables,    \* tables the models declare
  Added,     \* columns declared since some databases were made
  TableOf,   \* the table of each of these
  Safe,      \* those of them that are nullable or have a default
  Attempts   \* tries init_db makes

ASSUME SchemaAssumption ==
  /\ TableOf \in [Added -> Tables] /\ Safe \subseteq Added
  /\ Attempts \in Nat \ {0}

VARIABLES
  dialect,   \* the database: it is the same one for all
  tables,    \* the tables that exist
  columns,   \* the columns in Added that exist
  boot       \* how far each process has come

schemaVars == <<dialect, tables, columns, boot>>

\* lost: init_db returned without a whole attempt, having lost a race in each.
Off == [stage |-> "off", attempt |-> 1, todo |-> {}, adding |-> {}, lost |-> FALSE]

\* The stages of init_db; past them a process goes on with what it does.
InInitDb == {"create", "creating", "inspect"}

Move(p, stage, todo, adding) ==
  boot' = [boot EXCEPT ![p].stage = stage, ![p].todo = todo, ![p].adding = adding]

\* init_db returns, or raises: the process goes on, or dies of it.
Leave(p, stage) ==
  boot' = [boot EXCEPT ![p] = [Off EXCEPT !.stage = stage, !.lost = boot[p].lost]]

\* Another process made it first: the next attempt begins, and the last one
\* counts as success, whatever the schema still lacks.
Retry(p) ==
  boot' = [boot EXCEPT ![p] =
    IF boot[p].attempt = Attempts
    THEN [Off EXCEPT !.stage = "ready", !.lost = TRUE]
    ELSE [Off EXCEPT !.stage = "create", !.attempt = boot[p].attempt + 1]]

Boot(p) ==
  /\ boot[p].stage = "off"
  /\ Move(p, "create", {}, {})
  /\ UNCHANGED <<dialect, tables, columns>>

-----------------------------------------------------------------------------

\* Mutant: the columns of the last table are forgotten.
ContinueSlip(p, todo, adding) ==
  IF todo = {} THEN Leave(p, "ready") ELSE Move(p, "inspect", todo, adding)

\* The columns of one table are added before the next table is looked at.
Continue(p, todo, adding) ==
  IF todo = {} /\ adding = {} THEN Leave(p, "ready") ELSE Move(p, "inspect", todo, adding)

\* Only a table that has grown can lack a column that could be added.
AddColumns(p) == Continue(p, {TableOf[c] : c \in Safe}, {})

-----------------------------------------------------------------------------

(* create_all *)

\* A table comes with its columns.
Make(new) ==
  /\ tables' = tables \cup new
  /\ columns' = columns \cup {c \in Added : TableOf[c] \in new}

\* PostgreSQL: under the advisory lock, in one transaction.
CreateLocked(p) ==
  /\ boot[p].stage = "create" /\ dialect = "postgresql"
  /\ Make(Tables \ tables)
  /\ AddColumns(p)
  /\ UNCHANGED dialect

\* SQLite: every table is looked for, and then each missing one is created
\* on its own.
Look(p) ==
  /\ boot[p].stage = "create" /\ dialect = "sqlite"
  /\ IF Tables \subseteq tables
     THEN AddColumns(p)
     ELSE Move(p, "creating", Tables \ tables, {})
  /\ UNCHANGED <<dialect, tables, columns>>

CreateTable(p, t) ==
  /\ boot[p].stage = "creating" /\ t \in boot[p].todo
  /\ IF t \in tables
     THEN Retry(p) /\ UNCHANGED <<tables, columns>>
     ELSE /\ Make({t})
          /\ IF boot[p].todo = {t}
             THEN AddColumns(p)
             ELSE Move(p, "creating", boot[p].todo \ {t}, {})
  /\ UNCHANGED dialect

-----------------------------------------------------------------------------

(* add_missing_columns *)

\* A column that could not be filled in is left to a migration.
Lacking(t) == {c \in Safe \ columns : TableOf[c] = t}

Inspect(p, t) ==
  /\ boot[p].stage = "inspect" /\ boot[p].adding = {} /\ t \in boot[p].todo
  /\ Continue(p, boot[p].todo \ {t}, Lacking(t))
  /\ UNCHANGED <<dialect, tables, columns>>

\* SQLite's "duplicate column name" is not recognised as a race: the process
\* dies of it.
AddColumn(p, c) ==
  /\ boot[p].stage = "inspect" /\ c \in boot[p].adding
  /\ IF c \in columns
     THEN /\ IF dialect = "sqlite" THEN Leave(p, "dead") ELSE Retry(p)
          /\ UNCHANGED columns
     ELSE /\ columns' = columns \cup {c}
          /\ Continue(p, boot[p].todo, boot[p].adding \ {c})
  /\ UNCHANGED <<dialect, tables>>

\* The process ends, wherever it is.
Stop(p) ==
  /\ boot' = [boot EXCEPT ![p] = Off]
  /\ UNCHANGED <<dialect, tables, columns>>

InitDb(p) ==
  \/ Boot(p) \/ CreateLocked(p) \/ Look(p)
  \/ \E t \in Tables : CreateTable(p, t) \/ Inspect(p, t)
  \/ \E c \in Added : AddColumn(p, c)

\* A new database, or one a former release made.
SchemaInit ==
  /\ dialect \in {"postgresql", "sqlite"}
  /\ tables \in SUBSET Tables
  /\ columns = {}
  /\ boot = [p \in Servers |-> Off]

=============================================================================
