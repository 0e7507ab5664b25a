--------------------------- MODULE DatabaseSchema ---------------------------
(***************************************************************************)
(* SQLiteStore._migrate (storage/sqlite.py): a process that opens the      *)
(* database brings it from its user_version to the newest, one script per  *)
(* version.  executescript runs outside a transaction, so every statement  *)
(* commits by itself: processes that open the database at the same time    *)
(* interleave their statements, and one that dies leaves a script halfway. *)
(*                                                                         *)
(* Columns are left out but for the one a script adds later; a table has   *)
(* the form of the script that created it.  Rows are followed in the       *)
(* tables that a script copies and drops.  A database of a newer           *)
(* application, which is refused, is left out.                             *)
(***************************************************************************)
EXTENDS Naturals, Sequences, SequencesExt

CONSTANTS
    Openers,  \* processes and threads that open the database
    Rows,     \* rows of the tables that are copied
    TableOf,  \* the table of each row
    Orphans   \* rows of sources that were revoked when there was no cascade

\* The tables that are copied, each with the name of its copy.
CopyOf == [vector_chunks          |-> "vector_chunks_v4",
           agent_action_audit     |-> "agent_action_audit_v8",
           agent_action_workflows |-> "agent_action_workflows_v8"]

Copied == DOMAIN CopyOf

Copies == {CopyOf[t] : t \in Copied}

\* vector_chunks has had its cascade from the first script on.
ASSUME RowsAssumption ==
    /\ TableOf \in [Rows -> Copied]
    /\ Orphans \subseteq {r \in Rows : TableOf[r] # "vector_chunks"}

Newest == 8

VARIABLES
    version,    \* PRAGMA user_version
    schema,     \* the tables, indexes and added columns there are
    rows,       \* rows of the tables that are copied and of the copies
    at,         \* script and statement each process is about to run
    written,    \* history: rows that were ever in the database
    overtaken,  \* history: a statement of a script ran after its version passed
    halfway     \* history: a script that cannot be resumed was left halfway

histories == <<written, overtaken, halfway>>
schemaVars == <<version, schema, rows, at, histories>>

----------------------------------------------------------------------------
(* Statements and what they do to a schema                                 *)

Create(table) == [op |-> "create", name |-> table, on |-> "none"]
CreateIfMissing(table) == [op |-> "create_if_missing", name |-> table, on |-> "none"]
CreateIndex(name, table) == [op |-> "create", name |-> name, on |-> table]
Copy(table) == [op |-> "copy", name |-> table, on |-> "none"]
CopyOwned(table) == [op |-> "copy_owned", name |-> table, on |-> "none"]
Drop(table) == [op |-> "drop", name |-> table, on |-> "none"]
Rename(table) == [op |-> "rename", name |-> table, on |-> "none"]
LookFor(column, table) == [op |-> "look", name |-> column, on |-> table]
AddColumn(column, table) == [op |-> "add_column", name |-> column, on |-> table]
SetVersion == [op |-> "set_version", name |-> "user_version", on |-> "none"]

\* A table is copied into a new one, dropped and replaced by it.
Replace(table, copy) == <<Create(CopyOf[table]), copy, Drop(table), Rename(table)>>

\* Mutant of Replaced: the rows are not copied.
ReplacedEmpty(table) == <<Create(CopyOf[table]), Drop(table), Rename(table)>>

Replaced(table) == Replace(table, Copy(table))

\* Mutant of ReplacedOwned: copied without JOIN sources.
ReplacedAll(table) == Replace(table, Copy(table))

ReplacedOwned(table) == Replace(table, CopyOwned(table))

\* Mutant of Added: a table added later is created whether it is there or not.
AddedAgain(table) == <<Create(table), SetVersion>>

Added(table) == <<CreateIfMissing(table), SetVersion>>

\* The script for each version, which leads to the next.
Scripts == <<
    <<Create("sources"), Create("sync_runs"), Create("file_state"),
      Create("documents"), Create("change_events"), Create("staged_files"),
      SetVersion>>,
    <<Create("lexical_chunks"),
      CreateIndex("lexical_chunks_source_idx", "lexical_chunks"),
      CreateIndex("lexical_chunks_type_idx", "lexical_chunks"), SetVersion>>,
    <<Create("vector_chunks"),
      CreateIndex("vector_chunks_source_idx", "vector_chunks"), SetVersion>>,
    Replaced("vector_chunks")
      \o <<CreateIndex("vector_chunks_source_idx", "vector_chunks"), SetVersion>>,
    <<LookFor("paused", "sources"), AddColumn("paused", "sources"), SetVersion>>,
    Added("agent_action_audit"),
    Added("agent_action_workflows"),
    ReplacedOwned("agent_action_audit")
      \o <<CreateIndex("agent_action_audit_operation_idx", "agent_action_audit")>>
      \o ReplacedOwned("agent_action_workflows") \o <<SetVersion>> >>

ScriptOf(v) == Scripts[v + 1]

Has(s, name) == \E o \in s : o.name = name

\* SQLite refuses the statement when this does not hold.
CanRun(st, s) ==
    CASE st.op = "create" -> ~Has(s, st.name) /\ (st.on = "none" \/ Has(s, st.on))
      [] st.op \in {"copy", "copy_owned"} ->
           Has(s, st.name) /\ Has(s, CopyOf[st.name])
      [] st.op = "drop" -> Has(s, st.name)
      [] st.op = "rename" -> Has(s, CopyOf[st.name]) /\ ~Has(s, st.name)
      [] st.op = "add_column" -> Has(s, st.on) /\ ~Has(s, st.name)
      [] OTHER -> TRUE

New(st, v) == [name |-> st.name, on |-> st.on, form |-> v]

\* The schema after a statement of the script of version v.  The indexes of
\* a table go with it.
After(st, s, v) ==
    CASE st.op \in {"create", "add_column"} -> s \cup {New(st, v)}
      [] st.op = "create_if_missing" ->
           IF Has(s, st.name) THEN s ELSE s \cup {New(st, v)}
      [] st.op = "drop" -> {o \in s : o.name # st.name /\ o.on # st.name}
      [] st.op = "rename" ->
           {[o EXCEPT !.name = IF @ = CopyOf[st.name] THEN st.name ELSE @] : o \in s}
      [] OTHER -> s

\* The schemas, one or none, after a statement when nobody else is there.
StatementAlone(found, st, v) ==
    {IF st.op = "add_column" /\ Has(t, st.name) THEN t ELSE After(st, t, v) :
       t \in {u \in found : \/ CanRun(st, u)
                            \/ st.op = "add_column" /\ Has(u, st.name)}}

ScriptAlone(found, v) ==
    FoldLeft(LAMBDA f, st : StatementAlone(f, st, v), found, ScriptOf(v))

\* Those that the scripts from one version up to another lead to.
RunAlone(s, from, to) ==
    FoldLeft(ScriptAlone, {s}, [i \in 1..(to - from) |-> from + i - 1])

SchemaOf(v) == CHOOSE s \in RunAlone({}, 0, v) : TRUE

Current == SchemaOf(Newest)

\* A table, an index or an added column, with the script it comes from.
IsObject(o) == o = New(o, o.form) /\ o.form \in 0..(Newest - 1)

----------------------------------------------------------------------------
Closed == <<0, 0>>
Opened == <<Newest, 1>>

IsMigrating(p) == at[p] \notin {Closed, Opened}

SchemaTypeOK ==
    /\ version \in 0..Newest
    /\ \A o \in schema : IsObject(o)
    /\ rows \in [Copied \cup Copies -> SUBSET Rows]
    /\ at \in [Openers -> Nat \X Nat]
    /\ \A p \in Openers : IsMigrating(p) =>
         at[p][1] \in 0..(Newest - 1) /\ at[p][2] \in 1..Len(ScriptOf(at[p][1]))
    /\ written \subseteq Rows
    /\ overtaken \in BOOLEAN
    /\ halfway \in BOOLEAN

\* A new file, or a database of an application of any version.
SchemaInit ==
    /\ version \in 0..Newest
    /\ schema = SchemaOf(version)
    /\ \E there \in SUBSET {r \in Rows : /\ Has(schema, TableOf[r])
                                         /\ r \in Orphans => version < Newest} :
         /\ rows = [t \in Copied \cup Copies |-> {r \in there : TableOf[r] = t}]
         /\ written = there
    /\ at = [p \in Openers |-> Closed]
    /\ overtaken = FALSE
    /\ halfway = FALSE

----------------------------------------------------------------------------
\* Mutant of FirstScript: a database of version 3 is taken for one of version 4.
FirstScriptSkipping(v) == IF v = 3 THEN 4 ELSE v

FirstScript(v) == v

Open(p) ==
    /\ at[p] = Closed
    /\ at' = [at EXCEPT ![p] = <<FirstScript(version), 1>>]
    /\ UNCHANGED <<version, schema, rows, histories>>

Statement(p) == ScriptOf(at[p][1])[at[p][2]]

\* The script goes on by n statements.
Advance(p, n) == at' = [at EXCEPT ![p] = <<@[1], @[2] + n>>]

\* A statement of a script that another process has finished already.
Overtakes(p) == overtaken' = (overtaken \/ version > at[p][1])

\* PRAGMA table_info, whose result decides about the next statement.
Look(p) ==
    /\ IsMigrating(p)
    /\ Statement(p).op = "look"
    /\ Advance(p, IF Has(schema, Statement(p).name) THEN 2 ELSE 1)
    /\ UNCHANGED <<version, schema, rows, histories>>

\* CREATE TABLE, CREATE INDEX and ALTER TABLE ADD COLUMN.
Define(p) ==
    /\ IsMigrating(p)
    /\ Statement(p).op \in {"create", "create_if_missing", "add_column"}
    /\ CanRun(Statement(p), schema)
    /\ schema' = After(Statement(p), schema, at[p][1])
    /\ Advance(p, 1)
    /\ Overtakes(p)
    /\ UNCHANGED <<version, rows, written, halfway>>

\* INSERT INTO ... SELECT, with JOIN sources in the last script.
CopyRows(p) ==
    LET st == Statement(p)
    IN  /\ IsMigrating(p)
        /\ st.op \in {"copy", "copy_owned"}
        /\ CanRun(st, schema)
        /\ rows' = [rows EXCEPT ![CopyOf[st.name]] =
             @ \cup (rows[st.name] \ IF st.op = "copy_owned" THEN Orphans ELSE {})]
        /\ Advance(p, 1)
        /\ Overtakes(p)
        /\ UNCHANGED <<version, schema, written, halfway>>

DropTable(p) ==
    LET st == Statement(p)
    IN  /\ IsMigrating(p)
        /\ st.op = "drop"
        /\ CanRun(st, schema)
        /\ schema' = After(st, schema, at[p][1])
        /\ rows' = [rows EXCEPT ![st.name] = {}]
        /\ Advance(p, 1)
        /\ Overtakes(p)
        /\ UNCHANGED <<version, written, halfway>>

RenameTable(p) ==
    LET st == Statement(p)
    IN  /\ IsMigrating(p)
        /\ st.op = "rename"
        /\ CanRun(st, schema)
        /\ schema' = After(st, schema, at[p][1])
        /\ rows' = [rows EXCEPT ![st.name] = rows[CopyOf[st.name]],
                                ![CopyOf[st.name]] = {}]
        /\ Advance(p, 1)
        /\ Overtakes(p)
        /\ UNCHANGED <<version, written, halfway>>

\* Mutant of NextVersion: the version is counted up.
NextVersionOf(v) == version + 1

NextVersion(v) == v + 1

\* The script is done and the next one follows, whatever the database's
\* version has become meanwhile.
FinishScript(p) ==
    /\ IsMigrating(p)
    /\ Statement(p).op = "set_version"
    /\ version' = NextVersion(at[p][1])
    /\ at' = [at EXCEPT ![p] = <<@[1] + 1, 1>>]
    /\ Overtakes(p)
    /\ UNCHANGED <<schema, rows, written, halfway>>

\* The scripts for versions 4, 5 and 6 may be run again from anywhere.
Resumable == {4, 5, 6}

Leave(p) ==
    /\ at' = [at EXCEPT ![p] = Closed]
    /\ halfway' = (halfway \/ (/\ IsMigrating(p)
                               /\ at[p][1] \notin Resumable
                               /\ at[p][2] > 1))
    /\ UNCHANGED <<version, schema, rows, written, overtaken>>

\* A statement is refused and __init__ raises.
Refused(p) ==
    /\ IsMigrating(p)
    /\ ~CanRun(Statement(p), schema)
    /\ Leave(p)

\* The process ends or dies, wherever it is.
Stop(p) ==
    /\ at[p] # Closed
    /\ Leave(p)

\* A process that has opened the database inserts a row.
Write(p, r) ==
    /\ at[p] = Opened
    /\ r \notin written \cup Orphans
    /\ Has(schema, TableOf[r])
    /\ rows' = [rows EXCEPT ![TableOf[r]] = @ \cup {r}]
    /\ written' = written \cup {r}
    /\ UNCHANGED <<version, schema, at, overtaken, halfway>>

Migrate(p) ==
    \/ Look(p) \/ Define(p) \/ CopyRows(p) \/ DropTable(p) \/ RenameTable(p)
    \/ FinishScript(p) \/ Refused(p)

SchemaNext ==
    \E p \in Openers :
        Open(p) \/ Migrate(p) \/ Stop(p) \/ \E r \in Rows : Write(p, r)

SchemaSpec == SchemaInit /\ [][SchemaNext]_schemaVars

----------------------------------------------------------------------------
(* What migration promises                                                 *)

AtRest == \A p \in Openers : ~IsMigrating(p)

\* However processes that migrate interleave or die, every row stays in its
\* table or in the copy about to replace it, except those of a revoked source,
\* of which none comes through to the newest version; one process alone that
\* was overtaken, and drops a table into which others write again, loses rows.
RowsSurviveMigration ==
    /\ ~overtaken => \A r \in written \ Orphans :
         r \in rows[TableOf[r]] \cup rows[CopyOf[TableOf[r]]]
    /\ version = Newest => \A r \in Orphans : r \notin rows[TableOf[r]]

\* A database at rest can be opened again, whichever scripts were cut short
\* among those that tolerate it and however many processes competed: only a
\* script that creates tables unconditionally blocks it when left halfway.
ReopensAtRest ==
    AtRest /\ ~halfway => RunAlone(schema, version, Newest) # {}

\* A process that has opened the database finds the tables of the newest
\* application, in their newest form, unless another is migrating again.
OpenFindsItsTables ==
    AtRest /\ ~halfway /\ (\E p \in Openers : at[p] = Opened) => schema = Current
=============================================================================
