------------------------------- MODULE Tables -------------------------------
(***************************************************************************)
(* The operations of django.db.migrations on a PostgreSQL database.  A      *)
(* column is known by whether it may be null and whether it is unique; a    *)
(* row has a value for each column of its table.                            *)
(***************************************************************************)
EXTENDS Naturals, Sequences, SequencesExt, FiniteSets, TLC

CONSTANTS
    Null,
    Default     \* the default of a field, whatever it is

NoTables == [columns |-> <<>>, rows |-> <<>>, together |-> <<>>, indexes |-> {}]

-----------------------------------------------------------------------------
(* The operations, as a migration lists them. *)

CreateModel(table, columns) == [do |-> "create", table |-> table, columns |-> columns]
DeleteModel(table)          == [do |-> "delete", table |-> table]
RenameModel(table, name)      == [do |-> "call", table |-> table, name |-> name]

\* What a row that is there gets in a new column, or for a null in an altered one.
AddFieldAs(table, column, traits, value) ==
    [do |-> "add", table |-> table, column |-> column, traits |-> traits, value |-> value]
AddField(table, column, traits) ==
    AddFieldAs(table, column, traits, IF "null" \in traits THEN Null ELSE Default)

AlterFieldAs(table, column, traits, value) ==
    [do |-> "alter", table |-> table, column |-> column, traits |-> traits, value |-> value]
AlterField(table, column, traits) == AlterFieldAs(table, column, traits, Null)

RemoveField(table, column)      == [do |-> "remove", table |-> table, column |-> column]
RenameField(table, column, name) ==
    [do |-> "rename", table |-> table, column |-> column, name |-> name]
AlterUniqueTogether(table, columns) ==
    [do |-> "together", table |-> table, columns |-> columns]
AddIndex(table, name)         == [do |-> "index", table |-> table, name |-> name]
RunPython(code)                  == [do |-> "run", code |-> code]

\* The same operation for each of a sequence of columns.
Each(columns, Op(_)) == [i \in DOMAIN columns |-> Op(columns[i])]

\* Fields of a new table, and those with the key that Django adds.
Fields(plain, nullable, unique) ==
    [c \in plain \cup nullable \cup unique |->
        (IF c \in nullable THEN {"null"} ELSE {}) \cup (IF c \in unique THEN {"unique"} ELSE {})]
Columns(plain, nullable, unique) == Fields(plain, nullable, unique \cup {"id"})

-----------------------------------------------------------------------------
(* What they do. *)

Renamed(f, old, new) ==
    [x \in (DOMAIN f \ {old}) \cup {new} |-> IF x = new THEN f[old] ELSE f[x]]
With(f, x, y) == [z \in DOMAIN f \cup {x} |-> IF z = x THEN y ELSE f[z]]
Without(f, x) == Restrict(f, DOMAIN f \ {x})

AllTables(db, Change(_)) ==
    [db EXCEPT !.columns = Change(@), !.rows = Change(@), !.together = Change(@)]

AddColumn(db, op) ==
    [db EXCEPT !.columns[op.table] = With(@, op.column, op.traits),
               !.rows[op.table] = {With(row, op.column, op.value) : row \in @}]

AlterColumn(db, op) ==
    [db EXCEPT !.columns[op.table][op.column] = op.traits,
               !.rows[op.table] =
                   IF "null" \in op.traits THEN @
                   ELSE {[row EXCEPT ![op.column] = IF @ = Null THEN op.value ELSE @] :
                           row \in @}]

RemoveColumn(db, op) ==
    [db EXCEPT !.columns[op.table] = Without(@, op.column),
               !.rows[op.table] = {Without(row, op.column) : row \in @}]

RenameColumn(db, op) ==
    [db EXCEPT !.columns[op.table] = Renamed(@, op.column, op.name),
               !.rows[op.table] = {Renamed(row, op.column, op.name) : row \in @},
               !.together[op.table] =
                   {{IF c = op.column THEN op.name ELSE c : c \in set} : set \in @}]

\* The operations that change tables; what RunPython runs is for the migration to say.
Apply(db, op) ==
    CASE op.do = "create" ->
             [db EXCEPT !.columns = With(@, op.table, op.columns),
                        !.rows = With(@, op.table, {}),
                        !.together = With(@, op.table, {})]
      [] op.do = "delete"   -> AllTables(db, LAMBDA f : Without(f, op.table))
      [] op.do = "call"     -> AllTables(db, LAMBDA f : Renamed(f, op.table, op.name))
      [] op.do = "add"      -> AddColumn(db, op)
      [] op.do = "alter"    -> AlterColumn(db, op)
      [] op.do = "remove"   -> RemoveColumn(db, op)
      [] op.do = "rename"   -> RenameColumn(db, op)
      [] op.do = "together" -> [db EXCEPT !.together[op.table] = op.columns]
      [] op.do = "index"    -> [db EXCEPT !.indexes = @ \cup {op.name}]

-----------------------------------------------------------------------------
\* A row of a table as it is now, of which only some values matter.
RowOf(db, table, given) ==
    [c \in DOMAIN db.columns[table] |->
        IF c \in DOMAIN given THEN given[c]
        ELSE IF "null" \in db.columns[table][c] THEN Null ELSE Default]

\* NOT NULL, UNIQUE and the unique sets of columns.
Same(row, other, columns) ==
    \A c \in columns : row[c] # Null /\ row[c] = other[c]

Sets(db, table) ==
    db.together[table]
    \cup {{c} : c \in {d \in DOMAIN db.columns[table] : "unique" \in db.columns[table][d]}}

Valid(db) ==
    \A t \in DOMAIN db.columns : \A row \in db.rows[t] :
        /\ \A c \in DOMAIN row : row[c] = Null => "null" \in db.columns[t][c]
        /\ \A other \in db.rows[t] \ {row} :
             \A set \in Sets(db, t) : ~Same(row, other, set)

\* What the models say of a database, without its rows.
Schema(db) == [columns |-> db.columns, together |-> db.together, indexes |-> db.indexes]
=============================================================================
