----------------------------- MODULE RowValues -----------------------------
(***************************************************************************)
(* Rows, values and the schema of one table: data.Row, schema.Column, the  *)
(* type rules of INSERT (Table.validateType), of the planner's literals    *)
(* (types.ConvertLiteralToSchemaType) and of the loader                    *)
(* (validation.ValidateRow).                                               *)
(*                                                                         *)
(* A row is a Go map: a column that has no value is absent from it.        *)
(***************************************************************************)
EXTENDS Values, Sequences

CONSTANTS
    ColumnName,     \* the column names a statement may use
    Column,         \* those of the schema
    ColumnType,     \* the SQL type of each column of the schema
    PrimaryKey,     \* the primary key column
    AutoIncrement,  \* whether the primary key is auto_increment
    Unique,         \* the columns declared unique
    NotNull,        \* the columns declared not_null
    MaxInt64        \* the largest int64

SQLType == {"INT", "FLOAT", "TEXT", "BOOL", "DATE", "TIME", "EMAIL"}
IsRow(r) ==
    /\ r = [c \in DOMAIN r |-> r[c]]
    /\ DOMAIN r \subseteq ColumnName
    /\ \A c \in DOMAIN r : r[c] \in Value

ASSUME SchemaAssumption ==
    /\ Column \subseteq ColumnName
    /\ ColumnType \in [Column -> SQLType]
    /\ PrimaryKey \in Column
    /\ AutoIncrement \in BOOLEAN
    /\ AutoIncrement => ColumnType[PrimaryKey] = "INT"
    /\ Unique \subseteq Column
    /\ NotNull \subseteq Column
    /\ MaxInt64 \in Nat

\* normalizeToInt64 succeeds (no fractional float64 reaches an INT column).
IsInteger(v) == v.go \in {"int", "int64", "float64"}

\* The dynamic types the planner lets a literal have in a column of a type.
LiteralGo(type) ==
    CASE type = "INT"   -> {"int"}
      [] type = "FLOAT" -> {"int", "float64"}
      [] type = "BOOL"  -> {"bool"}
      [] OTHER          -> {"string"}

\* What validateType accepts; dates, times and e-mails are not looked at.
AcceptedGo(type) ==
    CASE type = "INT"   -> {"int", "int64"}
      [] type = "FLOAT" -> {"float64"}
      [] type = "TEXT"  -> {"string"}
      [] type = "BOOL"  -> {"bool"}
      [] OTHER          -> GoType

\* The dynamic type a stored value has once it went through JSON and the loader.
LoadedGo(type) ==
    CASE type = "INT"   -> "int64"
      [] type = "FLOAT" -> "float64"
      [] type = "BOOL"  -> "bool"
      [] OTHER          -> "string"

\* JSON has one kind of number; the loader turns those of INT columns into
\* int64 and leaves the others, those of unknown columns too, as float64.
LoadedValue(c, v) ==
    IF ~IsNumber(v) THEN v
    ELSE [go |-> IF c \in Column /\ ColumnType[c] = "INT" THEN "int64" ELSE "float64",
          n |-> v.n]
LoadedRow(row) == [c \in DOMAIN row |-> LoadedValue(c, row[c])]

\* ValidateRow on a row read back: NOT NULL, the type, and for a TIME a date or
\* an RFC 3339 time, whereas the time of day is all that a statement can store.
LoaderAccepts(row) ==
    /\ NotNull \subseteq DOMAIN row
    /\ \A c \in DOMAIN row \cap Column :
          /\ LoadedValue(c, row[c]).go = LoadedGo(ColumnType[c])
          /\ ColumnType[c] # "TIME"

\* A row as planInsert and planUpdate build it from literals.
FromPlanner(row) ==
    \A c \in DOMAIN row \cap Column : row[c].go \in LiteralGo(ColumnType[c])

\* WHERE cannot tell two rows apart.
SameToWhere(r, s) ==
    /\ DOMAIN r = DOMAIN s
    /\ \A c \in DOMAIN r : Compared(r[c]) = Compared(s[c])

Content(rows) == {rows[i] : i \in DOMAIN rows}

\* The sets of rows a WHERE clause can single out of a table.
Selectable(content) ==
    {m \in SUBSET content :
        \A r, s \in content : SameToWhere(r, s) => (r \in m <=> s \in m)}

\* Row after the assignments of an UPDATE.
Assign(row, updates) ==
    [c \in DOMAIN row \cup DOMAIN updates |->
        IF c \in DOMAIN updates THEN updates[c] ELSE row[c]]

\* n + 1 in 64 bits.
Successor(n) == IF n = MaxInt64 THEN -MaxInt64 - 1 ELSE n + 1

\* The columns that get an index; every index is a unique one.
Indexed == Unique \cup {PrimaryKey}

\* validateRow, and the test that a plain primary key is given.
Valid(row) ==
    /\ PrimaryKey \in DOMAIN row
    /\ NotNull \subseteq DOMAIN row
    /\ \A c \in DOMAIN row \cap Column : row[c].go \in AcceptedGo(ColumnType[c])

-----------------------------------------------------------------------------
(* What a statement answers: the error of an INSERT goes to the session    *)
(* that sent the row.                                                      *)

Answer(status, refused) == [status |-> status, refused |-> refused]
NoAnswer == Answer("none", {})
Ok == Answer("ok", {})
Error == Answer("error", {})
Refused(row) == Answer("error", {row})

=============================================================================
