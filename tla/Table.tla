------------------------------- MODULE Table -------------------------------
(***************************************************************************)
(* schema.Table (internal/domain/schema/table.go): the rows of one table,  *)
(* the unique indexes over them, the auto-increment sequence and the dirty *)
(* flag.  Insert, Update and Delete hold the table's write lock from their *)
(* first to their last statement, so each of them is one step here; what   *)
(* is read after the lock is released belongs to other modules.            *)
(***************************************************************************)
EXTENDS RowValues

CONSTANTS
    SeedRows,       \* the rows the loader handed over
    SeedLastID,     \* the last_insert_id it read
    InsertRows,     \* the rows of the INSERT statements
    UpdateRows,     \* the assignments of the UPDATE statements
    MaxRows,        \* bound: no INSERT into a table of MaxRows rows
    MaxID           \* bound: no INSERT once the sequence has reached MaxID

VARIABLES
    Rows,           \* the slice of rows
    Indexes,        \* for each indexed column, value -> positions in Rows
    LastInsertID,   \* the auto-increment sequence
    Dirty,          \* has unsaved changes
    reply           \* what the last statement answered

vars == <<Rows, Indexes, LastInsertID, Dirty, reply>>

-----------------------------------------------------------------------------
(* Indexes.  A slice of positions is built by appending ever larger ones,  *)
(* so the set of them says as much.                                        *)

Positions(c, rows, v) == {i \in DOMAIN rows : c \in DOMAIN rows[i] /\ rows[i][c] = v}
Keys(c, rows) == {rows[i][c] : i \in {j \in DOMAIN rows : c \in DOMAIN rows[j]}}

\* Mutant: a rebuild that forgets the primary key.
RebuiltUnique(rows) ==
    [c \in Unique |-> [v \in Keys(c, rows) |-> Positions(c, rows, v)]]

\* rebuildIndexesUnsafe
Rebuilt(rows) == [c \in Indexed |-> [v \in Keys(c, rows) |-> Positions(c, rows, v)]]

\* Mutant: the rows are replaced and the indexes left as they were.
NotReindexed(match, rows) == Indexes

\* Update and Delete rebuild when at least one row matched.
Reindexed(match, rows) == IF match = {} THEN Indexes ELSE Rebuilt(rows)

\* Insert's append of one position to the entries of one row.
Entry(index, v) == IF v \in DOMAIN index THEN index[v] ELSE {}
WithRow(indexes, row, pos) ==
    [c \in Indexed |->
        IF c \in DOMAIN row
        THEN [v \in DOMAIN indexes[c] \cup {row[c]} |->
                 IF v = row[c] THEN Entry(indexes[c], v) \cup {pos} ELSE indexes[c][v]]
        ELSE indexes[c]]

\* SelectByIndex: the position of the row it returns, 0 when it finds none.
SelectByIndex(c, v) ==
    LET key == IF v.go = "int" THEN Int64(v.n) ELSE v
        found == IF c \in Indexed THEN Entry(Indexes[c], key) ELSE {}
    IN  IF found = {} THEN 0 ELSE CHOOSE i \in found : \A j \in found : i <= j

-----------------------------------------------------------------------------
(* What Insert decides.                                                    *)

\* The early returns that leave the sequence alone.
SequenceRefuses(row) ==
    /\ AutoIncrement
    /\ PrimaryKey \in DOMAIN row
    /\ ~IsInteger(row[PrimaryKey]) \/ row[PrimaryKey].n <= LastInsertID

InsertID(row) == IF PrimaryKey \in DOMAIN row THEN row[PrimaryKey].n ELSE Successor(LastInsertID)

\* Mutant: an explicit id does not move the sequence.
GeneratedOnly(row) ==
    IF AutoIncrement /\ PrimaryKey \notin DOMAIN row THEN InsertID(row) ELSE LastInsertID

\* The sequence after an Insert that got past SequenceRefuses.
SequenceAfter(row) == IF AutoIncrement THEN InsertID(row) ELSE LastInsertID

\* Mutant: an explicit id keeps the Go type the parser gave it.
RawCompleted(row) ==
    IF AutoIncrement /\ PrimaryKey \notin DOMAIN row
    THEN Assign(row, [c \in {PrimaryKey} |-> Int64(InsertID(row))]) ELSE row

\* The row with its generated key.
Completed(row) ==
    IF AutoIncrement
    THEN Assign(row, [c \in {PrimaryKey} |-> Int64(InsertID(row))]) ELSE row

\* Mutant: only the primary key is looked up before a row is stored.
KeyOnlyDuplicate(row) ==
    PrimaryKey \in DOMAIN row /\ row[PrimaryKey] \in DOMAIN Indexes[PrimaryKey]

\* The lookup in the unique indexes.
Duplicate(row) == \E c \in Indexed \cap DOMAIN row : row[c] \in DOMAIN Indexes[c]

-----------------------------------------------------------------------------
\* BuildIndexes succeeds: no unique value is found twice.
Indexable(rows) ==
    \A c \in Indexed : \A i, j \in DOMAIN rows :
        /\ c \in DOMAIN rows[i] \cap DOMAIN rows[j]
        /\ rows[i][c] = rows[j][c]
        => i = j

\* What LoadTable and BuildIndexes hand over.
Loadable(rows) ==
    /\ \A i \in DOMAIN rows :
          /\ LoaderAccepts(rows[i])
          /\ LoadedRow(rows[i]) = rows[i]
          /\ PrimaryKey \in DOMAIN rows[i]
    /\ Indexable(rows)

ASSUME WorkloadAssumption ==
    /\ SeedRows \in Seq(Content(SeedRows)) /\ Loadable(SeedRows)
    /\ SeedLastID \in Int
    /\ \A row \in Content(SeedRows) : IsRow(row)
    /\ \A row \in InsertRows \cup UpdateRows : IsRow(row) /\ FromPlanner(row)
    /\ \A row \in InsertRows :
          PrimaryKey \in DOMAIN row => row[PrimaryKey].n \in -MaxInt64 - 1 .. MaxInt64
    /\ MaxRows \in Nat /\ MaxID \in Int

Init ==
    /\ Rows = SeedRows
    /\ Indexes = Rebuilt(SeedRows)
    /\ LastInsertID = SeedLastID
    /\ Dirty = FALSE
    /\ reply = NoAnswer

\* Insert of a row that is stored.
InsertRow(row) ==
    /\ Len(Rows) < MaxRows
    /\ LastInsertID < MaxID
    /\ ~SequenceRefuses(row)
    /\ LET r == Completed(row)
       IN  /\ Valid(r)
           /\ ~Duplicate(r)
           /\ Rows' = Append(Rows, r)
           /\ Indexes' = WithRow(Indexes, r, Len(Rows) + 1)
    /\ LastInsertID' = SequenceAfter(row)
    /\ Dirty' = TRUE
    /\ reply' = Ok

\* Insert that fails before or after the sequence has moved: the second
\* kind has used its id up.
InsertFails(row) ==
    /\ Len(Rows) < MaxRows
    /\ LastInsertID < MaxID
    /\ \/ /\ SequenceRefuses(row)
          /\ UNCHANGED LastInsertID
       \/ /\ ~SequenceRefuses(row)
          /\ ~Valid(Completed(row)) \/ Duplicate(Completed(row))
          /\ LastInsertID' = SequenceAfter(row)
    /\ reply' = Refused(row)
    /\ UNCHANGED <<Rows, Indexes, Dirty>>

\* Update that names only columns of the schema.
Update(match, updates) ==
    /\ DOMAIN updates \subseteq Column
    /\ Rows' = [i \in DOMAIN Rows |->
                   IF Rows[i] \in match THEN Assign(Rows[i], updates) ELSE Rows[i]]
    /\ Indexes' = Reindexed(match, Rows')
    /\ Dirty' = (Dirty \/ match # {})
    /\ reply' = Ok
    /\ UNCHANGED LastInsertID

\* Update that names an unknown column.  The assignments are walked in map
\* order: those met before the unknown one are already in the first matching
\* row when the error is returned, past the rebuild and the dirty flag.  With
\* no matching row the unknown column is never noticed.
UpdateUnknown(match, updates) ==
    /\ ~(DOMAIN updates \subseteq Column)
    /\ \/ /\ match = {}
          /\ reply' = Ok
          /\ UNCHANGED Rows
       \/ \E first \in DOMAIN Rows, written \in SUBSET (DOMAIN updates \cap Column) :
            /\ Rows[first] \in match
            /\ \A i \in 1 .. first - 1 : Rows[i] \notin match
            /\ Rows' = [i \in DOMAIN Rows |->
                           IF i = first
                           THEN Assign(Rows[i], [c \in written |-> updates[c]])
                           ELSE Rows[i]]
            /\ reply' = Error
    /\ UNCHANGED <<Indexes, LastInsertID, Dirty>>

\* The rows that are kept, in their order.
Filtered(match) ==
    \E n \in 0 .. Len(Rows) : \E kept \in [1 .. n -> DOMAIN Rows] :
        /\ \A i, j \in 1 .. n : i < j => kept[i] < kept[j]
        /\ \A p \in DOMAIN Rows : Rows[p] \notin match <=> \E i \in 1 .. n : kept[i] = p
        /\ Rows' = [i \in 1 .. n |-> Rows[kept[i]]]

Delete(match) ==
    /\ IF match = {} THEN UNCHANGED Rows ELSE Filtered(match)
    /\ Indexes' = Reindexed(match, Rows')
    /\ Dirty' = (Dirty \/ match # {})
    /\ reply' = Ok
    /\ UNCHANGED LastInsertID

Next ==
    \/ \E row \in InsertRows : InsertRow(row)
    \/ \E row \in InsertRows : InsertFails(row)
    \/ \E match \in Selectable(Content(Rows)), updates \in UpdateRows :
          Update(match, updates)
    \/ \E match \in Selectable(Content(Rows)), updates \in UpdateRows :
          UpdateUnknown(match, updates)
    \/ \E match \in Selectable(Content(Rows)) : Delete(match)

Spec == Init /\ [][Next]_vars

-----------------------------------------------------------------------------
\* The ids grow along the rows and none is beyond the sequence.
Sequenced(rows, last) ==
    AutoIncrement =>
        \A i \in DOMAIN rows :
            /\ rows[i][PrimaryKey].n <= last
            /\ \A j \in DOMAIN rows :
                  i < j => rows[i][PrimaryKey].n < rows[j][PrimaryKey].n

Answers == {NoAnswer, Ok, Error} \cup {Refused(row) : row \in InsertRows}

\* Every variable keeps its shape, and there is an index for each unique
\* column and for the primary key.
TypeOK ==
    /\ Rows \in Seq(Content(Rows))
    /\ \A i \in DOMAIN Rows : IsRow(Rows[i])
    /\ DOMAIN Indexes = Indexed
    /\ LastInsertID \in Int
    /\ Dirty \in BOOLEAN
    /\ reply \in Answers

\* The incrementally maintained indexes say exactly what a rebuild from the
\* rows would say: no entry is lost, stale or shifted by the compaction of a
\* DELETE, by an UPDATE or by a failed INSERT.
IndexExact ==
    \A c \in Indexed :
        /\ DOMAIN Indexes[c] = Keys(c, Rows)
        /\ \A v \in DOMAIN Indexes[c] : Indexes[c][v] = Positions(c, Rows, v)

\* No two rows hold the same value in a unique column or in the primary key,
\* although Insert only ever consults the indexes and Update consults nothing.
UniqueHolds == Indexable(Rows)

\* Generated and explicit ids alike grow along the rows, and none is beyond
\* the sequence that hands out the next one.
IdsOrdered == Sequenced(Rows, LastInsertID)

\* SelectByIndex finds every row by its id written as a literal, and finds
\* that row and no other.
LookupFindsRow ==
    AutoIncrement =>
        \A i \in DOMAIN Rows :
            SelectByIndex(PrimaryKey, [go |-> "int", n |-> Rows[i][PrimaryKey].n]) = i

=============================================================================
