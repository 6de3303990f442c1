------------------------------- MODULE Query -------------------------------
(***************************************************************************)
(* SELECT, as planner.planSelect plans it and the executor walks the plan: *)
(* the scans, the hash joins of query/operations/join, the second          *)
(* evaluation of WHERE and the projection, while other sessions insert     *)
(* into, update and delete from the same tables.                           *)
(*                                                                         *)
(* Only a scan holds a table's read lock.  What it hands on are the row    *)
(* maps themselves, and every later step reads them without a lock, while  *)
(* UPDATE writes them cell by cell.  A step of this module reads one row   *)
(* (the building of a join's index and its last phase: all their rows).    *)
(*                                                                         *)
(* The key of a cell is the sequence of the names between its dots:        *)
(* <<"id">> in a row of a table, <<"users", "id">> in a joined one.        *)
(***************************************************************************)
EXTENDS Values, FiniteSets, SequencesExt

CONSTANTS
    TableName,      \* the tables of the database
    Schema,         \* the columns of each: a sequence of records [name, type]
    PrimaryKey,     \* their auto_increment column
    SeedHeap,       \* the row maps there are at the start
    SeedTables,     \* the rows of each table: a sequence of positions in the heap
    InsertCells,    \* the cells of the INSERTs into each table
    UpdateCells,    \* the assignments of the UPDATEs of each table
    Condition,      \* the WHERE clauses of UPDATE and DELETE
    Queries,        \* the SELECT statements
    Server,         \* other sessions may write while a SELECT is under way
    MaxRows,        \* bound: row maps ever made
    MaxWrites       \* bound: statements that write

VARIABLES
    heap,           \* the row maps
    rows,           \* Table.Rows: positions in the heap
    update,         \* the UPDATE that holds a table's lock, or NoUpdate
    writes,         \* how many statements wrote
    phase,          \* where the SELECT is
    query,          \* the SELECT
    joined,         \* how many of its joins are done
    left, schema,   \* the rows still to be worked on, and the schema they have
    right,          \* the right-hand rows of the join under way ...
    index,          \* ... buildJoinIndex of them: the positions of a value ...
    matched,        \* ... those that matched a row on the left ...
    unmatched,      \* ... and the rows on the left that matched none
    out,            \* the rows made so far
    \* observation
    seen,           \* what each scan found in its table
    overlapped,     \* an UPDATE wrote a cell since the first scan
    versions        \* the row maps there were before and after each statement

tables == <<heap, rows, update, writes, versions>>
joining == <<right, index, matched, unmatched>>
select == <<phase, query, joined, left, schema, joining, out, seen>>
vars == <<tables, select, overlapped>>

Null == [go |-> "nil", n |-> 0]

NoUpdate == [table |-> "", cells |-> <<>>, todo |-> {}]

\* A SELECT: FROM, the joins in order, WHERE as the conjunctions of which one is
\* to hold, and the columns, {} for *.  The names in ON are qualified.
IsQuery(q) ==
    /\ q.from \in TableName
    /\ \A k \in DOMAIN q.joins :
          /\ q.joins[k].type \in {"INNER", "LEFT", "RIGHT", "FULL"}
          /\ q.joins[k].table \in TableName
    /\ q.joins \in Seq(ToSet(q.joins))
    /\ \A conjunction \in q.where : DOMAIN conjunction \subseteq Nat

ASSUME QueryAssumption ==
    /\ "" \notin TableName
    /\ Queries # {}
    /\ \A q \in Queries : IsQuery(q)
    /\ SeedHeap \in Seq(ToSet(SeedHeap))
    /\ DOMAIN SeedTables = TableName
    /\ \A t \in TableName : SeedTables[t] \in Seq(ToSet(SeedTables[t]))
    /\ \A t \in TableName : Schema[t] \in Seq(ToSet(Schema[t]))
    /\ \A t \in TableName : \A i \in DOMAIN Schema[t] :
          Schema[t][i] = [name |-> Schema[t][i].name, type |-> Schema[t][i].type]
    /\ \A t \in TableName : \A i \in DOMAIN SeedTables[t] : SeedTables[t][i] \in DOMAIN SeedHeap
    /\ Server \in BOOLEAN
    /\ MaxRows \in Nat /\ MaxWrites \in Nat

Init ==
    /\ heap = SeedHeap
    /\ rows = SeedTables
    /\ update = NoUpdate
    /\ writes = 0
    /\ phase = "idle"
    /\ query = CHOOSE q \in Queries : TRUE
    /\ joined = 0
    /\ left = <<>> /\ schema = <<>>
    /\ right = <<>> /\ index = <<>> /\ matched = {} /\ unmatched = <<>>
    /\ out = <<>>
    /\ seen = <<>>
    /\ overlapped = FALSE
    /\ versions = ToSet(SeedHeap)

Ended == {"idle", "done", "failed", "lost"}

\* A row in the executor: a pointer to a map of a table, or a map of its own.
Shared(at) == [at |-> at]
Own(map) == [data |-> map]
Map(row) == IF "at" \in DOMAIN row THEN heap[row.at] ELSE row.data

\* The members of a finite set of numbers, in ascending order.
Ascending(S) ==
    [i \in 1 .. Cardinality(S) |-> CHOOSE x \in S : Cardinality({y \in S : y < x}) = i - 1]

\* The elements of a sequence that a loop over it picks, in their order.
ElementsAt(s, positions) ==
    [i \in 1 .. Cardinality(positions) |-> s[Ascending(positions)[i]]]

-----------------------------------------------------------------------------
(* WHERE.                                                                  *)

\* buildComparison tries the qualified name, and then the bare one.
Looked(map, name) == IF name \in DOMAIN map THEN name ELSE <<Last(name)>>

\* A comparison is a column with the values it accepts; a cell that is not
\* there satisfies none.
Holds(comparison, map) ==
    LET key == Looked(map, comparison.column)
    IN  key \in DOMAIN map /\ Compared(map[key]) \in comparison.accepts

Satisfies(map, where) ==
    \E conjunction \in where : \A i \in DOMAIN conjunction : Holds(conjunction[i], map)

-----------------------------------------------------------------------------
(* The statements that write.                                              *)

\* Mutant: UPDATE takes no lock.
NeverLocked(t) == FALSE

Locked(t) == update.table = t

\* The REPL runs one statement at a time.
MayWrite(t) ==
    /\ writes < MaxWrites
    /\ Server \/ (phase \in Ended /\ update = NoUpdate)
    /\ ~Locked(t)

Contents(t) == [i \in DOMAIN rows[t] |-> heap[rows[t][i]]]

Assigned(map, cells) ==
    [k \in DOMAIN map \cup DOMAIN cells |-> IF k \in DOMAIN cells THEN cells[k] ELSE map[k]]

\* The generated id counts the row maps: Table looks at the sequence.
Insert(t, cells) ==
    /\ MayWrite(t)
    /\ Len(heap) < MaxRows
    /\ LET id  == [k \in {<<PrimaryKey>>} |-> Int64(Len(heap) + 1)]
           row == Assigned(cells, id)
       IN  /\ heap' = Append(heap, row)
           /\ versions' = versions \cup {row}
    /\ rows' = [rows EXCEPT ![t] = Append(@, Len(heap'))]
    /\ writes' = writes + 1
    /\ UNCHANGED <<update, select, overlapped>>

\* A new slice: the scans that hold the old one do not notice.
Delete(t, where) ==
    /\ MayWrite(t)
    /\ rows' = [rows EXCEPT ![t] =
                   ElementsAt(@, {i \in DOMAIN @ : ~Satisfies(heap[@[i]], where)})]
    /\ writes' = writes + 1
    /\ UNCHANGED <<heap, update, versions, select, overlapped>>

\* UPDATE takes the lock of the table and evaluates WHERE row by row.
UpdateBegin(t, where, cells) ==
    /\ MayWrite(t)
    /\ update = NoUpdate
    /\ LET hit == {i \in DOMAIN rows[t] : Satisfies(heap[rows[t][i]], where)}
       IN  /\ update' = [table |-> t, cells |-> cells, todo |-> hit \X (DOMAIN cells)]
           /\ versions' = versions \cup {Assigned(heap[rows[t][i]], cells) : i \in hit}
    /\ writes' = writes + 1
    /\ UNCHANGED <<heap, rows, select, overlapped>>

\* The next cell, in the order of the rows and any order of the columns.
IsNext(cell) == cell \in update.todo /\ \A other \in update.todo : cell[1] <= other[1]

WriteCell(cell) ==
    /\ IsNext(cell)
    /\ heap' = [heap EXCEPT ![rows[update.table][cell[1]]] =
                   Assigned(@, [k \in {cell[2]} |-> update.cells[k]])]
    /\ update' = [update EXCEPT !.todo = @ \ {cell}]
    /\ overlapped' = (overlapped \/ phase \notin Ended \cup {"scan"})
    /\ UNCHANGED <<rows, writes, versions, select>>

\* Mutant: UPDATE returns with the lock held.
StillLocked == update

Unlocked == NoUpdate

UpdateEnd ==
    /\ update # NoUpdate
    /\ update.todo = {}
    /\ update' = Unlocked
    /\ UNCHANGED <<heap, rows, writes, versions, select, overlapped>>

-----------------------------------------------------------------------------
(* The plan and the scans.                                                 *)

Begin(q) ==
    /\ phase \in Ended
    /\ Server \/ update = NoUpdate
    /\ query' = q
    /\ phase' = "scan"
    /\ joined' = 0
    /\ left' = <<>> /\ schema' = <<>> /\ out' = <<>>
    /\ seen' = <<>>
    /\ overlapped' = FALSE
    /\ UNCHANGED <<tables, joining>>

\* Mutant: the scan does not wait for the read lock.
NeverWaits(t) == TRUE

MayRead(t) == ~Locked(t)

Pointers(positions) == [i \in DOMAIN positions |-> Shared(positions[i])]

\* The leftmost table; WHERE goes along only when there is no join.
ScanLeft ==
    /\ phase = "scan"
    /\ MayRead(query.from)
    /\ schema' = [i \in DOMAIN Schema[query.from] |->
                     [Schema[query.from][i] EXCEPT !.name = <<@>>]]
    /\ IF query.joins = <<>>
       THEN /\ left' = Pointers(ElementsAt(rows[query.from],
                                   {i \in DOMAIN rows[query.from] :
                                       Satisfies(heap[rows[query.from][i]], query.where)}))
            /\ phase' = "filter"
       ELSE /\ left' = Pointers(rows[query.from])
            /\ phase' = "scanRight"
    /\ seen' = <<Contents(query.from)>>
    /\ UNCHANGED <<tables, query, joined, joining, out, overlapped>>

Join == query.joins[joined + 1]

ScanRight ==
    /\ phase = "scanRight"
    /\ MayRead(Join.table)
    /\ right' = Pointers(rows[Join.table])
    /\ phase' = "index"
    /\ seen' = Append(seen, Contents(Join.table))
    /\ UNCHANGED <<tables, query, joined, left, schema, index, matched, unmatched, out, overlapped>>

-----------------------------------------------------------------------------
(* One join.                                                               *)

\* validateJoinCondition: the planner has dropped the qualifiers, and the first
\* column whose name is, or ends with, the bare name is taken.
Resolved(columns, name) ==
    LET hits == {i \in DOMAIN columns : Last(columns[i].name) = Last(name)}
    IN  {columns[i] : i \in {i \in hits : \A j \in hits : i <= j}}

RightSchema ==
    [i \in DOMAIN Schema[Join.table] |-> [Schema[Join.table][i] EXCEPT !.name = <<@>>]]

LeftColumn == Resolved(schema, Join.left)
RightColumn == Resolved(RightSchema, Join.right)

Joinable ==
    \E l \in LeftColumn, r \in RightColumn : l.type = r.type

\* Mutant: a cell that is not there is taken for nil.
ValueOrNil(row, column) ==
    {IF c.name \in DOMAIN Map(row) THEN Map(row)[c.name] ELSE Null : c \in column}

\* The value of a row in a column, if it has one.
ValueIn(row, column) == {Map(row)[c.name] : c \in {c \in column : c.name \in DOMAIN Map(row)}}

\* The joined tables are temporary ones without indexes: the hash index is
\* always built anew, over all the rows on the right.
BuildIndex ==
    /\ phase = "index"
    /\ IF Joinable
       THEN /\ index' = [v \in UNION {ValueIn(right[i], RightColumn) : i \in DOMAIN right} |->
                            {i \in DOMAIN right : v \in ValueIn(right[i], RightColumn)}]
            /\ phase' = "probe"
       ELSE phase' = "failed" /\ UNCHANGED index
    /\ matched' = {} /\ unmatched' = <<>> /\ out' = <<>>
    /\ UNCHANGED <<tables, query, joined, left, schema, right, seen, overlapped>>

\* The name of the temporary table on the left; that of a join is a pointer.
LeftName == IF joined = 0 THEN query.from ELSE "join"

\* combineRows qualifies the bare names, and the right-hand cells win.
Qualified(table, map) ==
    LET full(k) == IF Len(k) = 1 THEN <<table>> \o k ELSE k
    IN  [key \in {full(k) : k \in DOMAIN map} |->
            map[CHOOSE k \in DOMAIN map : full(k) = key]]

Merged(l, r) == [k \in DOMAIN l \cup DOMAIN r |-> IF k \in DOMAIN r THEN r[k] ELSE l[k]]

Combined(l, r) == Own(Merged(Qualified(LeftName, Map(l)), Qualified(Join.table, Map(r))))

\* combineRowsWithNull qualifies every name, and gives the other side nil in all
\* the columns of its schema.
AllQualified(table, map) == [k \in {<<table>> \o k : k \in DOMAIN map} |-> map[Tail(k)]]
Nulls(table, columns) == [k \in {<<table>> \o columns[i].name : i \in DOMAIN columns} |-> Null]

WithoutRight(l) ==
    Own(Merged(AllQualified(LeftName, Map(l)), Nulls(Join.table, RightSchema)))
WithoutLeft(r) ==
    Own(Merged(Nulls(LeftName, schema), AllQualified(Join.table, Map(r))))

ProbeRow ==
    /\ phase = "probe"
    /\ left # <<>>
    /\ LET row   == Head(left)
           found == UNION {index[v] : v \in ValueIn(row, LeftColumn) \cap DOMAIN index}
           order == Ascending(found)
       IN  /\ out' = out \o [i \in DOMAIN order |-> Combined(row, right[order[i]])]
           /\ matched' = matched \cup found
           /\ unmatched' = IF found = {} THEN Append(unmatched, row) ELSE unmatched
    /\ left' = Tail(left)
    /\ UNCHANGED <<tables, phase, query, joined, schema, right, index, seen, overlapped>>

\* Mutant: RIGHT JOIN forgets which rows on the right matched.
AllPositions == Ascending(DOMAIN right)

Lonely == Ascending(DOMAIN right \ matched)

\* The unmatched rows of an outer join, and the schema of the result.
AddUnmatched ==
    /\ phase = "probe"
    /\ left = <<>>
    /\ LET lefts  == IF Join.type \in {"LEFT", "FULL"}
                     THEN [i \in DOMAIN unmatched |-> WithoutRight(unmatched[i])] ELSE <<>>
           rights == IF Join.type \in {"RIGHT", "FULL"}
                     THEN [i \in DOMAIN Lonely |-> WithoutLeft(right[Lonely[i]])] ELSE <<>>
           under(table, columns) ==
               [i \in DOMAIN columns |-> [columns[i] EXCEPT !.name = <<table>> \o @]]
       IN  /\ left' = out \o lefts \o rights
           /\ schema' = under(LeftName, schema) \o under(Join.table, RightSchema)
    /\ joined' = joined + 1
    /\ phase' = IF joined + 1 < Len(query.joins) THEN "scanRight" ELSE "filter"
    /\ right' = <<>> /\ index' = <<>> /\ matched' = {} /\ unmatched' = <<>> /\ out' = <<>>
    /\ UNCHANGED <<tables, query, seen, overlapped>>

-----------------------------------------------------------------------------
(* WHERE once more, and the projection.                                    *)

FilterRow ==
    /\ phase = "filter"
    /\ left # <<>>
    /\ left' = Tail(left)
    /\ out' = IF Satisfies(Map(Head(left)), query.where) THEN Append(out, Head(left)) ELSE out
    /\ UNCHANGED <<tables, phase, query, joined, schema, joining, seen, overlapped>>

Filtered ==
    /\ phase = "filter"
    /\ left = <<>>
    /\ left' = out /\ out' = <<>>
    /\ phase' = "project"
    /\ UNCHANGED <<tables, query, joined, schema, joining, seen, overlapped>>

\* ProjectJoinedRow: a bare name also finds any column that ends with it, the
\* first in the order of the map; a column that is not found is left out.
Picked(map, name) ==
    IF name \in DOMAIN map THEN {name}
    ELSE {k \in DOMAIN map : Len(name) = 1 /\ Last(k) = Last(name)}

Projections(map, fields) ==
    LET there == {f \in fields : Picked(map, f) # {}}
        picks == {p \in [there -> DOMAIN map] : \A f \in there : p[f] \in Picked(map, f)}
    IN  IF fields = {} THEN {map} ELSE {[f \in there |-> map[p[f]]] : p \in picks}

\* With * the row is the map of the table, read when the answer is encoded.
ProjectRow ==
    /\ phase = "project"
    /\ left # <<>>
    /\ left' = Tail(left)
    /\ \E map \in Projections(Map(Head(left)), query.fields) : out' = Append(out, Own(map))
    /\ UNCHANGED <<tables, phase, query, joined, schema, joining, seen, overlapped>>

Projected ==
    /\ phase = "project"
    /\ left = <<>>
    /\ phase' = "done"
    /\ UNCHANGED <<tables, query, joined, left, schema, joining, out, seen, overlapped>>

\* The data race: the Go runtime may find a map read while it is written, and
\* then ends the process; what was not saved is gone.
Fault ==
    /\ phase \in {"index", "probe", "filter", "project"}
    /\ \E cell \in update.todo, row \in ToSet(left \o right \o unmatched \o out) :
          IsNext(cell) /\ row = Shared(rows[update.table][cell[1]])
    /\ phase' = "lost"
    /\ heap' = SeedHeap /\ rows' = SeedTables /\ update' = NoUpdate
    /\ left' = <<>> /\ out' = <<>>
    /\ right' = <<>> /\ index' = <<>> /\ matched' = {} /\ unmatched' = <<>>
    /\ UNCHANGED <<writes, versions, query, joined, schema, seen, overlapped>>

JoinStep == BuildIndex \/ ProbeRow \/ AddUnmatched
SelectStep == FilterRow \/ Filtered \/ ProjectRow \/ Projected

UpdateStep == (\E cell \in update.todo : WriteCell(cell)) \/ UpdateEnd

Next ==
    \/ \E t \in TableName :
        \/ \E cells \in InsertCells[t] : Insert(t, cells)
        \/ \E where \in Condition : Delete(t, where)
        \/ \E where \in Condition, cells \in UpdateCells[t] : UpdateBegin(t, where, cells)
    \/ UpdateStep
    \/ \E q \in Queries : Begin(q)
    \/ ScanLeft \/ ScanRight
    \/ JoinStep
    \/ SelectStep
    \/ Fault

\* The Go scheduler runs every goroutine that can run, and a reader that waits
\* for a RWMutex gets it when the writer lets go.
Fairness ==
    /\ WF_vars(UpdateStep)
    /\ WF_vars(ScanLeft \/ ScanRight)
    /\ WF_vars(JoinStep \/ SelectStep)

Spec == Init /\ [][Next]_vars /\ Fairness

-----------------------------------------------------------------------------
IsPointer(row) == "at" \in DOMAIN row => row.at \in DOMAIN heap

\* Every variable keeps its shape, whatever is written while a SELECT is under
\* way: what a join has noted of its rows and an UPDATE of its own stays true of
\* them.
TypeOK ==
    /\ \A t \in TableName : \A i \in DOMAIN rows[t] : rows[t][i] \in DOMAIN heap
    /\ update = NoUpdate \/ /\ update.table \in TableName
                            /\ update.todo \subseteq (DOMAIN rows[update.table]) \X (DOMAIN update.cells)
    /\ phase \in Ended \cup {"scan", "scanRight", "index", "probe", "filter", "project"}
    /\ \A row \in ToSet(left \o right \o unmatched \o out) : IsPointer(row)
    /\ \A v \in DOMAIN index : index[v] # {} /\ index[v] \subseteq DOMAIN right
    /\ matched \subseteq DOMAIN right
    /\ joined <= Len(query.joins)

=============================================================================
