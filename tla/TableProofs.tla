----------------------------- MODULE TableProofs -----------------------------
(***************************************************************************)
(* Proofs about Table, for every schema, workload and bound.               *)
(***************************************************************************)
EXTENDS TableRefinement, TLAPS

LEMMA AssignIsRow ==
    ASSUME NEW row, NEW updates, IsRow(row), IsRow(updates)
    PROVE  IsRow(Assign(row, updates))
BY DEF IsRow, Assign

LEMMA CellIsRow ==
    ASSUME NEW n \in Int
    PROVE  IsRow([c \in {PrimaryKey} |-> Int64(n)])
BY SchemaAssumption DEF IsRow, Int64, Value, GoType

LEMMA SuccessorIsInt ==
    ASSUME NEW n \in Int
    PROVE  Successor(n) \in Int
BY SchemaAssumption DEF Successor

LEMMA InsertIDIsInt ==
    ASSUME NEW row \in InsertRows, LastInsertID \in Int
    PROVE  InsertID(row) \in Int
BY WorkloadAssumption, SuccessorIsInt DEF InsertID, IsRow, Value

LEMMA CompletedIsRow ==
    ASSUME NEW row \in InsertRows, LastInsertID \in Int
    PROVE  IsRow(Completed(row))
BY WorkloadAssumption, InsertIDIsInt, CellIsRow, AssignIsRow DEF Completed

LEMMA RestrictionIsRow ==
    ASSUME NEW row, IsRow(row), NEW D \in SUBSET DOMAIN row
    PROVE  IsRow([c \in D |-> row[c]])
BY DEF IsRow

LEMMA ContentSeq ==
    ASSUME NEW n \in Nat, NEW rows, rows = [i \in 1 .. n |-> rows[i]]
    PROVE  /\ rows \in Seq(Content(rows))
           /\ Len(rows) = n
           /\ DOMAIN rows = 1 .. n
<1> DEFINE S == Content(rows)
<1>1. rows \in [1 .. n -> S]
  BY DEF Content
<1> QED
  BY <1>1

LEMMA RebuiltDomain ==
    ASSUME NEW rows
    PROVE  DOMAIN Rebuilt(rows) = Indexed
BY DEF Rebuilt

-----------------------------------------------------------------------------
(* Every variable keeps its shape.                                         *)

LEMMA AnswersTyped ==
    /\ NoAnswer \in Answers /\ Ok \in Answers /\ Error \in Answers
    /\ \A row \in InsertRows : Refused(row) \in Answers
BY DEF Answers

LEMMA TypeInit == Init => TypeOK
BY WorkloadAssumption, RebuiltDomain, AnswersTyped DEF Init, TypeOK, Content

LEMMA TypeStep ==
    ASSUME TypeOK, [Next]_vars
    PROVE  TypeOK'
<1> USE DEF TypeOK
<1>1. ASSUME NEW row \in InsertRows, InsertRow(row)
      PROVE  TypeOK'
  <2>1. IsRow(Completed(row))
    BY CompletedIsRow
  <2>2. Rows' = Append(Rows, Completed(row))
    BY <1>1 DEF InsertRow
  <2>3. Rows' \in Seq(Content(Rows')) /\ \A i \in DOMAIN Rows' : IsRow(Rows'[i])
    BY <2>1, <2>2 DEF Content
  <2>4. DOMAIN Indexes' = Indexed
    BY <1>1 DEF InsertRow, WithRow
  <2>5. LastInsertID' \in Int
    BY <1>1, InsertIDIsInt DEF InsertRow, SequenceAfter
  <2> QED
    BY <1>1, <2>3, <2>4, <2>5, AnswersTyped DEF InsertRow
<1>2. ASSUME NEW row \in InsertRows, InsertFails(row)
      PROVE  TypeOK'
  <2>1. LastInsertID' \in Int
    BY <1>2, InsertIDIsInt DEF InsertFails, SequenceAfter
  <2> QED
    BY <1>2, <2>1, AnswersTyped DEF InsertFails, Content
<1>3. ASSUME NEW match, NEW updates \in UpdateRows, Update(match, updates)
      PROVE  TypeOK'
  <2>1. IsRow(updates)
    BY WorkloadAssumption
  <2>2. Rows' \in Seq(Content(Rows')) /\ \A i \in DOMAIN Rows' : IsRow(Rows'[i])
    <3>1. Rows' = [i \in DOMAIN Rows |->
                      IF Rows[i] \in match THEN Assign(Rows[i], updates) ELSE Rows[i]]
      BY <1>3 DEF Update
    <3>2. Rows' \in Seq(Content(Rows')) /\ DOMAIN Rows' = DOMAIN Rows
      BY <3>1, ContentSeq
    <3> QED
      BY <2>1, <3>1, <3>2, AssignIsRow
  <2>3. DOMAIN Indexes' = Indexed
    BY <1>3, RebuiltDomain DEF Update, Reindexed
  <2> QED
    BY <1>3, <2>2, <2>3, AnswersTyped DEF Update
<1>4. ASSUME NEW match, NEW updates \in UpdateRows, UpdateUnknown(match, updates)
      PROVE  TypeOK'
  <2>1. IsRow(updates)
    BY WorkloadAssumption
  <2>2. ASSUME NEW first \in DOMAIN Rows,
               NEW written \in SUBSET (DOMAIN updates \cap Column),
               Rows' = [i \in DOMAIN Rows |->
                          IF i = first
                          THEN Assign(Rows[i], [c \in written |-> updates[c]])
                          ELSE Rows[i]]
        PROVE  Rows' \in Seq(Content(Rows')) /\ \A i \in DOMAIN Rows' : IsRow(Rows'[i])
    <3>1. IsRow(Assign(Rows[first], [c \in written |-> updates[c]]))
      BY <2>1, RestrictionIsRow, AssignIsRow
    <3>2. Rows' \in Seq(Content(Rows')) /\ DOMAIN Rows' = DOMAIN Rows
      BY <2>2, ContentSeq
    <3> QED
      BY <2>2, <3>1, <3>2
  <2> QED
    BY <1>4, <2>2, AnswersTyped DEF UpdateUnknown, Content
<1>5. ASSUME NEW match, Delete(match)
      PROVE  TypeOK'
  <2>1. ASSUME Filtered(match)
        PROVE  Rows' \in Seq(Content(Rows')) /\ \A i \in DOMAIN Rows' : IsRow(Rows'[i])
    <3>1. PICK n \in 0 .. Len(Rows) : \E kept \in [1 .. n -> DOMAIN Rows] :
            Rows' = [i \in 1 .. n |-> Rows[kept[i]]]
      BY <2>1 DEF Filtered
    <3>2. Rows' \in Seq(Content(Rows')) /\ DOMAIN Rows' = 1 .. n
      BY <3>1, ContentSeq
    <3> QED
      BY <3>1, <3>2
  <2>2. Rows' \in Seq(Content(Rows')) /\ \A i \in DOMAIN Rows' : IsRow(Rows'[i])
    BY <1>5, <2>1 DEF Delete, Content
  <2>3. DOMAIN Indexes' = Indexed
    BY <1>5, RebuiltDomain DEF Delete, Reindexed
  <2> QED
    BY <1>5, <2>2, <2>3, AnswersTyped DEF Delete
<1>6. CASE UNCHANGED vars
  BY <1>6 DEF vars, Content
<1> QED
  BY <1>1, <1>2, <1>3, <1>4, <1>5, <1>6 DEF Next

\* Type correctness: rows stay functions from statement columns to values and
\* the table keeps one index per unique column, for every workload.
THEOREM TypeCorrect == Spec => []TypeOK
<1>1. Init => TypeOK
  BY TypeInit
<1>2. TypeOK /\ [Next]_vars => TypeOK'
  BY TypeStep
<1> QED
  BY <1>1, <1>2, PTL DEF Spec

-----------------------------------------------------------------------------
(* The indexes say what the rows say.                                      *)

LEMMA RebuiltExact ==
    ASSUME NEW rows, NEW c \in Indexed
    PROVE  /\ DOMAIN Rebuilt(rows)[c] = Keys(c, rows)
           /\ \A v \in Keys(c, rows) : Rebuilt(rows)[c][v] = Positions(c, rows, v)
BY DEF Rebuilt

\* An index depends on nothing but the values of its column.
LEMMA SameColumnSameIndex ==
    ASSUME NEW c, NEW rows, NEW others,
           DOMAIN others = DOMAIN rows,
           \A i \in DOMAIN rows :
               /\ c \in DOMAIN others[i] <=> c \in DOMAIN rows[i]
               /\ c \in DOMAIN rows[i] => others[i][c] = rows[i][c]
    PROVE  /\ Keys(c, others) = Keys(c, rows)
           /\ \A v : Positions(c, others, v) = Positions(c, rows, v)
<1>1. Keys(c, others) = Keys(c, rows)
  BY DEF Keys
<1>2. \A v : Positions(c, others, v) = Positions(c, rows, v)
  BY DEF Positions
<1> QED
  BY <1>1, <1>2

LEMMA AppendKeys ==
    ASSUME NEW c, NEW rows, rows \in Seq(Content(rows)), NEW row
    PROVE  /\ c \notin DOMAIN row =>
                /\ Keys(c, Append(rows, row)) = Keys(c, rows)
                /\ \A v : Positions(c, Append(rows, row), v) = Positions(c, rows, v)
           /\ c \in DOMAIN row =>
                /\ Keys(c, Append(rows, row)) = Keys(c, rows) \cup {row[c]}
                /\ \A v : v # row[c] =>
                      Positions(c, Append(rows, row), v) = Positions(c, rows, v)
                /\ Positions(c, Append(rows, row), row[c]) =
                      Positions(c, rows, row[c]) \cup {Len(rows) + 1}
<1> DEFINE more == Append(rows, row)
<1>1. /\ DOMAIN more = DOMAIN rows \cup {Len(rows) + 1}
      /\ Len(rows) + 1 \notin DOMAIN rows
      /\ more[Len(rows) + 1] = row
      /\ \A i \in DOMAIN rows : more[i] = rows[i]
  OBVIOUS
<1> HIDE DEF more
<1>2. c \notin DOMAIN row => Keys(c, more) = Keys(c, rows)
  BY <1>1 DEF Keys
<1>3. c \in DOMAIN row => Keys(c, more) = Keys(c, rows) \cup {row[c]}
  BY <1>1 DEF Keys
<1>4. \A v : (c \in DOMAIN row => v # row[c]) =>
          Positions(c, more, v) = Positions(c, rows, v)
  BY <1>1 DEF Positions
<1>5. c \in DOMAIN row =>
        Positions(c, more, row[c]) = Positions(c, rows, row[c]) \cup {Len(rows) + 1}
  BY <1>1 DEF Positions
<1> QED
  BY <1>2, <1>3, <1>4, <1>5 DEF more

\* No UPDATE assigns a unique column and an unknown one in the same statement.
NoMixedUpdate ==
    \A updates \in UpdateRows :
        DOMAIN updates \subseteq Column \/ DOMAIN updates \cap Indexed = {}

LEMMA IndexInit == Init => IndexExact
BY RebuiltExact DEF Init, IndexExact

LEMMA ReindexedExact ==
    ASSUME NEW match, Indexes' = Reindexed(match, Rows'),
           match = {} => UNCHANGED Rows, IndexExact
    PROVE  IndexExact'
<1>1. CASE match = {}
  BY <1>1 DEF Reindexed, IndexExact
<1>2. CASE match # {}
  BY <1>2, RebuiltExact DEF Reindexed, IndexExact
<1> QED
  BY <1>1, <1>2

LEMMA IndexStep ==
    ASSUME NoMixedUpdate, TypeOK, IndexExact, [Next]_vars
    PROVE  IndexExact'
<1>1. ASSUME NEW row \in InsertRows, InsertRow(row)
      PROVE  IndexExact'
  <2> DEFINE r == Completed(row)
  <2>1. Rows' = Append(Rows, r) /\ Indexes' = WithRow(Indexes, r, Len(Rows) + 1)
    BY <1>1 DEF InsertRow
  <2>2. \A c \in Indexed :
          /\ DOMAIN Indexes[c] = Keys(c, Rows)
          /\ \A v \in Keys(c, Rows) : Indexes[c][v] = Positions(c, Rows, v)
    BY DEF IndexExact
  <2>3. \A c, v : v \notin Keys(c, Rows) => Positions(c, Rows, v) = {}
    BY DEF Keys, Positions
  <2> SUFFICES ASSUME NEW c \in Indexed
               PROVE  /\ DOMAIN Indexes'[c] = Keys(c, Rows')
                      /\ \A v \in Keys(c, Rows') : Indexes'[c][v] = Positions(c, Rows', v)
    BY DEF IndexExact
  <2> HIDE DEF r
  <2>4. Rows \in Seq(Content(Rows))
    BY DEF TypeOK
  <2>5. CASE c \notin DOMAIN r
    <3>1. Indexes'[c] = Indexes[c]
      BY <2>1, <2>5 DEF WithRow
    <3>2. /\ Keys(c, Rows') = Keys(c, Rows)
          /\ \A v : Positions(c, Rows', v) = Positions(c, Rows, v)
      BY <2>1, <2>4, <2>5, AppendKeys
    <3> QED
      BY <2>2, <3>1, <3>2
  <2>6. CASE c \in DOMAIN r
    <3>1. Indexes'[c] = [v \in DOMAIN Indexes[c] \cup {r[c]} |->
                           IF v = r[c] THEN Entry(Indexes[c], v) \cup {Len(Rows) + 1}
                           ELSE Indexes[c][v]]
      BY <2>1, <2>6 DEF WithRow
    <3>2. Entry(Indexes[c], r[c]) = Positions(c, Rows, r[c])
      BY <2>2, <2>3 DEF Entry
    <3>3. /\ Keys(c, Rows') = Keys(c, Rows) \cup {r[c]}
          /\ \A v : v # r[c] => Positions(c, Rows', v) = Positions(c, Rows, v)
          /\ Positions(c, Rows', r[c]) = Positions(c, Rows, r[c]) \cup {Len(Rows) + 1}
      BY <2>1, <2>4, <2>6, AppendKeys
    <3> QED
      BY <2>2, <3>1, <3>2, <3>3
  <2> QED
    BY <2>5, <2>6
<1>2. ASSUME NEW row \in InsertRows, InsertFails(row)
      PROVE  IndexExact'
  BY <1>2 DEF InsertFails, IndexExact
<1>3. ASSUME NEW match, NEW updates \in UpdateRows, Update(match, updates)
      PROVE  IndexExact'
  <2>1. match = {} => UNCHANGED Rows
    BY <1>3 DEF Update, TypeOK
  <2> QED
    BY <1>3, <2>1, ReindexedExact DEF Update
<1>4. ASSUME NEW match, NEW updates \in UpdateRows, UpdateUnknown(match, updates)
      PROVE  IndexExact'
  <2>1. DOMAIN updates \cap Indexed = {}
    BY <1>4 DEF UpdateUnknown, NoMixedUpdate
  <2>2. CASE UNCHANGED Rows
    BY <1>4, <2>2 DEF UpdateUnknown, IndexExact
  <2>3. ASSUME NEW first \in DOMAIN Rows,
               NEW written \in SUBSET (DOMAIN updates \cap Column),
               Rows' = [i \in DOMAIN Rows |->
                          IF i = first
                          THEN Assign(Rows[i], [c \in written |-> updates[c]])
                          ELSE Rows[i]]
        PROVE  IndexExact'
    <3>1. ASSUME NEW c \in Indexed, NEW i \in DOMAIN Rows
          PROVE  /\ c \in DOMAIN Rows'[i] <=> c \in DOMAIN Rows[i]
                 /\ c \in DOMAIN Rows[i] => Rows'[i][c] = Rows[i][c]
      BY <2>1, <2>3 DEF Assign
    <3>2. DOMAIN Rows' = DOMAIN Rows
      BY <2>3
    <3>3. ASSUME NEW c \in Indexed
          PROVE  /\ Keys(c, Rows') = Keys(c, Rows)
                 /\ \A v : Positions(c, Rows', v) = Positions(c, Rows, v)
      BY <3>1, <3>2, SameColumnSameIndex
    <3>4. UNCHANGED Indexes
      BY <1>4 DEF UpdateUnknown
    <3> QED
      BY <3>3, <3>4 DEF IndexExact
  <2> QED
    BY <1>4, <2>2, <2>3 DEF UpdateUnknown
<1>5. ASSUME NEW match, Delete(match)
      PROVE  IndexExact'
  BY <1>5, ReindexedExact DEF Delete
<1>6. CASE UNCHANGED vars
  BY <1>6 DEF vars, IndexExact
<1> QED
  BY <1>1, <1>2, <1>3, <1>4, <1>5, <1>6 DEF Next

\* The indexes always agree with the rows, whatever INSERTs, UPDATEs and
\* DELETEs do, as long as no UPDATE mixes a unique column with an unknown one.
THEOREM IndexesExact == NoMixedUpdate => (Spec => []IndexExact)
<1> SUFFICES ASSUME NoMixedUpdate PROVE Spec => []IndexExact
  OBVIOUS
<1>1. Init => TypeOK /\ IndexExact
  BY TypeInit, IndexInit
<1>2. TypeOK /\ IndexExact /\ [Next]_vars => (TypeOK /\ IndexExact)'
  BY TypeStep, IndexStep
<1> QED
  BY <1>1, <1>2, PTL DEF Spec

-----------------------------------------------------------------------------
(* No two rows share a unique value.                                       *)

\* No UPDATE assigns a unique column or the primary key.
QuietUpdates == \A updates \in UpdateRows : DOMAIN updates \cap Indexed = {}

LEMMA QuietIsNotMixed == QuietUpdates => NoMixedUpdate
BY DEF QuietUpdates, NoMixedUpdate

\* A step that leaves the indexed columns of every row as they are.
SameKeys ==
    /\ DOMAIN Rows' = DOMAIN Rows
    /\ \A i \in DOMAIN Rows : \A c \in Indexed :
          /\ c \in DOMAIN Rows'[i] <=> c \in DOMAIN Rows[i]
          /\ c \in DOMAIN Rows[i] => Rows'[i][c] = Rows[i][c]

LEMMA UpdateKeepsKeys ==
    ASSUME QuietUpdates, NEW match, NEW updates \in UpdateRows,
           Update(match, updates) \/ UpdateUnknown(match, updates)
    PROVE  SameKeys
<1>1. DOMAIN updates \cap Indexed = {}
  BY DEF QuietUpdates
<1>2. CASE Update(match, updates)
  BY <1>1, <1>2 DEF Update, SameKeys, Assign
<1>3. CASE UNCHANGED Rows
  BY <1>3 DEF SameKeys
<1>4. ASSUME NEW first \in DOMAIN Rows,
             NEW written \in SUBSET (DOMAIN updates \cap Column),
             Rows' = [i \in DOMAIN Rows |->
                        IF i = first
                        THEN Assign(Rows[i], [c \in written |-> updates[c]])
                        ELSE Rows[i]]
      PROVE  SameKeys
  BY <1>1, <1>4 DEF SameKeys, Assign
<1> QED
  BY <1>2, <1>3, <1>4 DEF UpdateUnknown

LEMMA UniqueInit == Init => UniqueHolds
BY WorkloadAssumption DEF Init, Loadable, UniqueHolds, Indexable

LEMMA UniqueStep ==
    ASSUME QuietUpdates, TypeOK, IndexExact, UniqueHolds, [Next]_vars
    PROVE  UniqueHolds'
<1>1. ASSUME NEW row \in InsertRows, InsertRow(row)
      PROVE  UniqueHolds'
  <2> DEFINE r == Completed(row)
  <2>1. Rows' = Append(Rows, r) /\ ~Duplicate(r)
    BY <1>1 DEF InsertRow
  <2> HIDE DEF r
  <2>2. \A c \in Indexed, i \in DOMAIN Rows :
          c \in DOMAIN r /\ c \in DOMAIN Rows[i] => Rows[i][c] # r[c]
    BY <2>1 DEF Duplicate, IndexExact, Keys
  <2>3. /\ DOMAIN Rows' = DOMAIN Rows \cup {Len(Rows) + 1}
        /\ Rows'[Len(Rows) + 1] = r
        /\ \A i \in DOMAIN Rows : Rows'[i] = Rows[i]
    BY <2>1 DEF TypeOK
  <2> QED
    BY <2>2, <2>3 DEF UniqueHolds, Indexable
<1>2. ASSUME NEW row \in InsertRows, InsertFails(row)
      PROVE  UniqueHolds'
  BY <1>2 DEF InsertFails, UniqueHolds, Indexable
<1>3. ASSUME NEW match, NEW updates \in UpdateRows,
             Update(match, updates) \/ UpdateUnknown(match, updates)
      PROVE  UniqueHolds'
  <2>1. SameKeys
    BY <1>3, UpdateKeepsKeys
  <2> QED
    BY <2>1 DEF SameKeys, UniqueHolds, Indexable
<1>4. ASSUME NEW match, Delete(match)
      PROVE  UniqueHolds'
  <2>1. CASE UNCHANGED Rows
    BY <2>1 DEF UniqueHolds, Indexable
  <2>2. CASE Filtered(match)
    <3>1. PICK n \in 0 .. Len(Rows) : \E kept \in [1 .. n -> DOMAIN Rows] :
            /\ \A i, j \in 1 .. n : i < j => kept[i] < kept[j]
            /\ Rows' = [i \in 1 .. n |-> Rows[kept[i]]]
      BY <2>2 DEF Filtered
    <3>2. PICK kept \in [1 .. n -> DOMAIN Rows] :
            /\ \A i, j \in 1 .. n : i < j => kept[i] < kept[j]
            /\ Rows' = [i \in 1 .. n |-> Rows[kept[i]]]
      BY <3>1
    <3>3. \A i, j \in 1 .. n : kept[i] = kept[j] => i = j
      BY <3>2 DEF TypeOK
    <3> QED
      BY <3>2, <3>3 DEF UniqueHolds, Indexable
  <2> QED
    BY <1>4, <2>1, <2>2 DEF Delete
<1>5. CASE UNCHANGED vars
  BY <1>5 DEF vars, UniqueHolds, Indexable
<1> QED
  BY <1>1, <1>2, <1>3, <1>4, <1>5 DEF Next

\* INSERT and DELETE never let two rows share a value of a unique column,
\* because the indexes INSERT consults are exact; the hypothesis is needed,
\* since UPDATE consults nothing.
THEOREM UniqueKept == QuietUpdates => (Spec => []UniqueHolds)
<1> SUFFICES ASSUME QuietUpdates PROVE Spec => []UniqueHolds
  OBVIOUS
<1> DEFINE Inv == TypeOK /\ IndexExact /\ UniqueHolds
<1>1. Init => Inv
  BY TypeInit, IndexInit, UniqueInit
<1>2. Inv /\ [Next]_vars => Inv'
  BY TypeStep, IndexStep, UniqueStep, QuietIsNotMixed
<1> QED
  BY <1>1, <1>2, PTL DEF Spec

-----------------------------------------------------------------------------
(* The sequence is ahead of every id.                                      *)

\* The ids the loader handed over are ordered and within the sequence, and
\* the sequence stays within 64 bits.
SequencedSeed == MaxID <= MaxInt64 /\ Sequenced(SeedRows, SeedLastID)

\* Every row has its key, stored as an int64.
KeysStored ==
    AutoIncrement =>
        \A i \in DOMAIN Rows :
            PrimaryKey \in DOMAIN Rows[i] /\ Rows[i][PrimaryKey].go = "int64"

LEMMA KeyIsIndexed == PrimaryKey \in Indexed
BY DEF Indexed

LEMMA CompletedKey ==
    ASSUME NEW row, AutoIncrement
    PROVE  /\ PrimaryKey \in DOMAIN Completed(row)
           /\ Completed(row)[PrimaryKey] = Int64(InsertID(row))
BY DEF Completed, Assign

\* The id of a row that is stored is ahead of the sequence.
LEMMA InsertAdvances ==
    ASSUME MaxID <= MaxInt64, LastInsertID \in Int, LastInsertID < MaxID,
           NEW row \in InsertRows, ~SequenceRefuses(row), AutoIncrement
    PROVE  /\ InsertID(row) \in Int
           /\ LastInsertID < InsertID(row)
           /\ SequenceAfter(row) = InsertID(row)
<1>1. InsertID(row) \in Int /\ SequenceAfter(row) = InsertID(row)
  BY InsertIDIsInt DEF SequenceAfter
<1>2. CASE PrimaryKey \in DOMAIN row
  BY <1>1, <1>2 DEF SequenceRefuses, InsertID
<1>3. CASE PrimaryKey \notin DOMAIN row
  <2>1. InsertID(row) = Successor(LastInsertID)
    BY <1>3 DEF InsertID
  <2>2. Successor(LastInsertID) = LastInsertID + 1
    BY SchemaAssumption, WorkloadAssumption DEF Successor
  <2> QED
    BY <1>1, <2>1, <2>2
<1> QED
  BY <1>1, <1>2, <1>3

LEMMA SequenceInit == SequencedSeed /\ Init => KeysStored /\ IdsOrdered
<1> SUFFICES ASSUME SequencedSeed, Init PROVE KeysStored /\ IdsOrdered
  OBVIOUS
<1>1. IdsOrdered
  BY DEF SequencedSeed, Init, IdsOrdered, Sequenced
<1>2. ASSUME AutoIncrement, NEW i \in DOMAIN SeedRows
      PROVE  PrimaryKey \in DOMAIN SeedRows[i] /\ SeedRows[i][PrimaryKey].go = "int64"
  <2>1. ColumnType[PrimaryKey] = "INT"
    BY <1>2, SchemaAssumption
  <2> QED
    BY <2>1, SchemaAssumption, WorkloadAssumption DEF Loadable, LoaderAccepts, LoadedRow, LoadedGo
<1> QED
  BY <1>1, <1>2 DEF Init, KeysStored

LEMMA SequenceStep ==
    ASSUME SequencedSeed, QuietUpdates, TypeOK, KeysStored, IdsOrdered, [Next]_vars
    PROVE  KeysStored' /\ IdsOrdered'
<1> DEFINE id(i) == Rows[i][PrimaryKey].n
<1>1. ASSUME NEW i \in DOMAIN Rows, AutoIncrement
      PROVE  id(i) \in Int
  BY <1>1 DEF TypeOK, KeysStored, IsRow, Value
<1>2. ASSUME NEW row \in InsertRows, InsertRow(row)
      PROVE  KeysStored' /\ IdsOrdered'
  <2> SUFFICES ASSUME AutoIncrement PROVE KeysStored' /\ IdsOrdered'
    BY DEF KeysStored, IdsOrdered, Sequenced
  <2> DEFINE r == Completed(row)
  <2>1. Rows' = Append(Rows, r) /\ LastInsertID' = SequenceAfter(row)
    BY <1>2 DEF InsertRow
  <2>2. /\ r[PrimaryKey].n = InsertID(row)
        /\ r[PrimaryKey].go = "int64"
        /\ PrimaryKey \in DOMAIN r
    <3>1. PrimaryKey \in DOMAIN r /\ r[PrimaryKey] = Int64(InsertID(row))
      BY CompletedKey, Zenon
    <3> QED
      BY <3>1 DEF Int64
  <2> HIDE DEF r
  <2>3. /\ DOMAIN Rows' = DOMAIN Rows \cup {Len(Rows) + 1}
        /\ Rows'[Len(Rows) + 1] = r
        /\ \A i \in DOMAIN Rows : Rows'[i] = Rows[i] /\ i \in Int /\ i < Len(Rows) + 1
        /\ Len(Rows) \in Nat
    BY <2>1 DEF TypeOK
  <2>4. /\ InsertID(row) \in Int
        /\ LastInsertID < InsertID(row)
        /\ LastInsertID' = InsertID(row)
    BY <1>2, <2>1, InsertAdvances DEF InsertRow, TypeOK, SequencedSeed
  <2>5. KeysStored'
    BY <2>2, <2>3 DEF KeysStored
  <2>6. IdsOrdered'
    BY <1>1, <2>2, <2>3, <2>4 DEF IdsOrdered, Sequenced, TypeOK
  <2> QED
    BY <2>5, <2>6
<1>3. ASSUME NEW row \in InsertRows, InsertFails(row)
      PROVE  KeysStored' /\ IdsOrdered'
  <2> SUFFICES ASSUME AutoIncrement PROVE KeysStored' /\ IdsOrdered'
    BY DEF KeysStored, IdsOrdered, Sequenced
  <2>1. UNCHANGED Rows
    BY <1>3 DEF InsertFails
  <2>2. LastInsertID' \in Int /\ LastInsertID <= LastInsertID'
    <3>1. CASE SequenceRefuses(row)
      BY <1>3, <3>1 DEF InsertFails, TypeOK
    <3>2. CASE ~SequenceRefuses(row)
      <4>1. LastInsertID < MaxID /\ LastInsertID' = SequenceAfter(row)
        BY <1>3, <3>2 DEF InsertFails
      <4> QED
        BY <3>2, <4>1, InsertAdvances DEF TypeOK, SequencedSeed
    <3> QED
      BY <3>1, <3>2
  <2>3. IdsOrdered'
    BY <1>1, <2>1, <2>2 DEF IdsOrdered, Sequenced, TypeOK
  <2> QED
    BY <2>1, <2>3 DEF KeysStored
<1>4. ASSUME NEW match, NEW updates \in UpdateRows,
             Update(match, updates) \/ UpdateUnknown(match, updates)
      PROVE  KeysStored' /\ IdsOrdered'
  <2>1. SameKeys
    BY <1>4, UpdateKeepsKeys
  <2>2. UNCHANGED LastInsertID
    BY <1>4 DEF Update, UpdateUnknown
  <2> QED
    BY <2>1, <2>2, KeyIsIndexed DEF SameKeys, KeysStored, IdsOrdered, Sequenced
<1>5. ASSUME NEW match, Delete(match)
      PROVE  KeysStored' /\ IdsOrdered'
  <2>1. UNCHANGED LastInsertID
    BY <1>5 DEF Delete
  <2>2. CASE UNCHANGED Rows
    BY <2>1, <2>2 DEF KeysStored, IdsOrdered, Sequenced
  <2>3. CASE Filtered(match)
    <3>1. PICK n \in 0 .. Len(Rows) : \E kept \in [1 .. n -> DOMAIN Rows] :
            /\ \A i, j \in 1 .. n : i < j => kept[i] < kept[j]
            /\ Rows' = [i \in 1 .. n |-> Rows[kept[i]]]
      BY <2>3 DEF Filtered
    <3>2. PICK kept \in [1 .. n -> DOMAIN Rows] :
            /\ \A i, j \in 1 .. n : i < j => kept[i] < kept[j]
            /\ Rows' = [i \in 1 .. n |-> Rows[kept[i]]]
      BY <3>1
    <3> QED
      BY <2>1, <3>2 DEF KeysStored, IdsOrdered, Sequenced
  <2> QED
    BY <1>5, <2>2, <2>3 DEF Delete
<1>6. CASE UNCHANGED vars
  BY <1>6 DEF vars, KeysStored, IdsOrdered, Sequenced
<1> QED
  BY <1>2, <1>3, <1>4, <1>5, <1>6 DEF Next

\* Ids grow along the rows and stay within the sequence, so that the next id is
\* new, also after the row with the last id was deleted.
THEOREM SequenceAhead == SequencedSeed /\ QuietUpdates => (Spec => []IdsOrdered)
<1> SUFFICES ASSUME SequencedSeed, QuietUpdates PROVE Spec => []IdsOrdered
  OBVIOUS
<1> DEFINE Inv == TypeOK /\ KeysStored /\ IdsOrdered
<1>1. Init => Inv
  BY TypeInit, SequenceInit
<1>2. Inv /\ [Next]_vars => Inv'
  BY TypeStep, SequenceStep
<1> QED
  BY <1>1, <1>2, PTL DEF Spec

-----------------------------------------------------------------------------
(* A row is found by its id.                                               *)

\* An id that a row holds is the key of its index entry, and of that row's only.
LEMMA IdFindsRow ==
    ASSUME TypeOK, KeysStored, IdsOrdered, IndexExact, AutoIncrement,
           NEW i \in DOMAIN Rows
    PROVE  SelectByIndex(PrimaryKey, [go |-> "int", n |-> Rows[i][PrimaryKey].n]) = i
<1> DEFINE v == [go |-> "int", n |-> Rows[i][PrimaryKey].n]
           key == Int64(v.n)
<1>1. /\ PrimaryKey \in DOMAIN Rows[i]
      /\ Rows[i][PrimaryKey] = key
      /\ key.n = Rows[i][PrimaryKey].n
  BY DEF KeysStored, TypeOK, IsRow, Value, Int64
<1>2. ASSUME NEW j \in DOMAIN Rows
      PROVE  PrimaryKey \in DOMAIN Rows[j] /\ Rows[j][PrimaryKey].n \in Int
  BY <1>2 DEF KeysStored, TypeOK, IsRow, Value
<1>3. ASSUME NEW j \in DOMAIN Rows, Rows[j][PrimaryKey] = key
      PROVE  j = i
  <2>1. i \in Int /\ j \in Int
    BY DEF TypeOK
  <2>2. Rows[j][PrimaryKey].n = Rows[i][PrimaryKey].n
    BY <1>1, <1>3
  <2> QED
    BY <1>2, <2>1, <2>2 DEF IdsOrdered, Sequenced
<1>4. Positions(PrimaryKey, Rows, key) = {i}
  BY <1>1, <1>3 DEF Positions
<1>5. Entry(Indexes[PrimaryKey], key) = {i}
  <2>1. key \in Keys(PrimaryKey, Rows)
    BY <1>1 DEF Keys
  <2> QED
    BY <1>4, <2>1, KeyIsIndexed DEF IndexExact, Entry
<1>6. (CHOOSE k \in {i} : \A m \in {i} : k <= m) = i
  <2>1. i <= i
    BY DEF TypeOK
  <2> QED
    BY <2>1
<1> QED
  BY <1>5, <1>6, KeyIsIndexed DEF SelectByIndex

\* Every row is found by its id written as a literal, and no other row is: the
\* lookup converts the literal to the int64 a stored id always is, the index
\* is exact and no two rows share an id.
THEOREM RowFoundById == SequencedSeed /\ QuietUpdates => (Spec => []LookupFindsRow)
<1> SUFFICES ASSUME SequencedSeed, QuietUpdates PROVE Spec => []LookupFindsRow
  OBVIOUS
<1> DEFINE Inv == TypeOK /\ KeysStored /\ IdsOrdered /\ IndexExact
<1>1. Init => Inv
  BY TypeInit, SequenceInit, IndexInit
<1>2. Inv /\ [Next]_vars => Inv'
  BY TypeStep, SequenceStep, IndexStep, QuietIsNotMixed
<1>3. Inv => LookupFindsRow
  BY IdFindsRow DEF LookupFindsRow
<1> QED
  BY <1>1, <1>2, <1>3, PTL DEF Spec

-----------------------------------------------------------------------------
(* Table implements RowSet.                                                *)

\* No UPDATE names a column of the schema and an unknown one together.
NoPartialUpdate ==
    \A updates \in UpdateRows :
        DOMAIN updates \subseteq Column \/ DOMAIN updates \cap Column = {}

LEMMA NotPartialIsNotMixed == NoPartialUpdate => NoMixedUpdate
BY SchemaAssumption DEF NoPartialUpdate, NoMixedUpdate, Indexed

\* RowSet's copies of the operators on rows are those of Table.
LEMMA SameOperators ==
    /\ \A n : Promise!Successor(n) = Successor(n) /\ Promise!Int64(n) = Int64(n)
    /\ \A v : Promise!IsInteger(v) <=> IsInteger(v)
    /\ \A row, updates : Promise!Assign(row, updates) = Assign(row, updates)
    /\ \A row : Promise!Valid(row) <=> Valid(row)
    /\ Promise!Indexed = Indexed
    /\ \A content : Promise!Selectable(content) = Selectable(content)
<1>1. \A n : Promise!Successor(n) = Successor(n) /\ Promise!Int64(n) = Int64(n)
  BY DEF Promise!Successor, Successor, Promise!Int64, Int64
<1>2. \A v : Promise!IsInteger(v) <=> IsInteger(v)
  BY DEF Promise!IsInteger, IsInteger
<1>3. \A row, updates : Promise!Assign(row, updates) = Assign(row, updates)
  BY DEF Promise!Assign, Assign
<1>4. \A row : Promise!Valid(row) <=> Valid(row)
  BY DEF Promise!Valid, Valid, Promise!AcceptedGo, AcceptedGo, Promise!GoType, GoType
<1>5. Promise!Indexed = Indexed
  BY DEF Promise!Indexed, Indexed
<1>6. \A content : Promise!Selectable(content) = Selectable(content)
  BY DEF Promise!Selectable, Selectable, Promise!SameToWhere, SameToWhere,
         Promise!Compared, Compared, Promise!IsNumber, IsNumber
<1> QED
  BY <1>1, <1>2, <1>3, <1>4, <1>5, <1>6

LEMMA SameAnswers ==
    /\ Promise!NoAnswer = NoAnswer /\ Promise!Ok = Ok /\ Promise!Error = Error
    /\ \A row : Promise!Refused(row) = Refused(row)
BY DEF Promise!NoAnswer, NoAnswer, Promise!Ok, Ok, Promise!Error, Error,
       Promise!Refused, Refused, Promise!Answer, Answer

LEMMA SameKeyGiven ==
    ASSUME NEW row
    PROVE  /\ Promise!Key(row) = InsertID(row)
           /\ Promise!WithKey(row) = Completed(row)
           /\ Promise!Behind(row) <=> SequenceRefuses(row)
<1>1. Promise!Key(row) = InsertID(row)
  BY SameOperators DEF Promise!Key, InsertID
<1>2. Promise!WithKey(row) = Completed(row)
  BY <1>1, SameOperators DEF Promise!WithKey, Completed
<1>3. Promise!Behind(row) <=> SequenceRefuses(row)
  BY SameOperators DEF Promise!Behind, SequenceRefuses
<1> QED
  BY <1>1, <1>2, <1>3

\* The indexes find a duplicate exactly when a row clashes.
LEMMA DuplicateIsClash ==
    ASSUME IndexExact, NEW row
    PROVE  Duplicate(row) <=> Promise!Clashes(row)
<1>1. \A c \in Indexed : DOMAIN Indexes[c] = Keys(c, Rows)
  BY DEF IndexExact
<1>2. Duplicate(row) <=> \E c \in Indexed \cap DOMAIN row : row[c] \in Keys(c, Rows)
  BY <1>1 DEF Duplicate
<1>3. ASSUME NEW c \in DOMAIN row
      PROVE  row[c] \in Keys(c, Rows)
               <=> \E s \in Content(Rows) : c \in DOMAIN s /\ s[c] = row[c]
  BY DEF Keys, Content
<1> QED
  BY <1>2, <1>3, SameOperators DEF Promise!Clashes

LEMMA PromiseInit == Init => Promise!Start
<1> SUFFICES ASSUME Init PROVE Promise!Start
  OBVIOUS
<1>1. \A c \in Indexed : \A i, j \in DOMAIN Rows :
         c \in DOMAIN Rows[i] \cap DOMAIN Rows[j] /\ Rows[i][c] = Rows[j][c] => i = j
  BY WorkloadAssumption DEF Init, Loadable, Indexable
<1>2. reply = NoAnswer
  BY DEF Init
<1> QED
  BY <1>1, <1>2, SameOperators, SameAnswers DEF Promise!Start, Content

LEMMA PromiseStep ==
    ASSUME NoPartialUpdate, TypeOK, IndexExact, [Next]_vars
    PROVE  [Promise!Step]_<<Content(Rows), LastInsertID, reply>>
<1>1. ASSUME NEW row \in InsertRows, InsertRow(row)
      PROVE  Promise!Accept(row)
  <2>1. Promise!Acceptable(row)
    BY <1>1, SameKeyGiven, SameOperators, DuplicateIsClash
    DEF InsertRow, Promise!Acceptable
  <2>2. Content(Rows') = Content(Rows) \cup {Completed(row)}
    <3>1. Rows' = Append(Rows, Completed(row))
      BY <1>1 DEF InsertRow
    <3>2. /\ DOMAIN Rows' = DOMAIN Rows \cup {Len(Rows) + 1}
          /\ Len(Rows) + 1 \notin DOMAIN Rows
          /\ Rows'[Len(Rows) + 1] = Completed(row)
          /\ \A i \in DOMAIN Rows : Rows'[i] = Rows[i]
      BY <3>1 DEF TypeOK
    <3> QED
      BY <3>2 DEF Content
  <2>3. Promise!Advance(row)
    BY <1>1, SameKeyGiven DEF InsertRow, SequenceAfter, Promise!Advance
  <2> QED
    BY <1>1, <2>1, <2>2, <2>3, SameKeyGiven, SameAnswers DEF InsertRow, Promise!Accept
<1>2. ASSUME NEW row \in InsertRows, InsertFails(row)
      PROVE  Promise!Refuse(row)
  <2>1. ~Promise!Acceptable(row)
    BY <1>2, SameKeyGiven, SameOperators, DuplicateIsClash
    DEF InsertFails, Promise!Acceptable
  <2>2. Promise!Advance(row)
    BY <1>2, SameKeyGiven DEF InsertFails, SequenceAfter, Promise!Advance
  <2> QED
    BY <1>2, <2>1, <2>2, SameAnswers DEF InsertFails, Promise!Refuse, Content
<1>3. ASSUME NEW match, NEW updates \in UpdateRows, Update(match, updates)
      PROVE  Promise!Change(match, updates)
  <2>1. Content(Rows') =
          {IF r \in match THEN Assign(r, updates) ELSE r : r \in Content(Rows)}
    BY <1>3 DEF Update, Content
  <2> QED
    BY <1>3, <2>1, SameOperators, SameAnswers DEF Update, Promise!Change
<1>4. ASSUME NEW match \in SUBSET Content(Rows), NEW updates \in UpdateRows,
             UpdateUnknown(match, updates)
      PROVE  Promise!Reject(match, updates)
  <2>1. DOMAIN updates \cap Column = {}
    BY <1>4 DEF UpdateUnknown, NoPartialUpdate
  <2>2. ASSUME NEW first \in DOMAIN Rows,
               NEW written \in SUBSET (DOMAIN updates \cap Column),
               Rows' = [i \in DOMAIN Rows |->
                          IF i = first
                          THEN Assign(Rows[i], [c \in written |-> updates[c]])
                          ELSE Rows[i]]
        PROVE  UNCHANGED Rows
    <3>1. written = {}
      BY <2>1
    <3>2. Assign(Rows[first], [c \in written |-> updates[c]]) = Rows[first]
      BY <3>1 DEF Assign, TypeOK, IsRow
    <3> QED
      BY <2>2, <3>2 DEF TypeOK
  <2>3. UNCHANGED Rows
    BY <1>4, <2>2 DEF UpdateUnknown
  <2>4. reply' = IF match = {} THEN Ok ELSE Error
    BY <1>4 DEF UpdateUnknown, Content
  <2> QED
    BY <1>4, <2>3, <2>4, SameAnswers DEF UpdateUnknown, Promise!Reject, Content
<1>5. ASSUME NEW match, Delete(match)
      PROVE  Promise!Remove(match)
  <2>1. Content(Rows') = Content(Rows) \ match
    <3>1. CASE match = {}
      BY <1>5, <3>1 DEF Delete, Content
    <3>2. CASE match # {}
      <4>1. PICK n \in 0 .. Len(Rows) : \E kept \in [1 .. n -> DOMAIN Rows] :
              /\ \A p \in DOMAIN Rows :
                    Rows[p] \notin match <=> \E i \in 1 .. n : kept[i] = p
              /\ Rows' = [i \in 1 .. n |-> Rows[kept[i]]]
        BY <1>5, <3>2 DEF Delete, Filtered
      <4>2. PICK kept \in [1 .. n -> DOMAIN Rows] :
              /\ \A p \in DOMAIN Rows :
                    Rows[p] \notin match <=> \E i \in 1 .. n : kept[i] = p
              /\ Rows' = [i \in 1 .. n |-> Rows[kept[i]]]
        BY <4>1
      <4> QED
        BY <4>2 DEF Content
    <3> QED
      BY <3>1, <3>2
  <2> QED
    BY <1>5, <2>1, SameAnswers DEF Delete, Promise!Remove
<1>6. CASE UNCHANGED vars
  BY <1>6 DEF vars, Content
<1>7. ASSUME NEW match \in Selectable(Content(Rows))
      PROVE  match \in SUBSET Content(Rows)
  BY DEF Selectable
<1> QED
  BY <1>1, <1>2, <1>3, <1>4, <1>5, <1>6, <1>7, SameOperators
  DEF Next, Promise!Step

\* Refinement: seen from the outside a table is a set of rows on which every
\* statement acts as a whole, and which alone decides what INSERT accepts.
THEOREM TableImplementsRowSet == NoPartialUpdate => (Spec => PromiseKept)
<1> SUFFICES ASSUME NoPartialUpdate PROVE Spec => PromiseKept
  OBVIOUS
<1>1. Init => TypeOK /\ IndexExact
  BY TypeInit, IndexInit
<1>2. TypeOK /\ IndexExact /\ [Next]_vars => (TypeOK /\ IndexExact)'
  BY TypeStep, IndexStep, NotPartialIsNotMixed
<1>3. TypeOK /\ IndexExact /\ [Next]_vars
        => [Promise!Step]_<<Content(Rows), LastInsertID, reply>>
  BY PromiseStep
<1> QED
  BY <1>1, <1>2, <1>3, PromiseInit, PTL DEF Spec, PromiseKept, Promise!RowSetSpec

=============================================================================
