----------------------------- MODULE QueryProofs -----------------------------
(***************************************************************************)
(* Proofs about Query and QueryMeaning.                                    *)
(***************************************************************************)
EXTENDS QueryMeaning, FiniteSetTheorems, SequenceTheorems, TLAPS

-----------------------------------------------------------------------------
(* Sequences of anything.                                                  *)

IsSequence(s) == s \in Seq(ToSet(s))

LEMMA SequenceTyped ==
    ASSUME NEW S, NEW s \in Seq(S)
    PROVE  IsSequence(s) /\ ToSet(s) \subseteq S /\ Len(s) \in Nat /\ DOMAIN s = 1 .. Len(s)
BY DEF IsSequence, ToSet

LEMMA SequenceDomain ==
    ASSUME NEW s, IsSequence(s)
    PROVE  /\ Len(s) \in Nat
           /\ DOMAIN s = 1 .. Len(s)
BY DEF IsSequence

LEMMA SequenceOfFunction ==
    ASSUME NEW n \in Nat, NEW s, s = [i \in 1 .. n |-> s[i]]
    PROVE  IsSequence(s) /\ Len(s) = n /\ DOMAIN s = 1 .. n
<1> DEFINE S == ToSet(s)
<1>1. s \in [1 .. n -> S]
  BY DEF ToSet
<1> QED
  BY <1>1 DEF IsSequence

LEMMA EmptySequence == IsSequence(<<>>) /\ ToSet(<<>>) = {} /\ DOMAIN <<>> = {}
BY DEF IsSequence, ToSet

LEMMA SequenceAppend ==
    ASSUME NEW s, NEW e, IsSequence(s)
    PROVE  /\ IsSequence(Append(s, e))
           /\ Len(Append(s, e)) = Len(s) + 1
           /\ DOMAIN Append(s, e) = 1 .. Len(s) + 1
           /\ \A i \in DOMAIN s : Append(s, e)[i] = s[i]
           /\ Append(s, e)[Len(s) + 1] = e
           /\ ToSet(Append(s, e)) = ToSet(s) \cup {e}
<1> DEFINE S == ToSet(s) \cup {e}
<1>1. s \in Seq(S)
  BY DEF IsSequence, ToSet
<1>2. /\ Append(s, e) \in Seq(S)
      /\ Len(Append(s, e)) = Len(s) + 1
      /\ DOMAIN Append(s, e) = 1 .. Len(s) + 1
      /\ \A i \in DOMAIN s : Append(s, e)[i] = s[i]
      /\ Append(s, e)[Len(s) + 1] = e
  BY <1>1
<1>3. ToSet(Append(s, e)) = S
  <2>1. S \subseteq ToSet(Append(s, e))
    BY <1>1, <1>2 DEF ToSet
  <2> QED
    BY <1>2, <2>1, SequenceTyped
<1> QED
  BY <1>2, <1>3, SequenceTyped

LEMMA SequenceTail ==
    ASSUME NEW s, IsSequence(s), s # <<>>
    PROVE  /\ IsSequence(Tail(s))
           /\ ToSet(Tail(s)) \subseteq ToSet(s)
           /\ Head(s) \in ToSet(s)
<1> DEFINE S == ToSet(s)
<1>1. s \in Seq(S) /\ Tail(s) \in Seq(S)
  BY DEF IsSequence
<1>2. Head(s) = s[1] /\ 1 \in DOMAIN s
  BY <1>1
<1>3. Head(s) \in ToSet(s)
  BY <1>2 DEF ToSet
<1> QED
  BY <1>1, <1>3, SequenceTyped

LEMMA SequenceConcat ==
    ASSUME NEW s, NEW t, IsSequence(s), IsSequence(t)
    PROVE  /\ IsSequence(s \o t)
           /\ ToSet(s \o t) = ToSet(s) \cup ToSet(t)
<1> DEFINE S == ToSet(s) \cup ToSet(t)
<1>1. s \in Seq(S) /\ t \in Seq(S)
  BY DEF IsSequence
<1>2. /\ s \o t \in Seq(S)
      /\ \A i \in DOMAIN s : i \in DOMAIN (s \o t) /\ (s \o t)[i] = s[i]
      /\ \A i \in DOMAIN t : Len(s) + i \in DOMAIN (s \o t) /\ (s \o t)[Len(s) + i] = t[i]
  BY <1>1
<1>3. S \subseteq ToSet(s \o t)
  BY <1>2 DEF ToSet
<1> QED
  BY <1>2, <1>3, SequenceTyped

-----------------------------------------------------------------------------
(* Loops over the positions of a sequence.                                 *)

LEMMA CardinalityIsNat ==
    ASSUME NEW S, IsFiniteSet(S)
    PROVE  Cardinality(S) \in Nat
BY FS_CardinalityType

\* How many members of a set are below a number.
Below(S, x) == {y \in S : y < x}
Rank(S) == [x \in S |-> Cardinality(Below(S, x))]

LEMMA RankGrows ==
    ASSUME NEW S \in SUBSET Nat, IsFiniteSet(S), NEW x \in S
    PROVE  /\ Rank(S)[x] \in 0 .. Cardinality(S) - 1
           /\ \A y \in S : y < x => Rank(S)[y] < Rank(S)[x]
<1>1. ASSUME NEW z \in S
      PROVE  IsFiniteSet(Below(S, z)) /\ Rank(S)[z] = Cardinality(Below(S, z))
  BY FS_Subset DEF Below, Rank
<1>2. ASSUME NEW T \in SUBSET S, NEW z \in S, z \notin T
      PROVE  Cardinality(T) \in Nat /\ Cardinality(T) + 1 <= Cardinality(S)
  <2>1. IsFiniteSet(T) /\ IsFiniteSet(T \cup {z}) /\ Cardinality(T \cup {z}) = Cardinality(T) + 1
    BY <1>2, FS_Subset, FS_AddElement
  <2>2. Cardinality(T \cup {z}) <= Cardinality(S)
    BY <2>1, FS_Subset
  <2> QED
    BY <2>1, <2>2, CardinalityIsNat
<1>3. Rank(S)[x] \in 0 .. Cardinality(S) - 1
  <2>1. Below(S, x) \in SUBSET S /\ x \notin Below(S, x)
    BY DEF Below
  <2>2. Cardinality(Below(S, x)) \in Nat /\ Cardinality(Below(S, x)) + 1 <= Cardinality(S)
    BY <1>2, <2>1
  <2> QED
    BY <1>1, <2>2, CardinalityIsNat
<1>4. ASSUME NEW y \in S, y < x
      PROVE  Rank(S)[y] < Rank(S)[x]
  <2>1. Below(S, y) \cup {y} \in SUBSET Below(S, x) /\ y \notin Below(S, y)
    <3>1. \A z \in S : z < y => z < x
      BY <1>4
    <3>2. ~(y < y)
      OBVIOUS
    <3> QED
      BY <1>4, <3>1, <3>2 DEF Below
  <2>2. Cardinality(Below(S, y) \cup {y}) = Cardinality(Below(S, y)) + 1
    BY <1>1, <2>1, FS_AddElement
  <2>3. Cardinality(Below(S, y) \cup {y}) <= Cardinality(Below(S, x))
    BY <1>1, <2>1, FS_Subset
  <2>4. Cardinality(Below(S, y)) \in Nat /\ Cardinality(Below(S, x)) \in Nat
    BY <1>1, CardinalityIsNat
  <2> QED
    BY <1>1, <2>2, <2>3, <2>4
<1> QED
  BY <1>3, <1>4

\* Ascending lists the set, each member once and in order.
LEMMA AscendingLists ==
    ASSUME NEW S \in SUBSET Nat, IsFiniteSet(S)
    PROVE  /\ IsSequence(Ascending(S))
           /\ DOMAIN Ascending(S) = 1 .. Cardinality(S)
           /\ Len(Ascending(S)) = Cardinality(S)
           /\ \A i \in DOMAIN Ascending(S) :
                 Ascending(S)[i] \in S /\ Rank(S)[Ascending(S)[i]] = i - 1
           /\ \A x \in S : Rank(S)[x] + 1 \in DOMAIN Ascending(S)
                           /\ Ascending(S)[Rank(S)[x] + 1] = x
<1> DEFINE n == Cardinality(S)
           R == Rank(S)
<1>1. n \in Nat
  BY CardinalityIsNat
<1>2. \A x \in S : R[x] \in 0 .. n - 1
  BY RankGrows
<1>3. \A x, y \in S : R[x] = R[y] => x = y
  <2> SUFFICES ASSUME NEW x \in S, NEW y \in S, R[x] = R[y], x # y
               PROVE  FALSE
    OBVIOUS
  <2>1. x < y \/ y < x
    OBVIOUS
  <2>2. R[x] \in Int /\ R[y] \in Int
    BY <1>1, <1>2
  <2>3. R[x] < R[y] \/ R[y] < R[x]
    BY <2>1, RankGrows
  <2> QED
    BY <2>2, <2>3
<1>4. R \in Surjection(S, 0 .. n - 1)
  <2>1. R \in Injection(S, 0 .. n - 1)
    <3>1. R \in [S -> 0 .. n - 1]
      BY <1>2 DEF Rank
    <3> QED
      BY <1>3, <3>1 DEF Injection, IsInjective
  <2>2. IsFiniteSet(0 .. n - 1) /\ Cardinality(0 .. n - 1) = n
    <3>1. 0 \in Int /\ n - 1 \in Int /\ (IF 0 > n - 1 THEN 0 ELSE n - 1 - 0 + 1) = n
      BY <1>1
    <3> HIDE DEF n
    <3> QED
      BY <3>1, FS_Interval
  <2> QED
    BY <2>1, <2>2, FS_Injection
<1>5. \A i \in 1 .. n : \E x \in S : R[x] = i - 1
  <2> TAKE i \in 1 .. n
  <2>1. i - 1 \in 0 .. n - 1
    BY <1>1
  <2> QED
    BY <1>4, <2>1 DEF Surjection
<1>6. \A x \in S : R[x] = Cardinality({y \in S : y < x})
  BY DEF Rank, Below
<1>7. \A i \in 1 .. n : Ascending(S)[i] \in S /\ R[Ascending(S)[i]] = i - 1
  <2> TAKE i \in 1 .. n
  <2>1. PICK x \in S : Cardinality({y \in S : y < x}) = i - 1
    BY <1>5, <1>6
  <2>2. Ascending(S)[i] = CHOOSE z \in S : Cardinality({y \in S : y < z}) = i - 1
    BY DEF Ascending
  <2>3. Ascending(S)[i] \in S /\ Cardinality({y \in S : y < Ascending(S)[i]}) = i - 1
    BY <2>1, <2>2
  <2> QED
    BY <1>6, <2>3
<1>8. IsSequence(Ascending(S)) /\ Len(Ascending(S)) = n /\ DOMAIN Ascending(S) = 1 .. n
  BY <1>1, SequenceOfFunction DEF Ascending
<1> HIDE DEF R
<1>9. \A x \in S : R[x] + 1 \in 1 .. n /\ Ascending(S)[R[x] + 1] = x
  <2> TAKE x \in S
  <2>1. R[x] + 1 \in 1 .. n /\ (R[x] + 1) - 1 = R[x]
    BY <1>1, <1>2
  <2>2. Ascending(S)[R[x] + 1] \in S /\ R[Ascending(S)[R[x] + 1]] = R[x]
    BY <1>7, <2>1
  <2> QED
    BY <1>3, <2>1, <2>2
<1> QED
  BY <1>7, <1>8, <1>9 DEF R

\* The loops pick elements of their sequence, and all that they mean to.
LEMMA PickedElements ==
    ASSUME NEW s, IsSequence(s), NEW positions \in SUBSET DOMAIN s
    PROVE  /\ IsSequence(ElementsAt(s, positions))
           /\ ToSet(ElementsAt(s, positions)) = {s[i] : i \in positions}
<1>1. positions \in SUBSET Nat /\ IsFiniteSet(positions)
  <2>1. Len(s) \in Nat /\ DOMAIN s = 1 .. Len(s)
    BY SequenceDomain
  <2>2. IsFiniteSet(1 .. Len(s))
    BY <2>1, FS_Interval
  <2>3. positions \subseteq 1 .. Len(s)
    BY <2>1
  <2> QED
    BY <2>2, <2>3, FS_Subset
<1>2. Cardinality(positions) \in Nat
  BY <1>1, CardinalityIsNat
<1>3. /\ IsSequence(ElementsAt(s, positions))
      /\ DOMAIN ElementsAt(s, positions) = 1 .. Cardinality(positions)
  BY <1>2, SequenceOfFunction DEF ElementsAt
<1>4. \A i \in 1 .. Cardinality(positions) :
         ElementsAt(s, positions)[i] = s[Ascending(positions)[i]]
  BY DEF ElementsAt
<1>5. /\ DOMAIN Ascending(positions) = 1 .. Cardinality(positions)
      /\ \A i \in DOMAIN Ascending(positions) : Ascending(positions)[i] \in positions
      /\ \A x \in positions : \E i \in DOMAIN Ascending(positions) : Ascending(positions)[i] = x
  BY <1>1, AscendingLists
<1>6. ToSet(ElementsAt(s, positions)) \subseteq {s[i] : i \in positions}
  BY <1>3, <1>4, <1>5 DEF ToSet
<1>7. ASSUME NEW i \in positions
      PROVE  s[i] \in ToSet(ElementsAt(s, positions))
  BY <1>3, <1>4, <1>5 DEF ToSet
<1> QED
  BY <1>3, <1>6, <1>7

-----------------------------------------------------------------------------
(* Every variable keeps its shape.                                         *)

\* The tables and the UPDATE that is under way in one of them.
TablesType ==
    /\ IsSequence(heap)
    /\ DOMAIN rows = TableName
    /\ \A t \in TableName : IsSequence(rows[t]) /\ ToSet(rows[t]) \subseteq DOMAIN heap
    /\ update = [table |-> update.table, cells |-> update.cells, todo |-> update.todo]
    /\ update = NoUpdate \/ /\ update.table \in TableName
                            /\ update.todo \subseteq (DOMAIN rows[update.table]) \X (DOMAIN update.cells)

\* Every row that a SELECT has in hand points at a row map, if it is a pointer.
Pointing == \A row \in ToSet(left) \cup ToSet(right) \cup ToSet(unmatched) \cup ToSet(out) :
                IsPointer(row)

Sequences == IsSequence(left) /\ IsSequence(right) /\ IsSequence(unmatched) /\ IsSequence(out)

\* Where the SELECT is in its plan.
Planned ==
    /\ query \in Queries
    /\ phase \in Ended \cup {"scan", "scanRight", "index", "probe", "filter", "project"}
    /\ joined \in Nat /\ joined <= Len(query.joins)
    /\ phase = "scan" => joined = 0
    /\ phase \in {"scanRight", "index", "probe"} => joined < Len(query.joins)

\* What a join has noted of its rows, and forgets when it is done.
Noted ==
    /\ \A v \in DOMAIN index : index[v] # {} /\ index[v] \subseteq DOMAIN right
    /\ matched \subseteq DOMAIN right
    /\ phase # "probe" => index = <<>> /\ matched = {}

SelectType == Planned /\ Sequences /\ Pointing /\ Noted

TypeInv == TablesType /\ SelectType

LEMMA TypeInvIsTyped == TypeInv => TypeOK
<1> SUFFICES ASSUME TypeInv
             PROVE  TypeOK
  OBVIOUS
<1>1. ToSet(left \o right \o unmatched \o out)
        = ToSet(left) \cup ToSet(right) \cup ToSet(unmatched) \cup ToSet(out)
  BY SequenceConcat DEF TypeInv, SelectType, Sequences
<1>2. \A t \in TableName : \A i \in DOMAIN rows[t] : rows[t][i] \in DOMAIN heap
  BY DEF TypeInv, TablesType, ToSet
<1> QED
  BY <1>1, <1>2 DEF TypeInv, TypeOK, TablesType, SelectType, Planned, Pointing, Noted

LEMMA JoinsAreSequences ==
    ASSUME NEW q \in Queries
    PROVE  IsSequence(q.joins) /\ Len(q.joins) \in Nat /\ q.from \in TableName
<1>1. IsSequence(q.joins) /\ q.from \in TableName
  BY QueryAssumption DEF IsQuery, IsSequence
<1> QED
  BY <1>1, SequenceDomain

LEMMA SeedsTyped ==
    /\ IsSequence(SeedHeap)
    /\ DOMAIN SeedTables = TableName
    /\ \A t \in TableName : IsSequence(SeedTables[t]) /\ ToSet(SeedTables[t]) \subseteq DOMAIN SeedHeap
BY QueryAssumption DEF IsSequence, ToSet

LEMMA TypeInit == Init => TypeInv
<1> SUFFICES ASSUME Init
             PROVE  TypeInv
  OBVIOUS
<1>1. TablesType
  BY SeedsTyped DEF Init, TablesType, NoUpdate
<1>2. query \in Queries
  BY QueryAssumption DEF Init
<1>3. Planned
  BY <1>2, JoinsAreSequences DEF Init, Planned, Ended
<1>4. Sequences /\ Pointing /\ Noted
  BY EmptySequence DEF Init, Sequences, Pointing, Noted
<1> QED
  BY <1>1, <1>3, <1>4 DEF TypeInv, SelectType

\* The statements that write leave the SELECT alone, and every row map where
\* it is.
Writing ==
    \/ \E t \in TableName :
        \/ \E cells \in InsertCells[t] : Insert(t, cells)
        \/ \E where \in Condition : Delete(t, where)
        \/ \E where \in Condition, cells \in UpdateCells[t] : UpdateBegin(t, where, cells)
    \/ UpdateStep

Undisturbed == DOMAIN heap \subseteq DOMAIN heap' /\ UNCHANGED select

LEMMA InsertTyped ==
    ASSUME TablesType, NEW t \in TableName, NEW cells, Insert(t, cells)
    PROVE  TablesType' /\ Undisturbed
<1>1. PICK row : heap' = Append(heap, row)
  BY DEF Insert
<1>2. /\ IsSequence(heap')
      /\ DOMAIN heap' = 1 .. Len(heap) + 1
      /\ DOMAIN heap = 1 .. Len(heap)
      /\ Len(heap) \in Nat /\ Len(heap') = Len(heap) + 1
  BY <1>1, SequenceAppend, SequenceDomain DEF TablesType
<1>3. rows' = [rows EXCEPT ![t] = Append(@, Len(heap'))] /\ update' = update /\ UNCHANGED select
  BY DEF Insert
<1>4. \A u \in TableName : IsSequence(rows'[u]) /\ ToSet(rows'[u]) \subseteq DOMAIN heap'
  <2> TAKE u \in TableName
  <2>1. CASE u = t
    <3>1. rows'[t] = Append(rows[t], Len(heap'))
      BY <1>3 DEF TablesType
    <3>2. IsSequence(rows[t]) /\ ToSet(rows[t]) \subseteq DOMAIN heap
      BY DEF TablesType
    <3>3. IsSequence(rows'[t]) /\ ToSet(rows'[t]) = ToSet(rows[t]) \cup {Len(heap')}
      BY <3>1, <3>2, SequenceAppend
    <3> QED
      BY <1>2, <2>1, <3>2, <3>3
  <2>2. CASE u # t
    BY <1>2, <1>3, <2>2 DEF TablesType
  <2> QED
    BY <2>1, <2>2
<1>5. update = NoUpdate \/ rows'[update.table] = rows[update.table]
  BY <1>3 DEF Insert, MayWrite, Locked, TablesType
<1>6. DOMAIN rows' = TableName
  BY <1>3 DEF TablesType
<1> QED
  BY <1>2, <1>3, <1>4, <1>5, <1>6 DEF TablesType, Undisturbed

LEMMA DeleteTyped ==
    ASSUME TablesType, NEW t \in TableName, NEW where, Delete(t, where)
    PROVE  TablesType' /\ Undisturbed
<1>1. PICK positions \in SUBSET DOMAIN rows[t] :
         rows' = [rows EXCEPT ![t] = ElementsAt(@, positions)]
  BY DEF Delete
<1>2. heap' = heap /\ update' = update /\ UNCHANGED select
  BY DEF Delete
<1>3. \A u \in TableName : IsSequence(rows'[u]) /\ ToSet(rows'[u]) \subseteq DOMAIN heap'
  <2> TAKE u \in TableName
  <2>1. CASE u = t
    <3>1. rows'[t] = ElementsAt(rows[t], positions)
      BY <1>1 DEF TablesType
    <3>2. IsSequence(rows[t]) /\ ToSet(rows[t]) \subseteq DOMAIN heap
      BY DEF TablesType
    <3>3. IsSequence(rows'[t]) /\ ToSet(rows'[t]) = {rows[t][i] : i \in positions}
      BY <3>1, <3>2, PickedElements
    <3> QED
      BY <1>2, <2>1, <3>2, <3>3 DEF ToSet
  <2>2. CASE u # t
    BY <1>1, <1>2, <2>2 DEF TablesType
  <2> QED
    BY <2>1, <2>2
<1>4. update = NoUpdate \/ rows'[update.table] = rows[update.table]
  BY <1>1 DEF Delete, MayWrite, Locked, TablesType
<1>5. DOMAIN rows' = TableName
  BY <1>1 DEF TablesType
<1> QED
  BY <1>2, <1>3, <1>4, <1>5 DEF TablesType, Undisturbed

LEMMA UpdateBeginTyped ==
    ASSUME TablesType, NEW t \in TableName, NEW where, NEW cells, UpdateBegin(t, where, cells)
    PROVE  TablesType' /\ Undisturbed
<1>1. PICK hit \in SUBSET DOMAIN rows[t] :
         update' = [table |-> t, cells |-> cells, todo |-> hit \X (DOMAIN cells)]
  BY DEF UpdateBegin
<1>2. heap' = heap /\ rows' = rows /\ UNCHANGED select
  BY DEF UpdateBegin
<1> QED
  BY <1>1, <1>2 DEF TablesType, Undisturbed

LEMMA WriteCellTyped ==
    ASSUME TablesType, NEW cell \in update.todo, WriteCell(cell)
    PROVE  TablesType' /\ Undisturbed
<1>1. PICK p, map : heap' = [heap EXCEPT ![p] = map]
  BY DEF WriteCell
<1>2. DOMAIN heap' = DOMAIN heap /\ IsSequence(heap')
  <2>1. heap' = [i \in 1 .. Len(heap) |-> heap'[i]] /\ Len(heap) \in Nat
    BY <1>1, SequenceDomain DEF TablesType
  <2> QED
    BY <1>1, <2>1, SequenceOfFunction
<1>3. /\ update' = [table |-> update.table, cells |-> update.cells, todo |-> update.todo \ {cell}]
      /\ rows' = rows /\ UNCHANGED select
  BY DEF WriteCell, TablesType
<1>4. update # NoUpdate
  <2>1. NoUpdate.todo = {}
    BY DEF NoUpdate
  <2> QED
    BY <2>1
<1> QED
  BY <1>2, <1>3, <1>4 DEF TablesType, Undisturbed

LEMMA WritingTyped ==
    ASSUME TablesType, Writing
    PROVE  TablesType' /\ Undisturbed
<1>1. ASSUME UpdateEnd
      PROVE  TablesType' /\ Undisturbed
  BY <1>1 DEF UpdateEnd, Unlocked, NoUpdate, TablesType, Undisturbed
<1> QED
  BY <1>1, InsertTyped, DeleteTyped, UpdateBeginTyped, WriteCellTyped DEF Writing, UpdateStep

LEMMA UndisturbedTyped ==
    ASSUME SelectType, Undisturbed
    PROVE  SelectType'
<1>1. Planned' /\ Sequences' /\ Noted'
  BY DEF SelectType, Undisturbed, Planned, Sequences, Noted, select, joining
<1>2. Pointing'
  BY DEF SelectType, Undisturbed, Pointing, IsPointer, select, joining
<1> QED
  BY <1>1, <1>2 DEF SelectType

LEMMA PointersTyped ==
    ASSUME NEW s, IsSequence(s)
    PROVE  /\ IsSequence(Pointers(s))
           /\ DOMAIN Pointers(s) = DOMAIN s
           /\ \A row \in ToSet(Pointers(s)) : \E p \in ToSet(s) : row = Shared(p)
<1>1. Len(s) \in Nat /\ DOMAIN s = 1 .. Len(s)
  BY SequenceDomain
<1>2. IsSequence(Pointers(s)) /\ DOMAIN Pointers(s) = DOMAIN s
  BY <1>1, SequenceOfFunction DEF Pointers
<1> QED
  BY <1>2 DEF Pointers, ToSet

LEMMA SharedIsPointer ==
    ASSUME NEW p \in DOMAIN heap
    PROVE  IsPointer(Shared(p))
BY DEF IsPointer, Shared

LEMMA OwnIsPointer ==
    ASSUME NEW map
    PROVE  IsPointer(Own(map))
BY DEF IsPointer, Own

LEMMA ScanTyped ==
    ASSUME TypeInv, ScanLeft \/ ScanRight
    PROVE  SelectType'
<1>1. heap' = heap
  BY DEF ScanLeft, ScanRight, tables
<1>2. query.from \in TableName /\ Len(query.joins) \in Nat /\ IsSequence(query.joins)
  BY JoinsAreSequences DEF TypeInv, SelectType, Planned
<1>3. ASSUME ScanLeft
      PROVE  SelectType'
  <2>1. PICK positions \in SUBSET DOMAIN rows[query.from] :
           \/ left' = Pointers(ElementsAt(rows[query.from], positions))
           \/ left' = Pointers(rows[query.from])
    BY <1>3 DEF ScanLeft
  <2>2. IsSequence(rows[query.from]) /\ ToSet(rows[query.from]) \subseteq DOMAIN heap
    BY <1>2 DEF TypeInv, TablesType
  <2>3. /\ IsSequence(ElementsAt(rows[query.from], positions))
        /\ ToSet(ElementsAt(rows[query.from], positions)) \subseteq ToSet(rows[query.from])
    BY <2>2, PickedElements DEF ToSet
  <2>4. IsSequence(left') /\ \A row \in ToSet(left') : IsPointer(row)
    BY <2>1, <2>2, <2>3, PointersTyped, SharedIsPointer
  <2>5. /\ phase' = IF query.joins = <<>> THEN "filter" ELSE "scanRight"
        /\ joined = 0
        /\ UNCHANGED <<query, joined, right, index, matched, unmatched, out>>
    BY <1>3 DEF ScanLeft, joining, TypeInv, SelectType, Planned
  <2>6. query.joins # <<>> => Len(query.joins) > 0
    BY <1>2, EmptySequence DEF IsSequence
  <2>7. Planned'
    BY <1>2, <2>5, <2>6 DEF TypeInv, SelectType, Planned, Ended
  <2>8. Sequences' /\ Pointing'
    BY <1>1, <2>4, <2>5 DEF TypeInv, SelectType, Sequences, Pointing, IsPointer
  <2>9. phase = "scan"
    BY <1>3 DEF ScanLeft
  <2>10. Noted'
    BY <2>5, <2>9 DEF TypeInv, SelectType, Noted
  <2> QED
    BY <2>7, <2>8, <2>10 DEF SelectType
<1>4. ASSUME ScanRight
      PROVE  SelectType'
  <2>1. Join.table \in TableName
    <3>1. query \in Queries /\ joined + 1 \in DOMAIN query.joins
      BY <1>2, <1>4, SequenceDomain DEF ScanRight, TypeInv, SelectType, Planned
    <3> QED
      BY <3>1, QueryAssumption DEF IsQuery, Join
  <2>2. right' = Pointers(rows[Join.table])
    BY <1>4 DEF ScanRight
  <2>3. IsSequence(right') /\ \A row \in ToSet(right') : IsPointer(row)
    BY <2>1, <2>2, PointersTyped, SharedIsPointer DEF TypeInv, TablesType
  <2>4. Planned' /\ UNCHANGED <<left, index, matched, unmatched, out>>
    BY <1>4 DEF ScanRight, TypeInv, SelectType, Planned, Ended
  <2>5. Noted'
    BY <1>4, <2>4, EmptySequence DEF ScanRight, TypeInv, SelectType, Noted
  <2>6. Sequences' /\ Pointing'
    BY <1>1, <2>3, <2>4 DEF SelectType, TypeInv, Sequences, Pointing, IsPointer
  <2> QED
    BY <2>4, <2>5, <2>6 DEF SelectType
<1> QED
  BY <1>3, <1>4

LEMMA JoinTyped ==
    ASSUME TypeInv, JoinStep
    PROVE  SelectType'
<1>1. heap' = heap /\ query' = query /\ \A row : IsPointer(row)' <=> IsPointer(row)
  BY DEF JoinStep, BuildIndex, ProbeRow, AddUnmatched, tables, IsPointer
<1>2. Planned /\ Sequences /\ Pointing /\ Noted
  BY DEF TypeInv, SelectType
<1>3. ASSUME BuildIndex
      PROVE  SelectType'
  <2>1. Planned'
    BY <1>2, <1>3 DEF BuildIndex, Planned, Ended
  <2>2. Sequences' /\ Pointing'
    BY <1>1, <1>2, <1>3, EmptySequence DEF BuildIndex, Sequences, Pointing
  <2>3. UNCHANGED right /\ matched' = {}
    BY <1>3 DEF BuildIndex
  <2>4. \A v \in DOMAIN index' : index'[v] # {} /\ index'[v] \subseteq DOMAIN right
    <3>1. CASE index' = index
      BY <1>2, <3>1 DEF Noted
    <3>2. CASE index' = [v \in UNION {ValueIn(right[i], RightColumn) : i \in DOMAIN right} |->
                            {i \in DOMAIN right : v \in ValueIn(right[i], RightColumn)}]
      BY <3>2
    <3> QED
      BY <1>3, <3>1, <3>2 DEF BuildIndex
  <2>5. phase' # "probe" => index' = <<>>
    BY <1>2, <1>3 DEF BuildIndex, Noted
  <2> QED
    BY <2>1, <2>2, <2>3, <2>4, <2>5 DEF SelectType, Noted
<1>4. ASSUME ProbeRow
      PROVE  SelectType'
  <2>1. PICK found \in SUBSET DOMAIN right :
           /\ out' = out \o [i \in DOMAIN Ascending(found) |->
                               Combined(Head(left), right[Ascending(found)[i]])]
           /\ matched' = matched \cup found
           /\ unmatched' = IF found = {} THEN Append(unmatched, Head(left)) ELSE unmatched
    <3> DEFINE hits == UNION {index[v] : v \in ValueIn(Head(left), LeftColumn) \cap DOMAIN index}
    <3>1. hits \in SUBSET DOMAIN right
      BY <1>2 DEF Noted
    <3> QED
      BY <1>4, <3>1 DEF ProbeRow
  <2> DEFINE order == Ascending(found)
             new == [i \in DOMAIN order |-> Combined(Head(left), right[order[i]])]
  <2>2. IsSequence(new) /\ \A row \in ToSet(new) : IsPointer(row)
    <3>1. found \in SUBSET Nat /\ IsFiniteSet(found)
      <4>1. Len(right) \in Nat /\ DOMAIN right = 1 .. Len(right)
        BY <1>2, SequenceDomain DEF Sequences
      <4>2. IsFiniteSet(1 .. Len(right)) /\ 1 .. Len(right) \subseteq Nat
        BY <4>1, FS_Interval
      <4>3. found \in SUBSET (1 .. Len(right))
        BY <4>1
      <4> QED
        BY <4>2, <4>3, FS_Subset
    <3>2. DOMAIN order = 1 .. Cardinality(found) /\ Cardinality(found) \in Nat
      BY <3>1, AscendingLists, CardinalityIsNat
    <3>3. IsSequence(new) /\ DOMAIN new = DOMAIN order
      BY <3>2, SequenceOfFunction
    <3>4. \A i \in DOMAIN order : IsPointer(new[i])
      BY OwnIsPointer DEF Combined
    <3> QED
      BY <3>3, <3>4 DEF ToSet
  <2>3. IsSequence(out') /\ ToSet(out') = ToSet(out) \cup ToSet(new)
    BY <1>2, <2>1, <2>2, SequenceConcat DEF Sequences
  <2> HIDE DEF new
  <2>4. left' = Tail(left) /\ left # <<>> /\ UNCHANGED <<phase, joined, right, index>>
    BY <1>4 DEF ProbeRow
  <2>5. IsSequence(left') /\ ToSet(left') \subseteq ToSet(left) /\ Head(left) \in ToSet(left)
    BY <1>2, <2>4, SequenceTail DEF Sequences
  <2>6. IsSequence(unmatched') /\ ToSet(unmatched') \subseteq ToSet(unmatched) \cup {Head(left)}
    BY <1>2, <2>1, SequenceAppend DEF Sequences
  <2>7. Sequences'
    BY <1>2, <2>3, <2>4, <2>5, <2>6 DEF Sequences
  <2>8. Pointing'
    BY <1>1, <1>2, <2>2, <2>3, <2>4, <2>5, <2>6 DEF Pointing
  <2>9. Planned' /\ Noted'
    BY <1>1, <1>2, <1>4, <2>1, <2>4 DEF ProbeRow, Planned, Noted, Ended
  <2> QED
    BY <2>7, <2>8, <2>9 DEF SelectType
<1>5. ASSUME AddUnmatched
      PROVE  SelectType'
  <2>1. PICK lefts, rights :
           /\ lefts = [i \in DOMAIN unmatched |-> WithoutRight(unmatched[i])] \/ lefts = <<>>
           /\ rights = [i \in DOMAIN Lonely |-> WithoutLeft(right[Lonely[i]])] \/ rights = <<>>
           /\ left' = out \o lefts \o rights
    BY <1>5 DEF AddUnmatched
  <2>2. IsSequence(lefts) /\ \A row \in ToSet(lefts) : IsPointer(row)
    <3>1. CASE lefts = <<>>
      BY <3>1, EmptySequence
    <3>2. CASE lefts = [i \in DOMAIN unmatched |-> WithoutRight(unmatched[i])]
      <4>1. Len(unmatched) \in Nat /\ DOMAIN unmatched = 1 .. Len(unmatched)
        BY <1>2, SequenceDomain DEF Sequences
      <4>2. IsSequence(lefts) /\ DOMAIN lefts = DOMAIN unmatched
        BY <3>2, <4>1, SequenceOfFunction
      <4>3. \A i \in DOMAIN unmatched : IsPointer(lefts[i])
        BY <3>2, OwnIsPointer DEF WithoutRight
      <4> QED
        BY <4>2, <4>3 DEF ToSet
    <3> QED
      BY <2>1, <3>1, <3>2
  <2>3. IsSequence(rights) /\ \A row \in ToSet(rights) : IsPointer(row)
    <3>1. CASE rights = <<>>
      BY <3>1, EmptySequence
    <3>2. CASE rights = [i \in DOMAIN Lonely |-> WithoutLeft(right[Lonely[i]])]
      <4>1. DOMAIN right \ matched \in SUBSET Nat /\ IsFiniteSet(DOMAIN right \ matched)
        <5>1. Len(right) \in Nat /\ DOMAIN right = 1 .. Len(right)
          BY <1>2, SequenceDomain DEF Sequences
        <5>2. IsFiniteSet(DOMAIN right) /\ DOMAIN right \subseteq Nat
          BY <5>1, FS_Interval
        <5> QED
          BY <5>2, FS_Subset
      <4>2. Len(Lonely) \in Nat /\ DOMAIN Lonely = 1 .. Len(Lonely)
        BY <4>1, AscendingLists, SequenceDomain DEF Lonely
      <4>3. IsSequence(rights) /\ DOMAIN rights = DOMAIN Lonely
        BY <3>2, <4>2, SequenceOfFunction
      <4>4. \A i \in DOMAIN Lonely : IsPointer(rights[i])
        BY <3>2, OwnIsPointer DEF WithoutLeft
      <4> QED
        BY <4>3, <4>4 DEF ToSet
    <3> QED
      BY <2>1, <3>1, <3>2
  <2>4. IsSequence(left') /\ ToSet(left') = ToSet(out) \cup ToSet(lefts) \cup ToSet(rights)
    BY <1>2, <2>1, <2>2, <2>3, SequenceConcat DEF Sequences
  <2>5. /\ right' = <<>> /\ index' = <<>> /\ matched' = {} /\ unmatched' = <<>> /\ out' = <<>>
        /\ phase = "probe"
        /\ joined' = joined + 1
        /\ phase' = IF joined + 1 < Len(query.joins) THEN "scanRight" ELSE "filter"
    BY <1>5 DEF AddUnmatched
  <2>6. Sequences' /\ Pointing'
    BY <1>1, <1>2, <2>2, <2>3, <2>4, <2>5, EmptySequence DEF Sequences, Pointing
  <2>7. Noted'
    BY <2>5, EmptySequence DEF Noted
  <2>8. Len(query.joins) \in Nat
    BY <1>2, JoinsAreSequences DEF Planned
  <2>9. Planned'
    BY <1>1, <1>2, <2>5, <2>8 DEF Planned, Ended
  <2> QED
    BY <2>6, <2>7, <2>9 DEF SelectType
<1> QED
  BY <1>3, <1>4, <1>5 DEF JoinStep

LEMMA SelectStepTyped ==
    ASSUME TypeInv, SelectStep
    PROVE  SelectType'
<1>1. /\ \A row : IsPointer(row)' <=> IsPointer(row)
      /\ UNCHANGED <<query, joined, right, index, matched, unmatched>>
      /\ phase \in {"filter", "project"} /\ phase' \in {"filter", "project", "done"}
  BY DEF SelectStep, FilterRow, Filtered, ProjectRow, Projected, tables, joining, IsPointer
<1>2. Planned /\ Sequences /\ Pointing /\ Noted
  BY DEF TypeInv, SelectType
<1>3. Planned' /\ Noted'
  BY <1>1, <1>2 DEF Planned, Noted, Ended
<1>4. ASSUME FilterRow \/ ProjectRow
      PROVE  Sequences' /\ Pointing'
  <2>1. left' = Tail(left) /\ left # <<>>
    BY <1>4 DEF FilterRow, ProjectRow
  <2>2. IsSequence(left') /\ ToSet(left') \subseteq ToSet(left) /\ Head(left) \in ToSet(left)
    BY <1>2, <2>1, SequenceTail DEF Sequences
  <2>3. \/ out' = out
        \/ \E row : out' = Append(out, row) /\ IsPointer(row)
    BY <1>2, <1>4, <2>2, OwnIsPointer DEF FilterRow, ProjectRow, Pointing
  <2>4. IsSequence(out') /\ \A row \in ToSet(out') : IsPointer(row)
    <3>1. CASE out' = out
      BY <1>2, <3>1 DEF Sequences, Pointing
    <3>2. ASSUME NEW row, out' = Append(out, row), IsPointer(row)
          PROVE  IsSequence(out') /\ \A other \in ToSet(out') : IsPointer(other)
      <4>1. IsSequence(out') /\ ToSet(out') = ToSet(out) \cup {row}
        BY <1>2, <3>2, SequenceAppend DEF Sequences
      <4> QED
        BY <1>2, <3>2, <4>1 DEF Pointing
    <3> QED
      BY <2>3, <3>1, <3>2
  <2> QED
    BY <1>1, <1>2, <2>2, <2>4 DEF Sequences, Pointing
<1>5. ASSUME Filtered \/ Projected
      PROVE  Sequences' /\ Pointing'
  <2>1. (left' = out /\ out' = <<>>) \/ (left' = left /\ out' = out)
    BY <1>5 DEF Filtered, Projected
  <2> QED
    BY <1>1, <1>2, <2>1, EmptySequence DEF Sequences, Pointing
<1> QED
  BY <1>3, <1>4, <1>5 DEF SelectStep, SelectType

LEMMA TypeStep ==
    ASSUME TypeInv, [Next]_vars
    PROVE  TypeInv'
<1>1. ASSUME Writing
      PROVE  TypeInv'
  BY <1>1, WritingTyped, UndisturbedTyped DEF TypeInv
<1>2. ASSUME UNCHANGED tables
      PROVE  TablesType'
  BY <1>2 DEF TypeInv, TablesType, tables
<1>3. ASSUME NEW q \in Queries, Begin(q)
      PROVE  TypeInv'
  <2>1. UNCHANGED <<tables, joining>> /\ phase \in Ended
    BY <1>3 DEF Begin
  <2>2. /\ query' \in Queries /\ phase' = "scan" /\ joined' = 0
        /\ left' = <<>> /\ out' = <<>> /\ heap' = heap
        /\ UNCHANGED <<right, index, matched, unmatched>>
    BY <1>3 DEF Begin, tables, joining
  <2>3. Len(query'.joins) \in Nat
    BY <2>2, JoinsAreSequences
  <2>4. Planned' /\ Sequences' /\ Pointing' /\ Noted'
    BY <2>1, <2>2, <2>3, EmptySequence
    DEF TypeInv, SelectType, Planned, Sequences, Pointing, Noted, IsPointer, Ended
  <2> QED
    BY <1>2, <2>1, <2>4 DEF TypeInv, SelectType
<1>4. ASSUME ScanLeft \/ ScanRight \/ JoinStep \/ SelectStep
      PROVE  TypeInv'
  <2>1. UNCHANGED tables
    BY <1>4 DEF ScanLeft, ScanRight, JoinStep, BuildIndex, ProbeRow, AddUnmatched,
                SelectStep, FilterRow, Filtered, ProjectRow, Projected
  <2> QED
    BY <1>2, <1>4, <2>1, ScanTyped, JoinTyped, SelectStepTyped DEF TypeInv
<1>5. ASSUME Fault
      PROVE  TypeInv'
  <2>1. /\ heap' = SeedHeap /\ rows' = SeedTables /\ update' = NoUpdate
        /\ phase' = "lost" /\ UNCHANGED <<query, joined>>
        /\ left' = <<>> /\ out' = <<>>
        /\ right' = <<>> /\ index' = <<>> /\ matched' = {} /\ unmatched' = <<>>
    BY <1>5 DEF Fault
  <2>2. TablesType'
    BY <2>1, SeedsTyped DEF TablesType, NoUpdate
  <2>3. Planned' /\ Sequences' /\ Pointing' /\ Noted'
    BY <2>1, EmptySequence
    DEF TypeInv, SelectType, Planned, Sequences, Pointing, Noted, Ended
  <2> QED
    BY <2>2, <2>3 DEF TypeInv, SelectType
<1>6. ASSUME UNCHANGED vars
      PROVE  TypeInv'
  <2>1. UNCHANGED tables /\ UNCHANGED select /\ heap' = heap
    BY <1>6 DEF vars, tables
  <2> QED
    BY <1>2, <2>1, UndisturbedTyped DEF Undisturbed, TypeInv
<1> QED
  BY <1>1, <1>3, <1>4, <1>5, <1>6 DEF Next, Writing

\* Whatever other sessions insert, update and delete while a SELECT is under way,
\* the rows it holds point at row maps, the index of its join at rows on the
\* right, and the UPDATE that has begun still finds the rows it picked.
THEOREM SelectTypeCorrect == Spec => []TypeOK
<1>1. TypeInv /\ [Next]_vars => TypeInv'
  BY TypeStep
<1> QED
  BY <1>1, TypeInit, TypeInvIsTyped, PTL DEF Spec

-----------------------------------------------------------------------------
(* The cells of a row map were all written for its row.                    *)

Id(map) == map[<<PrimaryKey>>].n

\* Of these versions, one of the row with this id had this value in the column.
Existed(past, id, key, value) ==
    \E v \in past : Id(v) = id /\ key \in DOMAIN v /\ v[key] = value

\* Cells have bare names, and there is no literal for nil.
PlainCells(map) == \A k \in DOMAIN map : k = <<k[1]>> /\ map[k] # Null

PlainRow(map) == PlainCells(map) /\ <<PrimaryKey>> \in DOMAIN map /\ Id(map) # 0

\* What was loaded has its ids, and no UPDATE assigns one.
PlainWrites ==
    /\ \A i \in DOMAIN SeedHeap : PlainRow(SeedHeap[i])
    /\ \A t \in TableName :
          /\ \A cells \in InsertCells[t] : PlainCells(cells)
          /\ \A cells \in UpdateCells[t] : PlainCells(cells) /\ <<PrimaryKey>> \notin DOMAIN cells

\* Every cell of the map was at some time in the row with its id.
Kept(past, map) == PlainRow(map) /\ \A k \in DOMAIN map : Existed(past, Id(map), k, map[k])

\* Halfway through an UPDATE a row map is a mixture of two versions of its row,
\* and what is still to be written to it belongs to the later one.
RowsKept ==
    /\ ToSet(SeedHeap) \subseteq versions
    /\ \A v \in versions : PlainRow(v)
    /\ \A p \in DOMAIN heap : Kept(versions, heap[p])
    /\ \A cell \in update.todo :
          /\ cell[2] # <<PrimaryKey>>
          /\ Existed(versions, Id(heap[rows[update.table][cell[1]]]), cell[2], update.cells[cell[2]])

\* Row maps neither go away nor change their ids, and no version is forgotten.
RowsStay ==
    /\ versions \subseteq versions'
    /\ \A p \in DOMAIN heap : p \in DOMAIN heap' /\ Id(heap'[p]) = Id(heap[p])

LEMMA VersionIsKept ==
    ASSUME NEW past, NEW v \in past, PlainRow(v)
    PROVE  Kept(past, v)
BY DEF Kept, Existed

LEMMA KeptStays ==
    ASSUME NEW past, NEW map, Kept(past, map), NEW now, past \subseteq now
    PROVE  Kept(now, map)
BY DEF Kept, Existed

LEMMA AssignedPlain ==
    ASSUME NEW map, PlainRow(map), NEW cells, PlainCells(cells), <<PrimaryKey>> \notin DOMAIN cells
    PROVE  /\ PlainRow(Assigned(map, cells)) /\ Id(Assigned(map, cells)) = Id(map)
           /\ DOMAIN Assigned(map, cells) = DOMAIN map \cup DOMAIN cells
           /\ \A k \in DOMAIN cells : Assigned(map, cells)[k] = cells[k]
           /\ \A k \in DOMAIN map \ DOMAIN cells : Assigned(map, cells)[k] = map[k]
<1>1. /\ DOMAIN Assigned(map, cells) = DOMAIN map \cup DOMAIN cells
      /\ \A k \in DOMAIN cells : Assigned(map, cells)[k] = cells[k]
      /\ \A k \in DOMAIN map \ DOMAIN cells : Assigned(map, cells)[k] = map[k]
  BY DEF Assigned
<1>2. Id(Assigned(map, cells)) = Id(map)
  BY <1>1 DEF Id, PlainRow
<1> QED
  BY <1>1, <1>2 DEF PlainRow, PlainCells

LEMMA InsertedPlain ==
    ASSUME NEW cells, PlainCells(cells), NEW n \in Nat \ {0}
    PROVE  PlainRow(Assigned(cells, [k \in {<<PrimaryKey>>} |-> Int64(n)]))
<1> DEFINE row == Assigned(cells, [k \in {<<PrimaryKey>>} |-> Int64(n)])
<1>1. /\ DOMAIN row = DOMAIN cells \cup {<<PrimaryKey>>}
      /\ row[<<PrimaryKey>>] = Int64(n)
      /\ \A k \in DOMAIN cells : k = <<PrimaryKey>> \/ row[k] = cells[k]
  BY DEF Assigned
<1>2. Int64(n).n = n /\ Int64(n) # Null
  BY DEF Int64, Null
<1>3. \A k \in DOMAIN row : k = <<k[1]>> /\ row[k] # Null
  BY <1>1, <1>2 DEF PlainCells
<1> HIDE DEF row
<1> QED
  BY <1>1, <1>2, <1>3 DEF row, PlainRow, PlainCells, Id

LEMMA KeptInit ==
    ASSUME PlainWrites, Init
    PROVE  RowsKept
<1>1. versions = ToSet(SeedHeap) /\ heap = SeedHeap /\ update.todo = {}
  BY DEF Init, NoUpdate
<1>2. \A v \in versions : PlainRow(v)
  BY <1>1 DEF PlainWrites, ToSet
<1>3. \A p \in DOMAIN heap : heap[p] \in versions
  BY <1>1 DEF ToSet
<1> QED
  BY <1>1, <1>2, <1>3, VersionIsKept DEF RowsKept

\* The rows that an UPDATE has picked are where they were.
LEMMA PickedStay ==
    ASSUME TypeInv, NEW cell \in update.todo
    PROVE  /\ update # NoUpdate
           /\ cell[1] \in DOMAIN rows[update.table]
           /\ rows[update.table][cell[1]] \in DOMAIN heap
<1>1. update # NoUpdate
  <2>1. NoUpdate.todo = {}
    BY DEF NoUpdate
  <2> QED
    BY <2>1
<1> QED
  BY <1>1 DEF TypeInv, TablesType, ToSet

\* What a statement keeps that does not touch the UPDATE.
LEMMA OthersKept ==
    ASSUME TypeInv, RowsKept, RowsStay, update' = update,
           update # NoUpdate => \A i \in DOMAIN rows[update.table] :
                                    rows'[update.table][i] = rows[update.table][i]
    PROVE  \A cell \in update'.todo :
              /\ cell[2] # <<PrimaryKey>>
              /\ Existed(versions', Id(heap'[rows'[update'.table][cell[1]]]), cell[2],
                         update'.cells[cell[2]])
<1> SUFFICES ASSUME NEW cell \in update.todo
             PROVE  /\ cell[2] # <<PrimaryKey>>
                    /\ Existed(versions', Id(heap'[rows'[update.table][cell[1]]]), cell[2],
                               update.cells[cell[2]])
  OBVIOUS
<1>1. rows'[update.table][cell[1]] = rows[update.table][cell[1]]
  BY PickedStay
<1>2. Id(heap'[rows'[update.table][cell[1]]]) = Id(heap[rows[update.table][cell[1]]])
  BY <1>1, PickedStay DEF RowsStay
<1> QED
  BY <1>2 DEF RowsKept, RowsStay, Existed

LEMMA InsertKept ==
    ASSUME PlainWrites, TypeInv, RowsKept,
           NEW t \in TableName, NEW cells \in InsertCells[t], Insert(t, cells)
    PROVE  RowsKept' /\ RowsStay
<1>1. Len(heap) \in Nat /\ DOMAIN heap = 1 .. Len(heap) /\ IsSequence(heap)
  BY SequenceDomain DEF TypeInv, TablesType
<1>2. PICK row : /\ row = Assigned(cells, [k \in {<<PrimaryKey>>} |-> Int64(Len(heap) + 1)])
                 /\ heap' = Append(heap, row) /\ versions' = versions \cup {row}
  BY DEF Insert
<1>3. update' = update /\ rows' = [rows EXCEPT ![t] = Append(@, Len(heap'))]
  BY DEF Insert
<1>4. PlainRow(row)
  <2>1. Len(heap) + 1 \in Nat \ {0} /\ PlainCells(cells)
    BY <1>1 DEF PlainWrites
  <2> QED
    BY <1>2, <2>1, InsertedPlain
<1>5. /\ DOMAIN heap' = DOMAIN heap \cup {Len(heap) + 1}
      /\ \A p \in DOMAIN heap : heap'[p] = heap[p]
      /\ heap'[Len(heap) + 1] = row
  <2>1. 1 .. Len(heap) + 1 = (1 .. Len(heap)) \cup {Len(heap) + 1}
    BY <1>1
  <2> QED
    BY <1>1, <1>2, <2>1, SequenceAppend
<1>6. \A v \in versions' : PlainRow(v)
  BY <1>2, <1>4 DEF RowsKept
<1>7. \A p \in DOMAIN heap' : Kept(versions', heap'[p])
  BY <1>2, <1>4, <1>5, KeptStays, VersionIsKept DEF RowsKept
<1>8. RowsStay
  BY <1>2, <1>5 DEF RowsStay
<1>9. update # NoUpdate => rows'[update.table] = rows[update.table]
  BY <1>3 DEF Insert, MayWrite, Locked, TypeInv, TablesType
<1> QED
  BY <1>2, <1>3, <1>6, <1>7, <1>8, <1>9, OthersKept DEF RowsKept

LEMMA DeleteKept ==
    ASSUME TypeInv, RowsKept, NEW t \in TableName, NEW where, Delete(t, where)
    PROVE  RowsKept' /\ RowsStay
<1>1. UNCHANGED <<heap, update, versions>>
  BY DEF Delete
<1>2. RowsStay
  BY <1>1 DEF RowsStay
<1>3. update # NoUpdate => rows'[update.table] = rows[update.table]
  BY DEF Delete, MayWrite, Locked, TypeInv, TablesType
<1> QED
  BY <1>1, <1>2, <1>3, OthersKept DEF RowsKept

LEMMA UpdateBeginKept ==
    ASSUME PlainWrites, TypeInv, RowsKept,
           NEW t \in TableName, NEW where, NEW cells \in UpdateCells[t], UpdateBegin(t, where, cells)
    PROVE  RowsKept' /\ RowsStay
<1>1. UNCHANGED <<heap, rows>>
  BY DEF UpdateBegin
<1>2. PICK hit \in SUBSET DOMAIN rows[t] :
         /\ update' = [table |-> t, cells |-> cells, todo |-> hit \X (DOMAIN cells)]
         /\ versions' = versions \cup {Assigned(heap[rows[t][i]], cells) : i \in hit}
  BY DEF UpdateBegin
<1>3. PlainCells(cells) /\ <<PrimaryKey>> \notin DOMAIN cells
  BY DEF PlainWrites
<1>4. \A i \in hit : rows[t][i] \in DOMAIN heap /\ PlainRow(heap[rows[t][i]])
  BY DEF TypeInv, TablesType, ToSet, RowsKept, Kept
<1>5. ASSUME NEW i \in hit
      PROVE  LET new == Assigned(heap[rows[t][i]], cells)
             IN  /\ PlainRow(new) /\ Id(new) = Id(heap[rows[t][i]])
                 /\ \A k \in DOMAIN cells : k \in DOMAIN new /\ new[k] = cells[k]
  <2>1. PICK map : map = heap[rows[t][i]]
    OBVIOUS
  <2>3. PlainRow(map)
    BY <1>4, <2>1
  <2>2. /\ PlainRow(Assigned(map, cells)) /\ Id(Assigned(map, cells)) = Id(map)
        /\ DOMAIN Assigned(map, cells) = DOMAIN map \cup DOMAIN cells
        /\ \A k \in DOMAIN cells : Assigned(map, cells)[k] = cells[k]
        /\ \A k \in DOMAIN map \ DOMAIN cells : Assigned(map, cells)[k] = map[k]
    BY <1>3, <2>3, AssignedPlain, Zenon
  <2> QED
    BY <2>1, <2>2
<1>6. \A v \in versions' : PlainRow(v)
  BY <1>2, <1>5 DEF RowsKept
<1>7. RowsStay
  BY <1>1, <1>2 DEF RowsStay
<1>8. \A p \in DOMAIN heap' : Kept(versions', heap'[p])
  BY <1>1, <1>7, KeptStays DEF RowsKept, RowsStay
<1>9. ASSUME NEW i \in hit, NEW k \in DOMAIN cells
      PROVE  k # <<PrimaryKey>> /\ Existed(versions', Id(heap[rows[t][i]]), k, cells[k])
  <2>1. Assigned(heap[rows[t][i]], cells) \in versions'
    BY <1>2
  <2> QED
    BY <1>3, <1>5, <2>1 DEF Existed
<1>10. ToSet(SeedHeap) \subseteq versions'
  BY <1>2 DEF RowsKept
<1>11. \A cell \in update'.todo :
          /\ cell[2] # <<PrimaryKey>>
          /\ Existed(versions', Id(heap'[rows'[update'.table][cell[1]]]), cell[2],
                     update'.cells[cell[2]])
  BY <1>1, <1>2, <1>9
<1> QED
  BY <1>6, <1>7, <1>8, <1>10, <1>11 DEF RowsKept

LEMMA WriteCellKept ==
    ASSUME TypeInv, RowsKept, NEW cell \in update.todo, WriteCell(cell)
    PROVE  RowsKept' /\ RowsStay
<1>1. PICK p : p = rows[update.table][cell[1]]
  OBVIOUS
<1>2. PICK map : map = heap[p]
  OBVIOUS
<1>3. PICK written : written = [k \in {cell[2]} |-> update.cells[k]]
  OBVIOUS
<1>4. heap' = [heap EXCEPT ![p] = Assigned(map, written)]
  BY <1>1, <1>2, <1>3 DEF WriteCell
<1>5. /\ update' = [table |-> update.table, cells |-> update.cells, todo |-> update.todo \ {cell}]
      /\ rows' = rows /\ versions' = versions
  BY DEF WriteCell, TypeInv, TablesType
<1>6. p \in DOMAIN heap
  BY <1>1, PickedStay
<1>7. /\ Kept(versions, map) /\ cell[2] # <<PrimaryKey>>
      /\ Existed(versions, Id(map), cell[2], update.cells[cell[2]])
  BY <1>1, <1>2, <1>6 DEF RowsKept
<1>8. PlainCells(written) /\ DOMAIN written = {cell[2]} /\ written[cell[2]] = update.cells[cell[2]]
  BY <1>7, <1>3 DEF RowsKept, Existed, PlainRow, PlainCells
<1>9. PICK new : new = Assigned(map, written)
  OBVIOUS
<1>10. /\ PlainRow(new) /\ Id(new) = Id(map)
      /\ DOMAIN new = DOMAIN map \cup {cell[2]}
      /\ new[cell[2]] = update.cells[cell[2]]
      /\ \A k \in DOMAIN map \ {cell[2]} : new[k] = map[k]
  <2>1. <<PrimaryKey>> \notin DOMAIN written
    BY <1>7, <1>8
  <2>2. PlainRow(map)
    BY <1>7 DEF Kept
  <2>3. /\ PlainRow(Assigned(map, written)) /\ Id(Assigned(map, written)) = Id(map)
        /\ DOMAIN Assigned(map, written) = DOMAIN map \cup DOMAIN written
        /\ \A k \in DOMAIN written : Assigned(map, written)[k] = written[k]
        /\ \A k \in DOMAIN map \ DOMAIN written : Assigned(map, written)[k] = map[k]
    BY <1>8, <2>1, <2>2, AssignedPlain, Zenon
  <2> QED
    BY <1>8, <1>9, <2>3
<1>11. Kept(versions, new)
  BY <1>7, <1>10 DEF Kept
<1>12. /\ DOMAIN heap' = DOMAIN heap /\ heap'[p] = new
      /\ \A q \in DOMAIN heap : q # p => heap'[q] = heap[q]
  BY <1>4, <1>6, <1>9
<1>13. RowsStay
  BY <1>2, <1>5, <1>10, <1>12 DEF RowsStay
<1>14. \A q \in DOMAIN heap' : Kept(versions, heap'[q])
  BY <1>11, <1>12 DEF RowsKept
<1>15. \A other \in update.todo :
          /\ other[2] # <<PrimaryKey>>
          /\ Existed(versions, Id(heap'[rows[update.table][other[1]]]), other[2], update.cells[other[2]])
  BY <1>13, PickedStay DEF RowsKept, RowsStay
<1> QED
  BY <1>5, <1>13, <1>14, <1>15 DEF RowsKept

\* The statements that write keep it so, and a fault goes back to what was loaded.
LEMMA WritingKept ==
    ASSUME PlainWrites, TypeInv, RowsKept, Writing
    PROVE  RowsKept' /\ RowsStay
<1>1. ASSUME UpdateEnd
      PROVE  RowsKept' /\ RowsStay
  BY <1>1 DEF UpdateEnd, Unlocked, NoUpdate, RowsKept, RowsStay
<1> QED
  BY <1>1, InsertKept, DeleteKept, UpdateBeginKept, WriteCellKept DEF Writing, UpdateStep

LEMMA FaultKept ==
    ASSUME PlainWrites, RowsKept, Fault
    PROVE  RowsKept'
<1>1. heap' = SeedHeap /\ update'.todo = {} /\ versions' = versions
  BY DEF Fault, NoUpdate
<1>2. \A p \in DOMAIN SeedHeap : Kept(versions, SeedHeap[p])
  BY VersionIsKept DEF RowsKept, ToSet
<1> QED
  BY <1>1, <1>2 DEF RowsKept

-----------------------------------------------------------------------------
(* The rows of an answer come from scanned rows, one of each table.        *)

\* One join at the most, of two tables, its ON naming a column of each.
PlainJoins ==
    \A q \in Queries :
        /\ Len(q.joins) <= 1
        /\ \A j \in DOMAIN q.joins :
              /\ q.joins[j].table # q.from
              /\ q.joins[j].left = <<q.from, q.joins[j].left[2]>>
              /\ q.joins[j].right = <<q.joins[j].table, q.joins[j].right[2]>>

\* A pointer to a row that the k-th scan has found.
Scanned(k, row) ==
    /\ row = Shared(row.at)
    /\ row.at \in DOMAIN heap
    /\ \E i \in DOMAIN seen[k] : Id(seen[k][i]) = Id(heap[row.at])

Sourced(map) == \E source \in Sources : HeldBy(map, source) /\ OnceEqual(source)

\* A row of a join or of a projection, or one on its way there.
Made(row) == "data" \in DOMAIN row /\ row = Own(row.data) /\ Sourced(row.data)
Traced(row) == Made(row) \/ (query.joins = <<>> /\ Scanned(1, row))

ScannedLeft ==
    phase \in {"scanRight", "index", "probe"} =>
        /\ \A row \in ToSet(left) : Scanned(1, row)
        /\ schema = [i \in DOMAIN Schema[query.from] |->
                        [Schema[query.from][i] EXCEPT !.name = <<@>>]]
        /\ seen = IF phase = "scanRight" THEN <<seen[1]>> ELSE <<seen[1], seen[2]>>

ScannedRight ==
    phase \in {"index", "probe"} => \A row \in ToSet(right) : Scanned(2, row)

\* What the index of a join says of a row on the right was true of it once.
Probed ==
    phase = "probe" =>
        /\ \A row \in ToSet(unmatched) : Scanned(1, row)
        /\ \A v \in DOMAIN index : \A i \in index[v] :
              Existed(versions, Id(heap[right[i].at]), Tail(Join.right), v)
        /\ \A row \in ToSet(out) : Made(row)

Answered ==
    /\ phase = "scan" => out = <<>>
    /\ phase \in {"filter", "project", "done"} =>
          /\ seen = IF query.joins = <<>> THEN <<seen[1]>> ELSE <<seen[1], seen[2]>>
          /\ \A row \in ToSet(left) \cup ToSet(out) : Traced(row)
    /\ phase \in {"project", "done"} => \A row \in ToSet(out) : Made(row)

RowsTraced == ScannedLeft /\ ScannedRight /\ Probed /\ Answered

LEMMA SourcedStays ==
    ASSUME UNCHANGED <<query, seen>>, RowsStay, NEW map, Sourced(map)
    PROVE  Sourced(map)'
<1>1. PICK source \in Sources : HeldBy(map, source) /\ OnceEqual(source)
  BY DEF Sourced
<1>2. source \in Sources'
  BY DEF Sources
<1>3. \A k, id : Versions(k, id) \subseteq Versions(k, id)'
  BY DEF RowsStay, Versions, TableAt
<1>4. \A k : TableAt(k)' = TableAt(k)
  BY DEF TableAt
<1>5. HeldBy(map, source)'
  BY <1>1, <1>3, <1>4 DEF HeldBy
<1>6. OnceEqual(source)'
  BY <1>1, <1>3, <1>4 DEF OnceEqual
<1> QED
  BY <1>2, <1>5, <1>6 DEF Sourced

LEMMA MadeStays ==
    ASSUME UNCHANGED <<query, seen>>, RowsStay, NEW row, Made(row)
    PROVE  Made(row)'
BY SourcedStays DEF Made

LEMMA ScannedStays ==
    ASSUME UNCHANGED seen, RowsStay, NEW k, NEW row, Scanned(k, row)
    PROVE  Scanned(k, row)'
BY DEF Scanned, RowsStay

LEMMA TracedStays ==
    ASSUME UNCHANGED <<query, seen>>, RowsStay, NEW row, Traced(row)
    PROVE  Traced(row)'
BY MadeStays, ScannedStays DEF Traced

LEMMA UndisturbedTraced ==
    ASSUME RowsTraced, RowsStay, UNCHANGED select, TypeInv
    PROVE  RowsTraced'
<1>1. UNCHANGED <<phase, query, joined, left, schema, right, index, matched, unmatched, out, seen>>
  BY DEF select, joining
<1>2. ScannedLeft' /\ ScannedRight'
  BY <1>1, ScannedStays DEF RowsTraced, ScannedLeft, ScannedRight
<1>3. Answered'
  BY <1>1, MadeStays, TracedStays DEF RowsTraced, Answered
<1>4. ASSUME phase = "probe", NEW v \in DOMAIN index, NEW i \in index[v]
      PROVE  Existed(versions', Id(heap'[right[i].at]), Tail(Join.right), v)
  <2>1. right[i] \in ToSet(right)
    BY <1>4 DEF TypeInv, SelectType, Noted, ToSet
  <2>2. right[i].at \in DOMAIN heap
    BY <1>4, <2>1 DEF RowsTraced, ScannedRight, Scanned
  <2> QED
    BY <1>4, <2>2 DEF RowsTraced, Probed, Existed, RowsStay
<1>5. Join' = Join
  BY <1>1 DEF Join
<1>6. Probed'
  BY <1>1, <1>4, <1>5, ScannedStays, MadeStays DEF RowsTraced, Probed
<1> QED
  BY <1>2, <1>3, <1>6 DEF RowsTraced

\* A map with the cells of the k-th table alone, under their full names.
PartHeld(map, k, id) ==
    \A name \in DOMAIN map :
        /\ Head(name) = TableAt(k)
        /\ \E v \in Versions(k, id) :
              <<Last(name)>> \in DOMAIN v /\ v[<<Last(name)>>] = map[name]

LEMMA FullName ==
    ASSUME NEW table, NEW column
    PROVE  /\ <<table>> \o <<column>> = <<table, column>>
           /\ Head(<<table, column>>) = table
           /\ Last(<<table, column>>) = column
           /\ Tail(<<table, column>>) = <<column>>
           /\ Last(<<column>>) = column
           /\ Len(<<column>>) = 1
<1> DEFINE S == {table, column}
<1>1. <<table>> \in Seq(S) /\ <<column>> \in Seq(S) /\ <<table, column>> \in Seq(S)
  OBVIOUS
<1>2. Len(<<table, column>>) = 2 /\ Len(<<column>>) = 1 /\ Len(<<table>>) = 1
  OBVIOUS
<1>3. <<table>> \o <<column>> = <<table, column>>
  <2>1. PICK full : full = <<table>> \o <<column>>
    OBVIOUS
  <2>2. full \in Seq(S) /\ Len(full) = 2
    BY <1>1, <1>2, <2>1
  <2>3. full[1] = table /\ full[2] = column
    BY <1>1, <1>2, <2>1
  <2>4. \A i \in 1 .. 2 : full[i] = <<table, column>>[i]
    BY <2>3
  <2> HIDE DEF S
  <2> QED
    BY <1>1, <1>2, <2>1, <2>2, <2>4, SeqEqual
<1>4. Tail(<<table, column>>) = <<column>>
  OBVIOUS
<1>5. Head(<<table, column>>) = table
  OBVIOUS
<1>6. Last(<<table, column>>) = column /\ Last(<<column>>) = column
  BY <1>2 DEF Last
<1> QED
  BY <1>2, <1>3, <1>4, <1>5, <1>6

LEMMA QualifiedNames ==
    ASSUME NEW table, NEW map, PlainCells(map), NEW name \in DOMAIN Qualified(table, map)
    PROVE  \E k \in DOMAIN map : /\ k = <<k[1]>> /\ name = <<table, k[1]>>
                                 /\ Qualified(table, map)[name] = map[k]
<1> DEFINE full(k) == IF Len(k) = 1 THEN <<table>> \o k ELSE k
<1>1. \A k \in DOMAIN map : k = <<k[1]>> /\ full(k) = <<table, k[1]>>
  BY FullName DEF PlainCells
<1>2. /\ name \in {full(k) : k \in DOMAIN map}
      /\ Qualified(table, map)[name] = map[CHOOSE k \in DOMAIN map : full(k) = name]
  BY DEF Qualified
<1>3. PICK k \in DOMAIN map : k = CHOOSE c \in DOMAIN map : full(c) = name
  BY <1>2
<1>4. full(k) = name
  BY <1>2, <1>3
<1> QED
  BY <1>1, <1>2, <1>3, <1>4

LEMMA AllQualifiedNames ==
    ASSUME NEW table, NEW map, PlainCells(map), NEW name \in DOMAIN AllQualified(table, map)
    PROVE  \E k \in DOMAIN map : /\ k = <<k[1]>> /\ name = <<table, k[1]>>
                                 /\ AllQualified(table, map)[name] = map[k]
<1>1. PICK k \in DOMAIN map : name = <<table>> \o k
  BY DEF AllQualified
<1>2. k = <<k[1]>>
  BY DEF PlainCells
<1>3. <<table>> \o <<k[1]>> = <<table, k[1]>> /\ Tail(<<table, k[1]>>) = <<k[1]>>
  BY FullName
<1>4. name = <<table, k[1]>> /\ Tail(name) = k
  BY <1>1, <1>2, <1>3
<1>5. AllQualified(table, map)[name] = map[Tail(name)]
  BY DEF AllQualified
<1> QED
  BY <1>2, <1>4, <1>5

\* The cells of a row map were in versions of its row.
LEMMA KeptIsHeld ==
    ASSUME NEW map, Kept(versions, map), NEW k
    PROVE  /\ PartHeld(Qualified(TableAt(k), map), k, Id(map))
           /\ PartHeld(AllQualified(TableAt(k), map), k, Id(map))
<1>1. PlainCells(map) /\ Id(map) # 0
  BY DEF Kept, PlainRow
<1>2. ASSUME NEW c \in DOMAIN map, c = <<c[1]>>, NEW name, name = <<TableAt(k), c[1]>>
      PROVE  /\ Head(name) = TableAt(k)
             /\ \E v \in Versions(k, Id(map)) :
                   <<Last(name)>> \in DOMAIN v /\ v[<<Last(name)>>] = map[c]
  <2>1. PICK v \in versions : Id(v) = Id(map) /\ c \in DOMAIN v /\ v[c] = map[c]
    BY DEF Kept, Existed
  <2>2. v \in Versions(k, Id(map))
    BY <1>1, <2>1 DEF Versions, Id
  <2>3. <<Last(name)>> = c /\ Head(name) = TableAt(k)
    BY <1>2, FullName
  <2> QED
    BY <2>1, <2>2, <2>3
<1>3. PartHeld(Qualified(TableAt(k), map), k, Id(map))
  <2> SUFFICES ASSUME NEW name \in DOMAIN Qualified(TableAt(k), map)
               PROVE  /\ Head(name) = TableAt(k)
                      /\ \E v \in Versions(k, Id(map)) :
                            /\ <<Last(name)>> \in DOMAIN v
                            /\ v[<<Last(name)>>] = Qualified(TableAt(k), map)[name]
    BY DEF PartHeld
  <2>1. PICK c \in DOMAIN map : /\ c = <<c[1]>> /\ name = <<TableAt(k), c[1]>>
                                /\ Qualified(TableAt(k), map)[name] = map[c]
    BY <1>1, QualifiedNames
  <2> QED
    BY <1>2, <2>1
<1>4. PartHeld(AllQualified(TableAt(k), map), k, Id(map))
  <2> SUFFICES ASSUME NEW name \in DOMAIN AllQualified(TableAt(k), map)
               PROVE  /\ Head(name) = TableAt(k)
                      /\ \E v \in Versions(k, Id(map)) :
                            /\ <<Last(name)>> \in DOMAIN v
                            /\ v[<<Last(name)>>] = AllQualified(TableAt(k), map)[name]
    BY DEF PartHeld
  <2>1. PICK c \in DOMAIN map : /\ c = <<c[1]>> /\ name = <<TableAt(k), c[1]>>
                                /\ AllQualified(TableAt(k), map)[name] = map[c]
    BY <1>1, AllQualifiedNames
  <2> QED
    BY <1>2, <2>1
<1> QED
  BY <1>3, <1>4

\* A schema with the columns of a table under their bare names.
Bare(columns, table) ==
    columns = [i \in DOMAIN Schema[table] |-> [Schema[table][i] EXCEPT !.name = <<@>>]]

LEMMA BareNames ==
    ASSUME NEW table \in TableName, NEW columns, Bare(columns, table)
    PROVE  /\ DOMAIN columns = DOMAIN Schema[table]
           /\ \A i \in DOMAIN columns : columns[i].name = <<Schema[table][i].name>>
<1>1. DOMAIN columns = DOMAIN Schema[table]
  BY DEF Bare
<1>2. ASSUME NEW i \in DOMAIN columns
      PROVE  columns[i].name = <<Schema[table][i].name>>
  <2>1. columns[i] = [Schema[table][i] EXCEPT !.name = <<Schema[table][i].name>>]
    BY <1>1 DEF Bare
  <2>2. Schema[table][i] = [name |-> Schema[table][i].name, type |-> Schema[table][i].type]
    BY <1>1, QueryAssumption
  <2> QED
    BY <2>1, <2>2
<1> QED
  BY <1>1, <1>2

\* So are the NULLs of a table.
LEMMA NullsAreHeld ==
    ASSUME NEW k, TableAt(k) \in TableName, NEW columns, Bare(columns, TableAt(k))
    PROVE  PartHeld(Nulls(TableAt(k), columns), k, 0)
<1> DEFINE nulls == [c \in {<<s.name>> : s \in ToSet(Schema[TableAt(k)])} |-> Null]
<1>1. nulls \in Versions(k, 0)
  BY DEF Versions
<1> SUFFICES ASSUME NEW name \in DOMAIN Nulls(TableAt(k), columns)
             PROVE  /\ Head(name) = TableAt(k)
                    /\ <<Last(name)>> \in DOMAIN nulls
                    /\ nulls[<<Last(name)>>] = Nulls(TableAt(k), columns)[name]
  BY <1>1 DEF PartHeld
<1>2. PICK i \in DOMAIN columns : name = <<TableAt(k)>> \o columns[i].name
  BY DEF Nulls
<1>3. PICK s \in ToSet(Schema[TableAt(k)]) : columns[i].name = <<s.name>>
  BY BareNames DEF ToSet
<1>4. Head(name) = TableAt(k) /\ Last(name) = s.name
  <2>1. name = <<TableAt(k)>> \o <<s.name>>
    BY <1>2, <1>3
  <2> HIDE DEF nulls
  <2> QED
    BY <2>1, FullName
<1>5. Nulls(TableAt(k), columns)[name] = Null
  BY DEF Nulls
<1> QED
  BY <1>3, <1>4, <1>5

LEMMA MergedIsHeld ==
    ASSUME NEW a, NEW b, NEW l, NEW r, PartHeld(l, 1, a), PartHeld(r, 2, b),
           DOMAIN seen = {1, 2}
    PROVE  HeldBy(Merged(l, r), <<a, b>>)
<1> SUFFICES ASSUME NEW name \in DOMAIN Merged(l, r)
             PROVE  \E k \in DOMAIN seen :
                       /\ Len(name) = 1 \/ Head(name) = TableAt(k)
                       /\ \E v \in Versions(k, <<a, b>>[k]) :
                             /\ <<Last(name)>> \in DOMAIN v
                             /\ v[<<Last(name)>>] = Merged(l, r)[name]
  BY DEF HeldBy
<1>1. CASE name \in DOMAIN r
  <2>1. Merged(l, r)[name] = r[name]
    BY <1>1 DEF Merged
  <2> QED
    BY <1>1, <2>1 DEF PartHeld
<1>2. CASE name \notin DOMAIN r
  <2>1. Merged(l, r)[name] = l[name] /\ name \in DOMAIN l
    BY <1>2 DEF Merged
  <2> QED
    BY <2>1 DEF PartHeld
<1> QED
  BY <1>1, <1>2

LEMMA PairIsSourced ==
    ASSUME DOMAIN seen = {1, 2},
           NEW a, a = 0 \/ \E i \in DOMAIN seen[1] : a = Id(seen[1][i]),
           NEW b, b = 0 \/ \E i \in DOMAIN seen[2] : b = Id(seen[2][i]),
           NEW map, HeldBy(map, <<a, b>>), OnceEqual(<<a, b>>)
    PROVE  Sourced(map)
<1> DEFINE ids(k) == {0} \cup {seen[k][i][<<PrimaryKey>>].n : i \in DOMAIN seen[k]}
<1>1. a \in ids(1) /\ b \in ids(2)
  BY DEF Id
<1> HIDE DEF ids
<1>2. <<a, b>> \in [DOMAIN seen -> UNION {ids(k) : k \in DOMAIN seen}]
  BY <1>1
<1>3. \A k \in DOMAIN seen : <<a, b>>[k] \in ids(k)
  BY <1>1
<1>4. <<a, b>> \in Sources
  BY <1>2, <1>3 DEF Sources, ids
<1> QED
  BY <1>4 DEF Sourced

\* The join that is under way, and what its steps know.
Joining == phase \in {"scanRight", "index", "probe"}

LEMMA OneJoin ==
    ASSUME PlainJoins, TypeInv, Joining
    PROVE  /\ joined = 0 /\ Len(query.joins) = 1 /\ DOMAIN query.joins = {1}
           /\ Join = query.joins[1]
           /\ TableAt(1) = query.from /\ TableAt(2) = Join.table /\ LeftName = query.from
           /\ query.from \in TableName /\ Join.table \in TableName /\ Join.table # query.from
           /\ Join.left = <<query.from, Join.left[2]>>
           /\ Join.right = <<Join.table, Join.right[2]>>
<1>1. query \in Queries /\ joined \in Nat /\ joined < Len(query.joins)
  BY DEF TypeInv, SelectType, Planned, Joining
<1>2. Len(query.joins) \in Nat /\ Len(query.joins) <= 1
  BY <1>1, JoinsAreSequences DEF PlainJoins
<1>3. joined = 0 /\ Len(query.joins) = 1
  <2>1. \A i, n \in Nat : i < n /\ n <= 1 => i = 0 /\ n = 1
    OBVIOUS
  <2> QED
    BY <1>1, <1>2, <2>1, Zenon
<1>4. DOMAIN query.joins = {1}
  BY <1>1, <1>3, JoinsAreSequences, SequenceDomain
<1>5. Join = query.joins[1]
  BY <1>3 DEF Join
<1>6. TableAt(1) = query.from /\ TableAt(2) = Join.table /\ LeftName = query.from
  BY <1>3, <1>5 DEF TableAt, LeftName
<1>7. query.from \in TableName /\ Join.table \in TableName
  BY <1>1, <1>4, <1>5, QueryAssumption DEF IsQuery
<1> QED
  BY <1>1, <1>3, <1>4, <1>5, <1>6, <1>7 DEF PlainJoins

\* A value that the hash join reads in a column of ON was in that row once.
LEMMA ValueExisted ==
    ASSUME NEW table \in TableName, NEW columns, Bare(columns, table),
           NEW name, name = <<table, name[2]>>,
           NEW row, NEW past, Kept(past, Map(row)), NEW value \in ValueIn(row, Resolved(columns, name))
    PROVE  Existed(past, Id(Map(row)), Tail(name), value)
<1>1. PICK c \in Resolved(columns, name) : c.name \in DOMAIN Map(row) /\ value = Map(row)[c.name]
  BY DEF ValueIn
<1>2. PICK i \in DOMAIN columns : c = columns[i] /\ Last(columns[i].name) = Last(name)
  BY DEF Resolved
<1>3. c.name = <<Schema[table][i].name>>
  BY <1>2, BareNames
<1>4. Last(name) = name[2] /\ Tail(name) = <<name[2]>>
  BY FullName
<1>5. c.name = Tail(name)
  BY <1>2, <1>3, <1>4, FullName
<1> QED
  BY <1>1, <1>5 DEF Kept

LEMMA ScannedIsKept ==
    ASSUME RowsKept, NEW k, NEW row, Scanned(k, row)
    PROVE  /\ Map(row) = heap[row.at] /\ Kept(versions, Map(row)) /\ Id(Map(row)) # 0
           /\ \E i \in DOMAIN seen[k] : Id(Map(row)) = Id(seen[k][i])
<1>1. Map(row) = heap[row.at]
  BY DEF Scanned, Map, Shared
<1> QED
  BY <1>1 DEF RowsKept, Scanned, Kept, PlainRow

LEMMA OnceEqualPair ==
    ASSUME PlainJoins, TypeInv, Joining, DOMAIN seen = {1, 2}, NEW a, NEW b,
           \/ b = 0 /\ Join.type \in {"LEFT", "FULL"}
           \/ a = 0 /\ Join.type \in {"RIGHT", "FULL"}
           \/ \E v \in Versions(1, a), w \in Versions(2, b) :
                 /\ Tail(Join.left) \in DOMAIN v /\ Tail(Join.right) \in DOMAIN w
                 /\ v[Tail(Join.left)] # Null
                 /\ v[Tail(Join.left)] = w[Tail(Join.right)]
    PROVE  OnceEqual(<<a, b>>)
<1>1. Head(Join.left) = query.from
  BY OneJoin, FullName
<1>2. (CHOOSE k \in DOMAIN seen : TableAt(k) = Head(Join.left)) = 1
  BY <1>1, OneJoin
<1>3. DOMAIN query.joins = {1} /\ Join = query.joins[1]
  BY OneJoin
<1>4. PICK source : source = <<a, b>>
  OBVIOUS
<1>5. source[1 + 1] = b /\ source[1] = a /\ 1 + 1 = 2
  BY <1>4
<1>6. PICK l : l = CHOOSE k \in DOMAIN seen : TableAt(k) = Head(Join.left)
  OBVIOUS
<1>7. \/ source[1 + 1] = 0 /\ Join.type \in {"LEFT", "FULL"}
      \/ source[l] = 0 /\ Join.type \in {"RIGHT", "FULL"}
      \/ \E v \in Versions(l, source[l]), w \in Versions(1 + 1, source[1 + 1]) :
            /\ Tail(Join.left) \in DOMAIN v /\ Tail(Join.right) \in DOMAIN w
            /\ v[Tail(Join.left)] # Null
            /\ Compared(v[Tail(Join.left)]) = Compared(w[Tail(Join.right)])
  <2>1. l = 1
    BY <1>2, <1>6
  <2> QED
    BY <1>5, <2>1
<1>8. OnceEqual(source)
  BY <1>3, <1>6, <1>7 DEF OnceEqual
<1> QED
  BY <1>4, <1>8

LEMMA CombinedMade ==
    ASSUME PlainJoins, TypeInv, RowsKept, Joining, DOMAIN seen = {1, 2},
           NEW l, Scanned(1, l), NEW r, Scanned(2, r), NEW value,
           Existed(versions, Id(Map(l)), Tail(Join.left), value),
           Existed(versions, Id(Map(r)), Tail(Join.right), value)
    PROVE  Made(Combined(l, r))
<1>1. PICK a, b : a = Id(Map(l)) /\ b = Id(Map(r))
  OBVIOUS
<1>2. /\ Kept(versions, Map(l)) /\ Kept(versions, Map(r)) /\ a # 0 /\ b # 0
      /\ \E i \in DOMAIN seen[1] : a = Id(seen[1][i])
      /\ \E i \in DOMAIN seen[2] : b = Id(seen[2][i])
  BY <1>1, ScannedIsKept
<1>3. /\ PartHeld(Qualified(TableAt(1), Map(l)), 1, a)
      /\ PartHeld(Qualified(TableAt(2), Map(r)), 2, b)
  BY <1>1, <1>2, KeptIsHeld
<1>4. HeldBy(Merged(Qualified(TableAt(1), Map(l)), Qualified(TableAt(2), Map(r))), <<a, b>>)
  BY <1>3, MergedIsHeld
<1>5. PICK v \in versions : Id(v) = a /\ Tail(Join.left) \in DOMAIN v /\ v[Tail(Join.left)] = value
  BY <1>1 DEF Existed
<1>6. PICK w \in versions : Id(w) = b /\ Tail(Join.right) \in DOMAIN w /\ w[Tail(Join.right)] = value
  BY <1>1 DEF Existed
<1>7. v \in Versions(1, a) /\ w \in Versions(2, b) /\ value # Null
  BY <1>2, <1>5, <1>6 DEF Versions, Id, RowsKept, PlainRow, PlainCells
<1>8. OnceEqual(<<a, b>>)
  BY <1>5, <1>6, <1>7, OnceEqualPair
<1>9. Sourced(Merged(Qualified(TableAt(1), Map(l)), Qualified(TableAt(2), Map(r))))
  BY <1>2, <1>4, <1>8, PairIsSourced
<1> QED
  BY <1>9, OneJoin DEF Made, Combined, Own

LEMMA WithoutRightMade ==
    ASSUME PlainJoins, TypeInv, RowsKept, Joining, DOMAIN seen = {1, 2},
           Join.type \in {"LEFT", "FULL"}, NEW l, Scanned(1, l)
    PROVE  Made(WithoutRight(l))
<1>1. PICK a : a = Id(Map(l))
  OBVIOUS
<1>2. /\ Kept(versions, Map(l))
      /\ \E i \in DOMAIN seen[1] : a = Id(seen[1][i])
  BY <1>1, ScannedIsKept
<1>3. PartHeld(AllQualified(TableAt(1), Map(l)), 1, a)
  BY <1>1, <1>2, KeptIsHeld
<1>4. PartHeld(Nulls(TableAt(2), RightSchema), 2, 0)
  BY OneJoin, NullsAreHeld DEF Bare, RightSchema
<1>5. HeldBy(Merged(AllQualified(TableAt(1), Map(l)), Nulls(TableAt(2), RightSchema)), <<a, 0>>)
  BY <1>3, <1>4, MergedIsHeld
<1>6. OnceEqual(<<a, 0>>)
  BY OnceEqualPair
<1>7. Sourced(Merged(AllQualified(TableAt(1), Map(l)), Nulls(TableAt(2), RightSchema)))
  BY <1>2, <1>5, <1>6, PairIsSourced
<1> QED
  BY <1>7, OneJoin DEF Made, WithoutRight, Own

LEMMA WithoutLeftMade ==
    ASSUME PlainJoins, TypeInv, RowsKept, Joining, DOMAIN seen = {1, 2}, Bare(schema, query.from),
           Join.type \in {"RIGHT", "FULL"}, NEW r, Scanned(2, r)
    PROVE  Made(WithoutLeft(r))
<1>1. PICK b : b = Id(Map(r))
  OBVIOUS
<1>2. /\ Kept(versions, Map(r))
      /\ \E i \in DOMAIN seen[2] : b = Id(seen[2][i])
  BY <1>1, ScannedIsKept
<1>3. PartHeld(AllQualified(TableAt(2), Map(r)), 2, b)
  BY <1>1, <1>2, KeptIsHeld
<1>4. PartHeld(Nulls(TableAt(1), schema), 1, 0)
  BY OneJoin, NullsAreHeld
<1>5. HeldBy(Merged(Nulls(TableAt(1), schema), AllQualified(TableAt(2), Map(r))), <<0, b>>)
  BY <1>3, <1>4, MergedIsHeld
<1>6. OnceEqual(<<0, b>>)
  BY OnceEqualPair
<1>7. Sourced(Merged(Nulls(TableAt(1), schema), AllQualified(TableAt(2), Map(r))))
  BY <1>2, <1>5, <1>6, PairIsSourced
<1> QED
  BY <1>7, OneJoin DEF Made, WithoutLeft, Own

LEMMA ContentsFound ==
    ASSUME TypeInv, NEW t \in TableName, NEW row, NEW p \in ToSet(rows[t]), row = Shared(p)
    PROVE  /\ row = Shared(row.at) /\ row.at \in DOMAIN heap
           /\ \E i \in DOMAIN Contents(t) : Id(Contents(t)[i]) = Id(heap[row.at])
<1>1. row.at = p /\ p \in DOMAIN heap
  BY DEF Shared, TypeInv, TablesType
<1>2. PICK i \in DOMAIN rows[t] : p = rows[t][i]
  BY DEF ToSet
<1> QED
  BY <1>1, <1>2 DEF Contents

LEMMA ScanLeftTraced ==
    ASSUME TypeInv, RowsTraced, ScanLeft
    PROVE  RowsTraced'
<1>1. query.from \in TableName /\ IsSequence(rows[query.from])
  BY JoinsAreSequences DEF TypeInv, TablesType, SelectType, Planned
<1>2. PICK positions \in SUBSET DOMAIN rows[query.from] :
         left' = Pointers(IF query.joins = <<>> THEN ElementsAt(rows[query.from], positions)
                          ELSE rows[query.from])
  BY DEF ScanLeft
<1>3. \A row \in ToSet(left') : \E p \in ToSet(rows[query.from]) : row = Shared(p)
  <2>1. /\ IsSequence(ElementsAt(rows[query.from], positions))
        /\ ToSet(ElementsAt(rows[query.from], positions)) \subseteq ToSet(rows[query.from])
    BY <1>1, PickedElements DEF ToSet
  <2> QED
    BY <1>1, <1>2, <2>1, PointersTyped
<1>4. /\ phase' = IF query.joins = <<>> THEN "filter" ELSE "scanRight"
      /\ heap' = heap /\ query' = query /\ out' = <<>>
      /\ seen' = <<Contents(query.from)>>
      /\ schema' = [i \in DOMAIN Schema[query.from] |->
                       [Schema[query.from][i] EXCEPT !.name = <<@>>]]
  BY DEF ScanLeft, tables, RowsTraced, Answered
<1>5. \A row \in ToSet(left') : Scanned(1, row)'
  BY <1>1, <1>3, <1>4, ContentsFound DEF Scanned
<1>6. ToSet(out') = {}
  BY <1>4, EmptySequence
<1> QED
  BY <1>4, <1>5, <1>6 DEF RowsTraced, ScannedLeft, ScannedRight, Probed, Answered, Traced

LEMMA AppendPair ==
    ASSUME NEW x, NEW y
    PROVE  Append(<<x>>, y) = <<x, y>>
<1> DEFINE S == {x, y}
<1>1. <<x>> \in Seq(S) /\ y \in S
  OBVIOUS
<1> HIDE DEF S
<1>2. Append(<<x>>, y) = <<x>> \o <<y>>
  BY <1>1, AppendIsConcat
<1> QED
  BY <1>2, FullName

LEMMA ScanRightTraced ==
    ASSUME PlainJoins, TypeInv, RowsTraced, ScanRight
    PROVE  RowsTraced'
<1>1. Joining /\ Join.table \in TableName
  BY OneJoin DEF ScanRight, Joining
<1>2. PICK first : seen = <<first>>
  BY DEF ScanRight, RowsTraced, ScannedLeft
<1>3. /\ phase' = "index" /\ heap' = heap /\ UNCHANGED <<query, left, schema>>
      /\ right' = Pointers(rows[Join.table])
      /\ seen' = <<first, Contents(Join.table)>>
  BY <1>2, AppendPair DEF ScanRight, tables
<1>4. \A row \in ToSet(right') : \E p \in ToSet(rows[Join.table]) : row = Shared(p)
  BY <1>1, <1>3, PointersTyped DEF TypeInv, TablesType
<1>5. \A row \in ToSet(right') : Scanned(2, row)'
  BY <1>1, <1>3, <1>4, ContentsFound DEF Scanned
<1>6. \A row \in ToSet(left') : Scanned(1, row)'
  BY <1>2, <1>3 DEF ScanRight, RowsTraced, ScannedLeft, Scanned
<1>7. ScannedLeft' /\ ScannedRight'
  BY <1>3, <1>5, <1>6 DEF ScanRight, RowsTraced, ScannedLeft, ScannedRight
<1>8. Probed' /\ Answered'
  BY <1>3 DEF Probed, Answered
<1> QED
  BY <1>7, <1>8 DEF RowsTraced

\* The steps of a SELECT that read rows and touch no table.
LEMMA ReadingStays ==
    ASSUME UNCHANGED <<tables, query, seen>>
    PROVE  /\ RowsStay
           /\ \A row : Made(row) => Made(row)'
           /\ \A row : Traced(row) => Traced(row)'
           /\ \A k, row : Scanned(k, row) => Scanned(k, row)'
<1>1. RowsStay
  BY DEF RowsStay, tables
<1> QED
  BY <1>1, MadeStays, TracedStays, ScannedStays

LEMMA BuildIndexTraced ==
    ASSUME PlainJoins, TypeInv, RowsKept, RowsTraced, BuildIndex
    PROVE  RowsTraced'
<1>1. /\ UNCHANGED <<tables, query, joined, left, schema, right, seen>>
      /\ phase' \in {"probe", "failed"} /\ unmatched' = <<>> /\ out' = <<>>
      /\ phase = "index"
  BY DEF BuildIndex
<1>2. ScannedLeft' /\ ScannedRight'
  BY <1>1, ReadingStays DEF RowsTraced, ScannedLeft, ScannedRight
<1>3. Answered'
  BY <1>1 DEF Answered
<1>4. ASSUME phase' = "probe", NEW v \in DOMAIN index', NEW i \in index'[v]
      PROVE  Existed(versions, Id(heap[right[i].at]), Tail(Join.right), v)
  <2>1. index' = [value \in UNION {ValueIn(right[n], RightColumn) : n \in DOMAIN right} |->
                     {n \in DOMAIN right : value \in ValueIn(right[n], RightColumn)}]
    BY <1>4 DEF BuildIndex
  <2>2. i \in DOMAIN right /\ v \in ValueIn(right[i], RightColumn)
    BY <1>4, <2>1
  <2>3. Scanned(2, right[i])
    BY <1>1, <2>2 DEF RowsTraced, ScannedRight, ToSet
  <2>4. Kept(versions, Map(right[i])) /\ Map(right[i]) = heap[right[i].at]
    BY <2>3, ScannedIsKept
  <2>5. Join.table \in TableName /\ Join.right = <<Join.table, Join.right[2]>>
    BY <1>1, OneJoin DEF Joining
  <2>6. Bare(RightSchema, Join.table)
    BY DEF Bare, RightSchema
  <2> QED
    BY <2>2, <2>4, <2>5, <2>6, ValueExisted DEF RightColumn
<1>5. Probed'
  <2>1. Join' = Join /\ heap' = heap /\ versions' = versions /\ ToSet(<<>>) = {}
    BY <1>1, EmptySequence DEF Join, tables
  <2> QED
    BY <1>1, <1>4, <2>1 DEF Probed
<1> QED
  BY <1>2, <1>3, <1>5 DEF RowsTraced

LEMMA ProbeRowTraced ==
    ASSUME PlainJoins, TypeInv, RowsKept, RowsTraced, ProbeRow
    PROVE  RowsTraced'
<1>1. /\ UNCHANGED <<tables, phase, query, joined, schema, right, index, seen>>
      /\ left' = Tail(left) /\ left # <<>>
      /\ phase = "probe" /\ Joining
  BY DEF ProbeRow, Joining
<1>2. IsSequence(left) /\ IsSequence(right) /\ IsSequence(unmatched) /\ IsSequence(out)
  BY DEF TypeInv, SelectType, Sequences
<1>3. IsSequence(left') /\ ToSet(left') \subseteq ToSet(left) /\ Head(left) \in ToSet(left)
  BY <1>1, <1>2, SequenceTail
<1>4. PICK row : row = Head(left) /\ Scanned(1, row)
  BY <1>1, <1>3 DEF RowsTraced, ScannedLeft
<1>5. PICK found :
         /\ found = UNION {index[v] : v \in ValueIn(row, LeftColumn) \cap DOMAIN index}
         /\ out' = out \o [i \in DOMAIN Ascending(found) |->
                             Combined(row, right[Ascending(found)[i]])]
         /\ unmatched' = IF found = {} THEN Append(unmatched, row) ELSE unmatched
  BY <1>4 DEF ProbeRow
<1>6. DOMAIN seen = {1, 2}
  BY <1>1 DEF RowsTraced, ScannedLeft
<1>7. ASSUME NEW n \in found
      PROVE  n \in DOMAIN right /\ Made(Combined(row, right[n]))
  <2>1. PICK v \in ValueIn(row, LeftColumn) \cap DOMAIN index : n \in index[v]
    BY <1>5, <1>7
  <2>2. n \in DOMAIN right
    BY <2>1 DEF TypeInv, SelectType, Noted
  <2>3. Scanned(2, right[n])
    BY <1>1, <2>2 DEF RowsTraced, ScannedRight, ToSet
  <2>4. Existed(versions, Id(Map(right[n])), Tail(Join.right), v)
    BY <1>1, <2>1, <2>3, ScannedIsKept DEF RowsTraced, Probed
  <2>5. Existed(versions, Id(Map(row)), Tail(Join.left), v)
    <3>1. Kept(versions, Map(row))
      BY <1>4, ScannedIsKept
    <3>2. query.from \in TableName /\ Join.left = <<query.from, Join.left[2]>>
      BY <1>1, OneJoin
    <3>3. Bare(schema, query.from)
      BY <1>1 DEF Bare, RowsTraced, ScannedLeft
    <3>4. v \in ValueIn(row, Resolved(schema, Join.left))
      BY <2>1 DEF LeftColumn
    <3> QED
      BY <3>1, <3>2, <3>3, <3>4, ValueExisted
  <2>6. Made(Combined(row, right[n]))
    BY <1>1, <1>4, <1>6, <2>3, <2>4, <2>5, CombinedMade
  <2> QED
    BY <2>2, <2>6
<1>8. \A made \in ToSet(out') : Made(made)
  <2> DEFINE order == Ascending(found)
             new == [i \in DOMAIN order |-> Combined(row, right[order[i]])]
  <2>1. found \in SUBSET Nat /\ IsFiniteSet(found)
    <3>1. Len(right) \in Nat /\ DOMAIN right = 1 .. Len(right)
      BY <1>2, SequenceDomain
    <3>2. IsFiniteSet(1 .. Len(right)) /\ 1 .. Len(right) \subseteq Nat
      BY <3>1, FS_Interval
    <3>3. found \in SUBSET (1 .. Len(right))
      BY <1>7, <3>1
    <3> QED
      BY <3>2, <3>3, FS_Subset
  <2>2. /\ DOMAIN order = 1 .. Cardinality(found) /\ Cardinality(found) \in Nat
        /\ \A i \in DOMAIN order : order[i] \in found
    BY <2>1, AscendingLists, CardinalityIsNat
  <2>3. IsSequence(new) /\ DOMAIN new = DOMAIN order
    BY <2>2, SequenceOfFunction
  <2>4. \A i \in DOMAIN order : Made(new[i])
    BY <1>7, <2>2
  <2>5. \A made \in ToSet(new) : Made(made)
    BY <2>3, <2>4 DEF ToSet
  <2>6. ToSet(out') = ToSet(out) \cup ToSet(new)
    BY <1>2, <1>5, <2>3, SequenceConcat
  <2> HIDE DEF new
  <2> QED
    BY <1>1, <2>5, <2>6 DEF RowsTraced, Probed
<1>9. \A lone \in ToSet(unmatched') : Scanned(1, lone)
  <2>1. ToSet(unmatched') \subseteq ToSet(unmatched) \cup {row}
    BY <1>2, <1>5, SequenceAppend
  <2> QED
    BY <1>1, <1>4, <2>1 DEF RowsTraced, Probed
<1>10. ScannedLeft' /\ ScannedRight' /\ Answered'
  BY <1>1, <1>3, ReadingStays DEF RowsTraced, ScannedLeft, ScannedRight, Answered
<1>11. Probed'
  <2>1. Join' = Join /\ heap' = heap /\ versions' = versions
    BY <1>1 DEF Join, tables
  <2> QED
    BY <1>1, <1>8, <1>9, <2>1, ReadingStays DEF RowsTraced, Probed
<1> QED
  BY <1>10, <1>11 DEF RowsTraced

LEMMA AddUnmatchedTraced ==
    ASSUME PlainJoins, TypeInv, RowsKept, RowsTraced, AddUnmatched
    PROVE  RowsTraced'
<1>1. /\ UNCHANGED <<tables, query, seen>>
      /\ phase = "probe" /\ Joining /\ out' = <<>>
      /\ phase' = IF joined + 1 < Len(query.joins) THEN "scanRight" ELSE "filter"
  BY DEF AddUnmatched, Joining
<1>2. /\ joined = 0 /\ Len(query.joins) = 1 /\ query.joins # <<>>
      /\ DOMAIN seen = {1, 2} /\ seen = <<seen[1], seen[2]>>
  BY <1>1, OneJoin, EmptySequence DEF RowsTraced, ScannedLeft
<1>3. PICK lefts, rights :
         /\ \/ Join.type \in {"LEFT", "FULL"}
               /\ lefts = [i \in DOMAIN unmatched |-> WithoutRight(unmatched[i])]
            \/ lefts = <<>>
         /\ \/ Join.type \in {"RIGHT", "FULL"}
               /\ rights = [i \in DOMAIN Lonely |-> WithoutLeft(right[Lonely[i]])]
            \/ rights = <<>>
         /\ left' = out \o lefts \o rights
  BY DEF AddUnmatched
<1>4. IsSequence(right) /\ IsSequence(unmatched) /\ IsSequence(out)
  BY DEF TypeInv, SelectType, Sequences
<1>5. IsSequence(lefts) /\ \A row \in ToSet(lefts) : Made(row)
  <2>1. CASE lefts = <<>>
    BY <2>1, EmptySequence
  <2>2. CASE /\ Join.type \in {"LEFT", "FULL"}
             /\ lefts = [i \in DOMAIN unmatched |-> WithoutRight(unmatched[i])]
    <3>1. Len(unmatched) \in Nat /\ DOMAIN unmatched = 1 .. Len(unmatched)
      BY <1>4, SequenceDomain
    <3>2. IsSequence(lefts) /\ DOMAIN lefts = DOMAIN unmatched
      BY <2>2, <3>1, SequenceOfFunction
    <3>3. \A i \in DOMAIN unmatched : Scanned(1, unmatched[i])
      BY <1>1 DEF RowsTraced, Probed, ToSet
    <3>4. \A i \in DOMAIN unmatched : Made(WithoutRight(unmatched[i]))
      BY <1>1, <1>2, <2>2, <3>3, WithoutRightMade
    <3> QED
      BY <2>2, <3>2, <3>4 DEF ToSet
  <2> QED
    BY <1>3, <2>1, <2>2
<1>6. IsSequence(rights) /\ \A row \in ToSet(rights) : Made(row)
  <2>1. CASE rights = <<>>
    BY <2>1, EmptySequence
  <2>2. CASE /\ Join.type \in {"RIGHT", "FULL"}
             /\ rights = [i \in DOMAIN Lonely |-> WithoutLeft(right[Lonely[i]])]
    <3>1. DOMAIN right \ matched \in SUBSET Nat /\ IsFiniteSet(DOMAIN right \ matched)
      <4>1. Len(right) \in Nat /\ DOMAIN right = 1 .. Len(right)
        BY <1>4, SequenceDomain
      <4>2. IsFiniteSet(DOMAIN right) /\ DOMAIN right \subseteq Nat
        BY <4>1, FS_Interval
      <4> QED
        BY <4>2, FS_Subset
    <3>2. /\ Len(Lonely) \in Nat /\ DOMAIN Lonely = 1 .. Len(Lonely)
          /\ \A i \in DOMAIN Lonely : Lonely[i] \in DOMAIN right
      BY <3>1, AscendingLists, SequenceDomain DEF Lonely
    <3>3. IsSequence(rights) /\ DOMAIN rights = DOMAIN Lonely
      BY <2>2, <3>2, SequenceOfFunction
    <3>4. \A i \in DOMAIN Lonely : Scanned(2, right[Lonely[i]])
      BY <1>1, <3>2 DEF RowsTraced, ScannedRight, ToSet
    <3>5. Bare(schema, query.from)
      BY <1>1 DEF Bare, RowsTraced, ScannedLeft
    <3>6. \A i \in DOMAIN Lonely : Made(WithoutLeft(right[Lonely[i]]))
      BY <1>1, <1>2, <2>2, <3>4, <3>5, WithoutLeftMade
    <3> QED
      BY <2>2, <3>3, <3>6 DEF ToSet
  <2> QED
    BY <1>3, <2>1, <2>2
<1>7. ToSet(left') = ToSet(out) \cup ToSet(lefts) \cup ToSet(rights)
  BY <1>3, <1>4, <1>5, <1>6, SequenceConcat
<1>8. \A row \in ToSet(left') : Made(row)'
  BY <1>1, <1>5, <1>6, <1>7, ReadingStays DEF RowsTraced, Probed
<1>9. phase' = "filter"
  BY <1>1, <1>2
<1>10. ScannedLeft' /\ ScannedRight' /\ Probed'
  BY <1>9 DEF ScannedLeft, ScannedRight, Probed
<1>11. Answered'
  BY <1>1, <1>2, <1>8, <1>9, EmptySequence DEF Answered, Traced
<1> QED
  BY <1>10, <1>11 DEF RowsTraced

\* A scanned row of a query without a join has itself as its source.
LEMMA ScannedIsSourced ==
    ASSUME RowsKept, query.joins = <<>>, DOMAIN seen = {1}, NEW row, Scanned(1, row)
    PROVE  Sourced(Map(row))
<1>1. PICK map, a : map = Map(row) /\ a = Id(map)
  OBVIOUS
<1>2. /\ Kept(versions, map) /\ a # 0
      /\ \E i \in DOMAIN seen[1] : a = Id(seen[1][i])
  BY <1>1, ScannedIsKept
<1> DEFINE ids(k) == {0} \cup {seen[k][i][<<PrimaryKey>>].n : i \in DOMAIN seen[k]}
<1>3. a \in ids(1)
  BY <1>2 DEF Id
<1> HIDE DEF ids
<1>4. <<a>> \in [DOMAIN seen -> UNION {ids(k) : k \in DOMAIN seen}]
      /\ \A k \in DOMAIN seen : <<a>>[k] \in ids(k)
  BY <1>3
<1>5. <<a>> \in Sources
  BY <1>4 DEF Sources, ids
<1>6. ASSUME NEW name \in DOMAIN map
      PROVE  /\ Len(name) = 1
             /\ \E v \in Versions(1, a) : <<Last(name)>> \in DOMAIN v /\ v[<<Last(name)>>] = map[name]
  <2>1. name = <<name[1]>> /\ Existed(versions, a, name, map[name])
    BY <1>1, <1>2 DEF Kept, PlainRow, PlainCells
  <2>2. Len(name) = 1 /\ <<Last(name)>> = name
    BY <2>1, FullName
  <2>3. PICK v \in versions : Id(v) = a /\ name \in DOMAIN v /\ v[name] = map[name]
    BY <2>1 DEF Existed
  <2>4. v \in Versions(1, a)
    BY <1>2, <2>3 DEF Versions, Id
  <2> QED
    BY <2>2, <2>3, <2>4
<1>7. HeldBy(map, <<a>>)
  <2>1. <<a>>[1] = a /\ 1 \in DOMAIN seen
    OBVIOUS
  <2> QED
    BY <1>6, <2>1 DEF HeldBy
<1>8. OnceEqual(<<a>>)
  BY EmptySequence DEF OnceEqual
<1> QED
  BY <1>1, <1>5, <1>7, <1>8 DEF Sourced

\* A projection takes its cells from the row it projects.
LEMMA ProjectionSourced ==
    ASSUME NEW map, Sourced(map), NEW fields, NEW answer \in Projections(map, fields)
    PROVE  Sourced(answer)
<1>1. CASE fields = {}
  BY <1>1 DEF Projections
<1>2. CASE fields # {}
  <2> DEFINE there == {f \in fields : Picked(map, f) # {}}
  <2>1. PICK p \in [there -> DOMAIN map] :
           /\ \A f \in there : p[f] \in Picked(map, f)
           /\ answer = [f \in there |-> map[p[f]]]
    BY <1>2 DEF Projections
  <2>2. PICK source \in Sources : HeldBy(map, source) /\ OnceEqual(source)
    BY DEF Sourced
  <2> HIDE DEF there
  <2>3. ASSUME NEW name \in DOMAIN answer
        PROVE  \E k \in DOMAIN seen :
                  /\ Len(name) = 1 \/ Head(name) = TableAt(k)
                  /\ \E v \in Versions(k, source[k]) :
                        <<Last(name)>> \in DOMAIN v /\ v[<<Last(name)>>] = answer[name]
    <3>1. PICK cell \in DOMAIN map : cell = p[name] /\ cell \in Picked(map, name) /\ answer[name] = map[cell]
      BY <2>1, <2>3
    <3>2. cell = name \/ (Len(name) = 1 /\ Last(cell) = Last(name))
      BY <3>1 DEF Picked
    <3>3. PICK k \in DOMAIN seen :
             /\ Len(cell) = 1 \/ Head(cell) = TableAt(k)
             /\ \E v \in Versions(k, source[k]) :
                   <<Last(cell)>> \in DOMAIN v /\ v[<<Last(cell)>>] = map[cell]
      BY <2>2 DEF HeldBy
    <3> QED
      BY <3>1, <3>2, <3>3
  <2>4. HeldBy(answer, source)
    BY <2>3 DEF HeldBy
  <2> QED
    BY <2>2, <2>4 DEF Sourced
<1> QED
  BY <1>1, <1>2

LEMMA SelectStepTraced ==
    ASSUME TypeInv, RowsKept, RowsTraced, SelectStep
    PROVE  RowsTraced'
<1>1. /\ UNCHANGED <<tables, query, seen>>
      /\ phase \in {"filter", "project"} /\ phase' \in {"filter", "project", "done"}
  BY DEF SelectStep, FilterRow, Filtered, ProjectRow, Projected
<1>2. IsSequence(left) /\ IsSequence(out)
  BY DEF TypeInv, SelectType, Sequences
<1>3. ScannedLeft' /\ ScannedRight' /\ Probed'
  BY <1>1 DEF ScannedLeft, ScannedRight, Probed
<1>4. seen' = IF query'.joins = <<>> THEN <<seen'[1]>> ELSE <<seen'[1], seen'[2]>>
  BY <1>1 DEF RowsTraced, Answered
<1>5. \A row \in ToSet(left) \cup ToSet(out) : Traced(row)
  BY <1>1 DEF RowsTraced, Answered
<1>6. ASSUME FilterRow
      PROVE  Answered'
  <2>1. /\ left' = Tail(left) /\ left # <<>> /\ phase' = "filter"
        /\ out' = Append(out, Head(left)) \/ out' = out
    BY <1>6 DEF FilterRow
  <2>2. ToSet(left') \subseteq ToSet(left) /\ Head(left) \in ToSet(left)
    BY <1>2, <2>1, SequenceTail
  <2>3. ToSet(Append(out, Head(left))) = ToSet(out) \cup {Head(left)}
    BY <1>2, SequenceAppend
  <2>4. ToSet(out') \subseteq ToSet(out) \cup {Head(left)}
    BY <2>1, <2>3
  <2> QED
    BY <1>1, <1>4, <1>5, <2>1, <2>2, <2>4, ReadingStays DEF Answered
<1>7. ASSUME Filtered
      PROVE  Answered'
  <2>1. left' = out /\ ToSet(out') = {} /\ phase' = "project"
    BY <1>7, EmptySequence DEF Filtered
  <2> QED
    BY <1>1, <1>4, <1>5, <2>1, ReadingStays DEF Answered
<1>8. ASSUME ProjectRow
      PROVE  Answered'
  <2>1. left' = Tail(left) /\ left # <<>> /\ phase = "project" /\ phase' = "project"
    BY <1>8 DEF ProjectRow
  <2>2. PICK map \in Projections(Map(Head(left)), query.fields) : out' = Append(out, Own(map))
    BY <1>8 DEF ProjectRow
  <2>3. /\ ToSet(left') \subseteq ToSet(left) /\ Head(left) \in ToSet(left)
        /\ ToSet(out') = ToSet(out) \cup {Own(map)}
    BY <1>2, <2>1, <2>2, SequenceTail, SequenceAppend
  <2>4. Sourced(Map(Head(left)))
    <3>1. CASE Made(Head(left))
      BY <3>1 DEF Made, Map, Own
    <3>2. CASE query.joins = <<>> /\ Scanned(1, Head(left))
      <4>1. DOMAIN seen = {1}
        BY <1>1, <3>2 DEF RowsTraced, Answered
      <4> QED
        BY <3>2, <4>1, ScannedIsSourced
    <3> QED
      BY <1>5, <2>3, <3>1, <3>2 DEF Traced
  <2>5. Made(Own(map))
    BY <2>2, <2>4, ProjectionSourced DEF Made, Own
  <2>6. \A row \in ToSet(out') : Made(row)
    BY <2>1, <2>3, <2>5 DEF RowsTraced, Answered
  <2> QED
    BY <1>1, <1>4, <1>5, <2>1, <2>3, <2>6, ReadingStays DEF Answered, Traced
<1>9. ASSUME Projected
      PROVE  Answered'
  <2>1. left' = left /\ out' = out /\ phase = "project" /\ phase' = "done"
    BY <1>9 DEF Projected
  <2> QED
    BY <1>1, <1>4, <1>5, <2>1, ReadingStays DEF RowsTraced, Answered
<1> QED
  BY <1>3, <1>6, <1>7, <1>8, <1>9 DEF RowsTraced, SelectStep

GenuineInv == TypeInv /\ RowsKept /\ RowsTraced

LEMMA GenuineInit ==
    ASSUME PlainWrites, Init
    PROVE  GenuineInv
<1>1. phase = "idle"
  BY DEF Init
<1>2. RowsTraced
  BY <1>1 DEF RowsTraced, ScannedLeft, ScannedRight, Probed, Answered
<1> QED
  BY <1>2, TypeInit, KeptInit DEF GenuineInv

LEMMA GenuineStep ==
    ASSUME PlainWrites, PlainJoins, GenuineInv, [Next]_vars
    PROVE  GenuineInv'
<1>1. TypeInv /\ RowsKept /\ RowsTraced /\ TypeInv'
  BY TypeStep DEF GenuineInv
<1>2. ASSUME Writing
      PROVE  GenuineInv'
  <2>1. RowsKept' /\ RowsStay
    BY <1>1, <1>2, WritingKept
  <2>2. UNCHANGED select
    BY <1>1, <1>2, WritingTyped DEF TypeInv, Undisturbed
  <2>3. RowsTraced'
    BY <1>1, <2>1, <2>2, UndisturbedTraced
  <2> QED
    BY <1>1, <2>1, <2>3 DEF GenuineInv
<1>3. ASSUME UNCHANGED tables
      PROVE  RowsKept'
  BY <1>1, <1>3 DEF RowsKept, tables
<1>4. ASSUME NEW q \in Queries, Begin(q)
      PROVE  GenuineInv'
  <2>1. UNCHANGED tables /\ phase' = "scan" /\ out' = <<>>
    BY <1>4 DEF Begin
  <2>2. RowsTraced'
    BY <2>1 DEF RowsTraced, ScannedLeft, ScannedRight, Probed, Answered
  <2> QED
    BY <1>1, <1>3, <2>1, <2>2 DEF GenuineInv
<1>5. ASSUME ScanLeft \/ ScanRight \/ JoinStep \/ SelectStep
      PROVE  GenuineInv'
  <2>1. UNCHANGED tables
    BY <1>5 DEF ScanLeft, ScanRight, JoinStep, BuildIndex, ProbeRow, AddUnmatched,
                SelectStep, FilterRow, Filtered, ProjectRow, Projected
  <2>2. RowsTraced'
    BY <1>1, <1>5, ScanLeftTraced, ScanRightTraced, BuildIndexTraced, ProbeRowTraced,
       AddUnmatchedTraced, SelectStepTraced DEF JoinStep
  <2> QED
    BY <1>1, <1>3, <2>1, <2>2 DEF GenuineInv
<1>6. ASSUME Fault
      PROVE  GenuineInv'
  <2>1. phase' = "lost"
    BY <1>6 DEF Fault
  <2>2. RowsTraced'
    BY <2>1 DEF RowsTraced, ScannedLeft, ScannedRight, Probed, Answered
  <2> QED
    BY <1>1, <1>6, <2>2, FaultKept DEF GenuineInv
<1>7. ASSUME UNCHANGED vars
      PROVE  GenuineInv'
  <2>1. UNCHANGED tables /\ UNCHANGED select /\ RowsStay
    BY <1>7 DEF vars, tables, RowsStay
  <2> QED
    BY <1>1, <1>3, <2>1, UndisturbedTraced DEF GenuineInv
<1> QED
  BY <1>2, <1>4, <1>5, <1>6, <1>7 DEF Next, Writing

LEMMA GenuineInvMeans == GenuineInv => GenuineCells
BY DEF GenuineInv, RowsTraced, Answered, Made, Sourced, GenuineCells

\* Of a SELECT with one join at the most, each row of the answer is made of one
\* scanned row per table, of values these once had, and no two rows are joined
\* that never agreed on ON, although the join reads them without a lock while
\* UPDATE writes them cell by cell.
THEOREM AnswersAreGenuine == PlainWrites /\ PlainJoins => (Spec => []GenuineCells)
<1> SUFFICES ASSUME PlainWrites, PlainJoins
             PROVE  Spec => []GenuineCells
  OBVIOUS
<1>1. Init => GenuineInv
  BY GenuineInit
<1>2. GenuineInv /\ [Next]_vars => GenuineInv'
  BY GenuineStep
<1> QED
  BY <1>1, <1>2, GenuineInvMeans, PTL DEF Spec

-----------------------------------------------------------------------------
(* What the lock is good for.                                              *)

\* No two tables share a row map: the loader and INSERT make a new one for
\* each row.
ApartSeeds ==
    \A t, u \in TableName : t # u => ToSet(SeedTables[t]) \cap ToSet(SeedTables[u]) = {}

Apart == \A t, u \in TableName : t # u => ToSet(rows[t]) \cap ToSet(rows[u]) = {}

\* The cells that the UPDATE under way has still to write into a row map.
Pending(p) ==
    {cell[2] : cell \in {c \in update.todo : rows[update.table][c[1]] = p}}

Finishing(p) == [k \in Pending(p) |-> update.cells[k]]

\* A row map is whole, or will be when the UPDATE has written the rest.
MapsWhole ==
    /\ ToSet(SeedHeap) \subseteq versions
    /\ \A p \in DOMAIN heap : Pending(p) = {} => heap[p] \in versions
    /\ \A p \in DOMAIN heap : Pending(p) # {} => Assigned(heap[p], Finishing(p)) \in versions

SeenWhole == IsSequence(seen) /\ \A k \in DOMAIN seen : ToSet(seen[k]) \subseteq versions

PointsAtWhole(row) == \E p \in DOMAIN heap : row = Shared(p) /\ heap[p] \in versions

\* A SELECT from one table has whole rows in hand until an UPDATE writes.
InHandWhole ==
    query.joins = <<>> /\ ~overlapped =>
        /\ phase = "scan" => out = <<>>
        /\ phase \in {"filter", "project"} => \A row \in ToSet(left) : PointsAtWhole(row)
        /\ phase = "filter" => \A row \in ToSet(out) : PointsAtWhole(row)
        /\ phase \in {"project", "done"} /\ query.fields = {} =>
              \A row \in ToSet(out) : row.data \in versions

WholeInv == TypeInv /\ Apart /\ MapsWhole /\ SeenWhole /\ InHandWhole

\* In the table of an UPDATE only are there half-written rows, and they are
\* where they were as long as the UPDATE is.
LEMMA PendingIsLocked ==
    ASSUME WholeInv, NEW t \in TableName, ~Locked(t), NEW p \in ToSet(rows[t])
    PROVE  p \in DOMAIN heap /\ Pending(p) = {} /\ heap[p] \in versions
<1>1. p \in DOMAIN heap
  BY DEF WholeInv, TypeInv, TablesType
<1>2. ASSUME NEW cell \in update.todo, rows[update.table][cell[1]] = p
      PROVE  FALSE
  <2>1. update # NoUpdate /\ cell[1] \in DOMAIN rows[update.table]
    BY PickedStay DEF WholeInv
  <2>2. update.table \in TableName /\ p \in ToSet(rows[update.table])
    BY <1>2, <2>1 DEF WholeInv, TypeInv, TablesType, ToSet
  <2> QED
    BY <2>2 DEF WholeInv, Apart, Locked
<1>3. Pending(p) = {}
  BY <1>2 DEF Pending
<1> QED
  BY <1>1, <1>3 DEF WholeInv, MapsWhole

LEMMA PendingStays ==
    ASSUME TypeInv, update' = update,
           update # NoUpdate => rows'[update.table] = rows[update.table]
    PROVE  \A p : Pending(p)' = Pending(p) /\ Finishing(p)' = Finishing(p)
<1>1. CASE update = NoUpdate
  <2>1. update.todo = {}
    BY <1>1 DEF NoUpdate
  <2>2. \A p : Pending(p)' = {} /\ Pending(p) = {}
    BY <2>1 DEF Pending
  <2> QED
    BY <2>2 DEF Finishing
<1>2. CASE update # NoUpdate
  <2>1. \A p : Pending(p)' = Pending(p)
    BY <1>2 DEF Pending
  <2> QED
    BY <2>1 DEF Finishing
<1> QED
  BY <1>1, <1>2

LEMMA InsertWhole ==
    ASSUME TypeInv, Apart, MapsWhole, NEW t \in TableName, NEW cells, Insert(t, cells)
    PROVE  Apart' /\ MapsWhole'
<1>1. PICK row : heap' = Append(heap, row) /\ versions' = versions \cup {row}
  BY DEF Insert
<1>2. PICK n : n = Len(heap) + 1
  OBVIOUS
<1>3. /\ DOMAIN heap' = DOMAIN heap \cup {n} /\ n \notin DOMAIN heap /\ Len(heap') = n
      /\ heap'[n] = row /\ \A p \in DOMAIN heap : heap'[p] = heap[p]
  <2>1. IsSequence(heap) /\ Len(heap) \in Nat /\ DOMAIN heap = 1 .. Len(heap)
    BY SequenceDomain DEF TypeInv, TablesType
  <2>2. /\ DOMAIN heap' = 1 .. Len(heap) + 1 /\ Len(heap') = Len(heap) + 1
        /\ heap'[Len(heap) + 1] = row /\ \A p \in DOMAIN heap : heap'[p] = heap[p]
    BY <1>1, <2>1, SequenceAppend
  <2> QED
    BY <1>2, <2>1, <2>2
<1>4. DOMAIN rows = TableName /\ \A u \in TableName : IsSequence(rows[u]) /\ ToSet(rows[u]) \subseteq DOMAIN heap
  BY DEF TypeInv, TablesType
<1>5. /\ \A u \in TableName \ {t} : rows'[u] = rows[u]
      /\ ToSet(rows'[t]) = ToSet(rows[t]) \cup {n}
  <2>1. rows' = [rows EXCEPT ![t] = Append(rows[t], n)]
    BY <1>3 DEF Insert
  <2> QED
    BY <1>4, <2>1, SequenceAppend
<1>6. Apart'
  BY <1>3, <1>4, <1>5 DEF Apart
<1>7. \A p : Pending(p)' = Pending(p) /\ Finishing(p)' = Finishing(p)
  <2>1. update' = update /\ (update # NoUpdate => update.table \in TableName \ {t})
    BY DEF Insert, MayWrite, Locked, TypeInv, TablesType
  <2> QED
    BY <1>5, <2>1, PendingStays
<1>8. Pending(n) = {}
  <2>1. \A cell \in update.todo : rows[update.table][cell[1]] # n
    BY <1>3, PickedStay
  <2> QED
    BY <2>1 DEF Pending
<1> QED
  BY <1>1, <1>3, <1>6, <1>7, <1>8 DEF MapsWhole

LEMMA DeleteWhole ==
    ASSUME TypeInv, Apart, MapsWhole, NEW t \in TableName, NEW where, Delete(t, where)
    PROVE  Apart' /\ MapsWhole'
<1>1. PICK s : s = {i \in DOMAIN rows[t] : ~Satisfies(heap[rows[t][i]], where)}
  OBVIOUS
<1>2. /\ heap' = heap /\ update' = update /\ versions' = versions
      /\ rows' = [rows EXCEPT ![t] = ElementsAt(rows[t], s)]
  BY <1>1 DEF Delete
<1>3. DOMAIN rows = TableName /\ IsSequence(rows[t])
  BY DEF TypeInv, TablesType
<1>4. ToSet(ElementsAt(rows[t], s)) \subseteq ToSet(rows[t])
  <2>1. ToSet(ElementsAt(rows[t], s)) = {rows[t][i] : i \in s}
    BY <1>1, <1>3, PickedElements
  <2> QED
    BY <1>1, <2>1 DEF ToSet
<1>5. Apart'
  <2>1. \A u \in TableName : ToSet(rows'[u]) \subseteq ToSet(rows[u])
    BY <1>2, <1>3, <1>4
  <2> QED
    BY <2>1 DEF Apart
<1>6. \A p : Pending(p)' = Pending(p) /\ Finishing(p)' = Finishing(p)
  <2>1. update # NoUpdate => update.table # t
    BY DEF Delete, MayWrite, Locked
  <2>2. update # NoUpdate => rows'[update.table] = rows[update.table]
    BY <1>2, <1>3, <2>1 DEF TypeInv, TablesType
  <2> QED
    BY <1>2, <2>2, PendingStays
<1> QED
  BY <1>2, <1>5, <1>6 DEF MapsWhole

\* Before its first cell an UPDATE has all of its cells to write.
LEMMA UpdateBeginWhole ==
    ASSUME TypeInv, Apart, MapsWhole, NEW t \in TableName, NEW where, NEW cells,
           UpdateBegin(t, where, cells)
    PROVE  Apart' /\ MapsWhole'
<1>1. PICK hit : hit = {i \in DOMAIN rows[t] : Satisfies(heap[rows[t][i]], where)}
  OBVIOUS
<1>2. /\ heap' = heap /\ rows' = rows
      /\ update' = [table |-> t, cells |-> cells, todo |-> hit \X (DOMAIN cells)]
      /\ versions' = versions \cup {Assigned(heap[rows[t][i]], cells) : i \in hit}
  BY <1>1 DEF UpdateBegin
<1>3. update'.table = t /\ update'.cells = cells /\ update'.todo = hit \X (DOMAIN cells)
  BY <1>2
<1>4. \A p \in DOMAIN heap : heap[p] \in versions
  <2>1. update.todo = {}
    BY DEF UpdateBegin, NoUpdate
  <2>2. \A p : Pending(p) = {}
    BY <2>1 DEF Pending
  <2> QED
    BY <2>2 DEF MapsWhole
<1>5. ASSUME NEW p \in DOMAIN heap, Pending(p)' # {}
      PROVE  Assigned(heap[p], Finishing(p)') \in versions'
  <2>1. PICK cell \in update'.todo : rows[t][cell[1]] = p
    BY <1>2, <1>3, <1>5 DEF Pending
  <2>2. cell[1] \in hit
    BY <1>3, <2>1
  <2>3. Pending(p)' = DOMAIN cells
    <3>1. Pending(p)' \subseteq DOMAIN cells
      BY <1>3 DEF Pending
    <3>2. ASSUME NEW k \in DOMAIN cells
          PROVE  k \in Pending(p)'
      <4>1. <<cell[1], k>> \in update'.todo /\ rows'[update'.table][<<cell[1], k>>[1]] = p
        BY <1>2, <1>3, <2>1, <2>2
      <4> QED
        BY <4>1 DEF Pending
    <3> QED
      BY <3>1, <3>2
  <2>4. Assigned(heap[p], Finishing(p)') = Assigned(heap[p], cells)
    <3>1. PICK rest : rest = Finishing(p)'
      OBVIOUS
    <3>2. DOMAIN rest = DOMAIN cells /\ \A k \in DOMAIN cells : rest[k] = cells[k]
      BY <1>3, <2>3, <3>1 DEF Finishing
    <3>3. Assigned(heap[p], rest) = Assigned(heap[p], cells)
      BY <3>2 DEF Assigned
    <3> QED
      BY <3>1, <3>3
  <2> QED
    BY <1>2, <2>1, <2>2, <2>4
<1> QED
  BY <1>2, <1>4, <1>5 DEF Apart, MapsWhole

\* Each cell brings a row nearer to what it will be, and the last one there.
LEMMA WriteCellWhole ==
    ASSUME TypeInv, Apart, MapsWhole, NEW cell \in update.todo, WriteCell(cell)
    PROVE  Apart' /\ MapsWhole'
<1>1. PICK p, key : p = rows[update.table][cell[1]] /\ key = cell[2]
  OBVIOUS
<1>2. PICK map, new : map = heap[p] /\ new = Assigned(map, [k \in {key} |-> update.cells[k]])
  OBVIOUS
<1>3. p \in DOMAIN heap
  BY <1>1, PickedStay
<1>4. /\ DOMAIN heap' = DOMAIN heap /\ heap'[p] = new
      /\ \A q \in DOMAIN heap \ {p} : heap'[q] = heap[q]
  BY <1>1, <1>2, <1>3 DEF WriteCell
<1>5. /\ rows' = rows /\ versions' = versions /\ update'.table = update.table
      /\ update'.cells = update.cells /\ update'.todo = update.todo \ {cell}
  BY DEF WriteCell, TypeInv, TablesType
<1>6. \A q : q # p => Pending(q)' = Pending(q) /\ Finishing(q)' = Finishing(q)
  <2>1. \A q : q # p => Pending(q)' = Pending(q)
    BY <1>1, <1>5 DEF Pending
  <2> QED
    BY <1>5, <2>1 DEF Finishing
<1>7. Pending(p)' \subseteq Pending(p) /\ Pending(p) = Pending(p)' \cup {key}
  BY <1>1, <1>5 DEF Pending
<1>8. PICK all : all = Assigned(map, Finishing(p))
  OBVIOUS
<1>9. all \in versions
  BY <1>2, <1>3, <1>7, <1>8 DEF MapsWhole
<1>10. all = [k \in DOMAIN map \cup Pending(p) |-> IF k \in Pending(p) THEN update.cells[k] ELSE map[k]]
  BY <1>8 DEF Assigned, Finishing
<1>11. new = [k \in DOMAIN map \cup {key} |-> IF k \in {key} THEN update.cells[k] ELSE map[k]]
  BY <1>2 DEF Assigned
<1>12. CASE Pending(p)' = {}
  <2>1. new = all
    BY <1>7, <1>10, <1>11, <1>12
  <2> QED
    BY <1>4, <1>5, <1>6, <1>9, <1>12, <2>1 DEF Apart, MapsWhole
<1>13. CASE Pending(p)' # {}
  <2>1. PICK rest, whole : rest = Pending(p)' /\ whole = Assigned(heap[p], Finishing(p))'
    OBVIOUS
  <2>2. whole = [k \in DOMAIN new \cup rest |-> IF k \in rest THEN update.cells[k] ELSE new[k]]
    BY <1>4, <1>5, <2>1 DEF Assigned, Finishing
  <2>3. DOMAIN new \cup rest = DOMAIN map \cup Pending(p)
    BY <1>7, <1>11, <2>1
  <2>4. whole = all
    BY <1>7, <1>10, <1>11, <2>1, <2>2, <2>3
  <2> QED
    BY <1>4, <1>5, <1>6, <1>9, <1>13, <2>1, <2>4 DEF Apart, MapsWhole
<1> QED
  BY <1>12, <1>13

LEMMA WritingWhole ==
    ASSUME TypeInv, Apart, MapsWhole, Writing
    PROVE  Apart' /\ MapsWhole' /\ versions \subseteq versions'
<1>1. ASSUME UpdateEnd
      PROVE  Apart' /\ MapsWhole'
  <2>1. heap' = heap /\ rows' = rows /\ versions' = versions /\ update.todo = {} /\ update'.todo = {}
    BY <1>1 DEF UpdateEnd, Unlocked, NoUpdate
  <2>2. \A p : Pending(p)' = {} /\ Pending(p) = {}
    BY <2>1 DEF Pending
  <2> QED
    BY <2>1, <2>2 DEF Apart, MapsWhole
<1>2. versions \subseteq versions'
  BY DEF Writing, UpdateStep, Insert, Delete, UpdateBegin, WriteCell, UpdateEnd
<1> QED
  BY <1>1, <1>2, InsertWhole, DeleteWhole, UpdateBeginWhole, WriteCellWhole DEF Writing, UpdateStep

\* The row maps that a SELECT has in hand change only when a cell is written.
LEMMA WritingInHand ==
    ASSUME TypeInv, SeenWhole, InHandWhole, versions \subseteq versions', Writing
    PROVE  SeenWhole' /\ InHandWhole'
<1>1. UNCHANGED select
  BY WritingTyped DEF TypeInv, Undisturbed
<1>2. SeenWhole'
  BY <1>1 DEF SeenWhole, select
<1>3. ASSUME NEW cell \in update.todo, WriteCell(cell)
      PROVE  InHandWhole'
  BY <1>1, <1>3 DEF WriteCell, InHandWhole, select, Ended
<1>4. ASSUME heap' = heap, overlapped' = overlapped
      PROVE  InHandWhole'
  BY <1>1, <1>4 DEF InHandWhole, PointsAtWhole, select
<1>5. ASSUME NEW t \in TableName, NEW cells, Insert(t, cells)
      PROVE  InHandWhole'
  <2>1. PICK row : heap' = Append(heap, row) /\ overlapped' = overlapped
    BY <1>5 DEF Insert
  <2>2. IsSequence(heap)
    BY DEF TypeInv, TablesType
  <2>3. \A p \in DOMAIN heap : p \in DOMAIN heap' /\ heap'[p] = heap[p]
    BY <2>1, <2>2, SequenceAppend, SequenceDomain
  <2>4. \A row1 : PointsAtWhole(row1) => PointsAtWhole(row1)'
    BY <2>3 DEF PointsAtWhole
  <2> QED
    BY <1>1, <2>1, <2>4 DEF InHandWhole, select
<1> QED
  BY <1>2, <1>3, <1>4, <1>5 DEF Writing, UpdateStep, Delete, UpdateBegin, UpdateEnd

LEMMA ContentsWhole ==
    ASSUME WholeInv, NEW t \in TableName, ~Locked(t)
    PROVE  /\ ToSet(Contents(t)) \subseteq versions
           /\ \A p \in ToSet(rows[t]) : PointsAtWhole(Shared(p))
<1>1. \A p \in ToSet(rows[t]) : p \in DOMAIN heap /\ heap[p] \in versions
  BY PendingIsLocked
<1> QED
  BY <1>1 DEF Contents, PointsAtWhole, ToSet

LEMMA ScanWhole ==
    ASSUME WholeInv, ScanLeft \/ ScanRight
    PROVE  SeenWhole' /\ InHandWhole'
<1>1. TypeInv /\ query \in Queries /\ query' = query /\ versions' = versions /\ heap' = heap
  BY DEF WholeInv, TypeInv, SelectType, Planned, ScanLeft, ScanRight, tables
<1>2. ASSUME ScanLeft
      PROVE  SeenWhole' /\ InHandWhole'
  <2>1. PICK t : t = query.from
    OBVIOUS
  <2>2. t \in TableName /\ ~Locked(t) /\ IsSequence(rows[t])
    BY <1>1, <1>2, <2>1, JoinsAreSequences DEF ScanLeft, MayRead, TypeInv, TablesType
  <2>3. SeenWhole'
    <3>1. seen' = <<Contents(t)>>
      BY <1>2, <2>1 DEF ScanLeft
    <3>2. IsSequence(seen') /\ \A k \in DOMAIN seen' : seen'[k] = Contents(t)
      <4>1. seen' = [k \in 1 .. 1 |-> Contents(t)]
        BY <3>1
      <4> QED
        BY <4>1, SequenceOfFunction
    <3> QED
      BY <1>1, <2>2, <3>2, ContentsWhole DEF SeenWhole
  <2>4. CASE query.joins = <<>>
    <3>1. PICK s : s = {i \in DOMAIN rows[t] : Satisfies(heap[rows[t][i]], query.where)}
      OBVIOUS
    <3>2. left' = Pointers(ElementsAt(rows[t], s)) /\ phase' = "filter" /\ out' = out
      BY <1>2, <2>1, <2>4, <3>1 DEF ScanLeft
    <3>3. IsSequence(ElementsAt(rows[t], s)) /\ ToSet(ElementsAt(rows[t], s)) \subseteq ToSet(rows[t])
      <4>1. IsSequence(ElementsAt(rows[t], s)) /\ ToSet(ElementsAt(rows[t], s)) = {rows[t][i] : i \in s}
        BY <2>2, <3>1, PickedElements
      <4> QED
        BY <3>1, <4>1 DEF ToSet
    <3>4. \A row \in ToSet(left') : PointsAtWhole(row)
      <4>1. \A row \in ToSet(left') : \E p \in ToSet(ElementsAt(rows[t], s)) : row = Shared(p)
        BY <3>2, <3>3, PointersTyped
      <4> QED
        BY <2>2, <3>3, <4>1, ContentsWhole
    <3>5. overlapped' = overlapped /\ (~overlapped => out = <<>>)
      BY <1>2, <2>4 DEF ScanLeft, WholeInv, InHandWhole
    <3> QED
      BY <1>1, <2>3, <3>2, <3>4, <3>5, EmptySequence DEF InHandWhole, PointsAtWhole
  <2>5. CASE query.joins # <<>>
    BY <1>1, <2>3, <2>5 DEF InHandWhole
  <2> QED
    BY <2>4, <2>5
<1>3. ASSUME ScanRight
      PROVE  SeenWhole' /\ InHandWhole'
  <2>1. phase' = "index"
    BY <1>3 DEF ScanRight
  <2>2. InHandWhole'
    BY <2>1 DEF InHandWhole
  <2>3. PICK t : t = Join.table
    OBVIOUS
  <2>4. t \in TableName
    <3>1. joined + 1 \in DOMAIN query.joins
      <4>1. joined \in Nat /\ joined < Len(query.joins)
        BY <1>3 DEF ScanRight, WholeInv, TypeInv, SelectType, Planned
      <4> QED
        BY <1>1, <4>1, JoinsAreSequences, SequenceDomain
    <3> QED
      BY <1>1, <2>3, <3>1, QueryAssumption DEF IsQuery, Join
  <2>5. seen' = Append(seen, Contents(t)) /\ ~Locked(t)
    BY <1>3, <2>3 DEF ScanRight, MayRead
  <2>6. /\ IsSequence(seen')
        /\ \A k \in DOMAIN seen' : seen'[k] = Contents(t) \/ (k \in DOMAIN seen /\ seen'[k] = seen[k])
    BY <2>5, SequenceAppend, SequenceDomain DEF WholeInv, SeenWhole
  <2> QED
    BY <1>1, <2>2, <2>4, <2>5, <2>6, ContentsWhole DEF WholeInv, SeenWhole
<1> QED
  BY <1>2, <1>3

\* WHERE once more, and the columns, of rows that are whole.
LEMMA SelectStepWhole ==
    ASSUME WholeInv, SelectStep
    PROVE  InHandWhole'
<1>1. /\ IsSequence(left) /\ IsSequence(out)
      /\ heap' = heap /\ versions' = versions /\ query' = query /\ overlapped' = overlapped
  BY DEF WholeInv, TypeInv, SelectType, Sequences, SelectStep, FilterRow, Filtered, ProjectRow,
         Projected, tables
<1>2. SUFFICES ASSUME query.joins = <<>>, ~overlapped
               PROVE  InHandWhole'
  BY <1>1 DEF InHandWhole
<1>3. \A row : PointsAtWhole(row)' <=> PointsAtWhole(row)
  BY <1>1 DEF PointsAtWhole
<1>4. ASSUME left # <<>>
      PROVE  Head(left) \in ToSet(left) /\ ToSet(Tail(left)) \subseteq ToSet(left)
  BY <1>1, <1>4, SequenceTail
<1>5. ASSUME FilterRow
      PROVE  InHandWhole'
  <2>1. /\ phase = "filter" /\ phase' = phase /\ left # <<>> /\ left' = Tail(left)
        /\ out' = out \/ out' = Append(out, Head(left))
    BY <1>5 DEF FilterRow
  <2>2. ToSet(out') \subseteq ToSet(out) \cup {Head(left)}
    BY <1>1, <2>1, SequenceAppend
  <2> QED
    BY <1>2, <1>3, <1>4, <2>1, <2>2 DEF WholeInv, InHandWhole
<1>6. ASSUME Filtered
      PROVE  InHandWhole'
  <2>1. phase = "filter" /\ phase' = "project" /\ left' = out /\ out' = <<>>
    BY <1>6 DEF Filtered
  <2> QED
    BY <1>2, <1>3, <2>1, EmptySequence DEF WholeInv, InHandWhole
<1>7. ASSUME ProjectRow
      PROVE  InHandWhole'
  <2>1. PICK map \in Projections(Map(Head(left)), query.fields) : out' = Append(out, Own(map))
    BY <1>7 DEF ProjectRow
  <2>2. phase = "project" /\ phase' = phase /\ left # <<>> /\ left' = Tail(left)
    BY <1>7 DEF ProjectRow
  <2>3. ToSet(out') = ToSet(out) \cup {Own(map)} /\ Own(map).data = map
    BY <1>1, <2>1, SequenceAppend DEF Own
  <2>4. ASSUME query.fields = {}
        PROVE  map \in versions
    <3>1. map = Map(Head(left))
      BY <2>1, <2>4 DEF Projections
    <3>2. PointsAtWhole(Head(left))
      BY <1>2, <1>4, <2>2 DEF WholeInv, InHandWhole
    <3> QED
      BY <3>1, <3>2 DEF PointsAtWhole, Map, Shared
  <2> QED
    BY <1>1, <1>2, <1>3, <1>4, <2>2, <2>3, <2>4 DEF WholeInv, InHandWhole
<1>8. ASSUME Projected
      PROVE  InHandWhole'
  <2>1. phase = "project" /\ phase' = "done" /\ out' = out
    BY <1>8 DEF Projected
  <2> QED
    BY <1>1, <1>2, <2>1 DEF WholeInv, InHandWhole
<1> QED
  BY <1>5, <1>6, <1>7, <1>8 DEF SelectStep

LEMMA WholeInit ==
    ASSUME ApartSeeds, Init
    PROVE  WholeInv
<1>1. \A p : Pending(p) = {}
  BY DEF Init, NoUpdate, Pending
<1>2. MapsWhole
  BY <1>1 DEF Init, MapsWhole, ToSet
<1>3. Apart /\ SeenWhole /\ InHandWhole
  BY EmptySequence DEF Init, ApartSeeds, Apart, SeenWhole, InHandWhole
<1> QED
  BY <1>2, <1>3, TypeInit DEF WholeInv

LEMMA WholeStep ==
    ASSUME ApartSeeds, WholeInv, [Next]_vars
    PROVE  WholeInv'
<1>1. TypeInv'
  BY TypeStep DEF WholeInv
<1>2. CASE Writing
  BY <1>1, <1>2, WritingWhole, WritingInHand DEF WholeInv
<1>3. ASSUME UNCHANGED tables
      PROVE  Apart' /\ MapsWhole'
  BY <1>3 DEF WholeInv, Apart, MapsWhole, Pending, Finishing, tables
<1>4. ASSUME NEW q \in Queries, Begin(q)
      PROVE  WholeInv'
  <2>1. UNCHANGED tables /\ phase' = "scan" /\ out' = <<>> /\ seen' = <<>>
    BY <1>4 DEF Begin
  <2> QED
    BY <1>1, <1>3, <2>1, EmptySequence DEF WholeInv, SeenWhole, InHandWhole
<1>5. CASE ScanLeft \/ ScanRight
  BY <1>1, <1>3, <1>5, ScanWhole DEF WholeInv, ScanLeft, ScanRight
<1>6. CASE JoinStep
  <2>1. UNCHANGED tables /\ seen' = seen /\ query' = query /\ phase \in {"index", "probe"}
    BY <1>6 DEF JoinStep, BuildIndex, ProbeRow, AddUnmatched
  <2>2. query.joins # <<>>
    <3>1. joined \in Nat /\ joined < Len(query.joins)
      BY <2>1 DEF WholeInv, TypeInv, SelectType, Planned
    <3> QED
      BY <3>1
  <2> QED
    BY <1>1, <1>3, <2>1, <2>2 DEF WholeInv, SeenWhole, InHandWhole, tables
<1>7. CASE SelectStep
  <2>1. UNCHANGED tables /\ seen' = seen
    BY <1>7 DEF SelectStep, FilterRow, Filtered, ProjectRow, Projected
  <2> QED
    BY <1>1, <1>3, <1>7, <2>1, SelectStepWhole DEF WholeInv, SeenWhole, tables
<1>8. CASE Fault
  <2>1. /\ phase' = "lost" /\ heap' = SeedHeap /\ rows' = SeedTables /\ update' = NoUpdate
        /\ versions' = versions /\ seen' = seen
    BY <1>8 DEF Fault
  <2>2. \A p : Pending(p)' = {}
    BY <2>1 DEF Pending, NoUpdate
  <2>3. MapsWhole'
    BY <2>1, <2>2 DEF WholeInv, MapsWhole, ToSet
  <2> QED
    BY <1>1, <2>1, <2>3 DEF WholeInv, ApartSeeds, Apart, SeenWhole, InHandWhole
<1>9. CASE UNCHANGED vars
  BY <1>1, <1>3, <1>9 DEF WholeInv, SeenWhole, InHandWhole, PointsAtWhole, vars, select, tables
<1> QED
  BY <1>2, <1>4, <1>5, <1>6, <1>7, <1>8, <1>9 DEF Next, Writing

LEMMA WholeInvMeans == WholeInv => WholeRows
BY DEF WholeInv, SeenWhole, InHandWhole, WholeRows, NoTornRow, ToSet

\* A scan never finds a row that is half updated, for any tables, queries and
\* joins: it takes the read lock that the UPDATE holds, and no other table has
\* the row.  And a SELECT without a join gives the row out whole if no UPDATE
\* writes a cell between its scan and its end.
THEOREM LockShieldsRows == ApartSeeds => (Spec => []WholeRows)
<1> SUFFICES ASSUME ApartSeeds
             PROVE  Spec => []WholeRows
  OBVIOUS
<1>1. Init => WholeInv
  BY WholeInit
<1>2. WholeInv /\ [Next]_vars => WholeInv'
  BY WholeStep
<1> QED
  BY <1>1, <1>2, WholeInvMeans, PTL DEF Spec

=============================================================================
