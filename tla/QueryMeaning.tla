---------------------------- MODULE QueryMeaning ----------------------------
(***************************************************************************)
(* What SQL_REFERENCE.md says a SELECT means, on what its scans have found *)
(* in the tables, and what may be expected of the answer.                  *)
(*                                                                         *)
(* A row of the joined tables is a sequence of positions in them, 0 for    *)
(* the NULLs of an outer join.                                             *)
(***************************************************************************)
EXTENDS Query

TableAt(k) == IF k = 1 THEN query.from ELSE query.joins[k - 1].table

\* The full names of the cells that such a row has in the k-th table, and the
\* value of one.
Names(tuple, k) ==
    IF tuple[k] = 0 THEN {<<TableAt(k), c.name>> : c \in ToSet(Schema[TableAt(k)])}
    ELSE {<<TableAt(k)>> \o c : c \in DOMAIN seen[k][tuple[k]]}
CellOf(tuple, k, name) == IF tuple[k] = 0 THEN Null ELSE seen[k][tuple[k]][Tail(name)]

Place(tuple, name) == CHOOSE k \in DOMAIN tuple : name \in Names(tuple, k)

Cells(tuple) ==
    [name \in UNION {Names(tuple, k) : k \in DOMAIN tuple} |->
        CellOf(tuple, Place(tuple, name), name)]

\* The cell that a name, with or without the table, stands for.
Meant(cells, name) == {k \in DOMAIN cells : k = name \/ (Len(name) = 1 /\ Tail(k) = name)}

\* ... if there is one, or one of those that it may stand for.
TheMeant(cells, name) == CHOOSE k \in Meant(cells, name) : TRUE

\* ON: both cells are there, none is NULL, and they are equal as WHERE has it.
Matches(tuple, join) ==
    LET cells == Cells(tuple)
    IN  /\ {join.left, join.right} \subseteq DOMAIN cells
        /\ cells[join.left] # Null
        /\ Compared(cells[join.left]) = Compared(cells[join.right])

\* The rows of the first k tables, made of those of the first k - 1.
JoinedTo(lefts, k) ==
    LET join    == query.joins[k - 1]
        rights  == DOMAIN seen[k]
        pairs   == {Append(p[1], p[2]) : p \in lefts \X rights}
        inner   == {t \in pairs : Matches(t, join)}
        alone   == {l \in lefts : \A r \in rights : Append(l, r) \notin inner}
        others  == {r \in rights : \A l \in lefts : Append(l, r) \notin inner}
        nothing == [i \in 1 .. k - 1 |-> 0]
    IN  inner
        \cup (IF join.type \in {"LEFT", "FULL"} THEN {Append(l, 0) : l \in alone} ELSE {})
        \cup (IF join.type \in {"RIGHT", "FULL"} THEN {Append(nothing, r) : r \in others} ELSE {})

\* FROM and the joins, one after the other.
FromJoins ==
    LET step[k \in 1 .. Len(query.joins) + 1] ==
          IF k = 1 THEN {<<i>> : i \in DOMAIN seen[1]} ELSE JoinedTo(step[k - 1], k)
    IN  step[Len(query.joins) + 1]

Wanted(tuple) ==
    \E conjunction \in query.where : \A i \in DOMAIN conjunction :
        \E k \in Meant(Cells(tuple), conjunction[i].column) :
            Compared(Cells(tuple)[k]) \in conjunction[i].accepts

\* The columns of the answer; * gives those of a single table their bare names.
Shown(tuple) ==
    LET cells == Cells(tuple)
        there == {f \in query.fields : Meant(cells, f) # {}}
    IN  IF query.fields # {} THEN [f \in there |-> cells[TheMeant(cells, f)]]
        ELSE IF query.joins # <<>> THEN cells
        ELSE [k \in {Tail(k) : k \in DOMAIN cells} |-> cells[<<query.from>> \o k]]

-----------------------------------------------------------------------------
\* Times a map is in the answer, and times it should be.
Given(map) == Cardinality({i \in DOMAIN out : out[i].data = map})
Due(map) == Cardinality({t \in FromJoins : Wanted(t) /\ Shown(t) = map})

\* The answer consists of the rows that SQL_REFERENCE.md:238-243 promises of the
\* four kinds of JOIN, each as often as it should, whatever was inserted and
\* deleted since the scans, as long as no UPDATE wrote in the meantime.
AnswerExact ==
    phase = "done" /\ ~overlapped =>
        \A map \in {row.data : row \in ToSet(out)} \cup {Shown(t) : t \in FromJoins} :
            Given(map) = Due(map)

\* The states that a row of the table at k was in, by its id; 0 for the NULLs.
Versions(k, id) ==
    IF id = 0 THEN {[c \in {<<s.name>> : s \in ToSet(Schema[TableAt(k)])} |-> Null]}
    ELSE {v \in versions : v[<<PrimaryKey>>].n = id}

\* One scanned row, or the NULLs, of each table.
Sources ==
    LET ids(k) == {0} \cup {seen[k][i][<<PrimaryKey>>].n : i \in DOMAIN seen[k]}
    IN  {source \in [DOMAIN seen -> UNION {ids(k) : k \in DOMAIN seen}] :
            \A k \in DOMAIN seen : source[k] \in ids(k)}

\* Every cell of the map was at some time in the row its table is given.
HeldBy(map, source) ==
    \A name \in DOMAIN map : \E k \in DOMAIN seen :
        /\ Len(name) = 1 \/ Head(name) = TableAt(k)
        /\ \E v \in Versions(k, source[k]) :
              <<Last(name)>> \in DOMAIN v /\ v[<<Last(name)>>] = map[name]

\* Rows that were joined had equal values in the two columns of ON, each of them
\* at some time; only an outer join leaves a row alone.
OnceEqual(source) ==
    \A j \in DOMAIN query.joins :
        LET join == query.joins[j]
            l    == CHOOSE k \in DOMAIN seen : TableAt(k) = Head(join.left)
        IN  \/ source[j + 1] = 0 /\ join.type \in {"LEFT", "FULL"}
            \/ source[l] = 0 /\ join.type \in {"RIGHT", "FULL"}
            \/ \E v \in Versions(l, source[l]), w \in Versions(j + 1, source[j + 1]) :
                  /\ Tail(join.left) \in DOMAIN v /\ Tail(join.right) \in DOMAIN w
                  /\ v[Tail(join.left)] # Null
                  /\ Compared(v[Tail(join.left)]) = Compared(w[Tail(join.right)])

\* Even when UPDATEs write the rows a join reads without a lock, between the
\* building of its index, the probe and the end: each row of the answer is made
\* of one scanned row per table, of values these once had, and no two rows are
\* joined that never agreed on ON.
GenuineCells ==
    phase = "done" =>
        \A row \in ToSet(out) : \E source \in Sources :
            HeldBy(row.data, source) /\ OnceEqual(source)

\* A SELECT without a join returns rows as they were before or after a statement,
\* and not the half of an UPDATE: README.md:44 promises "Thread-safe
\* operations using read/write locks".
NoTornRow ==
    phase = "done" /\ query.joins = <<>> /\ query.fields = {} =>
        \A i \in DOMAIN out : out[i].data \in versions

\* What the lock is good for: a scan, of any table and for any query, finds rows as
\* they were before or after a statement; and so does a SELECT without a join,
\* unless an UPDATE wrote after its scan.
WholeRows ==
    /\ \A k \in DOMAIN seen : ToSet(seen[k]) \subseteq versions
    /\ ~overlapped => NoTornRow

\* Every SELECT comes to an end while others write: its joins work on the rows
\* that were scanned, and it waits for one lock at a time.
SelectEnds == phase \notin Ended ~> phase \in Ended

=============================================================================
