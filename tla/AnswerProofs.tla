---------------------------- MODULE AnswerProofs ----------------------------
(***************************************************************************)
(* The answer to a SELECT is the one that QueryMeaning defines, for one    *)
(* join at the most, and as long as no UPDATE writes.                      *)
(***************************************************************************)
EXTENDS QueryProofs, FunctionTheorems

-----------------------------------------------------------------------------
(* Sequences of rows that list the maps a function gives, each once.       *)

OneToOne(b, S, T) ==
    /\ b \in [S -> T]
    /\ \A x, y \in S : b[x] = b[y] => x = y
    /\ \A z \in T : \E x \in S : b[x] = z

\* A row that is the map, or points to it in the heap.
IsIn(h, row, map) == (row = Shared(row.at) /\ row.at \in DOMAIN h /\ h[row.at] = map) \/ row = Own(map)

\* In which order the rows stand does not matter.
Lists(h, s, f) ==
    /\ IsSequence(s)
    /\ \E b : OneToOne(b, DOMAIN s, DOMAIN f) /\ \A i \in DOMAIN s : IsIn(h, s[i], f[b[i]])

LEMMA ListsNothing ==
    ASSUME NEW h, NEW f, DOMAIN f = {}
    PROVE  Lists(h, <<>>, f)
<1>1. IsSequence(<<>>) /\ DOMAIN <<>> = {}
  BY EmptySequence
<1>2. PICK b : b = [x \in {} |-> x]
  OBVIOUS
<1>3. OneToOne(b, DOMAIN <<>>, DOMAIN f)
  BY <1>1, <1>2 DEF OneToOne
<1> QED
  BY <1>1, <1>3 DEF Lists

\* What a list becomes when its rows change one by one, under other names.
LEMMA ListsChanged ==
    ASSUME NEW h, NEW s, NEW f, Lists(h, s, f),
           NEW k, NEW u, NEW g, IsSequence(u), DOMAIN u = DOMAIN s,
           NEW c, OneToOne(c, DOMAIN f, DOMAIN g),
           \A i \in DOMAIN s : \A x \in DOMAIN f : IsIn(h, s[i], f[x]) => IsIn(k, u[i], g[c[x]])
    PROVE  Lists(k, u, g)
<1>1. PICK b : OneToOne(b, DOMAIN s, DOMAIN f) /\ \A i \in DOMAIN s : IsIn(h, s[i], f[b[i]])
  BY DEF Lists
<1>2. PICK d : d = [i \in DOMAIN s |-> c[b[i]]]
  OBVIOUS
<1>3. OneToOne(d, DOMAIN u, DOMAIN g)
  BY <1>1, <1>2 DEF OneToOne
<1>4. \A i \in DOMAIN u : IsIn(k, u[i], g[d[i]])
  BY <1>1, <1>2 DEF OneToOne
<1> QED
  BY <1>3, <1>4 DEF Lists

\* A list of what another function gives of the same names.
LEMMA ListsSame ==
    ASSUME NEW h, NEW s, NEW f, Lists(h, s, f), NEW g, DOMAIN g = DOMAIN f,
           \A x \in DOMAIN f : g[x] = f[x]
    PROVE  Lists(h, s, g)
<1>1. PICK b : OneToOne(b, DOMAIN s, DOMAIN f) /\ \A i \in DOMAIN s : IsIn(h, s[i], f[b[i]])
  BY DEF Lists
<1>2. \A i \in DOMAIN s : g[b[i]] = f[b[i]]
  BY <1>1 DEF OneToOne
<1>3. \A i \in DOMAIN s : IsIn(h, s[i], g[b[i]])
  BY <1>1, <1>2
<1> QED
  BY <1>1, <1>3 DEF Lists

\* The row maps there are stay as they are.
LEMMA ListsStays ==
    ASSUME NEW h, NEW s, NEW f, Lists(h, s, f),
           NEW k, \A p \in DOMAIN h : p \in DOMAIN k /\ k[p] = h[p]
    PROVE  Lists(k, s, f)
<1>1. PICK b : OneToOne(b, DOMAIN s, DOMAIN f) /\ \A i \in DOMAIN s : IsIn(h, s[i], f[b[i]])
  BY DEF Lists
<1>2. \A row, map : IsIn(h, row, map) => IsIn(k, row, map)
  BY DEF IsIn
<1>3. \A i \in DOMAIN s : IsIn(k, s[i], f[b[i]])
  BY <1>1, <1>2
<1> QED
  BY <1>1, <1>3 DEF Lists

LEMMA ListsAppend ==
    ASSUME NEW h, NEW s, NEW f, Lists(h, s, f), NEW t, t \notin DOMAIN f,
           NEW g, DOMAIN g = DOMAIN f \cup {t}, \A x \in DOMAIN f : g[x] = f[x],
           NEW row, IsIn(h, row, g[t])
    PROVE  Lists(h, Append(s, row), g)
<1>1. PICK b : OneToOne(b, DOMAIN s, DOMAIN f) /\ \A i \in DOMAIN s : IsIn(h, s[i], f[b[i]])
  BY DEF Lists
<1>2. PICK n : n = Len(s) + 1
  OBVIOUS
<1>3. IsSequence(s) /\ Len(s) \in Nat /\ DOMAIN s = 1 .. Len(s)
  BY SequenceDomain DEF Lists
<1>4. PICK u : u = Append(s, row)
  OBVIOUS
<1>5. /\ IsSequence(u) /\ DOMAIN u = DOMAIN s \cup {n} /\ n \notin DOMAIN s
      /\ \A i \in DOMAIN s : u[i] = s[i]
      /\ u[n] = row
  <2>1. 1 .. Len(s) + 1 = (1 .. Len(s)) \cup {Len(s) + 1} /\ Len(s) + 1 \notin 1 .. Len(s)
    BY <1>3
  <2> QED
    BY <1>2, <1>3, <1>4, <2>1, SequenceAppend
<1>6. PICK d : d = [i \in DOMAIN s \cup {n} |-> IF i = n THEN t ELSE b[i]]
  OBVIOUS
<1>7. OneToOne(d, DOMAIN u, DOMAIN g)
  BY <1>1, <1>5, <1>6 DEF OneToOne
<1>8. \A i \in DOMAIN u : IsIn(h, u[i], g[d[i]])
  BY <1>1, <1>5, <1>6 DEF OneToOne
<1> QED
  BY <1>4, <1>5, <1>7, <1>8 DEF Lists

LEMMA ListsConcat ==
    ASSUME NEW h, NEW s, NEW f, Lists(h, s, f), NEW u, NEW g, Lists(h, u, g),
           DOMAIN f \cap DOMAIN g = {},
           NEW e, DOMAIN e = DOMAIN f \cup DOMAIN g,
           \A x \in DOMAIN f : e[x] = f[x], \A x \in DOMAIN g : e[x] = g[x]
    PROVE  Lists(h, s \o u, e)
<1>1. PICK b : OneToOne(b, DOMAIN s, DOMAIN f) /\ \A i \in DOMAIN s : IsIn(h, s[i], f[b[i]])
  BY DEF Lists
<1>2. PICK c : OneToOne(c, DOMAIN u, DOMAIN g) /\ \A i \in DOMAIN u : IsIn(h, u[i], g[c[i]])
  BY DEF Lists
<1>3. PICK n, m : n = Len(s) /\ m = Len(u)
  OBVIOUS
<1>4. n \in Nat /\ m \in Nat /\ DOMAIN s = 1 .. n /\ DOMAIN u = 1 .. m /\ IsSequence(s) /\ IsSequence(u)
  BY <1>3, SequenceDomain DEF Lists
<1>5. PICK v : v = s \o u
  OBVIOUS
<1>6. /\ IsSequence(v) /\ DOMAIN v = 1 .. n + m
      /\ \A i \in 1 .. n : v[i] = s[i]
      /\ \A i \in n + 1 .. n + m : v[i] = u[i - n]
  <2>1. PICK S : S = ToSet(s) \cup ToSet(u)
    OBVIOUS
  <2>2. s \in Seq(S) /\ u \in Seq(S)
    BY <1>4, <2>1 DEF IsSequence
  <2>3. /\ DOMAIN v = 1 .. n + m
        /\ \A i \in 1 .. n : v[i] = s[i]
        /\ \A i \in n + 1 .. n + m : v[i] = u[i - n]
    BY <1>3, <1>4, <1>5, <2>2
  <2> QED
    BY <1>4, <1>5, <2>3, SequenceConcat
<1>7. \A i \in 1 .. n + m : i \in 1 .. n \/ (i \in n + 1 .. n + m /\ i - n \in 1 .. m)
  BY <1>4
<1>8. PICK d : d = [i \in 1 .. n + m |-> IF i <= n THEN b[i] ELSE c[i - n]]
  OBVIOUS
<1>9. /\ \A i \in 1 .. n : i \in 1 .. n + m /\ d[i] = b[i]
      /\ \A i \in 1 .. m : i + n \in n + 1 .. n + m /\ i + n \in 1 .. n + m
                           /\ (i + n) - n = i /\ d[i + n] = c[i]
      /\ \A i \in n + 1 .. n + m : d[i] = c[i - n]
  BY <1>4, <1>8
<1>10. OneToOne(d, DOMAIN v, DOMAIN e)
  <2>1. d \in [1 .. n + m -> DOMAIN e]
    BY <1>1, <1>2, <1>4, <1>7, <1>8, <1>9 DEF OneToOne
  <2>2. \A z \in DOMAIN e : \E i \in 1 .. n + m : d[i] = z
    <3>1. \A z \in DOMAIN f : \E i \in 1 .. n + m : d[i] = z
      BY <1>1, <1>4, <1>9 DEF OneToOne
    <3>2. \A z \in DOMAIN g : \E i \in 1 .. n + m : d[i] = z
      <4> SUFFICES ASSUME NEW z \in DOMAIN g
                   PROVE  \E i \in 1 .. n + m : d[i] = z
        OBVIOUS
      <4>1. PICK i \in 1 .. m : c[i] = z
        BY <1>2, <1>4 DEF OneToOne
      <4> QED
        BY <1>9, <4>1
    <3> QED
      BY <3>1, <3>2
  <2>3. ASSUME NEW i \in 1 .. n + m, NEW j \in 1 .. n + m, d[i] = d[j]
        PROVE  i = j
    <3>1. CASE i \in 1 .. n /\ j \in 1 .. n
      BY <1>1, <1>4, <1>9, <2>3, <3>1 DEF OneToOne
    <3>2. CASE i \in n + 1 .. n + m /\ j \in n + 1 .. n + m
      <4>1. i - n \in 1 .. m /\ j - n \in 1 .. m
        BY <1>4, <3>2
      <4>2. c[i - n] = c[j - n]
        BY <1>9, <2>3, <3>2
      <4>3. i - n = j - n
        BY <1>2, <1>4, <4>1, <4>2 DEF OneToOne
      <4> QED
        BY <1>4, <3>2, <4>3
    <3>3. ASSUME NEW p \in 1 .. n, NEW q \in n + 1 .. n + m
          PROVE  d[p] # d[q]
      <4>1. d[p] \in DOMAIN f
        BY <1>1, <1>4, <1>9, <3>3 DEF OneToOne
      <4>2. q - n \in 1 .. m
        BY <1>4
      <4>3. d[q] \in DOMAIN g
        BY <1>2, <1>4, <1>9, <4>2 DEF OneToOne
      <4> QED
        BY <4>1, <4>3
    <3> QED
      BY <1>7, <2>3, <3>1, <3>2, <3>3
  <2> QED
    BY <1>6, <2>1, <2>2, <2>3 DEF OneToOne
<1>11. \A i \in DOMAIN v : IsIn(h, v[i], e[d[i]])
  <2> SUFFICES ASSUME NEW i \in 1 .. n + m
               PROVE  IsIn(h, v[i], e[d[i]])
    BY <1>6
  <2>1. CASE i \in 1 .. n
    BY <1>1, <1>4, <1>6, <1>9, <2>1 DEF OneToOne
  <2>2. CASE i \in n + 1 .. n + m /\ i - n \in 1 .. m
    <3>1. c[i - n] \in DOMAIN g /\ IsIn(h, u[i - n], g[c[i - n]])
      BY <1>2, <1>4, <2>2 DEF OneToOne
    <3> QED
      BY <1>6, <1>9, <2>2, <3>1
  <2> QED
    BY <1>7, <2>1, <2>2
<1> QED
  BY <1>5, <1>6, <1>10, <1>11 DEF Lists

LEMMA ListsTail ==
    ASSUME NEW h, NEW s, NEW f, Lists(h, s, f), s # <<>>
    PROVE  \E x, g :
              /\ x \in DOMAIN f
              /\ IsIn(h, Head(s), f[x])
              /\ DOMAIN g = DOMAIN f \ {x} /\ \A y \in DOMAIN g : g[y] = f[y]
              /\ Lists(h, Tail(s), g)
<1>1. PICK b : OneToOne(b, DOMAIN s, DOMAIN f) /\ \A i \in DOMAIN s : IsIn(h, s[i], f[b[i]])
  BY DEF Lists
<1>2. PICK n : n = Len(s)
  OBVIOUS
<1>3. PICK u : u = Tail(s)
  OBVIOUS
<1>4. /\ n \in Nat /\ n # 0 /\ DOMAIN s = 1 .. n /\ IsSequence(u) /\ DOMAIN u = 1 .. n - 1
      /\ Head(s) = s[1] /\ \A i \in 1 .. n - 1 : u[i] = s[i + 1]
  <2>1. s \in Seq(ToSet(s))
    BY DEF Lists, IsSequence
  <2> QED
    BY <1>2, <1>3, <2>1, SequenceTail DEF IsSequence
<1>5. PICK x : x = b[1]
  OBVIOUS
<1>6. x \in DOMAIN f /\ IsIn(h, Head(s), f[x])
  <2>1. 1 \in DOMAIN s
    BY <1>4
  <2> QED
    BY <1>1, <1>4, <1>5, <2>1 DEF OneToOne
<1>7. PICK g : g = [y \in DOMAIN f \ {x} |-> f[y]]
  OBVIOUS
<1>8. PICK d : d = [i \in 1 .. n - 1 |-> b[i + 1]]
  OBVIOUS
<1>9. \A i \in 1 .. n - 1 : i + 1 \in 1 .. n /\ i + 1 # 1
  BY <1>4
<1>10. /\ \A i \in 1 .. n - 1 : b[i + 1] \in DOMAIN g
       /\ \A y \in DOMAIN g : \E i \in 1 .. n - 1 : b[i + 1] = y
  <2>1. \A i \in 1 .. n - 1 : b[i + 1] \in DOMAIN g
    <3>1. \A i \in 1 .. n : i # 1 => b[i] \in DOMAIN f /\ b[i] # x
      <4>1. 1 \in 1 .. n
        BY <1>4
      <4> QED
        BY <1>1, <1>4, <1>5, <4>1 DEF OneToOne
    <3> QED
      BY <1>7, <1>9, <3>1
  <2>2. \A y \in DOMAIN g : \E i \in 1 .. n - 1 : b[i + 1] = y
    <3> SUFFICES ASSUME NEW y \in DOMAIN f, y # x
                 PROVE  \E i \in 1 .. n - 1 : b[i + 1] = y
      BY <1>7
    <3>1. PICK j \in 1 .. n : b[j] = y
      BY <1>1, <1>4 DEF OneToOne
    <3>2. j # 1
      BY <1>5, <3>1
    <3>3. j - 1 \in 1 .. n - 1 /\ (j - 1) + 1 = j
      BY <1>4, <3>2
    <3> QED
      BY <3>1, <3>3
  <2> QED
    BY <2>1, <2>2
<1>11. OneToOne(d, DOMAIN u, DOMAIN g)
  <2>1. ASSUME NEW i \in 1 .. n - 1, NEW j \in 1 .. n - 1, d[i] = d[j]
        PROVE  i = j
    <3>1. i + 1 = j + 1
      BY <1>1, <1>4, <1>8, <1>9, <2>1 DEF OneToOne
    <3> QED
      BY <1>4, <3>1
  <2> QED
    BY <1>4, <1>8, <1>10, <2>1 DEF OneToOne
<1>12. \A i \in DOMAIN u : IsIn(h, u[i], g[d[i]])
  BY <1>1, <1>4, <1>7, <1>8, <1>9, <1>10
<1>13. Lists(h, u, g)
  BY <1>4, <1>11, <1>12 DEF Lists
<1> QED
  BY <1>3, <1>6, <1>7, <1>13

LEMMA PositionsFinite ==
    ASSUME NEW s, IsSequence(s)
    PROVE  IsFiniteSet(DOMAIN s) /\ DOMAIN s \subseteq Nat \ {0}
<1>1. Len(s) \in Nat /\ DOMAIN s = 1 .. Len(s)
  BY SequenceDomain
<1>2. IsFiniteSet(1 .. Len(s))
  BY <1>1, FS_Interval
<1> QED
  BY <1>1, <1>2

\* A loop over the members of a set, in ascending order.
LEMMA ListsInOrder ==
    ASSUME NEW h, NEW S \in SUBSET Nat, IsFiniteSet(S), NEW f, DOMAIN f = S,
           NEW s, IsSequence(s), DOMAIN s = DOMAIN Ascending(S),
           \A i \in DOMAIN s : IsIn(h, s[i], f[Ascending(S)[i]])
    PROVE  Lists(h, s, f)
<1>1. PICK b : b = Ascending(S)
  OBVIOUS
<1>2. b \in [DOMAIN b -> ToSet(b)]
  <2>1. IsSequence(b)
    BY <1>1, AscendingLists
  <2> QED
    BY <2>1 DEF IsSequence
<1>3. PICK rank : rank = Rank(S)
  OBVIOUS
<1>4. /\ DOMAIN b = 1 .. Cardinality(S)
      /\ \A i \in DOMAIN b : b[i] \in S /\ rank[b[i]] = i - 1
      /\ \A x \in S : rank[x] + 1 \in DOMAIN b /\ b[rank[x] + 1] = x
  BY <1>1, <1>3, AscendingLists
<1>5. \A i, j \in 1 .. Cardinality(S) : i - 1 = j - 1 => i = j
  BY CardinalityIsNat
<1>6. OneToOne(b, DOMAIN s, DOMAIN f)
  <2>1. b \in [DOMAIN s -> DOMAIN f]
    BY <1>1, <1>2, <1>4 DEF ToSet
  <2>2. ASSUME NEW i \in DOMAIN b, NEW j \in DOMAIN b, b[i] = b[j]
        PROVE  i = j
    <3>1. i - 1 = j - 1
      BY <1>4, <2>2
    <3> QED
      BY <1>4, <1>5, <3>1
  <2>3. DOMAIN s = DOMAIN b /\ \A x \in DOMAIN f : \E i \in DOMAIN b : b[i] = x
    BY <1>1, <1>4
  <2> QED
    BY <2>1, <2>2, <2>3 DEF OneToOne
<1> QED
  BY <1>1, <1>6 DEF Lists

\* A list of maps has each map as often as the function gives it.
LEMMA ListsCounted ==
    ASSUME NEW s, NEW f, Lists(<<>>, s, f), NEW map,
           NEW S, S = {i \in DOMAIN s : s[i].data = map},
           NEW T, T = {x \in DOMAIN f : f[x] = map}
    PROVE  Cardinality(S) = Cardinality(T)
<1>1. PICK b : OneToOne(b, DOMAIN s, DOMAIN f) /\ \A i \in DOMAIN s : IsIn(<<>>, s[i], f[b[i]])
  BY DEF Lists
<1>2. \A i \in DOMAIN s : s[i].data = f[b[i]]
  BY <1>1, EmptySequence DEF IsIn, Own
<1>3. PICK d : d = [i \in S |-> b[i]]
  OBVIOUS
<1>4. d \in Bijection(S, T)
  <2>1. d \in [S -> T]
    BY <1>1, <1>2, <1>3 DEF OneToOne
  <2>2. \A i, j \in S : d[i] = d[j] => i = j
    BY <1>1, <1>3 DEF OneToOne
  <2>3. \A x \in T : \E i \in S : d[i] = x
    BY <1>1, <1>2, <1>3 DEF OneToOne
  <2> QED
    BY <2>1, <2>2, <2>3, Fun_IsBij
<1>5. IsFiniteSet(S)
  <2>1. IsFiniteSet(DOMAIN s)
    BY PositionsFinite DEF Lists
  <2> QED
    BY <2>1, FS_Subset
<1>6. Cardinality(T) = Cardinality(S)
  BY <1>4, <1>5, FS_Bijection DEF ExistsBijection
<1> QED
  BY <1>6

-----------------------------------------------------------------------------
(* What the executor makes of what the scans found, in the terms of the    *)
(* code.  A row is named as in QueryMeaning, by its positions.             *)

\* The columns of a table under their bare names, and those that ON names.
Columns(table) == [i \in DOMAIN Schema[table] |-> [Schema[table][i] EXCEPT !.name = <<@>>]]
OnLeft(q) == Resolved(Columns(q.from), q.joins[1].left)
OnRight(q) == Resolved(Columns(q.joins[1].table), q.joins[1].right)

\* The value of a map in a column, if it has one.
Held(map, column) == {map[c.name] : c \in {c \in column : c.name \in DOMAIN map}}

Pairs(q, found) ==
    {t \in (DOMAIN found[1]) \X (DOMAIN found[2]) :
        Held(found[1][t[1]], OnLeft(q)) \cap Held(found[2][t[2]], OnRight(q)) # {}}

LeftAlone(q, found) == {i \in DOMAIN found[1] : \A r \in DOMAIN found[2] : <<i, r>> \notin Pairs(q, found)}
RightAlone(q, found) == {r \in DOMAIN found[2] : \A i \in DOMAIN found[1] : <<i, r>> \notin Pairs(q, found)}

Tuples(q, found) ==
    IF q.joins = <<>> THEN {<<i>> : i \in DOMAIN found[1]}
    ELSE Pairs(q, found)
         \cup (IF q.joins[1].type \in {"LEFT", "FULL"}
               THEN {<<i, 0>> : i \in LeftAlone(q, found)} ELSE {})
         \cup (IF q.joins[1].type \in {"RIGHT", "FULL"}
               THEN {<<0, r>> : r \in RightAlone(q, found)} ELSE {})

PairMap(q, l, r) == Merged(Qualified(q.from, l), Qualified(q.joins[1].table, r))
LeftMap(q, l) == Merged(AllQualified(q.from, l), Nulls(q.joins[1].table, Columns(q.joins[1].table)))
RightMap(q, r) == Merged(Nulls(q.from, Columns(q.from)), AllQualified(q.joins[1].table, r))

RowOf(q, found, t) ==
    IF q.joins = <<>> THEN found[1][t[1]]
    ELSE IF t[2] = 0 THEN LeftMap(q, found[1][t[1]])
    ELSE IF t[1] = 0 THEN RightMap(q, found[2][t[2]])
    ELSE PairMap(q, found[1][t[1]], found[2][t[2]])

RowsOf(q, found, T) == [t \in T |-> RowOf(q, found, t)]

Chosen(q, found) == {t \in Tuples(q, found) : Satisfies(RowOf(q, found, t), q.where)}

-----------------------------------------------------------------------------
(* The rows on their way through the executor.                             *)

\* Row for row, what a scan found.
Aligned(h, s, maps) ==
    IsSequence(s) /\ DOMAIN s = DOMAIN maps /\ \A i \in DOMAIN s : IsIn(h, s[i], maps[i])

\* The index has every row on the right under its value, and nothing else.
Indexes(q, found, ix) ==
    /\ \A v \in DOMAIN ix :
          ix[v] = {r \in DOMAIN found[2] : v \in Held(found[2][r], OnRight(q))}
    /\ \A r \in DOMAIN found[2] : Held(found[2][r], OnRight(q)) \subseteq DOMAIN ix

\* Of the rows on the left, some are still to be probed; what has been made of
\* the others.
ProbedBut(h, q, found, rest, o, u, m) ==
    LET past == DOMAIN found[1] \ rest
    IN  /\ Lists(h, o, RowsOf(q, found, {t \in Pairs(q, found) : t[1] \in past}))
        /\ Lists(h, u, Restrict(found[1], past \cap LeftAlone(q, found)))
        /\ m = {r \in DOMAIN found[2] : \E i \in past : <<i, r>> \in Pairs(q, found)}

Probing(h, q, found, l, o, u, m) ==
    \E rest \in SUBSET DOMAIN found[1] :
        Lists(h, l, Restrict(found[1], rest)) /\ ProbedBut(h, q, found, rest, o, u, m)

Filtering(h, q, found, l, o) ==
    \E rest \in SUBSET Tuples(q, found) :
        /\ Lists(h, l, RowsOf(q, found, rest))
        /\ Lists(h, o, RowsOf(q, found, Chosen(q, found) \ rest))

\* A choice of one projection for each row.
Shows(q, found, g) == \A t \in DOMAIN g : g[t] \in Projections(RowOf(q, found, t), q.fields)

Projecting(h, q, found, l, o) ==
    \E rest \in SUBSET Chosen(q, found) : \E g :
        /\ Lists(h, l, RowsOf(q, found, rest))
        /\ DOMAIN g = Chosen(q, found) \ rest /\ Shows(q, found, g) /\ Lists(<<>>, o, g)

Answering(q, found, o) ==
    \E g : DOMAIN g = Chosen(q, found) /\ Shows(q, found, g) /\ Lists(<<>>, o, g)

\* As long as no UPDATE writes.
ListsInv ==
    ~overlapped =>
        /\ phase \in {"scanRight", "index"} => Aligned(heap, left, seen[1])
        /\ phase \in {"index", "probe"} => Aligned(heap, right, seen[2])
        /\ phase = "probe" => /\ Indexes(query, seen, index)
                              /\ Probing(heap, query, seen, left, out, unmatched, matched)
        /\ phase = "filter" => Filtering(heap, query, seen, left, out)
        /\ phase = "project" => Projecting(heap, query, seen, left, out)
        /\ phase = "done" => Answering(query, seen, out)

-----------------------------------------------------------------------------
(* One step after the other.                                               *)

LEMMA MapIs ==
    ASSUME NEW row, NEW map, IsIn(heap, row, map)
    PROVE  Map(row) = map
BY DEF IsIn, Map, Shared, Own

LEMMA PairNames ==
    ASSUME NEW q, NEW found, NEW t \in Pairs(q, found)
    PROVE  t = <<t[1], t[2]>> /\ t[1] \in DOMAIN found[1] /\ t[2] \in DOMAIN found[2]
<1>1. t \in (DOMAIN found[1]) \X (DOMAIN found[2])
  BY DEF Pairs
<1> QED
  BY <1>1

\* The rows of the answer that one row on the left makes with those it matches.
LEMMA PairsListed ==
    ASSUME NEW q, NEW found, q.joins # <<>>, IsSequence(found[1]), IsSequence(found[2]),
           NEW x \in DOMAIN found[1],
           NEW hits, hits = {r \in DOMAIN found[2] : <<x, r>> \in Pairs(q, found)},
           NEW h, NEW s, s = [i \in DOMAIN Ascending(hits) |->
                                Own(PairMap(q, found[1][x], found[2][Ascending(hits)[i]]))]
    PROVE  Lists(h, s, RowsOf(q, found, {t \in Pairs(q, found) : t[1] = x}))
<1>1. DOMAIN found[1] \subseteq Nat \ {0} /\ DOMAIN found[2] \subseteq Nat \ {0}
  BY PositionsFinite
<1>2. hits \in SUBSET Nat /\ IsFiniteSet(hits)
  <2>1. IsFiniteSet(DOMAIN found[2])
    BY PositionsFinite
  <2>2. hits \subseteq DOMAIN found[2]
    OBVIOUS
  <2> QED
    BY <1>1, <2>1, <2>2, FS_Subset
<1>3. PICK order : order = Ascending(hits)
  OBVIOUS
<1>4. /\ DOMAIN order = 1 .. Cardinality(hits) /\ Cardinality(hits) \in Nat
      /\ \A i \in DOMAIN order : order[i] \in hits
  BY <1>2, <1>3, AscendingLists, CardinalityIsNat
<1>5. PICK f : f = [r \in hits |-> PairMap(q, found[1][x], found[2][r])]
  OBVIOUS
<1>6. IsSequence(s) /\ DOMAIN s = DOMAIN order
  BY <1>3, <1>4, SequenceOfFunction
<1>7. \A i \in DOMAIN s : IsIn(h, s[i], f[order[i]])
  BY <1>3, <1>4, <1>5, <1>6 DEF IsIn
<1>8. Lists(h, s, f)
  BY <1>2, <1>3, <1>5, <1>6, <1>7, ListsInOrder
<1>9. PICK T : T = {t \in Pairs(q, found) : t[1] = x}
  OBVIOUS
<1>10. PICK c : c = [r \in hits |-> <<x, r>>]
  OBVIOUS
<1>11. OneToOne(c, hits, T)
  <2>1. \A r \in hits : c[r] = <<x, r>> /\ c[r] \in T
    BY <1>9, <1>10
  <2>2. \A t \in T : \E r \in hits : c[r] = t
    <3> SUFFICES ASSUME NEW t \in T
                 PROVE  t[2] \in hits /\ c[t[2]] = t
      OBVIOUS
    <3>1. t \in Pairs(q, found) /\ t[1] = x
      BY <1>9
    <3>2. t = <<x, t[2]>> /\ t[2] \in DOMAIN found[2]
      BY <3>1, PairNames
    <3>3. t[2] \in hits
      BY <3>1, <3>2
    <3> QED
      BY <1>10, <3>2, <3>3
  <2> QED
    BY <1>10, <2>1, <2>2 DEF OneToOne
<1>12. \A r \in hits : RowOf(q, found, c[r]) = f[r]
  <2> SUFFICES ASSUME NEW r \in hits
               PROVE  RowOf(q, found, <<x, r>>) = f[r]
    BY <1>10
  <2>1. <<x, r>>[1] = x /\ <<x, r>>[2] = r /\ x # 0 /\ r # 0
    BY <1>1
  <2> QED
    BY <1>5, <2>1 DEF RowOf
<1>13. PICK g : g = RowsOf(q, found, T)
  OBVIOUS
<1>14. DOMAIN g = T /\ \A r \in hits : g[c[r]] = f[r]
  BY <1>11, <1>12, <1>13 DEF RowsOf, OneToOne
<1>15. Lists(h, s, g)
  <2>1. DOMAIN f = hits /\ OneToOne(c, DOMAIN f, DOMAIN g)
    BY <1>5, <1>11, <1>14
  <2>2. \A i \in DOMAIN s : \A r \in DOMAIN f : IsIn(h, s[i], f[r]) => IsIn(h, s[i], g[c[r]])
    BY <1>14, <2>1
  <2> QED
    BY <1>6, <1>8, <2>1, <2>2, ListsChanged
<1> QED
  BY <1>9, <1>13, <1>15

\* The values that the hash join reads.
LEMMA ValueHeld ==
    ASSUME NEW row, NEW map, IsIn(heap, row, map), NEW column
    PROVE  ValueIn(row, column) = Held(map, column)
BY MapIs DEF ValueIn, Held

\* What the join under way works with.
LEMMA JoinTerms ==
    ASSUME PlainJoins, GenuineInv, phase \in {"index", "probe"}
    PROVE  /\ query.joins # <<>> /\ DOMAIN seen = {1, 2}
           /\ Join = query.joins[1] /\ joined = 0 /\ LeftName = query.from
           /\ schema = Columns(query.from) /\ RightSchema = Columns(Join.table)
           /\ LeftColumn = OnLeft(query) /\ RightColumn = OnRight(query)
<1>1. TypeInv /\ Joining
  BY DEF GenuineInv, Joining
<1>2. Join = query.joins[1] /\ joined = 0 /\ LeftName = query.from /\ DOMAIN query.joins = {1}
  BY <1>1, OneJoin
<1>3. schema = Columns(query.from) /\ DOMAIN seen = {1, 2}
  BY DEF GenuineInv, RowsTraced, ScannedLeft, Columns
<1>4. query.joins # <<>>
  BY <1>2, EmptySequence
<1> QED
  BY <1>2, <1>3, <1>4 DEF LeftColumn, RightColumn, OnLeft, OnRight, RightSchema, Columns

\* The rows on the right that the index gives for a row on the left.
LEMMA HitsFound ==
    ASSUME NEW q, NEW found, NEW ix, Indexes(q, found, ix), NEW x \in DOMAIN found[1],
           NEW held, held = Held(found[1][x], OnLeft(q))
    PROVE  UNION {ix[v] : v \in held \cap DOMAIN ix}
              = {r \in DOMAIN found[2] : <<x, r>> \in Pairs(q, found)}
<1>1. \A r \in DOMAIN found[2] :
         <<x, r>> \in Pairs(q, found) <=> held \cap Held(found[2][r], OnRight(q)) # {}
  <2> SUFFICES ASSUME NEW r \in DOMAIN found[2]
               PROVE  <<x, r>> \in Pairs(q, found)
                        <=> held \cap Held(found[2][r], OnRight(q)) # {}
    OBVIOUS
  <2>1. <<x, r>>[1] = x /\ <<x, r>>[2] = r
    OBVIOUS
  <2> QED
    BY <2>1 DEF Pairs
<1>2. \A v \in DOMAIN ix : \A r : r \in ix[v] <=> r \in DOMAIN found[2] /\ v \in Held(found[2][r], OnRight(q))
  BY DEF Indexes
<1>3. \A r \in DOMAIN found[2] : \A v \in Held(found[2][r], OnRight(q)) : v \in DOMAIN ix
  BY DEF Indexes
<1> QED
  BY <1>1, <1>2, <1>3

LEMMA ProbeRowLists ==
    ASSUME PlainJoins, GenuineInv, IsSequence(seen[1]), IsSequence(seen[2]),
           ListsInv, ~overlapped, ProbeRow
    PROVE  Probing(heap, query, seen, left', out', unmatched', matched')
<1>1. phase = "probe" /\ left # <<>> /\ left' = Tail(left)
  BY DEF ProbeRow
<1>2. /\ query.joins # <<>> /\ DOMAIN seen = {1, 2} /\ Join = query.joins[1] /\ LeftName = query.from
      /\ LeftColumn = OnLeft(query)
  BY <1>1, JoinTerms
<1>3. Aligned(heap, right, seen[2]) /\ Indexes(query, seen, index)
  BY <1>1 DEF ListsInv
<1>4. PICK rest \in SUBSET DOMAIN seen[1] :
         /\ Lists(heap, left, Restrict(seen[1], rest))
         /\ ProbedBut(heap, query, seen, rest, out, unmatched, matched)
  BY <1>1 DEF ListsInv, Probing
<1>5. PICK past : past = DOMAIN seen[1] \ rest
  OBVIOUS
<1>6. PICK x \in rest : /\ IsIn(heap, Head(left), seen[1][x])
                        /\ Lists(heap, Tail(left), Restrict(seen[1], rest \ {x}))
  <2>1. PICK f : f = Restrict(seen[1], rest)
    OBVIOUS
  <2>2. DOMAIN f = rest /\ \A y \in rest : f[y] = seen[1][y]
    BY <2>1 DEF Restrict
  <2>3. PICK x, e : /\ x \in DOMAIN f /\ IsIn(heap, Head(left), f[x])
                    /\ DOMAIN e = DOMAIN f \ {x} /\ \A y \in DOMAIN e : e[y] = f[y]
                    /\ Lists(heap, Tail(left), e)
    <3>1. Lists(heap, left, f)
      BY <1>4, <2>1
    <3>2. left # <<>>
      BY <1>1
    <3> QED
      BY <3>1, <3>2, ListsTail
  <2>4. PICK g : g = Restrict(seen[1], rest \ {x})
    OBVIOUS
  <2>5. DOMAIN g = DOMAIN e /\ \A y \in DOMAIN e : g[y] = e[y]
    BY <2>2, <2>3, <2>4 DEF Restrict
  <2>6. Lists(heap, Tail(left), g)
    BY <2>3, <2>5, ListsSame
  <2> QED
    BY <2>2, <2>3, <2>4, <2>6
<1>7. past \cup {x} = DOMAIN seen[1] \ (rest \ {x}) /\ x \in DOMAIN seen[1] /\ x \notin past
  BY <1>5
<1>8. PICK row, hits : row = Head(left) /\ hits = {r \in DOMAIN seen[2] : <<x, r>> \in Pairs(query, seen)}
  OBVIOUS
<1>9. hits = UNION {index[v] : v \in ValueIn(row, LeftColumn) \cap DOMAIN index}
  BY <1>2, <1>3, <1>6, <1>7, <1>8, ValueHeld, HitsFound
<1>10. PICK order : order = Ascending(hits)
  OBVIOUS
<1>11. /\ out' = out \o [i \in DOMAIN order |-> Combined(row, right[order[i]])]
       /\ matched' = matched \cup hits
       /\ unmatched' = IF hits = {} THEN Append(unmatched, row) ELSE unmatched
  BY <1>8, <1>9, <1>10 DEF ProbeRow
<1>12. PICK new : new = [i \in DOMAIN order |-> Combined(row, right[order[i]])]
  OBVIOUS
<1>13. Lists(heap, new, RowsOf(query, seen, {t \in Pairs(query, seen) : t[1] = x}))
  <2>1. hits \in SUBSET Nat /\ IsFiniteSet(hits)
    <3>1. IsFiniteSet(DOMAIN seen[2]) /\ DOMAIN seen[2] \subseteq Nat \ {0} /\ hits \subseteq DOMAIN seen[2]
      BY <1>8, PositionsFinite
    <3> QED
      BY <3>1, FS_Subset
  <2>2. \A i \in DOMAIN order : order[i] \in hits
    BY <1>10, <2>1, AscendingLists
  <2>3. \A r \in hits : Combined(row, right[r]) = Own(PairMap(query, seen[1][x], seen[2][r]))
    <3> SUFFICES ASSUME NEW r \in hits
                 PROVE  Combined(row, right[r]) = Own(PairMap(query, seen[1][x], seen[2][r]))
      OBVIOUS
    <3>1. Map(row) = seen[1][x]
      BY <1>6, <1>8, MapIs
    <3>2. Map(right[r]) = seen[2][r]
      BY <1>3, <1>8, MapIs DEF Aligned
    <3> QED
      BY <1>2, <3>1, <3>2 DEF Combined, PairMap
  <2>4. new = [i \in DOMAIN order |-> Own(PairMap(query, seen[1][x], seen[2][order[i]]))]
    BY <1>12, <2>2, <2>3
  <2> QED
    BY <1>2, <1>7, <1>8, <1>10, <2>4, PairsListed
<1>14. Lists(heap, out', RowsOf(query, seen, {t \in Pairs(query, seen) : t[1] \in past \cup {x}}))
  <2>1. PICK f, g, e : /\ f = RowsOf(query, seen, {t \in Pairs(query, seen) : t[1] \in past})
                      /\ g = RowsOf(query, seen, {t \in Pairs(query, seen) : t[1] = x})
                      /\ e = RowsOf(query, seen, {t \in Pairs(query, seen) : t[1] \in past \cup {x}})
    OBVIOUS
  <2>2. /\ DOMAIN f \cap DOMAIN g = {} /\ DOMAIN e = DOMAIN f \cup DOMAIN g
        /\ \A t \in DOMAIN f : e[t] = f[t]
        /\ \A t \in DOMAIN g : e[t] = g[t]
    BY <1>7, <2>1 DEF RowsOf
  <2>3. Lists(heap, out, f) /\ Lists(heap, new, g)
    BY <1>4, <1>5, <1>13, <2>1 DEF ProbedBut
  <2>4. Lists(heap, out \o new, e)
    BY <2>2, <2>3, ListsConcat
  <2> QED
    BY <1>11, <1>12, <2>1, <2>4
<1>15. Lists(heap, unmatched', Restrict(seen[1], (past \cup {x}) \cap LeftAlone(query, seen)))
  <2>1. PICK f, g : /\ f = Restrict(seen[1], past \cap LeftAlone(query, seen))
                   /\ g = Restrict(seen[1], (past \cup {x}) \cap LeftAlone(query, seen))
    OBVIOUS
  <2>2. Lists(heap, unmatched, f)
    BY <1>4, <1>5, <2>1 DEF ProbedBut
  <2>3. x \in LeftAlone(query, seen) <=> hits = {}
    BY <1>7, <1>8 DEF LeftAlone
  <2>4. /\ DOMAIN g = DOMAIN f \cup (IF hits = {} THEN {x} ELSE {}) /\ x \notin DOMAIN f
        /\ \A y \in DOMAIN f : g[y] = f[y]
        /\ hits = {} => g[x] = seen[1][x]
    BY <1>7, <2>1, <2>3 DEF Restrict
  <2>5. CASE hits = {}
    <3>1. DOMAIN g = DOMAIN f \cup {x} /\ IsIn(heap, row, g[x])
      BY <1>6, <1>8, <2>4, <2>5
    <3>2. Lists(heap, Append(unmatched, row), g)
      BY <2>2, <2>4, <3>1, ListsAppend
    <3> QED
      BY <1>11, <2>1, <2>5, <3>2
  <2>6. CASE hits # {}
    <3>1. Lists(heap, unmatched, g)
      BY <2>2, <2>4, <2>6, ListsSame
    <3> QED
      BY <1>11, <2>1, <2>6, <3>1
  <2> QED
    BY <2>5, <2>6
<1>16. matched' = {r \in DOMAIN seen[2] : \E i \in past \cup {x} : <<i, r>> \in Pairs(query, seen)}
  <2>1. matched = {r \in DOMAIN seen[2] : \E i \in past : <<i, r>> \in Pairs(query, seen)}
    BY <1>4, <1>5 DEF ProbedBut
  <2> QED
    BY <1>8, <1>11, <2>1
<1>17. ProbedBut(heap, query, seen, rest \ {x}, out', unmatched', matched')
  BY <1>7, <1>14, <1>15, <1>16 DEF ProbedBut
<1> QED
  BY <1>1, <1>6, <1>17 DEF Probing

\* The scans were of sequences of rows.
SeenInv == \A k \in DOMAIN seen : IsSequence(seen[k])

LEMMA AlignedStays ==
    ASSUME NEW h, NEW s, NEW maps, Aligned(h, s, maps),
           NEW k, \A p \in DOMAIN h : p \in DOMAIN k /\ k[p] = h[p]
    PROVE  Aligned(k, s, maps)
BY DEF Aligned, IsIn

\* A list in another order of the same rows: that of the table.
LEMMA AlignedLists ==
    ASSUME NEW h, NEW s, NEW maps, Aligned(h, s, maps)
    PROVE  Lists(h, s, Restrict(maps, DOMAIN maps))
<1>1. PICK b : b = [i \in DOMAIN s |-> i]
  OBVIOUS
<1>2. PICK f : f = Restrict(maps, DOMAIN maps)
  OBVIOUS
<1>3. DOMAIN f = DOMAIN s /\ \A i \in DOMAIN s : f[i] = maps[i]
  BY <1>2 DEF Aligned, Restrict
<1>4. OneToOne(b, DOMAIN s, DOMAIN f)
  BY <1>1, <1>3 DEF OneToOne
<1>5. \A i \in DOMAIN s : IsIn(h, s[i], f[b[i]])
  BY <1>1, <1>3 DEF Aligned
<1> QED
  BY <1>2, <1>4, <1>5 DEF Lists, Aligned

\* What other sessions write leaves the rows alone that a SELECT has in hand.
LEMMA UndisturbedLists ==
    ASSUME ListsInv, UNCHANGED select, ~overlapped' => ~overlapped,
           ~overlapped' => \/ \A p \in DOMAIN heap : p \in DOMAIN heap' /\ heap'[p] = heap[p]
                           \/ phase \in Ended \cup {"scan"}
    PROVE  ListsInv'
<1> SUFFICES ASSUME ~overlapped'
             PROVE  ListsInv'
  BY DEF ListsInv
<1>1. /\ phase' = phase /\ query' = query /\ seen' = seen /\ left' = left /\ right' = right
      /\ out' = out /\ index' = index /\ matched' = matched /\ unmatched' = unmatched
  BY DEF select, joining
<1>2. CASE phase \in Ended \cup {"scan"}
  BY <1>1, <1>2 DEF ListsInv, Ended
<1>3. ASSUME \A p \in DOMAIN heap : p \in DOMAIN heap' /\ heap'[p] = heap[p]
      PROVE  ListsInv'
  <2>1. \A s, f : Lists(heap, s, f) => Lists(heap', s, f)
    BY <1>3, ListsStays
  <2>2. \A s, maps : Aligned(heap, s, maps) => Aligned(heap', s, maps)
    BY <1>3, AlignedStays
  <2>3. phase = "probe" => Probing(heap', query, seen, left, out, unmatched, matched)
    BY <2>1 DEF ListsInv, Probing, ProbedBut
  <2>4. phase = "filter" => Filtering(heap', query, seen, left, out)
    BY <2>1 DEF ListsInv, Filtering
  <2>5. phase = "project" => Projecting(heap', query, seen, left, out)
    BY <2>1 DEF ListsInv, Projecting
  <2> QED
    BY <1>1, <2>2, <2>3, <2>4, <2>5 DEF ListsInv
<1> QED
  BY <1>2, <1>3

LEMMA PointersAligned ==
    ASSUME NEW h, NEW s, IsSequence(s), ToSet(s) \subseteq DOMAIN h
    PROVE  Aligned(h, Pointers(s), [i \in DOMAIN s |-> h[s[i]]])
<1>1. PICK u : u = Pointers(s)
  OBVIOUS
<1>2. IsSequence(u) /\ DOMAIN u = DOMAIN s /\ \A i \in DOMAIN s : u[i] = Shared(s[i])
  BY <1>1, PointersTyped DEF Pointers
<1>3. \A i \in DOMAIN s : s[i] \in DOMAIN h
  BY DEF ToSet
<1>4. \A p \in DOMAIN h : IsIn(h, Shared(p), h[p])
  BY DEF IsIn, Shared
<1> QED
  BY <1>1, <1>2, <1>3, <1>4 DEF Aligned

LEMMA ContentsAligned ==
    ASSUME TypeInv, NEW t \in TableName
    PROVE  Aligned(heap, Pointers(rows[t]), Contents(t)) /\ IsSequence(Contents(t))
<1>1. IsSequence(rows[t]) /\ ToSet(rows[t]) \subseteq DOMAIN heap
  BY DEF TypeInv, TablesType
<1>2. IsSequence(Contents(t))
  <2>1. Len(rows[t]) \in Nat /\ DOMAIN rows[t] = 1 .. Len(rows[t])
    BY <1>1, SequenceDomain
  <2> QED
    BY <2>1, SequenceOfFunction DEF Contents
<1> QED
  BY <1>1, <1>2, PointersAligned DEF Contents

\* A SELECT without a join has its scan pick the rows.
LEMMA ScanPicks ==
    ASSUME TypeInv, NEW t \in TableName, NEW q, q.joins = <<>>,
           NEW hits, hits = {i \in DOMAIN rows[t] : Satisfies(heap[rows[t][i]], q.where)},
           NEW found, found = <<Contents(t)>>
    PROVE  Filtering(heap, q, found, Pointers(ElementsAt(rows[t], hits)), <<>>)
<1>1. IsSequence(rows[t]) /\ ToSet(rows[t]) \subseteq DOMAIN heap
  BY DEF TypeInv, TablesType
<1>2. hits \in SUBSET Nat /\ IsFiniteSet(hits) /\ hits \in SUBSET DOMAIN rows[t]
  <2>1. IsFiniteSet(DOMAIN rows[t]) /\ DOMAIN rows[t] \subseteq Nat \ {0}
    BY <1>1, PositionsFinite
  <2> QED
    BY <2>1, FS_Subset
<1>3. PICK order, at, s : order = Ascending(hits) /\ at = ElementsAt(rows[t], hits) /\ s = Pointers(at)
  OBVIOUS
<1>4. /\ IsSequence(s) /\ DOMAIN s = DOMAIN order
      /\ \A i \in DOMAIN order : s[i] = Shared(rows[t][order[i]]) /\ order[i] \in hits
  <2>1. IsSequence(at)
    BY <1>1, <1>2, <1>3, PickedElements
  <2>2. DOMAIN at = DOMAIN order /\ \A i \in DOMAIN order : at[i] = rows[t][order[i]] /\ order[i] \in hits
    BY <1>2, <1>3, AscendingLists DEF ElementsAt
  <2> QED
    BY <1>3, <2>1, <2>2, PointersTyped DEF Pointers
<1>5. PICK f : f = [i \in hits |-> heap[rows[t][i]]]
  OBVIOUS
<1>6. Lists(heap, s, f)
  <2>1. \A i \in hits : rows[t][i] \in DOMAIN heap
    BY <1>1, <1>2 DEF ToSet
  <2>2. \A i \in DOMAIN s : IsIn(heap, s[i], f[order[i]])
    BY <1>4, <1>5, <2>1 DEF IsIn, Shared
  <2> QED
    BY <1>2, <1>3, <1>4, <1>5, <2>2, ListsInOrder
<1>7. PICK T, g : T = Chosen(q, found) /\ g = RowsOf(q, found, T)
  OBVIOUS
<1>8. \A i \in DOMAIN rows[t] : RowOf(q, found, <<i>>) = heap[rows[t][i]]
  BY DEF RowOf, Contents
<1>9. T = {<<i>> : i \in hits}
  <2>1. Tuples(q, found) = {<<i>> : i \in DOMAIN rows[t]}
    BY DEF Tuples, Contents
  <2> QED
    BY <1>7, <1>8, <2>1 DEF Chosen
<1>10. PICK c : c = [i \in hits |-> <<i>>]
  OBVIOUS
<1>11. OneToOne(c, DOMAIN f, DOMAIN g)
  BY <1>5, <1>7, <1>9, <1>10 DEF OneToOne, RowsOf
<1>12. \A i \in hits : g[c[i]] = f[i]
  BY <1>2, <1>5, <1>7, <1>8, <1>9, <1>10 DEF RowsOf
<1>13. Lists(heap, s, g)
  <2>1. \A i \in DOMAIN s : \A x \in DOMAIN f : IsIn(heap, s[i], f[x]) => IsIn(heap, s[i], g[c[x]])
    BY <1>5, <1>12
  <2> QED
    BY <1>4, <1>6, <1>11, <2>1, ListsChanged
<1>14. Lists(heap, <<>>, RowsOf(q, found, T \ T))
  BY ListsNothing DEF RowsOf
<1>15. T \subseteq Tuples(q, found)
  BY <1>7 DEF Chosen
<1> QED
  BY <1>3, <1>7, <1>13, <1>14, <1>15 DEF Filtering

LEMMA ScanLeftLists ==
    ASSUME TypeInv, RowsTraced, ListsInv, SeenInv, ScanLeft
    PROVE  ListsInv' /\ SeenInv'
<1>1. /\ phase = "scan" /\ UNCHANGED <<tables, query, joined, joining, out, overlapped>>
      /\ seen' = <<Contents(query.from)>> /\ query.from \in TableName
  BY JoinsAreSequences DEF ScanLeft, TypeInv, SelectType, Planned
<1>2. SeenInv'
  BY <1>1, ContentsAligned DEF SeenInv
<1>3. heap' = heap /\ query' = query /\ out' = <<>>
  BY <1>1 DEF tables, RowsTraced, Answered
<1>4. CASE query.joins = <<>>
  <2>1. /\ phase' = "filter"
        /\ left' = Pointers(ElementsAt(rows[query.from], {i \in DOMAIN rows[query.from] :
                                       Satisfies(heap[rows[query.from][i]], query.where)}))
    BY <1>4 DEF ScanLeft
  <2>2. Filtering(heap, query, seen', left', <<>>)
    BY <1>1, <1>4, <2>1, ScanPicks
  <2> QED
    BY <1>2, <1>3, <2>1, <2>2 DEF ListsInv
<1>5. CASE query.joins # <<>>
  <2>1. phase' = "scanRight" /\ left' = Pointers(rows[query.from])
    BY <1>5 DEF ScanLeft
  <2>2. Aligned(heap, left', seen'[1])
    BY <1>1, <2>1, ContentsAligned
  <2> QED
    BY <1>2, <1>3, <2>1, <2>2 DEF ListsInv
<1> QED
  BY <1>4, <1>5

LEMMA ScanRightLists ==
    ASSUME PlainJoins, GenuineInv, ListsInv, SeenInv, ScanRight
    PROVE  ListsInv' /\ SeenInv'
<1>1. /\ phase = "scanRight" /\ phase' = "index" /\ UNCHANGED <<tables, query, left, overlapped>>
      /\ right' = Pointers(rows[Join.table]) /\ seen' = Append(seen, Contents(Join.table))
  BY DEF ScanRight
<1>2. TypeInv /\ Join.table \in TableName
  BY <1>1, OneJoin DEF GenuineInv, Joining
<1>3. seen' = <<seen[1], Contents(Join.table)>> /\ 1 \in DOMAIN seen
  <2>1. PICK first : seen = <<first>>
    BY <1>1 DEF GenuineInv, RowsTraced, ScannedLeft
  <2>2. seen' = <<first, Contents(Join.table)>>
    BY <1>1, <2>1, AppendPair
  <2> QED
    BY <2>1, <2>2
<1>4. SeenInv'
  BY <1>2, <1>3, ContentsAligned DEF SeenInv
<1>5. ~overlapped => Aligned(heap, left', seen'[1])
  BY <1>1, <1>3 DEF ListsInv
<1>6. Aligned(heap, right', seen'[2])
  BY <1>1, <1>2, <1>3, ContentsAligned
<1> QED
  BY <1>1, <1>4, <1>5, <1>6 DEF ListsInv, tables

\* The two columns of ON have one type.
Comparable(q) == \E l \in OnLeft(q), r \in OnRight(q) : l.type = r.type

ComparedInv == phase \in {"probe", "filter", "project", "done"} /\ query.joins # <<>> => Comparable(query)

LEMMA BuildIndexLists ==
    ASSUME PlainJoins, GenuineInv, ListsInv, SeenInv, BuildIndex
    PROVE  ListsInv' /\ ComparedInv'
<1>1. /\ phase = "index" /\ UNCHANGED <<tables, query, joined, left, schema, right, seen, overlapped>>
      /\ out' = <<>> /\ unmatched' = <<>> /\ matched' = {}
  BY DEF BuildIndex
<1>2. CASE ~Joinable
  <2>1. phase' = "failed"
    BY <1>2 DEF BuildIndex
  <2> QED
    BY <2>1 DEF ListsInv, ComparedInv
<1>3. CASE Joinable
  <2>1. /\ query.joins # <<>> /\ DOMAIN seen = {1, 2}
        /\ LeftColumn = OnLeft(query) /\ RightColumn = OnRight(query)
    BY <1>1, JoinTerms
  <2>2. phase' = "probe"
    BY <1>3 DEF BuildIndex
  <2>3. ComparedInv'
    BY <1>1, <1>3, <2>1 DEF ComparedInv, Comparable, Joinable
  <2>4. ASSUME ~overlapped
        PROVE  ListsInv'
    <3>1. Aligned(heap, left, seen[1]) /\ Aligned(heap, right, seen[2])
      BY <1>1, <2>4 DEF ListsInv
    <3>2. \A i \in DOMAIN right : ValueIn(right[i], RightColumn) = Held(seen[2][i], OnRight(query))
      BY <2>1, <3>1, ValueHeld DEF Aligned
    <3>3. DOMAIN right = DOMAIN seen[2]
      BY <3>1 DEF Aligned
    <3>4. PICK values : values = UNION {ValueIn(right[i], RightColumn) : i \in DOMAIN right}
      OBVIOUS
    <3>5. index' = [v \in values |-> {i \in DOMAIN right : v \in ValueIn(right[i], RightColumn)}]
      BY <1>3, <3>4 DEF BuildIndex
    <3>6. Indexes(query, seen, index')
      BY <3>2, <3>3, <3>4, <3>5 DEF Indexes
    <3>7. PICK all : all = DOMAIN seen[1]
      OBVIOUS
    <3>8. Lists(heap, left, Restrict(seen[1], all))
      BY <3>1, <3>7, AlignedLists
    <3>9. ProbedBut(heap, query, seen, all, <<>>, <<>>, {})
      <4>1. {t \in Pairs(query, seen) : t[1] \in all \ all} = {}
        OBVIOUS
      <4>2. Lists(heap, <<>>, RowsOf(query, seen, {t \in Pairs(query, seen) : t[1] \in all \ all}))
        BY <4>1, ListsNothing DEF RowsOf
      <4>3. Lists(heap, <<>>, Restrict(seen[1], (all \ all) \cap LeftAlone(query, seen)))
        BY ListsNothing DEF Restrict
      <4> QED
        BY <3>7, <4>2, <4>3 DEF ProbedBut
    <3>10. Probing(heap, query, seen, left, <<>>, <<>>, {})
      BY <3>7, <3>8, <3>9 DEF Probing
    <3> QED
      BY <1>1, <2>2, <3>1, <3>6, <3>10 DEF ListsInv, tables
  <2> QED
    BY <1>1, <2>3, <2>4 DEF ListsInv
<1> QED
  BY <1>2, <1>3

LEMMA ListsNoMore ==
    ASSUME NEW h, NEW f, Lists(h, <<>>, f)
    PROVE  DOMAIN f = {}
<1>1. PICK b : OneToOne(b, DOMAIN <<>>, DOMAIN f)
  BY DEF Lists
<1> QED
  BY <1>1, EmptySequence DEF OneToOne

\* The rows that an outer join adds.
LeftNulls(q, found) == {<<i, 0>> : i \in LeftAlone(q, found)}
RightNulls(q, found) == {<<0, r>> : r \in RightAlone(q, found)}

LEMMA LeftsListed ==
    ASSUME NEW q, NEW found, q.joins # <<>>,
           NEW h, NEW s, Lists(h, s, Restrict(found[1], LeftAlone(q, found))),
           NEW u, DOMAIN u = DOMAIN s, IsSequence(u),
           \A i \in DOMAIN s : \A map : IsIn(h, s[i], map) => u[i] = Own(LeftMap(q, map))
    PROVE  Lists(h, u, RowsOf(q, found, LeftNulls(q, found)))
<1>1. PICK f, g : /\ f = Restrict(found[1], LeftAlone(q, found))
                 /\ g = RowsOf(q, found, LeftNulls(q, found))
  OBVIOUS
<1>2. DOMAIN f = LeftAlone(q, found) /\ \A i \in DOMAIN f : f[i] = found[1][i]
  BY <1>1 DEF Restrict
<1>3. PICK c : c = [i \in DOMAIN f |-> <<i, 0>>]
  OBVIOUS
<1>4. OneToOne(c, DOMAIN f, DOMAIN g)
  BY <1>1, <1>2, <1>3 DEF OneToOne, RowsOf, LeftNulls
<1>5. \A i \in DOMAIN f : g[c[i]] = LeftMap(q, f[i])
  BY <1>1, <1>2, <1>3 DEF RowsOf, LeftNulls, RowOf
<1>6. \A i \in DOMAIN s : \A x \in DOMAIN f : IsIn(h, s[i], f[x]) => IsIn(h, u[i], g[c[x]])
  BY <1>5 DEF IsIn
<1>7. Lists(h, u, g)
  BY <1>1, <1>4, <1>6, ListsChanged
<1> QED
  BY <1>1, <1>7

LEMMA RightsListed ==
    ASSUME NEW q, NEW found, q.joins # <<>>, IsSequence(found[2]),
           NEW alone, alone = RightAlone(q, found),
           NEW h, NEW s, s = [i \in DOMAIN Ascending(alone) |->
                                Own(RightMap(q, found[2][Ascending(alone)[i]]))]
    PROVE  Lists(h, s, RowsOf(q, found, RightNulls(q, found)))
<1>1. alone \in SUBSET Nat /\ IsFiniteSet(alone) /\ \A r \in alone : r # 0
  <2>1. IsFiniteSet(DOMAIN found[2]) /\ DOMAIN found[2] \subseteq Nat \ {0} /\ alone \subseteq DOMAIN found[2]
    BY PositionsFinite DEF RightAlone
  <2> QED
    BY <2>1, FS_Subset
<1>2. PICK order : order = Ascending(alone)
  OBVIOUS
<1>3. /\ DOMAIN order = 1 .. Cardinality(alone) /\ Cardinality(alone) \in Nat
      /\ \A i \in DOMAIN order : order[i] \in alone
  BY <1>1, <1>2, AscendingLists, CardinalityIsNat
<1>4. PICK f, g : /\ f = [r \in alone |-> RightMap(q, found[2][r])]
                 /\ g = RowsOf(q, found, RightNulls(q, found))
  OBVIOUS
<1>5. IsSequence(s) /\ DOMAIN s = DOMAIN order
  BY <1>2, <1>3, SequenceOfFunction
<1>6. \A i \in DOMAIN s : IsIn(h, s[i], f[order[i]])
  BY <1>2, <1>3, <1>4, <1>5 DEF IsIn
<1>7. Lists(h, s, f)
  BY <1>1, <1>2, <1>4, <1>5, <1>6, ListsInOrder
<1>8. PICK c : c = [r \in alone |-> <<0, r>>]
  OBVIOUS
<1>9. OneToOne(c, DOMAIN f, DOMAIN g)
  BY <1>4, <1>8 DEF OneToOne, RowsOf, RightNulls
<1>10. \A r \in alone : g[c[r]] = f[r]
  BY <1>1, <1>4, <1>8 DEF RowsOf, RightNulls, RowOf
<1>11. \A i \in DOMAIN s : \A r \in DOMAIN f : IsIn(h, s[i], f[r]) => IsIn(h, s[i], g[c[r]])
  BY <1>4, <1>10
<1>12. Lists(h, s, g)
  BY <1>5, <1>7, <1>9, <1>11, ListsChanged
<1> QED
  BY <1>4, <1>12

\* What is listed of some names, and of others.
LEMMA RowsConcat ==
    ASSUME NEW h, NEW q, NEW found, NEW S, NEW T, S \cap T = {},
           NEW s, Lists(h, s, RowsOf(q, found, S)), NEW u, Lists(h, u, RowsOf(q, found, T))
    PROVE  Lists(h, s \o u, RowsOf(q, found, S \cup T))
<1>1. PICK f, g, e : f = RowsOf(q, found, S) /\ g = RowsOf(q, found, T) /\ e = RowsOf(q, found, S \cup T)
  OBVIOUS
<1>2. /\ DOMAIN f \cap DOMAIN g = {} /\ DOMAIN e = DOMAIN f \cup DOMAIN g
      /\ \A x \in DOMAIN f : e[x] = f[x]
      /\ \A x \in DOMAIN g : e[x] = g[x]
  BY <1>1 DEF RowsOf
<1>3. Lists(h, s, f) /\ Lists(h, u, g)
  BY <1>1
<1>4. Lists(h, s \o u, e)
  BY <1>2, <1>3, ListsConcat
<1> QED
  BY <1>1, <1>4

LEMMA AddUnmatchedLists ==
    ASSUME PlainJoins, GenuineInv, ListsInv, SeenInv, AddUnmatched
    PROVE  ListsInv'
<1> SUFFICES ASSUME ~overlapped
             PROVE  ListsInv'
  BY DEF ListsInv, AddUnmatched
<1>1. /\ phase = "probe" /\ left = <<>> /\ UNCHANGED <<tables, query, seen, overlapped>>
      /\ out' = <<>>
  BY DEF AddUnmatched
<1>2. /\ query.joins # <<>> /\ DOMAIN seen = {1, 2} /\ Join = query.joins[1] /\ LeftName = query.from
      /\ joined = 0 /\ schema = Columns(query.from) /\ RightSchema = Columns(Join.table)
  BY <1>1, JoinTerms
<1>3. phase' = "filter"
  <2>1. joined + 1 = 1 /\ Len(query.joins) = 1
    BY <1>1, <1>2, OneJoin DEF GenuineInv, Joining
  <2> QED
    BY <2>1 DEF AddUnmatched
<1>4. Aligned(heap, right, seen[2]) /\ DOMAIN right = DOMAIN seen[2]
  BY <1>1 DEF ListsInv, Aligned
<1>5. PICK rest \in SUBSET DOMAIN seen[1] :
         /\ Lists(heap, left, Restrict(seen[1], rest))
         /\ ProbedBut(heap, query, seen, rest, out, unmatched, matched)
  BY <1>1 DEF ListsInv, Probing
<1>6. rest = {}
  BY <1>1, <1>5, ListsNoMore DEF Restrict
<1>7. /\ Lists(heap, out, RowsOf(query, seen, Pairs(query, seen)))
      /\ Lists(heap, unmatched, Restrict(seen[1], LeftAlone(query, seen)))
      /\ DOMAIN right \ matched = RightAlone(query, seen)
  <2>1. DOMAIN seen[1] \ rest = DOMAIN seen[1]
    BY <1>6
  <2>2. {t \in Pairs(query, seen) : t[1] \in DOMAIN seen[1]} = Pairs(query, seen)
    BY PairNames
  <2>3. DOMAIN seen[1] \cap LeftAlone(query, seen) = LeftAlone(query, seen)
    BY DEF LeftAlone
  <2>4. /\ Lists(heap, out, RowsOf(query, seen, {t \in Pairs(query, seen) : t[1] \in DOMAIN seen[1]}))
        /\ Lists(heap, unmatched, Restrict(seen[1], DOMAIN seen[1] \cap LeftAlone(query, seen)))
        /\ matched = {r \in DOMAIN seen[2] : \E i \in DOMAIN seen[1] : <<i, r>> \in Pairs(query, seen)}
    BY <1>5, <2>1 DEF ProbedBut
  <2> QED
    BY <1>4, <2>2, <2>3, <2>4 DEF RightAlone
<1>8. PICK lefts, rights :
         /\ lefts = [i \in DOMAIN unmatched |-> WithoutRight(unmatched[i])]
         /\ rights = [i \in DOMAIN Lonely |-> WithoutLeft(right[Lonely[i]])]
  OBVIOUS
<1>9. Lists(heap, lefts, RowsOf(query, seen, LeftNulls(query, seen)))
  <2>1. IsSequence(lefts) /\ DOMAIN lefts = DOMAIN unmatched
    <3>1. Len(unmatched) \in Nat /\ DOMAIN unmatched = 1 .. Len(unmatched)
      BY <1>7, SequenceDomain DEF Lists
    <3> QED
      BY <1>8, <3>1, SequenceOfFunction
  <2>2. ASSUME NEW i \in DOMAIN unmatched, NEW map, IsIn(heap, unmatched[i], map)
        PROVE  lefts[i] = Own(LeftMap(query, map))
    BY <1>2, <1>8, <2>2, MapIs DEF WithoutRight, LeftMap
  <2> QED
    BY <1>2, <1>7, <2>1, <2>2, LeftsListed
<1>10. Lists(heap, rights, RowsOf(query, seen, RightNulls(query, seen)))
  <2>1. PICK alone, order : alone = RightAlone(query, seen) /\ order = Ascending(alone)
    OBVIOUS
  <2>2. Lonely = order
    BY <1>7, <2>1 DEF Lonely
  <2>3. alone \in SUBSET Nat /\ IsFiniteSet(alone) /\ alone \subseteq DOMAIN seen[2]
    <3>1. IsFiniteSet(DOMAIN seen[2]) /\ DOMAIN seen[2] \subseteq Nat \ {0} /\ alone \subseteq DOMAIN seen[2]
      BY <1>2, <2>1, PositionsFinite DEF RightAlone, SeenInv
    <3> QED
      BY <3>1, FS_Subset
  <2>4. \A i \in DOMAIN order : order[i] \in DOMAIN seen[2]
    BY <2>1, <2>3, AscendingLists
  <2>5. ASSUME NEW r \in DOMAIN seen[2]
        PROVE  WithoutLeft(right[r]) = Own(RightMap(query, seen[2][r]))
    <3>1. Map(right[r]) = seen[2][r]
      BY <1>4, MapIs DEF Aligned
    <3> QED
      BY <1>2, <3>1 DEF WithoutLeft, RightMap
  <2>6. rights = [i \in DOMAIN order |-> Own(RightMap(query, seen[2][order[i]]))]
    BY <1>8, <2>2, <2>4, <2>5
  <2>7. IsSequence(seen[2])
    BY <1>2 DEF SeenInv
  <2> QED
    BY <1>2, <2>1, <2>6, <2>7, RightsListed
<1>11. PICK both, last : /\ both = IF Join.type \in {"LEFT", "FULL"} THEN lefts ELSE <<>>
                        /\ last = IF Join.type \in {"RIGHT", "FULL"} THEN rights ELSE <<>>
  OBVIOUS
<1>12. left' = (out \o both) \o last
  BY <1>8, <1>11 DEF AddUnmatched
<1>13. PICK L, R : /\ L = (IF Join.type \in {"LEFT", "FULL"} THEN LeftNulls(query, seen) ELSE {})
                  /\ R = (IF Join.type \in {"RIGHT", "FULL"} THEN RightNulls(query, seen) ELSE {})
  OBVIOUS
<1>14. Lists(heap, both, RowsOf(query, seen, L)) /\ Lists(heap, last, RowsOf(query, seen, R))
  <2>1. Lists(heap, <<>>, RowsOf(query, seen, {}))
    BY ListsNothing DEF RowsOf
  <2> QED
    BY <1>9, <1>10, <1>11, <1>13, <2>1
<1>15. Pairs(query, seen) \cap L = {} /\ (Pairs(query, seen) \cup L) \cap R = {}
  <2>1. \A t \in Pairs(query, seen) : t[1] # 0 /\ t[2] # 0
    <3>1. DOMAIN seen[1] \subseteq Nat \ {0} /\ DOMAIN seen[2] \subseteq Nat \ {0}
      BY <1>2, PositionsFinite DEF SeenInv
    <3> QED
      BY <3>1, PairNames
  <2>2. \A t \in L : t[2] = 0 /\ t[1] # 0
    <3>1. DOMAIN seen[1] \subseteq Nat \ {0}
      BY <1>2, PositionsFinite DEF SeenInv
    <3> QED
      BY <1>13, <3>1 DEF LeftNulls, LeftAlone
  <2>3. \A t \in R : t[1] = 0
    BY <1>13 DEF RightNulls
  <2> QED
    BY <2>1, <2>2, <2>3
<1>16. Lists(heap, left', RowsOf(query, seen, (Pairs(query, seen) \cup L) \cup R))
  <2>1. Lists(heap, out \o both, RowsOf(query, seen, Pairs(query, seen) \cup L))
    BY <1>7, <1>14, <1>15, RowsConcat
  <2>2. Lists(heap, (out \o both) \o last, RowsOf(query, seen, (Pairs(query, seen) \cup L) \cup R))
    BY <1>14, <1>15, <2>1, RowsConcat
  <2> QED
    BY <1>12, <2>2
<1>17. Tuples(query, seen) = (Pairs(query, seen) \cup L) \cup R
  BY <1>2, <1>13 DEF Tuples, LeftNulls, RightNulls
<1>18. Lists(heap, <<>>, RowsOf(query, seen, Chosen(query, seen) \ Tuples(query, seen)))
  <2>1. Chosen(query, seen) \ Tuples(query, seen) = {}
    BY DEF Chosen
  <2> QED
    BY <2>1, ListsNothing DEF RowsOf
<1>19. Filtering(heap, query, seen, left', <<>>)
  BY <1>16, <1>17, <1>18 DEF Filtering
<1> QED
  BY <1>1, <1>3, <1>19 DEF ListsInv, tables

\* The next row of a list is one of those that are still to be worked on.
LEMMA RowsTail ==
    ASSUME NEW h, NEW q, NEW found, NEW T, NEW s, Lists(h, s, RowsOf(q, found, T)), s # <<>>
    PROVE  \E x \in T : /\ IsIn(h, Head(s), RowOf(q, found, x))
                        /\ Lists(h, Tail(s), RowsOf(q, found, T \ {x}))
<1>1. PICK f : f = RowsOf(q, found, T)
  OBVIOUS
<1>2. DOMAIN f = T /\ \A y \in T : f[y] = RowOf(q, found, y)
  BY <1>1 DEF RowsOf
<1>3. PICK x, e : /\ x \in DOMAIN f /\ IsIn(h, Head(s), f[x])
                  /\ DOMAIN e = DOMAIN f \ {x} /\ \A y \in DOMAIN e : e[y] = f[y]
                  /\ Lists(h, Tail(s), e)
  <2>1. Lists(h, s, f)
    BY <1>1
  <2> QED
    BY <2>1, ListsTail
<1>4. PICK g : g = RowsOf(q, found, T \ {x})
  OBVIOUS
<1>5. DOMAIN g = DOMAIN e /\ \A y \in DOMAIN e : g[y] = e[y]
  BY <1>2, <1>3, <1>4 DEF RowsOf
<1>6. Lists(h, Tail(s), g)
  BY <1>3, <1>5, ListsSame
<1> QED
  BY <1>2, <1>3, <1>4, <1>6

LEMMA FilterRowLists ==
    ASSUME ListsInv, FilterRow
    PROVE  ListsInv'
<1> SUFFICES ASSUME ~overlapped
             PROVE  ListsInv'
  BY DEF ListsInv, FilterRow
<1>1. /\ phase = "filter" /\ phase' = "filter" /\ left # <<>> /\ left' = Tail(left)
      /\ UNCHANGED <<tables, query, seen, overlapped>>
  BY DEF FilterRow
<1>2. PICK chosen, rest :
         /\ chosen = Chosen(query, seen) /\ rest \in SUBSET Tuples(query, seen)
         /\ Lists(heap, left, RowsOf(query, seen, rest))
         /\ Lists(heap, out, RowsOf(query, seen, chosen \ rest))
  BY <1>1 DEF ListsInv, Filtering
<1>3. PICK x \in rest : /\ IsIn(heap, Head(left), RowOf(query, seen, x))
                        /\ Lists(heap, Tail(left), RowsOf(query, seen, rest \ {x}))
  <2>1. Lists(heap, left, RowsOf(query, seen, rest)) /\ left # <<>>
    BY <1>1, <1>2
  <2> QED
    BY <2>1, RowsTail, Zenon
<1>4. Satisfies(Map(Head(left)), query.where) <=> x \in chosen
  <2>1. Map(Head(left)) = RowOf(query, seen, x)
    BY <1>3, MapIs
  <2> QED
    BY <1>2, <2>1 DEF Chosen
<1>5. Lists(heap, out', RowsOf(query, seen, chosen \ (rest \ {x})))
  <2>1. CASE x \in chosen
    <3>1. PICK f, g : /\ f = RowsOf(query, seen, chosen \ rest)
                     /\ g = RowsOf(query, seen, chosen \ (rest \ {x}))
      OBVIOUS
    <3>2. /\ DOMAIN g = DOMAIN f \cup {x} /\ x \notin DOMAIN f
          /\ \A y \in DOMAIN f : g[y] = f[y]
          /\ IsIn(heap, Head(left), g[x])
      BY <1>3, <2>1, <3>1 DEF RowsOf
    <3>3. Lists(heap, out, f)
      BY <1>2, <3>1
    <3>4. Lists(heap, Append(out, Head(left)), g)
      BY <3>2, <3>3, ListsAppend
    <3> QED
      BY <1>4, <2>1, <3>1, <3>4 DEF FilterRow
  <2>2. CASE x \notin chosen
    <3>1. chosen \ (rest \ {x}) = chosen \ rest
      BY <2>2
    <3> QED
      BY <1>2, <1>4, <2>2, <3>1 DEF FilterRow
  <2> QED
    BY <2>1, <2>2
<1>6. rest \ {x} \in SUBSET Tuples(query, seen)
  BY <1>2
<1>7. Filtering(heap, query, seen, left', out')
  BY <1>1, <1>2, <1>3, <1>5, <1>6 DEF Filtering
<1> QED
  BY <1>1, <1>7 DEF ListsInv, tables

LEMMA FilteredLists ==
    ASSUME ListsInv, Filtered
    PROVE  ListsInv'
<1> SUFFICES ASSUME ~overlapped
             PROVE  ListsInv'
  BY DEF ListsInv, Filtered
<1>1. /\ phase = "filter" /\ phase' = "project" /\ left = <<>> /\ left' = out /\ out' = <<>>
      /\ UNCHANGED <<tables, query, seen, overlapped>>
  BY DEF Filtered
<1>2. PICK chosen, rest :
         /\ chosen = Chosen(query, seen) /\ rest \in SUBSET Tuples(query, seen)
         /\ Lists(heap, left, RowsOf(query, seen, rest))
         /\ Lists(heap, out, RowsOf(query, seen, chosen \ rest))
  BY <1>1 DEF ListsInv, Filtering
<1>3. chosen \ rest = chosen
  BY <1>1, <1>2, ListsNoMore DEF RowsOf
<1>4. Lists(heap, left', RowsOf(query, seen, chosen))
  BY <1>1, <1>2, <1>3
<1>5. PICK g : g = [t \in {} |-> t]
  OBVIOUS
<1>6. DOMAIN g = chosen \ chosen /\ Shows(query, seen, g) /\ Lists(<<>>, <<>>, g)
  BY <1>5, ListsNothing DEF Shows
<1>7. Projecting(heap, query, seen, left', <<>>)
  BY <1>2, <1>4, <1>6 DEF Projecting
<1> QED
  BY <1>1, <1>7 DEF ListsInv, tables

LEMMA ProjectRowLists ==
    ASSUME ListsInv, ProjectRow
    PROVE  ListsInv'
<1> SUFFICES ASSUME ~overlapped
             PROVE  ListsInv'
  BY DEF ListsInv, ProjectRow
<1>1. /\ phase = "project" /\ phase' = "project" /\ left # <<>> /\ left' = Tail(left)
      /\ UNCHANGED <<tables, query, seen, overlapped>>
  BY DEF ProjectRow
<1>2. PICK map \in Projections(Map(Head(left)), query.fields) : out' = Append(out, Own(map))
  BY DEF ProjectRow
<1>3. PICK chosen, rest, g :
         /\ chosen = Chosen(query, seen) /\ rest \in SUBSET chosen
         /\ Lists(heap, left, RowsOf(query, seen, rest))
         /\ DOMAIN g = chosen \ rest /\ Shows(query, seen, g) /\ Lists(<<>>, out, g)
  BY <1>1 DEF ListsInv, Projecting
<1>4. PICK x \in rest : /\ IsIn(heap, Head(left), RowOf(query, seen, x))
                        /\ Lists(heap, Tail(left), RowsOf(query, seen, rest \ {x}))
  <2>1. Lists(heap, left, RowsOf(query, seen, rest)) /\ left # <<>>
    BY <1>1, <1>3
  <2> QED
    BY <2>1, RowsTail, Zenon
<1>5. map \in Projections(RowOf(query, seen, x), query.fields)
  BY <1>2, <1>4, MapIs
<1>6. PICK f : f = [t \in DOMAIN g \cup {x} |-> IF t = x THEN map ELSE g[t]]
  OBVIOUS
<1>7. /\ DOMAIN f = chosen \ (rest \ {x}) /\ x \notin DOMAIN g
      /\ DOMAIN f = DOMAIN g \cup {x} /\ f[x] = map /\ \A t \in DOMAIN g : f[t] = g[t]
  BY <1>3, <1>6
<1>8. Shows(query, seen, f)
  BY <1>3, <1>5, <1>7 DEF Shows
<1>9. Lists(<<>>, out', f)
  <2>1. IsIn(<<>>, Own(map), f[x])
    BY <1>7 DEF IsIn
  <2> QED
    BY <1>2, <1>3, <1>7, <2>1, ListsAppend
<1>10. rest \ {x} \in SUBSET chosen
  BY <1>3
<1>11. Projecting(heap, query, seen, left', out')
  BY <1>1, <1>3, <1>4, <1>7, <1>8, <1>9, <1>10 DEF Projecting
<1> QED
  BY <1>1, <1>11 DEF ListsInv, tables

LEMMA ProjectedLists ==
    ASSUME ListsInv, Projected
    PROVE  ListsInv'
<1> SUFFICES ASSUME ~overlapped
             PROVE  ListsInv'
  BY DEF ListsInv, Projected
<1>1. /\ phase = "project" /\ phase' = "done" /\ left = <<>>
      /\ UNCHANGED <<tables, query, left, out, seen, overlapped>>
  BY DEF Projected
<1>2. PICK chosen, rest, g :
         /\ chosen = Chosen(query, seen) /\ rest \in SUBSET chosen
         /\ Lists(heap, left, RowsOf(query, seen, rest))
         /\ DOMAIN g = chosen \ rest /\ Shows(query, seen, g) /\ Lists(<<>>, out, g)
  BY <1>1 DEF ListsInv, Projecting
<1>3. chosen \ rest = chosen
  BY <1>1, <1>2, ListsNoMore DEF RowsOf
<1>4. Answering(query, seen, out)
  BY <1>2, <1>3 DEF Answering
<1> QED
  BY <1>1, <1>4 DEF ListsInv

-----------------------------------------------------------------------------
(* The tables keep their rows apart, and the columns their types.          *)

\* The Go type of the values in a column, once they are loaded.
GoOf(type) ==
    CASE type = "INT"   -> "int64"
      [] type = "FLOAT" -> "float64"
      [] type = "BOOL"  -> "bool"
      [] OTHER          -> "string"

\* Cells of a table, under the bare names of its columns.
TypedCells(t, cells) ==
    /\ cells = [key \in DOMAIN cells |-> cells[key]]
    /\ \A key \in DOMAIN cells : \E c \in ToSet(Schema[t]) :
          key = <<c.name>> /\ cells[key] = [go |-> GoOf(c.type), n |-> cells[key].n]

\* What is loaded and written is typed, the tables share no row map, and the
\* generated id is an INT.
TypedWrites ==
    /\ \A t \in TableName :
          /\ \A i \in DOMAIN SeedTables[t] : TypedCells(t, SeedHeap[SeedTables[t][i]])
          /\ \A cells \in InsertCells[t] \cup UpdateCells[t] : TypedCells(t, cells)
          /\ \E c \in ToSet(Schema[t]) : c.name = PrimaryKey /\ c.type = "INT"
    /\ \A t, u \in TableName : t # u => ToSet(SeedTables[t]) \cap ToSet(SeedTables[u]) = {}

TypedRows ==
    /\ \A t \in TableName : \A p \in ToSet(rows[t]) : TypedCells(t, heap[p])
    /\ \A t, u \in TableName : t # u => ToSet(rows[t]) \cap ToSet(rows[u]) = {}
    /\ update # NoUpdate => TypedCells(update.table, update.cells)

FoundTyped == \A k \in DOMAIN seen : \A i \in DOMAIN seen[k] : TypedCells(TableAt(k), seen[k][i])

LEMMA TypedAssigned ==
    ASSUME NEW t, NEW map, TypedCells(t, map), NEW cells, TypedCells(t, cells)
    PROVE  TypedCells(t, Assigned(map, cells))
<1>1. PICK all : all = Assigned(map, cells)
  OBVIOUS
<1>2. /\ DOMAIN all = DOMAIN map \cup DOMAIN cells
      /\ \A k \in DOMAIN all : all[k] = IF k \in DOMAIN cells THEN cells[k] ELSE map[k]
  BY <1>1 DEF Assigned
<1>3. all = [key \in DOMAIN all |-> all[key]]
  BY <1>1 DEF Assigned
<1>4. \A key \in DOMAIN all : \E c \in ToSet(Schema[t]) :
         key = <<c.name>> /\ all[key] = [go |-> GoOf(c.type), n |-> all[key].n]
  BY <1>2 DEF TypedCells
<1> QED
  BY <1>1, <1>3, <1>4 DEF TypedCells

LEMMA TypedInit ==
    ASSUME TypedWrites, Init
    PROVE  TypedRows
<1>1. heap = SeedHeap /\ rows = SeedTables /\ update = NoUpdate
  BY DEF Init
<1>2. \A t \in TableName : \A p \in ToSet(SeedTables[t]) : TypedCells(t, SeedHeap[p])
  BY DEF TypedWrites, ToSet
<1> QED
  BY <1>1, <1>2 DEF TypedRows, TypedWrites

LEMMA InsertTypedRows ==
    ASSUME TypedWrites, TypeInv, TypedRows,
           NEW t \in TableName, NEW cells \in InsertCells[t], Insert(t, cells)
    PROVE  TypedRows'
<1>1. PICK n, row, new :
         /\ n = Len(heap) + 1
         /\ row = Assigned(cells, [k \in {<<PrimaryKey>>} |-> Int64(n)])
         /\ new = Append(rows[t], n)
  OBVIOUS
<1>2. IsSequence(heap) /\ Len(heap) \in Nat /\ DOMAIN heap = 1 .. Len(heap)
  BY SequenceDomain DEF TypeInv, TablesType
<1>3. heap' = Append(heap, row) /\ Len(heap') = n /\ rows' = [rows EXCEPT ![t] = new] /\ update' = update
  <2>1. heap' = Append(heap, row)
    BY <1>1 DEF Insert
  <2> QED
    BY <1>1, <1>2, <2>1, SequenceAppend DEF Insert
<1>4. \A p \in DOMAIN heap : heap'[p] = heap[p] /\ p # n
  BY <1>1, <1>2, <1>3, SequenceAppend
<1>5. heap'[n] = row
  BY <1>1, <1>2, <1>3, SequenceAppend
<1>6. TypedCells(t, row)
  <2>1. TypedCells(t, [k \in {<<PrimaryKey>>} |-> Int64(n)])
    <3>1. PICK id : id = [k \in {<<PrimaryKey>>} |-> Int64(n)]
      OBVIOUS
    <3>2. id = [key \in DOMAIN id |-> id[key]]
      BY <3>1
    <3>3. PICK c \in ToSet(Schema[t]) : c.name = PrimaryKey /\ c.type = "INT"
      BY DEF TypedWrites
    <3>4. Int64(n) = [go |-> GoOf(c.type), n |-> Int64(n).n]
      BY <3>3 DEF Int64, GoOf
    <3>5. \A key \in DOMAIN id : key = <<c.name>> /\ id[key] = Int64(n)
      BY <3>1, <3>3
    <3> QED
      BY <3>1, <3>2, <3>4, <3>5 DEF TypedCells
  <2>2. TypedCells(t, cells)
    BY DEF TypedWrites
  <2> QED
    BY <1>1, <2>1, <2>2, TypedAssigned
<1>7. DOMAIN rows = TableName /\ \A u \in TableName : IsSequence(rows[u]) /\ ToSet(rows[u]) \subseteq DOMAIN heap
  BY DEF TypeInv, TablesType
<1>8. /\ \A u \in TableName : rows'[u] = IF u = t THEN new ELSE rows[u]
      /\ ToSet(new) = ToSet(rows[t]) \cup {n}
  BY <1>1, <1>3, <1>7, SequenceAppend
<1>9. \A u \in TableName : \A p \in ToSet(rows'[u]) : p \in ToSet(rows[u]) \/ (u = t /\ p = n)
  BY <1>8
<1>10. \A u \in TableName : \A p \in ToSet(rows'[u]) : TypedCells(u, heap'[p])
  BY <1>4, <1>5, <1>6, <1>7, <1>9 DEF TypedRows
<1>11. \A u, w \in TableName : u # w => ToSet(rows'[u]) \cap ToSet(rows'[w]) = {}
  BY <1>4, <1>7, <1>9 DEF TypedRows
<1> QED
  BY <1>3, <1>10, <1>11 DEF TypedRows

LEMMA DeleteTypedRows ==
    ASSUME TypeInv, TypedRows, NEW t \in TableName, NEW where, Delete(t, where)
    PROVE  TypedRows'
<1>1. PICK s : s = {i \in DOMAIN rows[t] : ~Satisfies(heap[rows[t][i]], where)}
  OBVIOUS
<1>2. heap' = heap /\ update' = update /\ rows' = [rows EXCEPT ![t] = ElementsAt(rows[t], s)]
  BY <1>1 DEF Delete
<1>3. DOMAIN rows = TableName /\ IsSequence(rows[t])
  BY DEF TypeInv, TablesType
<1>4. ToSet(ElementsAt(rows[t], s)) \subseteq ToSet(rows[t])
  <2>1. ToSet(ElementsAt(rows[t], s)) = {rows[t][i] : i \in s}
    BY <1>1, <1>3, PickedElements
  <2> QED
    BY <1>1, <2>1 DEF ToSet
<1>5. \A u \in TableName : ToSet(rows'[u]) \subseteq ToSet(rows[u])
  BY <1>2, <1>3, <1>4
<1> QED
  BY <1>2, <1>5 DEF TypedRows

LEMMA UpdateBeginTypedRows ==
    ASSUME TypedWrites, TypedRows,
           NEW t \in TableName, NEW where, NEW cells \in UpdateCells[t], UpdateBegin(t, where, cells)
    PROVE  TypedRows'
<1>1. heap' = heap /\ rows' = rows /\ update'.table = t /\ update'.cells = cells
  BY DEF UpdateBegin
<1>2. TypedCells(t, cells)
  BY DEF TypedWrites
<1> QED
  BY <1>1, <1>2 DEF TypedRows

LEMMA WriteCellTypedRows ==
    ASSUME TypeInv, TypedRows, NEW cell \in update.todo, WriteCell(cell)
    PROVE  TypedRows'
<1>1. PICK t, p, new :
         /\ t = update.table /\ p = rows[t][cell[1]]
         /\ new = Assigned(heap[p], [k \in {cell[2]} |-> update.cells[k]])
  OBVIOUS
<1>2. /\ heap' = [heap EXCEPT ![p] = new] /\ rows' = rows
      /\ update'.table = update.table /\ update'.cells = update.cells
  <2>1. update = [table |-> update.table, cells |-> update.cells, todo |-> update.todo]
    BY DEF TypeInv, TablesType
  <2> QED
    BY <1>1, <2>1 DEF WriteCell
<1>3. /\ update # NoUpdate /\ t \in TableName /\ p \in DOMAIN heap /\ p \in ToSet(rows[t])
      /\ cell[2] \in DOMAIN update.cells
  <2>1. update # NoUpdate /\ cell[1] \in DOMAIN rows[t] /\ p \in DOMAIN heap
    BY <1>1, PickedStay
  <2>2. t \in TableName /\ cell \in (DOMAIN rows[t]) \X (DOMAIN update.cells)
    BY <1>1, <2>1 DEF TypeInv, TablesType
  <2> QED
    BY <1>1, <2>1, <2>2 DEF ToSet
<1>4. TypedCells(t, new)
  <2>1. TypedCells(t, heap[p]) /\ TypedCells(t, update.cells)
    BY <1>1, <1>3 DEF TypedRows
  <2>2. TypedCells(t, [k \in {cell[2]} |-> update.cells[k]])
    BY <1>3, <2>1 DEF TypedCells
  <2> QED
    BY <1>1, <2>1, <2>2, TypedAssigned
<1>5. \A u \in TableName : \A i \in ToSet(rows[u]) : TypedCells(u, heap'[i])
  <2> SUFFICES ASSUME NEW u \in TableName, NEW i \in ToSet(rows[u])
               PROVE  TypedCells(u, heap'[i])
    OBVIOUS
  <2>1. CASE i = p
    <3>1. u = t
      BY <1>3, <2>1 DEF TypedRows
    <3> QED
      BY <1>2, <1>3, <1>4, <2>1, <3>1
  <2>2. CASE i # p
    BY <1>2, <2>2 DEF TypedRows
  <2> QED
    BY <2>1, <2>2
<1>6. update' # NoUpdate => TypedCells(update'.table, update'.cells)
  BY <1>2, <1>3 DEF TypedRows
<1> QED
  BY <1>2, <1>5, <1>6 DEF TypedRows

LEMMA TypedRowsStep ==
    ASSUME TypedWrites, TypeInv, TypedRows, [Next]_vars
    PROVE  TypedRows'
<1>1. ASSUME NEW t \in TableName, NEW cells \in InsertCells[t], Insert(t, cells)
      PROVE  TypedRows'
  BY <1>1, InsertTypedRows
<1>2. ASSUME NEW t \in TableName, NEW where \in Condition, Delete(t, where)
      PROVE  TypedRows'
  BY <1>2, DeleteTypedRows
<1>3. ASSUME NEW t \in TableName, NEW where \in Condition, NEW cells \in UpdateCells[t],
             UpdateBegin(t, where, cells)
      PROVE  TypedRows'
  BY <1>3, UpdateBeginTypedRows
<1>4. ASSUME NEW cell \in update.todo, WriteCell(cell)
      PROVE  TypedRows'
  BY <1>4, WriteCellTypedRows
<1>5. CASE UpdateEnd
  BY <1>5 DEF UpdateEnd, TypedRows, Unlocked
<1>6. CASE UNCHANGED tables
  BY <1>6 DEF TypedRows, tables
<1>7. CASE Fault
  <2>1. heap' = SeedHeap /\ rows' = SeedTables /\ update' = NoUpdate
    BY <1>7 DEF Fault
  <2>2. \A t \in TableName : \A p \in ToSet(SeedTables[t]) : TypedCells(t, SeedHeap[p])
    BY DEF TypedWrites, ToSet
  <2> QED
    BY <2>1, <2>2 DEF TypedRows, TypedWrites
<1>8. CASE \/ \E q \in Queries : Begin(q)
           \/ ScanLeft \/ ScanRight \/ JoinStep \/ SelectStep \/ UNCHANGED vars
  BY <1>6, <1>8 DEF Begin, ScanLeft, ScanRight, JoinStep, BuildIndex, ProbeRow, AddUnmatched,
                    SelectStep, FilterRow, Filtered, ProjectRow, Projected, vars
<1> QED
  BY <1>1, <1>2, <1>3, <1>4, <1>5, <1>7, <1>8 DEF Next, UpdateStep

LEMMA ContentsTyped ==
    ASSUME TypedRows, NEW t \in TableName
    PROVE  \A i \in DOMAIN Contents(t) : TypedCells(t, Contents(t)[i])
BY DEF TypedRows, Contents, ToSet

\* Where it ended, the SELECT has something in hand again only after it begins.
LEMMA FoundTypedStep ==
    ASSUME PlainJoins, GenuineInv, TypedRows, FoundTyped, [Next]_vars
    PROVE  FoundTyped'
<1>1. CASE UNCHANGED <<query, seen>>
  BY <1>1 DEF FoundTyped, TableAt
<1>2. CASE \E q \in Queries : Begin(q)
  BY <1>2, EmptySequence DEF Begin, FoundTyped
<1>3. CASE ScanLeft
  <2>1. seen' = <<Contents(query.from)>> /\ query' = query /\ query.from \in TableName
    BY <1>3, JoinsAreSequences DEF ScanLeft, GenuineInv, TypeInv, SelectType, Planned
  <2> QED
    BY <2>1, ContentsTyped DEF FoundTyped, TableAt
<1>4. CASE ScanRight
  <2>1. phase = "scanRight" /\ query' = query /\ seen' = Append(seen, Contents(Join.table))
    BY <1>4 DEF ScanRight
  <2>2. Join.table \in TableName /\ TableAt(2) = Join.table
    BY <2>1, OneJoin DEF GenuineInv, Joining
  <2>3. seen' = <<seen[1], Contents(Join.table)>> /\ 1 \in DOMAIN seen
    <3>1. PICK first : seen = <<first>>
      BY <2>1 DEF GenuineInv, RowsTraced, ScannedLeft
    <3>2. seen' = <<first, Contents(Join.table)>>
      BY <2>1, <3>1, AppendPair
    <3> QED
      BY <3>1, <3>2
  <2>4. TableAt(1)' = TableAt(1) /\ TableAt(2)' = TableAt(2)
    BY <2>1 DEF TableAt
  <2>5. \A i \in DOMAIN seen[1] : TypedCells(TableAt(1), seen[1][i])
    BY <2>3 DEF FoundTyped
  <2> QED
    BY <2>2, <2>3, <2>4, <2>5, ContentsTyped DEF FoundTyped
<1>5. CASE \/ Writing \/ JoinStep \/ SelectStep \/ Fault
  <2>1. CASE Writing
    BY <1>1, <2>1 DEF Writing, Insert, Delete, UpdateBegin, UpdateStep, WriteCell, UpdateEnd, select
  <2>2. CASE JoinStep \/ SelectStep \/ Fault
    BY <1>1, <2>2 DEF JoinStep, BuildIndex, ProbeRow, AddUnmatched,
                      SelectStep, FilterRow, Filtered, ProjectRow, Projected, Fault
  <2> QED
    BY <1>5, <2>1, <2>2
<1>6. CASE UNCHANGED vars
  BY <1>1, <1>6 DEF vars, select
<1> QED
  BY <1>2, <1>3, <1>4, <1>5, <1>6 DEF Next, Writing

LEMMA WritingLists ==
    ASSUME TypeInv, ListsInv, Writing
    PROVE  ListsInv'
<1>1. PICK stays : stays = (\A p \in DOMAIN heap : p \in DOMAIN heap' /\ heap'[p] = heap[p])
  OBVIOUS
<1>2. IsSequence(heap)
  BY DEF TypeInv, TablesType
<1>3. UNCHANGED select
  BY DEF Writing, Insert, Delete, UpdateBegin, UpdateStep, WriteCell, UpdateEnd
<1>4. ASSUME heap' = heap \/ \E row : heap' = Append(heap, row), overlapped' = overlapped
      PROVE  ListsInv'
  <2>1. \A p \in DOMAIN heap : p \in DOMAIN heap' /\ heap'[p] = heap[p]
    <3>1. CASE heap' = heap
      BY <3>1
    <3>2. ASSUME NEW row, heap' = Append(heap, row)
          PROVE  \A p \in DOMAIN heap : p \in DOMAIN heap' /\ heap'[p] = heap[p]
      <4>1. Len(heap) \in Nat /\ DOMAIN heap = 1 .. Len(heap)
        BY <1>2, SequenceDomain
      <4> QED
        BY <1>2, <3>2, <4>1, SequenceAppend
    <3> QED
      BY <1>4, <3>1, <3>2
  <2> QED
    BY <1>3, <1>4, <2>1, UndisturbedLists
<1>5. ASSUME NEW cell \in update.todo, WriteCell(cell)
      PROVE  ListsInv'
  <2>1. ~overlapped' => ~overlapped /\ phase \in Ended \cup {"scan"}
    BY <1>5 DEF WriteCell
  <2> QED
    BY <1>3, <2>1, UndisturbedLists
<1>6. CASE \E t \in TableName : \E cells \in InsertCells[t] : Insert(t, cells)
  BY <1>4, <1>6 DEF Insert
<1>7. CASE \E t \in TableName : \/ \E where \in Condition : Delete(t, where)
                                \/ \E where \in Condition, cells \in UpdateCells[t] :
                                       UpdateBegin(t, where, cells)
  BY <1>4, <1>7 DEF Delete, UpdateBegin
<1>8. CASE UpdateEnd
  BY <1>4, <1>8 DEF UpdateEnd
<1> QED
  BY <1>5, <1>6, <1>7, <1>8 DEF Writing, UpdateStep

WayInv == SeenInv /\ ComparedInv /\ ListsInv

LEMMA WayInit ==
    ASSUME Init
    PROVE  WayInv /\ FoundTyped
<1>1. phase = "idle" /\ seen = <<>>
  BY DEF Init
<1> QED
  BY <1>1, EmptySequence DEF WayInv, SeenInv, ComparedInv, ListsInv, FoundTyped

LEMMA WayStep ==
    ASSUME PlainJoins, GenuineInv, WayInv, [Next]_vars
    PROVE  WayInv'
<1> USE DEF WayInv
<1>1. CASE Writing
  <2>1. UNCHANGED select
    BY <1>1 DEF Writing, Insert, Delete, UpdateBegin, UpdateStep, WriteCell, UpdateEnd
  <2>2. SeenInv' /\ ComparedInv'
    BY <2>1 DEF SeenInv, ComparedInv, select
  <2> QED
    BY <1>1, <2>2, WritingLists DEF GenuineInv
<1>2. CASE \E q \in Queries : Begin(q)
  <2>1. phase' = "scan" /\ seen' = <<>>
    BY <1>2 DEF Begin
  <2> QED
    BY <2>1, EmptySequence DEF SeenInv, ComparedInv, ListsInv
<1>3. CASE ScanLeft
  <2>1. query' = query /\ (phase' = "scanRight" \/ query.joins = <<>>)
    BY <1>3 DEF ScanLeft
  <2>2. ComparedInv'
    BY <2>1 DEF ComparedInv
  <2> QED
    BY <1>3, <2>2, ScanLeftLists DEF GenuineInv
<1>4. CASE ScanRight
  <2>1. phase' = "index"
    BY <1>4 DEF ScanRight
  <2> QED
    BY <1>4, <2>1, ScanRightLists DEF ComparedInv
<1>5. CASE BuildIndex
  <2>1. SeenInv'
    BY <1>5 DEF BuildIndex, SeenInv
  <2> QED
    BY <1>5, <2>1, BuildIndexLists
<1>6. CASE ProbeRow
  <2>1. phase = "probe" /\ UNCHANGED <<tables, phase, query, right, index, seen, overlapped>>
    BY <1>6 DEF ProbeRow
  <2>2. SeenInv' /\ ComparedInv'
    BY <2>1 DEF SeenInv, ComparedInv
  <2>3. ASSUME ~overlapped
        PROVE  ListsInv'
    <3>1. IsSequence(seen[1]) /\ IsSequence(seen[2])
      <4>1. DOMAIN seen = {1, 2}
        BY <2>1, JoinTerms
      <4> QED
        BY <4>1 DEF SeenInv
    <3>2. Probing(heap, query, seen, left', out', unmatched', matched')
      BY <1>6, <2>3, <3>1, ProbeRowLists
    <3>3. Aligned(heap, right, seen[2]) /\ Indexes(query, seen, index)
      BY <2>1, <2>3 DEF ListsInv
    <3> QED
      BY <2>1, <3>2, <3>3 DEF ListsInv, tables
  <2>4. ListsInv'
    BY <2>1, <2>3 DEF ListsInv
  <2> QED
    BY <2>2, <2>4
<1>7. CASE AddUnmatched
  <2>1. phase = "probe" /\ UNCHANGED <<query, seen>>
    BY <1>7 DEF AddUnmatched
  <2> QED
    BY <1>7, <2>1, AddUnmatchedLists DEF SeenInv, ComparedInv
<1>8. CASE SelectStep
  <2>1. phase \in {"filter", "project"} /\ UNCHANGED <<query, seen>>
    BY <1>8 DEF SelectStep, FilterRow, Filtered, ProjectRow, Projected
  <2>2. SeenInv' /\ ComparedInv'
    BY <2>1 DEF SeenInv, ComparedInv
  <2> QED
    BY <1>8, <2>2, FilterRowLists, FilteredLists, ProjectRowLists, ProjectedLists DEF SelectStep
<1>9. CASE Fault
  <2>1. phase' = "lost" /\ seen' = seen
    BY <1>9 DEF Fault
  <2> QED
    BY <2>1 DEF SeenInv, ComparedInv, ListsInv
<1>10. CASE UNCHANGED vars
  <2>1. UNCHANGED select /\ heap' = heap /\ overlapped' = overlapped
    BY <1>10 DEF vars, tables
  <2>2. SeenInv' /\ ComparedInv'
    BY <2>1 DEF SeenInv, ComparedInv, select
  <2> QED
    BY <2>1, <2>2, UndisturbedLists
<1> QED
  BY <1>1, <1>2, <1>3, <1>4, <1>5, <1>6, <1>7, <1>8, <1>9, <1>10 DEF Next, JoinStep, Writing

-----------------------------------------------------------------------------
(* What the executor makes of the rows is what QueryMeaning says of them.  *)

\* No table has two columns of a name.
DistinctColumns ==
    \A t \in TableName : \A i, j \in DOMAIN Schema[t] : Schema[t][i].name = Schema[t][j].name => i = j

\* Names as the parser has them: of a single table, with the table or without in
\* WHERE, and without in the columns of the answer; of a join, with the table,
\* except for a column of the answer that only one of the two has.
PlainNames(q) ==
    /\ \A conjunction \in q.where : \A i \in DOMAIN conjunction :
          LET name == conjunction[i].column
          IN  IF q.joins = <<>> THEN name = <<name[1]>> \/ name = <<q.from, name[2]>>
              ELSE name = <<name[1], name[2]>>
    /\ \A f \in q.fields :
          \/ f = <<f[1]>> /\ \/ q.joins = <<>>
                             \/ \A c \in ToSet(Schema[q.from]), d \in ToSet(Schema[q.joins[1].table]) :
                                   c.name # f[1] \/ d.name # f[1]
          \/ f = <<f[1], f[2]>> /\ q.joins # <<>>

PlainQueries == \A q \in Queries : PlainNames(q)

LEMMA TypedNames ==
    ASSUME NEW t, NEW map, TypedCells(t, map), NEW k \in DOMAIN map
    PROVE  /\ k = <<k[1]>> /\ map[k] # Null
           /\ \E c \in ToSet(Schema[t]) : c.name = k[1] /\ map[k].go = GoOf(c.type)
           /\ \A T : /\ <<T>> \o k = <<T, k[1]>>
                     /\ Tail(<<T, k[1]>>) = k /\ Head(<<T, k[1]>>) = T /\ Last(<<T, k[1]>>) = k[1]
<1>1. PICK c \in ToSet(Schema[t]) : k = <<c.name>> /\ map[k] = [go |-> GoOf(c.type), n |-> map[k].n]
  BY DEF TypedCells
<1>2. k[1] = c.name /\ k = <<k[1]>> /\ map[k].go = GoOf(c.type)
  BY <1>1
<1>3. map[k] # Null
  BY <1>2 DEF Null, GoOf
<1>4. \A T : /\ <<T>> \o <<k[1]>> = <<T, k[1]>>
             /\ Tail(<<T, k[1]>>) = <<k[1]>> /\ Head(<<T, k[1]>>) = T /\ Last(<<T, k[1]>>) = k[1]
  BY FullName
<1> QED
  BY <1>1, <1>2, <1>3, <1>4

LEMMA TypedIsPlain ==
    ASSUME NEW t, NEW map, TypedCells(t, map)
    PROVE  PlainCells(map)
BY TypedNames DEF PlainCells

\* The k-th table's part of a row of the joined tables.
IsPart(tuple, k, part) ==
    /\ DOMAIN part = Names(tuple, k)
    /\ \A name \in Names(tuple, k) : /\ name = <<TableAt(k), name[2]>>
                                     /\ part[name] = CellOf(tuple, k, name)

LEMMA QualifiedPart ==
    ASSUME NEW tuple, NEW k, tuple[k] # 0,
           NEW map, map = seen[k][tuple[k]], TypedCells(TableAt(k), map)
    PROVE  /\ IsPart(tuple, k, Qualified(TableAt(k), map))
           /\ IsPart(tuple, k, AllQualified(TableAt(k), map))
<1>1. PICK T : T = TableAt(k)
  OBVIOUS
<1>2. Names(tuple, k) = {<<T>> \o c : c \in DOMAIN map}
  BY <1>1 DEF Names
<1>3. \A c \in DOMAIN map : c = <<c[1]>> /\ <<T>> \o c = <<T, c[1]>> /\ Tail(<<T, c[1]>>) = c
  BY <1>1, TypedNames
<1>4. \A name \in Names(tuple, k) : name = <<T, name[2]>>
  <2> SUFFICES ASSUME NEW name \in Names(tuple, k)
               PROVE  name = <<T, name[2]>>
    OBVIOUS
  <2>1. PICK c \in DOMAIN map : name = <<T>> \o c
    BY <1>2
  <2>2. PICK x : name = <<T, x>>
    BY <1>3, <2>1
  <2> QED
    BY <2>2
<1>5. \A name : CellOf(tuple, k, name) = map[Tail(name)]
  BY DEF CellOf
<1>6. \A part : /\ DOMAIN part = Names(tuple, k)
                /\ \A name \in DOMAIN part : \E c \in DOMAIN map :
                      c = <<c[1]>> /\ name = <<T, c[1]>> /\ part[name] = map[c]
                => IsPart(tuple, k, part)
  <2> SUFFICES ASSUME NEW part, DOMAIN part = Names(tuple, k),
                      NEW name \in Names(tuple, k), NEW c \in DOMAIN map,
                      c = <<c[1]>>, name = <<T, c[1]>>, part[name] = map[c]
               PROVE  part[name] = CellOf(tuple, k, name)
    BY <1>1, <1>4 DEF IsPart
  <2>1. Tail(name) = c
    BY <1>3
  <2> QED
    BY <1>5, <2>1
<1>7. DOMAIN Qualified(T, map) = Names(tuple, k)
  <2>1. \A c \in DOMAIN map : (IF Len(c) = 1 THEN <<T>> \o c ELSE c) = <<T>> \o c
    BY <1>3, FullName
  <2> QED
    BY <1>2, <2>1 DEF Qualified
<1>8. DOMAIN AllQualified(T, map) = Names(tuple, k)
  BY <1>2 DEF AllQualified
<1>9. PlainCells(map)
  BY TypedIsPlain
<1>10. IsPart(tuple, k, Qualified(T, map))
  <2>1. \A name \in DOMAIN Qualified(T, map) : \E c \in DOMAIN map :
           c = <<c[1]>> /\ name = <<T, c[1]>> /\ Qualified(T, map)[name] = map[c]
    BY <1>9, QualifiedNames
  <2> QED
    BY <1>6, <1>7, <2>1
<1>11. IsPart(tuple, k, AllQualified(T, map))
  <2>1. \A name \in DOMAIN AllQualified(T, map) : \E c \in DOMAIN map :
           c = <<c[1]>> /\ name = <<T, c[1]>> /\ AllQualified(T, map)[name] = map[c]
    BY <1>9, AllQualifiedNames
  <2> QED
    BY <1>6, <1>8, <2>1
<1> QED
  BY <1>1, <1>10, <1>11

LEMMA NullsPart ==
    ASSUME NEW tuple, NEW k, tuple[k] = 0, TableAt(k) \in TableName
    PROVE  IsPart(tuple, k, Nulls(TableAt(k), Columns(TableAt(k))))
<1>1. PICK T, columns : T = TableAt(k) /\ columns = Columns(T)
  OBVIOUS
<1>2. DOMAIN columns = DOMAIN Schema[T] /\ \A i \in DOMAIN columns : columns[i].name = <<Schema[T][i].name>>
  BY <1>1, BareNames DEF Bare, Columns
<1>3. \A i \in DOMAIN columns : <<T>> \o columns[i].name = <<T, Schema[T][i].name>>
  BY <1>2, FullName
<1>4. Names(tuple, k) = {<<T, Schema[T][i].name>> : i \in DOMAIN Schema[T]}
  BY <1>1 DEF Names, ToSet
<1>5. PICK part : part = Nulls(T, columns)
  OBVIOUS
<1>6. DOMAIN part = {<<T>> \o columns[i].name : i \in DOMAIN columns} /\ \A name \in DOMAIN part : part[name] = Null
  BY <1>5 DEF Nulls
<1>7. DOMAIN part = Names(tuple, k)
  BY <1>2, <1>3, <1>4, <1>6
<1>8. \A name \in Names(tuple, k) : name = <<T, name[2]>>
  BY <1>4
<1>9. IsPart(tuple, k, part)
  BY <1>1, <1>6, <1>7, <1>8 DEF IsPart, CellOf
<1> QED
  BY <1>1, <1>5, <1>9

LEMMA MergedCells ==
    ASSUME NEW a, NEW b, NEW tuple, tuple = <<a, b>>, TableAt(1) # TableAt(2),
           NEW l, IsPart(tuple, 1, l), NEW r, IsPart(tuple, 2, r)
    PROVE  Merged(l, r) = Cells(tuple)
<1>1. DOMAIN tuple = {1, 2}
  OBVIOUS
<1>2. PICK m, cells : m = Merged(l, r) /\ cells = Cells(tuple)
  OBVIOUS
<1>3. \A name \in Names(tuple, 1) : name \notin Names(tuple, 2)
  BY DEF IsPart
<1>4. DOMAIN m = Names(tuple, 1) \cup Names(tuple, 2) /\ DOMAIN cells = DOMAIN m
  <2>1. DOMAIN m = Names(tuple, 1) \cup Names(tuple, 2)
    BY <1>2 DEF Merged, IsPart
  <2>2. DOMAIN cells = UNION {Names(tuple, k) : k \in {1, 2}}
    BY <1>1, <1>2 DEF Cells
  <2>3. UNION {Names(tuple, k) : k \in {1, 2}} = Names(tuple, 1) \cup Names(tuple, 2)
    OBVIOUS
  <2> QED
    BY <2>1, <2>2, <2>3
<1>5. ASSUME NEW name \in DOMAIN m
      PROVE  m[name] = cells[name]
  <2>1. cells[name] = CellOf(tuple, Place(tuple, name), name)
    BY <1>2, <1>4 DEF Cells
  <2>2. CASE name \in Names(tuple, 1)
    <3>1. Place(tuple, name) = 1
      BY <1>1, <1>3, <2>2 DEF Place
    <3>2. m[name] = l[name]
      BY <1>2, <1>3, <2>2 DEF Merged, IsPart
    <3> QED
      BY <2>1, <2>2, <3>1, <3>2 DEF IsPart
  <2>3. CASE name \in Names(tuple, 2)
    <3>1. Place(tuple, name) = 2
      BY <1>1, <1>3, <2>3 DEF Place
    <3>2. m[name] = r[name]
      BY <1>2, <2>3 DEF Merged, IsPart
    <3> QED
      BY <2>1, <2>3, <3>1, <3>2 DEF IsPart
  <2> QED
    BY <1>4, <2>2, <2>3
<1>6. m = [name \in DOMAIN m |-> m[name]]
  BY <1>2 DEF Merged
<1>7. cells = [name \in DOMAIN cells |-> cells[name]]
  BY <1>2 DEF Cells
<1> QED
  BY <1>2, <1>4, <1>5, <1>6, <1>7

\* A query with a join, and what its scans found.
JoinFound ==
    /\ query \in Queries /\ query.joins # <<>>
    /\ DOMAIN seen = {1, 2} /\ SeenInv /\ FoundTyped

LEMMA JoinFoundTables ==
    ASSUME PlainJoins, JoinFound
    PROVE  /\ TableAt(1) = query.from /\ TableAt(2) = query.joins[1].table
           /\ query.from \in TableName /\ query.joins[1].table \in TableName
           /\ query.joins[1].table # query.from /\ DOMAIN query.joins = {1} /\ Len(query.joins) = 1
           /\ query.joins[1].left = <<query.from, query.joins[1].left[2]>>
           /\ query.joins[1].right = <<query.joins[1].table, query.joins[1].right[2]>>
           /\ DOMAIN seen[1] \subseteq Nat \ {0} /\ DOMAIN seen[2] \subseteq Nat \ {0}
           /\ \A i \in DOMAIN seen[1] : TypedCells(query.from, seen[1][i])
           /\ \A i \in DOMAIN seen[2] : TypedCells(query.joins[1].table, seen[2][i])
<1>1. Len(query.joins) = 1 /\ DOMAIN query.joins = {1}
  <2>1. IsSequence(query.joins)
    BY JoinsAreSequences DEF JoinFound
  <2>2. Len(query.joins) # 0
    BY <2>1 DEF JoinFound, IsSequence
  <2>3. Len(query.joins) = 1
    <3>1. PICK n : n = Len(query.joins)
      OBVIOUS
    <3>2. n \in Nat /\ n <= 1
      BY <3>1, JoinsAreSequences DEF JoinFound, PlainJoins
    <3>3. n # 0
      BY <2>2, <3>1, Zenon
    <3>4. n = 1
      BY <3>2, <3>3
    <3> QED
      BY <3>1, <3>4, Zenon
  <2>4. DOMAIN query.joins = 1 .. Len(query.joins)
    BY <2>1, SequenceDomain
  <2> QED
    BY <2>3, <2>4
<1>2. TableAt(1) = query.from /\ TableAt(2) = query.joins[1].table
  BY DEF TableAt
<1>3. query.from \in TableName /\ query.joins[1].table \in TableName
  BY <1>1, QueryAssumption DEF JoinFound, IsQuery
<1>4. DOMAIN seen[1] \subseteq Nat \ {0} /\ DOMAIN seen[2] \subseteq Nat \ {0}
  BY PositionsFinite DEF JoinFound, SeenInv
<1> QED
  BY <1>1, <1>2, <1>3, <1>4 DEF JoinFound, PlainJoins, FoundTyped

\* The rows that the executor makes of two tables have the cells they should.
LEMMA JoinCells ==
    ASSUME PlainJoins, JoinFound, NEW t \in Tuples(query, seen)
    PROVE  /\ RowOf(query, seen, t) = Cells(t)
           /\ \A name \in DOMAIN Cells(t) :
                 /\ name = <<name[1], name[2]>>
                 /\ \/ name[1] = query.from /\ \E c \in ToSet(Schema[query.from]) : c.name = name[2]
                    \/ /\ name[1] = query.joins[1].table
                       /\ \E c \in ToSet(Schema[query.joins[1].table]) : c.name = name[2]
<1>1. PICK from, table : from = query.from /\ table = query.joins[1].table
  OBVIOUS
<1>2. /\ t = <<t[1], t[2]>> /\ (t[1] # 0 \/ t[2] # 0)
      /\ t[1] # 0 => TypedCells(from, seen[1][t[1]])
      /\ t[2] # 0 => TypedCells(table, seen[2][t[2]])
  <2>1. CASE t \in Pairs(query, seen)
    BY <1>1, <2>1, PairNames, JoinFoundTables
  <2>2. CASE \E i \in LeftAlone(query, seen) : t = <<i, 0>>
    BY <1>1, <2>2, JoinFoundTables DEF LeftAlone
  <2>3. CASE \E r \in RightAlone(query, seen) : t = <<0, r>>
    BY <1>1, <2>3, JoinFoundTables DEF RightAlone
  <2> QED
    BY <2>1, <2>2, <2>3 DEF Tuples, JoinFound
<1>3. TableAt(1) = from /\ TableAt(2) = table /\ from # table /\ from \in TableName /\ table \in TableName
  BY <1>1, JoinFoundTables
<1>4. PICK l, r : /\ l = (IF t[1] = 0 THEN Nulls(from, Columns(from))
                         ELSE IF t[2] = 0 THEN AllQualified(from, seen[1][t[1]])
                         ELSE Qualified(from, seen[1][t[1]]))
                 /\ r = (IF t[2] = 0 THEN Nulls(table, Columns(table))
                         ELSE IF t[1] = 0 THEN AllQualified(table, seen[2][t[2]])
                         ELSE Qualified(table, seen[2][t[2]]))
  OBVIOUS
<1>5. IsPart(t, 1, l)
  <2>1. CASE t[1] = 0
    BY <1>3, <1>4, <2>1, NullsPart
  <2>2. CASE t[1] # 0
    BY <1>2, <1>3, <1>4, <2>2, QualifiedPart
  <2> QED
    BY <2>1, <2>2
<1>6. IsPart(t, 2, r)
  <2>1. CASE t[2] = 0
    BY <1>3, <1>4, <2>1, NullsPart
  <2>2. CASE t[2] # 0
    BY <1>2, <1>3, <1>4, <2>2, QualifiedPart
  <2> QED
    BY <2>1, <2>2
<1>7. RowOf(query, seen, t) = Merged(l, r)
  BY <1>1, <1>2, <1>4 DEF RowOf, LeftMap, RightMap, PairMap, JoinFound
<1>8. Merged(l, r) = Cells(t)
  BY <1>2, <1>3, <1>5, <1>6, MergedCells
<1>9. ASSUME NEW k \in {1, 2}, NEW name \in Names(t, k)
      PROVE  name = <<TableAt(k), name[2]>> /\ \E c \in ToSet(Schema[TableAt(k)]) : c.name = name[2]
  <2>1. name = <<TableAt(k), name[2]>>
    BY <1>5, <1>6, <1>9 DEF IsPart
  <2>2. CASE t[k] = 0
    BY <1>9, <2>1, <2>2 DEF Names
  <2>3. CASE t[k] # 0
    <3>1. TypedCells(TableAt(k), seen[k][t[k]])
      BY <1>2, <1>3, <2>3
    <3>2. PICK c \in DOMAIN seen[k][t[k]] : name = <<TableAt(k)>> \o c
      BY <1>9, <2>3 DEF Names
    <3>3. PICK T, map : T = TableAt(k) /\ map = seen[k][t[k]]
      OBVIOUS
    <3>4. TypedCells(T, map) /\ c \in DOMAIN map
      BY <3>1, <3>2, <3>3
    <3>5. <<T>> \o c = <<T, c[1]>>
      BY <3>4, TypedNames
    <3>6. \E d \in ToSet(Schema[T]) : d.name = c[1]
      BY <3>4, TypedNames
    <3> QED
      BY <2>1, <3>2, <3>3, <3>5, <3>6
  <2> QED
    BY <2>2, <2>3
<1>10. DOMAIN Cells(t) = Names(t, 1) \cup Names(t, 2)
  <2>1. DOMAIN Merged(l, r) = DOMAIN l \cup DOMAIN r
    BY DEF Merged
  <2> QED
    BY <1>5, <1>6, <1>8, <2>1 DEF IsPart
<1>11. \A name \in DOMAIN Cells(t) :
          \/ /\ name = <<from, name[2]>>
             /\ \E c \in ToSet(Schema[from]) : c.name = name[2]
          \/ /\ name = <<table, name[2]>>
             /\ \E c \in ToSet(Schema[table]) : c.name = name[2]
  BY <1>3, <1>9, <1>10
<1>12. \A name \in DOMAIN Cells(t) :
          /\ name = <<name[1], name[2]>>
          /\ \/ name[1] = from /\ \E c \in ToSet(Schema[from]) : c.name = name[2]
             \/ name[1] = table /\ \E c \in ToSet(Schema[table]) : c.name = name[2]
  <2>1. \A T, x : <<T, x>>[1] = T /\ <<T, x>>[2] = x
    OBVIOUS
  <2> QED
    BY <1>11, <2>1
<1> QED
  BY <1>1, <1>7, <1>8, <1>12

\* The hash join reads the cell that ON names, of the type of its column.
LEMMA HeldValue ==
    ASSUME DistinctColumns, NEW t \in TableName, NEW map, TypedCells(t, map),
           NEW T, NEW a, NEW column, column = Resolved(Columns(t), <<T, a>>)
    PROVE  /\ Held(map, column) = IF <<a>> \in DOMAIN map THEN {map[<<a>>]} ELSE {}
           /\ <<a>> \in DOMAIN map =>
                 \A c \in column : map[<<a>>] = [go |-> GoOf(c.type), n |-> map[<<a>>].n]
<1>1. PICK columns, hits : /\ columns = Columns(t)
                          /\ hits = {i \in DOMAIN columns : Last(columns[i].name) = a}
  OBVIOUS
<1>2. /\ IsSequence(Schema[t]) /\ DOMAIN Schema[t] \subseteq Nat
      /\ \A i \in DOMAIN Schema[t] : Schema[t][i] = [name |-> Schema[t][i].name, type |-> Schema[t][i].type]
  <2>1. IsSequence(Schema[t])
    BY QueryAssumption DEF IsSequence
  <2>2. DOMAIN Schema[t] \subseteq Nat
    BY <2>1, PositionsFinite
  <2> QED
    BY <2>1, <2>2, QueryAssumption
<1>3. /\ DOMAIN columns = DOMAIN Schema[t]
      /\ \A i \in DOMAIN columns : /\ columns[i].name = <<Schema[t][i].name>>
                                   /\ columns[i].type = Schema[t][i].type
                                   /\ Last(columns[i].name) = Schema[t][i].name
  <2>1. DOMAIN columns = DOMAIN Schema[t]
    BY <1>1 DEF Columns
  <2>2. ASSUME NEW i \in DOMAIN columns
        PROVE  columns[i].name = <<Schema[t][i].name>> /\ columns[i].type = Schema[t][i].type
    <3>1. PICK r : r = Schema[t][i]
      OBVIOUS
    <3>2. r = [name |-> r.name, type |-> r.type]
      BY <1>2, <2>1, <3>1
    <3>3. columns[i] = [r EXCEPT !.name = <<@>>]
      BY <1>1, <2>1, <3>1 DEF Columns
    <3> QED
      BY <3>1, <3>2, <3>3
  <2>3. \A x : Last(<<x>>) = x
    BY FullName
  <2> QED
    BY <2>1, <2>2, <2>3
<1>4. column = {columns[i] : i \in {i \in hits : \A j \in hits : i <= j}}
  <2>1. Last(<<T, a>>) = a
    BY FullName
  <2> QED
    BY <1>1, <2>1 DEF Resolved
<1>5. \A i \in hits : hits = {i} /\ i <= i /\ column = {columns[i]}
  <2> SUFFICES ASSUME NEW i \in hits
               PROVE  hits = {i} /\ i <= i /\ column = {columns[i]}
    OBVIOUS
  <2>1. hits = {i}
    BY <1>1, <1>3 DEF DistinctColumns
  <2>2. i <= i
    BY <1>1, <1>2, <1>3
  <2> QED
    BY <1>4, <2>1, <2>2
<1>6. \A c \in column : c.name = <<a>>
  <2>1. \A i \in hits : columns[i].name = <<a>>
    BY <1>1, <1>3
  <2> QED
    BY <1>4, <2>1
<1>7. CASE <<a>> \in DOMAIN map
  <2>1. PICK c \in ToSet(Schema[t]) :
           <<a>> = <<c.name>> /\ map[<<a>>] = [go |-> GoOf(c.type), n |-> map[<<a>>].n]
    BY <1>7 DEF TypedCells
  <2>2. PICK i \in DOMAIN Schema[t] : c = Schema[t][i]
    BY DEF ToSet
  <2>3. i \in hits /\ columns[i].type = c.type
    BY <1>1, <1>3, <2>1, <2>2
  <2>4. column = {columns[i]}
    BY <1>5, <2>3
  <2>5. Held(map, column) = {map[<<a>>]}
    BY <1>6, <1>7, <2>4 DEF Held
  <2> QED
    BY <1>7, <2>1, <2>3, <2>4, <2>5
<1>8. CASE <<a>> \notin DOMAIN map
  BY <1>6, <1>8 DEF Held
<1> QED
  BY <1>7, <1>8

\* The cell of a table in a row of the joined tables.
LEMMA CellFound ==
    ASSUME NEW tuple, NEW k, tuple[k] # 0, TypedCells(TableAt(k), seen[k][tuple[k]]), NEW a
    PROVE  /\ <<TableAt(k), a>> \in Names(tuple, k) <=> <<a>> \in DOMAIN seen[k][tuple[k]]
           /\ CellOf(tuple, k, <<TableAt(k), a>>) = seen[k][tuple[k]][<<a>>]
<1>1. PICK T, map : T = TableAt(k) /\ map = seen[k][tuple[k]]
  OBVIOUS
<1>2. Names(tuple, k) = {<<T>> \o c : c \in DOMAIN map}
  BY <1>1 DEF Names
<1>3. \A c \in DOMAIN map : c = <<c[1]>> /\ <<T>> \o c = <<T, c[1]>>
  BY <1>1, TypedNames
<1>4. ASSUME <<a>> \in DOMAIN map
      PROVE  <<T, a>> \in Names(tuple, k)
  <2>1. <<T>> \o <<a>> = <<T, a>>
    BY FullName
  <2> QED
    BY <1>2, <1>4, <2>1
<1>5. ASSUME <<T, a>> \in Names(tuple, k)
      PROVE  <<a>> \in DOMAIN map
  <2>1. PICK c \in DOMAIN map : <<T, a>> = <<T>> \o c
    BY <1>2, <1>5
  <2>2. <<T, a>> = <<T, c[1]>> /\ c = <<c[1]>>
    BY <1>3, <2>1
  <2>3. a = c[1]
    BY <2>2
  <2> QED
    BY <2>2, <2>3
<1>6. Tail(<<T, a>>) = <<a>>
  BY FullName
<1> QED
  BY <1>1, <1>4, <1>5, <1>6 DEF CellOf

\* Of values of one type, those that WHERE takes for equal are.
LEMMA OneTypeCompared ==
    ASSUME NEW type, NEW x, x = [go |-> GoOf(type), n |-> x.n],
           NEW y, y = [go |-> GoOf(type), n |-> y.n], Compared(x) = Compared(y)
    PROVE  x = y
<1>1. x.go = y.go
  OBVIOUS
<1>2. CASE IsNumber(x)
  <2>1. IsNumber(y)
    BY <1>1, <1>2 DEF IsNumber
  <2>2. PICK number : number = Compared(x)
    OBVIOUS
  <2>3. number = [go |-> "number", n |-> x.n] /\ number = [go |-> "number", n |-> y.n]
    BY <1>2, <2>1, <2>2 DEF Compared
  <2>4. x.n = y.n
    BY <2>3
  <2> QED
    BY <2>4
<1>3. CASE ~IsNumber(x)
  <2>1. ~IsNumber(y)
    BY <1>1, <1>3 DEF IsNumber
  <2> QED
    BY <1>3, <2>1 DEF Compared
<1> QED
  BY <1>2, <1>3

\* The hash join joins the rows that ON means.
LEMMA PairsMatch ==
    ASSUME PlainJoins, DistinctColumns, JoinFound, Comparable(query),
           NEW i \in DOMAIN seen[1], NEW r \in DOMAIN seen[2]
    PROVE  <<i, r>> \in Pairs(query, seen) <=> Matches(<<i, r>>, query.joins[1])
<1>1. PICK from, table, join, tuple, l, m :
         /\ from = query.from /\ join = query.joins[1] /\ table = join.table
         /\ tuple = <<i, r>> /\ l = seen[1][i] /\ m = seen[2][r]
  OBVIOUS
<1>2. /\ TableAt(1) = from /\ TableAt(2) = table /\ from # table /\ from \in TableName /\ table \in TableName
      /\ TypedCells(from, l) /\ TypedCells(table, m) /\ i # 0 /\ r # 0
  BY <1>1, JoinFoundTables
<1>3. PICK a, b : join.left = <<from, a>> /\ join.right = <<table, b>>
  BY <1>1, JoinFoundTables
<1>4. tuple[1] = i /\ tuple[2] = r
  BY <1>1
<1>5. PICK cells : cells = Cells(tuple)
  OBVIOUS
<1>6. IsPart(tuple, 1, Qualified(from, l)) /\ IsPart(tuple, 2, Qualified(table, m))
  BY <1>1, <1>2, <1>4, QualifiedPart
<1>7. cells = Merged(Qualified(from, l), Qualified(table, m))
  BY <1>1, <1>2, <1>5, <1>6, MergedCells
<1>8. /\ DOMAIN cells = Names(tuple, 1) \cup Names(tuple, 2)
      /\ \A name \in Names(tuple, 1) : name = <<from, name[2]>>
      /\ \A name \in Names(tuple, 2) : name = <<table, name[2]>>
  BY <1>2, <1>6, <1>7 DEF Merged, IsPart
<1>9. /\ join.left \in DOMAIN cells <=> <<a>> \in DOMAIN l
      /\ join.left \in DOMAIN cells => cells[join.left] = l[<<a>>]
  <2>1. <<from, a>> \notin Names(tuple, 2)
    BY <1>2, <1>8
  <2>2. /\ <<from, a>> \in Names(tuple, 1) <=> <<a>> \in DOMAIN l
        /\ CellOf(tuple, 1, <<from, a>>) = l[<<a>>]
    BY <1>1, <1>2, <1>4, CellFound
  <2>3. <<from, a>> \in Names(tuple, 1) => cells[<<from, a>>] = CellOf(tuple, 1, <<from, a>>)
    BY <1>6, <1>7, <2>1 DEF Merged, IsPart
  <2> QED
    BY <1>3, <1>8, <2>1, <2>2, <2>3
<1>10. /\ join.right \in DOMAIN cells <=> <<b>> \in DOMAIN m
       /\ join.right \in DOMAIN cells => cells[join.right] = m[<<b>>]
  <2>1. <<table, b>> \notin Names(tuple, 1)
    BY <1>2, <1>8
  <2>2. /\ <<table, b>> \in Names(tuple, 2) <=> <<b>> \in DOMAIN m
        /\ CellOf(tuple, 2, <<table, b>>) = m[<<b>>]
    BY <1>1, <1>2, <1>4, CellFound
  <2>3. <<table, b>> \in Names(tuple, 2) => cells[<<table, b>>] = CellOf(tuple, 2, <<table, b>>)
    BY <1>6, <1>7 DEF Merged, IsPart
  <2> QED
    BY <1>3, <1>8, <2>1, <2>2, <2>3
<1>11. /\ Held(l, OnLeft(query)) = (IF <<a>> \in DOMAIN l THEN {l[<<a>>]} ELSE {})
       /\ <<a>> \in DOMAIN l => \A c \in OnLeft(query) : l[<<a>>] = [go |-> GoOf(c.type), n |-> l[<<a>>].n]
  <2>1. OnLeft(query) = Resolved(Columns(from), <<from, a>>)
    BY <1>1, <1>3 DEF OnLeft
  <2>2. from \in TableName /\ TypedCells(from, l)
    BY <1>2
  <2> QED
    BY <2>1, <2>2, HeldValue
<1>12. /\ Held(m, OnRight(query)) = (IF <<b>> \in DOMAIN m THEN {m[<<b>>]} ELSE {})
       /\ <<b>> \in DOMAIN m => \A c \in OnRight(query) : m[<<b>>] = [go |-> GoOf(c.type), n |-> m[<<b>>].n]
  <2>1. OnRight(query) = Resolved(Columns(table), <<table, b>>)
    BY <1>1, <1>3 DEF OnRight
  <2>2. table \in TableName /\ TypedCells(table, m)
    BY <1>2
  <2> QED
    BY <2>1, <2>2, HeldValue
<1>13. tuple \in Pairs(query, seen)
          <=> <<a>> \in DOMAIN l /\ <<b>> \in DOMAIN m /\ l[<<a>>] = m[<<b>>]
  <2>1. tuple \in Pairs(query, seen) <=> Held(l, OnLeft(query)) \cap Held(m, OnRight(query)) # {}
    BY <1>1, <1>4 DEF Pairs
  <2> QED
    BY <1>11, <1>12, <2>1
<1>14. Matches(tuple, join)
          <=> <<a>> \in DOMAIN l /\ <<b>> \in DOMAIN m /\ Compared(l[<<a>>]) = Compared(m[<<b>>])
  <2>1. <<a>> \in DOMAIN l => l[<<a>>] # Null
    BY <1>2, TypedNames
  <2> QED
    BY <1>5, <1>9, <1>10, <2>1 DEF Matches
<1>15. ASSUME <<a>> \in DOMAIN l, <<b>> \in DOMAIN m, Compared(l[<<a>>]) = Compared(m[<<b>>])
       PROVE  l[<<a>>] = m[<<b>>]
  <2>1. PICK type : \E c \in OnLeft(query), d \in OnRight(query) : c.type = type /\ d.type = type
    BY DEF Comparable
  <2>2. PICK x, y : x = l[<<a>>] /\ y = m[<<b>>]
    OBVIOUS
  <2>3. x = [go |-> GoOf(type), n |-> x.n] /\ y = [go |-> GoOf(type), n |-> y.n]
    BY <1>11, <1>12, <1>15, <2>1, <2>2
  <2>4. Compared(x) = Compared(y)
    BY <1>15, <2>2
  <2> QED
    BY <2>2, <2>3, <2>4, OneTypeCompared
<1> QED
  BY <1>1, <1>13, <1>14, <1>15

\* Without a join, every row that was found; with one, the rows of the two tables
\* that ON joins, and those the type of the join adds.
LEMMA FromJoinsUnfolded ==
    ASSUME NEW n \in {0, 1}, Len(query.joins) = n,
           NEW S, S = {<<i>> : i \in DOMAIN seen[1]}
    PROVE  FromJoins = IF n = 0 THEN S ELSE JoinedTo(S, 2)
<1>1. PICK F : F = [k \in 1 .. n + 1 |-> IF k = 1 THEN S ELSE JoinedTo(S, 2)]
  OBVIOUS
<1>2. F = [k \in 1 .. n + 1 |-> IF k = 1 THEN S ELSE JoinedTo(F[k - 1], k)]
  <2>1. \A k \in 1 .. n + 1 : k = 1 \/ (k = 2 /\ k - 1 = 1 /\ 1 \in 1 .. n + 1)
    OBVIOUS
  <2>2. \A k \in 1 .. n + 1 : F[k] = IF k = 1 THEN S ELSE JoinedTo(F[k - 1], k)
    BY <1>1, <2>1
  <2> QED
    BY <1>1, <2>2
<1>3. PICK step : step = CHOOSE f : f = [k \in 1 .. n + 1 |-> IF k = 1 THEN S ELSE JoinedTo(f[k - 1], k)]
  OBVIOUS
<1>4. step = [k \in 1 .. n + 1 |-> IF k = 1 THEN S ELSE JoinedTo(step[k - 1], k)]
  BY <1>2, <1>3, Zenon
<1>5. FromJoins = step[n + 1]
  BY <1>3, Zenon DEF FromJoins
<1>6. 1 \in 1 .. n + 1 /\ step[1] = S
  BY <1>4
<1>7. CASE n = 0
  BY <1>5, <1>6, <1>7
<1>8. CASE n = 1
  <2>1. 2 \in 1 .. n + 1 /\ 2 - 1 = 1 /\ n + 1 = 2
    BY <1>8
  <2>2. step[2] = JoinedTo(step[2 - 1], 2)
    <3>1. step[2] = IF 2 = 1 THEN S ELSE JoinedTo(step[2 - 1], 2)
      BY <1>4, <2>1, Zenon
    <3> QED
      BY <3>1
  <2>3. step[2 - 1] = S
    BY <1>6, <2>1
  <2> QED
    BY <1>5, <1>8, <2>1, <2>2, <2>3
<1> QED
  BY <1>7, <1>8

LEMMA TuplesJoined ==
    ASSUME PlainJoins, DistinctColumns, JoinFound, Comparable(query)
    PROVE  FromJoins = Tuples(query, seen)
<1>1. PICK S, join, rights : S = {<<i>> : i \in DOMAIN seen[1]} /\ join = query.joins[1] /\ rights = DOMAIN seen[2]
  OBVIOUS
<1>2. FromJoins = JoinedTo(S, 2)
  <2>1. Len(query.joins) = 1
    BY JoinFoundTables
  <2> QED
    BY <1>1, <2>1, FromJoinsUnfolded
<1>3. \A l \in S : l[1] \in DOMAIN seen[1] /\ \A r : Append(l, r) = <<l[1], r>>
  <2> SUFFICES ASSUME NEW i \in DOMAIN seen[1], NEW r
               PROVE  <<i>>[1] = i /\ Append(<<i>>, r) = <<i, r>>
    BY <1>1
  <2> QED
    BY AppendPair
<1>4. \A i \in DOMAIN seen[1] : <<i>> \in S /\ <<i>>[1] = i
  BY <1>1
<1>5. PICK all : all = {Append(p[1], p[2]) : p \in S \X rights}
  OBVIOUS
<1>6. PICK inner : inner = {t \in all : Matches(t, join)}
  OBVIOUS
<1>7. PICK alone, others, nothing :
         /\ alone = {l \in S : \A r \in rights : Append(l, r) \notin inner}
         /\ others = {r \in rights : \A l \in S : Append(l, r) \notin inner}
         /\ nothing = [i \in 1 .. 1 |-> 0]
  OBVIOUS
<1>8. JoinedTo(S, 2) = inner
         \cup (IF join.type \in {"LEFT", "FULL"} THEN {Append(l, 0) : l \in alone} ELSE {})
         \cup (IF join.type \in {"RIGHT", "FULL"} THEN {Append(nothing, r) : r \in others} ELSE {})
  <2>1. 2 - 1 = 1
    OBVIOUS
  <2> QED
    BY <1>1, <1>5, <1>6, <1>7, <2>1 DEF JoinedTo
<1>9. inner = Pairs(query, seen)
  <2>1. all = (DOMAIN seen[1]) \X rights
    <3>1. \A p \in S \X rights : Append(p[1], p[2]) = <<p[1][1], p[2]>> /\ p[1][1] \in DOMAIN seen[1]
      BY <1>3
    <3>2. all \subseteq (DOMAIN seen[1]) \X rights
      BY <1>5, <3>1
    <3>3. ASSUME NEW i \in DOMAIN seen[1], NEW r \in rights
          PROVE  <<i, r>> \in all
      <4>1. PICK p : p = <<<<i>>, r>>
        OBVIOUS
      <4>2. p \in S \X rights /\ p[1][1] = i /\ p[2] = r
        BY <1>4, <4>1
      <4> QED
        BY <1>5, <3>1, <4>2
    <3> QED
      BY <3>2, <3>3
  <2>2. \A t \in (DOMAIN seen[1]) \X rights : t \in Pairs(query, seen) <=> Matches(t, join)
    BY <1>1, PairsMatch
  <2>3. Pairs(query, seen) \subseteq (DOMAIN seen[1]) \X rights
    BY <1>1 DEF Pairs
  <2> QED
    BY <1>6, <2>1, <2>2, <2>3
<1>10. {Append(l, 0) : l \in alone} = LeftNulls(query, seen)
  <2>1. \A l \in S : l \in alone <=> l[1] \in LeftAlone(query, seen)
    BY <1>1, <1>3, <1>7, <1>9 DEF LeftAlone
  <2>2. {Append(l, 0) : l \in alone} = {<<l[1], 0>> : l \in alone}
    BY <1>3, <1>7
  <2>3. \A i \in LeftAlone(query, seen) : <<i>> \in alone /\ <<i>>[1] = i
    BY <1>4, <2>1 DEF LeftAlone
  <2>4. \A l \in alone : l[1] \in LeftAlone(query, seen)
    BY <1>7, <2>1
  <2>5. \A i \in LeftAlone(query, seen) : \E l \in alone : l[1] = i
    BY <2>3
  <2> QED
    BY <2>2, <2>4, <2>5 DEF LeftNulls
<1>11. {Append(nothing, r) : r \in others} = RightNulls(query, seen)
  <2>1. nothing = <<0>>
    BY <1>7
  <2>2. others = RightAlone(query, seen)
    <3>1. \A r \in rights : \A l \in S : Append(l, r) = <<l[1], r>>
      BY <1>3
    <3>2. \A r \in rights : r \in others <=> \A l \in S : <<l[1], r>> \notin inner
      BY <1>7, <3>1
    <3>3. \A r \in rights : (\A l \in S : <<l[1], r>> \notin inner)
                               <=> \A i \in DOMAIN seen[1] : <<i, r>> \notin inner
      <4>1. \A i \in DOMAIN seen[1] : \E l \in S : l[1] = i
        BY <1>4
      <4> QED
        BY <1>3, <4>1
    <3> QED
      BY <1>1, <1>7, <1>9, <3>2, <3>3 DEF RightAlone
  <2>3. \A r : Append(nothing, r) = <<0, r>>
    BY <2>1, AppendPair
  <2> QED
    BY <2>2, <2>3 DEF RightNulls
<1>12. Tuples(query, seen) = Pairs(query, seen)
         \cup (IF join.type \in {"LEFT", "FULL"} THEN LeftNulls(query, seen) ELSE {})
         \cup (IF join.type \in {"RIGHT", "FULL"} THEN RightNulls(query, seen) ELSE {})
  BY <1>1 DEF Tuples, JoinFound, LeftNulls, RightNulls
<1> QED
  BY <1>2, <1>8, <1>9, <1>10, <1>11, <1>12

\* A comparison that finds one cell, or none, by either reading of its column.
LEMMA ComparisonMeant ==
    ASSUME NEW map, NEW cells, NEW comparison,
           NEW key, Looked(map, comparison.column) = key,
           NEW name, Meant(cells, comparison.column) = {name} \cap DOMAIN cells,
           key \in DOMAIN map <=> name \in DOMAIN cells,
           key \in DOMAIN map => map[key] = cells[name]
    PROVE  Holds(comparison, map)
             <=> \E k \in Meant(cells, comparison.column) : Compared(cells[k]) \in comparison.accepts
BY DEF Holds

\* WHERE as the executor evaluates it is WHERE as it is meant, if every one of
\* its comparisons is.
LEMMA WhereMeant ==
    ASSUME NEW t, NEW map,
           \A conjunction \in query.where : \A i \in DOMAIN conjunction :
              Holds(conjunction[i], map)
                <=> \E k \in Meant(Cells(t), conjunction[i].column) :
                       Compared(Cells(t)[k]) \in conjunction[i].accepts
    PROVE  Satisfies(map, query.where) <=> Wanted(t)
BY DEF Satisfies, Wanted

\* A projection of columns that each name one cell, or none.
\* A field picks one cell of the map, if any, and it holds the value that is meant.
PickedIsMeant(map, cells) ==
    \A f \in query.fields :
       /\ Picked(map, f) = {} <=> Meant(cells, f) = {}
       /\ \A p, q \in Picked(map, f) : p = q
       /\ \A p, k : p \in Picked(map, f) /\ k \in Meant(cells, f) => map[p] = cells[k]

LEMMA ProjectionMeant ==
    ASSUME NEW t, NEW map, NEW cells, cells = Cells(t), query.fields # {},
           PickedIsMeant(map, cells),
           NEW answer \in Projections(map, query.fields)
    PROVE  answer = Shown(t)
<1>1. PICK there : there = {f \in query.fields : Picked(map, f) # {}}
  OBVIOUS
<1>2. there = {f \in query.fields : Meant(cells, f) # {}}
  BY <1>1 DEF PickedIsMeant
<1>3. PICK p \in [there -> DOMAIN map] :
         /\ \A f \in there : p[f] \in Picked(map, f)
         /\ answer = [f \in there |-> map[p[f]]]
  BY <1>1 DEF Projections
<1>4. \A f \in there : TheMeant(cells, f) \in Meant(cells, f)
  BY <1>2, Zenon DEF TheMeant
<1>5. \A f \in there : map[p[f]] = cells[TheMeant(cells, f)]
  BY <1>1, <1>3, <1>4 DEF PickedIsMeant
<1>6. Shown(t) = [f \in there |-> cells[TheMeant(cells, f)]]
  BY <1>2 DEF Shown
<1> QED
  BY <1>3, <1>5, <1>6

LEMMA PairLength ==
    ASSUME NEW x, NEW y
    PROVE  /\ Len(<<x, y>>) = 2 /\ Len(<<x>>) = 1
           /\ \A z : <<z>> # <<x, y>>
  OBVIOUS

LEMMA PairKey ==
    ASSUME NEW x, NEW y, NEW k, k = <<x, y>>
    PROVE  /\ k[1] = x /\ k[2] = y /\ Len(k) = 2
           /\ Last(k) = y /\ Tail(k) = <<y>> /\ \A z : <<z>> # k
<1>1. <<x, y>>[1] = x /\ <<x, y>>[2] = y
  OBVIOUS
<1> QED
  BY <1>1, FullName, PairLength

LEMMA OneKey ==
    ASSUME NEW x, NEW k, k = <<x>>
    PROVE  k[1] = x /\ Len(k) = 1 /\ Last(k) = x /\ \A z : <<z>> = k <=> z = x
<1>1. <<x>>[1] = x /\ \A z : <<z>> = <<x>> => z = x
  OBVIOUS
<1> QED
  BY <1>1, FullName, PairLength

LEMMA JoinWhere ==
    ASSUME PlainJoins, JoinFound, PlainNames(query), NEW t \in Tuples(query, seen)
    PROVE  Satisfies(RowOf(query, seen, t), query.where) <=> Wanted(t)
<1>1. PICK cells : cells = Cells(t)
  OBVIOUS
<1>2. RowOf(query, seen, t) = cells /\ \A k \in DOMAIN cells : k = <<k[1], k[2]>>
  BY <1>1, JoinCells
<1>3. ASSUME NEW conjunction \in query.where, NEW i \in DOMAIN conjunction
      PROVE  Holds(conjunction[i], cells)
                <=> \E k \in Meant(cells, conjunction[i].column) :
                       Compared(cells[k]) \in conjunction[i].accepts
  <2>1. PICK comparison, name : comparison = conjunction[i] /\ name = comparison.column
    OBVIOUS
  <2>2. name = <<name[1], name[2]>>
    BY <1>3, <2>1 DEF PlainNames, JoinFound
  <2>3. Len(name) # 1
    BY <2>2, PairLength
  <2>4. Meant(cells, name) = {name} \cap DOMAIN cells
    BY <2>3 DEF Meant
  <2>5. PICK key : key = Looked(cells, name)
    OBVIOUS
  <2>6. /\ key \in DOMAIN cells <=> name \in DOMAIN cells
        /\ key \in DOMAIN cells => key = name
    <3>1. CASE name \in DOMAIN cells
      BY <2>5, <3>1 DEF Looked
    <3>2. CASE name \notin DOMAIN cells
      <4>1. PICK x : key = <<x>>
        BY <2>5, <3>2 DEF Looked
      <4>2. key \notin DOMAIN cells
        BY <1>2, <4>1, PairLength
      <4> QED
        BY <3>2, <4>2
    <3> QED
      BY <3>1, <3>2
  <2>7. /\ Looked(cells, comparison.column) = key
        /\ Meant(cells, comparison.column) = {name} \cap DOMAIN cells
        /\ key \in DOMAIN cells => cells[key] = cells[name]
    BY <2>1, <2>4, <2>5, <2>6
  <2> QED
    BY <2>1, <2>6, <2>7, ComparisonMeant
<1> QED
  BY <1>1, <1>2, <1>3, WhereMeant

LEMMA JoinShown ==
    ASSUME PlainJoins, JoinFound, PlainNames(query), NEW t \in Tuples(query, seen),
           NEW answer \in Projections(RowOf(query, seen, t), query.fields)
    PROVE  answer = Shown(t)
<1>1. PICK from, table, cells : from = query.from /\ table = query.joins[1].table /\ cells = Cells(t)
  OBVIOUS
<1>2. /\ RowOf(query, seen, t) = cells
      /\ \A k \in DOMAIN cells :
            /\ k = <<k[1], k[2]>>
            /\ \/ k[1] = from /\ \E c \in ToSet(Schema[from]) : c.name = k[2]
               \/ k[1] = table /\ \E c \in ToSet(Schema[table]) : c.name = k[2]
  BY <1>1, JoinCells
<1>3. CASE query.fields = {}
  <2>1. answer = cells
    BY <1>2, <1>3 DEF Projections
  <2> QED
    BY <1>1, <1>3, <2>1 DEF Shown, JoinFound
<1>4. CASE query.fields # {}
  <2>1. ASSUME NEW f \in query.fields
        PROVE  Picked(cells, f) = Meant(cells, f) /\ \A p, q \in Picked(cells, f) : p = q
    <3>1. CASE f = <<f[1], f[2]>>
      <4>1. Len(f) # 1
        BY <3>1, PairLength
      <4> QED
        BY <4>1 DEF Picked, Meant
    <3>2. CASE f = <<f[1]>> /\ \A c \in ToSet(Schema[from]), d \in ToSet(Schema[table]) :
                                  c.name # f[1] \/ d.name # f[1]
      <4>1. PICK a : a = f[1]
        OBVIOUS
      <4>2. f = <<a>> /\ Len(f) = 1 /\ Last(f) = a
        BY <3>2, <4>1, FullName
      <4>3. \A k \in DOMAIN cells : Last(k) = k[2] /\ Tail(k) = <<k[2]>> /\ k # f
        <5> SUFFICES ASSUME NEW k \in DOMAIN cells
                     PROVE  Last(k) = k[2] /\ Tail(k) = <<k[2]>> /\ k # f
          OBVIOUS
        <5>1. PICK x, y : x = k[1] /\ y = k[2]
          OBVIOUS
        <5>2. k = <<x, y>>
          BY <1>2, <5>1
        <5> QED
          BY <4>2, <5>1, <5>2, PairKey
      <4>4. Picked(cells, f) = {k \in DOMAIN cells : k[2] = a}
        BY <4>2, <4>3 DEF Picked
      <4>5. \A x : <<x>> = f <=> x = a
        BY <4>2
      <4>6. Meant(cells, f) = {k \in DOMAIN cells : k[2] = a}
        BY <4>2, <4>3, <4>5 DEF Meant
      <4>7. \A p, q \in DOMAIN cells : p[2] = a /\ q[2] = a => p[1] = q[1]
        BY <1>2, <3>2, <4>1
      <4>8. \A p, q \in DOMAIN cells : p[2] = a /\ q[2] = a => p = q
        BY <1>2, <4>7
      <4> QED
        BY <4>4, <4>6, <4>8
    <3> QED
      BY <1>1, <2>1, <3>1, <3>2 DEF PlainNames, JoinFound
  <2>2. PickedIsMeant(cells, cells)
    BY <2>1 DEF PickedIsMeant
  <2>3. answer \in Projections(cells, query.fields)
    BY <1>2
  <2>4. cells = Cells(t)
    BY <1>1
  <2> QED
    BY <1>4, <2>2, <2>3, <2>4, ProjectionMeant
<1> QED
  BY <1>3, <1>4

\* A query of a single table, and what its scan found.
AloneFound ==
    /\ query \in Queries /\ query.joins = <<>>
    /\ DOMAIN seen = {1} /\ SeenInv /\ FoundTyped

LEMMA AloneCells ==
    ASSUME AloneFound, NEW i \in DOMAIN seen[1]
    PROVE  /\ RowOf(query, seen, <<i>>) = seen[1][i] /\ TypedCells(query.from, seen[1][i])
           /\ \A k \in DOMAIN Cells(<<i>>) : k = <<query.from, k[2]>> /\ <<k[2]>> \in DOMAIN seen[1][i]
           /\ \A k \in DOMAIN seen[1][i] : k = <<k[1]>> /\ <<query.from, k[1]>> \in DOMAIN Cells(<<i>>)
           /\ \A a : <<query.from, a>> \in DOMAIN Cells(<<i>>)
                        => Cells(<<i>>)[<<query.from, a>>] = seen[1][i][<<a>>]
<1>1. PICK tuple, from, map, cells : tuple = <<i>> /\ from = query.from /\ map = seen[1][i] /\ cells = Cells(tuple)
  OBVIOUS
<1>2. tuple[1] = i /\ DOMAIN tuple = {1} /\ i # 0 /\ TableAt(1) = from
  <2>1. DOMAIN seen[1] \subseteq Nat \ {0}
    BY PositionsFinite DEF AloneFound, SeenInv
  <2> QED
    BY <1>1, <2>1 DEF TableAt
<1>3. TypedCells(from, map)
  BY <1>1, <1>2 DEF AloneFound, FoundTyped
<1>4. RowOf(query, seen, tuple) = map
  BY <1>1, <1>2 DEF RowOf, AloneFound
<1>5. DOMAIN cells = Names(tuple, 1) /\ \A name \in DOMAIN cells : cells[name] = CellOf(tuple, 1, name)
  <2>1. DOMAIN cells = UNION {Names(tuple, k) : k \in {1}}
    BY <1>1, <1>2 DEF Cells
  <2>2. UNION {Names(tuple, k) : k \in {1}} = Names(tuple, 1)
    OBVIOUS
  <2>3. \A name \in Names(tuple, 1) : Place(tuple, name) = 1
    BY <1>2 DEF Place
  <2>4. \A name \in DOMAIN cells : cells[name] = CellOf(tuple, Place(tuple, name), name)
    BY <1>1 DEF Cells
  <2> QED
    BY <2>1, <2>2, <2>3, <2>4
<1>6. \A a : /\ <<from, a>> \in Names(tuple, 1) <=> <<a>> \in DOMAIN map
             /\ CellOf(tuple, 1, <<from, a>>) = map[<<a>>]
  <2> SUFFICES ASSUME NEW a
               PROVE  /\ <<from, a>> \in Names(tuple, 1) <=> <<a>> \in DOMAIN map
                      /\ CellOf(tuple, 1, <<from, a>>) = map[<<a>>]
    OBVIOUS
  <2>1. tuple[1] # 0 /\ TableAt(1) = from /\ seen[1][tuple[1]] = map
    BY <1>1, <1>2
  <2>2. TypedCells(TableAt(1), seen[1][tuple[1]])
    BY <1>3, <2>1
  <2>3. /\ <<TableAt(1), a>> \in Names(tuple, 1) <=> <<a>> \in DOMAIN seen[1][tuple[1]]
        /\ CellOf(tuple, 1, <<TableAt(1), a>>) = seen[1][tuple[1]][<<a>>]
    BY <2>1, <2>2, CellFound
  <2> QED
    BY <2>1, <2>3
<1>7. \A k \in DOMAIN cells : k = <<from, k[2]>>
  <2>1. IsPart(tuple, 1, Qualified(from, map))
    BY <1>1, <1>2, <1>3, QualifiedPart
  <2> QED
    BY <1>2, <1>5, <2>1 DEF IsPart
<1>8. \A k \in DOMAIN map : k = <<k[1]>>
  BY <1>3, TypedNames
<1>9. \A k \in DOMAIN cells : <<k[2]>> \in DOMAIN map
  BY <1>5, <1>6, <1>7
<1>10. \A k \in DOMAIN map : <<from, k[1]>> \in DOMAIN cells
  BY <1>5, <1>6, <1>8
<1>11. \A a : <<from, a>> \in DOMAIN cells => cells[<<from, a>>] = map[<<a>>]
  BY <1>5, <1>6
<1> QED
  BY <1>1, <1>3, <1>4, <1>7, <1>8, <1>9, <1>10, <1>11

LEMMA AloneWhere ==
    ASSUME AloneFound, PlainNames(query), NEW i \in DOMAIN seen[1]
    PROVE  Satisfies(RowOf(query, seen, <<i>>), query.where) <=> Wanted(<<i>>)
<1>1. PICK from, map, cells : from = query.from /\ map = seen[1][i] /\ cells = Cells(<<i>>)
  OBVIOUS
<1>2. /\ RowOf(query, seen, <<i>>) = map
      /\ \A k \in DOMAIN cells : k = <<from, k[2]>> /\ <<k[2]>> \in DOMAIN map
      /\ \A k \in DOMAIN map : k = <<k[1]>> /\ <<from, k[1]>> \in DOMAIN cells
      /\ \A a : <<from, a>> \in DOMAIN cells => cells[<<from, a>>] = map[<<a>>]
  BY <1>1, AloneCells
<1>3. ASSUME NEW conjunction \in query.where, NEW n \in DOMAIN conjunction
      PROVE  Holds(conjunction[n], map)
                <=> \E k \in Meant(cells, conjunction[n].column) :
                       Compared(cells[k]) \in conjunction[n].accepts
  <2>1. PICK comparison, name : comparison = conjunction[n] /\ name = comparison.column
    OBVIOUS
  <2>2. PICK a : name = <<a>> \/ name = <<from, a>>
    BY <1>1, <1>3, <2>1 DEF PlainNames, AloneFound
  <2>3. PICK full, key : full = <<from, a>> /\ key = <<a>>
    OBVIOUS
  <2>4. key \in DOMAIN map <=> full \in DOMAIN cells
    <3>1. \A k \in DOMAIN cells : k = full => k[2] = a
      BY <2>3
    <3>2. \A k \in DOMAIN map : k = key => k[1] = a
      BY <2>3
    <3> QED
      BY <1>2, <2>3, <3>1, <3>2
  <2>5. Meant(cells, name) = {full} \cap DOMAIN cells
    <3>1. \A k \in DOMAIN cells : Tail(k) = <<k[2]>> /\ k # <<a>>
      <4> SUFFICES ASSUME NEW k \in DOMAIN cells
                   PROVE  Tail(k) = <<k[2]>> /\ k # <<a>>
        OBVIOUS
      <4>1. PICK y : y = k[2]
        OBVIOUS
      <4>2. k = <<from, y>>
        BY <1>2, <4>1
      <4> QED
        BY <4>1, <4>2, PairKey
    <3>2. \A k \in DOMAIN cells : k = full <=> k[2] = a
      BY <1>2, <2>3
    <3>3. \A x : <<x>> = <<a>> <=> x = a
      OBVIOUS
    <3>4. CASE name = <<a>>
      <4>1. Len(name) = 1
        BY <3>4, PairLength
      <4> QED
        BY <3>1, <3>2, <3>3, <3>4, <4>1 DEF Meant
    <3>5. CASE name = <<from, a>>
      <4>1. Len(name) # 1
        BY <3>5, PairLength
      <4> QED
        BY <2>3, <3>5, <4>1 DEF Meant
    <3> QED
      BY <2>2, <3>4, <3>5
  <2>6. Looked(map, name) = key
    <3>1. Last(<<a>>) = a /\ Last(<<from, a>>) = a
      BY FullName
    <3>2. <<from, a>> \notin DOMAIN map
      BY <1>2, PairLength
    <3> QED
      BY <2>2, <2>3, <3>1, <3>2 DEF Looked
  <2>7. /\ Looked(map, comparison.column) = key
        /\ Meant(cells, comparison.column) = {full} \cap DOMAIN cells
        /\ key \in DOMAIN map => map[key] = cells[full]
    BY <1>2, <2>1, <2>3, <2>4, <2>5, <2>6
  <2> QED
    BY <2>1, <2>4, <2>7, ComparisonMeant
<1> QED
  BY <1>1, <1>2, <1>3, WhereMeant

LEMMA AloneShown ==
    ASSUME AloneFound, PlainNames(query), NEW i \in DOMAIN seen[1],
           NEW answer \in Projections(RowOf(query, seen, <<i>>), query.fields)
    PROVE  answer = Shown(<<i>>)
<1>1. PICK from, map, cells : from = query.from /\ map = seen[1][i] /\ cells = Cells(<<i>>)
  OBVIOUS
<1>2. /\ RowOf(query, seen, <<i>>) = map
      /\ \A k \in DOMAIN cells : k = <<from, k[2]>> /\ <<k[2]>> \in DOMAIN map
      /\ \A k \in DOMAIN map : k = <<k[1]>> /\ <<from, k[1]>> \in DOMAIN cells
      /\ \A a : <<from, a>> \in DOMAIN cells => cells[<<from, a>>] = map[<<a>>]
  BY <1>1, AloneCells
<1>3. CASE query.fields = {}
  <2>1. answer = map
    BY <1>2, <1>3 DEF Projections
  <2>2. map = [k \in DOMAIN map |-> map[k]]
    BY <1>1, AloneCells DEF TypedCells
  <2>3. \A k \in DOMAIN cells : Tail(k) = <<k[2]>>
    <3> SUFFICES ASSUME NEW k \in DOMAIN cells
                 PROVE  Tail(k) = <<k[2]>>
      OBVIOUS
    <3>1. PICK y : y = k[2]
      OBVIOUS
    <3>2. k = <<from, y>>
      BY <1>2, <3>1
    <3> QED
      BY <3>1, <3>2, PairKey
  <2>4. {Tail(k) : k \in DOMAIN cells} = DOMAIN map
    <3>1. \A k \in DOMAIN cells : Tail(k) \in DOMAIN map
      BY <1>2, <2>3
    <3>2. \A k \in DOMAIN map : <<from, k[1]>> \in DOMAIN cells /\ Tail(<<from, k[1]>>) = k
      BY <1>2, FullName
    <3> QED
      BY <3>1, <3>2
  <2>5. \A k \in DOMAIN map : cells[<<from>> \o k] = map[k]
    <3> SUFFICES ASSUME NEW k \in DOMAIN map
                 PROVE  cells[<<from>> \o k] = map[k]
      OBVIOUS
    <3>1. PICK a : k = <<a>> /\ <<from, a>> \in DOMAIN cells
      BY <1>2
    <3>2. <<from>> \o <<a>> = <<from, a>>
      BY FullName
    <3> QED
      BY <1>2, <3>1, <3>2
  <2>6. Shown(<<i>>) = [k \in {Tail(k) : k \in DOMAIN cells} |-> cells[<<from>> \o k]]
    BY <1>1, <1>3 DEF Shown, AloneFound
  <2> QED
    BY <2>1, <2>2, <2>4, <2>5, <2>6
<1>4. CASE query.fields # {}
  <2>1. ASSUME NEW f \in query.fields
        PROVE  \E key, full : /\ Picked(map, f) = {key} \cap DOMAIN map
                              /\ Meant(cells, f) = {full} \cap DOMAIN cells
                              /\ key \in DOMAIN map <=> full \in DOMAIN cells
                              /\ key \in DOMAIN map => map[key] = cells[full]
    <3>1. PICK a : f = <<a>>
      BY <2>1 DEF PlainNames, AloneFound
    <3>2. PICK full : full = <<from, a>>
      OBVIOUS
    <3>3. Len(f) = 1 /\ Last(f) = a
      BY <3>1, FullName
    <3>4. \A k \in DOMAIN map : Last(k) = k[1] /\ (k = f <=> k[1] = a)
      <4> SUFFICES ASSUME NEW k \in DOMAIN map
                   PROVE  Last(k) = k[1] /\ (k = f <=> k[1] = a)
        OBVIOUS
      <4>1. PICK x : x = k[1]
        OBVIOUS
      <4>2. k = <<x>>
        BY <1>2, <4>1
      <4> QED
        BY <3>1, <4>1, <4>2, OneKey
    <3>5. Picked(map, f) = {f} \cap DOMAIN map
      BY <3>3, <3>4 DEF Picked
    <3>6. \A k \in DOMAIN cells : Tail(k) = <<k[2]>> /\ k # f /\ (k = full <=> k[2] = a)
      <4> SUFFICES ASSUME NEW k \in DOMAIN cells
                   PROVE  Tail(k) = <<k[2]>> /\ k # f /\ (k = full <=> k[2] = a)
        OBVIOUS
      <4>1. PICK y : y = k[2]
        OBVIOUS
      <4>2. k = <<from, y>>
        BY <1>2, <4>1
      <4>3. k = full <=> y = a
        BY <3>2, <4>2
      <4>4. Tail(k) = <<y>> /\ k # f
        BY <3>1, <4>2, PairKey
      <4> QED
        BY <4>1, <4>3, <4>4
    <3>7. \A x : <<x>> = f <=> x = a
      BY <3>1
    <3>8. Meant(cells, f) = {full} \cap DOMAIN cells
      BY <3>3, <3>6, <3>7 DEF Meant
    <3>9. f \in DOMAIN map <=> full \in DOMAIN cells
      <4>1. \A k \in DOMAIN cells : k = full => <<k[2]>> = f
        BY <3>6, <3>7
      <4>2. \A k \in DOMAIN map : k = f => <<from, k[1]>> = full
        BY <3>2, <3>4
      <4> QED
        BY <1>2, <4>1, <4>2
    <3>10. f \in DOMAIN map => map[f] = cells[full]
      BY <1>2, <3>1, <3>2, <3>9
    <3> QED
      BY <3>5, <3>8, <3>9, <3>10
  <2>2. PickedIsMeant(map, cells)
    <3> SUFFICES ASSUME NEW f \in query.fields
                 PROVE  /\ Picked(map, f) = {} <=> Meant(cells, f) = {}
                        /\ \A p, q \in Picked(map, f) : p = q
                        /\ \A p, k : p \in Picked(map, f) /\ k \in Meant(cells, f) => map[p] = cells[k]
      BY DEF PickedIsMeant
    <3> QED
      BY <2>1
  <2>3. answer \in Projections(map, query.fields)
    BY <1>2
  <2>4. PICK t : t = <<i>>
    OBVIOUS
  <2>5. cells = Cells(t)
    BY <1>1, <2>4
  <2>6. answer = Shown(t)
    BY <1>4, <2>2, <2>3, <2>5, ProjectionMeant
  <2> QED
    BY <2>4, <2>6
<1> QED
  BY <1>3, <1>4

-----------------------------------------------------------------------------
(* The answer.                                                             *)

\* What the scans found of the one table or the two.
LEMMA FoundAtTheEnd ==
    ASSUME GenuineInv, WayInv, FoundTyped, phase = "done"
    PROVE  AloneFound \/ (JoinFound /\ Comparable(query))
<1>1. query \in Queries /\ SeenInv
  BY DEF GenuineInv, TypeInv, SelectType, Planned, WayInv
<1>2. seen = IF query.joins = <<>> THEN <<seen[1]>> ELSE <<seen[1], seen[2]>>
  BY DEF GenuineInv, RowsTraced, Answered
<1>3. CASE query.joins = <<>>
  <2>1. PICK one : one = seen[1]
    OBVIOUS
  <2>2. seen = <<one>>
    BY <1>2, <1>3, <2>1
  <2>3. DOMAIN seen = {1}
    BY <2>2
  <2> QED
    BY <1>1, <1>3, <2>3 DEF AloneFound
<1>4. CASE query.joins # <<>>
  <2>1. PICK one, two : one = seen[1] /\ two = seen[2]
    OBVIOUS
  <2>2. seen = <<one, two>>
    BY <1>2, <1>4, <2>1
  <2>3. DOMAIN seen = {1, 2}
    BY <2>2
  <2>4. Comparable(query)
    BY <1>4 DEF WayInv, ComparedInv
  <2> QED
    BY <1>1, <1>4, <2>3, <2>4 DEF JoinFound
<1> QED
  BY <1>3, <1>4

\* The rows that FROM and the joins make, those that WHERE wants, and the columns shown.
LEMMA ExecutorMeant ==
    ASSUME PlainJoins, DistinctColumns, PlainNames(query),
           AloneFound \/ (JoinFound /\ Comparable(query))
    PROVE  /\ FromJoins = Tuples(query, seen)
           /\ \A t \in Tuples(query, seen) :
                 /\ Satisfies(RowOf(query, seen, t), query.where) <=> Wanted(t)
                 /\ \A answer \in Projections(RowOf(query, seen, t), query.fields) : answer = Shown(t)
<1>1. CASE AloneFound
  <2>1. PICK S : S = {<<i>> : i \in DOMAIN seen[1]}
    OBVIOUS
  <2>2. Tuples(query, seen) = S
    BY <1>1, <2>1 DEF Tuples, AloneFound
  <2>3. Len(query.joins) = 0
    BY <1>1 DEF AloneFound
  <2>4. FromJoins = S
    BY <2>1, <2>3, FromJoinsUnfolded
  <2>5. ASSUME NEW t \in S
        PROVE  /\ Satisfies(RowOf(query, seen, t), query.where) <=> Wanted(t)
               /\ \A answer \in Projections(RowOf(query, seen, t), query.fields) : answer = Shown(t)
    <3>1. PICK i \in DOMAIN seen[1] : t = <<i>>
      BY <2>1, <2>5
    <3>2. Satisfies(RowOf(query, seen, <<i>>), query.where) <=> Wanted(<<i>>)
      BY <1>1, AloneWhere
    <3>3. \A answer \in Projections(RowOf(query, seen, <<i>>), query.fields) : answer = Shown(<<i>>)
      BY <1>1, AloneShown
    <3> QED
      BY <3>1, <3>2, <3>3
  <2> QED
    BY <2>2, <2>4, <2>5
<1>2. CASE JoinFound /\ Comparable(query)
  <2>1. FromJoins = Tuples(query, seen)
    BY <1>2, TuplesJoined
  <2>2. \A t \in Tuples(query, seen) : Satisfies(RowOf(query, seen, t), query.where) <=> Wanted(t)
    BY <1>2, JoinWhere
  <2>3. \A t \in Tuples(query, seen) :
           \A answer \in Projections(RowOf(query, seen, t), query.fields) : answer = Shown(t)
    BY <1>2, JoinShown
  <2> QED
    BY <2>1, <2>2, <2>3
<1> QED
  BY <1>1, <1>2

LEMMA AnswerMeant ==
    ASSUME PlainJoins, DistinctColumns, PlainQueries, GenuineInv, WayInv, FoundTyped
    PROVE  AnswerExact
<1> SUFFICES ASSUME phase = "done", ~overlapped, NEW map
             PROVE  Given(map) = Due(map)
  BY DEF AnswerExact
<1>1. PICK g : /\ DOMAIN g = Chosen(query, seen)
               /\ Shows(query, seen, g) /\ Lists(<<>>, out, g)
  BY DEF WayInv, ListsInv, Answering
<1>2. PlainNames(query)
  BY DEF PlainQueries, GenuineInv, TypeInv, SelectType, Planned
<1>3. AloneFound \/ (JoinFound /\ Comparable(query))
  BY FoundAtTheEnd
<1>4. /\ FromJoins = Tuples(query, seen)
      /\ \A t \in Tuples(query, seen) :
            /\ Satisfies(RowOf(query, seen, t), query.where) <=> Wanted(t)
            /\ \A answer \in Projections(RowOf(query, seen, t), query.fields) : answer = Shown(t)
  BY <1>2, <1>3, ExecutorMeant
<1>5. \A t : t \in DOMAIN g <=> t \in FromJoins /\ Wanted(t)
  BY <1>1, <1>4 DEF Chosen
<1>6. \A t \in DOMAIN g : g[t] = Shown(t)
  BY <1>1, <1>4 DEF Shows, Chosen
<1>7. PICK S : S = {i \in DOMAIN out : out[i].data = map}
  OBVIOUS
<1>8. PICK T : T = {t \in DOMAIN g : g[t] = map}
  OBVIOUS
<1>9. T = {t \in FromJoins : Wanted(t) /\ Shown(t) = map}
  BY <1>5, <1>6, <1>8
<1>10. Cardinality(S) = Cardinality(T)
  <2>1. Lists(<<>>, out, g)
    BY <1>1
  <2> QED
    BY <1>7, <1>8, <2>1, ListsCounted
<1> QED
  BY <1>7, <1>9, <1>10 DEF Given, Due

\* When no UPDATE writes while it runs, the answer of a SELECT is the one that
\* SQL_REFERENCE.md:238-243 promises of the four kinds of JOIN, row for row and as
\* often, whatever the hash index, the probe, the unmatched rows, the filter and
\* the projection make of them, and although rows are inserted and deleted between
\* its scans.
THEOREM AnswersAreExact ==
    PlainWrites /\ PlainJoins /\ TypedWrites /\ DistinctColumns /\ PlainQueries
        => (Spec => []AnswerExact)
<1> SUFFICES ASSUME PlainWrites, PlainJoins, TypedWrites, DistinctColumns, PlainQueries
             PROVE  Spec => []AnswerExact
  OBVIOUS
<1> DEFINE Inv == GenuineInv /\ TypedRows /\ FoundTyped /\ WayInv
<1>1. Init => Inv
  BY GenuineInit, TypedInit, WayInit
<1>2. Inv /\ [Next]_vars => Inv'
  <2> SUFFICES ASSUME Inv, [Next]_vars
               PROVE  Inv'
    OBVIOUS
  <2>1. GenuineInv'
    BY GenuineStep
  <2>2. TypedRows'
    BY TypedRowsStep DEF GenuineInv
  <2>3. FoundTyped'
    BY FoundTypedStep
  <2>4. WayInv'
    BY WayStep
  <2> QED
    BY <2>1, <2>2, <2>3, <2>4
<1>3. Inv => AnswerExact
  BY AnswerMeant
<1> QED
  BY <1>1, <1>2, <1>3, PTL DEF Spec

=============================================================================
