------------------------------ MODULE Grammar ------------------------------
(***************************************************************************)
(* What SQL_REFERENCE.md and the comments of the parser promise of a       *)
(* statement: which texts are statements, and what their conditions mean.  *)
(* It is stated on spans of the tokens, with quantifiers in the place of   *)
(* the parser's cursor and loops.                                          *)
(***************************************************************************)
EXTENDS Parser, Lexemes, Precedence

(* Conditions, as spans of the tokens.                                     *)

IsLiteral(i, j) ==
    \/ i = j /\ Type(i) \in {"STRING", "NUMBER", "TRUE", "FALSE"}
    \/ /\ j = i + 1 /\ Type(i) \in {"DATE", "TIME", "EMAIL"} /\ Type(j) = "STRING"
       /\ Validated(i)

\* A column; a qualified one that is called email, date or time cannot be
\* written in a condition.
IsColumn(i, j) ==
    \/ i = j /\ Type(i) \in {"IDENTIFIER", "DATE", "TIME", "EMAIL"}
    \/ j = i + 2 /\ Type(i) = "IDENTIFIER" /\ Type(i + 1) = "." /\ Type(j) = "IDENTIFIER"

IsComparison(i, j) ==
    \E k \in i + 1 .. j - 1 :
        /\ Type(k) \in {"=", "<>", "<", ">", "<=", ">="}
        /\ IsColumn(i, k - 1)
        /\ IsLiteral(k + 1, j)

\* This says which spans are conditions, not how they are grouped.  AND and OR
\* are in upper case, the only one that the planner takes.
RECURSIVE IsCondition(_, _)
IsCondition(i, j) ==
    \/ IsComparison(i, j)
    \/ i < j /\ Type(i) = "(" /\ Type(j) = ")" /\ IsCondition(i + 1, j - 1)
    \/ \E k \in i + 1 .. j - 1 :
         tokens[k].word \in {"AND", "OR"} /\ IsCondition(i, k - 1) /\ IsCondition(k + 1, j)

\* The last token of a statement before its semicolon.
LastBefore(next) == IF Type(next - 1) = ";" THEN next - 2 ELSE next - 1

-----------------------------------------------------------------------------
(* Statements.                                                             *)

Reads(i, types) == \A k \in DOMAIN types : Type(i + k - 1) = types[k]

IsTable(p) ==
    Type(p) = "IDENTIFIER" /\ Word(p) \in Tables

\* Nothing more, or a WHERE.
IsTail(i, n) == i = n + 1 \/ (Type(i) = "WHERE" /\ IsCondition(i + 1, n))

\* Each of the spans between the commas.
Commas(i, j) == {k \in i .. j : Type(k) = ","}

Listed(i, j, IsItem(_, _)) ==
    \A s \in Between(i, j, Commas(i, j)) : s[1] <= s[2] /\ IsItem(s[1], s[2])

IsField(i, j) ==
    \/ IsColumn(i, j)
    \/ /\ j = i + 2 /\ Type(i + 1) = "."
       /\ Type(i) = "IDENTIFIER" /\ Type(j) \in {"DATE", "TIME", "EMAIL"}

IsPlainColumn(i, j) == i = j /\ IsColumn(i, j)

IsAssignment(i, j) == IsColumn(i, i) /\ Type(i + 1) = "=" /\ IsLiteral(i + 2, j)

IsJoin(i, j) ==
    \E join \in i .. j :
        /\ Reads(join, <<"JOIN", "IDENTIFIER", "ON">>) /\ IsTable(join + 1)
        /\ [k \in 1 .. join - i |-> Type(i + k - 1)] \in
             {<<>>, <<"INNER">>} \cup
             {<<side>> : side \in {"LEFT", "RIGHT", "FULL"}} \cup
             {<<side, "OUTER">> : side \in {"LEFT", "RIGHT", "FULL"}}
        /\ \E equals \in join + 3 .. j :
             /\ Type(equals) = "="
             /\ IsColumn(join + 3, equals - 1) /\ IsColumn(equals + 1, j)

IsSelect(n) ==
    \E from \in 3 .. n :
        /\ Type(1) = "SELECT" /\ Type(from) = "FROM" /\ IsTable(from + 1)
        /\ Reads(2, <<"*", "FROM">>) \/ Listed(2, from - 1, IsField)
        /\ \E end \in from + 1 .. n :
             /\ end = from + 1 \/ IsJoin(from + 2, end)
             /\ IsTail(end + 1, n)

IsInsert(n) ==
    \E close \in 6 .. n :
        /\ Reads(1, <<"INSERT", "INTO", "IDENTIFIER", "(">>) /\ IsTable(3)
        /\ Listed(5, close - 1, IsPlainColumn)
        /\ Reads(close, <<")", "VALUES", "(">>) /\ Type(n) = ")"
        /\ close + 3 < n /\ Listed(close + 3, n - 1, IsLiteral)
        /\ Cardinality(Commas(5, close)) = Cardinality(Commas(close, n))

IsUpdate(n) ==
    \E end \in 6 .. n :
        /\ Reads(1, <<"UPDATE", "IDENTIFIER", "SET">>) /\ IsTable(2)
        /\ Listed(4, end, IsAssignment)
        /\ IsTail(end + 1, n)

IsDelete(n) ==
    Reads(1, <<"DELETE", "FROM", "IDENTIFIER">>) /\ IsTable(3) /\ IsTail(4, n)

IsDatabaseStatement(n) ==
    [p \in 1 .. n |-> Type(p)] \in
        {<<"CREATE", "DATABASE", "IDENTIFIER">>, <<"DROP", "DATABASE", "IDENTIFIER">>,
         <<"USE", "IDENTIFIER">>,
         <<"ALTER", "DATABASE", "IDENTIFIER", "RENAME", "TO", "IDENTIFIER">>}

\* The tokens are a statement of SQL_REFERENCE.md, with or without a semicolon.
Sentence ==
    LET n == LastBefore(Len(tokens) + 1)
    IN  /\ Legal(tokens) /\ Closed /\ n > 0
        /\ IsSelect(n) \/ IsInsert(n) \/ IsUpdate(n) \/ IsDelete(n) \/ IsDatabaseStatement(n)

\* Every documented statement on tables that exist is accepted, read to its end
\* and planned.
GrammarAccepted ==
    LET result == Parse
    IN  Sentence =>
          result.ok /\ result.next = Len(tokens) + 1 /\ Planned(result.tree)

-----------------------------------------------------------------------------
(* What the tree keeps of the text.                                        *)

\* Places in the order of the text.
Ascending(places) == SelectSeq([p \in DOMAIN tokens |-> p], LAMBDA p : p \in places)

\* The places of a name or value.
Spelled(leaf) ==
    IF leaf.first = leaf.last THEN <<leaf.first>> ELSE <<leaf.first, leaf.last>>

\* The places of the names, values and operators in a tree, from left to right.
SpelledTree(tree) ==
    LET spelled[id \in DOMAIN tree.nodes] ==
            LET node == tree.nodes[id]
            IN  CASE node.kind = "logical" ->
                       spelled[node.left] \o <<id>> \o spelled[node.right]
                  [] node.kind = "binary" ->
                       Spelled(node.left) \o <<id>> \o Spelled(node.right)
                  [] OTHER -> Spelled(node)
    IN  spelled[tree.root]

SpelledWhere(where) == IF where = None THEN <<>> ELSE SpelledTree(where)

SpelledAll(leaves) == FlattenSeq([i \in DOMAIN leaves |-> Spelled(leaves[i])])

SpelledValues(trees) == FlattenSeq([i \in DOMAIN trees |-> SpelledTree(trees[i])])

SpelledJoins(joins) ==
    FlattenSeq([i \in DOMAIN joins |-> <<joins[i].table>> \o SpelledTree(joins[i].on)])

\* The assignments in the order of their columns.
SpelledUpdates(updates) ==
    LET columns == Ascending({updates[c].column : c \in DOMAIN updates})
    IN  FlattenSeq([i \in DOMAIN columns |->
            <<columns[i]>> \o Spelled(updates[ColumnName(columns[i])].value)])

SpelledStatement(s) ==
    CASE s.verb = "SELECT" -> SpelledAll(s.fields) \o <<s.table>> \o SpelledJoins(s.joins)
                                \o SpelledWhere(s.where)
      [] s.verb = "INSERT" -> <<s.table>> \o SpelledAll(s.columns) \o SpelledValues(s.values)
      [] s.verb = "UPDATE" -> <<s.table>> \o SpelledUpdates(s.updates) \o SpelledWhere(s.where)
      [] s.verb = "DELETE" -> <<s.table>> \o SpelledWhere(s.where)
      [] s.verb = "ALTER"  -> <<s.name, s.to>>
      [] OTHER             -> <<s.name>>

\* The columns that SET assigns to, and what a later assignment to the same
\* column makes void.
SetColumns(last) ==
    {p \in 1 .. last : Type(1) = "UPDATE" /\ p > 3 /\ Type(p - 1) \in {"SET", ","}}

Void(p, last) ==
    \E a, b \in SetColumns(last) :
        /\ a < b /\ a <= p /\ ColumnName(a) = ColumnName(b)
        /\ \A c \in SetColumns(last) : ~(a < c /\ c <= p)

Meaningful(last) ==
    {p \in 1 .. last :
        /\ Type(p) \in {"IDENTIFIER", "STRING", "NUMBER", "TRUE", "FALSE", "DATE", "TIME",
                        "EMAIL", "*", "AND", "OR", "=", "<>", "<", ">", "<=", ">="}
        /\ p - 1 \notin SetColumns(last)
        /\ ~Void(p, last)}

\* Of what was read, the tree has every name, value and operator, each once and
\* in the order of the text, but for assignments that a later one replaces.
NothingLost ==
    LET result == Parse
    IN  result.ok =>
          SpelledStatement(result.tree) = Ascending(Meaningful(result.next - 1))

=============================================================================
