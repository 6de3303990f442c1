----------------------------- MODULE Conditions -----------------------------
(***************************************************************************)
(* The part of the recursive descent that reads conditions, and what       *)
(* predicate.Build makes of them.                                          *)
(*                                                                         *)
(* What the functions of the parser return is said for every place in the  *)
(* tokens.  A node of the tree names the tokens it stands for by their     *)
(* places.                                                                 *)
(***************************************************************************)
EXTENDS Lexer, SequencesExt

CONSTANT
    Formats     \* the strings that are dates, times or e-mails: <<type, chunks>>

Type(p) == IF p \in DOMAIN tokens THEN tokens[p].type ELSE "EOF"

Word(p) == tokens[p].word

\* Nodes of the tree: identifiers and literals, comparisons and conditions.
Leaf(kind, first, last) ==
    [kind |-> kind, first |-> first, last |-> last, lower |-> FALSE]

\* A column whose name is put into lower case, as those of lists and keywords are.
Lowered(first, last) ==
    [kind |-> "identifier", first |-> first, last |-> last, lower |-> TRUE]

\* A tree is a set of nodes, each named by the place of its operator, or of its
\* first token when it has none; children are named too.
Tree(id, node) == [root |-> id, nodes |-> [k \in {id} |-> node]]

Binary(left, operator, right) ==
    Tree(operator, [kind |-> "binary", left |-> left, right |-> right])

Logical(left, operator, right) ==
    [root  |-> operator,
     nodes |-> [k \in {operator} \cup DOMAIN left.nodes \cup DOMAIN right.nodes |->
                  IF k = operator
                  THEN [kind |-> "logical", left |-> left.root, right |-> right.root]
                  ELSE IF k \in DOMAIN left.nodes THEN left.nodes[k] ELSE right.nodes[k]]]

Root(tree) == tree.nodes[tree.root]

None == [kind |-> "none"]

\* What a function of the parser returns: a tree and the position of the
\* current token, or an error at a token.
Parsed(tree, next) == [ok |-> TRUE, tree |-> tree, next |-> next]

Failed(p) == [ok |-> FALSE, next |-> p]

\* The first result, continued by F unless it is an error.
Then(result, F(_, _)) == IF result.ok THEN F(result.tree, result.next) ELSE result

-----------------------------------------------------------------------------
(* Atoms and expressions.                                                  *)

TypedLiteral == {"DATE", "TIME", "EMAIL"}

\* The columns that are called email, date or time are keywords to the lexer.
IdentifierOrKeyword == {"IDENTIFIER"} \cup TypedLiteral

ComparisonOperator == {"=", "<", ">", "<=", ">=", "<>"}

\* ValidateDate, ValidateTime or ValidateEmail accepts the string at p + 1.
Validated(p) ==
    LET string == tokens[p + 1]
    IN  <<Type(p), SelectSeq(SubSeq(text, string.first, string.last),
                             LAMBDA chunk : chunk # Quote)>> \in Formats

Atom(p) ==
    CASE Type(p) = "IDENTIFIER" /\ Type(p + 1) = "." ->
           IF Type(p + 2) = "IDENTIFIER"
           THEN Parsed(Leaf("identifier", p, p + 2), p + 3) ELSE Failed(p + 2)
      [] Type(p) = "IDENTIFIER" /\ Type(p + 1) # "." ->
           Parsed(Leaf("identifier", p, p), p + 1)
      [] Type(p) \in TypedLiteral ->
           IF Type(p + 1) # "STRING" THEN Parsed(Lowered(p, p), p + 1)
           ELSE IF Validated(p) THEN Parsed(Leaf("literal", p, p + 1), p + 2)
           ELSE Failed(p + 1)
      [] Type(p) \in {"STRING", "NUMBER", "TRUE", "FALSE"} ->
           Parsed(Leaf("literal", p, p), p + 1)
      [] OTHER -> Failed(p)

Comparison(p) ==
    Then(Atom(p), LAMBDA left, q :
        IF Type(q) \notin ComparisonOperator THEN Parsed(Tree(left.first, left), q)
        ELSE Then(Atom(q + 1), LAMBDA right, r : Parsed(Binary(left, q, right), r)))

\* parseComparisonExpression; expression is what parseExpression makes of the
\* tokens from each place on.
Term(expression, p) ==
    IF Type(p) # "(" THEN Comparison(p)
    ELSE Then(expression[p + 1], LAMBDA tree, q :
            IF Type(q) = ")" THEN Parsed(tree, q + 1) ELSE Failed(q))

\* Mutant: AND and OR bind alike.
IsAndOr(p, operator) == Type(p) \in {"AND", "OR"}

IsOperator(p, operator) == Type(p) = operator

\* One round of the loop of parseAndExpression or parseOrExpression, which makes
\* the tree grow to the left; operand is what is read from each place on.
Round(operand, operator, left) ==
    IF ~left.ok \/ ~IsOperator(left.next, operator) THEN left
    ELSE Then(operand[left.next + 1], LAMBDA right, q :
            Parsed(Logical(left.tree, left.next, right), q))

\* Each round reads a token, so that there are no more of them than tokens left.
Chain(operand, operator, p) ==
    LET rounds == Len(tokens) + 1 - p
        round[k \in 0 .. rounds] ==
            IF k = 0 THEN operand[p] ELSE Round(operand, operator, round[k - 1])
    IN  round[rounds]

Positions == 1 .. Len(tokens) + 1

Terms(expression) == [p \in Positions |-> Term(expression, p)]

AndExpressions(expression) == [p \in Positions |-> Chain(Terms(expression), "AND", p)]

OrExpression(expression, p) == Chain(AndExpressions(expression), "OR", p)

Expressions ==
    LET expression[p \in Positions] == OrExpression(expression, p)
    IN  expression

Expression(p) == Expressions[p]

\* The WHERE clause, if there is one, and the end.
Where(p) == IF Type(p) = "WHERE" THEN Expression(p + 1) ELSE Parsed(None, p)

-----------------------------------------------------------------------------
(* What the planner makes of a condition.                                  *)

\* Mutant: OR is not a logical operator.
OnlyAnd(id) == Word(id) = "AND"

\* The operator is compared as it was typed.
LogicalOperator(id) == Word(id) \in {"AND", "OR"}

\* predicate.Build returns no error: every node is a comparison of a column with
\* a literal, or joins two nodes that are one or the other.
Builds(tree) ==
    \A id \in DOMAIN tree.nodes :
        LET node == tree.nodes[id]
        IN  \/ /\ node.kind = "binary"
               /\ node.left.kind = "identifier"
               /\ node.right.kind = "literal"
            \/ /\ node.kind = "logical"
               /\ LogicalOperator(id)

\* The rows for which the predicate yields true.  A row is known by the places
\* where comparisons begin that are true of it.
Selected(tree, rows) ==
    LET selected[id \in DOMAIN tree.nodes] ==
            LET node == tree.nodes[id]
            IN  CASE node.kind = "logical" /\ Type(id) = "AND" -> selected[node.left] \cap selected[node.right]
                  [] node.kind = "logical" /\ Type(id) # "AND" -> selected[node.left] \cup selected[node.right]
                  [] node.kind = "binary" -> {row \in rows : node.left.first \in row}
                  [] OTHER -> {row \in rows : node.first \in row}
    IN  selected[tree.root]

=============================================================================
