------------------------------- MODULE Parser -------------------------------
(***************************************************************************)
(* parser.Parse, a recursive descent over the tokens of a statement, and   *)
(* the conditions under which the planner turns what it returns into a     *)
(* plan.                                                                   *)
(*                                                                         *)
(* The operators say what the program would make of the text that has been *)
(* typed so far, were it sent now.                                         *)
(***************************************************************************)
EXTENDS Conditions, SequencesExt

CONSTANTS
    Tables      \* names of the tables there are

\* The tokens from p on are of these types, one after the other.
Expect(p, types, result) ==
    IF \A i \in DOMAIN types : Type(p + i - 1) = types[i] THEN result
    ELSE Failed(p + Min({i \in DOMAIN types : Type(p + i - 1) # types[i]}) - 1)

JoinKeyword == {"INNER", "LEFT", "RIGHT", "FULL", "JOIN"}

-----------------------------------------------------------------------------
(* Lists.                                                                  *)

QualifiedIdentifier(p) ==
    CASE Type(p) \notin IdentifierOrKeyword -> Failed(p)
      [] Type(p) \in IdentifierOrKeyword /\ Type(p + 1) # "." ->
           Parsed(Lowered(p, p), p + 1)
      [] OTHER ->
           IF Type(p + 2) \in IdentifierOrKeyword
           THEN Parsed(Lowered(p, p + 2), p + 3) ELSE Failed(p + 2)

\* The lists accept an opening and a closing parenthesis apart from each other.
AfterOpen(p) == IF Type(p) = "(" THEN p + 1 ELSE p

AfterClose(p) == IF Type(p) = ")" THEN p + 1 ELSE p

Single(result) == Then(result, LAMBDA tree, q : Parsed(<<tree>>, q))

RECURSIVE MoreIdentifiers(_), MoreExpressions(_)

MoreIdentifiers(result) ==
    IF ~result.ok THEN result
    ELSE IF Type(result.next) # "," THEN Parsed(result.tree, AfterClose(result.next))
    ELSE MoreIdentifiers(Then(QualifiedIdentifier(result.next + 1), LAMBDA tree, q :
                            Parsed(Append(result.tree, tree), q)))

IdentifierList(p) ==
    IF Type(p) = "*" THEN Parsed(<<Leaf("identifier", p, p)>>, p + 1)
    ELSE MoreIdentifiers(Single(QualifiedIdentifier(AfterOpen(p))))

MoreExpressions(result) ==
    IF ~result.ok THEN result
    ELSE IF Type(result.next) # "," THEN Parsed(result.tree, AfterClose(result.next))
    ELSE MoreExpressions(Then(Expression(result.next + 1), LAMBDA tree, q :
                            Parsed(Append(result.tree, tree), q)))

ExpressionList(p) == MoreExpressions(Single(Expression(AfterOpen(p))))

-----------------------------------------------------------------------------
(* Statements.                                                             *)

\* The optional semicolon, the last thing that is looked at: tokens after it,
\* or after a statement without one, are left unread.
AfterSemicolon(p) == IF Type(p) = ";" THEN p + 1 ELSE p

Finished(statement, p) == Parsed(statement, AfterSemicolon(p))

\* parseJoin
JoinClause(p) ==
    LET type == IF Type(p) = "JOIN" THEN p ELSE p + 1
        join == IF Type(type) = "OUTER" THEN type + 1 ELSE type
    IN  Expect(join, <<"JOIN", "IDENTIFIER", "ON">>,
          Then(Expression(join + 3), LAMBDA on, q :
              Parsed([type |-> p, table |-> join + 1, on |-> on], q)))

RECURSIVE Joins(_)
Joins(result) ==
    IF ~result.ok \/ Type(result.next) \notin JoinKeyword THEN result
    ELSE Joins(Then(JoinClause(result.next), LAMBDA join, q :
                  Parsed(Append(result.tree, join), q)))

ParseSelect ==
    Then(IdentifierList(2), LAMBDA fields, from :
      Expect(from, <<"FROM", "IDENTIFIER">>,
        Then(Joins(Parsed(<<>>, from + 2)), LAMBDA joins, p :
          Then(Where(p), LAMBDA where, q :
            Finished([verb |-> "SELECT", fields |-> fields, table |-> from + 1,
                      joins |-> joins, where |-> where], q)))))

InsertColumns(p) == IF Type(p) = "(" THEN IdentifierList(p) ELSE Parsed(<<>>, p)

ParseInsert ==
    Expect(2, <<"INTO", "IDENTIFIER">>,
      Then(InsertColumns(4), LAMBDA columns, p :
        Expect(p, <<"VALUES", "(">>,
          Then(ExpressionList(p + 1), LAMBDA values, q :
            Finished([verb |-> "INSERT", table |-> 3, columns |-> columns,
                      values |-> values], q)))))

\* The assignments of SET, a map by the name of the column.
ColumnName(p) == IF Type(p) \in TypedLiteral THEN Type(p) ELSE Word(p)

\* Mutant: the first assignment to a column stays.
FirstAssigned(updates, p, value) ==
    [c \in DOMAIN updates \cup {ColumnName(p)} |->
        IF c \in DOMAIN updates THEN updates[c] ELSE [column |-> p, value |-> value]]

Assigned(updates, p, value) ==
    [c \in DOMAIN updates \cup {ColumnName(p)} |->
        IF c = ColumnName(p) THEN [column |-> p, value |-> value] ELSE updates[c]]

RECURSIVE Assignments(_, _)
Assignments(updates, p) ==
    IF Type(p) \notin IdentifierOrKeyword THEN Failed(p)
    ELSE Expect(p + 1, <<"=">>,
           Then(Atom(p + 2), LAMBDA value, q :
             IF value.kind # "literal" THEN Failed(q)
             ELSE IF Type(q) = "," THEN Assignments(Assigned(updates, p, value), q + 1)
             ELSE Parsed(Assigned(updates, p, value), q)))

ParseUpdate ==
    Expect(2, <<"IDENTIFIER", "SET">>,
      Then(Assignments([c \in {} |-> None], 4), LAMBDA updates, p :
        Then(Where(p), LAMBDA where, q :
          Finished([verb |-> "UPDATE", table |-> 2, updates |-> updates,
                    where |-> where], q))))

ParseDelete ==
    Expect(2, <<"FROM", "IDENTIFIER">>,
      Then(Where(4), LAMBDA where, q :
        Finished([verb |-> "DELETE", table |-> 3, where |-> where], q)))

ParseCreate ==
    Expect(2, <<"DATABASE", "IDENTIFIER">>, Finished([verb |-> "CREATE", name |-> 3], 4))

ParseDrop ==
    Expect(2, <<"DATABASE", "IDENTIFIER">>, Finished([verb |-> "DROP", name |-> 3], 4))

ParseUse == Expect(2, <<"IDENTIFIER">>, Finished([verb |-> "USE", name |-> 2], 3))

ParseAlter ==
    Expect(2, <<"DATABASE", "IDENTIFIER", "RENAME", "TO", "IDENTIFIER">>,
      Finished([verb |-> "ALTER", name |-> 3, to |-> 6], 7))

\* Tokenize and Parse: the statement and where reading stopped, or an error.
Parse ==
    IF ~Legal(tokens) THEN Failed(1)
    ELSE CASE Type(1) = "SELECT" -> ParseSelect
           [] Type(1) = "INSERT" -> ParseInsert
           [] Type(1) = "UPDATE" -> ParseUpdate
           [] Type(1) = "DELETE" -> ParseDelete
           [] Type(1) = "CREATE" -> ParseCreate
           [] Type(1) = "DROP"   -> ParseDrop
           [] Type(1) = "ALTER"  -> ParseAlter
           [] Type(1) = "USE"    -> ParseUse
           [] OTHER -> Failed(1)

-----------------------------------------------------------------------------
(* What the planner asks of a statement.                                   *)

JoinPlanned(join) ==
    /\ Word(join.table) \in Tables
    /\ Root(join.on).kind = "binary"
    /\ Type(join.on.root) = "="
    /\ Root(join.on).left.kind = "identifier"
    /\ Root(join.on).right.kind = "identifier"

\* Literals that do not fit the type of their column are left to RowValues.
InsertPlanned(statement) ==
    /\ Len(statement.columns) = Len(statement.values)
    /\ \A i \in DOMAIN statement.values : Root(statement.values[i]).kind = "literal"

\* There is a plan, or the statement is one on databases and needs none.
Planned(statement) ==
    statement.verb \in {"SELECT", "INSERT", "UPDATE", "DELETE"} =>
        /\ Word(statement.table) \in Tables
        /\ statement.verb # "INSERT" =>
             statement.where = None \/ Builds(statement.where)
        /\ statement.verb = "SELECT" =>
             \A i \in DOMAIN statement.joins : JoinPlanned(statement.joins[i])
        /\ statement.verb = "INSERT" => InsertPlanned(statement)

-----------------------------------------------------------------------------
(* Typing a statement, and sending it.                                     *)

\* What is typed is worth going on with: it was read to its end. Where only
\* the tokens are of interest, Start[start].lexical, any text is.
ReadToEnd == Parse.next > Len(tokens)

ParserNext ==
    \/ (Start[start].lexical \/ ReadToEnd) /\ Typed
    \/ Sent

ParserSpec == Init /\ [][ParserNext]_vars

=============================================================================
