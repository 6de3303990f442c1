----------------------------- MODULE Precedence -----------------------------
(***************************************************************************)
(* What SQL_REFERENCE.md says a condition means, on spans of its tokens:   *)
(* no cursor, no loops and no tree.                                        *)
(***************************************************************************)
EXTENDS Conditions, Integers

\* How many parentheses are open behind the token k.
Depth(k) ==
    Cardinality({i \in 1 .. k : Type(i) = "("}) - Cardinality({i \in 1 .. k : Type(i) = ")"})

\* The tokens of a type in i .. j that are in no parentheses there.
Top(i, j, type) == {k \in i .. j : Type(k) = type /\ Depth(k) = Depth(i - 1)}

\* The spans between separators.
Between(i, j, separators) ==
    {s \in (i .. j + 1) \X (i - 1 .. j) :
        /\ s[1] - 1 \in separators \cup {i - 1}
        /\ s[2] + 1 \in separators \cup {j + 1}
        /\ s[1] <= s[2] + 1
        /\ \A k \in s[1] .. s[2] : k \notin separators}

\* The rows of which some alternative is true, and of that every member.
Meant(i, j, rows) ==
    LET meant[s \in (1 .. Len(tokens) + 1) \X (0 .. Len(tokens))] ==
            LET ors == Top(s[1], s[2], "OR")
                ands == Top(s[1], s[2], "AND")
            IN  IF ors # {} THEN
                   {row \in rows : \E part \in Between(s[1], s[2], ors) : row \in meant[part]}
                ELSE IF ands # {} THEN
                   {row \in rows : \A part \in Between(s[1], s[2], ands) : row \in meant[part]}
                ELSE IF Type(s[1]) = "(" /\ s[1] < s[2] THEN meant[<<s[1] + 1, s[2] - 1>>]
                ELSE {row \in rows : s[1] \in row}
    IN  meant[<<i, j>>]

\* "Comparison operators - Highest precedence; AND - Higher precedence than OR"
\* (SQL_REFERENCE.md:195): whatever its comparisons yield, the tree of a WHERE
\* selects the rows that the text says, however many ANDs, ORs and parentheses
\* it has.
ConditionMeaning ==
    \A p \in DOMAIN tokens :
        LET result == Where(p)
            last == result.next - 1
            comparisons == {k \in p + 1 .. last :
                              Type(k - 1) \in {"WHERE", "AND", "OR", "("} /\ Type(k) # "("}
        IN  Type(p) = "WHERE" /\ result.ok =>
              Selected(result.tree, SUBSET comparisons) =
              Meant(p + 1, last, SUBSET comparisons)

=============================================================================
