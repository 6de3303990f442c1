------------------------------ MODULE Lexemes ------------------------------
(***************************************************************************)
(* What SQL_REFERENCE.md and the comments of the lexer promise of a text:  *)
(* which of its spans are words, numbers, strings and symbols, with        *)
(* quantifiers in the place of the lexer's cursor and loops.               *)
(***************************************************************************)
EXTENDS Lexer

IsWord(i, j) ==
    text[i] \in Letters /\ \A k \in i .. j : text[k] \in Letters \cup Digits

IsNumber(i, j) ==
    \/ \A k \in i .. j : text[k] \in Digits
    \/ \E dot \in i + 1 .. j - 1 :
         text[dot] = "." /\ \A k \in (i .. j) \ {dot} : text[k] \in Digits

IsString(i, j) ==
    /\ i < j
    /\ {k \in i .. j : text[k] = Quote} = {i, j}

IsSymbol(i, j) ==
    SubSeq(text, i, j) \in
        {<<"*">>, <<",">>, <<"(">>, <<")">>, <<".">>, <<";">>, <<"=">>, <<"<">>, <<">">>,
         <<"<", "=">>, <<">", "=">>, <<"<", ">">>, <<"!", "=">>}

IsLexeme(i, j) == IsWord(i, j) \/ IsNumber(i, j) \/ IsString(i, j) \/ IsSymbol(i, j)

\* No string is left open.
Closed == Cardinality({i \in DOMAIN text : text[i] = Quote}) % 2 = 0

\* The tokens are the longest there are, one after the other, with nothing but
\* blanks in between; Tokenize gives up only where no token begins.
LongestMatch ==
    Closed =>
    /\ \A p \in DOMAIN tokens :
         LET ends == {j \in tokens[p].first .. Len(text) : IsLexeme(tokens[p].first, j)}
         IN  IF tokens[p].type = "ILLEGAL" THEN ends = {}
             ELSE ends # {} /\ Max(ends) = tokens[p].last
    /\ \A p \in 1 .. Len(tokens) - 1 : tokens[p].last < tokens[p + 1].first
    /\ Legal(tokens) =>
         \A i \in DOMAIN text :
            text[i] # " " => \E p \in DOMAIN tokens : i \in tokens[p].first .. tokens[p].last

=============================================================================
