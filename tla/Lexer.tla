------------------------------- MODULE Lexer -------------------------------
(***************************************************************************)
(* lexer.Tokenize: from the text of a statement to its tokens.             *)
(*                                                                         *)
(* A text is a sequence of chunks: a chunk of letters (a keyword in upper  *)
(* or lower case, or a part of a name), a digit, or any other character.   *)
(* Chunks that stand side by side run together as their letters do, so     *)
(* that <<"SELECT", "7">> is a name and <<"SELECT", " ", "7">> is not.     *)
(* Lines and columns, which only error messages tell, are left out, and so *)
(* is the byte 0, which the lexer takes for the end.                       *)
(*                                                                         *)
(* The state is the text that has been typed so far, and its tokens.       *)
(***************************************************************************)
EXTENDS Naturals, Sequences, FiniteSets, FiniteSetsExt

CONSTANTS
    Names,      \* chunks of letters that are no keyword
    Digits,     \* digits
    Start       \* by a name: what a text begins with, how it may go on and up to
                \* which length, [text, pieces, length, lexical]; lexical when
                \* its tokens are all that is of interest

VARIABLES
    start,      \* the kind of text that is being typed
    text,       \* the text typed so far
    tokens      \* its tokens

vars == <<start, text, tokens>>

Keywords ==
    {"SELECT", "FROM", "WHERE", "INSERT", "INTO", "VALUES", "UPDATE", "SET", "DELETE",
     "AND", "OR", "TRUE", "FALSE", "JOIN", "INNER", "LEFT", "RIGHT", "FULL", "OUTER",
     "ON", "DATE", "TIME", "EMAIL", "CREATE", "DROP", "ALTER", "DATABASE", "USE",
     "RENAME", "TO"}

\* Some keywords in lower case, and what strings.ToUpper makes of them.
Upper ==
    [and |-> "AND", or |-> "OR", where |-> "WHERE", email |-> "EMAIL", true |-> "TRUE"]

Letters == Keywords \cup DOMAIN Upper \cup Names

Blanks == {" "}
Quote == "'"
Punctuation == {"*", ",", "(", ")", ".", ";", "=", "<", ">"}

ASSUME LexerAssumption ==
    /\ Names \cap (Keywords \cup DOMAIN Upper) = {}
    /\ Digits \cap Letters = {}
    /\ (Letters \cup Digits) \cap (Blanks \cup Punctuation \cup {Quote, "!"}) = {}

ASSUME TypingAssumption ==
    \A s \in DOMAIN Start :
        /\ Start[s].text \in Seq(STRING)
        /\ \A piece \in Start[s].pieces : piece \in Seq(STRING)

\* The operators of two characters; != and <> are one type.
Doubled ==
    [pair \in {<<"<", "=">>, <<">", "=">>, <<"<", ">">>, <<"!", "=">>} |->
        CASE pair = <<"<", "=">> -> "<="
          [] pair = <<">", "=">> -> ">="
          [] OTHER               -> "<>"]

\* A token: its type, the place of its first and its last chunk, and the chunk
\* that its literal consists of, if that is one ("" otherwise).
Token(input, type, first, last) ==
    [type |-> type, first |-> first, last |-> last,
     word |-> IF first = last THEN input[first] ELSE ""]

LookupIdent(word) ==
    IF word \in Keywords THEN word
    ELSE IF word \in DOMAIN Upper THEN Upper[word] ELSE "IDENTIFIER"

\* The first place from i on whose chunk is not in S.
RunEnd(input, i, S) == Min({j \in i .. Len(input) + 1 : j > Len(input) \/ input[j] \notin S})

ReadIdentifier(input, i) ==
    LET last == RunEnd(input, i, Letters \cup Digits) - 1
    IN  Token(input, IF last = i THEN LookupIdent(input[i]) ELSE "IDENTIFIER", i, last)

\* Mutant: a dot always belongs to the number before it.
ReadNumberDot(input, i) ==
    LET dot == RunEnd(input, i, Digits)
    IN  Token(input, "NUMBER", i,
              IF dot <= Len(input) /\ input[dot] = "."
              THEN RunEnd(input, dot + 1, Digits) - 1 ELSE dot - 1)

\* A dot belongs to the number when a digit follows.
ReadNumber(input, i) ==
    LET dot == RunEnd(input, i, Digits)
    IN  Token(input, "NUMBER", i,
              IF dot < Len(input) /\ input[dot] = "." /\ input[dot + 1] \in Digits
              THEN RunEnd(input, dot + 1, Digits) - 1 ELSE dot - 1)

\* Up to the next quote, or to the end of the text when there is none.
ReadString(input, i) ==
    LET close == Min({j \in i + 1 .. Len(input) + 1 : j > Len(input) \/ input[j] = Quote})
    IN  Token(input, "STRING", i, IF close > Len(input) THEN Len(input) ELSE close)

\* NextToken, at a chunk that is no blank.
NextToken(input, i) ==
    LET pair == SubSeq(input, i, Min({i + 1, Len(input)}))
    IN  CASE input[i] \in Letters       -> ReadIdentifier(input, i)
          [] input[i] \in Digits        -> ReadNumber(input, i)
          [] input[i] = Quote           -> ReadString(input, i)
          [] pair \in DOMAIN Doubled   -> Token(input, Doubled[pair], i, i + 1)
          [] pair \notin DOMAIN Doubled /\ input[i] \in Punctuation ->
                                          Token(input, input[i], i, i)
          [] OTHER                     -> Token(input, "ILLEGAL", i, i)

\* By the place where reading goes on: the tokens up to the end, or up to the
\* first that is illegal, at which Tokenize returns an error.
TokensFrom(input) ==
    LET from[i \in 1 .. Len(input) + 1] ==
            LET begin == RunEnd(input, i, Blanks)
                token == NextToken(input, begin)
            IN  IF begin > Len(input) THEN <<>>
                ELSE IF token.type = "ILLEGAL" THEN <<token>>
                ELSE <<token>> \o from[token.last + 1]
    IN  from

Tokenize(input) == TokensFrom(input)[1]

Legal(read) == \A p \in DOMAIN read : read[p].type # "ILLEGAL"

-----------------------------------------------------------------------------
(* Typing a text, and sending it.                                          *)

Init ==
    /\ start \in DOMAIN Start
    /\ text = Start[start].text
    /\ tokens = Tokenize(text)

Typed ==
    /\ Len(text) < Start[start].length
    /\ \E piece \in Start[start].pieces : text' = text \o piece
    /\ tokens' = Tokenize(text')
    /\ UNCHANGED start

Sent ==
    /\ start' \in DOMAIN Start
    /\ text' = Start[start'].text
    /\ tokens' = Tokenize(text')

Next == Typed \/ Sent

Spec == Init /\ [][Next]_vars

=============================================================================
