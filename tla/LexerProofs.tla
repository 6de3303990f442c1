----------------------------- MODULE LexerProofs -----------------------------
(***************************************************************************)
(* The tokens of every text are the longest there are.                     *)
(***************************************************************************)
EXTENDS Lexemes, WellFoundedInduction, FiniteSetTheorems, SequenceTheorems, TLAPS

(* Least numbers, which stand in for induction.                            *)

LEMMA LeastNumber ==
    ASSUME NEW S, S \subseteq Nat, S # {}
    PROVE  \E n \in S : \A m \in S : n <= m
<1>1. PICK R : R = {pair \in Nat \X Nat : pair[1] < pair[2]}
  OBVIOUS
<1>2. IsWellFoundedOn(R, Nat)
  BY <1>1, NatLessThanWellFounded DEF OpToRel
<1>3. PICK n \in S : \A m \in S : ~ (<<m, n>> \in R)
  BY <1>2, WFMin
<1>4. SUFFICES ASSUME NEW m \in S
               PROVE  n <= m
  BY <1>3
<1>5. n \in Nat /\ m \in Nat
  OBVIOUS
<1>6. PICK pair : pair = <<m, n>>
  OBVIOUS
<1>7. pair \in Nat \X Nat /\ pair[1] = m /\ pair[2] = n /\ pair \notin R
  BY <1>3, <1>5, <1>6
<1> QED
  BY <1>1, <1>5, <1>7

LEMMA Minimum ==
    ASSUME NEW S, S \subseteq Nat, S # {}
    PROVE  Min(S) \in S /\ \A m \in S : Min(S) <= m
<1>1. \E n \in S : \A m \in S : n <= m
  BY LeastNumber
<1> QED
  BY <1>1 DEF Min

LEMMA SmallerOfTwo ==
    ASSUME NEW a \in Nat, NEW b \in Nat, a <= b
    PROVE  Min({a, b}) = a /\ Min({b, a}) = a
<1>1. PICK S : S = {a, b}
  OBVIOUS
<1>2. S \subseteq Nat /\ S # {} /\ a \in S /\ b \in S /\ S = {b, a}
  BY <1>1
<1>3. Min(S) \in S /\ \A m \in S : Min(S) <= m
  BY <1>2, Minimum
<1>4. Min(S) = a
  BY <1>1, <1>2, <1>3
<1> QED
  BY <1>1, <1>2, <1>4

LEMMA Maximum ==
    ASSUME NEW S, S \subseteq Nat, NEW n \in S, \A m \in S : m <= n
    PROVE  Max(S) = n
<1>1. \A m \in S : n >= m
  OBVIOUS
<1>2. PICK x : x = Max(S)
  OBVIOUS
<1>3. x \in S /\ \A m \in S : x >= m
  BY <1>1, <1>2 DEF Max
<1> QED
  BY <1>1, <1>2, <1>3

-----------------------------------------------------------------------------
(* Where runs of chunks end.                                               *)

Read == text \in Seq(STRING)

LEMMA Places ==
    ASSUME Read
    PROVE  /\ Len(text) \in Nat
           /\ DOMAIN text = 1 .. Len(text)
BY LenProperties DEF Read

\* A run of S from i on goes as far as possible.
LEMMA RunEnds ==
    ASSUME Read, NEW i \in 1 .. Len(text) + 1, NEW S,
           NEW end, end = RunEnd(text, i, S)
    PROVE  /\ end \in i .. Len(text) + 1
           /\ \A k \in i .. end - 1 : text[k] \in S
           /\ end <= Len(text) => text[end] \notin S
<1>1. Len(text) \in Nat
  BY Places
<1>2. PICK stops : stops = {j \in i .. Len(text) + 1 : j > Len(text) \/ text[j] \notin S}
  OBVIOUS
<1>3. stops \subseteq Nat /\ Len(text) + 1 \in stops
  BY <1>1, <1>2
<1>4. stops # {}
  BY <1>3
<1>5. end = Min(stops)
  BY <1>2 DEF RunEnd
<1>6. end \in stops /\ \A j \in stops : end <= j
  BY <1>3, <1>4, <1>5, Minimum
<1>7. ASSUME NEW k \in i .. end - 1
      PROVE  text[k] \in S
  BY <1>1, <1>2, <1>6, <1>7
<1> QED
  BY <1>1, <1>2, <1>6, <1>7

-----------------------------------------------------------------------------
(* What a lexeme begins with.                                              *)

Symbols ==
    {<<"*">>, <<",">>, <<"(">>, <<")">>, <<".">>, <<";">>, <<"=">>, <<"<">>, <<">">>,
     <<"<", "=">>, <<">", "=">>, <<"<", ">">>, <<"!", "=">>}

LEMMA Singles ==
    ASSUME NEW c
    PROVE  <<c>> \in Symbols <=> c \in Punctuation
BY DEF Symbols, Punctuation

LEMMA Pairs ==
    ASSUME NEW c, NEW d
    PROVE  <<c, d>> \in Symbols <=> <<c, d>> \in DOMAIN Doubled
BY DEF Symbols, Doubled

LEMMA PairStarts ==
    ASSUME NEW c, NEW d, <<c, d>> \in DOMAIN Doubled
    PROVE  c \in Punctuation \cup {"!"}
BY DEF Punctuation, Doubled

LEMMA SymbolLength ==
    ASSUME NEW s \in Symbols
    PROVE  Len(s) \in {1, 2}
<1>1. (\E c : s = <<c>>) \/ (\E c, d : s = <<c, d>>)
  BY DEF Symbols
<1>2. ASSUME NEW c, s = <<c>>
      PROVE  Len(s) = 1
  BY <1>2
<1>3. ASSUME NEW c, NEW d, s = <<c, d>>
      PROVE  Len(s) = 2
  BY <1>3
<1> QED
  BY <1>1, <1>2, <1>3

LEMMA SpanOfOne ==
    ASSUME Read, NEW i \in 1 .. Len(text)
    PROVE  SubSeq(text, i, i) = <<text[i]>>
<1>1. Len(text) \in Nat
  BY Places
<1>2. text[i] \in STRING
  BY ElementOfSeq DEF Read
<1>3. PICK s : s = SubSeq(text, i, i)
  OBVIOUS
<1>4. s \in Seq(STRING) /\ Len(s) = 1 /\ s[1] = text[i]
  BY <1>1, <1>2, <1>3, SubSeqProperties
<1>5. <<text[i]>> \in Seq(STRING) /\ Len(<<text[i]>>) = 1 /\ <<text[i]>>[1] = text[i]
  BY <1>2
<1>6. s = <<text[i]>>
  BY <1>4, <1>5, SeqEqual
<1> QED
  BY <1>3, <1>6

LEMMA SpanOfTwo ==
    ASSUME Read, NEW i \in 1 .. Len(text), i + 1 <= Len(text)
    PROVE  SubSeq(text, i, i + 1) = <<text[i], text[i + 1]>>
<1>1. Len(text) \in Nat /\ i + 1 \in 1 .. Len(text)
  BY Places
<1>2. text[i] \in STRING /\ text[i + 1] \in STRING
  BY <1>1, ElementOfSeq DEF Read
<1>3. PICK s, t : s = SubSeq(text, i, i + 1) /\ t = <<text[i], text[i + 1]>>
  OBVIOUS
<1>4. \A k \in i .. i + 1 : text[k] \in STRING
  BY <1>1, <1>2
<1>5. s \in Seq(STRING) /\ Len(s) = 2 /\ s[1] = text[i] /\ s[2] = text[i + 1]
  BY <1>1, <1>3, <1>4, SubSeqProperties
<1>6. t \in Seq(STRING) /\ Len(t) = 2 /\ t[1] = text[i] /\ t[2] = text[i + 1]
  BY <1>2, <1>3
<1>7. \A k \in 1 .. Len(s) : s[k] = t[k]
  BY <1>5, <1>6
<1>8. s = t
  BY <1>5, <1>6, <1>7, SeqEqual
<1> QED
  BY <1>3, <1>8

\* A symbol is a single character or one of the pairs.
LEMMA SymbolSpans ==
    ASSUME Read, NEW i \in 1 .. Len(text), NEW j \in i .. Len(text)
    PROVE  IsSymbol(i, j) <=>
             \/ j = i /\ text[i] \in Punctuation
             \/ j = i + 1 /\ <<text[i], text[i + 1]>> \in DOMAIN Doubled
<1>1. Len(text) \in Nat /\ i \in Nat /\ j \in Nat
  BY Places
<1>2. PICK s : s = SubSeq(text, i, j)
  OBVIOUS
<1>3. ASSUME j = i
      PROVE  s \in Symbols <=> text[i] \in Punctuation
  <2>1. s = <<text[i]>>
    BY <1>2, <1>3, SpanOfOne
  <2> QED
    BY <2>1, Singles
<1>4. ASSUME j = i + 1
      PROVE  s \in Symbols <=> <<text[i], text[i + 1]>> \in DOMAIN Doubled
  <2>1. s = <<text[i], text[i + 1]>>
    BY <1>1, <1>2, <1>4, SpanOfTwo
  <2> QED
    BY <2>1, Pairs
<1>5. ASSUME j > i + 1
      PROVE  s \notin Symbols
  <2>1. \A k \in i .. j : text[k] \in STRING
    BY <1>1, ElementOfSeq DEF Read
  <2>2. Len(s) = j - i + 1
    BY <1>1, <1>2, <1>5, <2>1, SubSeqProperties
  <2>3. Len(s) \notin {1, 2}
    BY <1>1, <1>5, <2>2
  <2> QED
    BY <2>3, SymbolLength
<1>6. s \in Symbols <=>
        \/ j = i /\ text[i] \in Punctuation
        \/ j = i + 1 /\ <<text[i], text[i + 1]>> \in DOMAIN Doubled
  BY <1>1, <1>3, <1>4, <1>5
<1> QED
  BY <1>2, <1>6 DEF IsSymbol, Symbols

\* The kinds of lexemes begin with different characters.
LEMMA Beginnings ==
    ASSUME Read, NEW i \in 1 .. Len(text), NEW j \in i .. Len(text)
    PROVE  /\ IsWord(i, j) => text[i] \in Letters
           /\ IsNumber(i, j) => text[i] \in Digits
           /\ IsString(i, j) => text[i] = Quote
           /\ IsSymbol(i, j) => text[i] \in Punctuation \cup {"!"}
<1>1. Len(text) \in Nat /\ i \in Nat /\ j \in Nat /\ i \in i .. j
  BY Places
<1>2. IsWord(i, j) => text[i] \in Letters
  BY DEF IsWord
<1>3. IsNumber(i, j) => text[i] \in Digits
  BY <1>1 DEF IsNumber
<1>4. IsString(i, j) => text[i] = Quote
  BY <1>1 DEF IsString
<1>5. IsSymbol(i, j) => text[i] \in Punctuation \cup {"!"}
  BY SymbolSpans, PairStarts
<1> QED
  BY <1>2, <1>3, <1>4, <1>5

LEMMA Apart ==
    ASSUME NEW c
    PROVE  /\ c \in Letters => c \notin Digits
           /\ c \in Letters \cup Digits =>
                c # Quote /\ c \notin Punctuation \cup {"!"} /\ c \notin Blanks
           /\ c = Quote => c \notin Punctuation \cup {"!"} /\ c \notin Blanks
           /\ c \in Blanks => c \notin Punctuation \cup {"!"}
<1>1. "'" \notin Punctuation \cup {"!"} /\ " " \notin Punctuation \cup {"!"}
  BY DEF Punctuation
<1>2. "'" # " "
  OBVIOUS
<1> QED
  BY <1>1, <1>2, LexerAssumption DEF Quote, Blanks

-----------------------------------------------------------------------------
(* One token.                                                              *)

Longest(i, last) ==
    /\ last \in i .. Len(text)
    /\ IsLexeme(i, last)
    /\ \A j \in i .. Len(text) : IsLexeme(i, j) => j <= last

Quotes(i, j) == {k \in i .. j : text[k] = Quote}

LEMMA KeywordsLegal ==
    ASSUME NEW word
    PROVE  LookupIdent(word) # "ILLEGAL"
<1>1. \A w \in Keywords : w # "ILLEGAL"
  BY DEF Keywords
<1>2. \A w \in DOMAIN Upper : Upper[w] # "ILLEGAL"
  BY DEF Upper
<1> QED
  BY <1>1, <1>2 DEF LookupIdent

LEMMA TokenParts ==
    ASSUME NEW input, NEW type, NEW first, NEW last,
           NEW token, token = Token(input, type, first, last)
    PROVE  token.type = type /\ token.first = first /\ token.last = last
<1>1. PICK word : word = IF first = last THEN input[first] ELSE ""
  OBVIOUS
<1>2. token = [type |-> type, first |-> first, last |-> last, word |-> word]
  BY <1>1, Zenon DEF Token
<1> QED
  BY <1>2

LEMMA WordRead ==
    ASSUME Read, NEW i \in 1 .. Len(text), text[i] \in Letters,
           NEW token, token = ReadIdentifier(text, i)
    PROVE  /\ token.first = i /\ token.type # "ILLEGAL"
           /\ Longest(i, token.last)
           /\ Quotes(i, token.last) = {}
<1>1. Len(text) \in Nat /\ i \in Nat /\ i \in 1 .. Len(text) + 1
  BY Places
<1>2. PICK end : end = RunEnd(text, i, Letters \cup Digits)
  OBVIOUS
<1>3. /\ end \in i .. Len(text) + 1
      /\ \A k \in i .. end - 1 : text[k] \in Letters \cup Digits
      /\ end <= Len(text) => text[end] \notin Letters \cup Digits
  BY <1>1, <1>2, RunEnds
<1>4. end # i
  BY <1>1, <1>3
<1>5. token.first = i /\ token.last = end - 1 /\ token.type # "ILLEGAL"
  BY <1>2, KeywordsLegal DEF ReadIdentifier, Token
<1>6. end - 1 \in i .. Len(text)
  BY <1>1, <1>3, <1>4
<1>7. IsLexeme(i, end - 1)
  BY <1>3 DEF IsLexeme, IsWord
<1>8. ASSUME NEW j \in i .. Len(text), IsLexeme(i, j)
      PROVE  j <= end - 1
  <2>1. IsWord(i, j)
    BY <1>8, Beginnings, Apart DEF IsLexeme
  <2>2. \A k \in i .. j : text[k] \in Letters \cup Digits
    BY <2>1 DEF IsWord
  <2> QED
    BY <1>1, <1>3, <2>2
<1>9. Quotes(i, end - 1) = {}
  BY <1>3, Apart DEF Quotes
<1> QED
  BY <1>5, <1>6, <1>7, <1>8, <1>9 DEF Longest

LEMMA NumberRead ==
    ASSUME Read, NEW i \in 1 .. Len(text), text[i] \in Digits,
           NEW token, token = ReadNumber(text, i)
    PROVE  /\ token.first = i /\ token.type # "ILLEGAL"
           /\ Longest(i, token.last)
           /\ Quotes(i, token.last) = {}
<1>1. Len(text) \in Nat /\ i \in Nat /\ i \in 1 .. Len(text) + 1
  BY Places
<1>2. PICK dot : dot = RunEnd(text, i, Digits)
  OBVIOUS
<1>3. /\ dot \in i .. Len(text) + 1
      /\ \A k \in i .. dot - 1 : text[k] \in Digits
      /\ dot <= Len(text) => text[dot] \notin Digits
  BY <1>1, <1>2, RunEnds
<1>4. dot # i
  BY <1>1, <1>3
<1>5. ASSUME NEW j \in i .. Len(text), IsLexeme(i, j)
      PROVE  IsNumber(i, j)
  BY <1>5, Beginnings, Apart DEF IsLexeme
<1>6. "." \notin Digits /\ "." # Quote
  <2>1. "." \in Punctuation
    BY DEF Punctuation
  <2> QED
    BY <2>1, Apart
<1>7. CASE dot < Len(text) /\ text[dot] = "." /\ text[dot + 1] \in Digits
  <2>1. PICK end : end = RunEnd(text, dot + 1, Digits)
    OBVIOUS
  <2>2. dot + 1 \in 1 .. Len(text) + 1
    BY <1>1, <1>3, <1>7
  <2>3. /\ end \in dot + 1 .. Len(text) + 1
        /\ \A k \in dot + 1 .. end - 1 : text[k] \in Digits
        /\ end <= Len(text) => text[end] \notin Digits
    BY <2>1, <2>2, RunEnds
  <2>4. token.first = i /\ token.last = end - 1 /\ token.type # "ILLEGAL"
    BY <1>2, <1>7, <2>1 DEF ReadNumber, Token
  <2>5. end # dot + 1
    BY <1>1, <1>3, <1>7, <2>3
  <2>6. end - 1 \in i .. Len(text) /\ dot \in i + 1 .. (end - 1) - 1
    BY <1>1, <1>3, <1>4, <1>7, <2>3, <2>5
  <2>7. \A k \in (i .. end - 1) \ {dot} : text[k] \in Digits
    <3>1. \A k \in (i .. end - 1) \ {dot} : k \in i .. dot - 1 \/ k \in dot + 1 .. end - 1
      BY <1>1, <1>3, <2>3
    <3> QED
      BY <1>3, <2>3, <3>1
  <2>8. IsLexeme(i, end - 1)
    BY <1>7, <2>6, <2>7 DEF IsLexeme, IsNumber
  <2>9. ASSUME NEW j \in i .. Len(text), IsLexeme(i, j), j > end - 1
        PROVE  FALSE
    <3>1. j \in Nat /\ end \in i .. j /\ dot \in i .. j /\ end # dot
      BY <1>1, <1>3, <1>7, <2>3, <2>9
    <3>2. text[end] \notin Digits /\ text[dot] \notin Digits
      BY <1>1, <1>3, <1>7, <2>3, <2>9
    <3>3. IsNumber(i, j)
      BY <1>5, <2>9
    <3> QED
      BY <3>1, <3>2, <3>3 DEF IsNumber
  <2>10. \A j \in i .. Len(text) : IsLexeme(i, j) => j <= end - 1
    BY <1>1, <2>3, <2>9
  <2>11. Quotes(i, end - 1) = {}
    BY <1>6, <1>7, <2>7, Apart DEF Quotes
  <2> QED
    BY <2>4, <2>6, <2>8, <2>10, <2>11 DEF Longest
<1>8. CASE ~ (dot < Len(text) /\ text[dot] = "." /\ text[dot + 1] \in Digits)
  <2>1. token.first = i /\ token.last = dot - 1 /\ token.type # "ILLEGAL"
    BY <1>2, <1>8 DEF ReadNumber, Token
  <2>2. dot - 1 \in i .. Len(text)
    BY <1>1, <1>3, <1>4
  <2>3. IsLexeme(i, dot - 1)
    BY <1>3 DEF IsLexeme, IsNumber
  <2>4. ASSUME NEW j \in i .. Len(text), IsLexeme(i, j), j > dot - 1
        PROVE  FALSE
    <3>1. j \in Nat /\ dot \in i .. j /\ dot <= Len(text)
      BY <1>1, <1>3, <2>4
    <3>2. text[dot] \notin Digits
      BY <1>3, <3>1
    <3>3. IsNumber(i, j)
      BY <1>5, <2>4
    <3>4. PICK d \in i + 1 .. j - 1 :
            text[d] = "." /\ \A k \in (i .. j) \ {d} : text[k] \in Digits
      BY <3>1, <3>2, <3>3 DEF IsNumber
    <3>5. d = dot
      BY <3>1, <3>2, <3>4
    <3>6. dot + 1 \in (i .. j) \ {dot} /\ dot < Len(text)
      BY <1>1, <3>1, <3>4, <3>5
    <3> QED
      BY <1>8, <3>4, <3>5, <3>6
  <2>5. \A j \in i .. Len(text) : IsLexeme(i, j) => j <= dot - 1
    BY <1>1, <1>3, <2>4
  <2>6. Quotes(i, dot - 1) = {}
    BY <1>3, Apart DEF Quotes
  <2> QED
    BY <2>1, <2>2, <2>3, <2>5, <2>6 DEF Longest
<1> QED
  BY <1>7, <1>8

\* A string that is closed goes on to the next quote.
LEMMA StringRead ==
    ASSUME Read, NEW i \in 1 .. Len(text), text[i] = Quote, Quotes(i, Len(text)) # {i},
           NEW token, token = ReadString(text, i)
    PROVE  /\ token.first = i /\ token.type # "ILLEGAL"
           /\ Longest(i, token.last)
           /\ i < token.last /\ Quotes(i, token.last) = {i, token.last}
<1>1. Len(text) \in Nat /\ i \in Nat
  BY Places
<1>2. PICK ends : ends = {j \in i + 1 .. Len(text) + 1 : j > Len(text) \/ text[j] = Quote}
  OBVIOUS
<1>3. PICK q \in i + 1 .. Len(text) : text[q] = Quote
  BY <1>1 DEF Quotes
<1>4. ends \subseteq Nat /\ q \in ends
  BY <1>1, <1>2, <1>3
<1>5. ends # {}
  BY <1>4
<1>6. PICK close : close = Min(ends)
  OBVIOUS
<1>7. close \in ends /\ \A j \in ends : close <= j
  BY <1>4, <1>5, <1>6, Minimum
<1>8. close \in i + 1 .. Len(text) /\ text[close] = Quote
  BY <1>1, <1>2, <1>3, <1>4, <1>7
<1>9. \A k \in i + 1 .. close - 1 : text[k] # Quote
  <2>1. SUFFICES ASSUME NEW k \in i + 1 .. close - 1, text[k] = Quote
                 PROVE  FALSE
    OBVIOUS
  <2>2. k \in ends /\ k < close
    BY <1>1, <1>2, <1>8, <2>1
  <2> QED
    BY <1>1, <1>7, <1>8, <2>2
<1>10. token.first = i /\ token.last = close /\ token.type # "ILLEGAL"
  <2>1. token = Token(text, "STRING", i, IF close > Len(text) THEN Len(text) ELSE close)
    BY <1>2, <1>6, Zenon DEF ReadString
  <2>2. ~(close > Len(text))
    BY <1>1, <1>8
  <2>3. token = Token(text, "STRING", i, close)
    BY <2>1, <2>2
  <2>4. "STRING" # "ILLEGAL"
    OBVIOUS
  <2> QED
    BY <2>3, <2>4, TokenParts
<1>11. close \in i .. Len(text) /\ i < close
  BY <1>1, <1>8
<1>12. Quotes(i, close) = {i, close}
  BY <1>1, <1>8, <1>9 DEF Quotes
<1>13. IsLexeme(i, close)
  BY <1>11, <1>12 DEF IsLexeme, IsString, Quotes
<1>14. ASSUME NEW j \in i .. Len(text), IsLexeme(i, j)
       PROVE  j <= close
  <2>1. IsString(i, j)
    BY <1>14, Beginnings, Apart DEF IsLexeme
  <2>2. CASE j > close
    <3>1. close \in {k \in i .. j : text[k] = Quote}
      BY <1>1, <1>8, <2>2
    <3> QED
      BY <1>1, <1>8, <2>1, <2>2, <3>1 DEF IsString
  <2> QED
    BY <1>1, <1>8, <2>2
<1> QED
  BY <1>10, <1>11, <1>12, <1>13, <1>14 DEF Longest

\* The two characters that the lexer looks at.
LEMMA PairAhead ==
    ASSUME Read, NEW i \in 1 .. Len(text),
           NEW pair, pair = SubSeq(text, i, Min({i + 1, Len(text)}))
    PROVE  pair \in DOMAIN Doubled <=>
             i < Len(text) /\ <<text[i], text[i + 1]>> \in DOMAIN Doubled
<1>1. Len(text) \in Nat /\ i \in Nat
  BY Places
<1>2. ASSUME i < Len(text)
      PROVE  pair = <<text[i], text[i + 1]>>
  <2>1. i + 1 \in Nat /\ i + 1 <= Len(text)
    BY <1>1, <1>2
  <2>2. Min({i + 1, Len(text)}) = i + 1
    BY <1>1, <2>1, SmallerOfTwo
  <2> QED
    BY <2>1, <2>2, SpanOfTwo
<1>3. ASSUME i = Len(text)
      PROVE  pair = <<text[i]>>
  <2>1. i + 1 \in Nat /\ Len(text) <= i + 1
    BY <1>1, <1>3
  <2>2. Min({i + 1, Len(text)}) = i
    BY <1>1, <1>3, <2>1, SmallerOfTwo
  <2> QED
    BY <2>2, SpanOfOne
<1>4. \A c : <<c>> \notin DOMAIN Doubled
  BY DEF Doubled
<1>5. i < Len(text) \/ (i = Len(text) /\ ~(i < Len(text)))
  BY <1>1
<1> QED
  BY <1>2, <1>3, <1>4, <1>5, Zenon

LEMMA SymbolRead ==
    ASSUME Read, NEW i \in 1 .. Len(text),
           text[i] \notin Letters \cup Digits \cup {Quote},
           NEW token, token = NextToken(text, i)
    PROVE  /\ token.first = i
           /\ token.last \in i .. Len(text)
           /\ IF token.type = "ILLEGAL" THEN \A j \in i .. Len(text) : ~IsLexeme(i, j)
              ELSE Longest(i, token.last) /\ Quotes(i, token.last) = {}
<1>1. Len(text) \in Nat /\ i \in Nat /\ i \in i .. Len(text)
  BY Places
<1>2. PICK pair : pair = SubSeq(text, i, Min({i + 1, Len(text)}))
  OBVIOUS
<1>4. \A j \in i .. Len(text) : IsLexeme(i, j) <=>
        \/ j = i /\ text[i] \in Punctuation
        \/ j = i + 1 /\ <<text[i], text[i + 1]>> \in DOMAIN Doubled
  BY Beginnings, SymbolSpans DEF IsLexeme
<1>5. pair \in DOMAIN Doubled <=> i < Len(text) /\ <<text[i], text[i + 1]>> \in DOMAIN Doubled
  BY <1>2, PairAhead
<1>6. CASE pair \in DOMAIN Doubled
  <2>1. PICK type : type = Doubled[pair]
    OBVIOUS
  <2>2. type # "ILLEGAL"
    BY <1>6, <2>1 DEF Doubled
  <2>3. token.first = i /\ token.last = i + 1 /\ token.type # "ILLEGAL"
    <3>1. token = Token(text, type, i, i + 1)
      BY <1>2, <1>6, <2>1 DEF NextToken
    <3> QED
      BY <2>2, <3>1, TokenParts
  <2>4. i + 1 \in i .. Len(text) /\ IsLexeme(i, i + 1)
    BY <1>1, <1>4, <1>5, <1>6
  <2>5. \A j \in i .. Len(text) : IsLexeme(i, j) => j <= i + 1
    BY <1>1, <1>4
  <2>6. text[i + 1] # Quote
    BY <1>5, <1>6 DEF Doubled, Quote
  <2>7. Quotes(i, i + 1) = {}
    BY <1>1, <2>6 DEF Quotes
  <2> QED
    BY <2>3, <2>4, <2>5, <2>7 DEF Longest
<1>7. CASE pair \notin DOMAIN Doubled /\ text[i] \in Punctuation
  <2>1. token = Token(text, text[i], i, i)
    BY <1>2, <1>7 DEF NextToken
  <2>2. text[i] # "ILLEGAL"
    BY <1>7 DEF Punctuation
  <2>3. token.first = i /\ token.last = i /\ token.type # "ILLEGAL"
    BY <2>1, <2>2 DEF Token
  <2>4. IsLexeme(i, i)
    BY <1>1, <1>4, <1>7
  <2>5. \A j \in i .. Len(text) : IsLexeme(i, j) => j <= i
    BY <1>1, <1>4, <1>5, <1>7
  <2>6. Quotes(i, i) = {}
    BY <1>1 DEF Quotes
  <2> QED
    BY <1>1, <2>3, <2>4, <2>5, <2>6 DEF Longest
<1>8. CASE pair \notin DOMAIN Doubled /\ text[i] \notin Punctuation
  <2>1. token = Token(text, "ILLEGAL", i, i)
    BY <1>2, <1>8 DEF NextToken
  <2>2. token.first = i /\ token.last = i /\ token.type = "ILLEGAL"
    BY <2>1 DEF Token
  <2>3. \A j \in i .. Len(text) : ~IsLexeme(i, j)
    BY <1>1, <1>4, <1>5, <1>8
  <2> QED
    BY <1>1, <2>2, <2>3
<1> QED
  BY <1>6, <1>7, <1>8

\* An even number of quotes: no string is open, and a token closes the string it
\* opens.
Even(i) == Cardinality(Quotes(i, Len(text))) % 2 = 0

LEMMA TokenRead ==
    ASSUME Read, NEW i \in 1 .. Len(text), text[i] \notin Blanks, Even(i),
           NEW token, token = NextToken(text, i)
    PROVE  /\ token.first = i
           /\ token.last \in i .. Len(text)
           /\ IF token.type = "ILLEGAL" THEN \A j \in i .. Len(text) : ~IsLexeme(i, j)
              ELSE /\ Longest(i, token.last)
                   /\ \/ Quotes(i, token.last) = {}
                      \/ i < token.last /\ Quotes(i, token.last) = {i, token.last}
<1> DEFINE pair == SubSeq(text, i, Min({i + 1, Len(text)}))
<1>0. text[i] \in Letters \cup Digits \cup {Quote} => pair \notin DOMAIN Doubled
  <2>1. pair \in DOMAIN Doubled => text[i] \in Punctuation \cup {"!"}
    BY PairAhead, PairStarts
  <2> QED
    BY <2>1, Apart
<1>1. CASE text[i] \in Letters
  <2>1. token = ReadIdentifier(text, i)
    BY <1>0, <1>1, Apart DEF NextToken
  <2> QED
    BY <1>1, <2>1, WordRead DEF Longest
<1>2. CASE text[i] \in Digits
  <2>1. token = ReadNumber(text, i)
    BY <1>0, <1>2, Apart DEF NextToken
  <2> QED
    BY <1>2, <2>1, NumberRead DEF Longest
<1>3. CASE text[i] = Quote
  <2>1. token = ReadString(text, i)
    BY <1>0, <1>3, Apart DEF NextToken
  <2>2. Quotes(i, Len(text)) # {i}
    <3>1. Cardinality({i}) = 1
      BY FS_Singleton
    <3>2. 1 % 2 # 0
      OBVIOUS
    <3> QED
      BY <3>1, <3>2, Zenon DEF Even
  <2> QED
    BY <1>3, <2>1, <2>2, StringRead DEF Longest
<1>4. CASE text[i] \notin Letters \cup Digits \cup {Quote}
  BY <1>4, SymbolRead
<1> QED
  BY <1>1, <1>2, <1>3, <1>4

-----------------------------------------------------------------------------
(* The loop of Tokenize.                                                   *)

\* A token ends in the text, even a string that is not closed.
LEMMA TokenEnds ==
    ASSUME Read, NEW i \in 1 .. Len(text), NEW token, token = NextToken(text, i)
    PROVE  token.last \in i .. Len(text)
<1> DEFINE pair == SubSeq(text, i, Min({i + 1, Len(text)}))
<1>1. text[i] \in Letters \cup Digits \cup {Quote} => pair \notin DOMAIN Doubled
  <2>1. pair \in DOMAIN Doubled => text[i] \in Punctuation \cup {"!"}
    BY PairAhead, PairStarts
  <2> QED
    BY <2>1, Apart
<1>2. CASE text[i] \in Letters
  <2>1. token = ReadIdentifier(text, i)
    BY <1>1, <1>2, Apart DEF NextToken
  <2> QED
    BY <1>2, <2>1, WordRead DEF Longest
<1>3. CASE text[i] \in Digits
  <2>1. token = ReadNumber(text, i)
    BY <1>1, <1>3, Apart DEF NextToken
  <2> QED
    BY <1>3, <2>1, NumberRead DEF Longest
<1>4. CASE text[i] = Quote
  <2>1. token = ReadString(text, i)
    BY <1>1, <1>4, Apart DEF NextToken
  <2>2. Len(text) \in Nat
    BY Places
  <2>3. PICK ends : ends = {j \in i + 1 .. Len(text) + 1 : j > Len(text) \/ text[j] = Quote}
    OBVIOUS
  <2>4. ends \subseteq Nat /\ Len(text) + 1 \in ends
    BY <2>2, <2>3
  <2>5. ends # {}
    BY <2>4
  <2>6. PICK close : close = Min(ends)
    OBVIOUS
  <2>7. close \in i + 1 .. Len(text) + 1
    BY <2>3, <2>4, <2>5, <2>6, Minimum
  <2>8. PICK last : last = IF close > Len(text) THEN Len(text) ELSE close
    OBVIOUS
  <2>9. token = Token(text, "STRING", i, last)
    BY <2>1, <2>3, <2>6, <2>8, Zenon DEF ReadString
  <2>10. token.last = last
    BY <2>9, TokenParts
  <2> QED
    BY <2>2, <2>7, <2>8, <2>10
<1>5. CASE text[i] \notin Letters \cup Digits \cup {Quote}
  BY <1>5, SymbolRead
<1> QED
  BY <1>2, <1>3, <1>4, <1>5

\* What TokensFrom says at a place, when f is what it says at later ones.
Continued(f, i) ==
    LET begin == RunEnd(text, i, Blanks)
        token == NextToken(text, begin)
    IN  IF begin > Len(text) THEN <<>>
        ELSE IF token.type = "ILLEGAL" THEN <<token>>
        ELSE <<token>> \o f[token.last + 1]

LEMMA ReadsOn ==
    ASSUME Read, NEW i \in 1 .. Len(text) + 1,
           NEW begin, begin = RunEnd(text, i, Blanks), ~(begin > Len(text)),
           NEW token, token = NextToken(text, begin)
    PROVE  /\ begin \in 1 .. Len(text) /\ i <= begin
           /\ \A k \in i .. begin - 1 : text[k] \in Blanks
           /\ text[begin] \notin Blanks
           /\ token.last \in begin .. Len(text)
           /\ token.last + 1 \in i + 1 .. Len(text) + 1
<1>1. Len(text) \in Nat
  BY Places
<1>2. /\ begin \in i .. Len(text) + 1
      /\ \A k \in i .. begin - 1 : text[k] \in Blanks
      /\ begin <= Len(text) => text[begin] \notin Blanks
  BY RunEnds
<1>3. begin \in 1 .. Len(text) /\ i <= begin /\ begin <= Len(text)
  BY <1>1, <1>2
<1>4. token.last \in begin .. Len(text)
  BY <1>3, TokenEnds
<1> QED
  BY <1>1, <1>2, <1>3, <1>4

LEMMA LaterOnly ==
    ASSUME Read, NEW i \in 1 .. Len(text) + 1, NEW f, NEW g,
           \A k \in i + 1 .. Len(text) + 1 : f[k] = g[k]
    PROVE  Continued(f, i) = Continued(g, i)
<1>1. PICK begin : begin = RunEnd(text, i, Blanks)
  OBVIOUS
<1>2. PICK token : token = NextToken(text, begin)
  OBVIOUS
<1>3. ~(begin > Len(text)) => f[token.last + 1] = g[token.last + 1]
  BY <1>1, <1>2, ReadsOn
<1> QED
  BY <1>1, <1>2, <1>3, Zenon DEF Continued

Solves(f, m) == f = [i \in m .. Len(text) + 1 |-> Continued(f, i)]

LEMMA SolvedEarlier ==
    ASSUME Read, NEW m \in 1 .. Len(text) + 1, NEW f, Solves(f, m + 1)
    PROVE  \E g : Solves(g, m)
<1>1. Len(text) \in Nat
  BY Places
<1>2. PICK g : g = [i \in m .. Len(text) + 1 |-> IF i = m THEN Continued(f, m) ELSE f[i]]
  OBVIOUS
<1>3. ASSUME NEW i \in m .. Len(text) + 1
      PROVE  g[i] = Continued(g, i)
  <2>1. \A k \in i + 1 .. Len(text) + 1 : f[k] = g[k]
    BY <1>1, <1>2
  <2>2. i \in 1 .. Len(text) + 1
    BY <1>1
  <2>3. Continued(f, i) = Continued(g, i)
    BY <2>1, <2>2, LaterOnly
  <2>4. CASE i = m
    BY <1>2, <2>3, <2>4
  <2>5. CASE i # m
    <3>1. i \in m + 1 .. Len(text) + 1
      BY <1>1, <2>5
    <3>2. f[i] = Continued(f, i)
      BY <3>1, Zenon DEF Solves
    <3> QED
      BY <1>2, <2>3, <2>5, <3>2
  <2> QED
    BY <2>4, <2>5
<1>4. g = [i \in m .. Len(text) + 1 |-> Continued(g, i)]
  BY <1>2, <1>3
<1> QED
  BY <1>4 DEF Solves

LEMMA Solved ==
    ASSUME Read
    PROVE  \E f : Solves(f, 1)
<1>1. Len(text) \in Nat
  BY Places
<1>2. PICK solved : solved = {n \in 0 .. Len(text) + 1 : \E f : Solves(f, Len(text) + 2 - n)}
  OBVIOUS
<1>3. 0 \in solved
  <2>1. PICK f : f = [i \in {} |-> 0]
    OBVIOUS
  <2>2. Len(text) + 2 - 0 .. Len(text) + 1 = {}
    BY <1>1
  <2>3. f = [i \in Len(text) + 2 - 0 .. Len(text) + 1 |-> Continued(f, i)]
    BY <2>1, <2>2
  <2>4. Solves(f, Len(text) + 2 - 0)
    BY <2>3 DEF Solves
  <2> QED
    BY <1>1, <1>2, <2>4
<1>4. ASSUME NEW n \in solved, n # Len(text) + 1
      PROVE  n + 1 \in solved
  <2>1. PICK f : Solves(f, Len(text) + 2 - n)
    BY <1>2
  <2>2. PICK m : m = Len(text) + 2 - (n + 1)
    OBVIOUS
  <2>3. m \in 1 .. Len(text) + 1 /\ m + 1 = Len(text) + 2 - n /\ n + 1 \in 0 .. Len(text) + 1
    BY <1>1, <1>2, <1>4, <2>2
  <2>4. Solves(f, m + 1)
    BY <2>1, <2>3
  <2>5. \E g : Solves(g, m)
    BY <2>3, <2>4, SolvedEarlier
  <2> QED
    BY <1>2, <2>2, <2>3, <2>5
<1>5. Len(text) + 1 \in solved
  <2>1. SUFFICES ASSUME Len(text) + 1 \notin solved
                 PROVE  FALSE
    OBVIOUS
  <2>2. PICK rest : rest = (0 .. Len(text) + 1) \ solved
    OBVIOUS
  <2>3. rest \subseteq Nat /\ Len(text) + 1 \in rest
    BY <1>1, <2>1, <2>2
  <2>4. rest # {}
    BY <2>3
  <2>5. PICK n \in rest : \A m \in rest : n <= m
    BY <2>3, <2>4, LeastNumber
  <2>6. n - 1 \in 0 .. Len(text) + 1 /\ n - 1 \notin rest
    BY <1>1, <1>3, <2>2, <2>3, <2>5
  <2>7. n - 1 \in solved /\ n - 1 # Len(text) + 1 /\ n - 1 + 1 = n
    BY <1>1, <2>2, <2>3, <2>6
  <2>8. n \in solved
    BY <1>4, <2>7
  <2> QED
    BY <2>2, <2>5, <2>8
<1>6. Len(text) + 2 - (Len(text) + 1) = 1
  BY <1>1
<1> QED
  BY <1>2, <1>5, <1>6

LEMMA TokensUnfolded ==
    ASSUME Read, NEW i \in 1 .. Len(text) + 1
    PROVE  TokensFrom(text)[i] = Continued(TokensFrom(text), i)
<1>1. \E f : f = [k \in 1 .. Len(text) + 1 |-> Continued(f, k)]
  BY Solved DEF Solves
<1>2. PICK F : F = CHOOSE f : f = [k \in 1 .. Len(text) + 1 |-> Continued(f, k)]
  OBVIOUS
<1>3. F = [k \in 1 .. Len(text) + 1 |-> Continued(F, k)]
  BY <1>1, <1>2, Zenon
<1>4. TokensFrom(text) = F
  BY <1>2, Zenon DEF TokensFrom, Continued
<1>5. F[i] = Continued(F, i)
  BY <1>3, Zenon
<1> QED
  BY <1>4, <1>5

-----------------------------------------------------------------------------
(* All of the tokens.                                                      *)

LEMMA QuotesFinite ==
    ASSUME Read, NEW i \in 1 .. Len(text) + 1, NEW j \in 0 .. Len(text)
    PROVE  IsFiniteSet(Quotes(i, j)) /\ Cardinality(Quotes(i, j)) \in Nat
<1>1. i \in Int /\ j \in Int
  BY Places
<1>2. PICK S : S = i .. j
  OBVIOUS
<1>3. IsFiniteSet(S)
  BY <1>1, <1>2, FS_Interval
<1>4. PICK T : T = Quotes(i, j)
  OBVIOUS
<1>5. T \in SUBSET S
  BY <1>2, <1>4 DEF Quotes
<1>6. IsFiniteSet(T)
  BY <1>3, <1>5, FS_Subset
<1> QED
  BY <1>4, <1>6, FS_CardinalityType

LEMMA EvenAfter ==
    ASSUME Read, NEW i \in 1 .. Len(text), NEW begin \in i .. Len(text),
           \A k \in i .. begin - 1 : text[k] \in Blanks,
           NEW last \in begin .. Len(text), Even(i),
           \/ Quotes(begin, last) = {}
           \/ begin < last /\ Quotes(begin, last) = {begin, last}
    PROVE  Even(last + 1)
<1>1. Len(text) \in Nat /\ i \in Nat /\ begin \in Nat /\ last \in Nat
  BY Places
<1>2. PICK A, C : A = Quotes(i, Len(text)) /\ C = Quotes(last + 1, Len(text))
  OBVIOUS
<1>3. IsFiniteSet(C) /\ Cardinality(C) \in Nat
  BY <1>1, <1>2, QuotesFinite
<1>4. A = Quotes(begin, last) \cup C
  <2>1. \A k \in i .. begin - 1 : text[k] # Quote
    BY Apart
  <2>2. \A k : k \in i .. Len(text) <=>
          k \in i .. begin - 1 \/ k \in begin .. last \/ k \in last + 1 .. Len(text)
    BY <1>1
  <2> QED
    BY <1>2, <2>1, <2>2 DEF Quotes
<1>5. Cardinality(A) % 2 = 0
  BY <1>2 DEF Even
<1>6. CASE Quotes(begin, last) = {}
  <2>1. A = C
    BY <1>4, <1>6
  <2> QED
    BY <1>2, <1>5, <2>1 DEF Even
<1>7. CASE begin < last /\ Quotes(begin, last) = {begin, last}
  <2>1. begin \notin C /\ last \notin C \cup {begin}
    BY <1>1, <1>2, <1>7 DEF Quotes
  <2>2. PICK B : B = C \cup {begin}
    OBVIOUS
  <2>3. IsFiniteSet(B) /\ Cardinality(B) = Cardinality(C) + 1
    BY <1>3, <2>1, <2>2, FS_AddElement
  <2>4. A = B \cup {last}
    BY <1>4, <1>7, <2>2
  <2>5. Cardinality(A) = Cardinality(B) + 1
    BY <2>1, <2>2, <2>3, <2>4, FS_AddElement
  <2>6. Cardinality(C) % 2 = 0
    <3>1. PICK n, m : n = Cardinality(C) /\ m = Cardinality(A)
      OBVIOUS
    <3>2. n \in Nat /\ m = n + 2 /\ m % 2 = 0
      BY <1>3, <1>5, <2>3, <2>5, <3>1
    <3>3. n % 2 = 0
      BY <3>2
    <3> QED
      BY <3>1, <3>3
  <2> QED
    BY <1>2, <2>6 DEF Even
<1> QED
  BY <1>6, <1>7

\* What LongestMatch says of a token, and of the tokens from a place on.
Exact(token) ==
    /\ token.first \in 1 .. Len(text)
    /\ IF token.type = "ILLEGAL"
       THEN \A j \in token.first .. Len(text) : ~IsLexeme(token.first, j)
       ELSE Longest(token.first, token.last)

Tokens == {NextToken(text, i) : i \in 1 .. Len(text)}

Covered(read, k) == \E p \in DOMAIN read : k \in read[p].first .. read[p].last

ExactFrom(read, i) ==
    /\ read \in Seq(Tokens)
    /\ \A p \in 1 .. Len(read) : Exact(read[p]) /\ i <= read[p].first
    /\ \A p \in 1 .. Len(read) - 1 : read[p].last < read[p + 1].first
    /\ Legal(read) => \A k \in i .. Len(text) : text[k] # " " => Covered(read, k)

LEMMA NoTokens ==
    ASSUME Read, NEW i \in 1 .. Len(text) + 1,
           \A k \in i .. Len(text) : text[k] \in Blanks
    PROVE  ExactFrom(<<>>, i)
<1>1. PICK none : none = <<>>
  OBVIOUS
<1>2. none \in Seq(Tokens) /\ Len(none) = 0
  BY <1>1, EmptySeq
<1>3. (1 .. 0) = {} /\ (1 .. 0 - 1) = {}
  OBVIOUS
<1>4. \A k \in i .. Len(text) : ~(text[k] # " ")
  BY DEF Blanks
<1>5. ExactFrom(none, i)
  BY <1>2, <1>3, <1>4 DEF ExactFrom
<1> QED
  BY <1>1, <1>5

LEMMA IllegalToken ==
    ASSUME Read, NEW i \in 1 .. Len(text),
           NEW token \in Tokens, Exact(token), i <= token.first, token.type = "ILLEGAL"
    PROVE  ExactFrom(<<token>>, i)
<1>1. PICK read : read = <<token>>
  OBVIOUS
<1>2. read \in Seq(Tokens) /\ Len(read) = 1 /\ read[1] = token /\ DOMAIN read = {1}
  BY <1>1
<1>3. \A p \in 1 .. Len(read) : read[p] = token
  BY <1>2
<1>4. (1 .. Len(read) - 1) = {}
  BY <1>2
<1>5. ~Legal(read)
  BY <1>2 DEF Legal
<1>6. ExactFrom(read, i)
  BY <1>2, <1>3, <1>4, <1>5 DEF ExactFrom
<1> QED
  BY <1>1, <1>6

LEMMA OneMoreToken ==
    ASSUME Read, NEW i \in 1 .. Len(text),
           NEW token \in Tokens, Exact(token), i <= token.first, token.type # "ILLEGAL",
           \A k \in i .. token.first - 1 : text[k] \in Blanks,
           NEW rest, ExactFrom(rest, token.last + 1)
    PROVE  ExactFrom(<<token>> \o rest, i)
<1>1. Len(text) \in Nat /\ token.first \in 1 .. Len(text) /\ token.last \in token.first .. Len(text)
  BY Places DEF Exact, Longest
<1>2. PICK one : one = <<token>>
  OBVIOUS
<1>3. one \in Seq(Tokens) /\ Len(one) = 1 /\ one[1] = token
  BY <1>2
<1>4. rest \in Seq(Tokens)
  BY DEF ExactFrom
<1>5. PICK read : read = one \o rest
  OBVIOUS
<1>6. /\ read \in Seq(Tokens) /\ Len(read) = Len(one) + Len(rest)
      /\ \A p \in 1 .. Len(one) + Len(rest) :
            read[p] = IF p <= Len(one) THEN one[p] ELSE rest[p - Len(one)]
  BY <1>3, <1>4, <1>5, ConcatProperties
<1>7. Len(rest) \in Nat /\ DOMAIN rest = 1 .. Len(rest) /\ DOMAIN read = 1 .. Len(read)
  BY <1>4, <1>6, LenProperties
<1>8. Len(read) = Len(rest) + 1 /\ read[1] = token
  BY <1>3, <1>6, <1>7
<1>9. \A p \in 1 .. Len(rest) : p + 1 \in 1 .. Len(read) /\ read[p + 1] = rest[p]
  BY <1>3, <1>6, <1>7, <1>8
<1>10. \A p \in 1 .. Len(read) : p = 1 \/ (p - 1 \in 1 .. Len(rest) /\ p - 1 + 1 = p)
  BY <1>7, <1>8
<1>11. \A p \in 1 .. Len(rest) : Exact(rest[p]) /\ token.last + 1 <= rest[p].first
  BY DEF ExactFrom
<1>12. ASSUME NEW p \in 1 .. Len(read)
       PROVE  Exact(read[p]) /\ i <= read[p].first
  <2>1. CASE p = 1
    BY <1>8, <2>1
  <2>2. CASE p # 1
    <3>1. PICK q \in 1 .. Len(rest) : p = q + 1
      BY <1>10, <2>2
    <3>2. read[p] = rest[q]
      BY <1>9, <3>1
    <3>3. Exact(rest[q]) /\ token.last + 1 <= rest[q].first
      BY <1>11
    <3>4. rest[q].first \in 1 .. Len(text)
      BY <3>3 DEF Exact
    <3>5. i <= rest[q].first
      BY <1>1, <3>3, <3>4
    <3> QED
      BY <3>2, <3>3, <3>5
  <2> QED
    BY <2>1, <2>2
<1>13. ASSUME NEW p \in 1 .. Len(read) - 1
       PROVE  read[p].last < read[p + 1].first
  <2>1. CASE p = 1
    <3>1. 1 \in 1 .. Len(rest)
      BY <1>7, <1>8, <2>1
    <3>2. read[p] = token /\ read[p + 1] = rest[1]
      BY <1>8, <1>9, <2>1, <3>1
    <3>3. Exact(rest[1]) /\ token.last + 1 <= rest[1].first
      BY <1>11, <3>1
    <3>4. rest[1].first \in 1 .. Len(text)
      BY <3>3 DEF Exact
    <3>5. token.last < rest[1].first
      BY <1>1, <3>3, <3>4
    <3> QED
      BY <3>2, <3>5
  <2>2. CASE p # 1
    <3>1. PICK q \in 1 .. Len(rest) - 1 : p = q + 1
      <4>1. p - 1 \in 1 .. Len(rest) - 1 /\ p = p - 1 + 1
        BY <1>7, <1>8, <2>2
      <4> QED
        BY <4>1
    <3>2. q \in 1 .. Len(rest) /\ q + 1 \in 1 .. Len(rest)
      BY <1>7
    <3>3. read[p] = rest[q] /\ read[p + 1] = rest[q + 1]
      BY <1>9, <3>1, <3>2
    <3>4. rest[q].last < rest[q + 1].first
      BY DEF ExactFrom
    <3> QED
      BY <3>3, <3>4
  <2> QED
    BY <2>1, <2>2
<1>14. ASSUME Legal(read), NEW k \in i .. Len(text), text[k] # " "
       PROVE  Covered(read, k)
  <2>1. CASE k \in i .. token.first - 1
    BY <1>14, <2>1 DEF Blanks
  <2>2. CASE k \in token.first .. token.last
    <3>1. 1 \in DOMAIN read
      BY <1>7, <1>8
    <3> QED
      BY <1>8, <2>2, <3>1 DEF Covered
  <2>3. CASE k \in token.last + 1 .. Len(text)
    <3>1. Legal(rest)
      <4>1. SUFFICES ASSUME NEW p \in 1 .. Len(rest)
                     PROVE  rest[p].type # "ILLEGAL"
        BY <1>7 DEF Legal
      <4>2. p + 1 \in DOMAIN read /\ read[p + 1] = rest[p]
        BY <1>7, <1>9
      <4> QED
        BY <1>14, <4>2 DEF Legal
    <3>2. Covered(rest, k)
      BY <1>14, <2>3, <3>1 DEF ExactFrom
    <3>3. PICK p \in 1 .. Len(rest) : k \in rest[p].first .. rest[p].last
      BY <1>7, <3>2 DEF Covered
    <3>4. p + 1 \in DOMAIN read /\ read[p + 1] = rest[p]
      BY <1>7, <1>9
    <3> QED
      BY <3>3, <3>4 DEF Covered
  <2> QED
    BY <1>1, <2>1, <2>2, <2>3
<1>15. ExactFrom(read, i)
  BY <1>6, <1>12, <1>13, <1>14 DEF ExactFrom
<1> QED
  BY <1>2, <1>5, <1>15

LEMMA ExactBefore ==
    ASSUME Read, NEW i \in 1 .. Len(text) + 1, Even(i),
           NEW from, from = TokensFrom(text),
           \A k \in i + 1 .. Len(text) + 1 : Even(k) => ExactFrom(from[k], k)
    PROVE  ExactFrom(from[i], i)
<1>1. Len(text) \in Nat
  BY Places
<1>2. PICK begin : begin = RunEnd(text, i, Blanks)
  OBVIOUS
<1>3. PICK token : token = NextToken(text, begin)
  OBVIOUS
<1>4. PICK rest : rest = from[token.last + 1]
  OBVIOUS
<1>5. from[i] = IF begin > Len(text) THEN <<>>
                ELSE IF token.type = "ILLEGAL" THEN <<token>> ELSE <<token>> \o rest
  <2>1. from[i] = Continued(from, i)
    BY TokensUnfolded
  <2> QED
    BY <1>2, <1>3, <1>4, <2>1, Zenon DEF Continued
<1>6. CASE begin > Len(text)
  <2>1. begin \in i .. Len(text) + 1 /\ \A k \in i .. begin - 1 : text[k] \in Blanks
    BY <1>2, RunEnds
  <2>2. \A k \in i .. Len(text) : text[k] \in Blanks
    BY <1>1, <1>6, <2>1
  <2>3. ExactFrom(<<>>, i)
    BY <2>2, NoTokens
  <2> QED
    BY <1>5, <1>6, <2>3
<1>7. CASE ~(begin > Len(text))
  <2>1. /\ begin \in 1 .. Len(text) /\ i <= begin
        /\ \A k \in i .. begin - 1 : text[k] \in Blanks
        /\ text[begin] \notin Blanks
        /\ token.last \in begin .. Len(text)
        /\ token.last + 1 \in i + 1 .. Len(text) + 1
    BY <1>2, <1>3, <1>7, ReadsOn
  <2>2. i \in 1 .. Len(text) /\ begin \in i .. Len(text)
    BY <1>1, <2>1
  <2>3. Even(begin)
    <3>1. Quotes(i, Len(text)) = Quotes(begin, Len(text))
      <4>1. \A k \in i .. begin - 1 : text[k] # Quote
        BY <2>1, Apart
      <4>2. \A k : k \in i .. Len(text) <=> k \in i .. begin - 1 \/ k \in begin .. Len(text)
        BY <1>1, <2>1
      <4> QED
        BY <4>1, <4>2 DEF Quotes
    <3> QED
      BY <3>1 DEF Even
  <2>4. /\ token.first = begin
        /\ IF token.type = "ILLEGAL" THEN \A j \in begin .. Len(text) : ~IsLexeme(begin, j)
           ELSE /\ Longest(begin, token.last)
                /\ \/ Quotes(begin, token.last) = {}
                   \/ begin < token.last /\ Quotes(begin, token.last) = {begin, token.last}
    BY <1>3, <2>1, <2>3, TokenRead
  <2>5. token \in Tokens /\ Exact(token)
    BY <1>3, <2>1, <2>4 DEF Tokens, Exact
  <2>6. CASE token.type = "ILLEGAL"
    <3>1. ExactFrom(<<token>>, i)
      BY <2>1, <2>2, <2>4, <2>5, <2>6, IllegalToken
    <3> QED
      BY <1>5, <1>7, <2>6, <3>1
  <2>7. CASE token.type # "ILLEGAL"
    <3>1. Even(token.last + 1)
      BY <2>1, <2>2, <2>4, <2>7, EvenAfter
    <3>2. ExactFrom(rest, token.last + 1)
      BY <1>4, <2>1, <3>1
    <3>3. ExactFrom(<<token>> \o rest, i)
      BY <2>1, <2>2, <2>4, <2>5, <2>7, <3>2, OneMoreToken
    <3> QED
      BY <1>5, <1>7, <2>7, <3>3
  <2> QED
    BY <2>6, <2>7
<1> QED
  BY <1>6, <1>7

\* From the end of the text backwards: wherever no string is open, the tokens are
\* exact.
LEMMA ExactEverywhere ==
    ASSUME Read, NEW from, from = TokensFrom(text)
    PROVE  \A i \in 1 .. Len(text) + 1 : Even(i) => ExactFrom(from[i], i)
<1>1. Len(text) \in Nat
  BY Places
<1>2. PICK wrong : wrong = {n \in 0 .. Len(text) :
                              /\ Even(Len(text) + 1 - n)
                              /\ ~ExactFrom(from[Len(text) + 1 - n], Len(text) + 1 - n)}
  OBVIOUS
<1>3. wrong = {}
  <2>1. SUFFICES ASSUME wrong # {}
                 PROVE  FALSE
    OBVIOUS
  <2>2. wrong \subseteq Nat
    BY <1>1, <1>2
  <2>3. PICK n \in wrong : \A m \in wrong : n <= m
    BY <2>1, <2>2, LeastNumber
  <2>4. PICK i : i = Len(text) + 1 - n
    OBVIOUS
  <2>5. i \in 1 .. Len(text) + 1 /\ Even(i) /\ ~ExactFrom(from[i], i)
    BY <1>1, <1>2, <2>3, <2>4
  <2>6. ASSUME NEW k \in i + 1 .. Len(text) + 1, Even(k)
        PROVE  ExactFrom(from[k], k)
    <3>1. PICK m : m = Len(text) + 1 - k
      OBVIOUS
    <3>2. m \in 0 .. Len(text) /\ m < n /\ k = Len(text) + 1 - m
      BY <1>1, <2>2, <2>3, <2>4, <2>5, <3>1
    <3>3. m \notin wrong
      BY <1>1, <2>2, <2>3, <3>2
    <3> QED
      BY <1>2, <2>6, <3>2, <3>3
  <2>7. ExactFrom(from[i], i)
    BY <2>5, <2>6, ExactBefore
  <2> QED
    BY <2>5, <2>7
<1>4. SUFFICES ASSUME NEW i \in 1 .. Len(text) + 1, Even(i)
               PROVE  ExactFrom(from[i], i)
  OBVIOUS
<1>5. PICK n : n = Len(text) + 1 - i
  OBVIOUS
<1>6. n \in 0 .. Len(text) /\ i = Len(text) + 1 - n
  BY <1>1, <1>5
<1> QED
  BY <1>2, <1>3, <1>4, <1>6

\* What is in the text, and what are its tokens.
LexerInv ==
    /\ start \in DOMAIN Start
    /\ Read
    /\ tokens = Tokenize(text)

LEMMA InvLongest ==
    ASSUME LexerInv
    PROVE  LongestMatch
<1>1. Read /\ Len(text) \in Nat /\ DOMAIN text = 1 .. Len(text)
  BY Places DEF LexerInv
<1>2. Closed => ExactFrom(tokens, 1)
  <2>1. Closed => Even(1)
    BY <1>1 DEF Closed, Even, Quotes
  <2>2. PICK from : from = TokensFrom(text)
    OBVIOUS
  <2>3. tokens = from[1] /\ 1 \in 1 .. Len(text) + 1
    BY <1>1, <2>2 DEF LexerInv, Tokenize
  <2> QED
    BY <1>1, <2>1, <2>2, <2>3, ExactEverywhere
<1>3. SUFFICES ASSUME ExactFrom(tokens, 1)
               PROVE  LongestMatch
  BY <1>2 DEF LongestMatch
<1>4. /\ tokens \in Seq(Tokens)
      /\ \A p \in 1 .. Len(tokens) : Exact(tokens[p])
      /\ \A p \in 1 .. Len(tokens) - 1 : tokens[p].last < tokens[p + 1].first
  BY <1>3 DEF ExactFrom
<1>5. DOMAIN tokens = 1 .. Len(tokens)
  BY <1>4, LenProperties
<1>6. ASSUME NEW p \in DOMAIN tokens,
             NEW ends, ends = {j \in tokens[p].first .. Len(text) : IsLexeme(tokens[p].first, j)}
      PROVE  IF tokens[p].type = "ILLEGAL" THEN ends = {}
             ELSE ends # {} /\ Max(ends) = tokens[p].last
  <2>1. Exact(tokens[p])
    BY <1>4, <1>5
  <2>2. PICK first, last : first = tokens[p].first /\ last = tokens[p].last
    OBVIOUS
  <2>3. CASE tokens[p].type = "ILLEGAL"
    BY <1>6, <2>1, <2>3 DEF Exact
  <2>4. CASE tokens[p].type # "ILLEGAL"
    <3>1. first \in 1 .. Len(text) /\ Longest(first, last)
      BY <2>1, <2>2, <2>4 DEF Exact
    <3>2. ends \subseteq Nat /\ last \in ends /\ \A j \in ends : j <= last
      BY <1>1, <1>6, <2>2, <3>1 DEF Longest
    <3>3. Max(ends) = last
      BY <3>2, Maximum
    <3> QED
      BY <2>2, <2>4, <3>2, <3>3
  <2> QED
    BY <2>3, <2>4
<1>7. ASSUME Legal(tokens), NEW i \in DOMAIN text, text[i] # " "
      PROVE  \E p \in DOMAIN tokens : i \in tokens[p].first .. tokens[p].last
  BY <1>1, <1>3, <1>7 DEF ExactFrom, Covered
<1> QED
  BY <1>4, <1>6, <1>7 DEF LongestMatch

\* Whatever is typed, what is lexed is the text.
LEMMA TextLexed == Spec => []LexerInv
<1>1. Init => LexerInv
  BY TypingAssumption DEF Init, LexerInv, Read
<1>2. LexerInv /\ [Next]_vars => LexerInv'
  <2>1. SUFFICES ASSUME LexerInv, [Next]_vars
                 PROVE  LexerInv'
    OBVIOUS
  <2>2. start \in DOMAIN Start /\ text \in Seq(STRING)
    BY <2>1 DEF LexerInv, Read
  <2>3. CASE Typed
    <3>1. PICK piece \in Start[start].pieces : text' = text \o piece
      BY <2>3 DEF Typed
    <3>2. piece \in Seq(STRING)
      BY <2>2, TypingAssumption
    <3>3. text' \in Seq(STRING)
      BY <2>2, <3>1, <3>2, ConcatProperties
    <3> QED
      BY <2>2, <2>3, <3>3 DEF Typed, LexerInv, Read
  <2>4. CASE Sent
    BY <2>4, TypingAssumption DEF Sent, LexerInv, Read
  <2>5. CASE UNCHANGED vars
    BY <2>1, <2>5 DEF vars, LexerInv, Read
  <2> QED
    BY <2>1, <2>3, <2>4, <2>5 DEF Next
<1> QED
  BY <1>1, <1>2, PTL DEF Spec

\* A text of any length is cut into the longest words, numbers, strings and symbols
\* it begins with, and nothing but blanks is left out (lexer.go, Tokenize).
THEOREM TokensAreLongest == Spec => []LongestMatch
<1>1. LexerInv => LongestMatch
  BY InvLongest
<1> QED
  BY <1>1, TextLexed, PTL

=============================================================================
