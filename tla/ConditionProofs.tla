--------------------------- MODULE ConditionProofs ---------------------------
(***************************************************************************)
(* The tree of every condition means what the precedence says.             *)
(***************************************************************************)
EXTENDS Precedence, LexerProofs

(* Statements about numbers, one after the other.                          *)

LEMMA Upward ==
    ASSUME NEW n \in Nat, NEW S, 0 \in S, \A k \in 0 .. n - 1 : k \in S => k + 1 \in S
    PROVE  \A k \in 0 .. n : k \in S
<1>1. PICK rest : rest = (0 .. n) \ S
  OBVIOUS
<1>2. SUFFICES ASSUME rest # {}
               PROVE  FALSE
  BY <1>1
<1>3. rest \subseteq Nat
  BY <1>1
<1>4. PICK m \in rest : \A k \in rest : m <= k
  BY <1>2, <1>3, LeastNumber
<1>5. m \in 0 .. n /\ m \notin S /\ m # 0
  BY <1>1, <1>4
<1>6. m - 1 \in 0 .. n - 1 /\ m - 1 + 1 = m /\ ~(m <= m - 1)
  BY <1>5
<1>7. m - 1 \in S
  BY <1>1, <1>4, <1>6
<1> QED
  BY <1>5, <1>6, <1>7

LEMMA Backward ==
    ASSUME NEW n \in Nat, NEW S, \A p \in 1 .. n : (\A q \in p + 1 .. n : q \in S) => p \in S
    PROVE  \A p \in 1 .. n : p \in S
<1>1. PICK rest : rest = {k \in 0 .. n - 1 : n - k \notin S}
  OBVIOUS
<1>2. CASE rest = {}
  <2>1. SUFFICES ASSUME NEW p \in 1 .. n
                 PROVE  p \in S
    OBVIOUS
  <2>2. PICK k : k = n - p
    OBVIOUS
  <2>3. k \in 0 .. n - 1 /\ n - k = p
    BY <2>2
  <2> QED
    BY <1>1, <1>2, <2>3
<1>3. CASE rest # {}
  <2>1. rest \subseteq Nat
    BY <1>1
  <2>2. PICK m \in rest : \A k \in rest : m <= k
    BY <1>3, <2>1, LeastNumber
  <2>3. m \in 0 .. n - 1 /\ n - m \notin S /\ n - m \in 1 .. n
    BY <1>1, <2>2
  <2>4. ASSUME NEW q \in n - m + 1 .. n
        PROVE  q \in S
    <3>1. PICK k : k = n - q
      OBVIOUS
    <3>2. k \in 0 .. n - 1 /\ n - k = q /\ ~(m <= k)
      BY <2>3, <3>1
    <3>3. k \notin rest
      BY <2>2, <3>2
    <3> QED
      BY <1>1, <3>2, <3>3
  <2> QED
    BY <2>3, <2>4
<1> QED
  BY <1>2, <1>3

-----------------------------------------------------------------------------
(* Loops.                                                                  *)

\* What is known of the tokens here.
Sequenced == Len(tokens) \in Nat /\ DOMAIN tokens = 1 .. Len(tokens)

LEMMA RoundStops ==
    ASSUME NEW operand, NEW operator, NEW left, ~left.ok \/ Type(left.next) # operator
    PROVE  Round(operand, operator, left) = left
  BY DEF Round, IsOperator

LEMMA RoundFails ==
    ASSUME NEW operand, NEW operator, NEW left, left.ok, Type(left.next) = operator,
           ~operand[left.next + 1].ok
    PROVE  Round(operand, operator, left) = operand[left.next + 1]
  BY DEF Round, IsOperator, Then

LEMMA RoundGoesOn ==
    ASSUME NEW operand, NEW operator, NEW left, left.ok, Type(left.next) = operator,
           NEW right, right = operand[left.next + 1], right.ok
    PROVE  Round(operand, operator, left) =
           Parsed(Logical(left.tree, left.next, right.tree), right.next)
  BY DEF Round, IsOperator, Then

\* The results of the first rounds.
Rounds(operand, operator, p, n, f) ==
    f = [k \in 0 .. n |-> IF k = 0 THEN operand[p] ELSE Round(operand, operator, f[k - 1])]

LEMMA RoundsExist ==
    ASSUME NEW operand, NEW operator, NEW p, NEW n \in Nat
    PROVE  \E f : Rounds(operand, operator, p, n, f)
<1>1. PICK S : S = {k \in 0 .. n : \E f : Rounds(operand, operator, p, k, f)}
  OBVIOUS
<1>2. 0 \in S
  <2>1. PICK f : f = [k \in 0 .. 0 |-> operand[p]]
    OBVIOUS
  <2>2. f = [k \in 0 .. 0 |-> IF k = 0 THEN operand[p] ELSE Round(operand, operator, f[k - 1])]
    BY <2>1
  <2> QED
    BY <1>1, <2>2 DEF Rounds
<1>3. ASSUME NEW k \in 0 .. n - 1, k \in S
      PROVE  k + 1 \in S
  <2>1. PICK f : Rounds(operand, operator, p, k, f)
    BY <1>1, <1>3
  <2>2. PICK g : g = [l \in 0 .. k + 1 |->
                        IF l = k + 1 THEN Round(operand, operator, f[k]) ELSE f[l]]
    OBVIOUS
  <2>3. ASSUME NEW l \in 0 .. k + 1
        PROVE  g[l] = IF l = 0 THEN operand[p] ELSE Round(operand, operator, g[l - 1])
    <3>1. CASE l = k + 1
      BY <2>2, <3>1
    <3>2. CASE l # k + 1
      <4>1. l \in 0 .. k /\ g[l] = f[l] /\ (l # 0 => g[l - 1] = f[l - 1])
        BY <2>2, <3>2
      <4>2. f[l] = IF l = 0 THEN operand[p] ELSE Round(operand, operator, f[l - 1])
        BY <2>1, <4>1, Zenon DEF Rounds
      <4> QED
        BY <4>1, <4>2
    <3> QED
      BY <3>1, <3>2
  <2>4. g = [l \in 0 .. k + 1 |->
               IF l = 0 THEN operand[p] ELSE Round(operand, operator, g[l - 1])]
    BY <2>2, <2>3
  <2>5. Rounds(operand, operator, p, k + 1, g) /\ k + 1 \in 0 .. n
    BY <2>4 DEF Rounds
  <2> QED
    BY <1>1, <2>5
<1>4. n \in S
  BY <1>2, <1>3, Upward
<1> QED
  BY <1>1, <1>4

\* The result of each round, and the last, which is that of the loop.
Looped(operand, operator, p, n, f) ==
    /\ Chain(operand, operator, p) = f[n] /\ f[0] = operand[p]
    /\ \A k \in 0 .. n - 1 : f[k + 1] = Round(operand, operator, f[k])

LEMMA ChainUnfolded ==
    ASSUME Sequenced, NEW operand, NEW operator, NEW p \in Positions,
           NEW n, n = Len(tokens) + 1 - p
    PROVE  \E f : Looped(operand, operator, p, n, f)
<1>1. n \in Nat
  BY DEF Sequenced, Positions
<1>2. \E f : f = [k \in 0 .. n |-> IF k = 0 THEN operand[p] ELSE Round(operand, operator, f[k - 1])]
  <2>1. \E f : Rounds(operand, operator, p, n, f)
    BY <1>1, RoundsExist
  <2> QED
    BY <2>1, Zenon DEF Rounds
<1>3. PICK F : F = CHOOSE f : f = [k \in 0 .. n |-> IF k = 0 THEN operand[p]
                                             ELSE Round(operand, operator, f[k - 1])]
  OBVIOUS
<1>4. F = [k \in 0 .. n |-> IF k = 0 THEN operand[p] ELSE Round(operand, operator, F[k - 1])]
  BY <1>2, <1>3, Zenon
<1>5. Chain(operand, operator, p) = F[n]
  BY <1>3, Zenon DEF Chain
<1>6. 0 \in 0 .. n /\ \A k \in 0 .. n - 1 : k + 1 \in 0 .. n /\ k + 1 # 0 /\ k + 1 - 1 = k
  BY <1>1
<1>7. F[0] = operand[p] /\ \A k \in 0 .. n - 1 : F[k + 1] = Round(operand, operator, F[k])
  <2>1. \A k \in 0 .. n : F[k] = IF k = 0 THEN operand[p] ELSE Round(operand, operator, F[k - 1])
    BY <1>4, Zenon
  <2> QED
    BY <1>6, <2>1
<1> QED
  BY <1>5, <1>7 DEF Looped

\* What F and G have in common from a place on, and that they read on.
Alike(F, G, m) ==
    \A x \in m .. Len(tokens) + 1 :
        F[x] = G[x] /\ (F[x].ok => F[x].next \in x + 1 .. Len(tokens) + 1)

LEMMA ChainsAlike ==
    ASSUME Sequenced, NEW F, NEW G, NEW operator \in {"AND", "OR"}, NEW p \in Positions,
           Alike(F, G, p)
    PROVE  /\ Chain(F, operator, p) = Chain(G, operator, p)
           /\ Chain(F, operator, p).ok =>
                Chain(F, operator, p).next \in p + 1 .. Len(tokens) + 1
<1>1. PICK n : n = Len(tokens) + 1 - p
  OBVIOUS
<1>2. n \in Nat /\ p \in Nat /\ Len(tokens) \in Nat /\ p \in p .. Len(tokens) + 1
  BY <1>1 DEF Sequenced, Positions
<1>3. PICK f : Looped(F, operator, p, n, f)
  BY <1>1, ChainUnfolded
<1>4. PICK g : Looped(G, operator, p, n, g)
  BY <1>1, ChainUnfolded
<1>5. PICK S : S = {k \in 0 .. n : /\ f[k] = g[k]
                                   /\ f[k].ok => f[k].next \in p + 1 .. Len(tokens) + 1}
  OBVIOUS
<1>6. 0 \in S
  BY <1>2, <1>3, <1>4, <1>5 DEF Alike, Looped
<1>7. ASSUME NEW k \in 0 .. n - 1, k \in S
      PROVE  k + 1 \in S
  <2>1. PICK left : left = f[k]
    OBVIOUS
  <2>2. left = g[k] /\ (left.ok => left.next \in p + 1 .. Len(tokens) + 1)
    BY <1>5, <1>7, <2>1
  <2>3. f[k + 1] = Round(F, operator, left) /\ g[k + 1] = Round(G, operator, left)
    BY <1>3, <1>4, <2>1, <2>2 DEF Looped
  <2>4. k + 1 \in 0 .. n
    BY <1>2
  <2>5. CASE ~left.ok \/ Type(left.next) # operator
    <3>1. f[k + 1] = left /\ g[k + 1] = left
      BY <2>3, <2>5, RoundStops
    <3> QED
      BY <1>5, <2>2, <2>4, <3>1
  <2>6. CASE left.ok /\ Type(left.next) = operator
    <3>1. left.next \in p + 1 .. Len(tokens)
      BY <1>2, <2>2, <2>6 DEF Type, Sequenced
    <3>2. PICK x : x = left.next + 1
      OBVIOUS
    <3>3. x \in p .. Len(tokens) + 1
      BY <1>2, <3>1, <3>2
    <3>4. PICK right : right = F[x]
      OBVIOUS
    <3>5. right = G[x] /\ (right.ok => right.next \in x + 1 .. Len(tokens) + 1)
      BY <3>3, <3>4 DEF Alike
    <3>6. CASE ~right.ok
      <4>1. f[k + 1] = right /\ g[k + 1] = right
        BY <2>3, <2>6, <3>2, <3>4, <3>5, <3>6, RoundFails
      <4> QED
        BY <1>5, <2>4, <3>6, <4>1
    <3>7. CASE right.ok
      <4>1. PICK joined : joined = Parsed(Logical(left.tree, left.next, right.tree), right.next)
        OBVIOUS
      <4>2. f[k + 1] = joined
        BY <2>3, <2>6, <3>2, <3>4, <3>7, <4>1, RoundGoesOn
      <4>3. g[k + 1] = joined
        BY <2>3, <2>6, <3>2, <3>5, <3>7, <4>1, RoundGoesOn
      <4>4. joined.next = right.next
        BY <4>1 DEF Parsed
      <4>5. right.next \in p + 1 .. Len(tokens) + 1
        BY <1>2, <3>3, <3>5, <3>7
      <4> QED
        BY <1>5, <2>4, <4>2, <4>3, <4>4, <4>5
    <3> QED
      BY <3>6, <3>7
  <2> QED
    BY <2>5, <2>6
<1>8. n \in S
  <2>1. n \in Nat /\ n \in 0 .. n
    BY <1>2
  <2>2. \A k \in 0 .. n : k \in S
    BY <1>6, <1>7, <2>1, Upward
  <2> QED
    BY <2>1, <2>2
<1> QED
  BY <1>3, <1>4, <1>5, <1>8 DEF Looped

-----------------------------------------------------------------------------
(* Comparisons.                                                            *)

LEMMA TypesEnd ==
    ASSUME NEW k, Type(k) # "EOF"
    PROVE  k \in DOMAIN tokens
  BY DEF Type

\* From p to q - 1 there are only parts of a comparison.
Plain(p, q) ==
    \A k \in p .. q - 1 : k \in DOMAIN tokens /\ Type(k) \notin {"(", ")", "AND", "OR"}

LEMMA AtomRead ==
    ASSUME Sequenced, NEW p \in Positions, NEW atom, atom = Atom(p), atom.ok
    PROVE  /\ atom.next \in p + 1 .. Len(tokens) + 1
           /\ Plain(p, atom.next)
           /\ atom.tree.first = p
           /\ atom.tree.kind \in {"identifier", "literal"}
<1>1. p \in Nat /\ Len(tokens) \in Nat
  BY DEF Sequenced, Positions
<1>2. \A k \in Nat : Type(k) # "EOF" => k \in DOMAIN tokens /\ k <= Len(tokens)
  BY TypesEnd DEF Sequenced
<1>3. CASE Type(p) = "IDENTIFIER" /\ Type(p + 1) = "."
  <2>1. atom = IF Type(p + 2) = "IDENTIFIER"
               THEN Parsed(Leaf("identifier", p, p + 2), p + 3) ELSE Failed(p + 2)
    BY <1>3 DEF Atom, TypedLiteral
  <2>2. Type(p + 2) = "IDENTIFIER"
    BY <2>1 DEF Failed
  <2>3. atom = Parsed(Leaf("identifier", p, p + 2), p + 3)
    BY <2>1, <2>2
  <2>4. atom.next = p + 3 /\ atom.tree.first = p /\ atom.tree.kind = "identifier"
    BY <2>3 DEF Parsed, Leaf
  <2> QED
    BY <1>1, <1>2, <1>3, <2>2, <2>4 DEF Plain
<1>4. CASE Type(p) = "IDENTIFIER" /\ Type(p + 1) # "."
  <2>1. atom = Parsed(Leaf("identifier", p, p), p + 1)
    BY <1>4 DEF Atom, TypedLiteral
  <2>2. atom.next = p + 1 /\ atom.tree.first = p /\ atom.tree.kind = "identifier"
    BY <2>1 DEF Parsed, Leaf
  <2> QED
    BY <1>1, <1>2, <1>4, <2>2 DEF Plain
<1>5. CASE Type(p) \in TypedLiteral
  <2>1. atom = IF Type(p + 1) # "STRING" THEN Parsed(Lowered(p, p), p + 1)
               ELSE IF Validated(p) THEN Parsed(Leaf("literal", p, p + 1), p + 2)
               ELSE Failed(p + 1)
    BY <1>5 DEF Atom, TypedLiteral
  <2>2. CASE Type(p + 1) # "STRING"
    <3>1. atom = Parsed(Lowered(p, p), p + 1)
      BY <2>1, <2>2
    <3>2. atom.next = p + 1 /\ atom.tree.first = p /\ atom.tree.kind = "identifier"
      BY <3>1 DEF Parsed, Lowered
    <3> QED
      BY <1>1, <1>2, <1>5, <3>2 DEF Plain, TypedLiteral
  <2>3. CASE Type(p + 1) = "STRING"
    <3>1. Validated(p)
      BY <2>1, <2>3 DEF Failed
    <3>2. atom = Parsed(Leaf("literal", p, p + 1), p + 2)
      BY <2>1, <2>3, <3>1
    <3>3. atom.next = p + 2 /\ atom.tree.first = p /\ atom.tree.kind = "literal"
      BY <3>2 DEF Parsed, Leaf
    <3> QED
      BY <1>1, <1>2, <1>5, <2>3, <3>3 DEF Plain, TypedLiteral
  <2> QED
    BY <2>2, <2>3
<1>6. CASE Type(p) \in {"STRING", "NUMBER", "TRUE", "FALSE"}
  <2>1. atom = Parsed(Leaf("literal", p, p), p + 1)
    BY <1>6 DEF Atom, TypedLiteral
  <2>2. atom.next = p + 1 /\ atom.tree.first = p /\ atom.tree.kind = "literal"
    BY <2>1 DEF Parsed, Leaf
  <2> QED
    BY <1>1, <1>2, <1>6, <2>2 DEF Plain
<1>7. CASE /\ Type(p) \notin TypedLiteral
           /\ Type(p) \notin {"IDENTIFIER", "STRING", "NUMBER", "TRUE", "FALSE"}
  <2>1. atom = Failed(p)
    BY <1>7 DEF Atom
  <2> QED
    BY <2>1 DEF Failed
<1> QED
  BY <1>3, <1>4, <1>5, <1>6, <1>7

\* A node that is a comparison, or a part of one, which begins at p.
Compares(node, p) ==
    \/ node.kind = "binary" /\ node.left.first = p
    \/ node.kind \in {"identifier", "literal"} /\ node.first = p

LEMMA ComparisonRead ==
    ASSUME Sequenced, NEW p \in Positions, NEW result, result = Comparison(p), result.ok
    PROVE  /\ result.next \in p + 1 .. Len(tokens) + 1
           /\ Plain(p, result.next)
           /\ \E id \in p .. result.next - 1 : \E node :
                result.tree = Tree(id, node) /\ Compares(node, p)
<1>1. p \in Nat /\ Len(tokens) \in Nat
  BY DEF Sequenced, Positions
<1>2. PICK left : left = Atom(p)
  OBVIOUS
<1>3. left.ok
  BY <1>2 DEF Comparison, Then
<1>4. /\ left.next \in p + 1 .. Len(tokens) + 1 /\ Plain(p, left.next)
      /\ left.tree.first = p /\ left.tree.kind \in {"identifier", "literal"}
  BY <1>2, <1>3, AtomRead
<1>5. CASE Type(left.next) \notin ComparisonOperator
  <2>1. result = Parsed(Tree(left.tree.first, left.tree), left.next)
    BY <1>2, <1>3, <1>5 DEF Comparison, Then
  <2>2. result.next = left.next /\ result.tree = Tree(p, left.tree)
    BY <1>4, <2>1 DEF Parsed
  <2>3. p \in p .. result.next - 1 /\ Compares(left.tree, p)
    BY <1>1, <1>4, <2>2 DEF Compares
  <2> QED
    BY <1>4, <2>2, <2>3
<1>6. CASE Type(left.next) \in ComparisonOperator
  <2>1. PICK q : q = left.next
    OBVIOUS
  <2>2. q \in DOMAIN tokens /\ Type(q) \notin {"(", ")", "AND", "OR"}
    BY <1>6, <2>1, TypesEnd DEF ComparisonOperator
  <2>3. q \in p + 1 .. Len(tokens) /\ q + 1 \in Positions
    BY <1>1, <1>4, <2>1, <2>2 DEF Sequenced, Positions
  <2>4. PICK right : right = Atom(q + 1)
    OBVIOUS
  <2>5. result = Then(right, LAMBDA tree, r : Parsed(Binary(left.tree, q, tree), r))
    BY <1>2, <1>3, <1>6, <2>1, <2>4 DEF Comparison, Then
  <2>6. right.ok
    BY <2>5 DEF Then
  <2>7. result = Parsed(Binary(left.tree, q, right.tree), right.next)
    BY <2>5, <2>6 DEF Then
  <2>8. right.next \in q + 2 .. Len(tokens) + 1 /\ Plain(q + 1, right.next)
    BY <1>1, <2>3, <2>4, <2>6, AtomRead
  <2>9. PICK node : node = [kind |-> "binary", left |-> left.tree, right |-> right.tree]
    OBVIOUS
  <2>10. result.next = right.next /\ result.tree = Tree(q, node)
    BY <2>7, <2>9 DEF Parsed, Binary
  <2>11. Compares(node, p)
    BY <1>4, <2>9 DEF Compares
  <2>12. q \in p .. result.next - 1 /\ result.next \in p + 1 .. Len(tokens) + 1
    BY <1>1, <2>3, <2>8, <2>10
  <2>13. Plain(p, result.next)
    <3>1. SUFFICES ASSUME NEW k \in p .. result.next - 1
                   PROVE  k \in DOMAIN tokens /\ Type(k) \notin {"(", ")", "AND", "OR"}
      BY DEF Plain
    <3>2. \/ k \in p .. left.next - 1
          \/ k = q
          \/ k \in q + 1 .. right.next - 1
      BY <1>1, <1>4, <2>1, <2>3, <2>8, <2>10
    <3> QED
      BY <1>4, <2>2, <2>8, <3>2 DEF Plain
  <2> QED
    BY <2>10, <2>11, <2>12, <2>13
<1> QED
  BY <1>5, <1>6

LEMMA TermsAlike ==
    ASSUME Sequenced, NEW e, NEW g, NEW p \in Positions, Alike(e, g, p + 1)
    PROVE  /\ Term(e, p) = Term(g, p)
           /\ Term(e, p).ok => Term(e, p).next \in p + 1 .. Len(tokens) + 1
<1>1. p \in Nat /\ Len(tokens) \in Nat
  BY DEF Sequenced, Positions
<1>2. CASE Type(p) # "("
  <2>1. Term(e, p) = Comparison(p) /\ Term(g, p) = Comparison(p)
    BY <1>2, Zenon DEF Term
  <2> QED
    BY <2>1, ComparisonRead
<1>3. CASE Type(p) = "("
  <2>1. p \in 1 .. Len(tokens)
    BY <1>1, <1>3 DEF Type, Sequenced, Positions
  <2>2. PICK inner : inner = e[p + 1]
    OBVIOUS
  <2>3. inner = g[p + 1] /\ (inner.ok => inner.next \in p + 2 .. Len(tokens) + 1)
    BY <1>1, <2>1, <2>2 DEF Alike
  <2>4. CASE ~inner.ok
    BY <1>3, <2>2, <2>3, <2>4 DEF Term, Then
  <2>5. CASE inner.ok /\ Type(inner.next) # ")"
    <3>1. Term(e, p) = Failed(inner.next) /\ Term(g, p) = Failed(inner.next)
      BY <1>3, <2>2, <2>3, <2>5 DEF Term, Then
    <3> QED
      BY <3>1 DEF Failed
  <2>6. CASE inner.ok /\ Type(inner.next) = ")"
    <3>1. Term(e, p) = Parsed(inner.tree, inner.next + 1)
      BY <1>3, <2>2, <2>6 DEF Term, Then
    <3>2. Term(g, p) = Parsed(inner.tree, inner.next + 1)
      BY <1>3, <2>3, <2>6 DEF Term, Then
    <3>3. inner.next \in p + 1 .. Len(tokens)
      BY <1>1, <2>3, <2>6 DEF Type, Sequenced
    <3>4. Term(e, p).next = inner.next + 1
      BY <3>1 DEF Parsed
    <3> QED
      BY <1>1, <3>1, <3>2, <3>3, <3>4
  <2> QED
    BY <2>4, <2>5, <2>6
<1> QED
  BY <1>2, <1>3

-----------------------------------------------------------------------------
(* Expressions in parentheses.                                             *)

LEMMA ExpressionsAlike ==
    ASSUME Sequenced, NEW e, NEW g, NEW p \in Positions, Alike(e, g, p + 1)
    PROVE  /\ OrExpression(e, p) = OrExpression(g, p)
           /\ OrExpression(e, p).ok => OrExpression(e, p).next \in p + 1 .. Len(tokens) + 1
<1>1. p \in Nat /\ Len(tokens) \in Nat
  BY DEF Sequenced, Positions
<1>2. ASSUME NEW x \in p .. Len(tokens) + 1
      PROVE  /\ x \in Positions
             /\ Alike(e, g, x + 1)
  BY <1>1 DEF Positions, Alike
<1>3. Alike(Terms(e), Terms(g), p)
  <2>1. SUFFICES ASSUME NEW x \in p .. Len(tokens) + 1
                 PROVE  /\ Terms(e)[x] = Terms(g)[x]
                        /\ Terms(e)[x].ok => Terms(e)[x].next \in x + 1 .. Len(tokens) + 1
    BY DEF Alike
  <2>2. x \in Positions /\ Alike(e, g, x + 1)
    BY <1>2
  <2>3. Terms(e)[x] = Term(e, x) /\ Terms(g)[x] = Term(g, x)
    BY <2>2 DEF Terms
  <2> QED
    BY <2>2, <2>3, TermsAlike
<1>4. ASSUME NEW x \in p .. Len(tokens) + 1
      PROVE  Alike(Terms(e), Terms(g), x)
  BY <1>1, <1>3 DEF Alike
<1>5. Alike(AndExpressions(e), AndExpressions(g), p)
  <2>1. SUFFICES ASSUME NEW x \in p .. Len(tokens) + 1
                 PROVE  /\ AndExpressions(e)[x] = AndExpressions(g)[x]
                        /\ AndExpressions(e)[x].ok =>
                             AndExpressions(e)[x].next \in x + 1 .. Len(tokens) + 1
    BY DEF Alike
  <2>2. x \in Positions /\ Alike(Terms(e), Terms(g), x)
    BY <1>2, <1>4
  <2>3. /\ AndExpressions(e)[x] = Chain(Terms(e), "AND", x)
        /\ AndExpressions(g)[x] = Chain(Terms(g), "AND", x)
    BY <2>2 DEF AndExpressions
  <2> QED
    BY <2>2, <2>3, ChainsAlike
<1> QED
  BY <1>5, ChainsAlike DEF OrExpression

Advances(e, m) ==
    \A x \in m .. Len(tokens) + 1 : e[x].ok => e[x].next \in x + 1 .. Len(tokens) + 1

SolvesFrom(e, m) ==
    /\ e = [p \in m .. Len(tokens) + 1 |-> OrExpression(e, p)]
    /\ Advances(e, m)

LEMMA SolvedBefore ==
    ASSUME Sequenced, NEW m \in Positions, NEW e, SolvesFrom(e, m + 1)
    PROVE  \E g : SolvesFrom(g, m)
<1>1. m \in Nat /\ Len(tokens) \in Nat
  BY DEF Sequenced, Positions
<1>2. PICK g : g = [p \in m .. Len(tokens) + 1 |-> IF p = m THEN OrExpression(e, m) ELSE e[p]]
  OBVIOUS
<1>3. \A p \in m + 1 .. Len(tokens) + 1 : e[p] = g[p]
  BY <1>1, <1>2
<1>4. Alike(e, g, m + 1)
  BY <1>3 DEF Alike, SolvesFrom, Advances
<1>5. ASSUME NEW p \in m .. Len(tokens) + 1
      PROVE  /\ g[p] = OrExpression(g, p)
             /\ g[p].ok => g[p].next \in p + 1 .. Len(tokens) + 1
  <2>1. p \in Positions
    BY <1>1 DEF Positions
  <2>2. Alike(e, g, p + 1)
    BY <1>1, <1>4 DEF Alike
  <2>3. /\ OrExpression(e, p) = OrExpression(g, p)
        /\ OrExpression(e, p).ok => OrExpression(e, p).next \in p + 1 .. Len(tokens) + 1
    BY <2>1, <2>2, ExpressionsAlike
  <2>4. g[p] = OrExpression(e, p)
    <3>1. CASE p = m
      BY <1>2, <3>1
    <3>2. CASE p # m
      <4>1. p \in m + 1 .. Len(tokens) + 1
        BY <1>1, <3>2
      <4>2. e[p] = OrExpression(e, p)
        BY <4>1, Zenon DEF SolvesFrom
      <4> QED
        BY <1>3, <4>1, <4>2
    <3> QED
      BY <3>1, <3>2
  <2> QED
    BY <2>3, <2>4
<1>6. g = [p \in m .. Len(tokens) + 1 |-> OrExpression(g, p)]
  BY <1>2, <1>5
<1> QED
  BY <1>5, <1>6 DEF SolvesFrom, Advances

LEMMA ExpressionsExist ==
    ASSUME Sequenced
    PROVE  \E e : SolvesFrom(e, 1)
<1>1. Len(tokens) \in Nat
  BY DEF Sequenced
<1>2. PICK S : S = {n \in 0 .. Len(tokens) + 1 : \E e : SolvesFrom(e, Len(tokens) + 2 - n)}
  OBVIOUS
<1>3. 0 \in S
  <2>1. PICK e : e = [p \in {} |-> 0]
    OBVIOUS
  <2>2. Len(tokens) + 2 - 0 .. Len(tokens) + 1 = {}
    BY <1>1
  <2>3. e = [p \in Len(tokens) + 2 - 0 .. Len(tokens) + 1 |-> OrExpression(e, p)]
    BY <2>1, <2>2
  <2>4. SolvesFrom(e, Len(tokens) + 2 - 0)
    BY <2>2, <2>3 DEF SolvesFrom, Advances
  <2> QED
    BY <1>1, <1>2, <2>4
<1>4. ASSUME NEW n \in 0 .. Len(tokens) + 1 - 1, n \in S
      PROVE  n + 1 \in S
  <2>1. PICK e : SolvesFrom(e, Len(tokens) + 2 - n)
    BY <1>2, <1>4
  <2>2. PICK m : m = Len(tokens) + 2 - (n + 1)
    OBVIOUS
  <2>3. m \in Positions /\ m + 1 = Len(tokens) + 2 - n /\ n + 1 \in 0 .. Len(tokens) + 1
    BY <1>1, <2>2 DEF Positions
  <2>4. SolvesFrom(e, m + 1)
    BY <2>1, <2>3
  <2>5. \E g : SolvesFrom(g, m)
    BY <2>3, <2>4, SolvedBefore
  <2> QED
    BY <1>2, <2>2, <2>3, <2>5
<1>5. Len(tokens) + 1 \in S
  <2>1. PICK n : n = Len(tokens) + 1
    OBVIOUS
  <2>2. n \in Nat /\ n \in 0 .. n
    BY <1>1, <2>1
  <2>3. \A k \in 0 .. n - 1 : k \in S => k + 1 \in S
    BY <1>4, <2>1
  <2>4. \A k \in 0 .. n : k \in S
    BY <1>3, <2>2, <2>3, Upward
  <2> QED
    BY <2>1, <2>2, <2>4
<1>6. Len(tokens) + 2 - (Len(tokens) + 1) = 1
  BY <1>1
<1> QED
  BY <1>2, <1>5, <1>6

LEMMA ExpressionsUnfolded ==
    ASSUME Sequenced
    PROVE  \A p \in Positions : Expressions[p] = OrExpression(Expressions, p)
<1>1. \E f : f = [p \in Positions |-> OrExpression(f, p)]
  BY ExpressionsExist DEF SolvesFrom, Positions
<1>2. PICK F : F = CHOOSE f : f = [p \in Positions |-> OrExpression(f, p)]
  OBVIOUS
<1>3. F = [p \in Positions |-> OrExpression(F, p)]
  BY <1>1, <1>2, Zenon
<1>4. Expressions = F
  BY <1>2, Zenon DEF Expressions
<1> QED
  BY <1>3, <1>4, Zenon

-----------------------------------------------------------------------------
(* Trees.                                                                  *)

\* The rows for which a node is true, when f has those of its children.
NodeRows(tree, rows, f, id) ==
    LET node == tree.nodes[id]
    IN  CASE node.kind = "logical" /\ Type(id) = "AND" -> f[node.left] \cap f[node.right]
          [] node.kind = "logical" /\ Type(id) # "AND" -> f[node.left] \cup f[node.right]
          [] node.kind = "binary" -> {row \in rows : node.left.first \in row}
          [] OTHER -> {row \in rows : node.first \in row}

Valuation(tree, rows, f) == f = [id \in DOMAIN tree.nodes |-> NodeRows(tree, rows, f, id)]

Rooted(tree) ==
    /\ tree.root \in DOMAIN tree.nodes
    /\ \A id \in DOMAIN tree.nodes :
         tree.nodes[id].kind = "logical" =>
           tree.nodes[id].left \in DOMAIN tree.nodes /\ tree.nodes[id].right \in DOMAIN tree.nodes

\* The rows that a tree selects are S, whatever function Selected chooses.
Selects(tree, rows, S) ==
    /\ \E f : Valuation(tree, rows, f)
    /\ \A f : Valuation(tree, rows, f) => f[tree.root] = S

LEMMA SelectedRows ==
    ASSUME NEW tree, NEW rows, NEW S, Selects(tree, rows, S)
    PROVE  Selected(tree, rows) = S
<1>1. \E f : f = [id \in DOMAIN tree.nodes |-> NodeRows(tree, rows, f, id)]
  BY Zenon DEF Selects, Valuation
<1>2. PICK F : F = CHOOSE f : f = [id \in DOMAIN tree.nodes |-> NodeRows(tree, rows, f, id)]
  OBVIOUS
<1>3. F = [id \in DOMAIN tree.nodes |-> NodeRows(tree, rows, F, id)]
  BY <1>1, <1>2, Zenon
<1>4. Selected(tree, rows) = F[tree.root]
  BY <1>2, Zenon DEF Selected, NodeRows
<1> QED
  BY <1>3, <1>4, Zenon DEF Selects, Valuation

LEMMA SameNode ==
    ASSUME NEW tree, NEW other, NEW rows, NEW f, NEW g, NEW id,
           tree.nodes[id] = other.nodes[id],
           tree.nodes[id].kind = "logical" =>
             /\ f[tree.nodes[id].left] = g[tree.nodes[id].left]
             /\ f[tree.nodes[id].right] = g[tree.nodes[id].right]
    PROVE  NodeRows(tree, rows, f, id) = NodeRows(other, rows, g, id)
<1>1. PICK node : node = tree.nodes[id]
  OBVIOUS
<1>2. node = other.nodes[id]
  BY <1>1
<1>3. CASE node.kind = "logical"
  <2>1. f[node.left] = g[node.left] /\ f[node.right] = g[node.right]
    BY <1>1, <1>3
  <2> QED
    BY <1>1, <1>2, <1>3, <2>1 DEF NodeRows
<1>4. CASE node.kind # "logical"
  BY <1>1, <1>2, <1>4 DEF NodeRows
<1> QED
  BY <1>3, <1>4

\* The rows of which the comparison that begins at p is true.
TrueOf(p, rows) == {row \in rows : p \in row}

LEMMA ComparisonTree ==
    ASSUME NEW id, NEW p, NEW node, Compares(node, p), NEW rows,
           NEW tree, tree = Tree(id, node)
    PROVE  /\ Rooted(tree) /\ \A k \in DOMAIN tree.nodes : k = id
           /\ Selects(tree, rows, TrueOf(p, rows))
<1>0. PICK S : S = TrueOf(p, rows)
  OBVIOUS
<1>1. tree.root = id /\ DOMAIN tree.nodes = {id} /\ tree.nodes[id] = node
  BY DEF Tree
<1>2. ASSUME NEW f
      PROVE  NodeRows(tree, rows, f, id) = S
  <2>1. CASE node.kind = "binary" /\ node.left.first = p
    BY <1>0, <1>1, <2>1 DEF NodeRows, TrueOf
  <2>2. CASE node.kind \in {"identifier", "literal"} /\ node.first = p
    BY <1>0, <1>1, <2>2 DEF NodeRows, TrueOf
  <2> QED
    BY <2>1, <2>2 DEF Compares
<1>3. PICK f : f = [k \in {id} |-> S]
  OBVIOUS
<1>4. Valuation(tree, rows, f)
  BY <1>1, <1>2, <1>3 DEF Valuation
<1>5. ASSUME NEW g, Valuation(tree, rows, g)
      PROVE  g[tree.root] = S
  <2>1. g[id] = NodeRows(tree, rows, g, id)
    BY <1>1, <1>5, Zenon DEF Valuation
  <2> QED
    BY <1>1, <1>2, <2>1
<1>6. Rooted(tree)
  BY <1>1 DEF Rooted, Compares
<1> QED
  BY <1>0, <1>1, <1>4, <1>5, <1>6 DEF Selects

\* No two nodes have one name.
Joinable(left, id, right) ==
    /\ Rooted(left) /\ Rooted(right)
    /\ id \notin DOMAIN left.nodes /\ id \notin DOMAIN right.nodes
    /\ DOMAIN left.nodes \cap DOMAIN right.nodes = {}

\* What is in a tree that joins two.
Nodes(tree, left, id, right) ==
    /\ tree.root = id
    /\ DOMAIN tree.nodes = {id} \cup DOMAIN left.nodes \cup DOMAIN right.nodes
    /\ tree.nodes[id] = [kind |-> "logical", left |-> left.root, right |-> right.root]
    /\ \A k \in DOMAIN left.nodes : tree.nodes[k] = left.nodes[k]
    /\ \A k \in DOMAIN right.nodes : tree.nodes[k] = right.nodes[k]

LEMMA JoinedTree ==
    ASSUME NEW left, NEW right, NEW id, Joinable(left, id, right),
           NEW tree, tree = Logical(left, id, right)
    PROVE  Rooted(tree) /\ Nodes(tree, left, id, right)
<1> USE DEF Joinable
<1>1. /\ tree.root = id
      /\ tree.nodes = [k \in {id} \cup DOMAIN left.nodes \cup DOMAIN right.nodes |->
                  IF k = id
                  THEN [kind |-> "logical", left |-> left.root, right |-> right.root]
                  ELSE IF k \in DOMAIN left.nodes THEN left.nodes[k] ELSE right.nodes[k]]
  BY DEF Logical
<1>2. /\ DOMAIN tree.nodes = {id} \cup DOMAIN left.nodes \cup DOMAIN right.nodes
      /\ tree.nodes[id] = [kind |-> "logical", left |-> left.root, right |-> right.root]
  BY <1>1
<1>3. \A k \in DOMAIN left.nodes : tree.nodes[k] = left.nodes[k]
  BY <1>1
<1>4. \A k \in DOMAIN right.nodes : tree.nodes[k] = right.nodes[k]
  BY <1>1
<1>5. Rooted(tree)
  <2>1. SUFFICES ASSUME NEW k \in DOMAIN tree.nodes, tree.nodes[k].kind = "logical"
                 PROVE  /\ tree.nodes[k].left \in DOMAIN tree.nodes
                        /\ tree.nodes[k].right \in DOMAIN tree.nodes
    BY <1>1, <1>2 DEF Rooted
  <2>2. CASE k = id
    BY <1>2, <2>2 DEF Rooted
  <2>3. CASE k \in DOMAIN left.nodes
    BY <1>2, <1>3, <2>1, <2>3 DEF Rooted
  <2>4. CASE k \in DOMAIN right.nodes
    BY <1>2, <1>4, <2>1, <2>4 DEF Rooted
  <2> QED
    BY <1>2, <2>2, <2>3, <2>4
<1> QED
  BY <1>1, <1>2, <1>3, <1>4, <1>5 DEF Nodes

Within(part, tree) ==
    \A k \in DOMAIN part.nodes : k \in DOMAIN tree.nodes /\ tree.nodes[k] = part.nodes[k]

\* A valuation of a tree is one of each tree in it.
LEMMA PartValued ==
    ASSUME NEW tree, NEW part, NEW rows, NEW f, Valuation(tree, rows, f), Rooted(part),
           Within(part, tree), NEW S, Selects(part, rows, S)
    PROVE  f[part.root] = S
<1>1. PICK g : g = [k \in DOMAIN part.nodes |-> f[k]]
  OBVIOUS
<1>2. ASSUME NEW k \in DOMAIN part.nodes
      PROVE  g[k] = NodeRows(part, rows, g, k)
  <2>1. f[k] = NodeRows(tree, rows, f, k)
    BY Zenon DEF Valuation, Within
  <2>2. tree.nodes[k] = part.nodes[k]
    BY DEF Within
  <2>3. tree.nodes[k].kind = "logical" =>
           /\ f[tree.nodes[k].left] = g[tree.nodes[k].left]
           /\ f[tree.nodes[k].right] = g[tree.nodes[k].right]
    BY <1>1, <2>2 DEF Rooted
  <2>4. NodeRows(tree, rows, f, k) = NodeRows(part, rows, g, k)
    BY <2>2, <2>3, SameNode
  <2> QED
    BY <1>1, <2>1, <2>4
<1>3. Valuation(part, rows, g)
  BY <1>1, <1>2 DEF Valuation
<1>4. g[part.root] = S /\ part.root \in DOMAIN part.nodes
  BY <1>3 DEF Selects, Rooted
<1> QED
  BY <1>1, <1>4

LEMMA JoinedSelects ==
    ASSUME NEW left, NEW right, NEW id, Joinable(left, id, right),
           NEW tree, tree = Logical(left, id, right), NEW rows, NEW L, Selects(left, rows, L), NEW R, Selects(right, rows, R),
           NEW S, S = IF Type(id) = "AND" THEN L \cap R ELSE L \cup R
    PROVE  Selects(tree, rows, S)
<1>1. /\ Rooted(tree) /\ tree.root = id
      /\ DOMAIN tree.nodes = {id} \cup DOMAIN left.nodes \cup DOMAIN right.nodes
      /\ tree.nodes[id] = [kind |-> "logical", left |-> left.root, right |-> right.root]
      /\ \A k \in DOMAIN left.nodes : tree.nodes[k] = left.nodes[k]
      /\ \A k \in DOMAIN right.nodes : tree.nodes[k] = right.nodes[k]
  BY JoinedTree DEF Nodes
<1> Rooted(left) /\ Rooted(right) /\ DOMAIN left.nodes \cap DOMAIN right.nodes = {}
  BY DEF Joinable
<1> id \notin DOMAIN left.nodes /\ id \notin DOMAIN right.nodes
  BY DEF Joinable
<1>2. ASSUME NEW f, f[left.root] = L, f[right.root] = R
      PROVE  NodeRows(tree, rows, f, id) = S
  <2>1. PICK node : node = tree.nodes[id]
    OBVIOUS
  <2>2. node.kind = "logical" /\ f[node.left] = L /\ f[node.right] = R
    BY <1>1, <1>2, <2>1
  <2>3. CASE Type(id) = "AND"
    BY <2>1, <2>2, <2>3 DEF NodeRows
  <2>4. CASE Type(id) # "AND"
    BY <2>1, <2>2, <2>4 DEF NodeRows
  <2> QED
    BY <2>3, <2>4
<1>3. PICK f : Valuation(left, rows, f)
  BY DEF Selects
<1>4. PICK g : Valuation(right, rows, g)
  BY DEF Selects
<1>5. f[left.root] = L /\ g[right.root] = R
  BY <1>3, <1>4 DEF Selects
<1>6. PICK h : h = [k \in DOMAIN tree.nodes |->
                      IF k = id THEN S ELSE IF k \in DOMAIN left.nodes THEN f[k] ELSE g[k]]
  OBVIOUS
<1>7. h[id] = S
  BY <1>1, <1>6
<1>8. \A k \in DOMAIN left.nodes : h[k] = f[k]
  BY <1>1, <1>6
<1>9. \A k \in DOMAIN right.nodes : h[k] = g[k]
  BY <1>1, <1>6
<1>10. ASSUME NEW k \in DOMAIN tree.nodes
       PROVE  h[k] = NodeRows(tree, rows, h, k)
  <2>1. CASE k = id
    <3>1. h[left.root] = L /\ h[right.root] = R
      BY <1>5, <1>8, <1>9 DEF Rooted
    <3> QED
      BY <1>2, <1>7, <2>1, <3>1
  <2>2. CASE k \in DOMAIN left.nodes
    <3>1. h[k] = NodeRows(left, rows, f, k)
      BY <1>3, <1>8, <2>2, Zenon DEF Valuation
    <3>2. left.nodes[k] = tree.nodes[k]
      BY <1>1, <2>2
    <3>3. left.nodes[k].kind = "logical" =>
             /\ f[left.nodes[k].left] = h[left.nodes[k].left]
             /\ f[left.nodes[k].right] = h[left.nodes[k].right]
      BY <1>8, <2>2 DEF Rooted
    <3>4. NodeRows(left, rows, f, k) = NodeRows(tree, rows, h, k)
      BY <3>2, <3>3, SameNode
    <3> QED
      BY <3>1, <3>4
  <2>3. CASE k \in DOMAIN right.nodes
    <3>1. h[k] = NodeRows(right, rows, g, k)
      BY <1>4, <1>9, <2>3, Zenon DEF Valuation
    <3>2. right.nodes[k] = tree.nodes[k]
      BY <1>1, <2>3
    <3>3. right.nodes[k].kind = "logical" =>
             /\ g[right.nodes[k].left] = h[right.nodes[k].left]
             /\ g[right.nodes[k].right] = h[right.nodes[k].right]
      BY <1>9, <2>3 DEF Rooted
    <3>4. NodeRows(right, rows, g, k) = NodeRows(tree, rows, h, k)
      BY <3>2, <3>3, SameNode
    <3> QED
      BY <3>1, <3>4
  <2> QED
    BY <1>1, <2>1, <2>2, <2>3
<1>11. Valuation(tree, rows, h)
  BY <1>6, <1>10 DEF Valuation
<1>12. ASSUME NEW v, Valuation(tree, rows, v)
       PROVE  v[tree.root] = S
  <2>1. v[left.root] = L
    <3>1. Within(left, tree)
      BY <1>1 DEF Within
    <3> QED
      BY <1>12, <3>1, PartValued
  <2>2. v[right.root] = R
    <3>1. Within(right, tree)
      BY <1>1 DEF Within
    <3> QED
      BY <1>12, <3>1, PartValued
  <2>3. v[id] = NodeRows(tree, rows, v, id)
    BY <1>1, <1>12, Zenon DEF Valuation
  <2> QED
    BY <1>1, <1>2, <2>1, <2>2, <2>3
<1> QED
  BY <1>11, <1>12 DEF Selects

-----------------------------------------------------------------------------
(* Parentheses.                                                            *)

Until(k, type) == {i \in 1 .. k : Type(i) = type}

LEMMA OneMore ==
    ASSUME NEW k \in Nat, NEW type, NEW S, S = Until(k, type), NEW T, T = Until(k + 1, type)
    PROVE  /\ Cardinality(S) \in Nat /\ Cardinality(T) \in Nat
           /\ Cardinality(T) = IF Type(k + 1) = type THEN Cardinality(S) + 1 ELSE Cardinality(S)
<1> USE DEF Until
<1>1. IsFiniteSet(1 .. k)
  BY FS_Interval
<1>2. IsFiniteSet(S)
  BY <1>1, FS_Subset
<1>3. Cardinality(S) \in Nat
  BY <1>2, FS_CardinalityType
<1>4. CASE Type(k + 1) = type
  <2>1. T = S \cup {k + 1} /\ k + 1 \notin S
    BY <1>4
  <2>2. Cardinality(T) = Cardinality(S) + 1
    BY <1>2, <2>1, FS_AddElement
  <2> QED
    BY <1>3, <1>4, <2>2
<1>5. CASE Type(k + 1) # type
  <2>1. T = S
    BY <1>5
  <2> QED
    BY <1>3, <1>5, <2>1
<1> QED
  BY <1>4, <1>5

LEMMA DepthNext ==
    ASSUME NEW k \in Nat
    PROVE  /\ Depth(k) \in Int /\ Depth(k + 1) \in Int
           /\ Type(k + 1) = "(" => Depth(k + 1) = Depth(k) + 1
           /\ Type(k + 1) = ")" => Depth(k + 1) = Depth(k) - 1
           /\ Type(k + 1) \notin {"(", ")"} => Depth(k + 1) = Depth(k)
<1>1. PICK opens : opens = Until(k, "(")
  OBVIOUS
<1>2. PICK closes : closes = Until(k, ")")
  OBVIOUS
<1>3. PICK opens1 : opens1 = Until(k + 1, "(")
  OBVIOUS
<1>4. PICK closes1 : closes1 = Until(k + 1, ")")
  OBVIOUS
<1>5. /\ Cardinality(opens) \in Nat /\ Cardinality(opens1) \in Nat
      /\ Cardinality(opens1) =
           IF Type(k + 1) = "(" THEN Cardinality(opens) + 1 ELSE Cardinality(opens)
  BY <1>1, <1>3, OneMore
<1>6. /\ Cardinality(closes) \in Nat /\ Cardinality(closes1) \in Nat
      /\ Cardinality(closes1) =
           IF Type(k + 1) = ")" THEN Cardinality(closes) + 1 ELSE Cardinality(closes)
  BY <1>2, <1>4, OneMore
<1>7. /\ Depth(k) = Cardinality(opens) - Cardinality(closes)
      /\ Depth(k + 1) = Cardinality(opens1) - Cardinality(closes1)
  BY <1>1, <1>2, <1>3, <1>4, Zenon DEF Depth, Until
<1> QED
  BY <1>5, <1>6, <1>7

\* The parentheses from p to q - 1 are in pairs.
Level(p, q) ==
    /\ Depth(q - 1) = Depth(p - 1)
    /\ \A k \in p .. q - 1 : Depth(k) >= Depth(p - 1)

LEMMA PlainLevel ==
    ASSUME NEW p \in Nat, p > 0, NEW q \in Nat, p < q, Plain(p, q)
    PROVE  Level(p, q) /\ \A k \in p .. q - 1 : Depth(k) = Depth(p - 1)
<1>1. PICK S : S = {n \in 0 .. q - p : Depth(p - 1 + n) = Depth(p - 1)}
  OBVIOUS
<1>2. 0 \in S
  BY <1>1
<1>3. ASSUME NEW n \in 0 .. q - p - 1, n \in S
      PROVE  n + 1 \in S
  <2>1. PICK k : k = p - 1 + n
    OBVIOUS
  <2>2. k \in Nat /\ k + 1 \in p .. q - 1 /\ k + 1 = p - 1 + (n + 1) /\ n + 1 \in 0 .. q - p
    BY <2>1
  <2>3. Type(k + 1) \notin {"(", ")"}
    BY <2>2 DEF Plain
  <2>4. Depth(k + 1) = Depth(k)
    BY <2>2, <2>3, DepthNext
  <2> QED
    BY <1>1, <1>3, <2>1, <2>2, <2>4
<1>4. \A n \in 0 .. q - p : n \in S
  <2>1. PICK m : m = q - p
    OBVIOUS
  <2>2. m \in Nat
    BY <2>1
  <2>3. \A k \in 0 .. m - 1 : k \in S => k + 1 \in S
    BY <1>3, <2>1
  <2>4. \A k \in 0 .. m : k \in S
    BY <1>2, <2>2, <2>3, Upward
  <2> QED
    BY <2>1, <2>4
<1>5. ASSUME NEW k \in p .. q - 1
      PROVE  Depth(k) = Depth(p - 1)
  <2>1. PICK n : n = k - (p - 1)
    OBVIOUS
  <2>2. n \in 0 .. q - p /\ p - 1 + n = k
    BY <2>1
  <2> QED
    BY <1>1, <1>4, <2>2
<1>6. Depth(p - 1) \in Int
  <2>1. p - 1 \in Nat
    OBVIOUS
  <2> QED
    BY <2>1, DepthNext
<1> QED
  BY <1>5, <1>6 DEF Level

LEMMA PlainTop ==
    ASSUME NEW p \in Nat, p > 0, NEW q \in Nat, Plain(p, q), NEW type \in {"AND", "OR"}
    PROVE  Top(p, q - 1, type) = {}
  BY DEF Top, Plain

\* A span in parentheses.
LEMMA EnclosedLevel ==
    ASSUME NEW p \in Nat, p > 0, NEW q \in Nat, p + 1 < q,
           Type(p) = "(", Type(q) = ")", Level(p + 1, q)
    PROVE  /\ Level(p, q + 1)
           /\ \A type \in {"AND", "OR"} : Top(p, q, type) = {}
<1>1. p - 1 \in Nat /\ p - 1 + 1 = p /\ q - 1 \in Nat /\ q - 1 + 1 = q /\ p + 1 - 1 = p
  OBVIOUS
<1>2. Depth(p - 1) \in Int /\ Depth(p) = Depth(p - 1) + 1
  BY <1>1, DepthNext
<1>3. Depth(q - 1) \in Int /\ Depth(q) = Depth(q - 1) - 1
  BY <1>1, DepthNext
<1>4. /\ Depth(q - 1) = Depth(p)
      /\ \A k \in p + 1 .. q - 1 : Depth(k) >= Depth(p)
  BY <1>1 DEF Level
<1>5. Depth(q) = Depth(p - 1)
  BY <1>2, <1>3, <1>4
<1>6. \A k \in p + 1 .. q - 1 : Depth(k) \in Int
  BY DepthNext
<1>7. \A k \in p + 1 .. q - 1 : Depth(k) > Depth(p - 1)
  BY <1>2, <1>4, <1>6
<1>8. Level(p, q + 1)
  <2>1. SUFFICES ASSUME NEW k \in p .. q
                 PROVE  Depth(k) >= Depth(p - 1)
    BY <1>5 DEF Level
  <2>2. k = p \/ k = q \/ k \in p + 1 .. q - 1
    OBVIOUS
  <2> QED
    BY <1>2, <1>5, <1>6, <1>7, <2>2
<1>9. ASSUME NEW type \in {"AND", "OR"}, NEW k \in Top(p, q, type)
      PROVE  FALSE
  <2>1. k \in p .. q /\ Type(k) = type /\ Depth(k) = Depth(p - 1)
    BY <1>9 DEF Top
  <2>2. k # p /\ k # q
    BY <2>1
  <2>3. k \in p + 1 .. q - 1
    BY <2>1, <2>2
  <2> QED
    BY <1>2, <1>6, <1>7, <2>1, <2>3
<1> QED
  BY <1>8, <1>9

\* From p to q - 1 is a span, and another from q + 1 to r - 1.
Follows(p, q, r) ==
    p \in Nat /\ p > 0 /\ q \in Nat /\ p < q /\ r \in Nat /\ q + 1 < r

\* Two spans with AND or OR between them.
LEMMA JoinedLevel ==
    ASSUME NEW p, NEW q, NEW r, Follows(p, q, r),
           Type(q) \in {"AND", "OR"}, Level(p, q), Level(q + 1, r)
    PROVE  /\ Level(p, r)
           /\ \A type : Top(p, r - 1, type) =
                          Top(p, q - 1, type) \cup Top(q + 1, r - 1, type)
                            \cup (IF Type(q) = type THEN {q} ELSE {})
<1> p \in Nat /\ p > 0 /\ q \in Nat /\ p < q /\ r \in Nat /\ q + 1 < r
  BY DEF Follows
<1>1. q - 1 \in Nat /\ q - 1 + 1 = q /\ q + 1 - 1 = q /\ p - 1 \in Nat
  OBVIOUS
<1>2. Depth(q) = Depth(q - 1)
  BY <1>1, DepthNext
<1>3. Depth(q) = Depth(p - 1)
  BY <1>2 DEF Level
<1>4. /\ Depth(r - 1) = Depth(q)
      /\ \A k \in q + 1 .. r - 1 : Depth(k) >= Depth(q)
  BY <1>1 DEF Level
<1>5. \A k \in p .. q - 1 : Depth(k) >= Depth(p - 1)
  BY DEF Level
<1>6. Depth(p - 1) \in Int
  BY <1>1, DepthNext
<1>7. \A k \in p .. r - 1 : k \in p .. q - 1 \/ k = q \/ k \in q + 1 .. r - 1
  OBVIOUS
<1>8. Level(p, r)
  <2>1. ASSUME NEW k \in p .. r - 1
        PROVE  Depth(k) >= Depth(p - 1)
    BY <1>3, <1>4, <1>5, <1>6, <1>7
  <2> QED
    BY <1>3, <1>4, <2>1 DEF Level
<1>9. ASSUME NEW type
      PROVE  Top(p, r - 1, type) = Top(p, q - 1, type) \cup Top(q + 1, r - 1, type)
                                     \cup (IF Type(q) = type THEN {q} ELSE {})
  <2>1. \A k : k \in Top(p, r - 1, type) <=>
                 k \in p .. r - 1 /\ Type(k) = type /\ Depth(k) = Depth(p - 1)
    BY DEF Top
  <2>2. \A k : k \in Top(p, q - 1, type) <=>
                 k \in p .. q - 1 /\ Type(k) = type /\ Depth(k) = Depth(p - 1)
    BY DEF Top
  <2>3. \A k : k \in Top(q + 1, r - 1, type) <=>
                 k \in q + 1 .. r - 1 /\ Type(k) = type /\ Depth(k) = Depth(p - 1)
    BY <1>1, <1>3 DEF Top
  <2>4. \A k : k \in p .. r - 1 <=> k \in p .. q - 1 \/ k = q \/ k \in q + 1 .. r - 1
    OBVIOUS
  <2>5. CASE Type(q) = type
    <3>1. \A k : k \in Top(p, r - 1, type) <=>
                   k \in Top(p, q - 1, type) \/ k \in Top(q + 1, r - 1, type) \/ k = q
      BY <1>3, <2>1, <2>2, <2>3, <2>4, <2>5, Zenon
    <3> QED
      BY <2>5, <3>1
  <2>6. CASE Type(q) # type
    <3>1. \A k : k \in Top(p, r - 1, type) <=>
                   k \in Top(p, q - 1, type) \/ k \in Top(q + 1, r - 1, type)
      BY <2>1, <2>2, <2>3, <2>4, <2>6, Zenon
    <3> QED
      BY <2>6, <3>1
  <2> QED
    BY <2>5, <2>6
<1> QED
  BY <1>8, <1>9

-----------------------------------------------------------------------------
(* Spans between separators.                                               *)

\* The span a .. b is between separators of i .. j.
Separated(a, b, i, j, S) ==
    /\ a \in i .. j + 1 /\ b \in i - 1 .. j
    /\ a - 1 \in S \cup {i - 1} /\ b + 1 \in S \cup {j + 1}
    /\ a <= b + 1
    /\ \A k \in a .. b : k \notin S

LEMMA BetweenPairs ==
    ASSUME NEW i, NEW j, NEW S
    PROVE  /\ \A a, b : <<a, b>> \in Between(i, j, S) <=> Separated(a, b, i, j, S)
           /\ \A s \in Between(i, j, S) : s = <<s[1], s[2]>>
  BY DEF Between, Separated

LEMMA SeparatedOne ==
    ASSUME NEW p \in Nat, NEW q \in Nat, p <= q, NEW a, NEW b
    PROVE  Separated(a, b, p, q, {}) <=> a = p /\ b = q
  BY DEF Separated

LEMMA SeparatedMore ==
    ASSUME NEW p, NEW q, NEW r, Follows(p, q, r), NEW S, S \subseteq p .. q - 1, NEW a, NEW b
    PROVE  Separated(a, b, p, r - 1, S \cup {q}) <=>
             Separated(a, b, p, q - 1, S) \/ (a = q + 1 /\ b = r - 1)
<1> p \in Nat /\ p > 0 /\ q \in Nat /\ p < q /\ r \in Nat /\ q + 1 < r
  BY DEF Follows
<1>1. ASSUME Separated(a, b, p, r - 1, S \cup {q})
      PROVE  Separated(a, b, p, q - 1, S) \/ (a = q + 1 /\ b = r - 1)
  <2>1. /\ a \in p .. r /\ b \in p - 1 .. r - 1
        /\ a - 1 \in S \cup {q, p - 1} /\ b + 1 \in S \cup {q, r}
        /\ a <= b + 1
        /\ \A k \in a .. b : k \notin S /\ k # q
    BY <1>1 DEF Separated
  <2>2. CASE a - 1 = q
    BY <2>1, <2>2
  <2>3. CASE a - 1 # q
    <3>1. a - 1 \in S \cup {p - 1} /\ a \in p .. q
      BY <2>1, <2>3
    <3>2. b + 1 # r
      <4>1. SUFFICES ASSUME b + 1 = r
                     PROVE  FALSE
        OBVIOUS
      <4>2. q \in a .. b
        BY <2>1, <3>1, <4>1
      <4> QED
        BY <2>1, <4>2
    <3>3. b + 1 \in S \cup {q} /\ b \in p - 1 .. q - 1
      BY <2>1, <3>2
    <3> QED
      BY <2>1, <3>1, <3>3 DEF Separated
  <2> QED
    BY <2>2, <2>3
<1>2. ASSUME Separated(a, b, p, q - 1, S)
      PROVE  Separated(a, b, p, r - 1, S \cup {q})
  BY <1>2 DEF Separated
<1>3. ASSUME a = q + 1, b = r - 1
      PROVE  Separated(a, b, p, r - 1, S \cup {q})
  BY <1>3 DEF Separated
<1> QED
  BY <1>1, <1>2, <1>3

LEMMA BetweenOne ==
    ASSUME NEW p \in Nat, NEW q \in Nat, p <= q
    PROVE  Between(p, q, {}) = {<<p, q>>}
<1>1. <<p, q>> \in Between(p, q, {})
  BY BetweenPairs, SeparatedOne
<1>2. ASSUME NEW s \in Between(p, q, {})
      PROVE  s = <<p, q>>
  <2>1. s = <<s[1], s[2]>> /\ Separated(s[1], s[2], p, q, {})
    BY BetweenPairs
  <2> QED
    BY <2>1, SeparatedOne
<1> QED
  BY <1>1, <1>2

OneMorePart(p, q, r, S) ==
    Between(p, r - 1, S \cup {q}) = Between(p, q - 1, S) \cup {<<q + 1, r - 1>>}

LEMMA BetweenMore ==
    ASSUME NEW p, NEW q, NEW r, Follows(p, q, r), NEW S, S \subseteq p .. q - 1
    PROVE  OneMorePart(p, q, r, S)
<1>1. PICK T : T = S \cup {q}
  OBVIOUS
<1>2. \A a, b : Separated(a, b, p, r - 1, T) <=>
                  Separated(a, b, p, q - 1, S) \/ (a = q + 1 /\ b = r - 1)
  <2>1. \A a, b : Separated(a, b, p, r - 1, S \cup {q}) <=>
                    Separated(a, b, p, q - 1, S) \/ (a = q + 1 /\ b = r - 1)
    BY SeparatedMore
  <2> QED
    BY <1>1, <2>1
<1>3. ASSUME NEW s \in Between(p, r - 1, T)
      PROVE  s \in Between(p, q - 1, S) \cup {<<q + 1, r - 1>>}
  <2>1. s = <<s[1], s[2]>> /\ Separated(s[1], s[2], p, r - 1, T)
    BY BetweenPairs
  <2>2. Separated(s[1], s[2], p, q - 1, S) \/ s = <<q + 1, r - 1>>
    BY <1>2, <2>1
  <2> QED
    BY <2>1, <2>2, BetweenPairs
<1>4. ASSUME NEW s \in Between(p, q - 1, S)
      PROVE  s \in Between(p, r - 1, T)
  <2>1. s = <<s[1], s[2]>> /\ Separated(s[1], s[2], p, q - 1, S)
    BY BetweenPairs
  <2> QED
    BY <1>2, <2>1, BetweenPairs
<1>5. <<q + 1, r - 1>> \in Between(p, r - 1, T)
  BY <1>2, BetweenPairs
<1>6. Between(p, r - 1, T) = Between(p, q - 1, S) \cup {<<q + 1, r - 1>>}
  BY <1>3, <1>4, <1>5
<1> QED
  BY <1>1, <1>6 DEF OneMorePart

-----------------------------------------------------------------------------
(* What a span means.                                                      *)

Spans == (1 .. Len(tokens) + 1) \X (0 .. Len(tokens))

\* What Meant says of a span, when f is what it says of shorter ones.
MeantBy(f, s, rows) ==
    LET ors == Top(s[1], s[2], "OR")
        ands == Top(s[1], s[2], "AND")
    IN  IF ors # {} THEN
           {row \in rows : \E part \in Between(s[1], s[2], ors) : row \in f[part]}
        ELSE IF ands # {} THEN
           {row \in rows : \A part \in Between(s[1], s[2], ands) : row \in f[part]}
        ELSE IF Type(s[1]) = "(" /\ s[1] < s[2] THEN f[<<s[1] + 1, s[2] - 1>>]
        ELSE {row \in rows : s[1] \in row}

\* Not the length of a span, but never less than 0.
Size(s) == s[2] - s[1] + Len(tokens) + 1

Smaller(n) == {s \in Spans : Size(s) < n}

LEMMA SpanParts ==
    ASSUME Sequenced, NEW s \in Spans
    PROVE  /\ s[1] \in 1 .. Len(tokens) + 1 /\ s[2] \in 0 .. Len(tokens)
           /\ Size(s) \in 0 .. Len(tokens) + Len(tokens)
  BY DEF Sequenced, Spans, Size

LEMMA PartsSmaller ==
    ASSUME Sequenced, NEW s \in Spans, NEW type, NEW S, S = Top(s[1], s[2], type), S # {},
           NEW part \in Between(s[1], s[2], S)
    PROVE  part \in Smaller(Size(s))
<1>1. PICK i, j : i = s[1] /\ j = s[2]
  OBVIOUS
<1>2. i \in 1 .. Len(tokens) + 1 /\ j \in 0 .. Len(tokens) /\ Len(tokens) \in Nat
  BY <1>1, SpanParts DEF Sequenced
<1>3. PICK a, b : a = part[1] /\ b = part[2]
  OBVIOUS
<1>4. part = <<a, b>> /\ Separated(a, b, i, j, S)
  <2>1. part = <<part[1], part[2]>>
    BY BetweenPairs
  <2>2. part = <<a, b>>
    BY <1>3, <2>1
  <2> QED
    BY <1>1, <2>2, BetweenPairs
<1>5. /\ a \in i .. j + 1 /\ b \in i - 1 .. j
      /\ \A k \in a .. b : k \notin S
  BY <1>4 DEF Separated
<1>6. PICK k \in S : TRUE
  OBVIOUS
<1>7. k \in i .. j
  BY <1>1, <1>6 DEF Top
<1>8. ~(a = i /\ b = j)
  BY <1>5, <1>6, <1>7
<1>9. b - a < j - i
  BY <1>2, <1>5, <1>8
<1>10. part \in Spans
  BY <1>2, <1>4, <1>5 DEF Spans
<1>11. Size(part) < Size(s)
  BY <1>1, <1>2, <1>3, <1>5, <1>9 DEF Size
<1> QED
  BY <1>10, <1>11 DEF Smaller

LEMMA InnerSmaller ==
    ASSUME Sequenced, NEW s \in Spans, s[1] < s[2], NEW part, part = <<s[1] + 1, s[2] - 1>>
    PROVE  part \in Smaller(Size(s))
  BY SpanParts DEF Smaller, Spans, Size, Sequenced

LEMMA SmallerOnly ==
    ASSUME Sequenced, NEW s \in Spans, NEW rows, NEW f, NEW g,
           \A part \in Smaller(Size(s)) : f[part] = g[part]
    PROVE  MeantBy(f, s, rows) = MeantBy(g, s, rows)
<1>1. PICK ors : ors = Top(s[1], s[2], "OR")
  OBVIOUS
<1>2. PICK ands : ands = Top(s[1], s[2], "AND")
  OBVIOUS
<1>3. CASE ors # {}
  <2>1. \A part \in Between(s[1], s[2], ors) : f[part] = g[part]
    BY <1>1, <1>3, PartsSmaller
  <2>2. /\ MeantBy(f, s, rows) =
             {row \in rows : \E part \in Between(s[1], s[2], ors) : row \in f[part]}
        /\ MeantBy(g, s, rows) =
             {row \in rows : \E part \in Between(s[1], s[2], ors) : row \in g[part]}
    BY <1>1, <1>3 DEF MeantBy
  <2> QED
    BY <2>1, <2>2
<1>4. CASE ors = {} /\ ands # {}
  <2>1. \A part \in Between(s[1], s[2], ands) : f[part] = g[part]
    BY <1>2, <1>4, PartsSmaller
  <2>2. /\ MeantBy(f, s, rows) =
             {row \in rows : \A part \in Between(s[1], s[2], ands) : row \in f[part]}
        /\ MeantBy(g, s, rows) =
             {row \in rows : \A part \in Between(s[1], s[2], ands) : row \in g[part]}
    BY <1>1, <1>2, <1>4 DEF MeantBy
  <2> QED
    BY <2>1, <2>2
<1>5. CASE ors = {} /\ ands = {} /\ Type(s[1]) = "(" /\ s[1] < s[2]
  <2>1. PICK part : part = <<s[1] + 1, s[2] - 1>>
    OBVIOUS
  <2>2. MeantBy(f, s, rows) = f[part] /\ MeantBy(g, s, rows) = g[part]
    BY <1>1, <1>2, <1>5, <2>1 DEF MeantBy
  <2>3. part \in Smaller(Size(s))
    BY <1>5, <2>1, InnerSmaller
  <2> QED
    BY <2>2, <2>3
<1>6. CASE ors = {} /\ ands = {} /\ ~(Type(s[1]) = "(" /\ s[1] < s[2])
  BY <1>1, <1>2, <1>6 DEF MeantBy
<1> QED
  BY <1>3, <1>4, <1>5, <1>6

MeantUpTo(f, n, rows) == f = [s \in Smaller(n) |-> MeantBy(f, s, rows)]

LEMMA MeantFurther ==
    ASSUME Sequenced, NEW rows, NEW n \in Nat, NEW f, MeantUpTo(f, n, rows)
    PROVE  \E g : MeantUpTo(g, n + 1, rows)
<1>1. PICK g : g = [s \in Smaller(n + 1) |-> MeantBy(f, s, rows)]
  OBVIOUS
<1>2. \A s \in Smaller(n + 1) : s \in Spans /\ Size(s) \in Nat /\ Size(s) <= n
  BY SpanParts DEF Smaller
<1>3. \A s \in Smaller(n) : s \in Smaller(n + 1)
  BY SpanParts DEF Smaller
<1>4. \A s \in Smaller(n) : g[s] = f[s]
  <2>1. SUFFICES ASSUME NEW s \in Smaller(n)
                 PROVE  g[s] = f[s]
    OBVIOUS
  <2>2. f[s] = MeantBy(f, s, rows)
    BY Zenon DEF MeantUpTo
  <2> QED
    BY <1>1, <1>3, <2>2
<1>5. ASSUME NEW s \in Smaller(n + 1)
      PROVE  g[s] = MeantBy(g, s, rows)
  <2>1. s \in Spans /\ \A part \in Smaller(Size(s)) : part \in Smaller(n)
    BY <1>2, SpanParts DEF Smaller
  <2>2. \A part \in Smaller(Size(s)) : f[part] = g[part]
    BY <1>4, <2>1
  <2>3. MeantBy(f, s, rows) = MeantBy(g, s, rows)
    BY <2>1, <2>2, SmallerOnly
  <2> QED
    BY <1>1, <2>3
<1>6. g = [s \in Smaller(n + 1) |-> MeantBy(g, s, rows)]
  BY <1>1, <1>5
<1> QED
  BY <1>6 DEF MeantUpTo

LEMMA MeantExists ==
    ASSUME Sequenced, NEW rows
    PROVE  \E f : f = [s \in Spans |-> MeantBy(f, s, rows)]
<1>1. Len(tokens) \in Nat
  BY DEF Sequenced
<1>2. PICK m : m = Len(tokens) + Len(tokens) + 1
  OBVIOUS
<1>3. m \in Nat /\ m \in 0 .. m
  BY <1>1, <1>2
<1>4. PICK S : S = {n \in 0 .. m : \E f : MeantUpTo(f, n, rows)}
  OBVIOUS
<1>5. 0 \in S
  <2>1. PICK f : f = [s \in {} |-> 0]
    OBVIOUS
  <2>2. Smaller(0) = {}
    BY SpanParts DEF Smaller
  <2>3. f = [s \in Smaller(0) |-> MeantBy(f, s, rows)]
    BY <2>1, <2>2
  <2>4. MeantUpTo(f, 0, rows)
    BY <2>3 DEF MeantUpTo
  <2> QED
    BY <1>3, <1>4, <2>4
<1>6. ASSUME NEW n \in 0 .. m - 1, n \in S
      PROVE  n + 1 \in S
  <2>1. PICK f : MeantUpTo(f, n, rows)
    BY <1>4, <1>6
  <2>2. n \in Nat /\ n + 1 \in 0 .. m
    BY <1>3
  <2>3. \E g : MeantUpTo(g, n + 1, rows)
    BY <2>1, <2>2, MeantFurther
  <2> QED
    BY <1>4, <2>2, <2>3
<1>7. m \in S
  <2>1. \A n \in 0 .. m : n \in S
    BY <1>3, <1>5, <1>6, Upward
  <2> QED
    BY <1>3, <2>1
<1>8. Smaller(m) = Spans
  BY <1>1, <1>2, SpanParts DEF Smaller
<1> QED
  BY <1>4, <1>7, <1>8 DEF MeantUpTo

LEMMA MeantUnfolded ==
    ASSUME Sequenced, NEW rows
    PROVE  \E f : /\ \A i, j : Meant(i, j, rows) = f[<<i, j>>]
                  /\ \A s \in Spans : f[s] = MeantBy(f, s, rows)
<1>1. \E f : f = [s \in Spans |-> MeantBy(f, s, rows)]
  BY MeantExists
<1>2. PICK F : F = CHOOSE f : f = [s \in Spans |-> MeantBy(f, s, rows)]
  OBVIOUS
<1>3. F = [s \in Spans |-> MeantBy(F, s, rows)]
  BY <1>1, <1>2, Zenon
<1>4. ASSUME NEW i, NEW j
      PROVE  Meant(i, j, rows) = F[<<i, j>>]
  BY <1>2, Zenon DEF Meant, MeantBy, Spans
<1>5. \A s \in Spans : F[s] = MeantBy(F, s, rows)
  BY <1>3, Zenon
<1> QED
  BY <1>4, <1>5

LEMMA MeantRows ==
    ASSUME Sequenced, NEW rows, NEW s \in Spans
    PROVE  Meant(s[1], s[2], rows) \subseteq rows
<1>1. PICK f : /\ \A i, j : Meant(i, j, rows) = f[<<i, j>>]
               /\ \A t \in Spans : f[t] = MeantBy(f, t, rows)
  BY MeantUnfolded
<1>2. Len(tokens) \in Nat
  BY DEF Sequenced
<1>3. PICK m : m = Len(tokens) + Len(tokens) + 1
  OBVIOUS
<1>4. m \in Nat /\ m \in 0 .. m
  BY <1>2, <1>3
<1>5. PICK S : S = {n \in 0 .. m : \A t \in Smaller(n) : f[t] \subseteq rows}
  OBVIOUS
<1>6. 0 \in S
  BY <1>4, <1>5, SpanParts DEF Smaller
<1>7. ASSUME NEW n \in 0 .. m - 1, n \in S
      PROVE  n + 1 \in S
  <2>1. ASSUME NEW t \in Smaller(n + 1)
        PROVE  f[t] \subseteq rows
    <3>1. t \in Spans /\ \A part \in Smaller(Size(t)) : part \in Smaller(n)
      BY SpanParts DEF Smaller
    <3>2. f[t] = MeantBy(f, t, rows)
      BY <1>1, <3>1
    <3>3. CASE /\ Top(t[1], t[2], "OR") = {} /\ Top(t[1], t[2], "AND") = {}
               /\ Type(t[1]) = "(" /\ t[1] < t[2]
      <4>1. PICK part : part = <<t[1] + 1, t[2] - 1>>
        OBVIOUS
      <4>2. MeantBy(f, t, rows) = f[part]
        BY <3>3, <4>1 DEF MeantBy
      <4>3. part \in Smaller(Size(t))
        BY <3>1, <3>3, <4>1, InnerSmaller
      <4> QED
        BY <1>5, <1>7, <3>1, <3>2, <4>2, <4>3
    <3>4. CASE ~(/\ Top(t[1], t[2], "OR") = {} /\ Top(t[1], t[2], "AND") = {}
                 /\ Type(t[1]) = "(" /\ t[1] < t[2])
      <4>1. MeantBy(f, t, rows) \subseteq rows
        BY <3>4 DEF MeantBy
      <4> QED
        BY <3>2, <4>1
    <3> QED
      BY <3>3, <3>4
  <2>2. n + 1 \in 0 .. m
    BY <1>4
  <2> QED
    BY <1>5, <2>1, <2>2
<1>8. m \in S
  <2>1. \A n \in 0 .. m : n \in S
    BY <1>4, <1>6, <1>7, Upward
  <2> QED
    BY <1>4, <2>1
<1>9. s \in Smaller(m)
  BY <1>2, <1>3, SpanParts DEF Smaller
<1>10. s = <<s[1], s[2]>>
  BY DEF Spans
<1> QED
  BY <1>1, <1>5, <1>8, <1>9, <1>10

\* The rows of which some part, or every part, between tokens of a type is true.
Combined(operator, i, j, rows) ==
    LET parts == Between(i, j, Top(i, j, operator))
    IN  IF operator = "OR"
        THEN {row \in rows : \E part \in parts : row \in Meant(part[1], part[2], rows)}
        ELSE {row \in rows : \A part \in parts : row \in Meant(part[1], part[2], rows)}

LEMMA SpanMeant ==
    ASSUME Sequenced, NEW rows, NEW i \in 1 .. Len(tokens) + 1, NEW j \in 0 .. Len(tokens),
           NEW ors, ors = Top(i, j, "OR"), NEW ands, ands = Top(i, j, "AND")
    PROVE  /\ ors # {} => Meant(i, j, rows) = Combined("OR", i, j, rows)
           /\ ors = {} /\ ands # {} => Meant(i, j, rows) = Combined("AND", i, j, rows)
           /\ ors = {} /\ ands = {} /\ Type(i) = "(" /\ i < j =>
                Meant(i, j, rows) = Meant(i + 1, j - 1, rows)
           /\ ors = {} /\ ands = {} /\ Type(i) # "(" =>
                Meant(i, j, rows) = TrueOf(i, rows)
<1>1. PICK f : /\ \A a, b : Meant(a, b, rows) = f[<<a, b>>]
               /\ \A t \in Spans : f[t] = MeantBy(f, t, rows)
  BY MeantUnfolded
<1>2. PICK s : s = <<i, j>>
  OBVIOUS
<1>3. s \in Spans /\ s[1] = i /\ s[2] = j
  BY <1>2 DEF Spans
<1>4. Meant(i, j, rows) = MeantBy(f, s, rows)
  BY <1>1, <1>2, <1>3
<1>5. ASSUME NEW S, NEW part \in Between(i, j, S)
      PROVE  f[part] = Meant(part[1], part[2], rows)
  BY <1>1, BetweenPairs
<1>6. CASE ors # {}
  <2>1. MeantBy(f, s, rows) = {row \in rows : \E part \in Between(i, j, ors) : row \in f[part]}
    BY <1>3, <1>6 DEF MeantBy
  <2>2. Combined("OR", i, j, rows) =
          {row \in rows : \E part \in Between(i, j, ors) : row \in Meant(part[1], part[2], rows)}
    BY DEF Combined
  <2> QED
    BY <1>4, <1>5, <1>6, <2>1, <2>2
<1>7. CASE ors = {} /\ ands # {}
  <2>1. MeantBy(f, s, rows) = {row \in rows : \A part \in Between(i, j, ands) : row \in f[part]}
    BY <1>3, <1>7 DEF MeantBy
  <2>2. Combined("AND", i, j, rows) =
          {row \in rows : \A part \in Between(i, j, ands) : row \in Meant(part[1], part[2], rows)}
    BY DEF Combined
  <2> QED
    BY <1>4, <1>5, <1>7, <2>1, <2>2
<1>8. CASE ors = {} /\ ands = {} /\ Type(i) = "(" /\ i < j
  <2>1. MeantBy(f, s, rows) = f[<<i + 1, j - 1>>]
    BY <1>3, <1>8 DEF MeantBy
  <2> QED
    BY <1>1, <1>4, <1>8, <2>1
<1>9. CASE ors = {} /\ ands = {} /\ Type(i) # "("
  <2>1. MeantBy(f, s, rows) = {row \in rows : i \in row}
    BY <1>3, <1>9 DEF MeantBy
  <2> QED
    BY <1>4, <1>9, <2>1 DEF TrueOf
<1> QED
  BY <1>6, <1>7, <1>8, <1>9

LEMMA ComparisonMeant ==
    ASSUME Sequenced, NEW rows, NEW i \in 1 .. Len(tokens) + 1, NEW j \in 0 .. Len(tokens),
           Top(i, j, "OR") = {}, Top(i, j, "AND") = {}, Type(i) # "("
    PROVE  Meant(i, j, rows) = TrueOf(i, rows)
<1>1. PICK ors : ors = Top(i, j, "OR")
  OBVIOUS
<1>2. PICK ands : ands = Top(i, j, "AND")
  OBVIOUS
<1> QED
  BY <1>1, <1>2, SpanMeant

LEMMA EnclosedMeant ==
    ASSUME Sequenced, NEW rows, NEW i \in 1 .. Len(tokens) + 1, NEW j \in 0 .. Len(tokens),
           Top(i, j, "OR") = {}, Top(i, j, "AND") = {}, Type(i) = "(", i < j
    PROVE  Meant(i, j, rows) = Meant(i + 1, j - 1, rows)
<1>1. PICK ors : ors = Top(i, j, "OR")
  OBVIOUS
<1>2. PICK ands : ands = Top(i, j, "AND")
  OBVIOUS
<1> QED
  BY <1>1, <1>2, SpanMeant

-----------------------------------------------------------------------------
(* What is read means what it says.                                        *)

\* The tree of a result that was read from p on selects what its span means.
Good(p, result, rows) ==
    /\ result.next \in p + 1 .. Len(tokens) + 1
    /\ Level(p, result.next)
    /\ Rooted(result.tree) /\ DOMAIN result.tree.nodes \subseteq p .. result.next - 1
    /\ Selects(result.tree, rows, Meant(p, result.next - 1, rows))

\* The operators that an operand of AND or of OR has only in parentheses.
Bound(operator) == IF operator = "AND" THEN {"AND", "OR"} ELSE {"OR"}

Operand(p, result, operator, rows) ==
    /\ Good(p, result, rows)
    /\ \A type \in Bound(operator) : Top(p, result.next - 1, type) = {}

\* What the rounds of a loop have read.
Joined(p, result, operator, rows) ==
    /\ result.next \in p + 1 .. Len(tokens) + 1
    /\ Level(p, result.next)
    /\ Rooted(result.tree) /\ DOMAIN result.tree.nodes \subseteq p .. result.next - 1
    /\ operator = "AND" => Top(p, result.next - 1, "OR") = {}
    /\ Selects(result.tree, rows, Combined(operator, p, result.next - 1, rows))

LEMMA NoPartsCombined ==
    ASSUME Sequenced, NEW rows, NEW operator \in {"AND", "OR"},
           NEW i \in 1 .. Len(tokens) + 1, NEW j \in 0 .. Len(tokens), i <= j,
           Top(i, j, operator) = {}
    PROVE  Combined(operator, i, j, rows) = Meant(i, j, rows)
<1>1. i \in Nat /\ j \in Nat
  BY DEF Sequenced
<1>2. PICK s : s = <<i, j>>
  OBVIOUS
<1>3. s \in Spans /\ s[1] = i /\ s[2] = j
  BY <1>2 DEF Spans
<1>4. Meant(i, j, rows) \subseteq rows
  BY <1>3, MeantRows
<1>5. Between(i, j, {}) = {s}
  BY <1>1, <1>2, BetweenOne
<1>6. Between(i, j, Top(i, j, operator)) = {s}
  BY <1>5
<1> QED
  BY <1>3, <1>4, <1>6 DEF Combined

LEMMA FirstOperand ==
    ASSUME Sequenced, NEW rows, NEW operator \in {"AND", "OR"}, NEW p \in Positions,
           NEW result, Operand(p, result, operator, rows)
    PROVE  Joined(p, result, operator, rows)
<1>1. p \in Nat /\ Len(tokens) \in Nat /\ p \in 1 .. Len(tokens) + 1
  BY DEF Sequenced, Positions
<1>2. Good(p, result, rows) /\ Top(p, result.next - 1, operator) = {}
  BY DEF Operand, Bound
<1>3. PICK j : j = result.next - 1
  OBVIOUS
<1>4. j \in 0 .. Len(tokens) /\ p <= j
  BY <1>1, <1>2, <1>3 DEF Good
<1>5. Combined(operator, p, j, rows) = Meant(p, j, rows)
  BY <1>1, <1>2, <1>3, <1>4, NoPartsCombined
<1>6. operator = "AND" => Top(p, j, "OR") = {}
  BY <1>3 DEF Operand, Bound
<1> QED
  BY <1>2, <1>3, <1>5, <1>6 DEF Good, Joined

LEMMA JoinedMeant ==
    ASSUME Sequenced, NEW rows, NEW operator \in {"AND", "OR"}, NEW p \in Positions,
           NEW result, Joined(p, result, operator, rows)
    PROVE  Good(p, result, rows)
<1>1. p \in Nat /\ Len(tokens) \in Nat /\ p \in 1 .. Len(tokens) + 1
  BY DEF Sequenced, Positions
<1>2. PICK j : j = result.next - 1
  OBVIOUS
<1>3. j \in 0 .. Len(tokens) /\ p <= j
  BY <1>1, <1>2 DEF Joined
<1>4. Combined(operator, p, j, rows) = Meant(p, j, rows)
  <2>1. CASE Top(p, j, operator) = {}
    BY <1>1, <1>3, <2>1, NoPartsCombined
  <2>2. CASE Top(p, j, operator) # {} /\ operator = "OR"
    BY <1>1, <1>3, <2>2, SpanMeant
  <2>3. CASE Top(p, j, operator) # {} /\ operator = "AND"
    <3>1. Top(p, j, "OR") = {}
      BY <1>2, <2>3 DEF Joined
    <3> QED
      BY <1>1, <1>3, <2>3, <3>1, SpanMeant
  <2> QED
    BY <2>1, <2>2, <2>3
<1> QED
  BY <1>2, <1>4 DEF Good, Joined

\* S is what two conditions select that an operator joins.
Both(S, operator, L, R) ==
    S = IF operator = "AND" THEN L \cap R ELSE L \cup R

LEMMA CombinedMore ==
    ASSUME Sequenced, NEW rows, NEW operator \in {"AND", "OR"}, NEW p \in Positions,
           NEW q, NEW r, Follows(p, q, r), r <= Len(tokens) + 1,
           Type(q) = operator, Level(p, q), Level(q + 1, r), Top(q + 1, r - 1, operator) = {},
           NEW L, L = Combined(operator, p, q - 1, rows),
           NEW R, R = Meant(q + 1, r - 1, rows)
    PROVE  Both(Combined(operator, p, r - 1, rows), operator, L, R)
<1> USE DEF Both
<1>1. /\ p \in Nat /\ Len(tokens) \in Nat
      /\ q \in Nat /\ p < q /\ r \in Nat /\ q + 1 < r
  BY DEF Sequenced, Positions, Follows
<1>2. PICK S : S = Top(p, q - 1, operator)
  OBVIOUS
<1>3. Top(p, r - 1, operator) = S \cup {q}
  <2>1. Type(q) \in {"AND", "OR"}
    OBVIOUS
  <2>2. Top(p, r - 1, operator) =
          Top(p, q - 1, operator) \cup Top(q + 1, r - 1, operator)
            \cup (IF Type(q) = operator THEN {q} ELSE {})
    BY <2>1, JoinedLevel
  <2> QED
    BY <1>2, <2>2
<1>4. S \subseteq p .. q - 1
  BY <1>2 DEF Top
<1>5. PICK s : s = <<q + 1, r - 1>>
  OBVIOUS
<1>6. Between(p, r - 1, S \cup {q}) = Between(p, q - 1, S) \cup {s}
  <2>1. OneMorePart(p, q, r, S)
    BY <1>4, BetweenMore
  <2> QED
    BY <1>5, <2>1, Zenon DEF OneMorePart
<1>7. PICK parts : parts = Between(p, q - 1, S)
  OBVIOUS
<1>8. s[1] = q + 1 /\ s[2] = r - 1 /\ s \in Spans
  BY <1>1, <1>5 DEF Spans
<1>9. R \subseteq rows
  BY <1>8, MeantRows
<1>10. CASE operator = "OR"
  <2>1. L = {row \in rows : \E part \in parts : row \in Meant(part[1], part[2], rows)}
    BY <1>2, <1>7, <1>10 DEF Combined
  <2>2. Combined(operator, p, r - 1, rows) =
          {row \in rows : \E part \in parts \cup {s} : row \in Meant(part[1], part[2], rows)}
    BY <1>3, <1>6, <1>7, <1>10 DEF Combined
  <2>3. \A row \in rows :
          (\E part \in parts \cup {s} : row \in Meant(part[1], part[2], rows)) <=>
          (\E part \in parts : row \in Meant(part[1], part[2], rows)) \/ row \in R
    BY <1>8
  <2> QED
    BY <1>9, <1>10, <2>1, <2>2, <2>3
<1>11. CASE operator = "AND"
  <2>1. L = {row \in rows : \A part \in parts : row \in Meant(part[1], part[2], rows)}
    BY <1>2, <1>7, <1>11 DEF Combined
  <2>2. Combined(operator, p, r - 1, rows) =
          {row \in rows : \A part \in parts \cup {s} : row \in Meant(part[1], part[2], rows)}
    BY <1>3, <1>6, <1>7, <1>11 DEF Combined
  <2>3. \A row \in rows :
          (\A part \in parts \cup {s} : row \in Meant(part[1], part[2], rows)) <=>
          (\A part \in parts : row \in Meant(part[1], part[2], rows)) /\ row \in R
    BY <1>8
  <2> QED
    BY <1>9, <1>11, <2>1, <2>2, <2>3
<1> QED
  BY <1>10, <1>11

LEMMA NextOperand ==
    ASSUME Sequenced, NEW rows, NEW operator \in {"AND", "OR"}, NEW p \in Positions,
           NEW left, Joined(p, left, operator, rows),
           NEW q, q = left.next, Type(q) = operator,
           NEW right, Operand(q + 1, right, operator, rows),
           NEW result, result = Parsed(Logical(left.tree, q, right.tree), right.next)
    PROVE  Joined(p, result, operator, rows)
<1>1. p \in Nat /\ p > 0 /\ Len(tokens) \in Nat
  BY DEF Sequenced, Positions
<1>2. /\ q \in Nat /\ p < q /\ Level(p, q)
      /\ Rooted(left.tree) /\ DOMAIN left.tree.nodes \subseteq p .. q - 1
      /\ operator = "AND" => Top(p, q - 1, "OR") = {}
      /\ Selects(left.tree, rows, Combined(operator, p, q - 1, rows))
  BY <1>1 DEF Joined
<1>3. PICK r : r = right.next
  OBVIOUS
<1>4. /\ r \in Nat /\ q + 1 < r /\ r <= Len(tokens) + 1 /\ Level(q + 1, r)
      /\ Rooted(right.tree) /\ DOMAIN right.tree.nodes \subseteq q + 1 .. r - 1
      /\ Selects(right.tree, rows, Meant(q + 1, r - 1, rows))
      /\ \A type \in Bound(operator) : Top(q + 1, r - 1, type) = {}
  BY <1>1, <1>2, <1>3 DEF Operand, Good
<1>5. PICK tree : tree = Logical(left.tree, q, right.tree)
  OBVIOUS
<1>6. result.next = r /\ result.tree = tree
  BY <1>3, <1>5 DEF Parsed
<1>7. /\ Level(p, r)
      /\ \A type : Top(p, r - 1, type) =
                     Top(p, q - 1, type) \cup Top(q + 1, r - 1, type)
                       \cup (IF Type(q) = type THEN {q} ELSE {})
  <2>1. Follows(p, q, r)
    BY <1>1, <1>2, <1>4 DEF Follows
  <2>2. Type(q) \in {"AND", "OR"} /\ Level(p, q) /\ Level(q + 1, r)
    BY <1>2, <1>4
  <2> QED
    BY <2>1, <2>2, JoinedLevel
<1>8. PICK l : l = left.tree
  OBVIOUS
<1>9. PICK m : m = right.tree
  OBVIOUS
<1>10. tree = Logical(l, q, m) /\ Rooted(l) /\ Rooted(m)
  BY <1>2, <1>4, <1>5, <1>8, <1>9
<1>11. Joinable(l, q, m)
  BY <1>1, <1>2, <1>4, <1>8, <1>9, <1>10 DEF Joinable
<1>12. Rooted(tree) /\ DOMAIN tree.nodes \subseteq p .. r - 1
  <2>1. Rooted(tree) /\ Nodes(tree, l, q, m)
    BY <1>10, <1>11, JoinedTree
  <2>2. DOMAIN tree.nodes = {q} \cup DOMAIN l.nodes \cup DOMAIN m.nodes
    BY <2>1, Zenon DEF Nodes
  <2> QED
    BY <1>1, <1>2, <1>4, <1>8, <1>9, <2>1, <2>2
<1>13. operator = "AND" => Top(p, r - 1, "OR") = {}
  <2>1. SUFFICES ASSUME operator = "AND"
                 PROVE  Top(p, r - 1, "OR") = {}
    OBVIOUS
  <2>2. Top(p, q - 1, "OR") = {} /\ Top(q + 1, r - 1, "OR") = {} /\ Type(q) # "OR"
    BY <1>2, <1>4, <2>1 DEF Bound
  <2> QED
    BY <1>7, <2>2
<1>14. PICK L : L = Combined(operator, p, q - 1, rows)
  OBVIOUS
<1>15. PICK R : R = Meant(q + 1, r - 1, rows)
  OBVIOUS
<1>16. PICK S : S = IF operator = "AND" THEN L \cap R ELSE L \cup R
  OBVIOUS
<1>17. Combined(operator, p, r - 1, rows) = S
  <2>1. Top(q + 1, r - 1, operator) = {}
    BY <1>4 DEF Bound
  <2>2. Follows(p, q, r) /\ r <= Len(tokens) + 1
    BY <1>1, <1>2, <1>4 DEF Follows
  <2>3. Level(p, q) /\ Level(q + 1, r)
    BY <1>2, <1>4
  <2>4. Both(Combined(operator, p, r - 1, rows), operator, L, R)
    BY <1>14, <1>15, <2>1, <2>2, <2>3, CombinedMore
  <2> QED
    BY <1>16, <2>4, Zenon DEF Both
<1>18. Selects(tree, rows, S)
  <2>1. Selects(l, rows, L) /\ Selects(m, rows, R)
    BY <1>2, <1>4, <1>8, <1>9, <1>14, <1>15
  <2>2. S = IF Type(q) = "AND" THEN L \cap R ELSE L \cup R
    BY <1>16
  <2> QED
    BY <1>10, <1>11, <2>1, <2>2, JoinedSelects
<1> QED
  BY <1>1, <1>2, <1>4, <1>6, <1>7, <1>12, <1>13, <1>17, <1>18 DEF Joined

LEMMA ChainMeans ==
    ASSUME Sequenced, NEW rows, NEW operator \in {"AND", "OR"}, NEW p \in Positions, NEW F,
           \A x \in p .. Len(tokens) + 1 : F[x].ok => Operand(x, F[x], operator, rows),
           NEW result, result = Chain(F, operator, p), result.ok
    PROVE  Joined(p, result, operator, rows)
<1>1. PICK n : n = Len(tokens) + 1 - p
  OBVIOUS
<1>2. n \in Nat /\ n \in 0 .. n /\ p \in Nat /\ Len(tokens) \in Nat /\ p \in p .. Len(tokens) + 1
  BY <1>1 DEF Sequenced, Positions
<1>3. PICK f : Looped(F, operator, p, n, f)
  BY <1>1, ChainUnfolded
<1>4. PICK S : S = {k \in 0 .. n : f[k].ok => Joined(p, f[k], operator, rows)}
  OBVIOUS
<1>5. 0 \in S
  <2>1. f[0] = F[p]
    BY <1>3 DEF Looped
  <2>2. F[p].ok => Operand(p, F[p], operator, rows)
    BY <1>2
  <2>3. F[p].ok => Joined(p, F[p], operator, rows)
    BY <2>2, FirstOperand
  <2> QED
    BY <1>2, <1>4, <2>1, <2>3
<1>6. ASSUME NEW k \in 0 .. n - 1, k \in S
      PROVE  k + 1 \in S
  <2>1. PICK left : left = f[k]
    OBVIOUS
  <2>2. left.ok => Joined(p, left, operator, rows)
    BY <1>4, <1>6, <2>1
  <2>3. f[k + 1] = Round(F, operator, left)
    BY <1>3, <2>1 DEF Looped
  <2>4. k + 1 \in 0 .. n
    BY <1>2
  <2>5. CASE ~left.ok \/ Type(left.next) # operator
    <3>1. f[k + 1] = left
      BY <2>3, <2>5, RoundStops
    <3> QED
      BY <1>4, <2>2, <2>4, <3>1
  <2>6. CASE left.ok /\ Type(left.next) = operator
    <3>1. Joined(p, left, operator, rows)
      BY <2>2, <2>6
    <3>2. PICK q : q = left.next
      OBVIOUS
    <3>3. q \in p + 1 .. Len(tokens)
      <4>1. q \in p + 1 .. Len(tokens) + 1
        BY <3>1, <3>2 DEF Joined
      <4>2. q \in DOMAIN tokens
        BY <2>6, <3>2, TypesEnd
      <4> QED
        BY <1>2, <4>1, <4>2 DEF Sequenced
    <3>4. PICK right : right = F[q + 1]
      OBVIOUS
    <3>5. CASE ~right.ok
      <4>1. f[k + 1] = right
        BY <2>3, <2>6, <3>2, <3>4, <3>5, RoundFails
      <4> QED
        BY <1>4, <2>4, <3>5, <4>1
    <3>6. CASE right.ok
      <4>1. PICK joined : joined = Parsed(Logical(left.tree, q, right.tree), right.next)
        OBVIOUS
      <4>2. f[k + 1] = joined
        BY <2>3, <2>6, <3>2, <3>4, <3>6, <4>1, RoundGoesOn
      <4>3. q + 1 \in p .. Len(tokens) + 1
        BY <1>2, <3>3
      <4>4. Operand(q + 1, right, operator, rows)
        BY <3>4, <3>6, <4>3
      <4>5. Type(q) = operator
        BY <2>6, <3>2
      <4>6. Joined(p, joined, operator, rows)
        BY <3>1, <3>2, <4>1, <4>4, <4>5, NextOperand
      <4> QED
        BY <1>4, <2>4, <4>2, <4>6
    <3> QED
      BY <3>5, <3>6
  <2> QED
    BY <2>5, <2>6
<1>7. n \in S
  <2>1. \A k \in 0 .. n : k \in S
    BY <1>2, <1>5, <1>6, Upward
  <2> QED
    BY <1>2, <2>1
<1>8. f[n] = result
  BY <1>3 DEF Looped
<1> QED
  BY <1>4, <1>7, <1>8

LEMMA TermMeans ==
    ASSUME Sequenced, NEW rows, NEW p \in Positions, NEW e,
           \A x \in p + 1 .. Len(tokens) + 1 : e[x].ok => Good(x, e[x], rows),
           NEW result, result = Term(e, p), result.ok
    PROVE  Operand(p, result, "AND", rows)
<1>1. p \in Nat /\ p > 0 /\ Len(tokens) \in Nat /\ p \in 1 .. Len(tokens) + 1
  BY DEF Sequenced, Positions
<1>2. CASE Type(p) # "("
  <2>1. result = Comparison(p)
    BY <1>2, Zenon DEF Term
  <2>2. /\ result.next \in p + 1 .. Len(tokens) + 1
        /\ Plain(p, result.next)
        /\ \E id \in p .. result.next - 1 : \E node :
             result.tree = Tree(id, node) /\ Compares(node, p)
    BY <2>1, ComparisonRead
  <2>3. PICK id \in p .. result.next - 1 : \E node :
             result.tree = Tree(id, node) /\ Compares(node, p)
    BY <2>2
  <2>4. PICK node : result.tree = Tree(id, node) /\ Compares(node, p)
    BY <2>3
  <2>5. PICK q : q = result.next
    OBVIOUS
  <2>6. q \in Nat /\ p < q /\ q - 1 \in 0 .. Len(tokens) /\ Plain(p, q)
    BY <1>1, <2>2, <2>5
  <2>7. Level(p, q)
    BY <1>1, <2>6, PlainLevel
  <2>8. Top(p, q - 1, "AND") = {} /\ Top(p, q - 1, "OR") = {}
    BY <1>1, <2>6, PlainTop
  <2>10. Meant(p, q - 1, rows) = TrueOf(p, rows)
    BY <1>1, <1>2, <2>6, <2>8, ComparisonMeant
  <2>11. PICK tree : tree = result.tree
    OBVIOUS
  <2>12. /\ Rooted(tree) /\ \A k \in DOMAIN tree.nodes : k = id
         /\ Selects(tree, rows, TrueOf(p, rows))
    BY <2>4, <2>11, ComparisonTree
  <2>13. Good(p, result, rows)
    BY <2>2, <2>3, <2>5, <2>7, <2>10, <2>11, <2>12 DEF Good
  <2> QED
    BY <2>5, <2>8, <2>13 DEF Operand, Bound
<1>3. CASE Type(p) = "("
  <2>1. p \in 1 .. Len(tokens)
    BY <1>1, <1>3 DEF Type, Sequenced
  <2>2. PICK inner : inner = e[p + 1]
    OBVIOUS
  <2>3. inner.ok /\ Type(inner.next) = ")"
    BY <1>3, <2>2 DEF Term, Then, Failed
  <2>4. result = Parsed(inner.tree, inner.next + 1)
    BY <1>3, <2>2, <2>3 DEF Term, Then
  <2>5. Good(p + 1, inner, rows)
    <3>1. p + 1 \in p + 1 .. Len(tokens) + 1
      BY <1>1, <2>1
    <3> QED
      BY <2>2, <2>3, <3>1
  <2>6. PICK q : q = inner.next
    OBVIOUS
  <2>7. /\ q \in p + 2 .. Len(tokens) + 1 /\ Level(p + 1, q)
        /\ Rooted(inner.tree) /\ DOMAIN inner.tree.nodes \subseteq p + 1 .. q - 1
        /\ Selects(inner.tree, rows, Meant(p + 1, q - 1, rows))
    BY <1>1, <2>5, <2>6 DEF Good
  <2>8. q \in DOMAIN tokens /\ Type(q) = ")"
    BY <2>3, <2>6, TypesEnd
  <2>9. q \in Nat /\ p + 1 < q /\ q \in 0 .. Len(tokens)
    BY <1>1, <2>7, <2>8 DEF Sequenced
  <2>10. /\ Level(p, q + 1)
         /\ \A type \in {"AND", "OR"} : Top(p, q, type) = {}
    BY <1>1, <1>3, <2>7, <2>8, <2>9, EnclosedLevel
  <2>11. Top(p, q, "AND") = {} /\ Top(p, q, "OR") = {}
    BY <2>10
  <2>12. p < q
    BY <1>1, <2>9
  <2>13. Meant(p, q, rows) = Meant(p + 1, q - 1, rows)
    BY <1>1, <1>3, <2>9, <2>11, <2>12, EnclosedMeant
  <2>14. result.next = q + 1 /\ result.tree = inner.tree
    BY <2>4, <2>6 DEF Parsed
  <2>15. PICK end : end = result.next
    OBVIOUS
  <2>16. end - 1 = q
    BY <2>9, <2>14, <2>15
  <2>17. Good(p, result, rows)
    BY <1>1, <2>7, <2>9, <2>10, <2>13, <2>14, <2>15, <2>16 DEF Good
  <2>18. Top(p, end - 1, "AND") = {} /\ Top(p, end - 1, "OR") = {}
    BY <2>11, <2>16
  <2>19. \A type \in Bound("AND") : Top(p, end - 1, type) = {}
    BY <2>18 DEF Bound
  <2> QED
    BY <2>15, <2>17, <2>19 DEF Operand
<1> QED
  BY <1>2, <1>3

LEMMA ExpressionMeans ==
    ASSUME Sequenced, NEW rows, NEW p \in Positions, NEW e,
           \A x \in p + 1 .. Len(tokens) + 1 : e[x].ok => Good(x, e[x], rows),
           NEW result, result = OrExpression(e, p), result.ok
    PROVE  Good(p, result, rows)
<1>1. p \in Nat /\ Len(tokens) \in Nat
  BY DEF Sequenced, Positions
<1>2. \A x \in p .. Len(tokens) + 1 : x \in Positions
  BY <1>1 DEF Positions
<1>3. PICK F : F = Terms(e)
  OBVIOUS
<1>4. ASSUME NEW x \in p .. Len(tokens) + 1, F[x].ok
      PROVE  Operand(x, F[x], "AND", rows)
  <2>1. x \in Positions
    BY <1>2
  <2>2. F[x] = Term(e, x)
    BY <1>3, <2>1 DEF Terms
  <2>3. \A y \in x + 1 .. Len(tokens) + 1 : e[y].ok => Good(y, e[y], rows)
    BY <1>1
  <2> QED
    BY <1>4, <2>1, <2>2, <2>3, TermMeans
<1>5. PICK G : G = AndExpressions(e)
  OBVIOUS
<1>6. ASSUME NEW x \in p .. Len(tokens) + 1, G[x].ok
      PROVE  Operand(x, G[x], "OR", rows)
  <2>1. x \in Positions
    BY <1>2
  <2>2. G[x] = Chain(F, "AND", x)
    BY <1>3, <1>5, <2>1 DEF AndExpressions
  <2>3. \A y \in x .. Len(tokens) + 1 : F[y].ok => Operand(y, F[y], "AND", rows)
    BY <1>1, <1>4
  <2>4. Joined(x, G[x], "AND", rows)
    BY <1>6, <2>1, <2>2, <2>3, ChainMeans
  <2>5. Good(x, G[x], rows)
    BY <2>1, <2>4, JoinedMeant
  <2>6. Top(x, G[x].next - 1, "OR") = {}
    BY <2>4 DEF Joined
  <2> QED
    BY <2>5, <2>6 DEF Operand, Bound
<1>7. result = Chain(G, "OR", p)
  BY <1>5 DEF OrExpression
<1>8. Joined(p, result, "OR", rows)
  BY <1>6, <1>7, ChainMeans
<1> QED
  BY <1>8, JoinedMeant

LEMMA ExpressionsMean ==
    ASSUME Sequenced, NEW rows
    PROVE  \A p \in Positions : Expressions[p].ok => Good(p, Expressions[p], rows)
<1>1. PICK n : n = Len(tokens) + 1
  OBVIOUS
<1>2. n \in Nat /\ Positions = 1 .. n
  BY <1>1 DEF Sequenced, Positions
<1>3. PICK S : S = {p \in 1 .. n : Expressions[p].ok => Good(p, Expressions[p], rows)}
  OBVIOUS
<1>4. ASSUME NEW p \in 1 .. n, \A q \in p + 1 .. n : q \in S
      PROVE  p \in S
  <2>1. p \in Positions
    BY <1>2
  <2>2. Expressions[p] = OrExpression(Expressions, p)
    BY <2>1, ExpressionsUnfolded
  <2>3. \A x \in p + 1 .. Len(tokens) + 1 : Expressions[x].ok => Good(x, Expressions[x], rows)
    BY <1>1, <1>3, <1>4
  <2>4. Expressions[p].ok => Good(p, Expressions[p], rows)
    BY <2>1, <2>2, <2>3, ExpressionMeans
  <2> QED
    BY <1>3, <2>4
<1>5. \A p \in 1 .. n : p \in S
  BY <1>2, <1>4, Backward
<1> QED
  BY <1>2, <1>3, <1>5

-----------------------------------------------------------------------------
(* The conditions of every text.                                           *)

LEMMA TokensSequenced ==
    ASSUME Read, NEW from, from = TokensFrom(text)
    PROVE  \A i \in 1 .. Len(text) + 1 : from[i] \in Seq(Tokens)
<1>1. PICK n : n = Len(text) + 1
  OBVIOUS
<1>2. n \in Nat /\ Len(text) \in Nat
  BY <1>1, Places
<1>3. PICK S : S = {i \in 1 .. n : from[i] \in Seq(Tokens)}
  OBVIOUS
<1>4. ASSUME NEW i \in 1 .. n, \A j \in i + 1 .. n : j \in S
      PROVE  i \in S
  <2>1. i \in 1 .. Len(text) + 1
    BY <1>1
  <2>2. PICK begin : begin = RunEnd(text, i, Blanks)
    OBVIOUS
  <2>3. PICK token : token = NextToken(text, begin)
    OBVIOUS
  <2>4. PICK rest : rest = from[token.last + 1]
    OBVIOUS
  <2>5. from[i] = IF begin > Len(text) THEN <<>>
                  ELSE IF token.type = "ILLEGAL" THEN <<token>> ELSE <<token>> \o rest
    BY <2>1, <2>2, <2>3, <2>4, TokensUnfolded DEF Continued
  <2>6. CASE begin > Len(text)
    <3>1. from[i] \in Seq(Tokens)
      BY <2>5, <2>6, EmptySeq
    <3> QED
      BY <1>3, <3>1
  <2>7. CASE ~(begin > Len(text))
    <3>1. begin \in 1 .. Len(text) /\ token.last + 1 \in i + 1 .. Len(text) + 1
      BY <2>1, <2>2, <2>3, <2>7, ReadsOn
    <3>2. token \in Tokens
      BY <2>3, <3>1 DEF Tokens
    <3>3. <<token>> \in Seq(Tokens)
      BY <3>2
    <3>4. rest \in Seq(Tokens)
      BY <1>1, <1>3, <1>4, <2>4, <3>1
    <3>5. <<token>> \o rest \in Seq(Tokens)
      BY <3>3, <3>4, ConcatProperties
    <3>6. from[i] \in Seq(Tokens)
      BY <2>5, <2>7, <3>3, <3>5
    <3> QED
      BY <1>3, <3>6
  <2> QED
    BY <2>6, <2>7
<1>5. \A i \in 1 .. n : i \in S
  BY <1>2, <1>4, Backward
<1> QED
  BY <1>1, <1>3, <1>5

LEMMA InvSequenced ==
    ASSUME LexerInv
    PROVE  Sequenced
<1>1. Read /\ 1 \in 1 .. Len(text) + 1
  BY Places DEF LexerInv
<1>2. PICK from : from = TokensFrom(text)
  OBVIOUS
<1>3. tokens = from[1]
  BY <1>2 DEF LexerInv, Tokenize
<1>4. tokens \in Seq(Tokens)
  BY <1>1, <1>2, <1>3, TokensSequenced
<1> QED
  BY <1>4, LenProperties DEF Sequenced

LEMMA InvMeaning ==
    ASSUME LexerInv
    PROVE  ConditionMeaning
<1>1. Sequenced
  BY InvSequenced
<1>2. SUFFICES ASSUME NEW p \in DOMAIN tokens, Type(p) = "WHERE",
                      NEW result, result = Where(p), result.ok,
                      NEW last, last = result.next - 1, NEW rows
               PROVE  Selected(result.tree, rows) = Meant(p + 1, last, rows)
  BY Zenon DEF ConditionMeaning
<1>3. p + 1 \in Positions
  BY <1>1 DEF Sequenced, Positions
<1>4. PICK q : q = p + 1
  OBVIOUS
<1>5. result = Expressions[q]
  BY <1>2, <1>4 DEF Where, Expression
<1>6. Good(q, result, rows)
  BY <1>1, <1>2, <1>3, <1>4, <1>5, ExpressionsMean
<1>7. PICK S : S = Meant(q, last, rows)
  OBVIOUS
<1>8. PICK tree : tree = result.tree
  OBVIOUS
<1>9. Selects(tree, rows, S)
  BY <1>2, <1>6, <1>7, <1>8 DEF Good
<1>10. Selected(tree, rows) = S
  BY <1>9, SelectedRows
<1> QED
  BY <1>4, <1>7, <1>8, <1>10

\* However many ANDs, ORs and parentheses a condition has, and whatever its
\* comparisons yield, the tree that parseExpression makes of it selects the rows
\* that the text says: parentheses first, then AND, then OR (expression.go,
\* parseOrExpression; predicate/builder.go, Build).
THEOREM ConditionsMeanWhatTheySay == Spec => []ConditionMeaning
<1>1. LexerInv => ConditionMeaning
  BY InvMeaning
<1> QED
  BY <1>1, TextLexed, PTL

=============================================================================
