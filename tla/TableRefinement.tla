--------------------------- MODULE TableRefinement ---------------------------
(***************************************************************************)
(* Table implements RowSet: forget the positions, the indexes and the    *)
(* dirty flag.                                                             *)
(***************************************************************************)
EXTENDS Table

Promise ==
    INSTANCE RowSet WITH content <- Content(Rows), last <- LastInsertID, answer <- reply

\* Every statement of a table takes effect as a whole or not at all, and an
\* INSERT is accepted exactly when no row of the table holds one of its unique
\* values: that the decision is taken from indexes, and that rows move when
\* others are deleted, cannot be told from the outside.
PromiseKept == Promise!RowSetSpec

=============================================================================
