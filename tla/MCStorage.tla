----------------------------- MODULE MCStorage -----------------------------
(***************************************************************************)
(* The table of MCTable, smaller, with its files; and one with a TIME.     *)
(***************************************************************************)
EXTENDS Storage

MCColumn == {"id", "code", "price"}
MCColumnName == MCColumn \cup {"typo"}
MCTypes(last) ==
    [c \in MCColumn |-> CASE c = "id" -> "INT" [] c = "code" -> "TEXT" [] OTHER -> last]
MCColumnType == MCTypes("FLOAT")
MCTimeType == MCTypes("TIME")
MCUnique == {"code"}
MCNotNull == {"id", "code"}

Lit(go, n) == [go |-> go, n |-> n]

MCSeedRows == << [c \in {"id", "code"} |-> IF c = "id" THEN Int64(1) ELSE Lit("string", 1)] >>

\* A generated id, and an explicit one with an unknown column.
MCInsertRows ==
    {[c \in {"code"} |-> Lit("string", 2)],
     [c \in {"id", "code", "typo"} |->
         CASE c = "id" -> Lit("int", 3) [] c = "code" -> Lit("string", 1)
           [] OTHER -> Lit("int", 1)]}

\* A FLOAT written without a point is stored as an int.
MCUpdateRows == {[c \in {"price"} |-> Lit("int", 1)]}

MCTimeInserts ==
    {[c \in {"code", "price"} |-> IF c = "code" THEN Lit("string", 2) ELSE Lit("string", 9)]}
MCTimeUpdates == {[c \in {"price"} |-> Lit("string", 9)]}

=============================================================================
