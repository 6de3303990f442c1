------------------------------ MODULE MCTable ------------------------------
(***************************************************************************)
(* A table of the shape of databases/main/inventory: an auto-increment id, *)
(* a second unique column, and a plain nullable one.                       *)
(***************************************************************************)
EXTENDS TableRefinement

MCColumn == {"id", "code", "price"}
MCColumnName == MCColumn \cup {"typo"}
MCColumnType ==
    [c \in MCColumn |-> CASE c = "id" -> "INT" [] c = "code" -> "TEXT" [] OTHER -> "FLOAT"]
MCUnique == {"code"}
MCNotNull == {"id", "code"}

IntLit(n) == [go |-> "int", n |-> n]
FloatLit(n) == [go |-> "float64", n |-> n]
TextLit(n) == [go |-> "string", n |-> n]

MCSeedRows == << [c \in {"id", "code"} |-> IF c = "id" THEN Int64(1) ELSE TextLit(1)] >>

\* Rows with and without an explicit id, a code and a price; without an id also
\* a price written without a point, and an unknown column.
MCInsertRows ==
    LET options ==
          [id : {{}, {IntLit(2)}, {IntLit(4)}}, code : {{}, {TextLit(1)}, {TextLit(2)}, {TextLit(3)}},
           price : {{}, {FloatLit(1)}, {IntLit(1)}}, typo : {{}, {IntLit(1)}}]
        plain(o) == o.typo = {} /\ o.price # {IntLit(1)}
        chosen(o) == {c \in MCColumnName : o[c] # {}}
    IN  {[c \in chosen(o) |-> CHOOSE v \in o[c] : TRUE] :
            o \in {o \in options : ~plain(o) => o.id = {} /\ (o.typo = {} \/ o.price = {})}}

Cell(c, v) == [x \in {c} |-> v]

\* UPDATEs of the plain column, and of an unknown one.
MCUpdateRows == {Cell("price", FloatLit(2)), Cell("price", IntLit(2)), Cell("typo", IntLit(1))}

\* UPDATEs of a unique column.
MCUniqueUpdates == {Cell("code", TextLit(2)), Cell("price", FloatLit(2))}

=============================================================================
