------------------------------ MODULE MCQuery ------------------------------
(***************************************************************************)
(* Users, their orders, and what becomes of these, as in SQL_REFERENCE.md. *)
(***************************************************************************)
EXTENDS QueryMeaning

IntLit(n) == [go |-> "int", n |-> n]
TextLit(n) == [go |-> "string", n |-> n]

MCTableName == {"users", "orders", "parcels"}

Columns(names, types) == [i \in DOMAIN names |-> [name |-> names[i], type |-> types[i]]]

MCSchema ==
    [t \in MCTableName |->
        CASE t = "users"  -> Columns(<<"id", "name", "town">>, <<"INT", "TEXT", "TEXT">>)
          [] t = "orders" -> Columns(<<"id", "user_id", "buyer">>, <<"INT", "INT", "TEXT">>)
          [] OTHER        -> Columns(<<"id", "user_id">>, <<"INT", "INT">>)]

\* A row with the cells that have a value.
Row(names, values) ==
    [k \in {<<names[i]>> : i \in DOMAIN names} |->
        values[CHOOSE i \in DOMAIN names : <<names[i]>> = k]]

\* Loaded rows: two users, one without a town, and two orders, one without a
\* user and a buyer; two parcels, one without a user.
MCSeedHeap ==
    << Row(<<"id", "name", "town">>, <<Int64(1), TextLit(1), TextLit(1)>>),
       Row(<<"id", "name">>, <<Int64(2), TextLit(2)>>),
       Row(<<"id", "user_id", "buyer">>, <<Int64(3), Int64(1), TextLit(2)>>),
       Row(<<"id">>, <<Int64(4)>>),
       Row(<<"id", "user_id">>, <<Int64(5), Int64(1)>>),
       Row(<<"id">>, <<Int64(6)>>) >>
MCSeedTables ==
    [t \in MCTableName |->
        CASE t = "users" -> <<1, 2>> [] t = "orders" -> <<3, 4>> [] OTHER -> <<5, 6>>]

NoRows == [t \in MCTableName |-> {}]

\* A user of the same name, and an order for one.
MCInsertCells ==
    [NoRows EXCEPT !["users"] = {Row(<<"name">>, <<TextLit(2)>>)},
                   !["orders"] = {Row(<<"buyer">>, <<TextLit(2)>>)}]

\* An order with the number of its user as a literal.
MCFreshCells == [NoRows EXCEPT !["orders"] = {Row(<<"user_id">>, <<IntLit(2)>>)}]

MCUpdateCells ==
    [NoRows EXCEPT !["users"] = {Row(<<"name", "town">>, <<TextLit(3), TextLit(3)>>)},
                   !["orders"] = {Row(<<"buyer">>, <<TextLit(1)>>)}]

Is(column, value) == [column |-> column, accepts |-> {Compared(value)}]

Always == {<<>>}
FirstUser == {<<Is(<<"id">>, IntLit(1))>>}
MCCondition == {FirstUser, {<<Is(<<"id">>, IntLit(2))>>, <<Is(<<"id">>, IntLit(3))>>}}

Select(from, joins, where, fields) ==
    [from |-> from, joins |-> joins, where |-> where, fields |-> fields]
On(type, table, l, r) == [type |-> type, table |-> table, left |-> l, right |-> r]

ByName(type) == On(type, "orders", <<"users", "name">>, <<"orders", "buyer">>)
ById(type) == On(type, "orders", <<"users", "id">>, <<"orders", "user_id">>)
UserParcels == On("INNER", "parcels", <<"users", "id">>, <<"parcels", "user_id">>)
Parcels == On("INNER", "parcels", <<"orders", "user_id">>, <<"parcels", "user_id">>)

\* One table; each kind of join by name and by id; two joins of three tables, the
\* first with NULLs on the left of its second ON, the other with a name there
\* that two tables have; and one whose columns have different types.
MCQueries ==
    {Select("users", <<>>, {<<Is(<<"name">>, TextLit(2)), Is(<<"id">>, IntLit(2))>>,
                            <<Is(<<"town">>, TextLit(1))>>}, {}),
     Select("users", <<>>, Always, {<<"name">>, <<"town">>}),
     Select("users", <<ById("LEFT"), Parcels>>, Always, {}),
     Select("users", <<ById("INNER"), UserParcels>>, Always, {}),
     Select("users", <<On("INNER", "orders", <<"users", "id">>, <<"orders", "buyer">>)>>, Always, {})}
    \cup {Select("users", <<ByName(type)>>, Always, {}) : type \in {"INNER", "RIGHT"}}
    \cup {Select("users", <<ById(type)>>, Always, {<<"users", "name">>, <<"buyer">>}) :
             type \in {"INNER", "LEFT"}}
    \cup {Select("users", <<ByName(type)>>, {<<Is(<<"users", "name">>, TextLit(2))>>}, {}) :
             type \in {"LEFT", "FULL"}}

MCLeftJoin == {Select("users", <<ById("LEFT")>>, Always, {})}
MCPlain == {Select("users", <<>>, Always, {})}

=============================================================================
