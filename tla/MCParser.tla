------------------------------ MODULE MCParser ------------------------------
(***************************************************************************)
(* Small instances of Parser: for every kind of statement a beginning, and *)
(* the pieces with which it may go on; and all texts of a few characters.  *)
(***************************************************************************)
EXTENDS Grammar

MCNames == {"users", "orders", "id"}
MCDigits == {"7"}
MCTables == {"users", "orders"}
MCFormats == {<<"DATE", <<"7">>>>, <<"TIME", <<"id">>>>, <<"EMAIL", <<"id">>>>}

\* Words, each followed by a blank.
Words(words) == {<<word, " ">> : word \in words}

Typing(begin, pieces, length) ==
    [text |-> begin, pieces |-> pieces, length |-> length, lexical |-> FALSE]

DeleteWhere == <<"DELETE", " ", "FROM", " ", "users", " ", "WHERE", " ">>

\* No token begins with a #.
MCStart ==
    [characters |->
        [text |-> <<>>, length |-> 4, lexical |-> TRUE,
         pieces |-> {<<c>> : c \in {"or", "id", "7", ".", "<", "=", ">", "!", Quote, " ", "#"}}],
     numbers |->
        [text |-> <<>>, length |-> 6, lexical |-> TRUE,
         pieces |-> {<<c>> : c \in {"id", "7", ".", Quote, " "}}],
     conditions |->
        Typing(DeleteWhere,
            Words({"AND", "OR", "and"}) \cup {<<"(">>, <<")">>, <<"id", "=", "7", " ">>}, 26),
     comparisons |->
        Typing(DeleteWhere,
            {<<c>> : c \in {"id", "7", ".", "<", "=", ">", "EMAIL", ";"}}
              \cup {<<Quote, "id", Quote>>}, 14),
     fields |->
        Typing(<<"SELECT", " ">>,
            Words({"FROM", "users", "email"})
              \cup {<<"(">>, <<")">>, <<",">>, <<".">>, <<"*">>}, 16),
     joins |->
        Typing(<<"SELECT", "*", "FROM", " ", "users", " ">>,
            Words({"JOIN", "INNER", "LEFT", "OUTER", "WHERE", "AND"})
              \cup {<<"orders", " ", "ON", " ">>, <<"id", "=", "7", " ">>,
                    <<"users", ".", "id", "=", "orders", ".", "id", " ">>}, 35),
     inserts |->
        Typing(<<"INSERT", " ", "INTO", " ", "users", " ">>,
            Words({"VALUES", "id"})
              \cup {<<"(">>, <<")">>, <<",">>, <<"7">>}, 20),
     updates |->
        Typing(<<"UPDATE", " ", "users", " ", "SET", " ">>,
            Words({"WHERE", "id", "email"})
              \cup {<<"=">>, <<",">>, <<"7">>, <<Quote, "id", Quote>>, <<";">>}, 20),
     others |->
        Typing(<<>>,
            Words({"CREATE", "DROP", "USE", "ALTER", "DATABASE", "RENAME", "TO", "id",
                   "DELETE", "FROM", "users", "WHERE"})
              \cup {<<";">>}, 12)]

=============================================================================
