------------------------------- MODULE RowSet -------------------------------
(***************************************************************************)
(* What a table promises: a set of rows and a sequence.  A statement takes *)
(* effect as a whole or not at all, and whether an INSERT is accepted      *)
(* depends on the rows alone.  There are no indexes, no positions and no   *)
(* order here: Table, which decides by its indexes, implements this.       *)
(***************************************************************************)
EXTENDS RowValues

CONSTANTS
    InsertRows,     \* the rows of the INSERT statements
    UpdateRows      \* the assignments of the UPDATE statements

VARIABLES
    content,        \* the set of rows
    last,           \* the auto-increment sequence
    answer          \* what the last statement answered

Key(row) == IF PrimaryKey \in DOMAIN row THEN row[PrimaryKey].n ELSE Successor(last)

\* An explicit key has to be ahead of the sequence.
Behind(row) ==
    /\ AutoIncrement
    /\ PrimaryKey \in DOMAIN row
    /\ ~IsInteger(row[PrimaryKey]) \/ row[PrimaryKey].n <= last

WithKey(row) ==
    IF AutoIncrement THEN Assign(row, [c \in {PrimaryKey} |-> Int64(Key(row))]) ELSE row

\* Some row already holds one of the row's unique values.
Clashes(row) ==
    \E s \in content : \E c \in Indexed \cap DOMAIN row \cap DOMAIN s : s[c] = row[c]

Acceptable(row) == ~Behind(row) /\ Valid(WithKey(row)) /\ ~Clashes(WithKey(row))

Advance(row) ==
    last' = IF AutoIncrement /\ ~Behind(row) THEN Key(row) ELSE last

-----------------------------------------------------------------------------
Start ==
    /\ \A r, s \in content : \A c \in Indexed \cap DOMAIN r \cap DOMAIN s :
          r[c] = s[c] => r = s
    /\ answer = NoAnswer

Accept(row) ==
    /\ Acceptable(row)
    /\ content' = content \cup {WithKey(row)}
    /\ Advance(row)
    /\ answer' = Ok

\* A refused row leaves no trace but the id it may have used up.
Refuse(row) ==
    /\ ~Acceptable(row)
    /\ Advance(row)
    /\ answer' = Refused(row)
    /\ UNCHANGED content

Change(match, updates) ==
    /\ DOMAIN updates \subseteq Column
    /\ content' = {IF r \in match THEN Assign(r, updates) ELSE r : r \in content}
    /\ answer' = Ok
    /\ UNCHANGED last

\* An unknown column changes nothing; it is reported when a row matches.
Reject(match, updates) ==
    /\ ~(DOMAIN updates \subseteq Column)
    /\ answer' = IF match = {} THEN Ok ELSE Error
    /\ UNCHANGED <<content, last>>

Remove(match) ==
    /\ content' = content \ match
    /\ answer' = Ok
    /\ UNCHANGED last

Step ==
    \/ \E row \in InsertRows : Accept(row) \/ Refuse(row)
    \/ \E match \in Selectable(content), updates \in UpdateRows :
          Change(match, updates) \/ Reject(match, updates)
    \/ \E match \in Selectable(content) : Remove(match)

RowSetSpec == Start /\ [][Step]_<<content, last, answer>>

=============================================================================
