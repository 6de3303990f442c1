------------------------------- MODULE Catalog -------------------------------
(***************************************************************************)
(* What the databases promise to somebody who works with them alone: a     *)
(* catalog of names, in which every statement takes effect at once or not  *)
(* at all, and which outlives the program.                                 *)
(***************************************************************************)
EXTENDS Functions

CONSTANTS
    Session,
    Name,       \* names of databases
    Table,      \* names of tables
    Write,      \* the changes to tables that are told apart
    Main,       \* the database that comes with the program, with
    SeedTable,  \*   these tables
    NoDatabase  \* what a session has that uses no database

VARIABLES
    store,      \* the tables of every database, a set of changes each
    current     \* the database that a session uses

vars == <<store, current>>

Entry(name, tables) == [n \in {name} |-> tables]

\* f, and g where f says nothing.
Over(f, g) == [x \in DOMAIN f \cup DOMAIN g |-> IF x \in DOMAIN f THEN f[x] ELSE g[x]]

Init ==
    /\ store = [n \in {} |-> NoDatabase]
    /\ current = [s \in Session |-> NoDatabase]

\* The first start of the program.
Install ==
    /\ Main \notin DOMAIN store
    /\ store' = Over(Entry(Main, [t \in SeedTable |-> {}]), store)
    /\ UNCHANGED current

CreateDatabase(name) ==
    /\ name \notin DOMAIN store
    /\ store' = Over(Entry(name, [t \in {} |-> {}]), store)
    /\ UNCHANGED current

\* Who uses the database that is dropped has none from then on.
DropDatabase(name) ==
    /\ name \in DOMAIN store
    /\ store' = Restrict(store, DOMAIN store \ {name})
    /\ current' = [s \in Session |-> IF current[s] = name THEN NoDatabase ELSE current[s]]

\* A database is renamed that nobody uses: who asks for it lets go of it first.
RenameDatabase(name, to) ==
    /\ name \in DOMAIN store /\ to \notin DOMAIN store
    /\ \A s \in Session : current[s] # name
    /\ store' = Over(Entry(to, store[name]), Restrict(store, DOMAIN store \ {name}))
    /\ UNCHANGED current

UseDatabase(s, name) ==
    /\ name \in DOMAIN store
    /\ current' = [current EXCEPT ![s] = name]
    /\ UNCHANGED store

Leave(s) ==
    /\ current' = [current EXCEPT ![s] = NoDatabase]
    /\ UNCHANGED store

\* INSERT, UPDATE or DELETE in the database of the session.
ChangeTable(s, t, change) ==
    /\ current[s] # NoDatabase
    /\ t \in DOMAIN store[current[s]]
    /\ \A n \in DOMAIN store : \A u \in DOMAIN store[n] : change \notin store[n][u]
    /\ store' = [store EXCEPT ![current[s]][t] = @ \cup {change}]
    /\ UNCHANGED current

Next ==
    \/ Install
    \/ \E name \in Name :
        \/ CreateDatabase(name) \/ DropDatabase(name)
        \/ \E to \in Name : RenameDatabase(name, to)
    \/ \E s \in Session :
        \/ Leave(s)
        \/ \E name \in Name : UseDatabase(s, name)
        \/ \E t \in Table, change \in Write : ChangeTable(s, t, change)

CatalogSpec == Init /\ [][Next]_vars

=============================================================================
