-------------------------- MODULE CatalogRefinement --------------------------
(***************************************************************************)
(* Registry implements Catalog for a single session, as long as no file    *)
(* operation fails: forget the directories, the objects, the mutex and the *)
(* steps in which an operation is carried out.                             *)
(***************************************************************************)
EXTENDS Registry

\* The directories that are being made or removed; a rename has happened when
\* the directory bears its new name.
Unfinished ==
    IF process = "seeding" THEN {Main}
    ELSE IF op.step = "remove" \/ (op.step \in {"truncate", "fill"} /\ op.name = op.to)
    THEN {op.name} ELSE {}

\* A loaded database has what its object has, the others what is on the disk.
TablesOf(name) ==
    IF name \in DOMAIN loaded THEN objects[loaded[name]].tables ELSE disk[name].tables

Store == [n \in DOMAIN disk \ Unfinished |-> TablesOf(n)]

\* The database that a session uses goes by the name in its object.
Current ==
    [s \in Session |-> IF active[s] = Nothing THEN Nothing ELSE objects[active[s]].name]

Names == INSTANCE Catalog WITH
    store <- Store, current <- Current, Write <- 1 .. MaxWrites, NoDatabase <- Nothing

\* Every statement on databases takes effect as a whole, a rename takes all that
\* was changed before it along, a name that is used again stands for an empty
\* database, and the end of the program and its next start change nothing.
CatalogKept == Names!CatalogSpec

=============================================================================
