------------------------------ MODULE Registry ------------------------------
(***************************************************************************)
(* The database registry, the sessions that use it and the directories     *)
(* under databases/: manager.Registry, engine.JSONEngine, writer.          *)
(* SaveDatabase, loader.LoadDatabase, the database statements of           *)
(* engine.Execute, and the start and the end of main.                      *)
(*                                                                         *)
(* CREATE, DROP, ALTER ... RENAME and the saving at exit hold the mutex of *)
(* the registry over several file operations; each of these is a step, so  *)
(* that a statement of another session, an error or the death of the       *)
(* process may come in between.  A session keeps a pointer to the database *)
(* object it was given, whatever becomes of that object in the registry.   *)
(*                                                                         *)
(* The rows of a table are abstracted to the set of the statements that    *)
(* changed them.  SaveTable is one step here: Storage looks inside it.     *)
(***************************************************************************)
EXTENDS Naturals, Sequences, FiniteSets, Functions

CONSTANTS
    Session,    \* connections, or the one loop of the REPL
    Name,       \* names of databases
    Table,      \* names of tables
    Main,       \* the name of the database that is embedded in the program
    SeedTable,  \* its tables
    Server,     \* started with --server: then main never returns
    MaxBorn,    \* bound: directories ever made
    MaxLoads,   \* bound: databases loaded by one process
    MaxWrites,  \* bound: changes
    MaxFaults   \* bound: errors of the file system and crashes

VARIABLES
    process,    \* "seeding" while main starts, "up", "exiting" while it returns,
                \* "exited", and "down" after a crash
    disk,       \* the directories by name
    objects,    \* the *schema.Database there are, loaded or not
    loaded,     \* Registry.loaded: the object of a name
    active,     \* Engine.db of each session, Nothing for nil
    op,         \* what the holder of the registry's mutex does next
    left,       \* the databases that are still to be saved at exit
    \* observation
    born,       \* how many directories were ever made
    changes,    \* how many changes were ever made
    acked,      \* the acknowledged changes that no crash has undone
    dropped,    \* the directories that DROP has begun to remove
    faults      \* how many errors and crashes there were

memory == <<objects, loaded, active>>
observed == <<born, changes, acked, dropped, faults>>
vars == <<process, disk, memory, op, left, observed>>

Nothing == 0

\* meta.json of a database: absent, cut off by an unfinished os.WriteFile, or
\* there with the name it says.
Meta == {"absent", "torn"} \cup Name

\* A directory; "made" tells it from every other directory there ever was.
IsDirectory(d) ==
    /\ DOMAIN d = {"made", "meta", "tables"}
    /\ d.made \in Nat
    /\ d.meta \in Meta
    /\ DOMAIN d.tables \subseteq Table
    /\ \A t \in DOMAIN d.tables : d.tables[t] \subseteq Nat

\* A *schema.Database.
IsObject(o) ==
    /\ DOMAIN o = {"name", "path", "made", "tables"}
    /\ o.name \in Name
    /\ o.path \in Name
    /\ o.made \in Nat
    /\ DOMAIN o.tables \subseteq Table
    /\ \A t \in DOMAIN o.tables : o.tables[t] \subseteq Nat

ASSUME RegistryAssumption ==
    /\ {Nothing, "absent", "torn"} \cap Name = {}
    /\ Server \in BOOLEAN
    /\ {MaxBorn, MaxLoads, MaxWrites, MaxFaults} \subseteq Nat
    /\ Main \in Name
    /\ SeedTable \subseteq Table

Without(f, x) == Restrict(f, DOMAIN f \ {x})

With(f, x, value) ==
    [y \in DOMAIN f \cup {x} |-> IF y = x THEN value ELSE f[y]]

\* The mutex is free, or its holder is at a step of an operation on a database,
\* which it renames (to) and of which it still has tables to save (todo); a
\* session waits for it, or none at exit.
Free == [step |-> "free", waiting |-> {}]

Doing(waiting, step, name, to, todo) ==
    [waiting |-> waiting, step |-> step, name |-> name, to |-> to, todo |-> todo]

IsDoing(o) ==
    /\ DOMAIN o = {"waiting", "step", "name", "to", "todo"}
    /\ o.waiting \subseteq Session
    /\ o.step \in {"truncate", "fill", "remove", "move", "save"}
    /\ o.name \in Name /\ o.to \in Name
    /\ o.todo \subseteq Table
    /\ o.step = "remove" => o.name \in DOMAIN disk
    /\ o.step \in {"truncate", "fill"} => o.to \in DOMAIN disk
    /\ o.step = "save" => o.name \in DOMAIN loaded

running == process \in {"seeding", "up", "exiting"}

\* A session is running and nobody holds the mutex.
idle == process = "up" /\ op.step = "free"

\* Changes, with the directory and the table they belong to.
InTables(x) ==
    UNION {{<<x.made, t, change>> : change \in x.tables[t]} : t \in DOMAIN x.tables}

OnDisk == UNION {InTables(disk[n]) : n \in DOMAIN disk}

Empty == [x \in {} |-> Nothing]

Init ==
    /\ process = "down"
    /\ disk = Empty
    /\ objects = <<>>
    /\ loaded = Empty
    /\ active = [s \in Session |-> Nothing]
    /\ op = Free
    /\ left = {}
    /\ born = 0
    /\ changes = 0
    /\ acked = {}
    /\ dropped = {}
    /\ faults = 0

-----------------------------------------------------------------------------
(* The start of main.                                                      *)

NewDirectory == [made |-> born', meta |-> "absent", tables |-> Empty]

\* ensureDatabaseSeeded only asks whether there is a directory of that name.
Start ==
    /\ process \in {"exited", "down"}
    /\ IF Main \in DOMAIN disk
       THEN process' = "up" /\ UNCHANGED <<disk, born>>
       ELSE /\ born < MaxBorn
            /\ born' = born + 1
            /\ process' = "seeding"
            /\ disk' = With(disk, Main, NewDirectory)
    /\ UNCHANGED <<memory, op, left, changes, acked, dropped, faults>>

\* It copies the embedded files one after the other (in any order, here).
SeedMeta ==
    /\ process = "seeding"
    /\ disk[Main].meta = "absent"
    /\ disk' = [disk EXCEPT ![Main].meta = Main]
    /\ UNCHANGED <<process, memory, op, left, observed>>

SeedOneTable(t) ==
    /\ process = "seeding"
    /\ t \in SeedTable \ DOMAIN disk[Main].tables
    /\ disk' = [disk EXCEPT ![Main].tables = With(@, t, {})]
    /\ UNCHANGED <<process, memory, op, left, observed>>

Seeded ==
    /\ process = "seeding"
    /\ disk[Main].meta = Main /\ DOMAIN disk[Main].tables = SeedTable
    /\ process' = "up"
    /\ UNCHANGED <<disk, memory, op, left, observed>>

\* An error is only logged: the program goes on with what was copied.
SeedFails ==
    /\ process = "seeding"
    /\ faults < MaxFaults
    /\ faults' = faults + 1
    /\ process' = "up"
    /\ UNCHANGED <<disk, memory, op, left, born, changes, acked, dropped>>

-----------------------------------------------------------------------------
(* USE, and a statement that changes a table.                              *)

\* Registry.Get: the object that is loaded, or one read from the directory.
UseLoaded(s, name) ==
    /\ idle
    /\ name \in DOMAIN loaded
    /\ active' = [active EXCEPT ![s] = loaded[name]]
    /\ UNCHANGED <<process, disk, objects, loaded, op, left, observed>>

\* Mutant: the tables come up empty.
ReadEmpty(name) ==
    [name |-> disk[name].meta, path |-> name, made |-> disk[name].made,
     tables |-> [t \in DOMAIN disk[name].tables |-> {}]]

Read(name) ==
    [name |-> disk[name].meta, path |-> name,
     made |-> disk[name].made, tables |-> disk[name].tables]

UseFromDisk(s, name) ==
    /\ idle
    /\ name \notin DOMAIN loaded
    /\ name \in DOMAIN disk
    /\ disk[name].meta \in Name
    /\ Len(objects) < MaxLoads
    /\ objects' = Append(objects, Read(name))
    /\ loaded' = With(loaded, name, Len(objects'))
    /\ active' = [active EXCEPT ![s] = Len(objects')]
    /\ UNCHANGED <<process, disk, op, left, observed>>

\* INSERT, UPDATE or DELETE: it needs a table's lock, not the registry's.
Change(s, t) ==
    /\ process = "up"
    /\ s \notin op.waiting
    /\ active[s] # Nothing
    /\ t \in DOMAIN objects[active[s]].tables
    /\ changes < MaxWrites
    /\ changes' = changes + 1
    /\ objects' = [objects EXCEPT ![active[s]].tables[t] = @ \cup {changes'}]
    /\ acked' = acked \cup {<<objects[active[s]].made, t, changes'>>}
    /\ UNCHANGED <<process, disk, loaded, active, op, left, born, dropped, faults>>

\* A connection ends, also when an answer cannot be sent; the next one begins
\* without a database.
Disconnect(s) ==
    /\ process = "up"
    /\ Server
    /\ s \notin op.waiting
    /\ active[s] # Nothing
    /\ active' = [active EXCEPT ![s] = Nothing]
    /\ UNCHANGED <<process, disk, objects, loaded, op, left, observed>>

-----------------------------------------------------------------------------
(* CREATE, DROP and ALTER DATABASE.                                        *)

\* Mutant: the session goes on with its database.
StillAttached(s, name) == active

\* The session gives up its database when that bears the name.
Detached(s, name) ==
    IF active[s] # Nothing /\ objects[active[s]].name = name
    THEN [active EXCEPT ![s] = Nothing] ELSE active

\* JSONEngine.CreateDatabase makes the directory first.
Create(s, name) ==
    /\ idle
    /\ name \notin DOMAIN loaded
    /\ name \notin DOMAIN disk
    /\ born < MaxBorn
    /\ born' = born + 1
    /\ disk' = With(disk, name, NewDirectory)
    /\ op' = Doing({s}, "truncate", name, name, {})
    /\ UNCHANGED <<process, memory, left, changes, acked, dropped, faults>>

\* os.WriteFile on meta.json itself, by CreateDatabase and RenameDatabase.
TruncateMeta ==
    /\ process = "up"
    /\ op.step = "truncate"
    /\ disk' = [disk EXCEPT ![op.to].meta = "torn"]
    /\ op' = [op EXCEPT !.step = "fill"]
    /\ UNCHANGED <<process, memory, left, observed>>

\* Mutant: meta.json goes on saying the old name.
OldName == op.name

MetaName == op.to

FillMeta ==
    /\ process = "up"
    /\ op.step = "fill"
    /\ disk' = [disk EXCEPT ![op.to].meta = MetaName]
    /\ op' = Free
    /\ UNCHANGED <<process, memory, left, observed>>

\* Mutant: the object stays in the registry.
StillLoaded(name) == loaded

Unloaded(name) == Without(loaded, name)

\* Registry.Drop forgets the object before JSONEngine.DropDatabase looks
\* whether there is a directory.
Drop(s, name) ==
    /\ idle
    /\ active' = Detached(s, name)
    /\ loaded' = Unloaded(name)
    /\ IF name \in DOMAIN disk
       THEN /\ op' = Doing({s}, "remove", name, name, {})
            /\ dropped' = dropped \cup {disk[name].made}
       ELSE UNCHANGED <<op, dropped>>
    /\ UNCHANGED <<process, disk, objects, left, born, changes, acked, faults>>

\* os.RemoveAll: the entries in any order, and then the directory.
RemoveEntry ==
    /\ process = "up"
    /\ op.step = "remove"
    /\ LET d == disk[op.name]
       IN  \/ /\ d.meta # "absent"
              /\ disk' = [disk EXCEPT ![op.name].meta = "absent"]
           \/ \E t \in DOMAIN d.tables :
                disk' = [disk EXCEPT ![op.name].tables = Without(d.tables, t)]
    /\ UNCHANGED <<process, memory, op, left, observed>>

RemoveDirectory ==
    /\ process = "up"
    /\ op.step = "remove"
    /\ disk[op.name].meta = "absent" /\ DOMAIN disk[op.name].tables = {}
    /\ disk' = Without(disk, op.name)
    /\ op' = Free
    /\ UNCHANGED <<process, memory, left, observed>>

\* Registry.Rename saves a loaded database first.
Rename(s, name, to) ==
    /\ idle
    /\ active' = Detached(s, name)
    /\ op' = IF name \in DOMAIN loaded
             THEN Doing({s}, "save", name, to, DOMAIN objects[loaded[name]].tables)
             ELSE Doing({s}, "move", name, to, {})
    /\ UNCHANGED <<process, disk, objects, loaded, left, observed>>

\* Mutant: the old directory stays where it was.
Copied == With(disk, op.to, disk[op.name])

\* Mutant: it is moved out of the databases' directory.
MovedAway == Without(disk, op.name)

Moved == Without(With(disk, op.to, disk[op.name]), op.name)

\* JSONEngine.RenameDatabase: the two checks, os.Rename, and the reading of the
\* metadata that are to be rewritten.
Move ==
    /\ process = "up"
    /\ op.step = "move"
    /\ IF op.name \in DOMAIN disk /\ op.to \notin DOMAIN disk
       THEN /\ disk' = Moved
            /\ op' = IF disk[op.name].meta \in Name
                     THEN [op EXCEPT !.step = "truncate"] ELSE Free
       ELSE op' = Free /\ UNCHANGED disk
    /\ UNCHANGED <<process, memory, left, observed>>

-----------------------------------------------------------------------------
(* writer.SaveDatabase, for ALTER DATABASE and at exit.                    *)

saved == objects[loaded[op.name]]

\* The tables in any order.
SaveTable(t) ==
    /\ running
    /\ op.step = "save"
    /\ t \in op.todo
    /\ saved.path \in DOMAIN disk /\ t \in DOMAIN disk[saved.path].tables
    /\ disk' = [disk EXCEPT ![saved.path].tables[t] = saved.tables[t]]
    /\ op' = [op EXCEPT !.todo = @ \ {t}]
    /\ UNCHANGED <<process, memory, left, observed>>

\* The metadata, renamed into place; Rename unloads the database then.
SaveMeta ==
    /\ running
    /\ op.step = "save"
    /\ op.todo = {}
    /\ saved.path \in DOMAIN disk
    /\ disk' = [disk EXCEPT ![saved.path].meta = saved.name]
    /\ IF process = "exiting"
       THEN op' = Free /\ UNCHANGED loaded
       ELSE op' = [op EXCEPT !.step = "move"] /\ loaded' = Unloaded(op.name)
    /\ UNCHANGED <<process, objects, active, left, observed>>

\* Mutant: only the databases that a session uses are saved.
InUse == {n \in DOMAIN loaded : \E s \in Session : active[s] = loaded[n]}

ToSave == DOMAIN loaded

\* The REPL ends, and the deferred Registry.SaveAll takes the mutex ...
Exit ==
    /\ idle
    /\ ~Server
    /\ process' = "exiting"
    /\ left' = ToSave
    /\ UNCHANGED <<disk, memory, op, observed>>

\* ... saves the databases in any order, whatever became of the others ...
SaveNext(name) ==
    /\ process = "exiting"
    /\ op.step = "free"
    /\ name \in left
    /\ left' = left \ {name}
    /\ op' = Doing({}, "save", name, name, DOMAIN objects[loaded[name]].tables)
    /\ UNCHANGED <<process, disk, memory, observed>>

\* What a process that ends leaves: the directories.
Forgotten ==
    /\ objects' = <<>>
    /\ loaded' = Empty
    /\ active' = [s \in Session |-> Nothing]
    /\ op' = Free
    /\ left' = {}

\* ... and is done.
Exited ==
    /\ process = "exiting"
    /\ op.step = "free"
    /\ left = {}
    /\ process' = "exited"
    /\ Forgotten
    /\ UNCHANGED <<disk, observed>>

-----------------------------------------------------------------------------
(* Errors and crashes.                                                     *)

\* A file operation returns an error, and so does the statement; SaveAll only
\* logs it and goes on to the next database.
OperationFails ==
    /\ running
    /\ op.step # "free"
    /\ faults < MaxFaults
    /\ faults' = faults + 1
    /\ op' = Free
    /\ UNCHANGED <<process, disk, memory, left, born, changes, acked, dropped>>

\* The process is killed, the only way in which the server ends: the changes
\* that were not saved are lost.
Crash ==
    /\ running
    /\ faults < MaxFaults
    /\ faults' = faults + 1
    /\ process' = "down"
    /\ Forgotten
    /\ acked' = acked \cap OnDisk
    /\ UNCHANGED <<disk, born, changes, dropped>>

Next ==
    \/ Start \/ SeedMeta \/ (\E t \in Table : SeedOneTable(t)) \/ Seeded \/ SeedFails
    \/ \E s \in Session, name \in Name :
        \/ UseLoaded(s, name) \/ UseFromDisk(s, name)
        \/ Create(s, name) \/ Drop(s, name)
        \/ \E to \in Name : Rename(s, name, to)
    \/ \E s \in Session, t \in Table : Change(s, t)
    \/ \E s \in Session : Disconnect(s)
    \/ TruncateMeta \/ FillMeta \/ RemoveEntry \/ RemoveDirectory \/ Move
    \/ \E t \in Table : SaveTable(t)
    \/ SaveMeta
    \/ Exit \/ (\E name \in Name : SaveNext(name)) \/ Exited
    \/ OperationFails \/ Crash

Spec == Init /\ [][Next]_vars

\* Whoever holds the mutex waits for nobody: it goes on with its operation, and
\* the end of main with its saves.
MutexHolder ==
    \/ TruncateMeta \/ FillMeta \/ RemoveEntry \/ RemoveDirectory \/ Move
    \/ (\E t \in Table : SaveTable(t)) \/ SaveMeta
    \/ (\E name \in Name : SaveNext(name)) \/ Exited

FairSpec == Spec /\ WF_vars(MutexHolder)

-----------------------------------------------------------------------------
TypeOK ==
    /\ process \in {"seeding", "up", "exiting", "exited", "down"}
    /\ DOMAIN disk \subseteq Name
    /\ \A n \in DOMAIN disk : IsDirectory(disk[n])
    /\ objects \in Seq({objects[i] : i \in DOMAIN objects})
    /\ \A i \in DOMAIN objects : IsObject(objects[i])
    /\ DOMAIN loaded \subseteq Name
    /\ \A n \in DOMAIN loaded : loaded[n] \in DOMAIN objects
    /\ DOMAIN active = Session
    /\ \A s \in Session : active[s] # Nothing => active[s] \in DOMAIN objects
    /\ op = Free \/ IsDoing(op)
    /\ left \subseteq DOMAIN loaded

\* All that was saved in the one is in the other.
Keeps(d, e) ==
    /\ e.made = d.made
    /\ \A t \in DOMAIN d.tables : t \in DOMAIN e.tables /\ d.tables[t] \subseteq e.tables[t]

\* A loaded database is saved into the very directory it was read from,
\* whatever was dropped, made anew and renamed since, and nothing that is in
\* the directory is missing from the object, so that no save loses a change.
LoadedIsHome ==
    \A n \in DOMAIN loaded :
        LET object == objects[loaded[n]]
        IN  /\ object.path = n
            /\ n \in DOMAIN disk
            /\ Keeps(disk[n], object)
            /\ DOMAIN object.tables = DOMAIN disk[n].tables

\* A directory that no DROP was asked to remove is there exactly once, also
\* when a rename fails or the process dies in the middle of it.
NoneLostOrDoubled ==
    \A made \in 1 .. born \ dropped :
        \E n \in DOMAIN disk :
            /\ disk[n].made = made
            /\ \A m \in DOMAIN disk : disk[m].made = made => m = n

\* A change that has reached the disk stays there until its database is
\* dropped: no save, rename or crash takes it back.
SavedStays ==
    [][\A n \in DOMAIN disk :
         disk[n].made \notin dropped' =>
           \E m \in DOMAIN disk' : Keeps(disk[n], disk'[m])]_vars

\* "Rename saves, unloads, and renames a database" (registry.go:79): every
\* acknowledged change is in the directory, or in the object that the registry
\* gives to whoever uses the database and saves at exit.
AckedReachable ==
    {w \in acked : w[1] \notin dropped} \subseteq
        OnDisk \cup UNION {InTables(objects[loaded[n]]) : n \in DOMAIN loaded}

\* The name by which a session decides whether it loses its database is the one
\* that RENAME and CREATE wrote: as long as no file operation has failed, a
\* database says the name of its directory, on the disk and in the object, even
\* after a save and a rename that another session's statements came between.
NamesItself ==
    faults = 0 /\ op.step = "free" /\ process # "seeding" =>
        /\ \A n \in DOMAIN disk : disk[n].meta = n
        /\ \A n \in DOMAIN loaded : objects[loaded[n]].name = n

\* "Engine triggers SaveAll() on shutdown" (storage/README.md:361): when the
\* REPL ends without errors, every acknowledged change is on the disk in the
\* end, whichever databases were used, renamed or left in the meantime.
SavedAtExit ==
    process = "exiting" ~>
        process = "exited" /\ {w \in acked : w[1] \notin dropped} \subseteq OnDisk

\* "Partial write: Temp files prevent corruption" (storage/README.md:432): a
\* change that has reached the disk can be read from there, whenever no operation
\* on the databases is under way, until its database is dropped.
SavedReadable ==
    op.step = "free" =>
        \A n \in DOMAIN disk :
            InTables(disk[n]) # {} /\ disk[n].made \notin dropped
            => disk[n].meta \in Name

=============================================================================
