---------------------------- MODULE CatalogProofs ----------------------------
(***************************************************************************)
(* With a single session and a sound file system, as in the REPL: no       *)
(* acknowledged change gets out of reach, and Registry implements Catalog, *)
(* each of its steps being a statement of the catalog, or one that cannot  *)
(* be told from the outside.                                               *)
(***************************************************************************)
EXTENDS CatalogRefinement, RegistryProofs

\* One session, and no error or crash.
Repl ==
    /\ \A s, t \in Session : s = t
    /\ MaxFaults = 0

\* The session's database is loaded, and not the one being renamed; the session
\* waits for the operation it has asked for.
SessionInv ==
    /\ \A s \in Session : active[s] # Nothing =>
          \E n \in DOMAIN loaded :
              loaded[n] = active[s] /\ (process = "up" /\ op.step = "save" => n # op.name)
    /\ process = "up" /\ op.step # "free" => op.waiting = Session

\* Table t of the object is on the disk.
Written(n, t) == disk[n].tables[t] = objects[loaded[n]].tables[t]

\* The save under way, and the saves at exit that are done.
WrittenInv ==
    /\ op.step = "save" => \A t \in DOMAIN saved.tables \ op.todo : Written(op.name, t)
    /\ process = "exiting" =>
          \A n \in DOMAIN loaded \ left :
              (op.step = "save" /\ n = op.name)
                \/ \A t \in DOMAIN objects[loaded[n]].tables : Written(n, t)

ReplInv == RegistryInv /\ NamesInv /\ faults = 0 /\ SessionInv /\ WrittenInv

LEMMA InTablesIff ==
    ASSUME NEW x, NEW w
    PROVE  w \in InTables(x) <=>
             \E t \in DOMAIN x.tables : \E change \in x.tables[t] : w = <<x.made, t, change>>
BY DEF InTables

-----------------------------------------------------------------------------
LEMMA ReplInit == Init => ReplInv
<1> SUFFICES ASSUME Init PROVE ReplInv
  OBVIOUS
<1>1. DOMAIN disk = {} /\ DOMAIN loaded = {} /\ op.step = "free"
  BY DEF Init, Empty, Free
<1> QED
  BY <1>1, InvInit, NamesInit DEF Init, ReplInv, SessionInv, WrittenInv

\* Nothing of what the two invariants speak of changes.
LEMMA ReplSame ==
    ASSUME ReplInv, UNCHANGED <<process, objects, loaded, active, op, left>>,
           \A n \in DOMAIN loaded : disk'[n].tables = disk[n].tables
    PROVE  (SessionInv /\ WrittenInv)'
<1>1. op.step = "save" => op.name \in DOMAIN loaded
  BY SavedAtHome DEF ReplInv
<1> QED
  BY <1>1 DEF ReplInv, SessionInv, WrittenInv, Written, saved

LEMMA ReplStartSeeding ==
    ASSUME ReplInv,
           Start \/ SeedMeta \/ (\E t \in Table : SeedOneTable(t)) \/ Seeded
    PROVE  (SessionInv /\ WrittenInv)'
<1>1. op.step = "free" /\ DOMAIN loaded = {}
  BY DEF ReplInv, RegistryInv, MutexInv, Start, SeedMeta, SeedOneTable, Seeded, Free, Empty
<1>2. UNCHANGED <<objects, loaded, active, op, left, faults>> /\ process' \in {"seeding", "up"}
  BY DEF Start, SeedMeta, SeedOneTable, Seeded, memory, observed
<1>3. \A s \in Session : active[s] = Nothing
  BY <1>1 DEF ReplInv, SessionInv
<1> QED
  BY <1>1, <1>2, <1>3 DEF ReplInv, SessionInv, WrittenInv

LEMMA ReplUse ==
    ASSUME ReplInv, NEW s \in Session, NEW name \in Name,
           UseLoaded(s, name) \/ UseFromDisk(s, name)
    PROVE  (SessionInv /\ WrittenInv)'
<1>1. op.step = "free" /\ process = "up"
  BY DEF UseLoaded, UseFromDisk, idle
<1>2. UNCHANGED <<process, disk, op, left, faults>>
  BY DEF UseLoaded, UseFromDisk, observed
<1>3. CASE UseLoaded(s, name)
  <2>1. UNCHANGED <<objects, loaded>> /\ name \in DOMAIN loaded
        /\ active' = [active EXCEPT ![s] = loaded[name]]
    BY <1>3 DEF UseLoaded
  <2> QED
    BY <1>1, <1>2, <2>1
    DEF ReplInv, SessionInv, WrittenInv, RegistryInv, MemoryInv, MemoryOK
<1>4. CASE UseFromDisk(s, name)
  <2>1. /\ DOMAIN loaded' = DOMAIN loaded \cup {name} /\ loaded'[name] = Len(objects')
        /\ \A n \in DOMAIN loaded : loaded'[n] = loaded[n]
        /\ active' = [active EXCEPT ![s] = Len(objects')]
    BY <1>4 DEF UseFromDisk, With
  <2>2. SessionInv'
    BY <1>1, <1>2, <2>1 DEF ReplInv, SessionInv, RegistryInv, MemoryInv, MemoryOK
  <2> QED
    BY <1>1, <1>2, <2>2 DEF WrittenInv
<1> QED
  BY <1>3, <1>4

\* A change is made only while nothing is being saved.
LEMMA ReplChange ==
    ASSUME ReplInv, NEW s \in Session, NEW t \in Table, Change(s, t)
    PROVE  (SessionInv /\ WrittenInv)'
<1>1. op.step = "free" /\ process = "up"
  BY DEF Change, ReplInv, SessionInv
<1>2. UNCHANGED <<process, disk, loaded, active, op, left, faults>>
  BY DEF Change
<1> QED
  BY <1>1, <1>2 DEF ReplInv, SessionInv, WrittenInv

LEMMA ReplDisconnect ==
    ASSUME ReplInv, NEW s \in Session, Disconnect(s)
    PROVE  (SessionInv /\ WrittenInv)'
<1>1. /\ UNCHANGED <<process, disk, objects, loaded, op, left, faults>>
      /\ \A r \in Session : active'[r] \in {Nothing, active[r]}
  BY DEF Disconnect, observed, ReplInv, RegistryInv, MemoryInv, MemoryOK
<1>2. WrittenInv'
  BY <1>1 DEF ReplInv, WrittenInv, Written, saved
<1>3. SessionInv'
  BY <1>1 DEF ReplInv, SessionInv
<1> QED
  BY <1>2, <1>3

LEMMA ReplCreate ==
    ASSUME Repl, ReplInv, NEW s \in Session, NEW name \in Name, Create(s, name)
    PROVE  (SessionInv /\ WrittenInv)'
<1>1. op.step = "free" /\ process = "up"
  BY DEF Create, idle
<1>2. UNCHANGED <<process, objects, loaded, active, left, faults>>
  BY DEF Create, memory
<1>3. op' = Doing({s}, "truncate", name, name, {}) /\ Session = {s}
  BY DEF Create, Repl
<1> QED
  BY <1>1, <1>2, <1>3 DEF ReplInv, SessionInv, WrittenInv, Doing

LEMMA ReplDrop ==
    ASSUME Repl, ReplInv, NEW s \in Session, NEW name \in Name, Drop(s, name)
    PROVE  (SessionInv /\ WrittenInv)'
<1>1. op.step = "free" /\ process = "up"
  BY DEF Drop, idle
<1>2. UNCHANGED <<process, disk, objects, left, faults>>
  BY DEF Drop
<1>3. /\ DOMAIN loaded' = DOMAIN loaded \ {name}
      /\ \A n \in DOMAIN loaded' : loaded'[n] = loaded[n]
  BY DEF Drop, Unloaded, Without, Restrict
<1>4. /\ UNCHANGED op \/ op' = Doing({s}, "remove", name, name, {})
      /\ Session = {s}
  BY DEF Drop, Repl
<1>5. active' = Detached(s, name)
  BY DEF Drop
<1>6. SessionInv'
  <2>1. ASSUME active'[s] # Nothing
        PROVE  \E n \in DOMAIN loaded' : loaded'[n] = active'[s]
    <3>1. active'[s] = active[s] /\ objects[active[s]].name # name
      BY <1>5, <2>1 DEF Detached, ReplInv, RegistryInv, MemoryInv, MemoryOK
    <3>2. PICK n \in DOMAIN loaded : loaded[n] = active[s]
      BY <2>1, <3>1 DEF ReplInv, SessionInv
    <3>3. n # name
      BY <3>1, <3>2 DEF ReplInv, NamesInv, MemoryNamed
    <3> QED
      BY <1>3, <3>1, <3>2, <3>3
  <2> QED
    BY <1>1, <1>4, <2>1 DEF SessionInv, Doing
<1>7. WrittenInv'
  BY <1>1, <1>2, <1>4 DEF WrittenInv, Doing
<1> QED
  BY <1>6, <1>7

\* The session lets go of the database that it renames.
LEMMA ReplRename ==
    ASSUME Repl, ReplInv, NEW s \in Session, NEW name \in Name, NEW to \in Name,
           Rename(s, name, to)
    PROVE  (SessionInv /\ WrittenInv)'
<1>1. op.step = "free" /\ process = "up"
  BY DEF Rename, idle
<1>2. UNCHANGED <<process, disk, objects, loaded, left, faults>>
  BY DEF Rename, observed
<1>3. /\ op'.waiting = {s} /\ op'.step \in {"save", "move"} /\ op'.name = name
      /\ op'.step = "save" => op'.todo = DOMAIN objects[loaded[name]].tables
      /\ Session = {s}
  BY DEF Rename, Doing, Repl
<1>4. active' = Detached(s, name)
  BY DEF Rename
<1>5. SessionInv'
  <2>1. ASSUME active'[s] # Nothing
        PROVE  \E n \in DOMAIN loaded' : loaded'[n] = active'[s] /\ n # name
    <3>1. active'[s] = active[s] /\ objects[active[s]].name # name
      BY <1>4, <2>1 DEF Detached, ReplInv, RegistryInv, MemoryInv, MemoryOK
    <3>2. PICK n \in DOMAIN loaded : loaded[n] = active[s]
      BY <2>1, <3>1 DEF ReplInv, SessionInv
    <3>3. n # name
      BY <3>1, <3>2 DEF ReplInv, NamesInv, MemoryNamed
    <3> QED
      BY <1>2, <3>1, <3>2, <3>3
  <2> QED
    BY <1>3, <2>1 DEF SessionInv
<1>6. WrittenInv'
  <2>1. op'.step = "save" => DOMAIN saved'.tables \ op'.todo = {}
    BY <1>2, <1>3 DEF saved
  <2> QED
    BY <1>1, <1>2, <2>1 DEF WrittenInv
<1> QED
  BY <1>5, <1>6

\* The steps of an operation that neither save nor unload.
LEMMA ReplOperation ==
    ASSUME ReplInv, TruncateMeta \/ FillMeta \/ RemoveEntry \/ RemoveDirectory \/ Move
    PROVE  (SessionInv /\ WrittenInv)'
<1>1. /\ process = "up" /\ IsDoing(op)
      /\ op.step \in {"truncate", "fill", "remove", "move"}
  BY FreeOrDoing
  DEF ReplInv, RegistryInv, MutexInv, TruncateMeta, FillMeta, RemoveEntry, RemoveDirectory, Move
<1>2. UNCHANGED <<process, objects, loaded, active, left>>
  BY DEF TruncateMeta, FillMeta, RemoveEntry, RemoveDirectory, Move, memory
<1>3. /\ op'.step \in {"free", "fill", "remove", "truncate"}
      /\ op'.step # "free" => op'.waiting = op.waiting
  BY <1>1 DEF TruncateMeta, FillMeta, RemoveEntry, RemoveDirectory, Move, IsDoing, Free
<1> QED
  BY <1>1, <1>2, <1>3 DEF ReplInv, SessionInv, WrittenInv

LEMMA ReplSaveTable ==
    ASSUME ReplInv, NEW t \in Table, SaveTable(t)
    PROVE  (SessionInv /\ WrittenInv)'
<1>1. /\ op.step = "save" /\ IsDoing(op) /\ op.name \in DOMAIN loaded
      /\ DOMAIN saved.tables = DOMAIN disk[op.name].tables
  BY SavedAtHome DEF SaveTable, ReplInv
<1>2. UNCHANGED <<process, objects, loaded, active, left, faults>>
  BY DEF SaveTable, memory, observed
<1>3. /\ op.name \in DOMAIN disk /\ t \in DOMAIN disk[op.name].tables
      /\ Rewritten(op.name)
      /\ disk'[op.name].tables = [disk[op.name].tables EXCEPT ![t] = saved.tables[t]]
  BY SaveTableWrites DEF ReplInv
<1>4. op' = [op EXCEPT !.todo = @ \ {t}]
  BY DEF SaveTable
<1>5. /\ op'.step = "save" /\ op'.name = op.name /\ op'.waiting = op.waiting
      /\ op'.todo = op.todo \ {t}
  BY <1>1, <1>4 DEF IsDoing
<1>6. SessionInv'
  BY <1>1, <1>2, <1>5 DEF ReplInv, SessionInv
<1>7. WrittenInv'
  <2>1. saved' = saved
    BY <1>2, <1>5 DEF saved
  <2>2. ASSUME NEW u \in DOMAIN saved.tables \ op'.todo
        PROVE  Written(op.name, u)'
    BY <1>1, <1>2, <1>3, <1>5, <2>2 DEF ReplInv, WrittenInv, Written, saved
  <2>3. ASSUME process = "exiting", NEW n \in DOMAIN loaded \ left, n # op.name,
               NEW u \in DOMAIN objects[loaded[n]].tables
        PROVE  Written(n, u)'
    <3>1. n \in DOMAIN disk
      BY DEF ReplInv, RegistryInv, LoadedIsHome
    <3>2. disk'[n] = disk[n]
      BY <1>3, <2>3, <3>1 DEF Rewritten
    <3> QED
      BY <1>2, <2>3, <3>2 DEF ReplInv, WrittenInv, Written
  <2> QED
    BY <1>2, <1>5, <2>1, <2>2, <2>3 DEF WrittenInv
<1> QED
  BY <1>6, <1>7

LEMMA ReplSaveMeta ==
    ASSUME ReplInv, SaveMeta
    PROVE  (SessionInv /\ WrittenInv)'
<1>1. /\ op.step = "save" /\ IsDoing(op) /\ op.todo = {} /\ op.name \in DOMAIN loaded
      /\ op.name \in DOMAIN disk /\ saved.path = op.name
  BY SavedAtHome DEF SaveMeta, ReplInv
<1>2. UNCHANGED <<process, objects, active, left, faults>>
  BY DEF SaveMeta, observed
<1>3. /\ DOMAIN disk' = DOMAIN disk
      /\ \A n \in DOMAIN disk \ {op.name} : disk'[n] = disk[n]
      /\ disk'[op.name].tables = disk[op.name].tables
  BY <1>1 DEF SaveMeta, ReplInv, RegistryInv, DiskInv, DiskOK, IsDirectory
<1>4. /\ process \in {"up", "exiting"}
      /\ process = "exiting" => op' = Free /\ UNCHANGED loaded
      /\ process = "up" => /\ op' = [op EXCEPT !.step = "move"]
                           /\ DOMAIN loaded' = DOMAIN loaded \ {op.name}
                           /\ \A n \in DOMAIN loaded' : loaded'[n] = loaded[n]
  BY <1>1 DEF SaveMeta, Unloaded, Without, Restrict, ReplInv, RegistryInv, MutexInv, OpOK, Free
<1>5. /\ op'.step \in {"free", "move"}
      /\ process = "up" => op'.waiting = op.waiting
  BY <1>1, <1>4 DEF IsDoing, Free
<1>6. SessionInv'
  BY <1>1, <1>2, <1>4, <1>5 DEF ReplInv, SessionInv
<1>7. WrittenInv'
  <2>1. ASSUME process = "exiting", NEW n \in DOMAIN loaded \ left,
               NEW t \in DOMAIN objects[loaded[n]].tables
        PROVE  Written(n, t)'
    <3>1. Written(n, t)
      BY <1>1, <2>1 DEF ReplInv, WrittenInv, saved
    <3>2. disk'[n].tables = disk[n].tables
      BY <1>3 DEF ReplInv, RegistryInv, LoadedIsHome
    <3> QED
      BY <1>2, <1>4, <2>1, <3>1, <3>2 DEF Written
  <2> QED
    BY <1>2, <1>4, <1>5, <2>1 DEF WrittenInv
<1> QED
  BY <1>6, <1>7

LEMMA ReplExit ==
    ASSUME ReplInv, Exit \/ (\E name \in Name : SaveNext(name)) \/ Exited
    PROVE  (SessionInv /\ WrittenInv)'
<1>1. op.step = "free" /\ UNCHANGED <<disk, faults>>
  BY DEF Exit, SaveNext, Exited, idle, observed
<1>2. CASE Exit
  <2>1. /\ UNCHANGED <<objects, loaded, active, op>>
        /\ process' = "exiting" /\ left' = DOMAIN loaded
    BY <1>2 DEF Exit, ToSave, memory
  <2> QED
    BY <1>1, <2>1 DEF ReplInv, SessionInv, WrittenInv
<1>3. ASSUME NEW name \in Name, SaveNext(name)
      PROVE  (SessionInv /\ WrittenInv)'
  <2>1. /\ UNCHANGED <<process, objects, loaded, active>>
        /\ process = "exiting" /\ left' = left \ {name}
        /\ op'.step = "save" /\ op'.name = name
        /\ op'.todo = DOMAIN objects[loaded[name]].tables
    BY <1>3 DEF SaveNext, Doing, memory
  <2>2. DOMAIN saved'.tables \ op'.todo = {}
    BY <2>1 DEF saved
  <2> QED
    BY <1>1, <2>1, <2>2 DEF ReplInv, SessionInv, WrittenInv, Written
<1>4. CASE Exited
  <2>1. /\ DOMAIN loaded' = {} /\ process' = "exited" /\ op'.step = "free"
        /\ \A s \in Session : active'[s] = Nothing
    BY <1>4 DEF Exited, Forgotten, Empty, Free
  <2> QED
    BY <1>1, <2>1 DEF ReplInv, SessionInv, WrittenInv
<1> QED
  BY <1>2, <1>3, <1>4

LEMMA ReplStep ==
    ASSUME Repl, ReplInv, [Next]_vars
    PROVE  ReplInv'
<1>1. ~SeedFails /\ ~OperationFails /\ ~Crash
  BY DEF Repl, ReplInv, SeedFails, OperationFails, Crash
<1>2. ASSUME UNCHANGED vars
      PROVE  (SessionInv /\ WrittenInv)'
  <2>1. UNCHANGED <<process, disk, objects, loaded, active, op, left, faults>>
    BY <1>2 DEF vars, memory, observed
  <2> QED
    BY <2>1, ReplSame
<1>3. (SessionInv /\ WrittenInv)'
  BY <1>1, <1>2, ReplStartSeeding, ReplUse, ReplChange, ReplDisconnect, ReplCreate, ReplDrop,
     ReplRename, ReplOperation, ReplSaveTable, ReplSaveMeta, ReplExit
  DEF Next
<1>4. RegistryInv' /\ NamesInv' /\ faults' = 0
  BY <1>1, InvStep, NamesStep, OnlyFaultsCount DEF ReplInv
<1> QED
  BY <1>3, <1>4 DEF ReplInv

-----------------------------------------------------------------------------
(* What is acknowledged can be reached.                                    *)

Reachable(w) ==
    w \in OnDisk \/ \E n \in DOMAIN loaded : w \in InTables(objects[loaded[n]])

LEMMA AckedMeans ==
    AckedReachable <=> \A w \in acked : w[1] \notin dropped => Reachable(w)
BY DEF AckedReachable, Reachable

\* A change on the disk stays there.
LEMMA OnDiskStays ==
    ASSUME RegistryInv, [Next]_vars, NEW w \in OnDisk, w[1] \notin dropped'
    PROVE  w \in OnDisk'
<1>1. PICK n \in DOMAIN disk : w \in InTables(disk[n])
  BY DEF OnDisk
<1>2. PICK t \in DOMAIN disk[n].tables : \E change \in disk[n].tables[t] :
         w = <<disk[n].made, t, change>>
  BY <1>1, InTablesIff
<1>3. w[1] = disk[n].made
  BY <1>2
<1>4. PICK m \in DOMAIN disk' : Keeps(disk[n], disk'[m])
  BY <1>3, StepStays DEF Stays
<1>5. w \in InTables(disk'[m])
  BY <1>2, <1>4 DEF Keeps, InTables
<1> QED
  BY <1>5 DEF OnDisk

\* What is written out is on the disk.
LEMMA WrittenIsOnDisk ==
    ASSUME RegistryInv, NEW n \in DOMAIN loaded,
           \A t \in DOMAIN objects[loaded[n]].tables : Written(n, t),
           NEW w \in InTables(objects[loaded[n]])
    PROVE  w \in OnDisk
<1>1. /\ n \in DOMAIN disk /\ objects[loaded[n]].made = disk[n].made
      /\ DOMAIN objects[loaded[n]].tables = DOMAIN disk[n].tables
  BY DEF RegistryInv, LoadedIsHome, Keeps
<1>2. w \in InTables(disk[n])
  BY <1>1 DEF InTables, Written
<1> QED
  BY <1>1, <1>2 DEF OnDisk

\* A change that has been acknowledged before the step is in reach after it.
LEMMA StaysReachable ==
    ASSUME Repl, ReplInv, [Next]_vars, NEW w, Reachable(w), w[1] \notin dropped'
    PROVE  Reachable(w)'
<1>1. w \in OnDisk => w \in OnDisk'
  BY OnDiskStays DEF ReplInv
<1>2. SUFFICES ASSUME NEW n \in DOMAIN loaded, w \in InTables(objects[loaded[n]]), w \notin OnDisk
               PROVE  w \in OnDisk' \/ \E m \in DOMAIN loaded' : w \in InTables(objects'[loaded'[m]])
  BY <1>1 DEF Reachable
<1>3. loaded[n] \in DOMAIN objects /\ RegistryInv
  BY DEF ReplInv, RegistryInv, MemoryInv, MemoryOK
<1>4. CASE UNCHANGED <<objects, loaded>>
  BY <1>2, <1>4
<1>5. ASSUME NEW s \in Session, NEW name \in Name, UseFromDisk(s, name)
      PROVE  n \in DOMAIN loaded' /\ w \in InTables(objects'[loaded'[n]])
  <2>1. n \in DOMAIN loaded' /\ loaded'[n] = loaded[n]
    BY <1>5 DEF UseFromDisk, With
  <2>2. objects'[loaded[n]] = objects[loaded[n]]
    BY <1>3, <1>5 DEF UseFromDisk, RegistryInv, MemoryInv, MemoryOK
  <2> QED
    BY <1>2, <2>1, <2>2
<1>6. ASSUME NEW s \in Session, NEW t \in Table, Change(s, t)
      PROVE  n \in DOMAIN loaded' /\ w \in InTables(objects'[loaded'[n]])
  <2>1. /\ objects' = [objects EXCEPT ![active[s]].tables[t] = @ \cup {changes'}]
        /\ UNCHANGED loaded
    BY <1>6 DEF Change
  <2>2. /\ objects'[loaded[n]].made = objects[loaded[n]].made
        /\ DOMAIN objects'[loaded[n]].tables = DOMAIN objects[loaded[n]].tables
        /\ \A u \in DOMAIN objects[loaded[n]].tables :
              objects[loaded[n]].tables[u] \subseteq objects'[loaded[n]].tables[u]
    BY <1>3, <2>1 DEF RegistryInv, MemoryInv, MemoryOK, IsObject
  <2> QED
    BY <1>2, <2>1, <2>2 DEF InTables
<1>7. ASSUME NEW s \in Session, NEW name \in Name, Drop(s, name)
      PROVE  n \in DOMAIN loaded' /\ w \in InTables(objects'[loaded'[n]])
  <2>1. objects[loaded[n]].made = disk[n].made /\ n \in DOMAIN disk
    BY <1>3 DEF RegistryInv, LoadedIsHome, Keeps
  <2>2. w[1] = disk[n].made
    BY <1>2, <2>1, InTablesIff
  <2>3. n # name
    BY <1>7, <2>1, <2>2 DEF Drop
  <2> QED
    BY <1>2, <1>7, <2>3 DEF Drop, Unloaded, Without, Restrict
<1>8. ASSUME SaveMeta, ~UNCHANGED loaded
      PROVE  w \in OnDisk \/ (n \in DOMAIN loaded' /\ w \in InTables(objects'[loaded'[n]]))
  <2>1. CASE n = op.name
    <3>1. \A t \in DOMAIN objects[loaded[n]].tables : Written(n, t)
      BY <1>8, <2>1 DEF SaveMeta, ReplInv, WrittenInv, saved
    <3> QED
      BY <1>2, <1>3, <3>1, WrittenIsOnDisk
  <2>2. CASE n # op.name
    BY <1>2, <1>8, <2>2 DEF SaveMeta, Unloaded, Without, Restrict
  <2> QED
    BY <2>1, <2>2
<1>9. ASSUME Exited
      PROVE  w \in OnDisk
  <2>1. \A t \in DOMAIN objects[loaded[n]].tables : Written(n, t)
    BY <1>9 DEF Exited, ReplInv, WrittenInv
  <2> QED
    BY <1>2, <1>3, <2>1, WrittenIsOnDisk
<1>10. ~OperationFails /\ ~Crash /\ ~SeedFails
  BY DEF Repl, ReplInv, SeedFails, OperationFails, Crash
<1>11. \/ UNCHANGED <<objects, loaded>>
       \/ \E s \in Session, name \in Name : UseFromDisk(s, name) \/ Drop(s, name)
       \/ \E s \in Session, t \in Table : Change(s, t)
       \/ SaveMeta /\ ~UNCHANGED loaded
       \/ Exited
  BY <1>10
  DEF Next, vars, memory, observed, Start, SeedMeta, SeedOneTable, Seeded, UseLoaded, Create,
      Disconnect, Rename, TruncateMeta, FillMeta, RemoveEntry, RemoveDirectory, Move, SaveTable, SaveMeta,
      Exit, SaveNext
<1> QED
  BY <1>1, <1>4, <1>5, <1>6, <1>7, <1>8, <1>9, <1>11

LEMMA AckedStep ==
    ASSUME Repl, ReplInv, [Next]_vars, AckedReachable
    PROVE  AckedReachable'
<1>1. ASSUME NEW w \in acked', w[1] \notin dropped', w \notin acked
      PROVE  Reachable(w)'
  <2>1. PICK s \in Session, t \in Table : Change(s, t)
    BY <1>1
    DEF Next, vars, memory, observed, Start, SeedMeta, SeedOneTable, Seeded, SeedFails,
        UseLoaded, UseFromDisk, Disconnect, Create, Drop, Rename, TruncateMeta, FillMeta, RemoveEntry,
        RemoveDirectory, Move, SaveTable, SaveMeta, Exit, SaveNext, Exited,
        OperationFails, Crash
  <2>2. /\ w = <<objects[active[s]].made, t, changes'>>
        /\ objects' = [objects EXCEPT ![active[s]].tables[t] = @ \cup {changes'}]
        /\ UNCHANGED loaded /\ active[s] # Nothing /\ t \in DOMAIN objects[active[s]].tables
    BY <1>1, <2>1 DEF Change
  <2>3. PICK n \in DOMAIN loaded : loaded[n] = active[s]
    BY <2>2 DEF ReplInv, SessionInv
  <2>4. IsObject(objects[active[s]]) /\ active[s] \in DOMAIN objects
    BY <2>2 DEF ReplInv, RegistryInv, MemoryInv, MemoryOK
  <2>5. /\ objects'[active[s]].made = objects[active[s]].made
        /\ t \in DOMAIN objects'[active[s]].tables
        /\ changes' \in objects'[active[s]].tables[t]
    BY <2>2, <2>4 DEF IsObject
  <2>6. w \in InTables(objects'[loaded'[n]])
    BY <2>2, <2>3, <2>5 DEF InTables
  <2> QED
    BY <2>2, <2>6 DEF Reachable
<1>2. dropped \subseteq dropped'
  BY DEF Next, vars, memory, observed, Start, SeedMeta, SeedOneTable, Seeded, SeedFails,
      UseLoaded, UseFromDisk, Change, Disconnect, Create, Drop, Rename, TruncateMeta, FillMeta,
      RemoveEntry, RemoveDirectory, Move, SaveTable, SaveMeta, Exit, SaveNext, Exited,
      OperationFails, Crash
<1>3. ASSUME NEW w \in acked, w[1] \notin dropped'
      PROVE  Reachable(w)'
  BY <1>2, <1>3, AckedMeans, StaysReachable
<1>4. \A w \in acked' : w[1] \notin dropped' => Reachable(w)'
  BY <1>1, <1>3
<1> QED
  BY <1>4 DEF AckedReachable, Reachable

\* In the REPL every acknowledged change is on the disk or in the object that
\* the registry hands out and saves at exit, through any sequence of CREATE,
\* USE, DROP, RENAME and restarts.
THEOREM ReplKeepsChanges == Repl => (Spec => []AckedReachable)
<1> SUFFICES ASSUME Repl PROVE Spec => []AckedReachable
  OBVIOUS
<1>1. Init => ReplInv /\ AckedReachable
  BY ReplInit DEF Init, AckedReachable
<1>2. ReplInv /\ AckedReachable /\ [Next]_vars => (ReplInv /\ AckedReachable)'
  BY ReplStep, AckedStep
<1> QED
  BY <1>1, <1>2, PTL DEF Spec

-----------------------------------------------------------------------------
(* Every step is one of the catalog.                                       *)

\* Tables that hold only changes that were made.
Counted(tables, number) == tables \in [DOMAIN tables -> SUBSET (1 .. number)]

CountInv ==
    /\ changes \in 0 .. MaxWrites
    /\ \A n \in DOMAIN disk : Counted(disk[n].tables, changes)
    /\ \A i \in DOMAIN objects : Counted(objects[i].tables, changes)

\* CREATE is at work on the metadata of a new directory.
Creating == op.step \in {"truncate", "fill"} /\ op.name = op.to

\* What is not in the catalog yet is as it will be when it gets there.
FreshInv ==
    /\ process = "seeding" =>
          disk[Main].tables = [t \in DOMAIN disk[Main].tables |-> {}]
    /\ Creating => op.name \notin DOMAIN loaded /\ disk[op.name].tables = Empty

CatalogInv == ReplInv /\ CountInv /\ FreshInv

-----------------------------------------------------------------------------
(* The changes are numbered.                                               *)

LEMMA CountedMore ==
    ASSUME NEW tables, NEW k \in Nat, NEW n \in Nat, k <= n, Counted(tables, k)
    PROVE  Counted(tables, n)
BY DEF Counted

LEMMA CountSeeding ==
    ASSUME ReplInv, CountInv,
           Start \/ SeedMeta \/ (\E t \in Table : SeedOneTable(t))
    PROVE  \A n \in DOMAIN disk' : Counted(disk'[n].tables, changes)
<1>1. CASE Start
  <2>1. Counted(NewDirectory.tables, changes)
    BY DEF NewDirectory, Empty, Counted
  <2> QED
    BY <1>1, <2>1 DEF Start, With, CountInv
<1>2. CASE SeedMeta \/ \E t \in Table : SeedOneTable(t)
  <2>1. Main \in DOMAIN disk /\ DOMAIN disk[Main] = {"made", "meta", "tables"}
    BY <1>2
    DEF SeedMeta, SeedOneTable, ReplInv, RegistryInv, MutexInv, DiskInv, DiskOK, IsDirectory
  <2>2. DOMAIN disk' = DOMAIN disk /\ \A n \in DOMAIN disk \ {Main} : disk'[n] = disk[n]
    BY <1>2 DEF SeedMeta, SeedOneTable
  <2>3. Counted(disk'[Main].tables, changes)
    <3>1. CASE SeedMeta
      BY <2>1, <3>1 DEF SeedMeta, CountInv
    <3>2. ASSUME NEW t \in Table, SeedOneTable(t)
          PROVE  Counted(disk'[Main].tables, changes)
      <4>1. disk'[Main].tables = With(disk[Main].tables, t, {})
        BY <2>1, <3>2 DEF SeedOneTable
      <4>2. Counted(With(disk[Main].tables, t, {}), changes)
        BY <2>1 DEF CountInv, Counted, With
      <4> QED
        BY <4>1, <4>2
    <3> QED
      BY <1>2, <3>1, <3>2
  <2> QED
    BY <2>2, <2>3 DEF CountInv
<1> QED
  BY <1>1, <1>2

LEMMA CountDirectories ==
    ASSUME ReplInv, CountInv,
           \/ \E s \in Session, name \in Name : Create(s, name)
           \/ TruncateMeta \/ FillMeta \/ RemoveEntry \/ RemoveDirectory \/ Move
    PROVE  \A n \in DOMAIN disk' : Counted(disk'[n].tables, changes)
<1>1. CASE \E s \in Session, name \in Name : Create(s, name)
  <2>1. Counted(NewDirectory.tables, changes)
    BY DEF NewDirectory, Empty, Counted
  <2> QED
    BY <1>1, <2>1 DEF Create, With, CountInv
<1>2. CASE RemoveDirectory
  BY <1>2 DEF RemoveDirectory, Without, Restrict, CountInv
<1>3. CASE Move
  <2>1. CASE UNCHANGED disk
    BY <2>1 DEF CountInv
  <2>2. CASE op.name \in DOMAIN disk /\ disk' = Moved
    <3>1. /\ DOMAIN disk' \subseteq DOMAIN disk \cup {op.to}
          /\ \A n \in DOMAIN disk' :
                disk'[n] = IF n = op.to THEN disk[op.name] ELSE disk[n]
      BY <2>2 DEF Moved, With, Without, Restrict
    <3> QED
      BY <2>2, <3>1 DEF CountInv
  <2> QED
    BY <1>3, <2>1, <2>2 DEF Move
<1>4. CASE TruncateMeta \/ FillMeta \/ RemoveEntry
  <2> DEFINE at == IF op.step = "remove" THEN op.name ELSE op.to
  <2>1. IsDoing(op) /\ DiskOK
    BY <1>4, FreeOrDoing
    DEF TruncateMeta, FillMeta, RemoveEntry, ReplInv, RegistryInv, MutexInv, DiskInv
  <2>2. at \in DOMAIN disk /\ DOMAIN disk[at] = {"made", "meta", "tables"}
    BY <1>4, <2>1 DEF TruncateMeta, FillMeta, RemoveEntry, IsDoing, DiskOK, IsDirectory
  <2>3. DOMAIN disk' = DOMAIN disk /\ \A n \in DOMAIN disk \ {at} : disk'[n] = disk[n]
    BY <1>4 DEF TruncateMeta, FillMeta, RemoveEntry
  <2>4. \/ disk'[at].tables = disk[at].tables
        \/ \E t \in DOMAIN disk[at].tables : disk'[at].tables = Without(disk[at].tables, t)
    BY <1>4, <2>2 DEF TruncateMeta, FillMeta, RemoveEntry
  <2> HIDE DEF at
  <2>5. \A t : Counted(Without(disk[at].tables, t), changes)
    BY <2>2 DEF Counted, Without, Restrict, CountInv
  <2> QED
    BY <2>2, <2>3, <2>4, <2>5 DEF CountInv
<1> QED
  BY <1>1, <1>2, <1>3, <1>4

LEMMA CountSaves ==
    ASSUME ReplInv, CountInv, (\E t \in Table : SaveTable(t)) \/ SaveMeta
    PROVE  \A n \in DOMAIN disk' : Counted(disk'[n].tables, changes)
<1>1. /\ op.name \in DOMAIN disk /\ op.name \in DOMAIN loaded /\ saved.path = op.name
      /\ DOMAIN saved.tables = DOMAIN disk[op.name].tables
      /\ loaded[op.name] \in DOMAIN objects
      /\ DOMAIN disk[op.name] = {"made", "meta", "tables"}
  BY SavedAtHome
  DEF SaveTable, SaveMeta, ReplInv, RegistryInv, MemoryInv, MemoryOK, DiskInv, DiskOK, IsDirectory
<1>2. DOMAIN disk' = DOMAIN disk /\ \A n \in DOMAIN disk \ {op.name} : disk'[n] = disk[n]
  BY <1>1 DEF SaveTable, SaveMeta
<1>3. \/ disk'[op.name].tables = disk[op.name].tables
      \/ \E t \in DOMAIN saved.tables :
            disk'[op.name].tables = [disk[op.name].tables EXCEPT ![t] = saved.tables[t]]
  <2>1. CASE SaveMeta
    BY <1>1, <2>1 DEF SaveMeta
  <2>2. CASE \E t \in Table : SaveTable(t)
    BY <1>1, <2>2, SaveTableWrites DEF ReplInv
  <2> QED
    BY <2>1, <2>2
<1>4. Counted(saved.tables, changes) /\ Counted(disk[op.name].tables, changes)
  BY <1>1 DEF CountInv, saved
<1>5. \A t \in DOMAIN saved.tables :
         Counted([disk[op.name].tables EXCEPT ![t] = saved.tables[t]], changes)
  BY <1>1, <1>4 DEF Counted
<1> QED
  BY <1>2, <1>3, <1>4, <1>5 DEF CountInv

LEMMA CountChange ==
    ASSUME ReplInv, CountInv, NEW s \in Session, NEW t \in Table, Change(s, t)
    PROVE  CountInv'
<1>1. /\ changes \in Nat /\ changes' = changes + 1 /\ changes' \in 0 .. MaxWrites
      /\ UNCHANGED disk
  BY RegistryAssumption DEF Change, CountInv
<1>2. active[s] \in DOMAIN objects /\ IsObject(objects[active[s]])
  BY DEF Change, ReplInv, RegistryInv, MemoryInv, MemoryOK
<1>3. /\ DOMAIN objects' = DOMAIN objects
      /\ \A i \in DOMAIN objects \ {active[s]} : objects'[i] = objects[i]
      /\ objects'[active[s]].tables = [objects[active[s]].tables EXCEPT ![t] = @ \cup {changes'}]
  BY <1>2 DEF Change, IsObject
<1>4. /\ \A n \in DOMAIN disk : Counted(disk[n].tables, changes')
      /\ \A i \in DOMAIN objects : Counted(objects[i].tables, changes')
  BY <1>1, CountedMore DEF CountInv
<1>5. Counted(objects'[active[s]].tables, changes')
  <2>1. Counted(objects[active[s]].tables, changes') /\ changes' \in 1 .. changes'
    BY <1>1, <1>2, <1>4
  <2> SUFFICES ASSUME NEW tables, Counted(tables, changes')
               PROVE  Counted([tables EXCEPT ![t] = @ \cup {changes'}], changes')
    BY <1>3, <2>1
  <2> QED
    BY <2>1 DEF Counted
<1> QED
  BY <1>1, <1>3, <1>4, <1>5 DEF CountInv

LEMMA CountStep ==
    ASSUME Repl, ReplInv, CountInv, [Next]_vars
    PROVE  CountInv'
<1>1. ~SeedFails /\ ~OperationFails /\ ~Crash
  BY DEF Repl, ReplInv, SeedFails, OperationFails, Crash
<1>2. CASE \E s \in Session, t \in Table : Change(s, t)
  BY <1>2, CountChange
<1>3. CASE ~\E s \in Session, t \in Table : Change(s, t)
  <2>1. UNCHANGED changes
    BY <1>1, <1>3
    DEF Next, vars, observed, Start, SeedMeta, SeedOneTable, Seeded, UseLoaded, UseFromDisk,
        Create, Drop, Rename, Disconnect, TruncateMeta, FillMeta, RemoveEntry,
        RemoveDirectory, Move, SaveTable, SaveMeta, Exit, SaveNext, Exited
  <2>2. \A n \in DOMAIN disk' : Counted(disk'[n].tables, changes)
    <3>1. CASE UNCHANGED disk
      BY <3>1 DEF CountInv
    <3>2. CASE disk' # disk
      BY <1>1, <1>3, <3>2, CountSeeding, CountDirectories, CountSaves
      DEF Next, vars, Seeded, UseLoaded, UseFromDisk, Drop, Rename, Disconnect, Exit, SaveNext, Exited
    <3> QED
      BY <3>1, <3>2
  <2>3. \A i \in DOMAIN objects' : Counted(objects'[i].tables, changes)
    <3>1. ASSUME NEW s \in Session, NEW name \in Name, UseFromDisk(s, name)
          PROVE  \A i \in DOMAIN objects' : Counted(objects'[i].tables, changes)
      <4>1. /\ objects' = Append(objects, Read(name)) /\ name \in DOMAIN disk
            /\ \A i \in DOMAIN objects' : objects'[i] = Read(name)
                  \/ (i \in DOMAIN objects /\ objects'[i] = objects[i])
        BY <3>1 DEF UseFromDisk, ReplInv, RegistryInv, MemoryInv, MemoryOK
      <4>2. Counted(Read(name).tables, changes)
        BY <4>1 DEF Read, CountInv
      <4> QED
        BY <4>1, <4>2 DEF CountInv
    <3>2. CASE Exited
      BY <3>2 DEF Exited, Forgotten
    <3>3. CASE UNCHANGED objects
      BY <3>3 DEF CountInv
    <3> QED
      BY <1>1, <1>3, <3>1, <3>2, <3>3
      DEF Next, vars, memory, Start, SeedMeta, SeedOneTable, Seeded, UseLoaded, Create, Drop,
          Rename, Disconnect, TruncateMeta, FillMeta, RemoveEntry, RemoveDirectory, Move,
          SaveTable, SaveMeta, Exit, SaveNext
  <2> QED
    BY <2>1, <2>2, <2>3 DEF CountInv
<1> QED
  BY <1>2, <1>3

-----------------------------------------------------------------------------
(* What is being seeded or created is empty.                               *)

\* The mutex is not held for the making of a directory, after the step.
LEMMA FreshIdle ==
    ASSUME process' # "seeding", ~Creating'
    PROVE  FreshInv'
BY DEF FreshInv

LEMMA FreshSeeding ==
    ASSUME ReplInv, FreshInv,
           Start \/ SeedMeta \/ (\E t \in Table : SeedOneTable(t)) \/ Seeded
    PROVE  FreshInv'
<1>1. op = Free /\ UNCHANGED op /\ ~Creating'
  BY DEF Start, SeedMeta, SeedOneTable, Seeded, ReplInv, RegistryInv, MutexInv, Creating, Free
<1>2. CASE Start \/ Seeded
  <2>1. process' # "seeding" \/ disk' = With(disk, Main, NewDirectory)
    BY <1>2 DEF Start, Seeded
  <2>2. With(disk, Main, NewDirectory)[Main].tables = Empty
    BY DEF With, NewDirectory
  <2>3. Empty = [t \in DOMAIN Empty |-> {}]
    BY DEF Empty
  <2> QED
    BY <1>1, <2>1, <2>2, <2>3 DEF FreshInv
<1>3. CASE SeedMeta \/ \E t \in Table : SeedOneTable(t)
  <2>1. Main \in DOMAIN disk /\ DOMAIN disk[Main] = {"made", "meta", "tables"}
    BY <1>3
    DEF SeedMeta, SeedOneTable, ReplInv, RegistryInv, MutexInv, DiskInv, DiskOK, IsDirectory
  <2> DEFINE tables == disk[Main].tables
  <2>2. process = "seeding" /\ tables = [t \in DOMAIN tables |-> {}]
    BY <1>3 DEF FreshInv, SeedMeta, SeedOneTable
  <2>3. disk'[Main].tables = tables \/ \E t : disk'[Main].tables = With(tables, t, {})
    BY <1>3, <2>1 DEF SeedMeta, SeedOneTable
  <2> HIDE DEF tables
  <2>4. \A t : With(tables, t, {}) = [u \in DOMAIN With(tables, t, {}) |-> {}]
    BY <2>2 DEF With
  <2> QED
    BY <1>1, <2>2, <2>3, <2>4 DEF FreshInv
<1> QED
  BY <1>2, <1>3

LEMMA FreshStep ==
    ASSUME Repl, ReplInv, FreshInv, [Next]_vars
    PROVE  FreshInv'
<1>1. ~SeedFails /\ ~OperationFails /\ ~Crash
  BY DEF Repl, ReplInv, SeedFails, OperationFails, Crash
<1>2. ASSUME NEW s \in Session, NEW name \in Name, Create(s, name)
      PROVE  FreshInv'
  <2>1. /\ process' = "up" /\ name \notin DOMAIN loaded' /\ op'.name = name
        /\ disk' = With(disk, name, NewDirectory)
    BY <1>2 DEF Create, idle, Doing, memory
  <2> QED
    BY <2>1 DEF FreshInv, With, NewDirectory
<1>3. CASE TruncateMeta
  <2>1. /\ process' = "up" /\ UNCHANGED loaded /\ op'.name = op.name /\ op'.to = op.to
        /\ IsDoing(op) /\ op.to \in DOMAIN disk
        /\ DOMAIN disk[op.to] = {"made", "meta", "tables"}
    BY <1>3, FreeOrDoing
    DEF TruncateMeta, ReplInv, RegistryInv, MutexInv, IsDoing, DiskInv, DiskOK, IsDirectory, memory
  <2>2. disk'[op.to].tables = disk[op.to].tables
    BY <1>3, <2>1 DEF TruncateMeta
  <2> QED
    BY <1>3, <2>1, <2>2 DEF FreshInv, Creating, TruncateMeta
<1>4. ASSUME UNCHANGED <<process, disk, loaded, op>>
      PROVE  FreshInv'
  BY <1>4 DEF FreshInv, Creating
<1>5. ASSUME \/ \E s \in Session, name \in Name :
                    \/ UseLoaded(s, name) \/ UseFromDisk(s, name) \/ Drop(s, name)
                    \/ \E to \in Name : Rename(s, name, to)
             \/ FillMeta \/ RemoveEntry \/ RemoveDirectory \/ Move
             \/ (\E t \in Table : SaveTable(t)) \/ SaveMeta
             \/ Exit \/ (\E name \in Name : SaveNext(name)) \/ Exited
      PROVE  FreshInv'
  <2>1. process' # "seeding"
    <3>1. op.step = "save" => process # "seeding"
      BY DEF ReplInv, RegistryInv, MutexInv, Free
    <3> QED
      BY <1>5, <3>1
      DEF UseLoaded, UseFromDisk, Drop, Rename, FillMeta, RemoveEntry, RemoveDirectory, Move,
          SaveTable, SaveMeta, Exit, SaveNext, Exited, idle
  <2>2. op.step # "free" => IsDoing(op)
    BY FreeOrDoing DEF ReplInv, RegistryInv, MutexInv
  <2>3. ~Creating'
    <3>1. CASE \E s \in Session, name \in Name :
                  \/ UseLoaded(s, name) \/ UseFromDisk(s, name) \/ Drop(s, name)
                  \/ \E to \in Name : Rename(s, name, to)
      BY <3>1 DEF UseLoaded, UseFromDisk, Drop, Rename, idle, Doing, Creating
    <3>2. CASE FillMeta \/ RemoveEntry \/ RemoveDirectory \/ Move
      <4>1. CASE Move
        <5>1. op'.step = "truncate" => op'.name # op'.to
          BY <2>2, <4>1 DEF Move, Free, IsDoing
        <5>2. op'.step \in {"truncate", "free"}
          BY <2>2, <4>1 DEF Move, Free, IsDoing
        <5> QED
          BY <5>1, <5>2 DEF Creating
      <4>2. CASE FillMeta \/ RemoveEntry \/ RemoveDirectory
        BY <4>2 DEF FillMeta, RemoveEntry, RemoveDirectory, Creating, Free
      <4> QED
        BY <3>2, <4>1, <4>2
    <3>3. CASE (\E t \in Table : SaveTable(t)) \/ SaveMeta
      <4>1. CASE \E t \in Table : SaveTable(t)
        BY <2>2, <4>1 DEF SaveTable, Creating, IsDoing
      <4>2. CASE SaveMeta
        <5>1. op'.step \in {"free", "move"}
          BY <2>2, <4>2 DEF SaveMeta, Free, IsDoing
        <5> QED
          BY <5>1 DEF Creating
      <4> QED
        BY <3>3, <4>1, <4>2
    <3>4. CASE Exit \/ (\E name \in Name : SaveNext(name)) \/ Exited
      BY <3>4 DEF Exit, SaveNext, Exited, Forgotten, idle, memory, Doing, Creating, Free
    <3> QED
      BY <1>5, <3>1, <3>2, <3>3, <3>4
  <2> QED
    BY <2>1, <2>3, FreshIdle
<1>6. ASSUME \/ \E s \in Session, t \in Table : Change(s, t)
             \/ \E s \in Session : Disconnect(s)
      PROVE  UNCHANGED <<process, disk, loaded, op>>
  BY <1>6 DEF Change, Disconnect
<1>7. CASE UNCHANGED vars
  BY <1>4, <1>7 DEF vars, memory
<1> QED
  BY <1>1, <1>2, <1>3, <1>4, <1>5, <1>6, <1>7, FreshSeeding DEF Next

-----------------------------------------------------------------------------
(* The steps that cannot be told from the outside.                         *)

\* Only directories are written to, and only such as are not in the catalog or
\* are loaded.
LEMMA SilentDisk ==
    ASSUME UNCHANGED <<objects, loaded, active>>,
           DOMAIN disk' \ Unfinished' = DOMAIN disk \ Unfinished,
           \A n \in DOMAIN disk \ Unfinished :
              n \in DOMAIN loaded \/ disk'[n].tables = disk[n].tables
    PROVE  Store' = Store /\ Current' = Current
BY DEF Store, Current, TablesOf

LEMMA SilentSeeding ==
    ASSUME ReplInv, Start \/ SeedMeta \/ (\E t \in Table : SeedOneTable(t))
    PROVE  Store' = Store /\ Current' = Current
<1>1. op = Free /\ UNCHANGED <<objects, loaded, active, op>>
  BY DEF Start, SeedMeta, SeedOneTable, ReplInv, RegistryInv, MutexInv, memory
<1>2. CASE Start
  <2>1. Unfinished = {}
    BY <1>1, <1>2 DEF Start, Unfinished, Free
  <2>2. \/ UNCHANGED disk /\ process' = "up"
        \/ Main \notin DOMAIN disk /\ process' = "seeding" /\ disk' = With(disk, Main, NewDirectory)
    BY <1>2 DEF Start
  <2>3. CASE UNCHANGED disk /\ process' = "up"
    <3>1. Unfinished' = {}
      BY <1>1, <2>3 DEF Unfinished, Free
    <3> QED
      BY <1>1, <2>1, <2>3, <3>1, SilentDisk
  <2>4. CASE Main \notin DOMAIN disk /\ process' = "seeding" /\ disk' = With(disk, Main, NewDirectory)
    <3>1. Unfinished' = {Main}
      BY <2>4 DEF Unfinished
    <3>2. DOMAIN disk' = DOMAIN disk \cup {Main} /\ \A n \in DOMAIN disk : disk'[n] = disk[n]
      BY <2>4 DEF With
    <3> QED
      BY <1>1, <2>1, <2>4, <3>1, <3>2, SilentDisk
  <2> QED
    BY <2>2, <2>3, <2>4
<1>3. CASE SeedMeta \/ \E t \in Table : SeedOneTable(t)
  <2>1. Unfinished = {Main} /\ Unfinished' = {Main}
    BY <1>3 DEF SeedMeta, SeedOneTable, Unfinished
  <2>2. DOMAIN disk' = DOMAIN disk /\ \A n \in DOMAIN disk \ {Main} : disk'[n] = disk[n]
    BY <1>3 DEF SeedMeta, SeedOneTable
  <2> QED
    BY <1>1, <2>1, <2>2, SilentDisk
<1> QED
  BY <1>2, <1>3

LEMMA SilentCreate ==
    ASSUME NEW s \in Session, NEW name \in Name, Create(s, name)
    PROVE  Store' = Store /\ Current' = Current
<1>1. UNCHANGED <<objects, loaded, active>> /\ name \notin DOMAIN disk
  BY DEF Create, memory
<1>2. Unfinished = {} /\ Unfinished' = {name}
  BY DEF Create, idle, Unfinished, Doing
<1>3. DOMAIN disk' = DOMAIN disk \cup {name} /\ \A n \in DOMAIN disk : disk'[n] = disk[n]
  BY DEF Create, With
<1> QED
  BY <1>1, <1>2, <1>3, SilentDisk

\* The metadata are no part of the catalog, nor is what is being removed.
LEMMA SilentOperation ==
    ASSUME ReplInv,
           TruncateMeta \/ (FillMeta /\ op.name # op.to) \/ RemoveEntry \/ RemoveDirectory
    PROVE  Store' = Store /\ Current' = Current
<1>1. /\ IsDoing(op) /\ process = "up" /\ UNCHANGED <<process, objects, loaded, active>>
      /\ op.step \in {"truncate", "fill", "remove"}
  BY FreeOrDoing
  DEF TruncateMeta, FillMeta, RemoveEntry, RemoveDirectory, ReplInv, RegistryInv, MutexInv, memory
<1>2. CASE TruncateMeta \/ (FillMeta /\ op.name # op.to)
  <2>1. /\ DOMAIN disk' = DOMAIN disk
        /\ \A n \in DOMAIN disk \ {op.to} : disk'[n] = disk[n]
        /\ op.to \in DOMAIN disk /\ DOMAIN disk[op.to] = {"made", "meta", "tables"}
    BY <1>1, <1>2
    DEF TruncateMeta, FillMeta, IsDoing, ReplInv, RegistryInv, DiskInv, DiskOK, IsDirectory
  <2>2. disk'[op.to].tables = disk[op.to].tables
    BY <1>2, <2>1 DEF TruncateMeta, FillMeta
  <2>3. Unfinished' = Unfinished
    BY <1>1, <1>2 DEF TruncateMeta, FillMeta, IsDoing, Unfinished, Free
  <2> QED
    BY <1>1, <2>1, <2>2, <2>3, SilentDisk
<1>3. CASE RemoveEntry \/ RemoveDirectory
  <2>1. Unfinished = {op.name}
    BY <1>1, <1>3 DEF RemoveEntry, RemoveDirectory, Unfinished
  <2>2. /\ \A n \in DOMAIN disk \ {op.name} : disk'[n] = disk[n]
        /\ DOMAIN disk' \ {op.name} = DOMAIN disk \ {op.name}
    BY <1>3 DEF RemoveEntry, RemoveDirectory, Without, Restrict
  <2>3. DOMAIN disk' \ Unfinished' = DOMAIN disk \ {op.name}
    <3>1. CASE RemoveEntry
      BY <1>1, <2>1, <2>2, <3>1 DEF RemoveEntry, Unfinished
    <3>2. CASE RemoveDirectory
      BY <1>1, <2>2, <3>2 DEF RemoveDirectory, Unfinished, Free, Without, Restrict
    <3> QED
      BY <1>3, <3>1, <3>2
  <2> QED
    BY <1>1, <2>1, <2>2, <2>3, SilentDisk
<1> QED
  BY <1>2, <1>3

\* What has been saved is on the disk as it is in the object.
LEMMA SavedIsOnDisk ==
    ASSUME ReplInv, CountInv, NEW n \in DOMAIN loaded,
           \A t \in DOMAIN objects[loaded[n]].tables : Written(n, t)
    PROVE  n \in DOMAIN disk /\ disk[n].tables = objects[loaded[n]].tables
<1>1. /\ n \in DOMAIN disk /\ loaded[n] \in DOMAIN objects
      /\ DOMAIN objects[loaded[n]].tables = DOMAIN disk[n].tables
  BY DEF ReplInv, RegistryInv, LoadedIsHome, MemoryInv, MemoryOK
<1>2. /\ disk[n].tables = [t \in DOMAIN disk[n].tables |-> disk[n].tables[t]]
      /\ objects[loaded[n]].tables =
            [t \in DOMAIN objects[loaded[n]].tables |-> objects[loaded[n]].tables[t]]
  BY <1>1 DEF CountInv, Counted
<1> QED
  BY <1>1, <1>2 DEF Written

LEMMA SilentSave ==
    ASSUME ReplInv, CountInv, (\E t \in Table : SaveTable(t)) \/ SaveMeta
    PROVE  Store' = Store /\ Current' = Current
<1>1. /\ op.step = "save" /\ IsDoing(op) /\ saved.path = op.name
      /\ op.name \in DOMAIN loaded /\ op.name \in DOMAIN disk
      /\ UNCHANGED <<process, objects, active>>
  BY SavedAtHome DEF SaveTable, SaveMeta, ReplInv, memory
<1>2. process # "seeding" /\ Unfinished = {}
  BY <1>1 DEF ReplInv, RegistryInv, MutexInv, Free, Unfinished
<1>3. DOMAIN disk' = DOMAIN disk /\ \A n \in DOMAIN disk \ {op.name} : disk'[n] = disk[n]
  BY <1>1 DEF SaveTable, SaveMeta
<1>4. op'.step \in {"save", "free", "move"}
  BY <1>1 DEF SaveTable, SaveMeta, IsDoing, Free
<1>5. Unfinished' = {}
  BY <1>1, <1>2, <1>4 DEF Unfinished
<1>6. CASE UNCHANGED loaded
  BY <1>1, <1>2, <1>3, <1>5, <1>6, SilentDisk
<1>7. CASE SaveMeta /\ ~UNCHANGED loaded
  <2>1. /\ DOMAIN loaded' = DOMAIN loaded \ {op.name}
        /\ \A n \in DOMAIN loaded' : loaded'[n] = loaded[n]
    BY <1>7 DEF SaveMeta, Unloaded, Without, Restrict
  <2>2. disk'[op.name].tables = disk[op.name].tables
    BY <1>1, <1>7 DEF SaveMeta, ReplInv, RegistryInv, DiskInv, DiskOK, IsDirectory
  <2>3. disk[op.name].tables = saved.tables
    <3>1. \A t \in DOMAIN saved.tables : Written(op.name, t)
      BY <1>1, <1>7 DEF SaveMeta, ReplInv, WrittenInv
    <3> QED
      BY <1>1, <3>1, SavedIsOnDisk DEF saved
  <2>4. \A n \in DOMAIN disk : TablesOf(n)' = TablesOf(n)
    BY <1>1, <1>3, <2>1, <2>2, <2>3 DEF TablesOf, saved
  <2>5. Store' = Store
    BY <1>2, <1>3, <1>5, <2>4 DEF Store
  <2> QED
    BY <1>1, <2>5 DEF Current
<1> QED
  BY <1>6, <1>7 DEF SaveTable, memory

LEMMA SilentExit ==
    ASSUME Exit \/ \E name \in Name : SaveNext(name)
    PROVE  Store' = Store /\ Current' = Current
<1>1. UNCHANGED <<disk, objects, loaded, active>>
  BY DEF Exit, SaveNext, memory
<1>2. op.step = "free" /\ op'.step \in {"free", "save"}
      /\ process # "seeding" /\ process' # "seeding"
  BY DEF Exit, SaveNext, idle, Doing
<1>3. Unfinished = {} /\ Unfinished' = {}
  BY <1>2 DEF Unfinished
<1> QED
  BY <1>1, <1>3, SilentDisk

-----------------------------------------------------------------------------
(* The steps that carry out a statement.                                   *)

\* A session works with a loaded database, which the catalog knows by its name.
LEMMA UsesLoaded ==
    ASSUME ReplInv, NEW s \in Session
    PROVE  /\ active[s] = Nothing => Current[s] = Nothing
           /\ active[s] # Nothing =>
                /\ Current[s] \in DOMAIN loaded /\ loaded[Current[s]] = active[s]
                /\ Current[s] = objects[active[s]].name
                /\ Current[s] \in Name /\ Current[s] # Nothing
<1>1. active[s] = Nothing => Current[s] = Nothing
  BY DEF Current
<1>2. ASSUME active[s] # Nothing
      PROVE  /\ Current[s] \in DOMAIN loaded /\ loaded[Current[s]] = active[s]
             /\ Current[s] = objects[active[s]].name
             /\ Current[s] \in Name /\ Current[s] # Nothing
  <2>1. Current[s] = objects[active[s]].name
    BY <1>2 DEF Current
  <2>2. PICK n \in DOMAIN loaded : loaded[n] = active[s]
    BY <1>2 DEF ReplInv, SessionInv
  <2>3. objects[loaded[n]].name = n /\ n \in Name
    BY DEF ReplInv, NamesInv, MemoryNamed, RegistryInv, MemoryInv, MemoryOK
  <2>4. Nothing \notin Name
    BY RegistryAssumption
  <2> QED
    BY <2>1, <2>2, <2>3, <2>4
<1> QED
  BY <1>1, <1>2

\* Seeded: the program's own database is in the catalog from now on.
LEMMA CatalogSeeded ==
    ASSUME ReplInv, FreshInv, Seeded
    PROVE  Names!Install
<1>1. /\ op = Free /\ DOMAIN loaded = {} /\ Main \in DOMAIN disk
      /\ UNCHANGED <<disk, objects, loaded, active, op>>
  BY DEF Seeded, ReplInv, RegistryInv, MutexInv, Empty, memory
<1>2. Unfinished = {Main} /\ Unfinished' = {}
  BY <1>1 DEF Seeded, Unfinished, Free
<1>3. disk[Main].tables = [t \in SeedTable |-> {}]
  BY DEF Seeded, FreshInv
<1>4. DOMAIN Store = DOMAIN disk \ {Main} /\ DOMAIN Store' = DOMAIN disk
  BY <1>1, <1>2 DEF Store
<1>5. /\ \A n \in DOMAIN Store : Store[n] = disk[n].tables
      /\ \A n \in DOMAIN Store' : Store'[n] = disk[n].tables
  BY <1>1, <1>2 DEF Store, TablesOf
<1>6. Store' = Names!Over(Names!Entry(Main, [t \in SeedTable |-> {}]), Store)
  <2>1. Store' = [n \in DOMAIN Store' |-> Store'[n]]
    BY DEF Store
  <2> QED
    BY <1>1, <1>3, <1>4, <1>5, <2>1 DEF Names!Over, Names!Entry
<1>7. Current' = Current
  BY <1>1 DEF Current
<1> QED
  BY <1>4, <1>6, <1>7 DEF Names!Install

LEMMA CatalogUse ==
    ASSUME ReplInv, NEW s \in Session, NEW name \in Name,
           UseLoaded(s, name) \/ UseFromDisk(s, name)
    PROVE  Names!UseDatabase(s, name)
<1>1. UNCHANGED <<process, disk, op>> /\ Unfinished = {} /\ Unfinished' = {}
  BY DEF UseLoaded, UseFromDisk, idle, Unfinished
<1>2. \A n \in DOMAIN loaded : n \in DOMAIN disk /\ loaded[n] \in DOMAIN objects
  BY DEF ReplInv, RegistryInv, LoadedIsHome, MemoryInv, MemoryOK
<1>3. /\ name \in DOMAIN disk
      /\ \A i \in DOMAIN objects : objects'[i] = objects[i]
      /\ \A n \in DOMAIN disk : TablesOf(n)' = TablesOf(n)
      /\ \E i \in DOMAIN objects' :
            active' = [active EXCEPT ![s] = i] /\ objects'[i].name = name /\ i # Nothing
  <2>1. CASE UseLoaded(s, name)
    <3>1. UNCHANGED <<objects, loaded>> /\ name \in DOMAIN loaded
          /\ active' = [active EXCEPT ![s] = loaded[name]]
      BY <2>1 DEF UseLoaded
    <3>2. objects[loaded[name]].name = name
      BY <3>1 DEF ReplInv, NamesInv, MemoryNamed
    <3>3. loaded[name] # Nothing
      BY <1>2, <3>1 DEF Nothing, ReplInv, RegistryInv, MemoryInv, MemoryOK
    <3> QED
      BY <1>1, <1>2, <3>1, <3>2, <3>3 DEF TablesOf
  <2>2. CASE UseFromDisk(s, name)
    <3>1. /\ name \in DOMAIN disk /\ name \notin DOMAIN loaded
          /\ objects' = Append(objects, Read(name))
          /\ \A i \in DOMAIN objects : objects'[i] = objects[i]
          /\ Len(objects') \in DOMAIN objects' /\ Len(objects') # Nothing
          /\ objects'[Len(objects')] = Read(name)
      BY <2>2 DEF UseFromDisk, ReplInv, RegistryInv, MemoryInv, MemoryOK, Nothing
    <3>2. /\ DOMAIN loaded' = DOMAIN loaded \cup {name} /\ loaded'[name] = Len(objects')
          /\ \A n \in DOMAIN loaded : loaded'[n] = loaded[n]
          /\ active' = [active EXCEPT ![s] = Len(objects')]
      BY <2>2 DEF UseFromDisk, With
    <3>3. Read(name).name = name /\ Read(name).tables = disk[name].tables
      BY <2>2, <3>1, AllNamed DEF UseFromDisk, idle, Read, ReplInv, NamesInv
    <3>4. \A n \in DOMAIN disk : TablesOf(n)' = TablesOf(n)
      BY <1>1, <1>2, <3>1, <3>2, <3>3 DEF TablesOf
    <3> QED
      BY <3>1, <3>2, <3>3, <3>4
  <2> QED
    BY <2>1, <2>2
<1>4. Store' = Store /\ name \in DOMAIN Store
  BY <1>1, <1>3 DEF Store
<1>5. Current' = [Current EXCEPT ![s] = name]
  <2>1. DOMAIN active = Session
        /\ \A r \in Session : active[r] # Nothing => active[r] \in DOMAIN objects
    BY DEF ReplInv, RegistryInv, MemoryInv, MemoryOK
  <2> QED
    BY <1>3, <2>1 DEF Current
<1> QED
  BY <1>4, <1>5 DEF Names!UseDatabase

LEMMA CatalogChange ==
    ASSUME ReplInv, CountInv, NEW s \in Session, NEW t \in Table, Change(s, t)
    PROVE  changes' \in 1 .. MaxWrites /\ Names!ChangeTable(s, t, changes')
<1>1. /\ op.step = "free" /\ process = "up"
      /\ UNCHANGED <<process, disk, loaded, active, op>>
  BY DEF Change, ReplInv, SessionInv
<1>2. Unfinished = {} /\ Unfinished' = {}
  BY <1>1 DEF Unfinished
<1>3. changes' = changes + 1 /\ changes \in 0 .. MaxWrites /\ changes < MaxWrites /\ MaxWrites \in Nat
  BY RegistryAssumption DEF Change, CountInv
<1>4. PICK mine \in DOMAIN loaded :
         /\ mine = Current[s] /\ mine # Nothing /\ mine \in DOMAIN disk
         /\ active[s] # Nothing /\ loaded[mine] = active[s]
  BY UsesLoaded DEF Change, ReplInv, RegistryInv, LoadedIsHome
<1>5. /\ active[s] \in DOMAIN objects /\ IsObject(objects[active[s]])
      /\ t \in DOMAIN objects[active[s]].tables
  BY <1>4 DEF Change, ReplInv, RegistryInv, MemoryInv, MemoryOK
<1>6. /\ DOMAIN objects' = DOMAIN objects
      /\ \A i \in DOMAIN objects \ {active[s]} : objects'[i] = objects[i]
      /\ objects'[active[s]].name = objects[active[s]].name
      /\ objects'[active[s]].tables =
            [objects[active[s]].tables EXCEPT ![t] = @ \cup {changes'}]
  BY <1>5 DEF Change, IsObject
<1>7. Current' = Current
  BY <1>1, <1>6 DEF Current, ReplInv, RegistryInv, MemoryInv, MemoryOK
<1>8. \A n \in DOMAIN loaded \ {mine} : loaded[n] \in DOMAIN objects /\ loaded[n] # active[s]
  BY <1>4 DEF ReplInv, RegistryInv, MemoryInv, MemoryOK, NamesInv, MemoryNamed
<1>9. /\ TablesOf(mine) = objects[active[s]].tables
      /\ TablesOf(mine)' = [TablesOf(mine) EXCEPT ![t] = @ \cup {changes'}]
      /\ \A n \in DOMAIN disk \ {mine} : TablesOf(n)' = TablesOf(n)
  BY <1>1, <1>4, <1>6, <1>8 DEF TablesOf
<1>10. Store' = [Store EXCEPT ![mine][t] = @ \cup {changes'}]
  <2>1. Store' = [n \in DOMAIN disk |-> TablesOf(n)'] /\ Store = [n \in DOMAIN disk |-> TablesOf(n)]
    BY <1>1, <1>2 DEF Store
  <2> QED
    BY <1>4, <1>9, <2>1
<1>11. mine \in DOMAIN Store /\ t \in DOMAIN Store[mine]
  BY <1>2, <1>4, <1>5, <1>9 DEF Store
<1>12. \A n \in DOMAIN Store : \A u \in DOMAIN Store[n] : changes' \notin Store[n][u]
  <2>1. \A n \in DOMAIN disk : Counted(TablesOf(n), changes)
    BY DEF TablesOf, CountInv, ReplInv, RegistryInv, MemoryInv, MemoryOK
  <2> QED
    BY <1>2, <1>3, <2>1 DEF Store, Counted
<1> QED
  BY <1>3, <1>4, <1>7, <1>10, <1>11, <1>12 DEF Names!ChangeTable

\* A session lets go of its database and nothing else happens.
LEMMA CatalogLeave ==
    ASSUME ReplInv, NEW s \in Session, Store' = Store,
           active' = [active EXCEPT ![s] = Nothing], UNCHANGED objects
    PROVE  Names!Leave(s)
<1>1. DOMAIN active = Session
  BY DEF ReplInv, RegistryInv, MemoryInv, MemoryOK
<1>2. Current' = [Current EXCEPT ![s] = Nothing]
  BY <1>1 DEF Current
<1> QED
  BY <1>2 DEF Names!Leave

LEMMA CatalogDisconnect ==
    ASSUME ReplInv, NEW s \in Session, Disconnect(s)
    PROVE  Names!Leave(s)
<1>1. UNCHANGED <<process, disk, objects, loaded, op>> /\ active' = [active EXCEPT ![s] = Nothing]
  BY DEF Disconnect
<1>2. Store' = Store
  BY <1>1 DEF Store, TablesOf, Unfinished
<1> QED
  BY <1>1, <1>2, CatalogLeave

\* CREATE DATABASE takes effect when the metadata are written.
LEMMA CatalogCreate ==
    ASSUME ReplInv, FreshInv, FillMeta, op.name = op.to
    PROVE  Names!CreateDatabase(op.name)
<1>1. /\ IsDoing(op) /\ op.name \in DOMAIN disk /\ op' = Free
      /\ UNCHANGED <<process, objects, loaded, active>> /\ process = "up"
  BY FreeOrDoing DEF FillMeta, ReplInv, RegistryInv, MutexInv, IsDoing, memory
<1>2. op.name \notin DOMAIN loaded /\ disk[op.name].tables = Empty
  BY DEF FillMeta, Creating, FreshInv
<1>3. Unfinished = {op.name} /\ Unfinished' = {}
  BY <1>1 DEF FillMeta, Unfinished, Free
<1>4. /\ DOMAIN disk' = DOMAIN disk /\ disk'[op.name].tables = Empty
      /\ \A n \in DOMAIN disk \ {op.name} : disk'[n] = disk[n]
  <2>1. DOMAIN disk[op.name] = {"made", "meta", "tables"}
    BY <1>1 DEF ReplInv, RegistryInv, DiskInv, DiskOK, IsDirectory
  <2> QED
    BY <1>1, <1>2, <2>1 DEF FillMeta
<1>5. DOMAIN Store = DOMAIN disk \ {op.name} /\ DOMAIN Store' = DOMAIN disk
  BY <1>3, <1>4 DEF Store
<1>6. /\ \A n \in DOMAIN Store : Store'[n] = Store[n]
      /\ Store'[op.name] = [t \in {} |-> {}]
  <2>1. Empty = [t \in {} |-> {}]
    BY DEF Empty
  <2>2. \A n \in DOMAIN disk \ {op.name} : TablesOf(n)' = TablesOf(n)
    BY <1>1, <1>4 DEF TablesOf
  <2>3. /\ Store = [n \in DOMAIN disk \ {op.name} |-> TablesOf(n)]
        /\ Store' = [n \in DOMAIN disk |-> TablesOf(n)']
    BY <1>3, <1>4 DEF Store
  <2>4. Store'[op.name] = disk'[op.name].tables
    BY <1>1, <1>2, <2>3 DEF TablesOf
  <2> QED
    BY <1>4, <2>1, <2>2, <2>3, <2>4
<1>7. Store' = Names!Over(Names!Entry(op.name, [t \in {} |-> {}]), Store)
  <2>1. Store' = [n \in DOMAIN Store' |-> Store'[n]]
    BY DEF Store
  <2> QED
    BY <1>1, <1>5, <1>6, <2>1 DEF Names!Over, Names!Entry
<1>8. Current' = Current
  BY <1>1 DEF Current
<1> QED
  BY <1>5, <1>7, <1>8 DEF Names!CreateDatabase

\* Registry.Drop forgets the database, and the session lets go of it.
LEMMA CatalogDrop ==
    ASSUME Repl, ReplInv, NEW s \in Session, NEW name \in Name, Drop(s, name)
    PROVE  Names!DropDatabase(name) \/ (Store' = Store /\ Current' = Current)
<1>1. /\ UNCHANGED <<process, disk, objects>> /\ process = "up"
      /\ Session = {s} /\ active' = Detached(s, name) /\ DOMAIN active = Session
      /\ Unfinished = {}
  BY DEF Drop, idle, Repl, ReplInv, RegistryInv, MemoryInv, MemoryOK, Unfinished
<1>2. /\ DOMAIN loaded' = DOMAIN loaded \ {name}
      /\ \A n \in DOMAIN loaded' : loaded'[n] = loaded[n]
  BY DEF Drop, Unloaded, Without, Restrict
<1>3. Current' = [r \in Session |-> IF Current[r] = name THEN Nothing ELSE Current[r]]
  <2>1. name # Nothing
    BY RegistryAssumption
  <2> QED
    BY <1>1, <2>1 DEF Current, Detached
<1>4. \A n \in DOMAIN disk \ {name} : TablesOf(n)' = TablesOf(n)
  BY <1>1, <1>2 DEF TablesOf
<1>5. CASE name \in DOMAIN disk
  <2>1. Unfinished' = {name}
    BY <1>1, <1>5 DEF Drop, Doing, Unfinished
  <2>2. /\ Store = [n \in DOMAIN disk |-> TablesOf(n)]
        /\ Store' = [n \in DOMAIN disk \ {name} |-> TablesOf(n)']
    BY <1>1, <2>1 DEF Store
  <2>3. Store' = Names!Restrict(Store, DOMAIN Store \ {name})
    BY <1>4, <2>2 DEF Names!Restrict
  <2> QED
    BY <1>3, <1>5, <2>2, <2>3 DEF Names!DropDatabase
<1>6. CASE name \notin DOMAIN disk
  <2>1. Unfinished' = {}
    BY <1>1, <1>6 DEF Drop, idle, Unfinished
  <2>2. Store' = Store
    BY <1>1, <1>4, <1>6, <2>1 DEF Store
  <2>3. Current[s] # name
    <3>1. name \notin DOMAIN loaded
      BY <1>6 DEF ReplInv, RegistryInv, LoadedIsHome
    <3> QED
      BY <3>1, UsesLoaded, RegistryAssumption
  <2>4. Current' = Current
    BY <1>1, <1>3, <2>3 DEF Current
  <2> QED
    BY <2>2, <2>4
<1> QED
  BY <1>5, <1>6

\* ALTER DATABASE begins with the session letting go of it.
LEMMA CatalogRenameAsked ==
    ASSUME Repl, ReplInv, NEW s \in Session, NEW name \in Name, NEW to \in Name,
           Rename(s, name, to)
    PROVE  Names!Leave(s) \/ (Store' = Store /\ Current' = Current)
<1>1. /\ UNCHANGED <<process, disk, objects, loaded>> /\ process = "up"
      /\ active' = Detached(s, name) /\ Unfinished = {} /\ Unfinished' = {}
  BY DEF Rename, idle, Doing, Unfinished
<1>2. Store' = Store
  BY <1>1 DEF Store, TablesOf
<1>3. active' = [active EXCEPT ![s] = Nothing] \/ active' = active
  BY <1>1 DEF Detached
<1>4. active' = active => Current' = Current
  BY <1>1 DEF Current
<1> QED
  BY <1>1, <1>2, <1>3, <1>4, CatalogLeave

\* os.Rename: the database has its new name, and nobody uses it.
LEMMA CatalogMove ==
    ASSUME ReplInv, Move
    PROVE  \/ \E name, to \in Name : Names!RenameDatabase(name, to)
           \/ Store' = Store /\ Current' = Current
<1>1. /\ IsDoing(op) /\ UNCHANGED <<process, objects, loaded, active>> /\ process = "up"
      /\ op.name \in Name /\ op.to \in Name /\ op.name \notin DOMAIN loaded
      /\ Unfinished = {}
  BY FreeOrDoing DEF Move, ReplInv, RegistryInv, MutexInv, IsDoing, Unfinished, memory
<1>2. Current' = Current
  BY <1>1 DEF Current
<1>3. CASE op.name \in DOMAIN disk /\ op.to \notin DOMAIN disk
  <2>1. disk' = Moved /\ Unfinished' = {}
    BY <1>1, <1>3 DEF Move, Unfinished, IsDoing, Free
  <2>2. /\ DOMAIN disk' = (DOMAIN disk \cup {op.to}) \ {op.name}
        /\ disk'[op.to] = disk[op.name]
        /\ \A n \in DOMAIN disk \ {op.name} : disk'[n] = disk[n]
    BY <1>3, <2>1 DEF Moved, Without, With, Restrict
  <2>3. op.to \notin DOMAIN loaded
    BY <1>3 DEF ReplInv, RegistryInv, LoadedIsHome
  <2>4. /\ Store = [n \in DOMAIN disk |-> TablesOf(n)]
        /\ Store' = [n \in (DOMAIN disk \cup {op.to}) \ {op.name} |-> TablesOf(n)']
    BY <1>1, <2>1, <2>2 DEF Store
  <2>5. \A n \in DOMAIN disk \ {op.name} : TablesOf(n)' = TablesOf(n)
    BY <1>1, <2>2 DEF TablesOf
  <2>6. Store'[op.to] = Store[op.name]
    <3>1. Store'[op.to] = disk'[op.to].tables
      BY <1>1, <1>3, <2>3, <2>4 DEF TablesOf
    <3>2. Store[op.name] = disk[op.name].tables
      BY <1>1, <1>3, <2>4 DEF TablesOf
    <3> QED
      BY <2>2, <3>1, <3>2
  <2>7. Store' = Names!Over(Names!Entry(op.to, Store[op.name]),
                            Names!Restrict(Store, DOMAIN Store \ {op.name}))
    <3>1. \A n \in DOMAIN disk \ {op.name} : Store'[n] = Store[n]
      BY <2>4, <2>5
    <3>2. /\ DOMAIN Store = DOMAIN disk /\ Store' = [n \in DOMAIN Store' |-> Store'[n]]
          /\ DOMAIN Store' = (DOMAIN disk \cup {op.to}) \ {op.name}
      BY <2>4
    <3> QED
      BY <1>3, <2>6, <3>1, <3>2 DEF Names!Over, Names!Entry, Names!Restrict
  <2>8. \A s \in Session : Current[s] # op.name
    BY <1>1, UsesLoaded, RegistryAssumption
  <2>9. op.name \in DOMAIN Store /\ op.to \notin DOMAIN Store
    BY <1>3, <2>4
  <2> QED
    BY <1>1, <1>2, <2>7, <2>8, <2>9 DEF Names!RenameDatabase
<1>4. CASE ~(op.name \in DOMAIN disk /\ op.to \notin DOMAIN disk)
  <2>1. UNCHANGED disk /\ Unfinished' = {}
    BY <1>1, <1>4 DEF Move, Unfinished, Free
  <2> QED
    BY <1>1, <2>1, SilentDisk
<1> QED
  BY <1>3, <1>4

\* The program ends after it has saved what it had loaded.
LEMMA CatalogExited ==
    ASSUME Repl, ReplInv, CountInv, Exited
    PROVE  (\E s \in Session : Names!Leave(s)) \/ (Store' = Store /\ Current' = Current)
<1>1. /\ UNCHANGED disk /\ DOMAIN loaded' = {} /\ op.step = "free" /\ op'.step = "free"
      /\ process = "exiting" /\ process' = "exited"
      /\ active' = [s \in Session |-> Nothing]
  BY DEF Exited, Forgotten, Empty, Free
<1>2. Unfinished = {} /\ Unfinished' = {}
  BY <1>1 DEF Unfinished
<1>3. \A n \in DOMAIN loaded : disk[n].tables = objects[loaded[n]].tables
  BY <1>1, SavedIsOnDisk DEF Exited, ReplInv, WrittenInv
<1>4. \A n \in DOMAIN disk : TablesOf(n)' = TablesOf(n)
  BY <1>1, <1>3 DEF TablesOf
<1>5. Store' = Store
  BY <1>1, <1>2, <1>4 DEF Store
<1>6. Current' = [s \in Session |-> Nothing]
  BY <1>1 DEF Current
<1>7. Current = [s \in Session |-> Current[s]]
  BY DEF Current
<1>8. ASSUME NEW s \in Session
      PROVE  Names!Leave(s)
  <2>1. Session = {s}
    BY DEF Repl
  <2> QED
    BY <1>5, <1>6, <1>7, <2>1 DEF Names!Leave
<1>9. CASE Session = {}
  BY <1>5, <1>6, <1>7, <1>9
<1> QED
  BY <1>8, <1>9

-----------------------------------------------------------------------------
LEMMA CatalogInit == Init => CatalogInv /\ Names!Init
<1> SUFFICES ASSUME Init PROVE CatalogInv /\ Names!Init
  OBVIOUS
<1>1. /\ DOMAIN disk = {} /\ DOMAIN objects = {} /\ changes = 0 /\ op.step = "free"
      /\ process = "down" /\ active = [s \in Session |-> Nothing]
  BY DEF Init, Empty, Free
<1>2. CountInv /\ FreshInv
  BY <1>1, RegistryAssumption DEF CountInv, FreshInv, Creating
<1>3. Store = [n \in {} |-> Nothing] /\ Current = [s \in Session |-> Nothing]
  BY <1>1 DEF Store, Current
<1> QED
  BY <1>2, <1>3, ReplInit DEF CatalogInv, Names!Init

LEMMA CatalogStep ==
    ASSUME Repl, CatalogInv, [Next]_vars
    PROVE  [Names!Next]_<<Store, Current>>
<1> USE DEF CatalogInv
<1>1. ~SeedFails /\ ~OperationFails /\ ~Crash
  BY DEF Repl, ReplInv, SeedFails, OperationFails, Crash
<1>2. CASE UNCHANGED vars
  BY <1>2 DEF vars, memory, Store, Current, TablesOf, Unfinished
<1>3. ASSUME NEW s \in Session, NEW name \in Name,
             \/ UseLoaded(s, name) \/ UseFromDisk(s, name)
             \/ Create(s, name) \/ Drop(s, name)
             \/ \E to \in Name : Rename(s, name, to)
      PROVE  [Names!Next]_<<Store, Current>>
  BY <1>3, CatalogUse, SilentCreate, CatalogDrop, CatalogRenameAsked DEF Names!Next
<1>4. ASSUME NEW s \in Session, NEW t \in Table, Change(s, t)
      PROVE  Names!Next
  BY <1>4, CatalogChange DEF Names!Next
<1>5. ASSUME NEW s \in Session, Disconnect(s)
      PROVE  Names!Next
  BY <1>5, CatalogDisconnect DEF Names!Next
<1>6. CASE FillMeta /\ op.name = op.to
  <2>1. op.name \in Name
    BY <1>6, FreeOrDoing DEF FillMeta, ReplInv, RegistryInv, MutexInv, IsDoing
  <2> QED
    BY <1>6, <2>1, CatalogCreate DEF Names!Next
<1>7. CASE Seeded
  BY <1>7, CatalogSeeded DEF Names!Next
<1>8. CASE Move
  BY <1>8, CatalogMove DEF Names!Next
<1>9. CASE Exited
  BY <1>9, CatalogExited DEF Names!Next
<1> QED
  BY <1>1, <1>2, <1>3, <1>4, <1>5, <1>6, <1>7, <1>8, <1>9,
     SilentSeeding, SilentOperation, SilentSave, SilentExit
  DEF Next

\* In the REPL, and without errors and crashes, every statement on databases
\* takes effect as a whole: the registry, its objects and the directories
\* together behave as a catalog of names, through any sequence of CREATE, USE,
\* DROP and RENAME, of changes, ends of the program and new starts.
THEOREM ReplImplementsCatalog == Repl => (Spec => CatalogKept)
<1> SUFFICES ASSUME Repl PROVE Spec => CatalogKept
  OBVIOUS
<1>1. CatalogInv /\ [Next]_vars => CatalogInv'
  BY ReplStep, CountStep, FreshStep DEF CatalogInv
<1>2. CatalogInv /\ [Next]_vars => [Names!Next]_<<Store, Current>>
  BY CatalogStep
<1> QED
  BY CatalogInit, <1>1, <1>2, PTL DEF Spec, CatalogKept, Names!CatalogSpec, Names!vars

=============================================================================
