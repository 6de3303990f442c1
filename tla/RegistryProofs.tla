--------------------------- MODULE RegistryProofs ---------------------------
(***************************************************************************)
(* Theorems about Registry, for any sessions, names and tables and without *)
(* its bounds: directories are neither lost nor doubled, a save goes to    *)
(* the directory its object was read from and takes nothing back, and a    *)
(* database says the name it is known by.                                  *)
(***************************************************************************)
EXTENDS Registry, TLAPS

DiskOK ==
    /\ DOMAIN disk \subseteq Name
    /\ \A n \in DOMAIN disk : IsDirectory(disk[n])

MemoryOK ==
    /\ objects \in Seq({objects[i] : i \in DOMAIN objects})
    /\ \A i \in DOMAIN objects : IsObject(objects[i])
    /\ DOMAIN loaded \subseteq Name
    /\ \A n \in DOMAIN loaded : loaded[n] \in DOMAIN objects
    /\ DOMAIN active = Session
    /\ \A s \in Session : active[s] # Nothing => active[s] \in DOMAIN objects

OpOK ==
    /\ process \in {"seeding", "up", "exiting", "exited", "down"}
    /\ op = Free \/ IsDoing(op)
    /\ left \subseteq DOMAIN loaded

LEMMA TypeParts == TypeOK <=> DiskOK /\ MemoryOK /\ OpOK
BY DEF TypeOK, DiskOK, MemoryOK, OpOK

\* No two directories were made at the same time, and only a DROP takes one
\* away.
DiskInv ==
    /\ DiskOK
    /\ born \in Nat
    /\ \A n \in DOMAIN disk : disk[n].made \in 1 .. born
    /\ \A m, n \in DOMAIN disk : disk[m].made = disk[n].made => m = n
    /\ \A made \in 1 .. born \ dropped : \E n \in DOMAIN disk : disk[n].made = made

MemoryInv == MemoryOK /\ changes \in Nat

\* What the holder of the mutex removes or moves is not loaded, and there is
\* neither a holder nor a loaded database unless the process is running.
MutexInv ==
    /\ OpOK
    /\ op.step = "remove" => op.name \notin DOMAIN loaded /\ disk[op.name].made \in dropped
    /\ op.step = "move" => op.name \notin DOMAIN loaded
    /\ process \in {"seeding", "exited", "down"} => op = Free /\ loaded = Empty
    /\ process = "seeding" => Main \in DOMAIN disk
    /\ process = "exiting" => op.step \in {"free", "save"}
    /\ process # "exiting" => left = {}

RegistryInv == DiskInv /\ MemoryInv /\ MutexInv /\ LoadedIsHome

-----------------------------------------------------------------------------
(* The operators on functions.                                             *)

LEMMA WithoutFacts ==
    ASSUME NEW f, NEW x
    PROVE  /\ DOMAIN Without(f, x) = DOMAIN f \ {x}
           /\ \A y \in DOMAIN f \ {x} : Without(f, x)[y] = f[y]
BY DEF Without, Restrict

LEMMA IsSequence ==
    ASSUME NEW n \in Nat, NEW f, f = [i \in 1 .. n |-> f[i]]
    PROVE  f \in Seq({f[i] : i \in DOMAIN f})
OBVIOUS

LEMMA DetachedFacts ==
    ASSUME NEW s, NEW name
    PROVE  /\ DOMAIN Detached(s, name) = DOMAIN active
           /\ \A t \in DOMAIN active : Detached(s, name)[t] \in {Nothing, active[t]}
BY DEF Detached

-----------------------------------------------------------------------------
(* Steps of the disk.                                                      *)

\* Only the directory n is written to, and it remains the one it was.
Rewritten(n) ==
    /\ DOMAIN disk' = DOMAIN disk
    /\ \A m \in DOMAIN disk \ {n} : disk'[m] = disk[m]
    /\ disk'[n].made = disk[n].made
    /\ IsDirectory(disk'[n])

LEMMA DiskSame ==
    ASSUME DiskInv, UNCHANGED <<disk, born>>, dropped \subseteq dropped'
    PROVE  DiskInv'
BY DEF DiskInv, DiskOK

LEMMA DiskRewritten ==
    ASSUME DiskInv, NEW n \in DOMAIN disk, Rewritten(n), UNCHANGED <<born, dropped>>
    PROVE  DiskInv'
<1>1. \A m \in DOMAIN disk : disk'[m].made = disk[m].made /\ IsDirectory(disk'[m])
  BY DEF Rewritten, DiskInv, DiskOK
<1> QED
  BY <1>1 DEF Rewritten, DiskInv, DiskOK

LEMMA MetaWritten ==
    ASSUME DiskOK, NEW n \in DOMAIN disk, NEW v \in Meta,
           disk' = [disk EXCEPT ![n].meta = v]
    PROVE  Rewritten(n) /\ disk'[n].tables = disk[n].tables
BY DEF Rewritten, DiskOK, IsDirectory

LEMMA TablesWritten ==
    ASSUME DiskOK, NEW n \in DOMAIN disk, NEW v,
           DOMAIN v \subseteq Table, \A t \in DOMAIN v : v[t] \subseteq Nat,
           disk' = [disk EXCEPT ![n].tables = v]
    PROVE  Rewritten(n) /\ disk'[n].tables = v
BY DEF Rewritten, DiskOK, IsDirectory

LEMMA DirectoryMade ==
    ASSUME DiskInv, NEW n \in Name, n \notin DOMAIN disk,
           born' = born + 1, disk' = With(disk, n, NewDirectory), UNCHANGED dropped
    PROVE  /\ DiskInv'
           /\ DOMAIN disk' = DOMAIN disk \cup {n}
           /\ \A m \in DOMAIN disk : disk'[m] = disk[m]
<1>1. /\ DOMAIN disk' = DOMAIN disk \cup {n}
      /\ disk'[n] = NewDirectory
      /\ \A m \in DOMAIN disk : disk'[m] = disk[m]
  BY DEF With
<1>2. IsDirectory(NewDirectory) /\ NewDirectory.made = born + 1
  BY DEF NewDirectory, IsDirectory, Meta, Empty, DiskInv
<1>3. DiskOK'
  BY <1>1, <1>2 DEF DiskInv, DiskOK
<1>4. \A m \in DOMAIN disk' : disk'[m].made \in 1 .. born'
  BY <1>1, <1>2 DEF DiskInv
<1>5. \A l, m \in DOMAIN disk' : disk'[l].made = disk'[m].made => l = m
  BY <1>1, <1>2 DEF DiskInv
<1>6. \A made \in 1 .. born' \ dropped' : \E m \in DOMAIN disk' : disk'[m].made = made
  <2>1. \A made \in 1 .. born' : made \in 1 .. born \/ made = born + 1
    BY DEF DiskInv
  <2> QED
    BY <1>1, <1>2, <2>1 DEF DiskInv
<1> QED
  BY <1>1, <1>3, <1>4, <1>5, <1>6 DEF DiskInv

LEMMA DirectoryMoved ==
    ASSUME DiskInv, NEW n \in DOMAIN disk, NEW to \in Name, to \notin DOMAIN disk,
           disk' = Without(With(disk, to, disk[n]), n), UNCHANGED <<born, dropped>>
    PROVE  /\ DiskInv'
           /\ DOMAIN disk' = (DOMAIN disk \cup {to}) \ {n}
           /\ disk'[to] = disk[n]
           /\ \A m \in DOMAIN disk \ {n} : disk'[m] = disk[m]
<1>1. /\ DOMAIN disk' = (DOMAIN disk \cup {to}) \ {n}
      /\ disk'[to] = disk[n]
      /\ \A m \in DOMAIN disk \ {n} : disk'[m] = disk[m]
  BY DEF Without, With, Restrict
<1>2. DiskOK'
  BY <1>1 DEF DiskInv, DiskOK
<1>3. \A l, m \in DOMAIN disk' : disk'[l].made = disk'[m].made => l = m
  BY <1>1 DEF DiskInv
<1> QED
  BY <1>1, <1>2, <1>3 DEF DiskInv

LEMMA DirectoryRemoved ==
    ASSUME DiskInv, NEW n \in DOMAIN disk, disk[n].made \in dropped,
           disk' = Without(disk, n), UNCHANGED <<born, dropped>>
    PROVE  /\ DiskInv'
           /\ DOMAIN disk' = DOMAIN disk \ {n}
           /\ \A m \in DOMAIN disk \ {n} : disk'[m] = disk[m]
<1>1. /\ DOMAIN disk' = DOMAIN disk \ {n}
      /\ \A m \in DOMAIN disk \ {n} : disk'[m] = disk[m]
  BY DEF Without, Restrict
<1>2. DiskOK'
  BY <1>1 DEF DiskInv, DiskOK
<1> QED
  BY <1>1, <1>2 DEF DiskInv

-----------------------------------------------------------------------------
(* Steps of the memory.                                                    *)

LEMMA MemorySame ==
    ASSUME MemoryInv, UNCHANGED <<objects, loaded, active, changes>>
    PROVE  MemoryInv'
BY DEF MemoryInv, MemoryOK

\* Databases are unloaded, and sessions give theirs up.
LEMMA MemoryUnloaded ==
    ASSUME MemoryInv, UNCHANGED <<objects, changes>>,
           DOMAIN loaded' \subseteq DOMAIN loaded,
           \A n \in DOMAIN loaded' : loaded'[n] = loaded[n],
           DOMAIN active' = DOMAIN active,
           \A s \in DOMAIN active : active'[s] \in {Nothing, active[s]}
    PROVE  MemoryInv'
BY DEF MemoryInv, MemoryOK

LEMMA MemoryForgotten ==
    ASSUME MemoryInv, Forgotten, UNCHANGED changes
    PROVE  MemoryInv'
<1>1. objects' = <<>> /\ DOMAIN loaded' = {}
  BY DEF Forgotten, Empty
<1>2. DOMAIN active' = Session /\ \A s \in Session : active'[s] = Nothing
  BY DEF Forgotten
<1>3. <<>> \in Seq({objects'[i] : i \in DOMAIN objects'}) /\ DOMAIN objects' = {}
  BY <1>1
<1> QED
  BY <1>1, <1>2, <1>3 DEF MemoryInv, MemoryOK

\* The loaded databases stay at home as long as their directories keep their
\* tables.
LEMMA HomeKept ==
    ASSUME LoadedIsHome, UNCHANGED objects,
           DOMAIN loaded' \subseteq DOMAIN loaded,
           \A n \in DOMAIN loaded' :
              /\ loaded'[n] = loaded[n]
              /\ n \in DOMAIN disk => n \in DOMAIN disk'
              /\ n \in DOMAIN disk =>
                    disk'[n].made = disk[n].made /\ disk'[n].tables = disk[n].tables
    PROVE  LoadedIsHome'
BY DEF LoadedIsHome, Keeps

LEMMA HomeForgotten == ASSUME Forgotten PROVE LoadedIsHome'
BY DEF Forgotten, LoadedIsHome, Empty

-----------------------------------------------------------------------------
(* The steps, grouped as in Registry.                                      *)

LEMMA FreeOrDoing ==
    ASSUME OpOK
    PROVE  /\ Free.step = "free"
           /\ op.step = "free" => op = Free
           /\ op.step # "free" => IsDoing(op)
BY DEF OpOK, Free, IsDoing

LEMMA InvInit == Init => RegistryInv
<1> SUFFICES ASSUME Init PROVE RegistryInv
  OBVIOUS
<1>1. DOMAIN disk = {} /\ DOMAIN loaded = {} /\ objects = <<>>
  BY DEF Init, Empty
<1>2. DiskInv
  BY <1>1 DEF Init, DiskInv, DiskOK
<1>3. MemoryInv
  <2>1. objects \in Seq({objects[i] : i \in DOMAIN objects}) /\ DOMAIN objects = {}
    BY <1>1
  <2> QED
    BY <1>1, <2>1 DEF Init, MemoryInv, MemoryOK
<1>4. MutexInv
  BY <1>1 DEF Init, MutexInv, OpOK, Free
<1>5. LoadedIsHome
  BY <1>1 DEF LoadedIsHome
<1> QED
  BY <1>2, <1>3, <1>4, <1>5 DEF RegistryInv

LEMMA InvStart ==
    ASSUME RegistryInv, Start
    PROVE  RegistryInv'
<1>1. op = Free /\ loaded = Empty /\ DOMAIN loaded = {} /\ left = {}
  BY DEF RegistryInv, MutexInv, Start, Empty
<1>2. UNCHANGED <<objects, loaded, active, op, left, changes, dropped>>
  BY DEF Start, memory
<1>3. MemoryInv' /\ LoadedIsHome'
  BY <1>1, <1>2, MemorySame DEF RegistryInv, LoadedIsHome
<1>4. DiskInv' /\ (process' = "seeding" => Main \in DOMAIN disk')
  <2>1. CASE Main \in DOMAIN disk
    BY <1>2, <2>1, DiskSame DEF RegistryInv, Start
  <2>2. CASE Main \notin DOMAIN disk
    BY <1>2, <2>2, DirectoryMade, RegistryAssumption DEF RegistryInv, Start
  <2> QED
    BY <2>1, <2>2
<1>5. MutexInv'
  <2>1. process' \in {"seeding", "up"}
    BY DEF Start
  <2> QED
    BY <1>1, <1>2, <1>4, <2>1 DEF MutexInv, OpOK, Free
<1> QED
  BY <1>3, <1>4, <1>5 DEF RegistryInv

LEMMA InvSeeding ==
    ASSUME RegistryInv,
           SeedMeta \/ (\E t \in Table : SeedOneTable(t)) \/ Seeded \/ SeedFails
    PROVE  RegistryInv'
<1>1. process = "seeding" /\ op = Free /\ loaded = Empty /\ left = {} /\ Main \in DOMAIN disk
  BY DEF RegistryInv, MutexInv, SeedMeta, SeedOneTable, Seeded, SeedFails
<1>2. /\ UNCHANGED <<objects, loaded, active, op, left, born, changes, dropped>>
      /\ process' \in {"seeding", "up"}
  BY <1>1 DEF SeedMeta, SeedOneTable, Seeded, SeedFails, memory, observed
<1>3. DiskInv' /\ Main \in DOMAIN disk'
  <2>1. CASE SeedMeta
    <3>1. disk' = [disk EXCEPT ![Main].meta = Main] /\ Main \in Meta /\ DiskOK
      BY <2>1, RegistryAssumption DEF SeedMeta, Meta, RegistryInv, DiskInv
    <3>2. Rewritten(Main)
      BY <1>1, <3>1, MetaWritten
    <3> QED
      BY <1>1, <1>2, <3>2, DiskRewritten DEF RegistryInv, Rewritten
  <2>2. ASSUME NEW t \in Table, SeedOneTable(t)
        PROVE  DiskInv' /\ Main \in DOMAIN disk'
    <3> DEFINE v == With(disk[Main].tables, t, {})
    <3>1. disk' = [disk EXCEPT ![Main].tables = v]
      BY <2>2 DEF SeedOneTable
    <3>2. DOMAIN v \subseteq Table /\ \A u \in DOMAIN v : v[u] \subseteq Nat
      BY <1>1 DEF RegistryInv, DiskInv, DiskOK, IsDirectory, With
    <3> HIDE DEF v
    <3>3. Rewritten(Main)
      BY <1>1, <3>1, <3>2, TablesWritten DEF RegistryInv, DiskInv
    <3> QED
      BY <1>1, <1>2, <3>3, DiskRewritten DEF RegistryInv, Rewritten
  <2>3. CASE Seeded \/ SeedFails
    BY <1>1, <1>2, <2>3, DiskSame DEF RegistryInv, Seeded, SeedFails
  <2> QED
    BY <2>1, <2>2, <2>3
<1>4. MutexInv'
  BY <1>1, <1>2, <1>3 DEF MutexInv, OpOK, Free
<1>5. MemoryInv' /\ LoadedIsHome'
  BY <1>1, <1>2, MemorySame DEF RegistryInv, LoadedIsHome, Empty
<1> QED
  BY <1>3, <1>4, <1>5 DEF RegistryInv

LEMMA InvUse ==
    ASSUME RegistryInv, NEW s \in Session, NEW name \in Name,
           UseLoaded(s, name) \/ UseFromDisk(s, name)
    PROVE  RegistryInv'
<1>1. op = Free /\ process = "up" /\ left = {}
  BY FreeOrDoing DEF RegistryInv, MutexInv, UseLoaded, UseFromDisk, idle
<1>2. UNCHANGED <<process, disk, op, left, born, changes, dropped>>
  BY DEF UseLoaded, UseFromDisk, observed
<1>3. DiskInv'
  BY <1>2, DiskSame DEF RegistryInv
<1>4. MutexInv'
  BY <1>1, <1>2 DEF RegistryInv, MutexInv, OpOK, Free
<1>5. CASE UseLoaded(s, name)
  <2>1. MemoryInv'
    BY <1>2, <1>5 DEF RegistryInv, MemoryInv, MemoryOK, UseLoaded
  <2>2. LoadedIsHome'
    BY <1>2, <1>5, HomeKept DEF RegistryInv, UseLoaded
  <2> QED
    BY <1>3, <1>4, <2>1, <2>2 DEF RegistryInv
<1>6. CASE UseFromDisk(s, name)
  <2> DEFINE new == Len(objects) + 1
  <2>1. /\ objects' = Append(objects, Read(name))
        /\ DOMAIN objects' = DOMAIN objects \cup {new} /\ new \notin DOMAIN objects
        /\ objects'[new] = Read(name)
        /\ \A i \in DOMAIN objects : objects'[i] = objects[i]
        /\ Len(objects') = new
    BY <1>6 DEF RegistryInv, MemoryInv, MemoryOK, UseFromDisk
  <2> HIDE DEF new
  <2>2. IsObject(Read(name))
    BY <1>6 DEF UseFromDisk, Read, IsObject, RegistryInv, DiskInv, DiskOK, IsDirectory
  <2>3. objects' \in Seq({objects'[i] : i \in DOMAIN objects'})
    <3>1. objects \in Seq({objects'[i] : i \in DOMAIN objects'})
      <4>1. ASSUME NEW i \in DOMAIN objects
            PROVE  objects[i] \in {objects'[j] : j \in DOMAIN objects'}
        <5>1. i \in DOMAIN objects' /\ objects'[i] = objects[i]
          BY <2>1
        <5> QED
          BY <5>1
      <4> QED
        BY <4>1 DEF RegistryInv, MemoryInv, MemoryOK
    <3>2. Read(name) \in {objects'[i] : i \in DOMAIN objects'}
      BY <2>1
    <3> QED
      BY <2>1, <3>1, <3>2
  <2>4. /\ DOMAIN loaded' = DOMAIN loaded \cup {name} /\ loaded'[name] = new
        /\ \A n \in DOMAIN loaded : loaded'[n] = loaded[n]
    BY <1>6, <2>1 DEF UseFromDisk, With
  <2>5. DOMAIN active' = Session
        /\ \A t \in Session : active'[t] # Nothing => active'[t] \in DOMAIN objects'
    BY <1>6, <2>1 DEF UseFromDisk, RegistryInv, MemoryInv, MemoryOK
  <2>6. MemoryInv'
    BY <1>2, <2>1, <2>2, <2>3, <2>4, <2>5 DEF RegistryInv, MemoryInv, MemoryOK
  <2>7. LoadedIsHome'
    BY <1>2, <1>6, <2>1, <2>4
    DEF UseFromDisk, Read, RegistryInv, LoadedIsHome, Keeps, MemoryInv, MemoryOK
  <2> QED
    BY <1>3, <1>4, <2>6, <2>7 DEF RegistryInv
<1> QED
  BY <1>5, <1>6

LEMMA InvChange ==
    ASSUME RegistryInv, NEW s \in Session, NEW t \in Table, Change(s, t)
    PROVE  RegistryInv'
<1> DEFINE i == active[s]
<1>1. UNCHANGED <<process, disk, loaded, active, op, left, born, dropped>>
  BY DEF Change
<1>2. changes' \in Nat /\ changes' = changes + 1
  BY DEF Change, RegistryInv, MemoryInv
<1>3. i \in DOMAIN objects /\ IsObject(objects[i]) /\ t \in DOMAIN objects[i].tables
  BY DEF Change, RegistryInv, MemoryInv, MemoryOK
<1>4. objects' = [objects EXCEPT ![i].tables[t] = @ \cup {changes'}]
  BY DEF Change
<1> HIDE DEF i
<1>5. /\ DOMAIN objects' = DOMAIN objects
      /\ \A j \in DOMAIN objects \ {i} : objects'[j] = objects[j]
      /\ objects'[i] = [objects[i] EXCEPT !.tables[t] = @ \cup {changes'}]
  BY <1>3, <1>4
<1>6. /\ objects'[i].path = objects[i].path /\ objects'[i].made = objects[i].made
      /\ DOMAIN objects'[i].tables = DOMAIN objects[i].tables
      /\ \A u \in DOMAIN objects[i].tables : objects[i].tables[u] \subseteq objects'[i].tables[u]
      /\ IsObject(objects'[i])
  BY <1>2, <1>3, <1>5 DEF IsObject
<1>7. DiskInv'
  BY <1>1, DiskSame DEF RegistryInv
<1>8. MemoryInv'
  <2>1. objects' \in Seq({objects'[j] : j \in DOMAIN objects'})
    <3>1. DOMAIN objects = 1 .. Len(objects) /\ Len(objects) \in Nat
      BY DEF RegistryInv, MemoryInv, MemoryOK
    <3>2. objects' = [j \in 1 .. Len(objects) |-> objects'[j]]
      BY <1>4, <3>1
    <3> QED
      BY <3>1, <3>2, IsSequence
  <2> QED
    BY <1>1, <1>2, <1>5, <1>6, <2>1 DEF RegistryInv, MemoryInv, MemoryOK
<1>9. MutexInv'
  BY <1>1 DEF RegistryInv, MutexInv, OpOK, IsDoing
<1>10. LoadedIsHome'
  <2>1. \A j \in DOMAIN objects :
          /\ objects'[j].path = objects[j].path /\ objects'[j].made = objects[j].made
          /\ DOMAIN objects'[j].tables = DOMAIN objects[j].tables
          /\ \A u \in DOMAIN objects[j].tables :
                objects[j].tables[u] \subseteq objects'[j].tables[u]
    BY <1>5, <1>6
  <2>2. \A n \in DOMAIN loaded : loaded[n] \in DOMAIN objects
    BY DEF RegistryInv, MemoryInv, MemoryOK
  <2> QED
    BY <1>1, <2>1, <2>2 DEF RegistryInv, LoadedIsHome, Keeps
<1> QED
  BY <1>7, <1>8, <1>9, <1>10 DEF RegistryInv

LEMMA InvDisconnect ==
    ASSUME RegistryInv, NEW s \in Session, Disconnect(s)
    PROVE  RegistryInv'
<1>1. /\ UNCHANGED <<process, disk, objects, loaded, op, left, born, changes, dropped>>
      /\ active' = [active EXCEPT ![s] = Nothing]
  BY DEF Disconnect, observed
<1>2. DiskInv'
  BY <1>1, DiskSame DEF RegistryInv
<1>3. MemoryInv'
  BY <1>1, MemoryUnloaded DEF RegistryInv
<1>4. LoadedIsHome'
  BY <1>1, HomeKept DEF RegistryInv
<1>5. MutexInv'
  BY <1>1 DEF RegistryInv, MutexInv, OpOK, IsDoing
<1> QED
  BY <1>2, <1>3, <1>4, <1>5 DEF RegistryInv

LEMMA InvCreate ==
    ASSUME RegistryInv, NEW s \in Session, NEW name \in Name, Create(s, name)
    PROVE  RegistryInv'
<1>1. process = "up" /\ left = {} /\ name \notin DOMAIN disk
  BY DEF RegistryInv, MutexInv, Create, idle
<1>2. UNCHANGED <<process, objects, loaded, active, left, changes, dropped>>
  BY DEF Create, memory
<1>3. /\ DiskInv' /\ DOMAIN disk' = DOMAIN disk \cup {name}
      /\ \A m \in DOMAIN disk : disk'[m] = disk[m]
  BY <1>1, <1>2, DirectoryMade DEF RegistryInv, Create
<1>4. MemoryInv' /\ LoadedIsHome'
  BY <1>2, <1>3, MemorySame, HomeKept DEF RegistryInv
<1>5. op' = Doing({s}, "truncate", name, name, {})
  BY DEF Create
<1>6. MutexInv'
  BY <1>1, <1>2, <1>3, <1>5 DEF RegistryInv, MutexInv, OpOK, IsDoing, Doing
<1> QED
  BY <1>3, <1>4, <1>6 DEF RegistryInv

LEMMA InvDrop ==
    ASSUME RegistryInv, NEW s \in Session, NEW name \in Name, Drop(s, name)
    PROVE  RegistryInv'
<1>1. process = "up" /\ left = {} /\ op = Free
  BY FreeOrDoing DEF RegistryInv, MutexInv, Drop, idle
<1>2. UNCHANGED <<process, disk, objects, left, born, changes>> /\ dropped \subseteq dropped'
  BY DEF Drop
<1>3. DiskInv'
  BY <1>2, DiskSame DEF RegistryInv
<1>4. /\ DOMAIN loaded' = DOMAIN loaded \ {name}
      /\ \A n \in DOMAIN loaded' : loaded'[n] = loaded[n]
  BY DEF Drop, Unloaded, Without, Restrict
<1>5. MemoryInv'
  BY <1>2, <1>4, DetachedFacts, MemoryUnloaded DEF RegistryInv, Drop
<1>6. LoadedIsHome'
  BY <1>2, <1>4, HomeKept DEF RegistryInv
<1>7. MutexInv'
  <2>1. CASE name \in DOMAIN disk
    <3>1. op' = Doing({s}, "remove", name, name, {}) /\ disk[name].made \in dropped'
      BY <2>1 DEF Drop
    <3> QED
      BY <1>1, <1>2, <1>4, <2>1, <3>1 DEF RegistryInv, MutexInv, OpOK, IsDoing, Doing
  <2>2. CASE name \notin DOMAIN disk
    BY <1>1, <1>2, <1>4, <2>2 DEF Drop, RegistryInv, MutexInv, OpOK, Free
  <2> QED
    BY <2>1, <2>2
<1> QED
  BY <1>3, <1>5, <1>6, <1>7 DEF RegistryInv

LEMMA InvRename ==
    ASSUME RegistryInv, NEW s \in Session, NEW name \in Name, NEW to \in Name,
           Rename(s, name, to)
    PROVE  RegistryInv'
<1>1. process = "up" /\ left = {}
  BY DEF RegistryInv, MutexInv, Rename, idle
<1>2. UNCHANGED <<process, disk, objects, loaded, left, born, changes, dropped>>
  BY DEF Rename, observed
<1>3. DiskInv'
  BY <1>2, DiskSame DEF RegistryInv
<1>4. MemoryInv'
  BY <1>2, DetachedFacts, MemoryUnloaded DEF RegistryInv, Rename
<1>5. LoadedIsHome'
  BY <1>2, HomeKept DEF RegistryInv
<1>6. MutexInv'
  <2>1. CASE name \in DOMAIN loaded
    <3>1. op' = Doing({s}, "save", name, to, DOMAIN objects[loaded[name]].tables)
      BY <2>1 DEF Rename
    <3>2. DOMAIN objects[loaded[name]].tables \subseteq Table
      BY <2>1 DEF RegistryInv, MemoryInv, MemoryOK, IsObject
    <3> QED
      BY <1>1, <1>2, <2>1, <3>1, <3>2 DEF RegistryInv, MutexInv, OpOK, IsDoing, Doing
  <2>2. CASE name \notin DOMAIN loaded
    <3>1. op' = Doing({s}, "move", name, to, {})
      BY <2>2 DEF Rename
    <3> QED
      BY <1>1, <1>2, <2>2, <3>1 DEF RegistryInv, MutexInv, OpOK, IsDoing, Doing
  <2> QED
    BY <2>1, <2>2
<1> QED
  BY <1>3, <1>4, <1>5, <1>6 DEF RegistryInv

\* The two steps of os.WriteFile.
LEMMA InvWriteMeta ==
    ASSUME RegistryInv, TruncateMeta \/ FillMeta
    PROVE  RegistryInv'
<1>1. process = "up" /\ left = {} /\ IsDoing(op) /\ op.to \in DOMAIN disk
  BY FreeOrDoing DEF RegistryInv, MutexInv, TruncateMeta, FillMeta, IsDoing
<1>2. UNCHANGED <<process, objects, loaded, active, left, born, changes, dropped>>
  BY DEF TruncateMeta, FillMeta, memory, observed
<1>3. Rewritten(op.to) /\ disk'[op.to].tables = disk[op.to].tables
  <2>1. "torn" \in Meta /\ op.to \in Meta
    BY <1>1 DEF Meta, IsDoing
  <2>2. \E v \in Meta : disk' = [disk EXCEPT ![op.to].meta = v]
    BY <2>1 DEF TruncateMeta, FillMeta, MetaName
  <2> QED
    BY <1>1, <2>2, MetaWritten DEF RegistryInv, DiskInv
<1>4. DiskInv'
  BY <1>1, <1>2, <1>3, DiskRewritten DEF RegistryInv
<1>5. MemoryInv' /\ LoadedIsHome'
  BY <1>2, <1>3, MemorySame, HomeKept DEF RegistryInv, Rewritten
<1>6. MutexInv'
  <2>1. CASE TruncateMeta
    <3>1. op' = [op EXCEPT !.step = "fill"]
      BY <2>1 DEF TruncateMeta
    <3>2. op'.step = "fill" /\ IsDoing(op)'
      BY <1>1, <1>3, <3>1 DEF IsDoing, Rewritten
    <3> QED
      BY <1>1, <1>2, <3>2 DEF RegistryInv, MutexInv, OpOK
  <2>2. CASE FillMeta
    BY <1>1, <1>2, <2>2 DEF FillMeta, RegistryInv, MutexInv, OpOK, Free
  <2> QED
    BY <2>1, <2>2
<1> QED
  BY <1>4, <1>5, <1>6 DEF RegistryInv

\* What DROP removes is not loaded and counts as dropped.
LEMMA InvRemove ==
    ASSUME RegistryInv, RemoveEntry \/ RemoveDirectory
    PROVE  RegistryInv'
<1>1. /\ process = "up" /\ left = {} /\ op.step = "remove" /\ IsDoing(op)
      /\ op.name \in DOMAIN disk \ DOMAIN loaded /\ disk[op.name].made \in dropped
  BY FreeOrDoing DEF RegistryInv, MutexInv, RemoveEntry, RemoveDirectory, IsDoing
<1>2. UNCHANGED <<process, objects, loaded, active, left, born, changes, dropped>>
  BY DEF RemoveEntry, RemoveDirectory, memory, observed
<1>3. MemoryInv'
  BY <1>2, MemorySame DEF RegistryInv
<1>4. CASE RemoveEntry
  <2> DEFINE d == disk[op.name]
  <2>1. Rewritten(op.name)
    <3>1. CASE disk' = [disk EXCEPT ![op.name].meta = "absent"]
      <4>1. "absent" \in Meta /\ DiskOK
        BY DEF Meta, RegistryInv, DiskInv
      <4> QED
        BY <1>1, <3>1, <4>1, MetaWritten
    <3>2. ASSUME NEW t \in DOMAIN d.tables,
                 disk' = [disk EXCEPT ![op.name].tables = Without(d.tables, t)]
          PROVE  Rewritten(op.name)
      <4> DEFINE v == Without(d.tables, t)
      <4>1. DOMAIN v \subseteq Table /\ \A u \in DOMAIN v : v[u] \subseteq Nat
        BY <1>1 DEF Without, Restrict, RegistryInv, DiskInv, DiskOK, IsDirectory
      <4>2. disk' = [disk EXCEPT ![op.name].tables = v]
        BY <3>2
      <4>3. DiskOK /\ op.name \in DOMAIN disk
        BY <1>1 DEF RegistryInv, DiskInv
      <4> HIDE DEF v
      <4> QED
        BY <4>1, <4>2, <4>3 DEF Rewritten, DiskOK, IsDirectory
    <3> QED
      BY <1>4, <3>1, <3>2 DEF RemoveEntry
  <2>2. DiskInv'
    BY <1>1, <1>2, <2>1, DiskRewritten DEF RegistryInv
  <2>3. LoadedIsHome'
    BY <1>1, <1>2, <2>1, HomeKept DEF RegistryInv, Rewritten
  <2>4. MutexInv'
    BY <1>1, <1>2, <1>4, <2>1 DEF RegistryInv, MutexInv, OpOK, IsDoing, RemoveEntry, Rewritten
  <2> QED
    BY <1>3, <2>2, <2>3, <2>4 DEF RegistryInv
<1>5. CASE RemoveDirectory
  <2>1. /\ DiskInv' /\ DOMAIN disk' = DOMAIN disk \ {op.name}
        /\ \A m \in DOMAIN disk \ {op.name} : disk'[m] = disk[m]
    BY <1>1, <1>2, <1>5, DirectoryRemoved DEF RegistryInv, RemoveDirectory
  <2>2. LoadedIsHome'
    BY <1>1, <1>2, <2>1, HomeKept DEF RegistryInv
  <2>3. MutexInv'
    BY <1>1, <1>2, <1>5 DEF RegistryInv, MutexInv, OpOK, Free, RemoveDirectory
  <2> QED
    BY <1>3, <2>1, <2>2, <2>3 DEF RegistryInv
<1> QED
  BY <1>4, <1>5

\* Neither the directory that is moved nor the one it becomes is loaded.
LEMMA InvMove ==
    ASSUME RegistryInv, Move
    PROVE  RegistryInv'
<1>1. /\ process = "up" /\ left = {} /\ op.step = "move" /\ IsDoing(op)
      /\ op.name \in Name /\ op.to \in Name /\ op.name \notin DOMAIN loaded
  BY FreeOrDoing DEF RegistryInv, MutexInv, Move, IsDoing
<1>2. UNCHANGED <<process, objects, loaded, active, left, born, changes, dropped>>
  BY DEF Move, memory, observed
<1>3. MemoryInv'
  BY <1>2, MemorySame DEF RegistryInv
<1>4. CASE op.name \in DOMAIN disk /\ op.to \notin DOMAIN disk
  <2>1. /\ DiskInv' /\ DOMAIN disk' = (DOMAIN disk \cup {op.to}) \ {op.name}
        /\ \A m \in DOMAIN disk \ {op.name} : disk'[m] = disk[m]
    BY <1>1, <1>2, <1>4, DirectoryMoved DEF RegistryInv, Move, Moved
  <2>2. LoadedIsHome'
    BY <1>1, <1>2, <2>1, HomeKept DEF RegistryInv
  <2>3. MutexInv'
    <3>1. CASE op' = Free
      BY <1>1, <1>2, <3>1 DEF RegistryInv, MutexInv, OpOK, Free
    <3>2. CASE op' = [op EXCEPT !.step = "truncate"]
      <4>1. op'.step = "truncate" /\ IsDoing(op)'
        BY <1>1, <1>4, <2>1, <3>2 DEF IsDoing
      <4> QED
        BY <1>1, <1>2, <4>1 DEF RegistryInv, MutexInv, OpOK
    <3> QED
      BY <1>4, <3>1, <3>2 DEF Move
  <2> QED
    BY <1>3, <2>1, <2>2, <2>3 DEF RegistryInv
<1>5. CASE ~(op.name \in DOMAIN disk /\ op.to \notin DOMAIN disk)
  <2>1. op' = Free /\ UNCHANGED disk
    BY <1>5 DEF Move
  <2>2. DiskInv' /\ LoadedIsHome'
    BY <1>2, <2>1, DiskSame, HomeKept DEF RegistryInv
  <2>3. MutexInv'
    BY <1>1, <1>2, <2>1 DEF RegistryInv, MutexInv, OpOK, Free
  <2> QED
    BY <1>3, <2>2, <2>3 DEF RegistryInv
<1> QED
  BY <1>4, <1>5

\* What is saved is a loaded database, in the directory of its own name.
LEMMA SavedAtHome ==
    ASSUME RegistryInv, op.step = "save"
    PROVE  /\ IsDoing(op) /\ op.name \in DOMAIN loaded /\ op.name \in DOMAIN disk
           /\ IsObject(saved) /\ saved.path = op.name
           /\ Keeps(disk[op.name], saved)
           /\ DOMAIN saved.tables = DOMAIN disk[op.name].tables
<1>1. IsDoing(op) /\ op.name \in DOMAIN loaded
  BY FreeOrDoing DEF RegistryInv, MutexInv, IsDoing
<1> QED
  BY <1>1 DEF RegistryInv, LoadedIsHome, MemoryInv, MemoryOK, saved

LEMMA SaveTableWrites ==
    ASSUME RegistryInv, NEW t \in Table, SaveTable(t)
    PROVE  /\ op.name \in DOMAIN disk /\ t \in DOMAIN disk[op.name].tables
           /\ Rewritten(op.name)
           /\ disk'[op.name].tables = [disk[op.name].tables EXCEPT ![t] = saved.tables[t]]
<1>1. /\ op.name \in DOMAIN disk /\ saved.path = op.name /\ IsObject(saved)
      /\ DOMAIN saved.tables = DOMAIN disk[op.name].tables
  BY SavedAtHome DEF SaveTable
<1> DEFINE v == [disk[op.name].tables EXCEPT ![t] = saved.tables[t]]
<1>2. t \in DOMAIN disk[op.name].tables /\ disk' = [disk EXCEPT ![op.name].tables = v]
  BY <1>1 DEF SaveTable
<1>3. DOMAIN v \subseteq Table /\ \A u \in DOMAIN v : v[u] \subseteq Nat
  BY <1>1, <1>2 DEF RegistryInv, DiskInv, DiskOK, IsDirectory, IsObject
<1>4. DiskOK
  BY DEF RegistryInv, DiskInv
<1> HIDE DEF v
<1>5. Rewritten(op.name) /\ disk'[op.name].tables = v
  BY <1>1, <1>2, <1>3, <1>4, TablesWritten
<1> QED
  BY <1>1, <1>2, <1>5 DEF v

LEMMA InvSaveTable ==
    ASSUME RegistryInv, NEW t \in Table, SaveTable(t)
    PROVE  RegistryInv'
<1>1. /\ op.step = "save" /\ IsDoing(op) /\ op.name \in DOMAIN loaded
      /\ Keeps(disk[op.name], saved) /\ saved.path = op.name
      /\ DOMAIN saved.tables = DOMAIN disk[op.name].tables
  BY SavedAtHome DEF SaveTable
<1>2. UNCHANGED <<process, objects, loaded, active, left, born, changes, dropped>>
  BY DEF SaveTable, memory, observed
<1>3. /\ op.name \in DOMAIN disk /\ t \in DOMAIN disk[op.name].tables
      /\ Rewritten(op.name)
      /\ disk'[op.name].tables = [disk[op.name].tables EXCEPT ![t] = saved.tables[t]]
  BY SaveTableWrites
<1>4. DiskInv' /\ MemoryInv'
  BY <1>2, <1>3, DiskRewritten, MemorySame DEF RegistryInv
<1>5. LoadedIsHome'
  <2>1. /\ disk'[op.name].made = disk[op.name].made
        /\ DOMAIN disk'[op.name].tables = DOMAIN disk[op.name].tables
        /\ \A u \in DOMAIN disk[op.name].tables :
              disk'[op.name].tables[u] \in {disk[op.name].tables[u], saved.tables[u]}
    BY <1>3 DEF Rewritten
  <2>2. Keeps(disk'[op.name], saved)
    BY <1>1, <2>1 DEF Keeps
  <2> QED
    BY <1>1, <1>2, <1>3, <2>1, <2>2 DEF RegistryInv, LoadedIsHome, Rewritten, saved
<1>6. MutexInv'
  <2>1. op' = [op EXCEPT !.todo = @ \ {t}]
    BY DEF SaveTable
  <2>2. op'.step = "save" /\ IsDoing(op)'
    BY <1>1, <1>2, <2>1 DEF IsDoing
  <2>3. process \in {"up", "exiting"}
    BY <1>1 DEF RegistryInv, MutexInv, OpOK, Free
  <2> QED
    BY <1>2, <2>2, <2>3 DEF RegistryInv, MutexInv, OpOK
<1> QED
  BY <1>4, <1>5, <1>6 DEF RegistryInv

LEMMA InvSaveMeta ==
    ASSUME RegistryInv, SaveMeta
    PROVE  RegistryInv'
<1>1. /\ op.step = "save" /\ IsDoing(op) /\ op.name \in DOMAIN loaded
      /\ op.name \in DOMAIN disk /\ saved.path = op.name /\ IsObject(saved)
  BY SavedAtHome DEF SaveMeta
<1>2. UNCHANGED <<process, objects, active, left, born, changes, dropped>>
  BY DEF SaveMeta, observed
<1>3. Rewritten(op.name) /\ disk'[op.name].tables = disk[op.name].tables
  <2>1. disk' = [disk EXCEPT ![op.name].meta = saved.name] /\ saved.name \in Meta /\ DiskOK
    BY <1>1 DEF SaveMeta, IsObject, Meta, RegistryInv, DiskInv
  <2> QED
    BY <1>1, <2>1, MetaWritten
<1>4. DiskInv'
  BY <1>1, <1>2, <1>3, DiskRewritten DEF RegistryInv
<1>5. process \in {"up", "exiting"}
  BY <1>1 DEF RegistryInv, MutexInv, OpOK, Free
<1>6. CASE process = "exiting"
  <2>1. op' = Free /\ UNCHANGED loaded
    BY <1>6 DEF SaveMeta
  <2>2. MemoryInv' /\ LoadedIsHome'
    BY <1>2, <1>3, <2>1, MemorySame, HomeKept DEF RegistryInv, Rewritten
  <2>3. MutexInv'
    BY <1>2, <1>6, <2>1 DEF RegistryInv, MutexInv, OpOK, Free
  <2> QED
    BY <1>4, <2>2, <2>3 DEF RegistryInv
<1>7. CASE process = "up"
  <2>1. /\ op' = [op EXCEPT !.step = "move"]
        /\ DOMAIN loaded' = DOMAIN loaded \ {op.name}
        /\ \A n \in DOMAIN loaded' : loaded'[n] = loaded[n]
    BY <1>7 DEF SaveMeta, Unloaded, Without, Restrict
  <2>2. MemoryInv'
    BY <1>2, <2>1, MemoryUnloaded DEF RegistryInv
  <2>3. LoadedIsHome'
    BY <1>2, <1>3, <2>1, HomeKept DEF RegistryInv, Rewritten
  <2>4. op'.step = "move" /\ op'.name = op.name /\ IsDoing(op)'
    BY <1>1, <2>1 DEF IsDoing
  <2>5. MutexInv'
    BY <1>2, <1>7, <2>1, <2>4 DEF RegistryInv, MutexInv, OpOK
  <2> QED
    BY <1>4, <2>2, <2>3, <2>5 DEF RegistryInv
<1> QED
  BY <1>5, <1>6, <1>7

LEMMA InvExit ==
    ASSUME RegistryInv, Exit \/ (\E name \in Name : SaveNext(name)) \/ Exited
    PROVE  RegistryInv'
<1>1. op = Free
  BY FreeOrDoing DEF RegistryInv, MutexInv, Exit, SaveNext, Exited, idle
<1>2. UNCHANGED <<disk, born, changes, dropped>>
  BY DEF Exit, SaveNext, Exited, observed
<1>3. DiskInv'
  BY <1>2, DiskSame DEF RegistryInv
<1>4. CASE Exit
  <2>1. UNCHANGED <<objects, loaded, active, op>> /\ process' = "exiting" /\ left' = DOMAIN loaded
    BY <1>4 DEF Exit, ToSave, memory
  <2>2. MemoryInv' /\ LoadedIsHome'
    BY <1>2, <2>1, MemorySame, HomeKept DEF RegistryInv
  <2>3. MutexInv'
    BY <1>1, <2>1 DEF MutexInv, OpOK, Free
  <2> QED
    BY <1>3, <2>2, <2>3 DEF RegistryInv
<1>5. ASSUME NEW name \in Name, SaveNext(name)
      PROVE  RegistryInv'
  <2>1. /\ UNCHANGED <<process, objects, loaded, active>>
        /\ process = "exiting" /\ left' = left \ {name} /\ name \in DOMAIN loaded
        /\ op' = Doing({}, "save", name, name, DOMAIN objects[loaded[name]].tables)
    BY <1>5 DEF SaveNext, memory, RegistryInv, MutexInv, OpOK
  <2>2. MemoryInv' /\ LoadedIsHome'
    BY <1>2, <2>1, MemorySame, HomeKept DEF RegistryInv
  <2>3. DOMAIN objects[loaded[name]].tables \subseteq Table
    BY <2>1 DEF RegistryInv, MemoryInv, MemoryOK, IsObject
  <2>4. MutexInv'
    BY <2>1, <2>3 DEF RegistryInv, MutexInv, OpOK, IsDoing, Doing
  <2> QED
    BY <1>3, <2>2, <2>4 DEF RegistryInv
<1>6. CASE Exited
  <2>1. Forgotten /\ process' = "exited"
    BY <1>6 DEF Exited
  <2>2. MutexInv'
    BY <2>1 DEF Forgotten, MutexInv, OpOK, Free
  <2> QED
    BY <1>2, <1>3, <2>1, <2>2, MemoryForgotten, HomeForgotten DEF RegistryInv
<1> QED
  BY <1>4, <1>5, <1>6

LEMMA InvFails ==
    ASSUME RegistryInv, OperationFails \/ Crash
    PROVE  RegistryInv'
<1>1. UNCHANGED <<disk, born, changes, dropped>>
  BY DEF OperationFails, Crash
<1>2. DiskInv'
  BY <1>1, DiskSame DEF RegistryInv
<1>3. CASE OperationFails
  <2>1. UNCHANGED <<process, objects, loaded, active, left>> /\ op' = Free
    BY <1>3 DEF OperationFails, memory
  <2>2. process \in {"up", "exiting"}
    BY <1>3 DEF OperationFails, RegistryInv, MutexInv, OpOK, Free
  <2>3. MemoryInv' /\ LoadedIsHome'
    BY <1>1, <2>1, MemorySame, HomeKept DEF RegistryInv
  <2>4. MutexInv'
    BY <2>1, <2>2 DEF RegistryInv, MutexInv, OpOK, Free
  <2> QED
    BY <1>2, <2>3, <2>4 DEF RegistryInv
<1>4. CASE Crash
  <2>1. Forgotten /\ process' = "down"
    BY <1>4 DEF Crash
  <2>2. MutexInv'
    BY <2>1 DEF Forgotten, MutexInv, OpOK, Free
  <2> QED
    BY <1>1, <1>2, <2>1, <2>2, MemoryForgotten, HomeForgotten DEF RegistryInv
<1> QED
  BY <1>3, <1>4

LEMMA InvStep ==
    ASSUME RegistryInv, [Next]_vars
    PROVE  RegistryInv'
<1>1. CASE UNCHANGED vars
  BY <1>1, DiskSame, MemorySame, HomeKept
  DEF vars, memory, observed, RegistryInv, MutexInv, OpOK, IsDoing
<1> QED
  BY <1>1, InvStart, InvSeeding, InvUse, InvChange, InvDisconnect, InvCreate, InvDrop, InvRename,
     InvWriteMeta, InvRemove, InvMove, InvSaveTable, InvSaveMeta, InvExit, InvFails
  DEF Next

-----------------------------------------------------------------------------
LEMMA Invariant == Spec => []RegistryInv
BY InvInit, InvStep, PTL DEF Spec

\* Every variable of the registry, of the sessions and of the directories
\* keeps its shape, also while an operation holds the mutex.
THEOREM RegistryTypeCorrect == Spec => []TypeOK
<1>1. RegistryInv => TypeOK
  BY TypeParts DEF RegistryInv, DiskInv, MemoryInv, MutexInv
<1> QED
  BY <1>1, Invariant, PTL

\* Registry.Get, Drop and Rename keep every loaded database with the directory
\* it was read from, so that SaveDatabase can neither write into another
\* database's directory nor put back an older state.
THEOREM SavesGoHome == Spec => []LoadedIsHome
<1>1. RegistryInv => LoadedIsHome
  BY DEF RegistryInv
<1> QED
  BY <1>1, Invariant, PTL

\* RenameDatabase, CreateDatabase and the errors and crashes within them leave
\* every directory that was not dropped under exactly one name.
THEOREM DirectoriesKept == Spec => []NoneLostOrDoubled
<1>1. RegistryInv => NoneLostOrDoubled
  BY DEF RegistryInv, DiskInv, NoneLostOrDoubled
<1> QED
  BY <1>1, Invariant, PTL

-----------------------------------------------------------------------------
(* What is on the disk stays there.                                        *)

\* The tables of directory n, in the directory of the same make.
Stays(n) == disk[n].made \notin dropped' => \E m \in DOMAIN disk' : Keeps(disk[n], disk'[m])

LEMMA SameTablesStay ==
    ASSUME NEW n \in DOMAIN disk, NEW m \in DOMAIN disk',
           disk'[m].made = disk[n].made, disk'[m].tables = disk[n].tables
    PROVE  Stays(n)
BY DEF Stays, Keeps

\* A write to one directory lets the others stay.
LEMMA OthersStay ==
    ASSUME NEW x \in DOMAIN disk, Rewritten(x), NEW n \in DOMAIN disk \ {x}
    PROVE  Stays(n)
BY SameTablesStay DEF Rewritten

LEMMA SeedingStays ==
    ASSUME RegistryInv, SeedMeta \/ (\E t \in Table : SeedOneTable(t)),
           NEW n \in DOMAIN disk
    PROVE  Stays(n)
<1>1. Main \in DOMAIN disk /\ DiskOK
  BY DEF RegistryInv, MutexInv, DiskInv, SeedMeta, SeedOneTable
<1>2. CASE SeedMeta
  <2>1. disk' = [disk EXCEPT ![Main].meta = Main] /\ Main \in Meta
    BY <1>2, RegistryAssumption DEF SeedMeta, Meta
  <2>2. Rewritten(Main) /\ disk'[Main].tables = disk[Main].tables
    BY <1>1, <2>1, MetaWritten
  <2> QED
    BY <1>1, <2>2, OthersStay, SameTablesStay DEF Rewritten
<1>3. ASSUME NEW t \in Table, SeedOneTable(t)
      PROVE  Stays(n)
  <2> DEFINE v == With(disk[Main].tables, t, {})
  <2>1. disk' = [disk EXCEPT ![Main].tables = v] /\ t \notin DOMAIN disk[Main].tables
    BY <1>3 DEF SeedOneTable
  <2>2. /\ DOMAIN v \subseteq Table /\ \A u \in DOMAIN v : v[u] \subseteq Nat
        /\ \A u \in DOMAIN disk[Main].tables : u \in DOMAIN v /\ v[u] = disk[Main].tables[u]
    BY <1>1, <2>1 DEF DiskOK, IsDirectory, With
  <2> HIDE DEF v
  <2>3. Rewritten(Main) /\ disk'[Main].tables = v
    BY <1>1, <2>1, <2>2, TablesWritten
  <2>4. Stays(Main)
    BY <1>1, <2>2, <2>3 DEF Stays, Keeps, Rewritten
  <2> QED
    BY <1>1, <2>3, <2>4, OthersStay
<1> QED
  BY <1>2, <1>3

LEMMA DirectoriesStay ==
    ASSUME RegistryInv, NEW n \in DOMAIN disk,
           \/ Start
           \/ \E s \in Session, name \in Name : Create(s, name)
           \/ TruncateMeta \/ FillMeta \/ RemoveEntry \/ RemoveDirectory \/ Move
    PROVE  Stays(n)
<1>1. CASE Start \/ \E s \in Session, name \in Name : Create(s, name)
  <2>1. n \in DOMAIN disk' /\ disk'[n] = disk[n]
    BY <1>1 DEF Start, Create, With
  <2> QED
    BY <2>1, SameTablesStay
<1>2. CASE TruncateMeta \/ FillMeta
  <2>1. op.to \in DOMAIN disk /\ op.to \in Meta /\ "torn" \in Meta /\ DiskOK
    BY <1>2, FreeOrDoing
    DEF TruncateMeta, FillMeta, RegistryInv, MutexInv, DiskInv, IsDoing, Meta
  <2>2. \E v \in Meta : disk' = [disk EXCEPT ![op.to].meta = v]
    BY <1>2, <2>1 DEF TruncateMeta, FillMeta, MetaName
  <2>3. Rewritten(op.to) /\ disk'[op.to].tables = disk[op.to].tables
    BY <2>1, <2>2, MetaWritten
  <2> QED
    BY <2>1, <2>3, OthersStay, SameTablesStay DEF Rewritten
<1>3. CASE RemoveEntry \/ RemoveDirectory
  <2>1. disk[op.name].made \in dropped'
    BY <1>3 DEF RemoveEntry, RemoveDirectory, observed, RegistryInv, MutexInv
  <2>2. n # op.name => n \in DOMAIN disk' /\ disk'[n] = disk[n]
    BY <1>3 DEF RemoveEntry, RemoveDirectory, Without, Restrict
  <2> QED
    BY <2>1, <2>2, SameTablesStay DEF Stays
<1>4. CASE Move
  <2>1. CASE UNCHANGED disk
    BY <2>1, SameTablesStay
  <2>2. CASE op.to \notin DOMAIN disk /\ op.name \in DOMAIN disk /\ disk' = Moved
    <3>1. op.to \in DOMAIN disk' /\ disk'[op.to] = disk[op.name]
      BY <2>2 DEF Moved, Without, With, Restrict
    <3>2. n # op.name => n \in DOMAIN disk' /\ disk'[n] = disk[n]
      BY <2>2 DEF Moved, Without, With, Restrict
    <3> QED
      BY <3>1, <3>2, SameTablesStay
  <2> QED
    BY <1>4, <2>1, <2>2 DEF Move
<1> QED
  BY <1>1, <1>2, <1>3, <1>4

LEMMA SavesStay ==
    ASSUME RegistryInv, NEW n \in DOMAIN disk,
           (\E t \in Table : SaveTable(t)) \/ SaveMeta
    PROVE  Stays(n)
<1>1. ASSUME NEW t \in Table, SaveTable(t)
      PROVE  Stays(n)
  <2>1. Keeps(disk[op.name], saved) /\ DOMAIN saved.tables = DOMAIN disk[op.name].tables
    BY <1>1, SavedAtHome DEF SaveTable
  <2>2. /\ op.name \in DOMAIN disk /\ t \in DOMAIN disk[op.name].tables
        /\ Rewritten(op.name)
        /\ disk'[op.name].tables = [disk[op.name].tables EXCEPT ![t] = saved.tables[t]]
    BY <1>1, SaveTableWrites
  <2>3. Stays(op.name)
    BY <2>1, <2>2 DEF Stays, Keeps, Rewritten
  <2> QED
    BY <2>2, <2>3, OthersStay
<1>2. CASE SaveMeta
  <2>1. op.name \in DOMAIN disk /\ saved.path = op.name /\ IsObject(saved)
    BY <1>2, SavedAtHome DEF SaveMeta
  <2>2. disk' = [disk EXCEPT ![op.name].meta = saved.name] /\ saved.name \in Meta /\ DiskOK
    BY <1>2, <2>1 DEF SaveMeta, IsObject, Meta, RegistryInv, DiskInv
  <2>3. Rewritten(op.name) /\ disk'[op.name].tables = disk[op.name].tables
    BY <2>1, <2>2, MetaWritten
  <2> QED
    BY <2>1, <2>3, OthersStay, SameTablesStay DEF Rewritten
<1> QED
  BY <1>1, <1>2

LEMMA StepStays ==
    ASSUME RegistryInv, [Next]_vars, NEW n \in DOMAIN disk
    PROVE  Stays(n)
<1>1. CASE UNCHANGED disk
  BY <1>1, SameTablesStay
<1>2. CASE disk' # disk
  BY <1>2, SeedingStays, DirectoriesStay, SavesStay
  DEF Next, vars, Seeded, SeedFails, UseLoaded, UseFromDisk, Drop, Rename, Change,
      Disconnect, Exit, SaveNext, Exited, OperationFails, Crash
<1> QED
  BY <1>1, <1>2

\* SaveTable, SaveDatabase and RenameDatabase, whatever interrupts them, take
\* nothing back that an earlier save has put on the disk.
THEOREM SavedNeverTakenBack == Spec => SavedStays
<1>1. RegistryInv /\ [Next]_vars =>
        [\A n \in DOMAIN disk :
           disk[n].made \notin dropped' => \E m \in DOMAIN disk' : Keeps(disk[n], disk'[m])]_vars
  BY StepStays DEF Stays
<1> QED
  BY <1>1, Invariant, PTL DEF Spec, SavedStays

-----------------------------------------------------------------------------
(* As long as no file operation has failed, a database says the name of    *)
(* its directory: for any sessions, and whatever of their statements comes *)
(* between the steps of an operation.                                      *)

\* What meta.json of directory n says when it does not say n: it is not written
\* yet, being rewritten after a rename, or removed already.
Underway(n) ==
    \/ process = "seeding" /\ n = Main /\ disk[n].meta = "absent"
    \/ op.step = "truncate" /\ n = op.to
    \/ op.step = "fill" /\ n = op.to /\ disk[n].meta = "torn"
    \/ op.step = "remove" /\ n = op.name /\ disk[n].meta = "absent"

DiskNamed == \A n \in DOMAIN disk : disk[n].meta = n \/ Underway(n)

MemoryNamed == \A n \in DOMAIN loaded : objects[loaded[n]].name = n

\* Every directory has its own name in its metadata, except for the one that an
\* operation is at work on, and every loaded database has the name it goes by.
NamesInv ==
    /\ faults \in Nat
    /\ faults = 0 => DiskNamed /\ MemoryNamed

-----------------------------------------------------------------------------
\* No operation is at work on a directory.
LEMMA AllNamed ==
    ASSUME DiskNamed, process # "seeding", op.step \in {"free", "save", "move"}
    PROVE  \A n \in DOMAIN disk : disk[n].meta = n
BY DEF DiskNamed, Underway

\* The directories keep their metadata, and every loaded database its object.
LEMMA NamesStay ==
    ASSUME DiskNamed, MemoryNamed, process # "seeding",
           op.step \in {"free", "save", "move"},
           DOMAIN disk' \subseteq DOMAIN disk,
           \A n \in DOMAIN disk' : disk'[n].meta = disk[n].meta,
           UNCHANGED objects, DOMAIN loaded' \subseteq DOMAIN loaded,
           \A n \in DOMAIN loaded' : loaded'[n] = loaded[n]
    PROVE  (DiskNamed /\ MemoryNamed)'
BY AllNamed DEF DiskNamed, MemoryNamed

LEMMA NamesStart ==
    ASSUME RegistryInv, DiskNamed,
           Start \/ SeedMeta \/ (\E t \in Table : SeedOneTable(t)) \/ Seeded
    PROVE  (DiskNamed /\ MemoryNamed)'
<1>1. op = Free /\ DOMAIN loaded = {} /\ UNCHANGED <<op, loaded>> /\ DiskOK
  BY DEF RegistryInv, MutexInv, DiskInv, Start, SeedMeta, SeedOneTable, Seeded, Empty, memory
<1>2. MemoryNamed'
  BY <1>1 DEF MemoryNamed
<1>3. \A n \in DOMAIN disk :
         disk[n].meta = n \/ (process = "seeding" /\ n = Main /\ disk[n].meta = "absent")
  BY <1>1 DEF DiskNamed, Underway, Free
<1>4. DiskNamed'
  <2>1. CASE Start
    <3>1. /\ process \notin {"seeding"}
          /\ UNCHANGED disk \/ (process' = "seeding" /\ disk' = With(disk, Main, NewDirectory))
      BY <2>1 DEF Start
    <3>2. NewDirectory.meta = "absent"
      BY DEF NewDirectory
    <3> QED
      BY <1>3, <3>1, <3>2 DEF DiskNamed, Underway, With
  <2>2. CASE SeedMeta \/ \E t \in Table : SeedOneTable(t)
    <3>1. /\ Main \in DOMAIN disk /\ DOMAIN disk[Main] = {"made", "meta", "tables"}
          /\ UNCHANGED process
      BY <1>1, <2>2
      DEF SeedMeta, SeedOneTable, RegistryInv, MutexInv, DiskOK, IsDirectory
    <3>2. /\ DOMAIN disk' = DOMAIN disk
          /\ disk'[Main].meta \in {Main, disk[Main].meta}
          /\ \A n \in DOMAIN disk \ {Main} : disk'[n] = disk[n]
      BY <2>2, <3>1 DEF SeedMeta, SeedOneTable
    <3> QED
      BY <1>3, <3>1, <3>2 DEF DiskNamed, Underway
  <2>3. CASE Seeded
    BY <1>3, <2>3 DEF Seeded, DiskNamed
  <2> QED
    BY <2>1, <2>2, <2>3
<1> QED
  BY <1>2, <1>4

LEMMA NamesUse ==
    ASSUME RegistryInv, DiskNamed, MemoryNamed, NEW s \in Session, NEW name \in Name,
           UseLoaded(s, name) \/ UseFromDisk(s, name)
    PROVE  (DiskNamed /\ MemoryNamed)'
<1>1. \A n \in DOMAIN disk : disk[n].meta = n
  BY AllNamed DEF UseLoaded, UseFromDisk, idle
<1>2. DiskNamed'
  BY <1>1 DEF DiskNamed, UseLoaded, UseFromDisk
<1>3. CASE UseLoaded(s, name)
  <2>1. UNCHANGED <<objects, loaded>>
    BY <1>3 DEF UseLoaded
  <2> QED
    BY <1>2, <2>1 DEF MemoryNamed
<1>4. CASE UseFromDisk(s, name)
  <2>1. /\ \A i \in DOMAIN objects : objects'[i] = objects[i]
        /\ objects'[Len(objects')] = Read(name) /\ Read(name).name = name
    BY <1>1, <1>4 DEF UseFromDisk, Read, RegistryInv, MemoryInv, MemoryOK
  <2>2. /\ DOMAIN loaded' = DOMAIN loaded \cup {name} /\ loaded'[name] = Len(objects')
        /\ \A n \in DOMAIN loaded : loaded'[n] = loaded[n] /\ loaded[n] \in DOMAIN objects
    BY <1>4 DEF UseFromDisk, With, RegistryInv, MemoryInv, MemoryOK
  <2> QED
    BY <1>2, <2>1, <2>2 DEF MemoryNamed
<1> QED
  BY <1>2, <1>3, <1>4 DEF MemoryNamed

LEMMA NamesChange ==
    ASSUME RegistryInv, DiskNamed, MemoryNamed, NEW s \in Session, NEW t \in Table,
           Change(s, t)
    PROVE  (DiskNamed /\ MemoryNamed)'
<1>1. UNCHANGED <<process, disk, loaded, op>>
  BY DEF Change
<1>2. \A i \in DOMAIN objects : objects'[i].name = objects[i].name
  BY DEF Change, RegistryInv, MemoryInv, MemoryOK, IsObject
<1>3. \A n \in DOMAIN loaded : loaded[n] \in DOMAIN objects
  BY DEF RegistryInv, MemoryInv, MemoryOK
<1> QED
  BY <1>1, <1>2, <1>3 DEF DiskNamed, Underway, MemoryNamed

LEMMA NamesCreate ==
    ASSUME DiskNamed, MemoryNamed, NEW s \in Session, NEW name \in Name, Create(s, name)
    PROVE  (DiskNamed /\ MemoryNamed)'
<1>1. \A n \in DOMAIN disk : disk[n].meta = n
  BY AllNamed DEF Create, idle
<1>2. /\ disk' = With(disk, name, NewDirectory)
      /\ op'.step = "truncate" /\ op'.to = name
      /\ UNCHANGED <<objects, loaded>>
  BY DEF Create, Doing, memory
<1> QED
  BY <1>1, <1>2 DEF DiskNamed, Underway, MemoryNamed, With

\* Neither the metadata nor the objects are touched.
LEMMA NamesElsewhere ==
    ASSUME RegistryInv, DiskNamed, MemoryNamed,
           \/ \E s \in Session, name \in Name :
                Drop(s, name) \/ \E to \in Name : Rename(s, name, to)
           \/ Exit \/ (\E name \in Name : SaveNext(name)) \/ Exited
    PROVE  (DiskNamed /\ MemoryNamed)'
<1>1. op.step = "free" /\ process # "seeding" /\ UNCHANGED disk
  BY DEF Drop, Rename, Exit, SaveNext, Exited, idle
<1>2. CASE Exited
  <2>1. DOMAIN loaded' = {}
    BY <1>2 DEF Exited, Forgotten, Empty
  <2> QED
    BY <1>1, <2>1, AllNamed DEF DiskNamed, MemoryNamed
<1>3. ASSUME NEW s \in Session, NEW name \in Name, Drop(s, name)
      PROVE  (DiskNamed /\ MemoryNamed)'
  BY <1>1, <1>3, NamesStay DEF Drop, Unloaded, Without, Restrict
<1>4. ASSUME UNCHANGED <<objects, loaded>>
      PROVE  (DiskNamed /\ MemoryNamed)'
  BY <1>1, <1>4, NamesStay
<1> QED
  BY <1>2, <1>3, <1>4 DEF Rename, Exit, SaveNext, memory

\* os.WriteFile on the metadata, os.RemoveAll and os.Rename.
LEMMA NamesOperation ==
    ASSUME RegistryInv, DiskNamed, MemoryNamed,
           TruncateMeta \/ FillMeta \/ RemoveEntry \/ RemoveDirectory \/ Move
    PROVE  (DiskNamed /\ MemoryNamed)'
<1>1. /\ process = "up" /\ IsDoing(op) /\ DiskOK
      /\ op.step \in {"truncate", "fill", "remove", "move"}
  BY FreeOrDoing
  DEF RegistryInv, MutexInv, DiskInv, TruncateMeta, FillMeta, RemoveEntry, RemoveDirectory, Move
<1>2. UNCHANGED <<process, objects, loaded>>
  BY DEF TruncateMeta, FillMeta, RemoveEntry, RemoveDirectory, Move, memory
<1>3. CASE TruncateMeta \/ FillMeta
  <2>1. op.to \in DOMAIN disk /\ DOMAIN disk[op.to] = {"made", "meta", "tables"}
    BY <1>1, <1>3 DEF TruncateMeta, FillMeta, IsDoing, DiskOK, IsDirectory
  <2>2. /\ DOMAIN disk' = DOMAIN disk
        /\ \A n \in DOMAIN disk \ {op.to} : disk'[n] = disk[n] /\ disk[n].meta = n
        /\ \/ disk'[op.to].meta = op.to
           \/ disk'[op.to].meta = "torn" /\ op'.step = "fill" /\ op'.to = op.to
    BY <1>1, <1>3, <2>1 DEF TruncateMeta, FillMeta, MetaName, DiskNamed, Underway, IsDoing
  <2> QED
    BY <1>2, <2>1, <2>2 DEF DiskNamed, Underway, MemoryNamed
<1>4. CASE RemoveEntry \/ RemoveDirectory
  <2>1. op.name \in DOMAIN disk /\ DOMAIN disk[op.name] = {"made", "meta", "tables"}
    BY <1>1, <1>4 DEF RemoveEntry, RemoveDirectory, IsDoing, DiskOK, IsDirectory
  <2>2. \A n \in DOMAIN disk \ {op.name} : disk[n].meta = n
    BY <1>1, <1>4 DEF RemoveEntry, RemoveDirectory, DiskNamed, Underway
  <2>3. CASE RemoveEntry
    <3>1. /\ DOMAIN disk' = DOMAIN disk /\ UNCHANGED op
          /\ \A n \in DOMAIN disk \ {op.name} : disk'[n] = disk[n]
          /\ disk'[op.name].meta \in {"absent", disk[op.name].meta}
      BY <2>1, <2>3 DEF RemoveEntry
    <3> QED
      BY <1>1, <1>2, <2>1, <2>2, <2>3, <3>1 DEF DiskNamed, Underway, MemoryNamed, RemoveEntry
  <2>4. CASE RemoveDirectory
    BY <1>2, <2>2, <2>4 DEF DiskNamed, MemoryNamed, RemoveDirectory, Without, Restrict
  <2> QED
    BY <1>4, <2>3, <2>4
<1>5. CASE Move
  <2>1. \A n \in DOMAIN disk : disk[n].meta = n
    BY <1>1, <1>5, AllNamed DEF Move
  <2>2. CASE op.name \in DOMAIN disk /\ op.to \notin DOMAIN disk
    <3>1. disk[op.name].meta = op.name /\ op.name \in Name
      BY <1>1, <2>1, <2>2 DEF IsDoing
    <3>2. disk' = Moved /\ op'.step = "truncate" /\ op'.to = op.to
      BY <1>1, <1>5, <2>2, <3>1 DEF Move, IsDoing
    <3>3. \A n \in DOMAIN disk' \ {op.to} : n \in DOMAIN disk /\ disk'[n] = disk[n]
      BY <3>2 DEF Moved, Without, With, Restrict
    <3> QED
      BY <1>2, <2>1, <3>2, <3>3 DEF DiskNamed, Underway, MemoryNamed
  <2>3. CASE ~(op.name \in DOMAIN disk /\ op.to \notin DOMAIN disk)
    BY <1>2, <1>5, <2>1, <2>3 DEF Move, DiskNamed, MemoryNamed
  <2> QED
    BY <2>2, <2>3
<1> QED
  BY <1>3, <1>4, <1>5

LEMMA NamesSave ==
    ASSUME RegistryInv, DiskNamed, MemoryNamed, (\E t \in Table : SaveTable(t)) \/ SaveMeta
    PROVE  (DiskNamed /\ MemoryNamed)'
<1>1. /\ op.step = "save" /\ op.name \in DOMAIN loaded /\ op.name \in DOMAIN disk
      /\ saved.path = op.name /\ saved.name = op.name
  BY SavedAtHome DEF SaveTable, SaveMeta, MemoryNamed, saved
<1>2. UNCHANGED objects
  BY DEF SaveTable, SaveMeta, memory
<1>3. /\ DOMAIN loaded' \subseteq DOMAIN loaded
      /\ \A n \in DOMAIN loaded' : loaded'[n] = loaded[n]
  BY DEF SaveTable, SaveMeta, memory, Unloaded, Without, Restrict
<1>4. DiskOK /\ process # "seeding"
  BY <1>1 DEF RegistryInv, DiskInv, MutexInv, Free
<1>5. \A n \in DOMAIN disk : disk[n].meta = n
  BY <1>1, <1>4, AllNamed
<1>6. DOMAIN disk' = DOMAIN disk /\ \A n \in DOMAIN disk : disk'[n].meta = n
  <2>1. /\ DOMAIN disk' = DOMAIN disk
        /\ \A n \in DOMAIN disk \ {op.name} : disk'[n] = disk[n]
    BY <1>1 DEF SaveTable, SaveMeta
  <2>2. disk'[op.name].meta = op.name
    BY <1>1, <1>4, <1>5 DEF SaveTable, SaveMeta, DiskOK, IsDirectory
  <2> QED
    BY <1>5, <2>1, <2>2
<1> QED
  BY <1>1, <1>2, <1>3, <1>4, <1>5, <1>6, NamesStay

LEMMA OnlyFaultsCount ==
    ASSUME [Next]_vars, ~(SeedFails \/ OperationFails \/ Crash)
    PROVE  UNCHANGED faults
BY DEF Next, vars, observed, Start, SeedMeta, SeedOneTable, Seeded, UseLoaded, UseFromDisk,
    Create, Drop, Rename, Change, Disconnect, TruncateMeta, FillMeta, RemoveEntry,
    RemoveDirectory, Move, SaveTable, SaveMeta, Exit, SaveNext, Exited

LEMMA NamesInit == Init => NamesInv
<1> SUFFICES ASSUME Init PROVE NamesInv
  OBVIOUS
<1>1. DOMAIN disk = {} /\ DOMAIN loaded = {} /\ faults = 0
  BY DEF Init, Empty
<1> QED
  BY <1>1 DEF NamesInv, DiskNamed, MemoryNamed

LEMMA NamesStep ==
    ASSUME RegistryInv, NamesInv, [Next]_vars
    PROVE  NamesInv'
<1>1. CASE SeedFails \/ OperationFails \/ Crash
  <2>1. faults' = faults + 1 /\ faults \in Nat
    BY <1>1 DEF SeedFails, OperationFails, Crash, NamesInv
  <2> QED
    BY <2>1 DEF NamesInv
<1>2. CASE UNCHANGED vars
  BY <1>2
  DEF vars, memory, observed, NamesInv, DiskNamed, Underway, MemoryNamed
<1>3. CASE Next /\ ~(SeedFails \/ OperationFails \/ Crash)
  <2>1. UNCHANGED faults
    BY <1>3, OnlyFaultsCount
  <2> SUFFICES ASSUME DiskNamed, MemoryNamed
               PROVE  (DiskNamed /\ MemoryNamed)'
    BY <2>1 DEF NamesInv
  <2>2. ASSUME NEW s \in Session, Disconnect(s)
        PROVE  (DiskNamed /\ MemoryNamed)'
    BY <2>2 DEF Disconnect, DiskNamed, Underway, MemoryNamed
  <2> QED
    BY <1>3, <2>2, NamesStart, NamesUse, NamesChange, NamesCreate, NamesElsewhere,
       NamesOperation, NamesSave
    DEF Next
<1> QED
  BY <1>1, <1>2, <1>3

\* Registry.Create, Rename and SaveDatabase write the name of the directory
\* into its metadata, and Registry.Get reads it from there, so that without an
\* error or a crash no database passes for another, however many sessions there
\* are and whichever of their statements meet.
THEOREM DatabasesNameThemselves == Spec => []NamesItself
<1>1. RegistryInv /\ NamesInv => NamesItself
  BY AllNamed DEF NamesInv, NamesItself, MemoryNamed
<1>2. Spec => []NamesInv
  BY NamesInit, NamesStep, Invariant, PTL DEF Spec
<1> QED
  BY <1>1, <1>2, Invariant, PTL

-----------------------------------------------------------------------------
(* What was saved can be read, unless a RENAME is interrupted.             *)

\* meta.json of the directory op.to is being written.
Rewriting == op.step \in {"truncate", "fill"}

\* An error or a crash between os.Rename and the last byte of meta.json.
RenameCut == (OperationFails \/ Crash) /\ Rewriting /\ op.name # op.to

\* No change is in the directory.
Blank(d) == \A t \in DOMAIN d.tables : d.tables[t] = {}

LEMMA BlankTables ==
    ASSUME NEW d
    PROVE  InTables(d) # {} => ~Blank(d)
BY DEF InTables, Blank

\* A directory that cannot be read is empty, dropped or being rewritten; a
\* database that is loaded can be read.
ReadableInv ==
    /\ \A n \in DOMAIN disk :
          \/ disk[n].meta \in Name
          \/ Blank(disk[n])
          \/ disk[n].made \in dropped
          \/ Rewriting /\ n = op.to
    /\ Rewriting => op.to \notin DOMAIN loaded
    /\ Rewriting /\ op.name = op.to => Blank(disk[op.to])
    /\ \A n \in DOMAIN loaded : disk[n].meta \in Name

\* The steps that leave the directories alone, and whoever rewrites one at it.
LEMMA ReadableStays ==
    ASSUME ReadableInv, disk' = disk, dropped \subseteq dropped',
           DOMAIN loaded' \subseteq DOMAIN loaded,
           Rewriting => op' = op, Rewriting' => Rewriting
    PROVE  ReadableInv'
<1>1. Rewriting' = Rewriting
  BY DEF Rewriting
<1> QED
  BY <1>1 DEF ReadableInv

LEMMA ReadableSeeding ==
    ASSUME RegistryInv, ReadableInv,
           Start \/ SeedMeta \/ (\E t \in Table : SeedOneTable(t)) \/ Seeded \/ SeedFails
    PROVE  ReadableInv'
<1>1. /\ op = Free /\ op' = op /\ DOMAIN loaded = {} /\ loaded' = loaded /\ dropped' = dropped
      /\ ~Rewriting /\ ~Rewriting'
  BY DEF RegistryInv, MutexInv, Start, SeedMeta, SeedOneTable, Seeded, SeedFails, Empty, memory,
         observed, Rewriting, Free
<1>2. SUFFICES \A n \in DOMAIN disk' :
                  disk'[n].meta \in Name \/ Blank(disk'[n]) \/ disk'[n].made \in dropped'
  BY <1>1 DEF ReadableInv
<1>3. \A n \in DOMAIN disk :
         disk[n].meta \in Name \/ Blank(disk[n]) \/ disk[n].made \in dropped
  BY <1>1 DEF ReadableInv
<1>4. CASE disk' = disk
  BY <1>1, <1>3, <1>4
<1>5. CASE disk' = With(disk, Main, NewDirectory)
  <2>1. Blank(NewDirectory)
    BY DEF Blank, NewDirectory, Empty
  <2> QED
    BY <1>1, <1>3, <1>5, <2>1 DEF With
<1>6. CASE SeedMeta
  <2>1. /\ DOMAIN disk' = DOMAIN disk
        /\ \A n \in DOMAIN disk : disk'[n] = disk[n] \/ disk'[n].meta = Main
    BY <1>6 DEF SeedMeta, RegistryInv, MutexInv, DiskInv, DiskOK, IsDirectory
  <2> QED
    BY <1>1, <1>3, <2>1, RegistryAssumption
<1>7. ASSUME NEW t \in Table, SeedOneTable(t)
      PROVE  \A n \in DOMAIN disk' :
                disk'[n].meta \in Name \/ Blank(disk'[n]) \/ disk'[n].made \in dropped'
  <2>1. Main \in DOMAIN disk /\ IsDirectory(disk[Main])
    BY <1>7 DEF SeedOneTable, RegistryInv, MutexInv, DiskInv, DiskOK
  <2>2. /\ DOMAIN disk' = DOMAIN disk
        /\ \A n \in DOMAIN disk \ {Main} : disk'[n] = disk[n]
        /\ disk'[Main].meta = disk[Main].meta /\ disk'[Main].made = disk[Main].made
        /\ disk'[Main].tables = With(disk[Main].tables, t, {})
    BY <1>7, <2>1 DEF SeedOneTable, IsDirectory
  <2>3. Blank(disk[Main]) => Blank(disk'[Main])
    BY <2>2 DEF Blank, With
  <2> QED
    BY <1>1, <1>3, <2>1, <2>2, <2>3
<1> QED
  BY <1>4, <1>5, <1>6, <1>7 DEF Start, Seeded, SeedFails

LEMMA ReadableUse ==
    ASSUME RegistryInv, ReadableInv, NEW s \in Session, NEW name \in Name,
           UseLoaded(s, name) \/ UseFromDisk(s, name)
    PROVE  ReadableInv'
<1>1. disk' = disk /\ dropped' = dropped /\ op' = op /\ ~Rewriting /\ ~Rewriting'
  BY DEF UseLoaded, UseFromDisk, observed, idle, Rewriting
<1>2. \A n \in DOMAIN loaded' : n \in DOMAIN loaded \/ (n = name /\ disk[name].meta \in Name)
  BY DEF UseLoaded, UseFromDisk, With
<1> QED
  BY <1>1, <1>2 DEF ReadableInv

LEMMA ReadableCreate ==
    ASSUME RegistryInv, ReadableInv, NEW s \in Session, NEW name \in Name, Create(s, name)
    PROVE  ReadableInv'
<1>1. /\ disk' = With(disk, name, NewDirectory) /\ loaded' = loaded /\ dropped' = dropped
      /\ name \notin DOMAIN loaded /\ ~Rewriting
      /\ op'.step = "truncate" /\ op'.name = name /\ op'.to = name
  BY DEF Create, memory, idle, Rewriting, Doing
<1>2. Blank(NewDirectory)
  BY DEF Blank, NewDirectory, Empty
<1>3. /\ DOMAIN disk' = DOMAIN disk \cup {name} /\ disk'[name] = NewDirectory
      /\ \A n \in DOMAIN disk \ {name} : disk'[n] = disk[n]
  BY <1>1 DEF With
<1>4. DOMAIN loaded \subseteq DOMAIN disk
  BY DEF RegistryInv, LoadedIsHome
<1> QED
  BY <1>1, <1>2, <1>3, <1>4 DEF ReadableInv

\* The steps that write meta.json of one directory, or remove it.
LEMMA ReadableMeta ==
    ASSUME RegistryInv, ReadableInv, TruncateMeta \/ FillMeta
    PROVE  ReadableInv'
<1>1. /\ op.to \in DOMAIN disk /\ op.to \in Name /\ Rewriting
      /\ loaded' = loaded /\ dropped' = dropped
  BY DEF TruncateMeta, FillMeta, memory, observed, Rewriting, RegistryInv, MutexInv, OpOK,
         Free, IsDoing
<1>2. IsDirectory(disk[op.to])
  BY <1>1 DEF RegistryInv, DiskInv, DiskOK
<1>3. /\ DOMAIN disk' = DOMAIN disk
      /\ \A n \in DOMAIN disk \ {op.to} : disk'[n] = disk[n]
      /\ disk'[op.to].tables = disk[op.to].tables /\ disk'[op.to].made = disk[op.to].made
      /\ FillMeta => disk'[op.to].meta = op.to
  BY <1>1, <1>2 DEF TruncateMeta, FillMeta, MetaName, IsDirectory
<1>4. Blank(disk[op.to]) => Blank(disk'[op.to])
  BY <1>3 DEF Blank
<1>5. op.to \notin DOMAIN loaded
  BY <1>1 DEF ReadableInv
<1>6. DOMAIN loaded \subseteq DOMAIN disk
  BY DEF RegistryInv, LoadedIsHome
<1>7. \A n \in DOMAIN loaded' : disk'[n].meta \in Name
  BY <1>1, <1>3, <1>5, <1>6 DEF ReadableInv
<1>8. CASE TruncateMeta
  <2>1. op'.step = "fill" /\ op'.to = op.to /\ op'.name = op.name
    BY <1>1, <1>8 DEF TruncateMeta, RegistryInv, MutexInv, OpOK, Free, IsDoing
  <2>2. Rewriting'
    BY <2>1 DEF Rewriting
  <2> QED
    BY <1>1, <1>3, <1>4, <1>5, <1>7, <2>1, <2>2 DEF ReadableInv
<1>9. CASE FillMeta
  <2>1. ~Rewriting'
    BY <1>9 DEF FillMeta, Rewriting, Free
  <2> QED
    BY <1>1, <1>3, <1>7, <1>9, <2>1 DEF ReadableInv
<1> QED
  BY <1>8, <1>9

LEMMA ReadableRemove ==
    ASSUME RegistryInv, ReadableInv, RemoveEntry \/ RemoveDirectory
    PROVE  ReadableInv'
<1>1. /\ op.name \in DOMAIN disk /\ op.name \notin DOMAIN loaded /\ disk[op.name].made \in dropped
      /\ loaded' = loaded /\ dropped' = dropped /\ ~Rewriting
      /\ op.step = "remove"
  BY DEF RemoveEntry, RemoveDirectory, memory, observed, Rewriting, RegistryInv, MutexInv, OpOK,
         Free, IsDoing
<1>2. IsDirectory(disk[op.name])
  BY <1>1 DEF RegistryInv, DiskInv, DiskOK
<1>3. /\ DOMAIN disk' \subseteq DOMAIN disk
      /\ \A n \in DOMAIN disk' \ {op.name} : disk'[n] = disk[n]
      /\ op.name \in DOMAIN disk' => disk'[op.name].made = disk[op.name].made
      /\ DOMAIN disk \ {op.name} \subseteq DOMAIN disk'
  BY <1>1, <1>2 DEF RemoveEntry, RemoveDirectory, IsDirectory, Without, Restrict
<1>4. ~Rewriting'
  BY <1>1 DEF RemoveEntry, RemoveDirectory, Rewriting, Free
<1>5. DOMAIN loaded \subseteq DOMAIN disk
  BY DEF RegistryInv, LoadedIsHome
<1> QED
  BY <1>1, <1>3, <1>4, <1>5 DEF ReadableInv

LEMMA ReadableMove ==
    ASSUME RegistryInv, ReadableInv, Move
    PROVE  ReadableInv'
<1>1. /\ loaded' = loaded /\ dropped' = dropped /\ ~Rewriting /\ op.name \notin DOMAIN loaded
      /\ op.name \in Name /\ op.to \in Name
  BY DEF Move, memory, observed, Rewriting, RegistryInv, MutexInv, OpOK, Free, IsDoing
<1>2. CASE op.name \in DOMAIN disk /\ op.to \notin DOMAIN disk
  <2>1. /\ DOMAIN disk' = (DOMAIN disk \cup {op.to}) \ {op.name}
        /\ \A n \in DOMAIN disk \ {op.name} : disk'[n] = disk[n]
        /\ disk'[op.to] = disk[op.name]
    BY <1>2 DEF Move, Moved, Without, Restrict, With
  <2>2. DOMAIN loaded \subseteq DOMAIN disk \ {op.name} /\ op.to \notin DOMAIN loaded
    BY <1>1, <1>2 DEF RegistryInv, LoadedIsHome
  <2>3. \A n \in DOMAIN disk :
           disk[n].meta \in Name \/ Blank(disk[n]) \/ disk[n].made \in dropped
    BY <1>1 DEF ReadableInv
  <2>4. \A n \in DOMAIN disk' :
           disk'[n].meta \in Name \/ Blank(disk'[n]) \/ disk'[n].made \in dropped'
    BY <1>1, <1>2, <2>1, <2>3
  <2>5. \A n \in DOMAIN loaded' : disk'[n].meta \in Name
    BY <1>1, <2>1, <2>2 DEF ReadableInv
  <2>6. Rewriting' => op'.to = op.to /\ op'.name # op'.to
    <3>1. CASE op' = Free
      BY <3>1 DEF Rewriting, Free
    <3>2. CASE op' = [op EXCEPT !.step = "truncate"]
      <4>1. op'.to = op.to /\ op'.name = op.name
        BY <3>2 DEF Move, RegistryInv, MutexInv, OpOK, Free, IsDoing
      <4> QED
        BY <1>2, <4>1
    <3> QED
      BY <1>2, <3>1, <3>2 DEF Move
  <2> QED
    BY <1>1, <2>2, <2>4, <2>5, <2>6 DEF ReadableInv
<1>3. CASE ~(op.name \in DOMAIN disk /\ op.to \notin DOMAIN disk)
  <2>1. disk' = disk /\ ~Rewriting'
    BY <1>3 DEF Move, Rewriting, Free
  <2> QED
    BY <1>1, <2>1, ReadableStays
<1> QED
  BY <1>2, <1>3

LEMMA ReadableSave ==
    ASSUME RegistryInv, ReadableInv, (\E t \in Table : SaveTable(t)) \/ SaveMeta
    PROVE  ReadableInv'
<1>1. /\ op.step = "save" /\ IsDoing(op) /\ op.name \in DOMAIN loaded /\ op.name \in DOMAIN disk
      /\ saved.path = op.name /\ IsObject(saved)
  BY SavedAtHome DEF SaveTable, SaveMeta
<1>2. disk[op.name].meta \in Name /\ DOMAIN loaded \subseteq DOMAIN disk
  BY <1>1 DEF ReadableInv, RegistryInv, LoadedIsHome
<1>3. ~Rewriting /\ dropped' = dropped
  BY <1>1 DEF Rewriting, SaveTable, SaveMeta, observed
<1>4. IsDirectory(disk[op.name])
  BY <1>1 DEF RegistryInv, DiskInv, DiskOK
<1>5. ASSUME NEW t \in Table, SaveTable(t)
      PROVE  /\ DOMAIN disk' = DOMAIN disk
             /\ \A n \in DOMAIN disk \ {op.name} : disk'[n] = disk[n]
             /\ disk'[op.name].meta \in Name
             /\ ~Rewriting' /\ loaded' = loaded
  <2>1. disk' = [disk EXCEPT ![op.name].tables[t] = saved.tables[t]]
    BY <1>1, <1>5 DEF SaveTable
  <2>2. op' = [op EXCEPT !.todo = @ \ {t}] /\ loaded' = loaded
    BY <1>5 DEF SaveTable, memory
  <2>3. op'.step = "save"
    BY <1>1, <2>2 DEF IsDoing
  <2>4. disk'[op.name].meta = disk[op.name].meta
    BY <1>1, <1>4, <2>1 DEF IsDirectory
  <2> QED
    BY <1>2, <2>1, <2>2, <2>3, <2>4 DEF Rewriting
<1>6. CASE SaveMeta
  <2>1. disk' = [disk EXCEPT ![op.name].meta = saved.name]
    BY <1>1, <1>6 DEF SaveMeta
  <2>2. disk'[op.name].meta \in Name
    BY <1>1, <1>4, <2>1 DEF IsDirectory, IsObject
  <2>3. ~Rewriting' /\ DOMAIN loaded' \subseteq DOMAIN loaded
    <3>1. CASE process = "exiting"
      BY <1>6, <3>1 DEF SaveMeta, Rewriting, Free
    <3>2. CASE process # "exiting"
      <4>1. op' = [op EXCEPT !.step = "move"] /\ loaded' = Unloaded(op.name)
        BY <1>6, <3>2 DEF SaveMeta
      <4>2. op'.step = "move"
        BY <1>1, <4>1 DEF IsDoing
      <4> QED
        BY <4>1, <4>2 DEF Rewriting, Unloaded, Without, Restrict
    <3> QED
      BY <3>1, <3>2
  <2>4. \A n \in DOMAIN loaded' : disk'[n].meta \in Name
    BY <1>2, <2>1, <2>2, <2>3 DEF ReadableInv
  <2> QED
    BY <1>1, <1>2, <1>3, <2>1, <2>2, <2>3, <2>4 DEF ReadableInv
<1> QED
  BY <1>1, <1>2, <1>3, <1>5, <1>6 DEF ReadableInv

LEMMA ReadableElsewhere ==
    ASSUME RegistryInv, ReadableInv,
           \/ \E s \in Session, name \in Name :
                Drop(s, name) \/ \E to \in Name : Rename(s, name, to)
           \/ \E s \in Session, t \in Table : Change(s, t)
           \/ \E s \in Session : Disconnect(s)
           \/ Exit \/ (\E name \in Name : SaveNext(name)) \/ Exited
           \/ (OperationFails \/ Crash) /\ ~RenameCut
           \/ UNCHANGED vars
    PROVE  ReadableInv'
<1>1. CASE (OperationFails \/ Crash) /\ ~RenameCut
  <2>1. /\ disk' = disk /\ dropped' = dropped /\ DOMAIN loaded' \subseteq DOMAIN loaded
        /\ ~Rewriting'
    BY <1>1 DEF OperationFails, Crash, Forgotten, Empty, memory, Rewriting, Free
  <2>2. Rewriting => op.name = op.to
    BY <1>1 DEF RenameCut
  <2> QED
    BY <2>1, <2>2 DEF ReadableInv
<1>2. CASE UNCHANGED vars
  <2>1. disk' = disk /\ dropped' = dropped /\ loaded' = loaded /\ op' = op
    BY <1>2 DEF vars, memory, observed
  <2>2. Rewriting' = Rewriting
    BY <2>1 DEF Rewriting
  <2> QED
    BY <2>1, <2>2, ReadableStays
<1>3. ASSUME NEW s \in Session, NEW name \in Name,
             Drop(s, name) \/ \E to \in Name : Rename(s, name, to)
      PROVE  ReadableInv'
  <2>1. /\ disk' = disk /\ dropped \subseteq dropped' /\ DOMAIN loaded' \subseteq DOMAIN loaded
        /\ ~Rewriting /\ ~Rewriting'
    BY <1>3 DEF Drop, Rename, Unloaded, Without, Restrict, idle, Rewriting, Doing, observed
  <2> QED
    BY <2>1, ReadableStays
<1>4. CASE \/ \E s \in Session, t \in Table : Change(s, t)
           \/ \E s \in Session : Disconnect(s)
  BY <1>4, ReadableStays DEF Change, Disconnect, observed, Rewriting
<1>5. CASE Exit \/ (\E name \in Name : SaveNext(name)) \/ Exited
  <2>1. /\ disk' = disk /\ dropped' = dropped /\ DOMAIN loaded' \subseteq DOMAIN loaded
        /\ ~Rewriting /\ ~Rewriting'
    BY <1>5 DEF Exit, SaveNext, Exited, Forgotten, Empty, memory, observed, idle, Rewriting,
                Doing, Free
  <2> QED
    BY <2>1, ReadableStays
<1> QED
  BY <1>1, <1>2, <1>3, <1>4, <1>5

LEMMA ReadableStep ==
    ASSUME RegistryInv, ReadableInv, [Next]_vars, [~RenameCut]_vars
    PROVE  ReadableInv'
<1>1. CASE UNCHANGED vars
  BY <1>1, ReadableElsewhere
<1>2. CASE Next /\ ~RenameCut
  BY <1>2, ReadableSeeding, ReadableUse, ReadableCreate, ReadableMeta, ReadableRemove,
     ReadableMove, ReadableSave, ReadableElsewhere
  DEF Next
<1> QED
  BY <1>1, <1>2

\* Errors and crashes may come at any other step of any operation, of any number
\* of sessions: only the one that interrupts JSONEngine.RenameDatabase between
\* its os.Rename and the end of its os.WriteFile on meta.json makes a database
\* with saved changes unreadable.
THEOREM OnlyRenameTears == Spec /\ [][~RenameCut]_vars => []SavedReadable
<1>1. Init => ReadableInv
  BY DEF Init, Empty, ReadableInv, Rewriting, Free
<1>2. RegistryInv /\ ReadableInv => SavedReadable
  BY BlankTables DEF ReadableInv, SavedReadable, Rewriting
<1> QED
  BY <1>1, <1>2, ReadableStep, Invariant, PTL DEF Spec

=============================================================================
