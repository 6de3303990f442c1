---------------------------- MODULE StorageProofs ----------------------------
(***************************************************************************)
(* Proofs about Storage.                                                   *)
(***************************************************************************)
EXTENDS Storage, TableProofs

\* Rows that are in order and within a sequence.
Sound(rows, last) ==
    /\ rows \in Seq(Content(rows))
    /\ \A i \in DOMAIN rows : IsRow(rows[i])
    /\ AutoIncrement =>
        \A i \in DOMAIN rows :
            PrimaryKey \in DOMAIN rows[i] /\ rows[i][PrimaryKey].go = "int64"
    /\ last \in Int
    /\ Sequenced(rows, last)

\* What is in memory.
MemoryInv ==
    /\ TypeOK
    /\ KeysStored
    /\ IdsOrdered

\* What is on disk: both files are there, their rows are within their sequence
\* and so is every id that was ever there.
DiskInv ==
    /\ DOMAIN file = Kind
    /\ file.meta = <<file.meta[1]>>
    /\ file.data = <<file.data[1]>>
    /\ Sound(file.data[1], file.meta[1].last)
    /\ onDisk \subseteq Int
    /\ \A id \in onDisk : id <= file.meta[1].last
    /\ Ids(file.data[1]) \subseteq onDisk

\* How a save in progress relates the two: its bytes are what is in memory, the
\* metadata are in place before the rows are renamed.
SaveInv ==
    /\ process = "up" => file.meta[1].last <= LastInsertID
    /\ stage # "idle" => process = "up"
    /\ nth \in {1, 2}
    /\ DOMAIN tmp = Kind
    /\ ReadLocked => bytes = Marshalled
    /\ nth = 2 => ReadLocked /\ file.meta[1] = bytes.meta
    /\ stage = "rename" => tmp[current] = <<bytes[current]>>

StorageInv == MemoryInv /\ DiskInv /\ SaveInv

LEMMA MemoryIsSound == MemoryInv <=> /\ Sound(Rows, LastInsertID)
                                     /\ DOMAIN Indexes = Indexed
                                     /\ Dirty \in BOOLEAN
                                     /\ reply \in Answers
BY DEF MemoryInv, TypeOK, KeysStored, IdsOrdered, Sound

LEMMA SequenceOnlyGrows ==
    ASSUME MaxID <= MaxInt64, TypeOK, [Next]_vars
    PROVE  LastInsertID <= LastInsertID' /\ LastInsertID' \in Int
<1>1. ASSUME NEW row \in InsertRows, InsertRow(row)
      PROVE  LastInsertID <= LastInsertID' /\ LastInsertID' \in Int
  <2>1. LastInsertID < MaxID /\ ~SequenceRefuses(row) /\ LastInsertID' = SequenceAfter(row)
    BY <1>1 DEF InsertRow
  <2>2. CASE AutoIncrement
    BY <2>1, <2>2, InsertAdvances DEF TypeOK
  <2>3. CASE ~AutoIncrement
    BY <2>1, <2>3 DEF SequenceAfter, TypeOK
  <2> QED
    BY <2>2, <2>3
<1>2. ASSUME NEW row \in InsertRows, InsertFails(row)
      PROVE  LastInsertID <= LastInsertID' /\ LastInsertID' \in Int
  <2>1. CASE SequenceRefuses(row)
    BY <1>2, <2>1 DEF InsertFails, TypeOK
  <2>2. CASE ~SequenceRefuses(row)
    <3>1. LastInsertID < MaxID /\ LastInsertID' = SequenceAfter(row)
      BY <1>2, <2>2 DEF InsertFails
    <3>2. CASE AutoIncrement
      BY <2>2, <3>1, <3>2, InsertAdvances DEF TypeOK
    <3>3. CASE ~AutoIncrement
      BY <3>1, <3>3 DEF SequenceAfter, TypeOK
    <3> QED
      BY <3>2, <3>3
  <2> QED
    BY <2>1, <2>2
<1>3. CASE UNCHANGED LastInsertID
  BY <1>3 DEF TypeOK
<1> QED
  BY <1>1, <1>2, <1>3 DEF Next, Update, UpdateUnknown, Delete, vars

LEMMA StatementKeepsMemory ==
    ASSUME SequencedSeed, QuietUpdates, MemoryInv, [Next]_vars
    PROVE  MemoryInv'
BY TypeStep, SequenceStep DEF MemoryInv

-----------------------------------------------------------------------------
(* Every variable of the saver keeps its shape.                            *)

LEMMA StorageTypeStep ==
    ASSUME StorageTypeOK, [StorageNext]_storageVars
    PROVE  StorageTypeOK'
<1> USE DEF StorageTypeOK
<1>1. ASSUME flushing' \in {flushing, TRUE, FALSE},
             UNCHANGED raced \/ raced' = FALSE \/ Statement,
             process' \in {"up", "down", "refused"},
             stage' \in {"idle", "checked", "truncate", "fill", "rename", "flushed"},
             nth' \in 1 .. 2, faults' \in 0 .. MaxFaults,
             DOMAIN file' = Kind, DOMAIN tmp' = Kind
      PROVE  StorageTypeOK'
  <2>1. flushing' \in BOOLEAN
    BY <1>1, Zenon
  <2>2. raced' \in BOOLEAN
    BY <1>1, Zenon DEF Statement
  <2> QED
    BY <1>1, <2>1, <2>2
<1>2. CASE Statement
  BY <1>1, <1>2 DEF Statement, saver, files
<1>3. CASE FlushCheck
  BY <1>1, <1>3 DEF FlushCheck, files, observed
<1>4. CASE SaveBegin
  BY <1>1, <1>4 DEF SaveBegin
<1>5. CASE FlushClear
  BY <1>1, <1>5 DEF FlushClear, files, observed
<1>6. CASE Truncate \/ Fill
  <2>1. DOMAIN tmp' = DOMAIN tmp /\ stage' \in {"fill", "rename"}
    BY <1>6 DEF Truncate, Fill
  <2> QED
    BY <1>1, <1>6, <2>1 DEF Truncate, Fill, observed
<1>7. CASE RenameFile
  <2>1. DOMAIN tmp' = DOMAIN tmp /\ DOMAIN file' = DOMAIN file
    BY <1>7 DEF RenameFile, Renamed
  <2>2. nth' \in 1 .. 2 /\ stage' \in {"truncate", "flushed", "idle"}
    BY <1>7 DEF RenameFile
  <2>3. raced' = raced \/ raced' = FALSE
    BY <1>7 DEF RenameFile
  <2>4. UNCHANGED <<process, flushing, faults>>
    BY <1>7 DEF RenameFile
  <2> QED
    BY <1>1, <2>1, <2>2, <2>3, <2>4
<1>8. CASE SaveFails \/ Crash
  <2>1. faults' \in 0 .. MaxFaults
    <3>1. faults < MaxFaults /\ faults' = faults + 1
      BY <1>8 DEF SaveFails, Crash
    <3> QED
      BY <3>1, FaultAssumption
  <2>2. /\ UNCHANGED <<tmp, file, raced>> /\ flushing' \in {FALSE}
        /\ stage' = "idle" /\ nth' = 1 /\ process' \in {"up", "down"}
    BY <1>8 DEF SaveFails, AfterFailure, Crash
  <2> QED
    BY <1>1, <2>1, <2>2
<1>9. CASE Load
  <2>1. process' \in {"up", "refused"} /\ raced' = FALSE
    BY <1>9 DEF Load
  <2>2. UNCHANGED <<stage, nth, flushing, tmp, file, faults>>
    BY <1>9 DEF Load, saver, files
  <2> QED
    BY <1>1, <2>1, <2>2
<1>10. CASE UNCHANGED storageVars
  BY <1>1, <1>10 DEF storageVars, saver, files, observed
<1> QED
  BY <1>2, <1>3, <1>4, <1>5, <1>6, <1>7, <1>8, <1>9, <1>10 DEF StorageNext

\* Type correctness of the saver: it is always at one of its steps and at one of
\* the two files, both files and both temporary ones are there, and no step adds
\* a file of another name.
THEOREM StorageTypeCorrect == StorageSpec => []StorageTypeOK
<1>1. ASSUME StorageInit PROVE StorageTypeOK
  <2>1. DOMAIN file = Kind /\ DOMAIN tmp = Kind
    BY <1>1 DEF StorageInit, Kind
  <2>2. flushing \in BOOLEAN /\ raced \in BOOLEAN
    BY <1>1, Zenon DEF StorageInit
  <2>3. faults \in 0 .. MaxFaults
    BY <1>1, FaultAssumption DEF StorageInit
  <2> QED
    BY <1>1, <2>1, <2>2, <2>3 DEF StorageInit, StorageTypeOK
<1>2. StorageTypeOK /\ [StorageNext]_storageVars => StorageTypeOK'
  BY StorageTypeStep
<1> QED
  BY <1>1, <1>2, PTL DEF StorageSpec

-----------------------------------------------------------------------------
LEMMA StorageInvInit == SequencedSeed /\ StorageInit => StorageInv
<1> SUFFICES ASSUME SequencedSeed, StorageInit PROVE StorageInv
  OBVIOUS
<1>1. Init
  BY DEF StorageInit
<1>2. MemoryInv
  BY <1>1, TypeInit, SequenceInit DEF MemoryInv
<1>3. /\ file.meta = <<[last |-> SeedLastID]>>
      /\ file.data = <<SeedRows>>
      /\ DOMAIN file = Kind
      /\ onDisk = Ids(SeedRows)
  BY DEF StorageInit, Kind
<1>4. Rows = SeedRows /\ LastInsertID = SeedLastID
  BY <1>1 DEF Init
<1>5. Sound(SeedRows, SeedLastID)
  BY <1>2, <1>4, MemoryIsSound
<1>6. \A id \in Ids(SeedRows) : id \in Int /\ id <= SeedLastID
  BY <1>5 DEF Ids, Sound, Sequenced, IsRow, Value
<1>7. DiskInv
  BY <1>3, <1>5, <1>6 DEF DiskInv
<1>8. SaveInv
  BY <1>3, <1>4, <1>5 DEF StorageInit, SaveInv, ReadLocked, Kind, Sound
<1> QED
  BY <1>2, <1>7, <1>8 DEF StorageInv

\* Primes of the disk invariant when the disk is left alone.
LEMMA DiskUntouched ==
    ASSUME DiskInv, UNCHANGED <<file, onDisk>>
    PROVE  DiskInv'
BY DEF DiskInv

LEMMA MemoryUntouched ==
    ASSUME MemoryInv, UNCHANGED vars
    PROVE  MemoryInv' /\ UNCHANGED Marshalled
BY DEF MemoryInv, TypeOK, KeysStored, IdsOrdered, vars, Marshalled

LEMMA FileNames == nth \in {1, 2} => current = (IF nth = 1 THEN "meta" ELSE "data")
BY DEF current, FileOrder

\* The renaming of the metadata, and then that of the rows.
LEMMA RenameKeepsInv ==
    ASSUME StorageInv, RenameFile
    PROVE  StorageInv'
<1> USE DEF StorageInv
<1>1. /\ bytes.meta = [last |-> LastInsertID]
      /\ bytes.data = Rows
      /\ process = "up"
      /\ file.meta[1].last <= LastInsertID
  BY DEF RenameFile, SaveInv, ReadLocked, Marshalled
<1>2. Sound(Rows, LastInsertID)
  BY MemoryIsSound
<1>3. tmp[current] = <<bytes[current]>>
  BY DEF RenameFile, SaveInv
<1>4. MemoryInv' /\ UNCHANGED Marshalled
  BY MemoryUntouched DEF RenameFile
<1>5. CASE nth = 1
  <2>1. /\ file'.meta = <<bytes.meta>>
        /\ file'.data = file.data
        /\ DOMAIN file' = Kind
    BY <1>3, <1>5, FileNames DEF RenameFile, Renamed, DiskInv, Kind
  <2>2. /\ Sound(file'.data[1], file'.meta[1].last)
    <3>1. file'.meta[1].last = LastInsertID /\ file'.data[1] = file.data[1]
      BY <1>1, <2>1
    <3>2. Sound(file.data[1], LastInsertID)
      <4>1. /\ Sound(file.data[1], file.meta[1].last)
            /\ LastInsertID \in Int
            /\ file.meta[1].last <= LastInsertID
        BY <1>1, <1>2 DEF DiskInv, Sound
      <4>2. ASSUME NEW i \in DOMAIN file.data[1], AutoIncrement
            PROVE  file.data[1][i][PrimaryKey].n \in Int
        BY <4>1, <4>2 DEF Sound, IsRow, Value
      <4> QED
        BY <4>1, <4>2 DEF Sound, Sequenced
    <3> QED
      BY <3>1, <3>2
  <2>3. onDisk' = onDisk
    BY <2>1 DEF RenameFile, DiskInv
  <2>4. \A id \in onDisk' : id \in Int /\ id <= file'.meta[1].last
    BY <1>1, <1>2, <2>1, <2>3 DEF DiskInv, Sound
  <2>5. DiskInv'
    BY <2>1, <2>2, <2>3, <2>4 DEF DiskInv
  <2>6. SaveInv'
    <3>1. stage' = "truncate" /\ nth' = 2 /\ bytes' = bytes /\ process' = "up"
      BY <1>1, <1>5 DEF RenameFile
    <3>2. DOMAIN tmp' = Kind
      BY DEF RenameFile, SaveInv
    <3>3. bytes' = Marshalled'
      BY <1>4, <3>1 DEF RenameFile, SaveInv, ReadLocked
    <3>4. LastInsertID' = LastInsertID
      BY DEF RenameFile, vars
    <3> QED
      BY <1>1, <1>2, <2>1, <3>1, <3>2, <3>3, <3>4 DEF SaveInv, ReadLocked, Sound
  <2> QED
    BY <1>4, <2>5, <2>6
<1>6. CASE nth = 2
  <2>1. /\ file'.meta = file.meta
        /\ file'.data = <<bytes.data>>
        /\ DOMAIN file' = Kind
    BY <1>3, <1>6, FileNames DEF RenameFile, Renamed, DiskInv, Kind
  <2>2. file.meta[1] = bytes.meta
    BY <1>6 DEF SaveInv
  <2>3. /\ file'.data[1] = Rows
        /\ file'.meta[1].last = LastInsertID
    BY <1>1, <2>1, <2>2
  <2>4. Sound(file'.data[1], file'.meta[1].last)
    BY <1>2, <2>3
  <2>5. onDisk' = onDisk \cup Ids(Rows)
    BY <2>1, <2>3 DEF RenameFile
  <2>6. \A id \in Ids(Rows) : id \in Int /\ id <= LastInsertID
    BY <1>2 DEF Ids, Sound, Sequenced, IsRow, Value
  <2>7. \A id \in onDisk : id \in Int /\ id <= LastInsertID
    <3>1. file.meta[1].last = LastInsertID
      BY <1>1, <2>2
    <3> QED
      BY <3>1 DEF DiskInv
  <2>8. DiskInv'
    <3>1. /\ onDisk' \subseteq Int
          /\ \A id \in onDisk' : id <= LastInsertID
      BY <2>5, <2>6, <2>7
    <3>2. Ids(file'.data[1]) \subseteq onDisk'
      BY <2>3, <2>5
    <3>3. file'.meta = <<file'.meta[1]>> /\ file'.data = <<file'.data[1]>>
      BY <2>1 DEF DiskInv
    <3> QED
      BY <2>1, <2>3, <2>4, <3>1, <3>2, <3>3 DEF DiskInv
  <2>9. SaveInv'
    <3>1. /\ stage' \in {"idle", "flushed"} /\ nth' = 1
          /\ process' = process /\ process = "up"
          /\ LastInsertID' = LastInsertID
      BY <1>1, <1>6 DEF RenameFile, vars
    <3>2. DOMAIN tmp' = Kind
      BY DEF RenameFile, SaveInv
    <3> QED
      BY <1>2, <2>3, <3>1, <3>2 DEF SaveInv, ReadLocked, Sound
  <2> QED
    BY <1>4, <2>8, <2>9
<1> QED
  BY <1>5, <1>6 DEF SaveInv

\* What the loader hands over is as sound as what it read.
LEMMA LoadKeepsInv ==
    ASSUME StorageInv, Load
    PROVE  StorageInv'
<1> DEFINE rows == file.data[1]
           last == file.meta[1].last
<1>1. Sound(rows, last)
  BY DEF StorageInv, DiskInv
<1>2. process' \in {"up", "refused"} /\ Indexes' = Rebuilt(Rows') /\ Dirty' = FALSE
  BY DEF Load
<1>3. \/ Rows' = LoadedRows(rows) /\ LastInsertID' = last /\ process' = "up"
      \/ Rows' = <<>> /\ LastInsertID' = 0 /\ process' = "refused"
  BY DEF Load, LoadedSequence
<1>4. Sound(LoadedRows(rows), last)
  <2>1. /\ LoadedRows(rows) \in Seq(Content(LoadedRows(rows)))
        /\ DOMAIN LoadedRows(rows) = DOMAIN rows
    BY <1>1, ContentSeq DEF LoadedRows, Sound
  <2>2. ASSUME NEW row, IsRow(row)
        PROVE  IsRow(LoadedRow(row))
    BY <2>2 DEF IsRow, LoadedRow, LoadedValue, IsNumber, Value, GoType
  <2>3. \A i \in DOMAIN rows : IsRow(LoadedRows(rows)[i])
    BY <1>1, <2>2 DEF LoadedRows, Sound
  <2>4. ASSUME AutoIncrement, NEW i \in DOMAIN rows
        PROVE  /\ PrimaryKey \in DOMAIN LoadedRows(rows)[i]
               /\ LoadedRows(rows)[i][PrimaryKey].go = "int64"
               /\ LoadedRows(rows)[i][PrimaryKey].n = rows[i][PrimaryKey].n
    <3>1. PrimaryKey \in DOMAIN rows[i] /\ rows[i][PrimaryKey].go = "int64"
      BY <1>1, <2>4 DEF Sound
    <3>2. PrimaryKey \in Column /\ ColumnType[PrimaryKey] = "INT"
      BY <2>4, SchemaAssumption
    <3> QED
      BY <3>1, <3>2 DEF LoadedRows, LoadedRow, LoadedValue, IsNumber
  <2> QED
    BY <1>1, <2>1, <2>3, <2>4 DEF Sound, Sequenced
<1>5. Sound(Rows', LastInsertID')
  <2>1. Sound(<<>>, 0)
    BY DEF Sound, Sequenced, Content
  <2> QED
    BY <1>3, <1>4, <2>1
<1>6. MemoryInv'
  <2>1. reply' = reply /\ reply \in Answers
    BY DEF Load, StorageInv, MemoryInv, TypeOK
  <2> QED
    BY <1>2, <1>5, <2>1, RebuiltDomain
    DEF MemoryInv, TypeOK, KeysStored, IdsOrdered, Sound
<1>7. DiskInv'
  BY DiskUntouched DEF Load, StorageInv, files
<1>8. SaveInv'
  <2>1. /\ UNCHANGED <<stage, nth, tmp, file>>
        /\ process = "down"
    BY DEF Load, saver, files
  <2>2. stage = "idle" /\ nth = 1
    BY <2>1 DEF StorageInv, SaveInv, ReadLocked
  <2>3. process' = "up" => file'.meta[1].last <= LastInsertID'
    BY <1>1, <1>3, <2>1 DEF Sound
  <2> QED
    BY <2>1, <2>2, <2>3 DEF StorageInv, SaveInv, ReadLocked
<1> QED
  BY <1>6, <1>7, <1>8 DEF StorageInv

LEMMA StorageInvStep ==
    ASSUME SequencedSeed, QuietUpdates, StorageInv, [StorageNext]_storageVars
    PROVE  StorageInv'
<1> USE DEF StorageInv
<1>1. CASE Statement
  <2>1. [Next]_vars /\ process = "up" /\ ~ReadLocked
    BY <1>1 DEF Statement
  <2>2. UNCHANGED <<process, stage, nth, flushing, bytes, tmp, file, onDisk>>
    BY <1>1 DEF Statement, saver, files, observed
  <2>3. MemoryInv'
    BY <2>1, StatementKeepsMemory
  <2>4. DiskInv'
    BY <2>2, DiskUntouched
  <2>5. LastInsertID <= LastInsertID' /\ LastInsertID \in Int /\ LastInsertID' \in Int
    BY <2>1, SequenceOnlyGrows DEF SequencedSeed, MemoryInv, TypeOK
  <2>6. file.meta[1].last <= LastInsertID'
    BY <2>1, <2>5 DEF SaveInv, DiskInv, Sound
  <2>7. SaveInv'
    BY <2>1, <2>2, <2>6 DEF SaveInv, ReadLocked
  <2> QED
    BY <2>3, <2>4, <2>7
<1>2. ASSUME FlushCheck \/ SaveBegin \/ Truncate \/ Fill \/ SaveFails
      PROVE  StorageInv'
  <2>1. UNCHANGED vars /\ UNCHANGED <<process, file, onDisk>> /\ process = "up"
    BY <1>2 DEF FlushCheck, SaveBegin, Truncate, Fill, SaveFails, files, observed
  <2>2. MemoryInv' /\ UNCHANGED Marshalled
    BY <2>1, MemoryUntouched
  <2>3. DiskInv'
    BY <2>1, DiskUntouched
  <2>4. LastInsertID' = LastInsertID
    BY <2>1 DEF vars
  <2>5. ASSUME FlushCheck PROVE SaveInv'
    BY <2>1, <2>4, <2>5 DEF FlushCheck, SaveInv, ReadLocked, files
  <2>6. ASSUME SaveBegin PROVE SaveInv'
    <3>1. stage' = "truncate" /\ nth' = 1 /\ UNCHANGED tmp /\ bytes' = Marshalled'
      BY <2>2, <2>6 DEF SaveBegin
    <3> QED
      BY <2>1, <2>4, <3>1 DEF SaveInv, ReadLocked
  <2>7. ASSUME Truncate PROVE SaveInv'
    <3>1. /\ stage' = "fill" /\ UNCHANGED <<nth, bytes>> /\ DOMAIN tmp' = DOMAIN tmp
          /\ bytes = Marshalled
      BY <2>7 DEF Truncate, SaveInv, ReadLocked
    <3>2. nth = 2 => file.meta[1] = bytes.meta
      BY DEF SaveInv
    <3>3. bytes' = Marshalled'
      BY <2>2, <3>1
    <3> QED
      BY <2>1, <2>4, <3>1, <3>2, <3>3 DEF SaveInv, ReadLocked
  <2>8. ASSUME Fill PROVE SaveInv'
    <3>1. /\ stage' = "rename" /\ UNCHANGED <<nth, bytes>> /\ DOMAIN tmp' = DOMAIN tmp
          /\ bytes = Marshalled
      BY <2>8 DEF Fill, SaveInv, ReadLocked
    <3>2. nth = 2 => file.meta[1] = bytes.meta
      BY DEF SaveInv
    <3>3. bytes' = Marshalled'
      BY <2>2, <3>1
    <3>4. tmp'[current] = <<bytes[current]>> /\ current' = current
      BY <2>8, <3>1, FileNames DEF Fill, SaveInv, Kind, current
    <3> QED
      BY <2>1, <2>4, <3>1, <3>2, <3>3, <3>4 DEF SaveInv, ReadLocked
  <2>9. ASSUME SaveFails PROVE SaveInv'
    BY <2>1, <2>4, <2>9 DEF SaveFails, AfterFailure, SaveInv, ReadLocked
  <2> QED
    BY <1>2, <2>2, <2>3, <2>5, <2>6, <2>7, <2>8, <2>9
<1>3. CASE RenameFile
  BY <1>3, RenameKeepsInv
<1>4. CASE FlushClear
  <2>1. UNCHANGED <<Rows, Indexes, LastInsertID, reply, process, nth, bytes, tmp, file, onDisk>>
    BY <1>4 DEF FlushClear, files, observed
  <2>2. MemoryInv'
    BY <1>4, <2>1 DEF FlushClear, MemoryInv, TypeOK, KeysStored, IdsOrdered
  <2>3. DiskInv'
    BY <2>1, DiskUntouched
  <2>4. stage = "flushed" /\ stage' = "idle" /\ process = "up"
    BY <1>4 DEF FlushClear
  <2>5. SaveInv'
    BY <2>1, <2>4 DEF SaveInv, ReadLocked
  <2> QED
    BY <2>2, <2>3, <2>5
<1>5. CASE Crash
  <2>1. UNCHANGED <<tmp, file, onDisk>> /\ stage' = "idle" /\ nth' = 1 /\ process' = "down"
    BY <1>5 DEF Crash
  <2>2. Rows' = <<>> /\ Indexes' = Rebuilt(<<>>) /\ LastInsertID' = 0
        /\ Dirty' = FALSE /\ reply' = NoAnswer
    BY <1>5 DEF Crash
  <2>3. MemoryInv'
    <3>1. <<>> \in Seq(Content(<<>>)) /\ Sound(<<>>, 0)
      BY DEF Sound, Sequenced, Content
    <3>2. DOMAIN Indexes' = Indexed
      BY <2>2, RebuiltDomain
    <3> QED
      BY <2>2, <3>1, <3>2, AnswersTyped
      DEF MemoryInv, TypeOK, KeysStored, IdsOrdered, Sound
  <2>4. DiskInv'
    BY <2>1, DiskUntouched
  <2>5. SaveInv'
    BY <2>1 DEF SaveInv, ReadLocked
  <2> QED
    BY <2>3, <2>4, <2>5
<1>6. CASE Load
  BY <1>6, LoadKeepsInv
<1>7. CASE UNCHANGED storageVars
  <2>1. UNCHANGED vars /\ UNCHANGED <<process, stage, nth, bytes, tmp, file, onDisk>>
    BY <1>7 DEF storageVars, saver, files, observed
  <2>2. MemoryInv' /\ UNCHANGED Marshalled
    BY <2>1, MemoryUntouched
  <2>3. DiskInv'
    BY <2>1, DiskUntouched
  <2>4. LastInsertID' = LastInsertID /\ current' = current
    BY <2>1 DEF vars, current
  <2>5. SaveInv'
    BY <2>1, <2>2, <2>4 DEF SaveInv, ReadLocked
  <2> QED
    BY <2>2, <2>3, <2>5
<1> QED
  BY <1>1, <1>2, <1>3, <1>4, <1>5, <1>6, <1>7 DEF StorageNext

\* On disk the sequence is ahead of every id that was ever there, in the middle
\* of a save and across crashes and failed saves, because the metadata are
\* renamed before the rows and both come from one look at the table.
THEOREM DiskSequence ==
    SequencedSeed /\ QuietUpdates => (StorageSpec => []DiskSequenceAhead)
<1> SUFFICES ASSUME SequencedSeed, QuietUpdates
             PROVE  StorageSpec => []DiskSequenceAhead
  OBVIOUS
<1>1. StorageInit => StorageInv
  BY StorageInvInit
<1>2. StorageInv /\ [StorageNext]_storageVars => StorageInv'
  BY StorageInvStep
<1>3. StorageInv => DiskSequenceAhead
  BY DEF StorageInv, DiskInv, DiskSequenceAhead
<1> QED
  BY <1>1, <1>2, <1>3, PTL DEF StorageSpec

\* A statement never gives a row an id that was once on disk.
NewIdOnly ==
    /\ AutoIncrement
    /\ process = "up" /\ process' = "up"
    /\ Len(Rows') > Len(Rows)
    => Rows'[Len(Rows')][PrimaryKey].n \notin onDisk

LEMMA NewIdStep ==
    ASSUME SequencedSeed, StorageInv, [StorageNext]_storageVars
    PROVE  NewIdOnly
<1> SUFFICES ASSUME AutoIncrement, process = "up", process' = "up",
                    Len(Rows') > Len(Rows)
             PROVE  Rows'[Len(Rows')][PrimaryKey].n \notin onDisk
  BY DEF NewIdOnly
<1>1. Rows \in Seq(Content(Rows)) /\ LastInsertID \in Int
  BY DEF StorageInv, MemoryInv, TypeOK
<1>2. Statement
  <2>1. Rows' # Rows
    BY <1>1
  <2>2. ~(FlushCheck \/ SaveBegin \/ Truncate \/ Fill \/ RenameFile \/ SaveFails)
    BY <2>1 DEF FlushCheck, SaveBegin, Truncate, Fill, RenameFile, SaveFails, vars
  <2>3. ~(FlushClear \/ Crash \/ Load \/ UNCHANGED storageVars)
    BY <2>1 DEF FlushClear, Crash, Load, storageVars, vars
  <2> QED
    BY <2>2, <2>3 DEF StorageNext
<1>3. ASSUME NEW match, Filtered(match)
      PROVE  Len(Rows') <= Len(Rows)
  <2>1. PICK n \in 0 .. Len(Rows) : \E kept_ \in [1 .. n -> DOMAIN Rows] :
          Rows' = [i \in 1 .. n |-> Rows[kept_[i]]]
    BY <1>3 DEF Filtered
  <2>2. Len(Rows') = n
    BY <1>1, <2>1, ContentSeq
  <2> QED
    BY <1>1, <2>1, <2>2
<1>4. ASSUME NEW rows, DOMAIN rows = DOMAIN Rows, rows = [i \in DOMAIN Rows |-> rows[i]]
      PROVE  Len(rows) = Len(Rows)
  BY <1>1, <1>4, ContentSeq
<1>5. PICK row \in InsertRows : InsertRow(row)
  <2>1. \A row \in InsertRows : ~InsertFails(row)
    BY <1>1 DEF InsertFails
  <2>2. \A match, updates : ~Update(match, updates)
    BY <1>1, <1>4 DEF Update
  <2>3. \A match, updates : ~UpdateUnknown(match, updates)
    BY <1>1, <1>4 DEF UpdateUnknown
  <2>4. \A match : ~Delete(match)
    BY <1>1, <1>3 DEF Delete
  <2> QED
    BY <1>2, <2>1, <2>2, <2>3, <2>4 DEF Statement, Next
<1>6. /\ LastInsertID < MaxID
      /\ ~SequenceRefuses(row)
      /\ Rows' = Append(Rows, Completed(row))
  BY <1>5 DEF InsertRow
<1>7. /\ Completed(row)[PrimaryKey] = Int64(InsertID(row))
  BY CompletedKey, Zenon
<1>8. /\ Rows'[Len(Rows')][PrimaryKey].n = InsertID(row)
  BY <1>1, <1>6, <1>7 DEF Int64
<1>9. InsertID(row) \in Int /\ LastInsertID < InsertID(row)
  BY <1>1, <1>6, InsertAdvances DEF SequencedSeed
<1>10. \A id \in onDisk : id \in Int /\ id <= file.meta[1].last
  BY DEF StorageInv, DiskInv
<1>11. file.meta[1].last <= LastInsertID /\ file.meta[1].last \in Int
  BY DEF StorageInv, DiskInv, SaveInv, Sound
<1> QED
  BY <1>1, <1>8, <1>9, <1>10, <1>11

\* No id that was ever on disk is given to another row, whatever was deleted,
\* however often the process died and whichever saves failed.
THEOREM IdsNeverReissued ==
    SequencedSeed /\ QuietUpdates => (StorageSpec => NeverReissued)
<1> SUFFICES ASSUME SequencedSeed, QuietUpdates PROVE StorageSpec => NeverReissued
  OBVIOUS
<1>1. StorageInit => StorageInv
  BY StorageInvInit
<1>2. StorageInv /\ [StorageNext]_storageVars => StorageInv'
  BY StorageInvStep
<1>3. StorageInv /\ [StorageNext]_storageVars => [NewIdOnly]_storageVars
  BY NewIdStep
<1> QED
  BY <1>1, <1>2, <1>3, PTL DEF StorageSpec, NeverReissued, NewIdOnly

-----------------------------------------------------------------------------
(* data.json is always the whole of one save.                              *)

KeptInv ==
    /\ DOMAIN file = Kind
    /\ nth \in {1, 2}
    /\ SavedSurvives
    /\ ReadLocked => bytes.data \in kept
    /\ stage = "rename" => tmp[current] = <<bytes[current]>>
    /\ DOMAIN tmp = Kind

LEMMA KeptInit == StorageInit => KeptInv
<1> SUFFICES ASSUME StorageInit PROVE KeptInv
  OBVIOUS
<1>1. file.data = <<SeedRows>> /\ SeedRows \in kept /\ DOMAIN file = Kind
  BY DEF StorageInit, Kind
<1>2. stage = "idle" /\ nth = 1 /\ DOMAIN tmp = Kind
  BY DEF StorageInit
<1> QED
  BY <1>1, <1>2 DEF KeptInv, SavedSurvives, ReadLocked

LEMMA KeptStep ==
    ASSUME KeptInv, [StorageNext]_storageVars
    PROVE  KeptInv'
<1> USE DEF KeptInv, SavedSurvives
<1>1. CASE RenameFile
  <2>1. tmp[current] = <<bytes[current]>> /\ bytes.data \in kept /\ DOMAIN tmp' = Kind
    BY <1>1 DEF RenameFile, ReadLocked
  <2>2. DOMAIN file' = Kind
    BY <1>1 DEF RenameFile, Renamed
  <2>3. CASE nth = 1
    <3>1. file'.data = file.data
      BY <1>1, <2>3, FileNames DEF RenameFile, Renamed, Kind
    <3>2. UNCHANGED <<bytes, kept>> /\ stage' = "truncate" /\ nth' = 2
      BY <1>1, <2>3 DEF RenameFile
    <3> QED
      BY <2>1, <2>2, <3>1, <3>2
  <2>4. CASE nth = 2
    <3>1. file'.data = <<bytes.data>>
      BY <1>1, <2>1, <2>4, FileNames DEF RenameFile, Renamed, Kind
    <3>2. kept' = {bytes.data} /\ stage' \in {"idle", "flushed"} /\ nth' = 1
      BY <1>1, <2>4 DEF RenameFile
    <3> QED
      BY <2>1, <2>2, <3>1, <3>2 DEF ReadLocked
  <2> QED
    BY <2>3, <2>4
<1>2. CASE SaveBegin
  <2>1. /\ bytes'.data = Rows /\ kept' = kept \cup {Rows}
        /\ UNCHANGED <<tmp, file>> /\ stage' = "truncate" /\ nth' = 1
    BY <1>2 DEF SaveBegin, Marshalled
  <2> QED
    BY <2>1
<1>3. CASE Fill
  <2>1. /\ tmp'[current] = <<bytes[current]>>
        /\ UNCHANGED <<nth, bytes, kept, file>> /\ current' = current
        /\ DOMAIN tmp' = Kind
    BY <1>3, FileNames DEF Fill, observed, Kind, current
  <2>2. bytes.data \in kept
    BY <1>3 DEF Fill, ReadLocked
  <2> QED
    BY <2>1, <2>2
<1>4. CASE Truncate
  <2>1. /\ stage' = "fill" /\ UNCHANGED <<nth, bytes, kept, file>> /\ DOMAIN tmp' = Kind
        /\ bytes.data \in kept
    BY <1>4 DEF Truncate, observed, ReadLocked
  <2> QED
    BY <2>1
<1>5. ASSUME stage' \in {"idle", "checked"}, UNCHANGED <<tmp, file, kept>>,
             nth' \in {1, 2}
      PROVE  KeptInv'
  BY <1>5 DEF ReadLocked
<1>6. ASSUME UNCHANGED <<stage, nth, bytes, tmp, file, kept>>
      PROVE  KeptInv'
  BY <1>6 DEF ReadLocked, current
<1> QED
  BY <1>1, <1>2, <1>3, <1>4, <1>5, <1>6
  DEF StorageNext, Statement, FlushCheck, SaveFails, FlushClear, Crash, Load,
      AfterFailure, storageVars, saver, files, observed

\* data.json is never torn, never a mixture of two saves and never older than
\* the last save that succeeded, at whatever step the process dies.
THEOREM SavedRowsSurvive == StorageSpec => []SavedSurvives
<1>1. StorageInit => KeptInv
  BY KeptInit
<1>2. KeptInv /\ [StorageNext]_storageVars => KeptInv'
  BY KeptStep
<1>3. KeptInv => SavedSurvives
  BY DEF KeptInv
<1> QED
  BY <1>1, <1>2, <1>3, PTL DEF StorageSpec

-----------------------------------------------------------------------------
(* A table that does not call itself dirty is on disk.                     *)

Saved == LoadedRows(file.data[1]) = LoadedRows(Rows)

CleanInv ==
    /\ StorageInv
    /\ process = "up" /\ ~raced /\ (~Dirty \/ stage = "flushed") => Saved

LEMMA CleanInit == SequencedSeed /\ StorageInit => CleanInv
<1> SUFFICES ASSUME SequencedSeed, StorageInit PROVE CleanInv
  OBVIOUS
<1>1. file.data = <<SeedRows>> /\ Rows = SeedRows
  BY DEF StorageInit, Init
<1> QED
  BY <1>1, StorageInvInit DEF CleanInv, Saved

\* A statement that leaves the flag down leaves the rows alone.
LEMMA DirtyWhenChanged ==
    ASSUME NoPartialUpdate, TypeOK, Next, ~Dirty'
    PROVE  Rows' = Rows /\ ~Dirty
<1>1. Rows = [i \in DOMAIN Rows |-> Rows[i]] /\ \A i \in DOMAIN Rows : IsRow(Rows[i])
  BY DEF TypeOK
<1>2. ASSUME NEW row \in InsertRows, InsertRow(row) \/ InsertFails(row)
      PROVE  Rows' = Rows /\ ~Dirty
  BY <1>2 DEF InsertRow, InsertFails
<1>3. ASSUME NEW match, NEW updates \in UpdateRows, Update(match, updates)
      PROVE  Rows' = Rows /\ ~Dirty
  BY <1>1, <1>3 DEF Update
<1>4. ASSUME NEW match, NEW updates \in UpdateRows, UpdateUnknown(match, updates)
      PROVE  Rows' = Rows /\ ~Dirty
  <2>1. ~Dirty
    BY <1>4 DEF UpdateUnknown
  <2>2. CASE UNCHANGED Rows
    BY <2>1, <2>2
  <2>3. ASSUME NEW first \in DOMAIN Rows, NEW written \in SUBSET (DOMAIN updates \cap Column),
               Rows' = [i \in DOMAIN Rows |->
                           IF i = first
                           THEN Assign(Rows[i], [c \in written |-> updates[c]])
                           ELSE Rows[i]]
        PROVE  Rows' = Rows
    <3>1. written = {}
      BY <1>4 DEF NoPartialUpdate, UpdateUnknown
    <3>2. Assign(Rows[first], [c \in written |-> updates[c]]) = Rows[first]
      BY <1>1, <3>1 DEF Assign, IsRow
    <3> QED
      BY <1>1, <2>3, <3>2
  <2> QED
    BY <1>4, <2>1, <2>2, <2>3 DEF UpdateUnknown
<1>5. ASSUME NEW match, Delete(match)
      PROVE  Rows' = Rows /\ ~Dirty
  BY <1>5 DEF Delete
<1> QED
  BY <1>2, <1>3, <1>4, <1>5 DEF Next

LEMMA LoadedTwice == \A rows : LoadedRows(LoadedRows(rows)) = LoadedRows(rows)
<1>1. \A row : LoadedRow(LoadedRow(row)) = LoadedRow(row)
  BY DEF LoadedRow, LoadedValue, IsNumber
<1> QED
  BY <1>1 DEF LoadedRows

LEMMA CleanStep ==
    ASSUME SequencedSeed, QuietUpdates, NoPartialUpdate, CleanInv, [StorageNext]_storageVars
    PROVE  CleanInv'
<1> USE DEF CleanInv
<1>1. StorageInv'
  BY StorageInvStep
<1>2. SUFFICES ASSUME process' = "up", ~raced', ~Dirty' \/ stage' = "flushed"
               PROVE  Saved'
  BY <1>1
<1>3. CASE Statement
  <2>1. UNCHANGED <<stage, file>> /\ process = "up" /\ ~raced
    BY <1>2, <1>3 DEF Statement, saver, files
  <2>2. CASE stage = "flushed"
    BY <1>2, <1>3, <2>1, <2>2 DEF Statement, Saved
  <2>3. CASE stage # "flushed"
    <3>1. Rows' = Rows /\ ~Dirty
      BY <1>2, <1>3, <2>1, <2>3, DirtyWhenChanged DEF Statement, StorageInv, MemoryInv
    <3> QED
      BY <2>1, <3>1 DEF Saved
  <2> QED
    BY <2>2, <2>3
<1>4. ASSUME FlushCheck \/ SaveBegin \/ Truncate \/ Fill \/ SaveFails PROVE Saved'
  BY <1>2, <1>4
  DEF FlushCheck, SaveBegin, Truncate, Fill, SaveFails, AfterFailure, Saved, vars, files, observed
<1>5. CASE RenameFile
  <2>1. /\ UNCHANGED <<Rows, Dirty, process>> /\ nth \in {1, 2}
        /\ tmp[current] = <<bytes[current]>> /\ bytes = Marshalled
        /\ DOMAIN file = Kind
    BY <1>5 DEF RenameFile, vars, StorageInv, SaveInv, DiskInv, ReadLocked
  <2>2. CASE nth = 1
    <3>1. file'.data = file.data /\ raced' = raced /\ stage' = "truncate"
      BY <1>5, <2>1, <2>2, FileNames DEF RenameFile, Renamed, Kind
    <3> QED
      BY <1>2, <2>1, <3>1 DEF Saved
  <2>3. CASE nth = 2
    <3>1. file'.data = <<Rows>>
      BY <1>5, <2>1, <2>3, FileNames DEF RenameFile, Renamed, Kind, Marshalled
    <3> QED
      BY <2>1, <3>1 DEF Saved
  <2> QED
    BY <2>1, <2>2, <2>3
<1>6. CASE FlushClear
  BY <1>2, <1>6 DEF FlushClear, Saved, files, observed
<1>7. CASE Crash
  BY <1>2, <1>7 DEF Crash
<1>8. CASE Load
  <2>1. Rows' = LoadedRows(file.data[1]) /\ file' = file
    BY <1>2, <1>8 DEF Load, files
  <2> QED
    BY <2>1, LoadedTwice DEF Saved
<1>9. CASE UNCHANGED storageVars
  BY <1>2, <1>9 DEF storageVars, vars, saver, files, observed, Saved
<1> QED
  BY <1>3, <1>4, <1>5, <1>6, <1>7, <1>8, <1>9 DEF StorageNext

\* A table whose flag is down is on disk as it would load, whatever statements,
\* saves, flushes, errors, crashes and loads came before, but for a statement
\* between a flush and its FlushClear and for an UPDATE that names an unknown
\* column beside a known one.
THEOREM CleanTableIsSaved ==
    SequencedSeed /\ QuietUpdates /\ NoPartialUpdate => (StorageSpec => []CleanIsSaved)
<1> SUFFICES ASSUME SequencedSeed, QuietUpdates, NoPartialUpdate
             PROVE  StorageSpec => []CleanIsSaved
  OBVIOUS
<1>1. StorageInit => CleanInv
  BY CleanInit
<1>2. CleanInv /\ [StorageNext]_storageVars => CleanInv'
  BY CleanStep
<1>3. CleanInv => CleanIsSaved
  BY DEF CleanInv, CleanIsSaved, Saved
<1> QED
  BY <1>1, <1>2, <1>3, PTL DEF StorageSpec

-----------------------------------------------------------------------------
(* What was saved can be loaded again.                                     *)

\* No column is a TIME, and of the columns with an index only a generated key is
\* an INT: an int that INSERT stored beside the int64 of the same number passes
\* as another value until both are read back.
LoadableSchema ==
    /\ \A c \in Column : ColumnType[c] # "TIME"
    /\ \A c \in Indexed : ColumnType[c] = "INT" => c = PrimaryKey /\ AutoIncrement

\* A row that the loader accepts, and whose indexed values it leaves as they are.
Fit(row) ==
    /\ LoaderAccepts(row)
    /\ \A c \in Indexed \cap DOMAIN row : LoadedValue(c, row[c]) = row[c]

Readable(rows) == Indexable(rows) /\ \A i \in DOMAIN rows : Fit(rows[i])

ReadableInv ==
    /\ StorageInv
    /\ IndexExact
    /\ Readable(Rows)
    /\ Readable(file.data[1])
    /\ process # "refused"

\* What the planner lets into a column, the loader accepts.
LEMMA PlannedIsAccepted ==
    ASSUME LoadableSchema, NEW c \in Column, NEW v \in Value,
           v.go \in LiteralGo(ColumnType[c])
    PROVE  LoadedValue(c, v).go = LoadedGo(ColumnType[c])
<1>1. ColumnType[c] \in SQLType \ {"TIME"}
  BY SchemaAssumption DEF LoadableSchema
<1> QED
  BY <1>1 DEF SQLType, LiteralGo, LoadedValue, LoadedGo, IsNumber, Value

\* What INSERT accepts in an indexed column, the loader leaves as it is.
LEMMA UniqueIsSettled ==
    ASSUME LoadableSchema, NEW c \in Indexed, c # PrimaryKey \/ ~AutoIncrement,
           NEW v \in Value, v.go \in LiteralGo(ColumnType[c]) \cap AcceptedGo(ColumnType[c])
    PROVE  LoadedValue(c, v) = v
<1>1. ColumnType[c] \in SQLType \ {"TIME", "INT"}
  BY SchemaAssumption DEF LoadableSchema, Indexed
<1> QED
  BY <1>1 DEF SQLType, LiteralGo, AcceptedGo, LoadedValue, IsNumber, Value

\* A row that INSERT stores can be loaded again.
LEMMA InsertedIsFit ==
    ASSUME LoadableSchema, LastInsertID \in Int,
           NEW row \in InsertRows, Valid(Completed(row))
    PROVE  Fit(Completed(row))
<1> DEFINE r == Completed(row)
<1>1. IsRow(row) /\ FromPlanner(row) /\ InsertID(row) \in Int
  BY WorkloadAssumption, InsertIDIsInt
<1>2. ASSUME AutoIncrement
      PROVE  /\ r[PrimaryKey] = Int64(InsertID(row))
             /\ ColumnType[PrimaryKey] = "INT" /\ PrimaryKey \in Column
  BY <1>2, CompletedKey, SchemaAssumption, Zenon
<1>3. ASSUME NEW c \in DOMAIN r, c # PrimaryKey \/ ~AutoIncrement
      PROVE  c \in DOMAIN row /\ r[c] = row[c]
  BY <1>3 DEF Completed, Assign
<1>4. NotNull \subseteq DOMAIN r
  BY DEF Valid
<1>5. \A c \in DOMAIN r \cap Column : r[c].go \in AcceptedGo(ColumnType[c])
  BY DEF Valid
<1> HIDE DEF r
<1>6. ASSUME NEW c \in DOMAIN r \cap Column
      PROVE  LoadedValue(c, r[c]).go = LoadedGo(ColumnType[c]) /\ ColumnType[c] # "TIME"
  <2>1. CASE c = PrimaryKey /\ AutoIncrement
    BY <1>2, <2>1 DEF Int64, LoadedValue, IsNumber, LoadedGo
  <2>2. CASE c # PrimaryKey \/ ~AutoIncrement
    <3>1. c \in DOMAIN row /\ r[c] = row[c]
      BY <1>3, <2>2
    <3>2. row[c] \in Value /\ row[c].go \in LiteralGo(ColumnType[c])
      BY <1>1, <3>1 DEF IsRow, FromPlanner
    <3> QED
      BY <3>1, <3>2, PlannedIsAccepted DEF LoadableSchema
  <2> QED
    BY <2>1, <2>2
<1>7. ASSUME NEW c \in Indexed \cap DOMAIN r
      PROVE  LoadedValue(c, r[c]) = r[c]
  <2>1. CASE c = PrimaryKey /\ AutoIncrement
    BY <1>2, <2>1 DEF Int64, LoadedValue, IsNumber
  <2>2. CASE c # PrimaryKey \/ ~AutoIncrement
    <3>1. c \in DOMAIN row /\ r[c] = row[c] /\ c \in Column
      BY <1>3, <2>2, SchemaAssumption DEF Indexed
    <3>2. row[c] \in Value /\ row[c].go \in LiteralGo(ColumnType[c])
      BY <1>1, <3>1 DEF IsRow, FromPlanner
    <3>3. row[c].go \in AcceptedGo(ColumnType[c])
      BY <1>5, <3>1
    <3> QED
      BY <2>2, <3>1, <3>2, <3>3, UniqueIsSettled
  <2> QED
    BY <2>1, <2>2
<1> QED
  BY <1>4, <1>6, <1>7 DEF Fit, LoaderAccepts, r

\* So can a row after any of the assignments of an UPDATE.
LEMMA UpdatedIsFit ==
    ASSUME LoadableSchema, QuietUpdates, NEW row, Fit(row),
           NEW updates \in UpdateRows, NEW written \in SUBSET DOMAIN updates
    PROVE  Fit(Assign(row, [c \in written |-> updates[c]]))
<1> DEFINE r == Assign(row, [c \in written |-> updates[c]])
<1>1. IsRow(updates) /\ FromPlanner(updates) /\ DOMAIN updates \cap Indexed = {}
  BY WorkloadAssumption DEF QuietUpdates
<1>2. /\ DOMAIN r = DOMAIN row \cup written
      /\ \A c \in DOMAIN r : r[c] = IF c \in written THEN updates[c] ELSE row[c]
  BY DEF Assign
<1> HIDE DEF r
<1>3. ASSUME NEW c \in DOMAIN r \cap Column
      PROVE  LoadedValue(c, r[c]).go = LoadedGo(ColumnType[c]) /\ ColumnType[c] # "TIME"
  <2>1. CASE c \in written
    <3>1. updates[c] \in Value /\ updates[c].go \in LiteralGo(ColumnType[c])
      BY <1>1, <2>1 DEF IsRow, FromPlanner
    <3> QED
      BY <1>2, <2>1, <3>1, PlannedIsAccepted DEF LoadableSchema
  <2>2. CASE c \notin written
    BY <1>2, <2>2 DEF Fit, LoaderAccepts
  <2> QED
    BY <2>1, <2>2
<1>4. ASSUME NEW c \in Indexed \cap DOMAIN r
      PROVE  LoadedValue(c, r[c]) = r[c]
  BY <1>1, <1>2 DEF Fit
<1>5. NotNull \subseteq DOMAIN r
  BY <1>2 DEF Fit, LoaderAccepts
<1> QED
  BY <1>3, <1>4, <1>5 DEF Fit, LoaderAccepts, r

\* Rows that can be loaded are loaded, and can be loaded once more.
LEMMA ReadableIsRead ==
    ASSUME NEW rows, Readable(rows)
    PROVE  Reads(rows) /\ Readable(LoadedRows(rows))
<1>1. \A c, v : LoadedValue(c, LoadedValue(c, v)) = LoadedValue(c, v)
  BY DEF LoadedValue, IsNumber
<1>2. ASSUME NEW i \in DOMAIN rows
      PROVE  Fit(LoadedRows(rows)[i])
  <2>1. Fit(rows[i]) /\ LoadedRows(rows)[i] = LoadedRow(rows[i])
    BY DEF Readable, LoadedRows
  <2>2. /\ DOMAIN LoadedRow(rows[i]) = DOMAIN rows[i]
        /\ \A c \in DOMAIN rows[i] : LoadedRow(rows[i])[c] = LoadedValue(c, rows[i][c])
    BY DEF LoadedRow
  <2>3. Fit(LoadedRow(rows[i]))
    BY <1>1, <2>1, <2>2 DEF Fit, LoaderAccepts
  <2> QED
    BY <2>1, <2>3
<1>3. ASSUME NEW i \in DOMAIN rows, NEW c \in Indexed
      PROVE  /\ DOMAIN LoadedRows(rows)[i] = DOMAIN rows[i]
             /\ c \in DOMAIN rows[i] => LoadedRows(rows)[i][c] = rows[i][c]
  BY DEF Readable, Fit, LoadedRows, LoadedRow
<1>4. DOMAIN LoadedRows(rows) = DOMAIN rows
  BY DEF LoadedRows
<1>5. Indexable(LoadedRows(rows))
  BY <1>3, <1>4 DEF Readable, Indexable
<1> QED
  BY <1>2, <1>4, <1>5 DEF Readable, Reads, Fit

\* Statements keep the rows in memory loadable.
LEMMA ReadableStep ==
    ASSUME LoadableSchema, QuietUpdates, TypeOK, IndexExact, Readable(Rows), [Next]_vars
    PROVE  IndexExact' /\ Readable(Rows')
<1>1. IndexExact'
  BY IndexStep, QuietIsNotMixed
<1>2. Indexable(Rows')
  BY UniqueStep DEF Readable, UniqueHolds
<1>3. ASSUME NEW row \in InsertRows, InsertRow(row)
      PROVE  \A i \in DOMAIN Rows' : Fit(Rows'[i])
  <2>1. Rows' = Append(Rows, Completed(row)) /\ Valid(Completed(row))
    BY <1>3 DEF InsertRow
  <2>2. Fit(Completed(row))
    BY <2>1, InsertedIsFit DEF TypeOK
  <2>3. /\ DOMAIN Rows' = DOMAIN Rows \cup {Len(Rows) + 1}
        /\ Rows'[Len(Rows) + 1] = Completed(row)
        /\ \A i \in DOMAIN Rows : Rows'[i] = Rows[i]
    BY <2>1 DEF TypeOK
  <2> QED
    BY <2>2, <2>3 DEF Readable
<1>4. ASSUME NEW match, NEW updates \in UpdateRows, Update(match, updates)
      PROVE  \A i \in DOMAIN Rows' : Fit(Rows'[i])
  <2>1. updates = [c \in DOMAIN updates |-> updates[c]]
    BY WorkloadAssumption DEF IsRow
  <2>2. ASSUME NEW i \in DOMAIN Rows
        PROVE  Fit(Assign(Rows[i], updates))
    BY <2>1, UpdatedIsFit DEF Readable
  <2> QED
    BY <1>4, <2>2 DEF Update, Readable
<1>5. ASSUME NEW match, NEW updates \in UpdateRows, UpdateUnknown(match, updates)
      PROVE  \A i \in DOMAIN Rows' : Fit(Rows'[i])
  <2>1. CASE UNCHANGED Rows
    BY <2>1 DEF Readable
  <2>2. ASSUME NEW first \in DOMAIN Rows,
               NEW written \in SUBSET (DOMAIN updates \cap Column),
               Rows' = [i \in DOMAIN Rows |->
                          IF i = first
                          THEN Assign(Rows[i], [c \in written |-> updates[c]])
                          ELSE Rows[i]]
        PROVE  \A i \in DOMAIN Rows' : Fit(Rows'[i])
    <3>1. Fit(Assign(Rows[first], [c \in written |-> updates[c]]))
      BY UpdatedIsFit DEF Readable
    <3> QED
      BY <2>2, <3>1 DEF Readable
  <2> QED
    BY <1>5, <2>1, <2>2 DEF UpdateUnknown
<1>6. ASSUME NEW match, Delete(match)
      PROVE  \A i \in DOMAIN Rows' : Fit(Rows'[i])
  <2>1. ASSUME Filtered(match)
        PROVE  \A i \in DOMAIN Rows' : Fit(Rows'[i])
    <3>1. PICK n \in 0 .. Len(Rows) : \E kept_ \in [1 .. n -> DOMAIN Rows] :
            Rows' = [i \in 1 .. n |-> Rows[kept_[i]]]
      BY <2>1 DEF Filtered
    <3> QED
      BY <3>1 DEF Readable
  <2> QED
    BY <1>6, <2>1 DEF Delete, Readable
<1>7. ASSUME UNCHANGED Rows
      PROVE  \A i \in DOMAIN Rows' : Fit(Rows'[i])
  BY <1>7 DEF Readable
<1> QED
  BY <1>1, <1>2, <1>3, <1>4, <1>5, <1>6, <1>7 DEF Next, InsertFails, vars, Readable

LEMMA ReadableInit == SequencedSeed /\ StorageInit => ReadableInv
<1> SUFFICES ASSUME SequencedSeed, StorageInit PROVE ReadableInv
  OBVIOUS
<1>1. Init /\ file.data[1] = SeedRows /\ process = "up"
  BY DEF StorageInit
<1>2. \A i \in DOMAIN SeedRows : LoaderAccepts(SeedRows[i]) /\ LoadedRow(SeedRows[i]) = SeedRows[i]
  BY WorkloadAssumption DEF Loadable
<1>3. \A i \in DOMAIN SeedRows : Fit(SeedRows[i])
  BY <1>2 DEF Fit, LoadedRow
<1>4. Readable(SeedRows)
  BY <1>3, WorkloadAssumption DEF Loadable, Readable
<1> QED
  BY <1>1, <1>4, StorageInvInit, IndexInit DEF ReadableInv, Init

LEMMA ReadableInvStep ==
    ASSUME SequencedSeed, QuietUpdates, LoadableSchema, ReadableInv,
           [StorageNext]_storageVars
    PROVE  ReadableInv'
<1> USE DEF ReadableInv
<1>1. StorageInv'
  BY StorageInvStep
<1>2. ASSUME UNCHANGED vars
      PROVE  IndexExact' /\ Readable(Rows')
  BY <1>2 DEF IndexExact, vars
<1>3. CASE Statement
  <2>1. IndexExact' /\ Readable(Rows')
    BY <1>3, ReadableStep DEF Statement, StorageInv, MemoryInv
  <2> QED
    BY <1>1, <1>3, <2>1 DEF Statement, files
<1>4. CASE FlushCheck \/ SaveBegin \/ Truncate \/ Fill \/ SaveFails
  BY <1>1, <1>2, <1>4
  DEF FlushCheck, SaveBegin, Truncate, Fill, SaveFails, files, observed
<1>5. CASE FlushClear
  BY <1>1, <1>5 DEF FlushClear, files, IndexExact
<1>6. CASE RenameFile
  <2>1. /\ UNCHANGED <<vars, process>> /\ nth \in {1, 2}
        /\ tmp[current] = <<bytes[current]>> /\ bytes = Marshalled
        /\ DOMAIN file = Kind
    BY <1>6 DEF RenameFile, StorageInv, SaveInv, DiskInv, ReadLocked
  <2>2. file'.data[1] \in {file.data[1], Rows}
    <3>1. CASE nth = 1
      BY <1>6, <2>1, <3>1, FileNames DEF RenameFile, Renamed, Kind
    <3>2. CASE nth = 2
      BY <1>6, <2>1, <3>2, FileNames DEF RenameFile, Renamed, Kind, Marshalled
    <3> QED
      BY <2>1, <3>1, <3>2
  <2>3. Readable(file'.data[1])
    BY <2>2
  <2> QED
    BY <1>1, <1>2, <2>1, <2>3
<1>7. CASE Crash
  <2>1. Rows' = <<>> /\ Indexes' = Rebuilt(Rows') /\ process' = "down" /\ UNCHANGED file
    BY <1>7 DEF Crash
  <2>2. IndexExact' /\ Readable(Rows')
    BY <2>1, RebuiltExact DEF IndexExact, Readable, Indexable
  <2> QED
    BY <1>1, <2>1, <2>2
<1>8. CASE Load
  <2> DEFINE rows == file.data[1]
  <2>1. Reads(rows) /\ Readable(LoadedRows(rows))
    BY ReadableIsRead
  <2>2. file.meta # <<>> /\ file.data # <<>>
    BY DEF StorageInv, DiskInv
  <2>3. /\ Rows' = LoadedRows(rows) /\ process' = "up"
        /\ Indexes' = Rebuilt(Rows') /\ UNCHANGED file
    BY <1>8, <2>1, <2>2 DEF Load, files
  <2>4. IndexExact'
    BY <2>3, RebuiltExact DEF IndexExact
  <2> QED
    BY <1>1, <2>1, <2>3, <2>4
<1>9. CASE UNCHANGED storageVars
  BY <1>1, <1>2, <1>9 DEF storageVars, files
<1> QED
  BY <1>3, <1>4, <1>5, <1>6, <1>7, <1>8, <1>9 DEF StorageNext

\* The loader refuses nothing that statements and saves can leave on disk, after
\* any crash and any failed save: what INSERT and UPDATE accept it accepts too,
\* and values that the unique indexes told apart stay apart when they are read
\* back.  Both hypotheses on the schema are needed.
THEOREM TableCanBeLoaded ==
    SequencedSeed /\ QuietUpdates /\ LoadableSchema => (StorageSpec => []NeverRefused)
<1> SUFFICES ASSUME SequencedSeed, QuietUpdates, LoadableSchema
             PROVE  StorageSpec => []NeverRefused
  OBVIOUS
<1>1. StorageInit => ReadableInv
  BY ReadableInit
<1>2. ReadableInv /\ [StorageNext]_storageVars => ReadableInv'
  BY ReadableInvStep
<1>3. ReadableInv => NeverRefused
  BY DEF ReadableInv, NeverRefused
<1> QED
  BY <1>1, <1>2, <1>3, PTL DEF StorageSpec

=============================================================================
