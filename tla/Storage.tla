------------------------------ MODULE Storage ------------------------------
(***************************************************************************)
(* One table and its two files: writer.SaveTable, writer.FlushTableIfDirty *)
(* and loader.LoadTable followed by indexing.BuildIndexes.                 *)
(*                                                                         *)
(* SaveTable marshals the table once, then truncates, fills and renames a  *)
(* temporary file for meta.json and another for data.json, all under the   *)
(* table's read lock.  The process may die between any two of these steps  *)
(* and every one of them may return an error.                              *)
(***************************************************************************)
EXTENDS Table

CONSTANT MaxFaults  \* bound: crashes and failed saves

ASSUME FaultAssumption == MaxFaults \in Nat

VARIABLES
    process,    \* "up", "down", or "refused" when the loader returned an error
    stage,      \* what SaveTable or FlushTableIfDirty does next
    nth,        \* which of the two files it is at
    flushing,   \* whether FlushTableIfDirty called SaveTable
    bytes,      \* what SaveTable marshalled, while it runs
    tmp,        \* the temporary files: <<>> when truncated, <<x>> when x is in it
    file,       \* meta.json and data.json, likewise
    \* observation
    kept,       \* the rows last saved, and those of the saves attempted since
    onDisk,     \* the ids that data.json has ever held
    faults,     \* how many crashes and failed saves there were
    raced       \* the rows changed between the end of a flush and its FlushClear

files == <<bytes, tmp, file>>
saver == <<stage, nth, flushing>>
observed == <<kept, onDisk, faults, raced>>
storageVars == <<vars, process, saver, files, observed>>

Kind == {"meta", "data"}

\* Mutant: the rows are replaced before the sequence.
DataFirst == <<"data", "meta">>

\* The order of the files in SaveTable.
FileOrder == <<"meta", "data">>

current == FileOrder[nth]

\* What SaveTable marshals: of the metadata, what changes.
Marshalled ==
    [meta |-> [last |-> LastInsertID], data |-> Rows]

NoBytes == [meta |-> [last |-> 0], data |-> <<>>]

Ids(rows) ==
    IF AutoIncrement THEN {rows[i][PrimaryKey].n : i \in DOMAIN rows} ELSE {}

\* LoadTable: the rows as they come out of data.json.
LoadedRows(rows) == [i \in DOMAIN rows |-> LoadedRow(rows[i])]

\* LoadTable and BuildIndexes return no error.
Reads(rows) ==
    /\ \A i \in DOMAIN rows : LoaderAccepts(rows[i])
    /\ Indexable(LoadedRows(rows))

\* Mutant: the sequence is taken from the rows that are there.
LargestID ==
    IF Ids(file.data[1]) = {} THEN 0
    ELSE CHOOSE id \in Ids(file.data[1]) : \A other \in Ids(file.data[1]) : other <= id

\* LoadTable takes it from the metadata.
LoadedSequence == file.meta[1].last

-----------------------------------------------------------------------------
StorageInit ==
    /\ Init
    /\ process = "up"
    /\ stage = "idle" /\ nth = 1 /\ flushing = FALSE
    /\ file = [meta |-> <<[last |-> SeedLastID]>>,
               data |-> <<SeedRows>>]
    /\ tmp = [k \in Kind |-> <<>>]
    /\ bytes = NoBytes
    /\ kept = {SeedRows}
    /\ onDisk = Ids(SeedRows)
    /\ faults = 0
    /\ raced = FALSE

\* SaveTable holds the read lock, so no statement writes meanwhile.
ReadLocked == stage \in {"truncate", "fill", "rename"}

\* A statement on the table.
Statement ==
    /\ process = "up"
    /\ ~ReadLocked
    /\ Next
    /\ raced' = (raced \/ (stage = "flushed" /\ Rows' # Rows))
    /\ UNCHANGED <<process, saver, files, kept, onDisk, faults>>

\* FlushTableIfDirty looks at the flag under the lock, then lets go of it.
FlushCheck ==
    /\ process = "up"
    /\ stage = "idle"
    /\ Dirty
    /\ stage' = "checked"
    /\ flushing' = TRUE
    /\ UNCHANGED <<vars, process, nth, files, observed>>

\* SaveTable takes the read lock and marshals.
SaveBegin ==
    /\ process = "up"
    /\ stage \in {"idle", "checked"}
    /\ bytes' = Marshalled
    /\ kept' = kept \cup {Rows}
    /\ stage' = "truncate" /\ nth' = 1
    /\ UNCHANGED <<vars, process, flushing, tmp, file, onDisk, faults, raced>>

\* os.WriteFile opens the temporary file, truncating it ...
Truncate ==
    /\ process = "up"
    /\ stage = "truncate"
    /\ tmp' = [tmp EXCEPT ![current] = <<>>]
    /\ stage' = "fill"
    /\ UNCHANGED <<vars, process, nth, flushing, bytes, file, observed>>

\* ... and writes it.
Fill ==
    /\ process = "up"
    /\ stage = "fill"
    /\ tmp' = [tmp EXCEPT ![current] = <<bytes[current]>>]
    /\ stage' = "rename"
    /\ UNCHANGED <<vars, process, nth, flushing, bytes, file, observed>>

\* Mutant: the bytes are renamed into place before all of them are written.
RenamedEarly == [file EXCEPT ![current] = <<>>]

\* Mutant: the temporary file gets a name of its own.
RenamedAside ==
    [k \in Kind \cup {"aside"} |-> IF k = "aside" THEN tmp[current] ELSE file[k]]

Renamed == [file EXCEPT ![current] = tmp[current]]

\* os.Rename; after the second one SaveTable returns.
RenameFile ==
    /\ process = "up"
    /\ stage = "rename"
    /\ file' = Renamed
    /\ tmp' = [tmp EXCEPT ![current] = <<>>]
    /\ onDisk' = onDisk \cup
         (IF file'.data = <<>> THEN {} ELSE Ids(file'.data[1]))
    /\ IF nth = 1
       THEN /\ stage' = "truncate" /\ nth' = 2
            /\ UNCHANGED <<bytes, kept, raced>>
       ELSE /\ stage' = IF flushing THEN "flushed" ELSE "idle"
            /\ nth' = 1
            /\ bytes' = NoBytes
            /\ kept' = {bytes.data}
            /\ raced' = FALSE
    /\ UNCHANGED <<vars, process, flushing, faults>>

\* Mutant: FlushTableIfDirty does not look at the error of SaveTable.
ClearedAnyway == IF flushing THEN "flushed" ELSE "idle"

\* FlushTableIfDirty returns the error, and the flag stays up.
AfterFailure == "idle"

\* Any of the file operations returns an error, and SaveTable with it.
SaveFails ==
    /\ process = "up"
    /\ ReadLocked
    /\ faults < MaxFaults /\ faults' = faults + 1
    /\ stage' = AfterFailure /\ nth' = 1 /\ flushing' = FALSE /\ bytes' = NoBytes
    /\ UNCHANGED <<vars, process, tmp, file, kept, onDisk, raced>>

\* FlushTableIfDirty takes the write lock and clears the flag.
FlushClear ==
    /\ process = "up"
    /\ stage = "flushed"
    /\ Dirty' = FALSE
    /\ stage' = "idle" /\ flushing' = FALSE
    /\ UNCHANGED <<Rows, Indexes, LastInsertID, reply, process, nth, files, observed>>

\* The process dies: what was in memory is gone.
Crash ==
    /\ process = "up"
    /\ faults < MaxFaults /\ faults' = faults + 1
    /\ process' = "down"
    /\ Rows' = <<>> /\ Indexes' = Rebuilt(<<>>) /\ LastInsertID' = 0
    /\ Dirty' = FALSE /\ reply' = NoAnswer
    /\ stage' = "idle" /\ nth' = 1 /\ flushing' = FALSE /\ bytes' = NoBytes
    /\ UNCHANGED <<tmp, file, kept, onDisk, raced>>

\* LoadTable and BuildIndexes; when either returns an error there is no table.
Load ==
    /\ process = "down"
    /\ LET ok == /\ file.meta # <<>> /\ file.data # <<>>
                 /\ Reads(file.data[1])
       IN  /\ process' = IF ok THEN "up" ELSE "refused"
           /\ Rows' = IF ok THEN LoadedRows(file.data[1]) ELSE <<>>
           /\ Indexes' = Rebuilt(Rows')
           /\ LastInsertID' = IF ok THEN LoadedSequence ELSE 0
    /\ Dirty' = FALSE
    /\ raced' = FALSE
    /\ UNCHANGED <<reply, saver, files, kept, onDisk, faults>>

StorageNext ==
    \/ Statement
    \/ FlushCheck \/ SaveBegin \/ Truncate \/ Fill \/ RenameFile \/ SaveFails \/ FlushClear
    \/ Crash \/ Load

StorageSpec == StorageInit /\ [][StorageNext]_storageVars

-----------------------------------------------------------------------------
StorageTypeOK ==
    /\ process \in {"up", "down", "refused"}
    /\ stage \in {"idle", "checked", "truncate", "fill", "rename", "flushed"}
    /\ nth \in 1 .. 2
    /\ flushing \in BOOLEAN
    /\ DOMAIN file = Kind /\ DOMAIN tmp = Kind
    /\ faults \in 0 .. MaxFaults
    /\ raced \in BOOLEAN

\* At every instant, in the middle of a save and after any crash or error, the
\* sequence in meta.json has reached every id that data.json holds or ever
\* held: the metadata are renamed first.
DiskSequenceAhead ==
    /\ file.meta # <<>>
    /\ \A id \in onDisk : id <= file.meta[1].last

\* An id that was once on disk is never given to another row, not even when
\* its row was deleted or the process died in between.
NeverReissued ==
    [][ /\ AutoIncrement
        /\ process = "up" /\ process' = "up"
        /\ Len(Rows') > Len(Rows)
        => Rows'[Len(Rows')][PrimaryKey].n \notin onDisk ]_storageVars

\* data.json is at every instant the whole of what one save marshalled, and no
\* older than the last save that was reported to succeed.
SavedSurvives == \E rows \in kept : file.data = <<rows>>

\* A table that does not call itself dirty is what data.json would load as,
\* after any interleaving of statements, saves, flushes, failed saves, crashes
\* and loads; but not when a statement got between a flush and its FlushClear,
\* which takes the flag of the statement with it.
CleanIsSaved ==
    process = "up" /\ ~Dirty /\ ~raced =>
        LoadedRows(file.data[1]) = LoadedRows(Rows)

\* The table can be loaded again after any crash.
NeverRefused == process # "refused"

=============================================================================
