CONSTANTS
    ColumnName <- MCColumnName
    Column <- MCColumn
    ColumnType <- MCColumnType
    PrimaryKey = "id"
    AutoIncrement = TRUE
    Unique <- MCUnique
    NotNull <- MCNotNull
    MaxInt64 = 7
    SeedRows <- MCSeedRows
    SeedLastID = 1
    InsertRows <- MCInsertRows
    UpdateRows <- MCUpdateRows
    MaxRows = 2
    MaxID = 3
    MaxFaults = 2
SPECIFICATION StorageSpec
INVARIANTS
    StorageTypeOK
    DiskSequenceAhead
    SavedSurvives
    CleanIsSaved
    NeverRefused
PROPERTY NeverReissued
