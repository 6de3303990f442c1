CONSTANTS
    ColumnName <- MCColumnName
    Column <- MCColumn
    ColumnType <- MCTimeType
    PrimaryKey = "id"
    AutoIncrement = TRUE
    Unique <- MCUnique
    NotNull <- MCNotNull
    MaxInt64 = 7
    SeedRows <- MCSeedRows
    SeedLastID = 1
    InsertRows <- MCTimeInserts
    UpdateRows <- MCTimeUpdates
    MaxRows = 2
    MaxID = 3
    MaxFaults = 1
SPECIFICATION StorageSpec
INVARIANT NeverRefused
