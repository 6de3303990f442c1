CONSTANTS
    ColumnName <- MCColumnName
    Column <- MCColumn
    ColumnType <- MCColumnType
    PrimaryKey = "id"
    AutoIncrement = TRUE
    Unique <- MCUnique
    NotNull <- MCNotNull
    MaxInt64 = 7
    SeedRows <- MCSeedRows
    SeedLastID = 1
    InsertRows <- MCInsertRows
    UpdateRows <- MCUniqueUpdates
    MaxRows = 3
    MaxID = 5
SPECIFICATION Spec
INVARIANT UniqueHolds
