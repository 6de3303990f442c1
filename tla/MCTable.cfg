CONSTANTS
    ColumnName <- MCColumnName
    Column <- MCColumn
    ColumnType <- MCColumnType
    PrimaryKey = "id"
    AutoIncrement = TRUE
    Unique <- MCUnique
    NotNull <- MCNotNull
    MaxInt64 = 7
    SeedRows <- MCSeedRows
    SeedLastID = 1
    InsertRows <- MCInsertRows
    UpdateRows <- MCUpdateRows
    MaxRows = 3
    MaxID = 4
SPECIFICATION Spec
INVARIANTS
    TypeOK
    IndexExact
    UniqueHolds
    IdsOrdered
    LookupFindsRow
 
