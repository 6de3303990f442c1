\* SELECT * FROM users while an UPDATE is under way.
CONSTANTS
    TableName <- MCTableName
    Schema <- MCSchema
    PrimaryKey = "id"
    SeedHeap <- MCSeedHeap
    SeedTables <- MCSeedTables
    InsertCells <- NoRows
    UpdateCells <- MCUpdateCells
    Condition <- MCCondition
    Queries <- MCPlain
    Server = TRUE
    MaxRows = 8
    MaxWrites = 1
SPECIFICATION Spec
INVARIANT NoTornRow
