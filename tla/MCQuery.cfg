\* Inserts, deletes and updates at any moment of a SELECT.
CONSTANTS
    TableName <- MCTableName
    Schema <- MCSchema
    PrimaryKey = "id"
    SeedHeap <- MCSeedHeap
    SeedTables <- MCSeedTables
    InsertCells <- MCInsertCells
    UpdateCells <- MCUpdateCells
    Condition <- MCCondition
    Queries <- MCQueries
    Server = TRUE
    MaxRows = 8
    MaxWrites = 2
SPECIFICATION Spec
INVARIANTS
    TypeOK
    AnswerExact
    GenuineCells
    WholeRows
PROPERTY SelectEnds
