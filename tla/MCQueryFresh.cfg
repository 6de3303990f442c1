\* The REPL: a LEFT JOIN after an INSERT.
CONSTANTS
    TableName <- MCTableName
    Schema <- MCSchema
    PrimaryKey = "id"
    SeedHeap <- MCSeedHeap
    SeedTables <- MCSeedTables
    InsertCells <- MCFreshCells
    UpdateCells <- NoRows
    Condition <- MCCondition
    Queries <- MCLeftJoin
    Server = FALSE
    MaxRows = 8
    MaxWrites = 1
SPECIFICATION Spec
INVARIANT AnswerExact
