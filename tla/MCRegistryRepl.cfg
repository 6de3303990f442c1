\* The REPL, which saves when it ends; no errors, no crashes.
CONSTANTS
    shop = shop
    depot = depot
    first = first
    second = second
    items = items
    orders = orders
    Name <- MCName
    Session <- MCRepl
    Table <- MCTables
    Main = shop
    SeedTable <- MCTables
    Server = FALSE
    MaxBorn = 3
    MaxLoads = 2
    MaxWrites = 2
    MaxFaults = 0
SPECIFICATION FairSpec
INVARIANT AckedReachable
PROPERTIES
    CatalogKept
    SavedAtExit
CHECK_DEADLOCK FALSE
