\* Two sessions of the server; one error or crash.
CONSTANTS
    shop = shop
    depot = depot
    first = first
    second = second
    items = items
    orders = orders
    Name <- MCName
    Session <- MCSession
    Table <- MCTable
    Main = shop
    SeedTable <- MCTable
    Server = TRUE
    MaxBorn = 3
    MaxLoads = 2
    MaxWrites = 2
    MaxFaults = 1
SYMMETRY Symmetry
SPECIFICATION Spec
INVARIANTS
    TypeOK
    LoadedIsHome
    NoneLostOrDoubled
    NamesItself
PROPERTY SavedStays
CHECK_DEADLOCK FALSE
