\* Two sessions of the server; no error, no crash.
CONSTANTS
    shop = shop
    depot = depot
    first = first
    second = second
    items = items
    orders = orders
    Name <- MCName
    Session <- MCSession
    Table <- MCTable
    Main = shop
    SeedTable <- MCTable
    Server = TRUE
    MaxBorn = 3
    MaxLoads = 2
    MaxWrites = 2
    MaxFaults = 0
SYMMETRY Symmetry
SPECIFICATION Spec
INVARIANT AckedReachable
CHECK_DEADLOCK FALSE
