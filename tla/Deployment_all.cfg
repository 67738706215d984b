SPECIFICATION FairSpec
CONSTANTS
    Migrators = {m1, m2}
    Handlers = {h1}
    Migrations = 2
    None = None
INVARIANTS
    TypeOK
    CollideOnlyAfterLoss
    ServesMigratedSchema
PROPERTIES
    StopsOnSignal
    KeepsPruning
