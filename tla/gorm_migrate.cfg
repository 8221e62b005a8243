SPECIFICATION Spec
CHECK_DEADLOCK FALSE
CONSTANTS
    AppTable <- Tables
    Batch = {1, 2, 3}
    Configs <- Migrated
    MaxStatements = 3
    MaxDepth = 6
INVARIANT MigratedStoreWorks
