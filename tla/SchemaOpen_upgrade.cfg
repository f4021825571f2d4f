SPECIFICATION OpenSpec
CONSTANTS
    Openers = {o1, o2}
    Schema <- MCSchema
    Migrations <- MCMigrations
    Overlap = TRUE
INVARIANTS MigrationsMatchVersion
