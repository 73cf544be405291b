CONSTANTS
  Callers = {t1, t2, t3}
  PoolSize = 2
  WarmIdle = 4
  Statements = 3
  Rejects = TRUE
  MaxChanges = 3
  MaxRestarts = 2
SYMMETRY Symmetry
SPECIFICATION TenantSpec
INVARIANTS
  PoolWithinSize
  ServerHasSchema
  SchemaInOneStore
CHECK_DEADLOCK FALSE
