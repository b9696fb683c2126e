SPECIFICATION MCSpec
CONSTANTS
  Objects = {table, column}
  Reversible = {table, column}
  IfExists = {table}
  Slugs = {1, 2}
  Migrators = {p1, p2}
  Dialects = {"transactional", "autocommit"}
  MaxTime = 2
  MaxFiles = 2
  NoProcess = nobody
  SQLDialects = {"sqlite", "mysql", "postgres"}
  Collections <- MCCollections
  SchemaBefore <- MCSchemaBefore
  Setups <- MCSetups
  SettingDefaults <- MCDefaults
  DriverPackages <- MCPackages
  Numerals = {"8080", "80", "443"}
SYMMETRY Symmetry
INVARIANTS MCTypeOK SchemaMatchesRecords OpenedIsConfigured
PROPERTIES MigrationsAreFaithful SuccessMeansReached
