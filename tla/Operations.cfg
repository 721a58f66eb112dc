SPECIFICATION Spec
CONSTANTS
  c1 = c1
  Records = {c1}
  MaxCommands = 3
  MaxReleases = 3
  SchemaOf <- MCSchemaOf
  KeepRetired = 1
  KeepHourly = 1
  MaxKills = 1
INVARIANTS TypeOK PointerStands SchemaFits NothingLost
CHECK_DEADLOCK FALSE
