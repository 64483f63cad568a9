SPECIFICATION Spec
INVARIANTS
  MigrationsReverse
  RolesKeepApart
  ChoiceKept
  SchemaKeepsUp
  UnwiredHasCause
PROPERTIES
  OutageEnds
CONSTANTS
  Commits = {1, 2, 3}
  Heads <- MCHeads
  Targets <- MCTargets
  MaxDowngrades = 1
  None = None
CHECK_DEADLOCK FALSE
