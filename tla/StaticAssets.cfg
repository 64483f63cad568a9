SPECIFICATION Spec
PROPERTIES
  StyleMatches
  PassMeansServed
  MismatchHasCause
CONSTANTS
  Apps = {library, tiles}
  Rolled = {library}
  CachedPaths = {library}
  Styles = {red, blue}
  MaxDeploys = 2
  None = None
SYMMETRY MCSymmetry
CHECK_DEADLOCK FALSE
