SPECIFICATION FairSpec
CONSTANTS
  Aliases <- MCAliases
  Depths = {0, 1}
INVARIANTS
  PanelAccounted
PROPERTIES
  FusionEnds
