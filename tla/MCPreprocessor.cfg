SPECIFICATION MCSpec
CONSTANTS
  Token <- MCToken
  Parameter = "x"
  DepthLimit = 2
  expand_line <- ExpandLine
INVARIANTS
  CacheIsCoherent
  PositionsAgree
  ExpansionFollowsHideSets
PROPERTIES
  OneBranchPerGroup
  GuardSkipIsSilent
  IncludeNextAdvances
CHECK_DEADLOCK FALSE
