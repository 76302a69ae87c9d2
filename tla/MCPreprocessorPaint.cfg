SPECIFICATION MCSpec
CONSTANTS
  Token <- MCToken
  Parameter = "x"
  DepthLimit = 2
  expand_line <- ExpandLine
INVARIANTS
  PaintOutlivesArguments
CHECK_DEADLOCK FALSE
