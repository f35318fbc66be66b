SPECIFICATION QuerySpec
CONSTANTS
  Roots <- MCRoots
  Level <- MCLevel
  Names <- MCNames
  Types <- MCTypes
  Cases <- MCUnionCases
  Limits <- MCLimits
INVARIANT SelectorsUnite
