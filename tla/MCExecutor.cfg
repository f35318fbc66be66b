SPECIFICATION QuerySpec
CONSTANTS
  Roots <- MCRoots
  Level <- MCLevel
  Names <- MCNames
  Types <- MCTypes
  Cases <- MCCases
  Limits <- MCLimits
INVARIANTS
  TypeOK
  SnapshotComplete
  EveryNodeIsRelated
  TreeIsExact
  UseWithinProvider
  PartitionIsExact
  OneEdgePerReference
  EdgesComplete
  NearestContainer
  RelationshipScope
  FiltersHold
  EmptyIsExplained
  GraphIsClosed
PROPERTIES
  OnlyShrinks
  Terminates
