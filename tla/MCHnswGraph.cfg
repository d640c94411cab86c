SPECIFICATION Spec
CONSTANTS
  Points <- MCPoints
  M = 2
  EfConstruction = 3
  Assignments <- MCAssignments
  MaxDeleted = 2
INVARIANTS LinksWithinBounds EntryOnTop  LayersRoundTrip
