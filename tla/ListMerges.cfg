\* Three origins edit one item and merge, every tag its own microsecond.
CONSTANTS
  Origin = {o1, o2, o3}
  Word = 4
  ItemName = {bread}
  Quantity = {0, 1}
  Body <- AnyBody
  NoItem = NoItem
  ItemUid = {i1}
  ListName = {unnamed}
  EmptyName = unnamed
  NoList = NoList
  MaxClock = 3
  SameMicrosecond = FALSE
SPECIFICATION Spec
SYMMETRY OriginSymmetry
INVARIANTS
  TypeOK
  MergeIsJoin
  WellFormed
  OwnerAhead
  UpdateTakesEffect
  OneOriginStaysNatural
PROPERTIES
  ImplementsObservedRemoveSet
