\* Two lists, two items, two calls at a time.
SPECIFICATION Spec
CONSTANTS
  List = {a, b}
  Item = {milk, eggs}
  Value = {1, 2}
  Call = {c1, c2}
  NoList = NoList
  NoItem = NoItem
  Unborn = Unborn
  Gone = Gone
  Waiting = Waiting
  Failed = Failed
SYMMETRY Symmetry
INVARIANTS
  TypeOK
  ShownIsCurrent
  
  SavesWhatWasFilled
