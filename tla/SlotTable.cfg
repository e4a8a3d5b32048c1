CONSTANTS
  Ids = {1, 2, 3, 4}
  Tags = {1, 2}
  NoTag = NoTag
  MaxSlots = 4
SPECIFICATION Spec
INVARIANT TableInv
INVARIANT FreeListComplete
INVARIANT LayoutIsLive
INVARIANT IndexesMatch
INVARIANT ReopenSame
PROPERTY ImplementsStore
