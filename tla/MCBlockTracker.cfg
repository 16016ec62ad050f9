SPECIFICATION Spec
CONSTANTS
  Block <- ForkBlock
  Genesis <- MCGenesis
  Null <- MCNull
  Parent <- ForkParent
  Slot <- ForkSlot
  Epoch <- ForkEpoch
  Terminal <- ForkTerminal
  Ancestors <- ForkAncestors
  ReorgLimit = 3
INVARIANTS TipsAreLeaves TipUpdateIsPath
PROPERTIES FinalizeKeepsDescendants
