CONSTANTS
    h1 = h1  h2 = h2  h3 = h3
    SLAB_MAX = 8
    SLAB_UNIT_SIZE = 8
    MaxNum <- CreateNums
    Handles <- ThreeHandles
    Sizes <- LargeSizes
SPECIFICATION Spec
SYMMETRY Symmetric
INVARIANTS TypeOK UnitsPartitioned UsedMatchesLive OneOwner KeepsData LayoutOK
CHECK_DEADLOCK FALSE
