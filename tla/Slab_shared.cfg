CONSTANTS
    h1 = h1  h2 = h2  h3 = h3
    SLAB_MAX = 8
    SLAB_UNIT_SIZE = 8
    MaxNum <- CreateNums
    Handles <- TwoHandles
    Sizes <- LargeSizes
SPECIFICATION Spec
INVARIANT NothingShared
CHECK_DEADLOCK FALSE
