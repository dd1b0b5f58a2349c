CONSTANTS
    Writers = {w1, w2}
    Num = 2
    Size = 5
    MaxLen = 2
    Wrap = 4
    Credit = 3
    PacedNum = 4
    PacedSize = 2
    PacedWrap = 8
SPECIFICATION Spec
INVARIANTS TypeOK HeldOnce CleanGoesThrough NoBugOn
PROPERTIES ChannelSpec
VIEW View
SYMMETRY Symmetry
CHECK_DEADLOCK FALSE
