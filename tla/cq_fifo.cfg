SPECIFICATION Spec
CONSTANTS
    Vals = {v1, v2}
    Size = 4
    Wrap = 8
INVARIANTS
    LenHonest
    SlotsDisjoint
PROPERTIES
    ImplementsFifo
