SPECIFICATION Spec
CONSTANTS
    Requests = {r1, r2, r3}
    MaxSignIns = 2
    MaxPairs = 3
SYMMETRY RequestSymmetry
CHECK_DEADLOCK FALSE
INVARIANTS TypeOK RowIsUsable
PROPERTIES SignedOutForGood
