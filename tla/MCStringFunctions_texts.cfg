\* Texts of up to three units, in memory that holds zeros or anything else.
CONSTANTS
    Texts <- MCTexts
    Junk = 1
    JunkDigits = {0, 15}
SPECIFICATION Spec
INVARIANTS
    StaysInBlock
    DecodedExactly
CHECK_DEADLOCK FALSE
