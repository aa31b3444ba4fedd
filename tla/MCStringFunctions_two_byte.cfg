\* The same texts, codes of two bytes among them.
CONSTANTS
    Texts <- MCTexts
    Junk = 1
    JunkDigits = {0, 15}
SPECIFICATION Spec
INVARIANTS
    TwoByteCodesDecoded
CHECK_DEADLOCK FALSE
