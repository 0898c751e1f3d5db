SPECIFICATION CastSpec
CONSTANTS
    SignedBits <- MCSignedBits
    UnsignedBits <- MCUnsignedBits
    FloatBits <- MCFloatBits
    Operands <- MCOperands
    Unsettled = TRUE
INVARIANTS
    CastsConvert
CHECK_DEADLOCK FALSE
