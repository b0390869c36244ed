\* Four samples for degree 64 are added up, its fields have 7 bits.
SPECIFICATION KeysSpec
CONSTANTS
    N = 8
    LogNs = {6, 7}
    SmallPolys <- Degree64Polys
    FileKeys = {}
    AccWidth = 20
INVARIANT KeyGenCannotFail
CHECK_DEADLOCK FALSE
