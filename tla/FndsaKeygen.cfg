\* FndsaFixed with words of 6 bits, all of them.
SPECIFICATION MCSpec
CONSTANTS
    BufLen = 5
    Widths <- MCWidths
    MaxStream = 30
    W = 7
    LogMax = 2
    logn = 1
    Primes <- MCPrimes
    TopPolys <- MCTopPolys
    Targets <- MCTargets
    Quotients <- MCQuotients
    Scales = {0, 1, 4, 6, 7, 8, 9, 11, 13, 14, 15}
    N = 8
    LogNs = {4, 5, 6, 7, 8, 9, 10}
    SmallPolys <- KeyPolys
    FileKeys <- KeyFiles
    AccWidth = 20
    H = 3
    Imaginary = {0, 7, 13, 50}
INVARIANTS
    StreamInOrder IntegersExact KeysRoundTrip SolutionsExact BezoutCorrect
    BuffersHold FloatsRounded FixedRounded
PROPERTY Terminates
CHECK_DEADLOCK FALSE
