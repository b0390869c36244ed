SPECIFICATION MCSpec
CONSTANTS
  Profiles <- MCProfiles
  FnDsa <- MCFnDsa
  Precomputed <- MCPrecomputed
  Canonical = "FN-DSA-512"
  Unsupported = "none"
  Empty = ""
  NoSession = NoSession
  Files <- MCFiles
  KeyIds = {"k1", "k2"}
  Texts = {"claims", "other"}
  Linked = {"256", "384", "512"}
  Inputs <- MCInputs
  Registered = {"A", "B", "none"}
  Now = 9
  Precision = 2
  FarPast <- MCFarPast
  FarFuture = 1000
  Callers = {a, b}
  Procs = 2
  MaxClock = 2
INVARIANTS RefreshFindsSigner RefusedOnlyIfNotLoaded
           AcceptedIsSigned MethodsFitKeys JudgedIsAuthentic ClaimsJudged
           ReportIsOneInterval ReportsAddUp
CHECK_DEADLOCK FALSE
