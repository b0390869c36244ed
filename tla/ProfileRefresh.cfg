SPECIFICATION Spec
CONSTANTS
  Profiles <- MCProfiles
  FnDsa <- MCFnDsa
  Precomputed <- MCPrecomputed
  Canonical = "FN-DSA-512"
  Unsupported = "none"
  Empty = ""
  NoSession = NoSession
INVARIANTS LoadedProfileMeasured
