SPECIFICATION MCSpec
CONSTANTS
  Clients = {"alice", "bob", "carol"}
  Bearers = {"carol"}
  Ops <- SessionOps
  Ids = {i1, i2}
  BadId = BadId
  NoId = NoId
  Emails = {e1, e2}
  NoEmail = NoEmail
  RequestEmails = {e1, e2}
  BenchmarkEmails = {e1, e2}
  NoPassword = NoPassword
  Duration = 1
  MaxClock = 1
  MaxLag = 0
  MaxLead = 1
  NoUser = NoUser
  NoToken = NoToken
SYMMETRY Symmetry
INVARIANTS UniqueEmails OwnIdentity AccessTokenIsFinal
PROPERTIES NoTokensAfterDelete RefusedOnlyIfExpired
