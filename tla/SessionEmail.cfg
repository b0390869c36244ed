SPECIFICATION Spec
CONSTANTS
  Clients = {"alice", "bob"}
  Bearers = {}
  Ops <- SessionAndOperator
  Ids = {i1}
  BadId = BadId
  NoId = NoId
  Emails = {e1}
  NoEmail = NoEmail
  RequestEmails = {e1, NoEmail}
  BenchmarkEmails = {}
  NoPassword = NoPassword
  Duration = 1
  MaxClock = 0
  MaxLag = 0
  MaxLead = 0
  NoUser = NoUser
  NoToken = NoToken
INVARIANTS EmailRequired
