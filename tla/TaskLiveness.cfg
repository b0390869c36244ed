SPECIFICATION MCSpec
CONSTANTS
  Clients = {c1, c2}
  Users = {u1}
  BadUser = BadUser
  TaskIds = {t1}
  BadId = BadId
  TextColumns = {title}
  DueColumn = due
  Values = {0, 1}
  Zero = 0
  Absent = 99
  Payloads <- OnePayload
  NoTask = NoTask
  Nobody = Nobody
  MaxOpenConns = 2
PROPERTIES EveryCallReturns
