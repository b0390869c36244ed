SPECIFICATION Spec
CONSTANTS
  Clients = {c1, c2}
  Users = {u1, u2}
  BadUser = BadUser
  TaskIds = {t1, t2}
  BadId = BadId
  TextColumns = {title}
  DueColumn = due
  Values = {0, 1}
  Zero = 0
  Absent = 99
  Payloads <- TwoPayloads
  NoTask = NoTask
  Nobody = Nobody
  MaxOpenConns = 2
SYMMETRY Symmetry
INVARIANTS TypeOK ResourcesAccounted AckedDeleteGone
PROPERTIES NoResurrection EmptyTextKept ImplementsTable
