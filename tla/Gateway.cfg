\* The benchmark has two signatures or two pairs, any of which may fail, meet a
\* collection, or ticks of the CPU, while the monitor runs up to twice.
SPECIFICATION MCSpec
CONSTANTS
    Clients = {c1, c2}
    u1 = u1
    u2 = u2
    Users = {u1, u2}
    TaskIds = {t1}
    BadId = BadId
    Columns <- MCColumns
    Values <- MCValues
    Zero = ""
    Absent = Absent
    Bodies <- MCBodies
    BadBody = BadBody
    NoTask = NoTask
    Nobody = Nobody
    NoToken = NoToken
    Tokens <- MCTokens
    Requests <- MCRequests
    MaxClock = 1
    Iterations = 2
    MaxWall = 2
    MaxGC = 1
INVARIANTS
    OnlyOwnRowsShown
    StatusTellsTruth
    MeasurementsAccounted
    StatsInOrder
PROPERTIES
    OnlyOwnersWrite
SYMMETRY MCSymmetry
VIEW MCView
