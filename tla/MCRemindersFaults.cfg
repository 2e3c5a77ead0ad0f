SPECIFICATION Spec
CONSTANTS
    t1 = t1  t2 = t2  u1 = u1  u2 = u2  i1 = i1  i2 = i2
    Tasks = {t1}
    Users = {u1, u2}
    Instances = {i1, i2}
    DueHours = {66, 100}
    LastHour = 42
    MaxEdits = 1
    MaxFaults = 1
CHECK_DEADLOCK FALSE
SYMMETRY Sym
INVARIANTS
    TypeOK
    OncePerInstance
    SentWasTried
