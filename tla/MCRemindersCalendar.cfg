SPECIFICATION FairSpec
CONSTANTS
    t1 = t1  t2 = t2  u1 = u1  u2 = u2  i1 = i1  i2 = i2
    Tasks = {t1}
    Users = {u1}
    Instances = {i1, i2}
    DueHours = {72, 73, 78, 84, 90, 95}
    LastHour = 114
    MaxEdits = 0
    MaxFaults = 0
CHECK_DEADLOCK FALSE
INVARIANTS
    CalendarDayIsCaught
PROPERTIES
    QueuedIsSent
