SPECIFICATION Spec
CONSTANTS
    u1 = u1  u2 = u2  u3 = u3  s1 = s1  s2 = s2
    todo = todo  completed = completed  other = other  another = another  foreign = foreign
    Users = {u1, u2, u3}
    Admins = {u1, u2}
    Viewers = {u3}
    Slots = {s1, s2}
    Statuses = {todo, completed, other, another}
    Seeded = {todo, completed}
    DefaultStatus = todo
    DoneStatuses = {completed}
    Foreign = {foreign}
    NoStatus = NoStatus
    NoTask = NoTask
    Callers = {u1}
    Teams <- OneTeam
    Batches <- OneBatch
    MaxTasks = 3
    MaxHistory = 3
    MaxRequests = 3
CHECK_DEADLOCK FALSE
SYMMETRY Sym
INVARIANTS
    TypeOK
    StatusIsExplained
    DefaultsAreBounded
    CompletedWasDone
PROPERTIES
    ChangeIsVerified
    RemovalIsWhole
