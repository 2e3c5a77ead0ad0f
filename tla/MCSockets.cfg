SPECIFICATION Spec
CONSTANTS
    ann = ann  bob = bob  i1 = i1  i2 = i2  k1 = k1  k2 = k2  k3 = k3
    Users = {ann, bob}
    Instances = {i1, i2}
    Connections = {k1, k2, k3}
    Slots = {s1}
    Clients <- FewClients
    Audiences <- FewAudiences
    NoRow = NoRow
    NoInstance = NoInstance
    MaxNotices = 2
CHECK_DEADLOCK FALSE
INVARIANTS
    TypeOK
    
    OnlyAddressed
    DeviceIsUpToDate
PROPERTIES
    StoredIsShown
