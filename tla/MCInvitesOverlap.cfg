SPECIFICATION Spec
CONSTANTS
    u1 = u1  u2 = u2  u3 = u3  o1 = o1  o2 = o2  p1 = p1  s1 = s1  s2 = s2
    Users = {u1, u2, u3}
    Orgs = {o1}
    Projects = {p1}
    ProjectOrg <- OneProject
    Slots = {s1, s2}
    NoUser = NoUser
    NoProject = NoProject
    NoRow = NoRow
    MaxRows = 3
    MaxTokens = 2
    InviteRoles = {"ADMIN"}
    AddRoles = {"MEMBER"}
    NewRoles = {}
SYMMETRY Sym
CHECK_DEADLOCK FALSE
INVARIANTS
    LinkMatchesAddress
    ProjectMembersAreAdmitted
    AccessWasOffered
PROPERTIES
    AccessIsNeverLost
    KeepsPromise
