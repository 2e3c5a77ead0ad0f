SPECIFICATION Spec
CONSTANTS
    founder = founder  staff = staff  guest = guest  s1 = s1  s2 = s2
    red = red  Red = Red  blue = blue
    Users = {founder, staff, guest}
    Founder = founder
    Staff = {staff}
    Slots = {s1, s2}
    Names = {red, Red, blue}
    Fold <- Lower
    TagLists <- FewLists
    InviteRoles <- FewRoles
    NewRoles = {"MEMBER"}
    NoProject = NoProject
    NoSeat = NoSeat
    MaxProjects = 3
    MaxBoard = 6
    MaxRequests = 3
CHECK_DEADLOCK FALSE
SYMMETRY Sym
INVARIANTS
    TypeOK
    NumbersAreDense
    OwnerAdministers
    ViewsAgreeButForGuests
    OrdersHaveNoGaps
