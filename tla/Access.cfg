SPECIFICATION AccessSpec
CONSTANTS
    R1 = R1
    P1 = P1
    NoUnit = NoUnit
    NoPerson = NoPerson
    Root = Root
    User = User
    Second = Second
    Admin = Admin
    Common = Common
    Manage = Manage
    Late = Late
    Units <- MCRooms
    Rooms <- MCRooms
    Persons <- MCPersons
    PersonTypes = {"duty_operator"}
    Codes = {}
    Day = 1
    Starts = {}
    Ends = {}
    DefaultHours <- MCDefaults
    Accounts <- MCAccounts
    Superusers <- MCSuperusers
    FirstSuperuser = Root
    Managed <- MCManaged
    Roles <- MCRoles
    AdminRole = Admin
    Permissions <- MCPermissions
    BasePermissions <- MCBase
    BuiltinRoles <- MCRoles
    BaseRoles <- MCBaseRoles
    Template <- MCTemplate
    AccountPermission = Manage
    UnitPermission = Manage
    PersonPermission = Manage
    ShiftPermission = Manage
    RoleSets <- MCRoleSets
    Grants <- MCGrants
INVARIANT ProfileMatchesServer
PROPERTIES SeedingGrantsNothing SuperusersNeedPeers
CHECK_DEADLOCK FALSE
