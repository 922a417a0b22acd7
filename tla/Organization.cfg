SPECIFICATION OrgSpec
CONSTANTS
    Station = Station
    R1 = R1
    P1 = P1
    NoUnit = NoUnit
    Early = Early
    Night = Night
    Extra = Extra
    Units <- MCUnits
    Rooms <- MCRooms
    Persons <- MCPersons
    PersonTypes = {"duty_operator", "maintenance", "room_director", "deputy_director"}
    Codes <- MCCodes
    Day = 3
    Starts = {0, 1, 2}
    Ends = {1, 3}
    DefaultHours <- MCDefaults
INVARIANTS ParticipantsWorkInOpenRooms EnabledShiftsDisjoint
CHECK_DEADLOCK FALSE
