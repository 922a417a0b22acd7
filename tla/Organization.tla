---------------------------- MODULE Organization ----------------------------
(***************************************************************************)
(* Organisation units, the persons of the rooms, and the rooms' shift      *)
(* definitions (services/auth.py, routes org_units, persons and shifts).   *)
(* A room is a unit of type "room".  Requests about persons and shifts act *)
(* in the current room of their sender, which deps.py demands to be        *)
(* enabled; who may send them is the subject of Access.                    *)
(***************************************************************************)
EXTENDS ShiftDefs

CONSTANTS Units, NoUnit, Persons,
          PersonTypes  \* duty_operator and the three types of cover staff

Statuses == {"enabled", "disabled"}

ASSUME OrganizationAssumption ==
    /\ Rooms \subseteq Units /\ NoUnit \notin Units
    /\ "duty_operator" \in PersonTypes

VARIABLES
    parent,       \* parent[u]: the unit above u, or NoUnit
    unitStatus,   \* unitStatus[u]: absent, enabled or disabled
    room,         \* room[p]: the room of person p, NoUnit before p is created
    personType,
    takesShifts,  \* participate_schedule
    personStatus

unitVars == <<parent, unitStatus>>
personVars == <<room, personType, takesShifts, personStatus>>
orgVars == <<unitVars, personVars, defVars>>

Exists(u) == unitStatus[u] # "absent"
Created(p) == room[p] # NoUnit
RoomOpen(r) == unitStatus[r] = "enabled"

Members(u) == { p \in Persons : room[p] = u }

\* Variant: only those who take shifts count as active.
HasActiveParticipants(u) == \E p \in Members(u) : personStatus[p] = "enabled" /\ takesShifts[p]

HasActivePersons(u) == \E p \in Members(u) : personStatus[p] = "enabled"
Referenced(u) == Members(u) # {} \/ \E v \in Units : Exists(v) /\ parent[v] = u

-----------------------------------------------------------------------------
CreateUnit(u, up) ==
    /\ ~Exists(u)
    /\ up # NoUnit => Exists(up)
    /\ parent' = [parent EXCEPT ![u] = up]
    /\ unitStatus' = [unitStatus EXCEPT ![u] = "enabled"]
    /\ UNCHANGED <<personVars, defVars>>

\* update_org_unit: a request without a parent keeps the old one, and only the
\* unit itself is refused as its parent.
UpdateUnit(u, up, status) ==
    /\ Exists(u)
    /\ up # NoUnit => Exists(up) /\ up # u
    /\ status = "disabled" /\ unitStatus[u] # "disabled" => ~HasActivePersons(u)
    /\ parent' = IF up = NoUnit THEN parent ELSE [parent EXCEPT ![u] = up]
    /\ unitStatus' = [unitStatus EXCEPT ![u] = status]
    /\ UNCHANGED <<personVars, defVars>>

\* The database refuses to delete a room that has shift definitions.
DeleteUnit(u) ==
    /\ Exists(u)
    /\ ~Referenced(u)
    /\ u \in Rooms => Defined(u) = {}
    /\ unitStatus' = [unitStatus EXCEPT ![u] = "absent"]
    /\ UNCHANGED <<parent, personVars, defVars>>

CreatePerson(r, p, type, takes) ==
    /\ RoomOpen(r)
    /\ ~Created(p)
    /\ takes => type = "duty_operator"
    /\ room' = [room EXCEPT ![p] = r]
    /\ personType' = [personType EXCEPT ![p] = type]
    /\ takesShifts' = [takesShifts EXCEPT ![p] = takes]
    /\ personStatus' = [personStatus EXCEPT ![p] = "enabled"]
    /\ UNCHANGED <<unitVars, defVars>>

\* Whether p participates after the request: leaving the duty operators ends it,
\* and a request that does not send "takes" keeps the rest.
Participation(p, type, sent, takes) ==
    IF sent THEN takes ELSE takesShifts[p] /\ type = "duty_operator"

UpdatePerson(r, p, type, sent, takes, status) ==
    /\ RoomOpen(r)
    /\ room[p] = r
    /\ sent /\ takes => type = "duty_operator"
    /\ personType' = [personType EXCEPT ![p] = type]
    /\ takesShifts' = [takesShifts EXCEPT ![p] = Participation(p, type, sent, takes)]
    /\ personStatus' = [personStatus EXCEPT ![p] = status]
    /\ UNCHANGED <<room, unitVars, defVars>>

ChangeShiftDefs(r) ==
    /\ RoomOpen(r)
    /\ DefStep(r)
    /\ UNCHANGED <<unitVars, personVars>>

OrgInit ==
    /\ parent = [u \in Units |-> NoUnit]
    /\ unitStatus = [u \in Units |-> "absent"]
    /\ room = [p \in Persons |-> NoUnit]
    /\ personType = [p \in Persons |-> "duty_operator"]
    /\ takesShifts = [p \in Persons |-> FALSE]
    /\ personStatus = [p \in Persons |-> "disabled"]
    /\ DefsInit

UnitStep ==
    \E u \in Units :
        \/ \E up \in Units \cup {NoUnit} :
              \/ CreateUnit(u, up)
              \/ \E status \in Statuses : UpdateUnit(u, up, status)
        \/ DeleteUnit(u)

PersonStep(r) ==
    \E p \in Persons, type \in PersonTypes, takes \in BOOLEAN :
        \/ CreatePerson(r, p, type, takes)
        \/ \E sent \in BOOLEAN, status \in Statuses : UpdatePerson(r, p, type, sent, takes, status)

OrgNext == UnitStep \/ \E r \in Rooms : PersonStep(r) \/ ChangeShiftDefs(r)

OrgSpec == OrgInit /\ [][OrgNext]_orgVars

-----------------------------------------------------------------------------
\* Units, persons and definitions have their columns' values; a person belongs
\* to a room that exists.
OrgTypeOK ==
    /\ parent \in [Units -> Units \cup {NoUnit}]
    /\ unitStatus \in [Units -> Statuses \cup {"absent"}]
    /\ room \in [Persons -> Rooms \cup {NoUnit}]
    /\ personType \in [Persons -> PersonTypes]
    /\ takesShifts \in [Persons -> BOOLEAN]
    /\ personStatus \in [Persons -> Statuses]
    /\ DefsTypeOK
    /\ \A p \in Persons : Created(p) => Exists(room[p])

\* A unit that is not enabled, or was deleted, has no enabled person, and only
\* duty operators participate, whatever the units and persons went through: the
\* rules and rosters that draw on a room's participants never meet others
\* (update_org_unit; docs/development/M2-P2-Phase验收说明.md:134).
ParticipantsWorkInOpenRooms ==
    \A p \in Persons :
        /\ Created(p) /\ personStatus[p] = "enabled" => RoomOpen(room[p])
        /\ takesShifts[p] => personType[p] = "duty_operator"
=============================================================================
