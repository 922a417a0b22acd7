----------------------------- MODULE AccessProofs -----------------------------
(***************************************************************************)
(* Proofs about ShiftDefs, Organization and Access.  The overlap test of   *)
(* the code is exact, so that what Fits keeps apart is apart on the clock; *)
(* that and the state of the units are inductive together with the types.  *)
(* An account reaches the organisation only through its own requests, so   *)
(* Access implements Organization and inherits its invariants; what the    *)
(* workflows rely on (types, one account for a person) is inductive, and   *)
(* the action properties follow for one step from the types.               *)
(***************************************************************************)
EXTENDS Access, TLAPS

-----------------------------------------------------------------------------
(***************************************************************************)
(* The hours of two shifts.                                                *)
(***************************************************************************)
\* The pieces of some hours are the minutes in which they are worked.
LEMMA IntervalsAreMinutes ==
    ASSUME NEW h \in HoursType, NEW m \in 0..Day-1
    PROVE  OnDutyAt(m, h) <=> \E i \in Intervals(h) : i.low <= m /\ m < i.high
<1>1. /\ Day \in Nat \ {0} /\ h.start \in 0..Day-1 /\ h.end \in 0..Day
  BY ShiftDefsAssumption DEF HoursType
<1>2. CASE h.start < h.end
  <2>1. Intervals(h) = {Interval(h.start, h.end)} /\ Length(h) = h.end - h.start
    BY <1>1, <1>2 DEF Intervals, Length, Elapsed
  <2>2. OnDutyAt(m, h) <=> h.start <= m /\ m < h.end
    BY <1>1, <1>2, <2>1 DEF OnDutyAt, Elapsed
  <2> QED BY <2>1, <2>2 DEF Interval
<1>3. CASE ~(h.start < h.end)
  <2>1. Intervals(h) = {Interval(h.start, Day), Interval(0, h.end)}
    BY <1>3 DEF Intervals
  <2>2. Length(h) = Day + h.end - h.start
    BY <1>1, <1>3 DEF Length, Elapsed
  <2>3. OnDutyAt(m, h) <=> h.start <= m \/ m < h.end
    BY <1>1, <1>3, <2>2 DEF OnDutyAt, Elapsed
  <2>4. /\ Interval(h.start, Day).low = h.start /\ Interval(h.start, Day).high = Day
        /\ Interval(0, h.end).low = 0 /\ Interval(0, h.end).high = h.end
    BY DEF Interval
  <2> QED BY <1>1, <2>1, <2>3, <2>4
<1> QED BY <1>2, <1>3

\* A piece lies within one day.
LEMMA IntervalsInDay ==
    ASSUME NEW h \in HoursType, NEW i \in Intervals(h)
    PROVE  i.low \in 0..Day-1 /\ i.high \in 0..Day
<1>1. Day \in Nat \ {0} /\ h.start \in 0..Day-1 /\ h.end \in 0..Day
  BY ShiftDefsAssumption DEF HoursType
<1> QED BY <1>1 DEF Intervals, Interval

\* _times_overlap answers what it is asked: two shifts overlap if and only if
\* some minute of the clock belongs to both, around midnight too.
THEOREM OverlapIsExact ==
    ASSUME NEW g \in HoursType, NEW h \in HoursType
    PROVE  TimesOverlap(g, h) <=> \E m \in 0..Day-1 : OnDutyAt(m, g) /\ OnDutyAt(m, h)
<1> USE ShiftDefsAssumption
<1>1. ASSUME TimesOverlap(g, h)
      PROVE  \E m \in 0..Day-1 : OnDutyAt(m, g) /\ OnDutyAt(m, h)
  <2>1. PICK i \in Intervals(g), j \in Intervals(h) : i.low < j.high /\ j.low < i.high
    BY <1>1 DEF TimesOverlap
  <2>2. /\ i.low \in 0..Day-1 /\ i.high \in 0..Day
        /\ j.low \in 0..Day-1 /\ j.high \in 0..Day
    BY IntervalsInDay
  <2>3. CASE i.low < i.high /\ j.low < j.high
    <3> DEFINE m == IF i.low <= j.low THEN j.low ELSE i.low
    <3>1. /\ m \in 0..Day-1
          /\ i.low <= m /\ m < i.high /\ j.low <= m /\ m < j.high
      BY <2>1, <2>2, <2>3
    <3>2. OnDutyAt(m, g) /\ OnDutyAt(m, h)
      <4> HIDE DEF m
      <4> QED BY <3>1, IntervalsAreMinutes
    <3> QED BY <3>1, <3>2
  <2>4. CASE ~(i.low < i.high /\ j.low < j.high)
    <3>1. \A f \in HoursType : \A k \in Intervals(f) : k.low < k.high \/ (k.low = 0 /\ k.high = 0)
      BY DEF Intervals, Interval, HoursType
    <3>2. /\ i.low < i.high \/ (i.low = 0 /\ i.high = 0)
          /\ j.low < j.high \/ (j.low = 0 /\ j.high = 0)
      BY <3>1
    <3> QED BY <2>1, <2>2, <2>4, <3>2
  <2> QED BY <2>3, <2>4
<1>2. ASSUME NEW m \in 0..Day-1, OnDutyAt(m, g), OnDutyAt(m, h)
      PROVE  TimesOverlap(g, h)
  <2>1. PICK i \in Intervals(g) : i.low <= m /\ m < i.high
    BY <1>2, IntervalsAreMinutes
  <2>2. PICK j \in Intervals(h) : j.low <= m /\ m < j.high
    BY <1>2, IntervalsAreMinutes
  <2>3. /\ i.low \in 0..Day-1 /\ i.high \in 0..Day
        /\ j.low \in 0..Day-1 /\ j.high \in 0..Day
    BY IntervalsInDay
  <2>4. i.low < j.high /\ j.low < i.high
    BY <2>1, <2>2, <2>3
  <2> QED BY <2>4 DEF TimesOverlap
<1> QED BY <1>1, <1>2

\* The order of the two shifts does not matter.
LEMMA OverlapIsSymmetric ==
    ASSUME NEW g, NEW h, TimesOverlap(g, h)
    PROVE  TimesOverlap(h, g)
BY DEF TimesOverlap

-----------------------------------------------------------------------------
(***************************************************************************)
(* The inductive invariant: the types, the persons of the rooms, and the   *)
(* enabled definitions of a room apart by the test of the code.            *)
(***************************************************************************)
DefsApart ==
    \A r \in Rooms : \A c, d \in Enabled(r) : c # d => ~TimesOverlap(hours[r][c], hours[r][d])

OrgInv == OrgTypeOK /\ ParticipantsWorkInOpenRooms /\ DefsApart

\* What a step on the definitions of room r leaves as it should be.
LEMMA DefStepKeepsDefs ==
    ASSUME DefsTypeOK, DefsApart, NEW r \in Rooms, DefStep(r)
    PROVE  DefsTypeOK' /\ DefsApart'
<1>1. ASSUME ListShiftDefs(r)
      PROVE  DefsTypeOK' /\ DefsApart'
  <2>1. DefsTypeOK'
    BY <1>1, ShiftDefsAssumption DEF ListShiftDefs, DefsTypeOK
  <2>2. ASSUME NEW q \in Rooms, NEW c \in Codes, NEW d \in Codes, c # d,
               defStatus'[q][c] = "enabled", defStatus'[q][d] = "enabled"
        PROVE  ~TimesOverlap(hours'[q][c], hours'[q][d])
    <3>1. CASE q = r
      <4>1. c \in DOMAIN DefaultHours /\ d \in DOMAIN DefaultHours
        BY <1>1, <2>2, <3>1 DEF ListShiftDefs, DefsTypeOK
      <4>2. hours'[q][c] = DefaultHours[c] /\ hours'[q][d] = DefaultHours[d]
        BY <1>1, <3>1, <4>1, ShiftDefsAssumption DEF ListShiftDefs, DefsTypeOK
      <4> QED BY <2>2, <4>1, <4>2, DefaultsAssumption
    <3>2. CASE q # r
      <4>1. hours'[q] = hours[q] /\ defStatus'[q] = defStatus[q]
        BY <1>1, <3>2 DEF ListShiftDefs, DefsTypeOK
      <4> QED BY <2>2, <4>1 DEF DefsApart, Enabled
    <3> QED BY <3>1, <3>2
  <2> QED BY <2>1, <2>2 DEF DefsApart, Enabled
<1>2. ASSUME NEW c \in Codes, NEW h \in HoursType, NEW s \in {"enabled", "disabled"},
             Fits(r, c, h), SetDef(r, c, h, s)
      PROVE  DefsTypeOK' /\ DefsApart'
  <2>1. DefsTypeOK'
    BY <1>2 DEF SetDef, DefsTypeOK
  <2>2. /\ hours'[r][c] = h
        /\ \A q \in Rooms, d \in Codes : <<q, d>> # <<r, c>> =>
              hours'[q][d] = hours[q][d] /\ defStatus'[q][d] = defStatus[q][d]
    BY <1>2 DEF SetDef, DefsTypeOK
  <2>3. ASSUME NEW q \in Rooms, NEW a \in Codes, NEW b \in Codes, a # b,
               defStatus'[q][a] = "enabled", defStatus'[q][b] = "enabled"
        PROVE  ~TimesOverlap(hours'[q][a], hours'[q][b])
    <3>1. CASE q = r /\ a = c
      <4>1. b \in Enabled(r) \ {c} /\ hours'[q][b] = hours[q][b]
        BY <2>2, <2>3, <3>1 DEF Enabled
      <4> QED BY <1>2, <2>2, <3>1, <4>1 DEF Fits
    <3>2. CASE q = r /\ b = c
      <4>1. a \in Enabled(r) \ {c} /\ hours'[q][a] = hours[q][a]
        BY <2>2, <2>3, <3>2 DEF Enabled
      <4>2. ~TimesOverlap(hours'[q][b], hours'[q][a])
        BY <1>2, <2>2, <3>2, <4>1 DEF Fits
      <4> QED BY <4>2, OverlapIsSymmetric
    <3>3. CASE <<q, a>> # <<r, c>> /\ <<q, b>> # <<r, c>>
      <4>1. a \in Enabled(q) /\ b \in Enabled(q)
        BY <2>2, <2>3, <3>3 DEF Enabled
      <4> QED BY <2>2, <2>3, <3>3, <4>1 DEF DefsApart
    <3> QED BY <3>1, <3>2, <3>3
  <2> QED BY <2>1, <2>3 DEF DefsApart, Enabled
<1>3. ASSUME NEW c \in Codes, NEW h \in [start : Starts, end : Ends], CreateShiftDef(r, c, h)
      PROVE  DefsTypeOK' /\ DefsApart'
  <2>1. h \in HoursType
    BY ShiftDefsAssumption DEF HoursType
  <2> QED BY <1>2, <1>3, <2>1 DEF CreateShiftDef
<1>4. ASSUME NEW c \in Codes, NEW h \in HoursType, NEW s \in {"enabled", "disabled"},
             UpdateShiftDef(r, c, h, s)
      PROVE  DefsTypeOK' /\ DefsApart'
  BY <1>2, <1>4 DEF UpdateShiftDef
<1> QED BY <1>1, <1>3, <1>4 DEF DefStep

LEMMA OrgInitHolds == OrgInit => OrgInv
<1> SUFFICES ASSUME OrgInit PROVE OrgInv
  OBVIOUS
<1>1. DefsTypeOK
  BY ShiftDefsAssumption DEF OrgInit, DefsInit, DefsTypeOK, HoursType
<1>2. OrgTypeOK /\ ParticipantsWorkInOpenRooms
  BY <1>1, OrganizationAssumption
     DEF OrgInit, OrgTypeOK, ParticipantsWorkInOpenRooms, Statuses, Created
<1>3. DefsApart
  BY DEF OrgInit, DefsInit, DefsApart, Enabled
<1> QED BY <1>2, <1>3 DEF OrgInv

\* A step on the units leaves the definitions alone.
LEMMA UnitStepKeepsInv ==
    ASSUME OrgInv, UnitStep
    PROVE  OrgInv'
<1>1. PICK u \in Units, up \in Units \cup {NoUnit} :
        CreateUnit(u, up) \/ (\E s \in Statuses : UpdateUnit(u, up, s)) \/ DeleteUnit(u)
  BY DEF UnitStep
<1>2. UNCHANGED <<personVars, defVars>>
  BY <1>1 DEF CreateUnit, UpdateUnit, DeleteUnit
<1>3. DefsTypeOK' /\ DefsApart'
  BY <1>2 DEF OrgInv, OrgTypeOK, DefsTypeOK, DefsApart, Enabled, defVars
<1>4. /\ parent' \in [Units -> Units \cup {NoUnit}]
      /\ unitStatus' \in [Units -> Statuses \cup {"absent"}]
  BY <1>1 DEF CreateUnit, UpdateUnit, DeleteUnit, OrgInv, OrgTypeOK, Statuses
<1>5. /\ \A p \in Persons : (Created(p) => Exists(room[p]))'
      /\ \A p \in Persons : (Created(p) /\ personStatus[p] = "enabled" => RoomOpen(room[p]))'
  <2>0. /\ unitStatus \in [Units -> Statuses \cup {"absent"}]
        /\ room \in [Persons -> Rooms \cup {NoUnit}] /\ Rooms \subseteq Units
        /\ \A p \in Persons : Created(p) => Exists(room[p])
        /\ \A p \in Persons : Created(p) /\ personStatus[p] = "enabled" => RoomOpen(room[p])
    BY OrganizationAssumption DEF OrgInv, OrgTypeOK, ParticipantsWorkInOpenRooms
  <2>1. room' = room /\ personStatus' = personStatus
    BY <1>2 DEF personVars
  <2> USE DEF Created, Exists, RoomOpen
  <2>2. CASE CreateUnit(u, up)
    BY <2>0, <2>1, <2>2 DEF CreateUnit
  <2>3. ASSUME NEW s \in Statuses, UpdateUnit(u, up, s)
        PROVE  <1>5!1 /\ <1>5!2
    <3>1. s = "disabled" => \A p \in Persons : ~(room[p] = u /\ personStatus[p] = "enabled")
      <4>1. CASE unitStatus[u] = "disabled"
        BY <2>0, <4>1, OrganizationAssumption
      <4>2. CASE unitStatus[u] # "disabled"
        BY <2>3, <4>2 DEF UpdateUnit, HasActivePersons, Members
      <4> QED BY <4>1, <4>2
    <3> QED BY <2>0, <2>1, <2>3, <3>1 DEF UpdateUnit, Statuses
  <2>4. CASE DeleteUnit(u)
    <3>1. \A p \in Persons : room[p] # u
      BY <2>4 DEF DeleteUnit, Referenced, Members
    <3> QED BY <2>0, <2>1, <2>4, <3>1 DEF DeleteUnit
  <2> QED BY <1>1, <2>2, <2>3, <2>4
<1>6. OrgTypeOK'
  BY <1>2, <1>3, <1>4, <1>5 DEF OrgInv, OrgTypeOK, personVars, Created, Exists
<1>7. ParticipantsWorkInOpenRooms'
  BY <1>2, <1>5 DEF OrgInv, ParticipantsWorkInOpenRooms, personVars, Created, RoomOpen
<1> QED BY <1>3, <1>6, <1>7 DEF OrgInv

\* A step on the persons of an open room keeps the rooms of enabled persons open.
LEMMA PersonStepKeepsInv ==
    ASSUME OrgInv, NEW r \in Rooms, PersonStep(r)
    PROVE  OrgInv'
<1>1. PICK p \in Persons, type \in PersonTypes, takes \in BOOLEAN :
        \/ CreatePerson(r, p, type, takes)
        \/ \E sent \in BOOLEAN, s \in Statuses : UpdatePerson(r, p, type, sent, takes, s)
  BY DEF PersonStep
<1>2. UNCHANGED <<unitVars, defVars>> /\ RoomOpen(r)
  BY <1>1 DEF CreatePerson, UpdatePerson
<1>3. DefsTypeOK' /\ DefsApart'
  BY <1>2 DEF OrgInv, OrgTypeOK, DefsTypeOK, DefsApart, Enabled, defVars
<1>4. /\ room' \in [Persons -> Rooms \cup {NoUnit}]
      /\ personType' \in [Persons -> PersonTypes]
      /\ takesShifts' \in [Persons -> BOOLEAN]
      /\ personStatus' \in [Persons -> Statuses]
  BY <1>1 DEF CreatePerson, UpdatePerson, Participation, OrgInv, OrgTypeOK, Statuses
<1>5. /\ room' = [room EXCEPT ![p] = r]
      /\ \A q \in Persons \ {p} : /\ personStatus'[q] = personStatus[q]
                                  /\ personType'[q] = personType[q]
                                  /\ takesShifts'[q] = takesShifts[q]
  BY <1>1 DEF CreatePerson, UpdatePerson, OrgInv, OrgTypeOK
<1>6. takesShifts'[p] => personType'[p] = "duty_operator"
  BY <1>1 DEF CreatePerson, UpdatePerson, Participation, OrgInv, OrgTypeOK,
              ParticipantsWorkInOpenRooms
<1>7. OrgTypeOK'
  BY <1>2, <1>3, <1>4, <1>5
     DEF OrgInv, OrgTypeOK, unitVars, Created, Exists, RoomOpen
<1>8. ParticipantsWorkInOpenRooms'
  BY <1>2, <1>5, <1>6
     DEF OrgInv, OrgTypeOK, ParticipantsWorkInOpenRooms, unitVars, Created, RoomOpen
<1> QED BY <1>3, <1>7, <1>8 DEF OrgInv

LEMMA OrgStepKeepsInv ==
    ASSUME OrgInv, [OrgNext]_orgVars
    PROVE  OrgInv'
<1>1. ASSUME NEW r \in Rooms, ChangeShiftDefs(r)
      PROVE  OrgInv'
  <2>1. DefsTypeOK' /\ DefsApart'
    BY <1>1, DefStepKeepsDefs DEF ChangeShiftDefs, OrgInv, OrgTypeOK
  <2>2. UNCHANGED <<unitVars, personVars>>
    BY <1>1 DEF ChangeShiftDefs
  <2> QED BY <2>1, <2>2 DEF OrgInv, OrgTypeOK, ParticipantsWorkInOpenRooms, unitVars,
                            personVars, Created, Exists, RoomOpen
<1>2. CASE UNCHANGED orgVars
  BY <1>2 DEF OrgInv, OrgTypeOK, ParticipantsWorkInOpenRooms, DefsTypeOK, DefsApart, Enabled,
              orgVars, unitVars, personVars, defVars, Created, Exists, RoomOpen
<1> QED BY <1>1, <1>2, UnitStepKeepsInv, PersonStepKeepsInv DEF OrgNext

-----------------------------------------------------------------------------
\* Units, persons and definitions keep their types, and nobody belongs to a room
\* that is gone.
THEOREM OrganizationKeepsTypes == OrgSpec => []OrgTypeOK
<1>1. OrgInv => OrgTypeOK
  BY DEF OrgInv
<1> QED BY <1>1, OrgInitHolds, OrgStepKeepsInv, PTL DEF OrgSpec

\* No enabled person works in a room that is disabled or deleted, and only duty
\* operators participate, for all units, rooms and persons.
THEOREM ParticipantsWorkInOpenRoomsAlways == OrgSpec => []ParticipantsWorkInOpenRooms
<1>1. OrgInv => ParticipantsWorkInOpenRooms
  BY DEF OrgInv
<1> QED BY <1>1, OrgInitHolds, OrgStepKeepsInv, PTL DEF OrgSpec

\* No minute of the clock belongs to two enabled shifts of a room, for a day of
\* any length and all hours.
THEOREM EnabledShiftsStayDisjoint == OrgSpec => []EnabledShiftsDisjoint
<1>1. OrgInv => EnabledShiftsDisjoint
  <2> SUFFICES ASSUME OrgInv,
                      NEW r \in Rooms, NEW c \in Enabled(r), NEW d \in Enabled(r), c # d
               PROVE  \A m \in 0..Day-1 : ~(OnDutyAt(m, hours[r][c]) /\ OnDutyAt(m, hours[r][d]))
    BY DEF EnabledShiftsDisjoint
  <2>1. hours[r][c] \in HoursType /\ hours[r][d] \in HoursType
    BY DEF OrgInv, OrgTypeOK, DefsTypeOK, Enabled
  <2>2. ~TimesOverlap(hours[r][c], hours[r][d])
    BY DEF OrgInv, DefsApart
  <2> QED BY <2>1, <2>2, OverlapIsExact
<1> QED BY <1>1, OrgInitHolds, OrgStepKeepsInv, PTL DEF OrgSpec

-----------------------------------------------------------------------------
(***************************************************************************)
(* The accounts.                                                           *)
(***************************************************************************)
\* The requests of the organisation are those of Organization, and no other
\* request touches it.
LEMMA AccessStepIsOrgStep ==
    ASSUME [AccessNext]_accessVars
    PROVE  [OrgNext]_orgVars
<1>1. ASSUME NEW a \in Accounts, NEW u \in Managed, ManageAccount(a, u)
      PROVE  UNCHANGED orgVars
  BY <1>1 DEF ManageAccount, CreateUser, UpdateUser, AssignUserRoles, AssignUserPermissions
<1>2. ASSUME NEW a \in Accounts, NEW g \in Roles, ManageRole(a, g)
      PROVE  UNCHANGED orgVars
  BY <1>2 DEF ManageRole, CreateRole, UpdateRole, AssignRolePermissions
<1>3. ASSUME NEW a \in Accounts, ManageOrganization(a)
      PROVE  OrgNext
  BY <1>3 DEF ManageOrganization, OrgNext
<1>4. ASSUME NEW u \in Accounts, CreateAdmin(u)
      PROVE  UNCHANGED orgVars
  BY <1>4 DEF CreateAdmin
<1>5. CASE Upgrade
  BY <1>5 DEF Upgrade
<1>6. CASE UNCHANGED accessVars
  BY <1>6 DEF accessVars
<1> QED BY <1>1, <1>2, <1>3, <1>4, <1>5, <1>6 DEF AccessNext

\* Whatever accounts, roles and releases do, the organisation behaves as
\* Organization says.
THEOREM AccessImplementsOrganization == AccessSpec => OrgSpec
<1>1. AccessInit => OrgInit
  BY DEF AccessInit
<1> QED BY <1>1, AccessStepIsOrgStep, PTL DEF AccessSpec, OrgSpec

-----------------------------------------------------------------------------
(***************************************************************************)
(* The inductive invariant.                                                *)
(***************************************************************************)
AccessInv == OrgInv /\ AccessTypeOK /\ OneAccountPerPerson

LEMMA AccessInitHolds == AccessInit => AccessInv
<1> SUFFICES ASSUME AccessInit PROVE AccessInv
  OBVIOUS
<1>1. OrgInv
  BY OrgInitHolds DEF AccessInit
<1>2. rolePerms \in [Roles -> SUBSET registered]
  BY AccessAssumption DEF AccessInit
<1>3. AccessTypeOK
  BY <1>2, AccessAssumption DEF AccessInit, AccessTypeOK, Statuses, PERMISSIONS
<1>4. OneAccountPerPerson
  BY DEF AccessInit, OneAccountPerPerson
<1> QED BY <1>1, <1>3, <1>4 DEF AccessInv

\* Persons are never deleted.
LEMMA PersonsStay ==
    ASSUME OrgInv, [OrgNext]_orgVars, NEW p \in Persons, Created(p)
    PROVE  Created(p)'
<1>1. CASE UNCHANGED orgVars
  BY <1>1 DEF orgVars, personVars, Created
<1>2. CASE UnitStep
  BY <1>2 DEF UnitStep, CreateUnit, UpdateUnit, DeleteUnit, personVars, Created
<1>3. ASSUME NEW r \in Rooms, PersonStep(r)
      PROVE  Created(p)'
  <2>1. room \in [Persons -> Rooms \cup {NoUnit}] /\ r # NoUnit
    BY OrganizationAssumption DEF OrgInv, OrgTypeOK
  <2> QED BY <1>3, <2>1 DEF PersonStep, CreatePerson, UpdatePerson, Created
<1>4. ASSUME NEW r \in Rooms, ChangeShiftDefs(r)
      PROVE  Created(p)'
  BY <1>4 DEF ChangeShiftDefs, personVars, Created
<1> QED BY <1>1, <1>2, <1>3, <1>4 DEF OrgNext

\* An account that is changed by account a keeps the types and its person its own.
LEMMA ManageAccountKeepsInv ==
    ASSUME AccessInv, NEW a \in Accounts, NEW u \in Managed, ManageAccount(a, u)
    PROVE  AccessTypeOK' /\ OneAccountPerPerson'
<1> USE DEF AccessInv
<1>1. u \in Accounts
  BY AccessAssumption
<1>2. \/ \E p \in Persons \cup {NoPerson}, rs \in SUBSET Roles, codes \in Assigned :
            CreateUser(a, u, p, rs, codes)
      \/ \E s \in Statuses, p \in Persons \cup {NoPerson} : UpdateUser(a, u, s, p)
      \/ \E rs \in SUBSET Roles : AssignUserRoles(a, u, rs)
      \/ \E codes \in Assigned : AssignUserPermissions(a, u, codes)
  BY AccessAssumption DEF ManageAccount
<1>3. UNCHANGED <<orgVars, roleVars, releaseVars>>
  BY <1>2 DEF CreateUser, UpdateUser, AssignUserRoles, AssignUserPermissions
<1>4. /\ accStatus' \in [Accounts -> Statuses \cup {"absent"}]
      /\ person' \in [Accounts -> Persons \cup {NoPerson}]
      /\ roles' \in [Accounts -> SUBSET Roles]
      /\ direct' \in [Accounts -> SUBSET registered]
  BY <1>2 DEF CreateUser, UpdateUser, AssignUserRoles, AssignUserPermissions,
              AccessTypeOK, Statuses, Assigned
<1>5. \A v \in Accounts : \A g \in roles'[v] : roleStatus[g] # "absent"
  BY <1>1, <1>2 DEF CreateUser, UpdateUser, AssignUserRoles, AssignUserPermissions,
                    AccessTypeOK, Assignable
<1>6. \/ person' = person
      \/ \E p \in Persons \cup {NoPerson} : person' = [person EXCEPT ![u] = p] /\ Bindable(u, p)
  BY <1>1, <1>2 DEF CreateUser, UpdateUser, AssignUserRoles, AssignUserPermissions, AccessTypeOK
<1>7. \A v \in Accounts : person'[v] # NoPerson => Created(person'[v])
  BY <1>1, <1>6 DEF AccessTypeOK, Bindable
<1>8. AccessTypeOK'
  BY <1>3, <1>4, <1>5, <1>7
     DEF AccessTypeOK, orgVars, personVars, roleVars, releaseVars, Created, PERMISSIONS
<1>9. OneAccountPerPerson'
  BY <1>1, <1>6 DEF AccessTypeOK, OneAccountPerPerson, Bindable
<1> QED BY <1>8, <1>9

LEMMA ManageRoleKeepsInv ==
    ASSUME AccessInv, NEW a \in Accounts, NEW g \in Roles, ManageRole(a, g)
    PROVE  AccessTypeOK' /\ OneAccountPerPerson'
<1>1. UNCHANGED <<orgVars, userVars, releaseVars>>
  BY DEF ManageRole, CreateRole, UpdateRole, AssignRolePermissions
<1>2. /\ roleStatus' \in [Roles -> Statuses \cup {"absent"}]
      /\ rolePerms' \in [Roles -> SUBSET registered]
      /\ \A h \in Roles : roleStatus[h] # "absent" => roleStatus'[h] # "absent"
  BY DEF AccessInv, AccessTypeOK, ManageRole, CreateRole, UpdateRole, AssignRolePermissions,
         Statuses, Assigned
<1> QED BY <1>1, <1>2 DEF AccessInv, AccessTypeOK, OneAccountPerPerson, orgVars, personVars,
                          userVars, releaseVars, Created, PERMISSIONS

\* Seeding registers what it puts into a role.
LEMMA CreateAdminKeepsInv ==
    ASSUME AccessInv, NEW u \in Accounts, CreateAdmin(u)
    PROVE  AccessTypeOK' /\ OneAccountPerPerson'
<1>1. UNCHANGED <<orgVars, person, roles, direct, upgraded>>
  BY DEF CreateAdmin
<1>2. registered' = registered \cup PERMISSIONS /\ PERMISSIONS' = PERMISSIONS
  BY DEF CreateAdmin, PERMISSIONS
<1>3. \A g \in BUILTIN_ROLES : RoleTemplate(g) \subseteq PERMISSIONS
  BY AccessAssumption DEF BUILTIN_ROLES, RoleTemplate, PERMISSIONS
<1>4. rolePerms' \in [Roles -> SUBSET registered']
  BY <1>2, <1>3 DEF CreateAdmin, SeededPerms, AccessInv, AccessTypeOK
<1>5. /\ roleStatus' \in [Roles -> Statuses \cup {"absent"}]
      /\ \A h \in Roles : roleStatus[h] # "absent" => roleStatus'[h] # "absent"
  BY DEF CreateAdmin, SeededStatus, AccessInv, AccessTypeOK, Statuses
<1>6. accStatus' \in [Accounts -> Statuses \cup {"absent"}]
  BY DEF CreateAdmin, AccessInv, AccessTypeOK, Statuses
<1> QED BY <1>1, <1>2, <1>4, <1>5, <1>6
           DEF AccessInv, AccessTypeOK, OneAccountPerPerson, orgVars, personVars, Created

LEMMA AccessStepKeepsInv ==
    ASSUME AccessInv, [AccessNext]_accessVars
    PROVE  AccessInv'
<1>1. OrgInv'
  BY AccessStepIsOrgStep, OrgStepKeepsInv DEF AccessInv
<1>2. \A p \in Persons : Created(p) => Created(p)'
  BY AccessStepIsOrgStep, PersonsStay DEF AccessInv
<1>3. ASSUME NEW a \in Accounts, ManageOrganization(a)
      PROVE  AccessTypeOK' /\ OneAccountPerPerson'
  <2>1. UNCHANGED <<userVars, roleVars, releaseVars>>
    BY <1>3 DEF ManageOrganization
  <2> QED BY <1>2, <2>1 DEF AccessInv, AccessTypeOK, OneAccountPerPerson, userVars, roleVars,
                            releaseVars, PERMISSIONS
<1>4. ASSUME Upgrade
      PROVE  AccessTypeOK' /\ OneAccountPerPerson'
  BY <1>4, <1>2, AccessAssumption
     DEF Upgrade, AccessInv, AccessTypeOK, OneAccountPerPerson, userVars, roleVars, PERMISSIONS
<1>5. ASSUME UNCHANGED accessVars
      PROVE  AccessTypeOK' /\ OneAccountPerPerson'
  BY <1>5, <1>2 DEF accessVars, AccessInv, AccessTypeOK, OneAccountPerPerson, userVars, roleVars,
                    releaseVars, PERMISSIONS
<1> QED BY <1>1, <1>3, <1>4, <1>5, ManageAccountKeepsInv, ManageRoleKeepsInv, CreateAdminKeepsInv
        DEF AccessNext, AccessInv

-----------------------------------------------------------------------------
\* Accounts, roles and grants keep their types; what is granted is registered.
THEOREM AccessKeepsTypes == AccessSpec => []AccessTypeOK
<1>1. AccessInv => AccessTypeOK
  BY DEF AccessInv
<1> QED BY <1>1, AccessInitHolds, AccessStepKeepsInv, PTL DEF AccessSpec

\* No two accounts are ever bound to one person.
THEOREM OnePersonOneAccount == AccessSpec => []OneAccountPerPerson
<1>1. AccessInv => OneAccountPerPerson
  BY DEF AccessInv
<1> QED BY <1>1, AccessInitHolds, AccessStepKeepsInv, PTL DEF AccessSpec

\* The permissions and the room shown by /me are those the server goes by, for
\* all roles, grants and releases.
THEOREM ProfileAlwaysMatchesServer == AccessSpec => []ProfileMatchesServer
<1>1. AccessInv => ProfileMatchesServer
  <2> SUFFICES ASSUME AccessInv, NEW u \in Accounts, accStatus[u] = "enabled"
               PROVE  /\ \A code \in registered : Admitted(u, code) <=> code \in EffectivePermissions(u)
                      /\ \A r \in Rooms : ActsInRoom(u, r) => IsRoomSwitching(u) \/ ShownRoom(u) = r
    BY DEF ProfileMatchesServer
  <2>1. ASSUME NEW code \in registered
        PROVE  Admitted(u, code) <=> code \in EffectivePermissions(u)
    <3>1. roles[u] \subseteq Roles
      BY DEF AccessInv, AccessTypeOK
    <3> DEFINE listed == UNION { rolePerms[g] : g \in EnabledRoles(u) }
               held == \E g \in Roles : g \in roles[u] /\ roleStatus[g] = "enabled" /\ code \in rolePerms[g]
    <3>2. code \in listed <=> held
      BY <3>1 DEF EnabledRoles
    <3>3. CASE u \in Superusers
      BY <3>3 DEF Admitted, EffectivePermissions
    <3>4. CASE u \notin Superusers
      <4>1. Admitted(u, code) <=> code \in direct[u] \/ held
        BY <3>4, Zenon DEF Admitted
      <4>2. EffectivePermissions(u) = listed \cup direct[u]
        BY <3>4, Zenon DEF EffectivePermissions
      <4> HIDE DEF listed, held
      <4>3. code \in EffectivePermissions(u) <=> code \in direct[u] \/ code \in listed
        BY <4>2
      <4> QED BY <3>2, <4>1, <4>3
    <3> QED BY <3>3, <3>4
  <2>2. ASSUME NEW r \in Rooms, ActsInRoom(u, r), ~IsRoomSwitching(u)
        PROVE  ShownRoom(u) = r
    BY <2>2, AccessAssumption DEF ActsInRoom, ShownRoom
  <2> QED BY <2>1, <2>2
<1> QED BY <1>1, AccessInitHolds, AccessStepKeepsInv, PTL DEF AccessSpec

\* What a superuser's account is changed by.
LEMMA SuperuserChangedByPeer ==
    ASSUME AccessInv, [AccessNext]_accessVars, NEW u \in Superusers, HasAccount(u),
           <<accStatus[u], person[u], roles[u], direct[u]>>'
               # <<accStatus[u], person[u], roles[u], direct[u]>>
    PROVE  \E a \in Accounts : \/ \E s \in Statuses, p \in Persons \cup {NoPerson} : UpdateUser(a, u, s, p)
                             \/ \E rs \in SUBSET Roles : AssignUserRoles(a, u, rs)
                             \/ \E codes \in Assigned : AssignUserPermissions(a, u, codes)
<1>1. ~UNCHANGED userVars
  BY DEF userVars
<1>2. u \in Accounts
  BY AccessAssumption
<1>3. PICK a \in Accounts, v \in Accounts : (v \in Managed /\ ManageAccount(a, v)) \/ CreateAdmin(v)
  <2>1. \/ \E a \in Accounts : \E v \in Managed : ManageAccount(a, v)
        \/ \E v \in Accounts : CreateAdmin(v)
    BY <1>1 DEF AccessNext, accessVars, ManageRole, CreateRole, UpdateRole, AssignRolePermissions,
                ManageOrganization, Upgrade
  <2> QED BY <2>1, <1>2, AccessAssumption
<1>4. v = u
  BY <1>2, <1>3 DEF AccessInv, AccessTypeOK, CreateAdmin, ManageAccount, CreateUser, UpdateUser,
                    AssignUserRoles, AssignUserPermissions
<1>5. ManageAccount(a, u)
  BY <1>3, <1>4 DEF CreateAdmin
<1> QED BY <1>5, AccessAssumption DEF ManageAccount, CreateUser

\* Nobody but an enabled superuser changes the account of a superuser, however
\* roles and permissions were granted before.
THEOREM SuperusersAlwaysNeedPeers == AccessSpec => SuperusersNeedPeers
<1>1. ASSUME AccessInv, [AccessNext]_accessVars
      PROVE  [ \A u \in Superusers :
                 HasAccount(u)
                 /\ <<accStatus[u], person[u], roles[u], direct[u]>>'
                      # <<accStatus[u], person[u], roles[u], direct[u]>>
                 => /\ HasAccount(u)'
                    /\ \E a \in Superusers : accStatus[a] = "enabled" ]_accessVars
  <2> SUFFICES ASSUME NEW u \in Superusers, HasAccount(u),
                      <<accStatus[u], person[u], roles[u], direct[u]>>'
                          # <<accStatus[u], person[u], roles[u], direct[u]>>
               PROVE  HasAccount(u)' /\ \E a \in Superusers : accStatus[a] = "enabled"
    OBVIOUS
  <2>1. PICK a \in Accounts :
          \/ \E s \in Statuses, p \in Persons \cup {NoPerson} : UpdateUser(a, u, s, p)
          \/ \E rs \in SUBSET Roles : AssignUserRoles(a, u, rs)
          \/ \E codes \in Assigned : AssignUserPermissions(a, u, codes)
    BY <1>1, SuperuserChangedByPeer
  <2>2. a \in Superusers /\ accStatus[a] = "enabled"
    BY <2>1 DEF UpdateUser, AssignUserRoles, AssignUserPermissions, MayManage, Admitted
  <2>3. HasAccount(u)'
    BY <1>1, <2>1, AccessAssumption
       DEF UpdateUser, AssignUserRoles, AssignUserPermissions, HasAccount, AccessInv, AccessTypeOK,
           Statuses
  <2> QED BY <2>2, <2>3
<1> QED BY <1>1, AccessInitHolds, AccessStepKeepsInv, PTL DEF AccessSpec, SuperusersNeedPeers

\* Only create-admin makes an account of a superuser.
LEMMA SuperuserMadeByCommand ==
    ASSUME AccessInv, [AccessNext]_accessVars, NEW v \in Superusers, ~HasAccount(v), HasAccount(v)'
    PROVE  \E u \in Accounts : CreateAdmin(u)
<1>1. v \in Accounts /\ accStatus'[v] # accStatus[v]
  BY AccessAssumption DEF HasAccount
<1>2. ASSUME NEW a \in Accounts, NEW u \in Managed, ManageAccount(a, u)
      PROVE  FALSE
  <2>1. u = v
    BY <1>1, <1>2 DEF ManageAccount, CreateUser, UpdateUser, AssignUserRoles, AssignUserPermissions,
                      AccessInv, AccessTypeOK
  <2> QED BY <1>1, <1>2, <2>1 DEF ManageAccount, CreateUser, UpdateUser, AssignUserRoles,
                                  AssignUserPermissions
<1> QED BY <1>1, <1>2 DEF AccessNext, accessVars, userVars, ManageRole, CreateRole, UpdateRole,
                          AssignRolePermissions, ManageOrganization, Upgrade

\* Seeding, whatever the release, leaves every other account with the permissions
\* it had.
THEOREM SeedingAlwaysGrantsNothing == AccessSpec => SeedingGrantsNothing
<1>1. ASSUME AccessInv, NEW w \in Accounts, CreateAdmin(w), NEW u \in Accounts \ Superusers
      PROVE  EffectivePermissions(u)' = EffectivePermissions(u)
  <2>1. roles' = roles /\ direct' = direct
    BY <1>1 DEF CreateAdmin
  <2>2. \A g \in roles[u] : rolePerms'[g] = rolePerms[g] /\ roleStatus'[g] = roleStatus[g]
    BY <1>1 DEF CreateAdmin, SeededPerms, SeededStatus, AccessInv, AccessTypeOK
  <2>3. EnabledRoles(u)' = EnabledRoles(u)
    BY <2>1, <2>2 DEF EnabledRoles
  <2>4. UNION { rolePerms'[g] : g \in EnabledRoles(u)' } = UNION { rolePerms[g] : g \in EnabledRoles(u) }
    BY <2>2, <2>3 DEF EnabledRoles
  <2> QED BY <1>1, <2>1, <2>4 DEF EffectivePermissions
<1>2. ASSUME AccessInv, [AccessNext]_accessVars
      PROVE  [ \A v \in Superusers : ~HasAccount(v) /\ HasAccount(v)' =>
                 \A u \in Accounts \ Superusers :
                     HasAccount(u) => EffectivePermissions(u)' = EffectivePermissions(u) ]_accessVars
  <2> SUFFICES ASSUME NEW v \in Superusers, ~HasAccount(v), HasAccount(v)',
                      NEW u \in Accounts \ Superusers
               PROVE  EffectivePermissions(u)' = EffectivePermissions(u)
    OBVIOUS
  <2>1. PICK w \in Accounts : CreateAdmin(w)
    BY <1>2, SuperuserMadeByCommand
  <2> QED BY <1>1, <1>2, <2>1
<1> QED BY <1>2, AccessInitHolds, AccessStepKeepsInv, PTL DEF AccessSpec, SeedingGrantsNothing
=============================================================================
