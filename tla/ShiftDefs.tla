----------------------------- MODULE ShiftDefs ------------------------------
(***************************************************************************)
(* The shift definitions of every room and the comparison of their hours:  *)
(* the part of services/auth.py that serves routes/shifts.py.  Hours are   *)
(* minutes of a day of Day minutes; an end may be Day itself, the "24:00"  *)
(* of the default night shift, and an end not after its start lies on the  *)
(* next day.                                                               *)
(***************************************************************************)
EXTENDS Naturals

CONSTANTS Rooms, Codes,
          Day,           \* minutes of a day, 1440 in the code
          Starts, Ends,  \* times of day that are typed in
          DefaultHours   \* hours of the default definitions, by their code

HoursType == [start : 0..Day-1, end : 0..Day]

\* The request pattern admits any four digits; the times typed in are times of day.
ASSUME ShiftDefsAssumption ==
    /\ Day \in Nat \ {0}
    /\ Starts \subseteq 0..Day-1 /\ Ends \subseteq 0..Day
    /\ DOMAIN DefaultHours \subseteq Codes
    /\ \A c \in DOMAIN DefaultHours : DefaultHours[c] \in HoursType

VARIABLES hours,     \* hours[r][c]: start and end of definition c of room r
          defStatus  \* defStatus[r][c]: absent, enabled or disabled

defVars == <<hours, defStatus>>

Interval(low, high) == [low |-> low, high |-> high]

\* Variant: hours past midnight are compared as if they ended with the day.
IntervalsOfOneDay(h) ==
    IF h.start < h.end THEN {Interval(h.start, h.end)} ELSE {Interval(h.start, Day)}

\* The half-open pieces of one day that hours cover.
Intervals(h) ==
    IF h.start < h.end THEN {Interval(h.start, h.end)}
    ELSE {Interval(h.start, Day), Interval(0, h.end)}

TimesOverlap(g, h) ==
    \E i \in Intervals(g), j \in Intervals(h) : i.low < j.high /\ j.low < i.high

\* The defaults of the code, which no check compares, are chosen so.
ASSUME DefaultsAssumption ==
    \A c, d \in DOMAIN DefaultHours : c # d => ~TimesOverlap(DefaultHours[c], DefaultHours[d])

Enabled(r) == { c \in Codes : defStatus[r][c] = "enabled" }
Defined(r) == { c \in Codes : defStatus[r][c] # "absent" }

\* No other enabled definition of the room overlaps hours h.
Fits(r, c, h) == \A d \in Enabled(r) \ {c} : ~TimesOverlap(h, hours[r][d])

SetDef(r, c, h, status) ==
    /\ hours' = [hours EXCEPT ![r][c] = h]
    /\ defStatus' = [defStatus EXCEPT ![r][c] = status]

-----------------------------------------------------------------------------
\* list_shift_defs: the first visit of a room writes the defaults.
ListShiftDefs(r) ==
    /\ Defined(r) = {}
    /\ hours' = [hours EXCEPT ![r] =
                    [c \in Codes |-> IF c \in DOMAIN DefaultHours THEN DefaultHours[c] ELSE @[c]]]
    /\ defStatus' = [defStatus EXCEPT ![r] =
                    [c \in Codes |-> IF c \in DOMAIN DefaultHours THEN "enabled" ELSE "absent"]]

\* create_shift_def under a code that is free in the room
CreateShiftDef(r, c, h) ==
    /\ defStatus[r][c] = "absent"
    /\ Fits(r, c, h)
    /\ SetDef(r, c, h, "enabled")

\* update_shift_def: what the request leaves out keeps its value, and the hours
\* must fit whatever the status is or becomes.
UpdateShiftDef(r, c, h, status) ==
    /\ defStatus[r][c] # "absent"
    /\ h.start \in Starts \cup {hours[r][c].start}
    /\ h.end \in Ends \cup {hours[r][c].end}
    /\ Fits(r, c, h)
    /\ SetDef(r, c, h, status)

DefsInit ==
    /\ hours = [r \in Rooms |-> [c \in Codes |-> [start |-> 0, end |-> 0]]]
    /\ defStatus = [r \in Rooms |-> [c \in Codes |-> "absent"]]

DefStep(r) ==
    \/ ListShiftDefs(r)
    \/ \E c \in Codes, h \in [start : Starts, end : Ends] : CreateShiftDef(r, c, h)
    \/ \E c \in Codes, h \in HoursType, status \in {"enabled", "disabled"} :
         UpdateShiftDef(r, c, h, status)

-----------------------------------------------------------------------------
DefsTypeOK ==
    /\ hours \in [Rooms -> [Codes -> HoursType]]
    /\ defStatus \in [Rooms -> [Codes -> {"absent", "enabled", "disabled"}]]

\* Minutes on the clock from time s to time t, and how long hours last: hours
\* that end when they start last a whole day.
Elapsed(s, t) == IF s <= t THEN t - s ELSE t + Day - s
Length(h) == IF h.start = h.end THEN Day ELSE Elapsed(h.start, h.end)

\* Somebody with these hours is on duty in minute m of some day.
OnDutyAt(m, h) == Elapsed(h.start, m) < Length(h)

\* No minute of the clock belongs to two enabled shifts of a room, around
\* midnight too and whatever is disabled, edited and enabled again
\* (_times_overlap and the checks of create_shift_def and update_shift_def).
EnabledShiftsDisjoint ==
    \A r \in Rooms : \A c, d \in Enabled(r) :
        c # d => \A m \in 0..Day-1 : ~(OnDutyAt(m, hours[r][c]) /\ OnDutyAt(m, hours[r][d]))
=============================================================================
