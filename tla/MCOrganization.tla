--------------------------- MODULE MCOrganization ---------------------------
(***************************************************************************)
(* A station and a room, one person, a day of three periods of which the   *)
(* last belongs to the default night shift, and one more shift.            *)
(***************************************************************************)
EXTENDS Organization, TLC

CONSTANTS Station, R1, P1, Early, Night, Extra

MCUnits == {Station, R1}
MCRooms == {R1}
MCPersons == {P1}
MCCodes == {Early, Night, Extra}
MCDefaults == (Early :> [start |-> 0, end |-> 2]) @@ (Night :> [start |-> 2, end |-> 3])
=============================================================================
