------------------------------ MODULE MCAccess ------------------------------
(***************************************************************************)
(* The first superuser, an ordinary account and a superuser created later, *)
(* perhaps from a release with a new permission and a new common role; one *)
(* permission lets its holder do everything else.                          *)
(***************************************************************************)
EXTENDS Access, TLC

CONSTANTS R1, P1, Root, User, Second, Admin, Common, Manage, Late

MCRooms == {R1}
MCPersons == {P1}
MCDefaults == <<>>
MCAccounts == {Root, User, Second}
MCSuperusers == {Root, Second}
MCManaged == {Root, User}
MCRoles == {Admin, Common}
MCBaseRoles == {Admin}
MCBase == {Manage}
MCPermissions == {Manage, Late}
MCTemplate == (Common :> {Late})
MCRoleSets == {{}, {Admin}, {Common}}
MCGrants == {{}, {Manage}}
=============================================================================
