-------------------------- MODULE MCSessionClient --------------------------
(***************************************************************************)
(* Two calls of one tab and three pairs of tokens: enough for a login, a   *)
(* refresh and a second login or refresh while an old answer is under way. *)
(***************************************************************************)
EXTENDS SessionClient

CONSTANTS C1, C2, Alice

MCCalls == {C1, C2}
MCUsers == {Alice}
=============================================================================
