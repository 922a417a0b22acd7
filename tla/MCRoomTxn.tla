----------------------------- MODULE MCRoomTxn ------------------------------
(***************************************************************************)
(* Four loads.  The document: the applicant withdraws and later cancels,   *)
(* the target person agrees in one window and refuses in another, two      *)
(* directors approve and reject.  The shifts: an approval meets an edit of *)
(* either shift and a leave that is sent twice.  The same change: an edit  *)
(* does what the swap asks for, while it is approved and cancelled.  The   *)
(* past: corrections of both shifts and a second one of the first.         *)
(***************************************************************************)
EXTENDS RoomTxn, TLC

CONSTANTS R1, R2, R3, R4, R5, R6, S, T, A, B, C

MCRequests == {R1, R2, R3, R4, R5, R6}

Asks(a, b, c, d, e, f) ==
    (R1 :> a) @@ (R2 :> b) @@ (R3 :> c) @@ (R4 :> d) @@ (R5 :> e) @@ (R6 :> f)

Doc(kind) == Ask(kind, None, None)

MCLoads ==
    {Asks(Doc("agree"), Doc("refuse"), Doc("approve"), Doc("reject"), Doc("withdraw"), Doc("cancel")),
     Asks(Doc("agree"), Doc("approve"), Ask("edit", S, C), Ask("edit", T, C),
          Ask("leave", S, A), Ask("leave", S, A)),
     Asks(Doc("agree"), Doc("approve"), Doc("cancel"), Doc("cancel"),
          Ask("edit", S, B), Doc("none")),
     Asks(Ask("correct", S, C), Ask("correct", S, B), Ask("correct", T, C),
          Doc("none"), Doc("none"), Doc("none"))}
=============================================================================
