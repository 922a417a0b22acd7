--------------------------- MODULE SessionProofs ---------------------------
(***************************************************************************)
(* The tab for any number of calls in flight, accounts and token pairs.    *)
(***************************************************************************)
EXTENDS SessionClient, TLAPS

(* What every step has to re-establish about the calls.                    *)
CallsOK == /\ calls \in [Calls -> CallRecords(Len(owner))]
           /\ \A c \in Calls : calls[c].state = "waiting" => ~calls[c].retried

(* The rest of the type invariant.                                         *)
ServerOK == /\ owner \in Seq(Users) /\ Len(owner) <= MaxTokens
            /\ refreshExpired \in 0..accessExpired /\ accessExpired \in 0..Len(owner)
            /\ enabled \subseteq Users

StoreOK == /\ held \in 0..Len(owner)
           /\ profile \in Users \cup {NoUser}
           /\ notified \in BOOLEAN
           /\ refreshing \in 0..Len(owner)
           /\ page \in {"loading", "login", "app"}

Inv == SessionTypeOK /\ RefreshServesItsWaiters /\ AppNeedsSession

LEMMA TypeOKParts == SessionTypeOK <=> ServerOK /\ StoreOK /\ CallsOK
BY DEF SessionTypeOK, ServerOK, StoreOK, CallsOK

LEMMA TypeOKPartsNext == SessionTypeOK' <=> ServerOK' /\ StoreOK' /\ CallsOK'
BY DEF SessionTypeOK, ServerOK, StoreOK, CallsOK

LEMMA NoCallIsACall == ASSUME NEW n \in Nat PROVE NoCall \in CallRecords(n) /\ NoCall.state = "idle"
BY DEF NoCall, CallRecords, Kinds

LEMMA SessionStarts == SessionInit => Inv
<1> SUFFICES ASSUME SessionInit PROVE Inv
  OBVIOUS
<1> USE DEF SessionInit
<1>1. owner \in Seq(Users) /\ Len(owner) = 0
  OBVIOUS
<1>2. ServerOK
  BY <1>1, SessionAssumption DEF ServerOK
<1>3. StoreOK
  <2>1. held \in 0..Len(owner) /\ refreshing \in 0..Len(owner)
    BY <1>1
  <2>2. profile \in Users \cup {NoUser} /\ notified \in BOOLEAN
    OBVIOUS
  <2>3. page \in {"loading", "login", "app"}
    OBVIOUS
  <2> QED
    BY ONLY <2>1, <2>2, <2>3 DEF StoreOK
<1>4. CallsOK
  BY <1>1, NoCallIsACall DEF CallsOK
<1>5. Waiting = {}
  BY NoCallIsACall, <1>1 DEF Waiting
<1> QED
  BY <1>2, <1>3, <1>4, <1>5, TypeOKParts DEF Inv, RefreshServesItsWaiters, AppNeedsSession

-----------------------------------------------------------------------------
(* What the steps do to the calls.                                         *)

(* A set of calls ends and the others stay.                                *)
LEMMA EndingCalls ==
    ASSUME SessionTypeOK, NEW cs, Ended(cs), owner' = owner
    PROVE  CallsOK' /\ Waiting' = Waiting \ cs
<1>1. Len(owner) \in Nat
  BY DEF SessionTypeOK
<1>2. \A c \in Calls : calls'[c] = IF c \in cs THEN NoCall ELSE calls[c]
  BY DEF Ended
<1>3. calls' \in [Calls -> CallRecords(Len(owner))]
  BY <1>1, NoCallIsACall DEF Ended, SessionTypeOK
<1> QED
  BY <1>1, <1>2, <1>3, NoCallIsACall DEF CallsOK, SessionTypeOK, Waiting

(* One call that was not waiting is sent, as a new one.                    *)
LEMMA SendingCall ==
    ASSUME SessionTypeOK, NEW c \in Calls, calls[c].state # "waiting", owner' \in Seq(Users),
           Len(owner) <= Len(owner'),
           NEW r \in CallRecords(Len(owner')), r.state = "sent",
           calls' = [calls EXCEPT ![c] = r]
    PROVE  CallsOK' /\ Waiting' = Waiting
<1>1. Len(owner) \in Nat /\ Len(owner') \in Nat
  BY DEF SessionTypeOK
<1>2. calls' \in [Calls -> CallRecords(Len(owner'))]
  <2>1. CallRecords(Len(owner)) \subseteq CallRecords(Len(owner'))
    BY <1>1 DEF CallRecords
  <2> QED
    BY <2>1 DEF SessionTypeOK
<1>3. \A d \in Calls : calls'[d] = IF d = c THEN r ELSE calls[d]
  BY DEF SessionTypeOK
<1> QED
  BY <1>2, <1>3 DEF CallsOK, SessionTypeOK, Waiting

LEMMA Requesting ==
    ASSUME Inv, NEW c \in Calls, NEW kind \in Kinds, NEW user \in Users \cup {NoUser},
           Request(c, kind, user)
    PROVE  Inv'
<1> DEFINE r == [kind |-> kind, user |-> user, token |-> held, retried |-> FALSE, state |-> "sent"]
<1>1. r \in CallRecords(Len(owner')) /\ r.state = "sent"
  BY DEF CallRecords, Inv, SessionTypeOK, Request, serverVars
<1>2. CallsOK' /\ Waiting' = Waiting
  <2>1. SessionTypeOK /\ calls[c].state # "waiting" /\ owner' = owner
    BY DEF Inv, Request, serverVars
  <2>2. owner' \in Seq(Users) /\ Len(owner) <= Len(owner')
    BY <2>1 DEF SessionTypeOK
  <2>3. calls' = [calls EXCEPT ![c] = r]
    BY DEF Request
  <2> QED
    BY ONLY <1>1, <2>1, <2>2, <2>3, SendingCall
<1>3. ServerOK' /\ StoreOK'
  BY TypeOKParts DEF Inv, ServerOK, StoreOK, Request, serverVars, storeVars
<1> QED
  BY <1>2, <1>3, TypeOKParts DEF Inv, RefreshServesItsWaiters, AppNeedsSession, Request, storeVars,
     SessionTypeOK, CallsOK, ServerOK, StoreOK
-----------------------------------------------------------------------------
(* The steps, one by one.                                                  *)

(* The forced logout leaves stores that belong together.                   *)
LEMMA ForcedLogoutStores ==
    ASSUME Inv, NEW cs, ForceLogout(cs), owner' = owner, refreshing' \in 0..Len(owner)
    PROVE  StoreOK' /\ AppNeedsSession'
<1> USE DEF ForceLogout, StoreOK, AppNeedsSession, PageAfter, Landing
<1>1. StoreOK /\ AppNeedsSession
  BY TypeOKParts DEF Inv
<1>2. CASE notified
  BY <1>1, <1>2 DEF storeVars
<1>3. CASE ~notified
  <2>1. held' \in 0..Len(owner')
    BY <1>3, <1>1
  <2>2. profile' \in Users \cup {NoUser} /\ notified' \in BOOLEAN
    BY <1>3
  <2> QED
    BY <2>1, <2>2, <1>3
<1> QED
  BY <1>2, <1>3

(* A call that was under way ends; server and refresh do not move.         *)
LEMMA EndOfOneCall ==
    ASSUME Inv, NEW c \in Calls, InFlight(c), Ended({c}), UNCHANGED <<serverVars, refreshing>>,
           StoreOK', AppNeedsSession'
    PROVE  Inv'
<1>1. SessionTypeOK /\ owner' = owner
  BY DEF Inv, serverVars
<1>2. CallsOK' /\ Waiting' = Waiting \ {c}
  BY <1>1, EndingCalls
<1>3. c \notin Waiting
  BY DEF InFlight, Waiting
<1>4. ServerOK'
  BY TypeOKParts DEF Inv, ServerOK, serverVars
<1> QED
  BY <1>2, <1>3, <1>4, TypeOKPartsNext DEF Inv, RefreshServesItsWaiters, serverVars

LEMMA CallsEndWell ==
    ASSUME Inv, NEW c \in Calls, CallEnds(c)
    PROVE  Inv'
<1> USE DEF Inv
<1>1. StoreOK /\ AppNeedsSession /\ ServerOK /\ CallsOK /\ SessionTypeOK
  BY TypeOKParts
<1>2. CASE Answered(c) \/ BlobRefused(c)
  <2>1. StoreOK' /\ AppNeedsSession'
    BY <1>1, <1>2 DEF Answered, BlobRefused, serverVars, storeVars, StoreOK, AppNeedsSession
  <2> QED
    BY <1>2, <2>1, EndOfOneCall DEF Answered, BlobRefused, Unauthorized
<1>3. CASE ProfileAnswered(c)
  <2>1. profile' \in Users
    BY <1>1, <1>3 DEF ProfileAnswered, AccessValid, ServerOK, CallsOK, CallRecords, InFlight
  <2>2. StoreOK' /\ AppNeedsSession'
    BY <1>1, <1>3, <2>1
       DEF ProfileAnswered, serverVars, StoreOK, AppNeedsSession, PageAfter, Landing
  <2> QED
    BY <1>3, <2>2, EndOfOneCall DEF ProfileAnswered
<1>4. CASE LogoutEnds(c)
  <2>1. held' \in 0..Len(owner') /\ refreshing' \in 0..Len(owner')
    BY <1>1, <1>4 DEF LogoutEnds, serverVars, StoreOK
  <2>2. StoreOK' /\ AppNeedsSession'
    BY <1>1, <1>4, <2>1 DEF LogoutEnds, StoreOK, AppNeedsSession
  <2> QED
    BY <1>4, <2>2, EndOfOneCall DEF LogoutEnds
<1>5. CASE Failed(c)
  <2>1. StoreOK' /\ AppNeedsSession'
    BY <1>1, <1>5
       DEF Failed, serverVars, storeVars, StoreOK, AppNeedsSession, PageAfter, Landing
  <2> QED
    BY <1>5, <2>1, EndOfOneCall DEF Failed
<1>6. CASE GiveUp(c)
  <2>1. StoreOK' /\ AppNeedsSession'
    BY <1>1, <1>6, ForcedLogoutStores DEF GiveUp, serverVars, StoreOK
  <2> QED
    BY <1>6, <2>1, EndOfOneCall DEF GiveUp, Unauthorized
<1>7. CASE LoginAnswered(c)
  <2> DEFINE r == [kind |-> "entry", user |-> NoUser, token |-> held', retried |-> FALSE,
                   state |-> "sent"]
  <2>1. /\ owner' \in Seq(Users) /\ Len(owner') = Len(owner) + 1
        /\ Len(owner) \in Nat /\ Len(owner') <= MaxTokens
    BY <1>1, <1>7, SessionAssumption DEF LoginAnswered, ServerOK
  <2>2. ServerOK' /\ StoreOK' /\ AppNeedsSession'
    BY <1>1, <1>7, <2>1 DEF LoginAnswered, ServerOK, StoreOK, AppNeedsSession
  <2>3. r \in CallRecords(Len(owner')) /\ r.state = "sent"
    BY <1>7, <2>1 DEF LoginAnswered, CallRecords, Kinds
  <2>4. calls[c].state # "waiting" /\ calls' = [calls EXCEPT ![c] = r]
    BY <1>7 DEF LoginAnswered, InFlight
  <2>5. CallsOK' /\ Waiting' = Waiting
    <3>1. Len(owner) <= Len(owner')
      BY <2>1
    <3> QED
      BY ONLY <1>1, <2>1, <2>3, <2>4, <3>1, SendingCall
  <2> QED
    BY <1>7, <2>2, <2>5, TypeOKPartsNext DEF LoginAnswered, RefreshServesItsWaiters
<1>8. CASE AwaitRefresh(c)
  <2>1. c \in Waiting' /\ refreshing' # 0
    BY <1>1, <1>8 DEF AwaitRefresh, Refreshable, Waiting, CallsOK
  <2>2. CallsOK'
    BY <1>1, <1>8
       DEF AwaitRefresh, Refreshable, CallsOK, CallRecords, serverVars, Unauthorized, InFlight
  <2>3. ServerOK' /\ StoreOK' /\ AppNeedsSession'
    BY <1>1, <1>8 DEF AwaitRefresh, ServerOK, StoreOK, AppNeedsSession, serverVars, storeVars
  <2> QED
    BY <2>1, <2>2, <2>3, TypeOKPartsNext DEF RefreshServesItsWaiters
<1> QED
  BY <1>2, <1>3, <1>4, <1>5, <1>6, <1>7, <1>8 DEF CallEnds

LEMMA RefreshEndsWell == ASSUME Inv, RefreshEnds PROVE Inv'
<1> USE DEF Inv
<1>1. StoreOK /\ AppNeedsSession /\ ServerOK /\ CallsOK /\ SessionTypeOK
  BY TypeOKParts
<1>2. CASE RefreshAnswered
  <2>0. /\ refreshing # 0 /\ Len(owner) < MaxTokens
        /\ owner' = Append(owner, owner[refreshing]) /\ held' = Len(owner')
        /\ notified' = FALSE /\ refreshing' = 0
        /\ UNCHANGED <<accessExpired, refreshExpired, enabled, profile, page>>
    BY <1>2 DEF RefreshAnswered
  <2>1. refreshing \in 1..Len(owner) /\ owner[refreshing] \in Users /\ Len(owner) \in Nat
    BY ONLY <1>1, <2>0 DEF StoreOK, ServerOK
  <2>2. /\ owner' \in Seq(Users) /\ Len(owner') = Len(owner) + 1
        /\ Len(owner') <= MaxTokens
    BY ONLY <1>1, <2>0, <2>1, SessionAssumption DEF ServerOK
  <2>3. ServerOK' /\ AppNeedsSession'
    BY ONLY <1>1, <2>0, <2>1, <2>2 DEF ServerOK, AppNeedsSession
  <2>4. StoreOK'
    <3>1. held' \in 0..Len(owner') /\ refreshing' \in 0..Len(owner')
      BY ONLY <2>0, <2>1, <2>2
    <3>2. profile' \in Users \cup {NoUser} /\ notified' \in BOOLEAN
      BY ONLY <1>1, <2>0 DEF StoreOK
    <3> QED
      BY ONLY <1>1, <2>0, <3>1, <3>2 DEF StoreOK
  <2>5. \A c \in Calls : calls'[c] = IF c \in Waiting
            THEN [calls[c] EXCEPT !.token = held', !.retried = TRUE, !.state = "sent"]
            ELSE calls[c]
    BY <1>2 DEF RefreshAnswered
  <2>6. \A c \in Calls : calls'[c] \in CallRecords(Len(owner')) /\ calls'[c].state # "waiting"
    <3> SUFFICES ASSUME NEW c \in Calls
                 PROVE  calls'[c] \in CallRecords(Len(owner')) /\ calls'[c].state # "waiting"
      OBVIOUS
    <3>1. held' \in 0..Len(owner')
      BY <2>4 DEF StoreOK
    <3>2. calls[c] \in CallRecords(Len(owner)) /\ calls[c] \in CallRecords(Len(owner'))
      BY <1>1, <2>2 DEF CallsOK, CallRecords
    <3>3. CASE c \in Waiting
      <4>1. calls'[c] = [calls[c] EXCEPT !.token = held', !.retried = TRUE, !.state = "sent"]
        BY <2>5, <3>3
      <4> QED
        BY ONLY <3>1, <3>2, <4>1 DEF CallRecords
    <3>4. CASE c \notin Waiting
      BY <2>5, <3>2, <3>4 DEF Waiting
    <3> QED
      BY <3>3, <3>4
  <2>7. CallsOK' /\ Waiting' = {}
    BY <1>2, <2>6 DEF RefreshAnswered, CallsOK, Waiting
  <2> QED
    BY <2>0, <2>3, <2>4, <2>7, TypeOKPartsNext DEF RefreshServesItsWaiters
<1>3. CASE RefreshFails
  <2>1. owner' = owner /\ ServerOK'
    BY <1>1, <1>3 DEF RefreshFails, serverVars, ServerOK
  <2>2. CallsOK' /\ Waiting' = Waiting \ Waiting
    BY <1>1, <1>3, <2>1, EndingCalls DEF RefreshFails
  <2>3. refreshing' = 0 /\ refreshing' \in 0..Len(owner)
    BY <1>1, <1>3 DEF RefreshFails, ServerOK
  <2>4. StoreOK' /\ AppNeedsSession'
    BY <1>3, <2>1, <2>3, ForcedLogoutStores DEF RefreshFails
  <2> QED
    BY <2>1, <2>2, <2>3, <2>4, TypeOKPartsNext DEF RefreshServesItsWaiters
<1> QED
  BY <1>2, <1>3 DEF RefreshEnds

(* The clock and the administrators move nothing of the tab.               *)
LEMMA ServerMovesWell ==
    ASSUME Inv, ServerOK', owner' = owner, UNCHANGED <<storeVars, calls, refreshing, page>>
    PROVE  Inv'
BY TypeOKParts, TypeOKPartsNext
   DEF Inv, storeVars, StoreOK, CallsOK, RefreshServesItsWaiters, AppNeedsSession, Waiting

LEMMA ReloadsWell == ASSUME Inv, NEW c \in Calls, Reload(c) PROVE Inv'
<1> USE DEF Inv
<1>1. StoreOK /\ AppNeedsSession /\ ServerOK /\ CallsOK /\ SessionTypeOK
  BY TypeOKParts
<1>2. ServerOK' /\ owner' = owner /\ held' = held /\ Len(owner) \in Nat
  BY <1>1 DEF Reload, serverVars, ServerOK
<1>3. StoreOK' /\ AppNeedsSession'
  <2>1. profile' \in Users \cup {NoUser} /\ notified' \in BOOLEAN
    BY DEF Reload
  <2>2. held' \in 0..Len(owner') /\ refreshing' \in 0..Len(owner')
    BY <1>1, <1>2 DEF Reload, StoreOK
  <2> QED
    BY <2>1, <2>2 DEF Reload, StoreOK, AppNeedsSession
<1>4. \A d \in Calls : calls'[d] \in CallRecords(Len(owner')) /\ calls'[d].state # "waiting"
  <2>1. NoCall \in CallRecords(Len(owner')) /\ NoCall.state = "idle"
    BY <1>2, NoCallIsACall
  <2>2. \A n \in 0..Len(owner) :
           [NoCall EXCEPT !.kind = "me", !.token = n, !.state = "sent"] \in CallRecords(Len(owner))
    BY <1>2 DEF NoCall, CallRecords, Kinds
  <2>3. [NoCall EXCEPT !.kind = "me", !.token = held, !.state = "sent"].state = "sent"
    BY DEF NoCall
  <2> QED
    BY <1>1, <1>2, <2>1, <2>2, <2>3 DEF Reload, StoreOK
<1>5. CallsOK' /\ Waiting' = {}
  BY <1>4 DEF Reload, CallsOK, Waiting
<1> QED
  BY <1>2, <1>3, <1>5, TypeOKPartsNext DEF Reload, RefreshServesItsWaiters

LEMMA InvIsInductive == Inv /\ [SessionNext]_sessionVars => Inv'
<1> SUFFICES ASSUME Inv, [SessionNext]_sessionVars PROVE Inv'
  OBVIOUS
<1>1. ASSUME NEW c \in Calls, StartData(c) \/ StartLogout(c) \/ RestoreSession(c) PROVE Inv'
  BY <1>1, Requesting DEF StartData, StartLogout, RestoreSession, Kinds
<1>2. ASSUME NEW c \in Calls, NEW u \in Users, StartLogin(c, u) PROVE Inv'
  BY <1>2, Requesting DEF StartLogin, Kinds
<1>3. ASSUME NEW c \in Calls, Reload(c) PROVE Inv'
  BY <1>3, ReloadsWell
<1>4. ASSUME NEW c \in Calls, CallEnds(c) PROVE Inv'
  BY <1>4, CallsEndWell
<1>5. CASE RefreshEnds
  BY <1>5, RefreshEndsWell
<1>6. CASE AccessExpires \/ RefreshExpires
  <2>1. ServerOK' /\ owner' = owner /\ UNCHANGED <<storeVars, calls, refreshing, page>>
    BY <1>6, TypeOKParts DEF Inv, AccessExpires, RefreshExpires, ServerOK
  <2> QED
    BY <2>1, ServerMovesWell
<1>7. ASSUME NEW u \in Users, SetAccountStatus(u) PROVE Inv'
  <2>1. ServerOK' /\ owner' = owner /\ UNCHANGED <<storeVars, calls, refreshing, page>>
    BY <1>7, TypeOKParts DEF Inv, SetAccountStatus, ServerOK
  <2> QED
    BY <2>1, ServerMovesWell
<1>8. CASE UNCHANGED sessionVars
  <2>1. ServerOK' /\ owner' = owner /\ UNCHANGED <<storeVars, calls, refreshing, page>>
    BY <1>8, TypeOKParts DEF Inv, sessionVars, serverVars, ServerOK
  <2> QED
    BY <2>1, ServerMovesWell
<1> QED
  BY <1>1, <1>2, <1>3, <1>4, <1>5, <1>6, <1>7, <1>8 DEF SessionNext

-----------------------------------------------------------------------------
(* The state of the tab and of the server keeps its shape.                 *)
THEOREM SessionKeepsTypes == SessionSpec => []SessionTypeOK
<1>1. Inv => SessionTypeOK
  BY DEF Inv
<1> QED
  BY <1>1, SessionStarts, InvIsInductive, PTL DEF SessionSpec

(* No call is left waiting without a refresh in flight, and no refresh is   *)
(* in flight without a call that waits for it, however many calls met a     *)
(* 401 and whatever the user did meanwhile.                                *)
THEOREM NobodyWaitsForNothing == SessionSpec => []RefreshServesItsWaiters
<1>1. Inv => RefreshServesItsWaiters
  BY DEF Inv
<1> QED
  BY <1>1, SessionStarts, InvIsInductive, PTL DEF SessionSpec

(* A tab without a token never shows a page behind the guard.              *)
THEOREM SignedOutTabShowsLogin == SessionSpec => []AppNeedsSession
<1>1. Inv => AppNeedsSession
  BY DEF Inv
<1> QED
  BY <1>1, SessionStarts, InvIsInductive, PTL DEF SessionSpec

(* What ends a session in one step: the user's logout, the end of a refresh *)
(* or the second refusal of a call.                                        *)
LostFairly == held # 0 /\ held' = 0 =>
                 \/ refreshing # 0 /\ refreshing' = 0
                 \/ \E c \in Calls : Ends(c) /\ (calls[c].retried \/ calls[c].kind = "logout")

LEMMA StepsLoseFairly == Inv /\ [SessionNext]_sessionVars => LostFairly
<1> SUFFICES ASSUME Inv, [SessionNext]_sessionVars, held # 0, held' = 0
             PROVE  \/ refreshing # 0 /\ refreshing' = 0
                    \/ \E c \in Calls : Ends(c) /\ (calls[c].retried \/ calls[c].kind = "logout")
  BY DEF LostFairly
<1>0. Len(owner) \in Nat
  BY DEF Inv, SessionTypeOK
<1>1. ASSUME NEW c \in Calls, Ended({c}), InFlight(c) PROVE Ends(c)
  BY <1>1, <1>0, NoCallIsACall DEF Ended, InFlight, Ends
<1>2. ASSUME NEW c \in Calls, LogoutEnds(c) PROVE Ends(c) /\ calls[c].kind = "logout"
  BY <1>2, <1>1 DEF LogoutEnds
<1>3. ASSUME NEW c \in Calls, GiveUp(c) PROVE Ends(c) /\ calls[c].retried
  BY <1>3, <1>1 DEF GiveUp, Unauthorized, Refreshable
<1>4. ASSUME NEW c \in Calls, CallEnds(c) PROVE LogoutEnds(c) \/ GiveUp(c)
  <2>1. LoginAnswered(c) => held' # 0
    BY <1>0 DEF LoginAnswered, Inv, SessionTypeOK
  <2> QED
    BY <1>4, <2>1 DEF CallEnds, Answered, ProfileAnswered, Failed, AwaitRefresh, BlobRefused,
       storeVars
<1>5. CASE RefreshEnds
  BY <1>5 DEF RefreshEnds, RefreshAnswered, RefreshFails
<1>6. CASE \E c \in Calls : CallEnds(c)
  BY <1>6, <1>2, <1>3, <1>4
<1>7. CASE \E c \in Calls : \/ StartData(c) \/ StartLogout(c) \/ RestoreSession(c) \/ Reload(c)
                            \/ \E u \in Users : StartLogin(c, u)
  BY <1>7 DEF StartData, StartLogout, RestoreSession, StartLogin, Request, Reload, storeVars
<1>8. CASE \/ AccessExpires \/ RefreshExpires \/ \E u \in Users : SetAccountStatus(u)
           \/ UNCHANGED sessionVars
  BY <1>8 DEF AccessExpires, RefreshExpires, SetAccountStatus, sessionVars, storeVars
<1> QED
  BY <1>5, <1>6, <1>7, <1>8 DEF SessionNext

(* Nobody is signed out while a refresh could still have kept him in.      *)
THEOREM RefreshComesFirst == SessionSpec => ForcedOutOnlyAfterRefresh
<1>1. Inv /\ [SessionNext]_sessionVars => [LostFairly]_sessionVars
  BY StepsLoseFairly
<1>2. SessionSpec => [][LostFairly]_sessionVars
  BY <1>1, SessionStarts, InvIsInductive, PTL DEF SessionSpec
<1> QED
  BY <1>2 DEF ForcedOutOnlyAfterRefresh, LostFairly
=============================================================================
