--------------------------- MODULE SessionClient ---------------------------
(***************************************************************************)
(* The session of one browser tab: the HTTP client that renews an expired  *)
(* access token once for all the calls that met a 401, the stores that     *)
(* keep the tokens and the profile, the route guard, and the server's side *)
(* of it (tokens expire, accounts are disabled).  Everything the tab does  *)
(* between two answers of the server is one step.                          *)
(***************************************************************************)
EXTENDS Integers, Sequences

CONSTANTS Calls,       \* what the tab can have in flight
          Users,       \* accounts
          NoUser,      \* no profile loaded
          MaxTokens    \* bound: token pairs issued

ASSUME SessionAssumption == NoUser \notin Users /\ MaxTokens \in Nat

VARIABLES
    owner,           \* owner[n]: the account of the n-th pair of tokens issued
    accessExpired,   \* the access tokens up to this one have expired
    refreshExpired,  \* the refresh tokens up to this one have expired
    enabled,         \* accounts whose status is enabled
    held,            \* the pair in the store and in localStorage; 0: none
    profile,         \* whose profile and permissions the stores hold
    notified,        \* HttpClient.hasNotifiedUnauthorized
    calls,           \* the requests of the tab
    refreshing,      \* the pair the shared refresh has sent; 0: none in flight
    page             \* not mounted yet, the login page, or behind the guard

serverVars == <<owner, accessExpired, refreshExpired, enabled>>
storeVars == <<held, profile, notified>>
sessionVars == <<serverVars, storeVars, calls, refreshing, page>>

Kinds == {"data", "blob", "login", "entry", "me", "logout"}
NoCall == [kind |-> "data", user |-> NoUser, token |-> 0, retried |-> FALSE, state |-> "idle"]

\* The calls when n pairs of tokens have been issued.
CallRecords(n) == [kind : Kinds, user : Users \cup {NoUser}, token : 0..n,
                   retried : BOOLEAN, state : {"idle", "sent", "waiting"}]

SessionTypeOK ==
    /\ owner \in Seq(Users) /\ Len(owner) <= MaxTokens
    /\ refreshExpired \in 0..accessExpired /\ accessExpired \in 0..Len(owner)
    /\ enabled \subseteq Users
    /\ held \in 0..Len(owner)
    /\ profile \in Users \cup {NoUser}
    /\ notified \in BOOLEAN
    /\ calls \in [Calls -> CallRecords(Len(owner))]
    /\ \A c \in Calls : calls[c].state = "waiting" => ~calls[c].retried
    /\ refreshing \in 0..Len(owner)
    /\ page \in {"loading", "login", "app"}

InFlight(c) == calls[c].state = "sent"
Waiting == {c \in Calls : calls[c].state = "waiting"}
AccessValid(n) == n > accessExpired /\ owner[n] \in enabled
RefreshValid(n) == n > refreshExpired /\ owner[n] \in enabled

-----------------------------------------------------------------------------
(* The calls the tab makes; each carries the token held at that moment.    *)

Request(c, kind, user) ==
    /\ calls[c].state = "idle"
    /\ calls' = [calls EXCEPT ![c] = [kind |-> kind, user |-> user, token |-> held,
                                      retried |-> FALSE, state |-> "sent"]]
    /\ UNCHANGED <<serverVars, storeVars, refreshing, page>>

StartData(c) == page = "app" /\ \E kind \in {"data", "blob"} : Request(c, kind, NoUser)

StartLogin(c, u) ==
    /\ page = "login"
    /\ \A d \in Calls : calls[d].kind \in {"login", "entry"} => calls[d].state = "idle"
    /\ Request(c, "login", u)

StartLogout(c) == page = "app" /\ Request(c, "logout", NoUser)

(* The guard of a navigation finds a token and no profile.                 *)
RestoreSession(c) == page = "app" /\ held # 0 /\ profile = NoUser /\ Request(c, "me", NoUser)

-----------------------------------------------------------------------------
(* What the tab does when calls end.                                       *)

(* The guard sends a tab without a token to the login page.  It decides at *)
(* the end of restoreSession, unless the tab was sent to the login page in *)
(* the meantime, which cancels the navigation that was waiting.            *)
\* Variant: a navigation that asks for no token.
LandingAlways(h) == "app"

Landing(h) == IF h = 0 THEN "login" ELSE "app"
PageAfter(cs, h) ==
    IF page # "login" /\ \E c \in cs : calls[c].kind = "me" THEN Landing(h) ELSE page

\* Variant: a refresh belongs to one call, the others are forgotten.
EndedFirst(cs) ==
    calls' = [c \in Calls |-> IF cs # {} /\ c = CHOOSE d \in cs : TRUE THEN NoCall ELSE calls[c]]

Ended(cs) == calls' = [c \in Calls |-> IF c \in cs THEN NoCall ELSE calls[c]]

ForceLogout(cs) ==
    IF notified
    THEN /\ page' = PageAfter(cs, held)
         /\ UNCHANGED storeVars
    ELSE /\ notified' = TRUE
         /\ held' = 0
         /\ profile' = NoUser
         /\ page' = "login"

(* An answer that needs no token, or whose token the server accepts.       *)
Answered(c) ==
    /\ InFlight(c) /\ calls[c].kind \in {"data", "blob"}
    /\ AccessValid(calls[c].token)
    /\ Ended({c})
    /\ UNCHANGED <<serverVars, storeVars, refreshing, page>>

ProfileAnswered(c) ==
    /\ InFlight(c) /\ calls[c].kind \in {"entry", "me"}
    /\ AccessValid(calls[c].token)
    /\ profile' = owner[calls[c].token]
    /\ page' = IF calls[c].kind = "entry" THEN Landing(held) ELSE PageAfter({c}, held)
    /\ Ended({c})
    /\ UNCHANGED <<serverVars, held, notified, refreshing>>

LoginAnswered(c) ==
    /\ InFlight(c) /\ calls[c].kind = "login"
    /\ calls[c].user \in enabled
    /\ Len(owner) < MaxTokens
    /\ owner' = Append(owner, calls[c].user)
    /\ held' = Len(owner')
    /\ calls' = [calls EXCEPT ![c] = [kind |-> "entry", user |-> NoUser, token |-> held',
                                      retried |-> FALSE, state |-> "sent"]]
    /\ UNCHANGED <<accessExpired, refreshExpired, enabled, profile, notified, refreshing, page>>

(* Answered or not, the local session is cleared.                          *)
LogoutEnds(c) ==
    /\ InFlight(c) /\ calls[c].kind = "logout"
    /\ held' = 0
    /\ profile' = NoUser
    /\ page' = "login"
    /\ Ended({c})
    /\ UNCHANGED <<serverVars, notified, refreshing>>

(* No answer, or an error other than 401.                                  *)
Failed(c) ==
    /\ InFlight(c) /\ calls[c].kind # "logout"
    /\ Ended({c})
    /\ page' = PageAfter({c}, held)
    /\ UNCHANGED <<serverVars, storeVars, refreshing>>

(* 401: an expired token, a disabled account, or a wrong password.         *)
Unauthorized(c) ==
    /\ InFlight(c)
    /\ \/ calls[c].kind \in {"data", "blob", "entry", "me"} /\ ~AccessValid(calls[c].token)
       \/ calls[c].kind = "login"

\* Variant: a second 401 gives up while a refresh is in flight.
RefreshableAlone(c) == ~calls[c].retried /\ refreshing = 0 /\ held # 0

Refreshable(c) == ~calls[c].retried /\ (refreshing # 0 \/ held # 0)

AwaitRefresh(c) ==
    /\ Unauthorized(c) /\ calls[c].kind # "blob"
    /\ Refreshable(c)
    /\ refreshing' = IF refreshing = 0 THEN held ELSE refreshing
    /\ calls' = [calls EXCEPT ![c].state = "waiting"]
    /\ UNCHANGED <<serverVars, storeVars, page>>

GiveUp(c) ==
    /\ Unauthorized(c) /\ calls[c].kind # "blob"
    /\ ~Refreshable(c)
    /\ ForceLogout({c})
    /\ Ended({c})
    /\ UNCHANGED <<serverVars, refreshing>>

BlobRefused(c) ==
    /\ Unauthorized(c) /\ calls[c].kind = "blob"
    /\ Ended({c})
    /\ UNCHANGED <<serverVars, storeVars, refreshing, page>>

-----------------------------------------------------------------------------
(* The shared refresh.                                                     *)

RefreshAnswered ==
    /\ refreshing # 0 /\ RefreshValid(refreshing)
    /\ Len(owner) < MaxTokens
    /\ owner' = Append(owner, owner[refreshing])
    /\ held' = Len(owner')
    /\ notified' = FALSE
    /\ calls' = [c \in Calls |->
                    IF c \in Waiting
                    THEN [calls[c] EXCEPT !.token = held', !.retried = TRUE, !.state = "sent"]
                    ELSE calls[c]]
    /\ refreshing' = 0
    /\ UNCHANGED <<accessExpired, refreshExpired, enabled, profile, page>>

(* Refused, or no answer: every waiting call ends.                         *)
RefreshFails ==
    /\ refreshing # 0
    /\ Ended(Waiting)
    /\ ForceLogout(Waiting)
    /\ refreshing' = 0
    /\ UNCHANGED serverVars

-----------------------------------------------------------------------------
(* The rest of the world.                                                  *)

AccessExpires ==
    /\ accessExpired < Len(owner)
    /\ accessExpired' = accessExpired + 1
    /\ UNCHANGED <<owner, refreshExpired, enabled, storeVars, calls, refreshing, page>>

RefreshExpires ==
    /\ refreshExpired < accessExpired
    /\ refreshExpired' = refreshExpired + 1
    /\ UNCHANGED <<owner, accessExpired, enabled, storeVars, calls, refreshing, page>>

SetAccountStatus(u) ==
    /\ enabled' = IF u \in enabled THEN enabled \ {u} ELSE enabled \cup {u}
    /\ UNCHANGED <<owner, accessExpired, refreshExpired, storeVars, calls, refreshing, page>>

(* The tab is loaded anew at an address behind the guard: only localStorage *)
(* survives, and the profile is asked for before the application mounts.   *)
Reload(c) ==
    /\ page # "loading"
    /\ profile' = NoUser
    /\ notified' = FALSE
    /\ refreshing' = 0
    /\ page' = IF held = 0 THEN "login" ELSE "loading"
    /\ calls' = [d \in Calls |-> IF d = c /\ held # 0
                                 THEN [NoCall EXCEPT !.kind = "me", !.token = held, !.state = "sent"]
                                 ELSE NoCall]
    /\ UNCHANGED <<serverVars, held>>

SessionInit ==
    /\ owner = <<>>
    /\ accessExpired = 0
    /\ refreshExpired = 0
    /\ enabled = Users
    /\ held = 0
    /\ profile = NoUser
    /\ notified = FALSE
    /\ calls = [c \in Calls |-> NoCall]
    /\ refreshing = 0
    /\ page = "login"

CallEnds(c) ==
    \/ Answered(c) \/ ProfileAnswered(c) \/ LoginAnswered(c) \/ LogoutEnds(c)
    \/ Failed(c) \/ AwaitRefresh(c) \/ GiveUp(c) \/ BlobRefused(c)

\* Variant: a refresh that is refused waits for a refresh, that is for itself.
RefreshEndsUnguarded == RefreshAnswered \/ (RefreshValid(refreshing) /\ RefreshFails)

RefreshEnds == RefreshAnswered \/ RefreshFails

SessionNext ==
    \/ \E c \in Calls :
          \/ StartData(c) \/ StartLogout(c) \/ RestoreSession(c) \/ Reload(c)
          \/ CallEnds(c)
          \/ \E u \in Users : StartLogin(c, u)
    \/ RefreshEnds
    \/ AccessExpires \/ RefreshExpires
    \/ \E u \in Users : SetAccountStatus(u)

(* Every request of a browser ends with an answer or an error.             *)
SessionFairness == WF_sessionVars(RefreshEnds) /\ \A c \in Calls : WF_sessionVars(CallEnds(c))

SessionSpec == SessionInit /\ [][SessionNext]_sessionVars /\ SessionFairness

-----------------------------------------------------------------------------
(* A call waits exactly while the shared refresh is in flight: no caller is *)
(* left behind when it settles, and no token is fetched for nobody          *)
(* (refreshAccessToken in http.ts).                                        *)
RefreshServesItsWaiters == refreshing # 0 <=> Waiting # {}

(* A page behind the route guard is never shown to a tab without a token,  *)
(* whatever answers come late (the guard, forceLogout, handleLogout).      *)
AppNeedsSession == page = "app" => held # 0

(* A session is taken from its user only by his logout, or after a refresh  *)
(* was tried: it failed, or the call it was made for was refused again      *)
(* (request and notifyUnauthorized in http.ts).                            *)
Ends(c) == calls[c].state # "idle" /\ calls'[c].state = "idle"
ForcedOutOnlyAfterRefresh ==
    [][held # 0 /\ held' = 0 =>
          \/ refreshing # 0 /\ refreshing' = 0
          \/ \E c \in Calls : Ends(c) /\ (calls[c].retried \/ calls[c].kind = "logout")]_sessionVars

(* Every call ends, those that wait for the shared refresh included: the    *)
(* request for a refresh never waits for a refresh itself (request, guard   *)
(* on '/auth/refresh').  The mount of the application waits for such a call.*)
EveryCallSettles == \A c \in Calls : calls[c].state # "idle" ~> calls[c].state = "idle"
=============================================================================
