--------------------------- MODULE ClientSession ---------------------------
(***************************************************************************)
(* The session of a browser, as a page's requests see it.  The tokens are  *)
(* in the storage all tabs share, so that they may change hands while a    *)
(* request of this page is under way.  A request the server answers with   *)
(* 401 refreshes the access token and is sent once more.                   *)
(*                                                                         *)
(* A token is the user it was made out to, and whether it is still valid;  *)
(* what the server does with a request, and the page with the answer, is   *)
(* left to the module of the page.                                         *)
(***************************************************************************)
EXTENDS Integers

CONSTANTS
    Users,
    MaxElsewhere,  \* bound on logins and logouts in other tabs
    Nobody

ASSUME SessionAssumption == Nobody \notin Users /\ MaxElsewhere \in Nat

VARIABLES
    access,    \* access_token
    refresh,   \* refresh_token: the user it was made out to
    request,   \* the request of the page
    elsewhere  \* logins and logouts of other tabs so far

sessionVars == <<access, refresh, request, elsewhere>>

Idle == [op |-> "none", at |-> "idle", token |-> Nobody, retry |-> FALSE]

InitSession(u) ==
    /\ access = [user |-> u, fresh |-> TRUE]
    /\ refresh = u
    /\ request = Idle
    /\ elsewhere = 0

Sent == request.at = "sent"

\* RequireAuth, on the token the request carries.
Authorized == request.token # Nobody /\ request.token.fresh

\* authHeaders: the token of the moment.
Send(op) ==
    /\ request.at = "idle"
    /\ request' = [op |-> op, at |-> "sent", token |-> access, retry |-> TRUE]
    /\ UNCHANGED <<access, refresh, elsewhere>>

Over == request' = Idle /\ UNCHANGED <<access, refresh, elsewhere>>

\* forceLogout.  The page is gone with it.
ForceLogout ==
    /\ access' = Nobody /\ refresh' = Nobody
    /\ request' = Idle
    /\ UNCHANGED elsewhere

\* 401, the first time: the refresh token of this moment is sent.
AskRefresh ==
    /\ Sent /\ ~Authorized /\ request.retry /\ refresh # Nobody
    /\ request' = [request EXCEPT !.at = "refreshing", !.token = refresh]
    /\ UNCHANGED <<access, refresh, elsewhere>>

\* 401, and there is no refresh token.
CannotRefresh == Sent /\ ~Authorized /\ request.retry /\ refresh = Nobody /\ ForceLogout

\* The tokens are stored, whatever has become of the session meanwhile, and
\* the request goes out again.
Refreshed ==
    /\ request.at = "refreshing"
    /\ access' = [user |-> request.token, fresh |-> TRUE]
    /\ refresh' = request.token
    /\ request' = [request EXCEPT !.at = "sent", !.token = access', !.retry = FALSE]
    /\ UNCHANGED elsewhere

\* The refresh token is refused, or the network fails.
RefreshFails == request.at = "refreshing" /\ ForceLogout

-----------------------------------------------------------------------------
(* What happens meanwhile *)

\* Fifteen minutes have passed.
AccessExpires ==
    /\ access # Nobody /\ access.fresh
    /\ access' = [access EXCEPT !.fresh = FALSE]
    /\ request' = IF Sent /\ request.token # Nobody THEN [request EXCEPT !.token.fresh = FALSE] ELSE request
    /\ UNCHANGED <<refresh, elsewhere>>

LogInElsewhere(u) ==
    /\ elsewhere < MaxElsewhere
    /\ elsewhere' = elsewhere + 1
    /\ access' = [user |-> u, fresh |-> TRUE] /\ refresh' = u
    /\ UNCHANGED request

LogOutElsewhere ==
    /\ elsewhere < MaxElsewhere
    /\ elsewhere' = elsewhere + 1
    /\ access' = Nobody /\ refresh' = Nobody
    /\ UNCHANGED request

Meanwhile == AccessExpires \/ LogOutElsewhere \/ \E u \in Users : LogInElsewhere(u)

=============================================================================
