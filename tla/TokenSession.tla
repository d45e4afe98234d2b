----------------------------- MODULE TokenSession -----------------------------
(***************************************************************************)
(* Who is logged in, as the browser has it: the tokens in localStorage     *)
(* (services/api/token.ts), their refresh, which all requests share        *)
(* (tokenManager.ts), the requests that answer a 401 with a refresh and    *)
(* one more try (fetch.ts, authenticatedRequest.ts), and the state that    *)
(* AuthProvider shows (hooks/useAuth.tsx).                                 *)
(*                                                                         *)
(* A login is a number; a token, a user and a user's permissions are named *)
(* by their login.  What lies between two awaits is one step, and when the *)
(* refresh is answered so is everything that awaited it: the callers run   *)
(* in microtasks, before the promise is forgotten and before any other     *)
(* event.  The server may answer a request with 401 at any time.           *)
(***************************************************************************)
EXTENDS Integers, FiniteSets

CONSTANTS
  Requests,  \* requests under way at a time
  MaxLogins  \* bound: logins, the one found in localStorage included

ASSUME SessionAssumption == IsFiniteSet(Requests) /\ MaxLogins \in Nat \ {0}

Logins == 1 .. MaxLogins

VARIABLES
  store,      \* localStorage: the access and the refresh token, 0 if there is none
  expired,    \* which of the two has expired
  shown,      \* AuthProvider: token, user, permissions, isLoading
  refreshing, \* refreshPromise: whose refresh token was sent, 0 if none is
  req,        \* per request: what it is for, what it awaits, the token it sent
  booted,     \* initAuth() has begun
  logins,     \* how many logins there were
  stray       \* history: the login ended while a refresh or a request for the
              \* user's data was under way, which then belongs to nobody

vars == <<store, expired, shown, refreshing, req, booted, logins, stray>>

Idle == [st |-> "idle", kind |-> "plain", as |-> 0, retried |-> FALSE]
NoTokens == [access |-> 0, refresh |-> 0]

Init ==
  /\ logins \in {0, 1}
  /\ store = [access |-> logins, refresh |-> logins]
  /\ expired \in SUBSET (IF logins = 0 THEN {} ELSE {"access", "refresh"})
  /\ shown = [token |-> logins, user |-> 0, permissions |-> 0, loading |-> TRUE]
  /\ refreshing = 0 /\ req = [r \in Requests |-> Idle]
  /\ booted = FALSE /\ stray = FALSE

Authenticated == shown.token # 0 /\ shown.user # 0

-----------------------------------------------------------------------------
(* Tokens.                                                                 *)

Access == IF "access" \in expired THEN 0 ELSE store.access
Refreshable == store.refresh # 0 /\ "refresh" \notin expired

\* refreshTokens(): the refresh under way, or a new one.  Mutant: a caller waits
\* for a promise nobody has made.
NotJoined == refreshing
Joined == IF refreshing # 0 THEN refreshing ELSE store.refresh

\* getValidAccessToken() for a request, and the request, if nothing is awaited.
Asked(kind) ==
  IF store.access # 0 /\ Access = 0 /\ Refreshable
  THEN [Idle EXCEPT !.st = "token", !.kind = kind]
  ELSE [Idle EXCEPT !.st = "sent", !.kind = kind, !.as = Access]

Ask(r, kind) ==
  /\ req[r] = Idle
  /\ req' = [req EXCEPT ![r] = Asked(kind)]
  /\ refreshing' = IF Asked(kind).st = "token" THEN Joined ELSE refreshing

\* A refresh, or a request whose answer names the user, is under way.
ForUser == {"init", "login", "reload"}
Pending(ended) ==
  \/ refreshing # 0
  \/ \E q \in Requests \ ended : req[q].st # "idle" /\ req[q].kind \in ForUser

\* clearAuthState() and authApi.logout(): the tokens, and by the event
\* "auth:logout" the token and the user shown; the permissions stay.  Mutants:
\* the event is not sent; its listener forgets only the token.
Silent(s) == s
LoggedOutToken(s) == [s EXCEPT !.token = 0]
LoggedOut(s) == [s EXCEPT !.token = 0, !.user = 0]

Clear(s) == store' = NoTokens /\ expired' = {} /\ shown' = LoggedOut(s)
Parted(ended) == stray' = (stray \/ Pending(ended))

-----------------------------------------------------------------------------
(* What the callers do with the answer.                                    *)

\* The user's data arrive.
Loaded(s, q) ==
  IF q.kind \notin ForUser THEN s
  ELSE [s EXCEPT !.user = q.as, !.permissions = q.as,
                 !.loading = @ /\ q.kind = "reload"]

\* The request throws.  Mutant: initAuth() ends without resetting isLoading.
KeepsLoading(s, q) == [s EXCEPT !.loading = @ /\ q.kind # "login"]
Threw(s, q) == [s EXCEPT !.loading = @ /\ q.kind \notin {"init", "login"}]

-----------------------------------------------------------------------------
(* The user and the page.                                                  *)

\* initAuth()
Boot(r) ==
  /\ ~booted /\ booted' = TRUE
  /\ IF store.access = 0
     THEN /\ shown' = [shown EXCEPT !.loading = FALSE]
          /\ UNCHANGED <<store, expired, refreshing, req, stray>>
     ELSE IF Access # 0
     THEN /\ Ask(r, "init")
          /\ shown' = [shown EXCEPT !.token = Access]
          /\ UNCHANGED <<store, expired, stray>>
     ELSE IF Refreshable
     THEN /\ req[r] = Idle
          /\ req' = [req EXCEPT ![r] = [Idle EXCEPT !.st = "start", !.kind = "init"]]
          /\ refreshing' = Joined
          /\ UNCHANGED <<store, expired, shown, stray>>
     ELSE /\ Clear([shown EXCEPT !.loading = FALSE]) /\ Parted({})
          /\ UNCHANGED <<refreshing, req>>
  /\ UNCHANGED logins

\* The form of AuthPage is sent.
Login(r) ==
  /\ booted /\ ~Authenticated /\ req[r] = Idle
  /\ \A q \in Requests : req[q].st # "idle" => req[q].kind # "login"
  /\ req' = [req EXCEPT ![r] = [Idle EXCEPT !.st = "post", !.kind = "login"]]
  /\ shown' = [shown EXCEPT !.loading = TRUE]
  /\ UNCHANGED <<store, expired, refreshing, booted, logins, stray>>

\* New tokens are stored and shown, and the user's data requested with them.
Enter(r, kind) ==
  /\ logins < MaxLogins /\ logins' = logins + 1
  /\ store' = [access |-> logins', refresh |-> logins'] /\ expired' = {}
  /\ shown' = [shown EXCEPT !.token = logins']
  /\ req' = [req EXCEPT ![r] = [Idle EXCEPT !.st = "sent", !.kind = kind, !.as = logins']]
  /\ stray' = (stray \/ Pending({r}) \/ Authenticated)
  /\ UNCHANGED <<refreshing, booted>>

LoginAnswered(r) == req[r].st = "post" /\ Enter(r, "login")

LoginRefused(r) ==
  /\ req[r].st = "post"
  /\ req' = [req EXCEPT ![r] = Idle]
  /\ shown' = Threw(shown, req[r])
  /\ UNCHANGED <<store, expired, refreshing, booted, logins, stray>>

\* OAuthCallback: the tokens come with the page's address.
OAuth(r) == ~Authenticated /\ req[r] = Idle /\ Enter(r, "reload")

\* refreshUser() after a change of the profile
Reload(r) ==
  /\ Authenticated /\ store.access # 0
  /\ Ask(r, "reload")
  /\ shown' = [shown EXCEPT !.token = store.access]
  /\ UNCHANGED <<store, expired, booted, logins, stray>>

\* Any other request
Plain(r) ==
  /\ Ask(r, "plain")
  /\ UNCHANGED <<store, expired, shown, booted, logins, stray>>

Logout ==
  /\ Authenticated
  /\ Clear(shown) /\ Parted({})
  /\ UNCHANGED <<refreshing, req, booted, logins>>

Expire(what) ==
  /\ store.access # 0 /\ expired' = expired \cup {what}
  /\ UNCHANGED <<store, shown, refreshing, req, booted, logins, stray>>

-----------------------------------------------------------------------------
(* Answers.                                                                *)

Success(r) ==
  /\ req[r].st = "sent" /\ req[r].as # 0
  /\ req' = [req EXCEPT ![r] = Idle]
  /\ shown' = Loaded(shown, req[r])
  /\ UNCHANGED <<store, expired, refreshing, booted, logins, stray>>

\* A network error, or a status other than 401.
Failure(r) ==
  /\ req[r].st = "sent"
  /\ req' = [req EXCEPT ![r] = Idle]
  /\ IF req[r].kind = "login"
     THEN Clear(Threw(shown, req[r])) /\ Parted({r})
     ELSE shown' = Threw(shown, req[r]) /\ UNCHANGED <<store, expired, stray>>
  /\ UNCHANGED <<refreshing, booted, logins>>

\* 401 with a refresh token at hand, for the first time.  Mutant: the second
\* try is not told from the first.
AlwaysFirst(q) == TRUE
FirstTry(q) == ~q.retried

Unauthorized(r) ==
  /\ req[r].st = "sent" /\ store.refresh # 0 /\ FirstTry(req[r])
  /\ req' = [req EXCEPT ![r].st = "refresh"]
  /\ refreshing' = Joined
  /\ UNCHANGED <<store, expired, shown, booted, logins, stray>>

\* 401 otherwise, or the header X-Force-Relogin.
Expelled(r) ==
  /\ req[r].st = "sent"
  /\ req' = [req EXCEPT ![r] = Idle]
  /\ Clear(Threw(shown, req[r])) /\ Parted({r})
  /\ UNCHANGED <<refreshing, booted, logins>>

Waiting == {r \in Requests : req[r].st \in {"token", "refresh", "start"}}

\* The refresh succeeds: the tokens are stored, whoever is logged in by now,
\* and every request that waited is sent.
Refreshed ==
  /\ refreshing # 0 /\ refreshing' = 0
  /\ store' = [access |-> refreshing, refresh |-> refreshing] /\ expired' = {}
  /\ req' = [r \in Requests |->
       IF r \in Waiting
       THEN [req[r] EXCEPT !.st = "sent", !.as = refreshing,
                           !.retried = @ \/ req[r].st = "refresh"]
       ELSE req[r]]
  /\ shown' = IF \E r \in Waiting : req[r].st = "start"
              THEN [shown EXCEPT !.token = refreshing] ELSE shown
  /\ UNCHANGED <<booted, logins, stray>>

\* It fails: a request that had no valid token is sent without one, one that
\* was answered 401 ends the login, and so does initAuth().
RefreshFails(why) ==
  /\ refreshing # 0 /\ refreshing' = 0
  /\ LET ends == {r \in Waiting : req[r].st # "token"}
         starting == {r \in ends : req[r].kind \in {"init", "login"}}
     IN /\ req' = [r \in Requests |->
             IF r \in ends THEN Idle
             ELSE IF r \in Waiting THEN [req[r] EXCEPT !.st = "sent", !.as = 0]
             ELSE req[r]]
        /\ IF ends = {} THEN UNCHANGED <<store, expired, shown, stray>>
           ELSE /\ Clear([shown EXCEPT !.loading = @ /\ starting = {}])
                /\ stray' = (stray \/ \E q \in Requests \ ends :
                               req[q].st # "idle" /\ req[q].kind \in ForUser)
  /\ UNCHANGED <<booted, logins>>

-----------------------------------------------------------------------------
Answer(r) ==
  \/ LoginAnswered(r) \/ LoginRefused(r)
  \/ Success(r) \/ Failure(r) \/ Unauthorized(r) \/ Expelled(r)

Next ==
  \/ \E r \in Requests :
       Boot(r) \/ Login(r) \/ OAuth(r) \/ Reload(r) \/ Plain(r) \/ Answer(r)
  \/ Logout
  \/ \E what \in {"access", "refresh"} : Expire(what)
  \/ Refreshed \/ \E why \in {"network", "refused"} : RefreshFails(why)

Spec == Init /\ [][Next]_vars

\* The page starts, and what was sent is answered somehow.
FairSpec ==
  /\ Spec
  /\ SF_vars(\E r \in Requests : Boot(r))
  /\ \A r \in Requests : WF_vars(Answer(r))
  /\ WF_vars(Refreshed \/ RefreshFails("refused"))

-----------------------------------------------------------------------------
(* Properties.                                                             *)

\* Every variable is of its shape, the permissions are those of a login, and a
\* refresh is under way when something waits for one.
TypeOK ==
  /\ store \in [access : Logins \cup {0}, refresh : Logins \cup {0}]
  /\ expired \subseteq {"access", "refresh"}
  /\ shown \in [token : Logins \cup {0}, user : Logins \cup {0},
                permissions : Logins \cup {0}, loading : BOOLEAN]
  /\ refreshing \in Logins \cup {0}
  /\ req \in [Requests -> [st : {"idle", "post", "start", "token", "sent", "refresh"},
                          kind : {"plain"} \cup ForUser, as : Logins \cup {0},
                          retried : BOOLEAN]]
  /\ booted \in BOOLEAN /\ logins \in 0 .. MaxLogins /\ stray \in BOOLEAN
  /\ Waiting # {} => refreshing # 0

\* The user shown to be logged in is the one whose token is used, over logins,
\* logouts and failures in any order, unless an answer strayed.
IdentityAgrees == ~stray /\ Authenticated => shown.user = shown.token

Settled == booted /\ refreshing = 0 /\ \A r \in Requests : req[r] = Idle

\* When nothing is under way the page knows what localStorage holds: no tokens
\* are left behind a logout, no page believes in tokens that are gone.
UiMatchesStore == ~stray /\ Settled => shown.token = store.access

\* A 401 is answered by one refresh and one more try and never by a loop of
\* them, even if the server answers 401 for ever.
RequestEnds == \A r \in Requests : req[r] # Idle ~> req[r] = Idle

\* The page does not show its skeleton for ever.
LoadingEnds == shown.loading ~> ~shown.loading

\* "network errors / server restarts should NOT clear auth state"
\* (useAuth.tsx:140-141): they do when the refresh is what failed.
NetworkErrorKeepsAuth == [][RefreshFails("network") => UNCHANGED store]_vars
=============================================================================
