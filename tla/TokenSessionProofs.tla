-------------------------- MODULE TokenSessionProofs --------------------------
(***************************************************************************)
(* Proofs about TokenSession for any number of requests and logins: its    *)
(* types, that the user shown is the owner of the token, and that the page *)
(* knows what localStorage holds, unless an answer strayed.                *)
(*                                                                         *)
(* Neither of the last two is inductive, for an answer on its way can name *)
(* another user or bring other tokens.  Agreement says what is on its way. *)
(***************************************************************************)
EXTENDS TokenSession, TLAPS

\* While nothing strayed, the page shows the token that is stored and either
\* its user or none; a refresh under way renews that login, and a request for
\* the user's data was sent in its name or without a token.
Agreement ==
  ~stray =>
    /\ shown.token = store.access /\ store.refresh = store.access
    /\ shown.user \in {0, shown.token}
    /\ refreshing \in {0, store.access}
    /\ \A q \in Requests :
         req[q].st = "sent" /\ req[q].kind \in ForUser => req[q].as \in {0, store.access}

IInv == TypeOK /\ Agreement

-----------------------------------------------------------------------------
(* Types.                                                                  *)

LEMMA TypeInit == Init => TypeOK
<1> SUFFICES ASSUME Init PROVE TypeOK
  OBVIOUS
<1>1. logins \in 0 .. MaxLogins /\ logins \in Logins \cup {0}
  BY SessionAssumption DEF Init, Logins
<1>2. expired \subseteq {"access", "refresh"}
  BY DEF Init
<1>3. \A r \in Requests : req[r] = Idle
  BY DEF Init
<1>4. req \in [Requests -> [st : {"idle", "post", "start", "token", "sent", "refresh"},
                          kind : {"plain"} \cup ForUser, as : Logins \cup {0},
                          retried : BOOLEAN]]
  BY DEF Init, Idle
<1>5. Waiting = {}
  BY <1>3 DEF Waiting, Idle
<1> QED
  BY <1>1, <1>2, <1>4, <1>5 DEF Init, TypeOK

\* The shape of a request.
RequestTypes ==
  [st : {"idle", "post", "start", "token", "sent", "refresh"},
   kind : {"plain"} \cup ForUser, as : Logins \cup {0}, retried : BOOLEAN]

\* A refresh under way is for a login, and stays if another caller joins it.
LEMMA AskTypes ==
  ASSUME TypeOK, NEW r \in Requests, NEW kind \in {"plain"} \cup ForUser, Ask(r, kind)
  PROVE  /\ req' \in [Requests -> RequestTypes] /\ refreshing' \in Logins \cup {0}
         /\ Waiting' # {} => refreshing' # 0
<1>1. Asked(kind) \in RequestTypes
  BY DEF Asked, Access, Idle, RequestTypes, TypeOK
<1>2. refreshing' \in Logins \cup {0} /\ (refreshing # 0 => refreshing' # 0)
  BY DEF Ask, Joined, TypeOK
<1>3. Asked(kind).st = "token" => refreshing' # 0
  BY DEF Ask, Asked, Joined, Refreshable, Idle, Logins
<1>4. \A q \in Waiting' : q \in Waiting \/ Asked(kind).st = "token"
  BY DEF Waiting, Ask, Asked, Idle, TypeOK
<1> QED
  BY <1>1, <1>2, <1>3, <1>4 DEF Ask, TypeOK, RequestTypes

\* A step of one request, or of the page, keeps the types.
LEMMA TypeStep == TypeOK /\ [Next]_vars => TypeOK'
<1> SUFFICES ASSUME TypeOK, [Next]_vars PROVE TypeOK'
  OBVIOUS
<1> USE SessionAssumption DEF Logins, ForUser, Idle, Waiting
<1>1. ASSUME NEW r \in Requests, Boot(r) PROVE TypeOK'
  <2>1. CASE store.access = 0
    <3>1. /\ booted' = TRUE /\ shown' = [shown EXCEPT !.loading = FALSE]
          /\ UNCHANGED <<store, expired, refreshing, req, stray, logins>>
      BY <1>1, <2>1 DEF Boot
    <3> QED
      BY <3>1 DEF TypeOK
  <2>2. CASE store.access # 0 /\ Access # 0
    <3>1. Ask(r, "init") /\ shown' = [shown EXCEPT !.token = Access]
      BY <1>1, <2>2 DEF Boot
    <3> QED
      BY <1>1, <2>2, <3>1, AskTypes DEF Boot, Access, RequestTypes, TypeOK
  <2>3. CASE store.access # 0 /\ Access = 0 /\ Refreshable
    <3>1. req' = [req EXCEPT ![r] = [Idle EXCEPT !.st = "start", !.kind = "init"]]
          /\ refreshing' = Joined /\ booted' = TRUE
          /\ UNCHANGED <<store, expired, shown, stray, logins>>
      BY <1>1, <2>3 DEF Boot
    <3>2. Joined \in Logins
      BY <2>3 DEF Refreshable, Joined, TypeOK
    <3>3. req' \in [Requests -> RequestTypes]
      BY <3>1 DEF RequestTypes, TypeOK
    <3> QED
      BY <3>1, <3>2, <3>3 DEF RequestTypes, TypeOK
  <2>4. CASE store.access # 0 /\ Access = 0 /\ ~Refreshable
    <3>1. /\ Clear([shown EXCEPT !.loading = FALSE]) /\ stray' \in BOOLEAN
          /\ booted' = TRUE /\ UNCHANGED <<refreshing, req, logins>>
      BY <1>1, <2>4 DEF Boot, Parted, Pending, TypeOK
    <3> QED
      BY <3>1 DEF Clear, LoggedOut, NoTokens, TypeOK
  <2> QED
    BY <2>1, <2>2, <2>3, <2>4
<1>2. ASSUME NEW r \in Requests, Login(r) PROVE TypeOK'
  <2>1. [Idle EXCEPT !.st = "post", !.kind = "login"] \in RequestTypes
    BY DEF RequestTypes
  <2>2. req' \in [Requests -> RequestTypes] /\ Waiting' \subseteq Waiting
    BY <1>2, <2>1 DEF Login, RequestTypes, TypeOK
  <2> QED
    BY <1>2, <2>2 DEF Login, RequestTypes, TypeOK
<1>3. ASSUME NEW r \in Requests, NEW kind \in ForUser, Enter(r, kind), req[r].st \in {"post", "idle"}
      PROVE  TypeOK'
  <2>1. logins' \in Logins /\ logins' \in 0 .. MaxLogins
    BY <1>3 DEF Enter, TypeOK
  <2>2. req' \in [Requests -> RequestTypes]
    BY <1>3, <2>1 DEF Enter, RequestTypes, TypeOK
  <2>3. Waiting' \subseteq Waiting
    BY <1>3 DEF Enter, TypeOK
  <2> QED
    BY <1>3, <2>1, <2>2, <2>3 DEF Enter, Pending, Authenticated, RequestTypes, TypeOK
<1>4. ASSUME NEW r \in Requests, LoginRefused(r) PROVE TypeOK'
  BY <1>4 DEF LoginRefused, Threw, TypeOK
<1>5. ASSUME NEW r \in Requests, Reload(r) PROVE TypeOK'
  BY <1>5, AskTypes DEF Reload, RequestTypes, TypeOK
<1>6. ASSUME NEW r \in Requests, Plain(r) PROVE TypeOK'
  BY <1>6, AskTypes DEF Plain, RequestTypes, TypeOK
<1>7. ASSUME NEW r \in Requests, Success(r) PROVE TypeOK'
  BY <1>7 DEF Success, Loaded, TypeOK
<1>8. ASSUME NEW r \in Requests, Failure(r) PROVE TypeOK'
  <2>1. Waiting' \subseteq Waiting /\ req' \in [Requests -> RequestTypes]
    BY <1>8 DEF Failure, RequestTypes, TypeOK
  <2>2. CASE req[r].kind = "login"
    <3>1. /\ Clear(Threw(shown, req[r])) /\ stray' \in BOOLEAN
          /\ UNCHANGED <<refreshing, booted, logins>>
      BY <1>8, <2>2 DEF Failure, Parted, Pending, TypeOK
    <3> QED
      BY <2>1, <3>1 DEF Clear, Threw, LoggedOut, NoTokens, RequestTypes, TypeOK
  <2>3. CASE req[r].kind # "login"
    <3>1. /\ shown' = Threw(shown, req[r])
          /\ UNCHANGED <<store, expired, stray, refreshing, booted, logins>>
      BY <1>8, <2>3 DEF Failure
    <3> QED
      BY <2>1, <3>1 DEF Threw, RequestTypes, TypeOK
  <2> QED
    BY <2>2, <2>3
<1>9. ASSUME NEW r \in Requests, Unauthorized(r) PROVE TypeOK'
  BY <1>9 DEF Unauthorized, Joined, TypeOK
<1>10. ASSUME NEW r \in Requests, Expelled(r) PROVE TypeOK'
  BY <1>10 DEF Expelled, Threw, Clear, LoggedOut, NoTokens, Parted, Pending, TypeOK
<1>11. CASE Logout
  BY <1>11 DEF Logout, Clear, LoggedOut, NoTokens, Parted, Pending, TypeOK
<1>12. ASSUME NEW what \in {"access", "refresh"}, Expire(what) PROVE TypeOK'
  BY <1>12 DEF Expire, TypeOK
<1>13. CASE Refreshed
  <2>0. refreshing \in Logins \cup {0}
    BY DEF TypeOK
  <2>1. req' \in [Requests -> RequestTypes]
    <3>1. req \in [Requests -> RequestTypes]
      BY DEF TypeOK, RequestTypes
    <3>2. ASSUME NEW q \in Requests PROVE req'[q] \in RequestTypes
      BY <1>13, <2>0, <3>1 DEF Refreshed, RequestTypes
    <3> QED
      BY <1>13, <3>2 DEF Refreshed
  <2>2. Waiting' = {}
    BY <1>13 DEF Refreshed, TypeOK
  <2>3. shown' \in [token : Logins \cup {0}, user : Logins \cup {0},
                   permissions : Logins \cup {0}, loading : BOOLEAN]
    BY <1>13 DEF Refreshed, TypeOK
  <2> QED
    BY <1>13, <2>1, <2>2, <2>3 DEF Refreshed, RequestTypes, TypeOK
<1>14. ASSUME NEW why, RefreshFails(why) PROVE TypeOK'
  <2> DEFINE ends == {r \in Waiting : req[r].st # "token"}
             starting == {r \in ends : req[r].kind \in {"init", "login"}}
  <2>1. req' = [r \in Requests |->
             IF r \in ends THEN Idle
             ELSE IF r \in Waiting THEN [req[r] EXCEPT !.st = "sent", !.as = 0]
             ELSE req[r]]
    BY <1>14 DEF RefreshFails
  <2>2. req' \in [Requests -> RequestTypes]
    <3>1. req \in [Requests -> RequestTypes] /\ Idle \in RequestTypes
      BY DEF RequestTypes, TypeOK
    <3>2. \A q \in RequestTypes : [q EXCEPT !.st = "sent", !.as = 0] \in RequestTypes
      BY DEF RequestTypes
    <3> HIDE DEF ends, Waiting, Idle
    <3> QED
      BY <2>1, <3>1, <3>2
  <2>3. Waiting' = {}
    <3> SUFFICES ASSUME NEW r \in Requests PROVE req'[r].st \notin {"token", "refresh", "start"}
      OBVIOUS
    <3>1. req[r] \in RequestTypes
      BY DEF RequestTypes, TypeOK
    <3>2. [req[r] EXCEPT !.st = "sent", !.as = 0].st = "sent"
      BY <3>1 DEF RequestTypes
    <3> QED
      BY <2>1, <3>2
  <2>4. CASE ends = {}
    <3>1. UNCHANGED <<store, expired, shown, stray, booted, logins>> /\ refreshing' = 0
      BY <1>14, <2>4 DEF RefreshFails
    <3> QED
      BY <2>2, <2>3, <3>1 DEF RequestTypes, TypeOK
  <2>5. CASE ends # {}
    <3>1. Clear([shown EXCEPT !.loading = @ /\ starting = {}]) /\ stray' \in BOOLEAN
      BY <1>14, <2>5 DEF RefreshFails, TypeOK
    <3> QED
      BY <1>14, <2>2, <2>3, <3>1 DEF RefreshFails, Clear, LoggedOut, NoTokens, RequestTypes, TypeOK
  <2> QED
    BY <2>4, <2>5
<1>15. CASE UNCHANGED vars
  BY <1>15 DEF vars, TypeOK
<1>16. ASSUME NEW r \in Requests, Answer(r) PROVE TypeOK'
  BY <1>3, <1>4, <1>7, <1>8, <1>9, <1>10, <1>16 DEF Answer, LoginAnswered
<1>17. ASSUME NEW r \in Requests, OAuth(r) PROVE TypeOK'
  BY <1>3, <1>17 DEF OAuth
<1> QED
  BY <1>1, <1>2, <1>5, <1>6, <1>11, <1>12, <1>13, <1>14, <1>15, <1>16, <1>17 DEF Next

\* Every reachable state is of the shape the code's variables have, and nothing
\* waits for a refresh that is not under way, whatever the server answers.
THEOREM TypeCorrect == Spec => []TypeOK
<1>1. Init => TypeOK
  BY TypeInit
<1>2. TypeOK /\ [Next]_vars => TypeOK'
  BY TypeStep
<1> QED
  BY <1>1, <1>2, PTL DEF Spec

-----------------------------------------------------------------------------
(* Agreement.                                                              *)

LEMMA AgreementInit == Init => Agreement
  BY DEF Init, Agreement, Idle

\* After a logout nothing is stored or shown; what is still on its way has no
\* right to either, unless it strayed.
LEMMA ClearAgrees ==
  ASSUME NEW s, Clear(s), s \in [token : Logins \cup {0}, user : Logins \cup {0},
                                 permissions : Logins \cup {0}, loading : BOOLEAN],
         ~stray' => refreshing' = 0 /\ \A q \in Requests :
                      req'[q].st = "sent" => req'[q].kind \notin ForUser
  PROVE  Agreement'
  BY DEF Clear, LoggedOut, NoTokens, Agreement

\* A request that is asked for is sent with the stored token or without one.
LEMMA AskAgrees ==
  ASSUME TypeOK, Agreement, NEW r \in Requests, NEW kind, Ask(r, kind), UNCHANGED <<store, stray>>
  PROVE  ~stray' => /\ refreshing' \in {0, store'.access}
                    /\ \A q \in Requests :
                         req'[q].st = "sent" /\ req'[q].kind \in ForUser
                           => req'[q].as \in {0, store'.access}
<1>1. Asked(kind).as \in {0, store.access}
  BY DEF Asked, Access, Idle
<1>2. \A q \in Requests : q # r => req'[q] = req[q]
  BY DEF Ask, TypeOK
<1>3. req'[r] = Asked(kind)
  BY DEF Ask, TypeOK
<1>4. ~stray => refreshing' \in {0, store.access}
  BY DEF Ask, Joined, Agreement
<1> QED
  BY <1>1, <1>2, <1>3, <1>4 DEF Agreement

\* New tokens: whoever waited for the old login's answers has strayed.
LEMMA EnterAgrees ==
  ASSUME TypeOK, Agreement, NEW r \in Requests, NEW kind \in ForUser, Enter(r, kind)
  PROVE  Agreement'
<1> SUFFICES ASSUME ~stray' PROVE Agreement'
  BY DEF Agreement
<1>1. ~stray /\ ~Pending({r}) /\ ~Authenticated /\ logins' \in Logins
  <2>1. logins' \in Logins
    BY SessionAssumption DEF Enter, TypeOK, Logins
  <2> QED
    BY <2>1 DEF Enter
<1>2. refreshing = 0 /\ \A q \in Requests \ {r} : req[q].st = "sent" => req[q].kind \notin ForUser
  BY <1>1 DEF Pending
<1>3. shown.user = 0
  BY <1>1 DEF Agreement, Authenticated
<1>4. /\ store' = [access |-> logins', refresh |-> logins'] /\ shown'.token = logins'
      /\ shown'.user = 0 /\ refreshing' = 0
  BY <1>2, <1>3 DEF Enter, TypeOK
<1>5. req'[r].as = logins' /\ \A q \in Requests \ {r} : req'[q] = req[q]
  BY DEF Enter, TypeOK, Idle
<1> QED
  BY <1>2, <1>4, <1>5 DEF Agreement

\* Each step keeps the agreement: answers are looked at with what they carry.
LEMMA AgreementStep == TypeOK /\ Agreement /\ [Next]_vars => Agreement'
<1> SUFFICES ASSUME TypeOK, Agreement, [Next]_vars PROVE Agreement'
  OBVIOUS
<1>shown. shown \in [token : Logins \cup {0}, user : Logins \cup {0},
                     permissions : Logins \cup {0}, loading : BOOLEAN]
  BY DEF TypeOK
<1>req. req \in [Requests -> RequestTypes]
  BY DEF TypeOK, RequestTypes
<1>1. ASSUME NEW r \in Requests, Boot(r) PROVE Agreement'
  <2>1. CASE store.access = 0
    BY <1>1, <2>1, <1>shown DEF Boot, Agreement
  <2>2. CASE store.access # 0 /\ Access # 0
    <3>1. /\ Ask(r, "init") /\ shown' = [shown EXCEPT !.token = Access]
          /\ UNCHANGED <<store, stray>> /\ Access = store.access
      BY <1>1, <2>2 DEF Boot, Access
    <3>2. ~stray => shown'.token = shown.token
      BY <3>1, <1>shown DEF Agreement
    <3> QED
      BY <3>1, <3>2, <1>shown, AskAgrees DEF Agreement
  <2>3. CASE store.access # 0 /\ Access = 0 /\ Refreshable
    <3>1. /\ req' = [req EXCEPT ![r] = [Idle EXCEPT !.st = "start", !.kind = "init"]]
          /\ refreshing' = Joined /\ UNCHANGED <<store, shown, stray>>
      BY <1>1, <2>3 DEF Boot
    <3>2. \A q \in Requests : req'[q].st = "sent" => req'[q] = req[q]
      BY <3>1, <1>req DEF Idle
    <3> QED
      BY <3>1, <3>2 DEF Joined, Agreement
  <2>4. CASE store.access # 0 /\ Access = 0 /\ ~Refreshable
    <3>1. /\ Clear([shown EXCEPT !.loading = FALSE]) /\ Parted({})
          /\ UNCHANGED <<refreshing, req>>
      BY <1>1, <2>4 DEF Boot
    <3> QED
      BY <3>1, <1>shown, ClearAgrees DEF Parted, Pending
  <2> QED
    BY <2>1, <2>2, <2>3, <2>4
<1>2. ASSUME NEW r \in Requests, Login(r) PROVE Agreement'
  <2>1. \A q \in Requests : req'[q].st = "sent" => req'[q] = req[q]
    BY <1>2, <1>req DEF Login, Idle
  <2> QED
    BY <1>2, <2>1, <1>shown DEF Login, Agreement
<1>3. ASSUME NEW r \in Requests, OAuth(r) PROVE Agreement'
  BY <1>3, EnterAgrees DEF OAuth, ForUser
<1>4. ASSUME NEW r \in Requests, Reload(r) PROVE Agreement'
  <2>1. /\ Ask(r, "reload") /\ shown' = [shown EXCEPT !.token = store.access]
        /\ UNCHANGED <<store, stray>>
    BY <1>4 DEF Reload
  <2>2. ~stray => shown'.token = shown.token
    BY <2>1, <1>shown DEF Agreement
  <2> QED
    BY <2>1, <2>2, <1>shown, AskAgrees DEF Agreement
<1>5. ASSUME NEW r \in Requests, Plain(r) PROVE Agreement'
  BY <1>5, AskAgrees DEF Plain, Agreement
<1>6. ASSUME NEW r \in Requests, Answer(r) PROVE Agreement'
  <2>1. CASE LoginAnswered(r)
    BY <2>1, EnterAgrees DEF LoginAnswered, ForUser
  <2>2. CASE LoginRefused(r)
    <3>1. \A q \in Requests : req'[q].st = "sent" => req'[q] = req[q]
      BY <2>2, <1>req DEF LoginRefused, Idle
    <3> QED
      BY <2>2, <3>1, <1>shown DEF LoginRefused, Threw, Agreement
  <2>3. CASE Success(r)
    <3>1. \A q \in Requests : req'[q].st = "sent" => req'[q] = req[q]
      BY <2>3, <1>req DEF Success, Idle
    <3>2. ~stray /\ req[r].kind \in ForUser => req[r].as = shown.token
      BY <2>3 DEF Success, Agreement
    <3>3. /\ shown'.token = shown.token
          /\ \/ shown'.user = shown.user
             \/ req[r].kind \in ForUser /\ shown'.user = req[r].as
      BY <2>3, <1>shown DEF Success, Loaded
    <3> QED
      BY <2>3, <3>1, <3>2, <3>3 DEF Success, Agreement
  <2>4. CASE Failure(r)
    <3>1. \A q \in Requests : req'[q].st = "sent" => q # r /\ req'[q] = req[q]
      BY <2>4, <1>req DEF Failure, Idle
    <3>2. CASE req[r].kind = "login"
      BY <2>4, <3>1, <3>2, <1>shown, ClearAgrees DEF Failure, Threw, Parted, Pending
    <3>3. CASE req[r].kind # "login"
      BY <2>4, <3>1, <3>3, <1>shown DEF Failure, Threw, Agreement
    <3> QED
      BY <3>2, <3>3
  <2>5. CASE Unauthorized(r)
    <3>1. \A q \in Requests : req'[q].st = "sent" => req'[q] = req[q]
      BY <2>5, <1>req DEF Unauthorized
    <3> QED
      BY <2>5, <3>1 DEF Unauthorized, Joined, Agreement
  <2>6. CASE Expelled(r)
    <3>1. \A q \in Requests : req'[q].st = "sent" => q # r /\ req'[q] = req[q]
      BY <2>6, <1>req DEF Expelled, Idle
    <3> QED
      BY <2>6, <3>1, <1>shown, ClearAgrees DEF Expelled, Threw, Parted, Pending
  <2> QED
    BY <1>6, <2>1, <2>2, <2>3, <2>4, <2>5, <2>6 DEF Answer
<1>7. CASE Logout
  BY <1>7, <1>shown, ClearAgrees DEF Logout, Parted, Pending
<1>8. ASSUME NEW what \in {"access", "refresh"}, Expire(what) PROVE Agreement'
  BY <1>8 DEF Expire, Agreement
<1>9. CASE Refreshed
  <2>1. \A q \in Requests : req'[q].as = refreshing \/ req'[q] = req[q]
    BY <1>9, <1>req DEF Refreshed, RequestTypes
  <2>2. store' = [access |-> refreshing, refresh |-> refreshing] /\ UNCHANGED stray
    BY <1>9 DEF Refreshed
  <2>3. shown'.token \in {shown.token, refreshing} /\ shown'.user = shown.user
    BY <1>9, <1>shown DEF Refreshed
  <2>4. ~stray => refreshing = store.access
    BY <1>9 DEF Refreshed, Agreement
  <2>5. refreshing' = 0
    BY <1>9 DEF Refreshed
  <2>6. ASSUME ~stray, NEW q \in Requests, req'[q].st = "sent", req'[q].kind \in ForUser
        PROVE  req'[q].as \in {0, refreshing}
    BY <2>1, <2>4, <2>6 DEF Agreement
  <2> QED
    BY <2>2, <2>3, <2>4, <2>5, <2>6 DEF Agreement
<1>10. ASSUME NEW why, RefreshFails(why) PROVE Agreement'
  <2> DEFINE ends == {r \in Waiting : req[r].st # "token"}
             starting == {r \in ends : req[r].kind \in {"init", "login"}}
  <2>1. req' = [r \in Requests |->
             IF r \in ends THEN Idle
             ELSE IF r \in Waiting THEN [req[r] EXCEPT !.st = "sent", !.as = 0]
             ELSE req[r]]
    BY <1>10 DEF RefreshFails
  <2>2. \A q \in Requests : req'[q].st = "sent" =>
          /\ q \notin ends /\ req'[q].kind = req[q].kind /\ req[q].st # "idle"
          /\ req'[q].as = 0 \/ req'[q] = req[q]
    BY <2>1, <1>req DEF Idle, RequestTypes, Waiting
  <2>3. CASE ends = {}
    BY <1>10, <2>2, <2>3 DEF RefreshFails, Agreement
  <2>4. CASE ends # {}
    <3>1. /\ Clear([shown EXCEPT !.loading = @ /\ starting = {}]) /\ refreshing' = 0
          /\ stray' = (stray \/ \E q \in Requests \ ends :
                               req[q].st # "idle" /\ req[q].kind \in ForUser)
      BY <1>10, <2>4 DEF RefreshFails
    <3>2. [shown EXCEPT !.loading = @ /\ starting = {}]
            \in [token : Logins \cup {0}, user : Logins \cup {0},
                permissions : Logins \cup {0}, loading : BOOLEAN]
      BY <1>shown
    <3> QED
      BY <2>2, <3>1, <3>2, ClearAgrees
  <2> QED
    BY <2>3, <2>4
<1>11. CASE UNCHANGED vars
  BY <1>11 DEF vars, Agreement
<1> QED
  BY <1>1, <1>2, <1>3, <1>4, <1>5, <1>6, <1>7, <1>8, <1>9, <1>10, <1>11 DEF Next

LEMMA IInvAlways == Spec => []IInv
<1>1. Init => IInv
  BY TypeInit, AgreementInit DEF IInv
<1>2. IInv /\ [Next]_vars => IInv'
  BY TypeStep, AgreementStep DEF IInv
<1> QED
  BY <1>1, <1>2, PTL DEF Spec

\* Unless an answer strayed, the user shown as logged in is the one in whose
\* name requests are sent, for any number of logins, logouts and failures.
THEOREM UserOwnsToken == Spec => []IdentityAgrees
<1>1. IInv => IdentityAgrees
  BY DEF IInv, Agreement, IdentityAgrees, Authenticated
<1> QED
  BY <1>1, IInvAlways, PTL

\* Unless an answer strayed, the page believes in exactly the tokens that are
\* stored.
THEOREM PageKnowsStore == Spec => []UiMatchesStore
<1>1. IInv => UiMatchesStore
  BY DEF IInv, Agreement, UiMatchesStore
<1> QED
  BY <1>1, IInvAlways, PTL
=============================================================================
