----------------------------- MODULE SocketClient -----------------------------
(***************************************************************************)
(* useWebSocket (frontend/src/hooks/useWebSocket.ts): the browser's side   *)
(* of the notification socket.  connect() awaits a token and opens a       *)
(* socket, onclose decides about a retry, an effect on `enabled` connects  *)
(* and disconnects, and all of them share a handful of refs.               *)
(*                                                                         *)
(* What lies between two awaits or events is one step.  A socket whose     *)
(* onclose has run is "none" and its name is used again.  The delay of a   *)
(* retry and the attempt counter it comes from are left out: no property   *)
(* is about a time.  connect is only ever called by closures made while    *)
(* `enabled` was true, which is why onclose never finds it false.          *)
(***************************************************************************)
EXTENDS Integers, FiniteSets

CONSTANTS
  Sockets,         \* WebSocket objects alive at a time
  Calls,           \* connect() calls in flight at a time
  Timers,          \* setTimeout handles
  None,            \* no socket, no timer
  MaxAuthFailures, \* MAX_AUTH_FAILURES
  HeldTokens,      \* what getRefreshToken() may find: a set of booleans
  MaxToggles,      \* bound: changes of `enabled`
  MaxDrops,        \* bound: closes by the server or the network
  MaxMissing,      \* bound: times getValidAccessToken() answers null
  MaxRefreshFails  \* bound: refreshes that fail

ASSUME SocketAssumption ==
  /\ IsFiniteSet(Sockets) /\ IsFiniteSet(Calls) /\ IsFiniteSet(Timers)
  /\ None \notin Sockets \cup Timers
  /\ MaxAuthFailures \in Nat \ {0} /\ HeldTokens \subseteq BOOLEAN
  /\ {MaxToggles, MaxDrops, MaxMissing, MaxRefreshFails} \subseteq Nat

VARIABLES
  mounted,         \* "new", "yes", "no": isMountedRef and whether the effect ran
  enabled,         \* the prop
  isConnected,     \* the state shown to the user
  isConnecting, isDisconnecting, wsRef, authFailures,
  timerRef,        \* reconnectTimeoutRef
  armed,           \* timers that will fire: "none", "backoff", "cooldown"
  socket,          \* per socket: its ready state as the callbacks see it
  code,            \* per socket: why it is closing
  call,            \* per connect() call: what it awaits
  refresh,         \* per closed socket: the refresh its onclose awaits
  spent,           \* how much of each bound is used
  upsets           \* history: "refused", enabled again before onclose ran;
                   \* "second", a socket opened next to one not yet closed

refs == <<isConnecting, isDisconnecting, wsRef>>
timing == <<timerRef, armed>>
vars == <<mounted, enabled, isConnected, refs, authFailures, timing,
          socket, code, call, refresh, spent, upsets>>

Live(s) == socket[s] \in {"connecting", "open", "authed"}

Init ==
  /\ mounted = "new" /\ enabled \in BOOLEAN
  /\ isConnected = FALSE /\ isConnecting = FALSE /\ isDisconnecting = FALSE
  /\ wsRef = None /\ authFailures = 0
  /\ timerRef = None /\ armed = [t \in Timers |-> "none"]
  /\ socket = [s \in Sockets |-> "none"] /\ code = [s \in Sockets |-> "none"]
  /\ call = [c \in Calls |-> "none"] /\ refresh = [s \in Sockets |-> "none"]
  /\ spent = [toggles |-> 0, drops |-> 0, missing |-> 0, refreshFails |-> 0]
  /\ upsets = {}

Spend(what, bound) ==
  /\ spent[what] < bound
  /\ spent' = [spent EXCEPT ![what] = @ + 1]

-----------------------------------------------------------------------------
(* connect()                                                               *)

\* The call ends at once.
Refuses(ws, connecting, disconnecting) ==
  \/ mounted' # "yes" \/ connecting \/ disconnecting
  \/ ws # None /\ Live(ws)

\* The synchronous part of connect(), with the refs as they are when it is
\* called; mounted' because an effect may just have set it.
Connect(ws, connecting, disconnecting) ==
  IF Refuses(ws, connecting, disconnecting)
  THEN /\ wsRef' = ws /\ isConnecting' = connecting
       /\ isDisconnecting' = disconnecting /\ UNCHANGED call
  ELSE \E c \in {d \in Calls : call[d] = "none"} :
         /\ wsRef' = None
         /\ isConnecting' = (ws = None)
         /\ isDisconnecting' = (ws # None)
         /\ call' = [call EXCEPT ![c] = IF ws = None THEN "token" ELSE "pause"]

\* The 100 ms after closing an old socket are over.
Resume(c) ==
  /\ call[c] = "pause"
  /\ isDisconnecting' = FALSE /\ isConnecting' = TRUE
  /\ call' = [call EXCEPT ![c] = "token"]
  /\ UNCHANGED <<mounted, enabled, isConnected, wsRef, authFailures, timing,
                 socket, code, refresh, spent, upsets>>

\* The component is gone.  Mutant: nobody looks again after the await.
GoneUnchecked == FALSE
Gone == mounted # "yes"

\* The token arrives and a socket is opened.
OpenSocket(c) ==
  /\ call[c] = "token" /\ ~Gone
  /\ \E s \in {r \in Sockets : socket[r] = "none" /\ refresh[r] = "none"} :
       /\ socket' = [socket EXCEPT ![s] = "connecting"]
       /\ wsRef' = s
  /\ upsets' = upsets \cup
       IF \E s \in Sockets : socket[s] # "none" THEN {"second"} ELSE {}
  /\ call' = [call EXCEPT ![c] = "none"]
  /\ UNCHANGED <<mounted, enabled, isConnected, isConnecting, isDisconnecting,
                 authFailures, timing, code, refresh, spent>>

\* No socket is opened, and isConnectingRef keeps its value.
GiveUp(c) ==
  /\ call[c] = "token"
  /\ \/ Gone /\ UNCHANGED spent
     \/ Spend("missing", MaxMissing)
  /\ call' = [call EXCEPT ![c] = "none"]
  /\ UNCHANGED <<mounted, enabled, isConnected, refs, authFailures, timing,
                 socket, code, refresh, upsets>>

-----------------------------------------------------------------------------
(* The socket's callbacks.                                                 *)

\* onopen sends the token.
OnOpen(s) ==
  /\ socket[s] = "connecting"
  /\ socket' = [socket EXCEPT ![s] = "open"]
  /\ UNCHANGED <<mounted, enabled, isConnected, refs, authFailures, timing,
                 code, call, refresh, spent, upsets>>

\* onmessage with auth:ok.
AuthOk(s) ==
  /\ socket[s] = "open"
  /\ socket' = [socket EXCEPT ![s] = "authed"]
  /\ isConnecting' = FALSE /\ isConnected' = TRUE /\ authFailures' = 0
  /\ UNCHANGED <<mounted, enabled, isDisconnecting, wsRef, timing, code, call,
                 refresh, spent, upsets>>

\* The server rejects the token (4001) or the connection breaks; onclose is
\* queued, and onerror with it when the socket never opened.
Drop(s) ==
  /\ Live(s)
  /\ \E why \in {"network", "4001"} :
       /\ why = "4001" => socket[s] = "open"
       /\ code' = [code EXCEPT ![s] = why]
  /\ socket' = [socket EXCEPT ![s] = "dropped"]
  /\ Spend("drops", MaxDrops)
  /\ UNCHANGED <<mounted, enabled, isConnected, refs, authFailures, timing,
                 call, refresh, upsets>>

\* The handle replaces the one in the ref.
Arm(kind) ==
  \E t \in {u \in Timers : armed[u] = "none"} :
    /\ armed' = [armed EXCEPT ![t] = kind]
    /\ timerRef' = t

\* A retry with backoff, unless one is due or the client closed the socket.
\* Mutant: a due retry is not looked for and none is made after a rejection.
BackoffDropped(manual, why) ==
  IF why = "network" /\ ~manual THEN Arm("backoff") ELSE UNCHANGED timing
Backoff(manual, why) ==
  IF timerRef = None /\ ~manual THEN Arm("backoff") ELSE UNCHANGED timing

\* A rejected token with no way to refresh it.
Rejected(manual) ==
  /\ authFailures' = authFailures + 1
  /\ IF authFailures + 1 < MaxAuthFailures
     THEN Backoff(manual, "4001")
     ELSE IF manual THEN UNCHANGED timing ELSE Arm("cooldown")

OnClose(s) ==
  /\ socket[s] \in {"dropped", "closing"}
  /\ isConnecting' = FALSE /\ isConnected' = FALSE
  /\ isDisconnecting' = FALSE /\ wsRef' = None
  /\ \/ /\ code[s] = "4001" /\ TRUE \in HeldTokens
        /\ refresh' = [refresh EXCEPT ![s] =
                         IF isDisconnecting THEN "manual" ELSE "auto"]
        /\ UNCHANGED <<authFailures, timing>>
     \/ /\ code[s] = "4001" /\ FALSE \in HeldTokens
        /\ Rejected(isDisconnecting) /\ UNCHANGED refresh
     \/ /\ code[s] # "4001"
        /\ authFailures' = 0
        /\ Backoff(isDisconnecting, "network") /\ UNCHANGED refresh
  /\ socket' = [socket EXCEPT ![s] = "none"]
  /\ code' = [code EXCEPT ![s] = "none"]
  /\ UNCHANGED <<mounted, enabled, call, spent, upsets>>

\* The refresh after a 4001 succeeds.  Mutant: nothing is done with it.
NoReconnect(s) == UNCHANGED <<refs, call>>
Reconnect(s) ==
  IF mounted = "yes" /\ refresh[s] = "auto"
  THEN Connect(wsRef, isConnecting, isDisconnecting)
  ELSE UNCHANGED <<refs, call>>

Refreshed(s) ==
  /\ refresh[s] # "none"
  /\ refresh' = [refresh EXCEPT ![s] = "none"]
  /\ authFailures' = 0
  /\ UNCHANGED mounted
  /\ Reconnect(s)
  /\ UNCHANGED <<enabled, isConnected, timing, socket, code, spent, upsets>>

\* It fails: a failure is counted and nothing else happens.
RefreshFails(s) ==
  /\ refresh[s] # "none"
  /\ Spend("refreshFails", MaxRefreshFails)
  /\ refresh' = [refresh EXCEPT ![s] = "none"]
  /\ authFailures' = authFailures + 1
  /\ UNCHANGED <<mounted, enabled, isConnected, refs, timing, socket, code,
                 call, upsets>>

\* The cooldown retry counts from zero again.  Mutant: it does not.
CountOn(t) == authFailures
CountAgain(t) == IF armed[t] = "cooldown" THEN 0 ELSE authFailures

\* A retry is due.
Fire(t) ==
  /\ armed[t] # "none"
  /\ armed' = [armed EXCEPT ![t] = "none"] /\ timerRef' = None
  /\ authFailures' = CountAgain(t)
  /\ UNCHANGED mounted
  /\ Connect(wsRef, isConnecting, isDisconnecting)
  /\ UNCHANGED <<enabled, isConnected, socket, code, refresh, spent, upsets>>

-----------------------------------------------------------------------------
(* disconnect() and the effect on `enabled`.                               *)

\* The socket in the ref is closed.  Mutant: the ref alone is cleared.
LeaveOpen == UNCHANGED <<socket, code>>
CloseCurrent ==
  IF wsRef = None \/ ~Live(wsRef)
  THEN UNCHANGED <<socket, code>>
  ELSE /\ socket' = [socket EXCEPT ![wsRef] = "closing"]
       /\ code' = [code EXCEPT ![wsRef] = "normal"]

\* disconnect(), without what it does to isConnecting, isDisconnecting and wsRef.
Disconnect ==
  /\ armed' = [t \in Timers |-> IF t = timerRef THEN "none" ELSE armed[t]]
  /\ timerRef' = None
  /\ CloseCurrent
  /\ isConnected' = FALSE /\ authFailures' = 0

Disconnecting == isDisconnecting \/ wsRef # None

Mount ==
  /\ mounted = "new" /\ mounted' = "yes"
  /\ IF enabled THEN Connect(wsRef, isConnecting, isDisconnecting)
                ELSE UNCHANGED <<refs, call>>
  /\ UNCHANGED <<enabled, isConnected, authFailures, timing, socket, code,
                 refresh, spent, upsets>>

\* The cleanup of the old effect disconnects, the new effect connects or
\* disconnects again.
Toggle ==
  /\ mounted = "yes" /\ UNCHANGED mounted
  /\ Spend("toggles", MaxToggles)
  /\ enabled' = ~enabled
  /\ Disconnect
  /\ IF enabled'
     THEN Connect(None, FALSE, Disconnecting)
     ELSE /\ wsRef' = None /\ isConnecting' = FALSE
          /\ isDisconnecting' = Disconnecting /\ UNCHANGED call
  /\ upsets' = upsets \cup IF enabled' /\ Disconnecting THEN {"refused"} ELSE {}
  /\ UNCHANGED refresh

Unmount ==
  /\ mounted = "yes" /\ mounted' = "no"
  /\ Disconnect
  /\ wsRef' = None /\ isConnecting' = FALSE /\ isDisconnecting' = Disconnecting
  /\ UNCHANGED <<enabled, call, refresh, spent, upsets>>

-----------------------------------------------------------------------------
CallSteps(c) == Resume(c) \/ OpenSocket(c) \/ GiveUp(c)
SocketSteps(s) == OnOpen(s) \/ AuthOk(s) \/ OnClose(s)
RefreshSteps(s) == Refreshed(s) \/ RefreshFails(s)

Next ==
  \/ Mount \/ Toggle \/ Unmount
  \/ \E c \in Calls : CallSteps(c)
  \/ \E s \in Sockets : SocketSteps(s) \/ RefreshSteps(s) \/ Drop(s)
  \/ \E t \in Timers : Fire(t)

Spec == Init /\ [][Next]_vars

\* Awaited answers and queued callbacks arrive, timers fire and effects run;
\* users need not act and connections need not break.
FairSpec ==
  /\ Spec
  /\ WF_vars(Mount)
  /\ \A c \in Calls : WF_vars(CallSteps(c))
  /\ \A s \in Sockets : WF_vars(SocketSteps(s)) /\ WF_vars(RefreshSteps(s))
  /\ \A t \in Timers : WF_vars(Fire(t))

-----------------------------------------------------------------------------
\* The types, a bound on the failures counted while nobody disables and enables
\* again, and: isConnected is shown only while the server has confirmed some
\* socket whose onclose has not run, so every way a socket ends takes it back.
TypeOK ==
  /\ mounted \in {"new", "yes", "no"}
  /\ {enabled, isConnected, isConnecting, isDisconnecting} \subseteq BOOLEAN
  /\ wsRef \in Sockets \cup {None}
  /\ authFailures \in Nat
  /\ spent.toggles <= 1 => authFailures <= MaxAuthFailures
  /\ timerRef \in Timers \cup {None}
  /\ armed \in [Timers -> {"none", "backoff", "cooldown"}]
  /\ socket \in [Sockets -> {"none", "connecting", "open", "authed", "dropped",
                             "closing"}]
  /\ code \in [Sockets -> {"none", "network", "4001", "normal"}]
  /\ call \in [Calls -> {"none", "pause", "token"}]
  /\ refresh \in [Sockets -> {"none", "auto", "manual"}]
  /\ upsets \subseteq {"refused", "second"}
  /\ spent \in [{"toggles", "drops", "missing", "refreshFails"} -> Nat]
  /\ isConnected => \E s \in Sockets : socket[s] \in {"authed", "dropped"}

\* None of the three ways to strand the client was taken: a token that is
\* missing, a refresh that fails, and enabling again before onclose ran.
Undisturbed == spent.missing = 0 /\ spent.refreshFails = 0 /\ "refused" \notin upsets

\* While the hook is enabled something is left that leads to a connection: a
\* socket, a call, a refresh or a timer.  None of the early returns of
\* connect() and onclose leaves the client without any of them.
NotStranded ==
  mounted = "yes" /\ enabled /\ Undisturbed =>
    \/ \E s \in Sockets : socket[s] # "none" \/ refresh[s] = "auto"
    \/ \E c \in Calls : call[c] # "none"
    \/ \E t \in Timers : armed[t] # "none"

\* Once the component is gone no socket is opened any more, whatever call,
\* timer or refresh was on its way (the checks of isMountedRef after awaits).
NoSocketAfterUnmount ==
  [][mounted = "no" =>
       \A s \in Sockets : socket[s] = "none" => socket'[s] = "none"]_vars

\* The client of an enabled hook gets its connection back after every drop.
Reconnects ==
  mounted = "yes" /\ enabled
    ~> isConnected \/ ~enabled \/ mounted = "no" \/ ~Undisturbed

\* Every socket of a component that is gone is closed in the end.  (Calls that
\* await their tokens at the same time open two sockets, and one is forgotten.)
ClosedAfterUnmount ==
  mounted = "no" ~> "second" \in upsets \/ \A s \in Sockets : socket[s] = "none"

\* The warning "Token refresh failed, will retry later" after a 4001:
\* a client whose refresh failed while it is enabled connects again later.
RefreshFailureRetried ==
  spent.refreshFails > 0 /\ enabled ~> isConnected \/ ~enabled \/ mounted = "no"
=============================================================================
