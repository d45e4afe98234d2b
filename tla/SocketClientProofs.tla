-------------------------- MODULE SocketClientProofs --------------------------
(***************************************************************************)
(* Proofs about SocketClient for any number of sockets, calls, timers and  *)
(* upsets: while the hook is enabled something is left that leads to a     *)
(* connection, none is opened once the component is gone, and the types    *)
(* with the bound on counted failures.                                     *)
(*                                                                         *)
(* connect() and onclose return early on what the refs say, so the first   *)
(* is not inductive: a ref that says "somebody is at it already" must be   *)
(* right.  Backed adds that.  The bound rests on SInv, below.              *)
(***************************************************************************)
EXTENDS SocketClient, TLAPS

\* The types of the variables that decide (TypeOK without its bounds).
Types ==
  /\ mounted \in {"new", "yes", "no"}
  /\ enabled \in BOOLEAN /\ isConnecting \in BOOLEAN /\ isDisconnecting \in BOOLEAN
  /\ wsRef \in Sockets \cup {None} /\ timerRef \in Timers \cup {None}
  /\ armed \in [Timers -> {"none", "backoff", "cooldown"}]
  /\ socket \in [Sockets -> {"none", "connecting", "open", "authed", "dropped", "closing"}]
  /\ call \in [Calls -> {"none", "pause", "token"}]
  /\ refresh \in [Sockets -> {"none", "auto", "manual"}]
  /\ spent \in [{"toggles", "drops", "missing", "refreshFails"} -> Nat]

\* Before the effect ran nothing is under way; the timer in the ref is due.
Clean ==
  mounted = "new" =>
    /\ wsRef = None /\ ~isConnecting /\ ~isDisconnecting
    /\ \A c \in Calls : call[c] = "none"
    /\ \A s \in Sockets : socket[s] = "none" /\ refresh[s] = "none"
    /\ \A t \in Timers : armed[t] = "none"
Due == timerRef # None => armed[timerRef] # "none"

Calling == \E c \in Calls : call[c] # "none"
Left ==
  \/ \E s \in Sockets : socket[s] # "none" \/ refresh[s] = "auto"
  \/ Calling
  \/ \E t \in Timers : armed[t] # "none"

\* A ref that turns connect() away, or onclose from a retry, has its reason.
Backed ==
  mounted = "yes" /\ enabled /\ Undisturbed =>
    /\ isDisconnecting => \E c \in Calls : call[c] = "pause"
    /\ isConnecting => (\E c \in Calls : call[c] = "token") \/ \E s \in Sockets : socket[s] # "none"
    /\ Left

IInv == Types /\ Clean /\ Due /\ Backed

-----------------------------------------------------------------------------
\* A call of connect() is turned away or makes an entry of its own.
LEMMA ConnectResult ==
  ASSUME Types, NEW ws \in Sockets \cup {None}, NEW connecting \in BOOLEAN,
         NEW disconnecting \in BOOLEAN, Connect(ws, connecting, disconnecting)
  PROVE  /\ wsRef' \in Sockets \cup {None} /\ isConnecting' \in BOOLEAN /\ isDisconnecting' \in BOOLEAN
         /\ call' \in [Calls -> {"none", "pause", "token"}]
         /\ \/ /\ Refuses(ws, connecting, disconnecting) /\ UNCHANGED call
               /\ isConnecting' = connecting /\ isDisconnecting' = disconnecting
            \/ /\ isDisconnecting' => \E c \in Calls : call'[c] = "pause"
               /\ isConnecting' => \E c \in Calls : call'[c] = "token"
               /\ \E c \in Calls : call'[c] # "none"
<1>1. CASE Refuses(ws, connecting, disconnecting)
  BY <1>1 DEF Connect, Types
<1>2. CASE ~Refuses(ws, connecting, disconnecting)
  <2>1. PICK c \in Calls : call' = [call EXCEPT ![c] = IF ws = None THEN "token" ELSE "pause"]
    BY <1>2 DEF Connect
  <2>2. wsRef' = None /\ isConnecting' = (ws = None) /\ isDisconnecting' = (ws # None)
    BY <1>2 DEF Connect
  <2>3. call'[c] = IF ws = None THEN "token" ELSE "pause"
    BY <2>1 DEF Types
  <2>4. call' \in [Calls -> {"none", "pause", "token"}]
    BY <2>1 DEF Types
  <2> QED
    BY <2>2, <2>3, <2>4
<1> QED
  BY <1>1, <1>2

\* A timer is armed: the ref holds one that is due.
LEMMA ArmResult ==
  ASSUME Types, NEW kind \in {"backoff", "cooldown"}, Arm(kind)
  PROVE  /\ timerRef' \in Timers /\ armed' \in [Timers -> {"none", "backoff", "cooldown"}]
         /\ armed'[timerRef'] # "none"
  BY DEF Arm, Types

\* connect() called from the refs as they are leaves something to wait for.
LEMMA ConnectBacked ==
  ASSUME Types, Due, Backed, Connect(wsRef, isConnecting, isDisconnecting), mounted = "yes",
         mounted' = "yes", enabled' = enabled, UNCHANGED <<spent, upsets, socket>>,
         timerRef' = None \/ UNCHANGED <<timerRef, armed>>
  PROVE  Backed' /\ Due'
<1>1. Undisturbed' => Undisturbed
  BY DEF Undisturbed
<1>2. CASE Refuses(wsRef, isConnecting, isDisconnecting) /\ UNCHANGED call
           /\ isConnecting' = isConnecting /\ isDisconnecting' = isDisconnecting
  <2> SUFFICES ASSUME enabled, Undisturbed PROVE Backed' /\ Due'
    BY <1>1 DEF Backed, Due
  <2>1. isConnecting \/ isDisconnecting \/ (wsRef # None /\ Live(wsRef))
    BY <1>2 DEF Refuses
  <2>2. (\E s \in Sockets : socket[s] # "none") \/ Calling
    BY <2>1 DEF Backed, Calling, Live, Types
  <2> QED
    BY <1>2, <2>2 DEF Backed, Due, Left, Calling
<1>3. CASE /\ isDisconnecting' => \E c \in Calls : call'[c] = "pause"
           /\ isConnecting' => \E c \in Calls : call'[c] = "token"
           /\ \E c \in Calls : call'[c] # "none"
  BY <1>3 DEF Backed, Due, Left, Calling
<1> QED
  BY <1>2, <1>3, ConnectResult DEF Types
-----------------------------------------------------------------------------
\* disconnect(): the timer in the ref is stopped, the socket in it closed.
LEMMA DisconnectResult ==
  ASSUME Types, Disconnect
  PROVE  /\ timerRef' = None /\ armed' \in [Timers -> {"none", "backoff", "cooldown"}]
         /\ socket' \in [Sockets -> {"none", "connecting", "open", "authed", "dropped", "closing"}]
  BY DEF Disconnect, CloseCurrent, Types

\* Every step keeps the types.
LEMMA TypesStep == Types /\ [Next]_vars => Types'
<1> SUFFICES ASSUME Types, [Next]_vars PROVE Types'
  OBVIOUS
<1> USE SocketAssumption
<1>1. CASE Mount
  <2>1. CASE enabled
    <3>1. Connect(wsRef, isConnecting, isDisconnecting)
      BY <1>1, <2>1 DEF Mount
    <3>2. /\ wsRef' \in Sockets \cup {None} /\ isConnecting' \in BOOLEAN /\ isDisconnecting' \in BOOLEAN
          /\ call' \in [Calls -> {"none", "pause", "token"}]
      BY <3>1, ConnectResult DEF Types
    <3> QED
      BY <1>1, <3>2 DEF Mount, timing, Types
  <2>2. CASE ~enabled
    BY <1>1, <2>2 DEF Mount, timing, refs, Types
  <2> QED
    BY <2>1, <2>2
<1>2. CASE Toggle
  <2>1. Disconnect /\ enabled' = ~enabled /\ UNCHANGED <<mounted, refresh>> /\ Spend("toggles", MaxToggles)
    BY <1>2 DEF Toggle
  <2>2. /\ wsRef' \in Sockets \cup {None} /\ isConnecting' \in BOOLEAN /\ isDisconnecting' \in BOOLEAN
        /\ call' \in [Calls -> {"none", "pause", "token"}]
    <3>1. CASE enabled'
      <4>1. Connect(None, FALSE, Disconnecting) /\ Disconnecting \in BOOLEAN
        BY <1>2, <3>1 DEF Toggle, Disconnecting, Types
      <4> QED
        BY <4>1, ConnectResult
    <3>2. CASE ~enabled'
      BY <1>2, <3>2 DEF Toggle, Disconnecting, Types
    <3> QED
      BY <3>1, <3>2
  <2> QED
    BY <2>1, <2>2, DisconnectResult DEF Spend, Types
<1>3. CASE Unmount
  BY <1>3, DisconnectResult DEF Unmount, Disconnecting, Types
<1>4. ASSUME NEW c \in Calls, CallSteps(c) PROVE Types'
  <2>1. CASE Resume(c)
    BY <2>1 DEF Resume, timing, Types
  <2>2. CASE OpenSocket(c)
    <3>1. PICK s \in Sockets : socket' = [socket EXCEPT ![s] = "connecting"] /\ wsRef' = s
      BY <2>2 DEF OpenSocket
    <3>2. UNCHANGED <<mounted, enabled, isConnecting, isDisconnecting, timing, refresh, spent>>
          /\ call' = [call EXCEPT ![c] = "none"]
      BY <2>2 DEF OpenSocket
    <3> QED
      BY <3>1, <3>2 DEF timing, Types
  <2>3. CASE GiveUp(c)
    <3>1. UNCHANGED <<mounted, enabled, refs, timing, socket, refresh>>
          /\ call' = [call EXCEPT ![c] = "none"]
      BY <2>3 DEF GiveUp
    <3>2. spent' = spent \/ spent' = [spent EXCEPT !["missing"] = @ + 1]
      BY <2>3 DEF GiveUp, Spend
    <3> QED
      BY <3>1, <3>2 DEF refs, timing, Types
  <2> QED
    BY <1>4, <2>1, <2>2, <2>3 DEF CallSteps
<1>5. ASSUME NEW s \in Sockets, OnOpen(s) \/ AuthOk(s) \/ Drop(s) \/ RefreshFails(s) PROVE Types'
  <2>1. CASE OnOpen(s)
    BY <2>1 DEF OnOpen, refs, timing, Types
  <2>2. CASE AuthOk(s)
    BY <2>2 DEF AuthOk, timing, Types
  <2>3. CASE Drop(s)
    <3>1. UNCHANGED <<mounted, enabled, refs, timing, call, refresh>>
          /\ socket' = [socket EXCEPT ![s] = "dropped"] /\ spent' = [spent EXCEPT !["drops"] = @ + 1]
      BY <2>3 DEF Drop, Spend
    <3> QED
      BY <3>1 DEF refs, timing, Types
  <2>4. CASE RefreshFails(s)
    <3>1. UNCHANGED <<mounted, enabled, refs, timing, call, socket>>
          /\ refresh' = [refresh EXCEPT ![s] = "none"]
          /\ spent' = [spent EXCEPT !["refreshFails"] = @ + 1]
      BY <2>4 DEF RefreshFails, Spend
    <3> QED
      BY <3>1 DEF refs, timing, Types
  <2> QED
    BY <1>5, <2>1, <2>2, <2>3, <2>4
<1>6. ASSUME NEW s \in Sockets, OnClose(s) PROVE Types'
  <2>1. Arm("backoff") \/ Arm("cooldown") \/ UNCHANGED timing
    BY <1>6 DEF OnClose, Rejected, Backoff, timing
  <2>2. timerRef' \in Timers \cup {None} /\ armed' \in [Timers -> {"none", "backoff", "cooldown"}]
    BY <2>1, ArmResult DEF timing, Types
  <2>3. refresh' \in [Sockets -> {"none", "auto", "manual"}]
    BY <1>6 DEF OnClose, Types
  <2> QED
    BY <1>6, <2>2, <2>3 DEF OnClose, Types
<1>7. ASSUME NEW s \in Sockets, Refreshed(s) PROVE Types'
  <2>1. Connect(wsRef, isConnecting, isDisconnecting) \/ UNCHANGED <<refs, call>>
    BY <1>7 DEF Refreshed, Reconnect
  <2>2. /\ wsRef' \in Sockets \cup {None} /\ isConnecting' \in BOOLEAN /\ isDisconnecting' \in BOOLEAN
        /\ call' \in [Calls -> {"none", "pause", "token"}]
    BY <2>1, ConnectResult DEF refs, Types
  <2> QED
    BY <1>7, <2>2 DEF Refreshed, timing, Types
<1>8. ASSUME NEW t \in Timers, Fire(t) PROVE Types'
  <2>1. /\ wsRef' \in Sockets \cup {None} /\ isConnecting' \in BOOLEAN /\ isDisconnecting' \in BOOLEAN
        /\ call' \in [Calls -> {"none", "pause", "token"}]
    BY <1>8, ConnectResult DEF Fire, Types
  <2> QED
    BY <1>8, <2>1 DEF Fire, Types
<1>9. CASE UNCHANGED vars
  BY <1>9 DEF vars, refs, timing, Types
<1> QED
  BY <1>1, <1>2, <1>3, <1>4, <1>5, <1>6, <1>7, <1>8, <1>9 DEF Next, SocketSteps, RefreshSteps

\* Each step of the hook leaves the refs true and something to wait for.
LEMMA BackedStep == IInv /\ Types' /\ [Next]_vars => Clean' /\ Due' /\ Backed'
<1> SUFFICES ASSUME IInv, Types', [Next]_vars PROVE Clean' /\ Due' /\ Backed'
  OBVIOUS
<1> USE SocketAssumption
<1>0. Types /\ Clean /\ Due /\ Backed
  BY DEF IInv
<1>1. CASE Mount
  <2>1. mounted = "new" /\ mounted' = "yes" /\ wsRef = None /\ ~isConnecting /\ ~isDisconnecting
        /\ UNCHANGED <<enabled, timing, socket, refresh, spent, upsets>>
    BY <1>0, <1>1 DEF Mount, Clean
  <2>2. CASE enabled
    <3>1. Connect(wsRef, isConnecting, isDisconnecting) /\ ~Refuses(wsRef, isConnecting, isDisconnecting)
      BY <1>1, <2>1, <2>2 DEF Mount, Refuses
    <3> QED
      BY <1>0, <2>1, <3>1, ConnectResult DEF Clean, Due, Backed, Left, Calling, timing, Types
  <2>3. CASE ~enabled
    BY <1>0, <2>1, <2>3 DEF Clean, Due, Backed, timing
  <2> QED
    BY <2>2, <2>3
<1>2. CASE Toggle
  <2>1. Disconnect /\ mounted = "yes" /\ mounted' = "yes" /\ timerRef' = None
    BY <1>2 DEF Toggle, Disconnect
  <2>2. CASE enabled' /\ Disconnecting
    <3>1. ~Undisturbed'
      BY <1>2, <2>2 DEF Toggle, Undisturbed
    <3> QED
      BY <2>1, <3>1 DEF Clean, Due, Backed
  <2>3. CASE enabled' /\ ~Disconnecting
    <3>1. Connect(None, FALSE, FALSE) /\ ~Refuses(None, FALSE, FALSE)
      BY <1>2, <2>1, <2>3 DEF Toggle, Refuses, Disconnecting, Types
    <3> QED
      BY <1>0, <2>1, <3>1, ConnectResult DEF Clean, Due, Backed, Left, Calling
  <2>4. CASE ~enabled'
    BY <2>1, <2>4 DEF Clean, Due, Backed
  <2> QED
    BY <2>2, <2>3, <2>4
<1>3. CASE Unmount
  BY <1>3 DEF Unmount, Disconnect, Clean, Due, Backed
<1>4. ASSUME NEW c \in Calls, CallSteps(c) PROVE Clean' /\ Due' /\ Backed'
  <2>1. mounted' = mounted /\ UNCHANGED <<timing, enabled>> /\ call[c] # "none"
    BY <1>4 DEF CallSteps, Resume, OpenSocket, GiveUp
  <2>2. Clean' /\ Due'
    BY <1>0, <2>1 DEF Clean, Due, timing
  <2>3. CASE Resume(c)
    <3>1. call'[c] = "token" /\ ~isDisconnecting'
      BY <1>0, <2>3 DEF Resume, Types
    <3> QED
      BY <2>2, <3>1 DEF Backed, Left, Calling
  <2>4. CASE OpenSocket(c)
    <3>1. PICK s \in Sockets : socket' = [socket EXCEPT ![s] = "connecting"]
      BY <2>4 DEF OpenSocket
    <3>2. socket'[s] # "none"
      BY <1>0, <3>1 DEF Types
    <3>3. \A d \in Calls : call[d] = "pause" => call'[d] = "pause"
      BY <1>0, <2>4 DEF OpenSocket, Types
    <3>4. UNCHANGED <<isDisconnecting, spent, mounted, enabled>> /\ (Undisturbed' => Undisturbed)
      BY <2>4 DEF OpenSocket, Undisturbed
    <3> QED
      BY <1>0, <2>2, <3>2, <3>3, <3>4 DEF Backed, Left
  <2>5. CASE GiveUp(c)
    <3>1. CASE Gone
      BY <2>1, <2>2, <3>1 DEF Gone, Backed
    <3>2. CASE Spend("missing", MaxMissing)
      <4>1. spent'["missing"] = spent["missing"] + 1 /\ spent["missing"] \in Nat
        BY <1>0, <3>2 DEF Spend, Types
      <4>2. ~Undisturbed'
        BY <4>1 DEF Undisturbed
      <4> QED
        BY <2>2, <4>2 DEF Backed
    <3> QED
      BY <2>5, <3>1, <3>2 DEF GiveUp
  <2> QED
    BY <1>4, <2>3, <2>4, <2>5 DEF CallSteps
<1>5. ASSUME NEW s \in Sockets, OnOpen(s) \/ AuthOk(s) \/ Drop(s) PROVE Clean' /\ Due' /\ Backed'
  <2>1. UNCHANGED <<mounted, enabled, timing, call, isDisconnecting, refresh, upsets>>
        /\ socket[s] # "none" /\ (isConnecting' => isConnecting)
    BY <1>5 DEF OnOpen, AuthOk, Drop, Live, refs
  <2>2. Clean' /\ Due'
    BY <1>0, <2>1 DEF Clean, Due, timing
  <2>3. socket'[s] # "none"
    BY <1>0, <1>5 DEF OnOpen, AuthOk, Drop, Types
  <2>4. spent'["missing"] = spent["missing"] /\ spent'["refreshFails"] = spent["refreshFails"]
    BY <1>0, <1>5 DEF OnOpen, AuthOk, Drop, Spend, Types
  <2>5. Undisturbed' => Undisturbed
    BY <2>1, <2>4 DEF Undisturbed
  <2> QED
    BY <1>0, <2>1, <2>2, <2>3, <2>5 DEF Backed, Left
<1>6. ASSUME NEW s \in Sockets, OnClose(s) PROVE Clean' /\ Due' /\ Backed'
  <2>1. UNCHANGED <<mounted, enabled, call, spent, upsets>> /\ socket[s] # "none"
        /\ ~isConnecting' /\ ~isDisconnecting'
    BY <1>6 DEF OnClose
  <2>2. Clean'
    BY <1>0, <2>1 DEF Clean
  <2>3. Arm("backoff") \/ Arm("cooldown") \/ UNCHANGED timing
    BY <1>6 DEF OnClose, Rejected, Backoff, timing
  <2>4. CASE Arm("backoff") \/ Arm("cooldown")
    BY <1>0, <2>1, <2>2, <2>4, ArmResult DEF Backed, Due, Left
  <2>5. CASE UNCHANGED timing
    <3>1. Due'
      BY <1>0, <2>5 DEF Due, timing
    <3> SUFFICES ASSUME mounted = "yes", enabled, Undisturbed PROVE Left'
      BY <2>1, <2>2, <3>1 DEF Backed, Undisturbed
    <3>2. CASE isDisconnecting
      BY <1>0, <2>1, <3>2 DEF Backed, Left, Calling
    <3>3. CASE refresh' = [refresh EXCEPT ![s] = IF isDisconnecting THEN "manual" ELSE "auto"]
               /\ ~isDisconnecting
      BY <1>0, <3>3 DEF Left, Types
    <3>4. CASE timerRef # None
      BY <1>0, <2>5, <3>1, <3>4 DEF Due, Left, timing, Types
    <3>5. CASE (Rejected(isDisconnecting) \/ Backoff(isDisconnecting, "network"))
               /\ ~isDisconnecting /\ timerRef = None
      <4>1. PICK kind \in {"backoff", "cooldown"} : Arm(kind)
        BY <3>5 DEF Rejected, Backoff
      <4> QED
        BY <1>0, <4>1, ArmResult DEF Left
    <3> QED
      BY <1>6, <3>2, <3>3, <3>4, <3>5 DEF OnClose
  <2> QED
    BY <2>3, <2>4, <2>5
<1>7. ASSUME NEW s \in Sockets, Refreshed(s) PROVE Clean' /\ Due' /\ Backed'
  <2>1. UNCHANGED <<mounted, enabled, timing, socket, spent, upsets>> /\ refresh[s] # "none"
        /\ Reconnect(s) /\ refresh' = [refresh EXCEPT ![s] = "none"]
    BY <1>7 DEF Refreshed
  <2>2. Clean'
    BY <1>0, <2>1 DEF Clean
  <2>3. CASE mounted = "yes" /\ refresh[s] = "auto"
    BY <1>0, <2>1, <2>2, <2>3, ConnectBacked DEF Reconnect, timing
  <2>4. CASE ~(mounted = "yes" /\ refresh[s] = "auto")
    <3>1. UNCHANGED <<refs, call>>
      BY <2>1, <2>4 DEF Reconnect
    <3>2. Due'
      BY <1>0, <2>1 DEF Due, timing
    <3>3. mounted = "yes" => \A r \in Sockets : refresh[r] = "auto" => refresh'[r] = "auto"
      BY <1>0, <2>1, <2>4 DEF Types
    <3> QED
      BY <1>0, <2>1, <2>2, <3>1, <3>2, <3>3 DEF Backed, Left, Calling, Undisturbed, refs, timing
  <2> QED
    BY <2>3, <2>4
<1>8. ASSUME NEW s \in Sockets, RefreshFails(s) PROVE Clean' /\ Due' /\ Backed'
  <2>1. UNCHANGED <<mounted, timing>> /\ refresh[s] # "none"
        /\ spent' = [spent EXCEPT !["refreshFails"] = @ + 1]
    BY <1>8 DEF RefreshFails, Spend
  <2>2. spent'["refreshFails"] = spent["refreshFails"] + 1 /\ spent["refreshFails"] \in Nat
    BY <1>0, <2>1 DEF Types
  <2> QED
    BY <1>0, <2>1, <2>2 DEF Clean, Due, Backed, Undisturbed, timing
<1>9. ASSUME NEW t \in Timers, Fire(t) PROVE Clean' /\ Due' /\ Backed'
  <2>1. /\ armed[t] # "none" /\ timerRef' = None
        /\ Connect(wsRef, isConnecting, isDisconnecting)
        /\ UNCHANGED <<mounted, enabled, socket, spent, upsets>>
    BY <1>9 DEF Fire
  <2>2. CASE mounted = "yes"
    BY <1>0, <2>1, <2>2, ConnectBacked DEF Clean
  <2>3. CASE mounted # "yes"
    BY <1>0, <2>1, <2>3 DEF Clean, Due, Backed
  <2> QED
    BY <2>2, <2>3
<1>10. CASE UNCHANGED vars
  BY <1>0, <1>10 DEF vars, refs, timing, Clean, Due, Backed, Left, Calling, Undisturbed
<1> QED
  BY <1>1, <1>2, <1>3, <1>4, <1>5, <1>6, <1>7, <1>8, <1>9, <1>10 DEF Next, SocketSteps, RefreshSteps

\* The invariant holds initially and every step keeps it.
LEMMA InvariantHolds == Spec => []IInv
<1>1. Init => IInv
  <2> SUFFICES ASSUME Init PROVE IInv
    OBVIOUS
  <2>1. spent \in [{"toggles", "drops", "missing", "refreshFails"} -> Nat]
    BY DEF Init
  <2>2. Types
    BY SocketAssumption, <2>1 DEF Init, Types
  <2> QED
    BY SocketAssumption, <2>2 DEF Init, IInv, Clean, Due, Backed
<1>2. IInv /\ [Next]_vars => IInv'
  BY TypesStep, BackedStep DEF IInv
<1> QED
  BY <1>1, <1>2, PTL DEF Spec

-----------------------------------------------------------------------------
\* While the hook is enabled a socket, a call, a refresh or a timer is left
\* that leads to a connection: connect() and onclose never both leave the
\* retry to the other.
THEOREM NeverStranded == Spec => []NotStranded
<1>1. IInv => NotStranded
  BY DEF IInv, Backed, Left, Calling, NotStranded
<1> QED
  BY <1>1, InvariantHolds, PTL

\* A call that awaits its token when the component goes opens no socket, and
\* nothing else opens one.
THEOREM NoneAfterUnmount == Spec => NoSocketAfterUnmount
<1>1. IInv /\ [Next]_vars =>
        [mounted = "no" => \A s \in Sockets : socket[s] = "none" => socket'[s] = "none"]_vars
  <2> SUFFICES ASSUME IInv, Next, mounted = "no", NEW s \in Sockets, socket[s] = "none"
               PROVE socket'[s] = "none"
    OBVIOUS
  <2>1. Types
    BY DEF IInv
  <2>2. ASSUME NEW c \in Calls, CallSteps(c) PROVE socket'[s] = "none"
    BY <2>2 DEF CallSteps, Resume, OpenSocket, GiveUp, Gone
  <2>3. ASSUME NEW r \in Sockets, SocketSteps(r) \/ RefreshSteps(r) \/ Drop(r)
        PROVE socket'[s] = "none"
    BY <2>1, <2>3 DEF SocketSteps, RefreshSteps, OnOpen, AuthOk, OnClose, Drop, Live, Refreshed,
                      RefreshFails, Types
  <2>4. ASSUME NEW t \in Timers, Fire(t) PROVE socket'[s] = "none"
    BY <2>4 DEF Fire
  <2> QED
    BY <2>2, <2>3, <2>4 DEF Next, Mount, Toggle, Unmount
<1> QED
  BY <1>1, InvariantHolds, PTL DEF Spec, NoSocketAfterUnmount
-----------------------------------------------------------------------------
(* The bound on the failures.  While `enabled` changed at most once there  *)
(* is never more than one attempt under way, and the one that counts the   *)
(* last failure it may is followed by the cooldown, which forgets them.    *)

\* What is under way.
Under ==
  ({"call"} \X {c \in Calls : call[c] # "none"})
    \cup ({"socket"} \X {s \in Sockets : socket[s] # "none"})
    \cup ({"refresh"} \X {s \in Sockets : refresh[s] # "none"})
    \cup ({"timer"} \X {t \in Timers : armed[t] # "none"})
Solo == \A x, y \in Under : x = y

\* Nothing began before the effect ran, or while `enabled` was false at first.
Fresh ==
  mounted = "new" \/ (spent["toggles"] = 0 /\ ~enabled) =>
    /\ authFailures = 0 /\ Under = {}
    /\ wsRef = None /\ ~isConnecting /\ ~isDisconnecting

Low ==
  /\ authFailures <= MaxAuthFailures
  /\ authFailures = MaxAuthFailures =>
       \A x \in Under : x[1] = "timer" /\ armed[x[2]] = "cooldown"

Shown == isConnected => \E s \in Sockets : socket[s] \in {"authed", "dropped"}

Rest ==
  /\ isConnected \in BOOLEAN /\ authFailures \in Nat
  /\ code \in [Sockets -> {"none", "network", "4001", "normal"}]
  /\ upsets \subseteq {"refused", "second"}

SInv == Rest /\ Shown /\ Fresh /\ (spent["toggles"] <= 1 => Solo /\ Low)

-----------------------------------------------------------------------------
LEMMA UnderHas ==
  /\ \A c \in Calls : <<"call", c>> \in Under <=> call[c] # "none"
  /\ \A s \in Sockets : <<"socket", s>> \in Under <=> socket[s] # "none"
  /\ \A s \in Sockets : <<"refresh", s>> \in Under <=> refresh[s] # "none"
  /\ \A t \in Timers : <<"timer", t>> \in Under <=> armed[t] # "none"
  BY DEF Under

\* One thing is under way: the others are not.
LEMMA Alone ==
  ASSUME Solo
  PROVE  /\ \A c \in Calls : call[c] # "none" => Under = {<<"call", c>>}
         /\ \A s \in Sockets : socket[s] # "none" => Under = {<<"socket", s>>}
         /\ \A s \in Sockets : refresh[s] # "none" => Under = {<<"refresh", s>>}
         /\ \A t \in Timers : armed[t] # "none" => Under = {<<"timer", t>>}
  BY UnderHas DEF Solo

\* What is under way after a step, from what each part of it becomes.
LEMMA UnderNext ==
  ASSUME NEW U,
         \A c \in Calls : call'[c] # "none" => <<"call", c>> \in U,
         \A s \in Sockets : socket'[s] # "none" => <<"socket", s>> \in U,
         \A s \in Sockets : refresh'[s] # "none" => <<"refresh", s>> \in U,
         \A t \in Timers : armed'[t] # "none" => <<"timer", t>> \in U
  PROVE  Under' \subseteq U
  BY DEF Under

LEMMA NothingNext ==
  ASSUME \A c \in Calls : call'[c] = "none", \A s \in Sockets : socket'[s] = "none" /\ refresh'[s] = "none",
         \A t \in Timers : armed'[t] = "none"
  PROVE  Under' = {}
  BY DEF Under

\* connect() is the only one at work.
LEMMA ConnectSolo ==
  ASSUME Types, NEW ws, NEW connecting, NEW disconnecting, Connect(ws, connecting, disconnecting),
         \A c \in Calls : call[c] = "none", \A s \in Sockets : socket'[s] = "none" /\ refresh'[s] = "none",
         \A t \in Timers : armed'[t] = "none"
  PROVE  Solo'
<1>1. CASE Refuses(ws, connecting, disconnecting)
  <2>1. call' = call
    BY <1>1 DEF Connect
  <2>2. \A c \in Calls : call'[c] = "none"
    BY <2>1
  <2>3. Under' = {}
    BY <2>2, NothingNext
  <2> QED
    BY <2>3 DEF Solo
<1>2. CASE ~Refuses(ws, connecting, disconnecting)
  <2>1. PICK c \in Calls : call' = [call EXCEPT ![c] = IF ws = None THEN "token" ELSE "pause"]
    BY <1>2 DEF Connect
  <2>2. \A d \in Calls : call'[d] # "none" => <<"call", d>> \in {<<"call", c>>}
    BY <2>1 DEF Types
  <2>3. Under' \subseteq {<<"call", c>>}
    BY <2>2, UnderNext
  <2> QED
    BY <2>3 DEF Solo
<1> QED
  BY <1>1, <1>2

\* Arming a timer when nothing else is left.
LEMMA ArmSolo ==
  ASSUME Types, NEW kind \in {"backoff", "cooldown"}, Arm(kind),
         \A c \in Calls : call'[c] = "none", \A s \in Sockets : socket'[s] = "none" /\ refresh'[s] = "none",
         \A t \in Timers : armed[t] = "none"
  PROVE  Solo' /\ \A x \in Under' : x[1] = "timer" /\ armed'[x[2]] = kind
<1>1. PICK t \in Timers : armed' = [armed EXCEPT ![t] = kind]
  BY DEF Arm
<1>2. armed'[t] = kind /\ \A u \in Timers : armed'[u] # "none" => <<"timer", u>> \in {<<"timer", t>>}
  BY <1>1 DEF Types
<1>3. Under' \subseteq {<<"timer", t>>}
  BY <1>2, UnderNext
<1> QED
  BY <1>2, <1>3 DEF Solo

\* disconnect() starts nothing.
LEMMA DisconnectUnder ==
  ASSUME Types, Disconnect, UNCHANGED refresh, Rest,
         NEW U, Under \subseteq U, \A c \in Calls : call'[c] # "none" => <<"call", c>> \in U
  PROVE  /\ Under' \subseteq U /\ authFailures' = 0 /\ isConnected' = FALSE
         /\ code' \in [Sockets -> {"none", "network", "4001", "normal"}]
<1>1. \A t \in Timers : armed'[t] # "none" => armed[t] # "none"
  BY DEF Disconnect, Types
<1>2. \A s \in Sockets : socket'[s] # "none" => socket[s] # "none"
  BY DEF Disconnect, CloseCurrent, Live, Types
<1>3. code' \in [Sockets -> {"none", "network", "4001", "normal"}]
  BY DEF Disconnect, CloseCurrent, Rest
<1>4. Under' \subseteq U
  BY <1>1, <1>2, UnderNext, UnderHas
<1> QED
  BY <1>3, <1>4 DEF Disconnect

\* Nothing is fresh once something began.
LEMMA NotFresh ==
  ASSUME Fresh, Under # {}, UNCHANGED <<mounted, enabled>>, spent'["toggles"] = spent["toggles"]
  PROVE  Fresh'
  BY DEF Fresh

\* One thing gives way to one other.
LEMMA HandsOn ==
  ASSUME Fresh, Under # {}, UNCHANGED <<mounted, enabled, authFailures>>, spent'["toggles"] = spent["toggles"],
         spent["toggles"] <= 1 => Low,
         authFailures \in Nat, MaxAuthFailures \in Nat,
         spent["toggles"] <= 1 => (\A x \in Under : ~(x[1] = "timer" /\ armed[x[2]] = "cooldown")),
         spent["toggles"] <= 1 => Solo'
  PROVE  Fresh' /\ (spent'["toggles"] <= 1 => Solo' /\ Low')
<1>1. Fresh'
  BY NotFresh
<1>2. ASSUME spent["toggles"] <= 1 PROVE Low'
  <2>1. authFailures # MaxAuthFailures /\ authFailures <= MaxAuthFailures
    BY <1>2 DEF Low
  <2> QED
    BY <2>1 DEF Low
<1> QED
  BY <1>1, <1>2

\* Each step keeps the bound and takes isConnected back where it must.
LEMMA SoloStep == IInv /\ SInv /\ Types' /\ [Next]_vars => SInv'
<1> SUFFICES ASSUME IInv, SInv, Types', [Next]_vars PROVE SInv'
  OBVIOUS
<1> USE SocketAssumption
<1>0. /\ Types /\ Clean /\ Due /\ Rest /\ Shown /\ Fresh /\ (spent["toggles"] <= 1 => Solo /\ Low)
      /\ spent["toggles"] \in Nat /\ authFailures \in Nat /\ MaxAuthFailures \in Nat \ {0}
  BY DEF IInv, SInv, Types, Rest
<1>1. CASE Mount
  <2>1. /\ mounted = "new" /\ mounted' = "yes"
        /\ UNCHANGED <<enabled, isConnected, authFailures, timing, socket, code, refresh, spent, upsets>>
    BY <1>1 DEF Mount
  <2>2. authFailures = 0 /\ Under = {}
    BY <1>0, <2>1 DEF Fresh
  <2>3. Rest' /\ Shown'
    BY <1>0, <2>1 DEF Rest, Shown
  <2>4. Low'
    <3>1. authFailures' = 0
      BY <2>1, <2>2
    <3> QED
      BY <1>0, <3>1 DEF Low
  <2>5. (\A c \in Calls : call[c] = "none") /\ (\A s \in Sockets : socket'[s] = "none" /\ refresh'[s] = "none")
        /\ \A t \in Timers : armed'[t] = "none"
    BY <1>0, <2>1 DEF Clean, timing
  <2>6. CASE enabled
    <3>1. Connect(wsRef, isConnecting, isDisconnecting)
      BY <1>1, <2>6 DEF Mount
    <3>2. Solo'
      BY <1>0, <2>5, <3>1, ConnectSolo
    <3>3. Fresh'
      BY <2>1, <2>6 DEF Fresh
    <3> QED
      BY <2>3, <2>4, <3>2, <3>3 DEF SInv
  <2>7. CASE ~enabled
    <3>1. UNCHANGED <<refs, call>>
      BY <1>1, <2>7 DEF Mount
    <3>2. Under' = {}
      <4>1. \A c \in Calls : call'[c] = "none"
        BY <2>5, <3>1
      <4>2. Under' = {}
        BY <2>5, <4>1, NothingNext
      <4> QED
        BY <4>2
    <3>3. Fresh' /\ Solo'
      BY <1>0, <2>1, <2>2, <3>1, <3>2 DEF Fresh, Solo, refs
    <3> QED
      BY <2>3, <2>4, <3>3 DEF SInv
  <2> QED
    BY <2>6, <2>7
<1>2. CASE Toggle
  <2>1. /\ mounted = "yes" /\ mounted' = "yes" /\ enabled' = ~enabled /\ Disconnect /\ refresh' = refresh
        /\ spent'["toggles"] = spent["toggles"] + 1
    BY <1>0, <1>2 DEF Toggle, Spend, Types
  <2>2. upsets' \subseteq {"refused", "second"}
    BY <1>0, <1>2 DEF Toggle, Rest
  <2>3. authFailures' = 0 /\ isConnected' = FALSE /\ code' \in [Sockets -> {"none", "network", "4001", "normal"}]
    BY <1>0, <2>1, DisconnectUnder DEF Disconnect, CloseCurrent, Rest
  <2>4. Rest' /\ Shown' /\ Low'
    <3>1. authFailures' # MaxAuthFailures /\ authFailures' <= MaxAuthFailures
      BY <1>0, <2>3
    <3> QED
      BY <2>2, <2>3, <3>1 DEF Rest, Shown, Low
  <2>5. Fresh'
    <3>1. spent'["toggles"] # 0
      BY <1>0, <2>1
    <3> QED
      BY <2>1, <3>1 DEF Fresh
  <2>6. ASSUME spent'["toggles"] <= 1 PROVE Solo'
    <3>1. spent["toggles"] = 0 /\ Solo
      BY <1>0, <2>1, <2>6
    <3>2. CASE enabled
      <4>1. call' = call
        BY <1>2, <2>1, <3>2 DEF Toggle
      <4>2. \A c \in Calls : call'[c] # "none" => <<"call", c>> \in Under
        BY <4>1, UnderHas
      <4>3. Under' \subseteq Under
        BY <1>0, <2>1, <4>2, DisconnectUnder
      <4> QED
        BY <3>1, <4>3 DEF Solo
    <3>3. CASE ~enabled
      <4>1. Connect(None, FALSE, Disconnecting)
        BY <1>2, <2>1, <3>3 DEF Toggle
      <4>2. Under = {}
        BY <1>0, <3>1, <3>3 DEF Fresh
      <4>3. (\A c \in Calls : call[c] = "none") /\ (\A s \in Sockets : socket[s] = "none" /\ refresh[s] = "none")
            /\ \A t \in Timers : armed[t] = "none"
        BY <4>2, UnderHas
      <4>4. socket' = socket /\ \A t \in Timers : armed'[t] = "none"
        BY <1>0, <2>1, <3>1, <3>3, <4>3 DEF Disconnect, CloseCurrent, Fresh
      <4> QED
        BY <1>0, <2>1, <4>1, <4>3, <4>4, ConnectSolo
    <3> QED
      BY <3>2, <3>3
  <2> QED
    BY <2>4, <2>5, <2>6 DEF SInv
<1>3. CASE Unmount
  <2>1. /\ mounted = "yes" /\ mounted' = "no" /\ Disconnect
        /\ wsRef' = None /\ isConnecting' = FALSE /\ isDisconnecting' = Disconnecting
        /\ UNCHANGED <<enabled, call, refresh, spent, upsets>>
    BY <1>3 DEF Unmount
  <2>2. Under' \subseteq Under /\ authFailures' = 0 /\ isConnected' = FALSE
        /\ code' \in [Sockets -> {"none", "network", "4001", "normal"}]
    BY <1>0, <2>1, DisconnectUnder, UnderHas
  <2>3. Rest' /\ Shown' /\ Low'
    <3>1. authFailures' # MaxAuthFailures /\ authFailures' <= MaxAuthFailures
      BY <1>0, <2>2
    <3> QED
      BY <1>0, <2>1, <2>2, <3>1 DEF Rest, Shown, Low
  <2>4. Fresh'
    <3>1. wsRef = None /\ ~isDisconnecting => ~Disconnecting
      BY DEF Disconnecting
    <3> QED
      BY <1>0, <2>1, <2>2, <3>1 DEF Fresh
  <2>5. spent'["toggles"] <= 1 => Solo'
    BY <1>0, <2>1, <2>2 DEF Solo
  <2> QED
    BY <2>3, <2>4, <2>5 DEF SInv
<1>4. ASSUME NEW c \in Calls, CallSteps(c) PROVE SInv'
  <2>1. call[c] # "none" /\ UNCHANGED <<mounted, enabled, isConnected, authFailures, timing, code, refresh>>
    BY <1>4 DEF CallSteps, Resume, OpenSocket, GiveUp
  <2>2. spent'["toggles"] = spent["toggles"]
    BY <1>0, <1>4 DEF CallSteps, Resume, OpenSocket, GiveUp, Spend, Types
  <2>3. Under # {}
    BY <2>1, UnderHas
  <2>4. Rest'
    BY <1>0, <1>4, <2>1 DEF CallSteps, Resume, OpenSocket, GiveUp, refs, Rest
  <2>5. Shown'
    <3>1. \A s \in Sockets : socket[s] \in {"authed", "dropped"} => socket'[s] = socket[s]
      BY <1>0, <1>4 DEF CallSteps, Resume, OpenSocket, GiveUp, Types
    <3> QED
      BY <1>0, <2>1, <3>1 DEF Shown
  <2>6. spent["toggles"] <= 1 => Under = {<<"call", c>>} /\ \A x \in Under : ~(x[1] = "timer" /\ armed[x[2]] = "cooldown")
    BY <1>0, <2>1, Alone
  <2>7. ASSUME spent["toggles"] <= 1 PROVE Solo'
    <3>1. (\A d \in Calls \ {c} : call[d] = "none") /\ (\A s \in Sockets : socket[s] = "none" /\ refresh[s] = "none")
          /\ \A t \in Timers : armed[t] = "none"
      BY <2>6, <2>7, UnderHas
    <3>2. CASE Resume(c) \/ GiveUp(c)
      <4>1. socket' = socket /\ \A d \in Calls : call'[d] # "none" => <<"call", d>> \in {<<"call", c>>}
        BY <1>0, <3>1, <3>2 DEF Resume, GiveUp, Types
      <4>2. Under' \subseteq {<<"call", c>>}
        BY <2>1, <3>1, <4>1, UnderNext DEF timing
      <4> QED
        BY <4>2 DEF Solo
    <3>3. CASE OpenSocket(c)
      <4>1. PICK s \in Sockets : socket' = [socket EXCEPT ![s] = "connecting"]
        BY <3>3 DEF OpenSocket
      <4>2. \A d \in Calls : call'[d] = "none"
        BY <1>0, <3>1, <3>3 DEF OpenSocket, Types
      <4>3. \A r \in Sockets : socket'[r] # "none" => <<"socket", r>> \in {<<"socket", s>>}
        BY <1>0, <3>1, <4>1 DEF Types
      <4>4. Under' \subseteq {<<"socket", s>>}
        BY <2>1, <3>1, <4>2, <4>3, UnderNext DEF timing
      <4> QED
        BY <4>4 DEF Solo
    <3> QED
      BY <1>4, <3>2, <3>3 DEF CallSteps
  <2>8. Fresh' /\ (spent'["toggles"] <= 1 => Solo' /\ Low')
    BY <1>0, <2>1, <2>2, <2>3, <2>6, <2>7, HandsOn
  <2> QED
    BY <2>4, <2>5, <2>8 DEF SInv
<1>5. ASSUME NEW s \in Sockets, OnOpen(s) \/ AuthOk(s) \/ Drop(s) PROVE SInv'
  <2>1. socket[s] # "none" /\ UNCHANGED <<mounted, enabled, timing, call, refresh, upsets>>
    BY <1>5 DEF OnOpen, AuthOk, Drop, Live
  <2>2. spent'["toggles"] = spent["toggles"]
    BY <1>0, <1>5 DEF OnOpen, AuthOk, Drop, Spend, Types
  <2>3. PICK to \in {"open", "authed", "dropped"} : socket' = [socket EXCEPT ![s] = to]
    BY <1>5 DEF OnOpen, AuthOk, Drop
  <2>4. Rest'
    <3>1. CASE OnOpen(s)
      BY <1>0, <3>1 DEF OnOpen, Rest
    <3>2. CASE AuthOk(s)
      BY <1>0, <3>2 DEF AuthOk, Rest
    <3>3. CASE Drop(s)
      BY <1>0, <3>3 DEF Drop, Rest
    <3> QED
      BY <1>5, <3>1, <3>2, <3>3
  <2>5. Shown'
    <3>1. CASE OnOpen(s)
      BY <1>0, <3>1 DEF OnOpen, Shown, Types
    <3>2. CASE AuthOk(s) \/ Drop(s)
      <4>1. socket'[s] \in {"authed", "dropped"}
        BY <1>0, <3>2 DEF AuthOk, Drop, Types
      <4> QED
        BY <4>1 DEF Shown
    <3> QED
      BY <1>5, <3>1, <3>2
  <2>6. Under # {}
    BY <2>1, UnderHas
  <2>7. spent["toggles"] <= 1 => Under = {<<"socket", s>>} /\ \A x \in Under : ~(x[1] = "timer" /\ armed[x[2]] = "cooldown")
    BY <1>0, <2>1, Alone
  <2>8. ASSUME spent["toggles"] <= 1 PROVE Solo'
    <3>1. (\A d \in Calls : call[d] = "none") /\ (\A r \in Sockets : refresh[r] = "none")
          /\ (\A r \in Sockets \ {s} : socket[r] = "none") /\ \A t \in Timers : armed[t] = "none"
      BY <2>7, <2>8, UnderHas
    <3>2. \A r \in Sockets : socket'[r] # "none" => <<"socket", r>> \in {<<"socket", s>>}
      BY <1>0, <2>3, <3>1 DEF Types
    <3>3. Under' \subseteq {<<"socket", s>>}
      BY <2>1, <3>1, <3>2, UnderNext DEF timing
    <3> QED
      BY <3>3 DEF Solo
  <2>9. CASE authFailures' = authFailures
    <3>1. Fresh' /\ (spent'["toggles"] <= 1 => Solo' /\ Low')
      BY <1>0, <2>1, <2>2, <2>6, <2>7, <2>8, <2>9, HandsOn
    <3> QED
      BY <2>4, <2>5, <3>1 DEF SInv
  <2>10. CASE authFailures' = 0
    <3>1. authFailures' # MaxAuthFailures /\ authFailures' <= MaxAuthFailures
      BY <1>0, <2>10
    <3>2. Low'
      BY <3>1 DEF Low
    <3>3. Fresh'
      BY <1>0, <2>1, <2>2, <2>6, NotFresh
    <3> QED
      BY <2>2, <2>4, <2>5, <2>8, <3>2, <3>3 DEF SInv
  <2> QED
    BY <1>5, <2>9, <2>10 DEF OnOpen, AuthOk, Drop
<1>6. ASSUME NEW s \in Sockets, OnClose(s) PROVE SInv'
  <2>1. /\ socket[s] # "none" /\ UNCHANGED <<mounted, enabled, call, spent, upsets>>
        /\ isConnected' = FALSE /\ socket' = [socket EXCEPT ![s] = "none"] /\ code' = [code EXCEPT ![s] = "none"]
    BY <1>6 DEF OnClose
  <2>2. authFailures' \in Nat
    <3>1. authFailures' \in {authFailures, authFailures + 1, 0}
      BY <1>6 DEF OnClose, Rejected
    <3> QED
      BY <1>0, <3>1
  <2>3. Rest' /\ Shown'
    BY <1>0, <2>1, <2>2 DEF Rest, Shown
  <2>4. Fresh'
    BY <1>0, <2>1, UnderHas, NotFresh
  <2>5. ASSUME spent["toggles"] <= 1 PROVE Solo' /\ Low'
    <3>1. Solo /\ Low /\ Under = {<<"socket", s>>}
      BY <1>0, <2>1, <2>5, Alone
    <3>2. (\A d \in Calls : call'[d] = "none") /\ (\A r \in Sockets : refresh[r] = "none" /\ socket'[r] = "none")
          /\ \A t \in Timers : armed[t] = "none"
      BY <1>0, <2>1, <3>1, UnderHas DEF Types
    <3>3. authFailures < MaxAuthFailures
      <4>1. authFailures # MaxAuthFailures
        BY <3>1 DEF Low
      <4> QED
        BY <1>0, <3>1, <4>1 DEF Low
    <3>4. CASE timing' = timing /\ refresh' = refresh /\ authFailures' <= MaxAuthFailures
      <4>1. (\A r \in Sockets : refresh'[r] = "none") /\ \A t \in Timers : armed'[t] = "none"
        BY <3>2, <3>4 DEF timing
      <4>2. Under' = {}
        BY <3>2, <4>1, NothingNext
      <4> QED
        BY <3>4, <4>2 DEF Solo, Low
    <3>5. CASE Arm("backoff") /\ refresh' = refresh /\ authFailures' < MaxAuthFailures
      <4>1. Solo'
        BY <1>0, <3>2, <3>5, ArmSolo
      <4>2. authFailures' # MaxAuthFailures /\ authFailures' <= MaxAuthFailures
        BY <1>0, <2>2, <3>5
      <4> QED
        BY <4>1, <4>2 DEF Low
    <3>6. CASE Arm("cooldown") /\ refresh' = refresh /\ authFailures' <= MaxAuthFailures
      BY <1>0, <3>2, <3>6, ArmSolo DEF Low
    <3>7. CASE timing' = timing /\ authFailures' = authFailures
               /\ refresh' = [refresh EXCEPT ![s] = IF isDisconnecting THEN "manual" ELSE "auto"]
      <4>1. \A r \in Sockets : refresh'[r] # "none" => <<"refresh", r>> \in {<<"refresh", s>>}
        BY <1>0, <3>2, <3>7 DEF Types
      <4>2. Under' \subseteq {<<"refresh", s>>}
        BY <3>2, <3>7, <4>1, UnderNext DEF timing
      <4>3. authFailures' # MaxAuthFailures /\ authFailures' <= MaxAuthFailures
        BY <1>0, <3>3, <3>7
      <4> QED
        BY <4>2, <4>3 DEF Solo, Low
    <3>8. CASE Rejected(isDisconnecting) /\ refresh' = refresh
      <4>1. authFailures' = authFailures + 1 /\ authFailures' <= MaxAuthFailures
        BY <1>0, <3>3, <3>8 DEF Rejected
      <4>2. CASE timing' = timing
        BY <3>4, <3>8, <4>1, <4>2
      <4>3. CASE authFailures + 1 < MaxAuthFailures
        BY <3>4, <3>5, <3>8, <4>1, <4>3 DEF Rejected, Backoff
      <4>4. CASE ~(authFailures + 1 < MaxAuthFailures)
        BY <3>4, <3>6, <3>8, <4>1, <4>4 DEF Rejected
      <4> QED
        BY <4>3, <4>4
    <3>9. CASE authFailures' = 0 /\ Backoff(isDisconnecting, "network") /\ refresh' = refresh
      <4>1. authFailures' < MaxAuthFailures /\ authFailures' <= MaxAuthFailures
        BY <1>0, <3>9
      <4> QED
        BY <3>4, <3>5, <3>9, <4>1 DEF Backoff
    <3> QED
      BY <1>6, <3>7, <3>8, <3>9 DEF OnClose, timing
  <2> QED
    BY <2>1, <2>3, <2>4, <2>5 DEF SInv
<1>7. ASSUME NEW s \in Sockets, Refreshed(s) PROVE SInv'
  <2>1. /\ UNCHANGED <<mounted, enabled, isConnected, timing, socket, code, spent, upsets>> /\ refresh[s] # "none"
        /\ authFailures' = 0 /\ Reconnect(s) /\ refresh' = [refresh EXCEPT ![s] = "none"]
    BY <1>7 DEF Refreshed
  <2>2. Rest' /\ Shown' /\ Low'
    <3>1. authFailures' # MaxAuthFailures /\ authFailures' <= MaxAuthFailures
      BY <1>0, <2>1
    <3> QED
      BY <1>0, <2>1, <3>1 DEF Rest, Shown, Low
  <2>3. Fresh'
    BY <1>0, <2>1, UnderHas, NotFresh
  <2>4. ASSUME spent["toggles"] <= 1 PROVE Solo'
    <3>1. Under = {<<"refresh", s>>}
      BY <1>0, <2>1, <2>4, Alone
    <3>2. (\A d \in Calls : call[d] = "none") /\ (\A r \in Sockets : refresh'[r] = "none" /\ socket'[r] = "none")
          /\ \A t \in Timers : armed'[t] = "none"
      BY <1>0, <2>1, <3>1, UnderHas DEF Types, timing
    <3>3. CASE Connect(wsRef, isConnecting, isDisconnecting)
      BY <1>0, <3>2, <3>3, ConnectSolo
    <3>4. CASE UNCHANGED <<refs, call>>
      <4>1. Under' = {}
        BY <3>2, <3>4, NothingNext
      <4> QED
        BY <4>1 DEF Solo
    <3> QED
      BY <2>1, <3>3, <3>4 DEF Reconnect
  <2> QED
    BY <2>1, <2>2, <2>3, <2>4 DEF SInv
<1>8. ASSUME NEW s \in Sockets, RefreshFails(s) PROVE SInv'
  <2>1. /\ UNCHANGED <<mounted, enabled, isConnected, refs, timing, socket, code, call, upsets>> /\ refresh[s] # "none"
        /\ authFailures' = authFailures + 1 /\ refresh' = [refresh EXCEPT ![s] = "none"]
        /\ spent'["toggles"] = spent["toggles"]
    BY <1>0, <1>8 DEF RefreshFails, Spend, Types
  <2>2. Rest' /\ Shown'
    BY <1>0, <2>1 DEF Rest, Shown
  <2>3. Fresh'
    BY <1>0, <2>1, UnderHas, NotFresh
  <2>4. ASSUME spent["toggles"] <= 1 PROVE Solo' /\ Low'
    <3>1. Under = {<<"refresh", s>>} /\ Low
      BY <1>0, <2>1, <2>4, Alone
    <3>2. (\A d \in Calls : call'[d] = "none") /\ (\A r \in Sockets : refresh'[r] = "none" /\ socket'[r] = "none")
          /\ \A t \in Timers : armed'[t] = "none"
      BY <1>0, <2>1, <3>1, UnderHas DEF Types, timing
    <3>3. Under' = {}
      BY <3>2, NothingNext
    <3>4. authFailures # MaxAuthFailures /\ authFailures <= MaxAuthFailures
      BY <3>1 DEF Low
    <3>5. authFailures' <= MaxAuthFailures
      BY <1>0, <2>1, <3>4
    <3> QED
      BY <3>3, <3>5 DEF Solo, Low
  <2> QED
    BY <2>1, <2>2, <2>3, <2>4 DEF SInv
<1>9. ASSUME NEW t \in Timers, Fire(t) PROVE SInv'
  <2>1. /\ armed[t] # "none" /\ armed' = [armed EXCEPT ![t] = "none"] /\ authFailures' = CountAgain(t)
        /\ UNCHANGED <<mounted, enabled, isConnected, socket, code, refresh, spent, upsets>>
        /\ Connect(wsRef, isConnecting, isDisconnecting)
    BY <1>9 DEF Fire
  <2>2. authFailures' \in Nat
    BY <1>0, <2>1 DEF CountAgain
  <2>3. Rest' /\ Shown'
    BY <1>0, <2>1, <2>2 DEF Rest, Shown
  <2>4. Fresh'
    BY <1>0, <2>1, UnderHas, NotFresh
  <2>5. ASSUME spent["toggles"] <= 1 PROVE Solo' /\ Low'
    <3>1. Under = {<<"timer", t>>} /\ Low
      BY <1>0, <2>1, <2>5, Alone
    <3>2. (\A d \in Calls : call[d] = "none") /\ (\A r \in Sockets : refresh'[r] = "none" /\ socket'[r] = "none")
          /\ \A u \in Timers : armed'[u] = "none"
      BY <1>0, <2>1, <3>1, UnderHas DEF Types
    <3>3. Solo'
      BY <1>0, <2>1, <3>2, ConnectSolo
    <3>4. authFailures' # MaxAuthFailures /\ authFailures' <= MaxAuthFailures
      <4>1. CASE armed[t] = "cooldown"
        BY <1>0, <2>1, <4>1 DEF CountAgain
      <4>2. CASE armed[t] # "cooldown"
        <5>1. authFailures # MaxAuthFailures /\ authFailures <= MaxAuthFailures
          BY <3>1, <4>2 DEF Low
        <5> QED
          BY <2>1, <4>2, <5>1 DEF CountAgain
      <4> QED
        BY <4>1, <4>2
    <3> QED
      BY <3>3, <3>4 DEF Low
  <2> QED
    BY <2>1, <2>3, <2>4, <2>5 DEF SInv
<1>10. CASE UNCHANGED vars
  <2>1. UNCHANGED <<mounted, enabled, isConnected, isConnecting, isDisconnecting, wsRef, authFailures,
                    armed, socket, code, call, refresh, spent, upsets>>
    BY <1>10 DEF vars, refs, timing
  <2>2. Under' = Under
    BY <2>1 DEF Under
  <2> QED
    BY <1>0, <2>1, <2>2 DEF SInv, Rest, Shown, Fresh, Solo, Low
<1> QED
  BY <1>1, <1>2, <1>3, <1>4, <1>5, <1>6, <1>7, <1>8, <1>9, <1>10 DEF Next, SocketSteps, RefreshSteps

\* The hook's fields keep their types.  isConnected is shown only while the
\* server has confirmed a socket whose onclose has not run; and as long as
\* `enabled` changed at most once, authFailureCountRef stays within
\* MAX_AUTH_FAILURES, however many drops, rejected tokens and failed refreshes.
THEOREM SocketTypes == Spec => []TypeOK
<1>1. Init => SInv
  <2> SUFFICES ASSUME Init PROVE SInv
    OBVIOUS
  <2>1. Under = {}
    BY DEF Init, Under
  <2>2. Solo /\ Low
    BY <2>1, SocketAssumption DEF Init, Solo, Low
  <2>3. Fresh /\ Shown
    BY <2>1 DEF Init, Fresh, Shown
  <2>4. Rest
    BY DEF Init, Rest
  <2> QED
    BY <2>2, <2>3, <2>4 DEF SInv
<1>2. IInv /\ IInv' /\ SInv /\ [Next]_vars => SInv'
  BY SoloStep DEF IInv
<1>3. IInv /\ SInv => TypeOK
  BY DEF IInv, SInv, Types, Rest, Shown, Low, TypeOK
<1> QED
  BY <1>1, <1>2, <1>3, InvariantHolds, PTL DEF Spec
=============================================================================
