------------------------------ MODULE AgentStream ------------------------------
(***************************************************************************)
(* One chat view of the browser: the hook useAgent (frontend/src/hooks/    *)
(* useAgent.ts with useAgent/sseConnection.ts, eventHandlers.ts and        *)
(* historyLoader.ts).  Sending, loading a session, clearing, stopping and  *)
(* the wake-up of a hidden tab all steer one event stream through shared   *)
(* refs, while the answers they wait for arrive in any order.              *)
(*                                                                         *)
(* Runs and the user messages that start them are the numbers of the       *)
(* sends; a session is named by the send that created it.  A run's events  *)
(* are 1 (metadata and user:message), 2 .. Events-1 (chunks) and Events    *)
(* (done); an event's timestamp is its place in the server's feed.         *)
(*                                                                         *)
(* JavaScript is single-threaded: what lies between two awaits is one      *)
(* step, with the microtasks it sets off.  A stream that is aborted is     *)
(* such a case: its promise resolves and the finally blocks that wait for  *)
(* it run right after the code that aborted it.  Tokens are valid when a   *)
(* stream is opened, so getValidAccessToken() answers at once; the server  *)
(* may reject one all the same (401).  The effects that copy state to refs *)
(* are not steps of their own.                                             *)
(***************************************************************************)
EXTENDS Integers, Sequences, FiniteSets, SequencesExt

CONSTANTS
  Text(_),    \* the text of the message that starts a run
  MaxSends,   \* bound: messages sent, hence runs
  Events,     \* events of a run
  MaxConns,   \* bound: connectToSSE() calls alive at a time
  MaxLoads,   \* bound: sessions opened
  MaxClears, MaxStops, MaxWakes,  \* bounds on the rest of what the user does
  MaxDrops,   \* bound: streams that break and requests that fail
  MaxRejects, \* bound: streams answered 401
  MaxUpsets(_)  \* bound: all of these together, when so many messages were sent

ASSUME StreamAssumption ==
  /\ Events \in Nat \ (0 .. 2)
  /\ {MaxSends, MaxConns, MaxLoads, MaxClears, MaxStops, MaxWakes, MaxDrops,
      MaxRejects} \subseteq Nat
  /\ \A n \in 0 .. MaxSends : MaxUpsets(n) \in Nat

Runs == 1 .. MaxSends
Conns == 1 .. MaxConns
Loads == 1 .. MaxLoads
None == <<"none", 0>>        \* no message id

VARIABLES
  feed,     \* server: the events of all runs, in the order of their timestamps
  phase,    \* server: "none", "running", "traced" (events complete), "completed"
  home,     \* server: the session of each run
  ui,       \* the hook's refs and flags
  messages, \* what is shown
  send,     \* per sendMessage() call: stage and the session it captured
  load,     \* per loadHistory() call: stage, request number, answers
  conn,     \* per connectToSSE() call
  checks,   \* reconnectSSE() calls that await the run's status
  timers,   \* reconnects that are due
  spent,    \* how much of each bound is used
  torn,     \* history: the user acted or the tab woke up while the answer to an
            \* earlier request was awaited, or a send failed that had made the
            \* view forget which events of the previous run it shows
  missed    \* history: the runs shown that a check found completed, so that the
            \* stream is not asked for the rest

server == <<feed, phase, home>>
vars == <<server, ui, messages, send, load, conn, checks, timers, spent, torn, missed>>

Idle == [st |-> "none", run |-> 0, home |-> 0, msg |-> None, pos |-> 0,
         owner |-> 0, retried |-> FALSE]
NoLoad == [st |-> "none", req |-> 0, target |-> 0, run |-> 0,
           events |-> {}, running |-> FALSE, got |-> {}]

Init ==
  /\ feed = <<>> /\ phase = [r \in Runs |-> "none"] /\ home = [r \in Runs |-> 0]
  /\ ui = [session |-> 0, run |-> 0, streaming |-> None, ctl |-> 0,
           connecting |-> FALSE, sending |-> FALSE, loading |-> FALSE,
           loadingHistory |-> FALSE, req |-> 0, disconnected |-> TRUE,
           processed |-> {}, last |-> 0, timer |-> 0]
  /\ messages = <<>>
  /\ send = [k \in Runs |-> [st |-> "none", from |-> 0]]
  /\ load = [n \in Loads |-> NoLoad]
  /\ conn = [c \in Conns |-> Idle]
  /\ checks = {} /\ timers = {}
  /\ spent = [loads |-> 0, clears |-> 0, stops |-> 0, wakes |-> 0,
              drops |-> 0, rejects |-> 0]
  /\ torn = FALSE /\ missed = {}

Upsets ==
  spent.loads + spent.clears + spent.stops + spent.wakes + spent.drops + spent.rejects

Spend(what, bound) ==
  /\ spent[what] < bound
  /\ Upsets < MaxUpsets(Cardinality({k \in Runs : send[k].st # "none"}))
  /\ spent' = [spent EXCEPT ![what] = @ + 1]

-----------------------------------------------------------------------------
(* The server: events are appended, then the trace is complete, then the   *)
(* session's status says so.                                               *)

Count(r) == Cardinality({i \in DOMAIN feed : feed[i][1] = r})
At(e) == CHOOSE i \in DOMAIN feed : feed[i] = e

Emit(r) ==
  /\ phase[r] = "running" /\ Count(r) < Events
  /\ feed' = Append(feed, <<r, Count(r) + 1>>)
  /\ UNCHANGED <<phase, home, ui, messages, send, load, conn, checks, timers, spent, torn, missed>>

Finish(r) ==
  /\ \/ phase[r] = "running" /\ Count(r) = Events
        /\ phase' = [phase EXCEPT ![r] = "traced"]
     \/ phase[r] = "traced" /\ phase' = [phase EXCEPT ![r] = "completed"]
  /\ UNCHANGED <<feed, home, ui, messages, send, load, conn, checks, timers, spent, torn, missed>>

RunsOf(s) == {r \in Runs : home[r] = s}
CurrentRun(s) == CHOOSE r \in RunsOf(s) : \A q \in RunsOf(s) : q <= r

-----------------------------------------------------------------------------
(* Streams.                                                                *)

Active == {"request", "live", "refresh"}
Alive(c) == c # 0 /\ conn[c].st \in Active

\* The controller's stream stops; a 401 handler that awaits the refresh goes on.
\* Mutant: the controller is dropped and not aborted.
CutNothing(cs, c) == cs
Cut(cs, c) ==
  IF ~Alive(c) THEN cs
  ELSE [cs EXCEPT ![c] = IF @.st = "refresh"
                         THEN [@ EXCEPT !.st = "orphan", !.owner = 0] ELSE Idle]

\* The finally blocks of a stream that ended, and of the send awaiting it.
Finally(u, owner) ==
  [u EXCEPT !.connecting = FALSE,
            !.sending = @ /\ owner = 0, !.loading = @ /\ owner = 0]

\* They run after the code that aborted the stream.
Aborted(u, c) == IF Alive(c) THEN Finally(u, conn[c].owner) ELSE u

\* isConnectingRef of the call that arrives.
Busy(u) == u.connecting

FirstFree(cs) == {c \in Conns : cs[c] = Idle /\ \A d \in 1 .. (c - 1) : cs[d] # Idle}

\* connectToSSE(): u and cs are the state it is called in.
Connect(u, cs, to) ==
  IF Busy(u)
  THEN /\ ui' = IF to.owner = 0 THEN u ELSE [u EXCEPT !.sending = FALSE, !.loading = FALSE]
       /\ conn' = cs
  ELSE \E c \in FirstFree(Cut(cs, u.ctl)) :
         /\ ui' = Aborted([u EXCEPT !.connecting = TRUE, !.streaming = to.msg,
                                    !.ctl = c, !.disconnected = FALSE], u.ctl)
         /\ conn' = [Cut(cs, u.ctl) EXCEPT ![c] = to]

Stream(run, sess, msg, owner) ==
  [Idle EXCEPT !.st = "request", !.run = run, !.home = sess, !.msg = msg, !.owner = owner]

\* The message is no longer streaming.  Mutant: it stays so.
DropNothing(ms, id) == ms
Drop(ms, id) == [i \in DOMAIN ms |-> IF ms[i].id = id THEN [ms[i] EXCEPT !.streaming = FALSE]
                                     ELSE ms[i]]

Open(c) ==
  /\ conn[c].st = "request"
  /\ conn' = [conn EXCEPT ![c].st = "live"]
  /\ ui' = [ui EXCEPT !.disconnected = FALSE]
  /\ UNCHANGED <<server, messages, send, load, checks, timers, spent, torn, missed>>

\* 401: the first time the token is refreshed, then the library retries.
Reject(c) ==
  /\ conn[c].st = "request" /\ Spend("rejects", MaxRejects)
  /\ conn' = IF conn[c].retried THEN conn ELSE [conn EXCEPT ![c].st = "refresh"]
  /\ ui' = IF conn[c].retried THEN [ui EXCEPT !.disconnected = FALSE] ELSE ui
  /\ UNCHANGED <<server, messages, send, load, checks, timers, torn, missed>>

\* The refresh is done: whatever stream is current is aborted and this one is
\* opened anew, within the call that was aborted, whose finally block runs after
\* that.  (A refresh that fails lets the library retry.)
Refreshed(c) ==
  /\ conn[c].st \in {"refresh", "orphan"}
  /\ LET again == [Stream(conn[c].run, conn[c].home, conn[c].msg, 0) EXCEPT !.retried = TRUE]
     IN Connect([ui EXCEPT !.connecting = FALSE], [conn EXCEPT ![c] = Idle], again)
  /\ UNCHANGED <<server, messages, send, load, checks, timers, spent, torn, missed>>

\* The stream breaks; the library asks again and is sent everything again.
Break(c) ==
  /\ conn[c].st \in {"request", "live"} /\ Spend("drops", MaxDrops)
  /\ conn' = [conn EXCEPT ![c].st = "request", ![c].pos = 0]
  /\ ui' = [ui EXCEPT !.disconnected = FALSE]
  /\ UNCHANGED <<server, messages, send, load, checks, timers, torn, missed>>

\* The server closes the stream after the last event.
Close(c) ==
  /\ conn[c].st = "live" /\ conn[c].pos = Events
  /\ messages' = Drop(messages, conn[c].msg)
  /\ ui' = Finally([ui EXCEPT !.disconnected = TRUE], conn[c].owner)
  /\ conn' = [conn EXCEPT ![c] = Idle]
  /\ UNCHANGED <<server, send, load, checks, timers, spent, torn, missed>>

-----------------------------------------------------------------------------
(* handleStreamEvent().                                                    *)

UserMessage(r) == [role |-> "user", id |-> <<"user", r>>, run |-> r,
                   streaming |-> FALSE, got |-> <<>>]
Assistant(id, r, streaming) == [role |-> "assistant", id |-> id, run |-> r,
                                streaming |-> streaming, got |-> <<>>]

\* handleUserMessage(): nothing if the text is shown, be it of another run, else
\* before the first streaming answer.  Mutant: nobody looks whether it is shown.
InsertAlways(ms, r) == Append(ms, UserMessage(r))
InsertUser(ms, r) ==
  LET streaming == {i \in DOMAIN ms : ms[i].role = "assistant" /\ ms[i].streaming}
      at == CHOOSE i \in streaming : \A j \in streaming : i <= j
  IN IF \E i \in DOMAIN ms : ms[i].role = "user" /\ Text(ms[i].run) = Text(r) THEN ms
     ELSE IF streaming = {} THEN Append(ms, UserMessage(r))
     ELSE InsertAt(ms, at, UserMessage(r))

\* What an event does to the messages.
Apply(ms, id, e) ==
  IF e[2] = 1 THEN InsertUser(ms, e[1])
  ELSE IF e[2] = Events THEN Drop(ms, id)
  ELSE [i \in DOMAIN ms |-> IF ms[i].id = id THEN [ms[i] EXCEPT !.got = Append(@, e)]
                            ELSE ms[i]]

\* An event that was processed, or is older than the newest one shown.
\* Mutant: only the timestamps are compared.
KnownByTime(e) == At(e) < ui.last
Known(e) == e \in ui.processed \/ At(e) < ui.last

Deliver(c) ==
  /\ conn[c].st = "live" /\ conn[c].pos < Count(conn[c].run)
  /\ conn' = [conn EXCEPT ![c].pos = @ + 1]
  /\ LET e == <<conn[c].run, conn[c].pos + 1>>
     IN IF Known(e) THEN UNCHANGED <<ui, messages>>
        ELSE /\ messages' = Apply(messages, conn[c].msg, e)
             /\ ui' = [ui EXCEPT
                  !.processed = @ \cup {e},
                  !.last = IF At(e) > @ THEN At(e) ELSE @,
                  !.session = IF e[2] = 1 /\ @ = 0 THEN conn[c].home ELSE @,
                  !.disconnected = @ \/ e[2] = Events]
  /\ UNCHANGED <<server, send, load, checks, timers, spent, torn, missed>>

-----------------------------------------------------------------------------
(* sendMessage().                                                          *)

\* Abort the stream, forget the reconnect that is due.
Quiet(u) == [u EXCEPT !.ctl = 0, !.timer = 0]
Due == {t \in timers : t.n # ui.timer}

\* Answers to requests made for an earlier state of the view.
Awaited == \/ \E k \in Runs : send[k].st \in {"submit", "accepted"}
           \/ \E c \in Conns : conn[c].st \in {"refresh", "orphan"}
           \/ checks # {}

\* What is forgotten before a new run or another history is shown.  Mutants:
\* nothing is; the timestamp is reset to one that is not in the feed.
KeepSeen(u) == u
ForgetWrong(u) == [u EXCEPT !.processed = {}, !.last = -1]
ForgetSeen(u) == [u EXCEPT !.processed = {}, !.last = 0]

\* ChatView lets the user send when nothing is loading and no answer streams.
SessionRunning == ui.loading \/ \E i \in DOMAIN messages : messages[i].streaming

Fresh(k) == send[k].st = "none" /\ \A j \in 1 .. (k - 1) : send[j].st # "none"

Send(k) ==
  /\ Fresh(k) /\ ~SessionRunning /\ Upsets <= MaxUpsets(k)
  /\ IF ui.sending
     THEN /\ ui' = [ui EXCEPT !.req = @ + 1]
          /\ send' = [send EXCEPT ![k].st = "over"]
          /\ UNCHANGED <<messages, conn, timers>>
     ELSE /\ ui' = Aborted(ForgetSeen([Quiet(ui) EXCEPT
                       !.req = @ + 1, !.connecting = FALSE,
                       !.sending = TRUE, !.loading = TRUE]), ui.ctl)
          /\ conn' = Cut(conn, ui.ctl)
          /\ timers' = Due
          /\ messages' = messages \o <<UserMessage(k), Assistant(<<"tmp", k>>, 0, TRUE)>>
          /\ send' = [send EXCEPT ![k] = [st |-> "submit", from |-> ui.session]]
  /\ torn' = (torn \/ Awaited)
  /\ UNCHANGED <<server, load, checks, spent, missed>>

\* The server accepts the request: the run begins.
Accept(k) ==
  /\ send[k].st = "submit"
  /\ send' = [send EXCEPT ![k].st = "accepted"]
  /\ phase' = [phase EXCEPT ![k] = "running"]
  /\ home' = [home EXCEPT ![k] = IF send[k].from = 0 THEN k ELSE send[k].from]
  /\ UNCHANGED <<feed, ui, messages, load, conn, checks, timers, spent, torn, missed>>

\* The answer arrives: the answer's message gets the run's name and the
\* stream is opened, whatever happened to the view since.
Submitted(k) ==
  /\ send[k].st = "accepted"
  /\ send' = [send EXCEPT ![k].st = "over"]
  /\ messages' = [i \in DOMAIN messages |->
       IF messages[i].id = <<"tmp", k>>
       THEN [messages[i] EXCEPT !.id = <<"run", k>>, !.run = k] ELSE messages[i]]
  /\ Connect([ui EXCEPT !.run = k, !.session = IF send[k].from = 0 THEN k ELSE @],
             conn, Stream(k, home[k], <<"run", k>>, k))
  /\ UNCHANGED <<server, load, checks, timers, spent, torn, missed>>

SubmitFails(k) ==
  /\ send[k].st \in {"submit", "accepted"} /\ Spend("drops", MaxDrops)
  /\ send' = [send EXCEPT ![k].st = "over"]
  /\ messages' = Drop(messages, <<"tmp", k>>)
  /\ ui' = [ui EXCEPT !.disconnected = TRUE, !.sending = FALSE, !.loading = FALSE]
  /\ torn' = (torn \/ ui.streaming # None)
  /\ UNCHANGED <<server, load, conn, checks, timers, missed>>

-----------------------------------------------------------------------------
(* loadHistory().                                                          *)

\* A load is stale once another load, a send or a clear took a number.
\* Mutant: it is never found so.
NeverStale(n) == FALSE
Stale(n) == load[n].req # ui.req

Load(n, s) ==
  /\ Spend("loads", MaxLoads) /\ load[n] = NoLoad /\ \A m \in 1 .. (n - 1) : load[m] # NoLoad
  /\ RunsOf(s) # {}
  /\ ui' = Aborted(ForgetSeen([Quiet(ui) EXCEPT
             !.req = @ + 1, !.connecting = FALSE, !.streaming = None,
             !.loading = TRUE, !.loadingHistory = TRUE]), ui.ctl)
  /\ conn' = Cut(conn, ui.ctl)
  /\ timers' = Due
  /\ messages' = <<>>
  /\ load' = [load EXCEPT ![n] = [NoLoad EXCEPT !.st = "get", !.req = ui'.req, !.target = s]]
  /\ torn' = (torn \/ Awaited) /\ missed' = {}
  /\ UNCHANGED <<server, send, checks>>

\* markRead and the session's record are answered.
LoadGet(n) ==
  /\ load[n].st = "get"
  /\ IF Stale(n)
     THEN load' = [load EXCEPT ![n].st = "over"] /\ UNCHANGED ui
     ELSE /\ load' = [load EXCEPT ![n].st = "fetch", ![n].run = CurrentRun(load[n].target)]
          /\ ui' = [ui EXCEPT !.session = load[n].target]
  /\ UNCHANGED <<server, messages, send, conn, checks, timers, spent, torn, missed>>

\* The server reads the events (of complete traces only) and the status, in
\* any order.
LoadRead(n, what) ==
  /\ load[n].st = "fetch" /\ what \notin load[n].got
  /\ load' = [load EXCEPT
       ![n].got = @ \cup {what},
       ![n].events = IF what = "events"
                     THEN {r \in RunsOf(load[n].target) : phase[r] \in {"traced", "completed"}}
                     ELSE @,
       ![n].running = IF what = "status" THEN phase[load[n].run] # "completed" ELSE @]
  /\ UNCHANGED <<server, ui, messages, send, conn, checks, timers, spent, torn, missed>>

\* reconstructMessagesFromEvents(): one step of its loop.
Rebuild(acc, e) ==
  LET pushed == IF acc.current = <<>> THEN acc.shown ELSE acc.shown \o acc.current
      n == Len(acc.shown)
      add(m) == [m EXCEPT !.got = Append(@, e)]
  IN IF e[2] = 1 THEN [shown |-> Append(pushed, UserMessage(e[1])), current |-> <<>>]
     ELSE IF e[2] = Events THEN acc
     ELSE IF acc.current = <<>> /\ n > 0 /\ acc.shown[n].role = "assistant"
             /\ acc.shown[n].run = e[1]
     THEN [acc EXCEPT !.shown[n] = add(@)]
     ELSE IF acc.current = <<>>
     THEN [acc EXCEPT !.current = <<add(Assistant(<<"run", e[1]>>, e[1], FALSE))>>]
     ELSE [acc EXCEPT !.current = <<add(acc.current[1])>>]

\* The places in the feed of the events of runs rs, and the loop over them.
Stored(rs) == {i \in DOMAIN feed : feed[i][1] \in rs}
Loop(rs) ==
  LET after[i \in 0 .. Len(feed)] ==
        IF i = 0 THEN [shown |-> <<>>, current |-> <<>>]
        ELSE IF i \in Stored(rs) THEN Rebuild(after[i - 1], feed[i]) ELSE after[i - 1]
  IN after
History(rs) ==
  LET end == Loop(rs)[Len(feed)] IN end.shown \o end.current

\* prepareMessagesForRunningRun(): the run's answer, or a fresh one.
Prepared(ms, r, n) ==
  LET mine == {i \in DOMAIN ms : ms[i].role = "assistant" /\ ms[i].run = r}
      lastOne == CHOOSE i \in mine : \A j \in mine : j <= i
  IN IF mine = {} THEN [id |-> <<"load", n>>, ms |-> Append(ms, Assistant(<<"load", n>>, r, TRUE))]
     ELSE [id |-> ms[lastOne].id,
           ms |-> [i \in DOMAIN ms |-> IF ms[i].id = ms[lastOne].id
                                       THEN [ms[i] EXCEPT !.streaming = TRUE] ELSE ms[i]]]

\* Mutant: only one of the two flags is reset.
LoadHalfDone(u) == [u EXCEPT !.loading = FALSE]
LoadDone(u) == [u EXCEPT !.loading = FALSE, !.loadingHistory = FALSE]

LoadShow(n) ==
  /\ load[n].st = "fetch" /\ load[n].got = {"events", "status"}
  /\ load' = [load EXCEPT ![n].st = "over"]
  /\ IF Stale(n) THEN UNCHANGED <<ui, messages, conn>>
     ELSE LET old == History(load[n].events)
              stored == Stored(load[n].events)
              u == [ui EXCEPT !.last = IF stored = {} THEN @
                                       ELSE CHOOSE i \in stored : \A j \in stored : j <= i]
              new == Prepared(old, load[n].run, n)
          IN IF load[n].running
             THEN /\ messages' = new.ms
                  /\ Connect(LoadDone([u EXCEPT !.run = load[n].run]), conn,
                             Stream(load[n].run, load[n].target, new.id, 0))
             ELSE messages' = old /\ ui' = LoadDone(u) /\ UNCHANGED conn
  /\ UNCHANGED <<server, send, checks, timers, spent, torn, missed>>

LoadFails(n) ==
  /\ load[n].st \in {"get", "fetch"} /\ Spend("drops", MaxDrops)
  /\ load' = [load EXCEPT ![n].st = "over"]
  /\ ui' = IF Stale(n) THEN ui ELSE LoadDone(ui)
  /\ UNCHANGED <<server, messages, send, conn, checks, timers, torn, missed>>

-----------------------------------------------------------------------------
(* clearMessages(), stopGeneration() and reconnectSSE().                   *)

Clear ==
  /\ Spend("clears", MaxClears)
  /\ ui' = Aborted(ForgetSeen([Quiet(ui) EXCEPT
             !.req = @ + 1, !.session = 0, !.run = 0, !.streaming = None,
             !.disconnected = TRUE]), ui.ctl)
  /\ conn' = Cut(conn, ui.ctl)
  /\ timers' = Due
  /\ messages' = <<>>
  /\ torn' = (torn \/ Awaited) /\ missed' = {}
  /\ UNCHANGED <<server, send, load, checks>>

\* The server is asked to cancel; how soon the run ends is up to it.  The button
\* is in the input below the messages, which a view without messages lacks.
Stop ==
  /\ SessionRunning /\ messages # <<>> /\ Spend("stops", MaxStops)
  /\ ui' = [ui EXCEPT !.sending = FALSE, !.loading = FALSE]
  /\ messages' = [i \in DOMAIN messages |-> [messages[i] EXCEPT !.streaming = FALSE]]
  /\ UNCHANGED <<server, send, load, conn, checks, timers, torn, missed>>

Offline ==
  /\ ~ui.disconnected
  /\ ui' = [ui EXCEPT !.disconnected = TRUE]
  /\ UNCHANGED <<server, messages, send, load, conn, checks, timers, spent, torn, missed>>

\* The tab becomes visible, or the network is back.
Wake ==
  /\ ui.disconnected /\ ui.session # 0 /\ ui.run # 0 /\ ui.streaming # None
  /\ Spend("wakes", MaxWakes)
  /\ checks' = checks \cup {[n |-> spent'.wakes, run |-> ui.run, home |-> ui.session,
                             msg |-> ui.streaming]}
  /\ ui' = Aborted([Quiet(ui) EXCEPT !.connecting = FALSE], ui.ctl)
  /\ conn' = Cut(conn, ui.ctl)
  /\ timers' = Due
  /\ torn' = (torn \/ Awaited)
  /\ UNCHANGED <<server, messages, send, load, missed>>

\* The status arrives: the run is over, or a reconnect is scheduled, as it is
\* when the request fails.
Checked(k) ==
  /\ checks' = checks \ {k}
  /\ \/ /\ phase[k.run] = "completed"
        /\ ui' = [ui EXCEPT !.disconnected = TRUE, !.streaming = None]
        /\ messages' = Drop(messages, k.msg)
        /\ missed' = missed \cup {k.run}
        /\ UNCHANGED <<timers, spent>>
     \/ /\ (phase[k.run] # "completed" /\ UNCHANGED spent) \/ Spend("drops", MaxDrops)
        /\ ui' = [ui EXCEPT !.disconnected = FALSE, !.timer = k.n]
        /\ timers' = timers \cup {k}
        /\ UNCHANGED <<messages, missed>>
  /\ UNCHANGED <<server, send, load, conn, torn>>

Fire(k) ==
  /\ timers' = timers \ {k}
  /\ IF \E i \in DOMAIN messages : messages[i].id = k.msg
     THEN Connect(ui, conn, Stream(k.run, k.home, k.msg, 0))
     ELSE UNCHANGED <<ui, conn>>
  /\ UNCHANGED <<server, messages, send, load, checks, spent, torn, missed>>

-----------------------------------------------------------------------------
SendSteps(k) == Accept(k) \/ Submitted(k) \/ SubmitFails(k)
LoadSteps(n) ==
  \/ LoadGet(n) \/ LoadShow(n) \/ LoadFails(n)
  \/ \E what \in {"events", "status"} : LoadRead(n, what)
ConnSteps(c) == Open(c) \/ Refreshed(c) \/ Close(c) \/ Deliver(c)

User ==
  \/ \E k \in Runs : Send(k)
  \/ \E n \in Loads, s \in Runs : Load(n, s)
  \/ Clear \/ Stop \/ Offline \/ Wake

Next ==
  \/ \E r \in Runs : Emit(r) \/ Finish(r)
  \/ \E c \in Conns : ConnSteps(c) \/ Reject(c) \/ Break(c)
  \/ \E k \in Runs : SendSteps(k)
  \/ \E n \in Loads : LoadSteps(n)
  \/ \E k \in checks : Checked(k)
  \/ \E k \in timers : Fire(k)
  \/ User

Spec == Init /\ [][Next]_vars

\* What goes on by itself: runs, answers, events and timers.
System ==
  \/ \E r \in Runs : Emit(r) \/ Finish(r) \/ SendSteps(r)
  \/ \E c \in Conns : ConnSteps(c)
  \/ \E n \in Loads : LoadSteps(n)
  \/ \E k \in checks : Checked(k)
  \/ \E k \in timers : Fire(k)

\* It does not stop while something is left to do; users need not act.
FairSpec == Spec /\ WF_vars(System)

-----------------------------------------------------------------------------
(* Properties.                                                             *)

Ids == {None} \cup ({"user", "run", "tmp"} \X Runs) \cup ({"load"} \X Loads)
Feed == Runs \X (1 .. Events)
Message == [role : {"user", "assistant"}, id : Ids, run : 0 .. MaxSends,
            streaming : BOOLEAN, got : Seq(Feed)]

\* Every variable is of the shape the hook's refs and state have.
TypeOK ==
  /\ feed \in Seq(Feed) /\ home \in [Runs -> 0 .. MaxSends]
  /\ phase \in [Runs -> {"none", "running", "traced", "completed"}]
  /\ ui \in [session : 0 .. MaxSends, run : 0 .. MaxSends, streaming : Ids,
             ctl : Conns \cup {0}, connecting : BOOLEAN, sending : BOOLEAN,
             loading : BOOLEAN, loadingHistory : BOOLEAN, req : Nat,
             disconnected : BOOLEAN, processed : SUBSET Feed, last : Nat,
             timer : 0 .. MaxWakes]
  /\ messages \in Seq(Message)
  /\ send \in [Runs -> [st : {"none", "submit", "accepted", "over"},
                        from : 0 .. MaxSends]]
  /\ load \in [Loads -> [st : {"none", "get", "fetch", "over"}, req : Nat,
                         target : 0 .. MaxSends, run : 0 .. MaxSends,
                         events : SUBSET Runs, running : BOOLEAN,
                         got : SUBSET {"events", "status"}]]
  /\ conn \in [Conns -> [st : Active \cup {"none", "orphan"}, run : 0 .. MaxSends,
                         home : 0 .. MaxSends, msg : Ids, pos : 0 .. Events,
                         owner : 0 .. MaxSends, retried : BOOLEAN]]
  /\ (checks \cup timers) \subseteq
       [n : 1 .. MaxWakes, run : Runs, home : Runs, msg : Ids]
  /\ missed \subseteq Runs

Chunks(r) == [i \in 1 .. (Events - 2) |-> <<r, i + 1>>]
Answers == {m \in ToSet(messages) : m.role = "assistant"}

\* A run began before the previous one of its session had ended.
Overlap ==
  \E i, j, k \in DOMAIN feed :
    /\ i < j /\ j < k
    /\ feed[i][1] = feed[k][1] /\ feed[i][1] # feed[j][1]
    /\ home[feed[i][1]] = home[feed[j][1]]

\* The runs of a session followed one another.
InTurn ==
  \A i, j \in DOMAIN feed :
    i < j /\ home[feed[i][1]] = home[feed[j][1]] => feed[i][1] <= feed[j][1]

\* Whatever the user, the server and the network do, at most one stream feeds
\* the view: each way to open one aborts or finds the other (isConnectingRef,
\* abortControllerRef).
OneStream == Cardinality({c \in Conns : conn[c].st \in Active}) <= 1

\* No message is shown twice: a user message is shown before its run exists
\* (createOptimisticUserMessage), comes again from the stream and again from
\* the history, and an answer's id changes when its run is known.  (The answer
\* of a run that another one interrupts is shown in pieces with one id.)
UniqueIds ==
  ~Overlap => \A i, j \in DOMAIN messages : messages[i].id = messages[j].id => i = j

\* An answer is a beginning of its run's text, nothing twice, nothing skipped
\* and nothing of another run, however often the stream broke and was replayed
\* from the start, unless the refs were torn or runs overlapped.
ShowsPrefix ==
  ~torn /\ ~Overlap => \A m \in Answers : IsPrefix(m.got, Chunks(m.run))

\* The answers shown belong to the session the view names, although the
\* answers to the requests of the session left may arrive at any time.
InSession ==
  ~torn => \A m \in Answers : m.run # 0 => home[m.run] = ui.session

\* Nothing is awaited any more.
Settled ==
  /\ ~SessionRunning /\ ~Awaited /\ timers = {}
  /\ \A c \in Conns : ~Alive(c)
  /\ \A n \in Loads : load[n].st \in {"none", "over"}

\* When the view has settled, what it shows of a run is the whole of it: an
\* event that came neither with the history nor with the stream is lost.
NothingMissing ==
  Settled /\ InTurn /\ ~torn /\ spent.stops = 0 =>
    \A m \in Answers : m.run \notin {0} \cup missed => m.got = Chunks(m.run)

\* The view was emptied while a session was loaded: clearMessages() takes the
\* load's number and leaves isLoading set, and the load finds itself overtaken.
LoadLeft ==
  /\ ui.loading /\ ~ui.sending /\ ui.session = 0 /\ messages = <<>>
  /\ \A n \in Loads : load[n].st \in {"none", "over"} \/ Stale(n)

\* An answer does not stream for ever and the view does not stay "running",
\* which would keep the user from sending: whatever is lost, refused, rejected,
\* stopped or overtaken, some handler is left that ends it.  None is left when a
\* load was overtaken by clearMessages(); that state, and no other, is excused.
AnswerEnds == SessionRunning /\ ~torn ~> ~SessionRunning \/ torn \/ LoadLeft

\* A load that nothing overtakes leaves the view loaded.
LoadEnds ==
  \A n \in Loads :
    load[n].st = "get" /\ ~Stale(n) ~> Stale(n) \/ ~ui.loadingHistory

\* "Track processed event IDs to prevent duplicates" (useAgent.ts:97): not when
\* the status of a hidden tab's run arrives after the user has sent again.
NoDuplicates ==
  \A m \in Answers : Cardinality(ToSet(m.got)) = Len(m.got)
=============================================================================
