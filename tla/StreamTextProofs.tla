---------------------------- MODULE StreamTextProofs ----------------------------
(***************************************************************************)
(* What the stream view shows of a run: its answers are beginnings of the  *)
(* run's text (ShowsPrefix), and once the view has settled they are the    *)
(* whole of it (NothingMissing).                                           *)
(*                                                                         *)
(* The argument has five parts.  Linked ties the streams, the checks and   *)
(* the timers to the refs (streamingMessageIdRef, currentRunIdRef): a step *)
(* either changes none of the texts and refs (Rests) or is one of seven    *)
(* Moves.  Looped says what reconstructMessagesFromEvents has built of a   *)
(* part of the history, so that a run that ended is rebuilt whole.  ReadTo *)
(* and DInv say what a load has read.  Faithful says that the view has     *)
(* seen, and keeps out as old, exactly what its answers show.  Finished    *)
(* says that only a whole answer stops streaming.                          *)
(***************************************************************************)
EXTENDS AgentStreamProofs

Streamed == \E c \in Conns : conn[c].st # "none"
Waiting == \E k \in Runs : Waits(k)
Reads == \E n \in Loads : Pending(n) /\ ~Stale(n)

\* The stream, the check and the timer are for the answer the refs name.
Wired ==
  \A c \in Conns : conn[c].st # "none" =>
    /\ conn[c].st \in Active /\ conn[c].run = ui.run
    /\ conn[c].msg = ui.streaming /\ ui.streaming # None
Planned ==
  \A k \in checks \cup timers :
    k.run = ui.run /\ k.msg = ui.streaming /\ ui.streaming # None

\* There is at most one of them, and isConnectingRef is set only for a stream.
OneWay ==
  /\ ui.connecting => Streamed
  /\ Streamed => checks = {} /\ timers = {}
  /\ \A a, b \in timers : a = b

\* Until the history is there, nothing is shown and nothing under way.
BlankPage ==
  Reads =>
    /\ ~Streamed /\ checks = {} /\ timers = {}
    /\ ui.streaming = None /\ messages = <<>>

\* Nothing of the run to come has been seen.
Unseen == Waiting \/ Reads => ui.processed = {} /\ ui.last = 0

Linked ==
  Wired /\ Planned /\ OneWay /\ BlankPage /\ Unseen /\ (ui.streaming # None => ui.run \in Runs)
LInv == ~torn => Linked

\* There is one stream now, not answered yet, of run r for message id.
Opens(r, id) ==
  \E c \in Conns :
    /\ conn'[c].st = "request" /\ conn'[c].run = r /\ conn'[c].msg = id /\ conn'[c].pos = 0
    /\ \A d \in Conns \ {c} : conn'[d].st = "none"

-----------------------------------------------------------------------------
(* What the steps do to the refs.                                          *)

\* connectToSSE() when there is no stream opens one.
LEMMA ConnectOpens ==
  ASSUME NEW u \in Uis, ~u.connecting, ~Alive(u.ctl), NEW cs \in [Conns -> Opened],
         \A c \in Conns : cs[c].st = "none",
         NEW r \in 0 .. MaxSends, NEW sess \in 0 .. MaxSends, NEW id \in Ids,
         NEW owner \in 0 .. MaxSends, NEW to \in Opened, to.st = "request",
         to.run = r, to.msg = id, to.pos = 0, Connect(u, cs, to)
  PROVE  /\ Opens(r, id)
         /\ ui'.run = u.run /\ ui'.streaming = id /\ ui'.req = u.req
         /\ ui'.processed = u.processed /\ ui'.last = u.last /\ ui'.connecting
<1>1. Cut(cs, u.ctl) = cs
  BY DEF Cut
<1>2. PICK c \in FirstFree(cs) :
        /\ ui' = Aborted([u EXCEPT !.connecting = TRUE, !.streaming = id,
                                   !.ctl = c, !.disconnected = FALSE], u.ctl)
        /\ conn' = [cs EXCEPT ![c] = to]
  BY <1>1 DEF Connect, Busy
<1>3. c \in Conns
  BY DEF FirstFree
<1>4. ui' = [u EXCEPT !.connecting = TRUE, !.streaming = id, !.ctl = c, !.disconnected = FALSE]
  BY <1>2 DEF Aborted
<1>5. Opens(r, id)
  BY <1>2, <1>3 DEF Opens
<1> QED
  BY <1>3, <1>4, <1>5 DEF Uis

\* The fields that the finally blocks leave alone.
LEMMA AbortedRefs ==
  ASSUME NEW u \in Uis, NEW c
  PROVE  /\ Aborted(u, c).run = u.run /\ Aborted(u, c).streaming = u.streaming
         /\ Aborted(u, c).processed = u.processed /\ Aborted(u, c).last = u.last
         /\ ~u.connecting => ~Aborted(u, c).connecting
         /\ Alive(c) => ~Aborted(u, c).connecting
BY DEF Aborted, Finally, Uis

\* What is forgotten.
LEMMA ForgetRefs ==
  ASSUME NEW u \in Uis
  PROVE  /\ ForgetSeen(u).run = u.run /\ ForgetSeen(u).streaming = u.streaming
         /\ ForgetSeen(u).processed = {} /\ ForgetSeen(u).last = 0
         /\ ForgetSeen(u).connecting = u.connecting
BY DEF ForgetSeen, Uis

LEMMA QuietRefs ==
  ASSUME NEW u \in Uis
  PROVE  /\ Quiet(u).run = u.run /\ Quiet(u).streaming = u.streaming
         /\ Quiet(u).processed = u.processed /\ Quiet(u).last = u.last
         /\ Quiet(u).connecting = u.connecting
BY DEF Quiet, Uis

\* sendMessage() starts afresh, or only takes a number.
LEMMA SendEffect ==
  ASSUME Types, IInv, SInv, NEW k \in Runs, Send(k), ~torn'
  PROVE  /\ ~torn /\ ~Waiting /\ ~SessionRunning /\ checks = {} /\ checks' = {}
         /\ send[k].st = "none" /\ \A j \in Runs \ {k} : send'[j] = send[j]
         /\ UNCHANGED <<feed, phase, home, load, spent, missed>>
         /\ ui'.run = ui.run /\ ui'.streaming = ui.streaming /\ ~Reads'
         /\ \/ /\ UNCHANGED <<messages, conn, timers>> /\ send'[k].st = "over"
               /\ ui'.processed = ui.processed /\ ui'.last = ui.last
               /\ ui'.connecting = ui.connecting
            \/ /\ ~Streamed' /\ timers' = {} /\ send'[k].st = "submit"
               /\ ui'.processed = {} /\ ui'.last = 0 /\ ~ui'.connecting
               /\ messages' = messages \o <<UserMessage(k), Assistant(<<"tmp", k>>, 0, TRUE)>>
<1>1. ui \in Uis /\ send \in [Runs -> Sent]
  BY DEF Types
<1>2. /\ torn' = (torn \/ Awaited) /\ UNCHANGED <<feed, phase, home, load, checks, spent, missed>>
      /\ ~SessionRunning /\ send[k].st = "none" /\ \A j \in Runs \ {k} : send'[j] = send[j]
  BY <1>1 DEF Send, server, Fresh
<1>3. ~torn /\ ~Awaited
  BY <1>2
<1>4. /\ \A c \in Conns : Cut(conn, ui.ctl)[c].st = "none"
      /\ Due = {} /\ checks = {} /\ ~Waiting
  BY <1>3, FreshStart DEF Waiting
<1>5. ASSUME ui'.req = ui.req + 1 PROVE ~Reads'
  <2>1. \A n \in Loads : Stale(n)'
    BY <1>2, <1>5, Renumbered DEF SInv
  <2> QED
    BY <2>1 DEF Reads
<1>6. CASE ui.sending
  <2>1. ui' = [ui EXCEPT !.req = @ + 1] /\ send' = [send EXCEPT ![k].st = "over"]
        /\ UNCHANGED <<messages, conn, timers>>
    BY <1>6 DEF Send
  <2>2. /\ ui'.run = ui.run /\ ui'.streaming = ui.streaming /\ ui'.req = ui.req + 1
        /\ ui'.processed = ui.processed /\ ui'.last = ui.last /\ ui'.connecting = ui.connecting
    BY <1>1, <2>1 DEF Uis
  <2>3. send'[k].st = "over"
    BY <1>1, <2>1 DEF Sent
  <2> QED
    BY <1>2, <1>3, <1>4, <1>5, <2>1, <2>2, <2>3
<1>7. CASE ~ui.sending
  <2> DEFINE u == [Quiet(ui) EXCEPT !.req = @ + 1, !.connecting = FALSE, !.sending = TRUE,
                                    !.loading = TRUE]
  <2>1. /\ ui' = Aborted(ForgetSeen(u), ui.ctl) /\ conn' = Cut(conn, ui.ctl) /\ timers' = Due
        /\ messages' = messages \o <<UserMessage(k), Assistant(<<"tmp", k>>, 0, TRUE)>>
    BY <1>7 DEF Send
  <2>0. send'[k].st = "submit"
    BY <1>1, <1>7 DEF Send
  <2>2. /\ Quiet(ui) \in Uis /\ Quiet(ui).req = ui.req
        /\ Quiet(ui).run = ui.run /\ Quiet(ui).streaming = ui.streaming
    BY <1>1, QuietTyped, QuietRefs
  <2>3. ASSUME NEW q \in Uis
        PROVE  LET w == [q EXCEPT !.req = q.req + 1, !.connecting = FALSE, !.sending = TRUE,
                                  !.loading = TRUE]
               IN /\ w \in Uis /\ w.req = q.req + 1 /\ w.run = q.run
                  /\ w.streaming = q.streaming /\ ~w.connecting
    <3>1. q.req + 1 \in Nat
      BY DEF Uis
    <3> QED
      BY <3>1 DEF Uis
  <2>4. u \in Uis /\ u.req = ui.req + 1 /\ u.run = ui.run /\ u.streaming = ui.streaming
        /\ ~u.connecting
    BY <2>2, <2>3
  <2> HIDE DEF u
  <2>5. /\ ui'.req = ui.req + 1 /\ ui'.run = ui.run /\ ui'.streaming = ui.streaming
        /\ ui'.processed = {} /\ ui'.last = 0 /\ ~ui'.connecting
    BY <2>1, <2>4, ForgetTyped, ForgetRefs, AbortedTyped, AbortedRefs
  <2>6. ~Streamed'
    BY <1>4, <2>1 DEF Streamed
  <2> QED
    BY <1>2, <1>3, <1>4, <1>5, <2>0, <2>1, <2>5, <2>6
<1> QED
  BY <1>6, <1>7

\* The run that is shown, the answer that grows and what was seen stay.
SameRefs ==
  /\ ui'.run = ui.run /\ ui'.streaming = ui.streaming
  /\ ui'.processed = ui.processed /\ ui'.last = ui.last

\* Streams serve the answer the refs name; they go on or start at the beginning.
KeptStreams ==
  \A c \in Conns : conn'[c].st # "none" =>
    /\ conn'[c].st \in Active /\ conn'[c].run = ui.run
    /\ conn'[c].msg = ui.streaming /\ ui.streaming # None
    /\ conn'[c].pos = 0 \/ (conn[c].st # "none" /\ conn'[c].pos = conn[c].pos)

\* The same messages with the same texts.
SameTexts ==
  /\ DOMAIN messages' = DOMAIN messages
  /\ \A i \in DOMAIN messages :
       /\ messages'[i].id = messages[i].id /\ messages'[i].role = messages[i].role
       /\ messages'[i].run = messages[i].run /\ messages'[i].got = messages[i].got

\* A message stops streaming only on a stop, or when its send failed, or when
\* its stream has delivered everything.
EndedRightly ==
  \A i \in DOMAIN messages : messages[i].streaming /\ ~messages'[i].streaming =>
    \/ spent'.stops > 0
    \/ \E k \in Runs : messages[i].id = <<"tmp", k>> /\ ~Waits(k)'
    \/ messages[i].id = ui.streaming /\ \E c \in Conns : conn[c].st # "none" /\ conn[c].pos = Events

\* No load becomes the current one.
ReadsOn == \A n \in Loads : (Pending(n) /\ ~Stale(n))' => Pending(n) /\ ~Stale(n)

Rests ==
  /\ ReadsOn /\ SameRefs /\ KeptStreams /\ SameTexts /\ EndedRightly /\ missed' = missed
  /\ \A k \in Runs : Waits(k)' => Waits(k)
  /\ ui.streaming # None /\ ~Waiting' => ~Waiting

\* Nothing is shown, seen or under way.
Blank ==
  /\ messages' = <<>> /\ ~Streamed' /\ missed' = {} /\ (\A k \in Runs : ~Waits(k)')
  /\ ui'.streaming = None /\ ui'.last = 0 /\ ui'.processed = {}
  /\ \A n \in Loads : (Pending(n) /\ ~Stale(n))' => load'[n].st = "get"

\* How the links of the refs survive a step that leaves the refs alone.
LEMMA LinkedKept ==
  ASSUME Linked, SameRefs, KeptStreams, ui'.connecting => Streamed',
         Streamed' => checks' = {} /\ timers' = {},
         checks' \cup timers' \subseteq checks \cup timers, \A a, b \in timers' : a = b,
         Reads' => Reads, Waiting' => Waiting, messages = <<>> => messages' = <<>>
  PROVE  Linked'
<1>1. Wired'
  BY DEF Wired, KeptStreams, SameRefs
<1>2. Planned'
  BY DEF Planned, SameRefs, Linked
<1>3. OneWay'
  BY DEF OneWay
<1>4. ASSUME Reads' PROVE /\ ~Streamed' /\ checks' = {} /\ timers' = {}
                          /\ ui'.streaming = None /\ messages' = <<>>
  <2>1. checks = {} /\ timers = {} /\ ui.streaming = None /\ messages = <<>>
    BY <1>4 DEF Linked, BlankPage
  <2>2. ~Streamed'
    BY <2>1 DEF KeptStreams, Streamed
  <2> QED
    BY <2>1, <2>2 DEF SameRefs
<1>5. BlankPage'
  BY <1>4 DEF BlankPage
<1>6. Unseen'
  BY DEF Linked, Unseen, SameRefs
<1>7. (ui.streaming # None => ui.run \in Runs)'
  BY DEF Linked, SameRefs
<1> QED
  BY <1>1, <1>2, <1>3, <1>5, <1>6, <1>7 DEF Linked

\* Texts and flags that do not change.
LEMMA SameMessages == messages' = messages => SameTexts /\ EndedRightly
  BY DEF SameTexts, EndedRightly

\* Opening a session and clearing the view forget everything.
LEMMA BlankEffect ==
  ASSUME Types, IInv, SInv, Linked, Clear \/ \E n \in Loads, s \in Runs : Load(n, s), ~torn'
  PROVE  Blank /\ Linked'
<1>1. /\ messages' = <<>> /\ timers' = Due /\ torn' = (torn \/ Awaited) /\ missed' = {}
      /\ UNCHANGED <<home, send, checks>> /\ ui \in Uis /\ conn' = Cut(conn, ui.ctl)
  BY DEF Clear, Load, server, Types
<1>2. /\ Quiet(ui) \in Uis /\ Quiet(ui).connecting = ui.connecting /\ Quiet(ui).req = ui.req
  BY <1>1, QuietTyped, QuietRefs
<1>3. /\ \A c \in Conns : conn'[c].st = "none"
      /\ timers' = {} /\ checks' = {} /\ \A k \in Runs : ~Waits(k)'
  <2>1. ~torn /\ ~Awaited
    BY <1>1
  <2> QED
    BY <1>1, <2>1, FreshStart DEF Waits
<1>4. ASSUME NEW u \in Uis, ui' = Aborted(ForgetSeen(u), ui.ctl), u.streaming = None,
             u.connecting => ui.connecting, u.req = ui.req + 1
      PROVE  /\ ui'.streaming = None /\ ui'.last = 0 /\ ui'.processed = {} /\ ~ui'.connecting
             /\ ui'.req = ui.req + 1
  <2>1. /\ ForgetSeen(u) \in Uis /\ ForgetSeen(u).streaming = None /\ ForgetSeen(u).last = 0
        /\ ForgetSeen(u).processed = {} /\ ForgetSeen(u).connecting = u.connecting
        /\ ForgetSeen(u).req = u.req
    BY <1>4, ForgetTyped, ForgetRefs
  <2>2. CASE ui.connecting
    <3>1. PICK c \in Conns : conn[c].st # "none"
      BY <2>2 DEF Linked, OneWay, Streamed
    <3>2. conn[c].st \in Active
      BY <3>1 DEF Linked, Wired
    <3>3. ui.ctl = c
      BY <3>2 DEF IInv, Good, Current
    <3>4. c # 0
      BY StreamAssumption DEF Conns
    <3>5. Alive(ui.ctl)
      BY <3>2, <3>3, <3>4 DEF Alive
    <3> QED
      BY <1>4, <2>1, <3>5, AbortedRefs, AbortedTyped
  <2>3. CASE ~ui.connecting
    BY <1>4, <2>1, <2>3, AbortedRefs, AbortedTyped
  <2> QED
    BY <2>2, <2>3
<1>5. /\ ui'.streaming = None /\ ui'.last = 0 /\ ui'.processed = {} /\ ~ui'.connecting
      /\ ui'.req = ui.req + 1
  <2>1. CASE Clear
    <3> DEFINE u == [Quiet(ui) EXCEPT !.req = @ + 1, !.session = 0, !.run = 0,
                                     !.streaming = None, !.disconnected = TRUE]
    <3>1. ui' = Aborted(ForgetSeen(u), ui.ctl)
      BY <2>1 DEF Clear
    <3>2. ASSUME NEW q \in Uis
          PROVE  LET w == [q EXCEPT !.req = q.req + 1, !.session = 0, !.run = 0,
                                    !.streaming = None, !.disconnected = TRUE]
                 IN /\ w \in Uis /\ w.streaming = None /\ w.connecting = q.connecting
                    /\ w.req = q.req + 1
      <4>1. q.req + 1 \in Nat
        BY DEF Uis
      <4> QED
        BY <4>1, Names DEF Uis
    <3>3. u \in Uis /\ u.streaming = None /\ u.connecting = ui.connecting /\ u.req = ui.req + 1
      BY <1>2, <3>2
    <3> HIDE DEF u
    <3> QED
      BY <1>4, <3>1, <3>3
  <2>2. CASE \E n \in Loads, s \in Runs : Load(n, s)
    <3> DEFINE u == [Quiet(ui) EXCEPT !.req = @ + 1, !.connecting = FALSE, !.streaming = None,
                                     !.loading = TRUE, !.loadingHistory = TRUE]
    <3>1. ui' = Aborted(ForgetSeen(u), ui.ctl)
      BY <2>2 DEF Load
    <3>2. ASSUME NEW q \in Uis
          PROVE  LET w == [q EXCEPT !.req = q.req + 1, !.connecting = FALSE, !.streaming = None,
                                    !.loading = TRUE, !.loadingHistory = TRUE]
                 IN w \in Uis /\ w.streaming = None /\ ~w.connecting /\ w.req = q.req + 1
      <4>1. q.req + 1 \in Nat
        BY DEF Uis
      <4> QED
        BY <4>1, Names DEF Uis
    <3>3. u \in Uis /\ u.streaming = None /\ ~u.connecting /\ u.req = ui.req + 1
      BY <1>2, <3>2
    <3> HIDE DEF u
    <3> QED
      BY <1>4, <3>1, <3>3
  <2> QED
    BY <2>1, <2>2
<1>6. ~Streamed' /\ ~Waiting'
  BY <1>3 DEF Streamed, Waiting
<1>9. ASSUME NEW m \in Loads, (Pending(m) /\ ~Stale(m))' PROVE load'[m].st = "get"
  <2>1. load'[m] # load[m]
    BY <1>5, <1>9, Renumbered DEF SInv
  <2>2. PICK n \in Loads, s \in Runs : Load(n, s)
    BY <2>1 DEF Clear
  <2>3. load' = [load EXCEPT ![n] = [NoLoad EXCEPT !.st = "get", !.req = ui'.req, !.target = s]]
    BY <2>2 DEF Load
  <2> QED
    BY <2>1, <2>3 DEF Types, NoLoad
<1>7. Blank
  BY <1>1, <1>3, <1>5, <1>6, <1>9 DEF Blank
<1>8. Wired' /\ Planned' /\ OneWay' /\ BlankPage' /\ Unseen'
  BY <1>1, <1>3, <1>5, <1>6 DEF Wired, Planned, OneWay, BlankPage, Unseen
<1> QED
  BY <1>5, <1>7, <1>8 DEF Linked

\* The tab wakes up: the stream is gone, the run's status is asked for.
LEMMA WakeEffect ==
  ASSUME Types, IInv, SInv, Linked, Wake, ~torn'
  PROVE  Rests /\ Linked'
<1> DEFINE k == [n |-> spent'.wakes, run |-> ui.run, home |-> ui.session, msg |-> ui.streaming]
           u == [Quiet(ui) EXCEPT !.connecting = FALSE]
<1>1. /\ ui' = Aborted(u, ui.ctl) /\ timers' = Due /\ torn' = (torn \/ Awaited)
      /\ checks' = checks \cup {k} /\ UNCHANGED <<home, messages, send, load, missed>> /\ ui \in Uis
      /\ ui.streaming # None /\ ui.run # 0 /\ conn' = Cut(conn, ui.ctl)
  BY DEF Wake, server, Types
<1>2. /\ ui'.run = ui.run /\ ui'.streaming = ui.streaming /\ ui'.req = ui.req
      /\ ui'.processed = ui.processed /\ ui'.last = ui.last /\ ~ui'.connecting
  <2>1. /\ Quiet(ui) \in Uis /\ Quiet(ui).req = ui.req
        /\ Quiet(ui).run = ui.run /\ Quiet(ui).streaming = ui.streaming
        /\ Quiet(ui).processed = ui.processed /\ Quiet(ui).last = ui.last
    BY <1>1, QuietTyped, QuietRefs
  <2>2. \A q \in Uis : LET w == [q EXCEPT !.connecting = FALSE]
                       IN /\ w \in Uis /\ w.req = q.req /\ w.run = q.run /\ ~w.connecting
                          /\ w.streaming = q.streaming /\ w.processed = q.processed /\ w.last = q.last
    BY DEF Uis
  <2>3. /\ u \in Uis /\ u.req = ui.req /\ u.run = ui.run /\ u.streaming = ui.streaming
        /\ u.processed = ui.processed /\ u.last = ui.last /\ ~u.connecting
    BY <2>1, <2>2
  <2> HIDE DEF u
  <2> QED
    BY <1>1, <2>3, AbortedTyped, AbortedRefs
<1>3. k.run = ui.run /\ k.msg = ui.streaming
  OBVIOUS
<1> HIDE DEF k, u
<1>4. /\ \A c \in Conns : conn'[c].st = "none"
      /\ timers' = {} /\ checks' = {k} /\ \A j \in Runs : ~Waits(j) /\ ~Waits(j)'
  <2>1. ~torn /\ ~Awaited
    BY <1>1
  <2> QED
    BY <1>1, <2>1, FreshStart DEF Waits
<1>5. ~Streamed' /\ ~Waiting /\ ~Waiting'
  BY <1>4 DEF Streamed, Waiting
<1>6. ~Reads'
  <2>1. ~Reads
    BY <1>1 DEF Linked, BlankPage
  <2> QED
    BY <1>1, <1>2, <2>1 DEF Reads, Pending, Stale
<1>7. Rests
  <2>1. ReadsOn
    BY <1>6 DEF ReadsOn, Reads
  <2>2. SameRefs /\ KeptStreams
    BY <1>2, <1>4 DEF SameRefs, KeptStreams
  <2>3. SameTexts /\ EndedRightly
    BY <1>1, SameMessages
  <2> QED
    BY <1>1, <1>4, <1>5, <2>1, <2>2, <2>3 DEF Rests
<1>8. Wired' /\ Planned' /\ OneWay' /\ BlankPage' /\ Unseen'
  BY <1>1, <1>2, <1>3, <1>4, <1>5, <1>6 DEF Wired, Planned, OneWay, BlankPage, Unseen
<1>9. (ui.streaming # None => ui.run \in Runs)'
  BY <1>2 DEF Linked
<1> QED
  BY <1>7, <1>8, <1>9 DEF Linked

\* The same texts of no messages.
LEMMA NoTexts ==
  ASSUME Types, Types', SameTexts, messages = <<>>
  PROVE  messages' = <<>>
<1>1. DOMAIN messages' = {} /\ messages' \in Seq(Message)
  BY DEF Types, SameTexts
<1>2. Len(messages') \in Nat /\ DOMAIN messages' = 1 .. Len(messages')
  BY <1>1
<1>3. Len(messages') = 0
  BY <1>1, <1>2
<1> QED
  BY <1>1, <1>3

\* Streams that go on.
LEMMA StillLinked ==
  ASSUME Types, Types', Linked, SameRefs, KeptStreams, SameTexts, ui'.connecting => ui.connecting,
         Streamed' <=> Streamed, UNCHANGED <<checks, timers>>, Reads' => Reads, Waiting' => Waiting
  PROVE  Linked'
<1>1. messages = <<>> => messages' = <<>>
  BY NoTexts
<1>2. /\ ui'.connecting => Streamed'
      /\ Streamed' => checks' = {} /\ timers' = {}
      /\ \A a, b \in timers' : a = b
  BY DEF Linked, OneWay
<1> QED
  BY <1>1, <1>2, LinkedKept

\* Streams that nothing touches.
LEMMA SameConns ==
  ASSUME Types, Linked, conn' = conn
  PROVE  KeptStreams /\ (Streamed' <=> Streamed)
<1>1. KeptStreams
  BY DEF KeptStreams, Linked, Wired
<1> QED
  BY <1>1 DEF Streamed

\* The server's steps, a stop, and a connection that is lost.
LEMMA ServerEffect ==
  ASSUME Types, Types', SInv, Linked, (\E r \in Runs : Emit(r) \/ Finish(r)) \/ Stop \/ Offline
  PROVE  Rests /\ Linked'
<1>1. UNCHANGED <<send, load, conn, checks, timers, missed>> /\ ui \in Uis
  BY DEF Emit, Finish, Stop, Offline, Types
<1>2. SameRefs /\ ui'.connecting = ui.connecting /\ ui'.req = ui.req
  BY <1>1 DEF Emit, Finish, Stop, Offline, SameRefs, Uis
<1>3. SameTexts /\ EndedRightly
  <2>1. CASE (\E r \in Runs : Emit(r) \/ Finish(r)) \/ Offline
    BY <2>1, SameMessages DEF Emit, Finish, Offline
  <2>2. CASE Stop
    <3>1. /\ messages' = [i \in DOMAIN messages |-> [messages[i] EXCEPT !.streaming = FALSE]]
          /\ Spend("stops", MaxStops)
      BY <2>2 DEF Stop
    <3>2. \A m \in Message : LET t == [m EXCEPT !.streaming = FALSE]
                             IN t.id = m.id /\ t.role = m.role /\ t.run = m.run /\ t.got = m.got
      BY DEF Message
    <3>3. \A i \in DOMAIN messages : messages[i] \in Message
      BY DEF Types
    <3>4. SameTexts
      BY <3>1, <3>2, <3>3 DEF SameTexts
    <3>5. spent'.stops > 0
      <4>1. spent.stops \in Nat /\ spent' = [spent EXCEPT !["stops"] = spent["stops"] + 1]
        BY <3>1 DEF Spend, Types, Spending
      <4>2. spent' = [spent EXCEPT !.stops = spent.stops + 1]
        BY <4>1
      <4>3. spent'.stops = spent.stops + 1
        BY <4>2 DEF Types, Spending
      <4> QED
        BY <4>1, <4>3
    <3> QED
      BY <3>4, <3>5 DEF EndedRightly
  <2> QED
    BY <2>1, <2>2
<1>4. KeptStreams /\ (Streamed' <=> Streamed)
  BY <1>1, SameConns
<1>5. ReadsOn /\ (Reads' <=> Reads) /\ (Waiting' <=> Waiting) /\ \A k \in Runs : Waits(k)' <=> Waits(k)
  BY <1>1, <1>2 DEF ReadsOn, Reads, Pending, Stale, Waiting, Waits
<1>6. Linked'
  BY <1>1, <1>2, <1>3, <1>4, <1>5, StillLinked
<1>7. Rests
  BY <1>1, <1>2, <1>3, <1>4, <1>5 DEF Rests
<1> QED
  BY <1>6, <1>7

\* A stream is answered, refused or broken.
LEMMA OpenEffect ==
  ASSUME Types, Types', SInv, Linked, NEW c \in Conns, Open(c) \/ Reject(c) \/ Break(c)
  PROVE  Rests /\ Linked'
<1>1. UNCHANGED <<messages, send, load, checks, timers, missed>> /\ ui \in Uis
  BY DEF Open, Reject, Break, Types
<1>2. SameRefs /\ ui'.connecting = ui.connecting /\ ui'.req = ui.req
  BY <1>1 DEF Open, Reject, Break, SameRefs, Uis
<1>3. /\ conn[c].st # "none" /\ \A d \in Conns \ {c} : conn'[d] = conn[d]
      /\ conn'[c].st \in Active /\ conn'[c].run = conn[c].run /\ conn'[c].msg = conn[c].msg
      /\ conn'[c].pos \in {0, conn[c].pos}
  <2>0. conn[c] \in Opened /\ conn \in [Conns -> Opened]
    BY DEF Types
  <2>1. CASE Open(c)
    <3>1. conn[c].st = "request" /\ conn' = [conn EXCEPT ![c].st = "live"]
      BY <2>1 DEF Open
    <3> QED
      BY <2>0, <3>1 DEF Opened, Active
  <2>2. CASE Reject(c)
    <3>1. conn[c].st = "request" /\ (conn' = conn \/ conn' = [conn EXCEPT ![c].st = "refresh"])
      BY <2>2 DEF Reject
    <3> QED
      BY <2>0, <3>1 DEF Opened, Active
  <2>3. CASE Break(c)
    <3>1. /\ conn[c].st \in {"request", "live"}
          /\ conn' = [conn EXCEPT ![c].st = "request", ![c].pos = 0]
      BY <2>3 DEF Break
    <3>2. conn' = [conn EXCEPT ![c] = [conn[c] EXCEPT !.st = "request", !.pos = 0]]
      BY <2>0, <3>1
    <3> QED
      BY <2>0, <3>1, <3>2 DEF Opened, Active
  <2> QED
    BY <2>1, <2>2, <2>3
<1>4. KeptStreams /\ (Streamed' <=> Streamed)
  <2>1. \A d \in Conns : conn[d].st # "none" => /\ conn[d].st \in Active /\ conn[d].run = ui.run
                                                /\ conn[d].msg = ui.streaming /\ ui.streaming # None
    BY DEF Linked, Wired
  <2>2. ASSUME NEW d \in Conns, conn'[d].st # "none"
        PROVE  /\ conn[d].st # "none" /\ conn'[d].st \in Active /\ conn'[d].run = conn[d].run
               /\ conn'[d].msg = conn[d].msg /\ conn'[d].pos \in {0, conn[d].pos}
    BY <1>3, <2>1, <2>2
  <2>3. KeptStreams
    BY <2>1, <2>2 DEF KeptStreams
  <2>4. conn'[c].st # "none"
    BY <1>3 DEF Active
  <2> QED
    BY <1>3, <2>3, <2>4 DEF Streamed
<1>5. ReadsOn /\ (Reads' <=> Reads) /\ (Waiting' <=> Waiting) /\ \A k \in Runs : Waits(k)' <=> Waits(k)
  BY <1>1, <1>2 DEF ReadsOn, Reads, Pending, Stale, Waiting, Waits
<1>6. SameTexts /\ EndedRightly
  BY <1>1, SameMessages
<1>7. Linked'
  BY <1>1, <1>2, <1>4, <1>5, <1>6, StillLinked
<1>8. Rests
  BY <1>1, <1>2, <1>4, <1>5, <1>6 DEF Rests
<1> QED
  BY <1>7, <1>8

\* A stream is opened anew for the answer that grows.
LEMMA Reopened ==
  ASSUME Types, Types', SInv, Linked, SameRefs, messages' = messages,
         Opens(ui.run, ui.streaming),
         UNCHANGED <<send, load, missed>>, ui'.req = ui.req, checks' = {}, timers' = {},
         ui.streaming # None, ~Reads, ~Waiting
  PROVE  Rests /\ Linked'
<1>2. KeptStreams /\ Streamed'
  <2>1. PICK c \in Conns :
          /\ conn'[c].st = "request" /\ conn'[c].run = ui.run /\ conn'[c].msg = ui.streaming
          /\ conn'[c].pos = 0 /\ \A d \in Conns \ {c} : conn'[d].st = "none"
    BY DEF Opens
  <2> QED
    BY <2>1 DEF KeptStreams, Streamed, SameRefs, Active
<1>3. ReadsOn /\ (Reads' <=> Reads) /\ (Waiting' <=> Waiting) /\ \A k \in Runs : Waits(k)' <=> Waits(k)
  BY DEF ReadsOn, Reads, Pending, Stale, Waiting, Waits
<1>4. Linked'
  BY <1>2, <1>3, LinkedKept
<1>5. Rests
  BY <1>2, <1>3, SameMessages DEF Rests
<1> QED
  BY <1>4, <1>5

\* A stream whose token was refreshed is the only one: it is opened anew.
LEMMA RefreshedEffect ==
  ASSUME Types, Types', IInv, SInv, Linked, ~torn, NEW c \in Conns, Refreshed(c)
  PROVE  Rests /\ Linked'
<1> DEFINE again == [Stream(conn[c].run, conn[c].home, conn[c].msg, 0) EXCEPT !.retried = TRUE]
           u == [ui EXCEPT !.connecting = FALSE]
           cs == [conn EXCEPT ![c] = Idle]
<1>1. /\ UNCHANGED <<messages, send, load, checks, timers, missed>> /\ ui \in Uis
      /\ conn \in [Conns -> Opened] /\ conn[c] \in Opened
      /\ conn[c].st \in {"refresh", "orphan"} /\ Connect(u, cs, again)
  BY DEF Refreshed, Types
<1>2. /\ conn[c].st \in Active /\ conn[c].run = ui.run /\ conn[c].msg = ui.streaming
      /\ ui.streaming # None
  BY <1>1 DEF Linked, Wired
<1>3. ui.ctl = c /\ \A d \in Conns \ {c} : conn[d].st = "none"
  <2>1. \A d \in Conns : conn[d].st # "none" => ui.ctl = d
    BY DEF Linked, Wired, IInv, Good, Current
  <2> QED
    BY <1>1, <1>2, <2>1
<1>4. Cut(cs, u.ctl) \in [Conns -> Opened] /\ \A d \in Conns : Cut(cs, u.ctl)[d].st = "none"
  <2>1. Cut(conn, ui.ctl) \in [Conns -> Opened]
    BY CutUi
  <2>2. \A d \in Conns \ {c} : Cut(conn, ui.ctl)[d] = conn[d]
    BY <1>1, <1>3 DEF Cut
  <2>3. Idle.st = "none"
    BY DEF Idle
  <2>4. Cut(cs, u.ctl) = [Cut(conn, ui.ctl) EXCEPT ![c] = Idle]
    <3>1. u.ctl = ui.ctl /\ ui.ctl \in Conns \cup {0}
      BY <1>1, <1>3 DEF Uis
    <3> QED
      BY <1>1, <3>1, CutIdle
  <2>5. \A d \in Conns \ {c} : Cut(conn, ui.ctl)[d].st = "none"
    BY <1>3, <2>2
  <2> HIDE DEF u, cs
  <2>6. \A d \in Conns : Cut(cs, u.ctl)[d] = IF d = c THEN Idle ELSE Cut(conn, ui.ctl)[d]
    BY <2>1, <2>4
  <2>7. Cut(cs, u.ctl) \in [Conns -> Opened]
    BY <2>1, <2>4, IdleTyped
  <2> QED
    BY <2>3, <2>5, <2>6, <2>7
<1>5. again \in Opened /\ again.st = "request" /\ again.run = ui.run /\ again.msg = ui.streaming
      /\ again.pos = 0
  <2> DEFINE s == Stream(conn[c].run, conn[c].home, conn[c].msg, 0)
  <2>1. s \in Opened
    BY <1>1, Names, StreamTyped DEF Opened
  <2>2. s.st = "request" /\ s.run = ui.run /\ s.msg = ui.streaming /\ s.pos = 0
    BY <1>2 DEF Stream, Idle
  <2>3. again = [s EXCEPT !.retried = TRUE]
    OBVIOUS
  <2> HIDE DEF s, again
  <2> QED
    BY <2>1, <2>2, <2>3 DEF Opened
<1>6. PICK d \in FirstFree(Cut(cs, u.ctl)) :
        /\ ui' = Aborted([u EXCEPT !.connecting = TRUE, !.streaming = again.msg,
                                   !.ctl = d, !.disconnected = FALSE], u.ctl)
        /\ conn' = [Cut(cs, u.ctl) EXCEPT ![d] = again]
  <2>1. ~u.connecting
    BY <1>1 DEF Uis
  <2> QED
    BY <1>1, <2>1 DEF Connect, Busy
<1>7. d \in Conns
  BY DEF FirstFree
<1> DEFINE w == [u EXCEPT !.connecting = TRUE, !.streaming = again.msg, !.ctl = d,
                          !.disconnected = FALSE]
<1>8. /\ Opens(ui.run, ui.streaming)
      /\ ui'.run = ui.run /\ ui'.streaming = ui.streaming /\ ui'.req = ui.req
      /\ ui'.processed = ui.processed /\ ui'.last = ui.last
  <2>1. Opens(ui.run, ui.streaming)
    <3> HIDE DEF again, u, cs
    <3> QED
      BY <1>4, <1>5, <1>6, <1>7 DEF Opens
  <2>2. /\ w \in Uis /\ w.run = ui.run /\ w.streaming = ui.streaming /\ w.req = ui.req
        /\ w.processed = ui.processed /\ w.last = ui.last
    <3> HIDE DEF again
    <3> QED
      BY <1>1, <1>5, <1>7 DEF Uis
  <2>3. ui' = Aborted(w, u.ctl)
    BY <1>6
  <2> HIDE DEF w, again, u, cs
  <2> QED
    BY <2>1, <2>2, <2>3, AbortedTyped, AbortedRefs
<1> HIDE DEF again, u, cs
<1>9. SameRefs /\ ui'.req = ui.req
  BY <1>8 DEF SameRefs
<1>10. checks' = {} /\ timers' = {} /\ ~Reads /\ ~Waiting
  <2>1. Streamed
    BY <1>1 DEF Streamed
  <2>2. \A k \in Runs : ~Waits(k)
    BY <1>1, NoStreamBeside
  <2> QED
    BY <1>1, <2>1, <2>2 DEF Linked, OneWay, BlankPage, Waiting
<1> QED
  BY <1>1, <1>2, <1>8, <1>9, <1>10, Reopened

\* The stream has ended.
LEMMA CloseEffect ==
  ASSUME Types, Types', SInv, Linked, ~torn, NEW c \in Conns, Close(c)
  PROVE  Rests /\ Linked'
<1>1. /\ UNCHANGED <<send, load, checks, timers, missed>> /\ ui \in Uis /\ conn \in [Conns -> Opened]
      /\ conn[c].st = "live" /\ conn[c].pos = Events /\ messages' = Drop(messages, conn[c].msg)
      /\ ui' = Finally([ui EXCEPT !.disconnected = TRUE], conn[c].owner)
      /\ conn' = [conn EXCEPT ![c] = Idle]
  BY DEF Close, Types
<1>2. SameRefs /\ ~ui'.connecting /\ ui'.req = ui.req
  BY <1>1 DEF SameRefs, Finally, Uis
<1>3. conn[c].msg = ui.streaming
  BY <1>1 DEF Linked, Wired
<1>4. SameTexts /\ EndedRightly
  <2>1. ASSUME NEW i \in DOMAIN messages
        PROVE  /\ messages'[i].id = messages[i].id /\ messages'[i].role = messages[i].role
               /\ messages'[i].run = messages[i].run /\ messages'[i].got = messages[i].got
               /\ messages'[i].streaming = messages[i].streaming \/ messages[i].id = ui.streaming
    <3>1. messages[i] \in Message
      BY DEF Types
    <3> QED
      BY <1>1, <1>3, <3>1 DEF Drop, Message
  <2>2. DOMAIN messages' = DOMAIN messages
    BY <1>1 DEF Drop
  <2>3. conn[c].st # "none"
    BY <1>1
  <2> QED
    BY <1>1, <2>1, <2>2, <2>3 DEF SameTexts, EndedRightly
<1>5. Streamed /\ KeptStreams
  <2>1. Streamed
    BY <1>1 DEF Streamed
  <2>2. \A d \in Conns : conn'[d] = conn[d] \/ conn'[d].st = "none"
    BY <1>1 DEF Idle
  <2> QED
    BY <2>1, <2>2 DEF KeptStreams, Linked, Wired
<1>6. ReadsOn /\ (Reads' <=> Reads) /\ (Waiting' <=> Waiting) /\ \A k \in Runs : Waits(k)' <=> Waits(k)
  BY <1>1, <1>2 DEF ReadsOn, Reads, Pending, Stale, Waiting, Waits
<1>7. Linked'
  <2>1. checks' = {} /\ timers' = {}
    BY <1>1, <1>5 DEF Linked, OneWay
  <2>2. messages = <<>> => messages' = <<>>
    BY <1>4, NoTexts
  <2> QED
    BY <1>2, <1>5, <1>6, <2>1, <2>2, LinkedKept
<1>8. Rests
  BY <1>1, <1>2, <1>4, <1>5, <1>6 DEF Rests
<1> QED
  BY <1>7, <1>8

\* A reconnect fires: the answer's stream is opened, if the answer is there.
LEMMA FireEffect ==
  ASSUME Types, Types', SInv, Linked, ~torn, NEW k \in timers, Fire(k)
  PROVE  Rests /\ Linked'
<1>1. /\ UNCHANGED <<messages, send, load, checks, missed>> /\ ui \in Uis
      /\ conn \in [Conns -> Opened] /\ timers' = timers \ {k} /\ k \in Checking
  BY DEF Fire, Types
<1>2. /\ k.run = ui.run /\ k.msg = ui.streaming /\ ui.streaming # None /\ ~Streamed /\ ~ui.connecting
      /\ checks' = {} /\ timers' = {} /\ ~Reads
  <2>1. checks = {}
    BY DEF SInv, InOrder, Single
  <2> QED
    BY <1>1, <2>1 DEF Linked, Planned, OneWay, BlankPage
<1>3. ~Waiting
  BY DEF SInv, InOrder, Alone, Waiting
<1>4. CASE ~\E i \in DOMAIN messages : messages[i].id = k.msg
  <2>1. UNCHANGED <<ui, conn>>
    BY <1>4 DEF Fire
  <2>2. SameRefs /\ KeptStreams /\ SameTexts /\ EndedRightly /\ (Streamed' <=> Streamed)
    BY <1>1, <2>1, SameConns, SameMessages DEF SameRefs
  <2>3. ReadsOn /\ (Reads' <=> Reads) /\ (Waiting' <=> Waiting) /\ \A j \in Runs : Waits(j)' <=> Waits(j)
    BY <1>1, <2>1 DEF ReadsOn, Reads, Pending, Stale, Waiting, Waits
  <2>4. Linked'
    BY <1>1, <1>2, <2>1, <2>2, <2>3, LinkedKept
  <2>5. Rests
    BY <1>1, <2>2, <2>3 DEF Rests
  <2> QED
    BY <2>4, <2>5
<1>5. CASE \E i \in DOMAIN messages : messages[i].id = k.msg
  <2> DEFINE to == Stream(k.run, k.home, k.msg, 0)
  <2>1. Connect(ui, conn, to)
    BY <1>5 DEF Fire
  <2>2. to \in Opened /\ to.st = "request" /\ to.run = ui.run /\ to.msg = ui.streaming /\ to.pos = 0
    <3>1. k.run \in 0 .. MaxSends /\ k.home \in 0 .. MaxSends /\ k.msg \in Ids /\ 0 \in 0 .. MaxSends
      BY <1>1, Names DEF Checking
    <3> QED
      BY <1>2, <3>1, StreamTyped DEF Stream, Idle
  <2> HIDE DEF to
  <2>3. (\A c \in Conns : conn[c].st = "none") /\ ~Alive(ui.ctl)
    BY <1>1, <1>2 DEF Streamed, Alive, Uis, Active
  <2>4. ui.run \in 0 .. MaxSends /\ ui.streaming \in Ids /\ 0 \in 0 .. MaxSends
    BY <1>1, Names DEF Uis
  <2>5. Opens(ui.run, ui.streaming) /\ SameRefs /\ ui'.req = ui.req
    BY <1>1, <1>2, <2>1, <2>2, <2>3, <2>4, ConnectOpens DEF SameRefs
  <2> QED
    BY <1>1, <1>2, <1>3, <2>5, Reopened
<1> QED
  BY <1>4, <1>5

\* A message is sent: its answer is shown, empty, and nothing else is seen.
Starts(k) ==
  /\ ~Waiting /\ send[k].st = "none" /\ Waits(k)'
  /\ \A j \in Runs \ {k} : ~Waits(j)'
  /\ messages' = messages \o <<UserMessage(k), Assistant(<<"tmp", k>>, 0, TRUE)>>
  /\ ~Streamed' /\ missed' = missed
  /\ ui'.run = ui.run /\ ui'.streaming = ui.streaming
  /\ ui'.processed = {} /\ ui'.last = 0

\* The send is answered: its answer gets the run's name and the stream opens.
Begins(k) ==
  /\ Submitted(k) /\ Waits(k) /\ \A j \in Runs : ~Waits(j)'
  /\ ui'.run = k /\ ui'.streaming = <<"run", k>> /\ Opens(k, <<"run", k>>)
  /\ ui'.processed = {} /\ ui'.last = 0 /\ missed' = missed

\* The run shown was found completed: the rest of it is not asked for.
Leaves ==
  /\ ~Reads' /\ ~Waiting /\ ui.streaming # None /\ \A k \in Runs : ~Waits(k)'
  /\ messages' = Drop(messages, ui.streaming) /\ SameTexts
  /\ ~Streamed' /\ ui'.streaming = None /\ missed' = missed \cup {ui.run}
  /\ ui'.processed = ui.processed /\ ui'.last = ui.last

\* A message is sent, or only a number is taken.
LEMMA SendClass ==
  ASSUME Types, Types', IInv, SInv, Linked, NEW k \in Runs, Send(k), ~torn'
  PROVE  (Rests \/ Starts(k)) /\ Linked'
<1>1. /\ ~torn /\ ~Waiting /\ ~SessionRunning /\ checks = {} /\ checks' = {}
      /\ send[k].st = "none" /\ \A j \in Runs \ {k} : send'[j] = send[j]
      /\ UNCHANGED <<feed, phase, home, load, spent, missed>>
      /\ ui'.run = ui.run /\ ui'.streaming = ui.streaming /\ ~Reads'
  BY SendEffect
<1>2. \A j \in Runs \ {k} : ~Waits(j)'
  BY <1>1 DEF Waiting, Waits
<1>3. CASE /\ UNCHANGED <<messages, conn, timers>> /\ send'[k].st = "over"
           /\ ui'.processed = ui.processed /\ ui'.last = ui.last
           /\ ui'.connecting = ui.connecting
  <2>1. ~Waits(k)'
    BY <1>3 DEF Waits
  <2>2. ~Waiting' /\ \A j \in Runs : ~Waits(j)'
    BY <1>2, <2>1 DEF Waiting
  <2>3. SameRefs /\ KeptStreams /\ SameTexts /\ EndedRightly /\ (Streamed' <=> Streamed)
    BY <1>1, <1>3, SameConns, SameMessages DEF SameRefs
  <2>4. Linked'
    BY <1>1, <1>3, <2>2, <2>3, StillLinked
  <2> QED
    BY <1>1, <2>2, <2>3, <2>4 DEF Rests, ReadsOn, Reads
<1>4. CASE /\ ~Streamed' /\ timers' = {} /\ send'[k].st = "submit"
           /\ ui'.processed = {} /\ ui'.last = 0 /\ ~ui'.connecting
           /\ messages' = messages \o <<UserMessage(k), Assistant(<<"tmp", k>>, 0, TRUE)>>
  <2>1. Waits(k)'
    BY <1>4 DEF Waits
  <2>2. Starts(k)
    BY <1>1, <1>2, <1>4, <2>1 DEF Starts
  <2>3. Wired' /\ Planned' /\ OneWay' /\ BlankPage' /\ Unseen'
    BY <1>1, <1>4 DEF Wired, Planned, OneWay, BlankPage, Unseen, Streamed
  <2>4. (ui.streaming # None => ui.run \in Runs)'
    BY <1>1 DEF Linked
  <2> QED
    BY <2>2, <2>3, <2>4 DEF Linked
<1> QED
  BY <1>3, <1>4, SendEffect

\* The server takes the message, or the request fails.
LEMMA AcceptEffect ==
  ASSUME Types, Types', SInv, Linked, NEW k \in Runs, Accept(k) \/ SubmitFails(k), ~torn'
  PROVE  Rests /\ Linked'
<1>1. /\ ui \in Uis /\ send[k] \in Sent /\ UNCHANGED <<load, conn, checks, timers, missed>>
      /\ Waits(k) /\ \A j \in Runs \ {k} : send'[j] = send[j]
  BY DEF Types, Accept, SubmitFails, Waits
<1>2. SameRefs /\ ui'.connecting = ui.connecting /\ ui'.req = ui.req
  BY <1>1 DEF Accept, SubmitFails, SameRefs, Uis
<1>3. \A j \in Runs : Waits(j)' => Waits(j)
  BY <1>1 DEF Waits
<1>4. (Waiting' => Waiting) /\ (Reads' <=> Reads) /\ ReadsOn
  BY <1>1, <1>2, <1>3 DEF ReadsOn, Waiting, Reads, Pending, Stale
<1>5. KeptStreams /\ (Streamed' <=> Streamed)
  BY <1>1, SameConns
<1>6. SameTexts /\ EndedRightly /\ (ui.streaming # None /\ ~Waiting' => ~Waiting)
  <2>1. CASE Accept(k)
    <3>1. Waits(k)'
      BY <1>1, <2>1 DEF Accept, Waits, Types, Sent
    <3> QED
      BY <2>1, <3>1, SameMessages DEF Accept, Waiting
  <2>2. CASE SubmitFails(k)
    <3>1. messages' = Drop(messages, <<"tmp", k>>) /\ send' = [send EXCEPT ![k].st = "over"]
          /\ torn' = (torn \/ ui.streaming # None)
      BY <2>2 DEF SubmitFails
    <3>2. ~Waits(k)'
      BY <1>1, <3>1 DEF Waits, Types, Sent
    <3>3. ASSUME NEW i \in DOMAIN messages
          PROVE  /\ messages'[i].id = messages[i].id /\ messages'[i].role = messages[i].role
                 /\ messages'[i].run = messages[i].run /\ messages'[i].got = messages[i].got
                 /\ messages'[i].streaming = messages[i].streaming \/ messages[i].id = <<"tmp", k>>
      <4>1. messages[i] \in Message
        BY DEF Types
      <4> QED
        BY <3>1, <4>1 DEF Drop, Message
    <3>4. DOMAIN messages' = DOMAIN messages
      BY <3>1 DEF Drop
    <3>5. SameTexts
      BY <3>3, <3>4 DEF SameTexts
    <3>6. EndedRightly
      BY <3>2, <3>3 DEF EndedRightly
    <3>7. ui.streaming = None
      BY <3>1
    <3> QED
      BY <3>5, <3>6, <3>7
  <2> QED
    BY <2>1, <2>2
<1>7. Linked'
  BY <1>1, <1>2, <1>4, <1>5, <1>6, StillLinked
<1>8. Rests
  BY <1>1, <1>2, <1>3, <1>4, <1>5, <1>6 DEF Rests
<1> QED
  BY <1>7, <1>8

\* The send is answered.
LEMMA SubmittedEffect ==
  ASSUME Types, Types', SInv, Linked, ~torn, NEW k \in Runs, Submitted(k)
  PROVE  Begins(k) /\ Linked'
<1> DEFINE sess == IF send[k].from = 0 THEN k ELSE ui.session
           u == [ui EXCEPT !.run = k, !.session = sess]
           to == Stream(k, home[k], <<"run", k>>, k)
           id == <<"run", k>>
<1>1. /\ ui \in Uis /\ send[k] \in Sent /\ k \in 0 .. MaxSends /\ k # 0 /\ home[k] \in 0 .. MaxSends
      /\ id \in Ids /\ conn \in [Conns -> Opened] /\ id # None
  BY Names DEF Types, None
<1>2. /\ UNCHANGED <<home, load, checks, timers, missed>> /\ Waits(k) /\ Connect(u, conn, to)
      /\ send' = [send EXCEPT ![k].st = "over"]
  BY DEF Submitted, server, Waits
<1>3. /\ \A j \in Runs : Waits(j) => j = k
      /\ \A c \in Conns : conn[c].st = "none"
      /\ timers = {} /\ checks = {} /\ \A n \in Loads : Pending(n) => Stale(n)
  BY <1>2 DEF SInv, InOrder, Alone
<1>4. \A j \in Runs : ~Waits(j)'
  BY <1>1, <1>2, <1>3 DEF Waits, Types, Sent
<1>5. ~Streamed /\ ~ui.connecting /\ ~Alive(ui.ctl) /\ ui.processed = {} /\ ui.last = 0
  BY <1>1, <1>2, <1>3 DEF Streamed, Linked, OneWay, Unseen, Waiting, Alive, Uis, Active
<1>6. sess \in 0 .. MaxSends
  BY <1>1 DEF Uis
<1>7. to \in Opened /\ to.st = "request" /\ to.run = k /\ to.msg = id /\ to.pos = 0
  BY <1>1, StreamTyped DEF Stream, Idle
<1> HIDE DEF to, sess, id
<1>8. /\ u \in Uis /\ ~u.connecting /\ u.ctl = ui.ctl /\ u.run = k /\ u.req = ui.req
      /\ u.processed = {} /\ u.last = 0
  BY <1>1, <1>5, <1>6 DEF Uis
<1> HIDE DEF u
<1>9. /\ Opens(k, id) /\ ui'.run = k /\ ui'.streaming = id /\ ui'.req = ui.req
      /\ ui'.processed = {} /\ ui'.last = 0
  BY <1>1, <1>2, <1>3, <1>5, <1>7, <1>8, ConnectOpens
<1>10. Begins(k)
  BY <1>2, <1>4, <1>9 DEF Begins, id
<1>11. PICK c \in Conns :
         /\ conn'[c].st = "request" /\ conn'[c].run = k /\ conn'[c].msg = id
         /\ \A d \in Conns \ {c} : conn'[d].st = "none"
  BY <1>9 DEF Opens
<1>12. Wired' /\ Streamed'
  BY <1>1, <1>9, <1>11 DEF Wired, Streamed, Active
<1>13. ~Reads'
  BY <1>2, <1>3, <1>9 DEF Reads, Pending, Stale
<1>14. Planned' /\ OneWay' /\ BlankPage' /\ Unseen'
  BY <1>2, <1>3, <1>9, <1>12, <1>13 DEF Planned, OneWay, BlankPage, Unseen
<1> QED
  BY <1>9, <1>10, <1>12, <1>14 DEF Linked

\* The status of the run arrives.
LEMMA CheckedEffect ==
  ASSUME Types, Types', SInv, Linked, ~torn, NEW k \in checks, Checked(k)
  PROVE  (Rests \/ Leaves) /\ Linked'
<1>1. /\ ui \in Uis /\ UNCHANGED <<send, load, conn>> /\ checks' = checks \ {k}
      /\ k \in Checking
  BY DEF Types, Checked, server
<1>2. timers = {} /\ checks' = {} /\ \A j \in Runs : ~Waits(j)
  BY <1>1 DEF SInv, InOrder, Single, Alone
<1>3. /\ k.run = ui.run /\ k.msg = ui.streaming /\ ui.streaming # None /\ ~Streamed
      /\ ~ui.connecting /\ ~Reads
  BY DEF Linked, Planned, OneWay, BlankPage
<1>4. ~Waiting /\ ~Waiting' /\ \A j \in Runs : ~Waits(j)'
  BY <1>1, <1>2 DEF Waiting, Waits
<1> DEFINE Ends == /\ phase[k.run] = "completed"
                   /\ ui' = [ui EXCEPT !.disconnected = TRUE, !.streaming = None]
                   /\ messages' = Drop(messages, k.msg)
                   /\ missed' = missed \cup {k.run} /\ timers' = timers
           GoesOn == /\ ui' = [ui EXCEPT !.disconnected = FALSE, !.timer = k.n]
                     /\ timers' = timers \cup {k} /\ UNCHANGED <<messages, missed>>
<1>5. CASE Ends
  <2>1. /\ phase[k.run] = "completed" /\ ui' = [ui EXCEPT !.disconnected = TRUE, !.streaming = None]
        /\ messages' = Drop(messages, k.msg) /\ missed' = missed \cup {k.run} /\ timers' = timers
    BY <1>5
  <2>2. /\ ui'.run = ui.run /\ ui'.streaming = None /\ ui'.req = ui.req
        /\ ui'.processed = ui.processed /\ ui'.last = ui.last /\ ui'.connecting = ui.connecting
    BY <1>1, <2>1 DEF Uis
  <2>3. SameTexts
    <3>1. ASSUME NEW i \in DOMAIN messages
          PROVE  /\ messages'[i].id = messages[i].id /\ messages'[i].role = messages[i].role
                 /\ messages'[i].run = messages[i].run /\ messages'[i].got = messages[i].got
      <4>1. messages[i] \in Message
        BY DEF Types
      <4> QED
        BY <2>1, <4>1 DEF Drop, Message
    <3> QED
      BY <2>1, <3>1 DEF SameTexts, Drop
  <2>4. ~Streamed' /\ ~Reads'
    BY <1>1, <1>3, <2>2 DEF Streamed, Reads, Pending, Stale
  <2>5. Leaves
    BY <1>3, <1>4, <2>1, <2>2, <2>3, <2>4 DEF Leaves
  <2>6. Wired' /\ Planned' /\ OneWay' /\ BlankPage' /\ Unseen'
    BY <1>1, <1>2, <1>3, <1>4, <2>1, <2>2, <2>4 DEF Wired, Planned, OneWay, BlankPage, Unseen, Streamed
  <2> QED
    BY <2>2, <2>5, <2>6 DEF Linked
<1>6. CASE GoesOn
  <2>1. /\ ui' = [ui EXCEPT !.disconnected = FALSE, !.timer = k.n]
        /\ UNCHANGED <<messages, missed>> /\ timers' = timers \cup {k}
    BY <1>6
  <2>2. SameRefs /\ ui'.connecting = ui.connecting /\ ui'.req = ui.req
    BY <1>1, <2>1 DEF Uis, SameRefs
  <2>3. /\ KeptStreams /\ SameTexts /\ EndedRightly /\ ~Streamed' /\ ~Reads'
    BY <1>1, <1>3, <2>1, <2>2, SameConns, SameMessages DEF Reads, Pending, Stale
  <2>4. Rests
    BY <1>4, <2>1, <2>2, <2>3 DEF Rests, ReadsOn, Reads
  <2>5. Linked'
    BY <1>2, <1>3, <1>4, <2>1, <2>2, <2>3, LinkedKept
  <2> QED
    BY <2>4, <2>5
<1>7. Ends \/ GoesOn
  BY DEF Checked
<1> QED
  BY <1>5, <1>6, <1>7

\* An event arrives.
LEMMA DeliverLinked ==
  ASSUME Types, Types', SInv, Linked, ~torn, NEW c \in Conns, Deliver(c)
  PROVE  Linked'
<1>1. /\ ui \in Uis /\ UNCHANGED <<send, load, checks, timers>> /\ conn \in [Conns -> Opened]
      /\ conn[c].st = "live" /\ conn' = [conn EXCEPT ![c].pos = @ + 1]
  BY DEF Deliver, Types
<1>2. /\ ui'.run = ui.run /\ ui'.streaming = ui.streaming /\ ui'.req = ui.req
      /\ ui'.connecting = ui.connecting
  BY <1>1 DEF Deliver, Uis
<1>3. \A d \in Conns : conn'[d].st = conn[d].st /\ conn'[d].run = conn[d].run /\ conn'[d].msg = conn[d].msg
  BY <1>1 DEF Opened
<1>4. Streamed /\ Streamed'
  BY <1>1, <1>3 DEF Streamed
<1>5. ~Waiting /\ ~Reads
  <2>1. \A k \in Runs : ~Waits(k)
    BY <1>1, NoStreamBeside
  <2> QED
    BY <1>4, <2>1 DEF Waiting, Linked, BlankPage
<1>6. ~Waiting' /\ ~Reads'
  BY <1>1, <1>2, <1>5 DEF Waiting, Waits, Reads, Pending, Stale
<1>7. Wired'
  BY <1>2, <1>3 DEF Linked, Wired
<1>8. Planned' /\ OneWay' /\ BlankPage' /\ Unseen'
  BY <1>1, <1>2, <1>4, <1>6 DEF Linked, Planned, OneWay, BlankPage, Unseen
<1> QED
  BY <1>2, <1>7, <1>8 DEF Linked

(* The history is whole.                                                   *)

\* Answers are named after their runs.
NamedByRun(ms) ==
  \A x \in DOMAIN ms : ms[x].role = "assistant" => ms[x].id = <<"run", ms[x].run>>
Whole(ms) == \A x \in DOMAIN ms : ms[x].role = "assistant" => ms[x].got = Chunks(ms[x].run)
HasAnswer(ms, r) == \E x \in DOMAIN ms : ms[x].role = "assistant" /\ ms[x].run = r

\* The last of the first i places that holds an event of the runs.
LastIs(rs, i, a) == a \in Stored(rs) /\ a <= i /\ \A b \in Stored(rs) : b <= i => b <= a

\* A run's chunks up to its n-th event.
Upto(r, n) == [x \in 1 .. (n - 1) |-> <<r, x + 1>>]

LEMMA UptoIs ==
  ASSUME NEW r
  PROVE  /\ Append(<<>>, <<r, 2>>) = Upto(r, 2)
         /\ \A n \in Nat \ {0} : Append(Upto(r, n), <<r, n + 1>>) = Upto(r, n + 1)
         /\ Upto(r, Events - 1) = Chunks(r)
         /\ \A n \in Nat \ {0} : Len(Upto(r, n)) = n - 1
<1> DEFINE V == {<<r, x>> : x \in Nat}
<1>1. Events \in Nat
  BY Names
<1>2. ASSUME NEW n \in Nat \ {0}
      PROVE  Upto(r, n) \in Seq(V) /\ Len(Upto(r, n)) = n - 1 /\ DOMAIN Upto(r, n) = 1 .. (n - 1)
  <2> DEFINE k == n - 1
             t == [x \in 1 .. k |-> <<r, x + 1>>]
  <2>1. k \in Nat /\ Upto(r, n) = t
    BY DEF Upto
  <2>2. \A x \in 1 .. k : <<r, x + 1>> \in V
    OBVIOUS
  <2> HIDE DEF k, V
  <2>3. t \in Seq(V) /\ Len(t) = k
    BY <2>1, <2>2
  <2> HIDE DEF t
  <2> QED
    BY <2>1, <2>3 DEF k
<1>3. ASSUME NEW n \in Nat \ {0} PROVE Append(Upto(r, n), <<r, n + 1>>) = Upto(r, n + 1)
  <2> DEFINE s == Upto(r, n)
             t == Upto(r, n + 1)
             u == Append(s, <<r, n + 1>>)
  <2>1. s \in Seq(V) /\ Len(s) = n - 1 /\ t \in Seq(V) /\ Len(t) = n /\ <<r, n + 1>> \in V
    <3>1. n + 1 \in Nat \ {0} /\ (n + 1) - 1 = n
      OBVIOUS
    <3> QED
      BY <1>2, <3>1
  <2>2. /\ \A x \in 1 .. (n - 1) : s[x] = <<r, x + 1>>
        /\ \A x \in 1 .. n : t[x] = <<r, x + 1>>
    BY DEF Upto
  <2> HIDE DEF V, s, t
  <2>3. u \in Seq(V) /\ Len(u) = n /\ u[n] = <<r, n + 1>> /\ \A x \in 1 .. (n - 1) : u[x] = s[x]
    BY <2>1
  <2> HIDE DEF u
  <2>4. ASSUME NEW x \in 1 .. n PROVE u[x] = t[x]
    <3>1. CASE x \in 1 .. (n - 1)
      <4>1. u[x] = s[x] /\ s[x] = <<r, x + 1>> /\ t[x] = <<r, x + 1>>
        BY <2>2, <2>3, <3>1
      <4> QED
        BY <4>1
    <3>2. CASE x = n
      BY <2>2, <2>3, <3>2
    <3> QED
      BY <3>1, <3>2
  <2>5. u = t
    BY <2>1, <2>3, <2>4
  <2> QED
    BY <2>5 DEF u, s, t
<1>4. Upto(r, 1) = <<>>
  <2>1. Upto(r, 1) \in Seq(V) /\ Len(Upto(r, 1)) = 0
    BY <1>2
  <2> HIDE DEF V
  <2> QED
    BY <2>1
<1>5. Append(<<>>, <<r, 2>>) = Upto(r, 2)
  <2>1. 1 \in Nat \ {0} /\ 1 + 1 = 2
    OBVIOUS
  <2>2. Append(Upto(r, 1), <<r, 1 + 1>>) = Upto(r, 1 + 1)
    BY <1>3, <2>1
  <2> QED
    BY <1>4, <2>1, <2>2
<1>6. Upto(r, Events - 1) = Chunks(r)
  <2>1. (Events - 1) - 1 = Events - 2
    BY <1>1
  <2> QED
    BY <2>1 DEF Upto, Chunks
<1> QED
  BY <1>2, <1>3, <1>5, <1>6

\* How far the loop has come after the first i places.
Looped(acc, rs, i) ==
  /\ acc \in Built(rs) /\ Whole(acc.shown)
  /\ (\A b \in Stored(rs) : b > i) => acc.current = <<>>
  /\ \A a : LastIs(rs, i, a) =>
       /\ feed[a][2] = 1 => /\ acc.current = <<>> /\ Len(acc.shown) > 0
                            /\ acc.shown[Len(acc.shown)].role = "user"
       /\ feed[a][2] > 1 =>
            /\ Len(acc.current) = 1 /\ acc.current[1].role = "assistant"
            /\ acc.current[1].run = feed[a][1]
            /\ acc.current[1].got =
                 Upto(feed[a][1], IF feed[a][2] = Events THEN Events - 1 ELSE feed[a][2])
  /\ \A b \in Stored(rs) : b <= i /\ feed[b][2] > 1 =>
       HasAnswer(acc.shown, feed[b][1]) \/ HasAnswer(acc.current, feed[b][1])

\* In the feed the events of one session's runs come run by run, each run's in
\* order and whole.
Complete(rs) == \A r \in rs : Count(r) = Events
InBlocks(s, rs) ==
  feed \in Seq(Feed) /\ Fed /\ Told /\ Ordered /\ ~Overlap /\ rs \subseteq RunsOf(s) /\ Complete(rs)

\* What comes before an event: the one before it of its run, or, before a run's
\* first, the last of another run.
LEMMA Before ==
  ASSUME NEW s, NEW rs, InBlocks(s, rs), NEW i \in Nat, i + 1 \in Stored(rs)
  PROVE  /\ feed[i + 1][2] > 1 =>
              \E a : LastIs(rs, i, a) /\ feed[a] = <<feed[i + 1][1], feed[i + 1][2] - 1>>
         /\ feed[i + 1][2] = 1 => \A a : LastIs(rs, i, a) => feed[a][2] = Events
<1> DEFINE r == feed[i + 1][1]
           n == feed[i + 1][2]
<1>1. /\ DOMAIN feed = 1 .. Len(feed) /\ Len(feed) \in Nat /\ i + 1 \in DOMAIN feed /\ r \in rs
      /\ \A b \in Stored(rs) : b \in DOMAIN feed /\ feed[b][1] \in rs
  BY DEF Stored, InBlocks
<1>2. \A b \in DOMAIN feed : feed[b] = <<feed[b][1], feed[b][2]>> /\ feed[b][1] \in Runs
                             /\ feed[b][2] \in 1 .. Events /\ feed[b] \in Feed
  BY DEF InBlocks, Feed
<1>3. ASSUME NEW b \in DOMAIN feed, NEW c \in DOMAIN feed, NEW d \in DOMAIN feed, b < c, c < d,
             feed[b][1] = feed[d][1], feed[b][1] \in rs, feed[c][1] \in rs
      PROVE  feed[c][1] = feed[b][1]
  <2>1. home[feed[b][1]] = s /\ home[feed[c][1]] = s
    BY <1>3 DEF InBlocks, RunsOf
  <2> QED
    BY <1>3, <2>1 DEF InBlocks, Overlap
<1>4. Events \in Nat
  BY Names
<1>5. ASSUME n > 1 PROVE \E a : LastIs(rs, i, a) /\ feed[a] = <<r, n - 1>>
  <2>1. r \in Runs /\ n \in 1 .. Events /\ n <= Count(r)
    BY <1>1, <1>2 DEF InBlocks, Told
  <2>2. Count(r) \in Nat
    BY CountTyped DEF InBlocks
  <2>3. n - 1 \in 1 .. Count(r)
    BY <1>5, <2>1, <2>2
  <2>4. PICK a \in DOMAIN feed : feed[a] = <<r, n - 1>>
    BY <2>1, <2>3 DEF InBlocks, Fed, FedOf
  <2>5. feed[a][1] = r /\ feed[a][2] = n - 1 /\ n - 1 < n
    BY <2>1, <2>4
  <2> HIDE DEF r, n
  <2>6. a <= i
    <3>1. a # i + 1
      BY <2>1, <2>5 DEF n
    <3>2. ~(i + 1 < a)
      <4> SUFFICES ASSUME i + 1 < a PROVE FALSE
        OBVIOUS
      <4>1. n < n - 1
        BY <1>1, <2>5 DEF InBlocks, Ordered, r, n
      <4> QED
        BY <2>1, <4>1
    <3> QED
      BY <1>1, <3>1, <3>2
  <2>7. a \in Stored(rs)
    BY <1>1, <2>5 DEF Stored
  <2>8. ASSUME NEW b \in Stored(rs), b <= i PROVE b <= a
    <3> SUFFICES ASSUME a < b PROVE FALSE
      BY <1>1
    <3>1. b \in DOMAIN feed /\ feed[b][1] \in rs /\ b < i + 1
      BY <1>1, <2>8
    <3>2. feed[b][1] = r
      BY <1>1, <1>3, <2>5, <3>1 DEF r
    <3>3. n - 1 < feed[b][2] /\ feed[b][2] < n
      BY <1>1, <2>5, <3>1, <3>2 DEF InBlocks, Ordered, r, n
    <3>4. feed[b][2] \in 1 .. Events
      BY <1>2, <3>1
    <3> QED
      BY <2>1, <3>3, <3>4
  <2> QED
    BY <2>4, <2>6, <2>7, <2>8 DEF LastIs
<1>6. ASSUME n = 1, NEW a, LastIs(rs, i, a) PROVE feed[a][2] = Events
  <2> DEFINE q == feed[a][1]
  <2>1. a \in DOMAIN feed /\ q \in rs /\ a <= i /\ a < i + 1 /\ q \in Runs /\ feed[a][2] \in 1 .. Events
    BY <1>1, <1>2, <1>6 DEF LastIs
  <2>2. q # r
    <3> SUFFICES ASSUME q = r PROVE FALSE
      OBVIOUS
    <3>1. feed[a][2] < 1
      BY <1>1, <1>6, <2>1 DEF InBlocks, Ordered
    <3> QED
      BY <2>1, <3>1
  <2>3. PICK d \in DOMAIN feed : feed[d] = <<q, Events>>
    <3>1. Count(q) = Events /\ Events \in 1 .. Count(q)
      BY <2>1, Names DEF InBlocks, Complete
    <3> QED
      BY <2>1, <3>1 DEF InBlocks, Fed, FedOf
  <2>4. feed[d][1] = q /\ feed[d][2] = Events
    BY <2>3
  <2> HIDE DEF q, r, n
  <2>5. d <= i
    <3>1. d # i + 1
      BY <2>2, <2>4 DEF r
    <3>2. ~(i + 1 < d)
      <4> SUFFICES ASSUME i + 1 < d PROVE FALSE
        OBVIOUS
      <4> QED
        BY <1>1, <1>3, <2>1, <2>2, <2>4 DEF q, r
    <3> QED
      BY <1>1, <3>1, <3>2
  <2>6. d <= a
    <3>1. d \in Stored(rs)
      BY <2>1, <2>4 DEF Stored
    <3> QED
      BY <1>6, <2>5, <3>1 DEF LastIs
  <2>7. ~(d < a)
    <3> SUFFICES ASSUME d < a PROVE FALSE
      OBVIOUS
    <3>1. Events < feed[a][2]
      BY <2>1, <2>4 DEF InBlocks, Ordered, q
    <3> QED
      BY <1>4, <2>1, <3>1
  <2>8. d = a
    BY <1>1, <2>1, <2>6, <2>7
  <2> QED
    BY <2>4, <2>8
<1> QED
  BY <1>5, <1>6

\* Whether the answers are whole, and which there are, in joined messages.
LEMMA JoinedWhole ==
  ASSUME NEW a \in Seq(Message), NEW b \in Seq(Message)
  PROVE  /\ Whole(a) /\ Whole(b) => Whole(a \o b)
         /\ \A r : HasAnswer(a, r) \/ HasAnswer(b, r) => HasAnswer(a \o b, r)
         /\ NamedByRun(a) /\ NamedByRun(b) => NamedByRun(a \o b)
<1>1. /\ DOMAIN (a \o b) = 1 .. (Len(a) + Len(b)) /\ Len(a) \in Nat /\ Len(b) \in Nat
      /\ \A i \in 1 .. (Len(a) + Len(b)) : (a \o b)[i] = IF i <= Len(a) THEN a[i] ELSE b[i - Len(a)]
      /\ DOMAIN a = 1 .. Len(a) /\ DOMAIN b = 1 .. Len(b)
  BY Joined
<1> DEFINE c == a \o b
<1>2. \A i \in DOMAIN c : (i \in DOMAIN a /\ c[i] = a[i]) \/ \E j \in DOMAIN b : c[i] = b[j]
  <2> SUFFICES ASSUME NEW i \in DOMAIN c PROVE (i \in DOMAIN a /\ c[i] = a[i]) \/ \E j \in DOMAIN b : c[i] = b[j]
    OBVIOUS
  <2>1. CASE i <= Len(a)
    BY <1>1, <2>1
  <2>2. CASE ~(i <= Len(a))
    <3>1. i - Len(a) \in DOMAIN b /\ c[i] = b[i - Len(a)]
      BY <1>1, <2>2
    <3> QED
      BY <3>1
  <2> QED
    BY <2>1, <2>2
<1>3. \A i \in DOMAIN a : i \in DOMAIN c /\ c[i] = a[i]
  BY <1>1
<1>4. \A j \in DOMAIN b : \E i \in DOMAIN c : c[i] = b[j]
  <2> SUFFICES ASSUME NEW j \in DOMAIN b PROVE \E i \in DOMAIN c : c[i] = b[j]
    OBVIOUS
  <2>1. Len(a) + j \in DOMAIN c /\ c[Len(a) + j] = b[j]
    BY <1>1
  <2> QED
    BY <2>1
<1> HIDE DEF c
<1>5. Whole(a) /\ Whole(b) => Whole(c)
  BY <1>2 DEF Whole
<1>6. NamedByRun(a) /\ NamedByRun(b) => NamedByRun(c)
  BY <1>2 DEF NamedByRun
<1>7. \A r : HasAnswer(a, r) \/ HasAnswer(b, r) => HasAnswer(c, r)
  BY <1>3, <1>4 DEF HasAnswer
<1> QED
  BY <1>5, <1>6, <1>7 DEF c

\* A user message more.
LEMMA UserAdded ==
  ASSUME NEW a \in Seq(Message), NEW m \in Message, m.role = "user"
  PROVE  /\ Append(a, m) \in Seq(Message) /\ Len(Append(a, m)) > 0
         /\ Append(a, m)[Len(Append(a, m))] = m
         /\ Whole(a) => Whole(Append(a, m))
         /\ NamedByRun(a) => NamedByRun(Append(a, m))
         /\ \A r : HasAnswer(a, r) => HasAnswer(Append(a, m), r)
<1> DEFINE t == Append(a, m)
<1>1. /\ t \in Seq(Message) /\ Len(t) = Len(a) + 1 /\ Len(a) \in Nat /\ DOMAIN a = 1 .. Len(a)
      /\ DOMAIN t = 1 .. (Len(a) + 1)
      /\ t[Len(a) + 1] = m /\ \A i \in DOMAIN a : i \in DOMAIN t /\ t[i] = a[i]
  OBVIOUS
<1> HIDE DEF t
<1>2. \A i \in DOMAIN t : t[i] = m \/ (i \in DOMAIN a /\ t[i] = a[i])
  BY <1>1
<1>3. "user" # "assistant"
  OBVIOUS
<1>4. Whole(a) => Whole(t)
  BY <1>2, <1>3 DEF Whole
<1>5. NamedByRun(a) => NamedByRun(t)
  BY <1>2, <1>3 DEF NamedByRun
<1>6. \A r : HasAnswer(a, r) => HasAnswer(t, r)
  BY <1>1 DEF HasAnswer
<1>7. Len(t) > 0 /\ t[Len(t)] = m
  BY <1>1
<1> QED
  BY <1>1, <1>4, <1>5, <1>6, <1>7 DEF t

\* One more event: the loop has come one place farther.
LEMMA RebuildText ==
  ASSUME NEW s, NEW rs, InBlocks(s, rs), NEW i \in Nat, i + 1 \in Stored(rs),
         NEW acc, Looped(acc, rs, i)
  PROVE  Looped(Rebuild(acc, feed[i + 1]), rs, i + 1)
<1> DEFINE e == feed[i + 1]
           r == e[1]
           n == e[2]
           new == Rebuild(acc, e)
           p == acc.shown \o acc.current
           pushed == IF acc.current = <<>> THEN acc.shown ELSE acc.shown \o acc.current
           k == Len(acc.shown)
           add(m) == [m EXCEPT !.got = Append(@, e)]
           M == MessagesOf(rs)
<1>1. /\ acc.shown \in Seq(M) /\ acc.current \in Seq(M) /\ acc \in Built(rs)
      /\ M \subseteq Message /\ acc.shown \in Seq(Message) /\ acc.current \in Seq(Message)
  <2>1. acc.shown \in Seq(M) /\ acc.current \in Seq(M) /\ acc \in Built(rs)
    BY DEF Looped, Built
  <2>2. M \subseteq Message
    BY DEF MessagesOf
  <2> HIDE DEF M
  <2> QED
    BY <2>1, <2>2
<1>2. /\ e \in Feed /\ r \in rs /\ r \in Runs /\ n \in 1 .. Events /\ e = <<r, n>> /\ Events \in Nat /\ Events > 2
      /\ DOMAIN feed = 1 .. Len(feed) /\ Len(feed) \in Nat
      /\ \A b \in Stored(rs) : b \in DOMAIN feed /\ feed[b][1] \in rs /\ feed[b][2] \in 1 .. Events
  <2>1. \A b \in DOMAIN feed : feed[b] \in Feed /\ feed[b] = <<feed[b][1], feed[b][2]>>
                               /\ feed[b][1] \in Runs /\ feed[b][2] \in 1 .. Events
    BY DEF InBlocks, Feed
  <2>2. \A b \in Stored(rs) : b \in DOMAIN feed /\ feed[b][1] \in rs
    BY DEF Stored
  <2>3. DOMAIN feed = 1 .. Len(feed) /\ Len(feed) \in Nat
    BY DEF InBlocks
  <2> QED
    BY <2>1, <2>2, <2>3, Names
<1>3. new \in Built(rs)
  BY <1>1, <1>2, RebuildTyped
<1>4. /\ n > 1 => \E a : LastIs(rs, i, a) /\ feed[a] = <<r, n - 1>>
      /\ n = 1 => \A a : LastIs(rs, i, a) => feed[a][2] = Events
  BY Before
<1>5. \A m \in M : /\ add(m).id = m.id /\ add(m).role = m.role /\ add(m).run = m.run
                   /\ add(m).got = Append(m.got, e)
  BY DEF MessagesOf, Message
<1>6. SUFFICES /\ Whole(new.shown)
               /\ n = 1 => /\ new.current = <<>> /\ Len(new.shown) > 0
                           /\ new.shown[Len(new.shown)].role = "user"
               /\ n > 1 =>
                    /\ Len(new.current) = 1 /\ new.current[1].role = "assistant"
                    /\ new.current[1].run = r
                    /\ new.current[1].got = Upto(r, IF n = Events THEN Events - 1 ELSE n)
               /\ \A q : HasAnswer(acc.shown, q) \/ HasAnswer(acc.current, q)
                           => HasAnswer(new.shown, q) \/ HasAnswer(new.current, q)
  <2> HIDE DEF new
  <2>1. \A a : LastIs(rs, i + 1, a) => a = i + 1
    BY <1>2 DEF LastIs
  <2>2. ~(\A b \in Stored(rs) : b > i + 1)
    OBVIOUS
  <2>3. n > 1 => HasAnswer(new.current, r)
    <3>1. ASSUME n > 1 PROVE HasAnswer(new.current, r)
      <4>1. new.current \in Seq(M)
        BY <1>3 DEF Built
      <4> HIDE DEF M, n, r
      <4>2. 1 \in DOMAIN new.current
        BY <1>6, <3>1, <4>1
      <4> QED
        BY <1>6, <3>1, <4>2 DEF HasAnswer
    <3> QED
      BY <3>1
  <2>4. ASSUME NEW b \in Stored(rs), b <= i + 1, feed[b][2] > 1
        PROVE  HasAnswer(new.shown, feed[b][1]) \/ HasAnswer(new.current, feed[b][1])
    <3>1. CASE b = i + 1
      BY <2>3, <2>4, <3>1
    <3>2. CASE b # i + 1
      <4>1. b <= i
        BY <1>2, <2>4, <3>2
      <4>2. HasAnswer(acc.shown, feed[b][1]) \/ HasAnswer(acc.current, feed[b][1])
        BY <2>4, <4>1 DEF Looped
      <4> QED
        BY <1>6, <4>2
    <3> QED
      BY <3>1, <3>2
  <2>5. Looped(new, rs, i + 1)
    BY <1>3, <1>6, <2>1, <2>2, <2>4 DEF Looped
  <2> QED
    BY <2>5 DEF new
<1>7. Whole(acc.shown)
  BY DEF Looped
<1>8. CASE n = 1
  <2> DEFINE u == UserMessage(r)
  <2>1. new = [shown |-> Append(pushed, u), current |-> <<>>]
    BY <1>8 DEF Rebuild
  <2>2. u \in Message /\ u.role = "user"
    BY <1>1, <1>2, NewMessages DEF UserMessage
  <2>3. Whole(pushed) /\ pushed \in Seq(Message)
        /\ \A q : HasAnswer(acc.shown, q) \/ HasAnswer(acc.current, q) => HasAnswer(pushed, q)
    <3>1. CASE acc.current = <<>>
      <4>1. pushed = acc.shown /\ \A q : ~HasAnswer(acc.current, q)
        BY <3>1 DEF HasAnswer
      <4> QED
        BY <1>1, <1>7, <4>1
    <3>2. CASE acc.current # <<>>
      <4>1. pushed = acc.shown \o acc.current /\ pushed \in Seq(Message)
        <5>1. pushed = acc.shown \o acc.current
          BY <3>2
        <5>2. acc.shown \o acc.current \in Seq(Message)
          BY <1>1, Joined
        <5> HIDE DEF pushed
        <5> QED
          BY <5>1, <5>2
      <4>2. PICK b \in Stored(rs) : b <= i
        <5>1. PICK b \in Stored(rs) : ~(b > i)
          BY <3>2 DEF Looped
        <5>2. b <= i
          BY <1>2, <5>1
        <5> QED
          BY <5>2
      <4>3. PICK a : LastIs(rs, i, a)
        <5> DEFINE T == {c \in Stored(rs) : c <= i}
        <5>1. T \subseteq 0 .. Len(feed) /\ T # {}
          BY <1>2, <4>2
        <5>2. \E x \in T : \A y \in T : y <= x
          <6> HIDE DEF T
          <6> QED
            BY <1>2, <5>1, GreatestNat
        <5> QED
          BY <5>2 DEF LastIs
      <4>4. feed[a][2] = Events /\ feed[a][2] > 1
        BY <1>2, <1>4, <1>8, <4>3
      <4>5. /\ Len(acc.current) = 1 /\ acc.current[1].role = "assistant"
            /\ acc.current[1].got = Chunks(acc.current[1].run)
        BY <4>3, <4>4, UptoIs DEF Looped
      <4>6. \A x \in DOMAIN acc.current : x = 1
        <5> HIDE DEF M
        <5> QED
          BY <1>1, <4>5
      <4>7. Whole(acc.current)
        BY <4>5, <4>6 DEF Whole
      <4> QED
        BY <1>1, <1>7, <4>1, <4>7, JoinedWhole
    <3> QED
      BY <3>1, <3>2
  <2> HIDE DEF new, pushed, u
  <2>4. new.shown = Append(pushed, u) /\ new.current = <<>>
    BY <2>1
  <2>5. /\ Whole(new.shown) /\ Len(new.shown) > 0 /\ new.shown[Len(new.shown)] = u
        /\ \A q : HasAnswer(pushed, q) => HasAnswer(new.shown, q)
    BY <2>2, <2>3, <2>4, UserAdded
  <2> QED
    BY <1>8, <2>2, <2>3, <2>4, <2>5
<1>9. CASE n # 1
  <2>0. n > 1
    BY <1>2, <1>9
  <2>1. PICK a : LastIs(rs, i, a) /\ feed[a] = <<r, n - 1>>
    BY <1>4, <2>0
  <2>2. feed[a][1] = r /\ feed[a][2] = n - 1
    BY <2>1
  <2>3. CASE n = 2
    <3> DEFINE m == add(Assistant(<<"run", r>>, r, FALSE))
    <3>1. /\ acc.current = <<>> /\ k > 0 /\ acc.shown[k].role = "user"
      BY <2>1, <2>2, <2>3 DEF Looped
    <3>2. new = [acc EXCEPT !.current = <<m>>]
      BY <1>2, <2>3, <3>1 DEF Rebuild
    <3>3. m.role = "assistant" /\ m.run = r /\ m.got = Append(<<>>, <<r, 2>>)
      BY <1>2, <2>3 DEF Assistant
    <3> HIDE DEF m, new, M, n, r, e
    <3>4. new.shown = acc.shown /\ new.current = <<m>>
      BY <1>1, <3>2 DEF Built
    <3>5. Len(new.current) = 1 /\ new.current[1] = m
      BY <3>4
    <3>6. \A q : ~HasAnswer(acc.current, q)
      BY <3>1 DEF HasAnswer
    <3>7. m.got = Upto(r, IF n = Events THEN Events - 1 ELSE n)
      BY <1>2, <2>3, <3>3, UptoIs
    <3> QED
      BY <1>7, <2>3, <3>3, <3>4, <3>5, <3>6, <3>7
  <2>4. CASE n # 2
    <3>1. n - 1 > 1 /\ n - 1 # Events /\ n - 1 \in Nat \ {0}
      BY <1>2, <2>0, <2>4
    <3>2. /\ Len(acc.current) = 1 /\ acc.current[1].role = "assistant"
          /\ acc.current[1].run = r /\ acc.current[1].got = Upto(r, n - 1)
      BY <2>1, <2>2, <3>1 DEF Looped
    <3>3. CASE n = Events
      <4>1. new = acc
        BY <1>9, <3>3 DEF Rebuild
      <4> HIDE DEF new
      <4> QED
        BY <1>7, <1>9, <2>0, <3>2, <3>3, <4>1
    <3>4. CASE n # Events
      <4> DEFINE m == acc.current[1]
                 g == add(m)
      <4>1. acc.current # <<>> /\ 1 \in DOMAIN acc.current /\ m \in M
        <5> HIDE DEF M
        <5> QED
          BY <1>1, <3>2
      <4>2. new = [acc EXCEPT !.current = <<g>>]
        BY <1>9, <3>4, <4>1 DEF Rebuild
      <4>3. g.role = m.role /\ g.run = m.run /\ g.got = Append(m.got, e)
        BY <1>5, <4>1
      <4>4. g.got = Upto(r, n)
        <5>1. Append(Upto(r, n - 1), <<r, (n - 1) + 1>>) = Upto(r, (n - 1) + 1)
          BY <3>1, UptoIs
        <5>2. (n - 1) + 1 = n
          BY <1>2
        <5> HIDE DEF g, n, r, e, add
        <5> QED
          BY <1>2, <3>2, <4>3, <5>1, <5>2
      <4> HIDE DEF g, new, M, n, r, e, add
      <4>5. new.shown = acc.shown /\ new.current = <<g>>
        BY <1>1, <4>2 DEF Built
      <4>6. Len(new.current) = 1 /\ new.current[1] = g /\ 1 \in DOMAIN new.current
        BY <4>5
      <4>7. \A q : HasAnswer(acc.current, q) => HasAnswer(new.current, q)
        <5>1. \A x \in DOMAIN acc.current : x = 1
          BY <1>1, <3>2
        <5> QED
          BY <4>3, <4>6, <5>1 DEF HasAnswer, m
      <4> QED
        BY <1>7, <1>9, <2>0, <3>2, <3>4, <4>3, <4>4, <4>5, <4>6, <4>7 DEF m
    <3> QED
      BY <3>3, <3>4
  <2> QED
    BY <2>3, <2>4
<1> QED
  BY <1>8, <1>9

\* An event of other runs changes nothing.
LEMMA SkippedText ==
  ASSUME NEW rs, feed \in Seq(Feed), NEW i \in Nat, i + 1 \notin Stored(rs), NEW acc, Looped(acc, rs, i)
  PROVE  Looped(acc, rs, i + 1)
<1>1. \A b \in Stored(rs) : b \in Nat /\ (b <= i + 1 <=> b <= i) /\ (b > i + 1 <=> b > i)
  BY DEF Stored
<1>2. \A a : LastIs(rs, i + 1, a) <=> LastIs(rs, i, a)
  BY <1>1 DEF LastIs
<1> QED
  BY <1>1, <1>2 DEF Looped

\* The whole history: each run's answer is there, whole.
LEMMA HistoryWhole ==
  ASSUME NEW s, NEW rs, InBlocks(s, rs)
  PROVE  Whole(History(rs)) /\ \A r \in rs : HasAnswer(History(rs), r)
<1> DEFINE f == Loop(rs)
           N == Len(feed)
           T == {m \in Nat : m <= N => Looped(f[m], rs, m)}
<1>1. f = [i \in 0 .. N |-> StepOf(rs, f, i)] /\ N \in Nat
  BY LoopIs DEF InBlocks
<1>2. 0 \in T
  <2> DEFINE none == [shown |-> <<>>, current |-> <<>>]
  <2>1. f[0] = none
    <3>1. 0 \in 0 .. N
      BY <1>1
    <3> HIDE DEF f, N
    <3>2. f[0] = StepOf(rs, f, 0)
      BY <1>1, <3>1
    <3> QED
      BY <3>2 DEF StepOf
  <2>2. none \in Built(rs)
    <3>1. <<>> \in Seq(MessagesOf(rs))
      OBVIOUS
    <3> QED
      BY <3>1 DEF Built
  <2>3. none.shown = <<>> /\ none.current = <<>>
    OBVIOUS
  <2> HIDE DEF none
  <2>4. \A b \in Stored(rs) : ~(b <= 0)
    BY DEF Stored, InBlocks
  <2>5. Looped(none, rs, 0)
    BY <2>2, <2>3, <2>4 DEF Looped, Whole, LastIs
  <2> HIDE DEF f
  <2> QED
    BY <2>1, <2>5
<1>3. ASSUME NEW m \in Nat, m \in T PROVE m + 1 \in T
  <2> SUFFICES ASSUME m + 1 <= N PROVE Looped(f[m + 1], rs, m + 1)
    OBVIOUS
  <2>1. Looped(f[m], rs, m)
    BY <1>1, <1>3
  <2>2. m + 1 \in 0 .. N /\ m + 1 # 0 /\ (m + 1) - 1 = m
    BY <1>1
  <2> HIDE DEF f, N, T
  <2>3. f[m + 1] = StepOf(rs, f, m + 1)
    BY <1>1, <2>2
  <2>4. CASE m + 1 \in Stored(rs)
    <3>1. f[m + 1] = Rebuild(f[m], feed[m + 1])
      BY <2>2, <2>3, <2>4 DEF StepOf
    <3>2. Looped(Rebuild(f[m], feed[m + 1]), rs, m + 1)
      BY <2>1, <2>4, RebuildText
    <3> QED
      BY <3>1, <3>2
  <2>5. CASE m + 1 \notin Stored(rs)
    <3>1. f[m + 1] = f[m]
      BY <2>2, <2>3, <2>5 DEF StepOf
    <3> QED
      BY <2>1, <2>5, <3>1, SkippedText DEF InBlocks
  <2> QED
    BY <2>4, <2>5
<1> HIDE DEF T
<1>4. Nat \subseteq T
  BY <1>2, <1>3, NatSetInduction
<1>5. Looped(f[N], rs, N)
  BY <1>1, <1>4 DEF T
<1>6. History(rs) = f[N].shown \o f[N].current
  BY DEF History
<1> DEFINE acc == f[N]
<1> HIDE DEF f
<1>7. /\ acc.shown \in Seq(MessagesOf(rs)) /\ acc.current \in Seq(MessagesOf(rs))
      /\ acc.shown \in Seq(Message) /\ acc.current \in Seq(Message)
  <2>1. acc.shown \in Seq(MessagesOf(rs)) /\ acc.current \in Seq(MessagesOf(rs))
    BY <1>5 DEF Looped, Built
  <2>2. MessagesOf(rs) \subseteq Message
    BY DEF MessagesOf
  <2> HIDE DEF acc
  <2> QED
    BY <2>1, <2>2
<1>8. Whole(acc.shown)
  BY <1>5 DEF Looped
<1>9. Whole(acc.current)
  <2>1. CASE acc.current = <<>>
    BY <2>1 DEF Whole
  <2>2. CASE acc.current # <<>>
    <3>1. Stored(rs) # {} /\ Stored(rs) \subseteq 0 .. N
      <4>1. Stored(rs) # {}
        BY <1>5, <2>2 DEF Looped
      <4> QED
        BY <4>1 DEF Stored, InBlocks
    <3>2. PICK a \in Stored(rs) : \A b \in Stored(rs) : b <= a
      <4> HIDE DEF N
      <4> QED
        BY <1>1, <3>1, GreatestNat
    <3>3. LastIs(rs, N, a)
      BY <3>1, <3>2 DEF LastIs
    <3> DEFINE q == feed[a][1]
    <3>4. a \in DOMAIN feed /\ q \in rs /\ feed[a][2] \in 1 .. Events /\ q \in Runs
      BY DEF Stored, InBlocks, Feed
    <3>5. PICK d \in DOMAIN feed : feed[d] = <<q, Events>>
      <4>1. Count(q) = Events /\ Events \in 1 .. Count(q)
        BY <3>4, Names DEF InBlocks, Complete
      <4> QED
        BY <3>4, <4>1 DEF InBlocks, Fed, FedOf
    <3>6. feed[d][1] = q /\ feed[d][2] = Events
      BY <3>5
    <3>7. d = a
      <4>1. d \in Stored(rs)
        BY <3>4, <3>6 DEF Stored
      <4>2. d <= a
        BY <3>2, <4>1
      <4>3. ~(d < a)
        <5> SUFFICES ASSUME d < a PROVE FALSE
          OBVIOUS
        <5>1. Events < feed[a][2]
          BY <3>4, <3>6 DEF InBlocks, Ordered
        <5> QED
          BY <3>4, <5>1, Names
      <4>4. d \in Nat /\ a \in Nat
        BY <3>4 DEF InBlocks
      <4> QED
        BY <4>2, <4>3, <4>4
    <3>8. feed[a][2] = Events /\ feed[a][2] > 1
      BY <3>6, <3>7, Names
    <3>9. /\ Len(acc.current) = 1 /\ acc.current[1].got = Chunks(acc.current[1].run)
      BY <1>5, <3>3, <3>8, UptoIs DEF Looped
    <3>10. \A x \in DOMAIN acc.current : x = 1
      BY <1>7, <3>9
    <3> HIDE DEF acc
    <3> QED
      BY <3>9, <3>10 DEF Whole
  <2> QED
    BY <2>1, <2>2
<1>10. ASSUME NEW r \in rs PROVE HasAnswer(acc.shown, r) \/ HasAnswer(acc.current, r)
  <2>1. r \in Runs /\ 2 \in 1 .. Count(r)
    BY Names DEF InBlocks, RunsOf, Complete
  <2>2. PICK b \in DOMAIN feed : feed[b] = <<r, 2>>
    BY <2>1 DEF InBlocks, Fed, FedOf
  <2>3. b \in Stored(rs) /\ b <= N /\ feed[b][1] = r /\ feed[b][2] > 1
    BY <2>2 DEF Stored, InBlocks
  <2> QED
    BY <1>5, <2>3 DEF Looped
<1> HIDE DEF acc
<1>11. Whole(acc.shown \o acc.current) /\ \A r \in rs : HasAnswer(acc.shown \o acc.current, r)
  BY <1>7, <1>8, <1>9, <1>10, JoinedWhole
<1> QED
  BY <1>6, <1>11 DEF acc

\* The ids that one step of the loop gives.
LEMMA RebuildIds ==
  ASSUME NEW S, NEW acc \in Built(S), NamedByRun(acc.shown), NamedByRun(acc.current),
         NEW e \in Feed, e[1] \in S
  PROVE  NamedByRun(Rebuild(acc, e).shown) /\ NamedByRun(Rebuild(acc, e).current)
<1> DEFINE M == MessagesOf(S)
           pushed == IF acc.current = <<>> THEN acc.shown ELSE acc.shown \o acc.current
           n == Len(acc.shown)
           add(m) == [m EXCEPT !.got = Append(@, e)]
           a == Assistant(<<"run", e[1]>>, e[1], FALSE)
           u == UserMessage(e[1])
           new == Rebuild(acc, e)
<1>1. /\ acc.shown \in Seq(M) /\ acc.current \in Seq(M)
      /\ acc.shown \in Seq(Message) /\ acc.current \in Seq(Message)
  <2>1. acc.shown \in Seq(M) /\ acc.current \in Seq(M)
    BY DEF Built
  <2>2. M \subseteq Message
    BY DEF MessagesOf
  <2> HIDE DEF M
  <2> QED
    BY <2>1, <2>2
<1>2. e[1] \in Runs /\ u \in Message /\ u.role = "user"
  <2>1. e[1] \in Runs
    BY DEF Feed
  <2> QED
    BY <2>1, NewMessages, AnyMessage DEF UserMessage
<1>3. \A m \in M : add(m).id = m.id /\ add(m).role = m.role /\ add(m).run = m.run
  BY DEF MessagesOf, Message
<1>5. CASE e[2] = 1
  <2>1. new = [shown |-> Append(pushed, u), current |-> <<>>]
    BY <1>5 DEF Rebuild
  <2>2. pushed \in Seq(Message) /\ NamedByRun(pushed)
    <3>1. CASE acc.current = <<>>
      <4>1. pushed = acc.shown
        BY <3>1
      <4> HIDE DEF pushed
      <4> QED
        BY <1>1, <4>1
    <3>2. CASE acc.current # <<>>
      <4>1. pushed = acc.shown \o acc.current
        BY <3>2
      <4> HIDE DEF pushed
      <4>2. acc.shown \o acc.current \in Seq(Message)
        BY <1>1, Joined
      <4> QED
        BY <1>1, <4>1, <4>2, JoinedWhole
    <3> QED
      BY <3>1, <3>2
  <2> HIDE DEF pushed, u, new
  <2>3. NamedByRun(Append(pushed, u)) /\ NamedByRun(<<>>)
    BY <1>2, <2>2, UserAdded DEF NamedByRun
  <2> QED
    BY <2>1, <2>3 DEF new
<1>6. CASE e[2] # 1 /\ e[2] = Events
  BY <1>6 DEF Rebuild
<1>7. CASE e[2] # 1 /\ e[2] # Events /\ acc.current = <<>> /\ n > 0
           /\ acc.shown[n].role = "assistant" /\ acc.shown[n].run = e[1]
  <2> DEFINE grown == [acc.shown EXCEPT ![n] = add(acc.shown[n])]
  <2>1. new = [acc EXCEPT !.shown = grown]
    BY <1>7 DEF Rebuild
  <2>2. n \in DOMAIN acc.shown /\ acc.shown[n] \in M
    <3> HIDE DEF M
    <3> QED
      BY <1>1, <1>7
  <2>3. /\ DOMAIN grown = DOMAIN acc.shown
        /\ \A x \in DOMAIN acc.shown : /\ grown[x].id = acc.shown[x].id
                                       /\ grown[x].role = acc.shown[x].role
                                       /\ grown[x].run = acc.shown[x].run
    BY <1>3, <2>2
  <2> HIDE DEF grown, new, add, M
  <2>4. new.shown = grown /\ new.current = acc.current
    BY <1>1, <2>1 DEF Built
  <2>5. NamedByRun(grown)
    BY <2>3 DEF NamedByRun
  <2> QED
    BY <2>4, <2>5 DEF new
<1>8. CASE e[2] # 1 /\ e[2] # Events /\ acc.current = <<>>
            /\ ~(n > 0 /\ acc.shown[n].role = "assistant" /\ acc.shown[n].run = e[1])
  <2> DEFINE m == add(a)
  <2>1. new = [acc EXCEPT !.current = <<m>>]
    BY <1>8 DEF Rebuild
  <2>2. m.id = <<"run", m.run>>
    BY DEF Assistant
  <2> HIDE DEF m, new, M
  <2>3. new.shown = acc.shown /\ new.current = <<m>>
    BY <1>1, <2>1 DEF Built
  <2>4. NamedByRun(<<m>>)
    BY <2>2 DEF NamedByRun
  <2> QED
    BY <2>3, <2>4 DEF new
<1>9. CASE e[2] # 1 /\ e[2] # Events /\ acc.current # <<>>
  <2> DEFINE m == acc.current[1]
             g == add(m)
  <2>1. new = [acc EXCEPT !.current = <<g>>]
    BY <1>9 DEF Rebuild
  <2>2. 1 \in DOMAIN acc.current /\ m \in M
    <3> HIDE DEF M
    <3>1. Len(acc.current) \in Nat /\ Len(acc.current) # 0
      BY <1>1, <1>9
    <3> QED
      BY <1>1, <3>1
  <2>3. g.id = m.id /\ g.role = m.role /\ g.run = m.run
    BY <1>3, <2>2
  <2>4. m.role = "assistant" => m.id = <<"run", m.run>>
    BY <2>2 DEF NamedByRun
  <2> HIDE DEF g, m, new, M, add
  <2>5. new.shown = acc.shown /\ new.current = <<g>>
    BY <1>1, <2>1 DEF Built
  <2>6. NamedByRun(<<g>>)
    BY <2>3, <2>4 DEF NamedByRun
  <2> QED
    BY <2>5, <2>6 DEF new
<1> QED
  BY <1>5, <1>6, <1>7, <1>8, <1>9

\* All of them.
LEMMA HistoryIds ==
  ASSUME feed \in Seq(Feed), NEW rs
  PROVE  NamedByRun(History(rs))
<1> DEFINE f == Loop(rs)
           N == Len(feed)
           Fine(acc) == acc \in Built(rs) /\ NamedByRun(acc.shown) /\ NamedByRun(acc.current)
           T == {m \in Nat : m <= N => Fine(f[m])}
<1>1. f = [i \in 0 .. N |-> StepOf(rs, f, i)] /\ N \in Nat
  BY LoopIs
<1>2. 0 \in T
  <2> DEFINE none == [shown |-> <<>>, current |-> <<>>]
  <2>1. f[0] = none
    <3>1. 0 \in 0 .. N
      BY <1>1
    <3> HIDE DEF f, N
    <3>2. f[0] = StepOf(rs, f, 0)
      BY <1>1, <3>1
    <3> QED
      BY <3>2 DEF StepOf
  <2>2. none \in Built(rs)
    <3>1. <<>> \in Seq(MessagesOf(rs))
      OBVIOUS
    <3> QED
      BY <3>1 DEF Built
  <2>3. NamedByRun(none.shown) /\ NamedByRun(none.current)
    BY DEF NamedByRun
  <2> HIDE DEF none, f
  <2> QED
    BY <2>1, <2>2, <2>3
<1>3. ASSUME NEW m \in Nat, m \in T PROVE m + 1 \in T
  <2> SUFFICES ASSUME m + 1 <= N PROVE Fine(f[m + 1])
    OBVIOUS
  <2>1. Fine(f[m])
    BY <1>1, <1>3
  <2>2. m + 1 \in 0 .. N /\ m + 1 \in DOMAIN feed /\ m + 1 # 0 /\ (m + 1) - 1 = m
    BY <1>1
  <2>3. feed[m + 1] \in Feed
    BY <2>2
  <2> HIDE DEF f, N, T
  <2>4. f[m + 1] = StepOf(rs, f, m + 1)
    BY <1>1, <2>2
  <2>5. CASE m + 1 \in Stored(rs)
    <3>1. f[m + 1] = Rebuild(f[m], feed[m + 1])
      BY <2>2, <2>4, <2>5 DEF StepOf
    <3>2. feed[m + 1][1] \in rs
      BY <2>5 DEF Stored
    <3>3. Fine(Rebuild(f[m], feed[m + 1]))
      BY <2>1, <2>3, <3>2, RebuildIds, RebuildTyped
    <3> QED
      BY <3>1, <3>3
  <2>6. CASE m + 1 \notin Stored(rs)
    <3>1. f[m + 1] = f[m]
      BY <2>2, <2>4, <2>6 DEF StepOf
    <3> QED
      BY <2>1, <3>1
  <2> QED
    BY <2>5, <2>6
<1> HIDE DEF T
<1>4. Nat \subseteq T
  BY <1>2, <1>3, NatSetInduction
<1>5. Fine(f[N])
  BY <1>1, <1>4 DEF T
<1>6. History(rs) = f[N].shown \o f[N].current
  BY DEF History
<1> DEFINE acc == f[N]
<1> HIDE DEF f
<1>7. acc.shown \in Seq(Message) /\ acc.current \in Seq(Message)
  <2>1. acc.shown \in Seq(MessagesOf(rs)) /\ acc.current \in Seq(MessagesOf(rs))
    BY <1>5 DEF Built
  <2>2. MessagesOf(rs) \subseteq Message
    BY DEF MessagesOf
  <2> HIDE DEF acc
  <2> QED
    BY <2>1, <2>2
<1>8. NamedByRun(acc.shown \o acc.current)
  <2>1. NamedByRun(acc.shown) /\ NamedByRun(acc.current)
    BY <1>5
  <2> HIDE DEF acc
  <2> QED
    BY <1>7, <2>1, JoinedWhole
<1> QED
  BY <1>6, <1>8 DEF acc

\* The newest event of the stored runs: what a loaded view has seen.
LastSeen(rs) ==
  IF Stored(rs) = {} THEN 0 ELSE CHOOSE i \in Stored(rs) : \A j \in Stored(rs) : j <= i

\* The history is shown, without or with the answer of the run that goes on.
Arrives(n) ==
  /\ load[n].st = "fetch" /\ load[n].got = {"events", "status"} /\ ~Stale(n)
  /\ ~Waiting /\ \A k \in Runs : ~Waits(k)'
  /\ ui'.processed = {} /\ ui'.last = LastSeen(load[n].events) /\ missed' = missed /\ ~Reads'
ShowsOld(n) ==
  /\ Arrives(n) /\ messages' = History(load[n].events) /\ ~Streamed' /\ ui'.streaming = None
ShowsRun(n) ==
  LET new == Prepared(History(load[n].events), load[n].run, n)
  IN /\ Arrives(n) /\ messages' = new.ms /\ Opens(load[n].run, new.id)
     /\ ui'.run = load[n].run /\ ui'.streaming = new.id

\* The answer that a loaded view goes on with.
LEMMA PreparedIs ==
  ASSUME NEW ms \in Seq(Message), NamedByRun(ms), NEW r, NEW n \in Loads
  PROVE  \/ /\ HasAnswer(ms, r) /\ Prepared(ms, r, n).id = <<"run", r>>
            /\ DOMAIN Prepared(ms, r, n).ms = DOMAIN ms
            /\ \A i \in DOMAIN ms :
                 LET m == Prepared(ms, r, n).ms[i]
                 IN /\ m.id = ms[i].id /\ m.role = ms[i].role /\ m.run = ms[i].run
                    /\ m.got = ms[i].got /\ (m.streaming = ms[i].streaming \/ m.streaming)
         \/ /\ ~HasAnswer(ms, r) /\ Prepared(ms, r, n).id = <<"load", n>>
            /\ Prepared(ms, r, n).ms = Append(ms, Assistant(<<"load", n>>, r, TRUE))
<1> DEFINE mine == {i \in DOMAIN ms : ms[i].role = "assistant" /\ ms[i].run = r}
           lastOne == CHOOSE i \in mine : \A j \in mine : j <= i
           t == [i \in DOMAIN ms |-> IF ms[i].id = ms[lastOne].id
                                     THEN [ms[i] EXCEPT !.streaming = TRUE] ELSE ms[i]]
<1>0. HasAnswer(ms, r) <=> mine # {}
  BY DEF HasAnswer
<1>1. CASE mine = {}
  <2>1. Prepared(ms, r, n) = [id |-> <<"load", n>>, ms |-> Append(ms, Assistant(<<"load", n>>, r, TRUE))]
    BY <1>1 DEF Prepared
  <2>2. /\ Prepared(ms, r, n).id = <<"load", n>>
        /\ Prepared(ms, r, n).ms = Append(ms, Assistant(<<"load", n>>, r, TRUE))
    <3> DEFINE t1 == Append(ms, Assistant(<<"load", n>>, r, TRUE))
               id == <<"load", n>>
    <3>1. Prepared(ms, r, n) = [id |-> id, ms |-> t1]
      BY <2>1
    <3> HIDE DEF t1, id
    <3>2. Prepared(ms, r, n).id = id /\ Prepared(ms, r, n).ms = t1
      BY <3>1
    <3> QED
      BY <3>2 DEF t1, id
  <2> QED
    BY <1>0, <1>1, <2>2
<1>2. CASE mine # {}
  <2>1. Prepared(ms, r, n) = [id |-> ms[lastOne].id, ms |-> t]
    BY <1>2 DEF Prepared
  <2>2. Len(ms) \in Nat /\ DOMAIN ms = 1 .. Len(ms)
    OBVIOUS
  <2>3. mine \subseteq 0 .. Len(ms)
    BY <2>2
  <2>4. lastOne \in mine
    <3> HIDE DEF mine
    <3>1. \E i \in mine : \A j \in mine : j <= i
      BY <1>2, <2>2, <2>3, GreatestNat
    <3> QED
      BY <3>1
  <2>5. ms[lastOne].id = <<"run", r>>
    <3> HIDE DEF lastOne
    <3> QED
      BY <2>4 DEF NamedByRun
  <2> HIDE DEF lastOne, mine
  <2>6. ASSUME NEW i \in DOMAIN ms
        PROVE  /\ t[i].id = ms[i].id /\ t[i].role = ms[i].role
               /\ t[i].run = ms[i].run /\ t[i].got = ms[i].got
               /\ (t[i].streaming = ms[i].streaming \/ t[i].streaming)
    <3>1. ms[i] \in Message
      BY <2>2
    <3> QED
      BY <3>1 DEF Message
  <2>7. DOMAIN t = DOMAIN ms
    OBVIOUS
  <2> HIDE DEF t
  <2>8. Prepared(ms, r, n).id = <<"run", r>> /\ Prepared(ms, r, n).ms = t
    BY <2>1, <2>5
  <2> QED
    BY <1>0, <1>2, <2>6, <2>7, <2>8
<1> QED
  BY <1>1, <1>2

\* The steps of a load.
LEMMA LoadEffect ==
  ASSUME Types, Types', Targeted, SInv, Linked, ~torn, NEW n \in Loads, LoadSteps(n)
  PROVE  (Rests \/ ShowsOld(n) \/ ShowsRun(n)) /\ Linked'
<1>1. ui \in Uis /\ load[n] \in Loaded /\ conn \in [Conns -> Opened]
  BY DEF Types
<1>2. /\ UNCHANGED <<home, feed, send, checks, timers, torn, missed>> /\ Pending(n)
      /\ \A m \in Loads \ {n} : load'[m] = load[m]
  BY DEF LoadSteps, LoadGet, LoadRead, LoadShow, LoadFails, server, Pending, Types
<1>3. \A k \in Runs : Waits(k)' <=> Waits(k)
  BY <1>2 DEF Waits
<1>4. ASSUME conn' = conn, messages' = messages, SameRefs, ui'.connecting = ui.connecting,
             ui'.req = ui.req, load'[n].req = load[n].req
      PROVE  Rests /\ Linked'
  <2>1. KeptStreams /\ (Streamed' <=> Streamed) /\ SameTexts /\ EndedRightly
    BY <1>4, SameConns, SameMessages
  <2>2. ReadsOn
    <3>1. ASSUME NEW m \in Loads, (Pending(m) /\ ~Stale(m))' PROVE Pending(m) /\ ~Stale(m)
      BY <1>2, <1>4, <3>1 DEF Pending, Stale
    <3> QED
      BY <3>1 DEF ReadsOn
  <2>3. (Reads' => Reads) /\ (Waiting' <=> Waiting)
    BY <1>3, <2>2 DEF ReadsOn, Reads, Waiting
  <2>4. Linked'
    BY <1>2, <1>4, <2>1, <2>3, StillLinked
  <2>5. Rests
    BY <1>2, <1>3, <1>4, <2>1, <2>2, <2>3 DEF Rests
  <2> QED
    BY <2>4, <2>5
<1>5. CASE LoadGet(n)
  <2>1. /\ conn' = conn /\ messages' = messages
        /\ ui' = ui \/ ui' = [ui EXCEPT !.session = load[n].target]
    BY <1>5 DEF LoadGet
  <2>2. SameRefs /\ ui'.connecting = ui.connecting /\ ui'.req = ui.req
    BY <1>1, <2>1 DEF Uis, SameRefs
  <2>3. load'[n].req = load[n].req
    BY <1>1, <1>5 DEF LoadGet, Types, Loaded
  <2> QED
    BY <1>4, <2>1, <2>2, <2>3
<1>6. ASSUME NEW what \in {"events", "status"}, LoadRead(n, what) PROVE Rests /\ Linked'
  <2> DEFINE es == IF what = "events"
                   THEN {r \in RunsOf(load[n].target) : phase[r] \in {"traced", "completed"}}
                   ELSE load[n].events
             going == IF what = "status" THEN phase[load[n].run] # "completed"
                      ELSE load[n].running
             got == load[n].got \cup {what}
  <2>1. load' = [load EXCEPT ![n] = [load[n] EXCEPT !.got = got, !.events = es, !.running = going]]
    BY <1>6 DEF LoadRead, Types
  <2> HIDE DEF es, going, got
  <2>2. load'[n].req = load[n].req
    BY <1>1, <2>1 DEF Types, Loaded
  <2>3. conn' = conn /\ messages' = messages /\ ui' = ui
    BY <1>6 DEF LoadRead
  <2> QED
    BY <1>4, <2>2, <2>3 DEF SameRefs
<1>7. CASE LoadFails(n)
  <2>1. conn' = conn /\ messages' = messages /\ (ui' = ui \/ ui' = LoadDone(ui))
    BY <1>7 DEF LoadFails
  <2>2. SameRefs /\ ui'.connecting = ui.connecting /\ ui'.req = ui.req
    BY <1>1, <2>1 DEF Uis, SameRefs, LoadDone
  <2>3. load'[n].req = load[n].req
    BY <1>1, <1>7 DEF LoadFails, Types, Loaded
  <2> QED
    BY <1>4, <2>1, <2>2, <2>3
<1>8. CASE LoadShow(n)
  <2>1. /\ load'[n].req = load[n].req /\ load'[n].st = "over" /\ load[n].st = "fetch"
        /\ load[n].got = {"events", "status"}
    BY <1>1, <1>8 DEF LoadShow, Types, Loaded
  <2>2. CASE Stale(n)
    <3>1. UNCHANGED <<ui, messages, conn>>
      BY <1>8, <2>2 DEF LoadShow
    <3> QED
      BY <1>4, <2>1, <3>1 DEF SameRefs
  <2>3. CASE ~Stale(n)
    <3> DEFINE old == History(load[n].events)
               r == load[n].run
               seen == LastSeen(load[n].events)
               u == [ui EXCEPT !.last = seen]
               new == Prepared(old, r, n)
    <3>1. Reads
      BY <1>2, <2>3 DEF Reads
    <3>2. /\ ~Streamed /\ checks = {} /\ timers = {} /\ ui.streaming = None /\ messages = <<>>
          /\ ~ui.connecting /\ ui.processed = {} /\ ui.last = 0
      BY <3>1 DEF Linked, BlankPage, OneWay, Unseen
    <3>3. ~Waiting /\ ~Waiting' /\ \A k \in Runs : ~Waits(k) /\ ~Waits(k)'
      <4>1. \A k \in Runs : ~Waits(k)
        BY <1>2, <2>3 DEF SInv, InOrder, Alone
      <4> QED
        BY <1>3, <4>1 DEF Waiting
    <3>4. ASSUME ui'.req = ui.req PROVE ~Reads'
      <4>1. ASSUME NEW m \in Loads PROVE ~(Pending(m) /\ ~Stale(m))'
        <5>1. CASE m = n
          BY <2>1, <5>1 DEF Pending
        <5>2. CASE m # n
          BY <1>2, <2>3, <3>4, <5>2 DEF Pending, Stale, SInv, Numbered, NumberedAt
        <5> QED
          BY <5>1, <5>2
      <4> QED
        BY <4>1 DEF Reads
    <3>5. /\ old \in Seq(Message) /\ NamedByRun(old)
          /\ load[n].target \in 0 .. MaxSends /\ r \in Runs /\ r \in 0 .. MaxSends
      <4>1. feed \in Seq(Feed)
        BY DEF Types
      <4>2. old \in Seq(MessagesOf(load[n].events)) /\ NamedByRun(old)
        BY <4>1, HistoryTyped, HistoryIds
      <4>3. MessagesOf(load[n].events) \subseteq Message
        BY DEF MessagesOf
      <4> HIDE DEF old
      <4>4. old \in Seq(Message)
        BY <4>2, <4>3
      <4> QED
        BY <1>1, <2>1, <4>2, <4>4, Names DEF Loaded, Targeted, TargetedAt, RunsOf
    <3>6. seen \in Nat
      <4>1. Len(feed) \in Nat /\ Stored(load[n].events) \subseteq 0 .. Len(feed)
        BY DEF Stored, Types
      <4>2. CASE Stored(load[n].events) # {}
        <5>1. \E i \in Stored(load[n].events) : \A j \in Stored(load[n].events) : j <= i
          BY <4>1, <4>2, GreatestNat
        <5>2. seen \in Stored(load[n].events)
          BY <4>2, <5>1 DEF LastSeen
        <5> HIDE DEF seen
        <5> QED
          BY <4>1, <5>2
      <4>3. CASE Stored(load[n].events) = {}
        BY <4>3 DEF LastSeen
      <4> QED
        BY <4>2, <4>3
    <3>7. /\ load[n].running =>
               messages' = new.ms /\ Connect(LoadDone([u EXCEPT !.run = r]), conn,
                                             Stream(r, load[n].target, new.id, 0))
          /\ ~load[n].running => messages' = old /\ ui' = LoadDone(u) /\ conn' = conn
      <4>1. seen = IF Stored(load[n].events) = {} THEN ui.last
                   ELSE CHOOSE i \in Stored(load[n].events) : \A j \in Stored(load[n].events) : j <= i
        BY <3>2 DEF LastSeen
      <4> HIDE DEF seen, old
      <4> QED
        BY <1>8, <2>3, <4>1 DEF LoadShow, old
    <3>8. new.id = <<"run", r>> \/ new.id = <<"load", n>>
      <4> HIDE DEF old
      <4> QED
        BY <3>5, PreparedIs
    <3>9. new.id \in Ids /\ new.id # None
      <4> HIDE DEF new, r
      <4>1. /\ <<"run", r>> \in Ids /\ <<"load", n>> \in Ids
        BY <3>5, Names
      <4>2. <<"run", r>> # None /\ <<"load", n>> # None
        BY DEF None
      <4> QED
        BY <3>8, <4>1, <4>2
    <3> HIDE DEF old, r, seen, new
    <3>10. /\ u \in Uis /\ u.req = ui.req /\ u.last = seen /\ u.processed = {} /\ u.streaming = None
           /\ ~u.connecting /\ u.ctl = ui.ctl
      BY <1>1, <3>2, <3>6 DEF Uis
    <3> HIDE DEF u
    <3>11. CASE ~load[n].running
      <4>1. /\ ui'.req = ui.req /\ ui'.last = seen /\ ui'.processed = {} /\ ui'.streaming = None
            /\ ~ui'.connecting /\ messages' = old /\ conn' = conn
        BY <3>7, <3>10, <3>11 DEF LoadDone, Uis
      <4>2. ~Streamed' /\ ~Reads'
        BY <3>2, <3>4, <4>1 DEF Streamed
      <4>3. ShowsOld(n)
        BY <1>2, <2>1, <2>3, <3>3, <4>1, <4>2 DEF ShowsOld, Arrives, old, seen
      <4>4. Wired' /\ Planned' /\ OneWay' /\ BlankPage' /\ Unseen'
        BY <1>2, <3>2, <3>3, <4>1, <4>2 DEF Wired, Planned, OneWay, BlankPage, Unseen, Streamed
      <4> QED
        BY <4>1, <4>3, <4>4 DEF Linked
    <3>12. CASE load[n].running
      <4> DEFINE to == Stream(r, load[n].target, new.id, 0)
                 v == LoadDone([u EXCEPT !.run = r])
      <4>1. Connect(v, conn, to) /\ messages' = new.ms
        BY <3>7, <3>12
      <4>2. to \in Opened /\ to.st = "request" /\ to.run = r /\ to.msg = new.id /\ to.pos = 0
        BY <3>5, <3>9, Names, StreamTyped DEF Stream, Idle
      <4>3. /\ v \in Uis /\ v.run = r /\ v.req = ui.req /\ v.last = seen /\ v.processed = {}
            /\ ~v.connecting /\ v.ctl = ui.ctl
        BY <3>5, <3>10 DEF LoadDone, Uis
      <4>4. (\A c \in Conns : conn[c].st = "none") /\ ~Alive(v.ctl)
        BY <1>1, <3>2, <4>3 DEF Streamed, Alive, Uis, Active
      <4> HIDE DEF to, v
      <4>5. /\ Opens(r, new.id) /\ ui'.run = r /\ ui'.streaming = new.id /\ ui'.req = ui.req
            /\ ui'.processed = {} /\ ui'.last = seen
        BY <1>1, <3>5, <3>9, <4>1, <4>2, <4>3, <4>4, Names, ConnectOpens
      <4>6. ~Reads'
        BY <3>4, <4>5
      <4>7. ShowsRun(n)
        BY <1>2, <2>1, <2>3, <3>3, <4>1, <4>5, <4>6 DEF ShowsRun, Arrives, old, seen, r, new
      <4>8. PICK c \in Conns :
              /\ conn'[c].st = "request" /\ conn'[c].run = r /\ conn'[c].msg = new.id
              /\ \A d \in Conns \ {c} : conn'[d].st = "none"
        BY <4>5 DEF Opens
      <4>9. Wired' /\ Streamed'
        BY <3>9, <4>5, <4>8 DEF Wired, Streamed, Active
      <4>10. Planned' /\ OneWay' /\ BlankPage' /\ Unseen'
        BY <1>2, <3>2, <3>3, <4>6, <4>9 DEF Planned, OneWay, BlankPage, Unseen
      <4> QED
        BY <3>5, <4>5, <4>7, <4>9, <4>10 DEF Linked
    <3> QED
      BY <3>11, <3>12
  <2> QED
    BY <2>2, <2>3
<1> QED
  BY <1>5, <1>6, <1>7, <1>8 DEF LoadSteps

-----------------------------------------------------------------------------
(* What a step does to what is seen: nothing, or one of these.             *)

Moves ==
  \/ Blank \/ Leaves
  \/ \E k \in Runs : Starts(k) \/ Begins(k)
  \/ \E n \in Loads : ShowsOld(n) \/ ShowsRun(n)
  \/ \E c \in Conns : Deliver(c)

\* What has been torn stays so.
LEMMA TornStep == [Next]_vars => (torn => torn')
<1> SUFFICES ASSUME [Next]_vars, torn PROVE torn'
  OBVIOUS
<1>1. CASE \E c \in Conns : ConnSteps(c) \/ Reject(c) \/ Break(c)
  BY <1>1 DEF ConnSteps, Open, Refreshed, Close, Deliver, Reject, Break
<1>2. CASE \E k \in Runs : SendSteps(k) \/ Send(k)
  BY <1>2 DEF SendSteps, Accept, Submitted, SubmitFails, Send
<1>3. CASE \E n \in Loads : LoadSteps(n) \/ \E s \in Runs : Load(n, s)
  BY <1>3 DEF LoadSteps, LoadGet, LoadRead, LoadShow, LoadFails, Load
<1>4. CASE (\E k \in checks : Checked(k)) \/ (\E k \in timers : Fire(k))
  BY <1>4 DEF Checked, Fire
<1>5. CASE Clear \/ Stop \/ Offline \/ Wake \/ \E r \in Runs : Emit(r) \/ Finish(r)
  BY <1>5 DEF Clear, Stop, Offline, Wake, Emit, Finish
<1>6. CASE UNCHANGED vars
  BY <1>6 DEF vars
<1> QED
  BY <1>1, <1>2, <1>3, <1>4, <1>5, <1>6 DEF Next, User

\* Stops are only counted.
LEMMA StopsStep ==
  ASSUME Types, [Next]_vars
  PROVE  spent.stops \in Nat /\ spent'.stops >= spent.stops
<1>1. spent \in Spending /\ spent.stops \in Nat
  BY DEF Types, Spending
<1>2. ASSUME NEW what \in {"loads", "clears", "stops", "wakes", "drops", "rejects"}, NEW bound,
             Spend(what, bound)
      PROVE  spent'.stops >= spent.stops
  <2>1. spent' = [spent EXCEPT ![what] = spent[what] + 1]
    BY <1>2 DEF Spend
  <2>2. CASE what = "stops"
    <3>1. spent' = [spent EXCEPT !.stops = spent.stops + 1]
      BY <2>1, <2>2
    <3>2. spent'.stops = spent.stops + 1
      BY <1>1, <3>1 DEF Spending
    <3> QED
      BY <1>1, <3>2
  <2>3. CASE what # "stops"
    BY <1>1, <2>1, <2>3 DEF Spending
  <2> QED
    BY <2>2, <2>3
<1>3. CASE spent' = spent
  BY <1>1, <1>3
<1>4. ASSUME NEW c \in Conns, ConnSteps(c) \/ Reject(c) \/ Break(c) PROVE spent'.stops >= spent.stops
  <2>1. CASE Reject(c)
    BY <1>2, <2>1 DEF Reject
  <2>2. CASE Break(c)
    BY <1>2, <2>2 DEF Break
  <2> QED
    BY <1>3, <1>4, <2>1, <2>2 DEF ConnSteps, Open, Refreshed, Close, Deliver
<1>5. ASSUME NEW k \in Runs, SendSteps(k) \/ Send(k) PROVE spent'.stops >= spent.stops
  <2>1. CASE SubmitFails(k)
    BY <1>2, <2>1 DEF SubmitFails
  <2> QED
    BY <1>3, <1>5, <2>1 DEF SendSteps, Accept, Submitted, Send
<1>6. ASSUME NEW n \in Loads, LoadSteps(n) \/ \E s \in Runs : Load(n, s)
      PROVE  spent'.stops >= spent.stops
  <2>1. CASE LoadFails(n)
    BY <1>2, <2>1 DEF LoadFails
  <2>2. CASE \E s \in Runs : Load(n, s)
    BY <1>2, <2>2 DEF Load
  <2> QED
    BY <1>3, <1>6, <2>1, <2>2 DEF LoadSteps, LoadGet, LoadRead, LoadShow
<1>7. ASSUME NEW k \in checks, Checked(k) PROVE spent'.stops >= spent.stops
  <2>1. CASE spent' = [spent EXCEPT !["drops"] = spent["drops"] + 1]
    BY <1>1, <2>1 DEF Spending
  <2> QED
    BY <1>3, <1>7, <2>1 DEF Checked, Spend
<1>14. ASSUME NEW k \in timers, Fire(k) PROVE spent'.stops >= spent.stops
  BY <1>3, <1>14 DEF Fire
<1>8. CASE Clear
  BY <1>1, <1>2, <1>8 DEF Clear
<1>9. CASE Stop
  BY <1>1, <1>2, <1>9 DEF Stop
<1>10. CASE Wake
  BY <1>1, <1>2, <1>10 DEF Wake
<1>11. CASE Offline \/ \E r \in Runs : Emit(r) \/ Finish(r)
  BY <1>3, <1>11 DEF Offline, Emit, Finish
<1>12. CASE UNCHANGED vars
  BY <1>3, <1>12 DEF vars
<1>13. spent'.stops >= spent.stops
  BY <1>4, <1>5, <1>6, <1>7, <1>8, <1>9, <1>10, <1>11, <1>12, <1>14 DEF Next, User
<1> QED
  BY <1>1, <1>13

\* A step that does nothing.
LEMMA StutterEffect ==
  ASSUME Types, Types', Linked, UNCHANGED vars
  PROVE  Rests /\ Linked'
<1>1. /\ UNCHANGED <<ui, messages, send, load, conn, checks, timers, spent, missed>>
  BY DEF vars
<1>2. SameTexts /\ EndedRightly
  BY <1>1, SameMessages
<1>3. KeptStreams /\ (Streamed' <=> Streamed)
  BY <1>1, SameConns
<1>4. SameRefs
  BY <1>1 DEF SameRefs
<1>5. ReadsOn /\ (Reads' => Reads) /\ (Waiting' <=> Waiting) /\ \A k \in Runs : Waits(k)' => Waits(k)
  BY <1>1 DEF ReadsOn, Reads, Pending, Stale, Waiting, Waits
<1>6. Linked'
  BY <1>1, <1>2, <1>3, <1>4, <1>5, StillLinked
<1> QED
  BY <1>1, <1>2, <1>3, <1>4, <1>5, <1>6 DEF Rests

LEMMA StepEffect ==
  ASSUME Types, Types', Targeted, IInv, SInv, Linked, ~torn, ~torn', [Next]_vars
  PROVE  Linked' /\ (Rests \/ (Moves /\ UNCHANGED <<feed, home>>))
<1>1. CASE (\E r \in Runs : Emit(r) \/ Finish(r)) \/ Stop \/ Offline
  BY <1>1, ServerEffect
<1>2. ASSUME NEW c \in Conns, ConnSteps(c) \/ Reject(c) \/ Break(c)
      PROVE  Linked' /\ (Rests \/ (Moves /\ UNCHANGED <<feed, home>>))
  <2>1. CASE Open(c) \/ Reject(c) \/ Break(c)
    BY <2>1, OpenEffect
  <2>2. CASE Refreshed(c)
    BY <2>2, RefreshedEffect
  <2>3. CASE Close(c)
    BY <2>3, CloseEffect
  <2>4. CASE Deliver(c)
    <3>1. UNCHANGED <<feed, home>> /\ Moves
      BY <2>4 DEF Deliver, server, Moves
    <3> QED
      BY <2>4, <3>1, DeliverLinked
  <2> QED
    BY <1>2, <2>1, <2>2, <2>3, <2>4 DEF ConnSteps
<1>3. ASSUME NEW k \in Runs, SendSteps(k) \/ Send(k)
      PROVE  Linked' /\ (Rests \/ (Moves /\ UNCHANGED <<feed, home>>))
  <2>1. CASE Send(k)
    <3>1. UNCHANGED <<feed, home>>
      BY <2>1 DEF Send, server
    <3> QED
      BY <2>1, <3>1, SendClass DEF Moves
  <2>2. CASE Accept(k) \/ SubmitFails(k)
    BY <2>2, AcceptEffect
  <2>3. CASE Submitted(k)
    <3>1. UNCHANGED <<feed, home>>
      BY <2>3 DEF Submitted, server
    <3> QED
      BY <2>3, <3>1, SubmittedEffect DEF Moves
  <2> QED
    BY <1>3, <2>1, <2>2, <2>3 DEF SendSteps
<1>4. ASSUME NEW n \in Loads, LoadSteps(n)
      PROVE  Linked' /\ (Rests \/ (Moves /\ UNCHANGED <<feed, home>>))
  <2>1. UNCHANGED <<feed, home>>
    BY <1>4 DEF LoadSteps, LoadGet, LoadRead, LoadShow, LoadFails, server
  <2> QED
    BY <1>4, <2>1, LoadEffect DEF Moves
<1>5. ASSUME NEW k \in checks, Checked(k)
      PROVE  Linked' /\ (Rests \/ (Moves /\ UNCHANGED <<feed, home>>))
  <2>1. UNCHANGED <<feed, home>>
    BY <1>5 DEF Checked, server
  <2> QED
    BY <1>5, <2>1, CheckedEffect DEF Moves
<1>6. CASE \E k \in timers : Fire(k)
  BY <1>6, FireEffect
<1>7. CASE Clear \/ \E n \in Loads, s \in Runs : Load(n, s)
  <2>1. UNCHANGED <<feed, home>>
    BY <1>7 DEF Clear, Load, server
  <2> QED
    BY <1>7, <2>1, BlankEffect DEF Moves
<1>8. CASE Wake
  BY <1>8, WakeEffect
<1>9. CASE UNCHANGED vars
  BY <1>9, StutterEffect
<1> QED
  BY <1>1, <1>2, <1>3, <1>4, <1>5, <1>6, <1>7, <1>8, <1>9 DEF Next, User

\* The refs, the streams and what is due fit together as long as nothing is torn.
LEMMA LinksHold == Spec => []LInv
<1>1. Init => LInv
  <2> SUFFICES ASSUME Init PROVE Linked
    BY DEF LInv
  <2>1. \A c \in Conns : conn[c].st = "none"
    BY DEF Init, Idle
  <2>2. ~Streamed /\ checks = {} /\ timers = {} /\ ui.streaming = None /\ messages = <<>>
        /\ ~ui.connecting /\ ui.processed = {} /\ ui.last = 0
    BY <2>1 DEF Init, Streamed
  <2> QED
    BY <2>1, <2>2 DEF Linked, Wired, Planned, OneWay, BlankPage, Unseen
<1>2. TInv /\ TInv' /\ IInv /\ SInv /\ LInv /\ [Next]_vars => LInv'
  BY StepEffect, TornStep DEF TInv, LInv
<1> QED
  BY <1>1, <1>2, TypesHold, InvariantHolds, OrderHolds, PTL DEF Spec

-----------------------------------------------------------------------------
(* Loads read complete runs, and know the newest.                          *)

\* Which step changes a load, or the session of a run.
LEMMA LoadChange ==
  ASSUME Types, [Next]_vars, NEW n \in Loads
  PROVE  load'[n] = load[n] \/ LoadSteps(n) \/ \E s \in Runs : Load(n, s)
<1>1. CASE load' = load
  BY <1>1
<1>2. CASE \E r \in Runs : Emit(r) \/ Finish(r)
  BY <1>2 DEF Emit, Finish
<1>3. CASE \E c \in Conns : ConnSteps(c) \/ Reject(c) \/ Break(c)
  BY <1>3 DEF ConnSteps, Open, Refreshed, Close, Deliver, Reject, Break
<1>4. CASE \E k \in Runs : SendSteps(k) \/ Send(k)
  BY <1>4 DEF SendSteps, Accept, Submitted, SubmitFails, Send
<1>5. ASSUME NEW m \in Loads, LoadSteps(m) \/ \E s \in Runs : Load(m, s)
      PROVE  load'[n] = load[n] \/ LoadSteps(n) \/ \E s \in Runs : Load(n, s)
  <2>1. CASE m = n
    BY <1>5, <2>1
  <2>2. CASE m # n
    BY <1>5, <2>2 DEF LoadSteps, LoadGet, LoadRead, LoadShow, LoadFails, Load, Types
  <2> QED
    BY <2>1, <2>2
<1>6. CASE (\E k \in checks : Checked(k)) \/ (\E k \in timers : Fire(k))
  BY <1>6 DEF Checked, Fire
<1>7. CASE Clear \/ Stop \/ Offline \/ Wake
  BY <1>7 DEF Clear, Stop, Offline, Wake
<1>8. CASE UNCHANGED vars
  BY <1>8 DEF vars
<1> QED
  BY <1>1, <1>2, <1>3, <1>4, <1>5, <1>6, <1>7, <1>8 DEF Next, User

LEMMA HomeChange == [Next]_vars => home' = home \/ \E k \in Runs : Accept(k)
<1> SUFFICES ASSUME [Next]_vars PROVE home' = home \/ \E k \in Runs : Accept(k)
  OBVIOUS
<1>1. CASE \E r \in Runs : Emit(r) \/ Finish(r)
  BY <1>1 DEF Emit, Finish
<1>2. CASE \E c \in Conns : ConnSteps(c) \/ Reject(c) \/ Break(c)
  BY <1>2 DEF ConnSteps, Open, Refreshed, Close, Deliver, Reject, Break, server
<1>3. CASE \E k \in Runs : SendSteps(k) \/ Send(k)
  BY <1>3 DEF SendSteps, Submitted, SubmitFails, Send, server
<1>4. CASE \E n \in Loads : LoadSteps(n) \/ \E s \in Runs : Load(n, s)
  BY <1>4 DEF LoadSteps, LoadGet, LoadRead, LoadShow, LoadFails, Load, server
<1>5. CASE (\E k \in checks : Checked(k)) \/ (\E k \in timers : Fire(k))
  BY <1>5 DEF Checked, Fire, server
<1>6. CASE Clear \/ Stop \/ Offline \/ Wake
  BY <1>6 DEF Clear, Stop, Offline, Wake, server
<1>7. CASE UNCHANGED vars
  BY <1>7 DEF vars, server
<1> QED
  BY <1>1, <1>2, <1>3, <1>4, <1>5, <1>6, <1>7 DEF Next, User

\* A run's phase changes when it is accepted and when all its events are there.
LEMMA PhaseChange ==
  ASSUME Types, [Next]_vars, NEW r \in Runs
  PROVE  \/ phase'[r] = phase[r] \/ phase'[r] = "running"
         \/ Finish(r) /\ (phase[r] = "traced" \/ Count(r) = Events)
<1>1. CASE \E q \in Runs : Emit(q)
  BY <1>1 DEF Emit
<1>2. CASE \E q \in Runs : Finish(q)
  BY <1>2 DEF Finish, Types
<1>3. CASE \E c \in Conns : ConnSteps(c) \/ Reject(c) \/ Break(c)
  BY <1>3 DEF ConnSteps, Open, Refreshed, Close, Deliver, Reject, Break, server
<1>4. CASE \E k \in Runs : SendSteps(k) \/ Send(k)
  BY <1>4 DEF SendSteps, Accept, Submitted, SubmitFails, Send, server, Types
<1>5. CASE \E n \in Loads : LoadSteps(n) \/ \E s \in Runs : Load(n, s)
  BY <1>5 DEF LoadSteps, LoadGet, LoadRead, LoadShow, LoadFails, Load, server
<1>6. CASE (\E k \in checks : Checked(k)) \/ (\E k \in timers : Fire(k))
  BY <1>6 DEF Checked, Fire, server
<1>7. CASE Clear \/ Stop \/ Offline \/ Wake
  BY <1>7 DEF Clear, Stop, Offline, Wake, server
<1>8. CASE UNCHANGED vars
  BY <1>8 DEF vars, server
<1> QED
  BY <1>1, <1>2, <1>3, <1>4, <1>5, <1>6, <1>7, <1>8 DEF Next, User

\* Traces are complete when they say so, and so is what a load has read.
Done == \A r \in Runs : phase[r] \in {"traced", "completed"} => Count(r) = Events
WhatRead == \A n \in Loads : Pending(n) => Complete(load[n].events)
DInv == Done /\ WhatRead

LEMMA DoneStep ==
  ASSUME Types, Fed, DInv, [Next]_vars
  PROVE  DInv'
<1>1. ASSUME NEW r \in Runs, Count(r) = Events PROVE Count(r)' = Events
  <2>1. CASE feed' = feed
    BY <1>1, <2>1 DEF Count
  <2>2. ASSUME NEW q \in Runs, Emit(q) PROVE Count(r)' = Events
    <3>1. Count(q) < Events /\ Events \in Nat
      BY <2>2, Names DEF Emit
    <3>2. q # r
      BY <1>1, <3>1
    <3> QED
      BY <1>1, <2>2, <3>2, Emitted DEF Types
  <2> QED
    BY <2>1, <2>2, FeedKept
<1>2. Done'
  <2> SUFFICES ASSUME NEW r \in Runs, phase'[r] \in {"traced", "completed"} PROVE Count(r)' = Events
    BY DEF Done
  <2>1. phase[r] \in {"traced", "completed"} \/ Count(r) = Events
    BY PhaseChange
  <2> QED
    BY <1>1, <2>1 DEF DInv, Done
<1>4. ASSUME NEW n \in Loads, Pending(n)' PROVE \A r \in load'[n].events : Count(r)' = Events
  <2>0. load[n] \in Loaded /\ load[n].events \subseteq Runs
    BY DEF Types, Loaded
  <2>1. CASE load'[n] = load[n]
    <3>1. Pending(n) /\ load'[n].events = load[n].events
      BY <1>4, <2>1 DEF Pending
    <3>2. Complete(load[n].events)
      BY <3>1 DEF DInv, WhatRead
    <3> QED
      BY <1>1, <2>0, <3>1, <3>2 DEF Complete
  <2>2. ASSUME NEW s \in Runs, Load(n, s) PROVE \A r \in load'[n].events : Count(r)' = Events
    <3>1. load'[n].events = {}
      BY <2>2 DEF Load, Types, NoLoad
    <3> QED
      BY <3>1 DEF Complete
  <2>3. CASE LoadGet(n)
    <3>1. Pending(n) /\ load'[n].events = load[n].events
      BY <2>0, <2>3 DEF LoadGet, Pending, Types, Loaded
    <3> QED
      BY <1>1, <2>0, <3>1 DEF DInv, WhatRead, Complete
  <2>4. CASE LoadShow(n) \/ LoadFails(n)
    <3>1. load'[n].st = "over"
      BY <2>0, <2>4 DEF LoadShow, LoadFails, Types, Loaded
    <3> QED
      BY <1>4, <3>1 DEF Pending
  <2>5. ASSUME NEW what \in {"events", "status"}, LoadRead(n, what) PROVE \A r \in load'[n].events : Count(r)' = Events
    <3>1. /\ Pending(n) /\ feed' = feed
          /\ load'[n].events = IF what = "events"
                               THEN {r \in RunsOf(load[n].target) : phase[r] \in {"traced", "completed"}}
                               ELSE load[n].events
      BY <2>0, <2>5 DEF LoadRead, Pending, Types, Loaded, server
    <3>2. Complete(load'[n].events)
      BY <3>1 DEF DInv, Done, WhatRead, Complete, RunsOf
    <3>3. load'[n].events \subseteq Runs
      BY <2>0, <3>1 DEF RunsOf
    <3> QED
      BY <1>1, <3>2, <3>3 DEF Complete
  <2> QED
    BY <2>1, <2>2, <2>3, <2>4, <2>5, LoadChange DEF LoadSteps
<1> QED
  BY <1>2, <1>4 DEF DInv, WhatRead, Complete

\* No run of the session it reads is newer than the one a load goes on with.
ReadTo ==
  \A n \in Loads : load[n].st = "fetch" /\ ~Stale(n) =>
    \A q \in RunsOf(load[n].target) : q <= load[n].run
RInv == ~torn => ReadTo

\* The latest run of a session.
LEMMA CurrentRunLast ==
  ASSUME NEW s
  PROVE  \A q \in RunsOf(s) : q <= CurrentRun(s)
<1>1. CASE RunsOf(s) = {}
  BY <1>1
<1>2. CASE RunsOf(s) # {}
  <2>1. RunsOf(s) \subseteq 0 .. MaxSends /\ MaxSends \in Nat
    BY Names, StreamAssumption DEF RunsOf
  <2>2. \E r \in RunsOf(s) : \A q \in RunsOf(s) : q <= r
    BY <1>2, <2>1, GreatestNat
  <2> QED
    BY <2>2 DEF CurrentRun
<1> QED
  BY <1>1, <1>2

\* Before a load shows what it has read, nothing is there.
LEMMA StillReads ==
  ASSUME Types, Types', Linked', Rests \/ Moves, NEW n \in Loads, (Pending(n) /\ ~Stale(n))',
         load'[n].st # "get"
  PROVE  Rests /\ Pending(n) /\ ~Stale(n)
<1>1. Reads'
  BY DEF Reads
<1>2. ~Streamed' /\ messages' = <<>>
  BY <1>1 DEF Linked, BlankPage
<1>3. ~Blank /\ ~Leaves
  BY <1>1 DEF Blank, Leaves
<1>4. ASSUME NEW k \in Runs, Starts(k) PROVE FALSE
  <2>1. messages' = messages \o <<UserMessage(k), Assistant(<<"tmp", k>>, 0, TRUE)>>
    BY <1>4 DEF Starts
  <2>2. Len(messages') = Len(messages) + 2 /\ Len(messages) \in Nat
    BY <2>1 DEF Types
  <2> QED
    BY <1>2, <2>2
<1>5. ASSUME NEW k \in Runs, Begins(k) PROVE FALSE
  BY <1>2, <1>5 DEF Begins, Opens, Streamed
<1>6. ASSUME NEW m \in Loads, ShowsOld(m) \/ ShowsRun(m) PROVE FALSE
  BY <1>1, <1>6 DEF ShowsOld, ShowsRun, Arrives
<1>7. ASSUME NEW c \in Conns, Deliver(c) PROVE FALSE
  <2>1. conn'[c].st = "live"
    BY <1>7 DEF Deliver, Types, Opened
  <2> QED
    BY <1>2, <2>1 DEF Streamed
<1>8. Rests
  BY <1>3, <1>4, <1>5, <1>6, <1>7 DEF Moves
<1> QED
  BY <1>8 DEF Rests, ReadsOn

LEMMA ReadToStep ==
  ASSUME Types, Types', Targeted, SInv, Linked', ~torn, Rests \/ Moves, ReadTo, [Next]_vars
  PROVE  ReadTo'
<1> SUFFICES ASSUME NEW n \in Loads, load'[n].st = "fetch", ~Stale(n)',
                    NEW q \in Runs, home'[q] = load'[n].target
             PROVE  q <= load'[n].run
  BY DEF ReadTo, RunsOf
<1>1. Pending(n) /\ ~Stale(n)
  BY StillReads DEF Pending
<1>2. home' = home
  <2>1. ASSUME NEW k \in Runs, Accept(k) PROVE FALSE
    <3>1. Waits(k)
      BY <2>1 DEF Accept, Waits
    <3> QED
      BY <1>1, <3>1 DEF SInv, InOrder, Alone
  <2> QED
    BY <2>1, HomeChange
<1>3. load[n] \in Loaded
  BY DEF Types
<1>4. CASE load'[n] = load[n]
  BY <1>1, <1>2, <1>4 DEF ReadTo, RunsOf
<1>5. CASE \E s \in Runs : Load(n, s)
  <2>1. load'[n].st = "get"
    BY <1>5 DEF Load, NoLoad, Types
  <2> QED
    BY <2>1
<1>6. CASE LoadGet(n)
  <2>1. load' = [load EXCEPT ![n] = [load[n] EXCEPT !.st = "fetch", !.run = CurrentRun(load[n].target)]]
    BY <1>1, <1>6 DEF LoadGet, Types
  <2>2. load'[n].run = CurrentRun(load[n].target) /\ load'[n].target = load[n].target
    BY <1>3, <2>1 DEF Types, Loaded
  <2>3. q \in RunsOf(load[n].target)
    BY <1>2, <2>2 DEF RunsOf
  <2> QED
    BY <2>2, <2>3, CurrentRunLast
<1>7. CASE LoadShow(n) \/ LoadFails(n)
  <2>1. load'[n].st = "over"
    BY <1>3, <1>7 DEF LoadShow, LoadFails, Types, Loaded
  <2> QED
    BY <2>1
<1>8. CASE \E what \in {"events", "status"} : LoadRead(n, what)
  <2>1. ASSUME NEW what \in {"events", "status"}, LoadRead(n, what)
        PROVE  load[n].st = "fetch" /\ load'[n].run = load[n].run /\ load'[n].target = load[n].target
    BY <1>3, <2>1 DEF LoadRead, Types, Loaded
  <2> QED
    BY <1>1, <1>2, <1>8, <2>1 DEF ReadTo, RunsOf
<1> QED
  BY <1>4, <1>5, <1>6, <1>7, <1>8, LoadChange DEF LoadSteps

-----------------------------------------------------------------------------
(* What the view has seen of the feed.                                     *)

\* The newest event seen is in the feed, and so are those processed.
Seen ==
  /\ ui.last <= Len(feed)
  /\ \A e \in ui.processed : \E i \in DOMAIN feed : feed[i] = e

\* A run whose last event the view has seen, and with it a later one of another
\* run of the session: what is still missing of it is taken for old.
Masked(r) ==
  /\ ui.last # 0 /\ feed[ui.last][1] # r /\ home[feed[ui.last][1]] = home[r]
  /\ \E i \in DOMAIN feed : i < ui.last /\ feed[i][1] = r

\* The chunks of a run that the view has seen are the first n - 1.
SeenUpto(r, n) == \A k \in 2 .. (Events - 1) : k <= Count(r) => (Known(<<r, k>>) <=> k <= n)

\* An event is in one place.
LEMMA PlaceIs ==
  ASSUME NEW f \in Seq(Feed),
         \A i, j \in DOMAIN f : i < j /\ f[i][1] = f[j][1] => f[i][2] < f[j][2],
         NEW e, NEW i \in DOMAIN f, f[i] = e
  PROVE  (CHOOSE j \in DOMAIN f : f[j] = e) = i
<1> DEFINE j == CHOOSE j \in DOMAIN f : f[j] = e
<1>1. j \in DOMAIN f /\ f[j] = e
  OBVIOUS
<1> HIDE DEF j
<1>2. DOMAIN f \subseteq Nat /\ e \in Feed
  OBVIOUS
<1>3. e[2] \in Nat
  BY <1>2 DEF Feed
<1>4. ~(i < j) /\ ~(j < i)
  BY <1>1, <1>3
<1>5. i = j
  BY <1>1, <1>2, <1>4
<1> QED
  BY <1>5 DEF j

LEMMA KnownIs ==
  ASSUME Types, Ordered, NEW e, NEW i \in DOMAIN feed, feed[i] = e
  PROVE  At(e) = i /\ (Known(e) <=> e \in ui.processed \/ i < ui.last)
<1>1. At(e) = i
  BY PlaceIs DEF At, Types, Ordered
<1> QED
  BY <1>1 DEF Known

LEMMA KnownIsNext ==
  ASSUME Types', Ordered', NEW e, NEW i \in DOMAIN feed', feed'[i] = e
  PROVE  Known(e)' <=> e \in ui'.processed \/ i < ui'.last
<1>1. At(e)' = i
  BY PlaceIs DEF At, Types, Ordered
<1> QED
  BY <1>1 DEF Known

\* The feed only grows.
LEMMA FeedGrows ==
  ASSUME Types, [Next]_vars
  PROVE  /\ Len(feed) \in Nat /\ DOMAIN feed = 1 .. Len(feed)
         /\ Len(feed') \in Nat /\ DOMAIN feed' = 1 .. Len(feed') /\ Len(feed) <= Len(feed')
         /\ \A i \in DOMAIN feed : i \in DOMAIN feed' /\ feed'[i] = feed[i]
         /\ \A r \in Runs : Count(r) \in Nat /\ Count(r)' \in Nat /\ Count(r) <= Count(r)'
         /\ \A r \in Runs : Count(r)' = Count(r) \/ Count(r)' = Count(r) + 1
<1>1. feed \in Seq(Feed) /\ Len(feed) \in Nat /\ DOMAIN feed = 1 .. Len(feed)
  BY DEF Types
<1>2. \A r \in Runs : Count(r) \in Nat
  BY <1>1, CountTyped
<1>3. CASE feed' = feed
  <2>1. \A r \in Runs : Count(r)' = Count(r)
    BY <1>3 DEF Count
  <2> QED
    BY <1>1, <1>2, <1>3, <2>1
<1>4. ASSUME NEW q \in Runs, Emit(q)
      PROVE  /\ Len(feed') \in Nat /\ DOMAIN feed' = 1 .. Len(feed') /\ Len(feed) <= Len(feed')
             /\ \A i \in DOMAIN feed : i \in DOMAIN feed' /\ feed'[i] = feed[i]
             /\ \A r \in Runs : Count(r)' \in Nat /\ Count(r) <= Count(r)'
             /\ \A r \in Runs : Count(r)' = Count(r) \/ Count(r)' = Count(r) + 1
  <2>1. /\ DOMAIN feed' = 1 .. (Len(feed) + 1) /\ \A i \in DOMAIN feed : feed'[i] = feed[i]
        /\ feed' \in Seq(Feed) /\ \A r \in Runs : Count(r)' = IF r = q THEN Count(r) + 1 ELSE Count(r)
    BY <1>1, <1>4, Emitted
  <2>2. Len(feed') = Len(feed) + 1
    BY <1>1, <1>4 DEF Emit
  <2>3. \A r \in Runs : Count(r)' = Count(r) \/ Count(r)' = Count(r) + 1
    BY <2>1
  <2>4. \A r \in Runs : Count(r)' \in Nat /\ Count(r) <= Count(r)'
    BY <1>2, <2>3
  <2> QED
    BY <1>1, <2>1, <2>2, <2>3, <2>4
<1> QED
  BY <1>1, <1>2, <1>3, <1>4, FeedKept

\* What the refs say of old events does not change; a new event is not known.
LEMMA KnownKept ==
  ASSUME Types, Types', Fed, Fed', Told, Ordered, Ordered', Seen, [Next]_vars,
         ui'.processed = ui.processed, ui'.last = ui.last, NEW r \in Runs, NEW n \in Nat \ {0}
  PROVE  /\ n <= Count(r) => (Known(<<r, n>>)' <=> Known(<<r, n>>))
         /\ n > Count(r) /\ n <= Count(r)' => ~Known(<<r, n>>)'
<1>1. /\ Len(feed) \in Nat /\ DOMAIN feed = 1 .. Len(feed) /\ DOMAIN feed' \subseteq Nat
      /\ \A i \in DOMAIN feed : i \in DOMAIN feed' /\ feed'[i] = feed[i]
      /\ Count(r) \in Nat /\ Count(r)' \in Nat
  BY FeedGrows
<1>2. ASSUME n <= Count(r) PROVE Known(<<r, n>>)' <=> Known(<<r, n>>)
  <2>0. n \in 1 .. Count(r) /\ FedOf(r)
    BY <1>1, <1>2 DEF Fed
  <2>1. PICK i \in DOMAIN feed : feed[i] = <<r, n>>
    BY <2>0 DEF FedOf
  <2>2. Known(<<r, n>>) <=> <<r, n>> \in ui.processed \/ i < ui.last
    BY <2>1, KnownIs
  <2>3. Known(<<r, n>>)' <=> <<r, n>> \in ui'.processed \/ i < ui'.last
    BY <1>1, <2>1, KnownIsNext
  <2> QED
    BY <2>2, <2>3
<1>3. ASSUME n > Count(r), n <= Count(r)' PROVE ~Known(<<r, n>>)'
  <2>1. PICK i \in DOMAIN feed' : feed'[i] = <<r, n>>
    BY <1>1, <1>3 DEF Fed, FedOf
  <2>2. Known(<<r, n>>)' <=> <<r, n>> \in ui'.processed \/ i < ui'.last
    BY <2>1, KnownIsNext
  <2>3. \A j \in DOMAIN feed : feed[j] # <<r, n>>
    <3> SUFFICES ASSUME NEW j \in DOMAIN feed, feed[j] = <<r, n>> PROVE FALSE
      OBVIOUS
    <3>1. n <= Count(r)
      BY DEF Told
    <3> QED
      BY <1>1, <1>3, <3>1
  <2>4. i \notin DOMAIN feed /\ i \in Nat
    BY <1>1, <2>1, <2>3
  <2>5. i > Len(feed)
    <3>1. i # 0
      BY <2>1 DEF Types
    <3> QED
      BY <1>1, <2>4, <3>1
  <2>6. ~(i < ui'.last)
    <3>1. ui.last \in Nat
      BY DEF Types, Uis
    <3> QED
      BY <1>1, <2>4, <2>5, <3>1 DEF Seen
  <2>7. <<r, n>> \notin ui'.processed
    BY <2>3 DEF Seen
  <2> QED
    BY <2>2, <2>6, <2>7
<1> QED
  BY <1>2, <1>3

\* Runs that are masked stay so; nothing more comes of them, unless runs overlap.
LEMMA MaskedKept ==
  ASSUME Types, Homed, Told, Seen, [Next]_vars, ui'.last = ui.last, NEW r \in Runs, Masked(r)
  PROVE  Masked(r)'
<1>1. /\ DOMAIN feed = 1 .. Len(feed) /\ Len(feed) \in Nat
      /\ \A i \in DOMAIN feed : i \in DOMAIN feed' /\ feed'[i] = feed[i]
  BY FeedGrows
<1>2. ui.last \in DOMAIN feed
  BY <1>1 DEF Masked, Seen, Types, Uis
<1>3. PICK i \in DOMAIN feed : i < ui.last /\ feed[i][1] = r
  BY DEF Masked
<1>4. feed[ui.last][1] \in Runs /\ home[feed[ui.last][1]] # 0 /\ home[r] # 0
  <2>1. feed[ui.last] \in Feed
    BY <1>2 DEF Types
  <2> QED
    BY <1>2, <1>3, <2>1 DEF Told, Feed
<1>5. home'[feed[ui.last][1]] = home[feed[ui.last][1]] /\ home'[r] = home[r]
  BY <1>4, HomedStep
<1>6. feed'[ui'.last] = feed[ui.last] /\ i \in DOMAIN feed' /\ feed'[i] = feed[i]
  BY <1>1, <1>2
<1> QED
  BY <1>3, <1>5, <1>6 DEF Masked

LEMMA MaskedKnown ==
  ASSUME Types, Fed, Ordered, Seen, ~Overlap, NEW r \in Runs, Masked(r), NEW n \in 1 .. Count(r)
  PROVE  Known(<<r, n>>)
<1>1. PICK i \in DOMAIN feed : feed[i] = <<r, n>>
  BY DEF Fed, FedOf
<1>2. PICK j \in DOMAIN feed : j < ui.last /\ feed[j][1] = r
  BY DEF Masked
<1>3. Len(feed) \in Nat /\ DOMAIN feed = 1 .. Len(feed) /\ ui.last \in DOMAIN feed
  BY DEF Masked, Seen, Types, Uis
<1>4. feed[ui.last][1] # r /\ home[feed[ui.last][1]] = home[r]
  BY DEF Masked
<1>5. ~(ui.last < i)
  <2> SUFFICES ASSUME ui.last < i PROVE Overlap
    OBVIOUS
  <2>1. feed[i][1] = r
    BY <1>1
  <2> QED
    BY <1>1, <1>2, <1>3, <1>4, <2>1 DEF Overlap
<1>6. i # ui.last
  BY <1>1, <1>4
<1>7. i < ui.last
  BY <1>1, <1>3, <1>5, <1>6
<1> QED
  BY <1>1, <1>7, KnownIs

-----------------------------------------------------------------------------
(* What is shown is what was seen.                                         *)

\* An answer that is shown; the one that grows, of run r.
Shown(m) == m.role = "assistant" /\ \E i \in DOMAIN messages : messages[i] = m
Grows(m, r) == Shown(m) /\ m.id = ui.streaming /\ ui.streaming # None /\ r = ui.run

\* An answer is a beginning of its run's text, as far as there are events.
Part(m) ==
  /\ Len(m.got) <= Events - 2 /\ \A x \in 1 .. Len(m.got) : m.got[x] = <<m.run, x + 1>>
  /\ m.got # <<>> => m.run \in Runs /\ Len(m.got) + 1 <= Count(m.run)
Parts == \A m \in Message : Shown(m) => Part(m)

\* The answer that grows is that of the run shown, and what the view has seen
\* of the run is what the answer shows, unless the run is masked.
Grown ==
  ~Waiting => \A m \in Message, r \in Runs : Grows(m, r) =>
    m.run = r /\ (Masked(r) \/ SeenUpto(r, Len(m.got) + 1))

\* What a stream has delivered was seen.
Serves(c, r) == conn[c].st # "none" /\ conn[c].run = r
Replayed ==
  \A c \in Conns, r \in Runs : Serves(c, r) =>
    /\ conn[c].pos <= Count(r)
    /\ \A n \in 2 .. (Events - 1) : n <= conn[c].pos => Known(<<r, n>>)

\* Until its send is answered, nothing comes of a run.
Unnamed ==
  \A k \in Runs :
    /\ ui.streaming # <<"tmp", k>>
    /\ \A m \in Message : Shown(m) =>
         /\ m.id = <<"tmp", k>> => m.got = <<>> /\ m.run = 0
         /\ Waits(k) => m.id # <<"run", k>>

Faithful == Seen /\ Parts /\ Grown /\ Replayed /\ Unnamed
PInv == ~torn /\ ~Overlap => Faithful

\* More events, and nothing else.
LEMMA PartKept ==
  ASSUME Types, [Next]_vars, NEW m \in Message, Part(m)
  PROVE  Part(m)'
<1>1. m.got # <<>> => Count(m.run) \in Nat /\ Count(m.run)' \in Nat /\ Count(m.run) <= Count(m.run)'
  BY FeedGrows DEF Part
<1>2. Len(m.got) \in Nat
  BY DEF Message
<1>3. m.got # <<>> => Len(m.got) + 1 <= Count(m.run)'
  BY <1>1, <1>2 DEF Part
<1> QED
  BY <1>3 DEF Part

\* A message that shows the same.
LEMMA SamePart ==
  ASSUME NEW m, NEW w, w.got = m.got, w.run = m.run, Part(m)
  PROVE  Part(w)
BY DEF Part

LEMMA SeenKept ==
  ASSUME Types, Types', Seen, [Next]_vars, ui'.processed = ui.processed, ui'.last = ui.last
  PROVE  Seen'
<1>1. /\ Len(feed) \in Nat /\ Len(feed') \in Nat /\ Len(feed) <= Len(feed') /\ ui.last \in Nat
      /\ \A i \in DOMAIN feed : i \in DOMAIN feed' /\ feed'[i] = feed[i]
  BY FeedGrows DEF Types, Uis
<1>2. ui'.last <= Len(feed')
  BY <1>1 DEF Seen
<1> QED
  BY <1>1, <1>2 DEF Seen

\* What streams have delivered stays seen.
LEMMA ReplayedKept ==
  ASSUME Types, Types', Fed, Fed', Told, Ordered, Ordered', Seen, [Next]_vars,
         ui'.processed = ui.processed, ui'.last = ui.last, Linked, Replayed, KeptStreams
  PROVE  Replayed'
<1> SUFFICES ASSUME NEW c \in Conns, NEW r \in Runs, conn'[c].st # "none", conn'[c].run = r
             PROVE  /\ conn'[c].pos <= Count(r)'
                    /\ \A n \in 2 .. (Events - 1) : n <= conn'[c].pos => Known(<<r, n>>)'
  BY DEF Replayed, Serves
<1>1. Count(r) \in Nat /\ Count(r)' \in Nat /\ Count(r) <= Count(r)' /\ Events \in Nat
  BY FeedGrows, Names
<1>2. CASE conn'[c].pos = 0
  BY <1>1, <1>2
<1>3. CASE conn[c].st # "none" /\ conn'[c].pos = conn[c].pos
  <2>1. conn[c].run = r
    BY <1>3 DEF Linked, Wired, KeptStreams
  <2>2. conn[c].pos <= Count(r) /\ conn[c].pos \in Nat
    BY <1>3, <2>1, Names DEF Replayed, Serves, Types, Opened
  <2>3. ASSUME NEW n \in 2 .. (Events - 1), n <= conn[c].pos PROVE Known(<<r, n>>)'
    <3>1. Known(<<r, n>>)
      BY <1>3, <2>1, <2>3 DEF Replayed, Serves
    <3>2. n \in Nat \ {0} /\ n <= Count(r)
      BY <1>1, <2>2, <2>3
    <3> QED
      BY <3>1, <3>2, KnownKept
  <2> QED
    BY <1>1, <1>3, <2>2, <2>3
<1> QED
  BY <1>2, <1>3 DEF KeptStreams

\* A step that changes no text and no ref.
LEMMA RestsFaithful ==
  ASSUME Types, Types', Fed, Fed', Homed, Told, Ordered, Ordered', Linked, Faithful, Rests, [Next]_vars
  PROVE  Faithful'
<1>1. /\ ui'.run = ui.run /\ ui'.streaming = ui.streaming
      /\ ui'.processed = ui.processed /\ ui'.last = ui.last
  BY DEF Rests, SameRefs
<1>2. ASSUME NEW w \in Message, Shown(w)'
      PROVE  \E m \in Message : Shown(m) /\ m.id = w.id /\ m.run = w.run /\ m.got = w.got
  <2>1. PICK i \in DOMAIN messages' : messages'[i] = w
    BY <1>2 DEF Shown
  <2>2. /\ i \in DOMAIN messages /\ messages[i].id = w.id /\ messages[i].role = w.role
        /\ messages[i].run = w.run /\ messages[i].got = w.got
    BY <2>1 DEF Rests, SameTexts
  <2>3. messages[i] \in Message
    BY <2>2 DEF Types
  <2>4. Shown(messages[i])
    BY <1>2, <2>2 DEF Shown
  <2> QED
    BY <2>2, <2>3, <2>4
<1>3. Seen'
  BY <1>1, SeenKept DEF Faithful
<1>4. Parts'
  <2> SUFFICES ASSUME NEW w \in Message, Shown(w)' PROVE Part(w)'
    BY DEF Parts
  <2>1. PICK m \in Message : Shown(m) /\ m.id = w.id /\ m.run = w.run /\ m.got = w.got
    BY <1>2
  <2>2. Part(w)
    BY <2>1, SamePart DEF Faithful, Parts
  <2> QED
    BY <2>2, PartKept
<1>5. Grown'
  <2> SUFFICES ASSUME ~Waiting', NEW w \in Message, NEW r \in Runs, Grows(w, r)'
               PROVE  w.run = r /\ (Masked(r)' \/ SeenUpto(r, Len(w.got) + 1)')
    BY DEF Grown
  <2>1. PICK m \in Message : Shown(m) /\ m.id = w.id /\ m.run = w.run /\ m.got = w.got
    BY <1>2 DEF Grows
  <2>2. Grows(m, r) /\ ~Waiting
    BY <1>1, <2>1 DEF Grows, Rests
  <2>3. w.run = r /\ (Masked(r) \/ SeenUpto(r, Len(w.got) + 1))
    BY <2>1, <2>2 DEF Faithful, Grown
  <2>4. CASE Masked(r)
    BY <1>1, <2>3, <2>4, MaskedKept DEF Faithful
  <2>5. CASE SeenUpto(r, Len(w.got) + 1)
    <3>1. Part(w) /\ Len(w.got) \in Nat
      BY <2>1, SamePart DEF Faithful, Parts, Message
    <3>2. Count(r) \in Nat /\ Count(r)' \in Nat
      BY FeedGrows
    <3>3. ASSUME NEW k \in 2 .. (Events - 1), k <= Count(r)'
          PROVE  Known(<<r, k>>)' <=> k <= Len(w.got) + 1
      <4>1. k \in Nat \ {0} /\ k >= 2
        BY Names
      <4>2. CASE k <= Count(r)
        BY <1>1, <2>5, <4>1, <4>2, KnownKept DEF SeenUpto, Faithful
      <4>3. CASE k > Count(r)
        <5>1. ~Known(<<r, k>>)'
          BY <1>1, <3>3, <4>1, <4>3, KnownKept DEF Faithful
        <5>2. ~(k <= Len(w.got) + 1)
          <6>1. CASE w.got = <<>>
            BY <4>1, <6>1
          <6>2. CASE w.got # <<>>
            <7>1. Len(w.got) + 1 <= Count(r)
              BY <2>3, <3>1, <6>2 DEF Part
            <7> QED
              BY <3>1, <3>2, <4>1, <4>3, <7>1
          <6> QED
            BY <6>1, <6>2
        <5> QED
          BY <5>1, <5>2
      <4> QED
        BY <3>2, <4>1, <4>2, <4>3
    <3> QED
      BY <2>3, <3>3 DEF SeenUpto
  <2> QED
    BY <2>3, <2>4, <2>5
<1>6. Replayed'
  BY <1>1, ReplayedKept DEF Faithful, Rests
<1>7. Unnamed'
  <2> SUFFICES ASSUME NEW k \in Runs
               PROVE  /\ ui'.streaming # <<"tmp", k>>
                      /\ \A w \in Message : Shown(w)' =>
                           /\ w.id = <<"tmp", k>> => w.got = <<>> /\ w.run = 0
                           /\ Waits(k)' => w.id # <<"run", k>>
    BY DEF Unnamed
  <2>1. Waits(k)' => Waits(k)
    BY DEF Rests
  <2> QED
    BY <1>1, <1>2, <2>1 DEF Faithful, Unnamed
<1> QED
  BY <1>3, <1>4, <1>5, <1>6, <1>7 DEF Faithful

\* Where nothing was seen, nothing is known.
LEMMA FreshSeen ==
  ASSUME Types, Types', Fed', Ordered', [Next]_vars, ui'.processed = {}, ui'.last = 0
  PROVE  /\ Seen'
         /\ \A r \in Runs, n \in Nat : SeenUpto(r, n)' <=> \A k \in 2 .. (Events - 1) : k <= Count(r)' => k > n
<1>1. feed' \in Seq(Feed) /\ Events \in Nat
  BY Names DEF Types
<1>2. Seen'
  BY <1>1 DEF Seen
<1>3. ASSUME NEW r \in Runs, NEW k \in 2 .. (Events - 1), k <= Count(r)' PROVE ~Known(<<r, k>>)'
  <2>1. k \in 1 .. Count(r)' /\ FedOf(r)'
    <3>1. Count(r)' \in Nat
      BY FeedGrows
    <3> QED
      BY <1>1, <1>3, <3>1 DEF Fed
  <2>2. PICK i \in DOMAIN feed' : feed'[i] = <<r, k>>
    BY <2>1 DEF FedOf
  <2>3. i \in Nat
    BY <1>1, <2>2
  <2> QED
    BY <2>2, <2>3, KnownIsNext
<1>4. ASSUME NEW r \in Runs, NEW n \in Nat
      PROVE  SeenUpto(r, n)' <=> \A k \in 2 .. (Events - 1) : k <= Count(r)' => k > n
  <2>1. ASSUME NEW k \in 2 .. (Events - 1), k <= Count(r)'
        PROVE  (Known(<<r, k>>)' <=> k <= n) <=> k > n
    <3>1. k \in Nat /\ ~Known(<<r, k>>)'
      BY <1>1, <1>3, <2>1
    <3> QED
      BY <3>1
  <2> QED
    BY <2>1 DEF SeenUpto
<1> QED
  BY <1>2, <1>4

\* Streams that have delivered nothing, and no streams.
LEMMA NothingReplayed ==
  ASSUME Types, [Next]_vars, ~Streamed' \/ \E r, id : Opens(r, id)
  PROVE  Replayed'
<1> SUFFICES ASSUME NEW c \in Conns, NEW r \in Runs, conn'[c].st # "none", conn'[c].run = r
             PROVE  /\ conn'[c].pos <= Count(r)'
                    /\ \A n \in 2 .. (Events - 1) : n <= conn'[c].pos => Known(<<r, n>>)'
  BY DEF Replayed, Serves
<1>1. conn'[c].pos = 0
  BY DEF Streamed, Opens
<1>2. Count(r)' \in Nat /\ Events \in Nat
  BY FeedGrows, Names
<1> QED
  BY <1>1, <1>2

\* The view forgets everything.
LEMMA BlankFaithful ==
  ASSUME Types, Types', Fed', Ordered', Blank, [Next]_vars
  PROVE  Faithful'
<1>1. \A w : ~Shown(w)'
  BY DEF Blank, Shown
<1>2. Seen'
  BY FreshSeen DEF Blank
<1>3. Replayed'
  BY NothingReplayed DEF Blank
<1>4. Unnamed'
  BY <1>1 DEF Blank, Unnamed, None
<1> QED
  BY <1>1, <1>2, <1>3, <1>4 DEF Faithful, Parts, Grown, Grows

\* The run shown was found completed.
LEMMA LeavesFaithful ==
  ASSUME Types, Types', Faithful, Leaves, [Next]_vars
  PROVE  Faithful'
<1>1. ASSUME NEW w \in Message, Shown(w)'
      PROVE  \E m \in Message : Shown(m) /\ m.id = w.id /\ m.run = w.run /\ m.got = w.got
  <2>1. PICK i \in DOMAIN messages' : messages'[i] = w
    BY <1>1 DEF Shown
  <2>2. /\ i \in DOMAIN messages /\ messages[i].id = w.id /\ messages[i].role = w.role
        /\ messages[i].run = w.run /\ messages[i].got = w.got
    BY <2>1 DEF Leaves, SameTexts
  <2>3. messages[i] \in Message
    BY <2>2 DEF Types
  <2>4. Shown(messages[i])
    BY <1>1, <2>2 DEF Shown
  <2> QED
    BY <2>2, <2>3, <2>4
<1>2. Seen'
  BY SeenKept DEF Faithful, Leaves
<1>3. Parts'
  <2> SUFFICES ASSUME NEW w \in Message, Shown(w)' PROVE Part(w)'
    BY DEF Parts
  <2>1. Part(w)
    BY <1>1, SamePart DEF Faithful, Parts
  <2> QED
    BY <2>1, PartKept
<1>4. Grown'
  BY DEF Leaves, Grown, Grows
<1>5. Replayed'
  BY NothingReplayed DEF Leaves
<1>6. Unnamed'
  BY <1>1 DEF Faithful, Unnamed, Leaves, None
<1> QED
  BY <1>2, <1>3, <1>4, <1>5, <1>6 DEF Faithful

\* A message is sent: an answer is shown for it.
LEMMA StartsShows ==
  ASSUME Types, NEW k \in Runs, Starts(k), NEW w \in Message, Shown(w)'
  PROVE  Shown(w) \/ w = Assistant(<<"tmp", k>>, 0, TRUE)
<1> DEFINE new == Assistant(<<"tmp", k>>, 0, TRUE)
<1>1. UserMessage(k) \in Message /\ new \in Message /\ UserMessage(k).role = "user"
  BY NewMessages, AnyMessage, Names DEF UserMessage
<1> HIDE DEF new
<1> DEFINE more == <<UserMessage(k), new>>
<1>2. more \in Seq(Message) /\ Len(more) = 2 /\ more[1] = UserMessage(k) /\ more[2] = new
  BY <1>1
<1>3. messages' = messages \o more /\ messages \in Seq(Message)
  BY DEF Starts, Types, new
<1> HIDE DEF more
<1>4. PICK i \in DOMAIN messages' : messages'[i] = w
  BY DEF Shown
<1>5. /\ i \in 1 .. (Len(messages) + 2) /\ Len(messages) \in Nat
      /\ messages'[i] = IF i <= Len(messages) THEN messages[i] ELSE more[i - Len(messages)]
  BY <1>2, <1>3, <1>4, Joined
<1>6. CASE i <= Len(messages)
  <2>1. i \in DOMAIN messages /\ messages[i] = w
    BY <1>3, <1>4, <1>5, <1>6
  <2> QED
    BY <2>1 DEF Shown
<1>7. CASE i > Len(messages)
  <2>1. i - Len(messages) \in {1, 2}
    BY <1>5, <1>7
  <2>2. w = more[i - Len(messages)]
    BY <1>4, <1>5, <1>7
  <2> QED
    BY <1>1, <1>2, <2>1, <2>2 DEF Shown, new
<1>8. i <= Len(messages) \/ i > Len(messages)
  BY <1>5
<1> QED
  BY <1>6, <1>7, <1>8

\* A message is sent.
LEMMA StartsFaithful ==
  ASSUME Types, Types', Fed', Ordered', UInv, Faithful, NEW k \in Runs, Starts(k), [Next]_vars
  PROVE  Faithful'
<1> DEFINE new == Assistant(<<"tmp", k>>, 0, TRUE)
<1>1. ASSUME NEW w \in Message, Shown(w)' PROVE Shown(w) \/ w = new
  BY <1>1, StartsShows
<1>2. new.got = <<>> /\ new.id = <<"tmp", k>> /\ new.run = 0
  BY DEF Assistant
<1> HIDE DEF new
<1>3. Seen'
  BY FreshSeen DEF Starts
<1>4. Parts'
  <2> SUFFICES ASSUME NEW w \in Message, Shown(w)' PROVE Part(w)'
    BY DEF Parts
  <2>1. Part(w)
    <3>1. CASE Shown(w)
      BY <3>1 DEF Faithful, Parts
    <3>2. CASE w = new
      <4>1. w.got = <<>> /\ Events - 2 \in Nat
        BY <1>2, <3>2, Names
      <4> QED
        BY <4>1 DEF Part
    <3> QED
      BY <1>1, <3>1, <3>2
  <2> QED
    BY <2>1, PartKept
<1>5. Grown'
  BY DEF Starts, Grown, Waiting
<1>6. Replayed'
  BY NothingReplayed DEF Starts
<1>7. Unnamed'
  <2> SUFFICES ASSUME NEW j \in Runs
               PROVE  /\ ui'.streaming # <<"tmp", j>>
                      /\ \A w \in Message : Shown(w)' =>
                           /\ w.id = <<"tmp", j>> => w.got = <<>> /\ w.run = 0
                           /\ Waits(j)' => w.id # <<"run", j>>
    BY DEF Unnamed
  <2>1. ui'.streaming # <<"tmp", j>>
    BY DEF Starts, Faithful, Unnamed
  <2>2. ASSUME NEW w \in Message, Shown(w)', w.id = <<"tmp", j>> PROVE w.got = <<>> /\ w.run = 0
    BY <1>1, <1>2, <2>2 DEF Faithful, Unnamed
  <2>3. ASSUME NEW w \in Message, Shown(w)', Waits(j)', w.id = <<"run", j>> PROVE FALSE
    <3>1. j = k
      BY <2>3 DEF Starts
    <3>2. Shown(w)
      BY <1>1, <1>2, <2>3
    <3>3. PICK i \in DOMAIN messages : messages[i] = w
      BY <3>2 DEF Shown
    <3>4. k \in SentRuns
      BY <2>3, <3>1, <3>3 DEF UInv, Tidy, Proper
    <3> QED
      BY <3>4 DEF SentRuns, Starts
  <2> QED
    BY <2>1, <2>2, <2>3
<1> QED
  BY <1>3, <1>4, <1>5, <1>6, <1>7 DEF Faithful

\* The send is answered: its answer gets its name.
LEMMA BeginsShows ==
  ASSUME Types, NEW k \in Runs, Begins(k), NEW w \in Message, Shown(w)'
  PROVE  \E m \in Message :
           /\ Shown(m) /\ w.got = m.got /\ w.streaming = m.streaming
           /\ \/ m.id = <<"tmp", k>> /\ w.id = <<"run", k>> /\ w.run = k
              \/ m.id # <<"tmp", k>> /\ w = m
<1>1. PICK i \in DOMAIN messages' : messages'[i] = w
  BY DEF Shown
<1>2. /\ i \in DOMAIN messages
      /\ w = IF messages[i].id = <<"tmp", k>>
             THEN [messages[i] EXCEPT !.id = <<"run", k>>, !.run = k] ELSE messages[i]
  BY <1>1 DEF Begins, Submitted
<1>3. messages[i] \in Message
  BY <1>2 DEF Types
<1>4. messages[i].role = "assistant" /\ w.got = messages[i].got
      /\ w.streaming = messages[i].streaming
      /\ (messages[i].id = <<"tmp", k>> => w.id = <<"run", k>> /\ w.run = k)
  BY <1>2, <1>3 DEF Message, Shown
<1> QED
  BY <1>2, <1>3, <1>4 DEF Shown

\* The send is answered.
LEMMA BeginsFaithful ==
  ASSUME Types, Types', Fed', Ordered', Faithful, NEW k \in Runs, Begins(k), [Next]_vars
  PROVE  Faithful'
<1>1. ASSUME NEW w \in Message, Shown(w)'
      PROVE  \E m \in Message :
               /\ Shown(m) /\ w.got = m.got
               /\ \/ m.id = <<"tmp", k>> /\ w.id = <<"run", k>> /\ w.run = k
                  \/ m.id # <<"tmp", k>> /\ w = m
  BY <1>1, BeginsShows
<1>2. ui'.processed = {} /\ ui'.last = 0 /\ ui'.run = k /\ ui'.streaming = <<"run", k>> /\ Waits(k)
  BY DEF Begins
<1>3. Seen'
  BY <1>2, FreshSeen
<1>4. ASSUME NEW w \in Message, Shown(w)', w.id = <<"run", k>> PROVE w.got = <<>> /\ w.run = k
  BY <1>1, <1>2, <1>4 DEF Faithful, Unnamed
<1>5. Parts'
  <2> SUFFICES ASSUME NEW w \in Message, Shown(w)' PROVE Part(w)'
    BY DEF Parts
  <2>1. Part(w)
    <3>1. CASE w.id = <<"run", k>>
      <4>1. w.got = <<>> /\ Events - 2 \in Nat
        BY <1>4, <3>1, Names
      <4> QED
        BY <4>1 DEF Part
    <3>2. CASE w.id # <<"run", k>>
      BY <1>1, <3>2 DEF Faithful, Parts
    <3> QED
      BY <3>1, <3>2
  <2> QED
    BY <2>1, PartKept
<1>6. Grown'
  <2> SUFFICES ASSUME NEW w \in Message, NEW r \in Runs, Grows(w, r)'
               PROVE  w.run = r /\ SeenUpto(r, Len(w.got) + 1)'
    BY DEF Grown
  <2>1. w.run = k /\ r = k /\ w.got = <<>>
    BY <1>2, <1>4 DEF Grows
  <2>2. Len(w.got) + 1 = 1
    BY <2>1
  <2>3. Events \in Nat /\ \A j \in 2 .. (Events - 1) : j > 1
    BY Names
  <2>4. SeenUpto(r, 1)'
    BY <1>2, <2>3, FreshSeen
  <2> QED
    BY <2>1, <2>2, <2>4
<1>7. Replayed'
  BY NothingReplayed DEF Begins
<1>8. Unnamed'
  BY <1>1, <1>2 DEF Faithful, Unnamed, Begins
<1> QED
  BY <1>3, <1>5, <1>6, <1>7, <1>8 DEF Faithful

-----------------------------------------------------------------------------
(* A session is loaded.                                                    *)

\* The place of the newest event that was loaded.
LEMMA LastSeenIs ==
  ASSUME feed \in Seq(Feed), NEW rs
  PROVE  /\ LastSeen(rs) \in 0 .. Len(feed) /\ (LastSeen(rs) # 0 => LastSeen(rs) \in Stored(rs))
         /\ \A i \in Stored(rs) : i <= LastSeen(rs)
<1>1. Stored(rs) \subseteq 0 .. Len(feed) /\ Len(feed) \in Nat /\ 0 \notin Stored(rs)
  BY DEF Stored
<1>2. CASE Stored(rs) = {}
  BY <1>1, <1>2 DEF LastSeen
<1>3. CASE Stored(rs) # {}
  <2>1. \E i \in Stored(rs) : \A j \in Stored(rs) : j <= i
    BY <1>1, <1>3, GreatestNat
  <2> DEFINE at == CHOOSE i \in Stored(rs) : \A j \in Stored(rs) : j <= i
  <2>2. at \in Stored(rs) /\ \A j \in Stored(rs) : j <= at
    BY <2>1
  <2>3. LastSeen(rs) = at
    BY <1>3 DEF LastSeen
  <2> HIDE DEF at
  <2> QED
    BY <1>1, <2>2, <2>3
<1> QED
  BY <1>2, <1>3

\* What a load shows: each run's answer, whole.
LEMMA LoadedHistory ==
  ASSUME Types, Fed, Targeted, Told, Ordered, ~Overlap, DInv, NEW n \in Loads, load[n].st = "fetch"
  PROVE  LET rs == load[n].events
             old == History(rs)
         IN /\ rs \subseteq RunsOf(load[n].target) /\ old \in Seq(MessagesOf(rs))
            /\ NamedByRun(old) /\ Whole(old) /\ \A r \in rs : HasAnswer(old, r)
            /\ \A i \in DOMAIN old : old[i].role = "assistant" => Part(old[i])
            /\ Complete(rs)
<1> DEFINE rs == load[n].events
<1> DEFINE old == History(rs)
<1>1. rs \subseteq RunsOf(load[n].target) /\ Complete(rs)
  BY DEF Targeted, TargetedAt, DInv, WhatRead, Pending
<1>2. feed \in Seq(Feed) /\ rs \subseteq Runs
  BY <1>1 DEF Types, RunsOf
<1>3. InBlocks(load[n].target, rs)
  BY <1>1, <1>2 DEF InBlocks
<1>4. Whole(old) /\ \A r \in rs : HasAnswer(old, r)
  BY <1>3, HistoryWhole
<1>5. old \in Seq(MessagesOf(rs)) /\ NamedByRun(old)
  BY <1>2, HistoryTyped, HistoryIds
<1> HIDE DEF old
<1>6. ASSUME NEW i \in DOMAIN old, old[i].role = "assistant" PROVE Part(old[i])
  <2>1. old[i].run \in rs /\ old[i].got = Chunks(old[i].run)
    BY <1>4, <1>5, <1>6 DEF MessagesOf, Whole
  <2>2. ASSUME NEW r \in rs PROVE Len(Chunks(r)) = Events - 2 /\ DOMAIN Chunks(r) = 1 .. (Events - 2)
                                 /\ \A x \in 1 .. (Events - 2) : Chunks(r)[x] = <<r, x + 1>>
    BY Names DEF Chunks
  <2>3. Count(old[i].run) = Events
    BY <1>1, <2>1 DEF Complete
  <2>4. Events - 2 + 1 <= Events
    BY Names
  <2> QED
    BY <1>2, <2>1, <2>2, <2>3, <2>4 DEF Part
<1> QED
  BY <1>1, <1>4, <1>5, <1>6 DEF old

LEMMA ArrivesSeen ==
  ASSUME Types, NEW n \in Loads, Arrives(n), feed' = feed
  PROVE  Seen'
<1>1. LastSeen(load[n].events) \in 0 .. Len(feed)
  BY LastSeenIs DEF Types
<1>2. ui'.last = LastSeen(load[n].events) /\ ui'.processed = {}
  BY DEF Arrives
<1> HIDE DEF LastSeen
<1>3. ui'.last <= Len(feed')
  BY <1>1, <1>2
<1> QED
  BY <1>2, <1>3 DEF Seen

\* No run goes on.
LEMMA ShowsOldFaithful ==
  ASSUME Types, Fed, Targeted, Told, Ordered, ~Overlap, DInv, NEW n \in Loads, ShowsOld(n),
         feed' = feed, [Next]_vars
  PROVE  Faithful'
<1> DEFINE old == History(load[n].events)
<1>1. /\ old \in Seq(MessagesOf(load[n].events)) /\ NamedByRun(old)
      /\ \A i \in DOMAIN old : old[i].role = "assistant" => Part(old[i])
  BY LoadedHistory DEF ShowsOld, Arrives
<1>2. messages' = old
  BY DEF ShowsOld
<1> HIDE DEF old
<1>3. ASSUME NEW w \in Message, Shown(w)' PROVE w.id = <<"run", w.run>> /\ Part(w)
  BY <1>1, <1>2, <1>3 DEF Shown, NamedByRun
<1>4. Parts'
  BY <1>3, PartKept DEF Parts
<1>5. Seen'
  BY ArrivesSeen DEF ShowsOld
<1>6. Replayed'
  BY NothingReplayed DEF ShowsOld
<1>7. Grown'
  BY DEF Grown, Grows, ShowsOld
<1>8. Unnamed'
  BY <1>3 DEF Unnamed, ShowsOld, Arrives, None
<1> QED
  BY <1>4, <1>5, <1>6, <1>7, <1>8 DEF Faithful

\* The session's latest run goes on: what of its text is shown was seen.
LEMMA ShowsRunFaithful ==
  ASSUME Types, Types', Fed, Fed', Ordered', Targeted, Told, Ordered, ~Overlap, DInv,
         NEW n \in Loads, ShowsRun(n), feed' = feed, home' = home, [Next]_vars
  PROVE  Faithful'
<1> DEFINE rs == load[n].events
<1> DEFINE old == History(rs)
<1>0. PICK r \in Runs : r = load[n].run
  BY DEF ShowsRun, Arrives, Targeted, TargetedAt, RunsOf
<1> DEFINE new == Prepared(old, r, n)
<1>1. /\ old \in Seq(MessagesOf(rs)) /\ NamedByRun(old) /\ Whole(old)
      /\ rs \subseteq RunsOf(load[n].target) /\ Complete(rs)
      /\ \A q \in rs : HasAnswer(old, q)
      /\ \A i \in DOMAIN old : old[i].role = "assistant" => Part(old[i])
  BY LoadedHistory DEF ShowsRun, Arrives
<1>2. r \in RunsOf(load[n].target)
  BY <1>0 DEF ShowsRun, Arrives, Targeted, TargetedAt
<1>3. old \in Seq(Message)
  BY <1>1 DEF MessagesOf
<1>4. /\ messages' = new.ms /\ Opens(r, new.id) /\ ui'.run = r /\ ui'.streaming = new.id
      /\ ui'.processed = {} /\ ui'.last = LastSeen(rs) /\ \A k \in Runs : ~Waits(k)'
  BY <1>0 DEF ShowsRun, Arrives
<1>5. Seen'
  BY ArrivesSeen DEF ShowsRun
<1>6. Replayed'
  BY NothingReplayed DEF ShowsRun
<1>7. /\ LastSeen(rs) \in 0 .. Len(feed) /\ (LastSeen(rs) # 0 => LastSeen(rs) \in Stored(rs))
      /\ \A i \in Stored(rs) : i <= LastSeen(rs)
  BY LastSeenIs DEF Types
<1>8. \/ /\ HasAnswer(old, r) /\ new.id = <<"run", r>>
         /\ DOMAIN new.ms = DOMAIN old
         /\ \A i \in DOMAIN old :
              LET m == new.ms[i]
              IN /\ m.id = old[i].id /\ m.role = old[i].role /\ m.run = old[i].run
                 /\ m.got = old[i].got /\ (m.streaming = old[i].streaming \/ m.streaming)
      \/ /\ ~HasAnswer(old, r) /\ new.id = <<"load", n>>
         /\ new.ms = Append(old, Assistant(<<"load", n>>, r, TRUE))
  BY <1>1, <1>3, PreparedIs
<1> HIDE DEF rs, old, new
<1>9. r \in Runs /\ Events \in Nat /\ feed \in Seq(Feed)
  BY <1>2, Names DEF RunsOf, Types
<1>10. CASE HasAnswer(old, r) /\ new.id = <<"run", r>>
  <2>1. ASSUME NEW w \in Message, Shown(w)'
        PROVE  w.id = <<"run", w.run>> /\ Part(w) /\ w.got = Chunks(w.run)
    <3>1. PICK i \in DOMAIN messages' : messages'[i] = w
      BY <2>1 DEF Shown
    <3>2. /\ i \in DOMAIN old /\ w.id = old[i].id /\ w.role = old[i].role /\ w.run = old[i].run
          /\ w.got = old[i].got
      BY <1>4, <1>8, <1>10, <3>1
    <3>3. old[i].role = "assistant"
      BY <2>1, <3>2 DEF Shown
    <3>4. Part(w)
      BY <1>1, <3>2, <3>3, SamePart
    <3> QED
      BY <1>1, <3>2, <3>3, <3>4 DEF NamedByRun, Whole
  <2>2. r \in rs
    BY <1>1, <1>10 DEF HasAnswer, MessagesOf
  <2>3. ASSUME NEW k \in 2 .. (Events - 1), k <= Count(r)' PROVE Known(<<r, k>>)'
    <3>1. Count(r) = Events /\ k \in 1 .. Count(r) /\ Events \in 1 .. Count(r) /\ k < Events
      BY <1>1, <1>9, <2>2, Names DEF Complete
    <3>2. PICK i \in DOMAIN feed : feed[i] = <<r, k>>
      BY <1>9, <3>1 DEF Fed, FedOf
    <3>3. PICK j \in DOMAIN feed : feed[j] = <<r, Events>>
      BY <1>9, <3>1 DEF Fed, FedOf
    <3>4. i # j /\ ~(j < i)
      BY <1>9, <3>1, <3>2, <3>3 DEF Ordered
    <3>5. j \in Stored(rs)
      BY <2>2, <3>3 DEF Stored
    <3>6. i < LastSeen(rs)
      BY <1>7, <1>9, <3>4, <3>5
    <3>7. i \in DOMAIN feed' /\ feed'[i] = <<r, k>>
      BY <3>2
    <3> QED
      BY <1>4, <3>6, <3>7, KnownIsNext
  <2>4. Parts'
    BY <2>1, PartKept DEF Parts
  <2>5. Grown'
    <3> SUFFICES ASSUME NEW w \in Message, NEW q \in Runs, Grows(w, q)'
                 PROVE  w.run = q /\ SeenUpto(q, Len(w.got) + 1)'
      BY DEF Grown
    <3>1. q = r /\ w.id = <<"run", r>> /\ Shown(w)'
      BY <1>4, <1>10 DEF Grows
    <3>2. w.run = r /\ w.got = Chunks(r)
      BY <2>1, <3>1
    <3>3. Len(Chunks(r)) + 1 = Events - 1
      BY Names DEF Chunks
    <3>4. SeenUpto(r, Events - 1)'
      BY <1>9, <2>3 DEF SeenUpto
    <3> QED
      BY <3>1, <3>2, <3>3, <3>4
  <2>6. Unnamed'
    BY <1>4, <1>10, <2>1 DEF Unnamed
  <2> QED
    BY <1>5, <1>6, <2>4, <2>5, <2>6 DEF Faithful
<1>11. CASE ~HasAnswer(old, r) /\ new.id = <<"load", n>>
             /\ new.ms = Append(old, Assistant(<<"load", n>>, r, TRUE))
  <2>1. ASSUME NEW w \in Message, Shown(w)'
        PROVE  /\ Part(w)
               /\ \/ w.id = <<"run", w.run>>
                  \/ w.id = <<"load", n>> /\ w.run = r /\ w.got = <<>>
    <3>1. PICK i \in DOMAIN messages' : messages'[i] = w
      BY <2>1 DEF Shown
    <3> DEFINE a == Assistant(<<"load", n>>, r, TRUE)
    <3>2. a.id = <<"load", n>> /\ a.run = r /\ a.got = <<>>
      BY DEF Assistant
    <3>6. messages' = Append(old, a)
      BY <1>4, <1>11
    <3> HIDE DEF a
    <3>7. /\ DOMAIN Append(old, a) = 1 .. (Len(old) + 1) /\ Len(old) \in Nat /\ DOMAIN old = 1 .. Len(old)
          /\ \A x \in 1 .. Len(old) : Append(old, a)[x] = old[x]
          /\ Append(old, a)[Len(old) + 1] = a
      BY <1>3
    <3>3. (i \in DOMAIN old /\ w = old[i]) \/ w = a
      BY <3>1, <3>6, <3>7
    <3>4. CASE i \in DOMAIN old /\ w = old[i]
      BY <1>1, <2>1, <3>4 DEF NamedByRun, Shown
    <3>5. CASE w = a
      <4>1. Part(w)
        BY <3>2, <3>5, Names DEF Part
      <4> QED
        BY <3>2, <3>5, <4>1
    <3> QED
      BY <3>3, <3>4, <3>5
  <2>2. r \notin rs
    BY <1>1, <1>11
  <2>3. Masked(r)' \/ SeenUpto(r, 1)'
    <3> SUFFICES ASSUME ~SeenUpto(r, 1)' PROVE Masked(r)'
      OBVIOUS
    <3>1. PICK k \in 2 .. (Events - 1) : k <= Count(r)' /\ ~(Known(<<r, k>>)' <=> k <= 1)
      BY DEF SeenUpto
    <3>2. k \in 1 .. Count(r)' /\ k > 1 /\ Known(<<r, k>>)'
      BY <1>9, <3>1, FeedGrows
    <3>3. PICK i \in DOMAIN feed' : feed'[i] = <<r, k>>
      BY <1>9, <3>2 DEF Fed, FedOf
    <3>4. i < ui'.last
      BY <1>4, <3>2, <3>3, KnownIsNext
    <3>5. LastSeen(rs) # 0
      BY <1>4, <1>9, <3>3, <3>4
    <3>6. LastSeen(rs) \in Stored(rs)
      BY <1>7, <3>5
    <3>7. feed[LastSeen(rs)][1] \in rs
      BY <3>6 DEF Stored
    <3>8. home[feed[LastSeen(rs)][1]] = home[r]
      BY <1>1, <1>2, <3>7 DEF RunsOf
    <3> QED
      BY <1>4, <2>2, <3>3, <3>4, <3>5, <3>7, <3>8 DEF Masked
  <2>4. Parts'
    BY <2>1, PartKept DEF Parts
  <2>5. Grown'
    <3> SUFFICES ASSUME NEW w \in Message, NEW q \in Runs, Grows(w, q)'
                 PROVE  w.run = q /\ (Masked(q)' \/ SeenUpto(q, Len(w.got) + 1)')
      BY DEF Grown
    <3>1. q = r /\ w.id = <<"load", n>> /\ Shown(w)'
      BY <1>4, <1>11 DEF Grows
    <3>2. w.run = r /\ w.got = <<>>
      BY <2>1, <3>1
    <3>3. Len(w.got) + 1 = 1
      BY <3>2
    <3> QED
      BY <2>3, <3>1, <3>2, <3>3
  <2>6. Unnamed'
    BY <1>4, <1>11, <2>1 DEF Unnamed
  <2> QED
    BY <1>5, <1>6, <2>4, <2>5, <2>6 DEF Faithful
<1> QED
  BY <1>8, <1>10, <1>11

-----------------------------------------------------------------------------
(* An event arrives.                                                       *)

\* The answers among messages.
AnswersIn(ms) == {m \in Message : m.role = "assistant" /\ \E i \in DOMAIN ms : ms[i] = m}

\* A user message more, and no answer more.
LEMMA InsertUserAnswers ==
  ASSUME NEW ms \in Seq(Message), NEW r \in Runs
  PROVE  AnswersIn(InsertUser(ms, r)) \subseteq AnswersIn(ms)
<1> DEFINE streaming == {i \in DOMAIN ms : ms[i].role = "assistant" /\ ms[i].streaming}
           at == CHOOSE i \in streaming : \A j \in streaming : i <= j
           T == {m \in Message : m.role = "assistant" => m \in AnswersIn(ms)}
           u == UserMessage(r)
<1>1. u \in T
  <2>1. u \in Message /\ u.role = "user"
    BY NewMessages, AnyMessage DEF UserMessage
  <2> QED
    BY <2>1
<1>2. InsertUser(ms, r) \in {ms, Append(ms, u)} \/ (streaming # {} /\ InsertUser(ms, r) = InsertAt(ms, at, u))
  BY DEF InsertUser
<1>3. \A i \in DOMAIN ms : ms[i] \in T
  <2> SUFFICES ASSUME NEW i \in DOMAIN ms PROVE ms[i] \in T
    OBVIOUS
  <2>1. ms[i] \in Message
    OBVIOUS
  <2> QED
    BY <2>1 DEF AnswersIn
<1> HIDE DEF T, u
<1>4. ms \in Seq(T)
  BY <1>3
<1>5. ASSUME streaming # {}, InsertUser(ms, r) = InsertAt(ms, at, u)
      PROVE  InsertUser(ms, r) \in Seq(T)
  <2>1. streaming \subseteq DOMAIN ms /\ DOMAIN ms = 1 .. Len(ms) /\ Len(ms) \in Nat
    OBVIOUS
  <2>2. streaming \subseteq Nat
    BY <2>1
  <2> HIDE DEF streaming
  <2>3. \E i \in streaming : \A j \in streaming : i <= j
    BY <1>5, <2>2, LeastNat
  <2>4. at \in streaming
    BY <2>3
  <2>5. at \in 1 .. Len(ms)
    BY <2>1, <2>4
  <2> HIDE DEF at
  <2>6. SubSeq(ms, 1, at - 1) \in Seq(T) /\ SubSeq(ms, at, Len(ms)) \in Seq(T) /\ <<u>> \in Seq(T)
    BY <1>1, <1>4, <2>5
  <2> QED
    BY <1>5, <2>6 DEF InsertAt
<1>6. ASSUME InsertUser(ms, r) \in {ms, Append(ms, u)} PROVE InsertUser(ms, r) \in Seq(T)
  <2>1. Append(ms, u) \in Seq(T)
    BY <1>1, <1>4
  <2> QED
    BY <1>4, <1>6, <2>1
<1>7. InsertUser(ms, r) \in Seq(T)
  <2> HIDE DEF streaming, at
  <2> QED
    BY <1>2, <1>5, <1>6
<1>8. ASSUME NEW m \in AnswersIn(InsertUser(ms, r)) PROVE m \in AnswersIn(ms)
  <2>1. PICK i \in DOMAIN InsertUser(ms, r) : InsertUser(ms, r)[i] = m
    BY <1>8 DEF AnswersIn
  <2>2. m \in T /\ m.role = "assistant"
    BY <1>7, <1>8, <2>1 DEF AnswersIn
  <2> QED
    BY <2>2 DEF T
<1> QED
  BY <1>8

\* What an event makes of the answers: a chunk is added to those that have the
\* stream's id, the last event changes only their flag.
LEMMA ApplyAnswers ==
  ASSUME NEW ms \in Seq(Message), NEW id, NEW e \in Feed, NEW w \in AnswersIn(Apply(ms, id, e))
  PROVE  \E m \in AnswersIn(ms) :
           /\ w.id = m.id /\ w.run = m.run
           /\ m.id # id => w = m
           /\ e[2] = 1 => w = m
           /\ e[2] = Events => w.got = m.got
           /\ m.id = id /\ e[2] \notin {1, Events} => w.got = Append(m.got, e) /\ w.streaming = m.streaming
<1>1. w \in Message /\ w.role = "assistant" /\ e[1] \in Runs /\ 1 # Events
  BY Names DEF AnswersIn, Feed
<1>2. PICK i \in DOMAIN Apply(ms, id, e) : Apply(ms, id, e)[i] = w
  BY DEF AnswersIn
<1>3. CASE e[2] = 1
  <2>1. w \in AnswersIn(ms)
    BY <1>1, <1>3, InsertUserAnswers DEF Apply
  <2> QED
    BY <1>1, <1>3, <2>1
<1>4. CASE e[2] = Events
  <2>1. i \in DOMAIN ms /\ ms[i] \in Message
        /\ w = IF ms[i].id = id THEN [ms[i] EXCEPT !.streaming = FALSE] ELSE ms[i]
    BY <1>1, <1>2, <1>4 DEF Apply, Drop
  <2>2. /\ w.id = ms[i].id /\ w.run = ms[i].run /\ w.got = ms[i].got /\ w.role = ms[i].role
        /\ ms[i].id # id => w = ms[i]
    BY <2>1 DEF Message
  <2>3. ms[i] \in AnswersIn(ms)
    BY <1>1, <2>1, <2>2 DEF AnswersIn
  <2> QED
    BY <1>1, <1>4, <2>2, <2>3
<1>5. CASE e[2] \notin {1, Events}
  <2>1. i \in DOMAIN ms /\ ms[i] \in Message
        /\ w = IF ms[i].id = id THEN [ms[i] EXCEPT !.got = Append(ms[i].got, e)] ELSE ms[i]
    BY <1>1, <1>2, <1>5 DEF Apply
  <2>2. /\ w.id = ms[i].id /\ w.run = ms[i].run /\ w.role = ms[i].role
        /\ ms[i].id # id => w = ms[i]
        /\ ms[i].id = id => w.got = Append(ms[i].got, e) /\ w.streaming = ms[i].streaming
    BY <2>1 DEF Message
  <2>3. ms[i] \in AnswersIn(ms)
    BY <1>1, <2>1, <2>2 DEF AnswersIn
  <2> QED
    BY <1>5, <2>2, <2>3
<1> QED
  BY <1>3, <1>4, <1>5

\* What is delivered, for which answer.
LEMMA Delivered ==
  ASSUME Types, Fed, SInv, Linked, ~torn, NEW c \in Conns, Deliver(c)
  PROVE  \E r \in Runs, p \in Nat, a \in DOMAIN feed :
           /\ conn[c].st # "none" /\ conn[c].run = r /\ conn[c].pos = p /\ p < Count(r)
           /\ ui.run = r /\ conn[c].msg = ui.streaming /\ ui.streaming # None /\ ~Waiting
           /\ feed[a] = <<r, p + 1>> /\ <<r, p + 1>> \in Feed /\ p + 1 \in 1 .. Events
           /\ UNCHANGED <<feed, home, phase, send, load, checks, timers, spent, torn, missed>>
           /\ \A d \in Conns \ {c} : conn'[d] = conn[d]
           /\ conn'[c].st = conn[c].st /\ conn'[c].run = r /\ conn'[c].pos = p + 1
<1>1. conn[c] \in Opened /\ conn[c].st = "live" /\ conn[c].pos < Count(conn[c].run)
  BY DEF Deliver, Types
<1>2. conn[c].run = ui.run /\ conn[c].msg = ui.streaming /\ ui.streaming # None /\ ui.run \in Runs
  BY <1>1 DEF Linked, Wired
<1>3. ~Waiting
  BY <1>1, NoStreamBeside DEF Waiting
<1>4. conn[c].pos \in Nat
  BY <1>1, Names DEF Opened
<1>5. /\ conn[c].pos + 1 \in 1 .. Events /\ <<conn[c].run, conn[c].pos + 1>> \in Feed
      /\ conn[c].pos + 1 \in 1 .. Count(conn[c].run)
  <2>1. conn[c].pos + 1 \in 1 .. Events /\ <<conn[c].run, conn[c].pos + 1>> \in Feed
    BY <1>1, <1>4, EventInFeed DEF Types
  <2>2. Count(conn[c].run) \in Nat
    BY CountTyped DEF Types
  <2> QED
    BY <1>1, <1>4, <2>1, <2>2
<1>6. PICK a \in DOMAIN feed : feed[a] = <<conn[c].run, conn[c].pos + 1>>
  BY <1>2, <1>5 DEF Fed, FedOf
<1>7. /\ UNCHANGED <<feed, home, phase, send, load, checks, timers, spent, torn, missed>>
      /\ conn' = [conn EXCEPT ![c] = [conn[c] EXCEPT !.pos = conn[c].pos + 1]]
  BY DEF Deliver, server
<1>8. /\ \A d \in Conns \ {c} : conn'[d] = conn[d]
      /\ conn'[c].st = conn[c].st /\ conn'[c].run = conn[c].run /\ conn'[c].pos = conn[c].pos + 1
  BY <1>1, <1>7 DEF Types, Opened
<1> QED
  BY <1>1, <1>2, <1>3, <1>4, <1>5, <1>6, <1>7, <1>8

\* The answer that grows gets the chunk that follows those it has.
LEMMA AnswerGrows ==
  ASSUME Types, NEW r \in Runs, NEW p \in Nat, p < Count(r), p + 1 \in 1 .. Events,
         ~Known(<<r, p + 1>>), \A n \in 2 .. (Events - 1) : n <= p => Known(<<r, n>>),
         NEW m \in Message, m.run = r, Part(m), SeenUpto(r, Len(m.got) + 1),
         NEW w \in Message, w.run = r, p + 1 \in {1, Events} => w.got = m.got,
         p + 1 \notin {1, Events} => w.got = Append(m.got, <<r, p + 1>>)
  PROVE  /\ Part(w)
         /\ \A k \in 2 .. (Events - 1) : k <= Count(r) =>
              (Known(<<r, k>>) \/ k <= p + 1 <=> k <= Len(w.got) + 1)
         /\ p + 1 \notin {1, Events} => Len(w.got) = Len(m.got) + 1
         /\ p + 1 = Events => Len(w.got) = Events - 2
<1> DEFINE L == Len(m.got)
<1>1. L \in Nat /\ Count(r) \in Nat /\ Events \in Nat /\ Events > 2 /\ L <= Events - 2
      /\ m.got \in Seq(Feed)
  <2>1. m.got \in Seq(Feed)
    BY DEF Message
  <2>2. Count(r) \in Nat
    BY CountTyped DEF Types
  <2> QED
    BY <2>1, <2>2, Names DEF Part
<1>2. \A k \in 2 .. (Events - 1) : k <= Count(r) => (Known(<<r, k>>) <=> k <= L + 1)
  BY DEF SeenUpto
<1> HIDE DEF L
<1>3. CASE p + 1 = 1
  <2>1. w.got = m.got /\ Part(w)
    BY <1>3, SamePart
  <2>2. Len(w.got) = L
    BY <2>1 DEF L
  <2>3. \A k \in 2 .. (Events - 1) : ~(k <= p + 1)
    BY <1>3
  <2> QED
    BY <1>1, <1>2, <1>3, <2>1, <2>2, <2>3
<1>4. CASE p + 1 = Events
  <2>1. w.got = m.got /\ Part(w)
    BY <1>4, SamePart
  <2>2. Len(w.got) = L
    BY <2>1 DEF L
  <2>3. Events - 1 \in 2 .. (Events - 1) /\ Events - 1 <= p /\ Events - 1 <= Count(r)
    BY <1>1, <1>4
  <2>4. Events - 1 <= L + 1
    BY <1>2, <2>3
  <2>5. L = Events - 2
    BY <1>1, <2>4
  <2>6. ASSUME NEW k \in 2 .. (Events - 1) PROVE k <= p + 1 /\ k <= Len(w.got) + 1
    BY <1>1, <1>4, <2>2, <2>5
  <2> QED
    BY <1>1, <1>4, <2>1, <2>2, <2>5, <2>6
<1>5. CASE p + 1 \notin {1, Events}
  <2>1. p + 1 \in 2 .. (Events - 1) /\ p + 1 <= Count(r)
    BY <1>1, <1>5
  <2>2. ~(p + 1 <= L + 1)
    BY <1>2, <2>1
  <2>3. p <= L + 1
    <3>1. CASE p = 1
      BY <1>1, <3>1
    <3>2. CASE p >= 2
      <4>1. p \in 2 .. (Events - 1) /\ p <= Count(r) /\ p <= p
        BY <1>1, <2>1, <3>2
      <4> QED
        BY <1>2, <4>1
    <3> QED
      BY <2>1, <3>1, <3>2
  <2>4. p = L + 1
    BY <1>1, <2>2, <2>3
  <2>5. /\ Len(w.got) = L + 1 /\ w.got[L + 1] = <<r, p + 1>>
        /\ \A x \in 1 .. L : w.got[x] = m.got[x]
    <3>1. w.got = Append(m.got, <<r, p + 1>>)
      BY <1>5
    <3> QED
      BY <1>1, <3>1 DEF L
  <2>6. ASSUME NEW x \in 1 .. (L + 1) PROVE w.got[x] = <<r, x + 1>>
    <3>1. CASE x = L + 1
      BY <2>4, <2>5, <3>1
    <3>2. CASE x # L + 1
      <4>1. x \in 1 .. L
        BY <1>1, <3>2
      <4> QED
        BY <2>5, <4>1 DEF Part, L
    <3> QED
      BY <3>1, <3>2
  <2>7. Part(w)
    BY <1>1, <2>1, <2>4, <2>5, <2>6 DEF Part
  <2>8. ASSUME NEW k \in 2 .. (Events - 1), k <= Count(r)
        PROVE  Known(<<r, k>>) \/ k <= p + 1 <=> k <= Len(w.got) + 1
    <3>1. Known(<<r, k>>) <=> k <= L + 1
      BY <1>2, <2>8
    <3> QED
      BY <1>1, <2>4, <2>5, <3>1
  <2> QED
    BY <1>5, <2>5, <2>7, <2>8 DEF L
<1> QED
  BY <1>3, <1>4, <1>5

\* Where the feed and the refs stay, so does what they know.
LEMMA KnownSame ==
  ASSUME feed' = feed, home' = home, ui'.processed = ui.processed, ui'.last = ui.last
  PROVE  /\ \A e : Known(e)' <=> Known(e)
         /\ \A r : Count(r)' = Count(r) /\ (Masked(r)' <=> Masked(r))
         /\ \A r, n : SeenUpto(r, n)' <=> SeenUpto(r, n)
<1>1. \A e : Known(e)' <=> Known(e)
  BY DEF Known, At
<1>2. \A r : Count(r)' = Count(r)
  BY DEF Count
<1>3. \A r : Masked(r)' <=> Masked(r)
  BY DEF Masked
<1>4. \A r, n : SeenUpto(r, n)' <=> SeenUpto(r, n)
  BY <1>1, <1>2 DEF SeenUpto
<1> QED
  BY <1>1, <1>2, <1>3, <1>4

\* What an event that was not known makes known: those of its run before it.
LEMMA KnownNow ==
  ASSUME Types, Types', Fed, Ordered, Ordered', Seen, feed' = feed,
         NEW r \in Runs, NEW p \in Nat, NEW a \in DOMAIN feed, feed[a] = <<r, p + 1>>,
         ~Known(<<r, p + 1>>), ui'.processed = ui.processed \cup {<<r, p + 1>>},
         ui'.last = IF At(<<r, p + 1>>) > ui.last THEN At(<<r, p + 1>>) ELSE ui.last
  PROVE  /\ Seen' /\ ui'.last = a
         /\ \A q \in Runs : \A n \in 1 .. Count(q) : Known(<<q, n>>) => Known(<<q, n>>)'
         /\ \A n \in 1 .. Count(r) : Known(<<r, n>>)' <=> Known(<<r, n>>) \/ n <= p + 1
<1>1. /\ Len(feed) \in Nat /\ DOMAIN feed = 1 .. Len(feed) /\ ui.last \in Nat /\ a \in Nat
  BY DEF Types, Uis
<1>2. At(<<r, p + 1>>) = a /\ <<r, p + 1>> \notin ui.processed /\ ~(a < ui.last)
  BY KnownIs
<1>3. ui'.last = a /\ ui.last <= a
  BY <1>1, <1>2
<1>4. Seen'
  <2>1. ui'.last <= Len(feed')
    BY <1>1, <1>3
  <2>2. \A e \in ui'.processed : \E i \in DOMAIN feed' : feed'[i] = e
    BY DEF Seen
  <2> QED
    BY <2>1, <2>2 DEF Seen
<1>5. ASSUME NEW q \in Runs, NEW n \in 1 .. Count(q), Known(<<q, n>>) PROVE Known(<<q, n>>)'
  <2>1. PICK i \in DOMAIN feed : feed[i] = <<q, n>>
    BY DEF Fed, FedOf
  <2>2. <<q, n>> \in ui.processed \/ i < ui.last
    BY <1>5, <2>1, KnownIs
  <2>3. <<q, n>> \in ui'.processed \/ i < ui'.last
    BY <1>1, <1>3, <2>2
  <2> QED
    BY <2>1, <2>3, KnownIsNext
<1>6. ASSUME NEW n \in 1 .. Count(r) PROVE Known(<<r, n>>)' <=> Known(<<r, n>>) \/ n <= p + 1
  <2>1. PICK i \in DOMAIN feed : feed[i] = <<r, n>>
    BY DEF Fed, FedOf
  <2>2. Known(<<r, n>>)' <=> <<r, n>> \in ui'.processed \/ i < ui'.last
    BY <2>1, KnownIsNext
  <2>3. Known(<<r, n>>) <=> <<r, n>> \in ui.processed \/ i < ui.last
    BY <2>1, KnownIs
  <2>4. n \in Nat /\ feed[i][1] = feed[a][1] /\ feed[i][2] = n /\ feed[a][2] = p + 1 /\ i \in Nat
    BY <1>1, <2>1
  <2>5. (i < a => n < p + 1) /\ (a < i => p + 1 < n)
    BY <2>4 DEF Ordered
  <2>6. (i = a => n = p + 1) /\ (n = p + 1 => <<r, n>> = <<r, p + 1>>)
    BY <2>4
  <2>7. i < a <=> n < p + 1
    BY <1>1, <2>4, <2>5, <2>6
  <2>8. <<r, n>> \in ui'.processed <=> <<r, n>> \in ui.processed \/ n = p + 1
    BY <2>4
  <2>9. Known(<<r, n>>)' <=> <<r, n>> \in ui.processed \/ n = p + 1 \/ n < p + 1
    BY <1>3, <2>2, <2>7, <2>8
  <2>10. i < ui.last => n < p + 1
    BY <1>1, <1>3, <2>4, <2>7
  <2> QED
    BY <2>3, <2>4, <2>9, <2>10
<1> QED
  BY <1>3, <1>4, <1>5, <1>6

\* What an event that was not known does to the view.
LEMMA Applied ==
  ASSUME Types, Fed, SInv, Linked, ~torn, NEW c \in Conns, Deliver(c),
         NEW r \in Runs, NEW p \in Nat, conn[c].run = r, conn[c].pos = p, ui.run = r,
         conn[c].msg = ui.streaming, <<r, p + 1>> \in Feed, ~Known(<<r, p + 1>>)
  PROVE  /\ ui'.processed = ui.processed \cup {<<r, p + 1>>}
         /\ ui'.last = IF At(<<r, p + 1>>) > ui.last THEN At(<<r, p + 1>>) ELSE ui.last
         /\ ui'.run = ui.run /\ ui'.streaming = ui.streaming
         /\ \A w \in Message : Shown(w)' => \E m \in Message :
              /\ Shown(m) /\ w.id = m.id /\ w.run = m.run
              /\ m.id # ui.streaming => w = m
              /\ p + 1 = 1 => w = m
              /\ p + 1 = Events => w.got = m.got
              /\ m.id = ui.streaming /\ p + 1 \notin {1, Events} =>
                   w.got = Append(m.got, <<r, p + 1>>) /\ w.streaming = m.streaming
<1> DEFINE e == <<r, p + 1>>
<1>1. /\ messages' = Apply(messages, ui.streaming, e)
      /\ ui' = [ui EXCEPT
           !.processed = @ \cup {e},
           !.last = IF At(e) > @ THEN At(e) ELSE @,
           !.session = IF e[2] = 1 /\ @ = 0 THEN conn[c].home ELSE @,
           !.disconnected = @ \/ e[2] = Events]
  BY DEF Deliver
<1>2. e \in Feed /\ e[2] = p + 1
  OBVIOUS
<1> HIDE DEF e
<1>3. /\ ui'.processed = ui.processed \cup {e} /\ ui'.run = ui.run /\ ui'.streaming = ui.streaming
      /\ ui'.last = IF At(e) > ui.last THEN At(e) ELSE ui.last
  BY <1>1 DEF Types, Uis
<1>4. ASSUME NEW w \in Message, Shown(w)'
      PROVE  \E m \in Message :
               /\ Shown(m) /\ w.id = m.id /\ w.run = m.run
               /\ m.id # ui.streaming => w = m
               /\ p + 1 = 1 => w = m
               /\ p + 1 = Events => w.got = m.got
               /\ m.id = ui.streaming /\ p + 1 \notin {1, Events} =>
                    w.got = Append(m.got, e) /\ w.streaming = m.streaming
  <2>1. w \in AnswersIn(Apply(messages, ui.streaming, e)) /\ messages \in Seq(Message)
    BY <1>1, <1>4 DEF Shown, AnswersIn, Types
  <2>2. PICK m \in AnswersIn(messages) :
          /\ w.id = m.id /\ w.run = m.run
          /\ m.id # ui.streaming => w = m
          /\ e[2] = 1 => w = m
          /\ e[2] = Events => w.got = m.got
          /\ m.id = ui.streaming /\ e[2] \notin {1, Events} =>
               w.got = Append(m.got, e) /\ w.streaming = m.streaming
    BY <1>2, <2>1, ApplyAnswers
  <2>3. m \in Message /\ Shown(m)
    BY <2>1 DEF AnswersIn, Shown
  <2> QED
    BY <1>2, <2>2, <2>3
<1> QED
  BY <1>3, <1>4 DEF e

\* An event is delivered.
LEMMA DeliverFaithful ==
  ASSUME Types, Types', Fed, Fed', Told, Ordered, Ordered', ~Overlap, SInv, Linked, ~torn, Faithful,
         NEW c \in Conns, Deliver(c), [Next]_vars
  PROVE  Faithful'
<1>1. PICK r \in Runs, p \in Nat, a \in DOMAIN feed :
        /\ conn[c].st # "none" /\ conn[c].run = r /\ conn[c].pos = p /\ p < Count(r)
        /\ ui.run = r /\ conn[c].msg = ui.streaming /\ ui.streaming # None /\ ~Waiting
        /\ feed[a] = <<r, p + 1>> /\ <<r, p + 1>> \in Feed /\ p + 1 \in 1 .. Events
        /\ UNCHANGED <<feed, home, phase, send, load, checks, timers, spent, torn, missed>>
        /\ \A d \in Conns \ {c} : conn'[d] = conn[d]
        /\ conn'[c].st = conn[c].st /\ conn'[c].run = r /\ conn'[c].pos = p + 1
  BY Delivered
<1>2. \A q \in Runs : Count(q) \in Nat /\ Count(q)' = Count(q)
  BY <1>1, FeedGrows DEF Count
<1>3. \A n \in 2 .. (Events - 1) : n <= p => Known(<<r, n>>)
  BY <1>1 DEF Faithful, Replayed, Serves
<1>4. Events \in Nat /\ p + 1 \in 1 .. Count(r)
  BY <1>1, <1>2, Names
\* The streams have delivered nothing that is not known now.
<1>5. ASSUME \A q \in Runs : \A n \in 1 .. Count(q) : Known(<<q, n>>) => Known(<<q, n>>)',
             Known(<<r, p + 1>>)'
      PROVE  Replayed'
  <2> SUFFICES ASSUME NEW d \in Conns, NEW q \in Runs, conn'[d].st # "none", conn'[d].run = q
               PROVE  /\ conn'[d].pos <= Count(q)'
                      /\ \A n \in 2 .. (Events - 1) : n <= conn'[d].pos => Known(<<q, n>>)'
    BY DEF Replayed, Serves
  <2>1. CASE d = c
    <3>1. q = r /\ conn'[d].pos = p + 1
      BY <1>1, <2>1
    <3>2. ASSUME NEW n \in 2 .. (Events - 1), n <= p + 1 PROVE Known(<<r, n>>)'
      <4>1. CASE n = p + 1
        BY <1>5, <4>1
      <4>2. CASE n <= p
        <5>1. Known(<<r, n>>) /\ n \in 1 .. Count(r)
          BY <1>1, <1>2, <1>3, <1>4, <4>2
        <5> QED
          BY <1>5, <5>1
      <4> QED
        BY <1>4, <3>2, <4>1, <4>2
    <3> QED
      BY <1>2, <1>4, <3>1, <3>2
  <2>2. CASE d # c
    <3>1. conn'[d] = conn[d]
      BY <1>1, <2>2
    <3>2. /\ conn[d].pos <= Count(q) /\ conn[d].pos \in Nat
          /\ \A n \in 2 .. (Events - 1) : n <= conn[d].pos => Known(<<q, n>>)
      <4>1. Serves(d, q)
        BY <3>1 DEF Serves
      <4>2. conn[d].pos \in Nat
        BY Names DEF Types, Opened
      <4> QED
        BY <4>1, <4>2 DEF Faithful, Replayed
    <3>3. ASSUME NEW n \in 2 .. (Events - 1), n <= conn[d].pos PROVE Known(<<q, n>>)'
      <4>1. n \in 1 .. Count(q)
        BY <1>2, <1>4, <3>2, <3>3
      <4> QED
        BY <1>5, <3>2, <3>3, <4>1
    <3> QED
      BY <1>2, <3>1, <3>2, <3>3
  <2> QED
    BY <2>1, <2>2
\* The event was known.
<1>6. CASE Known(<<r, p + 1>>)
  <2>1. ui' = ui /\ messages' = messages
    BY <1>1, <1>6 DEF Deliver
  <2>2. /\ \A e : Known(e)' <=> Known(e)
        /\ \A q : Masked(q)' <=> Masked(q)
        /\ \A q, n : SeenUpto(q, n)' <=> SeenUpto(q, n)
    BY <1>1, <2>1, KnownSame
  <2>3. Seen'
    BY <2>1, SeenKept DEF Faithful
  <2>4. Parts'
    BY <2>1, PartKept DEF Faithful, Parts, Shown
  <2>5. Grown'
    BY <1>1, <2>1, <2>2 DEF Faithful, Grown, Grows, Shown
  <2>6. Replayed'
    BY <1>5, <1>6, <2>2
  <2>7. Unnamed'
    BY <1>1, <2>1 DEF Faithful, Unnamed, Shown, Waits
  <2> QED
    BY <2>3, <2>4, <2>5, <2>6, <2>7 DEF Faithful
\* It was not.
<1>7. CASE ~Known(<<r, p + 1>>)
  <2>1. /\ ui'.processed = ui.processed \cup {<<r, p + 1>>}
        /\ ui'.last = IF At(<<r, p + 1>>) > ui.last THEN At(<<r, p + 1>>) ELSE ui.last
        /\ ui'.run = ui.run /\ ui'.streaming = ui.streaming
        /\ \A w \in Message : Shown(w)' => \E m \in Message :
             /\ Shown(m) /\ w.id = m.id /\ w.run = m.run
             /\ m.id # ui.streaming => w = m
             /\ p + 1 = 1 => w = m
             /\ p + 1 = Events => w.got = m.got
             /\ m.id = ui.streaming /\ p + 1 \notin {1, Events} =>
                  w.got = Append(m.got, <<r, p + 1>>) /\ w.streaming = m.streaming
    BY <1>1, <1>7, Applied
  <2>2. /\ Seen' /\ ui'.last = a
        /\ \A q \in Runs : \A n \in 1 .. Count(q) : Known(<<q, n>>) => Known(<<q, n>>)'
        /\ \A n \in 1 .. Count(r) : Known(<<r, n>>)' <=> Known(<<r, n>>) \/ n <= p + 1
    BY <1>1, <1>7, <2>1, KnownNow DEF Faithful
  <2>3. Known(<<r, p + 1>>)'
    BY <1>4, <2>2
  <2>4. Replayed'
    BY <1>5, <2>2, <2>3
  <2>5. ~Masked(r)
    BY <1>4, <1>7, MaskedKnown DEF Faithful
  <2>6. ASSUME NEW w \in Message, Shown(w)'
        PROVE  \E m \in Message :
                 /\ Shown(m) /\ w.id = m.id /\ w.run = m.run
                 /\ m.id # ui.streaming => w = m
                 /\ m.id = ui.streaming => w.run = r /\ Part(w) /\ SeenUpto(r, Len(w.got) + 1)'
    <3>3. PICK m \in Message :
            /\ Shown(m) /\ w.id = m.id /\ w.run = m.run
            /\ m.id # ui.streaming => w = m
            /\ p + 1 = 1 => w = m
            /\ p + 1 = Events => w.got = m.got
            /\ m.id = ui.streaming /\ p + 1 \notin {1, Events} =>
                 w.got = Append(m.got, <<r, p + 1>>) /\ w.streaming = m.streaming
      BY <2>1, <2>6
    <3>4. m \in Message
      BY <3>3
    <3>5. ASSUME m.id = ui.streaming
          PROVE  w.run = r /\ Part(w) /\ SeenUpto(r, Len(w.got) + 1)'
      <4>1. Grows(m, r)
        BY <1>1, <3>3, <3>5 DEF Grows
      <4>2. m.run = r /\ SeenUpto(r, Len(m.got) + 1) /\ Part(m)
        BY <1>1, <2>5, <3>3, <4>1 DEF Faithful, Grown, Parts
      <4>3. /\ Part(w)
            /\ \A k \in 2 .. (Events - 1) : k <= Count(r) =>
                 (Known(<<r, k>>) \/ k <= p + 1 <=> k <= Len(w.got) + 1)
        <5>1. /\ p + 1 \in {1, Events} => w.got = m.got
              /\ p + 1 \notin {1, Events} => w.got = Append(m.got, <<r, p + 1>>)
          BY <3>3, <3>5
        <5>2. w.run = r /\ p < Count(r) /\ p + 1 \in 1 .. Events
          BY <1>1, <3>3, <4>2
        <5> QED
          BY <1>3, <1>7, <3>4, <4>2, <5>1, <5>2, AnswerGrows
      <4>4. ASSUME NEW k \in 2 .. (Events - 1), k <= Count(r)'
            PROVE  Known(<<r, k>>)' <=> k <= Len(w.got) + 1
        <5>1. k \in 1 .. Count(r) /\ k <= Count(r)
          BY <1>2, <1>4, <4>4
        <5> QED
          BY <2>2, <4>3, <5>1
      <4> QED
        BY <3>3, <4>2, <4>3, <4>4 DEF SeenUpto
    <3> QED
      BY <3>3, <3>5
  <2>7. Parts'
    <3> SUFFICES ASSUME NEW w \in Message, Shown(w)' PROVE Part(w)'
      BY DEF Parts
    <3>1. Part(w)
      BY <2>6 DEF Faithful, Parts
    <3> QED
      BY <3>1, PartKept
  <2>8. Grown'
    BY <1>1, <2>1, <2>6 DEF Grown, Grows
  <2>9. Unnamed'
    <3>1. \A k \in Runs : ui'.streaming # <<"tmp", k>> /\ ~Waits(k)'
      BY <1>1, <2>1 DEF Faithful, Unnamed, Waiting, Waits
    <3>2. ASSUME NEW k \in Runs, NEW w \in Message, Shown(w)', w.id = <<"tmp", k>>
          PROVE  w.got = <<>> /\ w.run = 0
      BY <2>1, <2>6, <3>1, <3>2 DEF Faithful, Unnamed
    <3> QED
      BY <3>1, <3>2 DEF Unnamed
  <2> QED
    BY <2>2, <2>4, <2>7, <2>8, <2>9 DEF Faithful
<1> QED
  BY <1>6, <1>7

-----------------------------------------------------------------------------
(* The invariants hold.                                                    *)

LEMMA StepFaithful ==
  ASSUME TInv, TInv', UInv, UInv', IInv, SInv, DInv, Linked, ~torn, ~torn', ~Overlap, Faithful,
         [Next]_vars
  PROVE  Faithful'
<1>1. /\ Types /\ Types' /\ Fed /\ Fed' /\ Homed /\ Targeted
      /\ Told /\ Ordered /\ Ordered'
  BY DEF TInv, UInv
<1>2. Rests \/ (Moves /\ feed' = feed /\ home' = home)
  BY <1>1, StepEffect
<1>3. CASE Rests
  BY <1>1, <1>3, RestsFaithful
<1>4. CASE Blank
  BY <1>1, <1>4, BlankFaithful
<1>5. CASE Leaves
  BY <1>1, <1>5, LeavesFaithful
<1>6. CASE \E k \in Runs : Starts(k) \/ Begins(k)
  BY <1>1, <1>6, StartsFaithful, BeginsFaithful
<1>7. ASSUME NEW n \in Loads, ShowsOld(n) \/ ShowsRun(n), feed' = feed, home' = home
      PROVE  Faithful'
  BY <1>1, <1>7, ShowsOldFaithful, ShowsRunFaithful
<1>8. CASE \E c \in Conns : Deliver(c)
  BY <1>1, <1>8, DeliverFaithful
<1> QED
  BY <1>2, <1>3, <1>4, <1>5, <1>6, <1>7, <1>8 DEF Moves

LEMMA DoneHolds == Spec => []DInv
<1>1. Init => DInv
  <2> SUFFICES ASSUME Init PROVE DInv
    OBVIOUS
  <2>1. \A r \in Runs : phase[r] = "none"
    BY DEF Init
  <2>2. \A n \in Loads : load[n].st = "none"
    BY DEF Init, NoLoad
  <2> QED
    BY <2>1, <2>2 DEF DInv, Done, WhatRead, Pending
<1>2. TInv /\ DInv /\ [Next]_vars => DInv'
  BY DoneStep DEF TInv
<1> QED
  BY <1>1, <1>2, TypesHold, PTL DEF Spec

LEMMA ReadToHolds == Spec => []RInv
<1>1. Init => RInv
  BY DEF Init, NoLoad, RInv, ReadTo
<1>2. TInv /\ TInv' /\ IInv /\ SInv /\ LInv /\ RInv /\ [Next]_vars => RInv'
  <2> SUFFICES ASSUME TInv, TInv', IInv, SInv, LInv, RInv, [Next]_vars, ~torn' PROVE ReadTo'
    BY DEF RInv
  <2>1. ~torn /\ Linked /\ ReadTo /\ Types /\ Types' /\ Targeted
    BY TornStep DEF LInv, RInv, TInv
  <2>2. Linked' /\ (Rests \/ Moves)
    BY <2>1, StepEffect
  <2> QED
    BY <2>1, <2>2, ReadToStep
<1> QED
  BY <1>1, <1>2, TypesHold, InvariantHolds, OrderHolds, LinksHold, PTL DEF Spec

LEMMA FaithfulHolds == Spec => []PInv
<1>1. Init => PInv
  <2> SUFFICES ASSUME Init PROVE Faithful
    BY DEF PInv
  <2>1. /\ feed = <<>> /\ messages = <<>> /\ ui.last = 0 /\ ui.processed = {}
        /\ ui.streaming = None /\ \A c \in Conns : conn[c].st = "none"
    BY DEF Init, Idle
  <2>2. \A m : ~Shown(m)
    BY <2>1 DEF Shown
  <2>3. Seen
    BY <2>1 DEF Seen
  <2>4. Replayed
    BY <2>1 DEF Replayed, Serves
  <2>5. Unnamed
    BY <2>1, <2>2 DEF Unnamed, None
  <2> QED
    BY <2>2, <2>3, <2>4, <2>5 DEF Faithful, Parts, Grown, Grows
<1>2. TInv /\ TInv' /\ UInv /\ UInv' /\ IInv /\ SInv /\ DInv /\ LInv /\ PInv /\ [Next]_vars => PInv'
  <2> SUFFICES ASSUME TInv, TInv', UInv, UInv', IInv, SInv, DInv, LInv, PInv, [Next]_vars,
                      ~torn', ~Overlap'
               PROVE  Faithful'
    BY DEF PInv
  <2>1. ~torn
    BY TornStep
  <2>2. ~Overlap
    BY FeedStep DEF TInv, UInv
  <2> QED
    BY <2>1, <2>2, StepFaithful DEF LInv, PInv
<1> QED
  BY <1>1, <1>2, TypesHold, NamesHold, InvariantHolds, OrderHolds, DoneHolds, LinksHold, PTL DEF Spec

\* A sequence that another one goes on with.
LEMMA PrefixIs ==
  ASSUME NEW S, NEW s \in Seq(S), NEW t \in Seq(S), Len(s) <= Len(t), \A x \in 1 .. Len(s) : s[x] = t[x]
  PROVE  IsPrefix(s, t)
<1> DEFINE a == SubSeq(s, 1, Len(s))
           b == SubSeq(t, 1, Len(s))
<1>1. Len(s) \in Nat /\ Len(t) \in Nat
  OBVIOUS
<1>2. a \in Seq(S) /\ Len(a) = Len(s) /\ \A x \in 1 .. Len(s) : a[x] = s[x]
  BY <1>1
<1>3. b \in Seq(S) /\ Len(b) = Len(s) /\ \A x \in 1 .. Len(s) : b[x] = t[x]
  BY <1>1
<1> HIDE DEF a, b
<1>4. DOMAIN a = 1 .. Len(s) /\ DOMAIN b = 1 .. Len(s) /\ \A x \in 1 .. Len(s) : a[x] = b[x]
  BY <1>2, <1>3
<1>5. a = b
  BY <1>2, <1>3, <1>4
<1> QED
  BY <1>1, <1>5 DEF a, b, IsPrefix

\* Every answer shown is a beginning of its run's text (ShowsPrefix).
THEOREM AnswersArePrefixes == Spec => []ShowsPrefix
<1>1. Types /\ PInv => ShowsPrefix
  <2> SUFFICES ASSUME Types, Faithful, NEW m \in Answers PROVE IsPrefix(m.got, Chunks(m.run))
    BY DEF PInv, ShowsPrefix
  <2>1. PICK i \in DOMAIN messages : messages[i] = m
    BY DEF Answers, ToSet
  <2>2. m \in Message /\ m.role = "assistant"
    BY <2>1 DEF Types, Answers
  <2>3. Part(m)
    BY <2>1, <2>2 DEF Faithful, Parts, Shown
  <2>4. m.got \in Seq(Feed) /\ DOMAIN m.got = 1 .. Len(m.got) /\ Len(m.got) \in Nat /\ Events \in Nat
    BY <2>2, Names DEF Message
  <2>5. /\ DOMAIN Chunks(m.run) = 1 .. (Events - 2)
        /\ \A x \in 1 .. (Events - 2) : Chunks(m.run)[x] = <<m.run, x + 1>>
    BY DEF Chunks
  <2>6. Len(m.got) <= Events - 2 /\ \A x \in 1 .. Len(m.got) : m.got[x] = <<m.run, x + 1>>
    BY <2>3 DEF Part
  <2> DEFINE S == (0 .. MaxSends) \X Nat
             t == Chunks(m.run)
  <2>7. t \in Seq(S) /\ Len(t) = Events - 2
    <3>1. m.run \in 0 .. MaxSends /\ Events - 2 \in Nat
      BY <2>2, StreamAssumption DEF Message
    <3>2. \A x \in 1 .. (Events - 2) : <<m.run, x + 1>> \in S
      BY <3>1
    <3> HIDE DEF S
    <3>3. t \in [1 .. (Events - 2) -> S]
      BY <3>2 DEF Chunks
    <3> HIDE DEF t
    <3> QED
      BY <3>1, <3>3
  <2>8. m.got \in Seq(S)
    <3>1. Feed \subseteq S
      BY Names DEF Feed, Runs
    <3>2. \A x \in 1 .. Len(m.got) : m.got[x] \in S
      BY <2>4, <3>1
    <3> QED
      BY <2>4, <3>2
  <2> HIDE DEF S, t
  <2>9. \A x \in 1 .. Len(m.got) : m.got[x] = t[x]
    <3>1. \A x \in 1 .. Len(m.got) : x \in 1 .. (Events - 2)
      BY <2>4, <2>6
    <3> QED
      BY <2>5, <2>6, <3>1 DEF t
  <2>10. IsPrefix(m.got, t)
    <3>1. Len(m.got) <= Len(t)
      BY <2>6, <2>7
    <3> QED
      BY <2>7, <2>8, <2>9, <3>1, PrefixIs
  <2> QED
    BY <2>10 DEF t
<1> QED
  BY <1>1, TypesHold, FaithfulHolds, PTL DEF TInv

-----------------------------------------------------------------------------
(* When the runs of a session follow one another, what has ended is whole. *)

\* The newest event seen is not of a later run than the one shown.
Latest == ui.streaming # None /\ ui.last # 0 => feed[ui.last][1] <= ui.run

\* An answer that does not stream is all of its run's text; one whose send is
\* not yet answered streams.
Ended(m) == m.run \notin {0} \cup missed /\ ~m.streaming => m.got = Chunks(m.run)
Asked(m) == \A k \in Runs : Waits(k) /\ m.id = <<"tmp", k>> => m.streaming
Finished == \A m \in Message : Shown(m) => Ended(m) /\ Asked(m)

NInv == InTurn /\ ~torn /\ spent.stops = 0 => Latest /\ Finished

LEMMA InTurnApart ==
  ASSUME Types, InTurn
  PROVE  ~Overlap
<1> SUFFICES ASSUME Overlap PROVE FALSE
  OBVIOUS
<1>1. PICK i, j, k \in DOMAIN feed :
        /\ i < j /\ j < k
        /\ feed[i][1] = feed[k][1] /\ feed[i][1] # feed[j][1]
        /\ home[feed[i][1]] = home[feed[j][1]]
  BY DEF Overlap
<1>2. feed[i][1] <= feed[j][1] /\ feed[j][1] <= feed[k][1]
  BY <1>1 DEF InTurn
<1>3. feed[i][1] \in Nat /\ feed[j][1] \in Nat
  <2>1. feed[i] \in Feed /\ feed[j] \in Feed
    BY DEF Types
  <2> QED
    BY <2>1, Names DEF Feed
<1> QED
  BY <1>1, <1>2, <1>3

LEMMA InTurnStep ==
  ASSUME Types, Homed, Told, [Next]_vars, InTurn'
  PROVE  InTurn
<1> SUFFICES ASSUME NEW i \in DOMAIN feed, NEW j \in DOMAIN feed, i < j,
                    home[feed[i][1]] = home[feed[j][1]]
             PROVE  feed[i][1] <= feed[j][1]
  BY DEF InTurn
<1>1. i \in DOMAIN feed' /\ j \in DOMAIN feed' /\ feed'[i] = feed[i] /\ feed'[j] = feed[j]
  BY FeedGrows
<1>2. feed[i][1] \in Runs /\ feed[j][1] \in Runs
  BY DEF Types, Feed
<1>3. home'[feed[i][1]] = home[feed[i][1]] /\ home'[feed[j][1]] = home[feed[j][1]]
  BY <1>2, HomedStep DEF Told
<1> QED
  BY <1>1, <1>3 DEF InTurn

\* Nothing of the run shown is taken for old.
LEMMA NotMasked ==
  ASSUME Types, Seen, InTurn, Latest, ui.streaming # None, ui.run \in Runs
  PROVE  ~Masked(ui.run)
<1> SUFFICES ASSUME Masked(ui.run) PROVE FALSE
  OBVIOUS
<1>1. PICK i \in DOMAIN feed : i < ui.last /\ feed[i][1] = ui.run
  BY DEF Masked
<1>2. ui.last \in DOMAIN feed
  <2>1. ui.last \in Nat /\ Len(feed) \in Nat /\ DOMAIN feed = 1 .. Len(feed)
    BY DEF Types, Uis
  <2> QED
    BY <2>1 DEF Seen, Masked
<1>3. feed[i][1] <= feed[ui.last][1]
  BY <1>1, <1>2 DEF InTurn, Masked
<1>4. feed[ui.last][1] <= ui.run /\ feed[ui.last][1] # ui.run
  BY DEF Latest, Masked
<1>5. feed[ui.last][1] \in Nat /\ ui.run \in Nat
  <2>1. feed[ui.last] \in Feed
    BY <1>2 DEF Types
  <2> QED
    BY <2>1, Names DEF Feed
<1> QED
  BY <1>1, <1>3, <1>4, <1>5

\* A beginning as long as the text is the text.
LEMMA AllOf ==
  ASSUME NEW m \in Message, Part(m), Len(m.got) >= Events - 2
  PROVE  m.got = Chunks(m.run)
<1>1. m.got \in Seq(Feed) /\ Len(m.got) \in Nat /\ Events - 2 \in Nat
  BY Names DEF Message
<1>2. Len(m.got) = Events - 2 /\ \A x \in 1 .. Len(m.got) : m.got[x] = <<m.run, x + 1>>
  BY <1>1 DEF Part
<1>3. m.got = [x \in 1 .. (Events - 2) |-> m.got[x]]
  BY <1>1, <1>2
<1> QED
  BY <1>2, <1>3 DEF Chunks

\* A step that changes no text and no ref.
LEMMA RestsLatest ==
  ASSUME Types, Seen, SameRefs, [Next]_vars, Latest
  PROVE  Latest'
<1> SUFFICES ASSUME ui'.streaming # None, ui'.last # 0 PROVE feed'[ui'.last][1] <= ui'.run
  BY DEF Latest
<1>1. ui.last \in DOMAIN feed
  <2>1. ui.last \in Nat /\ Len(feed) \in Nat /\ DOMAIN feed = 1 .. Len(feed)
    BY DEF Types, Uis
  <2> QED
    BY <2>1 DEF Seen, SameRefs
<1>2. feed'[ui.last] = feed[ui.last]
  BY <1>1, FeedGrows
<1> QED
  BY <1>2 DEF Latest, SameRefs

LEMMA RestsFinished ==
  ASSUME Types, Types', SInv, Linked, ~torn, Faithful, InTurn, Latest, Finished, Rests,
         spent'.stops = 0
  PROVE  Finished'
<1> SUFFICES ASSUME NEW w \in Message, Shown(w)' PROVE Ended(w)' /\ Asked(w)'
  BY DEF Finished
<1>1. PICK i \in DOMAIN messages' : messages'[i] = w
  BY DEF Shown
<1>2. PICK m \in Message : m = messages[i] /\ i \in DOMAIN messages
  BY <1>1 DEF Rests, SameTexts, Types
<1>3. m.id = w.id /\ m.role = w.role /\ m.run = w.run /\ m.got = w.got
  BY <1>1, <1>2 DEF Rests, SameTexts
<1>4. Shown(m)
  BY <1>2, <1>3 DEF Shown
<1>5. Ended(m) /\ Asked(m) /\ Part(m)
  BY <1>4 DEF Finished, Faithful, Parts
\* The stream has delivered the last event.
<1>6. ASSUME m.id = ui.streaming, NEW c \in Conns, conn[c].st # "none", conn[c].pos = Events
      PROVE  m.got = Chunks(m.run)
  <2>1. PICK r \in Runs : r = ui.run /\ conn[c].run = r /\ ui.streaming # None
    BY <1>6 DEF Linked, Wired
  <2>2. ~Waiting
    BY <1>6, NoStreamBeside DEF Waiting
  <2>3. Events \in Nat /\ Events > 2 /\ Count(r) \in Nat /\ Len(m.got) \in Nat
    <3>1. Count(r) \in Nat
      BY CountTyped DEF Types
    <3>2. Len(m.got) \in Nat
      BY DEF Message
    <3> QED
      BY <3>1, <3>2, Names
  <2>4. Events <= Count(r) /\ Known(<<r, Events - 1>>)
    <3>1. Events - 1 \in 2 .. (Events - 1) /\ Events - 1 <= Events
      BY <2>3
    <3> QED
      BY <1>6, <2>1, <3>1 DEF Faithful, Replayed, Serves
  <2>5. m.run = r /\ SeenUpto(r, Len(m.got) + 1)
    <3>1. Grows(m, r)
      BY <1>4, <1>6, <2>1 DEF Grows
    <3>2. ~Masked(r)
      BY <2>1, NotMasked DEF Faithful
    <3> QED
      BY <2>2, <3>1, <3>2 DEF Faithful, Grown
  <2>6. Events - 1 \in 2 .. (Events - 1) /\ Events - 1 <= Count(r)
    BY <2>3, <2>4
  <2>7. Events - 1 <= Len(m.got) + 1
    BY <2>4, <2>5, <2>6 DEF SeenUpto
  <2> QED
    BY <1>5, <2>3, <2>7, AllOf
<1>7. m.streaming /\ ~w.streaming =>
        \/ \E k \in Runs : m.id = <<"tmp", k>> /\ ~Waits(k)'
        \/ m.got = Chunks(m.run)
  <2> SUFFICES ASSUME m.streaming, ~w.streaming, \A k \in Runs : m.id = <<"tmp", k>> => Waits(k)'
               PROVE  m.got = Chunks(m.run)
    OBVIOUS
  <2>1. ~(spent'.stops > 0)
    OBVIOUS
  <2>2. m.id = ui.streaming /\ \E c \in Conns : conn[c].st # "none" /\ conn[c].pos = Events
    BY <1>1, <1>2, <2>1 DEF Rests, EndedRightly
  <2> QED
    BY <1>6, <2>2
<1>8. \A k \in Runs : m.id = <<"tmp", k>> => m.run = 0 /\ m.got = <<>> /\ m.id # ui.streaming
  BY <1>4 DEF Faithful, Unnamed
<1>9. Ended(w)'
  BY <1>3, <1>5, <1>7, <1>8 DEF Ended, Rests
<1>10. Asked(w)'
  <2> SUFFICES ASSUME NEW k \in Runs, Waits(k)', w.id = <<"tmp", k>>, ~w.streaming PROVE FALSE
    BY DEF Asked
  <2>1. Waits(k) /\ m.id = <<"tmp", k>>
    BY <1>3 DEF Rests
  <2>2. m.streaming
    BY <1>5, <2>1 DEF Asked
  <2>3. spent'.stops > 0 \/ (\E j \in Runs : m.id = <<"tmp", j>> /\ ~Waits(j)') \/ m.id = ui.streaming
    BY <1>1, <1>2, <2>2 DEF Rests, EndedRightly
  <2>4. \A j \in Runs : m.id = <<"tmp", j>> => j = k
    BY <2>1
  <2> QED
    BY <1>8, <2>1, <2>3, <2>4
<1> QED
  BY <1>9, <1>10

\* The view is emptied, or its stream is given up.
LEMMA BlankFinished == Types' /\ Blank => Latest' /\ Finished'
  BY DEF Blank, Latest, Finished, Shown

LEMMA LeavesFinished ==
  ASSUME Types, Types', Faithful, Linked, Finished, Leaves
  PROVE  Latest' /\ Finished'
<1>1. Latest'
  BY DEF Latest, Leaves
<1>2. ASSUME NEW w \in Message, Shown(w)' PROVE Ended(w)' /\ Asked(w)'
  <2>1. PICK i \in DOMAIN messages' : messages'[i] = w
    BY <1>2 DEF Shown
  <2>2. PICK m \in Message : m = messages[i] /\ i \in DOMAIN messages
    BY <2>1 DEF Leaves, SameTexts, Types
  <2>3. m.id = w.id /\ m.role = w.role /\ m.run = w.run /\ m.got = w.got
    BY <2>1, <2>2 DEF Leaves, SameTexts
  <2>4. Shown(m)
    BY <1>2, <2>2, <2>3 DEF Shown
  <2>5. Asked(w)'
    BY DEF Asked, Leaves
  <2>6. CASE m.id = ui.streaming
    <3>1. PICK r \in Runs : r = ui.run
      BY DEF Linked, Leaves
    <3>2. Grows(m, r)
      BY <2>4, <2>6, <3>1 DEF Grows, Leaves
    <3>3. m.run = ui.run
      BY <3>1, <3>2 DEF Faithful, Grown, Leaves
    <3>4. w.run \in missed'
      BY <2>3, <3>3 DEF Leaves
    <3> QED
      BY <2>5, <3>4 DEF Ended
  <2>7. CASE m.id # ui.streaming
    <3>1. w = m
      BY <2>1, <2>2, <2>7 DEF Leaves, Drop
    <3>2. Ended(m)
      BY <2>4 DEF Finished
    <3> QED
      BY <2>5, <3>1, <3>2 DEF Ended, Leaves
  <2> QED
    BY <2>6, <2>7
<1> QED
  BY <1>1, <1>2 DEF Finished

\* A message is sent, and its send answered.
LEMMA StartsFinished ==
  ASSUME Types, Types', UInv, Finished, NEW k \in Runs, Starts(k)
  PROVE  Latest' /\ Finished'
<1>1. Latest'
  BY DEF Latest, Starts
<1>2. ASSUME NEW w \in Message, Shown(w)' PROVE Ended(w)' /\ Asked(w)'
  <2>1. CASE w = Assistant(<<"tmp", k>>, 0, TRUE)
    <3>1. w.run = 0 /\ w.streaming
      BY <2>1 DEF Assistant
    <3> QED
      BY <3>1 DEF Ended, Asked
  <2>2. CASE Shown(w)
    <3>1. Ended(w)'
      BY <2>2 DEF Finished, Ended, Starts
    <3>2. w.id # <<"tmp", k>>
      <4>1. PICK i \in DOMAIN messages : messages[i] = w
        BY <2>2 DEF Shown
      <4> SUFFICES ASSUME w.id = <<"tmp", k>> PROVE FALSE
        OBVIOUS
      <4>2. k \in SentRuns
        BY <4>1 DEF UInv, Tidy, Proper
      <4> QED
        BY <4>2 DEF SentRuns, Starts
    <3>3. Asked(w)'
      BY <3>2 DEF Asked, Starts
    <3> QED
      BY <3>1, <3>3
  <2> QED
    BY <1>2, <2>1, <2>2, StartsShows
<1> QED
  BY <1>1, <1>2 DEF Finished

LEMMA BeginsFinished ==
  ASSUME Types, Types', Finished, NEW k \in Runs, Begins(k)
  PROVE  Latest' /\ Finished'
<1>1. Latest'
  BY DEF Latest, Begins
<1>2. ASSUME NEW w \in Message, Shown(w)' PROVE Ended(w)' /\ Asked(w)'
  <2>1. Asked(w)'
    BY DEF Asked, Begins
  <2>2. PICK m \in Message :
          /\ Shown(m) /\ w.got = m.got /\ w.streaming = m.streaming
          /\ \/ m.id = <<"tmp", k>> /\ w.id = <<"run", k>> /\ w.run = k
             \/ m.id # <<"tmp", k>> /\ w = m
    BY <1>2, BeginsShows
  <2>3. Ended(m) /\ (m.id = <<"tmp", k>> => m.streaming)
    BY <2>2 DEF Finished, Asked, Begins
  <2> QED
    BY <2>1, <2>2, <2>3 DEF Ended, Begins
<1> QED
  BY <1>1, <1>2 DEF Finished

\* A history is shown: what it shows has ended, or is still to come.
LEMMA ShowsOldFinished ==
  ASSUME Types, Types', Fed, Targeted, Told, Ordered, ~Overlap, DInv, NEW n \in Loads, ShowsOld(n)
  PROVE  Latest' /\ Finished'
<1> DEFINE old == History(load[n].events)
<1>1. Whole(old)
  BY LoadedHistory DEF ShowsOld, Arrives
<1>2. messages' = old
  BY DEF ShowsOld
<1> HIDE DEF old
<1>3. ASSUME NEW w \in Message, Shown(w)' PROVE w.got = Chunks(w.run)
  BY <1>1, <1>2, <1>3 DEF Shown, Whole
<1> QED
  BY <1>3 DEF Latest, Finished, Ended, Asked, ShowsOld, Arrives

LEMMA ShowsRunFinished ==
  ASSUME Types, Types', Fed, Targeted, Told, Ordered, ~Overlap, DInv, ReadTo,
         NEW n \in Loads, ShowsRun(n), feed' = feed
  PROVE  Latest' /\ Finished'
<1> DEFINE rs == load[n].events
<1> DEFINE old == History(rs)
<1>0. PICK r \in Runs : r = load[n].run
  BY DEF ShowsRun, Arrives, Targeted, TargetedAt, RunsOf
<1> DEFINE new == Prepared(old, r, n)
<1>1. /\ old \in Seq(MessagesOf(rs)) /\ NamedByRun(old) /\ Whole(old)
      /\ rs \subseteq RunsOf(load[n].target)
  BY LoadedHistory DEF ShowsRun, Arrives
<1>3. old \in Seq(Message)
  BY <1>1 DEF MessagesOf
<1>4. /\ messages' = new.ms /\ ui'.run = r /\ ui'.last = LastSeen(rs) /\ \A k \in Runs : ~Waits(k)'
  BY <1>0 DEF ShowsRun, Arrives
<1>5. LastSeen(rs) # 0 => LastSeen(rs) \in Stored(rs)
  BY LastSeenIs DEF Types
<1>6. \A q \in RunsOf(load[n].target) : q <= r
  BY <1>0 DEF ReadTo, ShowsRun, Arrives
<1>8. \/ /\ DOMAIN new.ms = DOMAIN old
         /\ \A i \in DOMAIN old :
              /\ new.ms[i].role = old[i].role /\ new.ms[i].run = old[i].run
              /\ new.ms[i].got = old[i].got
      \/ new.ms = Append(old, Assistant(<<"load", n>>, r, TRUE))
  BY <1>1, <1>3, PreparedIs
<1> HIDE DEF rs, old, new
<1>9. Latest'
  <2>1. LastSeen(rs) # 0 => feed[LastSeen(rs)][1] \in rs
    BY <1>5 DEF Stored
  <2> QED
    BY <1>1, <1>4, <1>6, <2>1 DEF Latest
<1>10. ASSUME NEW w \in Message, Shown(w)' PROVE w.streaming \/ w.got = Chunks(w.run)
  <2>1. PICK i \in DOMAIN messages' : messages'[i] = w /\ w.role = "assistant"
    BY <1>10 DEF Shown
  <2>2. CASE /\ DOMAIN new.ms = DOMAIN old
             /\ \A j \in DOMAIN old :
                  /\ new.ms[j].role = old[j].role /\ new.ms[j].run = old[j].run
                  /\ new.ms[j].got = old[j].got
    BY <1>1, <1>4, <2>1, <2>2 DEF Whole
  <2>3. CASE new.ms = Append(old, Assistant(<<"load", n>>, r, TRUE))
    <3> DEFINE a == Assistant(<<"load", n>>, r, TRUE)
    <3>1. a.streaming
      BY DEF Assistant
    <3>2. messages' = Append(old, a)
      BY <1>4, <2>3
    <3> HIDE DEF a
    <3>3. /\ DOMAIN Append(old, a) = 1 .. (Len(old) + 1) /\ Len(old) \in Nat /\ DOMAIN old = 1 .. Len(old)
          /\ \A x \in 1 .. Len(old) : Append(old, a)[x] = old[x]
          /\ Append(old, a)[Len(old) + 1] = a
      BY <1>3
    <3>4. (i \in DOMAIN old /\ w = old[i]) \/ w = a
      BY <2>1, <3>2, <3>3
    <3> QED
      BY <1>1, <2>1, <3>1, <3>4 DEF Whole
  <2> QED
    BY <1>8, <2>2, <2>3
<1> QED
  BY <1>4, <1>9, <1>10 DEF Finished, Ended, Asked

\* An event is delivered: the last one comes after all chunks.
LEMMA DeliverFinished ==
  ASSUME Types, Types', Fed, Ordered, Ordered', SInv, Linked, ~torn, Faithful, Faithful', InTurn,
         Latest, Finished, NEW c \in Conns, Deliver(c)
  PROVE  Latest' /\ Finished'
<1>1. PICK r \in Runs, p \in Nat, a \in DOMAIN feed :
        /\ conn[c].st # "none" /\ conn[c].run = r /\ conn[c].pos = p /\ p < Count(r)
        /\ ui.run = r /\ conn[c].msg = ui.streaming /\ ui.streaming # None /\ ~Waiting
        /\ feed[a] = <<r, p + 1>> /\ <<r, p + 1>> \in Feed /\ p + 1 \in 1 .. Events
        /\ UNCHANGED <<feed, home, phase, send, load, checks, timers, spent, torn, missed>>
        /\ \A d \in Conns \ {c} : conn'[d] = conn[d]
        /\ conn'[c].st = conn[c].st /\ conn'[c].run = r /\ conn'[c].pos = p + 1
  BY Delivered
<1>2. \A n \in 2 .. (Events - 1) : n <= p => Known(<<r, n>>)
  BY <1>1 DEF Faithful, Replayed, Serves
<1>3. ~Masked(r)
  BY <1>1, NotMasked DEF Faithful
<1>4. \A w : Asked(w)'
  BY <1>1 DEF Asked, Waiting, Waits
<1>5. CASE Known(<<r, p + 1>>)
  <2>1. ui' = ui /\ messages' = messages
    BY <1>1, <1>5 DEF Deliver
  <2> QED
    BY <1>1, <1>4, <2>1 DEF Latest, Finished, Ended, Shown
<1>6. CASE ~Known(<<r, p + 1>>)
  <2>1. /\ ui'.processed = ui.processed \cup {<<r, p + 1>>}
        /\ ui'.last = IF At(<<r, p + 1>>) > ui.last THEN At(<<r, p + 1>>) ELSE ui.last
        /\ ui'.run = ui.run /\ ui'.streaming = ui.streaming
        /\ \A w \in Message : Shown(w)' => \E m \in Message :
             /\ Shown(m) /\ w.id = m.id /\ w.run = m.run
             /\ m.id # ui.streaming => w = m
             /\ p + 1 = 1 => w = m
             /\ p + 1 = Events => w.got = m.got
             /\ m.id = ui.streaming /\ p + 1 \notin {1, Events} =>
                  w.got = Append(m.got, <<r, p + 1>>) /\ w.streaming = m.streaming
    BY <1>1, <1>6, Applied
  <2>2. ui'.last = a
    BY <1>1, <1>6, <2>1, KnownNow DEF Faithful
  <2>3. Latest'
    <3> DEFINE e == <<r, p + 1>>
    <3>1. e[1] = r
      OBVIOUS
    <3>2. feed'[ui'.last] = e
      BY <1>1, <2>2
    <3> HIDE DEF e
    <3>3. ui'.run = r /\ r <= r
      BY <1>1, <2>1, Names
    <3> QED
      BY <3>1, <3>2, <3>3 DEF Latest
  <2>4. ASSUME NEW w \in Message, Shown(w)' PROVE Ended(w)'
    <3>1. PICK m \in Message :
            /\ Shown(m) /\ w.id = m.id /\ w.run = m.run
            /\ m.id # ui.streaming => w = m
            /\ p + 1 = 1 => w = m
            /\ p + 1 = Events => w.got = m.got
            /\ m.id = ui.streaming /\ p + 1 \notin {1, Events} =>
                 w.got = Append(m.got, <<r, p + 1>>) /\ w.streaming = m.streaming
      BY <2>1, <2>4
    <3>2. Ended(m) /\ Part(m)
      BY <3>1 DEF Finished, Faithful, Parts
    <3>3. CASE w = m
      BY <1>1, <3>2, <3>3 DEF Ended
    <3>4. CASE m.id = ui.streaming /\ p + 1 # 1
      <4>1. Grows(m, r)
        BY <1>1, <3>1, <3>4 DEF Grows
      <4>2. m.run = r /\ SeenUpto(r, Len(m.got) + 1)
        BY <1>1, <1>3, <4>1 DEF Faithful, Grown
      <4>3. /\ p + 1 \in {1, Events} => w.got = m.got
            /\ p + 1 \notin {1, Events} => w.got = Append(m.got, <<r, p + 1>>)
        BY <3>1, <3>4
      <4>4. w.run = r /\ p < Count(r) /\ p + 1 \in 1 .. Events /\ m \in Message
        BY <1>1, <3>1, <4>2
      <4>5. /\ Part(w)
            /\ p + 1 \notin {1, Events} => Len(w.got) = Len(m.got) + 1
            /\ p + 1 = Events => Len(w.got) = Events - 2
        BY <1>2, <1>6, <3>2, <4>2, <4>3, <4>4, AnswerGrows
      <4>6. Events \in Nat /\ Events > 2
        BY Names
      <4>7. CASE p + 1 = Events
        <5>1. w.got = Chunks(w.run)
          BY <4>5, <4>6, <4>7, AllOf
        <5> QED
          BY <5>1 DEF Ended
      <4>8. CASE p + 1 # Events
        <5>1. m.streaming = w.streaming /\ Len(w.got) = Len(m.got) + 1 /\ Len(w.got) <= Events - 2
          BY <3>1, <3>4, <4>5, <4>8 DEF Part
        <5>2. Len(m.got) \in Nat /\ Len(Chunks(m.run)) = Events - 2
          BY <4>6 DEF Message, Chunks
        <5>3. m.got # Chunks(m.run)
          BY <4>6, <5>1, <5>2
        <5> QED
          BY <1>1, <3>1, <3>2, <5>1, <5>3 DEF Ended
      <4> QED
        BY <4>7, <4>8
    <3> QED
      BY <3>1, <3>3, <3>4
  <2> QED
    BY <1>4, <2>3, <2>4 DEF Finished
<1> QED
  BY <1>5, <1>6

LEMMA StepFinished ==
  ASSUME TInv, TInv', UInv, UInv', IInv, SInv, DInv, Linked, ReadTo, PInv, ~torn, ~torn',
         InTurn, Latest, Finished, spent'.stops = 0, [Next]_vars
  PROVE  Latest' /\ Finished'
<1>1. /\ Types /\ Types' /\ Fed /\ Homed /\ Targeted
      /\ Told /\ Ordered /\ Ordered' /\ ~Overlap
  BY InTurnApart DEF TInv, UInv
<1>2. Faithful /\ Faithful'
  BY <1>1, StepFaithful DEF PInv
<1>3. Rests \/ (Moves /\ feed' = feed /\ home' = home)
  BY <1>1, StepEffect
<1>4. CASE Rests
  <2>1. SameRefs /\ Seen
    BY <1>2, <1>4 DEF Rests, Faithful
  <2>2. Latest'
    BY <1>1, <2>1, RestsLatest
  <2> QED
    BY <1>1, <1>2, <1>4, <2>2, RestsFinished
<1>5. CASE Blank
  BY <1>1, <1>5, BlankFinished
<1>6. CASE Leaves
  BY <1>1, <1>2, <1>6, LeavesFinished
<1>7. CASE \E k \in Runs : Starts(k) \/ Begins(k)
  BY <1>1, <1>7, StartsFinished, BeginsFinished
<1>8. ASSUME NEW n \in Loads, ShowsOld(n) \/ ShowsRun(n), feed' = feed PROVE Latest' /\ Finished'
  BY <1>1, <1>8, ShowsOldFinished, ShowsRunFinished
<1>9. CASE \E c \in Conns : Deliver(c)
  BY <1>1, <1>2, <1>9, DeliverFinished
<1> QED
  BY <1>3, <1>4, <1>5, <1>6, <1>7, <1>8, <1>9 DEF Moves

LEMMA FinishedHolds == Spec => []NInv
<1>1. Init => NInv
  <2> SUFFICES ASSUME Init PROVE Latest /\ Finished
    BY DEF NInv
  <2>1. messages = <<>> /\ ui.streaming = None
    BY DEF Init
  <2> QED
    BY <2>1 DEF Latest, Finished, Shown
<1>2. /\ TInv /\ TInv' /\ UInv /\ UInv' /\ IInv /\ SInv /\ DInv /\ LInv /\ RInv /\ PInv /\ NInv
      /\ [Next]_vars
      => NInv'
  <2> SUFFICES ASSUME TInv, TInv', UInv, UInv', IInv, SInv, DInv, LInv, RInv, PInv, NInv,
                      [Next]_vars, InTurn', ~torn', spent'.stops = 0
               PROVE  Latest' /\ Finished'
    BY DEF NInv
  <2>1. ~torn
    BY TornStep
  <2>2. InTurn
    BY InTurnStep DEF TInv, UInv
  <2>3. spent.stops = 0
    BY StopsStep DEF TInv
  <2> QED
    BY <2>1, <2>2, <2>3, StepFinished DEF LInv, RInv, NInv
<1> QED
  BY <1>1, <1>2, TypesHold, NamesHold, InvariantHolds, OrderHolds, DoneHolds, LinksHold,
     ReadToHolds, FaithfulHolds, PTL DEF Spec

\* Once the view has settled it shows the whole of every run, of which it is
\* told nothing more (NothingMissing), when the session's runs followed one
\* another and none was stopped.
THEOREM AnswersAreWhole == Spec => []NothingMissing
<1>1. Types /\ NInv => NothingMissing
  <2> SUFFICES ASSUME NInv, Types, Settled, InTurn, ~torn, spent.stops = 0,
                      NEW m \in Answers, m.run \notin {0} \cup missed
               PROVE  m.got = Chunks(m.run)
    BY DEF NothingMissing
  <2>1. PICK i \in DOMAIN messages : messages[i] = m
    BY DEF Answers, ToSet
  <2>2. m \in Message /\ m.role = "assistant" /\ ~m.streaming
    BY <2>1 DEF Types, Answers, Settled, SessionRunning
  <2> QED
    BY <2>1, <2>2 DEF NInv, Finished, Ended, Shown
<1> QED
  BY <1>1, TypesHold, FinishedHolds, PTL DEF TInv
=============================================================================
