--------------------------- MODULE AgentStreamProofs ---------------------------
(***************************************************************************)
(* Proofs about AgentStream for any number of messages, streams, loads and *)
(* faults: at most one stream feeds the view (OneStream), everything keeps *)
(* its type (TypeOK), the answers shown are of the session the view names  *)
(* (InSession), and no message is shown twice (UniqueIds).                 *)
(*                                                                         *)
(* OneStream alone does not say which stream it is, so a step that aborts  *)
(* the one in abortControllerRef could leave another.  Current says that   *)
(* the ref holds it.                                                       *)
(*                                                                         *)
(* The types need three facts that are about more than one variable: the   *)
(* events a stream has yet to send are in the feed (Fed), so that At picks *)
(* one of its places; a run has its session from the moment it is accepted *)
(* (Homed); and a load names a session that has runs, and reads only those *)
(* (Targeted), so that CurrentRun picks one.  What a load shows is built   *)
(* by a recursive function over the whole feed: LoopIs says that there is  *)
(* one, NatSetInduction carries a fact from one step to the next.          *)
(*                                                                         *)
(* InSession needs to know what else is on its way (SInv): unless the view *)
(* was torn, a send that awaits its answer is alone with the view, of the  *)
(* load requests only the latest is not stale, and until it is answered no *)
(* run's answer is shown.                                                  *)
(*                                                                         *)
(* UniqueIds compares the ids of now; an answer gets another one when its  *)
(* run is known, so the invariant (UInv) compares the ids to be (Key).  In *)
(* the history a run's answer is in one piece because the run's events     *)
(* come in order and those of no other run of the session between them.    *)
(***************************************************************************)
EXTENDS AgentStream, FiniteSetTheorems, WellFoundedInduction, TLAPS

\* The shapes of the refs and of a stream, whatever is in the fields that do
\* not decide: V has their values.
Views(V) ==
  [session : V, run : V, streaming : V, ctl : Conns \cup {0}, connecting : BOOLEAN, sending : BOOLEAN,
   loading : BOOLEAN, loadingHistory : BOOLEAN, req : Int, disconnected : BOOLEAN,
   processed : V, last : V, timer : V]
Streams(V) ==
  [st : Active \cup {"none", "orphan"}, run : V, home : V, msg : V, pos : Int, owner : V,
   retried : BOOLEAN]

Basic == Int \cup {None}
Shaped(V, u, cs) == Basic \subseteq V /\ u \in Views(V) /\ cs \in [Conns -> Streams(V)]

\* Every stream that is read, asked for or refreshed is the one in the ref.
Current(u, cs) == \A c \in Conns : cs[c].st \in Active => u.ctl = c

Good(u, cs) == Current(u, cs) /\ \E V : Shaped(V, u, cs)

IInv == Good(ui, conn)

-----------------------------------------------------------------------------
\* A new stream is one.
LEMMA StreamShaped ==
  ASSUME NEW V, Basic \subseteq V, NEW run \in V, NEW sess \in V, NEW msg \in V, NEW owner \in V
  PROVE  Stream(run, sess, msg, owner) \in Streams(V)
<1>1. Idle \in Streams(V)
  BY DEF Idle, Streams, Basic
<1>2. \A i \in Streams(V) :
        [i EXCEPT !.st = "request", !.run = run, !.home = sess, !.msg = msg, !.owner = owner]
          \in Streams(V)
  BY DEF Streams, Active
<1> QED
  BY <1>1, <1>2 DEF Stream

\* Aborting the stream in the ref leaves none.
LEMMA CutAll ==
  ASSUME NEW V, Shaped(V, ui, conn), Current(ui, conn)
  PROVE  /\ Cut(conn, ui.ctl) \in [Conns -> Streams(V)]
         /\ \A c \in Conns : Cut(conn, ui.ctl)[c].st \notin Active
<1>1. ui.ctl \in Conns \cup {0} /\ 0 \notin Conns
  BY DEF Shaped, Views, Conns
<1>2. CASE ~Alive(ui.ctl)
  BY <1>1, <1>2 DEF Cut, Alive, Shaped, Current
<1>3. CASE Alive(ui.ctl)
  <2> DEFINE k == ui.ctl
             new == IF conn[k].st = "refresh" THEN [conn[k] EXCEPT !.st = "orphan", !.owner = 0] ELSE Idle
  <2>1. k \in Conns /\ conn[k] \in Streams(V)
    BY <1>1, <1>3 DEF Alive, Shaped
  <2>2. Idle \in Streams(V) /\ Idle.st = "none"
    BY DEF Idle, Streams, Shaped, Basic
  <2>3. new \in Streams(V) /\ new.st \notin Active
    <3>1. 0 \in V
      BY DEF Shaped, Basic
    <3>2. ASSUME NEW r \in Streams(V)
          PROVE  /\ [r EXCEPT !.st = "orphan", !.owner = 0] \in Streams(V)
                 /\ [r EXCEPT !.st = "orphan", !.owner = 0].st = "orphan"
      BY <3>1 DEF Streams
    <3>3. CASE conn[k].st = "refresh"
      BY <2>1, <3>2, <3>3 DEF Active
    <3>4. CASE conn[k].st # "refresh"
      BY <2>2, <3>4 DEF Active
    <3> QED
      BY <3>3, <3>4
  <2>4. Cut(conn, k) = [conn EXCEPT ![k] = new]
    BY <1>3 DEF Cut
  <2> HIDE DEF new
  <2>5. \A c \in Conns : Cut(conn, k)[c] = IF c = k THEN new ELSE conn[c]
    BY <2>4, <2>1 DEF Shaped
  <2> QED
    BY <2>1, <2>3, <2>4, <2>5 DEF Shaped, Current
<1> QED
  BY <1>2, <1>3

\* Aborting a stream beside one that is over.
LEMMA CutIdle ==
  ASSUME NEW S, conn \in [Conns -> S], NEW c \in Conns, NEW k \in Conns \cup {0}
  PROVE  Cut([conn EXCEPT ![c] = Idle], k) = [Cut(conn, k) EXCEPT ![c] = Idle]
<1> DEFINE cs == [conn EXCEPT ![c] = Idle]
<1>1. CASE ~Alive(k)
  BY <1>1 DEF Cut
<1>2. CASE Alive(k)
  <2> DEFINE Gone(r) == IF r.st = "refresh" THEN [r EXCEPT !.st = "orphan", !.owner = 0] ELSE Idle
  <2>1. k \in Conns /\ Idle.st # "refresh"
    BY <1>2 DEF Alive, Idle
  <2>2. Gone(Idle) = Idle
    BY <2>1
  <2>3. Cut(conn, k) = [conn EXCEPT ![k] = Gone(conn[k])] /\ Cut(cs, k) = [cs EXCEPT ![k] = Gone(cs[k])]
    BY <1>2, <2>1 DEF Cut
  <2> HIDE DEF Gone
  <2> QED
    BY <2>1, <2>2, <2>3
<1> QED
  BY <1>1, <1>2

\* What the finally blocks do does not touch the ref.
LEMMA AbortedKeeps ==
  ASSUME NEW V, NEW u \in Views(V), NEW c
  PROVE  Aborted(u, c) \in Views(V) /\ Aborted(u, c).ctl = u.ctl
  BY DEF Aborted, Finally, Views

\* Forgetting the stream and the reconnect that is due.
LEMMA QuietKeeps ==
  ASSUME NEW V, Shaped(V, ui, conn)
  PROVE  Quiet(ui) \in Views(V)
<1>1. 0 \in V /\ ui \in Views(V)
  BY DEF Shaped, Basic
<1> QED
  BY <1>1 DEF Quiet, Views

\* Taking a request number.
LEMMA NumberKeeps ==
  ASSUME NEW V, NEW q \in Views(V)
  PROVE  [q EXCEPT !.req = @ + 1] \in Views(V)
  BY DEF Views

\* connectToSSE() leaves its own stream, in the ref, or what it found.
LEMMA ConnectResult ==
  ASSUME NEW V, NEW u \in Views(V), NEW cs \in [Conns -> Streams(V)], Basic \subseteq V,
         NEW to \in Streams(V), Current(u, cs), Connect(u, cs, to),
         Cut(cs, u.ctl) \in [Conns -> Streams(V)],
         \A c \in Conns : Cut(cs, u.ctl)[c].st \notin Active,
         to.msg \in V
  PROVE  Good(ui', conn')
<1>1. CASE Busy(u)
  <2>1. conn' = cs
    BY <1>1 DEF Connect
  <2>2. ui' \in Views(V) /\ ui'.ctl = u.ctl
    BY <1>1 DEF Connect, Views
  <2> QED
    BY <2>1, <2>2 DEF Good, Current, Shaped
<1>2. CASE ~Busy(u)
  <2>1. PICK c \in FirstFree(Cut(cs, u.ctl)) :
          /\ ui' = Aborted([u EXCEPT !.connecting = TRUE, !.streaming = to.msg,
                                     !.ctl = c, !.disconnected = FALSE], u.ctl)
          /\ conn' = [Cut(cs, u.ctl) EXCEPT ![c] = to]
    BY <1>2 DEF Connect
  <2>2. c \in Conns
    BY DEF FirstFree
  <2> DEFINE w == [u EXCEPT !.connecting = TRUE, !.streaming = to.msg,
                            !.ctl = c, !.disconnected = FALSE]
  <2>3. w \in Views(V) /\ w.ctl = c
    BY <2>2 DEF Views
  <2> HIDE DEF w
  <2>4. ui' \in Views(V) /\ ui'.ctl = c
    BY <2>1, <2>3, AbortedKeeps DEF w
  <2>5. conn' \in [Conns -> Streams(V)] /\ \A d \in Conns \ {c} : conn'[d] = Cut(cs, u.ctl)[d]
    BY <2>1, <2>2
  <2> QED
    BY <2>2, <2>4, <2>5 DEF Good, Current, Shaped
<1> QED
  BY <1>1, <1>2

\* A call from the view as it is, or with only its flags and values changed.
LEMMA ConnectFrom ==
  ASSUME NEW V, Shaped(V, ui, conn), Current(ui, conn), NEW u \in Views(V), u.ctl = ui.ctl,
         NEW to \in Streams(V), Connect(u, conn, to)
  PROVE  Good(ui', conn')
<1>1. to.msg \in V
  BY DEF Streams
<1>2. Current(u, conn)
  BY DEF Current
<1> QED
  BY <1>1, <1>2, CutAll, ConnectResult DEF Shaped

\* A user's action that aborts the stream and forgets it.
LEMMA CutIsGood ==
  ASSUME NEW V, Shaped(V, ui, conn), Current(ui, conn), NEW W, V \subseteq W,
         ui' \in Views(W), conn' = Cut(conn, ui.ctl)
  PROVE  Good(ui', conn')
<1>1. Streams(V) \subseteq Streams(W)
  BY DEF Streams
<1>2. conn' \in [Conns -> Streams(W)] /\ \A c \in Conns : conn'[c].st \notin Active
  BY <1>1, CutAll
<1> QED
  BY <1>2 DEF Good, Current, Shaped

\* The streams are left alone and so is the ref.
LEMMA RefIsGood ==
  ASSUME NEW V, Shaped(V, ui, conn), Current(ui, conn), NEW W, V \subseteq W,
         ui' \in Views(W), ui'.ctl = ui.ctl, conn' = conn
  PROVE  Good(ui', conn')
<1>1. Streams(V) \subseteq Streams(W)
  BY DEF Streams
<1>2. conn' \in [Conns -> Streams(W)]
  BY <1>1 DEF Shaped
<1> QED
  BY <1>2 DEF Good, Current, Shaped
\* More values.
LEMMA Widened ==
  ASSUME NEW V, Shaped(V, ui, conn), NEW W, V \subseteq W
  PROVE  Shaped(W, ui, conn)
<1>1. Views(V) \subseteq Views(W) /\ Streams(V) \subseteq Streams(W)
  BY DEF Views, Streams
<1> QED
  BY <1>1 DEF Shaped

\* The same with what is known of the events forgotten.
LEMMA ForgetIsGood ==
  ASSUME NEW V, Shaped(V, ui, conn), Current(ui, conn), NEW u \in Views(V),
         conn' = Cut(conn, ui.ctl), ui' = Aborted(ForgetSeen(u), ui.ctl)
  PROVE  Good(ui', conn')
<1> DEFINE W == V \cup {{}}
<1>1. {} \in W /\ V \subseteq W /\ 0 \in W
  BY DEF Shaped, Basic
<1> HIDE DEF W
<1>2. ForgetSeen(u) \in Views(W)
  BY <1>1 DEF ForgetSeen, Views
<1> QED
  BY <1>1, <1>2, AbortedKeeps, CutIsGood

\* A stream that was active goes on in another stage.
LEMMA SameStreams ==
  ASSUME NEW V, Shaped(V, ui, conn), Current(ui, conn), ui' \in Views(V), ui'.ctl = ui.ctl,
         NEW c \in Conns, conn[c].st \in Active, NEW st \in Active,
         conn' = [conn EXCEPT ![c].st = st]
  PROVE  Good(ui', conn')
<1>1. /\ conn' \in [Conns -> Streams(V)]
      /\ \A d \in Conns : conn'[d].st \in Active => conn[d].st \in Active
  BY DEF Shaped, Streams
<1> QED
  BY <1>1 DEF Good, Current, Shaped

-----------------------------------------------------------------------------
\* The steps of one stream.
LEMMA ConnStep ==
  ASSUME NEW V, Shaped(V, ui, conn), Current(ui, conn), NEW c \in Conns,
         ConnSteps(c) \/ Reject(c) \/ Break(c)
  PROVE  Good(ui', conn')
<1>1. CASE Open(c)
  <2>1. ui' \in Views(V) /\ ui'.ctl = ui.ctl
    BY <1>1 DEF Open, Shaped, Views
  <2>2. conn' = [conn EXCEPT ![c].st = "live"] /\ conn[c].st = "request"
    BY <1>1 DEF Open
  <2> QED
    BY <2>1, <2>2, SameStreams DEF Active
<1>2. CASE Reject(c)
  <2>1. ui' \in Views(V) /\ ui'.ctl = ui.ctl
    BY <1>2 DEF Reject, Shaped, Views
  <2>2. CASE conn' = conn
    BY <2>1, <2>2, RefIsGood
  <2>3. CASE conn' = [conn EXCEPT ![c].st = "refresh"]
    BY <1>2, <2>1, <2>3, SameStreams DEF Active, Reject
  <2> QED
    BY <1>2, <2>2, <2>3 DEF Reject
<1>3. CASE Break(c)
  <2>1. ui' \in Views(V) /\ ui'.ctl = ui.ctl
    BY <1>3 DEF Break, Shaped, Views
  <2>2. conn' = [conn EXCEPT ![c].st = "request", ![c].pos = 0] /\ conn[c].st \in Active
    BY <1>3 DEF Break, Active
  <2>3. /\ conn' \in [Conns -> Streams(V)]
        /\ \A d \in Conns : conn'[d].st \in Active => conn[d].st \in Active
    <3> DEFINE asked == [conn EXCEPT ![c].st = "request"]
    <3>1. /\ asked \in [Conns -> Streams(V)]
          /\ \A d \in Conns : asked[d].st \in Active => conn[d].st \in Active
      BY <2>2 DEF Shaped, Streams, Active
    <3>2. conn' = [asked EXCEPT ![c].pos = 0]
      BY <2>2
    <3> HIDE DEF asked
    <3> QED
      BY <3>1, <3>2 DEF Streams, Active
  <2> QED
    BY <2>1, <2>3 DEF Good, Current, Shaped
<1>4. CASE Close(c)
  <2>1. ui' \in Views(V) /\ ui'.ctl = ui.ctl
    BY <1>4 DEF Close, Finally, Shaped, Views
  <2>2. conn' = [conn EXCEPT ![c] = Idle] /\ Idle \in Streams(V) /\ Idle.st = "none"
    BY <1>4 DEF Close, Idle, Streams, Shaped, Basic
  <2>3. /\ conn' \in [Conns -> Streams(V)]
        /\ \A d \in Conns : conn'[d].st \in Active => conn[d].st \in Active
    BY <2>2 DEF Shaped, Active
  <2> QED
    BY <2>1, <2>3 DEF Good, Current, Shaped
<1>5. CASE Deliver(c)
  <2>1. /\ conn' \in [Conns -> Streams(V)]
        /\ \A d \in Conns : conn'[d].st \in Active => conn[d].st \in Active
    <3>1. conn' = [conn EXCEPT ![c].pos = @ + 1]
      BY <1>5 DEF Deliver
    <3> QED
      BY <3>1 DEF Shaped, Streams, Active
  <2> DEFINE e == <<conn[c].run, conn[c].pos + 1>>
  <2>2. CASE Known(e)
    <3>1. ui' = ui
      BY <1>5, <2>2 DEF Deliver
    <3> QED
      BY <2>1, <3>1 DEF Good, Current, Shaped
  <2>3. CASE ~Known(e)
    <3> DEFINE seen == ui.processed \cup {e}
               last == IF At(e) > ui.last THEN At(e) ELSE ui.last
               sess == IF e[2] = 1 /\ ui.session = 0 THEN conn[c].home ELSE ui.session
               over == ui.disconnected \/ e[2] = Events
               W == V \cup {seen, last, sess}
    <3>1. ui' = [ui EXCEPT !.processed = seen, !.last = last, !.session = sess, !.disconnected = over]
      BY <1>5, <2>3 DEF Deliver
    <3>2. seen \in W /\ last \in W /\ sess \in W /\ over \in BOOLEAN /\ V \subseteq W
      OBVIOUS
    <3> HIDE DEF seen, last, sess, over, W
    <3>3. ui' \in Views(W) /\ ui'.ctl = ui.ctl
      BY <3>1, <3>2 DEF Shaped, Views
    <3>4. Streams(V) \subseteq Streams(W)
      BY <3>2 DEF Streams
    <3>5. conn' \in [Conns -> Streams(W)] /\ Basic \subseteq W
      BY <2>1, <3>2, <3>4 DEF Shaped
    <3> QED
      BY <2>1, <3>3, <3>5 DEF Good, Current, Shaped
  <2> QED
    BY <2>2, <2>3
<1>6. CASE Refreshed(c)
  <2> DEFINE again == [Stream(conn[c].run, conn[c].home, conn[c].msg, 0) EXCEPT !.retried = TRUE]
             u == [ui EXCEPT !.connecting = FALSE]
             cs == [conn EXCEPT ![c] = Idle]
  <2>1. Connect(u, cs, again) /\ conn[c].st # "none"
    BY <1>6 DEF Refreshed
  <2>2. conn[c].run \in V /\ conn[c].home \in V /\ conn[c].msg \in V /\ Basic \subseteq V
    BY DEF Shaped, Streams
  <2>3. again \in Streams(V) /\ again.msg \in V
    <3>1. Stream(conn[c].run, conn[c].home, conn[c].msg, 0) \in Streams(V)
      BY <2>2, StreamShaped DEF Basic
    <3>2. again \in Streams(V)
      BY <3>1 DEF Streams
    <3> QED
      BY <3>2 DEF Streams
  <2>4. u \in Views(V) /\ u.ctl = ui.ctl /\ ui.ctl \in Conns \cup {0}
    BY DEF Shaped, Views
  <2>5. Idle \in Streams(V) /\ Idle.st \notin Active
    BY <2>2 DEF Idle, Streams, Basic, Active
  <2>6. cs \in [Conns -> Streams(V)] /\ Current(u, cs)
    BY <2>4, <2>5 DEF Shaped, Current
  <2>7. Cut(cs, u.ctl) = [Cut(conn, ui.ctl) EXCEPT ![c] = Idle]
    BY <2>4, CutIdle DEF Shaped
  <2>8. /\ Cut(cs, u.ctl) \in [Conns -> Streams(V)]
        /\ \A d \in Conns : Cut(cs, u.ctl)[d].st \notin Active
    BY <2>5, <2>7, CutAll
  <2> HIDE DEF again, u, cs
  <2> QED
    BY <2>1, <2>2, <2>3, <2>4, <2>6, <2>8, ConnectResult
<1> QED
  BY <1>1, <1>2, <1>3, <1>4, <1>5, <1>6 DEF ConnSteps

\* Sending a message, and what becomes of it.
LEMMA SendStep ==
  ASSUME NEW V, Shaped(V, ui, conn), Current(ui, conn), NEW k \in Runs, Send(k) \/ SendSteps(k)
  PROVE  Good(ui', conn')
<1>1. CASE Send(k)
  <2>1. CASE ui.sending
    <3>1. conn' = conn /\ ui' = [ui EXCEPT !.req = @ + 1]
      BY <1>1, <2>1 DEF Send
    <3>2. ui' \in Views(V) /\ ui'.ctl = ui.ctl
      BY <3>1 DEF Shaped, Views
    <3> QED
      BY <3>1, <3>2, RefIsGood
  <2>2. CASE ~ui.sending
    <3> DEFINE u == [Quiet(ui) EXCEPT !.req = @ + 1, !.connecting = FALSE, !.sending = TRUE,
                                     !.loading = TRUE]
    <3>1. conn' = Cut(conn, ui.ctl) /\ ui' = Aborted(ForgetSeen(u), ui.ctl)
      BY <1>1, <2>2 DEF Send
    <3>2. u \in Views(V)
      <4>1. Quiet(ui) \in Views(V)
        BY QuietKeeps
      <4>2. \A q \in Views(V) : [q EXCEPT !.connecting = FALSE, !.sending = TRUE,
                                          !.loading = TRUE] \in Views(V)
        BY DEF Views
      <4> QED
        BY <4>1, <4>2, NumberKeeps
    <3> HIDE DEF u
    <3> QED
      BY <3>1, <3>2, ForgetIsGood
  <2> QED
    BY <2>1, <2>2
<1>2. CASE Accept(k)
  BY <1>2, RefIsGood DEF Accept, Shaped
<1>3. CASE Submitted(k)
  <2> DEFINE sess == IF send[k].from = 0 THEN k ELSE ui.session
             u == [ui EXCEPT !.run = k, !.session = sess]
             W == V \cup {sess, home[k], <<"run", k>>}
             to == Stream(k, home[k], <<"run", k>>, k)
  <2>1. Connect(u, conn, to)
    BY <1>3 DEF Submitted
  <2>2. k \in V /\ Basic \subseteq W
    BY DEF Runs, Shaped, Basic
  <2>3. sess \in W /\ home[k] \in W /\ <<"run", k>> \in W /\ V \subseteq W
    OBVIOUS
  <2> HIDE DEF W, sess
  <2>4. u \in Views(W) /\ u.ctl = ui.ctl
    BY <2>2, <2>3 DEF Shaped, Views
  <2>5. to \in Streams(W)
    BY <2>2, <2>3, StreamShaped
  <2>6. Shaped(W, ui, conn)
    BY <2>2, <2>3, Widened
  <2> HIDE DEF u, to
  <2> QED
    BY <2>1, <2>4, <2>5, <2>6, ConnectFrom
<1>4. CASE SubmitFails(k)
  <2>1. ui' \in Views(V) /\ ui'.ctl = ui.ctl
    BY <1>4 DEF SubmitFails, Shaped, Views
  <2> QED
    BY <1>4, <2>1, RefIsGood DEF SubmitFails
<1> QED
  BY <1>1, <1>2, <1>3, <1>4 DEF SendSteps

\* Loading a session.
LEMMA LoadStep ==
  ASSUME NEW V, Shaped(V, ui, conn), Current(ui, conn), NEW n \in Loads,
         LoadSteps(n) \/ \E s \in Runs : Load(n, s)
  PROVE  Good(ui', conn')
<1>1. ASSUME NEW s \in Runs, Load(n, s) PROVE Good(ui', conn')
  <2> DEFINE u == [Quiet(ui) EXCEPT !.req = @ + 1, !.connecting = FALSE, !.streaming = None,
                                   !.loading = TRUE, !.loadingHistory = TRUE]
  <2>1. conn' = Cut(conn, ui.ctl) /\ ui' = Aborted(ForgetSeen(u), ui.ctl)
    BY <1>1 DEF Load
  <2>2. u \in Views(V)
    <3>1. Quiet(ui) \in Views(V) /\ None \in V
      BY QuietKeeps DEF Shaped, Basic
    <3>2. \A q \in Views(V) : [q EXCEPT !.connecting = FALSE, !.streaming = None,
                                        !.loading = TRUE, !.loadingHistory = TRUE] \in Views(V)
      BY <3>1 DEF Views
    <3> QED
      BY <3>1, <3>2, NumberKeeps
  <2> HIDE DEF u
  <2> QED
    BY <2>1, <2>2, ForgetIsGood
<1>2. CASE LoadGet(n)
  <2> DEFINE W == V \cup {load[n].target}
  <2>1. load[n].target \in W /\ V \subseteq W
    OBVIOUS
  <2> HIDE DEF W
  <2>2. ui' \in Views(W) /\ ui'.ctl = ui.ctl
    <3>1. CASE Stale(n)
      BY <1>2, <2>1, <3>1 DEF LoadGet, Shaped, Views
    <3>2. CASE ~Stale(n)
      <4>1. ui' = [ui EXCEPT !.session = load[n].target]
        BY <1>2, <3>2 DEF LoadGet
      <4> QED
        BY <2>1, <4>1 DEF Shaped, Views
    <3> QED
      BY <3>1, <3>2
  <2> QED
    BY <1>2, <2>1, <2>2, RefIsGood DEF LoadGet
<1>3. ASSUME NEW what \in {"events", "status"}, LoadRead(n, what) PROVE Good(ui', conn')
  BY <1>3, RefIsGood DEF LoadRead, Shaped
<1>4. CASE LoadShow(n)
  <2>1. CASE UNCHANGED <<ui, conn>>
    BY <2>1, RefIsGood DEF Shaped
  <2>2. CASE ~Stale(n)
    <3> DEFINE stored == Stored(load[n].events)
               last == IF stored = {} THEN ui.last ELSE CHOOSE i \in stored : \A j \in stored : j <= i
               u == [ui EXCEPT !.last = last]
               new == Prepared(History(load[n].events), load[n].run, n)
               run == load[n].run
               W == V \cup {last, run, load[n].target, new.id}
    <3>1. CASE load[n].running
      <4>1. Connect(LoadDone([u EXCEPT !.run = run]), conn, Stream(run, load[n].target, new.id, 0))
        BY <1>4, <2>2, <3>1 DEF LoadShow
      <4>2. last \in W /\ run \in W /\ load[n].target \in W /\ new.id \in W /\ V \subseteq W
        OBVIOUS
      <4> HIDE DEF stored, last, new, W, run
      <4>3. Shaped(W, ui, conn)
        BY <4>2, Widened
      <4>4. Stream(run, load[n].target, new.id, 0) \in Streams(W)
        BY <4>2, <4>3, StreamShaped DEF Shaped, Basic
      <4>5. [u EXCEPT !.run = run] \in Views(W) /\ [u EXCEPT !.run = run].ctl = ui.ctl
        BY <4>2, <4>3 DEF Shaped, Views
      <4>6. \A w \in Views(W) : LoadDone(w) \in Views(W) /\ LoadDone(w).ctl = w.ctl
        BY DEF LoadDone, Views
      <4> HIDE DEF u
      <4> QED
        BY <4>1, <4>3, <4>4, <4>5, <4>6, ConnectFrom
    <3>2. CASE ~load[n].running
      <4>1. ui' = LoadDone(u) /\ conn' = conn
        BY <1>4, <2>2, <3>2 DEF LoadShow
      <4>2. last \in W /\ V \subseteq W
        OBVIOUS
      <4> HIDE DEF stored, last, new, W, run
      <4>3. u \in Views(W) /\ u.ctl = ui.ctl
        BY <4>2 DEF Shaped, Views
      <4> HIDE DEF u
      <4>4. ui' \in Views(W) /\ ui'.ctl = ui.ctl
        BY <4>1, <4>3 DEF LoadDone, Views
      <4> QED
        BY <4>1, <4>2, <4>4, RefIsGood
    <3> QED
      BY <3>1, <3>2
  <2> QED
    BY <1>4, <2>1, <2>2 DEF LoadShow
<1>5. CASE LoadFails(n)
  <2>1. ui' \in Views(V) /\ ui'.ctl = ui.ctl
    BY <1>5 DEF LoadFails, LoadDone, Shaped, Views
  <2> QED
    BY <1>5, <2>1, RefIsGood DEF LoadFails
<1> QED
  BY <1>1, <1>2, <1>3, <1>4, <1>5 DEF LoadSteps

\* Clearing, stopping, losing the network and waking up.
LEMMA PageStep ==
  ASSUME NEW V, Shaped(V, ui, conn), Current(ui, conn), Clear \/ Stop \/ Offline \/ Wake
  PROVE  Good(ui', conn')
<1>1. CASE Clear
  <2> DEFINE u == [Quiet(ui) EXCEPT !.req = @ + 1, !.session = 0, !.run = 0,
                                   !.streaming = None, !.disconnected = TRUE]
  <2>1. conn' = Cut(conn, ui.ctl) /\ ui' = Aborted(ForgetSeen(u), ui.ctl)
    BY <1>1 DEF Clear
  <2>2. u \in Views(V)
    <3>1. Quiet(ui) \in Views(V) /\ None \in V /\ 0 \in V
      BY QuietKeeps DEF Shaped, Basic
    <3>2. \A q \in Views(V) : [q EXCEPT !.session = 0, !.run = 0,
                                        !.streaming = None, !.disconnected = TRUE] \in Views(V)
      BY <3>1 DEF Views
    <3> QED
      BY <3>1, <3>2, NumberKeeps
  <2> HIDE DEF u
  <2> QED
    BY <2>1, <2>2, ForgetIsGood
<1>2. CASE Stop \/ Offline
  <2>1. ui' \in Views(V) /\ ui'.ctl = ui.ctl
    BY <1>2 DEF Stop, Offline, Shaped, Views
  <2> QED
    BY <1>2, <2>1, RefIsGood DEF Stop, Offline
<1>3. CASE Wake
  <2>1. conn' = Cut(conn, ui.ctl) /\ ui' = Aborted([Quiet(ui) EXCEPT !.connecting = FALSE], ui.ctl)
    BY <1>3 DEF Wake
  <2>2. [Quiet(ui) EXCEPT !.connecting = FALSE] \in Views(V)
    <3>1. Quiet(ui) \in Views(V)
      BY QuietKeeps
    <3> QED
      BY <3>1 DEF Views
  <2>3. ui' \in Views(V)
    BY <2>1, <2>2, AbortedKeeps
  <2> QED
    BY <2>1, <2>3, CutIsGood
<1> QED
  BY <1>1, <1>2, <1>3

\* The status of a run arrives; a reconnect is due.
LEMMA ReconnectStep ==
  ASSUME NEW V, Shaped(V, ui, conn), Current(ui, conn), NEW k, Checked(k) \/ Fire(k)
  PROVE  Good(ui', conn')
<1> DEFINE W == V \cup {k.n, k.run, k.home, k.msg}
<1>1. k.n \in W /\ k.run \in W /\ k.home \in W /\ k.msg \in W /\ V \subseteq W
  OBVIOUS
<1>2. Shaped(W, ui, conn)
  BY Widened
<1> HIDE DEF W
<1>3. CASE Checked(k)
  <2>1. \/ ui' = [ui EXCEPT !.disconnected = TRUE, !.streaming = None]
        \/ ui' = [ui EXCEPT !.disconnected = FALSE, !.timer = k.n]
    BY <1>3 DEF Checked
  <2>2. ui \in Views(W) /\ None \in W
    BY <1>2 DEF Shaped, Basic
  <2>3. ui' \in Views(W) /\ ui'.ctl = ui.ctl
    BY <1>1, <2>1, <2>2 DEF Views
  <2> QED
    BY <1>2, <1>3, <2>3, RefIsGood DEF Checked
<1>4. CASE Fire(k)
  <2>1. CASE UNCHANGED <<ui, conn>>
    BY <2>1, RefIsGood DEF Shaped
  <2>2. CASE Connect(ui, conn, Stream(k.run, k.home, k.msg, 0))
    <3>1. Stream(k.run, k.home, k.msg, 0) \in Streams(W)
      BY <1>1, <1>2, StreamShaped DEF Shaped, Basic
    <3>2. ui \in Views(W)
      BY <1>2 DEF Shaped
    <3> QED
      BY <1>2, <2>2, <3>1, <3>2, ConnectFrom
  <2> QED
    BY <1>4, <2>1, <2>2 DEF Fire
<1> QED
  BY <1>3, <1>4

-----------------------------------------------------------------------------
\* The ref holds the only stream, initially and after every step.
LEMMA InvariantHolds == Spec => []IInv
<1>1. Init => IInv
  <2> SUFFICES ASSUME Init PROVE IInv
    OBVIOUS
  <2> DEFINE V == Basic \cup {{}}
  <2>1. Basic \subseteq V /\ {} \in V /\ 0 \in V /\ None \in V
    BY DEF Basic
  <2> HIDE DEF V
  <2>2. ui \in Views(V)
    BY <2>1 DEF Init, Views
  <2>3. Idle \in Streams(V) /\ Idle.st = "none"
    BY <2>1 DEF Idle, Streams
  <2>4. conn \in [Conns -> Streams(V)] /\ \A c \in Conns : conn[c].st \notin Active
    BY <2>3 DEF Init, Active
  <2> QED
    BY <2>1, <2>2, <2>4 DEF IInv, Good, Current, Shaped
<1>2. IInv /\ [Next]_vars => IInv'
  <2> SUFFICES ASSUME IInv, [Next]_vars PROVE IInv'
    OBVIOUS
  <2>1. PICK V : Shaped(V, ui, conn) /\ Current(ui, conn)
    BY DEF IInv, Good
  <2>2. CASE \E r \in Runs : Emit(r) \/ Finish(r)
    BY <2>1, <2>2, RefIsGood DEF Emit, Finish, IInv, Shaped
  <2>3. CASE UNCHANGED vars
    BY <2>1, <2>3, RefIsGood DEF vars, IInv, Shaped
  <2>4. CASE \E c \in Conns : ConnSteps(c) \/ Reject(c) \/ Break(c)
    BY <2>1, <2>4, ConnStep DEF IInv
  <2>5. CASE (\E k \in Runs : SendSteps(k)) \/ (\E n \in Loads : LoadSteps(n))
    BY <2>1, <2>5, SendStep, LoadStep DEF IInv
  <2>6. CASE (\E k \in checks : Checked(k)) \/ (\E k \in timers : Fire(k))
    BY <2>1, <2>6, ReconnectStep DEF IInv
  <2>7. CASE User
    BY <2>1, <2>7, SendStep, LoadStep, PageStep DEF IInv, User
  <2> QED
    BY <2>2, <2>3, <2>4, <2>5, <2>6, <2>7 DEF Next
<1> QED
  BY <1>1, <1>2, PTL DEF Spec

\* At most one stream feeds the view, whatever the user, the server and the
\* network do: every way to open one aborts the other or is turned away
\* (connectToSSE, sendMessage, loadHistory, clearMessages, reconnectSSE and the
\* refresh after a 401).
THEOREM OnlyOneStream == Spec => []OneStream
<1>1. IInv => OneStream
  <2> SUFFICES ASSUME IInv PROVE Cardinality({c \in Conns : conn[c].st \in Active}) <= 1
    BY DEF OneStream
  <2> DEFINE read == {c \in Conns : conn[c].st \in Active}
  <2>1. read \in SUBSET {ui.ctl}
    BY DEF IInv, Good, Current
  <2> HIDE DEF read
  <2>2. IsFiniteSet({ui.ctl}) /\ Cardinality({ui.ctl}) = 1
    BY FS_Singleton
  <2>3. Cardinality(read) <= Cardinality({ui.ctl})
    BY <2>1, <2>2, FS_Subset
  <2> QED
    BY <2>2, <2>3 DEF read
<1> QED
  BY <1>1, InvariantHolds, PTL

-----------------------------------------------------------------------------
(* Least and greatest numbers, and loops over a sequence.                  *)

\* A set of naturals has a least one.
LEMMA LeastNat ==
  ASSUME NEW T, T \subseteq Nat, T # {}
  PROVE  \E x \in T : \A y \in T : x <= y
<1> DEFINE R == OpToRel(<, Nat)
<1>1. IsWellFoundedOn(R, Nat)
  BY NatLessThanWellFounded
<1>2. \A x, y \in Nat : <<x, y>> \in R <=> x < y
  BY DEF OpToRel
<1> HIDE DEF R
<1>3. PICK x \in T : \A y \in T : ~ (<<y, x>> \in R)
  BY <1>1, WFMin
<1>4. ASSUME NEW y \in T PROVE x <= y
  <2>1. ~ (y < x) /\ x \in Nat /\ y \in Nat
    BY <1>2, <1>3
  <2> QED
    BY <2>1
<1> QED
  BY <1>4

\* What holds of 0 and goes from each number to the next holds of all.
LEMMA NatSetInduction ==
  ASSUME NEW S, 0 \in S, \A n \in Nat : n \in S => n + 1 \in S
  PROVE  Nat \subseteq S
<1> SUFFICES ASSUME Nat \ S # {} PROVE FALSE
  OBVIOUS
<1>1. PICK x \in Nat \ S : \A y \in Nat \ S : x <= y
  BY LeastNat
<1>2. x # 0 /\ x - 1 \in Nat /\ (x - 1) + 1 = x
  BY <1>1
<1>3. x - 1 \in S
  BY <1>1, <1>2
<1> QED
  BY <1>2, <1>3

\* A set of numbers up to a bound has a greatest one.
LEMMA GreatestNat ==
  ASSUME NEW b \in Nat, NEW T, T \subseteq 0 .. b, T # {}
  PROVE  \E x \in T : \A y \in T : y <= x
<1> DEFINE S == {b - x : x \in T}
<1>1. S \subseteq Nat /\ S # {}
  <2>1. \A x \in T : x \in 0 .. b /\ b - x \in Nat
    OBVIOUS
  <2> QED
    BY <2>1
<1> HIDE DEF S
<1>2. PICK s \in S : \A t \in S : s <= t
  BY <1>1, LeastNat
<1>3. PICK x \in T : s = b - x
  BY DEF S
<1>4. ASSUME NEW y \in T PROVE y <= x
  <2>1. b - y \in S
    BY DEF S
  <2>2. b - x <= b - y
    BY <1>2, <1>3, <2>1
  <2>3. x \in 0 .. b /\ y \in 0 .. b
    OBVIOUS
  <2> QED
    BY <2>2, <2>3
<1> QED
  BY <1>4

\* What the loop has after i events, from what it had before.
StepOf(rs, f, i) ==
  IF i = 0 THEN [shown |-> <<>>, current |-> <<>>]
  ELSE IF i \in Stored(rs) THEN Rebuild(f[i - 1], feed[i]) ELSE f[i - 1]

\* The recursive function is there, however long the feed is.
LEMMA LoopExists ==
  ASSUME NEW rs, NEW n \in Nat
  PROVE  \E f : f = [i \in 0 .. n |-> StepOf(rs, f, i)]
<1> DEFINE S == {m \in Nat : \E f : f = [i \in 0 .. m |-> StepOf(rs, f, i)]}
<1>1. 0 \in S
  <2> DEFINE f == [i \in 0 .. 0 |-> [shown |-> <<>>, current |-> <<>>]]
  <2>1. f = [i \in 0 .. 0 |-> StepOf(rs, f, i)]
    BY DEF StepOf
  <2> HIDE DEF f
  <2> QED
    BY <2>1
<1>2. ASSUME NEW m \in Nat, m \in S PROVE m + 1 \in S
  <2>1. PICK f : f = [i \in 0 .. m |-> StepOf(rs, f, i)]
    BY <1>2
  <2> DEFINE g == [i \in 0 .. (m + 1) |-> IF i <= m THEN f[i] ELSE StepOf(rs, f, i)]
  <2>2. \A i \in 0 .. m : g[i] = f[i]
    OBVIOUS
  <2>3. ASSUME NEW i \in 0 .. (m + 1) PROVE g[i] = StepOf(rs, g, i)
    <3>1. StepOf(rs, g, i) = StepOf(rs, f, i)
      <4>1. CASE i = 0
        BY <4>1 DEF StepOf
      <4>2. CASE i # 0
        <5>1. i - 1 \in 0 .. m
          BY <4>2
        <5>2. g[i - 1] = f[i - 1]
          BY <2>2, <5>1
        <5> HIDE DEF g
        <5> QED
          BY <5>2, <4>2 DEF StepOf
      <4> QED
        BY <4>1, <4>2
    <3>2. g[i] = StepOf(rs, f, i)
      <4>1. CASE i <= m
        <5>1. i \in 0 .. m
          BY <4>1
        <5>2. f[i] = StepOf(rs, f, i)
          BY <2>1, <5>1
        <5> QED
          BY <5>2, <4>1
      <4>2. CASE ~(i <= m)
        BY <4>2
      <4> QED
        BY <4>1, <4>2
    <3> QED
      BY <3>1, <3>2
  <2>4. g = [i \in 0 .. (m + 1) |-> StepOf(rs, g, i)]
    <3>1. g = [i \in 0 .. (m + 1) |-> g[i]]
      OBVIOUS
    <3> HIDE DEF g
    <3> QED
      BY <3>1, <2>3
  <2> HIDE DEF g
  <2>5. \E h : h = [i \in 0 .. (m + 1) |-> StepOf(rs, h, i)]
    BY <2>4
  <2> QED
    BY <2>5
<1> HIDE DEF S
<1>3. Nat \subseteq S
  BY <1>1, <1>2, NatSetInduction
<1> QED
  BY <1>3 DEF S

\* The loop over the events is that function.
LEMMA LoopIs ==
  ASSUME NEW rs, feed \in Seq(Feed)
  PROVE  Loop(rs) = [i \in 0 .. Len(feed) |-> StepOf(rs, Loop(rs), i)]
<1>1. Len(feed) \in Nat
  OBVIOUS
<1>2. \E f : f = [i \in 0 .. Len(feed) |-> StepOf(rs, f, i)]
  BY <1>1, LoopExists
<1> QED
  BY <1>2 DEF Loop, StepOf

-----------------------------------------------------------------------------
(* Types.                                                                  *)

Uis ==
  [session : 0 .. MaxSends, run : 0 .. MaxSends, streaming : Ids,
   ctl : Conns \cup {0}, connecting : BOOLEAN, sending : BOOLEAN,
   loading : BOOLEAN, loadingHistory : BOOLEAN, req : Nat,
   disconnected : BOOLEAN, processed : SUBSET Feed, last : Nat,
   timer : 0 .. MaxWakes]
Sent == [st : {"none", "submit", "accepted", "over"}, from : 0 .. MaxSends]
Loaded == [st : {"none", "get", "fetch", "over"}, req : Nat,
           target : 0 .. MaxSends, run : 0 .. MaxSends,
           events : SUBSET Runs, running : BOOLEAN,
           got : SUBSET {"events", "status"}]
Opened == [st : Active \cup {"none", "orphan"}, run : 0 .. MaxSends,
           home : 0 .. MaxSends, msg : Ids, pos : 0 .. Events,
           owner : 0 .. MaxSends, retried : BOOLEAN]
Checking == [n : 1 .. MaxWakes, run : Runs, home : Runs, msg : Ids]
Spending == [loads : Nat, clears : Nat, stops : Nat, wakes : 0 .. MaxWakes,
             drops : Nat, rejects : Nat]

\* The events of a run are in the feed, from the first one on.
FedOf(r) ==
  /\ Count(r) <= Events
  /\ \A n \in 1 .. Count(r) : \E i \in DOMAIN feed : feed[i] = <<r, n>>
Fed == \A r \in Runs : FedOf(r)

\* A run has a session once it is accepted: its own or the one it was sent in.
HomedAt(k) ==
  /\ send[k].st \in {"none", "submit"} => home[k] = 0
  /\ send[k].st = "accepted" => home[k] = IF send[k].from = 0 THEN k ELSE send[k].from
Homed == \A k \in Runs : HomedAt(k)

\* A load that goes on is of a session that has runs, and reads only those.
TargetedAt(n) ==
  load[n].st \in {"get", "fetch"} =>
    /\ load[n].target \in Runs /\ RunsOf(load[n].target) # {}
    /\ load[n].events \subseteq RunsOf(load[n].target)
    /\ load[n].st = "fetch" => load[n].run \in RunsOf(load[n].target)
Targeted == \A n \in Loads : TargetedAt(n)

Types ==
  /\ feed \in Seq(Feed) /\ home \in [Runs -> 0 .. MaxSends]
  /\ phase \in [Runs -> {"none", "running", "traced", "completed"}]
  /\ ui \in Uis /\ messages \in Seq(Message) /\ send \in [Runs -> Sent]
  /\ load \in [Loads -> Loaded] /\ conn \in [Conns -> Opened]
  /\ checks \subseteq Checking /\ timers \subseteq Checking /\ spent \in Spending
TInv == Types /\ missed \subseteq Runs /\ Fed /\ Homed /\ Targeted

-----------------------------------------------------------------------------
\* They are the types that TypeOK states.
LEMMA TypesOf == Types /\ missed \subseteq Runs => TypeOK
  BY DEF Types, TypeOK, Uis, Sent, Loaded, Opened, Checking

\* Numbers and names.
LEMMA Names ==
  /\ 0 \in 0 .. MaxSends /\ Runs \subseteq 0 .. MaxSends /\ Runs \subseteq Nat \ {0}
  /\ None \in Ids /\ 0 \in 0 .. Events /\ Events \in Nat /\ Events > 2
  /\ 0 \in 0 .. MaxWakes /\ 1 .. MaxWakes \subseteq 0 .. MaxWakes
  /\ \A k \in Runs : <<"user", k>> \in Ids /\ <<"run", k>> \in Ids /\ <<"tmp", k>> \in Ids
  /\ \A n \in Loads : <<"load", n>> \in Ids
<1>1. MaxSends \in Nat /\ MaxWakes \in Nat /\ Events \in Nat \ (0 .. 2)
  BY StreamAssumption
<1>2. Events > 2
  BY <1>1
<1> QED
  BY <1>1, <1>2 DEF Runs, Ids, None

\* A new stream.
LEMMA IdleTyped == Idle \in Opened
  BY Names DEF Idle, Opened

\* One that is asked for.
LEMMA StreamTyped ==
  ASSUME NEW run \in 0 .. MaxSends, NEW sess \in 0 .. MaxSends, NEW msg \in Ids,
         NEW owner \in 0 .. MaxSends
  PROVE  Stream(run, sess, msg, owner) \in Opened
<1>1. Idle \in Opened
  BY IdleTyped
<1>2. \A i \in Opened :
        [i EXCEPT !.st = "request", !.run = run, !.home = sess, !.msg = msg, !.owner = owner]
          \in Opened
  BY DEF Opened, Active
<1> QED
  BY <1>1, <1>2 DEF Stream

\* Aborting a stream.
LEMMA CutTyped ==
  ASSUME NEW cs \in [Conns -> Opened], NEW c \in Conns \cup {0}
  PROVE  Cut(cs, c) \in [Conns -> Opened]
<1>1. CASE ~Alive(c)
  BY <1>1 DEF Cut
<1>2. CASE Alive(c)
  <2> DEFINE new == IF cs[c].st = "refresh" THEN [cs[c] EXCEPT !.st = "orphan", !.owner = 0] ELSE Idle
  <2>1. c \in Conns
    BY <1>2 DEF Alive
  <2>2. \A r \in Opened : [r EXCEPT !.st = "orphan", !.owner = 0] \in Opened
    BY Names DEF Opened
  <2>3. new \in Opened
    BY <2>1, <2>2, IdleTyped
  <2>4. Cut(cs, c) = [cs EXCEPT ![c] = new]
    BY <1>2 DEF Cut
  <2> HIDE DEF new
  <2> QED
    BY <2>3, <2>4
<1> QED
  BY <1>1, <1>2

\* The refs after the finally blocks.
LEMMA AbortedTyped ==
  ASSUME NEW u \in Uis, NEW c
  PROVE  /\ Aborted(u, c) \in Uis
         /\ Aborted(u, c).session = u.session /\ Aborted(u, c).req = u.req
         /\ Aborted(u, c).timer = u.timer
  BY DEF Aborted, Finally, Uis

\* After forgetting the stream and the reconnect that is due.
LEMMA QuietTyped ==
  ASSUME NEW u \in Uis
  PROVE  /\ Quiet(u) \in Uis
         /\ Quiet(u).session = u.session /\ Quiet(u).req = u.req /\ Quiet(u).timer = 0
  BY Names DEF Quiet, Uis

\* After forgetting the events.
LEMMA ForgetTyped ==
  ASSUME NEW u \in Uis
  PROVE  /\ ForgetSeen(u) \in Uis
         /\ ForgetSeen(u).session = u.session /\ ForgetSeen(u).req = u.req
         /\ ForgetSeen(u).timer = u.timer
  BY DEF ForgetSeen, Uis

\* When a load is over.
LEMMA LoadDoneTyped ==
  ASSUME NEW u \in Uis
  PROVE  /\ LoadDone(u) \in Uis
         /\ LoadDone(u).session = u.session /\ LoadDone(u).req = u.req
         /\ LoadDone(u).timer = u.timer
  BY DEF LoadDone, Uis

\* Opening a stream leaves the session, the numbers and the timer.
LEMMA ConnectKeeps ==
  ASSUME NEW u \in Uis, NEW cs, NEW to, to.msg \in Ids, Connect(u, cs, to)
  PROVE  /\ ui' \in Uis
         /\ ui'.session = u.session /\ ui'.req = u.req /\ ui'.timer = u.timer
<1>1. CASE Busy(u)
  BY <1>1 DEF Connect, Uis
<1>2. CASE ~Busy(u)
  <2>1. PICK c \in FirstFree(Cut(cs, u.ctl)) :
          ui' = Aborted([u EXCEPT !.connecting = TRUE, !.streaming = to.msg,
                                  !.ctl = c, !.disconnected = FALSE], u.ctl)
    BY <1>2 DEF Connect
  <2> DEFINE w == [u EXCEPT !.connecting = TRUE, !.streaming = to.msg,
                            !.ctl = c, !.disconnected = FALSE]
  <2>2. c \in Conns
    BY DEF FirstFree
  <2>3. w \in Uis /\ w.session = u.session /\ w.req = u.req /\ w.timer = u.timer
    BY <2>2 DEF Uis
  <2> HIDE DEF w
  <2> QED
    BY <2>1, <2>3, AbortedTyped DEF w
<1> QED
  BY <1>1, <1>2

\* Opening a stream.
LEMMA ConnectTyped ==
  ASSUME NEW u \in Uis, NEW cs \in [Conns -> Opened], NEW to \in Opened, Connect(u, cs, to)
  PROVE  ui' \in Uis /\ conn' \in [Conns -> Opened]
<1>1. to.msg \in Ids
  BY DEF Opened
<1>2. ui' \in Uis
  BY <1>1, ConnectKeeps
<1>3. CASE Busy(u)
  BY <1>2, <1>3 DEF Connect
<1>4. CASE ~Busy(u)
  <2>1. PICK c \in FirstFree(Cut(cs, u.ctl)) : conn' = [Cut(cs, u.ctl) EXCEPT ![c] = to]
    BY <1>4 DEF Connect
  <2>2. u.ctl \in Conns \cup {0}
    BY DEF Uis
  <2>3. Cut(cs, u.ctl) \in [Conns -> Opened]
    BY <2>2, CutTyped
  <2>4. conn' \in [Conns -> Opened]
    BY <2>1, <2>3
  <2> QED
    BY <1>2, <2>4
<1> QED
  BY <1>3, <1>4

-----------------------------------------------------------------------------
(* Messages whose answers are of the runs S, or of no run yet.             *)

MessagesOf(S) == {m \in Message : m.role = "assistant" => m.run \in S}

\* Every message is one of those.
LEMMA AnyMessage == MessagesOf(0 .. MaxSends) = Message
  BY DEF MessagesOf, Message

\* More runs; both of two sets of runs.
LEMMA MoreMessages ==
  ASSUME NEW S, NEW T, S \subseteq T, NEW ms \in Seq(MessagesOf(S))
  PROVE  ms \in Seq(MessagesOf(T))
<1>1. MessagesOf(S) \subseteq MessagesOf(T)
  BY DEF MessagesOf
<1>2. ms \in [1 .. Len(ms) -> MessagesOf(S)] /\ Len(ms) \in Nat
  OBVIOUS
<1>3. ms \in [1 .. Len(ms) -> MessagesOf(T)]
  BY <1>1, <1>2
<1> QED
  BY <1>2, <1>3

\* A sequence changed in place.
LEMMA Mapped ==
  ASSUME NEW T, NEW s \in Seq(T), NEW t, t = [i \in DOMAIN s |-> t[i]],
         \A i \in DOMAIN s : t[i] \in T
  PROVE  t \in Seq(T)
<1>1. DOMAIN s = 1 .. Len(s) /\ Len(s) \in Nat
  OBVIOUS
<1>2. t \in [1 .. Len(s) -> T]
  BY <1>1
<1> QED
  BY <1>1, <1>2

\* What is done to a message keeps its kind.
LEMMA FlaggedMessage ==
  ASSUME NEW S, NEW m \in MessagesOf(S), NEW b \in BOOLEAN
  PROVE  [m EXCEPT !.streaming = b] \in MessagesOf(S)
<1>1. m \in Message /\ (m.role = "assistant" => m.run \in S)
  BY DEF MessagesOf
<1>2. [m EXCEPT !.streaming = b] \in Message
  BY <1>1 DEF Message
<1>3. [m EXCEPT !.streaming = b].role = m.role /\ [m EXCEPT !.streaming = b].run = m.run
  BY <1>1 DEF Message
<1> QED
  BY <1>1, <1>2, <1>3 DEF MessagesOf

\* An event is added to its answer.
LEMMA GrownMessage ==
  ASSUME NEW S, NEW m \in MessagesOf(S), NEW e \in Feed
  PROVE  [m EXCEPT !.got = Append(@, e)] \in MessagesOf(S)
<1>1. m \in Message /\ (m.role = "assistant" => m.run \in S)
  BY DEF MessagesOf
<1>2. Append(m.got, e) \in Seq(Feed)
  <2>1. m.got \in Seq(Feed)
    BY <1>1 DEF Message
  <2> QED
    BY <2>1
<1> DEFINE g == Append(m.got, e)
<1>3. [m EXCEPT !.got = Append(@, e)] = [m EXCEPT !.got = g]
  OBVIOUS
<1>4. g \in Seq(Feed)
  BY <1>2
<1> HIDE DEF g
<1>5. /\ [m EXCEPT !.got = g] \in Message
      /\ [m EXCEPT !.got = g].role = m.role /\ [m EXCEPT !.got = g].run = m.run
  BY <1>1, <1>4 DEF Message
<1> QED
  BY <1>1, <1>3, <1>5 DEF MessagesOf

\* A user's message, and an answer with nothing in it yet.
LEMMA NewMessages ==
  /\ \A S : \A r \in Runs : UserMessage(r) \in MessagesOf(S)
  /\ \A S : \A r \in 0 .. MaxSends : \A id \in Ids : \A b \in BOOLEAN :
       r \in S => Assistant(id, r, b) \in MessagesOf(S)
<1>1. <<>> \in Seq(Feed)
  OBVIOUS
<1>2. ASSUME NEW r \in Runs PROVE UserMessage(r) \in Message /\ UserMessage(r).role = "user"
  BY <1>1, Names DEF UserMessage, Message
<1>3. ASSUME NEW r \in 0 .. MaxSends, NEW id \in Ids, NEW b \in BOOLEAN
      PROVE  Assistant(id, r, b) \in Message /\ Assistant(id, r, b).run = r
  BY <1>1 DEF Assistant, Message
<1> QED
  BY <1>2, <1>3 DEF MessagesOf

\* A message stops streaming.
LEMMA DropTyped ==
  ASSUME NEW S, NEW ms \in Seq(MessagesOf(S)), NEW id
  PROVE  Drop(ms, id) \in Seq(MessagesOf(S))
<1> DEFINE t == Drop(ms, id)
<1>1. \A i \in DOMAIN ms : ms[i] \in MessagesOf(S)
  OBVIOUS
<1>2. \A m \in MessagesOf(S) : [m EXCEPT !.streaming = FALSE] \in MessagesOf(S)
  BY FlaggedMessage
<1>3. t = [i \in DOMAIN ms |-> t[i]] /\ \A i \in DOMAIN ms : t[i] \in MessagesOf(S)
  BY <1>1, <1>2 DEF Drop
<1> HIDE DEF t
<1> QED
  BY <1>3, Mapped DEF t

\* A chunk is added to the messages that have the stream's id.
LEMMA GrowTyped ==
  ASSUME NEW S, NEW ms \in Seq(MessagesOf(S)), NEW id, NEW e \in Feed
  PROVE  [i \in DOMAIN ms |-> IF ms[i].id = id THEN [ms[i] EXCEPT !.got = Append(@, e)]
                              ELSE ms[i]] \in Seq(MessagesOf(S))
<1> DEFINE t == [i \in DOMAIN ms |-> IF ms[i].id = id THEN [ms[i] EXCEPT !.got = Append(@, e)]
                                     ELSE ms[i]]
<1>1. \A i \in DOMAIN ms : ms[i] \in MessagesOf(S)
  OBVIOUS
<1>2. \A m \in MessagesOf(S) : [m EXCEPT !.got = Append(@, e)] \in MessagesOf(S)
  BY GrownMessage
<1>3. t = [i \in DOMAIN ms |-> t[i]] /\ \A i \in DOMAIN ms : t[i] \in MessagesOf(S)
  BY <1>1, <1>2
<1> HIDE DEF t
<1>4. t \in Seq(MessagesOf(S))
  BY <1>3, Mapped
<1> QED
  BY <1>4 DEF t

\* A user's message is put where it belongs.
LEMMA InsertUserTyped ==
  ASSUME NEW S, NEW ms \in Seq(MessagesOf(S)), NEW r \in Runs
  PROVE  InsertUser(ms, r) \in Seq(MessagesOf(S))
<1> DEFINE streaming == {i \in DOMAIN ms : ms[i].role = "assistant" /\ ms[i].streaming}
           at == CHOOSE i \in streaming : \A j \in streaming : i <= j
           M == MessagesOf(S)
           u == UserMessage(r)
<1>1. u \in M
  BY NewMessages
<1>2. InsertUser(ms, r) \in {ms, Append(ms, u)} \/ (streaming # {} /\ InsertUser(ms, r) = InsertAt(ms, at, u))
  BY DEF InsertUser
<1>3. CASE streaming # {} /\ InsertUser(ms, r) = InsertAt(ms, at, u)
  <2>1. streaming \subseteq DOMAIN ms /\ DOMAIN ms = 1 .. Len(ms) /\ Len(ms) \in Nat
    OBVIOUS
  <2>2. streaming \subseteq Nat
    BY <2>1
  <2> HIDE DEF streaming
  <2>3. \E i \in streaming : \A j \in streaming : i <= j
    BY <1>3, <2>2, LeastNat
  <2>4. at \in streaming
    BY <2>3
  <2>5. at \in 1 .. Len(ms)
    BY <2>1, <2>4
  <2> HIDE DEF at, M, u
  <2>6. SubSeq(ms, 1, at - 1) \in Seq(M) /\ SubSeq(ms, at, Len(ms)) \in Seq(M) /\ <<u>> \in Seq(M)
    BY <1>1, <2>5 DEF M
  <2> QED
    BY <1>3, <2>6 DEF InsertAt, M
<1>4. CASE InsertUser(ms, r) \in {ms, Append(ms, u)}
  <2> HIDE DEF u, M
  <2>1. Append(ms, u) \in Seq(M)
    BY <1>1 DEF M
  <2> QED
    BY <1>4, <2>1 DEF M
<1> QED
  BY <1>2, <1>3, <1>4

\* What an event does to the messages.
LEMMA ApplyTyped ==
  ASSUME NEW S, NEW ms \in Seq(MessagesOf(S)), NEW id, NEW e \in Feed
  PROVE  Apply(ms, id, e) \in Seq(MessagesOf(S))
<1>1. e[1] \in Runs
  BY DEF Feed
<1> QED
  BY <1>1, InsertUserTyped, DropTyped, GrowTyped DEF Apply

-----------------------------------------------------------------------------
(* The history of some runs.                                               *)

Built(S) == [shown : Seq(MessagesOf(S)), current : Seq(MessagesOf(S))]

\* One step of the loop.
LEMMA RebuildTyped ==
  ASSUME NEW S, NEW acc \in Built(S), NEW e \in Feed, e[1] \in S
  PROVE  Rebuild(acc, e) \in Built(S)
<1> DEFINE M == MessagesOf(S)
           pushed == IF acc.current = <<>> THEN acc.shown ELSE acc.shown \o acc.current
           n == Len(acc.shown)
           add(m) == [m EXCEPT !.got = Append(@, e)]
           a == Assistant(<<"run", e[1]>>, e[1], FALSE)
<1>1. acc.shown \in Seq(M) /\ acc.current \in Seq(M)
  BY DEF Built
<1>2. e[1] \in Runs /\ e[1] \in 0 .. MaxSends
  BY Names DEF Feed
<1>3. UserMessage(e[1]) \in M /\ a \in M
  BY <1>2, Names, NewMessages
<1>4. \A m \in M : add(m) \in M
  BY GrownMessage
<1>5. pushed \in Seq(M)
  <2> HIDE DEF M
  <2> QED
    BY <1>1
<1>6. CASE e[2] = 1
  <2>1. Rebuild(acc, e) = [shown |-> Append(pushed, UserMessage(e[1])), current |-> <<>>]
    BY <1>6 DEF Rebuild
  <2> HIDE DEF M, pushed
  <2>2. Append(pushed, UserMessage(e[1])) \in Seq(M) /\ <<>> \in Seq(M)
    BY <1>3, <1>5
  <2> QED
    BY <2>1, <2>2 DEF Built, M
<1>7. CASE e[2] # 1 /\ e[2] = Events
  <2>1. Rebuild(acc, e) = acc
    BY <1>7 DEF Rebuild
  <2> QED
    BY <2>1
<1>8. CASE e[2] # 1 /\ e[2] # Events /\ acc.current = <<>> /\ n > 0
           /\ acc.shown[n].role = "assistant" /\ acc.shown[n].run = e[1]
  <2> DEFINE grown == [acc.shown EXCEPT ![n] = add(acc.shown[n])]
  <2>1. Rebuild(acc, e) = [acc EXCEPT !.shown = grown]
    BY <1>8 DEF Rebuild
  <2> HIDE DEF M
  <2>2. n \in 1 .. Len(acc.shown) /\ acc.shown[n] \in M
    BY <1>1, <1>8
  <2>3. add(acc.shown[n]) \in M
    BY <1>4, <2>2
  <2> HIDE DEF add
  <2>4. grown \in Seq(M)
    BY <1>1, <2>2, <2>3
  <2> HIDE DEF grown
  <2> QED
    BY <2>1, <2>4 DEF Built, M
<1>9. CASE e[2] # 1 /\ e[2] # Events /\ acc.current = <<>>
           /\ ~(n > 0 /\ acc.shown[n].role = "assistant" /\ acc.shown[n].run = e[1])
  <2>1. Rebuild(acc, e) = [acc EXCEPT !.current = <<add(a)>>]
    BY <1>9 DEF Rebuild
  <2>2. add(a) \in M
    BY <1>3, <1>4
  <2> HIDE DEF M, add, a
  <2>3. <<add(a)>> \in Seq(M)
    BY <2>2
  <2> QED
    BY <2>1, <2>3 DEF Built, M
<1>10. CASE e[2] # 1 /\ e[2] # Events /\ acc.current # <<>>
  <2>1. Rebuild(acc, e) = [acc EXCEPT !.current = <<add(acc.current[1])>>]
    BY <1>10 DEF Rebuild
  <2>2. acc.current[1] \in M
    <3> HIDE DEF M
    <3>1. Len(acc.current) \in Nat /\ Len(acc.current) # 0
      BY <1>1, <1>10
    <3> QED
      BY <1>1, <3>1
  <2>3. add(acc.current[1]) \in M
    BY <1>4, <2>2
  <2> HIDE DEF M, add
  <2>4. <<add(acc.current[1])>> \in Seq(M)
    BY <2>3
  <2> QED
    BY <2>1, <2>4 DEF Built, M
<1> QED
  BY <1>6, <1>7, <1>8, <1>9, <1>10

\* All of them: the answers in the history of runs S are of runs in S.
LEMMA HistoryTyped ==
  ASSUME feed \in Seq(Feed), NEW S
  PROVE  History(S) \in Seq(MessagesOf(S))
<1> DEFINE f == Loop(S)
           N == Len(feed)
           T == {m \in Nat : m <= N => f[m] \in Built(S)}
<1>1. f = [i \in 0 .. N |-> StepOf(S, f, i)] /\ N \in Nat
  BY LoopIs
<1>2. <<>> \in Seq(MessagesOf(S))
  OBVIOUS
<1>3. 0 \in T
  <2>1. f[0] = [shown |-> <<>>, current |-> <<>>]
    <3>1. 0 \in 0 .. N
      BY <1>1
    <3> HIDE DEF f, N
    <3>2. f[0] = StepOf(S, f, 0)
      BY <1>1, <3>1
    <3> QED
      BY <3>2 DEF StepOf
  <2>2. [shown |-> <<>>, current |-> <<>>] \in Built(S)
    BY <1>2 DEF Built
  <2> HIDE DEF f
  <2> QED
    BY <2>1, <2>2
<1>4. ASSUME NEW m \in Nat, m \in T PROVE m + 1 \in T
  <2> SUFFICES ASSUME m + 1 <= N PROVE f[m + 1] \in Built(S)
    OBVIOUS
  <2>1. f[m] \in Built(S)
    BY <1>1, <1>4
  <2>2. m + 1 \in 0 .. N /\ m + 1 \in DOMAIN feed /\ m + 1 # 0 /\ (m + 1) - 1 = m
    BY <1>1
  <2>3. feed[m + 1] \in Feed
    BY <2>2
  <2> HIDE DEF f, N, T
  <2>4. f[m + 1] = StepOf(S, f, m + 1)
    BY <1>1, <2>2
  <2>5. CASE m + 1 \in Stored(S)
    <3>1. f[m + 1] = Rebuild(f[m], feed[m + 1])
      BY <2>2, <2>4, <2>5 DEF StepOf
    <3>2. feed[m + 1][1] \in S
      BY <2>5 DEF Stored
    <3> QED
      BY <2>1, <2>3, <3>1, <3>2, RebuildTyped
  <2>6. CASE m + 1 \notin Stored(S)
    <3>1. f[m + 1] = f[m]
      BY <2>2, <2>4, <2>6 DEF StepOf
    <3> QED
      BY <2>1, <3>1
  <2> QED
    BY <2>5, <2>6
<1> HIDE DEF T
<1>5. Nat \subseteq T
  BY <1>3, <1>4, NatSetInduction
<1>6. f[N] \in Built(S)
  BY <1>1, <1>5 DEF T
<1>7. History(S) = f[N].shown \o f[N].current
  BY DEF History
<1> HIDE DEF f, N
<1> QED
  BY <1>6, <1>7 DEF Built

\* The answer to go on with.
LEMMA PreparedTyped ==
  ASSUME NEW S, NEW ms \in Seq(MessagesOf(S)), NEW r \in 0 .. MaxSends, r \in S, NEW n \in Loads
  PROVE  Prepared(ms, r, n).id \in Ids /\ Prepared(ms, r, n).ms \in Seq(MessagesOf(S))
<1> DEFINE M == MessagesOf(S)
           mine == {i \in DOMAIN ms : ms[i].role = "assistant" /\ ms[i].run = r}
           lastOne == CHOOSE i \in mine : \A j \in mine : j <= i
           t == [i \in DOMAIN ms |-> IF ms[i].id = ms[lastOne].id
                                     THEN [ms[i] EXCEPT !.streaming = TRUE] ELSE ms[i]]
<1>1. CASE mine = {}
  <2> DEFINE a == Assistant(<<"load", n>>, r, TRUE)
  <2>1. Prepared(ms, r, n) = [id |-> <<"load", n>>, ms |-> Append(ms, a)]
    BY <1>1 DEF Prepared
  <2>2. a \in M
    BY Names, NewMessages
  <2> HIDE DEF a, M
  <2>3. Append(ms, a) \in Seq(M)
    BY <2>2 DEF M
  <2> QED
    BY <2>1, <2>3, Names DEF M
<1>2. CASE mine # {}
  <2>1. Prepared(ms, r, n) = [id |-> ms[lastOne].id, ms |-> t]
    BY <1>2 DEF Prepared
  <2>2. Len(ms) \in Nat /\ DOMAIN ms = 1 .. Len(ms)
    OBVIOUS
  <2>3. mine \subseteq 0 .. Len(ms) /\ mine \subseteq DOMAIN ms
    BY <2>2
  <2> HIDE DEF mine
  <2>4. \E i \in mine : \A j \in mine : j <= i
    BY <1>2, <2>2, <2>3, GreatestNat
  <2>5. lastOne \in DOMAIN ms
    BY <2>3, <2>4
  <2> HIDE DEF lastOne
  <2>6. \A i \in DOMAIN ms : ms[i] \in M
    OBVIOUS
  <2>7. ms[lastOne].id \in Ids
    <3>1. ms[lastOne] \in Message
      BY <2>5, <2>6 DEF MessagesOf
    <3> QED
      BY <3>1 DEF Message
  <2>8. t = [i \in DOMAIN ms |-> t[i]] /\ \A i \in DOMAIN ms : t[i] \in M
    BY <2>6, FlaggedMessage
  <2> HIDE DEF t
  <2>9. t \in Seq(M)
    BY <2>8, Mapped
  <2> QED
    BY <2>1, <2>7, <2>9
<1> QED
  BY <1>1, <1>2

-----------------------------------------------------------------------------
(* The feed.                                                               *)

\* Counting a run's events.
LEMMA CountTyped ==
  ASSUME feed \in Seq(Feed), NEW r
  PROVE  /\ IsFiniteSet({i \in DOMAIN feed : feed[i][1] = r}) /\ Count(r) \in Nat
         /\ Count(r) > 0 => r \in Runs
<1> DEFINE mine == {i \in DOMAIN feed : feed[i][1] = r}
<1>1. Len(feed) \in Nat /\ DOMAIN feed = 1 .. Len(feed)
  OBVIOUS
<1>2. IsFiniteSet(1 .. Len(feed))
  BY <1>1, FS_Interval
<1>3. mine \in SUBSET (1 .. Len(feed))
  BY <1>1
<1>4. IsFiniteSet(mine)
  BY <1>2, <1>3, FS_Subset
<1>5. Cardinality(mine) \in Nat
  BY <1>4, FS_CardinalityType
<1>6. mine # {} => r \in Runs
  <2> SUFFICES ASSUME NEW i \in mine PROVE r \in Runs
    OBVIOUS
  <2>1. feed[i] \in Feed /\ feed[i][1] = r
    OBVIOUS
  <2> QED
    BY <2>1 DEF Feed
<1> HIDE DEF mine
<1>7. Cardinality(mine) > 0 => mine # {}
  <2>1. Cardinality({}) = 0
    BY FS_EmptySet
  <2> QED
    BY <2>1
<1> QED
  BY <1>4, <1>5, <1>6, <1>7 DEF Count, mine

\* An event a stream may still send is in the feed, at a place after 0.
LEMMA EventInFeed ==
  ASSUME feed \in Seq(Feed), Fed, NEW r, NEW n \in Nat, n < Count(r)
  PROVE  /\ r \in Runs /\ n + 1 \in 1 .. Events /\ <<r, n + 1>> \in Feed
         /\ At(<<r, n + 1>>) \in Nat
<1>1. r \in Runs /\ Count(r) \in Nat
  <2>1. Count(r) \in Nat /\ (Count(r) > 0 => r \in Runs)
    BY CountTyped
  <2> QED
    BY <2>1
<1>2. n + 1 \in 1 .. Count(r) /\ Count(r) <= Events
  BY <1>1 DEF Fed, FedOf
<1>3. n + 1 \in 1 .. Events /\ Events \in Nat
  BY <1>1, <1>2, Names
<1>4. PICK i \in DOMAIN feed : feed[i] = <<r, n + 1>>
  BY <1>1, <1>2 DEF Fed, FedOf
<1>5. At(<<r, n + 1>>) \in DOMAIN feed
  BY <1>4 DEF At
<1>6. DOMAIN feed \subseteq Nat
  OBVIOUS
<1> QED
  BY <1>1, <1>3, <1>5, <1>6 DEF Feed

\* The server's next event.
LEMMA Emitted ==
  ASSUME feed \in Seq(Feed), NEW r \in Runs, Emit(r)
  PROVE  /\ Len(feed) \in Nat /\ DOMAIN feed = 1 .. Len(feed)
         /\ DOMAIN feed' = 1 .. (Len(feed) + 1)
         /\ \A i \in DOMAIN feed : feed'[i] = feed[i]
         /\ feed'[Len(feed) + 1] = <<r, Count(r) + 1>>
         /\ Count(r) \in Nat /\ Count(r) + 1 \in 1 .. Events /\ feed' \in Seq(Feed)
         /\ \A q \in Runs : Count(q)' = IF q = r THEN Count(q) + 1 ELSE Count(q)
<1> DEFINE e == <<r, Count(r) + 1>>
<1>1. feed' = Append(feed, e) /\ Count(r) < Events
  BY DEF Emit
<1>2. Count(r) \in Nat /\ Events \in Nat
  BY CountTyped, Names
<1>3. e \in Feed /\ Count(r) + 1 \in 1 .. Events
  BY <1>1, <1>2 DEF Feed
<1>4. feed' \in Seq(Feed)
  BY <1>1, <1>3
<1>5. /\ Len(feed) \in Nat /\ DOMAIN feed = 1 .. Len(feed) /\ DOMAIN feed' = 1 .. (Len(feed) + 1)
      /\ \A i \in DOMAIN feed : feed'[i] = feed[i]
      /\ feed'[Len(feed) + 1] = e
  BY <1>1
<1>6. ASSUME NEW q \in Runs PROVE Count(q)' = IF q = r THEN Count(q) + 1 ELSE Count(q)
  <2> DEFINE old == {i \in DOMAIN feed : feed[i][1] = q}
             new == {i \in DOMAIN feed' : feed'[i][1] = q}
  <2>1. Count(q) = Cardinality(old) /\ Count(q)' = Cardinality(new) /\ IsFiniteSet(old)
    BY CountTyped DEF Count
  <2>2. ASSUME q # r PROVE new = old
    BY <1>5, <2>2
  <2>3. ASSUME q = r PROVE new = old \cup {Len(feed) + 1} /\ Len(feed) + 1 \notin old
    BY <1>5, <2>3
  <2> HIDE DEF old, new
  <2> QED
    BY <2>1, <2>2, <2>3, FS_AddElement
<1> QED
  BY <1>2, <1>3, <1>4, <1>5, <1>6

\* It is the next one of its run.
LEMMA EmitTyped ==
  ASSUME feed \in Seq(Feed), Fed, NEW r \in Runs, Emit(r)
  PROVE  feed' \in Seq(Feed) /\ Fed'
<1>1. feed' \in Seq(Feed) /\ Count(r) + 1 <= Events
  BY Emitted, Names
<1>2. ASSUME NEW q \in Runs PROVE FedOf(q)'
  <2>1. Count(q)' = IF q = r THEN Count(q) + 1 ELSE Count(q)
    BY Emitted
  <2>2. Count(q)' <= Events
    BY <1>1, <2>1 DEF Fed, FedOf
  <2>3. ASSUME NEW n \in 1 .. Count(q)' PROVE \E i \in DOMAIN feed' : feed'[i] = <<q, n>>
    <3>1. CASE n \in 1 .. Count(q)
      <4>1. PICK i \in DOMAIN feed : feed[i] = <<q, n>>
        BY <3>1 DEF Fed, FedOf
      <4>2. i \in DOMAIN feed' /\ feed'[i] = <<q, n>>
        BY <4>1, Emitted
      <4> QED
        BY <4>2
    <3>2. CASE n \notin 1 .. Count(q)
      <4>1. Count(q) \in Nat
        BY CountTyped
      <4>2. q = r /\ n = Count(q) + 1
        BY <2>1, <3>2, <4>1
      <4>3. Len(feed) + 1 \in DOMAIN feed' /\ feed'[Len(feed) + 1] = <<q, n>>
        BY <4>2, Emitted
      <4> QED
        BY <4>3
    <3> QED
      BY <3>1, <3>2
  <2> QED
    BY <2>2, <2>3 DEF FedOf
<1> QED
  BY <1>1, <1>2 DEF Fed

\* Without one the feed says what it said.
LEMMA SameFeed ==
  ASSUME feed' = feed, Fed
  PROVE  Fed'
<1>1. \A r : Count(r)' = Count(r)
  BY DEF Count
<1> QED
  BY <1>1 DEF Fed, FedOf

\* The latest run of a session that has runs.
LEMMA CurrentRunIs ==
  ASSUME NEW s, RunsOf(s) # {}
  PROVE  CurrentRun(s) \in RunsOf(s)
<1>1. RunsOf(s) \subseteq 0 .. MaxSends /\ MaxSends \in Nat
  BY Names, StreamAssumption DEF RunsOf
<1>2. \E r \in RunsOf(s) : \A q \in RunsOf(s) : q <= r
  BY <1>1, GreatestNat
<1> QED
  BY <1>2 DEF CurrentRun

-----------------------------------------------------------------------------
(* Every step keeps the types.                                             *)

\* A bound is used.
LEMMA SpendTyped ==
  ASSUME spent \in Spending, NEW what \in {"loads", "clears", "stops", "drops", "rejects"},
         NEW bound, Spend(what, bound)
  PROVE  spent' \in Spending
  BY DEF Spend, Spending

\* The tab's bound numbers the reconnects.
LEMMA WakeSpent ==
  ASSUME spent \in Spending, Spend("wakes", MaxWakes)
  PROVE  spent' \in Spending /\ spent'.wakes \in 1 .. MaxWakes
<1>1. MaxWakes \in Nat
  BY StreamAssumption
<1> QED
  BY <1>1 DEF Spend, Spending

\* The server.
LEMMA ServerTyped ==
  ASSUME Types, Fed, NEW r \in Runs, Emit(r) \/ Finish(r)
  PROVE  Types' /\ Fed'
<1>1. CASE Emit(r)
  BY <1>1, EmitTyped DEF Types, Emit
<1>2. CASE Finish(r)
  BY <1>2, SameFeed DEF Types, Finish
<1> QED
  BY <1>1, <1>2

\* One stream.
LEMMA ConnTyped ==
  ASSUME Types, Fed, NEW c \in Conns, ConnSteps(c) \/ Reject(c) \/ Break(c)
  PROVE  Types'
<1>1. conn[c] \in Opened /\ ui \in Uis
  BY DEF Types
<1>2. CASE Open(c)
  <2>1. ui' \in Uis
    BY <1>1, <1>2 DEF Open, Uis
  <2>2. [conn[c] EXCEPT !.st = "live"] \in Opened
    BY <1>1 DEF Opened, Active
  <2>3. conn' = [conn EXCEPT ![c] = [conn[c] EXCEPT !.st = "live"]]
    BY <1>2 DEF Open, Types
  <2> QED
    BY <1>2, <2>1, <2>2, <2>3 DEF Open, Types, server
<1>3. CASE Reject(c)
  <2>1. ui' \in Uis
    BY <1>1, <1>3 DEF Reject, Uis
  <2>2. [conn[c] EXCEPT !.st = "refresh"] \in Opened
    BY <1>1 DEF Opened, Active
  <2>3. conn' \in {conn, [conn EXCEPT ![c] = [conn[c] EXCEPT !.st = "refresh"]]}
    BY <1>3 DEF Reject, Types
  <2>4. conn' \in [Conns -> Opened]
    BY <2>2, <2>3 DEF Types
  <2> QED
    BY <1>3, <2>1, <2>4, SpendTyped DEF Reject, Types, server
<1>4. CASE Break(c)
  <2>1. ui' \in Uis
    BY <1>1, <1>4 DEF Break, Uis
  <2>2. [conn[c] EXCEPT !.st = "request", !.pos = 0] \in Opened
    BY <1>1, Names DEF Opened, Active
  <2>3. conn' = [conn EXCEPT ![c] = [conn[c] EXCEPT !.st = "request", !.pos = 0]]
    BY <1>4 DEF Break, Types
  <2>4. conn' \in [Conns -> Opened]
    BY <2>2, <2>3 DEF Types
  <2> QED
    BY <1>4, <2>1, <2>4, SpendTyped DEF Break, Types, server
<1>5. CASE Close(c)
  <2>1. ui' \in Uis
    BY <1>1, <1>5 DEF Close, Finally, Uis
  <2>2. conn' \in [Conns -> Opened]
    BY <1>5, IdleTyped DEF Close, Types
  <2>3. messages' \in Seq(Message)
    BY <1>5, DropTyped, AnyMessage DEF Close, Types
  <2> QED
    BY <1>5, <2>1, <2>2, <2>3 DEF Close, Types, server
<1>6. CASE Deliver(c)
  <2> DEFINE e == <<conn[c].run, conn[c].pos + 1>>
  <2>1. conn[c].pos \in Nat /\ conn[c].pos < Count(conn[c].run)
    BY <1>1, <1>6 DEF Opened, Deliver
  <2>2. conn[c].pos + 1 \in 1 .. Events /\ e \in Feed /\ At(e) \in Nat
    BY <2>1, EventInFeed DEF Types
  <2>3. conn' \in [Conns -> Opened]
    <3>1. [conn[c] EXCEPT !.pos = @ + 1] \in Opened
      BY <1>1, <2>2 DEF Opened
    <3>2. conn' = [conn EXCEPT ![c] = [conn[c] EXCEPT !.pos = @ + 1]]
      BY <1>6 DEF Deliver, Types
    <3> QED
      BY <3>1, <3>2 DEF Types
  <2>4. ui' \in Uis /\ messages' \in Seq(Message)
    <3>1. CASE Known(e)
      BY <1>6, <3>1 DEF Deliver, Types
    <3>2. CASE ~Known(e)
      <4> DEFINE seen == ui.processed \cup {e}
                 last == IF At(e) > ui.last THEN At(e) ELSE ui.last
                 sess == IF e[2] = 1 /\ ui.session = 0 THEN conn[c].home ELSE ui.session
                 over == ui.disconnected \/ e[2] = Events
      <4>1. messages' = Apply(messages, conn[c].msg, e)
        BY <1>6, <3>2 DEF Deliver
      <4>2. ui' = [ui EXCEPT !.processed = seen, !.last = last, !.session = sess,
                             !.disconnected = over]
        BY <1>6, <3>2 DEF Deliver
      <4>3. seen \in SUBSET Feed /\ last \in Nat /\ sess \in 0 .. MaxSends /\ over \in BOOLEAN
        BY <1>1, <2>2 DEF Uis, Opened
      <4> HIDE DEF e, seen, last, sess, over
      <4>4. ui' \in Uis
        BY <1>1, <4>2, <4>3 DEF Uis
      <4>5. messages' \in Seq(Message)
        BY <2>2, <4>1, ApplyTyped, AnyMessage DEF Types
      <4> QED
        BY <4>4, <4>5
    <3> QED
      BY <3>1, <3>2
  <2> QED
    BY <1>6, <2>3, <2>4 DEF Deliver, Types, server
<1>7. CASE Refreshed(c)
  <2> DEFINE again == [Stream(conn[c].run, conn[c].home, conn[c].msg, 0) EXCEPT !.retried = TRUE]
             u == [ui EXCEPT !.connecting = FALSE]
             cs == [conn EXCEPT ![c] = Idle]
  <2>1. Connect(u, cs, again)
    BY <1>7 DEF Refreshed
  <2>2. again \in Opened
    <3>1. Stream(conn[c].run, conn[c].home, conn[c].msg, 0) \in Opened
      <4>1. conn[c].run \in 0 .. MaxSends /\ conn[c].home \in 0 .. MaxSends /\ conn[c].msg \in Ids
        BY <1>1 DEF Opened
      <4> QED
        BY <4>1, Names, StreamTyped
    <3> QED
      BY <3>1 DEF Opened
  <2>3. u \in Uis
    BY <1>1 DEF Uis
  <2>4. cs \in [Conns -> Opened]
    BY IdleTyped DEF Types
  <2> HIDE DEF again, u, cs
  <2>5. ui' \in Uis /\ conn' \in [Conns -> Opened]
    BY <2>1, <2>2, <2>3, <2>4, ConnectTyped
  <2> QED
    BY <1>7, <2>5 DEF Refreshed, Types, server
<1> QED
  BY <1>2, <1>3, <1>4, <1>5, <1>6, <1>7 DEF ConnSteps

\* Aborting the stream of the view.
LEMMA CutUi ==
  ASSUME Types
  PROVE  Cut(conn, ui.ctl) \in [Conns -> Opened]
<1>1. ui.ctl \in Conns \cup {0}
  BY DEF Types, Uis
<1> QED
  BY <1>1, CutTyped DEF Types

\* What remains due.
LEMMA DueTyped == ASSUME Types PROVE Due \subseteq Checking
  BY DEF Due, Types

\* Taking a request number.
LEMMA NumberTyped ==
  ASSUME NEW q \in Uis
  PROVE  /\ [q EXCEPT !.req = @ + 1] \in Uis /\ [q EXCEPT !.req = @ + 1].session = q.session
         /\ [q EXCEPT !.req = @ + 1].req = q.req + 1 /\ [q EXCEPT !.req = @ + 1].timer = q.timer
  BY DEF Uis

\* Sending a message, and its answer.
LEMMA SendTyped ==
  ASSUME Types, NEW k \in Runs, Send(k) \/ SendSteps(k)
  PROVE  Types'
<1>1. ui \in Uis /\ k \in 0 .. MaxSends /\ send[k] \in Sent
  BY Names DEF Types
<1>2. \A s \in {"none", "submit", "accepted", "over"} : [send[k] EXCEPT !.st = s] \in Sent
  BY <1>1 DEF Sent
<1>3. CASE Send(k) /\ ui.sending
  <2>1. ui' \in Uis
    BY <1>1, <1>3 DEF Send, Uis
  <2>2. send' \in [Runs -> Sent]
    BY <1>2, <1>3 DEF Send, Types
  <2> QED
    BY <1>3, <2>1, <2>2 DEF Send, Types, server
<1>4. CASE Send(k) /\ ~ui.sending
  <2> DEFINE u == [Quiet(ui) EXCEPT !.req = @ + 1, !.connecting = FALSE, !.sending = TRUE,
                                   !.loading = TRUE]
             more == <<UserMessage(k), Assistant(<<"tmp", k>>, 0, TRUE)>>
             s == [st |-> "submit", from |-> ui.session]
  <2>1. /\ ui' = Aborted(ForgetSeen(u), ui.ctl) /\ conn' = Cut(conn, ui.ctl) /\ timers' = Due
        /\ messages' = messages \o more /\ send' = [send EXCEPT ![k] = s]
    BY <1>4 DEF Send
  <2>2. ui' \in Uis
    <3>1. Quiet(ui) \in Uis
      BY <1>1, QuietTyped
    <3>2. \A q \in Uis : [q EXCEPT !.connecting = FALSE, !.sending = TRUE, !.loading = TRUE] \in Uis
      BY DEF Uis
    <3>3. u \in Uis
      BY <3>1, <3>2, NumberTyped
    <3> HIDE DEF u
    <3> QED
      BY <2>1, <3>3, ForgetTyped, AbortedTyped
  <2>3. messages' \in Seq(Message)
    <3>1. UserMessage(k) \in Message /\ Assistant(<<"tmp", k>>, 0, TRUE) \in Message
      BY NewMessages, AnyMessage, Names
    <3>2. \A a, b \in Message : <<a, b>> \in Seq(Message)
      OBVIOUS
    <3>3. more \in Seq(Message)
      BY <3>1, <3>2
    <3> HIDE DEF more
    <3> QED
      BY <2>1, <3>3 DEF Types
  <2>4. send' \in [Runs -> Sent]
    <3>1. s \in Sent
      BY <1>1 DEF Sent, Uis
    <3> HIDE DEF s
    <3> QED
      BY <2>1, <3>1 DEF Types
  <2> QED
    BY <1>4, <2>1, <2>2, <2>3, <2>4, CutUi, DueTyped DEF Send, Types, server
<1>5. CASE Accept(k)
  <2>1. send' \in [Runs -> Sent]
    BY <1>2, <1>5 DEF Accept, Types
  <2>2. home' \in [Runs -> 0 .. MaxSends] /\ phase' \in [Runs -> {"none", "running", "traced", "completed"}]
    BY <1>1, <1>5 DEF Accept, Types, Sent
  <2> QED
    BY <1>5, <2>1, <2>2 DEF Accept, Types
<1>6. CASE Submitted(k)
  <2> DEFINE sess == IF send[k].from = 0 THEN k ELSE ui.session
             u == [ui EXCEPT !.run = k, !.session = sess]
             to == Stream(k, home[k], <<"run", k>>, k)
             t == messages'
  <2>1. Connect(u, conn, to)
    BY <1>6 DEF Submitted
  <2>2. u \in Uis
    <3>1. sess \in 0 .. MaxSends
      BY <1>1 DEF Uis
    <3> HIDE DEF sess
    <3> QED
      BY <1>1, <3>1 DEF Uis
  <2>3. to \in Opened
    <3>1. home[k] \in 0 .. MaxSends /\ <<"run", k>> \in Ids
      BY Names DEF Types
    <3> QED
      BY <1>1, <3>1, StreamTyped
  <2> HIDE DEF u, to
  <2>4. ui' \in Uis /\ conn' \in [Conns -> Opened]
    BY <2>1, <2>2, <2>3, ConnectTyped DEF Types
  <2>5. messages' \in Seq(Message)
    <3>1. \A m \in Message : [m EXCEPT !.id = <<"run", k>>, !.run = k] \in Message
      BY <1>1, Names DEF Message
    <3>2. \A i \in DOMAIN messages : messages[i] \in Message
      BY DEF Types
    <3>3. t = [i \in DOMAIN messages |-> t[i]] /\ \A i \in DOMAIN messages : t[i] \in Message
      BY <1>6, <3>1, <3>2 DEF Submitted
    <3> HIDE DEF t
    <3>4. t \in Seq(Message)
      BY <3>3, Mapped DEF Types
    <3> QED
      BY <3>4 DEF t
  <2>6. send' \in [Runs -> Sent]
    BY <1>2, <1>6 DEF Submitted, Types
  <2> QED
    BY <1>6, <2>4, <2>5, <2>6 DEF Submitted, Types, server
<1>7. CASE SubmitFails(k)
  <2>1. ui' \in Uis
    BY <1>1, <1>7 DEF SubmitFails, Uis
  <2>2. send' \in [Runs -> Sent]
    BY <1>2, <1>7 DEF SubmitFails, Types
  <2>3. messages' \in Seq(Message)
    BY <1>7, DropTyped, AnyMessage DEF SubmitFails, Types
  <2> QED
    BY <1>7, <2>1, <2>2, <2>3, SpendTyped DEF SubmitFails, Types, server
<1> QED
  BY <1>3, <1>4, <1>5, <1>6, <1>7 DEF SendSteps

\* A session is opened.
LEMMA LoadTyped ==
  ASSUME Types, NEW n \in Loads, NEW s \in Runs, Load(n, s)
  PROVE  Types'
<1> DEFINE u == [Quiet(ui) EXCEPT !.req = @ + 1, !.connecting = FALSE, !.streaming = None,
                                 !.loading = TRUE, !.loadingHistory = TRUE]
           l == [NoLoad EXCEPT !.st = "get", !.req = ui'.req, !.target = s]
<1>1. /\ ui' = Aborted(ForgetSeen(u), ui.ctl) /\ conn' = Cut(conn, ui.ctl) /\ timers' = Due
      /\ messages' = <<>> /\ load' = [load EXCEPT ![n] = l] /\ Spend("loads", MaxLoads)
      /\ UNCHANGED <<server, send, checks>>
  BY DEF Load
<1>2. ui' \in Uis
  <2>1. Quiet(ui) \in Uis
    BY QuietTyped DEF Types
  <2>2. \A q \in Uis : [q EXCEPT !.connecting = FALSE, !.streaming = None,
                                   !.loading = TRUE, !.loadingHistory = TRUE] \in Uis
    BY Names DEF Uis
  <2>3. u \in Uis
    BY <2>1, <2>2, NumberTyped
  <2> HIDE DEF u
  <2> QED
    BY <1>1, <2>3, ForgetTyped, AbortedTyped
<1>3. load' \in [Loads -> Loaded]
  <2>1. NoLoad \in Loaded
    BY Names DEF NoLoad, Loaded
  <2>2. ui'.req \in Nat /\ s \in 0 .. MaxSends
    BY <1>2, Names DEF Uis
  <2>3. l \in Loaded
    BY <2>1, <2>2 DEF Loaded
  <2> HIDE DEF l
  <2> QED
    BY <1>1, <2>3 DEF Types
<1> HIDE DEF u, l
<1>4. messages' \in Seq(Message)
  BY <1>1
<1> QED
  BY <1>1, <1>2, <1>3, <1>4, CutUi, DueTyped, SpendTyped DEF Types, server

\* Its answers.
LEMMA LoadStepsTyped ==
  ASSUME Types, Targeted, NEW n \in Loads, LoadSteps(n)
  PROVE  Types'
<1>1. ui \in Uis /\ load[n] \in Loaded
  BY DEF Types
<1>2. \A s \in {"none", "get", "fetch", "over"} : [load[n] EXCEPT !.st = s] \in Loaded
  BY <1>1 DEF Loaded
<1>3. CASE LoadGet(n)
  <2>1. CASE Stale(n)
    <3>1. load' = [load EXCEPT ![n] = [load[n] EXCEPT !.st = "over"]] /\ ui' = ui
      BY <1>3, <2>1 DEF LoadGet, Types
    <3> QED
      BY <1>2, <1>3, <3>1 DEF LoadGet, Types, server
  <2>2. CASE ~Stale(n)
    <3> DEFINE r == CurrentRun(load[n].target)
    <3>1. r \in 0 .. MaxSends /\ load[n].target \in 0 .. MaxSends
      BY <1>3, CurrentRunIs, Names DEF LoadGet, Targeted, TargetedAt, RunsOf
    <3>2. load' = [load EXCEPT ![n] = [load[n] EXCEPT !.st = "fetch", !.run = r]]
          /\ ui' = [ui EXCEPT !.session = load[n].target]
      BY <1>3, <2>2 DEF LoadGet, Types
    <3> HIDE DEF r
    <3>3. [load[n] EXCEPT !.st = "fetch", !.run = r] \in Loaded
      BY <1>1, <3>1 DEF Loaded
    <3>4. ui' \in Uis
      BY <1>1, <3>1, <3>2 DEF Uis
    <3> QED
      BY <1>3, <3>2, <3>3, <3>4 DEF LoadGet, Types, server
  <2> QED
    BY <2>1, <2>2
<1>4. ASSUME NEW what \in {"events", "status"}, LoadRead(n, what) PROVE Types'
  <2> DEFINE es == IF what = "events"
                   THEN {r \in RunsOf(load[n].target) : phase[r] \in {"traced", "completed"}}
                   ELSE load[n].events
             going == IF what = "status" THEN phase[load[n].run] # "completed" ELSE load[n].running
             got == load[n].got \cup {what}
             l == [load[n] EXCEPT !.got = got, !.events = es, !.running = going]
  <2>1. load' = [load EXCEPT ![n] = l]
    BY <1>4 DEF LoadRead, Types
  <2>2. es \in SUBSET Runs /\ going \in BOOLEAN /\ got \in SUBSET {"events", "status"}
    BY <1>1 DEF RunsOf, Loaded
  <2> HIDE DEF es, going, got
  <2>3. l \in Loaded
    BY <1>1, <2>2 DEF Loaded
  <2> HIDE DEF l
  <2>4. load' \in [Loads -> Loaded]
    BY <2>1, <2>3 DEF Types
  <2>5. UNCHANGED <<server, ui, messages, send, conn, checks, timers, spent, torn, missed>>
    BY <1>4 DEF LoadRead
  <2> QED
    BY <2>4, <2>5 DEF Types, server
<1>5. CASE LoadShow(n)
  <2>1. load' \in [Loads -> Loaded]
    <3>1. load' = [load EXCEPT ![n] = [load[n] EXCEPT !.st = "over"]]
      BY <1>5 DEF LoadShow, Types
    <3> QED
      BY <1>2, <3>1 DEF Types
  <2>2. CASE Stale(n)
    BY <1>5, <2>1, <2>2 DEF LoadShow, Types, server
  <2>3. CASE ~Stale(n)
    <3> DEFINE old == History(load[n].events)
               stored == Stored(load[n].events)
               last == IF stored = {} THEN ui.last ELSE CHOOSE i \in stored : \A j \in stored : j <= i
               u == [ui EXCEPT !.last = last]
               r == load[n].run
               new == Prepared(old, r, n)
    <3>1. old \in Seq(Message) /\ r \in 0 .. MaxSends
      <4>1. old \in Seq(MessagesOf(load[n].events))
        BY HistoryTyped DEF Types
      <4>2. load[n].events \subseteq 0 .. MaxSends
        BY <1>1, Names DEF Loaded
      <4> HIDE DEF old
      <4> QED
        BY <1>1, <4>1, <4>2, MoreMessages, AnyMessage DEF Loaded
    <3>2. last \in Nat
      <4>1. CASE stored = {}
        BY <1>1, <4>1 DEF Uis
      <4>2. CASE stored # {}
        <5>1. Len(feed) \in Nat /\ stored \subseteq 0 .. Len(feed)
          BY DEF Stored, Types
        <5> HIDE DEF stored
        <5>2. \E i \in stored : \A j \in stored : j <= i
          BY <4>2, <5>1, GreatestNat
        <5>3. last \in stored
          BY <4>2, <5>2
        <5> HIDE DEF last
        <5> QED
          BY <5>1, <5>3
      <4> QED
        BY <4>1, <4>2
    <3> HIDE DEF old, stored, last
    <3>3. u \in Uis /\ [u EXCEPT !.run = r] \in Uis
      BY <1>1, <3>1, <3>2 DEF Uis
    <3>4. CASE load[n].running
      <4> DEFINE to == Stream(r, load[n].target, new.id, 0)
                 v == LoadDone([u EXCEPT !.run = r])
      <4>1. Connect(v, conn, to) /\ messages' = new.ms
        BY <1>5, <2>3, <3>4 DEF LoadShow, old, stored, last
      <4>2. new.id \in Ids /\ new.ms \in Seq(Message)
        BY <3>1, PreparedTyped, AnyMessage
      <4>3. to \in Opened
        BY <1>1, <3>1, <4>2, Names, StreamTyped DEF Loaded
      <4>4. v \in Uis
        BY <3>3, LoadDoneTyped
      <4> HIDE DEF to, v, new
      <4>5. ui' \in Uis /\ conn' \in [Conns -> Opened]
        BY <4>1, <4>3, <4>4, ConnectTyped DEF Types
      <4> QED
        BY <1>5, <2>1, <4>1, <4>2, <4>5 DEF LoadShow, Types, server
    <3>5. CASE ~load[n].running
      <4>1. ui' = LoadDone(u) /\ messages' = old /\ conn' = conn
        BY <1>5, <2>3, <3>5 DEF LoadShow, old, stored, last
      <4>2. ui' \in Uis
        BY <3>3, <4>1, LoadDoneTyped
      <4> QED
        BY <1>5, <2>1, <3>1, <4>1, <4>2 DEF LoadShow, Types, server
    <3> QED
      BY <3>4, <3>5
  <2> QED
    BY <2>2, <2>3
<1>6. CASE LoadFails(n)
  <2>1. load' = [load EXCEPT ![n] = [load[n] EXCEPT !.st = "over"]]
    BY <1>6 DEF LoadFails, Types
  <2>2. ui' \in Uis
    BY <1>1, <1>6, LoadDoneTyped DEF LoadFails
  <2> QED
    BY <1>2, <1>6, <2>1, <2>2, SpendTyped DEF LoadFails, Types, server
<1> QED
  BY <1>3, <1>4, <1>5, <1>6 DEF LoadSteps

\* Clearing, stopping, losing the network and waking up.
LEMMA PageTyped ==
  ASSUME Types, Clear \/ Stop \/ Offline \/ Wake
  PROVE  Types'
<1>1. ui \in Uis /\ Quiet(ui) \in Uis
  BY QuietTyped DEF Types
<1>2. CASE Clear
  <2> DEFINE u == [Quiet(ui) EXCEPT !.req = @ + 1, !.session = 0, !.run = 0,
                                   !.streaming = None, !.disconnected = TRUE]
  <2>1. /\ ui' = Aborted(ForgetSeen(u), ui.ctl) /\ conn' = Cut(conn, ui.ctl) /\ timers' = Due
        /\ messages' = <<>> /\ Spend("clears", MaxClears)
        /\ UNCHANGED <<server, send, load, checks>>
    BY <1>2 DEF Clear
  <2>2. \A q \in Uis : [q EXCEPT !.session = 0, !.run = 0, !.streaming = None,
                                 !.disconnected = TRUE] \in Uis
    BY Names DEF Uis
  <2>3. u \in Uis
    BY <1>1, <2>2, NumberTyped
  <2> HIDE DEF u
  <2>4. ui' \in Uis
    BY <2>1, <2>3, ForgetTyped, AbortedTyped
  <2>5. messages' \in Seq(Message)
    BY <2>1
  <2> QED
    BY <2>1, <2>4, <2>5, CutUi, DueTyped, SpendTyped DEF Types, server
<1>3. CASE Stop
  <2> DEFINE t == messages'
  <2>1. ui' \in Uis
    BY <1>1, <1>3 DEF Stop, Uis
  <2>2. \A m \in Message : [m EXCEPT !.streaming = FALSE] \in Message
    BY FlaggedMessage, AnyMessage
  <2>3. \A i \in DOMAIN messages : messages[i] \in Message
    BY DEF Types
  <2>4. t = [i \in DOMAIN messages |-> t[i]] /\ \A i \in DOMAIN messages : t[i] \in Message
    BY <1>3, <2>2, <2>3 DEF Stop
  <2> HIDE DEF t
  <2>5. t \in Seq(Message)
    BY <2>4, Mapped DEF Types
  <2> QED
    BY <1>3, <2>1, <2>5, SpendTyped DEF Stop, Types, server, t
<1>4. CASE Offline
  <2>1. ui' \in Uis
    BY <1>1, <1>4 DEF Offline, Uis
  <2> QED
    BY <1>4, <2>1, WakeSpent DEF Offline, Types, server
<1>5. CASE Wake
  <2> DEFINE k == [n |-> spent'.wakes, run |-> ui.run, home |-> ui.session, msg |-> ui.streaming]
             u == [Quiet(ui) EXCEPT !.connecting = FALSE]
  <2>1. /\ ui' = Aborted(u, ui.ctl) /\ conn' = Cut(conn, ui.ctl) /\ timers' = Due
        /\ checks' = checks \cup {k} /\ Spend("wakes", MaxWakes)
        /\ ui.session # 0 /\ ui.run # 0
        /\ UNCHANGED <<server, messages, send, load>>
    BY <1>5 DEF Wake
  <2>2. u \in Uis
    BY <1>1 DEF Uis
  <2>3. spent' \in Spending /\ spent'.wakes \in 1 .. MaxWakes
    BY <2>1, WakeSpent DEF Types
  <2>4. ui.session \in Runs /\ ui.run \in Runs /\ ui.streaming \in Ids
    BY <1>1, <2>1 DEF Uis, Runs
  <2>5. k \in Checking
    BY <2>3, <2>4 DEF Checking
  <2> HIDE DEF k, u
  <2>6. ui' \in Uis
    BY <2>1, <2>2, AbortedTyped
  <2> QED
    BY <2>1, <2>3, <2>5, <2>6, CutUi, DueTyped DEF Types, server
<1> QED
  BY <1>2, <1>3, <1>4, <1>5

\* The status arrives; a reconnect is due.
LEMMA ReconnectTyped ==
  ASSUME Types, NEW k \in Checking, Checked(k) \/ Fire(k)
  PROVE  Types'
<1>1. ui \in Uis /\ k.n \in 0 .. MaxWakes /\ k.run \in 0 .. MaxSends /\ k.home \in 0 .. MaxSends
      /\ k.msg \in Ids
  BY Names DEF Types, Checking
<1>2. CASE Checked(k)
  <2>1. ui' \in {[ui EXCEPT !.disconnected = TRUE, !.streaming = None],
                 [ui EXCEPT !.disconnected = FALSE, !.timer = k.n]}
    BY <1>2 DEF Checked
  <2>2. ui' \in Uis
    BY <1>1, <2>1, Names DEF Uis
  <2>3. messages' \in Seq(Message)
    <3>1. Drop(messages, k.msg) \in Seq(Message)
      BY DropTyped, AnyMessage DEF Types
    <3> QED
      BY <1>2, <3>1 DEF Checked, Types
  <2>4. checks' \subseteq Checking /\ timers' \subseteq Checking
    BY <1>2 DEF Checked, Types
  <2>5. spent' \in Spending
    <3>1. CASE Spend("drops", MaxDrops)
      BY <3>1, SpendTyped DEF Types
    <3> QED
      BY <1>2, <3>1 DEF Checked, Types
  <2> QED
    BY <1>2, <2>2, <2>3, <2>4, <2>5 DEF Checked, Types, server
<1>3. CASE Fire(k)
  <2>1. ui' \in Uis /\ conn' \in [Conns -> Opened]
    <3>1. CASE UNCHANGED <<ui, conn>>
      BY <3>1 DEF Types
    <3>2. CASE Connect(ui, conn, Stream(k.run, k.home, k.msg, 0))
      <4>1. Stream(k.run, k.home, k.msg, 0) \in Opened
        BY <1>1, Names, StreamTyped
      <4> QED
        BY <1>1, <3>2, <4>1, ConnectTyped DEF Types
    <3> QED
      BY <1>3, <3>1, <3>2 DEF Fire
  <2>2. timers' \subseteq Checking
    BY <1>3 DEF Fire, Types
  <2> QED
    BY <1>3, <2>1, <2>2 DEF Fire, Types, server
<1> QED
  BY <1>2, <1>3

\* Any step.
LEMMA StepTyped == Types /\ Fed /\ Targeted /\ [Next]_vars => Types' /\ Fed'
<1> SUFFICES ASSUME Types, Fed, Targeted, [Next]_vars PROVE Types' /\ Fed'
  OBVIOUS
<1>1. CASE \E r \in Runs : Emit(r) \/ Finish(r)
  BY <1>1, ServerTyped
<1>2. CASE \E c \in Conns : ConnSteps(c) \/ Reject(c) \/ Break(c)
  <2>1. feed' = feed
    BY <1>2 DEF ConnSteps, Open, Refreshed, Close, Deliver, Reject, Break, server
  <2> QED
    BY <1>2, <2>1, ConnTyped, SameFeed
<1>3. CASE (\E k \in Runs : SendSteps(k) \/ Send(k)) \/ (\E n \in Loads : LoadSteps(n))
  <2>1. feed' = feed
    BY <1>3 DEF SendSteps, Send, Accept, Submitted, SubmitFails, LoadSteps, LoadGet, LoadRead,
                LoadShow, LoadFails, server
  <2> QED
    BY <1>3, <2>1, SendTyped, LoadStepsTyped, SameFeed
<1>4. CASE (\E k \in checks : Checked(k)) \/ (\E k \in timers : Fire(k))
  <2>1. feed' = feed
    BY <1>4 DEF Checked, Fire, server
  <2> QED
    BY <1>4, <2>1, ReconnectTyped, SameFeed DEF Types
<1>5. CASE (\E n \in Loads, s \in Runs : Load(n, s)) \/ Clear \/ Stop \/ Offline \/ Wake
  <2>1. feed' = feed
    BY <1>5 DEF Load, Clear, Stop, Offline, Wake, server
  <2> QED
    BY <1>5, <2>1, LoadTyped, PageTyped, SameFeed
<1>6. CASE UNCHANGED vars
  BY <1>6, SameFeed DEF Types, vars, server
<1> QED
  BY <1>1, <1>2, <1>3, <1>4, <1>5, <1>6 DEF Next, User

-----------------------------------------------------------------------------
(* Sessions of runs and loads.                                             *)

\* A run gets its session when it is accepted and keeps it.
LEMMA HomedStep ==
  ASSUME Types, Homed, [Next]_vars
  PROVE  Homed' /\ \A k \in Runs : home[k] # 0 => home'[k] = home[k]
<1>1. CASE UNCHANGED <<home, send>>
  BY <1>1 DEF Homed, HomedAt
<1>2. ASSUME NEW k \in Runs, Accept(k) PROVE Homed' /\ \A r \in Runs : home[r] # 0 => home'[r] = home[r]
  <2>1. send[k] \in Sent /\ home[k] = 0 /\ k # 0
    BY <1>2, Names DEF Accept, Types, Homed, HomedAt
  <2>2. send' = [send EXCEPT ![k] = [send[k] EXCEPT !.st = "accepted"]]
    BY <1>2 DEF Accept, Types
  <2>3. send'[k].st = "accepted" /\ send'[k].from = send[k].from
    BY <2>1, <2>2 DEF Types, Sent
  <2>4. home'[k] = (IF send[k].from = 0 THEN k ELSE send[k].from)
    BY <1>2 DEF Accept, Types
  <2>5. \A r \in Runs \ {k} : send'[r] = send[r] /\ home'[r] = home[r]
    BY <1>2, <2>2 DEF Accept, Types
  <2> QED
    BY <2>1, <2>3, <2>4, <2>5 DEF Homed, HomedAt
<1>3. ASSUME NEW k \in Runs, Send(k) \/ Submitted(k) \/ SubmitFails(k)
      PROVE  Homed' /\ \A r \in Runs : home[r] # 0 => home'[r] = home[r]
  <2>1. home' = home /\ send[k] \in Sent
    BY <1>3 DEF Send, Submitted, SubmitFails, server, Types
  <2>2. \A r \in Runs \ {k} : send'[r] = send[r]
    BY <1>3 DEF Send, Submitted, SubmitFails, Types
  <2>3. \/ send'[k].st = "over"
        \/ send'[k].st = "submit" /\ send[k].st = "none"
    <3>1. CASE Send(k)
      <4>1. send[k].st = "none" /\ (send' = [send EXCEPT ![k].st = "over"]
                                    \/ send' = [send EXCEPT ![k] = [st |-> "submit", from |-> ui.session]])
        BY <3>1 DEF Send, Fresh
      <4> QED
        BY <2>1, <4>1 DEF Types, Sent
    <3>2. CASE Submitted(k) \/ SubmitFails(k)
      <4>1. send' = [send EXCEPT ![k].st = "over"]
        BY <3>2 DEF Submitted, SubmitFails
      <4> QED
        BY <2>1, <4>1 DEF Types, Sent
    <3> QED
      BY <1>3, <3>1, <3>2
  <2> QED
    BY <2>1, <2>2, <2>3 DEF Homed, HomedAt
<1>4. ASSUME NEW c \in Conns, ConnSteps(c) \/ Reject(c) \/ Break(c) PROVE UNCHANGED <<home, send>>
  BY <1>4 DEF ConnSteps, Open, Refreshed, Close, Deliver, Reject, Break, server
<1>5. ASSUME NEW n \in Loads, LoadSteps(n) \/ \E s \in Runs : Load(n, s) PROVE UNCHANGED <<home, send>>
  BY <1>5 DEF LoadSteps, LoadGet, LoadRead, LoadShow, LoadFails, Load, server
<1>6. ASSUME NEW k, Checked(k) \/ Fire(k) PROVE UNCHANGED <<home, send>>
  BY <1>6 DEF Checked, Fire, server
<1>7. ASSUME Clear \/ Stop \/ Offline \/ Wake PROVE UNCHANGED <<home, send>>
  BY <1>7 DEF Clear, Stop, Offline, Wake, server
<1>8. ASSUME NEW r \in Runs, Emit(r) \/ Finish(r) PROVE UNCHANGED <<home, send>>
  BY <1>8 DEF Emit, Finish
<1>9. ASSUME UNCHANGED vars PROVE UNCHANGED <<home, send>>
  BY <1>9 DEF vars, server
<1> QED
  BY <1>1, <1>2, <1>3, <1>4, <1>5, <1>6, <1>7, <1>8, <1>9 DEF Next, User, SendSteps

\* A load that goes on: its session has runs, of which it reads only those.
LEMMA TargetedStep ==
  ASSUME Types, Homed, Targeted, [Next]_vars
  PROVE  Targeted'
<1>1. \A k \in Runs : home[k] # 0 => home'[k] = home[k]
  BY HomedStep
<1>2. \A s \in Runs : RunsOf(s) \subseteq RunsOf(s)'
  BY <1>1, Names DEF RunsOf
<1>3. ASSUME NEW n \in Loads, load'[n] = load[n] PROVE TargetedAt(n)'
  BY <1>2, <1>3 DEF Targeted, TargetedAt
<1>4. ASSUME load' = load PROVE Targeted'
  BY <1>3, <1>4 DEF Targeted
<1>5. ASSUME NEW n \in Loads, LoadSteps(n) PROVE Targeted'
  <2>1. load[n] \in Loaded /\ home' = home
    BY <1>5 DEF Types, LoadSteps, LoadGet, LoadRead, LoadShow, LoadFails, server
  <2>2. \A m \in Loads \ {n} : load'[m] = load[m]
    BY <1>5 DEF Types, LoadSteps, LoadGet, LoadRead, LoadShow, LoadFails
  <2>3. \A s : RunsOf(s)' = RunsOf(s)
    BY <2>1 DEF RunsOf
  <2>4. TargetedAt(n)'
    <3>1. CASE LoadGet(n)
      <4>1. CASE Stale(n)
        <5>1. load'[n].st = "over"
          BY <2>1, <3>1, <4>1 DEF LoadGet, Types, Loaded
        <5> QED
          BY <5>1 DEF TargetedAt
      <4>2. CASE ~Stale(n)
        <5>1. CurrentRun(load[n].target) \in RunsOf(load[n].target)
          BY <3>1, CurrentRunIs DEF LoadGet, Targeted, TargetedAt
        <5>2. /\ load'[n].target = load[n].target /\ load'[n].events = load[n].events
              /\ load'[n].run = CurrentRun(load[n].target) /\ load'[n].st = "fetch"
          BY <2>1, <3>1, <4>2 DEF LoadGet, Types, Loaded
        <5> QED
          BY <2>3, <3>1, <5>1, <5>2 DEF LoadGet, Targeted, TargetedAt
      <4> QED
        BY <4>1, <4>2
    <3>2. ASSUME NEW what \in {"events", "status"}, LoadRead(n, what) PROVE TargetedAt(n)'
      <4> DEFINE es == IF what = "events"
                       THEN {r \in RunsOf(load[n].target) : phase[r] \in {"traced", "completed"}}
                       ELSE load[n].events
      <4>1. /\ load'[n].target = load[n].target /\ load'[n].events = es
            /\ load'[n].run = load[n].run /\ load'[n].st = "fetch" /\ load[n].st = "fetch"
        BY <2>1, <3>2 DEF LoadRead, Types, Loaded
      <4>2. es \subseteq RunsOf(load[n].target)
        BY <4>1 DEF Targeted, TargetedAt
      <4> HIDE DEF es
      <4> QED
        BY <2>3, <4>1, <4>2 DEF Targeted, TargetedAt
    <3>3. CASE LoadShow(n) \/ LoadFails(n)
      <4>1. load'[n].st = "over"
        BY <2>1, <3>3 DEF LoadShow, LoadFails, Types, Loaded
      <4> QED
        BY <4>1 DEF TargetedAt
    <3> QED
      BY <1>5, <3>1, <3>2, <3>3 DEF LoadSteps
  <2> QED
    BY <1>3, <2>2, <2>4 DEF Targeted
<1>6. ASSUME NEW n \in Loads, NEW s \in Runs, Load(n, s) PROVE Targeted'
  <2>1. load' = [load EXCEPT ![n] = [NoLoad EXCEPT !.st = "get", !.req = ui'.req, !.target = s]]
        /\ RunsOf(s) # {} /\ home' = home
    BY <1>6 DEF Load, server
  <2>2. \A m \in Loads \ {n} : load'[m] = load[m]
    BY <2>1 DEF Types
  <2>3. load'[n].st = "get" /\ load'[n].target = s /\ load'[n].events = {}
    BY <2>1 DEF Types, NoLoad
  <2>4. RunsOf(s)' = RunsOf(s)
    BY <2>1 DEF RunsOf
  <2>5. TargetedAt(n)'
    BY <2>1, <2>3, <2>4 DEF TargetedAt
  <2> QED
    BY <1>3, <2>2, <2>5 DEF Targeted
<1>7. ASSUME NEW c \in Conns, ConnSteps(c) \/ Reject(c) \/ Break(c) PROVE load' = load
  BY <1>7 DEF ConnSteps, Open, Refreshed, Close, Deliver, Reject, Break
<1>8. ASSUME NEW k \in Runs, SendSteps(k) \/ Send(k) PROVE load' = load
  BY <1>8 DEF SendSteps, Accept, Submitted, SubmitFails, Send
<1>9. ASSUME NEW k, Checked(k) \/ Fire(k) PROVE load' = load
  BY <1>9 DEF Checked, Fire
<1>10. ASSUME Clear \/ Stop \/ Offline \/ Wake PROVE load' = load
  BY <1>10 DEF Clear, Stop, Offline, Wake
<1>11. ASSUME NEW r \in Runs, Emit(r) \/ Finish(r) PROVE load' = load
  BY <1>11 DEF Emit, Finish
<1>12. ASSUME UNCHANGED vars PROVE load' = load
  BY <1>12 DEF vars
<1> QED
  BY <1>4, <1>5, <1>6, <1>7, <1>8, <1>9, <1>10, <1>11, <1>12 DEF Next, User

\* What a check adds to the runs missed is a run.
LEMMA MissedStep ==
  ASSUME Types, missed \subseteq Runs, [Next]_vars
  PROVE  missed' \subseteq Runs
<1>1. ASSUME NEW c \in Conns, ConnSteps(c) \/ Reject(c) \/ Break(c) PROVE missed' = missed
  BY <1>1 DEF ConnSteps, Open, Refreshed, Close, Deliver, Reject, Break
<1>2. ASSUME NEW k \in Runs, SendSteps(k) \/ Send(k) PROVE missed' = missed
  BY <1>2 DEF SendSteps, Accept, Submitted, SubmitFails, Send
<1>3. ASSUME NEW n \in Loads, LoadSteps(n) PROVE missed' = missed
  BY <1>3 DEF LoadSteps, LoadGet, LoadRead, LoadShow, LoadFails
<1>4. ASSUME NEW k \in checks, Checked(k) PROVE missed' \subseteq Runs
  BY <1>4 DEF Checked, Types, Checking
<1>5. CASE \E k \in timers : Fire(k)
  BY <1>5 DEF Fire
<1>6. CASE Clear \/ \E n \in Loads, s \in Runs : Load(n, s)
  BY <1>6 DEF Clear, Load
<1>7. CASE Stop \/ Offline \/ Wake \/ \E r \in Runs : Emit(r) \/ Finish(r)
  BY <1>7 DEF Stop, Offline, Wake, Emit, Finish
<1>8. CASE UNCHANGED vars
  BY <1>8 DEF vars
<1> QED
  BY <1>1, <1>2, <1>3, <1>4, <1>5, <1>6, <1>7, <1>8 DEF Next, User

\* Types hold always.
LEMMA TypesHold == Spec => []TInv
<1>1. Init => TInv
  <2> SUFFICES ASSUME Init PROVE TInv
    OBVIOUS
  <2>1. feed = <<>> /\ messages = <<>>
    BY DEF Init
  <2>2. feed \in Seq(Feed) /\ messages \in Seq(Message)
    BY <2>1
  <2>3. ui \in Uis
    BY Names DEF Init, Uis
  <2>4. NoLoad \in Loaded /\ NoLoad.st = "none"
    BY Names DEF NoLoad, Loaded
  <2>5. spent \in Spending
    BY Names DEF Init, Spending
  <2>6. Types
    BY <2>2, <2>3, <2>4, <2>5, IdleTyped, Names DEF Init, Types, Sent
  <2>7. \A r : Count(r) = 0
    <3>1. ASSUME NEW r PROVE {i \in DOMAIN feed : feed[i][1] = r} = {}
      BY <2>1
    <3> QED
      BY <3>1, FS_EmptySet DEF Count
  <2>8. Fed
    BY <2>7, Names DEF Fed, FedOf
  <2>9. Homed
    BY DEF Init, Homed, HomedAt
  <2>10. Targeted
    BY <2>4 DEF Init, Targeted, TargetedAt
  <2> QED
    BY <2>6, <2>8, <2>9, <2>10 DEF TInv, Init
<1>2. TInv /\ [Next]_vars => TInv'
  BY StepTyped, MissedStep, HomedStep, TargetedStep DEF TInv
<1> QED
  BY <1>1, <1>2, PTL DEF Spec

\* The refs, the messages and what is awaited always have their types (TypeOK):
\* in particular every message has one of the ids the code makes, and a
\* request, a stream and a load that are under way name runs and sessions that
\* are there.
THEOREM StreamTypes == Spec => []TypeOK
<1>1. TInv => TypeOK
  BY TypesOf DEF TInv
<1> QED
  BY <1>1, TypesHold, PTL

-----------------------------------------------------------------------------
(* The answers shown are of the session the view names.                    *)

Waits(k) == send[k].st \in {"submit", "accepted"}
Pending(n) == load[n].st \in {"get", "fetch"}
Shows(S) == messages \in Seq(MessagesOf({0} \cup S))

\* A load that goes on has the latest number or an older one, of its own.
NumberedAt(n) ==
  /\ load[n].req <= ui.req
  /\ \A m \in Loads : Pending(n) /\ Pending(m) /\ load[n].req = load[m].req => n = m
Numbered == \A n \in Loads : NumberedAt(n)

\* Answers shown are of runs that have a session; and of this session.
Homes == {r \in Runs : home[r] # 0}
Here == {r \in Homes : home[r] = ui.session}

\* While a message is on its way, nothing else is that could change the view.
Alone(k) ==
  Waits(k) =>
    /\ ui.session = send[k].from
    /\ \A j \in Runs : Waits(j) => j = k
    /\ \A c \in Conns : conn[c].st = "none"
    /\ timers = {} /\ checks = {}
    /\ \A n \in Loads : Pending(n) => Stale(n)

\* At most one reconnect is being prepared, and its timer is the one in the ref.
Single ==
  /\ \A t \in timers : t.n = ui.timer
  /\ checks # {} => timers = {}
  /\ \A a, b \in checks : a = b

\* Until the load that is not stale has its answer no run's answer is shown.
Reading(n) ==
  Pending(n) /\ ~Stale(n) =>
    /\ Shows({}) /\ (load[n].st = "fetch" => ui.session = load[n].target)

InOrder ==
  /\ \A k \in Runs : Alone(k)
  /\ Single
  /\ \A n \in Loads : Reading(n)
  /\ Shows(Here)

SInv == Numbered /\ Shows(Homes) /\ (~torn => InOrder)

\* The messages are of the runs they were of.
RunsKept == \A S : Shows(S) => messages' \in Seq(MessagesOf({0} \cup S))

-----------------------------------------------------------------------------
\* A step that changes neither the session nor the numbers, that awaits nothing
\* new and opens no stream while a message is on its way.
LEMMA CalmStep ==
  ASSUME Types, SInv, torn => torn', RunsKept,
         \A k \in Runs : home[k] # 0 => home'[k] = home[k],
         ui'.session = ui.session, ui'.req = ui.req, ui'.timer = ui.timer,
         \A k \in Runs : Waits(k)' => Waits(k) /\ send'[k].from = send[k].from,
         timers' \subseteq timers, checks' \subseteq checks,
         \A n \in Loads : /\ load'[n].req = load[n].req
                          /\ Pending(n)' => Pending(n) /\ load'[n].target = load[n].target
                          /\ load'[n].st = "fetch" => load[n].st = "fetch",
         ~torn /\ (\E k \in Runs : Waits(k)) => \A c \in Conns : conn'[c].st = "none"
  PROVE  SInv'
<1>1. \A n \in Loads : Stale(n)' = Stale(n)
  BY DEF Stale
<1>2. Numbered'
  BY DEF SInv, Numbered, NumberedAt
<1>3. ASSUME NEW S, NEW T, S \subseteq T, Shows(S) PROVE messages' \in Seq(MessagesOf({0} \cup T))
  <2>1. messages' \in Seq(MessagesOf({0} \cup S)) /\ {0} \cup S \subseteq {0} \cup T
    BY <1>3 DEF RunsKept
  <2> QED
    BY <2>1, MoreMessages
<1>4. Homes \subseteq Homes' /\ Here \subseteq Here'
  BY DEF Homes, Here
<1>5. Shows(Homes)'
  BY <1>3, <1>4 DEF SInv, Shows
<1>6. ASSUME ~torn' PROVE InOrder'
  <2>1. InOrder /\ ~torn
    BY <1>6 DEF SInv
  <2>2. \A k \in Runs : Alone(k)'
    BY <1>1, <2>1 DEF InOrder, Alone
  <2>3. Single'
    BY <2>1 DEF InOrder, Single
  <2>4. ASSUME NEW n \in Loads PROVE Reading(n)'
    <3> SUFFICES ASSUME Pending(n)', ~Stale(n)'
                 PROVE  Shows({})' /\ (load'[n].st = "fetch" => ui'.session = load'[n].target)
      BY DEF Reading
    <3>1. Pending(n) /\ ~Stale(n) /\ load'[n].target = load[n].target
      BY <1>1
    <3>2. Shows({}) /\ (load[n].st = "fetch" => ui.session = load[n].target)
      BY <2>1, <3>1 DEF InOrder, Reading
    <3>3. Shows({})'
      BY <3>2 DEF RunsKept, Shows
    <3> QED
      BY <3>1, <3>2, <3>3
  <2>5. Shows(Here)'
    BY <1>3, <1>4, <2>1 DEF InOrder, Shows
  <2> QED
    BY <2>2, <2>3, <2>4, <2>5 DEF InOrder
<1> QED
  BY <1>2, <1>5, <1>6 DEF SInv

\* A user's action, or the tab's, that stops the stream while nothing is awaited:
\* nothing is under way after it but what it asks for.
LEMMA FreshStart ==
  ASSUME Types, IInv, SInv, ~torn, ~Awaited
  PROVE  /\ \A c \in Conns : Cut(conn, ui.ctl)[c].st = "none"
         /\ Due = {} /\ checks = {} /\ \A k \in Runs : ~Waits(k)
<1>1. PICK V : Shaped(V, ui, conn) /\ Current(ui, conn)
  BY DEF IInv, Good
<1>2. \A c \in Conns : Cut(conn, ui.ctl)[c].st \notin Active
  BY <1>1, CutAll
<1>3. \A c \in Conns : conn[c].st \notin {"refresh", "orphan"}
  BY DEF Awaited
<1>4. \A c \in Conns : Cut(conn, ui.ctl)[c].st # "orphan"
  <2>1. CASE ~Alive(ui.ctl)
    BY <1>3, <2>1 DEF Cut
  <2>2. CASE Alive(ui.ctl)
    <3>1. ui.ctl \in Conns
      BY <2>2 DEF Alive, Types, Uis
    <3>2. Cut(conn, ui.ctl) = [conn EXCEPT ![ui.ctl] = Idle]
      BY <1>3, <2>2, <3>1 DEF Cut, Types
    <3>3. Idle.st = "none"
      BY DEF Idle
    <3> QED
      BY <1>3, <3>1, <3>2, <3>3 DEF Types
  <2> QED
    BY <2>1, <2>2
<1>5. \A c \in Conns : Cut(conn, ui.ctl)[c].st \in Active \cup {"none", "orphan"}
  BY CutUi DEF Opened
<1>6. Due = {}
  BY DEF SInv, InOrder, Single, Due
<1> QED
  BY <1>2, <1>4, <1>5, <1>6 DEF Awaited, Waits

\* Nothing that the session depends on changes.
LEMMA SameView ==
  ASSUME Types, SInv, torn => torn', RunsKept,
         ui'.session = ui.session, ui'.req = ui.req, ui'.timer = ui.timer,
         UNCHANGED <<home, send, load, checks, timers>>,
         ~torn /\ (\E k \in Runs : Waits(k)) => \A c \in Conns : conn'[c].st = "none"
  PROVE  SInv'
<1>1. \A k \in Runs : Waits(k)' => Waits(k) /\ send'[k].from = send[k].from
  BY DEF Waits
<1>2. \A n \in Loads : /\ load'[n].req = load[n].req
                       /\ Pending(n)' => Pending(n) /\ load'[n].target = load[n].target
                       /\ load'[n].st = "fetch" => load[n].st = "fetch"
  BY DEF Pending
<1>3. \A k \in Runs : home[k] # 0 => home'[k] = home[k]
  OBVIOUS
<1> QED
  BY <1>1, <1>2, <1>3, CalmStep

\* While a message is on its way there is no stream to step.
LEMMA NoStreamBeside ==
  ASSUME SInv, NEW c \in Conns, conn[c].st # "none"
  PROVE  ~torn => \A k \in Runs : ~Waits(k)
  BY DEF SInv, InOrder, Alone

\* The steps of one stream.
LEMMA ConnInOrder ==
  ASSUME Types, Fed, Targeted, SInv, NEW c \in Conns, ConnSteps(c) \/ Reject(c) \/ Break(c)
  PROVE  SInv'
<1>1. ui \in Uis /\ conn[c] \in Opened
  BY DEF Types
<1>2. conn[c].st # "none" /\ torn' = torn /\ UNCHANGED <<home, send, load, checks, timers>>
  BY DEF ConnSteps, Open, Refreshed, Close, Deliver, Reject, Break, server
<1>3. ~torn => \A k \in Runs : ~Waits(k)
  BY <1>2, NoStreamBeside
<1>4. ASSUME ui'.session = ui.session, ui'.req = ui.req, ui'.timer = ui.timer, RunsKept
      PROVE  SInv'
  BY <1>2, <1>3, <1>4, SameView
<1>5. ASSUME messages' = messages PROVE RunsKept
  BY <1>5 DEF RunsKept, Shows
<1>6. CASE Open(c)
  <2>1. ui'.session = ui.session /\ ui'.req = ui.req /\ ui'.timer = ui.timer
    BY <1>1, <1>6 DEF Open, Uis
  <2> QED
    BY <1>4, <1>5, <1>6, <2>1 DEF Open
<1>7. CASE Reject(c)
  <2>1. ui'.session = ui.session /\ ui'.req = ui.req /\ ui'.timer = ui.timer
    BY <1>1, <1>7 DEF Reject, Uis
  <2> QED
    BY <1>4, <1>5, <1>7, <2>1 DEF Reject
<1>8. CASE Break(c)
  <2>1. ui'.session = ui.session /\ ui'.req = ui.req /\ ui'.timer = ui.timer
    BY <1>1, <1>8 DEF Break, Uis
  <2> QED
    BY <1>4, <1>5, <1>8, <2>1 DEF Break
<1>9. CASE Close(c)
  <2>1. ui'.session = ui.session /\ ui'.req = ui.req /\ ui'.timer = ui.timer
    BY <1>1, <1>9 DEF Close, Finally, Uis
  <2>2. messages' = Drop(messages, conn[c].msg)
    BY <1>9 DEF Close
  <2>3. RunsKept
    BY <2>2, DropTyped DEF RunsKept, Shows
  <2> QED
    BY <1>4, <2>1, <2>3
<1>10. CASE Refreshed(c)
  <2> DEFINE again == [Stream(conn[c].run, conn[c].home, conn[c].msg, 0) EXCEPT !.retried = TRUE]
             u == [ui EXCEPT !.connecting = FALSE]
             cs == [conn EXCEPT ![c] = Idle]
  <2>1. Connect(u, cs, again) /\ messages' = messages
    BY <1>10 DEF Refreshed
  <2>2. u.session = ui.session /\ u.req = ui.req /\ u.timer = ui.timer /\ u \in Uis
    BY <1>1 DEF Uis
  <2>3. again.msg \in Ids
    BY <1>1 DEF Stream, Idle, Opened
  <2> HIDE DEF again, u, cs
  <2>4. ui'.session = u.session /\ ui'.req = u.req /\ ui'.timer = u.timer
    BY <2>1, <2>2, <2>3, ConnectKeeps
  <2> QED
    BY <1>4, <1>5, <2>1, <2>2, <2>4
<1>11. CASE Deliver(c)
  <2> DEFINE e == <<conn[c].run, conn[c].pos + 1>>
  <2>1. e \in Feed
    <3>1. conn[c].pos \in Nat /\ conn[c].pos < Count(conn[c].run)
      BY <1>1, <1>11 DEF Opened, Deliver
    <3> QED
      BY <3>1, EventInFeed DEF Types
  <2>2. CASE Known(e)
    <3>1. ui' = ui /\ messages' = messages
      BY <1>11, <2>2 DEF Deliver
    <3> QED
      BY <1>4, <1>5, <3>1
  <2>3. CASE ~Known(e)
    <3> DEFINE sess == IF e[2] = 1 /\ ui.session = 0 THEN conn[c].home ELSE ui.session
    <3> DEFINE seen == ui.processed \cup {e}
               last == IF At(e) > ui.last THEN At(e) ELSE ui.last
               over == ui.disconnected \/ e[2] = Events
    <3>1. messages' = Apply(messages, conn[c].msg, e)
      BY <1>11, <2>3 DEF Deliver
    <3>2. ui'.session = sess /\ ui'.req = ui.req /\ ui'.timer = ui.timer
      <4>1. ui' = [ui EXCEPT !.processed = seen, !.last = last, !.session = sess,
                             !.disconnected = over]
        BY <1>11, <2>3 DEF Deliver
      <4> HIDE DEF seen, last, sess, over
      <4> QED
        BY <1>1, <4>1 DEF Uis
    <3>3. RunsKept
      BY <2>1, <3>1, ApplyTyped DEF RunsKept, Shows
    <3>4. CASE sess = ui.session
      BY <1>4, <3>2, <3>3, <3>4
    <3>5. CASE sess # ui.session
      <4>1. ui.session = 0
        BY <3>5
      <4>2. Numbered'
        BY <1>2, <3>2 DEF SInv, Numbered, NumberedAt, Pending
      <4>3. Shows(Homes)'
        <5>1. Homes' = Homes
          BY <1>2 DEF Homes
        <5> QED
          BY <3>3, <5>1 DEF SInv, RunsKept, Shows
      <4>4. ASSUME ~torn' PROVE InOrder'
        <5>1. InOrder /\ ~torn
          BY <1>2, <4>4 DEF SInv
        <5>2. \A k \in Runs : Alone(k)'
          BY <1>2, <1>3, <5>1 DEF Alone, Waits
        <5>3. Single'
          BY <1>2, <3>2, <5>1 DEF InOrder, Single
        <5>4. ASSUME NEW S PROVE messages' \in Seq(MessagesOf({0} \cup S))
          <6>1. Here = {}
            BY <4>1 DEF Here, Homes
          <6>2. messages' \in Seq(MessagesOf({0}))
            BY <3>3, <5>1, <6>1 DEF InOrder, RunsKept
          <6> QED
            BY <6>2, MoreMessages
        <5>5. ASSUME NEW n \in Loads PROVE Reading(n)'
          <6> SUFFICES ASSUME Pending(n)', ~Stale(n)'
                       PROVE  Shows({})' /\ (load'[n].st = "fetch" => ui'.session = load'[n].target)
            BY DEF Reading
          <6>1. Pending(n) /\ ~Stale(n) /\ load'[n] = load[n]
            BY <1>2, <3>2 DEF Pending, Stale
          <6>2. load[n].st # "fetch"
            BY <4>1, <5>1, <6>1, Names DEF InOrder, Reading, Pending, Targeted, TargetedAt
          <6> QED
            BY <5>4, <6>1, <6>2 DEF Shows
        <5> QED
          BY <5>2, <5>3, <5>4, <5>5 DEF InOrder, Shows
      <4> QED
        BY <4>2, <4>3, <4>4 DEF SInv
    <3> QED
      BY <3>4, <3>5
  <2> QED
    BY <2>2, <2>3
<1> QED
  BY <1>6, <1>7, <1>8, <1>9, <1>10, <1>11 DEF ConnSteps

\* The server, the stop button and the loss of the network.
LEMMA ServerInOrder ==
  ASSUME Types, SInv, (\E r \in Runs : Emit(r) \/ Finish(r)) \/ Stop \/ Offline
  PROVE  SInv'
<1>1. ui \in Uis /\ (~torn /\ (\E k \in Runs : Waits(k)) => \A c \in Conns : conn[c].st = "none")
  BY NoStreamBeside DEF Types
<1>2. /\ torn' = torn /\ UNCHANGED <<home, send, load, conn, checks, timers>>
      /\ ui'.session = ui.session /\ ui'.req = ui.req /\ ui'.timer = ui.timer
  <2>1. CASE \E r \in Runs : Emit(r) \/ Finish(r)
    BY <2>1 DEF Emit, Finish
  <2>2. CASE Stop
    BY <1>1, <2>2 DEF Stop, Uis, server
  <2>3. CASE Offline
    BY <1>1, <2>3 DEF Offline, Uis, server
  <2> QED
    BY <2>1, <2>2, <2>3
<1>3. RunsKept
  <2>1. CASE messages' = messages
    BY <2>1 DEF RunsKept, Shows
  <2>2. CASE Stop
    <3> SUFFICES ASSUME NEW S, Shows(S) PROVE messages' \in Seq(MessagesOf({0} \cup S))
      BY DEF RunsKept
    <3> DEFINE M == MessagesOf({0} \cup S)
               t == messages'
    <3>1. messages \in Seq(M)
      BY DEF Shows
    <3>2. \A m \in M : [m EXCEPT !.streaming = FALSE] \in M
      BY FlaggedMessage
    <3>3. \A i \in DOMAIN messages : messages[i] \in M
      <4> HIDE DEF M
      <4> QED
        BY <3>1
    <3>4. t = [i \in DOMAIN messages |-> t[i]] /\ \A i \in DOMAIN messages : t[i] \in M
      BY <2>2, <3>2, <3>3 DEF Stop
    <3> HIDE DEF t, M
    <3>5. t \in Seq(M)
      BY <3>1, <3>4, Mapped
    <3> QED
      BY <3>5 DEF t, M
  <2>3. CASE Offline \/ \E r \in Runs : Emit(r) \/ Finish(r)
    <3>1. messages' = messages
      BY <2>3 DEF Offline, Emit, Finish
    <3> QED
      BY <2>1, <3>1
  <2> QED
    BY <2>2, <2>3
<1> QED
  BY <1>1, <1>2, <1>3, SameView

\* The request reaches the server, or fails.
LEMMA AcceptInOrder ==
  ASSUME Types, Homed, SInv, NEW k \in Runs, Accept(k) \/ SubmitFails(k)
  PROVE  SInv'
<1>1. ui \in Uis /\ send[k] \in Sent
  BY DEF Types
<1>2. ~torn /\ (\E j \in Runs : Waits(j)) => \A c \in Conns : conn[c].st = "none"
  BY NoStreamBeside
<1>3. UNCHANGED <<load, conn, checks, timers>> /\ (torn => torn')
  <2>1. torn' = torn \/ torn' = (torn \/ ui.streaming # None)
    BY DEF Accept, SubmitFails
  <2>2. torn => torn'
    BY <2>1
  <2> QED
    BY <2>2 DEF Accept, SubmitFails
<1>4. PICK s \in {"accepted", "over"} : send' = [send EXCEPT ![k] = [send[k] EXCEPT !.st = s]]
  BY DEF Accept, SubmitFails, Types
<1>5. Waits(k)
  BY DEF Accept, SubmitFails, Waits
<1>6. send'[k].from = send[k].from /\ \A j \in Runs \ {k} : send'[j] = send[j]
  BY <1>1, <1>4 DEF Types, Sent
<1>7. \A j \in Runs : Waits(j)' => Waits(j) /\ send'[j].from = send[j].from
  BY <1>5, <1>6 DEF Waits
<1>8. \A j \in Runs : home[j] # 0 => home'[j] = home[j]
  <2>1. CASE Accept(k)
    BY <2>1 DEF Accept, Types, Homed, HomedAt
  <2>2. CASE SubmitFails(k)
    BY <2>2 DEF SubmitFails, server
  <2> QED
    BY <2>1, <2>2
<1>9. ui'.session = ui.session /\ ui'.req = ui.req /\ ui'.timer = ui.timer
  BY <1>1 DEF Accept, SubmitFails, Uis
<1>10. RunsKept
  <2>1. messages' = messages \/ messages' = Drop(messages, <<"tmp", k>>)
    BY DEF Accept, SubmitFails
  <2> QED
    BY <2>1, DropTyped DEF RunsKept, Shows
<1>11. \A n \in Loads : /\ load'[n].req = load[n].req
                        /\ Pending(n)' => Pending(n) /\ load'[n].target = load[n].target
                        /\ load'[n].st = "fetch" => load[n].st = "fetch"
  BY <1>3 DEF Pending
<1>12. timers' \subseteq timers /\ checks' \subseteq checks
  BY <1>3
<1>13. ~torn /\ (\E j \in Runs : Waits(j)) => \A c \in Conns : conn'[c].st = "none"
  BY <1>2, <1>3
<1> QED
  BY <1>3, <1>7, <1>8, <1>9, <1>10, <1>11, <1>12, <1>13, CalmStep

\* The status of the run arrives.
LEMMA CheckedInOrder ==
  ASSUME Types, SInv, NEW k \in checks, Checked(k)
  PROVE  SInv'
<1>1. ui \in Uis /\ UNCHANGED <<home, send, load, conn, torn>> /\ checks' = checks \ {k}
  BY DEF Types, Checked, server
<1>2. ~torn => \A j \in Runs : ~Waits(j)
  BY DEF SInv, InOrder, Alone
<1>3. ui'.session = ui.session /\ ui'.req = ui.req
  BY <1>1 DEF Checked, Uis
<1>4. RunsKept
  <2>1. messages' = messages \/ messages' = Drop(messages, k.msg)
    BY DEF Checked
  <2> QED
    BY <2>1, DropTyped DEF RunsKept, Shows
<1>5. CASE ui' = [ui EXCEPT !.disconnected = TRUE, !.streaming = None] /\ timers' = timers
  <2>1. ui'.timer = ui.timer /\ timers' = timers
    BY <1>1, <1>5 DEF Uis
  <2>2. \A j \in Runs : Waits(j)' => Waits(j) /\ send'[j].from = send[j].from
    BY <1>1 DEF Waits
  <2>3. \A n \in Loads : /\ load'[n].req = load[n].req
                         /\ Pending(n)' => Pending(n) /\ load'[n].target = load[n].target
                         /\ load'[n].st = "fetch" => load[n].st = "fetch"
    BY <1>1 DEF Pending
  <2>4. ~torn /\ (\E j \in Runs : Waits(j)) => \A c \in Conns : conn'[c].st = "none"
    BY <1>2
  <2>5. \A j \in Runs : home[j] # 0 => home'[j] = home[j]
    BY <1>1
  <2>6. timers' \subseteq timers /\ checks' \subseteq checks
    BY <1>1, <2>1
  <2> QED
    BY <1>1, <1>3, <1>4, <2>1, <2>2, <2>3, <2>4, <2>5, <2>6, CalmStep
<1>6. CASE /\ ui' = [ui EXCEPT !.disconnected = FALSE, !.timer = k.n]
          /\ timers' = timers \cup {k} /\ messages' = messages
  <2>1. ui'.timer = k.n /\ timers' = timers \cup {k} /\ messages' = messages
    <3>1. k.n \in 0 .. MaxWakes
      BY Names DEF Types, Checking
    <3> QED
      BY <1>1, <1>6, <3>1 DEF Uis
  <2>2. Numbered' /\ Shows(Homes)'
    BY <1>1, <1>3, <2>1 DEF SInv, Numbered, NumberedAt, Pending, Shows, Homes
  <2>3. ASSUME ~torn' PROVE InOrder'
    <3>1. InOrder /\ ~torn
      BY <1>1, <2>3 DEF SInv
    <3>2. timers' = {k} /\ checks' = {}
      BY <1>1, <2>1, <3>1 DEF InOrder, Single
    <3>3. Single' /\ \A j \in Runs : Alone(j)'
      BY <1>1, <1>2, <2>1, <3>1, <3>2 DEF Single, Alone, Waits
    <3>4. Shows(Here)'
      BY <1>1, <1>3, <2>1, <3>1 DEF InOrder, Shows, Here, Homes
    <3>5. \A n \in Loads : Reading(n)'
      BY <1>1, <1>3, <2>1, <3>1 DEF InOrder, Reading, Pending, Stale, Shows
    <3> QED
      BY <3>3, <3>4, <3>5 DEF InOrder
  <2> QED
    BY <2>2, <2>3 DEF SInv
<1> QED
  BY <1>5, <1>6 DEF Checked

\* A reconnect is due.
LEMMA FireInOrder ==
  ASSUME Types, SInv, NEW k \in timers, Fire(k)
  PROVE  SInv'
<1>1. /\ ui \in Uis /\ UNCHANGED <<home, messages, send, load, checks, torn, missed>>
      /\ timers' = timers \ {k} /\ k.msg \in Ids
  BY DEF Types, Fire, server, Checking
<1>2. ~torn => \A j \in Runs : ~Waits(j)
  BY DEF SInv, InOrder, Alone
<1>3. ui'.session = ui.session /\ ui'.req = ui.req /\ ui'.timer = ui.timer
  <2>1. Stream(k.run, k.home, k.msg, 0).msg = k.msg
    BY DEF Stream, Idle
  <2> QED
    BY <1>1, <2>1, ConnectKeeps DEF Fire
<1>4. RunsKept
  BY <1>1 DEF RunsKept, Shows
<1>5. \A j \in Runs : Waits(j)' => Waits(j) /\ send'[j].from = send[j].from
  BY <1>1 DEF Waits
<1>6. \A n \in Loads : /\ load'[n].req = load[n].req
                       /\ Pending(n)' => Pending(n) /\ load'[n].target = load[n].target
                       /\ load'[n].st = "fetch" => load[n].st = "fetch"
  BY <1>1 DEF Pending
<1>7. ~torn /\ (\E j \in Runs : Waits(j)) => \A c \in Conns : conn'[c].st = "none"
  BY <1>2
<1>8. /\ \A j \in Runs : home[j] # 0 => home'[j] = home[j]
      /\ timers' \subseteq timers /\ checks' \subseteq checks
  BY <1>1
<1> QED
  BY <1>1, <1>3, <1>4, <1>5, <1>6, <1>7, <1>8, CalmStep

\* The answer to a send arrives: its run belongs to the session the view is in.
LEMMA SubmittedInOrder ==
  ASSUME Types, Homed, SInv, NEW k \in Runs, Submitted(k)
  PROVE  SInv'
<1> DEFINE sess == IF send[k].from = 0 THEN k ELSE ui.session
           u == [ui EXCEPT !.run = k, !.session = sess]
           to == Stream(k, home[k], <<"run", k>>, k)
           t == messages'
<1>1. ui \in Uis /\ send[k] \in Sent /\ k \in 0 .. MaxSends /\ k # 0
  BY Names DEF Types
<1>2. UNCHANGED <<home, load, checks, timers, torn, missed>> /\ Waits(k)
  BY DEF Submitted, server, Waits
<1>3. home[k] = IF send[k].from = 0 THEN k ELSE send[k].from
  BY DEF Submitted, Homed, HomedAt
<1>4. ui'.session = sess /\ ui'.req = ui.req /\ ui'.timer = ui.timer
  <2>1. Connect(u, conn, to)
    BY DEF Submitted
  <2>2. sess \in 0 .. MaxSends
    BY <1>1 DEF Uis
  <2>3. to.msg \in Ids
    BY Names DEF Stream, Idle
  <2> HIDE DEF sess, to
  <2>4. u \in Uis /\ u.session = sess /\ u.req = ui.req /\ u.timer = ui.timer
    BY <1>1, <2>2 DEF Uis
  <2> HIDE DEF u
  <2>5. ui'.session = u.session /\ ui'.req = u.req /\ ui'.timer = u.timer
    BY <2>1, <2>3, <2>4, ConnectKeeps
  <2> QED
    BY <2>4, <2>5
<1>5. ASSUME NEW S, Shows(S), NEW T, S \subseteq T, k \in T
      PROVE  messages' \in Seq(MessagesOf({0} \cup T))
  <2> DEFINE M == MessagesOf({0} \cup T)
  <2>1. messages \in Seq(M)
    <3>1. {0} \cup S \subseteq {0} \cup T
      BY <1>5
    <3> QED
      BY <1>5, <3>1, MoreMessages DEF Shows
  <2>2. ASSUME NEW m \in M PROVE [m EXCEPT !.id = <<"run", k>>, !.run = k] \in M
    <3> DEFINE new == [m EXCEPT !.id = <<"run", k>>, !.run = k]
    <3>1. m \in Message
      BY DEF MessagesOf
    <3>2. new \in Message /\ new.run = k
      BY <1>1, <3>1, Names DEF Message
    <3> HIDE DEF new
    <3>3. new \in M
      BY <1>5, <3>2 DEF MessagesOf
    <3> QED
      BY <3>3 DEF new
  <2> HIDE DEF M
  <2>3. \A i \in DOMAIN messages : messages[i] \in M
    BY <2>1
  <2>4. t = [i \in DOMAIN messages |-> t[i]] /\ \A i \in DOMAIN messages : t[i] \in M
    BY <2>2, <2>3 DEF Submitted
  <2> HIDE DEF t
  <2>5. t \in Seq(M)
    BY <2>1, <2>4, Mapped
  <2> QED
    BY <2>5 DEF t, M
<1> HIDE DEF u, to, t
<1>6. Numbered'
  BY <1>2, <1>4 DEF SInv, Numbered, NumberedAt, Pending
<1>7. Shows(Homes)'
  <2>1. Homes' = Homes
    BY <1>2 DEF Homes
  <2>2. k \in Homes
    BY <1>1, <1>3 DEF Homes
  <2>3. messages' \in Seq(MessagesOf({0} \cup Homes))
    BY <1>5, <2>2 DEF SInv
  <2> QED
    BY <2>1, <2>3 DEF Shows
<1>8. ASSUME ~torn' PROVE InOrder'
  <2>1. InOrder
    BY <1>2, <1>8 DEF SInv
  <2>2. /\ ui.session = send[k].from /\ \A j \in Runs : Waits(j) => j = k
        /\ \A n \in Loads : Pending(n) => Stale(n)
    BY <1>2, <2>1 DEF InOrder, Alone
  <2>3. ASSUME NEW j \in Runs PROVE Alone(j)'
    <3>1. CASE j = k
      <4>1. send'[k].st = "over"
        BY <1>1 DEF Submitted, Types, Sent
      <4> QED
        BY <3>1, <4>1 DEF Alone, Waits
    <3>2. CASE j # k
      <4>1. send'[j] = send[j]
        BY <3>2 DEF Submitted, Types
      <4> QED
        BY <2>2, <3>2, <4>1 DEF Alone, Waits
    <3> QED
      BY <3>1, <3>2
  <2>4. Single'
    BY <1>2, <1>4, <2>1 DEF InOrder, Single
  <2>5. \A n \in Loads : Reading(n)'
    BY <1>2, <1>4, <2>2 DEF Reading, Pending, Stale
  <2>6. Shows(Here)'
    <3>1. ui'.session = home[k]
      BY <1>3, <1>4, <2>2
    <3>2. k \in Here' /\ Here \subseteq Here'
      <4>1. Here' = {r \in Runs : home[r] # 0 /\ home[r] = home[k]}
        BY <1>2, <3>1 DEF Here, Homes
      <4>2. CASE send[k].from = 0
        <5>1. Here = {}
          BY <2>2, <4>2 DEF Here, Homes
        <5> QED
          BY <1>1, <1>3, <4>1, <5>1
      <4>3. CASE send[k].from # 0
        BY <1>1, <1>3, <2>2, <4>1, <4>3 DEF Here, Homes
      <4> QED
        BY <4>2, <4>3
    <3>3. messages' \in Seq(MessagesOf({0} \cup Here'))
      BY <1>5, <2>1, <3>2 DEF InOrder
    <3> QED
      BY <3>3 DEF Shows
  <2> QED
    BY <2>3, <2>4, <2>5, <2>6 DEF InOrder
<1> QED
  BY <1>6, <1>7, <1>8 DEF SInv

-----------------------------------------------------------------------------
\* The answers of a load.
LEMMA LoadInOrder ==
  ASSUME Types, Targeted, SInv, NEW n \in Loads, LoadSteps(n)
  PROVE  SInv'
<1>1. ui \in Uis /\ load[n] \in Loaded
  BY DEF Types
<1>2. /\ UNCHANGED <<home, send, checks, timers, torn, missed>> /\ Pending(n)
      /\ \A m \in Loads \ {n} : load'[m] = load[m]
  BY DEF LoadSteps, LoadGet, LoadRead, LoadShow, LoadFails, server, Pending, Types
<1>3. load'[n].req = load[n].req /\ load'[n].target = load[n].target
  <2>1. CASE LoadGet(n)
    BY <1>1, <2>1 DEF LoadGet, Types, Loaded
  <2>2. ASSUME NEW what \in {"events", "status"}, LoadRead(n, what)
        PROVE  load'[n].req = load[n].req /\ load'[n].target = load[n].target
    <3> DEFINE es == IF what = "events"
                     THEN {r \in RunsOf(load[n].target) : phase[r] \in {"traced", "completed"}}
                     ELSE load[n].events
               going == IF what = "status" THEN phase[load[n].run] # "completed"
                        ELSE load[n].running
               got == load[n].got \cup {what}
    <3>1. load' = [load EXCEPT ![n] = [load[n] EXCEPT !.got = got, !.events = es, !.running = going]]
      BY <2>2 DEF LoadRead, Types
    <3> HIDE DEF es, going, got
    <3> QED
      BY <1>1, <3>1 DEF Types, Loaded
  <2>3. CASE LoadShow(n) \/ LoadFails(n)
    BY <1>1, <2>3 DEF LoadShow, LoadFails, Types, Loaded
  <2> QED
    BY <2>1, <2>2, <2>3 DEF LoadSteps
<1>4. \A j \in Runs : Waits(j)' => Waits(j) /\ send'[j].from = send[j].from
  BY <1>2 DEF Waits
<1>5. ASSUME conn' = conn, messages' = messages, ui' = ui \/ ui' = LoadDone(ui),
             load'[n].st = "fetch" => load[n].st = "fetch"
      PROVE  SInv'
  <2>1. ui'.session = ui.session /\ ui'.req = ui.req /\ ui'.timer = ui.timer
    BY <1>1, <1>5, LoadDoneTyped
  <2>2. ~torn /\ (\E j \in Runs : Waits(j)) => \A c \in Conns : conn'[c].st = "none"
    BY <1>5, NoStreamBeside
  <2>3. \A m \in Loads : /\ load'[m].req = load[m].req
                         /\ Pending(m)' => Pending(m) /\ load'[m].target = load[m].target
                         /\ load'[m].st = "fetch" => load[m].st = "fetch"
    BY <1>2, <1>3, <1>5 DEF Pending
  <2>4. RunsKept
    BY <1>5 DEF RunsKept, Shows
  <2>5. /\ \A j \in Runs : home[j] # 0 => home'[j] = home[j]
        /\ timers' \subseteq timers /\ checks' \subseteq checks
    BY <1>2
  <2> QED
    BY <1>2, <1>4, <2>1, <2>2, <2>3, <2>4, <2>5, CalmStep
<1>6. ASSUME NEW m \in Loads, Pending(m), ~Stale(m), ~Stale(n) PROVE m = n
  BY <1>2, <1>6 DEF Stale, SInv, Numbered, NumberedAt
<1>7. CASE LoadGet(n)
  <2>1. CASE Stale(n)
    <3>1. load'[n].st = "over"
      BY <1>1, <1>7, <2>1 DEF LoadGet, Types, Loaded
    <3> QED
      BY <1>5, <1>7, <2>1, <3>1 DEF LoadGet
  <2>2. CASE ~Stale(n)
    <3>1. /\ ui' = [ui EXCEPT !.session = load[n].target] /\ messages' = messages
          /\ load[n].st = "get" /\ UNCHANGED <<messages, conn>>
      BY <1>7, <2>2 DEF LoadGet
    <3>2. ui'.session = load[n].target /\ ui'.req = ui.req /\ ui'.timer = ui.timer
      BY <1>1, <3>1 DEF Uis
    <3>3. Numbered'
      BY <1>2, <1>3, <3>1, <3>2 DEF SInv, Numbered, NumberedAt, Pending
    <3>4. Shows(Homes)'
      BY <1>2, <3>1 DEF SInv, Shows, Homes
    <3>5. ASSUME ~torn' PROVE InOrder'
      <4>1. InOrder
        BY <1>2, <3>5 DEF SInv
      <4>2. Shows({}) /\ \A j \in Runs : ~Waits(j)
        BY <1>2, <2>2, <4>1 DEF InOrder, Reading, Alone
      <4>3. ASSUME NEW S PROVE messages' \in Seq(MessagesOf({0} \cup S))
        <5>1. messages \in Seq(MessagesOf({0}))
          BY <4>2 DEF Shows
        <5> QED
          BY <3>1, <5>1, MoreMessages
      <4>4. Single' /\ \A j \in Runs : Alone(j)'
        BY <1>2, <1>4, <3>2, <4>1, <4>2 DEF InOrder, Single, Alone
      <4>5. ASSUME NEW m \in Loads PROVE Reading(m)'
        <5>1. CASE m = n
          BY <1>3, <3>2, <4>3, <5>1 DEF Reading, Shows
        <5>2. CASE m # n
          BY <1>2, <1>6, <2>2, <3>2, <5>2 DEF Reading, Pending, Stale
        <5> QED
          BY <5>1, <5>2
      <4>6. Shows(Here)'
        BY <4>3 DEF Shows
      <4> QED
        BY <4>4, <4>5, <4>6 DEF InOrder
    <3> QED
      BY <3>3, <3>4, <3>5 DEF SInv
  <2> QED
    BY <2>1, <2>2
<1>8. ASSUME NEW what \in {"events", "status"}, LoadRead(n, what) PROVE SInv'
  BY <1>5, <1>8 DEF LoadRead
<1>9. CASE LoadFails(n)
  <2>1. load'[n].st = "over"
    BY <1>1, <1>9 DEF LoadFails, Types, Loaded
  <2>2. conn' = conn /\ messages' = messages /\ (ui' = ui \/ ui' = LoadDone(ui))
    BY <1>9 DEF LoadFails
  <2> QED
    BY <1>5, <2>1, <2>2
<1>10. CASE LoadShow(n)
  <2>1. load'[n].st = "over" /\ load[n].st = "fetch"
    BY <1>1, <1>10 DEF LoadShow, Types, Loaded
  <2>2. CASE Stale(n)
    BY <1>5, <1>10, <2>1, <2>2 DEF LoadShow
  <2>3. CASE ~Stale(n)
    <3> DEFINE old == History(load[n].events)
               stored == Stored(load[n].events)
               last == IF stored = {} THEN ui.last ELSE CHOOSE i \in stored : \A j \in stored : j <= i
               u == [ui EXCEPT !.last = last]
               r == load[n].run
               S == RunsOf(load[n].target)
               new == Prepared(old, r, n)
    <3>1. load[n].events \subseteq S /\ r \in S /\ load[n].target \in Runs
      BY <2>1 DEF Targeted, TargetedAt
    <3>2. old \in Seq(MessagesOf(S)) /\ r \in 0 .. MaxSends
      <4>1. old \in Seq(MessagesOf(load[n].events))
        BY HistoryTyped DEF Types
      <4> HIDE DEF old, S
      <4> QED
        BY <1>1, <3>1, <4>1, MoreMessages DEF Loaded
    <3>3. messages' \in Seq(MessagesOf(S)) /\ ui'.session = ui.session
          /\ ui'.req = ui.req /\ ui'.timer = ui.timer
      <4>1. last \in Nat
        <5>1. CASE stored = {}
          BY <1>1, <5>1 DEF Uis
        <5>2. CASE stored # {}
          <6>1. Len(feed) \in Nat /\ stored \subseteq 0 .. Len(feed)
            BY DEF Stored, Types
          <6> HIDE DEF stored
          <6>2. \E i \in stored : \A j \in stored : j <= i
            BY <5>2, <6>1, GreatestNat
          <6>3. last \in stored
            BY <5>2, <6>2
          <6> HIDE DEF last
          <6> QED
            BY <6>1, <6>3
        <5> QED
          BY <5>1, <5>2
      <4> HIDE DEF old, stored, last, S
      <4>2. /\ u \in Uis /\ u.session = ui.session /\ u.req = ui.req /\ u.timer = ui.timer
            /\ [u EXCEPT !.run = r] \in Uis /\ [u EXCEPT !.run = r].session = ui.session
            /\ [u EXCEPT !.run = r].req = ui.req /\ [u EXCEPT !.run = r].timer = ui.timer
        BY <1>1, <3>2, <4>1 DEF Uis
      <4> HIDE DEF u
      <4>3. CASE load[n].running
        <5> DEFINE to == Stream(r, load[n].target, new.id, 0)
                   v == LoadDone([u EXCEPT !.run = r])
        <5>1. Connect(v, conn, to) /\ messages' = new.ms
          BY <1>10, <2>3, <4>3 DEF LoadShow, old, stored, last, u
        <5>2. new.id \in Ids /\ new.ms \in Seq(MessagesOf(S))
          BY <3>1, <3>2, PreparedTyped
        <5>3. to.msg \in Ids
          BY <5>2 DEF Stream, Idle
        <5>4. v \in Uis /\ v.session = ui.session /\ v.req = ui.req /\ v.timer = ui.timer
          BY <4>2, LoadDoneTyped
        <5> HIDE DEF to, v, new
        <5>5. ui'.session = v.session /\ ui'.req = v.req /\ ui'.timer = v.timer
          BY <5>1, <5>3, <5>4, ConnectKeeps
        <5> QED
          BY <5>1, <5>2, <5>4, <5>5
      <4>4. CASE ~load[n].running
        <5>1. ui' = LoadDone(u) /\ messages' = old
          BY <1>10, <2>3, <4>4 DEF LoadShow, old, stored, last, u
        <5> QED
          BY <3>2, <4>2, <5>1, LoadDoneTyped
      <4> QED
        BY <4>3, <4>4
    <3> HIDE DEF S
    <3>4. ASSUME NEW T, S \subseteq T PROVE messages' \in Seq(MessagesOf({0} \cup T))
      <4>1. S \subseteq {0} \cup T
        BY <3>4
      <4> QED
        BY <3>3, <4>1, MoreMessages
    <3>5. S = {q \in Runs : home[q] = load[n].target} /\ load[n].target # 0
      BY <3>1, Names DEF S, RunsOf
    <3>6. Numbered'
      BY <1>2, <1>3, <2>1, <3>3 DEF SInv, Numbered, NumberedAt, Pending
    <3>7. Shows(Homes)'
      <4>1. S \subseteq Homes'
        BY <1>2, <3>5 DEF Homes
      <4> QED
        BY <3>4, <4>1 DEF Shows
    <3>8. ASSUME ~torn' PROVE InOrder'
      <4>1. InOrder
        BY <1>2, <3>8 DEF SInv
      <4>2. ui.session = load[n].target /\ \A j \in Runs : ~Waits(j)
        BY <1>2, <2>1, <2>3, <4>1 DEF InOrder, Reading, Alone
      <4>3. Single' /\ \A j \in Runs : Alone(j)'
        BY <1>2, <1>4, <3>3, <4>1, <4>2 DEF InOrder, Single, Alone
      <4>4. ASSUME NEW m \in Loads PROVE Reading(m)'
        <5>1. CASE m = n
          BY <2>1, <5>1 DEF Reading, Pending
        <5>2. CASE m # n
          BY <1>2, <1>6, <2>3, <3>3, <5>2 DEF Reading, Pending, Stale
        <5> QED
          BY <5>1, <5>2
      <4>5. S \subseteq Here'
        BY <1>2, <3>3, <3>5, <4>2 DEF Here, Homes
      <4>6. Shows(Here)'
        BY <3>4, <4>5 DEF Shows
      <4> QED
        BY <4>3, <4>4, <4>6 DEF InOrder
    <3> QED
      BY <3>6, <3>7, <3>8 DEF SInv
  <2> QED
    BY <2>2, <2>3
<1> QED
  BY <1>7, <1>8, <1>9, <1>10 DEF LoadSteps

-----------------------------------------------------------------------------
\* What the user or the tab asks for afresh.

\* A new request number leaves every load stale.
LEMMA Renumbered ==
  ASSUME Types, Numbered, ui'.req = ui.req + 1, NEW n \in Loads, load'[n] = load[n]
  PROVE  Stale(n)' /\ load[n].req < ui'.req
<1>1. load[n].req \in Nat /\ ui.req \in Nat /\ load[n].req <= ui.req
  BY DEF Types, Loaded, Uis, Numbered, NumberedAt
<1> QED
  BY <1>1 DEF Stale

\* The numbers are in order afterwards: only the load n may be new.
LEMMA NumberedAfresh ==
  ASSUME Types, Numbered, ui'.req = ui.req + 1, NEW n,
         \A m \in Loads \ {n} : load'[m] = load[m],
         n \in Loads => load'[n] = load[n] \/ load'[n].req = ui'.req
  PROVE  Numbered'
<1>1. ui'.req \in Nat
  BY DEF Types, Uis
<1>2. \A m \in Loads : load'[m] = load[m] => load[m].req < ui'.req
  BY Renumbered
<1>3. \A m \in Loads : load[m].req \in Nat
  BY DEF Types, Loaded
<1>4. ASSUME NEW m \in Loads PROVE NumberedAt(m)'
  <2>1. load'[m].req <= ui'.req
    BY <1>1, <1>2, <1>3
  <2>2. ASSUME NEW l \in Loads, Pending(m)', Pending(l)', load'[m].req = load'[l].req PROVE m = l
    <3>1. CASE load'[m] = load[m] /\ load'[l] = load[l]
      BY <2>2, <3>1 DEF Numbered, NumberedAt, Pending
    <3>2. CASE load'[m] # load[m] \/ load'[l] # load[l]
      BY <1>1, <1>2, <1>3, <2>2, <3>2
    <3> QED
      BY <3>1, <3>2
  <2> QED
    BY <2>1, <2>2 DEF NumberedAt
<1> QED
  BY <1>4 DEF Numbered

\* A message is sent.
LEMMA SendInOrder ==
  ASSUME Types, IInv, SInv, NEW k \in Runs, Send(k)
  PROVE  SInv'
<1>1. ui \in Uis /\ send[k] \in Sent
  BY DEF Types
<1>2. /\ torn' = (torn \/ Awaited) /\ UNCHANGED <<home, load, checks>>
      /\ \A j \in Runs \ {k} : send'[j] = send[j]
  BY DEF Send, server, Types
<1>3. ui'.session = ui.session /\ ui'.req = ui.req + 1
  <2>1. CASE ui.sending
    BY <1>1, <2>1, NumberTyped DEF Send
  <2>2. CASE ~ui.sending
    <3> DEFINE u == [Quiet(ui) EXCEPT !.req = @ + 1, !.connecting = FALSE, !.sending = TRUE,
                                     !.loading = TRUE]
    <3>1. ui' = Aborted(ForgetSeen(u), ui.ctl)
      BY <2>2 DEF Send
    <3>2. Quiet(ui) \in Uis /\ Quiet(ui).session = ui.session /\ Quiet(ui).req = ui.req
      BY <1>1, QuietTyped
    <3>3. \A q \in Uis :
            /\ [q EXCEPT !.connecting = FALSE, !.sending = TRUE, !.loading = TRUE] \in Uis
            /\ [q EXCEPT !.connecting = FALSE, !.sending = TRUE, !.loading = TRUE].session = q.session
            /\ [q EXCEPT !.connecting = FALSE, !.sending = TRUE, !.loading = TRUE].req = q.req
      BY DEF Uis
    <3>4. u = [[Quiet(ui) EXCEPT !.req = @ + 1] EXCEPT !.connecting = FALSE, !.sending = TRUE,
                                                       !.loading = TRUE]
      OBVIOUS
    <3> HIDE DEF u
    <3>5. u \in Uis /\ u.session = ui.session /\ u.req = ui.req + 1
      BY <3>2, <3>3, <3>4, NumberTyped
    <3> QED
      BY <3>1, <3>5, ForgetTyped, AbortedTyped
  <2> QED
    BY <2>1, <2>2
<1>4. Numbered'
  BY <1>2, <1>3, NumberedAfresh DEF SInv
<1>5. ASSUME NEW S, Shows(S) PROVE messages' \in Seq(MessagesOf({0} \cup S))
  <2> DEFINE M == MessagesOf({0} \cup S)
             more == <<UserMessage(k), Assistant(<<"tmp", k>>, 0, TRUE)>>
  <2>1. messages \in Seq(M)
    BY <1>5 DEF Shows
  <2>2. UserMessage(k) \in M /\ Assistant(<<"tmp", k>>, 0, TRUE) \in M
    BY Names, NewMessages
  <2>3. messages' = messages \/ messages' = messages \o more
    BY DEF Send
  <2> HIDE DEF M
  <2>4. \A a, b \in M : <<a, b>> \in Seq(M)
    OBVIOUS
  <2>5. more \in Seq(M)
    BY <2>2, <2>4
  <2> HIDE DEF more
  <2>6. messages \o more \in Seq(M)
    BY <2>1, <2>5
  <2> QED
    BY <2>1, <2>3, <2>6 DEF M
<1>6. Homes' = Homes /\ Here' = Here
  BY <1>2, <1>3 DEF Here, Homes
<1>7. Shows(Homes)'
  BY <1>5, <1>6 DEF SInv, Shows
<1>8. ASSUME ~torn' PROVE InOrder'
  <2>1. ~torn /\ ~Awaited
    BY <1>2, <1>8
  <2>2. InOrder
    BY <2>1 DEF SInv
  <2>3. /\ \A c \in Conns : Cut(conn, ui.ctl)[c].st = "none"
        /\ Due = {} /\ checks = {} /\ \A j \in Runs : ~Waits(j)
    BY <2>1, FreshStart
  <2>4. \A n \in Loads : Stale(n)'
    BY <1>2, <1>3, Renumbered DEF SInv
  <2>5. Single' /\ \A j \in Runs : Alone(j)'
    <3>1. \A j \in Runs : j # k => ~Waits(j)'
      BY <1>2, <2>3 DEF Waits
    <3>2. CASE ui.sending
      <4>1. send'[k].st = "over" /\ timers' = timers
        BY <1>1, <3>2 DEF Send, Types, Sent
      <4>2. ui'.timer = ui.timer
        BY <1>1, <3>2, NumberTyped DEF Send
      <4>3. \A j \in Runs : ~Waits(j)'
        BY <3>1, <4>1 DEF Waits
      <4> QED
        BY <1>2, <2>2, <4>1, <4>2, <4>3 DEF InOrder, Single, Alone
    <3>3. CASE ~ui.sending
      <4>1. conn' = Cut(conn, ui.ctl) /\ timers' = Due /\ send'[k].from = ui.session
        BY <3>3 DEF Send, Types
      <4>2. Single'
        BY <1>2, <2>3, <4>1 DEF Single
      <4>3. Alone(k)'
        BY <1>2, <1>3, <2>3, <2>4, <3>1, <4>1 DEF Alone
      <4>4. \A j \in Runs \ {k} : Alone(j)'
        BY <3>1 DEF Alone
      <4> QED
        BY <4>2, <4>3, <4>4
    <3> QED
      BY <3>2, <3>3
  <2>6. \A n \in Loads : Reading(n)'
    BY <2>4 DEF Reading
  <2>7. Shows(Here)'
    BY <1>5, <1>6, <2>2 DEF InOrder, Shows
  <2> QED
    BY <2>5, <2>6, <2>7 DEF InOrder
<1> QED
  BY <1>4, <1>7, <1>8 DEF SInv

\* A session is opened, the view is cleared: nothing is shown.
LEMMA BlankInOrder ==
  ASSUME Types, IInv, SInv, Clear \/ \E n \in Loads, s \in Runs : Load(n, s)
  PROVE  SInv'
<1>1. /\ messages' = <<>> /\ timers' = Due /\ torn' = (torn \/ Awaited)
      /\ UNCHANGED <<home, send, checks>> /\ ui \in Uis
  BY DEF Clear, Load, server, Types
<1>2. Quiet(ui) \in Uis /\ Quiet(ui).req = ui.req
  BY <1>1, QuietTyped
<1>3. ui'.req = ui.req + 1
  <2>1. CASE Clear
    <3> DEFINE u == [Quiet(ui) EXCEPT !.req = @ + 1, !.session = 0, !.run = 0,
                                     !.streaming = None, !.disconnected = TRUE]
    <3>1. ui' = Aborted(ForgetSeen(u), ui.ctl)
      BY <2>1 DEF Clear
    <3>2. \A q \in Uis :
            /\ [q EXCEPT !.session = 0, !.run = 0, !.streaming = None, !.disconnected = TRUE] \in Uis
            /\ [q EXCEPT !.session = 0, !.run = 0, !.streaming = None, !.disconnected = TRUE].req = q.req
      BY Names DEF Uis
    <3>3. u = [[Quiet(ui) EXCEPT !.req = @ + 1] EXCEPT !.session = 0, !.run = 0,
                                                       !.streaming = None, !.disconnected = TRUE]
      OBVIOUS
    <3> HIDE DEF u
    <3>4. u \in Uis /\ u.req = ui.req + 1
      BY <1>2, <3>2, <3>3, NumberTyped
    <3> QED
      BY <3>1, <3>4, ForgetTyped, AbortedTyped
  <2>2. CASE \E n \in Loads, s \in Runs : Load(n, s)
    <3> DEFINE u == [Quiet(ui) EXCEPT !.req = @ + 1, !.connecting = FALSE, !.streaming = None,
                                     !.loading = TRUE, !.loadingHistory = TRUE]
    <3>1. ui' = Aborted(ForgetSeen(u), ui.ctl)
      BY <2>2 DEF Load
    <3>2. \A q \in Uis :
            /\ [q EXCEPT !.connecting = FALSE, !.streaming = None, !.loading = TRUE,
                         !.loadingHistory = TRUE] \in Uis
            /\ [q EXCEPT !.connecting = FALSE, !.streaming = None, !.loading = TRUE,
                         !.loadingHistory = TRUE].req = q.req
      BY Names DEF Uis
    <3>3. u = [[Quiet(ui) EXCEPT !.req = @ + 1] EXCEPT !.connecting = FALSE, !.streaming = None,
                                                       !.loading = TRUE, !.loadingHistory = TRUE]
      OBVIOUS
    <3> HIDE DEF u
    <3>4. u \in Uis /\ u.req = ui.req + 1
      BY <1>2, <3>2, <3>3, NumberTyped
    <3> QED
      BY <3>1, <3>4, ForgetTyped, AbortedTyped
  <2> QED
    BY <2>1, <2>2
<1>4. PICK n : /\ \A m \in Loads \ {n} : load'[m] = load[m]
               /\ n \in Loads => load'[n] = load[n] \/ (load'[n].req = ui'.req /\ load'[n].st = "get")
  <2>1. CASE Clear
    BY <2>1 DEF Clear
  <2>2. ASSUME NEW n \in Loads, NEW s \in Runs, Load(n, s)
        PROVE  /\ \A m \in Loads \ {n} : load'[m] = load[m]
               /\ load'[n].req = ui'.req /\ load'[n].st = "get"
    BY <2>2 DEF Load, Types, NoLoad
  <2> QED
    BY <2>1, <2>2
<1>5. Numbered'
  BY <1>3, <1>4, NumberedAfresh DEF SInv
<1>6. \A S : Shows(S)'
  BY <1>1 DEF Shows
<1>7. ASSUME ~torn' PROVE InOrder'
  <2>1. Due = {} /\ checks = {} /\ \A j \in Runs : ~Waits(j)
    <3>1. ~torn /\ ~Awaited
      BY <1>1, <1>7
    <3> QED
      BY <3>1, FreshStart
  <2>2. Single' /\ \A j \in Runs : Alone(j)'
    BY <1>1, <2>1 DEF Single, Alone, Waits
  <2>3. ASSUME NEW m \in Loads PROVE Reading(m)'
    <3>1. CASE load'[m] = load[m]
      <4>1. Stale(m)'
        BY <1>3, <3>1, Renumbered DEF SInv
      <4> QED
        BY <4>1 DEF Reading
    <3>2. CASE load'[m] # load[m]
      <4>1. load'[m].st = "get"
        BY <1>4, <3>2
      <4> QED
        BY <1>6, <4>1 DEF Reading
    <3> QED
      BY <3>1, <3>2
  <2> QED
    BY <1>6, <2>2, <2>3 DEF InOrder
<1> QED
  BY <1>5, <1>6, <1>7 DEF SInv

\* The tab wakes up.
LEMMA WakeInOrder ==
  ASSUME Types, IInv, SInv, Wake
  PROVE  SInv'
<1> DEFINE k == [n |-> spent'.wakes, run |-> ui.run, home |-> ui.session, msg |-> ui.streaming]
           u == [Quiet(ui) EXCEPT !.connecting = FALSE]
<1>1. /\ ui' = Aborted(u, ui.ctl) /\ timers' = Due /\ torn' = (torn \/ Awaited)
      /\ checks' = checks \cup {k} /\ UNCHANGED <<home, messages, send, load>> /\ ui \in Uis
  BY DEF Wake, server, Types
<1>2. ui'.session = ui.session /\ ui'.req = ui.req
  <2>1. Quiet(ui) \in Uis /\ Quiet(ui).session = ui.session /\ Quiet(ui).req = ui.req
    BY <1>1, QuietTyped
  <2>2. \A q \in Uis : /\ [q EXCEPT !.connecting = FALSE] \in Uis
                       /\ [q EXCEPT !.connecting = FALSE].session = q.session
                       /\ [q EXCEPT !.connecting = FALSE].req = q.req
    BY DEF Uis
  <2>3. u \in Uis /\ u.session = ui.session /\ u.req = ui.req
    BY <2>1, <2>2
  <2> HIDE DEF u
  <2> QED
    BY <1>1, <2>3, AbortedTyped
<1> HIDE DEF k, u
<1>3. Numbered' /\ Shows(Homes)'
  BY <1>1, <1>2 DEF SInv, Numbered, NumberedAt, Pending, Shows, Homes
<1>4. ASSUME ~torn' PROVE InOrder'
  <2>1. ~torn /\ ~Awaited
    BY <1>1, <1>4
  <2>2. InOrder
    BY <2>1 DEF SInv
  <2>3. Due = {} /\ checks = {} /\ \A j \in Runs : ~Waits(j)
    BY <2>1, FreshStart
  <2>4. Single' /\ \A j \in Runs : Alone(j)'
    BY <1>1, <2>3 DEF Single, Alone, Waits
  <2>5. Shows(Here)'
    BY <1>1, <1>2, <2>2 DEF InOrder, Shows, Here, Homes
  <2>6. \A n \in Loads : Reading(n)'
    BY <1>1, <1>2, <2>2 DEF InOrder, Reading, Pending, Stale, Shows
  <2> QED
    BY <2>4, <2>5, <2>6 DEF InOrder
<1> QED
  BY <1>3, <1>4 DEF SInv

-----------------------------------------------------------------------------
\* The view is in order always.
LEMMA OrderHolds == Spec => []SInv
<1>1. Init => SInv
  <2> SUFFICES ASSUME Init PROVE SInv
    OBVIOUS
  <2>1. \A S : Shows(S)
    BY DEF Init, Shows
  <2>2. \A n \in Loads : load[n].st = "none" /\ load[n].req = 0
    BY DEF Init, NoLoad
  <2>3. \A k \in Runs : ~Waits(k)
    BY DEF Init, Waits
  <2>4. Numbered
    BY <2>2 DEF Init, Numbered, NumberedAt, Pending
  <2>5. Single
    BY DEF Init, Single
  <2> QED
    BY <2>1, <2>2, <2>3, <2>4, <2>5 DEF SInv, InOrder, Alone, Reading, Pending
<1>2. TInv /\ IInv /\ SInv /\ [Next]_vars => SInv'
  <2> SUFFICES ASSUME Types, Fed, Homed, Targeted, IInv, SInv, [Next]_vars PROVE SInv'
    BY DEF TInv
  <2>1. CASE (\E r \in Runs : Emit(r) \/ Finish(r)) \/ Stop \/ Offline
    BY <2>1, ServerInOrder
  <2>2. CASE \E c \in Conns : ConnSteps(c) \/ Reject(c) \/ Break(c)
    BY <2>2, ConnInOrder
  <2>3. CASE \E k \in Runs : SendSteps(k) \/ Send(k)
    BY <2>3, AcceptInOrder, SubmittedInOrder, SendInOrder DEF SendSteps
  <2>4. CASE \E n \in Loads : LoadSteps(n)
    BY <2>4, LoadInOrder
  <2>5. CASE (\E k \in checks : Checked(k)) \/ (\E k \in timers : Fire(k))
    BY <2>5, CheckedInOrder, FireInOrder
  <2>6. CASE Clear \/ \E n \in Loads, s \in Runs : Load(n, s)
    BY <2>6, BlankInOrder
  <2>7. CASE Wake
    BY <2>7, WakeInOrder
  <2>8. CASE UNCHANGED vars
    BY <2>8 DEF vars, server, SInv, Numbered, NumberedAt, Shows, Homes, InOrder, Alone, Single,
               Reading, Here, Waits, Pending, Stale
  <2> QED
    BY <2>1, <2>2, <2>3, <2>4, <2>5, <2>6, <2>7, <2>8 DEF Next, User
<1> QED
  BY <1>1, <1>2, TypesHold, InvariantHolds, PTL DEF Spec

\* Unless the user has acted, or the tab woken up, while an answer to an earlier
\* request was awaited, or a send has failed beside an answer (torn), every
\* answer shown is of the session that the view names (InSession): useAgent
\* drops the answer of a load that a later one, a send or a clear overtook, and
\* a stream that is aborted shows nothing any more.
THEOREM AnswersInSession == Spec => []InSession
<1>1. SInv => InSession
  <2> SUFFICES ASSUME SInv, ~torn, NEW m \in Answers, m.run # 0
               PROVE  home[m.run] = ui.session
    BY DEF InSession
  <2>1. messages \in Seq(MessagesOf({0} \cup Here))
    BY DEF SInv, InOrder, Shows
  <2>2. m \in MessagesOf({0} \cup Here) /\ m.role = "assistant"
    <3>1. PICK i \in DOMAIN messages : m = messages[i]
      BY DEF Answers, ToSet
    <3>2. m.role = "assistant"
      BY DEF Answers
    <3> QED
      BY <2>1, <3>1, <3>2
  <2> QED
    BY <2>2 DEF MessagesOf, Here
<1> QED
  BY <1>1, OrderHolds, PTL

-----------------------------------------------------------------------------
(* No message is shown twice.                                              *)

\* An answer's id before its run is known is that run's id to be.
Key(id) == IF id[1] = "tmp" THEN <<"run", id[2]>> ELSE id
Apart(ms) == \A i, j \in DOMAIN ms : Key(ms[i].id) = Key(ms[j].id) => i = j

\* What carries a user message's id is that message; what carries a run's id is
\* of one of the runs K.
Proper(m, K) ==
  \A r \in Runs :
    /\ m.id = <<"user", r>> => m.role = "user" /\ m.run = r
    /\ m.id \in {<<"user", r>>, <<"tmp", r>>, <<"run", r>>} => r \in K
Tidy(ms, K) == \A i \in DOMAIN ms : Proper(ms[i], K)

SentRuns == {r \in Runs : send[r].st # "none"}

\* Events are of runs that have a session, and in their run's order.
Begun == \A r \in Runs : phase[r] # "none" => home[r] # 0
Told == \A i \in DOMAIN feed : home[feed[i][1]] # 0 /\ feed[i][2] <= Count(feed[i][1])
Ordered ==
  \A i, j \in DOMAIN feed : i < j /\ feed[i][1] = feed[j][1] => feed[i][2] < feed[j][2]

UInv ==
  Begun /\ Told /\ Ordered /\ Tidy(messages, SentRuns) /\ (~Overlap => Apart(messages))

-----------------------------------------------------------------------------
\* Keys tell the ids apart, but for an answer's two.
LEMMA Keys ==
  /\ \A r, q : /\ Key(<<"user", r>>) = <<"user", r>> /\ Key(<<"run", r>>) = <<"run", r>>
               /\ Key(<<"tmp", r>>) = <<"run", r>> /\ Key(<<"load", r>>) = <<"load", r>>
               /\ <<"user", r>> # <<"run", q>> /\ <<"user", r>> # <<"load", q>>
               /\ <<"user", r>> # <<"tmp", q>> /\ <<"run", r>> # <<"load", q>>
               /\ <<"run", r>> # <<"tmp", q>> /\ <<"tmp", r>> # <<"load", q>>
               /\ <<"user", r>> = <<"user", q>> => r = q
               /\ <<"run", r>> = <<"run", q>> => r = q
               /\ <<"tmp", r>> = <<"tmp", q>> => r = q
  BY DEF Key

\* An id whose key is a run's or a user message's.
LEMMA KeyOf ==
  ASSUME NEW id \in Ids, NEW r
  PROVE  /\ Key(id) = <<"run", r>> => id \in {<<"run", r>>, <<"tmp", r>>}
         /\ Key(id) = <<"user", r>> => id = <<"user", r>>
<1>1. CASE id = None
  BY <1>1 DEF Key, None
<1>2. CASE id \in {"user", "run", "tmp"} \X Runs
  BY <1>2 DEF Key
<1>3. CASE id \in {"load"} \X Loads
  BY <1>3 DEF Key
<1> QED
  BY <1>1, <1>2, <1>3 DEF Ids

\* Names as they were.
LEMMA SameNames ==
  ASSUME NEW ms, NEW t, DOMAIN t = DOMAIN ms,
         \A i \in DOMAIN ms : t[i].id = ms[i].id /\ t[i].role = ms[i].role /\ t[i].run = ms[i].run
  PROVE  /\ \A K : Tidy(ms, K) => Tidy(t, K)
         /\ Apart(ms) => Apart(t)
<1>1. Apart(ms) => Apart(t)
  BY DEF Apart
<1>2. \A K : Tidy(ms, K) => Tidy(t, K)
  BY DEF Tidy, Proper
<1> QED
  BY <1>1, <1>2

\* One more message.
LEMMA OneMore ==
  ASSUME NEW ms \in Seq(Message), NEW m \in Message
  PROVE  /\ Append(ms, m) \in Seq(Message)
         /\ \A K : Tidy(ms, K) /\ Proper(m, K) => Tidy(Append(ms, m), K)
         /\ Apart(ms) /\ (\A i \in DOMAIN ms : Key(ms[i].id) # Key(m.id)) => Apart(Append(ms, m))
<1> DEFINE t == Append(ms, m)
<1>1. /\ t \in Seq(Message) /\ Len(ms) \in Nat /\ DOMAIN ms = 1 .. Len(ms)
      /\ DOMAIN t = 1 .. (Len(ms) + 1) /\ t[Len(ms) + 1] = m
      /\ \A i \in DOMAIN ms : t[i] = ms[i]
  OBVIOUS
<1> HIDE DEF t
<1>2. \A i \in DOMAIN t : i \in DOMAIN ms \/ (i = Len(ms) + 1 /\ t[i] = m)
  BY <1>1
<1>3. ASSUME NEW K, Tidy(ms, K), Proper(m, K) PROVE Tidy(t, K)
  <2>1. \A i \in DOMAIN t : Proper(t[i], K)
    BY <1>1, <1>2, <1>3 DEF Tidy
  <2> QED
    BY <2>1 DEF Tidy
<1>4. ASSUME Apart(ms), \A i \in DOMAIN ms : Key(ms[i].id) # Key(m.id) PROVE Apart(t)
  BY <1>1, <1>2, <1>4 DEF Apart
<1> QED
  BY <1>1, <1>3, <1>4 DEF t

\* One sequence after another.
LEMMA Joined ==
  ASSUME NEW T, NEW a \in Seq(T), NEW b \in Seq(T)
  PROVE  /\ a \o b \in Seq(T) /\ Len(a \o b) = Len(a) + Len(b)
         /\ DOMAIN (a \o b) = 1 .. (Len(a) + Len(b))
         /\ \A i \in 1 .. (Len(a) + Len(b)) : (a \o b)[i] = IF i <= Len(a) THEN a[i] ELSE b[i - Len(a)]
  OBVIOUS

\* A message is put before another one.
LEMMA PutBefore ==
  ASSUME NEW ms \in Seq(Message), NEW m \in Message, NEW at \in DOMAIN ms
  PROVE  /\ \A K : Tidy(ms, K) /\ Proper(m, K) => Tidy(InsertAt(ms, at, m), K)
         /\ Apart(ms) /\ (\A i \in DOMAIN ms : Key(ms[i].id) # Key(m.id))
              => Apart(InsertAt(ms, at, m))
<1> DEFINE t == InsertAt(ms, at, m)
           back(i) == IF i < at THEN i ELSE i - 1
<1>1. Len(ms) \in Nat /\ DOMAIN ms = 1 .. Len(ms) /\ at \in 1 .. Len(ms)
  OBVIOUS
<1>2. DOMAIN t = 1 .. (Len(ms) + 1) /\ t[at] = m
      /\ \A i \in DOMAIN t : i # at => t[i] = ms[back(i)]
  <2> DEFINE a == SubSeq(ms, 1, at - 1)
             b == <<m>>
             c == SubSeq(ms, at, Len(ms))
  <2>1. /\ a \in Seq(Message) /\ b \in Seq(Message) /\ c \in Seq(Message)
        /\ Len(a) = at - 1 /\ Len(b) = 1 /\ Len(c) = Len(ms) - at + 1 /\ b[1] = m
        /\ \A i \in 1 .. Len(a) : a[i] = ms[i]
        /\ \A i \in 1 .. Len(c) : c[i] = ms[at + i - 1]
    <3>1. a \in Seq(Message) /\ Len(a) = at - 1 /\ \A i \in 1 .. Len(a) : a[i] = ms[i]
      BY <1>1
    <3>2. c \in Seq(Message) /\ Len(c) = Len(ms) - at + 1
      BY <1>1
    <3>3. \A i \in 1 .. Len(c) : c[i] = ms[at + i - 1]
      BY <1>1, <3>2
    <3>4. b \in Seq(Message) /\ Len(b) = 1 /\ b[1] = m
      OBVIOUS
    <3> QED
      BY <3>1, <3>2, <3>3, <3>4
  <2> DEFINE ab == a \o b
  <2>2. t = ab \o c
    BY DEF InsertAt
  <2> HIDE DEF a, b, c, t
  <2>3. ab \in Seq(Message) /\ Len(ab) = at /\ \A i \in 1 .. at : ab[i] = IF i < at THEN ms[i] ELSE m
    <3>1. /\ ab \in Seq(Message) /\ Len(ab) = Len(a) + Len(b)
          /\ \A i \in 1 .. (Len(a) + Len(b)) : ab[i] = IF i <= Len(a) THEN a[i] ELSE b[i - Len(a)]
      <4>1. a \in Seq(Message) /\ b \in Seq(Message)
        BY <2>1
      <4> QED
        BY <4>1, Joined
    <3> HIDE DEF ab
    <3>3. ASSUME NEW i \in 1 .. at PROVE ab[i] = IF i < at THEN ms[i] ELSE m
      <4>1. CASE i < at
        BY <1>1, <2>1, <3>1, <4>1
      <4>2. CASE i = at
        BY <1>1, <2>1, <3>1, <4>2
      <4> QED
        BY <1>1, <4>1, <4>2
    <3> QED
      BY <1>1, <2>1, <3>1, <3>3
  <2> HIDE DEF ab
  <2>4. /\ DOMAIN t = 1 .. (Len(ab) + Len(c))
        /\ \A i \in DOMAIN t : t[i] = IF i <= Len(ab) THEN ab[i] ELSE c[i - Len(ab)]
    <3>1. ab \in Seq(Message) /\ c \in Seq(Message)
      BY <2>1, <2>3
    <3> QED
      BY <2>2, <3>1, Joined
  <2>5. DOMAIN t = 1 .. (Len(ms) + 1)
    BY <1>1, <2>1, <2>3, <2>4
  <2>6. t[at] = m
    BY <1>1, <2>3, <2>4, <2>5
  <2>7. ASSUME NEW i \in DOMAIN t, i # at PROVE t[i] = ms[back(i)]
    <3>1. CASE i < at
      BY <1>1, <2>3, <2>4, <2>5, <3>1
    <3>2. CASE i > at
      <4>1. i - at \in 1 .. Len(c) /\ at + (i - at) - 1 = i - 1
        BY <1>1, <2>1, <2>5, <3>2
      <4>2. t[i] = c[i - at]
        BY <1>1, <2>3, <2>4, <3>2, <2>5
      <4> QED
        BY <2>1, <3>2, <4>1, <4>2, <1>1, <2>5
    <3> QED
      BY <1>1, <2>5, <2>7, <3>1, <3>2
  <2> QED
    BY <2>5, <2>6, <2>7
<1>3. \A i \in DOMAIN t : i # at => back(i) \in DOMAIN ms
  BY <1>1, <1>2
<1>4. \A i, j \in DOMAIN t : i # at /\ j # at /\ back(i) = back(j) => i = j
  BY <1>1, <1>2
<1> HIDE DEF t, back
<1>5. ASSUME NEW K, Tidy(ms, K), Proper(m, K) PROVE Tidy(t, K)
  <2>1. \A i \in DOMAIN t : Proper(t[i], K)
    BY <1>2, <1>3, <1>5 DEF Tidy
  <2> QED
    BY <2>1 DEF Tidy
<1>6. ASSUME Apart(ms), \A i \in DOMAIN ms : Key(ms[i].id) # Key(m.id) PROVE Apart(t)
  BY <1>2, <1>3, <1>4, <1>6 DEF Apart
<1> QED
  BY <1>5, <1>6 DEF t

\* The user message that comes with the stream.
LEMMA InsertUserTidy ==
  ASSUME NEW ms \in Seq(Message), NEW r \in Runs, NEW K, r \in K, Tidy(ms, K)
  PROVE  Tidy(InsertUser(ms, r), K) /\ (Apart(ms) => Apart(InsertUser(ms, r)))
<1> DEFINE streaming == {i \in DOMAIN ms : ms[i].role = "assistant" /\ ms[i].streaming}
           at == CHOOSE i \in streaming : \A j \in streaming : i <= j
           u == UserMessage(r)
<1>1. u \in Message /\ Proper(u, K) /\ u.id = <<"user", r>>
  <2>1. u \in Message
    BY NewMessages, AnyMessage
  <2>2. u.id = <<"user", r>> /\ u.role = "user" /\ u.run = r
    BY DEF UserMessage
  <2> HIDE DEF u
  <2> QED
    BY <2>1, <2>2, Keys DEF Proper
<1> HIDE DEF u
<1>2. CASE \E i \in DOMAIN ms : ms[i].role = "user" /\ Text(ms[i].run) = Text(r)
  <2>1. InsertUser(ms, r) = ms
    BY <1>2 DEF InsertUser
  <2> QED
    BY <2>1
<1>3. CASE ~ \E i \in DOMAIN ms : ms[i].role = "user" /\ Text(ms[i].run) = Text(r)
  <2>1. ASSUME NEW i \in DOMAIN ms PROVE Key(ms[i].id) # Key(u.id)
    <3>1. ms[i] \in Message
      OBVIOUS
    <3>2. ms[i].id \in Ids
      BY <3>1 DEF Message
    <3>3. ms[i].id # <<"user", r>>
      BY <1>3 DEF Tidy, Proper
    <3> QED
      BY <1>1, <3>2, <3>3, Keys, KeyOf
  <2>2. CASE streaming = {}
    <3>1. InsertUser(ms, r) = Append(ms, u)
      BY <1>3, <2>2 DEF InsertUser, u
    <3> QED
      BY <1>1, <2>1, <3>1, OneMore
  <2>3. CASE streaming # {}
    <3>1. InsertUser(ms, r) = InsertAt(ms, at, u)
      BY <1>3, <2>3 DEF InsertUser, u
    <3>2. streaming \subseteq DOMAIN ms /\ streaming \subseteq Nat
      OBVIOUS
    <3> HIDE DEF streaming
    <3>3. \E i \in streaming : \A j \in streaming : i <= j
      BY <2>3, <3>2, LeastNat
    <3>4. at \in DOMAIN ms
      BY <3>2, <3>3
    <3> HIDE DEF at
    <3> QED
      BY <1>1, <2>1, <3>1, <3>4, PutBefore
  <2> QED
    BY <2>2, <2>3
<1> QED
  BY <1>2, <1>3

\* A message stops streaming; a chunk is added.
LEMMA DropSame ==
  ASSUME NEW ms \in Seq(Message), NEW id
  PROVE  /\ \A K : Tidy(ms, K) => Tidy(Drop(ms, id), K)
         /\ Apart(ms) => Apart(Drop(ms, id))
<1> DEFINE t == Drop(ms, id)
<1>1. \A m \in Message : LET n == [m EXCEPT !.streaming = FALSE]
                         IN n.id = m.id /\ n.role = m.role /\ n.run = m.run
  BY DEF Message
<1>2. \A i \in DOMAIN ms : ms[i] \in Message
  OBVIOUS
<1>3. DOMAIN t = DOMAIN ms
      /\ \A i \in DOMAIN ms : t[i].id = ms[i].id /\ t[i].role = ms[i].role /\ t[i].run = ms[i].run
  BY <1>1, <1>2 DEF Drop
<1> HIDE DEF t
<1>4. (\A K : Tidy(ms, K) => Tidy(t, K)) /\ (Apart(ms) => Apart(t))
  BY <1>3, SameNames
<1> QED
  BY <1>4 DEF t

\* What an event does to the messages.
LEMMA ApplyTidy ==
  ASSUME NEW ms \in Seq(Message), NEW id, NEW e \in Feed, NEW K, e[1] \in K, Tidy(ms, K)
  PROVE  Tidy(Apply(ms, id, e), K) /\ (Apart(ms) => Apart(Apply(ms, id, e)))
<1>1. e[1] \in Runs
  BY DEF Feed
<1>2. CASE e[2] = 1
  BY <1>1, <1>2, InsertUserTidy DEF Apply
<1>3. CASE e[2] # 1 /\ e[2] = Events
  BY <1>3, DropSame DEF Apply
<1>4. CASE e[2] # 1 /\ e[2] # Events
  <2> DEFINE t == Apply(ms, id, e)
  <2>1. \A m \in Message : LET n == [m EXCEPT !.got = Append(@, e)]
                           IN n.id = m.id /\ n.role = m.role /\ n.run = m.run
    BY DEF Message
  <2>2. \A i \in DOMAIN ms : ms[i] \in Message
    OBVIOUS
  <2>3. DOMAIN t = DOMAIN ms
        /\ \A i \in DOMAIN ms : t[i].id = ms[i].id /\ t[i].role = ms[i].role /\ t[i].run = ms[i].run
    BY <1>4, <2>1, <2>2 DEF Apply
  <2> HIDE DEF t
  <2>4. (\A L : Tidy(ms, L) => Tidy(t, L)) /\ (Apart(ms) => Apart(t))
    BY <2>3, SameNames
  <2> QED
    BY <2>4 DEF t
<1> QED
  BY <1>2, <1>3, <1>4

-----------------------------------------------------------------------------
\* The history of the runs rs after i places of the feed: a message of it that
\* is finished is a user message whose event was seen, or the answer of a run
\* that another one followed; the one that grows is of a run that was seen.
ShownAt(m, rs, i) ==
  \E r \in rs :
    \/ m.id = <<"user", r>> /\ m.role = "user" /\ m.run = r /\ \E a \in 1 .. i : feed[a] = <<r, 1>>
    \/ m.id = <<"run", r>>
       /\ \E a, b \in 1 .. i : a < b /\ feed[a][1] = r /\ feed[b][1] \in rs \ {r}
GrowingAt(m, rs, i) == \E r \in rs : m.id = <<"run", r>> /\ \E a \in 1 .. i : feed[a][1] = r

SoFar(acc, rs, i) ==
  /\ acc \in Built(rs) /\ Len(acc.current) <= 1
  /\ \A x \in DOMAIN acc.shown : ShownAt(acc.shown[x], rs, i)
  /\ \A y \in DOMAIN acc.current : GrowingAt(acc.current[y], rs, i)
  /\ ~Overlap =>
       /\ Apart(acc.shown)
       /\ \A x \in DOMAIN acc.shown, y \in DOMAIN acc.current : acc.shown[x].id # acc.current[y].id

\* What is said of i places is said of the next.
LEMMA Later ==
  ASSUME NEW rs, NEW i \in Nat
  PROVE  /\ \A m : ShownAt(m, rs, i) => ShownAt(m, rs, i + 1)
         /\ \A m : GrowingAt(m, rs, i) => GrowingAt(m, rs, i + 1)
         /\ \A acc : SoFar(acc, rs, i) => SoFar(acc, rs, i + 1)
<1>1. 1 .. i \subseteq 1 .. (i + 1)
  OBVIOUS
<1>2. ASSUME NEW m, ShownAt(m, rs, i) PROVE ShownAt(m, rs, i + 1)
  BY <1>1, <1>2 DEF ShownAt
<1>3. ASSUME NEW m, GrowingAt(m, rs, i) PROVE GrowingAt(m, rs, i + 1)
  BY <1>1, <1>3 DEF GrowingAt
<1> QED
  BY <1>2, <1>3 DEF SoFar

\* The message that grows is put after the finished ones.
LEMMA Flushed ==
  ASSUME NEW rs, NEW i, NEW acc, SoFar(acc, rs, i)
  PROVE  LET p == acc.shown \o acc.current
         IN /\ p \in Seq(MessagesOf(rs))
            /\ \A x \in DOMAIN p : ShownAt(p[x], rs, i) \/ GrowingAt(p[x], rs, i)
            /\ ~Overlap => Apart(p)
            /\ acc.current = <<>> => p = acc.shown
<1> DEFINE p == acc.shown \o acc.current
           M == MessagesOf(rs)
<1>1. acc.shown \in Seq(M) /\ acc.current \in Seq(M)
  BY DEF SoFar, Built
<1>2. CASE acc.current = <<>>
  <2>1. p = acc.shown
    <3> HIDE DEF M
    <3> QED
      BY <1>1, <1>2
  <2> HIDE DEF p, M
  <2>2. p \in Seq(M) /\ (\A x \in DOMAIN p : ShownAt(p[x], rs, i)) /\ (~Overlap => Apart(p))
    BY <1>1, <2>1 DEF SoFar
  <2> QED
    BY <2>1, <2>2 DEF p, M
<1>3. CASE acc.current # <<>>
  <2> DEFINE m == acc.current[1]
  <2>1. acc.current = <<m>> /\ 1 \in DOMAIN acc.current /\ m \in M
    <3>1. Len(acc.current) \in Nat /\ Len(acc.current) <= 1
      BY <1>1 DEF SoFar
    <3> HIDE DEF M
    <3>2. Len(acc.current) # 0
      BY <1>1, <1>3
    <3>3. Len(acc.current) = 1
      <4> DEFINE l == Len(acc.current)
      <4>1. l \in Nat /\ l <= 1 /\ l # 0
        BY <3>1, <3>2
      <4> HIDE DEF l
      <4>2. l = 1
        BY <4>1
      <4> QED
        BY <4>2 DEF l
    <3> QED
      BY <1>1, <3>3
  <2>2. GrowingAt(m, rs, i)
    BY <2>1 DEF SoFar
  <2> HIDE DEF M, m
  <2>3. p = Append(acc.shown, m)
    BY <1>1, <2>1
  <2>4. acc.shown \in Seq(Message) /\ m \in Message
    <3>1. M \subseteq Message
      BY DEF M, MessagesOf
    <3> QED
      BY <1>1, <2>1, <3>1
  <2> HIDE DEF p
  <2>5. p \in Seq(M)
    BY <1>1, <2>1, <2>3
  <2>6. \A x \in DOMAIN p : (x \in DOMAIN acc.shown /\ p[x] = acc.shown[x]) \/ p[x] = m
    BY <1>1, <2>1, <2>3
  <2>7. \A x \in DOMAIN p : ShownAt(p[x], rs, i) \/ GrowingAt(p[x], rs, i)
    BY <2>2, <2>6 DEF SoFar
  <2>8. ASSUME ~Overlap PROVE Apart(p)
    <3>1. Apart(acc.shown)
      BY <2>8 DEF SoFar
    <3>2. PICK r \in rs : m.id = <<"run", r>>
      BY <2>2 DEF GrowingAt
    <3>3. \A x \in DOMAIN acc.shown : acc.shown[x].id # m.id
      BY <2>1, <2>8 DEF SoFar, m
    <3>4. ASSUME NEW x \in DOMAIN acc.shown PROVE Key(acc.shown[x].id) # Key(m.id)
      <4>1. ShownAt(acc.shown[x], rs, i)
        BY DEF SoFar
      <4>2. \E q : acc.shown[x].id = <<"user", q>> \/ acc.shown[x].id = <<"run", q>>
        BY <4>1 DEF ShownAt
      <4> QED
        BY <3>2, <3>3, <4>2, Keys
    <3> QED
      BY <2>3, <2>4, <3>1, <3>4, OneMore
  <2> QED
    BY <1>3, <2>5, <2>7, <2>8 DEF p, M
<1> QED
  BY <1>2, <1>3

\* One step of the loop keeps that.
LEMMA RebuildNames ==
  ASSUME feed \in Seq(Feed), Ordered, NEW s, NEW rs, rs \subseteq RunsOf(s), NEW i \in Nat,
         i + 1 \in DOMAIN feed, feed[i + 1][1] \in rs, NEW acc, SoFar(acc, rs, i)
  PROVE  SoFar(Rebuild(acc, feed[i + 1]), rs, i + 1)
<1> DEFINE e == feed[i + 1]
           r == e[1]
           M == MessagesOf(rs)
           p == acc.shown \o acc.current
           pushed == IF acc.current = <<>> THEN acc.shown ELSE acc.shown \o acc.current
           n == Len(acc.shown)
           add(m) == [m EXCEPT !.got = Append(@, e)]
           new == Rebuild(acc, e)
<1>1. acc.shown \in Seq(M) /\ acc.current \in Seq(M) /\ acc \in Built(rs) /\ Len(acc.current) <= 1
  BY DEF SoFar, Built
<1>2. /\ e \in Feed /\ r \in rs /\ r \in Runs /\ DOMAIN feed = 1 .. Len(feed) /\ Len(feed) \in Nat
      /\ i + 1 \in 1 .. (i + 1)
  <2>1. e \in Feed /\ DOMAIN feed = 1 .. Len(feed) /\ Len(feed) \in Nat
    OBVIOUS
  <2> QED
    BY <2>1 DEF Feed
<1>3. new \in Built(rs)
  BY <1>1, <1>2, RebuildTyped
<1>4. \A a \in 1 .. i : a \in DOMAIN feed /\ a < i + 1
  BY <1>2
<1>5. SoFar(acc, rs, i + 1)
  BY Later
<1>6. \A m \in M : add(m).id = m.id /\ add(m).role = m.role /\ add(m).run = m.run
  BY DEF MessagesOf, Message
<1>7. CASE e[2] = 1
  <2>1. new = [shown |-> Append(pushed, UserMessage(r)), current |-> <<>>]
    BY <1>7 DEF Rebuild
  <2>2. pushed = p /\ p \in Seq(M) /\ (~Overlap => Apart(p))
        /\ \A x \in DOMAIN p : ShownAt(p[x], rs, i) \/ GrowingAt(p[x], rs, i)
    BY Flushed
  <2> DEFINE u == UserMessage(r)
             t == Append(p, u)
  <2>3. u \in M /\ u.id = <<"user", r>> /\ u.role = "user" /\ u.run = r
    BY <1>2, NewMessages DEF UserMessage
  <2>4. e = <<r, 1>>
    BY <1>2, <1>7 DEF Feed
  <2>5. \A a \in 1 .. i : feed[a][1] # r
    <3> SUFFICES ASSUME NEW a \in 1 .. i, feed[a][1] = r PROVE FALSE
      OBVIOUS
    <3>1. feed[a][2] < 1
      BY <1>2, <1>4, <1>7 DEF Ordered
    <3>2. feed[a] \in Feed
      BY <1>4
    <3>3. feed[a][2] \in 1 .. Events
      BY <3>2 DEF Feed
    <3> QED
      BY <3>1, <3>3, Names
  <2> HIDE DEF new, pushed, p, u, M, e, r
  <2>6. new.shown = t /\ new.current = <<>>
    BY <2>1, <2>2 DEF u
  <2>7. p \in Seq(Message) /\ u \in Message
    <3>1. M \subseteq Message
      BY DEF M, MessagesOf
    <3> QED
      BY <2>2, <2>3, <3>1
  <2>8. ASSUME NEW x \in DOMAIN t PROVE ShownAt(t[x], rs, i + 1)
    <3>1. CASE t[x] = u
      BY <1>2, <2>3, <2>4, <3>1 DEF ShownAt, e
    <3>2. CASE x \in DOMAIN p /\ t[x] = p[x]
      <4>1. CASE ShownAt(p[x], rs, i)
        BY <3>2, <4>1, Later
      <4>2. CASE GrowingAt(p[x], rs, i)
        <5>1. PICK q \in rs, a \in 1 .. i : p[x].id = <<"run", q>> /\ feed[a][1] = q
          BY <4>2 DEF GrowingAt
        <5>2. /\ a \in 1 .. (i + 1) /\ a < i + 1 /\ feed[i + 1][1] = r /\ r # q
          BY <1>2, <1>4, <2>5, <5>1 DEF e, r
        <5> QED
          BY <1>2, <3>2, <5>1, <5>2 DEF ShownAt
      <4> QED
        BY <2>2, <3>2, <4>1, <4>2
    <3>3. t[x] = u \/ (x \in DOMAIN p /\ t[x] = p[x])
      BY <2>7
    <3> QED
      BY <3>1, <3>2, <3>3
  <2>9. ASSUME ~Overlap PROVE Apart(t)
    <3>1. ASSUME NEW x \in DOMAIN p PROVE Key(p[x].id) # Key(u.id)
      <4>1. CASE ShownAt(p[x], rs, i)
        <5>1. PICK q \in rs :
                \/ p[x].id = <<"user", q>> /\ \E a \in 1 .. i : feed[a] = <<q, 1>>
                \/ p[x].id = <<"run", q>>
          BY <4>1 DEF ShownAt
        <5>2. p[x].id = <<"user", q>> => q # r
          BY <2>5, <5>1, Keys
        <5> QED
          BY <2>3, <5>1, <5>2, Keys
      <4>2. CASE GrowingAt(p[x], rs, i)
        BY <2>3, <4>2, Keys DEF GrowingAt
      <4> QED
        BY <2>2, <4>1, <4>2
    <3> QED
      BY <2>2, <2>7, <2>9, <3>1, OneMore
  <2> HIDE DEF t
  <2>10. SoFar(new, rs, i + 1)
    BY <1>3, <2>6, <2>8, <2>9 DEF SoFar
  <2> QED
    BY <2>10 DEF new, e
<1>8. CASE e[2] # 1 /\ e[2] = Events
  <2>1. new = acc
    BY <1>8 DEF Rebuild
  <2> QED
    BY <1>5, <2>1
<1>9. CASE e[2] # 1 /\ e[2] # Events /\ acc.current = <<>> /\ n > 0
           /\ acc.shown[n].role = "assistant" /\ acc.shown[n].run = r
  <2> DEFINE grown == [acc.shown EXCEPT ![n] = add(acc.shown[n])]
  <2>1. new = [acc EXCEPT !.shown = grown]
    BY <1>9 DEF Rebuild
  <2>2. n \in DOMAIN acc.shown /\ acc.shown[n] \in M
    <3> HIDE DEF M
    <3> QED
      BY <1>1, <1>9
  <2>3. /\ DOMAIN grown = DOMAIN acc.shown
        /\ \A x \in DOMAIN acc.shown : /\ grown[x].id = acc.shown[x].id
                                       /\ grown[x].role = acc.shown[x].role
                                       /\ grown[x].run = acc.shown[x].run
    BY <1>6, <2>2
  <2> HIDE DEF grown, new, add, M
  <2>4. new.shown = grown /\ new.current = acc.current
    BY <1>1, <2>1 DEF Built
  <2>5. \A x \in DOMAIN grown : ShownAt(grown[x], rs, i + 1)
    <3> SUFFICES ASSUME NEW x \in DOMAIN acc.shown PROVE ShownAt(grown[x], rs, i + 1)
      BY <2>3
    <3>1. ShownAt(acc.shown[x], rs, i + 1)
      BY <1>5 DEF SoFar
    <3> DEFINE g == grown[x]
               o == acc.shown[x]
    <3>2. g.id = o.id /\ g.role = o.role /\ g.run = o.run
      BY <2>3
    <3> HIDE DEF g, o
    <3>3. ShownAt(g, rs, i + 1)
      BY <3>1, <3>2 DEF ShownAt, o
    <3> QED
      BY <3>3 DEF g
  <2>6. Apart(acc.shown) => Apart(grown)
    BY <2>3, SameNames
  <2>7. SoFar(new, rs, i + 1)
    BY <1>3, <1>5, <2>3, <2>4, <2>5, <2>6 DEF SoFar
  <2> QED
    BY <2>7 DEF new
<1>10. CASE e[2] # 1 /\ e[2] # Events /\ acc.current = <<>>
            /\ ~(n > 0 /\ acc.shown[n].role = "assistant" /\ acc.shown[n].run = r)
  <2> DEFINE a == Assistant(<<"run", r>>, r, FALSE)
             m == add(a)
  <2>1. new = [acc EXCEPT !.current = <<m>>]
    BY <1>10 DEF Rebuild
  <2>2. m.id = <<"run", r>>
    BY DEF Assistant
  <2> HIDE DEF m, new, M
  <2>3. new.shown = acc.shown /\ new.current = <<m>>
    BY <1>1, <2>1 DEF Built
  <2>4. \A y \in DOMAIN new.current : new.current[y] = m /\ y = 1
    BY <2>3
  <2>5. Len(new.current) <= 1
    BY <2>3
  <2>6. GrowingAt(m, rs, i + 1)
    BY <1>2, <2>2 DEF GrowingAt
  <2>7. ASSUME ~Overlap, NEW x \in DOMAIN acc.shown PROVE acc.shown[x].id # m.id
    <3> SUFFICES ASSUME acc.shown[x].id = m.id PROVE Overlap
      BY <2>7
    <3>1. ShownAt(acc.shown[x], rs, i)
      BY DEF SoFar
    <3>2. PICK b, c \in 1 .. i : b < c /\ feed[b][1] = r /\ feed[c][1] \in rs \ {r}
      BY <2>2, <3>1, Keys DEF ShownAt
    <3>3. /\ b \in DOMAIN feed /\ c \in DOMAIN feed /\ c < i + 1
          /\ feed[b][1] = feed[i + 1][1] /\ feed[b][1] # feed[c][1]
      BY <1>4, <3>2
    <3>4. home[feed[b][1]] = s /\ home[feed[c][1]] = s
      BY <1>2, <3>2 DEF RunsOf
    <3> QED
      BY <3>2, <3>3, <3>4 DEF Overlap
  <2> HIDE DEF e, r
  <2>8. SoFar(new, rs, i + 1)
    BY <1>3, <1>5, <2>3, <2>4, <2>5, <2>6, <2>7 DEF SoFar
  <2> QED
    BY <2>8 DEF new, e
<1>11. CASE e[2] # 1 /\ e[2] # Events /\ acc.current # <<>>
  <2> DEFINE m == acc.current[1]
             g == add(m)
  <2>1. new = [acc EXCEPT !.current = <<g>>]
    BY <1>11 DEF Rebuild
  <2>2. 1 \in DOMAIN acc.current /\ m \in M
    <3> HIDE DEF M
    <3>1. Len(acc.current) \in Nat /\ Len(acc.current) # 0
      BY <1>1, <1>11
    <3> QED
      BY <1>1, <3>1
  <2>3. g.id = m.id
    BY <1>6, <2>2
  <2> HIDE DEF g, m, new, M, add
  <2>4. new.shown = acc.shown /\ new.current = <<g>>
    BY <1>1, <2>1 DEF Built
  <2>5. (\A y \in DOMAIN new.current : new.current[y] = g) /\ Len(new.current) <= 1
    BY <2>4
  <2>6. GrowingAt(g, rs, i + 1)
    BY <1>5, <2>2, <2>3 DEF SoFar, GrowingAt, m
  <2>7. ~Overlap => \A x \in DOMAIN acc.shown : acc.shown[x].id # g.id
    BY <2>2, <2>3 DEF SoFar, m
  <2>8. SoFar(new, rs, i + 1)
    BY <1>3, <1>5, <2>4, <2>5, <2>6, <2>7 DEF SoFar
  <2> QED
    BY <2>8 DEF new
<1> QED
  BY <1>7, <1>8, <1>9, <1>10, <1>11

\* The whole history: no message twice unless runs overlapped, and none but
\* those of its runs.
LEMMA HistoryTidy ==
  ASSUME feed \in Seq(Feed), Ordered, NEW s, NEW rs, rs \subseteq RunsOf(s)
  PROVE  /\ Tidy(History(rs), rs) /\ (~Overlap => Apart(History(rs)))
         /\ \A x \in DOMAIN History(rs) : \A n : Key(History(rs)[x].id) # Key(<<"load", n>>)
<1> DEFINE f == Loop(rs)
           N == Len(feed)
           T == {m \in Nat : m <= N => SoFar(f[m], rs, m)}
<1>1. f = [i \in 0 .. N |-> StepOf(rs, f, i)] /\ N \in Nat
  BY LoopIs
<1>2. 0 \in T
  <2> DEFINE none == [shown |-> <<>>, current |-> <<>>]
  <2>1. f[0] = none
    <3>1. 0 \in 0 .. N
      BY <1>1
    <3> HIDE DEF f, N
    <3>2. f[0] = StepOf(rs, f, 0)
      BY <1>1, <3>1
    <3> QED
      BY <3>2 DEF StepOf
  <2>2. none \in Built(rs)
    <3>1. <<>> \in Seq(MessagesOf(rs))
      OBVIOUS
    <3> QED
      BY <3>1 DEF Built
  <2>3. none.shown = <<>> /\ none.current = <<>>
    OBVIOUS
  <2> HIDE DEF none
  <2>4. SoFar(none, rs, 0)
    BY <2>2, <2>3 DEF SoFar, Apart
  <2> HIDE DEF f
  <2> QED
    BY <2>1, <2>4
<1>3. ASSUME NEW m \in Nat, m \in T PROVE m + 1 \in T
  <2> SUFFICES ASSUME m + 1 <= N PROVE SoFar(f[m + 1], rs, m + 1)
    OBVIOUS
  <2>1. SoFar(f[m], rs, m)
    BY <1>1, <1>3
  <2>2. m + 1 \in 0 .. N /\ m + 1 \in DOMAIN feed /\ m + 1 # 0 /\ (m + 1) - 1 = m
    BY <1>1
  <2> HIDE DEF f, N, T
  <2>3. f[m + 1] = StepOf(rs, f, m + 1)
    BY <1>1, <2>2
  <2>4. CASE m + 1 \in Stored(rs)
    <3>1. f[m + 1] = Rebuild(f[m], feed[m + 1])
      BY <2>2, <2>3, <2>4 DEF StepOf
    <3>2. feed[m + 1][1] \in rs
      BY <2>4 DEF Stored
    <3>3. SoFar(Rebuild(f[m], feed[m + 1]), rs, m + 1)
      BY <2>1, <2>2, <3>2, RebuildNames
    <3> QED
      BY <3>1, <3>3
  <2>5. CASE m + 1 \notin Stored(rs)
    <3>1. f[m + 1] = f[m]
      BY <2>2, <2>3, <2>5 DEF StepOf
    <3> QED
      BY <2>1, <3>1, Later
  <2> QED
    BY <2>4, <2>5
<1> HIDE DEF T
<1>4. Nat \subseteq T
  BY <1>2, <1>3, NatSetInduction
<1>5. SoFar(f[N], rs, N)
  BY <1>1, <1>4 DEF T
<1>6. History(rs) = f[N].shown \o f[N].current
  BY DEF History
<1> HIDE DEF f, N
<1>7. /\ ~Overlap => Apart(History(rs))
      /\ \A x \in DOMAIN History(rs) : ShownAt(History(rs)[x], rs, N) \/ GrowingAt(History(rs)[x], rs, N)
  BY <1>5, <1>6, Flushed
<1>8. ASSUME NEW x \in DOMAIN History(rs)
      PROVE  /\ Proper(History(rs)[x], rs)
             /\ \A n : Key(History(rs)[x].id) # Key(<<"load", n>>)
  <2> DEFINE m == History(rs)[x]
  <2>1. PICK r \in rs : \/ m.id = <<"user", r>> /\ m.role = "user" /\ m.run = r
                        \/ m.id = <<"run", r>>
    BY <1>7 DEF ShownAt, GrowingAt
  <2> HIDE DEF m
  <2>2. Proper(m, rs)
    BY <2>1, Keys DEF Proper
  <2>3. \A n : Key(m.id) # Key(<<"load", n>>)
    BY <2>1, Keys
  <2> QED
    BY <2>2, <2>3 DEF m
<1> QED
  BY <1>7, <1>8 DEF Tidy

\* The answer to go on with.
LEMMA PreparedTidy ==
  ASSUME NEW ms \in Seq(Message), NEW r \in 0 .. MaxSends, NEW n \in Loads, NEW K, Tidy(ms, K),
         \A x \in DOMAIN ms : Key(ms[x].id) # Key(<<"load", n>>)
  PROVE  Tidy(Prepared(ms, r, n).ms, K) /\ (Apart(ms) => Apart(Prepared(ms, r, n).ms))
<1> DEFINE mine == {i \in DOMAIN ms : ms[i].role = "assistant" /\ ms[i].run = r}
           lastOne == CHOOSE i \in mine : \A j \in mine : j <= i
           id == ms[lastOne].id
           t == [i \in DOMAIN ms |-> IF ms[i].id = id THEN [ms[i] EXCEPT !.streaming = TRUE] ELSE ms[i]]
<1>1. CASE mine = {}
  <2> DEFINE a == Assistant(<<"load", n>>, r, TRUE)
  <2>1. Prepared(ms, r, n).ms = Append(ms, a)
    BY <1>1 DEF Prepared
  <2>2. a \in Message /\ a.id = <<"load", n>>
    <3>1. a \in Message
      BY NewMessages, AnyMessage, Names
    <3> QED
      BY <3>1 DEF Assistant
  <2> HIDE DEF a
  <2>3. Proper(a, K)
    BY <2>2, Keys DEF Proper
  <2> QED
    BY <2>1, <2>2, <2>3, OneMore
<1>2. CASE mine # {}
  <2>1. Prepared(ms, r, n).ms = t
    BY <1>2 DEF Prepared
  <2> HIDE DEF id
  <2>2. \A m \in Message : LET f == [m EXCEPT !.streaming = TRUE]
                           IN f.id = m.id /\ f.role = m.role /\ f.run = m.run
    BY DEF Message
  <2>3. \A i \in DOMAIN ms : ms[i] \in Message
    OBVIOUS
  <2>4. DOMAIN t = DOMAIN ms
        /\ \A i \in DOMAIN ms : t[i].id = ms[i].id /\ t[i].role = ms[i].role /\ t[i].run = ms[i].run
    BY <2>2, <2>3
  <2> HIDE DEF t
  <2>5. (\A L : Tidy(ms, L) => Tidy(t, L)) /\ (Apart(ms) => Apart(t))
    BY <2>4, SameNames
  <2> QED
    BY <2>1, <2>5
<1> QED
  BY <1>1, <1>2

-----------------------------------------------------------------------------
\* A step only adds to the feed and to the runs sent.
LEMMA FeedKept ==
  ASSUME Types, [Next]_vars
  PROVE  \/ feed' = feed
         \/ \E r \in Runs : Emit(r)
<1>1. ASSUME NEW r \in Runs, Finish(r) PROVE feed' = feed
  BY <1>1 DEF Finish
<1>2. ASSUME NEW c \in Conns, ConnSteps(c) \/ Reject(c) \/ Break(c) PROVE feed' = feed
  BY <1>2 DEF ConnSteps, Open, Refreshed, Close, Deliver, Reject, Break, server
<1>3. ASSUME NEW k \in Runs, SendSteps(k) \/ Send(k) PROVE feed' = feed
  BY <1>3 DEF SendSteps, Send, Accept, Submitted, SubmitFails, server
<1>4. ASSUME NEW n \in Loads, LoadSteps(n) \/ \E s \in Runs : Load(n, s) PROVE feed' = feed
  BY <1>4 DEF LoadSteps, LoadGet, LoadRead, LoadShow, LoadFails, Load, server
<1>5. ASSUME NEW k, Checked(k) \/ Fire(k) PROVE feed' = feed
  BY <1>5 DEF Checked, Fire, server
<1>6. ASSUME Clear \/ Stop \/ Offline \/ Wake PROVE feed' = feed
  BY <1>6 DEF Clear, Stop, Offline, Wake, server
<1>7. ASSUME UNCHANGED vars PROVE feed' = feed
  BY <1>7 DEF vars, server
<1> QED
  BY <1>1, <1>2, <1>3, <1>4, <1>5, <1>6, <1>7 DEF Next, User

\* Runs begin when they get their session.
LEMMA BegunStep ==
  ASSUME Types, Homed, Begun, [Next]_vars
  PROVE  Begun'
<1>1. \A k \in Runs : home[k] # 0 => home'[k] = home[k]
  BY HomedStep
<1>2. ASSUME phase' = phase PROVE Begun'
  BY <1>1, <1>2 DEF Begun
<1>3. ASSUME NEW r \in Runs, Emit(r) \/ Finish(r) PROVE Begun'
  <2>1. CASE Emit(r)
    BY <1>2, <2>1 DEF Emit
  <2>2. CASE Finish(r)
    <3>1. home' = home /\ phase[r] # "none" /\ \A q \in Runs \ {r} : phase'[q] = phase[q]
      BY <2>2 DEF Finish, Types
    <3> QED
      BY <3>1 DEF Begun
  <2> QED
    BY <1>3, <2>1, <2>2
<1>4. ASSUME NEW k \in Runs, Accept(k) PROVE Begun'
  <2>1. home'[k] = (IF send[k].from = 0 THEN k ELSE send[k].from) /\ k # 0
    BY <1>4, Names DEF Accept, Types
  <2>2. \A q \in Runs \ {k} : phase'[q] = phase[q]
    BY <1>4 DEF Accept, Types
  <2>3. home'[k] # 0
    BY <2>1
  <2> QED
    BY <1>1, <2>2, <2>3 DEF Begun
<1>5. ASSUME NEW c \in Conns, ConnSteps(c) \/ Reject(c) \/ Break(c) PROVE phase' = phase
  BY <1>5 DEF ConnSteps, Open, Refreshed, Close, Deliver, Reject, Break, server
<1>6. ASSUME NEW k \in Runs, Submitted(k) \/ SubmitFails(k) \/ Send(k) PROVE phase' = phase
  BY <1>6 DEF Send, Submitted, SubmitFails, server
<1>7. ASSUME NEW n \in Loads, LoadSteps(n) \/ \E s \in Runs : Load(n, s) PROVE phase' = phase
  BY <1>7 DEF LoadSteps, LoadGet, LoadRead, LoadShow, LoadFails, Load, server
<1>8. ASSUME NEW k, Checked(k) \/ Fire(k) PROVE phase' = phase
  BY <1>8 DEF Checked, Fire, server
<1>9. ASSUME Clear \/ Stop \/ Offline \/ Wake PROVE phase' = phase
  BY <1>9 DEF Clear, Stop, Offline, Wake, server
<1>10. ASSUME UNCHANGED vars PROVE phase' = phase
  BY <1>10 DEF vars, server
<1> QED
  BY <1>2, <1>3, <1>4, <1>5, <1>6, <1>7, <1>8, <1>9, <1>10 DEF Next, User, SendSteps

\* Events follow those of their run; runs that overlapped have overlapped.
LEMMA FeedStep ==
  ASSUME Types, Homed, Begun, Told, Ordered, [Next]_vars
  PROVE  Told' /\ Ordered' /\ (Overlap => Overlap')
<1>1. \A k \in Runs : home[k] # 0 => home'[k] = home[k]
  BY HomedStep
<1>2. \A i \in DOMAIN feed : feed[i] \in Feed /\ feed[i][1] \in Runs /\ feed[i][2] \in Nat
  <2>1. \A e \in Feed : e[1] \in Runs /\ e[2] \in Nat
    BY DEF Feed
  <2> QED
    BY <2>1 DEF Types
<1>3. ASSUME DOMAIN feed \subseteq DOMAIN feed', \A i \in DOMAIN feed : feed'[i] = feed[i]
      PROVE  Overlap => Overlap'
  <2> SUFFICES ASSUME Overlap PROVE Overlap'
    OBVIOUS
  <2>1. PICK i, j, k \in DOMAIN feed :
          /\ i < j /\ j < k
          /\ feed[i][1] = feed[k][1] /\ feed[i][1] # feed[j][1]
          /\ home[feed[i][1]] = home[feed[j][1]]
    BY DEF Overlap
  <2>2. home'[feed[i][1]] = home[feed[i][1]] /\ home'[feed[j][1]] = home[feed[j][1]]
    BY <1>1, <1>2 DEF Told
  <2>3. /\ i \in DOMAIN feed' /\ j \in DOMAIN feed' /\ k \in DOMAIN feed'
        /\ feed'[i] = feed[i] /\ feed'[j] = feed[j] /\ feed'[k] = feed[k]
    BY <1>3
  <2> QED
    BY <2>1, <2>2, <2>3 DEF Overlap
<1>4. CASE feed' = feed
  <2>1. \A r : Count(r)' = Count(r)
    BY <1>4 DEF Count
  <2> QED
    BY <1>1, <1>2, <1>3, <1>4, <2>1 DEF Told, Ordered
<1>5. ASSUME NEW r \in Runs, Emit(r) PROVE Told' /\ Ordered' /\ (Overlap => Overlap')
  <2> DEFINE N == Len(feed)
  <2>1. /\ N \in Nat /\ DOMAIN feed = 1 .. N /\ DOMAIN feed' = 1 .. (N + 1)
        /\ \A i \in DOMAIN feed : feed'[i] = feed[i]
        /\ feed'[N + 1] = <<r, Count(r) + 1>> /\ Count(r) \in Nat
        /\ \A q \in Runs : Count(q)' = IF q = r THEN Count(q) + 1 ELSE Count(q)
    BY <1>5, Emitted DEF Types
  <2>2. home' = home /\ home[r] # 0
    BY <1>5 DEF Emit, Begun
  <2> HIDE DEF N
  <2>3. \A i \in DOMAIN feed' : i \in DOMAIN feed \/ i = N + 1
    BY <2>1
  <2>4. ASSUME NEW i \in DOMAIN feed' PROVE (home[feed[i][1]] # 0 /\ feed[i][2] <= Count(feed[i][1]))'
    <3>1. CASE i = N + 1
      BY <2>1, <2>2, <3>1
    <3>2. CASE i \in DOMAIN feed
      <4>1. /\ feed'[i] = feed[i] /\ feed[i][1] \in Runs /\ feed[i][2] \in Nat
            /\ home[feed[i][1]] # 0 /\ feed[i][2] <= Count(feed[i][1])
        BY <1>2, <2>1, <3>2 DEF Told
      <4>2. Count(feed[i][1]) \in Nat
        BY CountTyped DEF Types
      <4>3. feed[i][2] <= Count(feed[i][1])'
        BY <2>1, <4>1, <4>2
      <4> QED
        BY <2>2, <4>1, <4>3
    <3> QED
      BY <2>3, <3>1, <3>2
  <2>5. ASSUME NEW i \in DOMAIN feed', NEW j \in DOMAIN feed', i < j, feed'[i][1] = feed'[j][1]
        PROVE  feed'[i][2] < feed'[j][2]
    <3>1. i \in DOMAIN feed
      BY <2>1, <2>5
    <3>2. CASE j \in DOMAIN feed
      BY <2>1, <2>5, <3>1, <3>2 DEF Ordered
    <3>3. CASE j = N + 1
      <4>1. feed[i][1] = r /\ feed'[i] = feed[i] /\ feed[i][2] \in Nat /\ feed'[j][2] = Count(r) + 1
        BY <1>2, <2>1, <2>5, <3>1, <3>3
      <4>2. feed[i][2] <= Count(r)
        BY <3>1, <4>1 DEF Told
      <4> QED
        BY <2>1, <4>1, <4>2
    <3> QED
      BY <2>3, <3>2, <3>3
  <2>6. DOMAIN feed \subseteq DOMAIN feed' /\ \A i \in DOMAIN feed : feed'[i] = feed[i]
    BY <2>1
  <2> QED
    BY <1>3, <2>4, <2>5, <2>6 DEF Told, Ordered
<1> QED
  BY <1>4, <1>5, FeedKept

\* What was sent was sent.
LEMMA SentStep ==
  ASSUME Types, [Next]_vars
  PROVE  SentRuns \subseteq SentRuns'
<1>1. ASSUME send' = send PROVE SentRuns \subseteq SentRuns'
  BY <1>1 DEF SentRuns
<1>2. ASSUME NEW k \in Runs, SendSteps(k) \/ Send(k) PROVE SentRuns \subseteq SentRuns'
  <2>1. \A j \in Runs \ {k} : send'[j] = send[j]
    BY <1>2 DEF SendSteps, Send, Accept, Submitted, SubmitFails, Types
  <2>2. send'[k].st \in {"submit", "accepted", "over"}
    <3>1. send[k] \in Sent
      BY DEF Types
    <3>2. \/ \E s \in {"accepted", "over"} : send' = [send EXCEPT ![k].st = s]
          \/ send' = [send EXCEPT ![k] = [st |-> "submit", from |-> ui.session]]
      BY <1>2 DEF SendSteps, Send, Accept, Submitted, SubmitFails
    <3> QED
      BY <3>1, <3>2 DEF Types, Sent
  <2> QED
    BY <2>1, <2>2 DEF SentRuns
<1>3. ASSUME NEW c \in Conns, ConnSteps(c) \/ Reject(c) \/ Break(c) PROVE send' = send
  BY <1>3 DEF ConnSteps, Open, Refreshed, Close, Deliver, Reject, Break
<1>4. ASSUME NEW n \in Loads, LoadSteps(n) \/ \E s \in Runs : Load(n, s) PROVE send' = send
  BY <1>4 DEF LoadSteps, LoadGet, LoadRead, LoadShow, LoadFails, Load
<1>5. ASSUME NEW k, Checked(k) \/ Fire(k) PROVE send' = send
  BY <1>5 DEF Checked, Fire
<1>6. ASSUME Clear \/ Stop \/ Offline \/ Wake PROVE send' = send
  BY <1>6 DEF Clear, Stop, Offline, Wake
<1>7. ASSUME NEW r \in Runs, Emit(r) \/ Finish(r) PROVE send' = send
  BY <1>7 DEF Emit, Finish
<1>8. ASSUME UNCHANGED vars PROVE send' = send
  BY <1>8 DEF vars
<1> QED
  BY <1>1, <1>2, <1>3, <1>4, <1>5, <1>6, <1>7, <1>8 DEF Next, User

\* More runs sent.
LEMMA MoreSent ==
  ASSUME NEW ms, NEW K, NEW L, K \subseteq L, Tidy(ms, K)
  PROVE  Tidy(ms, L)
  BY DEF Tidy, Proper

-----------------------------------------------------------------------------
\* What a step does to the names of the messages.
Named ==
  Tidy(messages', SentRuns') /\ (~Overlap /\ Apart(messages) => Apart(messages'))

\* Messages that keep their names.
LEMMA KeptNamed ==
  ASSUME Tidy(messages, SentRuns), SentRuns \subseteq SentRuns',
         \A K : Tidy(messages, K) => Tidy(messages', K), Apart(messages) => Apart(messages')
  PROVE  Named
<1>1. Tidy(messages', SentRuns)
  OBVIOUS
<1> QED
  BY <1>1, MoreSent DEF Named

\* An event arrives.
LEMMA DeliverNamed ==
  ASSUME Types, Fed, Homed, UInv, SentRuns \subseteq SentRuns', NEW c \in Conns, Deliver(c)
  PROVE  Named
<1> DEFINE e == <<conn[c].run, conn[c].pos + 1>>
<1>1. conn[c] \in Opened
  BY DEF Types
<1>2. conn[c].pos \in Nat /\ conn[c].pos < Count(conn[c].run)
  BY <1>1 DEF Opened, Deliver
<1>3. e \in Feed /\ conn[c].run \in Runs
  BY <1>2, EventInFeed DEF Types
<1>4. conn[c].run \in SentRuns
  <2>1. Count(conn[c].run) \in Nat
    BY CountTyped DEF Types
  <2>2. conn[c].pos + 1 \in 1 .. Count(conn[c].run)
    BY <1>2, <2>1
  <2>3. PICK i \in DOMAIN feed : feed[i] = e
    BY <1>3, <2>2 DEF Fed, FedOf
  <2>4. home[conn[c].run] # 0
    BY <2>3 DEF UInv, Told
  <2> QED
    BY <1>3, <2>4 DEF Homed, HomedAt, SentRuns
<1>5. CASE messages' = messages
  BY <1>5, KeptNamed DEF UInv
<1>6. CASE messages' = Apply(messages, conn[c].msg, e)
  <2>1. e[1] \in SentRuns /\ messages \in Seq(Message)
    BY <1>4 DEF Types
  <2> HIDE DEF e
  <2>2. Tidy(messages', SentRuns) /\ (Apart(messages) => Apart(messages'))
    BY <1>3, <1>6, <2>1, ApplyTidy DEF UInv
  <2> QED
    BY <2>2, MoreSent DEF Named
<1> QED
  BY <1>5, <1>6 DEF Deliver

\* A message is sent: nothing about it has been shown.
LEMMA SendNamed ==
  ASSUME Types, UInv, SentRuns \subseteq SentRuns', NEW k \in Runs, Send(k)
  PROVE  Named
<1> DEFINE a == UserMessage(k)
           b == Assistant(<<"tmp", k>>, 0, TRUE)
           ms == Append(messages, a)
<1>1. CASE ui.sending
  <2>1. messages' = messages
    BY <1>1 DEF Send
  <2> QED
    BY <2>1, KeptNamed DEF UInv
<1>2. CASE ~ui.sending
  <2>1. messages' = messages \o <<a, b>> /\ send[k].st = "none"
        /\ send' = [send EXCEPT ![k] = [st |-> "submit", from |-> ui.session]]
    BY <1>2 DEF Send, Fresh
  <2>2. k \in SentRuns' /\ k \notin SentRuns
    BY <2>1 DEF SentRuns, Types
  <2>3. /\ a \in Message /\ a.id = <<"user", k>> /\ a.role = "user" /\ a.run = k
        /\ b \in Message /\ b.id = <<"tmp", k>>
    <3>1. a \in Message /\ b \in Message
      BY NewMessages, AnyMessage, Names
    <3> QED
      BY <3>1 DEF UserMessage, Assistant
  <2>4. messages \in Seq(Message)
    BY DEF Types
  <2> HIDE DEF a, b
  <2>5. messages' = Append(ms, b) /\ DOMAIN ms = 1 .. (Len(messages) + 1) /\ Len(messages) \in Nat
        /\ \A i \in DOMAIN ms : ms[i] = a \/ (i \in DOMAIN messages /\ ms[i] = messages[i])
    BY <2>1, <2>3, <2>4
  <2> HIDE DEF ms
  <2>6. Proper(a, SentRuns') /\ Proper(b, SentRuns')
    BY <2>2, <2>3, Keys DEF Proper
  <2>7. Tidy(messages, SentRuns')
    BY MoreSent DEF UInv
  <2>8. ms \in Seq(Message) /\ Tidy(ms, SentRuns')
    BY <2>3, <2>4, <2>6, <2>7, OneMore DEF ms
  <2>9. Tidy(messages', SentRuns')
    BY <2>3, <2>5, <2>6, <2>8, OneMore
  <2>10. ASSUME NEW i \in DOMAIN messages
         PROVE  Key(messages[i].id) # Key(a.id) /\ Key(messages[i].id) # Key(b.id)
    <3>1. messages[i] \in Message /\ Proper(messages[i], SentRuns)
      BY <2>4 DEF UInv, Tidy
    <3>2. messages[i].id \in Ids
      BY <3>1 DEF Message
    <3>3. messages[i].id \notin {<<"user", k>>, <<"tmp", k>>, <<"run", k>>}
      BY <2>2, <3>1 DEF Proper
    <3> QED
      BY <2>3, <3>2, <3>3, Keys, KeyOf
  <2>11. ASSUME Apart(messages) PROVE Apart(messages')
    <3>1. Apart(ms)
      BY <2>3, <2>4, <2>10, <2>11, OneMore DEF ms
    <3>2. Key(a.id) # Key(b.id)
      BY <2>3, Keys
    <3>3. \A i \in DOMAIN ms : Key(ms[i].id) # Key(b.id)
      BY <2>5, <2>10, <3>2
    <3> QED
      BY <2>3, <2>5, <2>8, <3>1, <3>3, OneMore
  <2> QED
    BY <2>9, <2>11 DEF Named
<1> QED
  BY <1>1, <1>2

\* The answer gets its run's name.
LEMMA SubmittedNamed ==
  ASSUME Types, UInv, SentRuns \subseteq SentRuns', NEW k \in Runs, Submitted(k)
  PROVE  Named
<1> DEFINE t == messages'
<1>1. k \in SentRuns'
  <2>1. k \in SentRuns
    BY DEF Submitted, SentRuns
  <2> QED
    BY <2>1
<1>2. DOMAIN t = DOMAIN messages
      /\ \A i \in DOMAIN messages :
           IF messages[i].id = <<"tmp", k>>
           THEN t[i].id = <<"run", k>> ELSE t[i] = messages[i]
  <2>1. \A m \in Message : [m EXCEPT !.id = <<"run", k>>, !.run = k].id = <<"run", k>>
    BY DEF Message
  <2>2. \A i \in DOMAIN messages : messages[i] \in Message
    BY DEF Types
  <2> QED
    BY <2>1, <2>2 DEF Submitted
<1> HIDE DEF t
<1>3. ASSUME NEW i \in DOMAIN messages PROVE Key(t[i].id) = Key(messages[i].id)
  <2>1. CASE messages[i].id = <<"tmp", k>>
    <3>1. t[i].id = <<"run", k>>
      BY <1>2, <2>1
    <3>2. Key(<<"tmp", k>>) = <<"run", k>> /\ Key(<<"run", k>>) = <<"run", k>>
      BY Keys
    <3> QED
      BY <2>1, <3>1, <3>2
  <2>2. CASE messages[i].id # <<"tmp", k>>
    BY <1>2, <2>2
  <2> QED
    BY <2>1, <2>2
<1>4. Apart(messages) => Apart(t)
  BY <1>2, <1>3 DEF Apart
<1>5. ASSUME NEW i \in DOMAIN t PROVE Proper(t[i], SentRuns')
  <2>1. Proper(messages[i], SentRuns')
    BY <1>2, MoreSent DEF UInv, Tidy
  <2>2. CASE messages[i].id = <<"tmp", k>>
    <3>1. t[i].id = <<"run", k>>
      BY <1>2, <2>2
    <3> QED
      BY <1>1, <3>1, Keys DEF Proper
  <2>3. CASE messages[i].id # <<"tmp", k>>
    BY <1>2, <2>1, <2>3
  <2> QED
    BY <2>2, <2>3
<1>6. Tidy(t, SentRuns')
  BY <1>5 DEF Tidy
<1> QED
  BY <1>4, <1>6 DEF Named, t

\* The history is shown.
LEMMA LoadShowNamed ==
  ASSUME Types, Homed, Targeted, UInv, SentRuns \subseteq SentRuns', NEW n \in Loads, LoadShow(n)
  PROVE  Named
<1> DEFINE rs == load[n].events
           old == History(rs)
           r == load[n].run
<1>1. load[n] \in Loaded /\ load[n].st = "fetch"
  BY DEF LoadShow, Types
<1>2. rs \subseteq RunsOf(load[n].target) /\ load[n].target \in Runs /\ r \in 0 .. MaxSends
  BY <1>1 DEF Targeted, TargetedAt, Loaded
<1>3. rs \subseteq SentRuns /\ rs \subseteq 0 .. MaxSends
  BY <1>2, Names DEF RunsOf, Homed, HomedAt, SentRuns
<1>4. old \in Seq(Message)
  <2>1. old \in Seq(MessagesOf(rs))
    BY HistoryTyped DEF Types
  <2> HIDE DEF old, rs
  <2> QED
    BY <1>3, <2>1, MoreMessages, AnyMessage
<1>5. /\ Tidy(old, rs) /\ (~Overlap => Apart(old))
      /\ \A x \in DOMAIN old : \A i : Key(old[x].id) # Key(<<"load", i>>)
  BY <1>2, HistoryTidy DEF Types, UInv
<1>6. messages' \in {messages, old, Prepared(old, r, n).ms}
  BY DEF LoadShow
<1> HIDE DEF old, rs, r
<1>7. Tidy(old, SentRuns')
  BY <1>3, <1>5, MoreSent
<1>8. CASE messages' = messages
  BY <1>8, KeptNamed DEF UInv
<1>9. CASE messages' = old
  BY <1>5, <1>7, <1>9 DEF Named
<1>10. CASE messages' = Prepared(old, r, n).ms
  <2>1. Tidy(Prepared(old, r, n).ms, SentRuns') /\ (Apart(old) => Apart(Prepared(old, r, n).ms))
    BY <1>2, <1>4, <1>5, <1>7, PreparedTidy
  <2> QED
    BY <1>5, <1>10, <2>1 DEF Named
<1> QED
  BY <1>6, <1>8, <1>9, <1>10

\* Any step.
LEMMA NamedStep ==
  ASSUME Types, Fed, Homed, Targeted, UInv, [Next]_vars
  PROVE  Named
<1>1. SentRuns \subseteq SentRuns'
  BY SentStep
<1>2. ASSUME messages' = messages PROVE Named
  BY <1>1, <1>2, KeptNamed DEF UInv
<1>3. ASSUME messages' = <<>> PROVE Named
  BY <1>3 DEF Named, Tidy, Apart
<1>4. ASSUME NEW id, messages' = Drop(messages, id) PROVE Named
  <2>1. (\A K : Tidy(messages, K) => Tidy(messages', K)) /\ (Apart(messages) => Apart(messages'))
    BY <1>4, DropSame DEF Types
  <2> QED
    BY <1>1, <2>1, KeptNamed DEF UInv
<1>5. CASE \E r \in Runs : Emit(r) \/ Finish(r)
  BY <1>2, <1>5 DEF Emit, Finish
<1>6. ASSUME NEW c \in Conns, ConnSteps(c) \/ Reject(c) \/ Break(c) PROVE Named
  <2>1. CASE Deliver(c)
    BY <1>1, <2>1, DeliverNamed
  <2>2. CASE Close(c)
    BY <1>4, <2>2 DEF Close
  <2>3. CASE Open(c) \/ Refreshed(c) \/ Reject(c) \/ Break(c)
    BY <1>2, <2>3 DEF Open, Refreshed, Reject, Break
  <2> QED
    BY <1>6, <2>1, <2>2, <2>3 DEF ConnSteps
<1>7. ASSUME NEW k \in Runs, SendSteps(k) \/ Send(k) PROVE Named
  <2>1. CASE Accept(k)
    BY <1>2, <2>1 DEF Accept
  <2>2. CASE SubmitFails(k)
    BY <1>4, <2>2 DEF SubmitFails
  <2> QED
    BY <1>1, <1>7, <2>1, <2>2, SendNamed, SubmittedNamed DEF SendSteps
<1>8. ASSUME NEW n \in Loads, LoadSteps(n) PROVE Named
  <2>1. CASE LoadShow(n)
    BY <1>1, <2>1, LoadShowNamed
  <2>2. ASSUME LoadGet(n) \/ LoadFails(n) \/ \E what \in {"events", "status"} : LoadRead(n, what)
        PROVE  messages' = messages
    BY <2>2 DEF LoadGet, LoadFails, LoadRead
  <2> QED
    BY <1>2, <1>8, <2>1, <2>2 DEF LoadSteps
<1>9. ASSUME NEW k, Checked(k) PROVE Named
  BY <1>2, <1>4, <1>9 DEF Checked
<1>10. ASSUME NEW k, Fire(k) PROVE Named
  BY <1>2, <1>10 DEF Fire
<1>11. CASE Clear \/ \E n \in Loads, s \in Runs : Load(n, s)
  <2>1. messages' = <<>>
    BY <1>11 DEF Clear, Load
  <2> QED
    BY <1>3, <2>1
<1>12. CASE Stop
  <2> DEFINE t == messages'
  <2>1. \A m \in Message : LET f == [m EXCEPT !.streaming = FALSE]
                           IN f.id = m.id /\ f.role = m.role /\ f.run = m.run
    BY DEF Message
  <2>2. \A i \in DOMAIN messages : messages[i] \in Message
    BY DEF Types
  <2>3. DOMAIN t = DOMAIN messages
        /\ \A i \in DOMAIN messages :
             t[i].id = messages[i].id /\ t[i].role = messages[i].role /\ t[i].run = messages[i].run
    BY <1>12, <2>1, <2>2 DEF Stop
  <2> HIDE DEF t
  <2>4. (\A K : Tidy(messages, K) => Tidy(t, K)) /\ (Apart(messages) => Apart(t))
    BY <2>3, SameNames
  <2> QED
    BY <1>1, <2>4, KeptNamed DEF UInv, t
<1>13. CASE Offline \/ Wake
  BY <1>2, <1>13 DEF Offline, Wake
<1>14. CASE UNCHANGED vars
  BY <1>2, <1>14 DEF vars
<1> QED
  BY <1>5, <1>6, <1>7, <1>8, <1>9, <1>10, <1>11, <1>12, <1>13, <1>14 DEF Next, User

\* The names are in order always.
LEMMA NamesHold == Spec => []UInv
<1>1. Init => UInv
  <2> SUFFICES ASSUME Init PROVE UInv
    OBVIOUS
  <2>1. feed = <<>> /\ messages = <<>> /\ \A r \in Runs : phase[r] = "none"
    BY DEF Init
  <2> QED
    BY <2>1 DEF UInv, Begun, Told, Ordered, Tidy, Apart
<1>2. TInv /\ UInv /\ [Next]_vars => UInv'
  <2> SUFFICES ASSUME Types, Fed, Homed, Targeted, UInv, [Next]_vars PROVE UInv'
    BY DEF TInv
  <2>1. Begun' /\ Told' /\ Ordered' /\ (Overlap => Overlap')
    BY BegunStep, FeedStep DEF UInv
  <2>2. Tidy(messages', SentRuns') /\ (~Overlap /\ Apart(messages) => Apart(messages'))
    BY NamedStep DEF Named
  <2>3. ~Overlap' => Apart(messages)'
    BY <2>1, <2>2 DEF UInv
  <2> QED
    BY <2>1, <2>2, <2>3 DEF UInv
<1> QED
  BY <1>1, <1>2, TypesHold, PTL DEF Spec

\* No message is shown twice (UniqueIds), unless a run began before the one
\* before it in the session had ended, although a user message is shown before
\* its run exists, comes again with the stream and again with the history, and
\* an answer's id changes when its run is known.
THEOREM MessagesUnique == Spec => []UniqueIds
<1>1. UInv => UniqueIds
  BY DEF UInv, UniqueIds, Apart
<1> QED
  BY <1>1, NamesHold, PTL
=============================================================================
