---------------------------- MODULE DualWriterProofs ----------------------------
(***************************************************************************)
(* Proofs about DualWriter for any tasks, events, sizes, timers and        *)
(* cancellations: a forced flush that found no timed write under way does  *)
(* not return before what it found has left the buffer; and every event is *)
(* in exactly one place.                                                   *)
(*                                                                         *)
(* FlushTakes speaks of a flush that returns; IInv says what a flush that  *)
(* waits for a timer may rely on.  The timer has taken everything it owes, *)
(* or it has not woken yet, or the flush will take over.  What is written  *)
(* meanwhile is nothing it owes, for events are numbered.                  *)
(*                                                                         *)
(* OnePlace counts; PInv says why one is the count: buffer, batches,       *)
(* MongoDB and the lost events share nothing and are all that was written, *)
(* none holds an event twice, and only who writes has a batch, so that     *)
(* taking one overwrites none.                                             *)
(***************************************************************************)
EXTENDS DualWriter, FiniteSetTheorems, TLAPS

Pairs == Tasks \X Nat

\* The types of the variables that decide.
Types ==
  /\ buffer \in Seq(Pairs) /\ wrote \in [Tasks -> Nat]
  /\ current \in Timers \cup {NoTimer} /\ waiting \in BOOLEAN
  /\ timer \in [Timers -> {"unborn", "created", "sleeping", "writing", "done", "killed"}]
  /\ pc \in [Tasks -> {"idle", "draining", "writing", "handling"}]
  /\ awaits \in [Tasks -> Timers \cup {NoTimer}] /\ forces \in [Tasks -> BOOLEAN]
  /\ owed \in [Tasks -> SUBSET Pairs]

\* The timer in _flush_task has not ended; a flush that drains waits for one.
Timed ==
  /\ current # NoTimer => Alive(current)
  /\ \A c \in Tasks : pc[c] = "draining" => awaits[c] # NoTimer /\ timer[awaits[c]] # "unborn"

\* Events have the numbers of the writes so far.
Past(es) == \A e \in es : e[2] <= wrote[e[1]]
Numbered == \A c \in Tasks : Past(owed[c])

\* Nothing owed is left, or it is still to be taken.
Paid(c) == owed[c] \cap Elems(buffer) = {}
Settled ==
  \A c \in Tasks :
    \/ Paid(c)
    \/ pc[c] = "draining" /\ (forces[c] \/ timer[awaits[c]] \in {"created", "sleeping", "killed"})

IInv == Types /\ Timed /\ Numbered /\ Past(Elems(buffer)) /\ Settled

-----------------------------------------------------------------------------
\* Sequences.
LEMMA AppendElems ==
  ASSUME NEW s \in Seq(Pairs), NEW e \in Pairs
  PROVE  Append(s, e) \in Seq(Pairs) /\ Elems(Append(s, e)) = Elems(s) \cup {e}
<1>1. /\ Append(s, e) \in Seq(Pairs) /\ Len(Append(s, e)) = Len(s) + 1
      /\ DOMAIN s = 1 .. Len(s) /\ DOMAIN Append(s, e) = 1 .. (Len(s) + 1)
      /\ Append(s, e)[Len(s) + 1] = e /\ \A i \in 1 .. Len(s) : Append(s, e)[i] = s[i]
  OBVIOUS
<1>2. Len(s) \in Nat
  OBVIOUS
<1> QED
  BY <1>1, <1>2 DEF Elems

\* What a full buffer keeps was in it.
LEMMA KeptElems ==
  ASSUME buffer \in Seq(Pairs)
  PROVE  Kept \in Seq(Pairs) /\ Elems(Kept) \subseteq Elems(buffer)
<1>1. CASE Len(buffer) < BufferMax
  BY <1>1 DEF Kept
<1>2. CASE ~(Len(buffer) < BufferMax)
  <2> DEFINE m == Len(buffer) - BufferMax \div 2 + 1
             s == SubSeq(buffer, m, Len(buffer))
  <2>1. Len(buffer) \in Nat /\ m \in Int /\ m >= 1
    BY <1>2, WriterAssumption
  <2>2. Kept = s
    BY <1>2 DEF Kept
  <2> HIDE DEF m
  <2>3. s \in Seq(Pairs) /\ \A i \in DOMAIN s : s[i] = buffer[i + m - 1] /\ i + m - 1 \in DOMAIN buffer
    BY <2>1
  <2> QED
    BY <2>2, <2>3 DEF Elems
<1> QED
  BY <1>1, <1>2

\* The empty sequence.
LEMMA NoElems == Elems(<<>>) = {}
  BY DEF Elems

-----------------------------------------------------------------------------
\* An empty buffer owes nothing to anybody.
LEMMA EmptyPays == buffer' = <<>> => Settled' /\ Past(Elems(buffer))'
  BY NoElems DEF Settled, Paid, Past

\* A flush takes everything, or waits for the timer and is owed it.
LEMMA FlushStep ==
  ASSUME IInv, NEW c \in Tasks, pc[c] # "draining", NEW buf \in Seq(Pairs), NEW drop, Flush(c, buf, drop),
         wrote' \in [Tasks -> Nat], \A d \in Tasks : wrote[d] <= wrote'[d],
         \A e \in Elems(buf) : e[2] <= wrote'[e[1]],
         \A d \in Tasks : Paid(d) => owed[d] \cap Elems(buf) = {}
  PROVE  IInv'
<1>0. Types /\ Timed /\ Numbered /\ Settled
  BY DEF IInv
<1>1. Elems(buf) \subseteq Pairs
  BY DEF Elems
<1>2. /\ owed' \in [Tasks -> SUBSET Pairs] /\ owed'[c] \subseteq Elems(buf)
      /\ (current # NoTimer /\ timer[current] = "writing" => owed'[c] = {})
      /\ \A d \in Tasks \ {c} : owed'[d] = owed[d]
  BY <1>0, <1>1 DEF Flush, Types
<1>3. Numbered'
  <2> SUFFICES ASSUME NEW d \in Tasks, NEW e \in owed'[d] PROVE e[2] <= wrote'[e[1]]
    BY DEF Numbered, Past
  <2>1. CASE d = c
    BY <1>2, <2>1
  <2>2. CASE d # c
    <3>1. e \in owed[d] /\ e \in Pairs
      BY <1>0, <1>2, <2>2 DEF Types
    <3>2. e[2] <= wrote[e[1]] /\ e[1] \in Tasks /\ e[2] \in Nat
      BY <1>0, <3>1 DEF Numbered, Past, Pairs
    <3>3. wrote[e[1]] <= wrote'[e[1]] /\ wrote[e[1]] \in Nat /\ wrote'[e[1]] \in Nat
      BY <1>0, <3>2 DEF Types
    <3> QED
      BY <3>2, <3>3
  <2> QED
    BY <2>1, <2>2
<1>4. CASE current = NoTimer
  <2>1. buffer' = <<>> /\ UNCHANGED <<current, waiting, timer, awaits, forces>>
        /\ pc' = [pc EXCEPT ![c] = IF buf = <<>> THEN "idle" ELSE "writing"]
    BY <1>4 DEF Flush, Take, Left
  <2>2. Types'
    BY <1>0, <1>2, <2>1 DEF Types
  <2>3. Timed'
    BY <1>0, <2>1 DEF Timed, Types, Alive
  <2> QED
    BY <1>3, <2>1, <2>2, <2>3, EmptyPays DEF IInv
<1>5. CASE current # NoTimer
  <2>1. /\ buffer' = buf /\ UNCHANGED <<current, waiting, timer>> /\ pc' = [pc EXCEPT ![c] = "draining"]
        /\ awaits' = [awaits EXCEPT ![c] = current] /\ forces' = [forces EXCEPT ![c] = waiting]
    BY <1>5 DEF Flush
  <2>2. forces' \in [Tasks -> BOOLEAN] /\ \A d \in Tasks \ {c} : forces'[d] = forces[d]
    BY <1>0, <2>1 DEF Types
  <2>3. Types'
    BY <1>0, <1>2, <2>1, <2>2 DEF Types
  <2>4. Timed'
    BY <1>0, <1>5, <2>1 DEF Timed, Types, Alive
  <2>5. Past(Elems(buffer))'
    BY <2>1 DEF Past
  <2>6. Settled'
    <3> SUFFICES ASSUME NEW d \in Tasks
                 PROVE  \/ Paid(d)'
                        \/ /\ pc'[d] = "draining"
                           /\ forces'[d] \/ timer'[awaits'[d]] \in {"created", "sleeping", "killed"}
      BY DEF Settled
    <3>1. CASE d = c
      <4>1. awaits'[c] = current /\ pc'[c] = "draining" /\ timer[current] \in {"created", "sleeping", "writing"}
        BY <1>0, <1>5, <2>1 DEF Types, Timed, Alive
      <4> QED
        BY <1>2, <1>5, <2>1, <3>1, <4>1 DEF Paid
    <3>2. CASE d # c
      <4>1. pc'[d] = pc[d] /\ awaits'[d] = awaits[d] /\ forces'[d] = forces[d] /\ owed'[d] = owed[d]
        BY <1>0, <1>2, <2>1, <2>2, <3>2 DEF Types
      <4> QED
        BY <1>0, <2>1, <4>1 DEF Settled, Paid
    <3> QED
      BY <3>1, <3>2
  <2> QED
    BY <1>3, <2>3, <2>4, <2>5, <2>6 DEF IInv
<1> QED
  BY <1>4, <1>5

\* A step that leaves the buffer, the numbers, the timers and what is owed.
LEMMA AwayStep ==
  ASSUME IInv, UNCHANGED <<buffer, wrote, current, waiting, timer, owed, awaits>>,
         pc' \in [Tasks -> {"idle", "draining", "writing", "handling"}],
         forces' \in [Tasks -> BOOLEAN],
         \A c \in Tasks : pc'[c] = "draining" <=> pc[c] = "draining",
         \A c \in Tasks : forces[c] => forces'[c]
  PROVE  IInv'
<1>1. Types' /\ Numbered' /\ Past(Elems(buffer))'
  BY DEF IInv, Types, Numbered, Past
<1>2. Timed' /\ Settled'
  BY DEF IInv, Timed, Settled, Paid, Alive
<1> QED
  BY <1>1, <1>2 DEF IInv

\* An event is written: the numbers of the others are not its.
LEMMA WriteStep ==
  ASSUME IInv, NEW c \in Tasks, WriteEvent(c)
  PROVE  IInv'
<1> DEFINE e == <<c, wrote[c] + 1>>
           longer == Append(Kept, e)
           dropped == Elems(buffer) \ Elems(Kept)
<1>0. Types /\ Timed /\ Numbered /\ Settled /\ Past(Elems(buffer))
  BY DEF IInv
<1>1. wrote' \in [Tasks -> Nat] /\ wrote'[c] = wrote[c] + 1 /\ \A d \in Tasks : wrote[d] <= wrote'[d]
  BY <1>0 DEF WriteEvent, Types
<1>2. e \in Pairs /\ longer \in Seq(Pairs) /\ Elems(longer) \subseteq Elems(buffer) \cup {e}
  <2>1. Kept \in Seq(Pairs) /\ Elems(Kept) \subseteq Elems(buffer)
    BY <1>0, KeptElems DEF Types
  <2>2. e \in Pairs
    BY <1>0 DEF Types, Pairs
  <2> QED
    BY <2>1, <2>2, AppendElems
<1>3. \A x \in Pairs : x[2] <= wrote[x[1]] => x[2] <= wrote'[x[1]] /\ x # e
  <2> SUFFICES ASSUME NEW d \in Tasks, NEW n \in Nat, n <= wrote[d]
               PROVE  n <= wrote'[d] /\ <<d, n>> # e
    BY DEF Pairs
  <2>1. wrote[d] \in Nat /\ wrote'[d] \in Nat /\ wrote[d] <= wrote'[d] /\ wrote[c] \in Nat
    BY <1>0, <1>1 DEF Types
  <2> QED
    BY <2>1
<1>4. Elems(buffer) \subseteq Pairs
  BY <1>0 DEF Types, Elems
<1>5. \A x \in Elems(longer) : x[2] <= wrote'[x[1]]
  <2> SUFFICES ASSUME NEW x \in Elems(longer) PROVE x[2] <= wrote'[x[1]]
    OBVIOUS
  <2>1. CASE x = e
    BY <1>0, <1>1, <2>1 DEF Types
  <2>2. CASE x # e
    <3>1. x \in Elems(buffer) /\ x \in Pairs
      BY <1>2, <1>4, <2>2
    <3> QED
      BY <1>0, <1>3, <3>1 DEF Past
  <2> QED
    BY <2>1, <2>2
<1>6. \A d \in Tasks : Paid(d) => owed[d] \cap Elems(longer) = {}
  <2> SUFFICES ASSUME NEW d \in Tasks, Paid(d), NEW x \in owed[d] PROVE x \notin Elems(longer)
    OBVIOUS
  <2>1. x \in Pairs /\ x[2] <= wrote[x[1]]
    BY <1>0 DEF Types, Numbered, Past
  <2> QED
    BY <1>2, <1>3, <2>1 DEF Paid
<1>7. CASE Flush(c, longer, dropped)
  <2>1. pc[c] # "draining"
    BY DEF WriteEvent
  <2> HIDE DEF longer, dropped, e
  <2> QED
    BY <1>1, <1>2, <1>5, <1>6, <1>7, <2>1, FlushStep
<1>8. CASE /\ buffer' = longer /\ UNCHANGED <<waiting, callers, owed>>
           /\ \/ \E t \in Timers : /\ timer[t] = "unborn" /\ current' = t
                                   /\ timer' = [timer EXCEPT ![t] = "created"]
              \/ UNCHANGED <<timer, current>>
  <2> HIDE DEF longer, e
  <2>1. Past(Elems(buffer))' /\ Numbered'
    <3>1. Past(Elems(buffer))'
      BY <1>5, <1>8 DEF Past
    <3>2. Numbered'
      BY <1>0, <1>3, <1>8 DEF Numbered, Past, Types
    <3> QED
      BY <3>1, <3>2
  <2>2. \A t \in Timers : timer'[t] = timer[t] \/ (timer[t] = "unborn" /\ timer'[t] = "created")
    BY <1>0, <1>8 DEF Types
  <2>3. Types' /\ Timed'
    <3>1. Types'
      BY <1>0, <1>1, <1>2, <1>8 DEF Types, callers
    <3>2. Timed'
      <4>1. current' # NoTimer => Alive(current)'
        BY <1>0, <1>8 DEF Types, Timed, Alive
      <4>2. \A d \in Tasks : pc'[d] = "draining" => awaits'[d] # NoTimer /\ timer'[awaits'[d]] # "unborn"
        BY <1>0, <1>8, <2>2 DEF Types, Timed, callers
      <4> QED
        BY <4>1, <4>2 DEF Timed
    <3> QED
      BY <3>1, <3>2
  <2>4. Settled'
    <3> SUFFICES ASSUME NEW d \in Tasks
                 PROVE  \/ Paid(d)'
                        \/ /\ pc'[d] = "draining"
                           /\ forces'[d] \/ timer'[awaits'[d]] \in {"created", "sleeping", "killed"}
      BY DEF Settled
    <3>1. CASE Paid(d)
      BY <1>6, <1>8, <3>1 DEF Paid
    <3>2. CASE ~Paid(d)
      <4>1. pc[d] = "draining" /\ (forces[d] \/ timer[awaits[d]] \in {"created", "sleeping", "killed"})
        BY <1>0, <3>2 DEF Settled
      <4>2. awaits[d] \in Timers
        BY <1>0, <4>1 DEF Timed, Types
      <4> QED
        BY <1>8, <2>2, <4>1, <4>2 DEF callers
    <3> QED
      BY <3>1, <3>2
  <2> QED
    BY <2>1, <2>3, <2>4 DEF IInv
<1> QED
  BY <1>7, <1>8 DEF WriteEvent

\* The timer has ended: what it did not take is taken now.
LEMMA ResumeStep ==
  ASSUME IInv, NEW c \in Tasks, Resume(c)
  PROVE  IInv'
<1>0. Types /\ Timed /\ Numbered /\ Settled /\ Past(Elems(buffer))
  BY DEF IInv
<1>1. /\ UNCHANGED <<current, waiting, timer, wrote, owed>>
      /\ awaits' = [awaits EXCEPT ![c] = NoTimer] /\ forces' = [forces EXCEPT ![c] = FALSE]
      /\ pc[c] = "draining" /\ timer[awaits[c]] \in {"done", "killed"}
  BY DEF Resume, timed
<1>2. pc' \in [Tasks -> {"idle", "draining", "writing", "handling"}] /\ pc'[c] # "draining"
      /\ \A d \in Tasks \ {c} : pc'[d] = pc[d]
  BY <1>0 DEF Resume, Types
<1>3. Timed' /\ Numbered'
  BY <1>0, <1>1, <1>2 DEF Timed, Numbered, Past, Types, Alive
<1>4. CASE TakesOver(c)
  <2>1. buffer' = <<>>
    BY <1>4 DEF Resume, Take, Left
  <2>2. Types'
    <3>1. buffer' \in Seq(Pairs)
      BY <2>1
    <3>2. awaits' \in [Tasks -> Timers \cup {NoTimer}] /\ forces' \in [Tasks -> BOOLEAN]
      BY <1>0, <1>1 DEF Types
    <3> QED
      BY <1>0, <1>1, <1>2, <3>1, <3>2 DEF Types
  <2> QED
    BY <1>3, <2>1, <2>2, EmptyPays DEF IInv
<1>5. CASE ~TakesOver(c)
  <2>1. buffer' = buffer
    BY <1>5 DEF Resume
  <2>2. Types' /\ Past(Elems(buffer))'
    BY <1>0, <1>1, <1>2, <2>1 DEF Types, Past
  <2>3. Paid(c)
    BY <1>0, <1>1, <1>5 DEF Settled, TakesOver
  <2>4. Settled'
    <3> SUFFICES ASSUME NEW d \in Tasks
                 PROVE  \/ Paid(d)'
                        \/ /\ pc'[d] = "draining"
                           /\ forces'[d] \/ timer'[awaits'[d]] \in {"created", "sleeping", "killed"}
      BY DEF Settled
    <3>1. CASE d = c
      BY <1>1, <2>1, <2>3, <3>1 DEF Paid
    <3>2. CASE d # c
      <4>1. pc'[d] = pc[d] /\ awaits'[d] = awaits[d] /\ forces'[d] = forces[d]
        BY <1>0, <1>1, <1>2, <3>2 DEF Types
      <4> QED
        BY <1>0, <1>1, <2>1, <4>1 DEF Settled, Paid
    <3> QED
      BY <3>1, <3>2
  <2> QED
    BY <1>3, <2>2, <2>4 DEF IInv
<1> QED
  BY <1>4, <1>5

\* A timer falls asleep, wakes and takes everything, ends or is cancelled.
LEMMA TimerLemma ==
  ASSUME IInv, NEW t \in Timers, TimerStep(t)
  PROVE  IInv'
<1>0. Types /\ Timed /\ Numbered /\ Settled /\ Past(Elems(buffer))
  BY DEF IInv
<1>1. UNCHANGED <<callers, wrote, owed>>
  BY DEF TimerStep, TimerSleeps, TimerWakes, TimerWrote, TimerKilled
<1>2. Numbered'
  BY <1>0, <1>1 DEF Numbered, Past
<1>3. waiting' \in BOOLEAN
  BY <1>0 DEF TimerStep, TimerSleeps, TimerWakes, TimerWrote, TimerKilled, Types
<1>4. ASSUME NEW how \in {"done", "killed"}, Ends(t, how)
      PROVE  /\ timer' = [timer EXCEPT ![t] = how] /\ current' \in Timers \cup {NoTimer}
             /\ current' # NoTimer => Alive(current)'
  BY <1>0, <1>4 DEF Ends, Types, Timed, Alive
<1>5. CASE TimerSleeps(t)
  <2>1. timer[t] = "created" /\ timer' = [timer EXCEPT ![t] = "sleeping"] /\ UNCHANGED <<buffer, current>>
    BY <1>5 DEF TimerSleeps
  <2>2. Types' /\ Past(Elems(buffer))'
    BY <1>0, <1>1, <1>3, <2>1 DEF Types, Past, callers
  <2>3. Timed'
    BY <1>0, <1>1, <2>1 DEF Timed, Types, Alive, callers
  <2>4. Settled'
    BY <1>0, <1>1, <2>1 DEF Settled, Paid, Types, callers
  <2> QED
    BY <1>2, <2>2, <2>3, <2>4 DEF IInv
<1>6. CASE TimerWakes(t)
  <2>1. buffer' = <<>> /\ timer[t] = "sleeping"
    BY <1>6 DEF TimerWakes, Take, Left
  <2>2. /\ \E how \in {"done", "writing"} : timer' = [timer EXCEPT ![t] = how]
        /\ current' \in Timers \cup {NoTimer} /\ (current' # NoTimer => Alive(current)')
    <3>1. CASE buffer = <<>>
      BY <1>4, <1>6, <3>1 DEF TimerWakes
    <3>2. CASE buffer # <<>>
      BY <1>0, <1>6, <3>2 DEF TimerWakes, Types, Timed, Alive
    <3> QED
      BY <3>1, <3>2
  <2>3. Types'
    BY <1>0, <1>1, <1>3, <2>1, <2>2 DEF Types, callers
  <2>4. Timed'
    BY <1>0, <1>1, <2>1, <2>2 DEF Timed, Types, callers
  <2> QED
    BY <1>2, <2>1, <2>3, <2>4, EmptyPays DEF IInv
<1>7. CASE TimerWrote(t) \/ TimerKilled(t)
  <2>1. PICK how \in {"done", "killed"} : Ends(t, how) /\ (how = "killed" \/ timer[t] = "writing")
    BY <1>7 DEF TimerWrote, TimerKilled
  <2>2. buffer' = buffer
    BY <1>7 DEF TimerWrote, TimerKilled
  <2>3. timer' = [timer EXCEPT ![t] = how] /\ current' \in Timers \cup {NoTimer}
        /\ (current' # NoTimer => Alive(current)')
    BY <1>4, <2>1
  <2>4. Types' /\ Past(Elems(buffer))'
    BY <1>0, <1>1, <1>3, <2>2, <2>3 DEF Types, Past, callers
  <2>5. Timed'
    BY <1>0, <1>1, <2>3 DEF Timed, Types, callers
  <2>6. Settled'
    BY <1>0, <1>1, <2>1, <2>2, <2>3 DEF Settled, Paid, Types, callers
  <2> QED
    BY <1>2, <2>4, <2>5, <2>6 DEF IInv
<1> QED
  BY <1>5, <1>6, <1>7 DEF TimerStep

-----------------------------------------------------------------------------
\* The invariant holds initially and every step keeps it.
LEMMA InvariantHolds == Spec => []IInv
<1>1. Init => IInv
  <2> SUFFICES ASSUME Init PROVE IInv
    OBVIOUS
  <2>1. Types
    <3>1. buffer \in Seq(Pairs) /\ waiting \in BOOLEAN /\ wrote \in [Tasks -> Nat]
      <4>1. buffer = <<>>
        BY DEF Init
      <4>2. buffer \in Seq(Pairs)
        BY <4>1
      <4>3. waiting \in BOOLEAN /\ wrote \in [Tasks -> Nat]
        BY DEF Init
      <4> QED
        BY <4>2, <4>3
    <3>2. owed \in [Tasks -> SUBSET Pairs]
      <4>1. owed = [c \in Tasks |-> {}] /\ {} \in SUBSET Pairs
        BY DEF Init
      <4> QED
        BY <4>1
    <3> QED
      BY <3>1, <3>2 DEF Init, Types
  <2>2. Elems(buffer) = {}
    BY NoElems DEF Init
  <2> QED
    BY <2>1, <2>2 DEF Init, IInv, Timed, Numbered, Past, Settled, Paid
<1>2. IInv /\ [Next]_vars => IInv'
  <2> SUFFICES ASSUME IInv, [Next]_vars PROVE IInv'
    OBVIOUS
  <2>0. Types
    BY DEF IInv
  <2>1. CASE UNCHANGED vars
    BY <2>0, <2>1, AwayStep DEF vars, timed, callers, Types
  <2>2. ASSUME NEW t \in Timers, TimerStep(t) PROVE IInv'
    BY <2>2, TimerLemma
  <2>3. ASSUME NEW c \in Tasks, CallFlush(c) PROVE IInv'
    <3>1. Flush(c, buffer, {}) /\ wrote' = wrote /\ pc[c] # "draining" /\ buffer \in Seq(Pairs)
      BY <2>0, <2>3 DEF CallFlush, Types
    <3>2. \A d \in Tasks : wrote[d] <= wrote'[d]
      BY <2>0, <3>1 DEF Types
    <3> QED
      BY <2>0, <3>1, <3>2, FlushStep DEF IInv, Types, Past, Paid
  <2>4. ASSUME NEW c \in Tasks, Finish(c) PROVE IInv'
    BY <2>0, <2>4, AwayStep DEF Finish, timed, Types
  <2>5. ASSUME NEW c \in Tasks, Cancel(c) PROVE IInv'
    <3>1. UNCHANGED <<buffer, wrote, current, waiting, timer, owed, awaits>>
      BY <2>5 DEF Cancel
    <3>2. CASE pc[c] # "draining" /\ pc' = [pc EXCEPT ![c] = "handling"] /\ forces' = forces
      BY <2>0, <3>1, <3>2, AwayStep DEF Types
    <3>3. CASE pc' = pc /\ forces' = [forces EXCEPT ![c] = TRUE]
      BY <2>0, <3>1, <3>3, AwayStep DEF Types
    <3> QED
      BY <2>5, <3>2, <3>3 DEF Cancel
  <2> QED
    BY <2>1, <2>2, <2>3, <2>4, <2>5, WriteStep, ResumeStep DEF Next, TaskStep
<1> QED
  BY <1>1, <1>2, PTL DEF Spec

\* A forced flush that found no timed write under way does not return before
\* everything it found in the buffer has left it, however timers, overflows,
\* other flushes and cancellations come in between (flush_mongo_buffer,
\* _drain_scheduled_flush_task).
THEOREM FlushTakesAll == Spec => []FlushTakes
<1>1. IInv => FlushTakes
  BY DEF IInv, Settled, Paid, FlushTakes
<1> QED
  BY <1>1, InvariantHolds, PTL

-----------------------------------------------------------------------------
(* Where the events are.  Spread speaks of sets: what the buffer holds (B), *)
(* what each actor is writing (H), what MongoDB has (S), what is lost (L)   *)
(* are apart, and are all that was written (W).  Places says it of the      *)
(* sequences, in which no event is twice.                                   *)

Actors == Timers \cup Tasks

Spread(B, H, S, L, W) ==
  /\ B \cap S = {} /\ B \cap L = {} /\ S \cap L = {}
  /\ \A a \in Actors : H[a] \cap (B \cup S \cup L) = {}
  /\ \A a, b \in Actors : a # b => H[a] \cap H[b] = {}
  /\ \A e \in W : e \in B \cup S \cup L \/ \E a \in Actors : e \in H[a]
  /\ B \cup S \cup L \subseteq W /\ \A a \in Actors : H[a] \subseteq W

Distinct(s) == \A i, j \in DOMAIN s : s[i] = s[j] => i = j

Held(bat) == [a \in Actors |-> Elems(bat[a])]
Upto(wro) == {e \in Events : e[2] <= wro[e[1]]}

Places(buf, bat, sto, los, wro) ==
  /\ buf \in Seq(Events) /\ bat \in [Actors -> Seq(Events)] /\ sto \in Seq(Events)
  /\ los \in SUBSET Events /\ wro \in [Tasks -> 0 .. MaxEvents]
  /\ Distinct(buf) /\ Distinct(sto) /\ \A a \in Actors : Distinct(bat[a])
  /\ Spread(Elems(buf), Held(bat), Elems(sto), los, Upto(wro))

\* The types of the variables that hold no events.
Fields ==
  /\ ready \in BOOLEAN /\ current \in Timers \cup {NoTimer} /\ waiting \in BOOLEAN
  /\ timer \in [Timers -> {"unborn", "created", "sleeping", "writing", "done", "killed"}]
  /\ doomed \in SUBSET Timers
  /\ pc \in [Tasks -> {"idle", "draining", "writing", "handling"}]
  /\ awaits \in [Tasks -> Timers \cup {NoTimer}] /\ forces \in [Tasks -> BOOLEAN]
  /\ cancelled \in SUBSET Tasks /\ owed \in [Tasks -> SUBSET Events]

\* Only who writes holds a batch: a flush overwrites none.
Idle ==
  /\ \A t \in Timers : batch[t] # <<>> => timer[t] = "writing"
  /\ \A c \in Tasks : batch[c] # <<>> => pc[c] = "writing"

PInv ==
  /\ Fields /\ Idle /\ Len(buffer) <= BufferMax
  /\ Places(buffer, batch, stored, lost, wrote)

-----------------------------------------------------------------------------
\* Sequences without repetition.
LEMMA DistinctAppend ==
  ASSUME NEW T, NEW s \in Seq(T), NEW e \in T, Distinct(s), e \notin Elems(s)
  PROVE  /\ Append(s, e) \in Seq(T) /\ Distinct(Append(s, e))
         /\ Elems(Append(s, e)) = Elems(s) \cup {e} /\ Len(Append(s, e)) = Len(s) + 1
<1>1. /\ Append(s, e) \in Seq(T) /\ Len(Append(s, e)) = Len(s) + 1 /\ Len(s) \in Nat
      /\ DOMAIN s = 1 .. Len(s) /\ DOMAIN Append(s, e) = 1 .. (Len(s) + 1)
      /\ Append(s, e)[Len(s) + 1] = e /\ \A i \in 1 .. Len(s) : Append(s, e)[i] = s[i]
  OBVIOUS
<1>2. Elems(Append(s, e)) = Elems(s) \cup {e}
  BY <1>1 DEF Elems
<1>3. Distinct(Append(s, e))
  <2> SUFFICES ASSUME NEW i \in 1 .. (Len(s) + 1), NEW j \in 1 .. (Len(s) + 1),
                      Append(s, e)[i] = Append(s, e)[j]
               PROVE  i = j
    BY <1>1 DEF Distinct
  <2>1. \A k \in 1 .. Len(s) : s[k] # e
    BY <1>1 DEF Elems
  <2>2. CASE i = Len(s) + 1 \/ j = Len(s) + 1
    BY <1>1, <2>1, <2>2
  <2>3. CASE i # Len(s) + 1 /\ j # Len(s) + 1
    <3>1. i \in DOMAIN s /\ j \in DOMAIN s
      BY <1>1, <2>3
    <3> QED
      BY <1>1, <3>1 DEF Distinct
  <2> QED
    BY <2>2, <2>3
<1> QED
  BY <1>1, <1>2, <1>3

LEMMA DistinctConcat ==
  ASSUME NEW T, NEW s \in Seq(T), NEW r \in Seq(T), Distinct(s), Distinct(r),
         Elems(s) \cap Elems(r) = {}
  PROVE  s \o r \in Seq(T) /\ Distinct(s \o r) /\ Elems(s \o r) = Elems(s) \cup Elems(r)
<1> DEFINE n == Len(s)
           m == Len(r)
           u == s \o r
<1>1. /\ u \in Seq(T) /\ n \in Nat /\ m \in Nat /\ Len(u) = n + m
      /\ DOMAIN s = 1 .. n /\ DOMAIN r = 1 .. m /\ DOMAIN u = 1 .. (n + m)
      /\ \A i \in 1 .. (n + m) : u[i] = IF i <= n THEN s[i] ELSE r[i - n]
  OBVIOUS
<1> HIDE DEF n, m, u
<1>2. \A i \in 1 .. (n + m) : \/ i \in DOMAIN s /\ u[i] = s[i] /\ s[i] \in Elems(s)
                              \/ i - n \in DOMAIN r /\ i > n /\ u[i] = r[i - n] /\ r[i - n] \in Elems(r)
  <2> SUFFICES ASSUME NEW i \in 1 .. (n + m)
               PROVE  \/ i \in DOMAIN s /\ u[i] = s[i] /\ s[i] \in Elems(s)
                      \/ i - n \in DOMAIN r /\ i > n /\ u[i] = r[i - n] /\ r[i - n] \in Elems(r)
    OBVIOUS
  <2>1. CASE i <= n
    <3>1. i \in DOMAIN s /\ u[i] = s[i]
      BY <1>1, <2>1
    <3> QED
      BY <3>1 DEF Elems
  <2>2. CASE i > n
    <3>1. i - n \in DOMAIN r /\ u[i] = r[i - n]
      BY <1>1, <2>2
    <3> QED
      BY <2>2, <3>1 DEF Elems
  <2> QED
    BY <1>1, <2>1, <2>2
<1>3. Distinct(u)
  <2> SUFFICES ASSUME NEW i \in 1 .. (n + m), NEW j \in 1 .. (n + m), u[i] = u[j]
               PROVE  i = j
    BY <1>1 DEF Distinct
  <2>1. CASE i \in DOMAIN s /\ u[i] = s[i] /\ s[i] \in Elems(s)
    <3>1. u[j] \notin Elems(r)
      BY <2>1
    <3>2. j \in DOMAIN s /\ u[j] = s[j]
      BY <1>2, <3>1
    <3> QED
      BY <2>1, <3>2 DEF Distinct
  <2>2. CASE i - n \in DOMAIN r /\ i > n /\ u[i] = r[i - n] /\ r[i - n] \in Elems(r)
    <3>1. u[j] \notin Elems(s)
      BY <2>2
    <3>2. j - n \in DOMAIN r /\ u[j] = r[j - n]
      BY <1>2, <3>1
    <3>3. i - n = j - n
      BY <2>2, <3>2 DEF Distinct
    <3> QED
      BY <1>1, <3>3
  <2> QED
    BY <1>2, <2>1, <2>2
<1>4. Elems(u) = Elems(s) \cup Elems(r)
  <2>1. Elems(u) \subseteq Elems(s) \cup Elems(r)
    <3> SUFFICES ASSUME NEW i \in 1 .. (n + m) PROVE u[i] \in Elems(s) \cup Elems(r)
      BY <1>1 DEF Elems
    <3> QED
      BY <1>2
  <2>2. Elems(s) \subseteq Elems(u)
    <3> SUFFICES ASSUME NEW i \in 1 .. n PROVE s[i] \in Elems(u)
      BY <1>1 DEF Elems
    <3>1. i \in 1 .. (n + m) /\ u[i] = s[i]
      BY <1>1
    <3> QED
      BY <1>1, <3>1 DEF Elems
  <2>3. Elems(r) \subseteq Elems(u)
    <3> SUFFICES ASSUME NEW i \in 1 .. m PROVE r[i] \in Elems(u)
      BY <1>1 DEF Elems
    <3>1. i + n \in 1 .. (n + m) /\ ~(i + n <= n) /\ (i + n) - n = i
      BY <1>1
    <3>2. u[i + n] = r[i]
      BY <1>1, <3>1
    <3> QED
      BY <1>1, <3>1, <3>2 DEF Elems
  <2> QED
    BY <2>1, <2>2, <2>3
<1> QED
  BY <1>1, <1>3, <1>4 DEF u

LEMMA DistinctEmpty == <<>> \in Seq(Events) /\ Distinct(<<>>) /\ Elems(<<>>) = {}
  BY NoElems DEF Distinct

\* What a full buffer keeps: there is room for one event more.
LEMMA KeptFits ==
  ASSUME buffer \in Seq(Events), Distinct(buffer)
  PROVE  /\ Kept \in Seq(Events) /\ Distinct(Kept) /\ Elems(Kept) \subseteq Elems(buffer)
         /\ Len(Kept) \in Nat /\ Len(Kept) + 1 <= BufferMax
<1>0. BufferMax \in Nat \ {0} /\ Len(buffer) \in Nat
  BY WriterAssumption
<1>1. CASE Len(buffer) < BufferMax
  BY <1>0, <1>1 DEF Kept
<1>2. CASE ~(Len(buffer) < BufferMax)
  <2> DEFINE h == BufferMax \div 2
             m == Len(buffer) - h + 1
             s == SubSeq(buffer, m, Len(buffer))
  <2>1. h \in Nat /\ h + 1 <= BufferMax
    BY <1>0
  <2>2. Kept = s
    BY <1>2 DEF Kept
  <2> HIDE DEF h
  <2>3. m \in Int /\ m >= 1 /\ m <= Len(buffer) + 1 /\ Len(buffer) - m + 1 = h
    BY <1>0, <1>2, <2>1
  <2> HIDE DEF m
  <2>4. /\ s \in Seq(Events) /\ Len(s) = h
        /\ \A i \in DOMAIN s : s[i] = buffer[i + m - 1] /\ i + m - 1 \in DOMAIN buffer /\ i \in Int
    BY <1>0, <2>1, <2>3
  <2> HIDE DEF s
  <2>5. Elems(s) \subseteq Elems(buffer)
    BY <2>4 DEF Elems
  <2>6. Distinct(s)
    <3> SUFFICES ASSUME NEW i \in DOMAIN s, NEW j \in DOMAIN s, s[i] = s[j] PROVE i = j
      BY DEF Distinct
    <3>1. i + m - 1 = j + m - 1
      BY <2>4 DEF Distinct
    <3> QED
      BY <2>3, <2>4, <3>1
  <2> QED
    BY <2>1, <2>2, <2>4, <2>5, <2>6
<1> QED
  BY <1>1, <1>2

-----------------------------------------------------------------------------
\* Batches taken, stored and lost, and an event written.
LEMMA TakePlaces ==
  ASSUME NEW buf, NEW bat, NEW sto, NEW los, NEW wro, Places(buf, bat, sto, los, wro),
         NEW a \in Actors, bat[a] = <<>>
  PROVE  Places(<<>>, [bat EXCEPT ![a] = buf], sto, los, wro)
<1> DEFINE bat2 == [bat EXCEPT ![a] = buf]
           H == Held(bat)
           H2 == Held(bat2)
<1>1. bat2 \in [Actors -> Seq(Events)] /\ \A b \in Actors : Distinct(bat2[b])
  BY DEF Places
<1>2. /\ H[a] = {} /\ H2[a] = Elems(buf) /\ \A b \in Actors \ {a} : H2[b] = H[b]
  BY NoElems DEF Held, Places
<1>3. Spread(Elems(buf), H, Elems(sto), los, Upto(wro))
  BY DEF Places
<1> HIDE DEF H, H2
<1>4. Spread({}, H2, Elems(sto), los, Upto(wro))
  BY <1>2, <1>3 DEF Spread
<1> QED
  BY <1>1, <1>4, DistinctEmpty DEF Places, H2

LEMMA StorePlaces ==
  ASSUME NEW buf, NEW bat, NEW sto, NEW los, NEW wro, Places(buf, bat, sto, los, wro),
         NEW a \in Actors
  PROVE  Places(buf, [bat EXCEPT ![a] = <<>>], sto \o bat[a], los, wro)
<1> DEFINE bat2 == [bat EXCEPT ![a] = <<>>]
           H == Held(bat)
           H2 == Held(bat2)
<1>1. bat2 \in [Actors -> Seq(Events)] /\ \A b \in Actors : Distinct(bat2[b])
  BY DistinctEmpty DEF Places
<1>2. H2[a] = {} /\ H[a] = Elems(bat[a]) /\ \A b \in Actors \ {a} : H2[b] = H[b]
  BY NoElems DEF Held, Places
<1>3. Spread(Elems(buf), H, Elems(sto), los, Upto(wro))
  BY DEF Places
<1> HIDE DEF H, H2
<1>4. /\ sto \o bat[a] \in Seq(Events) /\ Distinct(sto \o bat[a])
      /\ Elems(sto \o bat[a]) = Elems(sto) \cup H[a]
  <2>1. Elems(sto) \cap Elems(bat[a]) = {}
    BY <1>2, <1>3 DEF Spread
  <2>2. sto \in Seq(Events) /\ bat[a] \in Seq(Events) /\ Distinct(sto) /\ Distinct(bat[a])
    BY DEF Places
  <2> QED
    BY <1>2, <2>1, <2>2, DistinctConcat
<1>5. Spread(Elems(buf), H2, Elems(sto) \cup H[a], los, Upto(wro))
  BY <1>2, <1>3 DEF Spread
<1> QED
  BY <1>1, <1>4, <1>5 DEF Places, H2

LEMMA LosePlaces ==
  ASSUME NEW buf, NEW bat, NEW sto, NEW los, NEW wro, Places(buf, bat, sto, los, wro),
         NEW a \in Actors
  PROVE  Places(buf, [bat EXCEPT ![a] = <<>>], sto, los \cup Elems(bat[a]), wro)
<1> DEFINE bat2 == [bat EXCEPT ![a] = <<>>]
           H == Held(bat)
           H2 == Held(bat2)
<1>1. bat2 \in [Actors -> Seq(Events)] /\ \A b \in Actors : Distinct(bat2[b])
  BY DistinctEmpty DEF Places
<1>2. H2[a] = {} /\ H[a] = Elems(bat[a]) /\ \A b \in Actors \ {a} : H2[b] = H[b]
  BY NoElems DEF Held, Places
<1>3. Spread(Elems(buf), H, Elems(sto), los, Upto(wro))
  BY DEF Places
<1>4. los \cup H[a] \in SUBSET Events
  BY <1>2 DEF Places, Elems
<1> HIDE DEF H, H2
<1>5. Spread(Elems(buf), H2, Elems(sto), los \cup H[a], Upto(wro))
  BY <1>2, <1>3 DEF Spread
<1> QED
  BY <1>1, <1>2, <1>4, <1>5 DEF Places, H2

LEMMA WritePlaces ==
  ASSUME PInv, NEW c \in Tasks, wrote[c] < MaxEvents
  PROVE  LET longer == Append(Kept, <<c, wrote[c] + 1>>)
         IN /\ Places(longer, batch, stored, lost \cup (Elems(buffer) \ Elems(Kept)),
                      [wrote EXCEPT ![c] = @ + 1])
            /\ Len(longer) <= BufferMax
<1> DEFINE e == <<c, wrote[c] + 1>>
           K == Elems(Kept)
           B == Elems(buffer)
           wro == [wrote EXCEPT ![c] = @ + 1]
<1>0. Places(buffer, batch, stored, lost, wrote)
  BY DEF PInv
<1>1. /\ Kept \in Seq(Events) /\ Distinct(Kept) /\ K \subseteq B
      /\ Len(Kept) \in Nat /\ Len(Kept) + 1 <= BufferMax
  BY <1>0, KeptFits DEF Places
<1>2. wro \in [Tasks -> 0 .. MaxEvents] /\ e \in Events /\ wrote[c] \in Nat /\ MaxEvents \in Nat
  BY <1>0, WriterAssumption DEF Places, Events
<1>3. Upto(wro) = Upto(wrote) \cup {e} /\ e \notin Upto(wrote)
  <2>1. \A d \in Tasks, n \in 1 .. MaxEvents :
          n <= wro[d] <=> n <= wrote[d] \/ (d = c /\ n = wrote[c] + 1)
    BY <1>0, <1>2 DEF Places
  <2>2. ~(wrote[c] + 1 <= wrote[c])
    BY <1>2
  <2> QED
    BY <1>2, <2>1, <2>2 DEF Upto, Events
<1>4. Spread(B, Held(batch), Elems(stored), lost, Upto(wrote))
  BY <1>0 DEF Places
<1>5. B \subseteq Events
  BY <1>0 DEF Places, Elems
<1> HIDE DEF e, K, B, wro
<1>6. e \notin K
  BY <1>1, <1>3, <1>4 DEF Spread
<1>7. /\ Append(Kept, e) \in Seq(Events) /\ Distinct(Append(Kept, e))
      /\ Elems(Append(Kept, e)) = K \cup {e} /\ Len(Append(Kept, e)) = Len(Kept) + 1
  BY <1>1, <1>2, <1>6, DistinctAppend DEF K
<1>8. Spread(K \cup {e}, Held(batch), Elems(stored), lost \cup (B \ K), Upto(wro))
  <2>1. Spread(K \cup {e}, Held(batch), Elems(stored), lost \cup (B \ K), Upto(wrote) \cup {e})
    BY <1>1, <1>3, <1>4 DEF Spread
  <2> QED
    BY <1>3, <2>1
<1>9. Places(Append(Kept, e), batch, stored, lost \cup (B \ K), wro)
  BY <1>0, <1>2, <1>5, <1>7, <1>8 DEF Places
<1> QED
  BY <1>1, <1>7, <1>9 DEF e, K, B, wro

-----------------------------------------------------------------------------
\* The steps.
LEMMA DisjointActors == \A t \in Timers : t \notin Tasks
  BY WriterAssumption DEF Timers

\* A step in which no event moves.
LEMMA StillPlaces ==
  ASSUME PInv, UNCHANGED <<buffer, batch, stored, lost, wrote>>
  PROVE  Places(buffer, batch, stored, lost, wrote)' /\ (Len(buffer) <= BufferMax)'
<1> QED
  BY DEF PInv, Places

\* A batch ends in MongoDB or is lost.
LEMMA EndedPlaces ==
  ASSUME PInv, NEW a \in Actors, Store(a) \/ Lose(a), batch' = [batch EXCEPT ![a] = <<>>],
         UNCHANGED <<buffer, wrote>>
  PROVE  Places(buffer, batch, stored, lost, wrote)' /\ (Len(buffer) <= BufferMax)'
<1>0. Places(buffer, batch, stored, lost, wrote) /\ Len(buffer) <= BufferMax
  BY DEF PInv
<1>1. CASE Store(a)
  <2>1. stored' = stored \o batch[a] /\ lost' = lost
    BY <1>1 DEF Store, Pushed
  <2> QED
    BY <1>0, <2>1, StorePlaces DEF Places
<1>2. CASE Lose(a)
  <2>1. lost' = lost \cup Elems(batch[a]) /\ stored' = stored
    BY <1>2 DEF Lose
  <2> QED
    BY <1>0, <2>1, LosePlaces DEF Places
<1> QED
  BY <1>1, <1>2

\* A batch is taken.
LEMMA TakenPlaces ==
  ASSUME PInv, NEW a \in Actors, batch[a] = <<>>, NEW buf, NEW los, NEW wro,
         Places(buf, batch, stored, los, wro), Take(a, buf),
         stored' = stored, lost' = los, wrote' = wro
  PROVE  Places(buffer, batch, stored, lost, wrote)' /\ (Len(buffer) <= BufferMax)'
<1>1. batch' = [batch EXCEPT ![a] = buf] /\ buffer' = <<>>
  BY DEF Take, Left
<1>2. Places(<<>>, [batch EXCEPT ![a] = buf], stored, los, wro)
  BY TakePlaces
<1>3. Len(<<>>) <= BufferMax
  BY WriterAssumption
<1> QED
  BY <1>1, <1>2, <1>3

\* What a batch's writer does leaves the other batches alone.
LEMMA TaskIdle ==
  ASSUME PInv, NEW c \in Tasks, NEW buf, batch' = [batch EXCEPT ![c] = buf],
         timer' = timer, NEW how, pc' = [pc EXCEPT ![c] = how], buf # <<>> => how = "writing"
  PROVE  Idle'
<1>1. batch \in [Actors -> Seq(Events)] /\ pc \in [Tasks -> {"idle", "draining", "writing", "handling"}]
      /\ c \in Actors
  BY DEF PInv, Places, Fields, Actors
<1>2. batch'[c] = buf /\ \A a \in Actors \ {c} : batch'[a] = batch[a]
  BY <1>1
<1>3. pc'[c] = how /\ \A d \in Tasks \ {c} : pc'[d] = pc[d]
  BY <1>1
<1>4. Idle
  BY DEF PInv
<1> QED
  BY <1>2, <1>3, <1>4, DisjointActors DEF Idle, Actors

LEMMA TimerIdle ==
  ASSUME PInv, NEW t \in Timers, NEW buf, batch' = [batch EXCEPT ![t] = buf],
         pc' = pc, NEW how, timer' = [timer EXCEPT ![t] = how], buf # <<>> => how = "writing"
  PROVE  Idle'
<1>1. /\ batch \in [Actors -> Seq(Events)] /\ t \in Actors
      /\ timer \in [Timers -> {"unborn", "created", "sleeping", "writing", "done", "killed"}]
  BY DEF PInv, Places, Fields, Actors
<1>2. batch'[t] = buf /\ \A a \in Actors \ {t} : batch'[a] = batch[a]
  BY <1>1
<1>3. timer'[t] = how /\ \A s \in Timers \ {t} : timer'[s] = timer[s]
  BY <1>1
<1>4. Idle
  BY DEF PInv
<1> QED
  BY <1>2, <1>3, <1>4, DisjointActors DEF Idle, Actors

\* A forced flush takes buf, or leaves it and waits for the timer.
LEMMA FlushPlaces ==
  ASSUME PInv, NEW c \in Tasks, pc[c] \in {"idle", "handling"}, NEW buf, NEW drop, Flush(c, buf, drop),
         Places(buf, batch, stored, lost \cup drop, wrote'), Len(buf) <= BufferMax
  PROVE  PInv'
<1>0. Fields /\ Idle /\ c \in Actors /\ batch[c] = <<>>
  BY DEF PInv, Idle, Actors
<1>1. owed' \in [Tasks -> SUBSET Events]
  <2>1. Elems(buf) \in SUBSET Events
    BY DEF Places, Elems
  <2> QED
    BY <1>0, <2>1 DEF Flush, Fields
<1>2. CASE current = NoTimer
  <2>1. /\ Take(c, buf) /\ UNCHANGED <<awaits, forces, doomed, current, waiting, timer, stored, cancelled>>
        /\ pc' = [pc EXCEPT ![c] = IF buf = <<>> THEN "idle" ELSE "writing"] /\ lost' = lost \cup drop
    BY <1>2 DEF Flush
  <2>2. batch' = [batch EXCEPT ![c] = buf] /\ ready' \in BOOLEAN
    BY <1>0, <2>1 DEF Take, Fields, ReadyIfEmpty
  <2>3. Fields'
    BY <1>0, <1>1, <2>1, <2>2 DEF Fields
  <2>4. Idle'
    BY <2>1, <2>2, TaskIdle
  <2>5. Places(buffer, batch, stored, lost, wrote)' /\ (Len(buffer) <= BufferMax)'
    BY <1>0, <2>1, TakenPlaces
  <2> QED
    BY <2>3, <2>4, <2>5 DEF PInv
<1>3. CASE current # NoTimer
  <2>1. /\ UNCHANGED <<batch, ready, current, waiting, timer, stored, cancelled>> /\ buffer' = buf
        /\ pc' = [pc EXCEPT ![c] = "draining"] /\ awaits' = [awaits EXCEPT ![c] = current]
        /\ forces' = [forces EXCEPT ![c] = waiting] /\ lost' = lost \cup drop
        /\ doomed' = IF waiting THEN doomed \cup {current} ELSE doomed
    BY <1>3 DEF Flush
  <2>2. doomed' \in SUBSET Timers
    BY <1>0, <1>3, <2>1 DEF Fields
  <2>3. forces' \in [Tasks -> BOOLEAN] /\ awaits' \in [Tasks -> Timers \cup {NoTimer}]
        /\ pc' \in [Tasks -> {"idle", "draining", "writing", "handling"}]
    BY <1>0, <2>1 DEF Fields
  <2>4. Fields'
    BY <1>0, <1>1, <2>1, <2>2, <2>3 DEF Fields
  <2>5. Idle'
    <3>1. batch' = [batch EXCEPT ![c] = <<>>]
      BY <1>0, <2>1 DEF PInv, Places
    <3> QED
      BY <2>1, <3>1, TaskIdle
  <2>6. Places(buffer, batch, stored, lost, wrote)'
    BY <2>1
  <2> QED
    BY <2>1, <2>4, <2>5, <2>6 DEF PInv
<1> QED
  BY <1>2, <1>3

LEMMA WriteKeepsPlaces ==
  ASSUME PInv, NEW c \in Tasks, WriteEvent(c)
  PROVE  PInv'
<1> DEFINE longer == Append(Kept, <<c, wrote[c] + 1>>)
           dropped == Elems(buffer) \ Elems(Kept)
<1>0. Fields /\ Idle
  BY DEF PInv
<1>1. pc[c] = "idle" /\ wrote[c] < MaxEvents /\ wrote' = [wrote EXCEPT ![c] = @ + 1]
  BY DEF WriteEvent
<1>2. Places(longer, batch, stored, lost \cup dropped, wrote') /\ Len(longer) <= BufferMax
  BY <1>1, WritePlaces
<1>3. CASE Flush(c, longer, dropped)
  <2> HIDE DEF longer, dropped
  <2> QED
    BY <1>1, <1>2, <1>3, FlushPlaces
<1>4. CASE /\ buffer' = longer /\ lost' = lost \cup dropped
           /\ \/ /\ ready' = FALSE
                 /\ \E t \in Timers : /\ timer[t] = "unborn" /\ current' = t
                                      /\ timer' = [timer EXCEPT ![t] = "created"]
              \/ UNCHANGED <<ready, timer, current>>
           /\ UNCHANGED <<waiting, doomed, callers, batch, stored, owed>>
  <2> HIDE DEF longer, dropped
  <2>1. Places(buffer, batch, stored, lost, wrote)' /\ (Len(buffer) <= BufferMax)'
    BY <1>2, <1>4
  <2>2. /\ ready' \in BOOLEAN /\ current' \in Timers \cup {NoTimer}
        /\ timer' \in [Timers -> {"unborn", "created", "sleeping", "writing", "done", "killed"}]
        /\ \A t \in Timers : timer'[t] = timer[t] \/ timer[t] = "unborn"
    BY <1>0, <1>4 DEF Fields
  <2>3. Fields'
    BY <1>0, <1>4, <2>2 DEF Fields, callers
  <2>4. Idle'
    BY <1>0, <1>4, <2>2 DEF Idle, callers
  <2> QED
    BY <2>1, <2>3, <2>4 DEF PInv
<1> QED
  BY <1>3, <1>4 DEF WriteEvent

LEMMA ResumeKeepsPlaces ==
  ASSUME PInv, NEW c \in Tasks, Resume(c)
  PROVE  PInv'
<1>0. Fields /\ Idle /\ c \in Actors /\ Places(buffer, batch, stored, lost, wrote)
  BY DEF PInv, Actors
<1>1. /\ awaits' = [awaits EXCEPT ![c] = NoTimer] /\ forces' = [forces EXCEPT ![c] = FALSE]
      /\ UNCHANGED <<current, waiting, timer, doomed, cancelled, stored, lost, wrote, owed>>
      /\ pc[c] = "draining"
  BY DEF Resume, timed
<1>2. batch[c] = <<>>
  BY <1>0, <1>1 DEF Idle
<1>3. awaits' \in [Tasks -> Timers \cup {NoTimer}] /\ forces' \in [Tasks -> BOOLEAN]
  BY <1>0, <1>1 DEF Fields
<1>4. CASE TakesOver(c)
  <2>1. Take(c, buffer) /\ pc' = [pc EXCEPT ![c] = IF buffer = <<>> THEN "idle" ELSE "writing"]
    BY <1>4 DEF Resume
  <2>2. batch' = [batch EXCEPT ![c] = buffer] /\ ready' \in BOOLEAN
    BY <1>0, <2>1 DEF Take, Fields, ReadyIfEmpty
  <2>3. Fields'
    BY <1>0, <1>1, <1>3, <2>1, <2>2 DEF Fields
  <2>4. Idle'
    BY <1>1, <2>1, <2>2, TaskIdle
  <2>5. Places(buffer, batch, stored, lost, wrote)' /\ (Len(buffer) <= BufferMax)'
    BY <1>0, <1>1, <1>2, <2>1, TakenPlaces
  <2> QED
    BY <2>3, <2>4, <2>5 DEF PInv
<1>5. CASE ~TakesOver(c)
  <2>1. pc' = [pc EXCEPT ![c] = "idle"] /\ UNCHANGED <<batch, buffer, ready>>
    BY <1>5 DEF Resume
  <2>2. Fields'
    BY <1>0, <1>1, <1>3, <2>1 DEF Fields
  <2>3. Idle'
    <3>1. batch' = [batch EXCEPT ![c] = <<>>]
      BY <1>0, <1>2, <2>1 DEF Places
    <3> QED
      BY <1>1, <2>1, <3>1, TaskIdle
  <2>4. Places(buffer, batch, stored, lost, wrote)' /\ (Len(buffer) <= BufferMax)'
    BY <1>1, <2>1, StillPlaces
  <2> QED
    BY <2>2, <2>3, <2>4 DEF PInv
<1> QED
  BY <1>4, <1>5

LEMMA FinishKeepsPlaces ==
  ASSUME PInv, NEW c \in Tasks, Finish(c)
  PROVE  PInv'
<1>0. Fields /\ c \in Actors
  BY DEF PInv, Actors
<1>1. /\ Store(c) \/ Lose(c)
      /\ batch' = [batch EXCEPT ![c] = <<>>] /\ ready' = TRUE /\ pc' = [pc EXCEPT ![c] = "idle"]
      /\ UNCHANGED <<buffer, current, waiting, timer, doomed, awaits, forces, cancelled, wrote, owed>>
  BY DEF Finish, Written, timed
<1>2. Fields'
  BY <1>0, <1>1 DEF Fields
<1>3. Idle'
  BY <1>1, TaskIdle
<1>4. Places(buffer, batch, stored, lost, wrote)' /\ (Len(buffer) <= BufferMax)'
  BY <1>0, <1>1, EndedPlaces
<1> QED
  BY <1>2, <1>3, <1>4 DEF PInv

LEMMA CancelKeepsPlaces ==
  ASSUME PInv, IInv, NEW c \in Tasks, Cancel(c)
  PROVE  PInv'
<1>0. Fields /\ Idle /\ c \in Actors /\ Places(buffer, batch, stored, lost, wrote)
  BY DEF PInv, Actors
<1>1. /\ cancelled' = cancelled \cup {c}
      /\ UNCHANGED <<buffer, ready, current, waiting, timer, awaits, wrote, owed>>
  BY DEF Cancel
<1>2. CASE pc[c] = "idle" /\ pc' = [pc EXCEPT ![c] = "handling"] /\ UNCHANGED <<forces, doomed, batch, stored, lost>>
  <2>1. Fields'
    BY <1>0, <1>1, <1>2 DEF Fields
  <2>2. batch' = [batch EXCEPT ![c] = <<>>]
    BY <1>0, <1>2 DEF Idle, Places
  <2>3. Idle'
    BY <1>1, <1>2, <2>2, TaskIdle
  <2>4. Places(buffer, batch, stored, lost, wrote)' /\ (Len(buffer) <= BufferMax)'
    BY <1>1, <1>2, StillPlaces
  <2> QED
    BY <2>1, <2>3, <2>4 DEF PInv
<1>3. CASE /\ Store(c) \/ Lose(c)
           /\ batch' = [batch EXCEPT ![c] = <<>>] /\ pc' = [pc EXCEPT ![c] = "handling"]
           /\ UNCHANGED <<forces, doomed>>
  <2>1. Fields'
    BY <1>0, <1>1, <1>3 DEF Fields
  <2>2. Idle'
    BY <1>1, <1>3, TaskIdle
  <2>3. Places(buffer, batch, stored, lost, wrote)' /\ (Len(buffer) <= BufferMax)'
    BY <1>0, <1>1, <1>3, EndedPlaces
  <2> QED
    BY <2>1, <2>2, <2>3 DEF PInv
<1>4. CASE /\ doomed' = IF Alive(awaits[c]) THEN doomed \cup {awaits[c]} ELSE doomed
           /\ pc[c] = "draining" /\ forces' = [forces EXCEPT ![c] = TRUE]
           /\ UNCHANGED <<pc, batch, stored, lost>>
  <2>1. awaits[c] \in Timers
    BY <1>0, <1>4 DEF Fields, IInv, Timed
  <2>2. Fields'
    BY <1>0, <1>1, <1>4, <2>1 DEF Fields
  <2>3. Idle'
    BY <1>0, <1>1, <1>4 DEF Idle
  <2>4. Places(buffer, batch, stored, lost, wrote)' /\ (Len(buffer) <= BufferMax)'
    BY <1>1, <1>4, StillPlaces
  <2> QED
    BY <2>2, <2>3, <2>4 DEF PInv
<1> QED
  BY <1>2, <1>3, <1>4 DEF Cancel

\* A timed flush sleeps, wakes and takes the buffer, writes, or is cancelled.
LEMMA TimerKeepsPlaces ==
  ASSUME PInv, NEW t \in Timers, TimerStep(t)
  PROVE  PInv'
<1>0. Fields /\ Idle /\ t \in Actors /\ Places(buffer, batch, stored, lost, wrote)
  BY DEF PInv, Actors
<1>1. UNCHANGED <<pc, awaits, forces, cancelled, wrote, owed>>
  BY DEF TimerStep, TimerSleeps, TimerWakes, TimerWrote, TimerKilled, callers
<1>2. waiting' \in BOOLEAN /\ ready' \in BOOLEAN /\ doomed' \in SUBSET Timers
  BY <1>0 DEF TimerStep, TimerSleeps, TimerWakes, TimerWrote, TimerKilled, Take, ReadyIfEmpty, Written, Fields
<1>3. ASSUME NEW how \in {"done", "killed"}, Ends(t, how)
      PROVE  timer' = [timer EXCEPT ![t] = how] /\ current' \in Timers \cup {NoTimer}
  BY <1>0, <1>3 DEF Ends, Fields
<1>4. ASSUME NEW how \in {"sleeping", "writing", "done", "killed"}, timer' = [timer EXCEPT ![t] = how],
             current' \in Timers \cup {NoTimer}
      PROVE  Fields'
  <2>1. timer' \in [Timers -> {"unborn", "created", "sleeping", "writing", "done", "killed"}]
    BY <1>0, <1>4 DEF Fields
  <2> QED
    BY <1>0, <1>1, <1>2, <1>4, <2>1 DEF Fields
<1>5. CASE TimerSleeps(t)
  <2>1. /\ timer[t] = "created" /\ timer' = [timer EXCEPT ![t] = "sleeping"] /\ current' = current
        /\ UNCHANGED <<buffer, batch, stored, lost>>
    BY <1>5 DEF TimerSleeps
  <2>2. Fields'
    BY <1>0, <1>4, <2>1 DEF Fields
  <2>3. batch' = [batch EXCEPT ![t] = <<>>]
    BY <1>0, <2>1 DEF Idle, Places
  <2>4. Idle'
    BY <1>1, <2>1, <2>3, TimerIdle
  <2>5. Places(buffer, batch, stored, lost, wrote)' /\ (Len(buffer) <= BufferMax)'
    BY <1>1, <2>1, StillPlaces
  <2> QED
    BY <2>2, <2>4, <2>5 DEF PInv
<1>6. CASE TimerWakes(t)
  <2>1. timer[t] = "sleeping" /\ Take(t, buffer) /\ UNCHANGED <<stored, lost>>
    BY <1>6 DEF TimerWakes
  <2>2. batch[t] = <<>> /\ batch' = [batch EXCEPT ![t] = buffer]
    BY <1>0, <2>1 DEF Idle, Take
  <2>3. PICK how \in {"done", "writing"} :
           /\ timer' = [timer EXCEPT ![t] = how] /\ current' \in Timers \cup {NoTimer}
           /\ buffer # <<>> => how = "writing"
    <3>1. CASE buffer = <<>>
      BY <1>3, <1>6, <3>1 DEF TimerWakes
    <3>2. CASE buffer # <<>>
      BY <1>0, <1>6, <3>2 DEF TimerWakes, Fields
    <3> QED
      BY <3>1, <3>2
  <2>4. Fields'
    BY <1>4, <2>3
  <2>5. Idle'
    BY <1>1, <2>2, <2>3, TimerIdle
  <2>6. Places(buffer, batch, stored, lost, wrote)' /\ (Len(buffer) <= BufferMax)'
    BY <1>0, <1>1, <2>1, <2>2, TakenPlaces
  <2> QED
    BY <2>4, <2>5, <2>6 DEF PInv
<1>7. CASE TimerWrote(t) \/ TimerKilled(t)
  <2>1. PICK how \in {"done", "killed"} : Ends(t, how)
    BY <1>7 DEF TimerWrote, TimerKilled
  <2>2. /\ Store(t) \/ Lose(t)
        /\ batch' = [batch EXCEPT ![t] = <<>>] /\ buffer' = buffer
    BY <1>7 DEF TimerWrote, TimerKilled, Written
  <2>3. timer' = [timer EXCEPT ![t] = how] /\ current' \in Timers \cup {NoTimer}
    BY <1>3, <2>1
  <2>4. Fields'
    BY <1>4, <2>3
  <2>5. Idle'
    BY <1>1, <2>2, <2>3, TimerIdle
  <2>6. Places(buffer, batch, stored, lost, wrote)' /\ (Len(buffer) <= BufferMax)'
    BY <1>0, <1>1, <2>2, EndedPlaces
  <2> QED
    BY <2>4, <2>5, <2>6 DEF PInv
<1> QED
  BY <1>5, <1>6, <1>7 DEF TimerStep

-----------------------------------------------------------------------------
\* Every event is somewhere, in every reachable state.
LEMMA PlacesHold == Spec => []PInv
<1>1. Init => PInv
  <2> SUFFICES ASSUME Init PROVE PInv
    OBVIOUS
  <2>1. Fields
    <3>1. owed \in [Tasks -> SUBSET Events]
      BY DEF Init
    <3>2. pc \in [Tasks -> {"idle", "draining", "writing", "handling"}] /\ doomed \in SUBSET Timers
          /\ cancelled \in SUBSET Tasks
      BY DEF Init
    <3> QED
      BY <3>1, <3>2 DEF Init, Fields
  <2>2. /\ buffer = <<>> /\ stored = <<>> /\ lost = {} /\ wrote = [c \in Tasks |-> 0]
        /\ batch = [a \in Actors |-> <<>>]
    BY DEF Init, Actors
  <2>3. Idle
    BY <2>2 DEF Idle, Actors
  <2>4. Held(batch) = [a \in Actors |-> {}] /\ batch \in [Actors -> Seq(Events)]
        /\ \A a \in Actors : Distinct(batch[a])
    BY <2>2, DistinctEmpty DEF Held
  <2>5. Upto(wrote) = {}
    BY <2>2 DEF Upto, Events
  <2>6. Spread({}, Held(batch), {}, {}, {})
    BY <2>4 DEF Spread
  <2>7. wrote \in [Tasks -> 0 .. MaxEvents] /\ lost \in SUBSET Events
    BY <2>2, WriterAssumption
  <2>8. Places(buffer, batch, stored, lost, wrote)
    BY <2>2, <2>4, <2>5, <2>6, <2>7, DistinctEmpty DEF Places
  <2>9. Len(buffer) <= BufferMax
    BY <2>2, WriterAssumption
  <2> QED
    BY <2>1, <2>3, <2>8, <2>9 DEF PInv
<1>2. PInv /\ IInv /\ [Next]_vars => PInv'
  <2> SUFFICES ASSUME PInv, IInv, [Next]_vars PROVE PInv'
    OBVIOUS
  <2>1. CASE UNCHANGED vars
    <3>1. Fields' /\ Idle'
      BY <2>1 DEF PInv, Fields, Idle, vars, timed, callers
    <3>2. UNCHANGED <<buffer, batch, stored, lost, wrote>>
      BY <2>1 DEF vars
    <3> QED
      BY <3>1, <3>2, StillPlaces DEF PInv
  <2>2. ASSUME NEW c \in Tasks, CallFlush(c) PROVE PInv'
    <3>1. pc[c] \in {"idle", "handling"} /\ Flush(c, buffer, {}) /\ wrote' = wrote
      BY <2>2 DEF CallFlush
    <3>2. Places(buffer, batch, stored, lost \cup {}, wrote') /\ Len(buffer) <= BufferMax
      BY <3>1 DEF PInv, Places
    <3> QED
      BY <3>1, <3>2, FlushPlaces
  <2> QED
    BY <2>1, <2>2, WriteKeepsPlaces, ResumeKeepsPlaces, FinishKeepsPlaces, CancelKeepsPlaces,
       TimerKeepsPlaces DEF Next, TaskStep
<1> QED
  BY <1>1, <1>2, InvariantHolds, PTL DEF Spec

\* The writer's fields, its tasks and its timers keep their types, and the
\* buffer its bound, for any sizes and numbers of events (write_event).
THEOREM WriterTypes == Spec => []TypeOK
<1>1. PInv => TypeOK
  BY DEF PInv, Fields, Places, Actors, TypeOK
<1> QED
  BY <1>1, PlacesHold, PTL

\* How often an event is in a sequence without repetition.
LEMMA TimesOnce ==
  ASSUME NEW s, NEW e, Distinct(s)
  PROVE  Times(e, s) = IF e \in Elems(s) THEN 1 ELSE 0
<1> DEFINE at == {i \in DOMAIN s : s[i] = e}
<1>1. CASE e \in Elems(s)
  <2>1. PICK i \in DOMAIN s : s[i] = e
    BY <1>1 DEF Elems
  <2>2. at = {i}
    BY <2>1 DEF Distinct
  <2> QED
    BY <1>1, <2>2, FS_Singleton DEF Times
<1>2. CASE e \notin Elems(s)
  <2>1. at = {}
    BY <1>2 DEF Elems
  <2> QED
    BY <1>2, <2>1, FS_EmptySet DEF Times
<1> QED
  BY <1>1, <1>2

\* Whatever timers, forced flushes, overflows and cancellations are interleaved,
\* an event is in exactly one place: the buffer, one batch, MongoDB, or among
\* the lost ones (write_event, _do_flush).
THEOREM EventsInOnePlace == Spec => []OnePlace
<1>1. PInv => OnePlace
  <2> SUFFICES ASSUME PInv, NEW c \in Tasks, NEW n \in 1 .. wrote[c]
               PROVE  LET e == <<c, n>>
                          batched == {a \in Timers \cup Tasks : e \in Elems(batch[a])}
                      IN /\ Times(e, buffer) + Times(e, stored) + Cardinality(batched)
                              + (IF e \in lost THEN 1 ELSE 0) = 1
                         /\ \A a \in batched : Times(e, batch[a]) = 1
    BY DEF OnePlace
  <2> DEFINE e == <<c, n>>
             batched == {a \in Timers \cup Tasks : e \in Elems(batch[a])}
             H == Held(batch)
  <2>1. Places(buffer, batch, stored, lost, wrote)
    BY DEF PInv
  <2>2. e \in Upto(wrote)
    BY <2>1, WriterAssumption DEF Places, Upto, Events
  <2>3. Spread(Elems(buffer), H, Elems(stored), lost, Upto(wrote))
    BY <2>1 DEF Places
  <2>4. batched = {a \in Actors : e \in H[a]}
    BY DEF Held, Actors
  <2>5. Times(e, buffer) = (IF e \in Elems(buffer) THEN 1 ELSE 0)
        /\ Times(e, stored) = (IF e \in Elems(stored) THEN 1 ELSE 0)
        /\ \A a \in batched : Times(e, batch[a]) = 1
    BY <2>1, TimesOnce DEF Places, Actors
  <2> HIDE DEF e, batched, H
  <2>6. CASE batched = {}
    <3>1. Cardinality(batched) = 0
      BY <2>6, FS_EmptySet
    <3>2. e \in Elems(buffer) \cup Elems(stored) \cup lost
      BY <2>2, <2>3, <2>4, <2>6 DEF Spread
    <3>3. Times(e, buffer) + Times(e, stored) + (IF e \in lost THEN 1 ELSE 0) = 1
      BY <2>3, <2>5, <3>2 DEF Spread
    <3> QED
      BY <2>5, <3>1, <3>3 DEF e, batched
  <2>7. ASSUME NEW a \in batched PROVE Cardinality(batched) = 1 /\ e \notin Elems(buffer) \cup Elems(stored) \cup lost
    <3>1. batched = {a}
      BY <2>3, <2>4, <2>7 DEF Spread
    <3>2. e \notin Elems(buffer) \cup Elems(stored) \cup lost
      BY <2>3, <2>4, <2>7 DEF Spread
    <3> QED
      BY <3>1, <3>2, FS_Singleton
  <2>8. CASE batched # {}
    <3>1. PICK a : a \in batched
      BY <2>8
    <3>2. Cardinality(batched) = 1 /\ e \notin Elems(buffer) \cup Elems(stored) \cup lost
      BY <2>7, <3>1
    <3> QED
      BY <2>5, <3>2 DEF e, batched
  <2> QED
    BY <2>6, <2>8
<1> QED
  BY <1>1, PlacesHold, PTL
=============================================================================
