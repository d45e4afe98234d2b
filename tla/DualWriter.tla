------------------------------ MODULE DualWriter ------------------------------
(***************************************************************************)
(* The MongoDB half of DualEventWriter (infra/session/dual_writer.py): run *)
(* tasks append their events to one buffer in the process, which timed and *)
(* forced flushes take and write in bulk.  The Redis half is a direct      *)
(* write per event and is left out.                                        *)
(*                                                                         *)
(* All of it runs on one asyncio loop: what lies between two awaits is one *)
(* step.  The bodies under _mongo_lock do not await, so the lock is never  *)
(* waited for.  Calling a coroutine does not suspend: a flush that has     *)
(* nothing to drain takes its batch in the step that calls it.             *)
(***************************************************************************)
EXTENDS Integers, Sequences, FiniteSets

CONSTANTS
  Tasks,        \* run tasks, each writing the events of one trace
  MaxEvents,    \* bound: events a task writes
  BatchSize,    \* _MONGO_BATCH_SIZE
  BufferMax,    \* _get_mongo_buffer_max()
  MaxTimers,    \* bound: timed flushes ever created
  MaxCancels,   \* bound: tasks that are cancelled
  Faults        \* {"fail"}: bulk_write may raise

ASSUME WriterAssumption ==
  /\ IsFiniteSet(Tasks) /\ Tasks \cap Nat = {}
  /\ MaxEvents \in Nat /\ MaxTimers \in Nat /\ MaxCancels \in Nat
  /\ BatchSize \in Nat \ {0} /\ BufferMax \in Nat \ {0}
  /\ Faults \subseteq {"fail"}

Timers == 1 .. MaxTimers
NoTimer == 0
Events == Tasks \X (1 .. MaxEvents)

VARIABLES
  buffer,    \* _mongo_buffer
  ready,     \* _flush_event.is_set()
  current,   \* _flush_task
  waiting,   \* _flush_task_waiting
  timer,     \* state of each _schedule_flush task
  doomed,    \* timers that were told to cancel and have not ended yet
  pc,        \* per task: where it is in a call
  awaits,    \* per task: the timer that its flush waits for
  forces,    \* per task: that await will raise CancelledError whatever the timer does
  batch,     \* per timer and task: the batch it is writing
  stored,    \* the events in MongoDB's traces, in the order they were pushed
  lost,      \* events dropped by an overflow, a failed write or a cancelled one
  wrote,     \* per task: events written so far
  cancelled, \* tasks that were cancelled
  owed       \* history: per task, what its flush found in the buffer

timed == <<current, waiting, timer, doomed>>
callers == <<pc, awaits, forces, cancelled>>
vars == <<buffer, ready, timed, callers, batch, stored, lost, wrote, owed>>

Alive(t) == timer[t] \in {"created", "sleeping", "writing"}
Elems(s) == {s[i] : i \in DOMAIN s}

Init ==
  /\ buffer = <<>> /\ ready = TRUE
  /\ current = NoTimer /\ waiting = FALSE
  /\ timer = [t \in Timers |-> "unborn"] /\ doomed = {}
  /\ pc = [c \in Tasks |-> "idle"] /\ awaits = [c \in Tasks |-> NoTimer]
  /\ forces = [c \in Tasks |-> FALSE]
  /\ batch = [a \in Timers \cup Tasks |-> <<>>]
  /\ stored = <<>> /\ lost = {}
  /\ wrote = [c \in Tasks |-> 0] /\ cancelled = {}
  /\ owed = [c \in Tasks |-> {}]

-----------------------------------------------------------------------------
(* _do_flush.                                                              *)

\* The batch leaves the buffer.  Mutant: it stays there too.
LeftAll(buf) == buf
Left(buf) == <<>>

\* With nothing to write the event is set at once.  Mutant: it is not.
ReadyUnset == ready
ReadyIfEmpty == TRUE

\* Actor a takes the batch out of buf.
Take(a, buf) ==
  /\ batch' = [batch EXCEPT ![a] = buf]
  /\ buffer' = Left(buf)
  /\ ready' = IF buf = <<>> THEN ReadyIfEmpty ELSE ready

\* bulk_write has pushed a's batch onto its traces.
Pushed(a) == stored \o batch[a]

\* a's bulk_write ends: applied, or not.
Store(a) == stored' = Pushed(a) /\ UNCHANGED lost
Lose(a) == lost' = lost \cup Elems(batch[a]) /\ UNCHANGED stored

\* The write returns, or raises (which is logged), and the event is set.
Written(a) ==
  /\ Store(a) \/ ("fail" \in Faults /\ Lose(a))
  /\ batch' = [batch EXCEPT ![a] = <<>>]
  /\ ready' = TRUE

-----------------------------------------------------------------------------
(* flush_mongo_buffer and _drain_scheduled_flush_task.                     *)

\* Task c flushes the events in buf: it waits for the timed flush, which it
\* cancels if one sleeps, or else takes them itself.
Flush(c, buf, drop) ==
  /\ lost' = lost \cup drop
  /\ owed' = [owed EXCEPT ![c] =
       IF current # NoTimer /\ timer[current] = "writing" THEN {} ELSE Elems(buf)]
  /\ IF current = NoTimer
       THEN /\ Take(c, buf)
            /\ pc' = [pc EXCEPT ![c] = IF buf = <<>> THEN "idle" ELSE "writing"]
            /\ UNCHANGED <<awaits, forces, doomed>>
       ELSE /\ pc' = [pc EXCEPT ![c] = "draining"]
            /\ awaits' = [awaits EXCEPT ![c] = current]
            /\ forces' = [forces EXCEPT ![c] = waiting]
            /\ doomed' = IF waiting THEN doomed \cup {current} ELSE doomed
            /\ buffer' = buf
            /\ UNCHANGED <<batch, ready>>
  /\ UNCHANGED <<current, waiting, timer, stored, cancelled>>

\* A drained timer that was cancelled has flushed nothing: the caller does.
\* Mutant: it returns.
NeverTakesOver(c) == FALSE
TakesOver(c) == forces[c] \/ timer[awaits[c]] = "killed"

\* The timer that c waited for has ended.
Resume(c) ==
  /\ pc[c] = "draining" /\ timer[awaits[c]] \in {"done", "killed"}
  /\ IF TakesOver(c)
       THEN /\ Take(c, buffer)
            /\ pc' = [pc EXCEPT ![c] = IF buffer = <<>> THEN "idle" ELSE "writing"]
       ELSE pc' = [pc EXCEPT ![c] = "idle"] /\ UNCHANGED <<batch, buffer, ready>>
  /\ awaits' = [awaits EXCEPT ![c] = NoTimer]
  /\ forces' = [forces EXCEPT ![c] = FALSE]
  /\ UNCHANGED <<timed, cancelled, stored, lost, wrote, owed>>

Finish(c) ==
  /\ pc[c] = "writing"
  /\ Written(c)
  /\ pc' = [pc EXCEPT ![c] = "idle"]
  /\ UNCHANGED <<buffer, timed, awaits, forces, cancelled, wrote, owed>>

\* A run task forces a flush: before it completes its trace, after its error
\* event, or in the handler of its cancellation.
CallFlush(c) ==
  /\ pc[c] \in {"idle", "handling"}
  /\ Flush(c, buffer, {})
  /\ UNCHANGED wrote

\* The part of a full buffer that is kept, the younger half.  Mutant: all of it.
KeptAll == buffer
Kept ==
  IF Len(buffer) < BufferMax THEN buffer
  ELSE SubSeq(buffer, Len(buffer) - BufferMax \div 2 + 1, Len(buffer))

\* write_event: append, then flush a full batch or start the timer.
WriteEvent(c) ==
  /\ pc[c] = "idle" /\ wrote[c] < MaxEvents
  /\ wrote' = [wrote EXCEPT ![c] = @ + 1]
  /\ LET longer == Append(Kept, <<c, wrote[c] + 1>>)
         dropped == Elems(buffer) \ Elems(Kept)
     IN \/ Len(longer) >= BatchSize /\ Flush(c, longer, dropped)
        \/ /\ Len(longer) < BatchSize
           /\ buffer' = longer /\ lost' = lost \cup dropped
           /\ \/ /\ ready
                 /\ ready' = FALSE
                 /\ \E t \in Timers :
                      /\ timer[t] = "unborn" /\ \A s \in 1 .. t - 1 : timer[s] # "unborn"
                      /\ timer' = [timer EXCEPT ![t] = "created"]
                      /\ current' = t
              \/ ~ready /\ UNCHANGED <<ready, timer, current>>
           /\ UNCHANGED <<waiting, doomed, callers, batch, stored, owed>>

-----------------------------------------------------------------------------
(* _schedule_flush: a timed flush is a task of its own.                    *)

TimerSleeps(t) ==
  /\ timer[t] = "created" /\ t \notin doomed
  /\ timer' = [timer EXCEPT ![t] = "sleeping"]
  /\ waiting' = TRUE
  /\ UNCHANGED <<buffer, ready, current, doomed, callers, batch, stored, lost, wrote, owed>>

\* When a timer ends, _on_flush_task_done forgets it if it is the current one.
Ends(t, how) ==
  /\ timer' = [timer EXCEPT ![t] = how]
  /\ current' = IF current = t THEN NoTimer ELSE current

\* All timers sleep equally long: they wake in the order they went to sleep.
TimerWakes(t) ==
  /\ timer[t] = "sleeping" /\ t \notin doomed
  /\ \A s \in 1 .. t - 1 : timer[s] # "sleeping" \/ s \in doomed
  /\ waiting' = FALSE
  /\ Take(t, buffer)
  /\ IF buffer = <<>>
       THEN Ends(t, "done")
       ELSE timer' = [timer EXCEPT ![t] = "writing"] /\ UNCHANGED current
  /\ UNCHANGED <<doomed, callers, stored, lost, wrote, owed>>

TimerWrote(t) ==
  /\ timer[t] = "writing" /\ t \notin doomed
  /\ Written(t)
  /\ Ends(t, "done")
  /\ UNCHANGED <<buffer, waiting, doomed, callers, wrote, owed>>

\* CancelledError reaches a timer; MongoDB may have applied its batch or not.
TimerKilled(t) ==
  /\ t \in doomed
  /\ waiting' = (waiting /\ timer[t] # "sleeping")
  /\ Store(t) \/ (timer[t] = "writing" /\ Lose(t))
  /\ batch' = [batch EXCEPT ![t] = <<>>]
  /\ Ends(t, "killed")
  /\ doomed' = doomed \ {t}
  /\ UNCHANGED <<buffer, ready, callers, wrote, owed>>

-----------------------------------------------------------------------------
(* Cancelling a run task: task.cancel() raises in it where it awaits.  A   *)
(* task that awaits a timer passes the cancellation on to the timer, and   *)
(* then takes the CancelledError for the timer's.                          *)

Cancel(c) ==
  /\ c \notin cancelled /\ Cardinality(cancelled) < MaxCancels
  /\ cancelled' = cancelled \cup {c}
  /\ \/ /\ pc[c] = "idle"
        /\ pc' = [pc EXCEPT ![c] = "handling"]
        /\ UNCHANGED <<forces, doomed, batch, stored, lost>>
     \/ /\ pc[c] = "writing"
        /\ Store(c) \/ Lose(c)
        /\ batch' = [batch EXCEPT ![c] = <<>>]
        /\ pc' = [pc EXCEPT ![c] = "handling"]
        /\ UNCHANGED <<forces, doomed>>
     \/ /\ pc[c] = "draining"
        /\ doomed' = IF Alive(awaits[c]) THEN doomed \cup {awaits[c]} ELSE doomed
        /\ forces' = [forces EXCEPT ![c] = TRUE]
        /\ UNCHANGED <<pc, batch, stored, lost>>
  /\ UNCHANGED <<buffer, ready, current, waiting, timer, awaits, wrote, owed>>

TaskStep(c) == WriteEvent(c) \/ CallFlush(c) \/ Resume(c) \/ Finish(c) \/ Cancel(c)
TimerStep(t) == TimerSleeps(t) \/ TimerWakes(t) \/ TimerWrote(t) \/ TimerKilled(t)

Next == (\E c \in Tasks : TaskStep(c)) \/ (\E t \in Timers : TimerStep(t))

\* The loop runs what is ready, sleeps and bulk writes end, and the handler of
\* a cancelled task goes on to its flush.
Fairness ==
  /\ \A t \in Timers : WF_vars(TimerStep(t))
  /\ \A c \in Tasks : /\ WF_vars(Resume(c)) /\ WF_vars(Finish(c))
                      /\ WF_vars(pc[c] = "handling" /\ CallFlush(c))

Spec == Init /\ [][Next]_vars
FairSpec == Spec /\ Fairness

-----------------------------------------------------------------------------
(* Properties.                                                             *)

\* Types of the writer's fields and of its tasks and timers; the buffer stays bounded.
TypeOK ==
  /\ buffer \in Seq(Events) /\ Len(buffer) <= BufferMax /\ ready \in BOOLEAN
  /\ current \in Timers \cup {NoTimer} /\ waiting \in BOOLEAN
  /\ timer \in [Timers -> {"unborn", "created", "sleeping", "writing", "done", "killed"}]
  /\ doomed \in SUBSET Timers
  /\ pc \in [Tasks -> {"idle", "draining", "writing", "handling"}]
  /\ awaits \in [Tasks -> Timers \cup {NoTimer}] /\ forces \in [Tasks -> BOOLEAN]
  /\ batch \in [Timers \cup Tasks -> Seq(Events)]
  /\ stored \in Seq(Events) /\ lost \in SUBSET Events
  /\ wrote \in [Tasks -> 0 .. MaxEvents] /\ cancelled \in SUBSET Tasks
  /\ owed \in [Tasks -> SUBSET Events]

Times(e, s) == Cardinality({i \in DOMAIN s : s[i] = e})

\* Whatever timers, forced flushes, overflows and cancellations are interleaved,
\* an event is in exactly one place: the buffer, one batch, MongoDB, or among
\* the lost ones (write_event, _do_flush).
OnePlace ==
  \A c \in Tasks : \A n \in 1 .. wrote[c] :
    LET e == <<c, n>>
        batched == {a \in Timers \cup Tasks : e \in Elems(batch[a])}
    IN /\ Times(e, buffer) + Times(e, stored) + Cardinality(batched)
            + (IF e \in lost THEN 1 ELSE 0) = 1
       /\ \A a \in batched : Times(e, batch[a]) = 1

\* A forced flush that did not find a timed write under way does not return
\* before everything it found in the buffer has left it (flush_mongo_buffer).
FlushTakes == \A c \in Tasks : pc[c] # "draining" => owed[c] \cap Elems(buffer) = {}

\* A clear event is set again: timed flushes never stop for good, whichever
\* flush is cancelled or finds its events taken by another (_do_flush).
ReadyAgain == ~ready ~> ready

\* As presenter_storage.complete says of its flush: all events are persisted.
FlushStores ==
  [][\A c \in Tasks : pc[c] \in {"draining", "writing"} /\ pc'[c] = "idle" =>
       \A n \in 1 .. wrote[c] : <<c, n>> \in Elems(stored') \cup lost']_vars

\* As the comment on _MONGO_FLUSH_INTERVAL says: the buffer is flushed every second.
BufferFlushed == \A e \in Events : e \in Elems(buffer) ~> e \notin Elems(buffer)
=============================================================================
