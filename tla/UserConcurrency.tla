-------------------------- MODULE UserConcurrency --------------------------
(***************************************************************************)
(* The per-user chat limiter (infra/task/concurrency.py) for one user who  *)
(* has a concurrency limit, with its callers: the chat and cancel routes,  *)
(* the end-of-task callback, the heartbeat, recovery and the queue cleanup *)
(* run when a worker starts.                                               *)
(*                                                                         *)
(* Redis holds a sorted set of active runs, a list of waiting runs and a   *)
(* mutex with a time to live.  Every key is the user's, so users do not    *)
(* interact.  One Redis command is one step; a Job is one asynchronous     *)
(* call into the limiter on some worker process, and pc[j] is the await it *)
(* has reached.  Time is abstracted: an entry that was not refreshed for   *)
(* HEARTBEAT_TIMEOUT leaves `active' (no reader ever counts it again), one *)
(* older than QUEUE_TIMEOUT is `aged', a mutex whose TTL ends is Free.     *)
(***************************************************************************)
EXTENDS Integers, Sequences, FiniteSets

CONSTANTS
  Runs, Sessions, SessionOf,   \* runs, and the chat session of each
  Jobs, Workers, HomeOf,       \* limiter calls, and the process of each
  MaxConcurrent, MaxQueued,    \* the user's role limits
  MaxAttempts,                 \* queue entries one release looks at (20)
  MaxCrashes, MaxCancels,      \* bounds on worker crashes and on cancel requests
  Oversized,                   \* runs whose entry exceeds QUEUE_ENTRY_MAX_BYTES
  ColdWorkers,                 \* workers that start without an executor
  Faults,                      \* which faults of the environment may happen
  Free, Orphan, NoRun

FaultKinds == {"timeout", "error", "age", "lapse", "slow", "rewrite"}

ASSUME LimiterAssumption ==
  /\ IsFiniteSet(Runs) /\ NoRun \notin Runs
  /\ SessionOf \in [Runs -> Sessions] /\ HomeOf \in [Jobs -> Workers]
  /\ MaxConcurrent \in Nat /\ MaxQueued \in Nat
  /\ MaxAttempts \in Nat /\ MaxCrashes \in Nat /\ MaxCancels \in Nat
  /\ Oversized \subseteq Runs /\ ColdWorkers \subseteq Workers
  /\ Faults \subseteq FaultKinds
  /\ Free \notin Jobs /\ Orphan \notin Jobs /\ Free # Orphan

VARIABLES
  lock,      \* chat:lock:{user}: the job whose token it holds, Free, or Orphan
  queue,     \* chat:queue:{user}
  active,    \* chat:active:{user}, the entries with a recent timestamp
  aged,      \* runs whose queue entry is older than QUEUE_TIMEOUT
  phase,     \* where each run is
  tasks,     \* per worker: the runs its task manager holds a task for
  info,      \* per worker: the runs its task manager knows the user of (_run_info)
  warm,      \* workers whose task manager has an executor
  crashes, cancels,  \* how many there have been
  pc, op, run,    \* per job: next step, operation, the run it is about
  pick,           \* per job: the run popped from the queue, or the run recovered
  cnt, tries,     \* per job: the count last read, entries popped
  todo, keep, gone,  \* per job: a queue rewrite in progress
  grace      \* history: why a live run is not on the books, if it is not

redis == <<lock, queue, active>>
bounds == <<crashes, cancels>>
rewrite == <<todo, keep, gone>>
locals == <<op, run, pick, cnt, tries, rewrite>>
vars == <<redis, aged, phase, tasks, info, warm, bounds, pc, locals, grace>>

Ops == {"none", "acquire", "recover", "release", "give_back", "cancel", "remove"}
Labels == {"idle", "lock", "inherit", "count", "decide", "push", "zrem", "pop",
           "check", "settle", "scan", "rescan", "unlock", "dispatch", "reply"}
\* The labels between taking the user mutex and giving it back.
Critical == {"inherit", "count", "decide", "push", "zrem", "pop", "check",
             "settle", "scan", "unlock"}
Phases == {"new", "asked", "admitted", "queued", "started", "running", "done",
           "closed", "rejected", "removed", "expired", "dropped", "crashed",
           "orphaned", "superseded"}
Graces == {"none", "failOpen", "released", "lapsed"}

Queued == {queue[i] : i \in DOMAIN queue}
Goto(j, l) == pc' = [pc EXCEPT ![j] = l]
Mark(r, ph) == phase' = [phase EXCEPT ![r] = ph]

Init ==
  /\ lock = Free /\ queue = <<>> /\ active = {} /\ aged = {}
  /\ phase = [r \in Runs |-> "new"]
  /\ tasks = [w \in Workers |-> {}]
  /\ info = [w \in Workers |-> {}]
  /\ warm = Workers \ ColdWorkers
  /\ crashes = 0 /\ cancels = 0
  /\ pc = [j \in Jobs |-> "idle"]
  /\ op = [j \in Jobs |-> "none"]
  /\ run = [j \in Jobs |-> NoRun]
  /\ pick = [j \in Jobs |-> NoRun]
  /\ cnt = [j \in Jobs |-> 0]
  /\ tries = [j \in Jobs |-> 0]
  /\ todo = [j \in Jobs |-> <<>>]
  /\ keep = [j \in Jobs |-> <<>>]
  /\ gone = [j \in Jobs |-> {}]
  /\ grace = [r \in Runs |-> "none"]

-----------------------------------------------------------------------------
(* The calls into the limiter.                                             *)

Call(j, o, r, l) ==
  /\ pc[j] = "idle"
  /\ op' = [op EXCEPT ![j] = o]
  /\ run' = [run EXCEPT ![j] = r]
  /\ Goto(j, l)

\* A chat request: chat_stream asks for a slot for a new run.
CallAcquire(j, r) ==
  /\ phase[r] = "new"
  /\ Call(j, "acquire", r, "lock")
  /\ Mark(r, "asked")
  /\ UNCHANGED <<redis, aged, tasks, info, warm, bounds, pick, cnt, tries, rewrite, grace>>

\* _on_task_done schedules the release on the worker that ran the task.
CallRelease(j, r) ==
  /\ phase[r] = "done" /\ r \in tasks[HomeOf[j]] \cap info[HomeOf[j]]
  /\ Call(j, "release", r, "lock")
  /\ Mark(r, "closed")
  /\ tasks' = [tasks EXCEPT ![HomeOf[j]] = @ \ {r}]
  /\ info' = [info EXCEPT ![HomeOf[j]] = @ \ {r}]
  /\ UNCHANGED <<redis, aged, warm, bounds, pick, cnt, tries, rewrite, grace>>

\* The user cancels.  A task on this worker has ended before the slot is
\* released, and is then looked for in the queue unless it had to be killed;
\* a task elsewhere is only told to stop.
CallCancel(j, r) ==
  /\ cancels < MaxCancels
  /\ \/ /\ phase[r] \in {"started", "running"} /\ r \in tasks[HomeOf[j]]
        /\ Mark(r, "done")
        /\ \E o \in {"cancel", "release"} : Call(j, o, r, "lock")
     \/ /\ \/ phase[r] = "queued"
           \/ phase[r] \in {"started", "running"} /\ r \notin tasks[HomeOf[j]]
        /\ Call(j, "cancel", r, "lock")
        /\ UNCHANGED phase
  /\ cancels' = cancels + 1
  /\ info' = [info EXCEPT ![HomeOf[j]] = @ \cup {r}]
  /\ UNCHANGED <<redis, aged, tasks, warm, crashes, pick, cnt, tries, rewrite, grace>>

\* submit_recovery_run: the session of a run that a crash ended, or whose entry
\* it took along, gets a new run.
CallRecover(j, old, r) ==
  /\ phase[old] = "crashed" \/ (phase[old] = "orphaned" /\ old \notin active)
  /\ phase[r] = "new"
  /\ SessionOf[old] = SessionOf[r]
  /\ Call(j, "recover", r, "lock")
  /\ pick' = [pick EXCEPT ![j] = old]
  /\ phase' = [phase EXCEPT ![old] = "superseded", ![r] = "asked"]
  /\ UNCHANGED <<redis, aged, tasks, info, warm, bounds, cnt, tries, rewrite, grace>>

\* replay_pending_queued_tasks when a worker starts again: a run found in the
\* queue is "released" so that the queue is looked at.
CallReplay(j, r) ==
  /\ crashes > 0 /\ phase[r] = "queued" /\ r \in Queued
  /\ Call(j, "release", r, "lock")
  /\ UNCHANGED <<redis, aged, phase, tasks, info, warm, bounds, pick, cnt, tries, rewrite, grace>>

\* _rewrite_queue_without_expired when a worker starts: the first pass finds an
\* expired entry; the second pass works without the user mutex.
CallRewrite(j) ==
  /\ "rewrite" \in Faults
  /\ Queued \cap aged # {}
  /\ Call(j, "remove", NoRun, "rescan")
  /\ todo' = [todo EXCEPT ![j] = queue]
  /\ keep' = [keep EXCEPT ![j] = <<>>]
  /\ gone' = [gone EXCEPT ![j] = {}]
  /\ UNCHANGED <<redis, aged, phase, tasks, info, warm, bounds, pick, cnt, tries, grace>>

-----------------------------------------------------------------------------
(* The user mutex.                                                         *)

FirstStep(j) ==
  CASE op[j] = "acquire" -> "count"
    [] op[j] = "recover" -> "inherit"
    [] op[j] = "remove"  -> "scan"
    [] OTHER             -> "zrem"

\* SET with NX.  Mutant: without NX.
AnyoneEnters == TRUE
MutexFree == lock = Free

Lock(j) ==
  /\ pc[j] = "lock" /\ MutexFree
  /\ lock' = j
  /\ Goto(j, FirstStep(j))
  /\ IF op[j] = "remove"
       THEN /\ todo' = [todo EXCEPT ![j] = queue]
            /\ keep' = [keep EXCEPT ![j] = <<>>]
            /\ gone' = [gone EXCEPT ![j] = {}]
       ELSE UNCHANGED rewrite
  /\ UNCHANGED <<queue, active, aged, phase, tasks, info, warm, bounds, op, run, pick, cnt, tries, grace>>

Return(j) ==
  /\ Goto(j, "idle")
  /\ op' = [op EXCEPT ![j] = "none"]
  /\ run' = [run EXCEPT ![j] = NoRun]

\* What a job does once its mutex section and its dispatch are over: the cancel
\* route goes on to remove_from_queue, acquire and recover answer their caller.
AfterSection(j) ==
  CASE op[j] \in {"acquire", "recover"} -> Goto(j, "reply") /\ UNCHANGED <<op, run>>
    [] op[j] = "cancel" -> /\ Goto(j, "lock") /\ op' = [op EXCEPT ![j] = "remove"]
                           /\ UNCHANGED run
    [] OTHER -> Return(j)

\* USER_LOCK_WAIT_SECONDS pass: acquire and recovery let the run start without
\* a slot (fail-open), every other operation logs the error and gives up.
LockTimeout(j) ==
  /\ "timeout" \in Faults
  /\ pc[j] = "lock" /\ lock # Free
  /\ IF op[j] \in {"acquire", "recover"}
       THEN /\ Mark(run[j], "admitted")
            /\ grace' = [grace EXCEPT ![run[j]] = "failOpen"]
            /\ pick' = [pick EXCEPT ![j] = NoRun]
       ELSE UNCHANGED <<phase, grace, pick>>
  /\ AfterSection(j)
  /\ UNCHANGED <<redis, aged, tasks, info, warm, bounds, cnt, tries, rewrite>>

\* A release that promoted an entry goes on to dispatch it.  Mutant: every
\* section does.
HandsOverAlways(j) == TRUE
HandsOver(j) == pick[j] # NoRun

\* _release_user_lock compares the token before it deletes the key.
Unlock(j) ==
  /\ pc[j] = "unlock"
  /\ lock' = IF lock = j THEN Free ELSE lock
  /\ IF HandsOver(j)
       THEN Goto(j, "dispatch") /\ UNCHANGED <<op, run>>
       ELSE AfterSection(j)
  /\ tries' = [tries EXCEPT ![j] = 0]
  /\ UNCHANGED <<queue, active, aged, phase, tasks, info, warm, bounds, pick, cnt, rewrite, grace>>

\* The key's TTL ends: always after its holder died, and under "slow" also
\* while a holder is still inside its section.
LockExpires ==
  /\ lock = Orphan \/ ("slow" \in Faults /\ lock # Free)
  /\ lock' = Free
  /\ UNCHANGED <<queue, active, aged, phase, tasks, info, warm, bounds, pc, locals, grace>>

-----------------------------------------------------------------------------
(* acquire and claim_recovery_slot.                                        *)

Alive == {"admitted", "queued", "started", "running"}

\* The history of a step that takes r's entry away: r is off the books if it
\* goes on without it.
OffBooks(r) ==
  IF r \in active /\ phase[r] \in Alive THEN [grace EXCEPT ![r] = "released"] ELSE grace

\* The entry of the recovered run goes over to the new one.  Mutant: the new
\* one is not made.
InheritedLost(j) == active \ {pick[j]}
Inherited(j) == (active \ {pick[j]}) \cup {run[j]}

\* The recovered run still has an entry: swap it, whatever the count.
Inherit(j) ==
  /\ pc[j] = "inherit"
  /\ pick' = [pick EXCEPT ![j] = NoRun]
  /\ IF pick[j] \in active
       THEN /\ active' = Inherited(j)
            /\ Mark(run[j], "admitted")
            /\ grace' = [OffBooks(pick[j]) EXCEPT ![run[j]] = grace[pick[j]]]
            /\ Goto(j, "unlock")
       ELSE Goto(j, "count") /\ UNCHANGED <<active, phase, grace>>
  /\ UNCHANGED <<lock, queue, aged, tasks, info, warm, bounds, op, run, cnt, tries, rewrite>>

\* _cleanup_stale_active and _get_active_count.
Count(j) ==
  /\ \/ pc[j] = "count" /\ Goto(j, "decide")
     \/ pc[j] = "check" /\ Goto(j, "settle")
  /\ cnt' = [cnt EXCEPT ![j] = Cardinality(active)]
  /\ UNCHANGED <<redis, aged, phase, tasks, info, warm, bounds, op, run, pick, tries, rewrite, grace>>

\* The admission test.
HasRoom(j) == cnt[j] < MaxConcurrent

Admit(j) ==
  /\ pc[j] = "decide" /\ HasRoom(j)
  /\ active' = active \cup {run[j]}
  /\ Mark(run[j], "admitted")
  /\ Goto(j, "unlock")
  /\ cnt' = [cnt EXCEPT ![j] = 0]
  /\ UNCHANGED <<lock, queue, aged, tasks, info, warm, bounds, op, run, pick, tries, rewrite, grace>>

\* _queue_task_locked: first the length, then the push.
Measure(j) ==
  /\ pc[j] = "decide" /\ ~HasRoom(j)
  /\ cnt' = [cnt EXCEPT ![j] = Len(queue)]
  /\ Goto(j, "push")
  /\ UNCHANGED <<redis, aged, phase, tasks, info, warm, bounds, op, run, pick, tries, rewrite, grace>>

Push(j) ==
  /\ pc[j] = "push" /\ cnt[j] < MaxQueued /\ run[j] \notin Oversized
  /\ queue' = Append(queue, run[j])
  /\ Mark(run[j], "queued")
  /\ Goto(j, "unlock")
  /\ cnt' = [cnt EXCEPT ![j] = 0]
  /\ UNCHANGED <<lock, active, aged, tasks, info, warm, bounds, op, run, pick, tries, rewrite, grace>>

Reject(j) ==
  /\ pc[j] = "push" /\ (cnt[j] >= MaxQueued \/ run[j] \in Oversized)
  /\ Mark(run[j], "rejected")
  /\ Goto(j, "unlock")
  /\ cnt' = [cnt EXCEPT ![j] = 0]
  /\ UNCHANGED <<redis, aged, tasks, info, warm, bounds, op, run, pick, tries, rewrite, grace>>

\* The caller acts on the answer: it makes sure this worker has an executor,
\* records whose run it is and hands an admitted run to the executor.
Reply(j) ==
  /\ pc[j] = "reply"
  /\ IF phase[run[j]] = "rejected"
       THEN UNCHANGED <<warm, info>>
       ELSE /\ warm' = warm \cup {HomeOf[j]}
            /\ info' = [info EXCEPT ![HomeOf[j]] = @ \cup {run[j]}]
  /\ IF phase[run[j]] = "admitted"
       THEN /\ Mark(run[j], "started")
            /\ tasks' = [tasks EXCEPT ![HomeOf[j]] = @ \cup {run[j]}]
       ELSE UNCHANGED <<phase, tasks>>
  /\ Return(j)
  /\ UNCHANGED <<redis, aged, bounds, pick, cnt, tries, rewrite, grace>>

\* submit raises: the chat route leaves the slot to expire, recovery gives it
\* back without looking at the queue.
ReplyFails(j) ==
  /\ "error" \in Faults
  /\ pc[j] = "reply" /\ phase[run[j]] = "admitted"
  /\ Mark(run[j], "dropped")
  /\ IF op[j] = "recover"
       THEN Goto(j, "lock") /\ op' = [op EXCEPT ![j] = "give_back"] /\ UNCHANGED run
       ELSE Return(j)
  /\ UNCHANGED <<redis, aged, tasks, info, warm, bounds, pick, cnt, tries, rewrite, grace>>

-----------------------------------------------------------------------------
(* release: give the slot up, then hand it to the next waiting run.        *)

\* A release looks for a waiting run, unless it is asked not to (dequeue=False).
\* Mutant: none looks.
AfterZremNothing(j) == "unlock"
AfterZrem(j) == IF op[j] = "give_back" THEN "unlock" ELSE "pop"

Zrem(j) ==
  /\ pc[j] = "zrem"
  /\ active' = active \ {run[j]}
  /\ grace' = OffBooks(run[j])
  /\ Goto(j, AfterZrem(j))
  /\ UNCHANGED <<lock, queue, aged, phase, tasks, info, warm, bounds, locals>>

\* LPOP.  Mutant: LINDEX.
Peeked == queue
Popped == Tail(queue)

\* One turn of the loop in _try_dequeue_next_locked: pop the head, discard it
\* when it waited too long.
Pop(j, r) ==
  /\ pc[j] = "pop" /\ tries[j] < MaxAttempts
  /\ queue # <<>> /\ r = Head(queue)
  /\ queue' = Popped
  /\ tries' = [tries EXCEPT ![j] = @ + 1]
  /\ IF r \in aged
       THEN /\ IF phase[r] = "queued" THEN Mark(r, "expired") ELSE UNCHANGED phase
            /\ UNCHANGED <<pc, pick>>
       ELSE /\ pick' = [pick EXCEPT ![j] = r]
            /\ Goto(j, "check")
            /\ UNCHANGED phase
  /\ UNCHANGED <<lock, active, aged, tasks, info, warm, bounds, op, run, cnt, rewrite, grace>>

PopNone(j) ==
  /\ pc[j] = "pop" /\ (queue = <<>> \/ tries[j] >= MaxAttempts)
  /\ Goto(j, "unlock")
  /\ UNCHANGED <<redis, aged, phase, tasks, info, warm, bounds, locals, grace>>

\* LPUSH.  Mutant: RPUSH.
PushedLast(j) == Append(queue, pick[j])
PushedBack(j) == <<pick[j]>> \o queue

\* No slot after all: the entry goes back to the front.
PutBack(j) ==
  /\ pc[j] = "settle" /\ ~HasRoom(j)
  /\ queue' = PushedBack(j)
  /\ pick' = [pick EXCEPT ![j] = NoRun]
  /\ Goto(j, "unlock")
  /\ cnt' = [cnt EXCEPT ![j] = 0]
  /\ UNCHANGED <<lock, active, aged, phase, tasks, info, warm, bounds, op, run, tries, rewrite, grace>>

Promote(j) ==
  /\ pc[j] = "settle" /\ HasRoom(j)
  /\ active' = active \cup {pick[j]}
  /\ Goto(j, "unlock")
  /\ cnt' = [cnt EXCEPT ![j] = 0]
  /\ UNCHANGED <<lock, queue, aged, phase, tasks, info, warm, bounds, op, run, pick, tries, rewrite, grace>>

\* _dispatch_queued_task, after the mutex is given back.
Dispatch(j) ==
  /\ pc[j] = "dispatch" /\ HomeOf[j] \in warm
  /\ Mark(pick[j], "started")
  /\ tasks' = [tasks EXCEPT ![HomeOf[j]] = @ \cup {pick[j]}]
  /\ pick' = [pick EXCEPT ![j] = NoRun]
  /\ grace' = IF pick[j] \in active THEN grace ELSE [grace EXCEPT ![pick[j]] = "released"]
  /\ AfterSection(j)
  /\ UNCHANGED <<redis, aged, info, warm, bounds, cnt, tries, rewrite>>

\* This worker has no executor, or dispatching raised: the slot is given up and
\* the popped entry is gone.
DispatchDrops(j) ==
  /\ pc[j] = "dispatch" /\ (HomeOf[j] \notin warm \/ "error" \in Faults)
  /\ active' = active \ {pick[j]}
  /\ Mark(pick[j], "dropped")
  /\ pick' = [pick EXCEPT ![j] = NoRun]
  /\ AfterSection(j)
  /\ UNCHANGED <<lock, queue, aged, tasks, info, warm, bounds, cnt, tries, rewrite, grace>>

-----------------------------------------------------------------------------
(* Rewriting the list: remove_from_queue (under the mutex, by session) and *)
(* _rewrite_queue_without_expired (without it, by age).                    *)

Unwanted(j, r) ==
  IF pc[j] = "scan" THEN SessionOf[r] = SessionOf[run[j]] ELSE r \in aged

\* An entry that stays goes to the rebuilt list.  Mutant: it does not.
KeptNothing(j, r) == keep[j]
Kept(j, r) == Append(keep[j], r)

Sift(j, r) ==
  /\ pc[j] \in {"scan", "rescan"} /\ todo[j] # <<>> /\ r = Head(todo[j])
  /\ todo' = [todo EXCEPT ![j] = Tail(@)]
  /\ IF Unwanted(j, r)
       THEN gone' = [gone EXCEPT ![j] = @ \cup {r}] /\ UNCHANGED keep
       ELSE keep' = [keep EXCEPT ![j] = Kept(j, r)] /\ UNCHANGED gone
  /\ UNCHANGED <<redis, aged, phase, tasks, info, warm, bounds, pc, op, run, pick, cnt, tries, grace>>

\* The sessions of the entries taken out are marked.
Told(j) ==
  [r \in Runs |-> IF r \in gone[j] /\ phase[r] = "queued"
                    THEN IF pc[j] = "scan" THEN "removed" ELSE "expired"
                    ELSE phase[r]]

\* RENAME of the rebuilt list over the queue (DEL when nothing is kept); the
\* sessions of what was dropped are then marked.
Swap(j) ==
  /\ pc[j] \in {"scan", "rescan"} /\ todo[j] = <<>>
  /\ queue' = IF pc[j] = "scan" /\ gone[j] = {} THEN queue ELSE keep[j]
  /\ phase' = Told(j)
  /\ IF pc[j] = "scan" THEN Goto(j, "unlock") /\ UNCHANGED <<op, run>> ELSE Return(j)
  /\ keep' = [keep EXCEPT ![j] = <<>>]
  /\ gone' = [gone EXCEPT ![j] = {}]
  /\ UNCHANGED <<lock, active, aged, tasks, info, warm, bounds, pick, cnt, tries, todo, grace>>

-----------------------------------------------------------------------------
(* Tasks, heartbeats, time and crashes.                                    *)

\* run_task starts the heartbeat; it records whose run it is when the trace has
\* been made and the message stored.
StartRun(r) ==
  /\ phase[r] = "started"
  /\ Mark(r, "running")
  /\ UNCHANGED <<redis, aged, tasks, info, warm, bounds, pc, locals, grace>>

Recorded(r) == \A w \in Workers : r \in tasks[w] => r \in info[w]

RecordRun(r) ==
  /\ phase[r] = "running" /\ ~Recorded(r)
  /\ info' = [w \in Workers |-> IF r \in tasks[w] THEN info[w] \cup {r} ELSE info[w]]
  /\ UNCHANGED <<redis, aged, phase, tasks, warm, bounds, pc, locals, grace>>

\* A heartbeat stops before its run ends.  Mutant: it goes on.
BeatingOn(r) == phase[r] \in {"running", "closed"}
Beating(r) == phase[r] = "running"

\* A heartbeat calls refresh: ZADD without the mutex and without a check.
Refresh(r) ==
  /\ Beating(r) /\ r \notin active
  /\ active' = active \cup {r}
  /\ UNCHANGED <<lock, queue, aged, phase, tasks, info, warm, bounds, pc, locals, grace>>

\* The task ends, for whatever reason, and its heartbeat is stopped; under
\* "error" also before run_task has recorded whose run it is: it fails, or a
\* cancel from another worker kills it.
FinishRun(r) ==
  /\ \/ phase[r] = "running" /\ Recorded(r)
     \/ phase[r] \in {"started", "running"} /\ "error" \in Faults
  /\ Mark(r, "done")
  /\ UNCHANGED <<redis, aged, tasks, info, warm, bounds, pc, locals, grace>>

\* _on_task_done for a run whose user is not known here: nothing is released.
CloseUnknown(w, r) ==
  /\ phase[r] = "done" /\ r \in tasks[w] \ info[w]
  /\ Mark(r, "closed")
  /\ tasks' = [tasks EXCEPT ![w] = @ \ {r}]
  /\ UNCHANGED <<redis, aged, info, warm, bounds, pc, locals, grace>>

\* QUEUE_TIMEOUT passes for a waiting entry.
Age(r) ==
  /\ "age" \in Faults /\ r \in Queued \ aged
  /\ aged' = aged \cup {r}
  /\ UNCHANGED <<redis, phase, tasks, info, warm, bounds, pc, locals, grace>>

\* HEARTBEAT_TIMEOUT passes without a refresh.  A running task refreshes in
\* time; one whose worker died or that has not begun yet does not.
SlotLapses(r) ==
  /\ r \in active /\ phase[r] # "running"
  /\ phase[r] \in Alive => "lapse" \in Faults
  /\ active' = active \ {r}
  /\ grace' = IF phase[r] \in Alive THEN [grace EXCEPT ![r] = "lapsed"] ELSE grace
  /\ UNCHANGED <<lock, queue, aged, phase, tasks, info, warm, bounds, pc, locals>>

\* A worker process dies and is restarted: its jobs, tasks, heartbeats and its
\* executor are gone, Redis is not.
Crash(w) ==
  /\ crashes < MaxCrashes
  /\ crashes' = crashes + 1
  /\ LET dead == {j \in Jobs : HomeOf[j] = w}
         carried == {pick[j] : j \in {d \in dead : pc[d] \in {"check", "settle", "unlock", "dispatch"}}}
         asked == {run[j] : j \in {d \in dead : op[d] \in {"acquire", "recover"} /\ pc[d] # "idle"}}
         Reset(f, v) == [j \in Jobs |-> IF j \in dead THEN v ELSE f[j]]
     IN /\ lock' = IF lock \in dead THEN Orphan ELSE lock
        /\ phase' = [r \in Runs |->
             CASE r \in asked /\ phase[r] \in {"asked", "admitted"} -> "dropped"
               [] r \in carried /\ phase[r] = "queued" -> "orphaned"
               [] r \in tasks[w] -> "crashed"
               [] OTHER -> phase[r]]
        /\ pc' = Reset(pc, "idle") /\ op' = Reset(op, "none")
        /\ run' = Reset(run, NoRun) /\ pick' = Reset(pick, NoRun)
        /\ cnt' = Reset(cnt, 0) /\ tries' = Reset(tries, 0)
        /\ todo' = Reset(todo, <<>>) /\ keep' = Reset(keep, <<>>)
        /\ gone' = Reset(gone, {})
  /\ tasks' = [tasks EXCEPT ![w] = {}]
  /\ info' = [info EXCEPT ![w] = {}]
  /\ warm' = warm \ {w}
  /\ UNCHANGED <<queue, active, aged, cancels, grace>>

Section(j) ==
  \/ Lock(j) \/ Unlock(j) \/ Inherit(j) \/ Count(j) \/ Admit(j) \/ Measure(j)
  \/ Push(j) \/ Reject(j) \/ Reply(j) \/ Zrem(j) \/ (\E r \in Runs : Pop(j, r))
  \/ PopNone(j) \/ PutBack(j) \/ Promote(j) \/ Dispatch(j) \/ DispatchDrops(j)
  \/ (\E r \in Runs : Sift(j, r)) \/ Swap(j)

JobStep(j) ==
  \/ \E r \in Runs : CallAcquire(j, r) \/ CallRelease(j, r) \/ CallCancel(j, r) \/ CallReplay(j, r)
  \/ \E old, r \in Runs : CallRecover(j, old, r)
  \/ CallRewrite(j) \/ LockTimeout(j) \/ ReplyFails(j) \/ Section(j)

RunStep(r) ==
  StartRun(r) \/ RecordRun(r) \/ Refresh(r) \/ FinishRun(r) \/ Age(r) \/ SlotLapses(r)

Next ==
  \/ \E j \in Jobs : JobStep(j)
  \/ \E r \in Runs : RunStep(r)
  \/ LockExpires
  \/ \E w \in Workers : Crash(w) \/ \E r \in Runs : CloseUnknown(w, r)

\* Event loops keep running the calls they have begun, tasks end (a run is
\* cancelled or fails if its model call does), a finished task's callback runs,
\* and Redis expires keys.  Nobody has to send, cancel, recover or crash.
Fairness ==
  /\ \A j \in Jobs : WF_vars(Section(j))
  /\ \A r \in Runs : /\ WF_vars(StartRun(r)) /\ WF_vars(RecordRun(r))
                     /\ WF_vars(FinishRun(r))
                     /\ WF_vars(\E j \in Jobs : CallRelease(j, r))
  /\ WF_vars(lock = Orphan /\ LockExpires)

Spec == Init /\ [][Next]_vars
FairSpec == Spec /\ Fairness

-----------------------------------------------------------------------------
(* Properties.                                                             *)

\* Types of the limiter's keys, of the runs' phases and of the jobs' locals.
TypeOK ==
  /\ lock \in Jobs \cup {Free, Orphan}
  /\ queue \in Seq(Runs) /\ active \in SUBSET Runs /\ aged \in SUBSET Runs
  /\ phase \in [Runs -> Phases] /\ tasks \in [Workers -> SUBSET Runs]
  /\ info \in [Workers -> SUBSET Runs]
  /\ warm \in SUBSET Workers /\ crashes \in 0..MaxCrashes /\ cancels \in 0..MaxCancels
  /\ pc \in [Jobs -> Labels] /\ op \in [Jobs -> Ops]
  /\ run \in [Jobs -> Runs \cup {NoRun}] /\ pick \in [Jobs -> Runs \cup {NoRun}]
  /\ cnt \in [Jobs -> Nat] /\ tries \in [Jobs -> Nat]
  /\ todo \in [Jobs -> Seq(Runs)] /\ keep \in [Jobs -> Seq(Runs)]
  /\ gone \in [Jobs -> SUBSET Runs]
  /\ grace \in [Runs -> Graces]

\* The runs whose slot the limiter still accounts for.
OnBooks == {r \in active : grace[r] = "none"}

\* At most MaxConcurrent runs hold a slot, whatever reads, pushes, releases,
\* cancellations, heartbeats, recoveries and crashes are interleaved.  The only
\* runs beyond the limit started without a slot (fail-open), had it released
\* while alive (cancel, replay), let their entry lapse, or recovered such a run
\* and took over its entry (acquire, release, claim_recovery_slot, refresh).
AdmissionBound == Cardinality(OnBooks) <= MaxConcurrent

\* A run that was told it is queued is in the list, or in the hands of the job
\* that popped it, until it is started, removed, expired or dropped.
Carried == {pick[j] : j \in {i \in Jobs : pc[i] \in {"check", "settle", "unlock", "dispatch"}}}
NoLostRun == \A r \in Runs : phase[r] = "queued" => r \in Queued \cup Carried

\* No entry is in the list twice, popped by two jobs, or in the list while its
\* run has been started, removed or has ended: a queued message runs once.
DispatchedOnce ==
  /\ \A i, k \in DOMAIN queue : queue[i] = queue[k] => i = k
  /\ \A r \in Queued : phase[r] = "queued" /\ r \notin Carried
  /\ \A i, j \in Jobs : pc[i] = "dispatch" /\ pc[j] = "dispatch" /\ pick[i] = pick[j] => i = j

\* A run whose task has ended has given its slot back, or is about to.
EndedRunsGiveBack ==
  \A r \in Runs : phase[r] = "closed" /\ r \in active =>
    \E j \in Jobs : op[j] = "release" /\ run[j] = r /\ pc[j] \in {"lock", "zrem"}

\* The line of the abstract pool: a job that popped the front entry and has not
\* settled where it goes still counts as the front of the line.
Settling == {j \in Jobs : pc[j] \in {"check", "settle"}}
Line == IF Settling = {} THEN queue ELSE <<pick[CHOOSE j \in Settling : TRUE]>> \o queue

Pool == INSTANCE SlotPool WITH
  waiting <- Line,
  holding <- OnBooks,
  answered <- {r \in Runs : phase[r] \notin {"new", "asked"}}

\* The limiter, whose decisions are spread over many Redis commands, behaves as
\* the atomic pool: bounded slots, no overtaking in the line, nothing served twice.
ImplementsSlotPool == Pool!Spec

\* A queued run does not wait for ever: it is started, removed or expires.
QueuedLeaves == \A r \in Runs : phase[r] = "queued" ~> phase[r] # "queued"

\* As kernel/schemas/role.py describes max_concurrent_chats: at most that many
\* chat tasks of the user are executing.
RunningWithinLimit == Cardinality({r \in Runs : phase[r] = "running"}) <= MaxConcurrent

\* As the header of concurrency.py says of queued entries: any worker can
\* dispatch them, so a popped entry is never given up.
AnyWorkerDispatches == \A r \in Runs : phase[r] # "dropped"

\* As cleanup_stale_queues says: it drops the entries that are too old, so a
\* younger entry is never lost.
CleanupDropsOnlyExpired == NoLostRun
=============================================================================
