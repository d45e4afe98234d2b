----------------------- MODULE UserConcurrencyProofs -----------------------
(***************************************************************************)
(* Proofs about UserConcurrency for any number of runs, workers, jobs and  *)
(* any limits: its types; that the limiter never hands out more than       *)
(* MaxConcurrent slots (AdmissionBound); that a run that was told it is    *)
(* queued is in the list or in the hands of the job that popped it         *)
(* (NoLostRun), and only once (DispatchedOnce); and that a run that ends   *)
(* gives its slot back (EndedRunsGiveBack).                                *)
(*                                                                         *)
(* The bound and the waiting runs need that the user mutex does not expire *)
(* under a holder that is still inside its section ("slow" \notin Faults), *)
(* the waiting runs also that no worker rewrites the queue without it      *)
(* ("rewrite" \notin Faults); both hypotheses are needed.                  *)
(*                                                                         *)
(* A limiter call reads the count in one Redis command and adds an entry   *)
(* in a later one, so the bound alone is not inductive: IInv adds that the *)
(* sections are exclusive (Mutex), that no count read inside one is below  *)
(* the books (Counted), and that a run that goes on with its slot has an   *)
(* entry (Entered), so that its heartbeat cannot add one.                  *)
(*                                                                         *)
(* remove_from_queue rebuilds the list from a copy of it, so NoLostRun is  *)
(* not inductive either: WInv adds that the copy a job still reads, the    *)
(* list it builds and what it threw out cover the queue (Scans), which the *)
(* mutex keeps true.  DInv, for DispatchedOnce, follows one run through    *)
(* the system: a new run is asked for by one job (Askers, Owners), has no  *)
(* task while it waits (Tasked), is in one place (Once), and a rebuild of  *)
(* the list keeps and removes each entry once (Sifts).                     *)
(***************************************************************************)
EXTENDS UserConcurrency, FiniteSetTheorems, SequenceTheorems, TLAPS

\* What a job at each point of its code is working on.
LocalsOf(j) ==
  /\ op[j] \in {"acquire", "recover"} => run[j] \in Runs
  /\ pc[j] \in {"inherit", "count", "decide", "push", "reply"}
       => op[j] \in {"acquire", "recover"}
  /\ pc[j] = "idle" => op[j] = "none"
  /\ pc[j] \in {"check", "settle", "dispatch", "inherit"} => pick[j] \in Runs
  /\ pc[j] = "lock" /\ op[j] = "recover" => pick[j] \in Runs
Locals == \A j \in Jobs : LocalsOf(j)

\* A job inside its mutex section holds the mutex.
Mutex == \A j \in Jobs : pc[j] \in Critical => lock = j

\* A run that goes on and is on the books has its entry.
EnteredBy(r) ==
  phase[r] \in {"admitted", "started", "running"} /\ grace[r] = "none" => r \in active
Entered == \A r \in Runs : EnteredBy(r)

\* A count read in a section is not below what is on the books now.
CountedAt(j) == pc[j] \in {"decide", "settle"} => Cardinality(OnBooks) <= cnt[j]
Counted == \A j \in Jobs : CountedAt(j)

IInv == TypeOK /\ Locals /\ Mutex /\ Entered /\ Counted /\ AdmissionBound

\* The parts of TypeOK that the control of the jobs depends on.
JobTypes ==
  /\ pc \in [Jobs -> Labels] /\ op \in [Jobs -> Ops]
  /\ run \in [Jobs -> Runs \cup {NoRun}] /\ pick \in [Jobs -> Runs \cup {NoRun}]

-----------------------------------------------------------------------------
(* Types.                                                                  *)

\* Every step keeps the types: what a job pops, appends or promotes is a run.
LEMMA TypeStep == TypeOK /\ Locals /\ [Next]_vars => TypeOK'
<1> SUFFICES ASSUME TypeOK, Locals, [Next]_vars PROVE TypeOK'
  OBVIOUS
<1> JobTypes /\ phase \in [Runs -> Phases] /\ grace \in [Runs -> Graces]
  BY DEF JobTypes, TypeOK
<1> USE LimiterAssumption DEF Ops, Labels, Phases, Graces, Goto, Mark
<1>1. ASSUME NEW j \in Jobs, NEW r \in Runs, CallAcquire(j, r) PROVE TypeOK'
  BY <1>1 DEF CallAcquire, Call, redis, rewrite, bounds, TypeOK
<1>2. ASSUME NEW j \in Jobs, NEW r \in Runs, CallRelease(j, r) PROVE TypeOK'
  BY <1>2 DEF CallRelease, Call, redis, rewrite, bounds, TypeOK
<1>3. ASSUME NEW j \in Jobs, NEW r \in Runs, CallCancel(j, r) PROVE TypeOK'
  <2>1. \E o \in Ops : Call(j, o, r, "lock")
    BY <1>3 DEF CallCancel
  <2>2. phase' \in [Runs -> Phases]
    BY <1>3 DEF CallCancel
  <2>3. JobTypes'
    BY <1>3, <2>1 DEF CallCancel, Call, JobTypes
  <2>4. info' \in [Workers -> SUBSET Runs] /\ cancels' \in 0..MaxCancels
    BY <1>3 DEF CallCancel, TypeOK
  <2>5. QED
    BY <1>3, <2>2, <2>3, <2>4 DEF CallCancel, redis, rewrite, JobTypes, TypeOK
<1>4. ASSUME NEW j \in Jobs, NEW old \in Runs, NEW r \in Runs, CallRecover(j, old, r) PROVE TypeOK'
  BY <1>4 DEF CallRecover, Call, redis, rewrite, bounds, TypeOK
<1>5. ASSUME NEW j \in Jobs, CallRewrite(j) PROVE TypeOK'
  BY <1>5 DEF CallRewrite, Call, redis, bounds, TypeOK
<1>6. ASSUME NEW j \in Jobs, Lock(j) PROVE TypeOK'
  <2>1. FirstStep(j) \in Labels
    BY DEF FirstStep
  <2>2. todo \in [Jobs -> Seq(Runs)] /\ keep \in [Jobs -> Seq(Runs)] /\ gone \in [Jobs -> SUBSET Runs]
    BY DEF TypeOK
  <2>3. queue \in Seq(Runs) /\ <<>> \in Seq(Runs)
    BY DEF TypeOK
  <2>4. todo' \in [Jobs -> Seq(Runs)] /\ keep' \in [Jobs -> Seq(Runs)] /\ gone' \in [Jobs -> SUBSET Runs]
    <3>1. CASE op[j] = "remove"
      <4>1. /\ todo' = [todo EXCEPT ![j] = queue] /\ keep' = [keep EXCEPT ![j] = <<>>]
            /\ gone' = [gone EXCEPT ![j] = {}]
        BY <1>6, <3>1 DEF Lock
      <4>2. QED
        BY <2>2, <2>3, <4>1
    <3>2. CASE op[j] # "remove"
      BY <1>6, <2>2, <3>2 DEF Lock, rewrite
    <3>3. QED
      BY <3>1, <3>2
  <2>5. QED
    BY <1>6, <2>1, <2>4 DEF Lock, MutexFree, bounds, TypeOK
<1>7. ASSUME NEW j \in Jobs, LockTimeout(j) PROVE TypeOK'
  <2>1. JobTypes'
    BY <1>7 DEF LockTimeout, AfterSection, Return, redis, rewrite, bounds, JobTypes
  <2>2. phase' \in [Runs -> Phases] /\ grace' \in [Runs -> Graces]
    BY <1>7 DEF LockTimeout, AfterSection, Return, redis, rewrite, bounds, JobTypes
  <2>3. QED
    BY <1>7, <2>1, <2>2 DEF LockTimeout, redis, rewrite, bounds, JobTypes, TypeOK
<1>8. ASSUME NEW j \in Jobs, Unlock(j) PROVE TypeOK'
  <2>1. JobTypes'
    BY <1>8 DEF Unlock, HandsOver, AfterSection, Return, rewrite, bounds, JobTypes
  <2>2. phase' \in [Runs -> Phases] /\ grace' \in [Runs -> Graces]
    BY <1>8 DEF Unlock, HandsOver, AfterSection, Return, rewrite, bounds, JobTypes
  <2>3. QED
    BY <1>8, <2>1, <2>2 DEF Unlock, HandsOver, rewrite, bounds, JobTypes, TypeOK
<1>9. ASSUME NEW j \in Jobs, Inherit(j) PROVE TypeOK'
  <2>1. run[j] \in Runs /\ pick[j] \in Runs
    BY <1>9 DEF Inherit, Inherited, Locals, LocalsOf
  <2>2. active \in SUBSET Runs /\ phase \in [Runs -> Phases] /\ grace \in [Runs -> Graces]
    BY DEF TypeOK
  <2>3. OffBooks(pick[j]) \in [Runs -> Graces]
    BY <2>1, <2>2 DEF OffBooks, Graces
  <2>4. active' \in SUBSET Runs /\ phase' \in [Runs -> Phases] /\ grace' \in [Runs -> Graces]
    <3>1. CASE pick[j] \in active
      BY <1>9, <2>1, <2>2, <2>3, <3>1 DEF Inherit, Inherited
    <3>2. CASE pick[j] \notin active
      BY <1>9, <2>2, <3>2 DEF Inherit
    <3>3. QED
      BY <3>1, <3>2
  <2>5. JobTypes'
    BY <1>9 DEF Inherit, JobTypes
  <2>6. QED
    BY <1>9, <2>4, <2>5 DEF Inherit, rewrite, bounds, JobTypes, TypeOK
<1>10. ASSUME NEW j \in Jobs, Count(j) PROVE TypeOK'
  <2>1. Cardinality(active) \in Nat
    BY FS_Subset, FS_CardinalityType DEF TypeOK
  <2>2. QED
    BY <1>10, <2>1 DEF Count, redis, rewrite, bounds, TypeOK
<1>11. ASSUME NEW j \in Jobs, Admit(j) PROVE TypeOK'
  <2>1. run[j] \in Runs
    BY <1>11 DEF Admit, HasRoom, Locals, LocalsOf
  <2>2. QED
    BY <1>11, <2>1 DEF Admit, HasRoom, rewrite, bounds, TypeOK
<1>12. ASSUME NEW j \in Jobs, Measure(j) PROVE TypeOK'
  BY <1>12 DEF Measure, HasRoom, redis, rewrite, bounds, TypeOK
<1>13. ASSUME NEW j \in Jobs, Push(j) PROVE TypeOK'
  <2>1. run[j] \in Runs
    BY <1>13 DEF Push, Locals, LocalsOf
  <2>2. Append(queue, run[j]) \in Seq(Runs)
    BY <2>1, AppendProperties DEF TypeOK
  <2>3. QED
    BY <1>13, <2>1, <2>2 DEF Push, rewrite, bounds, TypeOK
<1>14. ASSUME NEW j \in Jobs, Reject(j) PROVE TypeOK'
  BY <1>14 DEF Reject, redis, rewrite, bounds, TypeOK
<1>15. ASSUME NEW j \in Jobs, Reply(j) PROVE TypeOK'
  <2>1. run[j] \in Runs
    BY <1>15 DEF Reply, Locals, LocalsOf
  <2>2. warm \in SUBSET Workers /\ tasks \in [Workers -> SUBSET Runs] /\ phase \in [Runs -> Phases]
    BY DEF TypeOK
  <2>3. warm' \in SUBSET Workers /\ tasks' \in [Workers -> SUBSET Runs] /\ phase' \in [Runs -> Phases]
    BY <1>15, <2>1, <2>2 DEF Reply
  <2>4. info \in [Workers -> SUBSET Runs]
    BY DEF TypeOK
  <2>5. info' \in [Workers -> SUBSET Runs]
    BY <1>15, <2>1, <2>4 DEF Reply
  <2>6. QED
    BY <1>15, <2>3, <2>5 DEF Reply, Return, redis, rewrite, bounds, TypeOK
<1>16. ASSUME NEW j \in Jobs, ReplyFails(j) PROVE TypeOK'
  <2>1. JobTypes'
    BY <1>16 DEF ReplyFails, Return, redis, rewrite, bounds, JobTypes
  <2>2. phase' \in [Runs -> Phases] /\ grace' \in [Runs -> Graces]
    BY <1>16 DEF ReplyFails, Return, redis, rewrite, bounds, JobTypes
  <2>3. QED
    BY <1>16, <2>1, <2>2 DEF ReplyFails, redis, rewrite, bounds, JobTypes, TypeOK
<1>17. ASSUME NEW j \in Jobs, Zrem(j) PROVE TypeOK'
  BY <1>17 DEF Zrem, AfterZrem, OffBooks, locals, rewrite, bounds, TypeOK
<1>18. ASSUME NEW j \in Jobs, NEW r \in Runs, Pop(j, r) PROVE TypeOK'
  <2>1. Tail(queue) \in Seq(Runs)
    BY <1>18, HeadTailProperties DEF Pop, Popped, TypeOK
  <2>2. phase \in [Runs -> Phases] /\ pick \in [Jobs -> Runs \cup {NoRun}] /\ pc \in [Jobs -> Labels]
    BY DEF TypeOK
  <2>3. phase' \in [Runs -> Phases] /\ pick' \in [Jobs -> Runs \cup {NoRun}] /\ pc' \in [Jobs -> Labels]
    BY <1>18, <2>2 DEF Pop, Popped
  <2>5. queue' \in Seq(Runs) /\ tries' \in [Jobs -> Nat]
    BY <1>18, <2>1 DEF Pop, Popped, TypeOK
  <2>6. QED
    BY <1>18, <2>3, <2>5 DEF Pop, Popped, rewrite, bounds, TypeOK
<1>19. ASSUME NEW j \in Jobs, PopNone(j) PROVE TypeOK'
  BY <1>19 DEF PopNone, redis, locals, rewrite, bounds, TypeOK
<1>20. ASSUME NEW j \in Jobs, PutBack(j) PROVE TypeOK'
  <2>1. <<pick[j]>> \in Seq(Runs)
    BY <1>20 DEF PutBack, PushedBack, HasRoom, Locals, LocalsOf
  <2>2. <<pick[j]>> \o queue \in Seq(Runs)
    BY <2>1, ConcatProperties DEF TypeOK
  <2>3. QED
    BY <1>20, <2>2 DEF PutBack, PushedBack, HasRoom, rewrite, bounds, TypeOK
<1>21. ASSUME NEW j \in Jobs, Promote(j) PROVE TypeOK'
  <2>1. pick[j] \in Runs
    BY <1>21 DEF Promote, HasRoom, Locals, LocalsOf
  <2>2. QED
    BY <1>21, <2>1 DEF Promote, HasRoom, rewrite, bounds, TypeOK
<1>22. ASSUME NEW j \in Jobs, Dispatch(j) PROVE TypeOK'
  <2>1. pick[j] \in Runs
    BY <1>22 DEF Dispatch, Locals, LocalsOf
  <2>2. JobTypes'
    BY <1>22 DEF Dispatch, AfterSection, Return, JobTypes
  <2>3. phase' \in [Runs -> Phases] /\ grace' \in [Runs -> Graces]
    BY <1>22, <2>1 DEF Dispatch
  <2>4. tasks' \in [Workers -> SUBSET Runs]
    BY <1>22, <2>1 DEF Dispatch, TypeOK
  <2>5. QED
    BY <1>22, <2>2, <2>3, <2>4 DEF Dispatch, redis, rewrite, bounds, JobTypes, TypeOK
<1>23. ASSUME NEW j \in Jobs, DispatchDrops(j) PROVE TypeOK'
  <2>1. JobTypes'
    BY <1>23 DEF DispatchDrops, AfterSection, Return, rewrite, bounds, JobTypes
  <2>2. phase' \in [Runs -> Phases] /\ grace' \in [Runs -> Graces]
    BY <1>23 DEF DispatchDrops, AfterSection, Return, rewrite, bounds, JobTypes
  <2>3. QED
    BY <1>23, <2>1, <2>2 DEF DispatchDrops, rewrite, bounds, JobTypes, TypeOK
<1>24. ASSUME NEW j \in Jobs, NEW r \in Runs, Sift(j, r) PROVE TypeOK'
  <2>1. todo \in [Jobs -> Seq(Runs)] /\ keep \in [Jobs -> Seq(Runs)] /\ gone \in [Jobs -> SUBSET Runs]
    BY DEF TypeOK
  <2>2. Tail(todo[j]) \in Seq(Runs) /\ Append(keep[j], r) \in Seq(Runs)
    BY <1>24, <2>1, HeadTailProperties, AppendProperties DEF Sift, Kept
  <2>3. todo' \in [Jobs -> Seq(Runs)]
    BY <1>24, <2>1, <2>2 DEF Sift, Kept
  <2>5. keep' \in [Jobs -> Seq(Runs)]
    BY <1>24, <2>1, <2>2 DEF Sift, Kept
  <2>4. gone \in [Jobs -> SUBSET Runs]
    BY DEF TypeOK
  <2>6. gone' \in [Jobs -> SUBSET Runs]
    BY <1>24, <2>4 DEF Sift, Kept
  <2>7. QED
    BY <1>24, <2>3, <2>5, <2>6 DEF Sift, Kept, redis, bounds, TypeOK
<1>25. ASSUME NEW j \in Jobs, Swap(j) PROVE TypeOK'
  <2>1. JobTypes'
    BY <1>25 DEF Swap, Told, Return, bounds, JobTypes
  <2>2. phase' \in [Runs -> Phases] /\ grace' \in [Runs -> Graces]
    BY <1>25 DEF Swap, Told, Return, bounds, JobTypes
  <2>3. QED
    BY <1>25, <2>1, <2>2 DEF Swap, Told, bounds, JobTypes, TypeOK
<1>26. ASSUME NEW r \in Runs, StartRun(r) PROVE TypeOK'
  BY <1>26 DEF StartRun, redis, locals, rewrite, bounds, TypeOK
<1>27. ASSUME NEW r \in Runs, Refresh(r) PROVE TypeOK'
  BY <1>27 DEF Refresh, Beating, locals, rewrite, bounds, TypeOK
<1>28. ASSUME NEW r \in Runs, FinishRun(r) PROVE TypeOK'
  BY <1>28 DEF FinishRun, redis, locals, rewrite, bounds, TypeOK
<1>29. ASSUME NEW r \in Runs, Age(r) PROVE TypeOK'
  BY <1>29 DEF Age, redis, locals, rewrite, bounds, TypeOK
<1>30. ASSUME NEW r \in Runs, SlotLapses(r) PROVE TypeOK'
  BY <1>30 DEF SlotLapses, locals, rewrite, bounds, TypeOK
<1>31. CASE LockExpires
  BY <1>31 DEF LockExpires, locals, rewrite, bounds, TypeOK
<1>32. ASSUME NEW w \in Workers, Crash(w) PROVE TypeOK'
  BY <1>32 DEF Crash, TypeOK
<1>33. CASE UNCHANGED vars
  BY <1>33 DEF vars, redis, locals, rewrite, bounds, TypeOK
<1>34. ASSUME NEW j \in Jobs, NEW r \in Runs, CallReplay(j, r) PROVE TypeOK'
  BY <1>34 DEF CallReplay, Call, redis, rewrite, bounds, TypeOK
<1>35. ASSUME NEW w \in Workers, NEW r \in Runs, CloseUnknown(w, r) PROVE TypeOK'
  BY <1>35 DEF CloseUnknown, redis, locals, rewrite, bounds, TypeOK
<1>36. ASSUME NEW r \in Runs, RecordRun(r) PROVE TypeOK'
  BY <1>36 DEF RecordRun, redis, locals, rewrite, bounds, TypeOK
<1>37. QED
  BY <1>1, <1>2, <1>3, <1>4, <1>5, <1>6, <1>7, <1>8, <1>9, <1>10, <1>11, <1>12, <1>13, <1>14, <1>15, <1>16, <1>17, <1>18, <1>19, <1>20, <1>21, <1>22, <1>23, <1>24, <1>25, <1>26, <1>27, <1>28, <1>29, <1>30, <1>31, <1>32, <1>33, <1>34, <1>35, <1>36 DEF Next, JobStep, Section, RunStep

\* Every step keeps what a job works on in line with where it is.
LEMMA LocalsStep == TypeOK /\ Locals /\ [Next]_vars => Locals'
<1> SUFFICES ASSUME TypeOK, Locals, [Next]_vars, NEW i \in Jobs PROVE LocalsOf(i)'
  BY DEF Locals
<1> JobTypes /\ LocalsOf(i)
  BY DEF Locals, TypeOK, JobTypes
<1> USE LimiterAssumption DEF Goto, Mark
<1>1. ASSUME NEW j \in Jobs, NEW r \in Runs, CallAcquire(j, r) PROVE LocalsOf(i)'
  BY <1>1 DEF CallAcquire, Call, redis, rewrite, bounds, LocalsOf, JobTypes
<1>2. ASSUME NEW j \in Jobs, NEW r \in Runs, CallRelease(j, r) PROVE LocalsOf(i)'
  BY <1>2 DEF CallRelease, Call, redis, rewrite, bounds, LocalsOf, JobTypes
<1>3. ASSUME NEW j \in Jobs, NEW r \in Runs, CallCancel(j, r) PROVE LocalsOf(i)'
  BY <1>3 DEF CallCancel, Call, redis, rewrite, LocalsOf, JobTypes
<1>4. ASSUME NEW j \in Jobs, NEW old \in Runs, NEW r \in Runs, CallRecover(j, old, r) PROVE LocalsOf(i)'
  BY <1>4 DEF CallRecover, Call, redis, rewrite, bounds, LocalsOf, JobTypes
<1>5. ASSUME NEW j \in Jobs, CallRewrite(j) PROVE LocalsOf(i)'
  BY <1>5 DEF CallRewrite, Call, redis, bounds, LocalsOf, JobTypes
<1>6. ASSUME NEW j \in Jobs, Lock(j) PROVE LocalsOf(i)'
  BY <1>6 DEF Lock, MutexFree, FirstStep, bounds, rewrite, LocalsOf, JobTypes
<1>7. ASSUME NEW j \in Jobs, LockTimeout(j) PROVE LocalsOf(i)'
  BY <1>7 DEF LockTimeout, AfterSection, Return, redis, rewrite, bounds, LocalsOf, JobTypes
<1>8. ASSUME NEW j \in Jobs, Unlock(j) PROVE LocalsOf(i)'
  BY <1>8 DEF Unlock, HandsOver, AfterSection, Return, rewrite, bounds, LocalsOf, JobTypes
<1>9. ASSUME NEW j \in Jobs, Inherit(j) PROVE LocalsOf(i)'
  BY <1>9 DEF Inherit, Inherited, OffBooks, rewrite, bounds, LocalsOf, JobTypes
<1>10. ASSUME NEW j \in Jobs, Count(j) PROVE LocalsOf(i)'
  BY <1>10 DEF Count, redis, rewrite, bounds, LocalsOf, JobTypes
<1>11. ASSUME NEW j \in Jobs, Admit(j) PROVE LocalsOf(i)'
  BY <1>11 DEF Admit, HasRoom, rewrite, bounds, LocalsOf, JobTypes
<1>12. ASSUME NEW j \in Jobs, Measure(j) PROVE LocalsOf(i)'
  BY <1>12 DEF Measure, HasRoom, redis, rewrite, bounds, LocalsOf, JobTypes
<1>13. ASSUME NEW j \in Jobs, Push(j) PROVE LocalsOf(i)'
  BY <1>13 DEF Push, rewrite, bounds, LocalsOf, JobTypes
<1>14. ASSUME NEW j \in Jobs, Reject(j) PROVE LocalsOf(i)'
  BY <1>14 DEF Reject, redis, rewrite, bounds, LocalsOf, JobTypes
<1>15. ASSUME NEW j \in Jobs, Reply(j) PROVE LocalsOf(i)'
  BY <1>15 DEF Reply, Return, redis, rewrite, bounds, LocalsOf, JobTypes
<1>16. ASSUME NEW j \in Jobs, ReplyFails(j) PROVE LocalsOf(i)'
  BY <1>16 DEF ReplyFails, Return, redis, rewrite, bounds, LocalsOf, JobTypes
<1>17. ASSUME NEW j \in Jobs, Zrem(j) PROVE LocalsOf(i)'
  BY <1>17 DEF Zrem, AfterZrem, OffBooks, locals, rewrite, bounds, LocalsOf, JobTypes
<1>18. ASSUME NEW j \in Jobs, NEW r \in Runs, Pop(j, r) PROVE LocalsOf(i)'
  BY <1>18 DEF Pop, Popped, rewrite, bounds, LocalsOf, JobTypes
<1>19. ASSUME NEW j \in Jobs, PopNone(j) PROVE LocalsOf(i)'
  BY <1>19 DEF PopNone, redis, locals, rewrite, bounds, LocalsOf, JobTypes
<1>20. ASSUME NEW j \in Jobs, PutBack(j) PROVE LocalsOf(i)'
  BY <1>20 DEF PutBack, PushedBack, HasRoom, rewrite, bounds, LocalsOf, JobTypes
<1>21. ASSUME NEW j \in Jobs, Promote(j) PROVE LocalsOf(i)'
  BY <1>21 DEF Promote, HasRoom, rewrite, bounds, LocalsOf, JobTypes
<1>22. ASSUME NEW j \in Jobs, Dispatch(j) PROVE LocalsOf(i)'
  BY <1>22 DEF Dispatch, AfterSection, Return, redis, rewrite, bounds, LocalsOf, JobTypes
<1>23. ASSUME NEW j \in Jobs, DispatchDrops(j) PROVE LocalsOf(i)'
  BY <1>23 DEF DispatchDrops, AfterSection, Return, rewrite, bounds, LocalsOf, JobTypes
<1>24. ASSUME NEW j \in Jobs, NEW r \in Runs, Sift(j, r) PROVE LocalsOf(i)'
  BY <1>24 DEF Sift, Kept, redis, bounds, LocalsOf, JobTypes
<1>25. ASSUME NEW j \in Jobs, Swap(j) PROVE LocalsOf(i)'
  BY <1>25 DEF Swap, Told, Return, bounds, LocalsOf, JobTypes
<1>26. ASSUME NEW r \in Runs, StartRun(r) PROVE LocalsOf(i)'
  BY <1>26 DEF StartRun, redis, locals, rewrite, bounds, LocalsOf, JobTypes
<1>27. ASSUME NEW r \in Runs, Refresh(r) PROVE LocalsOf(i)'
  BY <1>27 DEF Refresh, Beating, locals, rewrite, bounds, LocalsOf, JobTypes
<1>28. ASSUME NEW r \in Runs, FinishRun(r) PROVE LocalsOf(i)'
  BY <1>28 DEF FinishRun, redis, locals, rewrite, bounds, LocalsOf, JobTypes
<1>29. ASSUME NEW r \in Runs, Age(r) PROVE LocalsOf(i)'
  BY <1>29 DEF Age, redis, locals, rewrite, bounds, LocalsOf, JobTypes
<1>30. ASSUME NEW r \in Runs, SlotLapses(r) PROVE LocalsOf(i)'
  BY <1>30 DEF SlotLapses, locals, rewrite, bounds, LocalsOf, JobTypes
<1>31. CASE LockExpires
  BY <1>31 DEF LockExpires, locals, rewrite, bounds, LocalsOf, JobTypes
<1>32. ASSUME NEW w \in Workers, Crash(w) PROVE LocalsOf(i)'
  BY <1>32 DEF Crash, LocalsOf, JobTypes
<1>33. CASE UNCHANGED vars
  BY <1>33 DEF vars, redis, locals, rewrite, bounds, LocalsOf, JobTypes
<1>34. ASSUME NEW j \in Jobs, NEW r \in Runs, CallReplay(j, r) PROVE LocalsOf(i)'
  BY <1>34 DEF CallReplay, Call, redis, rewrite, bounds, LocalsOf, JobTypes
<1>35. ASSUME NEW w \in Workers, NEW r \in Runs, CloseUnknown(w, r) PROVE LocalsOf(i)'
  BY <1>35 DEF CloseUnknown, redis, locals, rewrite, bounds, LocalsOf, JobTypes
<1>36. ASSUME NEW r \in Runs, RecordRun(r) PROVE LocalsOf(i)'
  BY <1>36 DEF RecordRun, redis, locals, rewrite, bounds, LocalsOf, JobTypes
<1>37. QED
  BY <1>1, <1>2, <1>3, <1>4, <1>5, <1>6, <1>7, <1>8, <1>9, <1>10, <1>11, <1>12, <1>13, <1>14, <1>15, <1>16, <1>17, <1>18, <1>19, <1>20, <1>21, <1>22, <1>23, <1>24, <1>25, <1>26, <1>27, <1>28, <1>29, <1>30, <1>31, <1>32, <1>33, <1>34, <1>35, <1>36 DEF Next, JobStep, Section, RunStep

\* The initial state is typed and every job is idle.
LEMMA TypeInit == Init => TypeOK /\ Locals
  BY LimiterAssumption DEF Init, TypeOK, Locals, LocalsOf, Labels, Ops, Phases, Graces

\* Types of the keys, phases and locals (TypeOK), for every value of the constants.
THEOREM TypeCorrect == Spec => []TypeOK
<1>1. Init => TypeOK /\ Locals
  BY TypeInit
<1>2. TypeOK /\ Locals /\ [Next]_vars => (TypeOK /\ Locals)'
  BY TypeStep, LocalsStep
<1>3. QED
  BY <1>1, <1>2, PTL DEF Spec

-----------------------------------------------------------------------------
(* The bound on admitted runs.                                             *)

\* The user mutex excludes two jobs from their sections at the same time.
LEMMA MutexStep == 
ASSUME "slow" \notin Faults
PROVE TypeOK /\ Mutex /\ [Next]_vars => Mutex'
<1> SUFFICES ASSUME TypeOK, Mutex, [Next]_vars, NEW i \in Jobs, (pc[i] \in Critical)' PROVE lock' = i
  BY DEF Mutex
<1> JobTypes /\ (pc[i] \in Critical => lock = i)
  BY DEF Mutex, TypeOK, JobTypes
<1> USE LimiterAssumption DEF Goto, Mark, Critical
<1>1. ASSUME NEW j \in Jobs, NEW r \in Runs, CallAcquire(j, r) PROVE lock' = i
  BY <1>1 DEF CallAcquire, Call, redis, rewrite, bounds, JobTypes
<1>2. ASSUME NEW j \in Jobs, NEW r \in Runs, CallRelease(j, r) PROVE lock' = i
  BY <1>2 DEF CallRelease, Call, redis, rewrite, bounds, JobTypes
<1>3. ASSUME NEW j \in Jobs, NEW r \in Runs, CallCancel(j, r) PROVE lock' = i
  BY <1>3 DEF CallCancel, Call, redis, rewrite, JobTypes
<1>4. ASSUME NEW j \in Jobs, NEW old \in Runs, NEW r \in Runs, CallRecover(j, old, r) PROVE lock' = i
  BY <1>4 DEF CallRecover, Call, redis, rewrite, bounds, JobTypes
<1>5. ASSUME NEW j \in Jobs, CallRewrite(j) PROVE lock' = i
  BY <1>5 DEF CallRewrite, Call, redis, bounds, JobTypes
<1>6. ASSUME NEW j \in Jobs, Lock(j) PROVE lock' = i
  BY <1>6 DEF Lock, MutexFree, FirstStep, bounds, rewrite, JobTypes
<1>7. ASSUME NEW j \in Jobs, LockTimeout(j) PROVE lock' = i
  BY <1>7 DEF LockTimeout, AfterSection, Return, redis, rewrite, bounds, JobTypes
<1>8. ASSUME NEW j \in Jobs, Unlock(j) PROVE lock' = i
  BY <1>8 DEF Unlock, HandsOver, AfterSection, Return, rewrite, bounds, JobTypes
<1>9. ASSUME NEW j \in Jobs, Inherit(j) PROVE lock' = i
  BY <1>9 DEF Inherit, Inherited, OffBooks, rewrite, bounds, JobTypes
<1>10. ASSUME NEW j \in Jobs, Count(j) PROVE lock' = i
  BY <1>10 DEF Count, redis, rewrite, bounds, JobTypes
<1>11. ASSUME NEW j \in Jobs, Admit(j) PROVE lock' = i
  BY <1>11 DEF Admit, HasRoom, rewrite, bounds, JobTypes
<1>12. ASSUME NEW j \in Jobs, Measure(j) PROVE lock' = i
  BY <1>12 DEF Measure, HasRoom, redis, rewrite, bounds, JobTypes
<1>13. ASSUME NEW j \in Jobs, Push(j) PROVE lock' = i
  BY <1>13 DEF Push, rewrite, bounds, JobTypes
<1>14. ASSUME NEW j \in Jobs, Reject(j) PROVE lock' = i
  BY <1>14 DEF Reject, redis, rewrite, bounds, JobTypes
<1>15. ASSUME NEW j \in Jobs, Reply(j) PROVE lock' = i
  BY <1>15 DEF Reply, Return, redis, rewrite, bounds, JobTypes
<1>16. ASSUME NEW j \in Jobs, ReplyFails(j) PROVE lock' = i
  BY <1>16 DEF ReplyFails, Return, redis, rewrite, bounds, JobTypes
<1>17. ASSUME NEW j \in Jobs, Zrem(j) PROVE lock' = i
  BY <1>17 DEF Zrem, AfterZrem, OffBooks, locals, rewrite, bounds, JobTypes
<1>18. ASSUME NEW j \in Jobs, NEW r \in Runs, Pop(j, r) PROVE lock' = i
  BY <1>18 DEF Pop, Popped, rewrite, bounds, JobTypes
<1>19. ASSUME NEW j \in Jobs, PopNone(j) PROVE lock' = i
  BY <1>19 DEF PopNone, redis, locals, rewrite, bounds, JobTypes
<1>20. ASSUME NEW j \in Jobs, PutBack(j) PROVE lock' = i
  BY <1>20 DEF PutBack, PushedBack, HasRoom, rewrite, bounds, JobTypes
<1>21. ASSUME NEW j \in Jobs, Promote(j) PROVE lock' = i
  BY <1>21 DEF Promote, HasRoom, rewrite, bounds, JobTypes
<1>22. ASSUME NEW j \in Jobs, Dispatch(j) PROVE lock' = i
  BY <1>22 DEF Dispatch, AfterSection, Return, redis, rewrite, bounds, JobTypes
<1>23. ASSUME NEW j \in Jobs, DispatchDrops(j) PROVE lock' = i
  BY <1>23 DEF DispatchDrops, AfterSection, Return, rewrite, bounds, JobTypes
<1>24. ASSUME NEW j \in Jobs, NEW r \in Runs, Sift(j, r) PROVE lock' = i
  BY <1>24 DEF Sift, Kept, redis, bounds, JobTypes
<1>25. ASSUME NEW j \in Jobs, Swap(j) PROVE lock' = i
  BY <1>25 DEF Swap, Told, Return, bounds, JobTypes
<1>26. ASSUME NEW r \in Runs, StartRun(r) PROVE lock' = i
  BY <1>26 DEF StartRun, redis, locals, rewrite, bounds, JobTypes
<1>27. ASSUME NEW r \in Runs, Refresh(r) PROVE lock' = i
  BY <1>27 DEF Refresh, Beating, locals, rewrite, bounds, JobTypes
<1>28. ASSUME NEW r \in Runs, FinishRun(r) PROVE lock' = i
  BY <1>28 DEF FinishRun, redis, locals, rewrite, bounds, JobTypes
<1>29. ASSUME NEW r \in Runs, Age(r) PROVE lock' = i
  BY <1>29 DEF Age, redis, locals, rewrite, bounds, JobTypes
<1>30. ASSUME NEW r \in Runs, SlotLapses(r) PROVE lock' = i
  BY <1>30 DEF SlotLapses, locals, rewrite, bounds, JobTypes
<1>31. CASE LockExpires
  BY <1>31 DEF LockExpires, locals, rewrite, bounds, JobTypes
<1>32. ASSUME NEW w \in Workers, Crash(w) PROVE lock' = i
  BY <1>32 DEF Crash, JobTypes
<1>33. CASE UNCHANGED vars
  BY <1>33 DEF vars, redis, locals, rewrite, bounds, JobTypes
<1>34. ASSUME NEW j \in Jobs, NEW r \in Runs, CallReplay(j, r) PROVE lock' = i
  BY <1>34 DEF CallReplay, Call, redis, rewrite, bounds, JobTypes
<1>35. ASSUME NEW w \in Workers, NEW r \in Runs, CloseUnknown(w, r) PROVE lock' = i
  BY <1>35 DEF CloseUnknown, redis, locals, rewrite, bounds, JobTypes
<1>36. ASSUME NEW r \in Runs, RecordRun(r) PROVE lock' = i
  BY <1>36 DEF RecordRun, redis, locals, rewrite, bounds, JobTypes
<1>37. QED
  BY <1>1, <1>2, <1>3, <1>4, <1>5, <1>6, <1>7, <1>8, <1>9, <1>10, <1>11, <1>12, <1>13, <1>14, <1>15, <1>16, <1>17, <1>18, <1>19, <1>20, <1>21, <1>22, <1>23, <1>24, <1>25, <1>26, <1>27, <1>28, <1>29, <1>30, <1>31, <1>32, <1>33, <1>34, <1>35, <1>36 DEF Next, JobStep, Section, RunStep

\* Only the limiter takes entries of live runs away, and it marks them.
LEMMA EnteredStep == 
 TypeOK /\ Locals /\ Entered /\ [Next]_vars => Entered'
<1> SUFFICES ASSUME TypeOK, Locals, Entered, [Next]_vars, NEW i \in Runs PROVE EnteredBy(i)'
  BY DEF Entered
<1> EnteredBy(i) /\ active \in SUBSET Runs /\ phase \in [Runs -> Phases] /\ grace \in [Runs -> Graces]
  BY DEF Entered, TypeOK
<1> \A j \in Jobs : LocalsOf(j)
  BY DEF Locals
<1> USE LimiterAssumption DEF Goto, Mark, Alive, EnteredBy, Phases, Graces
<1>1. ASSUME NEW j \in Jobs, NEW r \in Runs, CallAcquire(j, r) PROVE EnteredBy(i)'
  BY <1>1 DEF CallAcquire, Call, redis, rewrite, bounds, LocalsOf
<1>2. ASSUME NEW j \in Jobs, NEW r \in Runs, CallRelease(j, r) PROVE EnteredBy(i)'
  BY <1>2 DEF CallRelease, Call, redis, rewrite, bounds, LocalsOf
<1>3. ASSUME NEW j \in Jobs, NEW r \in Runs, CallCancel(j, r) PROVE EnteredBy(i)'
  BY <1>3 DEF CallCancel, Call, redis, rewrite, LocalsOf
<1>4. ASSUME NEW j \in Jobs, NEW old \in Runs, NEW r \in Runs, CallRecover(j, old, r) PROVE EnteredBy(i)'
  BY <1>4 DEF CallRecover, Call, redis, rewrite, bounds, LocalsOf
<1>5. ASSUME NEW j \in Jobs, CallRewrite(j) PROVE EnteredBy(i)'
  BY <1>5 DEF CallRewrite, Call, redis, bounds, LocalsOf
<1>6. ASSUME NEW j \in Jobs, Lock(j) PROVE EnteredBy(i)'
  BY <1>6 DEF Lock, MutexFree, FirstStep, bounds, rewrite, LocalsOf
<1>7. ASSUME NEW j \in Jobs, LockTimeout(j) PROVE EnteredBy(i)'
  BY <1>7 DEF LockTimeout, AfterSection, Return, redis, rewrite, bounds, LocalsOf
<1>8. ASSUME NEW j \in Jobs, Unlock(j) PROVE EnteredBy(i)'
  BY <1>8 DEF Unlock, HandsOver, AfterSection, Return, rewrite, bounds, LocalsOf
<1>9. ASSUME NEW j \in Jobs, Inherit(j) PROVE EnteredBy(i)'
  BY <1>9 DEF Inherit, Inherited, OffBooks, rewrite, bounds, LocalsOf
<1>10. ASSUME NEW j \in Jobs, Count(j) PROVE EnteredBy(i)'
  BY <1>10 DEF Count, redis, rewrite, bounds, LocalsOf
<1>11. ASSUME NEW j \in Jobs, Admit(j) PROVE EnteredBy(i)'
  BY <1>11 DEF Admit, HasRoom, rewrite, bounds, LocalsOf
<1>12. ASSUME NEW j \in Jobs, Measure(j) PROVE EnteredBy(i)'
  BY <1>12 DEF Measure, HasRoom, redis, rewrite, bounds, LocalsOf
<1>13. ASSUME NEW j \in Jobs, Push(j) PROVE EnteredBy(i)'
  BY <1>13 DEF Push, rewrite, bounds, LocalsOf
<1>14. ASSUME NEW j \in Jobs, Reject(j) PROVE EnteredBy(i)'
  BY <1>14 DEF Reject, redis, rewrite, bounds, LocalsOf
<1>15. ASSUME NEW j \in Jobs, Reply(j) PROVE EnteredBy(i)'
  BY <1>15 DEF Reply, Return, redis, rewrite, bounds, LocalsOf
<1>16. ASSUME NEW j \in Jobs, ReplyFails(j) PROVE EnteredBy(i)'
  BY <1>16 DEF ReplyFails, Return, redis, rewrite, bounds, LocalsOf
<1>17. ASSUME NEW j \in Jobs, Zrem(j) PROVE EnteredBy(i)'
  BY <1>17 DEF Zrem, AfterZrem, OffBooks, locals, rewrite, bounds, LocalsOf
<1>18. ASSUME NEW j \in Jobs, NEW r \in Runs, Pop(j, r) PROVE EnteredBy(i)'
  BY <1>18 DEF Pop, Popped, rewrite, bounds, LocalsOf
<1>19. ASSUME NEW j \in Jobs, PopNone(j) PROVE EnteredBy(i)'
  BY <1>19 DEF PopNone, redis, locals, rewrite, bounds, LocalsOf
<1>20. ASSUME NEW j \in Jobs, PutBack(j) PROVE EnteredBy(i)'
  BY <1>20 DEF PutBack, PushedBack, HasRoom, rewrite, bounds, LocalsOf
<1>21. ASSUME NEW j \in Jobs, Promote(j) PROVE EnteredBy(i)'
  BY <1>21 DEF Promote, HasRoom, rewrite, bounds, LocalsOf
<1>22. ASSUME NEW j \in Jobs, Dispatch(j) PROVE EnteredBy(i)'
  BY <1>22 DEF Dispatch, AfterSection, Return, redis, rewrite, bounds, LocalsOf
<1>23. ASSUME NEW j \in Jobs, DispatchDrops(j) PROVE EnteredBy(i)'
  BY <1>23 DEF DispatchDrops, AfterSection, Return, rewrite, bounds, LocalsOf
<1>24. ASSUME NEW j \in Jobs, NEW r \in Runs, Sift(j, r) PROVE EnteredBy(i)'
  BY <1>24 DEF Sift, Kept, redis, bounds, LocalsOf
<1>25. ASSUME NEW j \in Jobs, Swap(j) PROVE EnteredBy(i)'
  BY <1>25 DEF Swap, Told, Return, bounds, LocalsOf
<1>26. ASSUME NEW r \in Runs, StartRun(r) PROVE EnteredBy(i)'
  BY <1>26 DEF StartRun, redis, locals, rewrite, bounds, LocalsOf
<1>27. ASSUME NEW r \in Runs, Refresh(r) PROVE EnteredBy(i)'
  BY <1>27 DEF Refresh, Beating, locals, rewrite, bounds, LocalsOf
<1>28. ASSUME NEW r \in Runs, FinishRun(r) PROVE EnteredBy(i)'
  BY <1>28 DEF FinishRun, redis, locals, rewrite, bounds, LocalsOf
<1>29. ASSUME NEW r \in Runs, Age(r) PROVE EnteredBy(i)'
  BY <1>29 DEF Age, redis, locals, rewrite, bounds, LocalsOf
<1>30. ASSUME NEW r \in Runs, SlotLapses(r) PROVE EnteredBy(i)'
  BY <1>30 DEF SlotLapses, locals, rewrite, bounds, LocalsOf
<1>31. CASE LockExpires
  BY <1>31 DEF LockExpires, locals, rewrite, bounds, LocalsOf
<1>32. ASSUME NEW w \in Workers, Crash(w) PROVE EnteredBy(i)'
  BY <1>32 DEF Crash, LocalsOf
<1>33. CASE UNCHANGED vars
  BY <1>33 DEF vars, redis, locals, rewrite, bounds, LocalsOf
<1>34. ASSUME NEW j \in Jobs, NEW r \in Runs, CallReplay(j, r) PROVE EnteredBy(i)'
  BY <1>34 DEF CallReplay, Call, redis, rewrite, bounds, LocalsOf
<1>35. ASSUME NEW w \in Workers, NEW r \in Runs, CloseUnknown(w, r) PROVE EnteredBy(i)'
  BY <1>35 DEF CloseUnknown, redis, locals, rewrite, bounds, LocalsOf
<1>36. ASSUME NEW r \in Runs, RecordRun(r) PROVE EnteredBy(i)'
  BY <1>36 DEF RecordRun, redis, locals, rewrite, bounds, LocalsOf
<1>37. QED
  BY <1>1, <1>2, <1>3, <1>4, <1>5, <1>6, <1>7, <1>8, <1>9, <1>10, <1>11, <1>12, <1>13, <1>14, <1>15, <1>16, <1>17, <1>18, <1>19, <1>20, <1>21, <1>22, <1>23, <1>24, <1>25, <1>26, <1>27, <1>28, <1>29, <1>30, <1>31, <1>32, <1>33, <1>34, <1>35, <1>36 DEF Next, JobStep, Section, RunStep

\* What one step can do to the books: nothing new, one run for another, or the
\* run that Admit or Promote lets in.
Gains(j) ==
  \/ Admit(j) /\ OnBooks' \subseteq OnBooks \cup {run[j]}
  \/ Promote(j) /\ OnBooks' \subseteq OnBooks \cup {pick[j]}
BooksStep ==
  \/ OnBooks' \subseteq OnBooks
  \/ \E x \in OnBooks, y \in Runs : OnBooks' \subseteq (OnBooks \ {x}) \cup {y}
  \/ \E j \in Jobs : Gains(j)

LEMMA OnBooksStep == TypeOK /\ Locals /\ Entered /\ [Next]_vars => BooksStep
<1> SUFFICES ASSUME TypeOK, Locals, Entered, [Next]_vars PROVE BooksStep
  OBVIOUS
<1> active \in SUBSET Runs /\ phase \in [Runs -> Phases] /\ grace \in [Runs -> Graces]
  BY DEF TypeOK
<1> \A r \in Runs : EnteredBy(r)
  BY DEF Entered
<1> \A j \in Jobs : LocalsOf(j)
  BY DEF Locals
<1> USE LimiterAssumption DEF Goto, Mark, Alive, EnteredBy, Phases, Graces, OnBooks, BooksStep, Gains
<1>1. ASSUME NEW j \in Jobs, NEW r \in Runs, CallAcquire(j, r) PROVE BooksStep
  BY <1>1 DEF CallAcquire, Call, redis, rewrite, bounds, LocalsOf
<1>2. ASSUME NEW j \in Jobs, NEW r \in Runs, CallRelease(j, r) PROVE BooksStep
  BY <1>2 DEF CallRelease, Call, redis, rewrite, bounds, LocalsOf
<1>3. ASSUME NEW j \in Jobs, NEW r \in Runs, CallCancel(j, r) PROVE BooksStep
  BY <1>3 DEF CallCancel, Call, redis, rewrite, LocalsOf
<1>4. ASSUME NEW j \in Jobs, NEW old \in Runs, NEW r \in Runs, CallRecover(j, old, r) PROVE BooksStep
  BY <1>4 DEF CallRecover, Call, redis, rewrite, bounds, LocalsOf
<1>5. ASSUME NEW j \in Jobs, CallRewrite(j) PROVE BooksStep
  BY <1>5 DEF CallRewrite, Call, redis, bounds, LocalsOf
<1>6. ASSUME NEW j \in Jobs, Lock(j) PROVE BooksStep
  BY <1>6 DEF Lock, MutexFree, FirstStep, bounds, rewrite, LocalsOf
<1>7. ASSUME NEW j \in Jobs, LockTimeout(j) PROVE BooksStep
  BY <1>7 DEF LockTimeout, AfterSection, Return, redis, rewrite, bounds, LocalsOf
<1>8. ASSUME NEW j \in Jobs, Unlock(j) PROVE BooksStep
  BY <1>8 DEF Unlock, HandsOver, AfterSection, Return, rewrite, bounds, LocalsOf
<1>9. ASSUME NEW j \in Jobs, Inherit(j) PROVE BooksStep
  <2>1. run[j] \in Runs /\ pick[j] \in Runs
    BY <1>9 DEF Inherit, Inherited, LocalsOf
  <2>2. CASE pick[j] \notin active
    BY <1>9, <2>2 DEF Inherit, Inherited, rewrite, bounds, OnBooks
  <2>3. CASE pick[j] \in active /\ grace[pick[j]] = "none"
    <3>1. pick[j] \in OnBooks
      BY <2>3 DEF OnBooks
    <3>2. OnBooks' \subseteq (OnBooks \ {pick[j]}) \cup {run[j]}
      BY <1>9, <2>1, <2>3 DEF Inherit, Inherited, OffBooks, OnBooks
    <3>3. QED
      BY <2>1, <3>1, <3>2 DEF BooksStep
  <2>4. CASE pick[j] \in active /\ grace[pick[j]] # "none"
    BY <1>9, <2>1, <2>4 DEF Inherit, Inherited, OffBooks, OnBooks, BooksStep
  <2>5. QED
    BY <2>2, <2>3, <2>4
<1>10. ASSUME NEW j \in Jobs, Count(j) PROVE BooksStep
  BY <1>10 DEF Count, redis, rewrite, bounds, LocalsOf
<1>11. ASSUME NEW j \in Jobs, Admit(j) PROVE BooksStep
  BY <1>11 DEF Admit, HasRoom, rewrite, bounds, LocalsOf
<1>12. ASSUME NEW j \in Jobs, Measure(j) PROVE BooksStep
  BY <1>12 DEF Measure, HasRoom, redis, rewrite, bounds, LocalsOf
<1>13. ASSUME NEW j \in Jobs, Push(j) PROVE BooksStep
  BY <1>13 DEF Push, rewrite, bounds, LocalsOf
<1>14. ASSUME NEW j \in Jobs, Reject(j) PROVE BooksStep
  BY <1>14 DEF Reject, redis, rewrite, bounds, LocalsOf
<1>15. ASSUME NEW j \in Jobs, Reply(j) PROVE BooksStep
  BY <1>15 DEF Reply, Return, redis, rewrite, bounds, LocalsOf
<1>16. ASSUME NEW j \in Jobs, ReplyFails(j) PROVE BooksStep
  BY <1>16 DEF ReplyFails, Return, redis, rewrite, bounds, LocalsOf
<1>17. ASSUME NEW j \in Jobs, Zrem(j) PROVE BooksStep
  BY <1>17 DEF Zrem, AfterZrem, OffBooks, locals, rewrite, bounds, LocalsOf
<1>18. ASSUME NEW j \in Jobs, NEW r \in Runs, Pop(j, r) PROVE BooksStep
  BY <1>18 DEF Pop, Popped, rewrite, bounds, LocalsOf
<1>19. ASSUME NEW j \in Jobs, PopNone(j) PROVE BooksStep
  BY <1>19 DEF PopNone, redis, locals, rewrite, bounds, LocalsOf
<1>20. ASSUME NEW j \in Jobs, PutBack(j) PROVE BooksStep
  BY <1>20 DEF PutBack, PushedBack, HasRoom, rewrite, bounds, LocalsOf
<1>21. ASSUME NEW j \in Jobs, Promote(j) PROVE BooksStep
  BY <1>21 DEF Promote, HasRoom, rewrite, bounds, LocalsOf
<1>22. ASSUME NEW j \in Jobs, Dispatch(j) PROVE BooksStep
  BY <1>22 DEF Dispatch, AfterSection, Return, redis, rewrite, bounds, LocalsOf
<1>23. ASSUME NEW j \in Jobs, DispatchDrops(j) PROVE BooksStep
  BY <1>23 DEF DispatchDrops, AfterSection, Return, rewrite, bounds, LocalsOf
<1>24. ASSUME NEW j \in Jobs, NEW r \in Runs, Sift(j, r) PROVE BooksStep
  BY <1>24 DEF Sift, Kept, redis, bounds, LocalsOf
<1>25. ASSUME NEW j \in Jobs, Swap(j) PROVE BooksStep
  BY <1>25 DEF Swap, Told, Return, bounds, LocalsOf
<1>26. ASSUME NEW r \in Runs, StartRun(r) PROVE BooksStep
  BY <1>26 DEF StartRun, redis, locals, rewrite, bounds, LocalsOf
<1>27. ASSUME NEW r \in Runs, Refresh(r) PROVE BooksStep
  BY <1>27 DEF Refresh, Beating, locals, rewrite, bounds, LocalsOf
<1>28. ASSUME NEW r \in Runs, FinishRun(r) PROVE BooksStep
  BY <1>28 DEF FinishRun, redis, locals, rewrite, bounds, LocalsOf
<1>29. ASSUME NEW r \in Runs, Age(r) PROVE BooksStep
  BY <1>29 DEF Age, redis, locals, rewrite, bounds, LocalsOf
<1>30. ASSUME NEW r \in Runs, SlotLapses(r) PROVE BooksStep
  BY <1>30 DEF SlotLapses, locals, rewrite, bounds, LocalsOf
<1>31. CASE LockExpires
  BY <1>31 DEF LockExpires, locals, rewrite, bounds, LocalsOf
<1>32. ASSUME NEW w \in Workers, Crash(w) PROVE BooksStep
  BY <1>32 DEF Crash, LocalsOf
<1>33. CASE UNCHANGED vars
  BY <1>33 DEF vars, redis, locals, rewrite, bounds, LocalsOf
<1>34. ASSUME NEW j \in Jobs, NEW r \in Runs, CallReplay(j, r) PROVE BooksStep
  BY <1>34 DEF CallReplay, Call, redis, rewrite, bounds, LocalsOf
<1>35. ASSUME NEW w \in Workers, NEW r \in Runs, CloseUnknown(w, r) PROVE BooksStep
  BY <1>35 DEF CloseUnknown, redis, locals, rewrite, bounds, LocalsOf
<1>36. ASSUME NEW r \in Runs, RecordRun(r) PROVE BooksStep
  BY <1>36 DEF RecordRun, redis, locals, rewrite, bounds, LocalsOf
<1>37. QED
  BY <1>1, <1>2, <1>3, <1>4, <1>5, <1>6, <1>7, <1>8, <1>9, <1>10, <1>11, <1>12, <1>13, <1>14, <1>15, <1>16, <1>17, <1>18, <1>19, <1>20, <1>21, <1>22, <1>23, <1>24, <1>25, <1>26, <1>27, <1>28, <1>29, <1>30, <1>31, <1>32, <1>33, <1>34, <1>35, <1>36 DEF Next, JobStep, Section, RunStep

\* In numbers: only Admit and Promote make the books longer, by one.
LEMMA BooksCard == 
  TypeOK /\ Locals /\ Entered /\ [Next]_vars
    => /\ Cardinality(OnBooks') \in Nat
       /\ \/ Cardinality(OnBooks') <= Cardinality(OnBooks)
          \/ \E j \in Jobs : /\ Admit(j) \/ Promote(j)
                             /\ Cardinality(OnBooks') <= Cardinality(OnBooks) + 1
<1> SUFFICES ASSUME TypeOK, Locals, Entered, [Next]_vars
             PROVE  /\ Cardinality(OnBooks') \in Nat
                    /\ \/ Cardinality(OnBooks') <= Cardinality(OnBooks)
                       \/ \E j \in Jobs : /\ Admit(j) \/ Promote(j)
                                          /\ Cardinality(OnBooks') <= Cardinality(OnBooks) + 1
  OBVIOUS
<1>1. OnBooks \subseteq Runs /\ OnBooks' \subseteq Runs
  BY TypeStep DEF OnBooks, TypeOK
<1>2. IsFiniteSet(OnBooks) /\ IsFiniteSet(OnBooks')
  BY <1>1, FS_Subset, LimiterAssumption
<1>3. Cardinality(OnBooks) \in Nat /\ Cardinality(OnBooks') \in Nat
  BY <1>2, FS_CardinalityType
<1>4. \A y : /\ IsFiniteSet(OnBooks \cup {y})
             /\ Cardinality(OnBooks \cup {y}) <= Cardinality(OnBooks) + 1
  BY <1>2, <1>3, FS_AddElement
<1>5. BooksStep
  BY OnBooksStep
<1>6. CASE OnBooks' \subseteq OnBooks
  BY <1>2, <1>3, <1>6, FS_Subset
<1>7. ASSUME NEW x \in OnBooks, NEW y \in Runs, OnBooks' \subseteq (OnBooks \ {x}) \cup {y}
      PROVE  Cardinality(OnBooks') <= Cardinality(OnBooks)
  <2>1. /\ IsFiniteSet(OnBooks \ {x})
        /\ Cardinality(OnBooks \ {x}) = Cardinality(OnBooks) - 1
    BY <1>2, FS_RemoveElement
  <2>2. /\ IsFiniteSet((OnBooks \ {x}) \cup {y})
        /\ Cardinality((OnBooks \ {x}) \cup {y}) <= Cardinality(OnBooks)
    BY <1>3, <2>1, FS_AddElement
  <2>3. Cardinality(OnBooks') <= Cardinality((OnBooks \ {x}) \cup {y})
    BY <1>7, <2>2, FS_Subset
  <2>4. Cardinality((OnBooks \ {x}) \cup {y}) \in Nat
    BY <2>2, FS_CardinalityType
  <2>5. QED
    BY <1>3, <2>2, <2>3, <2>4
<1>8. ASSUME NEW j \in Jobs, Gains(j)
      PROVE  /\ Admit(j) \/ Promote(j)
             /\ Cardinality(OnBooks') <= Cardinality(OnBooks) + 1
  <2>1. PICK y : OnBooks' \subseteq OnBooks \cup {y}
    BY <1>8 DEF Gains
  <2>2. Cardinality(OnBooks') <= Cardinality(OnBooks \cup {y})
    BY <1>4, <2>1, FS_Subset
  <2>3. /\ Cardinality(OnBooks \cup {y}) \in Nat
        /\ Cardinality(OnBooks \cup {y}) <= Cardinality(OnBooks) + 1
    BY <1>4, FS_CardinalityType
  <2>4. Admit(j) \/ Promote(j)
    BY <1>8 DEF Gains
  <2>5. Cardinality(OnBooks') <= Cardinality(OnBooks) + 1
    BY <1>3, <2>2, <2>3
  <2>6. QED
    BY <2>4, <2>5
<1>9. QED
  BY <1>3, <1>5, <1>6, <1>7, <1>8 DEF BooksStep

\* The books are a finite set, so their cardinality is a number: Runs is finite.
LEMMA BooksType == TypeOK => IsFiniteSet(OnBooks) /\ Cardinality(OnBooks) \in Nat /\ IsFiniteSet(active)
<1> SUFFICES ASSUME TypeOK PROVE IsFiniteSet(OnBooks) /\ Cardinality(OnBooks) \in Nat  /\ IsFiniteSet(active)
  OBVIOUS
<1>1. active \subseteq Runs /\ OnBooks \subseteq Runs
  BY DEF TypeOK, OnBooks
<1>2. QED
  BY <1>1, FS_Subset, FS_CardinalityType, LimiterAssumption

\* A job in front of its decision has just counted, or keeps its count.
CountKept(i) ==
  \/ Count(i)
  \/ pc[i] \in {"decide", "settle"} /\ cnt'[i] = cnt[i] /\ ~Admit(i) /\ ~Promote(i)

LEMMA CountIsKept ==
  ASSUME TypeOK, [Next]_vars, NEW i \in Jobs, pc'[i] \in {"decide", "settle"}
  PROVE  CountKept(i)
<1> pc \in [Jobs -> Labels] /\ cnt \in [Jobs -> Nat]
  BY DEF TypeOK
<1> USE DEF Goto, CountKept
<1>1. ASSUME NEW j \in Jobs, NEW r \in Runs, CallAcquire(j, r) PROVE CountKept(i)
  BY <1>1 DEF CallAcquire, Call, redis, rewrite, bounds, Admit, HasRoom, Promote
<1>2. ASSUME NEW j \in Jobs, NEW r \in Runs, CallRelease(j, r) PROVE CountKept(i)
  BY <1>2 DEF CallRelease, Call, redis, rewrite, bounds, Admit, HasRoom, Promote
<1>3. ASSUME NEW j \in Jobs, NEW r \in Runs, CallCancel(j, r) PROVE CountKept(i)
  BY <1>3 DEF CallCancel, Call, redis, rewrite, Admit, HasRoom, Promote
<1>4. ASSUME NEW j \in Jobs, NEW old \in Runs, NEW r \in Runs, CallRecover(j, old, r) PROVE CountKept(i)
  BY <1>4 DEF CallRecover, Call, redis, rewrite, bounds, Admit, HasRoom, Promote
<1>5. ASSUME NEW j \in Jobs, CallRewrite(j) PROVE CountKept(i)
  BY <1>5 DEF CallRewrite, Call, redis, bounds, Admit, HasRoom, Promote
<1>6. ASSUME NEW j \in Jobs, Lock(j) PROVE CountKept(i)
  BY <1>6 DEF Lock, MutexFree, FirstStep, bounds, rewrite, Admit, HasRoom, Promote
<1>7. ASSUME NEW j \in Jobs, LockTimeout(j) PROVE CountKept(i)
  BY <1>7 DEF LockTimeout, AfterSection, Return, redis, rewrite, bounds, Admit, HasRoom, Promote
<1>8. ASSUME NEW j \in Jobs, Unlock(j) PROVE CountKept(i)
  BY <1>8 DEF Unlock, HandsOver, AfterSection, Return, rewrite, bounds, Admit, HasRoom, Promote
<1>9. ASSUME NEW j \in Jobs, Inherit(j) PROVE CountKept(i)
  BY <1>9 DEF Inherit, Inherited, OffBooks, rewrite, bounds, Admit, HasRoom, Promote
<1>10. ASSUME NEW j \in Jobs, Count(j) PROVE CountKept(i)
  BY <1>10 DEF Count, redis, rewrite, bounds, Admit, HasRoom, Promote
<1>11. ASSUME NEW j \in Jobs, Admit(j) PROVE CountKept(i)
  BY <1>11 DEF Admit, HasRoom, rewrite, bounds, Admit, Promote
<1>12. ASSUME NEW j \in Jobs, Measure(j) PROVE CountKept(i)
  BY <1>12 DEF Measure, HasRoom, redis, rewrite, bounds, Admit, Promote
<1>13. ASSUME NEW j \in Jobs, Push(j) PROVE CountKept(i)
  BY <1>13 DEF Push, rewrite, bounds, Admit, HasRoom, Promote
<1>14. ASSUME NEW j \in Jobs, Reject(j) PROVE CountKept(i)
  BY <1>14 DEF Reject, redis, rewrite, bounds, Admit, HasRoom, Promote
<1>15. ASSUME NEW j \in Jobs, Reply(j) PROVE CountKept(i)
  BY <1>15 DEF Reply, Return, redis, rewrite, bounds, Admit, HasRoom, Promote
<1>16. ASSUME NEW j \in Jobs, ReplyFails(j) PROVE CountKept(i)
  BY <1>16 DEF ReplyFails, Return, redis, rewrite, bounds, Admit, HasRoom, Promote
<1>17. ASSUME NEW j \in Jobs, Zrem(j) PROVE CountKept(i)
  BY <1>17 DEF Zrem, AfterZrem, OffBooks, locals, rewrite, bounds, Admit, HasRoom, Promote
<1>18. ASSUME NEW j \in Jobs, NEW r \in Runs, Pop(j, r) PROVE CountKept(i)
  BY <1>18 DEF Pop, Popped, rewrite, bounds, Admit, HasRoom, Promote
<1>19. ASSUME NEW j \in Jobs, PopNone(j) PROVE CountKept(i)
  BY <1>19 DEF PopNone, redis, locals, rewrite, bounds, Admit, HasRoom, Promote
<1>20. ASSUME NEW j \in Jobs, PutBack(j) PROVE CountKept(i)
  BY <1>20 DEF PutBack, PushedBack, HasRoom, rewrite, bounds, Admit, Promote
<1>21. ASSUME NEW j \in Jobs, Promote(j) PROVE CountKept(i)
  BY <1>21 DEF Promote, HasRoom, rewrite, bounds, Admit, Promote
<1>22. ASSUME NEW j \in Jobs, Dispatch(j) PROVE CountKept(i)
  BY <1>22 DEF Dispatch, AfterSection, Return, redis, rewrite, bounds, Admit, HasRoom, Promote
<1>23. ASSUME NEW j \in Jobs, DispatchDrops(j) PROVE CountKept(i)
  BY <1>23 DEF DispatchDrops, AfterSection, Return, rewrite, bounds, Admit, HasRoom, Promote
<1>24. ASSUME NEW j \in Jobs, NEW r \in Runs, Sift(j, r) PROVE CountKept(i)
  BY <1>24 DEF Sift, Kept, redis, bounds, Admit, HasRoom, Promote
<1>25. ASSUME NEW j \in Jobs, Swap(j) PROVE CountKept(i)
  BY <1>25 DEF Swap, Told, Return, bounds, Admit, HasRoom, Promote
<1>26. ASSUME NEW r \in Runs, StartRun(r) PROVE CountKept(i)
  BY <1>26 DEF StartRun, redis, locals, rewrite, bounds, Admit, HasRoom, Promote
<1>27. ASSUME NEW r \in Runs, Refresh(r) PROVE CountKept(i)
  BY <1>27 DEF Refresh, Beating, locals, rewrite, bounds, Admit, HasRoom, Promote
<1>28. ASSUME NEW r \in Runs, FinishRun(r) PROVE CountKept(i)
  BY <1>28 DEF FinishRun, redis, locals, rewrite, bounds, Admit, HasRoom, Promote
<1>29. ASSUME NEW r \in Runs, Age(r) PROVE CountKept(i)
  BY <1>29 DEF Age, redis, locals, rewrite, bounds, Admit, HasRoom, Promote
<1>30. ASSUME NEW r \in Runs, SlotLapses(r) PROVE CountKept(i)
  BY <1>30 DEF SlotLapses, locals, rewrite, bounds, Admit, HasRoom, Promote
<1>31. CASE LockExpires
  BY <1>31 DEF LockExpires, locals, rewrite, bounds, Admit, HasRoom, Promote
<1>32. ASSUME NEW w \in Workers, Crash(w) PROVE CountKept(i)
  BY <1>32 DEF Crash, Admit, HasRoom, Promote
<1>33. CASE UNCHANGED vars
  BY <1>33 DEF vars, redis, locals, rewrite, bounds, Admit, HasRoom, Promote
<1>34. ASSUME NEW j \in Jobs, NEW r \in Runs, CallReplay(j, r) PROVE CountKept(i)
  BY <1>34 DEF CallReplay, Call, redis, rewrite, bounds, Admit, HasRoom, Promote
<1>35. ASSUME NEW w \in Workers, NEW r \in Runs, CloseUnknown(w, r) PROVE CountKept(i)
  BY <1>35 DEF CloseUnknown, redis, locals, rewrite, bounds, Admit, HasRoom, Promote
<1>36. ASSUME NEW r \in Runs, RecordRun(r) PROVE CountKept(i)
  BY <1>36 DEF RecordRun, redis, locals, rewrite, bounds, Admit, HasRoom, Promote
<1>37. QED
  BY <1>1, <1>2, <1>3, <1>4, <1>5, <1>6, <1>7, <1>8, <1>9, <1>10, <1>11, <1>12, <1>13, <1>14, <1>15, <1>16, <1>17, <1>18, <1>19, <1>20, <1>21, <1>22, <1>23, <1>24, <1>25, <1>26, <1>27, <1>28, <1>29, <1>30, <1>31, <1>32, <1>33, <1>34, <1>35, <1>36 DEF Next, JobStep, Section, RunStep

\* Nobody else can add to the books between a job's count and its decision.
LEMMA CountedStep ==
  ASSUME TypeOK, Locals, Mutex, Entered, Counted, [Next]_vars PROVE Counted'
<1> SUFFICES ASSUME NEW i \in Jobs, pc'[i] \in {"decide", "settle"}
             PROVE  Cardinality(OnBooks') <= cnt'[i]
  BY DEF Counted, CountedAt
<1>1. CASE Count(i)
  <2>1. OnBooks' = OnBooks /\ cnt'[i] = Cardinality(active)
    BY <1>1 DEF Count, OnBooks, redis, TypeOK
  <2>2. Cardinality(OnBooks) <= Cardinality(active)
    BY BooksType, FS_Subset DEF OnBooks
  <2>3. QED
    BY <2>1, <2>2
<1>2. CASE pc[i] \in {"decide", "settle"} /\ cnt'[i] = cnt[i] /\ ~Admit(i) /\ ~Promote(i)
  <2>1. lock = i
    BY <1>2 DEF Mutex, Critical
  <2>2. \A j \in Jobs : Admit(j) \/ Promote(j) => lock = j
    BY DEF Admit, HasRoom, Promote, Mutex, Critical
  <2>3. Cardinality(OnBooks') <= Cardinality(OnBooks)
    BY <1>2, <2>1, <2>2, BooksCard
  <2>4. Cardinality(OnBooks) <= cnt[i] /\ cnt[i] \in Nat
    BY <1>2 DEF Counted, CountedAt, TypeOK
  <2>5. Cardinality(OnBooks) \in Nat /\ Cardinality(OnBooks') \in Nat
    BY BooksType, BooksCard
  <2>6. QED
    BY <1>2, <2>3, <2>4, <2>5
<1>3. QED
  BY <1>1, <1>2, CountIsKept DEF CountKept

\* A decision adds a run only below the limit.
LEMMA BoundStep ==
  ASSUME TypeOK, Locals, Entered, Counted, AdmissionBound, [Next]_vars PROVE AdmissionBound'
<1>1. Cardinality(OnBooks) \in Nat /\ Cardinality(OnBooks') \in Nat
  BY BooksType, BooksCard
<1>2. CASE Cardinality(OnBooks') <= Cardinality(OnBooks)
  BY <1>1, <1>2, LimiterAssumption DEF AdmissionBound
<1>3. ASSUME NEW j \in Jobs, Admit(j) \/ Promote(j), Cardinality(OnBooks') <= Cardinality(OnBooks) + 1
      PROVE  AdmissionBound'
  <2>1. Cardinality(OnBooks) <= cnt[j] /\ cnt[j] < MaxConcurrent /\ cnt[j] \in Nat
    BY <1>3 DEF Counted, CountedAt, Admit, HasRoom, Promote, TypeOK
  <2>2. QED
    BY <1>1, <1>3, <2>1, LimiterAssumption DEF AdmissionBound
<1>4. QED
  BY <1>2, <1>3, BooksCard

\* Nothing is on the books at the start.
LEMMA IInvInit == Init => IInv
<1> SUFFICES ASSUME Init PROVE IInv
  OBVIOUS
<1>1. TypeOK /\ Locals
  BY TypeInit
<1>2. Mutex /\ Entered /\ Counted
  BY LimiterAssumption DEF Init, Mutex, Entered, EnteredBy, Counted, CountedAt, Critical
<1>3. OnBooks = {}
  BY DEF Init, OnBooks
<1>4. AdmissionBound
  BY <1>3, FS_EmptySet, LimiterAssumption DEF AdmissionBound
<1>5. QED
  BY <1>1, <1>2, <1>4 DEF IInv

\* At most MaxConcurrent runs hold a slot (AdmissionBound: acquire, release,
\* claim_recovery_slot, refresh, cancellation and crashes in any interleaving),
\* provided no section outlives USER_LOCK_TTL.
THEOREM AdmissionBounded ==
  ASSUME "slow" \notin Faults
  PROVE  Spec => []AdmissionBound
<1>1. Init => IInv
  BY IInvInit
<1>2. IInv /\ [Next]_vars => IInv'
  BY TypeStep, LocalsStep, MutexStep, EnteredStep, CountedStep, BoundStep DEF IInv
<1>3. IInv => AdmissionBound
  BY DEF IInv
<1>4. QED
  BY <1>1, <1>2, <1>3, PTL DEF Spec

-----------------------------------------------------------------------------
(* The runs that wait.                                                     *)

Elems(s) == {s[i] : i \in DOMAIN s}

\* A job in the middle of remove_from_queue has every waiting run somewhere.
ScansAll(j) ==
  pc[j] = "scan" => Queued \subseteq Elems(todo[j]) \cup Elems(keep[j]) \cup gone[j]
Scans == \A j \in Jobs : ScansAll(j)

\* No worker is rewriting the queue without the mutex.
NoRescan == \A j \in Jobs : pc[j] # "rescan"

Carrying == {"check", "settle", "unlock", "dispatch"}
WaitsBy(r) ==
  phase[r] = "queued" => r \in Queued \/ \E j \in Jobs : pc[j] \in Carrying /\ pick[j] = r
Waits == \A r \in Runs : WaitsBy(r)

WInv == TypeOK /\ Locals /\ Mutex /\ NoRescan /\ Scans /\ Waits

-----------------------------------------------------------------------------
(* The elements of a sequence.                                             *)

\* Appending adds one element.
LEMMA ElemsAppend ==
  ASSUME NEW s \in Seq(Runs), NEW e \in Runs
  PROVE  Elems(Append(s, e)) = Elems(s) \cup {e}
<1>1. Append(s, e) \in Seq(Runs) /\ Len(Append(s, e)) = Len(s) + 1
  BY AppendProperties
<1>2. \A i \in 1 .. Len(s) : Append(s, e)[i] = s[i]
  BY AppendProperties
<1>3. Append(s, e)[Len(s) + 1] = e
  BY AppendProperties
<1>4. Len(s) \in Nat /\ DOMAIN s = 1 .. Len(s) /\ DOMAIN Append(s, e) = 1 .. Len(s) + 1
  BY <1>1, LenProperties
<1>5. QED
  BY <1>2, <1>3, <1>4 DEF Elems

\* Taking the head off loses at most the head.
LEMMA ElemsTail ==
  ASSUME NEW s \in Seq(Runs), s # <<>>
  PROVE  Elems(s) = Elems(Tail(s)) \cup {Head(s)}
<1>1. Tail(s) \in Seq(Runs) /\ Len(Tail(s)) = Len(s) - 1 /\ \A i \in 1 .. Len(Tail(s)) : Tail(s)[i] = s[i + 1]
  BY HeadTailProperties
<1>2. Len(s) \in Nat \ {0} /\ DOMAIN s = 1 .. Len(s) /\ DOMAIN Tail(s) = 1 .. Len(s) - 1
  BY <1>1, LenProperties, EmptySeq
<1>3. Head(s) = s[1]
  OBVIOUS
<1>4. Elems(Tail(s)) \subseteq Elems(s)
  BY <1>1, <1>2 DEF Elems
<1>5. ASSUME NEW i \in DOMAIN s PROVE s[i] \in Elems(Tail(s)) \cup {Head(s)}
  <2>1. CASE i = 1
    BY <1>3, <2>1
  <2>2. CASE i # 1
    <3>1. i - 1 \in DOMAIN Tail(s) /\ Tail(s)[i - 1] = s[i]
      BY <1>1, <1>2, <2>2
    <3>2. QED
      BY <3>1 DEF Elems
  <2>3. QED
    BY <2>1, <2>2
<1>6. Head(s) \in Elems(s)
  BY <1>2, <1>3 DEF Elems
<1>7. QED
  BY <1>4, <1>5, <1>6 DEF Elems

\* Putting an element back in front adds it.
LEMMA ElemsPrepend ==
  ASSUME NEW s \in Seq(Runs), NEW e \in Runs
  PROVE  Elems(<<e>> \o s) = Elems(s) \cup {e}
<1>1. <<e>> \in Seq(Runs) /\ Len(<<e>>) = 1 /\ <<e>>[1] = e
  OBVIOUS
<1>2. /\ <<e>> \o s \in Seq(Runs)
      /\ Len(<<e>> \o s) = Len(s) + 1
      /\ \A i \in 1 .. Len(s) + 1 : (<<e>> \o s)[i] = IF i <= 1 THEN <<e>>[i] ELSE s[i - 1]
  BY <1>1, ConcatProperties, LenProperties
<1>3. Len(s) \in Nat /\ DOMAIN s = 1 .. Len(s) /\ DOMAIN (<<e>> \o s) = 1 .. Len(s) + 1
  BY <1>2, LenProperties
<1>4. (<<e>> \o s)[1] = e
  BY <1>1, <1>2, <1>3
<1>5. \A i \in 1 .. Len(s) : (<<e>> \o s)[i + 1] = s[i]
  BY <1>2, <1>3
<1>6. ASSUME NEW i \in 1 .. Len(s) + 1 PROVE (<<e>> \o s)[i] \in Elems(s) \cup {e}
  <2>1. CASE i = 1
    BY <1>4, <2>1
  <2>2. CASE i # 1
    <3>1. i - 1 \in 1 .. Len(s) /\ (<<e>> \o s)[i] = s[i - 1]
      BY <1>2, <1>3, <2>2
    <3>2. QED
      BY <1>3, <3>1 DEF Elems
  <2>3. QED
    BY <2>1, <2>2
<1>7. e \in Elems(<<e>> \o s)
  BY <1>3, <1>4 DEF Elems
<1>8. ASSUME NEW i \in 1 .. Len(s) PROVE s[i] \in Elems(<<e>> \o s)
  <2>1. i + 1 \in DOMAIN (<<e>> \o s)
    BY <1>3
  <2>2. QED
    BY <1>5, <2>1 DEF Elems
<1>9. QED
  BY <1>3, <1>6, <1>7, <1>8 DEF Elems


-----------------------------------------------------------------------------
(* The steps.                                                              *)

\* Only the start-up rewrite works on the list without the mutex.
LEMMA NoRescanStep ==
  ASSUME "rewrite" \notin Faults
  PROVE  TypeOK /\ NoRescan /\ [Next]_vars => NoRescan'
<1> SUFFICES ASSUME TypeOK, NoRescan, [Next]_vars, NEW i \in Jobs PROVE pc'[i] # "rescan"
  BY DEF NoRescan
<1> JobTypes /\ pc[i] # "rescan"
  BY DEF NoRescan, TypeOK, JobTypes
<1> USE LimiterAssumption DEF Goto, Mark
<1>1. ASSUME NEW j \in Jobs, NEW r \in Runs, CallAcquire(j, r) PROVE pc'[i] # "rescan"
  BY <1>1 DEF CallAcquire, Call, redis, rewrite, bounds, JobTypes
<1>2. ASSUME NEW j \in Jobs, NEW r \in Runs, CallRelease(j, r) PROVE pc'[i] # "rescan"
  BY <1>2 DEF CallRelease, Call, redis, rewrite, bounds, JobTypes
<1>3. ASSUME NEW j \in Jobs, NEW r \in Runs, CallCancel(j, r) PROVE pc'[i] # "rescan"
  BY <1>3 DEF CallCancel, Call, redis, rewrite, JobTypes
<1>4. ASSUME NEW j \in Jobs, NEW old \in Runs, NEW r \in Runs, CallRecover(j, old, r) PROVE pc'[i] # "rescan"
  BY <1>4 DEF CallRecover, Call, redis, rewrite, bounds, JobTypes
<1>5. ASSUME NEW j \in Jobs, CallRewrite(j) PROVE pc'[i] # "rescan"
  BY <1>5 DEF CallRewrite, Call, redis, bounds, JobTypes
<1>6. ASSUME NEW j \in Jobs, Lock(j) PROVE pc'[i] # "rescan"
  BY <1>6 DEF Lock, MutexFree, FirstStep, bounds, rewrite, JobTypes
<1>7. ASSUME NEW j \in Jobs, LockTimeout(j) PROVE pc'[i] # "rescan"
  BY <1>7 DEF LockTimeout, AfterSection, Return, redis, rewrite, bounds, JobTypes
<1>8. ASSUME NEW j \in Jobs, Unlock(j) PROVE pc'[i] # "rescan"
  BY <1>8 DEF Unlock, HandsOver, AfterSection, Return, rewrite, bounds, JobTypes
<1>9. ASSUME NEW j \in Jobs, Inherit(j) PROVE pc'[i] # "rescan"
  BY <1>9 DEF Inherit, Inherited, OffBooks, rewrite, bounds, JobTypes
<1>10. ASSUME NEW j \in Jobs, Count(j) PROVE pc'[i] # "rescan"
  BY <1>10 DEF Count, redis, rewrite, bounds, JobTypes
<1>11. ASSUME NEW j \in Jobs, Admit(j) PROVE pc'[i] # "rescan"
  BY <1>11 DEF Admit, HasRoom, rewrite, bounds, JobTypes
<1>12. ASSUME NEW j \in Jobs, Measure(j) PROVE pc'[i] # "rescan"
  BY <1>12 DEF Measure, HasRoom, redis, rewrite, bounds, JobTypes
<1>13. ASSUME NEW j \in Jobs, Push(j) PROVE pc'[i] # "rescan"
  BY <1>13 DEF Push, rewrite, bounds, JobTypes
<1>14. ASSUME NEW j \in Jobs, Reject(j) PROVE pc'[i] # "rescan"
  BY <1>14 DEF Reject, redis, rewrite, bounds, JobTypes
<1>15. ASSUME NEW j \in Jobs, Reply(j) PROVE pc'[i] # "rescan"
  BY <1>15 DEF Reply, Return, redis, rewrite, bounds, JobTypes
<1>16. ASSUME NEW j \in Jobs, ReplyFails(j) PROVE pc'[i] # "rescan"
  BY <1>16 DEF ReplyFails, Return, redis, rewrite, bounds, JobTypes
<1>17. ASSUME NEW j \in Jobs, Zrem(j) PROVE pc'[i] # "rescan"
  BY <1>17 DEF Zrem, AfterZrem, OffBooks, locals, rewrite, bounds, JobTypes
<1>18. ASSUME NEW j \in Jobs, NEW r \in Runs, Pop(j, r) PROVE pc'[i] # "rescan"
  BY <1>18 DEF Pop, Popped, rewrite, bounds, JobTypes
<1>19. ASSUME NEW j \in Jobs, PopNone(j) PROVE pc'[i] # "rescan"
  BY <1>19 DEF PopNone, redis, locals, rewrite, bounds, JobTypes
<1>20. ASSUME NEW j \in Jobs, PutBack(j) PROVE pc'[i] # "rescan"
  BY <1>20 DEF PutBack, HasRoom, PushedBack, rewrite, bounds, JobTypes
<1>21. ASSUME NEW j \in Jobs, Promote(j) PROVE pc'[i] # "rescan"
  BY <1>21 DEF Promote, HasRoom, rewrite, bounds, JobTypes
<1>22. ASSUME NEW j \in Jobs, Dispatch(j) PROVE pc'[i] # "rescan"
  BY <1>22 DEF Dispatch, AfterSection, Return, redis, rewrite, bounds, JobTypes
<1>23. ASSUME NEW j \in Jobs, DispatchDrops(j) PROVE pc'[i] # "rescan"
  BY <1>23 DEF DispatchDrops, AfterSection, Return, rewrite, bounds, JobTypes
<1>24. ASSUME NEW j \in Jobs, NEW r \in Runs, Sift(j, r) PROVE pc'[i] # "rescan"
  BY <1>24 DEF Sift, Kept, redis, bounds, JobTypes
<1>25. ASSUME NEW j \in Jobs, Swap(j) PROVE pc'[i] # "rescan"
  BY <1>25 DEF Swap, Told, Return, bounds, JobTypes
<1>26. ASSUME NEW r \in Runs, StartRun(r) PROVE pc'[i] # "rescan"
  BY <1>26 DEF StartRun, redis, locals, rewrite, bounds, JobTypes
<1>27. ASSUME NEW r \in Runs, Refresh(r) PROVE pc'[i] # "rescan"
  BY <1>27 DEF Refresh, Beating, locals, rewrite, bounds, JobTypes
<1>28. ASSUME NEW r \in Runs, FinishRun(r) PROVE pc'[i] # "rescan"
  BY <1>28 DEF FinishRun, redis, locals, rewrite, bounds, JobTypes
<1>29. ASSUME NEW r \in Runs, Age(r) PROVE pc'[i] # "rescan"
  BY <1>29 DEF Age, redis, locals, rewrite, bounds, JobTypes
<1>30. ASSUME NEW r \in Runs, SlotLapses(r) PROVE pc'[i] # "rescan"
  BY <1>30 DEF SlotLapses, locals, rewrite, bounds, JobTypes
<1>31. CASE LockExpires
  BY <1>31 DEF LockExpires, locals, rewrite, bounds, JobTypes
<1>32. ASSUME NEW w \in Workers, Crash(w) PROVE pc'[i] # "rescan"
  BY <1>32 DEF Crash, JobTypes
<1>33. CASE UNCHANGED vars
  BY <1>33 DEF vars, redis, locals, rewrite, bounds, JobTypes
<1>34. ASSUME NEW j \in Jobs, NEW r \in Runs, CallReplay(j, r) PROVE pc'[i] # "rescan"
  BY <1>34 DEF CallReplay, Call, redis, rewrite, bounds, JobTypes
<1>35. ASSUME NEW w \in Workers, NEW r \in Runs, CloseUnknown(w, r) PROVE pc'[i] # "rescan"
  BY <1>35 DEF CloseUnknown, redis, locals, rewrite, bounds, JobTypes
<1>36. ASSUME NEW r \in Runs, RecordRun(r) PROVE pc'[i] # "rescan"
  BY <1>36 DEF RecordRun, redis, locals, rewrite, bounds, JobTypes
<1>37. QED
  BY <1>1, <1>2, <1>3, <1>4, <1>5, <1>6, <1>7, <1>8, <1>9, <1>10, <1>11, <1>12, <1>13, <1>14, <1>15, <1>16, <1>17, <1>18, <1>19, <1>20, <1>21, <1>22, <1>23, <1>24, <1>25, <1>26, <1>27, <1>28, <1>29, <1>30, <1>31, <1>32, <1>33, <1>34, <1>35, <1>36 DEF Next, JobStep, Section, RunStep

\* While a job rebuilds the list nobody else changes it.
LEMMA ScansStep ==
  TypeOK /\ Locals /\ Mutex /\ NoRescan /\ Scans /\ [Next]_vars => Scans'
<1> SUFFICES ASSUME TypeOK, Locals, Mutex, NoRescan, Scans, [Next]_vars, NEW i \in Jobs
             PROVE  ScansAll(i)'
  BY DEF Scans
<1> JobTypes /\ ScansAll(i) /\ pc[i] # "rescan"
  BY DEF Scans, NoRescan, TypeOK, JobTypes
<1> /\ todo \in [Jobs -> Seq(Runs)] /\ keep \in [Jobs -> Seq(Runs)]
    /\ gone \in [Jobs -> SUBSET Runs] /\ queue \in Seq(Runs)
  BY DEF TypeOK
<1> (pc[i] \in Critical => lock = i) /\ \A j \in Jobs : pc[j] \in Critical => lock = j
  BY DEF Mutex
<1> \A j \in Jobs : pc[j] # "rescan"
  BY DEF NoRescan
<1> USE LimiterAssumption DEF Goto, Mark, ScansAll, Critical, Queued
<1>1. ASSUME NEW j \in Jobs, NEW r \in Runs, CallAcquire(j, r) PROVE ScansAll(i)'
  BY <1>1 DEF CallAcquire, Call, redis, rewrite, bounds, JobTypes
<1>2. ASSUME NEW j \in Jobs, NEW r \in Runs, CallRelease(j, r) PROVE ScansAll(i)'
  BY <1>2 DEF CallRelease, Call, redis, rewrite, bounds, JobTypes
<1>3. ASSUME NEW j \in Jobs, NEW r \in Runs, CallCancel(j, r) PROVE ScansAll(i)'
  BY <1>3 DEF CallCancel, Call, redis, rewrite, JobTypes
<1>4. ASSUME NEW j \in Jobs, NEW old \in Runs, NEW r \in Runs, CallRecover(j, old, r) PROVE ScansAll(i)'
  BY <1>4 DEF CallRecover, Call, redis, rewrite, bounds, JobTypes
<1>5. ASSUME NEW j \in Jobs, CallRewrite(j) PROVE ScansAll(i)'
  BY <1>5 DEF CallRewrite, Call, redis, bounds, JobTypes
<1>6. ASSUME NEW j \in Jobs, Lock(j) PROVE ScansAll(i)'
  <2>1. CASE i = j /\ op[j] = "remove"
    BY <1>6, <2>1 DEF Lock, MutexFree, FirstStep, rewrite, bounds, JobTypes, Elems
  <2>2. CASE ~(i = j /\ op[j] = "remove")
    BY <1>6, <2>2 DEF Lock, MutexFree, FirstStep, rewrite, bounds, JobTypes
  <2>3. QED
    BY <2>1, <2>2
<1>7. ASSUME NEW j \in Jobs, LockTimeout(j) PROVE ScansAll(i)'
  BY <1>7 DEF LockTimeout, AfterSection, Return, redis, rewrite, bounds, JobTypes
<1>8. ASSUME NEW j \in Jobs, Unlock(j) PROVE ScansAll(i)'
  BY <1>8 DEF Unlock, HandsOver, AfterSection, Return, rewrite, bounds, JobTypes
<1>9. ASSUME NEW j \in Jobs, Inherit(j) PROVE ScansAll(i)'
  BY <1>9 DEF Inherit, Inherited, OffBooks, rewrite, bounds, JobTypes
<1>10. ASSUME NEW j \in Jobs, Count(j) PROVE ScansAll(i)'
  BY <1>10 DEF Count, redis, rewrite, bounds, JobTypes
<1>11. ASSUME NEW j \in Jobs, Admit(j) PROVE ScansAll(i)'
  BY <1>11 DEF Admit, HasRoom, rewrite, bounds, JobTypes
<1>12. ASSUME NEW j \in Jobs, Measure(j) PROVE ScansAll(i)'
  BY <1>12 DEF Measure, HasRoom, redis, rewrite, bounds, JobTypes
<1>13. ASSUME NEW j \in Jobs, Push(j) PROVE ScansAll(i)'
  BY <1>13 DEF Push, rewrite, bounds, JobTypes
<1>14. ASSUME NEW j \in Jobs, Reject(j) PROVE ScansAll(i)'
  BY <1>14 DEF Reject, redis, rewrite, bounds, JobTypes
<1>15. ASSUME NEW j \in Jobs, Reply(j) PROVE ScansAll(i)'
  BY <1>15 DEF Reply, Return, redis, rewrite, bounds, JobTypes
<1>16. ASSUME NEW j \in Jobs, ReplyFails(j) PROVE ScansAll(i)'
  BY <1>16 DEF ReplyFails, Return, redis, rewrite, bounds, JobTypes
<1>17. ASSUME NEW j \in Jobs, Zrem(j) PROVE ScansAll(i)'
  BY <1>17 DEF Zrem, AfterZrem, OffBooks, locals, rewrite, bounds, JobTypes
<1>18. ASSUME NEW j \in Jobs, NEW r \in Runs, Pop(j, r) PROVE ScansAll(i)'
  BY <1>18 DEF Pop, Popped, rewrite, bounds, JobTypes
<1>19. ASSUME NEW j \in Jobs, PopNone(j) PROVE ScansAll(i)'
  BY <1>19 DEF PopNone, redis, locals, rewrite, bounds, JobTypes
<1>20. ASSUME NEW j \in Jobs, PutBack(j) PROVE ScansAll(i)'
  BY <1>20 DEF PutBack, HasRoom, PushedBack, rewrite, bounds, JobTypes
<1>21. ASSUME NEW j \in Jobs, Promote(j) PROVE ScansAll(i)'
  BY <1>21 DEF Promote, HasRoom, rewrite, bounds, JobTypes
<1>22. ASSUME NEW j \in Jobs, Dispatch(j) PROVE ScansAll(i)'
  BY <1>22 DEF Dispatch, AfterSection, Return, redis, rewrite, bounds, JobTypes
<1>23. ASSUME NEW j \in Jobs, DispatchDrops(j) PROVE ScansAll(i)'
  BY <1>23 DEF DispatchDrops, AfterSection, Return, rewrite, bounds, JobTypes
<1>24. ASSUME NEW j \in Jobs, NEW r \in Runs, Sift(j, r) PROVE ScansAll(i)'
  <2>1. CASE i # j
    BY <1>24, <2>1 DEF Sift, Kept, redis, bounds, JobTypes
  <2>2. CASE i = j /\ pc[i] = "scan"
    <3>1. todo[i] # <<>> /\ Elems(todo[i]) = Elems(Tail(todo[i])) \cup {r}
      BY <1>24, <2>2, ElemsTail DEF Sift
    <3>2. Elems(Append(keep[i], r)) = Elems(keep[i]) \cup {r}
      BY ElemsAppend
    <3>3. queue' = queue /\ todo'[i] = Tail(todo[i])
      BY <1>24, <2>2 DEF Sift, redis
    <3>4. \/ gone'[i] = gone[i] \cup {r} /\ keep'[i] = keep[i]
          \/ gone'[i] = gone[i] /\ keep'[i] = Append(keep[i], r)
      BY <1>24, <2>2 DEF Sift, Kept
    <3>5. pc'[i] = pc[i] /\ queue' = queue
      BY <1>24 DEF Sift, redis
    <3>6. Elems(todo'[i]) \cup Elems(keep'[i]) \cup gone'[i]
            = Elems(todo[i]) \cup Elems(keep[i]) \cup gone[i]
      BY <3>1, <3>2, <3>3, <3>4
    <3>7. QED
      BY <2>2, <3>5, <3>6
  <2>3. CASE i = j /\ pc[i] # "scan"
    BY <1>24, <2>3 DEF Sift
  <2>4. QED
    BY <2>1, <2>2, <2>3
<1>25. ASSUME NEW j \in Jobs, Swap(j) PROVE ScansAll(i)'
  BY <1>25 DEF Swap, Told, Return, bounds, JobTypes
<1>26. ASSUME NEW r \in Runs, StartRun(r) PROVE ScansAll(i)'
  BY <1>26 DEF StartRun, redis, locals, rewrite, bounds, JobTypes
<1>27. ASSUME NEW r \in Runs, Refresh(r) PROVE ScansAll(i)'
  BY <1>27 DEF Refresh, Beating, locals, rewrite, bounds, JobTypes
<1>28. ASSUME NEW r \in Runs, FinishRun(r) PROVE ScansAll(i)'
  BY <1>28 DEF FinishRun, redis, locals, rewrite, bounds, JobTypes
<1>29. ASSUME NEW r \in Runs, Age(r) PROVE ScansAll(i)'
  BY <1>29 DEF Age, redis, locals, rewrite, bounds, JobTypes
<1>30. ASSUME NEW r \in Runs, SlotLapses(r) PROVE ScansAll(i)'
  BY <1>30 DEF SlotLapses, locals, rewrite, bounds, JobTypes
<1>31. CASE LockExpires
  BY <1>31 DEF LockExpires, locals, rewrite, bounds, JobTypes
<1>32. ASSUME NEW w \in Workers, Crash(w) PROVE ScansAll(i)'
  BY <1>32 DEF Crash, JobTypes
<1>33. CASE UNCHANGED vars
  BY <1>33 DEF vars, redis, locals, rewrite, bounds, JobTypes
<1>34. ASSUME NEW j \in Jobs, NEW r \in Runs, CallReplay(j, r) PROVE ScansAll(i)'
  BY <1>34 DEF CallReplay, Call, redis, rewrite, bounds, JobTypes
<1>35. ASSUME NEW w \in Workers, NEW r \in Runs, CloseUnknown(w, r) PROVE ScansAll(i)'
  BY <1>35 DEF CloseUnknown, redis, locals, rewrite, bounds, JobTypes
<1>36. ASSUME NEW r \in Runs, RecordRun(r) PROVE ScansAll(i)'
  BY <1>36 DEF RecordRun, redis, locals, rewrite, bounds, JobTypes
<1>37. QED
  BY <1>1, <1>2, <1>3, <1>4, <1>5, <1>6, <1>7, <1>8, <1>9, <1>10, <1>11, <1>12, <1>13, <1>14, <1>15, <1>16, <1>17, <1>18, <1>19, <1>20, <1>21, <1>22, <1>23, <1>24, <1>25, <1>26, <1>27, <1>28, <1>29, <1>30, <1>31, <1>32, <1>33, <1>34, <1>35, <1>36 DEF Next, JobStep, Section, RunStep

\* A waiting run leaves the list only into the hands of a job, and these only
\* when it is started, dropped or back in the list.
LEMMA WaitsStep ==
  TypeOK /\ Locals /\ Mutex /\ NoRescan /\ Scans /\ Waits /\ [Next]_vars => Waits'
<1> SUFFICES ASSUME TypeOK, Locals, Mutex, NoRescan, Scans, Waits, [Next]_vars, NEW i \in Runs
             PROVE  WaitsBy(i)'
  BY DEF Waits
<1> JobTypes /\ WaitsBy(i) /\ phase \in [Runs -> Phases]
  BY DEF Waits, TypeOK, JobTypes
<1> queue \in Seq(Runs) /\ todo \in [Jobs -> Seq(Runs)]
  BY DEF TypeOK
<1> \A j \in Jobs : LocalsOf(j) /\ pc[j] # "rescan"
  BY DEF Locals, NoRescan
<1> Queued = Elems(queue) /\ Queued' = Elems(queue')
  BY DEF Queued, Elems
<1> USE LimiterAssumption DEF Goto, Mark, Carrying, WaitsBy
<1>1. ASSUME NEW j \in Jobs, NEW r \in Runs, CallAcquire(j, r) PROVE WaitsBy(i)'
  BY <1>1 DEF CallAcquire, Call, redis, rewrite, bounds, JobTypes, LocalsOf
<1>2. ASSUME NEW j \in Jobs, NEW r \in Runs, CallRelease(j, r) PROVE WaitsBy(i)'
  BY <1>2 DEF CallRelease, Call, redis, rewrite, bounds, JobTypes, LocalsOf
<1>3. ASSUME NEW j \in Jobs, NEW r \in Runs, CallCancel(j, r) PROVE WaitsBy(i)'
  BY <1>3 DEF CallCancel, Call, redis, rewrite, JobTypes, LocalsOf
<1>4. ASSUME NEW j \in Jobs, NEW old \in Runs, NEW r \in Runs, CallRecover(j, old, r) PROVE WaitsBy(i)'
  BY <1>4 DEF CallRecover, Call, redis, rewrite, bounds, JobTypes, LocalsOf
<1>5. ASSUME NEW j \in Jobs, CallRewrite(j) PROVE WaitsBy(i)'
  BY <1>5 DEF CallRewrite, Call, redis, bounds, JobTypes, LocalsOf
<1>6. ASSUME NEW j \in Jobs, Lock(j) PROVE WaitsBy(i)'
  BY <1>6 DEF Lock, MutexFree, FirstStep, bounds, rewrite, JobTypes, LocalsOf
<1>7. ASSUME NEW j \in Jobs, LockTimeout(j) PROVE WaitsBy(i)'
  BY <1>7 DEF LockTimeout, AfterSection, Return, redis, rewrite, bounds, JobTypes, LocalsOf
<1>8. ASSUME NEW j \in Jobs, Unlock(j) PROVE WaitsBy(i)'
  BY <1>8 DEF Unlock, HandsOver, AfterSection, Return, rewrite, bounds, JobTypes, LocalsOf
<1>9. ASSUME NEW j \in Jobs, Inherit(j) PROVE WaitsBy(i)'
  BY <1>9 DEF Inherit, Inherited, OffBooks, rewrite, bounds, JobTypes, LocalsOf
<1>10. ASSUME NEW j \in Jobs, Count(j) PROVE WaitsBy(i)'
  BY <1>10 DEF Count, redis, rewrite, bounds, JobTypes, LocalsOf
<1>11. ASSUME NEW j \in Jobs, Admit(j) PROVE WaitsBy(i)'
  BY <1>11 DEF Admit, HasRoom, rewrite, bounds, JobTypes, LocalsOf
<1>12. ASSUME NEW j \in Jobs, Measure(j) PROVE WaitsBy(i)'
  BY <1>12 DEF Measure, HasRoom, redis, rewrite, bounds, JobTypes, LocalsOf
<1>13. ASSUME NEW j \in Jobs, Push(j) PROVE WaitsBy(i)'
  <2>1. run[j] \in Runs
    BY <1>13 DEF Push, LocalsOf
  <2>2. Elems(queue') = Elems(queue) \cup {run[j]}
    BY <1>13, <2>1, ElemsAppend DEF Push
  <2>3. QED
    BY <1>13, <2>1, <2>2 DEF Push, rewrite, bounds, JobTypes
<1>14. ASSUME NEW j \in Jobs, Reject(j) PROVE WaitsBy(i)'
  BY <1>14 DEF Reject, redis, rewrite, bounds, JobTypes, LocalsOf
<1>15. ASSUME NEW j \in Jobs, Reply(j) PROVE WaitsBy(i)'
  BY <1>15 DEF Reply, Return, redis, rewrite, bounds, JobTypes, LocalsOf
<1>16. ASSUME NEW j \in Jobs, ReplyFails(j) PROVE WaitsBy(i)'
  BY <1>16 DEF ReplyFails, Return, redis, rewrite, bounds, JobTypes, LocalsOf
<1>17. ASSUME NEW j \in Jobs, Zrem(j) PROVE WaitsBy(i)'
  BY <1>17 DEF Zrem, AfterZrem, OffBooks, locals, rewrite, bounds, JobTypes, LocalsOf
<1>18. ASSUME NEW j \in Jobs, NEW r \in Runs, Pop(j, r) PROVE WaitsBy(i)'
  <2>1. Elems(queue) = Elems(queue') \cup {r}
    BY <1>18, ElemsTail DEF Pop, Popped
  <2>2. CASE i = r
    BY <1>18, <2>1, <2>2 DEF Pop, Popped, rewrite, bounds, JobTypes
  <2>3. CASE i # r
    BY <1>18, <2>1, <2>3 DEF Pop, Popped, rewrite, bounds, JobTypes
  <2>4. QED
    BY <2>2, <2>3
<1>19. ASSUME NEW j \in Jobs, PopNone(j) PROVE WaitsBy(i)'
  BY <1>19 DEF PopNone, redis, locals, rewrite, bounds, JobTypes, LocalsOf
<1>20. ASSUME NEW j \in Jobs, PutBack(j) PROVE WaitsBy(i)'
  <2>1. pick[j] \in Runs
    BY <1>20 DEF PutBack, HasRoom, PushedBack, LocalsOf
  <2>2. Elems(queue') = Elems(queue) \cup {pick[j]}
    BY <1>20, <2>1, ElemsPrepend DEF PutBack, HasRoom, PushedBack
  <2>3. QED
    BY <1>20, <2>1, <2>2 DEF PutBack, HasRoom, PushedBack, rewrite, bounds, JobTypes
<1>21. ASSUME NEW j \in Jobs, Promote(j) PROVE WaitsBy(i)'
  BY <1>21 DEF Promote, HasRoom, rewrite, bounds, JobTypes, LocalsOf
<1>22. ASSUME NEW j \in Jobs, Dispatch(j) PROVE WaitsBy(i)'
  BY <1>22 DEF Dispatch, AfterSection, Return, redis, rewrite, bounds, JobTypes, LocalsOf
<1>23. ASSUME NEW j \in Jobs, DispatchDrops(j) PROVE WaitsBy(i)'
  BY <1>23 DEF DispatchDrops, AfterSection, Return, rewrite, bounds, JobTypes, LocalsOf
<1>24. ASSUME NEW j \in Jobs, NEW r \in Runs, Sift(j, r) PROVE WaitsBy(i)'
  BY <1>24 DEF Sift, Kept, redis, bounds, JobTypes, LocalsOf
<1>25. ASSUME NEW j \in Jobs, Swap(j) PROVE WaitsBy(i)'
  <2>1. pc[j] = "scan" /\ todo[j] = <<>> /\ ScansAll(j)
    BY <1>25 DEF Swap, Scans
  <2>2. Elems(queue) \subseteq Elems(keep[j]) \cup gone[j]
    <3>1. Elems(todo[j]) = {}
      BY <2>1 DEF Elems
    <3>2. QED
      BY <2>1, <3>1 DEF ScansAll
  <2>3. queue' = queue \/ queue' = keep[j]
    BY <1>25 DEF Swap
  <2>4. i \in gone[j] => phase'[i] # "queued"
    BY <1>25, <2>1 DEF Swap, Told
  <2>5. phase'[i] = "queued" => phase[i] = "queued"
    BY <1>25, <2>1 DEF Swap, Told
  <2>6. QED
    BY <1>25, <2>1, <2>2, <2>3, <2>4, <2>5 DEF Swap, Return, bounds, JobTypes
<1>26. ASSUME NEW r \in Runs, StartRun(r) PROVE WaitsBy(i)'
  BY <1>26 DEF StartRun, redis, locals, rewrite, bounds, JobTypes, LocalsOf
<1>27. ASSUME NEW r \in Runs, Refresh(r) PROVE WaitsBy(i)'
  BY <1>27 DEF Refresh, Beating, locals, rewrite, bounds, JobTypes, LocalsOf
<1>28. ASSUME NEW r \in Runs, FinishRun(r) PROVE WaitsBy(i)'
  BY <1>28 DEF FinishRun, redis, locals, rewrite, bounds, JobTypes, LocalsOf
<1>29. ASSUME NEW r \in Runs, Age(r) PROVE WaitsBy(i)'
  BY <1>29 DEF Age, redis, locals, rewrite, bounds, JobTypes, LocalsOf
<1>30. ASSUME NEW r \in Runs, SlotLapses(r) PROVE WaitsBy(i)'
  BY <1>30 DEF SlotLapses, locals, rewrite, bounds, JobTypes, LocalsOf
<1>31. CASE LockExpires
  BY <1>31 DEF LockExpires, locals, rewrite, bounds, JobTypes, LocalsOf
<1>32. ASSUME NEW w \in Workers, Crash(w) PROVE WaitsBy(i)'
  <2>1. phase'[i] = "queued" => phase[i] = "queued"
    BY <1>32 DEF Crash
  <2>2. ASSUME NEW j \in Jobs, pc[j] \in Carrying, pick[j] = i, phase'[i] = "queued" PROVE HomeOf[j] # w
    BY <1>32, <2>1, <2>2 DEF Crash
  <2>3. \A j \in Jobs : HomeOf[j] # w => pc'[j] = pc[j] /\ pick'[j] = pick[j]
    BY <1>32 DEF Crash, JobTypes
  <2>4. queue' = queue
    BY <1>32 DEF Crash
  <2>5. QED
    BY <2>1, <2>2, <2>3, <2>4
<1>33. CASE UNCHANGED vars
  BY <1>33 DEF vars, redis, locals, rewrite, bounds, JobTypes, LocalsOf
<1>34. ASSUME NEW j \in Jobs, NEW r \in Runs, CallReplay(j, r) PROVE WaitsBy(i)'
  BY <1>34 DEF CallReplay, Call, redis, rewrite, bounds, JobTypes, LocalsOf
<1>35. ASSUME NEW w \in Workers, NEW r \in Runs, CloseUnknown(w, r) PROVE WaitsBy(i)'
  BY <1>35 DEF CloseUnknown, redis, locals, rewrite, bounds, JobTypes, LocalsOf
<1>36. ASSUME NEW r \in Runs, RecordRun(r) PROVE WaitsBy(i)'
  BY <1>36 DEF RecordRun, redis, locals, rewrite, bounds, JobTypes, LocalsOf
<1>37. QED
  BY <1>1, <1>2, <1>3, <1>4, <1>5, <1>6, <1>7, <1>8, <1>9, <1>10, <1>11, <1>12, <1>13, <1>14, <1>15, <1>16, <1>17, <1>18, <1>19, <1>20, <1>21, <1>22, <1>23, <1>24, <1>25, <1>26, <1>27, <1>28, <1>29, <1>30, <1>31, <1>32, <1>33, <1>34, <1>35, <1>36 DEF Next, JobStep, Section, RunStep

\* A run that was told it is queued is never lost (NoLostRun: acquire's push, the
\* pop and push-back of release, remove_from_queue, dispatch and crashes in any
\* interleaving), provided sections do not outlive the mutex and no start-up
\* rewrite runs beside them.
THEOREM QueuedNeverLost ==
  ASSUME "slow" \notin Faults, "rewrite" \notin Faults
  PROVE  Spec => []NoLostRun
<1>1. Init => WInv
  <2> SUFFICES ASSUME Init PROVE WInv
    OBVIOUS
  <2>1. TypeOK /\ Locals
    BY TypeInit
  <2>2. Mutex /\ NoRescan /\ Scans /\ Waits
    BY DEF Init, Mutex, NoRescan, Scans, ScansAll, Waits, WaitsBy, Critical
  <2>3. QED
    BY <2>1, <2>2 DEF WInv
<1>2. WInv /\ [Next]_vars => WInv'
  BY TypeStep, LocalsStep, MutexStep, NoRescanStep, ScansStep, WaitsStep DEF WInv
<1>3. WInv => NoLostRun
  BY DEF WInv, Waits, WaitsBy, NoLostRun, Carried, Carrying
<1>4. QED
  BY <1>1, <1>2, <1>3, PTL DEF Spec

-----------------------------------------------------------------------------
(* A waiting run is in one place only.                                     *)

\* No element occurs twice.
Distinct(s) == \A i, k \in DOMAIN s : s[i] = s[k] => i = k

\* Where a job carries no entry: a job that answers or scans has none to dispatch.
PickOf(j) ==
  /\ pc[j] \notin Carrying \cup {"lock", "inherit"} => pick[j] = NoRun
  /\ pc[j] = "lock" /\ op[j] # "recover" => pick[j] = NoRun
Picks == \A j \in Jobs : PickOf(j)

\* A job that asks for a slot asks for a run that has not been answered yet.
Asks == {"acquire", "recover"}
AskOf(j) ==
  op[j] \in Asks =>
    /\ phase[run[j]] # "new"
    /\ pc[j] \in {"lock", "inherit", "count", "decide", "push"} => phase[run[j]] = "asked"
Askers == \A j \in Jobs : AskOf(j)

\* Two jobs never ask for the same run.
ApartFrom(i, j) == op[i] \in Asks /\ op[j] \in Asks /\ run[i] = run[j] => i = j
Owners == \A i, j \in Jobs : ApartFrom(i, j)

\* A run that has a task is past waiting.
TaskOf(w, r) == r \in tasks[w] => phase[r] \notin {"new", "asked", "admitted", "queued"}
Tasked == \A w \in Workers : \A r \in Runs : TaskOf(w, r)

\* A run is in the list, carried by one job, or neither; while it is, it waits.
Carries(j, r) == pc[j] \in Carrying /\ pick[j] = r
OnceOf(r) ==
  /\ r \in Queued => phase[r] = "queued" /\ \A j \in Jobs : ~Carries(j, r)
  /\ \A j \in Jobs : Carries(j, r) => phase[r] = "queued"
  /\ \A i, j \in Jobs : Carries(i, r) /\ Carries(j, r) => i = j
Once == \A r \in Runs : OnceOf(r)

\* A rebuild in progress splits the list into three parts without repetition.
SiftOf(j) ==
  pc[j] = "scan" =>
    /\ Distinct(todo[j]) /\ Distinct(keep[j])
    /\ Elems(todo[j]) \cup Elems(keep[j]) \cup gone[j] \subseteq Queued
    /\ Elems(todo[j]) \cap Elems(keep[j]) = {}
    /\ Elems(todo[j]) \cap gone[j] = {}
    /\ Elems(keep[j]) \cap gone[j] = {}
Sifts == \A j \in Jobs : SiftOf(j)

-----------------------------------------------------------------------------
(* Sequences without repetition.                                           *)

\* Appending a new element repeats nothing.
LEMMA DistinctAppend ==
  ASSUME NEW s \in Seq(Runs), NEW e \in Runs, Distinct(s), e \notin Elems(s)
  PROVE  Distinct(Append(s, e))
<1>1. Append(s, e) \in Seq(Runs) /\ Len(Append(s, e)) = Len(s) + 1
  BY AppendProperties
<1>2. \A i \in 1 .. Len(s) : Append(s, e)[i] = s[i]
  BY AppendProperties
<1>3. Append(s, e)[Len(s) + 1] = e
  BY AppendProperties
<1>4. Len(s) \in Nat /\ DOMAIN s = 1 .. Len(s) /\ DOMAIN Append(s, e) = 1 .. Len(s) + 1
  BY <1>1, LenProperties
<1>5. QED
  BY <1>2, <1>3, <1>4 DEF Elems, Distinct

\* The head does not occur in the tail.
LEMMA DistinctTail ==
  ASSUME NEW s \in Seq(Runs), s # <<>>, Distinct(s)
  PROVE  Distinct(Tail(s)) /\ Head(s) \notin Elems(Tail(s))
<1>1. Tail(s) \in Seq(Runs) /\ Len(Tail(s)) = Len(s) - 1 /\ \A i \in 1 .. Len(Tail(s)) : Tail(s)[i] = s[i + 1]
  BY HeadTailProperties
<1>2. Len(s) \in Nat \ {0} /\ DOMAIN s = 1 .. Len(s) /\ DOMAIN Tail(s) = 1 .. Len(s) - 1
  BY <1>1, LenProperties, EmptySeq
<1>3. Head(s) = s[1]
  OBVIOUS
<1>4. Distinct(Tail(s))
  BY <1>1, <1>2 DEF Distinct
<1>5. Head(s) \notin Elems(Tail(s))
  BY <1>1, <1>2, <1>3 DEF Distinct, Elems
<1>6. QED
  BY <1>4, <1>5

\* Putting a new element in front repeats nothing.
LEMMA DistinctPrepend ==
  ASSUME NEW s \in Seq(Runs), NEW e \in Runs, Distinct(s), e \notin Elems(s)
  PROVE  Distinct(<<e>> \o s)
<1>1. <<e>> \in Seq(Runs) /\ Len(<<e>>) = 1 /\ <<e>>[1] = e
  OBVIOUS
<1>2. /\ <<e>> \o s \in Seq(Runs)
      /\ Len(<<e>> \o s) = Len(s) + 1
      /\ \A i \in 1 .. Len(s) + 1 : (<<e>> \o s)[i] = IF i <= 1 THEN <<e>>[i] ELSE s[i - 1]
  BY <1>1, ConcatProperties, LenProperties
<1>3. Len(s) \in Nat /\ DOMAIN s = 1 .. Len(s) /\ DOMAIN (<<e>> \o s) = 1 .. Len(s) + 1
  BY <1>2, LenProperties
<1>4. (<<e>> \o s)[1] = e
  BY <1>1, <1>2, <1>3
<1>5. \A i \in 2 .. Len(s) + 1 : (<<e>> \o s)[i] = s[i - 1] /\ i - 1 \in 1 .. Len(s)
  BY <1>2, <1>3
<1>6. \A i \in 2 .. Len(s) + 1 : (<<e>> \o s)[i] # e
  BY <1>3, <1>5 DEF Elems
<1>7. \A i, k \in 2 .. Len(s) + 1 : (<<e>> \o s)[i] = (<<e>> \o s)[k] => i = k
  BY <1>3, <1>5 DEF Distinct
<1>8. QED
  BY <1>3, <1>4, <1>6, <1>7 DEF Distinct

-----------------------------------------------------------------------------
(* The steps.                                                              *)

\* A job takes an entry at its pop and parts with it before it answers.
LEMMA PicksStep == TypeOK /\ Locals /\ Picks /\ [Next]_vars => Picks'
<1> SUFFICES ASSUME TypeOK, Locals, Picks, [Next]_vars, NEW i \in Jobs PROVE PickOf(i)'
  BY DEF Picks
<1> JobTypes /\ PickOf(i) /\ LocalsOf(i)
  BY DEF Picks, Locals, TypeOK, JobTypes
<1> USE LimiterAssumption DEF Goto, Mark, PickOf, Carrying
<1>1. ASSUME NEW j \in Jobs, NEW r \in Runs, CallAcquire(j, r) PROVE PickOf(i)'
  BY <1>1 DEF CallAcquire, Call, redis, rewrite, bounds, LocalsOf, JobTypes
<1>2. ASSUME NEW j \in Jobs, NEW r \in Runs, CallRelease(j, r) PROVE PickOf(i)'
  BY <1>2 DEF CallRelease, Call, redis, rewrite, bounds, LocalsOf, JobTypes
<1>3. ASSUME NEW j \in Jobs, NEW r \in Runs, CallCancel(j, r) PROVE PickOf(i)'
  BY <1>3 DEF CallCancel, Call, redis, rewrite, LocalsOf, JobTypes
<1>4. ASSUME NEW j \in Jobs, NEW old \in Runs, NEW r \in Runs, CallRecover(j, old, r) PROVE PickOf(i)'
  BY <1>4 DEF CallRecover, Call, redis, rewrite, bounds, LocalsOf, JobTypes
<1>5. ASSUME NEW j \in Jobs, CallRewrite(j) PROVE PickOf(i)'
  BY <1>5 DEF CallRewrite, Call, redis, bounds, LocalsOf, JobTypes
<1>6. ASSUME NEW j \in Jobs, Lock(j) PROVE PickOf(i)'
  BY <1>6 DEF Lock, MutexFree, FirstStep, bounds, rewrite, LocalsOf, JobTypes
<1>7. ASSUME NEW j \in Jobs, LockTimeout(j) PROVE PickOf(i)'
  BY <1>7 DEF LockTimeout, AfterSection, Return, redis, rewrite, bounds, LocalsOf, JobTypes
<1>8. ASSUME NEW j \in Jobs, Unlock(j) PROVE PickOf(i)'
  BY <1>8 DEF Unlock, HandsOver, AfterSection, Return, rewrite, bounds, LocalsOf, JobTypes
<1>9. ASSUME NEW j \in Jobs, Inherit(j) PROVE PickOf(i)'
  BY <1>9 DEF Inherit, Inherited, OffBooks, rewrite, bounds, LocalsOf, JobTypes
<1>10. ASSUME NEW j \in Jobs, Count(j) PROVE PickOf(i)'
  BY <1>10 DEF Count, redis, rewrite, bounds, LocalsOf, JobTypes
<1>11. ASSUME NEW j \in Jobs, Admit(j) PROVE PickOf(i)'
  BY <1>11 DEF Admit, HasRoom, rewrite, bounds, LocalsOf, JobTypes
<1>12. ASSUME NEW j \in Jobs, Measure(j) PROVE PickOf(i)'
  BY <1>12 DEF Measure, HasRoom, redis, rewrite, bounds, LocalsOf, JobTypes
<1>13. ASSUME NEW j \in Jobs, Push(j) PROVE PickOf(i)'
  BY <1>13 DEF Push, rewrite, bounds, LocalsOf, JobTypes
<1>14. ASSUME NEW j \in Jobs, Reject(j) PROVE PickOf(i)'
  BY <1>14 DEF Reject, redis, rewrite, bounds, LocalsOf, JobTypes
<1>15. ASSUME NEW j \in Jobs, Reply(j) PROVE PickOf(i)'
  BY <1>15 DEF Reply, Return, redis, rewrite, bounds, LocalsOf, JobTypes
<1>16. ASSUME NEW j \in Jobs, ReplyFails(j) PROVE PickOf(i)'
  BY <1>16 DEF ReplyFails, Return, redis, rewrite, bounds, LocalsOf, JobTypes
<1>17. ASSUME NEW j \in Jobs, Zrem(j) PROVE PickOf(i)'
  BY <1>17 DEF Zrem, AfterZrem, OffBooks, locals, rewrite, bounds, LocalsOf, JobTypes
<1>18. ASSUME NEW j \in Jobs, NEW r \in Runs, Pop(j, r) PROVE PickOf(i)'
  BY <1>18 DEF Pop, Popped, rewrite, bounds, LocalsOf, JobTypes
<1>19. ASSUME NEW j \in Jobs, PopNone(j) PROVE PickOf(i)'
  BY <1>19 DEF PopNone, redis, locals, rewrite, bounds, LocalsOf, JobTypes
<1>20. ASSUME NEW j \in Jobs, PutBack(j) PROVE PickOf(i)'
  BY <1>20 DEF PutBack, HasRoom, PushedBack, rewrite, bounds, LocalsOf, JobTypes
<1>21. ASSUME NEW j \in Jobs, Promote(j) PROVE PickOf(i)'
  BY <1>21 DEF Promote, HasRoom, rewrite, bounds, LocalsOf, JobTypes
<1>22. ASSUME NEW j \in Jobs, Dispatch(j) PROVE PickOf(i)'
  BY <1>22 DEF Dispatch, AfterSection, Return, redis, rewrite, bounds, LocalsOf, JobTypes
<1>23. ASSUME NEW j \in Jobs, DispatchDrops(j) PROVE PickOf(i)'
  BY <1>23 DEF DispatchDrops, AfterSection, Return, rewrite, bounds, LocalsOf, JobTypes
<1>24. ASSUME NEW j \in Jobs, NEW r \in Runs, Sift(j, r) PROVE PickOf(i)'
  BY <1>24 DEF Sift, Kept, redis, bounds, LocalsOf, JobTypes
<1>25. ASSUME NEW j \in Jobs, Swap(j) PROVE PickOf(i)'
  BY <1>25 DEF Swap, Told, Return, bounds, LocalsOf, JobTypes
<1>26. ASSUME NEW r \in Runs, StartRun(r) PROVE PickOf(i)'
  BY <1>26 DEF StartRun, redis, locals, rewrite, bounds, LocalsOf, JobTypes
<1>27. ASSUME NEW r \in Runs, Refresh(r) PROVE PickOf(i)'
  BY <1>27 DEF Refresh, Beating, locals, rewrite, bounds, LocalsOf, JobTypes
<1>28. ASSUME NEW r \in Runs, FinishRun(r) PROVE PickOf(i)'
  BY <1>28 DEF FinishRun, redis, locals, rewrite, bounds, LocalsOf, JobTypes
<1>29. ASSUME NEW r \in Runs, Age(r) PROVE PickOf(i)'
  BY <1>29 DEF Age, redis, locals, rewrite, bounds, LocalsOf, JobTypes
<1>30. ASSUME NEW r \in Runs, SlotLapses(r) PROVE PickOf(i)'
  BY <1>30 DEF SlotLapses, locals, rewrite, bounds, LocalsOf, JobTypes
<1>31. CASE LockExpires
  BY <1>31 DEF LockExpires, locals, rewrite, bounds, LocalsOf, JobTypes
<1>32. ASSUME NEW w \in Workers, Crash(w) PROVE PickOf(i)'
  BY <1>32 DEF Crash, LocalsOf, JobTypes
<1>33. CASE UNCHANGED vars
  BY <1>33 DEF vars, redis, locals, rewrite, bounds, LocalsOf, JobTypes
<1>34. ASSUME NEW j \in Jobs, NEW r \in Runs, CallReplay(j, r) PROVE PickOf(i)'
  BY <1>34 DEF CallReplay, Call, redis, rewrite, bounds, LocalsOf, JobTypes
<1>35. ASSUME NEW w \in Workers, NEW r \in Runs, CloseUnknown(w, r) PROVE PickOf(i)'
  BY <1>35 DEF CloseUnknown, redis, locals, rewrite, bounds, LocalsOf, JobTypes
<1>36. ASSUME NEW r \in Runs, RecordRun(r) PROVE PickOf(i)'
  BY <1>36 DEF RecordRun, redis, locals, rewrite, bounds, LocalsOf, JobTypes
<1>37. QED
  BY <1>1, <1>2, <1>3, <1>4, <1>5, <1>6, <1>7, <1>8, <1>9, <1>10, <1>11, <1>12, <1>13, <1>14, <1>15, <1>16, <1>17, <1>18, <1>19, <1>20, <1>21, <1>22, <1>23, <1>24, <1>25, <1>26, <1>27, <1>28, <1>29, <1>30, <1>31, <1>32, <1>33, <1>34, <1>35, <1>36 DEF Next, JobStep, Section, RunStep

\* Nobody but the asking job changes the phase of the run it asks for.
LEMMA AskersStep == TypeOK /\ Locals /\ Askers /\ Owners /\ Tasked /\ Once /\ [Next]_vars => Askers'
<1> SUFFICES ASSUME TypeOK, Locals, Askers, Owners, Tasked, Once, [Next]_vars, NEW i \in Jobs PROVE AskOf(i)'
  BY DEF Askers
<1> JobTypes /\ phase \in [Runs -> Phases] /\ queue \in Seq(Runs)
  BY DEF TypeOK, JobTypes
<1> \A j \in Jobs : AskOf(j) /\ LocalsOf(j) /\ ApartFrom(i, j)
  BY DEF Askers, Locals, Owners
<1> \A j \in Jobs : pc[j] \in Carrying /\ pick[j] \in Runs => phase[pick[j]] = "queued"
  BY DEF Once, OnceOf, Carries
<1> \A r \in Queued : phase[r] = "queued"
  BY DEF Once, OnceOf, TypeOK, Queued
<1> USE LimiterAssumption DEF Goto, Mark, AskOf, ApartFrom, Asks, Carrying
<1>1. ASSUME NEW j \in Jobs, NEW r \in Runs, CallAcquire(j, r) PROVE AskOf(i)'
  BY <1>1 DEF CallAcquire, Call, redis, rewrite, bounds, LocalsOf, JobTypes
<1>2. ASSUME NEW j \in Jobs, NEW r \in Runs, CallRelease(j, r) PROVE AskOf(i)'
  BY <1>2 DEF CallRelease, Call, redis, rewrite, bounds, LocalsOf, JobTypes
<1>3. ASSUME NEW j \in Jobs, NEW r \in Runs, CallCancel(j, r) PROVE AskOf(i)'
  BY <1>3 DEF CallCancel, Call, redis, rewrite, LocalsOf, JobTypes
<1>4. ASSUME NEW j \in Jobs, NEW old \in Runs, NEW r \in Runs, CallRecover(j, old, r) PROVE AskOf(i)'
  BY <1>4 DEF CallRecover, Call, redis, rewrite, bounds, LocalsOf, JobTypes
<1>5. ASSUME NEW j \in Jobs, CallRewrite(j) PROVE AskOf(i)'
  BY <1>5 DEF CallRewrite, Call, redis, bounds, LocalsOf, JobTypes
<1>6. ASSUME NEW j \in Jobs, Lock(j) PROVE AskOf(i)'
  BY <1>6 DEF Lock, MutexFree, FirstStep, bounds, rewrite, LocalsOf, JobTypes
<1>7. ASSUME NEW j \in Jobs, LockTimeout(j) PROVE AskOf(i)'
  BY <1>7 DEF LockTimeout, AfterSection, Return, redis, rewrite, bounds, LocalsOf, JobTypes
<1>8. ASSUME NEW j \in Jobs, Unlock(j) PROVE AskOf(i)'
  BY <1>8 DEF Unlock, HandsOver, AfterSection, Return, rewrite, bounds, LocalsOf, JobTypes
<1>9. ASSUME NEW j \in Jobs, Inherit(j) PROVE AskOf(i)'
  BY <1>9 DEF Inherit, Inherited, OffBooks, rewrite, bounds, LocalsOf, JobTypes
<1>10. ASSUME NEW j \in Jobs, Count(j) PROVE AskOf(i)'
  BY <1>10 DEF Count, redis, rewrite, bounds, LocalsOf, JobTypes
<1>11. ASSUME NEW j \in Jobs, Admit(j) PROVE AskOf(i)'
  BY <1>11 DEF Admit, HasRoom, rewrite, bounds, LocalsOf, JobTypes
<1>12. ASSUME NEW j \in Jobs, Measure(j) PROVE AskOf(i)'
  BY <1>12 DEF Measure, HasRoom, redis, rewrite, bounds, LocalsOf, JobTypes
<1>13. ASSUME NEW j \in Jobs, Push(j) PROVE AskOf(i)'
  BY <1>13 DEF Push, rewrite, bounds, LocalsOf, JobTypes
<1>14. ASSUME NEW j \in Jobs, Reject(j) PROVE AskOf(i)'
  BY <1>14 DEF Reject, redis, rewrite, bounds, LocalsOf, JobTypes
<1>15. ASSUME NEW j \in Jobs, Reply(j) PROVE AskOf(i)'
  BY <1>15 DEF Reply, Return, redis, rewrite, bounds, LocalsOf, JobTypes
<1>16. ASSUME NEW j \in Jobs, ReplyFails(j) PROVE AskOf(i)'
  BY <1>16 DEF ReplyFails, Return, redis, rewrite, bounds, LocalsOf, JobTypes
<1>17. ASSUME NEW j \in Jobs, Zrem(j) PROVE AskOf(i)'
  BY <1>17 DEF Zrem, AfterZrem, OffBooks, locals, rewrite, bounds, LocalsOf, JobTypes
<1>18. ASSUME NEW j \in Jobs, NEW r \in Runs, Pop(j, r) PROVE AskOf(i)'
  BY <1>18 DEF Pop, Popped, rewrite, bounds, LocalsOf, JobTypes
<1>19. ASSUME NEW j \in Jobs, PopNone(j) PROVE AskOf(i)'
  BY <1>19 DEF PopNone, redis, locals, rewrite, bounds, LocalsOf, JobTypes
<1>20. ASSUME NEW j \in Jobs, PutBack(j) PROVE AskOf(i)'
  BY <1>20 DEF PutBack, HasRoom, PushedBack, rewrite, bounds, LocalsOf, JobTypes
<1>21. ASSUME NEW j \in Jobs, Promote(j) PROVE AskOf(i)'
  BY <1>21 DEF Promote, HasRoom, rewrite, bounds, LocalsOf, JobTypes
<1>22. ASSUME NEW j \in Jobs, Dispatch(j) PROVE AskOf(i)'
  BY <1>22 DEF Dispatch, AfterSection, Return, redis, rewrite, bounds, LocalsOf, JobTypes
<1>23. ASSUME NEW j \in Jobs, DispatchDrops(j) PROVE AskOf(i)'
  BY <1>23 DEF DispatchDrops, AfterSection, Return, rewrite, bounds, LocalsOf, JobTypes
<1>24. ASSUME NEW j \in Jobs, NEW r \in Runs, Sift(j, r) PROVE AskOf(i)'
  BY <1>24 DEF Sift, Kept, redis, bounds, LocalsOf, JobTypes
<1>25. ASSUME NEW j \in Jobs, Swap(j) PROVE AskOf(i)'
  BY <1>25 DEF Swap, Told, Return, bounds, LocalsOf, JobTypes
<1>26. ASSUME NEW r \in Runs, StartRun(r) PROVE AskOf(i)'
  BY <1>26 DEF StartRun, redis, locals, rewrite, bounds, LocalsOf, JobTypes
<1>27. ASSUME NEW r \in Runs, Refresh(r) PROVE AskOf(i)'
  BY <1>27 DEF Refresh, Beating, locals, rewrite, bounds, LocalsOf, JobTypes
<1>28. ASSUME NEW r \in Runs, FinishRun(r) PROVE AskOf(i)'
  BY <1>28 DEF FinishRun, redis, locals, rewrite, bounds, LocalsOf, JobTypes
<1>29. ASSUME NEW r \in Runs, Age(r) PROVE AskOf(i)'
  BY <1>29 DEF Age, redis, locals, rewrite, bounds, LocalsOf, JobTypes
<1>30. ASSUME NEW r \in Runs, SlotLapses(r) PROVE AskOf(i)'
  BY <1>30 DEF SlotLapses, locals, rewrite, bounds, LocalsOf, JobTypes
<1>31. CASE LockExpires
  BY <1>31 DEF LockExpires, locals, rewrite, bounds, LocalsOf, JobTypes
<1>32. ASSUME NEW w \in Workers, Crash(w) PROVE AskOf(i)'
  <2>1. CASE HomeOf[i] = w
    BY <1>32, <2>1 DEF Crash, JobTypes
  <2>2. CASE HomeOf[i] # w /\ op[i] \in Asks
    <3>1. run[i] \in Runs /\ run'[i] = run[i] /\ pc'[i] = pc[i] /\ op'[i] = op[i]
      BY <1>32, <2>2 DEF Crash, JobTypes, LocalsOf
    <3>2. \A j \in Jobs : HomeOf[j] = w /\ op[j] \in Asks => run[j] # run[i]
      BY <2>2
    <3>3. phase[run[i]] = "asked" => run[i] \notin tasks[w]
      BY <1>32, <3>1 DEF Tasked, TaskOf
    <3>4. phase'[run[i]] # "new"
      BY <1>32, <2>2, <3>1 DEF Crash
    <3>5. phase[run[i]] = "asked" => phase'[run[i]] = "asked"
      BY <1>32, <3>1, <3>2, <3>3 DEF Crash
    <3>6. QED
      BY <2>2, <3>1, <3>4, <3>5
  <2>3. CASE HomeOf[i] # w /\ op[i] \notin Asks
    BY <1>32, <2>3 DEF Crash, JobTypes
  <2>4. QED
    BY <2>1, <2>2, <2>3
<1>33. CASE UNCHANGED vars
  BY <1>33 DEF vars, redis, locals, rewrite, bounds, LocalsOf, JobTypes
<1>34. ASSUME NEW j \in Jobs, NEW r \in Runs, CallReplay(j, r) PROVE AskOf(i)'
  BY <1>34 DEF CallReplay, Call, redis, rewrite, bounds, LocalsOf, JobTypes
<1>35. ASSUME NEW w \in Workers, NEW r \in Runs, CloseUnknown(w, r) PROVE AskOf(i)'
  BY <1>35 DEF CloseUnknown, redis, locals, rewrite, bounds, LocalsOf, JobTypes
<1>36. ASSUME NEW r \in Runs, RecordRun(r) PROVE AskOf(i)'
  BY <1>36 DEF RecordRun, redis, locals, rewrite, bounds, LocalsOf, JobTypes
<1>37. QED
  BY <1>1, <1>2, <1>3, <1>4, <1>5, <1>6, <1>7, <1>8, <1>9, <1>10, <1>11, <1>12, <1>13, <1>14, <1>15, <1>16, <1>17, <1>18, <1>19, <1>20, <1>21, <1>22, <1>23, <1>24, <1>25, <1>26, <1>27, <1>28, <1>29, <1>30, <1>31, <1>32, <1>33, <1>34, <1>35, <1>36 DEF Next, JobStep, Section, RunStep

\* A run is new when it is asked for, so nobody else is asking for it.
LEMMA OwnersStep == TypeOK /\ Locals /\ Askers /\ Owners /\ [Next]_vars => Owners'
<1> SUFFICES ASSUME TypeOK, Locals, Askers, Owners, [Next]_vars, NEW i \in Jobs, NEW k \in Jobs PROVE ApartFrom(i, k)'
  BY DEF Owners
<1> JobTypes
  BY DEF TypeOK, JobTypes
<1> AskOf(i) /\ AskOf(k) /\ LocalsOf(i) /\ LocalsOf(k) /\ ApartFrom(i, k)
  BY DEF Askers, Locals, Owners
<1> USE LimiterAssumption DEF Goto, Mark, AskOf, ApartFrom, Asks
<1>1. ASSUME NEW j \in Jobs, NEW r \in Runs, CallAcquire(j, r) PROVE ApartFrom(i, k)'
  BY <1>1 DEF CallAcquire, Call, redis, rewrite, bounds, LocalsOf, JobTypes
<1>2. ASSUME NEW j \in Jobs, NEW r \in Runs, CallRelease(j, r) PROVE ApartFrom(i, k)'
  BY <1>2 DEF CallRelease, Call, redis, rewrite, bounds, LocalsOf, JobTypes
<1>3. ASSUME NEW j \in Jobs, NEW r \in Runs, CallCancel(j, r) PROVE ApartFrom(i, k)'
  BY <1>3 DEF CallCancel, Call, redis, rewrite, LocalsOf, JobTypes
<1>4. ASSUME NEW j \in Jobs, NEW old \in Runs, NEW r \in Runs, CallRecover(j, old, r) PROVE ApartFrom(i, k)'
  BY <1>4 DEF CallRecover, Call, redis, rewrite, bounds, LocalsOf, JobTypes
<1>5. ASSUME NEW j \in Jobs, CallRewrite(j) PROVE ApartFrom(i, k)'
  BY <1>5 DEF CallRewrite, Call, redis, bounds, LocalsOf, JobTypes
<1>6. ASSUME NEW j \in Jobs, Lock(j) PROVE ApartFrom(i, k)'
  BY <1>6 DEF Lock, MutexFree, FirstStep, bounds, rewrite, LocalsOf, JobTypes
<1>7. ASSUME NEW j \in Jobs, LockTimeout(j) PROVE ApartFrom(i, k)'
  BY <1>7 DEF LockTimeout, AfterSection, Return, redis, rewrite, bounds, LocalsOf, JobTypes
<1>8. ASSUME NEW j \in Jobs, Unlock(j) PROVE ApartFrom(i, k)'
  BY <1>8 DEF Unlock, HandsOver, AfterSection, Return, rewrite, bounds, LocalsOf, JobTypes
<1>9. ASSUME NEW j \in Jobs, Inherit(j) PROVE ApartFrom(i, k)'
  BY <1>9 DEF Inherit, Inherited, OffBooks, rewrite, bounds, LocalsOf, JobTypes
<1>10. ASSUME NEW j \in Jobs, Count(j) PROVE ApartFrom(i, k)'
  BY <1>10 DEF Count, redis, rewrite, bounds, LocalsOf, JobTypes
<1>11. ASSUME NEW j \in Jobs, Admit(j) PROVE ApartFrom(i, k)'
  BY <1>11 DEF Admit, HasRoom, rewrite, bounds, LocalsOf, JobTypes
<1>12. ASSUME NEW j \in Jobs, Measure(j) PROVE ApartFrom(i, k)'
  BY <1>12 DEF Measure, HasRoom, redis, rewrite, bounds, LocalsOf, JobTypes
<1>13. ASSUME NEW j \in Jobs, Push(j) PROVE ApartFrom(i, k)'
  BY <1>13 DEF Push, rewrite, bounds, LocalsOf, JobTypes
<1>14. ASSUME NEW j \in Jobs, Reject(j) PROVE ApartFrom(i, k)'
  BY <1>14 DEF Reject, redis, rewrite, bounds, LocalsOf, JobTypes
<1>15. ASSUME NEW j \in Jobs, Reply(j) PROVE ApartFrom(i, k)'
  BY <1>15 DEF Reply, Return, redis, rewrite, bounds, LocalsOf, JobTypes
<1>16. ASSUME NEW j \in Jobs, ReplyFails(j) PROVE ApartFrom(i, k)'
  BY <1>16 DEF ReplyFails, Return, redis, rewrite, bounds, LocalsOf, JobTypes
<1>17. ASSUME NEW j \in Jobs, Zrem(j) PROVE ApartFrom(i, k)'
  BY <1>17 DEF Zrem, AfterZrem, OffBooks, locals, rewrite, bounds, LocalsOf, JobTypes
<1>18. ASSUME NEW j \in Jobs, NEW r \in Runs, Pop(j, r) PROVE ApartFrom(i, k)'
  BY <1>18 DEF Pop, Popped, rewrite, bounds, LocalsOf, JobTypes
<1>19. ASSUME NEW j \in Jobs, PopNone(j) PROVE ApartFrom(i, k)'
  BY <1>19 DEF PopNone, redis, locals, rewrite, bounds, LocalsOf, JobTypes
<1>20. ASSUME NEW j \in Jobs, PutBack(j) PROVE ApartFrom(i, k)'
  BY <1>20 DEF PutBack, HasRoom, PushedBack, rewrite, bounds, LocalsOf, JobTypes
<1>21. ASSUME NEW j \in Jobs, Promote(j) PROVE ApartFrom(i, k)'
  BY <1>21 DEF Promote, HasRoom, rewrite, bounds, LocalsOf, JobTypes
<1>22. ASSUME NEW j \in Jobs, Dispatch(j) PROVE ApartFrom(i, k)'
  BY <1>22 DEF Dispatch, AfterSection, Return, redis, rewrite, bounds, LocalsOf, JobTypes
<1>23. ASSUME NEW j \in Jobs, DispatchDrops(j) PROVE ApartFrom(i, k)'
  BY <1>23 DEF DispatchDrops, AfterSection, Return, rewrite, bounds, LocalsOf, JobTypes
<1>24. ASSUME NEW j \in Jobs, NEW r \in Runs, Sift(j, r) PROVE ApartFrom(i, k)'
  BY <1>24 DEF Sift, Kept, redis, bounds, LocalsOf, JobTypes
<1>25. ASSUME NEW j \in Jobs, Swap(j) PROVE ApartFrom(i, k)'
  BY <1>25 DEF Swap, Told, Return, bounds, LocalsOf, JobTypes
<1>26. ASSUME NEW r \in Runs, StartRun(r) PROVE ApartFrom(i, k)'
  BY <1>26 DEF StartRun, redis, locals, rewrite, bounds, LocalsOf, JobTypes
<1>27. ASSUME NEW r \in Runs, Refresh(r) PROVE ApartFrom(i, k)'
  BY <1>27 DEF Refresh, Beating, locals, rewrite, bounds, LocalsOf, JobTypes
<1>28. ASSUME NEW r \in Runs, FinishRun(r) PROVE ApartFrom(i, k)'
  BY <1>28 DEF FinishRun, redis, locals, rewrite, bounds, LocalsOf, JobTypes
<1>29. ASSUME NEW r \in Runs, Age(r) PROVE ApartFrom(i, k)'
  BY <1>29 DEF Age, redis, locals, rewrite, bounds, LocalsOf, JobTypes
<1>30. ASSUME NEW r \in Runs, SlotLapses(r) PROVE ApartFrom(i, k)'
  BY <1>30 DEF SlotLapses, locals, rewrite, bounds, LocalsOf, JobTypes
<1>31. CASE LockExpires
  BY <1>31 DEF LockExpires, locals, rewrite, bounds, LocalsOf, JobTypes
<1>32. ASSUME NEW w \in Workers, Crash(w) PROVE ApartFrom(i, k)'
  BY <1>32 DEF Crash, LocalsOf, JobTypes
<1>33. CASE UNCHANGED vars
  BY <1>33 DEF vars, redis, locals, rewrite, bounds, LocalsOf, JobTypes
<1>34. ASSUME NEW j \in Jobs, NEW r \in Runs, CallReplay(j, r) PROVE ApartFrom(i, k)'
  BY <1>34 DEF CallReplay, Call, redis, rewrite, bounds, LocalsOf, JobTypes
<1>35. ASSUME NEW w \in Workers, NEW r \in Runs, CloseUnknown(w, r) PROVE ApartFrom(i, k)'
  BY <1>35 DEF CloseUnknown, redis, locals, rewrite, bounds, LocalsOf, JobTypes
<1>36. ASSUME NEW r \in Runs, RecordRun(r) PROVE ApartFrom(i, k)'
  BY <1>36 DEF RecordRun, redis, locals, rewrite, bounds, LocalsOf, JobTypes
<1>37. QED
  BY <1>1, <1>2, <1>3, <1>4, <1>5, <1>6, <1>7, <1>8, <1>9, <1>10, <1>11, <1>12, <1>13, <1>14, <1>15, <1>16, <1>17, <1>18, <1>19, <1>20, <1>21, <1>22, <1>23, <1>24, <1>25, <1>26, <1>27, <1>28, <1>29, <1>30, <1>31, <1>32, <1>33, <1>34, <1>35, <1>36 DEF Next, JobStep, Section, RunStep

\* No run that got a task goes back to waiting.
LEMMA TaskedStep == TypeOK /\ Locals /\ Askers /\ Tasked /\ [Next]_vars => Tasked'
<1> SUFFICES ASSUME TypeOK, Locals, Askers, Tasked, [Next]_vars, NEW v \in Workers, NEW i \in Runs PROVE TaskOf(v, i)'
  BY DEF Tasked
<1> JobTypes /\ phase \in [Runs -> Phases] /\ tasks \in [Workers -> SUBSET Runs]
  BY DEF TypeOK, JobTypes
<1> TaskOf(v, i) /\ \A j \in Jobs : AskOf(j) /\ LocalsOf(j)
  BY DEF Askers, Locals, Tasked
<1> USE LimiterAssumption DEF Goto, Mark, AskOf, TaskOf, Asks
<1>1. ASSUME NEW j \in Jobs, NEW r \in Runs, CallAcquire(j, r) PROVE TaskOf(v, i)'
  BY <1>1 DEF CallAcquire, Call, redis, rewrite, bounds, LocalsOf, JobTypes
<1>2. ASSUME NEW j \in Jobs, NEW r \in Runs, CallRelease(j, r) PROVE TaskOf(v, i)'
  BY <1>2 DEF CallRelease, Call, redis, rewrite, bounds, LocalsOf, JobTypes
<1>3. ASSUME NEW j \in Jobs, NEW r \in Runs, CallCancel(j, r) PROVE TaskOf(v, i)'
  BY <1>3 DEF CallCancel, Call, redis, rewrite, LocalsOf, JobTypes
<1>4. ASSUME NEW j \in Jobs, NEW old \in Runs, NEW r \in Runs, CallRecover(j, old, r) PROVE TaskOf(v, i)'
  BY <1>4 DEF CallRecover, Call, redis, rewrite, bounds, LocalsOf, JobTypes
<1>5. ASSUME NEW j \in Jobs, CallRewrite(j) PROVE TaskOf(v, i)'
  BY <1>5 DEF CallRewrite, Call, redis, bounds, LocalsOf, JobTypes
<1>6. ASSUME NEW j \in Jobs, Lock(j) PROVE TaskOf(v, i)'
  BY <1>6 DEF Lock, MutexFree, FirstStep, bounds, rewrite, LocalsOf, JobTypes
<1>7. ASSUME NEW j \in Jobs, LockTimeout(j) PROVE TaskOf(v, i)'
  BY <1>7 DEF LockTimeout, AfterSection, Return, redis, rewrite, bounds, LocalsOf, JobTypes
<1>8. ASSUME NEW j \in Jobs, Unlock(j) PROVE TaskOf(v, i)'
  BY <1>8 DEF Unlock, HandsOver, AfterSection, Return, rewrite, bounds, LocalsOf, JobTypes
<1>9. ASSUME NEW j \in Jobs, Inherit(j) PROVE TaskOf(v, i)'
  BY <1>9 DEF Inherit, Inherited, OffBooks, rewrite, bounds, LocalsOf, JobTypes
<1>10. ASSUME NEW j \in Jobs, Count(j) PROVE TaskOf(v, i)'
  BY <1>10 DEF Count, redis, rewrite, bounds, LocalsOf, JobTypes
<1>11. ASSUME NEW j \in Jobs, Admit(j) PROVE TaskOf(v, i)'
  BY <1>11 DEF Admit, HasRoom, rewrite, bounds, LocalsOf, JobTypes
<1>12. ASSUME NEW j \in Jobs, Measure(j) PROVE TaskOf(v, i)'
  BY <1>12 DEF Measure, HasRoom, redis, rewrite, bounds, LocalsOf, JobTypes
<1>13. ASSUME NEW j \in Jobs, Push(j) PROVE TaskOf(v, i)'
  BY <1>13 DEF Push, rewrite, bounds, LocalsOf, JobTypes
<1>14. ASSUME NEW j \in Jobs, Reject(j) PROVE TaskOf(v, i)'
  BY <1>14 DEF Reject, redis, rewrite, bounds, LocalsOf, JobTypes
<1>15. ASSUME NEW j \in Jobs, Reply(j) PROVE TaskOf(v, i)'
  BY <1>15 DEF Reply, Return, redis, rewrite, bounds, LocalsOf, JobTypes
<1>16. ASSUME NEW j \in Jobs, ReplyFails(j) PROVE TaskOf(v, i)'
  BY <1>16 DEF ReplyFails, Return, redis, rewrite, bounds, LocalsOf, JobTypes
<1>17. ASSUME NEW j \in Jobs, Zrem(j) PROVE TaskOf(v, i)'
  BY <1>17 DEF Zrem, AfterZrem, OffBooks, locals, rewrite, bounds, LocalsOf, JobTypes
<1>18. ASSUME NEW j \in Jobs, NEW r \in Runs, Pop(j, r) PROVE TaskOf(v, i)'
  BY <1>18 DEF Pop, Popped, rewrite, bounds, LocalsOf, JobTypes
<1>19. ASSUME NEW j \in Jobs, PopNone(j) PROVE TaskOf(v, i)'
  BY <1>19 DEF PopNone, redis, locals, rewrite, bounds, LocalsOf, JobTypes
<1>20. ASSUME NEW j \in Jobs, PutBack(j) PROVE TaskOf(v, i)'
  BY <1>20 DEF PutBack, HasRoom, PushedBack, rewrite, bounds, LocalsOf, JobTypes
<1>21. ASSUME NEW j \in Jobs, Promote(j) PROVE TaskOf(v, i)'
  BY <1>21 DEF Promote, HasRoom, rewrite, bounds, LocalsOf, JobTypes
<1>22. ASSUME NEW j \in Jobs, Dispatch(j) PROVE TaskOf(v, i)'
  BY <1>22 DEF Dispatch, AfterSection, Return, redis, rewrite, bounds, LocalsOf, JobTypes
<1>23. ASSUME NEW j \in Jobs, DispatchDrops(j) PROVE TaskOf(v, i)'
  BY <1>23 DEF DispatchDrops, AfterSection, Return, rewrite, bounds, LocalsOf, JobTypes
<1>24. ASSUME NEW j \in Jobs, NEW r \in Runs, Sift(j, r) PROVE TaskOf(v, i)'
  BY <1>24 DEF Sift, Kept, redis, bounds, LocalsOf, JobTypes
<1>25. ASSUME NEW j \in Jobs, Swap(j) PROVE TaskOf(v, i)'
  BY <1>25 DEF Swap, Told, Return, bounds, LocalsOf, JobTypes
<1>26. ASSUME NEW r \in Runs, StartRun(r) PROVE TaskOf(v, i)'
  BY <1>26 DEF StartRun, redis, locals, rewrite, bounds, LocalsOf, JobTypes
<1>27. ASSUME NEW r \in Runs, Refresh(r) PROVE TaskOf(v, i)'
  BY <1>27 DEF Refresh, Beating, locals, rewrite, bounds, LocalsOf, JobTypes
<1>28. ASSUME NEW r \in Runs, FinishRun(r) PROVE TaskOf(v, i)'
  BY <1>28 DEF FinishRun, redis, locals, rewrite, bounds, LocalsOf, JobTypes
<1>29. ASSUME NEW r \in Runs, Age(r) PROVE TaskOf(v, i)'
  BY <1>29 DEF Age, redis, locals, rewrite, bounds, LocalsOf, JobTypes
<1>30. ASSUME NEW r \in Runs, SlotLapses(r) PROVE TaskOf(v, i)'
  BY <1>30 DEF SlotLapses, locals, rewrite, bounds, LocalsOf, JobTypes
<1>31. CASE LockExpires
  BY <1>31 DEF LockExpires, locals, rewrite, bounds, LocalsOf, JobTypes
<1>32. ASSUME NEW w \in Workers, Crash(w) PROVE TaskOf(v, i)'
  BY <1>32 DEF Crash, LocalsOf, JobTypes
<1>33. CASE UNCHANGED vars
  BY <1>33 DEF vars, redis, locals, rewrite, bounds, LocalsOf, JobTypes
<1>34. ASSUME NEW j \in Jobs, NEW r \in Runs, CallReplay(j, r) PROVE TaskOf(v, i)'
  BY <1>34 DEF CallReplay, Call, redis, rewrite, bounds, LocalsOf, JobTypes
<1>35. ASSUME NEW w \in Workers, NEW r \in Runs, CloseUnknown(w, r) PROVE TaskOf(v, i)'
  BY <1>35 DEF CloseUnknown, redis, locals, rewrite, bounds, LocalsOf, JobTypes
<1>36. ASSUME NEW r \in Runs, RecordRun(r) PROVE TaskOf(v, i)'
  BY <1>36 DEF RecordRun, redis, locals, rewrite, bounds, LocalsOf, JobTypes
<1>37. QED
  BY <1>1, <1>2, <1>3, <1>4, <1>5, <1>6, <1>7, <1>8, <1>9, <1>10, <1>11, <1>12, <1>13, <1>14, <1>15, <1>16, <1>17, <1>18, <1>19, <1>20, <1>21, <1>22, <1>23, <1>24, <1>25, <1>26, <1>27, <1>28, <1>29, <1>30, <1>31, <1>32, <1>33, <1>34, <1>35, <1>36 DEF Next, JobStep, Section, RunStep

\* A run moves between the list and the jobs without being copied.
LEMMA OnceStep ==
  /\ TypeOK /\ Locals /\ Mutex /\ NoRescan /\ Picks /\ Askers /\ Tasked
  /\ Sifts /\ Distinct(queue) /\ Once /\ [Next]_vars
  => Once'
<1> SUFFICES ASSUME TypeOK, Locals, Mutex, NoRescan, Picks, Askers, Tasked,
                    Sifts, Distinct(queue), Once, [Next]_vars, NEW i \in Runs
             PROVE OnceOf(i)'
  BY DEF Once
<1> JobTypes /\ phase \in [Runs -> Phases] /\ queue \in Seq(Runs)
  BY DEF TypeOK, JobTypes
<1> OnceOf(i) /\ \A j \in Jobs : LocalsOf(j) /\ PickOf(j) /\ AskOf(j) /\ pc[j] # "rescan"
  BY DEF Askers, Locals, Once, Picks, NoRescan
<1> Queued = Elems(queue) /\ Queued' = Elems(queue')
  BY DEF Queued, Elems
<1> USE LimiterAssumption DEF Goto, Mark, OnceOf, Carries, Carrying
<1>1. ASSUME NEW j \in Jobs, NEW r \in Runs, CallAcquire(j, r) PROVE OnceOf(i)'
  BY <1>1 DEF CallAcquire, Call, redis, rewrite, bounds, LocalsOf, JobTypes, PickOf, AskOf, Asks
<1>2. ASSUME NEW j \in Jobs, NEW r \in Runs, CallRelease(j, r) PROVE OnceOf(i)'
  BY <1>2 DEF CallRelease, Call, redis, rewrite, bounds, LocalsOf, JobTypes, PickOf, AskOf, Asks
<1>3. ASSUME NEW j \in Jobs, NEW r \in Runs, CallCancel(j, r) PROVE OnceOf(i)'
  BY <1>3 DEF CallCancel, Call, redis, rewrite, LocalsOf, JobTypes, PickOf, AskOf, Asks
<1>4. ASSUME NEW j \in Jobs, NEW old \in Runs, NEW r \in Runs, CallRecover(j, old, r) PROVE OnceOf(i)'
  BY <1>4 DEF CallRecover, Call, redis, rewrite, bounds, LocalsOf, JobTypes, PickOf, AskOf, Asks
<1>5. ASSUME NEW j \in Jobs, CallRewrite(j) PROVE OnceOf(i)'
  BY <1>5 DEF CallRewrite, Call, redis, bounds, LocalsOf, JobTypes, PickOf, AskOf, Asks
<1>6. ASSUME NEW j \in Jobs, Lock(j) PROVE OnceOf(i)'
  BY <1>6 DEF Lock, MutexFree, FirstStep, bounds, rewrite, LocalsOf, JobTypes, PickOf, AskOf, Asks
<1>7. ASSUME NEW j \in Jobs, LockTimeout(j) PROVE OnceOf(i)'
  <2>1. queue' = queue
    BY <1>7 DEF LockTimeout, redis
  <2>2. \A k \in Jobs : Carries(k, i)' => Carries(k, i)
    BY <1>7 DEF LockTimeout, AfterSection, Return, PickOf, JobTypes
  <2>3. op[j] \in Asks => run[j] \in Runs /\ phase[run[j]] = "asked"
    BY <1>7 DEF LockTimeout, LocalsOf, AskOf, Asks
  <2>4. phase[i] = "queued" => phase'[i] = "queued"
    BY <1>7, <2>3 DEF LockTimeout, Asks
  <2>5. QED
    BY <2>1, <2>2, <2>4
<1>8. ASSUME NEW j \in Jobs, Unlock(j) PROVE OnceOf(i)'
  BY <1>8 DEF Unlock, HandsOver, AfterSection, Return, rewrite, bounds, LocalsOf, JobTypes, PickOf, AskOf, Asks
<1>9. ASSUME NEW j \in Jobs, Inherit(j) PROVE OnceOf(i)'
  BY <1>9 DEF Inherit, Inherited, OffBooks, rewrite, bounds, LocalsOf, JobTypes, PickOf, AskOf, Asks
<1>10. ASSUME NEW j \in Jobs, Count(j) PROVE OnceOf(i)'
  BY <1>10 DEF Count, redis, rewrite, bounds, LocalsOf, JobTypes, PickOf, AskOf, Asks
<1>11. ASSUME NEW j \in Jobs, Admit(j) PROVE OnceOf(i)'
  BY <1>11 DEF Admit, HasRoom, rewrite, bounds, LocalsOf, JobTypes, PickOf, AskOf, Asks
<1>12. ASSUME NEW j \in Jobs, Measure(j) PROVE OnceOf(i)'
  BY <1>12 DEF Measure, HasRoom, redis, rewrite, bounds, LocalsOf, JobTypes, PickOf, AskOf, Asks
<1>13. ASSUME NEW j \in Jobs, Push(j) PROVE OnceOf(i)'
  <2>1. run[j] \in Runs /\ phase[run[j]] = "asked"
    BY <1>13 DEF Push, LocalsOf, AskOf, Asks
  <2>2. Elems(queue') = Elems(queue) \cup {run[j]}
    BY <1>13, <2>1, ElemsAppend DEF Push
  <2>3. \A k \in Jobs : Carries(k, i)' => Carries(k, i) /\ k # j
    BY <1>13 DEF Push, JobTypes, PickOf
  <2>4. phase' = [phase EXCEPT ![run[j]] = "queued"] /\ phase[run[j]] # "queued"
    BY <1>13, <2>1 DEF Push
  <2>5. QED
    BY <2>1, <2>2, <2>3, <2>4
<1>14. ASSUME NEW j \in Jobs, Reject(j) PROVE OnceOf(i)'
  BY <1>14 DEF Reject, redis, rewrite, bounds, LocalsOf, JobTypes, PickOf, AskOf, Asks
<1>15. ASSUME NEW j \in Jobs, Reply(j) PROVE OnceOf(i)'
  BY <1>15 DEF Reply, Return, redis, rewrite, bounds, LocalsOf, JobTypes, PickOf, AskOf, Asks
<1>16. ASSUME NEW j \in Jobs, ReplyFails(j) PROVE OnceOf(i)'
  BY <1>16 DEF ReplyFails, Return, redis, rewrite, bounds, LocalsOf, JobTypes, PickOf, AskOf, Asks
<1>17. ASSUME NEW j \in Jobs, Zrem(j) PROVE OnceOf(i)'
  BY <1>17 DEF Zrem, AfterZrem, OffBooks, locals, rewrite, bounds, LocalsOf, JobTypes, PickOf, AskOf, Asks
<1>18. ASSUME NEW j \in Jobs, NEW r \in Runs, Pop(j, r) PROVE OnceOf(i)'
  <2>1. Elems(queue) = Elems(queue') \cup {r} /\ r \notin Elems(queue')
    BY <1>18, ElemsTail, DistinctTail DEF Pop, Popped
  <2>2. r \in Queued
    BY <2>1
  <2>3. CASE i = r
    <3>1. phase[i] = "queued" /\ i \notin Queued' /\ \A k \in Jobs : ~Carries(k, i)
      BY <2>1, <2>2, <2>3
    <3>2. \A k \in Jobs : Carries(k, i)' => k = j /\ r \notin aged
      BY <1>18, <3>1 DEF Pop, Popped, JobTypes
    <3>3. r \notin aged => phase' = phase
      BY <1>18 DEF Pop, Popped
    <3>4. QED
      BY <3>1, <3>2, <3>3
  <2>4. CASE i # r
    <3>1. i \in Queued' <=> i \in Queued
      BY <2>1, <2>4
    <3>2. phase'[i] = phase[i]
      BY <1>18, <2>4 DEF Pop, Popped
    <3>3. \A k \in Jobs : Carries(k, i)' => Carries(k, i)
      BY <1>18, <2>4 DEF Pop, Popped, JobTypes
    <3>4. QED
      BY <3>1, <3>2, <3>3
  <2>5. QED
    BY <2>3, <2>4
<1>19. ASSUME NEW j \in Jobs, PopNone(j) PROVE OnceOf(i)'
  BY <1>19 DEF PopNone, redis, locals, rewrite, bounds, LocalsOf, JobTypes, PickOf, AskOf, Asks
<1>20. ASSUME NEW j \in Jobs, PutBack(j) PROVE OnceOf(i)'
  <2>1. pick[j] \in Runs
    BY <1>20 DEF PutBack, HasRoom, PushedBack, LocalsOf
  <2>2. Elems(queue') = Elems(queue) \cup {pick[j]}
    BY <1>20, <2>1, ElemsPrepend DEF PutBack, HasRoom, PushedBack
  <2>3. QED
    BY <1>20, <2>1, <2>2 DEF PutBack, HasRoom, PushedBack, rewrite, bounds, JobTypes
<1>21. ASSUME NEW j \in Jobs, Promote(j) PROVE OnceOf(i)'
  BY <1>21 DEF Promote, HasRoom, rewrite, bounds, LocalsOf, JobTypes, PickOf, AskOf, Asks
<1>22. ASSUME NEW j \in Jobs, Dispatch(j) PROVE OnceOf(i)'
  BY <1>22 DEF Dispatch, AfterSection, Return, redis, rewrite, bounds, LocalsOf, JobTypes, PickOf, AskOf, Asks
<1>23. ASSUME NEW j \in Jobs, DispatchDrops(j) PROVE OnceOf(i)'
  BY <1>23 DEF DispatchDrops, AfterSection, Return, rewrite, bounds, LocalsOf, JobTypes, PickOf, AskOf, Asks
<1>24. ASSUME NEW j \in Jobs, NEW r \in Runs, Sift(j, r) PROVE OnceOf(i)'
  BY <1>24 DEF Sift, Kept, redis, bounds, LocalsOf, JobTypes, PickOf, AskOf, Asks
<1>25. ASSUME NEW j \in Jobs, Swap(j) PROVE OnceOf(i)'
  <2>1. pc[j] = "scan" /\ SiftOf(j)
    BY <1>25 DEF Swap, Sifts
  <2>2. Elems(keep[j]) \cup gone[j] \subseteq Queued /\ Elems(keep[j]) \cap gone[j] = {}
    BY <2>1 DEF SiftOf
  <2>3. (queue' = queue /\ gone[j] = {}) \/ queue' = keep[j]
    BY <1>25, <2>1 DEF Swap
  <2>4. i \notin gone[j] => phase'[i] = phase[i]
    BY <1>25, <2>1 DEF Swap, Told
  <2>5. i \in Queued' => i \in Queued /\ i \notin gone[j]
    BY <2>2, <2>3
  <2>6. \A k \in Jobs : Carries(k, i) => i \notin gone[j]
    BY <2>2
  <2>7. \A k \in Jobs : Carries(k, i)' => Carries(k, i)
    BY <1>25, <2>1 DEF Swap, JobTypes, PickOf
  <2>8. QED
    BY <2>4, <2>5, <2>6, <2>7
<1>26. ASSUME NEW r \in Runs, StartRun(r) PROVE OnceOf(i)'
  BY <1>26 DEF StartRun, redis, locals, rewrite, bounds, LocalsOf, JobTypes, PickOf, AskOf, Asks
<1>27. ASSUME NEW r \in Runs, Refresh(r) PROVE OnceOf(i)'
  BY <1>27 DEF Refresh, Beating, locals, rewrite, bounds, LocalsOf, JobTypes, PickOf, AskOf, Asks
<1>28. ASSUME NEW r \in Runs, FinishRun(r) PROVE OnceOf(i)'
  BY <1>28 DEF FinishRun, redis, locals, rewrite, bounds, LocalsOf, JobTypes, PickOf, AskOf, Asks
<1>29. ASSUME NEW r \in Runs, Age(r) PROVE OnceOf(i)'
  BY <1>29 DEF Age, redis, locals, rewrite, bounds, LocalsOf, JobTypes, PickOf, AskOf, Asks
<1>30. ASSUME NEW r \in Runs, SlotLapses(r) PROVE OnceOf(i)'
  BY <1>30 DEF SlotLapses, locals, rewrite, bounds, LocalsOf, JobTypes, PickOf, AskOf, Asks
<1>31. CASE LockExpires
  BY <1>31 DEF LockExpires, locals, rewrite, bounds, LocalsOf, JobTypes, PickOf, AskOf, Asks
<1>32. ASSUME NEW w \in Workers, Crash(w) PROVE OnceOf(i)'
  <2>1. queue' = queue
    BY <1>32 DEF Crash
  <2>2. \A k \in Jobs : Carries(k, i)' => Carries(k, i) /\ HomeOf[k] # w
    BY <1>32 DEF Crash, JobTypes
  <2>3. ASSUME phase[i] = "queued", \A k \in Jobs : HomeOf[k] = w => ~Carries(k, i) PROVE phase'[i] = "queued"
    <3>1. i \notin tasks[w]
      BY <1>32, <2>3 DEF Tasked, TaskOf
    <3>2. QED
      BY <1>32, <2>3, <3>1 DEF Crash
  <2>4. QED
    BY <2>1, <2>2, <2>3
<1>33. CASE UNCHANGED vars
  BY <1>33 DEF vars, redis, locals, rewrite, bounds, LocalsOf, JobTypes, PickOf, AskOf, Asks
<1>34. ASSUME NEW j \in Jobs, NEW r \in Runs, CallReplay(j, r) PROVE OnceOf(i)'
  BY <1>34 DEF CallReplay, Call, redis, rewrite, bounds, LocalsOf, JobTypes, PickOf, AskOf, Asks
<1>35. ASSUME NEW w \in Workers, NEW r \in Runs, CloseUnknown(w, r) PROVE OnceOf(i)'
  BY <1>35 DEF CloseUnknown, redis, locals, rewrite, bounds, LocalsOf, JobTypes, PickOf, AskOf, Asks
<1>36. ASSUME NEW r \in Runs, RecordRun(r) PROVE OnceOf(i)'
  BY <1>36 DEF RecordRun, redis, locals, rewrite, bounds, LocalsOf, JobTypes, PickOf, AskOf, Asks
<1>37. QED
  BY <1>1, <1>2, <1>3, <1>4, <1>5, <1>6, <1>7, <1>8, <1>9, <1>10, <1>11, <1>12, <1>13, <1>14, <1>15, <1>16, <1>17, <1>18, <1>19, <1>20, <1>21, <1>22, <1>23, <1>24, <1>25, <1>26, <1>27, <1>28, <1>29, <1>30, <1>31, <1>32, <1>33, <1>34, <1>35, <1>36 DEF Next, JobStep, Section, RunStep

\* The rebuild moves each entry from the copy to one of the two other parts.
LEMMA SiftsStep ==
  TypeOK /\ Locals /\ Mutex /\ NoRescan /\ Distinct(queue) /\ Sifts /\ [Next]_vars => Sifts'
<1> SUFFICES ASSUME TypeOK, Locals, Mutex, NoRescan, Distinct(queue), Sifts, [Next]_vars, NEW i \in Jobs
             PROVE  SiftOf(i)'
  BY DEF Sifts
<1> JobTypes /\ SiftOf(i) /\ pc[i] # "rescan"
  BY DEF Sifts, NoRescan, TypeOK, JobTypes
<1> /\ todo \in [Jobs -> Seq(Runs)] /\ keep \in [Jobs -> Seq(Runs)]
    /\ gone \in [Jobs -> SUBSET Runs] /\ queue \in Seq(Runs)
  BY DEF TypeOK
<1> (pc[i] \in Critical => lock = i) /\ \A j \in Jobs : pc[j] \in Critical => lock = j
  BY DEF Mutex
<1> \A j \in Jobs : pc[j] # "rescan"
  BY DEF NoRescan
<1> Elems(queue) = Queued /\ (queue' = queue => Queued' = Queued)
  BY DEF Queued, Elems
<1> USE LimiterAssumption DEF Goto, Mark, SiftOf, Critical
<1>1. ASSUME NEW j \in Jobs, NEW r \in Runs, CallAcquire(j, r) PROVE SiftOf(i)'
  BY <1>1 DEF CallAcquire, Call, redis, rewrite, bounds, JobTypes
<1>2. ASSUME NEW j \in Jobs, NEW r \in Runs, CallRelease(j, r) PROVE SiftOf(i)'
  BY <1>2 DEF CallRelease, Call, redis, rewrite, bounds, JobTypes
<1>3. ASSUME NEW j \in Jobs, NEW r \in Runs, CallCancel(j, r) PROVE SiftOf(i)'
  BY <1>3 DEF CallCancel, Call, redis, rewrite, JobTypes
<1>4. ASSUME NEW j \in Jobs, NEW old \in Runs, NEW r \in Runs, CallRecover(j, old, r) PROVE SiftOf(i)'
  BY <1>4 DEF CallRecover, Call, redis, rewrite, bounds, JobTypes
<1>5. ASSUME NEW j \in Jobs, CallRewrite(j) PROVE SiftOf(i)'
  BY <1>5 DEF CallRewrite, Call, redis, bounds, JobTypes
<1>6. ASSUME NEW j \in Jobs, Lock(j) PROVE SiftOf(i)'
  <2>1. CASE i = j /\ op[j] = "remove"
    <3>1. todo'[i] = queue /\ keep'[i] = <<>> /\ gone'[i] = {} /\ queue' = queue
      BY <1>6, <2>1 DEF Lock
    <3>2. Elems(<<>>) = {} /\ Distinct(<<>>)
      BY DEF Elems, Distinct
    <3>3. QED
      BY <3>1, <3>2
  <2>2. CASE ~(i = j /\ op[j] = "remove")
    BY <1>6, <2>2 DEF Lock, MutexFree, FirstStep, rewrite, bounds, JobTypes
  <2>3. QED
    BY <2>1, <2>2
<1>7. ASSUME NEW j \in Jobs, LockTimeout(j) PROVE SiftOf(i)'
  BY <1>7 DEF LockTimeout, AfterSection, Return, redis, rewrite, bounds, JobTypes
<1>8. ASSUME NEW j \in Jobs, Unlock(j) PROVE SiftOf(i)'
  BY <1>8 DEF Unlock, HandsOver, AfterSection, Return, rewrite, bounds, JobTypes
<1>9. ASSUME NEW j \in Jobs, Inherit(j) PROVE SiftOf(i)'
  BY <1>9 DEF Inherit, Inherited, OffBooks, rewrite, bounds, JobTypes
<1>10. ASSUME NEW j \in Jobs, Count(j) PROVE SiftOf(i)'
  BY <1>10 DEF Count, redis, rewrite, bounds, JobTypes
<1>11. ASSUME NEW j \in Jobs, Admit(j) PROVE SiftOf(i)'
  BY <1>11 DEF Admit, HasRoom, rewrite, bounds, JobTypes
<1>12. ASSUME NEW j \in Jobs, Measure(j) PROVE SiftOf(i)'
  BY <1>12 DEF Measure, HasRoom, redis, rewrite, bounds, JobTypes
<1>13. ASSUME NEW j \in Jobs, Push(j) PROVE SiftOf(i)'
  BY <1>13 DEF Push, rewrite, bounds, JobTypes
<1>14. ASSUME NEW j \in Jobs, Reject(j) PROVE SiftOf(i)'
  BY <1>14 DEF Reject, redis, rewrite, bounds, JobTypes
<1>15. ASSUME NEW j \in Jobs, Reply(j) PROVE SiftOf(i)'
  BY <1>15 DEF Reply, Return, redis, rewrite, bounds, JobTypes
<1>16. ASSUME NEW j \in Jobs, ReplyFails(j) PROVE SiftOf(i)'
  BY <1>16 DEF ReplyFails, Return, redis, rewrite, bounds, JobTypes
<1>17. ASSUME NEW j \in Jobs, Zrem(j) PROVE SiftOf(i)'
  BY <1>17 DEF Zrem, AfterZrem, OffBooks, locals, rewrite, bounds, JobTypes
<1>18. ASSUME NEW j \in Jobs, NEW r \in Runs, Pop(j, r) PROVE SiftOf(i)'
  BY <1>18 DEF Pop, Popped, rewrite, bounds, JobTypes
<1>19. ASSUME NEW j \in Jobs, PopNone(j) PROVE SiftOf(i)'
  BY <1>19 DEF PopNone, redis, locals, rewrite, bounds, JobTypes
<1>20. ASSUME NEW j \in Jobs, PutBack(j) PROVE SiftOf(i)'
  BY <1>20 DEF PutBack, HasRoom, PushedBack, rewrite, bounds, JobTypes
<1>21. ASSUME NEW j \in Jobs, Promote(j) PROVE SiftOf(i)'
  BY <1>21 DEF Promote, HasRoom, rewrite, bounds, JobTypes
<1>22. ASSUME NEW j \in Jobs, Dispatch(j) PROVE SiftOf(i)'
  BY <1>22 DEF Dispatch, AfterSection, Return, redis, rewrite, bounds, JobTypes
<1>23. ASSUME NEW j \in Jobs, DispatchDrops(j) PROVE SiftOf(i)'
  BY <1>23 DEF DispatchDrops, AfterSection, Return, rewrite, bounds, JobTypes
<1>24. ASSUME NEW j \in Jobs, NEW r \in Runs, Sift(j, r) PROVE SiftOf(i)'
  <2>1. CASE i # j
    BY <1>24, <2>1 DEF Sift, Kept, redis, bounds, JobTypes
  <2>2. CASE i = j /\ pc[i] = "scan"
    <3>1. /\ Elems(todo[i]) = Elems(Tail(todo[i])) \cup {r}
          /\ Distinct(Tail(todo[i])) /\ r \notin Elems(Tail(todo[i]))
      BY <1>24, <2>2, ElemsTail, DistinctTail DEF Sift
    <3>2. Elems(Append(keep[i], r)) = Elems(keep[i]) \cup {r}
      BY ElemsAppend
    <3>3. r \notin Elems(keep[i]) /\ r \notin gone[i]
      BY <2>2, <3>1
    <3>4. Distinct(Append(keep[i], r))
      BY <2>2, <3>3, DistinctAppend
    <3>5. queue' = queue /\ todo'[i] = Tail(todo[i])
      BY <1>24, <2>2 DEF Sift, redis
    <3>6. \/ gone'[i] = gone[i] \cup {r} /\ keep'[i] = keep[i]
          \/ gone'[i] = gone[i] /\ keep'[i] = Append(keep[i], r)
      BY <1>24, <2>2 DEF Sift, Kept
    <3>7. r \in Queued
      BY <2>2, <3>1
    <3>8. CASE gone'[i] = gone[i] \cup {r} /\ keep'[i] = keep[i]
      BY <2>2, <3>1, <3>3, <3>5, <3>7, <3>8
    <3>9. CASE gone'[i] = gone[i] /\ keep'[i] = Append(keep[i], r)
      BY <2>2, <3>1, <3>2, <3>3, <3>4, <3>5, <3>7, <3>9
    <3>10. QED
      BY <3>6, <3>8, <3>9
  <2>3. CASE i = j /\ pc[i] # "scan"
    BY <1>24, <2>3 DEF Sift
  <2>4. QED
    BY <2>1, <2>2, <2>3
<1>25. ASSUME NEW j \in Jobs, Swap(j) PROVE SiftOf(i)'
  BY <1>25 DEF Swap, Told, Return, bounds, JobTypes
<1>26. ASSUME NEW r \in Runs, StartRun(r) PROVE SiftOf(i)'
  BY <1>26 DEF StartRun, redis, locals, rewrite, bounds, JobTypes
<1>27. ASSUME NEW r \in Runs, Refresh(r) PROVE SiftOf(i)'
  BY <1>27 DEF Refresh, Beating, locals, rewrite, bounds, JobTypes
<1>28. ASSUME NEW r \in Runs, FinishRun(r) PROVE SiftOf(i)'
  BY <1>28 DEF FinishRun, redis, locals, rewrite, bounds, JobTypes
<1>29. ASSUME NEW r \in Runs, Age(r) PROVE SiftOf(i)'
  BY <1>29 DEF Age, redis, locals, rewrite, bounds, JobTypes
<1>30. ASSUME NEW r \in Runs, SlotLapses(r) PROVE SiftOf(i)'
  BY <1>30 DEF SlotLapses, locals, rewrite, bounds, JobTypes
<1>31. CASE LockExpires
  BY <1>31 DEF LockExpires, locals, rewrite, bounds, JobTypes
<1>32. ASSUME NEW w \in Workers, Crash(w) PROVE SiftOf(i)'
  BY <1>32 DEF Crash, JobTypes
<1>33. CASE UNCHANGED vars
  BY <1>33 DEF vars, redis, locals, rewrite, bounds, JobTypes
<1>34. ASSUME NEW j \in Jobs, NEW r \in Runs, CallReplay(j, r) PROVE SiftOf(i)'
  BY <1>34 DEF CallReplay, Call, redis, rewrite, bounds, JobTypes
<1>35. ASSUME NEW w \in Workers, NEW r \in Runs, CloseUnknown(w, r) PROVE SiftOf(i)'
  BY <1>35 DEF CloseUnknown, redis, locals, rewrite, bounds, JobTypes
<1>36. ASSUME NEW r \in Runs, RecordRun(r) PROVE SiftOf(i)'
  BY <1>36 DEF RecordRun, redis, locals, rewrite, bounds, JobTypes
<1>37. QED
  BY <1>1, <1>2, <1>3, <1>4, <1>5, <1>6, <1>7, <1>8, <1>9, <1>10, <1>11, <1>12, <1>13, <1>14, <1>15, <1>16, <1>17, <1>18, <1>19, <1>20, <1>21, <1>22, <1>23, <1>24, <1>25, <1>26, <1>27, <1>28, <1>29, <1>30, <1>31, <1>32, <1>33, <1>34, <1>35, <1>36 DEF Next, JobStep, Section, RunStep

\* What is pushed, pushed back or left by a rebuild is not in the list already.
LEMMA DistinctStep ==
  TypeOK /\ Locals /\ NoRescan /\ Askers /\ Once /\ Sifts /\ Distinct(queue) /\ [Next]_vars => Distinct(queue)'
<1> SUFFICES ASSUME TypeOK, Locals, NoRescan, Askers, Once, Sifts, Distinct(queue), [Next]_vars PROVE Distinct(queue')
  OBVIOUS
<1> queue \in Seq(Runs) /\ \A j \in Jobs : LocalsOf(j) /\ AskOf(j) /\ pc[j] # "rescan"
  BY DEF TypeOK, Locals, Askers, NoRescan
<1>1. ASSUME NEW j \in Jobs, Push(j) PROVE Distinct(queue')
  <2>1. run[j] \in Runs /\ phase[run[j]] = "asked"
    BY <1>1 DEF Push, LocalsOf, AskOf, Asks
  <2>2. run[j] \notin Elems(queue)
    BY <2>1 DEF Once, OnceOf, Queued, Elems
  <2>3. QED
    BY <1>1, <2>1, <2>2, DistinctAppend DEF Push
<1>2. ASSUME NEW j \in Jobs, NEW r \in Runs, Pop(j, r) PROVE Distinct(queue')
  BY <1>2, DistinctTail DEF Pop, Popped
<1>3. ASSUME NEW j \in Jobs, PutBack(j) PROVE Distinct(queue')
  <2>1. pick[j] \in Runs /\ Carries(j, pick[j])
    BY <1>3 DEF PutBack, HasRoom, LocalsOf, Carries, Carrying
  <2>2. pick[j] \notin Elems(queue)
    BY <2>1 DEF Once, OnceOf, Queued, Elems
  <2>3. QED
    BY <1>3, <2>1, <2>2, DistinctPrepend DEF PutBack, PushedBack
<1>4. ASSUME NEW j \in Jobs, Swap(j) PROVE Distinct(queue')
  <2>1. pc[j] = "scan" /\ Distinct(keep[j])
    BY <1>4 DEF Swap, Sifts, SiftOf
  <2>2. QED
    BY <1>4, <2>1 DEF Swap
<1>5. CASE queue' = queue
  BY <1>5
<1>6. (\E j \in Jobs : Push(j) \/ PutBack(j) \/ Swap(j) \/ \E r \in Runs : Pop(j, r)) \/ queue' = queue
  <2>1. ASSUME NEW j \in Jobs, JobStep(j), ~Section(j) PROVE queue' = queue
    BY <2>1 DEF JobStep, CallAcquire, CallRelease, CallCancel, CallRecover, CallReplay, CallRewrite,
                LockTimeout, ReplyFails, redis
  <2>2. ASSUME NEW j \in Jobs, Section(j)
        PROVE  Push(j) \/ PutBack(j) \/ Swap(j) \/ (\E r \in Runs : Pop(j, r)) \/ queue' = queue
    BY <2>2 DEF Section, Lock, Unlock, Inherit, Count, Admit, Measure, Reject, Reply, Zrem, PopNone,
                Promote, Dispatch, DispatchDrops, Sift, redis
  <2>3. ASSUME NEW r \in Runs, RunStep(r) PROVE queue' = queue
    BY <2>3 DEF RunStep, StartRun, RecordRun, Refresh, FinishRun, Age, SlotLapses, redis
  <2>4. CASE LockExpires \/ (\E w \in Workers : Crash(w) \/ \E r \in Runs : CloseUnknown(w, r)) \/ UNCHANGED vars
    BY <2>4 DEF LockExpires, Crash, CloseUnknown, vars, redis
  <2>5. QED
    BY <2>1, <2>2, <2>3, <2>4 DEF Next
<1>7. QED
  BY <1>1, <1>2, <1>3, <1>4, <1>5, <1>6

\* What DispatchedOnce needs in order to be inductive.
DInv ==
  /\ TypeOK /\ Locals /\ Mutex /\ NoRescan
  /\ Picks /\ Askers /\ Owners /\ Tasked /\ Once /\ Sifts /\ Distinct(queue)

\* Nobody asks, waits or scans at the start.
LEMMA DInvInit == Init => DInv
<1> SUFFICES ASSUME Init PROVE DInv
  OBVIOUS
<1>1. TypeOK /\ Locals
  BY TypeInit
<1>2. Mutex /\ NoRescan /\ Picks /\ Askers /\ Owners /\ Tasked /\ Sifts
  BY DEF Init, Mutex, NoRescan, Picks, PickOf, Askers, AskOf, Asks, Owners, ApartFrom, Tasked, TaskOf, Sifts, SiftOf, Critical
<1>3. Once
  BY LimiterAssumption DEF Init, Once, OnceOf, Queued, Carries, Carrying
<1>4. Distinct(queue)
  BY DEF Init, Distinct
<1>5. QED
  BY <1>1, <1>2, <1>3, <1>4 DEF DInv

\* The parts of DInv keep one another.
LEMMA DInvStep ==
  ASSUME "slow" \notin Faults, "rewrite" \notin Faults
  PROVE  DInv /\ [Next]_vars => DInv'
<1>1. ASSUME DInv, [Next]_vars PROVE Distinct(queue)'
  BY <1>1, DistinctStep DEF DInv
<1>2. QED
  BY <1>1, TypeStep, LocalsStep, MutexStep, NoRescanStep, PicksStep, AskersStep, OwnersStep, TaskedStep,
     OnceStep, SiftsStep DEF DInv

\* A queued message runs once (DispatchedOnce: push, pop, push-back, dispatch,
\* removal and crashes in any interleaving), provided sections do not outlive the
\* mutex and no start-up rewrite runs beside them.
THEOREM QueuedOnce ==
  ASSUME "slow" \notin Faults, "rewrite" \notin Faults
  PROVE  Spec => []DispatchedOnce
<1>1. DInv => DispatchedOnce
  <2> SUFFICES ASSUME DInv PROVE DispatchedOnce
    OBVIOUS
  <2>1. \A i, k \in DOMAIN queue : queue[i] = queue[k] => i = k
    BY DEF DInv, Distinct
  <2>2. ASSUME NEW r \in Queued PROVE phase[r] = "queued" /\ r \notin Carried
    <3>1. r \in Runs
      BY DEF DInv, TypeOK, Queued
    <3>2. OnceOf(r)
      BY <3>1 DEF DInv, Once
    <3>3. QED
      BY <2>2, <3>2 DEF OnceOf, Carries, Carrying, Carried
  <2>3. \A i, j \in Jobs : pc[i] = "dispatch" /\ pc[j] = "dispatch" /\ pick[i] = pick[j] => i = j
    BY DEF DInv, Once, OnceOf, Carries, Carrying, Locals, LocalsOf
  <2>4. QED
    BY <2>1, <2>2, <2>3 DEF DispatchedOnce
<1>2. QED
  BY <1>1, DInvInit, DInvStep, PTL DEF Spec

-----------------------------------------------------------------------------
(* A run that has ended gives its slot back.                               *)

\* A run has a task on one worker only.
SingleAt(r) == \A v, w \in Workers : r \in tasks[v] /\ r \in tasks[w] => v = w
Single == \A r \in Runs : SingleAt(r)

\* The worker whose task has ended knows whose it was, so that its end is a release.
KnownAt(w, r) == r \in tasks[w] /\ phase[r] = "done" => r \in info[w]
Known == \A w \in Workers : \A r \in Runs : KnownAt(w, r)

\* An entry of a closed run is the business of a job that will remove it.
ReleasedBy(j, r) == op[j] = "release" /\ run[j] = r /\ pc[j] \in {"lock", "zrem"}
GivesBack(r) == phase[r] = "closed" /\ r \in active => \E j \in Jobs : ReleasedBy(j, r)
GiveBacks == \A r \in Runs : GivesBack(r)

\* A run gets a task when it is admitted or taken from the list, and has none then.
LEMMA SingleStep ==
  TypeOK /\ Locals /\ Askers /\ Tasked /\ Once /\ Single /\ [Next]_vars => Single'
<1> SUFFICES ASSUME TypeOK, Locals, Askers, Tasked, Once, Single, [Next]_vars, NEW i \in Runs PROVE SingleAt(i)'
  BY DEF Single
<1> JobTypes /\ tasks \in [Workers -> SUBSET Runs] /\ phase \in [Runs -> Phases] /\ SingleAt(i)
  BY DEF TypeOK, JobTypes, Single
<1> \A j \in Jobs : pc[j] = "dispatch" => phase[pick[j]] = "queued"
  BY DEF Once, OnceOf, Carries, Carrying, Locals, LocalsOf
<1> \A w \in Workers : TaskOf(w, i)
  BY DEF Tasked
<1> USE LimiterAssumption DEF Goto, Mark, SingleAt, TaskOf
<1>1. ASSUME NEW j \in Jobs, NEW r \in Runs, CallAcquire(j, r) PROVE SingleAt(i)'
  BY <1>1 DEF CallAcquire, Call, redis, rewrite, bounds
<1>2. ASSUME NEW j \in Jobs, NEW r \in Runs, CallRelease(j, r) PROVE SingleAt(i)'
  BY <1>2 DEF CallRelease, Call, redis, rewrite, bounds
<1>3. ASSUME NEW j \in Jobs, NEW r \in Runs, CallCancel(j, r) PROVE SingleAt(i)'
  BY <1>3 DEF CallCancel, Call, redis, rewrite
<1>4. ASSUME NEW j \in Jobs, NEW old \in Runs, NEW r \in Runs, CallRecover(j, old, r) PROVE SingleAt(i)'
  BY <1>4 DEF CallRecover, Call, redis, rewrite, bounds
<1>5. ASSUME NEW j \in Jobs, CallRewrite(j) PROVE SingleAt(i)'
  BY <1>5 DEF CallRewrite, Call, redis, bounds
<1>6. ASSUME NEW j \in Jobs, Lock(j) PROVE SingleAt(i)'
  BY <1>6 DEF Lock, MutexFree, FirstStep, bounds, rewrite
<1>7. ASSUME NEW j \in Jobs, LockTimeout(j) PROVE SingleAt(i)'
  BY <1>7 DEF LockTimeout, AfterSection, Return, redis, rewrite, bounds
<1>8. ASSUME NEW j \in Jobs, Unlock(j) PROVE SingleAt(i)'
  BY <1>8 DEF Unlock, HandsOver, AfterSection, Return, rewrite, bounds
<1>9. ASSUME NEW j \in Jobs, Inherit(j) PROVE SingleAt(i)'
  BY <1>9 DEF Inherit, Inherited, OffBooks, rewrite, bounds
<1>10. ASSUME NEW j \in Jobs, Count(j) PROVE SingleAt(i)'
  BY <1>10 DEF Count, redis, rewrite, bounds
<1>11. ASSUME NEW j \in Jobs, Admit(j) PROVE SingleAt(i)'
  BY <1>11 DEF Admit, HasRoom, rewrite, bounds
<1>12. ASSUME NEW j \in Jobs, Measure(j) PROVE SingleAt(i)'
  BY <1>12 DEF Measure, HasRoom, redis, rewrite, bounds
<1>13. ASSUME NEW j \in Jobs, Push(j) PROVE SingleAt(i)'
  BY <1>13 DEF Push, rewrite, bounds
<1>14. ASSUME NEW j \in Jobs, Reject(j) PROVE SingleAt(i)'
  BY <1>14 DEF Reject, redis, rewrite, bounds
<1>15. ASSUME NEW j \in Jobs, Reply(j) PROVE SingleAt(i)'
  BY <1>15 DEF Reply, Return, redis, rewrite, bounds
<1>16. ASSUME NEW j \in Jobs, ReplyFails(j) PROVE SingleAt(i)'
  BY <1>16 DEF ReplyFails, Return, redis, rewrite, bounds
<1>17. ASSUME NEW j \in Jobs, Zrem(j) PROVE SingleAt(i)'
  BY <1>17 DEF Zrem, AfterZrem, OffBooks, locals, rewrite, bounds
<1>18. ASSUME NEW j \in Jobs, NEW r \in Runs, Pop(j, r) PROVE SingleAt(i)'
  BY <1>18 DEF Pop, Popped, rewrite, bounds
<1>19. ASSUME NEW j \in Jobs, PopNone(j) PROVE SingleAt(i)'
  BY <1>19 DEF PopNone, redis, locals, rewrite, bounds
<1>20. ASSUME NEW j \in Jobs, PutBack(j) PROVE SingleAt(i)'
  BY <1>20 DEF PutBack, HasRoom, PushedBack, rewrite, bounds
<1>21. ASSUME NEW j \in Jobs, Promote(j) PROVE SingleAt(i)'
  BY <1>21 DEF Promote, HasRoom, rewrite, bounds
<1>22. ASSUME NEW j \in Jobs, Dispatch(j) PROVE SingleAt(i)'
  BY <1>22 DEF Dispatch, AfterSection, Return, redis, rewrite, bounds
<1>23. ASSUME NEW j \in Jobs, DispatchDrops(j) PROVE SingleAt(i)'
  BY <1>23 DEF DispatchDrops, AfterSection, Return, rewrite, bounds
<1>24. ASSUME NEW j \in Jobs, NEW r \in Runs, Sift(j, r) PROVE SingleAt(i)'
  BY <1>24 DEF Sift, Kept, redis, bounds
<1>25. ASSUME NEW j \in Jobs, Swap(j) PROVE SingleAt(i)'
  BY <1>25 DEF Swap, Told, Return, bounds
<1>26. ASSUME NEW r \in Runs, StartRun(r) PROVE SingleAt(i)'
  BY <1>26 DEF StartRun, redis, locals, rewrite, bounds
<1>27. ASSUME NEW r \in Runs, Refresh(r) PROVE SingleAt(i)'
  BY <1>27 DEF Refresh, Beating, locals, rewrite, bounds
<1>28. ASSUME NEW r \in Runs, FinishRun(r) PROVE SingleAt(i)'
  BY <1>28 DEF FinishRun, redis, locals, rewrite, bounds
<1>29. ASSUME NEW r \in Runs, Age(r) PROVE SingleAt(i)'
  BY <1>29 DEF Age, redis, locals, rewrite, bounds
<1>30. ASSUME NEW r \in Runs, SlotLapses(r) PROVE SingleAt(i)'
  BY <1>30 DEF SlotLapses, locals, rewrite, bounds
<1>31. CASE LockExpires
  BY <1>31 DEF LockExpires, locals, rewrite, bounds
<1>32. ASSUME NEW w \in Workers, Crash(w) PROVE SingleAt(i)'
  BY <1>32 DEF Crash
<1>33. CASE UNCHANGED vars
  BY <1>33 DEF vars, redis, locals, rewrite, bounds
<1>34. ASSUME NEW j \in Jobs, NEW r \in Runs, CallReplay(j, r) PROVE SingleAt(i)'
  BY <1>34 DEF CallReplay, Call, redis, rewrite, bounds
<1>35. ASSUME NEW w \in Workers, NEW r \in Runs, CloseUnknown(w, r) PROVE SingleAt(i)'
  BY <1>35 DEF CloseUnknown, redis, locals, rewrite, bounds
<1>36. ASSUME NEW r \in Runs, RecordRun(r) PROVE SingleAt(i)'
  BY <1>36 DEF RecordRun, redis, locals, rewrite, bounds
<1>37. QED
  BY <1>1, <1>2, <1>3, <1>4, <1>5, <1>6, <1>7, <1>8, <1>9, <1>10, <1>11, <1>12, <1>13, <1>14, <1>15, <1>16, <1>17, <1>18, <1>19, <1>20, <1>21, <1>22, <1>23, <1>24, <1>25, <1>26, <1>27, <1>28, <1>29, <1>30, <1>31, <1>32, <1>33, <1>34, <1>35, <1>36 DEF Next, JobStep, Section, RunStep

\* A worker records whose a run is before its task ends, or when it cancels it,
\* and forgets it when it releases it; no task ends before that ("error").
LEMMA KnownStep ==
  ASSUME "error" \notin Faults
  PROVE  TypeOK /\ Locals /\ Askers /\ Tasked /\ Once /\ Single /\ Known /\ [Next]_vars => Known'
<1> SUFFICES ASSUME TypeOK, Locals, Askers, Tasked, Once, Single, Known, [Next]_vars, NEW v \in Workers, NEW i \in Runs
             PROVE  KnownAt(v, i)'
  BY DEF Known
<1> /\ JobTypes /\ tasks \in [Workers -> SUBSET Runs] /\ info \in [Workers -> SUBSET Runs]
    /\ phase \in [Runs -> Phases] /\ SingleAt(i) /\ KnownAt(v, i)
  BY DEF TypeOK, JobTypes, Single, Known
<1> \A j \in Jobs : pc[j] = "dispatch" => phase[pick[j]] = "queued"
  BY DEF Once, OnceOf, Carries, Carrying, Locals, LocalsOf
<1> \A w \in Workers : TaskOf(w, i)
  BY DEF Tasked
<1> USE LimiterAssumption DEF Goto, Mark, SingleAt, TaskOf, KnownAt
<1>1. ASSUME NEW j \in Jobs, NEW r \in Runs, CallAcquire(j, r) PROVE KnownAt(v, i)'
  BY <1>1 DEF CallAcquire, Call, redis, rewrite, bounds
<1>2. ASSUME NEW j \in Jobs, NEW r \in Runs, CallRelease(j, r) PROVE KnownAt(v, i)'
  BY <1>2 DEF CallRelease, Call, redis, rewrite, bounds
<1>3. ASSUME NEW j \in Jobs, NEW r \in Runs, CallCancel(j, r) PROVE KnownAt(v, i)'
  BY <1>3 DEF CallCancel, Call, redis, rewrite
<1>4. ASSUME NEW j \in Jobs, NEW old \in Runs, NEW r \in Runs, CallRecover(j, old, r) PROVE KnownAt(v, i)'
  BY <1>4 DEF CallRecover, Call, redis, rewrite, bounds
<1>5. ASSUME NEW j \in Jobs, CallRewrite(j) PROVE KnownAt(v, i)'
  BY <1>5 DEF CallRewrite, Call, redis, bounds
<1>6. ASSUME NEW j \in Jobs, Lock(j) PROVE KnownAt(v, i)'
  BY <1>6 DEF Lock, MutexFree, FirstStep, bounds, rewrite
<1>7. ASSUME NEW j \in Jobs, LockTimeout(j) PROVE KnownAt(v, i)'
  BY <1>7 DEF LockTimeout, AfterSection, Return, redis, rewrite, bounds
<1>8. ASSUME NEW j \in Jobs, Unlock(j) PROVE KnownAt(v, i)'
  BY <1>8 DEF Unlock, HandsOver, AfterSection, Return, rewrite, bounds
<1>9. ASSUME NEW j \in Jobs, Inherit(j) PROVE KnownAt(v, i)'
  BY <1>9 DEF Inherit, Inherited, OffBooks, rewrite, bounds
<1>10. ASSUME NEW j \in Jobs, Count(j) PROVE KnownAt(v, i)'
  BY <1>10 DEF Count, redis, rewrite, bounds
<1>11. ASSUME NEW j \in Jobs, Admit(j) PROVE KnownAt(v, i)'
  BY <1>11 DEF Admit, HasRoom, rewrite, bounds
<1>12. ASSUME NEW j \in Jobs, Measure(j) PROVE KnownAt(v, i)'
  BY <1>12 DEF Measure, HasRoom, redis, rewrite, bounds
<1>13. ASSUME NEW j \in Jobs, Push(j) PROVE KnownAt(v, i)'
  BY <1>13 DEF Push, rewrite, bounds
<1>14. ASSUME NEW j \in Jobs, Reject(j) PROVE KnownAt(v, i)'
  BY <1>14 DEF Reject, redis, rewrite, bounds
<1>15. ASSUME NEW j \in Jobs, Reply(j) PROVE KnownAt(v, i)'
  BY <1>15 DEF Reply, Return, redis, rewrite, bounds
<1>16. ASSUME NEW j \in Jobs, ReplyFails(j) PROVE KnownAt(v, i)'
  BY <1>16 DEF ReplyFails, Return, redis, rewrite, bounds
<1>17. ASSUME NEW j \in Jobs, Zrem(j) PROVE KnownAt(v, i)'
  BY <1>17 DEF Zrem, AfterZrem, OffBooks, locals, rewrite, bounds
<1>18. ASSUME NEW j \in Jobs, NEW r \in Runs, Pop(j, r) PROVE KnownAt(v, i)'
  BY <1>18 DEF Pop, Popped, rewrite, bounds
<1>19. ASSUME NEW j \in Jobs, PopNone(j) PROVE KnownAt(v, i)'
  BY <1>19 DEF PopNone, redis, locals, rewrite, bounds
<1>20. ASSUME NEW j \in Jobs, PutBack(j) PROVE KnownAt(v, i)'
  BY <1>20 DEF PutBack, HasRoom, PushedBack, rewrite, bounds
<1>21. ASSUME NEW j \in Jobs, Promote(j) PROVE KnownAt(v, i)'
  BY <1>21 DEF Promote, HasRoom, rewrite, bounds
<1>22. ASSUME NEW j \in Jobs, Dispatch(j) PROVE KnownAt(v, i)'
  BY <1>22 DEF Dispatch, AfterSection, Return, redis, rewrite, bounds
<1>23. ASSUME NEW j \in Jobs, DispatchDrops(j) PROVE KnownAt(v, i)'
  BY <1>23 DEF DispatchDrops, AfterSection, Return, rewrite, bounds
<1>24. ASSUME NEW j \in Jobs, NEW r \in Runs, Sift(j, r) PROVE KnownAt(v, i)'
  BY <1>24 DEF Sift, Kept, redis, bounds
<1>25. ASSUME NEW j \in Jobs, Swap(j) PROVE KnownAt(v, i)'
  BY <1>25 DEF Swap, Told, Return, bounds
<1>26. ASSUME NEW r \in Runs, StartRun(r) PROVE KnownAt(v, i)'
  BY <1>26 DEF StartRun, redis, locals, rewrite, bounds
<1>27. ASSUME NEW r \in Runs, Refresh(r) PROVE KnownAt(v, i)'
  BY <1>27 DEF Refresh, Beating, locals, rewrite, bounds
<1>28. ASSUME NEW r \in Runs, FinishRun(r) PROVE KnownAt(v, i)'
  BY <1>28 DEF FinishRun, Recorded, redis, locals, rewrite, bounds
<1>29. ASSUME NEW r \in Runs, Age(r) PROVE KnownAt(v, i)'
  BY <1>29 DEF Age, redis, locals, rewrite, bounds
<1>30. ASSUME NEW r \in Runs, SlotLapses(r) PROVE KnownAt(v, i)'
  BY <1>30 DEF SlotLapses, locals, rewrite, bounds
<1>31. CASE LockExpires
  BY <1>31 DEF LockExpires, locals, rewrite, bounds
<1>32. ASSUME NEW w \in Workers, Crash(w) PROVE KnownAt(v, i)'
  BY <1>32 DEF Crash
<1>33. CASE UNCHANGED vars
  BY <1>33 DEF vars, redis, locals, rewrite, bounds
<1>34. ASSUME NEW j \in Jobs, NEW r \in Runs, CallReplay(j, r) PROVE KnownAt(v, i)'
  BY <1>34 DEF CallReplay, Call, redis, rewrite, bounds
<1>35. ASSUME NEW w \in Workers, NEW r \in Runs, CloseUnknown(w, r) PROVE KnownAt(v, i)'
  BY <1>35 DEF CloseUnknown, redis, locals, rewrite, bounds
<1>36. ASSUME NEW r \in Runs, RecordRun(r) PROVE KnownAt(v, i)'
  BY <1>36 DEF RecordRun, redis, locals, rewrite, bounds
<1>37. QED
  BY <1>1, <1>2, <1>3, <1>4, <1>5, <1>6, <1>7, <1>8, <1>9, <1>10, <1>11, <1>12, <1>13, <1>14, <1>15, <1>16, <1>17, <1>18, <1>19, <1>20, <1>21, <1>22, <1>23, <1>24, <1>25, <1>26, <1>27, <1>28, <1>29, <1>30, <1>31, <1>32, <1>33, <1>34, <1>35, <1>36 DEF Next, JobStep, Section, RunStep

\* Nothing gives a closed run an entry again, and its release ends by removing it.
LEMMA GiveBacksStep ==
  ASSUME "timeout" \notin Faults, "error" \notin Faults, MaxCrashes = 0
  PROVE  TypeOK /\ Locals /\ NoRescan /\ Askers /\ Once /\ Known /\ GiveBacks /\ [Next]_vars => GiveBacks'
<1> SUFFICES ASSUME TypeOK, Locals, NoRescan, Askers, Once, Known, GiveBacks, [Next]_vars, NEW i \in Runs
             PROVE  GivesBack(i)'
  BY DEF GiveBacks
<1> /\ JobTypes /\ active \in SUBSET Runs /\ phase \in [Runs -> Phases] /\ GivesBack(i)
    /\ tasks \in [Workers -> SUBSET Runs] /\ info \in [Workers -> SUBSET Runs] /\ crashes \in 0 .. MaxCrashes
  BY DEF TypeOK, JobTypes, GiveBacks
<1> \A j \in Jobs : pc[j] \in {"settle", "dispatch"} => phase[pick[j]] = "queued"
  BY DEF Once, OnceOf, Carries, Carrying, Locals, LocalsOf
<1> \A j \in Jobs : LocalsOf(j) /\ AskOf(j) /\ pc[j] # "rescan"
  BY DEF Locals, Askers, NoRescan
<1> \A w \in Workers : KnownAt(w, i)
  BY DEF Known
<1> USE LimiterAssumption DEF Goto, Mark, GivesBack, ReleasedBy, Asks
<1>1. ASSUME NEW j \in Jobs, NEW r \in Runs, CallAcquire(j, r) PROVE GivesBack(i)'
  BY <1>1 DEF CallAcquire, Call, redis, rewrite, bounds, JobTypes, LocalsOf, AskOf, KnownAt
<1>2. ASSUME NEW j \in Jobs, NEW r \in Runs, CallRelease(j, r) PROVE GivesBack(i)'
  BY <1>2 DEF CallRelease, Call, redis, rewrite, bounds, JobTypes, LocalsOf, AskOf, KnownAt
<1>3. ASSUME NEW j \in Jobs, NEW r \in Runs, CallCancel(j, r) PROVE GivesBack(i)'
  BY <1>3 DEF CallCancel, Call, redis, rewrite, JobTypes, LocalsOf, AskOf, KnownAt
<1>4. ASSUME NEW j \in Jobs, NEW old \in Runs, NEW r \in Runs, CallRecover(j, old, r) PROVE GivesBack(i)'
  BY <1>4 DEF CallRecover, Call, redis, rewrite, bounds, JobTypes, LocalsOf, AskOf, KnownAt
<1>5. ASSUME NEW j \in Jobs, CallRewrite(j) PROVE GivesBack(i)'
  BY <1>5 DEF CallRewrite, Call, redis, bounds, JobTypes, LocalsOf, AskOf, KnownAt
<1>6. ASSUME NEW j \in Jobs, Lock(j) PROVE GivesBack(i)'
  BY <1>6 DEF Lock, MutexFree, FirstStep, bounds, rewrite, JobTypes, LocalsOf, AskOf, KnownAt
<1>7. ASSUME NEW j \in Jobs, LockTimeout(j) PROVE GivesBack(i)'
  BY <1>7 DEF LockTimeout, AfterSection, Return, redis, rewrite, bounds, JobTypes, LocalsOf, AskOf, KnownAt
<1>8. ASSUME NEW j \in Jobs, Unlock(j) PROVE GivesBack(i)'
  BY <1>8 DEF Unlock, HandsOver, AfterSection, Return, rewrite, bounds, JobTypes, LocalsOf, AskOf, KnownAt
<1>9. ASSUME NEW j \in Jobs, Inherit(j) PROVE GivesBack(i)'
  BY <1>9 DEF Inherit, Inherited, OffBooks, rewrite, bounds, JobTypes, LocalsOf, AskOf, KnownAt
<1>10. ASSUME NEW j \in Jobs, Count(j) PROVE GivesBack(i)'
  BY <1>10 DEF Count, redis, rewrite, bounds, JobTypes, LocalsOf, AskOf, KnownAt
<1>11. ASSUME NEW j \in Jobs, Admit(j) PROVE GivesBack(i)'
  BY <1>11 DEF Admit, HasRoom, rewrite, bounds, JobTypes, LocalsOf, AskOf, KnownAt
<1>12. ASSUME NEW j \in Jobs, Measure(j) PROVE GivesBack(i)'
  BY <1>12 DEF Measure, HasRoom, redis, rewrite, bounds, JobTypes, LocalsOf, AskOf, KnownAt
<1>13. ASSUME NEW j \in Jobs, Push(j) PROVE GivesBack(i)'
  BY <1>13 DEF Push, rewrite, bounds, JobTypes, LocalsOf, AskOf, KnownAt
<1>14. ASSUME NEW j \in Jobs, Reject(j) PROVE GivesBack(i)'
  BY <1>14 DEF Reject, redis, rewrite, bounds, JobTypes, LocalsOf, AskOf, KnownAt
<1>15. ASSUME NEW j \in Jobs, Reply(j) PROVE GivesBack(i)'
  BY <1>15 DEF Reply, Return, redis, rewrite, bounds, JobTypes, LocalsOf, AskOf, KnownAt
<1>16. ASSUME NEW j \in Jobs, ReplyFails(j) PROVE GivesBack(i)'
  BY <1>16 DEF ReplyFails, Return, redis, rewrite, bounds, JobTypes, LocalsOf, AskOf, KnownAt
<1>17. ASSUME NEW j \in Jobs, Zrem(j) PROVE GivesBack(i)'
  BY <1>17 DEF Zrem, AfterZrem, OffBooks, locals, rewrite, bounds, JobTypes, LocalsOf, AskOf, KnownAt
<1>18. ASSUME NEW j \in Jobs, NEW r \in Runs, Pop(j, r) PROVE GivesBack(i)'
  BY <1>18 DEF Pop, Popped, rewrite, bounds, JobTypes, LocalsOf, AskOf, KnownAt
<1>19. ASSUME NEW j \in Jobs, PopNone(j) PROVE GivesBack(i)'
  BY <1>19 DEF PopNone, redis, locals, rewrite, bounds, JobTypes, LocalsOf, AskOf, KnownAt
<1>20. ASSUME NEW j \in Jobs, PutBack(j) PROVE GivesBack(i)'
  BY <1>20 DEF PutBack, HasRoom, PushedBack, rewrite, bounds, JobTypes, LocalsOf, AskOf, KnownAt
<1>21. ASSUME NEW j \in Jobs, Promote(j) PROVE GivesBack(i)'
  BY <1>21 DEF Promote, HasRoom, rewrite, bounds, JobTypes, LocalsOf, AskOf, KnownAt
<1>22. ASSUME NEW j \in Jobs, Dispatch(j) PROVE GivesBack(i)'
  BY <1>22 DEF Dispatch, AfterSection, Return, redis, rewrite, bounds, JobTypes, LocalsOf, AskOf, KnownAt
<1>23. ASSUME NEW j \in Jobs, DispatchDrops(j) PROVE GivesBack(i)'
  BY <1>23 DEF DispatchDrops, AfterSection, Return, rewrite, bounds, JobTypes, LocalsOf, AskOf, KnownAt
<1>24. ASSUME NEW j \in Jobs, NEW r \in Runs, Sift(j, r) PROVE GivesBack(i)'
  BY <1>24 DEF Sift, Kept, redis, bounds, JobTypes, LocalsOf, AskOf, KnownAt
<1>25. ASSUME NEW j \in Jobs, Swap(j) PROVE GivesBack(i)'
  BY <1>25 DEF Swap, Told, Return, bounds, JobTypes, LocalsOf, AskOf, KnownAt
<1>26. ASSUME NEW r \in Runs, StartRun(r) PROVE GivesBack(i)'
  BY <1>26 DEF StartRun, redis, locals, rewrite, bounds, JobTypes, LocalsOf, AskOf, KnownAt
<1>27. ASSUME NEW r \in Runs, Refresh(r) PROVE GivesBack(i)'
  BY <1>27 DEF Refresh, Beating, locals, rewrite, bounds, JobTypes, LocalsOf, AskOf, KnownAt
<1>28. ASSUME NEW r \in Runs, FinishRun(r) PROVE GivesBack(i)'
  BY <1>28 DEF FinishRun, redis, locals, rewrite, bounds, JobTypes, LocalsOf, AskOf, KnownAt
<1>29. ASSUME NEW r \in Runs, Age(r) PROVE GivesBack(i)'
  BY <1>29 DEF Age, redis, locals, rewrite, bounds, JobTypes, LocalsOf, AskOf, KnownAt
<1>30. ASSUME NEW r \in Runs, SlotLapses(r) PROVE GivesBack(i)'
  BY <1>30 DEF SlotLapses, locals, rewrite, bounds, JobTypes, LocalsOf, AskOf, KnownAt
<1>31. CASE LockExpires
  BY <1>31 DEF LockExpires, locals, rewrite, bounds, JobTypes, LocalsOf, AskOf, KnownAt
<1>32. ASSUME NEW w \in Workers, Crash(w) PROVE GivesBack(i)'
  BY <1>32 DEF Crash, JobTypes, LocalsOf, AskOf, KnownAt
<1>33. CASE UNCHANGED vars
  BY <1>33 DEF vars, redis, locals, rewrite, bounds, JobTypes, LocalsOf, AskOf, KnownAt
<1>34. ASSUME NEW j \in Jobs, NEW r \in Runs, CallReplay(j, r) PROVE GivesBack(i)'
  BY <1>34 DEF CallReplay, Call, redis, rewrite, bounds, JobTypes, LocalsOf, AskOf, KnownAt
<1>35. ASSUME NEW w \in Workers, NEW r \in Runs, CloseUnknown(w, r) PROVE GivesBack(i)'
  BY <1>35 DEF CloseUnknown, redis, locals, rewrite, bounds, JobTypes, LocalsOf, AskOf, KnownAt
<1>36. ASSUME NEW r \in Runs, RecordRun(r) PROVE GivesBack(i)'
  BY <1>36 DEF RecordRun, redis, locals, rewrite, bounds, JobTypes, LocalsOf, AskOf, KnownAt
<1>37. QED
  BY <1>1, <1>2, <1>3, <1>4, <1>5, <1>6, <1>7, <1>8, <1>9, <1>10, <1>11, <1>12, <1>13, <1>14, <1>15, <1>16, <1>17, <1>18, <1>19, <1>20, <1>21, <1>22, <1>23, <1>24, <1>25, <1>26, <1>27, <1>28, <1>29, <1>30, <1>31, <1>32, <1>33, <1>34, <1>35, <1>36 DEF Next, JobStep, Section, RunStep

\* A run whose task has ended has given its slot back or is about to
\* (EndedRunsGiveBack: _on_task_done and release against every other call),
\* provided no worker dies, no release gives up waiting for the mutex and no task
\* fails before its worker has recorded whose it is; and, so that no step gives a
\* closed run an entry, that sections do not outlive the mutex and no start-up
\* rewrite runs beside them.
THEOREM EndedRunsRelease ==
  ASSUME "slow" \notin Faults, "rewrite" \notin Faults, "timeout" \notin Faults,
         "error" \notin Faults, MaxCrashes = 0
  PROVE  Spec => []EndedRunsGiveBack
<1> DEFINE GInv == DInv /\ Single /\ Known /\ GiveBacks
<1>1. Init => GInv
  <2>1. Init => Single /\ Known /\ GiveBacks
    BY DEF Init, Single, SingleAt, Known, KnownAt, GiveBacks, GivesBack
  <2>2. QED
    BY <2>1, DInvInit
<1>2. GInv /\ [Next]_vars => GInv'
  <2>1. DInv /\ [Next]_vars => DInv'
    BY DInvStep
  <2>2. DInv /\ Single /\ [Next]_vars => Single'
    BY SingleStep DEF DInv
  <2>3. DInv /\ Single /\ Known /\ [Next]_vars => Known'
    BY KnownStep DEF DInv
  <2>4. DInv /\ Known /\ GiveBacks /\ [Next]_vars => GiveBacks'
    BY GiveBacksStep DEF DInv
  <2>5. QED
    BY <2>1, <2>2, <2>3, <2>4
<1>3. GInv => EndedRunsGiveBack
  BY DEF GiveBacks, GivesBack, ReleasedBy, EndedRunsGiveBack
<1>4. QED
  BY <1>1, <1>2, <1>3, PTL DEF Spec
=============================================================================
