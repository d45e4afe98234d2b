---------------------------- MODULE SlotPoolProofs ----------------------------
(***************************************************************************)
(* The limiter implements the atomic slot pool (ImplementsSlotPool), for   *)
(* any number of runs, workers, jobs and any limits, and with cancelled,   *)
(* expired, failing and crashing callers: every step of UserConcurrency is *)
(* a step of SlotPool or leaves the pool as it is.  As for the invariants  *)
(* it rests on, sections must not outlive the mutex and no worker may      *)
(* rewrite the queue without it.                                           *)
(*                                                                         *)
(* Beside the inductive invariants of AdmissionBound and DispatchedOnce    *)
(* the proof needs that a run that was not answered has no entry (Fresh),  *)
(* and that a rebuild of the list never changes the order (Siftings).      *)
(***************************************************************************)
EXTENDS UserConcurrencyProofs

\* A run that was not answered yet has no slot.
FreshRun(r) == phase[r] \in {"new", "asked"} => r \notin active
Fresh == \A r \in Runs : FreshRun(r)

\* What a rebuild has kept and still has to read is the list, thinned out.
SiftingOf(j) == pc[j] = "scan" => Pool!Thinned(keep[j] \o todo[j], queue)
Siftings == \A j \in Jobs : SiftingOf(j)

RInv == IInv /\ DInv /\ Fresh /\ Siftings

-----------------------------------------------------------------------------
(* Thinned sequences.                                                      *)

\* Nothing need be taken out.
LEMMA ThinnedSame == ASSUME NEW s \in Seq(Runs) PROVE Pool!Thinned(s, s)
<1> DEFINE at == [i \in DOMAIN s |-> i]
<1>1. at \in [DOMAIN s -> DOMAIN s] /\ \A i \in DOMAIN s : at[i] = i
  OBVIOUS
<1>2. QED
  BY <1>1 DEF Pool!Thinned

\* Thinning out twice is thinning out.
LEMMA ThinnedTwice ==
  ASSUME NEW a \in Seq(Runs), NEW b \in Seq(Runs), NEW c \in Seq(Runs),
         Pool!Thinned(a, b), Pool!Thinned(b, c)
  PROVE  Pool!Thinned(a, c)
<1>1. PICK f \in [DOMAIN a -> DOMAIN b] :
        /\ \A i \in DOMAIN a : a[i] = b[f[i]]
        /\ \A i, j \in DOMAIN a : i < j => f[i] < f[j]
  BY DEF Pool!Thinned
<1>2. PICK g \in [DOMAIN b -> DOMAIN c] :
        /\ \A i \in DOMAIN b : b[i] = c[g[i]]
        /\ \A i, j \in DOMAIN b : i < j => g[i] < g[j]
  BY DEF Pool!Thinned
<1> DEFINE at == [i \in DOMAIN a |-> g[f[i]]]
<1>3. at \in [DOMAIN a -> DOMAIN c]
  BY <1>1, <1>2
<1>4. \A i \in DOMAIN a : a[i] = c[at[i]]
  BY <1>1, <1>2
<1>5. \A i, j \in DOMAIN a : i < j => at[i] < at[j]
  BY <1>1, <1>2
<1> HIDE DEF at
<1>6. QED
  BY <1>3, <1>4, <1>5 DEF Pool!Thinned

\* The first entry behind a prefix is taken out.
LEMMA ThinnedDrop ==
  ASSUME NEW k \in Seq(Runs), NEW t \in Seq(Runs), t # <<>>
  PROVE  Pool!Thinned(k \o Tail(t), k \o t)
<1> DEFINE n == Len(k)
           m == Len(t)
           at == [i \in DOMAIN (k \o Tail(t)) |-> IF i <= n THEN i ELSE i + 1]
<1>1. Tail(t) \in Seq(Runs) /\ Len(Tail(t)) = m - 1 /\ \A i \in 1 .. Len(Tail(t)) : Tail(t)[i] = t[i + 1]
  BY HeadTailProperties
<1>2. n \in Nat /\ m \in Nat \ {0}
  BY LenProperties, EmptySeq
<1>3. /\ k \o t \in Seq(Runs) /\ Len(k \o t) = n + m
      /\ \A i \in 1 .. n + m : (k \o t)[i] = IF i <= n THEN k[i] ELSE t[i - n]
  BY ConcatProperties
<1>4. /\ k \o Tail(t) \in Seq(Runs) /\ Len(k \o Tail(t)) = n + (m - 1)
      /\ \A i \in 1 .. n + (m - 1) : (k \o Tail(t))[i] = IF i <= n THEN k[i] ELSE Tail(t)[i - n]
  BY <1>1, ConcatProperties
<1>5. DOMAIN (k \o t) = 1 .. n + m /\ DOMAIN (k \o Tail(t)) = 1 .. n + (m - 1)
  BY <1>3, <1>4, LenProperties
<1>6. at \in [DOMAIN (k \o Tail(t)) -> DOMAIN (k \o t)]
  BY <1>2, <1>5
<1>7. ASSUME NEW i \in 1 .. n + (m - 1) PROVE (k \o Tail(t))[i] = (k \o t)[at[i]]
  <2>1. CASE i <= n
    <3>1. (k \o Tail(t))[i] = k[i]
      BY <1>4, <2>1
    <3>2. (k \o t)[i] = k[i]
      BY <1>2, <1>3, <2>1
    <3>3. QED
      BY <1>5, <2>1, <3>1, <3>2
  <2>2. CASE ~(i <= n)
    <3>1. i - n \in 1 .. m - 1 /\ i + 1 \in 1 .. n + m /\ ~(i + 1 <= n) /\ (i + 1) - n = (i - n) + 1
      BY <1>2, <2>2
    <3>2. (k \o Tail(t))[i] = Tail(t)[i - n]
      BY <1>4, <2>2
    <3>3. Tail(t)[i - n] = t[(i - n) + 1]
      BY <1>1, <3>1
    <3>4. (k \o t)[i + 1] = t[(i + 1) - n]
      BY <1>3, <3>1
    <3>5. QED
      BY <1>5, <2>2, <3>1, <3>2, <3>3, <3>4
  <2>3. QED
    BY <2>1, <2>2
<1>8. \A i, j \in 1 .. n + (m - 1) : i < j => at[i] < at[j]
  BY <1>2, <1>5
<1> HIDE DEF at
<1>9. QED
  BY <1>5, <1>6, <1>7, <1>8 DEF Pool!Thinned

\* The head leaves the line.
LEMMA ThinnedTail ==
  ASSUME NEW s \in Seq(Runs), s # <<>> PROVE Pool!Thinned(Tail(s), s)
<1>1. Tail(s) \in Seq(Runs) /\ <<>> \in Seq(Runs)
  BY HeadTailProperties, EmptySeq
<1>2. Pool!Thinned(<<>> \o Tail(s), <<>> \o s)
  BY <1>1, ThinnedDrop
<1>3. <<>> \o Tail(s) = Tail(s) /\ <<>> \o s = s
  BY <1>1, ConcatEmptySeq
<1>4. QED
  BY <1>2, <1>3

\* A sequence is its head and its tail.
LEMMA ConsHeadTail ==
  /\ \A s \in Seq(Runs) : s # <<>> => <<Head(s)>> \o Tail(s) = s
  /\ \A e \in Runs, s \in Seq(Runs) :
       /\ <<e>> \o s \in Seq(Runs) /\ <<e>> \o s # <<>>
       /\ Head(<<e>> \o s) = e /\ Tail(<<e>> \o s) = s
<1>1. ASSUME NEW s \in Seq(Runs), s # <<>> PROVE <<Head(s)>> \o Tail(s) = s
  <2>1. Head(s) \in Runs /\ Tail(s) \in Seq(Runs) /\ Len(Tail(s)) = Len(s) - 1
        /\ \A i \in 1 .. Len(Tail(s)) : Tail(s)[i] = s[i + 1]
    BY <1>1, HeadTailProperties
  <2>2. Head(s) = s[1] /\ Len(s) \in Nat \ {0}
    BY <1>1, LenProperties, EmptySeq
  <2>3. <<Head(s)>> \in Seq(Runs) /\ Len(<<Head(s)>>) = 1 /\ <<Head(s)>>[1] = Head(s)
    BY <2>1
  <2>4. /\ <<Head(s)>> \o Tail(s) \in Seq(Runs)
        /\ Len(<<Head(s)>> \o Tail(s)) = 1 + (Len(s) - 1)
        /\ \A i \in 1 .. 1 + (Len(s) - 1) :
             (<<Head(s)>> \o Tail(s))[i] = IF i <= 1 THEN <<Head(s)>>[i] ELSE Tail(s)[i - 1]
    BY <2>1, <2>3, ConcatProperties
  <2>5. ASSUME NEW i \in 1 .. Len(s) PROVE (<<Head(s)>> \o Tail(s))[i] = s[i]
    <3>1. CASE i = 1
      BY <2>2, <2>3, <2>4, <3>1
    <3>2. CASE i # 1
      <4>1. i - 1 \in 1 .. Len(Tail(s)) /\ (i - 1) + 1 = i
        BY <2>1, <2>2, <3>2
      <4>2. (<<Head(s)>> \o Tail(s))[i] = Tail(s)[i - 1]
        BY <2>2, <2>4, <3>2
      <4>3. QED
        BY <2>1, <4>1, <4>2
    <3>3. QED
      BY <3>1, <3>2
  <2>6. Len(<<Head(s)>> \o Tail(s)) = Len(s)
    BY <2>2, <2>4
  <2>7. QED
    BY <2>4, <2>5, <2>6, SeqEqual
<1>2. ASSUME NEW e \in Runs, NEW s \in Seq(Runs)
      PROVE  /\ <<e>> \o s \in Seq(Runs) /\ <<e>> \o s # <<>>
             /\ Head(<<e>> \o s) = e /\ Tail(<<e>> \o s) = s
  <2>1. <<e>> \in Seq(Runs) /\ Len(<<e>>) = 1 /\ <<e>>[1] = e
    OBVIOUS
  <2>2. /\ <<e>> \o s \in Seq(Runs) /\ Len(<<e>> \o s) = 1 + Len(s)
        /\ \A i \in 1 .. 1 + Len(s) : (<<e>> \o s)[i] = IF i <= 1 THEN <<e>>[i] ELSE s[i - 1]
    BY <2>1, ConcatProperties
  <2>3. Len(s) \in Nat
    BY LenProperties
  <2>4. <<e>> \o s # <<>> /\ (<<e>> \o s)[1] = e
    BY <2>1, <2>2, <2>3, EmptySeq
  <2>5. /\ Tail(<<e>> \o s) \in Seq(Runs) /\ Len(Tail(<<e>> \o s)) = Len(s)
        /\ \A i \in 1 .. Len(s) : Tail(<<e>> \o s)[i] = (<<e>> \o s)[i + 1]
    BY <2>2, <2>3, <2>4, HeadTailProperties
  <2>6. \A i \in 1 .. Len(s) : Tail(<<e>> \o s)[i] = s[i]
    BY <2>2, <2>3, <2>5
  <2>7. Tail(<<e>> \o s) = s
    BY <2>5, <2>6, SeqEqual
  <2>8. QED
    BY <2>2, <2>4, <2>7
<1>3. QED
  BY <1>1, <1>2

\* A kept entry moves from the rest to the rebuilt list.
LEMMA KeptMoves ==
  ASSUME NEW k \in Seq(Runs), NEW t \in Seq(Runs), t # <<>>
  PROVE  Append(k, Head(t)) \o Tail(t) = k \o t
<1>1. Head(t) \in Runs /\ Tail(t) \in Seq(Runs) /\ <<Head(t)>> \in Seq(Runs)
  BY HeadTailProperties
<1>2. Append(k, Head(t)) = k \o <<Head(t)>>
  BY <1>1, AppendIsConcat
<1>3. (k \o <<Head(t)>>) \o Tail(t) = k \o (<<Head(t)>> \o Tail(t))
  BY <1>1, ConcatAssociative
<1>4. QED
  BY <1>2, <1>3, ConsHeadTail

-----------------------------------------------------------------------------
(* The invariants.                                                         *)

\* An entry is made only for a run that was answered.
LEMMA FreshStep ==
  TypeOK /\ Locals /\ Askers /\ Once /\ Fresh /\ [Next]_vars => Fresh'
<1> SUFFICES ASSUME TypeOK, Locals, Askers, Once, Fresh, [Next]_vars, NEW i \in Runs PROVE FreshRun(i)'
  BY DEF Fresh
<1> active \in SUBSET Runs /\ phase \in [Runs -> Phases] /\ FreshRun(i)
  BY DEF TypeOK, Fresh
<1> \A j \in Jobs : LocalsOf(j)
  BY DEF Locals
<1> \A j \in Jobs : pc[j] = "settle" => phase[pick[j]] = "queued"
  BY DEF Once, OnceOf, Carries, Carrying, Locals, LocalsOf
<1> USE LimiterAssumption DEF Goto, Mark, FreshRun
<1>1. ASSUME NEW j \in Jobs, NEW r \in Runs, CallAcquire(j, r) PROVE FreshRun(i)'
  BY <1>1 DEF CallAcquire, Call, redis, rewrite, bounds, LocalsOf
<1>2. ASSUME NEW j \in Jobs, NEW r \in Runs, CallRelease(j, r) PROVE FreshRun(i)'
  BY <1>2 DEF CallRelease, Call, redis, rewrite, bounds, LocalsOf
<1>3. ASSUME NEW j \in Jobs, NEW r \in Runs, CallCancel(j, r) PROVE FreshRun(i)'
  BY <1>3 DEF CallCancel, Call, redis, rewrite, LocalsOf
<1>4. ASSUME NEW j \in Jobs, NEW old \in Runs, NEW r \in Runs, CallRecover(j, old, r) PROVE FreshRun(i)'
  BY <1>4 DEF CallRecover, Call, redis, rewrite, bounds, LocalsOf
<1>5. ASSUME NEW j \in Jobs, CallRewrite(j) PROVE FreshRun(i)'
  BY <1>5 DEF CallRewrite, Call, redis, bounds, LocalsOf
<1>6. ASSUME NEW j \in Jobs, Lock(j) PROVE FreshRun(i)'
  BY <1>6 DEF Lock, MutexFree, FirstStep, bounds, rewrite, LocalsOf
<1>7. ASSUME NEW j \in Jobs, LockTimeout(j) PROVE FreshRun(i)'
  BY <1>7 DEF LockTimeout, AfterSection, Return, redis, rewrite, bounds, LocalsOf
<1>8. ASSUME NEW j \in Jobs, Unlock(j) PROVE FreshRun(i)'
  BY <1>8 DEF Unlock, HandsOver, AfterSection, Return, rewrite, bounds, LocalsOf
<1>9. ASSUME NEW j \in Jobs, Inherit(j) PROVE FreshRun(i)'
  BY <1>9 DEF Inherit, Inherited, OffBooks, rewrite, bounds, LocalsOf
<1>10. ASSUME NEW j \in Jobs, Count(j) PROVE FreshRun(i)'
  BY <1>10 DEF Count, redis, rewrite, bounds, LocalsOf
<1>11. ASSUME NEW j \in Jobs, Admit(j) PROVE FreshRun(i)'
  BY <1>11 DEF Admit, HasRoom, rewrite, bounds, LocalsOf
<1>12. ASSUME NEW j \in Jobs, Measure(j) PROVE FreshRun(i)'
  BY <1>12 DEF Measure, HasRoom, redis, rewrite, bounds, LocalsOf
<1>13. ASSUME NEW j \in Jobs, Push(j) PROVE FreshRun(i)'
  BY <1>13 DEF Push, rewrite, bounds, LocalsOf
<1>14. ASSUME NEW j \in Jobs, Reject(j) PROVE FreshRun(i)'
  BY <1>14 DEF Reject, redis, rewrite, bounds, LocalsOf
<1>15. ASSUME NEW j \in Jobs, Reply(j) PROVE FreshRun(i)'
  BY <1>15 DEF Reply, Return, redis, rewrite, bounds, LocalsOf
<1>16. ASSUME NEW j \in Jobs, ReplyFails(j) PROVE FreshRun(i)'
  BY <1>16 DEF ReplyFails, Return, redis, rewrite, bounds, LocalsOf
<1>17. ASSUME NEW j \in Jobs, Zrem(j) PROVE FreshRun(i)'
  BY <1>17 DEF Zrem, AfterZrem, OffBooks, locals, rewrite, bounds, LocalsOf
<1>18. ASSUME NEW j \in Jobs, NEW r \in Runs, Pop(j, r) PROVE FreshRun(i)'
  BY <1>18 DEF Pop, Popped, rewrite, bounds, LocalsOf
<1>19. ASSUME NEW j \in Jobs, PopNone(j) PROVE FreshRun(i)'
  BY <1>19 DEF PopNone, redis, locals, rewrite, bounds, LocalsOf
<1>20. ASSUME NEW j \in Jobs, PutBack(j) PROVE FreshRun(i)'
  BY <1>20 DEF PutBack, HasRoom, PushedBack, rewrite, bounds, LocalsOf
<1>21. ASSUME NEW j \in Jobs, Promote(j) PROVE FreshRun(i)'
  BY <1>21 DEF Promote, HasRoom, rewrite, bounds, LocalsOf
<1>22. ASSUME NEW j \in Jobs, Dispatch(j) PROVE FreshRun(i)'
  BY <1>22 DEF Dispatch, AfterSection, Return, redis, rewrite, bounds, LocalsOf
<1>23. ASSUME NEW j \in Jobs, DispatchDrops(j) PROVE FreshRun(i)'
  BY <1>23 DEF DispatchDrops, AfterSection, Return, rewrite, bounds, LocalsOf
<1>24. ASSUME NEW j \in Jobs, NEW r \in Runs, Sift(j, r) PROVE FreshRun(i)'
  BY <1>24 DEF Sift, Kept, redis, bounds, LocalsOf
<1>25. ASSUME NEW j \in Jobs, Swap(j) PROVE FreshRun(i)'
  BY <1>25 DEF Swap, Told, Return, bounds, LocalsOf
<1>26. ASSUME NEW r \in Runs, StartRun(r) PROVE FreshRun(i)'
  BY <1>26 DEF StartRun, redis, locals, rewrite, bounds, LocalsOf
<1>27. ASSUME NEW r \in Runs, Refresh(r) PROVE FreshRun(i)'
  BY <1>27 DEF Refresh, Beating, locals, rewrite, bounds, LocalsOf
<1>28. ASSUME NEW r \in Runs, FinishRun(r) PROVE FreshRun(i)'
  BY <1>28 DEF FinishRun, redis, locals, rewrite, bounds, LocalsOf
<1>29. ASSUME NEW r \in Runs, Age(r) PROVE FreshRun(i)'
  BY <1>29 DEF Age, redis, locals, rewrite, bounds, LocalsOf
<1>30. ASSUME NEW r \in Runs, SlotLapses(r) PROVE FreshRun(i)'
  BY <1>30 DEF SlotLapses, locals, rewrite, bounds, LocalsOf
<1>31. CASE LockExpires
  BY <1>31 DEF LockExpires, locals, rewrite, bounds, LocalsOf
<1>32. ASSUME NEW w \in Workers, Crash(w) PROVE FreshRun(i)'
  BY <1>32 DEF Crash, LocalsOf
<1>33. CASE UNCHANGED vars
  BY <1>33 DEF vars, redis, locals, rewrite, bounds, LocalsOf
<1>34. ASSUME NEW j \in Jobs, NEW r \in Runs, CallReplay(j, r) PROVE FreshRun(i)'
  BY <1>34 DEF CallReplay, Call, redis, rewrite, bounds, LocalsOf
<1>35. ASSUME NEW w \in Workers, NEW r \in Runs, CloseUnknown(w, r) PROVE FreshRun(i)'
  BY <1>35 DEF CloseUnknown, redis, locals, rewrite, bounds, LocalsOf
<1>36. ASSUME NEW r \in Runs, RecordRun(r) PROVE FreshRun(i)'
  BY <1>36 DEF RecordRun, redis, locals, rewrite, bounds, LocalsOf
<1>37. QED
  BY <1>1, <1>2, <1>3, <1>4, <1>5, <1>6, <1>7, <1>8, <1>9, <1>10, <1>11, <1>12, <1>13, <1>14, <1>15, <1>16, <1>17, <1>18, <1>19, <1>20, <1>21, <1>22, <1>23, <1>24, <1>25, <1>26, <1>27, <1>28, <1>29, <1>30, <1>31, <1>32, <1>33, <1>34, <1>35, <1>36 DEF Next, JobStep, Section, RunStep

\* A rebuild works on the list as it is: nobody else changes it meanwhile.
LEMMA SiftingsStep ==
  TypeOK /\ Locals /\ Mutex /\ NoRescan /\ Siftings /\ [Next]_vars => Siftings'
<1> SUFFICES ASSUME TypeOK, Locals, Mutex, NoRescan, Siftings, [Next]_vars, NEW i \in Jobs
             PROVE  SiftingOf(i)'
  BY DEF Siftings
<1> JobTypes /\ SiftingOf(i) /\ pc[i] # "rescan"
  BY DEF Siftings, NoRescan, TypeOK, JobTypes
<1> /\ todo \in [Jobs -> Seq(Runs)] /\ keep \in [Jobs -> Seq(Runs)]
    /\ gone \in [Jobs -> SUBSET Runs] /\ queue \in Seq(Runs)
  BY DEF TypeOK
<1> (pc[i] \in Critical => lock = i) /\ \A j \in Jobs : pc[j] \in Critical => lock = j
  BY DEF Mutex
<1> \A j \in Jobs : pc[j] # "rescan"
  BY DEF NoRescan
<1> USE LimiterAssumption DEF Goto, Mark, SiftingOf, Critical
<1>1. ASSUME NEW j \in Jobs, NEW r \in Runs, CallAcquire(j, r) PROVE SiftingOf(i)'
  BY <1>1 DEF CallAcquire, Call, redis, rewrite, bounds, JobTypes
<1>2. ASSUME NEW j \in Jobs, NEW r \in Runs, CallRelease(j, r) PROVE SiftingOf(i)'
  BY <1>2 DEF CallRelease, Call, redis, rewrite, bounds, JobTypes
<1>3. ASSUME NEW j \in Jobs, NEW r \in Runs, CallCancel(j, r) PROVE SiftingOf(i)'
  BY <1>3 DEF CallCancel, Call, redis, rewrite, JobTypes
<1>4. ASSUME NEW j \in Jobs, NEW old \in Runs, NEW r \in Runs, CallRecover(j, old, r) PROVE SiftingOf(i)'
  BY <1>4 DEF CallRecover, Call, redis, rewrite, bounds, JobTypes
<1>5. ASSUME NEW j \in Jobs, CallRewrite(j) PROVE SiftingOf(i)'
  BY <1>5 DEF CallRewrite, Call, redis, bounds, JobTypes
<1>6. ASSUME NEW j \in Jobs, Lock(j) PROVE SiftingOf(i)'
  <2>1. CASE i = j /\ op[j] = "remove"
    <3>1. todo'[i] = queue /\ keep'[i] = <<>> /\ queue' = queue
      BY <1>6, <2>1 DEF Lock
    <3>2. keep'[i] \o todo'[i] = queue
      BY <3>1, ConcatEmptySeq
    <3>3. QED
      BY <3>1, <3>2, ThinnedSame
  <2>2. CASE ~(i = j /\ op[j] = "remove")
    BY <1>6, <2>2 DEF Lock, MutexFree, FirstStep, rewrite, bounds, JobTypes
  <2>3. QED
    BY <2>1, <2>2
<1>7. ASSUME NEW j \in Jobs, LockTimeout(j) PROVE SiftingOf(i)'
  BY <1>7 DEF LockTimeout, AfterSection, Return, redis, rewrite, bounds, JobTypes
<1>8. ASSUME NEW j \in Jobs, Unlock(j) PROVE SiftingOf(i)'
  BY <1>8 DEF Unlock, HandsOver, AfterSection, Return, rewrite, bounds, JobTypes
<1>9. ASSUME NEW j \in Jobs, Inherit(j) PROVE SiftingOf(i)'
  BY <1>9 DEF Inherit, Inherited, OffBooks, rewrite, bounds, JobTypes
<1>10. ASSUME NEW j \in Jobs, Count(j) PROVE SiftingOf(i)'
  BY <1>10 DEF Count, redis, rewrite, bounds, JobTypes
<1>11. ASSUME NEW j \in Jobs, Admit(j) PROVE SiftingOf(i)'
  BY <1>11 DEF Admit, HasRoom, rewrite, bounds, JobTypes
<1>12. ASSUME NEW j \in Jobs, Measure(j) PROVE SiftingOf(i)'
  BY <1>12 DEF Measure, HasRoom, redis, rewrite, bounds, JobTypes
<1>13. ASSUME NEW j \in Jobs, Push(j) PROVE SiftingOf(i)'
  BY <1>13 DEF Push, rewrite, bounds, JobTypes
<1>14. ASSUME NEW j \in Jobs, Reject(j) PROVE SiftingOf(i)'
  BY <1>14 DEF Reject, redis, rewrite, bounds, JobTypes
<1>15. ASSUME NEW j \in Jobs, Reply(j) PROVE SiftingOf(i)'
  BY <1>15 DEF Reply, Return, redis, rewrite, bounds, JobTypes
<1>16. ASSUME NEW j \in Jobs, ReplyFails(j) PROVE SiftingOf(i)'
  BY <1>16 DEF ReplyFails, Return, redis, rewrite, bounds, JobTypes
<1>17. ASSUME NEW j \in Jobs, Zrem(j) PROVE SiftingOf(i)'
  BY <1>17 DEF Zrem, AfterZrem, OffBooks, locals, rewrite, bounds, JobTypes
<1>18. ASSUME NEW j \in Jobs, NEW r \in Runs, Pop(j, r) PROVE SiftingOf(i)'
  BY <1>18 DEF Pop, Popped, rewrite, bounds, JobTypes
<1>19. ASSUME NEW j \in Jobs, PopNone(j) PROVE SiftingOf(i)'
  BY <1>19 DEF PopNone, redis, locals, rewrite, bounds, JobTypes
<1>20. ASSUME NEW j \in Jobs, PutBack(j) PROVE SiftingOf(i)'
  BY <1>20 DEF PutBack, HasRoom, PushedBack, rewrite, bounds, JobTypes
<1>21. ASSUME NEW j \in Jobs, Promote(j) PROVE SiftingOf(i)'
  BY <1>21 DEF Promote, HasRoom, rewrite, bounds, JobTypes
<1>22. ASSUME NEW j \in Jobs, Dispatch(j) PROVE SiftingOf(i)'
  BY <1>22 DEF Dispatch, AfterSection, Return, redis, rewrite, bounds, JobTypes
<1>23. ASSUME NEW j \in Jobs, DispatchDrops(j) PROVE SiftingOf(i)'
  BY <1>23 DEF DispatchDrops, AfterSection, Return, rewrite, bounds, JobTypes
<1>24. ASSUME NEW j \in Jobs, NEW r \in Runs, Sift(j, r) PROVE SiftingOf(i)'
  <2>1. CASE i # j
    BY <1>24, <2>1 DEF Sift, Kept, redis, bounds, JobTypes
  <2>2. CASE i = j /\ pc[i] = "scan"
    <3>1. todo[i] # <<>> /\ r = Head(todo[i]) /\ todo'[i] = Tail(todo[i]) /\ queue' = queue
      BY <1>24, <2>2 DEF Sift, redis
    <3>2. keep[i] \in Seq(Runs) /\ todo[i] \in Seq(Runs) /\ Tail(todo[i]) \in Seq(Runs)
      BY <3>1, HeadTailProperties
    <3>3. keep'[i] = keep[i] \/ keep'[i] = Append(keep[i], r)
      BY <1>24, <2>2 DEF Sift, Kept
    <3>4. CASE keep'[i] = keep[i]
      <4>1. keep[i] \o Tail(todo[i]) \in Seq(Runs) /\ keep[i] \o todo[i] \in Seq(Runs)
        BY <3>2, ConcatProperties
      <4>2. Pool!Thinned(keep[i] \o Tail(todo[i]), keep[i] \o todo[i])
        BY <3>1, <3>2, ThinnedDrop
      <4>3. Pool!Thinned(keep[i] \o Tail(todo[i]), queue)
        BY <2>2, <4>1, <4>2, ThinnedTwice
      <4>4. QED
        BY <3>1, <3>4, <4>3
    <3>5. CASE keep'[i] = Append(keep[i], r)
      <4>1. keep'[i] \o todo'[i] = keep[i] \o todo[i]
        BY <3>1, <3>2, <3>5, KeptMoves
      <4>2. QED
        BY <2>2, <3>1, <4>1
    <3>6. QED
      BY <3>3, <3>4, <3>5
  <2>3. CASE i = j /\ pc[i] # "scan"
    BY <1>24, <2>3 DEF Sift
  <2>4. QED
    BY <2>1, <2>2, <2>3
<1>25. ASSUME NEW j \in Jobs, Swap(j) PROVE SiftingOf(i)'
  BY <1>25 DEF Swap, Told, Return, bounds, JobTypes
<1>26. ASSUME NEW r \in Runs, StartRun(r) PROVE SiftingOf(i)'
  BY <1>26 DEF StartRun, redis, locals, rewrite, bounds, JobTypes
<1>27. ASSUME NEW r \in Runs, Refresh(r) PROVE SiftingOf(i)'
  BY <1>27 DEF Refresh, Beating, locals, rewrite, bounds, JobTypes
<1>28. ASSUME NEW r \in Runs, FinishRun(r) PROVE SiftingOf(i)'
  BY <1>28 DEF FinishRun, redis, locals, rewrite, bounds, JobTypes
<1>29. ASSUME NEW r \in Runs, Age(r) PROVE SiftingOf(i)'
  BY <1>29 DEF Age, redis, locals, rewrite, bounds, JobTypes
<1>30. ASSUME NEW r \in Runs, SlotLapses(r) PROVE SiftingOf(i)'
  BY <1>30 DEF SlotLapses, locals, rewrite, bounds, JobTypes
<1>31. CASE LockExpires
  BY <1>31 DEF LockExpires, locals, rewrite, bounds, JobTypes
<1>32. ASSUME NEW w \in Workers, Crash(w) PROVE SiftingOf(i)'
  BY <1>32 DEF Crash, JobTypes
<1>33. CASE UNCHANGED vars
  BY <1>33 DEF vars, redis, locals, rewrite, bounds, JobTypes
<1>34. ASSUME NEW j \in Jobs, NEW r \in Runs, CallReplay(j, r) PROVE SiftingOf(i)'
  BY <1>34 DEF CallReplay, Call, redis, rewrite, bounds, JobTypes
<1>35. ASSUME NEW w \in Workers, NEW r \in Runs, CloseUnknown(w, r) PROVE SiftingOf(i)'
  BY <1>35 DEF CloseUnknown, redis, locals, rewrite, bounds, JobTypes
<1>36. ASSUME NEW r \in Runs, RecordRun(r) PROVE SiftingOf(i)'
  BY <1>36 DEF RecordRun, redis, locals, rewrite, bounds, JobTypes
<1>37. QED
  BY <1>1, <1>2, <1>3, <1>4, <1>5, <1>6, <1>7, <1>8, <1>9, <1>10, <1>11, <1>12, <1>13, <1>14, <1>15, <1>16, <1>17, <1>18, <1>19, <1>20, <1>21, <1>22, <1>23, <1>24, <1>25, <1>26, <1>27, <1>28, <1>29, <1>30, <1>31, <1>32, <1>33, <1>34, <1>35, <1>36 DEF Next, JobStep, Section, RunStep

\* The invariants of the refinement hold and keep one another.
LEMMA RInvInit == Init => RInv
<1>1. Init => Fresh /\ Siftings
  BY DEF Init, Fresh, FreshRun, Siftings, SiftingOf
<1>2. QED
  BY <1>1, IInvInit, DInvInit DEF RInv

LEMMA RInvStep ==
  ASSUME "slow" \notin Faults, "rewrite" \notin Faults
  PROVE  RInv /\ [Next]_vars => RInv'
<1>1. RInv /\ [Next]_vars => DInv'
  BY DInvStep DEF RInv
<1>2. IInv /\ [Next]_vars => IInv'
  BY TypeStep, LocalsStep, MutexStep, EnteredStep, CountedStep, BoundStep DEF IInv
<1>3. RInv /\ [Next]_vars => Fresh' /\ Siftings'
  BY FreshStep, SiftingsStep DEF RInv, DInv
<1>4. QED
  BY <1>1, <1>2, <1>3 DEF RInv

-----------------------------------------------------------------------------
(* The pool as the limiter shows it.                                       *)

Answered == {r \in Runs : phase[r] \notin {"new", "asked"}}
Stays == Line' = Line /\ OnBooks' = OnBooks /\ Answered' = Answered
PoolStep == Pool!Next \/ Stays

\* The list, and whether a popped entry stands in front of it, did not change.
SettlingAt(j) == pc[j] \in {"check", "settle"}
LineStays ==
  /\ queue' = queue
  /\ \A j \in Jobs : /\ SettlingAt(j)' <=> SettlingAt(j)
                     /\ SettlingAt(j) => pick'[j] = pick[j]

\* The pool counts as the limiter does.
LEMMA PoolCounts == \A S : Pool!Cardinality(S) = Cardinality(S)
  BY DEF Pool!Cardinality, Cardinality

\* The actions of the pool are steps of it.
LEMMA PoolMoves ==
  /\ \A r \in Runs : Pool!Admit(r) \/ Pool!LineUp(r) \/ Pool!TurnAway(r) \/ Pool!Leave(r) => PoolStep
  /\ \A old, r \in Runs : Pool!Replace(old, r) => PoolStep
  /\ Pool!Promote \/ Pool!Withdraw => PoolStep
  /\ \A S \in SUBSET Runs : Pool!Abandon(S) => PoolStep
<1>1. \A r \in Runs : Pool!Admit(r) \/ Pool!LineUp(r) \/ Pool!TurnAway(r) \/ Pool!Leave(r) => PoolStep
  BY Zenon DEF PoolStep, Pool!Next
<1>2. \A old, r \in Runs : Pool!Replace(old, r) => PoolStep
  BY Zenon DEF PoolStep, Pool!Next
<1>3. Pool!Promote \/ Pool!Withdraw => PoolStep
  BY Zenon DEF PoolStep, Pool!Next
<1>4. \A S \in SUBSET Runs : Pool!Abandon(S) => PoolStep
  BY Zenon DEF PoolStep, Pool!Next
<1>5. QED
  BY <1>1, <1>2, <1>3, <1>4

\* Only the holder of the mutex can have popped an entry.
LEMMA LineNow ==
  ASSUME Mutex
  PROVE  /\ (\A j \in Jobs : ~SettlingAt(j)) => Line = queue
         /\ \A j \in Jobs : SettlingAt(j) => Line = <<pick[j]>> \o queue
<1>1. ASSUME NEW j \in Jobs, SettlingAt(j) PROVE Settling = {j}
  BY <1>1 DEF Mutex, Critical, Settling, SettlingAt
<1>2. ASSUME NEW j \in Jobs, SettlingAt(j) PROVE (CHOOSE i \in Settling : TRUE) = j
  <2>1. \A S : S = {j} => (CHOOSE i \in S : TRUE) = j
    OBVIOUS
  <2>2. QED
    BY <1>1, <1>2, <2>1
<1>3. ASSUME NEW j \in Jobs, SettlingAt(j) PROVE Line = <<pick[j]>> \o queue
  BY <1>1, <1>2, <1>3 DEF Line
<1>4. (\A j \in Jobs : ~SettlingAt(j)) => Settling = {}
  BY DEF Settling, SettlingAt
<1>5. QED
  BY <1>3, <1>4 DEF Line

LEMMA LineNext ==
  ASSUME Mutex'
  PROVE  /\ (\A j \in Jobs : ~SettlingAt(j)') => Line' = queue'
         /\ \A j \in Jobs : SettlingAt(j)' => Line' = <<pick'[j]>> \o queue'
<1>1. ASSUME NEW j \in Jobs, SettlingAt(j)' PROVE Settling' = {j}
  BY <1>1 DEF Mutex, Critical, Settling, SettlingAt
<1>2. ASSUME NEW j \in Jobs, SettlingAt(j)' PROVE (CHOOSE i \in Settling' : TRUE) = j
  <2>1. \A S : S = {j} => (CHOOSE i \in S : TRUE) = j
    OBVIOUS
  <2>2. QED
    BY <1>1, <1>2, <2>1
<1>3. ASSUME NEW j \in Jobs, SettlingAt(j)' PROVE Line' = <<pick'[j]>> \o queue'
  BY <1>1, <1>2, <1>3 DEF Line
<1>4. (\A j \in Jobs : ~SettlingAt(j)') => Settling' = {}
  BY DEF Settling, SettlingAt
<1>5. QED
  BY <1>3, <1>4 DEF Line

LEMMA LineKept ==
  ASSUME Mutex, Mutex', LineStays PROVE Line' = Line
<1>1. CASE \A j \in Jobs : ~SettlingAt(j)
  <2>1. Line = queue
    BY <1>1, LineNow
  <2>2. \A j \in Jobs : ~SettlingAt(j)'
    BY <1>1 DEF LineStays
  <2>3. Line' = queue'
    BY <2>2, LineNext
  <2>4. QED
    BY <2>1, <2>3 DEF LineStays
<1>2. ASSUME NEW j \in Jobs, SettlingAt(j) PROVE Line' = Line
  <2>1. Line = <<pick[j]>> \o queue
    BY <1>2, LineNow
  <2>2. SettlingAt(j)' /\ pick'[j] = pick[j] /\ queue' = queue
    BY <1>2 DEF LineStays
  <2>3. Line' = <<pick'[j]>> \o queue'
    BY <2>2, LineNext
  <2>4. QED
    BY <2>1, <2>2, <2>3
<1>3. QED
  BY <1>1, <1>2

\* While a job is in its section and has popped nothing, nobody has.
LEMMA NobodySettles ==
  ASSUME Mutex, NEW j \in Jobs, pc[j] \in Critical, ~SettlingAt(j)
  PROVE  /\ \A i \in Jobs : ~SettlingAt(i)
         /\ Line = queue
<1>1. \A i \in Jobs : ~SettlingAt(i)
  BY DEF Mutex, Critical, SettlingAt
<1>2. QED
  BY <1>1, LineNow

-----------------------------------------------------------------------------
(* Each step of the limiter is a step of the pool, or none.                *)

\* Calls, the mutex, counts, the reading of a list and the ends of runs are not
\* seen by the pool.
Unseen ==
  \/ \E j \in Jobs : \/ Lock(j) \/ Unlock(j) \/ Count(j) \/ Measure(j) \/ Reply(j) \/ ReplyFails(j)
                     \/ PopNone(j) \/ CallRewrite(j) \/ \E r \in Runs : Sift(j, r)
  \/ \E j \in Jobs : \E r \in Runs : CallAcquire(j, r) \/ CallRelease(j, r) \/ CallCancel(j, r) \/ CallReplay(j, r)
  \/ \E j \in Jobs : \E old, r \in Runs : CallRecover(j, old, r)
  \/ \E r \in Runs : StartRun(r) \/ RecordRun(r) \/ Refresh(r) \/ FinishRun(r) \/ Age(r)
  \/ \E w \in Workers : \E r \in Runs : CloseUnknown(w, r)
  \/ LockExpires \/ UNCHANGED vars

LEMMA UnseenStays ==
  ASSUME RInv, RInv', Unseen PROVE Stays
<1> JobTypes /\ active \in SUBSET Runs /\ phase \in [Runs -> Phases] /\ grace \in [Runs -> Graces]
  BY DEF RInv, IInv, TypeOK, JobTypes
<1> queue \in Seq(Runs) /\ todo \in [Jobs -> Seq(Runs)] /\ keep \in [Jobs -> Seq(Runs)] /\ gone \in [Jobs -> SUBSET Runs]
  BY DEF RInv, IInv, TypeOK
<1> Mutex /\ Mutex'
  BY DEF RInv, IInv
<1> \A i \in Jobs : LocalsOf(i) /\ AskOf(i) /\ pc[i] # "rescan"
  BY DEF RInv, DInv, Locals, Askers, NoRescan
<1> \A r \in Runs : EnteredBy(r) /\ FreshRun(r)
  BY DEF RInv, IInv, Entered, Fresh
<1> SUFFICES LineStays /\ OnBooks' = OnBooks /\ Answered' = Answered
  BY LineKept DEF Stays
<1> USE DEF Goto, Mark, LineStays, SettlingAt, OnBooks, Answered, LocalsOf, AskOf, Asks, EnteredBy
<1>1. ASSUME NEW j \in Jobs, NEW r \in Runs, CallAcquire(j, r)
      PROVE  LineStays /\ OnBooks' = OnBooks /\ Answered' = Answered
  BY <1>1 DEF CallAcquire, Call, redis, rewrite, bounds, JobTypes
<1>2. ASSUME NEW j \in Jobs, NEW r \in Runs, CallRelease(j, r)
      PROVE  LineStays /\ OnBooks' = OnBooks /\ Answered' = Answered
  BY <1>2 DEF CallRelease, Call, redis, rewrite, bounds, JobTypes
<1>3. ASSUME NEW j \in Jobs, NEW r \in Runs, CallCancel(j, r)
      PROVE  LineStays /\ OnBooks' = OnBooks /\ Answered' = Answered
  BY <1>3 DEF CallCancel, Call, redis, rewrite, JobTypes
<1>4. ASSUME NEW j \in Jobs, NEW old \in Runs, NEW r \in Runs, CallRecover(j, old, r)
      PROVE  LineStays /\ OnBooks' = OnBooks /\ Answered' = Answered
  BY <1>4 DEF CallRecover, Call, redis, rewrite, bounds, JobTypes
<1>5. ASSUME NEW j \in Jobs, CallRewrite(j)
      PROVE  LineStays /\ OnBooks' = OnBooks /\ Answered' = Answered
  BY <1>5 DEF CallRewrite, Call, redis, bounds, JobTypes
<1>6. ASSUME NEW j \in Jobs, Lock(j)
      PROVE  LineStays /\ OnBooks' = OnBooks /\ Answered' = Answered
  BY <1>6 DEF Lock, MutexFree, FirstStep, bounds, rewrite, JobTypes
<1>7. ASSUME NEW j \in Jobs, Unlock(j)
      PROVE  LineStays /\ OnBooks' = OnBooks /\ Answered' = Answered
  BY <1>7 DEF Unlock, HandsOver, AfterSection, Return, rewrite, bounds, JobTypes
<1>8. ASSUME NEW j \in Jobs, Count(j)
      PROVE  LineStays /\ OnBooks' = OnBooks /\ Answered' = Answered
  BY <1>8 DEF Count, redis, rewrite, bounds, JobTypes
<1>9. ASSUME NEW j \in Jobs, Measure(j)
      PROVE  LineStays /\ OnBooks' = OnBooks /\ Answered' = Answered
  BY <1>9 DEF Measure, HasRoom, redis, rewrite, bounds, JobTypes
<1>10. ASSUME NEW j \in Jobs, Reply(j)
      PROVE  LineStays /\ OnBooks' = OnBooks /\ Answered' = Answered
  BY <1>10 DEF Reply, Return, redis, rewrite, bounds, JobTypes
<1>11. ASSUME NEW j \in Jobs, ReplyFails(j)
      PROVE  LineStays /\ OnBooks' = OnBooks /\ Answered' = Answered
  BY <1>11 DEF ReplyFails, Return, redis, rewrite, bounds, JobTypes
<1>12. ASSUME NEW j \in Jobs, PopNone(j)
      PROVE  LineStays /\ OnBooks' = OnBooks /\ Answered' = Answered
  BY <1>12 DEF PopNone, redis, locals, rewrite, bounds, JobTypes
<1>13. ASSUME NEW j \in Jobs, NEW r \in Runs, Sift(j, r)
      PROVE  LineStays /\ OnBooks' = OnBooks /\ Answered' = Answered
  BY <1>13 DEF Sift, Kept, redis, bounds, JobTypes
<1>14. ASSUME NEW r \in Runs, StartRun(r)
      PROVE  LineStays /\ OnBooks' = OnBooks /\ Answered' = Answered
  BY <1>14 DEF StartRun, redis, locals, rewrite, bounds, JobTypes
<1>15. ASSUME NEW r \in Runs, Refresh(r)
      PROVE  LineStays /\ OnBooks' = OnBooks /\ Answered' = Answered
  BY <1>15 DEF Refresh, Beating, locals, rewrite, bounds, JobTypes
<1>16. ASSUME NEW r \in Runs, FinishRun(r)
      PROVE  LineStays /\ OnBooks' = OnBooks /\ Answered' = Answered
  BY <1>16 DEF FinishRun, redis, locals, rewrite, bounds, JobTypes
<1>17. ASSUME NEW r \in Runs, Age(r)
      PROVE  LineStays /\ OnBooks' = OnBooks /\ Answered' = Answered
  BY <1>17 DEF Age, redis, locals, rewrite, bounds, JobTypes
<1>18. CASE LockExpires
  BY <1>18 DEF LockExpires, locals, rewrite, bounds, JobTypes
<1>19. CASE UNCHANGED vars
  BY <1>19 DEF vars, redis, locals, rewrite, bounds, JobTypes
<1>20. ASSUME NEW j \in Jobs, NEW r \in Runs, CallReplay(j, r)
      PROVE  LineStays /\ OnBooks' = OnBooks /\ Answered' = Answered
  BY <1>20 DEF CallReplay, Call, redis, rewrite, bounds, JobTypes
<1>21. ASSUME NEW w \in Workers, NEW r \in Runs, CloseUnknown(w, r)
      PROVE  LineStays /\ OnBooks' = OnBooks /\ Answered' = Answered
  BY <1>21 DEF CloseUnknown, redis, locals, rewrite, bounds, JobTypes
<1>22. ASSUME NEW r \in Runs, RecordRun(r)
      PROVE  LineStays /\ OnBooks' = OnBooks /\ Answered' = Answered
  BY <1>22 DEF RecordRun, redis, locals, rewrite, bounds, JobTypes
<1>23. QED
  BY <1>1, <1>2, <1>3, <1>4, <1>5, <1>6, <1>7, <1>8, <1>9, <1>10, <1>11, <1>12, <1>13, <1>14, <1>15, <1>16, <1>17, <1>18, <1>19, <1>20, <1>21, <1>22 DEF Unseen

\* The pool turns a run away, or admits one.
LEMMA AnswerSeen ==
  ASSUME RInv, RInv', NEW j \in Jobs, LockTimeout(j) \/ Reject(j) \/ Push(j) \/ Admit(j) PROVE PoolStep
<1> JobTypes /\ active \in SUBSET Runs /\ phase \in [Runs -> Phases] /\ grace \in [Runs -> Graces]
  BY DEF RInv, IInv, TypeOK, JobTypes
<1> queue \in Seq(Runs) /\ todo \in [Jobs -> Seq(Runs)] /\ keep \in [Jobs -> Seq(Runs)] /\ gone \in [Jobs -> SUBSET Runs]
  BY DEF RInv, IInv, TypeOK
<1> Mutex /\ Mutex'
  BY DEF RInv, IInv
<1> \A i \in Jobs : LocalsOf(i) /\ AskOf(i) /\ pc[i] # "rescan"
  BY DEF RInv, DInv, Locals, Askers, NoRescan
<1> \A r \in Runs : EnteredBy(r) /\ FreshRun(r)
  BY DEF RInv, IInv, Entered, Fresh
<1> USE DEF Goto, Mark, Asks
<1>1. CASE LockTimeout(j) /\ op[j] \notin Asks
  <2>1. LineStays
    BY <1>1 DEF LockTimeout, AfterSection, Return, redis, LineStays, SettlingAt, JobTypes
  <2>2. OnBooks' = OnBooks /\ Answered' = Answered
    BY <1>1 DEF LockTimeout, redis, OnBooks, Answered
  <2>3. QED
    BY <2>1, <2>2, LineKept DEF PoolStep, Stays
<1>2. CASE (LockTimeout(j) /\ op[j] \in Asks) \/ Reject(j)
  <2>1. PICK r \in Runs : r = run[j] /\ phase[r] = "asked" /\ r \notin active
    BY <1>2 DEF LockTimeout, Reject, LocalsOf, AskOf, FreshRun
  <2>2. LineStays
    BY <1>2 DEF LockTimeout, Reject, AfterSection, Return, redis, LineStays, SettlingAt, JobTypes
  <2>3. OnBooks' = OnBooks
    BY <1>2, <2>1 DEF LockTimeout, Reject, redis, OnBooks
  <2>4. r \notin Answered /\ Answered' = Answered \cup {r}
    BY <1>2, <2>1 DEF LockTimeout, Reject, Answered
  <2>5. Pool!TurnAway(r)
    BY <2>2, <2>3, <2>4, LineKept DEF Pool!TurnAway, Pool!Answer, Answered
  <2>6. QED
    BY <2>1, <2>5, PoolMoves
<1>3. CASE Push(j)
  <2>1. PICK r \in Runs : r = run[j] /\ phase[r] = "asked"
    BY <1>3 DEF Push, LocalsOf, AskOf
  <2>2. (\A i \in Jobs : ~SettlingAt(i)) /\ Line = queue
    BY <1>3, NobodySettles DEF Push, Critical, SettlingAt
  <2>3. \A i \in Jobs : ~SettlingAt(i)'
    BY <1>3, <2>2 DEF Push, SettlingAt, JobTypes
  <2>4. Line' = Append(Line, r)
    BY <1>3, <2>1, <2>2, <2>3, LineNext DEF Push
  <2>5. OnBooks' = OnBooks
    BY <1>3 DEF Push, OnBooks
  <2>6. r \notin Answered /\ Answered' = Answered \cup {r}
    BY <1>3, <2>1 DEF Push, Answered
  <2>7. Pool!LineUp(r)
    BY <2>4, <2>5, <2>6 DEF Pool!LineUp, Pool!Answer, Answered
  <2>8. QED
    BY <2>1, <2>7, PoolMoves
<1>4. CASE Admit(j)
  <2>1. PICK r \in Runs : r = run[j] /\ phase[r] = "asked"
    BY <1>4 DEF Admit, LocalsOf, AskOf
  <2>2. Line' = Line
    BY <1>4, LineKept DEF Admit, LineStays, SettlingAt, JobTypes
  <2>3. r \notin Answered /\ Answered' = Answered \cup {r}
    BY <1>4, <2>1 DEF Admit, Answered
  <2>4. CASE grace[r] = "none"
    <3>1. OnBooks' = OnBooks \cup {r}
      BY <1>4, <2>1, <2>4 DEF Admit, OnBooks
    <3>2. Cardinality(OnBooks) <= cnt[j] /\ cnt[j] < MaxConcurrent /\ cnt[j] \in Nat
      BY <1>4 DEF Admit, HasRoom, RInv, IInv, Counted, CountedAt, TypeOK
    <3>3. Cardinality(OnBooks) < MaxConcurrent
      BY <3>2, BooksType, LimiterAssumption DEF RInv, IInv
    <3>4. Pool!Admit(r)
      BY <2>2, <2>3, <3>1, <3>3, PoolCounts DEF Pool!Admit, Pool!Answer, Answered
    <3>5. QED
      BY <2>1, <3>4, PoolMoves
  <2>5. CASE grace[r] # "none"
    <3>1. OnBooks' = OnBooks
      BY <1>4, <2>1, <2>5 DEF Admit, OnBooks
    <3>2. Pool!TurnAway(r)
      BY <2>2, <2>3, <3>1 DEF Pool!TurnAway, Pool!Answer, Answered
    <3>3. QED
      BY <2>1, <3>2, PoolMoves
  <2>6. QED
    BY <2>4, <2>5
<1>5. QED
  BY <1>1, <1>2, <1>3, <1>4

\* A recovered run takes the slot of the run it replaces, if that is on the books.
LEMMA InheritSeen ==
  ASSUME RInv, RInv', NEW j \in Jobs, Inherit(j) PROVE PoolStep
<1> JobTypes /\ active \in SUBSET Runs /\ phase \in [Runs -> Phases] /\ grace \in [Runs -> Graces]
  BY DEF RInv, IInv, TypeOK, JobTypes
<1> queue \in Seq(Runs) /\ todo \in [Jobs -> Seq(Runs)] /\ keep \in [Jobs -> Seq(Runs)] /\ gone \in [Jobs -> SUBSET Runs]
  BY DEF RInv, IInv, TypeOK
<1> Mutex /\ Mutex'
  BY DEF RInv, IInv
<1> \A i \in Jobs : LocalsOf(i) /\ AskOf(i) /\ pc[i] # "rescan"
  BY DEF RInv, DInv, Locals, Askers, NoRescan
<1> \A r \in Runs : EnteredBy(r) /\ FreshRun(r)
  BY DEF RInv, IInv, Entered, Fresh
<1> USE DEF Goto, Mark, Asks
<1>1. LineStays
  BY DEF Inherit, LineStays, SettlingAt, JobTypes
<1>2. PICK r \in Runs, old \in Runs :
        r = run[j] /\ phase[r] = "asked" /\ r \notin active /\ old = pick[j]
  BY DEF Inherit, LocalsOf, AskOf, FreshRun
<1>3. CASE old \notin active
  <2>1. OnBooks' = OnBooks /\ Answered' = Answered
    BY <1>2, <1>3 DEF Inherit, OnBooks, Answered
  <2>2. QED
    BY <1>1, <2>1, LineKept DEF PoolStep, Stays
<1>4. CASE old \in active
  <2>1. active' = (active \ {old}) \cup {r} /\ r # old
    BY <1>2, <1>4 DEF Inherit, Inherited
  <2>2. /\ grace'[r] = grace[old]
        /\ \A x \in Runs \ {r, old} : grace'[x] = grace[x]
    BY <1>2, <1>4 DEF Inherit, OffBooks
  <2>3. r \notin Answered /\ Answered' = Answered \cup {r}
    BY <1>2, <1>4 DEF Inherit, Answered
  <2>4. CASE grace[old] = "none"
    <3>1. old \in OnBooks /\ OnBooks' = (OnBooks \ {old}) \cup {r}
      BY <1>2, <1>4, <2>1, <2>2, <2>4 DEF OnBooks
    <3>2. Pool!Replace(old, r)
      BY <1>1, <2>3, <3>1, LineKept DEF Pool!Replace, Pool!Answer, Answered
    <3>3. QED
      BY <1>2, <3>2, PoolMoves
  <2>5. CASE grace[old] # "none"
    <3>1. OnBooks' = OnBooks
      BY <1>2, <1>4, <2>1, <2>2, <2>5 DEF OnBooks
    <3>2. Pool!TurnAway(r)
      BY <1>1, <2>3, <3>1, LineKept DEF Pool!TurnAway, Pool!Answer, Answered
    <3>3. QED
      BY <1>2, <3>2, PoolMoves
  <2>6. QED
    BY <2>4, <2>5
<1>5. QED
  BY <1>3, <1>4

\* A run leaves the books, or was not on them.
LEMMA LeaveSeen ==
  ASSUME RInv, RInv',
         \/ \E j \in Jobs : Zrem(j) \/ Dispatch(j) \/ DispatchDrops(j)
         \/ \E r \in Runs : SlotLapses(r)
  PROVE  PoolStep
<1> JobTypes /\ active \in SUBSET Runs /\ phase \in [Runs -> Phases] /\ grace \in [Runs -> Graces]
  BY DEF RInv, IInv, TypeOK, JobTypes
<1> queue \in Seq(Runs) /\ todo \in [Jobs -> Seq(Runs)] /\ keep \in [Jobs -> Seq(Runs)] /\ gone \in [Jobs -> SUBSET Runs]
  BY DEF RInv, IInv, TypeOK
<1> Mutex /\ Mutex'
  BY DEF RInv, IInv
<1> \A i \in Jobs : LocalsOf(i) /\ AskOf(i) /\ pc[i] # "rescan"
  BY DEF RInv, DInv, Locals, Askers, NoRescan
<1> \A r \in Runs : EnteredBy(r) /\ FreshRun(r)
  BY DEF RInv, IInv, Entered, Fresh
<1> USE DEF Goto, Mark
<1> DEFINE Off(x) == Line' = Line /\ Answered' = Answered /\ OnBooks' = OnBooks \ {x}
<1>1. ASSUME NEW x, Off(x) PROVE PoolStep
  <2>1. CASE x \in OnBooks
    <3>1. Pool!Leave(x) /\ x \in Runs
      BY <1>1, <2>1 DEF Pool!Leave, Answered, OnBooks
    <3>2. QED
      BY <3>1, PoolMoves
  <2>2. CASE x \notin OnBooks
    BY <1>1, <2>2 DEF PoolStep, Stays
  <2>3. QED
    BY <2>1, <2>2
<1>2. ASSUME NEW j \in Jobs, Zrem(j) PROVE PoolStep
  <2>1. LineStays
    BY <1>2 DEF Zrem, AfterZrem, locals, LineStays, SettlingAt, JobTypes
  <2>2. Answered' = Answered
    BY <1>2 DEF Zrem, Answered
  <2>3. OnBooks' = OnBooks \ {run[j]}
    BY <1>2 DEF Zrem, OffBooks, OnBooks
  <2>4. QED
    BY <1>1, <2>1, <2>2, <2>3, LineKept
<1>3. ASSUME NEW j \in Jobs, Dispatch(j) \/ DispatchDrops(j) PROVE PoolStep
  <2>1. LineStays
    BY <1>3 DEF Dispatch, DispatchDrops, AfterSection, Return, redis, LineStays, SettlingAt, JobTypes
  <2>2. pick[j] \in Runs /\ phase[pick[j]] = "queued"
    BY <1>3 DEF Dispatch, DispatchDrops, LocalsOf, RInv, DInv, Once, OnceOf, Carries, Carrying
  <2>3. Answered' = Answered
    BY <1>3, <2>2 DEF Dispatch, DispatchDrops, Answered
  <2>4. CASE Dispatch(j)
    <3>1. OnBooks' = OnBooks
      BY <2>2, <2>4 DEF Dispatch, redis, OnBooks
    <3>2. QED
      BY <2>1, <2>3, <3>1, LineKept DEF PoolStep, Stays
  <2>5. CASE DispatchDrops(j)
    <3>1. OnBooks' = OnBooks \ {pick[j]}
      BY <2>2, <2>5 DEF DispatchDrops, OnBooks
    <3>2. QED
      BY <1>1, <2>1, <2>3, <3>1, LineKept
  <2>6. QED
    BY <1>3, <2>4, <2>5
<1>4. ASSUME NEW r \in Runs, SlotLapses(r) PROVE PoolStep
  <2>1. LineStays
    BY <1>4 DEF SlotLapses, locals, LineStays, SettlingAt, JobTypes
  <2>2. Answered' = Answered
    BY <1>4 DEF SlotLapses, Answered
  <2>3. OnBooks' = OnBooks \ {r}
    BY <1>4 DEF SlotLapses, OnBooks
  <2>4. QED
    BY <1>1, <2>1, <2>2, <2>3, LineKept
<1>5. QED
  BY <1>2, <1>3, <1>4

\* A pop takes a young entry to the front of the line, where it was, and an old
\* one out of it; settling promotes the entry or leaves it there.
LEMMA PopSeen ==
  ASSUME RInv, RInv', NEW j \in Jobs,
         PutBack(j) \/ Promote(j) \/ \E r \in Runs : Pop(j, r)
  PROVE  PoolStep
<1> JobTypes /\ active \in SUBSET Runs /\ phase \in [Runs -> Phases] /\ grace \in [Runs -> Graces]
  BY DEF RInv, IInv, TypeOK, JobTypes
<1> queue \in Seq(Runs) /\ todo \in [Jobs -> Seq(Runs)] /\ keep \in [Jobs -> Seq(Runs)] /\ gone \in [Jobs -> SUBSET Runs]
  BY DEF RInv, IInv, TypeOK
<1> Mutex /\ Mutex'
  BY DEF RInv, IInv
<1> \A i \in Jobs : LocalsOf(i) /\ AskOf(i) /\ pc[i] # "rescan"
  BY DEF RInv, DInv, Locals, Askers, NoRescan
<1> \A r \in Runs : EnteredBy(r) /\ FreshRun(r)
  BY DEF RInv, IInv, Entered, Fresh
<1> USE DEF Goto, Mark
<1>1. ASSUME NEW r \in Runs, Pop(j, r) PROVE PoolStep
  <2>1. (\A i \in Jobs : ~SettlingAt(i)) /\ Line = queue
    BY <1>1, NobodySettles DEF Pop, Critical, SettlingAt
  <2>2. queue # <<>> /\ r = Head(queue) /\ queue' = Tail(queue) /\ OnBooks' = OnBooks
    BY <1>1 DEF Pop, Popped, OnBooks
  <2>3. Answered' = Answered
    BY <1>1 DEF Pop, Answered
  <2>4. CASE r \in aged
    <3>1. \A i \in Jobs : ~SettlingAt(i)'
      BY <1>1, <2>1, <2>4 DEF Pop, SettlingAt, JobTypes
    <3>2. Line' = Tail(Line)
      BY <2>1, <2>2, <3>1, LineNext
    <3>3. Pool!Withdraw
      BY <2>1, <2>2, <2>3, <3>2, ThinnedTail DEF Pool!Withdraw, Answered
    <3>4. QED
      BY <3>3, PoolMoves
  <2>5. CASE r \notin aged
    <3>1. SettlingAt(j)' /\ pick'[j] = r
      BY <1>1, <2>5 DEF Pop, SettlingAt, JobTypes
    <3>2. Line' = <<r>> \o Tail(queue)
      BY <2>2, <3>1, LineNext
    <3>3. Line' = Line
      BY <2>1, <2>2, <3>2, ConsHeadTail
    <3>4. QED
      BY <2>2, <2>3, <3>3 DEF PoolStep, Stays
  <2>6. QED
    BY <2>4, <2>5
<1>2. ASSUME PutBack(j) \/ Promote(j)
      PROVE  /\ Line = <<pick[j]>> \o queue /\ pick[j] \in Runs
             /\ \A i \in Jobs : ~SettlingAt(i)'
  <2>1. SettlingAt(j) /\ pick[j] \in Runs
    BY <1>2 DEF PutBack, Promote, SettlingAt, LocalsOf
  <2>2. \A i \in Jobs : SettlingAt(i) => i = j
    BY <2>1 DEF Mutex, Critical, SettlingAt
  <2>3. \A i \in Jobs : ~SettlingAt(i)'
    BY <1>2, <2>2 DEF PutBack, Promote, SettlingAt, JobTypes
  <2>4. QED
    BY <2>1, <2>3, LineNow
<1>3. CASE PutBack(j)
  <2>1. Line' = Line
    BY <1>2, <1>3, LineNext DEF PutBack, PushedBack
  <2>2. OnBooks' = OnBooks /\ Answered' = Answered
    BY <1>3 DEF PutBack, OnBooks, Answered
  <2>3. QED
    BY <2>1, <2>2 DEF PoolStep, Stays
<1>4. CASE Promote(j)
  <2>1. Line' = queue
    BY <1>2, <1>4, LineNext DEF Promote
  <2>2. Line # <<>> /\ Head(Line) = pick[j] /\ Tail(Line) = queue /\ Line \in Seq(Runs)
    <3>1. PICK e \in Runs : e = pick[j]
      BY <1>2, <1>4
    <3>2. <<e>> \o queue # <<>> /\ Head(<<e>> \o queue) = e /\ Tail(<<e>> \o queue) = queue /\ <<e>> \o queue \in Seq(Runs)
      BY ConsHeadTail, Zenon
    <3>3. Line = <<e>> \o queue
      BY <1>2, <1>4, <3>1
    <3>4. QED
      BY <3>1, <3>2, <3>3, Zenon
  <2>3. Answered' = Answered
    BY <1>4 DEF Promote, Answered
  <2>4. CASE grace[pick[j]] = "none"
    <3>1. OnBooks' = OnBooks \cup {pick[j]}
      BY <1>4, <2>4 DEF Promote, OnBooks
    <3>2. Cardinality(OnBooks) <= cnt[j] /\ cnt[j] < MaxConcurrent /\ cnt[j] \in Nat
      BY <1>4 DEF Promote, HasRoom, RInv, IInv, Counted, CountedAt, TypeOK
    <3>3. Cardinality(OnBooks) < MaxConcurrent
      BY <3>2, BooksType, LimiterAssumption DEF RInv, IInv
    <3>4. Pool!Promote
      BY <2>1, <2>2, <2>3, <3>1, <3>3, PoolCounts DEF Pool!Promote, Answered
    <3>5. QED
      BY <3>4, PoolMoves
  <2>5. CASE grace[pick[j]] # "none"
    <3>1. OnBooks' = OnBooks
      BY <1>4, <2>5 DEF Promote, OnBooks
    <3>2. Pool!Withdraw
      BY <2>1, <2>2, <2>3, <3>1, ThinnedTail DEF Pool!Withdraw, Answered
    <3>3. QED
      BY <3>2, PoolMoves
  <2>6. QED
    BY <2>4, <2>5
<1>5. QED
  BY <1>1, <1>3, <1>4

\* The entries of a removed session leave the line, the others keep their order.
LEMMA SwapSeen ==
  ASSUME RInv, RInv', NEW j \in Jobs, Swap(j) PROVE PoolStep
<1> JobTypes /\ active \in SUBSET Runs /\ phase \in [Runs -> Phases] /\ grace \in [Runs -> Graces]
  BY DEF RInv, IInv, TypeOK, JobTypes
<1> queue \in Seq(Runs) /\ todo \in [Jobs -> Seq(Runs)] /\ keep \in [Jobs -> Seq(Runs)] /\ gone \in [Jobs -> SUBSET Runs]
  BY DEF RInv, IInv, TypeOK
<1> Mutex /\ Mutex'
  BY DEF RInv, IInv
<1> \A i \in Jobs : LocalsOf(i) /\ AskOf(i) /\ pc[i] # "rescan"
  BY DEF RInv, DInv, Locals, Askers, NoRescan
<1> \A r \in Runs : EnteredBy(r) /\ FreshRun(r)
  BY DEF RInv, IInv, Entered, Fresh
<1> USE DEF Goto, Mark
<1>1. pc[j] = "scan" /\ todo[j] = <<>>
  BY DEF Swap
<1>2. (\A i \in Jobs : ~SettlingAt(i)) /\ Line = queue
  BY <1>1, NobodySettles DEF Critical, SettlingAt
<1>3. \A i \in Jobs : ~SettlingAt(i)'
  BY <1>1, <1>2 DEF Swap, SettlingAt, JobTypes
<1>4. Pool!Thinned(keep[j], queue)
  <2>1. Pool!Thinned(keep[j] \o todo[j], queue)
    BY <1>1 DEF RInv, Siftings, SiftingOf
  <2>2. keep[j] \o <<>> = keep[j]
    BY ConcatEmptySeq
  <2>3. QED
    BY <1>1, <2>1, <2>2
<1>5. Pool!Thinned(queue', queue)
  BY <1>4, ThinnedSame DEF Swap
<1>6. OnBooks' = OnBooks /\ Answered' = Answered
  BY DEF Swap, Told, OnBooks, Answered
<1>7. Line' = queue'
  BY <1>3, LineNext
<1>8. Pool!Withdraw
  BY <1>2, <1>5, <1>6, <1>7 DEF Pool!Withdraw, Answered
<1>9. QED
  BY <1>8, PoolMoves

\* What a dead worker was asked for counts as answered, what it carried leaves
\* the line.
LEMMA CrashSeen ==
  ASSUME RInv, RInv', NEW w \in Workers, Crash(w) PROVE PoolStep
<1> JobTypes /\ active \in SUBSET Runs /\ phase \in [Runs -> Phases] /\ grace \in [Runs -> Graces]
  BY DEF RInv, IInv, TypeOK, JobTypes
<1> queue \in Seq(Runs) /\ todo \in [Jobs -> Seq(Runs)] /\ keep \in [Jobs -> Seq(Runs)] /\ gone \in [Jobs -> SUBSET Runs]
  BY DEF RInv, IInv, TypeOK
<1> Mutex /\ Mutex'
  BY DEF RInv, IInv
<1> \A i \in Jobs : LocalsOf(i) /\ AskOf(i) /\ pc[i] # "rescan"
  BY DEF RInv, DInv, Locals, Askers, NoRescan
<1> \A r \in Runs : EnteredBy(r) /\ FreshRun(r)
  BY DEF RInv, IInv, Entered, Fresh
<1>1. OnBooks' = OnBooks /\ queue' = queue
  BY DEF Crash, OnBooks
<1>2. PICK S \in SUBSET Runs : Answered' = Answered \cup S
  <2>1. PICK S : S = Answered'
    OBVIOUS
  <2>2. S \in SUBSET Runs /\ Answered \subseteq S
    BY <2>1 DEF Crash, Answered
  <2>3. QED
    BY <2>1, <2>2
<1>3. \A i \in Jobs : HomeOf[i] # w => pc'[i] = pc[i] /\ pick'[i] = pick[i]
  BY DEF Crash, JobTypes
<1>4. \A i \in Jobs : HomeOf[i] = w => ~SettlingAt(i)'
  BY DEF Crash, SettlingAt
<1>5. Pool!Thinned(Line', Line)
  <2>1. CASE \A i \in Jobs : ~SettlingAt(i)
    <3>1. \A i \in Jobs : ~SettlingAt(i)'
      BY <1>3, <1>4, <2>1 DEF SettlingAt
    <3>2. Line' = queue /\ Line = queue
      BY <1>1, <2>1, <3>1, LineNow, LineNext
    <3>3. QED
      BY <3>2, ThinnedSame
  <2>2. ASSUME NEW j \in Jobs, SettlingAt(j) PROVE Pool!Thinned(Line', Line)
    <3>1. pick[j] \in Runs /\ Line = <<pick[j]>> \o queue
      BY <2>2, LineNow DEF SettlingAt, LocalsOf
    <3>2. \A i \in Jobs : SettlingAt(i) => i = j
      BY <2>2 DEF Mutex, Critical, SettlingAt
    <3>3. CASE HomeOf[j] = w
      <4>1. \A i \in Jobs : ~SettlingAt(i)'
        BY <1>3, <1>4, <3>2, <3>3 DEF SettlingAt
      <4>2. Line' = Tail(Line) /\ Line \in Seq(Runs) /\ Line # <<>>
        BY <1>1, <3>1, <4>1, LineNext, ConsHeadTail
      <4>3. QED
        BY <4>2, ThinnedTail
    <3>4. CASE HomeOf[j] # w
      <4>1. SettlingAt(j)' /\ pick'[j] = pick[j]
        BY <1>3, <2>2, <3>4 DEF SettlingAt
      <4>2. Line' = Line /\ Line \in Seq(Runs)
        BY <1>1, <3>1, <4>1, LineNext, ConsHeadTail
      <4>3. QED
        BY <4>2, ThinnedSame
    <3>5. QED
      BY <3>3, <3>4
  <2>3. QED
    BY <2>1, <2>2
<1>6. Pool!Abandon(S)
  BY <1>1, <1>2, <1>5 DEF Pool!Abandon, Answered
<1>7. QED
  BY <1>2, <1>6, PoolMoves

\* Together: no step does what the pool cannot.
LEMMA StepsArePoolSteps ==
  ASSUME RInv, RInv', [Next]_vars PROVE PoolStep
<1>1. Unseen => PoolStep
  BY UnseenStays DEF PoolStep
<1>2. \A j \in Jobs : LockTimeout(j) \/ Reject(j) \/ Push(j) \/ Admit(j) => PoolStep
  BY AnswerSeen
<1>3. \A j \in Jobs : Inherit(j) => PoolStep
  BY InheritSeen
<1>4. \A j \in Jobs : Zrem(j) \/ Dispatch(j) \/ DispatchDrops(j) => PoolStep
  BY LeaveSeen
<1>5. \A r \in Runs : SlotLapses(r) => PoolStep
  BY LeaveSeen
<1>6. \A j \in Jobs : PutBack(j) \/ Promote(j) \/ (\E r \in Runs : Pop(j, r)) => PoolStep
  BY PopSeen
<1>7. \A j \in Jobs : Swap(j) => PoolStep
  BY SwapSeen
<1>8. \A w \in Workers : Crash(w) => PoolStep
  BY CrashSeen
<1>9. ASSUME NEW j \in Jobs, JobStep(j) PROVE PoolStep
  <2>1. CASE Section(j)
    BY <1>1, <1>2, <1>3, <1>4, <1>6, <1>7, <2>1 DEF Section, Unseen
  <2>2. CASE ~Section(j)
    BY <1>1, <1>2, <1>9, <2>2 DEF JobStep, Unseen
  <2>3. QED
    BY <2>1, <2>2
<1>10. ASSUME NEW r \in Runs, RunStep(r) PROVE PoolStep
  BY <1>1, <1>5, <1>10 DEF RunStep, Unseen
<1>11. CASE LockExpires \/ (\E w \in Workers : \E r \in Runs : CloseUnknown(w, r)) \/ UNCHANGED vars
  BY <1>1, <1>11 DEF Unseen
<1>12. QED
  BY <1>8, <1>9, <1>10, <1>11 DEF Next

\* The limiter implements the atomic pool (ImplementsSlotPool: acquire, release,
\* claim_recovery_slot, refresh, remove_from_queue, time-outs and crashes): bounded
\* slots, first come first served, one answer per request, provided sections do
\* not outlive the mutex and no start-up rewrite runs beside them.
THEOREM LimiterImplementsPool ==
  ASSUME "slow" \notin Faults, "rewrite" \notin Faults
  PROVE  Spec => ImplementsSlotPool
<1>1. Init => Pool!Init
  <2> SUFFICES ASSUME Init PROVE Pool!Init
    OBVIOUS
  <2>1. Settling = {}
    BY DEF Init, Settling
  <2>2. Line = <<>> /\ OnBooks = {} /\ {r \in Runs : phase[r] \notin {"new", "asked"}} = {}
    BY <2>1 DEF Init, Line, OnBooks
  <2>3. QED
    BY <2>2 DEF Pool!Init
<1>2. RInv /\ RInv' /\ [Next]_vars => [Pool!Next]_(Pool!poolVars)
  BY StepsArePoolSteps DEF PoolStep, Stays, Answered, Pool!poolVars
<1>3. QED
  BY <1>1, <1>2, RInvInit, RInvStep, PTL DEF Spec, ImplementsSlotPool, Pool!Spec
=============================================================================
