----------------------------- MODULE UploadsProofs -----------------------------
(***************************************************************************)
(* Proofs about Uploads for any files, contents, limit, number of inputs   *)
(* and failures: its types, that what the user took away is not being      *)
(* sent, that the limit holds, and that a removed attachment does not come *)
(* back.                                                                   *)
(***************************************************************************)
EXTENDS Uploads, FiniteSetTheorems, TLAPS

\* The map of abort functions is exactly what is under way of the instances
\* that are there; an aborted upload is waiting for a token, or over.
Handles ==
  \A f \in Files :
    /\ up[f].owner <= input
    /\ f \in abortMap => Mounted(f)
    /\ f \in aborted => f \notin abortMap /\ up[f].st \in {"token", "refresh", "over"}
    /\ f \notin aborted => (f \in abortMap <=> up[f].st \in InTransit)

\* Images that are compressed are counted with the attachments; nothing was
\* accepted before the limit was known.
Compressing == {f \in Files : up[f].st = "compress"}
Counted ==
  ~crowded => IF config = "known"
              THEN Cardinality(Attachments \cup Compressing) <= MaxFiles
              ELSE Attachments \cup Compressing = {}

\* An attachment that is ready is uploaded; one that is gone was cancelled by
\* its function, which stops it, or is one of the two kinds nothing stops.
Taken ==
  \A f \in Files :
    /\ attached[f] = "ready" => up[f].st = "over"
    /\ attached[f] = "none" =>
         \/ up[f].st \in {"new", "compress", "over"}
         \/ up[f].owner = Page \/ f \in early
         \/ f \in aborted /\ up[f].st \in {"token", "refresh"}

IInv == TypeOK /\ Handles /\ Taken /\ Counted

\* The parts of TypeOK that most steps need.
UpTypes == [Files -> [st : States, owner : 0 .. MaxMounts, retried : BOOLEAN]]
ShownTypes == [Files -> {"none", "busy", "ready"}]

-----------------------------------------------------------------------------
(* Types.                                                                  *)

\* A number of files and a set of contents.
LEMMA TypeInit == Init => TypeOK
<1> SUFFICES ASSUME Init PROVE TypeOK
  OBVIOUS
<1>1. up \in UpTypes /\ attached \in [Files -> {"none", "busy", "ready"}]
  BY UploadAssumption DEF Init, UpTypes, States, Page
<1>2. /\ refs \in [Keys -> Nat] /\ record \subseteq Keys /\ stored \subseteq Keys
      /\ answer \in [Files -> Keys \cup {NoKey}]
  BY DEF Init, Keys
<1>3. input \in 1 .. MaxMounts /\ fails \in 0 .. MaxFails
  BY UploadAssumption DEF Init
<1>4. \A f \in Files : up[f].st = "new" /\ attached[f] = "none"
  BY DEF Init
<1>5. /\ outbox \subseteq Keys /\ deletes \subseteq Keys \X {"asked", "doomed", "emptied"}
      /\ abortMap \subseteq Files /\ aborted \subseteq Files /\ early \subseteq Files
      /\ config \in {"pending", "known", "failed"} /\ crowded \in BOOLEAN
  BY DEF Init
<1> QED
  BY <1>1, <1>2, <1>3, <1>4, <1>5 DEF TypeOK, UpTypes

\* Moving one upload on keeps the shape of all.
LEMMA ToTypes ==
  ASSUME up \in UpTypes, NEW f \in Files, NEW st \in States, To(f, st)
  PROVE  /\ up' \in UpTypes /\ up'[f] = [up[f] EXCEPT !.st = st] /\ up'[f].st = st
         /\ up'[f].owner = up[f].owner
         /\ \A g \in Files \ {f} : up'[g] = up[g]
<1>1. up[f] \in [st : States, owner : 0 .. MaxMounts, retried : BOOLEAN]
  BY DEF UpTypes
<1> QED
  BY <1>1 DEF To, UpTypes

\* Calling abort functions only ends uploads.
LEMMA AbortTypes ==
  ASSUME up \in UpTypes, NEW fs \in SUBSET Files, Abort(fs)
  PROVE  /\ up' \in UpTypes
         /\ \A f \in Files :
              /\ up'[f].owner = up[f].owner
              /\ up'[f].st = IF f \in fs /\ up[f].st \in {"xhr", "kept"} THEN "over" ELSE up[f].st
<1>1. ASSUME NEW f \in Files
      PROVE  /\ up'[f] \in [st : States, owner : 0 .. MaxMounts, retried : BOOLEAN]
             /\ up'[f].owner = up[f].owner
             /\ up'[f].st = IF f \in fs /\ up[f].st \in {"xhr", "kept"} THEN "over" ELSE up[f].st
  BY <1>1 DEF Abort, UpTypes, States
<1> QED
  BY <1>1 DEF Abort, UpTypes

\* What is chosen was new; the rest stays as it is.
LEMMA ChooseTypes ==
  ASSUME up \in UpTypes, attached \in ShownTypes, NEW owner \in 0 .. MaxMounts,
         NEW fs \in SUBSET Files, Choose(fs, owner)
  PROVE  /\ up' \in UpTypes /\ attached' \in ShownTypes
         /\ \A f \in fs : up'[f].st = (IF f \in Images THEN "compress" ELSE "hash")
                         /\ up'[f].owner = owner
                         /\ attached'[f] = (IF f \in Images THEN attached[f] ELSE "busy")
         /\ \A f \in Files \ fs : up'[f] = up[f] /\ attached'[f] = attached[f]
<1>1. ASSUME NEW f \in fs
      PROVE  up'[f] = [st |-> IF f \in Images THEN "compress" ELSE "hash",
                       owner |-> owner, retried |-> FALSE]
  BY <1>1 DEF Choose
<1>2. ASSUME NEW f \in Files \ fs PROVE up'[f] = up[f]
  BY <1>2 DEF Choose
<1>3. ASSUME NEW f \in Files
      PROVE  up'[f] \in [st : States, owner : 0 .. MaxMounts, retried : BOOLEAN]
  <2>1. CASE f \in fs
    <3>1. PICK st \in States : up'[f] = [st |-> st, owner |-> owner, retried |-> FALSE]
      BY <1>1, <2>1 DEF States, Unrequested
    <3> QED
      BY <3>1
  <2>2. CASE f \notin fs
    BY <1>2, <2>2 DEF UpTypes
  <2> QED
    BY <2>1, <2>2
<1>4. up' \in UpTypes
  BY <1>3 DEF Choose, UpTypes
<1> QED
  BY <1>1, <1>2, <1>4 DEF Choose, Deferred, ShownTypes

\* A key that the server told for a file that it knows or keeps.
Told == \A f \in Files : up[f].st \in {"found", "kept"} \/ attached[f] = "ready" => answer[f] \in Keys
Shown == \A f \in Files : attached[f] # "none" => up[f].st \notin {"new", "compress"}

\* A step of one upload, which leaves the others alone.
LEMMA TypeOne ==
  ASSUME TypeOK, NEW f \in Files, up' \in UpTypes, attached' \in ShownTypes,
         answer' \in [Files -> Keys \cup {NoKey}],
         \A g \in Files \ {f} : up'[g] = up[g] /\ attached'[g] = attached[g] /\ answer'[g] = answer[g],
         attached'[f] # "none" => up'[f].st \notin {"new", "compress"},
         up'[f].st \in {"found", "kept"} \/ attached'[f] = "ready" => answer'[f] \in Keys,
         abortMap' \subseteq Files, record' \subseteq Keys, stored' \subseteq Keys,
         fails' \in 0 .. MaxFails,
         UNCHANGED <<aborted, input, config, refs, outbox, deletes, history>>
  PROVE  TypeOK'
<1>1. Shown /\ Told
  BY DEF TypeOK, Shown, Told
<1>2. Shown' /\ Told'
  BY <1>1 DEF Shown, Told
<1>3. UNCHANGED <<aborted, input, config, refs, outbox, deletes, crowded, early>>
  BY DEF history
<1> QED
  BY <1>2, <1>3 DEF TypeOK, Shown, Told, UpTypes, ShownTypes

\* A step that leaves the server alone and at most takes attachments away.
LEMMA TypeLess ==
  ASSUME TypeOK, up' \in UpTypes, attached' \in ShownTypes,
         \A g \in Files : attached'[g] \in {attached[g], "none"}
                          /\ up'[g].st \in {up[g].st, "token", "over", "refresh"},
         abortMap' \subseteq Files, aborted' \subseteq Files, early' \subseteq Files,
         input' \in 1 .. MaxMounts, fails' \in 0 .. MaxFails,
         UNCHANGED <<config, record, stored, refs, answer, crowded>>,
         outbox' \subseteq Keys, deletes' \subseteq Keys \X {"asked", "doomed", "emptied"}
  PROVE  TypeOK'
<1>1. Shown /\ Told
  BY DEF TypeOK, Shown, Told
<1>2. Shown' /\ Told'
  BY <1>1 DEF Shown, Told
<1> QED
  BY <1>2 DEF TypeOK, Shown, Told, UpTypes, ShownTypes

\* One upload goes on: what changes of it, and what it leaves alone.
LEMMA AdvanceTypes ==
  ASSUME TypeOK, NEW f \in Files, Advance(f)
  PROVE  /\ \E st \in States \ {"new", "compress"} : To(f, st)
         /\ attached' \in ShownTypes /\ \A g \in Files \ {f} : attached'[g] = attached[g]
         /\ attached'[f] = "ready" => attached[f] = "ready" \/ up[f].st \in {"found", "kept"}
         /\ UNCHANGED <<aborted, input, config, refs, outbox, deletes, fails, history>>
         /\ abortMap' \subseteq Files /\ record' \subseteq Keys /\ stored' \subseteq Keys
<1>1. \E st \in States \ {"new", "compress"} : To(f, st)
  BY DEF Advance, Compressed, Hashed, CheckServed, Unknown, Request, Found, Token,
     Rejected, Kept, Done, Again, States, InTransit, Unrequested
<1>2. /\ UNCHANGED <<aborted, input, config, refs, outbox, deletes, fails, history>>
      /\ abortMap' \subseteq Files
  BY DEF Advance, Compressed, Hashed, CheckServed, Unknown, Request, Found, Token,
     Rejected, Forgotten, Kept, Done, Again, server, TypeOK
<1>3. record' \subseteq Keys /\ stored' \subseteq Keys
  <2>1. NewKey(f) \in Keys
    BY DEF Keys
  <2> QED
    BY <2>1 DEF Advance, Compressed, Hashed, CheckServed, Unknown, Found, Token, Kept, Done,
       Again, server, TypeOK
<1>4. /\ attached' \in ShownTypes /\ \A g \in Files \ {f} : attached'[g] = attached[g]
      /\ attached'[f] = "ready" => attached[f] = "ready" \/ up[f].st \in {"found", "kept"}
  BY DEF Advance, Compressed, Hashed, CheckServed, Unknown, Found, Token,
     Rejected, Kept, Done, Again, Finished, ShownTypes, TypeOK
<1> QED
  BY <1>1, <1>2, <1>3, <1>4

\* The server tells a key for every file that it finds or keeps.
LEMMA AdvanceTold ==
  ASSUME TypeOK, NEW f \in Files, Advance(f)
  PROVE  /\ answer' \in [Files -> Keys \cup {NoKey}]
         /\ \A g \in Files \ {f} : answer'[g] = answer[g]
         /\ answer'[f] \in {answer[f]} \cup Keys
         /\ up'[f].st \in {"found", "kept"} => answer'[f] \in Keys
<1>1. NewKey(f) \in Keys /\ Live(Content(f)) \subseteq Keys
  BY DEF Keys, Live, TypeOK
<1>2. up \in UpTypes /\ answer \in [Files -> Keys \cup {NoKey}]
  BY DEF TypeOK, UpTypes
<1>3. CASE CheckServed(f)
  <2>1. CASE UNCHANGED answer /\ To(f, "unknown")
    BY <1>2, <2>1 DEF To, UpTypes
  <2>2. CASE \E k \in Live(Content(f)) : answer' = [answer EXCEPT ![f] = k]
    BY <1>1, <1>2, <2>2
  <2> QED
    BY <1>3, <2>1, <2>2 DEF CheckServed
<1>4. CASE Kept(f)
  <2>1. \E k \in Keys : answer' = [answer EXCEPT ![f] = k]
    BY <1>1, <1>4 DEF Kept
  <2> QED
    BY <1>2, <2>1
<1>5. CASE Compressed(f) \/ Hashed(f) \/ Unknown(f) \/ Found(f) \/ Token(f) \/ Done(f) \/ Again(f)
  <2>1. UNCHANGED answer
    BY <1>5 DEF Compressed, Hashed, Unknown, Found, Token, Done, Again, server
  <2>2. up'[f].st \notin {"found", "kept"}
    BY <1>2, <1>5 DEF Compressed, Hashed, Unknown, Request, Found, Token, Rejected, Done,
       Again, To, UpTypes
  <2> QED
    BY <1>2, <2>1, <2>2
<1> QED
  BY <1>3, <1>4, <1>5 DEF Advance

\* No step disturbs the types.
LEMMA TypeStep == TypeOK /\ [Next]_vars => TypeOK'
<1> SUFFICES ASSUME TypeOK, [Next]_vars PROVE TypeOK'
  OBVIOUS
<1> USE UploadAssumption
<1>up. up \in UpTypes /\ attached \in ShownTypes
  BY DEF TypeOK, UpTypes, ShownTypes
<1>early. Shown /\ Told
  BY DEF TypeOK, Shown, Told
<1>1. ASSUME NEW fs \in SUBSET Files, NEW owner \in {Page, input}, Choose(fs, owner)
      PROVE  TypeOK'
  <2>1. owner \in 0 .. MaxMounts
    BY DEF Page, TypeOK
  <2>2. /\ up' \in UpTypes /\ attached' \in ShownTypes
        /\ \A f \in fs : up'[f].st = (IF f \in Images THEN "compress" ELSE "hash")
                        /\ attached'[f] = (IF f \in Images THEN attached[f] ELSE "busy")
        /\ \A f \in Files \ fs : up'[f] = up[f] /\ attached'[f] = attached[f]
    BY <1>1, <2>1, <1>up, ChooseTypes
  <2>3. \A f \in fs : up[f].st = "new"
    BY <1>1 DEF Choose
  <2>4. UNCHANGED <<abortMap, aborted, input, config, record, stored, refs, answer, outbox,
                    deletes, fails, early>> /\ crowded' \in BOOLEAN
    BY <1>1 DEF Choose, server, TypeOK
  <2>5. Shown' /\ Told'
    BY <1>early, <2>2, <2>3, <2>4 DEF Shown, Told
  <2> QED
    BY <2>2, <2>4, <2>5 DEF TypeOK, UpTypes, ShownTypes, Shown, Told
<1>2. CASE ConfigKnown \/ ConfigFails
  BY <1>2 DEF ConfigKnown, ConfigFails, Fail, attaching, server, history, TypeOK
<1>4. ASSUME NEW f \in Files, Advance(f) PROVE TypeOK'
  <2>1. PICK st \in States \ {"new", "compress"} : To(f, st)
    BY <1>4, AdvanceTypes
  <2>2. up' \in UpTypes /\ up'[f].st = st /\ \A g \in Files \ {f} : up'[g] = up[g]
    BY <2>1, <1>up, ToTypes
  <2>3. /\ attached' \in ShownTypes /\ \A g \in Files \ {f} : attached'[g] = attached[g]
        /\ attached'[f] = "ready" => attached[f] = "ready" \/ up[f].st \in {"found", "kept"}
        /\ UNCHANGED <<aborted, input, config, refs, outbox, deletes, fails, history>>
        /\ abortMap' \subseteq Files /\ record' \subseteq Keys /\ stored' \subseteq Keys
    BY <1>4, AdvanceTypes
  <2>4. /\ answer' \in [Files -> Keys \cup {NoKey}]
        /\ \A g \in Files \ {f} : answer'[g] = answer[g]
        /\ answer'[f] \in {answer[f]} \cup Keys
        /\ up'[f].st \in {"found", "kept"} => answer'[f] \in Keys
    BY <1>4, AdvanceTold
  <2>5. attached'[f] = "ready" => answer'[f] \in Keys
    BY <1>early, <2>3, <2>4 DEF Told
  <2>6. fails' \in 0 .. MaxFails
    BY <2>3 DEF TypeOK
  <2> QED
    BY <2>1, <2>2, <2>3, <2>4, <2>5, <2>6, TypeOne
<1>5. ASSUME NEW f \in Files, Mishap(f) PROVE TypeOK'
  <2>1. PICK st \in {"token", "over", "refresh"} :
          up' = [up EXCEPT ![f].st = st] \/ up' = [up EXCEPT ![f].st = st, ![f].retried = TRUE]
    BY <1>5 DEF Mishap, Unchecked, Request, UploadFails, Unauthorized, Rejected, To
  <2>2. /\ abortMap' \subseteq Files /\ fails' \in 0 .. MaxFails
        /\ UNCHANGED <<aborted, input, config, server, history>>
    BY <1>5 DEF Mishap, Unchecked, Request, UploadFails, Unauthorized, Rejected, Forgotten, Fail,
       TypeOK
  <2>3. /\ attached' \in ShownTypes
        /\ \A g \in Files : attached'[g] \in {attached[g], "none"}
    BY <1>5, <1>up DEF Mishap, Unchecked, UploadFails, Unauthorized, Rejected, ShownTypes
  <2>4. /\ up' \in UpTypes /\ up'[f].st = st
        /\ \A g \in Files \ {f} : up'[g] = up[g]
    <3>1. up[f] \in [st : States, owner : 0 .. MaxMounts, retried : BOOLEAN]
      BY <1>up DEF UpTypes
    <3> QED
      BY <2>1, <3>1, <1>up DEF UpTypes, States, InTransit
  <2>5. UNCHANGED <<aborted, input, config, record, stored, refs, answer, outbox, deletes,
                    crowded, early>>
    BY <2>2 DEF server, history
  <2>6. /\ aborted' \subseteq Files /\ early' \subseteq Files /\ input' \in 1 .. MaxMounts
        /\ outbox' \subseteq Keys /\ deletes' \subseteq Keys \X {"asked", "doomed", "emptied"}
    BY <2>5 DEF TypeOK
  <2> QED
    BY <2>2, <2>3, <2>4, <2>5, <2>6, TypeLess
<1>6. ASSUME NEW fs \in SUBSET Files, Abort(fs), input' \in 1 .. MaxMounts,
             attached' \in ShownTypes, \A g \in Files : attached'[g] \in {attached[g], "none"},
             early' \subseteq Files, UNCHANGED <<config, server, fails, crowded>>
      PROVE  TypeOK'
  <2>1. up' \in UpTypes /\ \A g \in Files : up'[g].st \in {up[g].st, "over"}
    BY <1>6, <1>up, AbortTypes
  <2>2. abortMap' \subseteq Files /\ aborted' \subseteq Files
    BY <1>6 DEF Abort, TypeOK
  <2>3. UNCHANGED <<config, record, stored, refs, answer, outbox, deletes, fails, crowded>>
    BY <1>6 DEF server
  <2>4. /\ outbox' \subseteq Keys /\ deletes' \subseteq Keys \X {"asked", "doomed", "emptied"}
        /\ fails' \in 0 .. MaxFails
    BY <2>3 DEF TypeOK
  <2> QED
    BY <1>6, <2>1, <2>2, <2>3, <2>4, TypeLess
<1>7. ASSUME NEW f \in Files, Cancel(f) PROVE TypeOK'
  <2>1. {f} \cap {g \in abortMap : up[g].owner = input} \in SUBSET Files
    OBVIOUS
  <2>2. early' \subseteq Files
    BY <1>7 DEF Cancel, TypeOK
  <2> QED
    BY <1>6, <1>7, <1>up, <2>1, <2>2 DEF Cancel, ShownTypes, TypeOK
<1>8. CASE Remount
  <2>1. {f \in abortMap : up[f].owner = input} \in SUBSET Files /\ input' \in 1 .. MaxMounts
    BY <1>8 DEF Remount, TypeOK
  <2>2. early' \subseteq Files /\ UNCHANGED crowded
    BY <1>8 DEF Remount, history, TypeOK
  <2> QED
    BY <1>6, <1>8, <1>up, <2>1, <2>2 DEF Remount
<1>9. ASSUME NEW f \in Files, Remove(f) PROVE TypeOK'
  <2>1. answer[f] \in Keys
    BY <1>9, <1>early DEF Remove, Told
  <2>2. /\ attached' \in ShownTypes
        /\ \A g \in Files : attached'[g] \in {attached[g], "none"}
    BY <1>9, <1>up DEF Remove, ShownTypes
  <2>3. UNCHANGED <<up, abortMap, aborted, input, config, record, stored, refs, answer,
                    outbox, fails, crowded, early>>
    BY <1>9 DEF Remove, history
  <2>4. deletes' \subseteq Keys \X {"asked", "doomed", "emptied"}
    BY <1>9, <2>1 DEF Remove, TypeOK
  <2> QED
    BY <1>up, <2>2, <2>3, <2>4, TypeLess DEF TypeOK
<1>10. CASE Send
  <2>1. {answer[f] : f \in Attachments} \subseteq Keys
    BY <1>10, <1>early DEF Send, Told, Attachments
  <2>2. /\ attached' \in ShownTypes
        /\ \A g \in Files : attached'[g] \in {attached[g], "none"}
    BY <1>10 DEF Send, ShownTypes
  <2>3. UNCHANGED <<up, abortMap, aborted, input, config, record, stored, refs, answer,
                    deletes, fails, crowded, early>>
    BY <1>10 DEF Send, history
  <2>4. outbox' \subseteq Keys
    BY <1>10, <2>1 DEF Send, TypeOK
  <2> QED
    BY <1>up, <2>2, <2>3, <2>4, TypeLess DEF TypeOK
<1>11. ASSUME NEW k \in Keys, RunStarts(k) \/ DeleteReads(k) \/ DeleteFile(k) \/ DeleteRecord(k)
       PROVE  TypeOK'
  <2>1. UNCHANGED <<attached, up, abortMap, aborted, input, config, answer, fails, crowded, early>>
    BY <1>11 DEF RunStarts, DeleteReads, DeleteFile, DeleteRecord, attaching, history
  <2>2. /\ record' \subseteq Keys /\ stored' \subseteq Keys /\ refs' \in [Keys -> Nat]
        /\ outbox' \subseteq Keys
    BY <1>11 DEF RunStarts, DeleteReads, DeleteFile, DeleteRecord, TypeOK
  <2>3. deletes' \subseteq Keys \X {"asked", "doomed", "emptied"}
    BY <1>11 DEF RunStarts, DeleteReads, DeleteFile, DeleteRecord, Goes, TypeOK
  <2> QED
    BY <2>1, <2>2, <2>3 DEF TypeOK
<1>12. CASE UNCHANGED vars
  BY <1>12 DEF vars, attaching, server, history, TypeOK
<1> QED
  BY <1>1, <1>2, <1>4, <1>5, <1>7, <1>8, <1>9, <1>10, <1>11, <1>12 DEF Next

\* The types alone, for any files and any failures: an attachment that is shown
\* has left compression behind.
THEOREM TypeCorrect == Spec => []TypeOK
<1> QED
  BY TypeInit, TypeStep, PTL DEF Spec

-----------------------------------------------------------------------------
(* What can be aborted.                                                    *)

\* One upload moves on and the others stay: it is enough to look at it.
LEMMA HandleKept ==
  ASSUME TypeOK, Handles, NEW f \in Files, aborted' = aborted, input' = input,
         up'[f].owner = up[f].owner, \A g \in Files \ {f} : up'[g] = up[g],
         f \notin aborted => (f \in abortMap' <=> up'[f].st \in InTransit),
         f \in abortMap' => Mounted(f),
         f \in aborted => f \notin abortMap' /\ up'[f].st \in {"token", "refresh", "over"},
         \A g \in Files \ {f} : g \in abortMap' <=> g \in abortMap
  PROVE  Handles'
  BY DEF Handles, Mounted

LEMMA AbortKept ==
  ASSUME TypeOK, Handles, NEW fs \in SUBSET abortMap, Abort(fs), input' \in Nat,
         input' >= input, \A f \in abortMap \ fs : up[f].owner \in {Page, input'}
  PROVE  Handles'
<1>1. up \in UpTypes /\ abortMap \subseteq Files
  BY DEF TypeOK, UpTypes
<1>2. \A f \in Files :
        /\ up'[f].owner = up[f].owner
        /\ up'[f].st = IF f \in fs /\ up[f].st \in {"xhr", "kept"} THEN "over" ELSE up[f].st
  BY <1>1, AbortTypes
<1>3. aborted' = aborted \cup fs /\ abortMap' = abortMap \ fs
  BY DEF Abort
<1>4. \A f \in fs : f \notin aborted /\ up[f].st \in InTransit
  BY <1>1 DEF Handles
<1> SUFFICES ASSUME NEW f \in Files
             PROVE  /\ up'[f].owner <= input'
                    /\ f \in abortMap' => Mounted(f)'
                    /\ f \in aborted' => f \notin abortMap' /\ up'[f].st \in {"token", "refresh", "over"}
                    /\ f \notin aborted' => (f \in abortMap' <=> up'[f].st \in InTransit)
  BY DEF Handles
<1>5. up'[f].owner <= input'
  <2>1. up[f].owner \in Int /\ input \in Int /\ up[f].owner <= input
    BY <1>1, UploadAssumption DEF Handles, UpTypes, TypeOK
  <2> QED
    BY <1>2, <2>1
<1>6. f \in abortMap' => Mounted(f)'
  BY <1>2, <1>3 DEF Mounted
<1>7. f \in aborted' => f \notin abortMap' /\ up'[f].st \in {"token", "refresh", "over"}
  BY <1>2, <1>3, <1>4 DEF Handles, InTransit
<1>8. f \notin aborted' => (f \in abortMap' <=> up'[f].st \in InTransit)
  BY <1>2, <1>3 DEF Handles
<1> QED
  BY <1>5, <1>6, <1>7, <1>8

LEMMA HandlesStep == TypeOK /\ Handles /\ [Next]_vars => Handles'
<1> SUFFICES ASSUME TypeOK, Handles, [Next]_vars PROVE Handles'
  OBVIOUS
<1>up. up \in UpTypes /\ attached \in ShownTypes
  BY DEF TypeOK, UpTypes, ShownTypes
<1>at. \A f \in Files :
         /\ f \in abortMap => Mounted(f)
         /\ f \in aborted => f \notin abortMap /\ up[f].st \in {"token", "refresh", "over"}
         /\ f \notin aborted => (f \in abortMap <=> up[f].st \in InTransit)
  BY DEF Handles
<1>1. ASSUME NEW fs \in SUBSET Files, NEW owner \in {Page, input}, Choose(fs, owner)
      PROVE  Handles'
  <2>1. owner \in 0 .. MaxMounts /\ owner <= input
    BY UploadAssumption DEF Page, TypeOK
  <2>2. UNCHANGED <<abortMap, aborted, input>> /\ \A f \in fs : up[f].st = "new"
    BY <1>1 DEF Choose
  <2>3. \A f \in fs : up'[f].owner = owner /\ up'[f].st \in {"compress", "hash"}
    BY <1>1, <2>1, <1>up, ChooseTypes
  <2>4. \A f \in Files \ fs : up'[f] = up[f]
    BY <1>1, <2>1, <1>up, ChooseTypes
  <2>5. \A f \in fs : f \notin aborted /\ f \notin abortMap
    BY <2>2, <1>at DEF InTransit
  <2>6. ASSUME NEW f \in Files
        PROVE  /\ up'[f].owner <= input' /\ (f \in abortMap' => Mounted(f)')
               /\ f \in aborted' => f \notin abortMap' /\ up'[f].st \in {"token", "refresh", "over"}
               /\ f \notin aborted' => (f \in abortMap' <=> up'[f].st \in InTransit)
    <3>1. CASE f \in fs
      BY <2>1, <2>2, <2>3, <2>5, <3>1 DEF InTransit
    <3>2. CASE f \notin fs
      BY <2>2, <2>4, <3>2 DEF Handles, Mounted
    <3> QED
      BY <3>1, <3>2
  <2> QED
    BY <2>6 DEF Handles
<1>2. ASSUME NEW f \in Files, Advance(f) PROVE Handles'
  <2>1. PICK st \in States : To(f, st)
    BY <1>2, AdvanceTypes
  <2>2. /\ up'[f].owner = up[f].owner /\ up'[f].st = st
        /\ \A g \in Files \ {f} : up'[g] = up[g]
    BY <2>1, <1>up, ToTypes
  <2>3. UNCHANGED <<aborted, input>>
    BY <1>2 DEF Advance, Compressed, Hashed, CheckServed, Unknown, Found, Token, Kept, Done, Again
  <2>4. abortMap' \in {abortMap, abortMap \cup {f}, abortMap \ {f}}
    BY <1>2 DEF Advance, Compressed, Hashed, CheckServed, Unknown, Request, Found, Token,
       Rejected, Forgotten, Kept, Done, Again
  <2>5. CASE Compressed(f) \/ Hashed(f) \/ CheckServed(f)
    <3>1. /\ up'[f].st \in {"hash", "check", "over", "found", "unknown"} /\ abortMap' = abortMap
          /\ up[f].st \in {"compress", "hash", "check"}
      BY <2>5, <1>up DEF Compressed, Hashed, CheckServed, To, UpTypes
    <3> QED
      BY <2>2, <2>3, <3>1, <1>at, HandleKept DEF InTransit
  <2>6. CASE Unknown(f)
    <3>1. up[f].st = "unknown" /\ f \notin aborted /\ f \notin abortMap
      BY <2>6, <1>at DEF Unknown, InTransit
    <3>2. CASE Mounted(f)
      <4>1. up'[f].st = "token" /\ abortMap' = abortMap \cup {f}
        BY <2>6, <3>2, <1>up DEF Unknown, Request, To, UpTypes
      <4> QED
        BY <2>2, <2>3, <3>1, <3>2, <4>1, HandleKept DEF InTransit
    <3>3. CASE ~Mounted(f)
      <4>1. up'[f].st = "over" /\ abortMap' = abortMap
        BY <2>6, <3>3, <1>up DEF Unknown, Request, To, UpTypes
      <4> QED
        BY <2>2, <2>3, <3>1, <4>1, HandleKept DEF InTransit
    <3> QED
      BY <3>2, <3>3
  <2>7. CASE Found(f) \/ Done(f)
    <3>1. /\ up'[f].st = "over" /\ up[f].st \in {"found", "kept"}
          /\ abortMap' = IF Mounted(f) THEN abortMap \ {f} ELSE abortMap
      BY <2>7, <1>up DEF Found, Done, To, UpTypes
    <3>2. f \notin aborted /\ f \notin abortMap'
      BY <3>1, <1>at
    <3> QED
      BY <2>2, <2>3, <2>4, <3>1, <3>2, HandleKept DEF InTransit
  <2>8. CASE Token(f)
    <3>1. CASE f \in aborted
      <4>1. up'[f].st = "over" /\ abortMap' = abortMap \ {f}
        BY <2>8, <3>1, <1>up DEF Token, Stopped, Rejected, Forgotten, To, UpTypes
      <4> QED
        BY <2>2, <2>3, <3>1, <4>1, HandleKept
    <3>2. CASE f \notin aborted
      <4>1. up[f].st = "token" /\ up'[f].st = "xhr" /\ abortMap' = abortMap
        BY <2>8, <3>2, <1>up DEF Token, Stopped, To, UpTypes
      <4> QED
        BY <2>2, <2>3, <3>2, <4>1, <1>at, HandleKept DEF InTransit
    <3> QED
      BY <3>1, <3>2
  <2>9. CASE Kept(f)
    <3>1. up[f].st = "xhr" /\ up'[f].st = "kept" /\ abortMap' = abortMap
      BY <2>9, <1>up DEF Kept, To, UpTypes
    <3> QED
      BY <2>2, <2>3, <3>1, <1>at, HandleKept DEF InTransit
  <2>10. CASE Again(f)
    <3>1. up[f].st = "refresh" /\ up'[f].st = "token" /\ abortMap' = abortMap
      BY <2>10, <1>up DEF Again, To, UpTypes
    <3> QED
      BY <2>2, <2>3, <3>1, <1>at, HandleKept DEF InTransit
  <2> QED
    BY <1>2, <2>5, <2>6, <2>7, <2>8, <2>9, <2>10 DEF Advance
<1>3. ASSUME NEW f \in Files, Mishap(f) PROVE Handles'
  <2>1. UNCHANGED <<aborted, input>>
    BY <1>3 DEF Mishap, Unchecked, UploadFails, Unauthorized
  <2>2. CASE Unchecked(f)
    <3>1. f \notin aborted /\ f \notin abortMap
      BY <2>2, <1>at DEF Unchecked, InTransit
    <3>2. PICK st \in {"token", "over"} :
            To(f, st) /\ (st = "token" => Mounted(f))
              /\ abortMap' = (IF st = "token" THEN abortMap \cup {f} ELSE abortMap)
      BY <2>2 DEF Unchecked, Request
    <3>3. /\ up'[f].owner = up[f].owner /\ up'[f].st = st
          /\ \A g \in Files \ {f} : up'[g] = up[g]
      BY <3>2, <1>up, ToTypes DEF States, InTransit
    <3> QED
      BY <2>1, <3>1, <3>2, <3>3, HandleKept DEF InTransit
  <2>3. CASE UploadFails(f)
    <3>1. To(f, "over") /\ abortMap' = abortMap \ {f}
      BY <2>3 DEF UploadFails, Rejected, Forgotten
    <3>2. /\ up'[f].owner = up[f].owner /\ up'[f].st = "over"
          /\ \A g \in Files \ {f} : up'[g] = up[g]
      BY <3>1, <1>up, ToTypes DEF States
    <3> QED
      BY <2>1, <3>1, <3>2, HandleKept DEF InTransit
  <2>4. CASE Unauthorized(f)
    <3>1. /\ up'[f].owner = up[f].owner /\ up[f].st = "xhr" /\ up'[f].st = "refresh"
          /\ \A g \in Files \ {f} : up'[g] = up[g]
          /\ abortMap' = abortMap
      BY <2>4, <1>up DEF Unauthorized, UpTypes
    <3> QED
      BY <2>1, <3>1, <1>at, HandleKept DEF InTransit
  <2> QED
    BY <1>3, <2>2, <2>3, <2>4 DEF Mishap
<1>4. ASSUME NEW f \in Files, Cancel(f) PROVE Handles'
  <2> DEFINE fs == {f} \cap {g \in abortMap : up[g].owner = input}
  <2>1. Abort(fs) /\ input' = input /\ fs \in SUBSET abortMap
    BY <1>4 DEF Cancel
  <2>2. input \in Nat /\ abortMap \subseteq Files
    BY UploadAssumption DEF TypeOK
  <2>3. \A g \in abortMap : up[g].owner \in {Page, input}
    BY <2>2, <1>at DEF Mounted
  <2> HIDE DEF fs
  <2> QED
    BY <2>1, <2>2, <2>3, AbortKept
<1>5. CASE Remount
  <2> DEFINE fs == {g \in abortMap : up[g].owner = input}
  <2>1. Abort(fs) /\ input' = input + 1 /\ fs \in SUBSET abortMap
    BY <1>5 DEF Remount
  <2>2. input \in Nat /\ abortMap \subseteq Files
    BY UploadAssumption DEF TypeOK
  <2>3. \A g \in abortMap \ fs : up[g].owner = Page
    BY <2>2, <1>at DEF Mounted
  <2> HIDE DEF fs
  <2> QED
    BY <2>1, <2>2, <2>3, AbortKept
<1>6. CASE UNCHANGED <<up, abortMap, aborted, input>>
  BY <1>6 DEF Handles, Mounted
<1>7. ASSUME \/ ConfigKnown \/ ConfigFails \/ Send
             \/ (\E f \in Files : Remove(f))
             \/ (\E k \in Keys : RunStarts(k) \/ DeleteReads(k) \/ DeleteFile(k) \/ DeleteRecord(k))
             \/ UNCHANGED vars
      PROVE  UNCHANGED <<up, abortMap, aborted, input>>
  BY <1>7 DEF ConfigKnown, ConfigFails, Send, Remove, RunStarts, DeleteReads,
     DeleteFile, DeleteRecord, attaching, vars
<1> QED
  BY <1>1, <1>2, <1>3, <1>4, <1>5, <1>6, <1>7 DEF Next

-----------------------------------------------------------------------------
(* What was taken away.                                                    *)

\* A file is taken away once it is sent or removed, or else by its function.
LEMMA TakenChoose ==
  ASSUME TypeOK, Taken, NEW fs \in SUBSET Files, NEW owner \in {Page, input}, Choose(fs, owner)
  PROVE  Taken'
<1>1. owner \in 0 .. MaxMounts /\ up \in UpTypes /\ attached \in ShownTypes
  BY UploadAssumption DEF Page, TypeOK, UpTypes, ShownTypes
<1>2. /\ \A f \in fs : /\ up'[f].st = (IF f \in Images THEN "compress" ELSE "hash")
                       /\ attached'[f] = (IF f \in Images THEN attached[f] ELSE "busy")
      /\ \A f \in Files \ fs : up'[f] = up[f] /\ attached'[f] = attached[f]
  BY <1>1, ChooseTypes
<1>3. \A f \in fs : up[f].st = "new"
  BY DEF Choose
<1>4. UNCHANGED <<aborted, early>>
  BY DEF Choose
<1> QED
  BY <1>2, <1>3, <1>4 DEF Taken

\* One upload goes on: one that was taken away by its function finds the flag
\* when it has its token.
LEMMA TakenOne ==
  ASSUME TypeOK, Taken, NEW f \in Files, Advance(f) \/ Mishap(f)
  PROVE  Taken'
<1>up. up \in UpTypes /\ attached \in ShownTypes
  BY DEF TypeOK, UpTypes, ShownTypes
<1>1. UNCHANGED <<aborted, early>>
  BY DEF Advance, Mishap, Compressed, Hashed, CheckServed, Unknown, Found, Token, Kept,
     Done, Again, Unchecked, UploadFails, Unauthorized, history
<1>2. \A g \in Files \ {f} : up'[g] = up[g] /\ attached'[g] = attached[g]
  BY <1>up DEF Advance, Mishap, Compressed, Hashed, CheckServed, Unknown, Request, Found,
     Finished, Token, Rejected, Kept, Done, Again, Unchecked, UploadFails, Unauthorized, To,
     UpTypes, ShownTypes
<1>3. up'[f].owner = up[f].owner
  BY <1>up DEF Advance, Mishap, Compressed, Hashed, CheckServed, Unknown, Request, Found,
     Token, Rejected, Kept, Done, Again, Unchecked, UploadFails, Unauthorized, To, UpTypes
<1>4. attached'[f] = "ready" => up'[f].st = "over"
  BY <1>up DEF Taken, Advance, Mishap, Compressed, Hashed, CheckServed, Unknown, Found,
     Finished, Token, Rejected, Kept, Done, Again, Unchecked, UploadFails, Unauthorized, To,
     UpTypes, ShownTypes
<1>5. CASE up'[f].st = "over"
  BY <1>1, <1>2, <1>3, <1>4, <1>5 DEF Taken
<1>6. CASE up'[f].st # "over"
  <2>1. attached'[f] = attached[f] \/ attached'[f] # "none"
    BY <1>6, <1>up DEF Advance, Mishap, Compressed, Hashed, CheckServed, Unknown, Found, Token,
       Rejected, Kept, Done, Again, Unchecked, UploadFails, Unauthorized, To, UpTypes, ShownTypes
  <2>2. up[f].st \notin {"new", "over"} /\ (up[f].st = "compress" => attached'[f] # "none")
    BY <1>6, <1>up DEF Advance, Mishap, Compressed, Hashed, CheckServed, Unknown, Found, Token,
       Rejected, Kept, Done, Again, Unchecked, UploadFails, Unauthorized, To, UpTypes, ShownTypes
  <2>3. f \in aborted /\ up[f].st \in {"token", "refresh"} => up'[f].st \in {"token", "refresh"}
    BY <1>6, <1>up DEF Advance, Mishap, Compressed, Hashed, CheckServed, Unknown, Found, Token,
       Stopped, Rejected, Kept, Done, Again, Unchecked, UploadFails, Unauthorized, To, UpTypes
  <2>4. attached'[f] = "none" =>
          \/ up'[f].owner = Page \/ f \in early'
          \/ f \in aborted' /\ up'[f].st \in {"token", "refresh"}
    BY <1>1, <1>3, <2>1, <2>2, <2>3 DEF Taken
  <2> QED
    BY <1>1, <1>2, <1>4, <2>4 DEF Taken
<1> QED
  BY <1>5, <1>6

\* Cancelling takes a file away: its function is called if the input shown has
\* it, and it has that of every upload of its own that was requested.
LEMMA TakenCancel ==
  ASSUME TypeOK, Handles, Taken, NEW f \in Files, Cancel(f)
  PROVE  Taken'
<1> DEFINE fs == {f} \cap {g \in abortMap : up[g].owner = input}
<1>up. up \in UpTypes /\ attached \in ShownTypes
  BY DEF TypeOK, UpTypes, ShownTypes
<1>1. Abort(fs) /\ fs \in SUBSET Files /\ aborted' = aborted \cup fs
  BY DEF Cancel, Abort
<1>2. \A g \in Files :
        /\ up'[g].owner = up[g].owner
        /\ up'[g].st = IF g \in fs /\ up[g].st \in {"xhr", "kept"} THEN "over" ELSE up[g].st
  BY <1>1, <1>up, AbortTypes
<1>3. attached' = [attached EXCEPT ![f] = "none"] /\ early \subseteq early'
  BY DEF Cancel
<1>4. ASSUME NEW g \in Files \ {f}
      PROVE  up'[g].st = up[g].st /\ attached'[g] = attached[g]
  BY <1>2, <1>3
<1>5. up[f].st \in Unrequested => f \in early'
  BY DEF Cancel
<1>6. CASE up[f].st \in InTransit /\ up[f].owner # Page
  <2>1. f \notin aborted => f \in fs
    BY <1>6 DEF Handles, Mounted
  <2>2. f \in aborted => up[f].st \in {"token", "refresh", "over"}
    BY DEF Handles
  <2>3. f \in aborted' /\ up'[f].st \in {"token", "refresh", "over"}
    BY <1>1, <1>2, <1>6, <2>1, <2>2 DEF InTransit
  <2> QED
    BY <1>1, <1>2, <1>3, <1>4, <1>up, <2>3 DEF Taken, ShownTypes
<1>7. CASE up[f].st \notin InTransit \/ up[f].owner = Page
  <2>1. up[f].st \in States
    BY <1>up DEF UpTypes
  <2>2. up'[f].st \in {"new", "compress", "over"} \/ f \in early' \/ up'[f].owner = Page
    BY <1>2, <1>5, <1>7, <2>1 DEF States
  <2> QED
    BY <1>1, <1>2, <1>3, <1>4, <1>up, <2>2 DEF Taken, ShownTypes
<1> QED
  BY <1>6, <1>7

LEMMA TakenStep == TypeOK /\ Handles /\ Taken /\ [Next]_vars => Taken'
<1> SUFFICES ASSUME TypeOK, Handles, Taken, [Next]_vars PROVE Taken'
  OBVIOUS
<1>up. up \in UpTypes /\ attached \in ShownTypes
  BY DEF TypeOK, UpTypes, ShownTypes
<1>1. CASE Remount
  <2> DEFINE fs == {f \in abortMap : up[f].owner = input}
  <2>1. Abort(fs) /\ fs \in SUBSET Files /\ aborted \subseteq aborted'
    BY <1>1 DEF Remount, Abort, TypeOK
  <2>2. \A g \in Files :
          /\ up'[g].owner = up[g].owner
          /\ up'[g].st = IF g \in fs /\ up[g].st \in {"xhr", "kept"} THEN "over" ELSE up[g].st
    BY <2>1, <1>up, AbortTypes
  <2>3. UNCHANGED <<attached, early>>
    BY <1>1 DEF Remount, history
  <2> HIDE DEF fs
  <2> QED
    BY <2>1, <2>2, <2>3 DEF Taken
<1>2. ASSUME NEW f \in Files, Remove(f) PROVE Taken'
  <2>1. up[f].st = "over"
    BY <1>2 DEF Remove, Taken
  <2> QED
    BY <1>2, <1>up, <2>1 DEF Remove, Taken, history, ShownTypes
<1>3. CASE Send
  <2>1. \A f \in Files : attached[f] # "none" => up[f].st = "over"
    BY <1>3 DEF Send, Attachments, Taken
  <2> QED
    BY <1>3, <2>1 DEF Send, Taken, history
<1>4. ASSUME \/ ConfigKnown \/ ConfigFails
             \/ (\E k \in Keys : RunStarts(k) \/ DeleteReads(k) \/ DeleteFile(k) \/ DeleteRecord(k))
             \/ UNCHANGED vars
      PROVE  UNCHANGED <<attached, up, aborted, early>>
  BY <1>4 DEF ConfigKnown, ConfigFails, RunStarts, DeleteReads, DeleteFile, DeleteRecord,
     attaching, history, vars
<1>5. CASE UNCHANGED <<attached, up, aborted, early>>
  BY <1>5 DEF Taken
<1> QED
  BY <1>1, <1>2, <1>3, <1>4, <1>5, TakenChoose, TakenOne, TakenCancel DEF Next

-----------------------------------------------------------------------------
(* The limit.                                                              *)

\* The attachments and the images still to come; no step but the choice of
\* files adds to them.
Claimed == Attachments \cup Compressing

LEMMA ClaimedFinite == IsFiniteSet(Claimed) /\ IsFiniteSet(Attachments)
  BY UploadAssumption, FS_Subset DEF Claimed, Attachments, Compressing

LEMMA CountedKept ==
  ASSUME TypeOK, Counted, Claimed' \subseteq Claimed, UNCHANGED <<config, crowded>>
  PROVE  Counted'
<1> SUFFICES ASSUME ~crowded PROVE Counted'
  BY DEF Counted
<1>1. CASE config = "known"
  <2>1. Cardinality(Claimed') <= Cardinality(Claimed)
    BY ClaimedFinite, FS_Subset
  <2>2. IsFiniteSet(Claimed')
    BY ClaimedFinite, FS_Subset
  <2>3. Cardinality(Claimed) \in Nat /\ Cardinality(Claimed') \in Nat /\ MaxFiles \in Nat
    BY ClaimedFinite, <2>2, FS_CardinalityType, UploadAssumption
  <2>4. Cardinality(Claimed) <= MaxFiles
    BY <1>1 DEF Counted, Claimed
  <2>5. Cardinality(Claimed') <= MaxFiles
    BY <2>1, <2>3, <2>4
  <2> QED
    BY <1>1, <2>5 DEF Counted, Claimed
<1>2. CASE config # "known"
  BY <1>2 DEF Counted, Claimed
<1> QED
  BY <1>1, <1>2

LEMMA CountedChoose ==
  ASSUME TypeOK, Counted, NEW fs \in SUBSET Files, NEW owner \in {Page, input}, Choose(fs, owner)
  PROVE  Counted'
<1> SUFFICES ASSUME ~crowded' PROVE Counted'
  BY DEF Counted
<1>1. /\ ~crowded /\ config = "known" /\ config' = "known"
      /\ \A f \in Files : up[f].st # "compress"
  BY DEF Choose, TypeOK
<1>2. CountOk(Cardinality(fs))
  BY DEF Choose
<1>3. Claimed' \subseteq Attachments \cup fs
  <2>1. owner \in 0 .. MaxMounts /\ up \in UpTypes /\ attached \in ShownTypes
    BY UploadAssumption DEF Page, TypeOK, UpTypes, ShownTypes
  <2>2. \A f \in Files \ fs : up'[f] = up[f] /\ attached'[f] = attached[f]
    BY <2>1, ChooseTypes
  <2> QED
    BY <1>1, <2>2 DEF Claimed, Attachments, Compressing
<1>4. IsFiniteSet(fs)
  BY UploadAssumption, FS_Subset
<1>5. /\ IsFiniteSet(Attachments \cup fs)
      /\ Cardinality(Attachments \cup fs)
           = Cardinality(Attachments) + Cardinality(fs) - Cardinality(Attachments \cap fs)
  BY <1>4, ClaimedFinite, FS_Union
<1>6. IsFiniteSet(Attachments \cap fs)
  BY <1>4, FS_Subset
<1>7. /\ IsFiniteSet(Claimed') /\ Cardinality(Claimed') <= Cardinality(Attachments \cup fs)
  BY <1>3, <1>5, FS_Subset
<1>8. /\ Cardinality(Claimed') \in Nat /\ Cardinality(Attachments \cap fs) \in Nat
      /\ Cardinality(Attachments) \in Nat /\ Cardinality(fs) \in Nat /\ MaxFiles \in Nat
      /\ Cardinality(Attachments \cup fs) \in Nat
  BY <1>4, <1>5, <1>6, <1>7, ClaimedFinite, FS_CardinalityType, UploadAssumption
<1>9. Cardinality(fs) <= MaxFiles - Cardinality(Attachments)
  BY <1>1, <1>2 DEF CountOk
<1>10. Cardinality(Claimed') <= MaxFiles
  BY <1>5, <1>7, <1>8, <1>9
<1> QED
  BY <1>1, <1>10 DEF Counted, Claimed

LEMMA CountedStep == TypeOK /\ Counted /\ [Next]_vars => Counted'
<1> SUFFICES ASSUME TypeOK, Counted, [Next]_vars PROVE Counted'
  OBVIOUS
<1>up. up \in UpTypes /\ attached \in ShownTypes
  BY DEF TypeOK, UpTypes, ShownTypes
<1>1. CASE ConfigKnown \/ ConfigFails
  <2>1. UNCHANGED <<attached, up, crowded>> /\ config = "pending"
    BY <1>1 DEF ConfigKnown, ConfigFails, attaching, history
  <2>2. Claimed' = Claimed
    BY <2>1 DEF Claimed, Attachments, Compressing
  <2>3. ~crowded => Claimed' = {}
    BY <2>1, <2>2 DEF Counted, Claimed
  <2>4. Cardinality({}) <= MaxFiles
    BY FS_EmptySet, UploadAssumption
  <2> QED
    BY <2>1, <2>3, <2>4 DEF Counted, Claimed
<1>2. ASSUME NEW f \in Files, Advance(f) \/ Mishap(f)
      PROVE  Claimed' \subseteq Claimed /\ UNCHANGED <<config, crowded>>
  <2>1. UNCHANGED <<config, crowded>>
    BY <1>2 DEF Advance, Mishap, Compressed, Hashed, CheckServed, Unknown, Found, Token, Kept,
       Done, Again, Unchecked, UploadFails, Unauthorized, history
  <2>2. \A g \in Files \ {f} : up'[g] = up[g] /\ attached'[g] \in {attached[g], "none"}
    BY <1>2, <1>up DEF Advance, Mishap, Compressed, Hashed, CheckServed, Unknown, Request, Found,
       Finished, Token, Rejected, Kept, Done, Again, Unchecked, UploadFails, Unauthorized, To,
       UpTypes, ShownTypes
  <2>3. up'[f].st # "compress"
    BY <1>2, <1>up DEF Advance, Mishap, Compressed, Hashed, CheckServed, Unknown, Request, Found,
       Token, Rejected, Kept, Done, Again, Unchecked, UploadFails, Unauthorized, To, UpTypes
  <2>4. attached'[f] # "none" => attached[f] # "none" \/ up[f].st = "compress"
    BY <1>2, <1>up DEF Advance, Mishap, Compressed, Hashed, CheckServed, Unknown, Found,
       Finished, Token, Rejected, Kept, Done, Again, Unchecked, UploadFails, Unauthorized,
       ShownTypes
  <2>5. \A g \in Claimed' : g \in Claimed
    BY <2>2, <2>3, <2>4 DEF Claimed, Attachments, Compressing
  <2> QED
    BY <2>1, <2>5
<1>3. ASSUME NEW f \in Files, Cancel(f)
      PROVE  Claimed' \subseteq Claimed /\ UNCHANGED <<config, crowded>>
  <2>1. \A g \in Files : up'[g].st \in {up[g].st, "over"} /\ attached'[g] \in {attached[g], "none"}
    BY <1>3, <1>up DEF Cancel, Abort, UpTypes, ShownTypes
  <2> QED
    BY <1>3, <2>1 DEF Cancel, Claimed, Attachments, Compressing
<1>4. CASE Remount
  <2>1. \A g \in Files : up'[g].st \in {up[g].st, "over"}
    BY <1>4, <1>up DEF Remount, Abort, UpTypes
  <2>2. Claimed' \subseteq Claimed /\ UNCHANGED <<config, crowded>>
    BY <1>4, <2>1 DEF Remount, Claimed, Attachments, Compressing, history
  <2> QED
    BY <2>2, CountedKept
<1>5. ASSUME \/ Send \/ (\E f \in Files : Remove(f))
             \/ (\E k \in Keys : RunStarts(k) \/ DeleteReads(k) \/ DeleteFile(k) \/ DeleteRecord(k))
             \/ UNCHANGED vars
      PROVE  Claimed' \subseteq Claimed /\ UNCHANGED <<config, crowded>>
  <2>1. UNCHANGED <<up, config, crowded>>
    BY <1>5 DEF Send, Remove, RunStarts, DeleteReads, DeleteFile, DeleteRecord, attaching, vars,
       history
  <2>2. \A g \in Files : attached'[g] \in {attached[g], "none"}
    BY <1>5, <1>up DEF Send, Remove, RunStarts, DeleteReads, DeleteFile, DeleteRecord, attaching, vars, ShownTypes
  <2> QED
    BY <2>1, <2>2 DEF Claimed, Attachments, Compressing
<1> QED
  BY <1>1, <1>2, <1>3, <1>4, <1>5, CountedKept, CountedChoose DEF Next

-----------------------------------------------------------------------------
LEMMA IInvAlways == Spec => []IInv
<1>1. Init => IInv
  <2> SUFFICES ASSUME Init PROVE IInv
    OBVIOUS
  <2>1. Handles /\ Taken
    BY DEF Init, Handles, Taken, InTransit, Page
  <2>2. Attachments \cup Compressing = {} /\ config # "known"
    BY DEF Init, Attachments, Compressing
  <2> QED
    BY <2>1, <2>2, TypeInit DEF IInv, Counted
<1>2. IInv /\ [Next]_vars => IInv'
  BY TypeStep, HandlesStep, TakenStep, CountedStep DEF IInv
<1> QED
  BY <1>1, <1>2, PTL DEF Spec

\* What the user took away is not being sent, but for dropped files and files
\* cancelled before they were requested: for any number of uploads, retries and
\* replaced inputs.
THEOREM AlwaysAbortable == Spec => []Abortable
<1>1. IInv => Abortable
  BY DEF IInv, Taken, Abortable
<1> QED
  BY <1>1, IInvAlways, PTL

\* No more files are attached than the limit allows, whichever instances of
\* the hook the files were chosen with, unless some were accepted too early.
THEOREM LimitHolds == Spec => []LimitKept
<1>1. IInv => LimitKept
  <2> SUFFICES ASSUME IInv, ~crowded, config = "known" PROVE Cardinality(Attachments) <= MaxFiles
    BY DEF LimitKept
  <2>1. Cardinality(Attachments) <= Cardinality(Claimed)
    BY ClaimedFinite, FS_Subset DEF Claimed
  <2>2. /\ Cardinality(Attachments) \in Nat /\ Cardinality(Claimed) \in Nat /\ MaxFiles \in Nat
    BY ClaimedFinite, FS_CardinalityType, UploadAssumption
  <2>3. Cardinality(Claimed) <= MaxFiles
    BY DEF IInv, Counted, Claimed
  <2> QED
    BY <2>1, <2>2, <2>3
<1> QED
  BY <1>1, IInvAlways, PTL

\* An attachment that is gone does not come back, whichever answer arrives
\* after it was cancelled, removed or sent.
THEOREM StaysGone == Spec => GoneForGood
<1> DEFINE Back(f) == attached[f] = "none" /\ attached'[f] # "none"
<1>1. TypeOK /\ [Next]_vars
        => [\A f \in Files : Back(f) => up[f].st \in {"new", "compress"}]_vars
  <2> SUFFICES ASSUME TypeOK, Next, NEW f \in Files, Back(f)
               PROVE  up[f].st \in {"new", "compress"}
    OBVIOUS
  <2>up. up \in UpTypes /\ attached \in ShownTypes
    BY DEF TypeOK, UpTypes, ShownTypes
  <2>1. ASSUME NEW fs \in SUBSET Files, NEW owner \in {Page, input}, Choose(fs, owner)
        PROVE  up[f].st = "new"
    BY <2>1 DEF Choose
  <2>2. ASSUME NEW g \in Files, Advance(g) \/ Mishap(g) PROVE up[f].st = "compress"
    BY <2>2, <2>up DEF Advance, Mishap, Compressed, Hashed, CheckServed, Unknown, Found,
       Finished, Token, Rejected, Kept, Done, Again, Unchecked, UploadFails, Unauthorized,
       ShownTypes
  <2>3. ~(\/ ConfigKnown \/ ConfigFails \/ Send \/ Remount
          \/ (\E g \in Files : Cancel(g) \/ Remove(g))
          \/ (\E k \in Keys : RunStarts(k) \/ DeleteReads(k) \/ DeleteFile(k) \/ DeleteRecord(k)))
    BY <2>up DEF ConfigKnown, ConfigFails, Send, Remount, Cancel, Remove, RunStarts,
       DeleteReads, DeleteFile, DeleteRecord, attaching, ShownTypes
  <2> QED
    BY <2>1, <2>2, <2>3 DEF Next
<1> QED
  BY <1>1, TypeCorrect, PTL DEF Spec, GoneForGood
=============================================================================
