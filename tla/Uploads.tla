------------------------------- MODULE Uploads -------------------------------
(***************************************************************************)
(* Files attached to the next message: the hook useFileUpload (frontend/   *)
(* src/hooks/useFileUpload.ts), its request with abort and retry           *)
(* (services/api/upload.ts), and what the server keeps of a file           *)
(* (src/api/routes/upload.py, src/infra/upload/file_record.py).            *)
(*                                                                         *)
(* The attachments are the state of the chat page, but two instances of    *)
(* the hook work on them, each with its own map of abort functions: the    *)
(* page's, for dropped files (useDragAndDrop), and that of the ChatInput   *)
(* shown.  ChatView shows one ChatInput under the welcome page and another *)
(* one under the messages, so the input's instance is replaced whenever    *)
(* the list of messages becomes empty or stops being so.                   *)
(*                                                                         *)
(* A file is known by its content, which is its hash; each upload that the *)
(* server keeps gets a storage key of its own.  The server looks a hash up *)
(* and keeps a file in one step.  Progress, names and the order of the     *)
(* attachments are left out.                                               *)
(***************************************************************************)
EXTENDS Integers, FiniteSets

CONSTANTS
  Files,      \* files the user chooses, each once
  Images,     \* those that are images
  Content(_), \* the content of a file
  MaxFiles,   \* uploadLimits.maxFiles
  MaxMounts,  \* bound: instances of ChatInput
  MaxFails    \* bound: requests and workers that fail

ASSUME UploadAssumption ==
  /\ IsFiniteSet(Files) /\ Images \subseteq Files
  /\ {MaxFiles, MaxFails} \subseteq Nat /\ MaxMounts \in Nat \ {0}

Contents == {Content(f) : f \in Files}
Page == 0   \* the hook of useDragAndDrop; those of ChatInput are 1, 2, ...

\* Storage keys: of the uploads here, and of what was stored before.
NewKey(f) == <<"new", f>>
OldKey(c) == <<"old", c>>
Keys == {NewKey(f) : f \in Files} \cup {OldKey(c) : c \in Contents}
KeysOf(c) == {NewKey(f) : f \in {g \in Files : Content(g) = c}} \cup {OldKey(c)}
NoKey == <<>>

VARIABLES
  attached, \* per file: not attached, "busy" (isUploading) or "ready"
  up,       \* per file: how far its upload is, whose it is, whether it is retried
  abortMap, \* abortMapRef of all instances: files with an abort function
  aborted,  \* files whose abort function was called
  input,    \* the ChatInput shown
  config,   \* _configPromise: "pending", "known" or "failed"
  record,   \* server: keys with a file record
  stored,   \* server: keys in the storage
  refs,     \* server: reference_count
  answer,   \* per file: the key that the server told for it
  outbox,   \* keys of messages whose run has not started
  deletes,  \* requests to delete, as <<key, how far it is>>
  fails,    \* how many things failed
  crowded,  \* history: files were accepted while the limit was not known or an
            \* earlier image was still being compressed
  early     \* history: files that were cancelled before they were requested

attaching == <<attached, up, abortMap, aborted>>
server == <<record, stored, refs, answer, outbox, deletes>>
history == <<crowded, early>>
vars == <<attaching, input, config, server, fails, history>>

Init ==
  /\ attached = [f \in Files |-> "none"]
  /\ up = [f \in Files |-> [st |-> "new", owner |-> Page, retried |-> FALSE]]
  /\ abortMap = {} /\ aborted = {} /\ input = 1 /\ config = "pending"
  /\ record \in SUBSET {OldKey(c) : c \in Contents} /\ stored = record
  /\ refs = [k \in Keys |-> 0] /\ answer = [f \in Files |-> NoKey]
  /\ outbox = {} /\ deletes = {} /\ fails = 0 /\ crowded = FALSE /\ early = {}

Mounted(f) == up[f].owner \in {Page, input}
Unrequested == {"hash", "check", "found", "unknown"}
InTransit == {"token", "xhr", "kept", "refresh"}
Fail == fails < MaxFails /\ fails' = fails + 1

-----------------------------------------------------------------------------
(* Choosing files.                                                         *)

Attachments == {f \in Files : attached[f] # "none"}

\* validateCount().  Mutant: only the new files are counted.
NewOnly(n) == config = "known" => n <= MaxFiles
CountOk(n) == config = "known" => n <= MaxFiles - Cardinality(Attachments)

\* Images are attached once they are compressed.  Mutant: they are at once.
NotDeferred == {}
Deferred == Images

\* uploadFiles(): images are compressed first, other files attached at once.
Choose(fs, owner) ==
  /\ fs # {} /\ \A f \in fs : up[f].st = "new"
  /\ CountOk(Cardinality(fs))
  /\ up' = [f \in Files |-> IF f \notin fs THEN up[f]
            ELSE [st |-> IF f \in Images THEN "compress" ELSE "hash",
                  owner |-> owner, retried |-> FALSE]]
  /\ attached' = [f \in Files |-> IF f \in fs \ Deferred THEN "busy" ELSE attached[f]]
  /\ crowded' = (crowded \/ config # "known" \/ \E f \in Files : up[f].st = "compress")
  /\ UNCHANGED <<abortMap, aborted, input, config, server, fails, early>>

ConfigKnown ==
  /\ config = "pending" /\ config' = "known"
  /\ UNCHANGED <<attaching, input, server, fails, history>>

\* The rejected promise is kept: no instance learns the limits any more.
ConfigFails ==
  /\ config = "pending" /\ Fail /\ config' = "failed"
  /\ UNCHANGED <<attaching, input, server, history>>

-----------------------------------------------------------------------------
(* uploadFile() of the hook, up to the request.                            *)

To(f, st) == up' = [up EXCEPT ![f].st = st]

Compressed(f) ==
  /\ up[f].st = "compress"
  /\ IF Mounted(f)
     THEN To(f, "hash") /\ attached' = [attached EXCEPT ![f] = "busy"]
     ELSE To(f, "over") /\ UNCHANGED attached
  /\ UNCHANGED <<abortMap, aborted, input, config, server, fails, history>>

\* uploadApi.uploadFile() is called and its abort function kept, unless the
\* instance is gone.  Mutant: without a check nothing is requested.
GivesUp(f) == To(f, "over") /\ UNCHANGED abortMap
Request(f) ==
  IF Mounted(f) THEN To(f, "token") /\ abortMap' = abortMap \cup {f}
  ELSE To(f, "over") /\ UNCHANGED abortMap

Hashed(f) ==
  /\ up[f].st = "hash"
  /\ To(f, IF Mounted(f) THEN "check" ELSE "over")
  /\ UNCHANGED <<attached, abortMap, aborted, input, config, server, fails, history>>

\* _get_live_record_by_hash(): a record without its file is deleted.
Live(c) == KeysOf(c) \cap record \cap stored
Stale(c) == (KeysOf(c) \cap record) \ stored

\* checkFile() as the server answers it.
CheckServed(f) ==
  /\ up[f].st = "check" /\ record' = record \ Stale(Content(f))
  /\ \/ /\ To(f, "found")
        /\ \E k \in Live(Content(f)) : answer' = [answer EXCEPT ![f] = k]
     \/ Live(Content(f)) = {} /\ To(f, "unknown") /\ UNCHANGED answer
  /\ UNCHANGED <<attached, abortMap, aborted, input, config, stored, refs, outbox,
                 deletes, fails, history>>

\* The file is hashed or checked in vain.
Unchecked(f) ==
  /\ up[f].st \in {"hash", "check"} /\ Fail /\ Request(f)
  /\ UNCHANGED <<attached, aborted, input, config, server, history>>

Unknown(f) ==
  /\ up[f].st = "unknown" /\ Request(f)
  /\ UNCHANGED <<attached, aborted, input, config, server, fails, history>>

\* The attachment becomes the finished one, if it is still there.  Mutant: it
\* is attached again.
Reattached(f) == [attached EXCEPT ![f] = "ready"]
Finished(f) == [attached EXCEPT ![f] = IF @ = "busy" THEN "ready" ELSE @]

Found(f) ==
  /\ up[f].st = "found" /\ To(f, "over")
  /\ IF Mounted(f)
     THEN attached' = Finished(f) /\ abortMap' = abortMap \ {f}
     ELSE UNCHANGED <<attached, abortMap>>
  /\ UNCHANGED <<aborted, input, config, server, fails, history>>

-----------------------------------------------------------------------------
(* The request.                                                            *)

\* The promise is rejected; the attachment goes unless the user aborted or the
\* instance is gone.
Forgotten(f) == abortMap \ {f}

Rejected(f, byAbort) ==
  /\ To(f, "over") /\ abortMap' = Forgotten(f)
  /\ attached' = IF byAbort \/ ~Mounted(f) THEN attached
                 ELSE [attached EXCEPT ![f] = "none"]

\* The flag is looked at when the token is there.  Mutant: it is not.
NeverStopped(f) == FALSE
Stopped(f) == f \in aborted

Token(f) ==
  /\ up[f].st = "token"
  /\ IF Stopped(f) THEN Rejected(f, TRUE)
     ELSE To(f, "xhr") /\ UNCHANGED <<attached, abortMap>>
  /\ UNCHANGED <<aborted, input, config, server, fails, history>>

\* The server finds that it has the file, or stores it under a new key.
Kept(f) ==
  /\ up[f].st = "xhr" /\ To(f, "kept")
  /\ \/ /\ UNCHANGED <<record, stored>>
        /\ \E k \in Live(Content(f)) : answer' = [answer EXCEPT ![f] = k]
     \/ /\ Live(Content(f)) = {}
        /\ record' = (record \ Stale(Content(f))) \cup {NewKey(f)}
        /\ stored' = stored \cup {NewKey(f)}
        /\ answer' = [answer EXCEPT ![f] = NewKey(f)]
  /\ UNCHANGED <<attached, abortMap, aborted, input, config, refs, outbox, deletes,
                 fails, history>>

Done(f) ==
  /\ up[f].st = "kept" /\ To(f, "over")
  /\ IF Mounted(f)
     THEN attached' = Finished(f) /\ abortMap' = abortMap \ {f}
     ELSE UNCHANGED <<attached, abortMap>>
  /\ UNCHANGED <<aborted, input, config, server, fails, history>>

\* A network error, a status that is an error, or a refresh that fails.
UploadFails(f) ==
  /\ up[f].st \in {"xhr", "kept", "refresh"} /\ Fail /\ Rejected(f, FALSE)
  /\ UNCHANGED <<aborted, input, config, server, history>>

\* 401 for the first time: the tokens are refreshed and all begins again.
Unauthorized(f) ==
  /\ up[f].st = "xhr" /\ ~up[f].retried /\ Fail
  /\ up' = [up EXCEPT ![f].st = "refresh", ![f].retried = TRUE]
  /\ UNCHANGED <<attached, abortMap, aborted, input, config, server, history>>

Again(f) ==
  /\ up[f].st = "refresh" /\ To(f, "token")
  /\ UNCHANGED <<attached, abortMap, aborted, input, config, server, fails, history>>

\* Abort functions are called: a request under way ends at once, one that
\* awaits tokens finds the flag later.
Abort(fs) ==
  /\ aborted' = aborted \cup fs
  /\ up' = [f \in Files |-> IF f \in fs /\ up[f].st \in {"xhr", "kept"}
                            THEN [up[f] EXCEPT !.st = "over"] ELSE up[f]]
  /\ abortMap' = abortMap \ fs

-----------------------------------------------------------------------------
(* The user.                                                               *)

\* cancelUpload() of the ChatInput shown, which finds its own uploads only, and
\* those only that were requested.
Cancel(f) ==
  /\ attached[f] = "busy"
  /\ attached' = [attached EXCEPT ![f] = "none"]
  /\ Abort({f} \cap {g \in abortMap : up[g].owner = input})
  /\ early' = IF up[f].st \in Unrequested THEN early \cup {f} ELSE early
  /\ UNCHANGED <<input, config, server, fails, crowded>>

\* handleRemove() of a finished attachment
Remove(f) ==
  /\ attached[f] = "ready"
  /\ attached' = [attached EXCEPT ![f] = "none"]
  /\ deletes' = deletes \cup {<<answer[f], "asked">>}
  /\ UNCHANGED <<up, abortMap, aborted, input, config, record, stored, refs, answer,
                 outbox, fails, history>>

\* handleSubmit(): nothing may be uploading.
Send ==
  /\ Attachments # {} /\ \A f \in Attachments : attached[f] = "ready"
  /\ outbox' = outbox \cup {answer[f] : f \in Attachments}
  /\ attached' = [f \in Files |-> "none"]
  /\ UNCHANGED <<up, abortMap, aborted, input, config, record, stored, refs, answer,
                 deletes, fails, history>>

\* The messages shown become none, or some: ChatInput is another instance.
Remount ==
  /\ input < MaxMounts /\ input' = input + 1
  /\ Abort({f \in abortMap : up[f].owner = input})
  /\ UNCHANGED <<attached, config, server, fails, history>>

-----------------------------------------------------------------------------
(* The server's side of sent and deleted files.                            *)

\* A run starts and its message's files are referenced (add_references()).
RunStarts(k) ==
  /\ k \in outbox /\ outbox' = outbox \ {k}
  /\ refs' = IF k \in record THEN [refs EXCEPT ![k] = @ + 1] ELSE refs
  /\ UNCHANGED <<attaching, input, config, record, stored, answer, deletes, fails, history>>

\* delete_file() reads the reference count, then deletes the file, then its
\* record; without a record it does the same in a task of its own.
Preserved(k) == k \in record /\ refs[k] > 0

\* A request goes from one stage to the next, or ends.
Goes(k, from, to) == deletes' = (deletes \ {<<k, from>>}) \cup ({k} \X to)

DeleteReads(k) ==
  /\ <<k, "asked">> \in deletes
  /\ Goes(k, "asked", IF Preserved(k) THEN {} ELSE {"doomed"})
  /\ UNCHANGED <<attaching, input, config, record, stored, refs, answer, outbox, fails, history>>

DeleteFile(k) ==
  /\ <<k, "doomed">> \in deletes /\ Goes(k, "doomed", {"emptied"})
  /\ stored' = stored \ {k}
  /\ UNCHANGED <<attaching, input, config, record, refs, answer, outbox, fails, history>>

DeleteRecord(k) ==
  /\ <<k, "emptied">> \in deletes /\ Goes(k, "emptied", {})
  /\ record' = record \ {k}
  /\ UNCHANGED <<attaching, input, config, stored, refs, answer, outbox, fails, history>>

-----------------------------------------------------------------------------
Advance(f) ==
  \/ Compressed(f) \/ Hashed(f) \/ CheckServed(f) \/ Unknown(f) \/ Found(f)
  \/ Token(f) \/ Kept(f) \/ Done(f) \/ Again(f)

Mishap(f) == Unchecked(f) \/ UploadFails(f) \/ Unauthorized(f)

Next ==
  \/ \E fs \in SUBSET Files, owner \in {Page, input} : Choose(fs, owner)
  \/ ConfigKnown \/ ConfigFails \/ Send \/ Remount
  \/ \E f \in Files : Advance(f) \/ Mishap(f) \/ Cancel(f) \/ Remove(f)
  \/ \E k \in Keys : RunStarts(k) \/ DeleteReads(k) \/ DeleteFile(k) \/ DeleteRecord(k)

Spec == Init /\ [][Next]_vars

\* Workers, requests and the server go on; the user need not do anything.
FairSpec == Spec /\ \A f \in Files : WF_vars(Advance(f))

-----------------------------------------------------------------------------
(* Properties.                                                             *)

States == {"new", "compress", "over"} \cup Unrequested \cup InTransit

\* Every variable is of its shape; what is sent or deleted was a file once.
TypeOK ==
  /\ attached \in [Files -> {"none", "busy", "ready"}]
  /\ up \in [Files -> [st : States, owner : 0 .. MaxMounts, retried : BOOLEAN]]
  /\ abortMap \subseteq Files /\ aborted \subseteq Files
  /\ input \in 1 .. MaxMounts /\ config \in {"pending", "known", "failed"}
  /\ record \subseteq Keys /\ stored \subseteq Keys /\ refs \in [Keys -> Nat]
  /\ answer \in [Files -> Keys \cup {NoKey}] /\ outbox \subseteq Keys
  /\ deletes \subseteq Keys \X {"asked", "doomed", "emptied"}
  /\ fails \in 0 .. MaxFails /\ crowded \in BOOLEAN /\ early \subseteq Files
  /\ \A f \in Files : up[f].st \in {"found", "kept"} \/ attached[f] = "ready" => answer[f] \in Keys
  /\ \A f \in Files : attached[f] # "none" => up[f].st \notin {"new", "compress"}

\* What the user took away is not being sent: a cancelled upload has stopped,
\* or stops when it has its token, the first one or that of its second try.
\* Two kinds are excepted, since nothing stops them (CancelStops): dropped
\* files, whose abort functions another instance has, and files cancelled
\* while they were hashed or checked, before there was a function to call.
Abortable ==
  \A f \in Files :
    attached[f] = "none" /\ up[f].st \in {"xhr", "kept"} => up[f].owner = Page \/ f \in early

\* An upload that was cancelled is not sent: "Cancel an in-progress upload by
\* attachment id" (useFileUpload.ts:132).
CancelStops == \A f \in Files : attached[f] = "none" => up[f].st \notin {"xhr", "kept"}

\* No more files are attached than the limit allows, by either instance,
\* unless some were accepted too early to be counted.
LimitKept == ~crowded /\ config = "known" => Cardinality(Attachments) <= MaxFiles

\* An attachment that was cancelled, removed or sent does not come back when
\* an answer for it arrives.
GoneForGood ==
  [][\A f \in Files : attached[f] = "none" /\ attached'[f] # "none"
                        => up[f].st \in {"new", "compress"}]_vars

\* An attachment does not stay "uploading", which keeps the message from being
\* sent, as long as the instance that uploads it is there.
UploadEnds ==
  \A f \in Files : attached[f] = "busy" ~> attached[f] # "busy" \/ ~Mounted(f)

\* An attachment shown as ready is there for the server to read: delete
\* requests preserve tracked files "to avoid breaking deduplicated references"
\* (src/api/routes/upload.py:759).  The count is of sent messages only.
ReadyIsStored == \A f \in Files : attached[f] = "ready" => answer[f] \in stored
=============================================================================
