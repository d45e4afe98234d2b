---------------------------- MODULE MessageFold ----------------------------
(***************************************************************************)
(* How the events of one run become the answer on the screen.  The same    *)
(* events are folded twice: one by one while the browser listens           *)
(* (handleStreamEvent), and all at once when the session is opened again   *)
(* (reconstructMessagesFromEvents); both use processMessageEvent.  The     *)
(* answer is a list of parts; what a subagent says goes into its block,    *)
(* which is found by depth, agent id and by still being pending.           *)
(*                                                                         *)
(* Abstracted: a chunk of text is the number of its event; names, times,   *)
(* token counts, error texts, attachments and recommended questions are    *)
(* left out.  Every tool call has an id (the backend always sends one), so *)
(* the matching of calls by name is left out too.  Delivery is exact and   *)
(* in order here: AgentStream has the connection.                          *)
(***************************************************************************)
EXTENDS Naturals, Sequences, SequencesExt, FiniteSets

CONSTANTS Agents,      \* subagent instances a run may start
          Calls,       \* tool calls a run may make
          None,        \* no agent, no id, no result
          MaxEvents,   \* bound: events of the run
          MaxCancels,  \* bound: cancel requests the backend records
          MaxMurmurs,  \* bound: events that name no known agent
          MaxUpsets    \* bound: clicks on Stop and loads of the session

ASSUME FoldAssumption == {MaxEvents, MaxCancels, MaxMurmurs, MaxUpsets} \subseteq Nat

VARIABLES log,     \* the events of the run, in the order they are stored
          past,    \* what a page that opens the session now makes of the log
          shown,   \* the answer on the screen: [parts, cancelled]
          stack,   \* activeSubagentStack, shared by both folds
          view,    \* "live" until a terminal event, "closed" after it, "loaded" if opened later
          upsets,  \* Stops and loads so far
          cut      \* history: Stop ended something on the screen that the run still does

vars == <<log, past, shown, stack, view, upsets, cut>>

-----------------------------------------------------------------------------
(* Parts.  Every part is one record; a kind uses the fields it needs.      *)

Blank == [kind |-> "text", id |-> None, agent |-> None, depth |-> 0, chunks |-> <<>>,
          streaming |-> FALSE, pending |-> FALSE, status |-> "none", result |-> <<>>,
          parts |-> <<>>]

\* The parts with one operator applied to each.
Each(parts, Op(_)) == [i \in DOMAIN parts |-> Op(parts[i])] \o <<>>

CancelledMark == [Blank EXCEPT !.kind = "cancelled"]

\* The part an event creates when there is none to grow.
PartOf(e, live) ==
  LET new == [Blank EXCEPT !.id = e.id, !.agent = e.agent, !.depth = e.depth]
  IN CASE e.type = "message:chunk" -> [new EXCEPT !.chunks = <<e.n>>]
       [] e.type = "thinking"      -> [new EXCEPT !.kind = "thinking", !.chunks = <<e.n>>, !.streaming = live]
       [] e.type = "summary"       -> [new EXCEPT !.kind = "summary", !.chunks = <<e.n>>, !.streaming = live]
       [] e.type = "todo:updated"  -> [new EXCEPT !.kind = "todo", !.status = e.id, !.streaming = live]
       [] e.type = "tool:start"    -> [new EXCEPT !.kind = "tool", !.pending = TRUE]
       [] e.type = "agent:call"    -> [new EXCEPT !.kind = "subagent", !.pending = TRUE, !.status = "running"]

\* Where in parts a new part is merged: 0 if it becomes a part of its own.
MergeAt(parts, part) ==
  CASE part.kind = "text" -> IF parts # <<>> /\ Last(parts).kind = "text" THEN Len(parts) ELSE 0
    [] part.kind \in {"thinking", "summary"} ->
         SelectLastInSeq(parts, LAMBDA p : p.kind = part.kind /\ p.id = part.id)
    [] part.kind = "todo" -> SelectInSeq(parts, LAMBDA p : p.kind = "todo")
    [] OTHER -> 0

Grown(p, part) ==
  IF part.kind = "todo" THEN part
  ELSE [p EXCEPT !.chunks = @ \o part.chunks,
                 !.streaming = @ \/ part.streaming \/ part.kind = "thinking"]

Overwritten(parts, part) ==   \* altered MergeOrAppend: the new chunk takes the place of the old
  LET i == MergeAt(parts, part)
  IN IF i = 0 THEN Append(parts, part) ELSE [parts EXCEPT ![i] = part]

MergeOrAppend(parts, part) ==
  LET i == MergeAt(parts, part)
  IN IF i = 0 THEN Append(parts, part) ELSE [parts EXCEPT ![i] = Grown(@, part)]

-----------------------------------------------------------------------------
(* Blocks.                                                                 *)

\* Whether p, or a block inside it, takes a part of the given agent and depth;
\* a pending block of that depth and another agent is passed by, inside and all.
TakesAny(p, part, agent) ==   \* altered Takes: the agent is not looked at
  p.kind = "subagent" /\ p.depth = part.depth /\ p.pending

Takes(p, part, agent) ==
  p.kind = "subagent" /\ p.depth = part.depth /\ p.pending /\ agent \in {None, p.agent}

RECURSIVE Reaches(_, _, _)
Reaches(p, part, agent) ==
  \/ Takes(p, part, agent)
  \/ /\ p.kind = "subagent" /\ ~(p.depth = part.depth /\ p.pending)
     /\ \E i \in DOMAIN p.parts : Reaches(p.parts[i], part, agent)

RECURSIVE AddInside(_, _, _)
AddInside(parts, part, agent) ==
  LET i == SelectLastInSeq(parts, LAMBDA p : Reaches(p, part, agent))
  IN [parts EXCEPT ![i].parts = IF Takes(parts[i], part, agent) THEN MergeOrAppend(@, part)
                                ELSE AddInside(@, part, agent)]

\* An event that names no agent goes to the last one called at its depth or above.
AgentFor(part, calls) ==
  LET i == SelectLastInSeq(calls, LAMBDA c : c.depth \in {part.depth, part.depth - 1})
  IN IF part.agent = None /\ i # 0 THEN calls[i].agent ELSE part.agent

\* Without a block to take it, a part lands on the top level.
AddToDepth(parts, part, calls) ==
  LET agent == AgentFor(part, calls)
  IN IF \E i \in DOMAIN parts : Reaches(parts[i], part, agent) THEN AddInside(parts, part, agent)
     ELSE IF part.kind \in {"thinking", "text"} THEN MergeOrAppend(parts, part)
     ELSE Append(parts, part)

\* The top level merges as a block does, but text only with text of the run
\* itself, and a thought of the history stays as still as it was.
AddOnTop(parts, part, live) ==
  LET i == MergeAt(parts, part)
  IN CASE i = 0 \/ (part.kind = "text" /\ parts[i].depth # 0) -> Append(parts, part)
       [] i # 0 /\ part.kind = "todo" ->
            Each(parts, LAMBDA p : IF p.kind = "todo" THEN part ELSE p)
       [] OTHER -> [parts EXCEPT ![i] = [@ EXCEPT !.chunks = @ \o part.chunks,
                                             !.streaming = @ \/ (part.kind = "thinking" /\ live)]]

RECURSIVE EndsIn(_, _)
EndsIn(p, e) ==   \* the block that agent:result closes is p or is in it
  p.kind = "subagent" /\ (\/ p.agent = e.agent /\ p.depth = e.depth /\ p.pending
                          \/ \E i \in DOMAIN p.parts : EndsIn(p.parts[i], e))

RECURSIVE CloseBlock(_, _)
CloseBlock(parts, e) ==
  LET i == SelectLastInSeq(parts, LAMBDA p : EndsIn(p, e))
  IN IF i = 0 THEN parts
     ELSE [parts EXCEPT ![i] = IF @.agent = e.agent /\ @.depth = e.depth /\ @.pending
                               THEN [@ EXCEPT !.pending = FALSE, !.status = e.id, !.result = <<e.n>>]
                               ELSE [@ EXCEPT !.parts = CloseBlock(@, e)]]

WaitsFor(p, e) == p.kind = "tool" /\ p.id = e.id /\ p.pending
Answered(p, e) == [p EXCEPT !.pending = FALSE, !.result = <<e.n>>]

RECURSIVE HasCall(_, _)
HasCall(p, e) == \/ WaitsFor(p, e)
                 \/ p.kind = "subagent" /\ \E i \in DOMAIN p.parts : HasCall(p.parts[i], e)

RECURSIVE AnswerInside(_, _)
AnswerInside(parts, e) ==
  LET i == SelectInSeq(parts, LAMBDA p : HasCall(p, e))
  IN [parts EXCEPT ![i] = IF WaitsFor(@, e) THEN Answered(@, e)
                          ELSE [@ EXCEPT !.parts = AnswerInside(@, e)]]

\* updateToolResultInDepth: the calls of the top level, then the blocks of the agent.
ToolAnswered(parts, e) ==
  LET top == SelectLastInSeq(parts, LAMBDA p : WaitsFor(p, e))
      in  == SelectLastInSeq(parts, LAMBDA p : /\ p.kind = "subagent" /\ e.agent \in {None, p.agent}
                                               /\ HasCall(p, e))
  IN CASE top # 0 -> [parts EXCEPT ![top] = Answered(@, e)]
       [] top = 0 /\ in # 0 -> [parts EXCEPT ![in].parts = AnswerInside(@, e)]
       [] OTHER -> parts

\* The one sandbox part changes its status.
SandboxSet(parts, status) ==
  LET new == [Blank EXCEPT !.kind = "sandbox", !.status = status]
  IN IF \E i \in DOMAIN parts : parts[i].kind = "sandbox"
     THEN Each(parts, LAMBDA p : IF p.kind = "sandbox" THEN new ELSE p)
     ELSE Append(parts, new)

\* altered Cleared: blocks are ended, what is in them is not
ClearedOnTop(parts) ==
  Each(parts, LAMBDA p : IF p.kind = "todo" THEN [p EXCEPT !.streaming = FALSE, !.status = "cancelled"]
                         ELSE [p EXCEPT !.pending = FALSE, !.streaming = FALSE])

\* clearAllLoadingStates: nothing waits, nothing streams any more.
RECURSIVE Cleared(_)
Cleared(parts) ==
  Each(parts, LAMBDA p :
    CASE p.kind = "tool" /\ p.pending -> [p EXCEPT !.pending = FALSE, !.status = "cancelled"]
      [] p.kind = "thinking" -> [p EXCEPT !.streaming = FALSE]
      [] p.kind = "subagent" -> [p EXCEPT !.pending = FALSE, !.parts = Cleared(@),
                                   !.status = IF @ \in {"complete", "error"} THEN @ ELSE "cancelled"]
      [] p.kind = "todo" -> [p EXCEPT !.streaming = FALSE,
                               !.status = IF @ = "open" THEN "cancelled" ELSE @]
      [] p.kind = "sandbox" /\ p.status = "starting" -> [p EXCEPT !.status = "cancelled"]
      [] OTHER -> p)

-----------------------------------------------------------------------------
(* processMessageEvent and its two callers.                                *)

Processed(parts, e, calls, live) ==
  CASE e.type = "agent:result" -> CloseBlock(parts, e)
    [] e.type = "tool:result"  -> ToolAnswered(parts, e)
    [] e.type = "sandbox"      -> SandboxSet(parts, e.id)
    [] e.type = "error"        -> IF live THEN Cleared(parts) ELSE parts
    [] OTHER -> IF e.depth > 0 THEN AddToDepth(parts, PartOf(e, live), calls)
                ELSE AddOnTop(parts, PartOf(e, live), live)

\* altered Pushed: every event is pushed
PushedAll(calls, e) == Append(calls, [agent |-> e.agent, depth |-> e.depth])

\* The call is pushed before the event is processed and popped after it.
Pushed(calls, e) ==
  IF e.type = "agent:call" THEN Append(calls, [agent |-> e.agent, depth |-> e.depth]) ELSE calls

Popped(calls, e) ==
  LET i == SelectInSeq(calls, LAMBDA c : c.agent = e.agent)
  IN IF e.type = "agent:result" /\ i # 0 THEN RemoveAt(calls, i) ELSE calls

\* altered Streamed: a cancel leaves the blocks open
StreamedOn(m, e, calls) ==
  CASE e.type = "user:cancel" -> [parts |-> Append(m.parts, CancelledMark), cancelled |-> TRUE]
    [] e.type = "done" -> [m EXCEPT !.parts = Cleared(@)]
    [] OTHER -> [parts |-> Processed(m.parts, e, Pushed(calls, e), TRUE), cancelled |-> m.cancelled]

\* handleStreamEvent: one event of the stream on the message m.
Streamed(m, e, calls) ==
  CASE e.type = "user:cancel" ->
         LET clear == Cleared(m.parts)
         IN [parts |-> IF \E i \in DOMAIN clear : clear[i].kind = "cancelled" THEN clear
                       ELSE Append(clear, CancelledMark),
             cancelled |-> TRUE]
    [] e.type = "done" -> [m EXCEPT !.parts = Cleared(@)]
    [] OTHER -> [parts |-> Processed(m.parts, e, Pushed(calls, e), TRUE),
                 cancelled |-> m.cancelled \/ (e.type = "error" /\ e.id = "cancelled")]

\* reconstructMessagesFromEvents: the messages so far, whether the last of
\* them is still being built, and the stack.
NoHistory(calls) == [msgs |-> <<>>, building |-> FALSE, calls |-> calls]

WithResults(parts) ==   \* cancelled calls of the top level get a result to display
  Each(parts, LAMBDA p : IF p.kind = "tool" /\ p.status = "cancelled" /\ p.result = <<>>
                         THEN [p EXCEPT !.result = <<0>>] ELSE p)

EmptyMessage == [parts |-> <<>>, cancelled |-> FALSE]

Replayed(h, e) ==
  LET fresh == h.msgs = <<>> \/ (e.type = "user:cancel" /\ ~h.building)
      msgs  == IF fresh THEN Append(h.msgs, EmptyMessage) ELSE h.msgs
      m     == Last(msgs)
      calls == Pushed(h.calls, e)
  IN CASE e.type = "done" -> h
       [] e.type = "error" /\ e.id = "cancelled" /\ h.msgs = <<>> -> h
       [] e.type = "user:cancel" ->
            [h EXCEPT !.building = FALSE,
                      !.msgs = Append(Front(msgs),
                                 [parts |-> Append(WithResults(Cleared(m.parts)), CancelledMark),
                                  cancelled |-> ~fresh])]
       [] OTHER ->
            [msgs |-> Append(Front(msgs),
                        [parts |-> Processed(m.parts, e, calls, FALSE),
                         cancelled |-> m.cancelled \/ (e.type = "error" /\ e.id = "cancelled")]),
             building |-> h.building \/ fresh,
             calls |-> Popped(calls, e)]

History(calls) == FoldLeft(Replayed, NoHistory(calls), log)

\* The message a load shows: prepareMessagesForRunningRun adds an empty one
\* for a run of which nothing is stored yet.
Loaded(h) == IF h.msgs = <<>> THEN EmptyMessage ELSE Last(h.msgs)

-----------------------------------------------------------------------------
(* The run, as the backend reports it (external), and the browser.         *)

Event(type, agent, depth, id) ==
  [type |-> type, agent |-> agent, depth |-> depth, id |-> id, n |-> Len(log) + 1]

Sent(type) == {log[i] : i \in {k \in DOMAIN log : log[k].type = type}}

\* Subagents that work, at the given depth of their call.
Working(d) == {e.agent : e \in {c \in Sent("agent:call") : c.depth = d}}
              \ {e.agent : e \in Sent("agent:result")}

Speakers == {None} \cup Working(1)   \* a nested subagent speaks under its caller's id

DepthOf(a) == IF a = None THEN 0 ELSE 1

Ended == Sent("done") # {}

\* What one event does to the log and, while the stream is read, to the
\* screen; after a terminal event the stream is closed.
Report(e) ==
  /\ Len(log) < MaxEvents
  /\ log' = Append(log, e)
  /\ past' = Replayed(past, e)
  /\ IF view = "live"
       THEN /\ shown' = Streamed(shown, e, stack)
            /\ stack' = Popped(Pushed(stack, e), e)
            /\ view' = IF e.type \in {"done", "error"} THEN "closed" ELSE "live"
       ELSE UNCHANGED <<shown, stack, view>>
  /\ UNCHANGED <<upsets, cut>>

Says == \E a \in Speakers, type \in {"message:chunk", "thinking", "summary"} :
          Report(Event(type, a, DepthOf(a), a))   \* the id of its message: one per speaker

\* A plan starts with something to do.
Plans == \E a \in Speakers, status \in {"open", "settled"} :
           /\ status = "settled" => \E e \in Sent("todo:updated") : e.agent = a
           /\ Report(Event("todo:updated", a, DepthOf(a), status))

\* Something below the graph that is not one of the known subagents.
Murmurs == /\ Cardinality({e \in Sent("message:chunk") : e.depth > 0 /\ e.agent = None}) < MaxMurmurs
           /\ Report(Event("message:chunk", None, 1, None))

CallsTool == \E a \in Speakers, c \in Calls \ {e.id : e \in Sent("tool:start")} :
               Report(Event("tool:start", a, DepthOf(a), c))

ToolReturns ==
  \E e \in Sent("tool:start") :
    /\ e.id \notin {r.id : r \in Sent("tool:result")} /\ e.agent \in Speakers
    /\ Report(Event("tool:result", e.agent, e.depth, e.id))

\* A subagent is started by the run (depth 1) or by a subagent (depth 2).
CallsAgent ==
  \E a \in Agents \ {e.agent : e \in Sent("agent:call")}, d \in 1 .. 2 :
    /\ d = 2 => Working(1) # {}
    /\ Report(Event("agent:call", a, d, None))

AgentReturns ==
  \E d \in 1 .. 2, a \in Agents, status \in {"complete", "error"} :
    a \in Working(d) /\ Report(Event("agent:result", a, d, status))

\* The sandbox is started before anything else is reported.
Sandbox ==
  \E status \in {"starting", "ready", "error"} :
    /\ IF status = "starting" THEN log = <<>>
       ELSE {e.id : e \in Sent("sandbox")} = {"starting"}
    /\ Report(Event("sandbox", None, 0, status))

\* The API records a cancel; the run notices it later.
Cancelled == /\ Cardinality(Sent("user:cancel")) < MaxCancels
             /\ Report(Event("user:cancel", None, 0, None))

Fails == Sent("error") = {} /\ Report(Event("error", None, 0, "failed"))

Ends == Report(Event("done", None, 0, None))

\* A run that was cancelled reports it after its end.
EndsCancelled == Ended /\ Sent("error") = {} /\ Report(Event("error", None, 0, "cancelled"))

Run == \/ ~Ended /\ Sent("error") = {} /\ (Says \/ Plans \/ Murmurs \/ CallsTool \/ ToolReturns
                                           \/ CallsAgent \/ AgentReturns \/ Sandbox \/ Cancelled)
       \/ ~Ended /\ (Fails \/ Ends)
       \/ EndsCancelled

\* The kinds of the parts, at any depth, that are shown as under way.
RECURSIVE Spinning(_)
Spinning(parts) ==
  UNION {LET p == parts[i]
         IN Spinning(p.parts) \cup (IF p.pending \/ p.streaming \/ p.status \in {"starting", "running", "open"}
                                   THEN {p.kind} ELSE {}) : i \in DOMAIN parts}

\* stopGeneration: the screen is quiet at once, the backend is asked to stop.
Stop ==
  /\ upsets < MaxUpsets /\ view = "live"
  /\ shown' = [shown EXCEPT !.parts = Cleared(@)]
  /\ upsets' = upsets + 1
  /\ cut' = (cut \/ Spinning(shown.parts) # {})
  /\ UNCHANGED <<log, past, stack, view>>

\* loadHistory: the events stored so far are folded; the stack is not emptied.
\* The stream is read again if the run is still said to be running, which a
\* cancel ends before the last events are stored.
Load ==
  /\ upsets < MaxUpsets
  /\ shown' = Loaded(History(stack)) /\ stack' = History(stack).calls
  /\ view' \in CASE Ended \/ Sent("error") # {} -> {"loaded"}
                  [] Sent("error") = {} /\ ~Ended /\ Sent("user:cancel") # {} -> {"live", "loaded"}
                  [] OTHER -> {"live"}
  /\ upsets' = upsets + 1
  /\ cut' = FALSE
  /\ UNCHANGED <<log, past>>

Init == /\ log = <<>> /\ past = NoHistory(<<>>) /\ shown = EmptyMessage /\ stack = <<>> /\ view = "live"
        /\ upsets = 0 /\ cut = FALSE

Next == Run \/ Stop \/ Load

Spec == Init /\ [][Next]_vars

-----------------------------------------------------------------------------
(* Properties.                                                             *)

PastParts == Loaded(past).parts

\* The views the events of the run have reached one by one.
Following == view \in {"live", "closed"}

\* Everything a tree of parts says, in the order of the screen.
RECURSIVE Chunks(_)
Chunks(parts) ==
  FlattenSeq([i \in DOMAIN parts |-> parts[i].chunks \o Chunks(parts[i].parts)])

Spoken == {e.n : e \in UNION {Sent(t) : t \in {"message:chunk", "thinking", "summary"}}}

RECURSIVE Kinds(_)
Kinds(parts) == UNION {{parts[i].kind} \cup Kinds(parts[i].parts) : i \in DOMAIN parts}

\* The log is numbered; the message is made of known kinds of parts, and no
\* part holds an event that is not in the log.
TypeOK ==
  /\ Len(log) <= MaxEvents /\ \A i \in DOMAIN log : log[i].n = i
  /\ shown.cancelled \in BOOLEAN
  /\ Kinds(shown.parts) \subseteq {"text", "thinking", "summary", "tool", "todo", "subagent",
                                   "sandbox", "cancelled"}
  /\ ToSet(Chunks(shown.parts)) \subseteq DOMAIN log
  /\ \A i \in DOMAIN stack : stack[i] \in [agent : Agents, depth : 1 .. 2]
  /\ view \in {"live", "closed", "loaded"}
  /\ upsets \in 0 .. MaxUpsets /\ cut \in BOOLEAN

\* Nothing the run says is lost or told twice, on the screen or when the
\* session is opened again, wherever a Stop, a cancel, a reload or a subagent
\* that was just closed makes it land (addPartToDepth's fallback).
Once(parts) ==
  LET all == Chunks(parts) IN Len(all) = Cardinality(Spoken) /\ ToSet(all) = Spoken
NothingLost == Once(PastParts) /\ (Following => Once(shown.parts))

\* While nobody cancels, what a speaker says stays together and in order, in
\* its own block (at the top level for the run itself), and every result is at
\* the call it answers, though several subagents speak at once.
Place(parts, a) ==
  LET i == SelectInSeq(parts, LAMBDA p : p.kind = "subagent" /\ p.agent = a)
  IN CASE a = None -> parts [] a # None /\ i = 0 -> <<>> [] OTHER -> parts[i].parts
TextOf(parts) ==
  FlattenSeq([i \in DOMAIN parts |-> IF parts[i].kind = "text" THEN parts[i].chunks ELSE <<>>])
By(a, n) == log[n].agent = a /\ log[n].depth = DepthOf(a)
Placed(parts) ==
  /\ \A a \in {None} \cup {e.agent : e \in {c \in Sent("agent:call") : c.depth = 1}} :
       SelectSeq(TextOf(Place(parts, a)), LAMBDA n : By(a, n))
         = SelectSeq([i \in DOMAIN log |-> i], LAMBDA n : log[n].type = "message:chunk" /\ By(a, n))
  /\ \A r \in Sent("tool:result") :
       LET there == Place(parts, r.agent)
       IN \E i \in DOMAIN there : there[i].kind = "tool" /\ there[i].id = r.id /\ there[i].result = <<r.n>>
InPlace ==
  Sent("user:cancel") = {} => Placed(PastParts) /\ (Following /\ ~cut => Placed(shown.parts))

\* What a tree tells, without what only says that something is under way.
RECURSIVE Told(_)
Told(parts) ==
  Each(parts, LAMBDA p :
    [p EXCEPT !.streaming = FALSE, !.pending = FALSE, !.parts = Told(@),
              !.status = IF @ \in {"complete", "error", "ready", "settled"} THEN @ ELSE "none",
              !.result = IF @ = <<0>> THEN <<>> ELSE @])

\* Opening the session again shows the answer that was on the screen: the two
\* folds agree after every event, and a reload in the middle of the run
\* changes nothing that comes later.  Not so after a Stop that ended something
\* the run goes on with, nor for events that name no agent.
ReloadSame ==
  Following /\ ~cut /\ (\A i \in DOMAIN log : log[i].depth > 0 => log[i].agent # None) =>
    Told(shown.parts) = Told(PastParts)

\* Once the stream has ended nothing on the screen waits or streams, at any
\* depth, whatever the run left unanswered, except a summary (see AllSettled).
Settled == view = "closed" => Spinning(shown.parts) \subseteq {"summary"}

\* Nor does a summary: clearAllLoadingStates says of itself that it clears all
\* loading states recursively.  The code has no case for a summary, whose
\* isStreaming stays true, so this does not hold.
AllSettled == view = "closed" => Spinning(shown.parts) = {}
=============================================================================
