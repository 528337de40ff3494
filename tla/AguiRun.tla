------------------------------ MODULE AguiRun ------------------------------
(***************************************************************************)
(* One streamed assistant answer: the AG-UI events a Writer appends to a   *)
(* Run, the check ValidateEventSequence makes of them, and the projections *)
(* a client is shown (the messages, the parts of the final edit, the text  *)
(* of its body and whether they fit in one Matrix event).                  *)
(*                                                                         *)
(* A run and the writer at work on it are one record.  An event has a      *)
(* type, the id it is about and a value.  The n-th text message of the run *)
(* has the id n (0 is the run's own message id), and so has the n-th       *)
(* reasoning message; a tool call's id is a member of Calls.  A delta is a *)
(* token: its number among the deltas of the run.  Usage, timestamps,      *)
(* steps, activities, documents and files have no part in the properties.  *)
(***************************************************************************)
EXTENDS Integers, Sequences, FiniteSets, SequencesExt

CONSTANTS Budget   \* what one Matrix event can hold, in tokens and parts

Ev(type, id, value) == [type |-> type, id |-> id, value |-> value]

ReasoningTypes == {"REASONING_START", "REASONING_END", "REASONING_MESSAGE_START",
                   "REASONING_MESSAGE_CONTENT", "REASONING_MESSAGE_END"}
NeutralTypes   == {"MESSAGES_SNAPSHOT", "CUSTOM"}
ToolTypes      == {"TOOL_CALL_START", "TOOL_CALL_ARGS", "TOOL_CALL_END", "TOOL_CALL_RESULT"}
ActivityTypes  == ReasoningTypes \cup ToolTypes
TextTypes      == {"TEXT_MESSAGE_START", "TEXT_MESSAGE_CONTENT", "TEXT_MESSAGE_END"}

-----------------------------------------------------------------------------
(* What ValidateEventSequence refuses, as the set of its complaints. *)

Complaint(st, e) ==
  {c \in {"after terminal", "terminal while open", "unopened", "opened twice", "ended twice"} :
     \/ c = "after terminal" /\ st.terminal
     \/ c = "terminal while open" /\ e.type \in {"RUN_FINISHED", "RUN_ERROR"} /\ st.open # {}
     \/ c = "opened twice"
          /\ \/ e.type = "RUN_STARTED" /\ st.started
             \/ e.type = "TEXT_MESSAGE_START"      /\ <<"text", e.id>> \in st.open
             \/ e.type = "REASONING_START"         /\ <<"phase", 0>> \in st.open
             \/ e.type = "REASONING_MESSAGE_START" /\ <<"reasoning", e.id>> \in st.open
             \/ e.type = "TOOL_CALL_START"         /\ e.id \in st.tools
     \/ c = "unopened"
          /\ \/ e.type = "RUN_FINISHED" /\ ~st.started
             \/ e.type \in {"TEXT_MESSAGE_CONTENT", "TEXT_MESSAGE_END"}
                  /\ <<"text", e.id>> \notin st.open
             \/ e.type = "REASONING_END" /\ <<"phase", 0>> \notin st.open
             \/ e.type \in {"REASONING_MESSAGE_CONTENT", "REASONING_MESSAGE_END"}
                  /\ <<"reasoning", e.id>> \notin st.open
             \/ e.type \in ToolTypes \ {"TOOL_CALL_START"} /\ e.id \notin st.tools
     \/ c = "ended twice" /\ e.type = "TOOL_CALL_END" /\ e.id \in st.ended}

Validated(st, e) ==
  [started  |-> st.started \/ e.type = "RUN_STARTED",
   terminal |-> st.terminal \/ e.type \in {"RUN_FINISHED", "RUN_ERROR"},
   open     |-> CASE e.type = "TEXT_MESSAGE_START"      -> st.open \cup {<<"text", e.id>>}
                  [] e.type = "TEXT_MESSAGE_END"        -> st.open \ {<<"text", e.id>>}
                  [] e.type = "REASONING_START"         -> st.open \cup {<<"phase", 0>>}
                  [] e.type = "REASONING_END"           -> st.open \ {<<"phase", 0>>}
                  [] e.type = "REASONING_MESSAGE_START" -> st.open \cup {<<"reasoning", e.id>>}
                  [] e.type = "REASONING_MESSAGE_END"   -> st.open \ {<<"reasoning", e.id>>}
                  [] OTHER                              -> st.open,
   tools    |-> IF e.type = "TOOL_CALL_START" THEN st.tools \cup {e.id} ELSE st.tools,
   ended    |-> IF e.type = "TOOL_CALL_END" THEN st.ended \cup {e.id} ELSE st.ended,
   wrong    |-> st.wrong \cup Complaint(st, e)]

ValidateEventSequence(events) ==
  FoldLeft(Validated, [started |-> FALSE, terminal |-> FALSE, open |-> {}, tools |-> {},
                       ended |-> {}, wrong |-> {}], events).wrong

-----------------------------------------------------------------------------
(* Messages: the latest snapshot if there is one, otherwise the messages   *)
(* the events spell, in the order of their first event.                    *)

Merge(acc, role, id, content, calls) ==
  LET i == SelectInSeq(acc, LAMBDA m : m.role = role /\ m.id = id)
  IN  IF i = 0
      THEN Append(acc, [role |-> role, id |-> id, content |-> content, calls |-> calls])
      ELSE [acc EXCEPT ![i].content = @ \o content, ![i].calls = @ \cup calls]

Projected(acc, e) ==
  CASE e.type = "TEXT_MESSAGE_START"        -> Merge(acc, "assistant", e.id, <<>>, {})
    [] e.type = "TEXT_MESSAGE_CONTENT"      -> Merge(acc, "assistant", e.id, <<e.value>>, {})
    [] e.type = "REASONING_MESSAGE_CONTENT" -> Merge(acc, "reasoning", e.id, <<e.value>>, {})
    [] e.type = "TOOL_CALL_START"           -> Merge(acc, "assistant", e.value, <<>>, {e.id})
    [] e.type = "TOOL_CALL_RESULT"          -> Merge(acc, "tool", e.id, <<e.value>>, {})
    [] OTHER                                -> acc

Snapshots(events) == SelectSeq(events, LAMBDA e : e.type = "MESSAGES_SNAPSHOT")

Messages(events) ==
  IF Snapshots(events) # <<>> /\ Last(Snapshots(events)).value # <<>>
  THEN Last(Snapshots(events)).value
  ELSE SelectSeq(FoldLeft(Projected, <<>>, events),
                 LAMBDA m : m.content # <<>> \/ m.calls # {})

Text(events) ==
  FoldLeft(LAMBDA text, m : IF m.role = "assistant" THEN text \o m.content ELSE text,
           <<>>, Messages(events))

-----------------------------------------------------------------------------
(* The writer. *)

\* A run as NewRun makes it, before a writer touches it.
NewRun ==
  [events |-> <<>>, status |-> "streaming", interrupts |-> {}, approvals |-> <<>>,
   preview |-> <<>>, textOffset |-> 0, reasoningOffset |-> 0, current |-> 0, written |-> FALSE,
   textOpen |-> {}, reasoningOpen |-> {}, phaseOpen |-> FALSE, content |-> <<>>]

NextOrdinal(events, types) ==
  1 + Max({-1} \cup {events[i].id : i \in {j \in DOMAIN events : events[j].type \in types}})

\* Another writer on the same run numbers its messages after those of the last.
NewWriter(s) ==
  LET text == NextOrdinal(s.events, TextTypes)
  IN  [s EXCEPT !.textOffset = text, !.current = text, !.written = FALSE, !.textOpen = {},
                !.reasoningOffset =
                   NextOrdinal(s.events, {"REASONING_MESSAGE_START", "REASONING_MESSAGE_CONTENT",
                                          "REASONING_MESSAGE_END"}),
                !.reasoningOpen = {}, !.phaseOpen = FALSE, !.content = <<>>]

Add(s, e) ==
  [s EXCEPT !.events = Append(@, e),
            !.preview = IF e.type = "TEXT_MESSAGE_CONTENT" THEN Append(@, e.value) ELSE @]

Start(s) == Add(s, Ev("RUN_STARTED", 0, 0))

OpenText(s, id) ==
  IF id \in s.textOpen THEN s
  ELSE [Add(s, Ev("TEXT_MESSAGE_START", id, 0)) EXCEPT !.textOpen = @ \cup {id}]

TextStart(s, index) ==
  [OpenText(s, s.textOffset + index) EXCEPT !.current = s.textOffset + index]

TextDelta(s, index, token) ==
  [Add(TextStart(s, index), Ev("TEXT_MESSAGE_CONTENT", s.textOffset + index, token))
     EXCEPT !.written = TRUE]

CloseText(s, id) ==
  IF id \notin s.textOpen THEN s
  ELSE [Add(s, Ev("TEXT_MESSAGE_END", id, 0)) EXCEPT !.textOpen = @ \ {id}]

TextEnd(s, index) == CloseText(s, s.textOffset + index)

OpenPhase(s) ==
  IF s.phaseOpen THEN s
  ELSE [Add(s, Ev("REASONING_START", 0, 0)) EXCEPT !.phaseOpen = TRUE]

\* Reasoning belongs to the current text message, which it opens if need be.
ReasoningMessageStart(s, index) ==
  LET id == s.reasoningOffset + index
      t  == OpenPhase(OpenText(s, s.current))
  IN  IF id \in t.reasoningOpen THEN t
      ELSE [Add(t, Ev("REASONING_MESSAGE_START", id, 0)) EXCEPT !.reasoningOpen = @ \cup {id}]

\* What the deltas of a block have said so far, by its index.
ReasoningContent(s, index) == IF index \in DOMAIN s.content THEN s.content[index] ELSE <<>>

ReasoningDelta(s, index, token) ==
  [Add(ReasoningMessageStart(s, index),
       Ev("REASONING_MESSAGE_CONTENT", s.reasoningOffset + index, token))
     EXCEPT !.content = [i \in DOMAIN @ \cup {index} |->
                           IF i = index THEN Append(ReasoningContent(s, index), token) ELSE @[i]]]

\* Mutant: what is repeated is appended as a whole.
ReasoningContentSnapshotWhole(s, index, content) ==
  FoldLeft(LAMBDA t, token : ReasoningDelta(t, index, token), s, content)

\* The provider repeats the whole content of a block at its end: what the
\* deltas left out is appended, anything else is ignored.
ReasoningContentSnapshot(s, index, content) ==
  LET had == ReasoningContent(s, index)
  IN  IF content # <<>> /\ content # had /\ IsPrefix(had, content)
      THEN FoldLeft(LAMBDA t, token : ReasoningDelta(t, index, token), s,
                    SubSeq(content, Len(had) + 1, Len(content)))
      ELSE s

CloseReasoning(s, id) ==
  IF id \notin s.reasoningOpen THEN s
  ELSE [Add(s, Ev("REASONING_MESSAGE_END", id, 0)) EXCEPT !.reasoningOpen = @ \ {id}]

ReasoningMessageEnd(s, index) == CloseReasoning(s, s.reasoningOffset + index)

ToolStart(s, call)         == Add(s, Ev("TOOL_CALL_START", call, s.current))
ToolArgs(s, call)          == Add(s, Ev("TOOL_CALL_ARGS", call, 0))
ToolInputComplete(s, call) == Add(s, Ev("TOOL_CALL_END", call, 0))
ToolResult(s, call, state) == Add(s, Ev("TOOL_CALL_RESULT", call, state))
ToolEnd(s, call, state)    == ToolResult(ToolInputComplete(s, call), call, state)
Custom(s, source)          == Add(s, Ev("CUSTOM", source, 0))

\* The order in which what is open is closed; what is not is passed over.
Ascending(ids) == [n \in 1..(1 + Max({-1} \cup ids)) |-> n - 1]

FinishReasoning(s) ==
  LET t == FoldLeft(CloseReasoning, s, Ascending(s.reasoningOpen))
  IN  IF t.phaseOpen
      THEN [Add(t, Ev("REASONING_END", 0, 0)) EXCEPT !.phaseOpen = FALSE]
      ELSE t

FinishText(s) == FoldLeft(CloseText, s, Ascending(s.textOpen))

AddFinalSnapshot(s) == Add(s, Ev("MESSAGES_SNAPSHOT", 0, Messages(s.events)))

Finish(s) ==
  Add(AddFinalSnapshot([FinishText(FinishReasoning(s)) EXCEPT !.status = "complete"]),
      Ev("RUN_FINISHED", 0, {}))

\* Mutant: the messages of the turn are left open.
AwaitToolUseOpen(s) == [s EXCEPT !.status = "streaming"]

AwaitToolUse(s) == [FinishText(FinishReasoning(s)) EXCEPT !.status = "streaming"]

InterruptWithUsage(s) ==
  IF s.interrupts = {} THEN Finish(s)
  ELSE Add(AddFinalSnapshot([FinishText(FinishReasoning(s)) EXCEPT !.status = "interrupted"]),
           Ev("RUN_FINISHED", 0, s.interrupts))

\* A run that fails before any text shows the error in the preview.
WriteError(s) ==
  LET t == [FinishText(FinishReasoning(s)) EXCEPT !.status = "error"]
  IN  Add(AddFinalSnapshot([t EXCEPT !.preview = IF Text(t.events) = <<>> THEN <<"error">> ELSE @]),
          Ev("RUN_ERROR", 0, 0))

ToolApprovalRequested(s, call) ==
  [s EXCEPT !.interrupts = @ \cup {call},
            !.approvals  = IF \E i \in DOMAIN @ : @[i].call = call THEN @
                           ELSE Append(@, [call |-> call, state |-> "requested"])]

ToolApprovalResponded(s, call, state) ==
  ToolResult([s EXCEPT !.approvals = [i \in DOMAIN @ |->
                                        IF @[i].call = call THEN [@[i] EXCEPT !.state = state]
                                                            ELSE @[i]],
                       !.interrupts = @ \ {call},
                       !.status = "streaming"],
             call, IF state = "approved" THEN "approval" ELSE "denial")

-----------------------------------------------------------------------------
(* The parts of the final message. *)

NewPart(kind, id) ==
  [kind |-> kind, id |-> id, content |-> <<>>, state |-> "streaming", output |-> "none"]

\* The part a delta belongs to is the open one, or a new segment.
Grown(acc, open, kind, id, tokens) ==
  IF acc[open] # 0 /\ acc.parts[acc[open]].id = id
  THEN [acc EXCEPT !.parts[acc[open]].content = @ \o tokens]
  ELSE [acc EXCEPT !.parts = Append(@, [NewPart(kind, id) EXCEPT !.content = tokens]),
                   ![open] = Len(acc.parts) + 1]

Closed(acc, open) ==
  IF acc[open] = 0 THEN acc
  ELSE [acc EXCEPT !.parts[acc[open]].state = "done", ![open] = 0]

ClosedIf(acc, open, id) ==
  IF acc[open] # 0 /\ acc.parts[acc[open]].id = id THEN Closed(acc, open) ELSE acc

ToolPart(acc, call) == SelectInSeq(acc.parts, LAMBDA p : p.kind = "tool" /\ p.id = call)

WithTool(acc, call) ==
  IF ToolPart(acc, call) # 0 THEN acc
  ELSE [acc EXCEPT !.parts = Append(@, NewPart("tool", call))]

SetTool(acc0, call, state, output) ==
  LET acc == WithTool(acc0, call)
      i   == ToolPart(acc, call)
  IN  [acc EXCEPT !.parts[i].state = state,
                  !.parts[i].output = IF output = "none" THEN @ ELSE output]

PartOf(acc0, e) ==
  LET acc1 == IF e.type \in ReasoningTypes \cup NeutralTypes THEN acc0 ELSE Closed(acc0, "think")
      acc  == IF e.type \in ActivityTypes THEN Closed(acc1, "text") ELSE acc1
  IN  CASE e.type = "TEXT_MESSAGE_CONTENT"      -> Grown(acc, "text", "text", e.id, <<e.value>>)
        [] e.type = "TEXT_MESSAGE_END"          -> ClosedIf(acc, "text", e.id)
        [] e.type = "REASONING_MESSAGE_START"   -> Grown(acc, "think", "thinking", e.id, <<>>)
        [] e.type = "REASONING_MESSAGE_CONTENT" -> Grown(acc, "think", "thinking", e.id, <<e.value>>)
        [] e.type = "REASONING_MESSAGE_END"     -> ClosedIf(acc, "think", e.id)
        [] e.type = "TOOL_CALL_START"  -> [acc EXCEPT !.parts = Append(@, NewPart("tool", e.id))]
        [] e.type = "TOOL_CALL_ARGS"   -> SetTool(acc, e.id, "input-streaming", "none")
        [] e.type = "TOOL_CALL_END"    -> SetTool(acc, e.id, "input-complete", "none")
        [] e.type = "TOOL_CALL_RESULT" ->
             SetTool(acc, e.id, IF e.value \in {"approval", "denial"} THEN "approval-responded"
                                                                     ELSE "input-complete", e.value)
        [] e.type = "RUN_FINISHED"     ->
             FoldLeft(LAMBDA a, c : SetTool(a, c, "approval-requested", "none"), acc,
                      SetToSeq(e.value))
        [] OTHER                       -> acc

\* A tool part without output when the run ends is given a failed one.
FinalizeOpenToolPart(part, status) ==
  IF part.kind = "tool" /\ part.output = "none"
     /\ ~(part.state = "approval-requested" /\ status = "interrupted")
     /\ part.state # "approval-responded"
  THEN [part EXCEPT !.state = "input-complete", !.output = "failed"]
  ELSE part

\* A thinking part that was opened and said nothing is left out.
FilterFinalMessageParts(parts) ==
  FoldLeft(LAMBDA kept, p : IF p.kind = "thinking" /\ p.content = <<>> THEN kept
                            ELSE Append(kept, p),
           <<>>, parts)

FinalParts(s) ==
  LET acc  == FoldLeft(PartOf, [parts |-> <<>>, text |-> 0, think |-> 0], s.events)
      done == Closed(Closed(acc, "text"), "think").parts
  IN  IF s.status = "streaming" THEN acc.parts
      ELSE FilterFinalMessageParts([i \in DOMAIN done |-> FinalizeOpenToolPart(done[i], s.status)])

FinalVisibleText(s) ==
  IF Text(s.events) # <<>> THEN Text(s.events)
  ELSE IF s.status = "error" THEN <<"error">>
  ELSE IF s.preview # <<>> THEN s.preview
  ELSE <<"working">>

\* The edit that ends the stream.  Parts that do not fit go to an attachment,
\* text that does not fit beside what is left is cut; whether it was cut is
\* written in the event too, and takes room there.
ProjectFinal(s) ==
  LET parts    == FinalParts(s)
      text     == FinalVisibleText(s)
      inline   == Len(parts) <= Budget
      room(complete) == Budget - (IF inline THEN Len(parts) ELSE 1) - (IF complete THEN 0 ELSE 1)
      fits(complete) == Len(text) <= room(complete)
      complete == fits(fits(fits(TRUE)))
  IN  [delivery |-> IF inline THEN "inline" ELSE "attachment",
       parts    |-> parts,
       textComplete |-> complete,
       text     |-> IF complete THEN text ELSE SubSeq(text, 1, Max({0, room(FALSE) - 1})),
       terminal |-> IF s.status \in {"error", "aborted"} THEN "RUN_ERROR" ELSE "RUN_FINISHED"]
=============================================================================
