----------------------------- MODULE RunStream -----------------------------
(***************************************************************************)
(* The stream of one assistant answer through the connector: the events a  *)
(* provider sends in each model turn are written to the run, the new ones  *)
(* are published as sequenced envelopes, the tools of the turn run between *)
(* two turns and write to the same run, an approval interrupts it, and the *)
(* final edit ends it.  Publishing may fail with or without the carrier    *)
(* having arrived, and so may storing the record after it has.             *)
(***************************************************************************)
EXTENDS AguiRun

CONSTANTS Calls,      \* tool call ids
          MaxTurns,   \* model turns of the answer
          MaxBlocks,  \* content blocks of the answer
          MaxTokens,  \* text and reasoning deltas of the answer
          MaxFaults   \* carriers that fail

ASSUME CallsAreFinite == IsFiniteSet(Calls)

VARIABLES run,     \* the run and the writer of the current turn
          cursor,  \* streamPublishCursor: events published, next seq, started
          sent,    \* envelopes that arrived: pairs of a seq and an event's position
          phase,   \* what the agent loop is doing
          turn,    \* model turns so far
          blocks,  \* content blocks of this turn: kind, tool call, open
          tools,   \* the state of every tool call of the answer
          said,    \* ghost: text the provider sent, in order
          thought, \* ghost: reasoning the provider sent, in order
          used,    \* bounded so far: blocks, tokens, faults
          final    \* the projection of the final edit

vars == <<run, cursor, sent, phase, turn, blocks, tools, said, thought, used, final>>

Token == Len(said) + Len(thought) + 1

Init ==
  /\ run = NewRun
  /\ cursor = [published |-> 0, nextSeq |-> 1, started |-> FALSE]
  /\ sent = {}
  /\ phase = "idle"
  /\ turn = 0
  /\ blocks = <<>>
  /\ tools = [c \in Calls |-> "none"]
  /\ said = <<>> /\ thought = <<>>
  /\ used = [blocks |-> 0, faults |-> 0]
  /\ final = {}

-----------------------------------------------------------------------------
(* publishNewStreamEvents: what was appended since the last carrier goes   *)
(* out in one; the cursor moves once it has, and storing the record comes  *)
(* last.                                                                    *)

Carrier(s, c) ==
  {<<c.nextSeq + i - c.published - 1, i>> : i \in (c.published + 1)..Len(s.events)}

Advanced(s, c) ==
  [c EXCEPT !.nextSeq = @ + Len(s.events) - c.published, !.published = Len(s.events)]

\* Mutant: the cursor moves before the carrier is sent.
PublishAdvancesFirst(s, c, outcome) ==
  LET nothing == c.published >= Len(s.events)
  IN  /\ outcome # "ok" => ~nothing /\ used.faults < MaxFaults
      /\ run' = s
      /\ cursor' = IF nothing THEN c ELSE Advanced(s, c)
      /\ sent' = IF nothing \/ outcome = "lost" THEN sent ELSE sent \cup Carrier(s, c)

\* outcome: "ok", "lost" (nothing arrived), "unknown" (it arrived, the answer
\* did not), "unsaved" (the record could not be stored).
Publish(s, c, outcome) ==
  LET nothing == c.published >= Len(s.events)
  IN  /\ outcome # "ok" => ~nothing /\ used.faults < MaxFaults
      /\ run' = s
      /\ cursor' = IF nothing \/ outcome \in {"lost", "unknown"} THEN c ELSE Advanced(s, c)
      /\ sent' = IF nothing \/ outcome = "lost" THEN sent ELSE sent \cup Carrier(s, c)

Faulted(outcome) == [used EXCEPT !.faults = @ + (IF outcome = "ok" THEN 0 ELSE 1)]

Outcomes == {"ok", "lost", "unknown", "unsaved"}

-----------------------------------------------------------------------------
(* A model turn. *)

\* The first call of the stream function starts the run; the next ones
\* continue it with a writer of their own.
StreamFn(outcome) ==
  /\ phase = "idle"
  /\ turn < MaxTurns
  /\ turn' = turn + 1
  /\ blocks' = <<>>
  /\ LET s == NewWriter(run)
     IN  Publish(IF cursor.started THEN s ELSE Start(s), [cursor EXCEPT !.started = TRUE], outcome)
  /\ phase' = IF outcome = "ok" THEN "streaming" ELSE "failed"
  /\ used' = Faulted(outcome)
  /\ UNCHANGED <<tools, said, thought, final>>

\* Every event of the provider: written, published, then passed on.
Upstream(s, outcome) ==
  /\ phase = "streaming"
  /\ Publish(s, cursor, outcome)
  /\ phase' = IF outcome = "ok" THEN "streaming" ELSE "failed"
  /\ UNCHANGED <<turn, final>>

\* Which id a provider gives a new call is of no consequence.
FreshCall == CHOOSE c \in Calls : tools[c] = "none" \/ \A d \in Calls : tools[d] # "none"

\* Blocks of different kinds may be open together (chat completions end all of
\* them at the end of the turn), of text and of reasoning only one.
BlockStart(kind, outcome) ==
  LET i == Len(blocks)
      call == FreshCall
      written == CASE kind = "text"     -> TextStart(run, i)
                   [] kind = "thinking" -> ReasoningMessageStart(run, i)
                   [] OTHER             -> ToolStart(run, call)
  IN  /\ used.blocks < MaxBlocks
      /\ \A j \in DOMAIN blocks : blocks[j].open => blocks[j].kind \notin {"text", "thinking"} \cap {kind}
      /\ kind \in {"tool", "native"} => \E c \in Calls : tools[c] = "none"
      /\ kind = "tool" => turn < MaxTurns
      /\ Upstream(written, outcome)
      /\ blocks' = Append(blocks, [kind |-> kind, call |-> call, open |-> TRUE])
      /\ tools' = IF kind \in {"tool", "native"} THEN [tools EXCEPT ![call] = kind] ELSE tools
      /\ used' = [Faulted(outcome) EXCEPT !.blocks = @ + 1]
      /\ UNCHANGED <<said, thought>>

BlockDelta(i, outcome) ==
  LET b == blocks[i]
      written == CASE b.kind = "text"     -> TextDelta(run, i - 1, Token)
                   [] b.kind = "thinking" -> ReasoningDelta(run, i - 1, Token)
                   [] OTHER               -> ToolArgs(run, b.call)
  IN  /\ b.open
      /\ b.kind \in {"text", "thinking"} => Token <= MaxTokens
      /\ b.kind \in {"tool", "native"} =>
            \A j \in DOMAIN run.events : run.events[j] # Ev("TOOL_CALL_ARGS", b.call, 0)
      /\ Upstream(written, outcome)
      /\ said' = IF b.kind = "text" THEN Append(said, Token) ELSE said
      /\ thought' = IF b.kind = "thinking" THEN Append(thought, Token) ELSE thought
      /\ used' = Faulted(outcome)
      /\ UNCHANGED <<blocks, tools>>

\* At the end of a reasoning block the provider repeats its content, which may
\* hold more than the deltas did; a native tool's result ends its block.
BlockEnd(i, more, outcome) ==
  LET b == blocks[i]
      rest == IF more THEN <<Token>> ELSE <<>>
      written == CASE b.kind = "text"     -> TextEnd(run, i - 1)
                   [] b.kind = "thinking" ->
                        ReasoningMessageEnd(
                          ReasoningContentSnapshot(run, i - 1, ReasoningContent(run, i - 1) \o rest),
                          i - 1)
                   [] b.kind = "tool"     -> ToolInputComplete(run, b.call)
                   [] OTHER               -> Custom(ToolEnd(run, b.call, "complete"), b.call)
  IN  /\ b.open
      /\ more => b.kind = "thinking" /\ Token <= MaxTokens
      /\ Upstream(written, outcome)
      /\ blocks' = [blocks EXCEPT ![i].open = FALSE]
      /\ thought' = thought \o rest
      /\ tools' = IF b.kind = "native" THEN [tools EXCEPT ![b.call] = "done"] ELSE tools
      /\ used' = Faulted(outcome)
      /\ UNCHANGED said

Wanted == {blocks[i].call : i \in {j \in DOMAIN blocks : blocks[j].kind = "tool"}}

\* The terminal event of a turn.  Text that was never streamed is taken from
\* the message it carries.
Done(unstreamed, outcome) ==
  LET s == IF unstreamed THEN TextEnd(TextDelta(run, 0, Token), 0) ELSE run
  IN  /\ phase = "streaming"
      /\ \A i \in DOMAIN blocks : ~blocks[i].open
      /\ unstreamed => ~run.written /\ Token <= MaxTokens
      /\ Publish(IF Wanted # {} THEN AwaitToolUse(s) ELSE Finish(s), cursor, outcome)
      /\ phase' = IF outcome # "ok" THEN "failed" ELSE IF Wanted # {} THEN "tools" ELSE "done"
      /\ said' = IF unstreamed THEN Append(said, Token) ELSE said
      /\ tools' = [c \in Calls |-> IF c \in Wanted /\ outcome = "ok" THEN "wanted" ELSE tools[c]]
      /\ used' = Faulted(outcome)
      /\ UNCHANGED <<turn, blocks, thought, final>>

\* The provider fails, or is silent for activeStreamIdleTimeout.
StreamError(outcome) ==
  /\ phase = "streaming"
  /\ Publish(WriteError(run), cursor, outcome)
  /\ phase' = "failed"
  /\ used' = Faulted(outcome)
  /\ UNCHANGED <<turn, blocks, tools, said, thought, final>>

-----------------------------------------------------------------------------
(* Between two turns: the tools, each with a writer of its own.  Failing to *)
(* publish their output is only logged.                                     *)

RequestApproval(call) ==
  /\ phase = "tools" /\ tools[call] = "wanted"
  /\ \A c \in Calls : tools[c] # "asked"
  /\ Publish(Custom(InterruptWithUsage(ToolApprovalRequested(NewWriter(run), call)), call),
             cursor, "ok")
  /\ tools' = [tools EXCEPT ![call] = "asked"]
  /\ UNCHANGED <<phase, turn, blocks, said, thought, used, final>>

Respond(call, answer) ==
  /\ phase = "tools" /\ tools[call] = "asked"
  /\ Publish(ToolApprovalResponded(NewWriter(run), call, answer), cursor, "ok")
  /\ tools' = [tools EXCEPT ![call] = "answered"]
  /\ UNCHANGED <<phase, turn, blocks, said, thought, used, final>>

PublishToolOutput(call, state, outcome) ==
  /\ phase = "tools" /\ tools[call] \in {"wanted", "answered"}
  /\ LET s == ToolEnd(NewWriter(run), call, state)
     IN  Publish(IF state = "complete" THEN Custom(s, call) ELSE s, cursor, outcome)
  /\ tools' = [tools EXCEPT ![call] = state]
  /\ phase' = IF \A c \in Calls \ {call} : tools[c] \notin {"wanted", "asked", "answered"}
              THEN "idle" ELSE "tools"
  /\ used' = Faulted(outcome)
  /\ UNCHANGED <<turn, blocks, said, thought, final>>

-----------------------------------------------------------------------------
(* finalizeAssistant: the tool outputs are written once more, the status    *)
(* follows the message, and the projection is sent as an edit.              *)

AppendToolOutputs(s) ==
  LET outputs == SetToSeq({c \in Calls : tools[c] \in {"complete", "error"}})
  IN  FoldLeft(LAMBDA t, c : ToolEnd(t, c, tools[c]), NewWriter(s), outputs)

FinalizedAssistantRun(s) ==
  IF phase = "failed"
  THEN [s EXCEPT !.status = "error", !.preview = IF Text(s.events) = <<>> THEN <<"error">> ELSE @]
  ELSE IF s.status \in {"error", "aborted"} THEN s ELSE [s EXCEPT !.status = "complete"]

FinalizeAssistant ==
  /\ phase \in {"done", "failed"}
  /\ phase' = "ended"
  /\ run' = AppendToolOutputs(run)
  /\ final' = {ProjectFinal(FinalizedAssistantRun(run'))}
  /\ UNCHANGED <<cursor, sent, turn, blocks, tools, said, thought, used>>

Ended == phase = "ended" /\ UNCHANGED vars

Next ==
  \/ \E o \in Outcomes :
       \/ StreamFn(o)
       \/ \E kind \in {"text", "thinking", "tool", "native"} : BlockStart(kind, o)
       \/ \E i \in DOMAIN blocks : BlockDelta(i, o) \/ \E more \in BOOLEAN : BlockEnd(i, more, o)
       \/ \E unstreamed \in BOOLEAN : Done(unstreamed, o)
       \/ StreamError(o)
       \/ \E call \in Calls, state \in {"complete", "error"} : PublishToolOutput(call, state, o)
  \/ \E call \in Calls : RequestApproval(call) \/ \E a \in {"approved", "denied"} : Respond(call, a)
  \/ FinalizeAssistant
  \/ Ended

Spec == Init /\ [][Next]_vars

-----------------------------------------------------------------------------
(* Properties. *)

\* Several writers, one after another, write to one run, each knowing only
\* what it opened itself: still no message is opened twice, written to or
\* closed when it is not open, or left open at the end.  What the validator
\* refuses otherwise is a tool call that is ended twice, and whatever follows
\* the RUN_FINISHED of an approval.  (validation.go, run.go)
StreamIsBracketed ==
  phase \in {"done", "failed"} =>
    ValidateEventSequence(SubSeq(run.events, 1, cursor.published)) \subseteq
       {"ended twice"} \cup (IF run.approvals = <<>> THEN {} ELSE {"after terminal"})

\* A seq stands for one event for ever, and the seqs that arrived have no gap:
\* a client that orders what it received by seq has the beginning of the run,
\* with everything the bridge believes it published.  (client.go, pack.go)
ClientsReplayARunsBeginning ==
  \E n \in cursor.published..Len(run.events) : sent = {<<i, i>> : i \in 1..n}

\* What the parts of a kind say, in order.
SaidBy(kind, parts) ==
  FoldLeft(LAMBDA text, p : IF p.kind = kind THEN text \o p.content ELSE text, <<>>, parts)

\* The final edit's parts hold every delta of the provider once and in order,
\* whatever block it came in and however often the run changed hands, and
\* none of them is in progress: text and reasoning are done, tools have an
\* output.  (message.go)
FinalPartsAreComplete ==
  \A f \in final :
    /\ SaidBy("text", f.parts) = said
    /\ SaidBy("thinking", f.parts) = thought
    /\ \A i \in DOMAIN f.parts :
         IF f.parts[i].kind = "tool" THEN f.parts[i].output # "none"
                                     ELSE f.parts[i].state = "done"

\* "consolidated result": the text of the final edit of a finished run that
\* says it is complete is all the text that was streamed.  It is not: the snapshot of an approval
\* hides what came later.  (README.md:170, message.go:latestMessagesSnapshot)
FinalTextIsComplete ==
  \A f \in final :
    f.terminal = "RUN_FINISHED" /\ f.textComplete /\ said # <<>> => f.text = said
=============================================================================
