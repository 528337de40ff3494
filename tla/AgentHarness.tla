---------------------------- MODULE AgentHarness ----------------------------
(***************************************************************************)
(* One AgentHarness (pkg/agent/harness/agent_harness.go) driving the agent *)
(* loop (pkg/agent/agent_loop.go) over one session branch.  A single       *)
(* runner goroutine executes Prompt, Continue and Compact; other           *)
(* goroutines call Steer, FollowUp, NextTurn, AppendMessage, SetModel and  *)
(* Abort while it runs.  The session is the branch the harness appends to, *)
(* as the sequence of its entries; a model context is the set of positions *)
(* of the branch that BuildSessionContext turns into messages.             *)
(***************************************************************************)
EXTENDS Naturals, Sequences, FiniteSets

CONSTANTS
    AllAtOnce,   \* the queues drained in QueueModeAll (the others: one at a time)
    Parallel,    \* TRUE: a tool batch is executed in parallel
    Racy,        \* TRUE: queue updates of two goroutines may overlap
    Faults,      \* TRUE: hooks, subscribers and storage may fail on their own
    MaxCalls,    \* bound: tool calls in one response
    MaxMsgs,     \* bound: user messages handed to the harness
    MaxTurns,    \* bound: responses after which the model calls no more tools
    MaxNotes,    \* bound: AppendMessage and SetModel calls
    MaxRuns,     \* bound: Prompt, Continue and Compact calls
    MaxAborts    \* bound: Abort calls

HarnessAssumption ==
    /\ AllAtOnce \subseteq {"steer", "followUp"}
    /\ {Parallel, Racy, Faults} \subseteq BOOLEAN
    /\ {MaxCalls, MaxMsgs, MaxTurns, MaxNotes, MaxRuns, MaxAborts}
         \subseteq Nat
ASSUME HarnessAssumption

VARIABLES
    phase,          \* h.phase
    pc,             \* where the runner goroutine is
    op,             \* what it runs: "prompt", "continue" or "compact"
    nextRunID,      \* h.nextRunID
    activeRunID,    \* h.activeRunID; 0 when cancelRun and runDone are nil
    cancelled,      \* the context of the current run is cancelled
    results,        \* outcome of each finished run
    queue,          \* h.steerQueue, h.followUpQueue and h.nextTurnQueue
    pendingSessionWrites,
    session,        \* the entries of the branch, root first
    context,        \* positions of session in currentContext.Messages
    todo,           \* messages taken, not yet written to the session
    draining,       \* the queue drainQueue works on
    snapshot,       \* what drainQueue read of it
    more,           \* hasMoreToolCalls
    calls, done,    \* tool calls of the last response, results written
    caller,         \* a goroutine inside Steer, FollowUp or NextTurn
    abort,          \* the goroutine inside Abort
    sent, notes, turns,   \* counters of messages, writes and responses
    returned,       \* messages Abort cleared and gave back to its caller
    lost            \* <<run, message>>: dropped when that run failed

runVars   == <<nextRunID, activeRunID, results>>
loopVars  == <<todo, draining, snapshot, more, calls, done>>
otherVars == <<caller, abort, sent, notes, returned>>
vars == <<phase, pc, op, runVars, cancelled, queue, pendingSessionWrites,
          session, context, loopVars, otherVars, turns, lost>>

-----------------------------------------------------------------------------
\* Session entries.  "tag" is the way a user message came in, or the stop
\* reason of an assistant message; "n" the tool calls of an assistant message,
\* the index of a tool result, or the first kept position of a compaction.

Queues       == {"steer", "followUp", "nextTurn"}
FailingStops == {"error", "length"}
Stops        == {"stop"} \union FailingStops
CutRoles     == {"user", "assistant", "note"}
MessageRoles == CutRoles \union {"toolResult"}
Roles        == MessageRoles \union {"model", "compaction"}
Tags         == Queues \union Stops \union {"prompt", "none"}
Outcomes     == {"ok", "error"}
Entry == [role : Roles, of : Nat, n : Nat, tag : Tags]
UserMessage == [role : {"user"}, of : Nat, n : {0}, tag : Queues \union {"prompt"}]
Write == [role : {"note", "model"}, of : Nat, n : {0}, tag : {"none"}]

user(m, via)      == [role |-> "user", of |-> m, n |-> 0, tag |-> via]
write(kind, i)    == [role |-> kind, of |-> i, n |-> 0, tag |-> "none"]
response(t, n, s) == [role |-> "assistant", of |-> t, n |-> n, tag |-> s]
toolResult(t, i)  == [role |-> "toolResult", of |-> t, n |-> i, tag |-> "none"]
compaction(k)     == [role |-> "compaction", of |-> 0, n |-> k, tag |-> "none"]

Ids(s) == {s[i].of : i \in DOMAIN s}

Compactions(s) == {i \in DOMAIN s : s[i].role = "compaction"}
IsLastCompaction(s, c) == c \in Compactions(s) /\ \A d \in Compactions(s) : d <= c

\* The positions a branch still shows: those from the firstKeptEntryId of its
\* last compaction entry on, all of them when it was never compacted.
Shown(s) == {i \in DOMAIN s : \A c \in DOMAIN s : IsLastCompaction(s, c) => i >= s[c].n}

\* BuildSessionContext: the message entries among them (the summary a
\* compaction puts before them is left out).
Visible(s) == {i \in Shown(s) : s[i].role \in MessageRoles}

IsFirst(S, i) == i \in S /\ \A j \in S : i <= j
IsLast(S, i)  == i \in S /\ \A j \in S : j <= i

\* FindCutPoint, for any token counts: a valid cut point, moved back over the
\* entries before it that are neither messages nor compactions.
\* Mutant of ValidCutPoints: a cut may fall in front of a tool result.
AnyMessageCut(s) == {i \in Shown(s) : s[i].role \in MessageRoles}
ValidCutPoints(s) == {i \in Shown(s) : s[i].role \in CutRoles}
CutPoints(s) ==
    IF ValidCutPoints(s) = {} THEN {k \in Shown(s) : IsFirst(Shown(s), k)}
    ELSE {k \in Shown(s) :
            /\ \E i \in ValidCutPoints(s) :
                 k <= i /\ \A j \in k .. (i - 1) : s[j].role = "model"
            /\ IsFirst(Shown(s), k) \/ s[k - 1].role # "model"}

-----------------------------------------------------------------------------
NoCaller == [q |-> "none", seen |-> <<>>]
NoneCleared == [steer |-> <<>>, followUp |-> <<>>]

Init ==
    /\ phase = "idle" /\ pc = "idle" /\ op = "prompt"
    /\ nextRunID = 0 /\ activeRunID = 0 /\ cancelled = FALSE /\ results = <<>>
    /\ queue = [q \in Queues |-> <<>>]
    /\ pendingSessionWrites = <<>> /\ session = <<>> /\ context = {}
    /\ todo = <<>> /\ draining = "steer" /\ snapshot = <<>>
    /\ more = FALSE /\ calls = 0 /\ done = 0
    /\ caller = NoCaller
    /\ abort = [at |-> "idle", cleared |-> NoneCleared, waitFor |-> 0, count |-> 0]
    /\ sent = 0 /\ notes = 0 /\ turns = 0 /\ returned = {} /\ lost = {}

\* A cancelled context makes every storage call fail; a hook only fails by itself.
StorageFails == cancelled \/ Faults
HookFails    == Faults

\* The queues are plain slices: without Racy nobody touches one while another
\* goroutine is between its read and its write of it.
QueueFree == Racy \/ (caller = NoCaller /\ pc # "drainStore" /\ abort.at # "clear")

\* The loop returns an error: what it had taken and not written is dropped.
LoopError ==
    /\ pc' = "unwind" /\ todo' = <<>>
    /\ lost' = lost \union {<<nextRunID, m>> : m \in Ids(todo)}

Finish(result) == pc' = "finish" /\ results' = Append(results, result)

-----------------------------------------------------------------------------
\* PromptWithResult, ContinueWithResult and Compact: entry and exit.

Enter(newPhase, newOp) ==
    /\ pc = "idle" /\ phase = "idle" /\ nextRunID < MaxRuns
    /\ phase' = newPhase /\ op' = newOp /\ pc' = "begin"

Prompt ==
    /\ Enter("turn", "prompt") /\ sent < MaxMsgs
    /\ sent' = sent + 1 /\ todo' = <<user(sent + 1, "prompt")>>
    /\ UNCHANGED <<runVars, cancelled, queue, pendingSessionWrites, session, context,
                   draining, snapshot, more, calls, done, caller, abort, notes,
                   returned, turns, lost>>

Continue ==
    /\ Enter("turn", "continue")
    /\ UNCHANGED <<runVars, cancelled, queue, pendingSessionWrites, session, context,
                   loopVars, otherVars, turns, lost>>

Compact ==
    /\ Enter("compaction", "compact")
    /\ UNCHANGED <<runVars, cancelled, queue, pendingSessionWrites, session, context,
                   loopVars, otherVars, turns, lost>>

\* startRun registers the run and its cancel function; until then Abort finds none.
StartRun ==
    /\ pc = "begin"
    /\ nextRunID' = nextRunID + 1 /\ activeRunID' = nextRunID + 1
    /\ cancelled' = FALSE
    /\ pc' = IF op = "compact" THEN "summary" ELSE "context"
    /\ UNCHANGED <<phase, op, results, queue, pendingSessionWrites, session, context,
                   loopVars, otherVars, turns, lost>>

\* Mutant of MayContinue: only an empty context is refused.
MayContinueAfterAny(ctx) == ctx # {}
\* RunAgentLoopContinue wants a context that does not end with a response.
MayContinue(ctx) == \E i \in ctx : IsLast(ctx, i) /\ session[i].role # "assistant"

\* createContext for a prompt, and for a Continue that may drop a trailing
\* assistant error and refuses to go on from an assistant message.
CreateContext ==
    /\ pc = "context" /\ ~cancelled
    /\ \E ctx \in {Visible(session)} \union
                  {Visible(session) \ {i} : i \in {j \in Visible(session) :
                       op = "continue" /\ IsLast(Visible(session), j)
                       /\ session[j].role = "assistant" /\ session[j].tag = "error"}} :
         /\ context' = ctx
         /\ IF op = "prompt" THEN pc' = "nextTurn" /\ UNCHANGED <<draining, more>>
            ELSE IF MayContinue(ctx) THEN pc' = "drain" /\ draining' = "steer" /\ more' = TRUE
            ELSE pc' = "unwind" /\ UNCHANGED <<draining, more>>
    /\ UNCHANGED <<phase, op, runVars, cancelled, queue, pendingSessionWrites, session,
                   todo, snapshot, calls, done, otherVars, turns, lost>>

\* createContext fails, or a hook of the prompt fails after the queue is taken.
BeginFails ==
    /\ \/ pc = "context" /\ StorageFails /\ UNCHANGED queue
       \/ pc = "nextTurn" /\ HookFails /\ QueueFree /\ queue' = [queue EXCEPT !["nextTurn"] = <<>>]
    /\ Finish("error")
    /\ LET dropped == Ids(todo) \union IF pc = "nextTurn" THEN Ids(queue["nextTurn"]) ELSE {}
       IN  lost' = lost \union {<<nextRunID, m>> : m \in dropped}
    /\ todo' = <<>>
    /\ UNCHANGED <<phase, op, nextRunID, activeRunID, cancelled, pendingSessionWrites,
                   session, context, draining, snapshot, more, calls, done, otherVars, turns>>

TakeNextTurn ==
    /\ pc = "nextTurn" /\ QueueFree
    /\ todo' = queue["nextTurn"] \o todo
    /\ queue' = [queue EXCEPT !["nextTurn"] = <<>>]
    /\ pc' = "prompts"
    /\ UNCHANGED <<phase, op, runVars, cancelled, pendingSessionWrites, session, context,
                   draining, snapshot, more, calls, done, otherVars, turns, lost>>

\* The deferred function: phase goes idle first, then finish() drops the run.
SetIdle ==
    /\ pc = "finish" /\ phase' = "idle" /\ pc' = "close"
    /\ UNCHANGED <<op, runVars, cancelled, queue, pendingSessionWrites, session, context,
                   loopVars, otherVars, turns, lost>>

\* Mutant of CloseRun: finish() forgets to drop the run it registered.
CloseRunKeepsRun ==
    /\ pc = "close" /\ pc' = "idle"
    /\ UNCHANGED <<phase, op, runVars, cancelled, queue, pendingSessionWrites,
                   session, context, loopVars, otherVars, turns, lost>>

CloseRun ==
    /\ pc = "close" /\ pc' = "idle" /\ activeRunID' = 0
    /\ UNCHANGED <<phase, op, nextRunID, results, cancelled, queue, pendingSessionWrites,
                   session, context, loopVars, otherVars, turns, lost>>

\* Compact's summary: written as a compaction entry, or no entry at all.
CompactSucceeds ==
    /\ pc = "summary" /\ ~cancelled
    /\ session # <<>> /\ session[Len(session)].role # "compaction"
    /\ \E k \in CutPoints(session) : session' = Append(session, compaction(k))
    /\ Finish("ok")
    /\ UNCHANGED <<phase, op, nextRunID, activeRunID, cancelled, queue,
                   pendingSessionWrites, context, loopVars, otherVars, turns, lost>>

CompactFails ==
    /\ pc = "summary" /\ Finish("error")
    /\ UNCHANGED <<phase, op, nextRunID, activeRunID, cancelled, queue, session,
                   pendingSessionWrites, context, loopVars, otherVars, turns, lost>>

-----------------------------------------------------------------------------
\* RunAgentLoop and runLoop.

\* message_end of a prompt or of a drained message: session and context.
AppendTodo ==
    /\ pc \in {"prompts", "pending"} /\ todo # <<>> /\ ~cancelled
    /\ session' = Append(session, Head(todo))
    /\ context' = context \union {Len(session) + 1}
    /\ todo' = Tail(todo)
    /\ IF Len(todo) > 1 THEN UNCHANGED <<pc, draining, more>>
       ELSE IF pc = "prompts" THEN pc' = "drain" /\ draining' = "steer" /\ more' = TRUE
       ELSE pc' = "request" /\ UNCHANGED <<draining, more>>
    /\ UNCHANGED <<phase, op, runVars, cancelled, queue, pendingSessionWrites, snapshot,
                   calls, done, otherVars, turns, lost>>

\* drainQueue reads the queue; an empty one ends this round of the loop.
DrainLoad ==
    /\ pc = "drain" /\ QueueFree
    /\ IF queue[draining] # <<>>
       THEN pc' = "drainStore" /\ snapshot' = queue[draining] /\ UNCHANGED draining
       ELSE /\ UNCHANGED snapshot
            /\ \/ draining = "steer" /\ more /\ pc' = "request" /\ UNCHANGED draining
               \/ draining = "steer" /\ ~more /\ draining' = "followUp" /\ UNCHANGED pc
               \/ draining = "followUp" /\ pc' = "agentEnd" /\ UNCHANGED draining
    /\ UNCHANGED <<phase, op, runVars, cancelled, queue, pendingSessionWrites, session,
                   context, todo, more, calls, done, otherVars, turns, lost>>

\* Mutant of DrainStore: one at a time takes the newest message.
DrainStoreNewest ==
    /\ pc = "drainStore"
    /\ todo' = SubSeq(snapshot, Len(snapshot), Len(snapshot))
    /\ queue' = [queue EXCEPT ![draining] = SubSeq(snapshot, 1, Len(snapshot) - 1)]
    /\ snapshot' = <<>> /\ pc' = "drained"
    /\ UNCHANGED <<phase, op, runVars, cancelled, pendingSessionWrites, session, context,
                   draining, more, calls, done, otherVars, turns, lost>>

\* drainQueue writes back what it leaves, and announces it.
DrainStore ==
    /\ pc = "drainStore"
    /\ LET count == IF draining \in AllAtOnce THEN Len(snapshot) ELSE 1 IN
         /\ todo' = SubSeq(snapshot, 1, count)
         /\ queue' = [queue EXCEPT ![draining] = SubSeq(snapshot, count + 1, Len(snapshot))]
    /\ snapshot' = <<>> /\ pc' = "drained"
    /\ UNCHANGED <<phase, op, runVars, cancelled, pendingSessionWrites, session, context,
                   draining, more, calls, done, otherVars, turns, lost>>

\* queue_update is delivered: the loop has the messages.
DrainDone ==
    /\ pc = "drained" /\ pc' = "pending"
    /\ UNCHANGED <<phase, op, runVars, cancelled, queue, pendingSessionWrites, session,
                   context, loopVars, otherVars, turns, lost>>

\* Mutant of DrainFails: what was drained is not put back.
DrainFailsForgets ==
    /\ pc = "drained" /\ HookFails /\ todo' = <<>> /\ pc' = "unwind"
    /\ UNCHANGED <<phase, op, runVars, cancelled, queue, pendingSessionWrites, session, context,
                   draining, snapshot, more, calls, done, otherVars, turns, lost>>

\* queue_update fails: drainQueue puts them back, in front, and the loop ends.
DrainFails ==
    /\ pc = "drained" /\ HookFails /\ QueueFree
    /\ queue' = [queue EXCEPT ![draining] = todo \o queue[draining]]
    /\ todo' = <<>> /\ pc' = "unwind"
    /\ UNCHANGED <<phase, op, runVars, cancelled, pendingSessionWrites, session, context,
                   draining, snapshot, more, calls, done, otherVars, turns, lost>>

\* streamAssistantResponse with a response of the provider.
Respond ==
    /\ pc = "request" /\ ~cancelled
    /\ \E n \in 0 .. MaxCalls, stop \in Stops :
         /\ turns + 1 < MaxTurns \/ n = 0
         /\ session' = Append(session, response(turns + 1, n, stop))
         /\ calls' = n /\ done' = 0 /\ more' = FALSE
         /\ pc' = IF stop \in FailingStops THEN "failedTurn"
                  ELSE IF n > 0 THEN "tools" ELSE "turnEnd"
    /\ context' = context \union {Len(session) + 1}
    /\ turns' = turns + 1
    /\ UNCHANGED <<phase, op, runVars, cancelled, queue, pendingSessionWrites, todo,
                   draining, snapshot, otherVars, lost>>

\* An aborted response cannot be stored (its context is cancelled); the loop
\* goes on as if it had been (isAbortedContextEmission).
RespondAborted ==
    /\ pc = "request" /\ cancelled /\ pc' = "failedTurn"
    /\ UNCHANGED <<phase, op, runVars, cancelled, queue, pendingSessionWrites, session,
                   context, loopVars, otherVars, turns, lost>>

\* executeToolCalls: message_end of the next tool result.  The batch ends with
\* the last one, and the loop with it when every tool says Terminate.
ToolResult ==
    /\ pc = "tools" /\ ~cancelled
    /\ session' = Append(session, toolResult(turns, done + 1))
    /\ context' = context \union {Len(session) + 1}
    /\ done' = done + 1
    /\ IF done + 1 < calls THEN UNCHANGED <<pc, more>>
       ELSE pc' = "turnEnd" /\ more' \in BOOLEAN
    /\ UNCHANGED <<phase, op, runVars, cancelled, queue, pendingSessionWrites, todo,
                   draining, snapshot, calls, otherVars, turns, lost>>

\* executeToolCallsSequential leaves its loop when the run is cancelled after a
\* result was stored: the batch is cut short without an error.
ToolBatchCut ==
    /\ pc = "tools" /\ cancelled /\ ~Parallel /\ done > 0
    /\ pc' = "turnEnd" /\ more' \in BOOLEAN
    /\ UNCHANGED <<phase, op, runVars, cancelled, queue, pendingSessionWrites, session,
                   context, todo, draining, snapshot, calls, done, otherVars, turns, lost>>

\* A session write of the loop fails, or a subscriber at turn_start.
WriteFails ==
    /\ \/ pc \in {"prompts", "pending", "request", "tools"} /\ StorageFails
       \/ pc = "drain" /\ HookFails
    /\ LoopError
    /\ UNCHANGED <<phase, op, runVars, cancelled, queue, pendingSessionWrites, session,
                   context, draining, snapshot, more, calls, done, otherVars, turns>>

\* turn_end is followed by prepareNextTurn, which rebuilds the context from the
\* session once the pending writes are flushed.
PrepareNextTurn ==
    /\ pc = "turnEnd" /\ pendingSessionWrites = <<>> /\ ~cancelled
    /\ context' = Visible(session) /\ draining' = "steer" /\ pc' = "drain"
    /\ UNCHANGED <<phase, op, runVars, cancelled, queue, pendingSessionWrites, session,
                   todo, snapshot, more, calls, done, otherVars, turns, lost>>

-----------------------------------------------------------------------------
\* flushPendingSessionWrites, called at every "flush point" of a run.

FlushPoints == {"turnEnd", "failedTurn", "agentEnd", "settle", "unwind"}

\* Mutant of FlushOne: the saved write stays pending.
FlushOneAgain ==
    /\ pc \in FlushPoints /\ pendingSessionWrites # <<>> /\ ~cancelled
    /\ session' = Append(session, Head(pendingSessionWrites))
    /\ UNCHANGED <<phase, pc, op, runVars, cancelled, queue, pendingSessionWrites, context,
                   loopVars, otherVars, turns, lost>>

FlushOne ==
    /\ pc \in FlushPoints /\ pendingSessionWrites # <<>> /\ ~cancelled
    /\ session' = Append(session, Head(pendingSessionWrites))
    /\ pendingSessionWrites' = Tail(pendingSessionWrites)
    /\ UNCHANGED <<phase, pc, op, runVars, cancelled, queue, context, loopVars, otherVars,
                   turns, lost>>

\* With nothing left to flush: the loop ends, then the call returns.
FlushDone ==
    /\ pendingSessionWrites = <<>>
    /\ \/ pc = "failedTurn" /\ pc' = "agentEnd" /\ UNCHANGED results
       \/ pc = "agentEnd" /\ pc' = "settle" /\ UNCHANGED results
       \/ pc = "settle" /\ Finish("ok")
       \/ pc = "unwind" /\ Finish("error")
    /\ UNCHANGED <<phase, op, nextRunID, activeRunID, cancelled, queue, session, context,
                   pendingSessionWrites, loopVars, otherVars, turns, lost>>

\* The flush fails, or createContext or a subscriber right after it: an error
\* of turn_end is ignored after a failing response, and ends the loop elsewhere.
FlushFails ==
    /\ StorageFails
    /\ \/ /\ pc \in {"turnEnd", "agentEnd"}
          /\ (pc = "turnEnd" \/ Faults \/ pendingSessionWrites # <<>>)
          /\ pc' = "unwind" /\ UNCHANGED results
       \/ pc = "failedTurn" /\ pendingSessionWrites # <<>> /\ pc' = "agentEnd" /\ UNCHANGED results
       \/ pc \in {"settle", "unwind"} /\ pendingSessionWrites # <<>> /\ Finish("error")
    /\ UNCHANGED <<phase, op, nextRunID, activeRunID, cancelled, queue, session, context,
                   pendingSessionWrites, loopVars, otherVars, turns, lost>>

-----------------------------------------------------------------------------
\* Calls of other goroutines and of callbacks.

\* Steer, FollowUp and NextTurn: the phase check and the read of the queue, then
\* the write of the longer queue.
EnqueueLoad(q) ==
    /\ caller = NoCaller /\ QueueFree /\ sent < MaxMsgs
    /\ q = "nextTurn" \/ phase # "idle"
    /\ caller' = [q |-> q, seen |-> Append(queue[q], user(sent + 1, q))]
    /\ sent' = sent + 1
    /\ UNCHANGED <<phase, pc, op, runVars, cancelled, queue, pendingSessionWrites, session,
                   context, loopVars, abort, notes, returned, turns, lost>>

EnqueueStore ==
    /\ caller # NoCaller
    /\ queue' = [queue EXCEPT ![caller.q] = caller.seen]
    /\ caller' = NoCaller
    /\ UNCHANGED <<phase, pc, op, runVars, cancelled, pendingSessionWrites, session,
                   context, loopVars, abort, sent, notes, returned, turns, lost>>

\* Mutant of AppendWrite: the phase is not looked at.
AppendWriteAtOnce(kind) ==
    /\ notes < MaxNotes /\ notes' = notes + 1
    /\ session' = Append(session, write(kind, notes + 1))
    /\ UNCHANGED <<phase, pc, op, runVars, cancelled, queue, pendingSessionWrites, context,
                   loopVars, caller, abort, sent, returned, turns, lost>>

\* AppendMessage, SetModel and SetThinkingLevel: at once when idle, else pending.
AppendWrite(kind) ==
    /\ notes < MaxNotes /\ notes' = notes + 1
    /\ IF phase = "idle"
       THEN session' = Append(session, write(kind, notes + 1)) /\ UNCHANGED pendingSessionWrites
       ELSE /\ pendingSessionWrites' = Append(pendingSessionWrites, write(kind, notes + 1))
            /\ UNCHANGED session
    /\ UNCHANGED <<phase, pc, op, runVars, cancelled, queue, context, loopVars, caller,
                   abort, sent, returned, turns, lost>>

\* Abort: copy the queues, clear them, cancel the registered run, wait for it.
AbortVars == <<phase, pc, op, runVars, pendingSessionWrites, session, context, loopVars,
               caller, sent, notes, turns, lost>>

\* Mutant of AbortClear: the queues are given back and kept.
AbortClearKeeps ==
    /\ abort.at = "clear"
    /\ returned' = returned \union Ids(abort.cleared.steer) \union Ids(abort.cleared.followUp)
    /\ abort' = [abort EXCEPT !.at = "cancel", !.cleared = NoneCleared]
    /\ UNCHANGED <<AbortVars, cancelled, queue>>

AbortCopy ==
    /\ abort.at = "idle" /\ QueueFree /\ abort.count < MaxAborts
    /\ abort' = [abort EXCEPT !.at = "clear", !.count = abort.count + 1,
                   !.cleared = [steer |-> queue["steer"], followUp |-> queue["followUp"]]]
    /\ UNCHANGED <<AbortVars, cancelled, queue, returned>>

AbortClear ==
    /\ abort.at = "clear"
    /\ queue' = [queue EXCEPT !["steer"] = <<>>, !["followUp"] = <<>>]
    /\ returned' = returned \union Ids(abort.cleared.steer) \union Ids(abort.cleared.followUp)
    /\ abort' = [abort EXCEPT !.at = "cancel", !.cleared = NoneCleared]
    /\ UNCHANGED <<AbortVars, cancelled>>

AbortCancel ==
    /\ abort.at = "cancel"
    /\ cancelled' = (cancelled \/ activeRunID # 0)
    /\ abort' = [abort EXCEPT !.at = "look"]
    /\ UNCHANGED <<AbortVars, queue, returned>>

\* WaitForIdle reads runDone after the cancel, and waits for that run.
AbortLook ==
    /\ abort.at = "look"
    /\ abort' = [abort EXCEPT !.at = "wait", !.waitFor = activeRunID]
    /\ UNCHANGED <<AbortVars, cancelled, queue, returned>>

AbortReturn ==
    /\ abort.at = "wait" /\ (abort.waitFor = 0 \/ activeRunID # abort.waitFor)
    /\ abort' = [abort EXCEPT !.at = "idle", !.waitFor = 0]
    /\ UNCHANGED <<AbortVars, cancelled, queue, returned>>

-----------------------------------------------------------------------------
Runner ==
    \/ StartRun \/ CreateContext \/ BeginFails \/ TakeNextTurn \/ SetIdle \/ CloseRun
    \/ CompactSucceeds \/ CompactFails
    \/ AppendTodo \/ DrainLoad \/ DrainStore \/ DrainDone \/ DrainFails
    \/ Respond \/ RespondAborted \/ ToolResult \/ ToolBatchCut \/ WriteFails
    \/ PrepareNextTurn \/ FlushOne \/ FlushDone \/ FlushFails

AbortStep == AbortClear \/ AbortCancel \/ AbortLook \/ AbortReturn

Next ==
    \/ Prompt \/ Continue \/ Compact \/ Runner
    \/ \E q \in Queues : EnqueueLoad(q)
    \/ EnqueueStore
    \/ \E kind \in {"note", "model"} : AppendWrite(kind)
    \/ AbortCopy \/ AbortStep

\* Goroutines that have begun a call are scheduled: the provider answers or its
\* stream fails, tools return, and Steer and Abort do not stop half way.
Fairness == WF_vars(Runner) /\ WF_vars(EnqueueStore) /\ WF_vars(AbortStep)

Spec == Init /\ [][Next]_vars /\ Fairness

-----------------------------------------------------------------------------
\* Correctness.

PCs == {"idle", "begin", "context", "nextTurn", "prompts", "drain", "drainStore",
        "drained", "pending", "request", "tools", "turnEnd", "failedTurn", "agentEnd", "settle",
        "unwind", "finish", "close", "summary"}

\* Every variable has its type.
RunTypeOK ==
    /\ phase \in {"idle", "turn", "compaction"} /\ pc \in PCs
    /\ op \in {"prompt", "continue", "compact"}
    /\ nextRunID \in Nat /\ activeRunID \in Nat /\ cancelled \in BOOLEAN
LoopTypeOK ==
    /\ context \in SUBSET Nat /\ draining \in {"steer", "followUp"}
    /\ more \in BOOLEAN /\ calls \in Nat /\ done \in Nat
CountTypeOK ==
    /\ sent \in Nat /\ notes \in Nat /\ turns \in Nat
    /\ returned \in SUBSET Nat /\ lost \in SUBSET (Nat \X Nat)
SessionTypeOK ==
    /\ session \in Seq(Entry)
    /\ pendingSessionWrites \in Seq(Write)
    /\ results \in Seq(Outcomes)
AbortRecord ==
    [at : {"idle", "clear", "cancel", "look", "wait"},
     cleared : [steer : Seq(UserMessage), followUp : Seq(UserMessage)],
     waitFor : Nat, count : Nat]
QueueTypeOK ==
    /\ queue \in [Queues -> Seq(UserMessage)]
    /\ todo \in Seq(UserMessage)
    /\ snapshot \in Seq(UserMessage)
    /\ caller \in {NoCaller} \union [q : Queues, seen : Seq(UserMessage)]
    /\ abort \in AbortRecord
TypeOK == RunTypeOK /\ LoopTypeOK /\ CountTypeOK /\ SessionTypeOK /\ QueueTypeOK

\* In the session every tool result stands right after the call it answers or
\* after the result before it: no queued message, deferred write or other
\* response gets in between, whatever is called while the tools run.
Answers(previous, result) ==
    /\ previous.of = result.of
    /\ \/ previous.role = "assistant" /\ result.n = 1 /\ previous.n > 0
       \/ previous.role = "toolResult" /\ result.n = previous.n + 1
Paired(s) == \A i \in DOMAIN s : s[i].role = "toolResult" => i > 1 /\ Answers(s[i - 1], s[i])
ToolResultsFollowCalls == Paired(session)

\* A request never carries a tool result without its call: neither a cut point
\* of a compaction nor a rebuilt context separates the two.
KeepsCalls(ctx) == \A i \in ctx : session[i].role = "toolResult" => i - 1 \in ctx
NoOrphanToolResult == pc = "request" => KeepsCalls(context)

\* The provider is never asked to answer an assistant message: the context of a
\* request ends with a user message, a tool result or a message of a callback.
RequestEndsWithInput ==
    pc = "request" => \E i \in context : IsLast(context, i) /\ session[i].role # "assistant"

\* Places of message m; every entry counts, so a copy shows as a second place.
Places(m) ==
    (UNION {{<<q, i>> : i \in {j \in DOMAIN queue[q] : queue[q][j].of = m}} : q \in Queues})
    \union {<<"todo", i>> : i \in {j \in DOMAIN todo : todo[j].of = m}}
    \union {<<"session", i>> : i \in {j \in DOMAIN session : session[j].role = "user" /\ session[j].of = m}}
    \union {<<"returned", i>> : i \in {j \in returned : j = m}}
    \union {<<"lost", i[1]>> : i \in {l \in lost : l[2] = m}}
    \union {<<"caller", i>> : i \in {j \in {1} : caller # NoCaller
                                     /\ caller.seen[Len(caller.seen)].of = m}}

\* A message handed to the harness is in exactly one place: a queue, the loop, the
\* session, the result of an Abort, or dropped by a failed run, which returns an error.
\* None disappears in silence and none is written or answered twice.
LossIsReported ==
    \A l \in lost : IF l[1] <= Len(results) THEN results[l[1]] = "error" ELSE pc = "unwind"
MessageConservation == LossIsReported /\ \A m \in 1 .. sent : Cardinality(Places(m)) = 1

\* Each queue is first in, first out, up to the order of the session.
QueueOrder ==
    \A i, j \in DOMAIN session :
        i < j /\ {session[i].role, session[j].role} = {"user"} /\ session[i].tag = session[j].tag
            => session[i].of < session[j].of

\* A deferred write is saved once: a flush never repeats one that it has saved
\* and never drops one that failed.
WriteConservation ==
    \A k \in 1 .. notes :
        Cardinality({i \in DOMAIN session : session[i].role \in {"note", "model"} /\ session[i].of = k})
      + Cardinality({i \in DOMAIN pendingSessionWrites : pendingSessionWrites[i].of = k}) = 1

\* The harness is an inbox: every step keeps each message it was handed where
\* the abstract inbox may have it.
Holds(entries, m) == \E i \in DOMAIN entries : entries[i].role = "user" /\ entries[i].of = m
StatusOf(m) ==
    IF m > sent THEN "new"
    ELSE IF Holds(session, m) THEN "delivered"
    ELSE IF m \in returned THEN "returned"
    ELSE IF \E l \in lost : l[2] = m THEN "dropped"
    ELSE "held"
AbstractInbox == INSTANCE Inbox WITH Messages <- 1 .. MaxMsgs,
                                     status <- [m \in 1 .. MaxMsgs |-> StatusOf(m)]
ImplementsInbox == AbstractInbox!Spec

\* A message that Abort cleared and reported as cleared ("/abort ... clears
\* queued messages") is in no queue any more.
AbortClearsQueues == \A m \in returned, q \in Queues : m \notin Ids(queue[q])

\* As README.md says of the agent runtime, the loop goes on while messages are
\* queued: it does not decide to end, uncancelled, with one in a queue.
LoopServesQueues ==
    [][pc # "agentEnd" /\ pc' = "agentEnd" /\ ~cancelled
         => queue["steer"] = <<>> /\ queue["followUp"] = <<>>]_vars

\* Every call that has begun returns: a run settles whatever fails or is cancelled, its
\* phase is reset, and an Abort, which waits only for runs that settle, comes back.
EveryCallReturns == []<>(pc = "idle" /\ phase = "idle" /\ abort.at = "idle")
=============================================================================
