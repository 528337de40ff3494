----------------------------- MODULE ActiveRuns -----------------------------
(***************************************************************************)
(* One room of the connector (pkg/connector/client.go): the portal event   *)
(* loop that turns Matrix messages into steered messages or new runs, the  *)
(* goroutine of each run, and the abort command.  A run owns an            *)
(* AgentHarness of which only what the connector sees is kept: its phase,  *)
(* its steer queue, and whether a run of it is registered and cancelled    *)
(* (AgentHarness.tla has the rest).                                        *)
(***************************************************************************)
EXTENDS Naturals, Sequences, FiniteSets

CONSTANTS
    MaxMsgs,         \* bound: messages sent to the room, each may start a run
    MaxTurns,        \* bound: responses of one run that call tools
    MaxAborts,       \* bound: abort commands
    BridgeCommands   \* TRUE: "!ai abort" runs beside the portal event loop

RoomAssumption ==
    /\ {MaxMsgs, MaxTurns, MaxAborts} \subseteq Nat
    /\ BridgeCommands \in BOOLEAN
ASSUME RoomAssumption

VARIABLES
    portal,         \* the event loop: where it is, its message, the run it looks at
    sent,           \* messages received; message m is the m-th
    activeRun,      \* cl.activeRuns of the room, 0 for none
    activeHarness,  \* cl.activeHarnesses of the room
    born,           \* runs created so far; run r is the r-th
    pc,             \* where each run's goroutine is
    op,             \* the harness call it makes: prompt, compact or continue
    outcome,        \* how that call ended
    overflowed,     \* overflowRecoveryAttempted
    failed,         \* terminalAssistantError: its last stream ended with an error
    turns,          \* responses with tool calls
    phase,          \* h.phase of its harness
    steer,          \* h.steerQueue
    todo,           \* the message the loop has taken
    registered,     \* h.cancelRun and h.runDone are set
    runID,          \* h.nextRunID
    cancelled,      \* the context of the harness run is cancelled
    pending,        \* active.pending
    consumed,       \* active.consumed
    status,         \* the status of each message the user sees
    echo,           \* the message whose session entry each echo carries, 0 for none
    answers,        \* how often each message was written to the session
    abort           \* the goroutine inside the abort command

Messages == 1 .. MaxMsgs
Runs     == 1 .. MaxMsgs

portalVars  == <<portal, sent, activeRun, activeHarness, born>>
callVars    == <<op, outcome, overflowed, failed, turns>>
harnessVars == <<phase, steer, todo, registered, runID, cancelled>>
listVars    == <<pending, consumed>>
statusVars  == <<status, echo, answers>>
vars == <<portalVars, pc, callVars, harnessVars, listVars, statusVars, abort>>

Elements(s) == {s[i] : i \in DOMAIN s}
Final       == {"echoed", "failed"}
Overflows   == {"overflow", "blocked"}

At(place)  == [portal EXCEPT !.at = place]
Fail(S)    == status' = [m \in Messages |-> IF m \in S THEN "failed" ELSE status[m]]

\* removePending takes the first that is this message.
Without(s, m) ==
    LET first == CHOOSE i \in DOMAIN s : s[i] = m /\ \A j \in 1 .. (i - 1) : s[j] # m
    IN  IF m \in Elements(s) THEN SubSeq(s, 1, first - 1) \o SubSeq(s, first + 1, Len(s)) ELSE s

Init ==
    /\ portal = [at |-> "idle", msg |-> 0, run |-> 0] /\ sent = 0
    /\ activeRun = 0 /\ activeHarness = 0 /\ born = 0
    /\ pc = [r \in Runs |-> "none"]
    /\ op = [r \in Runs |-> "prompt"] /\ outcome = [r \in Runs |-> "ok"]
    /\ overflowed = [r \in Runs |-> FALSE] /\ failed = [r \in Runs |-> FALSE]
    /\ turns = [r \in Runs |-> 0]
    /\ phase = [r \in Runs |-> "idle"] /\ steer = [r \in Runs |-> <<>>]
    /\ todo = [r \in Runs |-> 0] /\ registered = [r \in Runs |-> FALSE]
    /\ runID = [r \in Runs |-> 0] /\ cancelled = [r \in Runs |-> FALSE]
    /\ pending = [r \in Runs |-> <<>>] /\ consumed = [r \in Runs |-> <<>>]
    /\ status = [m \in Messages |-> "new"] /\ echo = [m \in Messages |-> 0]
    /\ answers = [m \in Messages |-> 0]
    /\ abort = [at |-> "idle", run |-> 0, waitFor |-> 0, count |-> 0, inLoop |-> FALSE]

-----------------------------------------------------------------------------
\* The portal event loop: handleMatrixMessageWithConfig and startAsyncPrompt.

\* A message arrives and getActiveRun is asked for the run of the room.
Receive ==
    /\ portal.at = "idle" /\ sent < MaxMsgs
    /\ sent' = sent + 1
    /\ portal' = [at |-> IF activeRun = 0 THEN "start" ELSE "add", msg |-> sent + 1,
                  run |-> activeRun]
    /\ UNCHANGED <<activeRun, activeHarness, born, pc, callVars, harnessVars, listVars,
                   statusVars, abort>>

AddPending ==
    /\ portal.at = "add" /\ portal' = At("steer")
    /\ pending' = [pending EXCEPT ![portal.run] = Append(@, portal.msg)]
    /\ status' = [status EXCEPT ![portal.msg] = "pending"]
    /\ UNCHANGED <<sent, activeRun, activeHarness, born, pc, callVars, harnessVars, consumed,
                   echo, answers, abort>>

\* Mutant of Steer: the phase is not looked at.
SteerAlways ==
    /\ portal.at = "steer" /\ portal' = At("idle")
    /\ steer' = [steer EXCEPT ![portal.run] = Append(@, portal.msg)]
    /\ UNCHANGED <<sent, activeRun, activeHarness, born, pc, callVars, phase, todo, registered,
                   runID, cancelled, listVars, statusVars, abort>>

\* Steer puts the message in the queue of a busy harness and refuses otherwise.
Steer ==
    /\ portal.at = "steer"
    /\ IF phase[portal.run] = "idle" THEN portal' = At("retract") /\ UNCHANGED steer
       ELSE /\ steer' = [steer EXCEPT ![portal.run] = Append(@, portal.msg)]
            /\ portal' = At("idle")
    /\ UNCHANGED <<sent, activeRun, activeHarness, born, pc, callVars, phase, todo, registered,
                   runID, cancelled, listVars, statusVars, abort>>

\* Mutant of RemovePending: the first pending message goes, not this one.
RemoveFirstPending ==
    /\ portal.at = "retract" /\ portal' = At("forget")
    /\ pending' = [pending EXCEPT ![portal.run] = SubSeq(@, 2, Len(@))]
    /\ UNCHANGED <<sent, activeRun, activeHarness, born, pc, callVars, harnessVars, consumed,
                   statusVars, abort>>

RemovePending ==
    /\ portal.at = "retract" /\ portal' = At("forget")
    /\ pending' = [pending EXCEPT ![portal.run] = Without(@, portal.msg)]
    /\ UNCHANGED <<sent, activeRun, activeHarness, born, pc, callVars, harnessVars, consumed,
                   statusVars, abort>>

ClearActiveRun ==
    /\ portal.at = "forget" /\ portal' = At("start")
    /\ activeRun' = IF activeRun = portal.run THEN 0 ELSE activeRun
    /\ UNCHANGED <<sent, activeHarness, born, pc, callVars, harnessVars, listVars, statusVars,
                   abort>>

\* startAsyncPrompt makes the run and publishes its harness, then the run ...
SetActiveHarness ==
    /\ portal.at = "start" /\ portal' = [At("publish") EXCEPT !.run = born + 1]
    /\ born' = born + 1 /\ activeHarness' = born + 1
    /\ pending' = [pending EXCEPT ![born + 1] = <<portal.msg>>]
    /\ todo' = [todo EXCEPT ![born + 1] = portal.msg]
    /\ status' = [status EXCEPT ![portal.msg] = "pending"]
    /\ UNCHANGED <<sent, activeRun, pc, callVars, phase, steer, registered, runID, cancelled,
                   consumed, echo, answers, abort>>

\* ... and starts its goroutine.
SetActiveRun ==
    /\ portal.at = "publish" /\ portal' = At("idle")
    /\ activeRun' = portal.run
    /\ pc' = [pc EXCEPT ![portal.run] = "spawned"]
    /\ UNCHANGED <<sent, activeHarness, born, callVars, harnessVars, listVars, statusVars,
                   abort>>

\* NewAgentHarness fails.
StartFails ==
    /\ portal.at = "start" /\ portal' = At("idle") /\ Fail({portal.msg})
    /\ UNCHANGED <<sent, activeRun, activeHarness, born, pc, callVars, harnessVars, listVars,
                   echo, answers, abort>>

-----------------------------------------------------------------------------
\* The goroutine of run r: runAsyncPrompt around the calls of its harness.

Goto(r, place) == pc' = [pc EXCEPT ![r] = place]
Ends(r, result) == Goto(r, "settle") /\ outcome' = [outcome EXCEPT ![r] = result]

\* PromptWithResult, Compact or ContinueWithResult sets the phase ...
EnterHarness(r) ==
    /\ pc[r] \in {"spawned", "compact", "continue"} /\ Goto(r, "begin")
    /\ op' = [op EXCEPT ![r] = IF pc[r] = "spawned" THEN "prompt" ELSE pc[r]]
    /\ phase' = [phase EXCEPT ![r] = IF pc[r] = "compact" THEN "compaction" ELSE "turn"]
    /\ UNCHANGED <<portalVars, outcome, overflowed, failed, turns, steer, todo, registered, runID,
                   cancelled, listVars, statusVars, abort>>

\* ... and startRun registers what Abort can cancel.
StartRun(r) ==
    /\ pc[r] = "begin"
    /\ Goto(r, CASE op[r] = "prompt" -> "prompt" [] op[r] = "continue" -> "drainMore"
                 [] op[r] = "compact" -> "compacting")
    /\ registered' = [registered EXCEPT ![r] = TRUE]
    /\ runID' = [runID EXCEPT ![r] = @ + 1]
    /\ cancelled' = [cancelled EXCEPT ![r] = FALSE]
    /\ UNCHANGED <<portalVars, callVars, phase, steer, todo, listVars, statusVars, abort>>

\* The prompt, or a message drained, is written to the session ...
Write(r) ==
    /\ pc[r] \in {"prompt", "deliver"} /\ ~cancelled[r]
    /\ answers' = [answers EXCEPT ![todo[r]] = @ + 1]
    /\ Goto(r, IF pc[r] = "prompt" THEN "promptEcho" ELSE "echo")
    /\ UNCHANGED <<portalVars, callVars, harnessVars, listVars, status, echo, abort>>

\* ... and markConsumed takes the first pending message for it.
MarkConsumed(r) ==
    /\ pc[r] \in {"promptEcho", "echo"}
    /\ IF pending[r] = <<>> THEN UNCHANGED <<listVars, status, echo>>
       ELSE LET p == Head(pending[r]) IN
            /\ pending' = [pending EXCEPT ![r] = Tail(@)]
            /\ consumed' = [consumed EXCEPT ![r] = Append(@, p)]
            /\ status' = [status EXCEPT ![p] = "echoed"]
            /\ echo' = [echo EXCEPT ![p] = todo[r]]
    /\ todo' = [todo EXCEPT ![r] = 0]
    /\ Goto(r, IF pc[r] = "promptEcho" THEN "drainMore" ELSE "request")
    /\ UNCHANGED <<portalVars, callVars, phase, steer, registered, runID, cancelled, answers,
                   abort>>

\* drainSteering, before the first request and after every turn.
Drain(r) ==
    /\ pc[r] \in {"drainMore", "drainLast"}
    /\ IF steer[r] # <<>>
       THEN /\ todo' = [todo EXCEPT ![r] = Head(steer[r])]
            /\ steer' = [steer EXCEPT ![r] = Tail(@)]
            /\ Goto(r, "deliver") /\ UNCHANGED outcome
       ELSE /\ UNCHANGED <<todo, steer>>
            /\ IF pc[r] = "drainMore" THEN Goto(r, "request") /\ UNCHANGED outcome
               ELSE Ends(r, "ok")
    /\ UNCHANGED <<portalVars, op, overflowed, failed, turns, phase, registered, runID,
                   cancelled, listVars, statusVars, abort>>

\* assistantStreamPublisher asks the provider unless the last stream of the
\* active run of the room ended with an error.
StreamBlocked == activeRun # 0 /\ failed[activeRun]

\* The stream of the active run ends with an error, if it was set up.
StreamFails(r) ==
    IF activeRun = r THEN failed' \in {failed, [failed EXCEPT ![r] = TRUE]}
    ELSE UNCHANGED failed

\* A response: tool calls, a stop, the length limit, an error or an overflow.
Respond(r) ==
    /\ pc[r] = "request" /\ ~cancelled[r] /\ ~StreamBlocked
    /\ \/ /\ turns[r] < MaxTurns /\ turns' = [turns EXCEPT ![r] = @ + 1]
          /\ Goto(r, "drainMore") /\ UNCHANGED <<outcome, failed>>
       \/ Goto(r, "drainLast") /\ UNCHANGED <<outcome, failed, turns>>
       \/ Ends(r, "ok") /\ UNCHANGED <<failed, turns>>
       \/ Ends(r, "error") /\ StreamFails(r) /\ UNCHANGED turns
       \/ /\ Ends(r, "overflow") /\ UNCHANGED turns
          /\ failed' = IF activeRun = r THEN [failed EXCEPT ![r] = TRUE] ELSE failed
    /\ UNCHANGED <<portalVars, op, overflowed, harnessVars, listVars, statusVars, abort>>

\* The error of the last stream is given again, as the response to this request.
RespondBlocked(r) ==
    /\ pc[r] = "request" /\ ~cancelled[r] /\ StreamBlocked
    /\ Ends(r, "blocked")
    /\ UNCHANGED <<portalVars, op, overflowed, failed, turns, harnessVars, listVars,
                   statusVars, abort>>

\* A cancelled call of the harness fails at its next request or session write;
\* a response that was aborted may end it without an error.
CallCut(r) ==
    /\ pc[r] \in {"prompt", "deliver", "drainMore", "drainLast", "request"} /\ cancelled[r]
    /\ \E result \in {"error", "aborted"} : Ends(r, result)
    /\ IF pc[r] = "request" THEN StreamFails(r) ELSE UNCHANGED failed
    /\ todo' = [todo EXCEPT ![r] = 0]
    /\ UNCHANGED <<portalVars, op, overflowed, turns, phase, steer, registered, runID,
                   cancelled, listVars, statusVars, abort>>

\* Compact of runAutoCompaction: an entry is written, or it fails.
CompactEnds(r) ==
    /\ pc[r] = "compacting"
    /\ \/ ~cancelled[r] /\ UNCHANGED outcome
       \/ outcome' = [outcome EXCEPT ![r] = IF @ \in Overflows THEN "error" ELSE @]
    /\ Goto(r, "settle")
    /\ UNCHANGED <<portalVars, op, overflowed, failed, turns, harnessVars, listVars, statusVars,
                   abort>>

\* The harness call returns: phase goes idle, then the run is unregistered.
SetIdle(r) ==
    /\ pc[r] = "settle" /\ Goto(r, "close") /\ phase' = [phase EXCEPT ![r] = "idle"]
    /\ UNCHANGED <<portalVars, callVars, steer, todo, registered, runID, cancelled, listVars,
                   statusVars, abort>>

FinishRun(r) ==
    /\ pc[r] = "close" /\ Goto(r, "returned")
    /\ registered' = [registered EXCEPT ![r] = FALSE]
    /\ UNCHANGED <<portalVars, callVars, phase, steer, todo, runID, cancelled, listVars,
                   statusVars, abort>>

\* What runAsyncPrompt does next: compact a long context and end, compact and
\* continue once after an overflow, or fail what it consumed.
AfterCall(r) ==
    /\ pc[r] = "returned"
    /\ \/ outcome[r] = "aborted" /\ Goto(r, "end") /\ UNCHANGED overflowed
       \/ outcome[r] = "error" /\ Goto(r, "fail") /\ UNCHANGED overflowed
       \/ /\ outcome[r] = "ok" /\ UNCHANGED overflowed
          /\ \/ Goto(r, "end")
             \/ op[r] # "compact" /\ Goto(r, "compact")
       \/ outcome[r] \in Overflows /\ op[r] = "compact" /\ Goto(r, "continue") /\ UNCHANGED overflowed
       \/ /\ outcome[r] \in Overflows /\ op[r] # "compact"
          /\ overflowed' = [overflowed EXCEPT ![r] = TRUE]
          /\ \/ Goto(r, "fail")
             \/ ~overflowed[r] /\ Goto(r, "compact")
    /\ UNCHANGED <<portalVars, op, outcome, failed, turns, harnessVars, listVars, statusVars,
                   abort>>

FailConsumed(r) ==
    /\ pc[r] = "fail" /\ Goto(r, "end")
    /\ Fail(Elements(consumed[r])) /\ consumed' = [consumed EXCEPT ![r] = <<>>]
    /\ UNCHANGED <<portalVars, callVars, harnessVars, pending, echo, answers, abort>>

\* Mutant of FailAll: the deferred call is missing.
FailNone(r) ==
    /\ pc[r] = "end" /\ Goto(r, "clearRun")
    /\ UNCHANGED <<portalVars, callVars, harnessVars, listVars, statusVars, abort>>

\* The deferred calls of runAsyncPrompt: failAll, clearActiveRun, clearActiveHarness.
\* What only the ended calls looked at is forgotten with them.
FailAll(r) ==
    /\ pc[r] = "end" /\ Goto(r, "clearRun")
    /\ Fail(Elements(pending[r])) /\ pending' = [pending EXCEPT ![r] = <<>>]
    /\ op' = [op EXCEPT ![r] = "prompt"] /\ outcome' = [outcome EXCEPT ![r] = "ok"]
    /\ overflowed' = [overflowed EXCEPT ![r] = FALSE] /\ failed' = [failed EXCEPT ![r] = FALSE]
    /\ turns' = [turns EXCEPT ![r] = 0] /\ cancelled' = [cancelled EXCEPT ![r] = FALSE]
    /\ runID' = [runID EXCEPT ![r] = 0] /\ consumed' = [consumed EXCEPT ![r] = <<>>]
    /\ UNCHANGED <<portalVars, phase, steer, todo, registered, echo, answers, abort>>

ClearRun(r) ==
    /\ pc[r] = "clearRun" /\ Goto(r, "clearHarness")
    /\ activeRun' = IF activeRun = r THEN 0 ELSE activeRun
    /\ UNCHANGED <<portal, sent, activeHarness, born, callVars, harnessVars, listVars,
                   statusVars, abort>>

ClearHarness(r) ==
    /\ pc[r] = "clearHarness" /\ Goto(r, "dead")
    /\ activeHarness' = IF activeHarness = r THEN 0 ELSE activeHarness
    /\ UNCHANGED <<portal, sent, activeRun, born, callVars, harnessVars, listVars, statusVars,
                   abort>>

-----------------------------------------------------------------------------
\* runAbortCommand: in the event loop ("/abort") or beside it ("!ai abort").

AbortBegins ==
    /\ abort.at = "idle" /\ abort.count < MaxAborts /\ activeHarness # 0
    /\ \/ portal.at = "idle" /\ portal' = At("abort")
       \/ BridgeCommands /\ UNCHANGED portal
    /\ abort' = [at |-> "clear", run |-> activeHarness, waitFor |-> 0,
                 count |-> abort.count + 1, inLoop |-> portal' # portal]
    /\ UNCHANGED <<sent, activeRun, activeHarness, born, pc, callVars, harnessVars, listVars,
                   statusVars>>

\* Abort clears the queue, cancels a registered run and waits for its end.
AbortClears ==
    /\ abort.at = "clear" /\ abort' = [abort EXCEPT !.at = "cancel"]
    /\ steer' = [steer EXCEPT ![abort.run] = <<>>]
    /\ UNCHANGED <<portalVars, pc, callVars, phase, todo, registered, runID, cancelled,
                   listVars, statusVars>>

AbortCancels ==
    /\ abort.at = "cancel" /\ abort' = [abort EXCEPT !.at = "look"]
    /\ cancelled' = [cancelled EXCEPT ![abort.run] = @ \/ registered[abort.run]]
    /\ UNCHANGED <<portalVars, pc, callVars, phase, steer, todo, registered, runID, listVars,
                   statusVars>>

AbortLooks ==
    /\ abort.at = "look"
    /\ abort' = [abort EXCEPT !.at = "wait",
                   !.waitFor = IF registered[abort.run] THEN runID[abort.run] ELSE 0]
    /\ UNCHANGED <<portalVars, pc, callVars, harnessVars, listVars, statusVars>>

\* Abort returns; the command looks up the active run ...
AbortReturns ==
    /\ abort.at = "wait"
    /\ ~registered[abort.run] \/ runID[abort.run] # abort.waitFor \/ abort.waitFor = 0
    /\ abort' = [abort EXCEPT !.at = "fail", !.run = activeRun]
    /\ UNCHANGED <<portalVars, pc, callVars, harnessVars, listVars, statusVars>>

\* ... and fails what it still has pending.
AbortFails ==
    /\ abort.at = "fail" /\ abort' = [abort EXCEPT !.at = "idle", !.run = 0, !.waitFor = 0, !.inLoop = FALSE]
    /\ portal' = IF abort.inLoop THEN At("idle") ELSE portal
    /\ IF abort.run = 0 THEN UNCHANGED <<pending, status>>
       ELSE /\ pending' = [pending EXCEPT ![abort.run] = <<>>]
            /\ Fail(Elements(pending[abort.run]))
    /\ UNCHANGED <<sent, activeRun, activeHarness, born, pc, callVars, harnessVars, consumed,
                   echo, answers>>

-----------------------------------------------------------------------------
Portal ==
    \/ AddPending \/ Steer \/ RemovePending \/ ClearActiveRun
    \/ SetActiveHarness \/ SetActiveRun \/ StartFails
Run(r) ==
    \/ EnterHarness(r) \/ StartRun(r) \/ Write(r) \/ MarkConsumed(r) \/ Drain(r)
    \/ Respond(r) \/ RespondBlocked(r) \/ CallCut(r) \/ CompactEnds(r) \/ SetIdle(r) \/ FinishRun(r)
    \/ AfterCall(r) \/ FailConsumed(r) \/ FailAll(r) \/ ClearRun(r) \/ ClearHarness(r)
Abort == AbortClears \/ AbortCancels \/ AbortLooks \/ AbortReturns \/ AbortFails

Next == Receive \/ Portal \/ (\E r \in Runs : Run(r)) \/ AbortBegins \/ Abort

\* While a goroutine that has begun can go on, one of them is scheduled; nobody need
\* send or abort.  None of them polls, so no more is asked of the scheduler.
Fairness == WF_vars(Portal \/ (\E r \in Runs : Run(r)) \/ Abort)

Spec == Init /\ [][Next]_vars /\ Fairness

-----------------------------------------------------------------------------
\* Correctness.

\* A message is written to the session at most once, though it may have been offered to
\* a run that was ending before a run of its own was started for it, and its echo carries
\* the entry it was written as: markConsumed pairs the first pending message with the entry
\* just written, however the runs of the room overlap (until an abort clears one list and
\* not yet the other).
EchoesOwnEntry == \A m \in Messages : /\ answers[m] <= 1
                                      /\ abort.count = 0 => echo[m] \in {0, m}

\* A run that is over holds no message: what was steered into it in time was
\* consumed or failed, what came too late went to another run.
DeadRunsHoldNothing ==
    \A r \in Runs : pc[r] = "dead" =>
        \A m \in Elements(pending[r]) : portal.run = r /\ portal.msg = m /\ portal.at # "idle"

\* Every message ends with a status, sent or failed, whatever runs end, overflow or are
\* aborted around it, and the abort command answers: it never waits for a run that cannot end.
StatusSettles == []<>(abort.at = "idle" /\ \A m \in 1 .. sent : status[m] \in Final)

\* As runAsyncPrompt reports of an overflow that is not cured ("failed after one
\* compact-and-retry attempt"), a run that compacted its session tries again: its
\* continuation asks the provider.
RetryAsksProvider ==
    \A r \in Runs : op[r] = "continue" /\ pc[r] = "settle" => outcome[r] # "blocked"
=============================================================================
