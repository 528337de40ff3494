--------------------------- MODULE ActiveStreams ---------------------------
(***************************************************************************)
(* The records of answers being streamed, in one room.  An answer is       *)
(* anchored in the room, its record is stored as it streams, its messages  *)
(* go to the session, and a final edit ends it and deletes the record.     *)
(* After a restart, a reconnect or five silent minutes the records that    *)
(* are left are finished by somebody else: the session is repaired and the *)
(* anchor gets its edit.  The bridge may crash between any two steps, and  *)
(* /abort cancels the context everything of a turn uses.                   *)
(*                                                                         *)
(* The room's runs answer one message each.  The session is the branch     *)
(* they append to; the record keeps what recovery reads of the run.        *)
(***************************************************************************)
EXTENDS Integers, Sequences, FiniteSets, SequencesExt

CONSTANTS NRuns,      \* answers of the room, in the order they begin
          Callers,    \* answers that call tools
          MaxCalls,   \* turns of an answer that call a tool
          MaxFaults   \* crashes of the bridge and /abort commands

ASSUME RunsAreCounted == NRuns \in Nat

Runs == 1..NRuns

NoRecord == [stored |-> FALSE]

VARIABLES at,        \* where the goroutine of each run is
          turn,      \* the model turn of the run
          calls,     \* tool calls streamed so far, by turn
          entryOf,   \* session entry of the run's last assistant message
          outcome,   \* how the stream of the turn ended
          held,      \* hasAssistantRun: the run knows its stream
          cancelled, \* the context of the turn is cancelled
          activeRun, \* the run of the room, or 0
          session,   \* entries of the branch: role, run, turn
          record,    \* ai_active_stream
          edit,      \* the last final edit of each anchor
          recovery,  \* the goroutine that finishes records
          connected, \* this process has been through Connect
          faults,    \* so far
          owed       \* ghost: answers whose record promises them a final edit

runVars == <<at, turn, calls, entryOf, outcome, held, cancelled, activeRun>>
vars == <<runVars, session, record, edit, recovery, connected, faults, owed>>

NoRecovery == [at |-> "idle", cause |-> "none", todo |-> {}, rows |-> <<>>, live |-> {}, cur |-> 0,
               open |-> {}]

Init ==
  /\ at = [r \in Runs |-> "none"]
  /\ turn = [r \in Runs |-> 1]
  /\ calls = [r \in Runs |-> {}]
  /\ entryOf = [r \in Runs |-> 0]
  /\ outcome = [r \in Runs |-> "none"]
  /\ held = [r \in Runs |-> FALSE]
  /\ cancelled = [r \in Runs |-> FALSE]
  /\ activeRun = 0
  /\ session = <<>>
  /\ record = [r \in Runs |-> NoRecord]
  /\ edit = [r \in Runs |-> "none"]
  /\ recovery = NoRecovery
  /\ connected = TRUE
  /\ faults = 0
  /\ owed = {}

Entry(role, r) == [role |-> role, run |-> r, turn |-> turn[r]]

StoredUnfinished(r, status) ==
  [stored |-> TRUE, status |-> "streaming", entry |-> entryOf[r], calls |-> calls'[r]]

\* What persistActiveStream writes; with a cancelled context nothing is written.
Stored(r, status) ==
  [stored |-> TRUE, status |-> status, entry |-> entryOf[r], calls |-> calls'[r]]

Persist(r, status) ==
  IF cancelled[r]
  THEN UNCHANGED <<record, owed>>
  ELSE record' = [record EXCEPT ![r] = Stored(r, status)] /\ owed' = owed \cup {r}

Delete(r) == record' = [record EXCEPT ![r] = NoRecord]

-----------------------------------------------------------------------------
(* A run. *)

\* The harness of a run that is past its prompt refuses to be steered, so the
\* next message begins a run of its own.
Begin(r) ==
  /\ at[r] = "none" /\ \A q \in Runs : q < r => at[q] # "none"
  /\ activeRun # 0 => at[activeRun] \in {"failEdit", "failDelete", "idle"}
  /\ at' = [at EXCEPT ![r] = "anchor"]
  /\ activeRun' = r
  /\ session' = Append(session, Entry("user", r))
  /\ UNCHANGED <<turn, calls, entryOf, outcome, held, cancelled, record, edit, recovery,
                 connected, faults, owed>>

\* The anchor is in the room before anything is stored.
Anchor(r) ==
  /\ at[r] = "anchor"
  /\ at' = [at EXCEPT ![r] = "anchored"]
  /\ held' = [held EXCEPT ![r] = TRUE]
  /\ UNCHANGED <<turn, calls, entryOf, outcome, cancelled, activeRun, session, record, edit,
                 recovery, connected, faults, owed>>

\* Publishing stores the record the first time, and then every 25 events or 2 s.
Publish(r) ==
  /\ at[r] \in {"anchored", "streaming", "tools"} /\ ~cancelled[r]
  /\ at' = [at EXCEPT ![r] = IF @ = "anchored" THEN "streaming" ELSE @]
  /\ UNCHANGED calls
  /\ Persist(r, "streaming")
  /\ UNCHANGED <<turn, entryOf, outcome, held, cancelled, activeRun, session, edit, recovery,
                 connected, faults>>

StreamToolCall(r) ==
  /\ at[r] = "streaming" /\ r \in Callers /\ turn[r] <= MaxCalls /\ ~cancelled[r]
  /\ calls' = [calls EXCEPT ![r] = @ \cup {turn[r]}]
  /\ UNCHANGED <<at, turn, entryOf, outcome, held, cancelled, activeRun, session, record, edit,
                 recovery, connected, faults, owed>>

\* The end of a turn's stream is always stored when it is terminal.
StreamEnd(r) ==
  /\ at[r] = "streaming" /\ ~cancelled[r]
  /\ at' = [at EXCEPT ![r] = "message"]
  /\ UNCHANGED calls
  /\ IF turn[r] \in calls[r]
     THEN /\ outcome' = [outcome EXCEPT ![r] = "toolUse"]
          /\ UNCHANGED <<record, owed>> \/ Persist(r, "streaming")
     ELSE /\ outcome' = [outcome EXCEPT ![r] = "stop"]
          /\ Persist(r, "complete")
  /\ UNCHANGED <<turn, entryOf, held, cancelled, activeRun, session, edit, recovery, connected,
                 faults>>

\* The provider fails, or the context is cancelled and with it the publisher.
StreamFails(r) ==
  /\ at[r] \in {"anchored", "streaming"}
  /\ at' = [at EXCEPT ![r] = "message"]
  /\ outcome' = [outcome EXCEPT ![r] = "error"]
  /\ UNCHANGED calls
  /\ UNCHANGED <<record, owed>> \/ (at[r] = "streaming" /\ Persist(r, "error"))
  /\ UNCHANGED <<turn, entryOf, held, cancelled, activeRun, session, edit, recovery, connected,
                 faults>>

Role(r) == IF outcome[r] = "toolUse" THEN "toolUse"
           ELSE IF outcome[r] = "stop" THEN "assistant" ELSE "error"

LastEntry == Len(session')

\* message_end appends the assistant's message; the run notes its entry.
MessageEnd(r) ==
  /\ at[r] = "message" /\ ~cancelled[r]
  /\ session' = Append(session, Entry(Role(r), r))
  /\ entryOf' = [entryOf EXCEPT ![r] = LastEntry]
  /\ at' = [at EXCEPT ![r] = IF outcome[r] = "toolUse" THEN "tools"
                             ELSE IF outcome[r] = "error" /\ turn[r] \in calls[r] THEN "failEdit"
                             ELSE "finalEdit"]
  /\ held' = [held EXCEPT ![r] = at'[r] # "failEdit"]
  /\ UNCHANGED <<turn, calls, outcome, cancelled, activeRun, record, edit, recovery, connected,
                 faults, owed>>

ToolsEnd(r) ==
  /\ at[r] = "tools" /\ ~cancelled[r]
  /\ session' = Append(session, Entry("result", r))
  /\ turn' = [turn EXCEPT ![r] = @ + 1]
  /\ at' = [at EXCEPT ![r] = "streaming"]
  /\ UNCHANGED <<calls, entryOf, outcome, held, cancelled, activeRun, record, edit, recovery,
                 connected, faults, owed>>

\* Appending fails with a cancelled context, and PromptWithResult with it;
\* failOpenAssistant takes the stream from the run.
PromptFails(r) ==
  /\ at[r] \in {"message", "tools"} /\ cancelled[r]
  /\ at' = [at EXCEPT ![r] = "failEdit"]
  /\ held' = [held EXCEPT ![r] = FALSE]
  /\ UNCHANGED <<turn, calls, entryOf, outcome, cancelled, activeRun, session, record, edit,
                 recovery, connected, faults, owed>>

\* An anchor that is not in the database has its record deleted; nobody edits it.
AnchorMissing(r, next) ==
  /\ at' = [at EXCEPT ![r] = next]
  /\ Delete(r) /\ owed' = owed \ {r}
  /\ UNCHANGED edit

Edited(r, kind, next) ==
  /\ at' = [at EXCEPT ![r] = next]
  /\ edit' = [edit EXCEPT ![r] = kind]
  /\ UNCHANGED <<record, owed>>

\* With a cancelled context the anchor cannot be awaited, and there is no edit.
FinalizeAssistant(r) ==
  /\ at[r] = "finalEdit"
  /\ \/ /\ cancelled[r]
        /\ at' = [at EXCEPT ![r] = "idle"]
        /\ UNCHANGED <<record, edit, owed>>
     \/ /\ ~cancelled[r]
        /\ \/ Edited(r, IF outcome[r] = "error" THEN "error" ELSE "done", "finalDelete")
           \/ AnchorMissing(r, "idle")
  /\ UNCHANGED <<turn, calls, entryOf, outcome, held, cancelled, activeRun, session, recovery,
                 connected, faults>>

\* failOpenAssistant has a context of its own.
FailOpenAssistant(r) ==
  /\ at[r] = "failEdit"
  /\ Edited(r, "error", "failDelete") \/ AnchorMissing(r, "idle")
  /\ UNCHANGED <<turn, calls, entryOf, outcome, held, cancelled, activeRun, session, recovery,
                 connected, faults>>

DeleteActiveStream(r) ==
  /\ at[r] \in {"finalDelete", "failDelete"}
  /\ IF at[r] = "finalDelete" /\ cancelled[r] THEN UNCHANGED record ELSE Delete(r)
  /\ at' = [at EXCEPT ![r] = "idle"]
  /\ UNCHANGED <<turn, calls, entryOf, outcome, held, cancelled, activeRun, session, edit,
                 recovery, connected, faults, owed>>

EndStaysActive(r) ==
  /\ at[r] = "idle"
  /\ at' = [at EXCEPT ![r] = "ended"]
  /\ cancelled' = [cancelled EXCEPT ![r] = FALSE]
  /\ UNCHANGED <<turn, calls, entryOf, outcome, held, activeRun, session, record, edit, recovery,
                 connected, faults, owed>>

\* clearActiveRun; nothing of the run is read again.
End(r) ==
  /\ at[r] = "idle"
  /\ at' = [at EXCEPT ![r] = "ended"]
  /\ activeRun' = IF activeRun = r THEN 0 ELSE activeRun
  /\ turn' = [turn EXCEPT ![r] = 1] /\ calls' = [calls EXCEPT ![r] = {}]
  /\ entryOf' = [entryOf EXCEPT ![r] = 0] /\ outcome' = [outcome EXCEPT ![r] = "none"]
  /\ held' = [held EXCEPT ![r] = FALSE] /\ cancelled' = [cancelled EXCEPT ![r] = FALSE]
  /\ UNCHANGED <<session, record, edit, recovery, connected, faults, owed>>

RunStep(r) ==
  \/ Anchor(r) \/ StreamEnd(r) \/ StreamFails(r) \/ MessageEnd(r) \/ ToolsEnd(r)
  \/ PromptFails(r) \/ FinalizeAssistant(r) \/ FailOpenAssistant(r) \/ DeleteActiveStream(r)
  \/ End(r)

\* runAbortCommand cancels the turn of the room's run.
Abort ==
  /\ activeRun # 0 /\ faults < MaxFaults
  /\ at[activeRun] \in {"anchored", "streaming", "message", "tools", "finalEdit", "finalDelete"}
  /\ ~cancelled[activeRun]
  /\ cancelled' = [cancelled EXCEPT ![activeRun] = TRUE]
  /\ faults' = faults + 1
  /\ UNCHANGED <<at, turn, calls, entryOf, outcome, held, activeRun, session, record, edit,
                 recovery, connected, owed>>

-----------------------------------------------------------------------------
(* Finishing the records of others. *)

Recovering(r) == recovery.at \in {"check", "results", "edit"} /\ recovery.cur = r

Alive(r) == at[r] \notin {"none", "ended", "dead"}

Listed == {r \in Runs : record[r].stored}

\* The list is read once; what becomes of the runs while it is worked through
\* does not change it (live is a ghost: whose run was alive then).
List(cause, todo) ==
  /\ recovery.at = "idle"
  /\ recovery' = IF todo = {} THEN NoRecovery
                 ELSE [at |-> "next", cause |-> cause, todo |-> todo,
                       rows |-> [r \in todo |-> record[r]], live |-> {r \in todo : Alive(r)},
                       cur |-> 0, open |-> {}]
  /\ UNCHANGED <<runVars, session, record, edit, faults, owed>>

\* failPersistedActiveStreams: all records, once, before the janitor starts.
Connect ==
  /\ ~connected /\ connected' = TRUE
  /\ List("restart", Listed)

\* failStaleActiveStreams: records five minutes old, whichever those are.  A run
\* waits that long for its provider or its tools only; a record that is old in
\* its other steps was so before them, with the same contents.
Silent == {r \in Listed : at[r] \in {"streaming", "tools", "ended", "dead"}}

Janitor(todo) ==
  /\ connected /\ UNCHANGED connected
  /\ todo # {} /\ todo \subseteq Silent
  /\ List("timeout", todo)

Finished == IF recovery.todo = {} THEN NoRecovery
            ELSE [recovery EXCEPT !.at = "next", !.cur = 0]

\* A record is left to the run of the room if that one knows it.  Deleting a
\* record that is gone already is no error.
Take(r) ==
  /\ recovery.at = "next" /\ r \in recovery.todo
  /\ LET rest == [recovery EXCEPT !.todo = @ \ {r}]
     IN  IF activeRun = r /\ held[r]
         THEN /\ recovery' = IF rest.todo = {} THEN NoRecovery ELSE rest
              /\ UNCHANGED record
         ELSE /\ recovery' = [rest EXCEPT !.cur = r, !.at = IF recovery.rows[r].status = "streaming"
                                                           THEN "check" ELSE "edit"]
              /\ Delete(r)
  /\ UNCHANGED <<runVars, session, edit, connected, faults, owed>>

Row == recovery.rows[recovery.cur]

\* sessionBranchCanAppendRecovery: what follows the assistant's entry may only
\* be tool results; without an entry the whole branch is looked at, and only
\* an earlier recovery with the same words stops this one.
After == SubSeq(session, Row.entry + 1, Len(session))

CanAppend ==
  /\ Row.entry <= Len(session)
  /\ ~ \E i \in DOMAIN After : After[i].role = "recovered" /\ After[i].cause = recovery.cause
  /\ Row.entry # 0 => \A i \in DOMAIN After : After[i].role = "result"

AnsweredUnseen == {}

Answered == {After[i].turn : i \in {j \in DOMAIN After : After[j].role = "result"
                                                      /\ After[j].run = recovery.cur}}

Check ==
  /\ recovery.at = "check"
  /\ recovery' = IF CanAppend
                 THEN [recovery EXCEPT !.at = "results", !.open = Row.calls \ Answered]
                 ELSE [recovery EXCEPT !.at = "edit"]
  /\ UNCHANGED <<runVars, session, record, edit, connected, faults, owed>>

\* interruptedToolResultMessages, then the error that ends the turn.
RepairResult ==
  /\ recovery.at = "results" /\ recovery.open # {}
  /\ \E call \in recovery.open :
       /\ \A c \in recovery.open : call <= c
       /\ session' = Append(session, [role |-> "result", run |-> recovery.cur, turn |-> call])
       /\ recovery' = [recovery EXCEPT !.open = @ \ {call}]
  /\ UNCHANGED <<runVars, record, edit, connected, faults, owed>>

RepairTurn ==
  /\ recovery.at = "results" /\ recovery.open = {}
  /\ session' = Append(session, [role |-> "recovered", run |-> recovery.cur, turn |-> 0,
                                 cause |-> recovery.cause])
  /\ recovery' = [recovery EXCEPT !.at = "edit"]
  /\ UNCHANGED <<runVars, record, edit, connected, faults, owed>>

\* queueTerminalActiveStreamFinal repeats the edit the run could not send.
RecoveryEdit ==
  /\ recovery.at = "edit"
  /\ edit' = [edit EXCEPT ![recovery.cur] =
                 IF Row.status = "complete" THEN "done"
                 ELSE IF Row.status = "error" THEN "error"
                 ELSE IF recovery.cur \in recovery.live THEN "overtaken"
                 ELSE "interrupted"]
  /\ recovery' = Finished
  /\ UNCHANGED <<runVars, session, record, connected, faults, owed>>

RecoveryStep == Check \/ RepairResult \/ RepairTurn \/ RecoveryEdit \/ \E r \in Runs : Take(r)

\* A new process has no runs.  What recovery had taken is lost.
Crash ==
  /\ faults < MaxFaults
  /\ faults' = faults + 1
  /\ connected' = FALSE
  /\ at' = [r \in Runs |-> IF Alive(r) THEN "dead" ELSE at[r]]
  /\ turn' = [r \in Runs |-> 1] /\ calls' = [r \in Runs |-> {}]
  /\ entryOf' = [r \in Runs |-> 0] /\ outcome' = [r \in Runs |-> "none"]
  /\ held' = [r \in Runs |-> FALSE] /\ cancelled' = [r \in Runs |-> FALSE]
  /\ activeRun' = 0
  /\ recovery' = NoRecovery
  /\ owed' = owed \ {r \in Runs : Recovering(r)}
  /\ UNCHANGED <<session, record, edit>>

Next ==
  \/ \E r \in Runs : Begin(r) \/ Publish(r) \/ StreamToolCall(r) \/ RunStep(r)
  \/ Abort
  \/ Connect
  \/ \E todo \in SUBSET Runs : Janitor(todo)
  \/ RecoveryStep
  \/ Crash

\* Providers are timed out and tools return; what was begun is scheduled; the
\* janitor's ticker fires.
Fairness ==
  /\ \A r \in Runs : WF_vars(RunStep(r))
  /\ WF_vars(Connect \/ RecoveryStep)
  /\ WF_vars(Janitor(Silent))

Spec == Init /\ [][Next]_vars
FairSpec == Spec /\ Fairness

-----------------------------------------------------------------------------
(* Properties. *)

IsResult(i, r, c) == session[i].role = "result" /\ session[i].run = r /\ session[i].turn = c
IsCall(i, r) == session[i].role = "toolUse" /\ session[i].run = r
SameResult(i, j) == session[i].role = "result" /\ IsResult(j, session[i].run, session[i].turn)

\* An answer whose record was stored gets its final edit: its run's, or, after
\* /abort took the context the run needed or the bridge crashed, the janitor's or
\* that of the recovery at a start.  (finalizeAssistant, failOpenAssistant,
\* finishActiveStreamRecord)
EveryOwedAnswerEnds ==
  \A r \in Runs : r \in owed ~> (edit[r] # "none" \/ r \notin owed)

\* A complete answer stays complete: the record of a terminal stream is stored
\* before its edit is sent, so whoever finds the record of a run that is over
\* knows how it ended.  (Who listed it while the run was alive does not, and
\* overwrites the answer with an error.)
CompleteStaysComplete ==
  [][\A r \in Runs : edit[r] = "done" => edit'[r] # "interrupted"]_edit

\* Whatever recoveries, restarts and runs overlap, the recovery of an answer does
\* not repeat the result of a call whose message is the run's last in the session,
\* and a run answers its calls once: a call is answered twice only where a later
\* message of the run calls tools in between.  (sessionBranchCanAppendRecovery)
LastCallsAreAnsweredOnce ==
  \A i, j \in DOMAIN session :
    i < j /\ SameResult(i, j) => \E k \in i..j : IsCall(k, session[i].run)

\* "expected failed tool result after interrupted tool call" (stream_test.go:744):
\* what a recovery adds answers a call that was interrupted, so no call has two
\* results.  It may not: the record has the calls of all turns of the answer, and
\* only the results after its last message are looked at.
CallsAreAnsweredOnce ==
  \A i, j \in DOMAIN session : SameResult(i, j) => i = j

\* "resumable across restarts": a tool result of the session follows the message
\* that called the tool; no provider takes another.  It may not: the record can
\* know of a call whose message never reached the session.
ResultsFollowTheirCalls ==
  \A i \in DOMAIN session : session[i].role = "result" =>
    \E j \in 1..i : session[j].role = "toolUse" /\ session[j].run = session[i].run
                       /\ session[j].turn = session[i].turn
=============================================================================
