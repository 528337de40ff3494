------------------------- MODULE AgentHarnessProofs -------------------------
(***************************************************************************)
(* What holds of AgentHarness for every value of its constants: typing;    *)
(* neither the session nor a request ever separates a tool result from the *)
(* call it answers, and a request ends with input; a deferred write is     *)
(* saved once.  As long as the updates of a queue do not overlap (~Racy):  *)
(* every message is in one place, the harness implements the abstract      *)
(* inbox, and the messages of a queue reach the session in order.          *)
(***************************************************************************)
EXTENDS AgentHarness, FiniteSetTheorems, TLAPS

-----------------------------------------------------------------------------
\* Lemmas about the operators of the model.

\* The operations on sequences that the actions use stay within Seq(S).
LEMMA SequenceTypes ==
    ASSUME NEW S, NEW s \in Seq(S), NEW t \in Seq(S)
    PROVE  /\ <<>> \in Seq(S)
           /\ \A e \in S : Append(s, e) \in Seq(S)
           /\ s \o t \in Seq(S)
           /\ s # <<>> => Head(s) \in S /\ Tail(s) \in Seq(S)
           /\ \A n \in 0 .. Len(s) : SubSeq(s, 1, n) \in Seq(S)
           /\ \A n \in 0 .. Len(s) : SubSeq(s, n + 1, Len(s)) \in Seq(S)
OBVIOUS

\* What enters the session from a queue, a deferred write or the loop is an entry.
LEMMA EntryTypes ==
    /\ UserMessage \subseteq Entry
    /\ Write \subseteq Entry
    /\ \A m \in Nat, q \in Queues \union {"prompt"} : user(m, q) \in UserMessage
    /\ \A i \in Nat, k \in {"note", "model"} : write(k, i) \in Write
    /\ \A t \in Nat, n \in Nat, s \in Stops : response(t, n, s) \in Entry
    /\ \A t \in Nat, i \in Nat : toolResult(t, i) \in Entry
    /\ \A k \in Nat : compaction(k) \in Entry
BY DEF UserMessage, Write, Entry, user, write, response, toolResult, compaction, Roles,
       MessageRoles, CutRoles, Tags, Queues, Stops, FailingStops

\* What a run returns is an outcome (named so that no leaf sees the two strings).
LEMMA OutcomeTypes == "ok" \in Outcomes /\ "error" \in Outcomes
BY DEF Outcomes

\* The messages of a queue are named by naturals.
LEMMA IdTypes == ASSUME NEW s \in Seq(UserMessage) PROVE Ids(s) \in SUBSET Nat
<1>1. \A i \in DOMAIN s : s[i] \in UserMessage
    OBVIOUS
<1>2. \A u \in UserMessage : u.of \in Nat
    BY DEF UserMessage
<1>. QED BY <1>1, <1>2 DEF Ids

\* Replacing one queue by messages leaves three queues of messages.
LEMMA QueueUpdate ==
    ASSUME NEW f \in [Queues -> Seq(UserMessage)], NEW q \in Queues, NEW s \in Seq(UserMessage)
    PROVE  [f EXCEPT ![q] = s] \in [Queues -> Seq(UserMessage)]
OBVIOUS

\* What a failing run adds to "lost" is a set of pairs of naturals.
LEMMA DroppedTypes ==
    ASSUME lost \in SUBSET (Nat \X Nat), nextRunID \in Nat, NEW S \in SUBSET Nat
    PROVE  lost \union {<<nextRunID, m>> : m \in S} \in SUBSET (Nat \X Nat)
OBVIOUS

\* A context and a cut point are positions of the branch.
LEMMA VisiblePositions ==
    ASSUME NEW s \in Seq(Entry)
    PROVE  /\ Visible(s) \subseteq DOMAIN s /\ Visible(s) \in SUBSET Nat
           /\ CutPoints(s) \subseteq DOMAIN s /\ CutPoints(s) \in SUBSET Nat
<1>1. DOMAIN s \subseteq Nat
    OBVIOUS
<1>2. Visible(s) \subseteq DOMAIN s
    BY DEF Visible, Shown
<1>3. CutPoints(s) \subseteq DOMAIN s
    BY DEF CutPoints, Shown
<1>. QED BY <1>1, <1>2, <1>3

-----------------------------------------------------------------------------
\* Typing.

\* drainQueue works on a queue it found nonempty.
DrainInv == pc = "drainStore" => snapshot # <<>>

\* Every variable of NewAgentHarness's state has its type.
LEMMA InitTypeOK == Init => TypeOK
<1>. SUFFICES ASSUME Init PROVE TypeOK
    OBVIOUS
<1>1. phase = "idle" /\ pc = "idle" /\ op = "prompt" /\ nextRunID = 0 /\ activeRunID = 0
      /\ cancelled = FALSE
    BY DEF Init
<1>2. RunTypeOK
    BY <1>1 DEF RunTypeOK, PCs
<1>3. LoopTypeOK /\ CountTypeOK
    BY DEF Init, LoopTypeOK, CountTypeOK
<1>4. session = <<>> /\ pendingSessionWrites = <<>> /\ results = <<>>
    BY DEF Init
<1>5. SessionTypeOK
    BY <1>4, SequenceTypes DEF SessionTypeOK
<1>6. QueueTypeOK
    BY DEF Init, QueueTypeOK, AbortRecord, Queues, NoCaller, NoneCleared
<1>. QED BY <1>2, <1>3, <1>5, <1>6 DEF TypeOK

\* Typing is preserved by every step.
LEMMA StepTypeOK == ASSUME TypeOK, DrainInv, Next PROVE TypeOK'
<1>1. CASE StartRun
    <2>1. nextRunID' \in Nat /\ activeRunID' \in Nat
        BY <1>1 DEF TypeOK, RunTypeOK, StartRun
    <2>2. pc' \in PCs
        BY <1>1 DEF StartRun, PCs
    <2>3. RunTypeOK'
        BY <1>1, <2>1, <2>2 DEF TypeOK, RunTypeOK, StartRun
    <2>4. LoopTypeOK' /\ CountTypeOK' /\ SessionTypeOK' /\ QueueTypeOK'
        BY <1>1 DEF TypeOK, LoopTypeOK, CountTypeOK, SessionTypeOK, QueueTypeOK, StartRun, loopVars, otherVars
    <2>. QED BY <2>3, <2>4 DEF TypeOK
<1>2. CASE CreateContext
    <2>1. context' \in SUBSET Nat
        BY <1>2, VisiblePositions DEF TypeOK, SessionTypeOK, CreateContext
    <2>2. LoopTypeOK'
        BY <1>2, <2>1 DEF TypeOK, LoopTypeOK, CreateContext
    <2>3. RunTypeOK'
        BY <1>2 DEF TypeOK, RunTypeOK, CreateContext, runVars, otherVars, PCs
    <2>4. CountTypeOK' /\ SessionTypeOK' /\ QueueTypeOK'
        BY <1>2 DEF TypeOK, CountTypeOK, SessionTypeOK, QueueTypeOK, CreateContext, runVars, otherVars
    <2>. QED BY <2>2, <2>3, <2>4 DEF TypeOK
<1>3. CASE BeginFails
    <2>1. \E r \in Outcomes : results' = Append(results, r)
        BY <1>3, OutcomeTypes DEF BeginFails, Finish
    <2>2. SessionTypeOK'
        BY <1>3, <2>1, SequenceTypes DEF TypeOK, SessionTypeOK, BeginFails
    <2>3. queue' = queue \/ queue' = [queue EXCEPT !["nextTurn"] = <<>>]
        BY <1>3 DEF BeginFails
    <2>4. <<>> \in Seq(UserMessage) /\ "nextTurn" \in Queues
        BY SequenceTypes DEF TypeOK, QueueTypeOK, Queues
    <2>5. queue' \in [Queues -> Seq(UserMessage)]
        BY <2>3, <2>4, QueueUpdate DEF TypeOK, QueueTypeOK
    <2>6. todo' \in Seq(UserMessage)
        BY <1>3, SequenceTypes DEF BeginFails
    <2>7. QueueTypeOK'
        BY <1>3, <2>5, <2>6 DEF TypeOK, QueueTypeOK, BeginFails, otherVars
    <2>8. PICK S \in SUBSET Nat : lost' = lost \union {<<nextRunID, m>> : m \in S}
        BY <1>3, IdTypes DEF TypeOK, QueueTypeOK, BeginFails, Queues
    <2>9. CountTypeOK'
        BY <1>3, <2>8, DroppedTypes DEF TypeOK, RunTypeOK, CountTypeOK, BeginFails, otherVars
    <2>10. RunTypeOK'
        BY <1>3 DEF TypeOK, RunTypeOK, BeginFails, Finish, otherVars, PCs
    <2>11. LoopTypeOK'
        BY <1>3 DEF TypeOK, LoopTypeOK, BeginFails, Finish, otherVars
    <2>. QED BY <2>2, <2>7, <2>9, <2>10, <2>11 DEF TypeOK
<1>4. CASE TakeNextTurn
    <2>1. todo' = queue["nextTurn"] \o todo /\ queue' = [queue EXCEPT !["nextTurn"] = <<>>]
        BY <1>4 DEF TakeNextTurn
    <2>2. queue' \in [Queues -> Seq(UserMessage)] /\ todo' \in Seq(UserMessage)
        BY <2>1, QueueUpdate, SequenceTypes DEF TypeOK, QueueTypeOK, Queues
    <2>3. QueueTypeOK'
        BY <1>4, <2>2 DEF TypeOK, QueueTypeOK, TakeNextTurn, otherVars
    <2>4. RunTypeOK'
        BY <1>4 DEF TypeOK, RunTypeOK, TakeNextTurn, runVars, otherVars, PCs
    <2>5. LoopTypeOK' /\ CountTypeOK' /\ SessionTypeOK'
        BY <1>4 DEF TypeOK, LoopTypeOK, CountTypeOK, SessionTypeOK, TakeNextTurn, runVars, otherVars
    <2>. QED BY <2>3, <2>4, <2>5 DEF TypeOK
<1>5. CASE SetIdle
    <2>1. RunTypeOK'
        BY <1>5 DEF TypeOK, RunTypeOK, SetIdle, runVars, loopVars, otherVars, PCs
    <2>2. LoopTypeOK' /\ CountTypeOK' /\ SessionTypeOK' /\ QueueTypeOK'
        BY <1>5 DEF TypeOK, LoopTypeOK, CountTypeOK, SessionTypeOK, QueueTypeOK, SetIdle, runVars, loopVars, otherVars
    <2>. QED BY <2>1, <2>2 DEF TypeOK
<1>6. CASE CloseRun
    <2>1. RunTypeOK'
        BY <1>6 DEF TypeOK, RunTypeOK, CloseRun, loopVars, otherVars, PCs
    <2>2. LoopTypeOK' /\ CountTypeOK' /\ SessionTypeOK' /\ QueueTypeOK'
        BY <1>6 DEF TypeOK, LoopTypeOK, CountTypeOK, SessionTypeOK, QueueTypeOK, CloseRun, loopVars, otherVars
    <2>. QED BY <2>1, <2>2 DEF TypeOK
<1>7. CASE CompactSucceeds
    <2>1. results' = Append(results, "ok")
        BY <1>7 DEF CompactSucceeds, Finish
    <2>2. PICK k \in CutPoints(session) : session' = Append(session, compaction(k))
        BY <1>7 DEF CompactSucceeds
    <2>3. compaction(k) \in Entry
        BY EntryTypes, VisiblePositions DEF TypeOK, SessionTypeOK
    <2>4. SessionTypeOK'
        BY <1>7, <2>1, <2>2, <2>3, OutcomeTypes, SequenceTypes DEF TypeOK, SessionTypeOK, CompactSucceeds
    <2>5. RunTypeOK'
        BY <1>7 DEF TypeOK, RunTypeOK, CompactSucceeds, Finish, loopVars, otherVars, PCs
    <2>6. LoopTypeOK' /\ CountTypeOK' /\ QueueTypeOK'
        BY <1>7 DEF TypeOK, LoopTypeOK, CountTypeOK, QueueTypeOK, CompactSucceeds, Finish, loopVars, otherVars
    <2>. QED BY <2>4, <2>5, <2>6 DEF TypeOK
<1>8. CASE CompactFails
    <2>1. \E r \in Outcomes : results' = Append(results, r)
        BY <1>8, OutcomeTypes DEF CompactFails, Finish
    <2>2. SessionTypeOK'
        BY <1>8, <2>1, SequenceTypes DEF TypeOK, SessionTypeOK, CompactFails
    <2>3. RunTypeOK'
        BY <1>8 DEF TypeOK, RunTypeOK, CompactFails, Finish, loopVars, otherVars, PCs
    <2>4. LoopTypeOK' /\ CountTypeOK' /\ QueueTypeOK'
        BY <1>8 DEF TypeOK, LoopTypeOK, CountTypeOK, QueueTypeOK, CompactFails, Finish, loopVars, otherVars
    <2>. QED BY <2>2, <2>3, <2>4 DEF TypeOK
<1>9. CASE AppendTodo
    <2>1. session' = Append(session, Head(todo)) /\ todo' = Tail(todo) /\ todo # <<>>
        BY <1>9 DEF AppendTodo
    <2>2. Head(todo) \in Entry /\ todo' \in Seq(UserMessage)
        BY <2>1, EntryTypes, SequenceTypes DEF TypeOK, QueueTypeOK
    <2>3. SessionTypeOK'
        BY <1>9, <2>1, <2>2, SequenceTypes DEF TypeOK, SessionTypeOK, AppendTodo, runVars
    <2>4. QueueTypeOK'
        BY <1>9, <2>2 DEF TypeOK, QueueTypeOK, AppendTodo, otherVars
    <2>5. Len(session) + 1 \in Nat
        BY DEF TypeOK, SessionTypeOK
    <2>6. context' \in SUBSET Nat
        BY <1>9, <2>5 DEF TypeOK, LoopTypeOK, AppendTodo
    <2>7. LoopTypeOK'
        BY <1>9, <2>6 DEF TypeOK, LoopTypeOK, AppendTodo
    <2>8. RunTypeOK'
        BY <1>9 DEF TypeOK, RunTypeOK, AppendTodo, runVars, otherVars, PCs
    <2>9. CountTypeOK'
        BY <1>9 DEF TypeOK, CountTypeOK, AppendTodo, runVars, otherVars
    <2>. QED BY <2>3, <2>4, <2>7, <2>8, <2>9 DEF TypeOK
<1>10. CASE DrainLoad
    <2>1. snapshot' = snapshot \/ snapshot' = queue[draining]
        BY <1>10 DEF DrainLoad
    <2>2. draining \in Queues
        BY DEF TypeOK, LoopTypeOK, Queues
    <2>3. snapshot' \in Seq(UserMessage)
        BY <2>1, <2>2 DEF TypeOK, QueueTypeOK
    <2>4. QueueTypeOK'
        BY <1>10, <2>3 DEF TypeOK, QueueTypeOK, DrainLoad, otherVars
    <2>5. RunTypeOK'
        BY <1>10 DEF TypeOK, RunTypeOK, DrainLoad, runVars, otherVars, PCs
    <2>6. LoopTypeOK'
        BY <1>10 DEF TypeOK, LoopTypeOK, DrainLoad, runVars, otherVars
    <2>7. CountTypeOK' /\ SessionTypeOK'
        BY <1>10 DEF TypeOK, CountTypeOK, SessionTypeOK, DrainLoad, runVars, otherVars
    <2>. QED BY <2>4, <2>5, <2>6, <2>7 DEF TypeOK
<1>11. CASE DrainStore
    <2>1. PICK n \in {1, Len(snapshot)} :
            /\ todo' = SubSeq(snapshot, 1, n)
            /\ queue' = [queue EXCEPT ![draining] = SubSeq(snapshot, n + 1, Len(snapshot))]
        BY <1>11 DEF DrainStore
    <2>2. n \in 0 .. Len(snapshot)
        BY <1>11 DEF TypeOK, QueueTypeOK, DrainInv, DrainStore
    <2>3. draining \in Queues
        BY DEF TypeOK, LoopTypeOK, Queues
    <2>4. queue' \in [Queues -> Seq(UserMessage)] /\ todo' \in Seq(UserMessage)
        BY <2>1, <2>2, <2>3, QueueUpdate, SequenceTypes DEF TypeOK, QueueTypeOK
    <2>5. QueueTypeOK'
        BY <1>11, <2>4, SequenceTypes DEF TypeOK, QueueTypeOK, DrainStore, otherVars
    <2>6. RunTypeOK'
        BY <1>11 DEF TypeOK, RunTypeOK, DrainStore, runVars, otherVars, PCs
    <2>7. LoopTypeOK' /\ CountTypeOK' /\ SessionTypeOK'
        BY <1>11 DEF TypeOK, LoopTypeOK, CountTypeOK, SessionTypeOK, DrainStore, runVars, otherVars
    <2>. QED BY <2>5, <2>6, <2>7 DEF TypeOK
<1>12. CASE DrainFails
    <2>1. draining \in Queues
        BY DEF TypeOK, LoopTypeOK, Queues
    <2>2. queue[draining] \in Seq(UserMessage) /\ todo \in Seq(UserMessage)
        BY <2>1 DEF TypeOK, QueueTypeOK
    <2>3. todo \o queue[draining] \in Seq(UserMessage) /\ <<>> \in Seq(UserMessage)
        BY <2>2, SequenceTypes
    <2>4. queue' \in [Queues -> Seq(UserMessage)] /\ todo' \in Seq(UserMessage)
        BY <1>12, <2>1, <2>3, QueueUpdate DEF TypeOK, QueueTypeOK, DrainFails
    <2>5. QueueTypeOK'
        BY <1>12, <2>4 DEF TypeOK, QueueTypeOK, DrainFails, otherVars
    <2>6. RunTypeOK'
        BY <1>12 DEF TypeOK, RunTypeOK, DrainFails, runVars, otherVars, PCs
    <2>7. LoopTypeOK' /\ CountTypeOK' /\ SessionTypeOK'
        BY <1>12 DEF TypeOK, LoopTypeOK, CountTypeOK, SessionTypeOK, DrainFails, runVars, otherVars
    <2>. QED BY <2>5, <2>6, <2>7 DEF TypeOK
<1>13. CASE Respond
    <2>1. PICK n \in 0 .. MaxCalls, stop \in Stops :
            /\ session' = Append(session, response(turns + 1, n, stop))
            /\ calls' = n /\ done' = 0 /\ more' = FALSE
        BY <1>13 DEF Respond
    <2>2. n \in Nat /\ turns + 1 \in Nat
        BY HarnessAssumption DEF TypeOK, CountTypeOK, HarnessAssumption
    <2>3. SessionTypeOK'
        BY <1>13, <2>1, <2>2, EntryTypes, SequenceTypes DEF TypeOK, SessionTypeOK, Respond, runVars
    <2>4. Len(session) + 1 \in Nat
        BY DEF TypeOK, SessionTypeOK
    <2>5. context' \in SUBSET Nat
        BY <1>13, <2>4 DEF TypeOK, LoopTypeOK, Respond
    <2>6. LoopTypeOK'
        BY <1>13, <2>1, <2>2, <2>5 DEF TypeOK, LoopTypeOK, Respond
    <2>7. RunTypeOK'
        BY <1>13 DEF TypeOK, RunTypeOK, Respond, runVars, otherVars, PCs
    <2>8. CountTypeOK'
        BY <1>13 DEF TypeOK, CountTypeOK, Respond, runVars, otherVars
    <2>9. QueueTypeOK'
        BY <1>13 DEF TypeOK, QueueTypeOK, Respond, runVars, otherVars
    <2>. QED BY <2>3, <2>6, <2>7, <2>8, <2>9 DEF TypeOK
<1>14. CASE RespondAborted
    <2>1. RunTypeOK'
        BY <1>14 DEF TypeOK, RunTypeOK, RespondAborted, runVars, loopVars, otherVars, PCs
    <2>2. LoopTypeOK' /\ CountTypeOK' /\ SessionTypeOK' /\ QueueTypeOK'
        BY <1>14 DEF TypeOK, LoopTypeOK, CountTypeOK, SessionTypeOK, QueueTypeOK, RespondAborted, runVars, loopVars, otherVars
    <2>. QED BY <2>1, <2>2 DEF TypeOK
<1>15. CASE ToolResult
    <2>1. session' = Append(session, toolResult(turns, done + 1)) /\ done' = done + 1
        BY <1>15 DEF ToolResult
    <2>2. toolResult(turns, done + 1) \in Entry
        BY EntryTypes DEF TypeOK, CountTypeOK, LoopTypeOK
    <2>3. SessionTypeOK'
        BY <1>15, <2>1, <2>2, SequenceTypes DEF TypeOK, SessionTypeOK, ToolResult, runVars
    <2>4. Len(session) + 1 \in Nat
        BY DEF TypeOK, SessionTypeOK
    <2>5. context' \in SUBSET Nat
        BY <1>15, <2>4 DEF TypeOK, LoopTypeOK, ToolResult
    <2>6. LoopTypeOK'
        BY <1>15, <2>5 DEF TypeOK, LoopTypeOK, ToolResult
    <2>7. RunTypeOK'
        BY <1>15 DEF TypeOK, RunTypeOK, ToolResult, runVars, otherVars, PCs
    <2>8. CountTypeOK' /\ QueueTypeOK'
        BY <1>15 DEF TypeOK, CountTypeOK, QueueTypeOK, ToolResult, runVars, otherVars
    <2>. QED BY <2>3, <2>6, <2>7, <2>8 DEF TypeOK
<1>16. CASE ToolBatchCut
    <2>1. RunTypeOK'
        BY <1>16 DEF TypeOK, RunTypeOK, ToolBatchCut, runVars, otherVars, PCs
    <2>2. LoopTypeOK'
        BY <1>16 DEF TypeOK, LoopTypeOK, ToolBatchCut, runVars, otherVars
    <2>3. CountTypeOK' /\ SessionTypeOK' /\ QueueTypeOK'
        BY <1>16 DEF TypeOK, CountTypeOK, SessionTypeOK, QueueTypeOK, ToolBatchCut, runVars, otherVars
    <2>. QED BY <2>1, <2>2, <2>3 DEF TypeOK
<1>17. CASE WriteFails
    <2>1. lost' = lost \union {<<nextRunID, m>> : m \in Ids(todo)} /\ Ids(todo) \in SUBSET Nat
        BY <1>17, IdTypes DEF TypeOK, QueueTypeOK, WriteFails, LoopError
    <2>2. CountTypeOK'
        BY <1>17, <2>1, DroppedTypes DEF TypeOK, RunTypeOK, CountTypeOK, WriteFails, otherVars
    <2>3. RunTypeOK'
        BY <1>17 DEF TypeOK, RunTypeOK, WriteFails, LoopError, runVars, otherVars, PCs
    <2>4. QueueTypeOK'
        BY <1>17 DEF TypeOK, QueueTypeOK, WriteFails, LoopError, runVars, otherVars
    <2>5. LoopTypeOK' /\ SessionTypeOK'
        BY <1>17 DEF TypeOK, LoopTypeOK, SessionTypeOK, WriteFails, LoopError, runVars, otherVars
    <2>. QED BY <2>2, <2>3, <2>4, <2>5 DEF TypeOK
<1>18. CASE PrepareNextTurn
    <2>1. context' \in SUBSET Nat
        BY <1>18, VisiblePositions DEF TypeOK, SessionTypeOK, PrepareNextTurn
    <2>2. LoopTypeOK'
        BY <1>18, <2>1 DEF TypeOK, LoopTypeOK, PrepareNextTurn
    <2>3. RunTypeOK'
        BY <1>18 DEF TypeOK, RunTypeOK, PrepareNextTurn, runVars, otherVars, PCs
    <2>4. CountTypeOK' /\ SessionTypeOK' /\ QueueTypeOK'
        BY <1>18 DEF TypeOK, CountTypeOK, SessionTypeOK, QueueTypeOK, PrepareNextTurn, runVars, otherVars
    <2>. QED BY <2>2, <2>3, <2>4 DEF TypeOK
<1>19. CASE FlushOne
    <2>1. session' = Append(session, Head(pendingSessionWrites)) /\ pendingSessionWrites # <<>>
         /\ pendingSessionWrites' = Tail(pendingSessionWrites)
        BY <1>19 DEF FlushOne
    <2>2. Head(pendingSessionWrites) \in Entry /\ pendingSessionWrites' \in Seq(Write)
        BY <2>1, EntryTypes, SequenceTypes DEF TypeOK, SessionTypeOK
    <2>3. SessionTypeOK'
        BY <1>19, <2>1, <2>2, SequenceTypes DEF TypeOK, SessionTypeOK, FlushOne, runVars
    <2>4. RunTypeOK' /\ LoopTypeOK' /\ CountTypeOK' /\ QueueTypeOK'
        BY <1>19 DEF TypeOK, RunTypeOK, LoopTypeOK, CountTypeOK, QueueTypeOK, FlushOne, runVars, loopVars, otherVars
    <2>. QED BY <2>3, <2>4 DEF TypeOK
<1>20. CASE FlushDone
    <2>1. results' = results \/ \E r \in Outcomes : results' = Append(results, r)
        BY <1>20, OutcomeTypes DEF FlushDone, Finish
    <2>2. SessionTypeOK'
        BY <1>20, <2>1, SequenceTypes DEF TypeOK, SessionTypeOK, FlushDone
    <2>3. RunTypeOK'
        BY <1>20 DEF TypeOK, RunTypeOK, FlushDone, Finish, loopVars, otherVars, PCs
    <2>4. LoopTypeOK' /\ CountTypeOK' /\ QueueTypeOK'
        BY <1>20 DEF TypeOK, LoopTypeOK, CountTypeOK, QueueTypeOK, FlushDone, Finish, loopVars, otherVars
    <2>. QED BY <2>2, <2>3, <2>4 DEF TypeOK
<1>21. CASE FlushFails
    <2>1. results' = results \/ \E r \in Outcomes : results' = Append(results, r)
        BY <1>21, OutcomeTypes DEF FlushFails, Finish
    <2>2. SessionTypeOK'
        BY <1>21, <2>1, SequenceTypes DEF TypeOK, SessionTypeOK, FlushFails
    <2>3. RunTypeOK'
        BY <1>21 DEF TypeOK, RunTypeOK, FlushFails, Finish, loopVars, otherVars, PCs
    <2>4. LoopTypeOK' /\ CountTypeOK' /\ QueueTypeOK'
        BY <1>21 DEF TypeOK, LoopTypeOK, CountTypeOK, QueueTypeOK, FlushFails, Finish, loopVars, otherVars
    <2>. QED BY <2>2, <2>3, <2>4 DEF TypeOK
<1>22. CASE Prompt
    <2>1. todo' = <<user(sent + 1, "prompt")>> /\ sent' = sent + 1
        BY <1>22 DEF Prompt
    <2>2. todo' \in Seq(UserMessage)
        BY <2>1, EntryTypes DEF TypeOK, CountTypeOK
    <2>3. QueueTypeOK'
        BY <1>22, <2>2 DEF TypeOK, QueueTypeOK, Prompt
    <2>4. RunTypeOK'
        BY <1>22 DEF TypeOK, RunTypeOK, Prompt, Enter, runVars, PCs
    <2>5. CountTypeOK'
        BY <1>22 DEF TypeOK, CountTypeOK, Prompt, Enter, runVars
    <2>6. LoopTypeOK' /\ SessionTypeOK'
        BY <1>22 DEF TypeOK, LoopTypeOK, SessionTypeOK, Prompt, Enter, runVars
    <2>. QED BY <2>3, <2>4, <2>5, <2>6 DEF TypeOK
<1>23. CASE Continue
    <2>1. RunTypeOK'
        BY <1>23 DEF TypeOK, RunTypeOK, Continue, Enter, runVars, loopVars, otherVars, PCs
    <2>2. LoopTypeOK' /\ CountTypeOK' /\ SessionTypeOK' /\ QueueTypeOK'
        BY <1>23 DEF TypeOK, LoopTypeOK, CountTypeOK, SessionTypeOK, QueueTypeOK, Continue, Enter, runVars, loopVars, otherVars
    <2>. QED BY <2>1, <2>2 DEF TypeOK
<1>24. CASE Compact
    <2>1. RunTypeOK'
        BY <1>24 DEF TypeOK, RunTypeOK, Compact, Enter, runVars, loopVars, otherVars, PCs
    <2>2. LoopTypeOK' /\ CountTypeOK' /\ SessionTypeOK' /\ QueueTypeOK'
        BY <1>24 DEF TypeOK, LoopTypeOK, CountTypeOK, SessionTypeOK, QueueTypeOK, Compact, Enter, runVars, loopVars, otherVars
    <2>. QED BY <2>1, <2>2 DEF TypeOK
<1>25. CASE \E q \in Queues : EnqueueLoad(q)
    <2>1. PICK q \in Queues : EnqueueLoad(q)
        BY <1>25
    <2>2. caller' = [q |-> q, seen |-> Append(queue[q], user(sent + 1, q))]
        BY <2>1 DEF EnqueueLoad
    <2>3. Append(queue[q], user(sent + 1, q)) \in Seq(UserMessage)
        BY EntryTypes, SequenceTypes DEF TypeOK, CountTypeOK, QueueTypeOK
    <2>4. QueueTypeOK'
        BY <2>1, <2>2, <2>3 DEF TypeOK, QueueTypeOK, EnqueueLoad, loopVars
    <2>5. CountTypeOK'
        BY <1>25 DEF TypeOK, CountTypeOK, EnqueueLoad, runVars, loopVars
    <2>6. RunTypeOK' /\ LoopTypeOK' /\ SessionTypeOK'
        BY <1>25 DEF TypeOK, RunTypeOK, LoopTypeOK, SessionTypeOK, EnqueueLoad, runVars, loopVars
    <2>. QED BY <2>4, <2>5, <2>6 DEF TypeOK
<1>26. CASE EnqueueStore
    <2>1. caller.seen \in Seq(UserMessage) /\ caller.q \in Queues
        BY <1>26 DEF TypeOK, QueueTypeOK, EnqueueStore
    <2>2. queue' \in [Queues -> Seq(UserMessage)]
        BY <1>26, <2>1, QueueUpdate DEF TypeOK, QueueTypeOK, EnqueueStore
    <2>3. QueueTypeOK'
        BY <1>26, <2>2, SequenceTypes DEF TypeOK, QueueTypeOK, EnqueueStore, loopVars, NoCaller
    <2>4. RunTypeOK' /\ LoopTypeOK' /\ CountTypeOK' /\ SessionTypeOK'
        BY <1>26 DEF TypeOK, RunTypeOK, LoopTypeOK, CountTypeOK, SessionTypeOK, EnqueueStore, runVars, loopVars
    <2>. QED BY <2>3, <2>4 DEF TypeOK
<1>27. CASE \E kind \in {"note", "model"} : AppendWrite(kind)
    <2>1. PICK kind \in {"note", "model"} : AppendWrite(kind)
        BY <1>27
    <2>2. write(kind, notes + 1) \in Write /\ write(kind, notes + 1) \in Entry
        BY EntryTypes DEF TypeOK, CountTypeOK
    <2>3. session' \in Seq(Entry)
        BY <2>1, <2>2, SequenceTypes DEF TypeOK, SessionTypeOK, AppendWrite
    <2>4. pendingSessionWrites' \in Seq(Write)
        BY <2>1, <2>2, SequenceTypes DEF TypeOK, SessionTypeOK, AppendWrite
    <2>5. SessionTypeOK'
        BY <2>1, <2>3, <2>4 DEF TypeOK, SessionTypeOK, AppendWrite, runVars
    <2>6. CountTypeOK'
        BY <1>27 DEF TypeOK, CountTypeOK, AppendWrite, runVars, loopVars
    <2>7. RunTypeOK' /\ LoopTypeOK' /\ QueueTypeOK'
        BY <1>27 DEF TypeOK, RunTypeOK, LoopTypeOK, QueueTypeOK, AppendWrite, runVars, loopVars
    <2>. QED BY <2>5, <2>6, <2>7 DEF TypeOK
<1>28. CASE AbortCopy
    <2>1. queue["steer"] \in Seq(UserMessage) /\ queue["followUp"] \in Seq(UserMessage)
        BY DEF TypeOK, QueueTypeOK, Queues
    <2>2. PICK c \in [steer : Seq(UserMessage), followUp : Seq(UserMessage)] :
            abort' = [abort EXCEPT !.at = "clear", !.count = abort.count + 1, !.cleared = c]
        BY <1>28, <2>1 DEF AbortCopy
    <2>3. abort.count + 1 \in Nat
        BY DEF TypeOK, QueueTypeOK, AbortRecord
    <2>4. abort' \in AbortRecord
        BY <2>2, <2>3 DEF TypeOK, QueueTypeOK, AbortRecord
    <2>5. QueueTypeOK'
        BY <1>28, <2>4 DEF TypeOK, QueueTypeOK, AbortCopy, AbortVars, loopVars
    <2>6. RunTypeOK' /\ LoopTypeOK' /\ CountTypeOK' /\ SessionTypeOK'
        BY <1>28 DEF TypeOK, RunTypeOK, LoopTypeOK, CountTypeOK, SessionTypeOK, AbortCopy, AbortVars, runVars, loopVars
    <2>. QED BY <2>5, <2>6 DEF TypeOK
<1>29. CASE AbortClear
    <2>1. [queue EXCEPT !["steer"] = <<>>] \in [Queues -> Seq(UserMessage)]
        BY QueueUpdate, SequenceTypes DEF TypeOK, QueueTypeOK, Queues
    <2>2. queue' = [[queue EXCEPT !["steer"] = <<>>] EXCEPT !["followUp"] = <<>>]
        BY <1>29 DEF AbortClear
    <2>3. queue' \in [Queues -> Seq(UserMessage)]
        BY <2>1, <2>2, QueueUpdate, SequenceTypes DEF Queues
    <2>4. NoneCleared \in [steer : Seq(UserMessage), followUp : Seq(UserMessage)]
        BY SequenceTypes DEF NoneCleared
    <2>5. QueueTypeOK'
        BY <1>29, <2>3, <2>4 DEF TypeOK, RunTypeOK, QueueTypeOK, AbortRecord, AbortClear, AbortVars, loopVars
    <2>6. Ids(abort.cleared.steer) \in SUBSET Nat /\ Ids(abort.cleared.followUp) \in SUBSET Nat
        BY IdTypes DEF TypeOK, QueueTypeOK, AbortRecord
    <2>7. CountTypeOK'
        BY <1>29, <2>6 DEF TypeOK, CountTypeOK, AbortClear, AbortVars
    <2>8. RunTypeOK' /\ LoopTypeOK' /\ SessionTypeOK'
        BY <1>29 DEF TypeOK, RunTypeOK, LoopTypeOK, SessionTypeOK, AbortClear, AbortVars, runVars, loopVars
    <2>. QED BY <2>5, <2>7, <2>8 DEF TypeOK
<1>30. CASE AbortCancel
    <2>1. QueueTypeOK'
        BY <1>30 DEF TypeOK, RunTypeOK, QueueTypeOK, AbortRecord, AbortCancel, AbortVars, loopVars
    <2>2. RunTypeOK'
        BY <1>30 DEF TypeOK, RunTypeOK, AbortCancel, AbortVars, runVars, loopVars
    <2>3. LoopTypeOK' /\ CountTypeOK' /\ SessionTypeOK'
        BY <1>30 DEF TypeOK, LoopTypeOK, CountTypeOK, SessionTypeOK, AbortCancel, AbortVars, runVars, loopVars
    <2>. QED BY <2>1, <2>2, <2>3 DEF TypeOK
<1>31. CASE AbortLook
    <2>1. QueueTypeOK'
        BY <1>31 DEF TypeOK, RunTypeOK, QueueTypeOK, AbortRecord, AbortLook, AbortVars, loopVars
    <2>2. RunTypeOK' /\ LoopTypeOK' /\ CountTypeOK' /\ SessionTypeOK'
        BY <1>31 DEF TypeOK, RunTypeOK, LoopTypeOK, CountTypeOK, SessionTypeOK, AbortLook, AbortVars, runVars, loopVars
    <2>. QED BY <2>1, <2>2 DEF TypeOK
<1>32. CASE AbortReturn
    <2>1. QueueTypeOK'
        BY <1>32 DEF TypeOK, RunTypeOK, QueueTypeOK, AbortRecord, AbortReturn, AbortVars, loopVars
    <2>2. RunTypeOK' /\ LoopTypeOK' /\ CountTypeOK' /\ SessionTypeOK'
        BY <1>32 DEF TypeOK, RunTypeOK, LoopTypeOK, CountTypeOK, SessionTypeOK, AbortReturn, AbortVars, runVars, loopVars
    <2>. QED BY <2>1, <2>2 DEF TypeOK
<1>33. CASE DrainDone
    <2>1. RunTypeOK'
        BY <1>33 DEF TypeOK, RunTypeOK, DrainDone, runVars, loopVars, otherVars, PCs
    <2>2. LoopTypeOK' /\ CountTypeOK' /\ SessionTypeOK' /\ QueueTypeOK'
        BY <1>33 DEF TypeOK, LoopTypeOK, CountTypeOK, SessionTypeOK, QueueTypeOK, DrainDone, runVars, loopVars, otherVars
    <2>. QED BY <2>1, <2>2 DEF TypeOK
<1>. QED
    BY <1>1, <1>2, <1>3, <1>4, <1>5, <1>6, <1>7, <1>8, <1>9, <1>10, <1>11, <1>12, <1>13, <1>14, <1>15, <1>16,
       <1>17, <1>18, <1>19, <1>20, <1>21, <1>22, <1>23, <1>24, <1>25, <1>26, <1>27, <1>28, <1>29, <1>30, <1>31, <1>32, <1>33
    DEF Next, Runner, AbortStep

-----------------------------------------------------------------------------
\* Tool results and their calls.

\* A run that is not idle keeps the phase busy, so AppendMessage is deferred.
BusyInv == pc \notin {"idle", "close"} => phase # "idle"

\* While tools run, the session ends with their call and the results so far.
ToolsInv ==
    pc = "tools" =>
        /\ session # <<>> /\ Len(session) \in context /\ done < calls
        /\ session[Len(session)].of = turns
        /\ done = 0 => session[Len(session)].role = "assistant"
                       /\ session[Len(session)].n = calls
        /\ done # 0 => session[Len(session)].role = "toolResult"
                       /\ session[Len(session)].n = done

\* No compaction keeps a tail that starts with a tool result.
Kept(s) == \A c \in DOMAIN s : s[c].role = "compaction" =>
               s[c].n \in DOMAIN s /\ s[c].n < c /\ s[s[c].n].role # "toolResult"

ContextInv == context \subseteq DOMAIN session /\ KeepsCalls(context)

SessionInv == Paired(session) /\ Kept(session)
IInv == TypeOK /\ DrainInv /\ BusyInv /\ ToolsInv /\ SessionInv /\ ContextInv

\* Appending an entry keeps a session well formed: a tool result must answer the
\* last entry, a compaction must keep from an entry that is no tool result.
LEMMA AppendKeeps ==
    ASSUME NEW s \in Seq(Entry), NEW e \in Entry, Paired(s), Kept(s),
           e.role = "toolResult" => s # <<>> /\ Answers(s[Len(s)], e),
           e.role = "compaction" => e.n \in DOMAIN s /\ s[e.n].role # "toolResult"
    PROVE  Paired(Append(s, e)) /\ Kept(Append(s, e))
<1>. DEFINE t == Append(s, e)
<1>1. /\ Len(s) \in Nat /\ DOMAIN s = 1 .. Len(s) /\ DOMAIN t = 1 .. (Len(s) + 1)
      /\ t[Len(s) + 1] = e /\ \A i \in DOMAIN s : t[i] = s[i]
    OBVIOUS
<1>2. Paired(t)
    <2>. SUFFICES ASSUME NEW i \in DOMAIN t, t[i].role = "toolResult"
                  PROVE  i > 1 /\ Answers(t[i - 1], t[i])
        BY DEF Paired
    <2>1. CASE i \in DOMAIN s
        <3>1. i > 1 /\ Answers(s[i - 1], s[i])
            BY <1>1, <2>1 DEF Paired
        <3>. QED BY <1>1, <2>1, <3>1
    <2>2. CASE i = Len(s) + 1
        <3>1. s # <<>> /\ Answers(s[Len(s)], e)
            BY <1>1, <2>2
        <3>2. Len(s) \in DOMAIN s
            BY <1>1, <3>1
        <3>. QED BY <1>1, <2>2, <3>1, <3>2
    <2>. QED BY <1>1, <2>1, <2>2
<1>3. Kept(t)
    <2>. SUFFICES ASSUME NEW c \in DOMAIN t, t[c].role = "compaction"
                  PROVE  t[c].n \in DOMAIN t /\ t[c].n < c /\ t[t[c].n].role # "toolResult"
        BY DEF Kept
    <2>1. CASE c \in DOMAIN s
        <3>1. s[c].n \in DOMAIN s /\ s[c].n < c /\ s[s[c].n].role # "toolResult"
            BY <1>1, <2>1 DEF Kept
        <3>. QED BY <1>1, <2>1, <3>1
    <2>2. CASE c = Len(s) + 1
        BY <1>1, <2>2
    <2>. QED BY <1>1, <2>1, <2>2
<1>. QED BY <1>2, <1>3

\* BuildSessionContext keeps the call of every tool result it keeps.
LEMMA VisibleKeepsCalls ==
    ASSUME NEW s \in Seq(Entry), Paired(s), Kept(s), NEW i \in Shown(s),
           s[i].role = "toolResult"
    PROVE  i - 1 \in Shown(s) /\ (i \in Visible(s) => i - 1 \in Visible(s))
<1>1. i \in DOMAIN s /\ i > 1 /\ i - 1 \in DOMAIN s /\ Answers(s[i - 1], s[i])
    BY DEF Shown, Paired
<1>2. s[i - 1].role \in MessageRoles
    BY <1>1 DEF Answers, MessageRoles, CutRoles
<1>3. ASSUME NEW c \in DOMAIN s, IsLastCompaction(s, c)
      PROVE  i - 1 >= s[c].n
    <2>1. i >= s[c].n
        BY <1>3 DEF Shown
    <2>2. s[c].n \in DOMAIN s /\ s[s[c].n].role # "toolResult"
        BY <1>3 DEF Kept, IsLastCompaction, Compactions
    <2>3. i # s[c].n
        BY <2>2
    <2>. QED BY <1>1, <2>1, <2>2, <2>3
<1>. QED BY <1>1, <1>2, <1>3 DEF Visible, Shown

\* FindCutPoint never cuts in front of a tool result.
LEMMA CutPointIsNoResult ==
    ASSUME NEW s \in Seq(Entry), Paired(s), Kept(s), NEW k \in CutPoints(s)
    PROVE  k \in DOMAIN s /\ s[k].role # "toolResult"
<1>1. k \in Shown(s) /\ k \in DOMAIN s
    BY DEF CutPoints, Shown
<1>2. CASE ValidCutPoints(s) = {}
    <2>1. IsFirst(Shown(s), k)
        BY <1>2 DEF CutPoints
    <2>2. s[k].role = "toolResult" => k - 1 \in Shown(s)
        BY <1>1, VisibleKeepsCalls
    <2>. QED BY <1>1, <2>1, <2>2 DEF IsFirst
<1>3. CASE ValidCutPoints(s) # {}
    <2>1. PICK i \in ValidCutPoints(s) :
              k <= i /\ \A j \in k .. (i - 1) : s[j].role = "model"
        BY <1>3 DEF CutPoints
    <2>2. i \in DOMAIN s /\ s[i].role \in CutRoles
        BY <2>1 DEF ValidCutPoints, Shown
    <2>3. CASE k = i
        BY <1>1, <2>2, <2>3 DEF CutRoles
    <2>4. CASE k < i
        <3>1. s[k].role = "model"
            BY <1>1, <2>1, <2>2, <2>4
        <3>. QED BY <1>1, <3>1
    <2>. QED BY <1>1, <2>1, <2>2, <2>3, <2>4
<1>. QED BY <1>2, <1>3
-----------------------------------------------------------------------------
\* The strengthening is inductive, one lemma per part.

\* The session changes only where storage is written.
LEMMA Writers ==
    ASSUME Next
    PROVE  \/ UNCHANGED session
           \/ CompactSucceeds \/ AppendTodo \/ Respond \/ ToolResult \/ FlushOne
           \/ \E kind \in {"note", "model"} : AppendWrite(kind)
BY DEF Next, Runner, AbortStep, StartRun, CreateContext, BeginFails, TakeNextTurn, SetIdle,
       CloseRun, CompactFails, DrainLoad, DrainStore, DrainDone, DrainFails, RespondAborted,
       ToolBatchCut, WriteFails, PrepareNextTurn, FlushDone, FlushFails, Prompt, Continue,
       Compact, EnqueueLoad, EnqueueStore, AbortCopy, AbortClear, AbortCancel, AbortLook,
       AbortReturn, AbortVars

\* What each writer appends is an entry, and satisfies what AppendKeeps asks.
LEMMA AppendedEntry ==
    ASSUME TypeOK, ToolsInv, SessionInv, Next, session' # session
    PROVE  \E e \in Entry :
             /\ session' = Append(session, e)
             /\ e.role = "toolResult" =>
                  session # <<>> /\ Answers(session[Len(session)], e)
             /\ e.role = "compaction" =>
                  e.n \in DOMAIN session /\ session[e.n].role # "toolResult"
<1>1. CASE CompactSucceeds
    <2>1. PICK k \in CutPoints(session) : session' = Append(session, compaction(k))
        BY <1>1 DEF CompactSucceeds
    <2>2. k \in DOMAIN session /\ session[k].role # "toolResult"
        BY CutPointIsNoResult DEF TypeOK, SessionTypeOK, SessionInv
    <2>3. k \in Nat
        BY VisiblePositions DEF TypeOK, SessionTypeOK
    <2>4. compaction(k) \in Entry
        BY <2>3, EntryTypes
    <2>5. compaction(k).role = "compaction" /\ compaction(k).n = k
        BY DEF compaction
    <2>. QED BY <2>1, <2>2, <2>4, <2>5
<1>2. CASE AppendTodo
    <2>1. todo # <<>> /\ session' = Append(session, Head(todo))
        BY <1>2 DEF AppendTodo
    <2>2. Head(todo) \in UserMessage
        BY <2>1 DEF TypeOK, QueueTypeOK
    <2>3. Head(todo) \in Entry /\ Head(todo).role = "user"
        BY <2>2, EntryTypes DEF UserMessage
    <2>. QED BY <2>1, <2>3
<1>3. CASE Respond
    <2>1. PICK n \in 0 .. MaxCalls, stop \in Stops :
              session' = Append(session, response(turns + 1, n, stop))
        BY <1>3 DEF Respond
    <2>2. n \in Nat /\ turns + 1 \in Nat
        BY HarnessAssumption DEF TypeOK, CountTypeOK, HarnessAssumption
    <2>3. response(turns + 1, n, stop) \in Entry
        BY <2>2, EntryTypes
    <2>4. response(turns + 1, n, stop).role = "assistant"
        BY DEF response
    <2>. QED BY <2>1, <2>3, <2>4
<1>4. CASE ToolResult
    <2>1. pc = "tools" /\ session' = Append(session, toolResult(turns, done + 1))
        BY <1>4 DEF ToolResult
    <2>2. toolResult(turns, done + 1) \in Entry
        BY EntryTypes DEF TypeOK, CountTypeOK, LoopTypeOK
    <2>3. /\ toolResult(turns, done + 1).role = "toolResult"
          /\ toolResult(turns, done + 1).of = turns
          /\ toolResult(turns, done + 1).n = done + 1
        BY DEF toolResult
    <2>4. session # <<>> /\ Answers(session[Len(session)], toolResult(turns, done + 1))
        BY <2>1, <2>3 DEF ToolsInv, Answers, TypeOK, LoopTypeOK
    <2>. QED BY <2>1, <2>2, <2>3, <2>4
<1>5. CASE FlushOne
    <2>1. pendingSessionWrites # <<>> /\ session' = Append(session, Head(pendingSessionWrites))
        BY <1>5 DEF FlushOne
    <2>2. Head(pendingSessionWrites) \in Write
        BY <2>1 DEF TypeOK, SessionTypeOK
    <2>3. Head(pendingSessionWrites) \in Entry
          /\ Head(pendingSessionWrites).role \in {"note", "model"}
        BY <2>2, EntryTypes DEF Write
    <2>. QED BY <2>1, <2>3
<1>6. CASE \E kind \in {"note", "model"} : AppendWrite(kind)
    <2>1. PICK kind \in {"note", "model"} : AppendWrite(kind)
        BY <1>6
    <2>2. session' = Append(session, write(kind, notes + 1))
        BY <2>1 DEF AppendWrite
    <2>3. write(kind, notes + 1) \in Entry
        BY EntryTypes DEF TypeOK, CountTypeOK
    <2>4. write(kind, notes + 1).role \in {"note", "model"}
        BY DEF write
    <2>. QED BY <2>2, <2>3, <2>4
<1>. QED BY Writers, <1>1, <1>2, <1>3, <1>4, <1>5, <1>6

\* No writer separates a result from its call, or keeps from a result on.
LEMMA StepSessionInv == ASSUME TypeOK, ToolsInv, SessionInv, Next PROVE SessionInv'
<1>1. CASE session' = session
    BY <1>1 DEF SessionInv, Paired, Kept
<1>2. CASE session' # session
    <2>1. PICK e \in Entry :
             /\ session' = Append(session, e)
             /\ e.role = "toolResult" =>
                  session # <<>> /\ Answers(session[Len(session)], e)
             /\ e.role = "compaction" =>
                  e.n \in DOMAIN session /\ session[e.n].role # "toolResult"
        BY <1>2, AppendedEntry
    <2>2. Paired(session) /\ Kept(session) /\ session \in Seq(Entry)
        BY DEF SessionInv, TypeOK, SessionTypeOK
    <2>3. Paired(Append(session, e)) /\ Kept(Append(session, e))
        BY <2>1, <2>2, AppendKeeps
    <2>4. Paired(session') /\ Kept(session')
        BY <2>1, <2>3
    <2>. QED BY <2>4 DEF SessionInv
<1>. QED BY <1>1, <1>2

\* drainQueue stores only after it has read a nonempty queue.
LEMMA StepDrainInv == ASSUME TypeOK, DrainInv, Next PROVE DrainInv'
BY DEF DrainInv, Next, Runner, AbortStep, StartRun, CreateContext, BeginFails, TakeNextTurn, SetIdle,
       CloseRun, CompactSucceeds, CompactFails, AppendTodo, DrainLoad, DrainStore, DrainDone, DrainFails,
       Respond, RespondAborted, ToolResult, FlushOne, AppendWrite, Enter, LoopError, Finish,
       ToolBatchCut, WriteFails, PrepareNextTurn, FlushDone, FlushFails, Prompt, Continue,
       Compact, EnqueueLoad, EnqueueStore, AbortCopy, AbortClear, AbortCancel, AbortLook,
       AbortReturn, AbortVars, loopVars, FlushPoints

\* The phase goes idle only at the end of a run (SetIdle).
LEMMA StepBusyInv == ASSUME TypeOK, BusyInv, Next PROVE BusyInv'
BY DEF BusyInv, Next, Runner, AbortStep, StartRun, CreateContext, BeginFails, TakeNextTurn, SetIdle,
       CloseRun, CompactSucceeds, CompactFails, AppendTodo, DrainLoad, DrainStore, DrainDone, DrainFails,
       Respond, RespondAborted, ToolResult, FlushOne, AppendWrite, Enter, LoopError, Finish,
       ToolBatchCut, WriteFails, PrepareNextTurn, FlushDone, FlushFails, Prompt, Continue,
       Compact, EnqueueLoad, EnqueueStore, AbortCopy, AbortClear, AbortCancel, AbortLook,
       AbortReturn, AbortVars, FlushPoints

\* Only a response and the results before the last one leave the runner in "tools".
LEMMA InTools ==
    ASSUME Next, pc' = "tools"
    PROVE  \/ Respond \/ ToolResult
           \/ pc = "tools" /\ UNCHANGED <<context, done, calls, turns, session>>
           \/ pc = "tools" /\ phase = "idle"
BY DEF Next, Runner, AbortStep, StartRun, CreateContext, BeginFails, TakeNextTurn, SetIdle,
       CloseRun, CompactSucceeds, CompactFails, AppendTodo, DrainLoad, DrainStore, DrainDone, DrainFails,
       RespondAborted, FlushOne, AppendWrite, Enter, LoopError, Finish,
       ToolBatchCut, WriteFails, PrepareNextTurn, FlushDone, FlushFails, Prompt, Continue,
       Compact, EnqueueLoad, EnqueueStore, AbortCopy, AbortClear, AbortCancel, AbortLook,
       AbortReturn, AbortVars, loopVars, FlushPoints

\* The session ends with the batch as long as the batch runs: deferred writes
\* stay pending, for the phase is not idle (BusyInv).
LEMMA StepToolsInv == ASSUME TypeOK, BusyInv, ToolsInv, Next PROVE ToolsInv'
<1>. SUFFICES ASSUME pc' = "tools"
              PROVE  /\ session' # <<>> /\ Len(session') \in context' /\ done' < calls'
                     /\ session'[Len(session')].of = turns'
                     /\ done' = 0 => session'[Len(session')].role = "assistant"
                                     /\ session'[Len(session')].n = calls'
                     /\ done' # 0 => session'[Len(session')].role = "toolResult"
                                     /\ session'[Len(session')].n = done'
    BY DEF ToolsInv
<1>0. session \in Seq(Entry) /\ Len(session) \in Nat
    BY DEF TypeOK, SessionTypeOK
<1>1. CASE Respond
    <2>1. PICK n \in 0 .. MaxCalls, stop \in Stops :
            /\ session' = Append(session, response(turns + 1, n, stop))
            /\ calls' = n /\ done' = 0
            /\ pc' = IF stop \in FailingStops THEN "failedTurn"
                     ELSE IF n > 0 THEN "tools" ELSE "turnEnd"
        BY <1>1 DEF Respond
    <2>2. n \in Nat /\ n > 0
        BY <2>1, HarnessAssumption DEF HarnessAssumption
    <2>3. session' # <<>> /\ Len(session') = Len(session) + 1
          /\ session'[Len(session')] = response(turns + 1, n, stop)
        BY <1>0, <2>1
    <2>4. context' = context \union {Len(session) + 1} /\ turns' = turns + 1
        BY <1>1 DEF Respond
    <2>5. Len(session') \in context'
        BY <2>3, <2>4
    <2>6. /\ response(turns + 1, n, stop).of = turns + 1
          /\ response(turns + 1, n, stop).role = "assistant"
          /\ response(turns + 1, n, stop).n = n
        BY DEF response
    <2>. QED BY <2>1, <2>2, <2>3, <2>4, <2>5, <2>6
<1>2. CASE ToolResult
    <2>1. /\ session' = Append(session, toolResult(turns, done + 1))
          /\ context' = context \union {Len(session) + 1}
          /\ done' = done + 1 /\ turns' = turns /\ calls' = calls /\ done + 1 < calls
        BY <1>2 DEF ToolResult
    <2>2. session' # <<>> /\ Len(session') = Len(session) + 1
          /\ session'[Len(session')] = toolResult(turns, done + 1)
        BY <1>0, <2>1
    <2>3. Len(session') \in context'
        BY <2>1, <2>2
    <2>4. /\ toolResult(turns, done + 1).of = turns
          /\ toolResult(turns, done + 1).role = "toolResult"
          /\ toolResult(turns, done + 1).n = done + 1
        BY DEF toolResult
    <2>5. done' # 0
        BY <2>1 DEF TypeOK, LoopTypeOK
    <2>. QED BY <2>1, <2>2, <2>3, <2>4, <2>5
<1>3. CASE pc = "tools" /\ UNCHANGED <<context, done, calls, turns, session>>
    BY <1>3 DEF ToolsInv
<1>4. ~(pc = "tools" /\ phase = "idle")
    BY DEF BusyInv
<1>. QED BY InTools, <1>1, <1>2, <1>3, <1>4

\* The context changes only together with the session, or is rebuilt from it.
LEMMA ContextWriters ==
    ASSUME Next
    PROVE  \/ UNCHANGED context
           \/ CreateContext \/ PrepareNextTurn
           \/ (AppendTodo \/ Respond \/ ToolResult)
              /\ context' = context \union {Len(session) + 1}
BY DEF Next, Runner, AbortStep, StartRun, BeginFails, TakeNextTurn, SetIdle,
       CloseRun, CompactSucceeds, CompactFails, AppendTodo, DrainLoad, DrainStore, DrainDone, DrainFails,
       Respond, ToolResult, RespondAborted, FlushOne, AppendWrite,
       ToolBatchCut, WriteFails, FlushDone, FlushFails, Prompt, Continue,
       Compact, EnqueueLoad, EnqueueStore, AbortCopy, AbortClear, AbortCancel, AbortLook,
       AbortReturn, AbortVars, Enter

\* Appending, rebuilding and dropping a trailing response keep every call of a
\* result that the context keeps.
LEMMA StepContextInv ==
    ASSUME TypeOK, ToolsInv, SessionInv, ContextInv, Next PROVE ContextInv'
<1>0. session \in Seq(Entry) /\ Paired(session) /\ Kept(session)
    BY DEF TypeOK, SessionTypeOK, SessionInv
<1>1. CASE CreateContext \/ PrepareNextTurn
    <2>1. UNCHANGED session
        BY <1>1 DEF CreateContext, PrepareNextTurn
    <2>2. \/ context' = Visible(session)
          \/ \E i : IsLast(Visible(session), i) /\ context' = Visible(session) \ {i}
        BY <1>1 DEF CreateContext, PrepareNextTurn
    <2>3. Visible(session) \subseteq DOMAIN session
        BY <1>0, VisiblePositions
    <2>4. ASSUME NEW i \in Visible(session), session[i].role = "toolResult"
          PROVE  i - 1 \in Visible(session)
        BY <1>0, <2>4, VisibleKeepsCalls DEF Visible
    <2>5. ASSUME NEW i \in context', session[i].role = "toolResult"
          PROVE  i - 1 \in context'
        <3>1. i \in Visible(session) /\ i \in Nat
            BY <1>0, <2>2, <2>3, <2>5
        <3>2. i - 1 \in Visible(session)
            BY <2>4, <2>5, <3>1
        <3>3. CASE context' = Visible(session)
            BY <3>2, <3>3
        <3>4. CASE \E j : IsLast(Visible(session), j) /\ context' = Visible(session) \ {j}
            <4>1. PICK j : IsLast(Visible(session), j) /\ context' = Visible(session) \ {j}
                BY <3>4
            <4>2. j \in Nat /\ i <= j
                BY <1>0, <2>3, <3>1, <4>1 DEF IsLast
            <4>3. i - 1 # j
                BY <3>1, <4>2
            <4>. QED BY <3>2, <4>1, <4>3
        <3>. QED BY <2>2, <3>3, <3>4
    <2>6. context' \subseteq DOMAIN session
        BY <2>2, <2>3
    <2>. QED BY <2>1, <2>5, <2>6 DEF ContextInv, KeepsCalls
<1>2. CASE \/ context' = context
           \/ (AppendTodo \/ Respond \/ ToolResult) /\ context' = context \union {Len(session) + 1}
    <2>1. CASE session' = session
        <3>1. UNCHANGED context
            <4>1. CASE AppendTodo \/ Respond \/ ToolResult
                <5>1. \E e : session' = Append(session, e)
                    BY <4>1 DEF AppendTodo, Respond, ToolResult
                <5>. QED BY <1>0, <2>1, <5>1
            <4>. QED BY <1>2, <4>1
        <3>. QED BY <2>1, <3>1 DEF ContextInv, KeepsCalls
    <2>2. CASE session' # session
        <3>1. PICK e \in Entry : session' = Append(session, e)
            BY <2>2, AppendedEntry
        <3>2. /\ DOMAIN session \subseteq DOMAIN session' /\ Len(session) + 1 \in DOMAIN session'
              /\ session'[Len(session) + 1] = e
              /\ \A i \in DOMAIN session : session'[i] = session[i] /\ i # Len(session) + 1
            BY <1>0, <3>1
        <3>3. context' \subseteq DOMAIN session'
            BY <1>2, <3>2 DEF ContextInv
        <3>4. ASSUME NEW i \in context', session'[i].role = "toolResult"
              PROVE  i - 1 \in context'
            <4>1. CASE i \in context
                <5>1. session[i].role = "toolResult"
                    BY <3>2, <3>4, <4>1 DEF ContextInv
                <5>. QED BY <1>2, <4>1, <5>1 DEF ContextInv, KeepsCalls
            <4>2. CASE i = Len(session) + 1 /\ i \notin context
                <5>1. AppendTodo \/ Respond \/ ToolResult
                    BY <1>2, <4>2
                <5>2. session'[i].role = "toolResult" => ToolResult
                    <6>1. CASE AppendTodo
                        <7>1. todo # <<>> /\ session' = Append(session, Head(todo))
                            BY <6>1 DEF AppendTodo
                        <7>2. Head(todo) \in UserMessage
                            BY <7>1 DEF TypeOK, QueueTypeOK
                        <7>3. session'[i] = Head(todo)
                            BY <1>0, <4>2, <7>1
                        <7>. QED BY <7>2, <7>3 DEF UserMessage
                    <6>2. CASE Respond
                        <7>1. PICK n, s : session' = Append(session, response(turns + 1, n, s))
                            BY <6>2 DEF Respond
                        <7>2. session'[i] = response(turns + 1, n, s)
                            BY <1>0, <4>2, <7>1
                        <7>. QED BY <7>2 DEF response
                    <6>. QED BY <5>1, <6>1, <6>2
                <5>3. Len(session) \in context
                    BY <3>4, <5>2 DEF ToolResult, ToolsInv
                <5>. QED BY <1>0, <1>2, <4>2, <5>3
            <4>. QED BY <1>2, <3>4, <4>1, <4>2
        <3>. QED BY <3>3, <3>4 DEF ContextInv, KeepsCalls
    <2>. QED BY <2>1, <2>2
<1>3. \/ context' = context
      \/ CreateContext \/ PrepareNextTurn
      \/ (AppendTodo \/ Respond \/ ToolResult) /\ context' = context \union {Len(session) + 1}
    BY ContextWriters
<1>. QED BY <1>1, <1>2, <1>3

-----------------------------------------------------------------------------
\* The strengthening is an invariant, and with it the properties.

\* The strengthening holds initially.
LEMMA InitIInv == Init => IInv
<1>. SUFFICES ASSUME Init PROVE IInv
    OBVIOUS
<1>1. TypeOK
    BY InitTypeOK
<1>2. pc = "idle" /\ session = <<>> /\ context = {}
    BY DEF Init
<1>3. DrainInv /\ BusyInv /\ ToolsInv
    BY <1>2 DEF DrainInv, BusyInv, ToolsInv
<1>4. SessionInv /\ ContextInv
    BY <1>2 DEF SessionInv, Paired, Kept, ContextInv, KeepsCalls
<1>. QED BY <1>1, <1>3, <1>4 DEF IInv

\* Every step and every stutter preserves the strengthening.
LEMMA StepIInv == IInv /\ [Next]_vars => IInv'
<1>. SUFFICES ASSUME IInv, [Next]_vars PROVE IInv'
    OBVIOUS
<1>1. CASE Next
    BY <1>1, StepTypeOK, StepDrainInv, StepBusyInv, StepToolsInv, StepSessionInv, StepContextInv
    DEF IInv
<1>2. CASE UNCHANGED vars
    <2>1. TypeOK'
        BY <1>2 DEF IInv, TypeOK, RunTypeOK, LoopTypeOK, CountTypeOK, SessionTypeOK,
                    QueueTypeOK, vars, runVars, loopVars, otherVars
    <2>2. DrainInv' /\ BusyInv' /\ ToolsInv'
        BY <1>2 DEF IInv, DrainInv, BusyInv, ToolsInv, vars, loopVars
    <2>3. SessionInv' /\ ContextInv'
        BY <1>2 DEF IInv, SessionInv, Paired, Kept, ContextInv, KeepsCalls, vars
    <2>. QED BY <2>1, <2>2, <2>3 DEF IInv
<1>. QED BY <1>1, <1>2

\* The strengthening holds in every reachable state of the harness.
THEOREM InductiveInvariant == Spec => []IInv
BY InitIInv, StepIInv, PTL DEF Spec

\* Every variable keeps its type, whatever the bounds and the failures.
THEOREM TypeCorrect == Spec => []TypeOK
<1>1. IInv => TypeOK
    BY DEF IInv
<1>. QED BY <1>1, InductiveInvariant, PTL

\* Whatever is called, cancelled or fails while tools run, the session never
\* holds a tool result away from its call (agent_loop.go, executeToolCalls).
THEOREM SessionPairsResults == Spec => []ToolResultsFollowCalls
<1>1. IInv => ToolResultsFollowCalls
    BY DEF IInv, SessionInv, ToolResultsFollowCalls
<1>. QED BY <1>1, InductiveInvariant, PTL

\* No request holds a tool result without its call, whatever compactions cut
\* (compaction.go, FindCutPoint) and whatever contexts were rebuilt.
THEOREM RequestsKeepCalls == Spec => []NoOrphanToolResult
<1>1. IInv => NoOrphanToolResult
    BY DEF IInv, ContextInv, NoOrphanToolResult
<1>. QED BY <1>1, InductiveInvariant, PTL

-----------------------------------------------------------------------------
\* Requests end with input.

EndsWithInput(ctx) == \E i \in ctx : IsLast(ctx, i) /\ session[i].role # "assistant"

\* The last message of the branch is not a response; only model changes follow it.
BranchEndsWithInput ==
    \E i \in DOMAIN session :
        /\ session[i].role \in MessageRoles \ {"assistant"}
        /\ \A j \in DOMAIN session : j > i => session[j].role = "model"

\* The loop asks on after input only: "more" stands for a call that was answered.
InputInv ==
    /\ pc = "request" \/ (pc = "drain" /\ more) => EndsWithInput(context)
    /\ pc = "turnEnd" /\ more => BranchEndsWithInput

\* The other steps neither change what is asked nor move the runner towards a request.
LEMMA InputWriters ==
    ASSUME Next
    PROVE  \/ AppendTodo \/ CreateContext \/ PrepareNextTurn \/ Respond \/ ToolResult
           \/ ToolBatchCut \/ FlushOne \/ CompactSucceeds
           \/ \E kind \in {"note", "model"} : AppendWrite(kind)
           \/ /\ UNCHANGED <<session, context>>
              /\ pc' = "request" => pc = "request" \/ (pc = "drain" /\ more)
              /\ pc' = "drain" /\ more' => pc = "drain" /\ more
              /\ pc' = "turnEnd" /\ more' => pc = "turnEnd" /\ more
BY DEF Next, Runner, AbortStep, StartRun, BeginFails, TakeNextTurn, SetIdle,
       CloseRun, CompactFails, DrainLoad, DrainStore, DrainDone, DrainFails,
       RespondAborted, WriteFails, FlushDone, FlushFails, Prompt, Continue, LoopError, Finish,
       Compact, EnqueueLoad, EnqueueStore, AbortCopy, AbortClear, AbortCancel, AbortLook,
       AbortReturn, AbortVars, Enter, loopVars

\* An entry put at the end of a branch is its last position.
LEMMA LastPosition ==
    ASSUME NEW s \in Seq(Entry), NEW e \in Entry, NEW ctx, ctx \subseteq DOMAIN s
    PROVE  /\ IsLast(ctx \union {Len(s) + 1}, Len(s) + 1)
           /\ Append(s, e)[Len(s) + 1] = e /\ DOMAIN Append(s, e) = 1 .. (Len(s) + 1)
           /\ DOMAIN s = 1 .. Len(s) /\ Len(s) \in Nat
           /\ \A i \in DOMAIN s : Append(s, e)[i] = s[i]
<1>1. DOMAIN s = 1 .. Len(s) /\ Len(s) \in Nat
    OBVIOUS
<1>2. \A i \in ctx : i <= Len(s) + 1
    BY <1>1
<1>. QED BY <1>1, <1>2 DEF IsLast

\* The last message of a branch that ends with input is shown, and is the last shown.
LEMMA VisibleEndsWithInput ==
    ASSUME session \in Seq(Entry), Kept(session), BranchEndsWithInput
    PROVE  EndsWithInput(Visible(session))
<1>1. PICK i \in DOMAIN session :
        /\ session[i].role \in MessageRoles \ {"assistant"}
        /\ \A j \in DOMAIN session : j > i => session[j].role = "model"
    BY DEF BranchEndsWithInput
<1>2. DOMAIN session \subseteq Nat
    OBVIOUS
<1>3. i \in Visible(session)
    <2>1. ASSUME NEW c \in DOMAIN session, IsLastCompaction(session, c)  PROVE i >= session[c].n
        <3>1. session[c].role = "compaction"
            BY <2>1 DEF IsLastCompaction, Compactions
        <3>2. session[c].n \in DOMAIN session /\ session[c].n < c
            BY <3>1 DEF Kept
        <3>3. ~(c > i)
            BY <1>1, <3>1
        <3>. QED BY <1>2, <3>2, <3>3
    <2>. QED BY <1>1, <2>1 DEF Visible, Shown
<1>4. \A j \in Visible(session) : j <= i
    <2>1. \A j \in Visible(session) : j \in DOMAIN session /\ session[j].role # "model"
        BY DEF Visible, Shown, MessageRoles, CutRoles
    <2>. QED BY <1>1, <1>2, <2>1
<1>. QED BY <1>1, <1>3, <1>4 DEF EndsWithInput, IsLast

\* A context keeps its last message when the branch grows.
LEMMA InputStays ==
    ASSUME EndsWithInput(context), context \subseteq DOMAIN session, UNCHANGED context,
           \A i \in DOMAIN session : session'[i] = session[i]
    PROVE  EndsWithInput(context)'
BY DEF EndsWithInput, IsLast

LEMMA StepInputInv == ASSUME IInv, InputInv, Next PROVE InputInv'
<1>0. /\ session \in Seq(Entry) /\ Kept(session) /\ context \subseteq DOMAIN session
      /\ pc \notin {"idle", "close"} => phase # "idle"
    BY DEF IInv, TypeOK, SessionTypeOK, SessionInv, ContextInv, BusyInv
<1>1. CASE AppendTodo
    <2>1. /\ session' = Append(session, Head(todo)) /\ context' = context \union {Len(session) + 1}
          /\ todo # <<>> /\ pc' # "turnEnd"
        BY <1>1 DEF AppendTodo
    <2>2. Head(todo) \in UserMessage
        BY <2>1 DEF IInv, TypeOK, QueueTypeOK
    <2>3. Head(todo) \in Entry /\ Head(todo).role = "user"
        BY <2>2, EntryTypes DEF UserMessage
    <2>4. IsLast(context', Len(session) + 1) /\ session'[Len(session) + 1].role = "user"
        BY <1>0, <2>1, <2>3, LastPosition
    <2>5. EndsWithInput(context)'
        BY <2>1, <2>4 DEF EndsWithInput
    <2>. QED BY <2>1, <2>5 DEF InputInv
<1>2. CASE CreateContext
    <2>1. UNCHANGED session /\ pc' \notin {"request", "turnEnd"}
        BY <1>2 DEF CreateContext
    <2>2. pc' = "drain" => \E i \in context' : IsLast(context', i) /\ session[i].role # "assistant"
        BY <1>2 DEF CreateContext, MayContinue
    <2>. QED BY <2>1, <2>2 DEF InputInv, EndsWithInput
<1>3. CASE PrepareNextTurn
    <2>1. /\ pc = "turnEnd" /\ pc' = "drain" /\ more' = more /\ context' = Visible(session)
          /\ session' = session
        BY <1>3 DEF PrepareNextTurn
    <2>2. more => EndsWithInput(Visible(session))
        BY <1>0, <2>1, VisibleEndsWithInput DEF InputInv
    <2>3. EndsWithInput(Visible(session)) => EndsWithInput(context)'
        BY <2>1 DEF EndsWithInput
    <2>. QED BY <2>1, <2>2, <2>3 DEF InputInv
<1>4. CASE Respond
    <2>1. ~more' /\ pc' \notin {"request", "drain"}
        BY <1>4 DEF Respond
    <2>. QED BY <2>1 DEF InputInv
<1>5. CASE ToolResult
    <2>1. pc' \in {"tools", "turnEnd"} /\ session' = Append(session, toolResult(turns, done + 1))
        BY <1>5 DEF ToolResult
    <2>2. toolResult(turns, done + 1) \in Entry /\ toolResult(turns, done + 1).role = "toolResult"
        BY EntryTypes DEF IInv, TypeOK, CountTypeOK, LoopTypeOK, toolResult
    <2>3. /\ Len(session) + 1 \in DOMAIN session' /\ session'[Len(session) + 1].role = "toolResult"
          /\ \A j \in DOMAIN session' : ~(j > Len(session) + 1)
        BY <1>0, <2>1, <2>2, LastPosition
    <2>4. BranchEndsWithInput'
        BY <2>3 DEF BranchEndsWithInput, MessageRoles
    <2>. QED BY <2>1, <2>4 DEF InputInv
<1>6. CASE ToolBatchCut
    <2>1. pc = "tools" /\ done > 0 /\ session' = session /\ pc' = "turnEnd"
        BY <1>6 DEF ToolBatchCut
    <2>2. session # <<>> /\ session[Len(session)].role = "toolResult"
        BY <2>1 DEF IInv, ToolsInv, TypeOK, LoopTypeOK
    <2>3. Len(session) \in DOMAIN session /\ \A j \in DOMAIN session : ~(j > Len(session))
        BY <1>0, <2>2
    <2>4. BranchEndsWithInput'
        BY <2>1, <2>2, <2>3 DEF BranchEndsWithInput, MessageRoles
    <2>. QED BY <2>1, <2>4 DEF InputInv
<1>7. CASE FlushOne
    <2>1. /\ pc \in FlushPoints /\ pendingSessionWrites # <<>> /\ pc' = pc /\ more' = more
          /\ session' = Append(session, Head(pendingSessionWrites))
        BY <1>7 DEF FlushOne, loopVars
    <2>2. Head(pendingSessionWrites) \in Write
        BY <2>1 DEF IInv, TypeOK, SessionTypeOK
    <2> DEFINE e == Head(pendingSessionWrites)
    <2>3. e \in Entry /\ e.role \in {"note", "model"}
        BY <2>2, EntryTypes DEF Write
    <2> HIDE DEF e
    <2>4. /\ DOMAIN session' = 1 .. (Len(session) + 1) /\ session'[Len(session) + 1] = e
          /\ DOMAIN session = 1 .. Len(session) /\ Len(session) \in Nat
          /\ \A i \in DOMAIN session : session'[i] = session[i]
        BY <1>0, <2>1, <2>3, LastPosition DEF e
    <2>5. BranchEndsWithInput => BranchEndsWithInput'
        <3>1. CASE e.role = "note"
            <4>1. /\ Len(session) + 1 \in DOMAIN session' /\ session'[Len(session) + 1].role = "note"
                  /\ \A j \in DOMAIN session' : ~(j > Len(session) + 1)
                BY <2>4, <3>1
            <4>. QED BY <4>1 DEF BranchEndsWithInput, MessageRoles, CutRoles
        <3>2. CASE e.role = "model"
            <4>. SUFFICES ASSUME BranchEndsWithInput PROVE BranchEndsWithInput'
                OBVIOUS
            <4>1. PICK i \in DOMAIN session :
                    /\ session[i].role \in MessageRoles \ {"assistant"}
                    /\ \A j \in DOMAIN session : j > i => session[j].role = "model"
                BY DEF BranchEndsWithInput
            <4>2. i \in DOMAIN session' /\ session'[i] = session[i]
                BY <2>4
            <4>3. \A j \in DOMAIN session' : j > i => session'[j].role = "model"
                BY <2>4, <3>2, <4>1
            <4>. QED BY <4>1, <4>2, <4>3 DEF BranchEndsWithInput
        <3>. QED BY <2>3, <3>1, <3>2
    <2>. QED BY <2>1, <2>5 DEF InputInv, FlushPoints
<1>8. CASE CompactSucceeds
    <2>1. pc' = "finish"
        BY <1>8 DEF CompactSucceeds, Finish
    <2>. QED BY <2>1 DEF InputInv
<1>9. CASE \E kind \in {"note", "model"} : AppendWrite(kind)
    <2>1. /\ UNCHANGED <<pc, context, more>>
          /\ phase # "idle" => UNCHANGED session
        BY <1>9 DEF AppendWrite, loopVars
    <2>2. pc \in {"request", "drain", "turnEnd"} => UNCHANGED session
        BY <1>0, <2>1
    <2>. QED BY <2>1, <2>2 DEF InputInv, EndsWithInput, BranchEndsWithInput
<1>10. CASE /\ UNCHANGED <<session, context>>
            /\ pc' = "request" => pc = "request" \/ (pc = "drain" /\ more)
            /\ pc' = "drain" /\ more' => pc = "drain" /\ more
            /\ pc' = "turnEnd" /\ more' => pc = "turnEnd" /\ more
    BY <1>10 DEF InputInv, EndsWithInput, BranchEndsWithInput
<1>. QED BY InputWriters, <1>1, <1>2, <1>3, <1>4, <1>5, <1>6, <1>7, <1>8, <1>9, <1>10

\* The provider is asked for a response to input only: RunAgentLoopContinue refuses a context
\* that ends with a response, and the loop asks again only after tool results or messages.
THEOREM RequestsEndWithInput == Spec => []RequestEndsWithInput
<1>1. Init => InputInv
    BY DEF Init, InputInv
<1>2. IInv /\ InputInv /\ [Next]_vars => InputInv'
    <2>. SUFFICES ASSUME IInv, InputInv, [Next]_vars PROVE InputInv'
        OBVIOUS
    <2>1. CASE UNCHANGED vars
        BY <2>1 DEF vars, loopVars, InputInv, EndsWithInput, BranchEndsWithInput
    <2>. QED BY StepInputInv, <2>1
<1>3. InputInv => RequestEndsWithInput
    BY DEF InputInv, EndsWithInput, RequestEndsWithInput
<1>. QED BY <1>1, <1>2, <1>3, InductiveInvariant, PTL DEF Spec

-----------------------------------------------------------------------------
\* Deferred writes.

IsWrite(e) == e.role \in {"note", "model"}

\* Each write of the callers is at one place, in the session or among the pending ones.
WriteInv ==
    /\ \A i \in DOMAIN session : IsWrite(session[i]) => session[i].of \in 1 .. notes
    /\ \A i \in DOMAIN pendingSessionWrites : pendingSessionWrites[i].of \in 1 .. notes
    /\ \A i, j \in DOMAIN session :
         IsWrite(session[i]) /\ IsWrite(session[j]) /\ session[i].of = session[j].of => i = j
    /\ \A i, j \in DOMAIN pendingSessionWrites :
         pendingSessionWrites[i].of = pendingSessionWrites[j].of => i = j
    /\ \A i \in DOMAIN session, j \in DOMAIN pendingSessionWrites :
         IsWrite(session[i]) => session[i].of # pendingSessionWrites[j].of
    /\ \A k \in 1 .. notes :
         \/ \E i \in DOMAIN session : IsWrite(session[i]) /\ session[i].of = k
         \/ \E i \in DOMAIN pendingSessionWrites : pendingSessionWrites[i].of = k

\* The deferred writes change only where they are queued and where they are flushed.
LEMMA WritesMove ==
    ASSUME Next
    PROVE  \/ UNCHANGED <<session, pendingSessionWrites, notes>>
           \/ (CompactSucceeds \/ AppendTodo \/ Respond \/ ToolResult)
              /\ UNCHANGED <<pendingSessionWrites, notes>>
           \/ FlushOne
           \/ \E kind \in {"note", "model"} : AppendWrite(kind)
BY DEF Next, Runner, AbortStep, StartRun, CreateContext, BeginFails, TakeNextTurn, SetIdle,
       CloseRun, CompactSucceeds, CompactFails, AppendTodo, DrainLoad, DrainStore, DrainDone,
       DrainFails, Respond, RespondAborted, ToolResult, ToolBatchCut, WriteFails, PrepareNextTurn,
       FlushDone, FlushFails, Prompt, Continue, Compact, EnqueueLoad, EnqueueStore, AbortCopy,
       AbortClear, AbortCancel, AbortLook, AbortReturn, AbortVars, otherVars

\* What the runner writes for itself is no write of a caller.
LEMMA RunnersEntry ==
    ASSUME TypeOK, CompactSucceeds \/ AppendTodo \/ Respond \/ ToolResult
    PROVE  \E e : session' = Append(session, e) /\ ~IsWrite(e)
<1>1. CASE CompactSucceeds
    BY <1>1 DEF CompactSucceeds, compaction, IsWrite
<1>2. CASE AppendTodo
    <2>1. todo # <<>> /\ session' = Append(session, Head(todo))
        BY <1>2 DEF AppendTodo
    <2>2. Head(todo) \in UserMessage
        BY <2>1 DEF TypeOK, QueueTypeOK
    <2>. QED BY <2>1, <2>2 DEF UserMessage, IsWrite
<1>3. CASE Respond
    BY <1>3 DEF Respond, response, IsWrite
<1>4. CASE ToolResult
    BY <1>4 DEF ToolResult, toolResult, IsWrite
<1>. QED BY <1>1, <1>2, <1>3, <1>4

LEMMA SequenceEnds ==
    ASSUME NEW S, NEW s \in Seq(S), NEW e
    PROVE  /\ DOMAIN s = 1 .. Len(s) /\ Len(s) \in Nat
           /\ DOMAIN Append(s, e) = 1 .. (Len(s) + 1)
           /\ Append(s, e)[Len(s) + 1] = e
           /\ \A i \in DOMAIN s : Append(s, e)[i] = s[i] /\ i # Len(s) + 1
           /\ \A i \in DOMAIN Append(s, e) : i \in DOMAIN s \/ i = Len(s) + 1
           /\ s # <<>> => /\ Head(s) = s[1] /\ 1 \in DOMAIN s
                          /\ DOMAIN Tail(s) = 1 .. (Len(s) - 1)
                          /\ \A i \in DOMAIN Tail(s) : Tail(s)[i] = s[i + 1] /\ i + 1 \in DOMAIN s
                                                       /\ i + 1 # 1
                          /\ \A i \in DOMAIN s : i = 1 \/ i - 1 \in DOMAIN Tail(s)
                          /\ \A i \in DOMAIN s : i - 1 \in DOMAIN Tail(s) => Tail(s)[i - 1] = s[i]
<1>1. DOMAIN s = 1 .. Len(s) /\ Len(s) \in Nat
    OBVIOUS
<1>2. /\ DOMAIN Append(s, e) = 1 .. (Len(s) + 1)
      /\ Append(s, e)[Len(s) + 1] = e
      /\ \A i \in DOMAIN s : Append(s, e)[i] = s[i] /\ i # Len(s) + 1
      /\ \A i \in DOMAIN Append(s, e) : i \in DOMAIN s \/ i = Len(s) + 1
    BY <1>1
<1>3. ASSUME s # <<>>
      PROVE  /\ Head(s) = s[1] /\ 1 \in DOMAIN s
             /\ DOMAIN Tail(s) = 1 .. (Len(s) - 1)
             /\ \A i \in DOMAIN Tail(s) : Tail(s)[i] = s[i + 1] /\ i + 1 \in DOMAIN s
                                          /\ i + 1 # 1
             /\ \A i \in DOMAIN s : i = 1 \/ i - 1 \in DOMAIN Tail(s)
             /\ \A i \in DOMAIN s : i - 1 \in DOMAIN Tail(s) => Tail(s)[i - 1] = s[i]
    BY <1>1, <1>3
<1>. QED BY <1>1, <1>2, <1>3

LEMMA StepWriteInv == ASSUME TypeOK, WriteInv, Next PROVE WriteInv'
<1>0. /\ session \in Seq(Entry) /\ pendingSessionWrites \in Seq(Write) /\ notes \in Nat
      /\ DOMAIN session = 1 .. Len(session) /\ Len(session) \in Nat
    BY DEF TypeOK, SessionTypeOK, CountTypeOK
<1>1. CASE UNCHANGED <<session, pendingSessionWrites, notes>>
    BY <1>1 DEF WriteInv
<1>2. CASE (CompactSucceeds \/ AppendTodo \/ Respond \/ ToolResult)
           /\ UNCHANGED <<pendingSessionWrites, notes>>
    <2>1. PICK e : session' = Append(session, e) /\ ~IsWrite(e)
        BY <1>2, RunnersEntry
    <2>2. /\ \A i \in DOMAIN session' : i \in DOMAIN session \/ i = Len(session) + 1
          /\ \A i \in DOMAIN session : i \in DOMAIN session' /\ session'[i] = session[i]
          /\ session'[Len(session) + 1] = e
        BY <1>0, <2>1, SequenceEnds
    <2>3. \A i \in DOMAIN session' :
            IsWrite(session'[i]) => i \in DOMAIN session /\ session'[i] = session[i]
        BY <2>1, <2>2
    <2>. QED BY <1>2, <2>2, <2>3 DEF WriteInv
<1>3. CASE FlushOne
    <2>1. /\ pendingSessionWrites # <<>> /\ session' = Append(session, Head(pendingSessionWrites))
          /\ pendingSessionWrites' = Tail(pendingSessionWrites) /\ notes' = notes
        BY <1>3 DEF FlushOne, otherVars
    <2> DEFINE e == pendingSessionWrites[1]
    <2>2. /\ 1 \in DOMAIN pendingSessionWrites /\ Head(pendingSessionWrites) = e
          /\ \A i \in DOMAIN pendingSessionWrites' :
               /\ pendingSessionWrites'[i] = pendingSessionWrites[i + 1]
               /\ i + 1 \in DOMAIN pendingSessionWrites /\ i + 1 # 1
          /\ \A i \in DOMAIN pendingSessionWrites :
               i = 1 \/ (i - 1 \in DOMAIN pendingSessionWrites'
                         /\ pendingSessionWrites'[i - 1] = pendingSessionWrites[i])
        BY <1>0, <2>1, SequenceEnds
    <2>3. IsWrite(e)
        <3>1. e \in Write
            BY <1>0, <2>2
        <3>. QED BY <3>1 DEF Write, IsWrite
    <2> HIDE DEF e
    <2>4. /\ \A i \in DOMAIN session' : i \in DOMAIN session \/ i = Len(session) + 1
          /\ \A i \in DOMAIN session : i \in DOMAIN session' /\ session'[i] = session[i]
          /\ Len(session) + 1 \in DOMAIN session' /\ session'[Len(session) + 1] = e
        BY <1>0, <2>1, <2>2, SequenceEnds
    <2>5. /\ e.of \in 1 .. notes
          /\ \A i \in DOMAIN session : IsWrite(session[i]) => session[i].of # e.of
          /\ \A i \in DOMAIN pendingSessionWrites : pendingSessionWrites[i].of = e.of => i = 1
        BY <2>2 DEF WriteInv, e
    <2>6. /\ \A i \in DOMAIN session' : IsWrite(session'[i]) => session'[i].of \in 1 .. notes
          /\ \A i, j \in DOMAIN session' :
               IsWrite(session'[i]) /\ IsWrite(session'[j]) /\ session'[i].of = session'[j].of => i = j
        BY <2>4, <2>5 DEF WriteInv
    <2>7. /\ \A i \in DOMAIN pendingSessionWrites' : pendingSessionWrites'[i].of \in 1 .. notes
          /\ \A i \in DOMAIN pendingSessionWrites' : pendingSessionWrites'[i].of # e.of
          /\ \A i \in DOMAIN session, j \in DOMAIN pendingSessionWrites' :
               IsWrite(session[i]) => session[i].of # pendingSessionWrites'[j].of
        BY <2>2, <2>5 DEF WriteInv
    <2>8. \A i, j \in DOMAIN pendingSessionWrites' :
               pendingSessionWrites'[i].of = pendingSessionWrites'[j].of => i = j
        <3>1. TAKE i, j \in DOMAIN pendingSessionWrites'
        <3>2. HAVE pendingSessionWrites'[i].of = pendingSessionWrites'[j].of
        <3>3. i + 1 = j + 1
            BY <2>2, <3>2 DEF WriteInv
        <3>4. i \in Int /\ j \in Int
            BY <1>0, <2>1
        <3>. QED BY <3>3, <3>4
    <2>9. \A i \in DOMAIN session', j \in DOMAIN pendingSessionWrites' :
               IsWrite(session'[i]) => session'[i].of # pendingSessionWrites'[j].of
        BY <2>4, <2>7
    <2>10. \A k \in 1 .. notes :
            \/ \E i \in DOMAIN session' : IsWrite(session'[i]) /\ session'[i].of = k
            \/ \E i \in DOMAIN pendingSessionWrites' : pendingSessionWrites'[i].of = k
        <3>1. TAKE k \in 1 .. notes
        <3>2. CASE \E i \in DOMAIN session : IsWrite(session[i]) /\ session[i].of = k
            BY <2>4, <3>2
        <3>3. CASE \E i \in DOMAIN pendingSessionWrites : pendingSessionWrites[i].of = k
            BY <2>2, <2>3, <2>4, <3>3 DEF e
        <3>. QED BY <3>2, <3>3 DEF WriteInv
    <2>. QED BY <2>1, <2>6, <2>7, <2>8, <2>9, <2>10 DEF WriteInv
<1>4. CASE \E kind \in {"note", "model"} : AppendWrite(kind)
    <2>1. PICK kind \in {"note", "model"} : AppendWrite(kind)
        BY <1>4
    <2> DEFINE e == write(kind, notes + 1)
    <2>2. /\ notes' = notes + 1
          /\ \/ session' = Append(session, e) /\ UNCHANGED pendingSessionWrites
             \/ pendingSessionWrites' = Append(pendingSessionWrites, e) /\ UNCHANGED session
        BY <2>1 DEF AppendWrite
    <2>3. IsWrite(e) /\ e.of = notes + 1
        BY DEF write, IsWrite
    <2> HIDE DEF e
    <2>4. /\ notes + 1 \notin 1 .. notes /\ notes + 1 \in 1 .. notes'
          /\ \A k \in 1 .. notes : k \in 1 .. notes'
          /\ \A k \in 1 .. notes' : k \in 1 .. notes \/ k = notes + 1
        BY <1>0, <2>2
    <2>5. CASE session' = Append(session, e) /\ UNCHANGED pendingSessionWrites
        <3>1. /\ \A i \in DOMAIN session' : i \in DOMAIN session \/ i = Len(session) + 1
              /\ \A i \in DOMAIN session : i \in DOMAIN session' /\ session'[i] = session[i]
              /\ Len(session) + 1 \in DOMAIN session' /\ session'[Len(session) + 1] = e
            BY <1>0, <2>5, SequenceEnds
        <3>. QED BY <2>3, <2>4, <2>5, <3>1 DEF WriteInv
    <2>6. CASE pendingSessionWrites' = Append(pendingSessionWrites, e) /\ UNCHANGED session
        <3> DEFINE n == Len(pendingSessionWrites) + 1
        <3>1. /\ \A i \in DOMAIN pendingSessionWrites' : i \in DOMAIN pendingSessionWrites \/ i = n
              /\ \A i \in DOMAIN pendingSessionWrites : /\ i \in DOMAIN pendingSessionWrites'
                                                        /\ pendingSessionWrites'[i] = pendingSessionWrites[i]
              /\ n \in DOMAIN pendingSessionWrites' /\ pendingSessionWrites'[n] = e
            BY <1>0, <2>6, SequenceEnds
        <3>. QED BY <2>3, <2>4, <2>6, <3>1 DEF WriteInv
    <2>. QED BY <2>2, <2>5, <2>6
<1>. QED BY WritesMove, <1>1, <1>2, <1>3, <1>4

\* A deferred write is saved once, in whatever order flushes, failures and further writes come
\* (agent_harness.go, flushPendingSessionWrites).
THEOREM WritesAreSavedOnce == Spec => []WriteConservation
<1>1. Init => WriteInv
    BY DEF Init, WriteInv
<1>2. TypeOK /\ WriteInv /\ [Next]_vars => WriteInv'
    <2>1. UNCHANGED vars /\ WriteInv => WriteInv'
        BY DEF vars, otherVars, WriteInv
    <2>. QED BY StepWriteInv, <2>1
<1>3. TypeOK /\ WriteInv => WriteConservation
    <2>. SUFFICES ASSUME TypeOK, WriteInv, NEW k \in 1 .. notes
                  PROVE  Cardinality({i \in DOMAIN session :
                                        session[i].role \in {"note", "model"} /\ session[i].of = k})
                       + Cardinality({i \in DOMAIN pendingSessionWrites :
                                        pendingSessionWrites[i].of = k}) = 1
        BY DEF WriteConservation
    <2> DEFINE S == {i \in DOMAIN session : session[i].role \in {"note", "model"} /\ session[i].of = k}
               P == {i \in DOMAIN pendingSessionWrites : pendingSessionWrites[i].of = k}
    <2>1. CASE \E i \in DOMAIN session : IsWrite(session[i]) /\ session[i].of = k
        <3>1. PICK i \in DOMAIN session : IsWrite(session[i]) /\ session[i].of = k
            BY <2>1
        <3>2. S = {i} /\ P = {}
            BY <3>1 DEF WriteInv, IsWrite
        <3>3. Cardinality({i}) = 1 /\ Cardinality({}) = 0
            BY FS_Singleton, FS_EmptySet
        <3> HIDE DEF S, P
        <3>4. Cardinality(S) = 1 /\ Cardinality(P) = 0
            BY <3>2, <3>3
        <3>5. Cardinality(S) + Cardinality(P) = 1
            BY <3>4
        <3>. QED BY <3>5 DEF S, P
    <2>2. CASE \E i \in DOMAIN pendingSessionWrites : pendingSessionWrites[i].of = k
        <3>1. PICK i \in DOMAIN pendingSessionWrites : pendingSessionWrites[i].of = k
            BY <2>2
        <3>2. S = {} /\ P = {i}
            BY <3>1 DEF WriteInv, IsWrite
        <3>3. Cardinality({i}) = 1 /\ Cardinality({}) = 0
            BY FS_Singleton, FS_EmptySet
        <3> HIDE DEF S, P
        <3>4. Cardinality(S) = 0 /\ Cardinality(P) = 1
            BY <3>2, <3>3
        <3>5. Cardinality(S) + Cardinality(P) = 1
            BY <3>4
        <3>. QED BY <3>5 DEF S, P
    <2>. QED BY <2>1, <2>2 DEF WriteInv
<1>. QED BY <1>1, <1>2, <1>3, TypeCorrect, PTL DEF Spec

-----------------------------------------------------------------------------
\* Messages: where each one is, while no two updates of a queue overlap.

\* The ids of the messages of a branch, and no id twice.
UserIds(s)  == {s[i].of : i \in {j \in DOMAIN s : s[j].role = "user"}}
Distinct(s) == \A i, j \in DOMAIN s : s[i].of = s[j].of => i = j
DistinctUsers(s) == \A i, j \in DOMAIN s :
    s[i].role = "user" /\ s[j].role = "user" /\ s[i].of = s[j].of => i = j

LEMMA NoIds == Ids(<<>>) = {} /\ Distinct(<<>>)
BY DEF Ids, Distinct

LEMMA AppendedIds ==
    ASSUME NEW S, NEW s \in Seq(S), NEW e
    PROVE  /\ Ids(Append(s, e)) = Ids(s) \union {e.of}
           /\ UserIds(Append(s, e)) = UserIds(s) \union IF e.role = "user" THEN {e.of} ELSE {}
           /\ Distinct(s) /\ e.of \notin Ids(s) => Distinct(Append(s, e))
           /\ DistinctUsers(s) /\ (e.role = "user" => e.of \notin UserIds(s)) => DistinctUsers(Append(s, e))
<1> DEFINE t == Append(s, e)
           n == Len(s) + 1
<1>1. /\ \A i \in DOMAIN s : i \in DOMAIN t /\ t[i] = s[i]
      /\ \A i \in DOMAIN t : i \in DOMAIN s \/ i = n
      /\ n \in DOMAIN t /\ t[n] = e
    BY SequenceEnds
<1> HIDE DEF t, n
<1>2. Ids(t) = Ids(s) \union {e.of}
    BY <1>1 DEF Ids
<1>3. UserIds(t) = UserIds(s) \union IF e.role = "user" THEN {e.of} ELSE {}
    BY <1>1 DEF UserIds
<1>4. Distinct(s) /\ e.of \notin Ids(s) => Distinct(t)
    BY <1>1 DEF Distinct, Ids
<1>5. DistinctUsers(s) /\ (e.role = "user" => e.of \notin UserIds(s)) => DistinctUsers(t)
    BY <1>1 DEF DistinctUsers, UserIds
<1>. QED BY <1>2, <1>3, <1>4, <1>5 DEF t

LEMMA ConcatenatedIds ==
    ASSUME NEW S, NEW s \in Seq(S), NEW t \in Seq(S)
    PROVE  /\ Ids(s \o t) = Ids(s) \union Ids(t)
           /\ Distinct(s) /\ Distinct(t) /\ Ids(s) \intersect Ids(t) = {} => Distinct(s \o t)
<1> DEFINE u == s \o t
           n == Len(s)
<1>1. /\ DOMAIN s = 1 .. n /\ DOMAIN t = 1 .. Len(t) /\ DOMAIN u = 1 .. (n + Len(t))
      /\ n \in Nat /\ Len(t) \in Nat
      /\ \A i \in 1 .. n : u[i] = s[i]
      /\ \A i \in n + 1 .. n + Len(t) : u[i] = t[i - n]
    OBVIOUS
<1> HIDE DEF u, n
<1>2. /\ \A i \in DOMAIN s : i \in DOMAIN u /\ u[i] = s[i]
      /\ \A i \in DOMAIN t : i + n \in DOMAIN u /\ u[i + n] = t[i]
      /\ \A i \in DOMAIN u : \/ i \in DOMAIN s /\ u[i] = s[i]
                             \/ i - n \in DOMAIN t /\ u[i] = t[i - n]
    BY <1>1
<1>3. Ids(u) = Ids(s) \union Ids(t)
    BY <1>2 DEF Ids
<1>4. ASSUME Distinct(s), Distinct(t), Ids(s) \intersect Ids(t) = {}  PROVE Distinct(u)
    <2>. SUFFICES ASSUME NEW i \in DOMAIN u, NEW j \in DOMAIN u, u[i].of = u[j].of  PROVE i = j
        BY DEF Distinct
    <2>1. \A k \in DOMAIN s, l \in DOMAIN t : s[k].of # t[l].of
        BY <1>4 DEF Ids
    <2>2. CASE i \in DOMAIN s /\ j \in DOMAIN s
        BY <1>2, <1>4, <2>2 DEF Distinct
    <2>3. CASE i \notin DOMAIN s /\ j \notin DOMAIN s
        <3>1. i - n = j - n
            BY <1>2, <1>4, <2>3 DEF Distinct
        <3>. QED BY <1>1, <3>1
    <2>. QED BY <1>2, <2>1, <2>2, <2>3
<1>. QED BY <1>3, <1>4 DEF u

LEMMA TakenIds ==
    ASSUME NEW S, NEW s \in Seq(S), NEW n \in 0 .. Len(s)
    PROVE  LET a == SubSeq(s, 1, n)
               b == SubSeq(s, n + 1, Len(s))
           IN  /\ Ids(s) = Ids(a) \union Ids(b)
               /\ Distinct(s) => Distinct(a) /\ Distinct(b) /\ Ids(a) \intersect Ids(b) = {}
<1> DEFINE a == SubSeq(s, 1, n)
           b == SubSeq(s, n + 1, Len(s))
<1>1. /\ DOMAIN s = 1 .. Len(s) /\ Len(s) \in Nat /\ n \in Nat
      /\ DOMAIN a = 1 .. n /\ DOMAIN b = 1 .. (Len(s) - n)
      /\ \A i \in DOMAIN a : a[i] = s[i]
      /\ \A i \in DOMAIN b : b[i] = s[i + n]
    OBVIOUS
<1> HIDE DEF a, b
<1>2. /\ \A i \in DOMAIN a : i \in DOMAIN s /\ a[i] = s[i]
      /\ \A i \in DOMAIN b : i + n \in DOMAIN s /\ b[i] = s[i + n]
      /\ \A i \in DOMAIN s : i \in DOMAIN a \/ (i - n \in DOMAIN b /\ b[i - n] = s[i])
      /\ \A i \in DOMAIN a, j \in DOMAIN b : i # j + n
      /\ \A i, j \in DOMAIN b : i + n = j + n => i = j
    BY <1>1
<1>3. Ids(s) = Ids(a) \union Ids(b)
    BY <1>2 DEF Ids
<1>4. ASSUME Distinct(s)  PROVE Distinct(a) /\ Distinct(b) /\ Ids(a) \intersect Ids(b) = {}
    <2>1. Distinct(a)
        BY <1>2, <1>4 DEF Distinct
    <2>2. Distinct(b)
        BY <1>2, <1>4 DEF Distinct
    <2>3. \A i \in DOMAIN a, j \in DOMAIN b : a[i].of # b[j].of
        BY <1>2, <1>4 DEF Distinct
    <2>. QED BY <2>1, <2>2, <2>3 DEF Ids
<1>. QED BY <1>3, <1>4 DEF a, b

LEMMA HeadsId ==
    ASSUME NEW S, NEW s \in Seq(S), s # <<>>
    PROVE  /\ Ids(s) = {Head(s).of} \union Ids(Tail(s))
           /\ Distinct(s) => Distinct(Tail(s)) /\ Head(s).of \notin Ids(Tail(s))
<1> DEFINE t == Tail(s)
<1>1. /\ Head(s) = s[1] /\ 1 \in DOMAIN s
      /\ \A i \in DOMAIN t : t[i] = s[i + 1] /\ i + 1 \in DOMAIN s /\ i + 1 # 1 /\ i \in Int
      /\ \A i \in DOMAIN s : i = 1 \/ (i - 1 \in DOMAIN t /\ t[i - 1] = s[i])
    <2>1. Len(s) \in Nat /\ DOMAIN t = 1 .. (Len(s) - 1)
        BY SequenceEnds
    <2>. QED BY <2>1, SequenceEnds
<1> HIDE DEF t
<1>2. Ids(s) = {Head(s).of} \union Ids(t)
    <2>1. Ids(t) \subseteq Ids(s) /\ Head(s).of \in Ids(s)
        BY <1>1 DEF Ids
    <2>2. ASSUME NEW i \in DOMAIN s  PROVE s[i].of = Head(s).of \/ s[i].of \in Ids(t)
        <3>1. CASE i = 1
            BY <1>1, <3>1
        <3>2. CASE i # 1
            <4>1. i - 1 \in DOMAIN t /\ t[i - 1].of = s[i].of
                BY <1>1, <3>2
            <4>. QED BY <4>1 DEF Ids
        <3>. QED BY <3>1, <3>2
    <2>3. Ids(s) \subseteq {Head(s).of} \union Ids(t)
        BY <2>2 DEF Ids
    <2>. QED BY <2>1, <2>3
<1>3. ASSUME Distinct(s)  PROVE Distinct(t) /\ Head(s).of \notin Ids(t)
    <2>1. ASSUME NEW i \in DOMAIN t, NEW j \in DOMAIN t, t[i].of = t[j].of  PROVE i = j
        <3>1. /\ i + 1 \in DOMAIN s /\ j + 1 \in DOMAIN s /\ i \in Int /\ j \in Int
              /\ t[i] = s[i + 1] /\ t[j] = s[j + 1]
            BY <1>1
        <3>2. s[i + 1].of = s[j + 1].of
            BY <2>1, <3>1
        <3>3. i + 1 = j + 1
            BY <1>3, <3>1, <3>2 DEF Distinct
        <3>. QED BY <3>1, <3>3
    <2>2. ASSUME NEW i \in DOMAIN t  PROVE t[i].of # Head(s).of
        <3>1. i + 1 \in DOMAIN s /\ i + 1 # 1 /\ t[i] = s[i + 1] /\ Head(s) = s[1] /\ 1 \in DOMAIN s
            BY <1>1
        <3>. QED BY <1>3, <3>1 DEF Distinct
    <2>. QED BY <2>1, <2>2 DEF Distinct, Ids
<1>. QED BY <1>2, <1>3 DEF t

\* Where a message can be, and the messages that are there.
Homes == Queues \union {"todo", "session", "returned", "lost", "caller"}
Dropped == {l[2] : l \in lost}
CallersId == caller.seen[Len(caller.seen)].of
Called == IF caller = NoCaller THEN {} ELSE {CallersId}
Home(c) == CASE c \in Queues -> Ids(queue[c])
             [] c = "todo" -> Ids(todo)
             [] c = "session" -> UserIds(session)
             [] c = "returned" -> returned
             [] c = "lost" -> Dropped
             [] c = "caller" -> Called

\* Each message that was handed in has one home ...
HomeInv ==
    /\ \A c \in Homes : Home(c) \subseteq 1 .. sent
    /\ \A m \in 1 .. sent : \E c \in Homes : m \in Home(c)
    /\ \A c, d \in Homes : c # d => Home(c) \intersect Home(d) = {}

\* ... and is there once.
DistinctInv ==
    /\ \A q \in Queues : Distinct(queue[q])
    /\ Distinct(todo) /\ DistinctUsers(session)
    /\ \A l, k \in lost : l[2] = k[2] => l = k

\* The update of a queue that is under way, if any, knows what the queue holds.
UpdateInv ==
    /\ caller # NoCaller =>
         /\ pc # "drainStore" /\ abort.at # "clear" /\ caller.q \in Queues
         /\ caller.seen = Append(queue[caller.q], user(CallersId, caller.q))
    /\ pc = "drainStore" => abort.at # "clear" /\ snapshot = queue[draining]
    /\ abort.at = "clear" =>
         abort.cleared = [steer |-> queue["steer"], followUp |-> queue["followUp"]]

\* The loop has messages in hand only on the way from a prompt or a queue to the session.
TakenInv ==
    /\ todo # <<>> => pc \in {"begin", "context", "nextTurn", "prompts", "drained", "pending"}
    /\ todo # <<>> /\ pc \in {"begin", "context"} => op = "prompt"

\* What was dropped was dropped by a run that failed or is about to.
LossInv ==
    /\ IF pc \in {"idle", "begin", "finish", "close"} THEN Len(results) = nextRunID
       ELSE Len(results) + 1 = nextRunID
    /\ \A l \in lost : /\ l[1] \in 1 .. nextRunID
                       /\ l[1] <= Len(results) => results[l[1]] = "error"
                       /\ l[1] > Len(results) => pc = "unwind"

MessageInv == HomeInv /\ DistinctInv /\ UpdateInv /\ TakenInv /\ LossInv

LEMMA HomesAre ==
    /\ \A q \in Queues : q \notin {"todo", "session", "returned", "lost", "caller"}
    /\ \A q \in Queues : Home(q) = Ids(queue[q])
    /\ Home("todo") = Ids(todo) /\ Home("session") = UserIds(session)
    /\ Home("returned") = returned /\ Home("lost") = Dropped /\ Home("caller") = Called
BY DEF Home, Queues

LEMMA HomesAreNext ==
    /\ \A q \in Queues : Home(q)' = Ids(queue'[q])
    /\ Home("todo")' = Ids(todo') /\ Home("session")' = UserIds(session')
    /\ Home("returned")' = returned' /\ Home("lost")' = Dropped' /\ Home("caller")' = Called'
BY DEF Home, Queues

\* Messages that leave their homes together have one home again.
LEMMA MessagesMove ==
    ASSUME HomeInv, NEW M, NEW a \in Homes, NEW d \in Homes, NEW b \in Homes, a # b, d # b,
           sent' = sent, M \subseteq Home(a) \union Home(d),
           Home(a)' = Home(a) \ M, Home(d)' = Home(d) \ M,
           Home(b)' = Home(b) \union M,
           \A c \in Homes : c # a /\ c # d /\ c # b => Home(c)' = Home(c)
    PROVE  HomeInv'
<1>1. \A c \in Homes : c # b => Home(c)' \subseteq Home(c) /\ Home(c)' \intersect M = {}
    BY DEF HomeInv
<1>2. M \subseteq 1 .. sent
    BY DEF HomeInv
<1>3. \A c \in Homes : Home(c)' \subseteq 1 .. sent
    BY <1>1, <1>2 DEF HomeInv
<1>4. ASSUME NEW m \in 1 .. sent  PROVE \E c \in Homes : m \in Home(c)'
    <2>1. PICK c \in Homes : m \in Home(c)
        BY DEF HomeInv
    <2>2. CASE m \in M
        BY <2>2
    <2>3. CASE m \notin M
        BY <2>1, <2>3
    <2>. QED BY <2>2, <2>3
<1>5. ASSUME NEW c \in Homes, NEW e \in Homes, c # e  PROVE Home(c)' \intersect Home(e)' = {}
    <2>1. Home(c) \intersect Home(e) = {}
        BY <1>5 DEF HomeInv
    <2>. QED BY <1>1, <1>5, <2>1
<1>. QED BY <1>3, <1>4, <1>5 DEF HomeInv

\* A message that is handed in gets one home.
LEMMA MessageEnters ==
    ASSUME HomeInv, sent \in Nat, NEW b \in Homes, sent' = sent + 1,
           Home(b)' = Home(b) \union {sent + 1},
           \A c \in Homes : c # b => Home(c)' = Home(c)
    PROVE  HomeInv'
<1>1. /\ sent + 1 \notin 1 .. sent /\ 1 .. sent' = (1 .. sent) \union {sent + 1}
    OBVIOUS
<1>2. \A c \in Homes : Home(c)' \subseteq 1 .. sent'
    BY <1>1 DEF HomeInv
<1>3. \A m \in 1 .. sent' : \E c \in Homes : m \in Home(c)'
    BY <1>1 DEF HomeInv
<1>4. ASSUME NEW c \in Homes, NEW d \in Homes, c # d  PROVE Home(c)' \intersect Home(d)' = {}
    <2>1. Home(c) \intersect Home(d) = {} /\ sent + 1 \notin Home(c) /\ sent + 1 \notin Home(d)
        BY <1>1, <1>4 DEF HomeInv
    <2>. QED BY <1>4, <2>1
<1>. QED BY <1>2, <1>3, <1>4 DEF HomeInv

\* The steps that move no message.
Quiet == /\ UNCHANGED <<queue, todo, returned, lost, caller, sent>>
         /\ UserIds(session') = UserIds(session)
         /\ DistinctUsers(session) => DistinctUsers(session')

LEMMA QuietKeeps ==
    ASSUME HomeInv, DistinctInv, Quiet
    PROVE  HomeInv' /\ DistinctInv'
<1>1. \A c \in Homes : Home(c)' = Home(c)
    <2>1. Dropped' = Dropped /\ Called' = Called
        BY DEF Quiet, Dropped, Called, CallersId
    <2>. QED BY <2>1, HomesAre, HomesAreNext DEF Quiet, Homes
<1>2. HomeInv'
    BY <1>1 DEF HomeInv, Quiet
<1>. QED BY <1>2 DEF DistinctInv, Quiet

LEMMA Movers ==
    ASSUME TypeOK, Next
    PROVE  \/ Quiet
           \/ Prompt \/ BeginFails \/ TakeNextTurn \/ AppendTodo \/ DrainStore \/ DrainFails
           \/ WriteFails \/ EnqueueStore \/ AbortClear
           \/ \E q \in Queues : EnqueueLoad(q)
<1>1. \/ UNCHANGED <<session, queue, todo, returned, lost, caller, sent>>
      \/ (CompactSucceeds \/ Respond \/ ToolResult \/ FlushOne
            \/ \E kind \in {"note", "model"} : AppendWrite(kind))
          /\ UNCHANGED <<queue, todo, returned, lost, caller, sent>>
      \/ Prompt \/ BeginFails \/ TakeNextTurn \/ AppendTodo \/ DrainStore \/ DrainFails
      \/ WriteFails \/ EnqueueStore \/ AbortClear
      \/ \E q \in Queues : EnqueueLoad(q)
    BY DEF Next, Runner, AbortStep, StartRun, CreateContext, SetIdle, Finish,
           CloseRun, CompactSucceeds, CompactFails, DrainLoad, DrainDone,
           Respond, RespondAborted, ToolResult, FlushOne, AppendWrite,
           ToolBatchCut, PrepareNextTurn, FlushDone, FlushFails, Continue,
           Compact, AbortCopy, AbortCancel, AbortLook,
           AbortReturn, AbortVars, Enter, loopVars, otherVars
<1>2. CASE UNCHANGED <<session, queue, todo, returned, lost, caller, sent>>
    BY <1>2 DEF Quiet
<1>3. ASSUME NEW e, session' = Append(session, e), e.role # "user",
             UNCHANGED <<queue, todo, returned, lost, caller, sent>>
      PROVE  Quiet
    <2>1. session \in Seq(Entry)
        BY DEF TypeOK, SessionTypeOK
    <2>. QED BY <1>3, <2>1, AppendedIds DEF Quiet
<1>4. CASE (CompactSucceeds \/ Respond \/ ToolResult \/ FlushOne
              \/ \E kind \in {"note", "model"} : AppendWrite(kind))
            /\ UNCHANGED <<queue, todo, returned, lost, caller, sent>>
    <2>1. CASE CompactSucceeds \/ Respond \/ ToolResult
        <3>1. PICK e : session' = Append(session, e) /\ e.role \in {"compaction", "assistant", "toolResult"}
            <4>1. CASE CompactSucceeds
                BY <4>1 DEF CompactSucceeds, compaction
            <4>2. CASE Respond
                BY <4>2 DEF Respond, response
            <4>3. CASE ToolResult
                BY <4>3 DEF ToolResult, toolResult
            <4>. QED BY <2>1, <4>1, <4>2, <4>3
        <3>. QED BY <1>3, <1>4, <3>1
    <2>2. CASE FlushOne
        <3>1. pendingSessionWrites # <<>> /\ session' = Append(session, Head(pendingSessionWrites))
            BY <2>2 DEF FlushOne
        <3>2. Head(pendingSessionWrites) \in Write
            BY <3>1 DEF TypeOK, SessionTypeOK
        <3>3. Head(pendingSessionWrites).role # "user"
            BY <3>2 DEF Write
        <3>. QED BY <1>3, <1>4, <3>1, <3>3
    <2>3. CASE \E kind \in {"note", "model"} : AppendWrite(kind)
        <3>1. PICK kind \in {"note", "model"} : AppendWrite(kind)
            BY <2>3
        <3>2. session' = session \/ session' = Append(session, write(kind, notes + 1))
            BY <3>1 DEF AppendWrite
        <3>3. write(kind, notes + 1).role # "user"
            BY DEF write
        <3>. QED BY <1>2, <1>3, <1>4, <3>2, <3>3
    <2>. QED BY <1>4, <2>1, <2>2, <2>3
<1>. QED BY <1>1, <1>2, <1>4

\* Each step that moves messages leaves them with one home, and there once.
LEMMA PromptMoves ==
    ASSUME TypeOK, MessageInv, Prompt
    PROVE  HomeInv' /\ DistinctInv'
<1>0. HomeInv /\ DistinctInv /\ TakenInv /\ sent \in Nat
    BY DEF MessageInv, TypeOK, CountTypeOK
<1>1. /\ sent' = sent + 1 /\ todo' = <<user(sent + 1, "prompt")>> /\ pc = "idle"
      /\ UNCHANGED <<queue, session, returned, lost, caller>>
    BY DEF Prompt, Enter
<1>2. todo = <<>> /\ Ids(todo') = {sent + 1} /\ Distinct(todo')
    <2>1. todo = <<>>
        BY <1>0, <1>1 DEF TakenInv
    <2>2. Ids(<<user(sent + 1, "prompt")>>) = {sent + 1} /\ Distinct(<<user(sent + 1, "prompt")>>)
        BY DEF Ids, Distinct, user
    <2>. QED BY <1>1, <2>1, <2>2
<1>3. Home("todo")' = Home("todo") \union {sent + 1}
    BY <1>2, HomesAre, HomesAreNext, NoIds
<1>4. \A c \in Homes : c # "todo" => Home(c)' = Home(c)
    <2>1. Dropped' = Dropped /\ Called' = Called
        BY <1>1 DEF Dropped, Called, CallersId
    <2>. QED BY <1>1, <2>1, HomesAre, HomesAreNext DEF Homes
<1>5. HomeInv'
    BY <1>0, <1>1, <1>3, <1>4, MessageEnters DEF Homes
<1>. QED BY <1>0, <1>1, <1>2, <1>5 DEF DistinctInv

LEMMA EnqueueLoadMoves ==
    ASSUME TypeOK, MessageInv, NEW q \in Queues, EnqueueLoad(q)
    PROVE  HomeInv' /\ DistinctInv'
<1>0. HomeInv /\ DistinctInv /\ sent \in Nat /\ queue[q] \in Seq(UserMessage)
    BY DEF MessageInv, TypeOK, CountTypeOK, QueueTypeOK
<1>1. /\ sent' = sent + 1 /\ caller = NoCaller
      /\ caller' = [q |-> q, seen |-> Append(queue[q], user(sent + 1, q))]
      /\ UNCHANGED <<queue, todo, session, returned, lost>>
    BY DEF EnqueueLoad, loopVars
<1>2. Called = {} /\ Called' = {sent + 1}
    <2>1. caller' # NoCaller
        BY <1>1, HomesAre DEF NoCaller, Queues
    <2>2. caller'.seen = Append(queue[q], user(sent + 1, q))
        BY <1>1
    <2>3. CallersId' = user(sent + 1, q).of
        BY <1>0, <2>2 DEF CallersId
    <2>. QED BY <1>1, <2>1, <2>3 DEF Called, user
<1>3. Home("caller")' = Home("caller") \union {sent + 1}
    BY <1>2, HomesAre, HomesAreNext
<1>4. \A c \in Homes : c # "caller" => Home(c)' = Home(c)
    BY <1>1, HomesAre, HomesAreNext DEF Homes, Dropped
<1>5. HomeInv'
    BY <1>0, <1>1, <1>3, <1>4, MessageEnters DEF Homes
<1>. QED BY <1>0, <1>1, <1>5 DEF DistinctInv

LEMMA EnqueueStoreMoves ==
    ASSUME TypeOK, MessageInv, EnqueueStore
    PROVE  HomeInv' /\ DistinctInv'
<1>0. HomeInv /\ DistinctInv /\ UpdateInv /\ queue \in [Queues -> Seq(UserMessage)]
    BY DEF MessageInv, TypeOK, QueueTypeOK
<1>a. PICK q \in Queues : q = caller.q
    BY <1>0 DEF EnqueueStore, UpdateInv
<1>b. PICK m : m = CallersId
    OBVIOUS
<1>1. /\ caller # NoCaller /\ queue' = [queue EXCEPT ![q] = caller.seen] /\ caller' = NoCaller
      /\ UNCHANGED <<todo, session, returned, lost, sent>>
    BY <1>a DEF EnqueueStore, loopVars
<1>2. q \in Queues /\ caller.seen = Append(queue[q], user(m, q))
    BY <1>0, <1>1, <1>a, <1>b DEF UpdateInv
<1>3. Called = {m} /\ Called' = {}
    BY <1>1, <1>b DEF Called
<1>4. queue'[q] = Append(queue[q], user(m, q)) /\ \A p \in Queues : p # q => queue'[p] = queue[p]
    BY <1>0, <1>1, <1>2
<1>5. user(m, q).of = m
    BY DEF user
<1>6. Ids(queue'[q]) = Ids(queue[q]) \union {m}
    BY <1>0, <1>2, <1>4, <1>5, AppendedIds
<1> DEFINE M == {m}
<1>7. /\ Home(q)' = Home(q) \union M
      /\ Home("caller")' = Home("caller") \ M /\ M \subseteq Home("caller")
      /\ \A c \in Homes : c # q /\ c # "caller" => Home(c)' = Home(c)
    <2>1. Dropped' = Dropped
        BY <1>1 DEF Dropped
    <2>2. \A c \in Homes : c # q /\ c # "caller" => Home(c)' = Home(c)
        BY <1>1, <1>4, <2>1, HomesAre, HomesAreNext DEF Homes
    <2>3. Home(q)' = Home(q) \union M
        BY <1>2, <1>6, HomesAre, HomesAreNext
    <2>4. Home("caller") = M /\ Home("caller")' = {}
        BY <1>3, HomesAre, HomesAreNext
    <2>. QED BY <2>2, <2>3, <2>4
<1>8. q \in Homes /\ "caller" \in Homes /\ q # "caller"
    BY <1>2, HomesAre DEF Homes
<1>9. HomeInv'
    <2> HIDE DEF M
    <2>. QED BY <1>0, <1>1, <1>7, <1>8, MessagesMove
<1>10. Distinct(queue'[q])
    <2>1. m \notin Ids(queue[q])
        BY <1>0, <1>2, <1>7, <1>8, HomesAre DEF HomeInv
    <2>. QED BY <1>0, <1>2, <1>4, <1>5, <2>1, AppendedIds DEF DistinctInv
<1>. QED BY <1>0, <1>1, <1>4, <1>9, <1>10 DEF DistinctInv

LEMMA TakeNextTurnMoves ==
    ASSUME TypeOK, MessageInv, TakeNextTurn
    PROVE  HomeInv' /\ DistinctInv'
<1>0. /\ HomeInv /\ DistinctInv /\ queue \in [Queues -> Seq(UserMessage)]
      /\ todo \in Seq(UserMessage)
    BY DEF MessageInv, TypeOK, QueueTypeOK
<1>1. /\ todo' = queue["nextTurn"] \o todo /\ queue' = [queue EXCEPT !["nextTurn"] = <<>>]
      /\ UNCHANGED <<session, returned, lost, sent, caller>>
    BY DEF TakeNextTurn, otherVars
<1>2. "nextTurn" \in Queues /\ "nextTurn" \in Homes /\ "todo" \in Homes /\ "nextTurn" # "todo"
    BY DEF Queues, Homes
<1>3. /\ queue'["nextTurn"] = <<>> /\ \A p \in Queues : p # "nextTurn" => queue'[p] = queue[p]
      /\ queue["nextTurn"] \in Seq(UserMessage)
    BY <1>0, <1>1, <1>2
<1> DEFINE M == Ids(queue["nextTurn"])
<1>4. Ids(todo') = Ids(todo) \union M
    BY <1>0, <1>1, <1>3, ConcatenatedIds
<1>5. M \intersect Ids(todo) = {}
    BY <1>0, <1>2, HomesAre DEF HomeInv
<1>6. /\ Home("todo")' = Home("todo") \union M
      /\ Home("nextTurn")' = Home("nextTurn") \ M /\ Home("nextTurn") = M
      /\ \A c \in Homes : c # "todo" /\ c # "nextTurn" => Home(c)' = Home(c)
    <2>1. Dropped' = Dropped /\ Called' = Called
        BY <1>1 DEF Dropped, Called, CallersId
    <2>2. Home("nextTurn")' = {}
        BY <1>2, <1>3, HomesAreNext, NoIds
    <2>3. Home("nextTurn") = M
        BY <1>2, HomesAre
    <2>4. \A c \in Homes : c # "todo" /\ c # "nextTurn" => Home(c)' = Home(c)
        BY <1>1, <1>3, <2>1, HomesAre, HomesAreNext DEF Homes
    <2>. QED BY <1>4, <2>2, <2>3, <2>4, HomesAre, HomesAreNext
<1>7. HomeInv'
    <2> HIDE DEF M
    <2>. QED BY <1>0, <1>1, <1>2, <1>6, MessagesMove
<1>8. Distinct(todo')
    BY <1>0, <1>1, <1>2, <1>3, <1>5, ConcatenatedIds DEF DistinctInv
<1>. QED BY <1>0, <1>1, <1>3, <1>7, <1>8, NoIds DEF DistinctInv

LEMMA AppendTodoMoves ==
    ASSUME TypeOK, MessageInv, AppendTodo
    PROVE  HomeInv' /\ DistinctInv'
<1>0. HomeInv /\ DistinctInv /\ todo \in Seq(UserMessage) /\ session \in Seq(Entry)
    BY DEF MessageInv, TypeOK, QueueTypeOK, SessionTypeOK
<1> DEFINE e == Head(todo)
           M == {e.of}
<1>1. /\ todo # <<>> /\ session' = Append(session, e) /\ todo' = Tail(todo)
      /\ UNCHANGED <<queue, returned, lost, sent, caller>>
    BY DEF AppendTodo, otherVars
<1>2. e.role = "user"
    <2>1. e \in UserMessage
        BY <1>0, <1>1
    <2>. QED BY <2>1 DEF UserMessage
<1> HIDE DEF e
<1>3. /\ Ids(todo) = {e.of} \union Ids(todo') /\ Distinct(todo') /\ e.of \notin Ids(todo')
    BY <1>0, <1>1, HeadsId DEF DistinctInv, e
<1>4. "todo" \in Homes /\ "session" \in Homes /\ "todo" # "session"
    BY DEF Homes
<1>5. UserIds(session') = UserIds(session) \union M
    BY <1>0, <1>1, <1>2, AppendedIds
<1>6. /\ Home("session")' = Home("session") \union M
      /\ Home("todo")' = Home("todo") \ M /\ M \subseteq Home("todo")
      /\ \A c \in Homes : c # "todo" /\ c # "session" => Home(c)' = Home(c)
    <2>1. Dropped' = Dropped /\ Called' = Called
        BY <1>1 DEF Dropped, Called, CallersId
    <2>2. \A c \in Homes : c # "todo" /\ c # "session" => Home(c)' = Home(c)
        BY <1>1, <2>1, HomesAre, HomesAreNext DEF Homes
    <2>. QED BY <1>3, <1>5, <2>2, HomesAre, HomesAreNext
<1>7. HomeInv'
    <2> HIDE DEF M
    <2>. QED BY <1>0, <1>1, <1>4, <1>6, MessagesMove
<1>8. DistinctUsers(session')
    <2>1. e.of \notin UserIds(session)
        BY <1>0, <1>3, <1>4, HomesAre DEF HomeInv
    <2>. QED BY <1>0, <1>1, <2>1, AppendedIds DEF DistinctInv
<1>. QED BY <1>0, <1>1, <1>3, <1>7, <1>8 DEF DistinctInv

LEMMA DrainStoreMoves ==
    ASSUME IInv, MessageInv, DrainStore
    PROVE  HomeInv' /\ DistinctInv'
<1>0. /\ HomeInv /\ DistinctInv /\ UpdateInv /\ TakenInv /\ DrainInv
      /\ queue \in [Queues -> Seq(UserMessage)]
      /\ draining \in {"steer", "followUp"}
    BY DEF MessageInv, IInv, TypeOK, QueueTypeOK, LoopTypeOK
<1>1. PICK q \in Queues : q = draining
    BY <1>0 DEF Queues
<1>2. /\ pc = "drainStore" /\ UNCHANGED <<session, returned, lost, sent, caller>>
      /\ snapshot = queue[q] /\ snapshot # <<>> /\ todo = <<>> /\ queue[q] \in Seq(UserMessage)
    BY <1>0, <1>1 DEF DrainStore, otherVars, UpdateInv, TakenInv, DrainInv
<1>3. PICK n \in 0 .. Len(queue[q]) :
        /\ todo' = SubSeq(queue[q], 1, n)
        /\ queue' = [queue EXCEPT ![q] = SubSeq(queue[q], n + 1, Len(queue[q]))]
    <2>1. Len(queue[q]) \in 0 .. Len(queue[q]) /\ 1 \in 0 .. Len(queue[q])
        BY <1>2
    <2>. QED BY <1>1, <1>2, <2>1 DEF DrainStore
<1> DEFINE M == Ids(todo')
           rest == SubSeq(queue[q], n + 1, Len(queue[q]))
<1>4. queue'[q] = rest /\ \A p \in Queues : p # q => queue'[p] = queue[p]
    BY <1>0, <1>3
<1>5. /\ Ids(queue[q]) = M \union Ids(rest) /\ M \intersect Ids(rest) = {}
      /\ Distinct(todo') /\ Distinct(rest)
    BY <1>0, <1>2, <1>3, TakenIds DEF DistinctInv
<1> HIDE DEF rest
<1>6. q \in Homes /\ "todo" \in Homes /\ q # "todo"
    BY HomesAre DEF Homes
<1>7. /\ Home("todo")' = Home("todo") \union M
      /\ Home(q)' = Home(q) \ M /\ M \subseteq Home(q)
      /\ \A c \in Homes : c # q /\ c # "todo" => Home(c)' = Home(c)
    <2>1. Dropped' = Dropped /\ Called' = Called
        BY <1>2 DEF Dropped, Called, CallersId
    <2>2. \A c \in Homes : c # q /\ c # "todo" => Home(c)' = Home(c)
        BY <1>2, <1>4, <2>1, HomesAre, HomesAreNext DEF Homes
    <2>3. Home(q) = M \union Ids(rest) /\ Home(q)' = Ids(rest)
        BY <1>4, <1>5, HomesAre, HomesAreNext
    <2>4. Home("todo") = {} /\ Home("todo")' = M
        BY <1>2, HomesAre, HomesAreNext, NoIds
    <2>. QED BY <1>5, <2>2, <2>3, <2>4
<1>8. HomeInv'
    <2>1. PICK N : N = M
        OBVIOUS
    <2> HIDE DEF M
    <2>. QED BY <1>0, <1>2, <1>6, <1>7, <2>1, MessagesMove
<1>. QED BY <1>0, <1>2, <1>4, <1>5, <1>8 DEF DistinctInv

LEMMA DrainFailsMoves ==
    ASSUME TypeOK, MessageInv, DrainFails
    PROVE  HomeInv' /\ DistinctInv'
<1>0. /\ HomeInv /\ DistinctInv /\ queue \in [Queues -> Seq(UserMessage)]
      /\ todo \in Seq(UserMessage) /\ draining \in {"steer", "followUp"}
    BY DEF MessageInv, TypeOK, QueueTypeOK, LoopTypeOK
<1>1. PICK q \in Queues : q = draining
    BY <1>0 DEF Queues
<1>2. /\ queue' = [queue EXCEPT ![q] = todo \o queue[q]] /\ todo' = <<>>
      /\ UNCHANGED <<session, returned, lost, sent, caller>>
    BY <1>1 DEF DrainFails, otherVars
<1> DEFINE M == Ids(todo)
<1>3. /\ queue'[q] = todo \o queue[q] /\ \A p \in Queues : p # q => queue'[p] = queue[p]
      /\ queue[q] \in Seq(UserMessage)
    BY <1>0, <1>2
<1>4. Ids(queue'[q]) = Ids(queue[q]) \union M
    BY <1>0, <1>3, ConcatenatedIds
<1>5. q \in Homes /\ "todo" \in Homes /\ q # "todo"
    BY HomesAre DEF Homes
<1>6. M \intersect Ids(queue[q]) = {}
    BY <1>0, <1>5, HomesAre DEF HomeInv
<1>7. /\ Home(q)' = Home(q) \union M
      /\ Home("todo")' = Home("todo") \ M /\ M \subseteq Home("todo")
      /\ \A c \in Homes : c # q /\ c # "todo" => Home(c)' = Home(c)
    <2>1. Dropped' = Dropped /\ Called' = Called
        BY <1>2 DEF Dropped, Called, CallersId
    <2>2. \A c \in Homes : c # q /\ c # "todo" => Home(c)' = Home(c)
        BY <1>2, <1>3, <2>1, HomesAre, HomesAreNext DEF Homes
    <2>3. Home(q)' = Home(q) \union M
        BY <1>4, HomesAre, HomesAreNext
    <2>4. Home("todo") = M /\ Home("todo")' = {}
        BY <1>2, HomesAre, HomesAreNext, NoIds
    <2>. QED BY <2>2, <2>3, <2>4
<1>8. HomeInv'
    <2> HIDE DEF M
    <2>. QED BY <1>0, <1>2, <1>5, <1>7, MessagesMove
<1>9. Distinct(queue'[q])
    BY <1>0, <1>3, <1>6, ConcatenatedIds DEF DistinctInv
<1>. QED BY <1>0, <1>2, <1>3, <1>8, <1>9, NoIds DEF DistinctInv

\* What a failing run drops is added to what was dropped.
LEMMA DroppedMore ==
    ASSUME NEW S, NEW n, NEW adds, lost' = lost \union adds,
           \A l \in adds : l = <<n, l[2]>> /\ l[2] \in S, \A m \in S : <<n, m>> \in adds
    PROVE  /\ Dropped' = Dropped \union S
           /\ (\A l, k \in lost : l[2] = k[2] => l = k) /\ S \intersect Dropped = {}
                => \A l, k \in lost' : l[2] = k[2] => l = k
<1>1. \A l \in lost' : l \in lost \/ (l[2] \in S /\ l = <<n, l[2]>>)
    OBVIOUS
<1>2. \A m \in S : <<n, m>> \in lost' /\ <<n, m>>[2] = m
    OBVIOUS
<1>3. Dropped' = Dropped \union S
    <2>1. Dropped' \subseteq Dropped \union S
        BY <1>1 DEF Dropped
    <2>2. Dropped \subseteq Dropped'
        BY DEF Dropped
    <2>3. S \subseteq Dropped'
        BY <1>2 DEF Dropped
    <2>. QED BY <2>1, <2>2, <2>3
<1>4. ASSUME \A l, k \in lost : l[2] = k[2] => l = k, S \intersect Dropped = {}
      PROVE  \A l, k \in lost' : l[2] = k[2] => l = k
    <2>1. \A l \in lost : l[2] \notin S
        BY <1>4 DEF Dropped
    <2>. QED BY <1>1, <1>4, <2>1
<1>. QED BY <1>3, <1>4

\* A run that fails drops what it had taken, and a prompt what it had asked for.
LEMMA DroppedMoves ==
    ASSUME TypeOK, MessageInv, NEW d \in {"todo", "nextTurn"},
           lost' = lost \union {<<nextRunID, m>> : m \in Home("todo") \union Home(d)},
           todo' = <<>>, UNCHANGED <<session, returned, caller, sent>>,
           IF d = "todo" THEN UNCHANGED queue ELSE queue' = [queue EXCEPT ![d] = <<>>]
    PROVE  HomeInv' /\ DistinctInv'
<1>0. HomeInv /\ DistinctInv /\ queue \in [Queues -> Seq(UserMessage)]
    BY DEF MessageInv, TypeOK, QueueTypeOK
<1> DEFINE M == Home("todo") \union Home(d)
<1>1. d \in Homes /\ "todo" \in Homes /\ "lost" \in Homes /\ d # "lost" /\ "nextTurn" \in Queues
    BY DEF Homes, Queues
<1>2. M \intersect Home("lost") = {}
    BY <1>0, <1>1 DEF HomeInv
<1>a. PICK n, N, adds :
        /\ N = M /\ lost' = lost \union adds
        /\ \A l \in adds : l = <<n, l[2]>> /\ l[2] \in N
        /\ \A m \in N : <<n, m>> \in adds
    <2> DEFINE adds == {<<nextRunID, m>> : m \in M}
    <2>1. \A l \in adds : l = <<nextRunID, l[2]>> /\ l[2] \in M
        OBVIOUS
    <2>2. \A m \in M : <<nextRunID, m>> \in adds
        OBVIOUS
    <2>3. lost' = lost \union adds
        OBVIOUS
    <2> HIDE DEF adds, M
    <2>. QED BY <2>1, <2>2, <2>3
<1>b. /\ Dropped' = Dropped \union N
      /\ (\A l, k \in lost : l[2] = k[2] => l = k) /\ N \intersect Dropped = {}
            => \A l, k \in lost' : l[2] = k[2] => l = k
  <2> HIDE DEF M
  <2>. QED BY <1>a, DroppedMore
<1>3. Home("lost")' = Home("lost") \union M
    BY <1>a, <1>b, HomesAre, HomesAreNext
<1>4. \A q \in Queues : queue'[q] = queue[q] \/ (q = d /\ queue'[q] = <<>>)
    BY <1>0
<1>5. Home("todo")' = {} /\ Home(d)' = {}
    <2>1. Home("todo")' = {}
        BY HomesAreNext, NoIds
    <2>2. CASE d = "nextTurn"
        <3>1. queue'[d] = <<>>
            BY <1>0, <1>1, <2>2
        <3>. QED BY <1>1, <2>1, <2>2, <3>1, HomesAreNext, NoIds
    <2>. QED BY <2>1, <2>2
<1>6. \A c \in Homes : c # "todo" /\ c # d /\ c # "lost" => Home(c)' = Home(c)
    <2>1. Called' = Called
        BY DEF Called, CallersId
    <2>. QED BY <1>4, <2>1, HomesAre, HomesAreNext DEF Homes
<1>7. /\ M \subseteq Home("todo") \union Home(d)
      /\ Home("todo")' = Home("todo") \ M /\ Home(d)' = Home(d) \ M
    BY <1>5
<1>8. HomeInv'
    <2>1. PICK moved : moved = M
        OBVIOUS
    <2> HIDE DEF M
    <2>. QED BY <1>0, <1>1, <1>3, <1>6, <1>7, <2>1, MessagesMove
<1>9. \A l, k \in lost' : l[2] = k[2] => l = k
    <2>1. N \intersect Dropped = {}
        BY <1>2, <1>a, HomesAre
    <2>. QED BY <1>0, <1>b, <2>1 DEF DistinctInv
<1>10. \A q \in Queues : Distinct(queue'[q])
    BY <1>0, <1>4, NoIds DEF DistinctInv
<1>. QED BY <1>0, <1>8, <1>9, <1>10, NoIds DEF DistinctInv

LEMMA FailuresMove ==
    ASSUME TypeOK, MessageInv, BeginFails \/ WriteFails
    PROVE  HomeInv' /\ DistinctInv'
<1>1. Home("todo") = Ids(todo) /\ Home("nextTurn") = Ids(queue["nextTurn"])
    BY HomesAre DEF Queues
<1>2. todo' = <<>> /\ UNCHANGED <<session, returned, caller, sent>>
    BY DEF BeginFails, WriteFails, LoopError, otherVars
<1>3. CASE WriteFails
    <2>1. lost' = lost \union {<<nextRunID, m>> : m \in Ids(todo)} /\ UNCHANGED queue
        BY <1>3 DEF WriteFails, LoopError
    <2>2. Ids(todo) = Home("todo") \union Home("todo")
        BY <1>1
    <2>. QED BY <1>2, <2>1, <2>2, DroppedMoves
<1>4. CASE BeginFails /\ pc = "context"
    <2>1. lost' = lost \union {<<nextRunID, m>> : m \in Ids(todo)} /\ UNCHANGED queue
        BY <1>4 DEF BeginFails
    <2>2. Ids(todo) = Home("todo") \union Home("todo")
        BY <1>1
    <2>. QED BY <1>2, <2>1, <2>2, DroppedMoves
<1>5. CASE BeginFails /\ pc = "nextTurn"
    <2>1. /\ lost' = lost \union {<<nextRunID, m>> : m \in Ids(todo) \union Ids(queue["nextTurn"])}
          /\ queue' = [queue EXCEPT !["nextTurn"] = <<>>]
        BY <1>5 DEF BeginFails
    <2>. QED BY <1>1, <1>2, <2>1, DroppedMoves
<1>. QED BY <1>3, <1>4, <1>5 DEF BeginFails

LEMMA AbortClearMoves ==
    ASSUME TypeOK, MessageInv, AbortClear
    PROVE  HomeInv' /\ DistinctInv'
<1>0. HomeInv /\ DistinctInv /\ UpdateInv /\ queue \in [Queues -> Seq(UserMessage)]
    BY DEF MessageInv, TypeOK, QueueTypeOK
<1> DEFINE M == Ids(queue["steer"]) \union Ids(queue["followUp"])
<1>1. /\ queue' = [queue EXCEPT !["steer"] = <<>>, !["followUp"] = <<>>]
      /\ returned' = returned \union M
      /\ UNCHANGED <<todo, session, lost, sent, caller>>
    BY <1>0 DEF AbortClear, AbortVars, loopVars, UpdateInv
<1>2. /\ "steer" \in Queues /\ "followUp" \in Queues /\ "steer" \in Homes /\ "followUp" \in Homes
      /\ "returned" \in Homes
    BY DEF Queues, Homes
<1>3. /\ queue'["steer"] = <<>> /\ queue'["followUp"] = <<>>
      /\ \A q \in Queues : q # "steer" /\ q # "followUp" => queue'[q] = queue[q]
    BY <1>0, <1>1, <1>2
<1>4. /\ Home("returned")' = Home("returned") \union M
      /\ Home("steer")' = Home("steer") \ M /\ Home("followUp")' = Home("followUp") \ M
      /\ M \subseteq Home("steer") \union Home("followUp")
      /\ \A c \in Homes : c # "steer" /\ c # "followUp" /\ c # "returned" => Home(c)' = Home(c)
    <2>1. Dropped' = Dropped /\ Called' = Called
        BY <1>1 DEF Dropped, Called, CallersId
    <2>2. \A c \in Homes : c # "steer" /\ c # "followUp" /\ c # "returned" => Home(c)' = Home(c)
        BY <1>1, <1>3, <2>1, HomesAre, HomesAreNext DEF Homes
    <2>3. Home("steer")' = {} /\ Home("followUp")' = {}
        BY <1>2, <1>3, HomesAreNext, NoIds
    <2>4. Home("steer") = Ids(queue["steer"]) /\ Home("followUp") = Ids(queue["followUp"])
        BY <1>2, HomesAre
    <2>5. Home("returned")' = Home("returned") \union M
        BY <1>1, HomesAre, HomesAreNext
    <2>. QED BY <2>2, <2>3, <2>4, <2>5
<1>5. HomeInv'
    <2>1. PICK N : N = M
        OBVIOUS
    <2>2. /\ Home("returned")' = Home("returned") \union N
          /\ Home("steer")' = Home("steer") \ N /\ Home("followUp")' = Home("followUp") \ N
          /\ N \subseteq Home("steer") \union Home("followUp")
        BY <1>4, <2>1
    <2>3. HomeInv /\ sent' = sent
        BY <1>0, <1>1
    <2> HIDE DEF M
    <2>. QED BY <1>2, <1>4, <2>2, <2>3, MessagesMove
<1>. QED BY <1>0, <1>1, <1>3, <1>5, NoIds DEF DistinctInv

\* Nobody touches the queue that is being updated.
LEMMA StepUpdateInv ==
    ASSUME ~Racy, TypeOK, MessageInv, Next
    PROVE  UpdateInv'
<1>0. UpdateInv /\ queue \in [Queues -> Seq(UserMessage)]
    BY DEF MessageInv, TypeOK, QueueTypeOK
<1>1. CASE UNCHANGED <<queue, caller, abort>> /\ pc # "drainStore" /\ pc' # "drainStore"
    BY <1>0, <1>1 DEF UpdateInv, CallersId
<1>2. CASE UNCHANGED <<queue, caller, abort, pc, draining, snapshot>>
    BY <1>0, <1>2 DEF UpdateInv, CallersId
<1>3. CASE \E q \in Queues : EnqueueLoad(q)
    <2>1. PICK q \in Queues : EnqueueLoad(q)
        BY <1>3
    <2>2. /\ pc # "drainStore" /\ abort.at # "clear"
          /\ caller' = [q |-> q, seen |-> Append(queue[q], user(sent + 1, q))]
          /\ UNCHANGED <<queue, pc, abort>>
        BY <2>1 DEF EnqueueLoad, QueueFree
    <2>3. queue[q] \in Seq(UserMessage)
        BY <1>0
    <2>4. CallersId' = sent + 1
        <3>1. caller'.seen = Append(queue[q], user(sent + 1, q))
            BY <2>2
        <3>. QED BY <2>3, <3>1 DEF CallersId, user
    <2>. QED BY <2>2, <2>4 DEF UpdateInv
<1>4. CASE EnqueueStore
    <2>1. /\ caller # NoCaller /\ caller' = NoCaller /\ UNCHANGED <<pc, abort>>
        BY <1>4 DEF EnqueueStore
    <2>. QED BY <1>0, <2>1 DEF UpdateInv
<1>5. CASE caller = NoCaller /\ caller' = NoCaller /\ abort.at # "clear" /\ abort' = abort
           /\ pc' # "drainStore"
    BY <1>5 DEF UpdateInv
<1>6. CASE DrainLoad
    <2>1. /\ caller = NoCaller /\ caller' = NoCaller /\ abort.at # "clear" /\ abort' = abort
          /\ UNCHANGED queue
          /\ pc' = "drainStore" => snapshot' = queue[draining] /\ draining' = draining
        BY <1>6 DEF DrainLoad, QueueFree, otherVars
    <2>. QED BY <2>1 DEF UpdateInv
<1>7. CASE AbortCopy
    <2>1. /\ caller = NoCaller /\ caller' = NoCaller /\ pc # "drainStore" /\ pc' = pc
          /\ queue' = queue
          /\ abort' = [abort EXCEPT !.at = "clear", !.count = abort.count + 1,
                         !.cleared = [steer |-> queue["steer"], followUp |-> queue["followUp"]]]
        BY <1>7 DEF AbortCopy, QueueFree, AbortVars
    <2>2. abort \in AbortRecord
        BY DEF TypeOK, QueueTypeOK
    <2>3. abort'.cleared = [steer |-> queue["steer"], followUp |-> queue["followUp"]]
        BY <2>1, <2>2 DEF AbortRecord
    <2>. QED BY <2>1, <2>3 DEF UpdateInv
<1>8. CASE AbortClear
    <2>1. /\ abort.at = "clear" /\ abort' = [abort EXCEPT !.at = "cancel", !.cleared = NoneCleared]
          /\ UNCHANGED <<caller, pc>>
        BY <1>8 DEF AbortClear, AbortVars
    <2>2. abort \in AbortRecord
        BY DEF TypeOK, QueueTypeOK
    <2>3. abort'.at = "cancel"
        BY <2>1, <2>2 DEF AbortRecord
    <2>. QED BY <1>0, <2>1, <2>3 DEF UpdateInv
<1>9. CASE AbortCancel \/ AbortLook \/ AbortReturn
    <2>1. /\ abort.at # "clear" /\ UNCHANGED <<queue, caller, pc, draining, snapshot>>
          /\ \/ abort' = [abort EXCEPT !.at = "look"]
             \/ abort' = [abort EXCEPT !.at = "wait", !.waitFor = activeRunID]
             \/ abort' = [abort EXCEPT !.at = "idle", !.waitFor = 0]
        BY <1>9 DEF AbortCancel, AbortLook, AbortReturn, AbortVars, loopVars
    <2>2. abort \in AbortRecord
        BY DEF TypeOK, QueueTypeOK
    <2>3. abort'.at # "clear"
        BY <2>1, <2>2 DEF AbortRecord
    <2>. QED BY <1>0, <2>1, <2>3 DEF UpdateInv, CallersId
<1>10. \/ UNCHANGED <<queue, caller, abort>> /\ pc # "drainStore" /\ pc' # "drainStore"
       \/ UNCHANGED <<queue, caller, abort, pc, draining, snapshot>>
       \/ \E q \in Queues : EnqueueLoad(q)
       \/ EnqueueStore \/ DrainLoad \/ AbortCopy \/ AbortClear
       \/ AbortCancel \/ AbortLook \/ AbortReturn
       \/ BeginFails \/ TakeNextTurn \/ DrainStore \/ DrainFails
    BY DEF Next, Runner, AbortStep, StartRun, CreateContext, SetIdle, Finish,
           CloseRun, CompactSucceeds, CompactFails, AppendTodo, DrainDone,
           Respond, RespondAborted, ToolResult, FlushOne, AppendWrite, WriteFails, LoopError,
           ToolBatchCut, PrepareNextTurn, FlushDone, FlushFails, Prompt, Continue,
           Compact, Enter, loopVars, otherVars, FlushPoints
<1>11. CASE BeginFails \/ TakeNextTurn \/ DrainStore \/ DrainFails
    <2>1. pc' # "drainStore" /\ UNCHANGED <<caller, abort>>
        BY <1>11 DEF BeginFails, TakeNextTurn, DrainStore, DrainFails, Finish, otherVars
    <2>2. CASE UNCHANGED queue /\ pc # "drainStore"
        BY <1>1, <2>1, <2>2
    <2>3. CASE caller = NoCaller /\ abort.at # "clear"
        BY <1>5, <2>1, <2>3
    <2>4. CASE DrainStore
        BY <1>0, <2>3, <2>4 DEF DrainStore, UpdateInv
    <2>. QED BY <1>11, <2>2, <2>3, <2>4 DEF BeginFails, TakeNextTurn, DrainFails, QueueFree
<1>. QED BY <1>1, <1>2, <1>3, <1>4, <1>6, <1>7, <1>8, <1>9, <1>10, <1>11

\* The loop has written what it took before it goes on.
LEMMA StepTakenInv ==
    ASSUME TypeOK, MessageInv, Next
    PROVE  TakenInv'
<1>0. TakenInv /\ todo \in Seq(UserMessage)
    BY DEF MessageInv, TypeOK, QueueTypeOK
<1>1. CASE AppendTodo
    <2>1. /\ pc \in {"prompts", "pending"} /\ todo' = Tail(todo) /\ todo # <<>>
          /\ Len(todo) > 1 => pc' = pc
        BY <1>1 DEF AppendTodo
    <2>2. ~(Len(todo) > 1) => todo' = <<>>
        BY <1>0, <2>1
    <2>. QED BY <2>1, <2>2 DEF TakenInv
<1>2. CASE ~AppendTodo
    BY <1>0, <1>2 DEF TakenInv, Next, Runner, AbortStep, StartRun, CreateContext, BeginFails,
       TakeNextTurn, SetIdle, CloseRun, CompactSucceeds, CompactFails, DrainLoad, DrainStore,
       DrainDone, DrainFails, Respond, RespondAborted, ToolResult, FlushOne, AppendWrite, Enter,
       LoopError, Finish, ToolBatchCut, WriteFails, PrepareNextTurn, FlushDone, FlushFails, Prompt,
       Continue, Compact, EnqueueLoad, EnqueueStore, AbortCopy, AbortClear, AbortCancel, AbortLook,
       AbortReturn, AbortVars, loopVars, FlushPoints
<1>. QED BY <1>1, <1>2

\* A run that dropped messages ends with an error.
LEMMA StepLossInv ==
    ASSUME TypeOK, MessageInv, Next
    PROVE  LossInv'
<1>0. /\ LossInv /\ results \in Seq(Outcomes) /\ nextRunID \in Nat /\ Len(results) \in Nat
      /\ \A l \in lost : l[1] \in Nat
    <2>1. lost \in SUBSET (Nat \X Nat)
        BY DEF TypeOK, CountTypeOK
    <2>. QED BY <2>1 DEF MessageInv, TypeOK, SessionTypeOK, RunTypeOK
<1> DEFINE Out == {"idle", "begin", "finish", "close"}
<1>1. CASE UNCHANGED <<lost, results, nextRunID>> /\ (pc \in Out <=> pc' \in Out)
           /\ (pc = "unwind" => pc' = "unwind")
    BY <1>0, <1>1 DEF LossInv
<1>2. CASE StartRun
    <2>1. pc = "begin" /\ pc' \notin Out /\ nextRunID' = nextRunID + 1 /\ UNCHANGED <<lost, results>>
        BY <1>2 DEF StartRun
    <2>. QED BY <1>0, <2>1 DEF LossInv
<1>3. ASSUME pc \notin Out, pc' = "finish", nextRunID' = nextRunID, NEW outcome,
             results' = Append(results, outcome),
             \A l \in lost' : l \in lost \/ (l[1] = nextRunID /\ outcome = "error"),
             pc = "unwind" => outcome = "error"
      PROVE  LossInv'
    <2>1. /\ Len(results') = Len(results) + 1 /\ results'[Len(results) + 1] = outcome
          /\ \A i \in 1 .. Len(results) : results'[i] = results[i]
        BY <1>0, <1>3
    <2>2. Len(results) + 1 = nextRunID
        BY <1>0, <1>3 DEF LossInv
    <2>3. ASSUME NEW l \in lost'  PROVE l[1] \in 1 .. nextRunID /\ results'[l[1]] = "error"
        <3>1. CASE l[1] = nextRunID /\ outcome = "error"
            BY <1>0, <2>1, <2>2, <3>1
        <3>2. CASE l \in lost
            <4>1. CASE l[1] <= Len(results)
                <5>1. l[1] \in 1 .. Len(results) /\ results[l[1]] = "error"
                    BY <1>0, <3>2, <4>1 DEF LossInv
                <5>. QED BY <1>0, <2>1, <2>2, <5>1
            <4>2. CASE l[1] > Len(results)
                <5>1. outcome = "error" /\ l[1] = nextRunID
                    BY <1>0, <1>3, <2>2, <3>2, <4>2 DEF LossInv
                <5>. QED BY <1>0, <2>1, <2>2, <5>1
            <4>. QED BY <1>0, <3>2, <4>1, <4>2
        <3>. QED BY <1>3, <2>3, <3>1, <3>2
    <2>. QED BY <1>0, <1>3, <2>1, <2>2, <2>3 DEF LossInv
<1>4. CASE BeginFails
    <2>1. /\ pc \in {"context", "nextTurn"} /\ pc' = "finish" /\ nextRunID' = nextRunID
          /\ results' = Append(results, "error")
        BY <1>4 DEF BeginFails, Finish
    <2>2. \A l \in lost' : l \in lost \/ l[1] = nextRunID
        BY <1>4 DEF BeginFails
    <2>. QED BY <1>3, <2>1, <2>2
<1>5. CASE CompactSucceeds \/ CompactFails
    <2>1. /\ pc = "summary" /\ pc' = "finish" /\ nextRunID' = nextRunID /\ lost' = lost
          /\ \E outcome : results' = Append(results, outcome)
        BY <1>5 DEF CompactSucceeds, CompactFails, Finish
    <2>. QED BY <1>3, <2>1
<1>6. CASE FlushDone \/ FlushFails
    <2>1. /\ nextRunID' = nextRunID /\ lost' = lost
          /\ \/ /\ pc \notin Out /\ pc' \notin Out /\ results' = results /\ pc # "unwind"
             \/ /\ pc \in {"settle", "unwind"} /\ pc' = "finish"
                /\ \E outcome : results' = Append(results, outcome)
                               /\ (pc = "unwind" => outcome = "error")
        BY <1>6 DEF FlushDone, FlushFails, Finish
    <2>. QED BY <1>1, <1>3, <2>1
<1>7. CASE WriteFails
    <2>1. /\ pc \notin Out /\ pc' = "unwind" /\ UNCHANGED <<nextRunID, results>>
        BY <1>7 DEF WriteFails, LoopError, runVars
    <2>2. lost' = lost \union {<<nextRunID, m>> : m \in Ids(todo)}
        BY <1>7 DEF WriteFails, LoopError, runVars
    <2>3. \A l \in lost' : l \in lost \/ l[1] = nextRunID
        BY <2>2
    <2>. QED BY <1>0, <2>1, <2>3 DEF LossInv
<1>8. \/ UNCHANGED <<lost, results, nextRunID>> /\ (pc \in Out <=> pc' \in Out)
           /\ (pc = "unwind" => pc' = "unwind")
      \/ StartRun \/ BeginFails \/ CompactSucceeds \/ CompactFails \/ FlushDone \/ FlushFails
      \/ WriteFails
    BY DEF Next, Runner, AbortStep, CreateContext, TakeNextTurn, SetIdle, CloseRun, AppendTodo,
           DrainLoad, DrainStore, DrainDone, DrainFails, Respond, RespondAborted, ToolResult,
           FlushOne, AppendWrite, Enter, ToolBatchCut, PrepareNextTurn, Prompt, Continue, Compact,
           EnqueueLoad, EnqueueStore, AbortCopy, AbortClear, AbortCancel, AbortLook,
           AbortReturn, AbortVars, runVars
<1>. QED BY <1>1, <1>2, <1>4, <1>5, <1>6, <1>7, <1>8

LEMMA StepMessageInv ==
    ASSUME ~Racy, IInv, MessageInv, Next
    PROVE  MessageInv'
<1>1. TypeOK
    BY DEF IInv
<1>2. HomeInv' /\ DistinctInv'
    <2>1. CASE Quiet
        BY <2>1, QuietKeeps DEF MessageInv
    <2>2. CASE \E q \in Queues : EnqueueLoad(q)
        BY <1>1, <2>2, EnqueueLoadMoves
    <2>. QED BY <1>1, <2>1, <2>2, Movers, PromptMoves, FailuresMove, TakeNextTurnMoves,
                AppendTodoMoves, DrainStoreMoves, DrainFailsMoves, EnqueueStoreMoves, AbortClearMoves
<1>. QED BY <1>1, <1>2, StepUpdateInv, StepTakenInv, StepLossInv DEF MessageInv

LEMMA InitMessageInv == Init => MessageInv
<1>. SUFFICES ASSUME Init PROVE MessageInv
    OBVIOUS
<1>1. /\ queue = [q \in Queues |-> <<>>] /\ todo = <<>> /\ session = <<>> /\ caller = NoCaller
      /\ returned = {} /\ lost = {} /\ sent = 0 /\ pc = "idle" /\ abort.at = "idle"
      /\ results = <<>> /\ nextRunID = 0
    BY DEF Init
<1>2. \A c \in Homes : Home(c) = {}
    <2>1. UserIds(<<>>) = {} /\ Dropped = {} /\ Called = {}
        BY <1>1 DEF UserIds, Dropped, Called
    <2>. QED BY <1>1, <2>1, HomesAre, NoIds DEF Homes
<1>3. HomeInv
    BY <1>1, <1>2 DEF HomeInv
<1>4. DistinctInv
    BY <1>1, NoIds DEF DistinctInv, DistinctUsers
<1>. QED BY <1>1, <1>3, <1>4 DEF MessageInv, UpdateInv, TakenInv, LossInv

LEMMA StutterMessageInv == MessageInv /\ UNCHANGED vars => MessageInv'
<1>. SUFFICES ASSUME MessageInv, UNCHANGED vars PROVE MessageInv'
    OBVIOUS
<1>1. Quiet
    BY DEF Quiet, vars, loopVars, otherVars
<1>2. HomeInv' /\ DistinctInv'
    BY <1>1, QuietKeeps DEF MessageInv
<1>3. UpdateInv' /\ TakenInv' /\ LossInv'
    BY DEF MessageInv, UpdateInv, TakenInv, LossInv, CallersId, vars, loopVars, otherVars, runVars
<1>. QED BY <1>2, <1>3 DEF MessageInv

\* While no two updates of a queue overlap, messages move as the invariant says.
LEMMA MessagesAreSound == ASSUME ~Racy PROVE Spec => [](TypeOK /\ MessageInv)
<1>1. IInv => TypeOK
    BY DEF IInv
<1>2. MessageInv /\ IInv /\ [Next]_vars => MessageInv'
    BY StepMessageInv, StutterMessageInv
<1>. QED BY <1>1, <1>2, InitMessageInv, InductiveInvariant, PTL DEF Spec

LEMMA TheOnly == ASSUME NEW X, X # {}, \A x, y \in X : x = y PROVE \E x : X = {x}
<1>1. PICK x : x \in X
    OBVIOUS
<1>2. X = {x}
    BY <1>1
<1>. QED BY <1>2

\* Where the homes of a message say it is, it has its only place.
LEMMA OnePlace ==
    ASSUME TypeOK, MessageInv, NEW m \in 1 .. sent
    PROVE  Cardinality(Places(m)) = 1
<1> DEFINE Q == UNION {{<<q, i>> : i \in {j \in DOMAIN queue[q] : queue[q][j].of = m}} : q \in Queues}
           T == {<<"todo", i>> : i \in {j \in DOMAIN todo : todo[j].of = m}}
           S == {<<"session", i>> : i \in {j \in DOMAIN session :
                                             session[j].role = "user" /\ session[j].of = m}}
           R == {<<"returned", i>> : i \in {j \in returned : j = m}}
           L == {<<"lost", i[1]>> : i \in {l \in lost : l[2] = m}}
           C == {<<"caller", i>> : i \in {j \in {1} : caller # NoCaller
                                            /\ caller.seen[Len(caller.seen)].of = m}}
<1>1. Places(m) = Q \union T \union S \union R \union L \union C
    BY DEF Places
<1>2. /\ Q # {} => \E q \in Queues : m \in Home(q)
      /\ \A q \in Queues : m \in Home(q) => \E i \in DOMAIN queue[q] : <<q, i>> \in Q
    BY HomesAre DEF Ids
<1>3. /\ (T # {}) <=> (m \in Home("todo"))
      /\ (S # {}) <=> (m \in Home("session"))
      /\ (R # {}) <=> (m \in Home("returned"))
    <2>1. T # {} <=> m \in Ids(todo)
        BY DEF Ids
    <2>2. S # {} <=> m \in UserIds(session)
        BY DEF UserIds
    <2>3. R # {} <=> m \in returned
        OBVIOUS
    <2> HIDE DEF T, S, R
    <2>. QED BY <2>1, <2>2, <2>3, HomesAre
<1>4. /\ (L # {}) <=> (m \in Home("lost"))
      /\ (C # {}) <=> (m \in Home("caller"))
    <2>1. L # {} <=> m \in Dropped
        BY DEF Dropped
    <2>2. C # {} <=> m \in Called
        BY DEF Called, CallersId
    <2> HIDE DEF L, C
    <2>. QED BY <2>1, <2>2, HomesAre
<1>5. \A x, y \in Q : x = y
    <2>. SUFFICES ASSUME NEW p \in Queues, NEW q \in Queues,
                         NEW i \in DOMAIN queue[p], NEW j \in DOMAIN queue[q],
                         queue[p][i].of = m, queue[q][j].of = m
                  PROVE  <<p, i>> = <<q, j>>
        OBVIOUS
    <2>1. m \in Home(p) /\ m \in Home(q)
        BY HomesAre DEF Ids
    <2>2. p = q
        BY <2>1 DEF MessageInv, HomeInv, Homes
    <2>. QED BY <2>2 DEF MessageInv, DistinctInv, Distinct
<1>6. /\ \A x, y \in T : x = y
      /\ \A x, y \in S : x = y
      /\ \A x, y \in R : x = y
      /\ \A x, y \in L : x = y
      /\ \A x, y \in C : x = y
    BY DEF MessageInv, DistinctInv, Distinct, DistinctUsers
<1>7. \A c, d \in Homes : m \in Home(c) /\ m \in Home(d) => c = d
    BY DEF MessageInv, HomeInv
<1>8. PICK c \in Homes : m \in Home(c)
    BY DEF MessageInv, HomeInv
<1> HIDE DEF Q, T, S, R, L, C
<1>9. \E x : Places(m) = {x}
    <2>1. {"todo", "session", "returned", "lost", "caller"} \subseteq Homes /\ Queues \subseteq Homes
        BY DEF Homes
    <2>2. CASE c \in Queues
        <3>1. Q # {} /\ T = {} /\ S = {} /\ R = {} /\ L = {} /\ C = {}
            BY <1>2, <1>3, <1>4, <1>7, <1>8, <2>1, <2>2, HomesAre
        <3>2. Places(m) = Q
            BY <1>1, <3>1
        <3>. QED BY <1>5, <3>1, <3>2, TheOnly
    <2>3. CASE c \notin Queues
        <3>1. Q = {}
            BY <1>2, <1>7, <1>8, <2>1, <2>3
        <3>2. c \in {"todo", "session", "returned", "lost", "caller"}
            BY <1>8, <2>3 DEF Homes
        <3>3. \/ T # {} /\ S = {} /\ R = {} /\ L = {} /\ C = {}
              \/ T = {} /\ S # {} /\ R = {} /\ L = {} /\ C = {}
              \/ T = {} /\ S = {} /\ R # {} /\ L = {} /\ C = {}
              \/ T = {} /\ S = {} /\ R = {} /\ L # {} /\ C = {}
              \/ T = {} /\ S = {} /\ R = {} /\ L = {} /\ C # {}
            BY <1>3, <1>4, <1>7, <1>8, <2>1, <3>2
        <3>4. \E X \in {T, S, R, L, C} : X # {} /\ Places(m) = X
            BY <1>1, <3>1, <3>3
        <3>5. PICK X \in {T, S, R, L, C} : X # {} /\ Places(m) = X
            BY <3>4
        <3>6. \A x, y \in X : x = y
            BY <1>6, <3>5
        <3>. QED BY <3>5, <3>6, TheOnly
    <2>. QED BY <2>2, <2>3
<1>. QED BY <1>9, FS_Singleton

\* Each message handed to the harness is in one place, and what a run drops is dropped with an
\* error (agent_harness.go, Steer, FollowUp, NextTurn, drainQueue and Abort).
THEOREM MessagesAreConserved == ASSUME ~Racy PROVE Spec => []MessageConservation
<1>1. TypeOK /\ MessageInv => MessageConservation
    <2>1. TypeOK /\ MessageInv => LossIsReported
        BY DEF LossIsReported, MessageInv, LossInv
    <2>. QED BY <2>1, OnePlace DEF MessageConservation
<1>. QED BY <1>1, MessagesAreSound, PTL

\* What Abort gave back stays out of the queues (agent_harness.go, Abort).
THEOREM AbortsClearTheQueues == ASSUME ~Racy PROVE Spec => []AbortClearsQueues
<1>1. MessageInv => AbortClearsQueues
    <2>. SUFFICES ASSUME MessageInv, NEW q \in Queues  PROVE returned \intersect Ids(queue[q]) = {}
        BY DEF AbortClearsQueues
    <2>1. q # "returned" /\ q \in Homes /\ "returned" \in Homes
        BY DEF Homes, Queues
    <2>. QED BY <2>1, HomesAre DEF MessageInv, HomeInv
<1>. QED BY <1>1, MessagesAreSound, PTL

-----------------------------------------------------------------------------
\* The harness is the abstract inbox.

Inboxed == [m \in 1 .. MaxMsgs |-> StatusOf(m)]

\* The status of a message, by its homes.
Settled == UserIds(session) \union returned \union Dropped

LEMMA StatusIs ==
    ASSUME NEW m
    PROVE  StatusOf(m) = IF m > sent THEN "new"
                         ELSE IF m \in UserIds(session) THEN "delivered"
                         ELSE IF m \in returned THEN "returned"
                         ELSE IF m \in Dropped THEN "dropped" ELSE "held"
BY DEF StatusOf, Holds, UserIds, Dropped

LEMMA StatusIsNext ==
    ASSUME NEW m
    PROVE  StatusOf(m)' = IF m > sent' THEN "new"
                          ELSE IF m \in UserIds(session') THEN "delivered"
                          ELSE IF m \in returned' THEN "returned"
                          ELSE IF m \in Dropped' THEN "dropped" ELSE "held"
BY DEF StatusOf, Holds, UserIds, Dropped

\* A message in a queue or in the hands of the loop is held.
LEMMA HeldInHome ==
    ASSUME CountTypeOK, HomeInv, NEW c \in Queues \union {"todo"}, NEW m \in Home(c)
    PROVE  m \in 1 .. sent /\ m \notin Settled /\ StatusOf(m) = "held"
<1>1. /\ c \in Homes /\ {"session", "returned", "lost"} \subseteq Homes
      /\ c # "session" /\ c # "returned" /\ c # "lost"
    BY DEF Homes, Queues
<1>2. m \in 1 .. sent /\ m \notin Home("session") /\ m \notin Home("returned") /\ m \notin Home("lost")
    BY <1>1 DEF HomeInv
<1>3. m \in 1 .. sent /\ m \notin Settled
    BY <1>2, HomesAre DEF Settled
<1>4. ~(m > sent)
    BY <1>3 DEF CountTypeOK
<1>. QED BY <1>3, <1>4, StatusIs DEF Settled

\* A step that settles nothing and accepts nothing does not change the inbox.
LEMMA InboxKept ==
    ASSUME sent' = sent, UserIds(session') = UserIds(session), returned' = returned, Dropped' = Dropped
    PROVE  Inboxed' = Inboxed
<1>1. \A m : StatusOf(m)' = StatusOf(m)
    BY StatusIs, StatusIsNext
<1>. QED BY <1>1 DEF Inboxed

\* A step that hands a message in accepts it.
LEMMA InboxAccepts ==
    ASSUME TypeOK, HomeInv, sent < MaxMsgs, sent' = sent + 1,
           UserIds(session') = UserIds(session), returned' = returned, Dropped' = Dropped
    PROVE  \E m \in 1 .. MaxMsgs : Inboxed[m] = "new" /\ Inboxed' = [Inboxed EXCEPT ![m] = "held"]
<1>1. sent \in Nat /\ sent + 1 \in 1 .. MaxMsgs
    BY HarnessAssumption DEF HarnessAssumption, TypeOK, CountTypeOK
<1>2. sent + 1 \notin UserIds(session) /\ sent + 1 \notin returned /\ sent + 1 \notin Dropped
    <2>1. {"session", "returned", "lost"} \subseteq Homes /\ sent + 1 \notin 1 .. sent
        BY <1>1 DEF Homes
    <2>2. /\ Home("session") \subseteq 1 .. sent /\ Home("returned") \subseteq 1 .. sent
          /\ Home("lost") \subseteq 1 .. sent
        BY <2>1 DEF HomeInv
    <2>. QED BY <2>1, <2>2, HomesAre
<1>3. StatusOf(sent + 1) = "new"
    BY <1>1, StatusIs
<1>4. ASSUME NEW m \in 1 .. MaxMsgs
      PROVE  StatusOf(m)' = IF m = sent + 1 THEN "held" ELSE StatusOf(m)
    <2>1. CASE m = sent + 1
        <3>1. ~(m > sent')
            BY <1>1, <2>1
        <3>. QED BY <1>2, <2>1, <3>1, StatusIsNext
    <2>2. CASE m # sent + 1
        <3>1. (m > sent') <=> (m > sent)
            BY <1>1, <2>2
        <3>. QED BY <2>2, <3>1, StatusIs, StatusIsNext
    <2>. QED BY <2>1, <2>2
<1>5. Inboxed' = [Inboxed EXCEPT ![sent + 1] = "held"]
    BY <1>1, <1>4 DEF Inboxed
<1>. QED BY <1>1, <1>3, <1>5 DEF Inboxed

\* A step that settles the messages of M, all alike.
LEMMA InboxSettles ==
    ASSUME sent' = sent, NEW M, \A m \in M : StatusOf(m) = "held",
           NEW outcome, outcome # "held",
           \A m \in M : StatusOf(m)' = outcome,
           \A m \in 1 .. MaxMsgs : m \notin M => StatusOf(m)' = StatusOf(m)
    PROVE  LET S == M \intersect 1 .. MaxMsgs IN
           /\ \A m \in S : Inboxed[m] = "held"
           /\ Inboxed' = [m \in 1 .. MaxMsgs |-> IF m \in S THEN outcome ELSE Inboxed[m]]
BY DEF Inboxed

\* A step of the inbox, in terms of what became of the messages.
InboxStep ==
    \/ \E m \in 1 .. MaxMsgs : Inboxed[m] = "new" /\ Inboxed' = [Inboxed EXCEPT ![m] = "held"]
    \/ \E M, outcome :
         /\ outcome \in {"returned", "dropped"} \/ (outcome = "delivered" /\ \E m : M = {m})
         /\ \A m \in M : StatusOf(m) = "held" /\ StatusOf(m)' = outcome
         /\ \A m \in 1 .. MaxMsgs : m \notin M => StatusOf(m)' = StatusOf(m)
    \/ Inboxed' = Inboxed

LEMMA InboxSteps == InboxStep => AbstractInbox!Next \/ Inboxed' = Inboxed
<1>1. ASSUME NEW m \in 1 .. MaxMsgs, Inboxed[m] = "new", Inboxed' = [Inboxed EXCEPT ![m] = "held"]
      PROVE  AbstractInbox!Next
    <2>1. AbstractInbox!Accept(m)
        BY <1>1 DEF AbstractInbox!Accept, Inboxed
    <2>. QED BY <2>1 DEF AbstractInbox!Next
<1>2. ASSUME NEW M, NEW outcome,
             outcome \in {"returned", "dropped"} \/ (outcome = "delivered" /\ \E m : M = {m}),
             \A m \in M : StatusOf(m) = "held" /\ StatusOf(m)' = outcome,
             \A m \in 1 .. MaxMsgs : m \notin M => StatusOf(m)' = StatusOf(m)
      PROVE  AbstractInbox!Next \/ Inboxed' = Inboxed
    <2> DEFINE S == M \intersect 1 .. MaxMsgs
    <2>1. /\ \A m \in S : Inboxed[m] = "held"
          /\ Inboxed' = [m \in 1 .. MaxMsgs |-> IF m \in S THEN outcome ELSE Inboxed[m]]
        BY <1>2 DEF Inboxed
    <2>2. S \in SUBSET (1 .. MaxMsgs)
        OBVIOUS
    <2> HIDE DEF S
    <2>3. AbstractInbox!Settle(S, outcome)
        BY <2>1 DEF AbstractInbox!Settle, Inboxed
    <2>4. CASE outcome = "returned"
        BY <2>2, <2>3, <2>4 DEF AbstractInbox!Next, AbstractInbox!GiveBack
    <2>5. CASE outcome = "dropped"
        BY <2>2, <2>3, <2>5 DEF AbstractInbox!Next, AbstractInbox!Drop
    <2>6. CASE outcome = "delivered" /\ \E m : M = {m}
        <3>1. PICK m : M = {m}
            BY <2>6
        <3>2. CASE m \in 1 .. MaxMsgs
            <4>1. S = {m}
                BY <3>1, <3>2 DEF S
            <4>2. AbstractInbox!Deliver(m)
                BY <2>3, <2>6, <4>1 DEF AbstractInbox!Deliver
            <4>. QED BY <3>2, <4>2 DEF AbstractInbox!Next
        <3>3. CASE m \notin 1 .. MaxMsgs
            <4>1. \A n \in 1 .. MaxMsgs : StatusOf(n)' = StatusOf(n)
                BY <1>2, <3>1, <3>3
            <4>. QED BY <4>1 DEF Inboxed
        <3>. QED BY <3>2, <3>3
    <2>. QED BY <1>2, <2>4, <2>5, <2>6
<1>. QED BY <1>1, <1>2 DEF InboxStep

\* Messages that leave queues or the hands of the loop for one of the three ends.
LEMMA MessagesEnd ==
    ASSUME CountTypeOK, HomeInv, NEW M, \A m \in M : m \in 1 .. sent /\ m \notin Settled, sent' = sent,
           \/ /\ UserIds(session') = UserIds(session) \union M /\ \E m : M = {m}
              /\ returned' = returned /\ Dropped' = Dropped
           \/ returned' = returned \union M /\ UserIds(session') = UserIds(session) /\ Dropped' = Dropped
           \/ Dropped' = Dropped \union M /\ UserIds(session') = UserIds(session) /\ returned' = returned
    PROVE  InboxStep
<1>1. \A m \in M : StatusOf(m) = "held" /\ ~(m > sent) /\ ~(m > sent')
    <2>1. \A m \in M : ~(m > sent)
        BY DEF CountTypeOK
    <2>. QED BY <2>1, StatusIs DEF Settled
<1>2. ASSUME NEW m, m \notin M  PROVE StatusOf(m)' = StatusOf(m)
    BY <1>2, StatusIs, StatusIsNext
<1>3. CASE /\ UserIds(session') = UserIds(session) \union M /\ \E m : M = {m}
           /\ returned' = returned /\ Dropped' = Dropped
    <2>1. \A m \in M : StatusOf(m)' = "delivered"
        BY <1>1, <1>3, StatusIsNext
    <2>. QED BY <1>1, <1>2, <1>3, <2>1 DEF InboxStep
<1>4. CASE returned' = returned \union M /\ UserIds(session') = UserIds(session) /\ Dropped' = Dropped
    <2>1. \A m \in M : StatusOf(m)' = "returned"
        BY <1>1, <1>4, StatusIsNext DEF Settled
    <2>. QED BY <1>1, <1>2, <2>1 DEF InboxStep
<1>5. CASE Dropped' = Dropped \union M /\ UserIds(session') = UserIds(session) /\ returned' = returned
    <2>1. \A m \in M : StatusOf(m)' = "dropped"
        BY <1>1, <1>5, StatusIsNext DEF Settled
    <2>. QED BY <1>1, <1>2, <2>1 DEF InboxStep
<1>. QED BY <1>3, <1>4, <1>5

LEMMA StepInbox ==
    ASSUME TypeOK, MessageInv, Next
    PROVE  InboxStep
<1>0. /\ CountTypeOK /\ HomeInv /\ todo \in Seq(UserMessage) /\ session \in Seq(Entry)
      /\ \A m \in Ids(todo) : m \in 1 .. sent /\ m \notin Settled
      /\ \A q \in Queues : \A m \in Ids(queue[q]) : m \in 1 .. sent /\ m \notin Settled
    <2>1. CountTypeOK /\ HomeInv /\ todo \in Seq(UserMessage) /\ session \in Seq(Entry)
        BY DEF MessageInv, TypeOK, QueueTypeOK, SessionTypeOK
    <2>2. /\ \A m \in Home("todo") : m \in 1 .. sent /\ m \notin Settled
          /\ \A q \in Queues : \A m \in Home(q) : m \in 1 .. sent /\ m \notin Settled
        BY <2>1, HeldInHome
    <2>. QED BY <2>1, <2>2, HomesAre
<1>1. CASE UNCHANGED <<sent, returned, lost>> /\ UserIds(session') = UserIds(session)
    <2>1. Dropped' = Dropped
        BY <1>1 DEF Dropped
    <2>. QED BY <1>1, <2>1, InboxKept DEF InboxStep
<1>2. CASE Quiet \/ TakeNextTurn \/ DrainStore \/ DrainFails \/ EnqueueStore
    BY <1>1, <1>2 DEF Quiet, TakeNextTurn, DrainStore, DrainFails, EnqueueStore, otherVars
<1>3. CASE Prompt \/ \E q \in Queues : EnqueueLoad(q)
    <2>1. sent < MaxMsgs /\ sent' = sent + 1 /\ UNCHANGED <<session, returned, lost>>
        BY <1>3 DEF Prompt, EnqueueLoad
    <2>2. Dropped' = Dropped
        BY <2>1 DEF Dropped
    <2>. QED BY <1>0, <2>1, <2>2, InboxAccepts DEF InboxStep
<1>4. CASE AppendTodo
    <2> DEFINE e == Head(todo)
    <2>1. todo # <<>> /\ session' = Append(session, e) /\ UNCHANGED <<sent, returned, lost>>
        BY <1>4 DEF AppendTodo, otherVars
    <2>2. e.role = "user"
        <3>1. e \in UserMessage
            BY <1>0, <2>1
        <3>. QED BY <3>1 DEF UserMessage
    <2>3. e.of \in Ids(todo)
        BY <1>0, <2>1, HeadsId
    <2>4. Dropped' = Dropped
        BY <2>1 DEF Dropped
    <2> HIDE DEF e
    <2>5. PICK m : m = e.of
        OBVIOUS
    <2>6. UserIds(session') = UserIds(session) \union {m}
        BY <1>0, <2>1, <2>2, <2>5, AppendedIds
    <2>7. PICK M : M = {m}
        OBVIOUS
    <2>8. \A n \in M : n \in 1 .. sent /\ n \notin Settled
        BY <1>0, <2>3, <2>5, <2>7
    <2>9. UserIds(session') = UserIds(session) \union M /\ \E n : M = {n}
        BY <2>6, <2>7
    <2>. QED BY <1>0, <2>1, <2>4, <2>8, <2>9, MessagesEnd
<1>5. CASE BeginFails \/ WriteFails
    <2>1. PICK M : /\ lost' = lost \union {<<nextRunID, m>> : m \in M}
                   /\ M = Ids(todo) \/ M = Ids(todo) \union Ids(queue["nextTurn"])
        <3>1. CASE WriteFails
            BY <3>1 DEF WriteFails, LoopError
        <3>2. CASE BeginFails
            BY <3>2 DEF BeginFails
        <3>. QED BY <1>5, <3>1, <3>2
    <2>2. UNCHANGED <<session, returned, sent>>
        BY <1>5 DEF BeginFails, WriteFails, otherVars
    <2>3. Dropped' = Dropped \union M
        <3>1. PICK adds : adds = {<<nextRunID, m>> : m \in M}
            OBVIOUS
        <3>2. /\ lost' = lost \union adds
              /\ \A l \in adds : l = <<nextRunID, l[2]>> /\ l[2] \in M
              /\ \A m \in M : <<nextRunID, m>> \in adds
            BY <2>1, <3>1
        <3>. QED BY <3>2, DroppedMore
    <2>4. \A m \in M : m \in 1 .. sent /\ m \notin Settled
        BY <1>0, <2>1 DEF Queues
    <2>. QED BY <1>0, <2>2, <2>3, <2>4, MessagesEnd
<1>6. CASE AbortClear
    <2>1. PICK M : M = Ids(queue["steer"]) \union Ids(queue["followUp"])
        OBVIOUS
    <2>2. returned' = returned \union M /\ UNCHANGED <<session, lost, sent>>
        BY <1>6, <2>1 DEF AbortClear, AbortVars, UpdateInv, MessageInv
    <2>3. Dropped' = Dropped
        BY <2>2 DEF Dropped
    <2>4. \A m \in M : m \in 1 .. sent /\ m \notin Settled
        BY <1>0, <2>1 DEF Queues
    <2>. QED BY <1>0, <2>2, <2>3, <2>4, MessagesEnd
<1>. QED BY <1>2, <1>3, <1>4, <1>5, <1>6, Movers

\* The harness implements the abstract inbox: every step leaves each message where it was, or
\* accepts, delivers, gives back or drops messages that were not settled before
\* (agent_harness.go, Steer to Abort, and the message_end events of agent_loop.go).
THEOREM HarnessIsAnInbox == ASSUME ~Racy PROVE Spec => ImplementsInbox
<1>1. Init => AbstractInbox!Init
    <2>. SUFFICES ASSUME Init PROVE \A m \in 1 .. MaxMsgs : StatusOf(m) = "new"
        BY DEF AbstractInbox!Init
    <2>1. sent = 0
        BY DEF Init
    <2>. QED BY <2>1, StatusIs
<1>2. TypeOK /\ MessageInv /\ [Next]_vars => AbstractInbox!Next \/ Inboxed' = Inboxed
    <2>1. TypeOK /\ MessageInv /\ Next => AbstractInbox!Next \/ Inboxed' = Inboxed
        BY StepInbox, InboxSteps
    <2>2. UNCHANGED vars => Inboxed' = Inboxed
        <3>1. UNCHANGED vars => UNCHANGED <<sent, session, returned, lost>>
            BY DEF vars, otherVars
        <3>2. UNCHANGED lost => Dropped' = Dropped
            BY DEF Dropped
        <3>. QED BY <3>1, <3>2, InboxKept
    <2>. QED BY <2>1, <2>2
<1>3. TypeOK /\ MessageInv /\ [Next]_vars => [AbstractInbox!Next]_Inboxed
    BY <1>2
<1>. QED BY <1>1, <1>3, MessagesAreSound, PTL DEF Spec, ImplementsInbox, AbstractInbox!Spec, Inboxed

-----------------------------------------------------------------------------
\* The order of the messages that came in by one way.

Ordered(s) == \A i, j \in DOMAIN s :
    i < j /\ s[i].role = "user" /\ s[j].role = "user" /\ s[i].tag = s[j].tag => s[i].of < s[j].of
Before(s, t) == \A i \in DOMAIN s, j \in DOMAIN t :
    s[i].role = "user" /\ s[i].tag = t[j].tag => s[i].of < t[j].of
Tagged(s, tag) == \A i \in DOMAIN s : s[i].tag = tag

\* The messages of a queue go one after the other from the caller to the queue, the loop and the
\* session.
OrderInv ==
    /\ Ordered(session) /\ Ordered(todo) /\ Before(session, todo)
    /\ \A q \in Queues :
         Tagged(queue[q], q) /\ Ordered(queue[q]) /\ Before(session, queue[q]) /\ Before(todo, queue[q])
    /\ caller # NoCaller =>
         /\ Tagged(caller.seen, caller.q) /\ Ordered(caller.seen)
         /\ Before(session, caller.seen) /\ Before(todo, caller.seen)
    /\ pc \in {"idle", "begin", "context", "nextTurn"} => Tagged(todo, "prompt")
    /\ pc = "drained" => Tagged(todo, draining)

LEMMA EmptyOrder ==
    /\ Ordered(<<>>) /\ \A tag : Tagged(<<>>, tag)
    /\ \A s : Before(s, <<>>) /\ Before(<<>>, s)
BY DEF Ordered, Tagged, Before

\* What is cut out of a sequence keeps its order.
LEMMA PartOrder ==
    ASSUME NEW s, NEW t, NEW n \in Nat,
           \A i \in DOMAIN s \union DOMAIN t : i \in Int,
           \A i \in DOMAIN t : i + n \in DOMAIN s /\ t[i] = s[i + n]
    PROVE  /\ Ordered(s) => Ordered(t)
           /\ \A tag : Tagged(s, tag) => Tagged(t, tag)
           /\ \A r : (Before(r, s) => Before(r, t)) /\ (Before(s, r) => Before(t, r))
<1>1. Ordered(s) => Ordered(t)
    <2>1. \A i, j \in DOMAIN t : i < j => i + n < j + n
        OBVIOUS
    <2>. QED BY <2>1 DEF Ordered
<1>2. \A tag : Tagged(s, tag) => Tagged(t, tag)
    BY DEF Tagged
<1>3. \A r : (Before(r, s) => Before(r, t)) /\ (Before(s, r) => Before(t, r))
    BY DEF Before
<1>. QED BY <1>1, <1>2, <1>3

\* What stands in front of a cut comes before what stands behind it.
LEMMA CutOrder ==
    ASSUME NEW s \in Seq(UserMessage), NEW n \in 0 .. Len(s), Ordered(s)
    PROVE  LET a == SubSeq(s, 1, n)
               b == SubSeq(s, n + 1, Len(s))
           IN  /\ Ordered(a) /\ Ordered(b) /\ Before(a, b)
               /\ \A tag : Tagged(s, tag) => Tagged(a, tag) /\ Tagged(b, tag)
               /\ \A r : Before(r, s) => Before(r, a) /\ Before(r, b)
<1> DEFINE a == SubSeq(s, 1, n)
           b == SubSeq(s, n + 1, Len(s))
<1>1. /\ DOMAIN s = 1 .. Len(s) /\ Len(s) \in Nat /\ n \in Nat
      /\ DOMAIN a = 1 .. n /\ DOMAIN b = 1 .. (Len(s) - n)
      /\ \A i \in DOMAIN a : a[i] = s[i]
      /\ \A i \in DOMAIN b : b[i] = s[i + n]
    OBVIOUS
<1> HIDE DEF a, b
<1>2. /\ \A i \in DOMAIN s \union DOMAIN a : i \in Int
      /\ \A i \in DOMAIN a : i + 0 \in DOMAIN s /\ a[i] = s[i + 0]
      /\ \A i \in DOMAIN s \union DOMAIN b : i \in Int
      /\ \A i \in DOMAIN b : i + n \in DOMAIN s /\ b[i] = s[i + n]
    BY <1>1
<1>3. /\ Ordered(a) /\ \A tag : Tagged(s, tag) => Tagged(a, tag)
      /\ \A r : Before(r, s) => Before(r, a)
    BY <1>2, PartOrder
<1>4. /\ Ordered(b) /\ \A tag : Tagged(s, tag) => Tagged(b, tag)
      /\ \A r : Before(r, s) => Before(r, b)
    BY <1>1, <1>2, PartOrder
<1>5. Before(a, b)
    <2>. SUFFICES ASSUME NEW i \in DOMAIN a, NEW j \in DOMAIN b, a[i].role = "user", a[i].tag = b[j].tag
                  PROVE  a[i].of < b[j].of
        BY DEF Before
    <2>1. i \in DOMAIN s /\ j + n \in DOMAIN s /\ i < j + n /\ a[i] = s[i] /\ b[j] = s[j + n]
        BY <1>1
    <2>2. s[j + n] \in UserMessage
        BY <2>1
    <2>3. s[j + n].role = "user"
        BY <2>2 DEF UserMessage
    <2>. QED BY <2>1, <2>3 DEF Ordered
<1>. QED BY <1>3, <1>4, <1>5 DEF a, b

LEMMA TailOrder ==
    ASSUME NEW s \in Seq(UserMessage), s # <<>>, Ordered(s)
    PROVE  /\ Ordered(Tail(s)) /\ \A tag : Tagged(s, tag) => Tagged(Tail(s), tag)
           /\ \A r : (Before(r, s) => Before(r, Tail(s))) /\ (Before(s, r) => Before(Tail(s), r))
           /\ \A j \in DOMAIN Tail(s) : Head(s).tag = Tail(s)[j].tag => Head(s).of < Tail(s)[j].of
<1> DEFINE t == Tail(s)
<1>1. /\ \A i \in DOMAIN s \union DOMAIN t : i \in Int
      /\ \A i \in DOMAIN t : i + 1 \in DOMAIN s /\ t[i] = s[i + 1] /\ 1 < i + 1
      /\ Head(s) = s[1] /\ 1 \in DOMAIN s
    OBVIOUS
<1>2. \A i \in DOMAIN s : s[i].role = "user"
    <2>1. \A i \in DOMAIN s : s[i] \in UserMessage
        OBVIOUS
    <2>. QED BY <2>1 DEF UserMessage
<1> HIDE DEF t
<1>3. /\ Ordered(t) /\ \A tag : Tagged(s, tag) => Tagged(t, tag)
      /\ \A r : (Before(r, s) => Before(r, t)) /\ (Before(s, r) => Before(t, r))
    BY <1>1, PartOrder
<1>4. \A j \in DOMAIN t : Head(s).tag = t[j].tag => Head(s).of < t[j].of
    BY <1>1, <1>2 DEF Ordered
<1>. QED BY <1>3, <1>4 DEF t

LEMMA AppendOrder ==
    ASSUME NEW S, NEW s \in Seq(S), NEW e
    PROVE  LET t == Append(s, e) IN
           /\ Ordered(s) /\ (e.role = "user" =>
                \A i \in DOMAIN s : s[i].role = "user" /\ s[i].tag = e.tag => s[i].of < e.of)
                => Ordered(t)
           /\ \A tag : Tagged(s, tag) /\ e.tag = tag => Tagged(t, tag)
           /\ \A r : Before(r, s) /\ (\A i \in DOMAIN r :
                       r[i].role = "user" /\ r[i].tag = e.tag => r[i].of < e.of) => Before(r, t)
           /\ \A r : Before(s, r) /\ (e.role = "user" =>
                       \A j \in DOMAIN r : e.tag = r[j].tag => e.of < r[j].of) => Before(t, r)
<1> DEFINE t == Append(s, e)
           n == Len(s) + 1
<1>1. /\ \A i \in DOMAIN s : i \in DOMAIN t /\ t[i] = s[i] /\ i \in Int /\ i < n
      /\ \A i \in DOMAIN t : i \in DOMAIN s \/ i = n
      /\ t[n] = e /\ n \in Int
    <2>1. Len(s) \in Nat /\ DOMAIN s = 1 .. Len(s)
        OBVIOUS
    <2>. QED BY <2>1, SequenceEnds
<1> HIDE DEF t, n
<1>2. ASSUME Ordered(s), e.role = "user" =>
               \A i \in DOMAIN s : s[i].role = "user" /\ s[i].tag = e.tag => s[i].of < e.of
      PROVE  Ordered(t)
    <2>. SUFFICES ASSUME NEW i \in DOMAIN t, NEW j \in DOMAIN t, i < j,
                         t[i].role = "user", t[j].role = "user", t[i].tag = t[j].tag
                  PROVE  t[i].of < t[j].of
        BY DEF Ordered
    <2>1. i \in DOMAIN s
        BY <1>1
    <2>2. CASE j \in DOMAIN s
        BY <1>1, <1>2, <2>1, <2>2 DEF Ordered
    <2>3. CASE j = n
        BY <1>1, <1>2, <2>1, <2>3
    <2>. QED BY <1>1, <2>2, <2>3
<1>3. \A tag : Tagged(s, tag) /\ e.tag = tag => Tagged(t, tag)
    BY <1>1 DEF Tagged
<1>4. \A r : Before(r, s) /\ (\A i \in DOMAIN r :
               r[i].role = "user" /\ r[i].tag = e.tag => r[i].of < e.of) => Before(r, t)
    BY <1>1 DEF Before
<1>5. \A r : Before(s, r) /\ (e.role = "user" =>
               \A j \in DOMAIN r : e.tag = r[j].tag => e.of < r[j].of) => Before(t, r)
    BY <1>1 DEF Before
<1>. QED BY <1>2, <1>3, <1>4, <1>5 DEF t

LEMMA ConcatOrder ==
    ASSUME NEW S, NEW s \in Seq(S), NEW t \in Seq(S), Ordered(s), Ordered(t), Before(s, t)
    PROVE  LET u == s \o t IN
           /\ Ordered(u)
           /\ \A tag : Tagged(s, tag) /\ Tagged(t, tag) => Tagged(u, tag)
           /\ \A r : (Before(r, s) /\ Before(r, t) => Before(r, u))
                     /\ (Before(s, r) /\ Before(t, r) => Before(u, r))
<1> DEFINE u == s \o t
           n == Len(s)
<1>1. /\ n \in Nat /\ \A i \in DOMAIN u \union DOMAIN s \union DOMAIN t : i \in Int
      /\ \A i \in DOMAIN u : \/ i \in DOMAIN s /\ u[i] = s[i] /\ i <= n
                             \/ i - n \in DOMAIN t /\ u[i] = t[i - n] /\ i > n
    OBVIOUS
<1> HIDE DEF u, n
<1>2. Ordered(u)
    <2>. SUFFICES ASSUME NEW i \in DOMAIN u, NEW j \in DOMAIN u, i < j,
                         u[i].role = "user", u[j].role = "user", u[i].tag = u[j].tag
                  PROVE  u[i].of < u[j].of
        BY DEF Ordered
    <2>1. CASE i <= n /\ j <= n
        BY <1>1, <2>1 DEF Ordered
    <2>2. CASE i <= n /\ j > n
        BY <1>1, <2>2 DEF Before
    <2>3. CASE i > n
        <3>1. /\ i - n \in DOMAIN t /\ u[i] = t[i - n] /\ j - n \in DOMAIN t /\ u[j] = t[j - n]
              /\ i - n < j - n
            BY <1>1, <2>3
        <3>. QED BY <3>1 DEF Ordered
    <2>. QED BY <1>1, <2>1, <2>2, <2>3
<1>3. \A tag : Tagged(s, tag) /\ Tagged(t, tag) => Tagged(u, tag)
    BY <1>1 DEF Tagged
<1>4. \A r : (Before(r, s) /\ Before(r, t) => Before(r, u))
             /\ (Before(s, r) /\ Before(t, r) => Before(u, r))
    BY <1>1 DEF Before
<1>. QED BY <1>2, <1>3, <1>4 DEF u

\* Messages of different ways are in no order.
LEMMA OtherTag ==
    ASSUME NEW s, NEW t, NEW a, NEW b, a # b, Tagged(s, a), Tagged(t, b)
    PROVE  Before(s, t)
BY DEF Tagged, Before

\* The steps that change no queue, and nothing of the session but what is no message of a user.
OrderQuiet ==
    /\ UNCHANGED <<queue, todo, caller>>
    /\ session' = session \/ \E e : session' = Append(session, e) /\ e.role # "user"
    /\ pc' \in {"idle", "begin", "context", "nextTurn"} =>
         pc \in {"idle", "begin", "context", "nextTurn"} \/ todo = <<>>
    /\ pc' = "drained" => pc = "drained" /\ draining' = draining

LEMMA OrderMovers ==
    ASSUME TypeOK, TakenInv, Next
    PROVE  \/ OrderQuiet
           \/ Prompt \/ BeginFails \/ TakeNextTurn \/ AppendTodo \/ DrainStore \/ DrainFails
           \/ WriteFails \/ EnqueueStore \/ AbortClear
           \/ \E q \in Queues : EnqueueLoad(q)
<1> DEFINE Early == {"idle", "begin", "context", "nextTurn"}
           Same == /\ UNCHANGED <<queue, todo, caller>>
                   /\ pc' \in Early => pc \in Early \/ pc = "close"
                   /\ pc' = "drained" => pc = "drained" /\ draining' = draining
<1>1. \/ UNCHANGED session /\ Same
      \/ (CompactSucceeds \/ Respond \/ ToolResult \/ FlushOne
            \/ \E kind \in {"note", "model"} : AppendWrite(kind)) /\ Same
      \/ Prompt \/ BeginFails \/ TakeNextTurn \/ AppendTodo \/ DrainStore \/ DrainFails
      \/ WriteFails \/ EnqueueStore \/ AbortClear
      \/ \E q \in Queues : EnqueueLoad(q)
    BY DEF Next, Runner, AbortStep, StartRun, CreateContext, SetIdle, Finish,
           CloseRun, CompactSucceeds, CompactFails, DrainLoad, DrainDone,
           Respond, RespondAborted, ToolResult, FlushOne, AppendWrite,
           ToolBatchCut, PrepareNextTurn, FlushDone, FlushFails, Continue, FlushPoints,
           Compact, AbortCopy, AbortCancel, AbortLook,
           AbortReturn, AbortVars, Enter, loopVars, otherVars, FailingStops
<1>2. pc = "close" => todo = <<>>
    BY DEF TakenInv
<1>3. CASE UNCHANGED session /\ Same
    BY <1>2, <1>3 DEF OrderQuiet
<1>4. ASSUME Same, NEW e, session' = Append(session, e), e.role # "user"
      PROVE  OrderQuiet
    BY <1>2, <1>4 DEF OrderQuiet
<1>5. CASE (CompactSucceeds \/ Respond \/ ToolResult \/ FlushOne
              \/ \E kind \in {"note", "model"} : AppendWrite(kind)) /\ Same
    <2>1. session' = session \/ \E e : session' = Append(session, e) /\ e.role # "user"
        <3>1. CASE CompactSucceeds
            BY <3>1 DEF CompactSucceeds, compaction
        <3>2. CASE Respond
            BY <3>2 DEF Respond, response
        <3>3. CASE ToolResult
            BY <3>3 DEF ToolResult, toolResult
        <3>4. CASE FlushOne
            <4>1. pendingSessionWrites # <<>> /\ session' = Append(session, Head(pendingSessionWrites))
                BY <3>4 DEF FlushOne
            <4>2. Head(pendingSessionWrites) \in Write
                BY <4>1 DEF TypeOK, SessionTypeOK
            <4>. QED BY <4>1, <4>2 DEF Write
        <3>5. CASE \E kind \in {"note", "model"} : AppendWrite(kind)
            <4>1. PICK kind \in {"note", "model"} : AppendWrite(kind)
                BY <3>5
            <4>2. write(kind, notes + 1).role # "user"
                BY DEF write
            <4>. QED BY <4>1, <4>2 DEF AppendWrite
        <3>. QED BY <1>5, <3>1, <3>2, <3>3, <3>4, <3>5
    <2> HIDE DEF Same
    <2>2. CASE session' = session
        BY <1>3, <1>5, <2>2
    <2>. QED BY <1>4, <1>5, <2>1, <2>2
<1> HIDE DEF Same
<1>. QED BY <1>1, <1>3, <1>5

\* The parts of OrderInv that a step has to keep.
LEMMA OrderParts ==
    ASSUME QueueTypeOK, SessionTypeOK, OrderInv
    PROVE  /\ queue \in [Queues -> Seq(UserMessage)] /\ todo \in Seq(UserMessage)
           /\ session \in Seq(Entry)
           /\ Ordered(session) /\ Ordered(todo) /\ Before(session, todo)
           /\ \A q \in Queues :
                /\ Tagged(queue[q], q) /\ Ordered(queue[q])
                /\ Before(session, queue[q]) /\ Before(todo, queue[q])
BY DEF QueueTypeOK, SessionTypeOK, OrderInv

\* Without a caller, only the session, the loop and the queues are to be looked at.
LEMMA OrderWithoutCaller ==
    ASSUME caller' = NoCaller, pc' \notin {"idle", "begin", "context", "nextTurn", "drained"},
           Ordered(session'), Ordered(todo'), Before(session', todo'),
           \A q \in Queues : /\ Tagged(queue'[q], q) /\ Ordered(queue'[q])
                             /\ Before(session', queue'[q]) /\ Before(todo', queue'[q])
    PROVE  OrderInv'
BY DEF OrderInv

LEMMA NewerThanAll ==
    ASSUME CountTypeOK, HomeInv
    PROVE  /\ \A i \in DOMAIN session : session[i].role = "user" => session[i].of < sent + 1
           /\ \A i \in DOMAIN todo : todo[i].of < sent + 1
           /\ \A q \in Queues : \A i \in DOMAIN queue[q] : queue[q][i].of < sent + 1
<1>1. /\ Home("session") \subseteq 1 .. sent /\ Home("todo") \subseteq 1 .. sent
      /\ \A q \in Queues : Home(q) \subseteq 1 .. sent
    BY DEF HomeInv, Homes
<1>2. \A m \in 1 .. sent : m < sent + 1
    BY DEF CountTypeOK
<1>. QED BY <1>1, <1>2, HomesAre DEF UserIds, Ids

LEMMA OrderQuietKeeps ==
    ASSUME TypeOK, OrderInv, OrderQuiet
    PROVE  OrderInv'
<1>1. session \in Seq(Entry)
    BY DEF TypeOK, SessionTypeOK
<1>2. /\ Ordered(session) => Ordered(session')
      /\ \A r : Before(session, r) => Before(session', r)
    <2>1. CASE session' = session
        BY <2>1
    <2>2. CASE \E e : session' = Append(session, e) /\ e.role # "user"
        BY <1>1, <2>2, AppendOrder
    <2>. QED BY <2>1, <2>2 DEF OrderQuiet
<1>3. /\ Tagged(todo, "prompt") \/ ~(pc' \in {"idle", "begin", "context", "nextTurn"})
      /\ pc' = "drained" => Tagged(todo, draining')
    BY EmptyOrder DEF OrderInv, OrderQuiet
<1>. QED BY <1>2, <1>3 DEF OrderInv, OrderQuiet

LEMMA PromptOrder ==
    ASSUME TypeOK, MessageInv, OrderInv, Prompt
    PROVE  OrderInv'
<1> DEFINE e == user(sent + 1, "prompt")
<1>1. /\ pc = "idle" /\ pc' = "begin" /\ todo' = <<e>> /\ UNCHANGED <<session, queue, caller>>
    BY DEF Prompt, Enter, otherVars
<1>2. e.of = sent + 1 /\ e.tag = "prompt"
    BY DEF user
<1> HIDE DEF e
<1>3. \A i \in DOMAIN session : session[i].role = "user" => session[i].of < sent + 1
    BY NewerThanAll DEF TypeOK, MessageInv
<1>4. DOMAIN <<e>> = {1} /\ <<e>>[1] = e
    OBVIOUS
<1>5. Ordered(<<e>>) /\ Tagged(<<e>>, "prompt") /\ Before(session, <<e>>)
    BY <1>2, <1>3, <1>4 DEF Ordered, Tagged, Before
<1>6. \A s, q : q \in Queues /\ Tagged(s, q) => Before(<<e>>, s)
    BY <1>5, OtherTag DEF Queues
<1>7. caller # NoCaller => caller.q \in Queues
    BY DEF MessageInv, UpdateInv
<1>. QED BY <1>1, <1>5, <1>6, <1>7 DEF OrderInv

LEMMA EnqueueLoadOrder ==
    ASSUME TypeOK, MessageInv, OrderInv, NEW q \in Queues, EnqueueLoad(q)
    PROVE  OrderInv'
<1> DEFINE e == user(sent + 1, q)
<1>0. /\ queue[q] \in Seq(UserMessage)
      /\ Ordered(queue[q]) /\ Tagged(queue[q], q) /\ Before(session, queue[q]) /\ Before(todo, queue[q])
    BY DEF TypeOK, QueueTypeOK, OrderInv
<1>1. /\ caller' = [q |-> q, seen |-> Append(queue[q], e)]
      /\ UNCHANGED <<queue, session, todo, pc, draining>>
    BY DEF EnqueueLoad, loopVars
<1>2. e.of = sent + 1 /\ e.tag = q
    BY DEF user
<1> HIDE DEF e
<1>3. /\ \A i \in DOMAIN session : session[i].role = "user" => session[i].of < e.of
      /\ \A i \in DOMAIN todo : todo[i].of < e.of
      /\ \A i \in DOMAIN queue[q] : queue[q][i].of < e.of
    BY <1>2, NewerThanAll DEF TypeOK, MessageInv
<1>4. /\ Ordered(Append(queue[q], e)) /\ Tagged(Append(queue[q], e), q)
      /\ Before(session, Append(queue[q], e)) /\ Before(todo, Append(queue[q], e))
    BY <1>0, <1>2, <1>3, AppendOrder
<1>5. caller'.q = q /\ caller'.seen = Append(queue[q], e)
    BY <1>1
<1>. QED BY <1>1, <1>4, <1>5 DEF OrderInv

LEMMA EnqueueStoreOrder ==
    ASSUME TypeOK, MessageInv, OrderInv, EnqueueStore
    PROVE  OrderInv'
<1>1. /\ caller # NoCaller /\ caller' = NoCaller /\ queue' = [queue EXCEPT ![caller.q] = caller.seen]
      /\ UNCHANGED <<session, todo, pc, draining>>
    BY DEF EnqueueStore, loopVars
<1>2. queue \in [Queues -> Seq(UserMessage)] /\ caller.q \in Queues
    BY <1>1 DEF TypeOK, QueueTypeOK, MessageInv, UpdateInv
<1>3. \A q \in Queues : queue'[q] = IF q = caller.q THEN caller.seen ELSE queue[q]
    BY <1>1, <1>2
<1>. QED BY <1>1, <1>3 DEF OrderInv

LEMMA TakeNextTurnOrder ==
    ASSUME ~Racy, TypeOK, MessageInv, OrderInv, TakeNextTurn
    PROVE  OrderInv'
<1> DEFINE s == queue["nextTurn"]
<1>0. /\ queue \in [Queues -> Seq(UserMessage)] /\ todo \in Seq(UserMessage)
      /\ Ordered(session) /\ Ordered(todo) /\ Before(session, todo)
      /\ \A q \in Queues : /\ Tagged(queue[q], q) /\ Ordered(queue[q])
                           /\ Before(session, queue[q]) /\ Before(todo, queue[q])
    BY OrderParts DEF TypeOK
<1>1. /\ pc = "nextTurn" /\ pc' = "prompts" /\ caller' = NoCaller
      /\ todo' = s \o todo /\ queue' = [queue EXCEPT !["nextTurn"] = <<>>] /\ UNCHANGED session
    BY DEF TakeNextTurn, QueueFree, otherVars
<1>2. "nextTurn" \in Queues /\ s \in Seq(UserMessage)
    BY <1>0 DEF Queues
<1>3. Tagged(todo, "prompt") /\ Tagged(s, "nextTurn")
    BY <1>0, <1>1, <1>2 DEF OrderInv
<1> HIDE DEF s
<1>4. Before(s, todo) /\ Ordered(s) /\ Before(session, s)
    BY <1>0, <1>2, <1>3, OtherTag DEF s
<1>5. Ordered(todo') /\ Before(session, todo')
    BY <1>0, <1>1, <1>2, <1>4, ConcatOrder
<1>6. ASSUME NEW q \in Queues
      PROVE  /\ Tagged(queue'[q], q) /\ Ordered(queue'[q])
             /\ Before(session, queue'[q]) /\ Before(todo', queue'[q])
    <2>1. CASE q = "nextTurn"
        <3>1. queue'[q] = <<>>
            BY <1>0, <1>1, <2>1
        <3>. QED BY <3>1, EmptyOrder
    <2>2. CASE q # "nextTurn"
        <3>1. queue'[q] = queue[q]
            BY <1>0, <1>1, <2>2
        <3>2. Before(s, queue[q])
            BY <1>0, <1>3, <2>2, OtherTag
        <3>3. Before(s \o todo, queue[q])
            BY <1>0, <1>2, <1>4, <3>2, ConcatOrder
        <3>. QED BY <1>0, <1>1, <3>1, <3>3
    <2>. QED BY <2>1, <2>2
<1>. QED BY <1>0, <1>1, <1>5, <1>6, OrderWithoutCaller

LEMMA AppendTodoOrder ==
    ASSUME TypeOK, OrderInv, AppendTodo
    PROVE  OrderInv'
<1> DEFINE e == Head(todo)
<1>0. /\ queue \in [Queues -> Seq(UserMessage)] /\ todo \in Seq(UserMessage)
      /\ session \in Seq(Entry)
      /\ Ordered(session) /\ Ordered(todo) /\ Before(session, todo)
    BY OrderParts DEF TypeOK
<1>1. /\ todo # <<>> /\ session' = Append(session, e) /\ todo' = Tail(todo)
      /\ pc' \notin {"idle", "begin", "context", "nextTurn", "drained"}
      /\ UNCHANGED <<queue, caller>>
    BY DEF AppendTodo, otherVars
<1>2. 1 \in DOMAIN todo /\ todo[1] = e /\ e.role = "user"
    <2>1. 1 \in DOMAIN todo /\ todo[1] = e /\ e \in UserMessage
        BY <1>0, <1>1
    <2>. QED BY <2>1 DEF UserMessage
<1>3. /\ Ordered(todo') /\ \A r : Before(todo, r) => Before(todo', r)
      /\ Before(session, todo')
      /\ \A j \in DOMAIN todo' : e.tag = todo'[j].tag => e.of < todo'[j].of
    BY <1>0, <1>1, TailOrder
<1> HIDE DEF e
<1>4. \A i \in DOMAIN session : session[i].role = "user" /\ session[i].tag = e.tag => session[i].of < e.of
    BY <1>0, <1>2 DEF Before
<1>5. Ordered(session') /\ Before(session', todo')
    BY <1>0, <1>1, <1>3, <1>4, AppendOrder
<1>6. ASSUME NEW r, Before(session, r), Before(todo, r)  PROVE Before(session', r)
    <2>1. \A j \in DOMAIN r : e.tag = r[j].tag => e.of < r[j].of
        BY <1>2, <1>6 DEF Before
    <2>. QED BY <1>0, <1>1, <1>6, <2>1, AppendOrder
<1>. QED BY <1>1, <1>3, <1>5, <1>6 DEF OrderInv

LEMMA DrainStoreOrder ==
    ASSUME TypeOK, DrainInv, MessageInv, OrderInv, DrainStore
    PROVE  OrderInv'
<1> DEFINE s == queue[draining]
<1>0. /\ queue \in [Queues -> Seq(UserMessage)] /\ draining \in Queues
      /\ Ordered(session)
      /\ \A q \in Queues : /\ Tagged(queue[q], q) /\ Ordered(queue[q])
                           /\ Before(session, queue[q]) /\ Before(todo, queue[q])
    BY OrderParts DEF TypeOK, LoopTypeOK, Queues
<1>1. /\ pc = "drainStore" /\ pc' = "drained" /\ draining' = draining /\ UNCHANGED <<session, caller>>
      /\ caller = NoCaller /\ snapshot = s
    BY DEF DrainStore, otherVars, MessageInv, UpdateInv
<1>2. PICK n \in 0 .. Len(s) : /\ todo' = SubSeq(s, 1, n)
                               /\ queue' = [queue EXCEPT ![draining] = SubSeq(s, n + 1, Len(s))]
    <2>1. s # <<>> /\ s \in Seq(UserMessage)
        BY <1>0, <1>1 DEF DrainStore, DrainInv
    <2>2. Len(s) \in 0 .. Len(s) /\ 1 \in 0 .. Len(s)
        BY <2>1
    <2>. QED BY <1>1, <2>2 DEF DrainStore
<1>3. s \in Seq(UserMessage) /\ Ordered(s) /\ Tagged(s, draining) /\ Before(session, s)
    BY <1>0
<1>4. PICK a, b : a = SubSeq(s, 1, n) /\ b = SubSeq(s, n + 1, Len(s))
    OBVIOUS
<1> HIDE DEF s
<1>5. /\ Ordered(a) /\ Ordered(b) /\ Before(a, b) /\ Tagged(a, draining) /\ Tagged(b, draining)
      /\ Before(session, a) /\ Before(session, b)
    BY <1>3, <1>4, CutOrder
<1>6. \A q \in Queues : queue'[q] = IF q = draining THEN b ELSE queue[q]
    BY <1>0, <1>2, <1>4
<1>7. \A q \in Queues : q # draining => Before(a, queue[q])
    BY <1>0, <1>5, OtherTag
<1>. QED BY <1>0, <1>1, <1>2, <1>4, <1>5, <1>6, <1>7 DEF OrderInv

LEMMA DrainFailsOrder ==
    ASSUME ~Racy, TypeOK, OrderInv, DrainFails
    PROVE  OrderInv'
<1> DEFINE s == queue[draining]
<1>0. /\ queue \in [Queues -> Seq(UserMessage)] /\ draining \in Queues /\ todo \in Seq(UserMessage)
      /\ Ordered(session) /\ Ordered(todo) /\ Before(session, todo)
      /\ \A q \in Queues : /\ Tagged(queue[q], q) /\ Ordered(queue[q])
                           /\ Before(session, queue[q]) /\ Before(todo, queue[q])
    BY OrderParts DEF TypeOK, LoopTypeOK, Queues
<1>1. /\ pc = "drained" /\ pc' = "unwind" /\ caller' = NoCaller /\ UNCHANGED session
      /\ todo' = <<>> /\ queue' = [queue EXCEPT ![draining] = todo \o s]
    BY DEF DrainFails, QueueFree, otherVars
<1>2. Tagged(todo, draining)
    BY <1>1 DEF OrderInv
<1>3. s \in Seq(UserMessage) /\ Ordered(s) /\ Tagged(s, draining) /\ Before(session, s) /\ Before(todo, s)
    BY <1>0
<1> HIDE DEF s
<1>4. PICK u : u = todo \o s
    OBVIOUS
<1>5. Ordered(u) /\ Tagged(u, draining) /\ Before(session, u)
    BY <1>0, <1>2, <1>3, <1>4, ConcatOrder
<1>6. \A q \in Queues : queue'[q] = IF q = draining THEN u ELSE queue[q]
    BY <1>0, <1>1, <1>4
<1>. QED BY <1>0, <1>1, <1>5, <1>6, EmptyOrder, OrderWithoutCaller

LEMMA FailuresOrder ==
    ASSUME TypeOK, OrderInv, BeginFails \/ WriteFails
    PROVE  OrderInv'
<1>0. queue \in [Queues -> Seq(UserMessage)]
    BY DEF TypeOK, QueueTypeOK
<1>1. /\ pc' \in {"finish", "unwind"} /\ todo' = <<>> /\ UNCHANGED <<session, caller>>
      /\ queue' = queue \/ (queue' = [queue EXCEPT !["nextTurn"] = <<>>])
    BY DEF BeginFails, WriteFails, Finish, LoopError, otherVars
<1>2. \A q \in Queues : queue'[q] = queue[q] \/ queue'[q] = <<>>
    BY <1>0, <1>1
<1>3. \A q \in Queues : /\ Tagged(queue'[q], q) /\ Ordered(queue'[q])
                        /\ Before(session, queue'[q])
    BY <1>2, EmptyOrder DEF OrderInv
<1>. QED BY <1>1, <1>3, EmptyOrder DEF OrderInv

LEMMA AbortClearOrder ==
    ASSUME TypeOK, OrderInv, AbortClear
    PROVE  OrderInv'
<1>0. queue \in [Queues -> Seq(UserMessage)]
    BY DEF TypeOK, QueueTypeOK
<1>1. /\ queue' = [queue EXCEPT !["steer"] = <<>>, !["followUp"] = <<>>]
      /\ UNCHANGED <<session, caller, todo, pc, draining>>
    BY DEF AbortClear, AbortVars, loopVars
<1>2. \A q \in Queues : queue'[q] = queue[q] \/ queue'[q] = <<>>
    BY <1>0, <1>1
<1>3. \A q \in Queues : /\ Tagged(queue'[q], q) /\ Ordered(queue'[q])
                        /\ Before(session, queue'[q]) /\ Before(todo, queue'[q])
    BY <1>2, EmptyOrder DEF OrderInv
<1>. QED BY <1>1, <1>3 DEF OrderInv

LEMMA StepOrderInv ==
    ASSUME ~Racy, IInv, MessageInv, OrderInv, Next
    PROVE  OrderInv'
<1>1. TypeOK /\ DrainInv /\ TakenInv
    BY DEF IInv, MessageInv
<1>. QED BY <1>1, OrderMovers, OrderQuietKeeps, PromptOrder, EnqueueLoadOrder, EnqueueStoreOrder,
            TakeNextTurnOrder, AppendTodoOrder, DrainStoreOrder, DrainFailsOrder, FailuresOrder,
            AbortClearOrder

\* Messages that came in by one way reach the session in the order they came in
\* (agent_harness.go, drainQueue).
THEOREM QueuesAreFIFO == ASSUME ~Racy PROVE Spec => []QueueOrder
<1>1. Init => OrderInv
    <2>. SUFFICES ASSUME Init PROVE OrderInv
        OBVIOUS
    <2>1. /\ queue = [q \in Queues |-> <<>>] /\ todo = <<>> /\ session = <<>> /\ caller = NoCaller
        BY DEF Init
    <2>. QED BY <2>1, EmptyOrder DEF OrderInv
<1>2. IInv /\ MessageInv /\ OrderInv /\ [Next]_vars => OrderInv'
    <2>1. OrderInv /\ UNCHANGED vars => OrderInv'
        BY DEF OrderInv, vars, otherVars, loopVars
    <2>. QED BY <2>1, StepOrderInv
<1>3. TypeOK /\ OrderInv => QueueOrder
    <2>. SUFFICES ASSUME TypeOK, OrderInv, NEW i \in DOMAIN session, NEW j \in DOMAIN session,
                         i < j, {session[i].role, session[j].role} = {"user"},
                         session[i].tag = session[j].tag
                  PROVE  session[i].of < session[j].of
        BY DEF QueueOrder
    <2>1. session[i].role = "user" /\ session[j].role = "user"
        OBVIOUS
    <2>. QED BY <2>1 DEF OrderInv, Ordered
<1>. QED BY <1>1, <1>2, <1>3, MessagesAreSound, InductiveInvariant, PTL DEF Spec
=============================================================================
