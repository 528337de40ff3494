------------------------ MODULE ActiveStreamsProofs ------------------------
(* What holds of a room's answers and the recovery of their records for     *)
(* any number of answers, of tool calls, and of crashes and aborts.         *)
EXTENDS ActiveStreams, TLAPS

-----------------------------------------------------------------------------
(* The inductive invariant. *)

\* A run that may still append to the session, and one that streams no more.
Answering == {"none", "anchor", "anchored", "streaming", "message", "tools"}
Over == {"failEdit", "failDelete", "idle", "ended", "dead"}
Working == {"anchored", "streaming", "message", "tools", "finalEdit", "finalDelete"}
Steps == Answering \union Over \union Working

Outcomes == {"none", "toolUse", "stop", "error"}
Edits == {"none", "done", "error", "overtaken", "interrupted"}
Record == [stored : {TRUE}, status : {"streaming", "complete", "error"}, entry : Nat, calls : SUBSET Nat]
Entries == [role : {"user", "assistant", "toolUse", "error", "result"}, run : Runs, turn : Nat]
  \union [role : {"recovered"}, run : Runs, turn : {0}, cause : {"restart", "timeout", "none"}]
RecoveryFields == {"at", "cause", "todo", "rows", "live", "cur", "open"}

\* The recovery has still to finish r.
Pending(r) == recovery.at # "idle" /\ (r \in recovery.todo \/ Recovering(r))

TypeInv ==
  /\ at \in [Runs -> Steps] /\ turn \in [Runs -> Nat] /\ calls \in [Runs -> SUBSET Nat]
  /\ entryOf \in [Runs -> Nat] /\ outcome \in [Runs -> Outcomes]
  /\ held \in [Runs -> BOOLEAN] /\ cancelled \in [Runs -> BOOLEAN] /\ activeRun \in Runs \union {0}
  /\ session \in Seq(Entries)
  /\ record \in [Runs -> {NoRecord} \union Record]
  /\ edit \in [Runs -> Edits]
  /\ DOMAIN recovery = RecoveryFields
  /\ recovery.at \in {"idle", "next", "check", "results", "edit"}
  /\ recovery.cause \in {"restart", "timeout", "none"}
  /\ recovery.todo \subseteq Runs /\ recovery.cur \in Runs \union {0} /\ recovery.open \subseteq Nat
  /\ recovery.at \in {"check", "results", "edit"} => recovery.cur \in Runs
  /\ \A r \in Runs : Pending(r) => recovery.rows[r] \in Record

\* Only the room's active run works, and it knows its stream.
ActiveInv == \A r \in Runs :
  /\ at[r] \notin Over \union {"none"} => activeRun = r
  /\ at[r] \in Working => held[r]

\* Recovery finishes runs that stream no more, and none without a record.
ListInv == \A r \in Runs :
  /\ at[r] \in {"none", "anchor"} => ~record[r].stored /\ ~Pending(r)
  /\ Recovering(r) => at[r] \in Over

\* The entry a run or a record names is a message of the run that calls tools.
EntryOK(e, r) == e # 0 => e \in DOMAIN session /\ IsCall(e, r)
EntryInv == \A r \in Runs :
  /\ at[r] \in Answering => EntryOK(entryOf[r], r)
  /\ record[r].stored => EntryOK(record[r].entry, r)
  /\ Pending(r) => EntryOK(recovery.rows[r].entry, r)

\* A run has answered the calls of its earlier turns; what a recovery is about to
\* answer has been answered before a later message of the run at most.
ResultInv ==
  /\ \A r \in Runs : at[r] \in Answering =>
       \A i \in DOMAIN session : session[i].role = "result" /\ session[i].run = r =>
         at[r] # "none" /\ session[i].turn < turn[r]
  /\ recovery.at = "results" => \A c \in recovery.open : \A i \in DOMAIN session :
       IsResult(i, recovery.cur, c) => \E k \in DOMAIN session : k > i /\ IsCall(k, recovery.cur)

\* The stream of the run has ended.
PastStream(r) == at[r] \in {"finalEdit", "finalDelete"} \union Over \/ (at[r] = "message" /\ outcome[r] = "stop")

\* Whose stream was complete has no record that says otherwise; what a recovery
\* takes for interrupted was so when the records were listed.
EndInv == \A r \in Runs :
  /\ at[r] = "message" => outcome[r] # "none"
  /\ at[r] = "finalEdit" => outcome[r] \in {"stop", "error"}
  /\ at[r] \in {"message", "finalEdit"} /\ outcome[r] = "stop" =>
       (record[r].stored => record[r].status = "complete")
  /\ record[r].stored /\ record[r].status = "complete" => PastStream(r)
  /\ edit[r] = "done" => PastStream(r) /\ (record[r].stored => record[r].status = "complete")
  /\ Pending(r) /\ recovery.rows[r].status = "complete" =>
       PastStream(r) /\ (record[r].stored => record[r].status = "complete")
  /\ Pending(r) /\ recovery.rows[r].status = "streaming" /\ r \notin recovery.live =>
       at[r] \in {"ended", "dead"} /\ edit[r] # "done"

IInv == TypeInv /\ ActiveInv /\ ListInv /\ EntryInv /\ ResultInv /\ EndInv /\ LastCallsAreAnsweredOnce

-----------------------------------------------------------------------------
(* The session only grows. *)

LEMMA Grown ==
  ASSUME TypeInv, NEW e \in Entries, session' = Append(session, e)
  PROVE  /\ session' \in Seq(Entries)
         /\ DOMAIN session = 1..Len(session) /\ Len(session) \in Nat
         /\ Len(session') = Len(session) + 1 /\ DOMAIN session' = 1..(Len(session) + 1)
         /\ \A i \in DOMAIN session : session'[i] = session[i]
         /\ session'[Len(session) + 1] = e
BY DEF TypeInv

LEMMA EntriesHaveRoles ==
  ASSUME TypeInv, NEW i \in DOMAIN session
  PROVE  session[i] \in Entries
BY DEF TypeInv

\* A step that appends at most one entry to the session.
Grows == session' = session \/ \E e \in Entries : session' = Append(session, e)

LEMMA EntriesStay ==
  ASSUME TypeInv, Grows
  PROVE  /\ session' \in Seq(Entries)
         /\ DOMAIN session \subseteq DOMAIN session' /\ DOMAIN session' \subseteq Nat
         /\ \A i \in DOMAIN session : session'[i] = session[i]
<1>1. CASE session' = session  BY <1>1 DEF TypeInv
<1>2. ASSUME NEW e \in Entries, session' = Append(session, e)
      PROVE  /\ session' \in Seq(Entries)
             /\ DOMAIN session \subseteq DOMAIN session' /\ DOMAIN session' \subseteq Nat
             /\ \A i \in DOMAIN session : session'[i] = session[i]
    BY <1>2, Grown
<1> QED  BY <1>1, <1>2 DEF Grows

LEMMA NamedEntriesStay ==
  ASSUME TypeInv, Grows
  PROVE  \A e \in Nat, r \in Runs : EntryOK(e, r) => EntryOK(e, r)'
BY EntriesStay DEF EntryOK, IsCall

\* An entry that is no result, or one of a call that was not answered since the
\* run's last message, keeps the answers of a session single.
LEMMA AnswersStaySingle ==
  ASSUME TypeInv, LastCallsAreAnsweredOnce, NEW e \in Entries, session' = Append(session, e),
         e.role = "result" =>
           \A i \in DOMAIN session : IsResult(i, e.run, e.turn) =>
             \E k \in DOMAIN session : k > i /\ IsCall(k, e.run)
  PROVE  LastCallsAreAnsweredOnce'
<1> DEFINE last == Len(session) + 1
<1>1. /\ DOMAIN session = 1..Len(session) /\ Len(session) \in Nat /\ DOMAIN session' = 1..last
      /\ \A i \in DOMAIN session : session'[i] = session[i]
      /\ session'[last] = e
    BY Grown
<1>2. SUFFICES ASSUME NEW i \in DOMAIN session', NEW j \in DOMAIN session', i < j, SameResult(i, j)'
               PROVE  (\E k \in i..j : IsCall(k, session[i].run))'
    BY DEF LastCallsAreAnsweredOnce
<1>3. i \in DOMAIN session /\ i \in Nat /\ j \in Nat /\ session'[i] = session[i]  BY <1>1, <1>2
<1>4. CASE j # last
  <2>1. j \in DOMAIN session /\ session'[j] = session[j]  BY <1>1, <1>2, <1>4
  <2>2. SameResult(i, j)  BY <1>2, <1>3, <2>1 DEF SameResult, IsResult
  <2>3. PICK k \in i..j : IsCall(k, session[i].run)
      BY <1>2, <1>3, <2>1, <2>2 DEF LastCallsAreAnsweredOnce
  <2>4. k \in DOMAIN session  BY <1>1, <1>3, <2>1
  <2> QED  BY <1>1, <1>3, <2>3, <2>4 DEF IsCall
<1>5. CASE j = last
  <2>1. e.role = "result" /\ e.run = session[i].run /\ IsResult(i, e.run, e.turn)
      BY <1>1, <1>2, <1>3, <1>5 DEF SameResult, IsResult
  <2>2. PICK k \in DOMAIN session : k > i /\ IsCall(k, e.run)  BY <1>3, <2>1
  <2>3. k \in i..j /\ session'[k] = session[k]  BY <1>1, <1>3, <1>5, <2>2
  <2> QED  BY <1>3, <2>1, <2>2, <2>3 DEF IsCall
<1> QED  BY <1>4, <1>5

\* The results of a run that still answers, and what a recovery is to answer.
Results(r) == \A i \in DOMAIN session :
  session[i].role = "result" /\ session[i].run = r => at[r] # "none" /\ session[i].turn < turn[r]
Answerable(c) == \A i \in DOMAIN session :
  IsResult(i, recovery.cur, c) => \E k \in DOMAIN session : k > i /\ IsCall(k, recovery.cur)

LEMMA ResultsOf ==
  ResultInv <=> /\ \A r \in Runs : at[r] \in Answering => Results(r)
                /\ recovery.at = "results" => \A c \in recovery.open : Answerable(c)
BY DEF ResultInv, Results, Answerable

-----------------------------------------------------------------------------
(* The steps of a run that leave the session and the recovery alone. *)

LEMMA RecordsAreTyped ==
  ASSUME TypeInv, NEW r \in Runs, NEW status \in {"streaming", "complete", "error"},
         UNCHANGED calls, Persist(r, status)
  PROVE  /\ record' \in [Runs -> {NoRecord} \union Record]
         /\ UNCHANGED record \/ record' = [record EXCEPT ![r] = Stored(r, status)]
         /\ Stored(r, status) \in Record
<1>1. entryOf[r] \in Nat /\ calls'[r] \in SUBSET Nat  BY DEF TypeInv
<1>2. Stored(r, status) \in Record  BY <1>1 DEF Stored, Record
<1> HIDE DEF Stored
<1>3. UNCHANGED record \/ record' = [record EXCEPT ![r] = Stored(r, status)]  BY DEF Persist
<1> QED  BY <1>2, <1>3 DEF TypeInv

LEMMA NoRecordIsTyped ==
  ASSUME TypeInv, NEW r \in Runs, record' = [record EXCEPT ![r] = NoRecord]
  PROVE  record' \in [Runs -> {NoRecord} \union Record]
BY DEF TypeInv

LEMMA AnchorStep ==
  ASSUME IInv, NEW r \in Runs, Anchor(r)
  PROVE  IInv'
<1>1. UNCHANGED <<session, recovery>>  BY DEF Anchor
<1>2. TypeInv /\ ActiveInv /\ ListInv /\ EntryInv /\ ResultInv /\ EndInv /\ LastCallsAreAnsweredOnce
    BY DEF IInv
<1>3. TypeInv'
    BY <1>1, <1>2 DEF Anchor, TypeInv, Pending, Recovering, Steps, Answering, Over, Working,
           Outcomes, Edits, Record
<1>4. ActiveInv'
    BY <1>2 DEF Anchor, TypeInv, ActiveInv, Over, Working
<1>5. ListInv'
    BY <1>1, <1>2 DEF Anchor, TypeInv, ListInv, Pending, Recovering, Over, NoRecord, Record
<1>6. EntryInv'
    BY <1>1, <1>2 DEF Anchor, TypeInv, EntryInv, EntryOK, IsCall, Pending, Recovering, Answering,
           NoRecord, Record
<1>7. ResultInv'
    BY <1>1, <1>2 DEF Anchor, TypeInv, ResultInv, IsResult, IsCall, Answering
<1>8. EndInv'
    BY <1>1, <1>2 DEF Anchor, TypeInv, ActiveInv, EndInv, PastStream, Pending, Recovering, Over,
           NoRecord, Record, Outcomes
<1>9. LastCallsAreAnsweredOnce'
    BY <1>1, <1>2 DEF LastCallsAreAnsweredOnce, SameResult, IsResult, IsCall
<1> QED  BY <1>3, <1>4, <1>5, <1>6, <1>7, <1>8, <1>9 DEF IInv

LEMMA PublishStep ==
  ASSUME IInv, NEW r \in Runs, Publish(r)
  PROVE  IInv'
<1>1. UNCHANGED <<session, recovery>>  BY DEF Publish
<1>2. TypeInv /\ ActiveInv /\ ListInv /\ EntryInv /\ ResultInv /\ EndInv /\ LastCallsAreAnsweredOnce
    BY DEF IInv
<1>3. TypeInv'
  <2>1. record' \in [Runs -> {NoRecord} \union Record]
      BY <1>2, RecordsAreTyped DEF Publish
  <2> QED
      BY <1>1, <1>2, <2>1 DEF Publish, TypeInv, Pending, Recovering, Steps, Answering, Over,
             Working, Outcomes, Edits
<1>4. ActiveInv'
    BY <1>2 DEF Publish, TypeInv, ActiveInv, Over, Working
<1>5. ListInv'
    BY <1>1, <1>2 DEF Publish, Persist, Stored, TypeInv, ListInv, Pending, Recovering, Over,
           NoRecord, Record
<1>6. EntryInv'
    BY <1>1, <1>2 DEF Publish, Persist, Stored, TypeInv, EntryInv, EntryOK, IsCall, Pending,
           Recovering, Answering, NoRecord, Record
<1>7. ResultInv'
    BY <1>1, <1>2 DEF Publish, TypeInv, ResultInv, IsResult, IsCall, Answering
<1>8. EndInv'
    BY <1>1, <1>2 DEF Publish, Persist, Stored, TypeInv, ActiveInv, EndInv, PastStream, Pending,
           Recovering, Over, NoRecord, Record, Outcomes
<1>9. LastCallsAreAnsweredOnce'
    BY <1>1, <1>2 DEF LastCallsAreAnsweredOnce, SameResult, IsResult, IsCall
<1> QED  BY <1>3, <1>4, <1>5, <1>6, <1>7, <1>8, <1>9 DEF IInv

LEMMA StreamToolCallStep ==
  ASSUME IInv, NEW r \in Runs, StreamToolCall(r)
  PROVE  IInv'
<1>1. UNCHANGED <<session, recovery>>  BY DEF StreamToolCall
<1>2. TypeInv /\ ActiveInv /\ ListInv /\ EntryInv /\ ResultInv /\ EndInv /\ LastCallsAreAnsweredOnce
    BY DEF IInv
<1>3. TypeInv'
  <2>1. calls[r] \in SUBSET Nat /\ turn[r] \in Nat  BY <1>2 DEF TypeInv
  <2>2. calls' \in [Runs -> SUBSET Nat]  BY <1>2, <2>1 DEF StreamToolCall, TypeInv
  <2> QED
      BY <1>1, <1>2, <2>2 DEF StreamToolCall, TypeInv, Pending, Recovering
<1>4. ActiveInv'
    BY <1>2 DEF StreamToolCall, TypeInv, ActiveInv, Over, Working
<1>5. ListInv'
    BY <1>1, <1>2 DEF StreamToolCall, TypeInv, ListInv, Pending, Recovering, Over, NoRecord, Record
<1>6. EntryInv'
    BY <1>1, <1>2 DEF StreamToolCall, TypeInv, EntryInv, EntryOK, IsCall, Pending, Recovering,
           Answering, NoRecord, Record
<1>7. ResultInv'
    BY <1>1, <1>2 DEF StreamToolCall, TypeInv, ResultInv, IsResult, IsCall, Answering
<1>8. EndInv'
    BY <1>1, <1>2 DEF StreamToolCall, TypeInv, ActiveInv, EndInv, PastStream, Pending,
           Recovering, Over, NoRecord, Record, Outcomes
<1>9. LastCallsAreAnsweredOnce'
    BY <1>1, <1>2 DEF LastCallsAreAnsweredOnce, SameResult, IsResult, IsCall
<1> QED  BY <1>3, <1>4, <1>5, <1>6, <1>7, <1>8, <1>9 DEF IInv

LEMMA StreamEndStep ==
  ASSUME IInv, NEW r \in Runs, StreamEnd(r)
  PROVE  IInv'
<1>1. UNCHANGED <<session, recovery>>  BY DEF StreamEnd
<1>2. TypeInv /\ ActiveInv /\ ListInv /\ EntryInv /\ ResultInv /\ EndInv /\ LastCallsAreAnsweredOnce
    BY DEF IInv
<1>3. TypeInv'
  <2>1. record' \in [Runs -> {NoRecord} \union Record]
      BY <1>2, RecordsAreTyped DEF StreamEnd, TypeInv
  <2> QED
      BY <1>1, <1>2, <2>1 DEF StreamEnd, TypeInv, Pending, Recovering, Steps, Answering, Over,
             Working, Outcomes, Edits
<1>4. ActiveInv'
    BY <1>2 DEF StreamEnd, TypeInv, ActiveInv, Over, Working
<1>5. ListInv'
    BY <1>1, <1>2 DEF StreamEnd, Persist, Stored, TypeInv, ListInv, Pending, Recovering, Over,
           NoRecord, Record
<1>6. EntryInv'
    BY <1>1, <1>2 DEF StreamEnd, Persist, Stored, TypeInv, EntryInv, EntryOK, IsCall, Pending,
           Recovering, Answering, NoRecord, Record
<1>7. ResultInv'
    BY <1>1, <1>2 DEF StreamEnd, TypeInv, ResultInv, IsResult, IsCall, Answering
<1>8. EndInv'
    BY <1>1, <1>2 DEF StreamEnd, Persist, Stored, TypeInv, ActiveInv, EndInv, PastStream,
           Pending, Recovering, Over, NoRecord, Record, Outcomes
<1>9. LastCallsAreAnsweredOnce'
    BY <1>1, <1>2 DEF LastCallsAreAnsweredOnce, SameResult, IsResult, IsCall
<1> QED  BY <1>3, <1>4, <1>5, <1>6, <1>7, <1>8, <1>9 DEF IInv

LEMMA StreamFailsStep ==
  ASSUME IInv, NEW r \in Runs, StreamFails(r)
  PROVE  IInv'
<1>1. UNCHANGED <<session, recovery>>  BY DEF StreamFails
<1>2. TypeInv /\ ActiveInv /\ ListInv /\ EntryInv /\ ResultInv /\ EndInv /\ LastCallsAreAnsweredOnce
    BY DEF IInv
<1>3. TypeInv'
  <2>1. record' \in [Runs -> {NoRecord} \union Record]
      BY <1>2, RecordsAreTyped DEF StreamFails, TypeInv
  <2> QED
      BY <1>1, <1>2, <2>1 DEF StreamFails, TypeInv, Pending, Recovering, Steps, Answering, Over,
             Working, Outcomes, Edits
<1>4. ActiveInv'
    BY <1>2 DEF StreamFails, TypeInv, ActiveInv, Over, Working
<1>5. ListInv'
    BY <1>1, <1>2 DEF StreamFails, Persist, Stored, TypeInv, ListInv, Pending, Recovering, Over,
           NoRecord, Record
<1>6. EntryInv'
    BY <1>1, <1>2 DEF StreamFails, Persist, Stored, TypeInv, EntryInv, EntryOK, IsCall, Pending,
           Recovering, Answering, NoRecord, Record
<1>7. ResultInv'
    BY <1>1, <1>2 DEF StreamFails, TypeInv, ResultInv, IsResult, IsCall, Answering
<1>8. EndInv'
    BY <1>1, <1>2 DEF StreamFails, Persist, Stored, TypeInv, ActiveInv, EndInv, PastStream,
           Pending, Recovering, Over, NoRecord, Record, Outcomes
<1>9. LastCallsAreAnsweredOnce'
    BY <1>1, <1>2 DEF LastCallsAreAnsweredOnce, SameResult, IsResult, IsCall
<1> QED  BY <1>3, <1>4, <1>5, <1>6, <1>7, <1>8, <1>9 DEF IInv

LEMMA PromptFailsStep ==
  ASSUME IInv, NEW r \in Runs, PromptFails(r)
  PROVE  IInv'
<1>1. UNCHANGED <<session, recovery>>  BY DEF PromptFails
<1>2. TypeInv /\ ActiveInv /\ ListInv /\ EntryInv /\ ResultInv /\ EndInv /\ LastCallsAreAnsweredOnce
    BY DEF IInv
<1>3. TypeInv'
    BY <1>1, <1>2 DEF PromptFails, TypeInv, Pending, Recovering, Steps, Answering, Over, Working,
           Outcomes, Edits, Record
<1>4. ActiveInv'
    BY <1>2 DEF PromptFails, TypeInv, ActiveInv, Over, Working
<1>5. ListInv'
    BY <1>1, <1>2 DEF PromptFails, TypeInv, ListInv, Pending, Recovering, Over, NoRecord, Record
<1>6. EntryInv'
    BY <1>1, <1>2 DEF PromptFails, TypeInv, EntryInv, EntryOK, IsCall, Pending, Recovering,
           Answering, NoRecord, Record
<1>7. ResultInv'
    BY <1>1, <1>2 DEF PromptFails, TypeInv, ResultInv, IsResult, IsCall, Answering
<1>8. EndInv'
    BY <1>1, <1>2 DEF PromptFails, TypeInv, ActiveInv, EndInv, PastStream, Pending, Recovering,
           Over, NoRecord, Record, Outcomes
<1>9. LastCallsAreAnsweredOnce'
    BY <1>1, <1>2 DEF LastCallsAreAnsweredOnce, SameResult, IsResult, IsCall
<1> QED  BY <1>3, <1>4, <1>5, <1>6, <1>7, <1>8, <1>9 DEF IInv

LEMMA FinalizeAssistantStep ==
  ASSUME IInv, NEW r \in Runs, FinalizeAssistant(r)
  PROVE  IInv'
<1>1. UNCHANGED <<session, recovery>>  BY DEF FinalizeAssistant
<1>2. TypeInv /\ ActiveInv /\ ListInv /\ EntryInv /\ ResultInv /\ EndInv /\ LastCallsAreAnsweredOnce
    BY DEF IInv
<1>a. PICK next \in {"finalDelete", "idle"} :
        /\ at[r] = "finalEdit" /\ at' = [at EXCEPT ![r] = next] /\ UNCHANGED <<turn, entryOf>>
        /\ UNCHANGED record \/ record' = [record EXCEPT ![r] = NoRecord]
    BY DEF FinalizeAssistant, Edited, AnchorMissing, Delete
<1>3. TypeInv'
  <2>1. record' \in [Runs -> {NoRecord} \union Record]
      BY <1>2, NoRecordIsTyped DEF FinalizeAssistant, Edited, AnchorMissing, Delete, TypeInv
  <2> QED
      BY <1>1, <1>2, <2>1 DEF FinalizeAssistant, Edited, AnchorMissing, TypeInv, Pending,
             Recovering, Steps, Answering, Over, Working, Outcomes, Edits
<1>4. ActiveInv'
    BY <1>2 DEF FinalizeAssistant, Edited, AnchorMissing, TypeInv, ActiveInv, Over, Working
<1>5. ListInv'
    BY <1>1, <1>2, <1>a DEF TypeInv, ListInv, Pending, Recovering, Over, NoRecord, Record
<1>6. EntryInv'
    BY <1>1, <1>2, <1>a DEF TypeInv, EntryInv, EntryOK, IsCall, Pending, Recovering, Answering,
           NoRecord, Record
<1>7. ResultInv'
    BY <1>1, <1>2, <1>a DEF TypeInv, ResultInv, IsResult, IsCall, Answering
<1>8. EndInv'
    BY <1>1, <1>2 DEF FinalizeAssistant, Edited, AnchorMissing, Delete, TypeInv, ActiveInv,
           EndInv, PastStream, Pending, Recovering, Over, NoRecord, Record, Outcomes
<1>9. LastCallsAreAnsweredOnce'
    BY <1>1, <1>2 DEF LastCallsAreAnsweredOnce, SameResult, IsResult, IsCall
<1> QED  BY <1>3, <1>4, <1>5, <1>6, <1>7, <1>8, <1>9 DEF IInv

LEMMA FailOpenAssistantStep ==
  ASSUME IInv, NEW r \in Runs, FailOpenAssistant(r)
  PROVE  IInv'
<1>1. UNCHANGED <<session, recovery>>  BY DEF FailOpenAssistant
<1>2. TypeInv /\ ActiveInv /\ ListInv /\ EntryInv /\ ResultInv /\ EndInv /\ LastCallsAreAnsweredOnce
    BY DEF IInv
<1>a. PICK next \in {"failDelete", "idle"} :
        /\ at[r] = "failEdit" /\ at' = [at EXCEPT ![r] = next] /\ UNCHANGED <<turn, entryOf>>
        /\ UNCHANGED record \/ record' = [record EXCEPT ![r] = NoRecord]
    BY DEF FailOpenAssistant, Edited, AnchorMissing, Delete
<1>3. TypeInv'
  <2>1. record' \in [Runs -> {NoRecord} \union Record]
      BY <1>2, NoRecordIsTyped DEF FailOpenAssistant, Edited, AnchorMissing, Delete, TypeInv
  <2> QED
      BY <1>1, <1>2, <2>1 DEF FailOpenAssistant, Edited, AnchorMissing, TypeInv, Pending,
             Recovering, Steps, Answering, Over, Working, Outcomes, Edits
<1>4. ActiveInv'
    BY <1>2 DEF FailOpenAssistant, Edited, AnchorMissing, TypeInv, ActiveInv, Over, Working
<1>5. ListInv'
    BY <1>1, <1>2, <1>a DEF TypeInv, ListInv, Pending, Recovering, Over, NoRecord, Record
<1>6. EntryInv'
    BY <1>1, <1>2, <1>a DEF TypeInv, EntryInv, EntryOK, IsCall, Pending, Recovering, Answering,
           NoRecord, Record
<1>7. ResultInv'
    BY <1>1, <1>2, <1>a DEF TypeInv, ResultInv, IsResult, IsCall, Answering
<1>8. EndInv'
    BY <1>1, <1>2 DEF FailOpenAssistant, Edited, AnchorMissing, Delete, TypeInv, ActiveInv,
           EndInv, PastStream, Pending, Recovering, Over, NoRecord, Record, Outcomes
<1>9. LastCallsAreAnsweredOnce'
    BY <1>1, <1>2 DEF LastCallsAreAnsweredOnce, SameResult, IsResult, IsCall
<1> QED  BY <1>3, <1>4, <1>5, <1>6, <1>7, <1>8, <1>9 DEF IInv

LEMMA DeleteActiveStreamStep ==
  ASSUME IInv, NEW r \in Runs, DeleteActiveStream(r)
  PROVE  IInv'
<1>1. UNCHANGED <<session, recovery>>  BY DEF DeleteActiveStream
<1>2. TypeInv /\ ActiveInv /\ ListInv /\ EntryInv /\ ResultInv /\ EndInv /\ LastCallsAreAnsweredOnce
    BY DEF IInv
<1>3. TypeInv'
  <2>1. record' \in [Runs -> {NoRecord} \union Record]
      BY <1>2, NoRecordIsTyped DEF DeleteActiveStream, Delete, TypeInv
  <2> QED
      BY <1>1, <1>2, <2>1 DEF DeleteActiveStream, TypeInv, Pending, Recovering, Steps, Answering,
             Over, Working
<1>4. ActiveInv'
    BY <1>2 DEF DeleteActiveStream, TypeInv, ActiveInv, Over, Working
<1>5. ListInv'
    BY <1>1, <1>2 DEF DeleteActiveStream, Delete, TypeInv, ListInv, Pending, Recovering, Over,
           NoRecord, Record
<1>6. EntryInv'
    BY <1>1, <1>2 DEF DeleteActiveStream, Delete, TypeInv, EntryInv, EntryOK, IsCall, Pending,
           Recovering, Answering, NoRecord, Record
<1>7. ResultInv'
    BY <1>1, <1>2 DEF DeleteActiveStream, TypeInv, ResultInv, IsResult, IsCall, Answering
<1>8. EndInv'
    BY <1>1, <1>2 DEF DeleteActiveStream, Delete, TypeInv, ActiveInv, EndInv, PastStream,
           Pending, Recovering, Over, NoRecord, Record, Outcomes
<1>9. LastCallsAreAnsweredOnce'
    BY <1>1, <1>2 DEF LastCallsAreAnsweredOnce, SameResult, IsResult, IsCall
<1> QED  BY <1>3, <1>4, <1>5, <1>6, <1>7, <1>8, <1>9 DEF IInv

LEMMA EndStep ==
  ASSUME IInv, NEW r \in Runs, End(r)
  PROVE  IInv'
<1>1. UNCHANGED <<session, recovery>>  BY DEF End
<1>2. TypeInv /\ ActiveInv /\ ListInv /\ EntryInv /\ ResultInv /\ EndInv /\ LastCallsAreAnsweredOnce
    BY DEF IInv
<1>3. TypeInv'
    BY <1>1, <1>2 DEF End, TypeInv, Pending, Recovering, Steps, Answering, Over, Working,
           Outcomes, Edits, Record
<1>4. ActiveInv'
    BY <1>2 DEF End, TypeInv, ActiveInv, Over, Working
<1>5. ListInv'
    BY <1>1, <1>2 DEF End, TypeInv, ListInv, Pending, Recovering, Over, NoRecord, Record
<1>6. EntryInv'
    BY <1>1, <1>2 DEF End, TypeInv, EntryInv, EntryOK, IsCall, Pending, Recovering, Answering,
           NoRecord, Record
<1>7. ResultInv'
    BY <1>1, <1>2 DEF End, TypeInv, ResultInv, IsResult, IsCall, Answering
<1>8. EndInv'
    BY <1>1, <1>2 DEF End, TypeInv, ActiveInv, EndInv, PastStream, Pending, Recovering, Over,
           NoRecord, Record, Outcomes
<1>9. LastCallsAreAnsweredOnce'
    BY <1>1, <1>2 DEF LastCallsAreAnsweredOnce, SameResult, IsResult, IsCall
<1> QED  BY <1>3, <1>4, <1>5, <1>6, <1>7, <1>8, <1>9 DEF IInv

(* The steps of a run that write to the session. *)

LEMMA EntriesAreTyped ==
  ASSUME TypeInv, NEW r \in Runs, NEW role \in {"user", "assistant", "toolUse", "error", "result"}
  PROVE  Entry(role, r) \in Entries
BY DEF TypeInv, Entry, Entries

\* Whose run did not change has the results it had, unless one was added.
LEMMA ResultsStay ==
  ASSUME TypeInv, NEW e \in Entries, session' = Append(session, e), NEW q \in Runs,
         at'[q] # "none", turn'[q] >= turn[q], turn'[q] \in Nat, Results(q),
         e.role = "result" /\ e.run = q => e.turn \in Nat /\ e.turn < turn'[q]
  PROVE  Results(q)'
<1>1. SUFFICES ASSUME NEW i \in DOMAIN session', session'[i].role = "result", session'[i].run = q
               PROVE  session'[i].turn < turn'[q]
    BY DEF Results
<1>2. CASE i \in DOMAIN session
  <2>1. session'[i] = session[i]  BY <1>2, Grown
  <2>2. session[i] \in Entries  BY <1>2, EntriesHaveRoles
  <2>3. session[i].turn \in Nat  BY <1>1, <2>1, <2>2 DEF Entries
  <2>4. session[i].turn < turn[q]  BY <1>1, <1>2, <2>1 DEF Results
  <2> QED  BY <2>1, <2>3, <2>4 DEF TypeInv
<1>3. CASE i \notin DOMAIN session
  <2>1. session'[i] = e  BY <1>3, Grown
  <2> QED  BY <1>1, <2>1
<1> QED  BY <1>2, <1>3

LEMMA OthersResultsStay ==
  ASSUME TypeInv, NEW e \in Entries, session' = Append(session, e), NEW q \in Runs,
         at'[q] = at[q], turn'[q] = turn[q], Results(q), ~(e.role = "result" /\ e.run = q)
  PROVE  Results(q)'
<1>1. SUFFICES ASSUME NEW i \in DOMAIN session', session'[i].role = "result", session'[i].run = q
               PROVE  at'[q] # "none" /\ session'[i].turn < turn'[q]
    BY DEF Results
<1>2. i \in DOMAIN session /\ session'[i] = session[i]  BY <1>1, Grown
<1> QED  BY <1>1, <1>2 DEF Results

\* What a recovery is to answer stays so when an entry is added that is no result
\* of its run.
LEMMA AnswerableStays ==
  ASSUME TypeInv, NEW e \in Entries, session' = Append(session, e), NEW c, Answerable(c),
         recovery'.cur = recovery.cur,
         ~(e.role = "result" /\ e.run = recovery.cur /\ e.turn = c)
  PROVE  Answerable(c)'
<1>1. SUFFICES ASSUME NEW i \in DOMAIN session', IsResult(i, recovery.cur, c)'
               PROVE  (\E k \in DOMAIN session : k > i /\ IsCall(k, recovery.cur))'
    BY DEF Answerable
<1>2. i \in DOMAIN session /\ session'[i] = session[i]  BY <1>1, Grown DEF IsResult
<1>3. PICK k \in DOMAIN session : k > i /\ IsCall(k, recovery.cur)
    BY <1>1, <1>2 DEF Answerable, IsResult
<1>4. k \in DOMAIN session' /\ session'[k] = session[k]  BY Grown
<1> QED  BY <1>3, <1>4 DEF IsCall

LEMMA EntriesStayNamed ==
  ASSUME TypeInv, EntryInv, Grows, UNCHANGED record, recovery'.rows = recovery.rows,
         \A q \in Runs : Pending(q)' => Pending(q),
         \A q \in Runs : at'[q] \in Answering =>
           (at[q] \in Answering /\ entryOf'[q] = entryOf[q]) \/ EntryOK(entryOf[q], q)'
  PROVE  EntryInv'
<1>1. SUFFICES ASSUME NEW q \in Runs
               PROVE  /\ at'[q] \in Answering => EntryOK(entryOf[q], q)'
                      /\ record'[q].stored => EntryOK(record[q].entry, q)'
                      /\ Pending(q)' => EntryOK(recovery.rows[q].entry, q)'
    BY DEF EntryInv
<1>2. /\ at[q] \in Answering => EntryOK(entryOf[q], q)
      /\ record[q].stored => EntryOK(record[q].entry, q)
      /\ Pending(q) => EntryOK(recovery.rows[q].entry, q)
    BY DEF EntryInv
<1>3. ASSUME NEW x \in Nat, EntryOK(x, q)  PROVE EntryOK(x, q)'  BY <1>3, NamedEntriesStay
<1>4. at'[q] \in Answering => EntryOK(entryOf[q], q)'
  <2>1. CASE at[q] \in Answering /\ entryOf'[q] = entryOf[q]
      BY <1>2, <1>3, <2>1 DEF TypeInv, EntryOK
  <2> QED  BY <2>1
<1>5. record'[q].stored => EntryOK(record[q].entry, q)'
  <2>1. record[q] = NoRecord \/ record[q] \in Record  BY DEF TypeInv
  <2>2. NoRecord.stored = FALSE /\ \A x \in Record : x.entry \in Nat  BY DEF NoRecord, Record
  <2>3. record[q].stored => record[q].entry \in Nat  BY <2>1, <2>2
  <2> QED  BY <1>2, <1>3, <2>3 DEF EntryOK
<1>6. Pending(q)' => EntryOK(recovery.rows[q].entry, q)'
  <2>1. Pending(q)' => Pending(q)  OBVIOUS
  <2>2. Pending(q) => recovery.rows[q].entry \in Nat  BY DEF TypeInv, Record
  <2> QED  BY <1>2, <1>3, <2>1, <2>2 DEF EntryOK
<1> QED  BY <1>4, <1>5, <1>6

LEMMA BeginStep ==
  ASSUME IInv, NEW r \in Runs, Begin(r)
  PROVE  IInv'
<1> DEFINE e == Entry("user", r)
<1>1. /\ at[r] = "none" /\ at' = [at EXCEPT ![r] = "anchor"] /\ activeRun' = r
      /\ activeRun # 0 => at[activeRun] \in {"failEdit", "failDelete", "idle"}
      /\ session' = Append(session, e)
      /\ UNCHANGED <<turn, calls, entryOf, outcome, held, cancelled, record, edit, recovery>>
    BY DEF Begin
<1>2. TypeInv /\ ActiveInv /\ ListInv /\ EntryInv /\ ResultInv /\ EndInv /\ LastCallsAreAnsweredOnce
    BY DEF IInv
<1>3. e \in Entries /\ e.role = "user"  BY <1>2, EntriesAreTyped DEF Entry
<1> HIDE DEF e
<1>4. Grows  BY <1>1, <1>3 DEF Grows
<1>5. TypeInv'
    BY <1>1, <1>2, <1>4, EntriesStay DEF TypeInv, Pending, Recovering, Steps, Answering
<1>6. ActiveInv'
  <2>1. \A q \in Runs : at[q] \in Over \union {"none"}
      BY <1>1, <1>2, RunsAreCounted DEF ActiveInv, Over, Runs
  <2> QED  BY <1>1, <1>2, <2>1 DEF TypeInv, ActiveInv, Over, Working
<1>7. ListInv'
    BY <1>1, <1>2 DEF TypeInv, ListInv, Pending, Recovering, Over
<1>8. EntryInv'
  <2>1. \A q \in Runs : at'[q] \in Answering => at[q] \in Answering /\ entryOf'[q] = entryOf[q]
      BY <1>1, <1>2 DEF TypeInv, Answering
  <2> QED  BY <1>1, <1>2, <1>4, <2>1, EntriesStayNamed DEF Pending, Recovering
<1>9. ResultInv'
  <2>1. \A q \in Runs : at'[q] \in Answering => Results(q)'
    <3>1. TAKE q \in Runs
    <3>2. CASE q = r
      <4>1. Results(r)  BY <1>1, <1>2, ResultsOf DEF Answering
      <4>2. \A i \in DOMAIN session : ~(session[i].role = "result" /\ session[i].run = r)
          BY <1>1, <4>1 DEF Results
      <4>3. \A i \in DOMAIN session' : ~(session'[i].role = "result" /\ session'[i].run = r)
          BY <1>1, <1>2, <1>3, <4>2, Grown
      <4> QED  BY <3>2, <4>3 DEF Results
    <3>3. CASE q # r
      <4>1. at'[q] = at[q] /\ turn'[q] = turn[q]  BY <1>1, <1>2, <3>3 DEF TypeInv
      <4> QED  BY <1>1, <1>2, <1>3, <4>1, OthersResultsStay, ResultsOf
    <3> QED  BY <3>2, <3>3
  <2>2. recovery'.at = "results" => \A c \in recovery'.open : Answerable(c)'
      BY <1>1, <1>2, <1>3, AnswerableStays, ResultsOf
  <2> QED  BY <2>1, <2>2 DEF ResultInv, Results, Answerable
<1>10. EndInv'
    BY <1>1, <1>2 DEF TypeInv, EndInv, PastStream, Pending, Recovering, Over
<1>11. LastCallsAreAnsweredOnce'
    BY <1>1, <1>2, <1>3, AnswersStaySingle
<1> QED  BY <1>5, <1>6, <1>7, <1>8, <1>9, <1>10, <1>11 DEF IInv

LEMMA MessageEndStep ==
  ASSUME IInv, NEW r \in Runs, MessageEnd(r)
  PROVE  IInv'
<1> DEFINE e == Entry(Role(r), r)
<1>1. PICK next \in {"tools", "failEdit", "finalEdit"} :
        /\ at[r] = "message" /\ at' = [at EXCEPT ![r] = next]
        /\ next = "tools" <=> outcome[r] = "toolUse"
        /\ held' = [held EXCEPT ![r] = next # "failEdit"]
        /\ entryOf' = [entryOf EXCEPT ![r] = LastEntry]
    <2>1. PICK next : next = IF outcome[r] = "toolUse" THEN "tools"
                             ELSE IF outcome[r] = "error" /\ turn[r] \in calls[r] THEN "failEdit"
                             ELSE "finalEdit"
        OBVIOUS
    <2>2. at' = [at EXCEPT ![r] = next] /\ at'[r] = next
        BY <2>1 DEF MessageEnd, IInv, TypeInv
    <2> QED  BY <2>1, <2>2 DEF MessageEnd
<1>2. /\ session' = Append(session, e)
      /\ UNCHANGED <<turn, calls, outcome, cancelled, activeRun, record, edit, recovery>>
    BY DEF MessageEnd
<1>3. TypeInv /\ ActiveInv /\ ListInv /\ EntryInv /\ ResultInv /\ EndInv /\ LastCallsAreAnsweredOnce
    BY DEF IInv
<1>4. e \in Entries /\ e.role = Role(r) /\ e.run = r  BY <1>3, EntriesAreTyped DEF Entry, Role
<1> HIDE DEF e
<1>5. Grows /\ e.role # "result"  BY <1>2, <1>4 DEF Grows, Role
<1>6. LastEntry = Len(session) + 1 /\ LastEntry \in DOMAIN session' /\ LastEntry \in Nat
      /\ session'[LastEntry] = e
    BY <1>2, <1>3, <1>4, Grown DEF LastEntry
<1> HIDE DEF LastEntry
<1>7. TypeInv'
    BY <1>1, <1>2, <1>3, <1>5, <1>6, EntriesStay
       DEF TypeInv, Pending, Recovering, Steps, Answering, Over, Working
<1>8. ActiveInv'
    BY <1>1, <1>2, <1>3 DEF TypeInv, ActiveInv, Over, Working
<1>9. ListInv'
    BY <1>1, <1>2, <1>3 DEF TypeInv, ListInv, Pending, Recovering, Over
<1>10. EntryInv'
  <2>1. outcome[r] = "toolUse" => EntryOK(entryOf[r], r)'
      BY <1>1, <1>3, <1>4, <1>6 DEF EntryOK, IsCall, Role, TypeInv
  <2>2. \A q \in Runs : at'[q] \in Answering =>
          (at[q] \in Answering /\ entryOf'[q] = entryOf[q]) \/ EntryOK(entryOf[q], q)'
      BY <1>1, <1>3, <2>1 DEF TypeInv, Answering
  <2> QED  BY <1>2, <1>3, <1>5, <2>2, EntriesStayNamed DEF Pending, Recovering
<1>11. ResultInv'
  <2>1. \A q \in Runs : at'[q] \in Answering => Results(q)'
    <3>1. TAKE q \in Runs
    <3>2. turn'[q] = turn[q] /\ turn[q] \in Nat  BY <1>2, <1>3 DEF TypeInv
    <3>3. at'[q] \in Answering => at[q] \in Answering /\ (at'[q] = "none" => at[q] = "none")
        BY <1>1, <1>3 DEF TypeInv, Answering
    <3>4. CASE at'[q] = "none"
      <4>1. Results(q) /\ at[q] = "none"  BY <1>3, <3>3, <3>4, ResultsOf DEF Answering
      <4> QED  BY <1>2, <1>3, <1>4, <1>5, <3>4, <4>1, Grown DEF Results
    <3> QED  BY <1>2, <1>3, <1>4, <1>5, <3>2, <3>3, <3>4, ResultsStay, ResultsOf
  <2>2. recovery'.at = "results" => \A c \in recovery'.open : Answerable(c)'
      BY <1>2, <1>3, <1>4, <1>5, AnswerableStays, ResultsOf
  <2> QED  BY <2>1, <2>2 DEF ResultInv, Results, Answerable
<1>12. EndInv'
    BY <1>1, <1>2, <1>3 DEF TypeInv, EndInv, PastStream, Pending, Recovering, Over, Outcomes
<1>13. LastCallsAreAnsweredOnce'
    BY <1>2, <1>3, <1>4, <1>5, AnswersStaySingle
<1> QED  BY <1>7, <1>8, <1>9, <1>10, <1>11, <1>12, <1>13 DEF IInv

LEMMA ToolsEndStep ==
  ASSUME IInv, NEW r \in Runs, ToolsEnd(r)
  PROVE  IInv'
<1> DEFINE e == Entry("result", r)
<1>1. /\ at[r] = "tools" /\ at' = [at EXCEPT ![r] = "streaming"]
      /\ turn' = [turn EXCEPT ![r] = @ + 1]
      /\ session' = Append(session, e)
      /\ UNCHANGED <<calls, entryOf, outcome, held, cancelled, activeRun, record, edit, recovery>>
    BY DEF ToolsEnd
<1>2. TypeInv /\ ActiveInv /\ ListInv /\ EntryInv /\ ResultInv /\ EndInv /\ LastCallsAreAnsweredOnce
    BY DEF IInv
<1>3. e \in Entries /\ e.role = "result" /\ e.run = r /\ e.turn = turn[r]
    BY <1>2, EntriesAreTyped DEF Entry
<1> HIDE DEF e
<1>4. Grows  BY <1>1, <1>3 DEF Grows
<1>5. TypeInv'
    BY <1>1, <1>2, <1>4, EntriesStay DEF TypeInv, Pending, Recovering, Steps, Answering
<1>6. ActiveInv'
    BY <1>1, <1>2 DEF TypeInv, ActiveInv, Over, Working
<1>7. ListInv'
    BY <1>1, <1>2 DEF TypeInv, ListInv, Pending, Recovering, Over
<1>8. EntryInv'
  <2>1. \A q \in Runs : at'[q] \in Answering => at[q] \in Answering /\ entryOf'[q] = entryOf[q]
      BY <1>1, <1>2 DEF TypeInv, Answering
  <2> QED  BY <1>1, <1>2, <1>4, <2>1, EntriesStayNamed DEF Pending, Recovering
<1>9. ResultInv'
  <2>1. \A q \in Runs : at'[q] \in Answering => Results(q)'
    <3>1. TAKE q \in Runs
    <3>2. /\ turn[q] \in Nat /\ turn'[q] \in Nat /\ turn'[q] >= turn[q]
          /\ q = r => turn'[q] = turn[q] + 1
        BY <1>1, <1>2 DEF TypeInv
    <3>3. at'[q] \in Answering => at[q] \in Answering /\ (at'[q] = "none" => at[q] = "none" /\ q # r)
        BY <1>1, <1>2 DEF TypeInv, Answering
    <3>4. CASE at'[q] = "none"
      <4>1. Results(q) /\ at[q] = "none" /\ q # r  BY <1>2, <3>3, <3>4, ResultsOf DEF Answering
      <4> QED  BY <1>1, <1>2, <1>3, <3>4, <4>1, Grown DEF Results
    <3> QED  BY <1>1, <1>2, <1>3, <3>2, <3>3, <3>4, ResultsStay, ResultsOf
  <2>2. recovery'.at = "results" => \A c \in recovery'.open : Answerable(c)'
    <3>1. recovery.at = "results" => recovery.cur # r
        BY <1>1, <1>2 DEF ListInv, Recovering, Over
    <3> QED  BY <1>1, <1>2, <1>3, <3>1, AnswerableStays, ResultsOf
  <2> QED  BY <2>1, <2>2 DEF ResultInv, Results, Answerable
<1>10. EndInv'
    BY <1>1, <1>2 DEF TypeInv, EndInv, PastStream, Pending, Recovering, Over
<1>11. LastCallsAreAnsweredOnce'
  <2>1. Results(r)  BY <1>1, <1>2, ResultsOf DEF Answering
  <2>2. \A i \in DOMAIN session : ~IsResult(i, e.run, e.turn)
    <3>1. SUFFICES ASSUME NEW i \in DOMAIN session, IsResult(i, r, turn[r])  PROVE FALSE
        BY <1>3
    <3>2. session[i].turn < turn[r] /\ session[i].turn = turn[r]  BY <2>1, <3>1 DEF Results, IsResult
    <3> QED  BY <1>2, <3>2 DEF TypeInv
  <2> QED  BY <1>1, <1>2, <1>3, <2>2, AnswersStaySingle
<1> QED  BY <1>5, <1>6, <1>7, <1>8, <1>9, <1>10, <1>11 DEF IInv

LEMMA AbortStep ==
  ASSUME IInv, Abort
  PROVE  IInv'
<1>1. UNCHANGED <<session, recovery>>  BY DEF Abort
<1>2. TypeInv /\ ActiveInv /\ ListInv /\ EntryInv /\ ResultInv /\ EndInv /\ LastCallsAreAnsweredOnce
    BY DEF IInv
<1>3. TypeInv'
    BY <1>1, <1>2 DEF Abort, TypeInv, Pending, Recovering, Steps, Answering, Over, Working, Outcomes, Edits, Record
<1>4. ActiveInv'
    BY <1>2 DEF Abort, TypeInv, ActiveInv, Over, Working
<1>5. ListInv'
    BY <1>1, <1>2 DEF Abort, TypeInv, ListInv, Pending, Recovering, Over, NoRecord, Record
<1>6. EntryInv'
    BY <1>1, <1>2 DEF Abort, TypeInv, EntryInv, EntryOK, IsCall, Pending, Recovering, Answering, NoRecord, Record
<1>7. ResultInv'
    BY <1>1, <1>2 DEF Abort, TypeInv, ResultInv, IsResult, IsCall, Answering
<1>8. EndInv'
    BY <1>1, <1>2 DEF Abort, TypeInv, ActiveInv, EndInv, PastStream, Pending, Recovering, Over, NoRecord, Record, Outcomes
<1>9. LastCallsAreAnsweredOnce'
    BY <1>1, <1>2 DEF LastCallsAreAnsweredOnce, SameResult, IsResult, IsCall
<1> QED  BY <1>3, <1>4, <1>5, <1>6, <1>7, <1>8, <1>9 DEF IInv

(* The steps of the recovery. *)

LEMMA RecordsAre ==
  ASSUME TypeInv, NEW q \in Runs, record[q].stored
  PROVE  record[q] \in Record
<1>1. record[q] = NoRecord \/ record[q] \in Record  BY DEF TypeInv
<1>2. NoRecord.stored = FALSE  BY DEF NoRecord
<1> QED  BY <1>1, <1>2

LEMMA IdleIsTyped ==
  /\ DOMAIN NoRecovery = RecoveryFields /\ NoRecovery.at = "idle" /\ NoRecovery.cause = "none"
  /\ NoRecovery.todo = {} /\ NoRecovery.cur = 0 /\ NoRecovery.open = {}
BY DEF NoRecovery, RecoveryFields

\* A recovery that lists nothing has nothing to finish.
LEMMA NothingToFinish ==
  ASSUME IInv, recovery' = NoRecovery, UNCHANGED <<runVars, session, record, edit>>
  PROVE  IInv'
<1>1. TypeInv /\ ActiveInv /\ ListInv /\ EntryInv /\ ResultInv /\ EndInv /\ LastCallsAreAnsweredOnce
    BY DEF IInv
<1>2. /\ \A q \in Runs : ~Pending(q)' /\ ~Recovering(q)'
      /\ DOMAIN recovery' = RecoveryFields /\ recovery'.at = "idle" /\ recovery'.cause = "none"
      /\ recovery'.todo = {} /\ recovery'.cur = 0 /\ recovery'.open = {}
    BY IdleIsTyped DEF Pending, Recovering
<1>3. UNCHANGED <<at, turn, calls, entryOf, outcome, held, cancelled, activeRun, session, record, edit>>
    BY DEF runVars
<1>4. TypeInv'  BY <1>1, <1>2, <1>3 DEF TypeInv
<1>5. ActiveInv' /\ ListInv'  BY <1>1, <1>2, <1>3 DEF ActiveInv, ListInv
<1>6. EntryInv'  BY <1>1, <1>2, <1>3 DEF EntryInv, EntryOK, IsCall
<1>7. ResultInv'  BY <1>1, <1>2, <1>3 DEF ResultInv
<1>8. EndInv'  BY <1>1, <1>2, <1>3 DEF EndInv, PastStream
<1>9. LastCallsAreAnsweredOnce'
    BY <1>1, <1>3 DEF LastCallsAreAnsweredOnce, SameResult, IsResult, IsCall
<1> QED  BY <1>4, <1>5, <1>6, <1>7, <1>8, <1>9 DEF IInv

LEMMA ListStep ==
  ASSUME IInv, NEW cause \in {"restart", "timeout"}, NEW todo \in SUBSET Listed, List(cause, todo)
  PROVE  IInv'
<1>1. UNCHANGED <<runVars, session, record, edit>>  BY DEF List
<1>2. CASE todo = {}  BY <1>1, <1>2, NothingToFinish DEF List
<1>3. CASE todo # {}
  <2>1. TypeInv /\ ActiveInv /\ ListInv /\ EntryInv /\ ResultInv /\ EndInv /\ LastCallsAreAnsweredOnce
      BY DEF IInv
  <2>2. /\ DOMAIN recovery' = RecoveryFields /\ recovery'.at = "next" /\ recovery'.cause = cause
        /\ recovery'.todo = todo /\ recovery'.cur = 0 /\ recovery'.open = {}
        /\ \A q \in todo : recovery'.rows[q] = record[q]
        /\ recovery'.live = {q \in todo : Alive(q)}
      BY <1>3 DEF List, RecoveryFields
  <2>3. todo \subseteq Runs /\ \A q \in todo : record[q].stored  BY DEF Listed
  <2>4. \A q \in Runs : ~Recovering(q)' /\ (Pending(q)' <=> q \in todo)
      BY <2>2 DEF Pending, Recovering
  <2>5. UNCHANGED <<at, turn, calls, entryOf, outcome, held, cancelled, activeRun, session, record, edit>>
      BY <1>1 DEF runVars
  <2>6. TypeInv'
    <3>1. \A q \in Runs : Pending(q)' => recovery'.rows[q] \in Record
        BY <2>1, <2>2, <2>3, <2>4, RecordsAre
    <3> QED  BY <2>1, <2>2, <2>3, <2>5, <3>1 DEF TypeInv
  <2>7. ActiveInv'  BY <2>1, <2>5 DEF ActiveInv
  <2>8. ListInv'  BY <2>1, <2>3, <2>4, <2>5 DEF ListInv
  <2>9. EntryInv'  BY <2>1, <2>2, <2>3, <2>4, <2>5 DEF EntryInv, EntryOK, IsCall
  <2>10. ResultInv'  BY <2>1, <2>2, <2>5 DEF ResultInv
  <2>11. EndInv'
      BY <2>1, <2>2, <2>3, <2>4, <2>5 DEF EndInv, PastStream, ListInv, TypeInv, Steps, Answering, Over, Working, Alive
  <2>12. LastCallsAreAnsweredOnce'
      BY <2>1, <2>5 DEF LastCallsAreAnsweredOnce, SameResult, IsResult, IsCall
  <2> QED  BY <2>6, <2>7, <2>8, <2>9, <2>10, <2>11, <2>12 DEF IInv
<1> QED  BY <1>2, <1>3

LEMMA TakeStep ==
  ASSUME IInv, NEW r \in Runs, Take(r)
  PROVE  IInv'
<1> DEFINE rest == [recovery EXCEPT !.todo = @ \ {r}]
<1>1. TypeInv /\ ActiveInv /\ ListInv /\ EntryInv /\ ResultInv /\ EndInv /\ LastCallsAreAnsweredOnce
    BY DEF IInv
<1>2. recovery.at = "next" /\ r \in recovery.todo /\ UNCHANGED <<runVars, session, edit>>
    BY DEF Take
<1>3. UNCHANGED <<at, turn, calls, entryOf, outcome, held, cancelled, activeRun, session, edit>>
    BY <1>2 DEF runVars
<1>4. Pending(r)  BY <1>2 DEF Pending
<1>5. /\ DOMAIN rest = RecoveryFields /\ rest.at = "next" /\ rest.todo = recovery.todo \ {r}
      /\ rest.rows = recovery.rows /\ rest.live = recovery.live /\ rest.cause = recovery.cause
      /\ rest.cur = recovery.cur /\ rest.open = recovery.open
    BY <1>1, <1>2 DEF TypeInv, RecoveryFields
<1>6. CASE activeRun = r /\ held[r]
  <2>1. CASE rest.todo = {}  BY <1>2, <1>6, <2>1, NothingToFinish DEF Take
  <2>2. CASE rest.todo # {}
    <3>1. recovery' = rest /\ UNCHANGED record  BY <1>6, <2>2 DEF Take
    <3> HIDE DEF rest
    <3>2. /\ \A q \in Runs : (Pending(q)' => Pending(q)) /\ ~Recovering(q)'
          /\ recovery'.rows = recovery.rows /\ recovery'.live = recovery.live
        BY <1>2, <1>5, <3>1 DEF Pending, Recovering
    <3>3. TypeInv'  BY <1>1, <1>3, <1>5, <3>1, <3>2 DEF TypeInv
    <3>4. ActiveInv' /\ ListInv'  BY <1>1, <1>3, <3>1, <3>2 DEF ActiveInv, ListInv
    <3>5. EntryInv'  BY <1>1, <1>3, <3>1, <3>2 DEF EntryInv, EntryOK, IsCall
    <3>6. ResultInv'  BY <1>1, <1>3, <1>5, <3>1 DEF ResultInv
    <3>7. EndInv'  BY <1>1, <1>3, <3>1, <3>2 DEF EndInv, PastStream
    <3>8. LastCallsAreAnsweredOnce'
        BY <1>1, <1>3 DEF LastCallsAreAnsweredOnce, SameResult, IsResult, IsCall
    <3> QED  BY <3>3, <3>4, <3>5, <3>6, <3>7, <3>8 DEF IInv
  <2> QED  BY <2>1, <2>2
<1>7. CASE ~(activeRun = r /\ held[r])
  <2>1. PICK next \in {"check", "edit"} : recovery' = [rest EXCEPT !.cur = r, !.at = next]
      BY <1>7 DEF Take
  <2>2. record' = [record EXCEPT ![r] = NoRecord]  BY <1>7 DEF Take, Delete
  <2> HIDE DEF rest
  <2>3. /\ DOMAIN recovery' = RecoveryFields /\ recovery'.at = next /\ recovery'.cur = r
        /\ recovery'.todo = recovery.todo \ {r} /\ recovery'.rows = recovery.rows
        /\ recovery'.live = recovery.live /\ recovery'.cause = recovery.cause
        /\ recovery'.open = recovery.open
      BY <1>5, <2>1 DEF RecoveryFields
  <2>4. \A q \in Runs : (Pending(q)' => Pending(q)) /\ (Recovering(q)' => q = r)
      BY <1>2, <1>4, <2>3 DEF Pending, Recovering
  <2>5. at[r] \in Over
    <3>1. at[r] \notin Working  BY <1>1, <1>7 DEF ActiveInv, Working, Over
    <3>2. at[r] \notin {"none", "anchor"}  BY <1>1, <1>4 DEF ListInv
    <3>3. at[r] \in Steps  BY <1>1 DEF TypeInv
    <3> QED  BY <3>1, <3>2, <3>3 DEF Steps, Answering, Working
  <2>6. \A q \in Runs : record'[q] = record[q] \/ ~record'[q].stored
      BY <1>1, <2>2 DEF TypeInv, NoRecord
  <2>7. TypeInv'
    <3>1. record' \in [Runs -> {NoRecord} \union Record]  BY <1>1, <2>2, NoRecordIsTyped
    <3> QED  BY <1>1, <1>3, <2>3, <2>4, <3>1 DEF TypeInv
  <2>8. ActiveInv'  BY <1>1, <1>3 DEF ActiveInv
  <2>9. ListInv'  BY <1>1, <1>3, <2>4, <2>5, <2>6 DEF ListInv
  <2>10. EntryInv'
    <3>1. SUFFICES ASSUME NEW q \in Runs
                   PROVE  /\ at'[q] \in Answering => EntryOK(entryOf[q], q)'
                          /\ record'[q].stored => EntryOK(record[q].entry, q)'
                          /\ Pending(q)' => EntryOK(recovery.rows[q].entry, q)'
        BY DEF EntryInv
    <3> QED  BY <1>1, <1>3, <2>3, <2>4, <2>6 DEF EntryInv, EntryOK, IsCall
  <2>11. ResultInv'  BY <1>1, <1>3, <2>3 DEF ResultInv
  <2>12. EndInv'  BY <1>1, <1>3, <2>3, <2>4, <2>6 DEF EndInv, PastStream
  <2>13. LastCallsAreAnsweredOnce'
      BY <1>1, <1>3 DEF LastCallsAreAnsweredOnce, SameResult, IsResult, IsCall
  <2> QED  BY <2>7, <2>8, <2>9, <2>10, <2>11, <2>12, <2>13 DEF IInv
<1> QED  BY <1>6, <1>7

LEMMA RestOfASequence ==
  ASSUME NEW S, NEW s \in Seq(S), NEW n \in Nat, n <= Len(s)
  PROVE  /\ Len(SubSeq(s, n + 1, Len(s))) = Len(s) - n
         /\ DOMAIN SubSeq(s, n + 1, Len(s)) = 1..(Len(s) - n)
         /\ \A k \in 1..(Len(s) - n) : SubSeq(s, n + 1, Len(s))[k] = s[n + k]
<1>1. Len(s) \in Nat  OBVIOUS
<1>2. \A k \in 1..(Len(s) - n) : n + 1 + k - 1 = n + k  OBVIOUS
<1> QED  BY <1>1, <1>2

\* The calls of the record that no result after its entry answers were answered
\* before that entry at most, and the entry calls tools.
LEMMA OpenCallsAreAnswerable ==
  ASSUME TypeInv, EntryOK(Row.entry, recovery.cur), Row.entry \in Nat, CanAppend,
         NEW c \in Row.calls \ Answered
  PROVE  Answerable(c)
<1>1. SUFFICES ASSUME NEW i \in DOMAIN session, IsResult(i, recovery.cur, c)
               PROVE  \E k \in DOMAIN session : k > i /\ IsCall(k, recovery.cur)
    BY DEF Answerable
<1>2. session \in Seq(Entries) /\ DOMAIN session = 1..Len(session) /\ Len(session) \in Nat
    BY DEF TypeInv
<1>3. i <= Row.entry
  <2>1. SUFFICES ASSUME i > Row.entry  PROVE FALSE  BY <1>2
  <2>2. /\ i - Row.entry \in 1..Len(After) /\ DOMAIN After = 1..Len(After)
        /\ After[i - Row.entry] = session[i]
    <3>1. Len(After) = Len(session) - Row.entry /\ DOMAIN After = 1..(Len(session) - Row.entry)
        BY <1>2, RestOfASequence DEF After, CanAppend
    <3>2. \A k \in 1..(Len(session) - Row.entry) : After[k] = session[Row.entry + k]
        BY <1>2, RestOfASequence DEF After, CanAppend
    <3>3. i - Row.entry \in 1..(Len(session) - Row.entry) /\ Row.entry + (i - Row.entry) = i
      <4>1. i \in Nat /\ i <= Len(session)  BY <1>1, <1>2
      <4> QED  BY <1>2, <2>1, <4>1
    <3>4. After[i - Row.entry] = session[i]  BY <3>2, <3>3
    <3> QED  BY <3>1, <3>3, <3>4
  <2>3. c \in Answered  BY <1>1, <2>2 DEF Answered, IsResult
  <2> QED  BY <2>3
<1>4. Row.entry # 0 /\ Row.entry \in DOMAIN session /\ IsCall(Row.entry, recovery.cur)
    BY <1>2, <1>3 DEF EntryOK
<1>5. i # Row.entry  BY <1>1, <1>4 DEF IsCall, IsResult
<1> QED  BY <1>2, <1>3, <1>4, <1>5

LEMMA CheckStep ==
  ASSUME IInv, Check
  PROVE  IInv'
<1>1. TypeInv /\ ActiveInv /\ ListInv /\ EntryInv /\ ResultInv /\ EndInv /\ LastCallsAreAnsweredOnce
    BY DEF IInv
<1>2. recovery.at = "check" /\ UNCHANGED <<runVars, session, record, edit>>  BY DEF Check
<1>3. UNCHANGED <<at, turn, calls, entryOf, outcome, held, cancelled, activeRun, session, record, edit>>
    BY <1>2 DEF runVars
<1>4. recovery.cur \in Runs /\ Pending(recovery.cur)  BY <1>1, <1>2 DEF TypeInv, Pending, Recovering
<1>5. Row \in Record /\ Row.entry \in Nat /\ Row.calls \subseteq Nat
  <2>1. Row \in Record  BY <1>1, <1>4 DEF TypeInv, Row
  <2> QED  BY <2>1 DEF Record
<1>6. PICK next \in {"results", "edit"}, open \in SUBSET Nat :
        /\ recovery' = [recovery EXCEPT !.at = next, !.open = open]
        /\ next = "results" => CanAppend /\ open = Row.calls \ Answered
  <2>1. CASE CanAppend
      BY <1>5, <2>1 DEF Check
  <2>2. CASE ~CanAppend
    <3>1. recovery' = [recovery EXCEPT !.at = "edit"]  BY <2>2 DEF Check
    <3>2. recovery.open \in SUBSET Nat /\ DOMAIN recovery = RecoveryFields  BY <1>1 DEF TypeInv
    <3>3. recovery' = [recovery EXCEPT !.at = "edit", !.open = recovery.open]
        BY <3>1, <3>2 DEF RecoveryFields
    <3> QED  BY <3>2, <3>3
  <2> QED  BY <2>1, <2>2
<1>7. /\ DOMAIN recovery' = RecoveryFields /\ recovery'.at = next /\ recovery'.cur = recovery.cur
      /\ recovery'.todo = recovery.todo /\ recovery'.rows = recovery.rows
      /\ recovery'.live = recovery.live /\ recovery'.cause = recovery.cause
      /\ recovery'.open = open
    BY <1>1, <1>6 DEF TypeInv, RecoveryFields
<1>8. \A q \in Runs : (Pending(q)' => Pending(q)) /\ (Recovering(q)' => Recovering(q))
    BY <1>2, <1>7 DEF Pending, Recovering
<1>9. TypeInv'  BY <1>1, <1>3, <1>4, <1>7, <1>8 DEF TypeInv
<1>10. ActiveInv' /\ ListInv'  BY <1>1, <1>3, <1>8 DEF ActiveInv, ListInv
<1>11. EntryInv'  BY <1>1, <1>3, <1>7, <1>8 DEF EntryInv, EntryOK, IsCall
<1>12. ResultInv'
  <2>1. recovery'.at = "results" => \A c \in recovery'.open : Answerable(c)
    <3>1. EntryOK(Row.entry, recovery.cur)  BY <1>1, <1>4 DEF EntryInv, Row
    <3> QED  BY <1>1, <1>5, <1>6, <1>7, <3>1, OpenCallsAreAnswerable
  <2> QED  BY <1>1, <1>3, <1>7, <2>1 DEF ResultInv, Answerable, IsResult, IsCall
<1>13. EndInv'  BY <1>1, <1>3, <1>7, <1>8 DEF EndInv, PastStream
<1>14. LastCallsAreAnsweredOnce'
    BY <1>1, <1>3 DEF LastCallsAreAnsweredOnce, SameResult, IsResult, IsCall
<1> QED  BY <1>9, <1>10, <1>11, <1>12, <1>13, <1>14 DEF IInv

LEMMA RepairResultStep ==
  ASSUME IInv, RepairResult
  PROVE  IInv'
<1>1. TypeInv /\ ActiveInv /\ ListInv /\ EntryInv /\ ResultInv /\ EndInv /\ LastCallsAreAnsweredOnce
    BY DEF IInv
<1>2. recovery.at = "results" /\ UNCHANGED <<runVars, record, edit>>  BY DEF RepairResult
<1>3. UNCHANGED <<at, turn, calls, entryOf, outcome, held, cancelled, activeRun, record, edit>>
    BY <1>2 DEF runVars
<1>4. recovery.cur \in Runs  BY <1>1, <1>2 DEF TypeInv
<1>5. PICK call \in recovery.open :
        /\ session' = Append(session, [role |-> "result", run |-> recovery.cur, turn |-> call])
        /\ recovery' = [recovery EXCEPT !.open = @ \ {call}]
    BY DEF RepairResult
<1>6. PICK e : e = [role |-> "result", run |-> recovery.cur, turn |-> call]  OBVIOUS
<1>7. e \in Entries /\ e.role = "result" /\ e.run = recovery.cur /\ e.turn = call /\ call \in Nat
    BY <1>1, <1>4, <1>6 DEF Entries, TypeInv
<1>8. session' = Append(session, e) /\ Grows  BY <1>5, <1>6, <1>7 DEF Grows
<1>9. /\ DOMAIN recovery' = RecoveryFields /\ recovery'.at = "results" /\ recovery'.cur = recovery.cur
      /\ recovery'.todo = recovery.todo /\ recovery'.rows = recovery.rows
      /\ recovery'.live = recovery.live /\ recovery'.cause = recovery.cause
      /\ recovery'.open = recovery.open \ {call}
    BY <1>1, <1>2, <1>5 DEF TypeInv, RecoveryFields
<1>10. \A q \in Runs : (Pending(q)' <=> Pending(q)) /\ (Recovering(q)' <=> Recovering(q))
    BY <1>2, <1>9 DEF Pending, Recovering
<1>11. TypeInv'  BY <1>1, <1>3, <1>4, <1>8, <1>9, <1>10, EntriesStay DEF TypeInv
<1>12. ActiveInv' /\ ListInv'  BY <1>1, <1>3, <1>10 DEF ActiveInv, ListInv
<1>13. EntryInv'  BY <1>1, <1>3, <1>8, <1>9, <1>10, EntriesStayNamed
<1>14. ResultInv'
  <2>1. at[recovery.cur] \in Over  BY <1>1, <1>2, <1>4 DEF ListInv, Recovering
  <2>2. \A q \in Runs : at'[q] \in Answering => Results(q)'
    <3>1. SUFFICES ASSUME NEW q \in Runs, at[q] \in Answering  PROVE Results(q)'
        BY <1>3
    <3>2. q # recovery.cur  BY <2>1, <3>1 DEF Over, Answering
    <3> QED  BY <1>1, <1>3, <1>7, <1>8, <3>1, <3>2, OthersResultsStay, ResultsOf
  <2>3. \A c \in recovery'.open : Answerable(c)'
    <3>1. TAKE c \in recovery'.open
    <3>2. c # call /\ Answerable(c)  BY <1>1, <1>2, <1>9, ResultsOf
    <3> QED  BY <1>1, <1>7, <1>8, <1>9, <3>2, AnswerableStays
  <2> QED  BY <2>2, <2>3 DEF ResultInv, Results, Answerable
<1>15. EndInv'  BY <1>1, <1>3, <1>9, <1>10 DEF EndInv, PastStream
<1>16. LastCallsAreAnsweredOnce'
  <2>1. Answerable(call)  BY <1>1, <1>2, ResultsOf
  <2> QED  BY <1>1, <1>7, <1>8, <2>1, AnswersStaySingle DEF Answerable
<1> QED  BY <1>11, <1>12, <1>13, <1>14, <1>15, <1>16 DEF IInv

LEMMA RepairTurnStep ==
  ASSUME IInv, RepairTurn
  PROVE  IInv'
<1>1. TypeInv /\ ActiveInv /\ ListInv /\ EntryInv /\ ResultInv /\ EndInv /\ LastCallsAreAnsweredOnce
    BY DEF IInv
<1>2. recovery.at = "results" /\ UNCHANGED <<runVars, record, edit>>  BY DEF RepairTurn
<1>3. UNCHANGED <<at, turn, calls, entryOf, outcome, held, cancelled, activeRun, record, edit>>
    BY <1>2 DEF runVars
<1>4. recovery.cur \in Runs /\ recovery.cause \in {"restart", "timeout", "none"}
    BY <1>1, <1>2 DEF TypeInv
<1>5. PICK e : e = [role |-> "recovered", run |-> recovery.cur, turn |-> 0, cause |-> recovery.cause]
    OBVIOUS
<1>6. e \in Entries /\ e.role # "result"  BY <1>4, <1>5 DEF Entries
<1>7. session' = Append(session, e) /\ Grows  BY <1>5, <1>6 DEF RepairTurn, Grows
<1>8. /\ DOMAIN recovery' = RecoveryFields /\ recovery'.at = "edit" /\ recovery'.cur = recovery.cur
      /\ recovery'.todo = recovery.todo /\ recovery'.rows = recovery.rows
      /\ recovery'.live = recovery.live /\ recovery'.cause = recovery.cause
      /\ recovery'.open = recovery.open
    BY <1>1 DEF RepairTurn, TypeInv, RecoveryFields
<1>9. \A q \in Runs : (Pending(q)' <=> Pending(q)) /\ (Recovering(q)' <=> Recovering(q))
    BY <1>2, <1>8 DEF Pending, Recovering
<1>10. TypeInv'  BY <1>1, <1>3, <1>4, <1>7, <1>8, <1>9, EntriesStay DEF TypeInv
<1>11. ActiveInv' /\ ListInv'  BY <1>1, <1>3, <1>9 DEF ActiveInv, ListInv
<1>12. EntryInv'  BY <1>1, <1>3, <1>7, <1>8, <1>9, EntriesStayNamed
<1>13. ResultInv'
  <2>1. \A q \in Runs : at'[q] \in Answering => Results(q)'
      BY <1>1, <1>3, <1>6, <1>7, OthersResultsStay, ResultsOf
  <2> QED  BY <1>8, <2>1 DEF ResultInv, Results
<1>14. EndInv'  BY <1>1, <1>3, <1>8, <1>9 DEF EndInv, PastStream
<1>15. LastCallsAreAnsweredOnce'  BY <1>1, <1>6, <1>7, AnswersStaySingle
<1> QED  BY <1>10, <1>11, <1>12, <1>13, <1>14, <1>15 DEF IInv

\* The edit of a recovery says what the record says; an answer that was complete
\* has no record that says it was interrupted.
LEMMA RecoveryEditsWhatItRead ==
  ASSUME IInv, RecoveryEdit
  PROVE  /\ recovery.cur \in Runs /\ Pending(recovery.cur)
         /\ \A q \in Runs \ {recovery.cur} : edit'[q] = edit[q]
         /\ edit' \in [Runs -> Edits]
         /\ edit'[recovery.cur] = "done" <=> Row.status = "complete"
         /\ edit'[recovery.cur] = "interrupted" =>
              Row.status = "streaming" /\ recovery.cur \notin recovery.live
<1>1. recovery.cur \in Runs /\ Pending(recovery.cur) /\ edit \in [Runs -> Edits]
    BY DEF IInv, TypeInv, RecoveryEdit, Pending, Recovering
<1>2. Row.status \in {"streaming", "complete", "error"}
  <2>1. Row \in Record  BY <1>1 DEF IInv, TypeInv, Row
  <2> QED  BY <2>1 DEF Record
<1> DEFINE kind == IF Row.status = "complete" THEN "done"
                   ELSE IF Row.status = "error" THEN "error"
                   ELSE IF recovery.cur \in recovery.live THEN "overtaken"
                   ELSE "interrupted"
<1>3. edit' = [edit EXCEPT ![recovery.cur] = kind]  BY DEF RecoveryEdit
<1>4. /\ kind \in Edits
      /\ kind = "done" <=> Row.status = "complete"
      /\ kind = "interrupted" => Row.status = "streaming" /\ recovery.cur \notin recovery.live
    BY <1>2 DEF Edits
<1> HIDE DEF kind
<1> QED  BY <1>1, <1>3, <1>4

LEMMA RecoveryEditStep ==
  ASSUME IInv, RecoveryEdit
  PROVE  IInv'
<1>1. TypeInv /\ ActiveInv /\ ListInv /\ EntryInv /\ ResultInv /\ EndInv /\ LastCallsAreAnsweredOnce
    BY DEF IInv
<1>2. recovery.at = "edit" /\ UNCHANGED <<runVars, session, record>> /\ recovery' = Finished
    BY DEF RecoveryEdit
<1>3. UNCHANGED <<at, turn, calls, entryOf, outcome, held, cancelled, activeRun, session, record>>
    BY <1>2 DEF runVars
<1>4. /\ recovery.cur \in Runs /\ Pending(recovery.cur)
      /\ \A q \in Runs \ {recovery.cur} : edit'[q] = edit[q]
      /\ edit' \in [Runs -> Edits]
      /\ edit'[recovery.cur] = "done" => Row.status = "complete"
    BY RecoveryEditsWhatItRead
<1>5. /\ DOMAIN recovery' = RecoveryFields /\ recovery'.at \in {"idle", "next"}
      /\ recovery'.cause \in {"restart", "timeout", "none"} /\ recovery'.cur = 0
      /\ recovery'.todo \subseteq Runs /\ recovery'.open \subseteq Nat
  <2>1. CASE recovery.todo = {}  BY <1>2, <2>1, IdleIsTyped DEF Finished
  <2>2. CASE recovery.todo # {}
      BY <1>1, <1>2, <2>2 DEF Finished, TypeInv, RecoveryFields
  <2> QED  BY <2>1, <2>2
<1>6. /\ \A q \in Runs : (Pending(q)' => Pending(q)) /\ ~Recovering(q)'
      /\ recovery'.at # "idle" => recovery'.rows = recovery.rows /\ recovery'.live = recovery.live
  <2>1. CASE recovery.todo = {}  BY <1>2, <2>1, IdleIsTyped DEF Finished, Pending, Recovering
  <2>2. CASE recovery.todo # {}
    <3>1. /\ recovery'.at = "next" /\ recovery'.todo = recovery.todo
          /\ recovery'.rows = recovery.rows /\ recovery'.live = recovery.live
        BY <1>1, <1>2, <2>2 DEF Finished, TypeInv, RecoveryFields
    <3> QED  BY <1>2, <3>1 DEF Pending, Recovering
  <2> QED  BY <2>1, <2>2
<1>7. \A q \in Runs : Pending(q)' => recovery'.rows = recovery.rows /\ recovery'.live = recovery.live
    BY <1>6 DEF Pending
<1>8. TypeInv'  BY <1>1, <1>3, <1>4, <1>5, <1>6, <1>7 DEF TypeInv
<1>9. ActiveInv' /\ ListInv'  BY <1>1, <1>3, <1>6 DEF ActiveInv, ListInv
<1>10. EntryInv'  BY <1>1, <1>3, <1>6, <1>7 DEF EntryInv, EntryOK, IsCall
<1>11. ResultInv'  BY <1>1, <1>3, <1>5 DEF ResultInv
<1>12. EndInv'
  <2>1. SUFFICES ASSUME NEW q \in Runs
                 PROVE  /\ edit'[q] = "done" =>
                             PastStream(q) /\ (record[q].stored => record[q].status = "complete")
                        /\ Pending(q)' /\ recovery'.rows[q].status = "complete" =>
                             PastStream(q) /\ (record[q].stored => record[q].status = "complete")
                        /\ Pending(q)' /\ recovery'.rows[q].status = "streaming" /\ q \notin recovery'.live =>
                             at[q] \in {"ended", "dead"} /\ edit'[q] # "done"
      BY <1>1, <1>3 DEF EndInv, PastStream
  <2>2. CASE q = recovery.cur
    <3>1. Row = recovery.rows[q]  BY <2>2 DEF Row
    <3> HIDE DEF Row
    <3> QED  BY <1>1, <1>4, <1>6, <1>7, <2>2, <3>1 DEF EndInv
  <2>3. CASE q # recovery.cur
    <3>1. edit'[q] = edit[q]  BY <1>4, <2>3
    <3> QED  BY <1>1, <1>6, <1>7, <3>1 DEF EndInv
  <2> QED  BY <2>2, <2>3
<1>13. LastCallsAreAnsweredOnce'
    BY <1>1, <1>3 DEF LastCallsAreAnsweredOnce, SameResult, IsResult, IsCall
<1> QED  BY <1>8, <1>9, <1>10, <1>11, <1>12, <1>13 DEF IInv

-----------------------------------------------------------------------------
(* The crash, the initial states, and every step. *)

LEMMA CrashStep ==
  ASSUME IInv, Crash
  PROVE  IInv'
<1>1. TypeInv /\ ActiveInv /\ ListInv /\ EntryInv /\ ResultInv /\ EndInv /\ LastCallsAreAnsweredOnce
    BY DEF IInv
<1>2. /\ at' = [q \in Runs |-> IF Alive(q) THEN "dead" ELSE at[q]]
      /\ turn' = [q \in Runs |-> 1] /\ calls' = [q \in Runs |-> {}]
      /\ entryOf' = [q \in Runs |-> 0] /\ outcome' = [q \in Runs |-> "none"]
      /\ held' = [q \in Runs |-> FALSE] /\ cancelled' = [q \in Runs |-> FALSE]
      /\ activeRun' = 0 /\ recovery' = NoRecovery /\ UNCHANGED <<session, record, edit>>
    BY DEF Crash
<1>3. \A q \in Runs : at'[q] \in {"none", "ended", "dead"} /\ (at'[q] = "none" <=> at[q] = "none")
    BY <1>2 DEF Alive
<1>4. /\ \A q \in Runs : ~Pending(q)' /\ ~Recovering(q)'
      /\ DOMAIN recovery' = RecoveryFields /\ recovery'.at = "idle" /\ recovery'.cause = "none"
      /\ recovery'.todo = {} /\ recovery'.cur = 0 /\ recovery'.open = {}
    BY <1>2, IdleIsTyped DEF Pending, Recovering
<1>5. TypeInv'
  <2>1. at' \in [Runs -> Steps]  BY <1>1, <1>2 DEF TypeInv, Steps, Over
  <2> QED  BY <1>1, <1>2, <1>4, <2>1 DEF TypeInv, Outcomes
<1>6. ActiveInv' /\ ListInv'
    BY <1>1, <1>2, <1>3, <1>4 DEF ActiveInv, ListInv, Over, Working
<1>7. EntryInv'  BY <1>1, <1>2, <1>4 DEF EntryInv, EntryOK, IsCall
<1>8. ResultInv'
  <2>1. \A q \in Runs : at'[q] \in Answering => Results(q)'
    <3>1. SUFFICES ASSUME NEW q \in Runs, at'[q] \in Answering  PROVE Results(q)'  OBVIOUS
    <3>2. at[q] = "none"  BY <1>3, <3>1 DEF Answering
    <3>3. Results(q)  BY <1>1, <3>2, ResultsOf DEF Answering
    <3> QED  BY <1>2, <3>2, <3>3 DEF Results
  <2> QED  BY <1>4, <2>1 DEF ResultInv, Results
<1>9. EndInv'
  <2>1. \A q \in Runs : PastStream(q) \/ at[q] # "none" => PastStream(q)'
      BY <1>3 DEF PastStream, Over
  <2>2. \A q \in Runs : PastStream(q) => at[q] # "none"  BY DEF PastStream, Over
  <2> QED  BY <1>1, <1>2, <1>3, <1>4, <2>1, <2>2 DEF EndInv
<1>10. LastCallsAreAnsweredOnce'
    BY <1>1, <1>2 DEF LastCallsAreAnsweredOnce, SameResult, IsResult, IsCall
<1> QED  BY <1>5, <1>6, <1>7, <1>8, <1>9, <1>10 DEF IInv

LEMMA InitIsSound == Init => IInv
<1> SUFFICES ASSUME Init  PROVE IInv  OBVIOUS
<1>1. \A q \in Runs : ~Pending(q) /\ ~Recovering(q)
    BY IdleIsTyped DEF Init, Pending, Recovering
<1>2. TypeInv
    BY <1>1, IdleIsTyped DEF Init, TypeInv, Steps, Answering, Outcomes, Edits
<1>3. ActiveInv /\ ListInv /\ EntryInv
    BY <1>1 DEF Init, ActiveInv, ListInv, EntryInv, EntryOK, NoRecord, Over, Working
<1>4. ResultInv /\ LastCallsAreAnsweredOnce
    BY IdleIsTyped DEF Init, ResultInv, LastCallsAreAnsweredOnce
<1>5. EndInv  BY <1>1 DEF Init, EndInv, NoRecord
<1> QED  BY <1>2, <1>3, <1>4, <1>5 DEF IInv

LEMMA StutterStep ==
  ASSUME IInv, UNCHANGED vars
  PROVE  IInv'
<1>1. UNCHANGED <<at, turn, calls, entryOf, outcome, held, cancelled, activeRun, session, record,
                  edit, recovery>>
    BY DEF vars, runVars
<1>2. \A q \in Runs : (Pending(q)' <=> Pending(q)) /\ (Recovering(q)' <=> Recovering(q))
    BY <1>1 DEF Pending, Recovering
<1>3. TypeInv'  BY <1>1, <1>2 DEF IInv, TypeInv
<1>4. ActiveInv' /\ ListInv'  BY <1>1, <1>2 DEF IInv, ActiveInv, ListInv
<1>5. EntryInv' /\ ResultInv'
    BY <1>1, <1>2 DEF IInv, EntryInv, EntryOK, ResultInv, IsResult, IsCall
<1>6. EndInv'  BY <1>1, <1>2 DEF IInv, EndInv, PastStream
<1>7. LastCallsAreAnsweredOnce'
    BY <1>1 DEF IInv, LastCallsAreAnsweredOnce, SameResult, IsResult, IsCall
<1> QED  BY <1>3, <1>4, <1>5, <1>6, <1>7 DEF IInv

LEMMA NextKeepsIInv == IInv /\ [Next]_vars => IInv'
<1> SUFFICES ASSUME IInv, [Next]_vars  PROVE IInv'  OBVIOUS
<1>1. ASSUME NEW r \in Runs, Begin(r) \/ Publish(r) \/ StreamToolCall(r)  PROVE IInv'
    BY <1>1, BeginStep, PublishStep, StreamToolCallStep
<1>2. ASSUME NEW r \in Runs, RunStep(r)  PROVE IInv'
    BY <1>2, AnchorStep, StreamEndStep, StreamFailsStep, MessageEndStep, ToolsEndStep,
       PromptFailsStep, FinalizeAssistantStep, FailOpenAssistantStep, DeleteActiveStreamStep, EndStep
       DEF RunStep
<1>3. CASE Abort  BY <1>3, AbortStep
<1>4. CASE Connect
  <2>1. Listed \in SUBSET Listed  OBVIOUS
  <2> QED  BY <1>4, <2>1, ListStep DEF Connect
<1>5. ASSUME NEW todo \in SUBSET Runs, Janitor(todo)  PROVE IInv'
  <2>1. todo \in SUBSET Listed  BY <1>5 DEF Janitor, Silent
  <2> QED  BY <1>5, <2>1, ListStep DEF Janitor
<1>6. CASE RecoveryStep
    BY <1>6, CheckStep, RepairResultStep, RepairTurnStep, RecoveryEditStep, TakeStep DEF RecoveryStep
<1>7. CASE Crash  BY <1>7, CrashStep
<1>8. CASE UNCHANGED vars  BY <1>8, StutterStep
<1> QED  BY <1>1, <1>2, <1>3, <1>4, <1>5, <1>6, <1>7, <1>8 DEF Next

-----------------------------------------------------------------------------
(* The theorems. *)

\* The inductive invariant holds of every state: what the records, the list of a
\* recovery and the session say of a run agrees.  (persistActiveStream,
\* finishActiveStreamRecord, sessionBranchCanAppendRecovery)
THEOREM AnswersAreSound == Spec => []IInv
BY InitIsSound, NextKeepsIInv, PTL DEF Spec

\* However many runs, turns, crashes and recoveries there are, a recovery does not
\* repeat the result of a call of the run's last message in the session.
\* (sessionBranchCanAppendRecovery, interruptedToolResultMessages)
THEOREM LastCallsStayAnsweredOnce == Spec => []LastCallsAreAnsweredOnce
<1>1. IInv => LastCallsAreAnsweredOnce  BY DEF IInv
<1> QED  BY <1>1, AnswersAreSound, PTL

\* An answer that its run ended as done is never edited to be interrupted: only a
\* recovery writes that, of a record listed after its run was gone, and the record
\* of a complete answer says so before its edit is sent.  (finishActiveStreamRecord)
THEOREM CompleteAnswersStay == Spec => CompleteStaysComplete
<1>1. IInv /\ [Next]_vars => [\A r \in Runs : edit[r] = "done" => edit'[r] # "interrupted"]_edit
  <2> SUFFICES ASSUME IInv, [Next]_vars, NEW r \in Runs, edit[r] = "done", edit'[r] = "interrupted"
               PROVE  FALSE
      OBVIOUS
  <2>1. edit \in [Runs -> Edits]  BY DEF IInv, TypeInv
  <2>2. ASSUME NEW q \in Runs, NEW kind \in {"done", "error"}, NEW next, Edited(q, kind, next)
        PROVE  FALSE
      BY <2>1, <2>2 DEF Edited
  <2>3. ASSUME NEW q \in Runs, NEW next, AnchorMissing(q, next)  PROVE FALSE
      BY <2>3 DEF AnchorMissing
  <2>4. ASSUME NEW q \in Runs, FinalizeAssistant(q)  PROVE FALSE
      BY <2>2, <2>3, <2>4 DEF FinalizeAssistant
  <2>5. ASSUME NEW q \in Runs, FailOpenAssistant(q)  PROVE FALSE
      BY <2>2, <2>3, <2>5 DEF FailOpenAssistant
  <2>6. CASE RecoveryEdit
    <3>1. r = recovery.cur /\ Pending(r) /\ Row.status = "streaming" /\ r \notin recovery.live
        BY <2>6, RecoveryEditsWhatItRead
    <3> QED  BY <3>1 DEF IInv, EndInv, Row
  <2>7. UNCHANGED edit \/ RecoveryEdit \/ \E q \in Runs : FinalizeAssistant(q) \/ FailOpenAssistant(q)
      BY DEF Next, vars, Begin, Publish, StreamToolCall, RunStep, Anchor, StreamEnd, StreamFails,
             MessageEnd, ToolsEnd, PromptFails, DeleteActiveStream, End, Abort, Connect, Janitor, List,
             RecoveryStep, Take, Check, RepairResult, RepairTurn, Crash
  <2> QED  BY <2>4, <2>5, <2>6, <2>7
<1> QED  BY <1>1, AnswersAreSound, PTL DEF Spec, CompleteStaysComplete
=============================================================================
