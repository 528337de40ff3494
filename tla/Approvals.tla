----------------------------- MODULE Approvals ------------------------------
(***************************************************************************)
(* Consent for the user's profile: get_session calls of the runs of        *)
(* several rooms ask through the ApprovalCoordinator of their run          *)
(* (pkg/ai-stream/approval_command.go) and remember what was answered in   *)
(* the metadata of the login (pkg/connector/approvals.go), which all rooms *)
(* share.  Calls, commands and timers run on goroutines of their own.      *)
(***************************************************************************)
EXTENDS Naturals, Sequences, FiniteSets

CONSTANTS
    NumCalls,     \* calls of get_session
    NumIds,       \* approval ids: made of the tool call ids a model chooses
    MaxAnswers,   \* bound: /approve commands that find a request
    MaxEvents     \* bound: /reset-approvals commands and restarts, together

ApprovalsAssumption == {NumCalls, NumIds, MaxAnswers, MaxEvents} \subseteq Nat
ASSUME ApprovalsAssumption

VARIABLES
    runOf,      \* the run of each call, numbered by its first call
    idOf,       \* its approval id
    pc,         \* where each call is
    response,   \* the ToolApprovalResponse it waits for
    pending,    \* the calls in the maps c.pending of the coordinators
    channel,    \* pending.response of each call, room for one
    cancelled,  \* runs whose context is cancelled
    command,    \* the call the /approve command of each room has looked up
    reset,      \* where the /reset-approvals command is
    decision,   \* meta.Approvals in memory: no map, a map without the key, or its decision
    stored,     \* the decision in the database
    image,      \* the decision each UserLogin.Save has read and not yet written
    heard,      \* history: answers accepted for each call, which the user was told
    events      \* reset commands and restarts so far; crashes do not count

inputVars   == <<runOf, idOf>>
callVars    == <<pc, response>>
coordVars   == <<pending, channel>>
commandVars == <<command, heard>>
loginVars   == <<decision, stored, image>>
consentVars == <<inputVars, callVars, coordVars, commandVars, loginVars, reset, cancelled, events>>

Calls == 1 .. NumCalls
Runs  == Calls           \* each call may have a run, and a room, of its own
Ids   == 1 .. NumIds
NoCall == 0
NoAnswer == "none"

Choices   == {"approve", "always_approve", "deny"}
Responses == Choices \union {"timed_out", "aborted"}
Stored    == {"none", "approved", "denied"}
Decisions == {"unset", "empty", "approved", "denied"}
Waiting   == {"publish", "wait", "delete"}
Remembering == {"open", "make", "write", "save", "store"}
Ended     == {"shared", "withheld", "failed", "lost"}
ResetCommand == 0
Savers    == Calls \union {ResetCommand}
Approving == {"approve", "always_approve"}

Marshalled(d)   == IF d \in {"unset", "empty"} THEN "none" ELSE d
Unmarshalled(s) == IF s = "none" THEN "unset" ELSE s
SameKey(c, d) == runOf[c] = runOf[d] /\ idOf[c] = idOf[d]

\* Mutant for ProfileNeedsConsent: every approval is remembered.
RemembersApproval(answer) ==
    IF answer \in Approving THEN "approved"
    ELSE IF answer = "deny" THEN "denied" ELSE "none"

\* Mutant for RememberedWasAnswered: the reason of a refusal is not looked at.
RemembersRefusal(answer) ==
    IF answer = "always_approve" THEN "approved"
    ELSE IF answer = "approve" THEN "none" ELSE "denied"

\* What an answer makes the login remember, "none" for nothing.
Remembers(answer) ==
    IF answer = "always_approve" THEN "approved"
    ELSE IF answer = "deny" THEN "denied" ELSE "none"

StepsTo(c, label) == pc' = [pc EXCEPT ![c] = label]

ConsentInit ==
    /\ runOf \in [Calls -> Runs] /\ \A c \in Calls : runOf[c] <= c
    /\ idOf \in [Calls -> Ids]
    /\ pc = [c \in Calls |-> "idle"]
    /\ response = [c \in Calls |-> NoAnswer]
    /\ pending = {}
    /\ channel = [c \in Calls |-> NoAnswer]
    /\ cancelled = {}
    /\ command = [r \in Runs |-> NoCall]
    /\ heard = [c \in Calls |-> <<>>]
    /\ decision = "unset" /\ stored = "none"
    /\ image = [w \in Savers |-> "none"]
    /\ reset = "idle" /\ events = 0

-----------------------------------------------------------------------------
(* A call, resolveBeeperProfileForSession and Request.                     *)

StartCall(c) ==
    /\ pc[c] = "idle"
    /\ StepsTo(c, "look")
    /\ UNCHANGED <<response, coordVars, commandVars, loginVars, reset, cancelled, events, inputVars>>

\* A remembered decision answers without asking.
LookAtDecision(c) ==
    /\ pc[c] = "look"
    /\ \/ decision = "approved" /\ StepsTo(c, "fetch")
       \/ decision = "denied" /\ StepsTo(c, "withheld")
       \/ decision \in {"unset", "empty"} /\ StepsTo(c, "add")
    /\ UNCHANGED <<response, coordVars, commandVars, loginVars, reset, cancelled, events, inputVars>>

\* c.Delete removes whatever is pending under the id.
Removed(c) == {d \in pending : ~SameKey(c, d)}

\* Mutant for PendingIsWaiting: the Delete is deferred before the add.
AddRequestWithdraws(c) ==
    /\ pc[c] = "add"
    /\ IF \E d \in pending : SameKey(c, d)
       THEN StepsTo(c, "failed") /\ pending' = Removed(c)
       ELSE StepsTo(c, "publish") /\ pending' = pending \union {c}
    /\ UNCHANGED <<response, channel, commandVars, loginVars, reset, cancelled, events, inputVars>>

\* An id that is pending already is refused; its request stays.
AddRequest(c) ==
    /\ pc[c] = "add"
    /\ IF \E d \in pending : SameKey(c, d)
       THEN StepsTo(c, "failed") /\ UNCHANGED pending
       ELSE StepsTo(c, "publish") /\ pending' = pending \union {c}
    /\ UNCHANGED <<response, channel, commandVars, loginVars, reset, cancelled, events, inputVars>>

\* PublishRequested; when it fails the deferred Delete withdraws the request.
PublishRequest(c) ==
    /\ pc[c] = "publish"
    /\ \/ StepsTo(c, "wait") /\ UNCHANGED pending
       \/ StepsTo(c, "failed") /\ pending' = Removed(c)
    /\ UNCHANGED <<response, channel, commandVars, loginVars, reset, cancelled, events, inputVars>>

\* wait: whichever of answer, timer and context the select takes.
Receives(c, answer) ==
    /\ pc[c] = "wait"
    /\ response' = [response EXCEPT ![c] = answer]
    /\ StepsTo(c, "delete")
    /\ UNCHANGED <<pending, commandVars, loginVars, reset, cancelled, events, inputVars>>

TakeAnswer(c) ==
    /\ channel[c] # NoAnswer
    /\ Receives(c, channel[c])
    /\ channel' = [channel EXCEPT ![c] = NoAnswer]

\* Mutant for RequestsEnd: no timer is started.
TimeOutOff(c) == FALSE

TimeOut(c) == Receives(c, "timed_out") /\ UNCHANGED channel

WaitAborted(c) ==
    /\ runOf[c] \in cancelled
    /\ Receives(c, "aborted")
    /\ UNCHANGED channel

DeleteRequest(c) ==
    /\ pc[c] = "delete"
    /\ pending' = Removed(c)
    /\ StepsTo(c, IF Remembers(response[c]) = "none" THEN "respond" ELSE "open")
    /\ UNCHANGED <<response, channel, commandVars, loginVars, reset, cancelled, events, inputVars>>

\* PublishResponded.
PublishResponse(c) ==
    /\ pc[c] = "respond"
    /\ \/ StepsTo(c, IF response[c] \in Approving THEN "fetch" ELSE "withheld")
       \/ StepsTo(c, "failed")
    /\ UNCHANGED <<response, coordVars, commandVars, loginVars, reset, cancelled, events, inputVars>>

FetchProfile(c) ==
    /\ pc[c] = "fetch"
    /\ \/ StepsTo(c, "shared")
       \/ StepsTo(c, "failed")
    /\ UNCHANGED <<response, coordVars, commandVars, loginVars, reset, cancelled, events, inputVars>>

-----------------------------------------------------------------------------
(* BeforeResponded: saveApprovalDecision, without a lock on the map.       *)

OpenMap(c) ==
    /\ pc[c] = "open"
    /\ StepsTo(c, IF decision = "unset" THEN "make" ELSE "write")
    /\ UNCHANGED <<response, coordVars, commandVars, loginVars, reset, cancelled, events, inputVars>>

MakeMap(c) ==
    /\ pc[c] = "make"
    /\ decision' = "empty"
    /\ StepsTo(c, "write")
    /\ UNCHANGED <<response, coordVars, commandVars, stored, image, reset, cancelled, events, inputVars>>

WriteDecision(c) ==
    /\ pc[c] = "write"
    /\ decision # "unset"
    /\ decision' = Remembers(response[c])
    /\ StepsTo(c, "save")
    /\ UNCHANGED <<response, coordVars, commandVars, stored, image, reset, cancelled, events, inputVars>>

\* UserLogin.Save reads the metadata and then writes the row.
ReadMetadata(w) ==
    /\ image' = [image EXCEPT ![w] = Marshalled(decision)]
    /\ UNCHANGED <<response, coordVars, commandVars, decision, stored, cancelled, events, inputVars>>

WriteRow(w) ==
    /\ stored' = image[w]
    /\ image' = [image EXCEPT ![w] = "none"]
    /\ UNCHANGED <<response, coordVars, commandVars, decision, cancelled, events, inputVars>>

SaveReads(c) ==
    /\ pc[c] = "save"
    /\ ReadMetadata(c)
    /\ StepsTo(c, "store")
    /\ UNCHANGED reset

SaveWrites(c) ==
    /\ pc[c] = "store"
    /\ WriteRow(c)
    /\ StepsTo(c, "respond")
    /\ UNCHANGED reset

\* The memory keeps a decision that the database refused.
SaveFails(c) ==
    /\ pc[c] = "store"
    /\ image' = [image EXCEPT ![c] = "none"]
    /\ StepsTo(c, "failed")
    /\ UNCHANGED <<response, coordVars, commandVars, decision, stored, reset, cancelled, events, inputVars>>

-----------------------------------------------------------------------------
(* The commands of the user, and the context of a run.                     *)

AnswersGiven == {p \in Calls \X (1 .. MaxAnswers) : p[2] \in DOMAIN heard[p[1]]}

LookUpRequest(r, c) ==
    /\ command[r] = NoCall
    /\ runOf[c] = r /\ c \in pending
    /\ Cardinality(AnswersGiven) < MaxAnswers
    /\ command' = [command EXCEPT ![r] = c]
    /\ UNCHANGED <<callVars, coordVars, heard, loginVars, reset, cancelled, events, inputVars>>

\* Resolve sends without waiting: a full channel refuses the answer.
SendAnswer(r, answer) ==
    LET c == command[r] IN
    /\ c # NoCall
    /\ command' = [command EXCEPT ![r] = NoCall]
    /\ IF channel[c] = NoAnswer
       THEN /\ channel' = [channel EXCEPT ![c] = answer]
            /\ heard' = [heard EXCEPT ![c] = Append(@, answer)]
       ELSE UNCHANGED <<channel, heard>>
    /\ UNCHANGED <<callVars, pending, loginVars, reset, cancelled, events, inputVars>>

CancelRun(r) ==
    /\ r \notin cancelled
    /\ \E c \in Calls : runOf[c] = r /\ pc[c] \notin Ended
    /\ cancelled' = cancelled \union {r}
    /\ UNCHANGED <<callVars, coordVars, commandVars, loginVars, reset, events, inputVars>>

ForgetDecisions ==
    /\ reset = "idle" /\ events < MaxEvents
    /\ events' = events + 1
    /\ decision' = "unset"
    /\ reset' = "save"
    /\ UNCHANGED <<callVars, coordVars, commandVars, stored, image, cancelled, inputVars>>

ResetReads ==
    /\ reset = "save"
    /\ ReadMetadata(ResetCommand)
    /\ reset' = "store"
    /\ UNCHANGED pc

ResetWrites ==
    /\ reset = "store"
    /\ WriteRow(ResetCommand)
    /\ reset' = "idle"
    /\ UNCHANGED pc

ResetFails ==
    /\ reset = "store"
    /\ image' = [image EXCEPT ![ResetCommand] = "none"]
    /\ reset' = "idle"
    /\ UNCHANGED <<callVars, coordVars, commandVars, decision, stored, cancelled, events, inputVars>>

-----------------------------------------------------------------------------
(* The end of the process: runs, commands and memory are gone.             *)

StopsProcess ==
    /\ pc' = [c \in Calls |-> IF pc[c] \in {"idle"} \union Ended THEN pc[c] ELSE "lost"]
    /\ pending' = {}
    /\ command' = [r \in Runs |-> NoCall]
    /\ reset' = "idle"
    /\ cancelled' = {}
    /\ decision' = Unmarshalled(stored)
    /\ image' = [w \in Savers |-> "none"]
    /\ channel' = [c \in Calls |-> NoAnswer]
    /\ response' = [c \in Calls |-> IF pc[c] \in Ended THEN response[c] ELSE NoAnswer]
    /\ UNCHANGED <<heard, stored, inputVars>>

RestartBridge ==
    /\ events < MaxEvents
    /\ events' = events + 1
    /\ StopsProcess

\* An assignment to a nil map panics, and nothing recovers a tool's goroutine.
PanicsOn(c) == pc[c] = "write" /\ decision = "unset"

Panic(c) == PanicsOn(c) /\ StopsProcess /\ UNCHANGED events

\* The runtime may stop a process that reads or writes a map being written.
MapFault(c, d) ==
    /\ c # d
    /\ pc[c] = "write" /\ decision # "unset"
    /\ pc[d] \in {"look", "write", "save"}
    /\ StopsProcess
    /\ UNCHANGED events

-----------------------------------------------------------------------------
CallStep(c) ==
    \/ LookAtDecision(c) \/ AddRequest(c) \/ PublishRequest(c)
    \/ TakeAnswer(c) \/ TimeOut(c) \/ WaitAborted(c)
    \/ DeleteRequest(c) \/ OpenMap(c) \/ MakeMap(c) \/ WriteDecision(c)
    \/ SaveReads(c) \/ SaveWrites(c) \/ SaveFails(c)
    \/ PublishResponse(c) \/ FetchProfile(c) \/ Panic(c)

ConsentNext ==
    \/ \E c \in Calls : StartCall(c) \/ CallStep(c)
    \/ \E r \in Runs, c \in Calls : LookUpRequest(r, c)
    \/ \E r \in Runs, answer \in Choices : SendAnswer(r, answer)
    \/ \E r \in Runs : CancelRun(r)
    \/ ForgetDecisions \/ ResetReads \/ ResetWrites \/ ResetFails
    \/ RestartBridge
    \/ \E c, d \in Calls : MapFault(c, d)

\* A goroutine that has begun a call is scheduled, its timer fires and its
\* network requests return.
Fairness == \A c \in Calls : WF_consentVars(CallStep(c))

ConsentSpec == ConsentInit /\ [][ConsentNext]_consentVars /\ Fairness

-----------------------------------------------------------------------------
(* Every variable has its type.                                            *)
TypeOK ==
    /\ runOf \in [Calls -> Runs] /\ idOf \in [Calls -> Ids]
    /\ pc \in [Calls -> {"idle", "look", "add", "respond", "fetch"}
                            \union Waiting \union Remembering \union Ended]
    /\ response \in [Calls -> Responses \union {NoAnswer}]
    /\ pending \subseteq Calls
    /\ channel \in [Calls -> Choices \union {NoAnswer}]
    /\ cancelled \subseteq Runs
    /\ command \in [Runs -> Calls \union {NoCall}]
    /\ reset \in {"idle", "save", "store"}
    /\ decision \in Decisions /\ stored \in Stored
    /\ image \in [Savers -> Stored]
    /\ heard \in [Calls -> Seq(Choices)]
    /\ events \in Nat

\* The user's first accepted answer for call c was `answer`.
AnsweredFirst(c, answer) == heard[c] # <<>> /\ heard[c][1] = answer

(* A coordinator holds exactly the requests that are published or waited   *)
(* for, at most one for an id: a request refused as a duplicate, a failed  *)
(* publication and a time-out withdraw their own request and no other      *)
(* (Request, add and Delete, approval_command.go:92-204).                  *)
PendingIsWaiting ==
    /\ pending = {c \in Calls : pc[c] \in Waiting}
    /\ \A c, d \in pending : SameKey(c, d) => c = d

(* The profile is fetched for a call only if the user's first accepted     *)
(* answer for that call allows it, or the call did not ask and the user    *)
(* chose "always" before: never after a time-out, an abort, a denial or an *)
(* answer to another request (resolveBeeperProfileForSession,              *)
(* approvals.go:136-165).                                                  *)
ProfileNeedsConsent ==
    \A c \in Calls : pc[c] \in {"fetch", "shared"} =>
        IF response[c] = NoAnswer
        THEN \E d \in Calls : AnsweredFirst(d, "always_approve")
        ELSE response[c] \in Approving /\ AnsweredFirst(c, response[c])

(* What the login remembers, in memory, in the database or on its way      *)
(* there, is what the user's first accepted answer to some request said: a *)
(* request that timed out or was cancelled is never remembered as a denial *)
(* (BeforeResponded, approvals.go:147-161).                                *)
RememberedWasAnswered ==
    \A d \in {decision, stored} \union {image[w] : w \in Savers} :
        d \in {"approved", "denied"} =>
            \E c \in Calls, answer \in Choices :
                AnsweredFirst(c, answer) /\ Remembers(answer) = d

(* Again and again no call is in progress: an unanswered request times     *)
(* out, and no call waits for an answer that was given to another one      *)
(* (ApprovalCoordinator.wait, approval_command.go:206-221).                *)
RequestsEnd == []<>(\A c \in Calls : pc[c] \in {"idle"} \union Ended)

(* "The bridge resolves the choice, emits a TOOL_CALL_RESULT, and resumes  *)
(* the run" (README.md:236): the answer for which /approve replied         *)
(* "Approved. Continuing." is the one the call went on with.               *)
ChoiceIsResolved ==
    \A c \in Calls : pc[c] \in {"shared", "withheld"} =>
        \A i \in DOMAIN heard[c] : heard[c][i] = response[c]

=============================================================================
