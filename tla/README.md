# TLA+ models of the AI bridge

This directory holds a TLA+ development of the Go program in this repository: a
Matrix bridge that turns chat rooms into conversations with language models.
`*.tla` are the modules, `*.cfg` the TLC configurations, and `PROJECT.json` lists
the runs, the code every definition stands for, the disagreements found, the
hazards and the theorems. Paths below are relative to `src/`.

## The system

| Part | Source | State it keeps | Modules |
|---|---|---|---|
| Agent loop | `pkg/agent/agent_loop.go` | the context and the new messages of one run | AgentHarness |
| Agent harness | `pkg/agent/harness/agent_harness.go` | phase, three queues, deferred writes, the registered run | AgentHarness, Inbox |
| Compaction | `pkg/agent/harness/compaction.go`, `branch_summarization.go` | none | AgentHarness, SessionTree |
| Session tree | `pkg/agent/harness/session`, `pkg/aidb/session_storage.go` | entries with parents, a leaf | SessionTree |
| Connector room | `pkg/connector/client.go` | active run and harness of each room; pending, consumed and streams of each run | ActiveRuns |
| Stream writer | `pkg/ai-stream`, `pkg/ag-ui` | the events of an answer, a publish cursor | AguiRun, RunStream |
| Stream records | `pkg/aidb/active_streams.go`, the janitor in `client.go` | answers in flight, on disk | ActiveStreams |
| Approvals | `pkg/ai-stream/approval_command.go`, `pkg/connector/approvals.go` | pending approvals; the remembered decision | Approvals |
| Provider adapters | `pkg/ai/providers` | one decoder and one event stream per request; Codex websockets | CodexTransport, AssistantStream, ProviderStreams, Requests |
| Logins, providers, tokens | `pkg/connector/login*.go`, `provider*.go`, `chatgpt_device_login.go` | a login's providers with tokens, in memory and on disk; cached contacts | Providers |
| Settings, tools of a run, titles | `pkg/connector/room_state.go`, `slash_commands_*.go`, `builtin_tools.go`, `chat_tools.go` | a room's model, tools and name | RoomSettings |
| Tools, conversions, media, proxy | `pkg/chattools`, `pkg/msgconv`, `pkg/agent/proxy.go` | none that matters here | not modelled |

How they interact. The portal of a room handles its events one after another. A
message either is *steered* into the harness of the room's active run or starts
a run: a goroutine that calls the harness, which calls the agent loop, which
calls the provider and the tools and reports every message back to the harness,
which writes it to the session and tells its subscribers, among them the
connector, which marks the room's messages as sent. Each provider response is a
stream of events; the connector writes them to the run's AG-UI events, publishes
these as numbered envelopes, keeps a record of the answer in the database until
its final edit is sent, and finishes records that others left behind. Before
each request the harness asks for credentials, which may refresh a token of the
login. Commands, new chats and clients change the settings that the next prompt
reads. `!ai abort` and `/abort` reach the harness from other goroutines.

What is hard. The harness's queues, phase and deferred writes are shared without
a lock; a cancelled context fails every later write; a run passes through
windows in which it is alive but idle; the connector looks a run up and uses it
later; a session, a login and a websocket have several writers under different
locks or none; publications, saves and token answers are lost half way; the
bridge may stop between any two writes. `hazards` in PROJECT.json names each, at
its line, with the property that covers it or what is missing to state one.

What makes each part correct:

* harness: no message handed to it is lost, repeated or reordered; the session
  keeps tool results with their calls; requests are well formed; calls return.
* session tree: entries form a forest; what was appended stays on the branch until
  somebody moves the leaf or overlaps; views of a branch are whole.
* room: each message is written once and ends with one status.
* writer: well-formed events, each under one sequence number, and a final edit
  with everything. Records: every answer ends once, also after a crash.
* approvals: each request gets the user's first answer or none.
* adapters: the message is the server's reply, a request is what its API accepts
  and says what the session said, a delta completes what the server knows.
* logins and settings: what is saved stays saved, a rotating token is spent once,
  a run fits its room, a command changes what it names.

## Modules

**AgentHarness** models the harness and the loop under it, over one branch of a
session. One runner goroutine (`pc`) executes Prompt, Continue or Compact step by
step: `StartRun`, `CreateContext`, `TakeNextTurn`, the loop (`AppendTodo`,
`DrainLoad`/`DrainStore`/`DrainDone`, `Respond`, `ToolResult`, `PrepareNextTurn`),
the flushes of deferred writes, and the deferred `SetIdle`/`CloseRun`. Each step that
can fail has its failing twin (`BeginFails`, `DrainFails`, `WriteFails`,
`FlushFails`, `CompactFails`, `RespondAborted`, `ToolBatchCut`). Other goroutines
call `EnqueueLoad`/`EnqueueStore` (Steer, FollowUp, NextTurn), `AppendWrite`
(AppendMessage, SetModel, SetThinkingLevel) and Abort in its five steps. A context is
a set of positions of the session, which is what BuildSessionContext selects. Token
counts are abstracted: `CutPoints` holds every cut FindCutPoint can return for some
counts. Storage fails when the run's context is cancelled, and by itself when
`Faults`. Without `Racy` the read and the write of a queue by one goroutine are not
interleaved with another's; with it they are, as the unlocked code allows.
**Inbox** is what the harness promises about messages: held once accepted, then
delivered, given back or dropped, never twice; `ImplementsInbox` is the refinement.

**SessionTree** models the rows, parents and leaf of a session. A writer's call goes
step by step as in the code: an append makes an id, reads the leaf and inserts; a
move reads and checks its target, makes an id and inserts a marker. Ids are
the first eight digits of a time-ordered UUID, so two calls may be given the same
one (`FreshIds`). Two storages implement it, SQLite files and the bridge's database;
the module has the second's foreign key and both ways to fail. "user" entries
stand for custom messages too, deletions for labels and model changes.

**ActiveRuns** models one room: the portal loop (`Receive`, `AddPending`, `Steer`,
`RemovePending`, `ClearActiveRun`, `SetActiveHarness`, `SetActiveRun`), the goroutine of
each run with overflow recovery and automatic compaction, and the abort command, in
the portal loop (`/abort`) or beside it (`!ai abort`). Of each harness it keeps the
phase, the steer queue, the registration of a run and its cancellation.

**AguiRun** has the operations of a Writer on a run, the validator of event sequences
and the projections a client is shown, as operators on one record. **RunStream**
drives them as the connector does: a turn's stream function, the provider's events,
tools between two turns, approvals, and the final edit. Each publication is a
carrier that may be lost, arrive without an answer, or arrive and not be recorded;
the cursor moves only when it was acknowledged.

**ActiveStreams** models the records of answers in flight: the goroutines of the
runs from anchor to final edit, the record each stores and deletes, `/abort`, the
crash of the process, the recovery at a connection and the janitor, which list
records first and then take, check, repair and edit one after another.

**Approvals** models consent to share the user's profile: the path of a `get_session`
call through `resolveBeeperProfileForSession` and `Request`, the coordinator's map and
the one-place channels, `/approve` in two steps (find the request, send the answer),
`/reset-approvals`, cancellation, and the end of the process. The decision is kept
twice, in memory and in the database; no lock separates the goroutines, so
assigning to a map that a reset has just removed panics (`Panic`), and a map read or
written during a write may be fatal (`MapFault`). `heard` is a history of the answers
that `/approve` reported as accepted.

**CodexTransport** models how a request reaches the Codex backend: the cached
websocket of a session, its continuation (previous response and baseline), the
delta of a request, idle timers that fire late, clean-ups, the fallback to
server-sent events and its retries. The server remembers, per connection, the
context of each response; nothing else is assumed of it.

**AssistantStream** is what all decoders share: the server's reply, written in numbered
chunks, the assistant message, and the events pushed with what a reader makes of
them (`view`). **ProviderStreams** adds the decoders of completions, Responses (which
Codex uses too), Anthropic and Google, with the order of events each API allows.

**Requests** translates `transformMessages` and the four Convert functions: any session
of messages by any models becomes a request. Its state is only the session; the
properties compare `Request(m)` with it for every model. Servers give every call a new id
(`NextNumbers`), except the completions server, whose ids may repeat from message to message.

**Providers** models a user's login: how it is found, made and replaced, provider
changes under their lock, device login, token refresh under another lock, and the
cached contacts. A Save is two steps, encode and write. **RoomSettings** extends it
with a room: its settings, the commands, prompts, new chats and clients that read
and write them, the run that is started and the tools it gets, and the title of a
new chat. `Accounts` runs both together.

**AgentHarnessProofs**, **SessionTreeProofs**, **ActiveRunsProofs**, **ActiveStreamsProofs**,
**CodexTransportProofs**, **RunStreamProofs**, **ProviderStreamsProofs** and **RoomSettingsProofs**
have the theorems: RoomSettingsProofs also those of Providers and Approvals, which share the
login, and ProviderStreamsProofs those of Requests. **MCAgentHarness** and **MCSessionTree**
give TLC values and a symmetry.

## Runs

| Run | Shows | Bounds |
|---|---|---|
| HarnessQueues | conservation and order of messages, no silent loss; implements Inbox; every call returns | 3 messages, 2 runs, 1 abort, everything may fail, queues drained all at once |
| HarnessSession | results follow calls; deferred writes saved once; requests well formed over compactions | 2 calls a turn, 2 turns, 1 message, 1 note, 3 runs (prompt, compact, continue in any order), 1 abort |
| Room | own entries, nothing held by dead runs, each message gets a status | 2 messages, 1 tool turn, 1 abort beside the loop |
| ApprovalsConsent | only the user's first answer shares the profile or is remembered; requests end | 2 calls of one run or two, same id, 2 answers, 1 reset or restart |
| SessionWriters | a forest with a valid leaf; finished appends stay; views of a branch are whole | 2 writers, 4 entries |
| RunStream | bracketed events, replay of a beginning, complete final parts | 2 turns, 2 blocks, 2 calls, 2 deltas, 1 failed carrier |
| ActiveStreams | stored answers end, complete ones stay complete, the last message's calls answered once | 2 answers, one with 2 tool turns, 1 crash or abort |
| CodexTransport | deltas complete the context; one request a connection; streams start and end once; requests end | 3 requests, 2 at a time, 1 retry, 1 fault |
| ProviderStreams | the message and its events are the reply; a cut-off is an error | 4 APIs, 3 items, 4 chunks |
| Requests | every call answered, nothing lost, nothing the API refuses | 6 models, 4 messages |
| Accounts | changes are saved and kept, tokens spent once, the list current, runs fit, settings and names keep | 3 calls, 2 at a time, 3 tokens, 2 faults |
| RoomRetryDoc | a disagreement, below | the smallest that shows it |

Why the bounds are enough. Three messages let one be in the loop while two are in a
queue, so that order and put-back matter. Two calls a turn let a batch be cut
between results. Three runs let a compaction fall between two turns. In the room
every message can be the one of a new run, so two messages give two overlapping
runs, and one abort meets each of their states. Two calls are enough for a
duplicate approval id, for a second save between the steps of a first, and for an
answer that reaches a channel the first has left. Four entries let a
compaction, a marker and two appends overlap. Two turns with two blocks let a
writer find what another left open, and a tool fall between two texts. Two answers
let one be recovered while another runs, and two tool turns let a record know more
calls than those of its last message. The third Codex request meets the
continuation the first two left. Three items and four chunks let two items
interleave and a third be named differently. Six models are all combinations of
API and compatibility that the conversions tell apart; four messages hold a
call, its result, another model's reply and a question. Two overlapping calls of three
let a refresh or a lookup fall into another call's save, and a third find the result.
Counters (`MaxMsgs`, `MaxTurns`, `MaxNotes`, `MaxRuns`, `MaxAborts`, `MaxCalls`,
`MaxAnswers`, `MaxEvents`, `MaxRows`, `MaxFaults`, `MaxOverlap`, `MaxRetries`,
`MaxTokens`, `MaxItems`, `MaxChunks`, `MaxMessages`) bound only what the environment
does. CHECK_DEADLOCK is off where the system may stop: nobody has to send another
message.

Fairness is weak fairness of what has begun: the runner or run goroutines, the
portal loop in the middle of an event, the second half of a Steer, an Abort, a
call that asks for approval, a Codex request, and in ActiveStreams the janitor's ticker
and the recovery. The Go scheduler runs goroutines that can run, providers time out
(`activeStreamIdleTimeout`), an approval has a timer, and nothing obliges users to send,
answer or abort. Room has one fairness condition for all its goroutines together:
what is left to do is finite, so none can be passed over for ever.

## Disagreements between code and documents

`RoomRetryDoc` is a run: client.go:583 (and README.md:401) speaks of one
compact-and-retry attempt after an overflow; the retry is answered from the failed
stream (client.go:1082) and never reaches the provider.

The modules state the following too, as properties that do not hold. They are in
no configuration; adding one to the configuration named finds the counterexample.

* `LoopServesQueues` (HarnessSession): README.md:332 says the loop repeats while
  messages are queued; a response with stop reason error or length ends it at once.
* `AbortClearsQueues` (HarnessQueues, `Racy = TRUE`): abort "clears queued messages"
  (README.md:437); an unlocked Steer can write back what was cleared.
* `ChoiceIsResolved` (ApprovalsConsent): "the bridge resolves the choice"
  (README.md:236); an answer that finds a request which has expired and is not deleted
  yet is accepted, acknowledged with "Approved. Continuing.", and ignored.
* `BranchingIsMoving` (SessionWriters): "Branching = moving the leaf" (README.md:393);
  two appends that overlap branch the conversation, and the first one's entry is lost.
* `FinalTextIsComplete` (RunStream): the final edit is the "consolidated result"
  (README.md:176); its text is the latest snapshot (message.go:41), which after an
  approval is that of the interrupt, so the text that follows is missing from it.
* `ResultsFollowTheirCalls` (ActiveStreams): "resumable" across restarts (README.md:60);
  after a crash before message_end the recovery appends error results of calls whose
  message never reached the session. This can be what `Requests` excludes by assumption.
* `CallsAreAnsweredOnce` (ActiveStreams): what a recovery appends is the "failed tool result
  after interrupted tool call" (stream_test.go:744). The record has the tool parts of all
  turns of an answer (client.go:2318), and results are looked for only behind the entry of
  its last message: after a crash in a second tool turn the calls of the first get
  another result, an error. What holds is `LastCallsAreAnsweredOnce`.
* `ErrorsClearContinuation` (CodexTransport): "expected continuation to be cleared on
  websocket error" (openai_codex_responses_test.go:608); a cancelled response sets no
  error message, so line 377 of openai_codex_responses.go misses it and keeps it.
* `ModelCommandsAreObeyed` (Accounts): the level is clamped when a model is set
  (README.md:434, 518); `/model` refuses a model that lacks the room's level.

Also met while modelling, and kept in the models as the code has it: an abort that
finds the harness published and its run not registered cancels nothing, and the
message it reports as aborted is answered (README.md:437); TOOL_CALL_END may come
twice and events follow an interrupt's RUN_FINISHED, both of which the validator
refuses (the bridge does not call it); one failed websocket moves a session to
server-sent events for good; a Responses or Google stream that just ends is done; a
title already asked for overwrites the user's name; a Save that overlaps one of
another lock can put an older row back (`torn`). `mergeProviderCatalogModel`
writes into a clone of a nil map when only the configured model has `compat`; the
models do not go into models' options.

## Proofs

All theorems are of the form `Spec => []Inv` or `Spec => [][A]_vars` and hold for all
constants that satisfy the module's named assumption, which are only the types the code
gives them (for Requests, that the models are among those it knows). No liveness is proved.
In each module below, an invariant that holds at first (`InitInv`), one lemma or step for
every action, and the implications lead to the theorems listed in PROJECT.json.

**AgentHarness**: for every queue mode, both ways to run tools, with or without faults, and
any bounds. `TypeOK`, `ToolResultsFollowCalls` and `NoOrphanToolResult` follow from `IInv`:

* `DrainInv`: what the loop has read of a queue and is about to take is not empty;
* `BusyInv`: the phase is not idle from the begin of a run to its close, so a write
  of another goroutine is deferred then;
* `ToolsInv`: while tools run, not all calls have a result, and the session ends with
  the response that made the calls if none has, and otherwise with the result of the
  last one, which the context of the loop holds too;
* `SessionInv`: results follow calls (`Paired`), and what each compaction keeps begins
  at an earlier entry that is no tool result (`Kept`);
* `ContextInv`: the context of the loop lies in the session and keeps the call of
  each result.

The only steps that append a result are those of a tool batch, where `ToolsInv` gives
the neighbour; deferred writes cannot come between because of `BusyInv`; a compaction
cuts at a valid cut point or before the non-messages in front of it, so what it shows
keeps calls. `InputInv` (the loop asks on only after input, and after a turn with calls
the branch ends with their results) gives `RequestEndsWithInput`; `WriteInv` (a write has
one place, in the session or among the pending) gives `WriteConservation`.

Four more theorems assume `~Racy`, as the runs do: with `Racy` they are false, because
the code reads and writes its queue slices without a lock. `MessageInv` names the homes a
message can have, three queues, the loop, the session, the hand of a caller, the result
of an Abort, and what failed runs dropped, and says that they are disjoint, that
each holds a message once, and that whoever updates a queue knows what is in it.
`MessageConservation` counts one place out of that. `OrderInv` puts the homes one before
the other, session, loop, queue, caller, which gives `QueueOrder`. `HarnessIsAnInbox` is the
refinement: every step of the harness settles, adds or holds messages as one step
of Inbox does, or stutters. `AbortsClearTheQueues` is what README.md:437 says of an abort.

**SessionTree**: for any number of writers and entries. The forest alone (`TreeOK`) is not
inductive: a writer inserts below a leaf it read earlier. `CallsOK` says that what a
writer holds between its calls is still there when it inserts, because entries are only
removed with the whole session; two calls with one id meet the primary key. A branch is
a recursive function, so its properties rest on a theory of its own: the ancestors of an
entry are what every set has that has the entry and is closed under parents; they solve
the equation of `Path`, and, a parent being before its child, it has one solution
(`PathIs`). `HistoryInv` then says of every entry, and of the parent of every append under
way, what was lost of the branch since the append began, and of every compaction that
what it keeps is on its branch as long as nobody else wrote. `FinishedAppendsStay` and
`BranchViewsAreWhole` follow: what a move collects is a difference of two paths because the
ancestors of an entry are a line, and a copied branch is its own branch because a
copy keeps order and parents (`CopiedBranch`).

**ActiveRuns**: for any number of messages, turns and aborts. A message not written yet is
owned by one run or by the portal's loop (`OnceInv`), and as long as nobody has aborted,
the list a run pairs echoes with is exactly what it is to write, what was steered into
it and what it is being offered (`ListInv`). So the first of the list is the message just
written (`EchoesOwnEntry`), and an ended run has none (`DeadRunsHoldNothing`).

**RunStream**: for any number of turns, blocks, deltas and failed carriers, and any finite set
of tool calls (`CallsAreFinite`). `CursorOK` says that the seqs that arrived are a beginning of the
run with all that the cursor counts as published; it gives `ClientsReplayARunsBeginning`.
`StreamIsBracketed` is not inductive: it needs that what the validator sees open is what the
writer at work has in its sets (`Sound`). Each operation of a writer leaves a run that `Follows`
the one before (more events, nothing refused but what is named) or `Ends` it, and both
compose, so that an action is a chain of such steps; `RunFits` adds what each phase
promises (between two turns nothing is open, only an approval lets a run go on after its
end). The prover has no induction over a fold: `Applied` names what each fold does, its
function is built up to any length (`FoldExists`, by the least counterexample), and from
then on a fold is a chain of states (`FoldIsAChain`). For this the content a writer
remembers is a function of the block, and the closing order passes over what is not open.

`FinalPartsAreComplete` needs `PartsInv` as well. The projection is a fold over the events of
a run, and what its parts say is a fold over the parts, so that one event either says a
token at the end of the last part of its kind or is `Quiet`; along an operation of a writer
these compose to `Voices` and `Calm`. A delta is lost or put elsewhere when the part that
is in progress is of another message than the block that speaks. `Held` (a part in progress
is of a message the writer has open) and `Owned` (while a turn streams, of a block that is
open, of which each kind has one) exclude this, and since nothing is open between two turns,
the next writer, which starts with empty sets, finds nothing in progress. Closing the parts
and filtering those that say nothing then leave what was said (`FinalPartsAre`).

**ActiveStreams**: for any number of answers, tool turns and crashes. `EntryInv` (the entry a
run, a record or a recovery names is a message of the run with calls) and `ResultInv` (what
a recovery is about to answer was answered only before a later message) are needed for
`LastCallsAreAnsweredOnce`; `EndInv` relates outcome, record and final edit, also as the
recovery has read them, for `CompleteStaysComplete`.

**ProviderStreams**: for any number of items and chunks, interleaved as each API allows. `IInv`
relates four things, the server's reply, the decoder's tables, the message and what the
events have shown: what the tables find is the block of the item (`CompletionsFiled`, `Placed`),
blocks and items are in the same order, each block has the item's text (in Responses
from the item's end at the latest, `ResponsesFiled`; without labels the open item is the current
one, `OneAtATime`), the texts rise (`TextInv`), and the events have shown all the blocks, open
where they have not ended (`Shows`). Pushed events are a fold, taken apart one event at a time
(`PushedAppend`) by the theory described above. `ReaderHasTheReply` and `CutOffIsAnError` are
what it says of a body that has ended.

**Requests**: for sessions of any length, made by any of the models that are known. `MessagesInv`
says of a session what every way to change it keeps (a reply, a failure, a result, going
back, a compaction): the calls of a reply are its last parts, with different ids in the form
of its model; a result comes after the message with its call, only other results lie between,
and none of them is of the same call; messages of different models share no call id. The last
is what the renaming needs: an id is renamed if any earlier message of another model has it,
so a shared one would be renamed in the result and not in the call. The proof then
follows the conversion: after the first pass (`Adapted`) ids and signatures fit the API and
results still belong to their calls, although some changed their name; after the second
(`SentFits`, `SentKeeps`) each call that is sent has exactly one result between it and the next
message, made up if there was none; and each API's items of a message (`ItemsFit`) keep its
calls, result and text. Both passes end in `FlattenSeq`, which is recursive through a function;
`Flat` says where each member of the result comes from, by its prefix lengths. In the request
`Pairs` is then one to one, which gives the counts of `EveryCallIsAnswered`; `NothingIsLost`
follows from what the two passes keep.

**CodexTransport**: for any number of requests, timers and faults. `MemoryInv` says what the
server knows of the response a continuation names, `SocketInv` and `FreshInv` who owns a
connection, `ToldInv` what a stream was told at each step. They give `ServerHasTheInput`,
`OneRequestAConnection` and `StreamStartsAndEndsOnce`.

**Providers and RoomSettings**: for any number of calls in flight, tokens and failures.
`LockInv` is what the two mutexes give; `TokenInv` follows each token from its issue to its
use and `SaveInv` each save that has encoded something older; `KeepInv` relates what the
user configured to memory, rows and saves in flight; `RunInv`, `NameInv` and `SeenInv` do so
for runs, titles and settings. All seven properties of `Accounts` are proved. The proof of
`EveryChangeIsSaved` failed at first: a login that is made while its row is already behind
is not covered by the overlap of two saves. `NoRow` in Providers now counts it as torn.

**Approvals**: `TypeOK`, `PendingIsWaiting`, `ProfileNeedsConsent` and `RememberedWasAnswered`
for any number of calls, ids, answers, resets and restarts. The invariant follows an
answer on its way: `FreshInv` (a call that has not asked has no answer, and no command
has found it), `AskingInv` (while a call waits, the only answer accepted for it is in
its channel), `AnswerInv` (a call goes on with the first answer accepted for it) and
`SavingInv` (a call saves only what an answer decides). Answers are never taken back
(`FirstAnswerStays`), so a decision that is copied between memory, a save in progress and
the database keeps its origin through every interleaving.

Only model-checked: all liveness, which is outside the prover, and the harness's message
properties under `Racy`, where they do not hold.

## Not modelled

Abstractions, by module:

* AgentHarness: torn slice headers of the racing queues; an Abort whose own context is
  cancelled while it waits; messages a before_agent_start hook adds; hooks around a
  tool call; setters of options that are only copied. ActiveRuns: storage failures other
  than by cancellation, streams attached to another run's record, more than one abort
  at a time, chat deletion and `/compact`.
* SessionTree: labels, session names, the JSON of an entry, token estimates.
* AguiRun, RunStream: usage, steps, activities, documents, files, the splitting of large
  carriers. ActiveStreams: reconnects of a live process, storage that fails in the
  recovery, a leaf that moves under it.
* CodexTransport: a panic ends the process; a read of a cancelled context counts as a
  cancellation. ProviderStreams: servers follow their API; summaries, refusals, citations
  and generated images. Requests: audio, generated images, tool schemas, caching,
  thinking parameters; a call id is reused only by the server that made it.
* Providers, RoomSettings: a user's very first login, explicit login ids, the catalog
  cache, refresh answers without a new refresh token, failures before a request reaches
  its server; settings are read once per event; disabled tools are mode "off"; one room
  and a small catalog.

Parts: message conversion and media (`pkg/msgconv`, `directmedia.go`, `pkg/aiid`), the
tools themselves (`pkg/chattools`), the agent wrapper and its proxy (`pkg/agent/agent.go`,
`proxy.go`), configuration and start-up beyond logins, and the test provider. They
convert data, do I/O or support tests and keep no state that others race for. The
approval queue of `pkg/ai-stream/approval.go` is used by tests only; the bridge keeps
several requests of a run pending at once, although README.md:237 speaks of one
active at a time. The bound of the event stream's channel
(`pkg/ai/event_stream.go`) matters only to a reader that stops reading; the bridge's do not.

What would come next: chat deletion and `/compact` in ActiveRuns.
