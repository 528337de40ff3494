------------------------------ MODULE Requests ------------------------------
(* What each provider is sent of a session (pkg/ai/providers:               *)
(* transform_messages.go and the Convert functions of the four APIs).  The  *)
(* messages of a session may come from several models, be cut off, lack the *)
(* results of calls that were never executed, or be a prefix or a compacted *)
(* suffix of what they were; whatever the model of the next request, the    *)
(* conversion has to make a conversation of them that its API accepts.      *)
(*                                                                          *)
(* `messages` is the branch of the session as the next request reads it.    *)
(* The results of a call follow its message, as the agent loop appends them *)
(* (that a crash can break this is ActiveStreams!ResultsFollowTheirCalls).  *)
(* A part of a request keeps the place of the message it comes from, which  *)
(* stands for its content; prices, caching, schemas of tools, audio and     *)
(* generated images are left out.                                           *)
EXTENDS Naturals, Sequences, FiniteSets, SequencesExt

CONSTANTS Models,       \* the models a session may use
          MaxMessages   \* bound on the messages of a session

VARIABLE messages

\* ----------------------------------------------------------------- models
\* A server of the completions API, OpenAI's responses, a server of the
\* responses API that is not OpenAI's, Claude, Gemini, and Claude by Google.
KnownModels == {"openrouter", "openai", "gateway", "claude", "gemini", "vertex"}
ASSUME ModelsAreKnown == Models \subseteq KnownModels
ASSUME BoundIsNatural == MaxMessages \in Nat

ApiOf(m) == CASE m = "openrouter" -> "completions"
            [] m \in {"openai", "gateway"} -> "responses"
            [] m = "claude" -> "anthropic"
            [] OTHER -> "google"
SupportsImage(m) == m # "openrouter"
RequiresAssistantAfterToolResult(m) == m = "openrouter"
RequiresToolCallID(m) == m = "vertex"

\* ---------------------------------------------------------- ids of tool calls
\* An id is its call (the number of its message, and its place there) in a
\* form: "plain" (letters, digits, - and _), "odd" (characters or a length some
\* servers refuse), "pair" (the call_id|id of a responses item).  A server of
\* completions may number the calls of each message anew, so that its ids
\* repeat; the ids of the others are new.
Id(of, at, form) == [of |-> of, at |-> at, form |-> form]
NewId(m, n, at) == CASE m = "openrouter" -> Id(0, at, "odd")
                     [] m \in {"openai", "gateway"} -> Id(n, at, "pair")
                     [] OTHER -> Id(n, at, "plain")

\* normalizeCompletionsToolCallID, normalizeResponsesToolCallID,
\* normalizeAnthropicToolCallID; Google's own models get no ids.
CompletionsForm(form) == IF form = "pair" THEN "plain" ELSE form
ResponsesForm(form, m) == IF form = "pair" THEN (IF m = "openai" THEN "pair" ELSE "joined")
                          ELSE IF form = "odd" THEN "cleaned" ELSE form
AnthropicForm(form) == CASE form = "pair" -> "joined"
                         [] form = "odd" -> "cleaned"
                         [] OTHER -> form
Form(form, m) ==
  CASE ApiOf(m) = "completions" -> CompletionsForm(form)
    [] ApiOf(m) = "responses" -> ResponsesForm(form, m)
    [] ApiOf(m) = "anthropic" \/ RequiresToolCallID(m) -> AnthropicForm(form)
    [] OTHER -> form
Normalized(id, m) == [id EXCEPT !.form = Form(@, m)]

\* ------------------------------------------------------ the session's messages
User(parts) == [role |-> "user", parts |-> parts]
Assistant(m, stop, blocks) == [role |-> "assistant", model |-> m, stop |-> stop, parts |-> blocks]
Result(id, parts) == [role |-> "toolResult", id |-> id, parts |-> parts]

Part(kind) == [kind |-> kind]
Call(id) == [kind |-> "call", id |-> id]
IdsOf(msg) == {msg.parts[k].id : k \in {j \in DOMAIN msg.parts : msg.parts[j].kind = "call"}}
\* The members of a sequence at the places in wanted.
Picked(seq, wanted) == FlattenSeq([k \in DOMAIN seq |-> IF k \in wanted THEN <<seq[k]>> ELSE <<>>])

IsResult(s, i) == i \in DOMAIN s /\ s[i].role = "toolResult"
\* The message whose results may come before i: the last that is not a result.
Owner(s, i) == SelectLastInSubSeq(s, 1, i - 1, LAMBDA x : x.role # "toolResult")
Answers(s, i, next) == {s[j].id : j \in {k \in (i + 1)..(next - 1) : k \in DOMAIN s}}
Caller == Owner(messages, Len(messages) + 1)
Unanswered == IdsOf(messages[Caller]) \ Answers(messages, Caller, Len(messages) + 1)
Executing == /\ Caller # 0 /\ messages[Caller].role = "assistant" /\ messages[Caller].stop = "toolUse"
             /\ Unanswered # {}

\* What a model may say: text, thinking it did not sign, signed thinking with
\* text and a call, white space with two calls.
Replies(m, n) == {<<Part("text")>>, <<Part("thinking")>>,
                  <<Part("signed"), Part("text"), Call(NewId(m, n, 1))>>,
                  <<Part("blank"), Call(NewId(m, n, 1)), Call(NewId(m, n, 2))>>}

\* The number of the ids of the next message: the first no call has.
Unused(n) == \A i \in DOMAIN messages :
  messages[i].role = "assistant" => \A id \in IdsOf(messages[i]) : id.of # n
NextNumbers == {n \in 1..MaxMessages : Unused(n) /\ \A k \in 1..(n - 1) : ~Unused(k)}

HasRoom == Len(messages) < MaxMessages
SessionInit == messages = <<>>
\* A message of the user.  After a crash or an abort it may find calls open.
Say(parts) == HasRoom /\ messages' = Append(messages, User(parts))
\* A reply: it ended, called tools, or was cut at its maximal length.
Reply(m, blocks, stop) ==
  /\ HasRoom /\ messages # <<>> /\ ~Executing
  /\ Last(messages).role # "assistant"
  /\ stop \in IF IdsOf([parts |-> blocks]) = {} THEN {"stop", "length"} ELSE {"toolUse", "length"}
  /\ messages' = Append(messages, Assistant(m, stop, blocks))
\* A reply that failed or was aborted, with the calls it had begun.
Fail(m, n) ==
  /\ HasRoom /\ messages # <<>>
  /\ messages' = Append(messages, Assistant(m, "error", <<Part("signed"), Call(NewId(m, n, 1))>>))
\* A tool's result, in the order the tools finish.
Finish(id, parts) ==
  /\ HasRoom /\ Executing /\ id \in Unanswered
  /\ messages' = Append(messages, Result(id, parts))
\* Going back to an earlier entry, and a compaction that keeps the messages
\* from i on.
GoBack(i) == messages' = SubSeq(messages, 1, i)
Compact(i) == /\ i > 2 /\ ~IsResult(messages, i)
              /\ messages' = <<User(<<Part("text")>>)>> \o SubSeq(messages, i, Len(messages))

Contents == {<<Part("text")>>, <<Part("image")>>}
SessionNext ==
  \/ \E parts \in Contents : Say(parts)
  \/ \E m \in Models, n \in NextNumbers :
       \/ \E blocks \in Replies(m, n), stop \in {"stop", "toolUse", "length"} : Reply(m, blocks, stop)
       \/ Fail(m, n)
  \/ Executing /\ \E id \in Unanswered, parts \in Contents : Finish(id, parts)
  \/ \E i \in DOMAIN messages : GoBack(i) \/ Compact(i)
SessionSpec == SessionInit /\ [][SessionNext]_messages

\* --------------------------------------------------------- transformMessages
\* The first pass, message by message.  Images a model cannot see become a
\* text that says so.
Downgraded(p, m) == IF p.kind = "image" /\ ~SupportsImage(m) THEN Part("text") ELSE p
\* Thinking of another model becomes text, its calls get ids of this API.
Neutral(p, m) ==
  CASE p.kind \in {"thinking", "signed"} -> Part("text")
    [] p.kind = "call" -> Call(Normalized(p.id, m))
    [] OTHER -> p
\* Mutant: a result keeps the id its session has.
RenamedNever(id, i, m) == id
\* A result follows the calls that were renamed before it.
Renamed(id, i, m) ==
  IF \E j \in 1..(i - 1) : /\ messages[j].role = "assistant" /\ messages[j].model # m
                           /\ id \in IdsOf(messages[j])
  THEN Normalized(id, m) ELSE id

Transform(msg, i, m) ==
  CASE msg.role = "user" -> User([k \in DOMAIN msg.parts |-> Downgraded(msg.parts[k], m)])
    [] msg.role = "toolResult" ->
         Result(Renamed(msg.id, i, m), [k \in DOMAIN msg.parts |-> Downgraded(msg.parts[k], m)])
    [] msg.role = "assistant" /\ msg.model # m ->
         Assistant(msg.model, msg.stop, [k \in DOMAIN msg.parts |-> Neutral(msg.parts[k], m)])
    [] OTHER -> msg
Transformed(m) == [i \in DOMAIN messages |-> Transform(messages[i], i, m)]

\* Mutant: a reply cut at its length is left out as well.
DroppedCut(msg) == msg.role = "assistant" /\ msg.stop \in {"error", "length"}
\* The second pass: replies that failed are left out, and before the next
\* message that is no result, or at the end, the calls without a result get one.
Dropped(msg) == msg.role = "assistant" /\ msg.stop = "error"
Owed(s, i) ==
  LET j == Owner(s, i) IN
  IF j = 0 \/ IsResult(s, i) \/ s[j].role # "assistant" \/ Dropped(s[j]) THEN <<>>
  ELSE Picked(s[j].parts, {k \in DOMAIN s[j].parts : /\ s[j].parts[k].kind = "call"
                                                    /\ s[j].parts[k].id \notin Answers(s, j, i)})

From(msg, i) == [msg |-> msg, at |-> i]
Step(s, i) ==
  [k \in DOMAIN Owed(s, i) |-> From(Result(Owed(s, i)[k].id, <<Part("text")>>), i)]
    \o (IF i > Len(s) \/ Dropped(s[i]) THEN <<>> ELSE <<From(s[i], i)>>)
Sent(m) == LET s == Transformed(m) IN FlattenSeq([i \in 1..(Len(s) + 1) |-> Step(s, i)])

\* ----------------------------------------------------------------- requests
\* A request is a sequence of items: who says it, what kind of part it is,
\* the place of the message it comes from, the id of a call or a result.
NoId == Id(0, 0, "none")
Item(who, kind, at, id) == [who |-> who, kind |-> kind, at |-> at, id |-> id]
\* The call_id of a responses item; Gemini matches calls by name.
Wire(id, m) == CASE ApiOf(m) = "responses" /\ id.form = "pair" -> [id EXCEPT !.form = "plain"]
                 [] ApiOf(m) = "google" /\ ~RequiresToolCallID(m) -> NoId
                 [] OTHER -> id
Spoken(m, x) == [k \in DOMAIN x.msg.parts |->
  LET p == x.msg.parts[k] IN
  Item(x.msg.role, p.kind, x.at, IF p.kind = "call" THEN Wire(p.id, m) ELSE NoId)]
Answer(m, x) == <<Item("tool", "result", x.at, Wire(x.msg.id, m))>>
Only(items, kinds) == Picked(items, {k \in DOMAIN items : items[k].kind \in kinds})
Holds(items, kind) == \E k \in DOMAIN items : items[k].kind = kind

\* ConvertCompletionsMessages.  A message of white space or unsigned thinking
\* alone is left out; images of results follow them as a user's, and some
\* servers want an assistant's message between a result and a user.
Bridge(at) == <<Item("assistant", "bridge", at, NoId)>>
Answering(s, i) == i \in DOMAIN s /\ s[i].msg.role = "toolResult"
Pictured(s, i) == \E j \in 1..i : /\ \A k \in j..i : Answering(s, k)
                                  /\ Holds(s[j].msg.parts, "image")
Completions(m, s, i) ==
  LET x == s[i] IN
  CASE x.msg.role = "user" ->
         (IF RequiresAssistantAfterToolResult(m) /\ Answering(s, i - 1) /\ ~Pictured(s, i - 1)
          THEN Bridge(x.at) ELSE <<>>) \o Spoken(m, x)
    [] x.msg.role = "assistant" ->
         LET items == Only(Spoken(m, x), {"text", "call", "signed"}) IN
         IF Holds(items, "text") \/ Holds(items, "call") THEN items ELSE <<>>
    [] OTHER ->
         Answer(m, x) \o
           IF Answering(s, i + 1) \/ ~Pictured(s, i) THEN <<>>
           ELSE (IF RequiresAssistantAfterToolResult(m) THEN Bridge(x.at) ELSE <<>>)
                  \o <<Item("user", "attached", x.at, NoId)>>

\* ConvertResponsesMessages: an item for each part; thinking only if signed.
Responses(m, s, i) ==
  IF s[i].msg.role = "toolResult" THEN Answer(m, s[i])
  ELSE Only(Spoken(m, s[i]), {"text", "blank", "image", "call", "signed"})

\* ConvertAnthropicMessages: unsigned thinking is sent as text.
Anthropic(m, s, i) ==
  LET items == Only(Spoken(m, s[i]), {"text", "image", "call", "signed", "thinking"}) IN
  IF s[i].msg.role = "toolResult" THEN Answer(m, s[i])
  ELSE [k \in DOMAIN items |-> IF items[k].kind = "thinking" THEN [items[k] EXCEPT !.kind = "text"] ELSE items[k]]

\* ConvertGoogleMessages.
Google(m, s, i) ==
  IF s[i].msg.role = "toolResult" THEN Answer(m, s[i])
  ELSE Only(Spoken(m, s[i]), {"text", "image", "call", "signed", "thinking"})

Converted(m, s, i) ==
  CASE ApiOf(m) = "completions" -> Completions(m, s, i)
    [] ApiOf(m) = "responses" -> Responses(m, s, i)
    [] ApiOf(m) = "anthropic" -> Anthropic(m, s, i)
    [] OTHER -> Google(m, s, i)
Request(m) == LET s == Sent(m) IN FlattenSeq([i \in DOMAIN s |-> Converted(m, s, i)])

\* ------------------------------------------------------------- properties
ResultsAfter(q, i) == {j \in (i + 1)..Len(q) : \A k \in (i + 1)..j : q[k].kind = "result"}
AnsweredInPlace(q) ==
  LET calls == {i \in DOMAIN q : q[i].kind = "call"}
      places == {q[i].at : i \in calls}
      lastOf(at) == CHOOSE i \in calls : q[i].at = at /\ \A j \in calls : q[j].at = at => j <= i
  IN /\ Cardinality(calls) = Cardinality({i \in DOMAIN q : q[i].kind = "result"})
     /\ \A at \in places : \A id \in {q[i].id : i \in calls} :
          Cardinality({i \in calls : q[i].at = at /\ q[i].id = id})
            = Cardinality({j \in ResultsAfter(q, lastOf(at)) : q[j].id = id})

\* Nor is it sent what another model's API made and its own refuses: ids of
\* another form, or thinking that another model signed.
Accepts(m, form) == CASE ApiOf(m) = "completions" -> form # "pair"
                      [] ApiOf(m) = "google" /\ ~RequiresToolCallID(m) -> TRUE
                      [] OTHER -> form \in {"plain", "cleaned", "joined"}
ForeignPartsFit(m, q) == \A k \in DOMAIN q :
  /\ q[k].kind \in {"call", "result"} => Accepts(m, q[k].id.form)
  /\ q[k].kind = "signed" => messages[q[k].at].model = m

\* Whatever model a session is continued with, every call it is sent is
\* answered once, right after the message that made it, and no result comes
\* without its call: results that were never computed are made up, ids are
\* renamed on both sides, and calls of failed replies leave with them.
EveryCallIsAnswered ==
  \A m \in Models : LET q == Request(m) IN AnsweredInPlace(q) /\ ForeignPartsFit(m, q)

\* What was said stays said, in its order: each user message, and each text
\* (or another model's thinking) of a reply that did not fail, is in the
\* request; the user's last word is its end.
Speaks(msg, m) ==
  \/ msg.role = "user"
  \/ /\ msg.role = "assistant" /\ msg.stop # "error"
     /\ \E k \in DOMAIN msg.parts : msg.parts[k].kind \in {"text"} \union (IF msg.model = m THEN {} ELSE {"thinking", "signed"})
NothingIsLost == \A m \in Models :
  LET q == Request(m)
      shown == {k \in DOMAIN q : q[k].kind \in {"text", "image"}} IN
  /\ {i \in DOMAIN messages : Speaks(messages[i], m)} \subseteq {q[k].at : k \in shown}
  /\ \A j, k \in shown : j <= k => q[j].at <= q[k].at
  /\ messages # <<>> /\ Last(messages).role = "user" => Last(q).who = "user"

=============================================================================
