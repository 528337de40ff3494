-------------------------- MODULE ProviderStreams --------------------------
(* The four decoders of the provider APIs, each driven by any reply its     *)
(* server may write, whole, cut off or broken:                              *)
(*   completions  openai_completions.go, openai_shared.go                   *)
(*   responses    openai_responses.go, openai_shared.go (also Codex)        *)
(*   anthropic    anthropic.go                                              *)
(*   google       google.go, google_vertex.go, google_shared.go             *)
EXTENDS AssistantStream

CONSTANT Apis
ASSUME ApisKnown == Apis \subseteq {"completions", "responses", "anthropic", "google"}

Api(a) == dec.api = a
Ready == dec # [api |-> "none"]

\* ------------------------------------------------------------ completions
\* One text block, one thinking block, and a block for each tool call, found
\* by the stream's index or by the call's id; all of them end together.
CompletionsState == [api |-> "completions", text |-> 0, thinking |-> 0,
                     byIndex |-> <<>>, byId |-> <<>>, finished |-> FALSE]
ItemOf(kind) == {k \in DOMAIN reply : reply[k].kind = kind}

\* Where the code puts something for which it has no block yet.
At(known) == IF known = 0 THEN Len(blocks) + 1 ELSE known
Grown(kind, known, text) == Extend(IF known = 0 THEN NewBlock(kind) ELSE blocks, At(known), text)
Told(kind, known, text) ==
  Append(IF known = 0 THEN <<Opened(kind, At(0))>> ELSE <<>>, Delta(kind, At(known), text))

\* delta.content and delta.reasoning: ensureText, ensureThinking.
CompletionsText(kind) ==
  LET known == dec[kind] IN
  /\ Replying /\ Api("completions") /\ MayWrite
  /\ said' = said + 1
  /\ IF ItemOf(kind) = {}
     THEN /\ Len(reply) < MaxItems
          /\ reply' = Append(reply, [kind |-> kind, open |-> FALSE, text |-> <<said + 1>>])
     ELSE reply' = [reply EXCEPT ![CHOOSE k \in ItemOf(kind) : TRUE].text = Append(@, said + 1)]
  /\ blocks' = Grown(kind, known, <<said + 1>>)
  /\ dec' = [dec EXCEPT ![kind] = At(known)]
  /\ Push(Told(kind, known, <<said + 1>>))
  /\ UNCHANGED <<labelled, stage, outcome>>

Known(f, k) == IF k \in DOMAIN f THEN f[k] ELSE 0
With(f, k, v) == [j \in DOMAIN f \union {k} |-> IF j = k THEN v ELSE f[j]]

\* ensureToolCall: by index, then by id, or a new block.
CallBlock(k, names) ==
  LET byIndex == IF "index" \in names THEN Known(dec.byIndex, k) ELSE 0
  IN IF byIndex # 0 THEN byIndex ELSE IF "id" \in names THEN Known(dec.byId, k) ELSE 0

\* delta.tool_calls: a call the server names by its index throughout, or by
\* its id throughout, and sometimes by both.
CompletionsCall(k, names) ==
  LET known == CallBlock(k, names)
      at == At(known) IN
  /\ Replying /\ Api("completions") /\ MayWrite
  /\ (IF labelled THEN "index" ELSE "id") \in names
  /\ k \in DOMAIN reply => reply[k].kind = "call"
  /\ k \in DOMAIN reply \union (IF Len(reply) < MaxItems THEN {Len(reply) + 1} ELSE {})
  /\ said' = said + 1
  /\ reply' = IF k \in DOMAIN reply
              THEN [reply EXCEPT ![k].text = Append(@, said + 1)]
              ELSE Append(reply, [kind |-> "call", open |-> FALSE, text |-> <<said + 1>>])
  /\ blocks' = Grown("call", known, <<said + 1>>)
  /\ dec' = [dec EXCEPT !.byIndex = IF "index" \in names /\ known = 0 THEN With(@, k, at) ELSE @,
                        !.byId = IF "id" \in names THEN With(@, k, at) ELSE @]
  /\ Push(Told("call", known, <<said + 1>>))
  /\ UNCHANGED <<labelled, stage, outcome>>

CompletionsFinish == /\ Api("completions")
                     /\ Complete([dec EXCEPT !.finished = TRUE])
\* A body that ends without a finish_reason is an error.
CompletionsEnd == /\ Ready /\ Api("completions")
                  /\ BodyEnds(IF dec.finished THEN "done" ELSE "error", [i \in DOMAIN blocks |-> i])

\* -------------------------------------------------------------- responses
\* Items are found by their id when the event has one, and are otherwise the
\* current item.  A tool the provider runs itself has no block.
ResponsesState == [api |-> "responses", current |-> 0, byItem |-> <<>>]

ResponsesItem(kind) ==
  LET k == Len(reply) + 1
      at == Len(blocks) + 1 IN
  /\ Api("responses") /\ MayBegin
  /\ NewItem(kind)
  /\ IF kind = "native"
     THEN /\ dec' = [dec EXCEPT !.current = 0]
          /\ NativeStarts(k)
          /\ UNCHANGED blocks
     ELSE /\ dec' = [dec EXCEPT !.current = at, !.byItem = IF labelled THEN With(@, k, at) ELSE @]
          /\ blocks' = NewBlock(kind)
          /\ Push(<<Opened(kind, at)>>)
  /\ UNCHANGED <<labelled, said, stage, outcome>>

\* eventContentIndex.
ContentIndex(k) == IF labelled /\ k \in DOMAIN dec.byItem THEN dec.byItem[k] ELSE dec.current
Fits(k, at) == at # 0 /\ blocks[at].kind = reply[k].kind

\* A chunk of text, reasoning or arguments; some servers keep it for later.
ResponsesDelta(k, sent) ==
  LET at == ContentIndex(k) IN
  /\ Api("responses") /\ MayWrite /\ k \in OpenItems /\ reply[k].kind # "native"
  /\ Writes(k)
  /\ IF sent /\ Fits(k, at)
     THEN /\ blocks' = Extend(blocks, at, <<said + 1>>)
          /\ Push(<<Delta(reply[k].kind, at, <<said + 1>>)>>)
     ELSE UNCHANGED <<blocks, view>>
  /\ UNCHANGED <<labelled, stage, dec, outcome>>

\* Mutant: the whole text is appended to what was streamed.
MissingAll(current, full) == full
\* appendMissingPrefix: what the whole text has beyond the text so far.
Missing(current, full) == IF IsPrefix(current, full) THEN SubSeq(full, Len(current) + 1, Len(full)) ELSE <<>>

\* The whole text or the whole arguments of an item, before the item ends.
ResponsesText(k) ==
  LET at == ContentIndex(k)
      full == reply[k].text IN
  /\ Replying /\ Api("responses") /\ k \in OpenItems /\ reply[k].kind # "native"
  /\ Fits(k, at)
  /\ LET missing == Missing(blocks[at].text, full) IN
     /\ missing # <<>>
     /\ blocks' = IF reply[k].kind = "call" THEN [blocks EXCEPT ![at].text = full]
                  ELSE Extend(blocks, at, missing)
     /\ Push(<<Delta(reply[k].kind, at, missing)>>)
  /\ UNCHANGED <<labelled, reply, said, stage, dec, outcome>>

\* response.output_item.done: the block becomes what the item says, and no
\* item is current any more.
ResponsesItemDone(k) ==
  LET at == ContentIndex(k) IN
  /\ Replying /\ Api("responses") /\ k \in OpenItems
  /\ reply' = [reply EXCEPT ![k].open = FALSE]
  /\ dec' = [dec EXCEPT !.current = 0]
  /\ CASE reply[k].kind = "native" -> NativeResult(k) /\ UNCHANGED blocks
       [] reply[k].kind # "native" /\ at = 0 -> UNCHANGED <<blocks, view>>
       [] OTHER -> /\ blocks' = IF reply[k].text = <<>> THEN blocks ELSE [blocks EXCEPT ![at].text = reply[k].text]
                   /\ Push(<<Closed(reply[k].kind, at, blocks'[at].text)>>)
  /\ UNCHANGED <<labelled, said, stage, outcome>>

ResponsesComplete == Api("responses") /\ Complete(dec)
\* finishResponsesStream: done, whatever has been said.
ResponsesEnd == Ready /\ Api("responses") /\ BodyEnds("done", <<>>)

\* -------------------------------------------------------------- anthropic
AnthropicState == [api |-> "anthropic", started |-> FALSE, stopped |-> FALSE, byIndex |-> <<>>]

AnthropicMessage == /\ Replying /\ Api("anthropic") /\ ~dec.started
                    /\ dec' = [dec EXCEPT !.started = TRUE]
                    /\ UNCHANGED <<labelled, reply, said, stage, blocks, view, outcome>>
\* content_block_start: every event has the block's index.
AnthropicBlock(kind) ==
  LET k == Len(reply) + 1
      at == Len(blocks) + 1 IN
  /\ Api("anthropic") /\ dec.started /\ MayBegin
  /\ NewItem(kind)
  /\ IF kind = "native"
     THEN NativeStarts(k) /\ UNCHANGED <<blocks, dec>>
     ELSE /\ dec' = [dec EXCEPT !.byIndex = With(@, k, at)]
          /\ blocks' = NewBlock(kind)
          /\ Push(<<Opened(kind, at)>>)
  /\ UNCHANGED <<labelled, said, stage, outcome>>
AnthropicDelta(k) ==
  LET at == Known(dec.byIndex, k) IN
  /\ Api("anthropic") /\ MayWrite /\ k \in OpenItems /\ reply[k].kind # "native"
  /\ Writes(k)
  /\ IF at # 0
     THEN /\ blocks' = Extend(blocks, at, <<said + 1>>)
          /\ Push(<<Delta(blocks[at].kind, at, <<said + 1>>)>>)
     ELSE UNCHANGED <<blocks, view>>
  /\ UNCHANGED <<labelled, stage, dec, outcome>>
AnthropicBlockStop(k) ==
  LET at == Known(dec.byIndex, k) IN
  /\ Replying /\ Api("anthropic") /\ k \in OpenItems
  /\ reply' = [reply EXCEPT ![k].open = FALSE]
  /\ IF at # 0 THEN Push(<<Closed(blocks[at].kind, at, blocks[at].text)>>) ELSE UNCHANGED view
  /\ UNCHANGED <<labelled, said, stage, blocks, dec, outcome>>
\* web_search_tool_result, a block of its own that names the call.
AnthropicNativeResult(k) ==
  /\ Replying /\ Api("anthropic")
  /\ k \in DOMAIN reply \ OpenItems /\ reply[k].kind = "native" /\ view.native[k] = "called"
  /\ NativeResult(k)
  /\ UNCHANGED <<labelled, reply, said, stage, blocks, dec, outcome>>
AnthropicStop == /\ Api("anthropic") /\ dec.started
                 /\ Complete([dec EXCEPT !.stopped = TRUE])
\* Mutant: a body that just ends is a whole message.
AnthropicEndAlways == Ready /\ Api("anthropic") /\ BodyEnds("done", <<>>)
\* A message that has begun and not stopped is an error; a body with no
\* message at all is a message with no content.
AnthropicEnd == /\ Ready /\ Api("anthropic")
                /\ BodyEnds(IF dec.started /\ ~dec.stopped THEN "error" ELSE "done", <<>>)

\* ----------------------------------------------------------------- google
\* Parts, one after another: text and thoughts extend the current block when
\* it is of their kind, a function call is whole.
GoogleState == [api |-> "google", current |-> 0]

Current == IF dec.current = 0 THEN <<>> ELSE <<dec.current>>
CurrentEnds == Ends(Current)
GoogleText(kind) ==
  LET same == dec.current # 0 /\ blocks[dec.current].kind = kind
      at == IF same THEN dec.current ELSE Len(blocks) + 1 IN
  /\ Api("google") /\ MayWrite
  /\ said' = said + 1
  /\ IF reply # <<>> /\ Last(reply).kind = kind
     THEN reply' = [reply EXCEPT ![Len(reply)].text = Append(@, said + 1)]
     ELSE /\ Len(reply) < MaxItems
          /\ reply' = Append(reply, [kind |-> kind, open |-> FALSE, text |-> <<said + 1>>])
  /\ blocks' = Extend(IF same THEN blocks ELSE NewBlock(kind), at, <<said + 1>>)
  /\ dec' = [dec EXCEPT !.current = at]
  /\ Push(Append(IF same THEN <<>> ELSE Append(CurrentEnds, Opened(kind, at)),
                 Delta(kind, at, <<said + 1>>)))
  /\ UNCHANGED <<labelled, stage, outcome>>
GoogleCall ==
  LET at == Len(blocks) + 1
      text == <<said + 1>> IN
  /\ Api("google") /\ MayWrite /\ Len(reply) < MaxItems
  /\ said' = said + 1
  /\ reply' = Append(reply, [kind |-> "call", open |-> FALSE, text |-> text])
  /\ blocks' = Extend(NewBlock("call"), at, text)
  /\ dec' = [dec EXCEPT !.current = 0]
  /\ Push(Append(Append(Append(CurrentEnds, Opened("call", at)), Delta("call", at, text)),
                 Closed("call", at, text)))
  /\ UNCHANGED <<labelled, stage, outcome>>
GoogleFinish == Api("google") /\ Complete(dec)
GoogleEnd == /\ Ready /\ Api("google")
             /\ BodyEnds("done", Current)

\* ---------------------------------------------------------------------------
States == {CompletionsState, ResponsesState, AnthropicState, GoogleState}
StartsWith(d) == /\ Start(d.api, d) /\ d.api \in Apis
                 /\ labelled \/ d.api \in {"completions", "responses"}

Next ==
  \/ \E d \in States : StartsWith(d)
  \/ Refused
  \/ Breaks
  \/ \E kind \in {"text", "thinking"} : CompletionsText(kind)
  \/ \E k \in 1..MaxItems, names \in {{"index"}, {"id"}, {"index", "id"}} : CompletionsCall(k, names)
  \/ CompletionsFinish \/ CompletionsEnd
  \/ \E kind \in Kinds : ResponsesItem(kind)
  \/ \E k \in DOMAIN reply, sent \in BOOLEAN : ResponsesDelta(k, sent)
  \/ \E k \in DOMAIN reply : ResponsesText(k)
  \/ \E k \in DOMAIN reply : ResponsesItemDone(k)
  \/ ResponsesComplete \/ ResponsesEnd
  \/ AnthropicMessage
  \/ \E kind \in Kinds : AnthropicBlock(kind)
  \/ \E k \in DOMAIN reply : AnthropicDelta(k)
  \/ \E k \in DOMAIN reply : AnthropicBlockStop(k)
  \/ \E k \in DOMAIN reply : AnthropicNativeResult(k)
  \/ AnthropicStop \/ AnthropicEnd
  \/ \E kind \in {"text", "thinking"} : GoogleText(kind)
  \/ GoogleCall
  \/ GoogleFinish \/ GoogleEnd

Init == ReplyInit /\ dec = [api |-> "none"]
Spec == Init /\ [][Next]_vars

\* ------------------------------------------------------------ properties

\* A reply the server completed is the message, block by block, whatever was
\* streamed, backfilled or only said at the end: no chunk is lost or filed
\* under another block, and none is ever in a block twice or out of order.
Blocked == {k \in DOMAIN reply : reply[k].kind # "native"}
\* Each item has a block of its own, each block an item, in the same order.
Places == {f \in [Blocked -> DOMAIN blocks] :
             /\ \A k, l \in Blocked : k < l => f[k] < f[l]
             /\ \A i \in DOMAIN blocks : \E k \in Blocked : f[k] = i}
SameContent(x, y) == x.kind = y.kind /\ x.text = y.text
MessageIsTheReply ==
  /\ outcome = "done" /\ stage = "complete" =>
       \E f \in Places : \A k \in Blocked : SameContent(blocks[f[k]], reply[k])
  /\ \A b \in DOMAIN blocks, i, j \in 1..said :
       i < j /\ j \in DOMAIN blocks[b].text => blocks[b].text[i] < blocks[b].text[j]

\* ... and so is what the events have shown of it, for items that interleave
\* and items without ids alike (all decoders): a block is started once, at the
\* next index, grows while it is open and ends once, and a tool the provider
\* runs answers a call that was announced.
ReaderHasTheReply ==
  /\ view.legal
  /\ MessageIsTheReply
  /\ outcome = "done" /\ stage = "complete" =>
       /\ Len(view.blocks) = Len(blocks)
       /\ \A i \in DOMAIN blocks : SameContent(view.blocks[i], blocks[i]) /\ ~view.blocks[i].open

\* Completions and Anthropic messages that were cut off are not done (a
\* Responses or Google stream that just ends is: README.md, "Disagreements").
CutOffIsAnError ==
  outcome = "done" /\ dec.api \in {"completions", "anthropic"} /\ blocks # <<>> => stage = "complete"
=============================================================================
