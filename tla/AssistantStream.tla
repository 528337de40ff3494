-------------------------- MODULE AssistantStream --------------------------
(* What a provider's decoder is given and what it makes of it               *)
(* (pkg/ai/providers, pkg/ai/event_stream.go).  A server writes a reply, an *)
(* item at a time or several interleaved, in chunks; the decoder keeps the  *)
(* assistant message (output.Content) and pushes the events of a stream:    *)
(* start, delta and end of each content block, then done or error.          *)
(*                                                                          *)
(* The server is modelled by what its API allows.  Chunks are numbered as   *)
(* they are written, so that a text is the sequence of its chunks and two   *)
(* items never look alike.  What a reader of the events knows is `view`.    *)
(* Usage, citations, prices, signatures and raw events are left out.        *)
EXTENDS Naturals, Sequences, FiniteSets, SequencesExt

CONSTANTS MaxItems,   \* bound on the items of a reply
          MaxChunks   \* bound on the chunks of a reply

VARIABLES
  labelled,  \* whether the server names the item of each event
  reply,     \* what the server has written
  said,      \* how many chunks it has written
  stage,     \* "idle", "replying", "complete": what the server has left to do
  blocks,    \* output.Content
  dec,       \* the state of the API's decoder
  view,      \* what the events pushed so far show
  outcome    \* "none", "done" or "error"
vars == <<labelled, reply, said, stage, blocks, dec, view, outcome>>

Kinds == {"text", "thinking", "call", "native"}

\* ---------------------------------------------------------------- events
Opened(kind, at) == [type |-> "start", kind |-> kind, at |-> at, text |-> <<>>]
Delta(kind, at, text) == [type |-> "delta", kind |-> kind, at |-> at, text |-> text]
Closed(kind, at, text) == [type |-> "end", kind |-> kind, at |-> at, text |-> text]

\* An event a reader can make sense of.
Follows(v, e) ==
  IF e.type = "start" THEN e.at = Len(v) + 1
  ELSE e.at \in DOMAIN v /\ v[e.at].open /\ v[e.at].kind = e.kind

Shown(v, e) ==
  CASE ~v.legal \/ ~Follows(v.blocks, e) -> [v EXCEPT !.legal = FALSE]
    [] e.type = "start" -> [v EXCEPT !.blocks = Append(@, [kind |-> e.kind, open |-> TRUE, text |-> <<>>])]
    [] e.type = "delta" -> [v EXCEPT !.blocks[e.at].text = @ \o e.text]
    [] OTHER -> [v EXCEPT !.blocks[e.at].text = e.text, !.blocks[e.at].open = FALSE]

Push(events) == view' = FoldLeft(Shown, view, events)

\* A native tool call has no content block: its start, then its result.
NativeStarts(k) == view' = [view EXCEPT !.native = [j \in DOMAIN @ \union {k} |-> IF j = k THEN "called" ELSE @[j]],
                                        !.legal = @ /\ k \notin DOMAIN view.native]
NativeResult(k) == view' = [view EXCEPT !.native = [j \in DOMAIN @ \union {k} |-> IF j = k THEN "answered" ELSE @[j]],
                                        !.legal = @ /\ k \in DOMAIN view.native /\ view.native[k] = "called"]

\* finishBlocks and finishGoogleCurrentBlock end blocks that are still open.
Ends(open) == [i \in DOMAIN open |-> Closed(blocks[open[i]].kind, open[i], blocks[open[i]].text)]

NewBlock(kind) == Append(blocks, [kind |-> kind, text |-> <<>>])
Extend(b, at, text) == [b EXCEPT ![at].text = @ \o text]

\* ---------------------------------------------------------------- the server
ReplyInit ==
  /\ labelled \in BOOLEAN
  /\ reply = <<>> /\ said = 0 /\ stage = "idle"
  /\ blocks = <<>>
  /\ view = [blocks |-> <<>>, native |-> <<>>, legal |-> TRUE]
  /\ outcome = "none"

Replying == stage = "replying" /\ outcome = "none"
OpenItems == {k \in DOMAIN reply : reply[k].open}
\* Without labels an item ends before the next begins.
MayBegin == Replying /\ Len(reply) < MaxItems /\ (labelled \/ OpenItems = {})
NewItem(kind) == reply' = Append(reply, [kind |-> kind, open |-> TRUE, text |-> <<>>])
MayWrite == Replying /\ said < MaxChunks
Writes(k) == /\ said' = said + 1
             /\ reply' = [reply EXCEPT ![k].text = Append(@, said + 1)]

\* The request is accepted and "start" is pushed.
Start(api, d) ==
  /\ stage = "idle" /\ outcome = "none" /\ stage' = "replying"
  /\ dec' = d
  /\ UNCHANGED <<labelled, reply, said, blocks, view, outcome>>
\* The request fails: refused, cancelled, or never sent.
Refused == /\ stage = "idle" /\ outcome = "none" /\ outcome' = "error"
           /\ UNCHANGED <<labelled, reply, said, stage, blocks, dec, view>>
\* The server has said everything: finish_reason, message_stop, ...
Complete(d) == /\ Replying /\ OpenItems = {} /\ stage' = "complete"
               /\ dec' = d
               /\ UNCHANGED <<labelled, reply, said, blocks, view, outcome>>
\* The connection breaks, a cancellation included.
Breaks == /\ stage \in {"replying", "complete"} /\ outcome = "none"
          /\ outcome' = "error"
          /\ UNCHANGED <<labelled, reply, said, stage, blocks, dec, view>>
\* The body ends, and the decoder says how the reply ended; `open`
\* are the places of the blocks it then ends.
BodyEnds(how, open) ==
  /\ stage \in {"replying", "complete"} /\ outcome = "none"
  /\ outcome' = how
  /\ IF how = "done" THEN Push(Ends(open)) ELSE UNCHANGED view
  /\ UNCHANGED <<labelled, reply, said, stage, blocks, dec>>
=============================================================================
