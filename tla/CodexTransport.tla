--------------------------- MODULE CodexTransport ---------------------------
(* How a request to the Codex backend reaches it                            *)
(* (pkg/ai/providers/openai_codex_responses.go).  The requests of one       *)
(* session share a cache of one websocket, keyed by the session: a request  *)
(* reuses it when nobody else does, or dials another one that takes its     *)
(* place in the cache.  On a reused websocket a request may send only what  *)
(* is new since the response before (previous_response_id and a delta),     *)
(* when its body continues that response's.  A websocket that fails before  *)
(* the first event sends the request, and every later one of the session,   *)
(* over server-sent events instead.                                         *)
(*                                                                          *)
(* Requests of one session overlap because two runs of a room may (see      *)
(* ActiveRuns).  The server is modelled by what the code relies on: each    *)
(* connection remembers the context each of its responses was made from.    *)
(*                                                                          *)
(* An item of the input is <<"turn", r>>, what the user or the tools said   *)
(* before request r, <<"answer", r>>, or <<"partial", r>>, the output of a  *)
(* response that ended as cancelled or failed: transformMessages leaves     *)
(* those out of what is sent.  Headers, URLs, statistics, prices and the    *)
(* text of an event are left out.                                           *)
EXTENDS Naturals, Sequences, FiniteSets, SequencesExt

CONSTANTS Requests,    \* requests of the session, numbered in the order they begin
          Transports,  \* of "auto", "websocket" and "sse"
          MaxOverlap,  \* bound on the requests of a session at one time
          MaxRetries,  \* of a request over server-sent events
          MaxFaults    \* bound on cancellations, broken connections, clean-ups and edits

ASSUME RequestsAreNumbered == IsFiniteSet(Requests) /\ Requests = 1..Cardinality(Requests)
ASSUME TransportsKnown == Transports \subseteq {"auto", "websocket", "sse"}

VARIABLES
  chat,      \* the session's messages, as input items
  body,      \* what its requests say besides: model, tools, reasoning
  req,       \* what each request is doing
  told,      \* the events pushed to each request's stream
  entry,     \* the cache entry each request that dialled has made, by request
  cache,     \* codexWebSocketSessionCache[sessionID]: a request, or 0
  fallback,  \* codexWebSocketSSEFallbackSessions[sessionID]
  memory,    \* the server: the context of each response of a connection
  open,      \* connections the server still serves
  faults
vars == <<chat, body, req, told, entry, cache, fallback, memory, open, faults>>

None == 0
NoContinuation == [response |-> None]
NoEntry == [conn |-> FALSE, busy |-> FALSE, armed |-> FALSE, due |-> FALSE, cont |-> NoContinuation]
Quiet == [pc |-> "idle", transport |-> "auto", body |-> None, input |-> <<>>,
          ent |-> None, context |-> <<>>, attempt |-> 0, cancelled |-> FALSE]

Init == /\ chat = <<>>
        /\ body = 1
        /\ req = [r \in Requests |-> Quiet]
        /\ told = [r \in Requests |-> <<>>]
        /\ entry = [e \in Requests |-> NoEntry]
        /\ cache = None
        /\ fallback = FALSE
        /\ memory = [e \in Requests |-> <<>>]
        /\ open = {}
        /\ faults = 0

\* No goroutine has dereferenced a nil connection.
Running == \A r \in Requests : req[r].pc # "panic"
At(r, pc) == Running /\ req[r].pc = pc
Goto(r, pc) == [req EXCEPT ![r].pc = pc]
Started(r) == "start" \in Range(told[r])
Start(r) == IF Started(r) THEN told[r] ELSE Append(told[r], "start")
\* The request's goroutine ends; only the outcome of it matters from here on.
Ended(r) == [req EXCEPT ![r] = [Quiet EXCEPT !.pc = "ended"]]
Fails(r) == /\ req' = Ended(r)
            /\ told' = [told EXCEPT ![r] = Append(@, "error")]

\* closeCodexWebSocketEntryLocked.
Closed(e) == [entry EXCEPT ![e] = [NoEntry EXCEPT !.due = entry[e].due]]
Uncached(e) == IF cache = e THEN None ELSE cache

\* ------------------------------------------------------------ a request
\* A request is made from the session's messages and a new turn.  With the
\* session in fallback, or by choice, it does not try the websocket.
Begin(r, t) ==
  LET input == Append(chat, <<"turn", r>>) IN
  /\ At(r, "idle") /\ \A s \in 1..(r - 1) : req[s].pc # "idle"
  /\ Cardinality({s \in Requests : req[s].pc \notin {"idle", "ended"}}) < MaxOverlap
  /\ chat' = input
  /\ req' = [req EXCEPT ![r] = [Quiet EXCEPT !.pc = IF t = "sse" \/ fallback THEN "post" ELSE "acquire",
                                             !.transport = t, !.body = body, !.input = input]]
  /\ UNCHANGED <<body, told, entry, cache, fallback, memory, open, faults>>

\* Changed in a mutant: a busy connection is shared.
AcquireBusy(r) ==
  /\ At(r, "acquire")
  /\ IF cache # None /\ entry[cache].conn
     THEN /\ entry' = [entry EXCEPT ![cache].busy = TRUE, ![cache].armed = FALSE]
          /\ req' = [req EXCEPT ![r].pc = "write", ![r].ent = cache]
     ELSE /\ req' = Goto(r, "dial")
          /\ UNCHANGED entry
  /\ UNCHANGED <<chat, body, told, cache, fallback, memory, open, faults>>

\* The cached connection, when it is idle.
Acquire(r) ==
  /\ At(r, "acquire")
  /\ IF cache # None /\ ~entry[cache].busy /\ entry[cache].conn
     THEN /\ entry' = [entry EXCEPT ![cache].busy = TRUE, ![cache].armed = FALSE]
          /\ req' = [req EXCEPT ![r].pc = "write", ![r].ent = cache]
     ELSE /\ req' = Goto(r, "dial")
          /\ UNCHANGED entry
  /\ UNCHANGED <<chat, body, told, cache, fallback, memory, open, faults>>

\* A new connection replaces whatever is cached, a busy entry included.
Dial(r) ==
  /\ At(r, "dial") /\ ~req[r].cancelled
  /\ entry' = [entry EXCEPT ![r] = [NoEntry EXCEPT !.conn = TRUE, !.busy = TRUE]]
  /\ open' = open \union {r}
  /\ cache' = r
  /\ req' = [req EXCEPT ![r].pc = "write", ![r].ent = r]
  /\ UNCHANGED <<chat, body, told, fallback, memory, faults>>

\* Dialling fails: cancelled, or for a reason that leads to the fallback.
DialFails(r) ==
  /\ At(r, "dial")
  /\ IF req[r].cancelled
     THEN Fails(r) /\ UNCHANGED faults
     ELSE /\ faults < MaxFaults /\ faults' = faults + 1
          /\ req' = Goto(r, "failed") /\ UNCHANGED told
  /\ UNCHANGED <<chat, body, entry, cache, fallback, memory, open>>

\* The connection's pointer is read without the lock: after a clean-up of the
\* session it is nil, and using it ends the process.
Panics(r) ==
  /\ \/ At(r, "write")
     \/ At(r, "between")
  /\ ~entry[req[r].ent].conn
  /\ req' = [q \in Requests |-> [Quiet EXCEPT !.pc = IF q = r THEN "panic" ELSE "ended"]]
  /\ UNCHANGED <<chat, body, told, entry, cache, fallback, memory, open, faults>>

\* Changed in a mutant: the answer is not part of what the server has.
BaselineInput(c) == c.input

\* getCachedCodexWebSocketInputDelta: the body is that of the last request but
\* for the input, which begins with the last request's and its answer.
Baseline(c) == c.input \o c.items
Continues(r, c) == /\ c.response # None
                   /\ req[r].body = c.body
                   /\ IsPrefix(Baseline(c), req[r].input)
UsesContinuation(r) == req[r].transport = "auto"

\* BuildCachedCodexWebSocketRequestBody and the write: what the server then
\* has as the context of the response.
Send(r) ==
  LET e == req[r].ent
      c == entry[e].cont IN
  /\ At(r, "write") /\ entry[e].conn /\ e \in open /\ ~req[r].cancelled
  /\ IF UsesContinuation(r) /\ Continues(r, c)
     THEN /\ req' = [req EXCEPT ![r].pc = "between",
                                ![r].context = memory[e][c.response]
                                    \o SubSeq(req[r].input, Len(Baseline(c)) + 1, Len(req[r].input))]
          /\ UNCHANGED entry
     ELSE /\ req' = [req EXCEPT ![r].pc = "between", ![r].context = req[r].input]
          /\ entry' = IF UsesContinuation(r) THEN [entry EXCEPT ![e].cont = NoContinuation] ELSE entry
  /\ UNCHANGED <<chat, body, told, cache, fallback, memory, open, faults>>

\* The loop takes the connection and waits for a message.
Read(r) == /\ At(r, "between") /\ entry[req[r].ent].conn
           /\ req' = Goto(r, "reading")
           /\ UNCHANGED <<chat, body, told, entry, cache, fallback, memory, open, faults>>

\* releaseCodexWebSocket with keep = FALSE.
Dropped(e) == /\ entry' = Closed(e)
              /\ open' = open \ {e}
              /\ cache' = Uncached(e)
              /\ memory' = [memory EXCEPT ![e] = <<>>]
\* ... and with keep = TRUE: the entry may be reused until its timer fires.
Released(e, cont, remembered) ==
  IF entry[e].conn
  THEN /\ entry' = [entry EXCEPT ![e].busy = FALSE, ![e].armed = TRUE, ![e].cont = cont]
       /\ memory' = [memory EXCEPT ![e] = remembered]
       /\ UNCHANGED <<cache, open>>
  ELSE Dropped(e)

\* Changed in a mutant: a read does not notice that its request is cancelled
\* or its peer gone.
SocketHangs(r) ==
  /\ At(r, "write") /\ entry[req[r].ent].conn
  /\ req[r].ent \notin open
  /\ Dropped(req[r].ent)
  /\ req' = Goto(r, "failed")
  /\ UNCHANGED <<chat, body, told, fallback, faults>>

\* The write or the read fails, because the peer is gone or the request is
\* cancelled.  A cancelled request ends; the others see about the fallback.
SocketFails(r) ==
  LET e == req[r].ent IN
  /\ \/ At(r, "write") /\ entry[e].conn
     \/ At(r, "reading")
  /\ e \notin open \/ req[r].cancelled
  /\ Dropped(e)
  /\ IF req[r].cancelled THEN Fails(r) ELSE req' = Goto(r, "failed") /\ UNCHANGED told
  /\ UNCHANGED <<chat, body, fallback, faults>>

\* Changed in a mutant: a response that broke off is asked for again.
FallsBackAlways(r) ==
  /\ At(r, "failed")
  /\ fallback' = TRUE
  /\ req' = Goto(r, "post") /\ UNCHANGED told
  /\ UNCHANGED <<chat, body, entry, cache, memory, open, faults>>

\* recordCodexWebSocketFailure: the whole session stays with server-sent events.
\* A request that has begun to stream is not sent again.
FallsBack(r) ==
  /\ At(r, "failed")
  /\ fallback' = TRUE
  /\ IF Started(r) THEN Fails(r) ELSE req' = Goto(r, "post") /\ UNCHANGED told
  /\ UNCHANGED <<chat, body, entry, cache, memory, open, faults>>

Listening(r) == At(r, "reading") /\ req[r].ent \in open

\* The first event of the response; what the others push is the decoder's.
ReceiveFirst(r) ==
  /\ Listening(r) /\ ~Started(r)
  /\ told' = [told EXCEPT ![r] = Start(r)]
  /\ req' = Goto(r, "between")
  /\ UNCHANGED <<chat, body, entry, cache, fallback, memory, open, faults>>

\* What the session remembers of a response: nothing of one that failed.
Continuation(r, how) ==
  IF UsesContinuation(r)
  THEN [body |-> req[r].body, input |-> req[r].input, response |-> r,
        items |-> IF how = "answer" THEN <<<<"answer", r>>>> ELSE <<>>]
  ELSE entry[req[r].ent].cont

\* The response ends: completed or incomplete ("answer"), or as cancelled or
\* failed without a message ("partial"), which is not taken for an error here.
ReceiveEnd(r, how) ==
  LET e == req[r].ent IN
  /\ Listening(r)
  /\ Released(e, Continuation(r, how), [s \in DOMAIN memory[e] \union {r} |->
       IF s = r THEN Append(req[r].context, <<how, r>>) ELSE memory[e][s]])
  /\ req' = Ended(r)
  /\ told' = [told EXCEPT ![r] = Append(Start(r), "done")]
  /\ chat' = IF how = "answer" THEN Append(chat, <<how, r>>) ELSE chat
  /\ UNCHANGED <<body, fallback, faults>>

\* The response fails with a message, or an event is not JSON: the request
\* fails and the connection is not used again.
ReceiveError(r, decoded) ==
  /\ Listening(r)
  /\ Dropped(req[r].ent)
  /\ req' = Ended(r)
  /\ told' = [told EXCEPT ![r] = Append(IF decoded THEN Start(r) ELSE @, "error")]
  /\ UNCHANGED <<chat, body, fallback, faults>>

\* ------------------------------------------- over server-sent events
\* doCodexSSERequest: a refusal that may pass is tried again, after a wait
\* that a cancellation ends.
Post(r) ==
  /\ At(r, "post") /\ ~req[r].cancelled
  /\ req' = Goto(r, "sse")
  /\ told' = [told EXCEPT ![r] = Append(@, "start")]
  /\ UNCHANGED <<chat, body, entry, cache, fallback, memory, open, faults>>
Refused(r, retryable) ==
  /\ At(r, "post")
  /\ IF retryable /\ req[r].attempt < MaxRetries /\ ~req[r].cancelled
     THEN req' = [req EXCEPT ![r].attempt = @ + 1] /\ UNCHANGED told
     ELSE Fails(r)
  /\ UNCHANGED <<chat, body, entry, cache, fallback, memory, open, faults>>

\* The response ends, or the body does: parseCodexSSE keeps the stop reason of
\* a body that breaks off, "stop" from the beginning.
SseEnds(r) == /\ At(r, "sse")
              /\ req' = Ended(r)
              /\ told' = [told EXCEPT ![r] = Append(@, "done")]
              /\ chat' = Append(chat, <<"answer", r>>)
              /\ UNCHANGED <<body, entry, cache, fallback, memory, open, faults>>
\* A failed response, an event that is not JSON, a cancellation noticed
\* between two events.
SseFails(r) == /\ At(r, "sse")
               /\ Fails(r)
               /\ UNCHANGED <<chat, body, entry, cache, fallback, memory, open, faults>>

\* ------------------------------------------------- what happens around it
Fault == Running /\ faults < MaxFaults /\ faults' = faults + 1

Cancel(r) == /\ Fault
             /\ req[r].pc \notin {"idle", "ended"} /\ ~req[r].cancelled
             /\ req' = [req EXCEPT ![r].cancelled = TRUE]
             /\ UNCHANGED <<chat, body, told, entry, cache, fallback, memory, open>>

PeerCloses(e) == /\ Fault
                 /\ e \in open
                 /\ open' = open \ {e}
                 /\ UNCHANGED <<chat, body, req, told, entry, cache, fallback, memory>>

\* CloseOpenAICodexWebSocketSessions, when the chat is deleted: in use or not.
CloseSessions ==
  /\ Fault
  /\ cache # None
  /\ Dropped(cache)
  /\ UNCHANGED <<chat, body, req, told, fallback>>

\* The messages of the session change otherwise: a compaction, another branch.
Shortened == IF chat = <<>> THEN {} ELSE {Tail(chat), Front(chat)}
Rewrite(messages) ==
  /\ Fault /\ \E r \in Requests : req[r].pc = "idle"
  /\ chat' = messages
  /\ UNCHANGED <<body, req, told, entry, cache, fallback, memory, open>>

\* The user chooses another model or other tools.
Reconfigure == /\ Fault /\ \E r \in Requests : req[r].pc = "idle"
               /\ body' = body + 1
               /\ UNCHANGED <<chat, req, told, entry, cache, fallback, memory, open>>

\* The timer of an idle entry: Stop does not stop a callback that is waiting
\* for the lock.
TimerIsDue(e) == /\ Running /\ entry[e].armed
                 /\ entry' = [entry EXCEPT ![e].armed = FALSE, ![e].due = TRUE]
                 /\ UNCHANGED <<chat, body, req, told, cache, fallback, memory, open, faults>>

IdleTimeout(e) ==
  /\ Running /\ entry[e].due
  /\ IF entry[e].busy
     THEN entry' = [entry EXCEPT ![e].due = FALSE] /\ UNCHANGED <<cache, open, memory>>
     ELSE /\ entry' = [entry EXCEPT ![e] = NoEntry]
          /\ open' = open \ {e}
          /\ cache' = Uncached(e)
          /\ memory' = [memory EXCEPT ![e] = <<>>]
  /\ UNCHANGED <<chat, body, req, told, fallback, faults>>

\* What a request's goroutine does, with the server it waits for.
Advance(r) ==
  \/ Acquire(r) \/ Dial(r) \/ DialFails(r)
  \/ Panics(r) \/ Send(r) \/ Read(r) \/ SocketFails(r) \/ FallsBack(r)
  \/ ReceiveFirst(r)
  \/ \E how \in {"answer", "partial"} : ReceiveEnd(r, how)
  \/ \E decoded \in BOOLEAN : ReceiveError(r, decoded)
  \/ Post(r)
  \/ \E retryable \in BOOLEAN : Refused(r, retryable)
  \/ SseEnds(r) \/ SseFails(r)

Next ==
  \/ \E r \in Requests, t \in Transports : Begin(r, t)
  \/ \E r \in Requests : Advance(r)
  \/ \E r \in Requests : Cancel(r)
  \/ \E e \in Requests : PeerCloses(e)
  \/ CloseSessions
  \/ \E messages \in Shortened : Rewrite(messages)
  \/ Reconfigure
  \/ \E e \in Requests : TimerIsDue(e)
  \/ \E e \in Requests : IdleTimeout(e)

Spec == Init /\ [][Next]_vars
FairSpec == Spec /\ \A r \in Requests : WF_vars(Advance(r))

\* ------------------------------------------------------------ properties
UsesSocket(r) == req[r].pc \in {"write", "between", "reading"}

\* The items of s that are not partial are those of t, in their order.
Kept(s) == {i \in DOMAIN s : s[i][1] # "partial"}
Says(s, t) == /\ Len(t) = Cardinality(Kept(s))
              /\ \A i \in Kept(s) : t[Cardinality(Kept(s) \intersect 1..i)] = s[i]

\* A request sent as a delta gives the server the whole conversation: the
\* context of the response it continues and the delta are the request's input,
\* but for what responses that failed had put out (BuildCachedCodexWebSocket-
\* RequestBody, whatever other requests, edits and reconnections came between).
ServerHasTheInput ==
  \A r \in Requests : req[r].pc \in {"between", "reading"} => Says(req[r].context, req[r].input)

\* Two requests never speak on one connection: their events would mix
\* (acquireCodexWebSocket against releases, clean-ups and new connections).
OneRequestAConnection ==
  \A q, r \in Requests : q # r /\ UsesSocket(q) /\ UsesSocket(r) /\ req[q].ent = req[r].ent
    => ~entry[req[r].ent].conn

\* A stream starts once and ends once, after everything else, also when a
\* request goes from the websocket to server-sent events.
StreamStartsAndEndsOnce ==
  \A r \in Requests :
    /\ \A i \in DOMAIN told[r] : told[r][i] = "start" => i = 1
    /\ \A i \in DOMAIN told[r] : told[r][i] \in {"done", "error"} => i = Len(told[r])
    /\ req[r].pc = "ended" /\ Running => told[r] # <<>> /\ Last(told[r]) \in {"done", "error"}

\* Every request ends, unless the process does: the server answers or closes,
\* and the goroutine that waits for it goes on.
RequestsEnd == []<>(\/ ~Running
                    \/ \A r \in Requests : req[r].pc \in {"idle", "ended"})

\* "expected continuation to be cleared on websocket error": a response that
\* ended in an error is not continued (openai_codex_responses_test.go:608).
ErrorsClearContinuation ==
  \A e \in Requests : entry[e].cont # NoContinuation
    => Last(memory[e][entry[e].cont.response])[1] # "partial"
=============================================================================
