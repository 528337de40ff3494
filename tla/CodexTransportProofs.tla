------------------------ MODULE CodexTransportProofs ------------------------
(* What holds of a session's requests for every number of requests, however *)
(* many of them overlap and whatever fails around them.                     *)
EXTENDS CodexTransport, FiniteSetTheorems, SequenceTheorems, TLAPS

-----------------------------------------------------------------------------
(* The inductive invariant. *)

PCs == {"idle", "acquire", "dial", "write", "between", "reading", "failed", "post", "sse",
        "ended", "panic"}
Said == {"turn", "answer"} \X Requests
Items == {"turn", "answer", "partial"} \X Requests
Tellings == {<<>>, <<"start">>, <<"error">>, <<"start", "error">>, <<"start", "done">>}
Continuations == {NoContinuation}
  \union [body : Nat, input : Seq(Said), response : Requests, items : Seq(Said)]

RequestType == [pc : PCs, transport : Transports \union {"auto"}, body : Nat, input : Seq(Said),
                ent : Requests \union {None}, context : Seq(Items), attempt : Nat, cancelled : BOOLEAN]
EntryType == [conn : BOOLEAN, busy : BOOLEAN, armed : BOOLEAN, due : BOOLEAN, cont : Continuations]

TypeInv ==
  /\ chat \in Seq(Said) /\ body \in Nat
  /\ req \in [Requests -> RequestType]
  /\ told \in [Requests -> Tellings]
  /\ entry \in [Requests -> EntryType]
  /\ cache \in Requests \union {None}
  /\ DOMAIN memory = Requests
  /\ \A e \in Requests : \A s \in DOMAIN memory[e] : memory[e][s] \in Seq(Items)

\* Who speaks on a connection has marked its entry.
SocketInv == \A r \in Requests : UsesSocket(r) =>
  /\ req[r].ent \in Requests
  /\ entry[req[r].ent].conn => entry[req[r].ent].busy

\* A request that has not dialled yet has no connection another one could have.
FreshInv == \A r \in Requests : req[r].pc \in {"idle", "acquire", "dial"} =>
  /\ cache # r
  /\ \A q \in Requests : UsesSocket(q) => req[q].ent # r

\* What a request has told its stream follows what it is doing.
ToldAt(pc) == CASE pc \in {"idle", "acquire", "dial", "write", "post"} -> {<<>>}
                [] pc \in {"between", "reading", "failed"} -> {<<>>, <<"start">>}
                [] pc = "sse" -> {<<"start">>}
                [] pc = "ended" -> {<<"error">>, <<"start", "error">>, <<"start", "done">>}
                [] OTHER -> Tellings
ToldInv == Running => \A r \in Requests : told[r] \in ToldAt(req[r].pc)

\* The server remembers the response a continuation names, made from its
\* baseline; the request it answered is over.
MemoryInv == \A e \in Requests : LET c == entry[e].cont IN
  c.response # None => /\ c.response \in DOMAIN memory[e]
                        /\ Says(memory[e][c.response], Baseline(c))
                        /\ req[c.response].pc \in {"ended", "panic"}

IInv == /\ TypeInv /\ SocketInv /\ FreshInv /\ OneRequestAConnection
        /\ ToldInv /\ MemoryInv /\ ServerHasTheInput

-----------------------------------------------------------------------------
(* What a response was made from, and what it says, grows by the same items. *)

LEMMA SaidAreItems == \A s \in Seq(Said) : s \in Seq(Items) /\ Kept(s) = 1..Len(s)
<1>1. Said \subseteq Items /\ \A x \in Said : x[1] # "partial"
  BY DEF Said, Items
<1>2. ASSUME NEW s \in Seq(Said)  PROVE s \in Seq(Items) /\ Kept(s) = 1..Len(s)
  BY <1>1 DEF Kept
<1> QED BY <1>2

LEMMA KeptIsFinite ==
  ASSUME NEW s \in Seq(Items)
  PROVE  /\ Kept(s) \subseteq 1..Len(s) /\ IsFiniteSet(Kept(s)) /\ Cardinality(Kept(s)) \in Nat
         /\ \A i \in Kept(s) : Cardinality(Kept(s) \intersect 1..i) \in 1..Cardinality(Kept(s))
<1>1. Kept(s) \subseteq 1..Len(s) /\ Len(s) \in Nat
  BY DEF Kept
<1>2. IsFiniteSet(1..Len(s))
  BY <1>1, FS_Interval
<1>3. IsFiniteSet(Kept(s)) /\ Cardinality(Kept(s)) \in Nat
  BY <1>1, <1>2, FS_Subset, FS_CardinalityType
<1>4. ASSUME NEW i \in Kept(s)
      PROVE  Cardinality(Kept(s) \intersect 1..i) \in 1..Cardinality(Kept(s))
  <2> DEFINE T == Kept(s) \intersect 1..i
  <2>1. i \in T
    BY <1>1
  <2>2. IsFiniteSet(T) /\ Cardinality(T) <= Cardinality(Kept(s))
    BY <1>3, FS_Subset
  <2>3. Cardinality(T) \in Nat /\ Cardinality(T) # 0
    BY <2>1, <2>2, FS_CardinalityType, FS_EmptySet
  <2> QED BY <1>3, <2>2, <2>3
<1> QED BY <1>1, <1>3, <1>4

LEMMA NextOnes ==
  ASSUME NEW K, IsFiniteSet(K), NEW n \in Nat, K \subseteq 1..n, NEW m \in Nat, m >= n
  PROVE  Cardinality(K \union (n + 1)..m) = Cardinality(K) + (m - n)
<1> DEFINE N == (n + 1)..m
<1>1. IsFiniteSet(N) /\ Cardinality(N) = m - n
  <2>1. n + 1 \in Int /\ m \in Int /\ (n + 1 > m => m - n = 0) /\ m - (n + 1) + 1 = m - n
    OBVIOUS
  <2>2. IsFiniteSet(N) /\ Cardinality(N) = IF n + 1 > m THEN 0 ELSE m - (n + 1) + 1
    BY <2>1, FS_Interval
  <2> QED BY <2>1, <2>2
<1>2. K \intersect N = {}
  OBVIOUS
<1>3. Cardinality(K \intersect N) = 0 /\ Cardinality(K) \in Nat
  BY <1>2, FS_EmptySet, FS_CardinalityType
<1> HIDE DEF N
<1>4. Cardinality(K \union N) = Cardinality(K) + Cardinality(N) - Cardinality(K \intersect N)
  BY <1>1, FS_Union
<1>5. Cardinality(K \union N) = Cardinality(K) + (m - n)
  BY <1>1, <1>3, <1>4
<1> QED BY <1>5 DEF N

LEMMA SaysMore ==
  ASSUME NEW s \in Seq(Items), NEW t \in Seq(Said), NEW u \in Seq(Said), Says(s, t)
  PROVE  Says(s \o u, t \o u)
<1> DEFINE K == Kept(s)
           n == Len(s)
<1>0. u \in Seq(Items) /\ Kept(u) = 1..Len(u) /\ n \in Nat /\ Len(u) \in Nat /\ Len(t) \in Nat
  BY SaidAreItems
<1>1. K \subseteq 1..n /\ IsFiniteSet(K) /\ Cardinality(K) = Len(t)
  BY KeptIsFinite DEF Says
<1>2. Kept(s \o u) = K \union (n + 1)..(n + Len(u))
  <2>1. DOMAIN (s \o u) = 1..(n + Len(u))
    BY <1>0
  <2>2. \A i \in 1..n : (s \o u)[i] = s[i]
    BY <1>0
  <2>3. ASSUME NEW i \in (n + 1)..(n + Len(u))  PROVE (s \o u)[i][1] # "partial"
    <3>1. (s \o u)[i] = u[i - n] /\ i - n \in Kept(u)
      BY <1>0
    <3> QED BY <3>1 DEF Kept
  <2>4. K = {i \in 1..n : s[i][1] # "partial"}
    BY DEF Kept
  <2>5. Kept(s \o u) = {i \in 1..(n + Len(u)) : (s \o u)[i][1] # "partial"}
    BY <2>1 DEF Kept
  <2> HIDE DEF K
  <2> QED BY <1>0, <2>2, <2>3, <2>4, <2>5
<1>3. Len(t \o u) = Cardinality(Kept(s \o u))
  <2>1. n + Len(u) \in Nat /\ n + Len(u) >= n /\ (n + Len(u)) - n = Len(u)
    BY <1>0
  <2> HIDE DEF K, n
  <2>2. Cardinality(K \union (n + 1)..(n + Len(u))) = Cardinality(K) + ((n + Len(u)) - n)
    BY <1>0, <1>1, <2>1, NextOnes
  <2> QED BY <1>0, <1>1, <1>2, <2>1, <2>2
<1>4. ASSUME NEW i \in K
      PROVE  (t \o u)[Cardinality(Kept(s \o u) \intersect 1..i)] = (s \o u)[i]
  <2>1. Kept(s \o u) \intersect 1..i = K \intersect 1..i
    BY <1>0, <1>1, <1>2
  <2>2. Cardinality(K \intersect 1..i) \in 1..Len(t)
    BY <1>1, KeptIsFinite
  <2>3. t[Cardinality(K \intersect 1..i)] = s[i] /\ i \in 1..n
    BY <1>1 DEF Says
  <2> DEFINE c == Cardinality(K \intersect 1..i)
  <2> HIDE DEF c, K
  <2>4. (t \o u)[c] = t[c] /\ (s \o u)[i] = s[i]
    BY <1>0, <2>2, <2>3 DEF c
  <2> QED BY <2>1, <2>3, <2>4 DEF c
<1>5. ASSUME NEW i \in (n + 1)..(n + Len(u))
      PROVE  (t \o u)[Cardinality(Kept(s \o u) \intersect 1..i)] = (s \o u)[i]
  <2>1. Kept(s \o u) \intersect 1..i = K \union (n + 1)..i
    BY <1>0, <1>1, <1>2
  <2>2. Cardinality(K \union (n + 1)..i) = Len(t) + (i - n)
    <3>1. i \in Nat /\ i >= n
      BY <1>0
    <3> HIDE DEF K, n
    <3>2. Cardinality(K \union (n + 1)..i) = Cardinality(K) + (i - n)
      BY <1>0, <1>1, <3>1, NextOnes
    <3> QED BY <1>1, <3>2
  <2>3. (t \o u)[Len(t) + (i - n)] = u[i - n] /\ (s \o u)[i] = u[i - n]
    BY <1>0
  <2> QED BY <2>1, <2>2, <2>3
<1> QED BY <1>2, <1>3, <1>4, <1>5 DEF Says

LEMMA SaysItself ==
  ASSUME NEW t \in Seq(Said)
  PROVE  Says(t, t)
<1>1. Kept(<<>>) = {}
  BY DEF Kept
<1>2. Says(<<>>, <<>>)
  BY <1>1, FS_EmptySet DEF Says
<1>3. <<>> \in Seq(Items) /\ <<>> \in Seq(Said) /\ <<>> \o t = t
  OBVIOUS
<1> QED BY <1>2, <1>3, SaysMore

\* What a failed response had put out is not missed.
LEMMA SaysNothing ==
  ASSUME NEW s \in Seq(Items), NEW t, Says(s, t), NEW x \in Items, x[1] = "partial"
  PROVE  Says(Append(s, x), t)
<1>1. Append(s, x) \in Seq(Items) /\ Len(Append(s, x)) = Len(s) + 1 /\ Append(s, x)[Len(s) + 1] = x
  OBVIOUS
<1>2. \A i \in 1..Len(s) : Append(s, x)[i] = s[i]
  OBVIOUS
<1>3. Kept(s) = {i \in 1..Len(s) : s[i][1] # "partial"}
  BY DEF Kept
<1>4. Kept(Append(s, x)) = {i \in 1..(Len(s) + 1) : Append(s, x)[i][1] # "partial"}
  BY <1>1 DEF Kept
<1>5. Kept(Append(s, x)) = Kept(s)
  BY <1>1, <1>2, <1>3, <1>4
<1> QED BY <1>2, <1>3, <1>5 DEF Says

LEMMA SaysOne ==
  ASSUME NEW s \in Seq(Items), NEW t \in Seq(Said), Says(s, t), NEW x \in Said
  PROVE  Says(Append(s, x), t \o <<x>>)
<1>1. <<x>> \in Seq(Said) /\ Append(s, x) = s \o <<x>>
  OBVIOUS
<1> QED BY <1>1, SaysMore

-----------------------------------------------------------------------------
(* The steps of a request. *)

LEMMA NobodyIsNone == None \notin Requests
<1>1. Cardinality(Requests) \in Nat
  BY RequestsAreNumbered, FS_CardinalityType
<1> QED BY <1>1, RequestsAreNumbered DEF None

LEMMA Blank == /\ Quiet \in RequestType /\ NoEntry \in EntryType
               /\ NoContinuation \in Continuations
               /\ Quiet.pc = "idle" /\ Quiet.ent = None /\ NoContinuation.response = None
               /\ ~NoEntry.conn /\ ~NoEntry.busy /\ NoEntry.cont = NoContinuation
<1>1. NoContinuation \in Continuations /\ <<>> \in Seq(Said) /\ <<>> \in Seq(Items)
  BY DEF Continuations
<1> QED BY <1>1 DEF Quiet, RequestType, PCs, NoEntry, EntryType, NoContinuation, None

\* One request becomes q.
LEMMA OneRequest ==
  ASSUME TypeInv, NEW r \in Requests, NEW q \in RequestType, req' = [req EXCEPT ![r] = q]
  PROVE  /\ req' \in [Requests -> RequestType] /\ req'[r] = q
         /\ \A s \in Requests \ {r} : req'[s] = req[s]
BY DEF TypeInv

LEMMA Goes ==
  ASSUME TypeInv, NEW r \in Requests, NEW pc \in PCs, req' = Goto(r, pc)
  PROVE  /\ req' \in [Requests -> RequestType]
         /\ req'[r].pc = pc /\ req'[r].ent = req[r].ent
         /\ req'[r].context = req[r].context /\ req'[r].input = req[r].input
         /\ \A s \in Requests \ {r} : req'[s] = req[s]
<1> DEFINE q == [req[r] EXCEPT !.pc = pc]
<1>1. req[r] \in RequestType
  BY DEF TypeInv
<1>2. q \in RequestType /\ q.pc = pc /\ q.ent = req[r].ent /\ q.context = req[r].context /\ q.input = req[r].input
  BY <1>1 DEF RequestType
<1>3. req' = [req EXCEPT ![r] = q]
  BY DEF Goto
<1> HIDE DEF q
<1> QED BY <1>2, <1>3, OneRequest

LEMMA Ends ==
  ASSUME TypeInv, NEW r \in Requests, req' = Ended(r)
  PROVE  /\ req' \in [Requests -> RequestType] /\ req'[r].pc = "ended"
         /\ \A s \in Requests \ {r} : req'[s] = req[s]
<1> DEFINE q == [Quiet EXCEPT !.pc = "ended"]
<1>1. q \in RequestType /\ q.pc = "ended"
  BY Blank DEF RequestType, PCs
<1>2. req' = [req EXCEPT ![r] = q]
  BY DEF Ended
<1> HIDE DEF q
<1> QED BY <1>1, <1>2, OneRequest

\* What a step leaves alone of the transport, when it is r's and not about a connection.
Aside(r) == /\ req' \in [Requests -> RequestType]
            /\ \A s \in Requests \ {r} : req'[s] = req[s]
            /\ UNCHANGED <<entry, cache, memory>>

\* A step that neither takes nor frees a connection keeps what is known of them.
LEMMA AsideKeeps ==
  ASSUME IInv, NEW r \in Requests, Aside(r),
         UsesSocket(r)' => UsesSocket(r) /\ req'[r].ent = req[r].ent,
         req'[r].pc \in {"idle", "acquire", "dial"} => req[r].pc \in {"idle", "acquire", "dial"},
         req[r].pc \in {"ended", "panic"} => req'[r].pc \in {"ended", "panic"},
         req'[r].pc \in {"between", "reading"} => Says(req'[r].context, req'[r].input)
  PROVE  SocketInv' /\ FreshInv' /\ OneRequestAConnection' /\ MemoryInv' /\ ServerHasTheInput'
<1>1. SocketInv'
  BY DEF IInv, SocketInv, Aside, UsesSocket
<1>2. FreshInv'
  BY DEF IInv, FreshInv, Aside, UsesSocket
<1>3. OneRequestAConnection'
  BY DEF IInv, OneRequestAConnection, Aside, UsesSocket
<1>4. MemoryInv'
  <2>1. ASSUME NEW s \in Requests, req[s].pc \in {"ended", "panic"}
        PROVE  req'[s].pc \in {"ended", "panic"}
    BY <2>1 DEF Aside
  <2>2. ASSUME NEW e \in Requests, entry[e].cont.response # None
        PROVE  entry[e].cont.response \in Requests
    BY <2>2 DEF IInv, TypeInv, EntryType, Continuations, NoContinuation
  <2> QED BY <2>1, <2>2 DEF IInv, MemoryInv, Aside
<1>5. ServerHasTheInput'
  BY DEF IInv, ServerHasTheInput, Aside
<1> QED BY <1>1, <1>2, <1>3, <1>4, <1>5

LEMMA TellsOne ==
  ASSUME IInv, Running, NEW r \in Requests, \A s \in Requests \ {r} : req'[s] = req[s],
         NEW x, told' = [told EXCEPT ![r] = x] \/ (told' = told /\ x = told[r]),
         x \in ToldAt(req'[r].pc)
  PROVE  told' \in [Requests -> Tellings] /\ ToldInv'
<1>1. x \in Tellings
  BY DEF ToldAt, Tellings
<1>2. told \in [Requests -> Tellings]
  BY DEF IInv, TypeInv
<1>3. told' \in [Requests -> Tellings] /\ told'[r] = x /\ \A s \in Requests \ {r} : told'[s] = told[s]
  BY <1>1, <1>2
<1>4. \A s \in Requests : told'[s] \in ToldAt(req'[s].pc)
  BY <1>3 DEF IInv, ToldInv
<1> QED BY <1>3, <1>4 DEF ToldInv

LEMMA BeginStep ==
  ASSUME IInv, NEW r \in Requests, NEW t \in Transports, Begin(r, t)
  PROVE  IInv'
<1> DEFINE x == <<"turn", r>>
           input == Append(chat, x)
           pc == IF t = "sse" \/ fallback THEN "post" ELSE "acquire"
           q == [Quiet EXCEPT !.pc = pc, !.transport = t, !.body = body, !.input = input]
<1>1. input \in Seq(Said)
  BY DEF IInv, TypeInv, Said
<1>2. q \in RequestType /\ q.pc = pc
  BY <1>1, Blank DEF IInv, TypeInv, RequestType, PCs
<1>3. /\ Running /\ req[r].pc = "idle" /\ chat' = input /\ req' = [req EXCEPT ![r] = q]
      /\ UNCHANGED <<body, told, entry, cache, memory>>
  BY DEF Begin, At
<1> HIDE DEF q
<1>4. req'[r].pc = pc /\ Aside(r)
  BY <1>2, <1>3, OneRequest DEF IInv, Aside
<1>5. TypeInv' /\ ToldInv'
  <2>1. told[r] \in ToldAt("idle")
    BY <1>3 DEF IInv, ToldInv
  <2>2. told[r] \in ToldAt(req'[r].pc)
    BY <1>4, <2>1 DEF ToldAt
  <2>3. ToldInv'
    BY <1>3, <1>4, <2>2, TellsOne DEF Aside
  <2> QED BY <1>1, <1>3, <1>4, <2>3 DEF IInv, TypeInv, Aside
<1>6. SocketInv' /\ FreshInv' /\ OneRequestAConnection' /\ MemoryInv' /\ ServerHasTheInput'
  BY <1>3, <1>4, AsideKeeps DEF UsesSocket
<1> QED BY <1>5, <1>6 DEF IInv

\* A step that only moves r on, and tells its stream x.
LEMMA MoveStep ==
  ASSUME IInv, Running, NEW r \in Requests, NEW pc \in PCs, NEW x,
         req' = Goto(r, pc), told' = [told EXCEPT ![r] = x] \/ (told' = told /\ x = told[r]),
         x \in ToldAt(pc), UNCHANGED <<chat, body, entry, cache, memory>>,
         pc \in {"between", "reading"} => req[r].pc \in {"between", "reading"},
         pc \notin {"idle", "acquire", "write"}, pc = "dial" => req[r].pc = "acquire",
         req[r].pc \notin {"ended", "panic"}
  PROVE  IInv'
<1>1. req'[r].pc = pc /\ Aside(r) /\ req'[r].ent = req[r].ent
      /\ req'[r].context = req[r].context /\ req'[r].input = req[r].input
  BY Goes DEF IInv, Aside
<1>2. ToldInv' /\ TypeInv'
  <2>1. ToldInv' /\ told' \in [Requests -> Tellings]
    BY <1>1, TellsOne DEF Aside
  <2> QED BY <1>1, <2>1 DEF IInv, TypeInv, Aside
<1>3. UsesSocket(r)' => UsesSocket(r) /\ req'[r].ent = req[r].ent
  BY <1>1 DEF UsesSocket
<1>4. pc \in {"between", "reading"} => Says(req'[r].context, req'[r].input)
  BY <1>1 DEF IInv, ServerHasTheInput
<1>5. SocketInv' /\ FreshInv' /\ OneRequestAConnection' /\ MemoryInv' /\ ServerHasTheInput'
  BY <1>1, <1>3, <1>4, AsideKeeps
<1> QED BY <1>2, <1>5 DEF IInv

\* A step by which r ends, having told its stream x, that needs no connection.
LEMMA EndStep ==
  ASSUME IInv, Running, NEW r \in Requests, NEW x,
         req' = Ended(r), told' = [told EXCEPT ![r] = x], x \in ToldAt("ended"),
         chat' \in Seq(Said), UNCHANGED <<body, entry, cache, memory>>
  PROVE  IInv'
<1>1. req'[r].pc = "ended" /\ Aside(r)
  BY Ends DEF IInv, Aside
<1>2. ToldInv' /\ TypeInv'
  <2>1. ToldInv' /\ told' \in [Requests -> Tellings]
    BY <1>1, TellsOne DEF Aside
  <2> QED BY <1>1, <2>1 DEF IInv, TypeInv, Aside
<1>3. SocketInv' /\ FreshInv' /\ OneRequestAConnection' /\ MemoryInv' /\ ServerHasTheInput'
  BY <1>1, AsideKeeps DEF UsesSocket
<1> QED BY <1>2, <1>3 DEF IInv

\* What a stream has been told and may be told next.
LEMMA Tells ==
  ASSUME IInv, Running, NEW r \in Requests
  PROVE  /\ req[r].pc \in {"idle", "acquire", "dial", "write", "post"} => told[r] = <<>>
         /\ req[r].pc \in {"between", "reading", "failed"} => told[r] \in {<<>>, <<"start">>}
         /\ req[r].pc = "sse" => told[r] = <<"start">>
BY DEF IInv, ToldInv, ToldAt

LEMMA TwoTold ==
  ASSUME NEW x, NEW y
  PROVE  Append(<<x>>, y) = <<x, y>>
<1> DEFINE s == Append(<<x>>, y)
           t == <<x, y>>
<1>1. s \in Seq({x, y}) /\ Len(s) = 2 /\ s[1] = x /\ s[2] = y
  OBVIOUS
<1>2. t \in Seq({x, y}) /\ Len(t) = 2 /\ t[1] = x /\ t[2] = y
  OBVIOUS
<1> HIDE DEF s, t
<1>3. s = t
  BY <1>1, <1>2, SeqEqual
<1> QED BY <1>3 DEF s, t

LEMMA StartTold ==
  ASSUME NEW r \in Requests, told[r] \in {<<>>, <<"start">>}
  PROVE  /\ Start(r) = <<"start">> /\ (Started(r) <=> told[r] = <<"start">>)
         /\ Append(<<>>, "error") = <<"error">> /\ Append(<<>>, "start") = <<"start">>
         /\ Append(<<"start">>, "error") = <<"start", "error">>
         /\ Append(<<"start">>, "done") = <<"start", "done">>
<1>1. Range(<<>>) = {} /\ "start" \in Range(<<"start">>)
  <2>1. DOMAIN <<>> = {} /\ 1 \in DOMAIN <<"start">> /\ <<"start">>[1] = "start"
    OBVIOUS
  <2> QED BY <2>1 DEF Range
<1>2. /\ Append(<<>>, "error") = <<"error">> /\ Append(<<>>, "start") = <<"start">>
      /\ Append(<<"start">>, "error") = <<"start", "error">>
      /\ Append(<<"start">>, "done") = <<"start", "done">>
  BY TwoTold
<1>3. <<>> # <<"start">>
  OBVIOUS
<1>4. Started(r) <=> told[r] = <<"start">>
  BY <1>1, <1>3 DEF Started
<1> QED BY <1>2, <1>4 DEF Start

LEMMA PlainSteps ==
  ASSUME IInv, NEW r \in Requests,
         \/ DialFails(r) \/ Read(r) \/ FallsBack(r) \/ ReceiveFirst(r) \/ Post(r)
         \/ \E retryable \in BOOLEAN : Refused(r, retryable)
         \/ SseEnds(r) \/ SseFails(r)
  PROVE  IInv'
<1>0. req[r] \in RequestType /\ DOMAIN told = Requests
  BY DEF IInv, TypeInv
<1>1. CASE DialFails(r)
  <2>1. At(r, "dial") /\ UNCHANGED <<chat, body, entry, cache, memory>>
    BY <1>1 DEF DialFails
  <2>2. told[r] = <<>> /\ Append(told[r], "error") = <<"error">>
    BY <2>1, Tells, StartTold DEF At
  <2>3. CASE req[r].cancelled
    <3>1. req' = Ended(r) /\ told' = [told EXCEPT ![r] = <<"error">>]
      BY <1>1, <2>2, <2>3 DEF DialFails, Fails
    <3> QED BY <2>1, <3>1, EndStep DEF At, ToldAt, IInv, TypeInv
  <2>4. CASE ~req[r].cancelled
    <3>1. req' = Goto(r, "failed") /\ told' = told
      BY <1>1, <2>4 DEF DialFails
    <3> QED BY <2>1, <2>2, <3>1, MoveStep DEF At, ToldAt, PCs
  <2> QED BY <2>3, <2>4
<1>2. CASE Read(r)
  <2>1. At(r, "between") /\ req' = Goto(r, "reading") /\ UNCHANGED <<chat, body, told, entry, cache, memory>>
    BY <1>2 DEF Read
  <2>2. told[r] \in ToldAt("reading")
    BY <2>1, Tells DEF At, ToldAt
  <2> QED BY <2>1, <2>2, MoveStep DEF At, PCs
<1>3. CASE FallsBack(r)
  <2>1. At(r, "failed") /\ UNCHANGED <<chat, body, entry, cache, memory>>
    BY <1>3 DEF FallsBack
  <2>2. told[r] \in {<<>>, <<"start">>}
    BY <2>1, Tells DEF At
  <2>3. CASE Started(r)
    <3>1. Append(told[r], "error") = <<"start", "error">>
      BY <2>2, <2>3, StartTold
    <3>2. req' = Ended(r) /\ told' = [told EXCEPT ![r] = <<"start", "error">>]
      BY <1>3, <2>3, <3>1 DEF FallsBack, Fails
    <3> QED BY <2>1, <3>2, EndStep DEF At, ToldAt, IInv, TypeInv
  <2>4. CASE ~Started(r)
    <3>1. req' = Goto(r, "post") /\ told' = told /\ told[r] = <<>>
      BY <1>3, <2>2, <2>4, StartTold DEF FallsBack
    <3> QED BY <2>1, <3>1, MoveStep DEF At, ToldAt, PCs
  <2> QED BY <2>3, <2>4
<1>4. CASE ReceiveFirst(r)
  <2>1. At(r, "reading") /\ UNCHANGED <<chat, body, entry, cache, memory>>
        /\ req' = Goto(r, "between") /\ told' = [told EXCEPT ![r] = Start(r)]
    BY <1>4 DEF ReceiveFirst, Listening
  <2>2. Start(r) = <<"start">>
    BY <2>1, Tells, StartTold DEF At
  <2> QED BY <2>1, <2>2, MoveStep DEF At, ToldAt, PCs
<1>5. CASE Post(r)
  <2>1. At(r, "post") /\ UNCHANGED <<chat, body, entry, cache, memory>>
        /\ req' = Goto(r, "sse") /\ told' = [told EXCEPT ![r] = Append(told[r], "start")]
    BY <1>5 DEF Post
  <2>2. Append(told[r], "start") = <<"start">>
    BY <2>1, Tells, StartTold DEF At
  <2> QED BY <2>1, <2>2, MoveStep DEF At, ToldAt, PCs
<1>6. ASSUME NEW retryable \in BOOLEAN, Refused(r, retryable)  PROVE IInv'
  <2>1. At(r, "post") /\ UNCHANGED <<chat, body, entry, cache, memory>>
    BY <1>6 DEF Refused
  <2>2. told[r] = <<>> /\ Append(told[r], "error") = <<"error">>
    BY <2>1, Tells, StartTold DEF At
  <2>3. CASE req' = [req EXCEPT ![r].attempt = @ + 1] /\ UNCHANGED told
    <3> DEFINE q == [req[r] EXCEPT !.attempt = req[r].attempt + 1]
    <3>1. q \in RequestType /\ q.pc = "post"
      BY <1>0, <2>1 DEF RequestType, At
    <3>2. req' = [req EXCEPT ![r] = q]
      BY <2>3
    <3> HIDE DEF q
    <3>3. Aside(r) /\ req'[r].pc = "post"
      BY <2>1, <3>1, <3>2, OneRequest DEF Aside, IInv
    <3>4. ToldInv' /\ told' \in [Requests -> Tellings]
      BY <2>1, <2>2, <2>3, <3>3, TellsOne DEF Aside, At, ToldAt
    <3>5. TypeInv'
      BY <2>1, <3>3, <3>4 DEF IInv, TypeInv, Aside
    <3>6. SocketInv' /\ FreshInv' /\ OneRequestAConnection' /\ MemoryInv' /\ ServerHasTheInput'
      BY <2>1, <3>3, AsideKeeps DEF UsesSocket, At
    <3> QED BY <3>4, <3>5, <3>6 DEF IInv
  <2>4. CASE Fails(r)
    <3>1. req' = Ended(r) /\ told' = [told EXCEPT ![r] = <<"error">>]
      BY <2>2, <2>4 DEF Fails
    <3> QED BY <2>1, <3>1, EndStep DEF At, ToldAt, IInv, TypeInv
  <2> QED BY <1>6, <2>3, <2>4 DEF Refused
<1>7. CASE SseEnds(r)
  <2>1. At(r, "sse") /\ UNCHANGED <<body, entry, cache, memory>> /\ req' = Ended(r)
        /\ told' = [told EXCEPT ![r] = Append(told[r], "done")] /\ chat' = Append(chat, <<"answer", r>>)
    BY <1>7 DEF SseEnds
  <2>2. Append(told[r], "done") = <<"start", "done">>
    BY <2>1, Tells, StartTold DEF At
  <2>3. chat' \in Seq(Said)
    BY <2>1 DEF IInv, TypeInv, Said
  <2> QED BY <2>1, <2>2, <2>3, EndStep DEF At, ToldAt
<1>8. CASE SseFails(r)
  <2>1. At(r, "sse") /\ UNCHANGED <<chat, body, entry, cache, memory>> /\ req' = Ended(r)
        /\ told' = [told EXCEPT ![r] = Append(told[r], "error")]
    BY <1>8 DEF SseFails, Fails
  <2>2. Append(told[r], "error") = <<"start", "error">>
    BY <2>1, Tells, StartTold DEF At
  <2> QED BY <2>1, <2>2, EndStep DEF At, ToldAt, IInv, TypeInv
<1> QED BY <1>1, <1>2, <1>3, <1>4, <1>5, <1>6, <1>7, <1>8

\* The entry of e is closed, and nobody finds it in the cache.
Gone(e) == /\ entry' \in [Requests -> EntryType]
           /\ ~entry'[e].conn /\ entry'[e].cont = NoContinuation
           /\ \A f \in Requests \ {e} : entry'[f] = entry[f] /\ memory'[f] = memory[f]
           /\ cache' \in {cache, None}
           /\ DOMAIN memory' = Requests /\ DOMAIN memory'[e] = {}

LEMMA DroppedIsGone ==
  ASSUME TypeInv, NEW e \in Requests, NEW d \in EntryType, ~d.conn, d.cont = NoContinuation,
         entry' = [entry EXCEPT ![e] = d], cache' = Uncached(e), memory' = [memory EXCEPT ![e] = <<>>]
  PROVE  Gone(e)
<1>1. DOMAIN <<>> = {}
  OBVIOUS
<1> QED BY <1>1 DEF Gone, TypeInv, Uncached

LEMMA Drops ==
  ASSUME TypeInv, NEW e \in Requests, Dropped(e)
  PROVE  Gone(e)
<1> DEFINE d == [NoEntry EXCEPT !.due = entry[e].due]
<1>1. d \in EntryType /\ ~d.conn /\ d.cont = NoContinuation
  BY Blank DEF TypeInv, EntryType
<1>2. entry' = [entry EXCEPT ![e] = d] /\ cache' = Uncached(e) /\ memory' = [memory EXCEPT ![e] = <<>>]
  BY DEF Dropped, Closed
<1> HIDE DEF d
<1> QED BY <1>1, <1>2, DroppedIsGone

LEMMA GoneKeeps ==
  ASSUME IInv, NEW e \in Requests, Gone(e), req' \in [Requests -> RequestType],
         \A s \in Requests : \/ req'[s] = req[s]
                             \/ req'[s].pc \in {"ended", "panic"}
                             \/ req'[s].pc = "failed" /\ req[s].pc \notin {"ended", "panic"}
  PROVE  SocketInv' /\ FreshInv' /\ OneRequestAConnection' /\ MemoryInv' /\ ServerHasTheInput'
<1>1. \A s \in Requests : UsesSocket(s)' => UsesSocket(s) /\ req'[s] = req[s]
  BY DEF UsesSocket
<1>2. SocketInv'
  BY <1>1 DEF IInv, SocketInv, Gone
<1>3. FreshInv'
  <2>1. \A s \in Requests : req'[s].pc \in {"idle", "acquire", "dial"} => req'[s] = req[s] /\ cache' # s
    BY NobodyIsNone DEF IInv, FreshInv, Gone
  <2> QED BY <1>1, <2>1 DEF IInv, FreshInv
<1>4. OneRequestAConnection'
  <2>1. ASSUME NEW q \in Requests, NEW r \in Requests, q # r, UsesSocket(q)', UsesSocket(r)', req'[q].ent = req'[r].ent
        PROVE  ~entry'[req'[r].ent].conn
    <3>1. UsesSocket(q) /\ UsesSocket(r) /\ req'[q] = req[q] /\ req'[r] = req[r]
      BY <1>1, <2>1
    <3>2. ~entry[req[r].ent].conn /\ req[r].ent \in Requests
      BY <2>1, <3>1 DEF IInv, OneRequestAConnection, SocketInv
    <3> QED BY <3>1, <3>2 DEF Gone
  <2> QED BY <2>1 DEF OneRequestAConnection, UsesSocket
<1>5. MemoryInv'
  <2>1. ASSUME NEW f \in Requests, entry'[f].cont.response # None
        PROVE  /\ entry'[f].cont.response \in DOMAIN memory'[f]
               /\ Says(memory'[f][entry'[f].cont.response], Baseline(entry'[f].cont))
               /\ req'[entry'[f].cont.response].pc \in {"ended", "panic"}
    <3>1. f # e
      BY <2>1, Blank DEF Gone
    <3>2. entry'[f] = entry[f] /\ memory'[f] = memory[f]
      BY <3>1 DEF Gone
    <3>3. entry[f].cont.response \in Requests
      BY <2>1, <3>2 DEF IInv, TypeInv, EntryType, Continuations, NoContinuation
    <3>4. /\ entry[f].cont.response \in DOMAIN memory[f]
          /\ Says(memory[f][entry[f].cont.response], Baseline(entry[f].cont))
          /\ req[entry[f].cont.response].pc \in {"ended", "panic"}
      BY <2>1, <3>2 DEF IInv, MemoryInv
    <3> QED BY <3>2, <3>3, <3>4
  <2> QED BY <2>1 DEF MemoryInv
<1>6. ServerHasTheInput'
  BY DEF IInv, ServerHasTheInput
<1> QED BY <1>2, <1>3, <1>4, <1>5, <1>6

LEMMA GoneTypes ==
  ASSUME TypeInv, NEW e \in Requests, Gone(e)
  PROVE  /\ entry' \in [Requests -> EntryType] /\ cache' \in Requests \union {None}
         /\ DOMAIN memory' = Requests
         /\ \A f \in Requests : \A s \in DOMAIN memory'[f] : memory'[f][s] \in Seq(Items)
BY DEF TypeInv, Gone

LEMMA SocketFailsStep ==
  ASSUME IInv, NEW r \in Requests,
         SocketFails(r) \/ \E decoded \in BOOLEAN : ReceiveError(r, decoded)
  PROVE  IInv'
<1> DEFINE e == req[r].ent
<1>1. /\ Running /\ req[r].pc \in {"write", "reading"} /\ Dropped(e) /\ UNCHANGED <<chat, body>>
      /\ \/ Fails(r)
         \/ req' = Goto(r, "failed") /\ UNCHANGED told
         \/ /\ req[r].pc = "reading" /\ req' = Ended(r)
            /\ \/ told' = [told EXCEPT ![r] = Append(Start(r), "error")]
               \/ told' = [told EXCEPT ![r] = Append(told[r], "error")]
  BY DEF SocketFails, ReceiveError, Listening, At
<1>2. e \in Requests
  BY <1>1 DEF IInv, SocketInv, UsesSocket
<1> HIDE DEF e
<1>3. Gone(e)
  BY <1>1, <1>2, Drops DEF IInv
<1>4. told[r] \in {<<>>, <<"start">>}
  BY <1>1, Tells
<1>5. Append(told[r], "error") \in ToldAt("ended") /\ Append(Start(r), "error") \in ToldAt("ended")
  BY <1>4, StartTold DEF ToldAt
<1>6. /\ req' \in [Requests -> RequestType] /\ req'[r].pc \in {"ended", "failed"}
      /\ \A s \in Requests \ {r} : req'[s] = req[s]
  BY <1>1, Ends, Goes DEF IInv, Fails, PCs
<1>7. ToldInv' /\ told' \in [Requests -> Tellings]
  <2>1. CASE req' = Goto(r, "failed") /\ UNCHANGED told
    <3>1. told[r] \in ToldAt(req'[r].pc)
      BY <1>4, <2>1, Goes DEF ToldAt, IInv, PCs
    <3> QED BY <1>1, <1>6, <2>1, <3>1, TellsOne
  <2>2. CASE req' = Ended(r)
    <3>1. req'[r].pc = "ended"
      BY <2>2, Ends DEF IInv
    <3>2. CASE told' = [told EXCEPT ![r] = Append(Start(r), "error")]
      BY <1>1, <1>5, <1>6, <3>1, <3>2, TellsOne
    <3>3. CASE told' = [told EXCEPT ![r] = Append(told[r], "error")]
      BY <1>1, <1>5, <1>6, <3>1, <3>3, TellsOne
    <3>4. req' # Goto(r, "failed")
      BY <3>1, Goes DEF IInv, PCs
    <3> QED BY <1>1, <3>2, <3>3, <3>4 DEF Fails
  <2> QED BY <1>1, <2>1, <2>2 DEF Fails
<1>8. TypeInv'
  BY <1>1, <1>2, <1>3, <1>6, <1>7, GoneTypes DEF IInv, TypeInv
<1>9. SocketInv' /\ FreshInv' /\ OneRequestAConnection' /\ MemoryInv' /\ ServerHasTheInput'
  BY <1>1, <1>2, <1>3, <1>6, GoneKeeps
<1> QED BY <1>7, <1>8, <1>9 DEF IInv

LEMMA AcquireStep ==
  ASSUME IInv, NEW r \in Requests, Acquire(r)
  PROVE  IInv'
<1>1. Running /\ req[r].pc = "acquire" /\ UNCHANGED <<chat, body, told, cache, memory>>
  BY DEF Acquire, At
<1>2. CASE req' = Goto(r, "dial") /\ UNCHANGED entry
  BY <1>1, <1>2, Tells, MoveStep DEF ToldAt, PCs
<1>3. CASE /\ cache # None /\ ~entry[cache].busy /\ entry[cache].conn
           /\ entry' = [entry EXCEPT ![cache].busy = TRUE, ![cache].armed = FALSE]
           /\ req' = [req EXCEPT ![r].pc = "write", ![r].ent = cache]
  <2> DEFINE q == [req[r] EXCEPT !.pc = "write", !.ent = cache]
             d == [entry[cache] EXCEPT !.busy = TRUE, !.armed = FALSE]
  <2>1. cache \in Requests /\ req[r] \in RequestType /\ entry[cache] \in EntryType
    BY <1>3 DEF IInv, TypeInv
  <2>2. q \in RequestType /\ q.pc = "write" /\ q.ent = cache
    BY <2>1 DEF RequestType, PCs
  <2>3. d \in EntryType /\ d.conn = entry[cache].conn /\ d.busy /\ d.cont = entry[cache].cont
    BY <2>1 DEF EntryType
  <2>4. req' = [req EXCEPT ![r] = q] /\ entry' = [entry EXCEPT ![cache] = d]
    BY <1>3 DEF IInv, TypeInv
  <2> HIDE DEF q, d
  <2>5. /\ req' \in [Requests -> RequestType] /\ req'[r].pc = "write" /\ req'[r].ent = cache
        /\ \A s \in Requests \ {r} : req'[s] = req[s]
    BY <2>2, <2>4, OneRequest DEF IInv
  <2>6. /\ entry' \in [Requests -> EntryType] /\ entry'[cache].busy
        /\ \A e \in Requests : entry'[e].conn = entry[e].conn /\ entry'[e].cont = entry[e].cont
                               /\ (entry[e].busy => entry'[e].busy)
    BY <2>1, <2>3, <2>4 DEF IInv, TypeInv
  <2>7. \A s \in Requests \ {r} : UsesSocket(s)' => UsesSocket(s) /\ req'[s].ent = req[s].ent /\ req[s].ent # cache
    <3>1. \A s \in Requests \ {r} : UsesSocket(s)' => UsesSocket(s) /\ req'[s].ent = req[s].ent
      BY <2>5 DEF UsesSocket
    <3> QED BY <1>3, <3>1 DEF IInv, SocketInv
  <2>8. SocketInv'
    BY <2>1, <2>5, <2>6, <2>7 DEF IInv, SocketInv
  <2>9. FreshInv'
    <3>1. \A s \in Requests : req'[s].pc \in {"idle", "acquire", "dial"} => s # r /\ req'[s] = req[s]
      BY <2>5
    <3> QED BY <1>1, <2>5, <2>7, <3>1 DEF IInv, FreshInv
  <2>10. OneRequestAConnection'
    <3>1. ASSUME NEW s \in Requests, NEW t \in Requests, s # t, UsesSocket(s)', UsesSocket(t)', req'[s].ent = req'[t].ent
          PROVE  ~entry'[req'[t].ent].conn
      <4>1. s # r /\ t # r
        BY <2>5, <2>7, <3>1
      <4>2. ~entry[req[t].ent].conn /\ req[t].ent \in Requests /\ req'[t] = req[t]
        BY <2>5, <2>7, <3>1, <4>1 DEF IInv, OneRequestAConnection, SocketInv
      <4> QED BY <2>6, <4>2
    <3> QED BY <3>1 DEF OneRequestAConnection, UsesSocket
  <2>11. MemoryInv'
    <3>1. \A s \in Requests : req[s].pc \in {"ended", "panic"} => req'[s].pc \in {"ended", "panic"}
      BY <1>1, <2>5
    <3>2. \A e \in Requests : entry[e].cont.response \in Requests \union {None}
      BY DEF IInv, TypeInv, EntryType, Continuations, NoContinuation
    <3> QED BY <1>1, <2>6, <3>1, <3>2 DEF IInv, MemoryInv
  <2>12. ServerHasTheInput'
    BY <2>5 DEF IInv, ServerHasTheInput
  <2>13. told[r] \in ToldAt("write")
    BY <1>1, Tells DEF ToldAt
  <2>14. ToldInv' /\ TypeInv'
    BY <1>1, <2>5, <2>6, <2>13, TellsOne DEF IInv, TypeInv
  <2> QED BY <2>8, <2>9, <2>10, <2>11, <2>12, <2>14 DEF IInv
<1> QED BY <1>2, <1>3 DEF Acquire

LEMMA DialStep ==
  ASSUME IInv, NEW r \in Requests, Dial(r)
  PROVE  IInv'
<1> DEFINE q == [req[r] EXCEPT !.pc = "write", !.ent = r]
           d == [NoEntry EXCEPT !.conn = TRUE, !.busy = TRUE]
<1>1. /\ Running /\ req[r].pc = "dial" /\ UNCHANGED <<chat, body, told, memory>> /\ cache' = r
      /\ req' = [req EXCEPT ![r] = q] /\ entry' = [entry EXCEPT ![r] = d]
  BY DEF Dial, At, IInv, TypeInv
<1>2. q \in RequestType /\ q.pc = "write" /\ q.ent = r
  <2>1. req[r] \in RequestType
    BY DEF IInv, TypeInv
  <2> QED BY <2>1 DEF RequestType, PCs
<1>3. d \in EntryType /\ d.conn /\ d.busy /\ d.cont = NoContinuation
  BY Blank DEF EntryType
<1> HIDE DEF q, d
<1>4. /\ req' \in [Requests -> RequestType] /\ req'[r].pc = "write" /\ req'[r].ent = r
      /\ \A s \in Requests \ {r} : req'[s] = req[s]
  BY <1>1, <1>2, OneRequest DEF IInv
<1>5. /\ entry' \in [Requests -> EntryType] /\ entry'[r].busy /\ entry'[r].cont = NoContinuation
      /\ \A e \in Requests \ {r} : entry'[e] = entry[e]
  BY <1>1, <1>3 DEF IInv, TypeInv
<1>6. \A s \in Requests \ {r} : UsesSocket(s)' => UsesSocket(s) /\ req'[s].ent = req[s].ent /\ req[s].ent # r
  <2>1. \A s \in Requests \ {r} : UsesSocket(s)' => UsesSocket(s) /\ req'[s].ent = req[s].ent
    BY <1>4 DEF UsesSocket
  <2> QED BY <1>1, <2>1 DEF IInv, FreshInv
<1>7. SocketInv'
  BY <1>4, <1>5, <1>6 DEF IInv, SocketInv
<1>8. FreshInv'
  <2>1. \A s \in Requests : req'[s].pc \in {"idle", "acquire", "dial"} => s # r /\ req'[s] = req[s]
    BY <1>4
  <2> QED BY <1>1, <1>4, <1>6, <2>1 DEF IInv, FreshInv
<1>9. OneRequestAConnection'
  <2>1. ASSUME NEW s \in Requests, NEW t \in Requests, s # t, UsesSocket(s)', UsesSocket(t)', req'[s].ent = req'[t].ent
        PROVE  ~entry'[req'[t].ent].conn
    <3>1. s # r /\ t # r
      BY <1>4, <1>6, <2>1
    <3>2. ~entry[req[t].ent].conn /\ req[t].ent \in Requests \ {r} /\ req'[t] = req[t]
      BY <1>4, <1>6, <2>1, <3>1 DEF IInv, OneRequestAConnection, SocketInv
    <3> QED BY <1>5, <3>2
  <2> QED BY <2>1 DEF OneRequestAConnection, UsesSocket
<1>10. MemoryInv'
  <2>1. \A s \in Requests : req[s].pc \in {"ended", "panic"} => req'[s].pc \in {"ended", "panic"}
    BY <1>1, <1>4
  <2>2. \A e \in Requests : entry[e].cont.response \in Requests \union {None}
    BY DEF IInv, TypeInv, EntryType, Continuations, NoContinuation
  <2>3. entry'[r].cont.response = None
    BY <1>5, Blank
  <2> QED BY <1>1, <1>5, <2>1, <2>2, <2>3 DEF IInv, MemoryInv
<1>11. ServerHasTheInput'
  BY <1>4 DEF IInv, ServerHasTheInput
<1>12. told[r] \in ToldAt("write")
  BY <1>1, Tells DEF ToldAt
<1>13. ToldInv' /\ TypeInv'
  BY <1>1, <1>4, <1>5, <1>12, TellsOne DEF IInv, TypeInv
<1> QED BY <1>7, <1>8, <1>9, <1>10, <1>11, <1>13 DEF IInv

LEMMA PanicStep ==
  ASSUME IInv, NEW r \in Requests, Panics(r)
  PROVE  IInv'
<1>1. /\ \A q \in Requests : req'[q].pc \in {"panic", "ended"}
      /\ req'[r].pc = "panic" /\ req' \in [Requests -> RequestType]
      /\ UNCHANGED <<chat, body, told, entry, cache, memory>>
  <2>1. \A pc \in {"panic", "ended"} : [Quiet EXCEPT !.pc = pc] \in RequestType /\ [Quiet EXCEPT !.pc = pc].pc = pc
    BY Blank DEF RequestType, PCs
  <2>2. req' = [q \in Requests |-> [Quiet EXCEPT !.pc = IF q = r THEN "panic" ELSE "ended"]]
    BY DEF Panics
  <2>3. \A q \in Requests : \E pc \in {"panic", "ended"} :
          req'[q] = [Quiet EXCEPT !.pc = pc] /\ (q = r => pc = "panic")
    BY <2>2
  <2>4. \A q \in Requests : req'[q] \in RequestType /\ req'[q].pc \in {"panic", "ended"} /\ (q = r => req'[q].pc = "panic")
    BY <2>1, <2>3
  <2> QED BY <2>2, <2>4 DEF Panics
<1>2. TypeInv'
  BY <1>1 DEF IInv, TypeInv
<1>3. SocketInv' /\ FreshInv' /\ OneRequestAConnection' /\ ServerHasTheInput'
  BY <1>1 DEF SocketInv, FreshInv, OneRequestAConnection, ServerHasTheInput, UsesSocket
<1>4. ToldInv'
  BY <1>1 DEF ToldInv, Running
<1>5. MemoryInv'
  <2>1. \A e \in Requests : entry[e].cont.response \in Requests \union {None}
    BY DEF IInv, TypeInv, EntryType, Continuations, NoContinuation
  <2> QED BY <1>1, <2>1 DEF IInv, MemoryInv
<1> QED BY <1>2, <1>3, <1>4, <1>5 DEF IInv

\* A delta continues what the server has with what it lacks.
LEMMA DeltaSays ==
  ASSUME NEW s \in Seq(Items), NEW b \in Seq(Said), Says(s, b), NEW t \in Seq(Said), IsPrefix(b, t)
  PROVE  LET u == SubSeq(t, Len(b) + 1, Len(t)) IN s \o u \in Seq(Items) /\ Says(s \o u, t)
<1> DEFINE n == Len(b)
           u == SubSeq(t, n + 1, Len(t))
<1>1. n \in Nat /\ Len(t) \in Nat /\ n <= Len(t) /\ SubSeq(t, 1, n) = SubSeq(b, 1, n)
  BY DEF IsPrefix
<1>2. u \in Seq(Said) /\ Len(u) = Len(t) - n /\ \A i \in 1..Len(u) : u[i] = t[n + i]
  BY <1>1
<1>3. \A i \in 1..n : b[i] = t[i]
  <2>1. ASSUME NEW i \in 1..n  PROVE b[i] = t[i]
    <3>1. SubSeq(t, 1, n)[i] = t[i] /\ SubSeq(b, 1, n)[i] = b[i]
      BY <1>1
    <3> QED BY <1>1, <3>1
  <2> QED BY <2>1
<1> HIDE DEF u
<1>4. b \o u = t
  <2>1. b \o u \in Seq(Said) /\ Len(b \o u) = Len(t)
    BY <1>1, <1>2
  <2>2. ASSUME NEW i \in 1..Len(t)  PROVE (b \o u)[i] = t[i]
    <3>1. CASE i <= n
      BY <1>1, <1>2, <1>3, <3>1
    <3>2. CASE i > n
      <4>1. (b \o u)[i] = u[i - n] /\ i - n \in 1..Len(u)
        BY <1>1, <1>2, <3>2
      <4>2. n + (i - n) = i
        BY <1>1
      <4> QED BY <1>2, <4>1, <4>2
    <3>3. i <= n \/ i > n
      BY <1>1
    <3> QED BY <3>1, <3>2, <3>3
  <2> QED BY <2>1, <2>2, SeqEqual
<1>5. Says(s \o u, b \o u)
  BY <1>2, SaysMore
<1>6. u \in Seq(Items)
  BY <1>2, SaidAreItems
<1>7. s \o u \in Seq(Items)
  BY <1>6
<1> QED BY <1>4, <1>5, <1>7 DEF u

LEMMA SendStep ==
  ASSUME IInv, NEW r \in Requests, Send(r)
  PROVE  IInv'
<1> DEFINE e == req[r].ent
           c == entry[e].cont
           full == req[r].input
           delta == SubSeq(full, Len(Baseline(c)) + 1, Len(full))
<1>1. /\ Running /\ req[r].pc = "write" /\ UNCHANGED <<chat, body, told, cache, memory>>
      /\ entry[e].conn
  BY DEF Send, At
<1>2. e \in Requests /\ req[r] \in RequestType /\ full \in Seq(Said) /\ entry[e] \in EntryType
  <2>1. e \in Requests /\ req[r] \in RequestType
    BY <1>1 DEF IInv, TypeInv, SocketInv, UsesSocket
  <2> QED BY <2>1 DEF IInv, TypeInv, RequestType
<1>3. PICK x \in Seq(Items) : /\ Says(x, full)
                              /\ req' = [req EXCEPT ![r].pc = "between", ![r].context = x]
                              /\ entry' = entry \/ entry' = [entry EXCEPT ![e].cont = NoContinuation]
  <2>1. CASE UsesContinuation(r) /\ Continues(r, c)
    <3>1. c.response # None /\ IsPrefix(Baseline(c), full)
      BY <2>1 DEF Continues
    <3>2. c \in Continuations
      BY <1>2 DEF EntryType
    <3>3. c # NoContinuation
      BY <3>1, Blank
    <3>4. c.response \in Requests /\ c.input \in Seq(Said) /\ c.items \in Seq(Said)
      BY <3>2, <3>3 DEF Continuations
    <3>5. Baseline(c) \in Seq(Said)
      BY <3>4 DEF Baseline
    <3>6. Says(memory[e][c.response], Baseline(c)) /\ memory[e][c.response] \in Seq(Items)
      BY <1>2, <3>1 DEF IInv, TypeInv, MemoryInv
    <3> HIDE DEF c, full
    <3>7. Says(memory[e][c.response] \o delta, full) /\ memory[e][c.response] \o delta \in Seq(Items)
      BY <1>2, <3>1, <3>5, <3>6, DeltaSays
    <3>8. req' = [req EXCEPT ![r].pc = "between", ![r].context = memory[e][c.response] \o delta] /\ entry' = entry
      BY <2>1 DEF Send, c, full
    <3> QED BY <3>7, <3>8
  <2>2. CASE ~(UsesContinuation(r) /\ Continues(r, c))
    <3>1. Says(full, full) /\ full \in Seq(Items)
      BY <1>2, SaysItself, SaidAreItems
    <3>2. req' = [req EXCEPT ![r].pc = "between", ![r].context = full]
      BY <2>2 DEF Send
    <3>3. entry' = entry \/ entry' = [entry EXCEPT ![e].cont = NoContinuation]
      BY <2>2 DEF Send
    <3> QED BY <3>1, <3>2, <3>3
  <2> QED BY <2>1, <2>2
<1> DEFINE q == [req[r] EXCEPT !.pc = "between", !.context = x]
           d == [entry[e] EXCEPT !.cont = NoContinuation]
<1>4. q \in RequestType /\ q.pc = "between" /\ q.ent = e /\ q.context = x /\ q.input = full
  BY <1>2 DEF RequestType, PCs
<1>5. d \in EntryType /\ d.conn = entry[e].conn /\ d.busy = entry[e].busy /\ d.cont = NoContinuation
  BY <1>2, Blank DEF EntryType
<1>6. req' = [req EXCEPT ![r] = q] /\ (entry' = entry \/ entry' = [entry EXCEPT ![e] = d])
  BY <1>2, <1>3 DEF IInv, TypeInv
<1> HIDE DEF q, d, c, full, e
<1>7. /\ req' \in [Requests -> RequestType] /\ req'[r] = q
      /\ \A s \in Requests \ {r} : req'[s] = req[s]
  BY <1>4, <1>6, OneRequest DEF IInv
<1>8. /\ entry' \in [Requests -> EntryType]
      /\ \A f \in Requests : /\ entry'[f].conn = entry[f].conn /\ entry'[f].busy = entry[f].busy
                             /\ entry'[f].cont = entry[f].cont \/ entry'[f].cont = NoContinuation
  BY <1>2, <1>5, <1>6 DEF IInv, TypeInv
<1>9. \A s \in Requests : UsesSocket(s)' => UsesSocket(s) /\ req'[s].ent = req[s].ent
  BY <1>1, <1>4, <1>7 DEF UsesSocket, e
<1>10. SocketInv'
  BY <1>8, <1>9 DEF IInv, SocketInv
<1>11. FreshInv'
  <2>1. \A s \in Requests : req'[s].pc \in {"idle", "acquire", "dial"} => s # r /\ req'[s] = req[s]
    BY <1>4, <1>7
  <2> QED BY <1>1, <1>9, <2>1 DEF IInv, FreshInv
<1>12. OneRequestAConnection'
  <2>1. ASSUME NEW s \in Requests, NEW t \in Requests, s # t, UsesSocket(s)', UsesSocket(t)', req'[s].ent = req'[t].ent
        PROVE  ~entry'[req'[t].ent].conn
    <3>1. ~entry[req[t].ent].conn /\ req[t].ent \in Requests /\ req'[t].ent = req[t].ent
      BY <1>9, <2>1 DEF IInv, OneRequestAConnection, SocketInv
    <3> QED BY <1>8, <3>1
  <2> QED BY <2>1 DEF OneRequestAConnection, UsesSocket
<1>13. MemoryInv'
  <2>1. \A s \in Requests : req[s].pc \in {"ended", "panic"} => req'[s].pc \in {"ended", "panic"}
    BY <1>1, <1>7
  <2>2. \A f \in Requests : entry[f].cont.response \in Requests \union {None}
    BY DEF IInv, TypeInv, EntryType, Continuations, NoContinuation
  <2>3. \A f \in Requests : entry'[f].cont.response # None => entry'[f].cont = entry[f].cont
    BY <1>8, Blank
  <2> QED BY <1>1, <2>1, <2>2, <2>3 DEF IInv, MemoryInv
<1>14. ServerHasTheInput'
  BY <1>3, <1>4, <1>7 DEF IInv, ServerHasTheInput
<1>15. told[r] \in ToldAt("between")
  BY <1>1, Tells DEF ToldAt
<1>16. ToldInv' /\ TypeInv'
  BY <1>1, <1>4, <1>7, <1>8, <1>15, TellsOne DEF IInv, TypeInv
<1> QED BY <1>10, <1>11, <1>12, <1>13, <1>14, <1>16 DEF IInv

LEMMA ReceiveEndStep ==
  ASSUME IInv, NEW r \in Requests, NEW how \in {"answer", "partial"}, ReceiveEnd(r, how)
  PROVE  IInv'
<1> DEFINE e == req[r].ent
           k == Continuation(r, how)
           x == Append(req[r].context, <<how, r>>)
           m == [s \in DOMAIN memory[e] \union {r} |-> IF s = r THEN x ELSE memory[e][s]]
<1>1. /\ Running /\ req[r].pc = "reading" /\ UNCHANGED body
      /\ Released(e, k, m) /\ req' = Ended(r)
      /\ told' = [told EXCEPT ![r] = Append(Start(r), "done")]
      /\ chat' = IF how = "answer" THEN Append(chat, <<how, r>>) ELSE chat
  BY DEF ReceiveEnd, Listening, At
<1>2. e \in Requests /\ req[r] \in RequestType /\ entry[e] \in EntryType
  BY <1>1 DEF IInv, TypeInv, SocketInv, UsesSocket
<1>3. /\ req' \in [Requests -> RequestType] /\ req'[r].pc = "ended"
      /\ \A s \in Requests \ {r} : req'[s] = req[s]
  BY <1>1, Ends DEF IInv
<1>4. ToldInv' /\ told' \in [Requests -> Tellings]
  <2>1. Append(Start(r), "done") \in ToldAt("ended")
    BY <1>1, Tells, StartTold DEF ToldAt
  <2> QED BY <1>1, <1>3, <2>1, TellsOne
<1>5. chat' \in Seq(Said)
  <2>1. <<"answer", r>> \in Said
    BY DEF Said
  <2>2. Append(chat, <<"answer", r>>) \in Seq(Said) /\ chat \in Seq(Said)
    BY <2>1 DEF IInv, TypeInv
  <2> QED BY <1>1, <2>2
<1>6. x \in Seq(Items) /\ req[r].context \in Seq(Items) /\ req[r].input \in Seq(Said)
  <2>1. <<how, r>> \in Items
    BY DEF Items
  <2> QED BY <1>2, <2>1 DEF RequestType
<1>7. k \in Continuations /\ ((k.response = r /\ Says(x, Baseline(k))) \/ k = entry[e].cont)
  <2>1. CASE UsesContinuation(r)
    <3>1. Says(req[r].context, req[r].input)
      BY <1>1 DEF IInv, ServerHasTheInput
    <3>2. CASE how = "answer"
      <4>1. k = [body |-> req[r].body, input |-> req[r].input, response |-> r, items |-> <<<<"answer", r>>>>]
        BY <2>1, <3>2 DEF Continuation
      <4>2. <<"answer", r>> \in Said /\ <<<<"answer", r>>>> \in Seq(Said)
        BY DEF Said
      <4>3. Says(Append(req[r].context, <<"answer", r>>), req[r].input \o <<<<"answer", r>>>>)
        BY <1>6, <3>1, <4>2, SaysOne
      <4>4. k \in Continuations
        BY <1>2, <1>6, <4>1, <4>2 DEF Continuations, RequestType
      <4> QED BY <3>2, <4>1, <4>3, <4>4 DEF Baseline
    <3>3. CASE how = "partial"
      <4>1. k = [body |-> req[r].body, input |-> req[r].input, response |-> r, items |-> <<>>]
        BY <2>1, <3>3 DEF Continuation
      <4>2. <<"partial", r>> \in Items /\ <<"partial", r>>[1] = "partial"
        BY DEF Items
      <4>3. Says(x, req[r].input)
        BY <1>6, <3>1, <3>3, <4>2, SaysNothing
      <4>4. <<>> \in Seq(Said) /\ req[r].input \o <<>> = req[r].input
        BY <1>6
      <4>5. k \in Continuations
        BY <1>2, <1>6, <4>1, <4>4 DEF Continuations, RequestType
      <4>6. Baseline(k) = req[r].input \o <<>> /\ k.response = r
        BY <4>1 DEF Baseline
      <4> QED BY <4>3, <4>4, <4>5, <4>6
    <3> QED BY <3>2, <3>3
  <2>2. CASE ~UsesContinuation(r)
    BY <1>2, <2>2 DEF Continuation, EntryType
  <2> QED BY <2>1, <2>2
<1> DEFINE d == [entry[e] EXCEPT !.busy = FALSE, !.armed = TRUE, !.cont = k]
<1>8. CASE ~entry[e].conn
  <2>1. Gone(e)
    BY <1>1, <1>2, <1>8, Drops DEF Released, IInv
  <2>2. SocketInv' /\ FreshInv' /\ OneRequestAConnection' /\ MemoryInv' /\ ServerHasTheInput'
    BY <1>2, <1>3, <2>1, GoneKeeps
  <2> QED BY <1>1, <1>2, <1>3, <1>4, <1>5, <2>1, <2>2, GoneTypes DEF IInv, TypeInv
<1>9. CASE entry[e].conn
  <2>1. /\ entry' = [entry EXCEPT ![e] = d] /\ memory' = [memory EXCEPT ![e] = m] /\ cache' = cache
    <3>1. /\ entry' = [entry EXCEPT ![e].busy = FALSE, ![e].armed = TRUE, ![e].cont = k]
          /\ memory' = [memory EXCEPT ![e] = m] /\ cache' = cache
      BY <1>1, <1>9 DEF Released
    <3>2. entry \in [Requests -> EntryType]
      BY DEF IInv, TypeInv
    <3> HIDE DEF k, m
    <3> QED BY <1>2, <3>1, <3>2
  <2>2. d \in EntryType /\ d.conn = entry[e].conn /\ d.cont = k
    BY <1>2, <1>7 DEF EntryType
  <2>3. /\ DOMAIN m = DOMAIN memory[e] \union {r} /\ m[r] = x
        /\ \A s \in DOMAIN memory[e] \ {r} : m[s] = memory[e][s]
    OBVIOUS
  <2> HIDE DEF d, m, x, k, e
  <2>4. /\ entry' \in [Requests -> EntryType] /\ entry'[e].conn = entry[e].conn /\ entry'[e].cont = k
        /\ \A f \in Requests \ {e} : entry'[f] = entry[f]
    BY <1>2, <2>1, <2>2 DEF IInv, TypeInv
  <2>5. /\ DOMAIN memory' = Requests /\ memory'[e] = m
        /\ \A f \in Requests \ {e} : memory'[f] = memory[f]
    BY <1>2, <2>1 DEF IInv, TypeInv
  <2>6. \A f \in Requests : \A s \in DOMAIN memory'[f] : memory'[f][s] \in Seq(Items)
    BY <1>2, <1>6, <2>3, <2>5 DEF IInv, TypeInv
  <2>7. TypeInv'
    BY <1>1, <1>3, <1>4, <1>5, <2>1, <2>4, <2>5, <2>6 DEF IInv, TypeInv
  <2>8. \A s \in Requests : UsesSocket(s)' => s # r /\ UsesSocket(s) /\ req'[s] = req[s] /\ req[s].ent # e
    <3>1. \A s \in Requests : UsesSocket(s)' => s # r /\ UsesSocket(s) /\ req'[s] = req[s]
      BY <1>3 DEF UsesSocket
    <3>2. UsesSocket(r)
      BY <1>1 DEF UsesSocket
    <3> QED BY <1>9, <3>1, <3>2 DEF IInv, OneRequestAConnection, e
  <2>9. SocketInv'
    BY <1>2, <2>4, <2>8 DEF IInv, SocketInv
  <2>10. FreshInv'
    <3>1. \A s \in Requests : req'[s].pc \in {"idle", "acquire", "dial"} => s # r /\ req'[s] = req[s]
      BY <1>3
    <3> QED BY <2>1, <2>8, <3>1 DEF IInv, FreshInv
  <2>11. OneRequestAConnection'
    <3>1. ASSUME NEW s \in Requests, NEW t \in Requests, s # t, UsesSocket(s)', UsesSocket(t)', req'[s].ent = req'[t].ent
          PROVE  ~entry'[req'[t].ent].conn
      <4>1. ~entry[req[t].ent].conn /\ req[t].ent \in Requests \ {e} /\ req'[t] = req[t]
        BY <2>8, <3>1 DEF IInv, OneRequestAConnection, SocketInv
      <4> QED BY <2>4, <4>1
    <3> QED BY <3>1 DEF OneRequestAConnection, UsesSocket
  <2>12. MemoryInv'
    <3>1. \A s \in Requests : req[s].pc \in {"ended", "panic"} => s # r /\ req'[s].pc \in {"ended", "panic"}
      BY <1>1, <1>3
    <3>2. \A f \in Requests : entry[f].cont.response \in Requests \union {None}
      BY DEF IInv, TypeInv, EntryType, Continuations, NoContinuation
    <3>3. ASSUME NEW f \in Requests, f # e, entry'[f].cont.response # None
          PROVE  /\ entry'[f].cont.response \in DOMAIN memory'[f]
                 /\ Says(memory'[f][entry'[f].cont.response], Baseline(entry'[f].cont))
                 /\ req'[entry'[f].cont.response].pc \in {"ended", "panic"}
      BY <2>4, <2>5, <3>1, <3>2, <3>3 DEF IInv, MemoryInv
    <3>4. ASSUME k.response # None
          PROVE  /\ k.response \in DOMAIN m
                 /\ Says(m[k.response], Baseline(k))
                 /\ req'[k.response].pc \in {"ended", "panic"}
      <4>1. CASE k.response = r /\ Says(x, Baseline(k))
        BY <1>3, <2>3, <4>1
      <4>2. CASE k = entry[e].cont
        <5>1. /\ k.response \in DOMAIN memory[e] /\ Says(memory[e][k.response], Baseline(k))
              /\ req[k.response].pc \in {"ended", "panic"} /\ k.response \in Requests
          BY <1>2, <3>2, <3>4, <4>2 DEF IInv, MemoryInv
        <5>2. k.response # r /\ req'[k.response].pc \in {"ended", "panic"}
          BY <3>1, <5>1
        <5> QED BY <2>3, <5>1, <5>2
      <4> QED BY <1>7, <4>1, <4>2
    <3> QED BY <2>4, <2>5, <3>3, <3>4 DEF MemoryInv
  <2>13. ServerHasTheInput'
    BY <1>3 DEF IInv, ServerHasTheInput
  <2> QED BY <1>4, <2>7, <2>9, <2>10, <2>11, <2>12, <2>13 DEF IInv
<1> QED BY <1>8, <1>9

-----------------------------------------------------------------------------
(* What happens around the requests. *)

\* A step that is about no request and no connection.
LEMMA ElsewhereStep ==
  ASSUME IInv, UNCHANGED <<req, told, entry, cache, memory>>, chat' \in Seq(Said), body' \in Nat
  PROVE  IInv'
BY DEF IInv, TypeInv, SocketInv, FreshInv, OneRequestAConnection, ToldInv, Running, MemoryInv,
       ServerHasTheInput, UsesSocket

LEMMA AroundSteps ==
  ASSUME IInv, \/ \E e \in Requests : PeerCloses(e)
               \/ \E messages \in Shortened : Rewrite(messages)
               \/ Reconfigure
  PROVE  IInv'
<1>1. \A messages \in Shortened : messages \in Seq(Said)
  <2>1. chat \in Seq(Said)
    BY DEF IInv, TypeInv
  <2>2. chat # <<>> => Tail(chat) \in Seq(Said) /\ Front(chat) \in Seq(Said)
    BY <2>1 DEF Front
  <2> QED BY <2>2 DEF Shortened
<1>2. UNCHANGED <<req, told, entry, cache, memory>>
  BY DEF PeerCloses, Rewrite, Reconfigure
<1>3. chat' \in Seq(Said) /\ body' \in Nat
  BY <1>1 DEF PeerCloses, Rewrite, Reconfigure, IInv, TypeInv
<1> QED BY <1>2, <1>3, ElsewhereStep

LEMMA CancelStep ==
  ASSUME IInv, NEW r \in Requests, Cancel(r)
  PROVE  IInv'
<1> DEFINE q == [req[r] EXCEPT !.cancelled = TRUE]
<1>1. Running /\ UNCHANGED <<chat, body, told, entry, cache, memory>>
  BY DEF Cancel, Fault
<1>2. q \in RequestType /\ q.pc = req[r].pc /\ q.ent = req[r].ent /\ q.context = req[r].context /\ q.input = req[r].input
  BY DEF IInv, TypeInv, RequestType
<1>3. req' = [req EXCEPT ![r] = q]
  BY DEF Cancel
<1> HIDE DEF q
<1>4. Aside(r) /\ req'[r] = q
  BY <1>1, <1>2, <1>3, OneRequest DEF Aside, IInv
<1>5. ToldInv' /\ TypeInv'
  <2>1. told[r] \in ToldAt(req'[r].pc)
    BY <1>1, <1>2, <1>4 DEF IInv, ToldInv
  <2> QED BY <1>1, <1>4, <2>1, TellsOne DEF IInv, TypeInv, Aside
<1>6. SocketInv' /\ FreshInv' /\ OneRequestAConnection' /\ MemoryInv' /\ ServerHasTheInput'
  <2>1. q.pc \in {"between", "reading"} => Says(q.context, q.input)
    BY <1>2 DEF IInv, ServerHasTheInput
  <2>2. UsesSocket(r)' => UsesSocket(r) /\ req'[r].ent = req[r].ent
    BY <1>2, <1>4 DEF UsesSocket
  <2> QED BY <1>2, <1>4, <2>1, <2>2, AsideKeeps
<1> QED BY <1>5, <1>6 DEF IInv

\* A step that closes e while no request moves.
LEMMA CloseStep ==
  ASSUME IInv, NEW e \in Requests, Gone(e), UNCHANGED <<chat, body, req, told>>
  PROVE  IInv'
<1>1. SocketInv' /\ FreshInv' /\ OneRequestAConnection' /\ MemoryInv' /\ ServerHasTheInput'
  BY GoneKeeps DEF IInv, TypeInv
<1>2. TypeInv' /\ ToldInv'
  BY GoneTypes DEF IInv, TypeInv, ToldInv, Running
<1> QED BY <1>1, <1>2 DEF IInv

LEMMA CloseSteps ==
  ASSUME IInv, CloseSessions
  PROVE  IInv'
<1>1. cache \in Requests /\ Dropped(cache) /\ UNCHANGED <<chat, body, req, told>>
  BY DEF CloseSessions, IInv, TypeInv
<1> QED BY <1>1, Drops, CloseStep DEF IInv

LEMMA TimerSteps ==
  ASSUME IInv, NEW e \in Requests, TimerIsDue(e) \/ IdleTimeout(e)
  PROVE  IInv'
<1>1. UNCHANGED <<chat, body, req, told>>
  BY DEF TimerIsDue, IdleTimeout
<1>2. entry[e] \in EntryType
  BY DEF IInv, TypeInv
<1>3. CASE \E d \in EntryType : /\ d.conn = entry[e].conn /\ d.busy = entry[e].busy /\ d.cont = entry[e].cont
                                /\ entry' = [entry EXCEPT ![e] = d] /\ UNCHANGED <<cache, memory>>
  <2>1. /\ entry' \in [Requests -> EntryType] /\ UNCHANGED <<cache, memory>>
        /\ \A f \in Requests : /\ entry'[f].conn = entry[f].conn /\ entry'[f].busy = entry[f].busy
                               /\ entry'[f].cont = entry[f].cont
    BY <1>3 DEF IInv, TypeInv
  <2>2. TypeInv' /\ FreshInv' /\ ToldInv' /\ ServerHasTheInput'
    BY <1>1, <2>1 DEF IInv, TypeInv, FreshInv, ToldInv, Running, ServerHasTheInput, UsesSocket
  <2>3. MemoryInv'
    BY <1>1, <2>1 DEF IInv, MemoryInv
  <2>4. SocketInv'
    BY <1>1, <2>1 DEF IInv, SocketInv, UsesSocket
  <2>5. OneRequestAConnection'
    <3>1. \A t \in Requests : UsesSocket(t) => req[t].ent \in Requests
      BY DEF IInv, SocketInv
    <3> QED BY <1>1, <2>1, <3>1 DEF IInv, OneRequestAConnection, UsesSocket
  <2> QED BY <2>2, <2>3, <2>4, <2>5 DEF IInv
<1>4. CASE Gone(e)
  BY <1>1, <1>4, CloseStep
<1>5. TimerIsDue(e) => \E d \in EntryType : /\ d.conn = entry[e].conn /\ d.busy = entry[e].busy /\ d.cont = entry[e].cont
                                /\ entry' = [entry EXCEPT ![e] = d] /\ UNCHANGED <<cache, memory>>
  <2> DEFINE d == [entry[e] EXCEPT !.armed = FALSE, !.due = TRUE]
  <2>1. d \in EntryType /\ d.conn = entry[e].conn /\ d.busy = entry[e].busy /\ d.cont = entry[e].cont
    BY <1>2 DEF EntryType
  <2>2. TimerIsDue(e) => entry' = [entry EXCEPT ![e] = d] /\ UNCHANGED <<cache, memory>>
    BY DEF TimerIsDue, IInv, TypeInv
  <2> QED BY <2>1, <2>2
<1>6. IdleTimeout(e) /\ entry[e].busy =>
        \E d \in EntryType : /\ d.conn = entry[e].conn /\ d.busy = entry[e].busy /\ d.cont = entry[e].cont
                             /\ entry' = [entry EXCEPT ![e] = d] /\ UNCHANGED <<cache, memory>>
  <2> DEFINE d == [entry[e] EXCEPT !.due = FALSE]
  <2>1. d \in EntryType /\ d.conn = entry[e].conn /\ d.busy = entry[e].busy /\ d.cont = entry[e].cont
    BY <1>2 DEF EntryType
  <2>2. IdleTimeout(e) /\ entry[e].busy => entry' = [entry EXCEPT ![e] = d] /\ UNCHANGED <<cache, memory>>
    BY DEF IdleTimeout, IInv, TypeInv
  <2> QED BY <2>1, <2>2
<1>7. IdleTimeout(e) /\ ~entry[e].busy => Gone(e)
  BY Blank, DroppedIsGone DEF IdleTimeout, IInv
<1> QED BY <1>3, <1>4, <1>5, <1>6, <1>7

-----------------------------------------------------------------------------
(* The theorems. *)

LEMMA InitInv == Init => IInv
<1> SUFFICES ASSUME Init  PROVE IInv
  OBVIOUS
<1>1. <<>> \in Seq(Said) /\ DOMAIN <<>> = {} /\ <<>> \in Tellings
  BY DEF Tellings
<1>2. \A r \in Requests : req[r] = Quiet /\ entry[r] = NoEntry /\ told[r] = <<>> /\ DOMAIN memory[r] = {}
  BY <1>1 DEF Init
<1>3. TypeInv
  BY <1>1, <1>2, Blank DEF Init, TypeInv
<1>4. SocketInv /\ OneRequestAConnection /\ ServerHasTheInput
  BY <1>2, Blank DEF SocketInv, OneRequestAConnection, ServerHasTheInput, UsesSocket
<1>5. FreshInv
  BY <1>2, Blank, NobodyIsNone DEF FreshInv, UsesSocket, Init
<1>6. ToldInv /\ MemoryInv
  BY <1>2, Blank DEF ToldInv, ToldAt, MemoryInv
<1> QED BY <1>3, <1>4, <1>5, <1>6 DEF IInv

LEMMA NextInv == IInv /\ [Next]_vars => IInv'
<1> SUFFICES ASSUME IInv, [Next]_vars  PROVE IInv'
  OBVIOUS
<1>1. CASE UNCHANGED vars
  BY <1>1, ElsewhereStep DEF vars, IInv, TypeInv
<1>2. ASSUME NEW r \in Requests, Advance(r)  PROVE IInv'
  BY <1>2, AcquireStep, DialStep, PanicStep, SendStep, SocketFailsStep, ReceiveEndStep, PlainSteps DEF Advance
<1>3. CASE Next
  BY <1>2, <1>3, BeginStep, CancelStep, AroundSteps, CloseSteps, TimerSteps DEF Next
<1> QED BY <1>1, <1>3

\* Whatever fails, is cancelled, cleaned up or edited around the requests of a
\* session, the invariant of their transport holds in every state.
THEOREM TransportIsSound == Spec => []IInv
BY InitInv, NextInv, PTL DEF Spec

\* For any number of requests of a session, overlapping in any way, two never
\* speak on one live connection (acquireCodexWebSocket, releaseCodexWebSocket).
THEOREM ConnectionsAreNotShared == Spec => []OneRequestAConnection
<1>1. IInv => OneRequestAConnection
  BY DEF IInv
<1> QED BY <1>1, TransportIsSound, PTL

\* A request sent as a delta gives the server the whole conversation, however
\* many responses, edits and reconnections came before it
\* (getCachedCodexWebSocketInputDelta).
THEOREM DeltasAreComplete == Spec => []ServerHasTheInput
<1>1. IInv => ServerHasTheInput
  BY DEF IInv
<1> QED BY <1>1, TransportIsSound, PTL

\* A stream starts once and ends once, after everything else, whichever
\* transports its request tried.
THEOREM StreamsStartAndEnd == Spec => []StreamStartsAndEndsOnce
<1>1. ASSUME IInv  PROVE StreamStartsAndEndsOnce
  <2>1. \A r \in Requests : told[r] \in Tellings
    BY <1>1 DEF IInv, TypeInv
  <2>2. \A r \in Requests : req[r].pc = "ended" /\ Running =>
          told[r] \in {<<"error">>, <<"start", "error">>, <<"start", "done">>}
    BY <1>1 DEF IInv, ToldInv, ToldAt
  <2>3. \A x \in Tellings : /\ \A i \in DOMAIN x : x[i] = "start" => i = 1
                            /\ \A i \in DOMAIN x : x[i] \in {"done", "error"} => i = Len(x)
    BY DEF Tellings
  <2>4. \A x \in {<<"error">>, <<"start", "error">>, <<"start", "done">>} : x # <<>> /\ Last(x) \in {"done", "error"}
    <3>1. /\ <<"error">> # <<>> /\ <<"start", "error">> # <<>> /\ <<"start", "done">> # <<>>
          /\ Len(<<"error">>) = 1 /\ Len(<<"start", "error">>) = 2 /\ Len(<<"start", "done">>) = 2
      OBVIOUS
    <3>2. \A x \in {<<"error">>, <<"start", "error">>, <<"start", "done">>} : x[Len(x)] \in {"done", "error"}
      BY <3>1
    <3> QED BY <3>1, <3>2 DEF Last
  <2> QED BY <2>1, <2>2, <2>3, <2>4 DEF StreamStartsAndEndsOnce
<1> QED BY <1>1, TransportIsSound, PTL

=============================================================================
