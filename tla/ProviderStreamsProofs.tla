------------------------ MODULE ProviderStreamsProofs ------------------------
(* What holds of the decoders, for any number of items and of chunks, and   *)
(* of the requests that are made of a session, however long it is.          *)
EXTENDS ProviderStreams, Requests, FiniteSetTheorems, SequenceTheorems, WellFoundedInduction, TLAPS

-----------------------------------------------------------------------------
\* A set of numbers that is not empty has a least one: induction by the first counterexample
LEMMA LeastNumber ==
    ASSUME NEW S, S \subseteq Nat, S # {}
    PROVE  \E i \in S : \A j \in S : ~(j < i)
<1>1. IsWellFoundedOn(OpToRel(<, Nat), Nat)
  BY NatLessThanWellFounded
<1>2. PICK i \in S : \A j \in S : <<j, i>> \notin OpToRel(<, Nat)
  BY <1>1, WFMin
<1>3. \A j \in S : ~(j < i)
  BY <1>2 DEF OpToRel
<1> QED BY <1>2, <1>3


-----------------------------------------------------------------------------
(* Pushing events, one at a time.                                           *)

\* The function a fold is computed by
Folds(base, q, n, it) ==
  it = [S \in SUBSET (1..n) |-> IF S = {} THEN base
                                ELSE Shown(it[S \ {Max(S)}], q[Max(S)])]

\* The index a fold over 1..n takes off first is n
LEMMA MaxOfUpTo ==
    ASSUME NEW n \in Nat, NEW S \in SUBSET (1..n), n \in S
    PROVE  Max(S) = n
<1>1. \E x \in S : \A y \in S : x >= y
  OBVIOUS
<1>2. Max(S) \in S /\ \A y \in S : Max(S) >= y
  BY <1>1 DEF Max
<1>3. Max(S) \in 1..n /\ Max(S) >= n
  BY <1>2
<1> QED BY <1>3

\* The function of a fold over n - 1 elements extends to one over n
LEMMA FoldStep ==
    ASSUME NEW base, NEW q, NEW n \in Nat, n > 0, NEW g, Folds(base, q, n - 1, g)
    PROVE  \E it : Folds(base, q, n, it)
<1> DEFINE w == [S \in SUBSET (1..n) |-> IF n \in S THEN Shown(g[S \ {n}], q[n]) ELSE g[S]]
<1>0. n - 1 \in Nat /\ \A S \in SUBSET (1..n) : n \notin S => S \in SUBSET (1..(n - 1))
  OBVIOUS
<1>g. \A S \in SUBSET (1..(n - 1)) :
        g[S] = IF S = {} THEN base ELSE Shown(g[S \ {Max(S)}], q[Max(S)])
  <2>1. g = [S \in SUBSET (1..(n - 1)) |-> IF S = {} THEN base
                                ELSE Shown(g[S \ {Max(S)}], q[Max(S)])]
    BY DEF Folds
  <2> QED BY <2>1, Zenon
<1>1. \A S \in SUBSET (1..n) :
        w[S] = IF S = {} THEN base ELSE Shown(w[S \ {Max(S)}], q[Max(S)])
  <2> SUFFICES ASSUME NEW S \in SUBSET (1..n)
               PROVE  w[S] = IF S = {} THEN base ELSE Shown(w[S \ {Max(S)}], q[Max(S)])
    OBVIOUS
  <2>1. CASE n \in S
    <3>1. Max(S) = n
      BY <2>1, MaxOfUpTo
    <3>2. S \ {n} \in SUBSET (1..n) /\ n \notin S \ {n}
      OBVIOUS
    <3>3. w[S \ {n}] = g[S \ {n}]
      BY <3>2
    <3>4. w[S] = Shown(g[S \ {n}], q[n])
      BY <2>1
    <3> HIDE DEF w
    <3> QED BY <2>1, <3>1, <3>3, <3>4
  <2>2. CASE n \notin S
    <3>1. S \in SUBSET (1..(n - 1))
      BY <2>2
    <3>2. w[S] = g[S]
      BY <2>2
    <3>3. S \ {Max(S)} \in SUBSET (1..n) /\ n \notin S \ {Max(S)}
      BY <2>2
    <3>4. w[S \ {Max(S)}] = g[S \ {Max(S)}]
      BY <3>3
    <3> HIDE DEF w
    <3> QED BY <1>g, <3>1, <3>2, <3>4
  <2> QED BY <2>1, <2>2
<1>2. Folds(base, q, n, w)
  <2>1. w = [S \in SUBSET (1..n) |-> w[S]]
    OBVIOUS
  <2> HIDE DEF w
  <2>2. [S \in SUBSET (1..n) |-> w[S]]
         = [S \in SUBSET (1..n) |-> IF S = {} THEN base
                                    ELSE Shown(w[S \ {Max(S)}], q[Max(S)])]
    BY <1>1, Zenon
  <2> QED BY <2>1, <2>2, Zenon DEF Folds
<1> HIDE DEF w
<1> QED BY <1>2

\* So a fold of any length has its function, which CHOOSE then finds
LEMMA FoldExists ==
    ASSUME NEW base, NEW q, NEW n \in Nat
    PROVE  \E it : Folds(base, q, n, it)
<1> DEFINE B == {m \in Nat : ~\E it : Folds(base, q, m, it)}
<1>1. SUFFICES B = {}
  OBVIOUS
<1>2. CASE B # {}
  <2>1. PICK m \in B : \A j \in B : ~(j < m)
    <3>1. B \subseteq Nat
      OBVIOUS
    <3> HIDE DEF B
    <3> QED BY <1>2, <3>1, LeastNumber
  <2>2. CASE m = 0
    <3> DEFINE it == [S \in SUBSET (1..0) |-> base]
    <3>1. \A S \in SUBSET (1..0) : S = {}
      OBVIOUS
    <3>2. it = [S \in SUBSET (1..0) |-> IF S = {} THEN base
                                ELSE Shown(it[S \ {Max(S)}], q[Max(S)])]
      BY <3>1
    <3> HIDE DEF it
    <3>3. Folds(base, q, 0, it)
      BY <3>2 DEF Folds
    <3> QED BY <2>1, <2>2, <3>3
  <2>3. CASE m # 0
    <3>1. m > 0 /\ m \in Nat /\ m - 1 \in Nat /\ m - 1 \notin B
      BY <2>1, <2>3
    <3>2. PICK g : Folds(base, q, m - 1, g)
      BY <3>1
    <3> QED BY <2>1, <3>1, <3>2, FoldStep
  <2> QED BY <2>2, <2>3
<1> QED BY <1>2

\* What a fold has made of the first m elements, for every m up to n
Chain(base, q, n, h) ==
  h[0] = base /\ \A m \in 1..n : h[m] = Shown(h[m - 1], q[m])

\* The function of a fold, at 1..m for every m, is a chain
LEMMA FoldIsAChain ==
    ASSUME NEW base, NEW q, NEW n \in Nat, NEW it, Folds(base, q, n, it)
    PROVE  \E h : Chain(base, q, n, h) /\ h[n] = it[1..n]
<1> DEFINE h == [m \in 0..n |-> it[1..m]]
<1>1. \A S \in SUBSET (1..n) :
        it[S] = IF S = {} THEN base ELSE Shown(it[S \ {Max(S)}], q[Max(S)])
  <2>1. it = [S \in SUBSET (1..n) |-> IF S = {} THEN base
                                ELSE Shown(it[S \ {Max(S)}], q[Max(S)])]
    BY DEF Folds
  <2> QED BY <2>1, Zenon
<1>2. h[0] = base
  <2>1. 1..0 = {} /\ {} \in SUBSET (1..n) /\ 0 \in 0..n
    OBVIOUS
  <2> QED BY <1>1, <2>1
<1>3. ASSUME NEW m \in 1..n PROVE h[m] = Shown(h[m - 1], q[m])
  <2>1. 1..m \in SUBSET (1..n) /\ 1..m # {} /\ m \in 1..m /\ m \in Nat
    OBVIOUS
  <2>2. 1..m \in SUBSET (1..m)
    OBVIOUS
  <2>3. Max(1..m) = m
    BY <2>1, <2>2, MaxOfUpTo
  <2>4. (1..m) \ {m} = 1..(m - 1)
    OBVIOUS
  <2>5. h[m] = it[1..m] /\ h[m - 1] = it[1..(m - 1)]
    BY <2>1
  <2> HIDE DEF h
  <2> QED BY <1>1, <2>1, <2>3, <2>4, <2>5
<1>4. h[n] = it[1..n]
  OBVIOUS
<1> HIDE DEF h
<1> QED BY <1>2, <1>3, <1>4 DEF Chain

\* Pushing is the last of its chain
LEMMA PushChain ==
    ASSUME NEW base, NEW q, NEW n \in Nat, DOMAIN q = 1..n
    PROVE  \E h : /\ Chain(base, q, n, h)
                  /\ FoldLeft(Shown, base, q) = h[n]
<1> DEFINE Adds(t, x) == Shown(t, x)
           Computes(it) == it = [s \in SUBSET DOMAIN q |->
                               IF s = {} THEN base ELSE LET x == Max(s) IN Adds(it[s \ {x}], q[x])]
           folded == FoldLeft(Shown, base, q)
<1>1. PICK g : Folds(base, q, n, g)
  BY FoldExists
<1>2. \A t, x : Shown(t, x) = Adds(t, x)
  OBVIOUS
<1>3. folded = (CHOOSE it : Computes(it))[DOMAIN q]
  BY DEF FoldLeft, MapThenFoldSet
<1> HIDE DEF Adds, folded
<1>4. \A it : Computes(it) <=> Folds(base, q, n, it)
  BY <1>2 DEF Folds
<1> HIDE DEF Computes
<1>5. Computes(CHOOSE it : Computes(it))
  BY <1>1, <1>4, Zenon
<1>6. PICK it : Folds(base, q, n, it) /\ folded = it[1..n]
  BY <1>3, <1>4, <1>5
<1>7. \E h : Chain(base, q, n, h) /\ folded = h[n]
  <2>1. PICK h : Chain(base, q, n, h) /\ h[n] = it[1..n]
    BY <1>6, FoldIsAChain
  <2> QED BY <1>6, <2>1
<1> QED BY <1>7, Zenon DEF folded

\* Two chains over the same elements are the same
LEMMA ChainsAgree ==
    ASSUME NEW base, NEW q, NEW r, NEW n \in Nat, NEW h, NEW g,
           Chain(base, q, n, h), Chain(base, r, n, g), \A i \in 1..n : q[i] = r[i]
    PROVE  \A m \in 0..n : h[m] = g[m]
<1> DEFINE B == {m \in 0..n : h[m] # g[m]}
<1>1. SUFFICES B = {}
  OBVIOUS
<1>2. CASE B # {}
  <2>1. PICK m \in B : \A j \in B : ~(j < m)
    <3>1. B \subseteq Nat
      OBVIOUS
    <3> HIDE DEF B
    <3> QED BY <1>2, <3>1, LeastNumber
  <2>2. m # 0
    BY <2>1 DEF Chain
  <2>3. m \in 1..n /\ m - 1 \in 0..n /\ m - 1 \notin B
    BY <2>1, <2>2
  <2>4. h[m - 1] = g[m - 1]
    BY <2>3
  <2>5. h[m] = Shown(h[m - 1], q[m]) /\ g[m] = Shown(g[m - 1], r[m]) /\ q[m] = r[m]
    BY <2>3 DEF Chain
  <2> QED BY <2>1, <2>4, <2>5
<1> QED BY <1>2

-----------------------------------------------------------------------------
(* Pushing no event, one, and one more.                                     *)

\* Pushing no event changes nothing
LEMMA PushedNone ==
    ASSUME NEW v
    PROVE  FoldLeft(Shown, v, <<>>) = v
<1>1. PICK h : Chain(v, <<>>, 0, h) /\ FoldLeft(Shown, v, <<>>) = h[0]
  BY PushChain
<1> QED BY <1>1 DEF Chain

\* Pushing one event more shows one event more
LEMMA PushedAppend ==
    ASSUME NEW v, NEW S, NEW q \in Seq(S), NEW e
    PROVE  FoldLeft(Shown, v, Append(q, e)) = Shown(FoldLeft(Shown, v, q), e)
<1> DEFINE n == Len(q)
           r == Append(q, e)
           pushed(s) == FoldLeft(Shown, v, s)
<1>1. n \in Nat /\ DOMAIN q = 1..n /\ n + 1 \in Nat /\ DOMAIN r = 1..(n + 1)
  OBVIOUS
<1>2. r[n + 1] = e /\ \A i \in 1..n : r[i] = q[i]
  OBVIOUS
<1> HIDE DEF n, r
<1>3. PICK h : Chain(v, q, n, h) /\ pushed(q) = h[n]
  BY <1>1, PushChain
<1>4. PICK g : Chain(v, r, n + 1, g) /\ pushed(r) = g[n + 1]
  BY <1>1, PushChain
<1> HIDE DEF pushed
<1>5. Chain(v, r, n, g)
  BY <1>1, <1>4 DEF Chain
<1>6. h[n] = g[n]
  <2>1. n \in Nat /\ \A i \in 1..n : q[i] = r[i]
    BY <1>1, <1>2
  <2>2. \A m \in 0..n : h[m] = g[m]
    BY <2>1, <1>3, <1>5, ChainsAgree
  <2> QED BY <2>1, <2>2
<1>7. g[n + 1] = Shown(g[n], e)
  BY <1>1, <1>2, <1>4 DEF Chain
<1>8. pushed(r) = Shown(pushed(q), e)
  BY <1>3, <1>4, <1>6, <1>7
<1> QED BY <1>8 DEF pushed, r

\* Pushing one event shows it
LEMMA PushedOne ==
    ASSUME NEW v, NEW e
    PROVE  FoldLeft(Shown, v, <<e>>) = Shown(v, e)
<1>1. <<>> \in Seq({e}) /\ Append(<<>>, e) = <<e>>
  OBVIOUS
<1>2. FoldLeft(Shown, v, Append(<<>>, e)) = Shown(FoldLeft(Shown, v, <<>>), e)
  BY <1>1, PushedAppend
<1> QED BY <1>1, <1>2, PushedNone

-----------------------------------------------------------------------------
(* The inductive invariant. *)

Texts == Seq(Nat)
Tables == UNION {[D -> Nat] : D \in SUBSET Nat}
Natives == UNION {[D -> {"called", "answered"}] : D \in SUBSET Nat}
Decoders ==
  {[api |-> "none"]}
    \cup [api : {"completions"}, text : Nat, thinking : Nat, byIndex : Tables, byId : Tables,
          finished : BOOLEAN]
    \cup [api : {"responses"}, current : Nat, byItem : Tables]
    \cup [api : {"anthropic"}, started : BOOLEAN, stopped : BOOLEAN, byIndex : Tables]
    \cup [api : {"google"}, current : Nat]

Items == Seq([kind : Kinds, open : BOOLEAN, text : Texts])
Messages == Seq([kind : Kinds, text : Texts])
Views == [blocks : Items, native : Natives, legal : BOOLEAN]

TypeInv ==
  /\ labelled \in BOOLEAN
  /\ reply \in Items
  /\ said \in Nat
  /\ stage \in {"idle", "replying", "complete"}
  /\ blocks \in Messages
  /\ dec \in Decoders
  /\ view \in Views
  /\ outcome \in {"none", "done", "error"}

\* Chunks are in the order they were written, and none is twice in a text.
Rising(text, n) ==
  \A i \in DOMAIN text : text[i] \in 1..n /\ \A j \in DOMAIN text : i < j => text[i] < text[j]

TextInv ==
  /\ \A k \in DOMAIN reply : Rising(reply[k].text, said)
  /\ \A i \in DOMAIN blocks : Rising(blocks[i].text, said)

\* The events have shown the blocks b, of which those in `open` have not ended.
Shows(v, b, open) ==
  /\ v.legal
  /\ Len(v.blocks) = Len(b)
  /\ \A i \in DOMAIN b : SameContent(v.blocks[i], b[i]) /\ (v.blocks[i].open <=> i \in open)

Done == outcome = "done"

\* Nothing has been written before there is a decoder, and only then.
IdleInv ==
  /\ dec.api = "none" <=> stage = "idle"
  /\ stage = "idle" => reply = <<>> /\ blocks = <<>> /\ view.legal /\ view.blocks = <<>>
                       /\ view.native = <<>> /\ outcome # "done"

\* Where every chunk is an event, and items do not end by themselves, blocks
\* and items are the same.
Same ==
  /\ Len(blocks) = Len(reply)
  /\ \A k \in DOMAIN reply : /\ SameContent(blocks[k], reply[k])
                             /\ reply[k].kind # "native" /\ ~reply[k].open

CallTable(table) == \A k \in DOMAIN table : table[k] = k /\ k \in ItemOf("call")
CompletionsFiled ==
  /\ ItemOf("text") = IF dec.text = 0 THEN {} ELSE {dec.text}
  /\ ItemOf("thinking") = IF dec.thinking = 0 THEN {} ELSE {dec.thinking}
  /\ CallTable(dec.byIndex) /\ CallTable(dec.byId)
  /\ ItemOf("call") \subseteq DOMAIN (IF labelled THEN dec.byIndex ELSE dec.byId)
CompletionsInv ==
  dec.api = "completions" =>
    /\ Same /\ CompletionsFiled
    /\ Shows(view, blocks, IF Done THEN {} ELSE DOMAIN blocks)
    /\ dec.finished <=> stage = "complete"
    /\ Done => dec.finished

\* The native items are what the events have shown of them.
NativeInv == DOMAIN view.native = ItemOf("native")

\* f is the block of every item that has one.
Placed(f) ==
  /\ f \in Places
  /\ \A k \in Blocked : blocks[f[k]].kind = reply[k].kind
Open(f) == {f[k] : k \in OpenItems \cap Blocked}

AnthropicInv ==
  dec.api = "anthropic" =>
    /\ NativeInv
    /\ Placed(dec.byIndex)
    /\ \A k \in Blocked : blocks[dec.byIndex[k]].text = reply[k].text
    /\ Shows(view, blocks, Open(dec.byIndex))
    /\ blocks # <<>> => dec.started
    /\ dec.stopped => stage = "complete"
    /\ Done => dec.stopped \/ ~dec.started
    /\ stage = "complete" => OpenItems = {}

\* Where a server leaves deltas out, the text of an item is in its block when
\* the item has ended.
ResponsesFiled(f) ==
  /\ Placed(f)
  /\ Shows(view, blocks, Open(f))
  /\ \A k \in Blocked : IF reply[k].open /\ reply[k].text # <<>> THEN TRUE ELSE blocks[f[k]].text = reply[k].text
  /\ IF labelled THEN dec.byItem = f
     ELSE dec.byItem = <<>> /\ \A k \in OpenItems \cap Blocked : dec.current = f[k]
NativeCalled == \A k \in OpenItems \ Blocked : view.native[k] = "called"
OneAtATime == ~labelled => \A k, l \in OpenItems : k = l
ResponsesInv ==
  dec.api = "responses" =>
    /\ NativeInv /\ NativeCalled /\ OneAtATime
    /\ \E f \in Places : ResponsesFiled(f)
    /\ stage = "complete" => OpenItems = {}

GoogleInv ==
  dec.api = "google" =>
    /\ Same
    /\ Shows(view, blocks, IF Done \/ dec.current = 0 THEN {} ELSE {dec.current})
    /\ dec.current \in {0, Len(blocks)}
    /\ \A k \in DOMAIN reply : k = Len(reply) => (dec.current = 0 <=> reply[k].kind = "call")

IInv == TypeInv /\ TextInv /\ IdleInv /\ CompletionsInv /\ AnthropicInv /\ ResponsesInv /\ GoogleInv

-----------------------------------------------------------------------------
(* What an event does to what has been shown.                               *)

\* c is b but for the text at one place
Rewritten(b, c, at, text) ==
  /\ c \in Messages /\ Len(c) = Len(b) /\ at \in DOMAIN b
  /\ \A i \in DOMAIN b : i # at => c[i] = b[i]
  /\ c[at].kind = b[at].kind /\ c[at].text = text

\* What an item and a block are
LEMMA AnItem ==
    ASSUME NEW q \in Items, NEW i \in DOMAIN q
    PROVE  /\ q[i] \in [kind : Kinds, open : BOOLEAN, text : Texts]
           /\ q[i].kind \in Kinds /\ q[i].text \in Texts /\ q[i].open \in BOOLEAN
<1>1. q[i] \in [kind : Kinds, open : BOOLEAN, text : Texts]
  <2> DEFINE T == [kind : Kinds, open : BOOLEAN, text : Texts]
  <2>1. q \in Seq(T)
    BY DEF Items
  <2> HIDE DEF T
  <2>2. DOMAIN q = 1..Len(q)
    BY <2>1
  <2>3. q[i] \in T
    BY <2>1, <2>2, ElementOfSeq
  <2> QED BY <2>3 DEF T
<1> QED BY <1>1

\* What a block is
LEMMA ABlock ==
    ASSUME NEW q \in Messages, NEW i \in DOMAIN q
    PROVE  q[i].kind \in Kinds /\ q[i].text \in Texts /\ q[i] \in [kind : Kinds, text : Texts]
<1>1. q[i] \in [kind : Kinds, text : Texts]
  <2> DEFINE T == [kind : Kinds, text : Texts]
  <2>1. q \in Seq(T)
    BY DEF Messages
  <2> HIDE DEF T
  <2>2. DOMAIN q = 1..Len(q)
    BY <2>1
  <2>3. q[i] \in T
    BY <2>1, <2>2, ElementOfSeq
  <2> QED BY <2>3 DEF T
<1> QED BY <1>1

\* ... by some more at its end
Lengthened(b, c, at, text) == Rewritten(b, c, at, b[at].text \o text)

\* A start shows a new block, which is open
LEMMA ShowsStart ==
    ASSUME NEW v \in Views, NEW b \in Messages, NEW open, NEW kind \in Kinds, Shows(v, b, open)
    PROVE  LET w == Shown(v, Opened(kind, Len(b) + 1)) IN
           /\ w \in Views /\ w.native = v.native
           /\ Shows(w, Append(b, [kind |-> kind, text |-> <<>>]), open \cup {Len(b) + 1})
<1> DEFINE e == Opened(kind, Len(b) + 1)
           w == Shown(v, e)
           x == [kind |-> kind, open |-> TRUE, text |-> <<>>]
           y == [kind |-> kind, text |-> <<>>]
<1>1. e.type = "start" /\ e.kind = kind /\ e.at = Len(v.blocks) + 1
  BY DEF Opened, Shows
<1>2. v.legal /\ Follows(v.blocks, e)
  BY <1>1 DEF Follows, Shows
<1>3. w = [v EXCEPT !.blocks = Append(@, x)]
  BY <1>1, <1>2 DEF Shown
<1>4. w.blocks = Append(v.blocks, x) /\ w.legal = v.legal /\ w.native = v.native
      /\ w = [blocks |-> w.blocks, native |-> w.native, legal |-> w.legal]
  BY <1>3 DEF Views
<1> HIDE DEF w, e
<1>5. <<>> \in Texts
  BY DEF Texts
<1>6. w.blocks \in Items /\ w \in Views
  <2>1. x \in [kind : Kinds, open : BOOLEAN, text : Texts]
    BY <1>5
  <2> HIDE DEF x
  <2>2. w.blocks \in Items /\ w.native \in Natives /\ w.legal \in BOOLEAN
    BY <1>4, <2>1 DEF Views, Items
  <2> QED BY <1>4, <2>2 DEF Views
<1>7. Append(b, y) \in Messages
  BY <1>5 DEF Messages
<1>8. Len(w.blocks) = Len(Append(b, y)) /\ w.legal
  BY <1>2, <1>4 DEF Views, Items, Messages, Shows
<1>9. ASSUME NEW i \in DOMAIN Append(b, y)
      PROVE  /\ SameContent(w.blocks[i], Append(b, y)[i])
             /\ w.blocks[i].open <=> i \in open \cup {Len(b) + 1}
  <2>1. CASE i \in DOMAIN b
    <3>1. w.blocks[i] = v.blocks[i] /\ Append(b, y)[i] = b[i] /\ i # Len(b) + 1
      BY <1>4, <2>1 DEF Views, Items, Messages, Shows
    <3> QED BY <2>1, <3>1 DEF Shows
  <2>2. CASE i = Len(b) + 1
    <3>1. w.blocks[i] = x /\ Append(b, y)[i] = y
      BY <1>4, <2>2 DEF Views, Items, Messages, Shows
    <3> QED BY <2>2, <3>1 DEF SameContent
  <2> QED BY <2>1, <2>2 DEF Messages
<1>10. Shows(w, Append(b, y), open \cup {Len(b) + 1})
  BY <1>8, <1>9 DEF Shows
<1> QED BY <1>4, <1>6, <1>10 DEF w, e

\* A delta of an open block shows what it adds
LEMMA ShowsDelta ==
    ASSUME NEW v \in Views, NEW b \in Messages, NEW c, NEW open, NEW at \in open, NEW text \in Texts,
           Shows(v, b, open), Lengthened(b, c, at, text)
    PROVE  LET w == Shown(v, Delta(b[at].kind, at, text)) IN
           w \in Views /\ w.native = v.native /\ Shows(w, c, open)
<1> DEFINE e == Delta(b[at].kind, at, text)
           w == Shown(v, e)
           x == [v.blocks[at] EXCEPT !.text = @ \o text]
<1>1. e.type = "delta" /\ e.kind = b[at].kind /\ e.at = at /\ e.text = text
  BY DEF Delta
<1>2. at \in DOMAIN b /\ DOMAIN v.blocks = DOMAIN b /\ v.blocks \in Items /\ SameContent(v.blocks[at], b[at])
      /\ v.blocks[at].open
  BY DEF Lengthened, Rewritten, Shows, Views, Items, Messages
<1>3. v.legal /\ Follows(v.blocks, e)
  BY <1>1, <1>2 DEF Follows, Shows, SameContent
<1>4. w = [v EXCEPT !.blocks[at].text = @ \o text]
  BY <1>1, <1>3 DEF Shown
<1>5. w.blocks = [v.blocks EXCEPT ![at] = x] /\ w.legal = v.legal /\ w.native = v.native
      /\ w = [blocks |-> w.blocks, native |-> w.native, legal |-> w.legal]
  BY <1>4 DEF Views
<1> HIDE DEF e, w
<1>r. Rewritten(b, c, at, b[at].text \o text)
  BY DEF Lengthened
<1>i. v.blocks[at] \in [kind : Kinds, open : BOOLEAN, text : Texts]
  <2>1. at \in DOMAIN v.blocks /\ v.blocks \in Items
    BY <1>2
  <2> QED BY <2>1, AnItem
<1>6. x \in [kind : Kinds, open : BOOLEAN, text : Texts]
  <2>1. v.blocks[at].text \o text \in Texts
    BY <1>i DEF Texts
  <2> QED BY <1>i, <2>1
<1>7. x.kind = v.blocks[at].kind /\ x.open = v.blocks[at].open /\ x.text = v.blocks[at].text \o text
  BY <1>i
<1> HIDE DEF x
<1>8. w.blocks \in Items /\ Len(w.blocks) = Len(v.blocks)
  BY <1>2, <1>5, <1>6 DEF Items
<1>9. w \in Views
  BY <1>5, <1>8 DEF Views
<1>10. Len(w.blocks) = Len(c) /\ w.legal
  BY <1>3, <1>5, <1>8, <1>r DEF Shows, Rewritten
<1>11. ASSUME NEW i \in DOMAIN c
       PROVE  SameContent(w.blocks[i], c[i]) /\ (w.blocks[i].open <=> i \in open)
  <2>0. i \in DOMAIN b
    BY <1>r DEF Rewritten, Messages
  <2>1. CASE i # at
    <3>1. w.blocks[i] = v.blocks[i] /\ c[i] = b[i]
      BY <1>2, <1>5, <1>r, <2>0, <2>1 DEF Rewritten
    <3> QED BY <2>0, <3>1 DEF Shows
  <2>2. CASE i = at
    <3>1. w.blocks[i] = x
      BY <1>2, <1>5, <2>2
    <3> QED BY <1>2, <1>7, <1>r, <2>2, <3>1 DEF Rewritten, SameContent
  <2> QED BY <2>1, <2>2
<1>12. Shows(w, c, open)
  BY <1>10, <1>11 DEF Shows
<1> QED BY <1>5, <1>9, <1>12 DEF w, e

\* An end of an open block shows its text and closes it
LEMMA ShowsEnd ==
    ASSUME NEW v \in Views, NEW b \in Messages, NEW c, NEW open, NEW at \in open, NEW text \in Texts,
           Shows(v, b, open), Rewritten(b, c, at, text)
    PROVE  LET w == Shown(v, Closed(b[at].kind, at, text)) IN
           w \in Views /\ w.native = v.native /\ Shows(w, c, open \ {at})
<1> DEFINE e == Closed(b[at].kind, at, text)
           w == Shown(v, e)
           x == [v.blocks[at] EXCEPT !.text = text, !.open = FALSE]
<1>1. e.type = "end" /\ e.kind = b[at].kind /\ e.at = at /\ e.text = text
  BY DEF Closed
<1>2. at \in DOMAIN b /\ DOMAIN v.blocks = DOMAIN b /\ v.blocks \in Items /\ SameContent(v.blocks[at], b[at])
      /\ v.blocks[at].open
  BY DEF Lengthened, Rewritten, Shows, Views, Items, Messages
<1>3. v.legal /\ Follows(v.blocks, e)
  BY <1>1, <1>2 DEF Follows, Shows, SameContent
<1>4. w = [v EXCEPT !.blocks[at].text = text, !.blocks[at].open = FALSE]
  BY <1>1, <1>3 DEF Shown
<1>5. w.blocks = [v.blocks EXCEPT ![at] = x] /\ w.legal = v.legal /\ w.native = v.native
      /\ w = [blocks |-> w.blocks, native |-> w.native, legal |-> w.legal]
  BY <1>2, <1>4 DEF Views
<1> HIDE DEF e, w
<1>i. v.blocks[at] \in [kind : Kinds, open : BOOLEAN, text : Texts]
  <2>1. at \in DOMAIN v.blocks /\ v.blocks \in Items
    BY <1>2
  <2> QED BY <2>1, AnItem
<1>6. x \in [kind : Kinds, open : BOOLEAN, text : Texts]
  BY <1>i
<1>7. x.kind = v.blocks[at].kind /\ x.open = FALSE /\ x.text = text
  BY <1>i
<1> HIDE DEF x
<1>8. w.blocks \in Items /\ Len(w.blocks) = Len(v.blocks)
  BY <1>2, <1>5, <1>6 DEF Items
<1>9. w \in Views
  BY <1>5, <1>8 DEF Views
<1>10. Len(w.blocks) = Len(c) /\ w.legal
  BY <1>3, <1>5, <1>8 DEF Shows, Rewritten
<1>11. ASSUME NEW i \in DOMAIN c
       PROVE  SameContent(w.blocks[i], c[i]) /\ (w.blocks[i].open <=> i \in open \ {at})
  <2>0. i \in DOMAIN b
    BY DEF Rewritten, Messages
  <2>1. CASE i # at
    <3>1. w.blocks[i] = v.blocks[i] /\ c[i] = b[i]
      BY <1>2, <1>5, <2>0, <2>1 DEF Rewritten
    <3> QED BY <2>0, <2>1, <3>1 DEF Shows
  <2>2. CASE i = at
    <3>1. w.blocks[i] = x
      BY <1>2, <1>5, <2>2
    <3> QED BY <1>2, <1>7, <2>2, <3>1 DEF Rewritten, SameContent
  <2> QED BY <2>1, <2>2
<1>12. Shows(w, c, open \ {at})
  BY <1>10, <1>11 DEF Shows
<1> QED BY <1>5, <1>9, <1>12 DEF w, e

\* An end repeats the text of its block: nothing else changes
LEMMA ShowsEndAsIs ==
    ASSUME NEW v \in Views, NEW b \in Messages, NEW open, NEW at \in open \cap DOMAIN b,
           Shows(v, b, open)
    PROVE  LET w == Shown(v, Closed(b[at].kind, at, b[at].text)) IN
           w \in Views /\ w.native = v.native /\ Shows(w, b, open \ {at})
<1>1. b[at].text \in Texts /\ at \in open
  BY ABlock
<1>2. Rewritten(b, b, at, b[at].text)
  BY DEF Rewritten
<1> QED BY <1>1, <1>2, ShowsEnd

\* Ends of all the blocks, in their order, leave none open
LEMMA ShowsEndOfAll ==
    ASSUME NEW v \in Views, NEW b \in Messages, NEW q, DOMAIN q = DOMAIN b,
           \A i \in DOMAIN b : q[i] = Closed(b[i].kind, i, b[i].text), Shows(v, b, DOMAIN b)
    PROVE  LET w == FoldLeft(Shown, v, q) IN
           w \in Views /\ w.native = v.native /\ Shows(w, b, {})
<1> DEFINE n == Len(b)
           w == FoldLeft(Shown, v, q)
<1>1. n \in Nat /\ DOMAIN b = 1..n /\ DOMAIN q = 1..n
  BY DEF Messages
<1>2. PICK h : Chain(v, q, n, h) /\ w = h[n]
  BY <1>1, PushChain
<1> HIDE DEF n, w
<1> DEFINE Good(m) == /\ h[m] \in Views /\ h[m].native = v.native
                      /\ Shows(h[m], b, DOMAIN b \ 1..m)
           B == {m \in 0..n : ~Good(m)}
<1>3. Good(0)
  <2>1. h[0] = v /\ DOMAIN b \ 1..0 = DOMAIN b
    BY <1>1, <1>2 DEF Chain
  <2> QED BY <2>1
<1>4. ASSUME NEW m \in 1..n, Good(m - 1) PROVE Good(m)
  <2>1. h[m] = Shown(h[m - 1], Closed(b[m].kind, m, b[m].text))
    BY <1>1, <1>2 DEF Chain
  <2>2. m \in (DOMAIN b \ 1..(m - 1)) \cap DOMAIN b /\ (DOMAIN b \ 1..(m - 1)) \ {m} = DOMAIN b \ 1..m
    BY <1>1
  <2>3. h[m - 1] \in Views /\ Shows(h[m - 1], b, DOMAIN b \ 1..(m - 1)) /\ h[m - 1].native = v.native
    BY <1>4
  <2>4. h[m] \in Views /\ h[m].native = h[m - 1].native /\ Shows(h[m], b, (DOMAIN b \ 1..(m - 1)) \ {m})
    <3> DEFINE left == DOMAIN b \ 1..(m - 1)
               u == h[m - 1]
    <3>1. u \in Views /\ Shows(u, b, left) /\ m \in left \cap DOMAIN b /\ h[m] = Shown(u, Closed(b[m].kind, m, b[m].text))
      BY <2>1, <2>2, <2>3
    <3> HIDE DEF left, u
    <3>2. h[m] \in Views /\ h[m].native = u.native /\ Shows(h[m], b, left \ {m})
      BY <3>1, ShowsEndAsIs
    <3> QED BY <3>2 DEF left, u
  <2> QED BY <2>2, <2>3, <2>4
<1>5. B = {}
  <2>1. SUFFICES ASSUME B # {} PROVE FALSE
    OBVIOUS
  <2>2. PICK m \in B : \A j \in B : ~(j < m)
    <3>1. B \subseteq Nat
      OBVIOUS
    <3> HIDE DEF B
    <3> QED BY <2>1, <3>1, LeastNumber
  <2>3. m \in 0..n /\ ~Good(m)
    OBVIOUS
  <2>4. m # 0
    BY <1>3, <2>3
  <2>5. m \in 1..n /\ m - 1 \in 0..n /\ m - 1 < m
    BY <1>1, <2>3, <2>4
  <2>6. m - 1 \notin B
    BY <2>2, <2>5
  <2>7. Good(m - 1)
    BY <2>5, <2>6
  <2> HIDE DEF Good
  <2> QED BY <1>4, <2>3, <2>5, <2>7
<1>6. Good(n)
  <2> HIDE DEF Good
  <2>1. n \in 0..n
    BY <1>1
  <2> QED BY <1>5, <2>1
<1>7. DOMAIN b \ 1..n = {}
  BY <1>1
<1> QED BY <1>2, <1>6, <1>7 DEF w

-----------------------------------------------------------------------------
(* Texts, tables, blocks.                                                   *)

\* A new chunk is above all the chunks of a text
LEMMA RisingGrows ==
    ASSUME NEW n \in Nat, NEW text \in Texts, Rising(text, n)
    PROVE  /\ Rising(text, n + 1)
           /\ Rising(Append(text, n + 1), n + 1)
           /\ text \o <<n + 1>> = Append(text, n + 1)
           /\ Append(text, n + 1) \in Texts
BY DEF Rising, Texts

\* An empty text and a text of one chunk
LEMMA RisingBegins ==
    ASSUME NEW n \in Nat
    PROVE  /\ Rising(<<>>, n) /\ Rising(<<n + 1>>, n + 1)
           /\ <<>> \in Texts /\ <<n + 1>> \in Texts /\ <<>> \o <<n + 1>> = <<n + 1>>
           /\ Append(<<>>, n + 1) = <<n + 1>>
BY DEF Rising, Texts

\* What a table has after a value is entered
LEMMA WithTable ==
    ASSUME NEW f \in Tables, NEW k \in Nat, NEW x \in Nat
    PROVE  /\ With(f, k, x) \in Tables
           /\ DOMAIN With(f, k, x) = DOMAIN f \cup {k}
           /\ With(f, k, x)[k] = x
           /\ \A j \in DOMAIN f : j # k => With(f, k, x)[j] = f[j]
<1>1. PICK D \in SUBSET Nat : f \in [D -> Nat]
  BY DEF Tables
<1>2. With(f, k, x) \in [D \cup {k} -> Nat]
  BY <1>1 DEF With
<1>3. D \cup {k} \in SUBSET Nat
  BY <1>1
<1>4. With(f, k, x) \in Tables
  BY <1>2, <1>3 DEF Tables
<1> QED BY <1>4 DEF With

\* A message that is rewritten keeps its places
LEMMA RewrittenPlaces ==
    ASSUME NEW b \in Messages, NEW c, NEW at, NEW text, Rewritten(b, c, at, text)
    PROVE  /\ c \in Messages /\ Len(c) = Len(b) /\ DOMAIN c = DOMAIN b /\ at \in DOMAIN b
           /\ \A i \in DOMAIN b : i # at => c[i] = b[i]
           /\ c[at].kind = b[at].kind /\ c[at].text = text
<1>1. c \in Messages /\ Len(c) = Len(b)
  BY DEF Rewritten
<1>2. DOMAIN c = DOMAIN b
  BY <1>1 DEF Messages
<1> QED BY <1>1, <1>2 DEF Rewritten

\* Extending a block rewrites it
LEMMA ExtendRewrites ==
    ASSUME NEW b \in Messages, NEW at \in DOMAIN b, NEW text \in Texts
    PROVE  Lengthened(b, Extend(b, at, text), at, text)
<1> DEFINE x == [b[at] EXCEPT !.text = @ \o text]
<1>1. Extend(b, at, text) = [b EXCEPT ![at] = x]
  BY DEF Extend
<1>2. b[at] \in [kind : Kinds, text : Texts] /\ b[at].text \o text \in Texts
  <2>1. b[at] \in [kind : Kinds, text : Texts] /\ b[at].text \in Texts
    BY ABlock
  <2> QED BY <2>1 DEF Texts
<1>3. x \in [kind : Kinds, text : Texts] /\ x.kind = b[at].kind /\ x.text = b[at].text \o text
  BY <1>2
<1> HIDE DEF x
<1>4. [b EXCEPT ![at] = x] \in Messages /\ Len([b EXCEPT ![at] = x]) = Len(b)
  BY <1>3 DEF Messages
<1>5. [b EXCEPT ![at] = x][at] = x /\ \A i \in DOMAIN b : i # at => [b EXCEPT ![at] = x][i] = b[i]
  OBVIOUS
<1> QED BY <1>1, <1>3, <1>4, <1>5 DEF Rewritten, Lengthened

\* ... and so does replacing its text
LEMMA ReplaceRewrites ==
    ASSUME NEW b \in Messages, NEW at \in DOMAIN b, NEW text \in Texts
    PROVE  Rewritten(b, [b EXCEPT ![at].text = text], at, text)
<1> DEFINE x == [b[at] EXCEPT !.text = text]
<1>2. b[at] \in [kind : Kinds, text : Texts]
  BY ABlock
<1>3. x \in [kind : Kinds, text : Texts] /\ x.kind = b[at].kind /\ x.text = text
  BY <1>2
<1> HIDE DEF x
<1>4. [b EXCEPT ![at] = x] \in Messages /\ Len([b EXCEPT ![at] = x]) = Len(b)
  BY <1>3 DEF Messages
<1>5. [b EXCEPT ![at] = x][at] = x /\ \A i \in DOMAIN b : i # at => [b EXCEPT ![at] = x][i] = b[i]
  OBVIOUS
<1>6. Rewritten(b, [b EXCEPT ![at] = x], at, text)
  BY <1>3, <1>4, <1>5 DEF Rewritten
<1> QED BY <1>6 DEF x

\* A new block is the last one, and empty
LEMMA AddsBlock ==
    ASSUME NEW b \in Messages, NEW kind \in Kinds, NEW text \in Texts
    PROVE  LET c == Append(b, [kind |-> kind, text |-> text]) IN
           /\ c \in Messages /\ Len(c) = Len(b) + 1
           /\ \A i \in DOMAIN b : c[i] = b[i] /\ i # Len(b) + 1
           /\ c[Len(b) + 1] = [kind |-> kind, text |-> text]
<1> DEFINE x == [kind |-> kind, text |-> text]
<1>1. x \in [kind : Kinds, text : Texts]
  OBVIOUS
<1> HIDE DEF x
<1>2. Append(b, x) \in Messages /\ Len(Append(b, x)) = Len(b) + 1
  BY <1>1 DEF Messages
<1>3. /\ \A i \in DOMAIN b : Append(b, x)[i] = b[i] /\ i # Len(b) + 1
      /\ Append(b, x)[Len(b) + 1] = x
  BY DEF Messages
<1> QED BY <1>2, <1>3 DEF x

\* ... and so is a new item
LEMMA AddsItem ==
    ASSUME NEW q \in Items, NEW x \in [kind : Kinds, open : BOOLEAN, text : Texts]
    PROVE  LET r == Append(q, x) IN
           /\ r \in Items /\ Len(r) = Len(q) + 1
           /\ \A k \in DOMAIN q : r[k] = q[k] /\ k # Len(q) + 1
           /\ r[Len(q) + 1] = x
<1>2. Append(q, x) \in Items /\ Len(Append(q, x)) = Len(q) + 1
  BY DEF Items
<1>3. /\ \A k \in DOMAIN q : Append(q, x)[k] = q[k] /\ k # Len(q) + 1
      /\ Append(q, x)[Len(q) + 1] = x
  BY DEF Items
<1> QED BY <1>2, <1>3

\* A chunk changes the text of its item, and nothing else
LEMMA WritesItem ==
    ASSUME NEW q \in Items, NEW k \in DOMAIN q, NEW c \in Nat
    PROVE  LET r == [q EXCEPT ![k].text = Append(@, c)] IN
           /\ r \in Items /\ Len(r) = Len(q)
           /\ \A l \in DOMAIN q : l # k => r[l] = q[l]
           /\ r[k].kind = q[k].kind /\ r[k].open = q[k].open /\ r[k].text = Append(q[k].text, c)
<1> DEFINE x == [q[k] EXCEPT !.text = Append(@, c)]
<1>1. q[k] \in [kind : Kinds, open : BOOLEAN, text : Texts] /\ Append(q[k].text, c) \in Texts
  <2>1. q[k] \in [kind : Kinds, open : BOOLEAN, text : Texts] /\ q[k].text \in Texts
    BY AnItem
  <2> QED BY <2>1 DEF Texts
<1>2. x \in [kind : Kinds, open : BOOLEAN, text : Texts]
      /\ x.kind = q[k].kind /\ x.open = q[k].open /\ x.text = Append(q[k].text, c)
  BY <1>1
<1> HIDE DEF x
<1>3. [q EXCEPT ![k] = x] \in Items /\ Len([q EXCEPT ![k] = x]) = Len(q)
  BY <1>2 DEF Items
<1>4. [q EXCEPT ![k] = x][k] = x /\ \A l \in DOMAIN q : l # k => [q EXCEPT ![k] = x][l] = q[l]
  OBVIOUS
<1>5. [q EXCEPT ![k].text = Append(@, c)] = [q EXCEPT ![k] = x]
  BY DEF x
<1> QED BY <1>2, <1>3, <1>4, <1>5

\* The end of an item changes nothing but that it is open
LEMMA EndsItem ==
    ASSUME NEW q \in Items, NEW k \in DOMAIN q
    PROVE  LET r == [q EXCEPT ![k].open = FALSE] IN
           /\ r \in Items /\ Len(r) = Len(q)
           /\ \A l \in DOMAIN q : l # k => r[l] = q[l]
           /\ r[k].kind = q[k].kind /\ ~r[k].open /\ r[k].text = q[k].text
<1> DEFINE x == [q[k] EXCEPT !.open = FALSE]
<1>1. q[k] \in [kind : Kinds, open : BOOLEAN, text : Texts]
  BY AnItem
<1>2. x \in [kind : Kinds, open : BOOLEAN, text : Texts]
      /\ x.kind = q[k].kind /\ ~x.open /\ x.text = q[k].text
  BY <1>1
<1> HIDE DEF x
<1>3. [q EXCEPT ![k] = x] \in Items /\ Len([q EXCEPT ![k] = x]) = Len(q)
  BY <1>2 DEF Items
<1>4. [q EXCEPT ![k] = x][k] = x /\ \A l \in DOMAIN q : l # k => [q EXCEPT ![k] = x][l] = q[l]
  OBVIOUS
<1>5. [q EXCEPT ![k].open = FALSE] = [q EXCEPT ![k] = x]
  BY DEF x
<1> QED BY <1>2, <1>3, <1>4, <1>5

-----------------------------------------------------------------------------
(* A chunk that becomes a delta at once (completions, google).              *)

\* A chunk that begins an item and its block
LEMMA AddsBoth ==
    ASSUME TypeInv, TextInv, Same, NEW kind \in Kinds \ {"native"}, NEW v \in Views, NEW open,
           Shows(v, blocks, open), said' = said + 1,
           reply' = Append(reply, [kind |-> kind, open |-> FALSE, text |-> <<said + 1>>]),
           blocks' = Extend(NewBlock(kind), Len(blocks) + 1, <<said + 1>>)
    PROVE  /\ reply' \in Items /\ blocks' \in Messages /\ said' \in Nat
           /\ Same' /\ TextInv'
           /\ Len(reply') = Len(reply) + 1 /\ reply'[Len(reply) + 1].kind = kind
           /\ \A k \in DOMAIN reply : reply'[k] = reply[k]
           /\ blocks'[Len(blocks) + 1] = [kind |-> kind, text |-> <<said + 1>>]
           /\ LET w == Shown(Shown(v, Opened(kind, Len(blocks) + 1)),
                             Delta(kind, Len(blocks) + 1, <<said + 1>>)) IN
              /\ w \in Views /\ w.native = v.native
              /\ Shows(w, blocks', open \cup {Len(blocks) + 1})
<1> DEFINE at == Len(blocks) + 1
           c == NewBlock(kind)
           u == Shown(v, Opened(kind, at))
           chunk == <<said + 1>>
<1>1. /\ reply \in Items /\ blocks \in Messages /\ said \in Nat /\ v \in Views /\ kind \in Kinds
      /\ Len(blocks) = Len(reply) /\ FALSE \in BOOLEAN
  BY DEF TypeInv, Same
<1>2. <<>> \in Texts /\ chunk \in Texts /\ <<>> \o chunk = chunk /\ Rising(chunk, said + 1)
  BY <1>1, RisingBegins
<1>3. /\ c \in Messages /\ Len(c) = at /\ \A i \in DOMAIN blocks : c[i] = blocks[i] /\ i # at
      /\ c[at].kind = kind /\ c[at].text = <<>>
  <2>1. c = Append(blocks, [kind |-> kind, text |-> <<>>])
    BY DEF NewBlock
  <2> HIDE DEF c
  <2> QED BY <1>1, <1>2, <2>1, AddsBlock
<1>4. DOMAIN c = DOMAIN blocks \cup {at} /\ at \in DOMAIN c /\ DOMAIN blocks = DOMAIN reply
  BY <1>1, <1>3 DEF Messages, Items
<1>5. Lengthened(c, blocks', at, chunk) /\ c[at].text \o chunk = chunk
  <2>1. blocks' = Extend(c, at, chunk)
    OBVIOUS
  <2> HIDE DEF c, at, chunk
  <2> QED BY <1>2, <1>3, <1>4, <2>1, ExtendRewrites
<1>6. u \in Views /\ u.native = v.native /\ Shows(u, c, open \cup {at})
  BY <1>1, ShowsStart DEF NewBlock
<1>7. LET w == Shown(u, Delta(c[at].kind, at, chunk)) IN
      w \in Views /\ w.native = u.native /\ Shows(w, blocks', open \cup {at})
  <2> DEFINE more == open \cup {at}
  <2>1. at \in more /\ Shows(u, c, more) /\ u \in Views
    BY <1>6
  <2> HIDE DEF c, at, chunk, u, more
  <2>2. LET w == Shown(u, Delta(c[at].kind, at, chunk)) IN
        w \in Views /\ w.native = u.native /\ Shows(w, blocks', more)
    BY <1>2, <1>3, <1>5, <2>1, ShowsDelta
  <2> QED BY <2>2 DEF more
<1>8. /\ reply' \in Items /\ Len(reply') = at /\ \A k \in DOMAIN reply : reply'[k] = reply[k] /\ k # at
      /\ reply'[at].kind = kind /\ ~reply'[at].open /\ reply'[at].text = chunk
  <2> DEFINE x == [kind |-> kind, open |-> FALSE, text |-> chunk]
  <2>1. x \in [kind : Kinds, open : BOOLEAN, text : Texts] /\ reply' = Append(reply, x)
    BY <1>1, <1>2
  <2> HIDE DEF x
  <2>2. /\ reply' \in Items /\ Len(reply') = at /\ \A k \in DOMAIN reply : reply'[k] = reply[k] /\ k # at
        /\ reply'[at] = x
    BY <1>1, <2>1, AddsItem
  <2> QED BY <2>2 DEF x
<1>9. DOMAIN reply' = DOMAIN reply \cup {at}
  BY <1>1, <1>8 DEF Items
<1> HIDE DEF c, u, chunk
<1>10. /\ blocks' \in Messages /\ Len(blocks') = at /\ DOMAIN blocks' = DOMAIN blocks \cup {at}
       /\ \A i \in DOMAIN blocks : blocks'[i] = blocks[i]
       /\ blocks'[at].kind = kind /\ blocks'[at].text = chunk
  <2>1. Rewritten(c, blocks', at, chunk)
    BY <1>5 DEF Lengthened
  <2>2. /\ blocks' \in Messages /\ Len(blocks') = Len(c) /\ DOMAIN blocks' = DOMAIN c
        /\ \A i \in DOMAIN c : i # at => blocks'[i] = c[i]
        /\ blocks'[at].kind = c[at].kind /\ blocks'[at].text = chunk
    BY <1>3, <2>1, RewrittenPlaces
  <2> QED BY <1>3, <1>4, <2>2
<1>11. Same'
  <2>1. ASSUME NEW k \in DOMAIN reply'
        PROVE  SameContent(blocks'[k], reply'[k]) /\ reply'[k].kind # "native" /\ ~reply'[k].open
    <3>1. CASE k \in DOMAIN reply
      BY <1>4, <1>8, <1>10, <3>1 DEF Same
    <3>2. CASE k = at
      BY <1>8, <1>10, <3>2 DEF SameContent
    <3> QED BY <1>9, <3>1, <3>2
  <2> QED BY <1>8, <1>10, <2>1 DEF Same
<1>12. TextInv'
  <2>1. ASSUME NEW k \in DOMAIN reply' PROVE Rising(reply'[k].text, said')
    <3>1. CASE k \in DOMAIN reply
      <4>1. Rising(reply[k].text, said) /\ reply[k].text \in Texts
        BY <1>1, <3>1, AnItem DEF TextInv
      <4> QED BY <1>1, <1>8, <3>1, <4>1, RisingGrows
    <3>2. CASE k = at
      BY <1>2, <1>8, <3>2
    <3> QED BY <1>9, <3>1, <3>2
  <2>2. ASSUME NEW i \in DOMAIN blocks' PROVE Rising(blocks'[i].text, said')
    <3>1. i \in DOMAIN reply' /\ SameContent(blocks'[i], reply'[i])
      BY <1>4, <1>9, <1>10, <1>11 DEF Same
    <3> QED BY <2>1, <3>1 DEF SameContent
  <2> QED BY <2>1, <2>2 DEF TextInv
<1>13. blocks'[at] = [kind |-> kind, text |-> chunk]
  <2>1. blocks'[at] \in [kind : Kinds, text : Texts]
    BY <1>10, ABlock
  <2> QED BY <1>10, <2>1
<1>14. said' \in Nat
  BY <1>1
<1> QED BY <1>1, <1>3, <1>6, <1>7, <1>8, <1>10, <1>11, <1>12, <1>13, <1>14 DEF u, chunk

\* A chunk of an item that has an open block
LEMMA GrowsBoth ==
    ASSUME TypeInv, TextInv, Same, NEW k \in DOMAIN reply, NEW open, k \in open,
           Shows(view, blocks, open), said' = said + 1,
           reply' = [reply EXCEPT ![k].text = Append(@, said + 1)],
           blocks' = Extend(blocks, k, <<said + 1>>)
    PROVE  /\ reply' \in Items /\ blocks' \in Messages /\ said' \in Nat
           /\ Same' /\ TextInv'
           /\ Len(reply') = Len(reply) /\ \A l \in DOMAIN reply : reply'[l].kind = reply[l].kind
           /\ LET w == Shown(view, Delta(reply[k].kind, k, <<said + 1>>)) IN
              /\ w \in Views /\ w.native = view.native
              /\ Shows(w, blocks', open)
<1> DEFINE chunk == <<said + 1>>
           w == Shown(view, Delta(blocks[k].kind, k, chunk))
<1>1. /\ reply \in Items /\ blocks \in Messages /\ said \in Nat /\ view \in Views
      /\ Len(blocks) = Len(reply)
  BY DEF TypeInv, Same
<1>2. k \in DOMAIN blocks /\ DOMAIN blocks = DOMAIN reply
  BY <1>1 DEF Items, Messages
<1>3. chunk \in Texts /\ blocks[k].text = reply[k].text /\ blocks[k].kind = reply[k].kind
  BY <1>1, RisingBegins DEF Same, SameContent
<1>4. Lengthened(blocks, blocks', k, chunk)
  BY <1>1, <1>2, <1>3, ExtendRewrites
<1>5. w \in Views /\ w.native = view.native /\ Shows(w, blocks', open)
  <2>1. w = Shown(view, Delta(blocks[k].kind, k, chunk))
    OBVIOUS
  <2> HIDE DEF chunk, w
  <2> QED BY <1>1, <1>3, <1>4, <2>1, ShowsDelta
<1> HIDE DEF w
<1>6. /\ reply' \in Items /\ Len(reply') = Len(reply)
      /\ \A l \in DOMAIN reply : l # k => reply'[l] = reply[l]
      /\ reply'[k].kind = reply[k].kind /\ reply'[k].open = reply[k].open
      /\ reply'[k].text = Append(reply[k].text, said + 1)
  <2>1. said + 1 \in Nat
    BY <1>1
  <2> QED BY <1>1, <2>1, WritesItem
<1>7. DOMAIN reply' = DOMAIN reply
  BY <1>1, <1>6 DEF Items
<1>8. Rising(reply[k].text, said) /\ reply[k].text \in Texts
  BY <1>1, AnItem DEF TextInv
<1>9. blocks[k].text \o chunk = Append(reply[k].text, said + 1) /\ Rising(Append(reply[k].text, said + 1), said + 1)
  BY <1>1, <1>3, <1>8, RisingGrows
<1> HIDE DEF chunk
<1>10. /\ blocks' \in Messages /\ Len(blocks') = Len(blocks) /\ DOMAIN blocks' = DOMAIN blocks
       /\ \A i \in DOMAIN blocks : i # k => blocks'[i] = blocks[i]
       /\ blocks'[k].kind = reply[k].kind /\ blocks'[k].text = Append(reply[k].text, said + 1)
  <2> DEFINE full == Append(reply[k].text, said + 1)
  <2>1. Rewritten(blocks, blocks', k, full)
    BY <1>4, <1>9 DEF Lengthened
  <2> HIDE DEF full
  <2>2. /\ blocks' \in Messages /\ Len(blocks') = Len(blocks) /\ DOMAIN blocks' = DOMAIN blocks
        /\ \A i \in DOMAIN blocks : i # k => blocks'[i] = blocks[i]
        /\ blocks'[k].kind = blocks[k].kind /\ blocks'[k].text = full
    BY <1>1, <2>1, RewrittenPlaces
  <2> QED BY <1>3, <2>2 DEF full
<1>11. Same'
  <2>1. ASSUME NEW l \in DOMAIN reply'
        PROVE  SameContent(blocks'[l], reply'[l]) /\ reply'[l].kind # "native" /\ ~reply'[l].open
    <3>1. CASE l # k
      BY <1>2, <1>6, <1>7, <1>10, <3>1 DEF Same
    <3>2. CASE l = k
      BY <1>6, <1>10, <3>2 DEF SameContent, Same
    <3> QED BY <3>1, <3>2
  <2> QED BY <1>1, <1>6, <1>10, <2>1 DEF Same
<1>12. TextInv'
  <2>1. ASSUME NEW l \in DOMAIN reply' PROVE Rising(reply'[l].text, said')
    <3>1. CASE l # k
      <4>1. Rising(reply[l].text, said) /\ reply[l].text \in Texts
        BY <1>1, <1>7, AnItem DEF TextInv
      <4> QED BY <1>1, <1>6, <1>7, <3>1, <4>1, RisingGrows
    <3>2. CASE l = k
      BY <1>6, <1>9, <3>2
    <3> QED BY <3>1, <3>2
  <2>2. ASSUME NEW i \in DOMAIN blocks' PROVE Rising(blocks'[i].text, said')
    <3>1. i \in DOMAIN reply' /\ SameContent(blocks'[i], reply'[i])
      BY <1>2, <1>7, <1>10, <1>11 DEF Same
    <3> QED BY <2>1, <3>1 DEF SameContent
  <2> QED BY <2>1, <2>2 DEF TextInv
<1>13. said' \in Nat
  BY <1>1
<1> QED BY <1>3, <1>5, <1>6, <1>10, <1>11, <1>12, <1>13 DEF w, chunk

-----------------------------------------------------------------------------
(* Completions.                                                             *)

CompletionsDecoder == [api : {"completions"}, text : Nat, thinking : Nat, byIndex : Tables,
                       byId : Tables, finished : BOOLEAN]

\* A decoder is of its API
LEMMA DecoderOf ==
    ASSUME TypeInv
    PROVE  /\ dec.api \in {"none", "completions", "responses", "anthropic", "google"}
           /\ dec.api = "completions" => dec \in CompletionsDecoder
           /\ dec.api = "responses" => dec \in [api : {"responses"}, current : Nat, byItem : Tables]
           /\ dec.api = "anthropic" =>
                dec \in [api : {"anthropic"}, started : BOOLEAN, stopped : BOOLEAN, byIndex : Tables]
           /\ dec.api = "google" => dec \in [api : {"google"}, current : Nat]
           /\ dec.api = "none" => dec = [api |-> "none"]
BY DEF TypeInv, Decoders, CompletionsDecoder

\* The items of a kind, after one is added and after one has grown
LEMMA ItemOfGrows ==
    ASSUME reply \in Items, reply' \in Items, NEW kind \in Kinds
    PROVE  /\ (/\ Len(reply') = Len(reply) + 1 /\ reply'[Len(reply) + 1].kind = kind
               /\ \A k \in DOMAIN reply : reply'[k] = reply[k])
              => /\ ItemOf(kind)' = ItemOf(kind) \cup {Len(reply) + 1}
                 /\ \A other \in Kinds : other # kind => ItemOf(other)' = ItemOf(other)
           /\ (Len(reply') = Len(reply) /\ \A k \in DOMAIN reply : reply'[k].kind = reply[k].kind)
              => \A other \in Kinds : ItemOf(other)' = ItemOf(other)
<1>1. DOMAIN reply = 1..Len(reply) /\ DOMAIN reply' = 1..Len(reply') /\ Len(reply) \in Nat
  BY DEF Items
<1>2. ASSUME Len(reply') = Len(reply) + 1, reply'[Len(reply) + 1].kind = kind,
             \A k \in DOMAIN reply : reply'[k] = reply[k]
      PROVE  /\ ItemOf(kind)' = ItemOf(kind) \cup {Len(reply) + 1}
             /\ \A other \in Kinds : other # kind => ItemOf(other)' = ItemOf(other)
  <2>1. DOMAIN reply' = DOMAIN reply \cup {Len(reply) + 1}
    BY <1>1, <1>2
  <2> QED BY <1>2, <2>1 DEF ItemOf
<1>3. ASSUME Len(reply') = Len(reply), \A k \in DOMAIN reply : reply'[k].kind = reply[k].kind
      PROVE  \A other \in Kinds : ItemOf(other)' = ItemOf(other)
  BY <1>1, <1>3 DEF ItemOf
<1> QED BY <1>2, <1>3

\* What the actions of a decoder that is replying find
LEMMA CompletionsReplying ==
    ASSUME IInv, outcome = "none", dec.api = "completions"
    PROVE  /\ TypeInv /\ TextInv /\ Same /\ CompletionsFiled
           /\ reply \in Items /\ blocks \in Messages /\ said \in Nat /\ view \in Views
           /\ Len(blocks) = Len(reply) /\ DOMAIN blocks = DOMAIN reply
           /\ dec \in CompletionsDecoder
           /\ Shows(view, blocks, DOMAIN blocks)
           /\ stage # "idle"
           /\ dec.finished <=> stage = "complete"
<1>1. TypeInv /\ TextInv /\ IdleInv /\ CompletionsInv
  BY DEF IInv
<1>2. Same /\ CompletionsFiled /\ Shows(view, blocks, DOMAIN blocks) /\ (dec.finished <=> stage = "complete")
  BY <1>1 DEF CompletionsInv, Done
<1>3. reply \in Items /\ blocks \in Messages /\ said \in Nat /\ view \in Views /\ dec \in CompletionsDecoder
  BY <1>1, DecoderOf DEF TypeInv
<1>4. Len(blocks) = Len(reply) /\ DOMAIN blocks = DOMAIN reply
  BY <1>2, <1>3 DEF Same, Items, Messages
<1>5. stage # "idle"
  BY <1>1 DEF IdleInv
<1> QED BY <1>1, <1>2, <1>3, <1>4, <1>5

\* ... and what is left to show of one that is still replying
LEMMA CompletionsGoesOn ==
    ASSUME IInv, Replying, dec.api = "completions", dec' \in CompletionsDecoder, dec'.finished = dec.finished,
           UNCHANGED <<labelled, stage, outcome>>,
           reply' \in Items, blocks' \in Messages, said' \in Nat, view' \in Views,
           TextInv', Same', CompletionsFiled', Shows(view', blocks', DOMAIN blocks')
    PROVE  IInv'
<1>1. stage = "replying" /\ outcome = "none" /\ stage' = "replying" /\ outcome' = "none" /\ labelled' = labelled
  BY DEF Replying
<1>2. TypeInv /\ (dec.finished <=> stage = "complete")
  BY <1>1, CompletionsReplying
<1>3. dec' \in Decoders /\ dec'.api = "completions"
  BY DEF Decoders, CompletionsDecoder
<1>4. TypeInv'
  BY <1>1, <1>2, <1>3 DEF TypeInv
<1>5. IdleInv' /\ AnthropicInv' /\ ResponsesInv' /\ GoogleInv'
  BY <1>1, <1>3 DEF IdleInv, AnthropicInv, ResponsesInv, GoogleInv
<1>6. CompletionsInv'
  BY <1>1, <1>2 DEF CompletionsInv, Done
<1> QED BY <1>4, <1>5, <1>6 DEF IInv

\* A chunk of text or of reasoning
LEMMA CompletionsTextKeeps ==
    ASSUME IInv, NEW kind \in {"text", "thinking"}, CompletionsText(kind)
    PROVE  IInv'
<1> DEFINE chunk == <<said + 1>>
           n == Len(reply) + 1
<1>1. /\ Replying /\ outcome = "none" /\ dec.api = "completions" /\ said' = said + 1
      /\ UNCHANGED <<labelled, stage, outcome>>
      /\ dec' = [dec EXCEPT ![kind] = At(dec[kind])]
      /\ blocks' = Grown(kind, dec[kind], chunk)
      /\ view' = FoldLeft(Shown, view, Told(kind, dec[kind], chunk))
  BY DEF CompletionsText, Replying, MayWrite, Api, Push
<1>2. /\ TypeInv /\ TextInv /\ Same /\ CompletionsFiled
      /\ reply \in Items /\ blocks \in Messages /\ said \in Nat /\ view \in Views
      /\ Len(blocks) = Len(reply) /\ DOMAIN blocks = DOMAIN reply
      /\ dec \in CompletionsDecoder /\ Shows(view, blocks, DOMAIN blocks)
  BY <1>1, CompletionsReplying
<1>3. kind \in Kinds \ {"native"} /\ kind \in Kinds /\ kind # "call" /\ Len(reply) \in Nat
  BY <1>2 DEF Kinds, Items
<1>4. ItemOf(kind) = IF dec[kind] = 0 THEN {} ELSE {dec[kind]}
  BY <1>2 DEF CompletionsFiled
<1>5. CASE dec[kind] = 0
  <2>1. /\ reply' = Append(reply, [kind |-> kind, open |-> FALSE, text |-> chunk])
        /\ blocks' = Extend(NewBlock(kind), Len(blocks) + 1, chunk)
        /\ At(dec[kind]) = n
        /\ Told(kind, dec[kind], chunk)
             = Append(<<Opened(kind, Len(blocks) + 1)>>, Delta(kind, Len(blocks) + 1, chunk))
    BY <1>1, <1>2, <1>4, <1>5 DEF CompletionsText, At, Grown, Told
  <2>2. /\ reply' \in Items /\ blocks' \in Messages /\ said' \in Nat /\ Same' /\ TextInv'
        /\ Len(reply') = n /\ reply'[n].kind = kind /\ \A k \in DOMAIN reply : reply'[k] = reply[k]
        /\ LET w == Shown(Shown(view, Opened(kind, Len(blocks) + 1)), Delta(kind, Len(blocks) + 1, chunk)) IN
           w \in Views /\ Shows(w, blocks', DOMAIN blocks \cup {Len(blocks) + 1})
    BY <1>1, <1>2, <1>3, <2>1, AddsBoth
  <2>3. view' = Shown(Shown(view, Opened(kind, Len(blocks) + 1)), Delta(kind, Len(blocks) + 1, chunk))
    <3> DEFINE e == Opened(kind, Len(blocks) + 1)
               d == Delta(kind, Len(blocks) + 1, chunk)
    <3>s. <<e>> \in Seq({e})
      OBVIOUS
    <3>t. Told(kind, dec[kind], chunk) = Append(<<e>>, d)
      BY <2>1
    <3>1. view' = FoldLeft(Shown, view, Append(<<e>>, d)) /\ <<e>> \in Seq({e})
      BY <1>1, <3>s, <3>t, Zenon
    <3> HIDE DEF e, d
    <3>2. FoldLeft(Shown, view, Append(<<e>>, d)) = Shown(FoldLeft(Shown, view, <<e>>), d)
      BY <3>1, PushedAppend
    <3> QED BY <3>1, <3>2, PushedOne DEF e, d
  <2>4. DOMAIN blocks' = DOMAIN blocks \cup {Len(blocks) + 1}
    BY <1>2, <2>2 DEF Messages, Same
  <2>5. view' \in Views /\ Shows(view', blocks', DOMAIN blocks')
    BY <2>2, <2>3, <2>4
  <2>6. ItemOf(kind)' = {n} /\ \A other \in Kinds : other # kind => ItemOf(other)' = ItemOf(other)
    BY <1>2, <1>3, <1>4, <1>5, <2>2, ItemOfGrows
  <2>7. dec' \in CompletionsDecoder /\ dec'.finished = dec.finished /\ dec'[kind] = n /\ n # 0
        /\ dec'.byIndex = dec.byIndex /\ dec'.byId = dec.byId
        /\ (kind = "text" => dec'.thinking = dec.thinking) /\ (kind = "thinking" => dec'.text = dec.text)
    <3>1. n \in Nat /\ n # 0 /\ dec' = [dec EXCEPT ![kind] = n]
      BY <1>1, <1>3, <2>1
    <3>2. CASE kind = "text"
      BY <1>2, <3>1, <3>2 DEF CompletionsDecoder
    <3>3. CASE kind = "thinking"
      BY <1>2, <3>1, <3>3 DEF CompletionsDecoder
    <3> QED BY <3>2, <3>3
  <2>8. ItemOf("call")' = ItemOf("call")
        /\ (kind = "text" => ItemOf("thinking")' = ItemOf("thinking"))
        /\ (kind = "thinking" => ItemOf("text")' = ItemOf("text"))
    BY <2>6 DEF Kinds
  <2>9. CompletionsFiled'
    <3>1. ItemOf("text")' = IF dec'.text = 0 THEN {} ELSE {dec'.text}
      BY <1>2, <2>6, <2>7, <2>8 DEF CompletionsFiled
    <3>2. ItemOf("thinking")' = IF dec'.thinking = 0 THEN {} ELSE {dec'.thinking}
      BY <1>2, <2>6, <2>7, <2>8 DEF CompletionsFiled
    <3>3. CallTable(dec.byIndex)' /\ CallTable(dec.byId)'
      BY <1>2, <2>7, <2>8 DEF CompletionsFiled, CallTable
    <3>4. ItemOf("call")' \subseteq DOMAIN (IF labelled' THEN dec'.byIndex ELSE dec'.byId)
      BY <1>1, <1>2, <2>7, <2>8 DEF CompletionsFiled
    <3> QED BY <3>1, <3>2, <3>3, <3>4 DEF CompletionsFiled
  <2> QED BY <1>1, <2>2, <2>5, <2>7, <2>9, CompletionsGoesOn
<1>6. CASE dec[kind] # 0
  <2> DEFINE k == dec[kind]
  <2>1. ItemOf(kind) = {k} /\ k \in DOMAIN reply /\ reply[k].kind = kind
    BY <1>4, <1>6 DEF ItemOf
  <2>2. (CHOOSE l \in ItemOf(kind) : TRUE) = k
    BY <2>1
  <2>3. /\ reply' = [reply EXCEPT ![k].text = Append(@, said + 1)]
        /\ blocks' = Extend(blocks, k, chunk)
        /\ At(k) = k
        /\ Told(kind, k, chunk) = Append(<<>>, Delta(kind, k, chunk))
    BY <1>1, <1>6, <2>1, <2>2 DEF CompletionsText, At, Grown, Told
  <2>4. k \in DOMAIN blocks
    BY <1>2, <2>1
  <2>5. view' = Shown(view, Delta(reply[k].kind, k, chunk))
    <3>1. Append(<<>>, Delta(kind, k, chunk)) = <<Delta(kind, k, chunk)>>
      OBVIOUS
    <3> QED BY <1>1, <2>1, <2>3, <3>1, PushedOne
  <2> HIDE DEF k
  <2>6. /\ reply' \in Items /\ blocks' \in Messages /\ said' \in Nat /\ Same' /\ TextInv'
        /\ Len(reply') = Len(reply) /\ \A l \in DOMAIN reply : reply'[l].kind = reply[l].kind
        /\ LET w == Shown(view, Delta(reply[k].kind, k, chunk)) IN
           w \in Views /\ Shows(w, blocks', DOMAIN blocks)
    BY <1>1, <1>2, <2>1, <2>3, <2>4, GrowsBoth
  <2>7. DOMAIN blocks' = DOMAIN blocks
    BY <1>2, <2>6 DEF Messages, Same
  <2>8. view' \in Views /\ Shows(view', blocks', DOMAIN blocks')
    BY <2>5, <2>6, <2>7
  <2>9. \A other \in Kinds : ItemOf(other)' = ItemOf(other)
    BY <1>2, <1>3, <2>6, ItemOfGrows
  <2>10. ItemOf("call")' = ItemOf("call") /\ ItemOf("text")' = ItemOf("text")
         /\ ItemOf("thinking")' = ItemOf("thinking")
    BY <2>9 DEF Kinds
  <2>11. dec' = dec
    BY <1>1, <1>2, <2>3 DEF CompletionsDecoder, k
  <2>12. CompletionsFiled'
    BY <1>1, <1>2, <2>10, <2>11 DEF CompletionsFiled, CallTable
  <2> QED BY <1>1, <1>2, <2>6, <2>8, <2>11, <2>12, CompletionsGoesOn
<1> QED BY <1>5, <1>6

\* A table of calls stays one when the call of a chunk is entered
LEMMA CallEntered ==
    ASSUME NEW f \in Tables, NEW k \in Nat, CallTable(f), ItemOf("call")' = ItemOf("call") \cup {k}
    PROVE  /\ CallTable(f)'
           /\ CallTable(With(f, k, k))' /\ With(f, k, k) \in Tables
           /\ DOMAIN With(f, k, k) = DOMAIN f \cup {k}
<1> DEFINE g == With(f, k, k)
<1>1. g \in Tables /\ DOMAIN g = DOMAIN f \cup {k} /\ g[k] = k /\ \A j \in DOMAIN f : j # k => g[j] = f[j]
  BY WithTable
<1> HIDE DEF g
<1>2. CallTable(f)' /\ CallTable(g)'
  BY <1>1 DEF CallTable
<1> QED BY <1>1, <1>2 DEF g

\* The call of a chunk, found by the name the server has used throughout, is the item's
LEMMA CallFound ==
    ASSUME CompletionsFiled, dec \in CompletionsDecoder, reply \in Items,
           NEW k \in Nat \ {0}, NEW names, (IF labelled THEN "index" ELSE "id") \in names,
           k \in DOMAIN reply => reply[k].kind = "call",
           k \in DOMAIN reply \union (IF Len(reply) < MaxItems THEN {Len(reply) + 1} ELSE {})
    PROVE  \/ CallBlock(k, names) = 0 /\ k = Len(reply) + 1 /\ k \notin DOMAIN reply
           \/ CallBlock(k, names) = k /\ k \in ItemOf("call") /\ k \in DOMAIN reply
<1>1. dec.byIndex \in Tables /\ dec.byId \in Tables
  BY DEF CompletionsDecoder
<1>2. /\ CallTable(dec.byIndex) /\ CallTable(dec.byId)
      /\ ItemOf("call") \subseteq DOMAIN (IF labelled THEN dec.byIndex ELSE dec.byId)
  BY DEF CompletionsFiled
<1>3. /\ k \in DOMAIN dec.byIndex => dec.byIndex[k] = k /\ k \in ItemOf("call")
      /\ k \in DOMAIN dec.byId => dec.byId[k] = k /\ k \in ItemOf("call")
  BY <1>2 DEF CallTable
<1>4. k \in ItemOf("call") <=> k \in DOMAIN reply
  BY DEF ItemOf
<1>5. /\ Known(dec.byIndex, k) = IF k \in DOMAIN dec.byIndex THEN k ELSE 0
      /\ Known(dec.byId, k) = IF k \in DOMAIN dec.byId THEN k ELSE 0
  BY <1>3 DEF Known
<1>6. CallBlock(k, names) \in {0, k}
  BY <1>5 DEF CallBlock
<1>7. CASE k \in DOMAIN reply
  <2>1. k \in DOMAIN (IF labelled THEN dec.byIndex ELSE dec.byId)
    BY <1>2, <1>4, <1>7
  <2>2. CASE labelled
    BY <1>4, <1>5, <1>7, <2>1, <2>2 DEF CallBlock
  <2>3. CASE ~labelled
    BY <1>4, <1>5, <1>7, <2>1, <2>3 DEF CallBlock
  <2> QED BY <2>2, <2>3
<1>8. CASE k \notin DOMAIN reply
  <2>1. k \notin DOMAIN dec.byIndex /\ k \notin DOMAIN dec.byId
    BY <1>3, <1>4, <1>8
  <2>2. CallBlock(k, names) = 0
    BY <1>5, <2>1 DEF CallBlock
  <2>3. k = Len(reply) + 1
    BY <1>8
  <2> QED BY <1>8, <2>2, <2>3
<1> QED BY <1>7, <1>8

\* A chunk of a call
LEMMA CompletionsCallKeeps ==
    ASSUME IInv, NEW k \in 1..MaxItems, NEW names, CompletionsCall(k, names)
    PROVE  IInv'
<1> DEFINE chunk == <<said + 1>>
           known == CallBlock(k, names)
<1>1. /\ Replying /\ outcome = "none" /\ dec.api = "completions" /\ said' = said + 1
      /\ UNCHANGED <<labelled, stage, outcome>>
      /\ blocks' = Grown("call", known, chunk)
      /\ view' = FoldLeft(Shown, view, Told("call", known, chunk))
      /\ (IF labelled THEN "index" ELSE "id") \in names
      /\ k \in DOMAIN reply => reply[k].kind = "call"
      /\ k \in DOMAIN reply \union (IF Len(reply) < MaxItems THEN {Len(reply) + 1} ELSE {})
  BY DEF CompletionsCall, Replying, MayWrite, Api, Push
<1>r. reply' = IF k \in DOMAIN reply
              THEN [reply EXCEPT ![k].text = Append(@, said + 1)]
              ELSE Append(reply, [kind |-> "call", open |-> FALSE, text |-> <<said + 1>>])
  BY DEF CompletionsCall
<1>d. dec' = [dec EXCEPT !.byIndex = IF "index" \in names /\ known = 0 THEN With(@, k, At(known)) ELSE @,
                        !.byId = IF "id" \in names THEN With(@, k, At(known)) ELSE @]
  BY DEF CompletionsCall
<1>2. /\ TypeInv /\ TextInv /\ Same /\ CompletionsFiled
      /\ reply \in Items /\ blocks \in Messages /\ said \in Nat /\ view \in Views
      /\ Len(blocks) = Len(reply) /\ DOMAIN blocks = DOMAIN reply
      /\ dec \in CompletionsDecoder /\ Shows(view, blocks, DOMAIN blocks)
  BY <1>1, CompletionsReplying
<1>3. "call" \in Kinds \ {"native"} /\ k \in Nat \ {0} /\ Len(reply) \in Nat
  BY <1>2 DEF Kinds, Items
<1>4. \/ known = 0 /\ k = Len(reply) + 1 /\ k \notin DOMAIN reply
      \/ known = k /\ k \in ItemOf("call") /\ k \in DOMAIN reply
  BY <1>1, <1>2, <1>3, CallFound
<1>t. At(known) = k
  BY <1>2, <1>3, <1>4 DEF At
<1>5. /\ dec.byIndex \in Tables /\ dec.byId \in Tables
      /\ dec'.byIndex = IF "index" \in names /\ known = 0 THEN With(dec.byIndex, k, k) ELSE dec.byIndex
      /\ dec'.byId = IF "id" \in names THEN With(dec.byId, k, k) ELSE dec.byId
      /\ dec'.text = dec.text /\ dec'.thinking = dec.thinking /\ dec'.finished = dec.finished
  <2> HIDE DEF known
  <2> QED BY <1>2, <1>d, <1>t DEF CompletionsDecoder
<1>6. dec' \in CompletionsDecoder
  <2>1. With(dec.byIndex, k, k) \in Tables /\ With(dec.byId, k, k) \in Tables
    BY <1>3, <1>5, WithTable
  <2>2. dec'.byIndex \in Tables /\ dec'.byId \in Tables
    BY <1>5, <2>1
  <2>3. dec' = [dec EXCEPT !.byIndex = dec'.byIndex, !.byId = dec'.byId]
    <3> HIDE DEF known
    <3> QED BY <1>2, <1>5, <1>d, <1>t DEF CompletionsDecoder
  <2> QED BY <1>2, <2>2, <2>3 DEF CompletionsDecoder
<1>7. ASSUME ItemOf("call")' = ItemOf("call") \cup {k}, ItemOf("text")' = ItemOf("text"),
             ItemOf("thinking")' = ItemOf("thinking")
      PROVE  CompletionsFiled'
  <2>1. /\ CallTable(dec.byIndex) /\ CallTable(dec.byId)
        /\ ItemOf("call") \subseteq DOMAIN (IF labelled THEN dec.byIndex ELSE dec.byId)
    BY <1>2 DEF CompletionsFiled
  <2>2. CallTable(dec.byIndex)'
    <3>1. ASSUME NEW f, f \in {dec.byIndex, With(dec.byIndex, k, k)} PROVE CallTable(f)'
      BY <1>3, <1>5, <1>7, <2>1, <3>1, CallEntered
    <3>2. dec'.byIndex \in {dec.byIndex, With(dec.byIndex, k, k)}
      BY <1>5
    <3> QED BY <3>1, <3>2 DEF CallTable
  <2>3. CallTable(dec.byId)'
    <3>1. ASSUME NEW f, f \in {dec.byId, With(dec.byId, k, k)} PROVE CallTable(f)'
      BY <1>3, <1>5, <1>7, <2>1, <3>1, CallEntered
    <3>2. dec'.byId \in {dec.byId, With(dec.byId, k, k)}
      BY <1>5
    <3> QED BY <3>1, <3>2 DEF CallTable
  <2>4. /\ DOMAIN With(dec.byIndex, k, k) = DOMAIN dec.byIndex \cup {k}
        /\ DOMAIN With(dec.byId, k, k) = DOMAIN dec.byId \cup {k}
    BY <1>3, <1>5, WithTable
  <2>5. known # 0 /\ labelled => k \in DOMAIN dec.byIndex
    BY <1>3, <1>4, <2>1
  <2>6. ItemOf("call")' \subseteq DOMAIN (IF labelled' THEN dec'.byIndex ELSE dec'.byId)
    <3> HIDE DEF known
    <3>1. CASE labelled
      BY <1>1, <1>5, <1>7, <2>1, <2>4, <2>5, <3>1
    <3>2. CASE ~labelled
      BY <1>1, <1>5, <1>7, <2>1, <2>4, <3>2
    <3> QED BY <3>1, <3>2
  <2> QED BY <1>2, <1>5, <1>7, <2>2, <2>3, <2>6 DEF CompletionsFiled
<1>8. CASE known = 0
  <2>0. k = Len(reply) + 1 /\ k = Len(blocks) + 1 /\ k \notin DOMAIN reply
    BY <1>2, <1>3, <1>4, <1>8
  <2>1. /\ reply' = Append(reply, [kind |-> "call", open |-> FALSE, text |-> chunk])
        /\ blocks' = Extend(NewBlock("call"), Len(blocks) + 1, chunk)
        /\ Told("call", known, chunk)
             = Append(<<Opened("call", Len(blocks) + 1)>>, Delta("call", Len(blocks) + 1, chunk))
    <3> HIDE DEF known
    <3> QED BY <1>1, <1>r, <1>8, <2>0 DEF At, Grown, Told
  <2>2. /\ reply' \in Items /\ blocks' \in Messages /\ said' \in Nat /\ Same' /\ TextInv'
        /\ Len(reply') = Len(reply) + 1 /\ reply'[Len(reply) + 1].kind = "call"
        /\ \A l \in DOMAIN reply : reply'[l] = reply[l]
        /\ LET w == Shown(Shown(view, Opened("call", Len(blocks) + 1)), Delta("call", Len(blocks) + 1, chunk)) IN
           w \in Views /\ Shows(w, blocks', DOMAIN blocks \cup {Len(blocks) + 1})
    BY <1>1, <1>2, <1>3, <2>1, AddsBoth
  <2>3. view' = Shown(Shown(view, Opened("call", Len(blocks) + 1)), Delta("call", Len(blocks) + 1, chunk))
    <3> DEFINE e == Opened("call", Len(blocks) + 1)
               d == Delta("call", Len(blocks) + 1, chunk)
    <3>s. <<e>> \in Seq({e})
      OBVIOUS
    <3>t. Told("call", known, chunk) = Append(<<e>>, d)
      BY <2>1
    <3>1. view' = FoldLeft(Shown, view, Append(<<e>>, d)) /\ <<e>> \in Seq({e})
      BY <1>1, <3>s, <3>t, Zenon
    <3> HIDE DEF e, d
    <3>2. FoldLeft(Shown, view, Append(<<e>>, d)) = Shown(FoldLeft(Shown, view, <<e>>), d)
      BY <3>1, PushedAppend
    <3> QED BY <3>1, <3>2, PushedOne DEF e, d
  <2>4. DOMAIN blocks' = DOMAIN blocks \cup {Len(blocks) + 1}
    BY <1>2, <2>2 DEF Messages, Same
  <2>5. view' \in Views /\ Shows(view', blocks', DOMAIN blocks')
    BY <2>2, <2>3, <2>4
  <2>6. ItemOf("call")' = ItemOf("call") \cup {k}
        /\ \A other \in Kinds : other # "call" => ItemOf(other)' = ItemOf(other)
    BY <1>2, <1>3, <2>0, <2>2, ItemOfGrows
  <2>7. ItemOf("text")' = ItemOf("text") /\ ItemOf("thinking")' = ItemOf("thinking")
    BY <2>6 DEF Kinds
  <2> QED BY <1>1, <1>5, <1>6, <1>7, <2>2, <2>5, <2>6, <2>7, CompletionsGoesOn
<1>9. CASE known # 0
  <2>1. known = k /\ k \in DOMAIN reply /\ reply[k].kind = "call" /\ k \in DOMAIN blocks /\ k \in ItemOf("call")
    BY <1>1, <1>2, <1>4, <1>9
  <2>3. /\ reply' = [reply EXCEPT ![k].text = Append(@, said + 1)]
        /\ blocks' = Extend(blocks, k, chunk)
        /\ Told("call", known, chunk) = Append(<<>>, Delta("call", k, chunk))
    <3> HIDE DEF known
    <3> QED BY <1>1, <1>3, <1>r, <1>t, <2>1 DEF Grown, Told
  <2>5. view' = Shown(view, Delta(reply[k].kind, k, chunk))
    <3>1. Append(<<>>, Delta("call", k, chunk)) = <<Delta("call", k, chunk)>>
      OBVIOUS
    <3> QED BY <1>1, <2>1, <2>3, <3>1, PushedOne
  <2>6. /\ reply' \in Items /\ blocks' \in Messages /\ said' \in Nat /\ Same' /\ TextInv'
        /\ Len(reply') = Len(reply) /\ \A l \in DOMAIN reply : reply'[l].kind = reply[l].kind
        /\ LET w == Shown(view, Delta(reply[k].kind, k, chunk)) IN
           w \in Views /\ Shows(w, blocks', DOMAIN blocks)
    BY <1>1, <1>2, <2>1, <2>3, GrowsBoth
  <2>7. DOMAIN blocks' = DOMAIN blocks
    BY <1>2, <2>6 DEF Messages, Same
  <2>8. view' \in Views /\ Shows(view', blocks', DOMAIN blocks')
    BY <2>5, <2>6, <2>7
  <2>9. "call" \in Kinds /\ \A other \in Kinds : ItemOf(other)' = ItemOf(other)
    BY <1>2, <1>3, <2>6, ItemOfGrows
  <2>10. ItemOf("call")' = ItemOf("call") \cup {k} /\ ItemOf("text")' = ItemOf("text")
         /\ ItemOf("thinking")' = ItemOf("thinking")
    BY <2>1, <2>9 DEF Kinds
  <2> QED BY <1>1, <1>5, <1>6, <1>7, <2>6, <2>8, <2>10, CompletionsGoesOn
<1> QED BY <1>8, <1>9

\* The server finishes
LEMMA CompletionsFinishKeeps ==
    ASSUME IInv, CompletionsFinish
    PROVE  IInv'
<1>1. /\ Replying /\ stage = "replying" /\ outcome = "none" /\ dec.api = "completions"
      /\ dec' = [dec EXCEPT !.finished = TRUE] /\ stage' = "complete"
      /\ UNCHANGED <<labelled, reply, said, blocks, view, outcome>>
  BY DEF CompletionsFinish, Complete, Replying, Api
<1>2. /\ TypeInv /\ TextInv /\ Same /\ CompletionsFiled
      /\ dec \in CompletionsDecoder /\ Shows(view, blocks, DOMAIN blocks)
  BY <1>1, CompletionsReplying
<1>3. dec' \in CompletionsDecoder /\ dec'.api = "completions" /\ dec'.finished
      /\ dec'.text = dec.text /\ dec'.thinking = dec.thinking /\ dec'.byIndex = dec.byIndex
      /\ dec'.byId = dec.byId
  BY <1>1, <1>2 DEF CompletionsDecoder
<1>4. TypeInv'
  <2>1. dec' \in Decoders
    BY <1>3 DEF Decoders, CompletionsDecoder
  <2> QED BY <1>1, <1>2, <2>1 DEF TypeInv
<1>5. IdleInv' /\ AnthropicInv' /\ ResponsesInv' /\ GoogleInv'
  BY <1>1, <1>3 DEF IdleInv, AnthropicInv, ResponsesInv, GoogleInv
<1>6. TextInv' /\ Same'
  BY <1>1, <1>2 DEF TextInv, Same
<1>7. CompletionsFiled'
  BY <1>1, <1>2, <1>3 DEF CompletionsFiled, CallTable, ItemOf
<1>8. CompletionsInv'
  BY <1>1, <1>2, <1>3, <1>6, <1>7 DEF CompletionsInv, Done
<1> QED BY <1>4, <1>5, <1>6, <1>8 DEF IInv

-----------------------------------------------------------------------------
(* Starts and ends.                                                         *)

\* An ending changes the outcome and what has been shown, and nothing else
LEMMA EndingKeeps ==
    ASSUME IInv, stage # "idle", outcome' \in {"done", "error"}, view' \in Views,
           UNCHANGED <<labelled, reply, said, stage, blocks, dec>>
    PROVE  TypeInv' /\ TextInv' /\ IdleInv'
<1>1. TypeInv /\ TextInv /\ IdleInv
  BY DEF IInv
<1>2. TypeInv'
  BY <1>1 DEF TypeInv
<1>3. TextInv'
  BY <1>1 DEF TextInv
<1>4. IdleInv'
  BY <1>1 DEF IdleInv
<1> QED BY <1>2, <1>3, <1>4

\* What the items and the blocks have in common is unchanged with them
LEMMA NothingMoves ==
    ASSUME UNCHANGED <<labelled, reply, said, stage, blocks, dec>>
    PROVE  /\ Same' <=> Same
           /\ CompletionsFiled' <=> CompletionsFiled
           /\ Places' = Places /\ Blocked' = Blocked /\ OpenItems' = OpenItems
           /\ \A f : (Placed(f)' <=> Placed(f)) /\ Open(f)' = Open(f)
           /\ \A kind : ItemOf(kind)' = ItemOf(kind)
<1>1. Same' <=> Same
  BY DEF Same
<1>2. \A kind : ItemOf(kind)' = ItemOf(kind)
  BY DEF ItemOf
<1>3. CompletionsFiled' <=> CompletionsFiled
  BY <1>2 DEF CompletionsFiled, CallTable
<1>4. Blocked' = Blocked /\ OpenItems' = OpenItems
  BY DEF Blocked, OpenItems
<1>5. Places' = Places
  BY <1>4 DEF Places
<1>6. \A f : (Placed(f)' <=> Placed(f)) /\ Open(f)' = Open(f)
  BY <1>4, <1>5 DEF Placed, Open
<1> QED BY <1>1, <1>2, <1>3, <1>4, <1>5, <1>6

\* An error is all that changes
LEMMA ErrorKeeps ==
    ASSUME IInv, outcome = "none", outcome' = "error",
           UNCHANGED <<labelled, reply, said, stage, blocks, dec, view>>
    PROVE  IInv'
<1>1. /\ TypeInv /\ TextInv /\ IdleInv
      /\ CompletionsInv /\ AnthropicInv /\ ResponsesInv /\ GoogleInv
  BY DEF IInv
<1>2. TypeInv' /\ TextInv' /\ IdleInv'
  <2>1. TypeInv'
    BY <1>1 DEF TypeInv
  <2>2. TextInv'
    BY <1>1 DEF TextInv
  <2>3. IdleInv'
    BY <1>1 DEF IdleInv
  <2> QED BY <2>1, <2>2, <2>3
<1>3. ~Done /\ ~Done'
  BY DEF Done
<1>4. CompletionsInv'
  BY <1>1, <1>3, NothingMoves DEF CompletionsInv
<1>5. AnthropicInv'
  BY <1>1, <1>3, NothingMoves DEF AnthropicInv, NativeInv
<1>6. ResponsesInv'
  <2>1. SUFFICES ASSUME dec.api = "responses" PROVE ResponsesInv'
    BY DEF ResponsesInv
  <2>2. PICK f \in Places : ResponsesFiled(f)
    BY <1>1, <2>1 DEF ResponsesInv
  <2>3. ResponsesFiled(f)'
    BY <2>2, NothingMoves DEF ResponsesFiled
  <2>4. f \in Places'
    BY <2>2, NothingMoves
  <2> QED BY <1>1, <2>1, <2>3, <2>4, NothingMoves DEF ResponsesInv, NativeInv, NativeCalled, OneAtATime
<1>7. GoogleInv'
  BY <1>1, <1>3, NothingMoves DEF GoogleInv
<1> QED BY <1>2, <1>4, <1>5, <1>6, <1>7 DEF IInv

\* The request fails, or the connection breaks
LEMMA FailureKeeps ==
    ASSUME IInv, Refused \/ Breaks
    PROVE  IInv'
BY ErrorKeeps DEF Refused, Breaks

\* Before a request there is nothing
LEMMA NothingYet ==
    ASSUME IInv, stage = "idle"
    PROVE  /\ reply = <<>> /\ blocks = <<>> /\ dec = [api |-> "none"] /\ outcome # "done"
           /\ view.legal /\ view.blocks = <<>> /\ view.native = <<>>
           /\ \A kind : ItemOf(kind) = {}
           /\ OpenItems = {} /\ Blocked = {} /\ <<>> \in Places
           /\ Placed(<<>>) /\ Open(<<>>) = {} /\ Same
<1>1. TypeInv /\ IdleInv
  BY DEF IInv
<1>2. /\ reply = <<>> /\ blocks = <<>> /\ dec = [api |-> "none"] /\ outcome # "done"
      /\ view.legal /\ view.blocks = <<>> /\ view.native = <<>>
  BY <1>1, DecoderOf DEF IdleInv
<1>3. \A kind : ItemOf(kind) = {}
  BY <1>2 DEF ItemOf
<1>4. OpenItems = {} /\ Blocked = {}
  BY <1>2 DEF OpenItems, Blocked
<1>5. <<>> \in [Blocked -> DOMAIN blocks]
  BY <1>4
<1>6. <<>> \in Places
  BY <1>2, <1>4, <1>5 DEF Places
<1>7. Placed(<<>>) /\ Open(<<>>) = {}
  BY <1>4, <1>6 DEF Placed, Open
<1>8. Same
  BY <1>2 DEF Same
<1> QED BY <1>2, <1>3, <1>4, <1>6, <1>7, <1>8

\* A request is accepted
LEMMA StartKeeps ==
    ASSUME IInv, NEW d \in States, StartsWith(d)
    PROVE  IInv'
<1>1. /\ stage = "idle" /\ outcome = "none" /\ stage' = "replying" /\ dec' = d
      /\ UNCHANGED <<labelled, reply, said, blocks, view, outcome>>
  BY DEF StartsWith, Start
<1>2. /\ reply = <<>> /\ blocks = <<>>
      /\ view.legal /\ view.blocks = <<>> /\ view.native = <<>>
      /\ \A kind : ItemOf(kind) = {}
      /\ OpenItems = {} /\ Blocked = {} /\ <<>> \in Places
      /\ Placed(<<>>) /\ Open(<<>>) = {} /\ Same
  BY <1>1, NothingYet
<1>3. TypeInv /\ TextInv
  BY DEF IInv
<1>4. <<>> \in Tables /\ DOMAIN <<>> = {}
  <2>1. <<>> \in [{} -> Nat]
    OBVIOUS
  <2> QED BY <2>1 DEF Tables
<1>5. d.api # "none" /\ d \in Decoders
  <2> DEFINE none == <<>>
  <2>0. none \in Tables
    BY <1>4
  <2>1. /\ CompletionsState = [api |-> "completions", text |-> 0, thinking |-> 0,
                              byIndex |-> none, byId |-> none, finished |-> FALSE]
        /\ ResponsesState = [api |-> "responses", current |-> 0, byItem |-> none]
        /\ AnthropicState = [api |-> "anthropic", started |-> FALSE, stopped |-> FALSE, byIndex |-> none]
        /\ GoogleState = [api |-> "google", current |-> 0]
    BY DEF CompletionsState, ResponsesState, AnthropicState, GoogleState
  <2> HIDE DEF none
  <2>2. \A s \in States : s.api # "none"
    BY <2>1 DEF States
  <2>3. CompletionsState \in Decoders
    BY <2>0, <2>1 DEF Decoders
  <2>4. ResponsesState \in Decoders
    BY <2>0, <2>1 DEF Decoders
  <2>5. AnthropicState \in Decoders
    BY <2>0, <2>1 DEF Decoders
  <2>6. GoogleState \in Decoders
    BY <2>1 DEF Decoders
  <2> QED BY <2>2, <2>3, <2>4, <2>5, <2>6 DEF States
<1>6. TypeInv' /\ TextInv' /\ IdleInv'
  BY <1>1, <1>3, <1>5 DEF TypeInv, TextInv, IdleInv
<1>m. /\ Places' = Places /\ Blocked' = Blocked /\ OpenItems' = OpenItems
      /\ Placed(<<>>)' /\ Open(<<>>)' = {} /\ Same' /\ \A kind : ItemOf(kind)' = {}
  <2>1. Blocked' = Blocked /\ OpenItems' = OpenItems
    BY <1>1 DEF Blocked, OpenItems
  <2>2. Places' = Places
    BY <1>1, <2>1 DEF Places
  <2>3. Placed(<<>>)' /\ Open(<<>>)' = {}
    BY <1>1, <1>2, <2>1, <2>2 DEF Placed, Open
  <2>4. Same' /\ \A kind : ItemOf(kind)' = {}
    BY <1>1, <1>2 DEF Same, ItemOf
  <2> QED BY <2>1, <2>2, <2>3, <2>4
<1>s. \A open : Shows(view', blocks', open)
  BY <1>1, <1>2 DEF Shows
<1>n. NativeInv'
  BY <1>1, <1>2, <1>4, <1>m DEF NativeInv
<1>7. CompletionsInv'
  <2>1. SUFFICES ASSUME d.api = "completions" PROVE CompletionsInv'
    BY <1>1 DEF CompletionsInv
  <2>2. d = CompletionsState
    BY <2>1 DEF States, CompletionsState, ResponsesState, AnthropicState, GoogleState
  <2>3. CompletionsFiled'
    BY <1>1, <1>4, <1>m, <2>2 DEF CompletionsFiled, CallTable, CompletionsState
  <2> QED BY <1>1, <1>m, <1>s, <2>2, <2>3 DEF CompletionsInv, CompletionsState, Done
<1>8. AnthropicInv'
  <2>1. SUFFICES ASSUME d.api = "anthropic" PROVE AnthropicInv'
    BY <1>1 DEF AnthropicInv
  <2>2. d = AnthropicState
    BY <2>1 DEF States, CompletionsState, ResponsesState, AnthropicState, GoogleState
  <2>3. Placed(dec.byIndex)' /\ Open(dec.byIndex)' = {} /\ d.byIndex = <<>>
    BY <1>1, <1>m, <2>2 DEF Placed, Open, AnthropicState
  <2> QED BY <1>1, <1>2, <1>m, <1>s, <1>n, <2>2, <2>3 DEF AnthropicInv, AnthropicState, Done
<1>9. ResponsesInv'
  <2>1. SUFFICES ASSUME d.api = "responses" PROVE ResponsesInv'
    BY <1>1 DEF ResponsesInv
  <2>2. d = ResponsesState
    BY <2>1 DEF States, CompletionsState, ResponsesState, AnthropicState, GoogleState
  <2>3. ResponsesFiled(<<>>)'
    BY <1>1, <1>2, <1>m, <1>s, <2>2 DEF ResponsesFiled, ResponsesState
  <2> QED BY <1>1, <1>2, <1>m, <1>n, <2>3 DEF ResponsesInv, NativeCalled, OneAtATime
<1>10. GoogleInv'
  <2>1. SUFFICES ASSUME d.api = "google" PROVE GoogleInv'
    BY <1>1 DEF GoogleInv
  <2>2. d = GoogleState
    BY <2>1 DEF States, CompletionsState, ResponsesState, AnthropicState, GoogleState
  <2> QED BY <1>1, <1>2, <1>m, <1>s, <2>2 DEF GoogleInv, GoogleState
<1> QED BY <1>6, <1>7, <1>8, <1>9, <1>10 DEF IInv

\* A body of completions ends: all the blocks end, or it is an error
LEMMA CompletionsEndKeeps ==
    ASSUME IInv, CompletionsEnd
    PROVE  IInv'
<1>1. /\ outcome = "none" /\ dec.api = "completions"
      /\ outcome' = IF dec.finished THEN "done" ELSE "error"
      /\ view' = IF dec.finished THEN FoldLeft(Shown, view, Ends([i \in DOMAIN blocks |-> i])) ELSE view
      /\ UNCHANGED <<labelled, reply, said, stage, blocks, dec>>
  BY DEF CompletionsEnd, BodyEnds, Push, Api
<1>2. CASE ~dec.finished
  BY <1>1, <1>2, ErrorKeeps
<1>3. CASE dec.finished
  <2>1. /\ TypeInv /\ Same /\ CompletionsFiled /\ blocks \in Messages /\ view \in Views
        /\ Shows(view, blocks, DOMAIN blocks) /\ stage # "idle" /\ (dec.finished <=> stage = "complete")
    BY <1>1, CompletionsReplying
  <2> DEFINE q == Ends([i \in DOMAIN blocks |-> i])
  <2>2. DOMAIN q = DOMAIN blocks /\ \A i \in DOMAIN blocks : q[i] = Closed(blocks[i].kind, i, blocks[i].text)
    BY DEF Ends
  <2>3. view' = FoldLeft(Shown, view, q) /\ outcome' = "done"
    BY <1>1, <1>3
  <2> HIDE DEF q
  <2>4. view' \in Views /\ Shows(view', blocks, {})
    BY <2>1, <2>2, <2>3, ShowsEndOfAll
  <2>5. TypeInv' /\ TextInv' /\ IdleInv'
    BY <1>1, <2>1, <2>3, <2>4, EndingKeeps
  <2>6. AnthropicInv' /\ ResponsesInv' /\ GoogleInv'
    BY <1>1 DEF AnthropicInv, ResponsesInv, GoogleInv
  <2>7. CompletionsInv'
    BY <1>1, <1>3, <2>1, <2>3, <2>4, NothingMoves DEF CompletionsInv, Done
  <2> QED BY <2>5, <2>6, <2>7 DEF IInv
<1> QED BY <1>2, <1>3

-----------------------------------------------------------------------------
(* Google.                                                                  *)

\* What the actions of a decoder that is replying find
LEMMA GoogleReplying ==
    ASSUME IInv, outcome = "none", dec.api = "google"
    PROVE  /\ TypeInv /\ TextInv /\ Same
           /\ reply \in Items /\ blocks \in Messages /\ said \in Nat /\ view \in Views
           /\ Len(blocks) = Len(reply) /\ DOMAIN blocks = DOMAIN reply /\ DOMAIN reply = 1..Len(reply)
           /\ Len(reply) \in Nat
           /\ dec \in [api : {"google"}, current : Nat] /\ dec.current \in {0, Len(blocks)}
           /\ Shows(view, blocks, IF dec.current = 0 THEN {} ELSE {dec.current})
           /\ Len(reply) # 0 => (dec.current = 0 <=> reply[Len(reply)].kind = "call")
           /\ stage # "idle"
<1>1. TypeInv /\ TextInv /\ IdleInv /\ GoogleInv
  BY DEF IInv
<1>2. /\ Same /\ Shows(view, blocks, IF dec.current = 0 THEN {} ELSE {dec.current})
      /\ dec.current \in {0, Len(blocks)}
      /\ \A k \in DOMAIN reply : k = Len(reply) => (dec.current = 0 <=> reply[k].kind = "call")
  BY <1>1 DEF GoogleInv, Done
<1>3. reply \in Items /\ blocks \in Messages /\ said \in Nat /\ view \in Views
      /\ dec \in [api : {"google"}, current : Nat]
  BY <1>1, DecoderOf DEF TypeInv
<1>4. Len(blocks) = Len(reply) /\ DOMAIN blocks = DOMAIN reply /\ DOMAIN reply = 1..Len(reply) /\ Len(reply) \in Nat
  BY <1>2, <1>3 DEF Same, Items, Messages
<1>5. stage # "idle"
  BY <1>1 DEF IdleInv
<1>6. Len(reply) # 0 => Len(reply) \in DOMAIN reply
  BY <1>4
<1> QED BY <1>1, <1>2, <1>3, <1>4, <1>5, <1>6

\* ... and what is left to show of one that is still replying
LEMMA GoogleGoesOn ==
    ASSUME IInv, Replying, dec.api = "google", NEW current \in Nat,
           dec' = [dec EXCEPT !.current = current], current \in {0, Len(blocks')},
           UNCHANGED <<labelled, stage, outcome>>,
           reply' \in Items, blocks' \in Messages, said' \in Nat, view' \in Views,
           TextInv', Same', Shows(view', blocks', IF current = 0 THEN {} ELSE {current}),
           current = 0 <=> reply'[Len(reply')].kind = "call"
    PROVE  IInv'
<1>1. stage = "replying" /\ outcome = "none" /\ stage' = "replying" /\ outcome' = "none" /\ labelled' = labelled
  BY DEF Replying
<1>2. TypeInv /\ dec \in [api : {"google"}, current : Nat]
  BY <1>1, GoogleReplying
<1>3. dec' \in [api : {"google"}, current : Nat] /\ dec'.current = current /\ dec'.api = "google"
  BY <1>2
<1>4. TypeInv'
  <2>1. dec' \in Decoders
    BY <1>3 DEF Decoders
  <2> QED BY <1>1, <1>2, <2>1 DEF TypeInv
<1>5. IdleInv' /\ AnthropicInv' /\ ResponsesInv' /\ CompletionsInv'
  BY <1>1, <1>3 DEF IdleInv, AnthropicInv, ResponsesInv, CompletionsInv
<1>6. GoogleInv'
  BY <1>1, <1>3 DEF GoogleInv, Done
<1> QED BY <1>4, <1>5, <1>6 DEF IInv

\* The end of the current block, if there is one, leaves no block open
LEMMA CurrentEnded ==
    ASSUME blocks \in Messages, view \in Views, dec.current \in {0, Len(blocks)},
           Shows(view, blocks, IF dec.current = 0 THEN {} ELSE {dec.current})
    PROVE  LET u == FoldLeft(Shown, view, CurrentEnds) IN
           /\ u \in Views /\ u.native = view.native /\ Shows(u, blocks, {})
           /\ \E S : CurrentEnds \in Seq(S)
<1> DEFINE c == dec.current
           e == Closed(blocks[c].kind, c, blocks[c].text)
<1>1. CASE c = 0
  <2>1. CurrentEnds = <<>>
    <3>1. Current = <<>> /\ DOMAIN <<>> = {}
      BY <1>1 DEF Current
    <3>2. \A q : DOMAIN q = {} => Ends(q) = <<>>
      <4>1. SUFFICES ASSUME NEW q, DOMAIN q = {} PROVE Ends(q) = <<>>
        OBVIOUS
      <4>2. DOMAIN Ends(q) = {} /\ Ends(q) = [i \in {} |-> Ends(q)[i]]
        BY <4>1 DEF Ends
      <4> QED BY <4>2
    <3> QED BY <3>1, <3>2 DEF CurrentEnds
  <2>2. <<>> \in Seq({})
    OBVIOUS
  <2> QED BY <1>1, <2>1, <2>2, PushedNone
<1>2. CASE c # 0
  <2>1. CurrentEnds = <<e>>
    <3>1. Current = <<c>>
      BY <1>2 DEF Current
    <3>2. Ends(<<c>>) = [i \in 1..1 |-> e]
      BY DEF Ends
    <3>3. <<e>> = [i \in 1..1 |-> e]
      OBVIOUS
    <3> QED BY <3>1, <3>2, <3>3 DEF CurrentEnds
  <2>2. <<e>> \in Seq({e})
    OBVIOUS
  <2>3. c \in {c} \cap DOMAIN blocks
    BY <1>2 DEF Messages
  <2>4. Shows(view, blocks, {c})
    BY <1>2
  <2>5. LET w == Shown(view, e) IN w \in Views /\ w.native = view.native /\ Shows(w, blocks, {c} \ {c})
    <3> DEFINE open == {c}
    <3>1. c \in open \cap DOMAIN blocks /\ Shows(view, blocks, open)
      BY <2>3, <2>4
    <3> HIDE DEF c, open
    <3>2. LET w == Shown(view, e) IN w \in Views /\ w.native = view.native /\ Shows(w, blocks, open \ {c})
      BY <3>1, ShowsEndAsIs
    <3> QED BY <3>2 DEF open
  <2>6. {c} \ {c} = {}
    OBVIOUS
  <2> HIDE DEF e
  <2>7. LET w == Shown(view, e) IN w \in Views /\ w.native = view.native /\ Shows(w, blocks, {})
    BY <2>5, <2>6
  <2>8. FoldLeft(Shown, view, CurrentEnds) = Shown(view, e)
    BY <2>1, PushedOne
  <2> QED BY <2>1, <2>2, <2>7, <2>8
<1> QED BY <1>1, <1>2

\* What a new block, its first chunk and the end of the one before show
LEMMA GoogleBegins ==
    ASSUME IInv, outcome = "none", dec.api = "google", NEW kind \in Kinds \ {"native"},
           said' = said + 1,
           reply' = Append(reply, [kind |-> kind, open |-> FALSE, text |-> <<said + 1>>]),
           blocks' = Extend(NewBlock(kind), Len(blocks) + 1, <<said + 1>>)
    PROVE  LET at == Len(blocks) + 1
               q == Append(Append(CurrentEnds, Opened(kind, at)), Delta(kind, at, <<said + 1>>))
               w == FoldLeft(Shown, view, q)
           IN  /\ reply' \in Items /\ blocks' \in Messages /\ said' \in Nat
               /\ Same' /\ TextInv'
               /\ Len(reply') = at /\ Len(blocks') = at /\ at \in Nat \ {0} /\ reply'[at].kind = kind
               /\ blocks'[at] = [kind |-> kind, text |-> <<said + 1>>]
               /\ w \in Views /\ Shows(w, blocks', {at})
               /\ \E S : q \in Seq(S)
<1> DEFINE at == Len(blocks) + 1
           e == Opened(kind, at)
           d == Delta(kind, at, <<said + 1>>)
           ce == CurrentEnds
           q == Append(Append(ce, e), d)
           u == FoldLeft(Shown, view, ce)
<1>1. /\ TypeInv /\ TextInv /\ Same
      /\ reply \in Items /\ blocks \in Messages /\ said \in Nat /\ view \in Views
      /\ Len(blocks) = Len(reply) /\ Len(reply) \in Nat
      /\ dec.current \in {0, Len(blocks)}
      /\ Shows(view, blocks, IF dec.current = 0 THEN {} ELSE {dec.current})
  BY GoogleReplying
<1>2. u \in Views /\ Shows(u, blocks, {}) /\ \E S : ce \in Seq(S)
  BY <1>1, CurrentEnded
<1>3. PICK S : ce \in Seq(S)
  BY <1>2
<1>4. LET w == Shown(Shown(u, e), d) IN w \in Views /\ Shows(w, blocks', {} \cup {at})
  <2> HIDE DEF u
  <2> QED BY <1>1, <1>2, AddsBoth
<1>5. /\ reply' \in Items /\ blocks' \in Messages /\ said' \in Nat
      /\ Same' /\ TextInv'
      /\ Len(reply') = Len(reply) + 1 /\ reply'[Len(reply) + 1].kind = kind
      /\ blocks'[at] = [kind |-> kind, text |-> <<said + 1>>]
  <2> HIDE DEF u
  <2> QED BY <1>1, <1>2, AddsBoth
<1>6. Len(blocks') = at
  BY <1>1, <1>5 DEF Same
<1>7. q \in Seq(S \cup {e, d}) /\ ce \in Seq(S \cup {e, d}) /\ Append(ce, e) \in Seq(S \cup {e, d})
  <2> HIDE DEF e, d, ce
  <2> QED BY <1>3
<1>8. FoldLeft(Shown, view, q) = Shown(Shown(u, e), d)
  <2> DEFINE T == S \cup {e, d}
             r == Append(ce, e)
  <2>1. ce \in Seq(T) /\ r \in Seq(T)
    BY <1>7
  <2> HIDE DEF e, d, ce, T
  <2>2. FoldLeft(Shown, view, Append(ce, e)) = Shown(FoldLeft(Shown, view, ce), e)
    BY <2>1, PushedAppend
  <2> HIDE DEF r
  <2>3. FoldLeft(Shown, view, Append(r, d)) = Shown(FoldLeft(Shown, view, r), d)
    BY <2>1, PushedAppend
  <2> QED BY <2>2, <2>3 DEF r
<1>9. {} \cup {at} = {at}
  OBVIOUS
<1>10. FoldLeft(Shown, view, q) \in Views /\ Shows(FoldLeft(Shown, view, q), blocks', {at})
  <2> HIDE DEF q, u, e, d, at
  <2> QED BY <1>4, <1>8, <1>9
<1>11. at \in Nat \ {0} /\ Len(reply') = at /\ reply'[at].kind = kind
  BY <1>1, <1>5
<1>12. \E T : q \in Seq(T)
  BY <1>7
<1> HIDE DEF q
<1>13. /\ reply' \in Items /\ blocks' \in Messages /\ said' \in Nat
       /\ Same' /\ TextInv'
       /\ Len(reply') = at /\ Len(blocks') = at /\ at \in Nat \ {0} /\ reply'[at].kind = kind
       /\ blocks'[at] = [kind |-> kind, text |-> <<said + 1>>]
       /\ FoldLeft(Shown, view, q) \in Views /\ Shows(FoldLeft(Shown, view, q), blocks', {at})
       /\ \E T : q \in Seq(T)
  BY <1>5, <1>6, <1>10, <1>11, <1>12
<1> QED BY <1>13 DEF q

\* A part of text or of thought
LEMMA GoogleTextKeeps ==
    ASSUME IInv, NEW kind \in {"text", "thinking"}, GoogleText(kind)
    PROVE  IInv'
<1> DEFINE chunk == <<said + 1>>
           n == Len(reply)
           going == dec.current # 0 /\ blocks[dec.current].kind = kind
           at == IF going THEN dec.current ELSE Len(blocks) + 1
<1>1. /\ Replying /\ outcome = "none" /\ dec.api = "google" /\ said' = said + 1
      /\ UNCHANGED <<labelled, stage, outcome>>
      /\ dec' = [dec EXCEPT !.current = at]
      /\ blocks' = Extend(IF going THEN blocks ELSE NewBlock(kind), at, chunk)
      /\ IF reply # <<>> /\ Last(reply).kind = kind
         THEN reply' = [reply EXCEPT ![n].text = Append(@, said + 1)]
         ELSE reply' = Append(reply, [kind |-> kind, open |-> FALSE, text |-> chunk])
      /\ view' = FoldLeft(Shown, view, Append(IF going THEN <<>> ELSE Append(CurrentEnds, Opened(kind, at)),
                                              Delta(kind, at, chunk)))
  BY DEF GoogleText, Replying, MayWrite, Api, Push
<1>2. /\ TypeInv /\ TextInv /\ Same
      /\ reply \in Items /\ blocks \in Messages /\ said \in Nat /\ view \in Views
      /\ Len(blocks) = n /\ DOMAIN blocks = DOMAIN reply /\ DOMAIN reply = 1..n /\ n \in Nat
      /\ dec.current \in {0, n}
      /\ Shows(view, blocks, IF dec.current = 0 THEN {} ELSE {dec.current})
      /\ n # 0 => (dec.current = 0 <=> reply[n].kind = "call")
  BY <1>1, GoogleReplying
<1>3. kind \in Kinds \ {"native"} /\ kind # "call"
  BY DEF Kinds
<1>4. \A k \in DOMAIN reply : blocks[k].kind = reply[k].kind
  BY <1>2 DEF Same, SameContent
<1>5. going <=> (reply # <<>> /\ Last(reply).kind = kind)
  <2>1. reply # <<>> <=> n # 0
    BY <1>2
  <2>2. n # 0 => Last(reply).kind = blocks[n].kind /\ Last(reply).kind = reply[n].kind
    BY <1>2, <1>4 DEF Last
  <2> QED BY <1>2, <1>3, <2>1, <2>2
<1>6. CASE going
  <2>1. at = n /\ n # 0 /\ dec.current = n /\ n \in DOMAIN reply /\ reply[n].kind = kind
    BY <1>2, <1>4, <1>6
  <2>2. /\ reply' = [reply EXCEPT ![n].text = Append(@, said + 1)]
        /\ blocks' = Extend(blocks, n, chunk)
    BY <1>1, <1>5, <1>6, <2>1
  <2>3. view' = Shown(view, Delta(reply[n].kind, n, chunk))
    <3>1. view' = FoldLeft(Shown, view, Append(<<>>, Delta(kind, n, chunk)))
      BY <1>1, <1>6, <2>1
    <3>2. Append(<<>>, Delta(kind, n, chunk)) = <<Delta(kind, n, chunk)>>
      OBVIOUS
    <3> QED BY <2>1, <3>1, <3>2, PushedOne
  <2>4. Shows(view, blocks, {n})
    BY <1>2, <2>1
  <2>5. /\ reply' \in Items /\ blocks' \in Messages /\ said' \in Nat /\ Same' /\ TextInv'
        /\ Len(reply') = n /\ \A l \in DOMAIN reply : reply'[l].kind = reply[l].kind
        /\ LET w == Shown(view, Delta(reply[n].kind, n, chunk)) IN w \in Views /\ Shows(w, blocks', {n})
    <3> DEFINE open == {n}
    <3>1. n \in open /\ Shows(view, blocks, open)
      BY <2>4
    <3> HIDE DEF open, n
    <3>2. /\ reply' \in Items /\ blocks' \in Messages /\ said' \in Nat /\ Same' /\ TextInv'
          /\ Len(reply') = Len(reply) /\ \A l \in DOMAIN reply : reply'[l].kind = reply[l].kind
          /\ LET w == Shown(view, Delta(reply[n].kind, n, chunk)) IN w \in Views /\ Shows(w, blocks', open)
      BY <1>1, <1>2, <2>1, <2>2, <3>1, GrowsBoth
    <3> QED BY <3>2 DEF open, n
  <2>6. Len(blocks') = n
    BY <2>5 DEF Same
  <2>7. dec' = [dec EXCEPT !.current = n] /\ n \in {0, Len(blocks')}
        /\ reply'[Len(reply')].kind # "call"
    BY <1>1, <1>3, <2>1, <2>5, <2>6
  <2>8. view' \in Views /\ Shows(view', blocks', IF n = 0 THEN {} ELSE {n})
    BY <2>1, <2>3, <2>5
  <2> HIDE DEF n, at, going
  <2> QED BY <1>1, <1>2, <2>1, <2>5, <2>7, <2>8, GoogleGoesOn
<1>7. CASE ~going
  <2>1. /\ at = Len(blocks) + 1
        /\ reply' = Append(reply, [kind |-> kind, open |-> FALSE, text |-> chunk])
        /\ blocks' = Extend(NewBlock(kind), Len(blocks) + 1, chunk)
        /\ view' = FoldLeft(Shown, view, Append(Append(CurrentEnds, Opened(kind, Len(blocks) + 1)),
                                                Delta(kind, Len(blocks) + 1, chunk)))
    BY <1>1, <1>5, <1>7
  <2>2. /\ reply' \in Items /\ blocks' \in Messages /\ said' \in Nat /\ Same' /\ TextInv'
        /\ Len(reply') = at /\ Len(blocks') = at /\ at \in Nat \ {0} /\ reply'[at].kind = kind
        /\ view' \in Views /\ Shows(view', blocks', {at})
    <3> HIDE DEF going
    <3>1. LET a == Len(blocks) + 1
               q == Append(Append(CurrentEnds, Opened(kind, a)), Delta(kind, a, <<said + 1>>))
               w == FoldLeft(Shown, view, q)
           IN  /\ reply' \in Items /\ blocks' \in Messages /\ said' \in Nat
               /\ Same' /\ TextInv'
               /\ Len(reply') = a /\ Len(blocks') = a /\ a \in Nat \ {0} /\ reply'[a].kind = kind
               /\ w \in Views /\ Shows(w, blocks', {a})
      BY <1>1, <1>3, <2>1, GoogleBegins
    <3> QED BY <2>1, <3>1
  <2>3. Shows(view', blocks', IF at = 0 THEN {} ELSE {at})
    BY <2>2
  <2>4. at \in Nat /\ at \in {0, Len(blocks')} /\ (at = 0 <=> reply'[Len(reply')].kind = "call")
    BY <1>3, <2>2
  <2> HIDE DEF at
  <2> QED BY <1>1, <2>2, <2>3, <2>4, GoogleGoesOn
<1> QED BY <1>6, <1>7

\* A function call, which is whole
LEMMA GoogleCallKeeps ==
    ASSUME IInv, GoogleCall
    PROVE  IInv'
<1> DEFINE at == Len(blocks) + 1
           chunk == <<said + 1>>
           kind == "call"
           q == Append(Append(CurrentEnds, Opened(kind, at)), Delta(kind, at, chunk))
           e == Closed(kind, at, chunk)
           u == FoldLeft(Shown, view, q)
<1>1. /\ Replying /\ outcome = "none" /\ dec.api = "google" /\ said' = said + 1
      /\ UNCHANGED <<labelled, stage, outcome>>
      /\ reply' = Append(reply, [kind |-> kind, open |-> FALSE, text |-> chunk])
      /\ blocks' = Extend(NewBlock(kind), at, chunk)
      /\ dec' = [dec EXCEPT !.current = 0]
      /\ view' = FoldLeft(Shown, view, Append(q, e))
  BY DEF GoogleCall, Replying, MayWrite, Api, Push
<1>2. kind \in Kinds \ {"native"}
  BY DEF Kinds
<1>3. /\ reply' \in Items /\ blocks' \in Messages /\ said' \in Nat /\ Same' /\ TextInv'
      /\ Len(reply') = at /\ Len(blocks') = at /\ at \in Nat \ {0} /\ reply'[at].kind = kind
      /\ blocks'[at] = [kind |-> kind, text |-> chunk]
      /\ u \in Views /\ Shows(u, blocks', {at}) /\ \E S : q \in Seq(S)
  BY <1>1, <1>2, GoogleBegins
<1>4. PICK S : q \in Seq(S)
  BY <1>3
<1>5. view' = Shown(u, e)
  <2> HIDE DEF q, e
  <2> QED BY <1>1, <1>4, PushedAppend
<1>6. at \in DOMAIN blocks' /\ blocks'[at].kind = kind /\ blocks'[at].text = chunk
  BY <1>3 DEF Messages
<1>7. LET w == Shown(u, Closed(blocks'[at].kind, at, blocks'[at].text)) IN
      w \in Views /\ Shows(w, blocks', {at} \ {at})
  <2> DEFINE open == {at}
  <2>1. at \in open \cap DOMAIN blocks' /\ Shows(u, blocks', open)
    BY <1>3, <1>6
  <2> HIDE DEF u, at, open
  <2>2. LET w == Shown(u, Closed(blocks'[at].kind, at, blocks'[at].text)) IN
        w \in Views /\ Shows(w, blocks', open \ {at})
    BY <1>3, <2>1, ShowsEndAsIs
  <2> QED BY <2>2 DEF open
<1>8. {at} \ {at} = {}
  OBVIOUS
<1>9. e = Closed(blocks'[at].kind, at, blocks'[at].text)
  BY <1>6
<1>10. view' \in Views /\ Shows(view', blocks', {})
  <2> HIDE DEF u, at, e
  <2> QED BY <1>5, <1>7, <1>8, <1>9
<1>11. Shows(view', blocks', IF 0 = 0 THEN {} ELSE {0}) /\ 0 \in {0, Len(blocks')} /\ 0 \in Nat
       /\ (0 = 0 <=> reply'[Len(reply')].kind = "call")
  BY <1>3, <1>10
<1> HIDE DEF at, chunk, q, e, u
<1> QED BY <1>1, <1>3, <1>10, <1>11, GoogleGoesOn

\* The server finishes, or the body ends: the current block ends with it
LEMMA GoogleFinishKeeps ==
    ASSUME IInv, GoogleFinish
    PROVE  IInv'
<1>1. /\ stage = "replying" /\ outcome = "none" /\ dec.api = "google" /\ stage' = "complete"
      /\ UNCHANGED <<labelled, reply, said, blocks, view, outcome, dec>>
  BY DEF GoogleFinish, Complete, Replying, Api
<1>2. TypeInv /\ TextInv /\ GoogleInv
  BY DEF IInv
<1>3. TypeInv' /\ TextInv' /\ Same' = Same
  BY <1>1, <1>2 DEF TypeInv, TextInv, Same
<1>4. IdleInv' /\ AnthropicInv' /\ ResponsesInv' /\ CompletionsInv'
  BY <1>1 DEF IdleInv, AnthropicInv, ResponsesInv, CompletionsInv
<1>5. GoogleInv'
  BY <1>1, <1>2, <1>3 DEF GoogleInv, Done
<1> QED BY <1>3, <1>4, <1>5 DEF IInv

\* The body ends: the current block ends with it
LEMMA GoogleEndKeeps ==
    ASSUME IInv, GoogleEnd
    PROVE  IInv'
<1>1. /\ outcome = "none" /\ dec.api = "google" /\ outcome' = "done"
      /\ view' = FoldLeft(Shown, view, CurrentEnds)
      /\ UNCHANGED <<labelled, reply, said, stage, blocks, dec>>
  BY DEF GoogleEnd, BodyEnds, Push, Api, CurrentEnds
<1>2. /\ TypeInv /\ Same /\ blocks \in Messages /\ view \in Views
      /\ dec.current \in {0, Len(blocks)}
      /\ Shows(view, blocks, IF dec.current = 0 THEN {} ELSE {dec.current}) /\ stage # "idle"
  BY <1>1, GoogleReplying
<1>3. view' \in Views /\ Shows(view', blocks, {})
  BY <1>1, <1>2, CurrentEnded
<1>4. TypeInv' /\ TextInv' /\ IdleInv'
  BY <1>1, <1>2, <1>3, EndingKeeps
<1>5. AnthropicInv' /\ ResponsesInv' /\ CompletionsInv'
  BY <1>1 DEF AnthropicInv, ResponsesInv, CompletionsInv
<1>6. GoogleInv
  BY DEF IInv
<1>7. GoogleInv'
  <2>1. Done'
    BY <1>1 DEF Done
  <2>2. Shows(view', blocks', {}) /\ Same' /\ dec'.current \in {0, Len(blocks')}
        /\ \A k \in DOMAIN reply' : k = Len(reply') => (dec'.current = 0 <=> reply'[k].kind = "call")
    BY <1>1, <1>2, <1>3, <1>6, NothingMoves DEF GoogleInv
  <2> QED BY <2>1, <2>2 DEF GoogleInv
<1> QED BY <1>4, <1>5, <1>7 DEF IInv

-----------------------------------------------------------------------------
(* Items and the blocks they have (anthropic, responses).                   *)

\* What a placement is
LEMMA PlacedIs ==
    ASSUME NEW f, Placed(f), reply \in Items, blocks \in Messages
    PROVE  /\ DOMAIN f = Blocked /\ f = [k \in Blocked |-> f[k]]
           /\ \A k \in Blocked : f[k] \in DOMAIN blocks /\ f[k] \in Nat /\ f[k] # 0
           /\ \A k, l \in Blocked : (k < l => f[k] < f[l]) /\ (f[k] = f[l] => k = l)
           /\ \A i \in DOMAIN blocks : \E k \in Blocked : f[k] = i
           /\ \A k \in Blocked : blocks[f[k]].kind = reply[k].kind
           /\ Blocked \subseteq DOMAIN reply /\ Blocked \subseteq Nat
           /\ DOMAIN reply = 1..Len(reply) /\ Len(reply) \in Nat
           /\ DOMAIN blocks = 1..Len(blocks) /\ Len(blocks) \in Nat
<1>1. /\ f \in [Blocked -> DOMAIN blocks]
      /\ \A k, l \in Blocked : k < l => f[k] < f[l]
      /\ \A i \in DOMAIN blocks : \E k \in Blocked : f[k] = i
      /\ \A k \in Blocked : blocks[f[k]].kind = reply[k].kind
  BY DEF Placed, Places
<1>2. /\ DOMAIN reply = 1..Len(reply) /\ Len(reply) \in Nat
      /\ DOMAIN blocks = 1..Len(blocks) /\ Len(blocks) \in Nat
  BY DEF Items, Messages
<1>3. Blocked \subseteq DOMAIN reply
  BY DEF Blocked
<1>4. Blocked \subseteq Nat
  BY <1>2, <1>3
<1>5. DOMAIN f = Blocked /\ f = [k \in Blocked |-> f[k]]
      /\ \A k \in Blocked : f[k] \in DOMAIN blocks
  BY <1>1
<1>6. \A k \in Blocked : f[k] \in Nat /\ f[k] # 0
  BY <1>2, <1>5
<1>7. \A k, l \in Blocked : f[k] = f[l] => k = l
  <2>1. SUFFICES ASSUME NEW k \in Blocked, NEW l \in Blocked, f[k] = f[l] PROVE k = l
    OBVIOUS
  <2>2. k \in Nat /\ l \in Nat /\ f[k] \in Nat /\ f[l] \in Nat
    BY <1>4, <1>6
  <2>3. ~(k < l) /\ ~(l < k)
    BY <1>1, <2>1, <2>2
  <2> QED BY <2>2, <2>3
<1> QED BY <1>1, <1>2, <1>3, <1>4, <1>5, <1>6, <1>7

\* A placement is one by what it has
LEMMA IsPlaced ==
    ASSUME NEW f, f = [k \in Blocked |-> f[k]],
           \A k \in Blocked : f[k] \in DOMAIN blocks,
           \A k, l \in Blocked : k < l => f[k] < f[l],
           \A i \in DOMAIN blocks : \E k \in Blocked : f[k] = i,
           \A k \in Blocked : blocks[f[k]].kind = reply[k].kind
    PROVE  Placed(f) /\ f \in Places
<1>1. f \in [Blocked -> DOMAIN blocks]
  OBVIOUS
<1>2. f \in Places
  BY <1>1 DEF Places
<1> QED BY <1>2 DEF Placed

\* An item that begins with its block has the last place
LEMMA PlacedAdds ==
    ASSUME NEW f, Placed(f), reply \in Items, blocks \in Messages, NEW kind \in Kinds \ {"native"},
           reply' = Append(reply, [kind |-> kind, open |-> TRUE, text |-> <<>>]),
           blocks' = NewBlock(kind)
    PROVE  LET k == Len(reply) + 1
               at == Len(blocks) + 1
           IN  /\ reply' \in Items /\ blocks' \in Messages
               /\ k \notin DOMAIN reply /\ DOMAIN reply' = DOMAIN reply \cup {k} /\ Len(reply') = k
               /\ \A l \in DOMAIN reply : reply'[l] = reply[l]
               /\ reply'[k] = [kind |-> kind, open |-> TRUE, text |-> <<>>]
               /\ DOMAIN blocks' = DOMAIN blocks \cup {at} /\ \A i \in DOMAIN blocks : blocks'[i] = blocks[i]
               /\ blocks'[at] = [kind |-> kind, text |-> <<>>]
               /\ Blocked' = Blocked \cup {k} /\ OpenItems' = OpenItems \cup {k}
               /\ ItemOf("native")' = ItemOf("native")
               /\ \E g : /\ g = With(f, k, at)
                         /\ Placed(g)' /\ g \in Places' /\ Open(g)' = Open(f) \cup {at}
                         /\ g[k] = at /\ \A l \in Blocked : g[l] = f[l]
<1> DEFINE k == Len(reply) + 1
           at == Len(blocks) + 1
           x == [kind |-> kind, open |-> TRUE, text |-> <<>>]
           y == [kind |-> kind, text |-> <<>>]
<1>1. /\ DOMAIN f = Blocked
      /\ \A l \in Blocked : f[l] \in DOMAIN blocks /\ f[l] \in Nat /\ f[l] # 0
      /\ \A l, m \in Blocked : (l < m => f[l] < f[m]) /\ (f[l] = f[m] => l = m)
      /\ \A i \in DOMAIN blocks : \E l \in Blocked : f[l] = i
      /\ \A l \in Blocked : blocks[f[l]].kind = reply[l].kind
      /\ Blocked \subseteq DOMAIN reply /\ Blocked \subseteq Nat
      /\ DOMAIN reply = 1..Len(reply) /\ Len(reply) \in Nat
      /\ DOMAIN blocks = 1..Len(blocks) /\ Len(blocks) \in Nat
  BY PlacedIs
<1>2. <<>> \in Texts /\ kind \in Kinds
  BY DEF Texts
<1>3. /\ reply' \in Items /\ Len(reply') = k /\ \A l \in DOMAIN reply : reply'[l] = reply[l] /\ l # k
      /\ reply'[k] = x
  <2>1. x \in [kind : Kinds, open : BOOLEAN, text : Texts] /\ reply' = Append(reply, x)
    BY <1>2
  <2> HIDE DEF x
  <2> QED BY <2>1, AddsItem
<1>4. /\ blocks' \in Messages /\ Len(blocks') = at /\ \A i \in DOMAIN blocks : blocks'[i] = blocks[i] /\ i # at
      /\ blocks'[at] = y
  <2>1. blocks' = Append(blocks, [kind |-> kind, text |-> <<>>])
    BY DEF NewBlock
  <2> QED BY <1>2, <2>1, AddsBlock
<1>5. DOMAIN reply' = DOMAIN reply \cup {k} /\ DOMAIN blocks' = DOMAIN blocks \cup {at}
      /\ k \notin DOMAIN reply /\ at \notin DOMAIN blocks
  BY <1>1, <1>3, <1>4 DEF Items, Messages
<1>6. x.kind = kind /\ kind # "native" /\ x.open /\ y.kind = kind
  OBVIOUS
<1> HIDE DEF x, y
<1>7. Blocked' = Blocked \cup {k} /\ OpenItems' = OpenItems \cup {k} /\ ItemOf("native")' = ItemOf("native")
  BY <1>3, <1>5, <1>6 DEF Blocked, OpenItems, ItemOf
<1>g. PICK g : g = With(f, k, at)
  OBVIOUS
<1>8. /\ g = [l \in Blocked' |-> g[l]] /\ g[k] = at /\ \A l \in Blocked : g[l] = f[l] /\ l # k
  BY <1>1, <1>5, <1>7, <1>g DEF With
<1>9. \A l \in Blocked' : g[l] \in DOMAIN blocks'
  BY <1>1, <1>5, <1>7, <1>8
<1>10. \A l, m \in Blocked' : l < m => g[l] < g[m]
  <2>1. SUFFICES ASSUME NEW l \in Blocked', NEW m \in Blocked', l < m PROVE g[l] < g[m]
    OBVIOUS
  <2>2. l \in Blocked
    BY <1>1, <1>7, <2>1
  <2>3. CASE m \in Blocked
    BY <1>1, <1>8, <2>1, <2>2, <2>3
  <2>4. CASE m = k
    <3>1. f[l] \in 1..Len(blocks) /\ g[l] = f[l] /\ g[m] = at
      BY <1>1, <1>8, <2>2, <2>4
    <3> QED BY <1>1, <3>1
  <2> QED BY <1>7, <2>3, <2>4
<1>11. \A i \in DOMAIN blocks' : \E l \in Blocked' : g[l] = i
  <2>1. SUFFICES ASSUME NEW i \in DOMAIN blocks' PROVE \E l \in Blocked' : g[l] = i
    OBVIOUS
  <2>2. CASE i = at
    BY <1>7, <1>8, <2>2
  <2>3. CASE i \in DOMAIN blocks
    <3>1. PICK l \in Blocked : f[l] = i
      BY <1>1, <2>3
    <3> QED BY <1>7, <1>8, <3>1
  <2> QED BY <1>5, <2>2, <2>3
<1>12. \A l \in Blocked' : blocks'[g[l]].kind = reply'[l].kind
  <2>1. SUFFICES ASSUME NEW l \in Blocked' PROVE blocks'[g[l]].kind = reply'[l].kind
    OBVIOUS
  <2>2. CASE l = k
    BY <1>3, <1>4, <1>6, <1>8, <2>2
  <2>3. CASE l \in Blocked
    <3>1. g[l] = f[l] /\ f[l] \in DOMAIN blocks /\ l \in DOMAIN reply
      BY <1>1, <1>8, <2>3
    <3>2. blocks'[f[l]] = blocks[f[l]] /\ reply'[l] = reply[l] /\ blocks[f[l]].kind = reply[l].kind
      BY <1>1, <1>3, <1>4, <2>3, <3>1
    <3> QED BY <3>1, <3>2
  <2> QED BY <1>7, <2>2, <2>3
<1>13. Placed(g)' /\ g \in Places'
  <2>1. g \in [Blocked' -> DOMAIN blocks']
    BY <1>8, <1>9
  <2>2. g \in Places'
    BY <1>10, <1>11, <2>1 DEF Places
  <2> QED BY <1>12, <2>2 DEF Placed
<1>14. Open(g)' = Open(f) \cup {at}
  <2>1. (OpenItems \cap Blocked)' = (OpenItems \cap Blocked) \cup {k}
    BY <1>7
  <2>2. {g[l] : l \in (OpenItems \cap Blocked) \cup {k}} = {f[l] : l \in OpenItems \cap Blocked} \cup {at}
    BY <1>8
  <2> QED BY <2>1, <2>2 DEF Open
<1>15. blocks'[at] = [kind |-> kind, text |-> <<>>] /\ reply'[k] = [kind |-> kind, open |-> TRUE, text |-> <<>>]
  BY <1>3, <1>4 DEF x, y
<1> QED BY <1>3, <1>4, <1>5, <1>7, <1>8, <1>13, <1>14, <1>15, <1>g

\* A native item has no block, and no other item moves for it
LEMMA PlacedAddsNative ==
    ASSUME NEW f, Placed(f), reply \in Items, blocks \in Messages,
           reply' = Append(reply, [kind |-> "native", open |-> TRUE, text |-> <<>>]),
           blocks' = blocks
    PROVE  LET k == Len(reply) + 1
           IN  /\ reply' \in Items
               /\ k \notin DOMAIN reply /\ DOMAIN reply' = DOMAIN reply \cup {k} /\ Len(reply') = k /\ k \in Nat
               /\ \A l \in DOMAIN reply : reply'[l] = reply[l]
               /\ reply'[k] = [kind |-> "native", open |-> TRUE, text |-> <<>>]
               /\ Blocked' = Blocked /\ k \notin Blocked /\ OpenItems' = OpenItems \cup {k}
               /\ Placed(f)' /\ f \in Places' /\ Open(f)' = Open(f)
               /\ ItemOf("native")' = ItemOf("native") \cup {k} /\ k \notin ItemOf("native")
<1> DEFINE k == Len(reply) + 1
           x == [kind |-> "native", open |-> TRUE, text |-> <<>>]
<1>1. Blocked \subseteq DOMAIN reply /\ DOMAIN reply = 1..Len(reply) /\ Len(reply) \in Nat
      /\ \A l \in Blocked : blocks[f[l]].kind = reply[l].kind
  BY PlacedIs
<1>2. <<>> \in Texts /\ "native" \in Kinds
  BY DEF Texts, Kinds
<1>3. /\ reply' \in Items /\ Len(reply') = k /\ \A l \in DOMAIN reply : reply'[l] = reply[l] /\ l # k
      /\ reply'[k] = x
  <2>1. x \in [kind : Kinds, open : BOOLEAN, text : Texts] /\ reply' = Append(reply, x)
    BY <1>2
  <2> HIDE DEF x
  <2> QED BY <2>1, AddsItem
<1>5. DOMAIN reply' = DOMAIN reply \cup {k} /\ k \notin DOMAIN reply
  BY <1>1, <1>3 DEF Items
<1>6. x.kind = "native" /\ x.open
  OBVIOUS
<1> HIDE DEF x
<1>7. /\ Blocked' = Blocked /\ OpenItems' = OpenItems \cup {k}
      /\ ItemOf("native")' = ItemOf("native") \cup {k} /\ k \notin ItemOf("native") /\ k \notin Blocked
  BY <1>3, <1>5, <1>6 DEF Blocked, OpenItems, ItemOf
<1>8. Places' = Places /\ f \in Places
  BY <1>7 DEF Places, Placed
<1>9. \A l \in Blocked : blocks'[f[l]].kind = reply'[l].kind
  BY <1>1, <1>3
<1>10. Placed(f)'
  BY <1>7, <1>8, <1>9 DEF Placed
<1>11. Open(f)' = Open(f)
  <2>1. OpenItems' \cap Blocked' = OpenItems \cap Blocked
    BY <1>7
  <2> QED BY <2>1 DEF Open
<1>12. reply'[k] = [kind |-> "native", open |-> TRUE, text |-> <<>>]
  BY <1>3 DEF x
<1>13. k \in Nat
  BY <1>1
<1> QED BY <1>3, <1>5, <1>7, <1>8, <1>10, <1>11, <1>12, <1>13

\* Where only texts change, no item moves
LEMMA PlacedKeeps ==
    ASSUME NEW f, Placed(f), DOMAIN reply' = DOMAIN reply, DOMAIN blocks' = DOMAIN blocks,
           reply \in Items, blocks \in Messages,
           \A l \in DOMAIN reply : reply'[l].kind = reply[l].kind /\ reply'[l].open = reply[l].open,
           \A i \in DOMAIN blocks : blocks'[i].kind = blocks[i].kind
    PROVE  /\ Placed(f)' /\ f \in Places' /\ Open(f)' = Open(f)
           /\ Blocked' = Blocked /\ OpenItems' = OpenItems /\ ItemOf("native")' = ItemOf("native")
<1>1. /\ Blocked \subseteq DOMAIN reply
      /\ \A l \in Blocked : f[l] \in DOMAIN blocks /\ blocks[f[l]].kind = reply[l].kind
  BY PlacedIs
<1>2. Blocked' = Blocked /\ OpenItems' = OpenItems /\ ItemOf("native")' = ItemOf("native")
  BY DEF Blocked, OpenItems, ItemOf
<1>3. Places' = Places /\ f \in Places
  BY <1>2 DEF Places, Placed
<1>4. \A l \in Blocked : blocks'[f[l]].kind = reply'[l].kind
  BY <1>1
<1>5. Placed(f)'
  BY <1>2, <1>3, <1>4 DEF Placed
<1>6. Open(f)' = Open(f)
  BY <1>2 DEF Open
<1> QED BY <1>2, <1>3, <1>5, <1>6

\* The end of an item closes its block, and no item moves
LEMMA PlacedEnds ==
    ASSUME NEW f, Placed(f), NEW k \in OpenItems, DOMAIN blocks' = DOMAIN blocks,
           reply \in Items, blocks \in Messages,
           reply' = [reply EXCEPT ![k].open = FALSE],
           \A i \in DOMAIN blocks : blocks'[i].kind = blocks[i].kind
    PROVE  /\ reply' \in Items /\ DOMAIN reply' = DOMAIN reply
           /\ \A l \in DOMAIN reply : reply'[l].kind = reply[l].kind /\ reply'[l].text = reply[l].text
           /\ \A l \in DOMAIN reply : l # k => reply'[l] = reply[l]
           /\ ~reply'[k].open
           /\ Placed(f)' /\ f \in Places'
           /\ Blocked' = Blocked /\ OpenItems' = OpenItems \ {k} /\ ItemOf("native")' = ItemOf("native")
           /\ Open(f)' = IF k \in Blocked THEN Open(f) \ {f[k]} ELSE Open(f)
<1>1. /\ Blocked \subseteq DOMAIN reply
      /\ \A l \in Blocked : f[l] \in DOMAIN blocks /\ blocks[f[l]].kind = reply[l].kind
      /\ \A l, m \in Blocked : f[l] = f[m] => l = m
  BY PlacedIs
<1>2. /\ reply' \in Items /\ Len(reply') = Len(reply) /\ k \in DOMAIN reply
      /\ \A l \in DOMAIN reply : l # k => reply'[l] = reply[l]
      /\ reply'[k].kind = reply[k].kind /\ ~reply'[k].open /\ reply'[k].text = reply[k].text
  <2>1. k \in DOMAIN reply
    BY DEF OpenItems
  <2> QED BY <2>1, EndsItem
<1>3. DOMAIN reply' = DOMAIN reply
  BY <1>2 DEF Items
<1>4. \A l \in DOMAIN reply : reply'[l].kind = reply[l].kind /\ reply'[l].text = reply[l].text
  BY <1>2
<1>5. Blocked' = Blocked /\ OpenItems' = OpenItems \ {k} /\ ItemOf("native")' = ItemOf("native")
  BY <1>2, <1>3, <1>4 DEF Blocked, OpenItems, ItemOf
<1>6. Places' = Places /\ f \in Places
  BY <1>5 DEF Places, Placed
<1>7. \A l \in Blocked : blocks'[f[l]].kind = reply'[l].kind
  BY <1>1, <1>4
<1>8. Placed(f)'
  BY <1>5, <1>6, <1>7 DEF Placed
<1>9. OpenItems' \cap Blocked' = (OpenItems \cap Blocked) \ {k}
  BY <1>5
<1>10. Open(f)' = IF k \in Blocked THEN Open(f) \ {f[k]} ELSE Open(f)
  <2>1. CASE k \in Blocked
    <3>1. {f[l] : l \in (OpenItems \cap Blocked) \ {k}} = {f[l] : l \in OpenItems \cap Blocked} \ {f[k]}
      BY <1>1, <2>1
    <3> QED BY <1>9, <2>1, <3>1 DEF Open
  <2>2. CASE k \notin Blocked
    <3>1. (OpenItems \cap Blocked) \ {k} = OpenItems \cap Blocked
      BY <2>2
    <3> QED BY <1>9, <2>2, <3>1 DEF Open
  <2> QED BY <2>1, <2>2
<1> QED BY <1>2, <1>3, <1>4, <1>5, <1>6, <1>8, <1>10

\* Texts after an item that is empty has begun
LEMMA TextsBegin ==
    ASSUME TextInv, said \in Nat, said' = said, NEW k, NEW kind,
           DOMAIN reply' = DOMAIN reply \cup {k}, \A l \in DOMAIN reply : reply'[l] = reply[l],
           reply'[k] = [kind |-> kind, open |-> TRUE, text |-> <<>>],
           \/ blocks' = blocks
           \/ \E at : /\ DOMAIN blocks' = DOMAIN blocks \cup {at} /\ \A i \in DOMAIN blocks : blocks'[i] = blocks[i]
                      /\ blocks'[at] = [kind |-> kind, text |-> <<>>]
    PROVE  TextInv'
<1>1. Rising(<<>>, said)
  BY RisingBegins
<1>2. reply'[k].text = <<>>
  OBVIOUS
<1>3. \A l \in DOMAIN reply' : Rising(reply'[l].text, said')
  BY <1>1, <1>2 DEF TextInv
<1>4. \A i \in DOMAIN blocks' : Rising(blocks'[i].text, said')
  <2>1. CASE blocks' = blocks
    BY <2>1 DEF TextInv
  <2>2. CASE \E at : /\ DOMAIN blocks' = DOMAIN blocks \cup {at} /\ \A i \in DOMAIN blocks : blocks'[i] = blocks[i]
                     /\ blocks'[at] = [kind |-> kind, text |-> <<>>]
    <3>1. PICK at : /\ DOMAIN blocks' = DOMAIN blocks \cup {at} /\ \A i \in DOMAIN blocks : blocks'[i] = blocks[i]
                    /\ blocks'[at] = [kind |-> kind, text |-> <<>>]
      BY <2>2
    <3>2. blocks'[at].text = <<>>
      BY <3>1
    <3> QED BY <1>1, <3>1, <3>2 DEF TextInv
  <2> QED BY <2>1, <2>2
<1> QED BY <1>3, <1>4 DEF TextInv

\* ... and after a chunk, which is in its block or is not there yet
LEMMA TextsGrow ==
    ASSUME TextInv, reply \in Items, blocks \in Messages, said \in Nat,
           NEW k \in DOMAIN reply, Writes(k),
           NEW at, blocks' = blocks \/ Lengthened(blocks, blocks', at, <<said + 1>>)
    PROVE  /\ TextInv'
           /\ reply' \in Items /\ DOMAIN reply' = DOMAIN reply
           /\ \A l \in DOMAIN reply : reply'[l].kind = reply[l].kind /\ reply'[l].open = reply[l].open
           /\ \A l \in DOMAIN reply : l # k => reply'[l] = reply[l]
           /\ reply'[k].text = Append(reply[k].text, said + 1)
           /\ blocks' \in Messages /\ DOMAIN blocks' = DOMAIN blocks
           /\ \A i \in DOMAIN blocks : blocks'[i].kind = blocks[i].kind
<1>1. /\ reply' \in Items /\ Len(reply') = Len(reply)
      /\ \A l \in DOMAIN reply : l # k => reply'[l] = reply[l]
      /\ reply'[k].kind = reply[k].kind /\ reply'[k].open = reply[k].open
      /\ reply'[k].text = Append(reply[k].text, said + 1)
  <2> DEFINE c == said + 1
  <2>1. c \in Nat
    OBVIOUS
  <2>2. reply' = [reply EXCEPT ![k].text = Append(@, c)]
    BY DEF Writes
  <2> HIDE DEF c
  <2>3. LET r == [reply EXCEPT ![k].text = Append(@, c)] IN
        /\ r \in Items /\ Len(r) = Len(reply)
        /\ \A l \in DOMAIN reply : l # k => r[l] = reply[l]
        /\ r[k].kind = reply[k].kind /\ r[k].open = reply[k].open
        /\ r[k].text = Append(reply[k].text, c)
    BY <2>1, WritesItem
  <2> QED BY <2>2, <2>3 DEF c
<1>2. DOMAIN reply' = DOMAIN reply
  BY <1>1 DEF Items
<1>3. \A l \in DOMAIN reply : reply'[l].kind = reply[l].kind /\ reply'[l].open = reply[l].open
  BY <1>1
<1>4. \A l \in DOMAIN reply' : Rising(reply'[l].text, said + 1)
  <2>1. SUFFICES ASSUME NEW l \in DOMAIN reply PROVE Rising(reply'[l].text, said + 1)
    BY <1>2
  <2>2. Rising(reply[l].text, said) /\ reply[l].text \in Texts
    BY AnItem DEF TextInv
  <2>3. Rising(reply[l].text, said + 1) /\ Rising(Append(reply[l].text, said + 1), said + 1)
    BY <2>2, RisingGrows
  <2> QED BY <1>1, <2>3
<1>5. ASSUME NEW i \in DOMAIN blocks
      PROVE  Rising(blocks[i].text, said + 1) /\ Rising(blocks[i].text \o <<said + 1>>, said + 1)
  <2>1. Rising(blocks[i].text, said) /\ blocks[i].text \in Texts
    BY ABlock DEF TextInv
  <2> QED BY <2>1, RisingGrows
<1>6. /\ blocks' \in Messages /\ DOMAIN blocks' = DOMAIN blocks
      /\ \A i \in DOMAIN blocks : blocks'[i].kind = blocks[i].kind /\ Rising(blocks'[i].text, said + 1)
  <2>1. CASE blocks' = blocks
    BY <1>5, <2>1
  <2>2. CASE Lengthened(blocks, blocks', at, <<said + 1>>)
    <3>2. PICK full : Rewritten(blocks, blocks', at, full) /\ full = blocks[at].text \o <<said + 1>>
      BY <2>2 DEF Lengthened
    <3>3. /\ blocks' \in Messages /\ DOMAIN blocks' = DOMAIN blocks
          /\ \A i \in DOMAIN blocks : i # at => blocks'[i] = blocks[i]
          /\ blocks'[at].kind = blocks[at].kind /\ blocks'[at].text = full
      BY <3>2 DEF Rewritten, Messages
    <3>4. at \in DOMAIN blocks
      BY <3>2 DEF Rewritten
    <3> QED BY <1>5, <3>2, <3>3, <3>4
  <2> QED BY <2>1, <2>2
<1>7. said' = said + 1
  BY DEF Writes
<1> QED BY <1>1, <1>2, <1>3, <1>4, <1>6, <1>7 DEF TextInv

-----------------------------------------------------------------------------
(* Anthropic.                                                               *)

AnthropicDecoder == [api : {"anthropic"}, started : BOOLEAN, stopped : BOOLEAN, byIndex : Tables]

\* The text of every item is in its block
SameTexts(f) == \A k \in Blocked : blocks[f[k]].text = reply[k].text

\* What the actions of a decoder that is replying find
LEMMA AnthropicReplying ==
    ASSUME IInv, outcome = "none", dec.api = "anthropic"
    PROVE  /\ TypeInv /\ TextInv /\ NativeInv /\ Placed(dec.byIndex) /\ SameTexts(dec.byIndex)
           /\ reply \in Items /\ blocks \in Messages /\ said \in Nat /\ view \in Views
           /\ dec \in AnthropicDecoder
           /\ Shows(view, blocks, Open(dec.byIndex))
           /\ blocks # <<>> => dec.started
           /\ dec.stopped => stage = "complete"
           /\ stage = "complete" => OpenItems = {}
           /\ stage # "idle"
<1>1. TypeInv /\ TextInv /\ IdleInv /\ AnthropicInv
  BY DEF IInv
<1>2. reply \in Items /\ blocks \in Messages /\ said \in Nat /\ view \in Views /\ dec \in AnthropicDecoder
  BY <1>1, DecoderOf DEF TypeInv, AnthropicDecoder
<1>3. stage # "idle"
  BY <1>1 DEF IdleInv
<1> QED BY <1>1, <1>2, <1>3 DEF AnthropicInv, SameTexts

\* ... and what is left to show of one that goes on
LEMMA AnthropicGoesOn ==
    ASSUME IInv, stage # "idle", stage' \in {"replying", "complete"}, outcome' \in {"none", "done", "error"},
           dec' \in AnthropicDecoder, labelled' = labelled,
           reply' \in Items, blocks' \in Messages, said' \in Nat, view' \in Views,
           TextInv', NativeInv', Placed(dec.byIndex)', SameTexts(dec.byIndex)',
           Shows(view', blocks', Open(dec.byIndex)'),
           blocks' # <<>> => dec'.started,
           dec'.stopped => stage' = "complete",
           outcome' = "done" => dec'.stopped \/ ~dec'.started,
           stage' = "complete" => OpenItems' = {}
    PROVE  IInv'
<1>1. TypeInv
  BY DEF IInv
<1>2. dec'.api = "anthropic" /\ dec' \in Decoders
  BY DEF AnthropicDecoder, Decoders
<1>3. TypeInv'
  BY <1>1, <1>2 DEF TypeInv
<1>4. IdleInv' /\ CompletionsInv' /\ ResponsesInv' /\ GoogleInv'
  BY <1>2 DEF IdleInv, CompletionsInv, ResponsesInv, GoogleInv
<1>5. AnthropicInv'
  BY <1>2 DEF AnthropicInv, SameTexts, Done
<1> QED BY <1>3, <1>4, <1>5 DEF IInv

\* The message begins, and later stops
LEMMA AnthropicMessageKeeps ==
    ASSUME IInv, AnthropicMessage
    PROVE  IInv'
<1>1. /\ outcome = "none" /\ stage = "replying" /\ dec.api = "anthropic"
      /\ dec' = [dec EXCEPT !.started = TRUE]
      /\ UNCHANGED <<labelled, reply, said, stage, blocks, view, outcome>>
  BY DEF AnthropicMessage, Replying, Api
<1>2. /\ TypeInv /\ TextInv /\ NativeInv /\ Placed(dec.byIndex) /\ SameTexts(dec.byIndex)
      /\ reply \in Items /\ blocks \in Messages /\ said \in Nat /\ view \in Views
      /\ dec \in AnthropicDecoder /\ Shows(view, blocks, Open(dec.byIndex))
      /\ dec.stopped => stage = "complete"
  BY <1>1, AnthropicReplying
<1>3. dec' \in AnthropicDecoder /\ dec'.byIndex = dec.byIndex /\ dec'.started /\ dec'.stopped = dec.stopped
  BY <1>1, <1>2 DEF AnthropicDecoder
<1>4. Blocked' = Blocked /\ OpenItems' = OpenItems /\ Places' = Places
  <2>1. Blocked' = Blocked /\ OpenItems' = OpenItems
    BY <1>1 DEF Blocked, OpenItems
  <2> QED BY <1>1, <2>1 DEF Places
<1>5. Placed(dec.byIndex)' /\ SameTexts(dec.byIndex)' /\ Open(dec.byIndex)' = Open(dec.byIndex)
  BY <1>1, <1>2, <1>3, <1>4 DEF Placed, SameTexts, Open
<1>6. TextInv' /\ NativeInv'
  BY <1>1, <1>2 DEF TextInv, NativeInv, ItemOf
<1> QED BY <1>1, <1>2, <1>3, <1>5, <1>6, AnthropicGoesOn

\* message_stop
LEMMA AnthropicStopKeeps ==
    ASSUME IInv, AnthropicStop
    PROVE  IInv'
<1>1. /\ outcome = "none" /\ stage = "replying" /\ stage' = "complete" /\ dec.api = "anthropic"
      /\ OpenItems = {} /\ dec.started
      /\ dec' = [dec EXCEPT !.stopped = TRUE]
      /\ UNCHANGED <<labelled, reply, said, blocks, view, outcome>>
  BY DEF AnthropicStop, Complete, Replying, Api
<1>2. /\ TypeInv /\ TextInv /\ NativeInv /\ Placed(dec.byIndex) /\ SameTexts(dec.byIndex)
      /\ reply \in Items /\ blocks \in Messages /\ said \in Nat /\ view \in Views
      /\ dec \in AnthropicDecoder /\ Shows(view, blocks, Open(dec.byIndex))
      /\ dec.stopped => stage = "complete"
  BY <1>1, AnthropicReplying
<1>3. dec' \in AnthropicDecoder /\ dec'.byIndex = dec.byIndex /\ dec'.stopped /\ dec'.started
  BY <1>1, <1>2 DEF AnthropicDecoder
<1>4. Blocked' = Blocked /\ OpenItems' = OpenItems /\ Places' = Places
  <2>1. Blocked' = Blocked /\ OpenItems' = OpenItems
    BY <1>1 DEF Blocked, OpenItems
  <2> QED BY <1>1, <2>1 DEF Places
<1>5. Placed(dec.byIndex)' /\ SameTexts(dec.byIndex)' /\ Open(dec.byIndex)' = Open(dec.byIndex)
  BY <1>1, <1>2, <1>3, <1>4 DEF Placed, SameTexts, Open
<1>6. TextInv' /\ NativeInv'
  BY <1>1, <1>2 DEF TextInv, NativeInv, ItemOf
<1> QED BY <1>1, <1>2, <1>3, <1>4, <1>5, <1>6, AnthropicGoesOn

\* The body ends
LEMMA AnthropicEndKeeps ==
    ASSUME IInv, AnthropicEnd
    PROVE  IInv'
<1>1. /\ outcome = "none" /\ stage \in {"replying", "complete"} /\ dec.api = "anthropic"
      /\ outcome' = IF dec.started /\ ~dec.stopped THEN "error" ELSE "done"
      /\ view' = IF outcome' = "done" THEN FoldLeft(Shown, view, Ends(<<>>)) ELSE view
      /\ UNCHANGED <<labelled, reply, said, stage, blocks, dec>>
  BY DEF AnthropicEnd, BodyEnds, Push, Api
<1>2. view' = view
  <2>1. DOMAIN Ends(<<>>) = {} /\ Ends(<<>>) = [i \in {} |-> Ends(<<>>)[i]]
    BY DEF Ends
  <2>2. Ends(<<>>) = <<>>
    BY <2>1
  <2> QED BY <1>1, <2>2, PushedNone
<1>3. /\ TypeInv /\ TextInv /\ NativeInv /\ Placed(dec.byIndex) /\ SameTexts(dec.byIndex)
      /\ reply \in Items /\ blocks \in Messages /\ said \in Nat /\ view \in Views
      /\ dec \in AnthropicDecoder /\ Shows(view, blocks, Open(dec.byIndex))
      /\ blocks # <<>> => dec.started
      /\ dec.stopped => stage = "complete"
      /\ stage = "complete" => OpenItems = {}
  BY <1>1, AnthropicReplying
<1>4. Blocked' = Blocked /\ OpenItems' = OpenItems /\ Places' = Places
  BY <1>1, NothingMoves
<1>5. Placed(dec.byIndex)' /\ SameTexts(dec.byIndex)' /\ Open(dec.byIndex)' = Open(dec.byIndex)
  BY <1>1, <1>3, <1>4 DEF Placed, SameTexts, Open
<1>6. TextInv' /\ NativeInv'
  BY <1>1, <1>2, <1>3 DEF TextInv, NativeInv, ItemOf
<1> QED BY <1>1, <1>2, <1>3, <1>4, <1>5, <1>6, AnthropicGoesOn

\* What a native call does to what has been shown
LEMMA NativeShown ==
    ASSUME view \in Views, view.legal, NEW k \in Nat, NEW b, NEW open, Shows(view, b, open),
           \/ NativeStarts(k) /\ k \notin DOMAIN view.native
           \/ NativeResult(k) /\ k \in DOMAIN view.native /\ view.native[k] = "called"
    PROVE  /\ view' \in Views /\ Shows(view', b, open)
           /\ DOMAIN view'.native = DOMAIN view.native \cup {k}
           /\ \A l \in DOMAIN view.native : l # k => view'.native[l] = view.native[l]
           /\ NativeStarts(k) => view'.native[k] = "called"
<1> DEFINE n == view.native
           started == [j \in DOMAIN n \union {k} |-> IF j = k THEN "called" ELSE n[j]]
           answered == [j \in DOMAIN n \union {k} |-> IF j = k THEN "answered" ELSE n[j]]
<1>1. PICK D \in SUBSET Nat : n \in [D -> {"called", "answered"}]
  BY DEF Views, Natives
<1>2. D \cup {k} \in SUBSET Nat /\ DOMAIN n = D
  BY <1>1
<1>3. started \in [D \cup {k} -> {"called", "answered"}] /\ answered \in [D \cup {k} -> {"called", "answered"}]
  BY <1>1, <1>2
<1>4. started \in Natives /\ answered \in Natives
  BY <1>2, <1>3 DEF Natives
<1>5. CASE NativeStarts(k) /\ k \notin DOMAIN view.native
  <2>1. view' = [view EXCEPT !.native = started, !.legal = view.legal /\ k \notin DOMAIN view.native]
    BY <1>5 DEF NativeStarts
  <2>2. view.legal /\ k \notin DOMAIN view.native
    BY <1>5
  <2> HIDE DEF started, answered
  <2>3. view' = [blocks |-> view.blocks, native |-> started, legal |-> TRUE]
    BY <2>1, <2>2 DEF Views
  <2>4. view' \in Views /\ view'.blocks = view.blocks /\ view'.legal /\ view'.native = started
    BY <1>4, <2>3 DEF Views
  <2>5. Shows(view', b, open)
    BY <2>4 DEF Shows
  <2>6. DOMAIN started = DOMAIN n \cup {k} /\ started[k] = "called" /\ \A l \in DOMAIN n : l # k => started[l] = n[l]
    BY DEF started
  <2> QED BY <2>4, <2>5, <2>6
<1>6. CASE NativeResult(k) /\ k \in DOMAIN view.native /\ view.native[k] = "called"
  <2>1. view' = [view EXCEPT !.native = answered,
                             !.legal = view.legal /\ k \in DOMAIN view.native /\ view.native[k] = "called"]
    BY <1>6 DEF NativeResult
  <2>2. view.legal /\ k \in DOMAIN view.native /\ view.native[k] = "called"
    BY <1>6
  <2> HIDE DEF started, answered
  <2>3. view' = [blocks |-> view.blocks, native |-> answered, legal |-> TRUE]
    BY <2>1, <2>2 DEF Views
  <2>4. view' \in Views /\ view'.blocks = view.blocks /\ view'.legal /\ view'.native = answered
    BY <1>4, <2>3 DEF Views
  <2>5. Shows(view', b, open)
    BY <2>4 DEF Shows
  <2>6. DOMAIN answered = DOMAIN n \cup {k} /\ \A l \in DOMAIN n : l # k => answered[l] = n[l]
    BY DEF answered
  <2>7. ~NativeStarts(k)
    <3>1. ASSUME NativeStarts(k) PROVE FALSE
      <4>1. view' = [view EXCEPT !.native = started, !.legal = view.legal /\ k \notin DOMAIN view.native]
        BY <3>1 DEF NativeStarts, started
      <4>2. view'.native = started
        BY <4>1 DEF Views
      <4> QED BY <2>4, <4>2 DEF started, answered
    <3> QED BY <3>1
  <2> QED BY <2>4, <2>5, <2>6, <2>7
<1> QED BY <1>5, <1>6

\* A block begins, or a tool the provider runs
LEMMA AnthropicBlockKeeps ==
    ASSUME IInv, NEW kind \in Kinds, AnthropicBlock(kind)
    PROVE  IInv'
<1> DEFINE f == dec.byIndex
           k == Len(reply) + 1
           at == Len(blocks) + 1
<1>1. /\ outcome = "none" /\ stage = "replying" /\ dec.api = "anthropic" /\ dec.started
      /\ reply' = Append(reply, [kind |-> kind, open |-> TRUE, text |-> <<>>])
      /\ UNCHANGED <<labelled, said, stage, outcome>>
      /\ kind = "native" => NativeStarts(k) /\ blocks' = blocks /\ dec' = dec
      /\ kind # "native" => /\ dec' = [dec EXCEPT !.byIndex = With(@, k, at)]
                            /\ blocks' = NewBlock(kind)
                            /\ view' = FoldLeft(Shown, view, <<Opened(kind, at)>>)
  BY DEF AnthropicBlock, MayBegin, Replying, Api, NewItem, Push
<1>2. /\ TypeInv /\ TextInv /\ NativeInv /\ Placed(f) /\ SameTexts(f)
      /\ reply \in Items /\ blocks \in Messages /\ said \in Nat /\ view \in Views
      /\ dec \in AnthropicDecoder /\ Shows(view, blocks, Open(f))
      /\ dec.stopped => stage = "complete"
  BY <1>1, AnthropicReplying
<1>3. f \in Tables /\ f \in Places
  BY <1>2 DEF AnthropicDecoder, Placed
<1>4. CASE kind = "native"
  <2>1. /\ reply' \in Items
        /\ k \notin DOMAIN reply /\ DOMAIN reply' = DOMAIN reply \cup {k} /\ k \in Nat
        /\ \A l \in DOMAIN reply : reply'[l] = reply[l]
        /\ reply'[k] = [kind |-> "native", open |-> TRUE, text |-> <<>>]
        /\ Blocked' = Blocked /\ Placed(f) /\ ItemOf("native")' = ItemOf("native") \cup {k}
        /\ k \notin ItemOf("native")
    <3> HIDE DEF f
    <3> QED BY <1>1, <1>2, <1>4, PlacedAddsNative
  <2>2. dec' = dec /\ blocks' = blocks /\ NativeStarts(k)
    BY <1>1, <1>4
  <2>3. Placed(dec.byIndex)' /\ Open(dec.byIndex)' = Open(f)
    <3>1. PICK g : g = f
      OBVIOUS
    <3>2. Placed(g)
      BY <1>2, <3>1
    <3> HIDE DEF f
    <3>3. Placed(g)' /\ Open(g)' = Open(g)
      BY <1>1, <1>2, <1>4, <2>2, <3>2, PlacedAddsNative
    <3>4. dec'.byIndex = g /\ Open(g) = Open(f)
      BY <2>2, <3>1 DEF f
    <3> QED BY <3>3, <3>4 DEF Placed, Open
  <2>4. SameTexts(dec.byIndex)'
    <3>1. Blocked \subseteq DOMAIN reply
      BY DEF Blocked
    <3> QED BY <1>2, <2>1, <2>2, <3>1 DEF SameTexts
  <2>5. k \notin DOMAIN view.native /\ view.legal
    BY <1>2, <2>1 DEF NativeInv, Shows
  <2>6. view' \in Views /\ Shows(view', blocks, Open(f)) /\ DOMAIN view'.native = DOMAIN view.native \cup {k}
    <3> HIDE DEF f, k
    <3> QED BY <1>2, <2>1, <2>2, <2>5, NativeShown
  <2>7. NativeInv'
    BY <1>2, <2>1, <2>6 DEF NativeInv
  <2>8. TextInv'
    <3> HIDE DEF k
    <3> QED BY <1>1, <1>2, <1>4, <2>1, <2>2, TextsBegin
  <2> HIDE DEF k, at, f
  <2>9. Shows(view', blocks', Open(dec.byIndex)')
    BY <2>2, <2>3, <2>6
  <2>10. /\ IInv /\ stage # "idle" /\ stage' = "replying" /\ outcome' = "none" /\ dec' \in AnthropicDecoder
         /\ labelled' = labelled /\ reply' \in Items /\ blocks' \in Messages /\ said' \in Nat
         /\ dec'.started /\ (dec'.stopped => stage' = "complete")
    BY <1>1, <1>2, <2>1, <2>2
  <2> QED BY <2>3, <2>4, <2>6, <2>7, <2>8, <2>9, <2>10, AnthropicGoesOn
<1>5. CASE kind # "native"
  <2>0. kind \in Kinds \ {"native"} /\ blocks' = NewBlock(kind)
    BY <1>1, <1>5
  <2>1. PICK p : p = f
    OBVIOUS
  <2>2. Placed(p) /\ Open(p) = Open(f) /\ p \in Tables
    BY <1>2, <1>3, <2>1
  <2>3. /\ reply' \in Items /\ blocks' \in Messages
        /\ k \notin DOMAIN reply /\ DOMAIN reply' = DOMAIN reply \cup {k} /\ Len(reply') = k
        /\ \A l \in DOMAIN reply : reply'[l] = reply[l]
        /\ reply'[k] = [kind |-> kind, open |-> TRUE, text |-> <<>>]
        /\ DOMAIN blocks' = DOMAIN blocks \cup {at} /\ \A i \in DOMAIN blocks : blocks'[i] = blocks[i]
        /\ blocks'[at] = [kind |-> kind, text |-> <<>>]
        /\ Blocked' = Blocked \cup {k} /\ ItemOf("native")' = ItemOf("native")
        /\ \E g : /\ g = With(p, k, at)
                  /\ Placed(g)' /\ g \in Places' /\ Open(g)' = Open(p) \cup {at}
                  /\ g[k] = at /\ \A l \in Blocked : g[l] = p[l]
    <3> HIDE DEF f
    <3> QED BY <1>1, <1>2, <2>0, <2>2, PlacedAdds
  <2>4. PICK g : /\ g = With(p, k, at)
                 /\ Placed(g)' /\ g \in Places' /\ Open(g)' = Open(p) \cup {at}
                 /\ g[k] = at /\ \A l \in Blocked : g[l] = p[l]
    BY <2>3
  <2>5. k \in Nat /\ at \in Nat
    BY <1>2 DEF Items, Messages
  <2>6. g \in Tables
    BY <2>2, <2>4, <2>5, WithTable
  <2>7. dec' \in AnthropicDecoder /\ dec'.byIndex = g /\ dec'.started = dec.started /\ dec'.stopped = dec.stopped
    <3>1. dec' = [dec EXCEPT !.byIndex = g]
      BY <1>1, <1>5, <2>1, <2>4
    <3> QED BY <1>2, <2>6, <3>1 DEF AnthropicDecoder
  <2>8. Placed(dec.byIndex)' /\ Open(dec.byIndex)' = Open(f) \cup {at}
    <3>1. Placed(g)' /\ Open(g)' = Open(f) \cup {at} /\ dec'.byIndex = g
      BY <2>2, <2>4, <2>7
    <3>2. Placed(dec.byIndex)'
      BY <3>1 DEF Placed
    <3>3. Open(dec.byIndex)' = Open(g)'
      BY <3>1 DEF Open
    <3> QED BY <3>1, <3>2, <3>3
  <2>9. SameTexts(dec.byIndex)'
    <3>1. Blocked \subseteq DOMAIN reply /\ \A l \in Blocked : p[l] \in DOMAIN blocks
      BY <1>2, <2>2, PlacedIs
    <3>2. \A l \in Blocked : blocks'[g[l]].text = reply'[l].text
      <4>1. SUFFICES ASSUME NEW l \in Blocked PROVE blocks'[g[l]].text = reply'[l].text
        OBVIOUS
      <4>2. g[l] = p[l] /\ blocks'[p[l]] = blocks[p[l]] /\ reply'[l] = reply[l]
        BY <2>3, <2>4, <3>1
      <4>3. blocks[p[l]].text = reply[l].text
        BY <1>2, <2>1 DEF SameTexts
      <4> QED BY <4>2, <4>3
    <3>3. blocks'[g[k]].text = reply'[k].text
      BY <2>3, <2>4
    <3> QED BY <2>3, <2>7, <3>2, <3>3 DEF SameTexts
  <2>10. /\ view' = Shown(view, Opened(kind, at))
    BY <1>1, <1>5, PushedOne
  <2>11. view' \in Views /\ view'.native = view.native /\ Shows(view', blocks', Open(f) \cup {at})
    <3> DEFINE open == Open(f)
    <3>1. Shows(view, blocks, open)
      BY <1>2
    <3> HIDE DEF open, f
    <3>2. LET w == Shown(view, Opened(kind, Len(blocks) + 1)) IN
           /\ w \in Views /\ w.native = view.native
           /\ Shows(w, Append(blocks, [kind |-> kind, text |-> <<>>]), open \cup {Len(blocks) + 1})
      BY <1>2, <3>1, ShowsStart
    <3> QED BY <2>0, <2>10, <3>2 DEF open, NewBlock
  <2>12. TextInv'
    <3> HIDE DEF k, at
    <3> QED BY <1>1, <1>2, <2>3, TextsBegin
  <2>13. NativeInv'
    BY <1>2, <2>3, <2>11 DEF NativeInv
  <2>14. Shows(view', blocks', Open(dec.byIndex)')
    BY <2>8, <2>11
  <2>15. /\ IInv /\ stage # "idle" /\ stage' = "replying" /\ outcome' = "none" /\ dec' \in AnthropicDecoder
         /\ labelled' = labelled /\ reply' \in Items /\ blocks' \in Messages /\ said' \in Nat
         /\ dec'.started /\ (dec'.stopped => stage' = "complete")
    BY <1>1, <1>2, <2>3, <2>7
  <2> HIDE DEF f, k, at
  <2> QED BY <2>8, <2>9, <2>11, <2>12, <2>13, <2>14, <2>15, AnthropicGoesOn
<1> QED BY <1>4, <1>5

\* An open item that is no native call has an open block
LEMMA OpenBlock ==
    ASSUME NEW f, Placed(f), reply \in Items, blocks \in Messages, NEW k \in OpenItems, reply[k].kind # "native"
    PROVE  /\ k \in Blocked /\ k \in DOMAIN reply /\ k \in DOMAIN f
           /\ f[k] \in DOMAIN blocks /\ f[k] \in Open(f) /\ f[k] # 0
           /\ blocks[f[k]].kind = reply[k].kind
<1>1. k \in DOMAIN reply /\ k \in Blocked
  BY DEF OpenItems, Blocked
<1>2. f[k] \in Open(f)
  BY <1>1 DEF Open
<1> QED BY <1>1, <1>2, PlacedIs

\* A chunk
LEMMA AnthropicDeltaKeeps ==
    ASSUME IInv, NEW k, AnthropicDelta(k)
    PROVE  IInv'
<1> DEFINE chunk == <<said + 1>>
<1>f. PICK f : f = dec.byIndex
  OBVIOUS
<1>a. PICK at : at = Known(dec.byIndex, k)
  OBVIOUS
<1>1. /\ outcome = "none" /\ stage = "replying" /\ dec.api = "anthropic"
      /\ k \in OpenItems /\ reply[k].kind # "native" /\ Writes(k)
      /\ UNCHANGED <<labelled, stage, dec, outcome>>
  BY DEF AnthropicDelta, MayWrite, Replying, Api
<1>2. /\ TypeInv /\ TextInv /\ NativeInv /\ Placed(f) /\ SameTexts(f)
      /\ reply \in Items /\ blocks \in Messages /\ said \in Nat /\ view \in Views
      /\ dec \in AnthropicDecoder /\ Shows(view, blocks, Open(f))
      /\ dec.stopped => stage = "complete"
      /\ blocks # <<>> => dec.started
  BY <1>1, <1>f, AnthropicReplying
<1>3. /\ k \in Blocked /\ k \in DOMAIN reply /\ k \in DOMAIN f
      /\ f[k] \in DOMAIN blocks /\ f[k] \in Open(f) /\ f[k] # 0
      /\ blocks[f[k]].kind = reply[k].kind
  BY <1>1, <1>2, OpenBlock
<1>4. at = f[k] /\ at # 0
  BY <1>3, <1>a, <1>f DEF Known
<1>5. /\ blocks' = Extend(blocks, at, chunk)
      /\ view' = FoldLeft(Shown, view, <<Delta(blocks[at].kind, at, chunk)>>)
  BY <1>4, <1>a DEF AnthropicDelta, Push
<1>6. at \in DOMAIN blocks /\ at \in Open(f)
  BY <1>3, <1>4
<1>7. chunk \in Texts
  BY <1>2, RisingBegins
<1>8. Lengthened(blocks, blocks', at, chunk)
  BY <1>2, <1>5, <1>6, <1>7, ExtendRewrites
<1>9. view' \in Views /\ view'.native = view.native /\ Shows(view', blocks', Open(f))
  <2> DEFINE open == Open(f)
  <2>1. view' = Shown(view, Delta(blocks[at].kind, at, chunk))
    BY <1>5, PushedOne
  <2>2. at \in open /\ Shows(view, blocks, open)
    BY <1>2, <1>6
  <2> HIDE DEF open, chunk
  <2>3. LET w == Shown(view, Delta(blocks[at].kind, at, chunk)) IN
        w \in Views /\ w.native = view.native /\ Shows(w, blocks', open)
    BY <1>2, <1>7, <1>8, <2>2, ShowsDelta
  <2> QED BY <2>1, <2>3 DEF open
<1>10. /\ TextInv'
       /\ reply' \in Items /\ DOMAIN reply' = DOMAIN reply
       /\ \A l \in DOMAIN reply : reply'[l].kind = reply[l].kind /\ reply'[l].open = reply[l].open
       /\ \A l \in DOMAIN reply : l # k => reply'[l] = reply[l]
       /\ reply'[k].text = Append(reply[k].text, said + 1)
       /\ blocks' \in Messages /\ DOMAIN blocks' = DOMAIN blocks
       /\ \A i \in DOMAIN blocks : blocks'[i].kind = blocks[i].kind
  BY <1>1, <1>2, <1>3, <1>8, TextsGrow
<1>11. /\ Placed(f)' /\ f \in Places' /\ Open(f)' = Open(f)
       /\ Blocked' = Blocked /\ OpenItems' = OpenItems /\ ItemOf("native")' = ItemOf("native")
  BY <1>2, <1>10, PlacedKeeps
<1>12. Placed(dec.byIndex)' /\ Open(dec.byIndex)' = Open(f)
  <2>1. dec'.byIndex = f
    BY <1>1, <1>f
  <2> QED BY <1>11, <2>1 DEF Placed, Open
<1>13. SameTexts(dec.byIndex)'
  <2>1. dec'.byIndex = f
    BY <1>1, <1>f
  <2>2. ASSUME NEW l \in Blocked PROVE blocks'[f[l]].text = reply'[l].text
    <3>1. blocks[f[l]].text = reply[l].text /\ l \in DOMAIN reply /\ f[l] \in DOMAIN blocks /\ (f[l] = f[k] => l = k)
      BY <1>2, <1>3, PlacedIs DEF SameTexts
    <3>2. CASE l = k
      <4>1. blocks'[at].text = blocks[at].text \o chunk
        BY <1>8 DEF Lengthened, Rewritten
      <4>2. reply[k].text \in Texts /\ Rising(reply[k].text, said)
        BY <1>2, <1>3, AnItem DEF TextInv
      <4>3. reply[k].text \o chunk = Append(reply[k].text, said + 1)
        BY <1>2, <4>2, RisingGrows
      <4> QED BY <1>4, <1>10, <3>1, <3>2, <4>1, <4>3
    <3>3. CASE l # k
      <4>1. blocks'[f[l]] = blocks[f[l]]
        BY <1>4, <1>8, <3>1, <3>3 DEF Lengthened, Rewritten
      <4> QED BY <1>10, <3>1, <3>3, <4>1
    <3> QED BY <3>2, <3>3
  <2> QED BY <1>11, <2>1, <2>2 DEF SameTexts
<1>14. NativeInv'
  BY <1>2, <1>9, <1>11 DEF NativeInv
<1>15. /\ IInv /\ stage # "idle" /\ stage' = "replying" /\ outcome' = "none" /\ dec' \in AnthropicDecoder
       /\ labelled' = labelled /\ reply' \in Items /\ blocks' \in Messages /\ said' \in Nat
       /\ dec'.started /\ (dec'.stopped => stage' = "complete")
  <2>1. blocks # <<>>
    BY <1>2, <1>6 DEF Messages
  <2>2. said' \in Nat
    BY <1>1, <1>2 DEF Writes
  <2> QED BY <1>1, <1>2, <1>10, <2>1, <2>2
<1>16. Shows(view', blocks', Open(dec.byIndex)')
  BY <1>9, <1>12
<1> HIDE DEF chunk
<1> QED BY <1>9, <1>10, <1>12, <1>13, <1>14, <1>15, <1>16, AnthropicGoesOn

\* The end of a block, or of the call of a tool the provider runs
LEMMA AnthropicBlockStopKeeps ==
    ASSUME IInv, NEW k, AnthropicBlockStop(k)
    PROVE  IInv'
<1>f. PICK f : f = dec.byIndex
  OBVIOUS
<1>a. PICK at : at = Known(dec.byIndex, k)
  OBVIOUS
<1>1. /\ outcome = "none" /\ stage = "replying" /\ dec.api = "anthropic"
      /\ k \in OpenItems
      /\ reply' = [reply EXCEPT ![k].open = FALSE]
      /\ at # 0 => view' = FoldLeft(Shown, view, <<Closed(blocks[at].kind, at, blocks[at].text)>>)
      /\ at = 0 => view' = view
      /\ UNCHANGED <<labelled, said, stage, blocks, dec, outcome>>
  BY <1>a DEF AnthropicBlockStop, Replying, Api, Push
<1>2. /\ TypeInv /\ TextInv /\ NativeInv /\ Placed(f) /\ SameTexts(f)
      /\ reply \in Items /\ blocks \in Messages /\ said \in Nat /\ view \in Views
      /\ dec \in AnthropicDecoder /\ Shows(view, blocks, Open(f))
      /\ dec.stopped => stage = "complete"
      /\ blocks # <<>> => dec.started
  BY <1>1, <1>f, AnthropicReplying
<1>3. /\ reply' \in Items /\ DOMAIN reply' = DOMAIN reply
      /\ \A l \in DOMAIN reply : reply'[l].kind = reply[l].kind /\ reply'[l].text = reply[l].text
      /\ Placed(f)' /\ Blocked' = Blocked /\ ItemOf("native")' = ItemOf("native")
      /\ Open(f)' = IF k \in Blocked THEN Open(f) \ {f[k]} ELSE Open(f)
  BY <1>1, <1>2, PlacedEnds
<1>4. dec'.byIndex = f
  BY <1>1, <1>f
<1>5. Placed(dec.byIndex)' /\ Open(dec.byIndex)' = Open(f)'
  BY <1>3, <1>4 DEF Placed, Open
<1>6. SameTexts(dec.byIndex)'
  <2>1. Blocked \subseteq DOMAIN reply
    BY DEF Blocked
  <2> QED BY <1>1, <1>2, <1>3, <1>4, <2>1 DEF SameTexts
<1>7. TextInv'
  BY <1>1, <1>2, <1>3 DEF TextInv
<1>8. view' \in Views /\ view'.native = view.native
      /\ Shows(view', blocks, IF k \in Blocked THEN Open(f) \ {f[k]} ELSE Open(f))
  <2>1. CASE reply[k].kind = "native"
    <3>1. k \notin Blocked /\ k \notin DOMAIN f
      BY <1>2, <2>1, PlacedIs DEF Blocked
    <3>2. at = 0
      BY <1>a, <1>f, <3>1 DEF Known
    <3> QED BY <1>1, <1>2, <3>1, <3>2
  <2>2. CASE reply[k].kind # "native"
    <3>1. /\ k \in Blocked /\ k \in DOMAIN f
          /\ f[k] \in DOMAIN blocks /\ f[k] \in Open(f) /\ f[k] # 0
      BY <1>1, <1>2, <2>2, OpenBlock
    <3>2. at = f[k] /\ at # 0
      BY <1>a, <1>f, <3>1 DEF Known
    <3>3. view' = Shown(view, Closed(blocks[at].kind, at, blocks[at].text))
      BY <1>1, <3>2, PushedOne
    <3> DEFINE open == Open(f)
    <3>4. at \in open \cap DOMAIN blocks /\ Shows(view, blocks, open)
      BY <1>2, <3>1, <3>2
    <3> HIDE DEF open
    <3>5. LET w == Shown(view, Closed(blocks[at].kind, at, blocks[at].text)) IN
          w \in Views /\ w.native = view.native /\ Shows(w, blocks, open \ {at})
      BY <1>2, <3>4, ShowsEndAsIs
    <3> QED BY <3>1, <3>2, <3>3, <3>5 DEF open
  <2> QED BY <2>1, <2>2
<1>9. Shows(view', blocks', Open(dec.byIndex)')
  BY <1>1, <1>3, <1>5, <1>8
<1>10. NativeInv'
  BY <1>2, <1>3, <1>8 DEF NativeInv
<1>11. /\ IInv /\ stage # "idle" /\ stage' = "replying" /\ outcome' = "none" /\ dec' \in AnthropicDecoder
       /\ labelled' = labelled /\ reply' \in Items /\ blocks' \in Messages /\ said' \in Nat
       /\ (blocks' # <<>> => dec'.started) /\ (dec'.stopped => stage' = "complete")
  BY <1>1, <1>2, <1>3
<1> QED BY <1>5, <1>6, <1>7, <1>8, <1>9, <1>10, <1>11, AnthropicGoesOn

\* The result of a tool the provider has run
LEMMA AnthropicNativeResultKeeps ==
    ASSUME IInv, NEW k, AnthropicNativeResult(k)
    PROVE  IInv'
<1>f. PICK f : f = dec.byIndex
  OBVIOUS
<1>1. /\ outcome = "none" /\ stage = "replying" /\ dec.api = "anthropic"
      /\ k \in DOMAIN reply /\ reply[k].kind = "native" /\ view.native[k] = "called"
      /\ NativeResult(k)
      /\ UNCHANGED <<labelled, reply, said, stage, blocks, dec, outcome>>
  BY DEF AnthropicNativeResult, Replying, Api
<1>2. /\ TypeInv /\ TextInv /\ NativeInv /\ Placed(f) /\ SameTexts(f)
      /\ reply \in Items /\ blocks \in Messages /\ said \in Nat /\ view \in Views
      /\ dec \in AnthropicDecoder /\ Shows(view, blocks, Open(f))
      /\ dec.stopped => stage = "complete"
      /\ blocks # <<>> => dec.started
  BY <1>1, <1>f, AnthropicReplying
<1>3. k \in DOMAIN view.native /\ k \in ItemOf("native") /\ k \in Nat
  BY <1>1, <1>2 DEF NativeInv, ItemOf, Items
<1>4. view' \in Views /\ Shows(view', blocks, Open(f)) /\ DOMAIN view'.native = DOMAIN view.native \cup {k}
  <2>1. view.legal
    BY <1>2 DEF Shows
  <2> QED BY <1>1, <1>2, <1>3, <2>1, NativeShown
<1>5. /\ Placed(f)' /\ Open(f)' = Open(f) /\ Blocked' = Blocked /\ ItemOf("native")' = ItemOf("native")
  BY <1>1, <1>2, NothingMoves
<1>6. dec'.byIndex = f
  BY <1>1, <1>f
<1>7. Placed(dec.byIndex)' /\ Open(dec.byIndex)' = Open(f) /\ SameTexts(dec.byIndex)'
  <2>1. Placed(dec.byIndex)'
    BY <1>5, <1>6 DEF Placed
  <2>2. Open(dec.byIndex)' = Open(f)'
    BY <1>6 DEF Open
  <2>3. SameTexts(dec.byIndex)'
    BY <1>1, <1>2, <1>5, <1>6 DEF SameTexts
  <2> QED BY <1>5, <2>1, <2>2, <2>3
<1>8. TextInv' /\ NativeInv'
  <2>1. TextInv'
    BY <1>1, <1>2 DEF TextInv
  <2>2. NativeInv'
    BY <1>2, <1>3, <1>4, <1>5 DEF NativeInv
  <2> QED BY <2>1, <2>2
<1>9. Shows(view', blocks', Open(dec.byIndex)')
  BY <1>1, <1>4, <1>7
<1>10. /\ IInv /\ stage # "idle" /\ stage' = "replying" /\ outcome' = "none" /\ dec' \in AnthropicDecoder
       /\ labelled' = labelled /\ reply' \in Items /\ blocks' \in Messages /\ said' \in Nat
       /\ (blocks' # <<>> => dec'.started) /\ (dec'.stopped => stage' = "complete")
  BY <1>1, <1>2
<1> QED BY <1>4, <1>7, <1>8, <1>9, <1>10, AnthropicGoesOn

-----------------------------------------------------------------------------
(* Responses.                                                               *)

ResponsesDecoder == [api : {"responses"}, current : Nat, byItem : Tables]

\* The parts of ResponsesFiled
Said(f) == \A k \in Blocked : (reply[k].open /\ reply[k].text # <<>>) \/ blocks[f[k]].text = reply[k].text
Located(f) ==
  IF labelled THEN dec.byItem = f
  ELSE dec.byItem = <<>> /\ \A k \in OpenItems \cap Blocked : dec.current = f[k]

\* ResponsesFiled is its parts
LEMMA FiledParts ==
    ASSUME NEW f
    PROVE  ResponsesFiled(f) <=> Placed(f) /\ Shows(view, blocks, Open(f)) /\ Said(f) /\ Located(f)
BY DEF ResponsesFiled, Said, Located

\* What the actions of a decoder find
LEMMA ResponsesReplying ==
    ASSUME IInv, dec.api = "responses"
    PROVE  /\ TypeInv /\ TextInv /\ NativeInv /\ NativeCalled /\ OneAtATime
           /\ reply \in Items /\ blocks \in Messages /\ said \in Nat /\ view \in Views
           /\ dec \in ResponsesDecoder
           /\ \E f : Placed(f) /\ Shows(view, blocks, Open(f)) /\ Said(f) /\ Located(f)
           /\ stage = "complete" => OpenItems = {}
           /\ stage # "idle" /\ view.legal
<1>1. TypeInv /\ TextInv /\ IdleInv /\ ResponsesInv
  BY DEF IInv
<1>2. reply \in Items /\ blocks \in Messages /\ said \in Nat /\ view \in Views /\ dec \in ResponsesDecoder
  BY <1>1, DecoderOf DEF TypeInv, ResponsesDecoder
<1>3. stage # "idle"
  BY <1>1 DEF IdleInv
<1>4. NativeInv /\ NativeCalled /\ OneAtATime /\ (stage = "complete" => OpenItems = {})
      /\ \E f \in Places : ResponsesFiled(f)
  BY <1>1 DEF ResponsesInv
<1>5. PICK f \in Places : ResponsesFiled(f)
  BY <1>4
<1>6. Placed(f) /\ Shows(view, blocks, Open(f)) /\ Said(f) /\ Located(f)
  BY <1>5, FiledParts
<1>7. view.legal
  BY <1>6 DEF Shows
<1> QED BY <1>1, <1>2, <1>3, <1>4, <1>6, <1>7

\* ... and what is left to show of one that goes on
LEMMA ResponsesGoesOn ==
    ASSUME IInv, stage # "idle", stage' \in {"replying", "complete"}, outcome' \in {"none", "done", "error"},
           dec' \in ResponsesDecoder, labelled' = labelled,
           reply' \in Items, blocks' \in Messages, said' \in Nat, view' \in Views,
           TextInv', NativeInv', NativeCalled', OneAtATime', stage' = "complete" => OpenItems' = {},
           NEW f, Placed(f)', Shows(view', blocks', Open(f)'), Said(f)', Located(f)'
    PROVE  IInv'
<1>1. TypeInv
  BY DEF IInv
<1>2. dec'.api = "responses" /\ dec' \in Decoders
  BY DEF ResponsesDecoder, Decoders
<1>3. TypeInv'
  BY <1>1, <1>2 DEF TypeInv
<1>4. IdleInv' /\ CompletionsInv' /\ AnthropicInv' /\ GoogleInv'
  BY <1>2 DEF IdleInv, CompletionsInv, AnthropicInv, GoogleInv
<1>5. ResponsesFiled(f)'
  BY DEF ResponsesFiled, Said, Located
<1>6. f \in Places'
  BY DEF Placed
<1>7. ResponsesInv'
  BY <1>5, <1>6 DEF ResponsesInv
<1> QED BY <1>3, <1>4, <1>7 DEF IInv

\* The server finishes, or the body ends
LEMMA ResponsesCompleteKeeps ==
    ASSUME IInv, ResponsesComplete \/ ResponsesEnd
    PROVE  IInv'
<1>1. /\ dec.api = "responses" /\ stage \in {"replying", "complete"}
      /\ UNCHANGED <<labelled, reply, said, blocks, dec>>
      /\ stage' \in {"replying", "complete"} /\ outcome' \in {"none", "done", "error"}
      /\ stage' # stage => OpenItems = {}
      /\ view' = view \/ view' = FoldLeft(Shown, view, Ends(<<>>))
  BY DEF ResponsesComplete, ResponsesEnd, Complete, BodyEnds, Replying, Push, Api
<1>2. view' = view
  <2>1. DOMAIN Ends(<<>>) = {} /\ Ends(<<>>) = [i \in {} |-> Ends(<<>>)[i]]
    BY DEF Ends
  <2>2. Ends(<<>>) = <<>>
    BY <2>1
  <2> QED BY <1>1, <2>2, PushedNone
<1>3. /\ TypeInv /\ TextInv /\ NativeInv /\ NativeCalled /\ OneAtATime
      /\ reply \in Items /\ blocks \in Messages /\ said \in Nat /\ view \in Views
      /\ dec \in ResponsesDecoder
      /\ \E f : Placed(f) /\ Shows(view, blocks, Open(f)) /\ Said(f) /\ Located(f)
      /\ stage = "complete" => OpenItems = {}
      /\ stage # "idle"
  BY <1>1, ResponsesReplying
<1>4. PICK f : Placed(f) /\ Shows(view, blocks, Open(f)) /\ Said(f) /\ Located(f)
  BY <1>3
<1>5. Blocked' = Blocked /\ OpenItems' = OpenItems
  BY <1>1 DEF Blocked, OpenItems
<1>6. Places' = Places
  BY <1>1, <1>5 DEF Places
<1>7. Placed(f)' /\ Open(f)' = Open(f) /\ Said(f)' /\ Located(f)'
  <2>1. Placed(f)'
    BY <1>1, <1>4, <1>5, <1>6 DEF Placed
  <2>2. Open(f)' = Open(f)
    BY <1>5 DEF Open
  <2>3. Said(f)'
    BY <1>1, <1>4, <1>5 DEF Said
  <2>4. Located(f)'
    BY <1>1, <1>4, <1>5 DEF Located
  <2> QED BY <2>1, <2>2, <2>3, <2>4
<1>8. TextInv' /\ NativeInv' /\ NativeCalled' /\ OneAtATime'
  <2>1. TextInv'
    BY <1>1, <1>3 DEF TextInv
  <2>2. NativeInv'
    BY <1>1, <1>2, <1>3 DEF NativeInv, ItemOf
  <2>3. NativeCalled' /\ OneAtATime'
    BY <1>1, <1>2, <1>3, <1>5 DEF NativeCalled, OneAtATime
  <2> QED BY <2>1, <2>2, <2>3
<1>9. Shows(view', blocks', Open(f)')
  BY <1>1, <1>2, <1>4, <1>7
<1>10. /\ dec' \in ResponsesDecoder /\ labelled' = labelled
       /\ reply' \in Items /\ blocks' \in Messages /\ said' \in Nat /\ view' \in Views
       /\ stage' = "complete" => OpenItems' = {}
  BY <1>1, <1>2, <1>3, <1>5
<1> QED BY <1>1, <1>3, <1>7, <1>8, <1>9, <1>10, ResponsesGoesOn

\* The block of an item that is open
LEMMA ContentIndexIs ==
    ASSUME NEW f, Placed(f), Located(f), reply \in Items, blocks \in Messages,
           NEW k \in OpenItems, reply[k].kind # "native"
    PROVE  ContentIndex(k) = f[k] /\ Fits(k, f[k])
<1>1. /\ k \in Blocked /\ k \in DOMAIN f
      /\ f[k] # 0
      /\ blocks[f[k]].kind = reply[k].kind
  BY OpenBlock
<1>2. CASE labelled
  BY <1>1, <1>2 DEF Located, ContentIndex, Fits
<1>3. CASE ~labelled
  BY <1>1, <1>3 DEF Located, ContentIndex, Fits
<1> QED BY <1>2, <1>3

\* An item begins
LEMMA ResponsesItemKeeps ==
    ASSUME IInv, NEW kind \in Kinds, ResponsesItem(kind)
    PROVE  IInv'
<1> DEFINE k == Len(reply) + 1
           at == Len(blocks) + 1
<1>1. /\ outcome = "none" /\ stage = "replying" /\ dec.api = "responses"
      /\ labelled \/ OpenItems = {}
      /\ reply' = Append(reply, [kind |-> kind, open |-> TRUE, text |-> <<>>])
      /\ UNCHANGED <<labelled, said, stage, outcome>>
      /\ kind = "native" => NativeStarts(k) /\ blocks' = blocks /\ dec' = [dec EXCEPT !.current = 0]
      /\ kind # "native" =>
           /\ dec' = [dec EXCEPT !.current = at, !.byItem = IF labelled THEN With(@, k, at) ELSE @]
           /\ blocks' = NewBlock(kind)
           /\ view' = FoldLeft(Shown, view, <<Opened(kind, at)>>)
  BY DEF ResponsesItem, MayBegin, Replying, Api, NewItem, Push
<1>2. /\ TypeInv /\ TextInv /\ NativeInv /\ NativeCalled /\ OneAtATime
      /\ reply \in Items /\ blocks \in Messages /\ said \in Nat /\ view \in Views
      /\ dec \in ResponsesDecoder
      /\ \E f : Placed(f) /\ Shows(view, blocks, Open(f)) /\ Said(f) /\ Located(f)
  BY <1>1, ResponsesReplying
<1>3. PICK f : Placed(f) /\ Shows(view, blocks, Open(f)) /\ Said(f) /\ Located(f)
  BY <1>2
<1>n. k \in Nat /\ at \in Nat /\ labelled \in BOOLEAN
  BY <1>2 DEF Items, Messages, TypeInv
<1>4. CASE kind = "native"
  <2>1. /\ reply' \in Items
        /\ k \notin DOMAIN reply /\ DOMAIN reply' = DOMAIN reply \cup {k}
        /\ \A l \in DOMAIN reply : reply'[l] = reply[l]
        /\ reply'[k] = [kind |-> "native", open |-> TRUE, text |-> <<>>]
        /\ Blocked' = Blocked /\ k \notin Blocked /\ OpenItems' = OpenItems \cup {k}
        /\ Placed(f)' /\ Open(f)' = Open(f)
        /\ ItemOf("native")' = ItemOf("native") \cup {k} /\ k \notin ItemOf("native")
    BY <1>1, <1>2, <1>3, <1>4, PlacedAddsNative
  <2>2. dec' = [dec EXCEPT !.current = 0] /\ blocks' = blocks /\ NativeStarts(k) /\ labelled' = labelled
    BY <1>1, <1>4
  <2>3. dec' \in ResponsesDecoder /\ dec'.byItem = dec.byItem
    BY <1>2, <2>2 DEF ResponsesDecoder
  <2>4. Blocked \subseteq DOMAIN reply
    BY DEF Blocked
  <2>5. Said(f)'
    BY <1>3, <2>1, <2>2, <2>4 DEF Said
  <2>6. Located(f)'
    <3>1. CASE labelled
      BY <1>3, <2>2, <2>3, <3>1 DEF Located
    <3>2. CASE ~labelled
      <4>1. OpenItems' \cap Blocked' = {}
        BY <1>1, <2>1, <3>2
      <4> QED BY <1>3, <2>2, <2>3, <3>2, <4>1 DEF Located
    <3> QED BY <3>1, <3>2
  <2>7. k \notin DOMAIN view.native /\ view.legal
    BY <1>2, <1>3, <2>1 DEF NativeInv, Shows
  <2>8. /\ view' \in Views /\ Shows(view', blocks, Open(f)) /\ DOMAIN view'.native = DOMAIN view.native \cup {k}
        /\ \A l \in DOMAIN view.native : l # k => view'.native[l] = view.native[l]
        /\ view'.native[k] = "called"
    <3> HIDE DEF k
    <3> QED BY <1>2, <1>3, <1>n, <2>2, <2>7, NativeShown
  <2>9. NativeInv'
    BY <1>2, <2>1, <2>8 DEF NativeInv
  <2>10. NativeCalled'
    <3>1. SUFFICES ASSUME NEW l \in OpenItems' \ Blocked' PROVE view'.native[l] = "called"
      BY DEF NativeCalled
    <3>2. CASE l = k
      BY <2>8, <3>2
    <3>3. CASE l # k
      <4>1. l \in OpenItems \ Blocked
        BY <2>1, <3>3
      <4>2. l \in DOMAIN view.native
        BY <1>2, <4>1 DEF NativeInv, ItemOf, OpenItems, Blocked
      <4> QED BY <1>2, <2>8, <3>3, <4>1, <4>2 DEF NativeCalled
    <3> QED BY <3>2, <3>3
  <2>11. OneAtATime'
    BY <1>1, <1>2, <2>1, <2>2 DEF OneAtATime
  <2>12. TextInv'
    <3> HIDE DEF k
    <3> QED BY <1>1, <1>2, <1>4, <2>1, <2>2, TextsBegin
  <2>13. Shows(view', blocks', Open(f)')
    BY <2>1, <2>2, <2>8
  <2>14. /\ IInv /\ stage # "idle" /\ stage' = "replying" /\ outcome' = "none"
         /\ blocks' \in Messages /\ said' \in Nat /\ labelled' = labelled
    BY <1>1, <1>2, <2>2
  <2> HIDE DEF k, at
  <2> QED BY <2>1, <2>3, <2>5, <2>6, <2>8, <2>9, <2>10, <2>11, <2>12, <2>13, <2>14, ResponsesGoesOn
<1>5. CASE kind # "native"
  <2>0. kind \in Kinds \ {"native"} /\ blocks' = NewBlock(kind) /\ labelled' = labelled
    BY <1>1, <1>5
  <2>3. /\ reply' \in Items /\ blocks' \in Messages
        /\ k \notin DOMAIN reply /\ DOMAIN reply' = DOMAIN reply \cup {k} /\ Len(reply') = k
        /\ \A l \in DOMAIN reply : reply'[l] = reply[l]
        /\ reply'[k] = [kind |-> kind, open |-> TRUE, text |-> <<>>]
        /\ DOMAIN blocks' = DOMAIN blocks \cup {at} /\ \A i \in DOMAIN blocks : blocks'[i] = blocks[i]
        /\ blocks'[at] = [kind |-> kind, text |-> <<>>]
        /\ Blocked' = Blocked \cup {k} /\ ItemOf("native")' = ItemOf("native")
        /\ OpenItems' = OpenItems \cup {k}
        /\ \E g : /\ g = With(f, k, at)
                  /\ Placed(g)' /\ g \in Places' /\ Open(g)' = Open(f) \cup {at}
                  /\ g[k] = at /\ \A l \in Blocked : g[l] = f[l]
    BY <1>1, <1>2, <1>3, <2>0, PlacedAdds
  <2>4. PICK g : /\ g = With(f, k, at)
                 /\ Placed(g)' /\ g \in Places' /\ Open(g)' = Open(f) \cup {at}
                 /\ g[k] = at /\ \A l \in Blocked : g[l] = f[l]
    BY <2>3
  <2>5. dec.byItem \in Tables /\ dec.current \in Nat
    BY <1>2 DEF ResponsesDecoder
  <2>6. labelled => dec.byItem = f
    BY <1>3 DEF Located
  <2>7. labelled => g \in Tables
    BY <1>n, <2>4, <2>5, <2>6, WithTable
  <2>8. /\ dec' \in ResponsesDecoder /\ dec'.current = at
        /\ dec'.byItem = IF labelled THEN g ELSE dec.byItem
    <3> DEFINE t == IF labelled THEN g ELSE dec.byItem
    <3>1. dec' = [dec EXCEPT !.current = at, !.byItem = t]
      BY <1>1, <1>5, <2>4, <2>6
    <3>2. t \in Tables
      BY <2>5, <2>7
    <3> HIDE DEF t, at
    <3>3. dec' \in ResponsesDecoder /\ dec'.current = at /\ dec'.byItem = t
      BY <1>2, <1>n, <3>1, <3>2 DEF ResponsesDecoder
    <3> QED BY <3>3 DEF t
  <2>9. Located(g)'
    <3>1. CASE labelled
      BY <2>0, <2>8, <3>1 DEF Located
    <3>2. CASE ~labelled
      <4>1. OpenItems' \cap Blocked' \subseteq {k}
        BY <1>1, <2>3, <3>2
      <4>2. dec.byItem = <<>>
        BY <1>3, <3>2 DEF Located
      <4> QED BY <2>0, <2>4, <2>8, <3>2, <4>1, <4>2 DEF Located
    <3> QED BY <3>1, <3>2
  <2>10. Said(g)'
    <3>1. Blocked \subseteq DOMAIN reply /\ \A l \in Blocked : f[l] \in DOMAIN blocks
      BY <1>2, <1>3, PlacedIs
    <3>2. ASSUME NEW l \in Blocked
          PROVE (reply'[l].open /\ reply'[l].text # <<>>) \/ blocks'[g[l]].text = reply'[l].text
      <4>1. g[l] = f[l] /\ blocks'[f[l]] = blocks[f[l]] /\ reply'[l] = reply[l]
        BY <2>3, <2>4, <3>1
      <4>2. (reply[l].open /\ reply[l].text # <<>>) \/ blocks[f[l]].text = reply[l].text
        BY <1>3 DEF Said
      <4> QED BY <4>1, <4>2
    <3>3. blocks'[g[k]].text = reply'[k].text
      BY <2>3, <2>4
    <3> QED BY <2>3, <3>2, <3>3 DEF Said
  <2>11. view' = Shown(view, Opened(kind, at))
    BY <1>1, <1>5, PushedOne
  <2>12. view' \in Views /\ view'.native = view.native /\ Shows(view', blocks', Open(f) \cup {at})
    <3> DEFINE open == Open(f)
    <3>1. Shows(view, blocks, open)
      BY <1>3
    <3> HIDE DEF open
    <3>2. LET w == Shown(view, Opened(kind, Len(blocks) + 1)) IN
           /\ w \in Views /\ w.native = view.native
           /\ Shows(w, Append(blocks, [kind |-> kind, text |-> <<>>]), open \cup {Len(blocks) + 1})
      BY <1>2, <3>1, ShowsStart
    <3> QED BY <2>0, <2>11, <3>2 DEF open, NewBlock
  <2>13. TextInv'
    <3> HIDE DEF k, at
    <3> QED BY <1>1, <1>2, <2>3, TextsBegin
  <2>14. NativeInv' /\ NativeCalled' /\ OneAtATime'
    <3>1. NativeInv'
      BY <1>2, <2>3, <2>12 DEF NativeInv
    <3>2. OpenItems' \ Blocked' \subseteq OpenItems \ Blocked
      BY <2>3
    <3>3. NativeCalled'
      BY <1>2, <2>12, <3>2 DEF NativeCalled
    <3>4. OneAtATime'
      BY <1>1, <1>2, <2>0, <2>3 DEF OneAtATime
    <3> QED BY <3>1, <3>3, <3>4
  <2>15. Shows(view', blocks', Open(g)')
    BY <2>4, <2>12
  <2>16. /\ IInv /\ stage # "idle" /\ stage' = "replying" /\ outcome' = "none" /\ said' \in Nat
    BY <1>1, <1>2
  <2> HIDE DEF k, at
  <2> QED BY <2>0, <2>3, <2>4, <2>8, <2>9, <2>10, <2>12, <2>13, <2>14, <2>15, <2>16, ResponsesGoesOn
<1> QED BY <1>4, <1>5

\* Where only texts change and no item ends, the places stay
LEMMA ResponsesTextsChange ==
    ASSUME IInv, stage = "replying", outcome = "none", dec.api = "responses",
           UNCHANGED <<labelled, stage, dec, outcome>>,
           reply' \in Items, DOMAIN reply' = DOMAIN reply,
           \A l \in DOMAIN reply : reply'[l].kind = reply[l].kind /\ reply'[l].open = reply[l].open,
           blocks' \in Messages, DOMAIN blocks' = DOMAIN blocks,
           \A i \in DOMAIN blocks : blocks'[i].kind = blocks[i].kind,
           said' \in Nat, TextInv',
           NEW f, Placed(f), Located(f), Said(f)',
           view' \in Views, view'.native = view.native, Shows(view', blocks', Open(f))
    PROVE  IInv'
<1>1. /\ TypeInv /\ TextInv /\ NativeInv /\ NativeCalled /\ OneAtATime
      /\ reply \in Items /\ blocks \in Messages
      /\ dec \in ResponsesDecoder
  BY ResponsesReplying
<1>2. /\ Placed(f)' /\ Open(f)' = Open(f)
      /\ Blocked' = Blocked /\ OpenItems' = OpenItems /\ ItemOf("native")' = ItemOf("native")
  BY <1>1, PlacedKeeps
<1>3. Located(f)'
  BY <1>2 DEF Located
<1>4. NativeInv' /\ NativeCalled' /\ OneAtATime'
  <2>1. NativeInv'
    BY <1>1, <1>2 DEF NativeInv
  <2>2. NativeCalled'
    BY <1>1, <1>2 DEF NativeCalled
  <2>3. OneAtATime'
    BY <1>1, <1>2 DEF OneAtATime
  <2> QED BY <2>1, <2>2, <2>3
<1>5. Shows(view', blocks', Open(f)')
  BY <1>2
<1>6. /\ stage # "idle" /\ stage' = "replying" /\ outcome' = "none" /\ dec' \in ResponsesDecoder
      /\ labelled' = labelled
  BY <1>1
<1> QED BY <1>2, <1>3, <1>4, <1>5, <1>6, ResponsesGoesOn

\* A chunk, which is streamed or left for later
LEMMA ResponsesDeltaKeeps ==
    ASSUME IInv, NEW k, NEW sent \in BOOLEAN, ResponsesDelta(k, sent)
    PROVE  IInv'
<1> DEFINE chunk == <<said + 1>>
<1>1. /\ outcome = "none" /\ stage = "replying" /\ dec.api = "responses"
      /\ k \in OpenItems /\ reply[k].kind # "native" /\ Writes(k)
      /\ UNCHANGED <<labelled, stage, dec, outcome>>
  BY DEF ResponsesDelta, MayWrite, Replying, Api
<1>2. /\ TypeInv /\ TextInv
      /\ reply \in Items /\ blocks \in Messages /\ said \in Nat /\ view \in Views
      /\ \E f : Placed(f) /\ Shows(view, blocks, Open(f)) /\ Said(f) /\ Located(f)
  BY <1>1, ResponsesReplying
<1>3. PICK f : Placed(f) /\ Shows(view, blocks, Open(f)) /\ Said(f) /\ Located(f)
  BY <1>2
<1>4. /\ k \in Blocked /\ k \in DOMAIN reply /\ k \in DOMAIN f
      /\ f[k] \in DOMAIN blocks /\ f[k] \in Open(f) /\ f[k] # 0
      /\ blocks[f[k]].kind = reply[k].kind
  BY <1>1, <1>2, <1>3, OpenBlock
<1>5. ContentIndex(k) = f[k] /\ Fits(k, f[k])
  BY <1>1, <1>2, <1>3, ContentIndexIs
<1>6. chunk \in Texts
  BY <1>2, RisingBegins
<1>7. /\ blocks' = blocks \/ Lengthened(blocks, blocks', f[k], chunk)
      /\ view' \in Views /\ view'.native = view.native /\ Shows(view', blocks', Open(f))
  <2>1. CASE sent
    <3> DEFINE at == f[k]
               open == Open(f)
    <3>1. /\ blocks' = Extend(blocks, at, chunk)
          /\ view' = FoldLeft(Shown, view, <<Delta(blocks[at].kind, at, chunk)>>)
      BY <1>4, <1>5, <2>1 DEF ResponsesDelta, Push
    <3>2. view' = Shown(view, Delta(blocks[at].kind, at, chunk))
      BY <3>1, PushedOne
    <3>3. at \in open /\ Shows(view, blocks, open) /\ at \in DOMAIN blocks
      BY <1>3, <1>4
    <3> HIDE DEF at, open, chunk
    <3>4. Lengthened(blocks, blocks', at, chunk)
      BY <1>2, <1>6, <3>1, <3>3, ExtendRewrites
    <3>5. LET w == Shown(view, Delta(blocks[at].kind, at, chunk)) IN
          w \in Views /\ w.native = view.native /\ Shows(w, blocks', open)
      BY <1>2, <1>6, <3>3, <3>4, ShowsDelta
    <3> QED BY <3>2, <3>4, <3>5 DEF at, open
  <2>2. CASE ~sent
    <3>1. blocks' = blocks /\ view' = view
      BY <2>2 DEF ResponsesDelta
    <3> QED BY <1>2, <1>3, <3>1
  <2> QED BY <2>1, <2>2
<1>8. /\ TextInv'
      /\ reply' \in Items /\ DOMAIN reply' = DOMAIN reply
      /\ \A l \in DOMAIN reply : reply'[l].kind = reply[l].kind /\ reply'[l].open = reply[l].open
      /\ \A l \in DOMAIN reply : l # k => reply'[l] = reply[l]
      /\ reply'[k].text = Append(reply[k].text, said + 1)
      /\ blocks' \in Messages /\ DOMAIN blocks' = DOMAIN blocks
      /\ \A i \in DOMAIN blocks : blocks'[i].kind = blocks[i].kind
  BY <1>1, <1>2, <1>4, <1>7, TextsGrow
<1>9. Blocked' = Blocked
  BY <1>8 DEF Blocked
<1>10. Said(f)'
  <2>1. ASSUME NEW l \in Blocked
        PROVE (reply'[l].open /\ reply'[l].text # <<>>) \/ blocks'[f[l]].text = reply'[l].text
    <3>1. CASE l = k
      <4>1. reply[k].open
        BY <1>1 DEF OpenItems
      <4>2. reply[k].text \in Texts
        BY <1>2, <1>4, AnItem
      <4>3. Append(reply[k].text, said + 1) # <<>>
        <5>1. Len(Append(reply[k].text, said + 1)) = Len(reply[k].text) + 1 /\ Len(reply[k].text) \in Nat
          BY <4>2 DEF Texts
        <5>2. Len(<<>>) = 0
          OBVIOUS
        <5> DEFINE text == Append(reply[k].text, said + 1)
        <5>3. Len(text) # Len(<<>>)
          BY <5>1, <5>2
        <5> HIDE DEF text
        <5>4. text # <<>>
          BY <5>3, Zenon
        <5> QED BY <5>4 DEF text
      <4> QED BY <1>4, <1>8, <3>1, <4>1, <4>3
    <3>2. CASE l # k
      <4>1. l \in DOMAIN reply /\ f[l] \in DOMAIN blocks /\ f[l] # f[k]
        BY <1>2, <1>3, <1>4, <3>2, PlacedIs
      <4>2. blocks'[f[l]] = blocks[f[l]]
        BY <1>7, <4>1 DEF Lengthened, Rewritten
      <4>3. (reply[l].open /\ reply[l].text # <<>>) \/ blocks[f[l]].text = reply[l].text
        BY <1>3 DEF Said
      <4> QED BY <1>8, <3>2, <4>1, <4>2, <4>3
    <3> QED BY <3>1, <3>2
  <2> QED BY <1>9, <2>1 DEF Said
<1>11. said' \in Nat
  BY <1>1, <1>2 DEF Writes
<1> HIDE DEF chunk
<1> QED BY <1>1, <1>3, <1>7, <1>8, <1>10, <1>11, ResponsesTextsChange

\* What is missing completes the text
LEMMA MissingCompletes ==
    ASSUME NEW current \in Texts, NEW full \in Texts, Missing(current, full) # <<>>
    PROVE  Missing(current, full) \in Texts /\ current \o Missing(current, full) = full
<1>1. IsPrefix(current, full) /\ Missing(current, full) = SubSeq(full, Len(current) + 1, Len(full))
  BY DEF Missing
<1>2. Len(current) <= Len(full) /\ SubSeq(current, 1, Len(current)) = SubSeq(full, 1, Len(current))
  BY <1>1 DEF IsPrefix
<1> DEFINE m == Len(current)
           n == Len(full)
           rest == SubSeq(full, m + 1, n)
<1>3. m \in Nat /\ n \in Nat /\ DOMAIN current = 1..m /\ DOMAIN full = 1..n
  BY DEF Texts
<1>4. \A i \in 1..m : current[i] = full[i]
  <2>1. SUFFICES ASSUME NEW i \in 1..m PROVE current[i] = full[i]
    OBVIOUS
  <2>2. SubSeq(current, 1, m)[i] = current[i]
    BY <1>3 DEF Texts
  <2>3. SubSeq(full, 1, m)[i] = full[i]
    BY <1>2, <1>3 DEF Texts
  <2> QED BY <1>2, <2>2, <2>3
<1>5. rest \in Seq(Nat) /\ Len(rest) = n - m /\ \A i \in 1..(n - m) : rest[i] = full[m + i]
  <2>1. m + 1 \in Int /\ n \in Int /\ \A i \in (m + 1)..n : full[i] \in Nat
    BY <1>3 DEF Texts
  <2>2. /\ rest \in Seq(Nat)
        /\ Len(rest) = IF m + 1 <= n THEN n - (m + 1) + 1 ELSE 0
        /\ \A i \in 1..(n - (m + 1) + 1) : rest[i] = full[(m + 1) + i - 1]
    <3> DEFINE lo == m + 1
    <3>1. lo \in Int /\ n \in Int /\ \A i \in lo..n : full[i] \in Nat
      BY <2>1
    <3> HIDE DEF lo, n, m
    <3>2. /\ SubSeq(full, lo, n) \in Seq(Nat)
          /\ Len(SubSeq(full, lo, n)) = IF lo <= n THEN n - lo + 1 ELSE 0
          /\ \A i \in 1..(n - lo + 1) : SubSeq(full, lo, n)[i] = full[lo + i - 1]
      BY <3>1, SubSeqProperties
    <3> QED BY <3>2 DEF lo
  <2>a. m <= n
    BY <1>2
  <2> HIDE DEF rest, m, n
  <2>3. Len(rest) = n - m
    BY <1>3, <2>2, <2>a
  <2>4. ASSUME NEW i \in 1..(n - m) PROVE rest[i] = full[m + i]
    <3>1. i \in 1..(n - (m + 1) + 1) /\ (m + 1) + i - 1 = m + i
      BY <1>3
    <3> QED BY <2>2, <3>1
  <2> QED BY <2>2, <2>3, <2>4
<1>6. current \o rest \in Seq(Nat) /\ Len(current \o rest) = n
  <2>1. current \in Seq(Nat) /\ rest \in Seq(Nat)
    BY <1>5 DEF Texts
  <2> HIDE DEF rest, n
  <2>2. current \o rest \in Seq(Nat) /\ Len(current \o rest) = Len(current) + Len(rest)
    BY <2>1, ConcatProperties
  <2> QED BY <1>3, <1>5, <2>2
<1>7. \A i \in 1..n : (current \o rest)[i] = full[i]
  <2>1. SUFFICES ASSUME NEW i \in 1..n PROVE (current \o rest)[i] = full[i]
    OBVIOUS
  <2> HIDE DEF rest
  <2>2. CASE i <= m
    BY <1>3, <1>4, <1>5, <2>2 DEF Texts
  <2>3. CASE i > m
    <3>1. i - m \in 1..(n - m) /\ m + (i - m) = i
      BY <1>3, <2>3
    <3>2. (current \o rest)[i] = rest[i - m]
      BY <1>3, <1>5, <2>3 DEF Texts
    <3> QED BY <1>5, <3>1, <3>2
  <2>4. i \in Nat /\ (i <= m \/ i > m)
    BY <1>3, <2>1
  <2> HIDE DEF m, n
  <2> QED BY <2>2, <2>3, <2>4
<1>8. current \o rest = full
  <2>1. full \in Seq(Nat) /\ Len(full) = n
    BY DEF Texts
  <2> HIDE DEF rest, m, n
  <2> QED BY <1>6, <1>7, <2>1, SeqEqual
<1> QED BY <1>1, <1>5, <1>8 DEF Texts

\* The whole text completes what has been streamed of it
LEMMA ResponsesTextKeeps ==
    ASSUME IInv, NEW k, ResponsesText(k)
    PROVE  IInv'
<1>a. PICK at : at = ContentIndex(k)
  OBVIOUS
<1>m. PICK missing : missing = Missing(blocks[at].text, reply[k].text)
  OBVIOUS
<1> DEFINE full == reply[k].text
<1>1. /\ outcome = "none" /\ stage = "replying" /\ dec.api = "responses"
      /\ k \in OpenItems /\ reply[k].kind # "native" /\ missing # <<>>
      /\ blocks' = IF reply[k].kind = "call" THEN [blocks EXCEPT ![at].text = full]
                   ELSE Extend(blocks, at, missing)
      /\ view' = FoldLeft(Shown, view, <<Delta(reply[k].kind, at, missing)>>)
      /\ UNCHANGED <<labelled, reply, said, stage, dec, outcome>>
  BY <1>a, <1>m DEF ResponsesText, Replying, Api, Push
<1>2. /\ TypeInv /\ TextInv
      /\ reply \in Items /\ blocks \in Messages /\ said \in Nat /\ view \in Views
      /\ \E f : Placed(f) /\ Shows(view, blocks, Open(f)) /\ Said(f) /\ Located(f)
  BY <1>1, ResponsesReplying
<1>3. PICK f : Placed(f) /\ Shows(view, blocks, Open(f)) /\ Said(f) /\ Located(f)
  BY <1>2
<1>4. /\ k \in Blocked /\ k \in DOMAIN reply /\ k \in DOMAIN f
      /\ f[k] \in DOMAIN blocks /\ f[k] \in Open(f) /\ f[k] # 0
      /\ blocks[f[k]].kind = reply[k].kind
  BY <1>1, <1>2, <1>3, OpenBlock
<1>5. at = f[k]
  BY <1>1, <1>2, <1>3, <1>a, ContentIndexIs
<1>6. at \in DOMAIN blocks /\ at \in Open(f) /\ blocks[at].kind = reply[k].kind
  BY <1>4, <1>5
<1>7. full \in Texts /\ blocks[at].text \in Texts /\ Rising(full, said)
  BY <1>2, <1>4, <1>6, AnItem, ABlock DEF TextInv
<1>8. missing \in Texts /\ blocks[at].text \o missing = full
  <2> DEFINE current == blocks[at].text
  <2>1. current \in Texts /\ full \in Texts /\ Missing(current, full) # <<>> /\ missing = Missing(current, full)
    BY <1>1, <1>7, <1>m
  <2> HIDE DEF current, full
  <2>2. Missing(current, full) \in Texts /\ current \o Missing(current, full) = full
    BY <2>1, MissingCompletes
  <2> QED BY <2>1, <2>2 DEF current
<1>9. Rewritten(blocks, blocks', at, full)
  <2>1. CASE reply[k].kind = "call"
    <3>1. blocks' = [blocks EXCEPT ![at].text = full]
      BY <1>1, <2>1
    <3> HIDE DEF full
    <3> QED BY <1>2, <1>6, <1>7, <3>1, ReplaceRewrites
  <2>2. CASE reply[k].kind # "call"
    <3>1. blocks' = Extend(blocks, at, missing)
      BY <1>1, <2>2
    <3>2. Lengthened(blocks, blocks', at, missing)
      BY <1>2, <1>6, <1>8, <3>1, ExtendRewrites
    <3> QED BY <1>8, <3>2 DEF Lengthened
  <2> QED BY <2>1, <2>2
<1>10. Lengthened(blocks, blocks', at, missing)
  BY <1>8, <1>9 DEF Lengthened
<1>11. view' \in Views /\ view'.native = view.native /\ Shows(view', blocks', Open(f))
  <2> DEFINE open == Open(f)
  <2>1. view' = Shown(view, Delta(blocks[at].kind, at, missing))
    BY <1>1, <1>6, PushedOne
  <2>2. at \in open /\ Shows(view, blocks, open)
    BY <1>3, <1>6
  <2> HIDE DEF open
  <2>3. LET w == Shown(view, Delta(blocks[at].kind, at, missing)) IN
        w \in Views /\ w.native = view.native /\ Shows(w, blocks', open)
    BY <1>2, <1>8, <1>10, <2>2, ShowsDelta
  <2> QED BY <2>1, <2>3 DEF open
<1>12. /\ blocks' \in Messages /\ DOMAIN blocks' = DOMAIN blocks
       /\ \A i \in DOMAIN blocks : i # at => blocks'[i] = blocks[i]
       /\ blocks'[at].kind = blocks[at].kind /\ blocks'[at].text = full
  <2> HIDE DEF full
  <2> QED BY <1>2, <1>9, RewrittenPlaces
<1>13. TextInv'
  <2>1. \A l \in DOMAIN reply' : Rising(reply'[l].text, said')
    BY <1>1, <1>2 DEF TextInv
  <2>2. ASSUME NEW i \in DOMAIN blocks' PROVE Rising(blocks'[i].text, said')
    <3>1. CASE i = at
      BY <1>1, <1>7, <1>12, <3>1
    <3>2. CASE i # at
      BY <1>1, <1>2, <1>12, <3>2 DEF TextInv
    <3> QED BY <3>1, <3>2
  <2> QED BY <2>1, <2>2 DEF TextInv
<1>14. Said(f)'
  <2>1. Blocked' = Blocked
    BY <1>1 DEF Blocked
  <2>2. ASSUME NEW l \in Blocked
        PROVE (reply'[l].open /\ reply'[l].text # <<>>) \/ blocks'[f[l]].text = reply'[l].text
    <3>1. CASE l = k
      BY <1>1, <1>5, <1>12, <3>1
    <3>2. CASE l # k
      <4>1. f[l] \in DOMAIN blocks /\ f[l] # at
        BY <1>2, <1>3, <1>4, <1>5, <3>2, PlacedIs
      <4>2. (reply[l].open /\ reply[l].text # <<>>) \/ blocks[f[l]].text = reply[l].text
        BY <1>3 DEF Said
      <4> QED BY <1>1, <1>12, <4>1, <4>2
    <3> QED BY <3>1, <3>2
  <2> QED BY <2>1, <2>2 DEF Said
<1>15. /\ reply' \in Items /\ DOMAIN reply' = DOMAIN reply /\ said' \in Nat
       /\ \A l \in DOMAIN reply : reply'[l].kind = reply[l].kind /\ reply'[l].open = reply[l].open
       /\ \A i \in DOMAIN blocks : blocks'[i].kind = blocks[i].kind
  BY <1>1, <1>2, <1>12
<1> HIDE DEF full
<1> QED BY <1>1, <1>3, <1>11, <1>12, <1>13, <1>14, <1>15, ResponsesTextsChange

\* The end of an item gives its block the text of the item
LEMMA ResponsesItemDoneKeeps ==
    ASSUME IInv, NEW k, ResponsesItemDone(k)
    PROVE  IInv'
<1>a. PICK at : at = ContentIndex(k)
  OBVIOUS
<1>1. /\ outcome = "none" /\ stage = "replying" /\ dec.api = "responses"
      /\ k \in OpenItems
      /\ reply' = [reply EXCEPT ![k].open = FALSE]
      /\ dec' = [dec EXCEPT !.current = 0]
      /\ reply[k].kind = "native" => NativeResult(k) /\ blocks' = blocks
      /\ reply[k].kind # "native" /\ at # 0 =>
           /\ blocks' = IF reply[k].text = <<>> THEN blocks ELSE [blocks EXCEPT ![at].text = reply[k].text]
           /\ view' = FoldLeft(Shown, view, <<Closed(reply[k].kind, at, blocks'[at].text)>>)
      /\ UNCHANGED <<labelled, said, stage, outcome>>
  BY <1>a DEF ResponsesItemDone, Replying, Api, Push
<1>2. /\ TypeInv /\ TextInv /\ NativeInv /\ NativeCalled /\ OneAtATime
      /\ reply \in Items /\ blocks \in Messages /\ said \in Nat /\ view \in Views /\ view.legal
      /\ dec \in ResponsesDecoder
      /\ \E f : Placed(f) /\ Shows(view, blocks, Open(f)) /\ Said(f) /\ Located(f)
  BY <1>1, ResponsesReplying
<1>3. PICK f : Placed(f) /\ Shows(view, blocks, Open(f)) /\ Said(f) /\ Located(f)
  BY <1>2
<1>k. k \in DOMAIN reply /\ k \in Nat
  BY <1>1, <1>2 DEF OpenItems, Items
\* What the end does to the blocks and to what has been shown
<1>4. /\ blocks' \in Messages /\ DOMAIN blocks' = DOMAIN blocks
      /\ \A i \in DOMAIN blocks : blocks'[i].kind = blocks[i].kind
      /\ \A l \in Blocked : l # k => blocks'[f[l]] = blocks[f[l]]
      /\ k \in Blocked => blocks'[f[k]].text = reply[k].text
      /\ \A i \in DOMAIN blocks : blocks'[i] = blocks[i] \/ blocks'[i].text = reply[k].text
      /\ view' \in Views /\ DOMAIN view'.native = DOMAIN view.native
      /\ \A l \in DOMAIN view.native : l # k => view'.native[l] = view.native[l]
      /\ Shows(view', blocks', IF k \in Blocked THEN Open(f) \ {f[k]} ELSE Open(f))
  <2>1. CASE reply[k].kind = "native"
    <3>1. k \notin Blocked /\ NativeResult(k) /\ blocks' = blocks
      BY <1>1, <2>1 DEF Blocked
    <3>2. k \in DOMAIN view.native /\ view.native[k] = "called"
      BY <1>1, <1>2, <1>k, <2>1, <3>1 DEF NativeInv, NativeCalled, ItemOf
    <3>3. /\ view' \in Views /\ Shows(view', blocks, Open(f))
          /\ DOMAIN view'.native = DOMAIN view.native \cup {k}
          /\ \A l \in DOMAIN view.native : l # k => view'.native[l] = view.native[l]
      BY <1>2, <1>3, <1>k, <3>1, <3>2, NativeShown
    <3> QED BY <1>2, <3>1, <3>2, <3>3
  <2>2. CASE reply[k].kind # "native"
    <3>1. /\ k \in Blocked /\ k \in DOMAIN f
          /\ f[k] \in DOMAIN blocks /\ f[k] \in Open(f) /\ f[k] # 0
          /\ blocks[f[k]].kind = reply[k].kind
      BY <1>1, <1>2, <1>3, <2>2, OpenBlock
    <3>2. at = f[k]
      BY <1>1, <1>2, <1>3, <1>a, <2>2, ContentIndexIs
    <3>t. PICK text : text = reply[k].text
      OBVIOUS
    <3>3. /\ blocks' = IF text = <<>> THEN blocks ELSE [blocks EXCEPT ![at].text = text]
          /\ view' = FoldLeft(Shown, view, <<Closed(blocks[at].kind, at, blocks'[at].text)>>)
      BY <1>1, <2>2, <3>1, <3>2, <3>t
    <3>4. text \in Texts
      BY <1>2, <3>1, <3>t, <1>k, AnItem
    <3>5. text = <<>> => blocks[at].text = text
      BY <1>3, <3>1, <3>2, <3>t DEF Said
    <3>6. at \in DOMAIN blocks
      BY <3>1, <3>2
    <3>7. Rewritten(blocks, blocks', at, text)
      <4>1. CASE text = <<>>
        BY <1>2, <3>3, <3>5, <3>6, <4>1 DEF Rewritten
      <4>2. CASE text # <<>>
        BY <1>2, <3>3, <3>4, <3>6, <4>2, ReplaceRewrites
      <4> QED BY <4>1, <4>2
    <3>8. /\ blocks' \in Messages /\ DOMAIN blocks' = DOMAIN blocks
          /\ \A i \in DOMAIN blocks : i # at => blocks'[i] = blocks[i]
          /\ blocks'[at].kind = blocks[at].kind /\ blocks'[at].text = text
      BY <1>2, <3>7, RewrittenPlaces
    <3>9. view' = Shown(view, Closed(blocks[at].kind, at, text))
      BY <3>3, <3>8, PushedOne
    <3>10. view' \in Views /\ view'.native = view.native /\ Shows(view', blocks', Open(f) \ {at})
      <4> DEFINE open == Open(f)
      <4>1. at \in open /\ Shows(view, blocks, open)
        BY <1>3, <3>1, <3>2
      <4> HIDE DEF open
      <4>2. LET w == Shown(view, Closed(blocks[at].kind, at, text)) IN
            w \in Views /\ w.native = view.native /\ Shows(w, blocks', open \ {at})
        BY <1>2, <3>4, <3>7, <4>1, ShowsEnd
      <4> QED BY <3>9, <4>2 DEF open
    <3>11. \A l \in Blocked : l # k => f[l] \in DOMAIN blocks /\ f[l] # at
      BY <1>2, <1>3, <3>1, <3>2, PlacedIs
    <3> QED BY <3>1, <3>2, <3>t, <3>8, <3>10, <3>11
  <2> QED BY <2>1, <2>2
<1>5. /\ reply' \in Items /\ DOMAIN reply' = DOMAIN reply
      /\ \A l \in DOMAIN reply : reply'[l].kind = reply[l].kind /\ reply'[l].text = reply[l].text
      /\ \A l \in DOMAIN reply : l # k => reply'[l] = reply[l]
      /\ ~reply'[k].open
      /\ Placed(f)'
      /\ Blocked' = Blocked /\ OpenItems' = OpenItems \ {k} /\ ItemOf("native")' = ItemOf("native")
      /\ Open(f)' = IF k \in Blocked THEN Open(f) \ {f[k]} ELSE Open(f)
  BY <1>1, <1>2, <1>3, <1>4, PlacedEnds
<1>6. TextInv'
  <2>1. \A l \in DOMAIN reply' : Rising(reply'[l].text, said')
    BY <1>1, <1>2, <1>5 DEF TextInv
  <2>2. \A i \in DOMAIN blocks' : Rising(blocks'[i].text, said')
    <3>1. SUFFICES ASSUME NEW i \in DOMAIN blocks PROVE Rising(blocks'[i].text, said)
      BY <1>1, <1>4
    <3>2. Rising(blocks[i].text, said) /\ Rising(reply[k].text, said)
      BY <1>2, <1>k DEF TextInv
    <3> QED BY <1>4, <3>2
  <2> QED BY <2>1, <2>2 DEF TextInv
<1>7. Said(f)'
  <2>1. ASSUME NEW l \in Blocked
        PROVE (reply'[l].open /\ reply'[l].text # <<>>) \/ blocks'[f[l]].text = reply'[l].text
    <3>1. CASE l = k
      BY <1>4, <1>5, <1>k, <3>1
    <3>2. CASE l # k
      <4>1. (reply[l].open /\ reply[l].text # <<>>) \/ blocks[f[l]].text = reply[l].text
        BY <1>3 DEF Said
      <4>2. l \in DOMAIN reply
        BY DEF Blocked
      <4> QED BY <1>4, <1>5, <3>2, <4>1, <4>2
    <3> QED BY <3>1, <3>2
  <2> QED BY <1>5, <2>1 DEF Said
<1>8. dec' \in ResponsesDecoder /\ dec'.byItem = dec.byItem
  BY <1>1, <1>2 DEF ResponsesDecoder
<1>9. Located(f)'
  <2>1. CASE labelled
    BY <1>1, <1>3, <1>8, <2>1 DEF Located
  <2>2. CASE ~labelled
    <3>1. OpenItems' = {}
      BY <1>1, <1>2, <1>5, <2>2 DEF OneAtATime
    <3> QED BY <1>1, <1>3, <1>8, <2>2, <3>1 DEF Located
  <2> QED BY <2>1, <2>2
<1>10. NativeInv' /\ NativeCalled' /\ OneAtATime'
  <2>1. NativeInv'
    BY <1>2, <1>4, <1>5 DEF NativeInv
  <2>2. NativeCalled'
    <3>1. SUFFICES ASSUME NEW l \in OpenItems' \ Blocked' PROVE view'.native[l] = "called"
      BY DEF NativeCalled
    <3>2. l \in OpenItems \ Blocked /\ l # k
      BY <1>5
    <3>3. l \in DOMAIN view.native
      BY <1>2, <3>2 DEF NativeInv, ItemOf, OpenItems, Blocked
    <3> QED BY <1>2, <1>4, <3>2, <3>3 DEF NativeCalled
  <2>3. OneAtATime'
    BY <1>1, <1>2, <1>5 DEF OneAtATime
  <2> QED BY <2>1, <2>2, <2>3
<1>11. Shows(view', blocks', Open(f)')
  BY <1>4, <1>5
<1>12. /\ IInv /\ stage # "idle" /\ stage' = "replying" /\ outcome' = "none" /\ said' \in Nat
       /\ labelled' = labelled
  BY <1>1, <1>2
<1> QED BY <1>4, <1>5, <1>6, <1>7, <1>8, <1>9, <1>10, <1>11, <1>12, ResponsesGoesOn

-----------------------------------------------------------------------------
(* The invariant holds.                                                     *)

\* Before anything happens, the invariant holds
LEMMA InitInv == Init => IInv
<1> SUFFICES ASSUME Init PROVE IInv
  OBVIOUS
<1>1. /\ labelled \in BOOLEAN /\ reply = <<>> /\ said = 0 /\ stage = "idle" /\ blocks = <<>>
      /\ view = [blocks |-> <<>>, native |-> <<>>, legal |-> TRUE]
      /\ outcome = "none" /\ dec = [api |-> "none"]
  BY DEF Init, ReplyInit
<1>2. <<>> \in Natives
  <2>1. <<>> \in [{} -> {"called", "answered"}]
    OBVIOUS
  <2> QED BY <2>1 DEF Natives
<1>3. <<>> \in Items /\ <<>> \in Messages
  BY DEF Items, Messages
<1>4. view \in Views
  <2> DEFINE none == <<>>
  <2>1. none \in Natives /\ none \in Items
    BY <1>2, <1>3
  <2>2. view = [blocks |-> none, native |-> none, legal |-> TRUE]
    BY <1>1
  <2> HIDE DEF none
  <2> QED BY <2>1, <2>2 DEF Views
<1>5. TypeInv
  BY <1>1, <1>3, <1>4 DEF TypeInv, Decoders
<1>6. TextInv
  BY <1>1 DEF TextInv
<1>7. IdleInv
  BY <1>1 DEF IdleInv
<1>8. CompletionsInv /\ AnthropicInv /\ ResponsesInv /\ GoogleInv
  BY <1>1 DEF CompletionsInv, AnthropicInv, ResponsesInv, GoogleInv
<1> QED BY <1>5, <1>6, <1>7, <1>8 DEF IInv

\* A step in which nothing changes
LEMMA StutterKeeps ==
    ASSUME IInv, UNCHANGED vars
    PROVE  IInv'
<1>1. UNCHANGED <<labelled, reply, said, stage, blocks, dec>> /\ UNCHANGED <<view, outcome>>
  BY DEF vars
<1>2. /\ TypeInv /\ TextInv /\ IdleInv
      /\ CompletionsInv /\ AnthropicInv /\ ResponsesInv /\ GoogleInv
  BY DEF IInv
<1>3. TypeInv' /\ TextInv' /\ IdleInv'
  <2>1. TypeInv'
    BY <1>1, <1>2 DEF TypeInv
  <2>2. TextInv'
    BY <1>1, <1>2 DEF TextInv
  <2>3. IdleInv'
    BY <1>1, <1>2 DEF IdleInv
  <2> QED BY <2>1, <2>2, <2>3
<1>4. Done' <=> Done
  BY <1>1 DEF Done
<1>5. CompletionsInv'
  BY <1>1, <1>2, <1>4, NothingMoves DEF CompletionsInv
<1>6. AnthropicInv'
  BY <1>1, <1>2, <1>4, NothingMoves DEF AnthropicInv, NativeInv
<1>7. ResponsesInv'
  <2>1. SUFFICES ASSUME dec.api = "responses" PROVE ResponsesInv'
    BY <1>1 DEF ResponsesInv
  <2>2. PICK f \in Places : ResponsesFiled(f)
    BY <1>2, <2>1 DEF ResponsesInv
  <2>3. ResponsesFiled(f)'
    BY <1>1, <2>2, NothingMoves DEF ResponsesFiled
  <2>4. f \in Places'
    BY <1>1, <2>2, NothingMoves
  <2> QED BY <1>1, <1>2, <2>1, <2>3, <2>4, NothingMoves DEF ResponsesInv, NativeInv, NativeCalled, OneAtATime
<1>8. GoogleInv'
  BY <1>1, <1>2, <1>4, NothingMoves DEF GoogleInv
<1> QED BY <1>3, <1>5, <1>6, <1>7, <1>8 DEF IInv

\* Every step of every decoder keeps the invariant
LEMMA NextKeeps ==
    ASSUME IInv, [Next]_vars
    PROVE  IInv'
<1>1. CASE UNCHANGED vars
  BY <1>1, StutterKeeps
<1>2. CASE \E d \in States : StartsWith(d)
  BY <1>2, StartKeeps
<1>3. CASE Refused \/ Breaks
  BY <1>3, FailureKeeps
<1>4. CASE \E kind \in {"text", "thinking"} : CompletionsText(kind)
  BY <1>4, CompletionsTextKeeps
<1>5. CASE \E k \in 1..MaxItems, names \in {{"index"}, {"id"}, {"index", "id"}} : CompletionsCall(k, names)
  BY <1>5, CompletionsCallKeeps
<1>6. CASE CompletionsFinish
  BY <1>6, CompletionsFinishKeeps
<1>7. CASE CompletionsEnd
  BY <1>7, CompletionsEndKeeps
<1>8. CASE \E kind \in Kinds : ResponsesItem(kind)
  BY <1>8, ResponsesItemKeeps
<1>9. CASE \E k \in DOMAIN reply, sent \in BOOLEAN : ResponsesDelta(k, sent)
  <2>1. PICK k \in DOMAIN reply, sent \in BOOLEAN : ResponsesDelta(k, sent)
    BY <1>9
  <2> QED BY <2>1, ResponsesDeltaKeeps
<1>10. CASE \E k \in DOMAIN reply : ResponsesText(k)
  BY <1>10, ResponsesTextKeeps
<1>11. CASE \E k \in DOMAIN reply : ResponsesItemDone(k)
  BY <1>11, ResponsesItemDoneKeeps
<1>12. CASE ResponsesComplete \/ ResponsesEnd
  BY <1>12, ResponsesCompleteKeeps
<1>13. CASE AnthropicMessage
  BY <1>13, AnthropicMessageKeeps
<1>14. CASE \E kind \in Kinds : AnthropicBlock(kind)
  BY <1>14, AnthropicBlockKeeps
<1>15. CASE \E k \in DOMAIN reply : AnthropicDelta(k)
  BY <1>15, AnthropicDeltaKeeps
<1>16. CASE \E k \in DOMAIN reply : AnthropicBlockStop(k)
  BY <1>16, AnthropicBlockStopKeeps
<1>17. CASE \E k \in DOMAIN reply : AnthropicNativeResult(k)
  BY <1>17, AnthropicNativeResultKeeps
<1>18. CASE AnthropicStop
  BY <1>18, AnthropicStopKeeps
<1>19. CASE AnthropicEnd
  BY <1>19, AnthropicEndKeeps
<1>20. CASE \E kind \in {"text", "thinking"} : GoogleText(kind)
  BY <1>20, GoogleTextKeeps
<1>21. CASE GoogleCall
  BY <1>21, GoogleCallKeeps
<1>22. CASE GoogleFinish
  BY <1>22, GoogleFinishKeeps
<1>23. CASE GoogleEnd
  BY <1>23, GoogleEndKeeps
<1> QED BY <1>1, <1>2, <1>3, <1>4, <1>5, <1>6, <1>7, <1>8, <1>9, <1>10, <1>11, <1>12, <1>13, <1>14,
           <1>15, <1>16, <1>17, <1>18, <1>19, <1>20, <1>21, <1>22, <1>23 DEF Next

\* Whatever the server writes and wherever it breaks off, the decoder's tables, its message, the
\* items of the reply and what a reader has been shown agree with each other
THEOREM InvariantHolds == Spec => []IInv
<1>1. Init => IInv
  BY InitInv
<1>2. IInv /\ [Next]_vars => IInv'
  BY NextKeeps
<1> QED BY <1>1, <1>2, PTL DEF Spec

-----------------------------------------------------------------------------
(* What it says of a reply.                                                 *)

\* Where blocks and items are the same, an item's block is in its place
LEMMA SamePlaces ==
    ASSUME TypeInv, Same
    PROVE  \E f \in Places : \A k \in Blocked : SameContent(blocks[f[k]], reply[k])
<1> DEFINE f == [k \in Blocked |-> k]
<1>1. reply \in Items /\ blocks \in Messages
  BY DEF TypeInv
<1>2. Blocked = DOMAIN reply /\ DOMAIN blocks = DOMAIN reply /\ DOMAIN reply \subseteq Nat
  BY <1>1 DEF Blocked, Same, Items, Messages
<1>3. f \in [Blocked -> DOMAIN blocks]
  BY <1>2
<1>4. f \in Places
  BY <1>2, <1>3 DEF Places
<1>5. \A k \in Blocked : SameContent(blocks[f[k]], reply[k])
  BY <1>2 DEF Same
<1> QED BY <1>4, <1>5

\* A reply that is complete is the message, and its events have shown it
LEMMA WholeReply ==
    ASSUME IInv, outcome = "done", stage = "complete"
    PROVE  /\ \E f \in Places : \A k \in Blocked : SameContent(blocks[f[k]], reply[k])
           /\ Shows(view, blocks, {})
<1>1. /\ TypeInv /\ IdleInv
      /\ CompletionsInv /\ AnthropicInv /\ ResponsesInv /\ GoogleInv
  BY DEF IInv
<1>2. Done
  BY DEF Done
<1>3. dec.api \in {"completions", "responses", "anthropic", "google"}
  BY <1>1, DecoderOf DEF IdleInv, TypeInv, Decoders
<1>4. CASE dec.api = "completions"
  BY <1>1, <1>2, <1>4, SamePlaces DEF CompletionsInv
<1>5. CASE dec.api = "google"
  BY <1>1, <1>2, <1>5, SamePlaces DEF GoogleInv
<1>6. CASE dec.api = "anthropic"
  <2>1. /\ Placed(dec.byIndex) /\ OpenItems = {} /\ Shows(view, blocks, Open(dec.byIndex))
        /\ \A k \in Blocked : blocks[dec.byIndex[k]].text = reply[k].text
    BY <1>1, <1>6 DEF AnthropicInv
  <2>2. Open(dec.byIndex) = {}
    BY <2>1 DEF Open
  <2> QED BY <2>1, <2>2 DEF Placed, SameContent
<1>7. CASE dec.api = "responses"
  <2>1. PICK f \in Places : ResponsesFiled(f)
    BY <1>1, <1>7 DEF ResponsesInv
  <2>2. OpenItems = {}
    BY <1>1, <1>7 DEF ResponsesInv
  <2>3. Placed(f) /\ Shows(view, blocks, Open(f)) /\ Said(f)
    BY <2>1, FiledParts
  <2>4. Open(f) = {}
    BY <2>2 DEF Open
  <2>5. \A k \in Blocked : ~reply[k].open
    BY <2>2 DEF OpenItems, Blocked
  <2>6. \A k \in Blocked : SameContent(blocks[f[k]], reply[k])
    BY <2>3, <2>5 DEF Said, Placed, SameContent
  <2> QED BY <2>1, <2>3, <2>4, <2>6
<1> QED BY <1>3, <1>4, <1>5, <1>6, <1>7

\* The events make sense from the first to the last
LEMMA AlwaysLegal ==
    ASSUME IInv
    PROVE  view.legal
<1>1. /\ TypeInv /\ IdleInv
      /\ CompletionsInv /\ AnthropicInv /\ ResponsesInv /\ GoogleInv
  BY DEF IInv
<1>2. dec.api \in {"none", "completions", "responses", "anthropic", "google"}
  BY <1>1, DecoderOf DEF TypeInv, Decoders
<1>3. CASE dec.api = "none"
  BY <1>1, <1>3 DEF IdleInv
<1>4. CASE dec.api = "completions"
  BY <1>1, <1>4 DEF CompletionsInv, Shows
<1>5. CASE dec.api = "google"
  BY <1>1, <1>5 DEF GoogleInv, Shows
<1>6. CASE dec.api = "anthropic"
  BY <1>1, <1>6 DEF AnthropicInv, Shows
<1>7. CASE dec.api = "responses"
  <2>1. PICK f \in Places : ResponsesFiled(f)
    BY <1>1, <1>7 DEF ResponsesInv
  <2> QED BY <2>1 DEF ResponsesFiled, Shows
<1> QED BY <1>2, <1>3, <1>4, <1>5, <1>6, <1>7

\* No chunk is in a block twice or out of order
LEMMA TextsRise ==
    ASSUME IInv, NEW b \in DOMAIN blocks, NEW i \in 1..said, NEW j \in 1..said,
           i < j, j \in DOMAIN blocks[b].text
    PROVE  blocks[b].text[i] < blocks[b].text[j]
<1>1. TypeInv /\ TextInv
  BY DEF IInv
<1>2. blocks[b].text \in Seq(Nat) /\ said \in Nat
  <2>1. blocks \in Messages /\ said \in Nat
    BY <1>1 DEF TypeInv
  <2> QED BY <2>1, ABlock DEF Texts
<1>3. i \in DOMAIN blocks[b].text
  BY <1>2
<1> QED BY <1>1, <1>3 DEF TextInv, Rising

\* A reply the server completed is the message, block by block, with no chunk lost, filed under
\* another block, twice or out of order; and its events have shown just that: all the decoders, for
\* any number of items and chunks, in any interleaving the API allows
THEOREM EventsAreTheReply == Spec => []ReaderHasTheReply
<1>1. IInv => ReaderHasTheReply
  <2> SUFFICES ASSUME IInv PROVE ReaderHasTheReply
    OBVIOUS
  <2>1. view.legal
    BY AlwaysLegal
  <2>2. ASSUME outcome = "done", stage = "complete"
        PROVE  /\ \E f \in Places : \A k \in Blocked : SameContent(blocks[f[k]], reply[k])
               /\ Len(view.blocks) = Len(blocks)
               /\ \A i \in DOMAIN blocks : SameContent(view.blocks[i], blocks[i]) /\ ~view.blocks[i].open
    BY <2>2, WholeReply DEF Shows
  <2>3. MessageIsTheReply
    BY <2>2, TextsRise DEF MessageIsTheReply
  <2> QED BY <2>1, <2>2, <2>3 DEF ReaderHasTheReply
<1> QED BY <1>1, InvariantHolds, PTL

\* A completions or Anthropic message that was cut off is never reported as done
THEOREM CutOffIsReported == Spec => []CutOffIsAnError
<1>1. IInv => CutOffIsAnError
  <2> SUFFICES ASSUME IInv, outcome = "done", dec.api \in {"completions", "anthropic"}, blocks # <<>>
               PROVE  stage = "complete"
    BY DEF CutOffIsAnError
  <2>1. CompletionsInv /\ AnthropicInv
    BY DEF IInv
  <2>2. CASE dec.api = "completions"
    BY <2>1, <2>2 DEF CompletionsInv, Done
  <2>3. CASE dec.api = "anthropic"
    BY <2>1, <2>3 DEF AnthropicInv, Done
  <2> QED BY <2>2, <2>3
<1> QED BY <1>1, InvariantHolds, PTL

-----------------------------------------------------------------------------
(* Sequences of sequences, one after the other. *)

IsSeq(s) == s \in Seq({s[i] : i \in DOMAIN s})

\* The places of a sequence are numbered from one
LEMMA SeqIs ==
    ASSUME NEW s, IsSeq(s)
    PROVE  Len(s) \in Nat /\ DOMAIN s = 1..Len(s)
BY LenProperties DEF IsSeq

\* A function on 1..n is a sequence
LEMMA ListIs ==
    ASSUME NEW n \in Nat, NEW s, s = [i \in 1..n |-> s[i]]
    PROVE  IsSeq(s) /\ Len(s) = n
<1> DEFINE S == {s[i] : i \in DOMAIN s}
<1>1. DOMAIN s = 1..n
  OBVIOUS
<1>2. \A i \in 1..n : s[i] \in S
  BY <1>1
<1> HIDE DEF S
<1>3. s \in Seq(S)
  BY <1>2, IsASeq
<1>4. Len(s) \in Nat /\ DOMAIN s = 1..Len(s)
  BY <1>3, LenProperties
<1>5. Len(s) = n
  BY <1>1, <1>4
<1> QED BY <1>3, <1>5 DEF IsSeq, S

\* a is s followed by t
Joined(a, s, t) ==
  /\ IsSeq(a) /\ Len(a) = Len(s) + Len(t)
  /\ \A k \in 1..Len(s) : a[k] = s[k]
  /\ \A k \in 1..Len(t) : a[Len(s) + k] = t[k]

\* One sequence after another
LEMMA ConcatIs ==
    ASSUME NEW s, IsSeq(s), NEW t, IsSeq(t)
    PROVE  Joined(s \o t, s, t)
<1> DEFINE S == {s[i] : i \in DOMAIN s} \cup {t[i] : i \in DOMAIN t}
           a == s \o t
<1>1. s \in Seq(S) /\ t \in Seq(S)
  <2>1. {s[i] : i \in DOMAIN s} \subseteq S /\ {t[i] : i \in DOMAIN t} \subseteq S
    OBVIOUS
  <2> HIDE DEF S
  <2> QED BY <2>1, SeqMonotonic DEF IsSeq
<1> HIDE DEF S
<1>2. /\ a \in Seq(S) /\ Len(a) = Len(s) + Len(t)
      /\ \A i \in 1..(Len(s) + Len(t)) : a[i] = IF i <= Len(s) THEN s[i] ELSE t[i - Len(s)]
  BY <1>1, ConcatProperties
<1>3. Len(s) \in Nat /\ Len(t) \in Nat
  BY SeqIs
<1> HIDE DEF a
<1>4. \A k \in 1..Len(s) : a[k] = s[k]
  BY <1>2, <1>3
<1>5. \A k \in 1..Len(t) : a[Len(s) + k] = t[k]
  <2> TAKE k \in 1..Len(t)
  <2>1. Len(s) + k \in 1..(Len(s) + Len(t)) /\ ~(Len(s) + k <= Len(s)) /\ (Len(s) + k) - Len(s) = k
    BY <1>3
  <2> QED BY <1>2, <2>1
<1>6. IsSeq(a)
  <2> DEFINE A == {a[i] : i \in DOMAIN a}
  <2>1. a = [i \in 1..Len(a) |-> a[i]] /\ Len(a) \in Nat
    BY <1>2, LenProperties
  <2> QED BY <2>1, ListIs
<1> QED BY <1>2, <1>4, <1>5, <1>6 DEF a, Joined

\* What flattening computes, a step at a time
Joins(f, n, h) == h = [i \in 1..n |-> IF i = 1 THEN f[i] ELSE h[i - 1] \o f[i]]

\* There is such a function for every length
LEMMA JoinExists ==
    ASSUME NEW f, NEW n \in Nat
    PROVE  \E h : Joins(f, n, h)
<1> DEFINE B == {m \in Nat : ~\E h : Joins(f, m, h)}
<1>1. SUFFICES B = {}
  OBVIOUS
<1>2. CASE B # {}
  <2>1. PICK m \in B : \A j \in B : ~(j < m)
    <3>1. B \subseteq Nat
      OBVIOUS
    <3> HIDE DEF B
    <3> QED BY <1>2, <3>1, LeastNumber
  <2>2. CASE m = 0
    <3> DEFINE h == [i \in 1..0 |-> 0]
    <3>1. h = [i \in 1..0 |-> IF i = 1 THEN f[i] ELSE h[i - 1] \o f[i]]
      OBVIOUS
    <3> HIDE DEF h
    <3>2. Joins(f, 0, h)
      BY <3>1 DEF Joins
    <3> QED BY <2>1, <2>2, <3>2
  <2>3. CASE m # 0
    <3>1. m > 0 /\ m \in Nat /\ m - 1 \in Nat /\ m - 1 \notin B
      BY <2>1, <2>3
    <3>2. PICK g : Joins(f, m - 1, g)
      BY <3>1
    <3> DEFINE h == [i \in 1..m |-> IF i = m THEN (IF m = 1 THEN f[m] ELSE g[m - 1] \o f[m]) ELSE g[i]]
    <3>3. \A i \in 1..(m - 1) : g[i] = IF i = 1 THEN f[i] ELSE g[i - 1] \o f[i]
      BY <3>2 DEF Joins
    <3>4. ASSUME NEW i \in 1..m PROVE h[i] = IF i = 1 THEN f[i] ELSE h[i - 1] \o f[i]
      <4>1. CASE i = m /\ i # 1
        <5>1. m - 1 \in 1..m /\ m - 1 # m
          BY <3>1, <4>1
        <5>2. h[m - 1] = g[m - 1]
          BY <5>1
        <5> QED BY <4>1, <5>2
      <4>2. CASE i = m /\ i = 1
        BY <4>2
      <4>3. CASE i # m /\ i # 1
        <5>1. i \in 1..(m - 1) /\ i - 1 \in 1..m /\ i - 1 # m
          BY <3>1, <4>3
        <5>2. h[i] = g[i] /\ h[i - 1] = g[i - 1]
          BY <4>3, <5>1
        <5> QED BY <3>3, <4>3, <5>1, <5>2
      <4>4. CASE i # m /\ i = 1
        <5>1. i \in 1..(m - 1)
          BY <3>1, <4>4
        <5>2. h[i] = g[i]
          BY <4>4, <5>1
        <5> QED BY <3>3, <4>4, <5>1, <5>2
      <4> QED BY <4>1, <4>2, <4>3, <4>4
    <3>5. h = [i \in 1..m |-> h[i]]
      OBVIOUS
    <3> HIDE DEF h
    <3>6. h = [i \in 1..m |-> IF i = 1 THEN f[i] ELSE h[i - 1] \o f[i]]
      BY <3>4, <3>5
    <3>7. Joins(f, m, h)
      BY <3>6 DEF Joins
    <3> QED BY <2>1, <3>7
  <2> QED BY <2>2, <2>3
<1> QED BY <1>2

\* What FlattenSeq returns
LEMMA FlattenIsAJoin ==
    ASSUME NEW f, IsSeq(f), Len(f) # 0
    PROVE  \E h : Joins(f, Len(f), h) /\ FlattenSeq(f) = h[Len(f)]
<1> DEFINE P(x) == Joins(f, Len(f), x)
           h == CHOOSE x : P(x)
<1>1. Len(f) \in Nat
  BY SeqIs
<1>2. \E x : P(x)
  BY <1>1, JoinExists
<1>3. FlattenSeq(f) = h[Len(f)]
  BY Zenon DEF FlattenSeq, Joins
<1> HIDE DEF P
<1>4. P(h)
  BY <1>2, Zenon
<1> HIDE DEF h
<1>5. Joins(f, Len(f), h) /\ FlattenSeq(f) = h[Len(f)]
  BY <1>3, <1>4 DEF P
<1> QED BY <1>5

\* g is the members of f one after the other, the i-th after st[i - 1] places
Laid(f, g, st) ==
  /\ st[0] = 0 /\ \A i \in 0..Len(f) : st[i] \in Nat
  /\ \A i \in 1..Len(f) : st[i] = st[i - 1] + Len(f[i])
  /\ IsSeq(g) /\ Len(g) = st[Len(f)]
  /\ \A i \in 1..Len(f) : \A k \in 1..Len(f[i]) : g[st[i - 1] + k] = f[i][k]

\* The starts of the members rise
LEMMA StartsRise ==
    ASSUME NEW f, IsSeq(f), NEW g, NEW st, Laid(f, g, st),
           \A i \in DOMAIN f : IsSeq(f[i])
    PROVE  \A j \in 0..Len(f) : \A i \in 0..j : st[i] <= st[j]
<1> DEFINE n == Len(f)
           B == {j \in 0..n : ~\A i \in 0..j : st[i] <= st[j]}
<1>0. n \in Nat /\ DOMAIN f = 1..n /\ \A i \in 1..n : Len(f[i]) \in Nat
  BY SeqIs
<1>1. SUFFICES B = {}
  OBVIOUS
<1>2. CASE B # {}
  <2>1. PICK j \in B : \A i \in B : ~(i < j)
    <3>1. B \subseteq Nat
      OBVIOUS
    <3> HIDE DEF B
    <3> QED BY <1>2, <3>1, LeastNumber
  <2>2. j # 0
    BY <2>1 DEF Laid
  <2>3. j \in 1..n /\ j - 1 \in 0..n /\ j - 1 \notin B
    BY <1>0, <2>1, <2>2
  <2>4. \A i \in 0..(j - 1) : st[i] <= st[j - 1]
    BY <2>3
  <2>5. st[j] = st[j - 1] + Len(f[j]) /\ st[j] \in Nat /\ st[j - 1] \in Nat /\ Len(f[j]) \in Nat
    BY <1>0, <2>3 DEF Laid
  <2>6. \A i \in 0..j : st[i] <= st[j]
    <3> TAKE i \in 0..j
    <3>1. CASE i = j
      BY <2>5, <3>1
    <3>2. CASE i # j
      <4>1. i \in 0..(j - 1) /\ i \in 0..n
        BY <1>0, <2>3, <3>2
      <4>2. st[i] \in Nat
        BY <4>1 DEF Laid
      <4> QED BY <2>4, <2>5, <4>1, <4>2
    <3> QED BY <3>1, <3>2
  <2> QED BY <2>1, <2>6
<1> QED BY <1>2

\* e is f and one more, x
Longer(e, f, x) ==
  IsSeq(e) /\ Len(e) = Len(f) + 1 /\ (\A i \in 1..Len(f) : e[i] = f[i]) /\ e[Len(f) + 1] = x

\* One more member
LEMMA LaidMore ==
    ASSUME NEW f, IsSeq(f), \A i \in DOMAIN f : IsSeq(f[i]), NEW x, IsSeq(x),
           NEW g, NEW st, Laid(f, g, st), NEW e, Longer(e, f, x)
    PROVE  \E u : Laid(e, g \o x, u)
<1> DEFINE n == Len(f)
           u == [i \in 0..Len(e) |-> IF i = Len(e) THEN Len(g) + Len(x) ELSE st[i]]
           b == g \o x
<1>1. n \in Nat /\ Len(e) = n + 1 /\ DOMAIN f = 1..n /\ Len(g) \in Nat /\ Len(x) \in Nat /\ IsSeq(g)
      /\ Len(g) = st[n]
  BY SeqIs DEF Laid, Longer
<1>0. IsSeq(e) /\ (\A i \in 1..n : e[i] = f[i]) /\ e[n + 1] = x
  BY DEF Longer
<1>2. /\ IsSeq(b) /\ Len(b) = Len(g) + Len(x)
      /\ \A k \in 1..Len(g) : b[k] = g[k]
      /\ \A k \in 1..Len(x) : b[Len(g) + k] = x[k]
  <2>1. Joined(b, g, x)
    BY <1>1, ConcatIs
  <2> HIDE DEF b
  <2> QED BY <2>1 DEF Joined
<1>3. u[n + 1] = Len(g) + Len(x) /\ \A i \in 0..n : u[i] = st[i]
  BY <1>1
<1> HIDE DEF u, b
<1>4. u[0] = 0 /\ \A i \in 0..Len(e) : u[i] \in Nat
  <2>1. \A i \in 0..n : u[i] \in Nat
    BY <1>1, <1>3 DEF Laid
  <2>2. u[n + 1] \in Nat
    BY <1>1, <1>3
  <2>3. \A i \in 0..(n + 1) : i \in 0..n \/ i = n + 1
    BY <1>1
  <2>4. u[0] = 0
    BY <1>1, <1>3 DEF Laid
  <2> QED BY <1>1, <2>1, <2>2, <2>3, <2>4
<1>5. \A i \in 1..Len(e) : u[i] = u[i - 1] + Len(e[i])
  <2> TAKE i \in 1..Len(e)
  <2>1. CASE i = n + 1
    <3>1. i - 1 = n /\ u[n] = Len(g) /\ e[i] = x
      BY <1>0, <1>1, <1>3, <2>1
    <3> QED BY <1>3, <2>1, <3>1
  <2>2. CASE i # n + 1
    <3>1. i \in 1..n /\ i \in 0..n /\ i - 1 \in 0..n /\ e[i] = f[i]
      BY <1>0, <1>1, <2>2
    <3>2. st[i] = st[i - 1] + Len(f[i])
      BY <3>1 DEF Laid
    <3> QED BY <1>3, <3>1, <3>2
  <2> QED BY <2>1, <2>2
<1>6. \A i \in 1..Len(e) : \A k \in 1..Len(e[i]) : b[u[i - 1] + k] = e[i][k]
  <2> TAKE i \in 1..Len(e)
  <2> TAKE k \in 1..Len(e[i])
  <2>1. CASE i = n + 1
    <3>1. i - 1 = n /\ u[n] = Len(g) /\ e[i] = x
      BY <1>0, <1>1, <1>3, <2>1
    <3> QED BY <1>2, <3>1
  <2>2. CASE i # n + 1
    <3>1. i \in 1..n /\ i - 1 \in 0..n /\ e[i] = f[i] /\ n \in 0..n /\ i \in 0..n
      BY <1>0, <1>1, <2>2
    <3>2. st[i] <= st[n] /\ st[i] = st[i - 1] + Len(f[i]) /\ st[i - 1] \in Nat /\ st[i] \in Nat
      BY <1>1, <3>1, StartsRise DEF Laid
    <3>3. g[st[i - 1] + k] = f[i][k]
      BY <3>1 DEF Laid
    <3>4. Len(f[i]) \in Nat
      BY <1>1, <3>1, SeqIs
    <3>5. k \in 1..Len(f[i])
      BY <3>1
    <3>6. st[i - 1] + k \in 1..Len(g)
      BY <1>1, <3>2, <3>4, <3>5
    <3> QED BY <1>2, <1>3, <3>1, <3>3, <3>6
  <2> QED BY <2>1, <2>2
<1>7. u[Len(e)] = Len(b)
  BY <1>1, <1>2, <1>3
<1>8. Laid(e, b, u)
  BY <1>2, <1>4, <1>5, <1>6, <1>7 DEF Laid
<1> QED BY <1>8 DEF b

\* What flattening a sequence of sequences returns
LEMMA FlattenIs ==
    ASSUME NEW f, IsSeq(f), \A i \in DOMAIN f : IsSeq(f[i])
    PROVE  \E st : Laid(f, FlattenSeq(f), st)
<1> DEFINE n == Len(f)
<1>0. n \in Nat /\ DOMAIN f = 1..n
  BY SeqIs
<1>1. CASE n = 0
  <2> DEFINE st == [i \in 0..0 |-> 0]
  <2>1. FlattenSeq(f) = f
    BY <1>1 DEF FlattenSeq
  <2>2. st[0] = 0
    OBVIOUS
  <2> HIDE DEF st
  <2>3. Laid(f, f, st)
    BY <1>1, <2>2 DEF Laid
  <2> QED BY <2>1, <2>3
<1>2. CASE n # 0
  <2>1. PICK h : Joins(f, n, h) /\ FlattenSeq(f) = h[n]
    BY <1>2, FlattenIsAJoin
  <2>2. \A i \in 1..n : h[i] = IF i = 1 THEN f[i] ELSE h[i - 1] \o f[i]
    BY <2>1 DEF Joins
  <2> DEFINE Upto(m) == [i \in 1..m |-> f[i]]
             B == {m \in 1..n : ~\E st : Laid(Upto(m), h[m], st)}
  <2>3. ASSUME NEW m \in 0..n
        PROVE  IsSeq(Upto(m)) /\ Len(Upto(m)) = m /\ DOMAIN Upto(m) = 1..m /\ \A i \in 1..m : Upto(m)[i] = f[i] /\ IsSeq(f[i])
    <3> DEFINE a == Upto(m)
    <3>1. a = [i \in 1..m |-> a[i]] /\ m \in Nat
      BY <1>0
    <3>2. IsSeq(a) /\ Len(a) = m
      <4> HIDE DEF a
      <4> QED BY <3>1, ListIs
    <3>3. \A i \in 1..m : IsSeq(f[i])
      BY <1>0
    <3> QED BY <3>2, <3>3
  <2>4. B = {}
    <3>1. SUFFICES ASSUME B # {} PROVE FALSE
      OBVIOUS
    <3>2. PICK m \in B : \A i \in B : ~(i < m)
      <4>1. B \subseteq Nat
        OBVIOUS
      <4> HIDE DEF B
      <4> QED BY <3>1, <4>1, LeastNumber
    <3>3. m \in 1..n /\ m - 1 \in 0..n /\ m \in 0..n /\ m \in Nat
      BY <1>0, <3>2
    <3> HIDE DEF Upto
    <3>4. IsSeq(f[m]) /\ Upto(m)[m] = f[m]
      BY <2>3, <3>3
    <3>5. CASE m = 1
      <4> DEFINE st == [i \in 0..1 |-> IF i = 0 THEN 0 ELSE Len(f[1])]
      <4>1. st[0] = 0 /\ st[1] = Len(f[1]) /\ h[1] = f[1] /\ Len(f[1]) \in Nat
        BY <2>2, <3>3, <3>4, <3>5, SeqIs
      <4> HIDE DEF st
      <4>2. Len(Upto(1)) = 1 /\ Upto(1)[1] = f[1] /\ IsSeq(f[1])
        BY <2>3, <3>3, <3>4, <3>5
      <4>3. Laid(Upto(1), h[1], st)
        <5>1. \A i \in 0..1 : st[i] \in Nat
          BY <4>1
        <5>2. \A i \in 1..1 : i = 1 /\ i - 1 = 0
          OBVIOUS
        <5>3. \A i \in 1..1 : st[i] = st[i - 1] + Len(Upto(1)[i])
          BY <4>1, <4>2, <5>2
        <5>4. \A i \in 1..1 : \A k \in 1..Len(Upto(1)[i]) : h[1][st[i - 1] + k] = Upto(1)[i][k]
          BY <4>1, <4>2, <5>2
        <5> QED BY <4>1, <4>2, <5>1, <5>3, <5>4 DEF Laid
      <4> QED BY <3>2, <3>5, <4>3
    <3>6. CASE m # 1
      <4>1. m - 1 \in 1..n /\ m - 1 < m
        BY <3>3, <3>6
      <4>2. PICK st : Laid(Upto(m - 1), h[m - 1], st)
        BY <3>2, <4>1
      <4>3. h[m] = h[m - 1] \o f[m]
        BY <2>2, <3>3, <3>6
      <4>4. /\ IsSeq(Upto(m - 1)) /\ Len(Upto(m - 1)) = m - 1
            /\ \A i \in DOMAIN Upto(m - 1) : IsSeq(Upto(m - 1)[i])
        BY <2>3, <3>3
      <4>5. /\ IsSeq(Upto(m)) /\ Len(Upto(m)) = m
            /\ \A i \in 1..(m - 1) : Upto(m)[i] = Upto(m - 1)[i]
        <5>1. \A i \in 1..(m - 1) : i \in 1..m
          BY <3>3
        <5> QED BY <2>3, <3>3, <5>1
      <4>6. Longer(Upto(m), Upto(m - 1), f[m])
        BY <3>3, <3>4, <4>4, <4>5 DEF Longer
      <4>7. \E u : Laid(Upto(m), h[m - 1] \o f[m], u)
        BY <3>4, <4>2, <4>4, <4>6, LaidMore
      <4> QED BY <3>2, <4>3, <4>7
    <3> QED BY <3>5, <3>6
  <2>5. n \in 1..n
    BY <1>0, <1>2
  <2>6. PICK st : Laid(Upto(n), h[n], st)
    BY <2>4, <2>5
  <2>7. Len(Upto(n)) = n /\ \A i \in 1..n : Upto(n)[i] = f[i]
    BY <1>0, <2>3
  <2> HIDE DEF Upto
  <2>8. Laid(f, h[n], st)
    BY <2>6, <2>7 DEF Laid
  <2> QED BY <2>1, <2>8
<1> QED BY <1>1, <1>2

\* Where the k-th of the i-th is
Starts(f) == CHOOSE st : Laid(f, FlattenSeq(f), st)
Spot(f, i, k) == Starts(f)[i - 1] + k

\* A sequence of sequences
Nested(f) == IsSeq(f) /\ \A i \in DOMAIN f : IsSeq(f[i])

\* Everything is at its spot, nothing else is there, and in the same order
LEMMA SpotsAre ==
    ASSUME NEW f, Nested(f)
    PROVE  LET g == FlattenSeq(f)
           IN  /\ IsSeq(g) /\ DOMAIN g = 1..Len(g) /\ Len(g) \in Nat
               /\ \A i \in DOMAIN f : \A k \in DOMAIN f[i] :
                    Spot(f, i, k) \in DOMAIN g /\ Spot(f, i, k) \in Nat /\ g[Spot(f, i, k)] = f[i][k]
               /\ \A p \in DOMAIN g : \E i \in DOMAIN f : \E k \in DOMAIN f[i] : p = Spot(f, i, k)
               /\ \A i, j \in DOMAIN f : \A k \in DOMAIN f[i], l \in DOMAIN f[j] :
                    i < j \/ (i = j /\ k < l) => Spot(f, i, k) < Spot(f, j, l)
<1> DEFINE g == FlattenSeq(f)
           st == Starts(f)
           n == Len(f)
<1>1. Laid(f, g, st)
  <2> DEFINE P(x) == Laid(f, g, x)
  <2>1. \E x : P(x)
    BY FlattenIs DEF Nested
  <2>2. st = CHOOSE x : P(x)
    BY DEF Starts
  <2> HIDE DEF P, st
  <2>3. P(st)
    BY <2>1, <2>2, Zenon
  <2> QED BY <2>3 DEF P
<1>2. n \in Nat /\ DOMAIN f = 1..n /\ \A i \in 1..n : IsSeq(f[i])
  BY SeqIs DEF Nested
<1>3. \A i \in 1..n : Len(f[i]) \in Nat /\ DOMAIN f[i] = 1..Len(f[i])
  BY <1>2, SeqIs
<1>4. \A j \in 0..n : \A i \in 0..j : st[i] <= st[j]
  BY <1>1, StartsRise DEF Nested
<1>5. /\ st[0] = 0 /\ \A i \in 0..n : st[i] \in Nat
      /\ \A i \in 1..n : st[i] = st[i - 1] + Len(f[i])
      /\ IsSeq(g) /\ Len(g) = st[n]
      /\ \A i \in 1..n : \A k \in 1..Len(f[i]) : g[st[i - 1] + k] = f[i][k]
  BY <1>1 DEF Laid
<1>6. Len(g) \in Nat /\ DOMAIN g = 1..Len(g)
  BY <1>5, SeqIs
<1>7. \A i, k : Spot(f, i, k) = st[i - 1] + k
  BY DEF Spot
<1> HIDE DEF g, st, n
<1>8. ASSUME NEW i \in 1..n, NEW k \in 1..Len(f[i])
      PROVE  /\ st[i - 1] + k \in 1..Len(g) /\ st[i - 1] + k \in Nat /\ st[i - 1] + k <= st[i]
             /\ st[i - 1] < st[i - 1] + k
  <2>1. i \in 0..n /\ i - 1 \in 0..n /\ n \in 0..n /\ i \in 0..n
    BY <1>2
  <2>2. st[i] <= st[n] /\ st[i] = st[i - 1] + Len(f[i]) /\ st[i - 1] \in Nat /\ st[i] \in Nat /\ st[n] \in Nat
    BY <1>2, <1>4, <1>5, <2>1
  <2>3. k \in Nat /\ k >= 1 /\ k <= Len(f[i]) /\ Len(f[i]) \in Nat
    BY <1>3
  <2> QED BY <1>5, <2>2, <2>3
<1>9. \A p \in 1..Len(g) : \E i \in 1..n : \E k \in 1..Len(f[i]) : p = st[i - 1] + k
  <2> TAKE p \in 1..Len(g)
  <2> DEFINE S == {i \in 0..n : p <= st[i]}
  <2>1. n \in S
    BY <1>2, <1>5
  <2>2. PICK i \in S : \A j \in S : ~(j < i)
    <3>1. S \subseteq Nat /\ S # {}
      BY <1>2, <2>1
    <3> HIDE DEF S
    <3> QED BY <3>1, LeastNumber
  <2>3. i # 0
    BY <1>5, <2>2
  <2>4. i \in 1..n /\ i - 1 \in 0..n /\ i - 1 < i
    BY <1>2, <2>2, <2>3
  <2>5. ~(p <= st[i - 1]) /\ p <= st[i]
    BY <2>2, <2>4
  <2>6. st[i] = st[i - 1] + Len(f[i]) /\ st[i - 1] \in Nat /\ Len(f[i]) \in Nat
    BY <1>3, <1>5, <2>4
  <2>7. p - st[i - 1] \in 1..Len(f[i]) /\ p = st[i - 1] + (p - st[i - 1])
    BY <1>6, <2>5, <2>6
  <2> QED BY <2>4, <2>7
<1>10. ASSUME NEW i \in 1..n, NEW j \in 1..n, NEW k \in 1..Len(f[i]), NEW l \in 1..Len(f[j]),
              i < j \/ (i = j /\ k < l)
       PROVE  st[i - 1] + k < st[j - 1] + l
  <2>1. CASE i < j
    <3>1. i \in 0..(j - 1) /\ j - 1 \in 0..n /\ i \in 0..n
      BY <1>2, <2>1
    <3>2. st[i] <= st[j - 1] /\ st[i] \in Nat /\ st[j - 1] \in Nat
      BY <1>4, <1>5, <3>1
    <3>3. st[i - 1] + k <= st[i] /\ st[j - 1] < st[j - 1] + l /\ st[i - 1] + k \in Nat /\ st[j - 1] + l \in Nat
      BY <1>8
    <3> QED BY <3>2, <3>3
  <2>2. CASE i = j /\ k < l
    <3>1. i - 1 \in 0..n
      BY <1>2
    <3>2. st[i - 1] \in Nat
      BY <1>5, <3>1
    <3> QED BY <2>2, <3>2
  <2> QED BY <1>10, <2>1, <2>2
<1>11. \A i \in DOMAIN f : \A k \in DOMAIN f[i] :
         Spot(f, i, k) \in DOMAIN g /\ Spot(f, i, k) \in Nat /\ g[Spot(f, i, k)] = f[i][k]
  <2> TAKE i \in DOMAIN f
  <2> TAKE k \in DOMAIN f[i]
  <2>1. i \in 1..n /\ k \in 1..Len(f[i])
    BY <1>2, <1>3
  <2>2. st[i - 1] + k \in 1..Len(g) /\ st[i - 1] + k \in Nat /\ g[st[i - 1] + k] = f[i][k]
    BY <1>5, <1>8, <2>1
  <2>3. Spot(f, i, k) = st[i - 1] + k
    BY <1>7
  <2> QED BY <1>6, <2>2, <2>3
<1>12. \A p \in DOMAIN g : \E i \in DOMAIN f : \E k \in DOMAIN f[i] : p = Spot(f, i, k)
  <2> TAKE p \in DOMAIN g
  <2>1. PICK i \in 1..n : \E k \in 1..Len(f[i]) : p = st[i - 1] + k
    BY <1>6, <1>9
  <2>2. PICK k \in 1..Len(f[i]) : p = st[i - 1] + k
    BY <2>1
  <2>3. i \in DOMAIN f /\ k \in DOMAIN f[i] /\ p = Spot(f, i, k)
    BY <1>2, <1>3, <1>7, <2>2
  <2> QED BY <2>3
<1>13. \A i, j \in DOMAIN f : \A k \in DOMAIN f[i], l \in DOMAIN f[j] :
            i < j \/ (i = j /\ k < l) => Spot(f, i, k) < Spot(f, j, l)
  <2> TAKE i, j \in DOMAIN f
  <2> TAKE k \in DOMAIN f[i], l \in DOMAIN f[j]
  <2> HAVE i < j \/ (i = j /\ k < l)
  <2>1. i \in 1..n /\ j \in 1..n /\ k \in 1..Len(f[i]) /\ l \in 1..Len(f[j])
    BY <1>2, <1>3
  <2>2. st[i - 1] + k < st[j - 1] + l
    BY <1>10, <2>1
  <2> QED BY <1>7, <2>2
<1> QED BY <1>5, <1>6, <1>11, <1>12, <1>13 DEF g

-----------------------------------------------------------------------------
(* The messages of a session.                                               *)

\* The form of the ids a model makes
NativeForm(m) == IF m = "openrouter" THEN "odd"
                 ELSE IF m \in {"openai", "gateway"} THEN "pair" ELSE "plain"
\* An id as m makes it
OwnId(m, id) == /\ id = Id(id.of, id.at, NativeForm(m)) /\ id.of \in Nat /\ id.at \in Nat
                /\ id.of = 0 <=> m = "openrouter"

\* The parts of a reply: its calls are its last parts, each with an id of its own
Spoke(m, parts) ==
  /\ IsSeq(parts)
  /\ \A k \in DOMAIN parts :
       /\ parts[k].kind \in {"text", "thinking", "signed", "blank", "call"}
       /\ parts[k].kind = "call" =>
            /\ parts[k] = Call(parts[k].id) /\ OwnId(m, parts[k].id)
            /\ \A l \in DOMAIN parts : l > k => parts[l].kind = "call"
            /\ \A l \in DOMAIN parts : l # k /\ parts[l].kind = "call" => parts[l].id.at # parts[k].id.at
Sound(msg) ==
  \/ msg.role = "user" /\ msg = User(msg.parts) /\ msg.parts \in Contents
  \/ msg.role = "toolResult" /\ msg = Result(msg.id, msg.parts) /\ msg.parts \in Contents
  \/ /\ msg.role = "assistant" /\ msg = Assistant(msg.model, msg.stop, msg.parts)
     /\ msg.model \in Models /\ Spoke(msg.model, msg.parts)

\* A result follows the message with its call, and no other result of the call comes before it
Belongs(s, i) == \E j \in 1..(i - 1) :
  /\ s[j].role = "assistant" /\ s[j].stop = "toolUse" /\ s[i].id \in IdsOf(s[j])
  /\ \A k \in (j + 1)..(i - 1) : s[k].role = "toolResult" /\ s[k].id # s[i].id
\* Only messages of one model have calls with the same id
Shares(x, y) == x.role = "assistant" /\ y.role = "assistant" /\ x.model # y.model
                  => \A id \in IdsOf(x) : id \notin IdsOf(y)

Orderly(s) ==
  /\ IsSeq(s)
  /\ \A i \in DOMAIN s : Sound(s[i]) /\ (s[i].role = "toolResult" => Belongs(s, i))
  /\ \A i, j \in DOMAIN s : Shares(s[i], s[j])
MessagesInv == Orderly(messages)
-----------------------------------------------------------------------------
(* What was said stays well formed.                                         *)

\* A sequence with one member more
LEMMA AppendIs ==
    ASSUME NEW s, IsSeq(s), NEW x
    PROVE  Longer(Append(s, x), s, x)
<1> DEFINE S == {s[i] : i \in DOMAIN s} \cup {x}
           e == Append(s, x)
<1>1. s \in Seq(S)
  <2>1. {s[i] : i \in DOMAIN s} \subseteq S
    OBVIOUS
  <2> HIDE DEF S
  <2> QED BY <2>1, SeqMonotonic DEF IsSeq
<1>2. x \in S
  OBVIOUS
<1> HIDE DEF S
<1>3. e \in Seq(S) /\ Len(e) = Len(s) + 1 /\ (\A i \in 1..Len(s) : e[i] = s[i]) /\ e[Len(s) + 1] = x
  BY <1>1, <1>2, AppendProperties
<1> HIDE DEF e
<1>4. e = [i \in 1..Len(e) |-> e[i]] /\ Len(e) \in Nat
  BY <1>3, LenProperties
<1>5. IsSeq(e)
  BY <1>4, ListIs
<1>6. Longer(e, s, x)
  BY <1>3, <1>5 DEF Longer
<1> QED BY <1>6 DEF e

\* The members of s from a to b
Slice(e, s, a, b) == IsSeq(e) /\ Len(e) = b - a + 1 /\ \A i \in 1..(b - a + 1) : e[i] = s[(a + i) - 1]

\* A part of a sequence
LEMMA SubSeqIs ==
    ASSUME NEW s, NEW a \in Nat, NEW b \in Nat, a <= b
    PROVE  Slice(SubSeq(s, a, b), s, a, b)
<1> DEFINE S == {s[i] : i \in a..b}
           e == SubSeq(s, a, b)
<1>1. \A i \in a..b : s[i] \in S
  OBVIOUS
<1> HIDE DEF S
<1>2. e \in Seq(S) /\ Len(e) = b - a + 1 /\ \A i \in 1..(b - a + 1) : e[i] = s[(a + i) - 1]
  <2>1. a \in Int /\ b \in Int
    OBVIOUS
  <2> QED BY <1>1, <2>1, SubSeqProperties
<1> HIDE DEF e
<1>3. e = [i \in 1..Len(e) |-> e[i]] /\ Len(e) \in Nat
  BY <1>2, LenProperties
<1>4. IsSeq(e)
  BY <1>3, ListIs
<1>5. Slice(e, s, a, b)
  BY <1>2, <1>4 DEF Slice
<1> QED BY <1>5 DEF e

\* A set of numbers up to n that is not empty has a greatest one
LEMMA GreatestNumber ==
    ASSUME NEW n \in Nat, NEW S, S \subseteq 0..n, S # {}
    PROVE  \E i \in S : \A j \in S : i >= j
<1> DEFINE D == {n - i : i \in S}
<1>1. D \subseteq Nat /\ D # {}
  OBVIOUS
<1>2. \A i \in S : n - i \in D
  OBVIOUS
<1>3. \A d \in D : \E i \in S : d = n - i
  OBVIOUS
<1> HIDE DEF D
<1>4. PICK d \in D : \A c \in D : ~(c < d)
  BY <1>1, LeastNumber
<1>5. PICK i \in S : d = n - i
  BY <1>3
<1>6. \A j \in S : i >= j
  <2> TAKE j \in S
  <2>1. ~(n - j < n - i)
    BY <1>2, <1>4, <1>5
  <2>2. i \in 0..n /\ j \in 0..n
    OBVIOUS
  <2> QED BY <2>1, <2>2
<1> QED BY <1>6

\* j is the last before i that is no result, or zero if there is none
IsOwner(s, i, j) == /\ j \in 0..(i - 1) /\ (j # 0 => s[j].role # "toolResult")
                    /\ \A k \in (j + 1)..(i - 1) : s[k].role = "toolResult"

\* What Owner computes
LEMMA OwnerIs ==
    ASSUME NEW s, NEW i \in Nat, i >= 1
    PROVE  IsOwner(s, i, Owner(s, i))
<1> DEFINE I == {k \in 1..(i - 1) : s[k].role # "toolResult"}
<1>1. Owner(s, i) = IF I # {} THEN Max(I) ELSE 0
  BY DEF Owner, SelectLastInSubSeq
<1>2. CASE I = {}
  <2>1. Owner(s, i) = 0
    BY <1>1, <1>2
  <2>2. \A k \in 1..(i - 1) : s[k].role = "toolResult"
    BY <1>2
  <2> QED BY <2>1, <2>2 DEF IsOwner
<1>3. CASE I # {}
  <2>1. \E x \in I : \A y \in I : x >= y
    <3>1. I \subseteq 0..(i - 1) /\ i - 1 \in Nat
      OBVIOUS
    <3> HIDE DEF I
    <3> QED BY <1>3, <3>1, GreatestNumber
  <2>2. Max(I) \in I /\ \A y \in I : Max(I) >= y
    <3> HIDE DEF I
    <3> QED BY <2>1 DEF Max
  <2> DEFINE j == Max(I)
  <2>3. Owner(s, i) = j /\ j \in I /\ \A y \in I : j >= y
    BY <1>1, <1>3, <2>2
  <2> HIDE DEF j
  <2>4. j \in 1..(i - 1) /\ s[j].role # "toolResult"
    BY <2>3
  <2>5. \A k \in (j + 1)..(i - 1) : s[k].role = "toolResult"
    <3> TAKE k \in (j + 1)..(i - 1)
    <3>1. k \in 1..(i - 1) /\ ~(j >= k)
      BY <2>4
    <3> QED BY <2>3, <3>1
  <2>6. IsOwner(s, i, j)
    BY <2>4, <2>5 DEF IsOwner
  <2> QED BY <2>3, <2>6
<1> QED BY <1>2, <1>3

\* There is only one
LEMMA OneOwner ==
    ASSUME NEW s, NEW i \in Nat, NEW j, NEW k, IsOwner(s, i, j), IsOwner(s, i, k)
    PROVE  j = k
BY DEF IsOwner

\* One more message
LEMMA OrderlyLonger ==
    ASSUME NEW s, Orderly(s), NEW x, NEW e, Longer(e, s, x), Sound(x),
           x.role = "toolResult" => Belongs(e, Len(s) + 1),
           \A i \in DOMAIN s : Shares(s[i], x)
    PROVE  Orderly(e)
<1> DEFINE n == Len(s)
<1>1. n \in Nat /\ DOMAIN s = 1..n /\ DOMAIN e = 1..(n + 1) /\ IsSeq(e)
      /\ (\A i \in 1..n : e[i] = s[i]) /\ e[n + 1] = x
  <2>1. n \in Nat /\ DOMAIN s = 1..n
    BY SeqIs DEF Orderly
  <2>2. IsSeq(e) /\ Len(e) = n + 1 /\ (\A i \in 1..n : e[i] = s[i]) /\ e[n + 1] = x
    BY DEF Longer
  <2>3. DOMAIN e = 1..Len(e)
    BY <2>2, SeqIs
  <2> QED BY <2>1, <2>2, <2>3
<1> HIDE DEF n
<1>2. ASSUME NEW i \in 1..n, s[i].role = "toolResult" PROVE Belongs(e, i)
  <2>1. PICK j \in 1..(i - 1) :
          /\ s[j].role = "assistant" /\ s[j].stop = "toolUse" /\ s[i].id \in IdsOf(s[j])
          /\ \A k \in (j + 1)..(i - 1) : s[k].role = "toolResult" /\ s[k].id # s[i].id
    BY <1>1, <1>2 DEF Orderly, Belongs
  <2>2. e[j] = s[j] /\ e[i] = s[i] /\ \A k \in (j + 1)..(i - 1) : e[k] = s[k]
    BY <1>1
  <2> QED BY <2>1, <2>2 DEF Belongs
<1>3. \A i \in 1..(n + 1) : i \in 1..n \/ i = n + 1
  BY <1>1
<1>4. \A i \in DOMAIN e : Sound(e[i]) /\ (e[i].role = "toolResult" => Belongs(e, i))
  <2> TAKE i \in DOMAIN e
  <2>1. CASE i \in 1..n
    <3>1. Sound(s[i]) /\ e[i] = s[i]
      BY <1>1, <2>1 DEF Orderly
    <3> QED BY <1>2, <2>1, <3>1
  <2>2. CASE i = n + 1
    BY <1>1, <2>2 DEF n
  <2> QED BY <1>1, <1>3, <2>1, <2>2
<1>5. \A y : Shares(y, y)
  BY DEF Shares
<1>6. \A y, z : Shares(y, z) => Shares(z, y)
  BY DEF Shares
<1>7. \A i, j \in DOMAIN e : Shares(e[i], e[j])
  <2> TAKE i, j \in DOMAIN e
  <2>1. CASE i \in 1..n /\ j \in 1..n
    BY <1>1, <2>1 DEF Orderly
  <2>2. CASE i \in 1..n /\ j = n + 1
    BY <1>1, <2>2
  <2>3. CASE i = n + 1 /\ j \in 1..n
    BY <1>1, <1>6, <2>3
  <2>4. CASE i = n + 1 /\ j = n + 1
    BY <1>5, <2>4
  <2> QED BY <1>1, <1>3, <2>1, <2>2, <2>3, <2>4
<1> QED BY <1>1, <1>4, <1>7 DEF Orderly

\* e is the members of s from d on, with a message of the user in front if d is not zero
PartOf(e, s, a, d) ==
  /\ IsSeq(e) /\ a \in {0, 1} /\ d \in Nat /\ (a = 0 => d = 0)
  /\ a = 1 => Len(e) >= 2 /\ e[2].role # "toolResult" /\ Sound(e[1]) /\ e[1].role = "user"
  /\ \A p \in 1..Len(e) : p > a => p + d \in DOMAIN s /\ e[p] = s[p + d]

\* A part of the messages, after a message of the user if it does not begin with the first
LEMMA OrderlyPart ==
    ASSUME NEW s, Orderly(s), NEW e, NEW a, NEW d, PartOf(e, s, a, d)
    PROVE  Orderly(e)
<1> DEFINE n == Len(e)
<1>0. /\ IsSeq(e) /\ a \in {0, 1} /\ d \in Nat /\ (a = 0 => d = 0)
      /\ a = 1 => Len(e) >= 2 /\ e[2].role # "toolResult" /\ Sound(e[1]) /\ e[1].role = "user"
      /\ \A p \in 1..Len(e) : p > a => p + d \in DOMAIN s /\ e[p] = s[p + d]
  BY DEF PartOf
<1>1. n \in Nat /\ DOMAIN e = 1..n
  BY <1>0, SeqIs
<1>2. \A p \in 1..n : p > a \/ (a = 1 /\ p = 1)
  BY <1>0, <1>1
<1>3. \A p \in 1..n : Sound(e[p])
  <2> TAKE p \in 1..n
  <2>1. CASE p > a
    BY <1>0, <2>1 DEF Orderly
  <2>2. CASE a = 1 /\ p = 1
    BY <1>0, <2>2
  <2> QED BY <1>0, <1>2, <2>1, <2>2
<1>4. ASSUME NEW p \in 1..n, e[p].role = "toolResult" PROVE Belongs(e, p)
  <2>1. p > a /\ p + d \in DOMAIN s /\ e[p] = s[p + d]
    BY <1>0, <1>2, <1>4
  <2>2. PICK j \in 1..((p + d) - 1) :
          /\ s[j].role = "assistant" /\ s[j].stop = "toolUse" /\ s[p + d].id \in IdsOf(s[j])
          /\ \A k \in (j + 1)..((p + d) - 1) : s[k].role = "toolResult" /\ s[k].id # s[p + d].id
    <3>1. s[p + d].role = "toolResult" /\ p + d \in DOMAIN s
      BY <1>0, <1>4, <2>1
    <3>2. Belongs(s, p + d)
      BY <3>1 DEF Orderly
    <3> DEFINE i == p + d
    <3>3. Belongs(s, i)
      BY <3>2
    <3> HIDE DEF i
    <3>4. \E j \in 1..(i - 1) :
            /\ s[j].role = "assistant" /\ s[j].stop = "toolUse" /\ s[i].id \in IdsOf(s[j])
            /\ \A k \in (j + 1)..(i - 1) : s[k].role = "toolResult" /\ s[k].id # s[i].id
      BY <3>3 DEF Belongs
    <3> QED BY <3>4 DEF i
  <2>3. j > a + d
    <3>1. CASE a = 0
      BY <1>0, <3>1
    <3>2. CASE a = 1
      <4>1. p # 2 /\ p > 2
        BY <1>0, <1>4, <2>1, <3>2
      <4>2. CASE j < 2 + d
        <5>1. 2 + d \in (j + 1)..((p + d) - 1) /\ 2 \in 1..n
          BY <1>0, <1>1, <4>1, <4>2, <3>2
        <5>2. s[2 + d].role = "toolResult" /\ e[2] = s[2 + d]
          BY <1>0, <2>2, <3>2, <5>1
        <5> QED BY <1>0, <3>2, <5>2
      <4>3. CASE ~(j < 2 + d)
        BY <1>0, <3>2, <4>3
      <4> QED BY <1>0, <4>2, <4>3
    <3> QED BY <1>0, <3>1, <3>2
  <2> DEFINE o == j - d
  <2>4. o \in 1..(p - 1) /\ o > a /\ o + d = j /\ o \in 1..n
    BY <1>0, <1>1, <2>3
  <2> HIDE DEF o
  <2>5. e[o] = s[j]
    BY <1>0, <2>4
  <2>6. \A k \in (o + 1)..(p - 1) : e[k].role = "toolResult" /\ e[k].id # e[p].id
    <3> TAKE k \in (o + 1)..(p - 1)
    <3>1. k + d \in (j + 1)..((p + d) - 1) /\ k \in 1..n /\ k > a
      BY <1>0, <1>1, <2>4
    <3>2. e[k] = s[k + d] /\ s[k + d].role = "toolResult" /\ s[k + d].id # s[p + d].id
      BY <1>0, <2>2, <3>1
    <3> QED BY <1>0, <2>1, <3>2
  <2> QED BY <1>0, <2>1, <2>2, <2>4, <2>5, <2>6 DEF Belongs
<1>5. \A p, q \in 1..n : Shares(e[p], e[q])
  <2> TAKE p, q \in 1..n
  <2>1. CASE p > a /\ q > a
    BY <1>0, <2>1 DEF Orderly
  <2>2. CASE e[p].role = "user" \/ e[q].role = "user"
    BY <1>0, <2>2 DEF Shares
  <2> QED BY <1>0, <1>2, <2>1, <2>2
<1> QED BY <1>0, <1>1, <1>3, <1>4, <1>5 DEF Orderly

\* A reply as its model may give it
LEMMA RepliesAreSpoken ==
    ASSUME NEW m \in Models, NEW n \in Nat, n # 0,
           NEW parts \in Replies(m, n) \cup {<<Part("signed"), Call(NewId(m, n, 1))>>}
    PROVE  /\ Spoke(m, parts)
           /\ \A k \in DOMAIN parts : parts[k].kind = "call" => parts[k].id.of = IF m = "openrouter" THEN 0 ELSE n
<1> DEFINE c == NewId(m, n, 1)
           d == NewId(m, n, 2)
<1>1. OwnId(m, c) /\ OwnId(m, d) /\ c.at = 1 /\ d.at = 2
      /\ c.of = (IF m = "openrouter" THEN 0 ELSE n) /\ d.of = (IF m = "openrouter" THEN 0 ELSE n)
  BY DEF NewId, OwnId, NativeForm, Id
<1> HIDE DEF c, d
<1>2. IsSeq(parts)
  <2>1. CASE parts = <<Part("text")>>
    <3>1. parts = [i \in 1..1 |-> parts[i]]
      BY <2>1
    <3> QED BY <3>1, ListIs
  <2>2. CASE parts = <<Part("thinking")>>
    <3>1. parts = [i \in 1..1 |-> parts[i]]
      BY <2>2
    <3> QED BY <3>1, ListIs
  <2>3. CASE parts = <<Part("signed"), Part("text"), Call(c)>>
    <3>1. parts = [i \in 1..3 |-> parts[i]]
      BY <2>3
    <3> QED BY <3>1, ListIs
  <2>4. CASE parts = <<Part("blank"), Call(c), Call(d)>>
    <3>1. parts = [i \in 1..3 |-> parts[i]]
      BY <2>4
    <3> QED BY <3>1, ListIs
  <2>5. CASE parts = <<Part("signed"), Call(c)>>
    <3>1. parts = [i \in 1..2 |-> parts[i]]
      BY <2>5
    <3> QED BY <3>1, ListIs
  <2> QED BY <2>1, <2>2, <2>3, <2>4, <2>5 DEF Replies, c, d
<1>3. CASE parts = <<Part("text")>> \/ parts = <<Part("thinking")>>
  <2>1. DOMAIN parts = 1..1 /\ parts[1].kind \in {"text", "thinking"}
    BY <1>3 DEF Part
  <2>2. \A k \in DOMAIN parts : k = 1
    BY <2>1
  <2> QED BY <1>2, <2>1, <2>2 DEF Spoke
<1>4. CASE parts = <<Part("signed"), Part("text"), Call(c)>>
  <2>1. DOMAIN parts = 1..3 /\ parts[1].kind = "signed" /\ parts[2].kind = "text" /\ parts[3] = Call(c)
        /\ parts[3].kind = "call" /\ parts[3].id = c
    BY <1>4 DEF Part, Call
  <2>2. \A k \in DOMAIN parts : k = 1 \/ k = 2 \/ k = 3
    BY <2>1
  <2> QED BY <1>1, <1>2, <2>1, <2>2 DEF Spoke
<1>5. CASE parts = <<Part("blank"), Call(c), Call(d)>>
  <2>1. DOMAIN parts = 1..3 /\ parts[1].kind = "blank" /\ parts[2] = Call(c) /\ parts[3] = Call(d)
        /\ parts[2].kind = "call" /\ parts[2].id = c /\ parts[3].kind = "call" /\ parts[3].id = d
    BY <1>5 DEF Part, Call
  <2>2. \A k \in DOMAIN parts : k = 1 \/ k = 2 \/ k = 3
    BY <2>1
  <2> QED BY <1>1, <1>2, <2>1, <2>2 DEF Spoke
<1>6. CASE parts = <<Part("signed"), Call(c)>>
  <2>1. DOMAIN parts = 1..2 /\ parts[1].kind = "signed" /\ parts[2] = Call(c)
        /\ parts[2].kind = "call" /\ parts[2].id = c
    BY <1>6 DEF Part, Call
  <2>2. \A k \in DOMAIN parts : k = 1 \/ k = 2
    BY <2>1
  <2> QED BY <1>1, <1>2, <2>1, <2>2 DEF Spoke
<1> QED BY <1>3, <1>4, <1>5, <1>6 DEF Replies, c, d

\* The ids of a message's calls
LEMMA IdsAre ==
    ASSUME NEW x
    PROVE  /\ \A k \in DOMAIN x.parts : x.parts[k].kind = "call" => x.parts[k].id \in IdsOf(x)
           /\ \A id \in IdsOf(x) : \E k \in DOMAIN x.parts : x.parts[k].kind = "call" /\ id = x.parts[k].id
BY DEF IdsOf

\* A new reply, whose ids are new
LEMMA ReplyKeeps ==
    ASSUME MessagesInv, NEW m \in Models, NEW n \in NextNumbers,
           NEW parts \in Replies(m, n) \cup {<<Part("signed"), Call(NewId(m, n, 1))>>}, NEW stop,
           messages' = Append(messages, Assistant(m, stop, parts))
    PROVE  MessagesInv'
<1> DEFINE x == Assistant(m, stop, parts)
           s == messages
<1>1. n \in Nat /\ n # 0 /\ Unused(n)
  BY BoundIsNatural DEF NextNumbers
<1>2. /\ Spoke(m, parts)
      /\ \A k \in DOMAIN parts : parts[k].kind = "call" => parts[k].id.of = IF m = "openrouter" THEN 0 ELSE n
  BY <1>1, RepliesAreSpoken
<1>3. x.role = "assistant" /\ x.model = m /\ x.parts = parts /\ x.stop = stop /\ x = Assistant(x.model, x.stop, x.parts)
  BY DEF Assistant
<1> HIDE DEF x
<1>4. Sound(x)
  BY <1>2, <1>3 DEF Sound
<1>5. \A i \in DOMAIN s : Shares(s[i], x)
  <2> TAKE i \in DOMAIN s
  <2>1. SUFFICES ASSUME s[i].role = "assistant", s[i].model # m, NEW id \in IdsOf(s[i]), id \in IdsOf(x)
                 PROVE  FALSE
    BY <1>3 DEF Shares
  <2>2. id.of = IF m = "openrouter" THEN 0 ELSE n
    BY <1>2, <1>3, <2>1, IdsAre
  <2>3. id.of # n
    BY <1>1, <2>1 DEF Unused
  <2>4. Spoke(s[i].model, s[i].parts)
    <3>1. Sound(s[i]) /\ s[i].role = "assistant"
      BY <2>1 DEF MessagesInv, Orderly
    <3> QED BY <3>1 DEF Sound
  <2>5. OwnId(s[i].model, id)
    BY <2>1, <2>4, IdsAre DEF Spoke
  <2> QED BY <2>1, <2>2, <2>3, <2>5 DEF OwnId
<1>6. Longer(messages', s, x)
  <2>1. messages' = Append(s, x)
    BY DEF x
  <2>2. IsSeq(s)
    BY DEF MessagesInv, Orderly
  <2> QED BY <2>1, <2>2, AppendIs
<1>7. x.role # "toolResult"
  BY <1>3
<1>8. Orderly(messages')
  BY <1>4, <1>5, <1>6, <1>7, OrderlyLonger DEF MessagesInv
<1> QED BY <1>8 DEF MessagesInv

\* A message of the user
LEMMA SayKeeps ==
    ASSUME MessagesInv, NEW parts \in Contents, Say(parts)
    PROVE  MessagesInv'
<1> DEFINE x == User(parts)
           s == messages
<1>1. x.role = "user" /\ x = User(x.parts) /\ x.parts = parts
  BY DEF User
<1>2. messages' = Append(s, x) /\ IsSeq(s)
  BY DEF Say, MessagesInv, Orderly
<1> HIDE DEF x
<1>3. Sound(x) /\ x.role # "toolResult"
  BY <1>1 DEF Sound
<1>4. \A i \in DOMAIN s : Shares(s[i], x)
  BY <1>1 DEF Shares
<1>5. Longer(messages', s, x)
  BY <1>2, AppendIs
<1>6. Orderly(messages')
  BY <1>3, <1>4, <1>5, OrderlyLonger DEF MessagesInv
<1> QED BY <1>6 DEF MessagesInv

\* A result: its call has none yet
LEMMA FinishKeeps ==
    ASSUME MessagesInv, Executing, NEW id, NEW parts \in Contents, Finish(id, parts)
    PROVE  MessagesInv'
<1> DEFINE x == Result(id, parts)
           s == messages
           n == Len(s)
           j == Caller
<1>1. x.role = "toolResult" /\ x = Result(x.id, x.parts) /\ x.parts = parts /\ x.id = id
  BY DEF Result
<1>2. messages' = Append(s, x) /\ IsSeq(s)
  BY DEF Finish, MessagesInv, Orderly
<1>3. n \in Nat /\ DOMAIN s = 1..n
  BY <1>2, SeqIs
<1>4. IsOwner(s, n + 1, j)
  BY <1>3, OwnerIs DEF Caller
<1>5. j # 0 /\ s[j].role = "assistant" /\ s[j].stop = "toolUse" /\ id \in IdsOf(s[j]) /\ id \notin Answers(s, j, n + 1)
  BY DEF Executing, Finish, Unanswered
<1> HIDE DEF x, j
<1>6. Longer(messages', s, x)
  BY <1>2, AppendIs
<1>7. Belongs(messages', n + 1)
  <2> DEFINE e == messages'
  <2>1. (\A i \in 1..n : e[i] = s[i]) /\ e[n + 1] = x
    BY <1>6 DEF Longer
  <2> HIDE DEF e
  <2>2. j \in 1..n /\ \A k \in (j + 1)..n : s[k].role = "toolResult"
    BY <1>3, <1>4, <1>5 DEF IsOwner
  <2>3. \A k \in (j + 1)..n : s[k].id # id
    <3> TAKE k \in (j + 1)..n
    <3>1. k \in (j + 1)..((n + 1) - 1) /\ k \in DOMAIN s
      BY <1>3, <2>2
    <3> QED BY <1>5, <3>1 DEF Answers
  <2>4. \A k \in (j + 1)..((n + 1) - 1) : e[k].role = "toolResult" /\ e[k].id # e[n + 1].id
    BY <1>1, <1>3, <2>1, <2>2, <2>3
  <2>5. j \in 1..((n + 1) - 1) /\ e[j] = s[j]
    BY <1>3, <2>1, <2>2
  <2>6. e[n + 1].id = id
    BY <1>1, <2>1
  <2>7. Belongs(e, n + 1)
    BY <1>5, <2>4, <2>5, <2>6 DEF Belongs
  <2> QED BY <2>7 DEF e
<1>8. Sound(x)
  BY <1>1 DEF Sound
<1>9. \A i \in DOMAIN s : Shares(s[i], x)
  BY <1>1 DEF Shares
<1>10. Orderly(messages')
  BY <1>6, <1>7, <1>8, <1>9, OrderlyLonger DEF MessagesInv
<1> QED BY <1>10 DEF MessagesInv

\* Going back to an entry
LEMMA GoBackKeeps ==
    ASSUME MessagesInv, NEW i \in DOMAIN messages, GoBack(i)
    PROVE  MessagesInv'
<1> DEFINE s == messages
           e == messages'
<1>1. Len(s) \in Nat /\ DOMAIN s = 1..Len(s)
  BY SeqIs DEF MessagesInv, Orderly
<1>2. i \in Nat /\ 1 <= i /\ i <= Len(s) /\ 1 \in Nat
  BY <1>1
<1>3. e = SubSeq(s, 1, i)
  BY DEF GoBack
<1>4. Slice(e, s, 1, i)
  BY <1>2, <1>3, SubSeqIs
<1> HIDE DEF e
<1>5. IsSeq(e) /\ Len(e) = i /\ \A p \in 1..i : e[p] = s[p]
  BY <1>2, <1>4 DEF Slice
<1>6. \A p \in 1..Len(e) : p > 0 => p + 0 \in DOMAIN s /\ e[p] = s[p + 0]
  BY <1>1, <1>2, <1>5
<1>7. Orderly(s)
  BY DEF MessagesInv
<1>8. Orderly(e)
  <2>1. 0 \in {0, 1} /\ 0 \in Nat
    OBVIOUS
  <2> HIDE DEF s
  <2>2. PartOf(e, s, 0, 0)
    BY <1>5, <1>6, <2>1 DEF PartOf
  <2> QED BY <1>7, <2>2, OrderlyPart
<1> QED BY <1>8 DEF MessagesInv, e

\* A compaction
LEMMA CompactKeeps ==
    ASSUME MessagesInv, NEW i \in DOMAIN messages, Compact(i)
    PROVE  MessagesInv'
<1> DEFINE s == messages
           e == messages'
           n == Len(s)
           u == <<User(<<Part("text")>>)>>
           t == SubSeq(s, i, n)
<1>1. n \in Nat /\ DOMAIN s = 1..n
  BY SeqIs DEF MessagesInv, Orderly
<1>2. i \in Nat /\ i > 2 /\ i <= n /\ s[i].role # "toolResult" /\ e = u \o t
  BY <1>1 DEF Compact, IsResult
<1>3. Slice(t, s, i, n)
  BY <1>1, <1>2, SubSeqIs
<1>4. IsSeq(u) /\ Len(u) = 1 /\ u[1] = User(<<Part("text")>>)
  <2>1. u = [k \in 1..1 |-> u[k]] /\ 1 \in Nat
    OBVIOUS
  <2>2. IsSeq(u) /\ Len(u) = 1
    <3> HIDE DEF u
    <3> QED BY <2>1, ListIs
  <2> QED BY <2>2
<1>5. u[1].role = "user" /\ Sound(u[1])
  <2>1. u[1] = User(<<Part("text")>>) /\ <<Part("text")>> \in Contents
    BY <1>4 DEF Contents
  <2> QED BY <2>1 DEF Sound, User
<1> HIDE DEF e, t, u
<1>6. Joined(e, u, t)
  <2>1. IsSeq(t)
    BY <1>3 DEF Slice
  <2> QED BY <1>2, <1>4, <2>1, ConcatIs
<1>7. Len(t) = n - i + 1 /\ \A p \in 1..(n - i + 1) : t[p] = s[(i + p) - 1]
  BY <1>3 DEF Slice
<1>8. IsSeq(e) /\ Len(e) = n - i + 2 /\ e[1] = u[1] /\ \A p \in 1..(n - i + 1) : e[p + 1] = s[(i + p) - 1]
  <2>1. IsSeq(e) /\ Len(e) = 1 + (n - i + 1) /\ e[1] = u[1] /\ \A p \in 1..Len(t) : e[1 + p] = t[p]
    BY <1>4, <1>6, <1>7 DEF Joined
  <2>2. \A p \in 1..(n - i + 1) : e[p + 1] = s[(i + p) - 1]
    <3> TAKE p \in 1..(n - i + 1)
    <3>1. p \in 1..Len(t) /\ 1 + p = p + 1
      BY <1>1, <1>2, <1>7
    <3> QED BY <1>7, <2>1, <3>1
  <2>3. Len(e) = n - i + 2
    BY <1>1, <1>2, <2>1
  <2> QED BY <2>1, <2>2, <2>3
<1>9. \A p \in 1..Len(e) : p > 1 => p + (i - 2) \in DOMAIN s /\ e[p] = s[p + (i - 2)]
  <2> TAKE p \in 1..Len(e)
  <2> HAVE p > 1
  <2>0. Len(e) = n - i + 2
    BY <1>8
  <2>1. p - 1 \in 1..(n - i + 1) /\ (p - 1) + 1 = p /\ (i + (p - 1)) - 1 = p + (i - 2) /\ p + (i - 2) \in 1..n
    <3>1. p \in Nat /\ 1 < p /\ p <= n - i + 2
      BY <2>0
    <3> HIDE DEF n
    <3> QED BY <1>1, <1>2, <3>1
  <2>2. e[(p - 1) + 1] = s[(i + (p - 1)) - 1]
    BY <1>8, <2>1
  <2> QED BY <1>1, <2>1, <2>2
<1>10. Len(e) >= 2 /\ e[2].role # "toolResult"
  <2>1. Len(e) \in Nat /\ Len(e) >= 2 /\ 2 \in 1..Len(e)
    BY <1>1, <1>2, <1>8
  <2>2. e[2] = s[2 + (i - 2)] /\ 2 + (i - 2) = i
    BY <1>2, <1>9, <2>1
  <2> QED BY <1>2, <2>1, <2>2
<1>11. Orderly(e)
  <2> DEFINE d == i - 2
  <2>1. 1 \in {0, 1} /\ d \in Nat
    BY <1>2
  <2>2. Orderly(s)
    BY DEF MessagesInv
  <2>3. \A p \in 1..Len(e) : p > 1 => p + d \in DOMAIN s /\ e[p] = s[p + d]
    BY <1>9
  <2>4. Sound(e[1]) /\ e[1].role = "user"
    BY <1>5, <1>8
  <2> HIDE DEF s, d
  <2>5. PartOf(e, s, 1, d)
    BY <1>8, <1>10, <2>1, <2>3, <2>4 DEF PartOf
  <2> QED BY <2>2, <2>5, OrderlyPart
<1> QED BY <1>11 DEF MessagesInv, e

\* At first nothing is said
LEMMA InitOrderly == SessionInit => MessagesInv
<1> SUFFICES ASSUME SessionInit PROVE Orderly(messages)
  BY DEF MessagesInv
<1>1. messages = [i \in 1..0 |-> messages[i]] /\ 0 \in Nat
  BY DEF SessionInit
<1>2. IsSeq(messages) /\ Len(messages) = 0
  BY <1>1, ListIs
<1>3. DOMAIN messages = {}
  BY <1>2, SeqIs
<1> QED BY <1>2, <1>3 DEF Orderly

\* What is said, or taken back, is well formed
LEMMA NextOrderly == MessagesInv /\ [SessionNext]_messages => MessagesInv'
<1> SUFFICES ASSUME MessagesInv, [SessionNext]_messages PROVE MessagesInv'
  OBVIOUS
<1>1. CASE UNCHANGED messages
  BY <1>1 DEF MessagesInv
<1>2. ASSUME NEW parts \in Contents, Say(parts) PROVE MessagesInv'
  BY <1>2, SayKeeps
<1>3. ASSUME NEW m \in Models, NEW n \in NextNumbers, NEW parts \in Replies(m, n), NEW stop, Reply(m, parts, stop)
      PROVE  MessagesInv'
  <2>1. messages' = Append(messages, Assistant(m, stop, parts))
    BY <1>3 DEF Reply
  <2> QED BY <1>3, <2>1, ReplyKeeps
<1>4. ASSUME NEW m \in Models, NEW n \in NextNumbers, Fail(m, n) PROVE MessagesInv'
  <2> DEFINE parts == <<Part("signed"), Call(NewId(m, n, 1))>>
  <2>1. messages' = Append(messages, Assistant(m, "error", parts))
    BY <1>4 DEF Fail
  <2>2. parts \in Replies(m, n) \cup {<<Part("signed"), Call(NewId(m, n, 1))>>}
    OBVIOUS
  <2> HIDE DEF parts
  <2> QED BY <2>1, <2>2, ReplyKeeps
<1>5. ASSUME Executing, NEW id \in Unanswered, NEW parts \in Contents, Finish(id, parts) PROVE MessagesInv'
  BY <1>5, FinishKeeps
<1>6. ASSUME NEW i \in DOMAIN messages, GoBack(i) PROVE MessagesInv'
  BY <1>6, GoBackKeeps
<1>7. ASSUME NEW i \in DOMAIN messages, Compact(i) PROVE MessagesInv'
  BY <1>7, CompactKeeps
<1> QED BY <1>1, <1>2, <1>3, <1>4, <1>5, <1>6, <1>7 DEF SessionNext

-----------------------------------------------------------------------------
(* The messages for a model.                                                *)

\* An id as the API of m takes it
Accepted(m, id) == Accepts(m, Wire(id, m).form)
\* A message as it can be converted for m
Fitting(m, x) ==
  \/ x.role = "user" /\ x.parts \in Contents
  \/ x.role = "toolResult" /\ x.parts \in Contents /\ Accepted(m, x.id)
  \/ /\ x.role = "assistant" /\ IsSeq(x.parts)
     /\ \A k \in DOMAIN x.parts :
          /\ x.parts[k].kind \in {"text", "thinking", "signed", "blank", "call"}
          /\ x.parts[k].kind = "signed" => x.model = m
          /\ x.parts[k].kind = "call" =>
               /\ Accepted(m, x.parts[k].id)
               /\ \A l \in DOMAIN x.parts : l > k => x.parts[l].kind = "call"
               /\ \A l \in DOMAIN x.parts : l # k /\ x.parts[l].kind = "call" => x.parts[l].id # x.parts[k].id
\* The messages of the session, as they can be converted for m
Adapted(m, s) ==
  /\ IsSeq(s) /\ Len(s) = Len(messages)
  /\ \A i \in DOMAIN s :
       /\ s[i].role = messages[i].role /\ Fitting(m, s[i])
       /\ s[i].role = "assistant" => /\ s[i].stop = messages[i].stop /\ s[i].model = messages[i].model
                                     /\ Speaks(messages[i], m) => Holds(s[i].parts, "text")
       /\ s[i].role = "toolResult" => Belongs(s, i)

\* What becomes of an id
LEMMA NormalizedIs ==
    ASSUME NEW m, NEW m1, NEW id, OwnId(m1, id)
    PROVE  /\ Normalized(id, m) = Id(id.of, id.at, Form(NativeForm(m1), m))
           /\ Normalized(id, m).at = id.at /\ Normalized(id, m).form = Form(NativeForm(m1), m)
<1>1. id = [of |-> id.of, at |-> id.at, form |-> NativeForm(m1)] /\ id.form = NativeForm(m1)
  BY DEF OwnId, Id
<1>2. Normalized(id, m) = [id EXCEPT !.form = Form(id.form, m)]
  BY DEF Normalized
<1> QED BY <1>1, <1>2 DEF Id

\* Every id is taken by the model it is for: its own, and another's under its new form
LEMMA IdsAreAccepted ==
    ASSUME NEW m \in Models, NEW m1 \in Models, NEW id, OwnId(m1, id)
    PROVE  /\ m1 = m => Accepted(m, id)
           /\ m1 # m => Accepted(m, Normalized(id, m))
<1> DEFINE W(form) == IF ApiOf(m) = "responses" /\ form = "pair" THEN "plain"
                      ELSE IF ApiOf(m) = "google" /\ ~RequiresToolCallID(m) THEN "none" ELSE form
<1>1. \A of, at, form : Wire(Id(of, at, form), m).form = W(form)
  BY DEF Wire, Id, NoId
<1>2. id = Id(id.of, id.at, NativeForm(m1)) /\ Normalized(id, m) = Id(id.of, id.at, Form(NativeForm(m1), m))
  BY NormalizedIs DEF OwnId
<1>3. Wire(id, m).form = W(NativeForm(m1)) /\ Wire(Normalized(id, m), m).form = W(Form(NativeForm(m1), m))
  BY <1>1, <1>2
<1>4. m \in KnownModels /\ m1 \in KnownModels
  BY ModelsAreKnown
<1>5. m1 = m => Accepts(m, W(NativeForm(m1)))
  BY <1>4 DEF KnownModels, Accepts, NativeForm, ApiOf, RequiresToolCallID
<1>6. m1 # m => Accepts(m, W(Form(NativeForm(m1), m)))
  <2> DEFINE form == NativeForm(m1)
  <2>1. form \in {"odd", "pair", "plain"}
    BY DEF NativeForm
  <2> DEFINE w == W(Form(form, m))
  <2>7. SUFFICES Accepts(m, w)
    OBVIOUS
  <2> HIDE DEF form
  <2>0. RequiresToolCallID(m) => ApiOf(m) = "google"
    BY DEF RequiresToolCallID, ApiOf
  <2>2. CASE ApiOf(m) = "completions"
    <3>1. Form(form, m) = CompletionsForm(form)
      BY <2>0, <2>2 DEF Form
    <3>2. CompletionsForm(form) \in {"odd", "plain"}
      BY <2>1 DEF CompletionsForm
    <3>3. W(Form(form, m)) # "pair"
      BY <2>2, <3>1, <3>2
    <3>4. w = W(Form(form, m))
      OBVIOUS
    <3> HIDE DEF w, W
    <3> QED BY <2>0, <2>2, <3>3, <3>4 DEF Accepts
  <2>3. CASE ApiOf(m) = "responses"
    <3>1. Form(form, m) = ResponsesForm(form, m)
      BY <2>0, <2>3 DEF Form
    <3>2. ResponsesForm(form, m) \in {"pair", "joined", "cleaned", "plain"}
      BY <2>1 DEF ResponsesForm
    <3>3. W(Form(form, m)) \in {"plain", "cleaned", "joined"}
      BY <2>3, <3>1, <3>2
    <3>4. w = W(Form(form, m))
      OBVIOUS
    <3> HIDE DEF w, W
    <3> QED BY <2>0, <2>3, <3>3, <3>4 DEF Accepts
  <2>4. CASE ApiOf(m) = "anthropic" \/ (ApiOf(m) = "google" /\ RequiresToolCallID(m))
    <3>1. Form(form, m) = AnthropicForm(form)
      BY <2>0, <2>4 DEF Form
    <3>2. AnthropicForm(form) \in {"joined", "cleaned", "plain"}
      BY <2>1 DEF AnthropicForm
    <3>3. W(Form(form, m)) \in {"plain", "cleaned", "joined"}
      BY <2>4, <3>1, <3>2
    <3>4. w = W(Form(form, m))
      OBVIOUS
    <3> HIDE DEF w, W
    <3> QED BY <2>0, <2>4, <3>3, <3>4 DEF Accepts
  <2>5. CASE ApiOf(m) = "google" /\ ~RequiresToolCallID(m)
    BY <2>5 DEF Accepts
  <2>6. ApiOf(m) \in {"completions", "responses", "anthropic", "google"}
    BY DEF ApiOf
  <2> QED BY <2>2, <2>3, <2>4, <2>5, <2>6 DEF form
<1> QED BY <1>3, <1>5, <1>6 DEF Accepted

\* A result's id is renamed as its call's
LEMMA RenamedIs ==
    ASSUME Orderly(messages), NEW m, NEW i \in DOMAIN messages, NEW j \in DOMAIN messages, j < i,
           messages[j].role = "assistant", NEW id \in IdsOf(messages[j])
    PROVE  Renamed(id, i, m) = IF messages[j].model # m THEN Normalized(id, m) ELSE id
<1>1. DOMAIN messages = 1..Len(messages) /\ Len(messages) \in Nat
  BY SeqIs DEF Orderly
<1>2. CASE messages[j].model # m
  <2>1. j \in 1..(i - 1)
    BY <1>1
  <2> QED BY <1>2, <2>1 DEF Renamed
<1>3. CASE messages[j].model = m
  <2>1. ASSUME NEW k \in 1..(i - 1), messages[k].role = "assistant", messages[k].model # m, id \in IdsOf(messages[k])
        PROVE  FALSE
    <3>1. k \in DOMAIN messages
      BY <1>1
    <3>2. Shares(messages[k], messages[j])
      BY <3>1 DEF Orderly
    <3> QED BY <1>3, <2>1, <3>2 DEF Shares
  <2> QED BY <1>3, <2>1 DEF Renamed
<1> QED BY <1>2, <1>3

\* What a user or a tool says, as m can see it
LEMMA DowngradedIs ==
    ASSUME NEW m, NEW parts \in Contents
    PROVE  [k \in DOMAIN parts |-> Downgraded(parts[k], m)] \in Contents
<1> DEFINE d == [k \in DOMAIN parts |-> Downgraded(parts[k], m)]
<1>1. CASE parts = <<Part("text")>>
  <2>1. DOMAIN parts = 1..1 /\ parts[1] = Part("text")
    BY <1>1
  <2>2. Downgraded(parts[1], m) = Part("text")
    BY <2>1 DEF Downgraded, Part
  <2>3. d = <<Part("text")>>
    BY <2>1, <2>2
  <2> QED BY <2>3 DEF Contents
<1>2. CASE parts = <<Part("image")>>
  <2>1. DOMAIN parts = 1..1 /\ parts[1] = Part("image")
    BY <1>2
  <2>2. Downgraded(parts[1], m) \in {Part("text"), Part("image")}
    BY <2>1 DEF Downgraded
  <2>3. d = <<Part("text")>> \/ d = <<Part("image")>>
    BY <2>1, <2>2
  <2> QED BY <2>3 DEF Contents
<1> QED BY <1>1, <1>2 DEF Contents

\* What becomes of a part of another model's reply
LEMMA NeutralIs ==
    ASSUME NEW m, NEW p, p.kind \in {"text", "thinking", "signed", "blank", "call"}
    PROVE  /\ Neutral(p, m).kind = IF p.kind \in {"thinking", "signed"} THEN "text" ELSE p.kind
           /\ p.kind = "call" => Neutral(p, m).id = Normalized(p.id, m)
BY DEF Neutral, Part, Call

\* A reply, as m can be sent it
LEMMA ReplyIsReady ==
    ASSUME NEW m \in Models, NEW x, Sound(x), x.role = "assistant", NEW i
    PROVE  LET t == Transform(x, i, m)
           IN  /\ t.role = "assistant" /\ t.stop = x.stop /\ t.model = x.model /\ Fitting(m, t)
               /\ Speaks(x, m) => Holds(t.parts, "text")
               /\ \A id \in IdsOf(x) : (IF x.model # m THEN Normalized(id, m) ELSE id) \in IdsOf(t)
<1> DEFINE t == Transform(x, i, m)
           n == Len(x.parts)
<1>1. x = Assistant(x.model, x.stop, x.parts) /\ x.model \in Models /\ Spoke(x.model, x.parts)
  BY DEF Sound
<1>2. n \in Nat /\ DOMAIN x.parts = 1..n /\ IsSeq(x.parts)
  BY <1>1, SeqIs DEF Spoke
<1> HIDE DEF n
<1>3. CASE x.model = m
  <2>1. t = x
    BY <1>3 DEF Transform
  <2>2. \A k \in 1..n : x.parts[k].kind = "call" => Accepted(m, x.parts[k].id)
    BY <1>1, <1>2, <1>3, IdsAreAccepted DEF Spoke
  <2>3. Fitting(m, x)
    <3> SUFFICES ASSUME NEW k \in DOMAIN x.parts
                 PROVE  /\ x.parts[k].kind \in {"text", "thinking", "signed", "blank", "call"}
                        /\ x.parts[k].kind = "signed" => x.model = m
                        /\ x.parts[k].kind = "call" =>
                             /\ Accepted(m, x.parts[k].id)
                             /\ \A l \in DOMAIN x.parts : l > k => x.parts[l].kind = "call"
                             /\ \A l \in DOMAIN x.parts : l # k /\ x.parts[l].kind = "call" => x.parts[l].id # x.parts[k].id
      BY <1>2 DEF Fitting
    <3> QED BY <1>1, <1>2, <1>3, <2>2 DEF Spoke
  <2>4. Speaks(x, m) => Holds(x.parts, "text")
    BY <1>3 DEF Speaks, Holds
  <2> QED BY <1>3, <2>1, <2>3, <2>4
<1>4. CASE x.model # m
  <2> DEFINE u == [k \in DOMAIN x.parts |-> Neutral(x.parts[k], m)]
  <2>1. t = Assistant(x.model, x.stop, u)
    BY <1>4 DEF Transform
  <2>2. t.role = "assistant" /\ t.stop = x.stop /\ t.model = x.model /\ t.parts = u
    BY <2>1 DEF Assistant
  <2>3. u = [k \in 1..n |-> u[k]] /\ \A k \in 1..n : u[k] = Neutral(x.parts[k], m)
    BY <1>2
  <2> HIDE DEF u, t
  <2>4. IsSeq(u) /\ DOMAIN u = 1..n
    <3>1. IsSeq(u) /\ Len(u) = n
      BY <1>2, <2>3, ListIs
    <3> QED BY <3>1, SeqIs
  <2>5. ASSUME NEW k \in 1..n
        PROVE  /\ x.parts[k].kind \in {"text", "thinking", "signed", "blank", "call"}
               /\ u[k].kind = IF x.parts[k].kind \in {"thinking", "signed"} THEN "text" ELSE x.parts[k].kind
               /\ x.parts[k].kind = "call" => /\ u[k].id = Normalized(x.parts[k].id, m) /\ OwnId(x.model, x.parts[k].id)
                                              /\ u[k].id.at = x.parts[k].id.at /\ Accepted(m, u[k].id)
    <3>1. x.parts[k].kind \in {"text", "thinking", "signed", "blank", "call"}
      BY <1>1, <1>2 DEF Spoke
    <3>2. x.parts[k].kind = "call" => OwnId(x.model, x.parts[k].id)
      BY <1>1, <1>2 DEF Spoke
    <3>3. /\ u[k].kind = IF x.parts[k].kind \in {"thinking", "signed"} THEN "text" ELSE x.parts[k].kind
          /\ x.parts[k].kind = "call" => u[k].id = Normalized(x.parts[k].id, m)
      BY <2>3, <3>1, NeutralIs
    <3>4. x.parts[k].kind = "call" => u[k].id.at = x.parts[k].id.at
      BY <3>2, <3>3, NormalizedIs
    <3>5. x.parts[k].kind = "call" => Accepted(m, u[k].id)
      BY <1>1, <1>4, <3>2, <3>3, IdsAreAccepted
    <3> QED BY <3>1, <3>2, <3>3, <3>4, <3>5
  <2>6. \A k \in 1..n : u[k].kind = "call" <=> x.parts[k].kind = "call"
    BY <2>5
  <2>7. \A k, l \in 1..n : u[k].kind = "call" =>
          /\ l > k => u[l].kind = "call"
          /\ l # k /\ u[l].kind = "call" => u[l].id # u[k].id
    <3> TAKE k, l \in 1..n
    <3> HAVE u[k].kind = "call"
    <3>1. l > k => x.parts[l].kind = "call"
      BY <1>1, <1>2, <2>6 DEF Spoke
    <3>2. l # k /\ u[l].kind = "call" => x.parts[l].id.at # x.parts[k].id.at
      BY <1>1, <1>2, <2>6 DEF Spoke
    <3> QED BY <2>5, <2>6, <3>1, <3>2
  <2>8. Fitting(m, t)
    <3> SUFFICES ASSUME NEW k \in DOMAIN u
                 PROVE  /\ u[k].kind \in {"text", "thinking", "signed", "blank", "call"}
                        /\ u[k].kind = "signed" => t.model = m
                        /\ u[k].kind = "call" =>
                             /\ Accepted(m, u[k].id)
                             /\ \A l \in DOMAIN u : l > k => u[l].kind = "call"
                             /\ \A l \in DOMAIN u : l # k /\ u[l].kind = "call" => u[l].id # u[k].id
      BY <2>2, <2>4 DEF Fitting
    <3> QED BY <2>4, <2>5, <2>6, <2>7
  <2>9. Speaks(x, m) => Holds(u, "text")
    <3> SUFFICES ASSUME Speaks(x, m) PROVE Holds(u, "text")
      OBVIOUS
    <3>1. PICK k \in DOMAIN x.parts : x.parts[k].kind \in {"text", "thinking", "signed"}
      BY <1>4 DEF Speaks
    <3>2. k \in DOMAIN u /\ u[k].kind = "text"
      BY <1>2, <2>4, <2>5, <3>1
    <3> QED BY <3>2 DEF Holds
  <2>10. \A id \in IdsOf(x) : Normalized(id, m) \in IdsOf(t)
    <3> TAKE id \in IdsOf(x)
    <3>1. PICK k \in DOMAIN x.parts : x.parts[k].kind = "call" /\ id = x.parts[k].id
      BY IdsAre
    <3>2. k \in DOMAIN t.parts /\ t.parts[k].kind = "call" /\ t.parts[k].id = Normalized(id, m)
      BY <1>2, <2>2, <2>4, <2>5, <2>6, <3>1
    <3>3. t.parts[k].id \in IdsOf(t)
      BY <3>2, IdsAre
    <3> QED BY <3>2, <3>3
  <2> QED BY <1>4, <2>2, <2>8, <2>9, <2>10 DEF t
<1> QED BY <1>3, <1>4

\* Every message is adapted to the model
LEMMA TransformedIs ==
    ASSUME MessagesInv, NEW m \in Models
    PROVE  Adapted(m, Transformed(m))
<1> DEFINE t == Transformed(m)
           n == Len(messages)
           Ren(j, id) == IF messages[j].model # m THEN Normalized(id, m) ELSE id
<1>1. n \in Nat /\ DOMAIN messages = 1..n /\ Orderly(messages)
  BY SeqIs DEF MessagesInv, Orderly
<1>2. t = [i \in 1..n |-> t[i]] /\ \A i \in 1..n : t[i] = Transform(messages[i], i, m)
  BY <1>1 DEF Transformed
<1> HIDE DEF t, n
<1>3. IsSeq(t) /\ Len(t) = n /\ DOMAIN t = 1..n
  <2>1. IsSeq(t) /\ Len(t) = n
    BY <1>1, <1>2, ListIs
  <2> QED BY <2>1, SeqIs
<1>4. \A i \in 1..n : Sound(messages[i])
  BY <1>1 DEF Orderly
<1>5. ASSUME NEW i \in 1..n, messages[i].role = "assistant"
      PROVE  /\ t[i].role = "assistant" /\ t[i].stop = messages[i].stop /\ t[i].model = messages[i].model /\ Fitting(m, t[i])
             /\ Speaks(messages[i], m) => Holds(t[i].parts, "text")
             /\ \A id \in IdsOf(messages[i]) : Ren(i, id) \in IdsOf(t[i])
  <2>1. t[i] = Transform(messages[i], i, m) /\ Sound(messages[i])
    BY <1>2, <1>4
  <2> QED BY <1>5, <2>1, ReplyIsReady
<1>6. ASSUME NEW i \in 1..n, messages[i].role = "user"
      PROVE  t[i].role = "user" /\ Fitting(m, t[i])
  <2>1. messages[i].parts \in Contents
    BY <1>4, <1>6 DEF Sound
  <2> DEFINE d == [k \in DOMAIN messages[i].parts |-> Downgraded(messages[i].parts[k], m)]
  <2>2. t[i] = User(d)
    BY <1>2, <1>6 DEF Transform
  <2>3. d \in Contents
    BY <2>1, DowngradedIs
  <2> HIDE DEF d
  <2> QED BY <2>2, <2>3 DEF User, Fitting
<1>7. ASSUME NEW i \in 1..n, messages[i].role = "toolResult"
      PROVE  /\ t[i].role = "toolResult" /\ t[i].parts \in Contents
             /\ t[i].id = Renamed(messages[i].id, i, m)
  <2>1. messages[i].parts \in Contents
    BY <1>4, <1>7 DEF Sound
  <2> DEFINE d == [k \in DOMAIN messages[i].parts |-> Downgraded(messages[i].parts[k], m)]
  <2>2. t[i] = Result(Renamed(messages[i].id, i, m), d)
    BY <1>2, <1>7 DEF Transform
  <2>3. d \in Contents
    BY <2>1, DowngradedIs
  <2> HIDE DEF d
  <2> QED BY <2>2, <2>3 DEF Result
<1>8. ASSUME NEW i \in 1..n, messages[i].role = "toolResult"
      PROVE  Fitting(m, t[i]) /\ Belongs(t, i)
  <2>1. Belongs(messages, i)
    BY <1>1, <1>8 DEF Orderly
  <2>2. PICK j \in 1..(i - 1) :
          /\ messages[j].role = "assistant" /\ messages[j].stop = "toolUse" /\ messages[i].id \in IdsOf(messages[j])
          /\ \A k \in (j + 1)..(i - 1) : messages[k].role = "toolResult" /\ messages[k].id # messages[i].id
    BY <2>1 DEF Belongs
  <2>3. j \in 1..n /\ j < i
    BY <1>1
  <2>4. ASSUME NEW k \in (j + 1)..i
        PROVE  /\ k \in 1..n /\ messages[k].role = "toolResult" /\ messages[k].id \in IdsOf(messages[j])
               /\ t[k].id = Ren(j, messages[k].id)
    <3>1. k \in 1..n /\ (k = i \/ k \in (j + 1)..(i - 1)) /\ j < k
      BY <1>1, <2>3
    <3>2. messages[k].role = "toolResult"
      BY <1>8, <2>2, <3>1
    <3>3. PICK o \in 1..(k - 1) :
            /\ messages[o].role = "assistant" /\ messages[k].id \in IdsOf(messages[o])
            /\ \A l \in (o + 1)..(k - 1) : messages[l].role = "toolResult"
      BY <1>1, <3>1, <3>2 DEF Orderly, Belongs
    <3>4. o = j
      <4>1. CASE o < j
        <5>1. j \in (o + 1)..(k - 1)
          BY <2>3, <3>1, <4>1
        <5> QED BY <2>2, <3>3, <5>1
      <4>2. CASE j < o
        <5>1. o \in (j + 1)..(i - 1)
          BY <2>3, <3>1, <4>2
        <5> QED BY <2>2, <3>3, <5>1
      <4> QED BY <2>3, <3>1, <4>1, <4>2
    <3>5. t[k].id = Renamed(messages[k].id, k, m)
      BY <1>7, <3>1, <3>2
    <3>6. Renamed(messages[k].id, k, m) = Ren(j, messages[k].id)
      BY <1>1, <2>2, <2>3, <3>1, <3>3, <3>4, RenamedIs
    <3> QED BY <3>1, <3>2, <3>3, <3>4, <3>5, <3>6
  <2>5. \A id \in IdsOf(messages[j]) : OwnId(messages[j].model, id) /\ messages[j].model \in Models
    <3>1. Sound(messages[j])
      BY <1>4, <2>3
    <3>2. Spoke(messages[j].model, messages[j].parts) /\ messages[j].model \in Models
      BY <2>2, <3>1 DEF Sound
    <3> QED BY <3>2, IdsAre DEF Spoke
  <2>6. \A id \in IdsOf(messages[j]) : Accepted(m, Ren(j, id))
    BY <2>5, IdsAreAccepted
  <2>7. \A id, id1 \in IdsOf(messages[j]) : id # id1 => Ren(j, id) # Ren(j, id1)
    <3> TAKE id, id1 \in IdsOf(messages[j])
    <3> HAVE id # id1
    <3>1. CASE messages[j].model = m
      BY <3>1
    <3>2. CASE messages[j].model # m
      <4>1. OwnId(messages[j].model, id) /\ OwnId(messages[j].model, id1)
        BY <2>5
      <4> DEFINE form == NativeForm(messages[j].model)
                 new == Form(form, m)
      <4>2. id = Id(id.of, id.at, form) /\ id1 = Id(id1.of, id1.at, form)
        BY <4>1 DEF OwnId
      <4>3. Normalized(id, m) = Id(id.of, id.at, new) /\ Normalized(id1, m) = Id(id1.of, id1.at, new)
        BY <4>1, NormalizedIs
      <4>4. Ren(j, id) = Normalized(id, m) /\ Ren(j, id1) = Normalized(id1, m)
        BY <3>2
      <4> HIDE DEF form, new, Ren
      <4>5. id.of # id1.of \/ id.at # id1.at
        BY <4>2
      <4>6. Id(id.of, id.at, new) # Id(id1.of, id1.at, new)
        BY <4>5 DEF Id
      <4> QED BY <4>3, <4>4, <4>6
    <3> QED BY <3>1, <3>2
  <2> HIDE DEF Ren
  <2>8. t[j].role = "assistant" /\ t[j].stop = "toolUse" /\ t[i].id \in IdsOf(t[j])
    <3>1. i \in (j + 1)..i
      BY <2>3
    <3> QED BY <1>5, <2>2, <2>3, <2>4, <3>1
  <2>9. \A k \in (j + 1)..(i - 1) : t[k].role = "toolResult" /\ t[k].id # t[i].id
    <3> TAKE k \in (j + 1)..(i - 1)
    <3>1. k \in (j + 1)..i /\ i \in (j + 1)..i /\ messages[k].id # messages[i].id
      BY <2>2, <2>3
    <3>2. t[k].id = Ren(j, messages[k].id) /\ t[i].id = Ren(j, messages[i].id)
      BY <2>4, <3>1
    <3>3. messages[k].id \in IdsOf(messages[j]) /\ messages[i].id \in IdsOf(messages[j])
      BY <2>4, <3>1
    <3>4. t[k].role = "toolResult"
      BY <1>7, <2>4, <3>1
    <3> QED BY <2>7, <3>1, <3>2, <3>3, <3>4
  <2>10. Belongs(t, i)
    BY <2>8, <2>9 DEF Belongs
  <2>11. Accepted(m, t[i].id)
    <3>1. i \in (j + 1)..i
      BY <2>3
    <3> QED BY <2>4, <2>6, <3>1
  <2>12. Fitting(m, t[i])
    BY <1>7, <1>8, <2>11 DEF Fitting
  <2> QED BY <2>10, <2>12
<1>9. ASSUME NEW i \in 1..n
      PROVE  /\ t[i].role = messages[i].role /\ Fitting(m, t[i])
             /\ t[i].role = "assistant" => /\ t[i].stop = messages[i].stop /\ t[i].model = messages[i].model
                                           /\ Speaks(messages[i], m) => Holds(t[i].parts, "text")
             /\ t[i].role = "toolResult" => Belongs(t, i)
  <2>1. messages[i].role \in {"user", "assistant", "toolResult"}
    BY <1>4 DEF Sound
  <2> QED BY <1>5, <1>6, <1>7, <1>8, <2>1
<1> QED BY <1>3, <1>9 DEF Adapted, t, n

-----------------------------------------------------------------------------
(* The members of a sequence at some places.                                *)

\* The order of the spots is that of the members they come from
LEMMA SpotOrder ==
    ASSUME NEW f, Nested(f), NEW i \in DOMAIN f, NEW j \in DOMAIN f, NEW k \in DOMAIN f[i], NEW l \in DOMAIN f[j]
    PROVE  Spot(f, i, k) < Spot(f, j, l) <=> i < j \/ (i = j /\ k < l)
<1>1. DOMAIN f = 1..Len(f) /\ Len(f) \in Nat
  BY SeqIs DEF Nested
<1>2. DOMAIN f[i] = 1..Len(f[i]) /\ Len(f[i]) \in Nat /\ DOMAIN f[j] = 1..Len(f[j]) /\ Len(f[j]) \in Nat
  BY SeqIs DEF Nested
<1>3. i \in Nat /\ j \in Nat /\ k \in Nat /\ l \in Nat
  BY <1>1, <1>2
<1>4. Spot(f, i, k) \in Nat /\ Spot(f, j, l) \in Nat
  BY SpotsAre
<1>5. i < j \/ (i = j /\ k < l) => Spot(f, i, k) < Spot(f, j, l)
  BY SpotsAre
<1>6. j < i \/ (j = i /\ l < k) => Spot(f, j, l) < Spot(f, i, k)
  BY SpotsAre
<1>7. i = j /\ k = l => Spot(f, i, k) = Spot(f, j, l)
  OBVIOUS
<1> QED BY <1>3, <1>4, <1>5, <1>6, <1>7

\* g is the members of s at the places in wanted; the p-th comes from at[p]
Picks(g, s, wanted, at) ==
  /\ IsSeq(g)
  /\ \A p \in DOMAIN g : at[p] \in DOMAIN s /\ at[p] \in wanted /\ g[p] = s[at[p]]
  /\ \A p, q \in DOMAIN g : p < q => at[p] < at[q]
  /\ \A k \in DOMAIN s : k \in wanted => \E p \in DOMAIN g : at[p] = k

\* What Picked computes
LEMMA PickedIs ==
    ASSUME NEW s, IsSeq(s), NEW wanted
    PROVE  \E at : Picks(Picked(s, wanted), s, wanted, at)
<1> DEFINE n == Len(s)
           f == [k \in DOMAIN s |-> IF k \in wanted THEN <<s[k]>> ELSE <<>>]
           g == Picked(s, wanted)
           at == [p \in DOMAIN g |-> CHOOSE k \in DOMAIN f : 1 \in DOMAIN f[k] /\ p = Spot(f, k, 1)]
<1>1. n \in Nat /\ DOMAIN s = 1..n
  BY SeqIs
<1>2. g = FlattenSeq(f)
  BY DEF Picked
<1>3. f = [k \in 1..n |-> f[k]] /\ \A k \in 1..n : f[k] = IF k \in wanted THEN <<s[k]>> ELSE <<>>
  BY <1>1
<1> HIDE DEF f, g, n
<1>4. IsSeq(f) /\ DOMAIN f = 1..n
  <2>1. IsSeq(f) /\ Len(f) = n
    BY <1>1, <1>3, ListIs
  <2> QED BY <2>1, SeqIs
<1>5. ASSUME NEW k \in 1..n
      PROVE  /\ IsSeq(f[k]) /\ (k \in wanted => DOMAIN f[k] = {1} /\ f[k][1] = s[k])
             /\ k \notin wanted => DOMAIN f[k] = {}
  <2>1. CASE k \in wanted
    <3> DEFINE x == f[k]
    <3>1. x = <<s[k]>>
      BY <1>3, <2>1
    <3>2. x = [i \in 1..1 |-> x[i]] /\ 1 \in Nat /\ x[1] = s[k]
      BY <3>1
    <3> HIDE DEF x
    <3>3. IsSeq(x) /\ Len(x) = 1
      BY <3>2, ListIs
    <3>4. DOMAIN x = 1..1
      BY <3>3, SeqIs
    <3>5. 1..1 = {1}
      OBVIOUS
    <3> QED BY <2>1, <3>2, <3>3, <3>4, <3>5 DEF x
  <2>2. CASE k \notin wanted
    <3> DEFINE x == f[k]
    <3>1. x = <<>>
      BY <1>3, <2>2
    <3>2. x = [i \in 1..0 |-> x[i]] /\ 0 \in Nat
      BY <3>1
    <3> HIDE DEF x
    <3>3. IsSeq(x) /\ Len(x) = 0
      BY <3>2, ListIs
    <3>4. DOMAIN x = 1..0
      BY <3>3, SeqIs
    <3>5. 1..0 = {}
      OBVIOUS
    <3> QED BY <2>2, <3>3, <3>4, <3>5 DEF x
  <2> QED BY <2>1, <2>2
<1>6. Nested(f)
  BY <1>4, <1>5 DEF Nested
<1>7. /\ IsSeq(g) /\ DOMAIN g = 1..Len(g)
      /\ \A k \in DOMAIN f : \A l \in DOMAIN f[k] : Spot(f, k, l) \in DOMAIN g /\ g[Spot(f, k, l)] = f[k][l]
      /\ \A p \in DOMAIN g : \E k \in DOMAIN f : \E l \in DOMAIN f[k] : p = Spot(f, k, l)
  BY <1>2, <1>6, SpotsAre
<1>8. ASSUME NEW p \in DOMAIN g
      PROVE  at[p] \in 1..n /\ 1 \in DOMAIN f[at[p]] /\ p = Spot(f, at[p], 1)
  <2>1. \E k \in DOMAIN f : 1 \in DOMAIN f[k] /\ p = Spot(f, k, 1)
    <3>1. PICK k \in DOMAIN f : \E l \in DOMAIN f[k] : p = Spot(f, k, l)
      BY <1>7
    <3>2. PICK l \in DOMAIN f[k] : p = Spot(f, k, l)
      BY <3>1
    <3>3. l = 1
      BY <1>4, <1>5
    <3> QED BY <3>2, <3>3
  <2>2. at[p] = CHOOSE k \in DOMAIN f : 1 \in DOMAIN f[k] /\ p = Spot(f, k, 1)
    OBVIOUS
  <2> HIDE DEF at
  <2>3. at[p] \in DOMAIN f /\ 1 \in DOMAIN f[at[p]] /\ p = Spot(f, at[p], 1)
    BY <2>1, <2>2
  <2> QED BY <1>4, <2>3
<1> HIDE DEF at
<1>9. \A p \in DOMAIN g : at[p] \in DOMAIN s /\ at[p] \in wanted /\ g[p] = s[at[p]]
  <2> TAKE p \in DOMAIN g
  <2>1. at[p] \in 1..n /\ 1 \in DOMAIN f[at[p]] /\ p = Spot(f, at[p], 1)
    BY <1>8
  <2>2. at[p] \in wanted
    BY <1>5, <2>1
  <2>3. g[p] = f[at[p]][1]
    BY <1>4, <1>7, <2>1
  <2> QED BY <1>1, <1>5, <2>1, <2>2, <2>3
<1>10. \A p, q \in DOMAIN g : p < q => at[p] < at[q]
  <2> TAKE p, q \in DOMAIN g
  <2> HAVE p < q
  <2>1. at[p] \in DOMAIN f /\ 1 \in DOMAIN f[at[p]] /\ p = Spot(f, at[p], 1)
        /\ at[q] \in DOMAIN f /\ 1 \in DOMAIN f[at[q]] /\ q = Spot(f, at[q], 1)
    BY <1>4, <1>8
  <2>2. at[p] < at[q] \/ (at[p] = at[q] /\ 1 < 1)
    BY <1>6, <2>1, SpotOrder
  <2> QED BY <2>2
<1>11. \A k \in DOMAIN s : k \in wanted => \E p \in DOMAIN g : at[p] = k
  <2> TAKE k \in DOMAIN s
  <2> HAVE k \in wanted
  <2>1. k \in DOMAIN f /\ 1 \in DOMAIN f[k]
    BY <1>1, <1>4, <1>5
  <2> DEFINE p == Spot(f, k, 1)
  <2>2. p \in DOMAIN g
    BY <1>7, <2>1
  <2>3. at[p] \in DOMAIN f /\ 1 \in DOMAIN f[at[p]] /\ p = Spot(f, at[p], 1)
    BY <1>4, <1>8, <2>2
  <2>4. ~(p < p)
    BY <1>7, <2>2
  <2>5. ~(at[p] < k) /\ ~(k < at[p])
    BY <1>6, <2>1, <2>3, <2>4, SpotOrder
  <2>6. at[p] = k
    <3>1. at[p] \in Nat /\ k \in Nat
      BY <1>1, <1>4, <2>3
    <3> QED BY <2>5, <3>1
  <2> QED BY <2>2, <2>6
<1>12. Picks(g, s, wanted, at)
  BY <1>7, <1>9, <1>10, <1>11 DEF Picks
<1> QED BY <1>12 DEF g

-----------------------------------------------------------------------------
(* The messages that are sent.                                              *)

\* Before i comes what is owed for the calls of the owner
Owes(s, i) == /\ Owner(s, i) # 0 /\ ~IsResult(s, i)
              /\ s[Owner(s, i)].role = "assistant" /\ ~Dropped(s[Owner(s, i)])
OwedFits(m, s, i, o) ==
  /\ IsSeq(o) /\ (~Owes(s, i) => DOMAIN o = {})
  /\ \A k \in DOMAIN o : /\ o[k].id \in IdsOf(s[Owner(s, i)]) /\ Accepted(m, o[k].id)
                         /\ o[k].id \notin Answers(s, Owner(s, i), i)
  /\ \A k, l \in DOMAIN o : k # l => o[k].id # o[l].id
  /\ Owes(s, i) => \A id \in IdsOf(s[Owner(s, i)]) :
       id \notin Answers(s, Owner(s, i), i) => \E k \in DOMAIN o : o[k].id = id

\* The calls a result is made up for
LEMMA OwedIs ==
    ASSUME NEW m, NEW s, Adapted(m, s), NEW i \in 1..(Len(s) + 1)
    PROVE  OwedFits(m, s, i, Owed(s, i))
<1> DEFINE j == Owner(s, i)
           o == Owed(s, i)
           wanted == {k \in DOMAIN s[j].parts : /\ s[j].parts[k].kind = "call"
                                                /\ s[j].parts[k].id \notin Answers(s, j, i)}
<1>1. Len(s) \in Nat /\ DOMAIN s = 1..Len(s)
  BY SeqIs DEF Adapted
<1>2. i \in Nat /\ i >= 1 /\ i <= Len(s) + 1
  BY <1>1
<1>3. IsOwner(s, i, j)
  BY <1>2, OwnerIs
<1>4. CASE ~Owes(s, i)
  <2>1. o = <<>>
    BY <1>4 DEF Owes, Owed
  <2>2. o = [k \in 1..0 |-> o[k]] /\ 0 \in Nat
    BY <2>1
  <2> HIDE DEF o
  <2>3. IsSeq(o) /\ Len(o) = 0
    BY <2>2, ListIs
  <2>4. DOMAIN o = 1..0
    BY <2>3, SeqIs
  <2>5. DOMAIN o = {}
    BY <2>4
  <2>6. OwedFits(m, s, i, o)
    BY <1>4, <2>3, <2>5 DEF OwedFits
  <2> QED BY <2>6 DEF o
<1>5. CASE Owes(s, i)
  <2>1. o = Picked(s[j].parts, wanted)
    BY <1>5 DEF Owes, Owed
  <2>2. j # 0 /\ s[j].role = "assistant"
    BY <1>5 DEF Owes
  <2>3. j \in DOMAIN s
    BY <1>1, <1>2, <1>3, <2>2 DEF IsOwner
  <2>4. Fitting(m, s[j])
    BY <2>3 DEF Adapted
  <2> HIDE DEF o, j
  <2>5. /\ IsSeq(s[j].parts)
        /\ \A k \in DOMAIN s[j].parts : s[j].parts[k].kind = "call" =>
             /\ Accepted(m, s[j].parts[k].id)
             /\ \A l \in DOMAIN s[j].parts : l # k /\ s[j].parts[l].kind = "call" => s[j].parts[l].id # s[j].parts[k].id
    BY <2>2, <2>4 DEF Fitting
  <2>6. \A k : k \in wanted <=> k \in DOMAIN s[j].parts /\ s[j].parts[k].kind = "call" /\ s[j].parts[k].id \notin Answers(s, j, i)
    OBVIOUS
  <2> HIDE DEF wanted
  <2>7. PICK at : Picks(o, s[j].parts, wanted, at)
    BY <2>1, <2>5, PickedIs
  <2>8. IsSeq(o) /\ DOMAIN o \subseteq Nat
    BY <2>7, SeqIs DEF Picks
  <2>9. \A k \in DOMAIN o : /\ o[k].id \in IdsOf(s[j]) /\ Accepted(m, o[k].id) /\ o[k].id \notin Answers(s, j, i)
                            /\ at[k] \in DOMAIN s[j].parts /\ s[j].parts[at[k]].kind = "call" /\ o[k].id = s[j].parts[at[k]].id
    <3> TAKE k \in DOMAIN o
    <3>1. at[k] \in DOMAIN s[j].parts /\ at[k] \in wanted /\ o[k] = s[j].parts[at[k]]
      BY <2>7 DEF Picks
    <3> QED BY <2>5, <2>6, <3>1, IdsAre
  <2>10. \A k, l \in DOMAIN o : k # l => o[k].id # o[l].id
    <3> TAKE k, l \in DOMAIN o
    <3> HAVE k # l
    <3>1. k < l \/ l < k
      BY <2>8
    <3>2. at[k] # at[l]
      <4>1. at[k] < at[l] \/ at[l] < at[k]
        BY <2>7, <3>1 DEF Picks
      <4>2. at[k] \in Nat /\ at[l] \in Nat
        <5>1. DOMAIN s[j].parts \subseteq Nat
          BY <2>5, SeqIs
        <5> QED BY <2>9, <5>1
      <4> QED BY <4>1, <4>2
    <3> QED BY <2>5, <2>9, <3>2
  <2>11. \A id \in IdsOf(s[j]) : id \notin Answers(s, j, i) => \E k \in DOMAIN o : o[k].id = id
    <3> TAKE id \in IdsOf(s[j])
    <3> HAVE id \notin Answers(s, j, i)
    <3>1. PICK l \in DOMAIN s[j].parts : s[j].parts[l].kind = "call" /\ id = s[j].parts[l].id
      BY IdsAre
    <3>2. l \in wanted
      BY <2>6, <3>1
    <3>3. PICK k \in DOMAIN o : at[k] = l
      BY <2>7, <3>2 DEF Picks
    <3> QED BY <2>9, <3>1, <3>3
  <2>12. OwedFits(m, s, i, o)
    BY <1>5, <2>8, <2>9, <2>10, <2>11 DEF OwedFits, j
  <2> QED BY <2>12 DEF o
<1> QED BY <1>4, <1>5

\* A message of the session is sent unless its reply failed
Stays(s, i) == i <= Len(s) /\ ~Dropped(s[i])
\* What is sent at i: made-up results, then the message
Stepped(t, s, i) ==
  /\ IsSeq(t) /\ IsSeq(Owed(s, i))
  /\ Len(t) = IF Stays(s, i) THEN Len(Owed(s, i)) + 1 ELSE Len(Owed(s, i))
  /\ \A k \in 1..Len(Owed(s, i)) : t[k] = From(Result(Owed(s, i)[k].id, <<Part("text")>>), i)
  /\ Stays(s, i) => t[Len(Owed(s, i)) + 1] = From(s[i], i)

\* What Step computes
LEMMA StepIs ==
    ASSUME NEW m, NEW s, Adapted(m, s), NEW i \in 1..(Len(s) + 1)
    PROVE  Stepped(Step(s, i), s, i)
<1> DEFINE o == Owed(s, i)
           u == [k \in DOMAIN o |-> From(Result(o[k].id, <<Part("text")>>), i)]
           v == IF i > Len(s) \/ Dropped(s[i]) THEN <<>> ELSE <<From(s[i], i)>>
           t == Step(s, i)
<1>1. t = u \o v
  BY DEF Step
<1>2. IsSeq(o)
  BY OwedIs DEF OwedFits
<1>3. Len(o) \in Nat /\ DOMAIN o = 1..Len(o) /\ Len(s) \in Nat
  BY <1>2, SeqIs DEF Adapted
<1> HIDE DEF o
<1>4. u = [k \in 1..Len(o) |-> u[k]] /\ \A k \in 1..Len(o) : u[k] = From(Result(o[k].id, <<Part("text")>>), i)
  BY <1>3
<1> HIDE DEF u
<1>5. IsSeq(u) /\ Len(u) = Len(o)
  BY <1>3, <1>4, ListIs
<1>6. CASE Stays(s, i)
  <2>1. v = <<From(s[i], i)>>
    BY <1>3, <1>6 DEF Stays
  <2>2. v = [k \in 1..1 |-> v[k]] /\ 1 \in Nat /\ v[1] = From(s[i], i)
    BY <2>1
  <2> HIDE DEF v, t
  <2>3. IsSeq(v) /\ Len(v) = 1
    BY <2>2, ListIs
  <2>4. Joined(t, u, v)
    BY <1>1, <1>5, <2>3, ConcatIs
  <2>5. IsSeq(t) /\ Len(t) = Len(o) + 1 /\ (\A k \in 1..Len(o) : t[k] = u[k]) /\ t[Len(o) + 1] = v[1]
    BY <1>5, <2>3, <2>4 DEF Joined
  <2>6. Stepped(t, s, i)
    BY <1>2, <1>4, <1>6, <2>2, <2>5 DEF Stepped, o
  <2> QED BY <2>6 DEF t
<1>7. CASE ~Stays(s, i)
  <2>1. v = <<>>
    BY <1>3, <1>7 DEF Stays
  <2>2. v = [k \in 1..0 |-> v[k]] /\ 0 \in Nat
    BY <2>1
  <2> HIDE DEF v, t
  <2>3. IsSeq(v) /\ Len(v) = 0
    BY <2>2, ListIs
  <2>4. Joined(t, u, v)
    BY <1>1, <1>5, <2>3, ConcatIs
  <2>5. IsSeq(t) /\ Len(t) = Len(o) /\ (\A k \in 1..Len(o) : t[k] = u[k])
    BY <1>3, <1>5, <2>3, <2>4 DEF Joined
  <2>6. Stepped(t, s, i)
    BY <1>2, <1>4, <1>7, <2>5 DEF Stepped, o
  <2> QED BY <2>6 DEF t
<1> QED BY <1>6, <1>7

\* g is the members of f one after the other; the p-th is the num[p]-th of the src[p]-th
Flat(g, f, src, num) ==
  /\ IsSeq(g)
  /\ \A p \in DOMAIN g : src[p] \in DOMAIN f /\ num[p] \in DOMAIN f[src[p]] /\ g[p] = f[src[p]][num[p]]
  /\ \A p, q \in DOMAIN g : p < q <=> src[p] < src[q] \/ (src[p] = src[q] /\ num[p] < num[q])
  /\ \A i \in DOMAIN f : \A k \in DOMAIN f[i] : \E p \in DOMAIN g : src[p] = i /\ num[p] = k

\* Where the members of a flattened sequence come from
LEMMA FlatIs ==
    ASSUME NEW f, Nested(f)
    PROVE  \E src, num : Flat(FlattenSeq(f), f, src, num)
<1> DEFINE g == FlattenSeq(f)
           src == [p \in DOMAIN g |-> CHOOSE i \in DOMAIN f : \E k \in DOMAIN f[i] : p = Spot(f, i, k)]
           num == [p \in DOMAIN g |-> CHOOSE k \in DOMAIN f[src[p]] : p = Spot(f, src[p], k)]
<1>1. /\ IsSeq(g)
      /\ \A i \in DOMAIN f : \A k \in DOMAIN f[i] : Spot(f, i, k) \in DOMAIN g /\ g[Spot(f, i, k)] = f[i][k]
      /\ \A p \in DOMAIN g : \E i \in DOMAIN f : \E k \in DOMAIN f[i] : p = Spot(f, i, k)
  BY SpotsAre
<1> HIDE DEF g
<1>2. \A p \in DOMAIN g : src[p] = CHOOSE i \in DOMAIN f : \E k \in DOMAIN f[i] : p = Spot(f, i, k)
  OBVIOUS
<1>3. \A p \in DOMAIN g : num[p] = CHOOSE k \in DOMAIN f[src[p]] : p = Spot(f, src[p], k)
  OBVIOUS
<1> HIDE DEF src, num
<1>4. \A p \in DOMAIN g : src[p] \in DOMAIN f /\ \E k \in DOMAIN f[src[p]] : p = Spot(f, src[p], k)
  BY <1>1, <1>2
<1>5. \A p \in DOMAIN g : num[p] \in DOMAIN f[src[p]] /\ p = Spot(f, src[p], num[p])
  BY <1>3, <1>4
<1>6. \A p \in DOMAIN g : g[p] = f[src[p]][num[p]]
  BY <1>1, <1>4, <1>5
<1>7. \A p, q \in DOMAIN g : p < q <=> src[p] < src[q] \/ (src[p] = src[q] /\ num[p] < num[q])
  <2> TAKE p, q \in DOMAIN g
  <2>1. src[p] \in DOMAIN f /\ num[p] \in DOMAIN f[src[p]] /\ p = Spot(f, src[p], num[p])
        /\ src[q] \in DOMAIN f /\ num[q] \in DOMAIN f[src[q]] /\ q = Spot(f, src[q], num[q])
    BY <1>4, <1>5
  <2>2. Spot(f, src[p], num[p]) < Spot(f, src[q], num[q]) <=> src[p] < src[q] \/ (src[p] = src[q] /\ num[p] < num[q])
    BY <2>1, SpotOrder
  <2> QED BY <2>1, <2>2
<1>8. \A i \in DOMAIN f : \A k \in DOMAIN f[i] : \E p \in DOMAIN g : src[p] = i /\ num[p] = k
  <2> TAKE i \in DOMAIN f
  <2> TAKE k \in DOMAIN f[i]
  <2> DEFINE p == Spot(f, i, k)
  <2>1. p \in DOMAIN g
    BY <1>1
  <2>2. src[p] \in DOMAIN f /\ num[p] \in DOMAIN f[src[p]] /\ p = Spot(f, src[p], num[p])
    BY <1>4, <1>5, <2>1
  <2>3. p \in Nat
    BY SpotsAre
  <2>4. ~(src[p] < i \/ (src[p] = i /\ num[p] < k)) /\ ~(i < src[p] \/ (i = src[p] /\ k < num[p]))
    BY <2>2, <2>3, SpotOrder
  <2>5. DOMAIN f \subseteq Nat /\ DOMAIN f[i] \subseteq Nat /\ DOMAIN f[src[p]] \subseteq Nat
    BY <2>2, SeqIs DEF Nested
  <2>6. src[p] = i
    BY <2>2, <2>4, <2>5
  <2>7. num[p] = k
    BY <2>2, <2>4, <2>5, <2>6
  <2> QED BY <2>1, <2>6, <2>7
<1>9. Flat(g, f, src, num)
  BY <1>1, <1>4, <1>5, <1>6, <1>7, <1>8 DEF Flat
<1> QED BY <1>9 DEF g

\* What is sent of s: the p-th is the num[p]-th of what is sent at src[p]
Sending(m, s, g, src, num) ==
  /\ Adapted(m, s) /\ IsSeq(g)
  /\ \A p \in DOMAIN g :
       /\ src[p] \in 1..(Len(s) + 1) /\ g[p].at = src[p] /\ num[p] \in 1..(Len(Owed(s, src[p])) + 1)
       /\ num[p] <= Len(Owed(s, src[p])) => g[p].msg = Result(Owed(s, src[p])[num[p]].id, <<Part("text")>>)
       /\ num[p] = Len(Owed(s, src[p])) + 1 => Stays(s, src[p]) /\ g[p].msg = s[src[p]]
  /\ \A p, q \in DOMAIN g : p < q <=> src[p] < src[q] \/ (src[p] = src[q] /\ num[p] < num[q])
  /\ \A i \in 1..(Len(s) + 1) :
       /\ \A k \in 1..Len(Owed(s, i)) : \E p \in DOMAIN g : src[p] = i /\ num[p] = k
       /\ Stays(s, i) => \E p \in DOMAIN g : src[p] = i /\ num[p] = Len(Owed(s, i)) + 1

\* What is sent is laid out like that
LEMMA SendingIs ==
    ASSUME NEW m, NEW s, Adapted(m, s)
    PROVE  \E src, num : Sending(m, s, FlattenSeq([i \in 1..(Len(s) + 1) |-> Step(s, i)]), src, num)
<1> DEFINE f == [i \in 1..(Len(s) + 1) |-> Step(s, i)]
           g == FlattenSeq(f)
           w(i) == Len(Owed(s, i))
           N == Len(s) + 1
<1>1. Len(s) \in Nat /\ N \in Nat
  BY SeqIs DEF Adapted
<1>2. f = [i \in 1..N |-> f[i]] /\ \A i \in 1..N : f[i] = Step(s, i)
  OBVIOUS
<1> HIDE DEF f
<1>3. IsSeq(f) /\ DOMAIN f = 1..N
  <2>1. IsSeq(f) /\ Len(f) = N
    <3> HIDE DEF N
    <3> QED BY <1>1, <1>2, ListIs
  <2> QED BY <2>1, SeqIs
<1>4. \A i \in 1..N : Stepped(f[i], s, i)
  BY <1>2, StepIs
<1>5. \A i \in 1..N : IsSeq(f[i]) /\ w(i) \in Nat /\ DOMAIN f[i] = IF Stays(s, i) THEN 1..(w(i) + 1) ELSE 1..w(i)
  <2> TAKE i \in 1..N
  <2>1. /\ IsSeq(f[i]) /\ IsSeq(Owed(s, i))
        /\ Len(f[i]) = IF Stays(s, i) THEN w(i) + 1 ELSE w(i)
    BY <1>4 DEF Stepped
  <2>2. w(i) \in Nat /\ DOMAIN f[i] = 1..Len(f[i])
    BY <2>1, SeqIs
  <2> QED BY <2>1, <2>2
<1>6. Nested(f)
  BY <1>3, <1>5 DEF Nested
<1>7. PICK src, num : Flat(g, f, src, num)
  BY <1>6, FlatIs
<1> HIDE DEF g
<1>8. ASSUME NEW p \in DOMAIN g
      PROVE  /\ src[p] \in 1..N /\ g[p].at = src[p] /\ num[p] \in 1..(w(src[p]) + 1)
             /\ num[p] <= w(src[p]) => g[p].msg = Result(Owed(s, src[p])[num[p]].id, <<Part("text")>>)
             /\ num[p] = w(src[p]) + 1 => Stays(s, src[p]) /\ g[p].msg = s[src[p]]
  <2> DEFINE i == src[p]
             k == num[p]
  <2>1. i \in 1..N /\ k \in DOMAIN f[i] /\ g[p] = f[i][k]
    BY <1>3, <1>7 DEF Flat
  <2>2. w(i) \in Nat /\ DOMAIN f[i] = IF Stays(s, i) THEN 1..(w(i) + 1) ELSE 1..w(i)
    BY <1>5, <2>1
  <2>3. k \in 1..(w(i) + 1) /\ (k = w(i) + 1 => Stays(s, i))
    BY <2>1, <2>2
  <2>4. Stepped(f[i], s, i)
    BY <1>4, <2>1
  <2> HIDE DEF i, k
  <2>5. CASE k <= w(i)
    <3>1. k \in 1..w(i)
      BY <2>2, <2>3, <2>5
    <3>2. g[p] = From(Result(Owed(s, i)[k].id, <<Part("text")>>), i)
      BY <2>1, <2>4, <3>1 DEF Stepped
    <3>3. g[p].at = i /\ g[p].msg = Result(Owed(s, i)[k].id, <<Part("text")>>)
      BY <3>2 DEF From
    <3>4. k # w(i) + 1
      BY <2>2, <3>1
    <3> QED BY <2>1, <2>3, <3>3, <3>4 DEF i, k
  <2>6. CASE k = w(i) + 1
    <3>1. g[p] = From(s[i], i) /\ Stays(s, i)
      BY <2>1, <2>3, <2>4, <2>6 DEF Stepped
    <3>2. g[p].at = i /\ g[p].msg = s[i]
      BY <3>1 DEF From
    <3>3. ~(k <= w(i))
      BY <2>2, <2>6
    <3> QED BY <2>1, <2>3, <3>1, <3>2, <3>3 DEF i, k
  <2>7. k <= w(i) \/ k = w(i) + 1
    BY <2>2, <2>3
  <2> QED BY <2>5, <2>6, <2>7
<1>9. ASSUME NEW i \in 1..N
      PROVE  /\ \A k \in 1..w(i) : \E p \in DOMAIN g : src[p] = i /\ num[p] = k
             /\ Stays(s, i) => \E p \in DOMAIN g : src[p] = i /\ num[p] = w(i) + 1
  <2>1. \A k \in DOMAIN f[i] : \E p \in DOMAIN g : src[p] = i /\ num[p] = k
    BY <1>3, <1>7 DEF Flat
  <2>2. \A k \in 1..w(i) : k \in DOMAIN f[i]
    BY <1>5
  <2>3. Stays(s, i) => w(i) + 1 \in DOMAIN f[i]
    BY <1>5
  <2> QED BY <2>1, <2>2, <2>3
<1>10. IsSeq(g) /\ \A p, q \in DOMAIN g : p < q <=> src[p] < src[q] \/ (src[p] = src[q] /\ num[p] < num[q])
  BY <1>7 DEF Flat
<1>11. Sending(m, s, g, src, num)
  BY <1>8, <1>9, <1>10 DEF Sending
<1> QED BY <1>11 DEF g, f

\* A result of the session is sent, and nothing is made up before it
LEMMA ResultsStay ==
    ASSUME NEW m, NEW s, Adapted(m, s), NEW i \in DOMAIN s, s[i].role = "toolResult"
    PROVE  Len(Owed(s, i)) = 0 /\ Stays(s, i)
<1>1. DOMAIN s = 1..Len(s) /\ Len(s) \in Nat
  BY SeqIs DEF Adapted
<1>2. ~Owes(s, i)
  BY DEF Owes, IsResult
<1>3. IsSeq(Owed(s, i)) /\ DOMAIN Owed(s, i) = {}
  <2>1. i \in 1..(Len(s) + 1)
    BY <1>1
  <2> QED BY <1>2, <2>1, OwedIs DEF OwedFits
<1>4. Len(Owed(s, i)) = 0
  <2>1. Len(Owed(s, i)) \in Nat /\ DOMAIN Owed(s, i) = 1..Len(Owed(s, i))
    BY <1>3, SeqIs
  <2> QED BY <1>3, <2>1
<1>5. Stays(s, i)
  BY <1>1 DEF Stays, Dropped
<1> QED BY <1>4, <1>5

\* A result that is sent comes after its call, with other results between, none of the same call
Tied(g, p) == \E o \in 1..(p - 1) :
  /\ g[o].msg.role = "assistant" /\ g[p].msg.id \in IdsOf(g[o].msg)
  /\ \A q \in (o + 1)..(p - 1) : g[q].msg.role = "toolResult" /\ g[q].msg.id # g[p].msg.id
\* Each call that is sent has a result after it, with other results between
Settled(g, p) == \A id \in IdsOf(g[p].msg) : \E q \in DOMAIN g :
  /\ q > p /\ g[q].msg.id = id
  /\ \A x \in (p + 1)..q : g[x].msg.role = "toolResult"

\* What comes between a message and a later place
LEMMA Between ==
    ASSUME NEW m, NEW s, NEW g, NEW src, NEW num, Sending(m, s, g, src, num),
           NEW o \in DOMAIN g, num[o] = Len(Owed(s, src[o])) + 1, NEW q \in DOMAIN g, o < q
    PROVE  src[o] < src[q]
<1>1. src[o] < src[q] \/ (src[o] = src[q] /\ num[o] < num[q])
  BY DEF Sending
<1>2. num[q] \in 1..(Len(Owed(s, src[q])) + 1) /\ src[q] \in 1..(Len(s) + 1)
  BY DEF Sending
<1>3. Len(Owed(s, src[q])) \in Nat
  BY <1>2, OwedIs, SeqIs DEF Sending, OwedFits
<1> QED BY <1>1, <1>2, <1>3

\* A result of the session, as it is sent
LEMMA SentResult ==
    ASSUME NEW m, NEW s, NEW g, NEW src, NEW num, Sending(m, s, g, src, num),
           NEW q \in DOMAIN g, src[q] \in DOMAIN s, s[src[q]].role = "toolResult"
    PROVE  g[q].msg = s[src[q]] /\ num[q] = 1
<1>1. Adapted(m, s)
  BY DEF Sending
<1>2. Len(Owed(s, src[q])) = 0
  BY <1>1, ResultsStay
<1>3. num[q] \in 1..(0 + 1) /\ (num[q] = 0 + 1 => g[q].msg = s[src[q]])
  BY <1>2 DEF Sending
<1> QED BY <1>3

\* Results come after their calls
LEMMA SentTied ==
    ASSUME NEW m, NEW s, NEW g, NEW src, NEW num, Sending(m, s, g, src, num),
           NEW p \in DOMAIN g, g[p].msg.role = "toolResult"
    PROVE  Tied(g, p)
<1> DEFINE n == Len(s)
           i == src[p]
           k == num[p]
           w(x) == Len(Owed(s, x))
<1>1. Adapted(m, s) /\ IsSeq(g)
  BY DEF Sending
<1>2. n \in Nat /\ DOMAIN s = 1..n /\ DOMAIN g = 1..Len(g) /\ Len(g) \in Nat
  BY <1>1, SeqIs DEF Adapted
<1>3. \A x \in 1..(n + 1) : w(x) \in Nat /\ DOMAIN Owed(s, x) = 1..w(x) /\ OwedFits(m, s, x, Owed(s, x))
  BY <1>1, OwedIs, SeqIs DEF OwedFits
<1>4. i \in 1..(n + 1) /\ k \in 1..(w(i) + 1)
  BY DEF Sending
<1> HIDE DEF n
<1>5. SUFFICES ASSUME NEW j \in 1..(i - 1), j <= n, s[j].role = "assistant", ~Dropped(s[j]), g[p].msg.id \in IdsOf(s[j]),
                      \A q \in DOMAIN g : j < src[q] /\ q < p =>
                        g[q].msg.role = "toolResult" /\ g[q].msg.id # g[p].msg.id
               PROVE  Tied(g, p)
  <2>1. CASE k = w(i) + 1
    <3>1. Stays(s, i) /\ g[p].msg = s[i]
      BY <2>1 DEF Sending
    <3>2. i \in 1..n /\ s[i].role = "toolResult"
      BY <1>2, <1>4, <3>1 DEF Stays, n
    <3>3. Belongs(s, i) /\ w(i) = 0
      <4>1. i \in DOMAIN s
        BY <1>2, <3>2
      <4> HIDE DEF i
      <4>2. Belongs(s, i)
        BY <1>1, <3>2, <4>1 DEF Adapted
      <4>3. Len(Owed(s, i)) = 0
        BY <1>1, <3>2, <4>1, ResultsStay
      <4> QED BY <4>2, <4>3
    <3>4. PICK j \in 1..(i - 1) :
            /\ s[j].role = "assistant" /\ s[j].stop = "toolUse" /\ s[i].id \in IdsOf(s[j])
            /\ \A x \in (j + 1)..(i - 1) : s[x].role = "toolResult" /\ s[x].id # s[i].id
      BY <3>3 DEF Belongs
    <3>5. j <= n /\ ~Dropped(s[j])
      BY <1>2, <3>2, <3>4 DEF Dropped
    <3>6. \A q \in DOMAIN g : j < src[q] /\ q < p => g[q].msg.role = "toolResult" /\ g[q].msg.id # g[p].msg.id
      <4> TAKE q \in DOMAIN g
      <4> HAVE j < src[q] /\ q < p
      <4>1. src[q] \in 1..(n + 1) /\ num[q] \in 1..(w(src[q]) + 1)
        BY DEF Sending, n
      <4>2. src[q] < i \/ (src[q] = i /\ num[q] < k)
        BY DEF Sending
      <4>3. src[q] < i
        <5>1. CASE src[q] = i
          <6>1. num[q] \in 1..1 /\ k = 1
            BY <2>1, <3>3, <4>1, <5>1
          <6> QED BY <4>2, <6>1
        <5> QED BY <4>2, <5>1
      <4>4. src[q] \in (j + 1)..(i - 1) /\ src[q] \in DOMAIN s
        BY <1>2, <3>2, <4>1, <4>3
      <4>5. g[q].msg = s[src[q]]
        BY <3>4, <4>4, SentResult
      <4> QED BY <3>1, <3>4, <4>4, <4>5
    <3> QED BY <1>5, <3>1, <3>4, <3>5, <3>6
  <2>2. CASE k # w(i) + 1
    <3>1. k \in 1..w(i) /\ k <= w(i)
      BY <1>3, <1>4, <2>2
    <3> DEFINE o == Owed(s, i)
    <3>2. g[p].msg = Result(o[k].id, <<Part("text")>>)
      BY <3>1 DEF Sending
    <3>3. g[p].msg.id = o[k].id
      BY <3>2 DEF Result
    <3>4. k \in DOMAIN o /\ OwedFits(m, s, i, o)
      BY <1>3, <1>4, <3>1
    <3> HIDE DEF o
    <3>5. Owes(s, i)
      BY <3>4 DEF OwedFits
    <3> DEFINE j == Owner(s, i)
    <3>6. IsOwner(s, i, j)
      BY <1>4, OwnerIs
    <3>7. j # 0 /\ s[j].role = "assistant" /\ ~Dropped(s[j])
      BY <3>5 DEF Owes
    <3>8. o[k].id \in IdsOf(s[j]) /\ o[k].id \notin Answers(s, j, i)
      BY <3>4 DEF OwedFits
    <3> HIDE DEF j
    <3>9. j \in 1..(i - 1) /\ j <= n
      BY <1>2, <1>4, <3>6, <3>7 DEF IsOwner
    <3>10. \A q \in DOMAIN g : j < src[q] /\ q < p => g[q].msg.role = "toolResult" /\ g[q].msg.id # g[p].msg.id
      <4> TAKE q \in DOMAIN g
      <4> HAVE j < src[q] /\ q < p
      <4>1. src[q] \in 1..(n + 1) /\ num[q] \in 1..(w(src[q]) + 1)
        BY DEF Sending, n
      <4>2. src[q] < i \/ (src[q] = i /\ num[q] < k)
        BY DEF Sending
      <4>3. CASE src[q] < i
        <5>1. src[q] \in (j + 1)..(i - 1) /\ src[q] \in DOMAIN s
          BY <1>2, <1>4, <3>9, <4>1, <4>3
        <5>2. s[src[q]].role = "toolResult"
          BY <3>6, <5>1 DEF IsOwner
        <5>3. g[q].msg = s[src[q]]
          BY <5>1, <5>2, SentResult
        <5>4. s[src[q]].id \in Answers(s, j, i)
          BY <5>1 DEF Answers
        <5> QED BY <3>3, <3>8, <5>2, <5>3, <5>4
      <4>4. CASE src[q] = i /\ num[q] < k
        <5>1. num[q] \in 1..w(i) /\ num[q] <= w(i)
          BY <1>3, <1>4, <3>1, <4>1, <4>4
        <5>2. g[q].msg = Result(o[num[q]].id, <<Part("text")>>)
          BY <4>4, <5>1 DEF Sending, o
        <5>3. num[q] \in DOMAIN o /\ num[q] # k
          BY <1>3, <1>4, <4>4, <5>1 DEF o
        <5>4. o[num[q]].id # o[k].id
          BY <3>4, <5>3 DEF OwedFits
        <5> QED BY <3>3, <5>2, <5>4 DEF Result
      <4> QED BY <4>2, <4>3, <4>4
    <3> QED BY <1>5, <3>3, <3>7, <3>8, <3>9, <3>10
  <2> QED BY <2>1, <2>2
<1>6. Stays(s, j) /\ j \in 1..(n + 1)
  BY <1>2, <1>5 DEF Stays, n
<1>7. PICK o \in DOMAIN g : src[o] = j /\ num[o] = w(j) + 1
  BY <1>6 DEF Sending, n
<1>8. g[o].msg = s[j]
  BY <1>7 DEF Sending
<1>9. o < p
  <2>1. src[o] < src[p]
    BY <1>4, <1>5, <1>7
  <2> QED BY <2>1 DEF Sending
<1>10. o \in 1..(p - 1)
  BY <1>2, <1>9
<1>11. \A q \in (o + 1)..(p - 1) : g[q].msg.role = "toolResult" /\ g[q].msg.id # g[p].msg.id
  <2> TAKE q \in (o + 1)..(p - 1)
  <2>1. q \in DOMAIN g /\ o < q /\ q < p
    BY <1>2, <1>10
  <2>2. src[o] < src[q]
    BY <1>7, <2>1, Between
  <2> QED BY <1>5, <1>7, <2>1, <2>2
<1> QED BY <1>5, <1>8, <1>10, <1>11 DEF Tied

\* Calls have their results
LEMMA SentSettled ==
    ASSUME NEW m, NEW s, NEW g, NEW src, NEW num, Sending(m, s, g, src, num),
           NEW p \in DOMAIN g, g[p].msg.role = "assistant"
    PROVE  Settled(g, p)
<1> DEFINE n == Len(s)
           j == src[p]
           w(x) == Len(Owed(s, x))
<1>1. Adapted(m, s) /\ IsSeq(g)
  BY DEF Sending
<1>2. n \in Nat /\ DOMAIN s = 1..n /\ DOMAIN g = 1..Len(g) /\ Len(g) \in Nat
  BY <1>1, SeqIs DEF Adapted
<1>3. \A x \in 1..(n + 1) : w(x) \in Nat /\ DOMAIN Owed(s, x) = 1..w(x) /\ OwedFits(m, s, x, Owed(s, x))
  BY <1>1, OwedIs, SeqIs DEF OwedFits
<1>4. j \in 1..(n + 1) /\ num[p] \in 1..(w(j) + 1)
  BY DEF Sending
<1>5. num[p] = w(j) + 1
  <2>1. CASE num[p] <= w(j)
    <3>1. g[p].msg = Result(Owed(s, j)[num[p]].id, <<Part("text")>>)
      BY <2>1 DEF Sending
    <3> QED BY <3>1 DEF Result
  <2> QED BY <1>3, <1>4, <2>1
<1>6. Stays(s, j) /\ g[p].msg = s[j]
  BY <1>5 DEF Sending
<1>7. j \in 1..n /\ ~Dropped(s[j]) /\ s[j].role = "assistant"
  BY <1>2, <1>4, <1>6 DEF Stays
<1> HIDE DEF n
<1>8. PICK i \in (j + 1)..(n + 1) :
        /\ i = n + 1 \/ s[i].role # "toolResult"
        /\ \A x \in (j + 1)..(i - 1) : s[x].role = "toolResult"
  <2> DEFINE D == {x \in (j + 1)..(n + 1) : x = n + 1 \/ s[x].role # "toolResult"}
  <2>1. D \subseteq Nat /\ n + 1 \in D
    BY <1>2, <1>7
  <2>2. PICK i \in D : \A x \in D : ~(x < i)
    <3> HIDE DEF D
    <3> QED BY <2>1, LeastNumber
  <2>3. \A x \in (j + 1)..(i - 1) : s[x].role = "toolResult"
    <3> TAKE x \in (j + 1)..(i - 1)
    <3>1. x \in (j + 1)..(n + 1) /\ x < i
      BY <1>2, <1>7, <2>2
    <3> QED BY <2>2, <3>1
  <2> QED BY <2>2, <2>3
<1>9. i \in Nat /\ i >= 1 /\ i \in 1..(n + 1) /\ j < i
  BY <1>2, <1>7, <1>8
<1>10. Owner(s, i) = j
  <2>1. IsOwner(s, i, j)
    BY <1>7, <1>8, <1>9 DEF IsOwner
  <2>2. IsOwner(s, i, Owner(s, i))
    BY <1>9, OwnerIs
  <2> QED BY <1>9, <2>1, <2>2, OneOwner
<1>11. Owes(s, i)
  <2>1. ~IsResult(s, i)
    BY <1>2, <1>8, <1>9 DEF IsResult
  <2>2. j # 0
    BY <1>7
  <2> QED BY <1>7, <1>10, <2>1, <2>2 DEF Owes
<1>12. SUFFICES ASSUME NEW id \in IdsOf(s[j])
                PROVE  \E q \in DOMAIN g : /\ q > p /\ g[q].msg.id = id
                                           /\ \A x \in (p + 1)..q : g[x].msg.role = "toolResult"
  BY <1>6 DEF Settled
<1>13. CASE id \in Answers(s, j, i)
  <2>1. PICK k \in (j + 1)..(i - 1) : k \in DOMAIN s /\ s[k].id = id
    BY <1>13 DEF Answers
  <2>2. s[k].role = "toolResult"
    BY <1>8, <2>1
  <2>3. w(k) = 0 /\ Stays(s, k) /\ k \in 1..(n + 1) /\ j < k
    BY <1>1, <1>2, <1>7, <2>1, <2>2, ResultsStay
  <2>4. PICK q \in DOMAIN g : src[q] = k /\ num[q] = w(k) + 1
    BY <2>3 DEF Sending, n
  <2>5. g[q].msg.id = id
    BY <2>1, <2>4 DEF Sending
  <2>6. p < q
    <3>1. src[p] < src[q]
      BY <2>3, <2>4
    <3> QED BY <3>1 DEF Sending
  <2>7. \A x \in (p + 1)..q : g[x].msg.role = "toolResult"
    <3> TAKE x \in (p + 1)..q
    <3>1. x \in DOMAIN g /\ p < x /\ (x < q \/ x = q)
      BY <1>2, <2>6
    <3>2. j < src[x]
      BY <1>5, <3>1, Between
    <3>3. src[x] <= k /\ src[x] \in 1..(n + 1)
      <4>1. src[x] \in 1..(n + 1)
        BY <3>1 DEF Sending, n
      <4>2. src[x] < src[q] \/ src[x] = src[q]
        BY <3>1 DEF Sending
      <4> QED BY <2>3, <2>4, <4>1, <4>2
    <3>4. src[x] \in (j + 1)..(i - 1) /\ src[x] \in DOMAIN s
      BY <1>2, <1>7, <1>9, <2>1, <3>2, <3>3
    <3>5. s[src[x]].role = "toolResult"
      BY <1>8, <3>4
    <3> QED BY <3>1, <3>4, <3>5, SentResult
  <2> QED BY <2>5, <2>6, <2>7
<1>14. CASE id \notin Answers(s, j, i)
  <2> DEFINE o == Owed(s, i)
  <2>1. PICK k \in DOMAIN o : o[k].id = id
    BY <1>3, <1>9, <1>10, <1>11, <1>14 DEF OwedFits
  <2>2. k \in 1..w(i) /\ w(i) \in Nat
    BY <1>3, <1>9
  <2>3. PICK q \in DOMAIN g : src[q] = i /\ num[q] = k
    BY <1>9, <2>2 DEF Sending, n
  <2>4. \A x \in DOMAIN g : src[x] = i /\ num[x] <= w(i) => g[x].msg = Result(o[num[x]].id, <<Part("text")>>)
    BY DEF Sending
  <2> HIDE DEF o
  <2>5. g[q].msg.id = id
    <3>1. num[q] <= w(i)
      BY <2>2, <2>3
    <3>2. g[q].msg = Result(o[k].id, <<Part("text")>>)
      BY <2>3, <2>4, <3>1
    <3> QED BY <2>1, <3>2 DEF Result
  <2>6. p < q
    <3>1. src[p] < src[q]
      BY <1>9, <2>3
    <3> QED BY <3>1 DEF Sending
  <2>7. \A x \in (p + 1)..q : g[x].msg.role = "toolResult"
    <3> TAKE x \in (p + 1)..q
    <3>1. x \in DOMAIN g /\ p < x /\ (x < q \/ x = q)
      BY <1>2, <2>6
    <3>2. j < src[x]
      BY <1>5, <3>1, Between
    <3>3. src[x] \in 1..(n + 1) /\ num[x] \in 1..(w(src[x]) + 1)
      BY <3>1 DEF Sending, n
    <3>4. src[x] < src[q] \/ (src[x] = src[q] /\ num[x] < num[q]) \/ x = q
      BY <3>1 DEF Sending
    <3>5. CASE src[x] < i
      <4>1. src[x] \in (j + 1)..(i - 1) /\ src[x] \in DOMAIN s
        BY <1>2, <1>7, <1>9, <3>2, <3>3, <3>5
      <4>2. s[src[x]].role = "toolResult"
        BY <1>8, <4>1
      <4> QED BY <3>1, <4>1, <4>2, SentResult
    <3>6. CASE src[x] = i /\ num[x] <= k
      <4>1. num[x] <= w(i)
        BY <2>2, <3>3, <3>6
      <4>2. g[x].msg = Result(o[num[x]].id, <<Part("text")>>)
        BY <2>4, <3>1, <3>6, <4>1
      <4> QED BY <4>2 DEF Result
    <3>7. src[x] < i \/ (src[x] = i /\ num[x] <= k)
      BY <2>2, <2>3, <3>3, <3>4
    <3> QED BY <3>5, <3>6, <3>7
  <2> QED BY <2>5, <2>6, <2>7
<1> QED BY <1>13, <1>14

\* What is sent can be converted, and has a result for each call and a call for each result
SentFits(m, g) ==
  /\ IsSeq(g)
  /\ \A p \in DOMAIN g :
       /\ g[p].at \in Nat /\ Fitting(m, g[p].msg)
       /\ g[p].msg.role = "toolResult" => Tied(g, p)
       /\ g[p].msg.role = "assistant" => Settled(g, p) /\ messages[g[p].at].model = g[p].msg.model
  /\ \A p, q \in DOMAIN g : p < q =>
       g[p].at <= g[q].at /\ (g[p].msg.role = "assistant" /\ g[q].msg.role = "assistant" => g[p].at # g[q].at)
\* Of the session it has every message, but for replies that failed, and its end
SentKeeps(m, g) ==
  /\ \A i \in DOMAIN messages : Speaks(messages[i], m) =>
       \E p \in DOMAIN g :
         /\ g[p].at = i /\ g[p].msg.role \in {"user", "assistant"}
         /\ g[p].msg.role = "assistant" => Holds(g[p].msg.parts, "text")
  /\ messages # <<>> /\ messages[Len(messages)].role = "user" =>
       Len(g) \in DOMAIN g /\ g[Len(g)].msg.role = "user"

\* What is sent fits
LEMMA SendingFits ==
    ASSUME NEW m, NEW s, NEW g, NEW src, NEW num, Sending(m, s, g, src, num)
    PROVE  SentFits(m, g)
<1> DEFINE n == Len(s)
           w(x) == Len(Owed(s, x))
<1>1. Adapted(m, s) /\ IsSeq(g)
  BY DEF Sending
<1>2. n \in Nat /\ DOMAIN s = 1..n
  BY <1>1, SeqIs DEF Adapted
<1>3. \A x \in 1..(n + 1) : w(x) \in Nat /\ DOMAIN Owed(s, x) = 1..w(x) /\ OwedFits(m, s, x, Owed(s, x))
  BY <1>1, OwedIs, SeqIs DEF OwedFits
<1>4. ASSUME NEW p \in DOMAIN g
      PROVE  /\ src[p] \in 1..(n + 1) /\ g[p].at = src[p]
             /\ \/ g[p].msg.role = "toolResult" /\ Fitting(m, g[p].msg)
                \/ num[p] = w(src[p]) + 1 /\ src[p] \in 1..n /\ g[p].msg = s[src[p]]
  <2>1. src[p] \in 1..(n + 1) /\ num[p] \in 1..(w(src[p]) + 1) /\ g[p].at = src[p]
    BY DEF Sending
  <2>2. CASE num[p] <= w(src[p])
    <3> DEFINE id == Owed(s, src[p])[num[p]].id
    <3>1. g[p].msg = Result(id, <<Part("text")>>)
      BY <2>2 DEF Sending
    <3>2. num[p] \in DOMAIN Owed(s, src[p]) /\ OwedFits(m, s, src[p], Owed(s, src[p]))
      BY <1>3, <2>1, <2>2
    <3>3. Accepted(m, id)
      BY <3>2 DEF OwedFits
    <3>4. <<Part("text")>> \in Contents
      BY DEF Contents
    <3> HIDE DEF id
    <3>5. g[p].msg.role = "toolResult" /\ g[p].msg.id = id /\ g[p].msg.parts \in Contents
      BY <3>1, <3>4 DEF Result
    <3>6. Fitting(m, g[p].msg)
      BY <3>3, <3>5 DEF Fitting
    <3> QED BY <2>1, <3>5, <3>6
  <2>3. CASE num[p] = w(src[p]) + 1
    <3>1. Stays(s, src[p]) /\ g[p].msg = s[src[p]]
      BY <2>3 DEF Sending
    <3>2. src[p] \in 1..n
      BY <1>2, <2>1, <3>1 DEF Stays
    <3> QED BY <2>1, <2>3, <3>1, <3>2
  <2> QED BY <1>3, <2>1, <2>2, <2>3
<1>5. ASSUME NEW p \in DOMAIN g
      PROVE  /\ g[p].at \in Nat /\ Fitting(m, g[p].msg)
             /\ g[p].msg.role = "toolResult" => Tied(g, p)
             /\ g[p].msg.role = "assistant" => Settled(g, p) /\ messages[g[p].at].model = g[p].msg.model
  <2>1. g[p].at \in Nat
    BY <1>2, <1>4
  <2>2. CASE g[p].msg.role = "toolResult" /\ Fitting(m, g[p].msg)
    BY <2>1, <2>2, SentTied
  <2>3. CASE src[p] \in 1..n /\ g[p].msg = s[src[p]]
    <3>1. /\ Fitting(m, s[src[p]]) /\ s[src[p]].role = messages[src[p]].role
          /\ s[src[p]].role = "assistant" => s[src[p]].model = messages[src[p]].model
      BY <1>1, <1>2, <2>3 DEF Adapted
    <3>2. g[p].msg.role = "assistant" => messages[g[p].at].model = g[p].msg.model
      BY <1>4, <2>3, <3>1
    <3>3. g[p].msg.role = "assistant" => Settled(g, p)
      BY SentSettled
    <3>4. g[p].msg.role = "toolResult" => Tied(g, p)
      BY SentTied
    <3> QED BY <2>1, <2>3, <3>1, <3>2, <3>3, <3>4
  <2> QED BY <1>4, <2>2, <2>3
<1>6. ASSUME NEW p \in DOMAIN g, NEW q \in DOMAIN g, p < q
      PROVE  g[p].at <= g[q].at /\ (g[p].msg.role = "assistant" /\ g[q].msg.role = "assistant" => g[p].at # g[q].at)
  <2>1. src[p] < src[q] \/ (src[p] = src[q] /\ num[p] < num[q])
    BY <1>6 DEF Sending
  <2>2. g[p].at = src[p] /\ g[q].at = src[q] /\ src[p] \in 1..(n + 1) /\ src[q] \in 1..(n + 1)
    BY <1>4
  <2>3. src[p] <= src[q]
    BY <1>2, <2>1, <2>2
  <2>4. CASE g[p].msg.role = "assistant" /\ g[q].msg.role = "assistant"
    <3>1. num[p] = w(src[p]) + 1 /\ num[q] = w(src[q]) + 1
      BY <1>4, <2>4
    <3>2. w(src[p]) \in Nat /\ w(src[q]) \in Nat
      BY <1>3, <2>2
    <3>3. src[p] # src[q]
      BY <2>1, <2>2, <3>1, <3>2
    <3> QED BY <2>2, <2>3, <3>3
  <2> QED BY <2>2, <2>3, <2>4
<1> QED BY <1>1, <1>5, <1>6 DEF SentFits

\* And nothing is lost
LEMMA SendingKeeps ==
    ASSUME MessagesInv, NEW m, NEW s, NEW g, NEW src, NEW num, Sending(m, s, g, src, num)
    PROVE  SentKeeps(m, g)
<1> DEFINE n == Len(s)
           w(x) == Len(Owed(s, x))
<1>1. Adapted(m, s) /\ IsSeq(g)
  BY DEF Sending
<1>2. n \in Nat /\ DOMAIN s = 1..n /\ DOMAIN g = 1..Len(g) /\ Len(g) \in Nat /\ n = Len(messages) /\ DOMAIN messages = 1..n
  BY <1>1, SeqIs DEF Adapted, MessagesInv, Orderly
<1>3. \A x \in 1..(n + 1) : w(x) \in Nat /\ DOMAIN Owed(s, x) = 1..w(x) /\ OwedFits(m, s, x, Owed(s, x))
  BY <1>1, OwedIs, SeqIs DEF OwedFits
<1> HIDE DEF n
<1>4. ASSUME NEW i \in 1..n, Stays(s, i)
      PROVE  \E p \in DOMAIN g : src[p] = i /\ g[p].at = i /\ g[p].msg = s[i] /\ num[p] = w(i) + 1
  <2>1. i \in 1..(n + 1)
    BY <1>2
  <2>2. PICK p \in DOMAIN g : src[p] = i /\ num[p] = w(i) + 1
    BY <1>4, <2>1 DEF Sending, n
  <2>3. g[p].at = i /\ g[p].msg = s[i]
    BY <2>2 DEF Sending
  <2> QED BY <2>2, <2>3
<1>5. ASSUME NEW i \in DOMAIN messages, Speaks(messages[i], m)
      PROVE  \E p \in DOMAIN g :
               /\ g[p].at = i /\ g[p].msg.role \in {"user", "assistant"}
               /\ g[p].msg.role = "assistant" => Holds(g[p].msg.parts, "text")
  <2>1. messages[i].role = "user" \/ (messages[i].role = "assistant" /\ messages[i].stop # "error")
    BY <1>5 DEF Speaks
  <2>2. i \in 1..n /\ i \in DOMAIN s
    BY <1>2
  <2>3. /\ s[i].role = messages[i].role
        /\ s[i].role = "assistant" => s[i].stop = messages[i].stop /\ (Speaks(messages[i], m) => Holds(s[i].parts, "text"))
    BY <1>1, <2>2 DEF Adapted
  <2>4. Stays(s, i)
    BY <1>2, <2>1, <2>2, <2>3 DEF Stays, Dropped, n
  <2>5. PICK p \in DOMAIN g : g[p].at = i /\ g[p].msg = s[i]
    BY <1>4, <2>2, <2>4
  <2> QED BY <1>5, <2>1, <2>3, <2>5
<1>6. ASSUME messages # <<>>, messages[Len(messages)].role = "user"
      PROVE  Len(g) \in DOMAIN g /\ g[Len(g)].msg.role = "user"
  <2>1. n \in 1..n
    <3>1. n # 0
      <4>1. IsSeq(messages)
        BY DEF MessagesInv, Orderly
      <4>2. messages \in Seq({messages[i] : i \in DOMAIN messages})
        BY <4>1 DEF IsSeq
      <4> QED BY <1>2, <1>6, <4>2, EmptySeq
    <3> QED BY <1>2, <3>1
  <2>2. s[n].role = "user"
    BY <1>1, <1>2, <1>6, <2>1 DEF Adapted
  <2>3. Stays(s, n)
    BY <1>2, <2>2 DEF Stays, Dropped, n
  <2>4. PICK p \in DOMAIN g : src[p] = n /\ g[p].msg = s[n] /\ num[p] = w(n) + 1
    BY <1>4, <2>1, <2>3
  <2>5. Owner(s, n + 1) = n
    <3>1. n + 1 \in Nat /\ n + 1 >= 1
      BY <1>2
    <3>2. IsOwner(s, n + 1, Owner(s, n + 1))
      BY <3>1, OwnerIs
    <3>3. IsOwner(s, n + 1, n)
      BY <1>2, <2>2 DEF IsOwner
    <3> QED BY <3>1, <3>2, <3>3, OneOwner
  <2>6. ~Owes(s, n + 1)
    BY <2>2, <2>5 DEF Owes
  <2>7. w(n + 1) = 0
    <3>1. n + 1 \in 1..(n + 1)
      BY <1>2
    <3>2. DOMAIN Owed(s, n + 1) = {} /\ w(n + 1) \in Nat /\ DOMAIN Owed(s, n + 1) = 1..w(n + 1)
      BY <1>3, <2>6, <3>1 DEF OwedFits
    <3> QED BY <3>2
  <2>8. ASSUME NEW q \in DOMAIN g PROVE ~(p < q)
    <3>1. src[q] \in 1..(n + 1) /\ num[q] \in 1..(w(src[q]) + 1)
      BY DEF Sending, n
    <3>2. src[q] # n + 1
      <4>1. CASE src[q] = n + 1
        <5>1. num[q] \in 1..(0 + 1)
          BY <2>7, <3>1, <4>1
        <5>2. num[q] = w(src[q]) + 1
          BY <2>7, <4>1, <5>1
        <5>3. Stays(s, n + 1)
          BY <4>1, <5>2 DEF Sending
        <5> QED BY <1>2, <5>3 DEF Stays, n
      <4> QED BY <4>1
    <3>3. CASE p < q
      <4>1. src[p] < src[q] \/ (src[p] = src[q] /\ num[p] < num[q])
        BY <3>3 DEF Sending
      <4>2. src[q] = n /\ num[p] < num[q]
        BY <1>2, <2>4, <3>1, <3>2, <4>1
      <4>3. num[q] \in 1..(w(n) + 1) /\ w(n) \in Nat
        <5>1. n \in 1..(n + 1)
          BY <1>2, <2>1
        <5> QED BY <1>3, <3>1, <4>2, <5>1
      <4> QED BY <2>4, <4>2, <4>3
    <3> QED BY <3>3
  <2>9. p \in 1..Len(g) /\ Len(g) \in DOMAIN g
    BY <1>2
  <2>10. p = Len(g)
    BY <1>2, <2>8, <2>9
  <2> QED BY <2>2, <2>4, <2>9, <2>10
<1> QED BY <1>5, <1>6 DEF SentKeeps

\* What is sent of the session
LEMMA SentIs ==
    ASSUME MessagesInv, NEW m \in Models
    PROVE  SentFits(m, Sent(m)) /\ SentKeeps(m, Sent(m))
<1> DEFINE s == Transformed(m)
           g == FlattenSeq([i \in 1..(Len(s) + 1) |-> Step(s, i)])
<1>1. Sent(m) = g
  BY DEF Sent
<1>2. Adapted(m, s)
  BY TransformedIs
<1> HIDE DEF s
<1>3. PICK src, num : Sending(m, s, g, src, num)
  BY <1>2, SendingIs
<1> HIDE DEF g
<1>4. SentFits(m, g)
  BY <1>3, SendingFits
<1>5. SentKeeps(m, g)
  BY <1>3, SendingKeeps
<1> QED BY <1>1, <1>4, <1>5

-----------------------------------------------------------------------------
(* What a message is converted to.                                          *)

\* A sequence of one
Single(e, y) == IsSeq(e) /\ Len(e) = 1 /\ DOMAIN e = {1} /\ e[1] = y

\* Such is <<y>>
LEMMA SingleIs ==
    ASSUME NEW y
    PROVE  Single(<<y>>, y)
<1> DEFINE e == <<y>>
<1>1. e = [i \in 1..1 |-> e[i]] /\ 1 \in Nat /\ e[1] = y
  OBVIOUS
<1> HIDE DEF e
<1>2. IsSeq(e) /\ Len(e) = 1
  BY <1>1, ListIs
<1>3. DOMAIN e = 1..1 /\ 1..1 = {1}
  BY <1>2, SeqIs
<1>4. Single(e, y)
  BY <1>1, <1>2, <1>3 DEF Single
<1> QED BY <1>4 DEF e

\* A sequence of none
Empty(e) == IsSeq(e) /\ Len(e) = 0 /\ DOMAIN e = {}

\* Such is <<>>
LEMMA EmptyIs == Empty(<<>>)
<1> DEFINE e == <<>>
<1>1. e = [i \in 1..0 |-> e[i]] /\ 0 \in Nat
  OBVIOUS
<1> HIDE DEF e
<1>2. IsSeq(e) /\ Len(e) = 0
  BY <1>1, ListIs
<1>3. DOMAIN e = 1..0 /\ 1..0 = {}
  BY <1>2, SeqIs
<1>4. Empty(e)
  BY <1>2, <1>3 DEF Empty
<1> QED BY <1>4 DEF e

\* Each member of two sequences in a row is one of the first or of the second
Parted(a, s, t) ==
  /\ IsSeq(a) /\ Len(a) = Len(s) + Len(t)
  /\ \A k \in DOMAIN a : \/ k \in DOMAIN s /\ a[k] = s[k]
                         \/ k > Len(s) /\ \E l \in DOMAIN t : a[k] = t[l]
  /\ \A k \in DOMAIN s : k \in DOMAIN a /\ a[k] = s[k]
  /\ \A l \in DOMAIN t : Len(s) + l \in DOMAIN a /\ a[Len(s) + l] = t[l]

\* Two sequences in a row
LEMMA JoinedCases ==
    ASSUME NEW s, IsSeq(s), NEW t, IsSeq(t)
    PROVE  Parted(s \o t, s, t)
<1> DEFINE a == s \o t
<1>1. Joined(a, s, t)
  BY ConcatIs
<1> HIDE DEF a
<1>2. /\ IsSeq(a) /\ Len(a) = Len(s) + Len(t)
      /\ \A k \in 1..Len(s) : a[k] = s[k]
      /\ \A k \in 1..Len(t) : a[Len(s) + k] = t[k]
  BY <1>1 DEF Joined
<1>3. Len(s) \in Nat /\ DOMAIN s = 1..Len(s) /\ Len(t) \in Nat /\ DOMAIN t = 1..Len(t) /\ DOMAIN a = 1..Len(a)
  BY <1>2, SeqIs
<1>4. \A k \in DOMAIN a : \/ k \in DOMAIN s /\ a[k] = s[k]
                          \/ k > Len(s) /\ \E l \in DOMAIN t : a[k] = t[l]
  <2> TAKE k \in DOMAIN a
  <2>1. CASE k <= Len(s)
    BY <1>2, <1>3, <2>1
  <2>2. CASE ~(k <= Len(s))
    <3>1. k - Len(s) \in DOMAIN t /\ Len(s) + (k - Len(s)) = k
      BY <1>2, <1>3, <2>2
    <3>2. a[k] = t[k - Len(s)]
      BY <1>2, <1>3, <3>1
    <3> QED BY <1>3, <2>2, <3>1, <3>2
  <2> QED BY <2>1, <2>2
<1>5. \A k \in DOMAIN s : k \in DOMAIN a /\ a[k] = s[k]
  BY <1>2, <1>3
<1>6. \A l \in DOMAIN t : Len(s) + l \in DOMAIN a /\ a[Len(s) + l] = t[l]
  BY <1>2, <1>3
<1>7. Parted(a, s, t)
  BY <1>2, <1>4, <1>5, <1>6 DEF Parted
<1> QED BY <1>7 DEF a

\* A user's message: its text or image, at the end
UserSaid(x, c) ==
  /\ IsSeq(c) /\ \A k \in DOMAIN c : c[k].at = x.at /\ c[k].kind \in {"text", "image", "bridge"}
  /\ Len(c) \in DOMAIN c /\ c[Len(c)].who = "user"
  /\ \E k \in DOMAIN c : c[k].kind \in {"text", "image"}
\* A result, and what may follow the last one
ResultSaid(m, x, c) ==
  /\ IsSeq(c) /\ \A k \in DOMAIN c : c[k].at = x.at /\ (k # 1 => c[k].kind \in {"bridge", "attached"})
  /\ 1 \in DOMAIN c /\ c[1].kind = "result" /\ c[1].id = Wire(x.msg.id, m)
\* A reply: the k-th item is of its part at[k]; all calls are there, and text if there is some
ReplySaid(m, x, c, at) ==
  /\ IsSeq(c)
  /\ \A k \in DOMAIN c :
       /\ c[k].at = x.at /\ at[k] \in DOMAIN x.msg.parts
       /\ c[k].kind \in {"text", "thinking", "signed", "blank", "call"}
       /\ c[k].kind = "signed" => x.msg.parts[at[k]].kind = "signed"
       /\ c[k].kind = "call" <=> x.msg.parts[at[k]].kind = "call"
       /\ c[k].kind = "call" => c[k].id = Wire(x.msg.parts[at[k]].id, m)
  /\ \A k, l \in DOMAIN c : k < l => at[k] < at[l]
  /\ \A k \in DOMAIN x.msg.parts : x.msg.parts[k].kind = "call" => \E l \in DOMAIN c : at[l] = k
  /\ Holds(x.msg.parts, "text") => Holds(c, "text")
\* Whatever the message
ItemsFit(m, x, c) ==
  /\ x.msg.role = "user" => UserSaid(x, c)
  /\ x.msg.role = "toolResult" => ResultSaid(m, x, c)
  /\ x.msg.role = "assistant" => \E at : ReplySaid(m, x, c, at)

\* The parts of a message, each an item
LEMMA SpokenIs ==
    ASSUME NEW m, NEW x, IsSeq(x.msg.parts)
    PROVE  /\ IsSeq(Spoken(m, x)) /\ DOMAIN Spoken(m, x) = DOMAIN x.msg.parts
           /\ Len(Spoken(m, x)) = Len(x.msg.parts)
           /\ \A k \in DOMAIN x.msg.parts :
                /\ Spoken(m, x)[k].who = x.msg.role /\ Spoken(m, x)[k].kind = x.msg.parts[k].kind
                /\ Spoken(m, x)[k].at = x.at
                /\ x.msg.parts[k].kind = "call" => Spoken(m, x)[k].id = Wire(x.msg.parts[k].id, m)
<1> DEFINE n == Len(x.msg.parts)
           c == Spoken(m, x)
<1>1. n \in Nat /\ DOMAIN x.msg.parts = 1..n
  BY SeqIs
<1>2. \A k \in 1..n : c[k] = Item(x.msg.role, x.msg.parts[k].kind, x.at,
                                  IF x.msg.parts[k].kind = "call" THEN Wire(x.msg.parts[k].id, m) ELSE NoId)
  BY <1>1 DEF Spoken
<1>3. c = [k \in 1..n |-> c[k]]
  BY <1>1 DEF Spoken
<1> HIDE DEF c, n
<1>4. IsSeq(c) /\ Len(c) = n
  BY <1>1, <1>3, ListIs
<1>5. DOMAIN c = 1..n
  BY <1>4, SeqIs
<1>6. ASSUME NEW k \in 1..n
      PROVE  /\ c[k].who = x.msg.role /\ c[k].kind = x.msg.parts[k].kind /\ c[k].at = x.at
             /\ x.msg.parts[k].kind = "call" => c[k].id = Wire(x.msg.parts[k].id, m)
  <2> DEFINE id == IF x.msg.parts[k].kind = "call" THEN Wire(x.msg.parts[k].id, m) ELSE NoId
  <2>1. c[k] = Item(x.msg.role, x.msg.parts[k].kind, x.at, id)
    BY <1>2
  <2>2. x.msg.parts[k].kind = "call" => id = Wire(x.msg.parts[k].id, m)
    OBVIOUS
  <2> HIDE DEF id
  <2> QED BY <2>1, <2>2 DEF Item
<1> QED BY <1>1, <1>4, <1>5, <1>6 DEF c, n

\* The parts of the kinds an API has
LEMMA OnlyIs ==
    ASSUME NEW items, IsSeq(items), NEW kinds
    PROVE  \E at : Picks(Only(items, kinds), items, {k \in DOMAIN items : items[k].kind \in kinds}, at)
BY PickedIs DEF Only

\* A reply, by its parts of the kinds an API has
LEMMA OnlyKeepsReply ==
    ASSUME NEW m, NEW x, Fitting(m, x.msg), x.msg.role = "assistant", NEW kinds, "text" \in kinds, "call" \in kinds
    PROVE  \E at : ReplySaid(m, x, Only(Spoken(m, x), kinds), at)
<1> DEFINE sp == Spoken(m, x)
           c == Only(sp, kinds)
           wanted == {k \in DOMAIN sp : sp[k].kind \in kinds}
<1>1. /\ IsSeq(x.msg.parts)
      /\ \A k \in DOMAIN x.msg.parts : x.msg.parts[k].kind \in {"text", "thinking", "signed", "blank", "call"}
  BY DEF Fitting
<1>2. /\ IsSeq(sp) /\ DOMAIN sp = DOMAIN x.msg.parts
      /\ \A k \in DOMAIN x.msg.parts :
           /\ sp[k].who = x.msg.role /\ sp[k].kind = x.msg.parts[k].kind /\ sp[k].at = x.at
           /\ x.msg.parts[k].kind = "call" => sp[k].id = Wire(x.msg.parts[k].id, m)
  BY <1>1, SpokenIs
<1> HIDE DEF sp
<1>3. PICK at : Picks(c, sp, wanted, at)
  BY <1>2, OnlyIs
<1> HIDE DEF c
<1>4. \A k \in DOMAIN x.msg.parts : x.msg.parts[k].kind \in {"text", "call"} => \E l \in DOMAIN c : at[l] = k /\ c[l] = sp[k]
  <2> TAKE k \in DOMAIN x.msg.parts
  <2> HAVE x.msg.parts[k].kind \in {"text", "call"}
  <2>1. k \in DOMAIN sp /\ k \in wanted
    BY <1>2
  <2>2. PICK l \in DOMAIN c : at[l] = k
    BY <1>3, <2>1 DEF Picks
  <2> QED BY <1>3, <2>2 DEF Picks
<1>5. \A k \in DOMAIN c : at[k] \in DOMAIN x.msg.parts /\ c[k] = sp[at[k]]
  BY <1>2, <1>3 DEF Picks
<1>6. Holds(x.msg.parts, "text") => Holds(c, "text")
  <2> SUFFICES ASSUME Holds(x.msg.parts, "text") PROVE Holds(c, "text")
    OBVIOUS
  <2>1. PICK k \in DOMAIN x.msg.parts : x.msg.parts[k].kind = "text"
    BY DEF Holds
  <2>2. PICK l \in DOMAIN c : c[l] = sp[k]
    BY <1>4, <2>1
  <2> QED BY <1>2, <2>1, <2>2 DEF Holds
<1>7. IsSeq(c) /\ \A k, l \in DOMAIN c : k < l => at[k] < at[l]
  BY <1>3 DEF Picks
<1>8. \A k \in DOMAIN c :
        /\ c[k].at = x.at /\ at[k] \in DOMAIN x.msg.parts
        /\ c[k].kind \in {"text", "thinking", "signed", "blank", "call"}
        /\ c[k].kind = "signed" => x.msg.parts[at[k]].kind = "signed"
        /\ c[k].kind = "call" <=> x.msg.parts[at[k]].kind = "call"
        /\ c[k].kind = "call" => c[k].id = Wire(x.msg.parts[at[k]].id, m)
  BY <1>1, <1>2, <1>5
<1>9. ReplySaid(m, x, c, at)
  BY <1>4, <1>6, <1>7, <1>8 DEF ReplySaid
<1> QED BY <1>9 DEF c, sp

\* What a user or a tool says is one text or image
LEMMA ContentIs ==
    ASSUME NEW parts \in Contents
    PROVE  IsSeq(parts) /\ Len(parts) = 1 /\ DOMAIN parts = {1} /\ parts[1].kind \in {"text", "image"}
<1>1. Single(parts, Part("text")) \/ Single(parts, Part("image"))
  BY SingleIs DEF Contents
<1> QED BY <1>1 DEF Single, Part

\* A user's message, whole
LEMMA SpokenIsUser ==
    ASSUME NEW m, NEW x, x.msg.role = "user", x.msg.parts \in Contents
    PROVE  /\ UserSaid(x, Spoken(m, x)) /\ Len(Spoken(m, x)) = 1 /\ DOMAIN Spoken(m, x) = {1}
           /\ Spoken(m, x)[1].kind \in {"text", "image"}
<1>1. IsSeq(x.msg.parts) /\ Len(x.msg.parts) = 1 /\ DOMAIN x.msg.parts = {1} /\ x.msg.parts[1].kind \in {"text", "image"}
  BY ContentIs
<1> DEFINE c == Spoken(m, x)
<1>2. IsSeq(c) /\ DOMAIN c = {1} /\ Len(c) = 1 /\ c[1].who = "user" /\ c[1].kind \in {"text", "image"} /\ c[1].at = x.at
  BY <1>1, SpokenIs
<1> HIDE DEF c
<1>3. UserSaid(x, c)
  BY <1>2 DEF UserSaid
<1> QED BY <1>2, <1>3 DEF c

\* A user's message, by its parts of the kinds an API has
LEMMA OnlyKeepsUser ==
    ASSUME NEW m, NEW x, x.msg.role = "user", x.msg.parts \in Contents, NEW kinds, "text" \in kinds, "image" \in kinds
    PROVE  UserSaid(x, Only(Spoken(m, x), kinds))
<1> DEFINE sp == Spoken(m, x)
           c == Only(sp, kinds)
           wanted == {k \in DOMAIN sp : sp[k].kind \in kinds}
<1>1. UserSaid(x, sp) /\ Len(sp) = 1 /\ DOMAIN sp = {1} /\ sp[1].kind \in {"text", "image"}
  BY SpokenIsUser
<1> HIDE DEF sp
<1>2. IsSeq(sp) /\ sp[1].at = x.at /\ sp[1].who = "user"
  BY <1>1 DEF UserSaid
<1>3. PICK at : Picks(c, sp, wanted, at)
  BY <1>2, OnlyIs
<1> HIDE DEF c
<1>4. \A k \in DOMAIN c : c[k] = sp[1]
  BY <1>1, <1>3 DEF Picks
<1>5. 1 \in DOMAIN sp /\ 1 \in wanted
  BY <1>1
<1>6. PICK k \in DOMAIN c : at[k] = 1
  BY <1>3, <1>5 DEF Picks
<1>7. IsSeq(c) /\ DOMAIN c = 1..Len(c) /\ Len(c) \in Nat
  BY <1>3, SeqIs DEF Picks
<1>8. Len(c) \in DOMAIN c
  BY <1>6, <1>7
<1>9. UserSaid(x, c)
  BY <1>1, <1>2, <1>4, <1>6, <1>7, <1>8 DEF UserSaid
<1> QED BY <1>9 DEF c, sp

\* A result
LEMMA AnswerIs ==
    ASSUME NEW m, NEW x
    PROVE  /\ Single(Answer(m, x), Item("tool", "result", x.at, Wire(x.msg.id, m)))
           /\ ResultSaid(m, x, Answer(m, x))
<1> DEFINE c == Answer(m, x)
           y == Item("tool", "result", x.at, Wire(x.msg.id, m))
<1>1. Single(c, y)
  BY SingleIs DEF Answer
<1> HIDE DEF c
<1>2. ResultSaid(m, x, c)
  BY <1>1 DEF ResultSaid, Single, Item
<1> QED BY <1>1, <1>2 DEF c

\* The messages of the responses API
LEMMA ResponsesFit ==
    ASSUME NEW m, NEW s, NEW i, Fitting(m, s[i].msg)
    PROVE  ItemsFit(m, s[i], Responses(m, s, i)) /\ (s[i].msg.role = "toolResult" => Len(Responses(m, s, i)) = 1)
<1> DEFINE x == s[i]
           kinds == {"text", "blank", "image", "call", "signed"}
<1>1. x.msg.role \in {"user", "toolResult", "assistant"}
  BY DEF Fitting
<1>2. "text" \in kinds /\ "image" \in kinds /\ "call" \in kinds
  OBVIOUS
<1>3. CASE x.msg.role = "user"
  <2>1. Responses(m, s, i) = Only(Spoken(m, x), kinds)
    BY <1>3 DEF Responses
  <2>2. UserSaid(x, Only(Spoken(m, x), kinds))
    <3>1. x.msg.parts \in Contents
      BY <1>3 DEF Fitting
    <3> HIDE DEF x, kinds
    <3> QED BY <1>2, <1>3, <3>1, OnlyKeepsUser
  <2> QED BY <1>3, <2>1, <2>2 DEF ItemsFit
<1>4. CASE x.msg.role = "toolResult"
  <2>1. Responses(m, s, i) = Answer(m, x)
    BY <1>4 DEF Responses
  <2> QED BY <1>4, <2>1, AnswerIs DEF ItemsFit, Single
<1>5. CASE x.msg.role = "assistant"
  <2>1. Responses(m, s, i) = Only(Spoken(m, x), kinds)
    BY <1>5 DEF Responses
  <2>2. \E at : ReplySaid(m, x, Only(Spoken(m, x), kinds), at)
    <3> HIDE DEF x, kinds
    <3> QED BY <1>2, <1>5, OnlyKeepsReply DEF x
  <2> QED BY <1>5, <2>1, <2>2 DEF ItemsFit
<1> QED BY <1>1, <1>3, <1>4, <1>5

\* The messages for Gemini
LEMMA GoogleFit ==
    ASSUME NEW m, NEW s, NEW i, Fitting(m, s[i].msg)
    PROVE  ItemsFit(m, s[i], Google(m, s, i)) /\ (s[i].msg.role = "toolResult" => Len(Google(m, s, i)) = 1)
<1> DEFINE x == s[i]
           kinds == {"text", "image", "call", "signed", "thinking"}
<1>1. x.msg.role \in {"user", "toolResult", "assistant"}
  BY DEF Fitting
<1>2. "text" \in kinds /\ "image" \in kinds /\ "call" \in kinds
  OBVIOUS
<1>3. CASE x.msg.role = "user"
  <2>1. Google(m, s, i) = Only(Spoken(m, x), kinds)
    BY <1>3 DEF Google
  <2>2. UserSaid(x, Only(Spoken(m, x), kinds))
    <3>1. x.msg.parts \in Contents
      BY <1>3 DEF Fitting
    <3> HIDE DEF x, kinds
    <3> QED BY <1>2, <1>3, <3>1, OnlyKeepsUser
  <2> QED BY <1>3, <2>1, <2>2 DEF ItemsFit
<1>4. CASE x.msg.role = "toolResult"
  <2>1. Google(m, s, i) = Answer(m, x)
    BY <1>4 DEF Google
  <2> QED BY <1>4, <2>1, AnswerIs DEF ItemsFit, Single
<1>5. CASE x.msg.role = "assistant"
  <2>1. Google(m, s, i) = Only(Spoken(m, x), kinds)
    BY <1>5 DEF Google
  <2>2. \E at : ReplySaid(m, x, Only(Spoken(m, x), kinds), at)
    <3> HIDE DEF x, kinds
    <3> QED BY <1>2, <1>5, OnlyKeepsReply DEF x
  <2> QED BY <1>5, <2>1, <2>2 DEF ItemsFit
<1> QED BY <1>1, <1>3, <1>4, <1>5

\* Its items are records of four fields
LEMMA OnlyItems ==
    ASSUME NEW m, NEW x, IsSeq(x.msg.parts), NEW kinds
    PROVE  LET c == Only(Spoken(m, x), kinds)
           IN  IsSeq(c) /\ \A k \in DOMAIN c : c[k] = Item(c[k].who, c[k].kind, c[k].at, c[k].id)
<1> DEFINE sp == Spoken(m, x)
           c == Only(sp, kinds)
           wanted == {k \in DOMAIN sp : sp[k].kind \in kinds}
<1>1. \A k \in DOMAIN sp : sp[k] = Item(sp[k].who, sp[k].kind, sp[k].at, sp[k].id)
  <2> TAKE k \in DOMAIN sp
  <2> DEFINE id == IF x.msg.parts[k].kind = "call" THEN Wire(x.msg.parts[k].id, m) ELSE NoId
  <2>1. sp[k] = Item(x.msg.role, x.msg.parts[k].kind, x.at, id)
    BY DEF Spoken
  <2> HIDE DEF id, sp
  <2> QED BY <2>1 DEF Item
<1>2. IsSeq(sp)
  BY SpokenIs
<1> HIDE DEF sp
<1>3. PICK at : Picks(c, sp, wanted, at)
  BY <1>2, OnlyIs
<1> HIDE DEF c
<1>4. IsSeq(c) /\ \A k \in DOMAIN c : at[k] \in DOMAIN sp /\ c[k] = sp[at[k]]
  BY <1>3 DEF Picks
<1>5. \A k \in DOMAIN c : c[k] = Item(c[k].who, c[k].kind, c[k].at, c[k].id)
  BY <1>1, <1>4
<1> QED BY <1>4, <1>5 DEF c, sp

\* Unsigned thinking as text
LEMMA AsTextIs ==
    ASSUME NEW items, IsSeq(items), \A k \in DOMAIN items : items[k] = Item(items[k].who, items[k].kind, items[k].at, items[k].id)
    PROVE  LET c == [k \in DOMAIN items |->
                       IF items[k].kind = "thinking" THEN [items[k] EXCEPT !.kind = "text"] ELSE items[k]]
           IN  /\ IsSeq(c) /\ DOMAIN c = DOMAIN items /\ Len(c) = Len(items)
               /\ \A k \in DOMAIN items :
                    /\ c[k].who = items[k].who /\ c[k].at = items[k].at /\ c[k].id = items[k].id
                    /\ c[k].kind = IF items[k].kind = "thinking" THEN "text" ELSE items[k].kind
<1> DEFINE c == [k \in DOMAIN items |->
                   IF items[k].kind = "thinking" THEN [items[k] EXCEPT !.kind = "text"] ELSE items[k]]
           n == Len(items)
<1>1. n \in Nat /\ DOMAIN items = 1..n
  BY SeqIs
<1>2. c = [k \in 1..n |-> c[k]]
  BY <1>1
<1>3. ASSUME NEW k \in DOMAIN items
      PROVE  /\ c[k].who = items[k].who /\ c[k].at = items[k].at /\ c[k].id = items[k].id
             /\ c[k].kind = IF items[k].kind = "thinking" THEN "text" ELSE items[k].kind
  <2>1. items[k] = [who |-> items[k].who, kind |-> items[k].kind, at |-> items[k].at, id |-> items[k].id]
    BY DEF Item
  <2>2. CASE items[k].kind = "thinking"
    <3>1. c[k] = [items[k] EXCEPT !.kind = "text"]
      BY <2>2
    <3>2. c[k] = [who |-> items[k].who, kind |-> "text", at |-> items[k].at, id |-> items[k].id]
      BY <2>1, <3>1
    <3> HIDE DEF c
    <3> QED BY <2>2, <3>2
  <2>3. CASE items[k].kind # "thinking"
    BY <2>3
  <2> QED BY <2>2, <2>3
<1> HIDE DEF c
<1>4. IsSeq(c) /\ Len(c) = n
  <2> HIDE DEF n
  <2> QED BY <1>1, <1>2, ListIs
<1>5. DOMAIN c = 1..n
  BY <1>4, SeqIs
<1> QED BY <1>1, <1>3, <1>4, <1>5 DEF c

\* The messages of Claude
LEMMA AnthropicFit ==
    ASSUME NEW m, NEW s, NEW i, Fitting(m, s[i].msg)
    PROVE  ItemsFit(m, s[i], Anthropic(m, s, i)) /\ (s[i].msg.role = "toolResult" => Len(Anthropic(m, s, i)) = 1)
<1> DEFINE x == s[i]
           kinds == {"text", "image", "call", "signed", "thinking"}
           items == Only(Spoken(m, x), kinds)
           c == [k \in DOMAIN items |->
                   IF items[k].kind = "thinking" THEN [items[k] EXCEPT !.kind = "text"] ELSE items[k]]
<1>1. x.msg.role \in {"user", "toolResult", "assistant"}
  BY DEF Fitting
<1>2. "text" \in kinds /\ "image" \in kinds /\ "call" \in kinds
  OBVIOUS
<1>3. CASE x.msg.role = "toolResult"
  <2>1. Anthropic(m, s, i) = Answer(m, x)
    BY <1>3 DEF Anthropic
  <2> QED BY <1>3, <2>1, AnswerIs DEF ItemsFit, Single
<1>4. CASE x.msg.role # "toolResult"
  <2>1. Anthropic(m, s, i) = c
    BY <1>4 DEF Anthropic
  <2>2. IsSeq(x.msg.parts)
    BY <1>4, ContentIs DEF Fitting
  <2>3. IsSeq(items) /\ \A k \in DOMAIN items : items[k] = Item(items[k].who, items[k].kind, items[k].at, items[k].id)
    <3> HIDE DEF x, kinds
    <3> QED BY <2>2, OnlyItems
  <2>4. /\ IsSeq(c) /\ DOMAIN c = DOMAIN items /\ Len(c) = Len(items)
        /\ \A k \in DOMAIN items :
             /\ c[k].who = items[k].who /\ c[k].at = items[k].at /\ c[k].id = items[k].id
             /\ c[k].kind = IF items[k].kind = "thinking" THEN "text" ELSE items[k].kind
    <3> HIDE DEF items
    <3> QED BY <2>3, AsTextIs
  <2>5. CASE x.msg.role = "user"
    <3>1. UserSaid(x, items)
      <4>1. x.msg.parts \in Contents
        BY <2>5 DEF Fitting
      <4> HIDE DEF x, kinds
      <4> QED BY <1>2, <2>5, <4>1, OnlyKeepsUser
    <3> HIDE DEF c, items
    <3>2. UserSaid(x, c)
      BY <2>4, <3>1 DEF UserSaid
    <3> QED BY <2>1, <2>5, <3>2 DEF ItemsFit
  <2>6. CASE x.msg.role = "assistant"
    <3>1. \E at : ReplySaid(m, x, items, at)
      <4> HIDE DEF x, kinds
      <4> QED BY <1>2, <2>6, OnlyKeepsReply DEF x
    <3> HIDE DEF c, items
    <3>2. PICK at : ReplySaid(m, x, items, at)
      BY <3>1
    <3>3. \A k \in DOMAIN c :
            /\ c[k].at = x.at /\ at[k] \in DOMAIN x.msg.parts
            /\ c[k].kind \in {"text", "thinking", "signed", "blank", "call"}
            /\ c[k].kind = "signed" => x.msg.parts[at[k]].kind = "signed"
            /\ c[k].kind = "call" <=> x.msg.parts[at[k]].kind = "call"
            /\ c[k].kind = "call" => c[k].id = Wire(x.msg.parts[at[k]].id, m)
      BY <2>4, <3>2 DEF ReplySaid
    <3>4. Holds(x.msg.parts, "text") => Holds(c, "text")
      BY <2>4, <3>2 DEF ReplySaid, Holds
    <3>5. /\ \A k, l \in DOMAIN c : k < l => at[k] < at[l]
          /\ \A k \in DOMAIN x.msg.parts : x.msg.parts[k].kind = "call" => \E l \in DOMAIN c : at[l] = k
      BY <2>4, <3>2 DEF ReplySaid
    <3>6. ReplySaid(m, x, c, at)
      BY <2>4, <3>3, <3>4, <3>5 DEF ReplySaid
    <3> QED BY <2>1, <2>6, <3>6 DEF ItemsFit
  <2> QED BY <1>1, <1>4, <2>5, <2>6
<1> QED BY <1>3, <1>4

\* The messages of the completions API
LEMMA CompletionsFit ==
    ASSUME NEW m, NEW s, NEW i, Fitting(m, s[i].msg)
    PROVE  /\ ItemsFit(m, s[i], Completions(m, s, i))
           /\ s[i].msg.role = "toolResult" /\ Answering(s, i + 1) => Len(Completions(m, s, i)) = 1
<1> DEFINE x == s[i]
           c == Completions(m, s, i)
           bridge == Item("assistant", "bridge", x.at, NoId)
<1>1. x.msg.role \in {"user", "toolResult", "assistant"}
  BY DEF Fitting
<1>2. Single(Bridge(x.at), bridge) /\ bridge.at = x.at /\ bridge.kind = "bridge"
  BY SingleIs DEF Bridge, Item
<1> HIDE DEF bridge
<1>3. CASE x.msg.role = "user"
  <2> DEFINE b == IF RequiresAssistantAfterToolResult(m) /\ Answering(s, i - 1) /\ ~Pictured(s, i - 1)
                  THEN Bridge(x.at) ELSE <<>>
             sp == Spoken(m, x)
  <2>1. c = b \o sp
    BY <1>3 DEF Completions
  <2>2. b = Bridge(x.at) \/ b = <<>>
    OBVIOUS
  <2> HIDE DEF b, c
  <2>3. IsSeq(b) /\ \A k \in DOMAIN b : b[k] = bridge
    BY <1>2, <2>2, EmptyIs DEF Single, Empty
  <2>4. x.msg.parts \in Contents
    BY <1>3 DEF Fitting
  <2>5. UserSaid(x, sp) /\ Len(sp) = 1 /\ DOMAIN sp = {1} /\ sp[1].kind \in {"text", "image"}
    BY <1>3, <2>4, SpokenIsUser
  <2> HIDE DEF sp
  <2>6. IsSeq(sp) /\ sp[1].at = x.at /\ sp[1].who = "user"
    BY <2>5 DEF UserSaid
  <2>7. /\ IsSeq(c) /\ Len(c) = Len(b) + 1
        /\ \A k \in DOMAIN c : c[k] = bridge \/ c[k] = sp[1]
        /\ Len(b) + 1 \in DOMAIN c /\ c[Len(b) + 1] = sp[1]
    <3> DEFINE a == b \o sp
    <3>1. Parted(a, b, sp)
      BY <2>3, <2>6, JoinedCases
    <3>2. c = a
      BY <2>1
    <3> HIDE DEF a
    <3> QED BY <2>3, <2>5, <3>1, <3>2 DEF Parted
  <2>8. UserSaid(x, c)
    BY <1>2, <2>5, <2>6, <2>7 DEF UserSaid
  <2> QED BY <1>3, <2>8 DEF ItemsFit, c
<1>4. CASE x.msg.role = "assistant"
  <2> DEFINE kinds == {"text", "call", "signed"}
             items == Only(Spoken(m, x), kinds)
  <2>1. c = IF Holds(items, "text") \/ Holds(items, "call") THEN items ELSE <<>>
    BY <1>4 DEF Completions
  <2>2. \E at : ReplySaid(m, x, items, at)
    <3>1. "text" \in kinds /\ "call" \in kinds
      OBVIOUS
    <3> HIDE DEF x, kinds
    <3> QED BY <1>4, <3>1, OnlyKeepsReply DEF x
  <2> HIDE DEF items, c
  <2>3. PICK at : ReplySaid(m, x, items, at)
    BY <2>2
  <2>4. CASE Holds(items, "text") \/ Holds(items, "call")
    <3>1. c = items
      BY <2>1, <2>4
    <3> QED BY <1>4, <2>2, <3>1 DEF ItemsFit, c
  <2>5. CASE ~(Holds(items, "text") \/ Holds(items, "call"))
    <3>1. Empty(c)
      BY <2>1, <2>5, EmptyIs
    <3>2. ~Holds(x.msg.parts, "text")
      BY <2>3, <2>5 DEF ReplySaid
    <3>3. \A k \in DOMAIN x.msg.parts : x.msg.parts[k].kind # "call"
      <4> SUFFICES ASSUME NEW k \in DOMAIN x.msg.parts, x.msg.parts[k].kind = "call" PROVE FALSE
        OBVIOUS
      <4>1. PICK l \in DOMAIN items : at[l] = k
        BY <2>3 DEF ReplySaid
      <4>2. items[l].kind = "call"
        BY <2>3, <4>1 DEF ReplySaid
      <4> QED BY <2>5, <4>2 DEF Holds
    <3>4. ReplySaid(m, x, c, at)
      BY <3>1, <3>2, <3>3 DEF ReplySaid, Empty
    <3> QED BY <1>4, <3>4 DEF ItemsFit, c
  <2> QED BY <2>4, <2>5
<1>5. CASE x.msg.role = "toolResult"
  <2> DEFINE t == Item("user", "attached", x.at, NoId)
             b == IF RequiresAssistantAfterToolResult(m) THEN Bridge(x.at) ELSE <<>>
             u == IF Answering(s, i + 1) \/ ~Pictured(s, i) THEN <<>> ELSE b \o <<t>>
             a == Answer(m, x)
  <2>1. c = a \o u
    BY <1>5 DEF Completions
  <2>2. ResultSaid(m, x, a) /\ IsSeq(a) /\ DOMAIN a = {1} /\ Len(a) = 1
    BY AnswerIs DEF Single
  <2>3. IsSeq(b) /\ \A k \in DOMAIN b : b[k] = bridge
    <3>1. b = Bridge(x.at) \/ b = <<>>
      OBVIOUS
    <3> HIDE DEF b
    <3> QED BY <1>2, <3>1, EmptyIs DEF Single, Empty
  <2>4. Single(<<t>>, t) /\ t.at = x.at /\ t.kind = "attached"
    BY SingleIs DEF Item
  <2> DEFINE d == b \o <<t>>
  <2>5. u = <<>> \/ u = d
    OBVIOUS
  <2>6. Answering(s, i + 1) => u = <<>>
    OBVIOUS
  <2> HIDE DEF u, a, c, b, t
  <2>7. IsSeq(d) /\ \A k \in DOMAIN d : d[k] = bridge \/ d[k] = t
    <3> DEFINE tt == <<t>>
    <3>1. IsSeq(tt) /\ \A k \in DOMAIN tt : tt[k] = t
      BY <2>4 DEF Single
    <3>2. d = b \o tt
      OBVIOUS
    <3> HIDE DEF tt, d
    <3>3. Parted(b \o tt, b, tt)
      BY <2>3, <3>1, JoinedCases
    <3>4. Parted(d, b, tt)
      BY <3>2, <3>3
    <3> QED BY <2>3, <3>1, <3>4 DEF Parted
  <2>8. IsSeq(u) /\ \A k \in DOMAIN u : u[k] = bridge \/ u[k] = t
    <3> HIDE DEF d
    <3> QED BY <2>5, <2>7, EmptyIs DEF Empty
  <2>9. /\ IsSeq(c) /\ Len(c) = 1 + Len(u)
        /\ \A k \in DOMAIN c : k = 1 \/ c[k] = bridge \/ c[k] = t
        /\ 1 \in DOMAIN c /\ c[1] = a[1]
    <3> DEFINE e == a \o u
    <3>1. Parted(e, a, u)
      BY <2>2, <2>8, JoinedCases
    <3>2. c = e
      BY <2>1
    <3> HIDE DEF e
    <3> QED BY <2>2, <2>8, <3>1, <3>2 DEF Parted
  <2>10. ResultSaid(m, x, c)
    BY <1>2, <2>2, <2>4, <2>9 DEF ResultSaid
  <2>11. Answering(s, i + 1) => Len(c) = 1
    <3> SUFFICES ASSUME Answering(s, i + 1) PROVE Len(c) = 1
      OBVIOUS
    <3>1. Len(u) = 0
      BY <2>6, EmptyIs DEF Empty
    <3> QED BY <2>9, <3>1
  <2> QED BY <1>5, <2>10, <2>11 DEF ItemsFit, c
<1> QED BY <1>1, <1>3, <1>4, <1>5

\* The messages of each API
LEMMA ConvertedFit ==
    ASSUME NEW m, NEW s, NEW i, Fitting(m, s[i].msg)
    PROVE  /\ ItemsFit(m, s[i], Converted(m, s, i))
           /\ s[i].msg.role = "toolResult" /\ Answering(s, i + 1) => Len(Converted(m, s, i)) = 1
<1>1. CASE ApiOf(m) = "completions"
  BY <1>1, CompletionsFit DEF Converted
<1>2. CASE ApiOf(m) = "responses"
  BY <1>2, ResponsesFit DEF Converted
<1>3. CASE ApiOf(m) = "anthropic"
  BY <1>3, AnthropicFit DEF Converted
<1>4. CASE ApiOf(m) \notin {"completions", "responses", "anthropic"}
  BY <1>4, GoogleFit DEF Converted
<1> QED BY <1>1, <1>2, <1>3, <1>4

-----------------------------------------------------------------------------
(* The items of a request.                                                  *)

\* f[i] is what the i-th message that is sent is converted to
Turned(m, g, f) ==
  /\ SentFits(m, g) /\ Nested(f) /\ DOMAIN f = DOMAIN g
  /\ \A i \in DOMAIN g :
       /\ ItemsFit(m, g[i], f[i])
       /\ g[i].msg.role = "toolResult" /\ Answering(g, i + 1) => Len(f[i]) = 1

\* Each message is converted
LEMMA TurnedIs ==
    ASSUME NEW m, NEW g, SentFits(m, g)
    PROVE  Turned(m, g, [i \in DOMAIN g |-> Converted(m, g, i)])
<1> DEFINE f == [i \in DOMAIN g |-> Converted(m, g, i)]
           n == Len(g)
<1>1. IsSeq(g) /\ n \in Nat /\ DOMAIN g = 1..n
  BY SeqIs DEF SentFits
<1>2. DOMAIN f = DOMAIN g /\ \A i \in DOMAIN g : f[i] = Converted(m, g, i)
  OBVIOUS
<1>3. f = [i \in 1..n |-> f[i]]
  BY <1>1
<1> HIDE DEF f
<1>4. ASSUME NEW i \in DOMAIN g
      PROVE  /\ ItemsFit(m, g[i], f[i]) /\ IsSeq(f[i])
             /\ g[i].msg.role = "toolResult" /\ Answering(g, i + 1) => Len(f[i]) = 1
  <2>1. Fitting(m, g[i].msg)
    BY DEF SentFits
  <2>2. ItemsFit(m, g[i], f[i]) /\ (g[i].msg.role = "toolResult" /\ Answering(g, i + 1) => Len(f[i]) = 1)
    BY <1>2, <2>1, ConvertedFit
  <2>3. IsSeq(f[i])
    BY <2>1, <2>2 DEF Fitting, ItemsFit, UserSaid, ResultSaid, ReplySaid
  <2> QED BY <2>2, <2>3
<1>5. IsSeq(f)
  <2> HIDE DEF n
  <2> QED BY <1>1, <1>3, ListIs
<1>6. Nested(f)
  BY <1>2, <1>4, <1>5 DEF Nested
<1>7. Turned(m, g, f)
  BY <1>2, <1>4, <1>6 DEF Turned
<1> QED BY <1>7 DEF f

\* The k-th item of the request is the num[k]-th of message src[k], and of its part pl[k] if that is a reply
Worded(m, g, q, src, num, pl) ==
  /\ SentFits(m, g) /\ IsSeq(q)
  /\ \A k \in DOMAIN q :
       /\ src[k] \in DOMAIN g /\ num[k] \in Nat /\ q[k].at = g[src[k]].at
       /\ q[k].kind = "call" => g[src[k]].msg.role = "assistant"
       /\ q[k].kind = "signed" => g[src[k]].msg.role = "assistant" /\ g[src[k]].msg.parts[pl[k]].kind = "signed"
       /\ q[k].kind = "result" <=> g[src[k]].msg.role = "toolResult" /\ num[k] = 1
       /\ q[k].kind = "result" => q[k].id = Wire(g[src[k]].msg.id, m)
       /\ g[src[k]].msg.role = "toolResult" /\ Answering(g, src[k] + 1) => num[k] = 1
       /\ g[src[k]].msg.role = "toolResult" => num[k] >= 1
       /\ g[src[k]].msg.role = "assistant" =>
            /\ pl[k] \in DOMAIN g[src[k]].msg.parts
            /\ q[k].kind = "call" <=> g[src[k]].msg.parts[pl[k]].kind = "call"
            /\ q[k].kind = "call" => q[k].id = Wire(g[src[k]].msg.parts[pl[k]].id, m)
  /\ \A j, k \in DOMAIN q : j < k <=> src[j] < src[k] \/ (src[j] = src[k] /\ num[j] < num[k])
  /\ \A j, k \in DOMAIN q :
       src[j] = src[k] /\ num[j] < num[k] /\ g[src[k]].msg.role = "assistant" => pl[j] < pl[k]
  /\ \A i \in DOMAIN g :
       /\ g[i].msg.role = "toolResult" => \E k \in DOMAIN q : src[k] = i /\ num[k] = 1
       /\ g[i].msg.role = "assistant" => \A c \in DOMAIN g[i].msg.parts :
            g[i].msg.parts[c].kind = "call" => \E k \in DOMAIN q : src[k] = i /\ pl[k] = c

\* The items of one message
ItemWorded(m, x, y, n, p) ==
  /\ n \in Nat /\ y.at = x.at
  /\ y.kind = "call" => x.msg.role = "assistant"
  /\ y.kind = "signed" => x.msg.role = "assistant" /\ x.msg.parts[p].kind = "signed"
  /\ y.kind = "result" <=> x.msg.role = "toolResult" /\ n = 1
  /\ y.kind = "result" => y.id = Wire(x.msg.id, m)
  /\ x.msg.role = "toolResult" => n >= 1
  /\ x.msg.role = "assistant" =>
       /\ p \in DOMAIN x.msg.parts
       /\ y.kind = "call" <=> x.msg.parts[p].kind = "call"
       /\ y.kind = "call" => y.id = Wire(x.msg.parts[p].id, m)

\* Each is of its message
LEMMA ItemsWorded ==
    ASSUME NEW m, NEW x, x.msg.role \in {"user", "toolResult", "assistant"}, NEW c, IsSeq(c), ItemsFit(m, x, c),
           NEW at, x.msg.role = "assistant" => ReplySaid(m, x, c, at), NEW n \in DOMAIN c
    PROVE  ItemWorded(m, x, c[n], n, at[n])
<1>1. n \in Nat /\ n >= 1
  BY SeqIs
<1>2. CASE x.msg.role = "user"
  <2>1. c[n].at = x.at /\ c[n].kind \in {"text", "image", "bridge"}
    BY <1>2 DEF ItemsFit, UserSaid
  <2> QED BY <1>1, <1>2, <2>1 DEF ItemWorded
<1>3. CASE x.msg.role = "toolResult"
  <2>1. /\ c[n].at = x.at /\ (n # 1 => c[n].kind \in {"bridge", "attached"})
        /\ c[1].kind = "result" /\ c[1].id = Wire(x.msg.id, m)
    BY <1>3 DEF ItemsFit, ResultSaid
  <2>2. c[n].kind = "result" <=> n = 1
    BY <2>1
  <2>3. c[n].kind \in {"bridge", "attached", "result"}
    BY <2>1
  <2> QED BY <1>1, <1>3, <2>1, <2>2, <2>3 DEF ItemWorded
<1>4. CASE x.msg.role = "assistant"
  <2>1. /\ c[n].at = x.at /\ at[n] \in DOMAIN x.msg.parts
        /\ c[n].kind \in {"text", "thinking", "signed", "blank", "call"}
        /\ c[n].kind = "signed" => x.msg.parts[at[n]].kind = "signed"
        /\ c[n].kind = "call" <=> x.msg.parts[at[n]].kind = "call"
        /\ c[n].kind = "call" => c[n].id = Wire(x.msg.parts[at[n]].id, m)
    BY <1>4 DEF ReplySaid
  <2>2. c[n].kind # "result"
    BY <2>1
  <2> QED BY <1>1, <1>4, <2>1, <2>2 DEF ItemWorded
<1> QED BY <1>2, <1>3, <1>4

\* The request is worded like that
LEMMA WordedIs ==
    ASSUME NEW m, NEW g, NEW f, Turned(m, g, f), NEW q, NEW src, NEW num, Flat(q, f, src, num)
    PROVE  \E pl : Worded(m, g, q, src, num, pl)
<1> DEFINE ats == [i \in DOMAIN g |-> CHOOSE at : ReplySaid(m, g[i], f[i], at)]
           pl == [k \in DOMAIN q |-> ats[src[k]][num[k]]]
<1>1. SentFits(m, g) /\ Nested(f) /\ DOMAIN f = DOMAIN g /\ IsSeq(q)
  BY DEF Turned, Flat
<1>2. \A i \in DOMAIN g : g[i].msg.role = "assistant" => ReplySaid(m, g[i], f[i], ats[i])
  <2> TAKE i \in DOMAIN g
  <2> HAVE g[i].msg.role = "assistant"
  <2>1. \E at : ReplySaid(m, g[i], f[i], at)
    BY DEF Turned, ItemsFit
  <2> QED BY <2>1
<1> HIDE DEF ats
<1>3. \A k \in DOMAIN q : pl[k] = ats[src[k]][num[k]]
  OBVIOUS
<1> HIDE DEF pl
<1>4. \A k \in DOMAIN q : src[k] \in DOMAIN g /\ num[k] \in DOMAIN f[src[k]] /\ q[k] = f[src[k]][num[k]]
  BY <1>1 DEF Flat
<1>5. \A i \in DOMAIN g : IsSeq(f[i]) /\ ItemsFit(m, g[i], f[i]) /\ g[i].msg.role \in {"user", "toolResult", "assistant"}
  BY <1>1 DEF Nested, Turned, SentFits, Fitting
<1>6. \A k \in DOMAIN q : ItemWorded(m, g[src[k]], q[k], num[k], pl[k])
  <2> TAKE k \in DOMAIN q
  <2> DEFINE x == g[src[k]]
             c == f[src[k]]
             at == ats[src[k]]
  <2>1. /\ x.msg.role \in {"user", "toolResult", "assistant"} /\ IsSeq(c) /\ ItemsFit(m, x, c)
        /\ x.msg.role = "assistant" => ReplySaid(m, x, c, at)
        /\ num[k] \in DOMAIN c /\ q[k] = c[num[k]] /\ pl[k] = at[num[k]]
    BY <1>2, <1>3, <1>4, <1>5
  <2> HIDE DEF x, c, at
  <2>2. ItemWorded(m, x, c[num[k]], num[k], at[num[k]])
    BY <2>1, ItemsWorded
  <2>3. ItemWorded(m, x, q[k], num[k], pl[k])
    BY <2>1, <2>2
  <2> QED BY <2>3 DEF x
<1>7. \A k \in DOMAIN q : g[src[k]].msg.role = "toolResult" /\ Answering(g, src[k] + 1) => num[k] = 1
  <2> TAKE k \in DOMAIN q
  <2> HAVE g[src[k]].msg.role = "toolResult" /\ Answering(g, src[k] + 1)
  <2>1. Len(f[src[k]]) = 1 /\ IsSeq(f[src[k]]) /\ num[k] \in DOMAIN f[src[k]]
    BY <1>4, <1>5 DEF Turned
  <2>2. num[k] \in 1..1
    BY <2>1, SeqIs
  <2> QED BY <2>2
<1>8. \A j, k \in DOMAIN q :
        src[j] = src[k] /\ num[j] < num[k] /\ g[src[k]].msg.role = "assistant" => pl[j] < pl[k]
  <2> TAKE j, k \in DOMAIN q
  <2> HAVE src[j] = src[k] /\ num[j] < num[k] /\ g[src[k]].msg.role = "assistant"
  <2>1. ReplySaid(m, g[src[k]], f[src[k]], ats[src[k]]) /\ num[j] \in DOMAIN f[src[k]] /\ num[k] \in DOMAIN f[src[k]]
    BY <1>2, <1>4
  <2>2. ats[src[k]][num[j]] < ats[src[k]][num[k]]
    BY <2>1 DEF ReplySaid
  <2> QED BY <1>3, <2>2
<1>9. ASSUME NEW i \in DOMAIN g
      PROVE  /\ g[i].msg.role = "toolResult" => \E k \in DOMAIN q : src[k] = i /\ num[k] = 1
             /\ g[i].msg.role = "assistant" => \A c \in DOMAIN g[i].msg.parts :
                  g[i].msg.parts[c].kind = "call" => \E k \in DOMAIN q : src[k] = i /\ pl[k] = c
  <2>1. \A l \in DOMAIN f[i] : \E k \in DOMAIN q : src[k] = i /\ num[k] = l
    BY <1>1 DEF Flat
  <2>2. CASE g[i].msg.role = "toolResult"
    <3>1. 1 \in DOMAIN f[i]
      BY <1>5, <2>2 DEF ItemsFit, ResultSaid
    <3> QED BY <2>1, <2>2, <3>1
  <2>3. CASE g[i].msg.role = "assistant"
    <3>1. SUFFICES ASSUME NEW c \in DOMAIN g[i].msg.parts, g[i].msg.parts[c].kind = "call"
                   PROVE  \E k \in DOMAIN q : src[k] = i /\ pl[k] = c
      BY <2>3
    <3>2. ReplySaid(m, g[i], f[i], ats[i])
      BY <1>2, <2>3
    <3>3. PICK l \in DOMAIN f[i] : ats[i][l] = c
      BY <3>1, <3>2 DEF ReplySaid
    <3>4. PICK k \in DOMAIN q : src[k] = i /\ num[k] = l
      BY <2>1
    <3> QED BY <1>3, <3>3, <3>4
  <2> QED BY <2>2, <2>3
<1>10. \A j, k \in DOMAIN q : j < k <=> src[j] < src[k] \/ (src[j] = src[k] /\ num[j] < num[k])
  BY DEF Flat
<1>11. Worded(m, g, q, src, num, pl)
  <2>1. \A k \in DOMAIN q :
          /\ src[k] \in DOMAIN g /\ num[k] \in Nat /\ q[k].at = g[src[k]].at
          /\ q[k].kind = "call" => g[src[k]].msg.role = "assistant"
          /\ q[k].kind = "signed" => g[src[k]].msg.role = "assistant" /\ g[src[k]].msg.parts[pl[k]].kind = "signed"
          /\ q[k].kind = "result" <=> g[src[k]].msg.role = "toolResult" /\ num[k] = 1
          /\ q[k].kind = "result" => q[k].id = Wire(g[src[k]].msg.id, m)
          /\ g[src[k]].msg.role = "toolResult" => num[k] >= 1
          /\ g[src[k]].msg.role = "assistant" =>
               /\ pl[k] \in DOMAIN g[src[k]].msg.parts
               /\ q[k].kind = "call" <=> g[src[k]].msg.parts[pl[k]].kind = "call"
               /\ q[k].kind = "call" => q[k].id = Wire(g[src[k]].msg.parts[pl[k]].id, m)
    BY <1>4, <1>6 DEF ItemWorded
  <2> QED BY <1>1, <1>7, <1>8, <1>9, <1>10, <2>1 DEF Worded
<1> QED BY <1>11

-----------------------------------------------------------------------------
(* Calls and results, one for one.                                          *)

\* Message r is a result of a call of message i, with only results between
Met(g, i, r) ==
  /\ i \in DOMAIN g /\ r \in DOMAIN g /\ i < r /\ g[i].msg.role = "assistant"
  /\ \A k \in (i + 1)..r : g[k].msg.role = "toolResult"
  /\ g[r].msg.id \in IdsOf(g[i].msg)

\* A result has one message
LEMMA MetByOne ==
    ASSUME NEW g, IsSeq(g), NEW i, NEW j, NEW r, Met(g, i, r), Met(g, j, r)
    PROVE  i = j
<1>1. i \in Nat /\ j \in Nat /\ r \in Nat
  BY SeqIs DEF Met
<1>2. ~(i < j)
  <2>1. i < j => j \in (i + 1)..r
    BY <1>1 DEF Met
  <2> QED BY <2>1 DEF Met
<1>3. ~(j < i)
  <2>1. j < i => i \in (j + 1)..r
    BY <1>1 DEF Met
  <2> QED BY <2>1 DEF Met
<1> QED BY <1>1, <1>2, <1>3

\* A result has a message
LEMMA MetBySome ==
    ASSUME NEW m, NEW g, SentFits(m, g), NEW r \in DOMAIN g, g[r].msg.role = "toolResult"
    PROVE  \E i \in DOMAIN g : Met(g, i, r) /\ \A k \in (i + 1)..(r - 1) : g[k].msg.id # g[r].msg.id
<1>1. DOMAIN g = 1..Len(g) /\ Len(g) \in Nat
  BY SeqIs DEF SentFits
<1>2. PICK i \in 1..(r - 1) :
        /\ g[i].msg.role = "assistant" /\ g[r].msg.id \in IdsOf(g[i].msg)
        /\ \A k \in (i + 1)..(r - 1) : g[k].msg.role = "toolResult" /\ g[k].msg.id # g[r].msg.id
  BY DEF SentFits, Tied
<1>3. i \in DOMAIN g /\ i < r
  BY <1>1
<1>4. \A k \in (i + 1)..r : k \in (i + 1)..(r - 1) \/ k = r
  BY <1>1
<1>5. Met(g, i, r)
  BY <1>2, <1>3, <1>4 DEF Met
<1> QED BY <1>2, <1>3, <1>5

\* A call has one result
LEMMA MetOnce ==
    ASSUME NEW m, NEW g, SentFits(m, g), NEW i, NEW r, NEW t, Met(g, i, r), Met(g, i, t), g[r].msg.id = g[t].msg.id
    PROVE  r = t
<1>1. DOMAIN g = 1..Len(g) /\ Len(g) \in Nat /\ IsSeq(g)
  BY SeqIs DEF SentFits
<1>2. ASSUME NEW a, NEW b, Met(g, i, a), Met(g, i, b), g[a].msg.id = g[b].msg.id PROVE ~(a < b)
  <2>1. a \in DOMAIN g /\ b \in DOMAIN g /\ i \in DOMAIN g /\ i < a /\ i < b
    BY <1>2 DEF Met
  <2>2. b \in (i + 1)..b
    BY <1>1, <2>1
  <2>3. g[b].msg.role = "toolResult"
    BY <1>2, <2>2 DEF Met
  <2>4. PICK j \in DOMAIN g : Met(g, j, b) /\ \A k \in (j + 1)..(b - 1) : g[k].msg.id # g[b].msg.id
    BY <2>1, <2>3, MetBySome
  <2>5. j = i
    BY <1>1, <1>2, <2>4, MetByOne
  <2>6. a < b => a \in (i + 1)..(b - 1)
    BY <1>1, <2>1
  <2> QED BY <1>2, <2>4, <2>5, <2>6
<1>3. r \in Nat /\ t \in Nat
  BY <1>1 DEF Met
<1>4. ~(r < t) /\ ~(t < r)
  BY <1>2
<1> QED BY <1>3, <1>4

\* A call has a result
LEMMA MetAtAll ==
    ASSUME NEW m, NEW g, SentFits(m, g), NEW i \in DOMAIN g, g[i].msg.role = "assistant", NEW id \in IdsOf(g[i].msg)
    PROVE  \E r \in DOMAIN g : Met(g, i, r) /\ g[r].msg.id = id
<1>1. PICK r \in DOMAIN g : /\ r > i /\ g[r].msg.id = id
                            /\ \A x \in (i + 1)..r : g[x].msg.role = "toolResult"
  BY DEF SentFits, Settled
<1>2. i < r
  <2>1. i \in Nat /\ r \in Nat
    BY SeqIs DEF SentFits
  <2> QED BY <1>1, <2>1
<1>3. Met(g, i, r)
  BY <1>1, <1>2 DEF Met
<1> QED BY <1>1, <1>3

\* Item x is a call, and item y its result
Pairs(g, q, src, pl, x, y) ==
  /\ x \in DOMAIN q /\ q[x].kind = "call" /\ y \in DOMAIN q /\ q[y].kind = "result"
  /\ Met(g, src[x], src[y]) /\ g[src[y]].msg.id = g[src[x]].msg.parts[pl[x]].id

\* The message and part of a call
LEMMA CallFits ==
    ASSUME NEW m, NEW g, NEW q, NEW src, NEW num, NEW pl, Worded(m, g, q, src, num, pl),
           NEW x \in DOMAIN q, q[x].kind = "call"
    PROVE  /\ src[x] \in DOMAIN g /\ g[src[x]].msg.role = "assistant"
           /\ pl[x] \in DOMAIN g[src[x]].msg.parts /\ g[src[x]].msg.parts[pl[x]].kind = "call"
           /\ q[x].id = Wire(g[src[x]].msg.parts[pl[x]].id, m)
           /\ g[src[x]].msg.parts[pl[x]].id \in IdsOf(g[src[x]].msg)
           /\ \A l \in DOMAIN g[src[x]].msg.parts : l > pl[x] => g[src[x]].msg.parts[l].kind = "call"
           /\ \A l \in DOMAIN g[src[x]].msg.parts :
                l # pl[x] /\ g[src[x]].msg.parts[l].kind = "call" => g[src[x]].msg.parts[l].id # g[src[x]].msg.parts[pl[x]].id
           /\ Accepted(m, g[src[x]].msg.parts[pl[x]].id)
<1>1. /\ src[x] \in DOMAIN g /\ g[src[x]].msg.role = "assistant"
      /\ pl[x] \in DOMAIN g[src[x]].msg.parts /\ g[src[x]].msg.parts[pl[x]].kind = "call"
      /\ q[x].id = Wire(g[src[x]].msg.parts[pl[x]].id, m)
  BY DEF Worded
<1> DEFINE y == g[src[x]].msg
<1>2. Fitting(m, y)
  BY <1>1 DEF Worded, SentFits
<1>3. y.role = "assistant" /\ pl[x] \in DOMAIN y.parts /\ y.parts[pl[x]].kind = "call"
  BY <1>1
<1> HIDE DEF y
<1>4. /\ y.parts[pl[x]].id \in IdsOf(y) /\ Accepted(m, y.parts[pl[x]].id)
      /\ \A l \in DOMAIN y.parts : l > pl[x] => y.parts[l].kind = "call"
      /\ \A l \in DOMAIN y.parts : l # pl[x] /\ y.parts[l].kind = "call" => y.parts[l].id # y.parts[pl[x]].id
  BY <1>2, <1>3 DEF Fitting, IdsOf
<1> QED BY <1>1, <1>4 DEF y

\* The places of a request are those of its messages
LEMMA OnePlace ==
    ASSUME NEW m, NEW g, NEW q, NEW src, NEW num, NEW pl, Worded(m, g, q, src, num, pl),
           NEW x \in DOMAIN q, NEW y \in DOMAIN q, src[x] = src[y], num[x] = num[y]
    PROVE  x = y
<1>1. x \in Nat /\ y \in Nat
  BY SeqIs DEF Worded
<1>2. src[x] \in Nat /\ num[x] \in Nat
  BY SeqIs DEF Worded, SentFits
<1>3. ~(x < y) /\ ~(y < x)
  BY <1>2 DEF Worded
<1> QED BY <1>1, <1>3

\* A call has an item that answers it
LEMMA PairsAtAll ==
    ASSUME NEW m, NEW g, NEW q, NEW src, NEW num, NEW pl, Worded(m, g, q, src, num, pl),
           NEW x \in DOMAIN q, q[x].kind = "call"
    PROVE  \E y \in DOMAIN q : Pairs(g, q, src, pl, x, y)
<1> DEFINE id == g[src[x]].msg.parts[pl[x]].id
<1>1. SentFits(m, g) /\ IsSeq(g)
  BY DEF Worded, SentFits
<1>2. src[x] \in DOMAIN g /\ g[src[x]].msg.role = "assistant" /\ id \in IdsOf(g[src[x]].msg)
  BY CallFits
<1>3. PICK r \in DOMAIN g : Met(g, src[x], r) /\ g[r].msg.id = id
  <2> HIDE DEF id
  <2> QED BY <1>1, <1>2, MetAtAll
<1>4. g[r].msg.role = "toolResult"
  <2>1. r \in (src[x] + 1)..r
    <3>1. r \in Nat /\ src[x] \in Nat /\ src[x] < r
      BY <1>1, <1>3, SeqIs DEF Met
    <3> QED BY <3>1
  <2> QED BY <1>3, <2>1 DEF Met
<1>5. PICK y \in DOMAIN q : src[y] = r /\ num[y] = 1
  BY <1>4 DEF Worded
<1>6. q[y].kind = "result"
  BY <1>4, <1>5 DEF Worded
<1>7. Pairs(g, q, src, pl, x, y)
  BY <1>3, <1>5, <1>6 DEF Pairs
<1> QED BY <1>7

\* A result has an item that asks for it
LEMMA PairsBySome ==
    ASSUME NEW m, NEW g, NEW q, NEW src, NEW num, NEW pl, Worded(m, g, q, src, num, pl),
           NEW y \in DOMAIN q, q[y].kind = "result"
    PROVE  \E x \in DOMAIN q : Pairs(g, q, src, pl, x, y)
<1>1. SentFits(m, g) /\ src[y] \in DOMAIN g /\ g[src[y]].msg.role = "toolResult"
  BY DEF Worded
<1>2. PICK i \in DOMAIN g : Met(g, i, src[y])
  BY <1>1, MetBySome
<1>3. g[i].msg.role = "assistant" /\ g[src[y]].msg.id \in IdsOf(g[i].msg)
  BY <1>2 DEF Met
<1>4. PICK c \in DOMAIN g[i].msg.parts : g[i].msg.parts[c].kind = "call" /\ g[i].msg.parts[c].id = g[src[y]].msg.id
  BY <1>3 DEF IdsOf
<1>5. PICK x \in DOMAIN q : src[x] = i /\ pl[x] = c
  BY <1>3, <1>4 DEF Worded
<1>6. q[x].kind = "call"
  BY <1>3, <1>4, <1>5 DEF Worded
<1>7. Pairs(g, q, src, pl, x, y)
  BY <1>2, <1>4, <1>5, <1>6 DEF Pairs
<1> QED BY <1>7

\* A call has one answer
LEMMA PairsOnce ==
    ASSUME NEW m, NEW g, NEW q, NEW src, NEW num, NEW pl, Worded(m, g, q, src, num, pl),
           NEW x, NEW y, NEW z, Pairs(g, q, src, pl, x, y), Pairs(g, q, src, pl, x, z)
    PROVE  y = z
<1>1. SentFits(m, g) /\ y \in DOMAIN q /\ z \in DOMAIN q
  BY DEF Worded, Pairs
<1>2. src[y] = src[z]
  BY <1>1, MetOnce DEF Pairs
<1>3. num[y] = 1 /\ num[z] = 1
  BY <1>1 DEF Worded, Pairs
<1> QED BY <1>1, <1>2, <1>3, OnePlace

\* A result is asked for once
LEMMA PairsByOne ==
    ASSUME NEW m, NEW g, NEW q, NEW src, NEW num, NEW pl, Worded(m, g, q, src, num, pl),
           NEW x, NEW y, NEW z, Pairs(g, q, src, pl, x, y), Pairs(g, q, src, pl, z, y)
    PROVE  x = z
<1>1. IsSeq(g) /\ x \in DOMAIN q /\ z \in DOMAIN q /\ q[x].kind = "call" /\ q[z].kind = "call"
  BY DEF Worded, SentFits, Pairs
<1>2. src[x] = src[z]
  BY <1>1, MetByOne DEF Pairs
<1>3. g[src[x]].msg.parts[pl[x]].id = g[src[z]].msg.parts[pl[z]].id
  BY DEF Pairs
<1>4. pl[x] \in DOMAIN g[src[x]].msg.parts /\ g[src[x]].msg.parts[pl[x]].kind = "call" /\ g[src[x]].msg.role = "assistant"
  BY <1>1, CallFits
<1>5. \A l \in DOMAIN g[src[z]].msg.parts :
        l # pl[z] /\ g[src[z]].msg.parts[l].kind = "call" => g[src[z]].msg.parts[l].id # g[src[z]].msg.parts[pl[z]].id
  BY <1>1, CallFits
<1>6. pl[x] = pl[z]
  BY <1>2, <1>3, <1>4, <1>5
<1>7. num[x] \in Nat /\ num[z] \in Nat
  BY <1>1 DEF Worded
<1>8. IsSeq(g[src[x]].msg.parts)
  BY <1>1, <1>4 DEF Worded, SentFits, Fitting
<1>9. pl[x] \in Nat
  BY <1>4, <1>8, SeqIs
<1>10. ~(num[x] < num[z]) /\ ~(num[z] < num[x])
  BY <1>1, <1>2, <1>4, <1>6, <1>9 DEF Worded
<1>11. num[x] = num[z]
  BY <1>7, <1>10
<1> QED BY <1>1, <1>2, <1>11, OnePlace

\* Calls of one message, and no others, are at one place
LEMMA CallsAtPlace ==
    ASSUME NEW m, NEW g, NEW q, NEW src, NEW num, NEW pl, Worded(m, g, q, src, num, pl),
           NEW x \in DOMAIN q, q[x].kind = "call", NEW y \in DOMAIN q, q[y].kind = "call"
    PROVE  q[x].at = q[y].at <=> src[x] = src[y]
<1>1. /\ src[x] \in DOMAIN g /\ src[y] \in DOMAIN g /\ q[x].at = g[src[x]].at /\ q[y].at = g[src[y]].at
      /\ g[src[x]].msg.role = "assistant" /\ g[src[y]].msg.role = "assistant"
  BY DEF Worded
<1>2. src[x] \in Nat /\ src[y] \in Nat
  BY <1>1, SeqIs DEF Worded, SentFits
<1>3. src[x] < src[y] => q[x].at # q[y].at
  BY <1>1 DEF Worded, SentFits
<1>4. src[y] < src[x] => q[x].at # q[y].at
  BY <1>1 DEF Worded, SentFits
<1> QED BY <1>1, <1>2, <1>3, <1>4

\* l is the last call at its place
LastCall(q, l) == /\ l \in DOMAIN q /\ q[l].kind = "call"
                  /\ \A j \in DOMAIN q : q[j].kind = "call" /\ q[j].at = q[l].at => j <= l

\* The answer of a call is among the results right after the last call of its message
LEMMA AnswerIsNext ==
    ASSUME NEW m, NEW g, NEW q, NEW src, NEW num, NEW pl, Worded(m, g, q, src, num, pl),
           NEW l, LastCall(q, l), NEW x, NEW y, Pairs(g, q, src, pl, x, y), src[x] = src[l]
    PROVE  y \in ResultsAfter(q, l)
<1> DEFINE i == src[l]
<1>1. IsSeq(g) /\ IsSeq(q) /\ x \in DOMAIN q /\ y \in DOMAIN q /\ l \in DOMAIN q /\ q[l].kind = "call"
  BY DEF Worded, SentFits, Pairs, LastCall
<1>2. DOMAIN q = 1..Len(q) /\ Len(q) \in Nat /\ DOMAIN g = 1..Len(g) /\ Len(g) \in Nat
  BY <1>1, SeqIs
<1>3. Met(g, i, src[y])
  BY DEF Pairs
<1>4. i \in DOMAIN g /\ src[y] \in DOMAIN g /\ i < src[y] /\ g[i].msg.role = "assistant"
      /\ \A k \in (i + 1)..src[y] : g[k].msg.role = "toolResult"
  BY <1>3 DEF Met
<1>5. num[y] = 1 /\ q[y].kind = "result"
  BY <1>1 DEF Worded, Pairs
<1>6. l < y
  BY <1>1, <1>4 DEF Worded
<1>7. ASSUME NEW k \in (l + 1)..y PROVE q[k].kind = "result"
  <2>1. k \in DOMAIN q /\ l < k /\ (k < y \/ k = y)
    BY <1>1, <1>2, <1>7
  <2>2. src[k] \in DOMAIN g /\ num[k] \in Nat
    BY <2>1 DEF Worded
  <2>3. i < src[k] \/ (i = src[k] /\ num[l] < num[k])
    BY <1>1, <2>1 DEF Worded
  <2>4. src[k] < src[y] \/ (src[k] = src[y] /\ num[k] < num[y]) \/ k = y
    BY <1>1, <2>1 DEF Worded
  <2>5. ~(i = src[k] /\ num[l] < num[k])
    <3> SUFFICES ASSUME i = src[k], num[l] < num[k] PROVE FALSE
      OBVIOUS
    <3>1. pl[l] < pl[k]
      BY <1>1, <1>4, <2>1 DEF Worded
    <3>2. pl[k] \in DOMAIN g[i].msg.parts
      BY <1>4, <2>1 DEF Worded
    <3>3. pl[k] > pl[l]
      <4>1. IsSeq(g[i].msg.parts)
        BY <1>4 DEF Worded, SentFits, Fitting
      <4>2. pl[l] \in DOMAIN g[i].msg.parts
        BY <1>1, <1>4 DEF Worded
      <4> QED BY <3>1, <3>2, <4>1, <4>2, SeqIs
    <3>4. g[i].msg.parts[pl[k]].kind = "call"
      BY <1>1, <3>2, <3>3, CallFits
    <3>5. q[k].kind = "call"
      BY <1>4, <2>1, <3>4 DEF Worded
    <3>6. q[k].at = q[l].at
      BY <1>1, <2>1, <3>5, CallsAtPlace
    <3>7. k <= l
      BY <2>1, <3>5, <3>6 DEF LastCall
    <3> QED BY <1>1, <1>2, <2>1, <3>7
  <2>6. src[k] \in (i + 1)..src[y]
    BY <1>2, <1>4, <2>2, <2>3, <2>4, <2>5
  <2>7. g[src[k]].msg.role = "toolResult"
    BY <1>4, <2>6
  <2>8. num[k] = 1
    <3>1. CASE src[k] < src[y]
      <4>1. src[k] + 1 \in (i + 1)..src[y] /\ src[k] + 1 \in DOMAIN g
        BY <1>2, <1>4, <2>6, <3>1
      <4>2. Answering(g, src[k] + 1)
        BY <1>4, <4>1 DEF Answering
      <4> QED BY <2>1, <2>7, <4>2 DEF Worded
    <3>2. CASE src[k] = src[y]
      <4>1. num[k] >= 1
        BY <2>1, <2>7 DEF Worded
      <4>2. src[k] \in Nat
        BY <1>2, <2>2
      <4>3. num[k] < 1 \/ k = y
        BY <1>5, <2>4, <3>2, <4>2
      <4> QED BY <1>5, <2>2, <4>1, <4>3
    <3>3. src[k] < src[y] \/ src[k] = src[y]
      BY <1>2, <1>4, <2>2, <2>6
    <3> QED BY <3>1, <3>2, <3>3
  <2> QED BY <2>1, <2>7, <2>8 DEF Worded
<1>8. y \in (l + 1)..Len(q)
  BY <1>1, <1>2, <1>6
<1> QED BY <1>7, <1>8 DEF ResultsAfter

\* And those results are answers of its calls
LEMMA NextIsAnswer ==
    ASSUME NEW m, NEW g, NEW q, NEW src, NEW num, NEW pl, Worded(m, g, q, src, num, pl),
           NEW l, LastCall(q, l), NEW x, NEW y, Pairs(g, q, src, pl, x, y), y \in ResultsAfter(q, l)
    PROVE  src[x] = src[l]
<1>1. IsSeq(g) /\ IsSeq(q) /\ x \in DOMAIN q /\ y \in DOMAIN q /\ l \in DOMAIN q /\ q[l].kind = "call" /\ q[x].kind = "call"
  BY DEF Worded, SentFits, Pairs, LastCall
<1>2. DOMAIN q = 1..Len(q) /\ Len(q) \in Nat /\ DOMAIN g = 1..Len(g) /\ Len(g) \in Nat
  BY <1>1, SeqIs
<1>3. Met(g, src[x], src[y])
  BY DEF Pairs
<1>4. src[x] \in DOMAIN g /\ src[y] \in DOMAIN g /\ src[x] < src[y]
      /\ \A k \in (src[x] + 1)..src[y] : g[k].msg.role = "toolResult"
  BY <1>3 DEF Met
<1>5. src[l] \in DOMAIN g /\ g[src[l]].msg.role = "assistant"
  BY <1>1, CallFits
<1>6. y \in (l + 1)..Len(q) /\ \A k \in (l + 1)..y : q[k].kind = "result"
  BY DEF ResultsAfter
<1>7. ~(src[x] < src[l])
  <2> SUFFICES ASSUME src[x] < src[l] PROVE FALSE
    OBVIOUS
  <2>1. l < y
    BY <1>1, <1>2, <1>6
  <2>2. src[l] < src[y] \/ src[l] = src[y]
    BY <1>1, <2>1 DEF Worded
  <2>3. src[l] \in (src[x] + 1)..src[y]
    BY <1>2, <1>4, <1>5, <2>2
  <2> QED BY <1>4, <1>5, <2>3
<1>8. ~(src[l] < src[x])
  <2> SUFFICES ASSUME src[l] < src[x] PROVE FALSE
    OBVIOUS
  <2>1. l < x
    BY <1>1 DEF Worded
  <2>2. x < y
    BY <1>1, <1>4 DEF Worded
  <2>3. x \in (l + 1)..y
    BY <1>1, <1>2, <2>1, <2>2
  <2> QED BY <1>1, <1>6, <2>3
<1> QED BY <1>2, <1>4, <1>5, <1>7, <1>8

\* ans[x] is the answer of call x
Matched(q, ans) ==
  /\ IsSeq(q)
  /\ \A x \in DOMAIN q : q[x].kind = "call" =>
       ans[x] \in DOMAIN q /\ q[ans[x]].kind = "result" /\ q[ans[x]].id = q[x].id
  /\ \A x, y \in DOMAIN q : q[x].kind = "call" /\ q[y].kind = "call" /\ ans[x] = ans[y] => x = y
  /\ \A y \in DOMAIN q : q[y].kind = "result" => \E x \in DOMAIN q : q[x].kind = "call" /\ ans[x] = y
  /\ \A l, x \in DOMAIN q : LastCall(q, l) /\ q[x].kind = "call" =>
       (q[x].at = q[l].at <=> ans[x] \in ResultsAfter(q, l))

\* Calls and results are matched
LEMMA WordedMatched ==
    ASSUME NEW m, NEW g, NEW q, NEW src, NEW num, NEW pl, Worded(m, g, q, src, num, pl)
    PROVE  \E ans : Matched(q, ans)
<1> DEFINE ans == [x \in DOMAIN q |-> CHOOSE y \in DOMAIN q : Pairs(g, q, src, pl, x, y)]
<1>1. \A x \in DOMAIN q : q[x].kind = "call" => ans[x] \in DOMAIN q /\ Pairs(g, q, src, pl, x, ans[x])
  <2> TAKE x \in DOMAIN q
  <2> HAVE q[x].kind = "call"
  <2>1. \E y \in DOMAIN q : Pairs(g, q, src, pl, x, y)
    BY PairsAtAll
  <2> QED BY <2>1
<1> HIDE DEF ans
<1>2. ASSUME NEW x \in DOMAIN q, q[x].kind = "call"
      PROVE  ans[x] \in DOMAIN q /\ q[ans[x]].kind = "result" /\ q[ans[x]].id = q[x].id
  <2>1. /\ ans[x] \in DOMAIN q /\ q[ans[x]].kind = "result"
        /\ g[src[ans[x]]].msg.id = g[src[x]].msg.parts[pl[x]].id
    BY <1>1, <1>2 DEF Pairs
  <2>2. q[x].id = Wire(g[src[x]].msg.parts[pl[x]].id, m)
    BY <1>2, CallFits
  <2>3. q[ans[x]].id = Wire(g[src[ans[x]]].msg.id, m)
    BY <2>1 DEF Worded
  <2> QED BY <2>1, <2>2, <2>3
<1>3. \A x, y \in DOMAIN q : q[x].kind = "call" /\ q[y].kind = "call" /\ ans[x] = ans[y] => x = y
  <2> TAKE x, y \in DOMAIN q
  <2> HAVE q[x].kind = "call" /\ q[y].kind = "call" /\ ans[x] = ans[y]
  <2>1. Pairs(g, q, src, pl, x, ans[x]) /\ Pairs(g, q, src, pl, y, ans[x])
    BY <1>1
  <2> QED BY <2>1, PairsByOne
<1>4. \A y \in DOMAIN q : q[y].kind = "result" => \E x \in DOMAIN q : q[x].kind = "call" /\ ans[x] = y
  <2> TAKE y \in DOMAIN q
  <2> HAVE q[y].kind = "result"
  <2>1. PICK x \in DOMAIN q : Pairs(g, q, src, pl, x, y)
    BY PairsBySome
  <2>2. q[x].kind = "call"
    BY <2>1 DEF Pairs
  <2>3. Pairs(g, q, src, pl, x, ans[x])
    BY <1>1, <2>2
  <2>4. ans[x] = y
    BY <2>1, <2>3, PairsOnce
  <2> QED BY <2>2, <2>4
<1>5. \A l, x \in DOMAIN q : LastCall(q, l) /\ q[x].kind = "call" =>
        (q[x].at = q[l].at <=> ans[x] \in ResultsAfter(q, l))
  <2> TAKE l, x \in DOMAIN q
  <2> HAVE LastCall(q, l) /\ q[x].kind = "call"
  <2>1. Pairs(g, q, src, pl, x, ans[x])
    BY <1>1
  <2>2. q[x].at = q[l].at <=> src[x] = src[l]
    BY CallsAtPlace DEF LastCall
  <2>3. src[x] = src[l] => ans[x] \in ResultsAfter(q, l)
    BY <2>1, AnswerIsNext
  <2>4. ans[x] \in ResultsAfter(q, l) => src[x] = src[l]
    BY <2>1, NextIsAnswer
  <2> QED BY <2>2, <2>3, <2>4
<1>6. Matched(q, ans)
  BY <1>2, <1>3, <1>4, <1>5 DEF Matched, Worded
<1> QED BY <1>6

\* Two sets whose members go together one for one have the same number
LEMMA OneToOne ==
    ASSUME NEW S, NEW T, IsFiniteSet(S), NEW h,
           \A x \in S : h[x] \in T,
           \A x, y \in S : h[x] = h[y] => x = y,
           \A y \in T : \E x \in S : h[x] = y
    PROVE  Cardinality(S) = Cardinality(T)
<1> DEFINE b == [x \in S |-> h[x]]
<1>1. b \in [S -> T]
  OBVIOUS
<1>2. \A x \in S : b[x] = h[x]
  OBVIOUS
<1> HIDE DEF b
<1>3. b \in Injection(S, T)
  BY <1>1, <1>2 DEF Injection, IsInjective
<1>4. b \in Surjection(S, T)
  BY <1>1, <1>2 DEF Surjection
<1>5. ExistsBijection(S, T)
  BY <1>3, <1>4 DEF ExistsBijection, Bijection
<1> QED BY <1>5, FS_Bijection

\* So every call is answered in its place
LEMMA MatchedInPlace ==
    ASSUME NEW q, NEW ans, Matched(q, ans)
    PROVE  AnsweredInPlace(q)
<1> DEFINE calls == {i \in DOMAIN q : q[i].kind = "call"}
           results == {i \in DOMAIN q : q[i].kind = "result"}
           lastOf(at) == CHOOSE i \in calls : q[i].at = at /\ \A j \in calls : q[j].at = at => j <= i
           Even(at, id) == Cardinality({i \in calls : q[i].at = at /\ q[i].id = id})
                             = Cardinality({j \in ResultsAfter(q, lastOf(at)) : q[j].id = id})
<1>1. IsSeq(q) /\ DOMAIN q = 1..Len(q) /\ Len(q) \in Nat
  BY SeqIs DEF Matched
<1>2. \A S : S \subseteq DOMAIN q => IsFiniteSet(S)
  <2>1. IsFiniteSet(1..Len(q))
    BY <1>1, FS_Interval
  <2>2. IsFiniteSet(DOMAIN q)
    BY <1>1, <2>1
  <2> QED BY <2>2, FS_Subset
<1>3. /\ \A x \in calls : ans[x] \in results /\ q[ans[x]].id = q[x].id
      /\ \A x, y \in calls : ans[x] = ans[y] => x = y
      /\ \A y \in results : \E x \in calls : ans[x] = y
  BY DEF Matched
<1>4. Cardinality(calls) = Cardinality(results)
  <2>1. IsFiniteSet(calls)
    BY <1>2
  <2> HIDE DEF calls, results
  <2> QED BY <1>3, <2>1, OneToOne
<1>5. ASSUME NEW c \in calls, NEW id PROVE Even(q[c].at, id)
  <2> DEFINE at == q[c].at
             l == lastOf(at)
             S == {i \in calls : q[i].at = at /\ q[i].id = id}
             T == {j \in ResultsAfter(q, l) : q[j].id = id}
  <2>1. \E i \in calls : q[i].at = at /\ \A j \in calls : q[j].at = at => j <= i
    <3> DEFINE D == {i \in calls : q[i].at = at}
    <3>1. D \subseteq 0..Len(q) /\ D # {} /\ D \subseteq Nat
      BY <1>1
    <3>2. PICK i \in D : \A j \in D : i >= j
      <4> HIDE DEF D
      <4> QED BY <1>1, <3>1, GreatestNumber
    <3>3. \A j \in D : j <= i
      BY <3>1, <3>2
    <3> QED BY <3>2, <3>3
  <2>2. l \in calls /\ q[l].at = at /\ \A j \in calls : q[j].at = at => j <= l
    <3> HIDE DEF calls, at
    <3> QED BY <2>1
  <2> HIDE DEF l, at
  <2>3. LastCall(q, l)
    BY <2>2 DEF LastCall
  <2>4. \A x \in calls : q[x].at = at <=> ans[x] \in ResultsAfter(q, l)
    BY <2>2, <2>3 DEF Matched
  <2>5. ResultsAfter(q, l) \subseteq results
    <3> SUFFICES ASSUME NEW j \in ResultsAfter(q, l) PROVE j \in results
      OBVIOUS
    <3>1. j \in (l + 1)..Len(q) /\ \A k \in (l + 1)..j : q[k].kind = "result"
      BY DEF ResultsAfter
    <3>2. l \in Nat
      BY <1>1, <2>2
    <3> QED BY <1>1, <3>1, <3>2
  <2>6. IsFiniteSet(S)
    BY <1>2
  <2> HIDE DEF calls, results
  <2>7. /\ \A x \in S : ans[x] \in T
        /\ \A x, y \in S : ans[x] = ans[y] => x = y
        /\ \A y \in T : \E x \in S : ans[x] = y
    BY <1>3, <2>4, <2>5
  <2> HIDE DEF S, T
  <2>8. Cardinality(S) = Cardinality(T)
    BY <2>6, <2>7, OneToOne
  <2> QED BY <2>8 DEF S, T, l, at
<1>6. \A at \in {q[i].at : i \in calls} : \A id \in {q[i].id : i \in calls} : Even(at, id)
  <2> HIDE DEF Even, calls
  <2> QED BY <1>5
<1> QED BY <1>4, <1>6 DEF AnsweredInPlace

\* Nothing is sent that the API refuses
LEMMA WordedFits ==
    ASSUME NEW m, NEW g, NEW q, NEW src, NEW num, NEW pl, Worded(m, g, q, src, num, pl)
    PROVE  ForeignPartsFit(m, q)
<1> SUFFICES ASSUME NEW k \in DOMAIN q
             PROVE  /\ q[k].kind \in {"call", "result"} => Accepts(m, q[k].id.form)
                    /\ q[k].kind = "signed" => messages[q[k].at].model = m
  BY DEF ForeignPartsFit
<1>1. SentFits(m, g) /\ src[k] \in DOMAIN g /\ q[k].at = g[src[k]].at
  BY DEF Worded
<1>2. Fitting(m, g[src[k]].msg)
  BY <1>1 DEF SentFits
<1>3. CASE q[k].kind = "call"
  <2>1. q[k].id = Wire(g[src[k]].msg.parts[pl[k]].id, m) /\ Accepted(m, g[src[k]].msg.parts[pl[k]].id)
    BY <1>3, CallFits
  <2>2. Accepts(m, q[k].id.form)
    BY <2>1 DEF Accepted
  <2> QED BY <1>3, <2>2
<1>4. CASE q[k].kind = "result"
  <2>1. q[k].id = Wire(g[src[k]].msg.id, m) /\ g[src[k]].msg.role = "toolResult"
    BY <1>4 DEF Worded
  <2>2. Accepted(m, g[src[k]].msg.id)
    BY <1>2, <2>1 DEF Fitting
  <2>3. Accepts(m, q[k].id.form)
    BY <2>1, <2>2 DEF Accepted
  <2> QED BY <1>4, <2>3
<1>5. CASE q[k].kind = "signed"
  <2>1. /\ g[src[k]].msg.role = "assistant" /\ g[src[k]].msg.parts[pl[k]].kind = "signed"
        /\ pl[k] \in DOMAIN g[src[k]].msg.parts
    BY <1>5 DEF Worded
  <2>2. g[src[k]].msg.model = m
    BY <1>2, <2>1 DEF Fitting
  <2>3. messages[g[src[k]].at].model = g[src[k]].msg.model
    BY <1>1, <2>1 DEF SentFits
  <2> QED BY <1>1, <1>5, <2>2, <2>3
<1> QED BY <1>3, <1>4, <1>5

\* The messages that are sent, and the request they make
LEMMA RequestIs ==
    ASSUME MessagesInv, NEW m \in Models
    PROVE  \E f, src, num : /\ Turned(m, Sent(m), f) /\ Flat(Request(m), f, src, num)
                            /\ SentKeeps(m, Sent(m))
<1> DEFINE g == Sent(m)
           f == [i \in DOMAIN g |-> Converted(m, g, i)]
           q == FlattenSeq(f)
<1>1. Request(m) = q
  BY DEF Request
<1>2. SentFits(m, g) /\ SentKeeps(m, g)
  BY SentIs
<1> HIDE DEF g
<1>3. Turned(m, g, f)
  BY <1>2, TurnedIs
<1> HIDE DEF f
<1>4. \E src, num : Flat(q, f, src, num)
  BY <1>3, FlatIs DEF Turned
<1> QED BY <1>1, <1>2, <1>3, <1>4 DEF g

\* What each model is sent is in order
LEMMA RequestsAnswered ==
    ASSUME MessagesInv
    PROVE  EveryCallIsAnswered
<1> SUFFICES ASSUME NEW m \in Models PROVE AnsweredInPlace(Request(m)) /\ ForeignPartsFit(m, Request(m))
  BY DEF EveryCallIsAnswered
<1> DEFINE q == Request(m)
           g == Sent(m)
<1>1. PICK f, src, num : Turned(m, g, f) /\ Flat(q, f, src, num)
  BY RequestIs
<1> HIDE DEF q, g
<1>2. PICK pl : Worded(m, g, q, src, num, pl)
  BY <1>1, WordedIs
<1>3. PICK ans : Matched(q, ans)
  BY <1>2, WordedMatched
<1>4. AnsweredInPlace(q)
  BY <1>3, MatchedInPlace
<1>5. ForeignPartsFit(m, q)
  BY <1>2, WordedFits
<1> QED BY <1>4, <1>5 DEF q

\* And complete
LEMMA RequestsComplete ==
    ASSUME MessagesInv
    PROVE  NothingIsLost
<1> SUFFICES ASSUME NEW m \in Models
             PROVE  LET q == Request(m)
                        shown == {k \in DOMAIN q : q[k].kind \in {"text", "image"}}
                    IN  /\ {i \in DOMAIN messages : Speaks(messages[i], m)} \subseteq {q[k].at : k \in shown}
                        /\ \A j, k \in shown : j <= k => q[j].at <= q[k].at
                        /\ messages # <<>> /\ Last(messages).role = "user" => Last(q).who = "user"
  BY DEF NothingIsLost
<1> DEFINE q == Request(m)
           g == Sent(m)
           shown == {k \in DOMAIN q : q[k].kind \in {"text", "image"}}
<1>1. PICK f, src, num : Turned(m, g, f) /\ Flat(q, f, src, num) /\ SentKeeps(m, g)
  BY RequestIs
<1> HIDE DEF q, g
<1>2. PICK pl : Worded(m, g, q, src, num, pl)
  BY <1>1, WordedIs
<1>3. SentFits(m, g) /\ IsSeq(q) /\ DOMAIN q = 1..Len(q) /\ Len(q) \in Nat
  BY <1>2, SeqIs DEF Worded
<1>4. \A i \in DOMAIN g : \A l \in DOMAIN f[i] : \E k \in DOMAIN q : src[k] = i /\ num[k] = l /\ q[k] = f[i][l]
  BY <1>1 DEF Flat, Turned
<1>5. ASSUME NEW i \in DOMAIN messages, Speaks(messages[i], m) PROVE \E k \in shown : i = q[k].at
  <2>1. PICK p \in DOMAIN g : /\ g[p].at = i /\ g[p].msg.role \in {"user", "assistant"}
                              /\ g[p].msg.role = "assistant" => Holds(g[p].msg.parts, "text")
    BY <1>1, <1>5 DEF SentKeeps
  <2>2. ItemsFit(m, g[p], f[p])
    BY <1>1 DEF Turned
  <2>3. \E l \in DOMAIN f[p] : f[p][l].kind \in {"text", "image"}
    <3>1. CASE g[p].msg.role = "user"
      BY <2>2, <3>1 DEF ItemsFit, UserSaid
    <3>2. CASE g[p].msg.role = "assistant"
      <4>1. PICK at : ReplySaid(m, g[p], f[p], at)
        BY <2>2, <3>2 DEF ItemsFit
      <4>2. Holds(f[p], "text")
        BY <2>1, <3>2, <4>1 DEF ReplySaid
      <4> QED BY <4>2 DEF Holds
    <3> QED BY <2>1, <3>1, <3>2
  <2>4. PICK k \in DOMAIN q : src[k] = p /\ q[k].kind \in {"text", "image"}
    BY <1>4, <2>3
  <2>5. q[k].at = i
    BY <1>2, <2>1, <2>4 DEF Worded
  <2> QED BY <2>4, <2>5
<1>6. ASSUME NEW j \in DOMAIN q, NEW k \in DOMAIN q, j <= k PROVE q[j].at <= q[k].at
  <2>1. src[j] \in DOMAIN g /\ src[k] \in DOMAIN g /\ q[j].at = g[src[j]].at /\ q[k].at = g[src[k]].at
        /\ g[src[j]].at \in Nat /\ g[src[k]].at \in Nat
    BY <1>2 DEF Worded, SentFits
  <2>2. j < k \/ j = k
    BY <1>3, <1>6
  <2>3. src[j] < src[k] \/ src[j] = src[k]
    BY <1>2, <2>2 DEF Worded
  <2>4. src[j] < src[k] => g[src[j]].at <= g[src[k]].at
    BY <1>3, <2>1 DEF SentFits
  <2> QED BY <2>1, <2>3, <2>4
<1>7. ASSUME messages # <<>>, messages[Len(messages)].role = "user" PROVE q[Len(q)].who = "user"
  <2> DEFINE n == Len(g)
  <2>1. n \in DOMAIN g /\ g[n].msg.role = "user"
    BY <1>1, <1>7 DEF SentKeeps
  <2>2. DOMAIN g = 1..n /\ n \in Nat
    BY <1>3, SeqIs DEF SentFits
  <2> HIDE DEF n
  <2>3. UserSaid(g[n], f[n])
    BY <1>1, <2>1 DEF Turned, ItemsFit
  <2> DEFINE l == Len(f[n])
  <2>4. l \in DOMAIN f[n] /\ f[n][l].who = "user" /\ IsSeq(f[n])
    BY <2>3 DEF UserSaid
  <2>5. DOMAIN f[n] = 1..l /\ l \in Nat
    BY <2>4, SeqIs
  <2> HIDE DEF l
  <2>6. PICK k \in DOMAIN q : src[k] = n /\ num[k] = l /\ q[k] = f[n][l]
    BY <1>4, <2>1, <2>4
  <2>7. ASSUME NEW x \in DOMAIN q PROVE ~(k < x)
    <3>1. src[x] \in DOMAIN g /\ num[x] \in DOMAIN f[src[x]]
      BY <1>1 DEF Flat, Turned
    <3>2. ~(n < src[x]) /\ ~(n = src[x] /\ l < num[x])
      BY <2>2, <2>5, <3>1
    <3> QED BY <1>2, <2>6, <3>2 DEF Worded
  <2>8. k = Len(q)
    <3>1. k \in 1..Len(q) /\ Len(q) \in DOMAIN q
      BY <1>3
    <3>2. ~(k < Len(q))
      BY <2>7, <3>1
    <3> QED BY <1>3, <3>1, <3>2
  <2> QED BY <2>4, <2>6, <2>8
<1>8. Last(messages) = messages[Len(messages)] /\ Last(q) = q[Len(q)]
  BY DEF Last
<1>9. \A j, k \in shown : j <= k => q[j].at <= q[k].at
  BY <1>6
<1>10. {i \in DOMAIN messages : Speaks(messages[i], m)} \subseteq {q[k].at : k \in shown}
  BY <1>5
<1> HIDE DEF shown
<1>11. messages # <<>> /\ Last(messages).role = "user" => Last(q).who = "user"
  BY <1>7, <1>8
<1> QED BY <1>9, <1>10, <1>11 DEF q, shown

-----------------------------------------------------------------------------
\* The messages of a session stay as the conversion needs them: a result follows its
\* call, and only messages of one model have calls with the same id.
THEOREM SessionsStayOrderly == SessionSpec => []MessagesInv
<1>1. SessionInit => MessagesInv
  BY InitOrderly
<1>2. MessagesInv /\ [SessionNext]_messages => MessagesInv'
  BY NextOrderly
<1> QED BY <1>1, <1>2, PTL DEF SessionSpec

\* Whatever models a session has gone through, the next request has each call
\* answered once and in its place, and no result, id or signature its API refuses.
THEOREM EveryRequestIsAnswered == SessionSpec => []EveryCallIsAnswered
<1>1. MessagesInv => EveryCallIsAnswered
  BY RequestsAnswered
<1> QED BY <1>1, SessionsStayOrderly, PTL

\* And it has what was said, in its order, with the user's last word at its end.
THEOREM NoRequestLosesText == SessionSpec => []NothingIsLost
<1>1. MessagesInv => NothingIsLost
  BY RequestsComplete
<1> QED BY <1>1, SessionsStayOrderly, PTL

==============================================================================
