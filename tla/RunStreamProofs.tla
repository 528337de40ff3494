-------------------------- MODULE RunStreamProofs --------------------------
(***************************************************************************)
(* What holds of the stream of an answer, for any number of turns, blocks, *)
(* tokens, tool calls and failures: what clients received is a beginning   *)
(* of the run, the validator refuses nothing of what was published but     *)
(* the two things StreamIsBracketed names, and the parts of the final edit *)
(* say all the provider said, once and in order.                           *)
(*                                                                         *)
(* The model says what the validator sees, what an ending closes and what  *)
(* is written in one go by folds.  A fold is a link of a chain (FoldExists *)
(* and the lemmas after it), so that what it does is known one element at  *)
(* a time.  Then every operation of the writer is shown to leave a run     *)
(* that Follows the one it was given, or Ends it, and every action of the  *)
(* model a state in which IInv holds.                                      *)
(*                                                                         *)
(* The parts come last.  The projection is a fold too, and an event says a *)
(* token in the slot of its kind or is Quiet; so an operation of the       *)
(* writer Voices a token or is Calm.  What keeps a block's deltas in its   *)
(* part is that the parts in progress are of messages the writer has open  *)
(* (Held), and of the blocks that are open (Owned): PartsInv.              *)
(***************************************************************************)
EXTENDS RunStream, FiniteSetTheorems, SequenceTheorems, WellFoundedInduction, TLAPS

\* A set of numbers that is not empty has a least one: induction by the first counterexample
LEMMA LeastNumber ==
    ASSUME NEW S, S \subseteq Nat, S # {}
    PROVE  \E i \in S : \A j \in S : ~(j < i)
<1>1. IsWellFoundedOn(OpToRel(<, Nat), Nat)
  BY NatLessThanWellFounded
<1>2. PICK i \in S : \A j \in S : <<j, i>> \notin OpToRel(<, Nat)
  BY <1>1, WFMin
<1>3. \A j \in S : ~(j < i)
  BY <1>2 DEF OpToRel
<1> QED BY <1>2, <1>3

-----------------------------------------------------------------------------
(* Sequences of anything, and what begins with what. *)

IsSeq(s) == s \in Seq({s[i] : i \in DOMAIN s})

\* A sequence and its domain
LEMMA SeqIs ==
    ASSUME NEW s, IsSeq(s)
    PROVE  Len(s) \in Nat /\ DOMAIN s = 1..Len(s)
BY LenProperties DEF IsSeq

\* What appending makes of a sequence
LEMMA AppendIs ==
    ASSUME NEW s, IsSeq(s), NEW e
    PROVE  /\ IsSeq(Append(s, e))
           /\ Len(Append(s, e)) = Len(s) + 1
           /\ DOMAIN Append(s, e) = 1..(Len(s) + 1)
           /\ \A i \in 1..Len(s) : Append(s, e)[i] = s[i]
           /\ Append(s, e)[Len(s) + 1] = e
<1> DEFINE A == {s[i] : i \in DOMAIN s} \cup {e}
<1>1. Len(s) \in Nat /\ DOMAIN s = 1..Len(s)
  BY SeqIs
<1>2. s \in Seq(A) /\ e \in A
  BY SeqMonotonic DEF IsSeq
<1>3. /\ Append(s, e) \in Seq(A)
      /\ Len(Append(s, e)) = Len(s) + 1
      /\ \A i \in 1..Len(s) : Append(s, e)[i] = s[i]
      /\ Append(s, e)[Len(s) + 1] = e
  <2> HIDE DEF A
  <2> QED BY <1>2, AppendProperties
<1>4. DOMAIN Append(s, e) = 1..(Len(s) + 1)
  BY <1>3, LenProperties
<1>5. \A a \in A : \E i \in DOMAIN Append(s, e) : Append(s, e)[i] = a
  <2>1. ASSUME NEW i \in DOMAIN s PROVE \E j \in DOMAIN Append(s, e) : Append(s, e)[j] = s[i]
    BY <1>1, <1>3, <1>4
  <2>2. \E j \in DOMAIN Append(s, e) : Append(s, e)[j] = e
    BY <1>1, <1>3, <1>4
  <2> QED BY <2>1, <2>2
<1>6. IsSeq(Append(s, e))
  <2>1. A \subseteq {Append(s, e)[i] : i \in DOMAIN Append(s, e)}
    <3> HIDE DEF A
    <3> QED BY <1>5
  <2> HIDE DEF A
  <2> QED BY <1>3, <2>1, SeqMonotonic DEF IsSeq
<1> HIDE DEF A
<1> QED BY <1>3, <1>4, <1>6

\* t goes on where s ends
Begins(s, t) ==
  IsSeq(s) /\ IsSeq(t) /\ Len(s) <= Len(t) /\ \A i \in 1..Len(s) : t[i] = s[i]

\* Begins is an order
LEMMA BeginsItself ==
    ASSUME NEW s, IsSeq(s)
    PROVE  Begins(s, s)
BY SeqIs DEF Begins

\* What is appended to goes on where it ended
LEMMA BeginsAppend ==
    ASSUME NEW s, IsSeq(s), NEW e
    PROVE  Begins(s, Append(s, e))
BY SeqIs, AppendIs DEF Begins

\* What goes on with what goes on with s goes on with s
LEMMA BeginsTransitively ==
    ASSUME NEW s, NEW t, NEW u, Begins(s, t), Begins(t, u)
    PROVE  Begins(s, u)
<1>1. Len(s) \in Nat /\ Len(t) \in Nat /\ Len(u) \in Nat
  BY SeqIs DEF Begins
<1> QED BY <1>1 DEF Begins

-----------------------------------------------------------------------------
(* Folds.  What the folds of the model apply, by the name of the operator  *)
(* and what it is given besides.                                           *)

\* What a fold applies
Validating      == <<"validate">>
ClosingText     == <<"text">>
ClosingThought  == <<"reasoning">>
Saying(index)   == <<"delta", index>>
Output(states)  == <<"output", states>>
Parting         == <<"part">>
Requesting      == <<"request">>
Telling(kind)   == <<"said", kind>>
Filtering       == <<"filter">>

Applied(k, t, x) ==
  CASE k[1] = "validate"  -> Validated(t, x)
    [] k[1] = "text"      -> CloseText(t, x)
    [] k[1] = "reasoning" -> CloseReasoning(t, x)
    [] k[1] = "delta"     -> ReasoningDelta(t, k[2], x)
    [] k[1] = "output"    -> ToolEnd(t, x, k[2][x])
    [] k[1] = "part"      -> PartOf(t, x)
    [] k[1] = "request"   -> SetTool(t, x, "approval-requested", "none")
    [] k[1] = "said"      -> IF x.kind = k[2] THEN t \o x.content ELSE t
    [] k[1] = "filter"    -> IF x.kind = "thinking" /\ x.content = <<>> THEN t ELSE Append(t, x)

\* The function a fold is computed by
Folds(k, base, q, n, it) ==
  it = [S \in SUBSET (1..n) |-> IF S = {} THEN base
                                ELSE Applied(k, it[S \ {Max(S)}], q[Max(S)])]

\* The index a fold over 1..n takes off first is n
LEMMA MaxOfUpTo ==
    ASSUME NEW n \in Nat, NEW S \in SUBSET (1..n), n \in S
    PROVE  Max(S) = n
<1>1. \E x \in S : \A y \in S : x >= y
  OBVIOUS
<1>2. Max(S) \in S /\ \A y \in S : Max(S) >= y
  BY <1>1 DEF Max
<1>3. Max(S) \in 1..n /\ Max(S) >= n
  BY <1>2
<1> QED BY <1>3

\* The function of a fold over n - 1 elements extends to one over n
LEMMA FoldStep ==
    ASSUME NEW k, NEW base, NEW q, NEW n \in Nat, n > 0, NEW g, Folds(k, base, q, n - 1, g)
    PROVE  \E it : Folds(k, base, q, n, it)
<1> DEFINE w == [S \in SUBSET (1..n) |-> IF n \in S THEN Applied(k, g[S \ {n}], q[n]) ELSE g[S]]
<1>0. n - 1 \in Nat /\ \A S \in SUBSET (1..n) : n \notin S => S \in SUBSET (1..(n - 1))
  OBVIOUS
<1>g. \A S \in SUBSET (1..(n - 1)) :
        g[S] = IF S = {} THEN base ELSE Applied(k, g[S \ {Max(S)}], q[Max(S)])
  <2>1. g = [S \in SUBSET (1..(n - 1)) |-> IF S = {} THEN base
                                ELSE Applied(k, g[S \ {Max(S)}], q[Max(S)])]
    BY DEF Folds
  <2> QED BY <2>1, Zenon
<1>1. \A S \in SUBSET (1..n) :
        w[S] = IF S = {} THEN base ELSE Applied(k, w[S \ {Max(S)}], q[Max(S)])
  <2> SUFFICES ASSUME NEW S \in SUBSET (1..n)
               PROVE  w[S] = IF S = {} THEN base ELSE Applied(k, w[S \ {Max(S)}], q[Max(S)])
    OBVIOUS
  <2>1. CASE n \in S
    <3>1. Max(S) = n
      BY <2>1, MaxOfUpTo
    <3>2. S \ {n} \in SUBSET (1..n) /\ n \notin S \ {n}
      OBVIOUS
    <3>3. w[S \ {n}] = g[S \ {n}]
      BY <3>2
    <3>4. w[S] = Applied(k, g[S \ {n}], q[n])
      BY <2>1
    <3> HIDE DEF w
    <3> QED BY <2>1, <3>1, <3>3, <3>4
  <2>2. CASE n \notin S
    <3>1. S \in SUBSET (1..(n - 1))
      BY <2>2
    <3>2. w[S] = g[S]
      BY <2>2
    <3>3. S \ {Max(S)} \in SUBSET (1..n) /\ n \notin S \ {Max(S)}
      BY <2>2
    <3>4. w[S \ {Max(S)}] = g[S \ {Max(S)}]
      BY <3>3
    <3> HIDE DEF w
    <3> QED BY <1>g, <3>1, <3>2, <3>4
  <2> QED BY <2>1, <2>2
<1>2. Folds(k, base, q, n, w)
  <2>1. w = [S \in SUBSET (1..n) |-> w[S]]
    OBVIOUS
  <2> HIDE DEF w
  <2>2. [S \in SUBSET (1..n) |-> w[S]]
         = [S \in SUBSET (1..n) |-> IF S = {} THEN base
                                    ELSE Applied(k, w[S \ {Max(S)}], q[Max(S)])]
    BY <1>1, Zenon
  <2> QED BY <2>1, <2>2, Zenon DEF Folds
<1> HIDE DEF w
<1> QED BY <1>2

\* So a fold of any length has its function, which CHOOSE then finds
LEMMA FoldExists ==
    ASSUME NEW k, NEW base, NEW q, NEW n \in Nat
    PROVE  \E it : Folds(k, base, q, n, it)
<1> DEFINE B == {m \in Nat : ~\E it : Folds(k, base, q, m, it)}
<1>1. SUFFICES B = {}
  OBVIOUS
<1>2. CASE B # {}
  <2>1. PICK m \in B : \A j \in B : ~(j < m)
    <3>1. B \subseteq Nat
      OBVIOUS
    <3> HIDE DEF B
    <3> QED BY <1>2, <3>1, LeastNumber
  <2>2. CASE m = 0
    <3> DEFINE it == [S \in SUBSET (1..0) |-> base]
    <3>1. \A S \in SUBSET (1..0) : S = {}
      OBVIOUS
    <3>2. it = [S \in SUBSET (1..0) |-> IF S = {} THEN base
                                ELSE Applied(k, it[S \ {Max(S)}], q[Max(S)])]
      BY <3>1
    <3> HIDE DEF it
    <3>3. Folds(k, base, q, 0, it)
      BY <3>2 DEF Folds
    <3> QED BY <2>1, <2>2, <3>3
  <2>3. CASE m # 0
    <3>1. m > 0 /\ m \in Nat /\ m - 1 \in Nat /\ m - 1 \notin B
      BY <2>1, <2>3
    <3>2. PICK g : Folds(k, base, q, m - 1, g)
      BY <3>1
    <3> QED BY <2>1, <3>1, <3>2, FoldStep
  <2> QED BY <2>2, <2>3
<1> QED BY <1>2

\* What a fold has made of the first m elements, for every m up to n
Chain(k, base, q, n, h) ==
  h[0] = base /\ \A m \in 1..n : h[m] = Applied(k, h[m - 1], q[m])

\* The function of a fold, at 1..m for every m, is a chain
LEMMA FoldIsAChain ==
    ASSUME NEW k, NEW base, NEW q, NEW n \in Nat, NEW it, Folds(k, base, q, n, it)
    PROVE  \E h : Chain(k, base, q, n, h) /\ h[n] = it[1..n]
<1> DEFINE h == [m \in 0..n |-> it[1..m]]
<1>1. \A S \in SUBSET (1..n) :
        it[S] = IF S = {} THEN base ELSE Applied(k, it[S \ {Max(S)}], q[Max(S)])
  <2>1. it = [S \in SUBSET (1..n) |-> IF S = {} THEN base
                                ELSE Applied(k, it[S \ {Max(S)}], q[Max(S)])]
    BY DEF Folds
  <2> QED BY <2>1, Zenon
<1>2. h[0] = base
  <2>1. 1..0 = {} /\ {} \in SUBSET (1..n) /\ 0 \in 0..n
    OBVIOUS
  <2> QED BY <1>1, <2>1
<1>3. ASSUME NEW m \in 1..n PROVE h[m] = Applied(k, h[m - 1], q[m])
  <2>1. 1..m \in SUBSET (1..n) /\ 1..m # {} /\ m \in 1..m /\ m \in Nat
    OBVIOUS
  <2>2. 1..m \in SUBSET (1..m)
    OBVIOUS
  <2>3. Max(1..m) = m
    BY <2>1, <2>2, MaxOfUpTo
  <2>4. (1..m) \ {m} = 1..(m - 1)
    OBVIOUS
  <2>5. h[m] = it[1..m] /\ h[m - 1] = it[1..(m - 1)]
    BY <2>1
  <2> HIDE DEF h
  <2> QED BY <1>1, <2>1, <2>3, <2>4, <2>5
<1>4. h[n] = it[1..n]
  OBVIOUS
<1> HIDE DEF h
<1> QED BY <1>2, <1>3, <1>4 DEF Chain

\* Each fold of the model is the last of its chain
LEMMA ValidateChain ==
    ASSUME NEW base, NEW q, NEW n \in Nat, DOMAIN q = 1..n
    PROVE  \E h : /\ Chain(Validating, base, q, n, h)
                  /\ FoldLeft(Validated, base, q) = h[n]
<1> DEFINE Step(t, x) == Validated(t, x)
           Fits(it) == it = [s \in SUBSET DOMAIN q |->
                               IF s = {} THEN base ELSE LET x == Max(s) IN Step(it[s \ {x}], q[x])]
           folded == FoldLeft(Validated, base, q)
<1>1. PICK g : Folds(Validating, base, q, n, g)
  BY FoldExists
<1>2. \A t, x : Applied(Validating, t, x) = Step(t, x)
  BY DEF Applied, Validating
<1>3. folded = (CHOOSE it : Fits(it))[DOMAIN q]
  BY DEF FoldLeft, MapThenFoldSet
<1> HIDE DEF Step, folded
<1>4. \A it : Fits(it) <=> Folds(Validating, base, q, n, it)
  BY <1>2 DEF Folds
<1> HIDE DEF Fits
<1>5. Fits(CHOOSE it : Fits(it))
  BY <1>1, <1>4, Zenon
<1>6. PICK it : Folds(Validating, base, q, n, it) /\ folded = it[1..n]
  BY <1>3, <1>4, <1>5
<1>7. \E h : Chain(Validating, base, q, n, h) /\ folded = h[n]
  <2>1. PICK h : Chain(Validating, base, q, n, h) /\ h[n] = it[1..n]
    BY <1>6, FoldIsAChain
  <2> QED BY <1>6, <2>1
<1> QED BY <1>7, Zenon DEF folded

\* ... of the text messages closed at the end of a turn
LEMMA CloseTextChain ==
    ASSUME NEW base, NEW q, NEW n \in Nat, DOMAIN q = 1..n
    PROVE  \E h : /\ Chain(ClosingText, base, q, n, h)
                  /\ FoldLeft(CloseText, base, q) = h[n]
<1> DEFINE Step(t, x) == CloseText(t, x)
           Fits(it) == it = [s \in SUBSET DOMAIN q |->
                               IF s = {} THEN base ELSE LET x == Max(s) IN Step(it[s \ {x}], q[x])]
           folded == FoldLeft(CloseText, base, q)
<1>1. PICK g : Folds(ClosingText, base, q, n, g)
  BY FoldExists
<1>2. \A t, x : Applied(ClosingText, t, x) = Step(t, x)
  BY DEF Applied, ClosingText
<1>3. folded = (CHOOSE it : Fits(it))[DOMAIN q]
  BY DEF FoldLeft, MapThenFoldSet
<1> HIDE DEF Step, folded
<1>4. \A it : Fits(it) <=> Folds(ClosingText, base, q, n, it)
  BY <1>2 DEF Folds
<1> HIDE DEF Fits
<1>5. Fits(CHOOSE it : Fits(it))
  BY <1>1, <1>4, Zenon
<1>6. PICK it : Folds(ClosingText, base, q, n, it) /\ folded = it[1..n]
  BY <1>3, <1>4, <1>5
<1>7. \E h : Chain(ClosingText, base, q, n, h) /\ folded = h[n]
  <2>1. PICK h : Chain(ClosingText, base, q, n, h) /\ h[n] = it[1..n]
    BY <1>6, FoldIsAChain
  <2> QED BY <1>6, <2>1
<1> QED BY <1>7, Zenon DEF folded

\* ... of the reasoning messages closed there
LEMMA CloseReasoningChain ==
    ASSUME NEW base, NEW q, NEW n \in Nat, DOMAIN q = 1..n
    PROVE  \E h : /\ Chain(ClosingThought, base, q, n, h)
                  /\ FoldLeft(CloseReasoning, base, q) = h[n]
<1> DEFINE Step(t, x) == CloseReasoning(t, x)
           Fits(it) == it = [s \in SUBSET DOMAIN q |->
                               IF s = {} THEN base ELSE LET x == Max(s) IN Step(it[s \ {x}], q[x])]
           folded == FoldLeft(CloseReasoning, base, q)
<1>1. PICK g : Folds(ClosingThought, base, q, n, g)
  BY FoldExists
<1>2. \A t, x : Applied(ClosingThought, t, x) = Step(t, x)
  BY DEF Applied, ClosingThought
<1>3. folded = (CHOOSE it : Fits(it))[DOMAIN q]
  BY DEF FoldLeft, MapThenFoldSet
<1> HIDE DEF Step, folded
<1>4. \A it : Fits(it) <=> Folds(ClosingThought, base, q, n, it)
  BY <1>2 DEF Folds
<1> HIDE DEF Fits
<1>5. Fits(CHOOSE it : Fits(it))
  BY <1>1, <1>4, Zenon
<1>6. PICK it : Folds(ClosingThought, base, q, n, it) /\ folded = it[1..n]
  BY <1>3, <1>4, <1>5
<1>7. \E h : Chain(ClosingThought, base, q, n, h) /\ folded = h[n]
  <2>1. PICK h : Chain(ClosingThought, base, q, n, h) /\ h[n] = it[1..n]
    BY <1>6, FoldIsAChain
  <2> QED BY <1>6, <2>1
<1> QED BY <1>7, Zenon DEF folded

SayAll(base, index, q) == FoldLeft(LAMBDA t, token : ReasoningDelta(t, index, token), base, q)

\* ... of the deltas a snapshot of the content adds
LEMMA DeltaChain ==
    ASSUME NEW index, NEW base, NEW q, NEW n \in Nat, DOMAIN q = 1..n
    PROVE  \E h : /\ Chain(Saying(index), base, q, n, h)
                  /\ SayAll(base, index, q) = h[n]
<1> DEFINE Step(t, x) == ReasoningDelta(t, index, x)
           Fits(it) == it = [s \in SUBSET DOMAIN q |->
                               IF s = {} THEN base ELSE LET x == Max(s) IN Step(it[s \ {x}], q[x])]
           folded == SayAll(base, index, q)
<1>1. PICK g : Folds(Saying(index), base, q, n, g)
  BY FoldExists
<1>2. \A t, x : Applied(Saying(index), t, x) = Step(t, x)
  BY DEF Applied, Saying
<1>3. folded = (CHOOSE it : Fits(it))[DOMAIN q]
  BY DEF SayAll, FoldLeft, MapThenFoldSet
<1> HIDE DEF Step, folded
<1>4. \A it : Fits(it) <=> Folds(Saying(index), base, q, n, it)
  BY <1>2 DEF Folds
<1> HIDE DEF Fits
<1>5. Fits(CHOOSE it : Fits(it))
  BY <1>1, <1>4, Zenon
<1>6. PICK it : Folds(Saying(index), base, q, n, it) /\ folded = it[1..n]
  BY <1>3, <1>4, <1>5
<1>7. \E h : Chain(Saying(index), base, q, n, h) /\ folded = h[n]
  <2>1. PICK h : Chain(Saying(index), base, q, n, h) /\ h[n] = it[1..n]
    BY <1>6, FoldIsAChain
  <2> QED BY <1>6, <2>1
<1> QED BY <1>7, Zenon DEF folded

PutAll(base, states, q) == FoldLeft(LAMBDA t, c : ToolEnd(t, c, states[c]), base, q)

\* ... of the tool outputs the final edit writes
LEMMA OutputChain ==
    ASSUME NEW states, NEW base, NEW q, NEW n \in Nat, DOMAIN q = 1..n
    PROVE  \E h : /\ Chain(Output(states), base, q, n, h)
                  /\ PutAll(base, states, q) = h[n]
<1> DEFINE Step(t, x) == ToolEnd(t, x, states[x])
           Fits(it) == it = [s \in SUBSET DOMAIN q |->
                               IF s = {} THEN base ELSE LET x == Max(s) IN Step(it[s \ {x}], q[x])]
           folded == PutAll(base, states, q)
<1>1. PICK g : Folds(Output(states), base, q, n, g)
  BY FoldExists
<1>2. \A t, x : Applied(Output(states), t, x) = Step(t, x)
  BY DEF Applied, Output
<1>3. folded = (CHOOSE it : Fits(it))[DOMAIN q]
  BY DEF PutAll, FoldLeft, MapThenFoldSet
<1> HIDE DEF Step, folded
<1>4. \A it : Fits(it) <=> Folds(Output(states), base, q, n, it)
  BY <1>2 DEF Folds
<1> HIDE DEF Fits
<1>5. Fits(CHOOSE it : Fits(it))
  BY <1>1, <1>4, Zenon
<1>6. PICK it : Folds(Output(states), base, q, n, it) /\ folded = it[1..n]
  BY <1>3, <1>4, <1>5
<1>7. \E h : Chain(Output(states), base, q, n, h) /\ folded = h[n]
  <2>1. PICK h : Chain(Output(states), base, q, n, h) /\ h[n] = it[1..n]
    BY <1>6, FoldIsAChain
  <2> QED BY <1>6, <2>1
<1> QED BY <1>7, Zenon DEF folded

\* ... of the parts the events of a run make
LEMMA PartChain ==
    ASSUME NEW base, NEW q, NEW n \in Nat, DOMAIN q = 1..n
    PROVE  \E h : /\ Chain(Parting, base, q, n, h)
                  /\ FoldLeft(PartOf, base, q) = h[n]
<1> DEFINE Step(t, x) == PartOf(t, x)
           Fits(it) == it = [s \in SUBSET DOMAIN q |->
                               IF s = {} THEN base ELSE LET x == Max(s) IN Step(it[s \ {x}], q[x])]
           folded == FoldLeft(PartOf, base, q)
<1>1. PICK g : Folds(Parting, base, q, n, g)
  BY FoldExists
<1>2. \A t, x : Applied(Parting, t, x) = Step(t, x)
  BY DEF Applied, Parting
<1>3. folded = (CHOOSE it : Fits(it))[DOMAIN q]
  BY DEF FoldLeft, MapThenFoldSet
<1> HIDE DEF Step, folded
<1>4. \A it : Fits(it) <=> Folds(Parting, base, q, n, it)
  BY <1>2 DEF Folds
<1> HIDE DEF Fits
<1>5. Fits(CHOOSE it : Fits(it))
  BY <1>1, <1>4, Zenon
<1>6. PICK it : Folds(Parting, base, q, n, it) /\ folded = it[1..n]
  BY <1>3, <1>4, <1>5
<1>7. \E h : Chain(Parting, base, q, n, h) /\ folded = h[n]
  <2>1. PICK h : Chain(Parting, base, q, n, h) /\ h[n] = it[1..n]
    BY <1>6, FoldIsAChain
  <2> QED BY <1>6, <2>1
<1> QED BY <1>7, Zenon DEF folded

RequestAll(base, q) ==
  FoldLeft(LAMBDA t, c : SetTool(t, c, "approval-requested", "none"), base, q)

\* ... of the tool parts an interrupt asks about
LEMMA RequestChain ==
    ASSUME NEW base, NEW q, NEW n \in Nat, DOMAIN q = 1..n
    PROVE  \E h : /\ Chain(Requesting, base, q, n, h)
                  /\ RequestAll(base, q) = h[n]
<1> DEFINE Step(t, x) == SetTool(t, x, "approval-requested", "none")
           Fits(it) == it = [s \in SUBSET DOMAIN q |->
                               IF s = {} THEN base ELSE LET x == Max(s) IN Step(it[s \ {x}], q[x])]
           folded == RequestAll(base, q)
<1>1. PICK g : Folds(Requesting, base, q, n, g)
  BY FoldExists
<1>2. \A t, x : Applied(Requesting, t, x) = Step(t, x)
  BY DEF Applied, Requesting
<1>3. folded = (CHOOSE it : Fits(it))[DOMAIN q]
  BY DEF RequestAll, FoldLeft, MapThenFoldSet
<1> HIDE DEF Step, folded
<1>4. \A it : Fits(it) <=> Folds(Requesting, base, q, n, it)
  BY <1>2 DEF Folds
<1> HIDE DEF Fits
<1>5. Fits(CHOOSE it : Fits(it))
  BY <1>1, <1>4, Zenon
<1>6. PICK it : Folds(Requesting, base, q, n, it) /\ folded = it[1..n]
  BY <1>3, <1>4, <1>5
<1>7. \E h : Chain(Requesting, base, q, n, h) /\ folded = h[n]
  <2>1. PICK h : Chain(Requesting, base, q, n, h) /\ h[n] = it[1..n]
    BY <1>6, FoldIsAChain
  <2> QED BY <1>6, <2>1
<1> QED BY <1>7, Zenon DEF folded

\* ... of what the parts of a kind say
LEMMA TellChain ==
    ASSUME NEW kind, NEW q, NEW n \in Nat, DOMAIN q = 1..n
    PROVE  \E h : /\ Chain(Telling(kind), <<>>, q, n, h)
                  /\ SaidBy(kind, q) = h[n]
<1> DEFINE Step(t, x) == IF x.kind = kind THEN t \o x.content ELSE t
           Fits(it) == it = [s \in SUBSET DOMAIN q |->
                               IF s = {} THEN <<>> ELSE LET x == Max(s) IN Step(it[s \ {x}], q[x])]
           folded == SaidBy(kind, q)
<1>1. PICK g : Folds(Telling(kind), <<>>, q, n, g)
  BY FoldExists
<1>2. \A t, x : Applied(Telling(kind), t, x) = Step(t, x)
  BY DEF Applied, Telling
<1>3. folded = (CHOOSE it : Fits(it))[DOMAIN q]
  BY DEF SaidBy, FoldLeft, MapThenFoldSet
<1> HIDE DEF Step, folded
<1>4. \A it : Fits(it) <=> Folds(Telling(kind), <<>>, q, n, it)
  BY <1>2 DEF Folds
<1> HIDE DEF Fits
<1>5. Fits(CHOOSE it : Fits(it))
  BY <1>1, <1>4, Zenon
<1>6. PICK it : Folds(Telling(kind), <<>>, q, n, it) /\ folded = it[1..n]
  BY <1>3, <1>4, <1>5
<1>7. \E h : Chain(Telling(kind), <<>>, q, n, h) /\ folded = h[n]
  <2>1. PICK h : Chain(Telling(kind), <<>>, q, n, h) /\ h[n] = it[1..n]
    BY <1>6, FoldIsAChain
  <2> QED BY <1>6, <2>1
<1> QED BY <1>7, Zenon DEF folded

\* ... of the parts that are kept
LEMMA FilterChain ==
    ASSUME NEW q, NEW n \in Nat, DOMAIN q = 1..n
    PROVE  \E h : /\ Chain(Filtering, <<>>, q, n, h)
                  /\ FilterFinalMessageParts(q) = h[n]
<1> DEFINE Step(t, x) == IF x.kind = "thinking" /\ x.content = <<>> THEN t ELSE Append(t, x)
           Fits(it) == it = [s \in SUBSET DOMAIN q |->
                               IF s = {} THEN <<>> ELSE LET x == Max(s) IN Step(it[s \ {x}], q[x])]
           folded == FilterFinalMessageParts(q)
<1>1. PICK g : Folds(Filtering, <<>>, q, n, g)
  BY FoldExists
<1>2. \A t, x : Applied(Filtering, t, x) = Step(t, x)
  BY DEF Applied, Filtering
<1>3. folded = (CHOOSE it : Fits(it))[DOMAIN q]
  BY DEF FilterFinalMessageParts, FoldLeft, MapThenFoldSet
<1> HIDE DEF Step, folded
<1>4. \A it : Fits(it) <=> Folds(Filtering, <<>>, q, n, it)
  BY <1>2 DEF Folds
<1> HIDE DEF Fits
<1>5. Fits(CHOOSE it : Fits(it))
  BY <1>1, <1>4, Zenon
<1>6. PICK it : Folds(Filtering, <<>>, q, n, it) /\ folded = it[1..n]
  BY <1>3, <1>4, <1>5
<1>7. \E h : Chain(Filtering, <<>>, q, n, h) /\ folded = h[n]
  <2>1. PICK h : Chain(Filtering, <<>>, q, n, h) /\ h[n] = it[1..n]
    BY <1>6, FoldIsAChain
  <2> QED BY <1>6, <2>1
<1> QED BY <1>7, Zenon DEF folded

\* Two chains over the same elements are the same
LEMMA ChainsAgree ==
    ASSUME NEW k, NEW base, NEW q, NEW r, NEW n \in Nat, NEW h, NEW g,
           Chain(k, base, q, n, h), Chain(k, base, r, n, g), \A i \in 1..n : q[i] = r[i]
    PROVE  \A m \in 0..n : h[m] = g[m]
<1> DEFINE B == {m \in 0..n : h[m] # g[m]}
<1>1. SUFFICES B = {}
  OBVIOUS
<1>2. CASE B # {}
  <2>1. PICK m \in B : \A j \in B : ~(j < m)
    <3>1. B \subseteq Nat
      OBVIOUS
    <3> HIDE DEF B
    <3> QED BY <1>2, <3>1, LeastNumber
  <2>2. m # 0
    BY <2>1 DEF Chain
  <2>3. m \in 1..n /\ m - 1 \in 0..n /\ m - 1 \notin B
    BY <2>1, <2>2
  <2>4. h[m - 1] = g[m - 1]
    BY <2>3
  <2>5. h[m] = Applied(k, h[m - 1], q[m]) /\ g[m] = Applied(k, g[m - 1], r[m]) /\ q[m] = r[m]
    BY <2>3 DEF Chain
  <2> QED BY <2>1, <2>4, <2>5
<1> QED BY <1>2

-----------------------------------------------------------------------------
(* The validator, one event at a time. *)

Unseen == [started |-> FALSE, terminal |-> FALSE, open |-> {}, tools |-> {},
           ended |-> {}, wrong |-> {}]

Validation(events) == FoldLeft(Validated, Unseen, events)

\* The complaints are one field of what the validator keeps
LEMMA ValidateIsValidation ==
    ASSUME NEW events
    PROVE  ValidateEventSequence(events) = Validation(events).wrong
BY DEF ValidateEventSequence, Validation, Unseen

\* Of no events it has seen nothing
LEMMA ValidationOfNone == Validation(<<>>) = Unseen
<1>1. DOMAIN <<>> = 1..0 /\ 0 \in Nat
  OBVIOUS
<1>2. PICK h : Chain(Validating, Unseen, <<>>, 0, h) /\ FoldLeft(Validated, Unseen, <<>>) = h[0]
  BY <1>1, ValidateChain
<1> QED BY <1>2 DEF Chain, Validation

\* The validator stops nowhere: what it says of a beginning is a link of the chain
LEMMA ValidationOfABeginning ==
    ASSUME NEW s, NEW t, Begins(s, t), NEW h, Chain(Validating, Unseen, t, Len(t), h)
    PROVE  Validation(s) = h[Len(s)]
<1>1. Len(s) \in Nat /\ DOMAIN s = 1..Len(s) /\ Len(t) \in Nat /\ Len(s) <= Len(t)
  BY SeqIs DEF Begins
<1>2. PICK g : Chain(Validating, Unseen, s, Len(s), g) /\ FoldLeft(Validated, Unseen, s) = g[Len(s)]
  BY <1>1, ValidateChain
<1>3. Chain(Validating, Unseen, t, Len(s), h) /\ \A i \in 1..Len(s) : s[i] = t[i]
  BY <1>1 DEF Chain, Begins
<1>4. g[Len(s)] = h[Len(s)]
  <2>1. Len(s) \in 0..Len(s)
    BY <1>1
  <2> QED BY <1>1, <1>2, <1>3, <2>1, ChainsAgree
<1> QED BY <1>2, <1>4 DEF Validation

\* It goes one event further when one is appended
LEMMA ValidationOfAppend ==
    ASSUME NEW s, IsSeq(s), NEW e
    PROVE  Validation(Append(s, e)) = Validated(Validation(s), e)
<1> DEFINE t == Append(s, e)
<1>1. Begins(s, t) /\ Len(t) = Len(s) + 1 /\ DOMAIN t = 1..Len(t) /\ t[Len(s) + 1] = e
      /\ IsSeq(t) /\ Len(s) \in Nat
  BY SeqIs, AppendIs, BeginsAppend
<1> HIDE DEF t
<1>2. PICK h : Chain(Validating, Unseen, t, Len(t), h) /\ FoldLeft(Validated, Unseen, t) = h[Len(t)]
  <2>1. Len(t) \in Nat
    BY <1>1
  <2> QED BY <1>1, <2>1, ValidateChain
<1>3. Validation(t) = h[Len(t)] /\ Validation(s) = h[Len(s)]
  BY <1>1, <1>2, ValidationOfABeginning DEF Validation
<1>4. h[Len(t)] = Applied(Validating, h[Len(s)], e)
  <2>1. Len(t) \in 1..Len(t) /\ Len(t) - 1 = Len(s)
    BY <1>1
  <2>2. h[Len(t)] = Applied(Validating, h[Len(t) - 1], t[Len(t)])
    BY <1>2, <2>1 DEF Chain
  <2> QED BY <1>1, <2>1, <2>2
<1>5. Applied(Validating, h[Len(s)], e) = Validated(h[Len(s)], e)
  BY DEF Applied, Validating
<1> QED BY <1>3, <1>4, <1>5 DEF t

\* A complaint is never taken back
LEMMA ComplaintsStay ==
    ASSUME NEW s, NEW t, Begins(s, t)
    PROVE  Validation(s).wrong \subseteq Validation(t).wrong
<1>1. Len(s) \in Nat /\ Len(t) \in Nat /\ Len(s) <= Len(t) /\ DOMAIN t = 1..Len(t) /\ IsSeq(t)
  BY SeqIs DEF Begins
<1>2. PICK h : Chain(Validating, Unseen, t, Len(t), h) /\ FoldLeft(Validated, Unseen, t) = h[Len(t)]
  BY <1>1, ValidateChain
<1>3. Validation(t) = h[Len(t)] /\ Validation(s) = h[Len(s)]
  BY <1>2, ValidationOfABeginning DEF Validation
<1>4. \A m \in 1..Len(t) : h[m - 1].wrong \subseteq h[m].wrong
  <2>1. ASSUME NEW m \in 1..Len(t) PROVE h[m - 1].wrong \subseteq h[m].wrong
    <3>1. h[m] = Applied(Validating, h[m - 1], t[m])
      BY <1>2 DEF Chain
    <3>2. Applied(Validating, h[m - 1], t[m]) = Validated(h[m - 1], t[m])
      BY DEF Applied, Validating
    <3>3. h[m].wrong = h[m - 1].wrong \cup Complaint(h[m - 1], t[m])
      BY <3>1, <3>2 DEF Validated
    <3> QED BY <3>3
  <2> QED BY <2>1
<1>5. h[Len(s)].wrong \subseteq h[Len(t)].wrong
  <2> DEFINE B == {m \in Len(s)..Len(t) : ~(h[Len(s)].wrong \subseteq h[m].wrong)}
  <2>1. SUFFICES B = {}
    BY <1>1
  <2>2. CASE B # {}
    <3>1. PICK m \in B : \A j \in B : ~(j < m)
      <4>1. B \subseteq Nat
        BY <1>1
      <4> HIDE DEF B
      <4> QED BY <2>2, <4>1, LeastNumber
    <3>2. m # Len(s)
      BY <3>1
    <3>3. m \in 1..Len(t) /\ m - 1 \in Len(s)..Len(t) /\ m - 1 \notin B
      BY <1>1, <3>1, <3>2
    <3>4. h[Len(s)].wrong \subseteq h[m - 1].wrong
      BY <3>3
    <3> QED BY <3>1, <3>3, <3>4, <1>4
  <2> QED BY <2>2
<1> QED BY <1>3, <1>5

-----------------------------------------------------------------------------
(* Numbers of messages. *)

\* The greatest of some message numbers, -1 if there is none
LEMMA MaxIs ==
    ASSUME NEW n \in Nat, NEW ids \in SUBSET (0..n)
    PROVE  /\ Max({-1} \cup ids) \in {-1} \cup ids
           /\ \A i \in ids : i <= Max({-1} \cup ids)
<1> DEFINE S == {-1} \cup ids
           D == {n - i : i \in S}
<1>1. D \subseteq Nat /\ D # {}
  OBVIOUS
<1>2. PICK d \in D : \A j \in D : ~(j < d)
  <2> HIDE DEF D
  <2> QED BY <1>1, LeastNumber
<1>3. PICK x \in S : d = n - x
  BY <1>2
<1>4. \A y \in S : x >= y
  <2>1. ASSUME NEW y \in S PROVE x >= y
    <3>1. ~(n - y < n - x)
      BY <1>2, <1>3
    <3> QED BY <3>1
  <2> QED BY <2>1
<1> HIDE DEF S
<1>5. Max(S) \in S /\ \A y \in S : Max(S) >= y
  BY <1>4, Zenon DEF Max
<1> QED BY <1>5 DEF S

\* Every open message is in the order in which they are closed
LEMMA AscendingIs ==
    ASSUME NEW n \in Nat, NEW ids \in SUBSET (0..n)
    PROVE  \E m \in Nat : /\ ids \subseteq 0..(m - 1)
                          /\ DOMAIN Ascending(ids) = 1..m
                          /\ \A i \in 1..m : Ascending(ids)[i] = i - 1
<1> DEFINE m == 1 + Max({-1} \cup ids)
<1>1. m \in Nat /\ ids \subseteq 0..(m - 1)
  <2> DEFINE x == Max({-1} \cup ids)
  <2>1. x \in {-1} \cup ids /\ \A i \in ids : i <= x
    BY MaxIs
  <2>2. m = 1 + x
    OBVIOUS
  <2> HIDE DEF x, m
  <2>3. x \in {-1} \cup (0..n)
    BY <2>1
  <2> QED BY <2>1, <2>2, <2>3
<1>2. Ascending(ids) = [i \in 1..m |-> i - 1]
  BY DEF Ascending
<1> HIDE DEF m
<1> QED BY <1>1, <1>2

\* The types whose events carry the number of a message
NumberedTypes == TextTypes \cup {"REASONING_MESSAGE_START", "REASONING_MESSAGE_CONTENT",
                                 "REASONING_MESSAGE_END"}

Numbered(events) ==
  \E n \in Nat : \A i \in DOMAIN events : events[i].type \in NumberedTypes => events[i].id \in 0..n

\* The first number a new writer takes is a number
LEMMA OrdinalIs ==
    ASSUME NEW events, Numbered(events), NEW types \in SUBSET NumberedTypes
    PROVE  NextOrdinal(events, types) \in Nat
<1> DEFINE ids == {events[i].id : i \in {j \in DOMAIN events : events[j].type \in types}}
<1>1. PICK n \in Nat : \A i \in DOMAIN events : events[i].type \in NumberedTypes => events[i].id \in 0..n
  BY DEF Numbered
<1>2. ids \in SUBSET (0..n)
  BY <1>1
<1>3. NextOrdinal(events, types) = 1 + Max({-1} \cup ids)
  BY DEF NextOrdinal
<1> HIDE DEF ids
<1>4. Max({-1} \cup ids) \in {-1} \cup ids
  BY <1>2, MaxIs
<1>5. Max({-1} \cup ids) \in {-1} \cup (0..n)
  BY <1>2, <1>4
<1> QED BY <1>3, <1>5

\* Events stay numbered when one more is
LEMMA NumberedAppend ==
    ASSUME NEW events, IsSeq(events), Numbered(events), NEW e, e.type \in NumberedTypes => e.id \in Nat
    PROVE  Numbered(Append(events, e))
<1>1. PICK n \in Nat : \A i \in DOMAIN events : events[i].type \in NumberedTypes => events[i].id \in 0..n
  BY DEF Numbered
<1>2. PICK k \in Nat : n <= k /\ (e.type \in NumberedTypes => e.id \in 0..k)
  <2>1. CASE e.type \in NumberedTypes
    <3>1. n <= n + e.id /\ e.id \in 0..(n + e.id) /\ n + e.id \in Nat
      BY <2>1
    <3> QED BY <3>1
  <2>2. CASE e.type \notin NumberedTypes
    BY <2>2
  <2> QED BY <2>1, <2>2
<1>3. \A i \in DOMAIN Append(events, e) :
        Append(events, e)[i].type \in NumberedTypes => Append(events, e)[i].id \in 0..k
  <2>1. ASSUME NEW i \in DOMAIN Append(events, e), Append(events, e)[i].type \in NumberedTypes
        PROVE  Append(events, e)[i].id \in 0..k
    <3>1. \/ i \in DOMAIN events /\ Append(events, e)[i] = events[i]
          \/ Append(events, e)[i] = e
      BY SeqIs, AppendIs
    <3> QED BY <1>1, <1>2, <2>1, <3>1
  <2> QED BY <2>1
<1> QED BY <1>3 DEF Numbered

-----------------------------------------------------------------------------
(* The writer. *)

Fields == {"events", "status", "interrupts", "approvals", "preview", "textOffset",
           "reasoningOffset", "current", "written", "textOpen", "reasoningOpen", "phaseOpen",
           "content"}

Contents(s) == \A i \in DOMAIN s.content : IsSeq(s.content[i])

Writer(s) ==
  /\ DOMAIN s = Fields
  /\ Contents(s)
  /\ IsSeq(s.events) /\ Numbered(s.events)
  /\ IsSeq(s.approvals)
  /\ s.textOffset \in Nat /\ s.reasoningOffset \in Nat /\ s.current \in Nat
  /\ \E n \in Nat : s.textOpen \subseteq 0..n
  /\ \E n \in Nat : s.reasoningOpen \subseteq 0..n
  /\ s.phaseOpen \in BOOLEAN

\* What the writer thinks it left open
Opened(s) ==
  {<<"text", id>> : id \in s.textOpen} \cup {<<"reasoning", id>> : id \in s.reasoningOpen}
    \cup {p \in {<<"phase", 0>>} : s.phaseOpen}

Sound(s) == Writer(s) /\ Validation(s.events).open = Opened(s)

\* What the validator may say of any event of a run: of one after the terminal
\* event, that it comes after it
Expected(v) == {c \in {"ended twice", "after terminal"} : c = "after terminal" => v.terminal}

\* t is s after some events that start the calls T and that the validator takes
Follows(s, t, T) ==
  /\ Sound(t)
  /\ Begins(s.events, t.events)
  /\ t.approvals = s.approvals
  /\ LET v == Validation(s.events)
         w == Validation(t.events)
     IN  /\ (w.started <=> v.started) /\ (w.terminal <=> v.terminal) /\ w.tools = v.tools \cup T
         /\ w.wrong \subseteq v.wrong \cup Expected(v)

\* A sound run follows itself
LEMMA FollowsItself ==
    ASSUME NEW s, Sound(s)
    PROVE  Follows(s, s, {})
BY BeginsItself DEF Follows, Sound, Writer

\* Operations in sequence: the calls each starts add up
LEMMA FollowsTransitively ==
    ASSUME NEW s, NEW t, NEW u, NEW S, NEW T, Follows(s, t, S), Follows(t, u, T)
    PROVE  Follows(s, u, S \cup T)
<1>1. Begins(s.events, u.events)
  BY BeginsTransitively DEF Follows
<1>2. Expected(Validation(t.events)) = Expected(Validation(s.events))
  BY DEF Follows, Expected
<1> QED BY <1>1, <1>2 DEF Follows

\* What adding an event does to the run and to the validator
LEMMA AddIs ==
    ASSUME NEW s, Writer(s), NEW e, e.type \in NumberedTypes => e.id \in Nat
    PROVE  LET t == Add(s, e)
           IN  /\ DOMAIN t = Fields /\ t.events = Append(s.events, e)
               /\ Writer(t) /\ Begins(s.events, t.events)
               /\ Validation(t.events) = Validated(Validation(s.events), e)
               /\ t.approvals = s.approvals /\ t.interrupts = s.interrupts /\ t.status = s.status
               /\ t.textOffset = s.textOffset /\ t.reasoningOffset = s.reasoningOffset
               /\ t.current = s.current /\ t.content = s.content
               /\ t.textOpen = s.textOpen /\ t.reasoningOpen = s.reasoningOpen
               /\ t.phaseOpen = s.phaseOpen
<1> DEFINE t == Add(s, e)
<1>1. /\ DOMAIN t = Fields /\ t.events = Append(s.events, e)
      /\ t.approvals = s.approvals /\ t.interrupts = s.interrupts /\ t.status = s.status
      /\ t.textOffset = s.textOffset /\ t.reasoningOffset = s.reasoningOffset
      /\ t.current = s.current /\ t.content = s.content
      /\ t.textOpen = s.textOpen /\ t.reasoningOpen = s.reasoningOpen
      /\ t.phaseOpen = s.phaseOpen
  BY DEF Add, Writer, Fields
<1>2. IsSeq(s.events) /\ Numbered(s.events)
  BY DEF Writer
<1>3. /\ IsSeq(Append(s.events, e)) /\ Numbered(Append(s.events, e))
      /\ Begins(s.events, Append(s.events, e))
      /\ Validation(Append(s.events, e)) = Validated(Validation(s.events), e)
  BY <1>2, AppendIs, NumberedAppend, BeginsAppend, ValidationOfAppend
<1> HIDE DEF t
<1>4. Writer(t)
  BY <1>1, <1>3 DEF Writer, Contents
<1>5. t = Add(s, e)
  BY DEF t
<1> QED BY <1>1, <1>3, <1>4, <1>5

\* What the validator sees open is what the writer has in its sets
LEMMA OpenedHas ==
    ASSUME NEW s, Sound(s)
    PROVE  LET v == Validation(s.events)
           IN  /\ \A id : <<"text", id>> \in v.open <=> id \in s.textOpen
               /\ \A id : <<"reasoning", id>> \in v.open <=> id \in s.reasoningOpen
               /\ <<"phase", 0>> \in v.open <=> s.phaseOpen
BY DEF Sound, Writer, Opened

\* An event the validator takes, and that neither starts nor ends the run nor starts a call
Taken(v, e) ==
  /\ Complaint(v, e) \subseteq Expected(v)
  /\ e.type \notin {"RUN_STARTED", "RUN_FINISHED", "RUN_ERROR", "TOOL_CALL_START"}

\* A writer that keeps its books after it added such an event is sound again
LEMMA TakenFollows ==
    ASSUME NEW s, Sound(s), NEW e, e.type \in NumberedTypes => e.id \in Nat,
           Taken(Validation(s.events), e), NEW t, Writer(t), t.events = Add(s, e).events,
           t.approvals = s.approvals, Validated(Validation(s.events), e).open = Opened(t)
    PROVE  Follows(s, t, {})
<1>1. /\ Validation(t.events) = Validated(Validation(s.events), e)
      /\ Begins(s.events, t.events)
  BY AddIs DEF Sound
<1> DEFINE v == Validation(s.events)
           w == Validated(v, e)
<1>2. /\ w.started <=> v.started \/ e.type = "RUN_STARTED"
      /\ w.terminal <=> v.terminal \/ e.type \in {"RUN_FINISHED", "RUN_ERROR"}
      /\ w.tools = IF e.type = "TOOL_CALL_START" THEN v.tools \cup {e.id} ELSE v.tools
      /\ w.wrong = v.wrong \cup Complaint(v, e)
  BY DEF Validated
<1>3. (w.started <=> v.started) /\ (w.terminal <=> v.terminal) /\ w.tools = v.tools \cup {}
  BY <1>2 DEF Taken
<1>4. w.wrong \subseteq v.wrong \cup Expected(v)
  BY <1>2 DEF Taken
<1> HIDE DEF w
<1> QED BY <1>1, <1>3, <1>4 DEF Follows, Sound, w

\* The events the validator takes, and what they open and close
LEMMA TextEvents ==
    ASSUME NEW v, NEW id, NEW x
    PROVE  /\ <<"text", id>> \notin v.open => Taken(v, Ev("TEXT_MESSAGE_START", id, x))
           /\ <<"text", id>> \in v.open => Taken(v, Ev("TEXT_MESSAGE_CONTENT", id, x))
           /\ <<"text", id>> \in v.open => Taken(v, Ev("TEXT_MESSAGE_END", id, x))
           /\ Validated(v, Ev("TEXT_MESSAGE_START", id, x)).open = v.open \cup {<<"text", id>>}
           /\ Validated(v, Ev("TEXT_MESSAGE_CONTENT", id, x)).open = v.open
           /\ Validated(v, Ev("TEXT_MESSAGE_END", id, x)).open = v.open \ {<<"text", id>>}
<1>1. <<"text", id>> \notin v.open => Taken(v, Ev("TEXT_MESSAGE_START", id, x))
  BY DEF Taken, Complaint, Expected, Ev, ToolTypes
<1>2. <<"text", id>> \in v.open => Taken(v, Ev("TEXT_MESSAGE_CONTENT", id, x))
  BY DEF Taken, Complaint, Expected, Ev, ToolTypes
<1>3. <<"text", id>> \in v.open => Taken(v, Ev("TEXT_MESSAGE_END", id, x))
  BY DEF Taken, Complaint, Expected, Ev, ToolTypes
<1>4. Validated(v, Ev("TEXT_MESSAGE_START", id, x)).open = v.open \cup {<<"text", id>>}
  BY DEF Validated, Ev
<1>5. Validated(v, Ev("TEXT_MESSAGE_CONTENT", id, x)).open = v.open
  BY DEF Validated, Ev
<1>6. Validated(v, Ev("TEXT_MESSAGE_END", id, x)).open = v.open \ {<<"text", id>>}
  BY DEF Validated, Ev
<1> QED BY <1>1, <1>2, <1>3, <1>4, <1>5, <1>6

\* ... of reasoning messages
LEMMA ReasoningEvents ==
    ASSUME NEW v, NEW id, NEW x
    PROVE  /\ <<"reasoning", id>> \notin v.open => Taken(v, Ev("REASONING_MESSAGE_START", id, x))
           /\ <<"reasoning", id>> \in v.open => Taken(v, Ev("REASONING_MESSAGE_CONTENT", id, x))
           /\ <<"reasoning", id>> \in v.open => Taken(v, Ev("REASONING_MESSAGE_END", id, x))
           /\ Validated(v, Ev("REASONING_MESSAGE_START", id, x)).open = v.open \cup {<<"reasoning", id>>}
           /\ Validated(v, Ev("REASONING_MESSAGE_CONTENT", id, x)).open = v.open
           /\ Validated(v, Ev("REASONING_MESSAGE_END", id, x)).open = v.open \ {<<"reasoning", id>>}
<1>1. <<"reasoning", id>> \notin v.open => Taken(v, Ev("REASONING_MESSAGE_START", id, x))
  BY DEF Taken, Complaint, Expected, Ev, ToolTypes
<1>2. <<"reasoning", id>> \in v.open => Taken(v, Ev("REASONING_MESSAGE_CONTENT", id, x))
  BY DEF Taken, Complaint, Expected, Ev, ToolTypes
<1>3. <<"reasoning", id>> \in v.open => Taken(v, Ev("REASONING_MESSAGE_END", id, x))
  BY DEF Taken, Complaint, Expected, Ev, ToolTypes
<1>4. Validated(v, Ev("REASONING_MESSAGE_START", id, x)).open = v.open \cup {<<"reasoning", id>>}
  BY DEF Validated, Ev
<1>5. Validated(v, Ev("REASONING_MESSAGE_CONTENT", id, x)).open = v.open
  BY DEF Validated, Ev
<1>6. Validated(v, Ev("REASONING_MESSAGE_END", id, x)).open = v.open \ {<<"reasoning", id>>}
  BY DEF Validated, Ev
<1> QED BY <1>1, <1>2, <1>3, <1>4, <1>5, <1>6

\* ... of the reasoning phase
LEMMA PhaseEvents ==
    ASSUME NEW v
    PROVE  /\ <<"phase", 0>> \notin v.open => Taken(v, Ev("REASONING_START", 0, 0))
           /\ <<"phase", 0>> \in v.open => Taken(v, Ev("REASONING_END", 0, 0))
           /\ Validated(v, Ev("REASONING_START", 0, 0)).open = v.open \cup {<<"phase", 0>>}
           /\ Validated(v, Ev("REASONING_END", 0, 0)).open = v.open \ {<<"phase", 0>>}
<1>1. <<"phase", 0>> \notin v.open => Taken(v, Ev("REASONING_START", 0, 0))
  BY DEF Taken, Complaint, Expected, Ev, ToolTypes
<1>2. <<"phase", 0>> \in v.open => Taken(v, Ev("REASONING_END", 0, 0))
  BY DEF Taken, Complaint, Expected, Ev, ToolTypes
<1>3. Validated(v, Ev("REASONING_START", 0, 0)).open = v.open \cup {<<"phase", 0>>}
  BY DEF Validated, Ev
<1>4. Validated(v, Ev("REASONING_END", 0, 0)).open = v.open \ {<<"phase", 0>>}
  BY DEF Validated, Ev
<1> QED BY <1>1, <1>2, <1>3, <1>4

\* ... that neither open nor close
LEMMA NeutralEvents ==
    ASSUME NEW v, NEW e, e.type \in NeutralTypes
    PROVE  Taken(v, e) /\ Validated(v, e).open = v.open
<1>1. Taken(v, e)
  BY DEF Taken, Complaint, Expected, ToolTypes, NeutralTypes
<1>2. Validated(v, e).open = v.open
  BY DEF Validated, NeutralTypes
<1> QED BY <1>1, <1>2

\* ... of tool calls that were started
LEMMA CallEvents ==
    ASSUME NEW v, NEW e, e.type \in ToolTypes \ {"TOOL_CALL_START"}, e.id \in v.tools
    PROVE  Taken(v, e) /\ Validated(v, e).open = v.open
<1>1. e.type \in {"TOOL_CALL_ARGS", "TOOL_CALL_END", "TOOL_CALL_RESULT"}
  BY DEF ToolTypes
<1>2. Taken(v, e)
  BY <1>1 DEF Taken, Complaint, Expected, ToolTypes
<1>3. Validated(v, e).open = v.open
  BY <1>1 DEF Validated
<1> QED BY <1>2, <1>3

\* Opening a text message, or finding it open
LEMMA OpenTextIs ==
    ASSUME NEW s, Sound(s), NEW id \in Nat
    PROVE  LET t == OpenText(s, id)
           IN  /\ Follows(s, t, {})
               /\ t.textOpen = s.textOpen \cup {id} /\ t.current = s.current
<1>1. CASE id \in s.textOpen
  BY <1>1, FollowsItself DEF OpenText
<1>2. CASE id \notin s.textOpen
  <2> DEFINE e == Ev("TEXT_MESSAGE_START", id, 0)
             t == OpenText(s, id)
             v == Validation(s.events)
  <2>1. /\ t = [Add(s, e) EXCEPT !.textOpen = @ \cup {id}]
        /\ e.id \in Nat
    BY <1>2 DEF OpenText, Ev
  <2> HIDE DEF e, t
  <2>2. /\ DOMAIN Add(s, e) = Fields /\ Writer(Add(s, e))
        /\ Add(s, e).textOpen = s.textOpen /\ Add(s, e).reasoningOpen = s.reasoningOpen
        /\ Add(s, e).phaseOpen = s.phaseOpen /\ Add(s, e).approvals = s.approvals
        /\ Add(s, e).current = s.current
    BY <2>1, AddIs DEF Sound
  <2>3. /\ DOMAIN t = Fields /\ t.events = Add(s, e).events /\ t.textOpen = s.textOpen \cup {id}
        /\ t.reasoningOpen = s.reasoningOpen /\ t.phaseOpen = s.phaseOpen
        /\ t.approvals = s.approvals /\ t.current = s.current
        /\ t.textOffset = Add(s, e).textOffset /\ t.reasoningOffset = Add(s, e).reasoningOffset
        /\ t.content = Add(s, e).content
    BY <2>1, <2>2 DEF Fields
  <2>4. Writer(t)
    <3>1. PICK n \in Nat : s.textOpen \subseteq 0..n
      BY DEF Sound, Writer
    <3>2. n + id \in Nat /\ s.textOpen \cup {id} \subseteq 0..(n + id)
      BY <3>1
    <3> QED BY <2>2, <2>3, <3>2 DEF Writer, Contents
  <2>5. Taken(v, e) /\ Validated(v, e).open = Opened(t)
    <3>1. <<"text", id>> \notin v.open
      BY <1>2, OpenedHas
    <3>2. Taken(v, e) /\ Validated(v, e).open = v.open \cup {<<"text", id>>}
      BY <3>1, TextEvents DEF e
    <3>3. Opened(t) = Opened(s) \cup {<<"text", id>>}
      BY <2>3 DEF Opened
    <3> QED BY <3>2, <3>3 DEF Sound
  <2>6. Follows(s, t, {})
    BY <2>1, <2>3, <2>4, <2>5, TakenFollows
  <2> QED BY <2>3, <2>6 DEF t
<1> QED BY <1>1, <1>2

\* Whatever is not about the events or what is open
LEMMA AsideFollows ==
    ASSUME NEW s, Sound(s), NEW t, DOMAIN t = Fields, t.events = s.events, t.approvals = s.approvals,
           t.textOpen = s.textOpen, t.reasoningOpen = s.reasoningOpen, t.phaseOpen = s.phaseOpen,
           t.textOffset \in Nat, t.reasoningOffset \in Nat, t.current \in Nat, Contents(t)
    PROVE  Follows(s, t, {})
<1>1. Sound(t)
  BY DEF Sound, Writer, Opened
<1> QED BY <1>1, BeginsItself DEF Follows, Sound, Writer

\* Closing a text message, or finding it closed
LEMMA CloseTextIs ==
    ASSUME NEW s, Sound(s), NEW id
    PROVE  LET t == CloseText(s, id)
           IN  /\ Follows(s, t, {})
               /\ t.textOpen = s.textOpen \ {id} /\ t.reasoningOpen = s.reasoningOpen
               /\ t.phaseOpen = s.phaseOpen
<1>1. CASE id \notin s.textOpen
  BY <1>1, FollowsItself DEF CloseText
<1>2. CASE id \in s.textOpen
  <2> DEFINE e == Ev("TEXT_MESSAGE_END", id, 0)
             t == CloseText(s, id)
             v == Validation(s.events)
  <2>0. PICK n \in Nat : s.textOpen \subseteq 0..n
    BY DEF Sound, Writer
  <2>1. /\ t = [Add(s, e) EXCEPT !.textOpen = @ \ {id}]
        /\ e.id \in Nat
    BY <1>2, <2>0 DEF CloseText, Ev
  <2> HIDE DEF e, t
  <2>2. /\ DOMAIN Add(s, e) = Fields /\ Writer(Add(s, e))
        /\ Add(s, e).textOpen = s.textOpen /\ Add(s, e).reasoningOpen = s.reasoningOpen
        /\ Add(s, e).phaseOpen = s.phaseOpen /\ Add(s, e).approvals = s.approvals
    BY <2>1, AddIs DEF Sound
  <2>3. /\ DOMAIN t = Fields /\ t.events = Add(s, e).events /\ t.textOpen = s.textOpen \ {id}
        /\ t.reasoningOpen = s.reasoningOpen /\ t.phaseOpen = s.phaseOpen
        /\ t.approvals = s.approvals /\ t.current = Add(s, e).current
        /\ t.textOffset = Add(s, e).textOffset /\ t.reasoningOffset = Add(s, e).reasoningOffset
        /\ t.content = Add(s, e).content
    BY <2>1, <2>2 DEF Fields
  <2>4. Writer(t)
    <3>1. s.textOpen \ {id} \subseteq 0..n
      BY <2>0
    <3> QED BY <2>2, <2>3, <3>1 DEF Writer, Contents
  <2>5. Taken(v, e) /\ Validated(v, e).open = Opened(t)
    <3>1. <<"text", id>> \in v.open
      BY <1>2, OpenedHas
    <3>2. Taken(v, e) /\ Validated(v, e).open = v.open \ {<<"text", id>>}
      BY <3>1, TextEvents DEF e
    <3>3. Opened(t) = Opened(s) \ {<<"text", id>>}
      BY <2>3 DEF Opened
    <3> QED BY <3>2, <3>3 DEF Sound
  <2>6. Follows(s, t, {})
    BY <2>1, <2>3, <2>4, <2>5, TakenFollows
  <2> QED BY <2>3, <2>6 DEF t
<1> QED BY <1>1, <1>2

\* Closing a reasoning message, or finding it closed
LEMMA CloseReasoningIs ==
    ASSUME NEW s, Sound(s), NEW id
    PROVE  LET t == CloseReasoning(s, id)
           IN  /\ Follows(s, t, {})
               /\ t.reasoningOpen = s.reasoningOpen \ {id} /\ t.textOpen = s.textOpen
               /\ t.phaseOpen = s.phaseOpen
<1>1. CASE id \notin s.reasoningOpen
  BY <1>1, FollowsItself DEF CloseReasoning
<1>2. CASE id \in s.reasoningOpen
  <2> DEFINE e == Ev("REASONING_MESSAGE_END", id, 0)
             t == CloseReasoning(s, id)
             v == Validation(s.events)
  <2>0. PICK n \in Nat : s.reasoningOpen \subseteq 0..n
    BY DEF Sound, Writer
  <2>1. /\ t = [Add(s, e) EXCEPT !.reasoningOpen = @ \ {id}]
        /\ e.id \in Nat
    BY <1>2, <2>0 DEF CloseReasoning, Ev
  <2> HIDE DEF e, t
  <2>2. /\ DOMAIN Add(s, e) = Fields /\ Writer(Add(s, e))
        /\ Add(s, e).textOpen = s.textOpen /\ Add(s, e).reasoningOpen = s.reasoningOpen
        /\ Add(s, e).phaseOpen = s.phaseOpen /\ Add(s, e).approvals = s.approvals
    BY <2>1, AddIs DEF Sound
  <2>3. /\ DOMAIN t = Fields /\ t.events = Add(s, e).events
        /\ t.reasoningOpen = s.reasoningOpen \ {id}
        /\ t.textOpen = s.textOpen /\ t.phaseOpen = s.phaseOpen
        /\ t.approvals = s.approvals /\ t.current = Add(s, e).current
        /\ t.textOffset = Add(s, e).textOffset /\ t.reasoningOffset = Add(s, e).reasoningOffset
        /\ t.content = Add(s, e).content
    BY <2>1, <2>2 DEF Fields
  <2>4. Writer(t)
    <3>1. s.reasoningOpen \ {id} \subseteq 0..n
      BY <2>0
    <3> QED BY <2>2, <2>3, <3>1 DEF Writer, Contents
  <2>5. Taken(v, e) /\ Validated(v, e).open = Opened(t)
    <3>1. <<"reasoning", id>> \in v.open
      BY <1>2, OpenedHas
    <3>2. Taken(v, e) /\ Validated(v, e).open = v.open \ {<<"reasoning", id>>}
      BY <3>1, ReasoningEvents DEF e
    <3>3. Opened(t) = Opened(s) \ {<<"reasoning", id>>}
      BY <2>3 DEF Opened
    <3> QED BY <3>2, <3>3 DEF Sound
  <2>6. Follows(s, t, {})
    BY <2>1, <2>3, <2>4, <2>5, TakenFollows
  <2> QED BY <2>3, <2>6 DEF t
<1> QED BY <1>1, <1>2

\* The reasoning message a delta belongs to
OpenReasoning(s, id) ==
  IF id \in s.reasoningOpen THEN s
  ELSE [Add(s, Ev("REASONING_MESSAGE_START", id, 0)) EXCEPT !.reasoningOpen = @ \cup {id}]

\* Opening a reasoning message, or finding it open
LEMMA OpenReasoningIs ==
    ASSUME NEW s, Sound(s), NEW id \in Nat
    PROVE  LET t == OpenReasoning(s, id)
           IN  Follows(s, t, {}) /\ id \in t.reasoningOpen
<1>1. CASE id \in s.reasoningOpen
  BY <1>1, FollowsItself DEF OpenReasoning
<1>2. CASE id \notin s.reasoningOpen
  <2> DEFINE e == Ev("REASONING_MESSAGE_START", id, 0)
             t == OpenReasoning(s, id)
             v == Validation(s.events)
  <2>1. /\ t = [Add(s, e) EXCEPT !.reasoningOpen = @ \cup {id}]
        /\ e.id \in Nat
    BY <1>2 DEF OpenReasoning, Ev
  <2> HIDE DEF e, t
  <2>2. /\ DOMAIN Add(s, e) = Fields /\ Writer(Add(s, e))
        /\ Add(s, e).textOpen = s.textOpen /\ Add(s, e).reasoningOpen = s.reasoningOpen
        /\ Add(s, e).phaseOpen = s.phaseOpen /\ Add(s, e).approvals = s.approvals
    BY <2>1, AddIs DEF Sound
  <2>3. /\ DOMAIN t = Fields /\ t.events = Add(s, e).events
        /\ t.reasoningOpen = s.reasoningOpen \cup {id}
        /\ t.textOpen = s.textOpen /\ t.phaseOpen = s.phaseOpen
        /\ t.approvals = s.approvals /\ t.current = Add(s, e).current
        /\ t.textOffset = Add(s, e).textOffset /\ t.reasoningOffset = Add(s, e).reasoningOffset
        /\ t.content = Add(s, e).content
    BY <2>1, <2>2 DEF Fields
  <2>4. Writer(t)
    <3>1. PICK n \in Nat : s.reasoningOpen \subseteq 0..n
      BY DEF Sound, Writer
    <3>2. n + id \in Nat /\ s.reasoningOpen \cup {id} \subseteq 0..(n + id)
      BY <3>1
    <3> QED BY <2>2, <2>3, <3>2 DEF Writer, Contents
  <2>5. Taken(v, e) /\ Validated(v, e).open = Opened(t)
    <3>1. <<"reasoning", id>> \notin v.open
      BY <1>2, OpenedHas
    <3>2. Taken(v, e) /\ Validated(v, e).open = v.open \cup {<<"reasoning", id>>}
      BY <3>1, ReasoningEvents DEF e
    <3>3. Opened(t) = Opened(s) \cup {<<"reasoning", id>>}
      BY <2>3 DEF Opened
    <3> QED BY <3>2, <3>3 DEF Sound
  <2>6. Follows(s, t, {})
    BY <2>1, <2>3, <2>4, <2>5, TakenFollows
  <2> QED BY <2>3, <2>6 DEF t
<1> QED BY <1>1, <1>2

\* Opening the reasoning phase, or finding it open
LEMMA OpenPhaseIs ==
    ASSUME NEW s, Sound(s)
    PROVE  Follows(s, OpenPhase(s), {})
<1>1. CASE s.phaseOpen
  BY <1>1, FollowsItself DEF OpenPhase
<1>2. CASE ~s.phaseOpen
  <2> DEFINE e == Ev("REASONING_START", 0, 0)
             t == OpenPhase(s)
             v == Validation(s.events)
  <2>1. t = [Add(s, e) EXCEPT !.phaseOpen = TRUE] /\ e.type \notin NumberedTypes
    BY <1>2 DEF OpenPhase, Ev, NumberedTypes, TextTypes
  <2> HIDE DEF e, t
  <2>2. /\ DOMAIN Add(s, e) = Fields /\ Writer(Add(s, e))
        /\ Add(s, e).textOpen = s.textOpen /\ Add(s, e).reasoningOpen = s.reasoningOpen
        /\ Add(s, e).approvals = s.approvals
    BY <2>1, AddIs DEF Sound
  <2>3. /\ DOMAIN t = Fields /\ t.events = Add(s, e).events /\ t.phaseOpen = TRUE
        /\ t.reasoningOpen = s.reasoningOpen /\ t.textOpen = s.textOpen
        /\ t.approvals = s.approvals /\ t.current = Add(s, e).current
        /\ t.textOffset = Add(s, e).textOffset /\ t.reasoningOffset = Add(s, e).reasoningOffset
        /\ t.content = Add(s, e).content
    BY <2>1, <2>2 DEF Fields
  <2>4. Writer(t)
    BY <2>2, <2>3 DEF Writer, Contents
  <2>5. Taken(v, e) /\ Validated(v, e).open = Opened(t)
    <3>1. <<"phase", 0>> \notin v.open
      BY <1>2, OpenedHas
    <3>2. Taken(v, e) /\ Validated(v, e).open = v.open \cup {<<"phase", 0>>}
      BY <3>1, PhaseEvents DEF e
    <3>3. Opened(t) = Opened(s) \cup {<<"phase", 0>>}
      BY <2>3 DEF Opened
    <3> QED BY <3>2, <3>3 DEF Sound
  <2>6. Follows(s, t, {})
    BY <2>1, <2>3, <2>4, <2>5, TakenFollows
  <2> QED BY <2>6 DEF t
<1> QED BY <1>1, <1>2

\* The end of a phase of reasoning
ClosePhase(s) ==
  IF s.phaseOpen THEN [Add(s, Ev("REASONING_END", 0, 0)) EXCEPT !.phaseOpen = FALSE] ELSE s

\* Closing the reasoning phase, or finding it closed
LEMMA ClosePhaseIs ==
    ASSUME NEW s, Sound(s)
    PROVE  LET t == ClosePhase(s)
           IN  /\ Follows(s, t, {})
               /\ t.reasoningOpen = s.reasoningOpen /\ t.textOpen = s.textOpen /\ ~t.phaseOpen
<1>1. CASE ~s.phaseOpen
  BY <1>1, FollowsItself DEF ClosePhase
<1>2. CASE s.phaseOpen
  <2> DEFINE e == Ev("REASONING_END", 0, 0)
             t == ClosePhase(s)
             v == Validation(s.events)
  <2>1. t = [Add(s, e) EXCEPT !.phaseOpen = FALSE] /\ e.type \notin NumberedTypes
    BY <1>2 DEF ClosePhase, Ev, NumberedTypes, TextTypes
  <2> HIDE DEF e, t
  <2>2. /\ DOMAIN Add(s, e) = Fields /\ Writer(Add(s, e))
        /\ Add(s, e).textOpen = s.textOpen /\ Add(s, e).reasoningOpen = s.reasoningOpen
        /\ Add(s, e).approvals = s.approvals
    BY <2>1, AddIs DEF Sound
  <2>3. /\ DOMAIN t = Fields /\ t.events = Add(s, e).events /\ t.phaseOpen = FALSE
        /\ t.reasoningOpen = s.reasoningOpen /\ t.textOpen = s.textOpen
        /\ t.approvals = s.approvals /\ t.current = Add(s, e).current
        /\ t.textOffset = Add(s, e).textOffset /\ t.reasoningOffset = Add(s, e).reasoningOffset
        /\ t.content = Add(s, e).content
    BY <2>1, <2>2 DEF Fields
  <2>4. Writer(t)
    BY <2>2, <2>3 DEF Writer, Contents
  <2>5. Taken(v, e) /\ Validated(v, e).open = Opened(t)
    <3>1. <<"phase", 0>> \in v.open
      BY <1>2, OpenedHas
    <3>2. Taken(v, e) /\ Validated(v, e).open = v.open \ {<<"phase", 0>>}
      BY <3>1, PhaseEvents DEF e
    <3>3. Opened(t) = Opened(s) \ {<<"phase", 0>>}
      BY <2>3 DEF Opened
    <3> QED BY <3>2, <3>3 DEF Sound
  <2>6. Follows(s, t, {})
    BY <2>1, <2>3, <2>4, <2>5, TakenFollows
  <2> QED BY <2>3, <2>6 DEF t
<1> QED BY <1>1, <1>2

\* An event that opens and closes nothing
LEMMA PlainAddFollows ==
    ASSUME NEW s, Sound(s), NEW e, e.type \in NumberedTypes => e.id \in Nat,
           Taken(Validation(s.events), e),
           Validated(Validation(s.events), e).open = Validation(s.events).open
    PROVE  Follows(s, Add(s, e), {}) /\ Opened(Add(s, e)) = Opened(s)
<1>1. /\ Writer(Add(s, e)) /\ Add(s, e).approvals = s.approvals
      /\ Add(s, e).textOpen = s.textOpen /\ Add(s, e).reasoningOpen = s.reasoningOpen
      /\ Add(s, e).phaseOpen = s.phaseOpen
  BY AddIs DEF Sound
<1>2. Opened(Add(s, e)) = Opened(s)
  BY <1>1 DEF Opened
<1> QED BY <1>1, <1>2, TakenFollows DEF Sound

\* Adding a custom event or a snapshot
LEMMA NeutralAddFollows ==
    ASSUME NEW s, Sound(s), NEW e, e.type \in NeutralTypes
    PROVE  Follows(s, Add(s, e), {}) /\ Opened(Add(s, e)) = Opened(s)
<1>1. e.type \notin NumberedTypes
  BY DEF NeutralTypes, NumberedTypes, TextTypes
<1>2. Taken(Validation(s.events), e) /\ Validated(Validation(s.events), e).open = Validation(s.events).open
  BY NeutralEvents
<1> QED BY <1>1, <1>2, PlainAddFollows

\* Adding an event of a tool call that was started
LEMMA CallAddFollows ==
    ASSUME NEW s, Sound(s), NEW e, e.type \in ToolTypes \ {"TOOL_CALL_START"},
           e.id \in Validation(s.events).tools
    PROVE  Follows(s, Add(s, e), {}) /\ Opened(Add(s, e)) = Opened(s)
<1>1. e.type \notin NumberedTypes
  BY DEF ToolTypes, NumberedTypes, TextTypes
<1>2. Taken(Validation(s.events), e) /\ Validated(Validation(s.events), e).open = Validation(s.events).open
  BY CallEvents
<1> QED BY <1>1, <1>2, PlainAddFollows

-----------------------------------------------------------------------------
(* The operations of the writer, each of which the validator follows. *)

\* The start of a text block opens its message
LEMMA TextStartIs ==
    ASSUME NEW s, Sound(s), NEW index \in Nat
    PROVE  /\ Follows(s, TextStart(s, index), {})
           /\ s.textOffset + index \in TextStart(s, index).textOpen
           /\ s.textOffset + index \in Nat
<1> DEFINE id == s.textOffset + index
           t == OpenText(s, id)
           u == TextStart(s, index)
<1>1. id \in Nat
  BY DEF Sound, Writer
<1>2. Follows(s, t, {}) /\ id \in t.textOpen
  <2> HIDE DEF id
  <2> QED BY <1>1, OpenTextIs
<1>3. u = [t EXCEPT !.current = id]
  BY DEF TextStart
<1> HIDE DEF id, t, u
<1>4. Sound(t) /\ DOMAIN t = Fields
  BY <1>2 DEF Follows, Sound, Writer
<1>5. /\ DOMAIN u = Fields /\ u.events = t.events /\ u.approvals = t.approvals
      /\ u.textOpen = t.textOpen /\ u.reasoningOpen = t.reasoningOpen /\ u.phaseOpen = t.phaseOpen
      /\ u.textOffset = t.textOffset /\ u.reasoningOffset = t.reasoningOffset /\ u.current = id
      /\ u.content = t.content
  BY <1>3, <1>4 DEF Fields
<1>6. Follows(t, u, {})
  BY <1>1, <1>4, <1>5, AsideFollows DEF Sound, Writer, Contents
<1>7. Follows(s, u, {})
  BY <1>2, <1>6, FollowsTransitively
<1> QED BY <1>1, <1>2, <1>5, <1>7 DEF id, u

\* A text delta opens the message if need be and is its content
LEMMA TextDeltaIs ==
    ASSUME NEW s, Sound(s), NEW index \in Nat, NEW token
    PROVE  Follows(s, TextDelta(s, index, token), {})
<1> DEFINE id == s.textOffset + index
           e == Ev("TEXT_MESSAGE_CONTENT", id, token)
           t == TextStart(s, index)
           u == Add(t, e)
           w == TextDelta(s, index, token)
<1>1. Follows(s, t, {}) /\ id \in t.textOpen /\ id \in Nat
  BY TextStartIs
<1>2. w = [u EXCEPT !.written = TRUE]
  BY DEF TextDelta
<1>3. e.id \in Nat
  BY <1>1 DEF Ev
<1> HIDE DEF t, id
<1>4. Sound(t) /\ <<"text", id>> \in Validation(t.events).open
  BY <1>1, OpenedHas DEF Follows
<1>5. Taken(Validation(t.events), e) /\ Validated(Validation(t.events), e).open = Validation(t.events).open
  BY <1>4, TextEvents
<1> HIDE DEF e
<1>6. Follows(t, u, {})
  BY <1>3, <1>4, <1>5, PlainAddFollows
<1> HIDE DEF u, w
<1>7. Sound(u) /\ DOMAIN u = Fields
  BY <1>6 DEF Follows, Sound, Writer
<1>8. /\ DOMAIN w = Fields /\ w.events = u.events /\ w.approvals = u.approvals
      /\ w.textOpen = u.textOpen /\ w.reasoningOpen = u.reasoningOpen /\ w.phaseOpen = u.phaseOpen
      /\ w.textOffset = u.textOffset /\ w.reasoningOffset = u.reasoningOffset /\ w.current = u.current
      /\ w.content = u.content
  BY <1>2, <1>7 DEF Fields
<1>9. Follows(u, w, {})
  BY <1>7, <1>8, AsideFollows DEF Sound, Writer, Contents
<1>10. Follows(s, w, {})
  BY <1>1, <1>6, <1>9, FollowsTransitively
<1> QED BY <1>10 DEF w

\* The start of a reasoning block opens text, phase and message
LEMMA ReasoningMessageStartIs ==
    ASSUME NEW s, Sound(s), NEW index \in Nat
    PROVE  /\ Follows(s, ReasoningMessageStart(s, index), {})
           /\ s.reasoningOffset + index \in ReasoningMessageStart(s, index).reasoningOpen
           /\ s.reasoningOffset + index \in Nat
<1> DEFINE id == s.reasoningOffset + index
           t == OpenText(s, s.current)
           u == OpenPhase(t)
           w == OpenReasoning(u, id)
<1>1. id \in Nat /\ s.current \in Nat
  BY DEF Sound, Writer
<1>2. Follows(s, t, {})
  BY <1>1, OpenTextIs
<1>3. ReasoningMessageStart(s, index) = w
  BY DEF ReasoningMessageStart, OpenReasoning
<1> HIDE DEF t
<1>4. Follows(t, u, {})
  BY <1>2, OpenPhaseIs DEF Follows
<1> HIDE DEF u, id
<1>5. Follows(u, w, {}) /\ id \in w.reasoningOpen
  BY <1>1, <1>4, OpenReasoningIs DEF Follows
<1> HIDE DEF w
<1>6. Follows(s, w, {})
  BY <1>2, <1>4, <1>5, FollowsTransitively
<1> QED BY <1>1, <1>3, <1>5, <1>6 DEF id

\* A reasoning delta opens what is not, and is remembered as content
LEMMA ReasoningDeltaIs ==
    ASSUME NEW s, Sound(s), NEW index \in Nat, NEW token
    PROVE  Follows(s, ReasoningDelta(s, index, token), {})
<1> DEFINE id == s.reasoningOffset + index
           e == Ev("REASONING_MESSAGE_CONTENT", id, token)
           t == ReasoningMessageStart(s, index)
           u == Add(t, e)
           w == ReasoningDelta(s, index, token)
           content == [i \in DOMAIN u.content \cup {index} |->
                         IF i = index THEN Append(ReasoningContent(s, index), token) ELSE u.content[i]]
<1>1. Follows(s, t, {}) /\ id \in t.reasoningOpen /\ id \in Nat
  BY ReasoningMessageStartIs
<1>2. w = [u EXCEPT !.content = content]
  BY DEF ReasoningDelta
<1>3. e.id \in Nat
  BY <1>1 DEF Ev
<1> HIDE DEF t, id
<1>c. IsSeq(Append(ReasoningContent(s, index), token))
  <2>1. IsSeq(<<>>)
    BY DEF IsSeq
  <2>2. IsSeq(ReasoningContent(s, index))
    BY <2>1 DEF ReasoningContent, Sound, Writer, Contents
  <2> QED BY <2>2, AppendIs
<1>d. \A i \in DOMAIN content :
        content[i] = Append(ReasoningContent(s, index), token)
          \/ (i \in DOMAIN u.content /\ content[i] = u.content[i])
  OBVIOUS
<1>4. Sound(t) /\ <<"reasoning", id>> \in Validation(t.events).open
  BY <1>1, OpenedHas DEF Follows
<1>5. Taken(Validation(t.events), e) /\ Validated(Validation(t.events), e).open = Validation(t.events).open
  BY <1>4, ReasoningEvents
<1> HIDE DEF e, content
<1>6. Follows(t, u, {})
  BY <1>3, <1>4, <1>5, PlainAddFollows
<1> HIDE DEF u, w
<1>7. Sound(u) /\ DOMAIN u = Fields
  BY <1>6 DEF Follows, Sound, Writer
<1>8. /\ DOMAIN w = Fields /\ w.events = u.events /\ w.approvals = u.approvals
      /\ w.textOpen = u.textOpen /\ w.reasoningOpen = u.reasoningOpen /\ w.phaseOpen = u.phaseOpen
      /\ w.textOffset = u.textOffset /\ w.reasoningOffset = u.reasoningOffset /\ w.current = u.current
      /\ w.content = content
  BY <1>2, <1>7 DEF Fields
<1>e. Contents(w)
  <2>1. ASSUME NEW i \in DOMAIN content PROVE IsSeq(content[i])
    BY <1>c, <1>d, <1>7 DEF Sound, Writer, Contents
  <2> QED BY <1>8, <2>1 DEF Contents
<1>9. Follows(u, w, {})
  BY <1>7, <1>8, <1>e, AsideFollows DEF Sound, Writer
<1>10. Follows(s, w, {})
  BY <1>1, <1>6, <1>9, FollowsTransitively
<1> QED BY <1>10 DEF w

\* The fold of what a provider repeats: every delta follows the one before
LEMMA DeltasFollow ==
    ASSUME NEW s, Sound(s), NEW index \in Nat, NEW q, NEW n \in Nat, NEW h,
           Chain(Saying(index), s, q, n, h)
    PROVE  \A m \in 0..n : Follows(s, h[m], {})
<1> DEFINE B == {m \in 0..n : ~Follows(s, h[m], {})}
<1>1. SUFFICES B = {}
  OBVIOUS
<1>2. CASE B # {}
  <2>1. PICK m \in B : \A j \in B : ~(j < m)
    <3>1. B \subseteq Nat
      OBVIOUS
    <3> HIDE DEF B
    <3> QED BY <1>2, <3>1, LeastNumber
  <2>2. m # 0
    BY <2>1, FollowsItself DEF Chain
  <2>3. m \in 1..n /\ m - 1 \in 0..n /\ m - 1 \notin B
    BY <2>1, <2>2
  <2>4. Follows(s, h[m - 1], {})
    BY <2>3
  <2>5. h[m] = Applied(Saying(index), h[m - 1], q[m])
    BY <2>3 DEF Chain
  <2>6. h[m] = ReasoningDelta(h[m - 1], index, q[m])
    BY <2>5 DEF Applied, Saying
  <2>7. Follows(h[m - 1], h[m], {})
    BY <2>4, <2>6, ReasoningDeltaIs DEF Follows
  <2>8. Follows(s, h[m], {})
    BY <2>4, <2>7, FollowsTransitively
  <2> QED BY <2>1, <2>8
<1> QED BY <1>2

\* The content repeated at the end of a block is deltas, or nothing
LEMMA ReasoningContentSnapshotIs ==
    ASSUME NEW s, Sound(s), NEW index \in Nat, NEW content, Len(content) \in Nat
    PROVE  Follows(s, ReasoningContentSnapshot(s, index, content), {})
<1> DEFINE had == ReasoningContent(s, index)
           q == SubSeq(content, Len(had) + 1, Len(content))
           u == SayAll(s, index, q)
<1>1. ReasoningContentSnapshot(s, index, content) \in {s, u}
  BY DEF ReasoningContentSnapshot, SayAll
<1>2. Len(had) \in Nat
  <2>1. IsSeq(<<>>)
    BY DEF IsSeq
  <2>2. IsSeq(had)
    BY <2>1 DEF ReasoningContent, Sound, Writer, Contents
  <2> QED BY <2>2, SeqIs
<1>3. \E n \in Nat : DOMAIN q = 1..n
  <2> DEFINE m == Len(had) + 1
             n == Len(content)
             S == {content[i] : i \in m..n}
  <2>1. m \in Int /\ n \in Int /\ \A i \in m..n : content[i] \in S
    BY <1>2
  <2> HIDE DEF m, n, S
  <2>2. SubSeq(content, m, n) \in Seq(S)
    BY <2>1, SubSeqProperties
  <2>3. Len(SubSeq(content, m, n)) \in Nat /\ DOMAIN SubSeq(content, m, n) = 1..Len(SubSeq(content, m, n))
    BY <2>2, LenProperties
  <2> QED BY <2>3 DEF m, n
<1> HIDE DEF q
<1>4. PICK n \in Nat : DOMAIN q = 1..n
  BY <1>3
<1>5. \E h : Chain(Saying(index), s, q, n, h) /\ u = h[n]
  BY <1>4, DeltaChain
<1> HIDE DEF u
<1>6. Follows(s, u, {})
  <2>1. PICK h : Chain(Saying(index), s, q, n, h) /\ u = h[n]
    BY <1>5
  <2> QED BY <2>1, DeltasFollow
<1> QED BY <1>1, <1>6, FollowsItself

\* Closing the first m messages, in the order of their numbers
LEMMA ClosingReasoning ==
    ASSUME NEW s, Sound(s), NEW q, NEW n \in Nat, \A i \in 1..n : q[i] = i - 1, NEW h,
           Chain(ClosingThought, s, q, n, h)
    PROVE  \A m \in 0..n :
             /\ Follows(s, h[m], {})
             /\ h[m].reasoningOpen = s.reasoningOpen \ (0..(m - 1))
             /\ h[m].textOpen = s.textOpen /\ h[m].phaseOpen = s.phaseOpen
<1> DEFINE P(m) == /\ Follows(s, h[m], {})
                   /\ h[m].reasoningOpen = s.reasoningOpen \ (0..(m - 1))
                   /\ h[m].textOpen = s.textOpen /\ h[m].phaseOpen = s.phaseOpen
           B == {m \in 0..n : ~P(m)}
<1>1. SUFFICES B = {}
  OBVIOUS
<1>2. CASE B # {}
  <2>1. PICK m \in B : \A j \in B : ~(j < m)
    <3>1. B \subseteq Nat
      OBVIOUS
    <3> HIDE DEF B
    <3> QED BY <1>2, <3>1, LeastNumber
  <2>2. P(0)
    <3>1. h[0] = s /\ 0..(0 - 1) = {}
      BY DEF Chain
    <3> QED BY <3>1, FollowsItself
  <2>3. m \in 1..n /\ m - 1 \in 0..n /\ m - 1 \notin B
    <3>1. m # 0
      BY <2>1, <2>2
    <3> QED BY <2>1, <3>1
  <2>4. P(m - 1)
    BY <2>3
  <2>5. h[m] = Applied(ClosingThought, h[m - 1], q[m]) /\ q[m] = m - 1
    BY <2>3 DEF Chain
  <2>6. h[m] = CloseReasoning(h[m - 1], m - 1)
    BY <2>5 DEF Applied, ClosingThought
  <2>7. /\ Follows(h[m - 1], h[m], {})
        /\ h[m].reasoningOpen = h[m - 1].reasoningOpen \ {m - 1}
        /\ h[m].textOpen = h[m - 1].textOpen /\ h[m].phaseOpen = h[m - 1].phaseOpen
    BY <2>4, <2>6, CloseReasoningIs DEF Follows
  <2>8. Follows(s, h[m], {})
    BY <2>4, <2>7, FollowsTransitively
  <2>9. 0..(m - 1) = (0..(m - 1 - 1)) \cup {m - 1}
    BY <2>3
  <2>10. P(m)
    BY <2>4, <2>7, <2>8, <2>9
  <2> QED BY <2>1, <2>10
<1> QED BY <1>2

\* At the end of a turn no reasoning is open
LEMMA FinishReasoningIs ==
    ASSUME NEW s, Sound(s)
    PROVE  LET t == FinishReasoning(s)
           IN  /\ Follows(s, t, {})
               /\ t.reasoningOpen = {} /\ t.textOpen = s.textOpen /\ ~t.phaseOpen
<1> DEFINE q == Ascending(s.reasoningOpen)
           t == FoldLeft(CloseReasoning, s, q)
<1>1. PICK k \in Nat : s.reasoningOpen \in SUBSET (0..k)
  BY DEF Sound, Writer
<1>2. PICK n \in Nat : /\ s.reasoningOpen \subseteq 0..(n - 1) /\ DOMAIN q = 1..n
                       /\ \A i \in 1..n : q[i] = i - 1
  BY <1>1, AscendingIs
<1>3. FinishReasoning(s) = ClosePhase(t)
  BY DEF FinishReasoning, ClosePhase
<1> HIDE DEF q, t
<1>4. PICK h : Chain(ClosingThought, s, q, n, h) /\ t = h[n]
  BY <1>2, CloseReasoningChain DEF t
<1>5. /\ Follows(s, t, {}) /\ t.reasoningOpen = s.reasoningOpen \ (0..(n - 1))
      /\ t.textOpen = s.textOpen /\ t.phaseOpen = s.phaseOpen
  <2>1. n \in 0..n
    OBVIOUS
  <2> QED BY <1>2, <1>4, <2>1, ClosingReasoning
<1>6. /\ Follows(t, ClosePhase(t), {})
      /\ ClosePhase(t).reasoningOpen = t.reasoningOpen /\ ClosePhase(t).textOpen = t.textOpen
      /\ ~ClosePhase(t).phaseOpen
  BY <1>5, ClosePhaseIs DEF Follows
<1>7. Follows(s, ClosePhase(t), {})
  BY <1>5, <1>6, FollowsTransitively
<1> QED BY <1>2, <1>3, <1>5, <1>6, <1>7

\* Closing text messages one by one: those passed are closed
LEMMA ClosingTexts ==
    ASSUME NEW s, Sound(s), NEW q, NEW n \in Nat, \A i \in 1..n : q[i] = i - 1, NEW h,
           Chain(ClosingText, s, q, n, h)
    PROVE  \A m \in 0..n :
             /\ Follows(s, h[m], {})
             /\ h[m].textOpen = s.textOpen \ (0..(m - 1))
             /\ h[m].reasoningOpen = s.reasoningOpen /\ h[m].phaseOpen = s.phaseOpen
<1> DEFINE P(m) == /\ Follows(s, h[m], {})
                   /\ h[m].textOpen = s.textOpen \ (0..(m - 1))
                   /\ h[m].reasoningOpen = s.reasoningOpen /\ h[m].phaseOpen = s.phaseOpen
           B == {m \in 0..n : ~P(m)}
<1>1. SUFFICES B = {}
  OBVIOUS
<1>2. CASE B # {}
  <2>1. PICK m \in B : \A j \in B : ~(j < m)
    <3>1. B \subseteq Nat
      OBVIOUS
    <3> HIDE DEF B
    <3> QED BY <1>2, <3>1, LeastNumber
  <2>2. P(0)
    <3>1. h[0] = s /\ 0..(0 - 1) = {}
      BY DEF Chain
    <3> QED BY <3>1, FollowsItself
  <2>3. m \in 1..n /\ m - 1 \in 0..n /\ m - 1 \notin B
    <3>1. m # 0
      BY <2>1, <2>2
    <3> QED BY <2>1, <3>1
  <2>4. P(m - 1)
    BY <2>3
  <2>5. h[m] = Applied(ClosingText, h[m - 1], q[m]) /\ q[m] = m - 1
    BY <2>3 DEF Chain
  <2>6. h[m] = CloseText(h[m - 1], m - 1)
    BY <2>5 DEF Applied, ClosingText
  <2>7. /\ Follows(h[m - 1], h[m], {})
        /\ h[m].textOpen = h[m - 1].textOpen \ {m - 1}
        /\ h[m].reasoningOpen = h[m - 1].reasoningOpen /\ h[m].phaseOpen = h[m - 1].phaseOpen
    BY <2>4, <2>6, CloseTextIs DEF Follows
  <2>8. Follows(s, h[m], {})
    BY <2>4, <2>7, FollowsTransitively
  <2>9. 0..(m - 1) = (0..(m - 1 - 1)) \cup {m - 1}
    BY <2>3
  <2>10. P(m)
    BY <2>4, <2>7, <2>8, <2>9
  <2> QED BY <2>1, <2>10
<1> QED BY <1>2

\* Everything is closed before a run waits or ends
LEMMA FinishingCloses ==
    ASSUME NEW s, Sound(s)
    PROVE  LET t == FinishText(FinishReasoning(s)) IN Follows(s, t, {}) /\ Opened(t) = {}
<1> DEFINE r == FinishReasoning(s)
           q == Ascending(r.textOpen)
           t == FoldLeft(CloseText, r, q)
<1>0. FinishText(r) = t
  BY DEF FinishText
<1>1. Follows(s, r, {}) /\ r.reasoningOpen = {} /\ ~r.phaseOpen
  BY FinishReasoningIs
<1> HIDE DEF r
<1>2. PICK k \in Nat : r.textOpen \in SUBSET (0..k)
  BY <1>1 DEF Follows, Sound, Writer
<1>3. PICK n \in Nat : /\ r.textOpen \subseteq 0..(n - 1) /\ DOMAIN q = 1..n
                       /\ \A i \in 1..n : q[i] = i - 1
  BY <1>2, AscendingIs
<1> HIDE DEF q, t
<1>4. PICK h : Chain(ClosingText, r, q, n, h) /\ t = h[n]
  BY <1>3, CloseTextChain DEF t
<1>5. /\ Follows(r, t, {}) /\ t.textOpen = r.textOpen \ (0..(n - 1))
      /\ t.reasoningOpen = r.reasoningOpen /\ t.phaseOpen = r.phaseOpen
  <2>1. n \in 0..n /\ Sound(r)
    BY <1>1 DEF Follows
  <2> QED BY <1>3, <1>4, <2>1, ClosingTexts
<1>6. Opened(t) = {}
  BY <1>1, <1>3, <1>5 DEF Opened
<1>7. Follows(s, t, {})
  BY <1>1, <1>5, FollowsTransitively
<1> QED BY <1>0, <1>6, <1>7 DEF r

\* A writer of its own is sound when the one before it left nothing open
LEMMA NewWriterIs ==
    ASSUME NEW s, Sound(s), Opened(s) = {}
    PROVE  /\ Follows(s, NewWriter(s), {}) /\ Opened(NewWriter(s)) = {}
           /\ NewWriter(s).events = s.events
<1> DEFINE Reasoning == {"REASONING_MESSAGE_START", "REASONING_MESSAGE_CONTENT", "REASONING_MESSAGE_END"}
           t == NewWriter(s)
           text == NextOrdinal(s.events, TextTypes)
           reasoning == NextOrdinal(s.events, Reasoning)
<1>1. text \in Nat /\ reasoning \in Nat
  <2>1. TextTypes \in SUBSET NumberedTypes /\ Reasoning \in SUBSET NumberedTypes
    BY DEF NumberedTypes
  <2> HIDE DEF Reasoning
  <2> QED BY <2>1, OrdinalIs DEF Sound, Writer
<1>2. t = [s EXCEPT !.textOffset = text, !.current = text, !.written = FALSE, !.textOpen = {},
                    !.reasoningOffset = reasoning, !.reasoningOpen = {}, !.phaseOpen = FALSE,
                    !.content = <<>>]
  BY DEF NewWriter
<1> HIDE DEF t, text, reasoning
<1>3. DOMAIN s = Fields
  BY DEF Sound, Writer
<1>4. /\ DOMAIN t = Fields /\ t.events = s.events /\ t.approvals = s.approvals
      /\ t.textOpen = {} /\ t.reasoningOpen = {} /\ t.phaseOpen = FALSE
      /\ t.textOffset = text /\ t.current = text /\ t.reasoningOffset = reasoning
      /\ t.content = <<>>
  BY <1>2, <1>3 DEF Fields
<1>5. Opened(t) = {}
  BY <1>4 DEF Opened
<1>6. Writer(t)
  <2>1. {} \subseteq 0..0 /\ 0 \in Nat
    OBVIOUS
  <2>2. (\E n \in Nat : t.textOpen \subseteq 0..n) /\ (\E n \in Nat : t.reasoningOpen \subseteq 0..n)
    BY <1>4, <2>1
  <2>3. Contents(t)
    BY <1>4 DEF Contents
  <2> QED BY <1>1, <1>4, <2>2, <2>3 DEF Sound, Writer
<1>7. Sound(t)
  BY <1>4, <1>5, <1>6 DEF Sound
<1>8. Follows(s, t, {})
  BY <1>4, <1>7, BeginsItself DEF Follows, Sound, Writer
<1> QED BY <1>4, <1>5, <1>8 DEF t

\* A call is started once
LEMMA ToolStartIs ==
    ASSUME NEW s, Sound(s), NEW call, call \notin Validation(s.events).tools
    PROVE  Follows(s, ToolStart(s, call), {call})
<1> DEFINE e == Ev("TOOL_CALL_START", call, s.current)
           v == Validation(s.events)
           t == ToolStart(s, call)
<1>1. /\ Complaint(v, e) \subseteq Expected(v)
      /\ e.type \notin NumberedTypes
  <2>1. e.type = "TOOL_CALL_START" /\ e.id = call
    BY DEF Ev
  <2> HIDE DEF e
  <2> QED BY <2>1 DEF Complaint, Expected, ToolTypes, NumberedTypes, TextTypes
<1>2. Validated(v, e).open = v.open /\ Validated(v, e).tools = v.tools \cup {call}
      /\ (Validated(v, e).started <=> v.started) /\ (Validated(v, e).terminal <=> v.terminal)
      /\ Validated(v, e).wrong = v.wrong \cup Complaint(v, e)
  BY DEF Validated, Ev
<1>3. t = Add(s, e)
  BY DEF ToolStart
<1> HIDE DEF e, t
<1>4. /\ Writer(t) /\ t.approvals = s.approvals /\ Begins(s.events, t.events)
      /\ t.textOpen = s.textOpen /\ t.reasoningOpen = s.reasoningOpen
      /\ t.phaseOpen = s.phaseOpen /\ Validation(t.events) = Validated(v, e)
  BY <1>1, <1>3, AddIs DEF Sound
<1>5. Opened(t) = Opened(s)
  BY <1>4 DEF Opened
<1>6. Follows(s, t, {call})
  BY <1>1, <1>2, <1>4, <1>5 DEF Follows, Sound
<1> QED BY <1>6 DEF t

\* The arguments of a call
LEMMA ToolArgsIs ==
    ASSUME NEW s, Sound(s), NEW call \in Validation(s.events).tools
    PROVE  Follows(s, ToolArgs(s, call), {})
BY CallAddFollows DEF ToolArgs, Ev, ToolTypes

\* The end of its input, even a second one
LEMMA ToolInputCompleteIs ==
    ASSUME NEW s, Sound(s), NEW call \in Validation(s.events).tools
    PROVE  Follows(s, ToolInputComplete(s, call), {}) /\ Opened(ToolInputComplete(s, call)) = Opened(s)
BY CallAddFollows DEF ToolInputComplete, Ev, ToolTypes

\* Its result
LEMMA ToolResultIs ==
    ASSUME NEW s, Sound(s), NEW call \in Validation(s.events).tools, NEW state
    PROVE  Follows(s, ToolResult(s, call, state), {}) /\ Opened(ToolResult(s, call, state)) = Opened(s)
BY CallAddFollows DEF ToolResult, Ev, ToolTypes

\* The end of a call: of its input, and its result
LEMMA ToolEndIs ==
    ASSUME NEW s, Sound(s), NEW call \in Validation(s.events).tools, NEW state
    PROVE  Follows(s, ToolEnd(s, call, state), {}) /\ Opened(ToolEnd(s, call, state)) = Opened(s)
<1> DEFINE t == ToolInputComplete(s, call)
           u == ToolResult(t, call, state)
<1>1. Follows(s, t, {}) /\ Opened(t) = Opened(s)
  BY ToolInputCompleteIs
<1> HIDE DEF t
<1>2. Follows(t, u, {}) /\ Opened(u) = Opened(t)
  BY <1>1, ToolResultIs DEF Follows
<1> HIDE DEF u
<1>3. Follows(s, u, {})
  BY <1>1, <1>2, FollowsTransitively
<1> QED BY <1>1, <1>2, <1>3 DEF ToolEnd, t, u

\* The custom event of a tool
LEMMA CustomIs ==
    ASSUME NEW s, Sound(s), NEW source
    PROVE  Follows(s, Custom(s, source), {}) /\ Opened(Custom(s, source)) = Opened(s)
BY NeutralAddFollows DEF Custom, Ev, NeutralTypes

-----------------------------------------------------------------------------
(* The ends of a run. *)

\* t is s after the event that ends it
Ends(s, t) ==
  /\ Sound(t) /\ Opened(t) = {}
  /\ Begins(s.events, t.events)
  /\ t.approvals = s.approvals
  /\ LET v == Validation(s.events)
         w == Validation(t.events)
     IN  /\ w.started /\ w.terminal /\ w.tools = v.tools
         /\ w.wrong \subseteq v.wrong \cup Expected(v)

\* What is written before the end is part of the ending
LEMMA EndsAfter ==
    ASSUME NEW s, NEW t, NEW u, Follows(s, t, {}), Ends(t, u)
    PROVE  Ends(s, u)
<1>1. Begins(s.events, u.events)
  BY BeginsTransitively DEF Follows, Ends
<1>2. Expected(Validation(t.events)) = Expected(Validation(s.events))
  BY DEF Follows, Expected
<1> QED BY <1>1, <1>2 DEF Follows, Ends

\* With nothing open, the event that ends a run is taken
LEMMA TerminalEnds ==
    ASSUME NEW s, Sound(s), Opened(s) = {}, Validation(s.events).started,
           NEW e, e.type \in {"RUN_FINISHED", "RUN_ERROR"}
    PROVE  Ends(s, Add(s, e))
<1> DEFINE v == Validation(s.events)
           t == Add(s, e)
<1>1. e.type \notin NumberedTypes
  BY DEF NumberedTypes, TextTypes
<1>2. v.open = {}
  BY DEF Sound
<1>3. Complaint(v, e) \subseteq Expected(v)
  BY <1>2 DEF Complaint, Expected, ToolTypes
<1>4. Validated(v, e).open = v.open /\ Validated(v, e).tools = v.tools
      /\ Validated(v, e).started /\ Validated(v, e).terminal
      /\ Validated(v, e).wrong = v.wrong \cup Complaint(v, e)
  BY DEF Validated
<1> HIDE DEF t
<1>5. /\ Writer(t) /\ t.approvals = s.approvals /\ Begins(s.events, t.events)
      /\ t.textOpen = s.textOpen /\ t.reasoningOpen = s.reasoningOpen
      /\ t.phaseOpen = s.phaseOpen /\ Validation(t.events) = Validated(v, e)
  BY <1>1, AddIs DEF Sound, t
<1>6. Opened(t) = {}
  BY <1>5 DEF Opened
<1>7. Ends(s, t)
  BY <1>2, <1>3, <1>4, <1>5, <1>6 DEF Ends, Sound
<1> QED BY <1>7 DEF t

\* The status is of no consequence to the validator
LEMMA StatusAside ==
    ASSUME NEW s, Sound(s), NEW x
    PROVE  LET t == [s EXCEPT !.status = x] IN Follows(s, t, {}) /\ Opened(t) = Opened(s)
<1> DEFINE t == [s EXCEPT !.status = x]
<1>1. DOMAIN s = Fields /\ s.textOffset \in Nat /\ s.reasoningOffset \in Nat /\ s.current \in Nat
  BY DEF Sound, Writer
<1>2. /\ DOMAIN t = Fields /\ t.events = s.events /\ t.approvals = s.approvals
      /\ t.textOpen = s.textOpen /\ t.reasoningOpen = s.reasoningOpen /\ t.phaseOpen = s.phaseOpen
      /\ t.textOffset = s.textOffset /\ t.reasoningOffset = s.reasoningOffset
      /\ t.current = s.current /\ t.content = s.content
  BY <1>1 DEF Fields
<1> HIDE DEF t
<1>3. Contents(t)
  BY <1>2 DEF Sound, Writer, Contents
<1>4. Follows(s, t, {})
  BY <1>1, <1>2, <1>3, AsideFollows
<1>5. Opened(t) = Opened(s)
  BY <1>2 DEF Opened
<1> QED BY <1>4, <1>5 DEF t

\* Nor is the preview
LEMMA PreviewAside ==
    ASSUME NEW s, Sound(s), NEW x
    PROVE  LET t == [s EXCEPT !.preview = x] IN Follows(s, t, {}) /\ Opened(t) = Opened(s)
<1> DEFINE t == [s EXCEPT !.preview = x]
<1>1. DOMAIN s = Fields /\ s.textOffset \in Nat /\ s.reasoningOffset \in Nat /\ s.current \in Nat
  BY DEF Sound, Writer
<1>2. /\ DOMAIN t = Fields /\ t.events = s.events /\ t.approvals = s.approvals
      /\ t.textOpen = s.textOpen /\ t.reasoningOpen = s.reasoningOpen /\ t.phaseOpen = s.phaseOpen
      /\ t.textOffset = s.textOffset /\ t.reasoningOffset = s.reasoningOffset
      /\ t.current = s.current /\ t.content = s.content
  BY <1>1 DEF Fields
<1> HIDE DEF t
<1>3. Contents(t)
  BY <1>2 DEF Sound, Writer, Contents
<1>4. Follows(s, t, {})
  BY <1>1, <1>2, <1>3, AsideFollows
<1>5. Opened(t) = Opened(s)
  BY <1>2 DEF Opened
<1> QED BY <1>4, <1>5 DEF t

\* The snapshot of a run that is closed, and its terminal event
LEMMA ClosedEnds ==
    ASSUME NEW s, NEW t, Follows(s, t, {}), Opened(t) = {}, Validation(s.events).started,
           NEW e, e.type \in {"RUN_FINISHED", "RUN_ERROR"}
    PROVE  Ends(s, Add(AddFinalSnapshot(t), e))
<1> DEFINE f == Ev("MESSAGES_SNAPSHOT", 0, Messages(t.events))
           w == AddFinalSnapshot(t)
<1>1. w = Add(t, f) /\ f.type \in NeutralTypes
  BY DEF AddFinalSnapshot, Ev, NeutralTypes
<1> HIDE DEF f, w
<1>2. Follows(t, w, {}) /\ Opened(w) = {}
  BY <1>1, NeutralAddFollows DEF Follows
<1>3. Follows(s, w, {})
  BY <1>2, FollowsTransitively
<1>4. Sound(w) /\ Validation(w.events).started
  BY <1>3 DEF Follows
<1>5. Ends(w, Add(w, e))
  BY <1>2, <1>4, TerminalEnds
<1> QED BY <1>3, <1>5, EndsAfter DEF w

\* Closing and the status
LEMMA FinishingWithStatus ==
    ASSUME NEW s, Sound(s), NEW status
    PROVE  LET t == [FinishText(FinishReasoning(s)) EXCEPT !.status = status]
           IN  Follows(s, t, {}) /\ Opened(t) = {}
<1> DEFINE r == FinishText(FinishReasoning(s))
           t == [r EXCEPT !.status = status]
<1>1. Follows(s, r, {}) /\ Opened(r) = {}
  BY FinishingCloses
<1> HIDE DEF r
<1>2. Follows(r, t, {}) /\ Opened(t) = Opened(r)
  BY <1>1, StatusAside DEF Follows
<1> HIDE DEF t
<1>3. Follows(s, t, {})
  BY <1>1, <1>2, FollowsTransitively
<1> QED BY <1>1, <1>2, <1>3 DEF r, t

\* Finish ends the run
LEMMA FinishEnds ==
    ASSUME NEW s, Sound(s), Validation(s.events).started
    PROVE  Ends(s, Finish(s))
<1> DEFINE e == Ev("RUN_FINISHED", 0, {})
           t == [FinishText(FinishReasoning(s)) EXCEPT !.status = "complete"]
<1>1. e.type \in {"RUN_FINISHED", "RUN_ERROR"} /\ Finish(s) = Add(AddFinalSnapshot(t), e)
  BY DEF Ev, Finish
<1>2. Follows(s, t, {}) /\ Opened(t) = {}
  BY FinishingWithStatus
<1> HIDE DEF e, t
<1> QED BY <1>1, <1>2, ClosedEnds

\* So does an error
LEMMA WriteErrorEnds ==
    ASSUME NEW s, Sound(s), Validation(s.events).started
    PROVE  Ends(s, WriteError(s))
<1> DEFINE e == Ev("RUN_ERROR", 0, 0)
           t == [FinishText(FinishReasoning(s)) EXCEPT !.status = "error"]
           preview == IF Text(t.events) = <<>> THEN <<"error">> ELSE t.preview
           u == [t EXCEPT !.preview = preview]
<1>1. e.type \in {"RUN_FINISHED", "RUN_ERROR"} /\ WriteError(s) = Add(AddFinalSnapshot(u), e)
  BY DEF Ev, WriteError
<1>2. Follows(s, t, {}) /\ Opened(t) = {}
  BY FinishingWithStatus
<1> HIDE DEF e, t, preview
<1>3. Follows(t, u, {}) /\ Opened(u) = Opened(t)
  BY <1>2, PreviewAside DEF Follows
<1> HIDE DEF u
<1>4. Follows(s, u, {})
  BY <1>2, <1>3, FollowsTransitively
<1> QED BY <1>1, <1>2, <1>3, <1>4, ClosedEnds

\* So does an interrupt, with or without a request
LEMMA InterruptEnds ==
    ASSUME NEW s, Sound(s), Validation(s.events).started
    PROVE  Ends(s, InterruptWithUsage(s))
<1>1. CASE s.interrupts = {}
  BY <1>1, FinishEnds DEF InterruptWithUsage
<1>2. CASE s.interrupts # {}
  <2> DEFINE e == Ev("RUN_FINISHED", 0, s.interrupts)
             t == [FinishText(FinishReasoning(s)) EXCEPT !.status = "interrupted"]
  <2>1. e.type \in {"RUN_FINISHED", "RUN_ERROR"} /\ InterruptWithUsage(s) = Add(AddFinalSnapshot(t), e)
    BY <1>2 DEF Ev, InterruptWithUsage
  <2>2. Follows(s, t, {}) /\ Opened(t) = {}
    BY FinishingWithStatus
  <2> HIDE DEF e, t
  <2> QED BY <2>1, <2>2, ClosedEnds
<1> QED BY <1>1, <1>2

\* Awaiting tools closes everything and ends nothing
LEMMA AwaitToolUseIs ==
    ASSUME NEW s, Sound(s)
    PROVE  Follows(s, AwaitToolUse(s), {}) /\ Opened(AwaitToolUse(s)) = {}
BY FinishingWithStatus DEF AwaitToolUse

-----------------------------------------------------------------------------
(* What the validator says of a run. *)

AllowedOf(s) == {"ended twice"} \cup (IF s.approvals = <<>> THEN {} ELSE {"after terminal"})

Judged(s) == Sound(s) /\ Validation(s.events).wrong \subseteq AllowedOf(s)

\* Nothing follows the end of a run but that of an approval
Continues(s) == Judged(s) /\ (Validation(s.events).terminal => s.approvals # <<>>)

\* A run that goes on can go on after an operation
LEMMA FollowsContinues ==
    ASSUME NEW s, Continues(s), NEW t, NEW T, Follows(s, t, T)
    PROVE  Continues(t)
<1>1. Expected(Validation(s.events)) \subseteq AllowedOf(s)
  BY DEF Expected, Continues, AllowedOf
<1>2. AllowedOf(t) = AllowedOf(s)
  BY DEF AllowedOf, Follows
<1> QED BY <1>1, <1>2 DEF Continues, Judged, Follows

\* Ended, it is still one the validator takes
LEMMA EndsJudged ==
    ASSUME NEW s, Continues(s), NEW t, Ends(s, t)
    PROVE  Judged(t)
<1>1. Expected(Validation(s.events)) \subseteq AllowedOf(s)
  BY DEF Expected, Continues, AllowedOf
<1>2. AllowedOf(t) = AllowedOf(s)
  BY DEF AllowedOf, Ends
<1> QED BY <1>1, <1>2 DEF Continues, Judged, Ends

\* t differs from s in what it says of its approvals and interrupts
LEMMA ApprovalsAside ==
    ASSUME NEW s, Continues(s), NEW t, DOMAIN t = Fields, t.events = s.events,
           t.textOpen = s.textOpen, t.reasoningOpen = s.reasoningOpen, t.phaseOpen = s.phaseOpen,
           t.textOffset = s.textOffset, t.reasoningOffset = s.reasoningOffset, t.current = s.current,
           t.content = s.content, IsSeq(t.approvals), s.approvals # <<>> => t.approvals # <<>>
    PROVE  Continues(t) /\ Opened(t) = Opened(s)
<1>1. Opened(t) = Opened(s)
  BY DEF Opened
<1>2. Writer(t)
  BY DEF Continues, Judged, Sound, Writer, Contents
<1>3. AllowedOf(s) \subseteq AllowedOf(t)
  BY DEF AllowedOf
<1> QED BY <1>1, <1>2, <1>3 DEF Continues, Judged, Sound

\* A request adds no event, and lets events follow the end
LEMMA ApprovalRequestedIs ==
    ASSUME NEW s, Continues(s), NEW call
    PROVE  LET t == ToolApprovalRequested(s, call)
           IN  /\ Continues(t) /\ Opened(t) = Opened(s)
               /\ t.events = s.events /\ t.approvals # <<>>
<1> DEFINE t == ToolApprovalRequested(s, call)
           entry == [call |-> call, state |-> "requested"]
<1>1. DOMAIN s = Fields /\ IsSeq(s.approvals)
  BY DEF Continues, Judged, Sound, Writer
<1>2. /\ DOMAIN t = Fields /\ t.events = s.events
      /\ t.textOpen = s.textOpen /\ t.reasoningOpen = s.reasoningOpen /\ t.phaseOpen = s.phaseOpen
      /\ t.textOffset = s.textOffset /\ t.reasoningOffset = s.reasoningOffset
      /\ t.current = s.current /\ t.content = s.content
      /\ t.approvals = IF \E i \in DOMAIN s.approvals : s.approvals[i].call = call
                       THEN s.approvals ELSE Append(s.approvals, entry)
  BY <1>1 DEF ToolApprovalRequested, Fields
<1> HIDE DEF t, entry
<1>3. IsSeq(t.approvals) /\ t.approvals # <<>>
  <2>1. CASE \E i \in DOMAIN s.approvals : s.approvals[i].call = call
    BY <1>1, <1>2, <2>1
  <2>2. CASE ~\E i \in DOMAIN s.approvals : s.approvals[i].call = call
    <3>1. /\ IsSeq(Append(s.approvals, entry)) /\ Len(s.approvals) \in Nat
          /\ DOMAIN Append(s.approvals, entry) = 1..(Len(s.approvals) + 1)
      BY <1>1, AppendIs, SeqIs
    <3>2. 1 \in DOMAIN Append(s.approvals, entry)
      BY <3>1
    <3>3. Append(s.approvals, entry) # <<>>
      BY <3>2
    <3> QED BY <1>2, <2>2, <3>1, <3>3
  <2> QED BY <2>1, <2>2
<1>4. Continues(t) /\ Opened(t) = Opened(s)
  BY <1>2, <1>3, ApprovalsAside
<1> QED BY <1>2, <1>3, <1>4 DEF t

\* What ToolApprovalResponded does to a run before it writes the result
Answered(s, call, state) ==
  [s EXCEPT !.approvals = [i \in DOMAIN @ |-> IF @[i].call = call THEN [@[i] EXCEPT !.state = state]
                                                                  ELSE @[i]],
            !.interrupts = @ \ {call}, !.status = "streaming"]

\* An answer changes the states of the approvals, not that there are some
LEMMA AnsweredIs ==
    ASSUME NEW s, Continues(s), NEW call, NEW state
    PROVE  LET t == Answered(s, call, state)
           IN  Continues(t) /\ Opened(t) = Opened(s) /\ t.events = s.events
<1> DEFINE t == Answered(s, call, state)
           new == [i \in DOMAIN s.approvals |-> IF s.approvals[i].call = call
                                                THEN [s.approvals[i] EXCEPT !.state = state]
                                                ELSE s.approvals[i]]
<1>1. DOMAIN s = Fields /\ IsSeq(s.approvals)
  BY DEF Continues, Judged, Sound, Writer
<1>2. /\ DOMAIN t = Fields /\ t.events = s.events
      /\ t.textOpen = s.textOpen /\ t.reasoningOpen = s.reasoningOpen /\ t.phaseOpen = s.phaseOpen
      /\ t.textOffset = s.textOffset /\ t.reasoningOffset = s.reasoningOffset
      /\ t.current = s.current /\ t.content = s.content
      /\ t.approvals = new
  BY <1>1 DEF Answered, Fields
<1>3. IsSeq(new) /\ (s.approvals # <<>> => new # <<>>)
  <2>1. Len(s.approvals) \in Nat /\ DOMAIN s.approvals = 1..Len(s.approvals)
    BY <1>1, SeqIs
  <2> DEFINE n == Len(s.approvals)
             S == {new[i] : i \in DOMAIN new}
  <2>2. new = [i \in 1..n |-> new[i]] /\ DOMAIN new = 1..n
    BY <2>1
  <2> HIDE DEF new
  <2>3. \A i \in 1..n : new[i] \in S
    BY <2>2
  <2>4. new \in [1..n -> S] /\ n \in Nat
    BY <2>1, <2>2, <2>3
  <2>5. new \in Seq(S)
    BY <2>4, SeqDef
  <2>6. s.approvals # <<>> => n # 0
    <3>1. s.approvals \in Seq({s.approvals[i] : i \in DOMAIN s.approvals})
      BY <1>1 DEF IsSeq
    <3> QED BY <3>1, EmptySeq
  <2>7. n # 0 => 1 \in DOMAIN new
    BY <2>1, <2>2
  <2>8. 1 \in DOMAIN new => new # <<>>
    OBVIOUS
  <2> QED BY <2>5, <2>6, <2>7, <2>8 DEF IsSeq
<1> HIDE DEF t, new
<1>4. Continues(t) /\ Opened(t) = Opened(s)
  BY <1>2, <1>3, ApprovalsAside
<1> QED BY <1>2, <1>4 DEF t

\* An answer and the result that stands for it
LEMMA RespondedIs ==
    ASSUME NEW s, Continues(s), Opened(s) = {}, NEW call \in Validation(s.events).tools, NEW state
    PROVE  LET t == ToolApprovalResponded(s, call, state)
           IN  /\ Continues(t) /\ Begins(s.events, t.events) /\ Opened(t) = {}
               /\ Validation(t.events).tools = Validation(s.events).tools
               /\ (Validation(t.events).started <=> Validation(s.events).started)
<1> DEFINE a == Answered(s, call, state)
           x == IF state = "approved" THEN "approval" ELSE "denial"
           t == ToolResult(a, call, x)
<1>1. ToolApprovalResponded(s, call, state) = t
  BY DEF ToolApprovalResponded, Answered
<1>2. Continues(a) /\ Opened(a) = {} /\ a.events = s.events
  BY AnsweredIs
<1> HIDE DEF a, x
<1>3. Follows(a, t, {}) /\ Opened(t) = {}
  BY <1>2, ToolResultIs DEF Continues, Judged
<1>4. Continues(t)
  BY <1>2, <1>3, FollowsContinues
<1> HIDE DEF t
<1> QED BY <1>1, <1>2, <1>3, <1>4 DEF Follows

-----------------------------------------------------------------------------
(* The inductive invariant. *)

CursorOK ==
  /\ cursor \in [published : Nat, nextSeq : Nat, started : BOOLEAN]
  /\ cursor.nextSeq = cursor.published + 1
  /\ cursor.published <= Len(run.events)
  /\ DOMAIN run = Fields /\ IsSeq(run.events)
  /\ ClientsReplayARunsBeginning

\* A run r in phase p, with the tool calls ts, may be written on
RunFits(r, p, started, ts) ==
  p # "ended" =>
    /\ Judged(r)
    /\ p \in {"idle", "streaming", "tools"} => Continues(r)
    /\ p \in {"idle", "tools"} => Opened(r) = {}
    /\ started <=> Validation(r.events).started
    /\ p \in {"streaming", "tools"} => started
    /\ \A c \in Calls : ts[c] # "none" <=> c \in Validation(r.events).tools

RunOK == RunFits(run, phase, cursor.started, tools)

BlocksOK ==
  /\ IsSeq(blocks)
  /\ DOMAIN tools = Calls
  /\ \A i \in DOMAIN blocks :
       /\ DOMAIN blocks[i] = {"kind", "call", "open"}
       /\ blocks[i].kind \in {"text", "thinking", "tool", "native"}
       /\ blocks[i].kind \in {"tool", "native"} =>
            blocks[i].call \in Calls /\ tools[blocks[i].call] # "none"

IInv == CursorOK /\ RunOK /\ BlocksOK

\* Publishing what a run goes on with keeps the seqs the positions they stand for
LEMMA PublishKeeps ==
    ASSUME CursorOK, NEW t, DOMAIN t = Fields, Begins(run.events, t.events),
           NEW c \in [published : Nat, nextSeq : Nat, started : BOOLEAN],
           c.published = cursor.published, c.nextSeq = cursor.nextSeq,
           NEW outcome, Publish(t, c, outcome)
    PROVE  CursorOK' /\ run' = t /\ cursor'.started = c.started
<1> DEFINE a == c.published
           b == Len(t.events)
<1>1. /\ a \in Nat /\ b \in Nat /\ Len(run.events) \in Nat
      /\ a <= Len(run.events) /\ Len(run.events) <= b /\ c.nextSeq = a + 1
  BY SeqIs DEF CursorOK, Begins
<1>2. PICK n \in a..Len(run.events) : sent = {<<i, i>> : i \in 1..n}
  BY DEF CursorOK, ClientsReplayARunsBeginning
<1>3. run' = t
  BY DEF Publish
<1>4. Carrier(t, c) = {<<i, i>> : i \in (a + 1)..b}
  <2>1. \A i \in (a + 1)..b : c.nextSeq + i - c.published - 1 = i
    BY <1>1
  <2> QED BY <2>1 DEF Carrier
<1>5. /\ Advanced(t, c).published = b /\ Advanced(t, c).nextSeq = b + 1
      /\ Advanced(t, c).started = c.started
      /\ Advanced(t, c) \in [published : Nat, nextSeq : Nat, started : BOOLEAN]
  <2> DEFINE next == c.nextSeq + Len(t.events) - c.published
             d == [c EXCEPT !.nextSeq = next, !.published = b]
  <2>1. next = b + 1 /\ next \in Nat
    BY <1>1
  <2>2. Advanced(t, c) = d
    BY DEF Advanced
  <2> HIDE DEF next, b
  <2>3. /\ d.published = b /\ d.nextSeq = next /\ d.started = c.started
        /\ d \in [published : Nat, nextSeq : Nat, started : BOOLEAN]
    BY <1>1, <2>1 DEF b
  <2> HIDE DEF d
  <2> QED BY <2>1, <2>2, <2>3
<1>6. cursor' = c \/ (cursor' = Advanced(t, c) /\ sent' = sent \cup Carrier(t, c))
  <2>1. CASE c.published >= Len(t.events)
    BY <2>1 DEF Publish
  <2>2. CASE ~(c.published >= Len(t.events))
    BY <2>2 DEF Publish
  <2> QED BY <2>1, <2>2
<1>7. sent' \in {sent, sent \cup Carrier(t, c)}
  BY DEF Publish
<1>8. sent \cup Carrier(t, c) = {<<i, i>> : i \in 1..b}
  <2>1. sent \cup Carrier(t, c) = {<<i, i>> : i \in (1..n) \cup ((a + 1)..b)}
    BY <1>2, <1>4
  <2>2. (1..n) \cup ((a + 1)..b) = 1..b
    BY <1>1, <1>2
  <2> QED BY <2>1, <2>2
<1> HIDE DEF a, b
<1>9. CASE cursor' = c
  <2>1. \E m \in a..b : sent' = {<<i, i>> : i \in 1..m}
    <3>1. n \in a..b /\ b \in a..b
      BY <1>1, <1>2
    <3>2. CASE sent' = sent
      BY <1>2, <3>1, <3>2
    <3>3. CASE sent' = sent \cup Carrier(t, c)
      BY <1>8, <3>1, <3>3
    <3> QED BY <1>7, <3>2, <3>3
  <2>2. ClientsReplayARunsBeginning'
    BY <2>1, <1>3, <1>9 DEF ClientsReplayARunsBeginning, a, b
  <2> QED BY <1>1, <1>3, <1>9, <2>2 DEF CursorOK, Begins, a, b
<1>10. CASE cursor' = Advanced(t, c) /\ sent' = sent \cup Carrier(t, c)
  <2>1. cursor'.published = b /\ cursor'.nextSeq = b + 1 /\ cursor'.started = c.started
        /\ cursor' \in [published : Nat, nextSeq : Nat, started : BOOLEAN]
    BY <1>1, <1>5, <1>10
  <2>2. b \in b..b
    BY <1>1
  <2>3. ClientsReplayARunsBeginning'
    BY <2>1, <2>2, <1>3, <1>8, <1>10 DEF ClientsReplayARunsBeginning, b
  <2> QED BY <1>1, <1>3, <2>1, <2>3 DEF CursorOK, Begins, b
<1> QED BY <1>6, <1>9, <1>10

\* An event of the provider, written by an operation the validator follows
LEMMA UpstreamKeeps ==
    ASSUME IInv, NEW t, NEW T, Follows(run, t, T), NEW outcome, Upstream(t, outcome),
           \A c \in Calls : tools'[c] # "none" <=> tools[c] # "none" \/ c \in T
    PROVE  CursorOK' /\ RunOK'
<1>1. phase = "streaming" /\ Publish(t, cursor, outcome) /\ phase' \in {"streaming", "failed"}
  BY DEF Upstream
<1>2. DOMAIN t = Fields /\ Begins(run.events, t.events)
  BY DEF Follows, Sound, Writer
<1>3. CursorOK' /\ run' = t /\ cursor'.started = cursor.started
  BY <1>1, <1>2, PublishKeeps DEF IInv, CursorOK
<1>4. /\ Continues(run) /\ cursor.started
      /\ cursor.started <=> Validation(run.events).started
      /\ \A c \in Calls : tools[c] # "none" <=> c \in Validation(run.events).tools
  BY <1>1 DEF IInv, RunOK, RunFits
<1>5. Continues(t)
  BY <1>4, FollowsContinues
<1>6. RunFits(t, phase', cursor'.started, tools')
  BY <1>1, <1>3, <1>4, <1>5 DEF RunFits, Follows, Continues
<1> QED BY <1>3, <1>6 DEF RunOK

\* The fresh call of a block is one that has not been seen
LEMMA FreshCallIs ==
    ASSUME \E c \in Calls : tools[c] = "none"
    PROVE  FreshCall \in Calls /\ tools[FreshCall] = "none"
BY DEF FreshCall

\* The first call starts the run, once; a new writer starts with nothing open
LEMMA StreamFnKeeps ==
    ASSUME IInv, NEW o, StreamFn(o)
    PROVE  IInv'
<1> DEFINE s == NewWriter(run)
           t == IF cursor.started THEN s ELSE Start(s)
           c == [cursor EXCEPT !.started = TRUE]
<1>1. /\ phase = "idle" /\ Publish(t, c, o) /\ phase' \in {"streaming", "failed"}
      /\ blocks' = <<>> /\ tools' = tools
  BY DEF StreamFn
<1>2. /\ Continues(run) /\ Opened(run) = {} /\ Sound(run)
      /\ cursor.started <=> Validation(run.events).started
      /\ \A d \in Calls : tools[d] # "none" <=> d \in Validation(run.events).tools
  BY <1>1 DEF IInv, RunOK, RunFits, Continues, Judged
<1>3. Follows(run, s, {})
  BY <1>2, NewWriterIs
<1> HIDE DEF s
<1>4. Continues(s) /\ Sound(s)
  BY <1>2, <1>3, FollowsContinues DEF Continues, Judged
<1>5. /\ Continues(t) /\ Begins(run.events, t.events) /\ Validation(t.events).started
      /\ Validation(t.events).tools = Validation(run.events).tools
  <2>1. CASE cursor.started
    BY <1>2, <1>3, <1>4, <2>1 DEF Follows
  <2>2. CASE ~cursor.started
    <3> DEFINE e == Ev("RUN_STARTED", 0, 0)
               v == Validation(s.events)
               u == Add(s, e)
    <3>1. t = u
      BY <2>2 DEF Start
    <3>2. e.type = "RUN_STARTED" /\ e.type \notin NumberedTypes
      BY DEF Ev, NumberedTypes, TextTypes
    <3> HIDE DEF e
    <3>3. ~v.started
      BY <1>2, <1>3, <2>2 DEF Follows
    <3>4. Complaint(v, e) \subseteq Expected(v)
      BY <3>2, <3>3 DEF Complaint, Expected, ToolTypes
    <3>5. /\ Validated(v, e).open = v.open /\ Validated(v, e).tools = v.tools
          /\ Validated(v, e).started /\ (Validated(v, e).terminal <=> v.terminal)
          /\ Validated(v, e).wrong = v.wrong \cup Complaint(v, e)
      BY <3>2 DEF Validated
    <3> HIDE DEF u
    <3>6. /\ Writer(u) /\ u.approvals = s.approvals /\ Begins(s.events, u.events)
          /\ u.textOpen = s.textOpen /\ u.reasoningOpen = s.reasoningOpen
          /\ u.phaseOpen = s.phaseOpen /\ Validation(u.events) = Validated(v, e)
      BY <1>4, <3>2, AddIs DEF Sound, u
    <3>7. Opened(u) = Opened(s) /\ AllowedOf(u) = AllowedOf(s)
      BY <3>6 DEF Opened, AllowedOf
    <3>8. Sound(u)
      BY <1>4, <3>5, <3>6, <3>7 DEF Sound
    <3>9. Expected(v) \subseteq AllowedOf(s)
      BY <1>4 DEF Expected, Continues, AllowedOf
    <3>10. Continues(u)
      BY <1>4, <3>4, <3>5, <3>6, <3>7, <3>8, <3>9 DEF Continues, Judged
    <3>11. Begins(run.events, u.events)
      BY <1>3, <3>6, BeginsTransitively DEF Follows
    <3>12. v.tools = Validation(run.events).tools
      BY <1>3 DEF Follows
    <3> HIDE DEF v
    <3> QED BY <3>1, <3>5, <3>6, <3>10, <3>11, <3>12
  <2> QED BY <2>1, <2>2
<1> HIDE DEF t
<1>6. c \in [published : Nat, nextSeq : Nat, started : BOOLEAN] /\ c.started
      /\ c.published = cursor.published /\ c.nextSeq = cursor.nextSeq
  BY DEF IInv, CursorOK
<1> HIDE DEF c
<1>7. DOMAIN t = Fields
  BY <1>5 DEF Continues, Judged, Sound, Writer
<1>8. CursorOK' /\ run' = t /\ cursor'.started
  BY <1>1, <1>5, <1>6, <1>7, PublishKeeps DEF IInv
<1>9. RunFits(t, phase', cursor'.started, tools')
  BY <1>1, <1>2, <1>5, <1>8 DEF RunFits, Continues
<1>10. BlocksOK'
  <2>1. IsSeq(<<>>) /\ DOMAIN <<>> = {}
    BY DEF IsSeq
  <2> QED BY <1>1, <2>1 DEF IInv, BlocksOK
<1> QED BY <1>8, <1>9, <1>10 DEF IInv, RunOK

\* The start of a block of any kind
LEMMA BlockStartKeeps ==
    ASSUME IInv, NEW kind \in {"text", "thinking", "tool", "native"}, NEW o, BlockStart(kind, o)
    PROVE  IInv'
<1> DEFINE i == Len(blocks)
           call == FreshCall
           t == CASE kind = "text"     -> TextStart(run, i)
                  [] kind = "thinking" -> ReasoningMessageStart(run, i)
                  [] OTHER             -> ToolStart(run, call)
           T == IF kind \in {"tool", "native"} THEN {call} ELSE {}
           b == [kind |-> kind, call |-> call, open |-> TRUE]
<1>1. /\ Upstream(t, o) /\ blocks' = Append(blocks, b)
      /\ tools' = IF kind \in {"tool", "native"} THEN [tools EXCEPT ![call] = kind] ELSE tools
      /\ kind \in {"tool", "native"} => \E c \in Calls : tools[c] = "none"
  BY DEF BlockStart
<1>2. phase = "streaming"
  BY <1>1 DEF Upstream
<1>3. /\ Sound(run) /\ i \in Nat
      /\ \A c \in Calls : tools[c] # "none" <=> c \in Validation(run.events).tools
  BY <1>2, SeqIs DEF IInv, RunOK, RunFits, Judged, BlocksOK
<1>4. kind \in {"tool", "native"} => call \in Calls /\ tools[call] = "none"
  BY <1>1, FreshCallIs
<1> HIDE DEF i, call
<1>5. Follows(run, t, T)
  <2>1. CASE kind = "text"
    BY <1>3, <2>1, TextStartIs
  <2>2. CASE kind = "thinking"
    BY <1>3, <2>2, ReasoningMessageStartIs
  <2>3. CASE kind \in {"tool", "native"}
    <3>1. call \notin Validation(run.events).tools
      BY <1>3, <1>4, <2>3
    <3> QED BY <1>3, <2>3, <3>1, ToolStartIs
  <2> QED BY <2>1, <2>2, <2>3
<1> HIDE DEF t
<1>6. /\ DOMAIN tools' = Calls
      /\ \A c \in Calls : tools'[c] # "none" <=> tools[c] # "none" \/ c \in T
  <2>1. CASE kind \in {"tool", "native"}
    BY <1>1, <1>4, <2>1 DEF IInv, BlocksOK
  <2>2. CASE kind \notin {"tool", "native"}
    BY <1>1, <2>2 DEF IInv, BlocksOK
  <2> QED BY <2>1, <2>2
<1>7. CursorOK' /\ RunOK'
  <2> HIDE DEF T
  <2> QED BY <1>1, <1>5, <1>6, UpstreamKeeps
<1>8. BlocksOK'
  <2>1. /\ IsSeq(blocks') /\ Len(blocks) \in Nat /\ DOMAIN blocks = 1..Len(blocks)
        /\ DOMAIN blocks' = 1..(Len(blocks) + 1)
        /\ \A j \in 1..Len(blocks) : blocks'[j] = blocks[j]
        /\ blocks'[Len(blocks) + 1] = b
    BY <1>1, SeqIs, AppendIs DEF IInv, BlocksOK
  <2>2. ASSUME NEW j \in DOMAIN blocks'
        PROVE  /\ DOMAIN blocks'[j] = {"kind", "call", "open"}
               /\ blocks'[j].kind \in {"text", "thinking", "tool", "native"}
               /\ blocks'[j].kind \in {"tool", "native"} =>
                    blocks'[j].call \in Calls /\ tools'[blocks'[j].call] # "none"
    <3>1. CASE j \in 1..Len(blocks)
      BY <1>6, <2>1, <3>1 DEF IInv, BlocksOK
    <3>2. CASE j = Len(blocks) + 1
      BY <1>4, <1>6, <2>1, <3>2
    <3> QED BY <2>1, <3>1, <3>2
  <2> QED BY <1>6, <2>1, <2>2 DEF BlocksOK
<1> QED BY <1>7, <1>8 DEF IInv

\* A delta: the call of a tool block was started
LEMMA BlockDeltaKeeps ==
    ASSUME IInv, NEW i \in DOMAIN blocks, NEW o, BlockDelta(i, o)
    PROVE  IInv'
<1> DEFINE b == blocks[i]
           t == CASE b.kind = "text"     -> TextDelta(run, i - 1, Token)
                  [] b.kind = "thinking" -> ReasoningDelta(run, i - 1, Token)
                  [] OTHER               -> ToolArgs(run, b.call)
<1>1. Upstream(t, o) /\ blocks' = blocks /\ tools' = tools
  BY DEF BlockDelta
<1>2. phase = "streaming"
  BY <1>1 DEF Upstream
<1>3. /\ Sound(run) /\ i - 1 \in Nat
      /\ \A c \in Calls : tools[c] # "none" <=> c \in Validation(run.events).tools
  <2>1. i \in 1..Len(blocks) /\ Len(blocks) \in Nat
    BY SeqIs DEF IInv, BlocksOK
  <2> QED BY <1>2, <2>1 DEF IInv, RunOK, RunFits, Judged
<1>4. /\ b.kind \in {"text", "thinking", "tool", "native"}
      /\ b.kind \in {"tool", "native"} => b.call \in Calls /\ tools[b.call] # "none"
  BY DEF IInv, BlocksOK
<1> HIDE DEF b
<1>5. Follows(run, t, {})
  <2>1. CASE b.kind = "text"
    BY <1>3, <2>1, TextDeltaIs
  <2>2. CASE b.kind = "thinking"
    BY <1>3, <2>2, ReasoningDeltaIs
  <2>3. CASE b.kind \in {"tool", "native"}
    BY <1>3, <1>4, <2>3, ToolArgsIs
  <2> QED BY <1>4, <2>1, <2>2, <2>3
<1> HIDE DEF t
<1>6. CursorOK' /\ RunOK'
  BY <1>1, <1>5, UpstreamKeeps
<1>7. BlocksOK'
  BY <1>1 DEF IInv, BlocksOK
<1> QED BY <1>6, <1>7 DEF IInv

\* The end of a block of any kind
LEMMA BlockEndKeeps ==
    ASSUME IInv, NEW i \in DOMAIN blocks, NEW full \in BOOLEAN, NEW o, BlockEnd(i, full, o)
    PROVE  IInv'
<1> DEFINE b == blocks[i]
           rest == IF full THEN <<Token>> ELSE <<>>
           content == ReasoningContent(run, i - 1) \o rest
           t == CASE b.kind = "text"     -> TextEnd(run, i - 1)
                  [] b.kind = "thinking" -> ReasoningMessageEnd(
                                              ReasoningContentSnapshot(run, i - 1, content), i - 1)
                  [] b.kind = "tool"     -> ToolInputComplete(run, b.call)
                  [] OTHER               -> Custom(ToolEnd(run, b.call, "complete"), b.call)
<1>1. /\ Upstream(t, o) /\ blocks' = [blocks EXCEPT ![i].open = FALSE]
      /\ tools' = IF b.kind = "native" THEN [tools EXCEPT ![b.call] = "done"] ELSE tools
  BY DEF BlockEnd
<1>2. phase = "streaming"
  BY <1>1 DEF Upstream
<1>3. /\ Sound(run) /\ i - 1 \in Nat
      /\ \A c \in Calls : tools[c] # "none" <=> c \in Validation(run.events).tools
  <2>1. i \in 1..Len(blocks) /\ Len(blocks) \in Nat
    BY SeqIs DEF IInv, BlocksOK
  <2> QED BY <1>2, <2>1 DEF IInv, RunOK, RunFits, Judged
<1>4. /\ b.kind \in {"text", "thinking", "tool", "native"}
      /\ b.kind \in {"tool", "native"} => b.call \in Calls /\ tools[b.call] # "none"
  BY DEF IInv, BlocksOK
<1>5. Len(content) \in Nat
  <2> DEFINE had == ReasoningContent(run, i - 1)
             S == {had[j] : j \in DOMAIN had} \cup {Token}
  <2>1. IsSeq(had)
    <3>1. IsSeq(<<>>)
      BY DEF IsSeq
    <3> QED BY <1>3, <3>1 DEF ReasoningContent, Sound, Writer, Contents
  <2>2. rest \in Seq(S)
    <3>1. Token \in S
      OBVIOUS
    <3> HIDE DEF S
    <3>2. <<>> \in Seq(S) /\ <<Token>> \in Seq(S)
      BY <3>1
    <3> QED BY <3>2
  <2>3. had \in Seq(S)
    BY <2>1, SeqMonotonic DEF IsSeq
  <2> HIDE DEF had, S, rest
  <2>4. had \o rest \in Seq(S)
    BY <2>2, <2>3, ConcatProperties
  <2>5. Len(had \o rest) \in Nat
    BY <2>4, LenProperties
  <2> QED BY <2>5 DEF had
<1> HIDE DEF b, content
<1>6. Follows(run, t, {})
  <2>1. CASE b.kind = "text"
    BY <1>3, <2>1, CloseTextIs DEF TextEnd
  <2>2. CASE b.kind = "thinking"
    <3> DEFINE r == ReasoningContentSnapshot(run, i - 1, content)
    <3>1. Follows(run, r, {})
      BY <1>3, <1>5, ReasoningContentSnapshotIs
    <3> HIDE DEF r
    <3>2. Follows(r, ReasoningMessageEnd(r, i - 1), {})
      BY <3>1, CloseReasoningIs DEF ReasoningMessageEnd, Follows
    <3>3. Follows(run, ReasoningMessageEnd(r, i - 1), {})
      BY <3>1, <3>2, FollowsTransitively
    <3> QED BY <2>2, <3>3 DEF r
  <2>3. CASE b.kind = "tool"
    BY <1>3, <1>4, <2>3, ToolInputCompleteIs
  <2>4. CASE b.kind = "native"
    <3> DEFINE r == ToolEnd(run, b.call, "complete")
    <3>1. Follows(run, r, {})
      BY <1>3, <1>4, <2>4, ToolEndIs
    <3> HIDE DEF r
    <3>2. Follows(r, Custom(r, b.call), {})
      BY <3>1, CustomIs DEF Follows
    <3>3. Follows(run, Custom(r, b.call), {})
      BY <3>1, <3>2, FollowsTransitively
    <3> QED BY <2>4, <3>3 DEF r
  <2> QED BY <1>4, <2>1, <2>2, <2>3, <2>4
<1> HIDE DEF t
<1>7. DOMAIN tools' = Calls /\ \A c \in Calls : tools'[c] # "none" <=> tools[c] # "none"
  <2>1. CASE b.kind = "native"
    BY <1>1, <1>4, <2>1 DEF IInv, BlocksOK
  <2>2. CASE b.kind # "native"
    BY <1>1, <2>2 DEF IInv, BlocksOK
  <2> QED BY <2>1, <2>2
<1>8. CursorOK' /\ RunOK'
  BY <1>1, <1>6, <1>7, UpstreamKeeps
<1>9. BlocksOK'
  <2>1. Len(blocks) \in Nat /\ DOMAIN blocks = 1..Len(blocks)
    BY SeqIs DEF IInv, BlocksOK
  <2>2. /\ DOMAIN blocks' = DOMAIN blocks
        /\ \A j \in DOMAIN blocks : /\ DOMAIN blocks'[j] = DOMAIN blocks[j]
                                    /\ blocks'[j].kind = blocks[j].kind
                                    /\ blocks'[j].call = blocks[j].call
    BY <1>1 DEF IInv, BlocksOK
  <2>3. IsSeq(blocks')
    <3> DEFINE S == {blocks'[j] : j \in DOMAIN blocks'}
    <3>1. blocks' \in [1..Len(blocks) -> S]
      <4>1. blocks' = [j \in 1..Len(blocks) |-> blocks'[j]]
        BY <1>1, <2>1
      <4>2. \A j \in 1..Len(blocks) : blocks'[j] \in S
        BY <2>1, <2>2
      <4> HIDE DEF S
      <4> QED BY <4>1, <4>2
    <3> HIDE DEF S
    <3>2. blocks' \in Seq(S)
      BY <2>1, <3>1, SeqDef
    <3> QED BY <3>2 DEF IsSeq, S
  <2> QED BY <1>7, <2>2, <2>3 DEF IInv, BlocksOK
<1> QED BY <1>8, <1>9 DEF IInv

\* The terminal event of a turn ends the run, or leaves it to the tools
LEMMA DoneKeeps ==
    ASSUME IInv, NEW unstreamed \in BOOLEAN, NEW o, Done(unstreamed, o)
    PROVE  IInv'
<1> DEFINE s == IF unstreamed THEN TextEnd(TextDelta(run, 0, Token), 0) ELSE run
           t == IF Wanted # {} THEN AwaitToolUse(s) ELSE Finish(s)
<1>1. /\ phase = "streaming" /\ Publish(t, cursor, o)
      /\ phase' = IF o # "ok" THEN "failed" ELSE IF Wanted # {} THEN "tools" ELSE "done"
      /\ tools' = [c \in Calls |-> IF c \in Wanted /\ o = "ok" THEN "wanted" ELSE tools[c]]
      /\ blocks' = blocks
  BY DEF Done
<1>2. /\ Continues(run) /\ Sound(run) /\ cursor.started /\ Validation(run.events).started
      /\ \A c \in Calls : tools[c] # "none" <=> c \in Validation(run.events).tools
  BY <1>1 DEF IInv, RunOK, RunFits, Continues, Judged
<1>3. Follows(run, s, {})
  <2>1. CASE unstreamed
    <3> DEFINE r == TextDelta(run, 0, Token)
    <3>1. Follows(run, r, {})
      BY <1>2, TextDeltaIs
    <3> HIDE DEF r
    <3>2. Follows(r, TextEnd(r, 0), {})
      BY <3>1, CloseTextIs DEF TextEnd, Follows
    <3>3. Follows(run, TextEnd(r, 0), {})
      BY <3>1, <3>2, FollowsTransitively
    <3> QED BY <2>1, <3>3 DEF r
  <2>2. CASE ~unstreamed
    BY <1>2, <2>2, FollowsItself
  <2> QED BY <2>1, <2>2
<1> HIDE DEF s
<1>4. Continues(s) /\ Sound(s) /\ Validation(s.events).started
  BY <1>2, <1>3, FollowsContinues DEF Follows
<1>5. /\ Judged(t) /\ Begins(s.events, t.events) /\ Validation(t.events).started
      /\ Validation(t.events).tools = Validation(s.events).tools
      /\ Wanted # {} => Continues(t) /\ Opened(t) = {}
  <2>1. CASE Wanted # {}
    <3>1. Follows(s, AwaitToolUse(s), {}) /\ Opened(AwaitToolUse(s)) = {}
      BY <1>4, AwaitToolUseIs
    <3>2. t = AwaitToolUse(s)
      BY <2>1
    <3> HIDE DEF t
    <3>3. Continues(t)
      BY <1>4, <3>1, <3>2, FollowsContinues
    <3> QED BY <1>4, <3>1, <3>2, <3>3 DEF Follows, Continues
  <2>2. CASE Wanted = {}
    <3>1. Ends(s, Finish(s)) /\ t = Finish(s)
      BY <1>4, <2>2, FinishEnds
    <3> HIDE DEF t
    <3>2. Judged(t)
      BY <1>4, <3>1, EndsJudged
    <3> QED BY <2>2, <3>1, <3>2 DEF Ends
  <2> QED BY <2>1, <2>2
<1> HIDE DEF t
<1>6. DOMAIN t = Fields /\ Begins(run.events, t.events)
  BY <1>3, <1>5, BeginsTransitively DEF Follows, Judged, Sound, Writer
<1>7. CursorOK' /\ run' = t /\ cursor'.started = cursor.started
  BY <1>1, <1>6, PublishKeeps DEF IInv, CursorOK
<1>8. \A c \in Calls : tools'[c] # "none" <=> tools[c] # "none"
  <2>1. \A c \in Wanted : c \in Calls => tools[c] # "none"
    BY DEF Wanted, IInv, BlocksOK
  <2> QED BY <1>1, <2>1
<1>9. RunFits(t, phase', cursor'.started, tools')
  <2>1. phase' = "tools" => Wanted # {}
    BY <1>1
  <2>2. phase' \in {"failed", "tools", "done"}
    BY <1>1
  <2>3. Validation(t.events).tools = Validation(run.events).tools
    BY <1>3, <1>5 DEF Follows
  <2> QED BY <1>2, <1>5, <1>7, <1>8, <2>1, <2>2, <2>3 DEF RunFits
<1>10. BlocksOK'
  <2>1. DOMAIN tools' = Calls
    BY <1>1
  <2> QED BY <1>1, <1>8, <2>1 DEF IInv, BlocksOK
<1> QED BY <1>7, <1>9, <1>10 DEF IInv, RunOK

\* A failure ends the run whatever is open
LEMMA StreamErrorKeeps ==
    ASSUME IInv, NEW o, StreamError(o)
    PROVE  IInv'
<1> DEFINE t == WriteError(run)
<1>1. /\ phase = "streaming" /\ Publish(t, cursor, o) /\ phase' = "failed"
      /\ tools' = tools /\ blocks' = blocks
  BY DEF StreamError
<1>2. /\ Continues(run) /\ Sound(run) /\ cursor.started /\ Validation(run.events).started
      /\ \A c \in Calls : tools[c] # "none" <=> c \in Validation(run.events).tools
  BY <1>1 DEF IInv, RunOK, RunFits, Continues, Judged
<1>3. Ends(run, t)
  BY <1>2, WriteErrorEnds
<1> HIDE DEF t
<1>4. Judged(t) /\ DOMAIN t = Fields
  BY <1>2, <1>3, EndsJudged DEF Ends, Sound, Writer
<1>5. CursorOK' /\ run' = t /\ cursor'.started = cursor.started
  BY <1>1, <1>3, <1>4, PublishKeeps DEF IInv, CursorOK, Ends
<1>6. RunFits(t, phase', cursor'.started, tools')
  BY <1>1, <1>2, <1>3, <1>4, <1>5 DEF RunFits, Ends
<1> QED BY <1>1, <1>5, <1>6 DEF IInv, RunOK, BlocksOK

\* A tool writes to a run in which nothing is open
LEMMA PublishToolOutputKeeps ==
    ASSUME IInv, NEW call \in Calls, NEW state \in {"complete", "error"}, NEW o,
           PublishToolOutput(call, state, o)
    PROVE  IInv'
<1> DEFINE s == ToolEnd(NewWriter(run), call, state)
           t == IF state = "complete" THEN Custom(s, call) ELSE s
<1>1. /\ phase = "tools" /\ tools[call] \in {"wanted", "answered"}
      /\ Publish(t, cursor, o) /\ tools' = [tools EXCEPT ![call] = state]
      /\ phase' \in {"idle", "tools"} /\ blocks' = blocks
  BY DEF PublishToolOutput
<1>2. /\ Continues(run) /\ Sound(run) /\ Opened(run) = {} /\ cursor.started
      /\ Validation(run.events).started
      /\ \A c \in Calls : tools[c] # "none" <=> c \in Validation(run.events).tools
  BY <1>1 DEF IInv, RunOK, RunFits, Continues, Judged
<1> DEFINE w == NewWriter(run)
<1>3. Follows(run, w, {}) /\ Opened(w) = {}
  BY <1>2, NewWriterIs
<1> HIDE DEF w
<1>4. Sound(w) /\ call \in Validation(w.events).tools
  BY <1>1, <1>2, <1>3 DEF Follows
<1>5. Follows(w, ToolEnd(w, call, state), {}) /\ Opened(ToolEnd(w, call, state)) = {}
  BY <1>3, <1>4, ToolEndIs
<1>6. s = ToolEnd(w, call, state)
  BY DEF w
<1> HIDE DEF s
<1>7. Follows(run, s, {}) /\ Opened(s) = {}
  BY <1>3, <1>5, <1>6, FollowsTransitively
<1>8. Follows(run, t, {}) /\ Opened(t) = {}
  <2>1. CASE state = "complete"
    <3>1. t = Custom(s, call)
      BY <2>1
    <3> HIDE DEF t
    <3>2. Follows(s, t, {}) /\ Opened(t) = {}
      BY <1>7, <3>1, CustomIs DEF Follows
    <3>3. Follows(run, t, {})
      BY <1>7, <3>2, FollowsTransitively
    <3> QED BY <3>2, <3>3
  <2>2. CASE state # "complete"
    BY <1>7, <2>2
  <2> QED BY <2>1, <2>2
<1> HIDE DEF t
<1>9. DOMAIN t = Fields /\ Begins(run.events, t.events) /\ Continues(t)
  BY <1>2, <1>8, FollowsContinues DEF Follows, Sound, Writer
<1>10. CursorOK' /\ run' = t /\ cursor'.started = cursor.started
  BY <1>1, <1>9, PublishKeeps DEF IInv, CursorOK
<1>11. DOMAIN tools' = Calls /\ \A c \in Calls : tools'[c] # "none" <=> tools[c] # "none"
  BY <1>1 DEF IInv, BlocksOK
<1>12. RunFits(t, phase', cursor'.started, tools')
  <2>1. /\ Validation(t.events).tools = Validation(run.events).tools
        /\ (Validation(t.events).started <=> Validation(run.events).started)
    BY <1>8 DEF Follows
  <2> QED BY <1>1, <1>2, <1>8, <1>9, <1>10, <1>11, <2>1 DEF RunFits, Continues
<1>13. BlocksOK'
  BY <1>1, <1>11 DEF IInv, BlocksOK
<1> QED BY <1>10, <1>12, <1>13 DEF IInv, RunOK

\* An approval ends the run and lets it go on
LEMMA RequestApprovalKeeps ==
    ASSUME IInv, NEW call \in Calls, RequestApproval(call)
    PROVE  IInv'
<1> DEFINE w == NewWriter(run)
           a == ToolApprovalRequested(w, call)
           i == InterruptWithUsage(a)
           t == Custom(i, call)
<1>1. /\ phase = "tools" /\ tools[call] = "wanted"
      /\ Publish(t, cursor, "ok") /\ tools' = [tools EXCEPT ![call] = "asked"]
      /\ phase' = "tools" /\ blocks' = blocks
  BY DEF RequestApproval
<1>2. /\ Continues(run) /\ Sound(run) /\ Opened(run) = {} /\ cursor.started
      /\ Validation(run.events).started
      /\ \A c \in Calls : tools[c] # "none" <=> c \in Validation(run.events).tools
  BY <1>1 DEF IInv, RunOK, RunFits, Continues, Judged
<1>3. Follows(run, w, {}) /\ w.events = run.events
  BY <1>2, NewWriterIs
<1> HIDE DEF w
<1>4. Continues(w)
  BY <1>2, <1>3, FollowsContinues
<1>5. Continues(a) /\ a.events = run.events /\ a.approvals # <<>>
  BY <1>3, <1>4, ApprovalRequestedIs
<1> HIDE DEF a
<1>6. Ends(a, i)
  BY <1>2, <1>5, InterruptEnds DEF Continues, Judged
<1> HIDE DEF i
<1>7. Continues(i) /\ Sound(i)
  BY <1>5, <1>6, EndsJudged DEF Continues, Ends
<1>8. Follows(i, t, {}) /\ Opened(t) = {}
  BY <1>6, <1>7, CustomIs DEF Ends
<1>9. Continues(t) /\ DOMAIN t = Fields
  BY <1>7, <1>8, FollowsContinues DEF Follows, Sound, Writer
<1>10. /\ Begins(run.events, t.events) /\ Validation(t.events).started
       /\ Validation(t.events).tools = Validation(run.events).tools
  <2>1. Begins(run.events, i.events) /\ Begins(i.events, t.events)
    BY <1>5, <1>6, <1>8 DEF Ends, Follows
  <2>2. Begins(run.events, t.events)
    BY <2>1, BeginsTransitively
  <2> QED BY <1>5, <1>6, <1>8, <2>2 DEF Ends, Follows
<1>11. CursorOK' /\ run' = t /\ cursor'.started = cursor.started
  BY <1>1, <1>9, <1>10, PublishKeeps DEF IInv, CursorOK
<1>12. DOMAIN tools' = Calls /\ \A c \in Calls : tools'[c] # "none" <=> tools[c] # "none"
  BY <1>1 DEF IInv, BlocksOK
<1>13. RunFits(t, phase', cursor'.started, tools')
  BY <1>1, <1>2, <1>8, <1>9, <1>10, <1>11, <1>12 DEF RunFits, Continues
<1>14. BlocksOK'
  BY <1>1, <1>12 DEF IInv, BlocksOK
<1> QED BY <1>11, <1>13, <1>14 DEF IInv, RunOK

\* The answer goes into the run after its end
LEMMA RespondKeeps ==
    ASSUME IInv, NEW call \in Calls, NEW answer, Respond(call, answer)
    PROVE  IInv'
<1> DEFINE w == NewWriter(run)
           t == ToolApprovalResponded(w, call, answer)
<1>1. /\ phase = "tools" /\ tools[call] = "asked"
      /\ Publish(t, cursor, "ok") /\ tools' = [tools EXCEPT ![call] = "answered"]
      /\ phase' = "tools" /\ blocks' = blocks
  BY DEF Respond
<1>2. /\ Continues(run) /\ Sound(run) /\ Opened(run) = {} /\ cursor.started
      /\ Validation(run.events).started
      /\ \A c \in Calls : tools[c] # "none" <=> c \in Validation(run.events).tools
  BY <1>1 DEF IInv, RunOK, RunFits, Continues, Judged
<1>3. Follows(run, w, {}) /\ Opened(w) = {} /\ w.events = run.events
  BY <1>2, NewWriterIs
<1> HIDE DEF w
<1>4. Continues(w) /\ call \in Validation(w.events).tools
  BY <1>1, <1>2, <1>3, FollowsContinues
<1>5. /\ Continues(t) /\ Begins(run.events, t.events) /\ Opened(t) = {}
      /\ Validation(t.events).tools = Validation(run.events).tools
      /\ Validation(t.events).started
  BY <1>2, <1>3, <1>4, RespondedIs
<1> HIDE DEF t
<1>6. DOMAIN t = Fields
  BY <1>5 DEF Continues, Judged, Sound, Writer
<1>7. CursorOK' /\ run' = t /\ cursor'.started = cursor.started
  BY <1>1, <1>5, <1>6, PublishKeeps DEF IInv, CursorOK
<1>8. DOMAIN tools' = Calls /\ \A c \in Calls : tools'[c] # "none" <=> tools[c] # "none"
  BY <1>1 DEF IInv, BlocksOK
<1>9. RunFits(t, phase', cursor'.started, tools')
  BY <1>1, <1>2, <1>5, <1>7, <1>8 DEF RunFits, Continues
<1>10. BlocksOK'
  BY <1>1, <1>8 DEF IInv, BlocksOK
<1> QED BY <1>7, <1>9, <1>10 DEF IInv, RunOK

-----------------------------------------------------------------------------
(* The final edit, and the theorems about what is published. *)

\* t is s with more events
Grows(s, t) == DOMAIN t = Fields /\ Begins(s.events, t.events)

\* One event
LEMMA AddGrows ==
    ASSUME NEW s, DOMAIN s = Fields, IsSeq(s.events), NEW e
    PROVE  Grows(s, Add(s, e)) /\ IsSeq(Add(s, e).events)
<1>1. DOMAIN Add(s, e) = Fields /\ Add(s, e).events = Append(s.events, e)
  BY DEF Add, Fields
<1> QED BY <1>1, AppendIs, BeginsAppend DEF Grows

\* The end of a call, started or not
LEMMA ToolEndGrows ==
    ASSUME NEW s, DOMAIN s = Fields, IsSeq(s.events), NEW call, NEW state
    PROVE  Grows(s, ToolEnd(s, call, state))
<1> DEFINE t == ToolInputComplete(s, call)
           u == ToolResult(t, call, state)
<1>1. Grows(s, t) /\ IsSeq(t.events)
  BY AddGrows DEF ToolInputComplete
<1> HIDE DEF t
<1>2. Grows(t, u)
  BY <1>1, AddGrows DEF ToolResult, Grows
<1> HIDE DEF u
<1>3. Grows(s, u)
  BY <1>1, <1>2, BeginsTransitively DEF Grows
<1> QED BY <1>3 DEF ToolEnd, t, u

\* Writing the outputs of tools, however many, only adds events
LEMMA OutputsGrow ==
    ASSUME NEW s, DOMAIN s = Fields, IsSeq(s.events), NEW states, NEW q, NEW n \in Nat,
           DOMAIN q = 1..n
    PROVE  Grows(s, PutAll(s, states, q))
<1>1. PICK h : Chain(Output(states), s, q, n, h) /\ PutAll(s, states, q) = h[n]
  BY OutputChain
<1>2. h[0] = s /\ \A m \in 1..n : h[m] = ToolEnd(h[m - 1], q[m], states[q[m]])
  BY <1>1 DEF Chain, Applied, Output
<1>3. Grows(s, s)
  BY BeginsItself DEF Grows
<1> DEFINE B == {m \in 0..n : ~Grows(s, h[m])}
<1>4. B = {}
  <2>1. SUFFICES ASSUME B # {} PROVE FALSE
    OBVIOUS
  <2>2. PICK m \in B : \A j \in B : ~(j < m)
    <3>1. B \subseteq Nat
      OBVIOUS
    <3> HIDE DEF B
    <3> QED BY <2>1, <3>1, LeastNumber
  <2>3. m # 0
    BY <1>2, <1>3, <2>2
  <2>4. m \in 1..n /\ m - 1 \in 0..n /\ m - 1 < m
    BY <2>2, <2>3
  <2>5. Grows(s, h[m - 1])
    BY <2>2, <2>4
  <2>6. DOMAIN h[m - 1] = Fields /\ IsSeq(h[m - 1].events)
    BY <2>5 DEF Grows, Begins
  <2>7. Grows(h[m - 1], h[m])
    BY <1>2, <2>4, <2>6, ToolEndGrows
  <2>8. Grows(s, h[m])
    BY <2>5, <2>7, BeginsTransitively DEF Grows
  <2> QED BY <2>2, <2>8
<1> HIDE DEF B
<1>5. Grows(s, h[n])
  <2>1. n \in 0..n
    OBVIOUS
  <2> QED BY <1>4, <2>1 DEF B
<1> QED BY <1>1, <1>5

\* The final edit adds to a run that clients no longer receive
LEMMA FinalizeAssistantKeeps ==
    ASSUME IInv, FinalizeAssistant
    PROVE  IInv'
<1> DEFINE S == {c \in Calls : tools[c] \in {"complete", "error"}}
           w == NewWriter(run)
           q == SetToSeq(S)
           t == PutAll(w, tools, q)
<1>1. /\ phase' = "ended" /\ run' = t
      /\ cursor' = cursor /\ sent' = sent /\ blocks' = blocks /\ tools' = tools
  BY DEF FinalizeAssistant, AppendToolOutputs, PutAll
<1>2. DOMAIN q = 1..Cardinality(S) /\ Cardinality(S) \in Nat
  <2>1. IsFiniteSet(S)
    BY CallsAreFinite, FS_Subset
  <2> HIDE DEF S
  <2>2. Cardinality(S) \in Nat /\ ExistsBijection(1..Cardinality(S), S)
    BY <2>1, FS_CardinalityType
  <2>3. \E f \in [1..Cardinality(S) -> S] : IsInjective(f)
    BY <2>2 DEF ExistsBijection, Bijection, Injection
  <2>4. q \in [1..Cardinality(S) -> S]
    BY <2>3, Zenon DEF SetToSeq
  <2> HIDE DEF q
  <2> QED BY <2>2, <2>4
<1>3. DOMAIN run = Fields /\ IsSeq(run.events)
  BY DEF IInv, CursorOK
<1>4. DOMAIN w = Fields /\ w.events = run.events
  BY <1>3 DEF NewWriter, Fields
<1> HIDE DEF q, w, S
<1>5. Grows(w, t)
  BY <1>2, <1>3, <1>4, OutputsGrow
<1> HIDE DEF t
<1>6. DOMAIN t = Fields /\ Begins(run.events, t.events)
  BY <1>4, <1>5 DEF Grows
<1>7. Len(run.events) \in Nat /\ Len(t.events) \in Nat /\ Len(run.events) <= Len(t.events)
      /\ IsSeq(t.events)
  BY <1>6, SeqIs DEF Begins
<1>8. CursorOK'
  <2>1. PICK n \in cursor.published..Len(run.events) : sent = {<<i, i>> : i \in 1..n}
    BY DEF IInv, CursorOK, ClientsReplayARunsBeginning
  <2>2. cursor.published \in Nat /\ cursor.published <= Len(run.events)
    BY DEF IInv, CursorOK
  <2>3. n \in cursor'.published..Len(run'.events)
    BY <1>1, <1>7, <2>1, <2>2
  <2>4. ClientsReplayARunsBeginning'
    BY <1>1, <2>1, <2>3 DEF ClientsReplayARunsBeginning
  <2>5. cursor'.published <= Len(run'.events)
    BY <1>1, <1>7, <2>2
  <2> QED BY <1>1, <1>6, <1>7, <2>4, <2>5 DEF IInv, CursorOK
<1>9. RunOK'
  BY <1>1 DEF RunOK, RunFits
<1>10. BlocksOK'
  BY <1>1 DEF IInv, BlocksOK
<1> QED BY <1>8, <1>9, <1>10 DEF IInv

\* A new run is one nothing has been written to
LEMMA InitInv == Init => IInv
<1> SUFFICES ASSUME Init PROVE IInv
  OBVIOUS
<1>1. IsSeq(<<>>) /\ Len(<<>>) = 0 /\ DOMAIN <<>> = {}
  BY DEF IsSeq
<1>2. /\ DOMAIN run = Fields /\ run.events = <<>> /\ run.approvals = <<>> /\ run.content = <<>>
      /\ run.textOffset = 0 /\ run.reasoningOffset = 0 /\ run.current = 0
      /\ run.textOpen = {} /\ run.reasoningOpen = {} /\ run.phaseOpen = FALSE
  BY DEF Init, NewRun, Fields
<1>3. CursorOK
  <2>1. sent = {<<i, i>> : i \in 1..0} /\ 0 \in 0..0
    BY DEF Init
  <2>2. cursor = [published |-> 0, nextSeq |-> 1, started |-> FALSE]
    BY DEF Init
  <2>3. ClientsReplayARunsBeginning
    BY <1>1, <1>2, <2>1, <2>2 DEF ClientsReplayARunsBeginning
  <2> QED BY <1>1, <1>2, <2>2, <2>3 DEF CursorOK
<1>4. Opened(run) = {}
  BY <1>2 DEF Opened
<1>5. Validation(run.events) = Unseen
  BY <1>2, ValidationOfNone
<1>6. Writer(run)
  <2>1. 0 \in Nat /\ {} \subseteq 0..0
    OBVIOUS
  <2>2. Numbered(run.events)
    BY <1>1, <1>2, <2>1 DEF Numbered
  <2>3. (\E n \in Nat : run.textOpen \subseteq 0..n) /\ (\E n \in Nat : run.reasoningOpen \subseteq 0..n)
    BY <1>2, <2>1
  <2>4. Contents(run)
    BY <1>1, <1>2 DEF Contents
  <2>5. IsSeq(run.events) /\ IsSeq(run.approvals)
    BY <1>1, <1>2
  <2>6. run.textOffset \in Nat /\ run.reasoningOffset \in Nat /\ run.current \in Nat
    BY <1>2
  <2>7. run.phaseOpen \in BOOLEAN
    <3>1. run.phaseOpen = FALSE
      BY <1>2
    <3> QED BY <3>1, Zenon
  <2> QED BY <1>2, <2>2, <2>3, <2>4, <2>5, <2>6, <2>7, Zenon DEF Writer
<1>7. Continues(run)
  BY <1>4, <1>5, <1>6 DEF Continues, Judged, Sound, Unseen
<1>8. RunOK
  <2>1. /\ phase = "idle" /\ tools = [c \in Calls |-> "none"] /\ cursor.started = FALSE
    BY DEF Init
  <2>2. Validation(run.events).started = FALSE /\ Validation(run.events).tools = {}
    BY <1>5 DEF Unseen
  <2> QED BY <1>4, <1>7, <2>1, <2>2 DEF RunOK, RunFits, Continues
<1>9. BlocksOK
  BY <1>1 DEF BlocksOK, Init
<1> QED BY <1>3, <1>8, <1>9 DEF IInv

\* Every action, and every stutter, keeps the invariant
LEMMA NextKeeps == IInv /\ [Next]_vars => IInv'
<1> SUFFICES ASSUME IInv, [Next]_vars PROVE IInv'
  OBVIOUS
<1>1. CASE UNCHANGED vars
  BY <1>1 DEF vars, IInv, CursorOK, ClientsReplayARunsBeginning, RunOK, RunFits, BlocksOK
<1>2. ASSUME NEW o, StreamFn(o) PROVE IInv'
  BY <1>2, StreamFnKeeps
<1>3. ASSUME NEW o, NEW kind \in {"text", "thinking", "tool", "native"}, BlockStart(kind, o)
      PROVE IInv'
  BY <1>3, BlockStartKeeps
<1>4. ASSUME NEW o, NEW i \in DOMAIN blocks, BlockDelta(i, o) PROVE IInv'
  BY <1>4, BlockDeltaKeeps
<1>5. ASSUME NEW o, NEW i \in DOMAIN blocks, NEW full \in BOOLEAN, BlockEnd(i, full, o) PROVE IInv'
  BY <1>5, BlockEndKeeps
<1>6. ASSUME NEW o, NEW unstreamed \in BOOLEAN, Done(unstreamed, o) PROVE IInv'
  BY <1>6, DoneKeeps
<1>7. ASSUME NEW o, StreamError(o) PROVE IInv'
  BY <1>7, StreamErrorKeeps
<1>8. ASSUME NEW o, NEW call \in Calls, NEW state \in {"complete", "error"},
             PublishToolOutput(call, state, o)
      PROVE IInv'
  BY <1>8, PublishToolOutputKeeps
<1>9. ASSUME NEW call \in Calls, RequestApproval(call) PROVE IInv'
  BY <1>9, RequestApprovalKeeps
<1>10. ASSUME NEW call \in Calls, NEW a, Respond(call, a) PROVE IInv'
  BY <1>10, RespondKeeps
<1>11. CASE FinalizeAssistant
  BY <1>11, FinalizeAssistantKeeps
<1>12. CASE Ended
  BY <1>1, <1>12 DEF Ended
<1> QED
  BY <1>1, <1>2, <1>3, <1>4, <1>5, <1>6, <1>7, <1>8, <1>9, <1>10, <1>11, <1>12, Zenon DEF Next

\* The cursor is where the run says it is, the carriers that arrived are a
\* beginning of the run, and as long as the stream goes on its validator has
\* seen what the writer of the turn thinks it opened, and nothing else.
\* (run.go, client.go)
THEOREM InvariantHolds == Spec => []IInv
<1>1. Init => IInv
  BY InitInv
<1>2. IInv /\ [Next]_vars => IInv'
  BY NextKeeps
<1> QED BY <1>1, <1>2, PTL DEF Spec

\* A seq stands for one event for ever and the seqs that arrived have no gap,
\* whichever carriers were lost, arrived unconfirmed or could not be recorded:
\* publishNewStreamEvents moves its cursor only after it sent.  (client.go)
THEOREM ClientsReplay == Spec => []ClientsReplayARunsBeginning
<1>1. IInv => ClientsReplayARunsBeginning
  BY DEF IInv, CursorOK
<1> QED BY <1>1, InvariantHolds, PTL

\* However the turns, tools, approvals and failures of an answer interleave,
\* the validator refuses nothing of what was published but a tool call that is
\* ended twice and what follows the RUN_FINISHED of an approval.
\* (run.go, validation.go)
THEOREM StreamStaysBracketed == Spec => []StreamIsBracketed
<1>1. IInv => StreamIsBracketed
  <2> SUFFICES ASSUME IInv, phase \in {"done", "failed"}
               PROVE  ValidateEventSequence(SubSeq(run.events, 1, cursor.published)) \subseteq
                        AllowedOf(run)
    BY DEF StreamIsBracketed, AllowedOf
  <2> DEFINE n == cursor.published
             A == {run.events[i] : i \in DOMAIN run.events}
             s == SubSeq(run.events, 1, n)
  <2>1. /\ n \in Nat /\ n <= Len(run.events) /\ IsSeq(run.events)
        /\ Len(run.events) \in Nat /\ DOMAIN run.events = 1..Len(run.events)
    BY SeqIs DEF IInv, CursorOK
  <2>2. /\ Len(s) = n /\ DOMAIN s = 1..n
        /\ \A i \in 1..n : s[i] = run.events[i]
    <3>1. \A i \in 1..n : run.events[i] \in A
      BY <2>1
    <3> HIDE DEF A
    <3>2. s \in Seq(A) /\ Len(s) = (IF 1 <= n THEN n - 1 + 1 ELSE 0)
          /\ \A i \in 1..(n - 1 + 1) : s[i] = run.events[1 + i - 1]
      BY <2>1, <3>1, SubSeqProperties
    <3> HIDE DEF s, n
    <3>3. Len(s) = n /\ \A i \in 1..n : s[i] = run.events[i]
      BY <2>1, <3>2
    <3> QED BY <3>2, <3>3, LenProperties
  <2>3. IsSeq(s)
    <3> DEFINE B == {s[i] : i \in DOMAIN s}
    <3>1. \A i \in 1..n : run.events[i] \in B
      BY <2>2
    <3> HIDE DEF B
    <3>2. s \in Seq(B)
      BY <2>1, <3>1, SubSeqProperties
    <3> QED BY <3>2 DEF IsSeq, B
  <2> HIDE DEF s
  <2>4. Begins(s, run.events)
    BY <2>1, <2>2, <2>3 DEF Begins
  <2>5. Judged(run)
    BY DEF IInv, RunOK, RunFits
  <2>6. ValidateEventSequence(s) \subseteq AllowedOf(run)
    BY <2>4, <2>5, ComplaintsStay, ValidateIsValidation DEF Judged
  <2> QED BY <2>6 DEF s
<1> QED BY <1>1, InvariantHolds, PTL

-----------------------------------------------------------------------------
(* Folds over sequences that grow. *)

\* What a fold over a sequence ends with
Folded(k, base, q) == CHOOSE x : \E h : Chain(k, base, q, Len(q), h) /\ x = h[Len(q)]

\* Any chain over the sequence ends with it
LEMMA FoldedIs ==
    ASSUME NEW k, NEW base, NEW q, IsSeq(q), NEW h, Chain(k, base, q, Len(q), h)
    PROVE  Folded(k, base, q) = h[Len(q)]
<1> DEFINE P(x) == \E g : Chain(k, base, q, Len(q), g) /\ x = g[Len(q)]
           f == Folded(k, base, q)
<1>0. Len(q) \in Nat
  BY SeqIs
<1>1. P(h[Len(q)])
  OBVIOUS
<1>2. f = CHOOSE x : P(x)
  BY DEF Folded
<1> HIDE DEF P, f
<1>3. P(f)
  BY <1>1, <1>2, Zenon
<1>4. PICK g : Chain(k, base, q, Len(q), g) /\ f = g[Len(q)]
  BY <1>3 DEF P
<1>5. Len(q) \in 0..Len(q)
  BY <1>0
<1>6. g[Len(q)] = h[Len(q)]
  BY <1>0, <1>4, <1>5, ChainsAgree
<1> QED BY <1>4, <1>6 DEF f

\* There is one
LEMMA ChainExists ==
    ASSUME NEW k, NEW base, NEW q, NEW n \in Nat
    PROVE  \E h : Chain(k, base, q, n, h)
<1>1. PICK it : Folds(k, base, q, n, it)
  BY FoldExists
<1> QED BY <1>1, FoldIsAChain

\* A fold over nothing
LEMMA FoldedOfNone ==
    ASSUME NEW k, NEW base
    PROVE  Folded(k, base, <<>>) = base
<1>1. IsSeq(<<>>) /\ Len(<<>>) = 0
  BY DEF IsSeq
<1>2. PICK h : Chain(k, base, <<>>, 0, h)
  BY ChainExists
<1>3. Folded(k, base, <<>>) = h[0]
  <2>1. Chain(k, base, <<>>, Len(<<>>), h)
    BY <1>1, <1>2
  <2> QED BY <1>1, <2>1, FoldedIs
<1> QED BY <1>2, <1>3 DEF Chain

\* A fold over one element more
LEMMA FoldedOfAppend ==
    ASSUME NEW k, NEW base, NEW q, IsSeq(q), NEW e
    PROVE  Folded(k, base, Append(q, e)) = Applied(k, Folded(k, base, q), e)
<1> DEFINE t == Append(q, e)
<1>1. /\ IsSeq(t) /\ Len(t) = Len(q) + 1 /\ Len(q) \in Nat /\ t[Len(q) + 1] = e
      /\ \A i \in 1..Len(q) : t[i] = q[i]
  BY SeqIs, AppendIs
<1> HIDE DEF t
<1>2. PICK h : Chain(k, base, t, Len(t), h)
  <2>1. Len(t) \in Nat
    BY <1>1
  <2> QED BY <2>1, ChainExists
<1>3. Chain(k, base, q, Len(q), h)
  BY <1>1, <1>2 DEF Chain
<1>4. h[Len(t)] = Applied(k, h[Len(q)], e)
  <2>1. Len(t) \in 1..Len(t) /\ Len(t) - 1 = Len(q)
    BY <1>1
  <2>2. h[Len(t)] = Applied(k, h[Len(t) - 1], t[Len(t)])
    BY <1>2, <2>1 DEF Chain
  <2> QED BY <1>1, <2>1, <2>2
<1>5. Folded(k, base, t) = h[Len(t)] /\ Folded(k, base, q) = h[Len(q)]
  BY <1>1, <1>2, <1>3, FoldedIs
<1> QED BY <1>4, <1>5 DEF t

-----------------------------------------------------------------------------
(* What parts say. *)

\* What has been said, with one part more
Tell(kind, text, part) == IF part.kind = kind THEN text \o part.content ELSE text

\* The fold of SaidBy applies it
LEMMA TellIs ==
    ASSUME NEW kind
    PROVE  \A t, p : Applied(Telling(kind), t, p) = Tell(kind, t, p)
BY DEF Applied, Telling, Tell

\* One part more
LEMMA SaidByAppend ==
    ASSUME NEW kind, NEW parts, IsSeq(parts), NEW p
    PROVE  SaidBy(kind, Append(parts, p)) = Tell(kind, SaidBy(kind, parts), p)
<1>1. ASSUME NEW q, IsSeq(q) PROVE SaidBy(kind, q) = Folded(Telling(kind), <<>>, q)
  <2>1. Len(q) \in Nat /\ DOMAIN q = 1..Len(q)
    BY <1>1, SeqIs
  <2>2. PICK h : Chain(Telling(kind), <<>>, q, Len(q), h) /\ SaidBy(kind, q) = h[Len(q)]
    BY <2>1, TellChain
  <2> QED BY <1>1, <2>2, FoldedIs
<1>2. IsSeq(Append(parts, p))
  BY AppendIs
<1>3. SaidBy(kind, Append(parts, p)) = Applied(Telling(kind), SaidBy(kind, parts), p)
  BY <1>1, <1>2, FoldedOfAppend
<1> QED BY <1>3, TellIs

\* No parts
LEMMA SaidByNone ==
    ASSUME NEW kind
    PROVE  SaidBy(kind, <<>>) = <<>>
<1>1. DOMAIN <<>> = 1..0 /\ 0 \in Nat
  OBVIOUS
<1>2. PICK h : Chain(Telling(kind), <<>>, <<>>, 0, h) /\ SaidBy(kind, <<>>) = h[0]
  BY <1>1, TellChain
<1> QED BY <1>2 DEF Chain

\* The chain of what parts say, by its links
Tells(kind, parts, h) ==
  h[0] = <<>> /\ \A m \in 1..Len(parts) : h[m] = Tell(kind, h[m - 1], parts[m])

\* It ends with what they say
LEMMA TellLinks ==
    ASSUME NEW kind, NEW parts, IsSeq(parts)
    PROVE  \E h : Tells(kind, parts, h) /\ SaidBy(kind, parts) = h[Len(parts)]
<1>1. Len(parts) \in Nat /\ DOMAIN parts = 1..Len(parts)
  BY SeqIs
<1>2. PICK h : Chain(Telling(kind), <<>>, parts, Len(parts), h) /\ SaidBy(kind, parts) = h[Len(parts)]
  BY <1>1, TellChain
<1>3. h[0] = <<>> /\ \A m \in 1..Len(parts) : h[m] = Applied(Telling(kind), h[m - 1], parts[m])
  BY <1>2 DEF Chain
<1>4. Tells(kind, parts, h)
  BY <1>3, TellIs DEF Tells
<1> QED BY <1>2, <1>4

\* Any such chain does
LEMMA LinksAgree ==
    ASSUME NEW kind, NEW parts, IsSeq(parts), NEW h, Tells(kind, parts, h)
    PROVE  SaidBy(kind, parts) = h[Len(parts)]
<1>1. Len(parts) \in Nat /\ DOMAIN parts = 1..Len(parts) /\ Len(parts) \in 0..Len(parts)
  BY SeqIs
<1>2. PICK g : Chain(Telling(kind), <<>>, parts, Len(parts), g) /\ SaidBy(kind, parts) = g[Len(parts)]
  BY <1>1, TellChain
<1>3. Chain(Telling(kind), <<>>, parts, Len(parts), h)
  BY TellIs DEF Chain, Tells
<1>4. h[Len(parts)] = g[Len(parts)]
  BY <1>1, <1>2, <1>3, ChainsAgree
<1> QED BY <1>2, <1>4

\* Parts whose contents are texts
Tokens(parts) == IsSeq(parts) /\ \A i \in DOMAIN parts : parts[i].content \in Seq(Nat)

\* Links of such a chain are texts
LEMMA LinksAreTexts ==
    ASSUME NEW kind, NEW parts, Tokens(parts), NEW h, Tells(kind, parts, h)
    PROVE  \A m \in 0..Len(parts) : h[m] \in Seq(Nat)
<1>0. Len(parts) \in Nat /\ DOMAIN parts = 1..Len(parts)
  BY SeqIs DEF Tokens
<1> DEFINE B == {m \in 0..Len(parts) : h[m] \notin Seq(Nat)}
<1>1. SUFFICES B = {}
  OBVIOUS
<1>2. CASE B # {}
  <2>1. PICK m \in B : \A j \in B : ~(j < m)
    <3>1. B \subseteq Nat
      BY <1>0
    <3> HIDE DEF B
    <3> QED BY <1>2, <3>1, LeastNumber
  <2>2. m # 0
    <3>1. h[0] = <<>> /\ <<>> \in Seq(Nat)
      BY EmptySeq DEF Tells
    <3> QED BY <2>1, <3>1
  <2>3. m \in 1..Len(parts) /\ m - 1 \in 0..Len(parts) /\ m - 1 \notin B
    BY <1>0, <2>1, <2>2
  <2> DEFINE c == parts[m].content
             t == h[m - 1]
  <2>4. t \in Seq(Nat) /\ c \in Seq(Nat)
    BY <1>0, <2>3 DEF Tokens
  <2>5. h[m] = Tell(kind, t, parts[m])
    BY <2>3 DEF Tells
  <2>6. h[m] \in {t, t \o c}
    BY <2>5 DEF Tell
  <2> HIDE DEF t, c
  <2>7. t \o c \in Seq(Nat)
    BY <2>4, ConcatProperties
  <2>8. h[m] \in Seq(Nat)
    BY <2>4, <2>6, <2>7
  <2> QED BY <2>1, <2>8
<1> QED BY <1>2

\* What parts say is a text
LEMMA SaidByIs ==
    ASSUME NEW kind, NEW parts, Tokens(parts)
    PROVE  SaidBy(kind, parts) \in Seq(Nat)
<1>1. IsSeq(parts) /\ Len(parts) \in 0..Len(parts)
  BY SeqIs DEF Tokens
<1>2. PICK h : Tells(kind, parts, h) /\ SaidBy(kind, parts) = h[Len(parts)]
  BY <1>1, TellLinks
<1> QED BY <1>1, <1>2, LinksAreTexts

\* Parts that differ in nothing that is said say the same
LEMMA SaidBySame ==
    ASSUME NEW kind, NEW parts, NEW q, IsSeq(parts), IsSeq(q), Len(parts) = Len(q),
           \A i \in 1..Len(parts) : parts[i].kind = q[i].kind /\ parts[i].content = q[i].content
    PROVE  SaidBy(kind, parts) = SaidBy(kind, q)
<1>1. PICK h : Tells(kind, parts, h) /\ SaidBy(kind, parts) = h[Len(parts)]
  BY TellLinks
<1>2. \A t : \A i \in 1..Len(parts) : Tell(kind, t, parts[i]) = Tell(kind, t, q[i])
  BY DEF Tell
<1>3. Tells(kind, q, h)
  BY <1>1, <1>2 DEF Tells
<1>4. SaidBy(kind, q) = h[Len(q)]
  BY <1>3, LinksAgree
<1> QED BY <1>1, <1>4

\* Concatenation of texts
LEMMA TextsAssociate ==
    \A s \in Seq(Nat), t \in Seq(Nat), u \in Seq(Nat) : (s \o t) \o u = s \o (t \o u)
<1> DEFINE N == Nat
<1> SUFFICES ASSUME NEW s \in Seq(N), NEW t \in Seq(N), NEW u \in Seq(N)
             PROVE  (s \o t) \o u = s \o (t \o u)
  OBVIOUS
<1> HIDE DEF N
<1> QED BY ConcatAssociative

\* Of two lists of parts one says more in the i-th, the last of its kind
SaysMore(kind, parts, q, i, tokens) ==
  /\ IsSeq(q) /\ Len(parts) = Len(q)
  /\ \A j \in 1..Len(parts) \ {i} : q[j] = parts[j]
  /\ q[i].kind = kind /\ parts[i].kind = kind
  /\ q[i].content = parts[i].content \o tokens
  /\ \A j \in (i + 1)..Len(parts) : parts[j].kind # kind

\* The last part of a kind says more, and so do the parts
LEMMA SaidByGrows ==
    ASSUME NEW kind, NEW parts, NEW q, NEW i, NEW tokens, Tokens(parts),
           i \in 1..Len(parts), tokens \in Seq(Nat), SaysMore(kind, parts, q, i, tokens)
    PROVE  SaidBy(kind, q) = SaidBy(kind, parts) \o tokens
<1>0. /\ IsSeq(q) /\ Len(parts) = Len(q)
      /\ \A j \in 1..Len(parts) \ {i} : q[j] = parts[j]
      /\ q[i].kind = kind /\ parts[i].kind = kind
      /\ q[i].content = parts[i].content \o tokens
      /\ \A j \in (i + 1)..Len(parts) : parts[j].kind # kind
  BY DEF SaysMore
<1>1. /\ IsSeq(parts) /\ Len(parts) \in Nat /\ DOMAIN parts = 1..Len(parts)
      /\ DOMAIN q = 1..Len(parts) /\ i \in Nat
  BY <1>0, SeqIs DEF Tokens
<1>2. PICK h : Tells(kind, parts, h) /\ SaidBy(kind, parts) = h[Len(parts)]
  BY <1>1, TellLinks
<1>3. PICK g : Tells(kind, q, g) /\ SaidBy(kind, q) = g[Len(q)]
  BY <1>0, TellLinks
<1>4. \A m \in 0..Len(parts) : h[m] \in Seq(Nat)
  BY <1>2, LinksAreTexts
<1>5. \A m \in 1..Len(parts) :
        g[m] = Tell(kind, g[m - 1], q[m]) /\ h[m] = Tell(kind, h[m - 1], parts[m])
  BY <1>0, <1>2, <1>3 DEF Tells
<1>6. ASSUME NEW m \in (i + 1)..Len(parts), NEW t
      PROVE  Tell(kind, t, parts[m]) = t /\ Tell(kind, t, q[m]) = t
  <2>1. parts[m].kind # kind /\ q[m] = parts[m]
    BY <1>0, <1>1
  <2> QED BY <2>1 DEF Tell
<1>7. ASSUME NEW t \in Seq(Nat)
      PROVE  Tell(kind, t, q[i]) = Tell(kind, t, parts[i]) \o tokens
  <2> DEFINE c == parts[i].content
  <2>1. c \in Seq(Nat)
    BY <1>1 DEF Tokens
  <2>2. Tell(kind, t, q[i]) = t \o (c \o tokens) /\ Tell(kind, t, parts[i]) = t \o c
    BY <1>0 DEF Tell
  <2> HIDE DEF c
  <2>3. (t \o c) \o tokens = t \o (c \o tokens)
    BY <2>1, TextsAssociate
  <2> QED BY <2>2, <2>3
<1> DEFINE more(t) == t \o tokens
           P(m) == g[m] = IF m < i THEN h[m] ELSE more(h[m])
           B == {m \in 0..Len(parts) : ~P(m)}
<1>m. \A t \in Seq(Nat) : Tell(kind, t, q[i]) = more(Tell(kind, t, parts[i]))
  BY <1>7
<1> HIDE DEF more
<1>8. B = {}
  <2>1. SUFFICES ASSUME B # {} PROVE FALSE
    OBVIOUS
  <2>2. PICK m \in B : \A j \in B : ~(j < m)
    <3>1. B \subseteq Nat
      BY <1>1
    <3> HIDE DEF B
    <3> QED BY <2>1, <3>1, LeastNumber
  <2>3. m # 0
    BY <1>1, <1>2, <1>3, <2>2 DEF Tells
  <2>4. m \in 1..Len(parts) /\ m - 1 \in 0..Len(parts) /\ m - 1 \notin B /\ m \in Nat
    <3>1. m \in 0..Len(parts)
      BY <2>2
    <3> HIDE DEF B
    <3>2. m - 1 \in 0..Len(parts) /\ m - 1 < m /\ m \in 1..Len(parts) /\ m \in Nat
      BY <1>1, <2>3, <3>1
    <3> QED BY <2>2, <3>2
  <2>5. P(m - 1)
    BY <2>4
  <2>6. g[m] = Tell(kind, g[m - 1], q[m]) /\ h[m] = Tell(kind, h[m - 1], parts[m])
    BY <1>5, <2>4
  <2>7. ~P(m)
    BY <2>2
  <2> HIDE DEF B
  <2>8. CASE m < i
    <3>1. q[m] = parts[m] /\ m - 1 < i
      BY <1>0, <1>1, <2>4, <2>8
    <3>2. g[m] = h[m]
      BY <2>5, <2>6, <3>1
    <3> QED BY <2>7, <2>8, <3>2
  <2>9. CASE m = i
    <3>1. m - 1 < i /\ h[m - 1] \in Seq(Nat) /\ ~(m < i)
      BY <1>1, <1>4, <2>4, <2>9
    <3>2. g[m] = more(h[m])
      BY <1>m, <2>5, <2>6, <2>9, <3>1
    <3> QED BY <2>7, <3>1, <3>2
  <2>10. CASE m > i
    <3>1. m \in (i + 1)..Len(parts) /\ ~(m - 1 < i) /\ ~(m < i)
      BY <1>1, <2>4, <2>10
    <3>2. g[m] = g[m - 1] /\ h[m] = h[m - 1]
      BY <1>6, <2>6, <3>1
    <3> QED BY <2>5, <2>7, <3>1, <3>2
  <2> QED BY <1>1, <2>4, <2>8, <2>9, <2>10
<1>9. P(Len(parts)) /\ ~(Len(parts) < i)
  <2>1. Len(parts) \in 0..Len(parts) /\ ~(Len(parts) < i)
    BY <1>1
  <2> QED BY <1>8, <2>1
<1> QED BY <1>0, <1>2, <1>3, <1>9 DEF more

-----------------------------------------------------------------------------
(* The parts of a message in progress. *)

NoParts == [parts |-> <<>>, text |-> 0, think |-> 0]

Projection(events) == FoldLeft(PartOf, NoParts, events)

Slots == {"text", "think"}
KindOf(open) == IF open = "text" THEN "text" ELSE "thinking"

GoodPart(p) ==
  /\ DOMAIN p = {"kind", "id", "content", "state", "output"}
  /\ p.kind \in {"text", "thinking", "tool"}
  /\ p.content \in Seq(Nat)
  /\ p.kind = "tool" /\ p.state = "approval-responded" => p.output # "none"

\* Of text and of reasoning at most the last part is in progress, and it is
\* the one that is taken for open
Good(acc) ==
  /\ DOMAIN acc = {"parts", "text", "think"}
  /\ IsSeq(acc.parts)
  /\ \A i \in DOMAIN acc.parts : GoodPart(acc.parts[i])
  /\ \A o \in Slots :
       /\ acc[o] \in 0..Len(acc.parts)
       /\ acc[o] # 0 => acc.parts[acc[o]].kind = KindOf(o)
       /\ \A j \in DOMAIN acc.parts :
            acc.parts[j].kind = KindOf(o) =>
              /\ acc[o] = 0 \/ j <= acc[o]
              /\ j # acc[o] => acc.parts[j].state = "done"

\* The message a part in progress is of
InProgress(acc, o) == IF acc[o] = 0 THEN {} ELSE {acc.parts[acc[o]].id}

\* b says what a says, and goes on with no message that a does not
Quiet(a, b) ==
  /\ Good(b)
  /\ \A o \in Slots : /\ SaidBy(KindOf(o), b.parts) = SaidBy(KindOf(o), a.parts)
                      /\ InProgress(b, o) \subseteq InProgress(a, o)

\* Quiet is an order
LEMMA QuietItself ==
    ASSUME NEW a, Good(a)
    PROVE  Quiet(a, a)
BY DEF Quiet

\* Saying nothing twice says nothing
LEMMA QuietTransitively ==
    ASSUME NEW a, NEW b, NEW c, Quiet(a, b), Quiet(b, c)
    PROVE  Quiet(a, c)
<1>1. Good(c)
  BY DEF Quiet
<1>2. ASSUME NEW o \in Slots
      PROVE  /\ SaidBy(KindOf(o), c.parts) = SaidBy(KindOf(o), a.parts)
             /\ InProgress(c, o) \subseteq InProgress(a, o)
  <2>1. /\ SaidBy(KindOf(o), b.parts) = SaidBy(KindOf(o), a.parts)
        /\ InProgress(b, o) \subseteq InProgress(a, o)
        /\ SaidBy(KindOf(o), c.parts) = SaidBy(KindOf(o), b.parts)
        /\ InProgress(c, o) \subseteq InProgress(b, o)
    BY DEF Quiet
  <2> QED BY <2>1
<1> QED BY <1>1, <1>2 DEF Quiet

\* The kinds of the two slots
LEMMA Kinds ==
    /\ KindOf("text") = "text" /\ KindOf("think") = "thinking"
    /\ \A o \in Slots : KindOf(o) # "tool"
    /\ \A o, u \in Slots : KindOf(o) = KindOf(u) => o = u
BY DEF KindOf, Slots

\* Good parts have texts for contents
LEMMA GoodIsTokens ==
    ASSUME NEW acc, Good(acc)
    PROVE  /\ Tokens(acc.parts) /\ IsSeq(acc.parts)
           /\ Len(acc.parts) \in Nat /\ DOMAIN acc.parts = 1..Len(acc.parts)
BY SeqIs DEF Good, GoodPart, Tokens

\* One part is another one of its kind
LEMMA PartReplaced ==
    ASSUME NEW q, IsSeq(q), NEW i \in DOMAIN q, NEW p
    PROVE  LET r == [q EXCEPT ![i] = p]
           IN  /\ IsSeq(r) /\ Len(r) = Len(q) /\ DOMAIN r = 1..Len(q) /\ DOMAIN q = 1..Len(q)
               /\ r[i] = p /\ \A j \in 1..Len(q) \ {i} : r[j] = q[j]
<1> DEFINE r == [q EXCEPT ![i] = p]
           S == {r[j] : j \in DOMAIN r}
           n == Len(q)
<1>1. n \in Nat /\ DOMAIN q = 1..n
  BY SeqIs
<1>2. DOMAIN r = 1..n /\ r[i] = p /\ \A j \in 1..n \ {i} : r[j] = q[j]
  BY <1>1
<1>3. r = [j \in 1..n |-> r[j]]
  BY <1>1
<1> HIDE DEF r
<1>4. \A j \in 1..n : r[j] \in S
  BY <1>2
<1> HIDE DEF S
<1>5. r \in [1..n -> S]
  BY <1>3, <1>4
<1> HIDE DEF n
<1>6. r \in Seq(S)
  BY <1>1, <1>5, SeqDef
<1>7. Len(r) \in Nat /\ DOMAIN r = 1..Len(r)
  BY <1>6, LenProperties
<1>8. Len(r) = n
  BY <1>1, <1>2, <1>7
<1>9. IsSeq(r)
  BY <1>6 DEF IsSeq, S
<1> QED BY <1>1, <1>2, <1>8, <1>9 DEF r, n

\* Replacing a part, closing it or not, keeps the parts good
LEMMA GoodReplaced ==
    ASSUME NEW a, Good(a), NEW i \in DOMAIN a.parts, NEW p, GoodPart(p),
           p.kind = a.parts[i].kind, p.id = a.parts[i].id,
           NEW b, DOMAIN b = {"parts", "text", "think"}, b.parts = [a.parts EXCEPT ![i] = p],
           \A o \in Slots : b[o] = a[o] \/ (b[o] = 0 /\ a[o] = i),
           \A o \in Slots : p.kind = KindOf(o) /\ b[o] # i => p.state = "done"
    PROVE  /\ Good(b)
           /\ \A o \in Slots : InProgress(b, o) = IF b[o] = 0 THEN {} ELSE InProgress(a, o)
<1> DEFINE n == Len(a.parts)
<1>1. /\ IsSeq(b.parts) /\ Len(b.parts) = n /\ DOMAIN b.parts = 1..n /\ DOMAIN a.parts = 1..n
      /\ b.parts[i] = p /\ \A j \in 1..n \ {i} : b.parts[j] = a.parts[j]
      /\ n \in Nat /\ i \in 1..n
  BY PartReplaced, SeqIs DEF Good
<1> HIDE DEF n
<1>2. \A j \in 1..n : GoodPart(b.parts[j]) /\ b.parts[j].kind = a.parts[j].kind
                      /\ b.parts[j].id = a.parts[j].id
  BY <1>1 DEF Good
<1>3. ASSUME NEW o \in Slots
      PROVE  /\ b[o] \in 0..n
             /\ b[o] # 0 => b.parts[b[o]].kind = KindOf(o)
             /\ \A j \in 1..n : b.parts[j].kind = KindOf(o) =>
                  /\ b[o] = 0 \/ j <= b[o]
                  /\ j # b[o] => b.parts[j].state = "done"
             /\ InProgress(b, o) = IF b[o] = 0 THEN {} ELSE InProgress(a, o)
  <2>1. /\ a[o] \in 0..n
        /\ a[o] # 0 => a.parts[a[o]].kind = KindOf(o)
        /\ \A j \in 1..n : a.parts[j].kind = KindOf(o) =>
                  /\ a[o] = 0 \/ j <= a[o]
                  /\ j # a[o] => a.parts[j].state = "done"
    BY <1>1 DEF Good, n
  <2>2. b[o] \in 0..n
    BY <1>1, <2>1
  <2>3. b[o] # 0 => b.parts[b[o]].kind = KindOf(o) /\ InProgress(b, o) = InProgress(a, o)
    <3>1. SUFFICES ASSUME b[o] # 0 PROVE b.parts[b[o]].kind = KindOf(o) /\ InProgress(b, o) = InProgress(a, o)
      OBVIOUS
    <3>2. b[o] = a[o] /\ a[o] \in 1..n
      BY <2>1, <3>1
    <3> QED BY <1>2, <2>1, <3>1, <3>2 DEF InProgress
  <2>4. ASSUME NEW j \in 1..n, b.parts[j].kind = KindOf(o)
        PROVE  (b[o] = 0 \/ j <= b[o]) /\ (j # b[o] => b.parts[j].state = "done")
    <3>1. a.parts[j].kind = KindOf(o)
      BY <1>2, <2>4
    <3>2. b[o] = 0 \/ j <= b[o]
      BY <2>1, <3>1
    <3>3. CASE j = i
      BY <1>1, <2>4, <3>2, <3>3
    <3>4. CASE j # i
      <4>1. b.parts[j] = a.parts[j]
        BY <1>1, <3>4
      <4>2. j # b[o] => j # a[o]
        BY <3>4
      <4> QED BY <2>1, <3>1, <3>2, <4>1, <4>2
    <3> QED BY <3>3, <3>4
  <2> QED BY <2>2, <2>3, <2>4 DEF InProgress
<1>4. Good(b)
  BY <1>1, <1>2, <1>3 DEF Good
<1> QED BY <1>3, <1>4

\* If it says the same, it is quiet
LEMMA ReplacedIsQuiet ==
    ASSUME NEW a, Good(a), NEW i \in DOMAIN a.parts, NEW p, GoodPart(p),
           p.kind = a.parts[i].kind, p.id = a.parts[i].id, p.content = a.parts[i].content,
           NEW b, DOMAIN b = {"parts", "text", "think"}, b.parts = [a.parts EXCEPT ![i] = p],
           \A o \in Slots : b[o] = a[o] \/ (b[o] = 0 /\ a[o] = i),
           \A o \in Slots : p.kind = KindOf(o) /\ b[o] # i => p.state = "done"
    PROVE  Quiet(a, b)
<1>1. /\ Good(b)
      /\ \A o \in Slots : InProgress(b, o) = IF b[o] = 0 THEN {} ELSE InProgress(a, o)
  BY GoodReplaced
<1>2. /\ IsSeq(b.parts) /\ Len(b.parts) = Len(a.parts) /\ IsSeq(a.parts)
      /\ b.parts[i] = p /\ \A j \in 1..Len(a.parts) \ {i} : b.parts[j] = a.parts[j]
  BY PartReplaced DEF Good
<1>3. \A j \in 1..Len(a.parts) :
        b.parts[j].kind = a.parts[j].kind /\ b.parts[j].content = a.parts[j].content
  BY <1>2
<1>4. \A kind : SaidBy(kind, b.parts) = SaidBy(kind, a.parts)
  BY <1>2, <1>3, SaidBySame
<1> QED BY <1>1, <1>4 DEF Quiet

\* b has a part more than a, in progress if it is of text or of reasoning
Adds(a, b, p) ==
  /\ GoodPart(p)
  /\ DOMAIN b = {"parts", "text", "think"} /\ b.parts = Append(a.parts, p)
  /\ \A o \in Slots : p.kind = KindOf(o) => a[o] = 0 /\ b[o] = Len(a.parts) + 1
  /\ \A o \in Slots : p.kind # KindOf(o) => b[o] = a[o]

\* A part of its kind is the only one in progress
LEMMA PartAdded ==
    ASSUME NEW a, NEW b, NEW p, Good(a), Adds(a, b, p)
    PROVE  /\ Good(b)
           /\ \A o \in Slots :
                /\ SaidBy(KindOf(o), b.parts) = Tell(KindOf(o), SaidBy(KindOf(o), a.parts), p)
                /\ p.kind = KindOf(o) => InProgress(b, o) = {p.id}
                /\ p.kind # KindOf(o) => InProgress(b, o) = InProgress(a, o)
<1>0. /\ GoodPart(p)
      /\ DOMAIN b = {"parts", "text", "think"} /\ b.parts = Append(a.parts, p)
      /\ \A o \in Slots : p.kind = KindOf(o) => a[o] = 0 /\ b[o] = Len(a.parts) + 1
      /\ \A o \in Slots : p.kind # KindOf(o) => b[o] = a[o]
  BY DEF Adds
<1> DEFINE n == Len(a.parts)
<1>1. /\ IsSeq(b.parts) /\ Len(b.parts) = n + 1 /\ DOMAIN b.parts = 1..(n + 1)
      /\ DOMAIN a.parts = 1..n /\ b.parts[n + 1] = p /\ \A j \in 1..n : b.parts[j] = a.parts[j]
      /\ n \in Nat
  BY <1>0, AppendIs, SeqIs DEF Good
<1> HIDE DEF n
<1>2. \A j \in 1..(n + 1) : GoodPart(b.parts[j])
  <2>1. \A j \in 1..n : GoodPart(b.parts[j])
    BY <1>1 DEF Good
  <2>2. \A j \in 1..(n + 1) : j \in 1..n \/ j = n + 1
    BY <1>1
  <2> QED BY <1>0, <1>1, <2>1, <2>2
<1>3. ASSUME NEW o \in Slots
      PROVE  /\ b[o] \in 0..(n + 1)
             /\ b[o] # 0 => b.parts[b[o]].kind = KindOf(o)
             /\ \A j \in 1..(n + 1) : b.parts[j].kind = KindOf(o) =>
                  /\ b[o] = 0 \/ j <= b[o]
                  /\ j # b[o] => b.parts[j].state = "done"
             /\ p.kind = KindOf(o) => InProgress(b, o) = {p.id}
             /\ p.kind # KindOf(o) => InProgress(b, o) = InProgress(a, o)
  <2>1. /\ a[o] \in 0..n
        /\ a[o] # 0 => a.parts[a[o]].kind = KindOf(o)
        /\ \A j \in 1..n : a.parts[j].kind = KindOf(o) =>
                  /\ a[o] = 0 \/ j <= a[o]
                  /\ j # a[o] => a.parts[j].state = "done"
    BY <1>1 DEF Good, n
  <2>2. CASE p.kind = KindOf(o)
    <3>1. a[o] = 0 /\ b[o] = n + 1
      BY <1>0, <2>2 DEF n
    <3>2. b[o] \in 0..(n + 1) /\ b[o] # 0 /\ b.parts[b[o]] = p
      BY <1>1, <3>1
    <3>3. ASSUME NEW j \in 1..(n + 1), b.parts[j].kind = KindOf(o)
          PROVE  j <= b[o] /\ (j # b[o] => b.parts[j].state = "done")
      <4>1. j <= b[o] /\ (j # b[o] => j \in 1..n)
        BY <1>1, <3>1
      <4>2. j \in 1..n => b.parts[j].state = "done"
        <5>1. ASSUME j \in 1..n PROVE b.parts[j].state = "done"
          <6>1. b.parts[j] = a.parts[j] /\ j # a[o]
            BY <1>1, <3>1, <5>1
          <6> QED BY <2>1, <3>3, <5>1, <6>1
        <5> QED BY <5>1
      <4> QED BY <4>1, <4>2
    <3> QED BY <2>2, <3>2, <3>3 DEF InProgress
  <2>3. CASE p.kind # KindOf(o)
    <3>1. b[o] = a[o]
      BY <1>0, <2>3
    <3>2. b[o] \in 0..(n + 1) /\ (b[o] # 0 => b[o] \in 1..n)
      BY <1>1, <2>1, <3>1
    <3>3. b[o] # 0 => b.parts[b[o]] = a.parts[a[o]]
      BY <1>1, <3>1, <3>2
    <3>4. ASSUME NEW j \in 1..(n + 1), b.parts[j].kind = KindOf(o)
          PROVE  (b[o] = 0 \/ j <= b[o]) /\ (j # b[o] => b.parts[j].state = "done")
      <4>1. j # n + 1
        BY <1>1, <2>3, <3>4
      <4>2. j \in 1..n
        BY <1>1, <4>1
      <4>3. b.parts[j] = a.parts[j]
        BY <1>1, <4>2
      <4> QED BY <2>1, <3>1, <3>4, <4>2, <4>3
    <3> QED BY <2>1, <2>3, <3>1, <3>2, <3>3, <3>4 DEF InProgress
  <2> QED BY <2>2, <2>3
<1>4. Good(b)
  BY <1>0, <1>1, <1>2, <1>3 DEF Good
<1>5. \A kind : SaidBy(kind, b.parts) = Tell(kind, SaidBy(kind, a.parts), p)
  BY <1>0, SaidByAppend DEF Good
<1> QED BY <1>3, <1>4, <1>5

\* The part in progress is finished
LEMMA ClosedIs ==
    ASSUME NEW a, Good(a), NEW o \in Slots
    PROVE  LET b == Closed(a, o)
           IN  /\ Quiet(a, b) /\ b[o] = 0
               /\ \A u \in Slots \ {o} : b[u] = a[u]
<1>1. CASE a[o] = 0
  BY <1>1, QuietItself DEF Closed
<1>2. CASE a[o] # 0
  <2> DEFINE i == a[o]
             p == [a.parts[i] EXCEPT !.state = "done"]
             b == Closed(a, o)
  <2>1. i \in DOMAIN a.parts /\ GoodPart(a.parts[i]) /\ a.parts[i].kind = KindOf(o)
    <3>1. i \in 1..Len(a.parts)
      BY <1>2, GoodIsTokens DEF Good
    <3> QED BY <1>2, <3>1, GoodIsTokens DEF Good
  <2>2. /\ DOMAIN a = {"parts", "text", "think"} /\ o \in {"text", "think"}
    BY DEF Good, Slots
  <2>3. /\ DOMAIN b = {"parts", "text", "think"} /\ b.parts = [a.parts EXCEPT ![i] = p]
        /\ b[o] = 0 /\ \A u \in Slots \ {o} : b[u] = a[u]
    <3>1. b = [a EXCEPT !.parts[a[o]].state = "done", ![o] = 0]
      BY <1>2 DEF Closed
    <3> HIDE DEF b
    <3> QED BY <2>2, <3>1 DEF Slots
  <2>4. /\ p.kind = a.parts[i].kind /\ p.id = a.parts[i].id /\ p.content = a.parts[i].content
        /\ p.state = "done" /\ GoodPart(p)
    <3>1. /\ p.kind = a.parts[i].kind /\ p.id = a.parts[i].id /\ p.content = a.parts[i].content
          /\ p.state = "done" /\ DOMAIN p = DOMAIN a.parts[i]
      BY <2>1 DEF GoodPart
    <3>2. p.kind # "tool"
      BY <2>1, <3>1, Kinds
    <3> HIDE DEF p
    <3> QED BY <2>1, <3>1, <3>2 DEF GoodPart
  <2> HIDE DEF b, p
  <2>5. \A u \in Slots : b[u] = a[u] \/ (b[u] = 0 /\ a[u] = i)
    BY <2>3
  <2> HIDE DEF i
  <2>6. Quiet(a, b)
    BY <2>1, <2>3, <2>4, <2>5, ReplacedIsQuiet
  <2> QED BY <2>3, <2>6 DEF b
<1> QED BY <1>1, <1>2

\* ... if it is of the message that ends
LEMMA ClosedIfIs ==
    ASSUME NEW a, Good(a), NEW o \in Slots, NEW id
    PROVE  LET b == ClosedIf(a, o, id)
           IN  Quiet(a, b) /\ id \notin InProgress(b, o)
<1>1. CASE a[o] # 0 /\ a.parts[a[o]].id = id
  BY <1>1, ClosedIs DEF ClosedIf, InProgress
<1>2. CASE ~(a[o] # 0 /\ a.parts[a[o]].id = id)
  BY <1>2, QuietItself DEF ClosedIf, InProgress
<1> QED BY <1>1, <1>2

\* The part of a tool call, if it has one
LEMMA ToolPartIs ==
    ASSUME NEW a, Good(a), NEW call
    PROVE  LET i == ToolPart(a, call)
           IN  \/ i = 0 /\ \A j \in DOMAIN a.parts : ~(a.parts[j].kind = "tool" /\ a.parts[j].id = call)
               \/ i \in DOMAIN a.parts /\ a.parts[i].kind = "tool" /\ a.parts[i].id = call
<1> DEFINE S == {j \in 1..Len(a.parts) : a.parts[j].kind = "tool" /\ a.parts[j].id = call}
<1>1. ToolPart(a, call) = IF S # {} THEN Min(S) ELSE 0
  BY DEF ToolPart, SelectInSeq
<1>2. S # {} => Min(S) \in S
  <2>1. SUFFICES ASSUME S # {} PROVE Min(S) \in S
    OBVIOUS
  <2>2. S \subseteq Nat
    BY GoodIsTokens
  <2> HIDE DEF S
  <2>3. PICK i \in S : \A j \in S : ~(j < i)
    BY <2>1, <2>2, LeastNumber
  <2>4. \A j \in S : i =< j
    BY <2>2, <2>3
  <2> QED BY <2>3, <2>4, Zenon DEF Min
<1>3. DOMAIN a.parts = 1..Len(a.parts)
  BY GoodIsTokens
<1> QED BY <1>1, <1>2, <1>3

\* A tool part with an output, or an approval nobody answered
LEMMA WithToolIs ==
    ASSUME NEW a, Good(a), NEW call
    PROVE  LET b == WithTool(a, call)
           IN  /\ Quiet(a, b)
               /\ ToolPart(b, call) \in DOMAIN b.parts /\ b.parts[ToolPart(b, call)].kind = "tool"
<1>1. CASE ToolPart(a, call) # 0
  BY <1>1, ToolPartIs, QuietItself DEF WithTool
<1>2. CASE ToolPart(a, call) = 0
  <2> DEFINE p == NewPart("tool", call)
             b == WithTool(a, call)
  <2>1. /\ p.kind = "tool" /\ p.id = call /\ GoodPart(p)
    <3>1. <<>> \in Seq(Nat)
      BY EmptySeq
    <3> QED BY <3>1 DEF NewPart, GoodPart
  <2>2. DOMAIN a = {"parts", "text", "think"}
    BY DEF Good
  <2>3. /\ DOMAIN b = {"parts", "text", "think"} /\ b.parts = Append(a.parts, p)
        /\ \A o \in Slots : b[o] = a[o]
    <3>1. b = [a EXCEPT !.parts = Append(@, p)]
      BY <1>2 DEF WithTool
    <3> HIDE DEF b, p
    <3> QED BY <2>2, <3>1 DEF Slots
  <2> HIDE DEF b, p
  <2>4. \A o \in Slots : p.kind # KindOf(o)
    BY <2>1, Kinds
  <2>5. /\ Good(b)
        /\ \A o \in Slots :
                /\ SaidBy(KindOf(o), b.parts) = Tell(KindOf(o), SaidBy(KindOf(o), a.parts), p)
                /\ p.kind # KindOf(o) => InProgress(b, o) = InProgress(a, o)
    <3>1. Adds(a, b, p)
      BY <2>1, <2>3, <2>4 DEF Adds
    <3> QED BY <3>1, PartAdded
  <2>6. Quiet(a, b)
    BY <2>4, <2>5 DEF Quiet, Tell
  <2>7. \E j \in DOMAIN b.parts : b.parts[j].kind = "tool" /\ b.parts[j].id = call
    <3>1. Len(a.parts) + 1 \in DOMAIN b.parts /\ b.parts[Len(a.parts) + 1] = p
      BY <2>3, AppendIs, GoodIsTokens
    <3> QED BY <2>1, <3>1
  <2>8. ToolPart(b, call) \in DOMAIN b.parts /\ b.parts[ToolPart(b, call)].kind = "tool"
    BY <2>5, <2>7, ToolPartIs
  <2> QED BY <2>6, <2>8 DEF b
<1> QED BY <1>1, <1>2

\* What a tool's part is set to says nothing
LEMMA SetToolIs ==
    ASSUME NEW a0, Good(a0), NEW call, NEW state, NEW output,
           state = "approval-responded" => output # "none"
    PROVE  Quiet(a0, SetTool(a0, call, state, output))
<1> DEFINE a == WithTool(a0, call)
           i == ToolPart(a, call)
           new == IF output = "none" THEN a.parts[i].output ELSE output
           p == [a.parts[i] EXCEPT !.state = state, !.output = new]
           b == SetTool(a0, call, state, output)
<1>1. Quiet(a0, a) /\ i \in DOMAIN a.parts /\ a.parts[i].kind = "tool"
  BY WithToolIs
<1>2. b = [a EXCEPT !.parts[i].state = state,
                    !.parts[i].output = IF output = "none" THEN @ ELSE output]
  BY DEF SetTool
<1> HIDE DEF a, i
<1>3. Good(a) /\ DOMAIN a = {"parts", "text", "think"} /\ GoodPart(a.parts[i])
  BY <1>1 DEF Quiet, Good
<1> HIDE DEF b
<1>4. /\ DOMAIN b = {"parts", "text", "think"} /\ b.parts = [a.parts EXCEPT ![i] = p]
      /\ \A o \in Slots : b[o] = a[o]
  BY <1>1, <1>2, <1>3 DEF Slots, GoodPart
<1>5. /\ p.kind = "tool" /\ p.kind = a.parts[i].kind /\ p.id = a.parts[i].id
      /\ p.content = a.parts[i].content /\ DOMAIN p = DOMAIN a.parts[i]
      /\ p.state = state /\ p.output = new
  BY <1>1, <1>3 DEF GoodPart
<1>6. GoodPart(p)
  <2> HIDE DEF p
  <2> QED BY <1>3, <1>5 DEF GoodPart
<1> HIDE DEF p, new
<1>7. \A o \in Slots : p.kind # KindOf(o)
  BY <1>5, Kinds
<1>8. Quiet(a, b)
  BY <1>1, <1>3, <1>4, <1>5, <1>6, <1>7, ReplacedIsQuiet
<1> QED BY <1>1, <1>8, QuietTransitively DEF b

\* The messages an interrupt asks about
LEMMA RequestsAreQuiet ==
    ASSUME NEW a, Good(a), NEW q, NEW n \in Nat, DOMAIN q = 1..n
    PROVE  Quiet(a, RequestAll(a, q))
<1>1. PICK h : Chain(Requesting, a, q, n, h) /\ RequestAll(a, q) = h[n]
  BY RequestChain
<1>2. h[0] = a /\ \A m \in 1..n : h[m] = SetTool(h[m - 1], q[m], "approval-requested", "none")
  BY <1>1 DEF Chain, Applied, Requesting
<1> DEFINE B == {m \in 0..n : ~Quiet(a, h[m])}
<1>3. B = {}
  <2>1. SUFFICES ASSUME B # {} PROVE FALSE
    OBVIOUS
  <2>2. PICK m \in B : \A j \in B : ~(j < m)
    <3>1. B \subseteq Nat
      OBVIOUS
    <3> HIDE DEF B
    <3> QED BY <2>1, <3>1, LeastNumber
  <2>3. m # 0
    BY <1>2, <2>2, QuietItself
  <2>4. m \in 1..n /\ m - 1 \in 0..n /\ m - 1 < m
    BY <2>2, <2>3
  <2>5. Quiet(a, h[m - 1])
    BY <2>2, <2>4
  <2>6. Quiet(h[m - 1], SetTool(h[m - 1], q[m], "approval-requested", "none"))
    BY <2>5, SetToolIs DEF Quiet
  <2>7. Quiet(a, h[m])
    BY <1>2, <2>4, <2>5, <2>6, QuietTransitively
  <2> QED BY <2>2, <2>7
<1>4. n \in 0..n
  OBVIOUS
<1> QED BY <1>1, <1>3, <1>4

\* b says what a says and then the tokens, in the slot o, whose part is now of message id
Says(a, b, o, id, tokens) ==
  /\ Good(b) /\ InProgress(b, o) = {id}
  /\ SaidBy(KindOf(o), b.parts) = SaidBy(KindOf(o), a.parts) \o tokens
  /\ \A u \in Slots \ {o} : /\ SaidBy(KindOf(u), b.parts) = SaidBy(KindOf(u), a.parts)
                            /\ InProgress(b, u) \subseteq InProgress(a, u)

\* What a delta adds, to the part of its message or to a new one
LEMMA GrownIs ==
    ASSUME NEW a, Good(a), NEW o \in Slots, NEW id, InProgress(a, o) \subseteq {id},
           NEW tokens \in Seq(Nat)
    PROVE  Says(a, Grown(a, o, KindOf(o), id, tokens), o, id, tokens)
<1> DEFINE b == Grown(a, o, KindOf(o), id, tokens)
           kind == KindOf(o)
<1>0. /\ DOMAIN a = {"parts", "text", "think"} /\ o \in {"text", "think"} /\ IsSeq(a.parts)
      /\ Tokens(a.parts) /\ Len(a.parts) \in Nat /\ DOMAIN a.parts = 1..Len(a.parts)
      /\ kind \in {"text", "thinking"}
  BY GoodIsTokens DEF Good, Slots, KindOf
<1>1. CASE a[o] # 0
  <2> DEFINE i == a[o]
             said_ == a.parts[i].content \o tokens
             p == [a.parts[i] EXCEPT !.content = said_]
  <2>1. i \in 1..Len(a.parts) /\ GoodPart(a.parts[i]) /\ a.parts[i].kind = kind /\ a.parts[i].id = id
    <3>1. i \in 1..Len(a.parts)
      BY <1>0, <1>1 DEF Good
    <3> QED BY <1>0, <1>1, <3>1 DEF Good, InProgress
  <2>2. b = [a EXCEPT !.parts[a[o]].content = @ \o tokens]
    BY <1>1, <2>1 DEF Grown
  <2> HIDE DEF b
  <2>3. /\ DOMAIN b = {"parts", "text", "think"} /\ b.parts = [a.parts EXCEPT ![i] = p]
        /\ \A u \in Slots : b[u] = a[u]
    BY <1>0, <2>1, <2>2 DEF Slots
  <2>4. said_ \in Seq(Nat)
    <3> DEFINE c == a.parts[i].content
    <3>1. c \in Seq(Nat)
      BY <2>1 DEF GoodPart
    <3> HIDE DEF c
    <3>2. c \o tokens \in Seq(Nat)
      BY <3>1, ConcatProperties
    <3> QED BY <3>2 DEF c
  <2>5. /\ p.kind = kind /\ p.id = id /\ p.content = said_ /\ DOMAIN p = DOMAIN a.parts[i]
    <3> HIDE DEF said_
    <3> QED BY <2>1 DEF GoodPart
  <2>6. /\ p.kind = a.parts[i].kind /\ p.id = a.parts[i].id
    BY <2>1, <2>5
  <2> HIDE DEF p
  <2>7. p.content = a.parts[i].content \o tokens
    BY <2>5
  <2> HIDE DEF said_
  <2>8. GoodPart(p)
    BY <1>0, <2>1, <2>4, <2>5 DEF GoodPart
  <2>9. \A u \in Slots : p.kind = KindOf(u) /\ b[u] # i => p.state = "done"
    <3>1. \A u \in Slots : p.kind = KindOf(u) => u = o
      BY <2>5, Kinds
    <3> QED BY <2>3, <3>1
  <2>10. /\ \A j \in (i + 1)..Len(a.parts) : a.parts[j].kind # kind
    <3>1. \A j \in 1..Len(a.parts) : a.parts[j].kind = kind => j <= i
      BY <1>0, <1>1 DEF Good
    <3> HIDE DEF i, kind
    <3>2. i \in Nat
      BY <2>1
    <3> QED BY <1>0, <3>1, <3>2
  <2> HIDE DEF i, kind
  <2>11. /\ Good(b)
         /\ \A u \in Slots : InProgress(b, u) = IF b[u] = 0 THEN {} ELSE InProgress(a, u)
    <3>1. i \in DOMAIN a.parts /\ \A u \in Slots : b[u] = a[u] \/ (b[u] = 0 /\ a[u] = i)
      BY <1>0, <2>1, <2>3
    <3> QED BY <2>3, <2>6, <2>8, <2>9, <3>1, GoodReplaced
  <2>12. /\ IsSeq(b.parts) /\ Len(b.parts) = Len(a.parts)
         /\ b.parts[i] = p /\ \A j \in 1..Len(a.parts) \ {i} : b.parts[j] = a.parts[j]
    <3>1. i \in DOMAIN a.parts
      BY <1>0, <2>1
    <3> QED BY <1>0, <2>3, <3>1, PartReplaced
  <2>13. SaidBy(kind, b.parts) = SaidBy(kind, a.parts) \o tokens
    <3>1. /\ b.parts[i].kind = kind /\ a.parts[i].kind = kind
          /\ b.parts[i].content = a.parts[i].content \o tokens
      BY <2>1, <2>5, <2>7, <2>12
    <3>2. SaysMore(kind, a.parts, b.parts, i, tokens)
      BY <2>10, <2>12, <3>1 DEF SaysMore
    <3> QED BY <1>0, <2>1, <3>2, SaidByGrows
  <2>14. ASSUME NEW u \in Slots \ {o}
         PROVE  /\ SaidBy(KindOf(u), b.parts) = SaidBy(KindOf(u), a.parts)
                /\ InProgress(b, u) = InProgress(a, u)
    <3>1. KindOf(u) # kind
      BY Kinds DEF kind
    <3>2. \A m \in 1..Len(a.parts) : b.parts[m].kind = a.parts[m].kind
      BY <2>1, <2>5, <2>12
    <3>3. \A m \in 1..Len(a.parts) :
            a.parts[m].kind = KindOf(u) => b.parts[m] = a.parts[m]
      BY <2>1, <2>12, <3>1
    <3>4. \A t : \A m \in 1..Len(a.parts) :
            Tell(KindOf(u), t, b.parts[m]) = Tell(KindOf(u), t, a.parts[m])
      BY <3>2, <3>3 DEF Tell
    <3>5. PICK h : Tells(KindOf(u), a.parts, h) /\ SaidBy(KindOf(u), a.parts) = h[Len(a.parts)]
      BY <1>0, TellLinks
    <3>6. Tells(KindOf(u), b.parts, h)
      BY <2>12, <3>4, <3>5 DEF Tells
    <3>7. SaidBy(KindOf(u), b.parts) = h[Len(b.parts)]
      BY <2>12, <3>6, LinksAgree
    <3>8. InProgress(b, u) = InProgress(a, u)
      BY <2>3, <2>11 DEF InProgress
    <3> QED BY <2>12, <3>5, <3>7, <3>8
  <2>15. InProgress(b, o) = {id}
    BY <1>1, <2>1, <2>3, <2>11 DEF InProgress, i
  <2>16. Says(a, b, o, id, tokens)
    BY <2>11, <2>13, <2>14, <2>15 DEF Says, kind
  <2> QED BY <2>16 DEF b, kind
<1>2. CASE a[o] = 0
  <2> DEFINE p == [NewPart(kind, id) EXCEPT !.content = tokens]
  <2>1. b = [a EXCEPT !.parts = Append(@, p), ![o] = Len(a.parts) + 1]
    BY <1>2 DEF Grown
  <2>2. p.kind = kind /\ p.id = id /\ p.content = tokens /\ GoodPart(p)
    BY <1>0 DEF NewPart, GoodPart
  <2> HIDE DEF b, p, kind
  <2>3. /\ DOMAIN b = {"parts", "text", "think"} /\ b.parts = Append(a.parts, p)
        /\ b[o] = Len(a.parts) + 1 /\ \A u \in Slots \ {o} : b[u] = a[u]
    BY <1>0, <2>1 DEF Slots
  <2>4. \A u \in Slots : p.kind = KindOf(u) <=> u = o
    BY <2>2, Kinds DEF kind
  <2>5. /\ Good(b)
        /\ \A u \in Slots :
                /\ SaidBy(KindOf(u), b.parts) = Tell(KindOf(u), SaidBy(KindOf(u), a.parts), p)
                /\ p.kind = KindOf(u) => InProgress(b, u) = {p.id}
                /\ p.kind # KindOf(u) => InProgress(b, u) = InProgress(a, u)
    <3>1. Adds(a, b, p)
      BY <1>2, <2>2, <2>3, <2>4 DEF Adds
    <3> QED BY <3>1, PartAdded
  <2>6. \A t : Tell(kind, t, p) = t \o tokens
    BY <2>2 DEF Tell
  <2>7. \A u \in Slots \ {o} : \A t : Tell(KindOf(u), t, p) = t
    BY <2>4 DEF Tell
  <2>8. SaidBy(kind, b.parts) = SaidBy(kind, a.parts) \o tokens
    BY <2>5, <2>6 DEF kind
  <2>9. InProgress(b, o) = {id} /\ \A u \in Slots \ {o} : InProgress(b, u) = InProgress(a, u)
    BY <2>2, <2>4, <2>5
  <2>10. Says(a, b, o, id, tokens)
    BY <2>5, <2>7, <2>8, <2>9 DEF Says, kind
  <2> QED BY <2>10 DEF b, kind
<1> QED BY <1>1, <1>2

\* What an event does to the parts in progress before it is looked at
Cut(acc0, e) ==
  LET acc1 == IF e.type \in ReasoningTypes \cup NeutralTypes THEN acc0 ELSE Closed(acc0, "think")
  IN  IF e.type \in ActivityTypes THEN Closed(acc1, "text") ELSE acc1

\* It says nothing
LEMMA CutIsQuiet ==
    ASSUME NEW a, Good(a), NEW e
    PROVE  Quiet(a, Cut(a, e))
<1> DEFINE b == IF e.type \in ReasoningTypes \cup NeutralTypes THEN a ELSE Closed(a, "think")
<1>0. "text" \in Slots /\ "think" \in Slots
  BY DEF Slots
<1>1. Quiet(a, b)
  BY <1>0, QuietItself, ClosedIs
<1>2. Cut(a, e) = IF e.type \in ActivityTypes THEN Closed(b, "text") ELSE b
  BY DEF Cut
<1> HIDE DEF b
<1>3. Quiet(b, Closed(b, "text"))
  BY <1>0, <1>1, ClosedIs DEF Quiet
<1>4. Quiet(a, Closed(b, "text"))
  BY <1>1, <1>3, QuietTransitively
<1> QED BY <1>1, <1>2, <1>4

\* The events that say something, or begin to
SayingTypes == {"TEXT_MESSAGE_CONTENT", "REASONING_MESSAGE_START", "REASONING_MESSAGE_CONTENT"}

\* A tool call's part says nothing
LEMMA ToolStartIsQuiet ==
    ASSUME NEW a, Good(a), NEW call
    PROVE  Quiet(a, [a EXCEPT !.parts = Append(@, NewPart("tool", call))])
<1> DEFINE p == NewPart("tool", call)
           b == [a EXCEPT !.parts = Append(@, p)]
<1>1. /\ p.kind = "tool" /\ p.id = call /\ GoodPart(p)
  <2>1. <<>> \in Seq(Nat)
    BY EmptySeq
  <2> QED BY <2>1 DEF NewPart, GoodPart
<1>2. DOMAIN a = {"parts", "text", "think"}
  BY DEF Good
<1> HIDE DEF p
<1>3. /\ DOMAIN b = {"parts", "text", "think"} /\ b.parts = Append(a.parts, p)
      /\ \A o \in Slots : b[o] = a[o]
  BY <1>2 DEF Slots
<1> HIDE DEF b
<1>4. \A o \in Slots : p.kind # KindOf(o)
  BY <1>1, Kinds
<1>5. Adds(a, b, p)
  BY <1>1, <1>3, <1>4 DEF Adds
<1>6. /\ Good(b)
      /\ \A o \in Slots :
           /\ SaidBy(KindOf(o), b.parts) = Tell(KindOf(o), SaidBy(KindOf(o), a.parts), p)
           /\ p.kind # KindOf(o) => InProgress(b, o) = InProgress(a, o)
  BY <1>5, PartAdded
<1>7. Quiet(a, b)
  BY <1>4, <1>6 DEF Quiet, Tell
<1> QED BY <1>7 DEF b, p

\* What all other events make of the parts
LEMMA OtherEventsAreQuiet ==
    ASSUME NEW a, Good(a), NEW e, e.type \notin SayingTypes,
           e.type = "RUN_FINISHED" => IsFiniteSet(e.value)
    PROVE  /\ Quiet(a, PartOf(a, e))
           /\ e.type = "TEXT_MESSAGE_END" => e.id \notin InProgress(PartOf(a, e), "text")
           /\ e.type = "REASONING_MESSAGE_END" => e.id \notin InProgress(PartOf(a, e), "think")
<1> DEFINE c == Cut(a, e)
           b == PartOf(a, e)
           answer == IF e.value \in {"approval", "denial"} THEN "approval-responded"
                                                           ELSE "input-complete"
           asked == FoldLeft(LAMBDA t, d : SetTool(t, d, "approval-requested", "none"), c,
                             SetToSeq(e.value))
<1>0. "text" \in Slots /\ "think" \in Slots
  BY DEF Slots
<1>1. Quiet(a, c) /\ Good(c)
  BY CutIsQuiet DEF Quiet
<1>2. b = CASE e.type = "TEXT_MESSAGE_CONTENT"      -> Grown(c, "text", "text", e.id, <<e.value>>)
        [] e.type = "TEXT_MESSAGE_END"          -> ClosedIf(c, "text", e.id)
        [] e.type = "REASONING_MESSAGE_START"   -> Grown(c, "think", "thinking", e.id, <<>>)
        [] e.type = "REASONING_MESSAGE_CONTENT" -> Grown(c, "think", "thinking", e.id, <<e.value>>)
        [] e.type = "REASONING_MESSAGE_END"     -> ClosedIf(c, "think", e.id)
        [] e.type = "TOOL_CALL_START"  -> [c EXCEPT !.parts = Append(@, NewPart("tool", e.id))]
        [] e.type = "TOOL_CALL_ARGS"   -> SetTool(c, e.id, "input-streaming", "none")
        [] e.type = "TOOL_CALL_END"    -> SetTool(c, e.id, "input-complete", "none")
        [] e.type = "TOOL_CALL_RESULT" -> SetTool(c, e.id, answer, e.value)
        [] e.type = "RUN_FINISHED"     -> asked
        [] OTHER                       -> c
  BY DEF PartOf, Cut
<1> HIDE DEF b, c, answer
<1>3. CASE e.type = "TEXT_MESSAGE_END"
  <2>1. b = ClosedIf(c, "text", e.id)
    BY <1>2, <1>3
  <2>2. Quiet(c, b) /\ e.id \notin InProgress(b, "text")
    BY <1>0, <1>1, <2>1, ClosedIfIs
  <2>3. Quiet(a, b)
    BY <1>1, <2>2, QuietTransitively
  <2> QED BY <1>3, <2>2, <2>3 DEF b
<1>4. CASE e.type = "REASONING_MESSAGE_END"
  <2>1. b = ClosedIf(c, "think", e.id)
    BY <1>2, <1>4
  <2>2. Quiet(c, b) /\ e.id \notin InProgress(b, "think")
    BY <1>0, <1>1, <2>1, ClosedIfIs
  <2>3. Quiet(a, b)
    BY <1>1, <2>2, QuietTransitively
  <2> QED BY <1>4, <2>2, <2>3 DEF b
<1>5. CASE e.type = "TOOL_CALL_START"
  <2>1. b = [c EXCEPT !.parts = Append(@, NewPart("tool", e.id))]
    BY <1>2, <1>5
  <2>2. Quiet(c, b)
    BY <1>1, <2>1, ToolStartIsQuiet
  <2>3. Quiet(a, b)
    BY <1>1, <2>2, QuietTransitively
  <2> QED BY <1>5, <2>3 DEF b
<1>6. CASE e.type \in {"TOOL_CALL_ARGS", "TOOL_CALL_END", "TOOL_CALL_RESULT"}
  <2>1. PICK state, output : /\ b = SetTool(c, e.id, state, output)
                             /\ state = "approval-responded" => output # "none"
    <3>1. CASE e.type = "TOOL_CALL_ARGS"
      <4>1. b = SetTool(c, e.id, "input-streaming", "none") /\ "input-streaming" # "approval-responded"
        BY <1>2, <3>1
      <4> QED BY <4>1
    <3>2. CASE e.type = "TOOL_CALL_END"
      <4>1. b = SetTool(c, e.id, "input-complete", "none") /\ "input-complete" # "approval-responded"
        BY <1>2, <3>2
      <4> QED BY <4>1
    <3>3. CASE e.type = "TOOL_CALL_RESULT"
      <4>1. b = SetTool(c, e.id, answer, e.value)
        BY <1>2, <3>3
      <4>2. answer = "approval-responded" => e.value # "none"
        BY DEF answer
      <4> QED BY <4>1, <4>2
    <3> QED BY <1>6, <3>1, <3>2, <3>3
  <2>2. Quiet(c, b)
    BY <1>1, <2>1, SetToolIs
  <2>3. Quiet(a, b)
    BY <1>1, <2>2, QuietTransitively
  <2> QED BY <1>6, <2>3 DEF b
<1>7. CASE e.type = "RUN_FINISHED"
  <2> DEFINE q == SetToSeq(e.value)
             S == e.value
  <2>1. DOMAIN q = 1..Cardinality(S) /\ Cardinality(S) \in Nat
    <3>1. IsFiniteSet(S)
      BY <1>7
    <3> HIDE DEF S
    <3>2. Cardinality(S) \in Nat /\ ExistsBijection(1..Cardinality(S), S)
      BY <3>1, FS_CardinalityType
    <3>3. \E f \in [1..Cardinality(S) -> S] : IsInjective(f)
      BY <3>2 DEF ExistsBijection, Bijection, Injection
    <3>4. q \in [1..Cardinality(S) -> S]
      BY <3>3, Zenon DEF SetToSeq, S
    <3> HIDE DEF q
    <3> QED BY <3>2, <3>4
  <2>2. b = RequestAll(c, q)
    BY <1>2, <1>7 DEF RequestAll
  <2> HIDE DEF q, S
  <2>3. Quiet(c, b)
    BY <1>1, <2>1, <2>2, RequestsAreQuiet
  <2>4. Quiet(a, b)
    BY <1>1, <2>3, QuietTransitively
  <2> QED BY <1>7, <2>4 DEF b
<1>8. CASE e.type \notin {"TEXT_MESSAGE_END", "REASONING_MESSAGE_END", "TOOL_CALL_START",
                          "TOOL_CALL_ARGS", "TOOL_CALL_END", "TOOL_CALL_RESULT", "RUN_FINISHED"}
  <2>1. b = c
    BY <1>2, <1>8 DEF SayingTypes
  <2> QED BY <1>1, <1>8, <2>1 DEF b
<1> QED BY <1>3, <1>4, <1>5, <1>6, <1>7, <1>8

\* What is quiet before does not matter
LEMMA SaysAfterQuiet ==
    ASSUME NEW a, NEW c, NEW b, NEW o \in Slots, NEW id, NEW tokens, Quiet(a, c),
           Says(c, b, o, id, tokens)
    PROVE  Says(a, b, o, id, tokens)
<1>1. SaidBy(KindOf(o), b.parts) = SaidBy(KindOf(o), a.parts) \o tokens
  BY DEF Quiet, Says
<1>2. ASSUME NEW u \in Slots \ {o}
      PROVE  /\ SaidBy(KindOf(u), b.parts) = SaidBy(KindOf(u), a.parts)
             /\ InProgress(b, u) \subseteq InProgress(a, u)
  <2>1. /\ SaidBy(KindOf(u), b.parts) = SaidBy(KindOf(u), c.parts)
        /\ InProgress(b, u) \subseteq InProgress(c, u)
        /\ SaidBy(KindOf(u), c.parts) = SaidBy(KindOf(u), a.parts)
        /\ InProgress(c, u) \subseteq InProgress(a, u)
    BY DEF Quiet, Says
  <2> QED BY <2>1
<1>3. Good(b) /\ InProgress(b, o) = {id}
  BY DEF Says
<1> QED BY <1>1, <1>2, <1>3, Zenon DEF Says

\* What a delta of text, or of reasoning, says, and what the start of reasoning does not
LEMMA SayingEvents ==
    ASSUME NEW a, Good(a), NEW e
    PROVE  /\ e.type = "TEXT_MESSAGE_CONTENT" /\ e.value \in Nat
                /\ InProgress(a, "text") \subseteq {e.id} =>
              Says(a, PartOf(a, e), "text", e.id, <<e.value>>)
           /\ e.type = "REASONING_MESSAGE_CONTENT" /\ e.value \in Nat
                /\ InProgress(a, "think") \subseteq {e.id} =>
              Says(a, PartOf(a, e), "think", e.id, <<e.value>>)
           /\ e.type = "REASONING_MESSAGE_START" /\ InProgress(a, "think") \subseteq {e.id} =>
              Says(a, PartOf(a, e), "think", e.id, <<>>)
<1> DEFINE c == Cut(a, e)
<1>0. /\ "text" \in Slots /\ "think" \in Slots /\ KindOf("text") = "text"
      /\ KindOf("think") = "thinking" /\ <<>> \in Seq(Nat)
  BY Kinds, EmptySeq DEF Slots
<1>1. Quiet(a, c) /\ Good(c)
  BY CutIsQuiet DEF Quiet
<1>2. \A o \in Slots : InProgress(c, o) \subseteq InProgress(a, o)
  BY <1>1 DEF Quiet
<1>3. /\ e.type = "TEXT_MESSAGE_CONTENT" => PartOf(a, e) = Grown(c, "text", "text", e.id, <<e.value>>)
      /\ e.type = "REASONING_MESSAGE_CONTENT" =>
           PartOf(a, e) = Grown(c, "think", "thinking", e.id, <<e.value>>)
      /\ e.type = "REASONING_MESSAGE_START" =>
           PartOf(a, e) = Grown(c, "think", "thinking", e.id, <<>>)
  BY DEF PartOf, Cut
<1> HIDE DEF c
<1>4. ASSUME NEW o \in Slots, NEW id, InProgress(a, o) \subseteq {id}, NEW tokens \in Seq(Nat)
      PROVE  Says(a, Grown(c, o, KindOf(o), id, tokens), o, id, tokens)
  <2>1. InProgress(c, o) \subseteq {id}
    BY <1>2, <1>4
  <2>2. Says(c, Grown(c, o, KindOf(o), id, tokens), o, id, tokens)
    BY <1>1, <2>1, GrownIs
  <2> QED BY <1>1, <2>2, SaysAfterQuiet
<1>5. e.value \in Nat => <<e.value>> \in Seq(Nat)
  OBVIOUS
<1> QED BY <1>0, <1>3, <1>4, <1>5

-----------------------------------------------------------------------------
(* The parts of a run. *)

\* No events make no parts
LEMMA ProjectionOfNone ==
    /\ Projection(<<>>) = NoParts /\ Good(NoParts)
    /\ \A o \in Slots : InProgress(NoParts, o) = {} /\ SaidBy(KindOf(o), NoParts.parts) = <<>>
<1>1. DOMAIN <<>> = 1..0 /\ 0 \in Nat
  OBVIOUS
<1>2. PICK h : Chain(Parting, NoParts, <<>>, 0, h) /\ Projection(<<>>) = h[0]
  BY <1>1, PartChain DEF Projection
<1>3. Projection(<<>>) = NoParts
  BY <1>2 DEF Chain
<1>4. IsSeq(<<>>) /\ Len(<<>>) = 0 /\ DOMAIN <<>> = {}
  BY DEF IsSeq
<1>5. Good(NoParts)
  BY <1>4 DEF Good, NoParts, Slots
<1>6. \A o \in Slots : InProgress(NoParts, o) = {} /\ SaidBy(KindOf(o), NoParts.parts) = <<>>
  BY SaidByNone DEF NoParts, InProgress, Slots
<1> QED BY <1>3, <1>5, <1>6

\* One event more
LEMMA ProjectionOfAppend ==
    ASSUME NEW events, IsSeq(events), NEW e
    PROVE  Projection(Append(events, e)) = PartOf(Projection(events), e)
<1>1. ASSUME NEW q, IsSeq(q) PROVE Projection(q) = Folded(Parting, NoParts, q)
  <2>1. Len(q) \in Nat /\ DOMAIN q = 1..Len(q)
    BY <1>1, SeqIs
  <2>2. PICK h : Chain(Parting, NoParts, q, Len(q), h) /\ Projection(q) = h[Len(q)]
    BY <2>1, PartChain DEF Projection
  <2> QED BY <1>1, <2>2, FoldedIs
<1>2. IsSeq(Append(events, e))
  BY AppendIs
<1>3. Projection(Append(events, e)) = Applied(Parting, Projection(events), e)
  BY <1>1, <1>2, FoldedOfAppend
<1>4. Applied(Parting, Projection(events), e) = PartOf(Projection(events), e)
  BY DEF Applied, Parting
<1> QED BY <1>3, <1>4

-----------------------------------------------------------------------------
(* What the writer's operations say. *)

\* The parts of a run as it stands
Shown(s) == Projection(s.events)

Plain(s) ==
  DOMAIN s = Fields /\ IsSeq(s.events) /\ IsFiniteSet(s.interrupts) /\ Good(Shown(s))

\* The messages of a slot the writer has open
OpenIn(s, o) == IF o = "text" THEN s.textOpen ELSE s.reasoningOpen

\* The parts in progress are of messages the writer has open
Held(s) == \A o \in Slots : InProgress(Shown(s), o) \subseteq OpenIn(s, o)

Offset(s, o) == IF o = "text" THEN s.textOffset ELSE s.reasoningOffset

\* t says what s says, and numbers its messages like s
Calm(s, t) ==
  /\ Plain(t) /\ Quiet(Shown(s), Shown(t))
  /\ \A o \in Slots : Offset(t, o) = Offset(s, o)
  /\ Held(s) => Held(t)

\* Calm is an order
LEMMA CalmItself ==
    ASSUME NEW s, Plain(s)
    PROVE  Calm(s, s)
BY QuietItself DEF Calm, Plain

\* A calm operation after a calm one is calm
LEMMA CalmTransitively ==
    ASSUME NEW s, NEW t, NEW u, Calm(s, t), Calm(t, u)
    PROVE  Calm(s, u)
<1>1. Quiet(Shown(s), Shown(u))
  BY QuietTransitively DEF Calm
<1>2. \A o \in Slots : Offset(u, o) = Offset(s, o)
  BY DEF Calm
<1> QED BY <1>1, <1>2 DEF Calm

\* What adding an event leaves alone
LEMMA AddLeaves ==
    ASSUME NEW s, DOMAIN s = Fields, NEW e
    PROVE  LET t == Add(s, e)
           IN  /\ DOMAIN t = Fields /\ t.events = Append(s.events, e)
               /\ t.interrupts = s.interrupts /\ t.textOffset = s.textOffset
               /\ t.reasoningOffset = s.reasoningOffset /\ t.current = s.current
               /\ t.textOpen = s.textOpen /\ t.reasoningOpen = s.reasoningOpen
               /\ t.phaseOpen = s.phaseOpen
BY DEF Add, Fields

\* Whatever is not about the events, and leaves open what is in progress
LEMMA CalmBesides ==
    ASSUME NEW s, NEW u, Calm(s, u), NEW t, DOMAIN t = Fields, t.events = u.events,
           IsFiniteSet(t.interrupts),
           t.textOffset = u.textOffset, t.reasoningOffset = u.reasoningOffset,
           Held(u) => Held(t)
    PROVE  Calm(s, t)
<1>1. Shown(t) = Shown(u)
  BY DEF Shown
<1>2. Plain(t)
  BY <1>1 DEF Calm, Plain
<1>3. \A o \in Slots : Offset(t, o) = Offset(s, o)
  BY DEF Calm, Offset
<1> QED BY <1>1, <1>2, <1>3 DEF Calm

\* Adding an event that says nothing
LEMMA AddIsCalm ==
    ASSUME NEW s, Plain(s), NEW e, e.type \notin SayingTypes,
           e.type = "RUN_FINISHED" => IsFiniteSet(e.value)
    PROVE  /\ Calm(s, Add(s, e))
           /\ e.type = "TEXT_MESSAGE_END" => e.id \notin InProgress(Shown(Add(s, e)), "text")
           /\ e.type = "REASONING_MESSAGE_END" => e.id \notin InProgress(Shown(Add(s, e)), "think")
<1> DEFINE t == Add(s, e)
<1>1. /\ DOMAIN t = Fields /\ t.events = Append(s.events, e)
      /\ t.interrupts = s.interrupts /\ t.textOffset = s.textOffset
      /\ t.reasoningOffset = s.reasoningOffset
      /\ t.textOpen = s.textOpen /\ t.reasoningOpen = s.reasoningOpen
  BY AddLeaves DEF Plain
<1> HIDE DEF t
<1>2. Shown(t) = PartOf(Shown(s), e)
  BY <1>1, ProjectionOfAppend DEF Shown, Plain
<1>3. /\ Quiet(Shown(s), Shown(t))
      /\ e.type = "TEXT_MESSAGE_END" => e.id \notin InProgress(Shown(t), "text")
      /\ e.type = "REASONING_MESSAGE_END" => e.id \notin InProgress(Shown(t), "think")
  BY <1>2, OtherEventsAreQuiet DEF Plain
<1>4. Plain(t)
  BY <1>1, <1>3, AppendIs DEF Plain, Quiet
<1>5. Held(s) => Held(t)
  BY <1>1, <1>3 DEF Held, Quiet, OpenIn
<1>6. \A o \in Slots : Offset(t, o) = Offset(s, o)
  BY <1>1 DEF Offset
<1> QED BY <1>3, <1>4, <1>5, <1>6 DEF Calm, t

\* Opening a text message
LEMMA OpenTextIsCalm ==
    ASSUME NEW s, Plain(s), NEW id
    PROVE  LET t == OpenText(s, id)
           IN  /\ Calm(s, t) /\ id \in t.textOpen /\ t.reasoningOpen = s.reasoningOpen
<1>1. CASE id \in s.textOpen
  BY <1>1, CalmItself DEF OpenText
<1>2. CASE id \notin s.textOpen
  <2> DEFINE e == Ev("TEXT_MESSAGE_START", id, 0)
             u == Add(s, e)
             t == OpenText(s, id)
  <2>1. t = [u EXCEPT !.textOpen = @ \cup {id}]
    BY <1>2 DEF OpenText
  <2>2. e.type = "TEXT_MESSAGE_START"
    BY DEF Ev
  <2> HIDE DEF e
  <2>3. Calm(s, u)
    BY <2>2, AddIsCalm DEF SayingTypes
  <2>4. DOMAIN u = Fields /\ u.reasoningOpen = s.reasoningOpen
    BY AddLeaves DEF Plain
  <2> HIDE DEF u, t
  <2>5. /\ DOMAIN t = Fields /\ t.events = u.events /\ t.interrupts = u.interrupts
        /\ t.textOffset = u.textOffset /\ t.reasoningOffset = u.reasoningOffset
        /\ t.textOpen = u.textOpen \cup {id} /\ t.reasoningOpen = u.reasoningOpen
    BY <2>1, <2>4 DEF Fields
  <2>6. Held(u) => Held(t)
    BY <2>5 DEF Held, OpenIn, Shown
  <2>7. Calm(s, t)
    BY <2>3, <2>5, <2>6, CalmBesides DEF Calm, Plain
  <2> QED BY <2>4, <2>5, <2>7 DEF t
<1> QED BY <1>1, <1>2

\* Closing one: its part is no longer in progress
LEMMA CloseTextIsCalm ==
    ASSUME NEW s, Plain(s), NEW id
    PROVE  LET t == CloseText(s, id)
           IN  Calm(s, t) /\ (Held(s) => id \notin InProgress(Shown(t), "text"))
<1>0. "text" \in Slots
  BY DEF Slots
<1>1. CASE id \notin s.textOpen
  BY <1>0, <1>1, CalmItself DEF CloseText, Held, OpenIn
<1>2. CASE id \in s.textOpen
  <2> DEFINE e == Ev("TEXT_MESSAGE_END", id, 0)
             u == Add(s, e)
             t == CloseText(s, id)
  <2>1. t = [u EXCEPT !.textOpen = @ \ {id}]
    BY <1>2 DEF CloseText
  <2>2. e.type = "TEXT_MESSAGE_END" /\ e.id = id
    BY DEF Ev
  <2> HIDE DEF e
  <2>3. Calm(s, u) /\ id \notin InProgress(Shown(u), "text")
    BY <2>2, AddIsCalm DEF SayingTypes
  <2>4. DOMAIN u = Fields
    BY AddLeaves DEF Plain
  <2> HIDE DEF u, t
  <2>5. /\ DOMAIN t = Fields /\ t.events = u.events /\ t.interrupts = u.interrupts
        /\ t.textOffset = u.textOffset /\ t.reasoningOffset = u.reasoningOffset
        /\ t.textOpen = u.textOpen \ {id} /\ t.reasoningOpen = u.reasoningOpen
    BY <2>1, <2>4 DEF Fields
  <2>6. Shown(t) = Shown(u)
    BY <2>5 DEF Shown
  <2>7. Held(u) => Held(t)
    BY <2>3, <2>5, <2>6 DEF Held, OpenIn
  <2>8. Calm(s, t)
    BY <2>3, <2>5, <2>7, CalmBesides DEF Calm, Plain
  <2> QED BY <2>3, <2>6, <2>8 DEF t
<1> QED BY <1>1, <1>2

\* The end of reasoning is calm, and its part is no longer in progress
LEMMA CloseReasoningIsCalm ==
    ASSUME NEW s, Plain(s), NEW id
    PROVE  LET t == CloseReasoning(s, id)
           IN  Calm(s, t) /\ (Held(s) => id \notin InProgress(Shown(t), "think"))
<1>0. "think" \in Slots /\ "think" # "text"
  BY DEF Slots
<1>1. CASE id \notin s.reasoningOpen
  BY <1>0, <1>1, CalmItself DEF CloseReasoning, Held, OpenIn
<1>2. CASE id \in s.reasoningOpen
  <2> DEFINE e == Ev("REASONING_MESSAGE_END", id, 0)
             u == Add(s, e)
             t == CloseReasoning(s, id)
  <2>1. t = [u EXCEPT !.reasoningOpen = @ \ {id}]
    BY <1>2 DEF CloseReasoning
  <2>2. e.type = "REASONING_MESSAGE_END" /\ e.id = id
    BY DEF Ev
  <2> HIDE DEF e
  <2>3. Calm(s, u) /\ id \notin InProgress(Shown(u), "think")
    BY <2>2, AddIsCalm DEF SayingTypes
  <2>4. DOMAIN u = Fields
    BY AddLeaves DEF Plain
  <2> HIDE DEF u, t
  <2>5. /\ DOMAIN t = Fields /\ t.events = u.events /\ t.interrupts = u.interrupts
        /\ t.textOffset = u.textOffset /\ t.reasoningOffset = u.reasoningOffset
        /\ t.textOpen = u.textOpen /\ t.reasoningOpen = u.reasoningOpen \ {id}
    BY <2>1, <2>4 DEF Fields
  <2>6. Shown(t) = Shown(u)
    BY <2>5 DEF Shown
  <2>7. Held(u) => Held(t)
    BY <2>3, <2>5, <2>6 DEF Held, OpenIn, Slots
  <2>8. Calm(s, t)
    BY <2>3, <2>5, <2>7, CalmBesides DEF Calm, Plain
  <2> QED BY <2>3, <2>6, <2>8 DEF t
<1> QED BY <1>1, <1>2

\* The reasoning phase
LEMMA OpenPhaseIsCalm ==
    ASSUME NEW s, Plain(s)
    PROVE  Calm(s, OpenPhase(s))
<1>1. CASE s.phaseOpen
  BY <1>1, CalmItself DEF OpenPhase
<1>2. CASE ~s.phaseOpen
  <2> DEFINE e == Ev("REASONING_START", 0, 0)
             u == Add(s, e)
             t == OpenPhase(s)
  <2>1. t = [u EXCEPT !.phaseOpen = TRUE]
    BY <1>2 DEF OpenPhase
  <2>2. e.type = "REASONING_START"
    BY DEF Ev
  <2> HIDE DEF e
  <2>3. Calm(s, u)
    BY <2>2, AddIsCalm DEF SayingTypes
  <2>4. DOMAIN u = Fields
    BY AddLeaves DEF Plain
  <2> HIDE DEF u, t
  <2>5. /\ DOMAIN t = Fields /\ t.events = u.events /\ t.interrupts = u.interrupts
        /\ t.textOffset = u.textOffset /\ t.reasoningOffset = u.reasoningOffset
        /\ t.textOpen = u.textOpen /\ t.reasoningOpen = u.reasoningOpen
    BY <2>1, <2>4 DEF Fields
  <2>6. Held(u) => Held(t)
    BY <2>5 DEF Held, OpenIn, Shown
  <2>7. Calm(s, t)
    BY <2>3, <2>5, <2>6, CalmBesides DEF Calm, Plain
  <2> QED BY <2>7 DEF t
<1> QED BY <1>1, <1>2

\* ... its end
LEMMA ClosePhaseIsCalm ==
    ASSUME NEW s, Plain(s)
    PROVE  Calm(s, ClosePhase(s))
<1>1. CASE ~s.phaseOpen
  BY <1>1, CalmItself DEF ClosePhase
<1>2. CASE s.phaseOpen
  <2> DEFINE e == Ev("REASONING_END", 0, 0)
             u == Add(s, e)
             t == ClosePhase(s)
  <2>1. t = [u EXCEPT !.phaseOpen = FALSE]
    BY <1>2 DEF ClosePhase
  <2>2. e.type = "REASONING_END"
    BY DEF Ev
  <2> HIDE DEF e
  <2>3. Calm(s, u)
    BY <2>2, AddIsCalm DEF SayingTypes
  <2>4. DOMAIN u = Fields
    BY AddLeaves DEF Plain
  <2> HIDE DEF u, t
  <2>5. /\ DOMAIN t = Fields /\ t.events = u.events /\ t.interrupts = u.interrupts
        /\ t.textOffset = u.textOffset /\ t.reasoningOffset = u.reasoningOffset
        /\ t.textOpen = u.textOpen /\ t.reasoningOpen = u.reasoningOpen
    BY <2>1, <2>4 DEF Fields
  <2>6. Held(u) => Held(t)
    BY <2>5 DEF Held, OpenIn, Shown
  <2>7. Calm(s, t)
    BY <2>3, <2>5, <2>6, CalmBesides DEF Calm, Plain
  <2> QED BY <2>7 DEF t
<1> QED BY <1>1, <1>2

\* Steps that are calm make a calm chain
LEMMA CalmChain ==
    ASSUME NEW s, Plain(s), NEW k, NEW q, NEW n \in Nat, NEW h, Chain(k, s, q, n, h),
           \A t, x : Plain(t) => Calm(t, Applied(k, t, x))
    PROVE  Calm(s, h[n])
<1>1. h[0] = s /\ \A m \in 1..n : h[m] = Applied(k, h[m - 1], q[m])
  BY DEF Chain
<1> DEFINE B == {m \in 0..n : ~Calm(s, h[m])}
<1>2. B = {}
  <2>1. SUFFICES ASSUME B # {} PROVE FALSE
    OBVIOUS
  <2>2. PICK m \in B : \A j \in B : ~(j < m)
    <3>1. B \subseteq Nat
      OBVIOUS
    <3> HIDE DEF B
    <3> QED BY <2>1, <3>1, LeastNumber
  <2>3. m # 0
    BY <1>1, <2>2, CalmItself
  <2>4. m \in 1..n /\ m - 1 \in 0..n /\ m - 1 < m
    BY <2>2, <2>3
  <2>5. Calm(s, h[m - 1])
    BY <2>2, <2>4
  <2>6. Calm(h[m - 1], Applied(k, h[m - 1], q[m]))
    BY <2>5 DEF Calm
  <2>7. Calm(s, h[m])
    BY <1>1, <2>4, <2>5, <2>6, CalmTransitively
  <2> QED BY <2>2, <2>7
<1>3. n \in 0..n
  OBVIOUS
<1> QED BY <1>2, <1>3

\* Closing all there is to close says nothing
LEMMA FinishingIsCalm ==
    ASSUME NEW s, Sound(s), Plain(s)
    PROVE  Calm(s, FinishText(FinishReasoning(s)))
<1> DEFINE q == Ascending(s.reasoningOpen)
           c == FoldLeft(CloseReasoning, s, q)
           r == FinishReasoning(s)
           p == Ascending(r.textOpen)
           t == FoldLeft(CloseText, r, p)
<1>1. r = ClosePhase(c) /\ FinishText(r) = t
  BY DEF FinishReasoning, ClosePhase, FinishText
<1>2. Sound(r)
  BY FinishReasoningIs DEF Follows
<1> HIDE DEF r
<1>3. Calm(s, c)
  <2>1. PICK k \in Nat : s.reasoningOpen \in SUBSET (0..k)
    BY DEF Sound, Writer
  <2>2. PICK n \in Nat : DOMAIN q = 1..n
    BY <2>1, AscendingIs
  <2> HIDE DEF q
  <2>3. PICK h : Chain(ClosingThought, s, q, n, h) /\ c = h[n]
    BY <2>2, CloseReasoningChain
  <2>4. \A u, x : Plain(u) => Calm(u, Applied(ClosingThought, u, x))
    BY CloseReasoningIsCalm DEF Applied, ClosingThought
  <2> HIDE DEF c
  <2> QED BY <2>3, <2>4, CalmChain
<1> HIDE DEF c
<1>4. Calm(s, r)
  <2>1. Calm(c, ClosePhase(c))
    BY <1>3, ClosePhaseIsCalm DEF Calm
  <2> QED BY <1>1, <1>3, <2>1, CalmTransitively
<1>5. Calm(r, t)
  <2>1. PICK k \in Nat : r.textOpen \in SUBSET (0..k)
    BY <1>2 DEF Sound, Writer
  <2>2. PICK n \in Nat : DOMAIN p = 1..n
    BY <2>1, AscendingIs
  <2> HIDE DEF p
  <2>3. PICK h : Chain(ClosingText, r, p, n, h) /\ t = h[n]
    BY <2>2, CloseTextChain
  <2>4. \A u, x : Plain(u) => Calm(u, Applied(ClosingText, u, x))
    BY CloseTextIsCalm DEF Applied, ClosingText
  <2>5. Plain(r)
    BY <1>4 DEF Calm
  <2> HIDE DEF t
  <2> QED BY <2>3, <2>4, <2>5, CalmChain
<1> HIDE DEF t
<1>6. Calm(s, t)
  BY <1>4, <1>5, CalmTransitively
<1> QED BY <1>1, <1>6 DEF r

\* Whatever is not about the events or what is open
LEMMA AsideIsCalm ==
    ASSUME NEW s, Plain(s), NEW t, DOMAIN t = Fields, t.events = s.events,
           IsFiniteSet(t.interrupts),
           t.textOffset = s.textOffset, t.reasoningOffset = s.reasoningOffset,
           t.textOpen = s.textOpen, t.reasoningOpen = s.reasoningOpen
    PROVE  Calm(s, t)
<1>1. Calm(s, s)
  BY CalmItself
<1>2. Held(s) => Held(t)
  BY DEF Held, OpenIn, Shown
<1> QED BY <1>1, <1>2, CalmBesides

\* The events of tool calls, and those that are not about the message
LEMMA WritingIsCalm ==
    ASSUME NEW s, Plain(s), NEW call, NEW state
    PROVE  /\ Calm(s, ToolStart(s, call)) /\ Calm(s, ToolArgs(s, call))
           /\ Calm(s, ToolInputComplete(s, call)) /\ Calm(s, ToolResult(s, call, state))
           /\ Calm(s, Custom(s, call)) /\ Calm(s, Start(s)) /\ Calm(s, AddFinalSnapshot(s))
<1>1. ASSUME NEW type \in {"TOOL_CALL_START", "TOOL_CALL_ARGS", "TOOL_CALL_END", "TOOL_CALL_RESULT",
                           "CUSTOM", "RUN_STARTED", "MESSAGES_SNAPSHOT"}, NEW id, NEW value
      PROVE  Calm(s, Add(s, Ev(type, id, value)))
  <2> DEFINE e == Ev(type, id, value)
  <2>1. e.type = type
    BY DEF Ev
  <2> HIDE DEF e
  <2>2. e.type \notin SayingTypes /\ e.type # "RUN_FINISHED"
    BY <2>1 DEF SayingTypes
  <2>3. Calm(s, Add(s, e))
    BY <2>2, AddIsCalm
  <2> QED BY <2>3 DEF e
<1> QED BY <1>1 DEF ToolStart, ToolArgs, ToolInputComplete, ToolResult, Custom, Start, AddFinalSnapshot

\* The end of a call
LEMMA ToolEndIsCalm ==
    ASSUME NEW s, Plain(s), NEW call, NEW state
    PROVE  Calm(s, ToolEnd(s, call, state))
<1> DEFINE t == ToolInputComplete(s, call)
<1>1. Calm(s, t)
  BY WritingIsCalm
<1>2. ToolEnd(s, call, state) = ToolResult(t, call, state)
  BY DEF ToolEnd
<1> HIDE DEF t
<1>3. Calm(t, ToolResult(t, call, state))
  BY <1>1, WritingIsCalm DEF Calm
<1> QED BY <1>1, <1>2, <1>3, CalmTransitively

\* Another status, and another preview
LEMMA StatusIsCalm ==
    ASSUME NEW s, Plain(s), NEW status, NEW text
    PROVE  /\ Calm(s, [s EXCEPT !.status = status])
           /\ Calm(s, [s EXCEPT !.preview = text])
<1>1. DOMAIN s = Fields /\ IsFiniteSet(s.interrupts)
  BY DEF Plain
<1>2. Calm(s, [s EXCEPT !.status = status])
  <2> DEFINE t == [s EXCEPT !.status = status]
  <2>1. /\ DOMAIN t = Fields /\ t.events = s.events /\ t.interrupts = s.interrupts
        /\ t.textOffset = s.textOffset /\ t.reasoningOffset = s.reasoningOffset
        /\ t.textOpen = s.textOpen /\ t.reasoningOpen = s.reasoningOpen
    BY <1>1 DEF Fields
  <2> HIDE DEF t
  <2>2. Calm(s, t)
    BY <1>1, <2>1, AsideIsCalm
  <2> QED BY <2>2 DEF t
<1>3. Calm(s, [s EXCEPT !.preview = text])
  <2> DEFINE t == [s EXCEPT !.preview = text]
  <2>1. /\ DOMAIN t = Fields /\ t.events = s.events /\ t.interrupts = s.interrupts
        /\ t.textOffset = s.textOffset /\ t.reasoningOffset = s.reasoningOffset
        /\ t.textOpen = s.textOpen /\ t.reasoningOpen = s.reasoningOpen
    BY <1>1 DEF Fields
  <2> HIDE DEF t
  <2>2. Calm(s, t)
    BY <1>1, <2>1, AsideIsCalm
  <2> QED BY <2>2 DEF t
<1> QED BY <1>2, <1>3

\* A snapshot and the terminal event after it
LEMMA TerminalIsCalm ==
    ASSUME NEW s, Plain(s), NEW type \in {"RUN_FINISHED", "RUN_ERROR"}, NEW value,
           IsFiniteSet(value)
    PROVE  Calm(s, Add(AddFinalSnapshot(s), Ev(type, 0, value)))
<1> DEFINE t == AddFinalSnapshot(s)
           e == Ev(type, 0, value)
<1>1. Calm(s, t)
  BY WritingIsCalm
<1>2. e.type = type /\ e.value = value
  BY DEF Ev
<1> HIDE DEF t, e
<1>3. e.type \notin SayingTypes
  BY <1>2 DEF SayingTypes
<1>4. Calm(t, Add(t, e))
  BY <1>1, <1>2, <1>3, AddIsCalm DEF Calm
<1>5. Calm(s, Add(t, e))
  BY <1>1, <1>4, CalmTransitively
<1> QED BY <1>5 DEF t, e

\* An ending of any status
LEMMA EndingIsCalm ==
    ASSUME NEW s, Sound(s), Plain(s), NEW status, NEW type \in {"RUN_FINISHED", "RUN_ERROR"},
           NEW value, IsFiniteSet(value)
    PROVE  LET t == [FinishText(FinishReasoning(s)) EXCEPT !.status = status]
           IN  Calm(s, t) /\ Calm(s, Add(AddFinalSnapshot(t), Ev(type, 0, value)))
<1> DEFINE u == FinishText(FinishReasoning(s))
           t == [u EXCEPT !.status = status]
<1>1. Calm(s, u)
  BY FinishingIsCalm
<1> HIDE DEF u
<1>2. Calm(u, t)
  BY <1>1, StatusIsCalm DEF Calm
<1> HIDE DEF t
<1>3. Calm(s, t)
  BY <1>1, <1>2, CalmTransitively
<1>4. Calm(t, Add(AddFinalSnapshot(t), Ev(type, 0, value)))
  BY <1>3, TerminalIsCalm DEF Calm
<1>5. Calm(s, Add(AddFinalSnapshot(t), Ev(type, 0, value)))
  BY <1>3, <1>4, CalmTransitively
<1> QED BY <1>3, <1>5 DEF t, u

\* The endings of the writer
LEMMA EndingsAreCalm ==
    ASSUME NEW s, Sound(s), Plain(s)
    PROVE  /\ Calm(s, Finish(s)) /\ Calm(s, AwaitToolUse(s)) /\ Calm(s, InterruptWithUsage(s))
           /\ Calm(s, WriteError(s))
<1>0. IsFiniteSet({}) /\ IsFiniteSet(s.interrupts)
  BY FS_EmptySet DEF Plain
<1>1. Calm(s, Finish(s))
  BY <1>0, EndingIsCalm DEF Finish
<1>2. Calm(s, AwaitToolUse(s))
  BY <1>0, EndingIsCalm DEF AwaitToolUse
<1>3. Calm(s, InterruptWithUsage(s))
  BY <1>0, <1>1, EndingIsCalm DEF InterruptWithUsage
<1>4. Calm(s, WriteError(s))
  <2> DEFINE t == [FinishText(FinishReasoning(s)) EXCEPT !.status = "error"]
             text == IF Text(t.events) = <<>> THEN <<"error">> ELSE t.preview
             u == [t EXCEPT !.preview = text]
             v == Add(AddFinalSnapshot(u), Ev("RUN_ERROR", 0, 0))
  <2>1. WriteError(s) = v
    BY DEF WriteError
  <2>2. Calm(s, t)
    BY <1>0, EndingIsCalm
  <2> HIDE DEF t, text
  <2>3. Calm(t, u)
    BY <2>2, StatusIsCalm DEF Calm
  <2> HIDE DEF u
  <2>4. Calm(s, u)
    BY <2>2, <2>3, CalmTransitively
  <2> DEFINE w == AddFinalSnapshot(u)
             e == Ev("RUN_ERROR", 0, 0)
  <2>5. Calm(u, w)
    BY <2>4, WritingIsCalm DEF Calm
  <2>6. e.type = "RUN_ERROR"
    BY DEF Ev
  <2> HIDE DEF e, w
  <2>7. Calm(w, Add(w, e))
    BY <2>5, <2>6, AddIsCalm DEF Calm, SayingTypes
  <2>8. Calm(s, Add(w, e))
    BY <2>4, <2>5, <2>7, CalmTransitively
  <2> QED BY <2>1, <2>8 DEF w, e
<1> QED BY <1>1, <1>2, <1>3, <1>4

\* A request for an approval
LEMMA RequestedIsCalm ==
    ASSUME NEW s, Plain(s), NEW call
    PROVE  Calm(s, ToolApprovalRequested(s, call))
<1> DEFINE t == ToolApprovalRequested(s, call)
<1>1. DOMAIN s = Fields /\ IsFiniteSet(s.interrupts)
  BY DEF Plain
<1>2. /\ DOMAIN t = Fields /\ t.events = s.events /\ t.interrupts = s.interrupts \cup {call}
      /\ t.textOffset = s.textOffset /\ t.reasoningOffset = s.reasoningOffset
      /\ t.textOpen = s.textOpen /\ t.reasoningOpen = s.reasoningOpen
  BY <1>1 DEF ToolApprovalRequested, Fields
<1> HIDE DEF t
<1>3. IsFiniteSet(t.interrupts)
  BY <1>1, <1>2, FS_AddElement
<1>4. Calm(s, t)
  BY <1>2, <1>3, AsideIsCalm
<1> QED BY <1>4 DEF t

\* An answer
LEMMA RespondedIsCalm ==
    ASSUME NEW s, Plain(s), NEW call, NEW state
    PROVE  Calm(s, ToolApprovalResponded(s, call, state))
<1> DEFINE a == Answered(s, call, state)
           x == IF state = "approved" THEN "approval" ELSE "denial"
           t == ToolResult(a, call, x)
<1>1. ToolApprovalResponded(s, call, state) = t
  BY DEF ToolApprovalResponded, Answered
<1>2. DOMAIN s = Fields /\ IsFiniteSet(s.interrupts)
  BY DEF Plain
<1>3. /\ DOMAIN a = Fields /\ a.events = s.events /\ a.interrupts = s.interrupts \ {call}
      /\ a.textOffset = s.textOffset /\ a.reasoningOffset = s.reasoningOffset
      /\ a.textOpen = s.textOpen /\ a.reasoningOpen = s.reasoningOpen
  BY <1>2 DEF Answered, Fields
<1> HIDE DEF a, x
<1>4. IsFiniteSet(a.interrupts)
  BY <1>2, <1>3, FS_Subset
<1>5. Calm(s, a)
  BY <1>3, <1>4, AsideIsCalm
<1>6. Calm(a, t)
  BY <1>5, WritingIsCalm DEF Calm
<1> HIDE DEF t
<1> QED BY <1>1, <1>5, <1>6, CalmTransitively

\* Another writer on a run nothing of which is in progress
LEMMA NewWriterShows ==
    ASSUME NEW s, Plain(s)
    PROVE  LET t == NewWriter(s)
           IN  /\ Plain(t) /\ Shown(t) = Shown(s)
               /\ (\A o \in Slots : InProgress(Shown(s), o) = {}) => Held(t)
<1> DEFINE t == NewWriter(s)
<1>1. DOMAIN s = Fields
  BY DEF Plain
<1>2. DOMAIN t = Fields /\ t.events = s.events /\ t.interrupts = s.interrupts
  BY <1>1 DEF NewWriter, Fields
<1> HIDE DEF t
<1>3. Shown(t) = Shown(s)
  BY <1>2 DEF Shown
<1>4. Plain(t)
  BY <1>2, <1>3 DEF Plain
<1>5. (\A o \in Slots : InProgress(Shown(s), o) = {}) => Held(t)
  BY <1>3 DEF Held
<1> QED BY <1>3, <1>4, <1>5 DEF t

\* The outputs of tools, however many
LEMMA OutputsAreCalm ==
    ASSUME NEW s, Plain(s), NEW states, NEW q, NEW n \in Nat, DOMAIN q = 1..n
    PROVE  Calm(s, PutAll(s, states, q))
<1>1. PICK h : Chain(Output(states), s, q, n, h) /\ PutAll(s, states, q) = h[n]
  BY OutputChain
<1>2. \A t, x : Plain(t) => Calm(t, Applied(Output(states), t, x))
  BY ToolEndIsCalm DEF Applied, Output
<1>3. Calm(s, h[n])
  BY <1>1, <1>2, CalmChain
<1> QED BY <1>1, <1>3

\* t says what s says and then the tokens, in the slot o, whose part is of message id
Voices(s, t, o, id, tokens) ==
  /\ Plain(t) /\ (Held(s) => Held(t))
  /\ \A u \in Slots : Offset(t, u) = Offset(s, u)
  /\ InProgress(Shown(t), o) \subseteq {id}
  /\ SaidBy(KindOf(o), Shown(t).parts) = SaidBy(KindOf(o), Shown(s).parts) \o tokens
  /\ \A u \in Slots \ {o} :
       /\ SaidBy(KindOf(u), Shown(t).parts) = SaidBy(KindOf(u), Shown(s).parts)
       /\ InProgress(Shown(t), u) \subseteq InProgress(Shown(s), u)

\* What a run says is a text
LEMMA ShownIsText ==
    ASSUME NEW s, Plain(s), NEW kind
    PROVE  SaidBy(kind, Shown(s).parts) \in Seq(Nat)
BY SaidByIs, GoodIsTokens DEF Plain

\* Saying nothing
LEMMA CalmVoices ==
    ASSUME NEW s, Plain(s), NEW t, Calm(s, t), NEW o \in Slots, NEW id,
           InProgress(Shown(s), o) \subseteq {id}
    PROVE  Voices(s, t, o, id, <<>>)
<1> DEFINE text == SaidBy(KindOf(o), Shown(s).parts)
<1>1. text \in Seq(Nat)
  BY ShownIsText
<1>2. SaidBy(KindOf(o), Shown(t).parts) = text
  BY DEF Calm, Quiet
<1> HIDE DEF text
<1>3. SaidBy(KindOf(o), Shown(t).parts) = text \o <<>>
  BY <1>1, <1>2, ConcatEmptySeq
<1>4. InProgress(Shown(t), o) \subseteq {id}
  BY DEF Calm, Quiet
<1>5. \A u \in Slots \ {o} :
       /\ SaidBy(KindOf(u), Shown(t).parts) = SaidBy(KindOf(u), Shown(s).parts)
       /\ InProgress(Shown(t), u) \subseteq InProgress(Shown(s), u)
  BY DEF Calm, Quiet
<1>6. /\ Plain(t) /\ (Held(s) => Held(t))
      /\ \A u \in Slots : Offset(t, u) = Offset(s, u)
  BY DEF Calm
<1> QED BY <1>3, <1>4, <1>5, <1>6 DEF Voices, text

\* ... before something is said
LEMMA VoicesAfterCalm ==
    ASSUME NEW s, NEW t, NEW w, Calm(s, t), NEW o \in Slots, NEW id, NEW tokens,
           Voices(t, w, o, id, tokens)
    PROVE  Voices(s, w, o, id, tokens)
<1>1. SaidBy(KindOf(o), Shown(t).parts) = SaidBy(KindOf(o), Shown(s).parts)
  BY DEF Calm, Quiet
<1>2. SaidBy(KindOf(o), Shown(w).parts) = SaidBy(KindOf(o), Shown(s).parts) \o tokens
  BY <1>1 DEF Voices
<1>3. ASSUME NEW u \in Slots \ {o}
      PROVE  /\ SaidBy(KindOf(u), Shown(w).parts) = SaidBy(KindOf(u), Shown(s).parts)
             /\ InProgress(Shown(w), u) \subseteq InProgress(Shown(s), u)
  <2>1. /\ SaidBy(KindOf(u), Shown(w).parts) = SaidBy(KindOf(u), Shown(t).parts)
        /\ InProgress(Shown(w), u) \subseteq InProgress(Shown(t), u)
        /\ SaidBy(KindOf(u), Shown(t).parts) = SaidBy(KindOf(u), Shown(s).parts)
        /\ InProgress(Shown(t), u) \subseteq InProgress(Shown(s), u)
    BY DEF Voices, Calm, Quiet
  <2> QED BY <2>1
<1>4. /\ Plain(w) /\ (Held(s) => Held(w))
      /\ \A u \in Slots : Offset(w, u) = Offset(s, u)
      /\ InProgress(Shown(w), o) \subseteq {id}
  BY DEF Calm, Voices
<1> QED BY <1>2, <1>3, <1>4, Zenon DEF Voices

\* ... after it
LEMMA CalmAfterVoices ==
    ASSUME NEW s, NEW t, NEW w, NEW o \in Slots, NEW id, NEW tokens,
           Voices(s, t, o, id, tokens), Calm(t, w)
    PROVE  Voices(s, w, o, id, tokens)
<1>1. /\ SaidBy(KindOf(o), Shown(w).parts) = SaidBy(KindOf(o), Shown(t).parts)
      /\ InProgress(Shown(w), o) \subseteq InProgress(Shown(t), o)
  BY DEF Calm, Quiet
<1>2. SaidBy(KindOf(o), Shown(w).parts) = SaidBy(KindOf(o), Shown(s).parts) \o tokens
  BY <1>1 DEF Voices
<1>3. ASSUME NEW u \in Slots \ {o}
      PROVE  /\ SaidBy(KindOf(u), Shown(w).parts) = SaidBy(KindOf(u), Shown(s).parts)
             /\ InProgress(Shown(w), u) \subseteq InProgress(Shown(s), u)
  <2>1. /\ SaidBy(KindOf(u), Shown(w).parts) = SaidBy(KindOf(u), Shown(t).parts)
        /\ InProgress(Shown(w), u) \subseteq InProgress(Shown(t), u)
        /\ SaidBy(KindOf(u), Shown(t).parts) = SaidBy(KindOf(u), Shown(s).parts)
        /\ InProgress(Shown(t), u) \subseteq InProgress(Shown(s), u)
    BY DEF Voices, Calm, Quiet
  <2> QED BY <2>1
<1>4. /\ Plain(w) /\ (Held(s) => Held(w))
      /\ \A u \in Slots : Offset(w, u) = Offset(s, u)
      /\ InProgress(Shown(w), o) \subseteq {id}
  BY <1>1 DEF Calm, Voices
<1> QED BY <1>2, <1>3, <1>4, Zenon DEF Voices

\* ... by what is about to say something
LEMMA VoicesTwice ==
    ASSUME NEW s, Plain(s), NEW t, NEW w, NEW o \in Slots, NEW id, NEW tokens,
           Voices(s, t, o, id, <<>>), Voices(t, w, o, id, tokens)
    PROVE  Voices(s, w, o, id, tokens)
<1> DEFINE text == SaidBy(KindOf(o), Shown(s).parts)
<1>1. text \in Seq(Nat) /\ SaidBy(KindOf(o), Shown(t).parts) = text \o <<>>
  BY ShownIsText DEF Voices
<1>2. SaidBy(KindOf(o), Shown(w).parts) = SaidBy(KindOf(o), Shown(t).parts) \o tokens
  BY DEF Voices
<1>3. text \o <<>> = text
  <2> HIDE DEF text
  <2> QED BY <1>1, ConcatEmptySeq
<1>4. SaidBy(KindOf(o), Shown(w).parts) = text \o tokens
  BY <1>1, <1>2, <1>3
<1>5. ASSUME NEW u \in Slots \ {o}
      PROVE  /\ SaidBy(KindOf(u), Shown(w).parts) = SaidBy(KindOf(u), Shown(s).parts)
             /\ InProgress(Shown(w), u) \subseteq InProgress(Shown(s), u)
  <2>1. /\ SaidBy(KindOf(u), Shown(w).parts) = SaidBy(KindOf(u), Shown(t).parts)
        /\ InProgress(Shown(w), u) \subseteq InProgress(Shown(t), u)
        /\ SaidBy(KindOf(u), Shown(t).parts) = SaidBy(KindOf(u), Shown(s).parts)
        /\ InProgress(Shown(t), u) \subseteq InProgress(Shown(s), u)
    BY DEF Voices
  <2> QED BY <2>1
<1>6. /\ Plain(w) /\ (Held(s) => Held(w))
      /\ \A u \in Slots : Offset(w, u) = Offset(s, u)
      /\ InProgress(Shown(w), o) \subseteq {id}
  BY DEF Voices
<1> QED BY <1>4, <1>5, <1>6, Zenon DEF Voices, text

\* Events that say it, in a message the writer has open afterwards
LEMMA EventVoices ==
    ASSUME NEW s, Plain(s), NEW t, DOMAIN t = Fields, IsSeq(t.events), IsFiniteSet(t.interrupts),
           t.textOffset = s.textOffset, t.reasoningOffset = s.reasoningOffset,
           NEW o \in Slots, NEW id, NEW tokens, Says(Shown(s), Shown(t), o, id, tokens),
           id \in OpenIn(t, o), \A u \in Slots \ {o} : OpenIn(s, u) \subseteq OpenIn(t, u)
    PROVE  Voices(s, t, o, id, tokens)
<1>1. /\ Good(Shown(t)) /\ InProgress(Shown(t), o) = {id}
      /\ SaidBy(KindOf(o), Shown(t).parts) = SaidBy(KindOf(o), Shown(s).parts) \o tokens
      /\ \A u \in Slots \ {o} :
           /\ SaidBy(KindOf(u), Shown(t).parts) = SaidBy(KindOf(u), Shown(s).parts)
           /\ InProgress(Shown(t), u) \subseteq InProgress(Shown(s), u)
  BY DEF Says
<1>2. Plain(t)
  BY <1>1 DEF Plain
<1>3. ASSUME Held(s), NEW u \in Slots PROVE InProgress(Shown(t), u) \subseteq OpenIn(t, u)
  <2>1. CASE u = o
    BY <1>1, <2>1
  <2>2. CASE u # o
    <3>1. /\ InProgress(Shown(t), u) \subseteq InProgress(Shown(s), u)
          /\ InProgress(Shown(s), u) \subseteq OpenIn(s, u) /\ OpenIn(s, u) \subseteq OpenIn(t, u)
      BY <1>1, <1>3, <2>2 DEF Held
    <3> QED BY <3>1
  <2> QED BY <2>1, <2>2
<1>4. \A u \in Slots : Offset(t, u) = Offset(s, u)
  BY DEF Offset
<1>5. Held(s) => Held(t)
  BY <1>3 DEF Held
<1> QED BY <1>1, <1>2, <1>4, <1>5 DEF Voices

\* A delta of text opens its message and is its text
LEMMA TextDeltaVoices ==
    ASSUME NEW s, Plain(s), NEW index, NEW token \in Nat,
           InProgress(Shown(s), "text") \subseteq {s.textOffset + index}
    PROVE  Voices(s, TextDelta(s, index, token), "text", s.textOffset + index, <<token>>)
<1> DEFINE id == s.textOffset + index
           e == Ev("TEXT_MESSAGE_CONTENT", id, token)
           a == OpenText(s, id)
           b == [a EXCEPT !.current = id]
           c == Add(b, e)
           t == [c EXCEPT !.written = TRUE]
<1>0. "text" \in Slots
  BY DEF Slots
<1>1. TextDelta(s, index, token) = t
  BY DEF TextDelta, TextStart
<1>2. e.type = "TEXT_MESSAGE_CONTENT" /\ e.id = id /\ e.value = token
  BY DEF Ev
<1>3. InProgress(Shown(s), "text") \subseteq {id}
  OBVIOUS
<1> HIDE DEF id, e
<1>4. Calm(s, a) /\ id \in a.textOpen
  BY OpenTextIsCalm
<1> HIDE DEF a
<1>5. DOMAIN a = Fields /\ IsFiniteSet(a.interrupts)
  BY <1>4 DEF Calm, Plain
<1>6. /\ DOMAIN b = Fields /\ b.events = a.events /\ b.interrupts = a.interrupts
      /\ b.textOffset = a.textOffset /\ b.reasoningOffset = a.reasoningOffset
      /\ b.textOpen = a.textOpen /\ b.reasoningOpen = a.reasoningOpen
  BY <1>5 DEF Fields
<1> HIDE DEF b
<1>7. Calm(a, b)
  BY <1>4, <1>5, <1>6, AsideIsCalm DEF Calm
<1>8. Calm(s, b)
  BY <1>4, <1>7, CalmTransitively
<1>9. Plain(b) /\ InProgress(Shown(b), "text") \subseteq {id} /\ id \in OpenIn(b, "text")
  BY <1>0, <1>3, <1>4, <1>6, <1>8 DEF Calm, Quiet, OpenIn
<1>10. Voices(b, c, "text", id, <<token>>)
  <2>1. /\ DOMAIN c = Fields /\ c.events = Append(b.events, e)
        /\ c.interrupts = b.interrupts /\ c.textOffset = b.textOffset
        /\ c.reasoningOffset = b.reasoningOffset
        /\ c.textOpen = b.textOpen /\ c.reasoningOpen = b.reasoningOpen
    BY <1>9, AddLeaves DEF Plain
  <2> HIDE DEF c
  <2>2. Shown(c) = PartOf(Shown(b), e) /\ IsSeq(c.events) /\ IsFiniteSet(c.interrupts)
    BY <1>9, <2>1, ProjectionOfAppend, AppendIs DEF Shown, Plain
  <2>3. Says(Shown(b), Shown(c), "text", id, <<token>>)
    BY <1>2, <1>9, <2>2, SayingEvents DEF Plain
  <2>4. id \in OpenIn(c, "text") /\ \A u \in Slots \ {"text"} : OpenIn(b, u) \subseteq OpenIn(c, u)
    BY <1>9, <2>1 DEF OpenIn
  <2> QED BY <1>0, <1>9, <2>1, <2>2, <2>3, <2>4, EventVoices
<1> HIDE DEF c
<1>11. Calm(c, t)
  <2>1. DOMAIN c = Fields /\ IsFiniteSet(c.interrupts) /\ Plain(c)
    BY <1>10 DEF Voices, Plain
  <2>2. /\ DOMAIN t = Fields /\ t.events = c.events /\ t.interrupts = c.interrupts
        /\ t.textOffset = c.textOffset /\ t.reasoningOffset = c.reasoningOffset
        /\ t.textOpen = c.textOpen /\ t.reasoningOpen = c.reasoningOpen
    BY <2>1 DEF Fields
  <2> HIDE DEF t
  <2> QED BY <2>1, <2>2, AsideIsCalm
<1> HIDE DEF t
<1>12. Voices(s, t, "text", id, <<token>>)
  BY <1>0, <1>8, <1>10, <1>11, VoicesAfterCalm, CalmAfterVoices
<1> QED BY <1>1, <1>12 DEF id

\* Opening a reasoning message begins its part
LEMMA OpenReasoningVoices ==
    ASSUME NEW s, Plain(s), NEW id, InProgress(Shown(s), "think") \subseteq {id}
    PROVE  LET t == OpenReasoning(s, id)
           IN  Voices(s, t, "think", id, <<>>) /\ id \in t.reasoningOpen
<1>0. "think" \in Slots /\ "think" # "text"
  BY DEF Slots
<1>1. CASE id \in s.reasoningOpen
  BY <1>0, <1>1, CalmItself, CalmVoices DEF OpenReasoning
<1>2. CASE id \notin s.reasoningOpen
  <2> DEFINE e == Ev("REASONING_MESSAGE_START", id, 0)
             u == Add(s, e)
             t == OpenReasoning(s, id)
  <2>1. t = [u EXCEPT !.reasoningOpen = @ \cup {id}]
    BY <1>2 DEF OpenReasoning
  <2>2. e.type = "REASONING_MESSAGE_START" /\ e.id = id
    BY DEF Ev
  <2> HIDE DEF e
  <2>3. /\ DOMAIN u = Fields /\ u.events = Append(s.events, e)
        /\ u.interrupts = s.interrupts /\ u.textOffset = s.textOffset
        /\ u.reasoningOffset = s.reasoningOffset
        /\ u.textOpen = s.textOpen /\ u.reasoningOpen = s.reasoningOpen
    BY AddLeaves DEF Plain
  <2> HIDE DEF u, t
  <2>4. /\ DOMAIN t = Fields /\ t.events = Append(s.events, e) /\ t.interrupts = s.interrupts
        /\ t.textOffset = s.textOffset /\ t.reasoningOffset = s.reasoningOffset
        /\ t.textOpen = s.textOpen /\ t.reasoningOpen = s.reasoningOpen \cup {id}
    BY <2>1, <2>3 DEF Fields
  <2>5. Shown(t) = PartOf(Shown(s), e) /\ IsSeq(t.events) /\ IsFiniteSet(t.interrupts)
    BY <2>4, ProjectionOfAppend, AppendIs DEF Shown, Plain
  <2>6. Says(Shown(s), Shown(t), "think", id, <<>>)
    BY <2>2, <2>5, SayingEvents DEF Plain
  <2>7. id \in OpenIn(t, "think") /\ \A v \in Slots \ {"think"} : OpenIn(s, v) \subseteq OpenIn(t, v)
    BY <1>0, <2>4 DEF OpenIn, Slots
  <2>8. Voices(s, t, "think", id, <<>>)
    BY <1>0, <2>4, <2>5, <2>6, <2>7, EventVoices
  <2> QED BY <2>4, <2>8 DEF t
<1> QED BY <1>1, <1>2

\* The start of a block of reasoning says nothing yet
LEMMA ReasoningStartVoices ==
    ASSUME NEW s, Plain(s), NEW index,
           InProgress(Shown(s), "think") \subseteq {s.reasoningOffset + index}
    PROVE  LET t == ReasoningMessageStart(s, index)
               id == s.reasoningOffset + index
           IN  Voices(s, t, "think", id, <<>>) /\ id \in t.reasoningOpen
<1> DEFINE id == s.reasoningOffset + index
           a == OpenText(s, s.current)
           b == OpenPhase(a)
           t == OpenReasoning(b, id)
<1>0. "think" \in Slots
  BY DEF Slots
<1>1. ReasoningMessageStart(s, index) = t
  BY DEF ReasoningMessageStart, OpenReasoning
<1>2. InProgress(Shown(s), "think") \subseteq {id}
  OBVIOUS
<1> HIDE DEF id
<1>3. Calm(s, a)
  BY OpenTextIsCalm
<1> HIDE DEF a
<1>4. Calm(a, b)
  BY <1>3, OpenPhaseIsCalm DEF Calm
<1> HIDE DEF b
<1>5. Calm(s, b)
  BY <1>3, <1>4, CalmTransitively
<1>6. Plain(b) /\ InProgress(Shown(b), "think") \subseteq {id}
  BY <1>0, <1>2, <1>5 DEF Calm, Quiet
<1>7. Voices(b, t, "think", id, <<>>) /\ id \in t.reasoningOpen
  BY <1>6, OpenReasoningVoices
<1> HIDE DEF t
<1>8. Voices(s, t, "think", id, <<>>)
  BY <1>0, <1>5, <1>7, VoicesAfterCalm
<1> QED BY <1>1, <1>7, <1>8 DEF id

\* A delta of reasoning
LEMMA ReasoningDeltaVoices ==
    ASSUME NEW s, Plain(s), NEW index, NEW token \in Nat,
           InProgress(Shown(s), "think") \subseteq {s.reasoningOffset + index}
    PROVE  Voices(s, ReasoningDelta(s, index, token), "think", s.reasoningOffset + index, <<token>>)
<1> DEFINE id == s.reasoningOffset + index
           e == Ev("REASONING_MESSAGE_CONTENT", id, token)
           b == ReasoningMessageStart(s, index)
           c == Add(b, e)
           new == [i \in DOMAIN c.content \cup {index} |->
                     IF i = index THEN Append(ReasoningContent(s, index), token) ELSE c.content[i]]
           t == [c EXCEPT !.content = new]
<1>0. "think" \in Slots /\ "think" # "text"
  BY DEF Slots
<1>1. ReasoningDelta(s, index, token) = t
  BY DEF ReasoningDelta
<1>2. e.type = "REASONING_MESSAGE_CONTENT" /\ e.id = id /\ e.value = token
  BY DEF Ev
<1> HIDE DEF e
<1>3. Voices(s, b, "think", id, <<>>) /\ id \in b.reasoningOpen
  BY ReasoningStartVoices
<1> HIDE DEF id, b
<1>4. Plain(b) /\ InProgress(Shown(b), "think") \subseteq {id} /\ id \in OpenIn(b, "think")
  BY <1>0, <1>3 DEF Voices, OpenIn
<1>5. Voices(b, c, "think", id, <<token>>)
  <2>1. /\ DOMAIN c = Fields /\ c.events = Append(b.events, e)
        /\ c.interrupts = b.interrupts /\ c.textOffset = b.textOffset
        /\ c.reasoningOffset = b.reasoningOffset
        /\ c.textOpen = b.textOpen /\ c.reasoningOpen = b.reasoningOpen
    BY <1>4, AddLeaves DEF Plain
  <2> HIDE DEF c
  <2>2. Shown(c) = PartOf(Shown(b), e) /\ IsSeq(c.events) /\ IsFiniteSet(c.interrupts)
    BY <1>4, <2>1, ProjectionOfAppend, AppendIs DEF Shown, Plain
  <2>3. Says(Shown(b), Shown(c), "think", id, <<token>>)
    BY <1>2, <1>4, <2>2, SayingEvents DEF Plain
  <2>4. id \in OpenIn(c, "think") /\ \A u \in Slots \ {"think"} : OpenIn(b, u) \subseteq OpenIn(c, u)
    BY <1>4, <2>1 DEF OpenIn
  <2> QED BY <1>0, <1>4, <2>1, <2>2, <2>3, <2>4, EventVoices
<1> HIDE DEF c
<1>6. Calm(c, t)
  <2>1. DOMAIN c = Fields /\ IsFiniteSet(c.interrupts) /\ Plain(c)
    BY <1>5 DEF Voices, Plain
  <2> HIDE DEF new
  <2>2. /\ DOMAIN t = Fields /\ t.events = c.events /\ t.interrupts = c.interrupts
        /\ t.textOffset = c.textOffset /\ t.reasoningOffset = c.reasoningOffset
        /\ t.textOpen = c.textOpen /\ t.reasoningOpen = c.reasoningOpen
    BY <2>1 DEF Fields
  <2> HIDE DEF t
  <2> QED BY <2>1, <2>2, AsideIsCalm
<1> HIDE DEF t
<1>7. Voices(s, t, "think", id, <<token>>)
  BY <1>0, <1>3, <1>5, <1>6, VoicesTwice, CalmAfterVoices
<1> QED BY <1>1, <1>7 DEF id

\* What the provider repeats at the end of a block is nothing new, or one delta
LEMMA SnapshotIs ==
    ASSUME NEW s, NEW index, IsSeq(ReasoningContent(s, index)), NEW token
    PROVE  LET had == ReasoningContent(s, index)
           IN  /\ ReasoningContentSnapshot(s, index, had \o <<>>) = s
               /\ ReasoningContentSnapshot(s, index, had \o <<token>>) = ReasoningDelta(s, index, token)
<1> DEFINE had == ReasoningContent(s, index)
           T == {had[i] : i \in DOMAIN had} \cup {token}
           content == had \o <<token>>
           q == SubSeq(content, Len(had) + 1, Len(content))
<1>1. had \in Seq(T) /\ token \in T
  BY SeqMonotonic DEF IsSeq
<1>0. IsSeq(had)
  OBVIOUS
<1>2. \A c : ReasoningContentSnapshot(s, index, c) =
               IF c # <<>> /\ c # had /\ IsPrefix(had, c)
               THEN SayAll(s, index, SubSeq(c, Len(had) + 1, Len(c))) ELSE s
  BY DEF ReasoningContentSnapshot, SayAll
<1> HIDE DEF had, T
<1>3. had \o <<>> = had
  BY <1>1, ConcatEmptySeq
<1>4. Len(had) \in Nat /\ DOMAIN had = 1..Len(had) /\ \A i \in 1..Len(had) : had[i] \in T
  BY <1>1, LenProperties
<1>5. <<token>> \in Seq(T) /\ Len(<<token>>) = 1 /\ <<token>>[1] = token
  BY <1>1
<1>6. /\ content \in Seq(T) /\ Len(content) = Len(had) + 1
      /\ \A i \in 1..(Len(had) + 1) : content[i] = IF i <= Len(had) THEN had[i] ELSE token
  <2> DEFINE one == <<token>>
  <2>1. one \in Seq(T) /\ Len(one) = 1 /\ one[1] = token
    BY <1>5
  <2> HIDE DEF one
  <2>2. /\ had \o one \in Seq(T) /\ Len(had \o one) = Len(had) + Len(one)
        /\ \A i \in 1..(Len(had) + Len(one)) :
              (had \o one)[i] = IF i <= Len(had) THEN had[i] ELSE one[i - Len(had)]
    BY <1>1, <2>1, ConcatProperties
  <2>3. \A i \in 1..(Len(had) + 1) : ~(i <= Len(had)) => i - Len(had) = 1
    BY <1>4
  <2>4. \A i \in 1..(Len(had) + 1) : (had \o one)[i] = IF i <= Len(had) THEN had[i] ELSE token
    BY <2>1, <2>2, <2>3
  <2> QED BY <2>1, <2>2, <2>4 DEF one
<1> HIDE DEF content
<1>7. content # <<>> /\ content # had
  BY <1>4, <1>6
<1>8. IsPrefix(had, content)
  <2> DEFINE n == Len(had)
             a == SubSeq(had, 1, n)
             b == SubSeq(content, 1, n)
  <2>0. n \in Nat /\ 1 \in Int /\ n \in Int
    BY <1>4
  <2>1. (\A i \in 1..n : had[i] \in T) /\ (\A i \in 1..n : content[i] = had[i])
    BY <1>4, <1>6
  <2> HIDE DEF n
  <2>2. a \in Seq(T) /\ Len(a) = (IF 1 <= n THEN n - 1 + 1 ELSE 0)
        /\ \A i \in 1..(n - 1 + 1) : a[i] = had[1 + i - 1]
    BY <2>0, <2>1, SubSeqProperties
  <2>3. \A i \in 1..n : content[i] \in T
    BY <2>1
  <2>4. b \in Seq(T) /\ Len(b) = (IF 1 <= n THEN n - 1 + 1 ELSE 0)
        /\ \A i \in 1..(n - 1 + 1) : b[i] = content[1 + i - 1]
    BY <2>0, <2>3, SubSeqProperties
  <2> HIDE DEF a, b
  <2>5. Len(a) = n /\ Len(b) = n /\ \A i \in 1..n : a[i] = b[i]
    BY <2>0, <2>1, <2>2, <2>4
  <2>6. a = b
    BY <2>0, <2>2, <2>4, <2>5, SeqEqual
  <2>7. n <= Len(content)
    BY <1>4, <1>6 DEF n
  <2> QED BY <2>6, <2>7 DEF IsPrefix, a, b, n
<1>9. DOMAIN q = 1..1 /\ q[1] = token
  <2> DEFINE m == Len(had) + 1
             l == Len(content)
  <2>1. m \in Int /\ l \in Int /\ m = l /\ content[m] = token /\ token \in T
    BY <1>1, <1>4, <1>6
  <2> HIDE DEF m, l
  <2>2. \A i \in m..l : content[i] \in T
    BY <2>1
  <2>3. SubSeq(content, m, l) \in Seq(T) /\ Len(SubSeq(content, m, l)) = (IF m <= l THEN l - m + 1 ELSE 0)
        /\ \A i \in 1..(l - m + 1) : SubSeq(content, m, l)[i] = content[m + i - 1]
    BY <2>1, <2>2, SubSeqProperties
  <2> DEFINE w == SubSeq(content, m, l)
  <2> HIDE DEF w
  <2>4. w \in Seq(T) /\ Len(w) = 1 /\ w[1] = token
    <3>1. l - m + 1 = 1 /\ m <= l /\ 1 \in 1..1 /\ m + 1 - 1 = m
      BY <2>1
    <3>2. w \in Seq(T) /\ Len(w) = (IF m <= l THEN l - m + 1 ELSE 0)
          /\ \A i \in 1..(l - m + 1) : w[i] = content[m + i - 1]
      BY <2>3 DEF w
    <3>3. w[1] = content[m + 1 - 1]
      BY <3>1, <3>2
    <3> QED BY <2>1, <3>1, <3>2, <3>3
  <2>5. DOMAIN w = 1..1
    BY <2>4, LenProperties
  <2> QED BY <2>4, <2>5 DEF w, m, l
<1>10. SayAll(s, index, q) = ReasoningDelta(s, index, token)
  <2> HIDE DEF q
  <2> DEFINE u == SayAll(s, index, q)
  <2> HIDE DEF u
  <2>0. \E h : Chain(Saying(index), s, q, 1, h) /\ u = h[1]
    <3>1. 1 \in Nat /\ DOMAIN q = 1..1
      BY <1>9
    <3> QED BY <3>1, DeltaChain DEF u
  <2>1. PICK h : Chain(Saying(index), s, q, 1, h) /\ SayAll(s, index, q) = h[1]
    BY <2>0 DEF u
  <2>2. h[1] = Applied(Saying(index), h[0], q[1]) /\ h[0] = s
    <3>1. 1 \in 1..1 /\ 1 - 1 = 0
      OBVIOUS
    <3> QED BY <2>1, <3>1 DEF Chain
  <2>3. h[1] = ReasoningDelta(s, index, token)
    BY <1>9, <2>2 DEF Applied, Saying
  <2> QED BY <2>1, <2>3
<1>11. ReasoningContentSnapshot(s, index, had \o <<>>) = s
  BY <1>2, <1>3
<1>12. ReasoningContentSnapshot(s, index, content) = ReasoningDelta(s, index, token)
  BY <1>2, <1>7, <1>8, <1>10
<1> QED BY <1>11, <1>12 DEF had, content

-----------------------------------------------------------------------------
(* The parts of the final edit. *)

\* A part nothing more is to come of
Over(p) == IF p.kind = "tool" THEN p.output # "none" ELSE p.state = "done"

\* Leaving out thinking parts that say nothing leaves what is said
LEMMA FilterSays ==
    ASSUME NEW q, Tokens(q), \A i \in DOMAIN q : Over(q[i])
    PROVE  LET r == FilterFinalMessageParts(q)
           IN  /\ \A i \in DOMAIN r : Over(r[i])
               /\ SaidBy("text", r) = SaidBy("text", q)
               /\ SaidBy("thinking", r) = SaidBy("thinking", q)
<1> DEFINE n == Len(q)
<1>1. IsSeq(q) /\ n \in Nat /\ DOMAIN q = 1..n
  BY SeqIs DEF Tokens
<1>2. PICK h : Chain(Filtering, <<>>, q, n, h) /\ FilterFinalMessageParts(q) = h[n]
  BY <1>1, FilterChain
<1>3. PICK a : Tells("text", q, a) /\ SaidBy("text", q) = a[n]
  BY <1>1, TellLinks
<1>4. PICK b : Tells("thinking", q, b) /\ SaidBy("thinking", q) = b[n]
  BY <1>1, TellLinks
<1>5. \A m \in 0..n : b[m] \in Seq(Nat)
  BY <1>4, LinksAreTexts
<1>6. /\ h[0] = <<>> /\ a[0] = <<>> /\ b[0] = <<>>
      /\ \A m \in 1..n : a[m] = Tell("text", a[m - 1], q[m]) /\ b[m] = Tell("thinking", b[m - 1], q[m])
  BY <1>2, <1>3, <1>4 DEF Chain, Tells
<1>7. \A m \in 1..n : h[m] = IF q[m].kind = "thinking" /\ q[m].content = <<>> THEN h[m - 1]
                             ELSE Append(h[m - 1], q[m])
  BY <1>2 DEF Chain, Applied, Filtering
<1> HIDE DEF n
<1> DEFINE P(m) == /\ IsSeq(h[m]) /\ \A i \in DOMAIN h[m] : Over(h[m][i])
                   /\ SaidBy("text", h[m]) = a[m] /\ SaidBy("thinking", h[m]) = b[m]
           B == {m \in 0..n : ~P(m)}
<1>8. B = {}
  <2>1. SUFFICES ASSUME B # {} PROVE FALSE
    OBVIOUS
  <2>2. PICK m \in B : \A j \in B : ~(j < m)
    <3>1. B \subseteq Nat
      BY <1>1
    <3> HIDE DEF B
    <3> QED BY <2>1, <3>1, LeastNumber
  <2>3. P(0)
    <3>1. IsSeq(<<>>) /\ DOMAIN <<>> = {}
      BY DEF IsSeq
    <3> QED BY <1>6, <3>1, SaidByNone
  <2>4. m \in 1..n /\ P(m - 1) /\ ~P(m) /\ m - 1 \in 0..n
    <3>1. m \in 0..n /\ ~P(m)
      BY <2>2
    <3>2. m # 0
      BY <2>3, <3>1
    <3>3. m \in 1..n /\ m - 1 \in 0..n /\ m - 1 < m
      BY <1>1, <3>1, <3>2
    <3>4. P(m - 1)
      BY <2>2, <3>3
    <3> QED BY <3>1, <3>3, <3>4
  <2> HIDE DEF B
  <2> DEFINE p == q[m]
             r == h[m - 1]
  <2>5. /\ IsSeq(r) /\ \A i \in DOMAIN r : Over(r[i])
        /\ SaidBy("text", r) = a[m - 1] /\ SaidBy("thinking", r) = b[m - 1]
    BY <2>4
  <2>6. Over(p)
    BY <1>1, <2>4
  <2>7. a[m] = Tell("text", a[m - 1], p) /\ b[m] = Tell("thinking", b[m - 1], p)
    BY <1>6, <2>4
  <2>8. CASE p.kind = "thinking" /\ p.content = <<>>
    <3>1. h[m] = r
      BY <1>7, <2>4, <2>8
    <3>2. a[m] = a[m - 1]
      BY <2>7, <2>8 DEF Tell
    <3>3. b[m] = b[m - 1]
      <4> DEFINE t == b[m - 1]
      <4>1. b[m] = t \o <<>>
        BY <2>7, <2>8 DEF Tell
      <4>2. t \in Seq(Nat)
        BY <1>5, <2>4
      <4> HIDE DEF t
      <4>3. t \o <<>> = t
        BY <4>2, ConcatEmptySeq
      <4> QED BY <4>1, <4>3 DEF t
    <3>4. P(m)
      BY <2>5, <3>1, <3>2, <3>3
    <3> QED BY <2>4, <3>4
  <2>9. CASE ~(p.kind = "thinking" /\ p.content = <<>>)
    <3>1. h[m] = Append(r, p)
      BY <1>7, <2>4, <2>9
    <3> HIDE DEF p, r
    <3>2. /\ IsSeq(Append(r, p)) /\ DOMAIN Append(r, p) = 1..(Len(r) + 1)
          /\ Len(r) \in Nat /\ DOMAIN r = 1..Len(r)
          /\ \A i \in 1..Len(r) : Append(r, p)[i] = r[i]
          /\ Append(r, p)[Len(r) + 1] = p
      BY <2>5, AppendIs, SeqIs
    <3>3. \A i \in 1..(Len(r) + 1) : Over(Append(r, p)[i])
      <4>1. ASSUME NEW i \in 1..(Len(r) + 1) PROVE Over(Append(r, p)[i])
        <5>1. CASE i = Len(r) + 1
          BY <2>6, <3>2, <5>1
        <5>2. CASE i # Len(r) + 1
          <6>1. i \in 1..Len(r)
            BY <3>2, <5>2
          <6> QED BY <2>5, <3>2, <6>1
        <5> QED BY <5>1, <5>2
      <4> QED BY <4>1
    <3>4. SaidBy("text", Append(r, p)) = a[m] /\ SaidBy("thinking", Append(r, p)) = b[m]
      BY <2>5, <2>7, SaidByAppend
    <3>5. P(m)
      BY <3>1, <3>2, <3>3, <3>4
    <3> QED BY <2>4, <3>5
  <2> QED BY <2>8, <2>9
<1>9. P(n)
  <2>1. n \in 0..n
    BY <1>1
  <2> QED BY <1>8, <2>1
<1> QED BY <1>2, <1>3, <1>4, <1>9 DEF n

\* Closing both slots leaves nothing in progress but tools
LEMMA ClosedAreOver ==
    ASSUME NEW a, Good(a)
    PROVE  LET c == Closed(Closed(a, "text"), "think")
           IN  Quiet(a, c) /\ \A j \in DOMAIN c.parts : c.parts[j].kind # "tool" => c.parts[j].state = "done"
<1> DEFINE b == Closed(a, "text")
           c == Closed(b, "think")
<1>0. "text" \in Slots /\ "think" \in Slots /\ "text" \in Slots \ {"think"}
  BY DEF Slots
<1>1. Quiet(a, b) /\ b["text"] = 0
  BY <1>0, ClosedIs
<1> HIDE DEF b
<1>2. Quiet(b, c) /\ c["think"] = 0 /\ c["text"] = b["text"]
  BY <1>0, <1>1, ClosedIs DEF Quiet
<1> HIDE DEF c
<1>3. Quiet(a, c) /\ \A o \in Slots : c[o] = 0
  BY <1>1, <1>2, QuietTransitively DEF Slots
<1>4. ASSUME NEW j \in DOMAIN c.parts, c.parts[j].kind # "tool" PROVE c.parts[j].state = "done"
  <2>1. Good(c) /\ DOMAIN c.parts = 1..Len(c.parts)
    BY <1>3, GoodIsTokens DEF Quiet
  <2>2. c.parts[j].kind \in {"text", "thinking"}
    BY <1>4, <2>1 DEF Good, GoodPart
  <2>3. PICK o \in Slots : c.parts[j].kind = KindOf(o)
    BY <2>2, Kinds DEF Slots
  <2>4. j # c[o]
    BY <1>3, <2>1
  <2> QED BY <2>1, <2>3, <2>4 DEF Good
<1> QED BY <1>3, <1>4 DEF b, c

\* The parts of an edit that ends a run say what the run says, and are over
LEMMA FinalPartsAre ==
    ASSUME NEW s, Plain(s), s.status \notin {"streaming", "interrupted"}
    PROVE  LET r == FinalParts(s)
           IN  /\ \A i \in DOMAIN r : Over(r[i])
               /\ SaidBy("text", r) = SaidBy("text", Shown(s).parts)
               /\ SaidBy("thinking", r) = SaidBy("thinking", Shown(s).parts)
<1> DEFINE c == Closed(Closed(Shown(s), "text"), "think")
           done == c.parts
           q == [i \in DOMAIN done |-> FinalizeOpenToolPart(done[i], s.status)]
<1>1. FinalParts(s) = FilterFinalMessageParts(q)
  <2>1. Shown(s) = FoldLeft(PartOf, [parts |-> <<>>, text |-> 0, think |-> 0], s.events)
    BY DEF Shown, Projection, NoParts
  <2> HIDE DEF q
  <2>2. q = [i \in DOMAIN done |-> FinalizeOpenToolPart(done[i], s.status)]
    BY DEF q
  <2> QED BY <2>1, <2>2 DEF FinalParts
<1>2. Quiet(Shown(s), c) /\ \A j \in DOMAIN c.parts : c.parts[j].kind # "tool" => c.parts[j].state = "done"
  BY ClosedAreOver DEF Plain
<1>3. \A o \in Slots : SaidBy(KindOf(o), c.parts) = SaidBy(KindOf(o), Shown(s).parts)
  BY <1>2 DEF Quiet
<1>4. Good(c)
  BY <1>2 DEF Quiet
<1> HIDE DEF c
<1>5. SaidBy("text", done) = SaidBy("text", Shown(s).parts)
      /\ SaidBy("thinking", done) = SaidBy("thinking", Shown(s).parts)
  BY <1>3, Kinds DEF Slots
<1>6. /\ IsSeq(done) /\ Tokens(done) /\ Len(done) \in Nat /\ DOMAIN done = 1..Len(done)
      /\ \A j \in DOMAIN done : GoodPart(done[j])
      /\ \A j \in DOMAIN done : done[j].kind # "tool" => done[j].state = "done"
  BY <1>2, <1>4, GoodIsTokens DEF Good
<1> HIDE DEF done
<1>7. ASSUME NEW p, GoodPart(p), p.kind # "tool" => p.state = "done"
      PROVE  LET f == FinalizeOpenToolPart(p, s.status)
             IN  f.kind = p.kind /\ f.content = p.content /\ Over(f)
  <2>1. CASE p.kind = "tool" /\ p.output = "none" /\ p.state # "approval-responded"
    <3> DEFINE f == FinalizeOpenToolPart(p, s.status)
    <3>1. f = [p EXCEPT !.state = "input-complete", !.output = "failed"]
      BY <2>1 DEF FinalizeOpenToolPart
    <3> HIDE DEF f
    <3>2. f.kind = p.kind /\ f.content = p.content /\ f.output = "failed"
      BY <1>7, <3>1 DEF GoodPart
    <3> QED BY <2>1, <3>2 DEF Over, f
  <2>2. CASE ~(p.kind = "tool" /\ p.output = "none" /\ p.state # "approval-responded")
    <3>1. FinalizeOpenToolPart(p, s.status) = p
      BY <2>2 DEF FinalizeOpenToolPart
    <3> QED BY <1>7, <2>2, <3>1 DEF Over, GoodPart
  <2> QED BY <2>1, <2>2
<1>8. DOMAIN q = 1..Len(done) /\ \A i \in 1..Len(done) :
        q[i].kind = done[i].kind /\ q[i].content = done[i].content /\ Over(q[i])
  <2>1. DOMAIN q = 1..Len(done) /\ \A i \in 1..Len(done) : q[i] = FinalizeOpenToolPart(done[i], s.status)
    BY <1>6
  <2> HIDE DEF q
  <2> QED BY <1>6, <1>7, <2>1
<1>9. IsSeq(q) /\ Len(q) = Len(done)
  <2> DEFINE n == Len(done)
             S == {q[i] : i \in DOMAIN q}
  <2>1. q = [i \in 1..n |-> q[i]] /\ n \in Nat
    BY <1>6
  <2> HIDE DEF q
  <2>2. \A i \in 1..n : q[i] \in S
    BY <1>8
  <2> HIDE DEF S, n
  <2>3. q \in [1..n -> S]
    BY <2>1, <2>2
  <2>4. q \in Seq(S)
    BY <2>1, <2>3, SeqDef
  <2>5. Len(q) \in Nat /\ DOMAIN q = 1..Len(q)
    BY <2>4, LenProperties
  <2>6. Len(q) = n
    BY <1>8, <2>1, <2>5 DEF n
  <2> QED BY <2>4, <2>6 DEF IsSeq, S, n
<1> HIDE DEF q
<1>10. Tokens(q)
  BY <1>6, <1>8, <1>9 DEF Tokens
<1>11. SaidBy("text", q) = SaidBy("text", done) /\ SaidBy("thinking", q) = SaidBy("thinking", done)
  BY <1>6, <1>8, <1>9, SaidBySame
<1>12. \A i \in DOMAIN q : Over(q[i])
  BY <1>8
<1> QED BY <1>1, <1>5, <1>10, <1>11, <1>12, FilterSays

-----------------------------------------------------------------------------
(* The inductive invariant of the parts. *)

\* A run that says sd in text and th in reasoning
Spoken(r, sd, th) ==
  /\ Plain(r)
  /\ SaidBy("text", Shown(r).parts) = sd /\ SaidBy("thinking", Shown(r).parts) = th

\* Of text and of reasoning one block is open at a time
OneOpen(bs) ==
  \A o \in Slots : \A i, j \in DOMAIN bs :
    bs[i].open /\ bs[j].open /\ bs[i].kind = KindOf(o) /\ bs[j].kind = KindOf(o) => i = j

\* The messages of the open blocks of a slot
Owned(r, bs, o) ==
  {Offset(r, o) + (j - 1) : j \in {i \in DOMAIN bs : bs[i].open /\ bs[i].kind = KindOf(o)}}

PartsFit(r, p, bs, sd, th) ==
  /\ sd \in Seq(Nat) /\ th \in Seq(Nat)
  /\ p # "ended" =>
       /\ Spoken(r, sd, th)
       /\ p \in {"idle", "streaming", "tools"} => Held(r)
       /\ p = "streaming" =>
            OneOpen(bs) /\ \A o \in Slots : InProgress(Shown(r), o) \subseteq Owned(r, bs, o)

PartsInv ==
  /\ PartsFit(run, phase, blocks, said, thought)
  /\ phase # "ended" => final = {}
  /\ FinalPartsAreComplete

\* A calm operation says nothing
LEMMA CalmSpeaks ==
    ASSUME NEW s, NEW t, NEW sd, NEW th, Spoken(s, sd, th), Calm(s, t)
    PROVE  Spoken(t, sd, th)
<1>1. \A o \in Slots : SaidBy(KindOf(o), Shown(t).parts) = SaidBy(KindOf(o), Shown(s).parts)
  BY DEF Calm, Quiet
<1>2. "text" \in Slots /\ "think" \in Slots
  BY DEF Slots
<1>3. /\ SaidBy("text", Shown(t).parts) = SaidBy("text", Shown(s).parts)
      /\ SaidBy("thinking", Shown(t).parts) = SaidBy("thinking", Shown(s).parts)
  BY <1>1, <1>2, Kinds
<1> QED BY <1>3 DEF Calm, Spoken

\* What is said is said in one slot
LEMMA VoicesSpeak ==
    ASSUME NEW s, NEW t, NEW sd, NEW th, Spoken(s, sd, th), NEW id, NEW tokens
    PROVE  /\ Voices(s, t, "text", id, tokens) => Spoken(t, sd \o tokens, th)
           /\ Voices(s, t, "think", id, tokens) => Spoken(t, sd, th \o tokens)
<1>0. "text" \in Slots \ {"think"} /\ "think" \in Slots \ {"text"}
  BY DEF Slots
<1>1. ASSUME Voices(s, t, "text", id, tokens) PROVE Spoken(t, sd \o tokens, th)
  <2>1. /\ SaidBy(KindOf("text"), Shown(t).parts) = SaidBy(KindOf("text"), Shown(s).parts) \o tokens
        /\ SaidBy(KindOf("think"), Shown(t).parts) = SaidBy(KindOf("think"), Shown(s).parts)
        /\ Plain(t)
    BY <1>0, <1>1 DEF Voices
  <2> QED BY <2>1, Kinds DEF Spoken
<1>2. ASSUME Voices(s, t, "think", id, tokens) PROVE Spoken(t, sd, th \o tokens)
  <2>1. /\ SaidBy(KindOf("think"), Shown(t).parts) = SaidBy(KindOf("think"), Shown(s).parts) \o tokens
        /\ SaidBy(KindOf("text"), Shown(t).parts) = SaidBy(KindOf("text"), Shown(s).parts)
        /\ Plain(t)
    BY <1>0, <1>2 DEF Voices
  <2> QED BY <2>1, Kinds DEF Spoken
<1> QED BY <1>1, <1>2

\* The next token, and what it is said after
LEMMA TokenIs ==
    ASSUME PartsInv
    PROVE  /\ Token \in Nat /\ said \in Seq(Nat) /\ thought \in Seq(Nat)
           /\ Append(said, Token) = said \o <<Token>> /\ Append(thought, Token) = thought \o <<Token>>
           /\ said \o <<>> = said /\ thought \o <<>> = thought
           /\ said \o <<Token>> \in Seq(Nat) /\ thought \o <<Token>> \in Seq(Nat)
<1>1. said \in Seq(Nat) /\ thought \in Seq(Nat)
  BY DEF PartsInv, PartsFit
<1>2. Token \in Nat
  BY <1>1, LenProperties DEF Token
<1> HIDE DEF Token
<1>3. ASSUME NEW t \in Seq(Nat), NEW x \in Nat PROVE Append(t, x) = t \o <<x>>
  BY <1>3, AppendIsConcat
<1>4. said \o <<>> = said /\ thought \o <<>> = thought
  BY <1>1, ConcatEmptySeq
<1>5. said \o <<Token>> \in Seq(Nat) /\ thought \o <<Token>> \in Seq(Nat)
  <2>1. <<Token>> \in Seq(Nat)
    BY <1>2
  <2> DEFINE one == <<Token>>
  <2>2. one \in Seq(Nat)
    BY <2>1
  <2> HIDE DEF one
  <2>3. said \o one \in Seq(Nat) /\ thought \o one \in Seq(Nat)
    BY <1>1, <2>2, ConcatProperties
  <2> QED BY <2>3 DEF one
<1> QED BY <1>1, <1>2, <1>3, <1>4, <1>5

\* Between turns nothing is in progress
LEMMA NothingIsInProgress ==
    ASSUME IInv, PartsInv, phase \in {"idle", "tools"}
    PROVE  \A o \in Slots : InProgress(Shown(run), o) = {}
<1>1. Opened(run) = {} /\ Held(run)
  BY DEF IInv, RunOK, RunFits, PartsInv, PartsFit
<1>2. run.textOpen = {} /\ run.reasoningOpen = {}
  <2>1. \A id : <<"text", id>> \notin Opened(run) /\ <<"reasoning", id>> \notin Opened(run)
    BY <1>1
  <2>2. \A id \in run.textOpen : <<"text", id>> \in Opened(run)
    BY DEF Opened
  <2>3. \A id \in run.reasoningOpen : <<"reasoning", id>> \in Opened(run)
    BY DEF Opened
  <2> QED BY <2>1, <2>2, <2>3
<1> QED BY <1>1, <1>2 DEF Held, OpenIn

\* A new run says nothing
LEMMA InitParts == Init => PartsInv
<1> SUFFICES ASSUME Init PROVE PartsInv
  OBVIOUS
<1>1. IsSeq(<<>>) /\ <<>> \in Seq(Nat) /\ IsFiniteSet({})
  BY EmptySeq, FS_EmptySet DEF IsSeq
<1>2. /\ DOMAIN run = Fields /\ run.events = <<>> /\ run.interrupts = {}
      /\ run.textOpen = {} /\ run.reasoningOpen = {}
  BY DEF Init, NewRun, Fields
<1>3. /\ said = <<>> /\ thought = <<>> /\ final = {} /\ phase = "idle"
  BY DEF Init
<1>4. Shown(run) = NoParts
  BY <1>2, ProjectionOfNone DEF Shown
<1>5. Plain(run)
  BY <1>1, <1>2, <1>4, ProjectionOfNone DEF Plain
<1>6. Held(run)
  BY <1>4, ProjectionOfNone DEF Held
<1>7. SaidBy("text", NoParts.parts) = <<>> /\ SaidBy("thinking", NoParts.parts) = <<>>
  BY SaidByNone DEF NoParts
<1>8. Spoken(run, said, thought)
  BY <1>3, <1>4, <1>5, <1>7 DEF Spoken
<1>9. FinalPartsAreComplete
  BY <1>3 DEF FinalPartsAreComplete
<1> QED BY <1>1, <1>3, <1>6, <1>8, <1>9 DEF PartsInv, PartsFit

\* What is left to show of an action that does not end the stream
LEMMA StillParts ==
    ASSUME PartsInv, phase # "ended", phase' # "ended", final' = final,
           PartsFit(run, phase, blocks, said, thought)'
    PROVE  PartsInv'
<1>1. final' = {}
  BY DEF PartsInv
<1>2. FinalPartsAreComplete'
  BY <1>1 DEF FinalPartsAreComplete
<1> QED BY <1>1, <1>2 DEF PartsInv

\* Another turn
LEMMA StreamFnParts ==
    ASSUME IInv, PartsInv, NEW o, StreamFn(o)
    PROVE  PartsInv'
<1> DEFINE s == NewWriter(run)
           t == IF cursor.started THEN s ELSE Start(s)
<1>1. /\ phase = "idle" /\ run' = t /\ phase' \in {"streaming", "failed"}
      /\ blocks' = <<>> /\ said' = said /\ thought' = thought /\ final' = final
  BY DEF StreamFn, Publish
<1>2. Plain(run) /\ Spoken(run, said, thought) /\ said \in Seq(Nat) /\ thought \in Seq(Nat)
  BY <1>1 DEF PartsInv, PartsFit, Spoken
<1>3. \A u \in Slots : InProgress(Shown(run), u) = {}
  BY <1>1, NothingIsInProgress
<1>4. Plain(s) /\ Shown(s) = Shown(run) /\ Held(s)
  BY <1>2, <1>3, NewWriterShows
<1> HIDE DEF s
<1>5. Calm(s, t)
  BY <1>4, CalmItself, WritingIsCalm
<1> HIDE DEF t
<1>6. Spoken(s, said, thought)
  BY <1>2, <1>4 DEF Spoken
<1>7. Spoken(t, said, thought) /\ Held(t)
  BY <1>4, <1>5, <1>6, CalmSpeaks DEF Calm
<1>8. \A u \in Slots : InProgress(Shown(t), u) = {}
  BY <1>3, <1>4, <1>5 DEF Calm, Quiet
<1>9. OneOpen(<<>>)
  BY DEF OneOpen
<1>10. PartsFit(t, phase', <<>>, said, thought)
  BY <1>2, <1>7, <1>8, <1>9 DEF PartsFit
<1>11. PartsFit(run, phase, blocks, said, thought)'
  BY <1>1, <1>10
<1> QED BY <1>1, <1>11, StillParts

\* The start of a text block
LEMMA TextStartIsCalm ==
    ASSUME NEW s, Plain(s), NEW index
    PROVE  Calm(s, TextStart(s, index))
<1> DEFINE a == OpenText(s, s.textOffset + index)
           b == [a EXCEPT !.current = s.textOffset + index]
<1>1. Calm(s, a)
  BY OpenTextIsCalm
<1>2. TextStart(s, index) = b
  BY DEF TextStart
<1> HIDE DEF a
<1>3. DOMAIN a = Fields /\ IsFiniteSet(a.interrupts) /\ Plain(a)
  BY <1>1 DEF Calm, Plain
<1>4. /\ DOMAIN b = Fields /\ b.events = a.events /\ b.interrupts = a.interrupts
      /\ b.textOffset = a.textOffset /\ b.reasoningOffset = a.reasoningOffset
      /\ b.textOpen = a.textOpen /\ b.reasoningOpen = a.reasoningOpen
  BY <1>3 DEF Fields
<1> HIDE DEF b
<1>5. Calm(a, b)
  BY <1>3, <1>4, AsideIsCalm
<1> QED BY <1>1, <1>2, <1>5, CalmTransitively

-----------------------------------------------------------------------------
(* Every action keeps what the parts say. *)

\* What is known of the parts while a turn streams
LEMMA StreamingParts ==
    ASSUME IInv, PartsInv, phase = "streaming"
    PROVE  /\ Plain(run) /\ Spoken(run, said, thought) /\ Held(run) /\ OneOpen(blocks)
           /\ \A o \in Slots : InProgress(Shown(run), o) \subseteq Owned(run, blocks, o)
           /\ said \in Seq(Nat) /\ thought \in Seq(Nat)
           /\ IsSeq(blocks) /\ Len(blocks) \in Nat /\ DOMAIN blocks = 1..Len(blocks)
<1>1. /\ Spoken(run, said, thought) /\ Held(run) /\ OneOpen(blocks)
      /\ \A o \in Slots : InProgress(Shown(run), o) \subseteq Owned(run, blocks, o)
      /\ said \in Seq(Nat) /\ thought \in Seq(Nat)
  BY DEF PartsInv, PartsFit
<1>2. IsSeq(blocks) /\ Len(blocks) \in Nat /\ DOMAIN blocks = 1..Len(blocks)
  BY SeqIs DEF IInv, BlocksOK
<1> QED BY <1>1, <1>2 DEF Spoken

\* The slot of an open block is of its message, and one without is empty
LEMMA OwnedAre ==
    ASSUME NEW r, NEW bs, OneOpen(bs), NEW o \in Slots
    PROVE  /\ \A i \in DOMAIN bs : bs[i].open /\ bs[i].kind = KindOf(o) =>
                Owned(r, bs, o) \subseteq {Offset(r, o) + (i - 1)}
           /\ (\A i \in DOMAIN bs : bs[i].open => bs[i].kind # KindOf(o)) => Owned(r, bs, o) = {}
<1> DEFINE I == {i \in DOMAIN bs : bs[i].open /\ bs[i].kind = KindOf(o)}
<1>1. Owned(r, bs, o) = {Offset(r, o) + (j - 1) : j \in I}
  BY DEF Owned
<1>2. ASSUME NEW i \in I, NEW j \in I PROVE i = j
  BY <1>2 DEF OneOpen
<1>3. ASSUME NEW i \in I PROVE I = {i}
  BY <1>2, <1>3
<1>4. ASSUME NEW i \in DOMAIN bs, bs[i].open, bs[i].kind = KindOf(o)
      PROVE  Owned(r, bs, o) \subseteq {Offset(r, o) + (i - 1)}
  <2>1. I = {i}
    BY <1>3, <1>4
  <2> HIDE DEF I
  <2> QED BY <1>1, <2>1
<1>5. ASSUME \A i \in DOMAIN bs : bs[i].open => bs[i].kind # KindOf(o) PROVE Owned(r, bs, o) = {}
  <2>1. I = {}
    BY <1>5
  <2> HIDE DEF I
  <2> QED BY <1>1, <2>1
<1> QED BY <1>4, <1>5

\* One more block, the first open one of its kind if that is text or reasoning
LEMMA BlockAdded ==
    ASSUME NEW bs, IsSeq(bs), OneOpen(bs), NEW b, b.open = TRUE,
           \A j \in DOMAIN bs : bs[j].open => bs[j].kind \notin {"text", "thinking"} \cap {b.kind},
           NEW r, NEW o \in Slots
    PROVE  LET more == Append(bs, b)
           IN  /\ OneOpen(more) /\ Owned(r, bs, o) \subseteq Owned(r, more, o)
               /\ b.kind = KindOf(o) => Offset(r, o) + Len(bs) \in Owned(r, more, o)
<1> DEFINE more == Append(bs, b)
           n == Len(bs)
<1>1. /\ n \in Nat /\ DOMAIN bs = 1..n /\ DOMAIN more = 1..(n + 1)
      /\ \A j \in 1..n : more[j] = bs[j]
      /\ more[n + 1] = b
  BY SeqIs, AppendIs
<1> HIDE DEF more, n
<1>2. \A u \in Slots : KindOf(u) \in {"text", "thinking"}
  BY DEF Slots, KindOf
<1>3. OneOpen(more)
  <2> SUFFICES ASSUME NEW u \in Slots, NEW i \in DOMAIN more, NEW j \in DOMAIN more,
                      more[i].open, more[j].open,
                      more[i].kind = KindOf(u), more[j].kind = KindOf(u)
               PROVE  i = j
    BY DEF OneOpen
  <2>1. CASE i \in 1..n /\ j \in 1..n
    BY <1>1, <2>1 DEF OneOpen
  <2>2. CASE i = n + 1 /\ j \in 1..n
    BY <1>1, <1>2, <2>2
  <2>3. CASE i \in 1..n /\ j = n + 1
    BY <1>1, <1>2, <2>3
  <2>4. CASE i = n + 1 /\ j = n + 1
    BY <2>4
  <2> QED BY <1>1, <2>1, <2>2, <2>3, <2>4
<1>4. Owned(r, bs, o) \subseteq Owned(r, more, o)
  <2>1. {i \in DOMAIN bs : bs[i].open /\ bs[i].kind = KindOf(o)}
          \subseteq {i \in DOMAIN more : more[i].open /\ more[i].kind = KindOf(o)}
    BY <1>1
  <2> QED BY <2>1 DEF Owned
<1>5. ASSUME b.kind = KindOf(o) PROVE Offset(r, o) + n \in Owned(r, more, o)
  <2>1. n + 1 \in {i \in DOMAIN more : more[i].open /\ more[i].kind = KindOf(o)}
    BY <1>1, <1>5
  <2>2. (n + 1) - 1 = n
    BY <1>1
  <2>3. Offset(r, o) + ((n + 1) - 1) \in Owned(r, more, o)
    BY <2>1 DEF Owned
  <2> QED BY <2>2, <2>3
<1> QED BY <1>3, <1>4, <1>5 DEF more, n

\* One block less that is open
LEMMA BlockClosed ==
    ASSUME NEW bs, IsSeq(bs), OneOpen(bs), NEW i \in DOMAIN bs,
           DOMAIN bs[i] = {"kind", "call", "open"},
           NEW r, NEW o \in Slots
    PROVE  LET less == [bs EXCEPT ![i].open = FALSE]
           IN  /\ OneOpen(less)
               /\ bs[i].kind # KindOf(o) => Owned(r, bs, o) \subseteq Owned(r, less, o)
<1> DEFINE less == [bs EXCEPT ![i].open = FALSE]
<1>1. /\ DOMAIN less = DOMAIN bs
      /\ \A j \in DOMAIN bs : j # i => less[j] = bs[j]
      /\ less[i].open = FALSE /\ less[i].kind = bs[i].kind
  <2>1. less = [j \in DOMAIN bs |-> IF j = i THEN [bs[i] EXCEPT !.open = FALSE] ELSE bs[j]]
    BY SeqIs
  <2>2. [bs[i] EXCEPT !.open = FALSE].open = FALSE /\ [bs[i] EXCEPT !.open = FALSE].kind = bs[i].kind
    OBVIOUS
  <2> HIDE DEF less
  <2> QED BY <2>1, <2>2
<1> HIDE DEF less
<1>2. \A j \in DOMAIN less : less[j].open => j \in DOMAIN bs /\ j # i /\ bs[j].open /\ less[j].kind = bs[j].kind
  BY <1>1
<1>3. OneOpen(less)
  BY <1>1, <1>2 DEF OneOpen
<1>4. ASSUME bs[i].kind # KindOf(o) PROVE Owned(r, bs, o) \subseteq Owned(r, less, o)
  <2>1. {j \in DOMAIN bs : bs[j].open /\ bs[j].kind = KindOf(o)}
          \subseteq {j \in DOMAIN less : less[j].open /\ less[j].kind = KindOf(o)}
    BY <1>1, <1>4
  <2> QED BY <2>1 DEF Owned
<1> QED BY <1>3, <1>4 DEF less

\* Whose messages the blocks are depends on a run's numbering alone
LEMMA OwnedBySame ==
    ASSUME NEW r, NEW t, NEW o, Offset(t, o) = Offset(r, o), NEW bs
    PROVE  Owned(t, bs, o) = Owned(r, bs, o)
BY DEF Owned

\* What is left to show of an event of the provider
LEMMA UpstreamParts ==
    ASSUME PartsInv, NEW t, NEW outcome, Upstream(t, outcome),
           PartsFit(t, "streaming", blocks', said', thought')
    PROVE  PartsInv'
<1>1. /\ run' = t /\ phase' \in {"streaming", "failed"} /\ phase = "streaming" /\ final' = final
  BY DEF Upstream, Publish
<1>2. PartsFit(t, "failed", blocks', said', thought')
  BY DEF PartsFit
<1>3. PartsFit(t, phase', blocks', said', thought')
  BY <1>1, <1>2
<1>4. PartsFit(run, phase, blocks, said, thought)'
  BY <1>1, <1>3
<1> QED BY <1>1, <1>4, StillParts

\* The start of a block of any kind
LEMMA BlockStartParts ==
    ASSUME IInv, PartsInv, NEW kind \in {"text", "thinking", "tool", "native"}, NEW o,
           BlockStart(kind, o)
    PROVE  PartsInv'
<1> DEFINE i == Len(blocks)
           call == FreshCall
           t == CASE kind = "text"     -> TextStart(run, i)
                  [] kind = "thinking" -> ReasoningMessageStart(run, i)
                  [] OTHER             -> ToolStart(run, call)
           b == [kind |-> kind, call |-> call, open |-> TRUE]
<1>1. /\ Upstream(t, o) /\ blocks' = Append(blocks, b) /\ said' = said /\ thought' = thought
      /\ \A j \in DOMAIN blocks : blocks[j].open => blocks[j].kind \notin {"text", "thinking"} \cap {kind}
  BY DEF BlockStart
<1>2. phase = "streaming"
  BY <1>1 DEF Upstream
<1>3. /\ Plain(run) /\ Spoken(run, said, thought) /\ Held(run) /\ OneOpen(blocks)
      /\ \A u \in Slots : InProgress(Shown(run), u) \subseteq Owned(run, blocks, u)
      /\ said \in Seq(Nat) /\ thought \in Seq(Nat)
      /\ IsSeq(blocks) /\ i \in Nat /\ DOMAIN blocks = 1..Len(blocks)
  BY <1>2, StreamingParts
<1>4. b.open = TRUE /\ b.kind = kind
  OBVIOUS
<1> HIDE DEF b, call
<1>5. ASSUME NEW r, NEW u \in Slots
      PROVE  /\ OneOpen(blocks') /\ Owned(r, blocks, u) \subseteq Owned(r, blocks', u)
             /\ kind = KindOf(u) => Offset(r, u) + i \in Owned(r, blocks', u)
  BY <1>1, <1>3, <1>4, BlockAdded
<1>6. OneOpen(blocks')
  <2>1. "text" \in Slots
    BY DEF Slots
  <2> QED BY <1>5, <2>1
<1> DEFINE Fine == /\ Spoken(t, said, thought) /\ Held(t)
                   /\ \A u \in Slots : InProgress(Shown(t), u) \subseteq Owned(t, blocks', u)
<1>7. ASSUME Calm(run, t) PROVE Fine
  <2>1. Spoken(t, said, thought) /\ Held(t)
    BY <1>3, <1>7, CalmSpeaks DEF Calm
  <2>2. ASSUME NEW u \in Slots PROVE InProgress(Shown(t), u) \subseteq Owned(t, blocks', u)
    <3>1. /\ InProgress(Shown(t), u) \subseteq InProgress(Shown(run), u)
          /\ Offset(t, u) = Offset(run, u)
      BY <1>7 DEF Calm, Quiet
    <3> HIDE DEF t
    <3>2. Owned(t, blocks', u) = Owned(run, blocks', u)
      BY <3>1, OwnedBySame
    <3> QED BY <1>3, <1>5, <3>1, <3>2
  <2> QED BY <2>1, <2>2
<1>8. CASE kind = "text"
  <2>1. Calm(run, t)
    BY <1>3, <1>8, TextStartIsCalm
  <2> QED BY <1>1, <1>3, <1>6, <1>7, <2>1, UpstreamParts DEF PartsFit
<1>9. CASE kind \in {"tool", "native"}
  <2>1. Calm(run, t)
    BY <1>3, <1>9, WritingIsCalm
  <2> QED BY <1>1, <1>3, <1>6, <1>7, <2>1, UpstreamParts DEF PartsFit
<1>10. CASE kind = "thinking"
  <2> DEFINE id == run.reasoningOffset + i
  <2>1. t = ReasoningMessageStart(run, i)
    BY <1>10
  <2> HIDE DEF t
  <2>2. "think" \in Slots /\ KindOf("think") = "thinking"
    BY Kinds DEF Slots
  <2>3. Owned(run, blocks, "think") = {}
    <3>1. \A j \in DOMAIN blocks : blocks[j].open => blocks[j].kind # KindOf("think")
      BY <1>1, <1>10, <2>2
    <3> QED BY <1>3, <2>2, <3>1, OwnedAre
  <2>4. InProgress(Shown(run), "think") \subseteq {id}
    BY <1>3, <2>2, <2>3
  <2>5. Voices(run, t, "think", id, <<>>)
    BY <1>3, <2>1, <2>4, ReasoningStartVoices
  <2>6. Spoken(t, said, thought)
    BY <1>3, <2>5, VoicesSpeak, TokenIs
  <2>7. ASSUME NEW u \in Slots PROVE InProgress(Shown(t), u) \subseteq Owned(t, blocks', u)
    <3>1. Offset(t, u) = Offset(run, u)
      BY <2>5 DEF Voices
    <3>2. Owned(t, blocks', u) = Owned(run, blocks', u)
      BY <3>1, OwnedBySame
    <3>3. CASE u = "think"
      <4>1. Offset(run, "think") = run.reasoningOffset
        BY DEF Offset
      <4>2. id \in Owned(run, blocks', u)
        BY <1>5, <1>10, <2>2, <3>3, <4>1
      <4> QED BY <2>5, <3>2, <3>3, <4>2 DEF Voices
    <3>4. CASE u # "think"
      <4>1. InProgress(Shown(t), u) \subseteq InProgress(Shown(run), u)
        BY <2>5, <3>4 DEF Voices
      <4> QED BY <1>3, <1>5, <3>2, <4>1
    <3> QED BY <3>3, <3>4
  <2>8. Held(t)
    BY <1>3, <2>5 DEF Voices
  <2> QED BY <1>1, <1>3, <1>6, <2>6, <2>7, <2>8, UpstreamParts DEF PartsFit
<1> QED BY <1>8, <1>9, <1>10

\* What is in progress stays within the open blocks, one of which speaks
LEMMA VoicesFit ==
    ASSUME NEW r, NEW t, NEW bs, NEW i \in DOMAIN bs, bs[i].open, NEW o \in Slots,
           bs[i].kind = KindOf(o), NEW tokens,
           \A u \in Slots : InProgress(Shown(r), u) \subseteq Owned(r, bs, u),
           Voices(r, t, o, Offset(r, o) + (i - 1), tokens)
    PROVE  \A u \in Slots : InProgress(Shown(t), u) \subseteq Owned(t, bs, u)
<1> SUFFICES ASSUME NEW u \in Slots PROVE InProgress(Shown(t), u) \subseteq Owned(t, bs, u)
  OBVIOUS
<1>1. Owned(t, bs, u) = Owned(r, bs, u)
  BY OwnedBySame DEF Voices
<1>2. CASE u = o
  <2>1. Offset(r, o) + (i - 1) \in Owned(r, bs, o)
    BY DEF Owned
  <2> QED BY <1>1, <1>2, <2>1 DEF Voices
<1>3. CASE u # o
  <2>1. InProgress(Shown(t), u) \subseteq InProgress(Shown(r), u)
    BY <1>3 DEF Voices
  <2> QED BY <1>1, <2>1
<1> QED BY <1>2, <1>3

\* What is in progress stays within the open blocks when nothing is said and none is closed
LEMMA CalmFit ==
    ASSUME NEW r, NEW t, NEW bs, Calm(r, t),
           \A u \in Slots : InProgress(Shown(r), u) \subseteq Owned(r, bs, u)
    PROVE  \A u \in Slots : InProgress(Shown(t), u) \subseteq Owned(t, bs, u)
<1> SUFFICES ASSUME NEW u \in Slots PROVE InProgress(Shown(t), u) \subseteq Owned(t, bs, u)
  OBVIOUS
<1>1. Owned(t, bs, u) = Owned(r, bs, u)
  BY OwnedBySame DEF Calm
<1>2. InProgress(Shown(t), u) \subseteq InProgress(Shown(r), u)
  BY DEF Calm, Quiet
<1> QED BY <1>1, <1>2

\* A delta of a block of any kind
LEMMA BlockDeltaParts ==
    ASSUME IInv, PartsInv, NEW i \in DOMAIN blocks, NEW o, BlockDelta(i, o)
    PROVE  PartsInv'
<1> DEFINE b == blocks[i]
           t == CASE b.kind = "text"     -> TextDelta(run, i - 1, Token)
                  [] b.kind = "thinking" -> ReasoningDelta(run, i - 1, Token)
                  [] OTHER               -> ToolArgs(run, b.call)
<1>1. /\ Upstream(t, o) /\ blocks' = blocks /\ b.open
      /\ said' = IF b.kind = "text" THEN Append(said, Token) ELSE said
      /\ thought' = IF b.kind = "thinking" THEN Append(thought, Token) ELSE thought
  BY DEF BlockDelta
<1>2. phase = "streaming"
  BY <1>1 DEF Upstream
<1>3. /\ Plain(run) /\ Spoken(run, said, thought) /\ Held(run) /\ OneOpen(blocks)
      /\ \A u \in Slots : InProgress(Shown(run), u) \subseteq Owned(run, blocks, u)
      /\ said \in Seq(Nat) /\ thought \in Seq(Nat)
  BY <1>2, StreamingParts
<1>4. b.kind \in {"text", "thinking", "tool", "native"}
  BY DEF IInv, BlocksOK
<1>5. /\ Token \in Nat
      /\ Append(said, Token) = said \o <<Token>> /\ Append(thought, Token) = thought \o <<Token>>
      /\ said \o <<Token>> \in Seq(Nat) /\ thought \o <<Token>> \in Seq(Nat)
  BY TokenIs
<1>6. ASSUME NEW u \in Slots, b.kind = KindOf(u)
      PROVE  InProgress(Shown(run), u) \subseteq {Offset(run, u) + (i - 1)}
  <2>1. Owned(run, blocks, u) \subseteq {Offset(run, u) + (i - 1)}
    BY <1>1, <1>3, <1>6, OwnedAre
  <2> QED BY <1>3, <2>1
<1> HIDE DEF Token
<1>7. CASE b.kind = "text"
  <2>1. "text" \in Slots /\ KindOf("text") = "text" /\ Offset(run, "text") = run.textOffset
    BY DEF Slots, KindOf, Offset
  <2>2. t = TextDelta(run, i - 1, Token) /\ said' = said \o <<Token>> /\ thought' = thought
    BY <1>1, <1>5, <1>7
  <2> HIDE DEF t
  <2>3. InProgress(Shown(run), "text") \subseteq {run.textOffset + (i - 1)}
    BY <1>6, <1>7, <2>1
  <2>4. Voices(run, t, "text", run.textOffset + (i - 1), <<Token>>)
    BY <1>3, <1>5, <2>2, <2>3, TextDeltaVoices
  <2>5. Spoken(t, said', thought')
    BY <1>3, <2>2, <2>4, VoicesSpeak
  <2>6. \A u \in Slots : InProgress(Shown(t), u) \subseteq Owned(t, blocks', u)
    BY <1>1, <1>3, <1>7, <2>1, <2>4, VoicesFit
  <2>7. Held(t)
    BY <1>3, <2>4 DEF Voices
  <2> QED BY <1>1, <1>3, <1>5, <2>2, <2>5, <2>6, <2>7, UpstreamParts DEF PartsFit
<1>8. CASE b.kind = "thinking"
  <2>1. "think" \in Slots /\ KindOf("think") = "thinking" /\ Offset(run, "think") = run.reasoningOffset
    BY DEF Slots, KindOf, Offset
  <2>2. t = ReasoningDelta(run, i - 1, Token) /\ said' = said /\ thought' = thought \o <<Token>>
    BY <1>1, <1>5, <1>8
  <2> HIDE DEF t
  <2>3. InProgress(Shown(run), "think") \subseteq {run.reasoningOffset + (i - 1)}
    BY <1>6, <1>8, <2>1
  <2>4. Voices(run, t, "think", run.reasoningOffset + (i - 1), <<Token>>)
    BY <1>3, <1>5, <2>2, <2>3, ReasoningDeltaVoices
  <2>5. Spoken(t, said', thought')
    BY <1>3, <2>2, <2>4, VoicesSpeak
  <2>6. \A u \in Slots : InProgress(Shown(t), u) \subseteq Owned(t, blocks', u)
    BY <1>1, <1>3, <1>8, <2>1, <2>4, VoicesFit
  <2>7. Held(t)
    BY <1>3, <2>4 DEF Voices
  <2> QED BY <1>1, <1>3, <1>5, <2>2, <2>5, <2>6, <2>7, UpstreamParts DEF PartsFit
<1>9. CASE b.kind \in {"tool", "native"}
  <2>1. Calm(run, t) /\ said' = said /\ thought' = thought
    BY <1>1, <1>3, <1>9, WritingIsCalm
  <2> HIDE DEF t
  <2>2. Spoken(t, said', thought') /\ Held(t)
    BY <1>3, <2>1, CalmSpeaks DEF Calm
  <2>3. \A u \in Slots : InProgress(Shown(t), u) \subseteq Owned(t, blocks', u)
    BY <1>1, <1>3, <2>1, CalmFit
  <2> QED BY <1>1, <1>3, <2>1, <2>2, <2>3, UpstreamParts DEF PartsFit
<1> QED BY <1>4, <1>7, <1>8, <1>9

\* The end of a block of any kind
LEMMA BlockEndParts ==
    ASSUME IInv, PartsInv, NEW i \in DOMAIN blocks, NEW full \in BOOLEAN, NEW o,
           BlockEnd(i, full, o)
    PROVE  PartsInv'
<1> DEFINE b == blocks[i]
           rest == IF full THEN <<Token>> ELSE <<>>
           had == ReasoningContent(run, i - 1)
           t == CASE b.kind = "text"     -> TextEnd(run, i - 1)
                  [] b.kind = "thinking" -> ReasoningMessageEnd(
                                              ReasoningContentSnapshot(run, i - 1, had \o rest), i - 1)
                  [] b.kind = "tool"     -> ToolInputComplete(run, b.call)
                  [] OTHER               -> Custom(ToolEnd(run, b.call, "complete"), b.call)
<1>1. /\ Upstream(t, o) /\ blocks' = [blocks EXCEPT ![i].open = FALSE] /\ b.open
      /\ said' = said /\ thought' = thought \o rest /\ (full => b.kind = "thinking")
  BY DEF BlockEnd
<1>2. phase = "streaming"
  BY <1>1 DEF Upstream
<1>3. /\ Plain(run) /\ Spoken(run, said, thought) /\ Held(run) /\ OneOpen(blocks)
      /\ \A u \in Slots : InProgress(Shown(run), u) \subseteq Owned(run, blocks, u)
      /\ said \in Seq(Nat) /\ thought \in Seq(Nat) /\ IsSeq(blocks)
  BY <1>2, StreamingParts
<1>4. /\ b.kind \in {"text", "thinking", "tool", "native"}
      /\ DOMAIN b = {"kind", "call", "open"}
  BY DEF IInv, BlocksOK
<1>5. /\ Token \in Nat /\ thought \o <<>> = thought
      /\ said \o <<Token>> \in Seq(Nat) /\ thought \o <<Token>> \in Seq(Nat)
  BY TokenIs
<1>6. ASSUME NEW u \in Slots, b.kind = KindOf(u)
      PROVE  InProgress(Shown(run), u) \subseteq {Offset(run, u) + (i - 1)}
  <2>1. Owned(run, blocks, u) \subseteq {Offset(run, u) + (i - 1)}
    BY <1>1, <1>3, <1>6, OwnedAre
  <2> QED BY <1>3, <2>1
<1>7. ASSUME NEW r, NEW u \in Slots
      PROVE  /\ OneOpen(blocks')
             /\ b.kind # KindOf(u) => Owned(r, blocks, u) \subseteq Owned(r, blocks', u)
  BY <1>1, <1>3, <1>4, BlockClosed
<1>8. OneOpen(blocks')
  <2>1. "text" \in Slots
    BY DEF Slots
  <2> QED BY <1>7, <2>1
<1>9. IsSeq(had)
  <2>1. IsSeq(<<>>)
    BY DEF IsSeq
  <2>2. Contents(run)
    BY <1>2 DEF IInv, RunOK, RunFits, Judged, Sound, Writer
  <2> QED BY <2>1, <2>2 DEF ReasoningContent, Contents
<1> HIDE DEF Token, b
<1>10. CASE b.kind = "text"
  <2>1. "text" \in Slots /\ KindOf("text") = "text" /\ Offset(run, "text") = run.textOffset
    BY DEF Slots, KindOf, Offset
  <2>2. t = CloseText(run, run.textOffset + (i - 1)) /\ rest = <<>>
    BY <1>1, <1>10 DEF TextEnd
  <2>3. thought' = thought
    BY <1>1, <1>5, <2>2
  <2> HIDE DEF t, rest
  <2>4. Calm(run, t) /\ run.textOffset + (i - 1) \notin InProgress(Shown(t), "text")
    BY <1>3, <2>2, CloseTextIsCalm
  <2>5. Spoken(t, said', thought') /\ Held(t)
    BY <1>1, <1>3, <2>3, <2>4, CalmSpeaks DEF Calm
  <2>6. ASSUME NEW u \in Slots PROVE InProgress(Shown(t), u) \subseteq Owned(t, blocks', u)
    <3>1. /\ InProgress(Shown(t), u) \subseteq InProgress(Shown(run), u)
          /\ Owned(t, blocks', u) = Owned(run, blocks', u)
      BY <2>4, OwnedBySame DEF Calm, Quiet
    <3>2. CASE u = "text"
      BY <1>6, <1>10, <2>1, <2>4, <3>1, <3>2
    <3>3. CASE u # "text"
      <4>1. b.kind # KindOf(u)
        BY <1>10, <2>1, <3>3, Kinds
      <4> QED BY <1>3, <1>7, <3>1, <4>1
    <3> QED BY <3>2, <3>3
  <2> QED BY <1>1, <1>3, <1>8, <2>3, <2>5, <2>6, UpstreamParts DEF PartsFit
<1>11. CASE b.kind = "thinking"
  <2> DEFINE r == ReasoningContentSnapshot(run, i - 1, had \o rest)
             id == run.reasoningOffset + (i - 1)
  <2>1. "think" \in Slots /\ KindOf("think") = "thinking" /\ Offset(run, "think") = run.reasoningOffset
    BY DEF Slots, KindOf, Offset
  <2>2. t = ReasoningMessageEnd(r, i - 1)
    BY <1>11
  <2> HIDE DEF t
  <2>3. InProgress(Shown(run), "think") \subseteq {id}
    BY <1>6, <1>11, <2>1
  <2>4. Voices(run, r, "think", id, rest)
    <3>1. CASE full
      <4>1. rest = <<Token>>
        BY <3>1
      <4> HIDE DEF rest
      <4>2. r = ReasoningDelta(run, i - 1, Token)
        BY <1>9, <4>1, SnapshotIs
      <4> HIDE DEF r
      <4>3. Voices(run, r, "think", id, <<Token>>)
        BY <1>3, <1>5, <2>3, <4>2, ReasoningDeltaVoices
      <4> QED BY <4>1, <4>3
    <3>2. CASE ~full
      <4>1. rest = <<>>
        BY <3>2
      <4> HIDE DEF rest
      <4>2. r = run
        BY <1>9, <4>1, SnapshotIs
      <4> HIDE DEF r
      <4>3. Calm(run, r)
        BY <1>3, <4>2, CalmItself
      <4>4. Voices(run, r, "think", id, <<>>)
        BY <1>3, <2>1, <2>3, <4>3, CalmVoices
      <4> QED BY <4>1, <4>4
    <3> QED BY <3>1, <3>2
  <2>5. thought \o rest \in Seq(Nat)
    <3>1. CASE full
      BY <1>5, <3>1
    <3>2. CASE ~full
      BY <1>3, <1>5, <3>2
    <3> QED BY <3>1, <3>2
  <2> HIDE DEF r, rest
  <2>6. Plain(r) /\ Held(r) /\ r.reasoningOffset = run.reasoningOffset
    <3>1. Offset(r, "think") = Offset(run, "think")
      BY <2>1, <2>4 DEF Voices
    <3> QED BY <1>3, <2>4, <3>1 DEF Voices, Offset
  <2>7. t = CloseReasoning(r, id)
    BY <2>2, <2>6 DEF ReasoningMessageEnd
  <2>8. Calm(r, t) /\ id \notin InProgress(Shown(t), "think")
    BY <2>6, <2>7, CloseReasoningIsCalm
  <2>9. Voices(run, t, "think", id, rest)
    BY <2>1, <2>4, <2>8, CalmAfterVoices
  <2>10. Spoken(t, said', thought') /\ Held(t)
    BY <1>1, <1>3, <2>9, VoicesSpeak DEF Voices
  <2>11. ASSUME NEW u \in Slots PROVE InProgress(Shown(t), u) \subseteq Owned(t, blocks', u)
    <3>1. Owned(t, blocks', u) = Owned(run, blocks', u)
      BY <2>9, OwnedBySame DEF Voices
    <3>2. CASE u = "think"
      BY <2>8, <2>9, <3>2 DEF Voices
    <3>3. CASE u # "think"
      <4>1. b.kind # KindOf(u)
        BY <1>11, <2>1, <3>3, Kinds
      <4>2. InProgress(Shown(t), u) \subseteq InProgress(Shown(run), u)
        BY <2>9, <3>3 DEF Voices
      <4> QED BY <1>3, <1>7, <3>1, <4>1, <4>2
    <3> QED BY <3>2, <3>3
  <2> QED BY <1>1, <1>3, <1>8, <2>5, <2>10, <2>11, UpstreamParts DEF PartsFit
<1>12. CASE b.kind \in {"tool", "native"}
  <2>1. rest = <<>>
    BY <1>1, <1>12
  <2>2. Calm(run, t)
    <3>1. CASE b.kind = "tool"
      BY <1>3, <3>1, WritingIsCalm
    <3>2. CASE b.kind = "native"
      <4> DEFINE r == ToolEnd(run, b.call, "complete")
      <4>1. t = Custom(r, b.call)
        BY <3>2
      <4>2. Calm(run, r)
        BY <1>3, ToolEndIsCalm
      <4> HIDE DEF r, t
      <4>3. Calm(r, t)
        BY <4>1, <4>2, WritingIsCalm DEF Calm
      <4> QED BY <4>2, <4>3, CalmTransitively
    <3> QED BY <1>12, <3>1, <3>2
  <2>3. thought' = thought
    BY <1>1, <1>5, <2>1
  <2> HIDE DEF t, rest
  <2>4. Spoken(t, said', thought') /\ Held(t)
    BY <1>1, <1>3, <2>2, <2>3, CalmSpeaks DEF Calm
  <2>5. ASSUME NEW u \in Slots PROVE InProgress(Shown(t), u) \subseteq Owned(t, blocks', u)
    <3>1. /\ InProgress(Shown(t), u) \subseteq InProgress(Shown(run), u)
          /\ Owned(t, blocks', u) = Owned(run, blocks', u)
      BY <2>2, OwnedBySame DEF Calm, Quiet
    <3>2. b.kind # KindOf(u)
      BY <1>12, Kinds DEF KindOf
    <3> QED BY <1>3, <1>7, <3>1, <3>2
  <2> QED BY <1>1, <1>3, <1>8, <2>3, <2>4, <2>5, UpstreamParts DEF PartsFit
<1> QED BY <1>4, <1>10, <1>11, <1>12

\* What is left to show of a step between two events of the provider
LEMMA PublishParts ==
    ASSUME PartsInv, phase # "ended", phase' # "ended", final' = final,
           NEW t, NEW outcome, Publish(t, cursor, outcome),
           PartsFit(t, phase', blocks', said', thought')
    PROVE  PartsInv'
<1>1. run' = t
  BY DEF Publish
<1>2. PartsFit(run, phase, blocks, said, thought)'
  BY <1>1
<1> QED BY <1>2, StillParts

\* The end of a turn closes whatever is open
LEMMA DoneParts ==
    ASSUME IInv, PartsInv, NEW unstreamed \in BOOLEAN, NEW o, Done(unstreamed, o)
    PROVE  PartsInv'
<1> DEFINE r == TextDelta(run, 0, Token)
           s == IF unstreamed THEN TextEnd(r, 0) ELSE run
           t == IF Wanted # {} THEN AwaitToolUse(s) ELSE Finish(s)
<1>1. /\ phase = "streaming" /\ Publish(t, cursor, o)
      /\ phase' \in {"failed", "tools", "done"} /\ final' = final
      /\ said' = IF unstreamed THEN Append(said, Token) ELSE said
      /\ thought' = thought /\ blocks' = blocks
      /\ \A i \in DOMAIN blocks : ~blocks[i].open
  BY DEF Done
<1>2. /\ Plain(run) /\ Spoken(run, said, thought) /\ Held(run) /\ OneOpen(blocks)
      /\ \A u \in Slots : InProgress(Shown(run), u) \subseteq Owned(run, blocks, u)
      /\ said \in Seq(Nat) /\ thought \in Seq(Nat)
  BY <1>1, StreamingParts
<1>3. Sound(run)
  BY <1>1 DEF IInv, RunOK, RunFits, Judged
<1>4. /\ Token \in Nat /\ Append(said, Token) = said \o <<Token>>
      /\ said \o <<Token>> \in Seq(Nat)
  BY TokenIs
<1>5. InProgress(Shown(run), "text") = {}
  <2>1. "text" \in Slots
    BY DEF Slots
  <2>2. Owned(run, blocks, "text") = {}
    BY <1>1, <1>2, <2>1, OwnedAre
  <2> QED BY <1>2, <2>1, <2>2
<1> HIDE DEF Token
<1>6. Sound(s) /\ Plain(s) /\ Spoken(s, said', thought') /\ Held(s) /\ said' \in Seq(Nat)
  <2>1. CASE unstreamed
    <3>1. s = CloseText(r, r.textOffset + 0) /\ said' = said \o <<Token>>
      BY <1>1, <1>4, <2>1 DEF TextEnd
    <3>2. Follows(run, r, {})
      BY <1>3, TextDeltaIs
    <3>3. InProgress(Shown(run), "text") \subseteq {run.textOffset + 0}
      BY <1>5
    <3>4. Voices(run, r, "text", run.textOffset + 0, <<Token>>)
      BY <1>2, <1>4, <3>3, TextDeltaVoices
    <3> HIDE DEF r, s
    <3>5. Spoken(r, said', thought') /\ Plain(r) /\ Held(r)
      <4> DEFINE id == run.textOffset + 0
                 one == <<Token>>
      <4>1. Voices(run, r, "text", id, one)
        BY <3>4
      <4> HIDE DEF id
      <4>2. Plain(r) /\ Held(r)
        BY <1>2, <4>1 DEF Voices
      <4>3. said' = said \o one /\ thought' = thought
        BY <1>1, <3>1
      <4> HIDE DEF one
      <4>4. Spoken(r, said \o one, thought)
        BY <1>2, <4>1, VoicesSpeak
      <4> QED BY <4>2, <4>3, <4>4
    <3>6. Calm(r, s)
      BY <3>1, <3>5, CloseTextIsCalm
    <3>7. Follows(r, s, {})
      BY <3>1, <3>2, CloseTextIs DEF Follows
    <3> QED BY <1>4, <3>1, <3>5, <3>6, <3>7, CalmSpeaks DEF Calm, Follows
  <2>2. CASE ~unstreamed
    BY <1>1, <1>2, <1>3, <2>2
  <2> QED BY <2>1, <2>2
<1> HIDE DEF r, s
<1>7. Calm(s, t)
  BY <1>6, EndingsAreCalm
<1> HIDE DEF t
<1>8. Spoken(t, said', thought') /\ Held(t)
  BY <1>6, <1>7, CalmSpeaks DEF Calm
<1>9. PartsFit(t, phase', blocks', said', thought')
  BY <1>1, <1>2, <1>6, <1>8 DEF PartsFit
<1> QED BY <1>1, <1>9, PublishParts

\* An error closes whatever is open, and says nothing
LEMMA StreamErrorParts ==
    ASSUME IInv, PartsInv, NEW o, StreamError(o)
    PROVE  PartsInv'
<1> DEFINE t == WriteError(run)
<1>1. /\ phase = "streaming" /\ Publish(t, cursor, o) /\ phase' = "failed" /\ final' = final
      /\ said' = said /\ thought' = thought /\ blocks' = blocks
  BY DEF StreamError
<1>2. /\ Plain(run) /\ Spoken(run, said, thought)
      /\ said \in Seq(Nat) /\ thought \in Seq(Nat)
  BY <1>1, StreamingParts
<1>3. Sound(run)
  BY <1>1 DEF IInv, RunOK, RunFits, Judged
<1>4. Calm(run, t)
  BY <1>2, <1>3, EndingsAreCalm
<1> HIDE DEF t
<1>5. Spoken(t, said, thought)
  BY <1>2, <1>4, CalmSpeaks
<1>6. PartsFit(t, phase', blocks', said', thought')
  BY <1>1, <1>2, <1>5 DEF PartsFit
<1> QED BY <1>1, <1>6, PublishParts

\* A new writer takes over what is said, and nothing in progress
LEMMA BetweenTurns ==
    ASSUME IInv, PartsInv, phase \in {"idle", "tools"}
    PROVE  LET w == NewWriter(run)
           IN  /\ Plain(w) /\ Held(w) /\ Spoken(w, said, thought)
               /\ said \in Seq(Nat) /\ thought \in Seq(Nat)
<1>1. /\ Plain(run) /\ Spoken(run, said, thought)
      /\ said \in Seq(Nat) /\ thought \in Seq(Nat)
  BY DEF PartsInv, PartsFit, Spoken
<1>2. \A u \in Slots : InProgress(Shown(run), u) = {}
  BY NothingIsInProgress
<1> DEFINE w == NewWriter(run)
<1>3. Plain(w) /\ Shown(w) = Shown(run) /\ Held(w)
  BY <1>1, <1>2, NewWriterShows
<1> HIDE DEF w
<1>4. Spoken(w, said, thought)
  BY <1>1, <1>3 DEF Spoken
<1> QED BY <1>1, <1>3, <1>4 DEF w

\* What a tool or an approval writes says nothing
LEMMA ToolsParts ==
    ASSUME IInv, PartsInv, phase = "tools", phase' \in {"idle", "tools"}, final' = final,
           said' = said, thought' = thought,
           NEW t, Calm(NewWriter(run), t), NEW outcome, Publish(t, cursor, outcome)
    PROVE  PartsInv'
<1> DEFINE w == NewWriter(run)
<1>1. /\ Plain(w) /\ Held(w) /\ Spoken(w, said, thought)
      /\ said \in Seq(Nat) /\ thought \in Seq(Nat)
  BY BetweenTurns
<1>2. Calm(w, t)
  OBVIOUS
<1> HIDE DEF w
<1>3. Spoken(t, said, thought) /\ Held(t)
  BY <1>1, <1>2, CalmSpeaks DEF Calm
<1>4. PartsFit(t, phase', blocks', said', thought')
  BY <1>1, <1>3 DEF PartsFit
<1> QED BY <1>4, PublishParts

\* An approval is asked for
LEMMA RequestApprovalParts ==
    ASSUME IInv, PartsInv, NEW call \in Calls, RequestApproval(call)
    PROVE  PartsInv'
<1> DEFINE w == NewWriter(run)
           a == ToolApprovalRequested(w, call)
           i == InterruptWithUsage(a)
           t == Custom(i, call)
<1>1. /\ phase = "tools" /\ phase' = "tools" /\ final' = final
      /\ said' = said /\ thought' = thought /\ Publish(t, cursor, "ok")
  BY DEF RequestApproval
<1>2. Continues(run) /\ Sound(run) /\ Opened(run) = {}
  BY <1>1 DEF IInv, RunOK, RunFits, Continues, Judged
<1>3. Follows(run, w, {})
  BY <1>2, NewWriterIs
<1>4. Plain(w)
  BY <1>1, BetweenTurns
<1>5. Calm(w, t)
  <2> HIDE DEF w
  <2>1. Continues(w)
    BY <1>2, <1>3, FollowsContinues
  <2>2. Sound(a)
    BY <2>1, ApprovalRequestedIs DEF Continues, Judged
  <2>3. Calm(w, a)
    BY <1>4, RequestedIsCalm
  <2> HIDE DEF a
  <2>4. Calm(a, i)
    BY <2>2, <2>3, EndingsAreCalm DEF Calm
  <2> HIDE DEF i
  <2>5. Calm(i, t)
    BY <2>4, WritingIsCalm DEF Calm
  <2> HIDE DEF t
  <2> QED BY <2>3, <2>4, <2>5, CalmTransitively
<1> HIDE DEF t
<1> QED BY <1>1, <1>5, ToolsParts

\* An approval is answered: nothing is said
LEMMA RespondParts ==
    ASSUME IInv, PartsInv, NEW call \in Calls, NEW answer, Respond(call, answer)
    PROVE  PartsInv'
<1> DEFINE w == NewWriter(run)
           t == ToolApprovalResponded(w, call, answer)
<1>1. /\ phase = "tools" /\ phase' = "tools" /\ final' = final
      /\ said' = said /\ thought' = thought /\ Publish(t, cursor, "ok")
  BY DEF Respond
<1>2. Plain(w)
  BY <1>1, BetweenTurns
<1>3. Calm(w, t)
  BY <1>2, RespondedIsCalm
<1> HIDE DEF t
<1> QED BY <1>1, <1>3, ToolsParts

\* The output of a tool
LEMMA PublishToolOutputParts ==
    ASSUME IInv, PartsInv, NEW call \in Calls, NEW state \in {"complete", "error"}, NEW o,
           PublishToolOutput(call, state, o)
    PROVE  PartsInv'
<1> DEFINE w == NewWriter(run)
           s == ToolEnd(w, call, state)
           t == IF state = "complete" THEN Custom(s, call) ELSE s
<1>1. /\ phase = "tools" /\ phase' \in {"idle", "tools"} /\ final' = final
      /\ said' = said /\ thought' = thought /\ Publish(t, cursor, o)
  BY DEF PublishToolOutput
<1>2. Plain(w)
  BY <1>1, BetweenTurns
<1>3. Calm(w, t)
  <2> HIDE DEF w
  <2>1. Calm(w, s)
    BY <1>2, ToolEndIsCalm
  <2> HIDE DEF s
  <2>2. Plain(s)
    BY <2>1 DEF Calm
  <2>3. Calm(s, Custom(s, call))
    BY <2>2, WritingIsCalm
  <2>4. Calm(w, Custom(s, call))
    BY <2>1, <2>3, CalmTransitively
  <2> QED BY <2>1, <2>4
<1> HIDE DEF t
<1> QED BY <1>1, <1>3, ToolsParts

\* The final edit
LEMMA FinalizeAssistantParts ==
    ASSUME IInv, PartsInv, FinalizeAssistant
    PROVE  PartsInv'
<1> DEFINE S == {c \in Calls : tools[c] \in {"complete", "error"}}
           w == NewWriter(run)
           q == SetToSeq(S)
           t == PutAll(w, tools, q)
           f == FinalizedAssistantRun(t)
<1>1. /\ phase \in {"done", "failed"} /\ phase' = "ended" /\ run' = t
      /\ said' = said /\ thought' = thought /\ final' = {ProjectFinal(f)}
  <2>1. /\ phase \in {"done", "failed"} /\ phase' = "ended" /\ run' = t
        /\ said' = said /\ thought' = thought
        /\ final' = {ProjectFinal(FinalizedAssistantRun(run'))}
    BY DEF FinalizeAssistant, AppendToolOutputs, PutAll
  <2> HIDE DEF t
  <2> QED BY <2>1
<1>2. DOMAIN q = 1..Cardinality(S) /\ Cardinality(S) \in Nat
  <2>1. IsFiniteSet(S)
    BY CallsAreFinite, FS_Subset
  <2> HIDE DEF S
  <2>2. Cardinality(S) \in Nat /\ ExistsBijection(1..Cardinality(S), S)
    BY <2>1, FS_CardinalityType
  <2>3. \E g \in [1..Cardinality(S) -> S] : IsInjective(g)
    BY <2>2 DEF ExistsBijection, Bijection, Injection
  <2>4. q \in [1..Cardinality(S) -> S]
    BY <2>3, Zenon DEF SetToSeq
  <2> HIDE DEF q
  <2> QED BY <2>2, <2>4
<1>3. /\ Plain(run) /\ Spoken(run, said, thought)
      /\ said \in Seq(Nat) /\ thought \in Seq(Nat)
  BY <1>1 DEF PartsInv, PartsFit, Spoken
<1>4. Plain(w) /\ Shown(w) = Shown(run)
  BY <1>3, NewWriterShows
<1> HIDE DEF S, q, w
<1>5. Calm(w, t)
  BY <1>2, <1>4, OutputsAreCalm
<1> HIDE DEF t
<1>6. Spoken(w, said, thought)
  BY <1>3, <1>4 DEF Spoken
<1>7. Spoken(t, said, thought)
  BY <1>5, <1>6, CalmSpeaks
<1>8. Calm(t, f) /\ f.status \in {"error", "aborted", "complete"}
  <2>1. Plain(t) /\ DOMAIN t = Fields
    BY <1>5 DEF Calm, Plain
  <2>2. CASE phase = "failed"
    <3> DEFINE a == [t EXCEPT !.status = "error"]
               text == IF Text(t.events) = <<>> THEN <<"error">> ELSE t.preview
               c == [a EXCEPT !.preview = text]
    <3>1. Calm(t, a)
      BY <2>1, StatusIsCalm
    <3>2. DOMAIN a = Fields /\ a.status = "error" /\ a.preview = t.preview
      BY <2>1 DEF Fields
    <3>3. f = c
      BY <2>2 DEF FinalizedAssistantRun
    <3> HIDE DEF a, text
    <3>4. Calm(a, c) /\ c.status = a.status
      BY <3>1, <3>2, StatusIsCalm DEF Calm, Fields
    <3> QED BY <3>1, <3>2, <3>3, <3>4, CalmTransitively
  <2>3. CASE phase # "failed" /\ t.status \in {"error", "aborted"}
    <3>1. f = t
      BY <2>3 DEF FinalizedAssistantRun
    <3> QED BY <2>1, <2>3, <3>1, CalmItself
  <2>4. CASE phase # "failed" /\ t.status \notin {"error", "aborted"}
    <3> DEFINE a == [t EXCEPT !.status = "complete"]
    <3>1. f = a
      BY <2>4 DEF FinalizedAssistantRun
    <3>2. a.status = "complete"
      BY <2>1 DEF Fields
    <3>3. Calm(t, a)
      BY <2>1, StatusIsCalm
    <3> HIDE DEF a, f
    <3> QED BY <3>1, <3>2, <3>3
  <2> QED BY <2>2, <2>3, <2>4
<1> HIDE DEF f
<1>9. Spoken(f, said, thought) /\ Plain(f)
  BY <1>7, <1>8, CalmSpeaks DEF Calm
<1> DEFINE parts == FinalParts(f)
<1>10. /\ \A i \in DOMAIN parts : Over(parts[i])
       /\ SaidBy("text", parts) = said /\ SaidBy("thinking", parts) = thought
  <2>1. f.status \notin {"streaming", "interrupted"}
    BY <1>8
  <2> QED BY <1>9, <2>1, FinalPartsAre DEF Spoken
<1>11. ProjectFinal(f).parts = parts
  BY DEF ProjectFinal
<1> HIDE DEF parts
<1>12. FinalPartsAreComplete'
  BY <1>1, <1>10, <1>11 DEF FinalPartsAreComplete, Over
<1>13. PartsFit(run, phase, blocks, said, thought)'
  BY <1>1, <1>3 DEF PartsFit
<1> QED BY <1>1, <1>12, <1>13 DEF PartsInv

\* Every action, and every stutter, keeps the parts
LEMMA NextParts == IInv /\ PartsInv /\ [Next]_vars => PartsInv'
<1> SUFFICES ASSUME IInv, PartsInv, [Next]_vars PROVE PartsInv'
  OBVIOUS
<1>1. CASE UNCHANGED vars
  <2>1. /\ PartsFit(run, phase, blocks, said, thought)'
        /\ (phase # "ended" => final = {})'
    BY <1>1 DEF vars, PartsInv
  <2>2. FinalPartsAreComplete'
    BY <1>1 DEF vars, PartsInv, FinalPartsAreComplete
  <2> QED BY <2>1, <2>2 DEF PartsInv
<1>2. ASSUME NEW o, StreamFn(o) PROVE PartsInv'
  BY <1>2, StreamFnParts
<1>3. ASSUME NEW o, NEW kind \in {"text", "thinking", "tool", "native"}, BlockStart(kind, o)
      PROVE PartsInv'
  BY <1>3, BlockStartParts
<1>4. ASSUME NEW o, NEW i \in DOMAIN blocks, BlockDelta(i, o) PROVE PartsInv'
  BY <1>4, BlockDeltaParts
<1>5. ASSUME NEW o, NEW i \in DOMAIN blocks, NEW full \in BOOLEAN, BlockEnd(i, full, o)
      PROVE PartsInv'
  BY <1>5, BlockEndParts
<1>6. ASSUME NEW o, NEW unstreamed \in BOOLEAN, Done(unstreamed, o) PROVE PartsInv'
  BY <1>6, DoneParts
<1>7. ASSUME NEW o, StreamError(o) PROVE PartsInv'
  BY <1>7, StreamErrorParts
<1>8. ASSUME NEW o, NEW call \in Calls, NEW state \in {"complete", "error"},
             PublishToolOutput(call, state, o)
      PROVE PartsInv'
  BY <1>8, PublishToolOutputParts
<1>9. ASSUME NEW call \in Calls, RequestApproval(call) PROVE PartsInv'
  BY <1>9, RequestApprovalParts
<1>10. ASSUME NEW call \in Calls, NEW a, Respond(call, a) PROVE PartsInv'
  BY <1>10, RespondParts
<1>11. CASE FinalizeAssistant
  BY <1>11, FinalizeAssistantParts
<1>12. CASE Ended
  BY <1>1, <1>12 DEF Ended
<1> QED
  BY <1>1, <1>2, <1>3, <1>4, <1>5, <1>6, <1>7, <1>8, <1>9, <1>10, <1>11, <1>12, Zenon DEF Next

\* The parts of the final edit hold every text and reasoning delta of the
\* answer once and in order, and none is in progress, whatever turns, tools,
\* approvals and failures the answer went through: FinalBeeperAIMessage loses,
\* repeats and reorders nothing.  (message.go, writer.go)
THEOREM FinalPartsStayComplete == Spec => []FinalPartsAreComplete
<1>1. Init => IInv /\ PartsInv
  BY InitInv, InitParts
<1>2. IInv /\ PartsInv /\ [Next]_vars => IInv' /\ PartsInv'
  BY NextKeeps, NextParts
<1>3. PartsInv => FinalPartsAreComplete
  BY DEF PartsInv
<1> QED BY <1>1, <1>2, <1>3, PTL DEF Spec

=============================================================================
