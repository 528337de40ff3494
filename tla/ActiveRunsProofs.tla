-------------------------- MODULE ActiveRunsProofs --------------------------
(* What holds of a room's messages and the runs that answer them, for any   *)
(* number of messages, of turns and of abort commands.                      *)
EXTENDS ActiveRuns, SequenceTheorems, WellFoundedInduction, TLAPS

-----------------------------------------------------------------------------
(* The inductive invariant. *)

Places == {"none", "spawned", "begin", "prompt", "promptEcho", "drainMore", "drainLast", "deliver",
           "echo", "request", "compacting", "settle", "close", "returned", "compact", "continue",
           "fail", "end", "clearRun", "clearHarness", "dead"}
PortalPlaces == {"idle", "add", "steer", "retract", "forget", "start", "publish", "abort"}
AbortPlaces == {"idle", "clear", "cancel", "look", "wait", "fail"}

\* Where a run has given up its list, and where its harness is in no call.
Over == {"clearRun", "clearHarness", "dead"}
Between == {"none", "spawned", "close", "returned", "compact", "continue", "fail", "end"} \union Over

TypeInv ==
    /\ portal \in [at : PortalPlaces, msg : 0 .. MaxMsgs, run : 0 .. MaxMsgs]
    /\ sent \in 0 .. MaxMsgs /\ born \in 0 .. MaxMsgs
    /\ activeRun \in 0 .. MaxMsgs /\ activeHarness \in 0 .. MaxMsgs
    /\ pc \in [Runs -> Places] /\ op \in [Runs -> {"prompt", "compact", "continue"}]
    /\ phase \in [Runs -> {"idle", "turn", "compaction"}]
    /\ steer \in [Runs -> Seq(Messages)] /\ pending \in [Runs -> Seq(Messages)]
    /\ todo \in [Runs -> 0 .. MaxMsgs] /\ cancelled \in [Runs -> BOOLEAN]
    /\ echo \in [Messages -> 0 .. MaxMsgs] /\ answers \in [Messages -> {0, 1}]
    /\ abort \in [at : AbortPlaces, run : 0 .. MaxMsgs, waitFor : Nat, count : Nat, inLoop : BOOLEAN]

\* The loop has a message that is not yet a run's to write.
InLoop == portal.at \in {"add", "steer", "retract", "forget", "start"}

\* Runs are made one at a time, for messages that were received.
BirthInv ==
    /\ activeRun <= born /\ activeHarness <= born /\ abort.run <= born
    /\ InLoop => portal.msg = sent /\ sent > 0 /\ born < sent
    /\ born <= sent
    /\ portal.at \in {"add", "steer", "retract", "forget"} => portal.run \in 1 .. born
    /\ portal.at = "publish" => portal.run = born /\ portal.run > 0 /\ pc[portal.run] = "none"
    /\ \A r \in Runs : r > born =>
         /\ pc[r] = "none" /\ steer[r] = <<>> /\ pending[r] = <<>> /\ todo[r] = 0
         /\ phase[r] = "idle"

\* The message a run is to write, or has just written.
Asks == {"spawned", "prompt", "promptEcho", "deliver", "echo"}
Writes(r) == pc[r] \in Asks \/ (pc[r] = "begin" /\ op[r] = "prompt")
               \/ (portal.at = "publish" /\ portal.run = r)
TodoInv == \A r \in Runs :
    /\ todo[r] # 0 <=> Writes(r)
    /\ pc[r] \in {"promptEcho", "echo"} => answers[todo[r]] = 1
    /\ pc[r] \in Between => phase[r] = "idle"

\* A message not yet written is in one place.
Owns(r, m) == (todo[r] = m /\ pc[r] \notin {"promptEcho", "echo"}) \/ m \in Elements(steer[r])

OnceInv ==
    /\ \A r, q \in Runs, m \in Messages : Owns(r, m) /\ Owns(q, m) => r = q
    /\ \A r \in Runs, m \in Messages : Owns(r, m) =>
         answers[m] = 0 /\ m <= sent /\ ~(InLoop /\ portal.msg = m)
    /\ \A m \in Messages : (InLoop /\ portal.msg = m) \/ m > sent => answers[m] = 0
    /\ \A r \in Runs : /\ \A i, j \in DOMAIN steer[r] : i # j => steer[r][i] # steer[r][j]
                       /\ pc[r] \notin {"promptEcho", "echo"} => todo[r] \notin Elements(steer[r])

\* The list of a run is what it is to write, what was steered into it, and the
\* message it is being offered.
Queue(r) == IF todo[r] = 0 THEN steer[r] ELSE <<todo[r]>> \o steer[r]
Offered(r, s) == IF portal.run = r /\ portal.at \in {"steer", "retract"} THEN Append(s, portal.msg)
                 ELSE s

ListInv ==
    /\ abort.at # "idle" \/ portal.at = "abort" => abort.count > 0
    /\ abort.inLoop => portal.at = "abort"
    /\ abort.count = 0 =>
         /\ \A r \in Runs : ~cancelled[r] /\ (pc[r] \notin Over => pending[r] = Offered(r, Queue(r)))
         /\ \A m \in Messages : echo[m] \in {0, m}
    /\ \A r \in Runs : pc[r] \in Over => pending[r] = <<>> \/ pending[r] = Offered(r, <<>>)

IInv == TypeInv /\ BirthInv /\ TodoInv /\ OnceInv /\ ListInv

\* What an abort waits for is the number of a run of the harness it aborts.
AbortInv == /\ runID \in [Runs -> Nat]
            /\ abort.at \in {"clear", "cancel", "look"} => abort.run > 0

RoomInv == IInv /\ AbortInv

-----------------------------------------------------------------------------
(* Sequences and the bounds. *)

LEMMA Bounds ==
  /\ MaxMsgs \in Nat /\ Messages = 1 .. MaxMsgs /\ Runs = 1 .. MaxMsgs
  /\ 0 \notin Messages /\ 0 \notin Runs
BY RoomAssumption DEF RoomAssumption, Messages, Runs

LEMMA Prepended ==
  ASSUME NEW S, NEW s \in Seq(S), NEW t \in S
  PROVE  /\ <<t>> \o s \in Seq(S) /\ <<t>> \o s # <<>>
         /\ Head(<<t>> \o s) = t /\ Tail(<<t>> \o s) = s
<1>1. <<t>> \o s \in Seq(S) /\ Len(<<t>> \o s) = 1 + Len(s) /\ (<<t>> \o s)[1] = t  OBVIOUS
<1>2. \A i \in 1 .. Len(s) : (<<t>> \o s)[i + 1] = s[i]  OBVIOUS
<1>3. Tail(<<t>> \o s) \in Seq(S) /\ Len(Tail(<<t>> \o s)) = Len(s)  BY <1>1
<1>4. \A i \in 1 .. Len(s) : Tail(<<t>> \o s)[i] = s[i]  BY <1>1, <1>2
<1>5. Tail(<<t>> \o s) = s  BY <1>3, <1>4, SeqEqual
<1> QED  BY <1>1, <1>5

LEMMA PrependedAppended ==
  ASSUME NEW S, NEW s \in Seq(S), NEW t \in S, NEW m \in S
  PROVE  Append(<<t>> \o s, m) = <<t>> \o Append(s, m)
<1> DEFINE a == Append(<<t>> \o s, m)
           b == <<t>> \o Append(s, m)
<1>1. /\ a \in Seq(S) /\ b \in Seq(S) /\ Len(a) = Len(s) + 2 /\ Len(b) = Len(s) + 2
      /\ Len(s) \in Nat
    OBVIOUS
<1>2. ASSUME NEW i \in 1 .. Len(a)  PROVE a[i] = b[i]
  <2>1. CASE i = 1  BY <2>1
  <2>2. CASE i = Len(s) + 2  BY <2>2
  <2>3. CASE i \in 2 .. Len(s) + 1  BY <2>3
  <2> QED  BY <1>1, <2>1, <2>2, <2>3
<1> QED  BY <1>1, <1>2, SeqEqual

LEMMA HeadAndTail ==
  ASSUME NEW S, NEW s \in Seq(S), s # <<>>
  PROVE  Head(s) \in S /\ Tail(s) \in Seq(S) /\ <<Head(s)>> \o Tail(s) = s
<1>1. Head(s) \in S /\ Tail(s) \in Seq(S) /\ Len(Tail(s)) = Len(s) - 1 /\ Len(s) \in Nat \ {0}
    OBVIOUS
<1> DEFINE a == <<Head(s)>> \o Tail(s)
<1>2. a \in Seq(S) /\ Len(a) = Len(s)  BY <1>1
<1>3. \A i \in 1 .. Len(s) : a[i] = s[i]  BY <1>1
<1> QED  BY <1>1, <1>2, <1>3, SeqEqual

LEMMA AppendedElements ==
  ASSUME NEW S, NEW s \in Seq(S), NEW m \in S
  PROVE  /\ Append(s, m) \in Seq(S) /\ Elements(Append(s, m)) = Elements(s) \union {m}
         /\ DOMAIN Append(s, m) = 1 .. (Len(s) + 1) /\ DOMAIN s = 1 .. Len(s) /\ Len(s) \in Nat
         /\ \A i \in 1 .. Len(s) : Append(s, m)[i] = s[i]
         /\ Append(s, m)[Len(s) + 1] = m
<1>1. /\ Append(s, m) \in Seq(S)
      /\ DOMAIN Append(s, m) = 1 .. (Len(s) + 1) /\ DOMAIN s = 1 .. Len(s) /\ Len(s) \in Nat
      /\ \A i \in 1 .. Len(s) : Append(s, m)[i] = s[i]
      /\ Append(s, m)[Len(s) + 1] = m
    OBVIOUS
<1>2. Elements(Append(s, m)) \subseteq Elements(s) \union {m}  BY <1>1 DEF Elements
<1>3. Elements(s) \subseteq Elements(Append(s, m))  BY <1>1 DEF Elements
<1>4. m \in Elements(Append(s, m))  BY <1>1 DEF Elements
<1> QED  BY <1>1, <1>2, <1>3, <1>4

LEMMA TailsElements ==
  ASSUME NEW S, NEW s \in Seq(S), s # <<>>, \A i, j \in DOMAIN s : i # j => s[i] # s[j]
  PROVE  /\ Elements(Tail(s)) \subseteq Elements(s)
         /\ Head(s) \in Elements(s) /\ Head(s) \notin Elements(Tail(s))
         /\ \A i, j \in DOMAIN Tail(s) : i # j => Tail(s)[i] # Tail(s)[j]
<1>1. /\ DOMAIN s = 1 .. Len(s) /\ Len(s) \in Nat \ {0} /\ DOMAIN Tail(s) = 1 .. (Len(s) - 1)
      /\ \A i \in 1 .. (Len(s) - 1) : Tail(s)[i] = s[i + 1]
      /\ Head(s) = s[1]
    OBVIOUS
<1>2. \A i \in DOMAIN Tail(s) : i + 1 \in DOMAIN s /\ i + 1 # 1 /\ i \in Nat  BY <1>1
<1> QED  BY <1>1, <1>2 DEF Elements

\* removePending takes the message that was appended last and is there once.
LEMMA WithoutTheLast ==
  ASSUME NEW S, NEW s \in Seq(S), NEW m \in S, m \notin Elements(s)
  PROVE  Without(Append(s, m), m) = s
<1> DEFINE a == Append(s, m)
           P(i) == a[i] = m /\ \A j \in 1 .. (i - 1) : a[j] # m
           first == CHOOSE i \in DOMAIN a : P(i)
<1>1. /\ a \in Seq(S) /\ DOMAIN a = 1 .. (Len(s) + 1) /\ Len(s) \in Nat /\ Len(a) = Len(s) + 1
      /\ \A i \in 1 .. Len(s) : a[i] = s[i]
      /\ a[Len(s) + 1] = m
    OBVIOUS
<1>2. \A i \in 1 .. Len(s) : s[i] # m  BY DEF Elements
<1> HIDE DEF a
<1>3. P(Len(s) + 1) /\ Len(s) + 1 \in DOMAIN a  BY <1>1, <1>2
<1>4. \A i \in DOMAIN a : P(i) => i = Len(s) + 1  BY <1>1, <1>2
<1> HIDE DEF P
<1>5. first = Len(s) + 1  BY <1>3, <1>4, Zenon
<1>6. m \in Elements(a)  BY <1>1 DEF Elements
<1>7. Without(a, m) = SubSeq(a, 1, first - 1) \o SubSeq(a, first + 1, Len(a))
    BY <1>6 DEF Without, P
<1> HIDE DEF first
<1>8. Without(a, m) = SubSeq(a, 1, Len(s)) \o SubSeq(a, Len(s) + 2, Len(s) + 1)
  <2>1. first - 1 = Len(s) /\ first + 1 = Len(s) + 2  BY <1>1, <1>5
  <2> QED  BY <1>1, <1>7, <2>1
<1>9. SubSeq(a, 1, Len(s)) = s
  <2>1. SubSeq(a, 1, Len(s)) \in Seq(S) /\ Len(SubSeq(a, 1, Len(s))) = Len(s)  BY <1>1
  <2>2. \A i \in 1 .. Len(s) : SubSeq(a, 1, Len(s))[i] = s[i]  BY <1>1
  <2> QED  BY <2>1, <2>2, SeqEqual
<1>10. SubSeq(a, Len(s) + 2, Len(s) + 1) = <<>>  BY <1>1
<1>11. s \o <<>> = s
  <2>1. s \o <<>> \in Seq(S) /\ Len(s \o <<>>) = Len(s)  OBVIOUS
  <2>2. \A i \in 1 .. Len(s) : (s \o <<>>)[i] = s[i]  OBVIOUS
  <2> QED  BY <2>1, <2>2, SeqEqual
<1> QED  BY <1>8, <1>9, <1>10, <1>11 DEF a

LEMMA WithoutOfNothing ==
  ASSUME NEW m  PROVE Without(<<>>, m) = <<>>
<1>1. Elements(<<>>) = {}  BY DEF Elements
<1> QED  BY <1>1 DEF Without

LEMMA Singles ==
  ASSUME NEW S, NEW m \in S
  PROVE  /\ Append(<<>>, m) = <<m>> /\ <<m>> \o <<>> = <<m>> /\ Elements(<<>>) = {}
         /\ <<m>> \in Seq(S) /\ <<>> \in Seq(S) /\ <<m>> # <<>> /\ DOMAIN <<>> = {}
<1>1. /\ Append(<<>>, m) \in Seq(S) /\ <<m>> \o <<>> \in Seq(S) /\ <<m>> \in Seq(S)
      /\ Len(Append(<<>>, m)) = 1 /\ Len(<<m>> \o <<>>) = 1 /\ Len(<<m>>) = 1
      /\ Append(<<>>, m)[1] = m /\ (<<m>> \o <<>>)[1] = m /\ <<m>>[1] = m
    OBVIOUS
<1>2. \A s, t \in Seq(S) : Len(s) = 1 /\ Len(t) = 1 /\ s[1] = t[1] => s = t  BY SeqEqual
<1> QED  BY <1>1, <1>2 DEF Elements

LEMMA LoopsMessage ==
  ASSUME TypeInv, BirthInv, InLoop
  PROVE  /\ portal.msg \in Messages /\ portal.msg # 0 /\ born + 1 \in Runs /\ ~(born + 1 <= born)
         /\ portal.msg = sent
         /\ portal.at \in {"add", "steer", "retract", "forget"} =>
              portal.run \in Runs /\ portal.run <= born /\ portal.run # 0
<1>1. /\ portal.msg = sent /\ sent > 0 /\ born < sent
      /\ portal.at \in {"add", "steer", "retract", "forget"} => portal.run \in 1 .. born
    BY DEF BirthInv
<1>2. sent \in 0 .. MaxMsgs /\ born \in 0 .. MaxMsgs  BY DEF TypeInv
<1>3. portal.msg \in Messages  BY <1>1, <1>2, Bounds
<1>4. born + 1 \in Runs /\ ~(born + 1 <= born)  BY <1>1, <1>2, Bounds
<1>5. portal.at \in {"add", "steer", "retract", "forget"} => portal.run \in Runs /\ portal.run <= born
    BY <1>1, <1>2, Bounds
<1> QED  BY <1>1, <1>3, <1>4, <1>5, Bounds

\* A set of numbers that is not empty has a least one.
LEMMA LeastIsThere ==
  ASSUME NEW T, T \subseteq Nat, T # {}
  PROVE  \E i \in T : \A j \in T : i <= j
<1> DEFINE R == OpToRel(<, Nat)
<1>1. IsWellFoundedOn(R, Nat)  BY NatLessThanWellFounded
<1>2. PICK i \in T : \A j \in T : ~(<<j, i>> \in R)
  <2> HIDE DEF R
  <2> QED  BY <1>1, WFMin
<1>3. \A j \in T : ~(j < i)  BY <1>2 DEF OpToRel
<1> QED  BY <1>3

LEMMA PrependedElements ==
  ASSUME NEW S, NEW s \in Seq(S), NEW t \in S
  PROVE  /\ <<t>> \o s \in Seq(S)
         /\ Elements(<<t>> \o s) \subseteq Elements(s) \union {t}
<1>1. /\ <<t>> \o s \in Seq(S) /\ DOMAIN (<<t>> \o s) = 1 .. (Len(s) + 1) /\ Len(s) \in Nat
      /\ DOMAIN s = 1 .. Len(s) /\ (<<t>> \o s)[1] = t
    OBVIOUS
<1>2. \A i \in 2 .. (Len(s) + 1) : (<<t>> \o s)[i] = s[i - 1]  OBVIOUS
<1>3. \A i \in 2 .. (Len(s) + 1) : i - 1 \in DOMAIN s  BY <1>1
<1> QED  BY <1>1, <1>2, <1>3 DEF Elements

LEMMA WithoutIsASequence ==
  ASSUME NEW S, NEW s \in Seq(S), NEW m
  PROVE  Without(s, m) \in Seq(S)
<1> DEFINE P(i) == s[i] = m /\ \A j \in 1 .. (i - 1) : s[j] # m
           first == CHOOSE i \in DOMAIN s : P(i)
<1>1. CASE m \notin Elements(s)  BY <1>1 DEF Without
<1>2. CASE m \in Elements(s)
  <2>1. DOMAIN s = 1 .. Len(s) /\ Len(s) \in Nat  OBVIOUS
  <2>2. PICK i \in DOMAIN s : P(i)
    <3> DEFINE T == {i \in DOMAIN s : s[i] = m}
    <3>1. PICK k \in T : TRUE  BY <1>2 DEF Elements
    <3>2. T \subseteq Nat  BY <2>1
    <3>3. \E i \in T : \A j \in T : i <= j  BY <3>1, <3>2, LeastIsThere
    <3>4. PICK i \in T : \A j \in T : i <= j  BY <3>3
    <3>5. ASSUME NEW j \in 1 .. (i - 1)  PROVE s[j] # m
      <4>1. i \in 1 .. Len(s) /\ j \in DOMAIN s /\ ~(i <= j)  BY <2>1, <3>4, <3>5
      <4> QED  BY <3>4, <4>1
    <3>6. i \in DOMAIN s /\ s[i] = m  BY <3>4
    <3> QED  BY <3>5, <3>6
  <2> HIDE DEF P
  <2>3. first \in DOMAIN s  BY <2>2
  <2>4. Without(s, m) = SubSeq(s, 1, first - 1) \o SubSeq(s, first + 1, Len(s))
      BY <1>2 DEF Without, P
  <2> HIDE DEF first
  <2>5. SubSeq(s, 1, first - 1) \in Seq(S) /\ SubSeq(s, first + 1, Len(s)) \in Seq(S)
      BY <2>1, <2>3
  <2> QED  BY <2>4, <2>5
<1> QED  BY <1>1, <1>2

-----------------------------------------------------------------------------
(* The steps of a run that move no message. *)

LEMMA RunMoves ==
  ASSUME IInv, NEW r \in Runs, NEW next \in Places \ {"none", "promptEcho", "echo"},
         pc[r] \notin {"none", "promptEcho", "echo"}, pc' = [pc EXCEPT ![r] = next],
         pc[r] \in Over <=> next \in Over,
         UNCHANGED <<portal, sent, born, steer, todo, pending, echo, answers, abort>>,
         activeRun' \in {activeRun, 0}, activeHarness' \in {activeHarness, 0},
         op' \in [Runs -> {"prompt", "compact", "continue"}],
         phase' \in [Runs -> {"idle", "turn", "compaction"}],
         cancelled' \in [Runs -> BOOLEAN],
         \A q \in Runs : q # r => op'[q] = op[q] /\ phase'[q] = phase[q],
         \A q \in Runs : cancelled'[q] => cancelled[q],
         next \in Between => phase'[r] = "idle",
         (next \in Asks \/ (next = "begin" /\ op'[r] = "prompt"))
           <=> (pc[r] \in Asks \/ (pc[r] = "begin" /\ op[r] = "prompt"))
  PROVE  IInv'
<1>1. TypeInv /\ BirthInv /\ TodoInv /\ OnceInv /\ ListInv  BY DEF IInv
<1>2. /\ pc'[r] = next /\ pc' \in [Runs -> Places]
      /\ \A q \in Runs : q # r => pc'[q] = pc[q]
    BY <1>1 DEF TypeInv
<1>a. activeRun' \in 0 .. born /\ activeHarness' \in 0 .. born /\ born \in 0 .. MaxMsgs
  <2>1. born \in 0 .. MaxMsgs /\ activeRun \in 0 .. MaxMsgs /\ activeHarness \in 0 .. MaxMsgs
      BY <1>1 DEF TypeInv
  <2>2. activeRun <= born /\ activeHarness <= born  BY <1>1 DEF BirthInv
  <2> QED  BY <2>1, <2>2, Bounds
<1>b. activeRun' \in 0 .. MaxMsgs /\ activeHarness' \in 0 .. MaxMsgs  BY <1>a, Bounds
<1>3. TypeInv'  BY <1>1, <1>2, <1>b DEF TypeInv
<1>4. BirthInv'
  <2>1. ~(r > born)  BY <1>1 DEF BirthInv
  <2>2. portal.at = "publish" => portal.run # r  BY <1>1 DEF BirthInv
  <2>3. activeRun' <= born /\ activeHarness' <= born  BY <1>a, Bounds
  <2>4. portal.at = "publish" => pc'[portal.run] = "none"
      BY <1>1, <1>2, <2>2, Bounds DEF BirthInv, TypeInv
  <2> QED  BY <1>1, <1>2, <2>1, <2>3, <2>4 DEF BirthInv, InLoop
<1>5. TodoInv'
  <2>1. SUFFICES ASSUME NEW q \in Runs
                 PROVE  /\ todo[q] # 0 <=> Writes(q)'
                        /\ pc'[q] \in {"promptEcho", "echo"} => answers[todo[q]] = 1
                        /\ pc'[q] \in Between => phase'[q] = "idle"
      BY DEF TodoInv
  <2>2. Writes(q)' <=> Writes(q)
    <3>1. CASE q = r  BY <1>2, <3>1 DEF Writes
    <3>2. CASE q # r  BY <1>2, <3>2 DEF Writes
    <3> QED  BY <3>1, <3>2
  <2> QED  BY <1>1, <1>2, <2>2 DEF TodoInv
<1>6. OnceInv'
  <2>1. \A q \in Runs, m \in Messages : Owns(q, m)' <=> Owns(q, m)  BY <1>2 DEF Owns
  <2>2. InLoop' <=> InLoop  BY DEF InLoop
  <2> QED  BY <1>1, <1>2, <2>1, <2>2 DEF OnceInv
<1>7. ListInv'
  <2>1. \A q \in Runs : pc'[q] \in Over <=> pc[q] \in Over  BY <1>2
  <2>2. \A q \in Runs : Queue(q)' = Queue(q)  BY DEF Queue
  <2>3. SUFFICES ASSUME NEW q \in Runs
                 PROVE  /\ abort.count = 0 => ~cancelled'[q]
                             /\ (pc'[q] \notin Over => pending[q] = Offered(q, Queue(q)'))
                        /\ pc'[q] \in Over => pending[q] = <<>> \/ pending[q] = Offered(q, <<>>)
      BY <1>1, Zenon DEF ListInv, Offered
  <2> QED  BY <1>1, <2>1, <2>2 DEF ListInv
<1> QED  BY <1>3, <1>4, <1>5, <1>6, <1>7 DEF IInv

LEMMA QuietSteps ==
  ASSUME IInv, NEW r \in Runs,
         \/ EnterHarness(r) \/ StartRun(r) \/ Respond(r) \/ RespondBlocked(r) \/ CompactEnds(r)
         \/ SetIdle(r) \/ FinishRun(r) \/ AfterCall(r) \/ FailConsumed(r) \/ ClearRun(r)
         \/ ClearHarness(r)
  PROVE  IInv'
<1>1. /\ op \in [Runs -> {"prompt", "compact", "continue"}]
      /\ phase \in [Runs -> {"idle", "turn", "compaction"}]
      /\ cancelled \in [Runs -> BOOLEAN]
      /\ pc[r] \in Between => phase[r] = "idle"
    BY DEF IInv, TypeInv, TodoInv
<1>2. CASE EnterHarness(r)
  <2>1. /\ pc[r] \in {"spawned", "compact", "continue"} /\ pc' = [pc EXCEPT ![r] = "begin"]
        /\ op' = [op EXCEPT ![r] = IF pc[r] = "spawned" THEN "prompt" ELSE pc[r]]
        /\ phase' = [phase EXCEPT ![r] = IF pc[r] = "compact" THEN "compaction" ELSE "turn"]
        /\ UNCHANGED <<portal, sent, activeRun, activeHarness, born, steer, todo, pending, echo,
                       answers, abort, cancelled>>
      BY <1>2 DEF EnterHarness, Goto, portalVars, listVars, statusVars
  <2>2. /\ op' \in [Runs -> {"prompt", "compact", "continue"}]
        /\ phase' \in [Runs -> {"idle", "turn", "compaction"}]
        /\ op'[r] = "prompt" <=> pc[r] = "spawned"
      BY <1>1, <2>1
  <2> QED  BY <1>1, <2>1, <2>2, RunMoves DEF Places, Over, Between, Asks
<1>3. CASE StartRun(r)
  <2>1. PICK next \in {"prompt", "drainMore", "compacting"} :
          pc' = [pc EXCEPT ![r] = next] /\ (next = "prompt" <=> op[r] = "prompt")
      BY <1>1, <1>3 DEF StartRun, Goto
  <2>2. /\ pc[r] = "begin" /\ cancelled' = [cancelled EXCEPT ![r] = FALSE]
        /\ UNCHANGED <<portal, sent, activeRun, activeHarness, born, steer, todo, pending, echo,
                       answers, abort, op, phase>>
      BY <1>3 DEF StartRun, portalVars, callVars, listVars, statusVars
  <2> QED  BY <1>1, <2>1, <2>2, RunMoves DEF Places, Over, Between, Asks
<1>4. ASSUME NEW next \in {"drainMore", "drainLast", "settle"}, pc' = [pc EXCEPT ![r] = next],
             pc[r] \in {"request", "compacting"},
             UNCHANGED <<portalVars, op, harnessVars, listVars, statusVars, abort>>
      PROVE  IInv'
  <2>1. UNCHANGED <<portal, sent, activeRun, activeHarness, born, steer, todo, pending, echo,
                    answers, abort, op, phase, cancelled>>
      BY <1>4 DEF portalVars, harnessVars, listVars, statusVars
  <2> QED  BY <1>1, <1>4, <2>1, RunMoves DEF Places, Over, Between, Asks
<1>5. CASE Respond(r)  BY <1>4, <1>5 DEF Respond, Goto, Ends
<1>6. CASE RespondBlocked(r)  BY <1>4, <1>6 DEF RespondBlocked, Goto, Ends
<1>7. CASE CompactEnds(r)  BY <1>4, <1>7 DEF CompactEnds, Goto
<1>8. CASE SetIdle(r)
  <2>1. /\ pc[r] = "settle" /\ pc' = [pc EXCEPT ![r] = "close"]
        /\ phase' = [phase EXCEPT ![r] = "idle"]
        /\ UNCHANGED <<portal, sent, activeRun, activeHarness, born, steer, todo, pending, echo,
                       answers, abort, op, cancelled>>
      BY <1>8 DEF SetIdle, Goto, portalVars, callVars, listVars, statusVars
  <2> QED  BY <1>1, <2>1, RunMoves DEF Places, Over, Between, Asks
<1>9. ASSUME NEW next \in {"returned", "fail", "end", "compact", "continue"},
             pc' = [pc EXCEPT ![r] = next], pc[r] \in {"close", "returned", "fail"},
             UNCHANGED <<portalVars, op, phase, steer, todo, cancelled, pending, echo, answers, abort>>
      PROVE  IInv'
  <2>1. UNCHANGED <<portal, sent, activeRun, activeHarness, born, steer, todo, pending, echo,
                    answers, abort, op, phase, cancelled>>
      BY <1>9 DEF portalVars
  <2> QED  BY <1>1, <1>9, <2>1, RunMoves DEF Places, Over, Between, Asks
<1>10. CASE FinishRun(r)  BY <1>9, <1>10 DEF FinishRun, Goto, callVars, listVars, statusVars
<1>11. CASE AfterCall(r)  BY <1>9, <1>11 DEF AfterCall, Goto, harnessVars, listVars, statusVars
<1>12. CASE FailConsumed(r)  BY <1>9, <1>12 DEF FailConsumed, Goto, callVars, harnessVars
<1>13. CASE ClearRun(r)
  <2>1. /\ pc[r] = "clearRun" /\ pc' = [pc EXCEPT ![r] = "clearHarness"]
        /\ activeRun' \in {activeRun, 0}
        /\ UNCHANGED <<portal, sent, activeHarness, born, steer, todo, pending, echo, answers,
                       abort, op, phase, cancelled>>
      BY <1>13 DEF ClearRun, Goto, callVars, harnessVars, listVars, statusVars
  <2> QED  BY <1>1, <2>1, RunMoves DEF Places, Over, Between, Asks
<1>14. CASE ClearHarness(r)
  <2>1. /\ pc[r] = "clearHarness" /\ pc' = [pc EXCEPT ![r] = "dead"]
        /\ activeHarness' \in {activeHarness, 0}
        /\ UNCHANGED <<portal, sent, activeRun, born, steer, todo, pending, echo, answers,
                       abort, op, phase, cancelled>>
      BY <1>14 DEF ClearHarness, Goto, callVars, harnessVars, listVars, statusVars
  <2> QED  BY <1>1, <2>1, RunMoves DEF Places, Over, Between, Asks
<1> QED  BY <1>2, <1>3, <1>5, <1>6, <1>7, <1>8, <1>10, <1>11, <1>12, <1>13, <1>14

-----------------------------------------------------------------------------
(* The steps of a run that move messages. *)

LEMMA WriteStep ==
  ASSUME IInv, NEW r \in Runs, Write(r)
  PROVE  IInv'
<1>1. TypeInv /\ BirthInv /\ TodoInv /\ OnceInv /\ ListInv  BY DEF IInv
<1>2. PICK next \in {"promptEcho", "echo"} : pc' = [pc EXCEPT ![r] = next]
    BY DEF Write, Goto
<1>3. /\ pc[r] \in {"prompt", "deliver"}
      /\ answers' = [answers EXCEPT ![todo[r]] = @ + 1]
      /\ UNCHANGED <<portal, sent, activeRun, activeHarness, born, steer, todo, pending, echo,
                     abort, op, phase, cancelled>>
    BY DEF Write, portalVars, callVars, harnessVars, listVars
<1>4. pc'[r] = next /\ pc' \in [Runs -> Places] /\ \A q \in Runs : q # r => pc'[q] = pc[q]
    BY <1>1, <1>2 DEF TypeInv, Places
<1>5. todo[r] \in Messages
  <2>1. todo[r] \in 0 .. MaxMsgs  BY <1>1 DEF TypeInv
  <2>2. todo[r] # 0  BY <1>1, <1>3 DEF TodoInv, Writes, Asks
  <2> QED  BY <2>1, <2>2, Bounds
<1>6. Owns(r, todo[r])  BY <1>3 DEF Owns
<1>7. /\ answers[todo[r]] = 0 /\ answers'[todo[r]] = 1
      /\ answers' \in [Messages -> {0, 1}]
      /\ \A m \in Messages : m # todo[r] => answers'[m] = answers[m]
  <2>1. answers \in [Messages -> {0, 1}]  BY <1>1 DEF TypeInv
  <2>2. answers[todo[r]] = 0  BY <1>1, <1>5, <1>6 DEF OnceInv
  <2>3. answers' = [answers EXCEPT ![todo[r]] = 1]  BY <1>3, <2>2
  <2> QED  BY <1>5, <2>1, <2>2, <2>3
<1>8. TypeInv'  BY <1>1, <1>3, <1>4, <1>7 DEF TypeInv
<1>9. BirthInv'
  <2>1. ~(r > born)  BY <1>1, <1>3 DEF BirthInv
  <2>2. portal.at = "publish" => portal.run # r  BY <1>1, <1>3 DEF BirthInv
  <2>3. portal.at = "publish" => pc'[portal.run] = "none"
      BY <1>1, <1>4, <2>2, Bounds DEF BirthInv, TypeInv
  <2> QED  BY <1>1, <1>3, <1>4, <2>1, <2>3 DEF BirthInv, InLoop
<1>10. TodoInv'
  <2>1. SUFFICES ASSUME NEW q \in Runs
                 PROVE  /\ todo[q] # 0 <=> Writes(q)'
                        /\ pc'[q] \in {"promptEcho", "echo"} => answers'[todo[q]] = 1
                        /\ pc'[q] \in Between => phase[q] = "idle"
      BY <1>3 DEF TodoInv
  <2>2. CASE q = r
      BY <1>1, <1>3, <1>4, <1>7, <2>2 DEF TodoInv, Writes, Asks, Between, Over
  <2>3. CASE q # r
    <3>1. Writes(q)' <=> Writes(q)  BY <1>3, <1>4, <2>3 DEF Writes
    <3>2. pc[q] \in {"promptEcho", "echo"} => todo[q] \in Messages
      <4>1. todo[q] \in 0 .. MaxMsgs  BY <1>1 DEF TypeInv
      <4>2. pc[q] \in {"promptEcho", "echo"} => todo[q] # 0  BY <1>1 DEF TodoInv, Writes, Asks
      <4> QED  BY <4>1, <4>2, Bounds
    <3> QED  BY <1>1, <1>4, <1>7, <2>3, <3>1, <3>2 DEF TodoInv
  <2> QED  BY <2>2, <2>3
<1>11. OnceInv'
  <2>1. \A q \in Runs, m \in Messages : Owns(q, m)' => Owns(q, m) /\ m # todo[r]
    <3>1. TAKE q \in Runs, m \in Messages
    <3>2. Owns(q, m)' => Owns(q, m)  BY <1>2, <1>3, <1>4 DEF Owns
    <3>3. m = todo[r] => ~Owns(r, m)'  BY <1>1, <1>3, <1>4 DEF Owns, OnceInv
    <3>4. Owns(q, m) /\ m = todo[r] => q = r  BY <1>1, <1>6 DEF OnceInv
    <3> QED  BY <3>2, <3>3, <3>4
  <2>2. InLoop' <=> InLoop  BY <1>3 DEF InLoop
  <2>3. ~((InLoop /\ portal.msg = todo[r]) \/ todo[r] > sent)
    <3>1. todo[r] <= sent /\ ~(InLoop /\ portal.msg = todo[r])  BY <1>1, <1>5, <1>6 DEF OnceInv
    <3> QED  BY <1>1, <1>5, <3>1, Bounds DEF TypeInv
  <2> QED  BY <1>1, <1>3, <1>4, <1>7, <2>1, <2>2, <2>3 DEF OnceInv
<1>12. ListInv'
  <2>1. \A q \in Runs : pc'[q] \in Over <=> pc[q] \in Over  BY <1>3, <1>4 DEF Over
  <2>2. \A q \in Runs : Queue(q)' = Queue(q)  BY <1>3 DEF Queue
  <2>3. SUFFICES ASSUME NEW q \in Runs
                 PROVE  /\ abort.count = 0 => ~cancelled[q]
                             /\ (pc'[q] \notin Over => pending[q] = Offered(q, Queue(q)'))
                        /\ pc'[q] \in Over => pending[q] = <<>> \/ pending[q] = Offered(q, <<>>)
      BY <1>1, <1>3, Zenon DEF ListInv, Offered
  <2> QED  BY <1>1, <2>1, <2>2 DEF ListInv
<1> QED  BY <1>8, <1>9, <1>10, <1>11, <1>12 DEF IInv

\* A step that moves messages of run r alone, and the run with them.
LEMMA BirthStays ==
  ASSUME TypeInv, BirthInv, NEW r \in Runs, pc[r] # "none",
         pc' \in [Runs -> Places], \A q \in Runs \ {r} : pc'[q] = pc[q],
         \A q \in Runs \ {r} : steer'[q] = steer[q] /\ pending'[q] = pending[q] /\ todo'[q] = todo[q],
         UNCHANGED <<portal, sent, born, activeRun, activeHarness, abort, phase>>
  PROVE  BirthInv'
<1>1. ~(r > born)  BY DEF BirthInv
<1>2. portal.at = "publish" => portal.run # r /\ portal.run \in Runs
    BY Bounds DEF BirthInv, TypeInv
<1>3. portal.at = "publish" => pc'[portal.run] = "none"  BY <1>2 DEF BirthInv
<1> QED  BY <1>1, <1>3 DEF BirthInv, InLoop

LEMMA MarkConsumedStep ==
  ASSUME IInv, NEW r \in Runs, MarkConsumed(r)
  PROVE  IInv'
<1>1. TypeInv /\ BirthInv /\ TodoInv /\ OnceInv /\ ListInv  BY DEF IInv
<1>2. PICK next \in {"drainMore", "request"} : pc' = [pc EXCEPT ![r] = next]
    BY DEF MarkConsumed, Goto
<1>3. /\ pc[r] \in {"promptEcho", "echo"} /\ todo' = [todo EXCEPT ![r] = 0]
      /\ UNCHANGED <<portal, sent, activeRun, activeHarness, born, steer, answers,
                     abort, op, phase, cancelled>>
    BY DEF MarkConsumed, portalVars, callVars
<1>4. pc'[r] = next /\ pc' \in [Runs -> Places] /\ \A q \in Runs : q # r => pc'[q] = pc[q]
    BY <1>1, <1>2 DEF TypeInv, Places
<1>5. todo[r] \in Messages /\ todo'[r] = 0 /\ \A q \in Runs : q # r => todo'[q] = todo[q]
  <2>1. todo \in [Runs -> 0 .. MaxMsgs]  BY <1>1 DEF TypeInv
  <2>2. todo[r] # 0  BY <1>1, <1>3 DEF TodoInv, Writes, Asks
  <2> QED  BY <1>3, <2>1, <2>2, Bounds
<1>6. /\ pending' \in [Runs -> Seq(Messages)] /\ echo' \in [Messages -> 0 .. MaxMsgs]
      /\ \A q \in Runs : q # r => pending'[q] = pending[q]
      /\ \/ pending[r] = <<>> /\ UNCHANGED <<pending, echo>>
         \/ /\ pending[r] # <<>> /\ pending'[r] = Tail(pending[r]) /\ Head(pending[r]) \in Messages
            /\ echo' = [echo EXCEPT ![Head(pending[r])] = todo[r]]
  <2>1. pending \in [Runs -> Seq(Messages)] /\ echo \in [Messages -> 0 .. MaxMsgs]  BY <1>1 DEF TypeInv
  <2>2. CASE pending[r] = <<>>  BY <2>1, <2>2 DEF MarkConsumed, listVars
  <2>3. CASE pending[r] # <<>>
    <3>1. /\ pending' = [pending EXCEPT ![r] = Tail(@)]
          /\ echo' = [echo EXCEPT ![Head(pending[r])] = todo[r]]
        BY <2>3 DEF MarkConsumed
    <3>2. Head(pending[r]) \in Messages /\ Tail(pending[r]) \in Seq(Messages)
        BY <2>1, <2>3, HeadAndTail
    <3>3. pending' \in [Runs -> Seq(Messages)] /\ pending'[r] = Tail(pending[r])
          /\ \A q \in Runs : q # r => pending'[q] = pending[q]
        BY <2>1, <3>1, <3>2
    <3>4. todo[r] \in 0 .. MaxMsgs  BY <1>5, Bounds
    <3>5. echo' \in [Messages -> 0 .. MaxMsgs]  BY <2>1, <3>1, <3>2, <3>4
    <3> QED  BY <2>3, <3>1, <3>2, <3>3, <3>5
  <2> QED  BY <2>2, <2>3
<1>7. TypeInv'
  <2>1. todo' \in [Runs -> 0 .. MaxMsgs]  BY <1>1, <1>3, Bounds DEF TypeInv
  <2> QED  BY <1>1, <1>3, <1>4, <1>6, <2>1 DEF TypeInv
<1>8. BirthInv'  BY <1>1, <1>3, <1>4, <1>5, <1>6, BirthStays
<1>9. TodoInv'
  <2>1. SUFFICES ASSUME NEW q \in Runs
                 PROVE  /\ todo'[q] # 0 <=> Writes(q)'
                        /\ pc'[q] \in {"promptEcho", "echo"} => answers[todo'[q]] = 1
                        /\ pc'[q] \in Between => phase[q] = "idle"
      BY <1>3 DEF TodoInv
  <2>2. CASE q = r
    <3>1. ~(portal.at = "publish" /\ portal.run = r)  BY <1>1, <1>3 DEF BirthInv
    <3> QED  BY <1>3, <1>4, <1>5, <2>2, <3>1 DEF Writes, Asks, Between, Over
  <2>3. CASE q # r
    <3>1. Writes(q)' <=> Writes(q)  BY <1>3, <1>4, <2>3 DEF Writes
    <3> QED  BY <1>1, <1>4, <1>5, <2>3, <3>1 DEF TodoInv
  <2> QED  BY <2>2, <2>3
<1>10. OnceInv'
  <2>1. \A q \in Runs, m \in Messages : Owns(q, m)' => Owns(q, m)
    <3>1. TAKE q \in Runs, m \in Messages
    <3>2. CASE q = r  BY <1>3, <1>4, <1>5, <3>2, Bounds DEF Owns
    <3>3. CASE q # r  BY <1>3, <1>4, <1>5, <3>3 DEF Owns
    <3> QED  BY <3>2, <3>3
  <2>2. InLoop' <=> InLoop  BY <1>3 DEF InLoop
  <2>3. todo'[r] \notin Elements(steer[r])
    <3>1. Elements(steer[r]) \subseteq Messages  BY <1>1 DEF TypeInv, Elements
    <3> QED  BY <1>5, <3>1, Bounds
  <2> QED  BY <1>1, <1>3, <1>4, <1>5, <2>1, <2>2, <2>3 DEF OnceInv
<1>11. ListInv'
  <2>1. \A q \in Runs : pc'[q] \in Over <=> pc[q] \in Over  BY <1>3, <1>4 DEF Over
  <2>2. \A q \in Runs : q # r => Queue(q)' = Queue(q)  BY <1>3, <1>5 DEF Queue
  <2>3. Offered(r, Queue(r)) = IF portal.run = r /\ portal.at \in {"steer", "retract"}
                               THEN <<todo[r]>> \o Append(steer[r], portal.msg)
                               ELSE <<todo[r]>> \o steer[r]
    <3>1. steer[r] \in Seq(Messages)  BY <1>1 DEF TypeInv
    <3>2. portal.at \in {"steer", "retract"} => portal.msg \in Messages
        BY <1>1, LoopsMessage DEF InLoop
    <3>3. Queue(r) = <<todo[r]>> \o steer[r]  BY <1>5, Bounds DEF Queue
    <3>4. portal.at \in {"steer", "retract"} =>
            Append(Queue(r), portal.msg) = <<todo[r]>> \o Append(steer[r], portal.msg)
        BY <1>5, <3>1, <3>2, <3>3, PrependedAppended
    <3> QED  BY <3>3, <3>4 DEF Offered
  <2>4. /\ steer[r] \in Seq(Messages)
        /\ portal.at \in {"steer", "retract"} => Append(steer[r], portal.msg) \in Seq(Messages)
    <3>1. steer[r] \in Seq(Messages)  BY <1>1 DEF TypeInv
    <3>2. portal.at \in {"steer", "retract"} => portal.msg \in Messages
        BY <1>1, LoopsMessage DEF InLoop
    <3> QED  BY <3>1, <3>2, AppendedElements
  <2>5. abort.count = 0 =>
          /\ Head(pending[r]) = todo[r] /\ pending[r] # <<>>
          /\ Tail(pending[r]) = Offered(r, steer[r])
    <3>1. SUFFICES ASSUME abort.count = 0
                   PROVE  /\ Head(pending[r]) = todo[r] /\ pending[r] # <<>>
                          /\ Tail(pending[r]) = Offered(r, steer[r])
        OBVIOUS
    <3>2. pending[r] = Offered(r, Queue(r))  BY <1>1, <1>3, <3>1 DEF ListInv, Over
    <3>3. CASE portal.run = r /\ portal.at \in {"steer", "retract"}
      <4>1. pending[r] = <<todo[r]>> \o Append(steer[r], portal.msg)  BY <2>3, <3>2, <3>3
      <4>2. Offered(r, steer[r]) = Append(steer[r], portal.msg)  BY <3>3 DEF Offered
      <4> QED  BY <1>5, <2>4, <3>3, <4>1, <4>2, Prepended
    <3>4. CASE ~(portal.run = r /\ portal.at \in {"steer", "retract"})
      <4>1. pending[r] = <<todo[r]>> \o steer[r]  BY <2>3, <3>2, <3>4
      <4>2. Offered(r, steer[r]) = steer[r]  BY <3>4 DEF Offered
      <4> QED  BY <1>5, <2>4, <4>1, <4>2, Prepended
    <3> QED  BY <3>3, <3>4
  <2>6. Queue(r)' = steer[r]  BY <1>3, <1>5 DEF Queue
  <2>7. abort.count = 0 =>
          /\ pending'[r] = Offered(r, steer[r])
          /\ \A m \in Messages : echo'[m] \in {0, m}
    <3>1. abort.count = 0 => \A m \in Messages : echo[m] \in {0, m}  BY <1>1 DEF ListInv
    <3> QED  BY <1>1, <1>5, <1>6, <2>5, <3>1 DEF TypeInv
  <2>8. \A q \in Runs : /\ abort.count = 0 => ~cancelled[q]
                        /\ abort.count = 0 /\ pc'[q] \notin Over => pending'[q] = Offered(q, Queue(q)')
                        /\ pc'[q] \in Over => pending'[q] = <<>> \/ pending'[q] = Offered(q, <<>>)
    <3>1. TAKE q \in Runs
    <3>2. CASE q = r  BY <1>1, <1>3, <1>4, <2>1, <2>6, <2>7, <3>2 DEF ListInv, Over
    <3>3. CASE q # r  BY <1>1, <1>6, <2>1, <2>2, <3>3 DEF ListInv
    <3> QED  BY <3>2, <3>3
  <2>9. \A q \in Runs : Offered(q, <<>>)' = Offered(q, <<>>)  BY <1>3 DEF Offered
  <2>10. \A q \in Runs : Offered(q, Queue(q))' = Offered(q, Queue(q)')  BY <1>3 DEF Offered
  <2> QED  BY <1>1, <1>3, <2>7, <2>8, <2>9, <2>10, Zenon DEF ListInv
<1> QED  BY <1>7, <1>8, <1>9, <1>10, <1>11 DEF IInv

LEMMA DrainStep ==
  ASSUME IInv, NEW r \in Runs, Drain(r)
  PROVE  IInv'
<1>1. TypeInv /\ BirthInv /\ TodoInv /\ OnceInv /\ ListInv  BY DEF IInv
<1>2. /\ pc[r] \in {"drainMore", "drainLast"}
      /\ UNCHANGED <<portal, sent, activeRun, activeHarness, born, pending, echo, answers,
                     abort, op, phase, cancelled>>
    BY DEF Drain, portalVars, listVars, statusVars
<1>3. CASE steer[r] = <<>>
  <2>1. PICK next \in {"request", "settle"} : pc' = [pc EXCEPT ![r] = next]
      BY <1>3 DEF Drain, Goto, Ends
  <2>2. UNCHANGED <<todo, steer>>  BY <1>3 DEF Drain
  <2>3. op \in [Runs -> {"prompt", "compact", "continue"}]
        /\ phase \in [Runs -> {"idle", "turn", "compaction"}] /\ cancelled \in [Runs -> BOOLEAN]
      BY <1>1 DEF TypeInv
  <2> QED  BY <1>2, <2>1, <2>2, <2>3, RunMoves DEF Places, Over, Between, Asks
<1>4. CASE steer[r] # <<>>
  <2>1. /\ pc' = [pc EXCEPT ![r] = "deliver"] /\ todo' = [todo EXCEPT ![r] = Head(steer[r])]
        /\ steer' = [steer EXCEPT ![r] = Tail(@)]
      BY <1>4 DEF Drain, Goto
  <2>2. /\ steer[r] \in Seq(Messages) /\ Head(steer[r]) \in Messages /\ Tail(steer[r]) \in Seq(Messages)
        /\ <<Head(steer[r])>> \o Tail(steer[r]) = steer[r]
    <3>1. steer[r] \in Seq(Messages)  BY <1>1 DEF TypeInv
    <3> QED  BY <1>4, <3>1, HeadAndTail
  <2>3. /\ pc'[r] = "deliver" /\ pc' \in [Runs -> Places] /\ \A q \in Runs : q # r => pc'[q] = pc[q]
        /\ todo'[r] = Head(steer[r]) /\ \A q \in Runs : q # r => todo'[q] = todo[q]
        /\ steer'[r] = Tail(steer[r]) /\ \A q \in Runs : q # r => steer'[q] = steer[q]
      BY <1>1, <2>1 DEF TypeInv, Places
  <2>4. todo' \in [Runs -> 0 .. MaxMsgs] /\ steer' \in [Runs -> Seq(Messages)]
    <3>1. Head(steer[r]) \in 0 .. MaxMsgs  BY <2>2, Bounds
    <3> QED  BY <1>1, <2>1, <2>2, <3>1 DEF TypeInv
  <2>5. ~(portal.at = "publish" /\ portal.run = r)  BY <1>1, <1>2 DEF BirthInv
  <2>6. TypeInv'  BY <1>1, <1>2, <2>3, <2>4 DEF TypeInv
  <2>7. BirthInv'  BY <1>1, <1>2, <2>3, BirthStays
  <2>8. TodoInv'
    <3>1. SUFFICES ASSUME NEW q \in Runs
                   PROVE  /\ todo'[q] # 0 <=> Writes(q)'
                          /\ pc'[q] \in {"promptEcho", "echo"} => answers[todo'[q]] = 1
                          /\ pc'[q] \in Between => phase[q] = "idle"
        BY <1>2 DEF TodoInv
    <3>2. CASE q = r
        BY <2>2, <2>3, <3>2, Bounds DEF Writes, Asks, Between, Over
    <3>3. CASE q # r
      <4>1. Writes(q)' <=> Writes(q)  BY <1>2, <2>3, <3>3 DEF Writes
      <4> QED  BY <1>1, <2>3, <3>3, <4>1 DEF TodoInv
    <3> QED  BY <3>2, <3>3
  <2>9. OnceInv'
    <3>1. /\ Elements(Tail(steer[r])) \subseteq Elements(steer[r])
          /\ Head(steer[r]) \in Elements(steer[r]) /\ Head(steer[r]) \notin Elements(Tail(steer[r]))
          /\ \A i, j \in DOMAIN Tail(steer[r]) : i # j => Tail(steer[r])[i] # Tail(steer[r])[j]
      <4>1. \A i, j \in DOMAIN steer[r] : i # j => steer[r][i] # steer[r][j]  BY <1>1 DEF OnceInv
      <4> QED  BY <1>4, <2>2, <4>1, TailsElements
    <3>2. \A q \in Runs, m \in Messages : Owns(q, m)' => Owns(q, m)
      <4>1. TAKE q \in Runs, m \in Messages
      <4>2. CASE q = r  BY <2>3, <3>1, <4>2 DEF Owns
      <4>3. CASE q # r  BY <2>3, <4>3 DEF Owns
      <4> QED  BY <4>2, <4>3
    <3>3. InLoop' <=> InLoop  BY <1>2 DEF InLoop
    <3>4. \A q \in Runs : /\ \A i, j \in DOMAIN steer'[q] : i # j => steer'[q][i] # steer'[q][j]
                          /\ pc'[q] \notin {"promptEcho", "echo"} => todo'[q] \notin Elements(steer'[q])
      <4>1. TAKE q \in Runs
      <4>2. CASE q = r
        <5>1. steer'[q] = Tail(steer[r]) /\ todo'[q] = Head(steer[r])  BY <2>3, <4>2
        <5> QED  BY <3>1, <5>1, Zenon
      <4>3. CASE q # r  BY <1>1, <2>3, <4>3 DEF OnceInv
      <4> QED  BY <4>2, <4>3
    <3> QED  BY <1>1, <1>2, <3>2, <3>3, <3>4 DEF OnceInv
  <2>10. ListInv'
    <3>1. \A q \in Runs : pc'[q] \in Over <=> pc[q] \in Over  BY <1>2, <2>3 DEF Over
    <3>2. \A q \in Runs : Queue(q)' = Queue(q)
      <4>1. TAKE q \in Runs
      <4>2. CASE q = r
        <5>1. todo[r] = 0  BY <1>1, <1>2, <2>5 DEF TodoInv, Writes, Asks
        <5>2. Queue(r) = steer[r]  BY <5>1 DEF Queue
        <5>3. Queue(r)' = <<Head(steer[r])>> \o Tail(steer[r])  BY <2>2, <2>3, Bounds DEF Queue
        <5> QED  BY <2>2, <4>2, <5>2, <5>3
      <4>3. CASE q # r  BY <2>3, <4>3 DEF Queue
      <4> QED  BY <4>2, <4>3
    <3>3. SUFFICES ASSUME NEW q \in Runs
                   PROVE  /\ abort.count = 0 => ~cancelled[q]
                               /\ (pc'[q] \notin Over => pending[q] = Offered(q, Queue(q)'))
                          /\ pc'[q] \in Over => pending[q] = <<>> \/ pending[q] = Offered(q, <<>>)
        BY <1>1, <1>2, Zenon DEF ListInv, Offered
    <3> QED  BY <1>1, <3>1, <3>2 DEF ListInv
  <2> QED  BY <2>6, <2>7, <2>8, <2>9, <2>10 DEF IInv
<1> QED  BY <1>3, <1>4

LEMMA CallCutStep ==
  ASSUME IInv, NEW r \in Runs, CallCut(r)
  PROVE  IInv'
<1>1. TypeInv /\ BirthInv /\ TodoInv /\ OnceInv /\ ListInv  BY DEF IInv
<1>2. /\ pc[r] \in {"prompt", "deliver", "drainMore", "drainLast", "request"} /\ cancelled[r]
      /\ pc' = [pc EXCEPT ![r] = "settle"] /\ todo' = [todo EXCEPT ![r] = 0]
      /\ UNCHANGED <<portal, sent, activeRun, activeHarness, born, steer, pending, echo, answers,
                     abort, op, phase, cancelled>>
    BY DEF CallCut, Ends, Goto, portalVars, listVars, statusVars
<1>3. /\ pc'[r] = "settle" /\ pc' \in [Runs -> Places] /\ \A q \in Runs : q # r => pc'[q] = pc[q]
      /\ todo'[r] = 0 /\ \A q \in Runs : q # r => todo'[q] = todo[q]
      /\ todo' \in [Runs -> 0 .. MaxMsgs]
  <2>1. pc \in [Runs -> Places] /\ "settle" \in Places  BY <1>1 DEF TypeInv, Places
  <2>2. todo \in [Runs -> 0 .. MaxMsgs] /\ 0 \in 0 .. MaxMsgs  BY <1>1, Bounds DEF TypeInv
  <2> QED  BY <1>2, <2>1, <2>2
<1>4. abort.count # 0  BY <1>1, <1>2 DEF ListInv
<1>5. TypeInv'  BY <1>1, <1>2, <1>3 DEF TypeInv
<1>6. BirthInv'  BY <1>1, <1>2, <1>3, BirthStays
<1>7. TodoInv'
  <2>1. SUFFICES ASSUME NEW q \in Runs
                 PROVE  /\ todo'[q] # 0 <=> Writes(q)'
                        /\ pc'[q] \in {"promptEcho", "echo"} => answers[todo'[q]] = 1
                        /\ pc'[q] \in Between => phase[q] = "idle"
      BY <1>2 DEF TodoInv
  <2>2. CASE q = r
    <3>1. ~(portal.at = "publish" /\ portal.run = r)  BY <1>1, <1>2 DEF BirthInv
    <3> QED  BY <1>2, <1>3, <2>2, <3>1 DEF Writes, Asks, Between, Over
  <2>3. CASE q # r
    <3>1. Writes(q)' <=> Writes(q)  BY <1>2, <1>3, <2>3 DEF Writes
    <3> QED  BY <1>1, <1>3, <2>3, <3>1 DEF TodoInv
  <2> QED  BY <2>2, <2>3
<1>8. OnceInv'
  <2>1. \A q \in Runs, m \in Messages : Owns(q, m)' => Owns(q, m)
    <3>1. TAKE q \in Runs, m \in Messages
    <3>2. CASE q = r  BY <1>2, <1>3, <3>2, Bounds DEF Owns
    <3>3. CASE q # r  BY <1>2, <1>3, <3>3 DEF Owns
    <3> QED  BY <3>2, <3>3
  <2>2. InLoop' <=> InLoop  BY <1>2 DEF InLoop
  <2>3. 0 \notin Elements(steer[r])
    <3>1. Elements(steer[r]) \subseteq Messages  BY <1>1 DEF TypeInv, Elements
    <3> QED  BY <3>1, Bounds
  <2> QED  BY <1>1, <1>2, <1>3, <2>1, <2>2, <2>3 DEF OnceInv
<1>9. ListInv'
  <2>1. \A q \in Runs : pc'[q] \in Over <=> pc[q] \in Over  BY <1>2, <1>3 DEF Over
  <2>2. \A q \in Runs : Offered(q, <<>>)' = Offered(q, <<>>)  BY <1>2 DEF Offered
  <2> QED  BY <1>1, <1>2, <1>4, <2>1, <2>2 DEF ListInv
<1> QED  BY <1>5, <1>6, <1>7, <1>8, <1>9 DEF IInv

LEMMA FailAllStep ==
  ASSUME IInv, NEW r \in Runs, FailAll(r)
  PROVE  IInv'
<1>1. TypeInv /\ BirthInv /\ TodoInv /\ OnceInv /\ ListInv  BY DEF IInv
<1>2. /\ pc[r] = "end" /\ pc' = [pc EXCEPT ![r] = "clearRun"]
      /\ pending' = [pending EXCEPT ![r] = <<>>] /\ op' = [op EXCEPT ![r] = "prompt"]
      /\ cancelled' = [cancelled EXCEPT ![r] = FALSE]
      /\ UNCHANGED <<portal, sent, activeRun, activeHarness, born, steer, todo, echo, answers,
                     abort, phase>>
    BY DEF FailAll, Goto, portalVars
<1>3. /\ pc'[r] = "clearRun" /\ pc' \in [Runs -> Places] /\ \A q \in Runs : q # r => pc'[q] = pc[q]
      /\ pending'[r] = <<>> /\ \A q \in Runs : q # r => pending'[q] = pending[q]
      /\ \A q \in Runs : q # r => op'[q] = op[q]
      /\ \A q \in Runs : cancelled'[q] => cancelled[q]
    BY <1>1, <1>2 DEF TypeInv, Places
<1>4. TypeInv'
  <2>1. <<>> \in Seq(Messages)  OBVIOUS
  <2>2. pending' \in [Runs -> Seq(Messages)]  BY <1>1, <1>2, <2>1 DEF TypeInv
  <2>3. op' \in [Runs -> {"prompt", "compact", "continue"}] /\ cancelled' \in [Runs -> BOOLEAN]
      BY <1>1, <1>2 DEF TypeInv
  <2> QED  BY <1>1, <1>2, <1>3, <2>2, <2>3 DEF TypeInv
<1>5. BirthInv'  BY <1>1, <1>2, <1>3, BirthStays
<1>6. TodoInv'
  <2>1. SUFFICES ASSUME NEW q \in Runs
                 PROVE  /\ todo[q] # 0 <=> Writes(q)'
                        /\ pc'[q] \in {"promptEcho", "echo"} => answers[todo[q]] = 1
                        /\ pc'[q] \in Between => phase[q] = "idle"
      BY <1>2 DEF TodoInv
  <2>2. CASE q = r
    <3>1. ~Writes(r)' /\ ~Writes(r)  BY <1>1, <1>2, <1>3 DEF BirthInv, Writes, Asks
    <3> QED  BY <1>1, <1>2, <1>3, <2>2, <3>1 DEF TodoInv, Between
  <2>3. CASE q # r
    <3>1. Writes(q)' <=> Writes(q)  BY <1>2, <1>3, <2>3 DEF Writes
    <3> QED  BY <1>1, <1>3, <2>3, <3>1 DEF TodoInv
  <2> QED  BY <2>2, <2>3
<1>7. OnceInv'
  <2>1. \A q \in Runs, m \in Messages : Owns(q, m)' <=> Owns(q, m)  BY <1>2, <1>3 DEF Owns
  <2>2. InLoop' <=> InLoop  BY <1>2 DEF InLoop
  <2> QED  BY <1>1, <1>2, <1>3, <2>1, <2>2 DEF OnceInv
<1>8. ListInv'
  <2>1. \A q \in Runs : q # r => (pc'[q] \in Over <=> pc[q] \in Over)  BY <1>3
  <2>2. \A q \in Runs : Queue(q)' = Queue(q)  BY <1>2 DEF Queue
  <2>3. pc'[r] \in Over  BY <1>3 DEF Over
  <2>4. \A q \in Runs : /\ Offered(q, Queue(q))' = Offered(q, Queue(q))
                        /\ Offered(q, <<>>)' = Offered(q, <<>>)
      BY <1>2, <2>2 DEF Offered
  <2>5. ASSUME NEW q \in Runs
        PROVE  /\ abort.count = 0 => /\ ~cancelled'[q]
                                     /\ pc'[q] \notin Over => pending'[q] = Offered(q, Queue(q))
               /\ pc'[q] \in Over => pending'[q] = <<>> \/ pending'[q] = Offered(q, <<>>)
    <3>1. CASE q = r  BY <1>1, <1>3, <2>3, <3>1 DEF ListInv
    <3>2. CASE q # r  BY <1>1, <1>3, <2>1, <3>2 DEF ListInv
    <3> QED  BY <3>1, <3>2
  <2> QED  BY <1>1, <1>2, <2>4, <2>5 DEF ListInv
<1> QED  BY <1>4, <1>5, <1>6, <1>7, <1>8 DEF IInv

-----------------------------------------------------------------------------
(* The steps of the portal's loop. *)

LEMMA ReceiveStep ==
  ASSUME IInv, Receive
  PROVE  IInv'
<1>1. TypeInv /\ BirthInv /\ TodoInv /\ OnceInv /\ ListInv  BY DEF IInv
<1>2. PICK at \in {"start", "add"} :
        /\ portal' = [at |-> at, msg |-> sent + 1, run |-> activeRun]
        /\ at = "add" => activeRun # 0
    BY DEF Receive
<1>3. /\ portal.at = "idle" /\ sent < MaxMsgs /\ sent' = sent + 1
      /\ UNCHANGED <<activeRun, activeHarness, born, pc, op, phase, steer, todo, cancelled, pending,
                     echo, answers, abort>>
    BY DEF Receive, callVars, harnessVars, listVars, statusVars
<1>4. portal'.at = at /\ portal'.msg = sent + 1 /\ portal'.run = activeRun  BY <1>2
<1>5. /\ sent \in 0 .. MaxMsgs /\ sent + 1 \in 0 .. MaxMsgs /\ activeRun \in 0 .. MaxMsgs
      /\ born \in 0 .. MaxMsgs /\ born <= sent /\ activeRun <= born /\ ~InLoop
    BY <1>1, <1>3, Bounds DEF TypeInv, BirthInv, InLoop
<1>6. TypeInv'
  <2>1. portal' \in [at : PortalPlaces, msg : 0 .. MaxMsgs, run : 0 .. MaxMsgs]
      BY <1>2, <1>5 DEF PortalPlaces
  <2> QED  BY <1>1, <1>3, <1>5, <2>1 DEF TypeInv
<1>7. BirthInv'
  <2>1. at = "add" => activeRun \in 1 .. born  BY <1>2, <1>5, Bounds
  <2>2. sent + 1 > 0 /\ born < sent + 1 /\ born <= sent + 1  BY <1>5, Bounds
  <2> QED  BY <1>1, <1>3, <1>4, <2>1, <2>2 DEF BirthInv, InLoop
<1>8. TodoInv'
  <2>1. \A q \in Runs : Writes(q)' <=> Writes(q)  BY <1>3, <1>4 DEF Writes
  <2> QED  BY <1>1, <1>3, <2>1 DEF TodoInv
<1>9. OnceInv'
  <2>1. \A q \in Runs, m \in Messages : Owns(q, m)' <=> Owns(q, m)  BY <1>3 DEF Owns
  <2>2. \A m \in Messages : /\ m <= sent => m <= sent + 1 /\ m # sent + 1
                            /\ m > sent + 1 \/ m = sent + 1 => m > sent
      BY <1>5, Bounds
  <2> QED  BY <1>1, <1>3, <1>4, <2>1, <2>2 DEF OnceInv
<1>10. ListInv'
  <2>1. \A q \in Runs : Queue(q)' = Queue(q)  BY <1>3 DEF Queue
  <2>2. \A q \in Runs : /\ Offered(q, Queue(q))' = Offered(q, Queue(q))
                        /\ Offered(q, <<>>)' = Offered(q, <<>>)
      BY <1>3, <1>4, <2>1 DEF Offered
  <2>3. abort.inLoop => FALSE  BY <1>1, <1>3 DEF ListInv
  <2> QED  BY <1>1, <1>3, <1>4, <2>2, <2>3 DEF ListInv
<1> QED  BY <1>6, <1>7, <1>8, <1>9, <1>10 DEF IInv

LEMMA AddPendingStep ==
  ASSUME IInv, AddPending
  PROVE  IInv'
<1>1. TypeInv /\ BirthInv /\ TodoInv /\ OnceInv /\ ListInv  BY DEF IInv
<1>2. /\ portal.at = "add" /\ portal' = [portal EXCEPT !.at = "steer"]
      /\ pending' = [pending EXCEPT ![portal.run] = Append(@, portal.msg)]
      /\ UNCHANGED <<sent, activeRun, activeHarness, born, pc, op, phase, steer, todo, cancelled,
                     echo, answers, abort>>
    BY DEF AddPending, At, callVars, harnessVars
<1>3. /\ portal'.at = "steer" /\ portal'.msg = portal.msg /\ portal'.run = portal.run
      /\ portal' \in [at : PortalPlaces, msg : 0 .. MaxMsgs, run : 0 .. MaxMsgs]
    BY <1>1, <1>2 DEF TypeInv, PortalPlaces
<1>4. portal.run \in Runs /\ portal.msg \in Messages  BY <1>1, <1>2, LoopsMessage DEF InLoop
<1>5. /\ pending[portal.run] \in Seq(Messages)
      /\ pending'[portal.run] = Append(pending[portal.run], portal.msg)
      /\ pending' \in [Runs -> Seq(Messages)]
      /\ \A q \in Runs : q # portal.run => pending'[q] = pending[q]
  <2>1. pending \in [Runs -> Seq(Messages)]  BY <1>1 DEF TypeInv
  <2>2. Append(pending[portal.run], portal.msg) \in Seq(Messages)  BY <1>4, <2>1
  <2> QED  BY <1>2, <1>4, <2>1, <2>2
<1>6. TypeInv'  BY <1>1, <1>2, <1>3, <1>5 DEF TypeInv
<1>7. BirthInv'
  <2>1. ~(portal.run > born)  BY <1>1, <1>2, Bounds DEF BirthInv, TypeInv
  <2>2. \A q \in Runs : q > born => q # portal.run  BY <2>1
  <2> QED  BY <1>1, <1>2, <1>3, <1>5, <2>2 DEF BirthInv, InLoop
<1>8. TodoInv'
  <2>1. \A q \in Runs : Writes(q)' <=> Writes(q)  BY <1>2, <1>3 DEF Writes
  <2> QED  BY <1>1, <1>2, <2>1 DEF TodoInv
<1>9. OnceInv'
  <2>1. \A q \in Runs, m \in Messages : Owns(q, m)' <=> Owns(q, m)  BY <1>2 DEF Owns
  <2>2. InLoop' /\ InLoop  BY <1>2, <1>3 DEF InLoop
  <2> QED  BY <1>1, <1>2, <1>3, <2>1, <2>2 DEF OnceInv
<1>10. ListInv'
  <2>1. \A q \in Runs : Queue(q)' = Queue(q)  BY <1>2 DEF Queue
  <2>2. ASSUME NEW q \in Runs, q # portal.run, NEW s
        PROVE  Offered(q, s)' = Offered(q, s) /\ pending'[q] = pending[q]
      BY <1>3, <1>5, <2>2 DEF Offered
  <2>3. ASSUME NEW s
        PROVE  Offered(portal.run, s) = s
      BY <1>2 DEF Offered
  <2>4. SUFFICES ASSUME NEW q \in Runs
                 PROVE  /\ abort.count = 0 /\ pc[q] \notin Over => pending'[q] = Offered(q, Queue(q))'
                        /\ pc[q] \in Over => pending'[q] = <<>> \/ pending'[q] = Offered(q, <<>>)'
      BY <1>1, <1>2, <1>3 DEF ListInv
  <2>5. CASE q = portal.run
    <3>1. Offered(q, Queue(q))' = Append(Queue(q), portal.msg)  BY <1>3, <2>1, <2>5 DEF Offered
    <3>2. Offered(q, <<>>)' = Append(<<>>, portal.msg)  BY <1>3, <2>5 DEF Offered
    <3>3. /\ abort.count = 0 /\ pc[q] \notin Over => pending[q] = Queue(q)
          /\ pc[q] \in Over => pending[q] = <<>>
        BY <1>1, <2>3, <2>5 DEF ListInv
    <3> QED  BY <1>5, <2>5, <3>1, <3>2, <3>3
  <2>6. CASE q # portal.run
    <3>1. Offered(q, Queue(q))' = Offered(q, Queue(q))  BY <1>3, <2>1, <2>6 DEF Offered
    <3>2. Offered(q, <<>>)' = Offered(q, <<>>)  BY <1>3, <2>6 DEF Offered
    <3> QED  BY <1>1, <1>5, <2>6, <3>1, <3>2 DEF ListInv
  <2> QED  BY <2>5, <2>6
<1> QED  BY <1>6, <1>7, <1>8, <1>9, <1>10 DEF IInv

LEMMA SteerStep ==
  ASSUME IInv, Steer
  PROVE  IInv'
<1>1. TypeInv /\ BirthInv /\ TodoInv /\ OnceInv /\ ListInv  BY DEF IInv
<1>2. /\ portal.at = "steer"
      /\ UNCHANGED <<sent, activeRun, activeHarness, born, pc, op, phase, todo, cancelled, pending,
                     echo, answers, abort>>
    BY DEF Steer, callVars, listVars, statusVars
<1>3. portal.run \in Runs /\ portal.msg \in Messages  BY <1>1, <1>2, LoopsMessage DEF InLoop
<1>4. CASE phase[portal.run] = "idle"
  <2>1. portal' = [portal EXCEPT !.at = "retract"] /\ UNCHANGED steer  BY <1>4 DEF Steer, At
  <2>2. /\ portal'.at = "retract" /\ portal'.msg = portal.msg /\ portal'.run = portal.run
        /\ portal' \in [at : PortalPlaces, msg : 0 .. MaxMsgs, run : 0 .. MaxMsgs]
      BY <1>1, <2>1 DEF TypeInv, PortalPlaces
  <2>3. TypeInv'  BY <1>1, <1>2, <2>1, <2>2 DEF TypeInv
  <2>4. BirthInv'  BY <1>1, <1>2, <2>1, <2>2 DEF BirthInv, InLoop
  <2>5. TodoInv'
    <3>1. \A q \in Runs : Writes(q)' <=> Writes(q)  BY <1>2, <2>2 DEF Writes
    <3> QED  BY <1>1, <1>2, <3>1 DEF TodoInv
  <2>6. OnceInv'
    <3>1. \A q \in Runs, m \in Messages : Owns(q, m)' <=> Owns(q, m)  BY <1>2, <2>1 DEF Owns
    <3>2. InLoop' /\ InLoop  BY <1>2, <2>2 DEF InLoop
    <3> QED  BY <1>1, <1>2, <2>1, <2>2, <3>1, <3>2 DEF OnceInv
  <2>7. ListInv'
    <3>1. \A q \in Runs : Queue(q)' = Queue(q)  BY <1>2, <2>1 DEF Queue
    <3>2. \A q \in Runs : /\ Offered(q, Queue(q))' = Offered(q, Queue(q))
                          /\ Offered(q, <<>>)' = Offered(q, <<>>)
        BY <1>2, <2>2, <3>1 DEF Offered
    <3> QED  BY <1>1, <1>2, <2>2, <3>2 DEF ListInv
  <2> QED  BY <2>3, <2>4, <2>5, <2>6, <2>7 DEF IInv
<1>5. CASE phase[portal.run] # "idle"
  <2>1. /\ portal' = [portal EXCEPT !.at = "idle"]
        /\ steer' = [steer EXCEPT ![portal.run] = Append(@, portal.msg)]
      BY <1>5 DEF Steer, At
  <2>2. /\ portal'.at = "idle" /\ portal'.msg = portal.msg /\ portal'.run = portal.run
        /\ portal' \in [at : PortalPlaces, msg : 0 .. MaxMsgs, run : 0 .. MaxMsgs]
      BY <1>1, <2>1 DEF TypeInv, PortalPlaces
  <2>3. /\ steer[portal.run] \in Seq(Messages)
        /\ steer'[portal.run] = Append(steer[portal.run], portal.msg)
        /\ steer' \in [Runs -> Seq(Messages)]
        /\ \A q \in Runs : q # portal.run => steer'[q] = steer[q]
    <3>1. steer \in [Runs -> Seq(Messages)]  BY <1>1 DEF TypeInv
    <3>2. Append(steer[portal.run], portal.msg) \in Seq(Messages)  BY <1>3, <3>1
    <3> QED  BY <1>3, <2>1, <3>1, <3>2
  <2>4. Elements(steer'[portal.run]) = Elements(steer[portal.run]) \union {portal.msg}
      BY <1>3, <2>3, AppendedElements
  <2>5. InLoop /\ ~InLoop'  BY <1>2, <2>2 DEF InLoop
  <2>6. \A q \in Runs : ~Owns(q, portal.msg)  BY <1>1, <1>3, <2>5 DEF OnceInv
  <2>7. pc[portal.run] \notin Between  BY <1>1, <1>3, <1>5 DEF TodoInv
  <2>8. TypeInv'  BY <1>1, <1>2, <2>2, <2>3 DEF TypeInv
  <2>9. BirthInv'
    <3>1. ~(portal.run > born)  BY <1>1, <1>2, Bounds DEF BirthInv, TypeInv
    <3>2. \A q \in Runs : q > born => q # portal.run  BY <3>1
    <3> QED  BY <1>1, <1>2, <2>2, <2>3, <2>5, <3>2 DEF BirthInv
  <2>10. TodoInv'
    <3>1. \A q \in Runs : Writes(q)' <=> Writes(q)  BY <1>2, <2>2 DEF Writes
    <3> QED  BY <1>1, <1>2, <3>1 DEF TodoInv
  <2>11. OnceInv'
    <3>1. \A q \in Runs, m \in Messages :
            Owns(q, m)' <=> Owns(q, m) \/ (q = portal.run /\ m = portal.msg)
      <4>1. TAKE q \in Runs, m \in Messages
      <4>2. CASE q = portal.run  BY <1>2, <2>4, <4>2 DEF Owns
      <4>3. CASE q # portal.run  BY <1>2, <2>3, <4>3 DEF Owns
      <4> QED  BY <4>2, <4>3
    <3>2. \A q, p \in Runs, m \in Messages : Owns(q, m)' /\ Owns(p, m)' => q = p
        BY <1>1, <2>6, <3>1 DEF OnceInv
    <3>3. answers[portal.msg] = 0 /\ portal.msg <= sent
      <4>1. portal.msg = sent /\ sent \in 0 .. MaxMsgs  BY <1>1, <2>5 DEF BirthInv, TypeInv
      <4> QED  BY <1>1, <1>3, <2>5, <4>1, Bounds DEF OnceInv
    <3>4. \A q \in Runs : /\ \A i, j \in DOMAIN steer'[q] : i # j => steer'[q][i] # steer'[q][j]
                          /\ pc[q] \notin {"promptEcho", "echo"} => todo[q] \notin Elements(steer'[q])
      <4>1. TAKE q \in Runs
      <4>2. CASE q # portal.run  BY <1>1, <2>3, <4>2 DEF OnceInv
      <4>3. CASE q = portal.run
        <5>1. portal.msg \notin Elements(steer[q])  BY <2>6 DEF Owns
        <5>2. /\ DOMAIN steer'[q] = 1 .. (Len(steer[q]) + 1) /\ DOMAIN steer[q] = 1 .. Len(steer[q])
              /\ Len(steer[q]) \in Nat
              /\ \A i \in 1 .. Len(steer[q]) : steer'[q][i] = steer[q][i]
              /\ steer'[q][Len(steer[q]) + 1] = portal.msg
            BY <1>3, <2>3, <4>3, AppendedElements
        <5>3. \A i \in DOMAIN steer[q] : steer[q][i] # portal.msg  BY <5>1 DEF Elements
        <5>4. \A i, j \in DOMAIN steer[q] : i # j => steer[q][i] # steer[q][j]  BY <1>1 DEF OnceInv
        <5>5. \A i, j \in DOMAIN steer'[q] : i # j => steer'[q][i] # steer'[q][j]
          <6>1. \A i \in DOMAIN steer'[q] : i \in DOMAIN steer[q] \/ i = Len(steer[q]) + 1  BY <5>2
          <6>2. \A i \in DOMAIN steer[q] : steer'[q][i] = steer[q][i]  BY <5>2
          <6> QED  BY <5>2, <5>3, <5>4, <6>1, <6>2
        <5>6. pc[q] \notin {"promptEcho", "echo"} => todo[q] # portal.msg
            BY <2>6 DEF Owns
        <5>7. pc[q] \notin {"promptEcho", "echo"} => todo[q] \notin Elements(steer[q])
            BY <1>1 DEF OnceInv
        <5> QED  BY <2>4, <4>3, <5>5, <5>6, <5>7
      <4> QED  BY <4>2, <4>3
    <3> QED  BY <1>1, <1>2, <2>5, <3>1, <3>2, <3>3, <3>4 DEF OnceInv
  <2>12. ListInv'
    <3>1. SUFFICES ASSUME NEW q \in Runs
                   PROVE  /\ abort.count = 0 /\ pc[q] \notin Over => pending[q] = Offered(q, Queue(q))'
                          /\ pc[q] \in Over => pending[q] = <<>> \/ pending[q] = Offered(q, <<>>)'
        BY <1>1, <1>2, <2>2 DEF ListInv
    <3>2. Offered(q, Queue(q))' = Queue(q)' /\ Offered(q, <<>>)' = <<>>  BY <2>2 DEF Offered
    <3>3. CASE q = portal.run
      <4>1. pc[q] \notin Over  BY <2>7, <3>3 DEF Between
      <4>2. Queue(q)' = Offered(q, Queue(q))
        <5>1. Offered(q, Queue(q)) = Append(Queue(q), portal.msg)  BY <1>2, <3>3 DEF Offered
        <5>2. todo[q] \in 0 .. MaxMsgs  BY <1>1 DEF TypeInv
        <5>3. CASE todo[q] = 0  BY <1>2, <2>3, <3>3, <5>1, <5>3 DEF Queue
        <5>4. CASE todo[q] # 0
          <6>1. todo[q] \in Messages  BY <5>2, <5>4, Bounds
          <6>2. steer[q] \in Seq(Messages) /\ portal.msg \in Messages  BY <1>1, <1>3 DEF TypeInv
          <6>3. Append(<<todo[q]>> \o steer[q], portal.msg) = <<todo[q]>> \o Append(steer[q], portal.msg)
              BY <6>1, <6>2, PrependedAppended
          <6> QED  BY <1>2, <2>3, <3>3, <5>1, <5>4, <6>3 DEF Queue
        <5> QED  BY <5>3, <5>4
      <4> QED  BY <1>1, <3>2, <4>1, <4>2 DEF ListInv
    <3>4. CASE q # portal.run
      <4>1. Queue(q)' = Queue(q)  BY <1>2, <2>3, <3>4 DEF Queue
      <4>2. Offered(q, Queue(q)) = Queue(q) /\ Offered(q, <<>>) = <<>>  BY <3>4 DEF Offered
      <4> QED  BY <1>1, <3>2, <4>1, <4>2 DEF ListInv
    <3> QED  BY <3>3, <3>4
  <2> QED  BY <2>8, <2>9, <2>10, <2>11, <2>12 DEF IInv
<1> QED  BY <1>4, <1>5

\* Steps of the loop and of the abort command that move no message: the loop stays,
\* or goes on with the message it has.
LEMMA LoopMoves ==
  ASSUME IInv,
         \/ UNCHANGED portal
         \/ /\ portal' \in [at : {"start", "idle", "abort"}, msg : 0 .. MaxMsgs, run : 0 .. MaxMsgs]
            /\ portal'.msg = portal.msg /\ portal'.run = portal.run
            /\ portal.at \in {"idle", "forget", "start", "abort"}
            /\ portal'.at = "start" => InLoop,
         activeRun' \in {activeRun, 0},
         UNCHANGED <<sent, activeHarness, born, pc, op, phase, steer, todo, cancelled, pending,
                     echo, answers>>,
         abort' \in [at : AbortPlaces, run : 0 .. MaxMsgs, waitFor : Nat, count : Nat, inLoop : BOOLEAN],
         abort'.run <= born, abort'.count = 0 => abort.count = 0,
         abort'.at # "idle" \/ portal'.at = "abort" => abort'.count > 0,
         abort'.inLoop => portal'.at = "abort"
  PROVE  IInv'
<1>1. TypeInv /\ BirthInv /\ TodoInv /\ OnceInv /\ ListInv  BY DEF IInv
<1>2. /\ portal' \in [at : PortalPlaces, msg : 0 .. MaxMsgs, run : 0 .. MaxMsgs]
      /\ portal'.msg = portal.msg /\ portal'.run = portal.run
      /\ portal'.at = "publish" <=> portal.at = "publish"
      /\ portal'.at \in {"steer", "retract"} <=> portal.at \in {"steer", "retract"}
      /\ portal'.at \in {"add", "forget"} => portal'.at = portal.at
      /\ InLoop' => InLoop
    BY <1>1 DEF TypeInv, PortalPlaces, InLoop
<1>3. activeRun' <= born /\ activeRun' \in 0 .. MaxMsgs
  <2>1. activeRun \in 0 .. MaxMsgs /\ activeRun <= born /\ born \in 0 .. MaxMsgs
      BY <1>1 DEF TypeInv, BirthInv
  <2> QED  BY <2>1, Bounds
<1>4. TypeInv'  BY <1>1, <1>2, <1>3 DEF TypeInv
<1>5. BirthInv'
  <2>1. portal'.at \in {"add", "steer", "retract", "forget"} =>
          portal.at \in {"add", "steer", "retract", "forget"}
      BY <1>2
  <2> QED  BY <1>1, <1>2, <1>3, <2>1 DEF BirthInv
<1>6. TodoInv'
  <2>1. \A q \in Runs : Writes(q)' <=> Writes(q)  BY <1>2 DEF Writes
  <2> QED  BY <1>1, <2>1 DEF TodoInv
<1>7. OnceInv'
  <2>1. \A q \in Runs, m \in Messages : Owns(q, m)' <=> Owns(q, m)  BY DEF Owns
  <2> QED  BY <1>1, <1>2, <2>1 DEF OnceInv
<1>8. ListInv'
  <2>1. \A q \in Runs : Queue(q)' = Queue(q)  BY DEF Queue
  <2>2. \A q \in Runs : /\ Offered(q, Queue(q))' = Offered(q, Queue(q))
                        /\ Offered(q, <<>>)' = Offered(q, <<>>)
      BY <1>2, <2>1 DEF Offered
  <2> QED  BY <1>1, <2>2 DEF ListInv
<1> QED  BY <1>4, <1>5, <1>6, <1>7, <1>8 DEF IInv

LEMMA RemovePendingStep ==
  ASSUME IInv, RemovePending
  PROVE  IInv'
<1>1. TypeInv /\ BirthInv /\ TodoInv /\ OnceInv /\ ListInv  BY DEF IInv
<1>2. /\ portal.at = "retract" /\ portal' = [portal EXCEPT !.at = "forget"]
      /\ pending' = [pending EXCEPT ![portal.run] = Without(@, portal.msg)]
      /\ UNCHANGED <<sent, activeRun, activeHarness, born, pc, op, phase, steer, todo, cancelled,
                     echo, answers, abort>>
    BY DEF RemovePending, At, callVars, harnessVars, statusVars
<1>3. /\ portal'.at = "forget" /\ portal'.msg = portal.msg /\ portal'.run = portal.run
      /\ portal' \in [at : PortalPlaces, msg : 0 .. MaxMsgs, run : 0 .. MaxMsgs]
    BY <1>1, <1>2 DEF TypeInv, PortalPlaces
<1>4. portal.run \in Runs /\ portal.msg \in Messages  BY <1>1, <1>2, LoopsMessage DEF InLoop
<1>5. pending \in [Runs -> Seq(Messages)] /\ pending[portal.run] \in Seq(Messages)
    BY <1>1, <1>4 DEF TypeInv
<1>6. /\ pending'[portal.run] = Without(pending[portal.run], portal.msg)
      /\ \A q \in Runs : q # portal.run => pending'[q] = pending[q]
    BY <1>2, <1>4, <1>5
<1>7. Without(pending[portal.run], portal.msg) \in Seq(Messages)  BY <1>5, WithoutIsASequence
<1>8. TypeInv'
  <2>1. pending' \in [Runs -> Seq(Messages)]  BY <1>2, <1>4, <1>5, <1>7
  <2> QED  BY <1>1, <1>2, <1>3, <2>1 DEF TypeInv
<1>9. BirthInv'
  <2>1. ~(portal.run > born)  BY <1>1, <1>2, Bounds DEF BirthInv, TypeInv
  <2>2. \A q \in Runs : q > born => q # portal.run  BY <2>1
  <2> QED  BY <1>1, <1>2, <1>3, <1>6, <2>2 DEF BirthInv, InLoop
<1>10. TodoInv'
  <2>1. \A q \in Runs : Writes(q)' <=> Writes(q)  BY <1>2, <1>3 DEF Writes
  <2> QED  BY <1>1, <1>2, <2>1 DEF TodoInv
<1>11. OnceInv'
  <2>1. \A q \in Runs, m \in Messages : Owns(q, m)' <=> Owns(q, m)  BY <1>2 DEF Owns
  <2>2. InLoop' /\ InLoop  BY <1>2, <1>3 DEF InLoop
  <2> QED  BY <1>1, <1>2, <1>3, <2>1, <2>2 DEF OnceInv
<1>12. ListInv'
  <2>1. SUFFICES ASSUME NEW q \in Runs
                 PROVE  /\ abort.count = 0 /\ pc[q] \notin Over => pending'[q] = Offered(q, Queue(q))'
                        /\ pc[q] \in Over => pending'[q] = <<>> \/ pending'[q] = Offered(q, <<>>)'
      BY <1>1, <1>2, <1>3 DEF ListInv
  <2>2. Offered(q, Queue(q))' = Queue(q)' /\ Offered(q, <<>>)' = <<>> /\ Queue(q)' = Queue(q)
      BY <1>2, <1>3 DEF Offered, Queue
  <2>3. CASE q = portal.run
    <3>1. ASSUME NEW s \in Seq(Messages), portal.msg \notin Elements(s), pending[q] = Offered(q, s)
          PROVE  pending'[q] = s
      <4>1. pending[q] = Append(s, portal.msg)  BY <1>2, <2>3, <3>1 DEF Offered
      <4> QED  BY <1>4, <1>6, <2>3, <3>1, <4>1, WithoutTheLast
    <3>2. ASSUME pc[q] \in Over  PROVE pending'[q] = <<>>
      <4>1. <<>> \in Seq(Messages) /\ portal.msg \notin Elements(<<>>)  BY DEF Elements
      <4>2. CASE pending[q] = <<>>  BY <1>6, <2>3, <4>2, WithoutOfNothing
      <4>3. CASE pending[q] = Offered(q, <<>>)  BY <3>1, <4>1, <4>3
      <4> QED  BY <1>1, <3>2, <4>2, <4>3 DEF ListInv
    <3>3. ASSUME abort.count = 0, pc[q] \notin Over  PROVE pending'[q] = Queue(q)
      <4>1. /\ InLoop /\ steer[q] \in Seq(Messages) /\ todo[q] \in 0 .. MaxMsgs
        BY <1>1, <1>2 DEF TypeInv, InLoop
      <4>2. portal.msg \notin Elements(steer[q]) /\ portal.msg # todo[q]
        <5>1. ~Owns(q, portal.msg) /\ answers[portal.msg] = 0  BY <1>1, <1>4, <4>1 DEF OnceInv
        <5>2. pc[q] \in {"promptEcho", "echo"} => answers[todo[q]] = 1  BY <1>1 DEF TodoInv
        <5> QED  BY <5>1, <5>2 DEF Owns
      <4>3. Queue(q) \in Seq(Messages) /\ portal.msg \notin Elements(Queue(q))
        <5>1. CASE todo[q] = 0  BY <4>1, <4>2, <5>1 DEF Queue
        <5>2. CASE todo[q] # 0
          <6>1. todo[q] \in Messages  BY <4>1, <5>2, Bounds
          <6>2. Queue(q) = <<todo[q]>> \o steer[q]  BY <5>2 DEF Queue
          <6>3. <<todo[q]>> \o steer[q] \in Seq(Messages)
                /\ Elements(<<todo[q]>> \o steer[q]) \subseteq Elements(steer[q]) \union {todo[q]}
              BY <4>1, <6>1, PrependedElements
          <6> QED  BY <4>2, <6>2, <6>3
        <5> QED  BY <5>1, <5>2
      <4> QED  BY <1>1, <3>1, <3>3, <4>3 DEF ListInv
    <3> QED  BY <2>2, <3>2, <3>3
  <2>4. CASE q # portal.run
    <3>1. Offered(q, Queue(q)) = Queue(q) /\ Offered(q, <<>>) = <<>>  BY <2>4 DEF Offered
    <3> QED  BY <1>1, <1>6, <2>2, <2>4, <3>1 DEF ListInv
  <2> QED  BY <2>3, <2>4
<1> QED  BY <1>8, <1>9, <1>10, <1>11, <1>12 DEF IInv

LEMMA LoopSteps ==
  ASSUME IInv, ClearActiveRun \/ StartFails
  PROVE  IInv'
<1>1. TypeInv /\ BirthInv /\ ListInv  BY DEF IInv
<1>2. PICK at \in {"start", "idle"} : portal' = [portal EXCEPT !.at = at]
    BY DEF ClearActiveRun, StartFails, At
<1>3. /\ portal.at \in {"forget", "start"} /\ activeRun' \in {activeRun, 0}
      /\ UNCHANGED <<sent, activeHarness, born, pc, op, phase, steer, todo, cancelled, pending,
                     echo, answers, abort>>
    BY DEF ClearActiveRun, StartFails, callVars, harnessVars, listVars, statusVars
<1>4. /\ portal' \in [at : {"start", "idle", "abort"}, msg : 0 .. MaxMsgs, run : 0 .. MaxMsgs]
      /\ portal'.at = at /\ portal'.msg = portal.msg /\ portal'.run = portal.run
    BY <1>1, <1>2 DEF TypeInv
<1>5. /\ abort \in [at : AbortPlaces, run : 0 .. MaxMsgs, waitFor : Nat, count : Nat, inLoop : BOOLEAN]
      /\ abort.run <= born /\ ~abort.inLoop
      /\ abort.at # "idle" => abort.count > 0
    BY <1>1, <1>3 DEF TypeInv, BirthInv, ListInv
<1>6. InLoop  BY <1>3 DEF InLoop
<1> QED  BY <1>3, <1>4, <1>5, <1>6, LoopMoves

LEMMA SetActiveHarnessStep ==
  ASSUME IInv, SetActiveHarness
  PROVE  IInv'
<1>1. TypeInv /\ BirthInv /\ TodoInv /\ OnceInv /\ ListInv  BY DEF IInv
<1> DEFINE new == born + 1
<1>2. /\ portal.at = "start" /\ portal' = [[portal EXCEPT !.at = "publish"] EXCEPT !.run = new]
      /\ born' = new /\ activeHarness' = new
      /\ pending' = [pending EXCEPT ![new] = <<portal.msg>>]
      /\ todo' = [todo EXCEPT ![new] = portal.msg]
      /\ UNCHANGED <<sent, activeRun, pc, op, phase, steer, cancelled, echo, answers, abort>>
    BY DEF SetActiveHarness, At, callVars
<1>3. /\ new \in Runs /\ portal.msg \in Messages /\ portal.msg # 0 /\ ~(new <= born) /\ new > born
      /\ portal.msg = sent /\ InLoop
    BY <1>1, <1>2, LoopsMessage, Bounds DEF InLoop, TypeInv
<1>4. born \in 0 .. MaxMsgs /\ new \in 1 .. MaxMsgs /\ sent \in 0 .. MaxMsgs /\ new <= sent
    BY <1>1, <1>3, Bounds DEF TypeInv, BirthInv
<1>5. pc[new] = "none" /\ steer[new] = <<>> /\ pending[new] = <<>> /\ todo[new] = 0
      /\ phase[new] = "idle"
    BY <1>1, <1>3 DEF BirthInv
<1>6. \A q \in Runs : q > new => q > born /\ q # new  BY <1>4, Bounds
<1> HIDE DEF new
<1>7. /\ portal'.at = "publish" /\ portal'.msg = portal.msg /\ portal'.run = new
      /\ portal' \in [at : PortalPlaces, msg : 0 .. MaxMsgs, run : 0 .. MaxMsgs]
  <2>1. new \in 0 .. MaxMsgs  BY <1>4, Bounds
  <2> QED  BY <1>1, <1>2, <2>1 DEF TypeInv, PortalPlaces
<1>8. /\ pending'[new] = <<portal.msg>> /\ todo'[new] = portal.msg
      /\ \A q \in Runs : q # new => pending'[q] = pending[q] /\ todo'[q] = todo[q]
      /\ pending' \in [Runs -> Seq(Messages)] /\ todo' \in [Runs -> 0 .. MaxMsgs]
  <2>1. <<portal.msg>> \in Seq(Messages) /\ portal.msg \in 0 .. MaxMsgs  BY <1>3, Bounds
  <2> QED  BY <1>1, <1>2, <1>3, <2>1 DEF TypeInv
<1>9. TypeInv'
  <2>1. new \in 0 .. MaxMsgs  BY <1>4, Bounds
  <2> QED  BY <1>1, <1>2, <1>7, <1>8, <2>1 DEF TypeInv
<1>10. BirthInv'
  <2>1. activeRun <= new /\ abort.run <= new /\ new <= new /\ new > 0
    <3>1. activeRun <= born /\ abort.run <= born /\ activeRun \in 0 .. MaxMsgs
          /\ abort.run \in 0 .. MaxMsgs
        BY <1>1 DEF BirthInv, TypeInv
    <3> QED  BY <1>4, <3>1, Bounds DEF new
  <2>2. ~InLoop'  BY <1>7 DEF InLoop
  <2>3. \A q \in Runs : q > new =>
          /\ pc[q] = "none" /\ steer[q] = <<>> /\ pending'[q] = <<>> /\ todo'[q] = 0
          /\ phase[q] = "idle"
      BY <1>1, <1>6, <1>8 DEF BirthInv
  <2> QED  BY <1>2, <1>4, <1>5, <1>7, <2>1, <2>2, <2>3 DEF BirthInv
<1>11. TodoInv'
  <2>1. SUFFICES ASSUME NEW q \in Runs
                 PROVE  /\ todo'[q] # 0 <=> Writes(q)'
                        /\ pc[q] \in {"promptEcho", "echo"} => answers[todo'[q]] = 1
                        /\ pc[q] \in Between => phase[q] = "idle"
      BY <1>2 DEF TodoInv
  <2>2. CASE q = new  BY <1>3, <1>5, <1>7, <1>8, <2>2 DEF Writes
  <2>3. CASE q # new
    <3>1. Writes(q)' <=> Writes(q)  BY <1>2, <1>7, <2>3 DEF Writes
    <3> QED  BY <1>1, <1>8, <2>3, <3>1 DEF TodoInv
  <2> QED  BY <2>2, <2>3
<1>12. OnceInv'
  <2>1. Elements(steer[new]) = {}  BY <1>5 DEF Elements
  <2>2. \A q \in Runs, m \in Messages : Owns(q, m)' <=> Owns(q, m) \/ (q = new /\ m = portal.msg)
    <3>1. TAKE q \in Runs, m \in Messages
    <3>2. CASE q = new  BY <1>2, <1>3, <1>5, <1>8, <2>1, <3>2, Bounds DEF Owns
    <3>3. CASE q # new  BY <1>2, <1>8, <3>3 DEF Owns
    <3> QED  BY <3>2, <3>3
  <2>3. \A q \in Runs : ~Owns(q, portal.msg)  BY <1>1, <1>3 DEF OnceInv
  <2>4. answers[portal.msg] = 0 /\ portal.msg <= sent  BY <1>1, <1>3, <1>4, Bounds DEF OnceInv
  <2>5. ~InLoop'  BY <1>7 DEF InLoop
  <2>6. \A q, p \in Runs, m \in Messages : Owns(q, m)' /\ Owns(p, m)' => q = p
      BY <1>1, <2>2, <2>3 DEF OnceInv
  <2>7. \A q \in Runs : pc[q] \notin {"promptEcho", "echo"} => todo'[q] \notin Elements(steer[q])
      BY <1>1, <1>8, <2>1 DEF OnceInv
  <2> QED  BY <1>1, <1>2, <2>2, <2>4, <2>5, <2>6, <2>7 DEF OnceInv
<1>13. ListInv'
  <2>1. ~abort.inLoop  BY <1>1, <1>2 DEF ListInv
  <2>2. SUFFICES ASSUME NEW q \in Runs
                 PROVE  /\ abort.count = 0 /\ pc[q] \notin Over => pending'[q] = Offered(q, Queue(q))'
                        /\ pc[q] \in Over => pending'[q] = <<>> \/ pending'[q] = Offered(q, <<>>)'
      BY <1>1, <1>2, <1>7, <2>1 DEF ListInv
  <2>3. Offered(q, Queue(q))' = Queue(q)' /\ Offered(q, <<>>)' = <<>>  BY <1>7 DEF Offered
  <2>4. CASE q = new
    <3>1. Queue(q)' = <<portal.msg>> \o <<>>  BY <1>2, <1>3, <1>5, <1>8, <2>4 DEF Queue
    <3>2. Queue(q)' = <<portal.msg>>  BY <1>3, <3>1, Singles
    <3> QED  BY <1>5, <1>8, <2>3, <2>4, <3>2 DEF Over
  <2>5. CASE q # new
    <3>1. Queue(q)' = Queue(q)  BY <1>2, <1>8, <2>5 DEF Queue
    <3>2. Offered(q, Queue(q)) = Queue(q) /\ Offered(q, <<>>) = <<>>  BY <1>2 DEF Offered
    <3> QED  BY <1>1, <1>8, <2>3, <2>5, <3>1, <3>2 DEF ListInv
  <2> QED  BY <2>4, <2>5
<1> QED  BY <1>9, <1>10, <1>11, <1>12, <1>13 DEF IInv

LEMMA SetActiveRunStep ==
  ASSUME IInv, SetActiveRun
  PROVE  IInv'
<1>1. TypeInv /\ BirthInv /\ TodoInv /\ OnceInv /\ ListInv  BY DEF IInv
<1>2. /\ portal.at = "publish" /\ portal' = [portal EXCEPT !.at = "idle"]
      /\ activeRun' = portal.run /\ pc' = [pc EXCEPT ![portal.run] = "spawned"]
      /\ UNCHANGED <<sent, activeHarness, born, op, phase, steer, todo, pending, cancelled, echo,
                     answers, abort>>
    BY DEF SetActiveRun, At, callVars, harnessVars, listVars, statusVars
<1>3. /\ portal'.at = "idle" /\ portal'.msg = portal.msg /\ portal'.run = portal.run
      /\ portal' \in [at : PortalPlaces, msg : 0 .. MaxMsgs, run : 0 .. MaxMsgs]
    BY <1>1, <1>2 DEF TypeInv, PortalPlaces
<1>4. portal.run = born /\ portal.run \in Runs /\ pc[portal.run] = "none"
    BY <1>1, <1>2, Bounds DEF BirthInv, TypeInv
<1>5. /\ pc'[portal.run] = "spawned" /\ pc' \in [Runs -> Places]
      /\ \A q \in Runs : q # portal.run => pc'[q] = pc[q]
    BY <1>1, <1>2, <1>4 DEF TypeInv, Places
<1>6. ~InLoop /\ ~InLoop'  BY <1>2, <1>3 DEF InLoop
<1>7. TypeInv'
  <2>1. portal.run \in 0 .. MaxMsgs  BY <1>1 DEF TypeInv
  <2> QED  BY <1>1, <1>2, <1>3, <1>5, <2>1 DEF TypeInv
<1>8. BirthInv'
  <2>1. \A q \in Runs : q > born => q # portal.run  BY <1>1, <1>4, Bounds DEF TypeInv
  <2>2. portal.run <= born  BY <1>1, <1>4, Bounds DEF TypeInv
  <2> QED  BY <1>1, <1>2, <1>3, <1>5, <1>6, <2>1, <2>2 DEF BirthInv
<1>9. TodoInv'
  <2>1. SUFFICES ASSUME NEW q \in Runs
                 PROVE  /\ todo[q] # 0 <=> Writes(q)'
                        /\ pc'[q] \in {"promptEcho", "echo"} => answers[todo[q]] = 1
                        /\ pc'[q] \in Between => phase[q] = "idle"
      BY <1>2 DEF TodoInv
  <2>2. CASE q = portal.run
      BY <1>1, <1>2, <1>4, <1>5, <2>2 DEF TodoInv, Writes, Asks, Between
  <2>3. CASE q # portal.run
    <3>1. Writes(q)' <=> Writes(q)  BY <1>2, <1>3, <1>5, <2>3 DEF Writes
    <3> QED  BY <1>1, <1>5, <2>3, <3>1 DEF TodoInv
  <2> QED  BY <2>2, <2>3
<1>10. OnceInv'
  <2>1. \A q \in Runs, m \in Messages : Owns(q, m)' <=> Owns(q, m)
    <3>1. \A q \in Runs : pc'[q] \in {"promptEcho", "echo"} <=> pc[q] \in {"promptEcho", "echo"}
        BY <1>4, <1>5
    <3> QED  BY <1>2, <3>1 DEF Owns
  <2>2. \A q \in Runs : pc'[q] \notin {"promptEcho", "echo"} => pc[q] \notin {"promptEcho", "echo"}
      BY <1>4, <1>5
  <2> QED  BY <1>1, <1>2, <1>6, <2>1, <2>2 DEF OnceInv
<1>11. ListInv'
  <2>1. \A q \in Runs : pc'[q] \in Over <=> pc[q] \in Over  BY <1>4, <1>5 DEF Over
  <2>2. \A q \in Runs : Queue(q)' = Queue(q)  BY <1>2 DEF Queue
  <2>3. \A q \in Runs : /\ Offered(q, Queue(q))' = Offered(q, Queue(q))
                        /\ Offered(q, <<>>)' = Offered(q, <<>>)
      BY <1>2, <1>3, <2>2 DEF Offered
  <2>4. ~abort.inLoop  BY <1>1, <1>2 DEF ListInv
  <2> QED  BY <1>1, <1>2, <1>3, <2>1, <2>3, <2>4 DEF ListInv
<1> QED  BY <1>7, <1>8, <1>9, <1>10, <1>11 DEF IInv

-----------------------------------------------------------------------------
(* The abort command. *)

\* The abort of a run is one of the room's.
LEMMA AbortsRun ==
  ASSUME RoomInv, abort.at \in {"clear", "cancel", "look"}
  PROVE  abort.run \in Runs /\ abort.count > 0
<1>1. abort.run \in 0 .. MaxMsgs  BY DEF RoomInv, IInv, TypeInv
<1>2. abort.run > 0 /\ abort.count > 0  BY DEF RoomInv, AbortInv, IInv, ListInv
<1> QED  BY <1>1, <1>2, Bounds

LEMMA AbortBeginsStep ==
  ASSUME IInv, AbortBegins
  PROVE  IInv'
<1>1. TypeInv /\ BirthInv /\ ListInv  BY DEF IInv
<1>2. /\ abort' = [at |-> "clear", run |-> activeHarness, waitFor |-> 0,
                   count |-> abort.count + 1, inLoop |-> portal' # portal]
      /\ UNCHANGED <<sent, activeRun, activeHarness, born, pc, op, phase, steer, todo, cancelled,
                     pending, echo, answers>>
      /\ \/ portal' = portal
         \/ portal.at = "idle" /\ portal' = [portal EXCEPT !.at = "abort"]
    BY DEF AbortBegins, At, callVars, harnessVars, listVars, statusVars
<1>3. /\ activeHarness \in 0 .. MaxMsgs /\ activeHarness <= born
      /\ abort.count \in Nat /\ abort.count + 1 \in Nat /\ abort.count + 1 > 0
    BY <1>1 DEF TypeInv, BirthInv
<1>4. /\ abort' \in [at : AbortPlaces, run : 0 .. MaxMsgs, waitFor : Nat, count : Nat, inLoop : BOOLEAN]
      /\ abort'.run <= born /\ abort'.count > 0
      /\ abort'.inLoop <=> portal' # portal
    BY <1>2, <1>3 DEF AbortPlaces
<1>5. CASE portal' = portal  BY <1>2, <1>4, <1>5, LoopMoves
<1>6. CASE portal.at = "idle" /\ portal' = [portal EXCEPT !.at = "abort"]
  <2>1. /\ portal' \in [at : {"start", "idle", "abort"}, msg : 0 .. MaxMsgs, run : 0 .. MaxMsgs]
        /\ portal'.at = "abort" /\ portal'.msg = portal.msg /\ portal'.run = portal.run
      BY <1>1, <1>6 DEF TypeInv
  <2> QED  BY <1>2, <1>4, <1>6, <2>1, LoopMoves
<1> QED  BY <1>2, <1>5, <1>6

LEMMA AbortWaits ==
  ASSUME RoomInv, AbortLooks \/ AbortReturns
  PROVE  IInv'
<1>1. IInv /\ TypeInv /\ BirthInv /\ ListInv /\ AbortInv  BY DEF RoomInv, IInv
<1>2. UNCHANGED <<portal, sent, activeRun, activeHarness, born, pc, op, phase, steer, todo,
                  cancelled, pending, echo, answers>>
    BY DEF AbortLooks, AbortReturns, portalVars, callVars, harnessVars, listVars, statusVars
<1>3. /\ abort \in [at : AbortPlaces, run : 0 .. MaxMsgs, waitFor : Nat, count : Nat, inLoop : BOOLEAN]
      /\ abort.at # "idle" => abort.count > 0
      /\ abort.inLoop => portal.at = "abort" /\ abort.count > 0
      /\ portal.at = "abort" => abort.count > 0
      /\ activeRun \in 0 .. MaxMsgs /\ activeRun <= born /\ abort.run <= born
    BY <1>1 DEF TypeInv, BirthInv, ListInv
<1>4. CASE AbortLooks
  <2>1. PICK n : abort' = [abort EXCEPT !.at = "wait", !.waitFor = n] /\ n \in {0, runID[abort.run]}
      BY <1>4 DEF AbortLooks
  <2>2. n \in Nat  BY <1>1, <1>4, <2>1, AbortsRun DEF AbortLooks, AbortInv
  <2>3. /\ abort' \in [at : AbortPlaces, run : 0 .. MaxMsgs, waitFor : Nat, count : Nat,
                       inLoop : BOOLEAN]
        /\ abort'.run = abort.run /\ abort'.count = abort.count /\ abort'.inLoop = abort.inLoop
      BY <1>3, <2>1, <2>2 DEF AbortPlaces
  <2>4. abort.at # "idle"  BY <1>4 DEF AbortLooks
  <2> QED  BY <1>1, <1>2, <1>3, <2>3, <2>4, LoopMoves
<1>5. CASE AbortReturns
  <2>1. abort' = [abort EXCEPT !.at = "fail", !.run = activeRun] /\ abort.at # "idle"
      BY <1>5 DEF AbortReturns
  <2>2. /\ abort' \in [at : AbortPlaces, run : 0 .. MaxMsgs, waitFor : Nat, count : Nat,
                       inLoop : BOOLEAN]
        /\ abort'.run = activeRun /\ abort'.count = abort.count /\ abort'.inLoop = abort.inLoop
      BY <1>3, <2>1 DEF AbortPlaces
  <2> QED  BY <1>1, <1>2, <1>3, <2>1, <2>2, LoopMoves
<1> QED  BY <1>4, <1>5

\* A list cleared by an abort: what it held is in no place any more, and the
\* lists need not agree again.
LEMMA ListsAreCut ==
  ASSUME RoomInv, abort.count > 0, NEW at \in AbortPlaces,
         abort' = [abort EXCEPT !.at = at],
         UNCHANGED <<portal, sent, activeRun, activeHarness, born, pc, op, phase, todo, echo,
                     pending, answers>>,
         steer' \in [Runs -> Seq(Messages)], cancelled' \in [Runs -> BOOLEAN],
         \A r \in Runs : steer'[r] = steer[r] \/ steer'[r] = <<>>
  PROVE  IInv'
<1>1. TypeInv /\ BirthInv /\ TodoInv /\ OnceInv /\ ListInv  BY DEF RoomInv, IInv
<1>2. /\ abort' \in [at : AbortPlaces, run : 0 .. MaxMsgs, waitFor : Nat, count : Nat, inLoop : BOOLEAN]
      /\ abort'.run = abort.run /\ abort'.count = abort.count /\ abort'.inLoop = abort.inLoop
    BY <1>1 DEF TypeInv
<1>3. ~(abort'.count = 0)  BY <1>1, <1>2 DEF TypeInv
<1>4. TypeInv'  BY <1>1, <1>2 DEF TypeInv
<1>5. BirthInv'  BY <1>1, <1>2 DEF BirthInv, InLoop
<1>6. TodoInv'
  <2>1. \A q \in Runs : Writes(q)' <=> Writes(q)  BY DEF Writes
  <2> QED  BY <1>1, <2>1 DEF TodoInv
<1>7. OnceInv'
  <2>1. \A q \in Runs : Elements(steer'[q]) \subseteq Elements(steer[q])  BY DEF Elements
  <2>2. \A q \in Runs, m \in Messages : Owns(q, m)' => Owns(q, m)  BY <2>1 DEF Owns
  <2>3. InLoop' <=> InLoop  BY DEF InLoop
  <2>4. \A q \in Runs : \A i, j \in DOMAIN steer'[q] : i # j => steer'[q][i] # steer'[q][j]
      BY <1>1 DEF OnceInv
  <2> QED  BY <1>1, <2>1, <2>2, <2>3, <2>4 DEF OnceInv
<1>8. ListInv'
  <2>1. \A q \in Runs : Offered(q, <<>>)' = Offered(q, <<>>)  BY DEF Offered
  <2> QED  BY <1>1, <1>2, <1>3, <2>1 DEF ListInv
<1> QED  BY <1>4, <1>5, <1>6, <1>7, <1>8 DEF IInv

LEMMA AbortCuts ==
  ASSUME RoomInv, AbortClears \/ AbortCancels
  PROVE  IInv'
<1>1. abort.run \in Runs /\ abort.count > 0  BY AbortsRun DEF AbortClears, AbortCancels
<1>2. steer \in [Runs -> Seq(Messages)] /\ cancelled \in [Runs -> BOOLEAN]
    BY DEF RoomInv, IInv, TypeInv
<1>3. CASE AbortClears
  <2>1. /\ abort' = [abort EXCEPT !.at = "cancel"] /\ "cancel" \in AbortPlaces
        /\ steer' = [steer EXCEPT ![abort.run] = <<>>]
        /\ UNCHANGED <<portal, sent, activeRun, activeHarness, born, pc, op, phase, todo, echo,
                       pending, answers, cancelled>>
      BY <1>3 DEF AbortClears, AbortPlaces, portalVars, callVars, listVars, statusVars
  <2>2. /\ steer' \in [Runs -> Seq(Messages)]
        /\ \A r \in Runs : steer'[r] = steer[r] \/ steer'[r] = <<>>
      BY <1>1, <1>2, <2>1
  <2> QED  BY <1>1, <1>2, <2>1, <2>2, ListsAreCut
<1>4. CASE AbortCancels
  <2>1. /\ abort' = [abort EXCEPT !.at = "look"] /\ "look" \in AbortPlaces
        /\ cancelled' = [cancelled EXCEPT ![abort.run] = @ \/ registered[abort.run]]
        /\ UNCHANGED <<portal, sent, activeRun, activeHarness, born, pc, op, phase, todo, echo,
                       pending, answers, steer>>
      BY <1>4 DEF AbortCancels, AbortPlaces, portalVars, callVars, listVars, statusVars
  <2>2. (cancelled[abort.run] \/ registered[abort.run]) \in BOOLEAN  OBVIOUS
  <2>3. cancelled' \in [Runs -> BOOLEAN]  BY <1>2, <2>1, <2>2
  <2> QED  BY <1>1, <1>2, <2>1, <2>3, ListsAreCut
<1> QED  BY <1>3, <1>4

LEMMA AbortFailsStep ==
  ASSUME RoomInv, AbortFails
  PROVE  IInv'
<1>1. TypeInv /\ BirthInv /\ TodoInv /\ OnceInv /\ ListInv  BY DEF RoomInv, IInv
<1>2. /\ abort' = [abort EXCEPT !.at = "idle", !.run = 0, !.waitFor = 0, !.inLoop = FALSE]
      /\ portal' = IF abort.inLoop THEN [portal EXCEPT !.at = "idle"] ELSE portal
      /\ \/ pending' = pending
         \/ pending' = [pending EXCEPT ![abort.run] = <<>>]
      /\ UNCHANGED <<sent, activeRun, activeHarness, born, pc, op, phase, steer, todo, cancelled,
                     echo, answers>>
    BY DEF AbortFails, At, callVars, harnessVars
<1>3. /\ abort' \in [at : AbortPlaces, run : 0 .. MaxMsgs, waitFor : Nat, count : Nat, inLoop : BOOLEAN]
      /\ abort'.at = "idle" /\ abort'.run = 0 /\ abort'.count = abort.count /\ ~abort'.inLoop
  <2>1. abort \in [at : AbortPlaces, run : 0 .. MaxMsgs, waitFor : Nat, count : Nat, inLoop : BOOLEAN]
      BY <1>1 DEF TypeInv
  <2>2. "idle" \in AbortPlaces /\ 0 \in 0 .. MaxMsgs /\ 0 \in Nat  BY Bounds DEF AbortPlaces
  <2> QED  BY <1>2, <2>1, <2>2
<1>4. abort.count > 0 /\ ~(abort.count = 0)  BY <1>1 DEF AbortFails, ListInv, TypeInv
<1>5. /\ portal' \in [at : PortalPlaces, msg : 0 .. MaxMsgs, run : 0 .. MaxMsgs]
      /\ portal'.msg = portal.msg /\ portal'.run = portal.run
      /\ portal'.at = portal.at \/ (portal.at = "abort" /\ portal'.at = "idle")
    BY <1>1, <1>2 DEF TypeInv, PortalPlaces, ListInv
<1>6. /\ pending' \in [Runs -> Seq(Messages)]
      /\ \A q \in Runs : pending'[q] = pending[q] \/ pending'[q] = <<>>
  <2>1. pending \in [Runs -> Seq(Messages)] /\ <<>> \in Seq(Messages)  BY <1>1 DEF TypeInv
  <2>2. CASE pending' = pending  BY <2>1, <2>2
  <2>3. CASE pending' = [pending EXCEPT ![abort.run] = <<>>]  BY <2>1, <2>3
  <2> QED  BY <1>2, <2>2, <2>3
<1>7. TypeInv'  BY <1>1, <1>2, <1>3, <1>5, <1>6 DEF TypeInv
<1>8. InLoop' <=> InLoop  BY <1>5 DEF InLoop
<1>9. BirthInv'
  <2>1. /\ portal'.at \in {"add", "steer", "retract", "forget"} <=>
             portal.at \in {"add", "steer", "retract", "forget"}
        /\ portal'.at = "publish" <=> portal.at = "publish"
      BY <1>5
  <2>2. abort'.run <= born  BY <1>1, <1>3 DEF TypeInv
  <2> QED  BY <1>1, <1>2, <1>5, <1>6, <1>8, <2>1, <2>2 DEF BirthInv
<1>10. TodoInv'
  <2>1. \A q \in Runs : Writes(q)' <=> Writes(q)  BY <1>2, <1>5 DEF Writes
  <2> QED  BY <1>1, <1>2, <2>1 DEF TodoInv
<1>11. OnceInv'
  <2>1. \A q \in Runs, m \in Messages : Owns(q, m)' <=> Owns(q, m)  BY <1>2 DEF Owns
  <2> QED  BY <1>1, <1>2, <1>5, <1>8, <2>1 DEF OnceInv
<1>12. ListInv'
  <2>1. \A q \in Runs : Offered(q, <<>>)' = Offered(q, <<>>)  BY <1>5 DEF Offered
  <2> QED  BY <1>1, <1>2, <1>3, <1>4, <1>6, <2>1 DEF ListInv
<1> QED  BY <1>7, <1>9, <1>10, <1>11, <1>12 DEF IInv
-----------------------------------------------------------------------------
(* The invariant holds. *)

LEMMA InitIsSound == Init => RoomInv
<1> SUFFICES ASSUME Init PROVE RoomInv  OBVIOUS
<1> USE DEF Init
<1>1. TypeInv  BY Bounds DEF TypeInv, PortalPlaces, Places, AbortPlaces
<1>2. BirthInv  BY Bounds DEF BirthInv, InLoop
<1>3. TodoInv  BY DEF TodoInv, Writes, Asks, Between
<1>4. OnceInv
  <2>1. Elements(<<>>) = {}  BY DEF Elements
  <2>2. \A r \in Runs, m \in Messages : ~Owns(r, m)  BY <2>1, Bounds DEF Owns
  <2>3. ~InLoop  BY DEF InLoop
  <2>4. \A r \in Runs : steer[r] = <<>> /\ todo[r] \notin Elements(steer[r])  BY <2>1
  <2> QED  BY <2>2, <2>3, <2>4 DEF OnceInv
<1>5. ListInv
  <2>1. \A r \in Runs : pending[r] = Offered(r, Queue(r))  BY DEF Offered, Queue
  <2>2. abort.at = "idle" /\ portal.at = "idle" /\ ~abort.inLoop  OBVIOUS
  <2>3. \A r \in Runs : ~cancelled[r] /\ pending[r] = <<>>  OBVIOUS
  <2> QED  BY <2>1, <2>2, <2>3 DEF ListInv
<1>6. AbortInv  BY DEF AbortInv
<1> QED  BY <1>1, <1>2, <1>3, <1>4, <1>5, <1>6 DEF RoomInv, IInv

LEMMA NextKeepsAbortInv ==
  ASSUME RoomInv, [Next]_vars
  PROVE  AbortInv'
<1>1. runID \in [Runs -> Nat] /\ (abort.at \in {"clear", "cancel", "look"} => abort.run > 0)
    BY DEF RoomInv, AbortInv
<1>2. /\ abort \in [at : AbortPlaces, run : 0 .. MaxMsgs, waitFor : Nat, count : Nat, inLoop : BOOLEAN]
      /\ activeHarness \in 0 .. MaxMsgs
    BY DEF RoomInv, IInv, TypeInv
<1>3. CASE Receive \/ Portal
    BY <1>1, <1>3 DEF Receive, Portal, AddPending, Steer, RemovePending, ClearActiveRun,
                      SetActiveHarness, SetActiveRun, StartFails, harnessVars, AbortInv
<1>4. ASSUME NEW r \in Runs, Run(r)  PROVE AbortInv'
  <2>1. abort' = abort
      BY <1>4 DEF Run, EnterHarness, StartRun, Write, MarkConsumed, Drain, Respond, RespondBlocked,
                  CallCut, CompactEnds, SetIdle, FinishRun, AfterCall, FailConsumed, FailAll,
                  ClearRun, ClearHarness
  <2>2. runID' \in {runID, [runID EXCEPT ![r] = @ + 1], [runID EXCEPT ![r] = 0]}
      BY <1>4 DEF Run, EnterHarness, StartRun, Write, MarkConsumed, Drain, Respond, RespondBlocked,
                  CallCut, CompactEnds, SetIdle, FinishRun, AfterCall, FailConsumed, FailAll,
                  ClearRun, ClearHarness, harnessVars
  <2>3. runID' \in [Runs -> Nat]  BY <1>1, <1>4, <2>2
  <2> QED  BY <1>1, <2>1, <2>3 DEF AbortInv
<1>5. CASE AbortBegins
  <2>1. /\ abort' = [at |-> "clear", run |-> activeHarness, waitFor |-> 0,
                     count |-> abort.count + 1, inLoop |-> portal' # portal]
        /\ activeHarness # 0 /\ runID' = runID
      BY <1>5 DEF AbortBegins, harnessVars
  <2> QED  BY <1>1, <1>2, <2>1, Bounds DEF AbortInv
<1>6. CASE Abort
  <2>1. runID' = runID
      BY <1>6 DEF Abort, AbortClears, AbortCancels, AbortLooks, AbortReturns, AbortFails, harnessVars
  <2>2. CASE AbortClears \/ AbortCancels
      BY <1>1, <1>2, <2>1, <2>2 DEF AbortClears, AbortCancels, AbortInv
  <2>3. CASE AbortLooks \/ AbortReturns \/ AbortFails
      BY <1>1, <1>2, <2>1, <2>3 DEF AbortLooks, AbortReturns, AbortFails, AbortInv
  <2> QED  BY <1>6, <2>2, <2>3 DEF Abort
<1>7. CASE UNCHANGED vars  BY <1>1, <1>7 DEF vars, harnessVars, AbortInv
<1> QED  BY <1>3, <1>4, <1>5, <1>6, <1>7 DEF Next

LEMMA StutterStep ==
  ASSUME IInv, UNCHANGED vars
  PROVE  IInv'
<1>1. TypeInv /\ BirthInv /\ TodoInv /\ OnceInv /\ ListInv  BY DEF IInv
<1>2. UNCHANGED <<portal, sent, activeRun, activeHarness, born, pc, op, phase, steer, todo,
                  cancelled, pending, echo, answers, abort>>
    BY DEF vars, portalVars, callVars, harnessVars, listVars, statusVars
<1>3. /\ abort \in [at : AbortPlaces, run : 0 .. MaxMsgs, waitFor : Nat, count : Nat, inLoop : BOOLEAN]
      /\ abort.run <= born /\ (abort.at # "idle" \/ portal.at = "abort" => abort.count > 0)
      /\ abort.inLoop => portal.at = "abort"
    BY <1>1 DEF TypeInv, BirthInv, ListInv
<1> QED  BY <1>2, <1>3, LoopMoves

LEMMA NextKeepsRoomInv ==
  ASSUME RoomInv, [Next]_vars
  PROVE  RoomInv'
<1>1. IInv  BY DEF RoomInv
<1>2. IInv'
  <2>1. CASE Receive  BY <1>1, <2>1, ReceiveStep
  <2>2. CASE Portal
      BY <1>1, <2>2, AddPendingStep, SteerStep, RemovePendingStep, LoopSteps,
         SetActiveHarnessStep, SetActiveRunStep DEF Portal
  <2>3. ASSUME NEW r \in Runs, Run(r)  PROVE IInv'
      BY <1>1, <2>3, QuietSteps, WriteStep, MarkConsumedStep, DrainStep, CallCutStep, FailAllStep
      DEF Run
  <2>4. CASE AbortBegins  BY <1>1, <2>4, AbortBeginsStep
  <2>5. CASE Abort  BY <2>5, AbortCuts, AbortWaits, AbortFailsStep DEF Abort
  <2>6. CASE UNCHANGED vars  BY <1>1, <2>6, StutterStep
  <2> QED  BY <2>1, <2>2, <2>3, <2>4, <2>5, <2>6 DEF Next
<1> QED  BY <1>2, NextKeepsAbortInv DEF RoomInv

\* Every message of the room is at one place at a time on its way to the session, and what
\* a run has pending is, in order, what it is yet to write: addPending and Steer, and
\* markConsumed and the write it follows, are two calls each, and the room's goroutines
\* run between them.
THEOREM RoomIsSound == Spec => []RoomInv
<1>1. (RoomInv /\ [Next]_vars) => RoomInv'  BY NextKeepsRoomInv
<1> QED  BY InitIsSound, <1>1, PTL DEF Spec

\* A message is written at most once and its echo carries the entry it was written as,
\* however many runs of the room overlap (client.go markConsumed).
THEOREM MessagesEchoTheirEntry == Spec => []EchoesOwnEntry
<1>1. RoomInv => EchoesOwnEntry
  <2> SUFFICES ASSUME RoomInv PROVE EchoesOwnEntry  OBVIOUS
  <2>1. answers \in [Messages -> {0, 1}]  BY DEF RoomInv, IInv, TypeInv
  <2>2. abort.count = 0 => \A m \in Messages : echo[m] \in {0, m}  BY DEF RoomInv, IInv, ListInv
  <2>3. \A m \in Messages : answers[m] <= 1  BY <2>1
  <2> QED  BY <2>2, <2>3 DEF EchoesOwnEntry
<1> QED  BY RoomIsSound, <1>1, PTL

\* A run whose goroutine has returned has no message pending but the one the loop has just
\* offered it and is about to take back (client.go failAll, removePending).
THEOREM DeadRunsAreEmpty == Spec => []DeadRunsHoldNothing
<1>1. RoomInv => DeadRunsHoldNothing
  <2> SUFFICES ASSUME RoomInv, NEW r \in Runs, pc[r] = "dead", NEW m \in Elements(pending[r])
               PROVE  portal.run = r /\ portal.msg = m /\ portal.at # "idle"
      BY DEF DeadRunsHoldNothing
  <2>1. pending[r] = <<>> \/ pending[r] = Offered(r, <<>>)  BY DEF RoomInv, IInv, ListInv, Over
  <2>2. Elements(<<>>) = {}  BY DEF Elements
  <2>3. /\ portal.run = r /\ portal.at \in {"steer", "retract"}
        /\ pending[r] = Append(<<>>, portal.msg)
      BY <2>1, <2>2 DEF Offered
  <2>4. Elements(Append(<<>>, portal.msg)) = {portal.msg}  BY DEF Elements
  <2> QED  BY <2>3, <2>4
<1> QED  BY RoomIsSound, <1>1, PTL

=============================================================================
