------------------------- MODULE SessionTreeProofs -------------------------
(***************************************************************************)
(* Proofs about SessionTree, for any number of writers and entries: the    *)
(* tree is a forest whose leaf is there; an append that finished stays on  *)
(* the branch until the leaf is moved; a compaction keeps the suffix it    *)
(* names, a move collects what it leaves behind, and a fork has the branch *)
(* it was asked for.                                                       *)
(***************************************************************************)
EXTENDS SessionTree, FiniteSetTheorems, WellFoundedInduction, TLAPS

\* What a writer holds between its calls still fits the tree when it inserts:
\* it has an id, and the leaf or target it read is an entry as long as the
\* session exists (entries are never removed one by one).
CallsOK ==
    \A w \in Writers :
        /\ calls[w].pc = "write" => calls[w].id # 0
        /\ (calls[w].pc = "readleaf" /\ calls[w].kind # "leaf") => calls[w].id # 0
        /\ alive => calls[w].parent \in IdsOf(rows) \cup {0}
        /\ (alive /\ calls[w].kind = "leaf") => calls[w].target \in IdsOf(rows) \cup {0}

IInv == TypeOK /\ TreeOK /\ CallsOK

\* An id of an entry names one
LEMMA IndexOfId ==
    ASSUME NEW id, id \in IdsOf(rows)
    PROVE  IndexOf(rows, id) \in DOMAIN rows /\ rows[IndexOf(rows, id)].id = id
BY DEF IdsOf, IndexOf

\* The node NavigateTree moves to is an entry or the root
LEMMA NewLeafKnown ==
    ASSUME TypeOK, TreeOK, NEW t \in IdsOf(rows)
    PROVE  NewLeaf(t) \in Nat /\ NewLeaf(t) \in IdsOf(rows) \cup {0}
<1> DEFINE i == IndexOf(rows, t)
<1>1. i \in DOMAIN rows /\ rows[i].id = t
  BY IndexOfId
<1>2. rows[i] \in Row
  BY <1>1 DEF TypeOK
<1>3. rows[i].parent \in IdsOf(rows) \cup {0}
  <2>1. CASE rows[i].parent # 0
    <3>1. PICK j \in 1 .. (i - 1) : rows[j].id = rows[i].parent
      BY <2>1, <1>1 DEF TreeOK
    <3>2. i \in 1 .. Len(rows) /\ Len(rows) \in Nat /\ DOMAIN rows = 1 .. Len(rows)
      BY <1>1 DEF TypeOK
    <3>3. j \in DOMAIN rows
      BY <3>1, <3>2
    <3> QED BY <3>1, <3>3 DEF IdsOf
  <2> QED BY <2>1
<1> QED
  BY <1>1, <1>2, <1>3 DEF NewLeaf, Row

\* The insert of a well-formed entry keeps the tree: ids stay unique, its parent
\* is there before it, and the new leaf is an entry
LEMMA InsertKeepsTree ==
    ASSUME TypeOK, TreeOK, NEW row \in Row, NEW next \in Nat, Insert(row, next),
           Len(rows) < MaxRows, SessionTreeAssumption,
           alive => row.parent \in IdsOf(rows) \cup {0},
           alive => next \in IdsOf(rows) \cup {0, row.id}
    PROVE  /\ rows' \in Seq(Row)
           /\ Len(rows') <= MaxRows
           /\ \A i, j \in DOMAIN rows' : rows'[i].id = rows'[j].id => i = j
           /\ leaf' \in Nat
           /\ TreeOK'
           /\ IdsOf(rows) \subseteq IdsOf(rows')
<1>1. CASE ~Accepts(row.id)
  BY <1>1 DEF Insert, TypeOK, TreeOK, IdsOf
<1>2. CASE Accepts(row.id)
  <2>1. rows' = Append(rows, row) /\ leaf' = next /\ alive /\ row.id \notin IdsOf(rows)
    BY <1>2 DEF Insert, Accepts
  <2>2. /\ rows' \in Seq(Row) /\ Len(rows') = Len(rows) + 1
        /\ rows'[Len(rows) + 1] = row
        /\ \A i \in 1 .. Len(rows) : rows'[i] = rows[i]
        /\ DOMAIN rows = 1 .. Len(rows) /\ DOMAIN rows' = 1 .. (Len(rows) + 1)
        /\ Len(rows) \in Nat
    BY <2>1 DEF TypeOK
  <2>3. Len(rows') <= MaxRows
    BY <2>2 DEF SessionTreeAssumption
  <2>4. \A i \in 1 .. Len(rows) : rows[i].id # row.id
    BY <2>1, <2>2 DEF IdsOf
  <2>5. \A i, j \in DOMAIN rows' : rows'[i].id = rows'[j].id => i = j
    <3>1. SUFFICES ASSUME NEW i \in DOMAIN rows', NEW j \in DOMAIN rows', rows'[i].id = rows'[j].id
                   PROVE  i = j
      OBVIOUS
    <3>2. \A k, l \in DOMAIN rows : rows[k].id = rows[l].id => k = l
      BY DEF TypeOK
    <3>3. \A k \in DOMAIN rows' : k \in DOMAIN rows \/ k = Len(rows) + 1
      BY <2>2
    <3>4. i \in DOMAIN rows \/ i = Len(rows) + 1
      BY <3>3
    <3>5. j \in DOMAIN rows \/ j = Len(rows) + 1
      BY <3>3
    <3>6. CASE i \in DOMAIN rows /\ j \in DOMAIN rows
      BY <2>2, <3>1, <3>2, <3>6
    <3>7. CASE i = Len(rows) + 1 \/ j = Len(rows) + 1
      BY <2>2, <2>4, <3>1, <3>4, <3>5, <3>7
    <3> QED BY <3>4, <3>5, <3>6, <3>7
  <2>6. IdsOf(rows') = IdsOf(rows) \cup {row.id}
    <3>1. \A i \in DOMAIN rows' : i \in DOMAIN rows \/ i = Len(rows) + 1
      BY <2>2
    <3> QED BY <2>2, <3>1 DEF IdsOf
  <2>7. ASSUME NEW i \in DOMAIN rows', rows'[i].parent # 0
        PROVE  \E j \in 1 .. (i - 1) : rows'[j].id = rows'[i].parent
    <3>1. CASE i \in 1 .. Len(rows)
      <4>1. PICK j \in 1 .. (i - 1) : rows[j].id = rows[i].parent
        BY <3>1, <2>2, <2>7 DEF TreeOK
      <4>2. j \in 1 .. Len(rows)
        BY <3>1, <2>2
      <4> QED BY <4>1, <4>2, <2>2, <3>1
    <3>2. CASE i = Len(rows) + 1
      <4>1. PICK j \in 1 .. Len(rows) : rows[j].id = row.parent
        BY <3>2, <2>1, <2>2, <2>7 DEF IdsOf
      <4> QED BY <4>1, <2>2, <3>2
    <3> QED BY <3>1, <3>2, <2>2
  <2>8. leaf' # 0 => leaf' \in IdsOf(rows')
    BY <2>1, <2>6
  <2> QED BY <2>1, <2>2, <2>3, <2>5, <2>6, <2>7, <2>8 DEF TreeOK
<1> QED BY <1>1, <1>2

LEMMA InitOK == Init => IInv
<1> SUFFICES ASSUME Init PROVE IInv
  OBVIOUS
<1>1. rows = <<>> /\ rows \in Seq(Row) /\ Len(rows) = 0 /\ DOMAIN rows = {} /\ leaf = 0
  BY DEF Init
<1>2. Len(rows) <= MaxRows
  BY <1>1, SessionTreeAssumption DEF SessionTreeAssumption
<1>3. TypeOK
  BY <1>1, <1>2 DEF Init, TypeOK, Idle, Pcs, Kinds, Messages
<1>4. TreeOK
  BY <1>1 DEF TreeOK
<1>5. CallsOK
  BY DEF Init, CallsOK, Idle
<1> QED BY <1>3, <1>4, <1>5 DEF IInv

\* The steps that only change a writer's progress
LEMMA QuietStep ==
    ASSUME IInv, UNCHANGED <<rows, leaf, alive>>,
           NEW w \in Writers, NEW c \in [pc : Pcs, kind : Kinds, target : Nat, began : Nat,
                                         id : Nat, parent : Nat, summary : BOOLEAN],
           calls' = [calls EXCEPT ![w] = c],
           c.pc = "write" => c.id # 0,
           (c.pc = "readleaf" /\ c.kind # "leaf") => c.id # 0,
           alive => c.parent \in IdsOf(rows) \cup {0},
           (alive /\ c.kind = "leaf") => c.target \in IdsOf(rows) \cup {0}
    PROVE  IInv'
<1>1. /\ rows' = rows /\ leaf' = leaf /\ alive' = alive
      /\ IdsOf(rows') = IdsOf(rows)
  BY DEF IdsOf
<1>2. calls' \in [Writers -> [pc : Pcs, kind : Kinds, target : Nat, began : Nat,
                              id : Nat, parent : Nat, summary : BOOLEAN]]
  BY DEF IInv, TypeOK
<1>3. TypeOK'
  BY <1>1, <1>2 DEF IInv, TypeOK
<1>4. TreeOK'
  BY <1>1 DEF IInv, TreeOK
<1>5. ASSUME NEW v \in Writers PROVE calls'[v] = c \/ calls'[v] = calls[v]
  BY DEF IInv, TypeOK
<1>6. CallsOK'
  BY <1>1, <1>5 DEF IInv, CallsOK
<1> QED BY <1>3, <1>4, <1>6 DEF IInv

LEMMA StepOK ==
    ASSUME IInv, [Next]_vars, SessionTreeAssumption PROVE IInv'
<1> DEFINE CallType == [pc : Pcs, kind : Kinds, target : Nat, began : Nat,
                        id : Nat, parent : Nat, summary : BOOLEAN]
<1> USE DEF Pcs, Kinds, Messages
<1>idle. /\ Idle \in CallType /\ Idle.pc = "idle" /\ Idle.parent = 0 /\ Idle.kind = "user"
  BY DEF Idle
<1>typed. \A w \in Writers : calls[w] \in CallType
  BY DEF IInv, TypeOK
<1>rows. rows \in Seq(Row) /\ Len(rows) \in Nat /\ DOMAIN rows = 1 .. Len(rows)
  BY DEF IInv, TypeOK
<1>begin. ASSUME NEW w \in Writers, NEW kind \in {"user", "assistant", "delete", "compaction"},
                 NEW t \in Nat, Begin(w, kind, t, "create")
          PROVE  IInv'
  <2> DEFINE c == [Idle EXCEPT !.pc = "create", !.kind = kind, !.target = t, !.began = Len(rows)]
  <2>1. c \in CallType /\ c.pc = "create" /\ c.parent = 0 /\ c.kind = kind
    BY <1>rows DEF Idle
  <2>2. calls' = [calls EXCEPT ![w] = c] /\ UNCHANGED <<rows, leaf, alive>>
    BY <1>begin DEF Begin
  <2> QED BY <2>1, <2>2, QuietStep
<1>move. ASSUME NEW w \in Writers, NEW t \in IdsOf(rows) \cup {0}, t \in Nat,
                NEW s \in BOOLEAN, Move(w, t, s)
         PROVE  IInv'
  <2> DEFINE c == [Idle EXCEPT !.pc = "readleaf", !.kind = "leaf", !.target = t, !.summary = s]
  <2>1. c \in CallType /\ c.pc = "readleaf" /\ c.parent = 0 /\ c.kind = "leaf" /\ c.target = t
    BY <1>move DEF Idle
  <2>2. calls' = [calls EXCEPT ![w] = c] /\ UNCHANGED <<rows, leaf, alive>>
    BY <1>move DEF Move
  <2> QED BY <2>1, <2>2, QuietStep
<1>ids. ASSUME NEW i \in DOMAIN rows PROVE rows[i].id \in Nat \ {0} /\ rows[i].id \in IdsOf(rows)
  <2>1. rows[i] \in Row
    BY <1>rows
  <2> QED BY <2>1 DEF Row, IdsOf
<1>1. ASSUME NEW w \in Writers, AppendMessage(w) PROVE IInv'
  BY <1>1, <1>begin DEF AppendMessage
<1>2. ASSUME NEW w \in Writers, AppendMessageDeletion(w) PROVE IInv'
  BY <1>2, <1>begin, <1>ids DEF AppendMessageDeletion
<1>3. ASSUME NEW w \in Writers, AppendCompaction(w) PROVE IInv'
  BY <1>3, <1>begin, <1>ids DEF AppendCompaction
<1>4. ASSUME NEW w \in Writers, CreateEntryID(w) PROVE IInv'
  <2>1. PICK id \in FreshIds :
          calls' = [calls EXCEPT
                      ![w].id = id,
                      ![w].pc = IF calls[w].kind = "leaf" THEN "write" ELSE "readleaf"]
    BY <1>4 DEF CreateEntryID
  <2>2. id \in Nat /\ id # 0
    <3>1. \A n \in NewIds : n \in Nat /\ n # 0
      BY DEF NewIds
    <3>2. \A n \in GivenIds : n \in Nat /\ n # 0
      BY <1>typed DEF GivenIds
    <3> QED BY <3>1, <3>2 DEF FreshIds
  <2> DEFINE c == [calls[w] EXCEPT
                     !.id = id, !.pc = IF calls[w].kind = "leaf" THEN "write" ELSE "readleaf"]
  <2>3. /\ c \in CallType /\ c.id = id /\ c.kind = calls[w].kind
        /\ c.parent = calls[w].parent /\ c.target = calls[w].target
    BY <2>2, <1>typed
  <2>4. calls' = [calls EXCEPT ![w] = c] /\ UNCHANGED <<rows, leaf, alive>>
    BY <2>1, <1>4 DEF CreateEntryID, IInv, TypeOK
  <2>5. /\ alive => c.parent \in IdsOf(rows) \cup {0}
        /\ (alive /\ c.kind = "leaf") => c.target \in IdsOf(rows) \cup {0}
    BY <2>3 DEF IInv, CallsOK
  <2> QED BY <2>2, <2>3, <2>4, <2>5, QuietStep
<1>5. ASSUME NEW w \in Writers, ReadLeaf(w) PROVE IInv'
  <2>1. CASE ~LeafReadable
    BY <2>1, <1>5, <1>idle, QuietStep DEF ReadLeaf
  <2>2. CASE LeafReadable
    <3> DEFINE c == [calls[w] EXCEPT
                       !.parent = leaf, !.pc = IF calls[w].kind = "leaf" THEN "create" ELSE "write"]
    <3>1. /\ c \in CallType /\ c.parent = leaf /\ c.kind = calls[w].kind
          /\ c.id = calls[w].id /\ c.target = calls[w].target
          /\ c.pc = IF calls[w].kind = "leaf" THEN "create" ELSE "write"
      BY <1>typed DEF IInv, TypeOK
    <3>2. calls' = [calls EXCEPT ![w] = c] /\ UNCHANGED <<rows, leaf, alive>>
      BY <2>2, <1>5 DEF ReadLeaf, IInv, TypeOK
    <3>3. leaf \in IdsOf(rows) \cup {0} /\ calls[w].pc = "readleaf"
      BY <2>2, <1>5 DEF LeafReadable, ReadLeaf
    <3>4. /\ c.pc = "write" => c.id # 0
          /\ c.pc # "readleaf" /\ c.parent \in IdsOf(rows) \cup {0}
          /\ (alive /\ c.kind = "leaf") => c.target \in IdsOf(rows) \cup {0}
      BY <3>1, <3>3 DEF IInv, CallsOK
    <3> HIDE DEF c
    <3> QED BY <3>1, <3>2, <3>4, QuietStep
  <2> QED BY <2>1, <2>2
<1>insert. ASSUME NEW w \in Writers, calls[w].pc = "write", Len(rows) < MaxRows,
                  NEW next \in Nat, Insert(Entry(w), next), UNCHANGED alive,
                  alive => next \in IdsOf(rows) \cup {0, calls[w].id},
                  NEW c \in CallType, calls' = [calls EXCEPT ![w] = c],
                  c.pc \in {"idle", "create"}, c.kind # "leaf", c.parent = 0
           PROVE  IInv'
  <2>1. Entry(w) \in Row /\ Entry(w).parent = calls[w].parent /\ Entry(w).id = calls[w].id
    BY <1>insert, <1>typed DEF Entry, Row, IInv, CallsOK
  <2>2. alive => Entry(w).parent \in IdsOf(rows) \cup {0}
    BY <2>1 DEF IInv, CallsOK
  <2>3. /\ rows' \in Seq(Row)
        /\ Len(rows') <= MaxRows
        /\ \A i, j \in DOMAIN rows' : rows'[i].id = rows'[j].id => i = j
        /\ leaf' \in Nat
        /\ TreeOK'
        /\ IdsOf(rows) \subseteq IdsOf(rows')
    BY <1>insert, <2>1, <2>2, InsertKeepsTree DEF IInv
  <2>4. TypeOK'
    BY <1>insert, <2>3 DEF IInv, TypeOK
  <2>5. CallsOK'
    BY <1>insert, <2>3 DEF IInv, TypeOK, CallsOK
  <2> QED BY <2>3, <2>4, <2>5 DEF IInv
<1>6. ASSUME NEW w \in Writers, AppendEntry(w) PROVE IInv'
  BY <1>6, <1>insert, <1>idle, <1>typed DEF AppendEntry
<1>7. ASSUME NEW w \in Writers, CallFails(w) PROVE IInv'
  BY <1>7, <1>idle, QuietStep DEF CallFails
<1>8. ASSUME NEW w \in Writers, MoveTo(w) PROVE IInv'
  <2>1. \A t \in IdsOf(rows) \cup {0} : t \in Nat
    BY <1>ids DEF IdsOf
  <2> QED BY <1>8, <2>1, <1>move DEF MoveTo
<1>9. ASSUME NEW w \in Writers, NavigateTree(w) PROVE IInv'
  BY <1>9, NewLeafKnown, <1>move DEF NavigateTree, IInv
<1>10. ASSUME NEW w \in Writers, SetLeafID(w) PROVE IInv'
  <2> DEFINE s == [Idle EXCEPT !.pc = "create", !.kind = "summary",
                               !.target = calls[w].target, !.began = Len(rows) + 1]
  <2>0. calls[w].target \in Nat /\ Len(rows) + 1 \in Nat
    BY <1>typed, <1>rows
  <2>1. s \in CallType /\ s.pc = "create" /\ s.kind = "summary" /\ s.parent = 0
    BY <2>0 DEF Idle
  <2>2. PICK c \in {s, Idle} : calls' = [calls EXCEPT ![w] = c]
    BY <1>10 DEF SetLeafID
  <2>3. alive => calls[w].target \in IdsOf(rows) \cup {0}
    BY <1>10 DEF SetLeafID, IInv, CallsOK
  <2>4. c \in CallType /\ c.pc \in {"idle", "create"} /\ c.kind # "leaf" /\ c.parent = 0
    BY <2>1, <2>2, <1>idle
  <2>5. /\ calls[w].pc = "write" /\ Len(rows) < MaxRows /\ UNCHANGED alive
        /\ Insert(Entry(w), calls[w].target)
    BY <1>10 DEF SetLeafID
  <2> QED BY <2>0, <2>2, <2>3, <2>4, <2>5, <1>insert
<1>11. CASE DeleteSession
  <2>1. rows' = <<>> /\ leaf' = 0 /\ alive' = FALSE /\ calls' = calls
    BY <1>11 DEF DeleteSession
  <2>2. rows' \in Seq(Row) /\ Len(rows') = 0 /\ DOMAIN rows' = {}
    BY <2>1
  <2>3. Len(rows') <= MaxRows
    BY <2>2 DEF SessionTreeAssumption
  <2>4. TypeOK'
    BY <2>1, <2>2, <2>3 DEF IInv, TypeOK
  <2>5. TreeOK' /\ CallsOK'
    BY <2>1, <2>2 DEF TreeOK, CallsOK, IInv
  <2> QED BY <2>4, <2>5 DEF IInv
<1>12. CASE UNCHANGED vars
  BY <1>12 DEF vars, IInv, TypeOK, TreeOK, CallsOK, IdsOf
<1> QED
  BY <1>1, <1>2, <1>3, <1>4, <1>5, <1>6, <1>7, <1>8, <1>9, <1>10, <1>11, <1>12 DEF Next

THEOREM InductiveInvariant == Spec => []IInv
<1>1. SessionTreeAssumption => (Init => IInv)
  BY InitOK
<1> QED BY InitOK, StepOK, SessionTreeAssumption, PTL DEF Spec

\* The rows are a table keyed by id, whatever two writers are given in the same
\* 65 seconds (CreateEntryID, AppendEntry).
THEOREM TypeCorrect == Spec => []TypeOK
BY InductiveInvariant, PTL DEF IInv

\* Every entry's parent was inserted before it and the leaf is an entry, for any
\* number of writers, moves, failures, and a deletion in between.
THEOREM TreeCorrect == Spec => []TreeOK
BY InductiveInvariant, PTL DEF IInv

----------------------------------------------------------------------------
(* Branches *)

\* What GetPathToRoot may rely on: ids name entries, parents come first
Forest(es) ==
    /\ es \in Seq(Row)
    /\ \A i, j \in DOMAIN es : es[i].id = es[j].id => i = j
    /\ \A i \in DOMAIN es : es[i].parent # 0 => \E j \in 1 .. (i - 1) : es[j].id = es[i].parent

Up(es, i) == IndexOf(es, es[i].parent)

\* The ancestors of an entry: what every set has that has the entry and is closed
\* under parents
Closed(es, S) == \A k \in S : es[k].parent # 0 => Up(es, k) \in S
Ancestors(es, i) ==
    {j \in DOMAIN es : \A S \in SUBSET DOMAIN es : i \in S /\ Closed(es, S) => j \in S}

\* The equation that defines the function inside Path
Climbs(es, f) ==
    f = [i \in DOMAIN es |->
           {i} \cup IF es[i].parent = 0 THEN {} ELSE f[IndexOf(es, es[i].parent)]]

LEMMA IndexIs ==
    ASSUME NEW es, Forest(es), NEW i \in DOMAIN es
    PROVE  IndexOf(es, es[i].id) = i
BY DEF Forest, IndexOf

LEMMA ParentIsThere ==
    ASSUME NEW es, Forest(es), NEW i \in DOMAIN es, es[i].parent # 0
    PROVE  Up(es, i) \in DOMAIN es /\ Up(es, i) < i /\ es[Up(es, i)].id = es[i].parent
<1>1. DOMAIN es = 1 .. Len(es) /\ Len(es) \in Nat
  BY DEF Forest
<1>2. PICK j \in 1 .. (i - 1) : es[j].id = es[i].parent
  BY DEF Forest
<1>3. j \in DOMAIN es /\ j < i
  BY <1>1, <1>2
<1>4. Up(es, i) = j
  BY <1>2, <1>3, IndexIs DEF Up
<1> QED BY <1>2, <1>3, <1>4

LEMMA AncestorsClimb ==
    ASSUME NEW es, Forest(es), NEW i \in DOMAIN es
    PROVE  Ancestors(es, i) = {i} \cup IF es[i].parent = 0 THEN {} ELSE Ancestors(es, Up(es, i))
<1>1. i \in Ancestors(es, i)
  BY DEF Ancestors
<1>2. CASE es[i].parent = 0
  <2>1. Closed(es, {i}) /\ {i} \in SUBSET DOMAIN es
    BY <1>2 DEF Closed
  <2>2. Ancestors(es, i) \subseteq {i}
    BY <2>1 DEF Ancestors
  <2> QED BY <1>1, <1>2, <2>2
<1>3. CASE es[i].parent # 0
  <2> DEFINE p == Up(es, i)
             T == {i} \cup Ancestors(es, p)
  <2>1. p \in DOMAIN es
    BY <1>3, ParentIsThere
  <2>2. p \in Ancestors(es, p)
    BY <2>1 DEF Ancestors
  <2>3. \A k \in Ancestors(es, p) : es[k].parent # 0 => Up(es, k) \in Ancestors(es, p)
    <3> SUFFICES ASSUME NEW k \in Ancestors(es, p), es[k].parent # 0
                 PROVE  Up(es, k) \in Ancestors(es, p)
      OBVIOUS
    <3>1. k \in DOMAIN es /\ Up(es, k) \in DOMAIN es
      BY ParentIsThere DEF Ancestors
    <3> QED BY <3>1 DEF Ancestors, Closed
  <2>4. Closed(es, T) /\ T \in SUBSET DOMAIN es
    BY <2>2, <2>3 DEF Closed, Ancestors
  <2>5. Ancestors(es, i) \subseteq T
    BY <2>4 DEF Ancestors
  <2>6. Ancestors(es, p) \subseteq Ancestors(es, i)
    BY <1>3 DEF Ancestors, Closed
  <2> QED BY <1>1, <1>3, <2>5, <2>6
<1> QED BY <1>2, <1>3

LEMMA AncestorsAreAPath ==
    ASSUME NEW es, Forest(es)
    PROVE  Climbs(es, [i \in DOMAIN es |-> Ancestors(es, i)])
<1> DEFINE f == [i \in DOMAIN es |-> Ancestors(es, i)]
<1>1. ASSUME NEW i \in DOMAIN es
      PROVE  f[i] = {i} \cup IF es[i].parent = 0 THEN {} ELSE f[IndexOf(es, es[i].parent)]
  <2>1. es[i].parent # 0 => Up(es, i) \in DOMAIN es
    BY ParentIsThere
  <2> QED BY <2>1, AncestorsClimb DEF Up
<1> QED BY <1>1 DEF Climbs

LEMMA LeastIndex ==
    ASSUME NEW S, S \subseteq Nat, S # {}
    PROVE  \E i \in S : \A j \in S : ~(j < i)
<1>1. IsWellFoundedOn(OpToRel(<, Nat), Nat)
  BY NatLessThanWellFounded
<1>2. PICK i \in S : \A j \in S : <<j, i>> \notin OpToRel(<, Nat)
  BY <1>1, WFMin
<1>3. \A j \in S : ~(j < i)
  BY <1>2 DEF OpToRel
<1> QED BY <1>2, <1>3

\* The equation has one solution
LEMMA OnePath ==
    ASSUME NEW es, Forest(es), NEW f, NEW g, Climbs(es, f), Climbs(es, g)
    PROVE  f = g
<1> DEFINE S == {i \in DOMAIN es : f[i] # g[i]}
<1>1. DOMAIN es = 1 .. Len(es) /\ Len(es) \in Nat
  BY DEF Forest
<1>2. CASE S # {}
  <2>1. PICK i \in S : \A j \in S : ~(j < i)
    <3>1. S \subseteq Nat
      BY <1>1
    <3> HIDE DEF S
    <3> QED BY <1>2, <3>1, LeastIndex
  <2>2. /\ f[i] = {i} \cup IF es[i].parent = 0 THEN {} ELSE f[Up(es, i)]
        /\ g[i] = {i} \cup IF es[i].parent = 0 THEN {} ELSE g[Up(es, i)]
    BY <2>1 DEF Climbs, Up
  <2>3. es[i].parent # 0 /\ Up(es, i) \in S
    BY <2>1, <2>2, ParentIsThere
  <2> QED BY <2>1, <2>3, ParentIsThere
<1>3. CASE S = {}
  <2>1. f = [i \in DOMAIN es |-> f[i]] /\ g = [i \in DOMAIN es |-> g[i]]
    BY DEF Climbs
  <2>2. \A i \in DOMAIN es : f[i] = g[i]
    BY <1>3
  <2> QED BY <2>1, <2>2
<1> QED BY <1>2, <1>3

LEMMA PathIs ==
    ASSUME NEW es, Forest(es), NEW id
    PROVE  Path(es, id) = IF id \in IdsOf(es) THEN Ancestors(es, IndexOf(es, id)) ELSE {}
<1> DEFINE up == CHOOSE f : f = [i \in DOMAIN es |->
                     {i} \cup IF es[i].parent = 0 THEN {} ELSE f[IndexOf(es, es[i].parent)]]
<1>1. Path(es, id) = IF id \in IdsOf(es) THEN up[IndexOf(es, id)] ELSE {}
  BY DEF Path
<1>2. Climbs(es, up)
  <2>1. \E f : f = [i \in DOMAIN es |->
                     {i} \cup IF es[i].parent = 0 THEN {} ELSE f[IndexOf(es, es[i].parent)]]
    <3>1. PICK f : Climbs(es, f)
      BY AncestorsAreAPath
    <3> QED BY <3>1, Zenon DEF Climbs
  <2>2. up = [i \in DOMAIN es |->
                     {i} \cup IF es[i].parent = 0 THEN {} ELSE up[IndexOf(es, es[i].parent)]]
    BY <2>1, Zenon
  <2> QED BY <2>2 DEF Climbs
<1> HIDE DEF up
<1>3. up = [i \in DOMAIN es |-> Ancestors(es, i)]
  BY <1>2, AncestorsAreAPath, OnePath
<1>4. id \in IdsOf(es) => IndexOf(es, id) \in DOMAIN es
  BY DEF IdsOf, IndexOf
<1> QED BY <1>1, <1>3, <1>4

\* fs is es with one entry more, as entry n
Extends(fs, es, row, n) ==
    /\ DOMAIN fs = DOMAIN es \cup {n} /\ n \notin DOMAIN es
    /\ fs[n] = row /\ \A i \in DOMAIN es : fs[i] = es[i]
    /\ IdsOf(fs) = IdsOf(es) \cup {row.id}
    /\ \A id \in IdsOf(es) : Path(fs, id) = Path(es, id)
    /\ Path(fs, row.id) = {n} \cup Path(es, row.parent)

\* What is appended moves no index, so it changes no branch
LEMMA AppendedBranches ==
    ASSUME NEW es, Forest(es), NEW row \in Row, NEW fs, fs = Append(es, row), Forest(fs),
           NEW n, n = Len(es) + 1,
           row.parent \in IdsOf(es) \cup {0}
    PROVE  Extends(fs, es, row, n)
<1>1. /\ DOMAIN fs = DOMAIN es \cup {n} /\ n \notin DOMAIN es
      /\ fs[n] = row /\ \A i \in DOMAIN es : fs[i] = es[i]
  <2>1. es \in Seq(Row) /\ DOMAIN es = 1 .. Len(es) /\ Len(es) \in Nat
    BY DEF Forest
  <2>2. /\ DOMAIN fs = 1 .. n /\ fs[n] = row
        /\ \A i \in 1 .. Len(es) : fs[i] = es[i]
    BY <2>1
  <2>3. 1 .. n = (1 .. Len(es)) \cup {n} /\ n \notin 1 .. Len(es)
    BY <2>1
  <2> QED BY <2>1, <2>2, <2>3
<1>2. IdsOf(fs) = IdsOf(es) \cup {row.id}
  BY <1>1 DEF IdsOf
<1>3. \A i \in DOMAIN es : IndexOf(fs, es[i].id) = i /\ IndexOf(es, es[i].id) = i
  <2>1. \A i \in DOMAIN es : IndexOf(fs, fs[i].id) = i
    BY <1>1, IndexIs
  <2> QED BY <1>1, <2>1, IndexIs
<1>4. \A i \in DOMAIN es : es[i].parent # 0 => Up(es, i) \in DOMAIN es /\ Up(fs, i) = Up(es, i)
  <2> SUFFICES ASSUME NEW i \in DOMAIN es, es[i].parent # 0
               PROVE  Up(es, i) \in DOMAIN es /\ Up(fs, i) = Up(es, i)
    OBVIOUS
  <2>1. Up(es, i) \in DOMAIN es /\ es[Up(es, i)].id = es[i].parent
    BY ParentIsThere
  <2>2. fs[i] = es[i] /\ IndexOf(fs, es[Up(es, i)].id) = Up(es, i)
    BY <1>1, <1>3, <2>1
  <2> QED BY <2>1, <2>2 DEF Up
<1>5. \A i \in DOMAIN es : Ancestors(fs, i) = Ancestors(es, i)
  <2> DEFINE f == [i \in DOMAIN es |-> Ancestors(fs, i)]
             g == [i \in DOMAIN es |-> Ancestors(es, i)]
  <2>1. ASSUME NEW i \in DOMAIN es
        PROVE  f[i] = {i} \cup IF es[i].parent = 0 THEN {} ELSE f[IndexOf(es, es[i].parent)]
    <3>1. i \in DOMAIN fs /\ fs[i] = es[i]
      BY <1>1
    <3>2. Ancestors(fs, i) = {i} \cup IF fs[i].parent = 0 THEN {} ELSE Ancestors(fs, Up(fs, i))
      BY <3>1, AncestorsClimb
    <3>3. CASE es[i].parent = 0
      BY <3>1, <3>2, <3>3
    <3>4. CASE es[i].parent # 0
      <4>1. f[Up(es, i)] = Ancestors(fs, Up(fs, i))
        BY <1>4, <3>4
      <4> QED BY <3>1, <3>2, <3>4, <4>1 DEF Up
    <3> QED BY <3>3, <3>4
  <2>2. Climbs(es, f)
    BY <2>1 DEF Climbs
  <2>3. f = g
    <3> HIDE DEF f
    <3>1. Climbs(es, g)
      BY AncestorsAreAPath
    <3> HIDE DEF g
    <3> QED BY <2>2, <3>1, OnePath
  <2> QED BY <2>3
<1>6. \A id \in IdsOf(es) : Path(fs, id) = Path(es, id)
  <2> SUFFICES ASSUME NEW i \in DOMAIN es  PROVE Path(fs, es[i].id) = Path(es, es[i].id)
    BY DEF IdsOf
  <2>1. es[i].id \in IdsOf(es) /\ es[i].id \in IdsOf(fs)
    BY <1>2 DEF IdsOf
  <2> QED BY <1>3, <1>5, <2>1, PathIs
<1>7. Path(fs, row.id) = {n} \cup Path(es, row.parent)
  <2>1. IndexOf(fs, row.id) = n /\ n \in DOMAIN fs
    BY <1>1, IndexIs
  <2>2. Path(fs, row.id) = Ancestors(fs, n)
    BY <1>2, <2>1, PathIs
  <2>3. Ancestors(fs, n) = {n} \cup IF row.parent = 0 THEN {} ELSE Ancestors(fs, Up(fs, n))
    <3>1. Ancestors(fs, n) = {n} \cup IF fs[n].parent = 0 THEN {} ELSE Ancestors(fs, Up(fs, n))
      BY <2>1, AncestorsClimb
    <3> QED BY <1>1, <3>1
  <2>4. CASE row.parent = 0
    <3>1. 0 \notin IdsOf(es)
      <4>1. \A i \in DOMAIN es : es[i] \in Row
        BY DEF Forest
      <4> QED BY <4>1 DEF IdsOf, Row
    <3> QED BY <2>2, <2>3, <2>4, <3>1, PathIs
  <2>5. CASE row.parent # 0
    <3>1. row.parent \in IdsOf(es) /\ row.parent \in IdsOf(fs)
      BY <1>2, <2>5
    <3>2. Path(fs, row.parent) = Ancestors(fs, Up(fs, n))
      BY <1>1, <3>1, PathIs DEF Up
    <3> QED BY <1>6, <2>2, <2>3, <2>5, <3>1, <3>2
  <2> QED BY <2>4, <2>5
<1> QED BY <1>1, <1>2, <1>6, <1>7 DEF Extends

\* The branch of an entry has the entry, and nothing after it
LEMMA PathEndsThere ==
    ASSUME NEW es, Forest(es), NEW i \in DOMAIN es
    PROVE  /\ i \in Path(es, es[i].id) /\ Path(es, es[i].id) \subseteq DOMAIN es
           /\ \A j \in Path(es, es[i].id) : j <= i
<1>1. DOMAIN es = 1 .. Len(es) /\ Len(es) \in Nat
  BY DEF Forest
<1>2. Path(es, es[i].id) = Ancestors(es, i)
  <2>1. es[i].id \in IdsOf(es)
    BY DEF IdsOf
  <2> QED BY <2>1, IndexIs, PathIs
<1>3. Closed(es, 1 .. i) /\ (1 .. i) \in SUBSET DOMAIN es /\ i \in 1 .. i
  <2>1. ASSUME NEW k \in 1 .. i, es[k].parent # 0  PROVE Up(es, k) \in 1 .. i
    <3>1. k \in DOMAIN es
      BY <1>1
    <3>2. Up(es, k) \in DOMAIN es /\ Up(es, k) < k
      BY <2>1, <3>1, ParentIsThere
    <3> QED BY <1>1, <3>2
  <2> QED BY <1>1, <2>1 DEF Closed
<1>4. i \in Ancestors(es, i) /\ Ancestors(es, i) \subseteq 1 .. i /\ Ancestors(es, i) \subseteq DOMAIN es
  BY <1>3 DEF Ancestors
<1> QED BY <1>1, <1>2, <1>4

----------------------------------------------------------------------------
(* What the calls know *)

\* An entry that is off the branch of id was left by a move, or by an append that
\* had begun before the entry
Overtaken(i) == \E k \in (i + 1) .. Len(rows) : rows[k].kind = "leaf" \/ rows[k].began < i
OnPathOrOvertaken(i, id) == rows[i].kind # "leaf" /\ i \notin Path(rows, id) => Overtaken(i)

\* While the session is there: the history a call refers to is a beginning of the
\* entries; the branch it is going to extend lost only what was overtaken; and as long
\* as nobody else has written, it is the branch of the leaf and has the entry
\* from which a compaction keeps
HistoryInv ==
    alive =>
        /\ \A i \in DOMAIN rows : OnPathOrOvertaken(i, leaf)
        /\ \A i \in DOMAIN rows : rows[i].kind = "compaction" /\ rows[i].began = i - 1 =>
             \E k \in Path(rows, rows[i].id) : k < i /\ rows[k].id = rows[i].target
        /\ \A w \in Writers : calls[w].pc # "idle" =>
             /\ calls[w].began <= Len(rows)
             /\ calls[w].kind = "compaction" /\ calls[w].began = Len(rows) =>
                  \E k \in Branch : rows[k].id = calls[w].target
             /\ calls[w].pc = "write" /\ calls[w].kind # "leaf" =>
                  /\ \A i \in 1 .. calls[w].began : OnPathOrOvertaken(i, calls[w].parent)
                  /\ calls[w].began = Len(rows) => calls[w].parent = leaf

LeafInv == (~alive => rows = <<>>) /\ (rows # <<>> => ForkedLeaf(rows) = leaf)

LEMMA ForestIsThere == IInv => Forest(rows) /\ rows \in Seq(Row) /\ Len(rows) \in Nat
                               /\ DOMAIN rows = 1 .. Len(rows)
BY DEF IInv, TypeOK, TreeOK, Forest

\* The steps of a writer between its writes
LEMMA QuietHistory ==
    ASSUME IInv, HistoryInv, UNCHANGED <<rows, leaf, alive>>, NEW w \in Writers, NEW c,
           calls' = [calls EXCEPT ![w] = c],
           alive /\ c.pc # "idle" =>
             /\ c.began <= Len(rows) /\ c.began \in Nat
             /\ c.kind = "compaction" /\ c.began = Len(rows) => \E k \in Branch : rows[k].id = c.target
             /\ c.pc = "write" /\ c.kind # "leaf" => c.parent = leaf
    PROVE  HistoryInv'
<1>1. \A v \in Writers : calls'[v] = IF v = w THEN c ELSE calls[v]
  BY DEF IInv, TypeOK
<1>2. \A i, id : OnPathOrOvertaken(i, id)' = OnPathOrOvertaken(i, id)
  BY DEF OnPathOrOvertaken, Overtaken
<1>3. Branch' = Branch
  BY DEF Branch
<1>4. Len(rows) \in Nat /\ DOMAIN rows = 1 .. Len(rows)
  BY ForestIsThere
<1>5. ASSUME alive, c.pc = "write", c.kind # "leaf"
      PROVE  \A i \in 1 .. c.began : OnPathOrOvertaken(i, c.parent)
  <2>1. c.began <= Len(rows) /\ c.began \in Nat /\ c.parent = leaf
    BY <1>5
  <2>2. \A i \in 1 .. c.began : i \in DOMAIN rows
    BY <1>4, <2>1
  <2> QED BY <1>5, <2>1, <2>2 DEF HistoryInv
<1> QED BY <1>1, <1>2, <1>3, <1>5 DEF HistoryInv

\* The insert of an entry
LEMMA InsertHistory ==
    ASSUME IInv, IInv', HistoryInv, NEW w \in Writers, calls[w].pc = "write",
           NEW next, Insert(Entry(w), next), alive' = alive,
           calls[w].kind # "leaf" => next = calls[w].id,
           NEW c, calls' = [calls EXCEPT ![w] = c],
           c.pc # "idle" => /\ c.pc # "write" /\ c.kind # "compaction"
                            /\ rows' # rows /\ c.began = Len(rows) + 1
    PROVE  HistoryInv'
<1>1. CASE ~Accepts(calls[w].id)
  <2>1. UNCHANGED <<rows, leaf, alive>> /\ c.pc = "idle"
    BY <1>1 DEF Insert, Entry
  <2> QED BY <2>1, QuietHistory
<1>2. CASE Accepts(calls[w].id)
  <2> DEFINE n == Len(rows) + 1
             e == Entry(w)
  <2>1. /\ rows' = Append(rows, e) /\ leaf' = next /\ alive /\ alive'
        /\ e.id = calls[w].id /\ e.parent = calls[w].parent /\ e.kind = calls[w].kind
        /\ e.target = calls[w].target /\ e.began = calls[w].began
    BY <1>2 DEF Insert, Entry, Accepts
  <2> HIDE DEF e
  <2>n. Len(rows) \in Nat /\ n \in Nat /\ n > Len(rows) /\ DOMAIN rows = 1 .. Len(rows)
    BY ForestIsThere
  <2>l. Len(rows') = n /\ DOMAIN rows' = 1 .. n /\ rows'[n] = e
    <3>1. rows \in Seq(Row)
      BY ForestIsThere
    <3> QED BY <2>1, <3>1
  <2>f. Forest(rows) /\ Forest(rows')
    <3>1. Forest(rows')
      BY DEF IInv, TypeOK, TreeOK, Forest
    <3> QED BY <3>1, ForestIsThere
  <2> HIDE DEF n
  <2>2. \A v \in Writers : calls[v].began \in Nat
    BY DEF IInv, TypeOK
  <2>3. /\ e \in Row /\ e.parent \in IdsOf(rows) \cup {0}
        /\ \A v \in Writers : calls[v].parent \in IdsOf(rows) \cup {0}
    <3>1. rows' \in Seq(Row) /\ n \in DOMAIN rows'
      BY <2>n, <2>l DEF n, IInv, TypeOK
    <3>2. e \in Row
      BY <2>l, <3>1
    <3> QED BY <2>1, <3>2 DEF IInv, CallsOK
  <2>4. /\ DOMAIN rows' = DOMAIN rows \cup {n} /\ n \notin DOMAIN rows
        /\ rows'[n] = e /\ \A i \in DOMAIN rows : rows'[i] = rows[i]
        /\ IdsOf(rows') = IdsOf(rows) \cup {e.id}
        /\ \A id \in IdsOf(rows) : Path(rows', id) = Path(rows, id)
        /\ Path(rows', e.id) = {n} \cup Path(rows, e.parent)
    <3>1. PICK es, fs, row, m : es = rows /\ fs = rows' /\ row = e /\ m = n
      OBVIOUS
    <3>2. Forest(es) /\ Forest(fs)
      BY <2>f, <3>1
    <3>3. row \in Row /\ row.parent \in IdsOf(es) \cup {0}
      BY <2>3, <3>1
    <3>4. fs = Append(es, row) /\ m = Len(es) + 1
      BY <2>1, <3>1 DEF n
    <3>5. Extends(fs, es, row, m)
      BY <3>2, <3>3, <3>4, AppendedBranches
    <3>6. IdsOf(fs) = IdsOf(rows)'
      BY <3>1 DEF IdsOf
    <3> QED BY <3>1, <3>5, <3>6 DEF Extends
  <2>5. Path(rows', 0) = {} /\ Path(rows, 0) = {}
    <3>1. \A i \in DOMAIN rows' : rows'[i].id # 0
      <4>1. \A i \in DOMAIN rows' : rows'[i] \in Row
        BY <2>f DEF Forest
      <4> QED BY <4>1 DEF Row
    <3>2. 0 \notin IdsOf(rows') /\ 0 \notin IdsOf(rows)
      BY <2>4, <3>1 DEF IdsOf
    <3> QED BY <2>f, <3>2, PathIs
  <2>6. \A i \in DOMAIN rows : Overtaken(i) => Overtaken(i)'
    <3>1. \A i \in DOMAIN rows : \A k \in (i + 1) .. Len(rows) : k \in DOMAIN rows /\ k \in (i + 1) .. Len(rows')
      BY <2>n, <2>l
    <3> QED BY <2>4, <3>1 DEF Overtaken
  <2>7. \A i \in DOMAIN rows, id \in IdsOf(rows) \cup {0} :
          OnPathOrOvertaken(i, id) => OnPathOrOvertaken(i, id)'
    BY <2>4, <2>5, <2>6 DEF OnPathOrOvertaken
  <2>8. ASSUME NEW i \in DOMAIN rows, e.kind = "leaf" \/ e.began < i  PROVE Overtaken(i)'
    <3>1. n \in (i + 1) .. Len(rows')
      BY <2>n, <2>l
    <3> QED BY <2>4, <2>8, <3>1 DEF Overtaken
  <2>9. ASSUME NEW i \in DOMAIN rows'  PROVE OnPathOrOvertaken(i, leaf)'
    <3>1. CASE e.kind = "leaf"
      <4>1. i \in DOMAIN rows => Overtaken(i)'
        BY <2>8, <3>1
      <4> QED BY <2>4, <3>1, <4>1 DEF OnPathOrOvertaken
    <3>2. CASE e.kind # "leaf"
      <4>1. leaf' = e.id
        BY <2>1, <3>2
      <4>2. CASE i = n
        BY <2>4, <4>1, <4>2 DEF OnPathOrOvertaken
      <4>3. CASE i \in DOMAIN rows /\ e.began < i
        BY <2>8, <4>3 DEF OnPathOrOvertaken
      <4>4. CASE i \in DOMAIN rows /\ ~(e.began < i)
        <5>1. i \in 1 .. calls[w].began
          <6>1. i \in Nat /\ i >= 1
            BY <2>n, <4>4
          <6>2. e.began = calls[w].began
            BY <2>1
          <6>3. calls[w].began \in Nat
            BY <2>2
          <6> QED BY <4>4, <6>1, <6>2, <6>3
        <5>2. OnPathOrOvertaken(i, e.parent)
          BY <2>1, <3>2, <5>1 DEF HistoryInv
        <5>3. rows[i].kind # "leaf" /\ i \notin Path(rows, e.parent) => Overtaken(i)
          BY <5>2 DEF OnPathOrOvertaken
        <5> QED BY <2>4, <2>6, <4>1, <4>4, <5>3 DEF OnPathOrOvertaken
      <4> QED BY <2>4, <4>2, <4>3, <4>4
    <3> QED BY <3>1, <3>2
  <2>10. ASSUME NEW i \in DOMAIN rows', rows'[i].kind = "compaction", rows'[i].began = i - 1
         PROVE  \E k \in Path(rows', rows'[i].id) : k < i /\ rows'[k].id = rows'[i].target
    <3>1. CASE i \in DOMAIN rows
      <4>1. rows'[i] = rows[i] /\ rows[i].id \in IdsOf(rows)
        BY <2>4, <3>1 DEF IdsOf
      <4>2. PICK k \in Path(rows, rows[i].id) : k < i /\ rows[k].id = rows[i].target
        BY <2>1, <2>10, <3>1, <4>1 DEF HistoryInv
      <4>3. k \in DOMAIN rows
        BY <2>f, <3>1, <4>2, PathEndsThere
      <4> QED BY <2>4, <4>1, <4>2, <4>3
    <3>2. CASE i = n
      <4>1. calls[w].kind = "compaction" /\ calls[w].began = Len(rows)
        <5>1. rows'[i] = e
          BY <2>4, <3>2
        <5>2. e.kind = "compaction" /\ e.began = n - 1
          BY <2>10, <3>2, <5>1
        <5>3. n - 1 = Len(rows)
          BY <2>n DEF n
        <5> QED BY <2>1, <5>2, <5>3
      <4>2. PICK k \in Path(rows, leaf) : rows[k].id = calls[w].target
        BY <2>1, <4>1 DEF HistoryInv, Branch
      <4>3. calls[w].parent = leaf
        BY <2>1, <4>1 DEF HistoryInv
      <4>4. k \in DOMAIN rows /\ k < n
        <5>1. leaf \in IdsOf(rows)
          BY <2>f, <4>2, PathIs
        <5>2. k \in DOMAIN rows
          BY <2>f, <4>2, <5>1, PathEndsThere DEF IdsOf
        <5> QED BY <2>n, <5>2
      <4> QED BY <2>1, <2>4, <3>2, <4>2, <4>3, <4>4
    <3> QED BY <2>4, <3>1, <3>2
  <2>11. ASSUME NEW v \in Writers, NEW d, d = calls'[v], d.pc # "idle"
         PROVE  /\ d.began <= Len(rows')
                /\ ~(d.kind = "compaction" /\ d.began = Len(rows'))
                /\ d.pc = "write" /\ d.kind # "leaf" =>
                     /\ \A i \in 1 .. d.began : OnPathOrOvertaken(i, d.parent)'
                     /\ d.began # Len(rows')
    <3>1. d = IF v = w THEN c ELSE calls[v]
      BY <2>11 DEF IInv, TypeOK
    <3>2. CASE v = w
      <4>1. c.pc # "write" /\ c.kind # "compaction" /\ c.began = n
        BY <2>11, <3>1, <3>2 DEF n
      <4> QED BY <2>l, <2>n, <3>1, <3>2, <4>1
    <3>3. CASE v # w
      <4>1. /\ d = calls[v] /\ d.began <= Len(rows) /\ d.began \in Nat
            /\ d.pc = "write" /\ d.kind # "leaf" =>
                 \A i \in 1 .. d.began : OnPathOrOvertaken(i, d.parent)
        BY <2>1, <2>2, <2>11, <3>1, <3>3 DEF HistoryInv
      <4>2. \A i \in 1 .. d.began : i \in DOMAIN rows
        BY <2>n, <4>1
      <4>3. d.began < Len(rows')
        BY <2>n, <2>l, <4>1
      <4>4. d.pc = "write" /\ d.kind # "leaf" =>
                 \A i \in 1 .. d.began : OnPathOrOvertaken(i, d.parent)'
        <5>1. d.parent \in IdsOf(rows) \cup {0}
          BY <2>3, <4>1
        <5> QED BY <2>7, <4>1, <4>2, <5>1
      <4>5. d.began <= Len(rows') /\ d.began # Len(rows')
        BY <2>n, <2>l, <4>1, <4>3
      <4> QED BY <4>4, <4>5
    <3> QED BY <3>2, <3>3
  <2>12. \A v \in Writers : calls'[v].pc # "idle" =>
            /\ calls'[v].began <= Len(rows')
            /\ calls'[v].kind = "compaction" /\ calls'[v].began = Len(rows') => FALSE
            /\ calls'[v].pc = "write" /\ calls'[v].kind # "leaf" =>
                 /\ \A i \in 1 .. calls'[v].began : OnPathOrOvertaken(i, calls[v].parent)'
                 /\ calls'[v].began = Len(rows') => FALSE
    <3>1. TAKE v \in Writers
    <3>2. PICK d : d = calls'[v]
      OBVIOUS
    <3>3. \A i : OnPathOrOvertaken(i, d.parent)' = OnPathOrOvertaken(i, calls[v].parent)'
      BY <3>2 DEF OnPathOrOvertaken, Overtaken
    <3> QED BY <2>11, <3>2, <3>3
  <2> QED BY <2>9, <2>10, <2>12 DEF HistoryInv
<1> QED BY <1>1, <1>2

LEMMA StepHistory ==
    ASSUME IInv, IInv', HistoryInv, [Next]_vars PROVE HistoryInv'
<1>idle. Idle.pc = "idle" /\ Idle.began = 0 /\ Idle.kind = "user"
  BY DEF Idle
<1>typed. /\ calls \in [Writers -> [pc : Pcs, kind : Kinds, target : Nat, began : Nat,
                                    id : Nat, parent : Nat, summary : BOOLEAN]]
          /\ rows \in Seq(Row) /\ Len(rows) \in Nat
  BY DEF IInv, TypeOK
<1>begin. ASSUME NEW w \in Writers, NEW kind \in Kinds, NEW t,
                 kind = "compaction" => \E k \in Branch : rows[k].id = t,
                 Begin(w, kind, t, "create")
          PROVE  HistoryInv'
  <2> DEFINE c == [Idle EXCEPT !.pc = "create", !.kind = kind, !.target = t, !.began = Len(rows)]
  <2>1. c.pc = "create" /\ c.kind = kind /\ c.target = t /\ c.began = Len(rows)
    BY DEF Idle
  <2>2. calls' = [calls EXCEPT ![w] = c] /\ UNCHANGED <<rows, leaf, alive>>
    BY <1>begin DEF Begin
  <2>3. c.began <= Len(rows) /\ c.began \in Nat
    BY <1>typed, <2>1
  <2>4. c.kind = "compaction" => \E k \in Branch : rows[k].id = c.target
    BY <1>begin, <2>1
  <2> HIDE DEF c
  <2> QED BY <2>1, <2>2, <2>3, <2>4, QuietHistory
<1>move. ASSUME NEW w \in Writers, NEW t, NEW s, Move(w, t, s)
         PROVE  HistoryInv'
  <2> DEFINE c == [Idle EXCEPT !.pc = "readleaf", !.kind = "leaf", !.target = t, !.summary = s]
  <2>1. c.pc = "readleaf" /\ c.kind = "leaf" /\ c.began = 0
    BY DEF Idle
  <2>2. calls' = [calls EXCEPT ![w] = c] /\ UNCHANGED <<rows, leaf, alive>>
    BY <1>move DEF Move
  <2>3. c.began <= Len(rows) /\ c.began \in Nat
    BY <1>typed, <2>1
  <2> HIDE DEF c
  <2> QED BY <2>1, <2>2, <2>3, QuietHistory
\* the call goes on, and refers to the same history
<1>goes. ASSUME NEW w \in Writers, calls[w].pc # "idle", UNCHANGED <<rows, leaf, alive>>, NEW c,
                calls' = [calls EXCEPT ![w] = c], c.kind = calls[w].kind,
                c.began = calls[w].began, c.target = calls[w].target,
                c.pc = "write" /\ c.kind # "leaf" => c.parent = leaf
         PROVE  HistoryInv'
  <2>1. calls[w].began \in Nat
    BY <1>typed
  <2>2. alive => /\ calls[w].began <= Len(rows)
                 /\ calls[w].kind = "compaction" /\ calls[w].began = Len(rows) =>
                      \E k \in Branch : rows[k].id = calls[w].target
    BY <1>goes DEF HistoryInv
  <2> QED BY <1>goes, <2>1, <2>2, QuietHistory
<1>ends. ASSUME NEW w \in Writers, UNCHANGED <<rows, leaf, alive>>, calls' = [calls EXCEPT ![w] = Idle]
         PROVE  HistoryInv'
  BY <1>idle, <1>ends, QuietHistory
<1>1. ASSUME NEW w \in Writers, AppendMessage(w) PROVE HistoryInv'
  BY <1>1, <1>begin DEF AppendMessage, Kinds, Messages
<1>2. ASSUME NEW w \in Writers, AppendMessageDeletion(w) PROVE HistoryInv'
  BY <1>2, <1>begin DEF AppendMessageDeletion, Kinds
<1>3. ASSUME NEW w \in Writers, AppendCompaction(w) PROVE HistoryInv'
  <2>1. PICK i \in DOMAIN rows : i \in Selected(Branch) /\ Begin(w, "compaction", rows[i].id, "create")
    BY <1>3 DEF AppendCompaction
  <2>2. i \in Branch
    BY <2>1 DEF Selected
  <2> QED BY <2>1, <2>2, <1>begin DEF Kinds
<1>4. ASSUME NEW w \in Writers, CreateEntryID(w) PROVE HistoryInv'
  <2>1. PICK id :
          calls' = [calls EXCEPT
                      ![w].id = id,
                      ![w].pc = IF calls[w].kind = "leaf" THEN "write" ELSE "readleaf"]
    BY <1>4 DEF CreateEntryID
  <2> DEFINE c == [calls[w] EXCEPT
                     !.id = id, !.pc = IF calls[w].kind = "leaf" THEN "write" ELSE "readleaf"]
  <2>2. /\ c.kind = calls[w].kind /\ c.began = calls[w].began /\ c.target = calls[w].target
        /\ c.pc = "write" => c.kind = "leaf"
    BY <1>typed
  <2>3. calls' = [calls EXCEPT ![w] = c] /\ UNCHANGED <<rows, leaf, alive>> /\ calls[w].pc # "idle"
    BY <2>1, <1>4, <1>typed DEF CreateEntryID
  <2> HIDE DEF c
  <2> QED BY <2>2, <2>3, <1>goes
<1>5. ASSUME NEW w \in Writers, ReadLeaf(w) PROVE HistoryInv'
  <2>1. CASE ~LeafReadable
    BY <2>1, <1>5, <1>ends DEF ReadLeaf
  <2>2. CASE LeafReadable
    <3> DEFINE c == [calls[w] EXCEPT
                       !.parent = leaf, !.pc = IF calls[w].kind = "leaf" THEN "create" ELSE "write"]
    <3>1. /\ c.kind = calls[w].kind /\ c.began = calls[w].began /\ c.target = calls[w].target
          /\ c.parent = leaf
      BY <1>typed
    <3>2. calls' = [calls EXCEPT ![w] = c] /\ UNCHANGED <<rows, leaf, alive>> /\ calls[w].pc # "idle"
      BY <2>2, <1>5, <1>typed DEF ReadLeaf
    <3> HIDE DEF c
    <3> QED BY <3>1, <3>2, <1>goes
  <2> QED BY <2>1, <2>2
<1>6. ASSUME NEW w \in Writers, AppendEntry(w) PROVE HistoryInv'
  BY <1>6, <1>idle, InsertHistory DEF AppendEntry
<1>7. ASSUME NEW w \in Writers, CallFails(w) PROVE HistoryInv'
  BY <1>7, <1>ends DEF CallFails
<1>8. ASSUME NEW w \in Writers, MoveTo(w) PROVE HistoryInv'
  BY <1>8, <1>move DEF MoveTo
<1>9. ASSUME NEW w \in Writers, NavigateTree(w) PROVE HistoryInv'
  BY <1>9, <1>move DEF NavigateTree
<1>10. ASSUME NEW w \in Writers, SetLeafID(w) PROVE HistoryInv'
  <2> DEFINE s == [Idle EXCEPT !.pc = "create", !.kind = "summary",
                               !.target = calls[w].target, !.began = Len(rows) + 1]
             c == IF calls[w].summary /\ Accepts(calls[w].id) THEN s ELSE Idle
  <2>1. s.pc = "create" /\ s.kind = "summary" /\ s.began = Len(rows) + 1
    BY DEF Idle
  <2>2. /\ calls[w].pc = "write" /\ calls[w].kind = "leaf" /\ alive' = alive
        /\ Insert(Entry(w), calls[w].target) /\ calls' = [calls EXCEPT ![w] = c]
    BY <1>10 DEF SetLeafID
  <2>3. Accepts(calls[w].id) => rows' # rows
    <3>1. Accepts(calls[w].id) => rows' = Append(rows, Entry(w))
      BY <2>2 DEF Insert, Entry
    <3>2. Len(Append(rows, Entry(w))) = Len(rows) + 1
      BY <1>typed
    <3> QED BY <1>typed, <3>1, <3>2
  <2>4. c.pc # "idle" => /\ c.pc # "write" /\ c.kind # "compaction"
                         /\ rows' # rows /\ c.began = Len(rows) + 1
    BY <1>idle, <2>1, <2>3
  <2>5. PICK d : d = c
    OBVIOUS
  <2>6. PICK next : next = calls[w].target
    OBVIOUS
  <2> HIDE DEF c
  <2> QED BY <2>2, <2>4, <2>5, <2>6, InsertHistory
<1>11. CASE DeleteSession
  BY <1>11 DEF DeleteSession, HistoryInv
<1>12. CASE UNCHANGED vars
  <2>1. \A i, id : OnPathOrOvertaken(i, id)' = OnPathOrOvertaken(i, id)
    BY <1>12 DEF OnPathOrOvertaken, Overtaken, vars
  <2> QED BY <1>12, <2>1 DEF HistoryInv, vars, Branch
<1> QED
  BY <1>1, <1>2, <1>3, <1>4, <1>5, <1>6, <1>7, <1>8, <1>9, <1>10, <1>11, <1>12 DEF Next

LEMMA StepLeaf ==
    ASSUME IInv, LeafInv, [Next]_vars PROVE LeafInv'
<1>1. rows \in Seq(Row)
  BY DEF IInv, TypeOK
<1>2. CASE UNCHANGED <<rows, leaf, alive>>
  BY <1>2 DEF LeafInv, ForkedLeaf, NextLeaf
<1>3. ASSUME NEW e, NEW next, Insert(e, next), alive' = alive, NextLeaf(e) = next  PROVE LeafInv'
  <2>1. CASE Accepts(e.id)
    <3>1. rows' = Append(rows, e) /\ leaf' = next /\ alive'
      BY <1>3, <2>1 DEF Insert, Accepts
    <3>2. rows' # <<>> /\ rows'[Len(rows')] = e
      BY <1>1, <3>1
    <3> QED BY <1>3, <3>1, <3>2 DEF LeafInv, ForkedLeaf, NextLeaf
  <2>2. CASE ~Accepts(e.id)
    BY <1>2, <1>3, <2>2 DEF Insert
  <2> QED BY <2>1, <2>2
<1>4. ASSUME NEW w \in Writers, AppendEntry(w) PROVE LeafInv'
  <2>1. NextLeaf(Entry(w)) = calls[w].id
    BY <1>4 DEF AppendEntry, NextLeaf, Entry
  <2>2. Insert(Entry(w), calls[w].id) /\ alive' = alive
    BY <1>4 DEF AppendEntry
  <2> QED BY <2>1, <2>2, <1>3
<1>5. ASSUME NEW w \in Writers, SetLeafID(w) PROVE LeafInv'
  <2>1. NextLeaf(Entry(w)) = calls[w].target
    BY <1>5 DEF SetLeafID, NextLeaf, Entry
  <2>2. Insert(Entry(w), calls[w].target) /\ alive' = alive
    BY <1>5 DEF SetLeafID
  <2> QED BY <2>1, <2>2, <1>3
<1>6. CASE DeleteSession
  BY <1>6 DEF DeleteSession, LeafInv
<1>7. \/ UNCHANGED <<rows, leaf, alive>>
      \/ \E w \in Writers : AppendEntry(w) \/ SetLeafID(w)
      \/ DeleteSession
  BY DEF Next, AppendMessage, AppendMessageDeletion, AppendCompaction, CreateEntryID, ReadLeaf,
         CallFails, MoveTo, NavigateTree, Begin, Move, vars
<1> QED BY <1>2, <1>4, <1>5, <1>6, <1>7

LEMMA HistoryIsKept == Spec => [](IInv /\ HistoryInv /\ LeafInv)
<1>1. Init => HistoryInv /\ LeafInv
  <2>1. Init => rows = <<>> /\ DOMAIN rows = {} /\ alive /\ \A w \in Writers : calls[w].pc = "idle"
    BY DEF Init, Idle
  <2> QED BY <2>1 DEF HistoryInv, LeafInv
<1> QED BY <1>1, StepHistory, StepLeaf, InductiveInvariant, PTL DEF Spec

\* An entry leaves the branch only by a move, or by an append that had begun before it was
\* there, whatever ids the writers are given and whichever of their calls fail
\* (storage.go AppendEntry, session.go appendTypedEntry).
THEOREM FinishedAppendsAreKept == Spec => []FinishedAppendsStay
<1>1. IInv /\ HistoryInv /\ LeafInv => FinishedAppendsStay
  BY DEF FinishedAppendsStay, HistoryInv, LeafInv, OnPathOrOvertaken, Overtaken, Branch
<1> QED BY <1>1, HistoryIsKept, PTL

----------------------------------------------------------------------------
(* What is computed from a branch *)

LEMMA AncestorsAreClosed ==
    ASSUME NEW es, Forest(es), NEW i \in DOMAIN es
    PROVE  /\ i \in Ancestors(es, i) /\ Ancestors(es, i) \in SUBSET DOMAIN es
           /\ Closed(es, Ancestors(es, i))
           /\ \A j \in Ancestors(es, i) : j <= i
<1>1. \A k \in Ancestors(es, i) : es[k].parent # 0 => Up(es, k) \in Ancestors(es, i)
  <2> SUFFICES ASSUME NEW k \in Ancestors(es, i), es[k].parent # 0
               PROVE  Up(es, k) \in Ancestors(es, i)
    OBVIOUS
  <2>1. k \in DOMAIN es /\ Up(es, k) \in DOMAIN es
    BY ParentIsThere DEF Ancestors
  <2> QED BY <2>1 DEF Ancestors, Closed
<1>2. \A j \in Ancestors(es, i) : j <= i
  <2>1. es[i].id \in IdsOf(es) /\ IndexOf(es, es[i].id) = i
    BY IndexIs DEF IdsOf
  <2>2. Path(es, es[i].id) = Ancestors(es, i)
    BY <2>1, PathIs
  <2> QED BY <2>2, PathEndsThere
<1> QED BY <1>1, <1>2 DEF Closed, Ancestors

LEMMA AncestorsOfAncestors ==
    ASSUME NEW es, Forest(es), NEW i \in DOMAIN es, NEW j \in Ancestors(es, i)
    PROVE  Ancestors(es, j) \subseteq Ancestors(es, i)
BY AncestorsAreClosed DEF Ancestors

\* Of two ancestors of an entry, one is an ancestor of the other
LEMMA AncestorsAreALine ==
    ASSUME NEW es, Forest(es), NEW i \in DOMAIN es,
           NEW j \in Ancestors(es, i), NEW k \in Ancestors(es, i)
    PROVE  j \in Ancestors(es, k) \/ k \in Ancestors(es, j)
<1> DEFINE Line(n) == \A x, y \in Ancestors(es, n) : x \in Ancestors(es, y) \/ y \in Ancestors(es, x)
           S == {n \in DOMAIN es : ~Line(n)}
<1>1. CASE S # {}
  <2>1. S \subseteq Nat
    BY DEF Forest
  <2>2. PICK n \in S : \A m \in S : ~(m < n)
    <3> HIDE DEF S
    <3> QED BY <1>1, <2>1, LeastIndex
  <2>3. PICK x, y : /\ x \in Ancestors(es, n) /\ y \in Ancestors(es, n)
                    /\ x \notin Ancestors(es, y) /\ y \notin Ancestors(es, x)
    BY <2>2
  <2>4. n \in DOMAIN es /\ x # n /\ y # n
    BY <2>2, <2>3
  <2>5. /\ es[n].parent # 0 /\ x \in Ancestors(es, Up(es, n)) /\ y \in Ancestors(es, Up(es, n))
    BY <2>3, <2>4, AncestorsClimb
  <2>6. Up(es, n) \in DOMAIN es /\ Up(es, n) < n
    BY <2>4, <2>5, ParentIsThere
  <2>7. Line(Up(es, n))
    BY <2>2, <2>6
  <2> QED BY <2>3, <2>5, <2>7
<1>2. CASE S = {}
  BY <1>2
<1> QED BY <1>1, <1>2

\* The equation that defines the function inside Collected, and its only solution
Collects(es, C, f) ==
    f = [i \in DOMAIN es |-> IF i \in C THEN {}
           ELSE {i} \cup IF es[i].parent = 0 THEN {} ELSE f[IndexOf(es, es[i].parent)]]
Below(es, C, i) == {j \in Ancestors(es, i) : \A m \in C \cap Ancestors(es, i) : j \notin Ancestors(es, m)}

LEMMA BelowCollects ==
    ASSUME NEW es, Forest(es), NEW C
    PROVE  Collects(es, C, [i \in DOMAIN es |-> Below(es, C, i)])
<1> DEFINE f == [i \in DOMAIN es |-> Below(es, C, i)]
<1>1. ASSUME NEW i \in DOMAIN es
      PROVE  f[i] = IF i \in C THEN {}
                    ELSE {i} \cup IF es[i].parent = 0 THEN {} ELSE f[IndexOf(es, es[i].parent)]
  <2>1. i \in Ancestors(es, i)
    BY AncestorsAreClosed
  <2>2. CASE i \in C
    BY <2>1, <2>2 DEF Below
  <2>3. CASE i \notin C /\ es[i].parent = 0
    <3>1. Ancestors(es, i) = {i}
      BY <2>3, AncestorsClimb
    <3> QED BY <2>3, <3>1 DEF Below
  <2>4. CASE i \notin C /\ es[i].parent # 0
    <3>1. PICK p : p = Up(es, i)
      OBVIOUS
    <3>2. p \in DOMAIN es /\ p < i /\ Ancestors(es, i) = {i} \cup Ancestors(es, p)
      BY <2>4, <3>1, ParentIsThere, AncestorsClimb
    <3>3. C \cap Ancestors(es, i) = C \cap Ancestors(es, p)
      BY <2>4, <3>2
    <3>4. ASSUME NEW m \in Ancestors(es, p)  PROVE i \notin Ancestors(es, m)
      <4>1. m \in DOMAIN es /\ m <= p
        BY <3>2, AncestorsAreClosed
      <4>2. ~(i <= m)
        <5>1. i \in Nat /\ m \in Nat /\ p \in Nat
          BY <3>2, <4>1 DEF Forest
        <5> QED BY <3>2, <4>1, <5>1
      <4> QED BY <4>1, <4>2, AncestorsAreClosed
    <3>5. Below(es, C, i) = {i} \cup Below(es, C, p)
      BY <3>2, <3>3, <3>4 DEF Below
    <3> QED BY <2>4, <3>1, <3>2, <3>5 DEF Up
  <2> QED BY <2>2, <2>3, <2>4
<1>2. f = [i \in DOMAIN es |-> IF i \in C THEN {}
             ELSE {i} \cup IF es[i].parent = 0 THEN {} ELSE f[IndexOf(es, es[i].parent)]]
  BY <1>1
<1> QED BY <1>2 DEF Collects

LEMMA OneCollection ==
    ASSUME NEW es, Forest(es), NEW C, NEW f, NEW g, Collects(es, C, f), Collects(es, C, g)
    PROVE  f = g
<1> DEFINE S == {i \in DOMAIN es : f[i] # g[i]}
<1>1. CASE S # {}
  <2>1. PICK i \in S : \A j \in S : ~(j < i)
    <3>1. S \subseteq Nat
      BY DEF Forest
    <3> HIDE DEF S
    <3> QED BY <1>1, <3>1, LeastIndex
  <2>2. /\ f[i] = IF i \in C THEN {} ELSE {i} \cup IF es[i].parent = 0 THEN {} ELSE f[Up(es, i)]
        /\ g[i] = IF i \in C THEN {} ELSE {i} \cup IF es[i].parent = 0 THEN {} ELSE g[Up(es, i)]
    BY <2>1 DEF Collects, Up
  <2>3. es[i].parent # 0 /\ Up(es, i) \in S
    BY <2>1, <2>2, ParentIsThere
  <2> QED BY <2>1, <2>3, ParentIsThere
<1>2. CASE S = {}
  <2>1. f = [i \in DOMAIN es |-> f[i]] /\ g = [i \in DOMAIN es |-> g[i]]
    BY DEF Collects
  <2>2. \A i \in DOMAIN es : f[i] = g[i]
    BY <1>2
  <2> QED BY <2>1, <2>2
<1> QED BY <1>1, <1>2

LEMMA GreatestIndex ==
    ASSUME NEW n \in Nat, NEW S, S \subseteq 1 .. n, S # {}
    PROVE  \E i \in S : \A j \in S : j <= i
<1> DEFINE T == {n - i : i \in S}
<1>1. T \subseteq Nat /\ T # {}
  <2>1. ASSUME NEW d \in T
        PROVE  d \in Nat
    <3>1. PICK i \in S : d = n - i
      BY <2>1
    <3>2. i \in 1 .. n
      OBVIOUS
    <3> HIDE DEF T
    <3> QED BY <3>1, <3>2
  <2>2. PICK i \in S : TRUE
    OBVIOUS
  <2>3. n - i \in T
    OBVIOUS
  <2> QED BY <2>1, <2>3
<1>2. PICK d \in T : \A c \in T : ~(c < d)
  <2> HIDE DEF T
  <2> QED BY <1>1, LeastIndex
<1>3. PICK i \in S : d = n - i
  OBVIOUS
<1>4. \A j \in S : ~(n - j < n - i)
  BY <1>2, <1>3
<1> QED BY <1>3, <1>4

LEMMA CollectedIs ==
    ASSUME Forest(rows), NEW old \in IdsOf(rows), NEW target \in IdsOf(rows), 0 \notin IdsOf(rows)
    PROVE  Collected(old, target) = Path(rows, old) \ Path(rows, target)
<1> DEFINE C == CommonAncestor(old, target)
           climb == CHOOSE f : f = [i \in DOMAIN rows |-> IF i \in CommonAncestor(old, target) THEN {}
                     ELSE {i} \cup IF rows[i].parent = 0 THEN {} ELSE f[IndexOf(rows, rows[i].parent)]]
           o == IndexOf(rows, old)
           t == IndexOf(rows, target)
<1>1. Collected(old, target) = climb[o]
  BY DEF Collected
<1>2. Collects(rows, C, climb)
  <2>1. \E f : f = [i \in DOMAIN rows |-> IF i \in CommonAncestor(old, target) THEN {}
                     ELSE {i} \cup IF rows[i].parent = 0 THEN {} ELSE f[IndexOf(rows, rows[i].parent)]]
    <3>1. PICK f : Collects(rows, C, f)
      <4> HIDE DEF C, climb
      <4> QED BY BelowCollects
    <3> QED BY <3>1, Zenon DEF Collects
  <2>2. climb = [i \in DOMAIN rows |-> IF i \in CommonAncestor(old, target) THEN {}
                     ELSE {i} \cup IF rows[i].parent = 0 THEN {} ELSE climb[IndexOf(rows, rows[i].parent)]]
    BY <2>1, Zenon
  <2> QED BY <2>2, Zenon DEF Collects
<1>3. o \in DOMAIN rows /\ t \in DOMAIN rows
  BY IndexOfId
<1>4. Path(rows, old) = Ancestors(rows, o) /\ Path(rows, target) = Ancestors(rows, t)
  BY PathIs
<1> HIDE DEF climb, o, t
<1>5. \A m \in C : /\ m \in Ancestors(rows, t) /\ m \in Ancestors(rows, o)
                   /\ \A j \in Ancestors(rows, t) \cap Ancestors(rows, o) : j <= m
  BY <1>4 DEF CommonAncestor
<1>6. Ancestors(rows, t) \cap Ancestors(rows, o) # {} => C # {}
  <2> SUFFICES ASSUME Ancestors(rows, t) \cap Ancestors(rows, o) # {}
               PROVE  \E i \in Ancestors(rows, t) \cap Ancestors(rows, o) :
                        \A j \in Ancestors(rows, t) \cap Ancestors(rows, o) : j <= i
    BY <1>4 DEF CommonAncestor
  <2>1. Len(rows) \in Nat /\ DOMAIN rows = 1 .. Len(rows)
    BY DEF Forest
  <2>2. Ancestors(rows, t) \cap Ancestors(rows, o) \subseteq 1 .. Len(rows)
    BY <2>1 DEF Ancestors
  <2> QED BY <2>1, <2>2, GreatestIndex
<1> HIDE DEF C
<1>7. climb[o] = Below(rows, C, o)
  <2>1. PICK g : g = [i \in DOMAIN rows |-> Below(rows, C, i)]
    OBVIOUS
  <2>2. Collects(rows, C, g)
    BY <2>1, BelowCollects
  <2>3. climb = g
    BY <1>2, <2>2, OneCollection
  <2> QED BY <1>3, <2>1, <2>3
<1>8. ASSUME NEW j \in Ancestors(rows, o), j \in Ancestors(rows, t)
      PROVE  \E m \in C \cap Ancestors(rows, o) : j \in Ancestors(rows, m)
  <2>1. PICK m \in C : TRUE
    BY <1>6, <1>8
  <2>2. m \in Ancestors(rows, o) /\ j <= m
    BY <1>5, <1>8, <2>1
  <2>3. j \in DOMAIN rows /\ m \in DOMAIN rows /\ DOMAIN rows \subseteq Nat
    BY <2>2 DEF Ancestors, Forest
  <2>4. CASE m \in Ancestors(rows, j)
    <3>1. m <= j
      BY <2>3, <2>4, AncestorsAreClosed
    <3>2. m = j
      BY <2>2, <2>3, <3>1
    <3> QED BY <2>1, <2>2, <2>4, <3>2
  <2> QED BY <1>3, <2>1, <2>2, <2>4, AncestorsAreALine
<1>9. ASSUME NEW m \in C  PROVE Ancestors(rows, m) \subseteq Ancestors(rows, t)
  BY <1>3, <1>5, AncestorsOfAncestors
<1>10. Below(rows, C, o) = Ancestors(rows, o) \ Ancestors(rows, t)
  BY <1>8, <1>9 DEF Below
<1> QED BY <1>1, <1>4, <1>7, <1>10

\* A compaction that nobody overtook keeps a suffix of its own branch
\* (compaction.go, session_context.go).
THEOREM CompactionsKeepTheirSuffix == Spec => []CompactionKeepsSuffix
<1>1. IInv /\ HistoryInv /\ LeafInv => CompactionKeepsSuffix
  <2> SUFFICES ASSUME IInv, HistoryInv, LeafInv, NEW i \in Branch,
                      rows[i].kind = "compaction", rows[i].began = i - 1
               PROVE  \E k \in Path(rows, rows[i].id) : k < i /\ rows[k].id = rows[i].target
    BY DEF CompactionKeepsSuffix
  <2>1. i \in DOMAIN rows
    <3>1. Forest(rows) /\ leaf \in IdsOf(rows)
      BY ForestIsThere, PathIs DEF Branch
    <3> QED BY <3>1, PathEndsThere DEF Branch, IdsOf
  <2> QED BY <2>1 DEF HistoryInv, LeafInv
<1> QED BY <1>1, HistoryIsKept, PTL

\* What NavigateTree summarises is exactly what its move takes off the branch
\* (branch_summary.go, CollectEntriesForBranchSummary).
THEOREM MovesCollectWhatIsLeft == Spec => []CollectsWhatIsLeft
<1>1. IInv => CollectsWhatIsLeft
  <2> SUFFICES ASSUME IInv, NEW target \in IdsOf(rows)
               PROVE  Collected(leaf, target) = Branch \ Path(rows, target)
    BY DEF CollectsWhatIsLeft
  <2>1. Forest(rows)
    BY ForestIsThere
  <2>2. 0 \notin IdsOf(rows)
    <3>1. \A i \in DOMAIN rows : rows[i] \in Row
      BY <2>1 DEF Forest
    <3> QED BY <3>1 DEF IdsOf, Row
  <2>3. CASE leaf = 0
    <3>1. Collected(leaf, target) = {}
      BY <2>3 DEF Collected
    <3>2. Branch = {}
      BY <2>1, <2>2, <2>3, PathIs DEF Branch
    <3> QED BY <3>1, <3>2
  <2>4. CASE leaf # 0
    <3>1. leaf \in IdsOf(rows)
      BY <2>4 DEF IInv, TreeOK
    <3> QED BY <2>1, <2>2, <3>1, CollectedIs DEF Branch
  <2> QED BY <2>3, <2>4
<1> QED BY <1>1, InductiveInvariant, PTL

----------------------------------------------------------------------------
(* Copies of a branch *)

\* The indices of a set are numbered from 1 on, in their order
LEMMA Ranks ==
    ASSUME NEW n \in Nat, NEW S, S \subseteq 1 .. n
    PROVE  /\ IsFiniteSet(S) /\ Cardinality(S) \in Nat
           /\ \A i \in S : Rank(S, i) \in 1 .. Cardinality(S)
           /\ \A i, j \in S : i < j => Rank(S, i) < Rank(S, j)
           /\ \A k \in 1 .. Cardinality(S) : \E i \in S : Rank(S, i) = k
<1> DEFINE Upto(i) == {j \in S : j <= i}
           m == Cardinality(S)
<1>1. IsFiniteSet(S) /\ m \in Nat
  <2>1. IsFiniteSet(1 .. n)
    BY FS_Interval
  <2> QED BY <2>1, FS_Subset, FS_CardinalityType
<1>2. ASSUME NEW i \in S
      PROVE  IsFiniteSet(Upto(i)) /\ Rank(S, i) = Cardinality(Upto(i)) /\ Rank(S, i) \in Nat
             /\ Rank(S, i) <= m /\ Rank(S, i) # 0
  <2>1. Upto(i) \in SUBSET S
    OBVIOUS
  <2>2. IsFiniteSet(Upto(i)) /\ Cardinality(Upto(i)) <= m
    BY <1>1, <2>1, FS_Subset
  <2>3. Cardinality(Upto(i)) \in Nat
    BY <2>2, FS_CardinalityType
  <2>4. i \in Upto(i)
    OBVIOUS
  <2>5. Cardinality(Upto(i)) # 0
    BY <2>2, <2>4, FS_EmptySet
  <2> QED BY <2>2, <2>3, <2>5 DEF Rank
<1>3. ASSUME NEW i \in S, NEW j \in S, i < j
      PROVE  Rank(S, i) < Rank(S, j)
  <2>1. j \notin Upto(i)
    BY <1>3
  <2>2. IsFiniteSet(Upto(i) \cup {j}) /\ Cardinality(Upto(i) \cup {j}) = Rank(S, i) + 1
    <3>1. IsFiniteSet(Upto(i)) /\ Rank(S, i) = Cardinality(Upto(i))
      BY <1>2
    <3> HIDE DEF Upto
    <3> QED BY <2>1, <3>1, FS_AddElement
  <2>3. Upto(i) \cup {j} \in SUBSET Upto(j)
    <3>1. i \in Nat /\ j \in Nat
      OBVIOUS
    <3>2. \A x \in S : x <= i => x <= j
      <4>1. \A x \in S : x \in Nat
        OBVIOUS
      <4> QED BY <1>3, <3>1, <4>1
    <3>3. j \in Upto(j)
      BY <3>1
    <3>4. Upto(i) \subseteq Upto(j)
      BY <3>2
    <3> HIDE DEF Upto
    <3> QED BY <3>3, <3>4
  <2>4. Cardinality(Upto(i) \cup {j}) <= Cardinality(Upto(j))
    <3>1. IsFiniteSet(Upto(j))
      BY <1>2
    <3> HIDE DEF Upto
    <3> QED BY <2>3, <3>1, FS_Subset
  <2>5. Rank(S, j) = Cardinality(Upto(j)) /\ Rank(S, i) \in Nat /\ Rank(S, j) \in Nat
    BY <1>2
  <2> HIDE DEF Upto
  <2> QED BY <2>2, <2>4, <2>5
<1>4. ASSUME NEW i \in S
      PROVE  Rank(S, i) \in 1 .. m
  <2>1. Rank(S, i) \in Nat /\ Rank(S, i) <= m /\ Rank(S, i) # 0
    BY <1>2
  <2> HIDE DEF m
  <2> QED BY <1>1, <2>1
<1>5. \A k \in 1 .. m : \E i \in S : Rank(S, i) = k
  <2> DEFINE f == [i \in S |-> Rank(S, i)]
  <2>1. f \in [S -> 1 .. m]
    <3>1. \A i \in S : Rank(S, i) \in 1 .. m
      BY <1>4
    <3> HIDE DEF m
    <3> QED BY <3>1
  <2>2. \A i, j \in S : f[i] = f[j] => i = j
    <3> SUFFICES ASSUME NEW i \in S, NEW j \in S, i # j  PROVE Rank(S, i) # Rank(S, j)
      OBVIOUS
    <3>1. i < j \/ j < i
      OBVIOUS
    <3>2. Rank(S, i) < Rank(S, j) \/ Rank(S, j) < Rank(S, i)
      BY <1>3, <3>1
    <3>3. Rank(S, i) \in Nat /\ Rank(S, j) \in Nat
      BY <1>2
    <3> QED BY <3>2, <3>3
  <2>3. f \in Injection(S, 1 .. m)
    <3> HIDE DEF f, m
    <3> QED BY <2>1, <2>2 DEF Injection, IsInjective
  <2>4. IsFiniteSet(1 .. m) /\ Cardinality(1 .. m) = m
    <3> HIDE DEF m
    <3>1. m \in Int /\ 1 \in Int
      BY <1>1
    <3>2. Cardinality(1 .. m) = IF 1 > m THEN 0 ELSE m - 1 + 1
      BY <3>1, FS_Interval
    <3>3. Cardinality(1 .. m) = m
      BY <1>1, <3>2
    <3> QED BY <3>1, <3>3, FS_Interval
  <2>5. f \in Surjection(S, 1 .. m)
    <3>1. Cardinality(S) = Cardinality(1 .. m)
      BY <2>4
    <3> HIDE DEF f, m
    <3> QED BY <2>3, <2>4, <3>1, FS_Injection
  <2>6. \A k \in 1 .. m : \E i \in S : f[i] = k
    <3> HIDE DEF f, m
    <3> QED BY <2>5 DEF Surjection
  <2> QED BY <2>6
<1> QED BY <1>1, <1>3, <1>4, <1>5

At(S, k) == CHOOSE i \in S : Rank(S, i) = k

LEMMA Positions ==
    ASSUME NEW n \in Nat, NEW S, S \subseteq 1 .. n
    PROVE  /\ \A k \in 1 .. Cardinality(S) : At(S, k) \in S /\ Rank(S, At(S, k)) = k
           /\ \A i \in S : At(S, Rank(S, i)) = i
<1>1. \A k \in 1 .. Cardinality(S) : At(S, k) \in S /\ Rank(S, At(S, k)) = k
  BY Ranks DEF At
<1>2. ASSUME NEW i \in S
      PROVE  At(S, Rank(S, i)) = i
  <2>1. Rank(S, i) \in 1 .. Cardinality(S) /\ Cardinality(S) \in Nat
    BY Ranks
  <2>2. At(S, Rank(S, i)) \in S /\ Rank(S, At(S, Rank(S, i))) = Rank(S, i)
    BY <1>1, <2>1
  <2>3. PICK j \in S : j = At(S, Rank(S, i))
    BY <2>2
  <2>4. ~(i < j) /\ ~(j < i)
    <3>1. Rank(S, j) = Rank(S, i) /\ Rank(S, i) \in Nat
      BY <2>1, <2>2, <2>3
    <3>2. i < j => Rank(S, i) < Rank(S, j)
      BY Ranks
    <3>3. j < i => Rank(S, j) < Rank(S, i)
      BY Ranks
    <3> QED BY <3>1, <3>2, <3>3
  <2>5. i \in Nat /\ j \in Nat
    OBVIOUS
  <2>6. i = j
    BY <2>4, <2>5
  <2> QED BY <2>3, <2>6
<1> QED BY <1>1, <1>2

LEMMA CopyIs ==
    ASSUME Forest(rows), NEW S, S \subseteq DOMAIN rows, Closed(rows, S)
    PROVE  /\ Copy(S) = [k \in 1 .. Cardinality(S) |-> rows[At(S, k)]]
           /\ Cardinality(S) \in Nat
           /\ Forest(Copy(S)) /\ DOMAIN Copy(S) = 1 .. Cardinality(S) /\ Len(Copy(S)) = Cardinality(S)
           /\ \A k \in 1 .. Cardinality(S) : Copy(S)[k].parent # 0 =>
                Up(Copy(S), k) \in 1 .. Cardinality(S) /\ At(S, Up(Copy(S), k)) = Up(rows, At(S, k))
<1> DEFINE c == Copy(S)
           m == Cardinality(S)
<1>1. Len(rows) \in Nat /\ DOMAIN rows = 1 .. Len(rows)
  BY DEF Forest
<1>2. S \subseteq 1 .. Len(rows) /\ S \subseteq Nat
  BY <1>1
<1>3. Copy(S) = [k \in 1 .. m |-> rows[At(S, k)]]
  BY DEF Copy, At
<1>4. m \in Nat
  BY <1>1, <1>2, Ranks
<1>5. \A k \in 1 .. m : At(S, k) \in S /\ Rank(S, At(S, k)) = k
  BY <1>1, <1>2, Positions
<1>6. \A i \in S : Rank(S, i) \in 1 .. m /\ At(S, Rank(S, i)) = i
  BY <1>1, <1>2, Positions, Ranks
<1>7. DOMAIN c = 1 .. m /\ \A k \in 1 .. m : c[k] = rows[At(S, k)] /\ At(S, k) \in DOMAIN rows
  BY <1>3, <1>5
<1>8. c \in Seq(Row) /\ Len(c) = m
  <2>1. \A i \in DOMAIN rows : rows[i] \in Row
    BY DEF Forest
  <2>2. \A k \in 1 .. m : rows[At(S, k)] \in Row
    BY <1>7, <2>1
  <2>3. c \in [1 .. m -> Row]
    <3> HIDE DEF m
    <3> QED BY <1>3, <2>2
  <2> HIDE DEF c, m
  <2> QED BY <1>4, <2>3
<1>9. \A k, l \in DOMAIN c : c[k].id = c[l].id => k = l
  <2> SUFFICES ASSUME NEW k \in 1 .. m, NEW l \in 1 .. m, c[k].id = c[l].id  PROVE k = l
    BY <1>7
  <2>1. rows[At(S, k)].id = rows[At(S, l)].id /\ At(S, k) \in DOMAIN rows /\ At(S, l) \in DOMAIN rows
    BY <1>7
  <2>2. At(S, k) = At(S, l)
    BY <2>1 DEF Forest
  <2> QED BY <1>5, <2>2
<1>10. ASSUME NEW k \in 1 .. m, c[k].parent # 0
       PROVE  \E j \in 1 .. (k - 1) : c[j].id = c[k].parent /\ At(S, j) = Up(rows, At(S, k))
  <2> DEFINE i == At(S, k)
             p == Up(rows, i)
  <2>1. i \in S /\ i \in DOMAIN rows /\ rows[i].parent # 0 /\ c[k] = rows[i] /\ Rank(S, i) = k
    BY <1>5, <1>7, <1>10
  <2>2. p \in S
    BY <2>1 DEF Closed
  <2>3. p \in DOMAIN rows /\ p < i /\ rows[p].id = rows[i].parent
    BY <2>1, ParentIsThere
  <2> HIDE DEF i, p
  <2>4. Rank(S, p) < Rank(S, i) /\ Rank(S, p) \in 1 .. m /\ At(S, Rank(S, p)) = p
    <3>1. Rank(S, p) < Rank(S, i)
      BY <1>1, <1>2, <2>1, <2>2, <2>3, Ranks
    <3> QED BY <1>6, <2>2, <3>1
  <2>5. PICK j : j = Rank(S, p)
    OBVIOUS
  <2>6. j \in 1 .. (k - 1) /\ j \in 1 .. m
    <3>1. j < k /\ j \in 1 .. m
      BY <2>1, <2>4, <2>5
    <3> HIDE DEF m
    <3> QED BY <1>4, <3>1
  <2>7. c[j].id = c[k].parent
    BY <1>7, <2>1, <2>3, <2>4, <2>5, <2>6
  <2>8. At(S, j) = Up(rows, At(S, k))
    BY <2>4, <2>5 DEF p, i
  <2> QED BY <2>6, <2>7, <2>8
<1>11. Forest(c)
  <2>1. \A k \in DOMAIN c : c[k].parent # 0 => \E j \in 1 .. (k - 1) : c[j].id = c[k].parent
    BY <1>7, <1>10
  <2> HIDE DEF c
  <2> QED BY <1>8, <1>9, <2>1 DEF Forest
<1>12. ASSUME NEW k \in 1 .. m, c[k].parent # 0
       PROVE  Up(c, k) \in 1 .. m /\ At(S, Up(c, k)) = Up(rows, At(S, k))
  <2>1. PICK j \in 1 .. (k - 1) : c[j].id = c[k].parent /\ At(S, j) = Up(rows, At(S, k))
    BY <1>10, <1>12
  <2>2. j \in 1 .. m
    <3> HIDE DEF m
    <3> QED BY <1>4
  <2>3. Up(c, k) = j
    <3> HIDE DEF c, m
    <3> QED BY <1>7, <1>11, <2>1, <2>2, IndexIs DEF Up
  <2> QED BY <2>1, <2>2, <2>3
<1> QED BY <1>3, <1>4, <1>7, <1>8, <1>11, <1>12

\* A copied branch is, in the copy, the branch of its last entry
LEMMA CopiedBranch ==
    ASSUME Forest(rows), NEW o \in DOMAIN rows
    PROVE  LET S == Ancestors(rows, o)
               c == Copy(S)
               m == Cardinality(S)
           IN /\ m \in DOMAIN c /\ Len(c) = m /\ c[m] = rows[o]
              /\ Path(c, rows[o].id) = DOMAIN c
              /\ {c[k].id : k \in DOMAIN c} = {rows[i].id : i \in S}
<1> DEFINE S == Ancestors(rows, o)
           c == Copy(S)
           m == Cardinality(S)
<1>1. Len(rows) \in Nat /\ DOMAIN rows = 1 .. Len(rows)
  BY DEF Forest
<1>2. o \in S /\ S \in SUBSET DOMAIN rows /\ Closed(rows, S) /\ \A j \in S : j <= o
  BY AncestorsAreClosed
<1> HIDE DEF S
<1>3. /\ c = [k \in 1 .. m |-> rows[At(S, k)]]
      /\ m \in Nat
      /\ Forest(c) /\ DOMAIN c = 1 .. m /\ Len(c) = m
      /\ \A k \in 1 .. m : c[k].parent # 0 => Up(c, k) \in 1 .. m /\ At(S, Up(c, k)) = Up(rows, At(S, k))
  BY <1>2, CopyIs
<1>4. S \subseteq 1 .. Len(rows)
  BY <1>1, <1>2
<1>5. \A k \in 1 .. m : At(S, k) \in S /\ Rank(S, At(S, k)) = k
  BY <1>1, <1>4, Positions
<1>6. \A i \in S : Rank(S, i) \in 1 .. m /\ At(S, Rank(S, i)) = i
  BY <1>1, <1>4, Positions, Ranks
<1>7. Rank(S, o) = m
  <2>1. {j \in S : j <= o} = S
    BY <1>2
  <2> QED BY <2>1 DEF Rank
<1>8. m \in 1 .. m /\ At(S, m) = o
  BY <1>2, <1>6, <1>7
<1> HIDE DEF c, m
<1>9. m \in DOMAIN c /\ c[m] = rows[o]
  BY <1>3, <1>8
<1>10. rows[o].id \in IdsOf(c) /\ IndexOf(c, rows[o].id) = m
  <2>1. IndexOf(c, c[m].id) = m
    BY <1>3, <1>9, IndexIs
  <2> QED BY <1>9, <2>1 DEF IdsOf
<1>11. Path(c, rows[o].id) = Ancestors(c, m)
  BY <1>3, <1>10, PathIs
<1>12. ASSUME NEW K \in SUBSET DOMAIN c, m \in K, Closed(c, K)
       PROVE  DOMAIN c \subseteq K
  <2> DEFINE D == {At(S, k) : k \in K}
  <2>1. o \in D
    BY <1>8, <1>12
  <2>2. D \in SUBSET DOMAIN rows
    BY <1>2, <1>3, <1>5
  <2>3. Closed(rows, D)
    <3> SUFFICES ASSUME NEW k \in K, rows[At(S, k)].parent # 0
                 PROVE  Up(rows, At(S, k)) \in D
      BY DEF Closed
    <3>1. k \in 1 .. m /\ c[k] = rows[At(S, k)]
      BY <1>3
    <3>2. Up(c, k) \in K
      BY <1>12, <3>1 DEF Closed
    <3>3. At(S, Up(c, k)) = Up(rows, At(S, k))
      BY <1>3, <3>1
    <3>4. At(S, Up(c, k)) \in D
      BY <3>2
    <3> QED BY <3>3, <3>4
  <2>4. S \subseteq D
    <3> HIDE DEF D
    <3> QED BY <2>1, <2>2, <2>3 DEF S, Ancestors
  <2>5. ASSUME NEW k \in DOMAIN c
        PROVE  k \in K
    <3>1. k \in 1 .. m /\ At(S, k) \in S
      BY <1>3, <1>5
    <3>2. PICK j \in K : At(S, k) = At(S, j)
      BY <2>4, <3>1
    <3>3. j \in 1 .. m
      BY <1>3
    <3>4. Rank(S, At(S, k)) = k /\ Rank(S, At(S, j)) = j
      BY <1>5, <3>1, <3>3
    <3>5. k = j
      BY <3>2, <3>4
    <3> QED BY <3>2, <3>5
  <2> QED BY <2>5
<1>13. Ancestors(c, m) = DOMAIN c
  BY <1>12 DEF Ancestors
<1>14. {c[k].id : k \in DOMAIN c} = {rows[i].id : i \in S}
  <2>1. ASSUME NEW k \in DOMAIN c
        PROVE  \E i \in S : c[k].id = rows[i].id
    BY <1>3, <1>5
  <2>2. ASSUME NEW i \in S
        PROVE  \E k \in DOMAIN c : c[k].id = rows[i].id
    <3>1. Rank(S, i) \in 1 .. m /\ At(S, Rank(S, i)) = i
      BY <1>6
    <3> QED BY <1>3, <3>1
  <2> QED BY <2>1, <2>2
<1> QED BY <1>3, <1>9, <1>11, <1>13, <1>14 DEF S, c, m

\* Everything that is computed from a branch covers all of it: a compaction's
\* suffix, the entries a move leaves, and a fork, whatever was copied into it
\* (compaction.go, branch_summary.go, sqlite_repo.go).
THEOREM BranchViewsStayWhole == Spec => []BranchViewsAreWhole
<1>1. IInv /\ LeafInv => ForkKeepsBranch
  <2> SUFFICES ASSUME IInv, LeafInv
               PROVE  ForkKeepsBranch
    OBVIOUS
  <2>1. Forest(rows)
    BY ForestIsThere
  <2>2. 0 \notin IdsOf(rows)
    <3>1. \A i \in DOMAIN rows : rows[i] \in Row
      BY <2>1 DEF Forest
    <3> QED BY <3>1 DEF IdsOf, Row
  <2>3. ASSUME NEW t \in ForkTargets, \A i \in Path(rows, t) : rows[i].kind # "leaf"
        PROVE  /\ ForkedLeaf(Copy(Path(rows, t))) = t
               /\ {Copy(Path(rows, t))[i].id : i \in Path(Copy(Path(rows, t)), t)}
                    = {rows[i].id : i \in Path(rows, t)}
    <3>1. CASE t \in IdsOf(rows)
      <4> DEFINE o == IndexOf(rows, t)
                 c == Copy(Ancestors(rows, o))
                 m == Cardinality(Ancestors(rows, o))
      <4>1. o \in DOMAIN rows /\ rows[o].id = t
        BY <3>1, IndexOfId
      <4>2. Path(rows, t) = Ancestors(rows, o)
        BY <2>1, <3>1, PathIs
      <4>3. o \in Ancestors(rows, o)
        BY <2>1, <4>1, AncestorsAreClosed
      <4> HIDE DEF o
      <4>4. /\ m \in DOMAIN c /\ Len(c) = m /\ c[m] = rows[o]
            /\ Path(c, t) = DOMAIN c
            /\ {c[k].id : k \in DOMAIN c} = {rows[i].id : i \in Ancestors(rows, o)}
        BY <2>1, <4>1, CopiedBranch
      <4> HIDE DEF c, m
      <4>5. c # <<>>
        BY <4>4
      <4>6. ForkedLeaf(c) = t
        BY <2>3, <4>1, <4>2, <4>3, <4>4, <4>5 DEF ForkedLeaf, NextLeaf
      <4>7. Copy(Path(rows, t)) = c
        BY <4>2 DEF c
      <4>8. {c[k].id : k \in Path(c, t)} = {rows[i].id : i \in Path(rows, t)}
        BY <4>2, <4>4
      <4> QED BY <4>6, <4>7, <4>8
    <3>2. CASE t \notin IdsOf(rows)
      <4>1. Path(rows, t) = {}
        BY <2>1, <3>2, PathIs
      <4>2. t = 0
        <5>1. PICK j \in DOMAIN rows : t = rows[j].parent
          BY <3>2 DEF ForkTargets, IdsOf
        <5>2. rows[j].parent # 0 => Up(rows, j) \in DOMAIN rows /\ rows[Up(rows, j)].id = rows[j].parent
          BY <2>1, ParentIsThere
        <5> QED BY <3>2, <5>1, <5>2 DEF IdsOf
      <4>3. Copy({}) = <<>>
        BY FS_EmptySet DEF Copy
      <4>4. Path(<<>>, t) = {}
        BY DEF Path, IdsOf
      <4> QED BY <4>1, <4>2, <4>3, <4>4 DEF ForkedLeaf
    <3> QED BY <3>1, <3>2
  <2> QED BY <2>3 DEF ForkKeepsBranch, LeafInv
<1>2. []CompactionKeepsSuffix /\ []CollectsWhatIsLeft /\ []ForkKeepsBranch => []BranchViewsAreWhole
  <2>1. CompactionKeepsSuffix /\ CollectsWhatIsLeft /\ ForkKeepsBranch => BranchViewsAreWhole
    BY DEF BranchViewsAreWhole
  <2> QED BY <2>1, PTL
<1> QED BY <1>1, <1>2, HistoryIsKept, CompactionsKeepTheirSuffix, MovesCollectWhatIsLeft, PTL
=============================================================================
