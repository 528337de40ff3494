---------------------------- MODULE SessionTree ----------------------------
(***************************************************************************)
(* The stored tree of one session, and the goroutines that write to it:    *)
(* the run of a room, the handler of a redaction, a second run.  The rows  *)
(* are those of ai_session_entry in the order of their rowid; a branch is  *)
(* the set of rows on the way from a row to its root, which is also their  *)
(* order, because a row comes after its parent (ParentsComeFirst).         *)
(* Each call of the storage is a step of its own; a transaction is one.    *)
(***************************************************************************)
EXTENDS Naturals, Sequences, FiniteSets

CONSTANTS
    Writers,     \* goroutines that hold the session
    MaxRows      \* entries the session gets at most

ASSUME SessionTreeAssumption == MaxRows \in Nat /\ IsFiniteSet(Writers)

VARIABLES
    rows,    \* the entries, in the order they were inserted
    leaf,    \* sessions.leaf_id, 0 when null
    alive,   \* the session has its row
    calls    \* what each writer is doing

vars == <<rows, leaf, alive, calls>>

\* a custom_message counts as a "user"; a "delete" stands for every entry that is
\* no message: a label, which names an entry too, and changes of model or name
Messages == {"user", "assistant", "summary"}
Kinds == Messages \cup {"delete", "compaction", "leaf"}

\* `began` is history: how many rows there were when the call began
Row == [id : Nat \ {0}, parent : Nat, kind : Kinds, target : Nat, began : Nat]
IdsOf(es) == {es[i].id : i \in DOMAIN es}
IndexOf(es, id) == CHOOSE i \in DOMAIN es : es[i].id = id

Idle == [pc |-> "idle", kind |-> "user", target |-> 0, began |-> 0,
         id |-> 0, parent |-> 0, summary |-> FALSE]
Pcs == {"idle", "create", "readleaf", "write"}

----------------------------------------------------------------------------
(* Reading the tree *)

\* GetPathToRoot: the rows from a row to its root, as a set of indices
Path(es, id) ==
    LET up[i \in DOMAIN es] ==
          {i} \cup IF es[i].parent = 0 THEN {} ELSE up[IndexOf(es, es[i].parent)]
    IN IF id \in IdsOf(es) THEN up[IndexOf(es, id)] ELSE {}

Branch == Path(rows, leaf)

\* Where BuildSessionContext starts on a branch: after its last compaction
Compactions(branch) == {i \in branch : rows[i].kind = "compaction"}
LastCompaction(branch) ==
    CHOOSE c \in Compactions(branch) : \A d \in Compactions(branch) : d <= c

\* BuildSessionContext: the rows that become messages of the context
Selected(branch) ==
    LET from(c) == {i \in branch : rows[i].id = rows[c].target /\ i < c}
        kept(c) == {i \in branch : i < c /\ \E k \in from(c) : k <= i}
        shown   == IF Compactions(branch) = {} THEN branch
                   ELSE LET c == LastCompaction(branch)
                        IN kept(c) \cup {i \in branch : i > c}
    IN {i \in shown : rows[i].kind \in Messages}

\* CollectEntriesForBranchSummary: climb from the old leaf until the deepest
\* row that the target's branch shares, or the root
CommonAncestor(old, target) ==
    {i \in Path(rows, target) \cap Path(rows, old) :
        \A j \in Path(rows, target) \cap Path(rows, old) : j <= i}
Collected(old, target) ==
    LET climb[i \in DOMAIN rows] ==
          IF i \in CommonAncestor(old, target) THEN {}
          ELSE {i} \cup IF rows[i].parent = 0 THEN {}
                        ELSE climb[IndexOf(rows, rows[i].parent)]
    IN IF old = 0 THEN {} ELSE climb[IndexOf(rows, old)]

\* NavigateTree: a message of the user is edited again, so its parent is the leaf
NewLeaf(target) ==
    LET t == rows[IndexOf(rows, target)]
    IN IF t.kind = "user" THEN t.parent ELSE target

----------------------------------------------------------------------------
(* Storage *)

TypeOK ==
    /\ rows \in Seq(Row)
    /\ Len(rows) <= MaxRows
    /\ \A i, j \in DOMAIN rows : rows[i].id = rows[j].id => i = j
    /\ leaf \in Nat
    /\ alive \in BOOLEAN
    /\ calls \in [Writers -> [pc : Pcs, kind : Kinds, target : Nat, began : Nat,
                              id : Nat, parent : Nat, summary : BOOLEAN]]

\* GetLeafID fails when the session or the entry is gone
LeafReadable == alive /\ leaf \in IdsOf(rows) \cup {0}

\* CreateEntryID takes the first 8 digits of a UUIDv7, the upper 32 of its 48 bits
\* of time: all ids of 65 s share them.  If an entry has them already, all 100
\* tries give the same, and the full id is used.  So an id is new, or the one that
\* another call has been given in the same 65 s and has not inserted yet.
GivenIds == {calls[w].id : w \in Writers} \ {0}
NewIds == 1 .. (MaxRows + Cardinality(Writers)) \ (IdsOf(rows) \cup GivenIds)
FreshIds == {n \in NewIds : \A m \in NewIds : n <= m} \cup (GivenIds \ IdsOf(rows))

\* A transaction needs the row of the session (a foreign key) and a new id (the
\* primary key); it inserts an entry and sets the leaf, or fails
AcceptsAnyId(id) == alive
AcceptsOrphans(id) == id \notin IdsOf(rows)
Accepts(id) == alive /\ id \notin IdsOf(rows)
Insert(row, next) ==
    IF Accepts(row.id) THEN rows' = Append(rows, row) /\ leaf' = next
                       ELSE UNCHANGED <<rows, leaf>>

Init ==
    /\ rows = <<>>
    /\ leaf = 0
    /\ alive = TRUE
    /\ calls = [w \in Writers |-> Idle]

----------------------------------------------------------------------------
(* appendTypedEntry: an id, the leaf, the insert *)

\* The bound: calls that have begun find room for their entry
Room == Len(rows) + Cardinality({w \in Writers : calls[w].pc # "idle"}) < MaxRows

Begin(w, kind, target, pc) ==
    /\ calls[w].pc = "idle"
    /\ Room
    /\ calls' = [calls EXCEPT ![w] = [Idle EXCEPT
                   !.pc = pc, !.kind = kind, !.target = target, !.began = Len(rows)]]
    /\ UNCHANGED <<rows, leaf, alive>>

\* AppendMessage
AppendMessage(w) ==
    \E kind \in {"user", "assistant"} : Begin(w, kind, 0, "create")

\* AppendMessageDeletion of a message that was redacted looks for it first
AppendMessageDeletion(w) ==
    \E i \in DOMAIN rows :
        rows[i].kind = "user" /\ Begin(w, "delete", rows[i].id, "create")

\* Compact chooses the first entry to keep from the branch it read, and
\* summarises what comes before it; the entry is appended afterwards
AppendCompactionOfAny(w) ==
    /\ LeafReadable
    /\ \E i \in DOMAIN rows : Begin(w, "compaction", rows[i].id, "create")
AppendCompaction(w) ==
    /\ LeafReadable
    /\ \E i \in DOMAIN rows :
          i \in Selected(Branch) /\ Begin(w, "compaction", rows[i].id, "create")

\* An append makes an id and then reads the leaf, a move the other way round
CreateEntryID(w) ==
    /\ calls[w].pc = "create"
    /\ \E id \in FreshIds :
         calls' = [calls EXCEPT
                     ![w].id = id,
                     ![w].pc = IF calls[w].kind = "leaf" THEN "write" ELSE "readleaf"]
    /\ UNCHANGED <<rows, leaf, alive>>

ReadLeaf(w) ==
    /\ calls[w].pc = "readleaf"
    /\ calls' = IF ~LeafReadable THEN [calls EXCEPT ![w] = Idle]
                ELSE [calls EXCEPT
                        ![w].parent = leaf,
                        ![w].pc = IF calls[w].kind = "leaf" THEN "create" ELSE "write"]
    /\ UNCHANGED <<rows, leaf, alive>>

Entry(w) == [id |-> calls[w].id, parent |-> calls[w].parent, kind |-> calls[w].kind,
             target |-> calls[w].target, began |-> calls[w].began]

AppendEntryKeepsLeaf(w) ==
    /\ calls[w].pc = "write"
    /\ calls[w].kind # "leaf"
    /\ Len(rows) < MaxRows
    /\ Insert(Entry(w), leaf)
    /\ calls' = [calls EXCEPT ![w] = Idle]
    /\ UNCHANGED alive
AppendEntry(w) ==
    /\ calls[w].pc = "write"
    /\ calls[w].kind # "leaf"
    /\ Len(rows) < MaxRows
    /\ Insert(Entry(w), calls[w].id)
    /\ calls' = [calls EXCEPT ![w] = Idle]
    /\ UNCHANGED alive

\* Any call may fail, and ends what its writer was doing
CallFails(w) ==
    /\ calls[w].pc # "idle"
    /\ calls' = [calls EXCEPT ![w] = Idle]
    /\ UNCHANGED <<rows, leaf, alive>>

----------------------------------------------------------------------------
(* Moving the leaf *)

Move(w, target, summary) ==
    /\ calls[w].pc = "idle"
    /\ Room
    /\ calls' = [calls EXCEPT ![w] = [Idle EXCEPT
                   !.pc = "readleaf", !.kind = "leaf", !.target = target, !.summary = summary]]
    /\ UNCHANGED <<rows, leaf, alive>>

\* Session.MoveTo; SetLeafID looks for its target first
MoveTo(w) == \E t \in IdsOf(rows) \cup {0}, s \in BOOLEAN : Move(w, t, s)

\* AgentHarness.NavigateTree: at the leaf there is nothing to do; a summary comes
\* from a hook or the model, or there is none.  A hook may also cancel.
NavigateTree(w) ==
    /\ LeafReadable
    /\ \E t \in IdsOf(rows) \ {leaf}, s \in BOOLEAN : Move(w, NewLeaf(t), s)

\* The transaction of SetLeafID; a summary is appended as an entry of its own
SetLeafID(w) ==
    /\ calls[w].pc = "write"
    /\ calls[w].kind = "leaf"
    /\ Len(rows) < MaxRows
    /\ Insert(Entry(w), calls[w].target)
    /\ calls' = [calls EXCEPT ![w] =
                   IF calls[w].summary /\ Accepts(calls[w].id)
                   THEN [Idle EXCEPT !.pc = "create", !.kind = "summary",
                                     !.target = calls[w].target, !.began = Len(rows) + 1]
                   ELSE Idle]
    /\ UNCHANGED alive

----------------------------------------------------------------------------

\* Store.DeleteSession, when a chat is deleted: one transaction
DeleteSession ==
    /\ alive
    /\ alive' = FALSE
    /\ rows' = <<>>
    /\ leaf' = 0
    /\ UNCHANGED calls

Next ==
    \/ \E w \in Writers : \/ AppendMessage(w) \/ AppendMessageDeletion(w) \/ AppendCompaction(w)
                          \/ CreateEntryID(w) \/ ReadLeaf(w) \/ AppendEntry(w)
                          \/ CallFails(w) \/ MoveTo(w) \/ NavigateTree(w) \/ SetLeafID(w)
    \/ DeleteSession

Spec == Init /\ [][Next]_vars

----------------------------------------------------------------------------
(* Forks: SQLiteSessionRepo.Fork reads some rows once and appends them to a *)
(* new session, one after the other                                         *)

\* AppendEntry takes the leaf of a copied marker from its target
NextLeaf(row) == IF row.kind = "leaf" THEN row.target ELSE row.id
ForkedLeaf(es) == IF es = <<>> THEN 0 ELSE NextLeaf(es[Len(es)])

\* entriesToFork: everything, or a branch up to an entry or before a user's message;
\* what is copied keeps its order
Rank(S, i) == Cardinality({j \in S : j <= i})
Copy(S) == [n \in 1 .. Cardinality(S) |-> rows[CHOOSE i \in S : Rank(S, i) = n]]
ForkTargets == {rows[i].id : i \in DOMAIN rows}
                 \cup {rows[i].parent : i \in {j \in DOMAIN rows : rows[j].kind = "user"}}

----------------------------------------------------------------------------
(* Properties *)

\* The entries form a forest: a parent is an entry inserted before, so that
\* GetPathToRoot finds every entry on its way and ends; and the leaf is an
\* entry, so that GetLeafID never reports the session as broken.
TreeOK ==
    /\ \A i \in DOMAIN rows : rows[i].parent # 0 =>
          \E j \in 1 .. (i - 1) : rows[j].id = rows[i].parent
    /\ leaf # 0 => leaf \in IdsOf(rows)

\* An entry leaves the branch only when the leaf is moved or when an append that
\* had begun before the entry was there overtakes it: an append whose goroutine
\* begins after another has returned never loses the other's entry.
FinishedAppendsStay ==
    \A i \in DOMAIN rows : (rows[i].kind # "leaf" /\ i \notin Branch) =>
        \E k \in (i + 1) .. Len(rows) : rows[k].kind = "leaf" \/ rows[k].began < i

\* A compaction replaces the older part of its own branch: unless others wrote
\* while it was summarised, the first entry it keeps lies on its branch, and
\* BuildSessionContext shows that entry and everything after it.
CompactionKeepsSuffix ==
    \A c \in Branch :
        (rows[c].kind = "compaction" /\ rows[c].began = c - 1) =>
            \E k \in Path(rows, rows[c].id) : k < c /\ rows[k].id = rows[c].target

\* What NavigateTree summarises is what its move takes off the branch: the
\* entries of the old branch that the target's branch does not share.
CollectsWhatIsLeft ==
    \A target \in IdsOf(rows) :
        Collected(leaf, target) = Branch \ Path(rows, target)

\* A fork has the branch it was asked for: a full copy has the leaf of its
\* source (markers are replayed), a copy of a branch without markers ends in
\* the entry it was forked at.
ForkKeepsBranch ==
    /\ rows # <<>> => ForkedLeaf(rows) = leaf
    /\ \A t \in ForkTargets :
          LET S == Path(rows, t)
          IN (\A i \in S : rows[i].kind # "leaf") =>
                /\ ForkedLeaf(Copy(S)) = t
                /\ {Copy(S)[i].id : i \in Path(Copy(S), t)} = {rows[i].id : i \in S}

\* What is computed from a branch covers all of it: a compaction's suffix, the
\* entries a move leaves, and a fork.  (Calls may always fail, so every tree there
\* is can be looked at between two calls.)
BranchViewsAreWhole ==
    (\A w \in Writers : calls[w] = Idle) =>
        CompactionKeepsSuffix /\ CollectsWhatIsLeft /\ ForkKeepsBranch

\* README: "Branching = moving the leaf".
BranchingIsMoving ==
    \A i \in DOMAIN rows : (rows[i].kind # "leaf" /\ i \notin Branch) =>
        \E k \in (i + 1) .. Len(rows) : rows[k].kind = "leaf"

=============================================================================
