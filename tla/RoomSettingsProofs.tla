------------------------- MODULE RoomSettingsProofs -------------------------
(* What holds of a login and its room for every value of the constants:     *)
(* any number of calls in flight and of tokens, failures and restarts.      *)
EXTENDS RoomSettings, Approvals, TLAPS

-----------------------------------------------------------------------------
(* The inductive invariant of the login. *)

Fields == {"op", "at", "pid", "cfg", "use", "dup", "snap", "cancelled", "raced", "word", "seen"}

\* Where a call may be before the user's preferred login is there.
NeedsNoLogin == {"idle", "look", "create", "poll", "pause", "exchange"}
AuthLocked == {"server", "answer", "awrite"}
RunSteps == {"auth", "lock", "call"} \union AuthLocked

HasCallFields(c) == DOMAIN c = Fields /\ c.dup \in BOOLEAN /\ c.raced \in BOOLEAN
CallsTyped == DOMAIN calls = Slots /\ \A s \in Slots : HasCallFields(calls[s])

TypeInv ==
  /\ CallsTyped
  /\ logins = [l \in DOMAIN logins |-> logins[l]]
  /\ rows = [l \in DOMAIN logins |-> rows[l]]
  /\ DOMAIN contacts = {"valid", "list", "raced"} /\ contacts.valid \in BOOLEAN /\ contacts.raced \in BOOLEAN
  /\ foreign \in BOOLEAN /\ torn \in BOOLEAN /\ lost \in BOOLEAN /\ replayed \in BOOLEAN

\* The login a call works on is there and stays there; one that is replaced has
\* not been changed, and has no copies that have.
LoginInv ==
  /\ DOMAIN logins \in IF foreign THEN {{"own"}} ELSE {{"main"}, {"own"}, {"main", "own"}}
  /\ ~Loaded => logins["own"] = Old
  /\ contacts.valid => Loaded
  /\ \A s \in Slots :
       /\ calls[s].at = "create" => calls[s].snap = Old /\ ~foreign
       /\ calls[s].at = "drop" \/ calls[s].dup => ~foreign
       /\ calls[s].at \notin NeedsNoLogin => Loaded
       /\ calls[s].at = "list" <=> calls[s].op = "contacts"
       /\ calls[s].at \in {"change", "write"} \/ (calls[s].at = "esave" /\ ~calls[s].dup) => ~Duplicate

\* providerConfigMu and providerAuthMu.
LockInv ==
  \A r, s \in Slots : r # s =>
    /\ ~(calls[r].at = "write" /\ calls[s].at = "write")
    /\ ~(calls[r].at \in AuthLocked /\ calls[s].at \in AuthLocked)

\* A device login has a token that nobody else has seen yet.
Brings(s) == /\ calls[s].at \in {"look", "create", "esave", "drop", "change"}
             /\ calls[s].op # "delete" /\ calls[s].pid = "chatgpt"
Uses(s, token) == \/ calls[s].at \in RunSteps /\ calls[s].pid = "chatgpt" /\ calls[s].cfg = token
                  \/ calls[s].at \in {"server", "answer"} /\ calls[s].use = token

\* Unless a token was lost, the login's is live, but while the server's answer to a
\* refresh is on its way.
TokenInv ==
  ~lost =>
    /\ issued \in Nat /\ live \subseteq 1..issued
    /\ Configured => Login["chatgpt"] \in 1..issued
    /\ Configured /\ (\A s \in Slots : calls[s].at # "answer") => Login["chatgpt"] \in live
    /\ ~Loaded => 1 \in live
    /\ ~replayed
    /\ \A s \in Slots :
         /\ calls[s].at \in {"lock"} \union AuthLocked => calls[s].pid = "chatgpt"
         /\ calls[s].at \in RunSteps /\ calls[s].pid = "chatgpt" => calls[s].cfg \in 1..issued
         /\ calls[s].at \in {"server", "answer"} => calls[s].use \in 1..issued
         /\ calls[s].at = "answer" => calls[s].use \in live
         /\ Brings(s) => /\ calls[s].cfg \in live
                         /\ Configured => calls[s].cfg # Login["chatgpt"]
                         /\ ~Loaded => calls[s].cfg # 1
                         /\ \A r \in Slots : /\ ~Uses(r, calls[s].cfg)
                                             /\ r # s /\ Brings(r) => calls[r].cfg # calls[s].cfg

\* A Save that has encoded something else than the login has now overlaps one that is
\* about to notice it; while the row is behind the login, such a Save is in flight.
Writes(s) == calls[s].at \in {"write", "awrite"}
SaveInv ==
  /\ \A l \in DOMAIN logins \ {Preferred} : rows[l] = logins[l]
  /\ Loaded /\ ~torn =>
       /\ rows[Preferred] = Login \/ \E r \in Slots : Writes(r)
       /\ \A s \in Slots : Saving(s) =>
            calls[s].snap = Login \/ \E r \in Slots \ {s} : Writes(r) /\ calls[r].at # calls[s].at

\* What is wanted is in the login, and in the row unless that is torn; as long as an
\* older login is there nothing was deleted.
KeepInv ==
  /\ Loaded => wanted \subseteq DOMAIN Login
  /\ Loaded /\ ~torn => wanted \subseteq DOMAIN rows[Preferred]
  /\ \A s \in Slots : calls[s].at = "write" /\ calls[s].op # "delete" => calls[s].pid \in DOMAIN Login
  /\ Duplicate \/ ~Loaded =>
       /\ wanted \subseteq DOMAIN Old
       /\ \A l \in DOMAIN logins : DOMAIN logins[l] = DOMAIN Old /\ DOMAIN rows[l] = DOMAIN Old
       /\ \A s \in Slots : Saving(s) => DOMAIN calls[s].snap = DOMAIN Old

\* A listing that no change overtook is that of the login.
ListInv ==
  /\ ListIsCurrent
  /\ \A s \in Slots : calls[s].op = "contacts" /\ ~calls[s].raced => calls[s].snap = Listing

IInv == TypeInv /\ LoginInv /\ LockInv /\ TokenInv /\ SaveInv /\ KeepInv /\ ListInv

-----------------------------------------------------------------------------
(* What a step does to the calls. *)

\* Another slot's call is as it was, but for what it is told of races and cancellations.
SameCall(c, d) == /\ c.op = d.op /\ c.at = d.at /\ c.pid = d.pid /\ c.cfg = d.cfg /\ c.use = d.use
                  /\ c.dup = d.dup /\ c.snap = d.snap /\ c.word = d.word /\ c.seen = d.seen
                  /\ (d.raced => c.raced)
Others(s) == \A r \in Slots \ {s} : SameCall(calls'[r], calls[r])

LEMMA RacedCall ==
  ASSUME NEW c, HasCallFields(c), NEW d, d = c \/ d = [c EXCEPT !.raced = TRUE]
  PROVE  HasCallFields(d) /\ SameCall(d, c)
BY DEF HasCallFields, Fields, SameCall

\* One call becomes c; with or without the others being told of a race.
LEMMA OneCall ==
  ASSUME CallsTyped, NEW s \in Slots, NEW c, HasCallFields(c),
         calls' = [calls EXCEPT ![s] = c] \/ calls' = Raced([calls EXCEPT ![s] = c])
           \/ calls' = ListingsRaced([calls EXCEPT ![s] = c])
  PROVE  CallsTyped' /\ SameCall(calls'[s], c) /\ Others(s)
<1>1. CASE calls' = [calls EXCEPT ![s] = c]
  BY <1>1 DEF CallsTyped, HasCallFields, Others, SameCall, Fields
<1> DEFINE f == [calls EXCEPT ![s] = c]
<1>a. /\ DOMAIN f = Slots /\ f[s] = c /\ \A r \in Slots : HasCallFields(f[r])
      /\ \A r \in Slots \ {s} : f[r] = calls[r]
  BY DEF CallsTyped
<1> HIDE DEF f
<1>2. CASE calls' = Raced(f)
  <2>1. DOMAIN calls' = Slots
    BY <1>a, <1>2 DEF Raced
  <2>2. \A r \in Slots : calls'[r] = f[r] \/ calls'[r] = [f[r] EXCEPT !.raced = TRUE]
    BY <1>a, <1>2 DEF Raced
  <2> QED BY <1>a, <2>1, <2>2, RacedCall DEF CallsTyped, Others
<1>3. CASE calls' = ListingsRaced(f)
  <2>1. DOMAIN calls' = Slots
    BY <1>a, <1>3 DEF ListingsRaced
  <2>2. \A r \in Slots : calls'[r] = f[r] \/ calls'[r] = [f[r] EXCEPT !.raced = TRUE]
    BY <1>a, <1>3 DEF ListingsRaced
  <2> QED BY <1>a, <2>1, <2>2, RacedCall DEF CallsTyped, Others
<1> QED BY <1>1, <1>2, <1>3 DEF f

\* A call begins.
LEMMA BeginsStep ==
  ASSUME CallsTyped, NEW c, HasCallFields(c), Begins(c)
  PROVE  \E s \in Slots : /\ CallsTyped' /\ Others(s)
                          /\ calls[s].at = "idle" /\ calls' = [calls EXCEPT ![s] = c] /\ calls'[s] = c
<1>1. PICK s \in Slots : At(s, "idle") /\ calls' = [calls EXCEPT ![s] = c]
  BY DEF Begins
<1>2. calls'[s] = c
  BY <1>1 DEF CallsTyped
<1>3. CallsTyped' /\ Others(s)
  BY <1>1, OneCall
<1> QED BY <1>1, <1>2, <1>3 DEF At

LEMMA IdleFields == Idle.at = "idle" /\ Idle.op = "idle" /\ Idle.dup = FALSE
BY DEF Idle

LEMMA StartUpCalls ==
  /\ DOMAIN StartUp = Slots
  /\ \A s \in Slots : /\ HasCallFields(StartUp[s])
                       /\ StartUp[s].at \in {"idle", "look"} /\ StartUp[s].op \in {"idle", "list"}
                       /\ StartUp[s].pid = "" /\ StartUp[s].dup = FALSE
<1>1. DOMAIN StartUp = Slots
  BY DEF StartUp
<1>2. ASSUME NEW s \in Slots
      PROVE  /\ HasCallFields(StartUp[s])
             /\ StartUp[s].at \in {"idle", "look"} /\ StartUp[s].op \in {"idle", "list"}
             /\ StartUp[s].pid = "" /\ StartUp[s].dup = FALSE
  <2>1. CASE s = 1
    BY <2>1 DEF StartUp, Idle, HasCallFields, Fields
  <2>2. CASE s # 1
    BY <2>2 DEF StartUp, Idle, HasCallFields, Fields
  <2> QED BY <2>1, <2>2
<1> QED BY <1>1, <1>2

\* A call ends.
LEMMA EndStep ==
  ASSUME CallsTyped, NEW s \in Slots, calls' = End(s)
  PROVE  CallsTyped' /\ Others(s) /\ calls'[s] = Idle
<1>1. HasCallFields(Idle)
  BY DEF Idle, HasCallFields, Fields
<1>2. calls' = [calls EXCEPT ![s] = Idle]
  BY DEF End
<1>3. calls'[s] = Idle
  BY <1>2 DEF CallsTyped
<1> QED BY <1>1, <1>2, <1>3, OneCall

-----------------------------------------------------------------------------
(* Steps that change only what a call is doing. *)

Globals == <<foreign, logins, rows, issued, live, contacts, wanted, torn, lost, replayed>>

LEMMA SameDefinitions ==
  ASSUME UNCHANGED Globals
  PROVE  /\ Preferred' = Preferred /\ (Loaded' <=> Loaded) /\ (Duplicate' <=> Duplicate)
         /\ Login' = Login /\ (Configured' <=> Configured) /\ Listing' = Listing
         /\ (ListIsCurrent' <=> ListIsCurrent)
         /\ foreign' = foreign /\ logins' = logins /\ rows' = rows /\ issued' = issued /\ live' = live
         /\ contacts' = contacts /\ wanted' = wanted /\ torn' = torn /\ lost' = lost /\ replayed' = replayed
BY DEF Globals, Preferred, Loaded, Duplicate, Login, Configured, Listing, ListIsCurrent

\* A step of one call that neither is in a Save or has an answer in flight, nor begins
\* to save a change or to use the lock of the tokens.
LEMMA QuietStep ==
  ASSUME IInv, UNCHANGED Globals, NEW s \in Slots, CallsTyped', Others(s),
         calls[s].at \notin {"write", "awrite", "answer"},
         calls'[s].at \notin {"write"} \union AuthLocked,
         calls'[s].at \notin NeedsNoLogin => Loaded,
         calls'[s].at = "create" => calls'[s].snap = Old /\ ~foreign,
         calls'[s].at = "drop" \/ calls'[s].dup => ~foreign,
         calls'[s].at = "list" <=> calls'[s].op = "contacts",
         calls'[s].at = "change" \/ (calls'[s].at = "esave" /\ ~calls'[s].dup) => ~Duplicate,
         calls'[s].at = "lock" => calls'[s].pid = "chatgpt",
         calls'[s].at \in {"auth", "lock", "call"} /\ calls'[s].pid = "chatgpt" /\ ~lost =>
           /\ calls'[s].cfg \in 1..issued
           /\ \A r \in Slots \ {s} : Brings(r) => calls[r].cfg # calls'[s].cfg,
         Brings(s)' => Brings(s) /\ calls'[s].cfg = calls[s].cfg,
         calls'[s].at = "esave" => calls'[s].snap = Login,
         calls'[s].at = "list" /\ ~calls'[s].raced => calls'[s].snap = Listing
  PROVE  IInv'
<1> USE SameDefinitions
<1>1. TypeInv'
  BY DEF IInv, TypeInv
<1>2. LoginInv'
  BY DEF IInv, LoginInv, Others, SameCall, NeedsNoLogin
<1>3. LockInv'
  BY DEF IInv, LockInv, Others, SameCall, AuthLocked
<1>4. TokenInv'
  BY DEF IInv, TokenInv, Others, SameCall, AuthLocked, RunSteps, Brings, Uses
<1>5. SaveInv'
  BY DEF IInv, SaveInv, Others, SameCall, Writes, Saving, AuthLocked
<1>6. KeepInv'
  <2>1. Loaded /\ Duplicate => DOMAIN Login = DOMAIN Old
    BY DEF IInv, KeepInv, Loaded, Login
  <2> QED BY <2>1 DEF IInv, KeepInv, Others, SameCall, Saving, AuthLocked, NeedsNoLogin
<1>7. ListInv'
  BY DEF IInv, ListInv, LoginInv, Others, SameCall
<1> QED BY <1>1, <1>2, <1>3, <1>4, <1>5, <1>6, <1>7 DEF IInv

\* A call ends, without a Save or an answer in flight.
LEMMA QuietEnd ==
  ASSUME IInv, UNCHANGED Globals, NEW s \in Slots, calls' = End(s) \/ calls' = Raced(End(s)),
         calls[s].at \notin {"write", "awrite", "answer"}
  PROVE  IInv'
<1>1. HasCallFields(Idle)
  BY DEF Idle, HasCallFields, Fields
<1>2. CallsTyped' /\ Others(s) /\ SameCall(calls'[s], Idle)
  BY <1>1, OneCall DEF End, IInv, TypeInv
<1>3. /\ calls'[s].at = "idle" /\ calls'[s].op = "idle" /\ calls'[s].dup = FALSE
  BY <1>2 DEF SameCall, Idle
<1> QED BY <1>2, <1>3, QuietStep DEF AuthLocked, NeedsNoLogin, Brings

\* A call begins, for a login that is there if it needs one.
LEMMA QuietBegin ==
  ASSUME IInv, UNCHANGED Globals, NEW c, HasCallFields(c), Begins(c),
         c.at \in {"look", "poll", "change", "list", "reply", "normalise", "chat"},
         c.at \notin {"look", "poll"} => Loaded,
         ~c.dup, c.at = "list" <=> c.op = "contacts", c.at = "list" => c.snap = Listing,
         c.at = "change" => ~Duplicate,
         c.at \in {"look", "change"} => c.op = "delete" \/ c.pid # "chatgpt"
  PROVE  IInv'
<1>1. PICK s \in Slots : /\ CallsTyped' /\ Others(s)
                         /\ calls[s].at = "idle" /\ calls'[s] = c
  BY BeginsStep DEF IInv, TypeInv
<1> QED BY <1>1, QuietStep DEF AuthLocked, NeedsNoLogin, Brings

\* A call goes on as c.
LEMMA QuietMove ==
  ASSUME IInv, UNCHANGED Globals, NEW s \in Slots, NEW c, HasCallFields(c),
         calls' = [calls EXCEPT ![s] = c] \/ calls' = Raced([calls EXCEPT ![s] = c]),
         calls[s].at \notin {"write", "awrite", "answer"},
         c.at \notin {"write"} \union AuthLocked,
         c.at \notin NeedsNoLogin => Loaded,
         c.at = "create" => c.snap = Old /\ ~foreign,
         c.at = "drop" \/ c.dup => ~foreign,
         c.at # "list" /\ c.op # "contacts",
         c.at = "change" \/ (c.at = "esave" /\ ~c.dup) => ~Duplicate,
         c.at = "lock" => c.pid = "chatgpt",
         c.at \in {"auth", "lock", "call"} /\ c.pid = "chatgpt" /\ ~lost =>
           /\ c.cfg \in 1..issued
           /\ \A r \in Slots \ {s} : Brings(r) => calls[r].cfg # c.cfg,
         c.at \in {"look", "create", "esave", "drop", "change"} /\ c.op # "delete" /\ c.pid = "chatgpt"
           => Brings(s) /\ c.cfg = calls[s].cfg,
         c.at = "esave" => c.snap = Login
  PROVE  IInv'
<1>1. CallsTyped' /\ Others(s) /\ SameCall(calls'[s], c)
  BY OneCall DEF IInv, TypeInv
<1> QED BY <1>1, QuietStep DEF SameCall, Brings

\* Every call goes on as it was, but for what it is told of races and cancellations.
LEMMA QuietAll ==
  ASSUME IInv, UNCHANGED Globals, CallsTyped', \A s \in Slots : SameCall(calls'[s], calls[s])
  PROVE  IInv'
<1> USE SameDefinitions
<1>1. TypeInv'
  BY DEF IInv, TypeInv
<1>2. LoginInv'
  BY DEF IInv, LoginInv, SameCall, NeedsNoLogin
<1>3. LockInv'
  BY DEF IInv, LockInv, SameCall, AuthLocked
<1>4. TokenInv'
  BY DEF IInv, TokenInv, SameCall, AuthLocked, RunSteps, Brings, Uses
<1>5. SaveInv'
  BY DEF IInv, SaveInv, SameCall, Writes, Saving
<1>6. KeepInv'
  BY DEF IInv, KeepInv, SameCall, Saving
<1>7. ListInv'
  BY DEF IInv, ListInv, SameCall
<1> QED BY <1>1, <1>2, <1>3, <1>4, <1>5, <1>6, <1>7 DEF IInv

\* The calls' beginnings.
LEMMA BeginningsAreQuiet ==
  ASSUME IInv,
         \/ List \/ Save \/ Device \/ Contacts \/ Prompt \/ \E p \in {"chatgpt", "custom"} : Delete(p)
         \/ \E op \in {"model", "reasoning", "mode", "search", "fetch"} : \E p, w : Command(op, p, w)
         \/ NewChat("custom", "lab/fast")
  PROVE  IInv'
<1>1. CASE List
  <2>1. HasCallFields([Idle EXCEPT !.op = "list", !.at = "look"])
    BY DEF Idle, HasCallFields, Fields
  <2> QED BY <1>1, <2>1, QuietBegin DEF List, Globals, Idle
<1>2. CASE Save
  <2>1. PICK at \in Entry : Begins([Input EXCEPT !.at = at])
    BY <1>2 DEF Save
  <2>2. HasCallFields([Input EXCEPT !.at = at])
    BY DEF Input, Idle, HasCallFields, Fields
  <2>3. at = "look" \/ (at = "change" /\ Loaded /\ ~Duplicate)
    BY DEF Entry
  <2>4. UNCHANGED Globals
    BY <1>2 DEF Save, Globals
  <2> QED BY <2>1, <2>2, <2>3, <2>4, QuietBegin DEF Input, Idle
<1>3. CASE Device
  <2>1. HasCallFields([Idle EXCEPT !.op = "device", !.at = "poll", !.pid = "chatgpt"])
    BY DEF Idle, HasCallFields, Fields
  <2> QED BY <1>3, <2>1, QuietBegin DEF Device, Globals, Idle
<1>4. CASE Contacts
  <2>1. HasCallFields([Idle EXCEPT !.op = "contacts", !.at = "list", !.snap = Listing])
    BY DEF Idle, HasCallFields, Fields
  <2> QED BY <1>4, <2>1, QuietBegin DEF Contacts, Globals, Idle
<1>5. CASE Prompt
  <2> DEFINE c == [Idle EXCEPT !.op = "prompt", !.at = "normalise", !.seen = [room |-> room, tools |-> tools]]
  <2>1. HasCallFields(c)
    BY DEF Idle, HasCallFields, Fields
  <2>2. c.op = "prompt" /\ c.at = "normalise" /\ ~c.dup
    BY DEF Idle
  <2>3. Begins(c) /\ Loaded /\ UNCHANGED Globals
    BY <1>5 DEF Prompt, RoomUntouched, Globals
  <2> HIDE DEF c
  <2> QED BY <2>1, <2>2, <2>3, QuietBegin
<1>6. ASSUME NEW p \in {"chatgpt", "custom"}, Delete(p)  PROVE IInv'
  <2>1. PICK at \in Entry : Begins([Idle EXCEPT !.op = "delete", !.at = at, !.pid = p])
    BY <1>6 DEF Delete
  <2>2. HasCallFields([Idle EXCEPT !.op = "delete", !.at = at, !.pid = p])
    BY DEF Idle, HasCallFields, Fields
  <2>3. at = "look" \/ (at = "change" /\ Loaded /\ ~Duplicate)
    BY DEF Entry
  <2>4. UNCHANGED Globals
    BY <1>6 DEF Delete, Globals
  <2> QED BY <2>1, <2>2, <2>3, <2>4, QuietBegin DEF Idle
<1>7. ASSUME NEW op \in {"model", "reasoning", "mode", "search", "fetch"}, NEW p, NEW w, Command(op, p, w)
      PROVE  IInv'
  <2> DEFINE c == [Idle EXCEPT !.op = op, !.at = "reply", !.pid = p, !.word = w,
                               !.seen = [room |-> room, tools |-> tools]]
  <2>1. HasCallFields(c)
    BY DEF Idle, HasCallFields, Fields
  <2>2. c.op = op /\ c.at = "reply" /\ ~c.dup
    BY DEF Idle
  <2>3. Begins(c) /\ Loaded /\ UNCHANGED Globals
    BY <1>7 DEF Command, RoomUntouched, Globals
  <2> HIDE DEF c
  <2> QED BY <2>1, <2>2, <2>3, QuietBegin
<1>8. CASE NewChat("custom", "lab/fast")
  <2> DEFINE c == [Idle EXCEPT !.op = "chat", !.at = "chat",
                     !.seen = [room |-> Canonical(Setting("custom", "lab/fast", "", "")), tools |-> tools]]
  <2>1. HasCallFields(c)
    BY DEF Idle, HasCallFields, Fields
  <2>2. c.op = "chat" /\ c.at = "chat" /\ ~c.dup
    BY DEF Idle
  <2>3. Begins(c) /\ Loaded /\ UNCHANGED Globals
    BY <1>8 DEF NewChat, RoomUntouched, Globals
  <2> HIDE DEF c
  <2> QED BY <2>1, <2>2, <2>3, QuietBegin
<1> QED BY <1>1, <1>2, <1>3, <1>4, <1>5, <1>6, <1>7, <1>8

\* A call that gives up, is refused or has done what it was for.
LEMMA EndsAreQuiet ==
  ASSUME IInv, NEW s \in Slots,
         \/ EnsureFails(s) \/ Refuse(s) \/ DeviceFails(s) \/ RefreshRefused(s) \/ ListFails(s)
         \/ ChatWritten(s) \/ Titled(s) \/ TitleUnsaved(s) \/ AnswerModel(s) \/ AnswerTools(s)
  PROVE  IInv'
<1>1. UNCHANGED Globals
  BY DEF EnsureFails, Refuse, DeviceFails, RefreshRefused, ListFails, ChatWritten, Titled, TitleUnsaved,
         AnswerModel, AnswerTools, RoomUntouched, Globals
<1>2. calls' = End(s) \/ calls' = Raced(End(s))
  BY DEF EnsureFails, Refuse, DeviceFails, RefreshRefused, ListFails, ChatWritten, Titled, TitleUnsaved,
         AnswerModel, AnswerTools
<1>3. calls[s].at \notin {"write", "awrite", "answer"}
  BY DEF EnsureFails, Refuse, DeviceFails, RefreshRefused, ListFails, ChatWritten, Titled, TitleUnsaved,
         AnswerModel, AnswerTools, At
<1> QED BY <1>1, <1>2, <1>3, QuietEnd

\* A cancellation, a client's edit, a name, and the tokens' age.
LEMMA EditsAreQuiet ==
  ASSUME IInv, ClientEdits \/ Rename \/ Expire \/ \E s \in Slots : Cancel(s)
  PROVE  IInv'
<1> CallsTyped
  BY DEF IInv, TypeInv
<1>1. CASE ClientEdits
  <2>1. calls' = Raced(calls) /\ UNCHANGED Globals
    BY <1>1 DEF ClientEdits, RoomUntouched, Globals
  <2> QED BY <2>1, QuietAll DEF Raced, CallsTyped, HasCallFields, Fields, SameCall
<1>2. CASE Rename
  <2>1. calls' = Overtaken /\ UNCHANGED Globals
    BY <1>2 DEF Rename, RoomUntouched, Globals
  <2> QED BY <2>1, QuietAll DEF Overtaken, CallsTyped, HasCallFields, Fields, SameCall
<1>3. CASE Expire
  <2>1. calls' = calls /\ UNCHANGED Globals
    BY <1>3 DEF Expire, Globals
  <2> QED BY <2>1, QuietAll DEF CallsTyped, HasCallFields, SameCall
<1>4. ASSUME NEW s \in Slots, Cancel(s)  PROVE IInv'
  <2>1. UNCHANGED Globals
    BY <1>4 DEF Cancel, Globals
  <2>2. PICK w : calls' = [calls EXCEPT ![s].cancelled = w]
    BY <1>4 DEF Cancel
  <2> QED BY <2>1, <2>2, QuietAll DEF CallsTyped, HasCallFields, Fields, SameCall
<1> QED BY <1>1, <1>2, <1>3, <1>4

\* A call that goes on: to find its login, to wait for the device, with its prompt and its run.
LEMMA MovesAreQuiet ==
  ASSUME IInv, NEW s \in Slots,
         Look(s) \/ Poll(s) \/ Pause(s) \/ Auth(s) \/ Call(s) \/ Normalise(s) \/ Start(s) \/ AskTitle(s)
  PROVE  IInv'
<1> DEFINE Goes(c) == calls' = [calls EXCEPT ![s] = c] \/ calls' = Raced([calls EXCEPT ![s] = c])
<1>1. HasCallFields(calls[s]) /\ DOMAIN calls = Slots
  BY DEF IInv, TypeInv, CallsTyped
<1>2. UNCHANGED Globals
  BY DEF Look, Poll, Pause, Auth, Call, Normalise, Start, AskTitle, RoomUntouched, Globals
<1>3. calls[s].at \notin {"write", "awrite", "answer"}
  BY DEF Look, Poll, Pause, Auth, Call, Normalise, Start, AskTitle, At
<1>4. calls[s].at # "list" => calls[s].op # "contacts"
  BY DEF IInv, LoginInv
<1>5. CASE Look(s)
  <2> DEFINE c == [calls[s] EXCEPT !.dup = Duplicate, !.at = IF Loaded THEN "esave" ELSE "create",
                                   !.snap = IF Loaded THEN Login ELSE logins["own"]]
  <2>1. HasCallFields(c)
    BY <1>1 DEF HasCallFields, Fields, Duplicate
  <2>2. calls' = [calls EXCEPT ![s] = c]
    BY <1>1, <1>5 DEF Look
  <2>3. c.at = IF Loaded THEN "esave" ELSE "create"
    BY <1>1 DEF HasCallFields, Fields
  <2>4. c.dup = Duplicate /\ c.snap = IF Loaded THEN Login ELSE logins["own"]
    BY <1>1 DEF HasCallFields, Fields
  <2>5. c.op = calls[s].op /\ c.pid = calls[s].pid /\ c.cfg = calls[s].cfg /\ calls[s].at = "look"
    BY <1>1, <1>5 DEF HasCallFields, Fields, Look, At
  <2>6. ~Loaded => logins["own"] = Old /\ ~foreign
    BY DEF IInv, LoginInv, Loaded, Preferred
  <2>7. Duplicate => ~foreign
    BY DEF Duplicate
  <2> HIDE DEF c
  <2> QED BY <1>2, <1>3, <1>4, <2>1, <2>2, <2>3, <2>4, <2>5, <2>6, <2>7, QuietMove DEF Brings, NeedsNoLogin, AuthLocked
<1>6. ASSUME NEW at, calls' = Goto(s, at), at \in {"poll", "pause", "exchange"}, calls[s].at \in {"poll", "pause"}
      PROVE  IInv'
  <2> DEFINE c == [calls[s] EXCEPT !.at = at]
  <2>1. HasCallFields(c) /\ c.at = at /\ c.op = calls[s].op /\ c.pid = calls[s].pid /\ c.dup = calls[s].dup
    BY <1>1 DEF HasCallFields, Fields
  <2>2. calls' = [calls EXCEPT ![s] = c]
    BY <1>1, <1>6 DEF Goto
  <2>3. c.dup => ~foreign
    BY <2>1 DEF IInv, LoginInv
  <2> HIDE DEF c
  <2> QED BY <1>2, <1>3, <1>4, <1>6, <2>1, <2>2, <2>3, QuietMove DEF NeedsNoLogin, AuthLocked
<1>7. CASE Poll(s)
  BY <1>6, <1>7 DEF Poll, At
<1>8. CASE Pause(s)
  BY <1>2, <1>3, <1>6, <1>8, QuietEnd DEF Pause, At
<1>9. ASSUME NEW at, calls' = Goto(s, at), at \in {"auth", "lock", "call"}, calls[s].at \in {"auth", "lock", "call"},
             at = "lock" => calls[s].pid = "chatgpt"
      PROVE  IInv'
  <2> DEFINE c == [calls[s] EXCEPT !.at = at]
  <2>1. /\ HasCallFields(c) /\ c.at = at /\ c.op = calls[s].op /\ c.pid = calls[s].pid
        /\ c.cfg = calls[s].cfg /\ c.dup = calls[s].dup
    BY <1>1 DEF HasCallFields, Fields
  <2>2. calls' = [calls EXCEPT ![s] = c]
    BY <1>1, <1>9 DEF Goto
  <2>3. (c.dup => ~foreign) /\ Loaded
    BY <1>9, <2>1 DEF IInv, LoginInv, NeedsNoLogin
  <2>4. calls[s].pid = "chatgpt" /\ ~lost =>
          /\ calls[s].cfg \in 1..issued
          /\ \A r \in Slots \ {s} : Brings(r) => calls[r].cfg # calls[s].cfg
    BY <1>9 DEF IInv, TokenInv, RunSteps, Uses
  <2> HIDE DEF c
  <2> QED BY <1>2, <1>3, <1>4, <1>9, <2>1, <2>2, <2>3, <2>4, QuietMove DEF NeedsNoLogin, AuthLocked
<1>10. CASE Auth(s)
  BY <1>9, <1>10 DEF Auth, At
<1>11. CASE Call(s)
  BY <1>2, <1>3, <1>9, <1>11, QuietEnd DEF Call, At
<1>12. CASE Normalise(s)
  <2> DEFINE seen == [room |-> Canonical(calls[s].seen.room), tools |-> calls[s].seen.tools]
             c == [calls[s] EXCEPT !.at = "start", !.raced = FALSE, !.seen = seen]
  <2>1. /\ HasCallFields(c) /\ c.at = "start" /\ c.op = calls[s].op /\ c.pid = calls[s].pid /\ c.dup = calls[s].dup
    BY <1>1 DEF HasCallFields, Fields
  <2>2. calls' = End(s) \/ calls' = Raced(End(s)) \/ Goes(c)
    BY <1>1, <1>12 DEF Normalise
  <2>3. (c.dup => ~foreign) /\ Loaded /\ calls[s].at = "normalise"
    BY <1>12, <2>1 DEF IInv, LoginInv, NeedsNoLogin, Normalise, At
  <2>4. CASE Goes(c)
    <3> HIDE DEF c
    <3> QED BY <1>2, <1>3, <1>4, <2>1, <2>3, <2>4, QuietMove DEF NeedsNoLogin, AuthLocked
  <2> QED BY <1>2, <1>3, <2>2, <2>4, QuietEnd
<1>13. CASE Start(s)
  <2> DEFINE r0 == calls[s].seen.room
             c == RunOf(s, ModelOf(r0))
  <2>1. HasCallFields(c) /\ c.at = "auth" /\ c.op = "run" /\ c.pid = ProviderOf(r0) /\ c.cfg = Login[c.pid] /\ ~c.dup
    BY DEF RunOf, Idle, HasCallFields, Fields
  <2>2. calls' = End(s) \/ (Valid(r0) /\ Goes(c))
    BY <1>13 DEF Start
  <2>3. Loaded /\ calls[s].at = "start"
    BY <1>13 DEF IInv, LoginInv, NeedsNoLogin, Start, At
  <2>4. CASE Valid(r0) /\ Goes(c)
    <3>1. ProviderOf(r0) \in DOMAIN Login
      BY <2>4 DEF Valid, ModelOf
    <3>2. c.pid = "chatgpt" /\ ~lost =>
            /\ c.cfg \in 1..issued
            /\ \A r \in Slots \ {s} : Brings(r) => calls[r].cfg # c.cfg
      BY <2>1, <2>3, <3>1 DEF IInv, TokenInv, Configured
    <3> HIDE DEF c, r0
    <3> QED BY <1>2, <1>3, <2>1, <2>3, <2>4, <3>2, QuietMove DEF NeedsNoLogin, AuthLocked
  <2> QED BY <1>2, <1>3, <2>2, <2>4, QuietEnd
<1>14. CASE AskTitle(s)
  <2> DEFINE c == [Idle EXCEPT !.op = "title", !.at = "auth", !.pid = calls[s].pid,
                               !.cfg = calls[s].cfg, !.word = TitleModel(s)]
  <2>1. HasCallFields(c) /\ c.at = "auth" /\ c.op = "title" /\ c.pid = calls[s].pid /\ c.cfg = calls[s].cfg /\ ~c.dup
    BY DEF Idle, HasCallFields, Fields
  <2>2. calls' = [calls EXCEPT ![s] = c] /\ calls[s].at = "call"
    BY <1>14 DEF AskTitle, At
  <2>3. Loaded
    BY <2>2 DEF IInv, LoginInv, NeedsNoLogin
  <2>4. calls[s].pid = "chatgpt" /\ ~lost =>
          /\ calls[s].cfg \in 1..issued
          /\ \A r \in Slots \ {s} : Brings(r) => calls[r].cfg # calls[s].cfg
    BY <2>2 DEF IInv, TokenInv, RunSteps, Uses
  <2> HIDE DEF c
  <2> QED BY <1>2, <1>3, <2>1, <2>2, <2>3, <2>4, QuietMove DEF NeedsNoLogin, AuthLocked
<1> QED BY <1>5, <1>7, <1>8, <1>10, <1>11, <1>12, <1>13, <1>14

-----------------------------------------------------------------------------
(* The steps of a login, of its rows and of its tokens. *)

LEMMA SameLogins ==
  ASSUME UNCHANGED <<foreign, logins>>
  PROVE  /\ Preferred' = Preferred /\ (Loaded' <=> Loaded) /\ (Duplicate' <=> Duplicate)
         /\ Login' = Login /\ (Configured' <=> Configured) /\ Listing' = Listing
         /\ foreign' = foreign /\ logins' = logins
BY DEF Preferred, Loaded, Duplicate, Login, Configured, Listing

\* One call goes on as c: what is known of its fields.
LEMMA Becomes ==
  ASSUME IInv, NEW s \in Slots, NEW c, HasCallFields(c),
         calls' = [calls EXCEPT ![s] = c] \/ calls' = ListingsRaced([calls EXCEPT ![s] = c])
  PROVE  /\ CallsTyped' /\ Others(s)
         /\ calls'[s].op = c.op /\ calls'[s].at = c.at /\ calls'[s].pid = c.pid /\ calls'[s].cfg = c.cfg
         /\ calls'[s].use = c.use /\ calls'[s].dup = c.dup /\ calls'[s].snap = c.snap
BY OneCall DEF IInv, TypeInv, SameCall

\* The device's code is exchanged for a new token, or a token for the next one.
LEMMA NewTokens ==
  ASSUME IInv, NEW s \in Slots, Exchange(s) \/ Refresh(s)
  PROVE  IInv'
<1>1. HasCallFields(calls[s]) /\ DOMAIN calls = Slots
  BY DEF IInv, TypeInv, CallsTyped
<1>2. UNCHANGED <<foreign, logins, rows, contacts, wanted, torn, lost, replayed>>
  BY DEF Exchange, Refresh
<1>3. /\ CallsTyped' /\ Others(s)
      /\ calls'[s].op = calls[s].op /\ calls'[s].pid = calls[s].pid
      /\ calls'[s].dup = calls[s].dup /\ calls'[s].snap = calls[s].snap
  <2>1. CASE Exchange(s)
    <3> DEFINE c == [calls[s] EXCEPT !.at = "look", !.cfg = issued + 1]
    <3>1. /\ HasCallFields(c) /\ c.op = calls[s].op /\ c.pid = calls[s].pid
          /\ c.dup = calls[s].dup /\ c.snap = calls[s].snap
      BY <1>1 DEF HasCallFields, Fields
    <3>2. calls' = [calls EXCEPT ![s] = c]
      BY <1>1, <2>1 DEF Exchange
    <3> HIDE DEF c
    <3> QED BY <3>1, <3>2, Becomes
  <2>2. CASE Refresh(s)
    <3> DEFINE c == [calls[s] EXCEPT !.at = "answer", !.use = issued + 1]
    <3>1. /\ HasCallFields(c) /\ c.op = calls[s].op /\ c.pid = calls[s].pid
          /\ c.dup = calls[s].dup /\ c.snap = calls[s].snap
      BY <1>1 DEF HasCallFields, Fields
    <3>2. calls' = [calls EXCEPT ![s] = c]
      BY <1>1, <2>2 DEF Refresh
    <3> HIDE DEF c
    <3> QED BY <3>1, <3>2, Becomes
  <2> QED BY <2>1, <2>2
<1>4. Exchange(s) => calls[s].at = "exchange" /\ calls'[s].at = "look" /\ calls'[s].cfg = issued + 1
  BY <1>1 DEF Exchange, At, HasCallFields, Fields
<1>5. Refresh(s) => /\ calls[s].at = "server" /\ calls[s].use \in live
                    /\ calls'[s].at = "answer" /\ calls'[s].use = issued + 1 /\ calls'[s].cfg = calls[s].cfg
  BY <1>1 DEF Refresh, At, HasCallFields, Fields
<1> USE <1>2, SameLogins
<1>6. TypeInv'
  BY <1>3 DEF IInv, TypeInv
<1>7. LoginInv'
  BY <1>3, <1>4, <1>5 DEF IInv, LoginInv, Others, SameCall, NeedsNoLogin
<1>8. LockInv'
  BY <1>3, <1>4, <1>5 DEF IInv, LockInv, Others, SameCall, AuthLocked
<1>9. ASSUME ~lost  PROVE TokenInv'
  <2>1. issued' = issued + 1
    BY DEF Exchange, Refresh
  <2>2. /\ issued \in Nat /\ issued' \in Nat /\ live' \subseteq 1..issued' /\ issued' \in live'
        /\ \A t \in 1..issued : t \in 1..issued' /\ t # issued'
        /\ \A t \in live : Exchange(s) \/ t # calls[s].use => t \in live'
    BY <1>9 DEF Exchange, Refresh, IInv, TokenInv
  <2>3. Refresh(s) => Loaded /\ \A r \in Slots \ {s} : calls[r].at \notin AuthLocked
    BY <1>5 DEF IInv, LoginInv, LockInv, AuthLocked, NeedsNoLogin
  <2>4. \A r \in Slots \ {s} : Brings(r)' => Brings(r) /\ calls'[r].cfg = calls[r].cfg
    BY <1>3 DEF Brings, Others, SameCall
  <2>5. Brings(s)' => Exchange(s) /\ calls'[s].cfg = issued'
    BY <1>4, <1>5, <2>1 DEF Brings
  <2>6. ASSUME NEW r \in Slots, NEW t, Uses(r, t)'  PROVE Uses(r, t) \/ t = issued'
    <3>1. CASE r = s
      BY <1>3, <1>4, <1>5, <2>1, <2>6, <3>1 DEF Uses, RunSteps, AuthLocked
    <3>2. CASE r # s
      BY <1>3, <2>6, <3>2 DEF Uses, Others, SameCall
    <3> QED BY <3>1, <3>2
  <2>7. ASSUME NEW r \in Slots, NEW t, Uses(r, t)', t = issued', Exchange(s)  PROVE FALSE
    <3>1. ~Uses(r, t)
      BY <1>9, <2>2, <2>7 DEF Uses, IInv, TokenInv, AuthLocked, RunSteps
    <3>2. r # s
      BY <1>4, <2>7 DEF Uses, RunSteps, AuthLocked
    <3> QED BY <1>3, <2>7, <3>1, <3>2 DEF Uses, Others, SameCall
  <2>8. ASSUME NEW q \in Slots, Brings(q)
        PROVE  calls[q].cfg \in live /\ calls[q].cfg # issued' /\ (Refresh(s) => calls[q].cfg # calls[s].use)
    <3>1. calls[q].cfg \in live /\ ~Uses(s, calls[q].cfg)
      BY <1>9, <2>8 DEF IInv, TokenInv
    <3>2. calls[q].cfg # issued'
      BY <1>9, <2>1, <3>1 DEF IInv, TokenInv
    <3> QED BY <1>5, <3>1, <3>2 DEF Uses
  <2>9. ASSUME NEW r \in Slots, Brings(r)'
        PROVE  /\ calls'[r].cfg \in live'
               /\ Configured' => calls'[r].cfg # Login'["chatgpt"]
               /\ ~Loaded' => calls'[r].cfg # 1
               /\ \A q \in Slots : /\ ~Uses(q, calls[r].cfg)'
                                   /\ q # r /\ Brings(q)' => calls'[q].cfg # calls'[r].cfg
    <3>1. CASE r = s
      <4>1. Exchange(s) /\ calls'[r].cfg = issued'
        BY <2>5, <2>9, <3>1
      <4>2. \A q \in Slots : ~Uses(q, calls[r].cfg)'
        BY <2>7, <4>1
      <4>3. (Configured' => issued' # Login'["chatgpt"]) /\ (~Loaded' => issued' # 1)
        BY <1>9, <2>2 DEF IInv, TokenInv
      <4>4. ASSUME NEW q \in Slots, q # r, Brings(q)'  PROVE calls'[q].cfg # calls'[r].cfg
        <5>1. Brings(q) /\ calls'[q].cfg = calls[q].cfg
          BY <2>4, <3>1, <4>4
        <5>2. calls[q].cfg # issued'
          BY <2>8, <3>1, <4>4, <5>1
        <5> QED BY <4>1, <5>1, <5>2
      <4>5. calls'[r].cfg \in live'
        BY <2>2, <4>1
      <4> QED BY <4>1, <4>2, <4>3, <4>4, <4>5
    <3>2. CASE r # s
      BY <2>2, <2>4, <2>5, <2>6, <2>8, <2>9, <3>2, <1>9 DEF IInv, TokenInv
    <3> QED BY <3>1, <3>2
  <2>10. \A r \in Slots :
           /\ calls'[r].at \in {"lock"} \union AuthLocked => calls'[r].pid = "chatgpt"
           /\ calls'[r].at \in RunSteps /\ calls'[r].pid = "chatgpt" => calls'[r].cfg \in 1..issued'
           /\ calls'[r].at \in {"server", "answer"} => calls'[r].use \in 1..issued'
           /\ calls'[r].at = "answer" => calls'[r].use \in live'
    BY <1>3, <1>4, <1>5, <1>9, <2>1, <2>2, <2>3 DEF IInv, TokenInv, Others, SameCall, AuthLocked, RunSteps
  <2> QED BY <1>3, <1>4, <1>5, <1>9, <2>2, <2>3, <2>9, <2>10 DEF IInv, TokenInv, Others, SameCall
<1>10. SaveInv'
  BY <1>3, <1>4, <1>5 DEF IInv, SaveInv, Others, SameCall, Writes, Saving
<1>11. KeepInv'
  BY <1>3, <1>4, <1>5 DEF IInv, KeepInv, Others, SameCall, Saving
<1>12. ListInv'
  BY <1>3, <1>4, <1>5 DEF IInv, ListInv, LoginInv, ListIsCurrent, Others, SameCall
<1> QED BY <1>6, <1>7, <1>8, <1>9, <1>10, <1>11, <1>12 DEF IInv, TokenInv

\* A lost answer, and a run that takes the lock of the tokens.
LEMMA AnswerLostStep ==
  ASSUME IInv, NEW s \in Slots, AnswerLost(s)
  PROVE  IInv'
<1>1. /\ CallsTyped' /\ Others(s) /\ calls'[s].at = "idle" /\ calls'[s].op = "idle" /\ calls'[s].dup = FALSE
  <2>1. CallsTyped' /\ Others(s) /\ calls'[s] = Idle
    BY EndStep DEF AnswerLost, IInv, TypeInv
  <2> QED BY <2>1, IdleFields
<1>2. calls[s].at = "answer" /\ lost' = TRUE
  BY DEF AnswerLost, At
<1>3. UNCHANGED <<foreign, logins, rows, issued, live, contacts, wanted, torn, replayed>>
  BY DEF AnswerLost
<1> USE <1>3, SameLogins
<1>4. TypeInv'
  BY <1>1, <1>2 DEF IInv, TypeInv
<1>5. LoginInv'
  BY <1>1 DEF IInv, LoginInv, Others, SameCall, NeedsNoLogin
<1>6. LockInv'
  BY <1>1 DEF IInv, LockInv, Others, SameCall, AuthLocked
<1>7. TokenInv'
  BY <1>2 DEF TokenInv
<1>8. SaveInv'
  BY <1>1, <1>2 DEF IInv, SaveInv, Others, SameCall, Writes, Saving
<1>9. KeepInv'
  BY <1>1 DEF IInv, KeepInv, Others, SameCall, Saving
<1>10. ListInv'
  BY <1>1 DEF IInv, ListInv, ListIsCurrent, Others, SameCall
<1> QED BY <1>4, <1>5, <1>6, <1>7, <1>8, <1>9, <1>10 DEF IInv

LEMMA LockStep ==
  ASSUME IInv, NEW s \in Slots, Lock(s)
  PROVE  IInv'
<1> DEFINE saved == IF Configured THEN Login["chatgpt"] ELSE calls[s].cfg
<1>1. HasCallFields(calls[s]) /\ DOMAIN calls = Slots
  BY DEF IInv, TypeInv, CallsTyped
<1>2. UNCHANGED <<foreign, logins, rows, issued, live, contacts, wanted, torn, lost>>
  BY DEF Lock
<1>3. calls[s].at = "lock" /\ \A r \in Slots : calls[r].at \notin AuthLocked
  BY DEF Lock, At, AuthLocked
<1>4. Loaded
  BY <1>3 DEF IInv, LoginInv, NeedsNoLogin
<1>5. CASE calls' = Goto(s, "call") /\ UNCHANGED replayed
  <2> DEFINE c == [calls[s] EXCEPT !.at = "call"]
  <2>1. /\ HasCallFields(c) /\ c.at = "call" /\ c.op = calls[s].op /\ c.pid = calls[s].pid
        /\ c.cfg = calls[s].cfg /\ c.dup = calls[s].dup
    BY <1>1 DEF HasCallFields, Fields
  <2>2. calls' = [calls EXCEPT ![s] = c]
    BY <1>1, <1>5 DEF Goto
  <2>3. (c.dup => ~foreign) /\ c.op # "contacts"
    BY <1>3, <2>1 DEF IInv, LoginInv
  <2>4. calls[s].pid = "chatgpt" /\ ~lost =>
          /\ calls[s].cfg \in 1..issued
          /\ \A r \in Slots \ {s} : Brings(r) => calls[r].cfg # calls[s].cfg
    BY <1>3 DEF IInv, TokenInv, RunSteps, Uses
  <2>5. UNCHANGED Globals
    BY <1>2, <1>5 DEF Globals
  <2> HIDE DEF c
  <2> QED BY <1>3, <1>4, <2>1, <2>2, <2>3, <2>4, <2>5, QuietMove DEF NeedsNoLogin, AuthLocked
<1>6. CASE Sends(s, saved)
  <2> DEFINE c == [calls[s] EXCEPT !.at = "server", !.use = saved]
  <2>1. /\ HasCallFields(c) /\ c.at = "server" /\ c.op = calls[s].op /\ c.pid = calls[s].pid
        /\ c.cfg = calls[s].cfg /\ c.dup = calls[s].dup /\ c.use = saved
    BY <1>1 DEF HasCallFields, Fields
  <2>2. calls' = [calls EXCEPT ![s] = c]
    BY <1>1, <1>6 DEF Sends
  <2>3. /\ CallsTyped' /\ Others(s) /\ calls'[s].at = "server" /\ calls'[s].op = calls[s].op
        /\ calls'[s].pid = calls[s].pid /\ calls'[s].cfg = calls[s].cfg /\ calls'[s].dup = calls[s].dup
        /\ calls'[s].use = saved
    <3> HIDE DEF c
    <3> QED BY <2>1, <2>2, Becomes
  <2>4. replayed' = (replayed \/ (Configured /\ saved \notin live))
    BY <1>6 DEF Sends
  <2>5. Configured => saved = Login["chatgpt"]
    OBVIOUS
  <2>6. ~lost => saved \in 1..issued
    BY <1>3 DEF IInv, TokenInv, RunSteps
  <2>7. ~lost => \A r \in Slots \ {s} : Brings(r) => calls[r].cfg # saved
    BY <1>3 DEF IInv, TokenInv, Uses, RunSteps
  <2> HIDE DEF saved
  <2> USE <1>2, SameLogins
  <2>8. TypeInv'
    BY <2>3, <2>4 DEF IInv, TypeInv
  <2>9. LoginInv'
    BY <1>3, <1>4, <2>3 DEF IInv, LoginInv, Others, SameCall, NeedsNoLogin
  <2>10. LockInv'
    BY <1>3, <2>3 DEF IInv, LockInv, Others, SameCall, AuthLocked
  <2>11. ASSUME ~lost  PROVE TokenInv'
    <3>1. ~replayed' /\ (Configured => Login["chatgpt"] \in live)
      BY <1>3, <2>4, <2>5, <2>11 DEF IInv, TokenInv, AuthLocked
    <3>2. \A r \in Slots : Brings(r)' => r # s /\ Brings(r) /\ calls'[r].cfg = calls[r].cfg
      BY <2>3 DEF Brings, Others, SameCall
    <3>3. \A r \in Slots : \A t : Uses(r, t)' => Uses(r, t) \/ (r = s /\ t = saved)
      BY <1>3, <2>3 DEF Uses, Others, SameCall, RunSteps, AuthLocked
    <3>4. \A r \in Slots : calls'[r].at # "answer"
      BY <1>3, <2>3 DEF Others, SameCall, AuthLocked
    <3>5. ASSUME NEW r \in Slots, Brings(r)'
          PROVE  \A q \in Slots : ~Uses(q, calls[r].cfg)' /\ (q # r /\ Brings(q)' => calls'[q].cfg # calls'[r].cfg)
      BY <2>7, <2>11, <3>2, <3>3, <3>5 DEF IInv, TokenInv
    <3>6. \A r \in Slots :
            /\ calls'[r].at \in {"lock"} \union AuthLocked => calls'[r].pid = "chatgpt"
            /\ calls'[r].at \in RunSteps /\ calls'[r].pid = "chatgpt" => calls'[r].cfg \in 1..issued
            /\ calls'[r].at \in {"server", "answer"} => calls'[r].use \in 1..issued
      BY <1>3, <2>3, <2>6, <2>11 DEF IInv, TokenInv, Others, SameCall, RunSteps, AuthLocked
    <3>7. \A r \in Slots : Brings(r)' => /\ calls'[r].cfg \in live
                                         /\ Configured => calls'[r].cfg # Login["chatgpt"]
      BY <2>11, <3>2 DEF IInv, TokenInv
    <3> QED BY <1>4, <2>11, <3>1, <3>4, <3>5, <3>6, <3>7 DEF IInv, TokenInv
  <2>12. SaveInv'
    BY <1>3, <2>3 DEF IInv, SaveInv, Others, SameCall, Writes, Saving
  <2>13. KeepInv'
    BY <1>3, <2>3 DEF IInv, KeepInv, Others, SameCall, Saving
  <2>14. ListInv'
    BY <1>3, <2>3 DEF IInv, ListInv, LoginInv, ListIsCurrent, Others, SameCall
  <2> QED BY <2>8, <2>9, <2>10, <2>11, <2>12, <2>13, <2>14 DEF IInv, TokenInv
<1> QED BY <1>5, <1>6 DEF Lock

\* A login is made with what the older one holds, or is there already.
LEMMA CreateStep ==
  ASSUME IInv, NEW s \in Slots, Create(s)
  PROVE  IInv'
<1> DEFINE c == [calls[s] EXCEPT !.at = "drop", !.snap = Nothing]
<1>1. HasCallFields(calls[s]) /\ DOMAIN calls = Slots
  BY DEF IInv, TypeInv, CallsTyped
<1>2. /\ HasCallFields(c) /\ c.at = "drop" /\ c.op = calls[s].op /\ c.pid = calls[s].pid
      /\ c.cfg = calls[s].cfg /\ c.dup = calls[s].dup
  BY <1>1 DEF HasCallFields, Fields
<1>3. calls' = [calls EXCEPT ![s] = c]
  BY <1>1 DEF Create
<1> HIDE DEF c
<1>4. calls[s].at = "create" /\ calls[s].snap = Old /\ ~foreign /\ calls[s].op # "contacts"
  BY DEF Create, At, IInv, LoginInv
<1>5. CASE Loaded
  <2>1. UNCHANGED Globals
    BY <1>5 DEF Create, Globals
  <2> QED BY <1>2, <1>3, <1>4, <1>5, <2>1, QuietMove DEF NeedsNoLogin, AuthLocked, Brings
<1>6. CASE ~Loaded
  <2>1. /\ CallsTyped' /\ Others(s) /\ calls'[s].at = "drop" /\ calls'[s].op = calls[s].op
        /\ calls'[s].pid = calls[s].pid /\ calls'[s].cfg = calls[s].cfg /\ calls'[s].dup = calls[s].dup
    BY <1>2, <1>3, Becomes
  <2>2. /\ logins' = [l \in DOMAIN logins \union {"main"} |-> IF l = "main" THEN Old ELSE logins[l]]
        /\ rows' = [l \in DOMAIN rows \union {"main"} |-> IF l = "main" THEN Old ELSE rows[l]]
    BY <1>4, <1>6 DEF Create
  <2>3. UNCHANGED <<foreign, issued, live, contacts, wanted, torn, lost, replayed>>
    BY DEF Create
  <2>4. DOMAIN logins = {"own"} /\ DOMAIN rows = {"own"} /\ logins["own"] = Old /\ rows["own"] = Old
    BY <1>4, <1>6 DEF IInv, LoginInv, SaveInv, TypeInv, Loaded, Preferred
  <2>5. /\ DOMAIN logins' = {"main", "own"} /\ DOMAIN rows' = {"main", "own"}
        /\ \A l \in {"main", "own"} : logins'[l] = Old /\ rows'[l] = Old
    BY <2>2, <2>4
  <2>6. Preferred = "main" /\ Preferred' = "main" /\ Loaded' /\ Duplicate' /\ Login' = Old
    BY <1>4, <2>3, <2>5 DEF Preferred, Loaded, Duplicate, Login
  <2>7. \A r \in Slots : calls[r].at \in NeedsNoLogin /\ ~Saving(r)
    BY <1>6 DEF IInv, LoginInv, NeedsNoLogin, Saving
  <2>8. DOMAIN Old = {"beeper", "chatgpt", "custom"} /\ Old["chatgpt"] = 1
    BY DEF Old
  <2>9. TypeInv'
    BY <2>1, <2>2, <2>3, <2>4 DEF IInv, TypeInv
  <2>10. LoginInv'
    BY <1>4, <1>6, <2>1, <2>3, <2>5, <2>6, <2>7 DEF IInv, LoginInv, Others, SameCall, NeedsNoLogin
  <2>11. LockInv'
    BY <2>1 DEF IInv, LockInv, Others, SameCall, AuthLocked
  <2>12. ASSUME ~lost  PROVE TokenInv'
    <3>1. Configured' /\ Login'["chatgpt"] = 1 /\ 1 \in live /\ 1 \in 1..issued
      BY <1>6, <2>6, <2>8, <2>12 DEF Configured, IInv, TokenInv
    <3>2. \A r \in Slots : Brings(r)' => Brings(r) /\ calls'[r].cfg = calls[r].cfg
      BY <1>4, <2>1 DEF Brings, Others, SameCall
    <3>3. \A r \in Slots : \A t : Uses(r, t)' => Uses(r, t)
      BY <1>4, <2>1 DEF Uses, Others, SameCall, RunSteps, AuthLocked
    <3>4. ASSUME NEW r \in Slots, Brings(r)'
          PROVE  /\ calls'[r].cfg \in live /\ calls'[r].cfg # 1
                 /\ \A q \in Slots : ~Uses(q, calls[r].cfg)' /\ (q # r /\ Brings(q)' => calls'[q].cfg # calls'[r].cfg)
      BY <1>6, <2>12, <3>2, <3>3, <3>4 DEF IInv, TokenInv
    <3>5. \A r \in Slots :
            /\ calls'[r].at \in {"lock"} \union AuthLocked => calls'[r].pid = "chatgpt"
            /\ calls'[r].at \in RunSteps /\ calls'[r].pid = "chatgpt" => calls'[r].cfg \in 1..issued
            /\ calls'[r].at \in {"server", "answer"} => calls'[r].use \in 1..issued
            /\ calls'[r].at = "answer" => calls'[r].use \in live
      BY <2>1, <2>12 DEF IInv, TokenInv, Others, SameCall, RunSteps, AuthLocked
    <3> QED BY <2>3, <2>6, <2>12, <3>1, <3>4, <3>5 DEF IInv, TokenInv
  <2>13. SaveInv'
    BY <2>1, <2>5, <2>6, <2>7 DEF SaveInv, Others, SameCall, Writes, Saving
  <2>14. KeepInv'
    BY <1>6, <2>1, <2>3, <2>5, <2>6, <2>7 DEF IInv, KeepInv, Others, SameCall, Saving, NeedsNoLogin
  <2>15. ListInv'
    BY <1>4, <1>6, <2>1, <2>3, <2>7 DEF IInv, ListInv, LoginInv, ListIsCurrent, Others, SameCall, NeedsNoLogin
  <2> QED BY <2>3, <2>9, <2>10, <2>11, <2>12, <2>13, <2>14, <2>15 DEF IInv, TokenInv
<1> QED BY <1>5, <1>6

\* Where a call goes that has its login.
LEMMA EnsuredStep ==
  ASSUME IInv, NEW s \in Slots, calls' = Ensured(s), ~At(s, "list")
  PROVE  /\ CallsTyped' /\ Others(s) /\ calls'[s].at \in {"idle", "change"} /\ ~calls'[s].dup
         /\ calls'[s].op # "contacts"
         /\ calls'[s].at = "change" => /\ calls'[s].op = calls[s].op /\ calls'[s].pid = calls[s].pid
                                       /\ calls'[s].cfg = calls[s].cfg
<1>1. CASE calls[s].op = "list"
  <2>1. CallsTyped' /\ Others(s) /\ calls'[s] = Idle
    BY <1>1, EndStep DEF Ensured, IInv, TypeInv
  <2> QED BY <2>1, IdleFields
<1>2. CASE calls[s].op # "list"
  <2> DEFINE c == [calls[s] EXCEPT !.at = "change", !.dup = FALSE, !.snap = Nothing]
  <2>1. HasCallFields(calls[s]) /\ DOMAIN calls = Slots
    BY DEF IInv, TypeInv, CallsTyped
  <2>2. /\ HasCallFields(c) /\ c.at = "change" /\ c.op = calls[s].op /\ c.pid = calls[s].pid
        /\ c.cfg = calls[s].cfg /\ c.dup = FALSE
    BY <2>1 DEF HasCallFields, Fields
  <2>3. calls' = [calls EXCEPT ![s] = c]
    BY <1>2, <2>1 DEF Ensured
  <2>4. calls[s].op # "contacts"
    BY DEF IInv, LoginInv, At
  <2> HIDE DEF c
  <2> QED BY <2>2, <2>3, <2>4, Becomes
<1> QED BY <1>1, <1>2

\* The login that was replaced is deleted.
LEMMA DropStep ==
  ASSUME IInv, NEW s \in Slots, Drop(s)
  PROVE  IInv'
<1>1. calls[s].at = "drop" /\ ~foreign /\ Loaded /\ calls[s].op # "contacts"
  BY DEF Drop, At, IInv, LoginInv, NeedsNoLogin
<1>2. /\ CallsTyped' /\ Others(s) /\ calls'[s].at \in {"idle", "change"} /\ ~calls'[s].dup
      /\ calls'[s].op # "contacts"
      /\ calls'[s].at = "change" => /\ calls'[s].op = calls[s].op /\ calls'[s].pid = calls[s].pid
                                    /\ calls'[s].cfg = calls[s].cfg
  BY <1>1, EnsuredStep DEF Drop, At
<1>3. /\ logins' = [l \in DOMAIN logins \ {"own"} |-> logins[l]]
      /\ rows' = [l \in DOMAIN rows \ {"own"} |-> rows[l]]
  BY DEF Drop
<1>4. UNCHANGED <<foreign, issued, live, contacts, wanted, torn, lost, replayed>>
  BY DEF Drop
<1>5. /\ Preferred = "main" /\ "main" \in DOMAIN logins /\ "main" \in DOMAIN rows
      /\ DOMAIN logins' = {"main"} /\ DOMAIN rows' = {"main"}
      /\ logins'["main"] = logins["main"] /\ rows'["main"] = rows["main"]
  BY <1>1, <1>3 DEF Loaded, Preferred, IInv, LoginInv, TypeInv
<1>6. /\ Preferred' = Preferred /\ Loaded' /\ ~Duplicate' /\ Login' = Login /\ Listing' = Listing
      /\ (Configured' <=> Configured) /\ rows'[Preferred] = rows[Preferred]
  BY <1>1, <1>4, <1>5 DEF Loaded, Preferred, Duplicate, Login, Listing, Configured
<1>7. TypeInv'
  BY <1>2, <1>3, <1>4 DEF IInv, TypeInv
<1>8. LoginInv'
  BY <1>1, <1>2, <1>4, <1>5, <1>6 DEF IInv, LoginInv, Others, SameCall, NeedsNoLogin
<1>9. LockInv'
  BY <1>2 DEF IInv, LockInv, Others, SameCall, AuthLocked
<1>10. ASSUME ~lost  PROVE TokenInv'
  <2>1. \A r \in Slots : Brings(r)' => Brings(r) /\ calls'[r].cfg = calls[r].cfg
    BY <1>1, <1>2 DEF Brings, Others, SameCall
  <2>2. \A r \in Slots : \A t : Uses(r, t)' => Uses(r, t)
    BY <1>2 DEF Uses, Others, SameCall, RunSteps, AuthLocked
  <2>3. ASSUME NEW r \in Slots, Brings(r)'
        PROVE  /\ calls'[r].cfg \in live /\ (Configured => calls'[r].cfg # Login["chatgpt"])
               /\ \A q \in Slots : ~Uses(q, calls[r].cfg)' /\ (q # r /\ Brings(q)' => calls'[q].cfg # calls'[r].cfg)
    BY <1>10, <2>1, <2>2, <2>3 DEF IInv, TokenInv
  <2>4. \A r \in Slots :
          /\ calls'[r].at \in {"lock"} \union AuthLocked => calls'[r].pid = "chatgpt"
          /\ calls'[r].at \in RunSteps /\ calls'[r].pid = "chatgpt" => calls'[r].cfg \in 1..issued
          /\ calls'[r].at \in {"server", "answer"} => calls'[r].use \in 1..issued
          /\ calls'[r].at = "answer" => calls'[r].use \in live
    BY <1>2, <1>10 DEF IInv, TokenInv, Others, SameCall, RunSteps, AuthLocked
  <2>5. (\A r \in Slots : calls'[r].at # "answer") => (\A r \in Slots : calls[r].at # "answer")
    BY <1>1, <1>2 DEF Others, SameCall
  <2> QED BY <1>4, <1>6, <1>10, <2>3, <2>4, <2>5 DEF IInv, TokenInv
<1>11. SaveInv'
  BY <1>1, <1>2, <1>4, <1>5, <1>6 DEF IInv, SaveInv, Others, SameCall, Writes, Saving
<1>12. KeepInv'
  BY <1>1, <1>2, <1>4, <1>5, <1>6 DEF IInv, KeepInv, Others, SameCall
<1>13. ListInv'
  BY <1>1, <1>2, <1>4, <1>6 DEF IInv, ListInv, ListIsCurrent, Others, SameCall
<1> QED BY <1>4, <1>7, <1>8, <1>9, <1>10, <1>11, <1>12, <1>13 DEF IInv, TokenInv

\* A Save ends, with the row or without: if it is known to be good no other is in flight.
LEMMA RowIsLogin ==
  ASSUME IInv, NEW s \in Slots, Saving(s), Row(s) \/ NoRow(s)
  PROVE  /\ Loaded
         /\ rows' = [l \in DOMAIN logins |-> rows'[l]]
         /\ torn' \in BOOLEAN
         /\ \A l \in DOMAIN logins \ {Preferred} : rows'[l] = logins[l]
         /\ ~torn' => rows'[Preferred] = Login /\ \A r \in Slots \ {s} : ~Saving(r)
         /\ Duplicate => DOMAIN rows'[Preferred] = DOMAIN Old
<1>1. Loaded /\ Preferred \in DOMAIN rows /\ DOMAIN rows = DOMAIN logins
  BY DEF IInv, LoginInv, TypeInv, Saving, NeedsNoLogin, Loaded
<1>2. CASE Row(s)
  <2>1. /\ rows' = [rows EXCEPT ![Preferred] = calls[s].snap] /\ rows'[Preferred] = calls[s].snap
        /\ torn' = IF Overlaps(s) THEN TRUE ELSE torn /\ calls[s].snap # Login
    BY <1>1, <1>2 DEF Row
  <2>2. ~Overlaps(s) => \A r \in Slots \ {s} : ~Saving(r)
    BY DEF Overlaps, Saving, At, IInv, LockInv, AuthLocked
  <2>3. ~Overlaps(s) /\ ~torn => calls[s].snap = Login
    BY <1>1, <2>2 DEF IInv, SaveInv, Writes, Saving
  <2>4. \A l \in DOMAIN logins \ {Preferred} : rows'[l] = logins[l]
    BY <1>1, <2>1 DEF IInv, SaveInv
  <2>5. Duplicate => DOMAIN rows'[Preferred] = DOMAIN Old
    BY <2>1 DEF IInv, KeepInv
  <2>6. torn' \in BOOLEAN /\ (~torn' => ~Overlaps(s) /\ calls[s].snap = Login)
    BY <2>1, <2>3 DEF IInv, TypeInv
  <2> QED BY <1>1, <2>1, <2>2, <2>4, <2>5, <2>6
<1>3. CASE NoRow(s)
  <2>1. rows' = rows /\ torn' = (torn \/ Overlaps(s) \/ rows[Preferred] # Login)
    BY <1>3 DEF NoRow
  <2>2. ~Overlaps(s) => \A r \in Slots \ {s} : ~Saving(r)
    BY DEF Overlaps, Saving, At, IInv, LockInv, AuthLocked
  <2>3. rows = [l \in DOMAIN logins |-> rows[l]] /\ \A l \in DOMAIN logins \ {Preferred} : rows[l] = logins[l]
    BY DEF IInv, TypeInv, SaveInv
  <2>4. Duplicate => DOMAIN rows[Preferred] = DOMAIN Old
    BY <1>1 DEF IInv, KeepInv, Loaded
  <2> QED BY <1>1, <2>1, <2>2, <2>3, <2>4
<1> QED BY <1>2, <1>3

LEMMA SaveStep ==
  ASSUME IInv, NEW s \in Slots, SaveLogin(s) \/ Write(s) \/ WriteFails(s) \/ AuthWrite(s) \/ AuthWriteFails(s)
  PROVE  IInv'
<1>1. HasCallFields(calls[s]) /\ DOMAIN calls = Slots
  BY DEF IInv, TypeInv, CallsTyped
<1>2. Saving(s) /\ (Row(s) \/ NoRow(s))
  BY DEF Saving, SaveLogin, Write, WriteFails, AuthWrite, AuthWriteFails, At
<1>3. /\ Loaded
      /\ rows' = [l \in DOMAIN logins |-> rows'[l]] /\ torn' \in BOOLEAN
      /\ \A l \in DOMAIN logins \ {Preferred} : rows'[l] = logins[l]
      /\ ~torn' => rows'[Preferred] = Login /\ \A r \in Slots \ {s} : ~Saving(r)
      /\ Duplicate => DOMAIN rows'[Preferred] = DOMAIN Old
  BY <1>2, RowIsLogin
<1>4. UNCHANGED <<foreign, logins, issued, live, contacts, lost, replayed>>
  BY DEF SaveLogin, Write, WriteFails, AuthWrite, AuthWriteFails
<1>5. wanted' = wanted \/ (At(s, "write") /\ calls[s].op # "delete" /\ wanted' = wanted \union {calls[s].pid})
  BY DEF SaveLogin, Write, WriteFails, AuthWrite, AuthWriteFails
<1>6. calls[s].op # "contacts" /\ (calls[s].dup => ~foreign)
  BY <1>2 DEF IInv, LoginInv, Saving
<1>7. /\ CallsTyped' /\ Others(s)
      /\ calls'[s].at \in {"idle", "change", "drop", "call"} /\ calls'[s].op # "contacts"
      /\ calls'[s].at = "drop" \/ calls'[s].dup => ~foreign
      /\ calls'[s].at = "change" => ~Duplicate
      /\ calls'[s].at \in {"change", "drop"} => /\ calls[s].at = "esave"
                                                /\ calls'[s].op = calls[s].op /\ calls'[s].pid = calls[s].pid
                                                /\ calls'[s].cfg = calls[s].cfg
      /\ calls'[s].at = "call" => /\ calls[s].at = "awrite" /\ calls'[s].pid = calls[s].pid
                                  /\ calls'[s].cfg = calls[s].cfg
  <2>1. CASE SaveLogin(s) /\ calls[s].dup
    <3> DEFINE c == [calls[s] EXCEPT !.at = "drop", !.snap = Nothing]
    <3>1. /\ HasCallFields(c) /\ c.at = "drop" /\ c.op = calls[s].op /\ c.pid = calls[s].pid
          /\ c.cfg = calls[s].cfg /\ c.dup = calls[s].dup
      BY <1>1 DEF HasCallFields, Fields
    <3>2. calls' = [calls EXCEPT ![s] = c] /\ calls[s].at = "esave"
      BY <1>1, <2>1 DEF SaveLogin, At
    <3>3. ~foreign /\ c.op # "contacts"
      BY <1>6, <2>1, <3>1
    <3> HIDE DEF c
    <3>4. /\ CallsTyped' /\ Others(s)
          /\ calls'[s].op = c.op /\ calls'[s].at = c.at /\ calls'[s].pid = c.pid /\ calls'[s].cfg = c.cfg
          /\ calls'[s].dup = c.dup
      BY <3>1, <3>2, Becomes
    <3> QED BY <3>1, <3>2, <3>3, <3>4
  <2>2. CASE SaveLogin(s) /\ ~calls[s].dup
    <3>1. calls[s].at = "esave" /\ ~Duplicate
      BY <2>2 DEF SaveLogin, At, IInv, LoginInv
    <3> QED BY <2>2, <3>1, EnsuredStep DEF SaveLogin, At
  <2>3. CASE Write(s) \/ WriteFails(s)
    <3>1. CallsTyped' /\ Others(s) /\ calls'[s] = Idle
      BY <2>3, EndStep DEF Write, WriteFails, IInv, TypeInv
    <3> QED BY <3>1, IdleFields
  <2>4. CASE AuthWrite(s) \/ AuthWriteFails(s)
    <3> DEFINE c == [calls[s] EXCEPT !.at = "call", !.snap = Nothing]
    <3>1. /\ HasCallFields(c) /\ c.at = "call" /\ c.op = calls[s].op /\ c.pid = calls[s].pid
          /\ c.cfg = calls[s].cfg /\ c.dup = calls[s].dup
      BY <1>1 DEF HasCallFields, Fields
    <3>2. calls' = [calls EXCEPT ![s] = c] /\ calls[s].at = "awrite"
      BY <1>1, <2>4 DEF AuthWrite, AuthWriteFails, At
    <3> HIDE DEF c
    <3> QED BY <1>6, <3>1, <3>2, Becomes
  <2> QED BY <2>1, <2>2, <2>3, <2>4
<1> USE <1>4, SameLogins
<1>8. TypeInv'
  BY <1>3, <1>7 DEF IInv, TypeInv
<1>9. LoginInv'
  BY <1>3, <1>7 DEF IInv, LoginInv, Others, SameCall, NeedsNoLogin
<1>10. LockInv'
  BY <1>7 DEF IInv, LockInv, Others, SameCall, AuthLocked
<1>11. ASSUME ~lost  PROVE TokenInv'
  <2>1. \A r \in Slots : Brings(r)' => Brings(r) /\ calls'[r].cfg = calls[r].cfg
    BY <1>7 DEF Brings, Others, SameCall
  <2>2. \A r \in Slots : \A t : Uses(r, t)' => Uses(r, t)
    BY <1>7 DEF Uses, Others, SameCall, RunSteps, AuthLocked
  <2>3. ASSUME NEW r \in Slots, Brings(r)'
        PROVE  /\ calls'[r].cfg \in live /\ (Configured => calls'[r].cfg # Login["chatgpt"])
               /\ \A q \in Slots : ~Uses(q, calls[r].cfg)' /\ (q # r /\ Brings(q)' => calls'[q].cfg # calls'[r].cfg)
    BY <1>11, <2>1, <2>2, <2>3 DEF IInv, TokenInv
  <2>4. \A r \in Slots :
          /\ calls'[r].at \in {"lock"} \union AuthLocked => calls'[r].pid = "chatgpt"
          /\ calls'[r].at \in RunSteps /\ calls'[r].pid = "chatgpt" => calls'[r].cfg \in 1..issued
          /\ calls'[r].at \in {"server", "answer"} => calls'[r].use \in 1..issued
          /\ calls'[r].at = "answer" => calls'[r].use \in live
    BY <1>7, <1>11 DEF IInv, TokenInv, Others, SameCall, RunSteps, AuthLocked
  <2>5. (\A r \in Slots : calls'[r].at # "answer") => (\A r \in Slots : calls[r].at # "answer")
    BY <1>2, <1>7 DEF Others, SameCall, Saving
  <2> QED BY <1>3, <1>11, <2>3, <2>4, <2>5 DEF IInv, TokenInv
<1>12. SaveInv'
  BY <1>3, <1>7 DEF SaveInv, Others, SameCall, Writes, Saving
<1>13. KeepInv'
  <2>1. wanted' \subseteq DOMAIN Login
    BY <1>3, <1>5 DEF IInv, KeepInv, At
  <2>2. \A r \in Slots \ {s} : /\ Saving(r)' => Saving(r) /\ calls'[r].snap = calls[r].snap
                               /\ calls'[r].at = "write" => calls[r].at = "write"
                               /\ calls'[r].op = calls[r].op /\ calls'[r].pid = calls[r].pid
    BY <1>7 DEF Others, SameCall, Saving
  <2>3. ~Saving(s)' /\ calls'[s].at # "write"
    BY <1>7 DEF Saving
  <2>4. Duplicate => wanted' = wanted \/ wanted' \subseteq DOMAIN Old
    BY <1>3, <2>1 DEF IInv, KeepInv, Loaded, Login
  <2>5. Duplicate => \A l \in DOMAIN logins : DOMAIN logins[l] = DOMAIN Old /\ DOMAIN rows'[l] = DOMAIN Old
    BY <1>3 DEF IInv, KeepInv
  <2> QED BY <1>3, <2>1, <2>2, <2>3, <2>4, <2>5 DEF IInv, KeepInv
<1>14. ListInv'
  BY <1>7 DEF IInv, ListInv, ListIsCurrent, Others, SameCall
<1> QED BY <1>8, <1>9, <1>10, <1>11, <1>12, <1>13, <1>14 DEF IInv, TokenInv

\* A change is made in memory.
LEMMA ChangeStep ==
  ASSUME IInv, NEW s \in Slots, Change(s)
  PROVE  IInv'
<1> DEFINE c == [calls[s] EXCEPT !.at = "write", !.snap = Changed(s)]
           Deletes == calls[s].op = "delete"
<1>1. HasCallFields(calls[s]) /\ DOMAIN calls = Slots
  BY DEF IInv, TypeInv, CallsTyped
<1>2. /\ HasCallFields(c) /\ c.at = "write" /\ c.op = calls[s].op /\ c.pid = calls[s].pid
      /\ c.cfg = calls[s].cfg /\ c.dup = calls[s].dup /\ c.use = calls[s].use /\ c.snap = Changed(s)
  BY <1>1 DEF HasCallFields, Fields
<1>3. /\ calls[s].at = "change" /\ ~Unknown(s) /\ \A r \in Slots : calls[r].at # "write"
      /\ logins' = [logins EXCEPT ![Preferred] = Changed(s)]
      /\ calls' = ListingsRaced([calls EXCEPT ![s] = c])
      /\ contacts' = NoList
      /\ wanted' = IF Deletes THEN wanted \ {calls[s].pid} ELSE wanted
  BY <1>1 DEF Change, ChangeOf, At
<1>4. UNCHANGED <<foreign, rows, issued, live, torn, lost, replayed>>
  BY DEF Change, ChangeOf
<1>5. /\ CallsTyped' /\ Others(s) /\ calls'[s].op = calls[s].op /\ calls'[s].at = "write"
      /\ calls'[s].pid = calls[s].pid /\ calls'[s].cfg = calls[s].cfg /\ calls'[s].use = calls[s].use
      /\ calls'[s].dup = calls[s].dup /\ calls'[s].snap = Changed(s)
  <2>1. calls' = ListingsRaced([calls EXCEPT ![s] = c])
    BY <1>3
  <2> HIDE DEF c
  <2>2. HasCallFields(c)
    BY <1>2
  <2>3. /\ CallsTyped' /\ Others(s) /\ calls'[s].op = c.op /\ calls'[s].at = c.at
        /\ calls'[s].pid = c.pid /\ calls'[s].cfg = c.cfg /\ calls'[s].use = c.use
        /\ calls'[s].dup = c.dup /\ calls'[s].snap = c.snap
    BY <2>1, <2>2, Becomes
  <2> QED BY <1>2, <2>3
<1>6. Loaded /\ ~Duplicate /\ calls[s].op # "contacts"
  BY <1>3 DEF IInv, LoginInv, NeedsNoLogin
<1>7. \A r \in Slots : calls'[r].op = "contacts" => calls'[r].raced
  <2> HIDE DEF c
  <2> QED BY <1>1, <1>2, <1>3, <1>6 DEF ListingsRaced, IInv, TypeInv, CallsTyped, HasCallFields, Fields
<1>8. /\ Preferred' = Preferred /\ Preferred \in DOMAIN logins /\ DOMAIN logins' = DOMAIN logins
      /\ Loaded' /\ ~Duplicate' /\ Login' = Changed(s)
      /\ \A l \in DOMAIN logins \ {Preferred} : logins'[l] = logins[l]
  BY <1>3, <1>4, <1>6 DEF Preferred, Loaded, Duplicate, Login
<1>9. DOMAIN Changed(s) = IF Deletes THEN DOMAIN Login \ {calls[s].pid} ELSE DOMAIN Login \union {calls[s].pid}
  BY DEF Changed, With, Without
<1>10. \A p \in DOMAIN Changed(s) :
         Changed(s)[p] = IF ~Deletes /\ p = calls[s].pid THEN calls[s].cfg ELSE Login[p]
  BY DEF Changed, With, Without
<1>a. calls[s].at = "change" /\ \A r \in Slots : calls[r].at # "write"
  BY <1>3
<1>b. contacts'.valid = FALSE
  BY <1>3 DEF NoList
<1> HIDE DEF c, Deletes
<1>11. TypeInv'
  BY <1>3, <1>4, <1>5, <1>8 DEF IInv, TypeInv, NoList
<1>12. LoginInv'
  BY <1>a, <1>b, <1>4, <1>5, <1>6, <1>8 DEF IInv, LoginInv, Others, SameCall, NeedsNoLogin
<1>13. LockInv'
  BY <1>a, <1>5 DEF IInv, LockInv, Others, SameCall, AuthLocked
<1>14. ASSUME ~lost  PROVE TokenInv'
  <2>1. \A r \in Slots : Brings(r)' => r # s /\ Brings(r) /\ calls'[r].cfg = calls[r].cfg
    BY <1>5 DEF Brings, Others, SameCall
  <2>2. \A r \in Slots : \A t : Uses(r, t)' => Uses(r, t)
    BY <1>5 DEF Uses, Others, SameCall, RunSteps, AuthLocked
  <2>3. Configured' => \/ Configured /\ Login'["chatgpt"] = Login["chatgpt"]
                       \/ Brings(s) /\ Login'["chatgpt"] = calls[s].cfg
    <3>1. Configured' => "chatgpt" \in DOMAIN Changed(s) /\ Login'["chatgpt"] = Changed(s)["chatgpt"]
      BY <1>8 DEF Configured
    <3>2. CASE ~Deletes /\ calls[s].pid = "chatgpt"
      <4>1. Brings(s)
        BY <1>a, <3>2 DEF Brings, Deletes
      <4> QED BY <1>10, <3>1, <3>2, <4>1
    <3>3. CASE Deletes \/ calls[s].pid # "chatgpt"
      <4>1. "chatgpt" \in DOMAIN Changed(s) => "chatgpt" \in DOMAIN Login
        BY <1>9, <3>3
      <4>2. "chatgpt" \in DOMAIN Changed(s) => Changed(s)["chatgpt"] = Login["chatgpt"]
        BY <1>10, <3>3
      <4>3. Configured' => "chatgpt" \in DOMAIN Login /\ Login'["chatgpt"] = Login["chatgpt"]
        BY <3>1, <4>1, <4>2
      <4>4. "chatgpt" \in DOMAIN Login => Configured
        BY <1>6 DEF Configured
      <4> QED BY <4>3, <4>4
    <3> QED BY <3>2, <3>3
  <2>4. ASSUME NEW r \in Slots, Brings(r)'
        PROVE  /\ calls'[r].cfg \in live /\ (Configured' => calls'[r].cfg # Login'["chatgpt"])
               /\ \A q \in Slots : ~Uses(q, calls[r].cfg)' /\ (q # r /\ Brings(q)' => calls'[q].cfg # calls'[r].cfg)
    BY <1>14, <2>1, <2>2, <2>3, <2>4 DEF IInv, TokenInv
  <2>5. \A r \in Slots :
          /\ calls'[r].at \in {"lock"} \union AuthLocked => calls'[r].pid = "chatgpt"
          /\ calls'[r].at \in RunSteps /\ calls'[r].pid = "chatgpt" => calls'[r].cfg \in 1..issued
          /\ calls'[r].at \in {"server", "answer"} => calls'[r].use \in 1..issued
          /\ calls'[r].at = "answer" => calls'[r].use \in live
    BY <1>5, <1>14 DEF IInv, TokenInv, Others, SameCall, RunSteps, AuthLocked
  <2>6. (\A r \in Slots : calls'[r].at # "answer") => (\A r \in Slots : calls[r].at # "answer")
    BY <1>a, <1>5 DEF Others, SameCall
  <2>7. Configured' => /\ Login'["chatgpt"] \in 1..issued
                       /\ (\A r \in Slots : calls[r].at # "answer") => Login'["chatgpt"] \in live
    BY <1>14, <2>3 DEF IInv, TokenInv
  <2> QED BY <1>4, <1>8, <1>14, <2>4, <2>5, <2>6, <2>7 DEF IInv, TokenInv
<1>15. SaveInv'
  BY <1>a, <1>4, <1>5, <1>8 DEF IInv, SaveInv, Others, SameCall, Writes, Saving
<1>16. KeepInv'
  <2>1. \A r \in Slots : calls'[r].at = "write" => r = s
    BY <1>a, <1>5 DEF Others, SameCall
  <2>2. wanted' \subseteq DOMAIN Login' /\ wanted' \subseteq wanted
    BY <1>3, <1>6, <1>8, <1>9 DEF IInv, KeepInv
  <2>3. calls'[s].op # "delete" => calls'[s].pid \in DOMAIN Login'
    BY <1>5, <1>8, <1>9 DEF Deletes
  <2> QED BY <1>4, <1>6, <1>8, <2>1, <2>2, <2>3 DEF IInv, KeepInv
<1>17. ListInv'
  BY <1>3, <1>7 DEF ListInv, ListIsCurrent, NoList
<1> QED BY <1>4, <1>11, <1>12, <1>13, <1>14, <1>15, <1>16, <1>17 DEF IInv, TokenInv

\* A refreshed token is stored in memory.
LEMMA StoreStep ==
  ASSUME IInv, NEW s \in Slots, Store(s)
  PROVE  IInv'
<1> DEFINE newest == With("chatgpt", calls[s].use)
           c == [calls[s] EXCEPT !.at = "awrite", !.snap = newest, !.use = 0]
<1>1. HasCallFields(calls[s]) /\ DOMAIN calls = Slots
  BY DEF IInv, TypeInv, CallsTyped
<1>2. /\ HasCallFields(c) /\ c.at = "awrite" /\ c.op = calls[s].op /\ c.pid = calls[s].pid
      /\ c.cfg = calls[s].cfg /\ c.dup = calls[s].dup /\ c.snap = newest
  BY <1>1 DEF HasCallFields, Fields
<1>3. DOMAIN newest = DOMAIN Login \union {"chatgpt"} /\ newest["chatgpt"] = calls[s].use
      /\ \A p \in DOMAIN Login : p # "chatgpt" => newest[p] = Login[p]
  BY DEF With
<1>4. /\ calls[s].at = "answer"
      /\ logins' = [logins EXCEPT ![Preferred] = newest]
      /\ IF Configured THEN calls' = [calls EXCEPT ![s] = c] ELSE calls' = ListingsRaced([calls EXCEPT ![s] = c])
      /\ contacts' = [contacts EXCEPT !.raced = contacts.valid /\ (contacts.raced \/ ~Configured)]
  BY <1>1 DEF Store, At
<1>5. UNCHANGED <<foreign, rows, issued, live, wanted, torn, lost, replayed>>
  BY DEF Store
<1> HIDE DEF c, newest
<1>6. /\ CallsTyped' /\ Others(s) /\ calls'[s].op = calls[s].op /\ calls'[s].at = "awrite"
      /\ calls'[s].pid = calls[s].pid /\ calls'[s].cfg = calls[s].cfg
      /\ calls'[s].dup = calls[s].dup /\ calls'[s].snap = newest
  BY <1>2, <1>4, Becomes
<1>7. Loaded /\ calls[s].op # "contacts" /\ \A r \in Slots \ {s} : calls[r].at \notin AuthLocked
  BY <1>4 DEF IInv, LoginInv, LockInv, NeedsNoLogin, AuthLocked
<1>8. ~Configured => \A r \in Slots : calls'[r].op = "contacts" => calls'[r].raced
  BY <1>1, <1>2, <1>4, <1>7 DEF ListingsRaced, IInv, TypeInv, CallsTyped, HasCallFields, Fields
<1>9. /\ Preferred' = Preferred /\ Preferred \in DOMAIN logins /\ DOMAIN logins' = DOMAIN logins
      /\ Loaded' /\ (Duplicate' <=> Duplicate) /\ Login' = newest
      /\ \A l \in DOMAIN logins \ {Preferred} : logins'[l] = logins[l]
  BY <1>4, <1>5, <1>7 DEF Preferred, Loaded, Duplicate, Login
<1>10. Configured'
  BY <1>3, <1>9 DEF Configured
<1>11. /\ contacts'.valid = contacts.valid /\ contacts'.list = contacts.list /\ DOMAIN contacts' = DOMAIN contacts
       /\ contacts'.raced = (contacts.valid /\ (contacts.raced \/ ~Configured))
  BY <1>4 DEF IInv, TypeInv
<1>12. TypeInv'
  BY <1>4, <1>5, <1>6, <1>9, <1>11 DEF IInv, TypeInv
<1>13. LoginInv'
  BY <1>4, <1>5, <1>6, <1>7, <1>9, <1>11 DEF IInv, LoginInv, Others, SameCall, NeedsNoLogin
<1>14. LockInv'
  BY <1>4, <1>6 DEF IInv, LockInv, Others, SameCall, AuthLocked
<1>15. ASSUME ~lost  PROVE TokenInv'
  <2>1. \A r \in Slots : Brings(r)' => r # s /\ Brings(r) /\ calls'[r].cfg = calls[r].cfg
    BY <1>6 DEF Brings, Others, SameCall
  <2>2. \A r \in Slots : \A t : Uses(r, t)' => Uses(r, t)
    BY <1>4, <1>6 DEF Uses, Others, SameCall, RunSteps, AuthLocked
  <2>3. calls[s].use \in live /\ calls[s].use \in 1..issued
    BY <1>4, <1>15 DEF IInv, TokenInv
  <2>4. ASSUME NEW r \in Slots, Brings(r)'
        PROVE  /\ calls'[r].cfg \in live
               /\ \A q \in Slots : ~Uses(q, calls[r].cfg)' /\ (q # r /\ Brings(q)' => calls'[q].cfg # calls'[r].cfg)
    BY <1>15, <2>1, <2>2, <2>4 DEF IInv, TokenInv
  <2>5. ASSUME NEW r \in Slots, Brings(r)'  PROVE calls'[r].cfg # calls[s].use
    <3>1. Brings(r) /\ calls'[r].cfg = calls[r].cfg
      BY <2>1, <2>5
    <3>2. ~Uses(s, calls[r].cfg)
      BY <1>15, <3>1 DEF IInv, TokenInv
    <3> QED BY <1>4, <3>1, <3>2 DEF Uses
  <2>6. \A r \in Slots :
          /\ calls'[r].at \in {"lock"} \union AuthLocked => calls'[r].pid = "chatgpt"
          /\ calls'[r].at \in RunSteps /\ calls'[r].pid = "chatgpt" => calls'[r].cfg \in 1..issued
          /\ calls'[r].at \in {"server", "answer"} => calls'[r].use \in 1..issued
          /\ calls'[r].at = "answer" => calls'[r].use \in live
    BY <1>4, <1>6, <1>15 DEF IInv, TokenInv, Others, SameCall, RunSteps, AuthLocked
  <2> QED BY <1>3, <1>5, <1>9, <1>15, <2>3, <2>4, <2>5, <2>6 DEF IInv, TokenInv
<1>16. SaveInv'
  <2>1. \A r \in Slots \ {s} : Saving(r)' => calls'[r].at # "awrite"
    BY <1>6, <1>7 DEF Others, SameCall, Saving, AuthLocked
  <2> QED BY <1>5, <1>6, <1>9, <2>1 DEF IInv, SaveInv, Writes, Saving
<1>17. KeepInv'
  <2>1. DOMAIN Old = {"beeper", "chatgpt", "custom"}
    BY DEF Old
  <2>2. Duplicate => DOMAIN newest = DOMAIN Old
    BY <1>3, <1>7, <2>1 DEF IInv, KeepInv, Loaded, Login
  <2> QED BY <1>3, <1>4, <1>5, <1>6, <1>7, <1>9, <2>2 DEF IInv, KeepInv, Others, SameCall, Saving
<1>18. ListInv'
  <2>1. CASE Configured
    <3>1. DOMAIN newest = DOMAIN Login
      BY <1>3, <2>1 DEF Configured
    <3>2. Listing' = Listing
      BY <1>3, <1>9, <3>1 DEF Listing
    <3> QED BY <1>6, <1>7, <1>11, <2>1, <3>2 DEF IInv, TypeInv, ListInv, ListIsCurrent, Others, SameCall
  <2>2. CASE ~Configured
    BY <1>8, <1>11, <2>2 DEF ListInv, ListIsCurrent
  <2> QED BY <2>1, <2>2
<1> QED BY <1>5, <1>12, <1>13, <1>14, <1>15, <1>16, <1>17, <1>18 DEF IInv, TokenInv

\* What was listed is cached.
LEMMA ListStoredStep ==
  ASSUME IInv, NEW s \in Slots, ListStored(s)
  PROVE  IInv'
<1>1. /\ CallsTyped' /\ Others(s) /\ calls'[s].at = "idle" /\ calls'[s].op = "idle" /\ calls'[s].dup = FALSE
  <2>1. CallsTyped' /\ Others(s) /\ calls'[s] = Idle
    BY EndStep DEF ListStored, IInv, TypeInv
  <2> QED BY <2>1, IdleFields
<1>2. /\ calls[s].at = "list"
      /\ contacts' = [valid |-> TRUE, list |-> calls[s].snap, raced |-> calls[s].raced]
  BY DEF ListStored, At
<1>3. UNCHANGED <<foreign, logins, rows, issued, live, wanted, torn, lost, replayed>>
  BY DEF ListStored
<1>4. Loaded /\ calls[s].op = "contacts" /\ calls[s].raced \in BOOLEAN
  BY <1>2 DEF IInv, TypeInv, CallsTyped, HasCallFields, LoginInv, NeedsNoLogin
<1> USE <1>3, SameLogins
<1>5. TypeInv'
  BY <1>1, <1>2, <1>4 DEF IInv, TypeInv
<1>6. LoginInv'
  BY <1>1, <1>2, <1>4 DEF IInv, LoginInv, Others, SameCall, NeedsNoLogin
<1>7. LockInv'
  BY <1>1 DEF IInv, LockInv, Others, SameCall, AuthLocked
<1>8. TokenInv'
  BY <1>1, <1>2 DEF IInv, TokenInv, Others, SameCall, AuthLocked, RunSteps, Brings, Uses
<1>9. SaveInv'
  BY <1>1, <1>2 DEF IInv, SaveInv, Others, SameCall, Writes, Saving
<1>10. KeepInv'
  BY <1>1 DEF IInv, KeepInv, Others, SameCall, Saving
<1>11. ListInv'
  BY <1>1, <1>2, <1>4 DEF IInv, ListInv, ListIsCurrent, Others, SameCall
<1> QED BY <1>5, <1>6, <1>7, <1>8, <1>9, <1>10, <1>11 DEF IInv

\* A new process starts from the rows.
LEMMA RestartStep ==
  ASSUME IInv, Restart
  PROVE  IInv'
<1>1. /\ logins' = rows /\ calls' = StartUp /\ contacts' = NoList /\ torn' = FALSE
      /\ wanted' = IF torn \/ logins # rows THEN wanted \intersect UNION {DOMAIN rows[l] : l \in DOMAIN rows} ELSE wanted
      /\ lost' = (lost \/ logins # rows \/ \E s \in Slots : At(s, "answer"))
  BY DEF Restart, Crash
<1>2. UNCHANGED <<foreign, rows, issued, live, replayed>>
  BY DEF Restart, Crash
<1>3. CallsTyped' /\ \A s \in Slots : /\ calls'[s].at \in {"idle", "look"} /\ calls'[s].op \in {"idle", "list"}
                                      /\ calls'[s].pid = "" /\ calls'[s].dup = FALSE
  BY <1>1, StartUpCalls DEF CallsTyped, HasCallFields
<1>4. contacts'.valid = FALSE /\ contacts'.raced = FALSE /\ DOMAIN contacts' = {"valid", "list", "raced"}
  BY <1>1 DEF NoList
<1>5. rows = [l \in DOMAIN logins |-> rows[l]] /\ DOMAIN rows = DOMAIN logins
  BY DEF IInv, TypeInv
<1>6. /\ Preferred' = Preferred /\ (Loaded' <=> Loaded) /\ (Duplicate' <=> Duplicate) /\ DOMAIN logins' = DOMAIN logins
      /\ Login' = rows[Preferred]
  BY <1>1, <1>2, <1>5 DEF Preferred, Loaded, Duplicate, Login
<1>7. ~Loaded => rows["own"] = Old /\ "own" \in DOMAIN logins \ {Preferred}
  BY DEF IInv, LoginInv, SaveInv, Loaded, Preferred
<1>8. TypeInv'
  BY <1>1, <1>2, <1>3, <1>4, <1>5 DEF IInv, TypeInv
<1>9. LoginInv'
  BY <1>1, <1>2, <1>3, <1>4, <1>6, <1>7 DEF IInv, LoginInv, NeedsNoLogin
<1>10. LockInv'
  BY <1>3 DEF LockInv, AuthLocked
<1>11. ASSUME ~lost'  PROVE TokenInv'
  <2>1. ~lost /\ logins = rows /\ \A s \in Slots : calls[s].at # "answer"
    BY <1>1, <1>11 DEF At
  <2>2. logins' = logins /\ Login' = Login /\ (Configured' <=> Configured)
    BY <1>1, <1>6, <2>1 DEF Configured, Login
  <2>3. \A s \in Slots : /\ ~Brings(s)'
                         /\ calls'[s].at \notin RunSteps \union AuthLocked \union {"lock"}
    BY <1>3 DEF Brings, RunSteps, AuthLocked
  <2> QED BY <1>2, <1>3, <1>6, <2>1, <2>2, <2>3 DEF IInv, TokenInv, AuthLocked, RunSteps
<1>12. SaveInv'
  BY <1>1, <1>2, <1>3, <1>6 DEF SaveInv, Saving
<1>13. KeepInv'
  <2>1. wanted' \subseteq wanted
    BY <1>1
  <2>2. ASSUME Loaded  PROVE wanted' \subseteq DOMAIN rows[Preferred]
    <3>1. CASE ~torn /\ logins = rows
      BY <1>1, <2>2, <3>1 DEF IInv, KeepInv
    <3>2. CASE torn \/ logins # rows
      <4>1. wanted' \subseteq UNION {DOMAIN rows[l] : l \in DOMAIN rows}
        BY <1>1, <3>2
      <4>2. ~Duplicate => DOMAIN rows = {Preferred}
        BY <1>5, <2>2 DEF IInv, LoginInv, Loaded, Preferred, Duplicate
      <4>3. Duplicate => \A l \in DOMAIN rows : DOMAIN rows[l] = DOMAIN rows[Preferred]
        BY <1>5, <2>2 DEF IInv, KeepInv, Loaded
      <4> QED BY <4>1, <4>2, <4>3
    <3> QED BY <3>1, <3>2
  <2>3. ~Loaded \/ Duplicate => /\ wanted' \subseteq DOMAIN Old
                                /\ \A l \in DOMAIN logins : DOMAIN rows[l] = DOMAIN Old
    BY <2>1 DEF IInv, KeepInv
  <2>4. \A s \in Slots : ~Saving(s)' /\ calls'[s].at # "write"
    BY <1>3 DEF Saving
  <2> QED BY <1>1, <1>2, <1>6, <2>2, <2>3, <2>4 DEF KeepInv
<1>14. ListInv'
  BY <1>3, <1>4 DEF ListInv, ListIsCurrent
<1> QED BY <1>8, <1>9, <1>10, <1>11, <1>12, <1>13, <1>14 DEF IInv, TokenInv

-----------------------------------------------------------------------------

LEMMA InitInv == Init => IInv
<1> SUFFICES ASSUME Init  PROVE IInv
  OBVIOUS
<1>a. /\ rows = logins /\ foreign \in BOOLEAN /\ calls = StartUp /\ issued = 1 /\ live = {1}
      /\ contacts = NoList /\ wanted = DOMAIN Old /\ torn = FALSE /\ lost = FALSE /\ replayed = FALSE
  BY DEF Init, PInit
<1>1. CallsTyped /\ \A s \in Slots : /\ calls[s].at \in {"idle", "look"} /\ calls[s].op \in {"idle", "list"}
                                     /\ calls[s].pid = "" /\ calls[s].dup = FALSE
  BY <1>a, StartUpCalls DEF CallsTyped
<1>2. PICK ids \in IF foreign THEN {{"own"}} ELSE {{"main"}, {"own"}, {"main", "own"}} : logins = [l \in ids |-> Old]
  BY DEF Init, PInit
<1>3. DOMAIN logins = ids /\ \A l \in ids : logins[l] = Old /\ rows[l] = Old
  BY <1>a, <1>2
<1>4. DOMAIN Old = {"beeper", "chatgpt", "custom"} /\ Old["chatgpt"] = 1
  BY DEF Old
<1>5. TypeInv
  BY <1>a, <1>1, <1>2 DEF TypeInv, NoList
<1>6. LoginInv
  BY <1>a, <1>1, <1>2, <1>3 DEF LoginInv, Loaded, Preferred, NoList, NeedsNoLogin
<1>7. LockInv
  BY <1>1 DEF LockInv, AuthLocked
<1>8. TokenInv
  <2>1. \A s \in Slots : ~Brings(s) /\ calls[s].at \notin RunSteps \union AuthLocked \union {"lock"}
    BY <1>1 DEF Brings, RunSteps, AuthLocked
  <2>2. Configured => Login["chatgpt"] = 1
    BY <1>3, <1>4 DEF Configured, Loaded, Login
  <2>3. issued = 1 /\ live = {1} /\ replayed = FALSE
    BY <1>a
  <2>4. issued \in Nat /\ live \subseteq 1..issued /\ 1 \in 1..issued /\ 1 \in live
    BY <2>3
  <2> QED BY <2>1, <2>2, <2>3, <2>4 DEF TokenInv, AuthLocked, RunSteps
<1>9. SaveInv
  BY <1>a, <1>1, <1>3 DEF SaveInv, Saving, Loaded, Login
<1>10. KeepInv
  BY <1>a, <1>1, <1>3 DEF KeepInv, Saving, Loaded, Login
<1>11. ListInv
  BY <1>a, <1>1 DEF ListInv, ListIsCurrent, NoList
<1> QED BY <1>5, <1>6, <1>7, <1>8, <1>9, <1>10, <1>11 DEF IInv

LEMMA NextInv == IInv /\ [Next]_vars => IInv'
<1> SUFFICES ASSUME IInv, [Next]_vars  PROVE IInv'
  OBVIOUS
<1>1. CASE UNCHANGED vars
  <2>1. UNCHANGED Globals /\ calls' = calls
    BY <1>1 DEF vars, pvars, Globals
  <2> QED BY <2>1, QuietAll DEF IInv, TypeInv, CallsTyped, HasCallFields, SameCall
<1>2. CASE PNext
  <2>1. CASE List \/ Save \/ Device \/ Contacts \/ \E p \in {"chatgpt", "custom"} : Delete(p)
    BY <2>1, BeginningsAreQuiet
  <2>2. CASE Expire \/ \E s \in Slots : Cancel(s)
    BY <2>2, EditsAreQuiet
  <2>3. CASE \E s \in Slots : EnsureFails(s) \/ Refuse(s) \/ DeviceFails(s) \/ RefreshRefused(s) \/ ListFails(s)
    BY <2>3, EndsAreQuiet
  <2>4. CASE \E s \in Slots : Look(s) \/ Poll(s) \/ Pause(s) \/ Auth(s) \/ Call(s)
    BY <2>4, MovesAreQuiet
  <2>5. CASE \E s \in Slots : SaveLogin(s) \/ Write(s) \/ WriteFails(s) \/ AuthWrite(s) \/ AuthWriteFails(s)
    BY <2>5, SaveStep
  <2>6. CASE \E s \in Slots : Exchange(s) \/ Refresh(s)
    BY <2>6, NewTokens
  <2>7. ASSUME NEW s \in Slots,
               Create(s) \/ Drop(s) \/ Change(s) \/ Lock(s) \/ AnswerLost(s) \/ Store(s) \/ ListStored(s)
        PROVE  IInv'
    BY <2>7, CreateStep, DropStep, ChangeStep, LockStep, AnswerLostStep, StoreStep, ListStoredStep
  <2> QED BY <1>2, <2>1, <2>2, <2>3, <2>4, <2>5, <2>6, <2>7 DEF PNext
<1>3. CASE \/ \E ref \in {<<"", "deep">>, <<"custom", "deep">>, <<"chatgpt", "auto">>} :
                Command("model", ref[1], ref[2])
           \/ \E level \in {"off", "low"} : Command("reasoning", "", level)
           \/ Command("mode", "", "adaptive")
           \/ \E op \in {"search", "fetch"} : Command(op, "", "native")
  <2>1. ASSUME NEW ref \in {<<"", "deep">>, <<"custom", "deep">>, <<"chatgpt", "auto">>},
               Command("model", ref[1], ref[2])
        PROVE  IInv'
    <3>1. \E p, w : Command("model", p, w)
      BY <2>1
    <3> QED BY <3>1, BeginningsAreQuiet
  <2>2. ASSUME NEW op \in {"reasoning", "mode", "search", "fetch"}, NEW w, Command(op, "", w)
        PROVE  IInv'
    BY <2>2, BeginningsAreQuiet
  <2> QED BY <1>3, <2>1, <2>2
<1>4. CASE Prompt \/ NewChat("custom", "lab/fast")
  BY <1>4, BeginningsAreQuiet
<1>5. CASE ClientEdits \/ Rename
  BY <1>5, EditsAreQuiet
<1>6. CASE Restart
  BY <1>6, RestartStep
<1>7. CASE \E s \in Slots : ChatWritten(s) \/ Titled(s) \/ TitleUnsaved(s) \/ AnswerModel(s) \/ AnswerTools(s)
  BY <1>7, EndsAreQuiet
<1>8. CASE \E s \in Slots : Normalise(s) \/ Start(s) \/ AskTitle(s)
  BY <1>8, MovesAreQuiet
<1> QED BY <1>1, <1>2, <1>3, <1>4, <1>5, <1>6, <1>7, <1>8 DEF Next

\* The login, its rows, its tokens and its contacts are as the invariant says, however
\* many calls overlap and fail, and across restarts (CreateAIChatsLogin,
\* SaveProviderConfig, refreshProviderIfNeeded).
THEOREM LoginIsSound == Spec => []IInv
BY InitInv, NextInv, PTL DEF Spec

LEMMA InvImplies == IInv => EveryChangeIsSaved /\ SavedProvidersAreKept /\ TokensAreSpentOnce /\ ListIsCurrent
<1> SUFFICES ASSUME IInv  PROVE EveryChangeIsSaved /\ SavedProvidersAreKept /\ TokensAreSpentOnce /\ ListIsCurrent
  OBVIOUS
<1>1. EveryChangeIsSaved
  <2> SUFFICES ASSUME \A s \in Slots : ~Saving(s), ~torn  PROVE rows = logins
    BY DEF EveryChangeIsSaved
  <2>1. \A l \in DOMAIN logins : rows[l] = logins[l]
    <3>1. Loaded => rows[Preferred] = Login
      BY DEF IInv, SaveInv, Saving, Writes
    <3> QED BY <3>1 DEF IInv, SaveInv, Loaded, Login
  <2>2. rows = [l \in DOMAIN logins |-> rows[l]] /\ logins = [l \in DOMAIN logins |-> logins[l]]
    BY DEF IInv, TypeInv
  <2> QED BY <2>1, <2>2
<1>2. SavedProvidersAreKept
  <2> SUFFICES ASSUME ~torn  PROVE wanted \subseteq UNION {DOMAIN rows[l] : l \in DOMAIN rows}
    BY DEF SavedProvidersAreKept
  <2>1. DOMAIN rows = DOMAIN logins
    BY DEF IInv, TypeInv
  <2>2. CASE Loaded
    BY <2>1, <2>2 DEF IInv, KeepInv, Loaded
  <2>3. CASE ~Loaded
    <3>1. "own" \in DOMAIN rows
      BY <2>1, <2>3 DEF IInv, LoginInv, Loaded, Preferred
    <3> QED BY <2>1, <2>3, <3>1 DEF IInv, KeepInv
  <2> QED BY <2>2, <2>3
<1>3. TokensAreSpentOnce
  BY DEF IInv, TypeInv, TokenInv, TokensAreSpentOnce
<1>4. ListIsCurrent
  BY DEF IInv, ListInv
<1> QED BY <1>1, <1>2, <1>3, <1>4

\* Once no Save is in flight the row says what the memory says, unless one failed or
\* overlapped one of another lock (SaveProviderConfig, DeleteProvider, saveProviderConfig).
THEOREM ChangesAreSaved == Spec => []EveryChangeIsSaved
BY LoginIsSound, InvImplies, PTL

\* A provider that was saved and not deleted is in a row at every moment, also while an
\* older login is replaced (CreateAIChatsLogin, deleteDuplicateAIChatsLogin).
THEOREM ProvidersAreKept == Spec => []SavedProvidersAreKept
BY LoginIsSound, InvImplies, PTL

\* A rotating token is never sent after it was spent, unless an answer or a row was lost
\* (refreshProviderIfNeeded).
THEOREM NoTokenIsReplayed == Spec => []TokensAreSpentOnce
BY LoginIsSound, InvImplies, PTL

\* The cached contacts are those of the login's providers, unless a change overlapped
\* their listing (invalidateModelContactCache).
THEOREM ContactsAreCurrent == Spec => []ListIsCurrent
BY LoginIsSound, InvImplies, PTL

-----------------------------------------------------------------------------
(* The inductive invariant of the room. *)

RoomSteps == {"start", "reply", "normalise", "chat"}
RoomFields == {"present", "p", "m", "level", "mode"}

\* Where a call is, and what it has read, follow its kind; a run fits its model.
RunInv ==
  \A s \in Slots :
    /\ calls[s].op \in {"run", "title"} <=> calls[s].at \in RunSteps
    /\ calls[s].at = "start" => calls[s].seen.room.level # ""
    /\ calls[s].at = "chat" => DOMAIN calls[s].seen.room = RoomFields
    /\ calls[s].at = "reply" /\ calls[s].op = "reasoning" => calls[s].word # ""

\* A room the user named is not to be titled, and a title under way is known to be late.
NameInv == title.name = "user" => /\ ~title.pending /\ ~title.saved
                                  /\ \A s \in Slots : calls[s].op = "title" => calls[s].raced

\* Settings that were not written since are those that were read.
SeenInv == \A s \in Slots : calls[s].at \in {"reply", "normalise"} /\ ~calls[s].raced =>
             calls[s].seen.room = room /\ calls[s].seen.tools = tools

RoomInv ==
  /\ DOMAIN room = RoomFields
  /\ DOMAIN title = {"name", "pending", "saved"} /\ title.pending \in BOOLEAN /\ title.saved \in BOOLEAN
  /\ RunInv /\ RunsFitTheirModel /\ NameInv /\ SeenInv

\* A step of the login's leaves what a call of the room or a run works with alone.
SameRun(c, d) == /\ c.op = d.op /\ c.pid = d.pid /\ c.cfg = d.cfg /\ c.word = d.word /\ c.seen = d.seen
                 /\ (d.raced => c.raced)
                 /\ (c.at \in RunSteps <=> d.at \in RunSteps)
                 /\ (c.at \in RoomSteps \/ d.at \in RoomSteps => c.at = d.at)
Elsewhere(c, d) == /\ c.op \notin {"run", "title"} /\ c.at \notin RunSteps \union RoomSteps
                   /\ d.at \notin RoomSteps
LoginStep == CallsTyped' /\ \A s \in Slots : SameRun(calls'[s], calls[s]) \/ Elsewhere(calls'[s], calls[s])

LEMMA OthersRun ==
  ASSUME NEW s \in Slots, Others(s), CallsTyped',
         SameRun(calls'[s], calls[s]) \/ Elsewhere(calls'[s], calls[s])
  PROVE  LoginStep
BY DEF LoginStep, Others, SameCall, SameRun

LEMMA RunMoves ==
  ASSUME CallsTyped, NEW s \in Slots, NEW c, HasCallFields(c),
         calls' = [calls EXCEPT ![s] = c] \/ calls' = ListingsRaced([calls EXCEPT ![s] = c]),
         SameRun(c, calls[s]) \/ Elsewhere(c, calls[s])
  PROVE  LoginStep
<1>1. CallsTyped' /\ SameCall(calls'[s], c) /\ Others(s)
  BY OneCall
<1> QED BY <1>1, OthersRun DEF SameCall, SameRun, Elsewhere

LEMMA RunEnds ==
  ASSUME CallsTyped, NEW s \in Slots, calls' = End(s), calls[s].at \notin RoomSteps
  PROVE  LoginStep
<1>1. CallsTyped' /\ Others(s) /\ calls'[s] = Idle
  BY EndStep
<1> QED BY <1>1, IdleFields, OthersRun DEF Elsewhere, RunSteps, RoomSteps, AuthLocked

LEMMA ProviderStep == ASSUME CallsTyped, RunInv, PNext  PROVE LoginStep
<1>1. ASSUME NEW c, HasCallFields(c), Begins(c), c.op \notin {"run", "title"}, c.at \notin RunSteps \union RoomSteps
      PROVE  LoginStep
  BY <1>1, BeginsStep, OthersRun DEF Elsewhere, RoomSteps
<1>2. CASE List
  <2>1. HasCallFields([Idle EXCEPT !.op = "list", !.at = "look"])
    BY DEF Idle, HasCallFields, Fields
  <2> QED BY <1>1, <1>2, <2>1 DEF List, Idle, RunSteps, RoomSteps, AuthLocked
<1>3. CASE Save
  <2>1. PICK at \in Entry : Begins([Input EXCEPT !.at = at])
    BY <1>3 DEF Save
  <2>2. HasCallFields([Input EXCEPT !.at = at])
    BY DEF Input, Idle, HasCallFields, Fields
  <2>3. at \in {"look", "change"}
    BY DEF Entry
  <2> QED BY <1>1, <2>1, <2>2, <2>3 DEF Input, Idle, RunSteps, RoomSteps, AuthLocked
<1>4. CASE Device
  <2>1. HasCallFields([Idle EXCEPT !.op = "device", !.at = "poll", !.pid = "chatgpt"])
    BY DEF Idle, HasCallFields, Fields
  <2> QED BY <1>1, <1>4, <2>1 DEF Device, Idle, RunSteps, RoomSteps, AuthLocked
<1>5. CASE Contacts
  <2>1. HasCallFields([Idle EXCEPT !.op = "contacts", !.at = "list", !.snap = Listing])
    BY DEF Idle, HasCallFields, Fields
  <2> QED BY <1>1, <1>5, <2>1 DEF Contacts, Idle, RunSteps, RoomSteps, AuthLocked
<1>6. ASSUME NEW p \in {"chatgpt", "custom"}, Delete(p)  PROVE LoginStep
  <2>1. PICK at \in Entry : Begins([Idle EXCEPT !.op = "delete", !.at = at, !.pid = p])
    BY <1>6 DEF Delete
  <2>2. HasCallFields([Idle EXCEPT !.op = "delete", !.at = at, !.pid = p])
    BY DEF Idle, HasCallFields, Fields
  <2>3. at \in {"look", "change"}
    BY DEF Entry
  <2> QED BY <1>1, <2>1, <2>2, <2>3 DEF Idle, RunSteps, RoomSteps, AuthLocked
<1>7. CASE Expire
  BY <1>7 DEF Expire, LoginStep, SameRun, CallsTyped, HasCallFields
<1>8. ASSUME NEW s \in Slots, EnsureFails(s) \/ Refuse(s) \/ Write(s) \/ WriteFails(s) \/ DeviceFails(s)
               \/ RefreshRefused(s) \/ AnswerLost(s) \/ ListStored(s) \/ ListFails(s)
      PROVE  LoginStep
  <2>1. calls' = End(s)
    BY <1>8 DEF EnsureFails, Refuse, Write, WriteFails, DeviceFails, RefreshRefused, AnswerLost, ListStored, ListFails
  <2>2. calls[s].at \notin RoomSteps
    BY <1>8 DEF EnsureFails, Refuse, Write, WriteFails, DeviceFails, RefreshRefused, AnswerLost, ListStored,
                ListFails, At, RoomSteps
  <2> QED BY <2>1, <2>2, RunEnds
<1>9. ASSUME NEW s \in Slots, NEW at, calls' = Goto(s, at),
             at \in RunSteps <=> calls[s].at \in RunSteps, at \notin RoomSteps, calls[s].at \notin RoomSteps
      PROVE  LoginStep
  <2> DEFINE c == [calls[s] EXCEPT !.at = at]
  <2>1. HasCallFields(c) /\ SameRun(c, calls[s])
    BY <1>9 DEF CallsTyped, HasCallFields, Fields, SameRun
  <2>2. calls' = [calls EXCEPT ![s] = c]
    BY <1>9 DEF Goto, CallsTyped
  <2> HIDE DEF c
  <2> QED BY <2>1, <2>2, RunMoves
<1>10. ASSUME NEW s \in Slots, NEW at, NEW snap,
              \/ calls' = [calls EXCEPT ![s].at = at, ![s].snap = snap]
              \/ calls' = ListingsRaced([calls EXCEPT ![s].at = at, ![s].snap = snap]),
              at \in RunSteps <=> calls[s].at \in RunSteps, at \notin RoomSteps, calls[s].at \notin RoomSteps
       PROVE  LoginStep
  <2> DEFINE c == [calls[s] EXCEPT !.at = at, !.snap = snap]
  <2>1. HasCallFields(c) /\ SameRun(c, calls[s])
    BY <1>10 DEF CallsTyped, HasCallFields, Fields, SameRun
  <2>2. [calls EXCEPT ![s].at = at, ![s].snap = snap] = [calls EXCEPT ![s] = c]
    BY DEF CallsTyped
  <2>3. calls' = [calls EXCEPT ![s] = c] \/ calls' = ListingsRaced([calls EXCEPT ![s] = c])
    BY <1>10, <2>2
  <2> HIDE DEF c
  <2> QED BY <2>1, <2>3, RunMoves
<1>11. ASSUME NEW s \in Slots, NEW at, NEW dup \in BOOLEAN, NEW snap,
              calls' = [calls EXCEPT ![s].at = at, ![s].dup = dup, ![s].snap = snap],
              at \notin RunSteps \union RoomSteps, calls[s].at \notin RunSteps \union RoomSteps
       PROVE  LoginStep
  <2> DEFINE c == [calls[s] EXCEPT !.at = at, !.dup = dup, !.snap = snap]
  <2>1. HasCallFields(c) /\ SameRun(c, calls[s])
    BY <1>11 DEF CallsTyped, HasCallFields, Fields, SameRun
  <2>2. calls' = [calls EXCEPT ![s] = c]
    BY <1>11 DEF CallsTyped
  <2> HIDE DEF c
  <2> QED BY <2>1, <2>2, RunMoves
<1>12. ASSUME NEW s \in Slots, NEW at, NEW use, calls' = [calls EXCEPT ![s].at = at, ![s].use = use],
              at \in RunSteps, at \notin RoomSteps, calls[s].at \in RunSteps, calls[s].at \notin RoomSteps
       PROVE  LoginStep
  <2> DEFINE c == [calls[s] EXCEPT !.at = at, !.use = use]
  <2>1. HasCallFields(c) /\ SameRun(c, calls[s])
    BY <1>12 DEF CallsTyped, HasCallFields, Fields, SameRun
  <2>2. calls' = [calls EXCEPT ![s] = c]
    BY <1>12 DEF CallsTyped
  <2> HIDE DEF c
  <2> QED BY <2>1, <2>2, RunMoves
<1> USE DEF At, RunSteps, RoomSteps, AuthLocked
<1>13. ASSUME NEW s \in Slots, calls' = Ensured(s), calls[s].at \in {"drop", "esave"}  PROVE LoginStep
  <2>1. CASE calls[s].op = "list"
    BY <1>13, <2>1, RunEnds DEF Ensured
  <2>2. CASE calls[s].op # "list"
    <3>1. calls' = [calls EXCEPT ![s].at = "change", ![s].dup = FALSE, ![s].snap = Nothing]
      BY <1>13, <2>2 DEF Ensured
    <3>2. "change" \notin RunSteps \union RoomSteps /\ calls[s].at \notin RunSteps \union RoomSteps
      BY <1>13
    <3> HIDE DEF RunSteps, RoomSteps, AuthLocked
    <3> QED BY <1>11, <3>1, <3>2
  <2> QED BY <2>1, <2>2
<1>14. ASSUME NEW s \in Slots, Look(s)  PROVE LoginStep
  <2> DEFINE at == IF Loaded THEN "esave" ELSE "create"
             snap == IF Loaded THEN Login ELSE logins["own"]
  <2>1. calls' = [calls EXCEPT ![s].at = at, ![s].dup = Duplicate, ![s].snap = snap] /\ calls[s].at = "look"
    BY <1>14 DEF Look, CallsTyped
  <2>2. at \in {"esave", "create"} /\ Duplicate \in BOOLEAN
    BY DEF Duplicate
  <2> HIDE DEF at, snap
  <2> QED BY <2>1, <2>2, <1>11
<1>15. ASSUME NEW s \in Slots, Create(s)  PROVE LoginStep
  <2>1. calls' = [calls EXCEPT ![s].at = "drop", ![s].snap = Nothing] /\ calls[s].at = "create"
    BY <1>15 DEF Create
  <2>2. \A at \in {"create", "drop"} : at \notin RunSteps /\ at \notin RoomSteps
    OBVIOUS
  <2> HIDE DEF RunSteps, RoomSteps, AuthLocked
  <2> QED BY <1>10, <2>1, <2>2
<1>16. ASSUME NEW s \in Slots, SaveLogin(s)  PROVE LoginStep
  <2>1. CASE calls[s].dup
    <3>1. calls' = [calls EXCEPT ![s].at = "drop", ![s].snap = Nothing] /\ calls[s].at = "esave"
      BY <1>16, <2>1 DEF SaveLogin
    <3>2. \A at \in {"esave", "drop"} : at \notin RunSteps /\ at \notin RoomSteps
      OBVIOUS
    <3> HIDE DEF RunSteps, RoomSteps, AuthLocked
    <3> QED BY <1>10, <3>1, <3>2
  <2>2. CASE ~calls[s].dup
    BY <1>13, <1>16, <2>2 DEF SaveLogin
  <2> QED BY <2>1, <2>2
<1>17. ASSUME NEW s \in Slots, Drop(s)  PROVE LoginStep
  BY <1>13, <1>17 DEF Drop
<1>18. ASSUME NEW s \in Slots, Change(s)  PROVE LoginStep
  BY <1>10, <1>18 DEF Change, ChangeOf
<1>19. ASSUME NEW s \in Slots, Poll(s) \/ Pause(s) \/ Auth(s) \/ Call(s)  PROVE LoginStep
  BY <1>9, <1>19, RunEnds DEF Poll, Pause, Auth, Call
<1>20. ASSUME NEW s \in Slots, Lock(s)  PROVE LoginStep
  BY <1>9, <1>12, <1>20 DEF Lock, Sends
<1>21. ASSUME NEW s \in Slots, Refresh(s)  PROVE LoginStep
  <2>1. calls' = [calls EXCEPT ![s].at = "answer", ![s].use = issued + 1] /\ calls[s].at = "server"
    BY <1>21 DEF Refresh
  <2> DEFINE use == issued + 1
  <2>2. calls' = [calls EXCEPT ![s].at = "answer", ![s].use = use]
    BY <2>1
  <2>3. \A at \in {"server", "answer"} : at \in RunSteps /\ at \notin RoomSteps
    OBVIOUS
  <2> HIDE DEF use, RunSteps, RoomSteps, AuthLocked
  <2> QED BY <1>12, <2>1, <2>2, <2>3
<1>22. ASSUME NEW s \in Slots, AuthWrite(s) \/ AuthWriteFails(s)  PROVE LoginStep
  BY <1>10, <1>22 DEF AuthWrite, AuthWriteFails
<1>23. ASSUME NEW s \in Slots, Exchange(s)  PROVE LoginStep
  <2> DEFINE c == [calls[s] EXCEPT !.at = "look", !.cfg = issued + 1]
  <2>1. HasCallFields(c) /\ c.op = calls[s].op /\ c.at = "look" /\ calls[s].at = "exchange"
    BY <1>23 DEF Exchange, CallsTyped, HasCallFields, Fields
  <2>2. calls' = [calls EXCEPT ![s] = c]
    BY <1>23 DEF Exchange, CallsTyped
  <2> HIDE DEF c
  <2>3. Elsewhere(c, calls[s])
    BY <2>1 DEF Elsewhere, RunInv
  <2> QED BY <2>1, <2>2, <2>3, RunMoves
<1>24. ASSUME NEW s \in Slots, Store(s)  PROVE LoginStep
  <2> DEFINE c == [calls[s] EXCEPT !.at = "awrite", !.snap = With("chatgpt", calls[s].use), !.use = 0]
  <2>1. HasCallFields(c) /\ SameRun(c, calls[s])
    BY <1>24 DEF Store, CallsTyped, HasCallFields, Fields, SameRun
  <2>2. calls' = [calls EXCEPT ![s] = c] \/ calls' = ListingsRaced([calls EXCEPT ![s] = c])
    BY <1>24 DEF Store, CallsTyped
  <2> HIDE DEF c
  <2> QED BY <2>1, <2>2, RunMoves
<1>25. ASSUME NEW s \in Slots, Cancel(s)  PROVE LoginStep
  <2>1. PICK w : calls' = [calls EXCEPT ![s].cancelled = w]
    BY <1>25 DEF Cancel
  <2> DEFINE c == [calls[s] EXCEPT !.cancelled = w]
  <2>2. HasCallFields(c) /\ SameRun(c, calls[s])
    BY DEF CallsTyped, HasCallFields, Fields, SameRun
  <2>3. calls' = [calls EXCEPT ![s] = c]
    BY <2>1 DEF CallsTyped
  <2> HIDE DEF c
  <2> QED BY <2>2, <2>3, RunMoves
<1> QED
  BY <1>2, <1>3, <1>4, <1>5, <1>6, <1>7, <1>8, <1>14, <1>15, <1>16, <1>17, <1>18, <1>19, <1>20, <1>21, <1>22,
     <1>23, <1>24, <1>25 DEF PNext

-----------------------------------------------------------------------------
(* Models and levels. *)

LEMMA CatalogFirst == ASSUME NEW p, NEW c PROVE Catalog(p, c)[1] \in Offers(p, c)
<1>1. 1 \in DOMAIN Catalog(p, c)
  BY DEF Catalog
<1> QED BY <1>1 DEF Offers

LEMMA NoEmptyModel == ASSUME NEW p, NEW c PROVE "" \notin Offers(p, c)
<1> DEFINE q == Catalog(p, c)
<1>1. CASE q = <<"fast", "deep">>
  <2>1. DOMAIN q = 1..2 /\ q[1] = "fast" /\ q[2] = "deep"
    BY <1>1
  <2> HIDE DEF q
  <2>2. ASSUME NEW i \in DOMAIN q  PROVE q[i] # ""
    <3>1. i = 1 \/ i = 2
      BY <2>1
    <3> QED BY <2>1, <3>1
  <2> QED BY <2>2 DEF Offers, q
<1>2. ASSUME NEW id \in {"auto", "lab/fast", "lab/deep"}, q = <<id>>
      PROVE  "" \notin Offers(p, c)
  <2>1. DOMAIN q = 1..1 /\ q[1] = id
    BY <1>2
  <2> HIDE DEF q
  <2>2. ASSUME NEW i \in DOMAIN q  PROVE q[i] # ""
    <3>1. i = 1
      BY <2>1
    <3> QED BY <1>2, <2>1, <3>1
  <2> QED BY <2>2 DEF Offers, q
<1>3. q \in {<<"fast", "deep">>, <<"auto">>, <<"lab/fast">>, <<"lab/deep">>}
  BY DEF Catalog
<1> QED BY <1>1, <1>2, <1>3

LEMMA ModelIDOffered ==
  ASSUME NEW p, NEW id, ModelID(p, id) # ""
  PROVE  ModelID(p, id) \in Offers(p, Login[p]) /\ ModelID(p, ModelID(p, id)) = ModelID(p, id)
<1> DEFINE offers == Offers(p, Login[p])
           short == {m \in offers : LastPart[m] = id}
           m0 == CHOOSE m \in short : TRUE
<1>1. ModelID(p, id) = IF id = "" THEN Catalog(p, Login[p])[1] ELSE IF id \in offers THEN id
                       ELSE IF short # {} THEN m0 ELSE ""
  BY Zenon DEF ModelID
<1>2. short # {} => m0 \in short
  <2>1. short # {} => \E m \in short : TRUE
    OBVIOUS
  <2> QED BY <2>1, Zenon
<1>3. ModelID(p, id) \in offers
  <2> HIDE DEF m0
  <2> QED BY <1>1, <1>2, CatalogFirst
<1>4. \A m \in offers : ModelID(p, m) = m
  <2> TAKE m \in offers
  <2>1. m # ""
    BY NoEmptyModel
  <2> QED BY <2>1, Zenon DEF ModelID
<1> QED BY <1>3, <1>4

LEMMA Ranks == /\ Rank("off") = 1 /\ Rank("low") = 3 /\ Rank("high") = 5
<1>0. DOMAIN Ladder = 1..6 /\ Ladder[1] = "off" /\ Ladder[2] = "minimal" /\ Ladder[3] = "low" /\ Ladder[4] = "medium" /\ Ladder[5] = "high" /\ Ladder[6] = "xhigh"
  BY DEF Ladder
<1>1. ASSUME NEW k \in 1..6 PROVE Rank(Ladder[k]) = k
  <2>1. \A i \in DOMAIN Ladder : Ladder[i] = Ladder[k] => i = k
    BY <1>0
  <2>2. k \in DOMAIN Ladder /\ Ladder[k] = Ladder[k]
    BY <1>0
  <2> QED BY <2>1, <2>2, Zenon DEF Rank
<1> QED BY <1>0, <1>1

LEMMA DefaultIsALevel == ASSUME NEW m PROVE Clamp(m, DefaultLevel(m)) \in Levels(m) /\ "" \notin Levels(m)
<1> DEFINE d == DefaultLevel(m)
           above == {l \in Levels(m) : Rank(l) >= Rank(d)}
           P(l) == \A k \in above : Rank(l) <= Rank(k)
<1>0. "" \notin Levels(m)
  BY DEF Levels
<1>1. \E l \in above : P(l)
  <2>1. CASE m \in {"deep", "lab/deep"}
    BY <2>1, Ranks DEF DefaultLevel, Levels
  <2>2. CASE m = "auto"
    BY <2>2, Ranks DEF DefaultLevel, Levels
  <2>3. CASE m \notin {"deep", "lab/deep", "auto"}
    BY <2>3, Ranks DEF DefaultLevel, Levels
  <2> QED BY <2>1, <2>2, <2>3
<1>2. above # {}
  BY <1>1
<1>3. Clamp(m, d) = CHOOSE l \in above : P(l)
  BY <1>2, Zenon DEF Clamp
<1>4. (CHOOSE l \in above : P(l)) \in above
  BY <1>1, Zenon
<1> QED BY <1>0, <1>3, <1>4

-----------------------------------------------------------------------------
(* The steps of the room. *)

RunFits(s) == /\ calls[s].word \in Offers(calls[s].pid, calls[s].cfg)
              /\ calls[s].op = "run" => calls[s].seen.level \in Levels(calls[s].word) /\ ToolsAreTheRooms(s)

LEMMA FitsMeans == RunsFitTheirModel <=> \A s \in Slots : calls[s].op \in {"run", "title"} => RunFits(s)
BY DEF RunsFitTheirModel, RunFits

\* A run whose fields do not change still fits.
LEMMA FitsStay ==
  ASSUME NEW s \in Slots, RunFits(s), calls'[s].op = calls[s].op, calls'[s].pid = calls[s].pid,
         calls'[s].cfg = calls[s].cfg, calls'[s].word = calls[s].word, calls'[s].seen = calls[s].seen
  PROVE  RunFits(s)'
BY DEF RunFits, ToolsAreTheRooms

LEMMA LoginStepKeepsRoom ==
  ASSUME CallsTyped, RoomInv, LoginStep, UNCHANGED <<room, tools, title>>
  PROVE  RoomInv'
<1>1. RunInv'
  BY DEF RoomInv, RunInv, LoginStep, SameRun, Elsewhere, RoomSteps
<1>2. RunsFitTheirModel'
  <2>1. ASSUME NEW s \in Slots, calls'[s].op \in {"run", "title"}  PROVE RunFits(s)'
    <3>1. SameRun(calls'[s], calls[s])
      BY <2>1 DEF LoginStep, Elsewhere
    <3>2. RunFits(s)
      BY <2>1, <3>1, FitsMeans DEF RoomInv, SameRun
    <3> QED BY <3>1, <3>2, FitsStay DEF SameRun
  <2> QED BY <2>1 DEF RunsFitTheirModel, RunFits
<1>3. NameInv'
  BY DEF RoomInv, NameInv, LoginStep, SameRun, Elsewhere
<1>4. SeenInv'
  BY DEF RoomInv, SeenInv, LoginStep, SameRun, Elsewhere, RoomSteps
<1> QED BY <1>1, <1>2, <1>3, <1>4 DEF RoomInv

LEMMA OneRoomStep ==
  ASSUME RoomInv, NEW s \in Slots, Others(s),
         DOMAIN room' = RoomFields, DOMAIN title' = {"name", "pending", "saved"},
         title'.pending \in BOOLEAN, title'.saved \in BOOLEAN,
         calls'[s].op \in {"run", "title"} <=> calls'[s].at \in RunSteps,
         calls'[s].at = "start" => calls'[s].seen.room.level # "",
         calls'[s].at = "chat" => DOMAIN calls'[s].seen.room = RoomFields,
         calls'[s].at = "reply" /\ calls'[s].op = "reasoning" => calls'[s].word # "",
         calls'[s].op \in {"run", "title"} => RunFits(s)',
         title'.name = "user" => title.name = "user" /\ ~title'.pending /\ ~title'.saved,
         title'.name = "user" /\ calls'[s].op = "title" => calls'[s].raced,
         calls'[s].at \in {"reply", "normalise"} /\ ~calls'[s].raced =>
           calls'[s].seen.room = room' /\ calls'[s].seen.tools = tools',
         \/ room' = room /\ tools' = tools
         \/ \A r \in Slots : calls'[r].at \in {"reply", "normalise"} => calls'[r].raced
  PROVE  RoomInv'
<1>1. RunInv'
  <2> DEFINE I(c) == /\ c.op \in {"run", "title"} <=> c.at \in RunSteps
                     /\ c.at = "start" => c.seen.room.level # ""
                     /\ c.at = "chat" => DOMAIN c.seen.room = RoomFields
                     /\ c.at = "reply" /\ c.op = "reasoning" => c.word # ""
  <2>1. I(calls'[s])
    OBVIOUS
  <2>2. ASSUME NEW r \in Slots \ {s}  PROVE I(calls'[r])
    <3>1. I(calls[r])
      BY DEF RoomInv, RunInv
    <3> QED BY <2>2, <3>1 DEF Others, SameCall
  <2>3. ASSUME NEW r \in Slots  PROVE I(calls'[r])
    BY <2>1, <2>2
  <2> QED BY <2>3 DEF RunInv
<1>2. RunsFitTheirModel'
  <2>1. ASSUME NEW r \in Slots \ {s}, calls'[r].op \in {"run", "title"}  PROVE RunFits(r)'
    <3>1. SameCall(calls'[r], calls[r])
      BY DEF Others
    <3>2. RunFits(r)
      BY <2>1, <3>1, FitsMeans DEF RoomInv, SameCall
    <3> QED BY <3>1, <3>2, FitsStay DEF SameCall
  <2> QED BY <2>1 DEF RunsFitTheirModel, RunFits
<1>3. NameInv'
  BY DEF RoomInv, NameInv, Others, SameCall
<1>4. SeenInv'
  <2>1. ASSUME NEW r \in Slots \ {s}, calls'[r].at \in {"reply", "normalise"}, ~calls'[r].raced
        PROVE  calls'[r].seen.room = room' /\ calls'[r].seen.tools = tools'
    <3>1. SameCall(calls'[r], calls[r])
      BY DEF Others
    <3>2. calls[r].seen.room = room /\ calls[r].seen.tools = tools
      BY <2>1, <3>1 DEF RoomInv, SeenInv, SameCall
    <3> QED BY <2>1, <3>1, <3>2 DEF SameCall
  <2> QED BY <2>1 DEF SeenInv
<1> QED BY <1>1, <1>2, <1>3, <1>4 DEF RoomInv

\* The call that a slot begins.
LEMMA RoomBegins ==
  ASSUME CallsTyped, NEW c, HasCallFields(c), Begins(c)
  PROVE  \E s \in Slots : CallsTyped' /\ Others(s) /\ calls'[s] = c
BY BeginsStep

\* A step that is known to have overtaken the readers of the settings.
LEMMA RacedTells ==
  ASSUME NEW f, DOMAIN f = Slots, \A r \in Slots : HasCallFields(f[r]), calls' = Raced(f)
  PROVE  \A r \in Slots : /\ calls'[r].at \in {"reply", "normalise"} => calls'[r].raced
                          /\ f[r].at \notin {"reply", "normalise"} => calls'[r] = f[r]
<1> TAKE r \in Slots
<1>1. calls'[r] = IF f[r].at \in {"reply", "normalise"} THEN [f[r] EXCEPT !.raced = TRUE] ELSE f[r]
  BY DEF Raced
<1>2. CASE f[r].at \in {"reply", "normalise"}
  BY <1>1, <1>2 DEF HasCallFields, Fields
<1>3. CASE f[r].at \notin {"reply", "normalise"}
  BY <1>1, <1>3
<1> QED BY <1>2, <1>3

LEMMA RoomEnds ==
  ASSUME CallsTyped, NEW s \in Slots, calls' = End(s) \/ calls' = Raced(End(s))
  PROVE  /\ CallsTyped' /\ Others(s) /\ calls'[s] = Idle
         /\ calls' = Raced(End(s)) => \A r \in Slots : calls'[r].at \in {"reply", "normalise"} => calls'[r].raced
<1>1. HasCallFields(Idle)
  BY DEF Idle, HasCallFields, Fields
<1>2. /\ DOMAIN End(s) = Slots /\ \A r \in Slots : HasCallFields(End(s)[r])
      /\ End(s)[s] = Idle
  BY <1>1 DEF End, CallsTyped
<1>3. CallsTyped' /\ Others(s)
  BY <1>1, OneCall DEF End
<1>4. CASE calls' = End(s)
  <2>1. \A r \in Slots : calls' = Raced(End(s)) => (calls'[r].at \in {"reply", "normalise"} => calls'[r].raced)
    BY <1>2, RacedTells
  <2> QED BY <1>2, <1>3, <1>4, <2>1
<1>5. CASE calls' = Raced(End(s))
  BY <1>2, <1>3, <1>5, RacedTells, IdleFields
<1> QED BY <1>4, <1>5

LEMMA EndInRoom ==
  ASSUME RoomInv, NEW s \in Slots, Others(s), calls'[s] = Idle,
         DOMAIN room' = RoomFields, DOMAIN title' = {"name", "pending", "saved"},
         title'.pending \in BOOLEAN, title'.saved \in BOOLEAN,
         title'.name = "user" => title.name = "user" /\ ~title'.pending /\ ~title'.saved,
         \/ room' = room /\ tools' = tools
         \/ \A r \in Slots : calls'[r].at \in {"reply", "normalise"} => calls'[r].raced
  PROVE  RoomInv'
<1>1. calls'[s].at = "idle" /\ calls'[s].op = "idle"
  BY IdleFields
<1> QED BY <1>1, OneRoomStep DEF RunSteps, AuthLocked

\* Names for what RoomInv says of the title and of the room.
LEMMA RoomTypes ==
  ASSUME RoomInv
  PROVE  /\ DOMAIN room = RoomFields /\ DOMAIN title = {"name", "pending", "saved"}
         /\ title.pending \in BOOLEAN /\ title.saved \in BOOLEAN
         /\ title.name = "user" => ~title.pending /\ ~title.saved
BY DEF RoomInv, NameInv

LEMMA CommandInRoom ==
  ASSUME CallsTyped, RoomInv, NEW op \in {"model", "reasoning", "mode", "search", "fetch"}, NEW p, NEW w,
         op = "reasoning" => w # "", Command(op, p, w)
  PROVE  RoomInv'
<1> DEFINE c == [Idle EXCEPT !.op = op, !.at = "reply", !.pid = p, !.word = w,
                             !.seen = [room |-> room, tools |-> tools]]
<1>1. HasCallFields(c) /\ c.op = op /\ c.at = "reply" /\ c.word = w
  BY DEF Idle, HasCallFields, Fields
<1>2. c.seen.room = room /\ c.seen.tools = tools
  BY DEF Idle
<1>3. Begins(c) /\ UNCHANGED <<room, tools, title>>
  BY DEF Command
<1> HIDE DEF c
<1>4. PICK s \in Slots : CallsTyped' /\ Others(s) /\ calls'[s] = c
  BY <1>1, <1>3, RoomBegins
<1> QED BY <1>1, <1>2, <1>3, <1>4, OneRoomStep, RoomTypes DEF RunSteps, AuthLocked

LEMMA PromptInRoom ==
  ASSUME CallsTyped, RoomInv, Prompt
  PROVE  RoomInv'
<1> DEFINE c == [Idle EXCEPT !.op = "prompt", !.at = "normalise", !.seen = [room |-> room, tools |-> tools]]
<1>1. HasCallFields(c) /\ c.op = "prompt" /\ c.at = "normalise"
  BY DEF Idle, HasCallFields, Fields
<1>2. c.seen.room = room /\ c.seen.tools = tools
  BY DEF Idle
<1>3. Begins(c) /\ UNCHANGED <<room, tools, title>>
  BY DEF Prompt
<1> HIDE DEF c
<1>4. PICK s \in Slots : CallsTyped' /\ Others(s) /\ calls'[s] = c
  BY <1>1, <1>3, RoomBegins
<1> QED BY <1>1, <1>2, <1>3, <1>4, OneRoomStep, RoomTypes DEF RunSteps, AuthLocked

LEMMA CanonicalTyped == ASSUME NEW r  PROVE DOMAIN Canonical(r) = RoomFields
BY DEF Canonical, Setting, RoomFields

LEMMA NewChatInRoom ==
  ASSUME CallsTyped, RoomInv, NEW p, NEW m, NewChat(p, m)
  PROVE  RoomInv'
<1> DEFINE r0 == Canonical(Setting(p, m, "", ""))
           c == [Idle EXCEPT !.op = "chat", !.at = "chat", !.seen = [room |-> r0, tools |-> tools]]
<1>1. HasCallFields(c) /\ c.op = "chat" /\ c.at = "chat"
  BY DEF Idle, HasCallFields, Fields
<1>2. DOMAIN c.seen.room = RoomFields
  <2>1. DOMAIN r0 = RoomFields
    BY CanonicalTyped
  <2> HIDE DEF r0
  <2> QED BY <2>1 DEF Idle
<1>3. Begins(c) /\ UNCHANGED <<room, tools>> /\ title' = [name |-> "default", pending |-> TRUE, saved |-> TRUE]
  BY DEF NewChat
<1> HIDE DEF c
<1>4. PICK s \in Slots : CallsTyped' /\ Others(s) /\ calls'[s] = c
  BY <1>1, <1>3, RoomBegins
<1>5. /\ DOMAIN title' = {"name", "pending", "saved"} /\ title'.pending \in BOOLEAN /\ title'.saved \in BOOLEAN
      /\ title'.name # "user"
  BY <1>3
<1> QED BY <1>1, <1>2, <1>3, <1>4, <1>5, OneRoomStep, RoomTypes DEF RunSteps, AuthLocked

LEMMA AnswersInRoom ==
  ASSUME CallsTyped, RoomInv, NEW s \in Slots, AnswerModel(s) \/ AnswerTools(s) \/ ChatWritten(s)
  PROVE  RoomInv'
<1>1. /\ calls' = End(s) \/ calls' = Raced(End(s))
      /\ (room' = room /\ tools' = tools) \/ calls' = Raced(End(s))
      /\ title' = title
  BY DEF AnswerModel, AnswerTools, ChatWritten
<1>2. DOMAIN room' = RoomFields
  <2>1. CASE AnswerModel(s)
    <3>1. room' = room \/ room' = Canonical(Target(s))
      BY <2>1 DEF AnswerModel
    <3> QED BY <3>1, CanonicalTyped, RoomTypes
  <2>2. CASE AnswerTools(s)
    BY <2>2, RoomTypes DEF AnswerTools
  <2>3. CASE ChatWritten(s)
    BY <2>3 DEF ChatWritten, At, RoomInv, RunInv
  <2> QED BY <2>1, <2>2, <2>3
<1>3. /\ Others(s) /\ calls'[s] = Idle
      /\ calls' = Raced(End(s)) => \A r \in Slots : calls'[r].at \in {"reply", "normalise"} => calls'[r].raced
  BY <1>1, RoomEnds
<1> QED BY <1>1, <1>2, <1>3, EndInRoom, RoomTypes

LEMMA TitlesInRoom ==
  ASSUME CallsTyped, RoomInv, NEW s \in Slots, Titled(s) \/ TitleUnsaved(s)
  PROVE  RoomInv'
<1>1. calls' = End(s) /\ UNCHANGED <<room, tools>>
  BY DEF Titled, TitleUnsaved
<1>2. /\ DOMAIN title' = {"name", "pending", "saved"} /\ title'.pending \in BOOLEAN /\ title'.saved \in BOOLEAN
      /\ title'.name = "user" => title.name = "user" /\ ~title'.pending /\ ~title'.saved
  <2>1. CASE Titled(s)
    <3>1. PICK name \in Titles : title' = IF name = "" THEN title ELSE [name |-> name, pending |-> FALSE, saved |-> FALSE]
      BY <2>1 DEF Titled
    <3>2. name # "user"
      BY DEF Titles
    <3> QED BY <3>1, <3>2, RoomTypes
  <2>2. CASE TitleUnsaved(s)
    <3>1. title' = [title EXCEPT !.pending = FALSE]
      BY <2>2 DEF TitleUnsaved
    <3> QED BY <3>1, RoomTypes
  <2> QED BY <2>1, <2>2
<1>3. Others(s) /\ calls'[s] = Idle
  BY <1>1, RoomEnds
<1> QED BY <1>1, <1>2, <1>3, EndInRoom, RoomTypes

LEMMA AskTitleInRoom ==
  ASSUME CallsTyped, RoomInv, NEW s \in Slots, AskTitle(s)
  PROVE  RoomInv'
<1> DEFINE c == [Idle EXCEPT !.op = "title", !.at = "auth", !.pid = calls[s].pid,
                             !.cfg = calls[s].cfg, !.word = TitleModel(s)]
<1>1. /\ HasCallFields(c) /\ c.op = "title" /\ c.at = "auth" /\ c.pid = calls[s].pid /\ c.cfg = calls[s].cfg
      /\ c.word = TitleModel(s)
  BY DEF Idle, HasCallFields, Fields
<1>2. calls' = [calls EXCEPT ![s] = c] /\ UNCHANGED <<room, tools, title>>
  BY DEF AskTitle
<1>3. calls[s].op = "run" /\ title.pending
  BY DEF AskTitle
<1> HIDE DEF c
<1>4. Others(s) /\ calls'[s] = c
  BY <1>1, <1>2, OneCall DEF CallsTyped
<1>5. TitleModel(s) \in Offers(calls[s].pid, calls[s].cfg)
  BY <1>3, FitsMeans DEF RoomInv, RunFits, TitleModel
<1>6. RunFits(s)'
  BY <1>1, <1>4, <1>5 DEF RunFits
<1>7. title.name # "user"
  BY <1>3, RoomTypes
<1> QED BY <1>1, <1>2, <1>4, <1>6, <1>7, OneRoomStep, RoomTypes DEF RunSteps, AuthLocked

LEMMA NormaliseInRoom ==
  ASSUME CallsTyped, RoomInv, NEW s \in Slots, Normalise(s)
  PROVE  RoomInv'
<1> DEFINE r0 == calls[s].seen.room
           seen == [room |-> Canonical(r0), tools |-> calls[s].seen.tools]
           c == [calls[s] EXCEPT !.at = "start", !.raced = FALSE, !.seen = seen]
           f == [calls EXCEPT ![s] = c]
<1>1. /\ calls[s].at = "normalise" /\ UNCHANGED <<tools, title>>
      /\ \/ calls' = End(s) /\ room' = room
         \/ calls' = f /\ room' = room
         \/ calls' = Raced(f) /\ room' = Canonical(r0)
  BY DEF Normalise, At, CallsTyped
<1>2. CASE calls' = End(s) /\ room' = room
  BY <1>1, <1>2, RoomEnds, EndInRoom, RoomTypes
<1>3. HasCallFields(c) /\ c.at = "start" /\ c.op = calls[s].op /\ c.seen = seen
  BY DEF CallsTyped, HasCallFields, Fields
<1>4. Canonical(r0).level # ""
  <2>1. Canonical(r0).level = LevelOf(r0, ModelOf(r0))
    BY DEF Canonical, Setting
  <2> QED BY <2>1, DefaultIsALevel DEF LevelOf
<1>5. c.seen.room.level # ""
  <2>1. seen.room = Canonical(r0)
    OBVIOUS
  <2> HIDE DEF c, seen, r0
  <2> QED BY <1>3, <1>4, <2>1
<1>6. c.op \notin {"run", "title"}
  BY <1>1, <1>3 DEF RoomInv, RunInv, RunSteps, AuthLocked
<1>7. DOMAIN Canonical(r0) = RoomFields
  BY CanonicalTyped
<1>8. /\ DOMAIN f = Slots /\ f[s] = c /\ \A r \in Slots : HasCallFields(f[r])
  <2> HIDE DEF c
  <2> QED BY <1>3 DEF CallsTyped
<1> HIDE DEF c, seen, r0
<1>9. CASE calls' = f /\ room' = room
  <2>1. Others(s) /\ calls'[s] = c
    BY <1>3, <1>8, <1>9, OneCall
  <2> QED BY <1>1, <1>3, <1>5, <1>6, <1>9, <2>1, OneRoomStep, RoomTypes DEF RunSteps, AuthLocked
<1>10. CASE calls' = Raced(f) /\ room' = Canonical(r0)
  <2>1. Others(s)
    BY <1>3, <1>10, OneCall
  <2>2. /\ calls'[s] = c
        /\ \A r \in Slots : calls'[r].at \in {"reply", "normalise"} => calls'[r].raced
    BY <1>3, <1>8, <1>10, RacedTells
  <2> QED BY <1>1, <1>3, <1>5, <1>6, <1>7, <1>10, <2>1, <2>2, OneRoomStep, RoomTypes DEF RunSteps, AuthLocked
<1> QED BY <1>1, <1>2, <1>9, <1>10

LEMMA StartInRoom ==
  ASSUME CallsTyped, RoomInv, NEW s \in Slots, Start(s)
  PROVE  RoomInv'
<1> DEFINE r0 == calls[s].seen.room
           m == ModelOf(r0)
           p == ProviderOf(r0)
           modes == [use \in {"search", "fetch"} |-> ToolMode(calls[s].seen.tools[use])]
           run == [level |-> r0.level, modes |-> modes, bridge |-> BridgeTools(Traits(m), modes, p),
                   native |-> BuiltIns(Traits(m), modes), header |-> FetchHeader(Traits(m), modes)]
           c == RunOf(s, m)
<1>1. /\ calls[s].at = "start" /\ UNCHANGED <<room, tools, title>>
      /\ calls' = End(s) \/ (Valid(r0) /\ calls' = [calls EXCEPT ![s] = c])
  BY DEF Start, At
<1>2. CASE calls' = End(s)
  BY <1>1, <1>2, RoomEnds, EndInRoom, RoomTypes
<1>3. HasCallFields(c) /\ c.at = "auth" /\ c.op = "run" /\ c.pid = p /\ c.cfg = Login[p] /\ c.word = m
  BY DEF RunOf, Idle, HasCallFields, Fields
<1>4. c.seen = run
  BY DEF RunOf, Idle
<1>5. CASE Valid(r0) /\ calls' = [calls EXCEPT ![s] = c]
  <2>1. m \in Offers(p, Login[p]) /\ r0.level \in Levels(m)
    <3>1. m # "" /\ m = ModelID(p, r0.m)
      BY <1>5 DEF Valid, ModelOf
    <3>2. r0.level # ""
      BY <1>1 DEF RoomInv, RunInv
    <3> QED BY <1>5, <3>1, <3>2, ModelIDOffered DEF Valid
  <2>2. Others(s) /\ calls'[s] = c
    <3> HIDE DEF c
    <3> QED BY <1>3, <1>5, OneCall DEF CallsTyped
  <2>3. /\ run.bridge \intersect run.native = {}
        /\ \A use \in {"search", "fetch"} : run.modes[use] = "off" => use \notin run.bridge \union run.native
        /\ run.header = ("fetch" \in run.native /\ Traits(m).api = "anthropic")
    <3> HIDE DEF m, p, r0
    <3>1. /\ run.bridge = BridgeTools(Traits(m), modes, p) /\ run.native = BuiltIns(Traits(m), modes)
          /\ run.modes = modes /\ run.header = FetchHeader(Traits(m), modes)
      OBVIOUS
    <3>2. /\ DOMAIN modes = {"search", "fetch"} /\ modes.fetch = modes["fetch"]
      OBVIOUS
    <3> HIDE DEF run, modes
    <3>3. \A use \in BridgeTools(Traits(m), modes, p) : modes[use] = "beeper"
      BY DEF BridgeTools
    <3>4. \A use \in BuiltIns(Traits(m), modes) : modes[use] = "native"
      BY DEF BuiltIns
    <3>5. FetchHeader(Traits(m), modes) = ("fetch" \in BuiltIns(Traits(m), modes) /\ Traits(m).api = "anthropic")
      BY <3>2 DEF FetchHeader, BuiltIns
    <3> QED BY <3>1, <3>3, <3>4, <3>5
  <2>4. run.level = r0.level
    OBVIOUS
  <2> HIDE DEF run, c, m, p, r0
  <2>5. RunFits(s)'
    BY <1>3, <1>4, <2>1, <2>2, <2>3, <2>4 DEF RunFits, ToolsAreTheRooms
  <2> QED BY <1>1, <1>3, <2>2, <2>5, OneRoomStep, RoomTypes DEF RunSteps, AuthLocked
<1> QED BY <1>1, <1>2, <1>5

\* A call that stays where it is, with what it has read, keeps to its kind.
LEMMA RunInvStays ==
  ASSUME RunInv,
         \A s \in Slots : /\ calls'[s].op = calls[s].op /\ calls'[s].at = calls[s].at
                         /\ calls'[s].seen = calls[s].seen /\ calls'[s].word = calls[s].word
  PROVE  RunInv'
<1>1. ASSUME NEW s \in Slots
      PROVE  /\ calls'[s].op \in {"run", "title"} <=> calls'[s].at \in RunSteps
             /\ calls'[s].at = "start" => calls'[s].seen.room.level # ""
             /\ calls'[s].at = "chat" => DOMAIN calls'[s].seen.room = RoomFields
             /\ calls'[s].at = "reply" /\ calls'[s].op = "reasoning" => calls'[s].word # ""
  BY DEF RunInv
<1> QED BY <1>1 DEF RunInv

LEMMA EditsInRoom ==
  ASSUME CallsTyped, RoomInv, ClientEdits \/ Rename \/ Restart
  PROVE  RoomInv'
<1>1. CASE ClientEdits
  <2>1. calls' = Raced(calls) /\ title' = title /\ DOMAIN room' = RoomFields
    <3>1. room' = room \/ room' \in {Setting("", "deep", "", ""), Setting("custom", "fast", "", ""),
                                     Setting("chatgpt", "auto", "low", "default")}
      BY <1>1 DEF ClientEdits
    <3>2. \A p, m, level, mode : DOMAIN Setting(p, m, level, mode) = RoomFields
      BY DEF Setting, RoomFields
    <3> QED BY <1>1, <3>1, <3>2, RoomTypes DEF ClientEdits
  <2>2. \A r \in Slots : /\ calls'[r].at \in {"reply", "normalise"} => calls'[r].raced
                         /\ calls[r].at \notin {"reply", "normalise"} => calls'[r] = calls[r]
    BY <2>1, RacedTells DEF CallsTyped
  <2>3. \A r \in Slots : SameCall(calls'[r], calls[r])
    BY <2>1, RacedCall DEF CallsTyped, Raced
  <2>4. RunInv'
    <3>1. \A r \in Slots : calls'[r].op = calls[r].op /\ calls'[r].at = calls[r].at
                           /\ calls'[r].seen = calls[r].seen /\ calls'[r].word = calls[r].word
      BY <2>3 DEF SameCall
    <3> QED BY <3>1, RunInvStays DEF RoomInv
  <2>5. RunsFitTheirModel'
    <3>1. ASSUME NEW r \in Slots, calls'[r].op \in {"run", "title"}  PROVE RunFits(r)'
      BY <2>3, <3>1, FitsMeans, FitsStay DEF SameCall, RoomInv
    <3> QED BY <3>1 DEF RunsFitTheirModel, RunFits
  <2>6. NameInv'
    BY <2>1, <2>3 DEF RoomInv, NameInv, SameCall
  <2>7. SeenInv'
    BY <2>2 DEF SeenInv
  <2> QED BY <2>1, <2>4, <2>5, <2>6, <2>7, RoomTypes DEF RoomInv
<1>2. CASE Rename
  <2>1. /\ calls' = Overtaken /\ UNCHANGED <<room, tools>>
        /\ title' = [name |-> "user", pending |-> FALSE, saved |-> FALSE]
    BY <1>2 DEF Rename
  <2>2. ASSUME NEW r \in Slots
        PROVE  SameCall(calls'[r], calls[r]) /\ (calls'[r].op = "title" => calls'[r].raced)
    <3>1. calls'[r] = IF calls[r].op = "title" THEN [calls[r] EXCEPT !.raced = TRUE] ELSE calls[r]
      BY <2>1 DEF Overtaken
    <3>2. calls[r].op = "title" => calls'[r].raced
      BY <3>1 DEF CallsTyped, HasCallFields, Fields
    <3> QED BY <3>1, <3>2, RacedCall DEF CallsTyped
  <2>3. RunInv' /\ SeenInv'
    <3>1. \A r \in Slots : /\ calls'[r].op = calls[r].op /\ calls'[r].at = calls[r].at
                           /\ calls'[r].seen = calls[r].seen /\ calls'[r].word = calls[r].word
                           /\ calls[r].raced => calls'[r].raced
                           /\ calls'[r].op = "title" => calls'[r].raced
      BY <2>2 DEF SameCall
    <3>2. RunInv'
      BY <3>1, RunInvStays DEF RoomInv
    <3>3. SeenInv'
      BY <2>1, <3>1 DEF RoomInv, SeenInv
    <3> QED BY <3>2, <3>3
  <2>6. RunsFitTheirModel'
    <3>1. ASSUME NEW r \in Slots, calls'[r].op \in {"run", "title"}  PROVE RunFits(r)'
      BY <2>2, <3>1, FitsMeans, FitsStay DEF SameCall, RoomInv
    <3> QED BY <3>1 DEF RunsFitTheirModel, RunFits
  <2>7. NameInv' /\ DOMAIN title' = {"name", "pending", "saved"} /\ title'.pending \in BOOLEAN /\ title'.saved \in BOOLEAN
    BY <2>1, <2>2 DEF NameInv
  <2> QED BY <2>1, <2>3, <2>6, <2>7, RoomTypes DEF RoomInv
<1>3. CASE Restart
  <2>1. calls' = StartUp /\ UNCHANGED <<room, tools>> /\ title' \in {title, [title EXCEPT !.pending = title.saved]}
    BY <1>3 DEF Restart, Crash
  <2>2. \A s \in Slots : calls'[s].at \in {"idle", "look"} /\ calls'[s].op \in {"idle", "list"}
    BY <2>1, StartUpCalls
  <2>3. RunInv' /\ SeenInv'
    BY <2>2 DEF RunInv, SeenInv, RunSteps, AuthLocked
  <2>4. RunsFitTheirModel'
    BY <2>2 DEF RunsFitTheirModel
  <2>5. NameInv' /\ DOMAIN title' = {"name", "pending", "saved"} /\ title'.pending \in BOOLEAN /\ title'.saved \in BOOLEAN
    BY <2>1, <2>2, RoomTypes DEF NameInv
  <2> QED BY <2>1, <2>3, <2>4, <2>5, RoomTypes DEF RoomInv
<1> QED BY <1>1, <1>2, <1>3

LEMMA RoomInit == Init => RoomInv
<1> SUFFICES ASSUME Init  PROVE RoomInv
  OBVIOUS
<1>1. calls = StartUp /\ room = Unset /\ title = [name |-> "default", pending |-> FALSE, saved |-> FALSE]
  BY DEF Init, PInit
<1>2. \A s \in Slots : calls[s].at \in {"idle", "look"} /\ calls[s].op \in {"idle", "list"}
  BY <1>1, StartUpCalls
<1>3. RunInv /\ SeenInv
  BY <1>2 DEF RunInv, SeenInv, RunSteps, AuthLocked
<1>4. RunsFitTheirModel
  BY <1>2 DEF RunsFitTheirModel
<1>5. NameInv /\ DOMAIN title = {"name", "pending", "saved"} /\ title.pending \in BOOLEAN /\ title.saved \in BOOLEAN
  BY <1>1 DEF NameInv
<1>6. DOMAIN room = RoomFields
  BY <1>1 DEF Unset, RoomFields
<1> QED BY <1>3, <1>4, <1>5, <1>6 DEF RoomInv

LEMMA RoomNext == IInv /\ RoomInv /\ [Next]_vars => RoomInv'
<1> SUFFICES ASSUME IInv, RoomInv, [Next]_vars  PROVE RoomInv'
  OBVIOUS
<1> CallsTyped
  BY DEF IInv, TypeInv
<1>1. CASE UNCHANGED vars
  <2>1. calls' = calls /\ UNCHANGED <<room, tools, title>>
    BY <1>1 DEF vars, pvars
  <2> QED BY <2>1, LoginStepKeepsRoom DEF LoginStep, SameRun, CallsTyped, HasCallFields
<1>2. CASE PNext /\ UNCHANGED <<room, tools, title>>
  <2>1. RunInv
    BY DEF RoomInv
  <2> QED BY <1>2, <2>1, ProviderStep, LoginStepKeepsRoom
<1>3. ASSUME NEW ref \in {<<"", "deep">>, <<"custom", "deep">>, <<"chatgpt", "auto">>},
             Command("model", ref[1], ref[2])
      PROVE  RoomInv'
  <2>1. \E p, w : Command("model", p, w)
    BY <1>3
  <2> QED BY <2>1, CommandInRoom
<1>4. CASE \/ \E level \in {"off", "low"} : Command("reasoning", "", level)
           \/ Command("mode", "", "adaptive")
           \/ \E op \in {"search", "fetch"} : Command(op, "", "native")
  BY <1>4, CommandInRoom
<1>5. CASE Prompt \/ NewChat("custom", "lab/fast")
  BY <1>5, PromptInRoom, NewChatInRoom
<1>6. CASE ClientEdits \/ Rename \/ Restart
  BY <1>6, EditsInRoom
<1>7. ASSUME NEW s \in Slots, AnswerModel(s) \/ AnswerTools(s) \/ ChatWritten(s)  PROVE RoomInv'
  BY <1>7, AnswersInRoom
<1>8. ASSUME NEW s \in Slots, Normalise(s) \/ Start(s) \/ AskTitle(s)  PROVE RoomInv'
  BY <1>8, NormaliseInRoom, StartInRoom, AskTitleInRoom
<1>9. ASSUME NEW s \in Slots, Titled(s) \/ TitleUnsaved(s)  PROVE RoomInv'
  BY <1>9, TitlesInRoom
<1> QED BY <1>1, <1>2, <1>3, <1>4, <1>5, <1>6, <1>7, <1>8, <1>9 DEF Next

\* A run calls a model its provider offers, at a level the model has, and searches and
\* fetches in one way each, the room's, whatever was written since its prompt read the
\* settings (handleMatrixMessageWithConfig, chatTools).
THEOREM RunsFit == Spec => []RunsFitTheirModel
<1>1. Spec => [](IInv /\ RoomInv)
  BY InitInv, RoomInit, NextInv, RoomNext, PTL DEF Spec
<1>2. RoomInv => RunsFitTheirModel
  BY DEF RoomInv
<1> QED BY <1>1, <1>2, PTL

-----------------------------------------------------------------------------
(* What a step does to the settings and to the name. *)

\* A name the user gave the room stays, unless a title was already being generated
\* (generateSessionTitle looks at AutoTitlePending once, HandleMatrixRoomName resets it).
THEOREM NamesAreKept == Spec => NamesStay
<1> DEFINE A == title.name = "user" /\ title'.name # "user" => \E s \in Slots : calls[s].op = "title" /\ calls[s].raced
<1>1. RoomInv /\ [Next]_vars => [A]_vars
  <2> SUFFICES ASSUME RoomInv, Next, title.name = "user", title'.name # "user"
               PROVE  \E s \in Slots : calls[s].op = "title" /\ calls[s].raced
    OBVIOUS
  <2>1. ~UNCHANGED title
    OBVIOUS
  <2>2. ~(\E s \in Slots : TitleUnsaved(s)) /\ ~Rename /\ ~Restart
    BY RoomTypes DEF TitleUnsaved, Rename, Restart
  <2>3. ~NewChat("custom", "lab/fast")
    BY DEF NewChat
  <2>4. ~Prompt /\ ~ClientEdits /\ ~(\E op, p, w : Command(op, p, w))
    BY <2>1 DEF Prompt, ClientEdits, Command
  <2>5. ~\E s \in Slots : AnswerModel(s) \/ AnswerTools(s) \/ Normalise(s) \/ Start(s) \/ ChatWritten(s) \/ AskTitle(s)
    BY <2>1 DEF AnswerModel, AnswerTools, Normalise, Start, ChatWritten, AskTitle
  <2>6. \E s \in Slots : Titled(s)
    BY <2>1, <2>2, <2>3, <2>4, <2>5 DEF Next
  <2> QED BY <2>6 DEF Titled, RoomInv, NameInv
<1>2. Spec => [](IInv /\ RoomInv)
  BY InitInv, RoomInit, NextInv, RoomNext, PTL DEF Spec
<1>3. Spec => [][A]_vars
  BY <1>1, <1>2, PTL DEF Spec
<1> QED BY <1>3 DEF NamesStay

\* The canonical form of a setting means what the setting means.
LEMMA CanonicalMeans ==
  ASSUME NEW t, Valid(t)
  PROVE  /\ Valid(Canonical(t)) /\ Meaning(Canonical(t)) = Meaning(t)
<1> DEFINE q == Canonical(t)
           m == ModelOf(t)
<1>1. q.p = ProviderOf(t) /\ q.m = m /\ q.level = LevelOf(t, m) /\ q.mode = ModeOf(t, m)
  BY DEF Canonical, Setting
<1> HIDE DEF q
<1>2. ProviderOf(q) = ProviderOf(t)
  BY <1>1 DEF ProviderOf
<1>3. m # "" /\ ProviderOf(t) \in DOMAIN Login /\ m = ModelID(ProviderOf(t), t.m)
  BY DEF Valid, ModelOf
<1> HIDE DEF m
<1>4. ModelOf(q) = m
  <2>1. ModelOf(q) = ModelID(ProviderOf(t), q.m)
    BY <1>2, <1>3 DEF ModelOf
  <2>2. ModelID(ProviderOf(t), m) = m
    BY <1>3, ModelIDOffered
  <2> QED BY <1>1, <2>1, <2>2
<1>5. LevelOf(t, m) \in Levels(m) /\ LevelOf(t, m) # ""
  BY DefaultIsALevel DEF LevelOf, Valid, m
<1>6. LevelOf(q, m) = LevelOf(t, m)
  BY <1>1, <1>5 DEF LevelOf
<1>7. q.mode \notin {"", "default"} => q.mode = ModelMode(m)
  BY <1>1 DEF ModeOf, Valid, m
<1>8. Valid(q)
  BY <1>1, <1>3, <1>4, <1>5, <1>7 DEF Valid
<1>9. Meaning(q) = Meaning(t)
  BY <1>2, <1>4, <1>6, <1>8 DEF Meaning, m
<1> QED BY <1>8, <1>9 DEF q

\* What a command that is not overtaken makes of the settings.
KeepsTheRest(s) ==
  /\ calls[s].op = "model" /\ room' # room /\ room.level # "" => room'.level = room.level
  /\ calls[s].op \in {"reasoning", "mode"} /\ room' # room /\ Valid(room) =>
       Meaning(room') = [Meaning(room) EXCEPT !.level = IF calls[s].op = "reasoning" THEN calls[s].word ELSE @]
  /\ calls[s].op = "search" => ToolMode(tools'.fetch) = ToolMode(tools.fetch)
  /\ calls[s].op = "fetch" => ToolMode(tools'.search) = ToolMode(tools.search)

LEMMA ModelAnswerKeepsTheRest ==
  ASSUME RoomInv, NEW s \in Slots, AnswerModel(s), ~calls[s].raced
  PROVE  KeepsTheRest(s)
<1> DEFINE t == Target(s)
           w == calls[s].word
<1>1. calls[s].at = "reply" /\ calls[s].op \in {"model", "reasoning", "mode"} /\ tools' = tools
  BY DEF AnswerModel, At
<1>2. calls[s].seen.room = room
  BY <1>1 DEF RoomInv, SeenInv
<1>3. room' = room \/ (Valid(t) /\ room' = Canonical(t))
  BY DEF AnswerModel
<1>4. CASE room' = room
  BY <1>1, <1>4 DEF KeepsTheRest
<1>5. CASE Valid(t) /\ room' = Canonical(t)
  <2>1. CASE calls[s].op = "model"
    <3>1. t.level = room.level
      BY <1>2, <2>1 DEF Target, Setting
    <3>2. room'.level = LevelOf(t, ModelOf(t))
      BY <1>5 DEF Canonical, Setting
    <3>3. room.level # "" => room'.level = room.level
      BY <3>1, <3>2 DEF LevelOf
    <3> QED BY <2>1, <3>3 DEF KeepsTheRest
  <2>2. CASE calls[s].op \in {"reasoning", "mode"}
    <3>1. t = IF calls[s].op = "reasoning" THEN [room EXCEPT !.level = w] ELSE [room EXCEPT !.mode = w]
      BY <1>2, <2>2 DEF Target
    <3>2. /\ t.p = room.p /\ t.m = room.m
          /\ t.level = IF calls[s].op = "reasoning" THEN w ELSE room.level
      BY <3>1, RoomTypes DEF RoomFields
    <3> HIDE DEF t
    <3>3. ProviderOf(t) = ProviderOf(room) /\ ModelOf(t) = ModelOf(room)
      BY <3>2 DEF ProviderOf, ModelOf
    <3>4. LevelOf(t, ModelOf(t)) = IF calls[s].op = "reasoning" THEN w ELSE LevelOf(room, ModelOf(room))
      <4>1. calls[s].op = "reasoning" => w # ""
        BY <1>1 DEF RoomInv, RunInv
      <4> QED BY <3>2, <3>3, <4>1 DEF LevelOf
    <3>5. Meaning(room') = Meaning(t)
      BY <1>5, CanonicalMeans
    <3>6. Meaning(t) = [p |-> ProviderOf(t), m |-> ModelOf(t), level |-> LevelOf(t, ModelOf(t))]
      BY <1>5 DEF Meaning
    <3>7. Valid(room) => Meaning(room) = [p |-> ProviderOf(room), m |-> ModelOf(room), level |-> LevelOf(room, ModelOf(room))]
      BY DEF Meaning
    <3>8. Valid(room) => Meaning(t) = [Meaning(room) EXCEPT !.level = IF calls[s].op = "reasoning" THEN w ELSE @]
      BY <2>2, <3>3, <3>4, <3>6, <3>7
    <3> QED BY <2>2, <3>5, <3>8 DEF KeepsTheRest
  <2> QED BY <1>1, <2>1, <2>2
<1> QED BY <1>3, <1>4, <1>5

LEMMA ToolsAnswerKeepsTheRest ==
  ASSUME RoomInv, NEW s \in Slots, AnswerTools(s), ~calls[s].raced
  PROVE  KeepsTheRest(s)
<1>1. calls[s].at = "reply" /\ calls[s].op \in {"search", "fetch"} /\ room' = room /\ tools' = ToolsAfter(s)
  BY DEF AnswerTools, At
<1>2. calls[s].seen.tools = tools
  BY <1>1 DEF RoomInv, SeenInv
<1>3. calls[s].op = "search" => tools'.fetch = ToolMode(tools.fetch)
  BY <1>1, <1>2 DEF ToolsAfter
<1>4. calls[s].op = "fetch" => tools'.search = ToolMode(tools.search)
  BY <1>1, <1>2 DEF ToolsAfter
<1> QED BY <1>1, <1>3, <1>4 DEF KeepsTheRest, ToolMode

\* When nobody wrote the settings since it read them, a command changes only what it names
\* of what they mean (writeRoomModelState and toolModeStateContent write the whole state).
THEOREM SettingsAreKept == Spec => SettingsKeepTheRest
<1>1. ASSUME CallsTyped, RoomInv, Next, NEW s \in Slots, Answers(s)
      PROVE  KeepsTheRest(s)
  <2>1. calls[s].at = "reply" /\ ~calls[s].raced /\ calls'[s].at = "idle"
    BY <1>1, IdleFields DEF Answers, At
  <2>2. ASSUME UNCHANGED <<room, tools>>  PROVE KeepsTheRest(s)
    BY <2>2 DEF KeepsTheRest
  <2>3. ASSUME NEW r \in Slots, Others(r)  PROVE r = s
    BY <2>1, <2>3 DEF Others, SameCall
  <2>4. ASSUME NEW r \in Slots, AnswerModel(r) \/ AnswerTools(r)  PROVE KeepsTheRest(s)
    <3>1. calls' = End(r) \/ calls' = Raced(End(r))
      BY <2>4 DEF AnswerModel, AnswerTools
    <3>2. r = s
      BY <1>1, <2>3, <3>1, RoomEnds
    <3> QED BY <1>1, <2>1, <2>4, <3>2, ModelAnswerKeepsTheRest, ToolsAnswerKeepsTheRest
  <2>5. ASSUME NEW r \in Slots, ChatWritten(r)  PROVE FALSE
    <3>1. calls' = Raced(End(r)) /\ calls[r].at = "chat"
      BY <2>5 DEF ChatWritten, At
    <3>2. r = s
      BY <1>1, <2>3, <3>1, RoomEnds
    <3> QED BY <2>1, <3>1, <3>2
  <2>6. ASSUME NEW r \in Slots, Normalise(r)  PROVE KeepsTheRest(s)
    <3> DEFINE c == [calls[r] EXCEPT !.at = "start", !.raced = FALSE,
                       !.seen = [room |-> Canonical(calls[r].seen.room), tools |-> calls[r].seen.tools]]
    <3>1. /\ calls[r].at = "normalise"
          /\ calls' = End(r) \/ calls' = [calls EXCEPT ![r] = c] \/ calls' = Raced([calls EXCEPT ![r] = c])
      BY <1>1, <2>6 DEF Normalise, At, CallsTyped
    <3>2. HasCallFields(c)
      BY <1>1 DEF CallsTyped, HasCallFields, Fields
    <3>3. Others(r)
      <4> HIDE DEF c
      <4> QED BY <1>1, <3>1, <3>2, RoomEnds, OneCall
    <3> QED BY <2>1, <2>3, <3>1, <3>3
  <2>7. CASE ClientEdits
    <3>1. calls' = Raced(calls)
      BY <2>7 DEF ClientEdits
    <3>2. SameCall(calls'[s], calls[s])
      BY <1>1, <3>1, RacedCall DEF CallsTyped, Raced
    <3> QED BY <2>1, <3>2 DEF SameCall
  <2>8. CASE \/ PNext /\ UNCHANGED <<room, tools, title>>
             \/ \E op, p, w : Command(op, p, w)
             \/ Prompt \/ NewChat("custom", "lab/fast") \/ Rename \/ Restart
             \/ \E r \in Slots : Start(r) \/ AskTitle(r) \/ Titled(r) \/ TitleUnsaved(r)
    <3>1. UNCHANGED <<room, tools>>
      BY <2>8 DEF Command, Prompt, NewChat, Rename, Restart, Start, AskTitle, Titled, TitleUnsaved
    <3> QED BY <2>2, <3>1
  <2> QED BY <1>1, <2>4, <2>5, <2>6, <2>7, <2>8 DEF Next
<1>2. Spec => [](IInv /\ RoomInv)
  BY InitInv, RoomInit, NextInv, RoomNext, PTL DEF Spec
<1>3. IInv => CallsTyped
  BY DEF IInv, TypeInv
<1>4. IInv /\ RoomInv /\ [Next]_vars => [\A s \in Slots : Answers(s) => KeepsTheRest(s)]_vars
  BY <1>1, <1>3
<1>5. Spec => [][\A s \in Slots : Answers(s) => KeepsTheRest(s)]_vars
  BY <1>2, <1>4, PTL DEF Spec
<1> QED BY <1>5 DEF SettingsKeepTheRest, KeepsTheRest

-----------------------------------------------------------------------------
(* What Approvals promises, which shares the user's login: proved for any   *)
(* number of calls, ids, answers and restarts.                              *)

USE DEF NoAnswer, NoCall, ResetCommand

AskingPCs == {"publish", "wait"}
EarlyPCs  == {"idle", "look", "add"}

(* A call that has not asked yet has no answer and was given none.         *)
FreshInv ==
    /\ \A c \in Calls : pc[c] \in EarlyPCs =>
           response[c] = NoAnswer /\ channel[c] = NoAnswer /\ heard[c] = <<>>
    /\ \A r \in Runs : command[r] # NoCall => pc[command[r]] \notin EarlyPCs

(* While a call waits, the answer accepted for it is still in its channel: *)
(* there is room for one only.                                             *)
AskingInv ==
    \A c \in Calls : pc[c] \in AskingPCs =>
        /\ response[c] = NoAnswer
        /\ heard[c] = IF channel[c] = NoAnswer THEN <<>> ELSE <<channel[c]>>

(* A call goes on with the first answer accepted for it, if with any.      *)
AnswerInv ==
    \A c \in Calls : response[c] \in Choices => AnsweredFirst(c, response[c])

(* A call saves only what an answer decides.                               *)
SavingInv ==
    \A c \in Calls : pc[c] \in Remembering => Remembers(response[c]) # "none"

ConsentInv ==
    /\ TypeOK
    /\ PendingIsWaiting
    /\ FreshInv /\ AskingInv /\ AnswerInv /\ SavingInv
    /\ RememberedWasAnswered
    /\ ProfileNeedsConsent

-----------------------------------------------------------------------------
(* An answer is of one kind, and a response that is remembered was one.    *)
LEMMA RememberedKinds ==
    ASSUME NEW a \in Responses \union {NoAnswer}
    PROVE  /\ Remembers(a) \in Stored
           /\ Remembers(a) = "approved" <=> a = "always_approve"
           /\ Remembers(a) # "none" => a \in Choices
  BY DEF Remembers, Responses, Choices, Stored

(* A step keeps every variable in its type.                                *)
LEMMA ConsentTypeInductive == TypeOK /\ SavingInv /\ [ConsentNext]_consentVars => TypeOK'
<1> SUFFICES ASSUME TypeOK, SavingInv, [ConsentNext]_consentVars PROVE TypeOK'
  OBVIOUS
<1> USE DEF TypeOK
<1>1. ASSUME NEW c \in Calls,
             StartCall(c) \/ LookAtDecision(c) \/ AddRequest(c) \/ PublishRequest(c)
      PROVE  TypeOK'
  BY <1>1 DEF StartCall, LookAtDecision, AddRequest, PublishRequest, Removed, StepsTo,
       coordVars, commandVars, loginVars, inputVars, Waiting, Remembering, Ended
<1>2. ASSUME NEW c \in Calls, TakeAnswer(c) \/ TimeOut(c) \/ WaitAborted(c)
      PROVE  TypeOK'
  BY <1>2 DEF TakeAnswer, TimeOut, WaitAborted, Receives, StepsTo, Responses, Choices,
       commandVars, loginVars, inputVars, Waiting, Remembering, Ended
<1>3. ASSUME NEW c \in Calls, DeleteRequest(c) \/ PublishResponse(c) \/ FetchProfile(c)
      PROVE  TypeOK'
  BY <1>3 DEF DeleteRequest, PublishResponse, FetchProfile, Removed, StepsTo,
       coordVars, commandVars, loginVars, inputVars, Waiting, Remembering, Ended
<1>4. ASSUME NEW c \in Calls, OpenMap(c) \/ MakeMap(c) \/ WriteDecision(c)
      PROVE  TypeOK'
  <2>1. Remembers(response[c]) \in Stored
    BY RememberedKinds
  <2>2. decision' \in Decisions
    BY <1>4, <2>1 DEF OpenMap, MakeMap, WriteDecision, SavingInv, Remembering, Decisions, Stored,
         loginVars
  <2> QED
    BY <1>4, <2>2 DEF OpenMap, MakeMap, WriteDecision, StepsTo,
       coordVars, commandVars, loginVars, inputVars, Waiting, Remembering, Ended
<1>5. ASSUME NEW c \in Calls, SaveReads(c) \/ SaveWrites(c) \/ SaveFails(c)
      PROVE  TypeOK'
  <2>1. Marshalled(decision) \in Stored /\ c \in Savers
    BY DEF Marshalled, Decisions, Stored, Savers
  <2>2. image' \in [Savers -> Stored] /\ stored' \in Stored
    BY <1>5, <2>1 DEF SaveReads, SaveWrites, SaveFails, ReadMetadata, WriteRow, Stored
  <2> QED
    BY <1>5, <2>2 DEF SaveReads, SaveWrites, SaveFails, ReadMetadata, WriteRow, StepsTo,
       coordVars, commandVars, inputVars, Waiting, Remembering, Ended
<1>6. ASSUME NEW r \in Runs, NEW c \in Calls, LookUpRequest(r, c)
      PROVE  TypeOK'
  BY <1>6 DEF LookUpRequest, callVars, coordVars, loginVars, inputVars
<1>7. ASSUME NEW r \in Runs, NEW answer \in Choices, SendAnswer(r, answer)
      PROVE  TypeOK'
  <2> DEFINE c == command[r]
  <2>1. c \in Calls
    BY <1>7 DEF SendAnswer
  <2>2. Append(heard[c], answer) \in Seq(Choices)
    BY <2>1
  <2>3. heard' \in [Calls -> Seq(Choices)] /\ channel' \in [Calls -> Choices \union {NoAnswer}]
    BY <1>7, <2>1, <2>2 DEF SendAnswer
  <2>4. command' \in [Runs -> Calls \union {NoCall}]
    BY <1>7 DEF SendAnswer
  <2> QED
    BY <1>7, <2>3, <2>4 DEF SendAnswer, callVars, loginVars, inputVars
<1>8. ASSUME NEW r \in Runs, CancelRun(r)
      PROVE  TypeOK'
  BY <1>8 DEF CancelRun, callVars, coordVars, commandVars, loginVars, inputVars
<1>9. ASSUME ForgetDecisions \/ ResetReads \/ ResetWrites \/ ResetFails
      PROVE  TypeOK'
  BY <1>9 DEF ForgetDecisions, ResetReads, ResetWrites, ResetFails, ReadMetadata, WriteRow,
       Marshalled, Decisions, Stored, Savers, callVars, coordVars, commandVars, inputVars
<1>10. ASSUME StopsProcess, events' \in Nat
       PROVE  TypeOK'
  BY <1>10 DEF StopsProcess, Unmarshalled, Stored, Decisions, Ended, inputVars
<1>11. CASE UNCHANGED consentVars
  BY <1>11 DEF consentVars, callVars, coordVars, commandVars, loginVars, inputVars
<1> QED
  BY <1>1, <1>2, <1>3, <1>4, <1>5, <1>6, <1>7, <1>8, <1>9, <1>10, <1>11
  DEF ConsentNext, CallStep, RestartBridge, Panic, MapFault

-----------------------------------------------------------------------------
(* Who is pending: one step per group of actions that move calls in and    *)
(* out of a coordinator.                                                   *)
LEMMA PendingInductive ==
    TypeOK /\ PendingIsWaiting /\ [ConsentNext]_consentVars => PendingIsWaiting'
<1> SUFFICES ASSUME TypeOK, PendingIsWaiting, [ConsentNext]_consentVars PROVE PendingIsWaiting'
  OBVIOUS
<1> USE DEF PendingIsWaiting, Waiting
<1> DEFINE Same == pending' = pending /\ runOf' = runOf /\ idOf' = idOf
<1>1. ASSUME Same, \A c \in Calls : pc'[c] \in Waiting <=> pc[c] \in Waiting
      PROVE  PendingIsWaiting'
  BY <1>1 DEF SameKey
<1>2. ASSUME NEW c \in Calls, AddRequest(c)
      PROVE  PendingIsWaiting'
  <2>1. pc' = [pc EXCEPT ![c] = pc'[c]] /\ pc[c] = "add" /\ runOf' = runOf /\ idOf' = idOf
    BY <1>2 DEF AddRequest, StepsTo, TypeOK, inputVars
  <2>2. CASE \E d \in pending : SameKey(c, d)
    <3>1. Same /\ pc'[c] = "failed"
      BY <1>2, <2>1, <2>2 DEF AddRequest, StepsTo, TypeOK
    <3> QED
      BY <1>1, <2>1, <3>1 DEF TypeOK
  <2>3. CASE ~\E d \in pending : SameKey(c, d)
    <3>1. pending' = pending \union {c} /\ pc'[c] = "publish"
      BY <1>2, <2>3 DEF AddRequest, StepsTo, TypeOK
    <3> QED
      BY <2>1, <2>3, <3>1 DEF TypeOK, SameKey
  <2> QED
    BY <2>2, <2>3
<1>3. ASSUME NEW c \in Calls, PublishRequest(c) \/ DeleteRequest(c)
      PROVE  PendingIsWaiting'
  <2>1. c \in pending
    BY <1>3 DEF PublishRequest, DeleteRequest
  <2>2. Removed(c) = pending \ {c}
    BY <2>1 DEF Removed, SameKey
  <2>3. runOf' = runOf /\ idOf' = idOf
    BY <1>3 DEF PublishRequest, DeleteRequest, inputVars
  <2> QED
    BY <1>3, <2>1, <2>2, <2>3 DEF PublishRequest, DeleteRequest, StepsTo, TypeOK, SameKey
<1>4. ASSUME NEW c \in Calls,
             StartCall(c) \/ LookAtDecision(c) \/ TakeAnswer(c) \/ TimeOut(c) \/ WaitAborted(c)
      PROVE  PendingIsWaiting'
  BY <1>1, <1>4 DEF StartCall, LookAtDecision, TakeAnswer, TimeOut, WaitAborted, Receives,
       StepsTo, TypeOK, coordVars, inputVars
<1>5. ASSUME NEW c \in Calls,
             OpenMap(c) \/ MakeMap(c) \/ WriteDecision(c) \/ PublishResponse(c) \/ FetchProfile(c)
      PROVE  PendingIsWaiting'
  BY <1>1, <1>5 DEF OpenMap, MakeMap, WriteDecision, PublishResponse, FetchProfile,
       StepsTo, TypeOK, coordVars, inputVars
<1>6. ASSUME NEW c \in Calls, SaveReads(c) \/ SaveWrites(c) \/ SaveFails(c)
      PROVE  PendingIsWaiting'
  BY <1>1, <1>6 DEF SaveReads, SaveWrites, SaveFails, ReadMetadata, WriteRow,
       StepsTo, TypeOK, coordVars, inputVars
<1>7. ASSUME pc' = pc, Same
      PROVE  PendingIsWaiting'
  BY <1>1, <1>7
<1>8. CASE StopsProcess
  BY <1>8 DEF StopsProcess, Ended
<1> QED
  BY <1>2, <1>3, <1>4, <1>5, <1>6, <1>7, <1>8
  DEF ConsentNext, CallStep, RestartBridge, Panic, MapFault, LookUpRequest, SendAnswer, CancelRun,
      ForgetDecisions, ResetReads, ResetWrites, ResetFails, ReadMetadata, WriteRow,
      consentVars, callVars, coordVars, inputVars

-----------------------------------------------------------------------------
(* AnswersGiven.  A command adds to the answers of one call and removes none,   *)
(* so a first answer stays the first.                                      *)
LEMMA FirstAnswerStays ==
    ASSUME TypeOK, [ConsentNext]_consentVars, NEW c \in Calls, NEW answer, AnsweredFirst(c, answer)
    PROVE  AnsweredFirst(c, answer)'
<1>1. CASE heard' = heard
  BY <1>1 DEF AnsweredFirst
<1>2. ASSUME NEW r \in Runs, NEW a \in Choices, SendAnswer(r, a)
      PROVE  AnsweredFirst(c, answer)'
  <2>1. heard[c] \in Seq(Choices) /\ heard[c] # <<>> /\ heard[c][1] = answer
    BY DEF TypeOK, AnsweredFirst
  <2>2. heard'[c] = heard[c] \/ heard'[c] = Append(heard[c], a)
    BY <1>2 DEF SendAnswer, TypeOK
  <2> QED
    BY <2>1, <2>2 DEF AnsweredFirst
<1> QED
  BY <1>1, <1>2 DEF ConsentNext, CallStep, StartCall, LookAtDecision, AddRequest, PublishRequest,
      TakeAnswer, TimeOut, WaitAborted, Receives, DeleteRequest, OpenMap, MakeMap, WriteDecision,
      SaveReads, SaveWrites, SaveFails, ReadMetadata, WriteRow, PublishResponse, FetchProfile,
      LookUpRequest, CancelRun, ForgetDecisions, ResetReads, ResetWrites, ResetFails,
      RestartBridge, Panic, MapFault, StopsProcess, commandVars, consentVars

AnswersInv == FreshInv /\ AskingInv /\ AnswerInv /\ SavingInv

(* The path of an answer from a command through the channel to the call.   *)
LEMMA AnswersInductive ==
    TypeOK /\ PendingIsWaiting /\ AnswersInv /\ [ConsentNext]_consentVars => AnswersInv'
<1> SUFFICES ASSUME TypeOK, PendingIsWaiting, AnswersInv, [ConsentNext]_consentVars PROVE AnswersInv'
  OBVIOUS
<1> USE DEF AnswersInv, EarlyPCs, AskingPCs
<1> DEFINE Same == response' = response /\ channel' = channel /\ heard' = heard
                   /\ command' = command
\* A step of one call that touches no answer.
<1>1. ASSUME NEW c \in Calls, NEW l, Same, StepsTo(c, l),
             l \in EarlyPCs => pc[c] \in EarlyPCs,
             l \in AskingPCs => pc[c] \in AskingPCs \union {"add"},
             l \in Remembering => Remembers(response[c]) # "none"
      PROVE  AnswersInv'
  <2>1. \A d \in Calls : pc'[d] = IF d = c THEN l ELSE pc[d]
    BY <1>1 DEF StepsTo, TypeOK
  <2>2. FreshInv'
    <3>1. \A r \in Runs : command[r] # NoCall => command[r] \in Calls
      BY DEF TypeOK
    <3> QED
      BY <1>1, <2>1, <3>1 DEF FreshInv
  <2>3. AskingInv'
    BY <1>1, <2>1 DEF FreshInv, AskingInv
  <2>4. AnswerInv'
    BY <1>1 DEF AnswerInv, AnsweredFirst
  <2>5. SavingInv'
    BY <1>1, <2>1 DEF SavingInv
  <2> QED
    BY <2>2, <2>3, <2>4, <2>5
<1>2. ASSUME NEW c \in Calls,
             StartCall(c) \/ LookAtDecision(c) \/ AddRequest(c) \/ PublishRequest(c)
      PROVE  AnswersInv'
  BY <1>1, <1>2 DEF StartCall, LookAtDecision, AddRequest, PublishRequest, Remembering,
       coordVars, commandVars
<1>3. ASSUME NEW c \in Calls, DeleteRequest(c) \/ PublishResponse(c) \/ FetchProfile(c)
      PROVE  AnswersInv'
  <2>1. ASSUME DeleteRequest(c) PROVE AnswersInv'
    <3> DEFINE l == IF Remembers(response[c]) = "none" THEN "respond" ELSE "open"
    <3>1. Same /\ StepsTo(c, l)
      BY <2>1 DEF DeleteRequest, commandVars
    <3>2. l \notin EarlyPCs /\ l \notin AskingPCs /\ (l \in Remembering => Remembers(response[c]) # "none")
      BY DEF Remembering
    <3> HIDE DEF l
    <3> QED
      BY <1>1, <3>1, <3>2
  <2>2. ASSUME PublishResponse(c) \/ FetchProfile(c) PROVE AnswersInv'
    BY <1>1, <2>2 DEF PublishResponse, FetchProfile, Remembering, coordVars, commandVars
  <2> QED
    BY <1>3, <2>1, <2>2
<1>4. ASSUME NEW c \in Calls, OpenMap(c) \/ MakeMap(c) \/ WriteDecision(c)
      PROVE  AnswersInv'
  BY <1>1, <1>4 DEF OpenMap, MakeMap, WriteDecision, SavingInv, Remembering, coordVars, commandVars
<1>5. ASSUME NEW c \in Calls, SaveReads(c) \/ SaveWrites(c) \/ SaveFails(c)
      PROVE  AnswersInv'
  BY <1>1, <1>5 DEF SaveReads, SaveWrites, SaveFails, ReadMetadata, WriteRow, SavingInv, Remembering,
       coordVars, commandVars
<1>6. ASSUME NEW c \in Calls, TakeAnswer(c) \/ TimeOut(c) \/ WaitAborted(c)
      PROVE  AnswersInv'
  <2>1. \A d \in Calls : /\ pc'[d] = IF d = c THEN "delete" ELSE pc[d]
                         /\ d # c => response'[d] = response[d] /\ channel'[d] = channel[d]
    BY <1>6 DEF TakeAnswer, TimeOut, WaitAborted, Receives, StepsTo, TypeOK
  <2>2. heard' = heard /\ command' = command /\ pc[c] = "wait"
    BY <1>6 DEF TakeAnswer, TimeOut, WaitAborted, Receives, commandVars
  <2>3. response'[c] \in Choices => AnsweredFirst(c, response'[c])
    BY <1>6 DEF TakeAnswer, TimeOut, WaitAborted, Receives, TypeOK, AskingInv, AnsweredFirst,
         Choices, Responses
  <2>4. FreshInv'
    <3>1. \A r \in Runs : command[r] # NoCall => command[r] \in Calls
      BY DEF TypeOK
    <3> QED
      BY <2>1, <2>2, <3>1 DEF FreshInv
  <2>5. AskingInv'
    BY <2>1, <2>2 DEF AskingInv
  <2>6. AnswerInv'
    BY <2>1, <2>2, <2>3 DEF AnswerInv, AnsweredFirst
  <2>7. SavingInv'
    BY <2>1, <2>2 DEF SavingInv, Remembering
  <2> QED
    BY <2>4, <2>5, <2>6, <2>7
<1>7. ASSUME NEW r \in Runs, NEW c \in Calls, LookUpRequest(r, c)
      PROVE  AnswersInv'
  <2>1. pc[c] \notin EarlyPCs
    BY <1>7 DEF LookUpRequest, PendingIsWaiting, Waiting
  <2>2. /\ pc' = pc /\ response' = response /\ channel' = channel /\ heard' = heard
        /\ \A q \in Runs : command'[q] = command[q] \/ command'[q] = c
    BY <1>7 DEF LookUpRequest, TypeOK, callVars, coordVars
  <2> QED
    BY <2>1, <2>2 DEF FreshInv, AskingInv, AnswerInv, SavingInv, AnsweredFirst
<1>8. ASSUME NEW r \in Runs, NEW a \in Choices, SendAnswer(r, a)
      PROVE  AnswersInv'
  <2> DEFINE c == command[r]
  <2>1. c \in Calls /\ pc[c] \notin EarlyPCs
    BY <1>8 DEF SendAnswer, TypeOK, FreshInv
  <2>2. /\ pc' = pc /\ response' = response
        /\ \A q \in Runs : command'[q] = command[q] \/ command'[q] = NoCall
    BY <1>8 DEF SendAnswer, TypeOK, callVars
  <2>3. \A d \in Calls : d # c => channel'[d] = channel[d] /\ heard'[d] = heard[d]
    BY <1>8 DEF SendAnswer, TypeOK
  <2>4. \/ channel'[c] = channel[c] /\ heard'[c] = heard[c]
        \/ channel[c] = NoAnswer /\ channel'[c] = a /\ heard'[c] = Append(heard[c], a)
    BY <1>8, <2>1 DEF SendAnswer, TypeOK
  <2>5. FreshInv'
    BY <2>1, <2>2, <2>3 DEF FreshInv
  <2>6. AskingInv'
    <3>1. a # NoAnswer /\ Append(<<>>, a) = <<a>>
      BY DEF Choices
    <3> QED
      BY <2>2, <2>3, <2>4, <3>1 DEF AskingInv
  <2>7. AnswerInv'
    BY <2>2, FirstAnswerStays DEF AnswerInv
  <2>8. SavingInv'
    BY <2>2 DEF SavingInv
  <2> QED
    BY <2>5, <2>6, <2>7, <2>8
<1>9. CASE StopsProcess
  <2>1. \A d \in Calls : pc'[d] \in {"idle"} \union Ended /\ (pc'[d] = "idle" => pc[d] = "idle")
    BY <1>9 DEF StopsProcess, Ended
  <2>2. /\ heard' = heard
        /\ \A d \in Calls : channel'[d] = NoAnswer /\ response'[d] \in {response[d], NoAnswer}
        /\ \A d \in Calls : pc'[d] = "idle" => response'[d] = NoAnswer
        /\ \A q \in Runs : command'[q] = NoCall
    BY <1>9 DEF StopsProcess, FreshInv, Ended
  <2>3. FreshInv'
    <3>1. \A d \in Calls : pc'[d] \in EarlyPCs => pc'[d] = "idle"
      BY <2>1 DEF Ended
    <3>2. \A d \in Calls : pc[d] = "idle" => heard[d] = <<>>
      BY DEF FreshInv
    <3> QED
      BY <2>1, <2>2, <3>1, <3>2 DEF FreshInv
  <2>4. AskingInv'
    BY <2>1 DEF AskingInv, Ended
  <2>5. AnswerInv'
    BY <2>2 DEF AnswerInv, AnsweredFirst, Choices
  <2>6. SavingInv'
    BY <2>1 DEF SavingInv, Remembering, Ended
  <2> QED
    BY <2>3, <2>4, <2>5, <2>6
<1>10. ASSUME Same, pc' = pc PROVE AnswersInv'
  BY <1>10 DEF FreshInv, AskingInv, AnswerInv, SavingInv, AnsweredFirst
<1> QED
  BY <1>2, <1>3, <1>4, <1>5, <1>6, <1>7, <1>8, <1>9, <1>10
  DEF ConsentNext, CallStep, RestartBridge, Panic, MapFault, CancelRun, ForgetDecisions, ResetReads,
      ResetWrites, ResetFails, ReadMetadata, WriteRow, consentVars, callVars, coordVars, commandVars

-----------------------------------------------------------------------------
(* What is remembered.  A decision has its origin in a call that saves, or *)
(* is copied between memory, images and the database.                      *)
Known == {decision, stored} \union {image[w] : w \in Savers}

HasOrigin(d) == \E c \in Calls, answer \in Choices :
                    AnsweredFirst(c, answer) /\ Remembers(answer) = d

LEMMA RememberedInductive ==
    TypeOK /\ AnswersInv /\ RememberedWasAnswered /\ [ConsentNext]_consentVars => RememberedWasAnswered'
<1> SUFFICES ASSUME TypeOK, AnswersInv, RememberedWasAnswered, [ConsentNext]_consentVars
             PROVE  RememberedWasAnswered'
  OBVIOUS
<1> USE DEF RememberedWasAnswered
<1>1. \A d : HasOrigin(d) => HasOrigin(d)'
  BY FirstAnswerStays DEF HasOrigin
<1>2. \A d \in Known : d \in {"approved", "denied"} => HasOrigin(d)
  BY DEF Known, HasOrigin
<1>3. ASSUME \A d \in Known' : d \in {"approved", "denied"} => d \in Known \/ HasOrigin(d)
      PROVE  RememberedWasAnswered'
  BY <1>1, <1>2, <1>3 DEF Known, HasOrigin
<1>4. ASSUME NEW c \in Calls, OpenMap(c) \/ MakeMap(c) \/ WriteDecision(c)
      PROVE  RememberedWasAnswered'
  <2>1. HasOrigin(Remembers(response[c])) \/ pc[c] # "write"
    <3> SUFFICES ASSUME pc[c] = "write" PROVE HasOrigin(Remembers(response[c]))
      OBVIOUS
    <3>1. response[c] \in Choices
      BY RememberedKinds DEF TypeOK, AnswersInv, SavingInv, Remembering
    <3> QED
      BY <3>1 DEF HasOrigin, AnswersInv, AnswerInv
  <2> QED
    BY <1>3, <1>4, <2>1 DEF OpenMap, MakeMap, WriteDecision, Known, loginVars
<1>5. ASSUME NEW w \in Savers, ReadMetadata(w) \/ WriteRow(w)
      PROVE  RememberedWasAnswered'
  <2>1. \A v \in Savers : image'[v] \in {image[v], Marshalled(decision), "none"}
    BY <1>5 DEF ReadMetadata, WriteRow, TypeOK
  <2>2. decision' = decision /\ stored' \in {stored, image[w]}
    BY <1>5 DEF ReadMetadata, WriteRow
  <2>3. Marshalled(decision) \in {decision, "none"}
    BY DEF Marshalled
  <2> QED
    BY <1>3, <2>1, <2>2, <2>3 DEF Known
<1>6. ASSUME NEW w \in Savers, image' = [image EXCEPT ![w] = "none"],
             decision' = decision, stored' = stored
      PROVE  RememberedWasAnswered'
  BY <1>3, <1>6 DEF Known, TypeOK
<1>7. CASE ForgetDecisions
  BY <1>3, <1>7 DEF ForgetDecisions, Known
<1>8. CASE StopsProcess
  BY <1>3, <1>8 DEF StopsProcess, Unmarshalled, Known
<1>9. CASE UNCHANGED loginVars
  BY <1>3, <1>9 DEF loginVars, Known
<1> QED
  BY <1>4, <1>5, <1>6, <1>7, <1>8, <1>9
  DEF ConsentNext, CallStep, StartCall, LookAtDecision, AddRequest, PublishRequest, TakeAnswer, TimeOut,
      WaitAborted, Receives, DeleteRequest, SaveReads, SaveWrites, SaveFails, PublishResponse,
      FetchProfile, LookUpRequest, SendAnswer, CancelRun, ResetReads, ResetWrites, ResetFails,
      RestartBridge, Panic, MapFault, loginVars, consentVars, Savers

(* Who is shown the profile.                                               *)
LEMMA ConsentInductive ==
    TypeOK /\ AnswersInv /\ RememberedWasAnswered /\ ProfileNeedsConsent /\ [ConsentNext]_consentVars
    => ProfileNeedsConsent'
<1> SUFFICES ASSUME TypeOK, AnswersInv, RememberedWasAnswered, ProfileNeedsConsent, [ConsentNext]_consentVars
             PROVE  ProfileNeedsConsent'
  OBVIOUS
<1> DEFINE Shown == {"fetch", "shared"}
           Consent(d) == IF response[d] = NoAnswer
                         THEN \E e \in Calls : AnsweredFirst(e, "always_approve")
                         ELSE response[d] \in Approving /\ AnsweredFirst(d, response[d])
<1>1. \A d \in Calls : Consent(d) /\ response'[d] = response[d] => Consent(d)'
  BY FirstAnswerStays
<1>2. ASSUME \A d \in Calls : pc'[d] \in Shown =>
                 response'[d] = response[d] /\ (pc[d] \in Shown \/ Consent(d))
      PROVE  ProfileNeedsConsent'
  BY <1>1, <1>2 DEF ProfileNeedsConsent
<1>3. ASSUME NEW c \in Calls, LookAtDecision(c)
      PROVE  ProfileNeedsConsent'
  <2>1. decision = "approved" => \E e \in Calls : AnsweredFirst(e, "always_approve")
    BY RememberedKinds DEF RememberedWasAnswered, Responses
  <2>2. response[c] = NoAnswer
    BY <1>3 DEF LookAtDecision, AnswersInv, FreshInv, EarlyPCs
  <2> QED
    BY <1>2, <1>3, <2>1, <2>2 DEF LookAtDecision, StepsTo, TypeOK
<1>4. ASSUME NEW c \in Calls, PublishResponse(c)
      PROVE  ProfileNeedsConsent'
  <2>1. response[c] \in Approving => Consent(c)
    BY DEF AnswersInv, AnswerInv, Approving, Choices
  <2> QED
    BY <1>2, <1>4, <2>1 DEF PublishResponse, StepsTo, TypeOK
<1>5. ASSUME NEW c \in Calls, NEW l, StepsTo(c, l), l \notin Shown \/ pc[c] \in Shown,
             response' = response
      PROVE  ProfileNeedsConsent'
  BY <1>2, <1>5 DEF StepsTo, TypeOK
<1>6. ASSUME NEW c \in Calls, StartCall(c) \/ AddRequest(c) \/ PublishRequest(c) \/ FetchProfile(c)
      PROVE  ProfileNeedsConsent'
  BY <1>5, <1>6 DEF StartCall, AddRequest, PublishRequest, FetchProfile
<1>7. ASSUME NEW c \in Calls, TakeAnswer(c) \/ TimeOut(c) \/ WaitAborted(c)
      PROVE  ProfileNeedsConsent'
  <2>1. StepsTo(c, "delete") /\ \A d \in Calls : d # c => response'[d] = response[d]
    BY <1>7 DEF TakeAnswer, TimeOut, WaitAborted, Receives, TypeOK
  <2> QED
    BY <1>2, <2>1 DEF StepsTo, TypeOK
<1>8. ASSUME NEW c \in Calls, DeleteRequest(c) \/ OpenMap(c)
      PROVE  ProfileNeedsConsent'
  BY <1>2, <1>8 DEF DeleteRequest, OpenMap, StepsTo, TypeOK
<1>9. ASSUME NEW c \in Calls,
             MakeMap(c) \/ WriteDecision(c) \/ SaveReads(c) \/ SaveWrites(c) \/ SaveFails(c)
      PROVE  ProfileNeedsConsent'
  BY <1>5, <1>9 DEF MakeMap, WriteDecision, SaveReads, SaveWrites, SaveFails, ReadMetadata, WriteRow
<1>10. CASE StopsProcess
  BY <1>2, <1>10 DEF StopsProcess, Ended
<1>11. ASSUME UNCHANGED <<pc, response>>
       PROVE  ProfileNeedsConsent'
  BY <1>2, <1>11
<1> QED
  BY <1>3, <1>4, <1>6, <1>7, <1>8, <1>9, <1>10, <1>11
  DEF ConsentNext, CallStep, LookUpRequest, SendAnswer, CancelRun, ForgetDecisions, ResetReads,
      ResetWrites, ResetFails, ReadMetadata, WriteRow, RestartBridge, Panic, MapFault, callVars, consentVars

-----------------------------------------------------------------------------
(* The invariant holds at the start.                                       *)
LEMMA ConsentInitInv == ConsentInit => ConsentInv
  BY DEF ConsentInit, ConsentInv, TypeOK, PendingIsWaiting, FreshInv, AskingInv, AnswerInv, SavingInv,
     RememberedWasAnswered, ProfileNeedsConsent, Choices, Responses, Waiting, Remembering, Stored,
     Decisions, AskingPCs, EarlyPCs

(* The inductive invariant holds in every reachable state.                 *)
THEOREM ConsentHolds == ConsentSpec => []ConsentInv
<1>1. ConsentInv /\ [ConsentNext]_consentVars => ConsentInv'
  BY ConsentTypeInductive, PendingInductive, AnswersInductive, RememberedInductive, ConsentInductive
  DEF ConsentInv, AnswersInv
<1> QED
  BY ConsentInitInv, <1>1, PTL DEF ConsentSpec

(* Every variable keeps its type.                                          *)
THEOREM ConsentTypeCorrect == ConsentSpec => []TypeOK
  BY ConsentHolds, PTL DEF ConsentInv

(* A coordinator holds exactly the requests that wait, one for an id.      *)
THEOREM PendingCorrect == ConsentSpec => []PendingIsWaiting
  BY ConsentHolds, PTL DEF ConsentInv

(* The profile goes only to a call the user allowed it to.                 *)
THEOREM ConsentCorrect == ConsentSpec => []ProfileNeedsConsent
  BY ConsentHolds, PTL DEF ConsentInv

(* The login remembers only what the user answered.                        *)
THEOREM RememberedCorrect == ConsentSpec => []RememberedWasAnswered
  BY ConsentHolds, PTL DEF ConsentInv

====
