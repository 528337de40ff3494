----------------------------- MODULE Providers -----------------------------
(* The AI providers of a user's bridge login (pkg/connector): how a login   *)
(* is found or made, how providers are saved and deleted, how a ChatGPT     *)
(* account is added with a device code, how a run refreshes its rotating    *)
(* token, and the cached list of model contacts.  Provisioning requests,    *)
(* bridge commands, login flows and runs are calls that overlap.            *)
(*                                                                          *)
(* A login is a map from a provider to its configuration, in memory and as  *)
(* a row of the database.  A configuration is a number: of the ChatGPT      *)
(* refresh token it holds, or of the revision of a custom provider's model  *)
(* list; Beeper's own is always there and never changes (LoadUserLogin).    *)
(* A Save encodes the login and then writes the row, in two steps: changes  *)
(* of the configuration save under providerConfigMu, refreshed tokens under *)
(* providerAuthMu, and every lookup of the login saves it under no lock.    *)
(*                                                                          *)
(* The login has the bridge's own id ("main"), or, when that one belongs to *)
(* another user or the bridge is an older one, an id of the user's ("own"); *)
(* an "own" login is replaced by "main" when that is free.  A first login   *)
(* with nothing before it, names, URLs, keys and answers are left out.      *)
EXTENDS Naturals, FiniteSets

CONSTANTS MaxOverlap,  \* calls in flight at one time
          MaxCalls,    \* bound on the calls, start-up included
          MaxFaults,   \* bound on failures, cancellations, crashes and edits by clients
          MaxTokens    \* bound on the refresh tokens the ChatGPT server issues

VARIABLES
  foreign,   \* the bridge's login id belongs to another user
  logins,    \* the user's logins, in memory
  rows,      \* the same in the database
  calls,     \* the calls in flight, by slot
  issued,    \* ChatGPT refresh tokens issued so far
  live,      \* those the server still takes
  expired,   \* access tokens up to this one expire within two minutes
  contacts,  \* Client.contactCache, and whether a change overlapped its listing
  wanted,    \* history: providers saved and not deleted
  torn,      \* history: the row may be behind, after a Save that failed or overlapped another lock's
  lost,      \* history: a rotated token was lost with an answer or in a crash
  replayed,  \* history: a refresh sent a spent token the login still had
  made, faults
pvars == <<foreign, logins, rows, calls, issued, live, expired, contacts, wanted, torn, lost, replayed, made, faults>>

Slots == 1..MaxOverlap
Nothing == [p \in {} |-> 0]
NoList == [valid |-> FALSE, list |-> Nothing, raced |-> FALSE]
Idle == [op |-> "idle", at |-> "idle", pid |-> "", cfg |-> 0, use |-> 0, dup |-> FALSE,
         snap |-> Nothing, cancelled |-> "no", raced |-> FALSE, word |-> "", seen |-> Nothing]

\* ensureAIChatsLoginsForPersistedUsers: a process begins with a lookup of the login.
StartUp == [s \in Slots |-> IF s = 1 THEN [Idle EXCEPT !.op = "list", !.at = "look"] ELSE Idle]

\* aiChatsLoginIDForUser, for a call that names no login.
Preferred == IF foreign THEN "own" ELSE "main"
Duplicate == ~foreign /\ "own" \in DOMAIN logins

\* An older login, or a newer one, or both after a crash between making one and deleting the other.
Old == [p \in {"beeper", "chatgpt", "custom"} |-> IF p = "beeper" THEN 0 ELSE 1]
PInit == /\ foreign \in BOOLEAN
         /\ \E ids \in IF foreign THEN {{"own"}} ELSE {{"main"}, {"own"}, {"main", "own"}} :
              logins = [l \in ids |-> Old]
         /\ rows = logins
         /\ calls = StartUp
         /\ issued = 1 /\ live = {1} /\ expired = 0
         /\ contacts = NoList
         /\ wanted = DOMAIN Old
         /\ torn = FALSE /\ lost = FALSE /\ replayed = FALSE
         /\ made = 1 /\ faults = 0

Loaded == Preferred \in DOMAIN logins
Login == logins[Preferred]
With(p, c) == [q \in DOMAIN Login \union {p} |-> IF q = p THEN c ELSE Login[q]]
Without(p) == [q \in DOMAIN Login \ {p} |-> Login[q]]
\* The models a login lists: a custom provider's depend on its revision.
Listing == [p \in DOMAIN Login |-> IF p = "custom" THEN Login[p] ELSE 0]

At(s, at) == calls[s].at = at
Goto(s, at) == [calls EXCEPT ![s].at = at]
End(s) == [calls EXCEPT ![s] = Idle]
Fault == faults < MaxFaults /\ faults' = faults + 1
Cancelled(s) == calls[s].cancelled # "no"
\* A request fails: its context is cancelled, or its server or the database says no.
Fails(s) == IF Cancelled(s) THEN UNCHANGED faults ELSE Fault

Begins(call) ==
  /\ made < MaxCalls /\ made' = made + 1
  /\ \E s \in Slots : /\ At(s, "idle") /\ \A r \in 1..(s - 1) : ~At(r, "idle")
                      /\ calls' = [calls EXCEPT ![s] = call]

\* ------------------------------------------------------------ calls
\* handleProvidersList and Get, and the bridge commands that show them; BeeperLogin.
List == /\ Begins([Idle EXCEPT !.op = "list", !.at = "look"])
        /\ UNCHANGED <<foreign, logins, rows, issued, live, expired, contacts, wanted, torn, lost, replayed, faults>>

\* A command in an AI room has that room's login, and does not look it up
\* (loginForBridgePortalCommand); rooms of a login being replaced are left out.
Entry == {"look"} \union IF Loaded /\ ~Duplicate THEN {"change"} ELSE {}

\* What providerConfigFromInput makes of a user's input: the catalog offers another
\* revision of the provider's models than it had.
Input == [Idle EXCEPT !.op = "save", !.pid = "custom", !.cfg = 2]

\* handleProviderUpsert, handleBridgeProviderUpsert, CustomProviderLogin; input the
\* catalog has no models for is refused after the lookup: a List.
Save == /\ \E at \in Entry : Begins([Input EXCEPT !.at = at])
        /\ UNCHANGED <<foreign, logins, rows, issued, live, expired, contacts, wanted, torn, lost, replayed, faults>>

\* handleProvidersDelete, handleBridgeProviderDelete.  Beeper's is read-only.
Delete(p) == /\ p # "beeper"
             /\ \E at \in Entry : Begins([Idle EXCEPT !.op = "delete", !.at = at, !.pid = p])
             /\ UNCHANGED <<foreign, logins, rows, issued, live, expired, contacts, wanted, torn, lost, replayed, faults>>

\* ChatGPTDeviceLogin.Wait.  A Cancel before it has nothing to cancel.
Device == /\ Begins([Idle EXCEPT !.op = "device", !.at = "poll", !.pid = "chatgpt"])
          /\ UNCHANGED <<foreign, logins, rows, issued, live, expired, contacts, wanted, torn, lost, replayed, faults>>

\* cachedListedModelContacts: from a valid cache it answers, and may refresh it in the
\* background (refreshModelContactCacheAsync, one at a time); else it lists.
Contacts ==
  /\ Loaded
  /\ \A s \in Slots : calls[s].op # "contacts"
  /\ Begins([Idle EXCEPT !.op = "contacts", !.at = "list", !.snap = Listing])
  /\ UNCHANGED <<foreign, logins, rows, issued, live, expired, contacts, wanted, torn, lost, replayed, faults>>

\* ------------------------------------------------------------ a login for the call
\* Changed in a mutant: the duplicate is deleted before its replacement is saved.
LookDropping(s) ==
  /\ At(s, "look")
  /\ calls' = [calls EXCEPT ![s].at = IF Loaded THEN "esave" ELSE "create",
                            ![s].snap = IF Loaded THEN Login ELSE logins["own"]]
  /\ rows' = IF Duplicate THEN [l \in DOMAIN rows \ {"own"} |-> rows[l]] ELSE rows
  /\ UNCHANGED <<foreign, logins, issued, live, expired, contacts, wanted, torn, lost, replayed, made, faults>>

\* CreateAIChatsLogin finds the login and encodes it for the Save, or has to make one
\* with the providers of the duplicate.
Look(s) ==
  /\ At(s, "look")
  /\ calls' = [calls EXCEPT ![s].dup = Duplicate,
                            ![s].at = IF Loaded THEN "esave" ELSE "create",
                            ![s].snap = IF Loaded THEN Login ELSE logins["own"]]
  /\ UNCHANGED <<foreign, logins, rows, issued, live, expired, contacts, wanted, torn, lost, replayed, made, faults>>

\* user.NewLogin, unless another call was first.
Create(s) ==
  /\ At(s, "create") /\ ~Cancelled(s)
  /\ calls' = [calls EXCEPT ![s].at = "drop", ![s].snap = Nothing]
  /\ IF Loaded THEN UNCHANGED <<logins, rows>>
     ELSE /\ logins' = [l \in DOMAIN logins \union {"main"} |-> IF l = "main" THEN calls[s].snap ELSE logins[l]]
          /\ rows' = [l \in DOMAIN rows \union {"main"} |-> IF l = "main" THEN calls[s].snap ELSE rows[l]]
  /\ UNCHANGED <<foreign, issued, live, expired, contacts, wanted, torn, lost, replayed, made, faults>>

\* Where a call goes on once it has its login.
Ensured(s) == IF calls[s].op = "list" THEN End(s)
              ELSE [calls EXCEPT ![s].at = "change", ![s].dup = FALSE, ![s].snap = Nothing]

\* deleteDuplicateAIChatsLogin.
Drop(s) ==
  /\ At(s, "drop")
  /\ logins' = [l \in DOMAIN logins \ {"own"} |-> logins[l]]
  /\ rows' = [l \in DOMAIN rows \ {"own"} |-> rows[l]]
  /\ calls' = Ensured(s)
  /\ UNCHANGED <<foreign, issued, live, expired, contacts, wanted, torn, lost, replayed, made, faults>>

\* ------------------------------------------------------------ saving
Saving(s) == calls[s].at \in {"esave", "write", "awrite"}
\* Another Save is in flight that no lock keeps apart from this one.
Overlaps(s) == \E r \in Slots \ {s} : Saving(r) /\ (calls[r].at # calls[s].at \/ At(s, "esave"))

\* The row is written from what was encoded.
Row(s) == /\ rows' = [rows EXCEPT ![Preferred] = calls[s].snap]
          /\ torn' = IF Overlaps(s) THEN TRUE ELSE torn /\ calls[s].snap # Login
\* The memory keeps what the row does not get.
NoRow(s) == /\ torn' = (torn \/ Overlaps(s) \/ rows[Preferred] # Login)
            /\ UNCHANGED rows

\* cached.Save of CreateAIChatsLogin.
SaveLogin(s) ==
  /\ At(s, "esave") /\ ~Cancelled(s)
  /\ Row(s)
  /\ calls' = IF calls[s].dup THEN [calls EXCEPT ![s].at = "drop", ![s].snap = Nothing] ELSE Ensured(s)
  /\ UNCHANGED <<foreign, logins, issued, live, expired, contacts, wanted, lost, replayed, made, faults>>

\* Its failure ends the call, before anything was changed.
EnsureFails(s) ==
  /\ calls[s].at \in {"esave", "create"} /\ Fails(s)
  /\ calls' = End(s)
  /\ UNCHANGED <<foreign, logins, rows, issued, live, expired, contacts, wanted, torn, lost, replayed, made>>

\* A listing under way will store what is no longer so.
ListingsRaced(f) == [s \in Slots |-> IF f[s].op = "contacts" THEN [f[s] EXCEPT !.raced = TRUE] ELSE f[s]]

\* What SaveProviderConfig and DeleteProvider make of the login.
Changed(s) == IF calls[s].op = "delete" THEN Without(calls[s].pid) ELSE With(calls[s].pid, calls[s].cfg)
ChangeOf(s) ==
  /\ logins' = [logins EXCEPT ![Preferred] = Changed(s)]
  /\ calls' = ListingsRaced([calls EXCEPT ![s].at = "write", ![s].snap = Changed(s)])
  /\ wanted' = IF calls[s].op = "delete" THEN wanted \ {calls[s].pid} ELSE wanted
  /\ UNCHANGED <<foreign, rows, issued, live, expired, torn, lost, replayed, made, faults>>

Unknown(s) == calls[s].op = "delete" /\ calls[s].pid \notin DOMAIN Login

\* Changed in a mutant: no lock is taken.
ChangeUnlocked(s) ==
  /\ At(s, "change") /\ ~Unknown(s)
  /\ ChangeOf(s)
  /\ contacts' = NoList

\* Changed in a mutant: a deleted provider's models stay listed.
ChangeListed(s) ==
  /\ At(s, "change") /\ ~Unknown(s) /\ \A r \in Slots : ~At(r, "write")
  /\ ChangeOf(s)
  /\ contacts' = IF calls[s].op = "delete" THEN contacts ELSE NoList

\* Under providerConfigMu, held until the row is written, the memory changes, the
\* contacts are invalidated and the login is encoded.  A cancelled context does not stop it.
Change(s) ==
  /\ At(s, "change") /\ ~Unknown(s) /\ \A r \in Slots : ~At(r, "write")
  /\ ChangeOf(s)
  /\ contacts' = NoList

\* The provider to delete is unknown.
Refuse(s) ==
  /\ At(s, "change") /\ Unknown(s)
  /\ calls' = End(s)
  /\ UNCHANGED <<foreign, logins, rows, issued, live, expired, contacts, wanted, torn, lost, replayed, made, faults>>

Write(s) ==
  /\ At(s, "write") /\ ~Cancelled(s)
  /\ Row(s)
  /\ wanted' = IF calls[s].op = "delete" THEN wanted ELSE wanted \union {calls[s].pid}
  /\ calls' = End(s)
  /\ UNCHANGED <<foreign, logins, issued, live, expired, contacts, lost, replayed, made, faults>>

WriteFails(s) ==
  /\ At(s, "write") /\ Fails(s)
  /\ NoRow(s)
  /\ calls' = End(s)
  /\ UNCHANGED <<foreign, logins, issued, live, expired, contacts, wanted, lost, replayed, made>>

\* ------------------------------------------------------------ the device code
\* pollChatGPTDeviceAuthOnce: still pending (or asked to slow down), or authorised.
Poll(s) ==
  /\ At(s, "poll") /\ ~Cancelled(s)
  /\ \E at \in {"pause", "exchange"} : calls' = Goto(s, at)
  /\ UNCHANGED <<foreign, logins, rows, issued, live, expired, contacts, wanted, torn, lost, replayed, made, faults>>

\* The interval passes first; or the fifteen minutes, or the cancellation.
Pause(s) ==
  /\ At(s, "pause")
  /\ calls' \in {Goto(s, "poll"), End(s)}
  /\ UNCHANGED <<foreign, logins, rows, issued, live, expired, contacts, wanted, torn, lost, replayed, made, faults>>

\* exchangeChatGPTAuthorizationCode, within the bound on tokens.
Exchange(s) ==
  /\ At(s, "exchange") /\ ~Cancelled(s) /\ issued < MaxTokens
  /\ issued' = issued + 1
  /\ live' = live \union {issued + 1}
  /\ calls' = [calls EXCEPT ![s].at = "look", ![s].cfg = issued + 1]
  /\ UNCHANGED <<foreign, logins, rows, expired, contacts, wanted, torn, lost, replayed, made, faults>>

DeviceFails(s) ==
  /\ calls[s].at \in {"poll", "exchange"} /\ Fails(s)
  /\ calls' = End(s)
  /\ UNCHANGED <<foreign, logins, rows, issued, live, expired, contacts, wanted, torn, lost, replayed, made>>

\* ChatGPTDeviceLogin.Cancel, in time or once the change is being made.
Cancel(s) ==
  /\ calls[s].op = "device" /\ calls[s].cancelled = "no" /\ Fault
  /\ calls' = [calls EXCEPT ![s].cancelled = IF calls[s].at \in {"drop", "change", "write"} THEN "late" ELSE "soon"]
  /\ UNCHANGED <<foreign, logins, rows, issued, live, expired, contacts, wanted, torn, lost, replayed, made>>

\* ------------------------------------------------------------ the token of a run
Fresh(t) == t > expired
Configured == Loaded /\ "chatgpt" \in DOMAIN Login

\* refreshProviderIfNeeded, before each call of the model: with the provider the run began with.
Auth(s) ==
  /\ At(s, "auth")
  /\ calls' = Goto(s, IF calls[s].pid # "chatgpt" \/ Fresh(calls[s].cfg) THEN "call" ELSE "lock")
  /\ UNCHANGED <<foreign, logins, rows, issued, live, expired, contacts, wanted, torn, lost, replayed, made, faults>>

Sends(s, token) ==
  /\ calls' = [calls EXCEPT ![s].at = "server", ![s].use = token]
  /\ replayed' = (replayed \/ (Configured /\ token \notin live))

\* Changed in a mutant: the token the run began with is sent, whatever was saved since.
LockAndSend(s) ==
  /\ At(s, "lock") /\ \A r \in Slots : calls[r].at \notin {"server", "answer", "awrite"}
  /\ Sends(s, calls[s].cfg)
  /\ UNCHANGED <<foreign, logins, rows, issued, live, expired, contacts, wanted, torn, lost, made, faults>>

\* Under providerAuthMu it looks at the saved provider again: another run may have refreshed it.
Lock(s) ==
  /\ At(s, "lock") /\ \A r \in Slots : calls[r].at \notin {"server", "answer", "awrite"}
  /\ LET saved == IF Configured THEN Login["chatgpt"] ELSE calls[s].cfg
     IN  IF Fresh(saved) THEN /\ calls' = Goto(s, "call")
                              /\ UNCHANGED replayed
         ELSE Sends(s, saved)
  /\ UNCHANGED <<foreign, logins, rows, issued, live, expired, contacts, wanted, torn, lost, made, faults>>

\* refreshChatGPTCredentials: the server spends the token and issues another.
Refresh(s) ==
  /\ At(s, "server") /\ calls[s].use \in live /\ issued < MaxTokens
  /\ issued' = issued + 1
  /\ live' = (live \ {calls[s].use}) \union {issued + 1}
  /\ calls' = [calls EXCEPT ![s].at = "answer", ![s].use = issued + 1]
  /\ UNCHANGED <<foreign, logins, rows, expired, contacts, wanted, torn, lost, replayed, made, faults>>

\* It refuses a spent one, and the run fails.
RefreshRefused(s) ==
  /\ At(s, "server") /\ calls[s].use \notin live
  /\ calls' = End(s)
  /\ UNCHANGED <<foreign, logins, rows, issued, live, expired, contacts, wanted, torn, lost, replayed, made, faults>>

\* Its answer does not arrive.
AnswerLost(s) ==
  /\ At(s, "answer") /\ Fault
  /\ lost' = TRUE
  /\ calls' = End(s)
  /\ UNCHANGED <<foreign, logins, rows, issued, live, expired, contacts, wanted, torn, replayed, made>>

\* Client.saveProviderConfig: also when the provider was deleted or replaced meanwhile,
\* and without invalidating the contacts.
Store(s) ==
  /\ At(s, "answer")
  /\ logins' = [logins EXCEPT ![Preferred] = With("chatgpt", calls[s].use)]
  /\ LET saving == [calls EXCEPT ![s].at = "awrite", ![s].snap = With("chatgpt", calls[s].use), ![s].use = 0]
     IN  calls' = IF Configured THEN saving ELSE ListingsRaced(saving)
  /\ contacts' = [contacts EXCEPT !.raced = contacts.valid /\ (@ \/ ~Configured)]
  /\ UNCHANGED <<foreign, rows, issued, live, expired, wanted, torn, lost, replayed, made, faults>>

AuthWrite(s) ==
  /\ At(s, "awrite")
  /\ Row(s)
  /\ calls' = [calls EXCEPT ![s].at = "call", ![s].snap = Nothing]
  /\ UNCHANGED <<foreign, logins, issued, live, expired, contacts, wanted, lost, replayed, made, faults>>

\* A failed Save is ignored: the token is good until a restart.
AuthWriteFails(s) ==
  /\ At(s, "awrite") /\ Fault
  /\ NoRow(s)
  /\ calls' = [calls EXCEPT ![s].at = "call", ![s].snap = Nothing]
  /\ UNCHANGED <<foreign, logins, issued, live, expired, contacts, wanted, lost, replayed, made>>

\* The model is called, for an answer or for a title that is not used; after an answer
\* its tools may ask for it to be called again.
Call(s) ==
  /\ At(s, "call")
  /\ calls' \in {End(s)} \union IF calls[s].op = "run" THEN {Goto(s, "auth")} ELSE {}
  /\ UNCHANGED <<foreign, logins, rows, issued, live, expired, contacts, wanted, torn, lost, replayed, made, faults>>

\* ------------------------------------------------------------ the contacts
\* setModelContactCache, with what buildListedModelContacts made of the providers it read.
ListStored(s) ==
  /\ At(s, "list")
  /\ contacts' = [valid |-> TRUE, list |-> calls[s].snap, raced |-> calls[s].raced]
  /\ calls' = End(s)
  /\ UNCHANGED <<foreign, logins, rows, issued, live, expired, wanted, torn, lost, replayed, made, faults>>

\* A catalog that failed to load makes the list one not to be cached.
ListFails(s) ==
  /\ At(s, "list") /\ Fault
  /\ calls' = End(s)
  /\ UNCHANGED <<foreign, logins, rows, issued, live, expired, contacts, wanted, torn, lost, replayed, made>>

\* ------------------------------------------------------------ around the bridge
\* The access tokens issued so far come within two minutes of their end.
Expire ==
  /\ expired < issued /\ issued < MaxTokens
  /\ expired' = issued
  /\ UNCHANGED <<foreign, logins, rows, calls, issued, live, contacts, wanted, torn, lost, replayed, made, faults>>

\* The process ends; the next one loads the logins from their rows.
Crash ==
  /\ Fault
  /\ logins' = rows
  /\ calls' = StartUp
  /\ contacts' = NoList
  /\ wanted' = IF torn \/ logins # rows THEN wanted \intersect UNION {DOMAIN rows[l] : l \in DOMAIN rows} ELSE wanted
  /\ torn' = FALSE
  /\ lost' = (lost \/ logins # rows \/ \E s \in Slots : At(s, "answer"))
  /\ UNCHANGED <<foreign, rows, issued, live, expired, replayed, made>>

PNext == \/ List \/ Save \/ Device \/ Contacts \/ Expire
         \/ \E p \in {"chatgpt", "custom"} : Delete(p)
         \/ \E s \in Slots :
              \/ Look(s) \/ Create(s) \/ SaveLogin(s) \/ EnsureFails(s) \/ Drop(s)
              \/ Change(s) \/ Refuse(s) \/ Write(s) \/ WriteFails(s)
              \/ Poll(s) \/ Pause(s) \/ Exchange(s) \/ DeviceFails(s) \/ Cancel(s)
              \/ Auth(s) \/ Lock(s) \/ Refresh(s) \/ RefreshRefused(s) \/ AnswerLost(s)
              \/ Store(s) \/ AuthWrite(s) \/ AuthWriteFails(s) \/ Call(s)
              \/ ListStored(s) \/ ListFails(s)

\* ------------------------------------------------------------ properties
\* Once no Save is in flight the row says what the memory says, however the changes
\* under one lock were interleaved: unless a Save failed, or overlapped one of another lock
\* (SaveProviderConfig, DeleteProvider, saveProviderConfig).
EveryChangeIsSaved == (\A s \in Slots : ~Saving(s)) /\ ~torn => rows = logins

\* A provider that was saved and not deleted is in a row of the database at every
\* moment, also while an older login is replaced and after a crash in the middle of it
\* (CreateAIChatsLogin, deleteDuplicateAIChatsLogin).
SavedProvidersAreKept == ~torn => wanted \subseteq UNION {DOMAIN rows[l] : l \in DOMAIN rows}

\* Runs that refresh the same rotating token never send it after it was spent, when no
\* answer of the server and no saved row was lost (refreshProviderIfNeeded).
TokensAreSpentOnce == replayed => lost

\* The cached contacts are those of the login's providers, unless a change overlapped
\* their listing (invalidateModelContactCache).
ListIsCurrent == contacts.valid /\ ~contacts.raced => contacts.list = Listing
=============================================================================
