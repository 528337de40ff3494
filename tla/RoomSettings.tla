---------------------------- MODULE RoomSettings ----------------------------
(* The settings of an AI room and the providers they name (pkg/connector:   *)
(* room_state.go, slash_commands_*.go, chat_tools.go, client.go).  The      *)
(* settings are Matrix state: which model of which provider, its reasoning  *)
(* level and mode, and how the search and fetch tools work.  Commands of    *)
(* the portal's queue and of the bridge ("!ai"), prompts, new chats and     *)
(* the clients themselves read and write it, each a whole event at a time.  *)
(*                                                                          *)
(* A model setting is what splitModelRef makes of it; an empty provider is  *)
(* Beeper's.  A prompt resolves the setting, writes it back in its          *)
(* canonical form, and starts a run with the provider as it is then, whose  *)
(* token Providers refreshes.  A new chat's first answer is followed by a   *)
(* call for the room's title, unless the user has named the room.  The      *)
(* additional prompt, topic, avatar, capabilities, notices and the answers  *)
(* to commands that only ask are left out, as is a prompt that steers a run *)
(* (ActiveRuns).                                                            *)
EXTENDS Providers, Sequences

VARIABLES room,   \* the com.beeper.ai.model state
          tools,  \* the com.beeper.ai.tools state
          title   \* the room's name, PortalMetadata.AutoTitlePending and its saved value
vars == <<pvars, room, tools, title>>

Unset == [present |-> FALSE, p |-> "", m |-> "", level |-> "", mode |-> ""]
Setting(p, m, level, mode) == [present |-> TRUE, p |-> p, m |-> m, level |-> level, mode |-> mode]

\* ------------------------------------------------------------ models
\* The catalog of each provider, its first model the default one; a custom
\* provider's list depends on its revision.
Catalog(p, c) == IF p = "beeper" THEN <<"fast", "deep">>
                 ELSE IF p = "chatgpt" THEN <<"auto">>
                 ELSE IF c = 1 THEN <<"lab/fast">> ELSE <<"lab/deep">>
Offers(p, c) == {Catalog(p, c)[i] : i \in DOMAIN Catalog(p, c)}
\* lastModelIDPart: of a reference without a slash, which may be short for a model's id.
LastPart == [m \in {"fast", "deep", "auto", "lab/fast", "lab/deep"} |->
               IF m = "lab/fast" THEN "fast" ELSE IF m = "lab/deep" THEN "deep" ELSE m]
Ladder == <<"off", "minimal", "low", "medium", "high", "xhigh">>
\* GetSupportedThinkingLevels, of what the catalog says.
Levels(m) == IF m \in {"deep", "lab/deep"} THEN {"low", "high"}
             ELSE IF m = "auto" THEN {"off", "low", "high"} ELSE {"off"}
DefaultLevel(m) == IF m = "auto" THEN "high" ELSE "off"
ModelMode(m) == IF m = "auto" THEN "adaptive" ELSE ""

\* ClampThinkingLevel: the next level up that the model has, else the next one down.
Rank(level) == CHOOSE i \in DOMAIN Ladder : Ladder[i] = level
Clamp(m, level) ==
  LET above == {l \in Levels(m) : Rank(l) >= Rank(level)}
  IN  IF above # {} THEN CHOOSE l \in above : \A k \in above : Rank(l) <= Rank(k)
      ELSE CHOOSE l \in Levels(m) : \A k \in Levels(m) : Rank(l) >= Rank(k)

\* resolveProviderModelID: the model of a provider that an id names or is short for, or "".
ModelID(p, id) ==
  LET offers == Offers(p, Login[p])
      short == {m \in offers : LastPart[m] = id}
  IN  IF id = "" THEN Catalog(p, Login[p])[1]
      ELSE IF id \in offers THEN id
      ELSE IF short # {} THEN CHOOSE m \in short : TRUE ELSE ""

\* ResolveProvider: the model a setting names, or "".
ProviderOf(r) == IF r.p = "" THEN "beeper" ELSE r.p
ModelOf(r) == IF ProviderOf(r) \in DOMAIN Login THEN ModelID(ProviderOf(r), r.m) ELSE ""

\* reasoningLevelForModel, reasoningModeForModel and what validates them.
LevelOf(r, m) == IF r.level = "" THEN Clamp(m, DefaultLevel(m)) ELSE r.level
ModeOf(r, m) == IF r.mode \in {"", "default"} THEN ModelMode(m) ELSE r.mode
Valid(r) == /\ ModelOf(r) # ""
            /\ r.level # "" => r.level \in Levels(ModelOf(r))
            /\ r.mode \notin {"", "default"} => r.mode = ModelMode(ModelOf(r))

\* resolveCanonicalRoomModel and roomModelStateContent: what the bridge writes for a setting.
Canonical(r) == Setting(ProviderOf(r), ModelOf(r), LevelOf(r, ModelOf(r)), ModeOf(r, ModelOf(r)))

\* roomSearchMode and roomFetchMode.
ToolMode(mode) == IF mode = "" THEN "beeper" ELSE mode

\* ------------------------------------------------------------ the tools of a run
\* What a catalog says of a model: its API, whether OpenRouter serves it, the built-in
\* tools it lists, and whether it takes the bridge's tools.
Traits(m) ==
  IF m = "fast" THEN [api |-> "responses", router |-> FALSE, lists |-> {"search"}, takes |-> TRUE]
  ELSE IF m = "deep" THEN [api |-> "anthropic", router |-> FALSE, lists |-> {"search", "fetch"}, takes |-> TRUE]
  ELSE IF m = "auto" THEN [api |-> "codex", router |-> FALSE, lists |-> {"search"}, takes |-> TRUE]
  ELSE [api |-> "completions", router |-> TRUE, lists |-> {"search", "fetch"}, takes |-> m = "lab/fast"]

\* nativeWebSearchToolPayload and nativeWebFetchToolPayload: whether the API has the tool.
Native(t, use) == \/ t.api = "anthropic"
                  \/ t.api \in {"responses", "completions"} /\ t.router
                  \/ t.api = "responses" /\ use = "search"

\* activeBuiltInToolPayloads: each tool once, in the room's native mode.
BuiltIns(t, modes) == {use \in t.lists : Native(t, use) /\ modes[use] = "native"}

\* chatTools: Beeper's search needs Beeper's provider, its fetch does not.
BridgeTools(t, modes, p) ==
  IF ~t.takes THEN {}
  ELSE {use \in {"search", "fetch"} : modes[use] = "beeper" /\ (use = "search" => p = "beeper")}

\* registerProviderBuiltInToolHooks decides on Anthropic's header on its own.
FetchHeader(t, modes) == t.api = "anthropic" /\ modes.fetch = "native" /\ "fetch" \in t.lists /\ Native(t, "fetch")

\* ------------------------------------------------------------ commands
\* Whoever read the settings before this write works on old ones.
Raced(f) == [s \in Slots |-> IF f[s].at \in {"reply", "normalise"} THEN [f[s] EXCEPT !.raced = TRUE] ELSE f[s]]
RoomUntouched == UNCHANGED <<foreign, logins, rows, issued, live, expired, contacts, wanted, torn, lost, replayed>>

\* handleAISlashCommand and handleBridgeAICommand read the settings first.
Command(op, p, word) ==
  /\ Loaded
  /\ Begins([Idle EXCEPT !.op = op, !.at = "reply", !.pid = p, !.word = word,
                         !.seen = [room |-> room, tools |-> tools]])
  /\ RoomUntouched /\ UNCHANGED <<room, tools, title, faults>>

\* The setting a command asks for: applyModelCommand keeps a level the room has,
\* applyReasoningCommand and applyReasoningModeCommand keep the model.
Target(s) ==
  LET r == calls[s].seen.room
      w == calls[s].word
  IN  IF calls[s].op = "model" THEN Setting(calls[s].pid, w, r.level, "")
      ELSE IF calls[s].op = "reasoning" THEN [r EXCEPT !.level = w]
      ELSE [r EXCEPT !.mode = w]

\* A setting its model does not have is rejected; else the whole state is written.
AnswerModel(s) ==
  /\ At(s, "reply") /\ calls[s].op \in {"model", "reasoning", "mode"}
  /\ IF Valid(Target(s))
     THEN /\ room' = Canonical(Target(s))
          /\ calls' = Raced(End(s))
     ELSE /\ calls' = End(s)
          /\ UNCHANGED room
  /\ RoomUntouched /\ UNCHANGED <<tools, title, made, faults>>

\* Changed in a mutant: the other tool's mode is not written back.
ToolsWithoutOther(s) ==
  IF calls[s].op = "search" THEN [search |-> calls[s].word, fetch |-> "beeper"]
  ELSE [search |-> "beeper", fetch |-> calls[s].word]

\* toolModeStateContent.
ToolsAfter(s) ==
  LET t == calls[s].seen.tools
  IN  IF calls[s].op = "search" THEN [search |-> calls[s].word, fetch |-> ToolMode(t.fetch)]
      ELSE [search |-> ToolMode(t.search), fetch |-> calls[s].word]

\* runSearchModeCommand and runFetchModeCommand.
AnswerTools(s) ==
  /\ At(s, "reply") /\ calls[s].op \in {"search", "fetch"}
  /\ tools' = ToolsAfter(s)
  /\ calls' = Raced(End(s))
  /\ RoomUntouched /\ UNCHANGED <<room, title, made, faults>>

\* ------------------------------------------------------------ prompts
\* handleMatrixMessage reads the settings.
Prompt ==
  /\ Loaded
  /\ Begins([Idle EXCEPT !.op = "prompt", !.at = "normalise", !.seen = [room |-> room, tools |-> tools]])
  /\ RoomUntouched /\ UNCHANGED <<room, tools, title, faults>>

\* normalizeRoomStateForPrompt: rejects what does not resolve, and writes the canonical
\* setting when the room has one that says it otherwise.
Normalise(s) ==
  LET r == calls[s].seen.room IN
  /\ At(s, "normalise")
  /\ IF Valid(r)
     THEN LET going == [calls EXCEPT ![s].at = "start", ![s].raced = FALSE,
                                     ![s].seen = [room |-> Canonical(r), tools |-> calls[s].seen.tools]]
          IN  IF r.present /\ r # Canonical(r)
              THEN /\ room' = Canonical(r)
                   /\ calls' = Raced(going)
              ELSE /\ calls' = going
                   /\ UNCHANGED room
     ELSE /\ calls' = End(s)
          /\ UNCHANGED room
  /\ RoomUntouched /\ UNCHANGED <<tools, title, made, faults>>

RunOf(s, m) ==
  LET p == ProviderOf(calls[s].seen.room)
      modes == [use \in {"search", "fetch"} |-> ToolMode(calls[s].seen.tools[use])]
  IN  [Idle EXCEPT !.op = "run", !.at = "auth", !.pid = p, !.cfg = Login[p], !.word = m,
                   !.seen = [level |-> calls[s].seen.room.level, modes |-> modes,
                             bridge |-> BridgeTools(Traits(m), modes, p),
                             native |-> BuiltIns(Traits(m), modes), header |-> FetchHeader(Traits(m), modes)]]

\* Changed in a mutant: the model is not resolved again.
StartUnresolved(s) ==
  LET r == calls[s].seen.room IN
  /\ At(s, "start")
  /\ calls' = IF r.p \in DOMAIN Login THEN [calls EXCEPT ![s] = RunOf(s, r.m)] ELSE End(s)
  /\ RoomUntouched /\ UNCHANGED <<room, tools, title, made, faults>>

\* handleMatrixMessageWithConfig resolves and validates again: the provider may have changed.
Start(s) ==
  LET r == calls[s].seen.room IN
  /\ At(s, "start")
  /\ calls' = IF Valid(r) THEN [calls EXCEPT ![s] = RunOf(s, ModelOf(r))] ELSE End(s)
  /\ RoomUntouched /\ UNCHANGED <<room, tools, title, made, faults>>

\* ------------------------------------------------------------ chats and clients
\* createModelChat for a contact: resolved first, the room created to be titled later, and
\* then its state written.
NewChat(p, m) ==
  /\ Loaded /\ ~room.present /\ title.name = "default"
  /\ Valid(Setting(p, m, "", ""))
  /\ Begins([Idle EXCEPT !.op = "chat", !.at = "chat",
                         !.seen = [room |-> Canonical(Setting(p, m, "", "")), tools |-> tools]])
  /\ title' = [name |-> "default", pending |-> TRUE, saved |-> TRUE]
  /\ RoomUntouched /\ UNCHANGED <<room, tools, faults>>

ChatWritten(s) ==
  /\ At(s, "chat")
  /\ room' = calls[s].seen.room
  /\ calls' = Raced(End(s))
  /\ RoomUntouched /\ UNCHANGED <<tools, title, made, faults>>

\* titleGenerationModel: a small model of the provider, if it offers one.
TitleModel(s) == IF "fast" \in Offers(calls[s].pid, calls[s].cfg) THEN "fast" ELSE calls[s].word

\* generateSessionTitle, after an answer without calls of tools.
AskTitle(s) ==
  /\ At(s, "call") /\ calls[s].op = "run" /\ title.pending
  /\ calls' = [calls EXCEPT ![s] = [Idle EXCEPT !.op = "title", !.at = "auth", !.pid = calls[s].pid,
                                                !.cfg = calls[s].cfg, !.word = TitleModel(s)]]
  /\ RoomUntouched /\ UNCHANGED <<room, tools, title, made, faults>>

\* Generate and cleanTitle: what is left of the answer, which may be nothing.
Titles == {"", "generated"}

\* A title is saved and names the room; a call that failed, or whose title the session
\* did not take, is a Call that ends.
Titled(s) ==
  /\ At(s, "call") /\ calls[s].op = "title"
  /\ \E name \in Titles :
       title' = IF name = "" THEN title ELSE [name |-> name, pending |-> FALSE, saved |-> FALSE]
  /\ calls' = End(s)
  /\ RoomUntouched /\ UNCHANGED <<room, tools, made, faults>>

\* The portal's Save fails: the room keeps its name, and is not to be titled again.
TitleUnsaved(s) ==
  /\ At(s, "call") /\ calls[s].op = "title" /\ Fault
  /\ title' = [title EXCEPT !.pending = FALSE]
  /\ calls' = End(s)
  /\ RoomUntouched /\ UNCHANGED <<room, tools, made>>

\* A client writes the state itself: short, without a level, or wrong; or disables tools.
ClientEdits ==
  /\ Fault
  /\ \/ /\ room' \in {Setting("", "deep", "", ""), Setting("custom", "fast", "", ""),
                       Setting("chatgpt", "auto", "low", "default")}
        /\ UNCHANGED tools
     \/ /\ tools' = [search |-> "off", fetch |-> ""]
        /\ UNCHANGED room
  /\ calls' = Raced(calls)
  /\ RoomUntouched /\ UNCHANGED <<title, made>>

Overtaken == [s \in Slots |-> IF calls[s].op = "title" THEN [calls[s] EXCEPT !.raced = TRUE] ELSE calls[s]]

\* Changed in a mutant: the room is still to be titled.
RenameOnly ==
  /\ Fault /\ title.name # "user"
  /\ title' = [title EXCEPT !.name = "user"]
  /\ calls' = Overtaken
  /\ RoomUntouched /\ UNCHANGED <<room, tools, made>>

\* HandleMatrixRoomName: the user names the room.
Rename ==
  /\ Fault /\ title.name # "user"
  /\ title' = [name |-> "user", pending |-> FALSE, saved |-> FALSE]
  /\ calls' = Overtaken
  /\ RoomUntouched /\ UNCHANGED <<room, tools, made>>

\* The portal is loaded again, as the last Save left it; a run's end may have saved it.
Restart ==
  /\ Crash
  /\ title' \in {title, [title EXCEPT !.pending = title.saved]}
  /\ UNCHANGED <<room, tools>>

Init == PInit /\ room = Unset /\ tools = [search |-> "", fetch |-> ""]
        /\ title = [name |-> "default", pending |-> FALSE, saved |-> FALSE]

Next == \/ PNext /\ UNCHANGED <<room, tools, title>>
        \/ \E ref \in {<<"", "deep">>, <<"custom", "deep">>, <<"chatgpt", "auto">>} :
             Command("model", ref[1], ref[2])
        \/ \E level \in {"off", "low"} : Command("reasoning", "", level)
        \/ Command("mode", "", "adaptive")
        \/ \E op \in {"search", "fetch"} : Command(op, "", "native")
        \/ Prompt \/ ClientEdits \/ Rename \/ Restart
        \/ NewChat("custom", "lab/fast")
        \/ \E s \in Slots : AnswerModel(s) \/ AnswerTools(s) \/ Normalise(s) \/ Start(s) \/ ChatWritten(s)
                             \/ AskTitle(s) \/ Titled(s) \/ TitleUnsaved(s)
Spec == Init /\ [][Next]_vars

\* ------------------------------------------------------------ properties
\* What a setting means with the providers of this moment.
Meaning(r) == IF Valid(r) THEN [p |-> ProviderOf(r), m |-> ModelOf(r), level |-> LevelOf(r, ModelOf(r))] ELSE Unset
Answers(s) == At(s, "reply") /\ ~calls[s].raced /\ calls'[s] = Idle

\* When nobody wrote the settings since it read them, a command changes only what it
\* names of what they mean: the level for /reasoning, nothing more for /reasoning-mode, a
\* level the room had is kept by /model, and one tool's mode by the other's command
\* (writeRoomModelState and toolModeStateContent write the whole state).
SettingsKeepTheRest ==
  [][\A s \in Slots : Answers(s) =>
       /\ calls[s].op = "model" /\ room' # room /\ room.level # "" => room'.level = room.level
       /\ calls[s].op \in {"reasoning", "mode"} /\ room' # room /\ Valid(room) =>
            Meaning(room') = [Meaning(room) EXCEPT !.level = IF calls[s].op = "reasoning" THEN calls[s].word ELSE @]
       /\ calls[s].op = "search" => ToolMode(tools'.fetch) = ToolMode(tools.fetch)
       /\ calls[s].op = "fetch" => ToolMode(tools'.search) = ToolMode(tools.search)]_vars

\* A run is what its room and its model say, whatever was saved, deleted or written
\* since its prompt read the settings: it calls a model its provider offers, at a level
\* the model has (handleMatrixMessageWithConfig), and searches and fetches in one way
\* each, the room's: no tool of the provider that the room did not choose, never two
\* tools for one use, and Anthropic's header with Anthropic's fetch tool (chatTools and
\* the hooks of registerProviderBuiltInToolHooks decide separately).
ToolsAreTheRooms(s) ==
  LET run == calls[s].seen IN
  /\ run.bridge \intersect run.native = {}
  /\ \A use \in {"search", "fetch"} : run.modes[use] = "off" => use \notin run.bridge \union run.native
  /\ run.header = ("fetch" \in run.native /\ Traits(calls[s].word).api = "anthropic")
RunsFitTheirModel == \A s \in Slots : calls[s].op \in {"run", "title"} =>
                       /\ calls[s].word \in Offers(calls[s].pid, calls[s].cfg)
                       /\ calls[s].op = "run" => /\ calls[s].seen.level \in Levels(calls[s].word)
                                                 /\ ToolsAreTheRooms(s)

\* A name the user gave the room stays, unless a title was already being generated
\* (generateSessionTitle looks at AutoTitlePending once, HandleMatrixRoomName resets it).
NamesStay ==
  [][title.name = "user" /\ title'.name # "user" =>
       \E s \in Slots : calls[s].op = "title" /\ calls[s].raced]_vars

\* README.md:434 and 518: the reasoning level is clamped to the model when a model is
\* set, so that a command that names an offered model is obeyed.
ModelCommandsAreObeyed ==
  [][\A s \in Slots : Answers(s) /\ calls[s].op = "model" /\ Loaded /\ ModelOf(Target(s)) # "" /\ made' = made /\ faults' = faults
       => room'.m = ModelOf(Target(s))]_vars
=============================================================================
