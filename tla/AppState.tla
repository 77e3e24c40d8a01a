------------------------------ MODULE AppState ------------------------------
(***************************************************************************)
(* The client: state/app.py with its pages, operations and workers, the    *)
(* preferences of home_config/store.py, the setup gate of config_gate.py,  *)
(* and the turn stream of api/client.py.  Which packages the catalog holds *)
(* after an import is ModStore's: here it is any set of them.              *)
(*                                                                         *)
(* Everything on AppState runs on Ren'Py's main thread, a click or a       *)
(* callback at a time.  An operation has a worker thread that asks the     *)
(* server and ends by queueing a callback; a turn has a reader thread that *)
(* queues one per event.  What the server answers is any of the outcomes   *)
(* the client tells apart.  The buttons of a page are always there: that   *)
(* an overlay covers them during an operation is not relied on.            *)
(*                                                                         *)
(* Closing a response waits for a reader that is blocked in it (both hold  *)
(* its buffer's lock), and the main thread with it.  The process may die   *)
(* at any step and be launched again.                                      *)
(***************************************************************************)
EXTENDS Naturals, Sequences

CONSTANTS
  Bundled,         \* the characters that come with the game
  Mods,            \* packages that may be installed
  Ids, MaxTurns,   \* operation and turn ids: one is used again once nothing is
                   \* left of what had it
  MaxQueue         \* bound on the callbacks queued when a reader adds one

NoPack == "none"

ASSUME AppAssumption ==
  /\ Bundled # {} /\ Bundled \cap Mods = {}
  /\ NoPack \notin Bundled \cup Mods
  /\ Ids \in Nat \ {0, 1}       \* more than the workers alive
  /\ MaxTurns \in Nat \ {0, 1}  \* a turn may outlive its successor's start
  /\ MaxQueue \in Nat \ {0}

Packs == Bundled \cup Mods
Turns == 1..MaxTurns
NoTurn == 0

Pages == {"loading", "config", "character_select", "mod_manager", "main"}
Operations == {"starting", "recovering", "importing", "applying", "resetting",
               "loading_config", "saving_config"}
NoOperation == "none"
Recoveries == {"", "server_connection", "server_config", "assistant_config"}
TurnHandlers == {"on_event", "on_error", "on_complete"}
Events == {"progress", "done", "error"}   \* progress: delta, assistant and tool_result

VARIABLES
  \* AppState
  page, operation, operation_id, starting, ready,
  error,              \* the error of the loading page, and what it offers:
  loading_recovery,
  characters, character,
  assistant,          \* selected_character_id of assistant_config
  provider_configured,
  server,             \* whose url and token the client uses
  pending_pairing,    \* there is a link
  busy, active_turn_id,
  \* Ren'Py
  main,               \* the main thread: launching, free, or cancelling a turn
  queue,              \* invoke_in_main_thread
  \* persistent data
  prefs,              \* "ok", or what load rejects of them
  selected,           \* selected_character_id
  credentials,        \* server_url and server_token
  \* threads
  worker,             \* the step of the operation's worker
  subject,            \* the character it has captured
  spent,              \* the server has accepted the code of the pending link
  reader,             \* the step of each turn's reader
  response,           \* its response: none yet, open or closed
  cancelled           \* turns whose handle is cancelled

op_vars == <<operation, operation_id, worker, subject>>
load_vars == <<starting, ready, error, loading_recovery>>
pair_vars == <<server, pending_pairing, spent>>
char_vars == <<characters, character, assistant, provider_configured>>
turn_vars == <<busy, active_turn_id>>
store_vars == <<prefs, selected, credentials>>
thread_vars == <<reader, response, cancelled>>
vars == <<page, main, queue, op_vars, load_vars, pair_vars, char_vars, turn_vars, store_vars,
          thread_vars>>

\* A queued callback: the handler, whose it is, and the arguments in use.
Callback(handler, id) ==
  [to |-> handler, id |-> id, pack |-> NoPack, packs |-> {}, ok |-> FALSE, what |-> ""]

TypeOK ==
  /\ page \in Pages
  /\ operation \in Operations \cup {NoOperation}
  /\ operation_id \in 0..Ids
  /\ starting \in BOOLEAN /\ ready \in BOOLEAN /\ error \in BOOLEAN
  /\ loading_recovery \in Recoveries
  /\ characters \in SUBSET Packs
  /\ character \in Packs \cup {NoPack}
  /\ assistant \in Packs \cup {NoPack}
  /\ provider_configured \in BOOLEAN
  /\ server \in {"local", "remote"}
  /\ pending_pairing \in BOOLEAN /\ spent \in BOOLEAN
  /\ busy \in BOOLEAN
  /\ active_turn_id \in Turns \cup {NoTurn}
  /\ main \in {"launch", "free", "cancel"}
  /\ \A i \in DOMAIN queue : queue[i].id \in Nat /\ queue[i].packs \in SUBSET Packs
  /\ prefs \in {"ok", "bad", "bad_url"}
  /\ selected \in Packs \cup {NoPack}
  /\ credentials \in {"default", "paired"}
  /\ worker \in {"idle", "local", "pair", "verify", "catalog", "request", "picker", "install"}
  /\ subject \in Packs \cup {NoPack}
  /\ reader \in [Turns -> {"idle", "connecting", "attaching", "next", "reading", "got"}]
  /\ response \in [Turns -> {"none", "open", "closed"}]
  /\ cancelled \in SUBSET Turns

\* What a process starts with, the link it was launched with included.
Memory ==
  /\ page = "loading" /\ operation = NoOperation /\ operation_id = 0
  /\ starting = FALSE /\ ready = FALSE /\ error = FALSE /\ loading_recovery = ""
  /\ characters = {} /\ character = NoPack /\ assistant = NoPack
  /\ provider_configured = FALSE
  /\ server = "local"
  /\ pending_pairing \in BOOLEAN /\ spent = FALSE
  /\ busy = FALSE /\ active_turn_id = NoTurn
  /\ main = "launch" /\ queue = <<>>
  /\ worker = "idle" /\ subject = NoPack
  /\ reader = [t \in Turns |-> "idle"]
  /\ response = [t \in Turns |-> "none"]
  /\ cancelled = {}

Init ==
  /\ Memory
  /\ prefs \in {"ok", "bad", "bad_url"}
  /\ selected = NoPack /\ credentials = "default"

-----------------------------------------------------------------------------
\* Operations.  _begin_operation raises while one is active: no caller does.
\* The next id is one no queued callback has.
NextId(calls) ==
  CHOOSE id \in 1..Ids :
    \A i \in DOMAIN calls : calls[i].to \notin TurnHandlers => calls[i].id # id

Begin(op, step_of_worker, pack, calls) ==
  /\ operation' = op
  /\ operation_id' = NextId(calls)
  /\ worker' = step_of_worker
  /\ subject' = pack

EndOperation ==
  /\ operation' = NoOperation
  /\ UNCHANGED <<operation_id, worker, subject>>

\* invoke, the last thing a worker does.
Finish(callback) ==
  /\ queue' = Append(queue, callback)
  /\ worker' = "idle"
  /\ subject' = NoPack
  /\ UNCHANGED <<operation, operation_id>>

Answer(handler) == Callback(handler, operation_id)

\* Mutant: the error handed over where the recovery belongs.
SwappedFailure(recovery) == [Answer("loading_failed") EXCEPT !.what = "error"]

LoadingFailure(recovery) == [Answer("loading_failed") EXCEPT !.what = recovery]

\* A click is handled when the main thread is free and the button is there.
Click(p) == main = "free" /\ page = p

Idle == ~busy /\ operation = NoOperation

-----------------------------------------------------------------------------
\* start_loading after its guard: preferences that do not load end it at once.
StartLoading(calls) ==
  /\ page' = "loading"
  /\ operation_id' = NextId(calls)
  /\ \/ /\ prefs = "ok"
        /\ operation' = "starting" /\ worker' = "local" /\ subject' = selected
        /\ starting' = TRUE /\ error' = FALSE /\ loading_recovery' = ""
     \/ /\ prefs # "ok"
        /\ operation' = NoOperation /\ worker' = "idle" /\ subject' = NoPack
        /\ starting' = FALSE /\ error' = TRUE
        /\ loading_recovery' = IF prefs = "bad_url" THEN "server_connection"
                               ELSE "assistant_config"
  /\ ready' = FALSE

Launch ==
  /\ main = "launch"
  /\ main' = "free"
  /\ StartLoading(queue)
  /\ UNCHANGED <<queue, pair_vars, char_vars, turn_vars, store_vars, thread_vars>>

CanLoad == ~starting /\ ~ready /\ operation = NoOperation

Retry ==
  /\ Click("loading") /\ error /\ CanLoad
  /\ StartLoading(queue)
  /\ UNCHANGED <<main, queue, pair_vars, char_vars, turn_vars, store_vars, thread_vars>>

\* reset_server_config and reset_assistant_config, once confirmed.
ResetServerConfig ==
  /\ Click("loading") /\ error /\ loading_recovery = "server_config" /\ CanLoad
  /\ Begin("recovering", "request", NoPack, queue)
  /\ error' = FALSE
  /\ UNCHANGED <<page, main, queue, starting, ready, loading_recovery, pair_vars, char_vars,
                 turn_vars, store_vars, thread_vars>>

ResetPreferences ==
  /\ prefs' = "ok"
  /\ selected' = NoPack
  /\ credentials' = "default"

ResetAssistantConfig ==
  /\ Click("loading") /\ error /\ loading_recovery = "assistant_config" /\ CanLoad
  /\ ResetPreferences
  /\ page' = "loading" /\ operation_id' = NextId(queue)
  /\ operation' = "starting" /\ worker' = "local" /\ subject' = NoPack
  /\ starting' = TRUE /\ error' = FALSE /\ loading_recovery' = ""
  /\ UNCHANGED <<main, queue, ready, pair_vars, char_vars, turn_vars, thread_vars>>

-----------------------------------------------------------------------------
\* The worker of start_loading: the local server, else the one of the link,
\* else the one of the preferences; then the catalog.  An answer that is no
\* ApiError offers no recovery.
LoadFails(recovery) == Finish(LoadingFailure(recovery))

Proceed(to) ==
  /\ worker' = to
  /\ UNCHANGED <<queue, operation, operation_id, subject>>

CheckLocal ==
  /\ worker = "local"
  /\ server' = "local"
  /\ \/ Proceed("catalog")
     \/ \E recovery \in {"", "server_config"} : LoadFails(recovery)
     \/ Proceed(IF pending_pairing THEN "pair" ELSE "verify")
  /\ UNCHANGED <<pending_pairing, spent, store_vars>>

\* The code is good once, and the answer may be lost.
Pair ==
  /\ worker = "pair"
  /\ \/ ~spent /\ spent' = TRUE /\ Proceed("verify")
     \/ /\ spent' \in {spent, TRUE}
        /\ \E recovery \in {"", "server_connection"} : LoadFails(recovery)
  /\ UNCHANGED <<server, pending_pairing, store_vars>>

\* check_health and load_server_config of a server that is not the local one;
\* the credentials of a link are saved once both have passed.
Verify ==
  /\ worker = "verify"
  /\ server' = IF pending_pairing \/ credentials = "paired" THEN "remote" ELSE "local"
  /\ \/ /\ Proceed("catalog")
        /\ spent' = FALSE
        /\ credentials' = IF pending_pairing THEN "paired" ELSE credentials
        /\ pending_pairing' = FALSE
     \/ /\ \E recovery \in {"", "server_connection"} : LoadFails(recovery)
        /\ UNCHANGED <<spent, pending_pairing, credentials>>
  /\ UNCHANGED <<prefs, selected>>

ReadCatalog ==
  /\ worker = "catalog"
  /\ \/ LoadFails("")
     \/ \E mods \in SUBSET Mods, configured \in BOOLEAN :
          Finish([Answer("loading_ok") EXCEPT !.pack = subject, !.packs = Bundled \cup mods,
                                              !.ok = configured])
  /\ UNCHANGED <<pair_vars, store_vars>>

\* The worker of an operation that is one request.
Handler == [recovering     |-> <<"recovered", "recovery_failed">>,
            applying       |-> <<"character_ready", "failed">>,
            resetting      |-> <<"reset_ok", "failed">>,
            loading_config |-> <<"config_loaded", "failed">>,
            saving_config  |-> <<"config_saved", "failed">>]

Request ==
  /\ worker = "request" /\ operation \in DOMAIN Handler
  /\ \/ \E configured \in BOOLEAN :
          Finish([Answer(Handler[operation][1]) EXCEPT !.pack = subject, !.ok = configured])
     \/ Finish(Answer(Handler[operation][2]))
  /\ UNCHANGED <<pair_vars, store_vars>>

\* The worker of an import: what loads after it, or nothing if that fails.
Install ==
  /\ worker = "install"
  /\ \/ \E mods \in SUBSET Mods :
          Finish([Answer("import_finished") EXCEPT !.packs = Bundled \cup mods])
     \/ Finish(Answer("failed"))
  /\ UNCHANGED <<pair_vars, store_vars>>

Work ==
  /\ CheckLocal \/ Pair \/ Verify \/ ReadCatalog \/ Request \/ Install
  /\ UNCHANGED <<page, main, load_vars, char_vars, turn_vars, thread_vars>>

-----------------------------------------------------------------------------
\* The picker answers, now or whenever the user does.
Pick ==
  /\ worker = "picker"
  /\ \E staged \in BOOLEAN : Finish([Answer("picked") EXCEPT !.ok = staged])
  /\ UNCHANGED <<page, main, load_vars, pair_vars, char_vars, turn_vars, store_vars, thread_vars>>

-----------------------------------------------------------------------------
\* Mutant: some character is applied, the selected one or not.
SomeApplied == character' # NoPack

Applied == character' = assistant'

\* _route_from_readiness, on what the handler has just assigned.
Route(calls) ==
  LET ready_for == provider_configured' /\ assistant' \in characters'
  IN  /\ page' = CASE ready_for /\ Applied     -> "main"
                   [] ready_for /\ ~Applied    -> page
                   [] ~provider_configured'    -> "config"
                   [] OTHER                    -> "character_select"
      /\ IF ready_for /\ ~Applied THEN Begin("applying", "request", assistant', calls)
         ELSE EndOperation

\* The callbacks of operations, each dropped unless its operation is current.
LoadingOk(c) ==
  /\ starting' = FALSE /\ ready' = TRUE /\ error' = FALSE /\ loading_recovery' = ""
  /\ characters' = c.packs
  /\ assistant' = c.pack
  /\ provider_configured' = c.ok
  /\ UNCHANGED character
  /\ Route(Tail(queue))

LoadingFailed(c) ==
  /\ starting' = FALSE /\ ready' = FALSE /\ error' = TRUE /\ loading_recovery' = c.what
  /\ EndOperation
  /\ UNCHANGED <<page, char_vars>>

Recovered(c) ==
  /\ StartLoading(Tail(queue))
  /\ UNCHANGED char_vars

\* Mutant: the operation is not ended.
RecoveryFailedStill(c) ==
  /\ error' = TRUE
  /\ UNCHANGED <<page, op_vars, starting, ready, loading_recovery, char_vars>>

RecoveryFailed(c) ==
  /\ error' = TRUE
  /\ EndOperation
  /\ UNCHANGED <<page, starting, ready, loading_recovery, char_vars>>

\* _character_failed, _reset_failed, _config_failed and _mod_import_failed
\* differ in the status, and in an error no page but the loading page shows.
Failed(c) ==
  /\ EndOperation
  /\ UNCHANGED <<page, load_vars, char_vars>>

CharacterReady(c) ==
  /\ EndOperation
  /\ character' = c.pack
  /\ page' = "main"
  /\ UNCHANGED <<load_vars, characters, assistant, provider_configured>>

ResetOk(c) ==
  /\ EndOperation
  /\ character' = c.pack
  /\ UNCHANGED <<page, load_vars, characters, assistant, provider_configured>>

ConfigLoaded(c) ==
  /\ EndOperation
  /\ provider_configured' = c.ok
  /\ UNCHANGED <<page, load_vars, characters, character, assistant>>

ConfigSaved(c) ==
  /\ assistant' = c.pack
  /\ provider_configured' = c.ok
  /\ UNCHANGED <<load_vars, characters, character>>
  /\ Route(Tail(queue))

\* _mod_picker_finished: no archive ends the operation.
Picked(c) ==
  /\ IF c.ok THEN worker' = "install" /\ UNCHANGED <<operation, operation_id, subject>>
     ELSE EndOperation
  /\ UNCHANGED <<page, load_vars, char_vars>>

\* _refresh_character_catalog: the character may be gone from the catalog.
ImportFinished(c) ==
  /\ EndOperation
  /\ characters' = c.packs
  /\ character' = IF character \in c.packs THEN character ELSE NoPack
  /\ UNCHANGED <<page, load_vars, assistant, provider_configured>>

OperationIsCurrent(id) == operation # NoOperation /\ operation_id = id

Ignored == UNCHANGED <<page, op_vars, load_vars, char_vars>>

OnOperation(c) ==
  /\ IF ~OperationIsCurrent(c.id) THEN Ignored
     ELSE \/ c.to = "loading_ok" /\ LoadingOk(c)
          \/ c.to = "loading_failed" /\ LoadingFailed(c)
          \/ c.to = "recovered" /\ Recovered(c)
          \/ c.to = "recovery_failed" /\ RecoveryFailed(c)
          \/ c.to = "failed" /\ Failed(c)
          \/ c.to = "character_ready" /\ CharacterReady(c)
          \/ c.to = "reset_ok" /\ ResetOk(c)
          \/ c.to = "config_loaded" /\ ConfigLoaded(c)
          \/ c.to = "config_saved" /\ ConfigSaved(c)
          \/ c.to = "picked" /\ Picked(c)
          \/ c.to = "import_finished" /\ ImportFinished(c)
  /\ UNCHANGED <<busy, active_turn_id, cancelled>>

-----------------------------------------------------------------------------
\* The callbacks of a turn, each dropped unless its turn is current.
\* Mutant: any turn's callback is taken for the current one's.
AnyTurn(t) == busy

TurnIsCurrent(t) == busy /\ active_turn_id = t

EndTurn == busy' = FALSE /\ active_turn_id' = NoTurn

OnEvent(e) ==
  \/ e = "progress" /\ UNCHANGED <<busy, active_turn_id>>
  \/ e \in {"done", "error"} /\ EndTurn

\* Nothing is left of a turn: its handle goes, and its id may be used again.
Over(t, calls) ==
  /\ reader[t] = "idle"
  /\ \A i \in DOMAIN calls : calls[i].to \in TurnHandlers => calls[i].id # t

OnTurn(c) ==
  /\ \/ ~TurnIsCurrent(c.id) /\ UNCHANGED <<busy, active_turn_id>>
     \/ TurnIsCurrent(c.id) /\ c.to = "on_event" /\ c.id \notin cancelled /\ OnEvent(c.what)
     \/ TurnIsCurrent(c.id) /\ (c.to # "on_event" \/ c.id \in cancelled) /\ EndTurn
  /\ cancelled' = IF Over(c.id, Tail(queue)) THEN cancelled \ {c.id} ELSE cancelled
  /\ UNCHANGED <<page, op_vars, load_vars, char_vars>>

\* The main thread runs the oldest callback.
RunCallback ==
  /\ main = "free" /\ queue # <<>>
  /\ queue' = Tail(queue)
  /\ IF Head(queue).to \in TurnHandlers THEN OnTurn(Head(queue)) ELSE OnOperation(Head(queue))
  /\ UNCHANGED <<main, pair_vars, store_vars, reader, response>>

\* send and choose.
Free(t) == Over(t, queue)
NextTurn == CHOOSE t \in Turns : Free(t)

StreamTurn(t) ==
  /\ active_turn_id' = t
  /\ busy' = TRUE
  /\ reader' = [reader EXCEPT ![t] = "connecting"]
  /\ UNCHANGED <<page, response, cancelled, op_vars>>

\* _force_config: the turn does not start without a provider.
ForceConfig ==
  /\ page' = "config"
  /\ Begin("loading_config", "request", NoPack, queue)
  /\ UNCHANGED <<turn_vars, thread_vars>>

Send ==
  /\ Click("main") /\ ready /\ ~busy /\ character # NoPack
  /\ \E t \in Turns : Free(t)
  /\ IF provider_configured THEN StreamTurn(NextTurn) ELSE ForceConfig
  /\ UNCHANGED <<main, queue, load_vars, pair_vars, char_vars, store_vars>>

\* TurnHandle.cancel: the flag first, then the response, if it is attached.
\* close waits for a reader inside it.
Cancel ==
  /\ Click("main") /\ busy
  /\ cancelled' = cancelled \cup {active_turn_id}
  /\ main' = "cancel"
  /\ UNCHANGED <<page, queue, op_vars, load_vars, pair_vars, char_vars, turn_vars, store_vars,
                 reader, response>>

CloseResponse ==
  /\ main = "cancel"
  /\ reader[active_turn_id] # "reading"
  /\ response' = [response EXCEPT ![active_turn_id] = IF @ = "open" THEN "closed" ELSE @]
  /\ main' = "free"
  /\ UNCHANGED <<page, queue, op_vars, load_vars, pair_vars, char_vars, turn_vars, store_vars,
                 reader, cancelled>>

-----------------------------------------------------------------------------
\* The reader of a turn.
OnEventOf(t, e) == [Callback("on_event", t) EXCEPT !.what = e]

\* run ends, leaving the response's `with`: on_complete if it was cancelled
\* or its turn completed, on_error if it failed.  A cancellation that comes in
\* between finds a response that is closed, and a callback on its way.
EndReader(t, calls) ==
  /\ reader' = [reader EXCEPT ![t] = "idle"]
  /\ response' = [response EXCEPT ![t] = "none"]
  /\ queue' = queue \o calls
  /\ UNCHANGED cancelled

\* Mutant: the reader of a cancelled turn leaves without a word.
QuietFailure(t) ==
  EndReader(t, IF t \in cancelled THEN <<>> ELSE <<Callback("on_error", t)>>)

FailReader(t) ==
  EndReader(t, <<Callback(IF t \in cancelled THEN "on_complete" ELSE "on_error", t)>>)

Goto(t, to) ==
  /\ reader' = [reader EXCEPT ![t] = to]
  /\ UNCHANGED <<queue, response, cancelled>>

\* urlopen
Connect(t) ==
  /\ reader[t] = "connecting"
  /\ Goto(t, "attaching") \/ FailReader(t)

\* Mutant: attach does not look at the flag.
AttachedOpen(t) == "open"

\* attach, with the handle's lock: a turn cancelled before is closed here.
AttachedAs(t) == IF t \in cancelled THEN "closed" ELSE "open"

Attach(t) ==
  /\ reader[t] = "attaching"
  /\ reader' = [reader EXCEPT ![t] = "next"]
  /\ response' = [response EXCEPT ![t] = AttachedAs(t)]
  /\ UNCHANGED <<queue, cancelled>>

\* parse_sse: the next line, or the end of a closed response.
BeginRead(t) ==
  /\ reader[t] = "next"
  /\ IF response[t] = "open" THEN Goto(t, "reading") ELSE FailReader(t)

\* A heartbeat, an event, or the end, the timeout or an invalid line.  The flag
\* is read before the event is queued: the turn may be cancelled in between.
EndRead(t) ==
  /\ reader[t] = "reading"
  /\ \/ Goto(t, "next")
     \/ t \notin cancelled /\ Goto(t, "got")
     \/ FailReader(t)

\* invoke.  After the last event the reader only ends, and what it still queues
\* changes nothing: its turn is over once that event's callback has run.
Deliver(t) ==
  /\ reader[t] = "got"
  /\ \/ EndReader(t, <<OnEventOf(t, "done"), Callback("on_complete", t)>>)
     \/ EndReader(t, <<OnEventOf(t, "error")>>)
     \/ /\ Len(queue) < MaxQueue
        /\ reader' = [reader EXCEPT ![t] = "next"]
        /\ queue' = Append(queue, OnEventOf(t, "progress"))
        /\ UNCHANGED <<response, cancelled>>

Read(t) ==
  /\ Connect(t) \/ Attach(t) \/ BeginRead(t) \/ EndRead(t) \/ Deliver(t)
  /\ UNCHANGED <<page, main, op_vars, load_vars, pair_vars, char_vars, turn_vars, store_vars>>

-----------------------------------------------------------------------------
\* The buttons of the pages.
GoCharacterSelect ==
  /\ Click("main") \/ Click("mod_manager")
  /\ Idle
  /\ page' = "character_select"
  /\ UNCHANGED <<op_vars, char_vars, store_vars>>

GoModManager ==
  /\ Click("main") \/ Click("character_select")
  /\ Idle
  /\ page' = "mod_manager"
  /\ UNCHANGED <<op_vars, char_vars, store_vars>>

GoConfig ==
  /\ Click("main") \/ Click("character_select")
  /\ Idle
  /\ page' = "config"
  /\ Begin("loading_config", "request", NoPack, queue)
  /\ UNCHANGED <<char_vars, store_vars>>

\* select_character of a card: saved first, then the provider, then applied.
SelectCharacter ==
  /\ Click("character_select") /\ Idle /\ ready
  /\ \E p \in characters :
       /\ selected' = p /\ assistant' = p
       /\ IF provider_configured THEN UNCHANGED page /\ Begin("applying", "request", p, queue)
          ELSE page' = "config" /\ UNCHANGED op_vars
  /\ UNCHANGED <<characters, character, provider_configured, prefs, credentials>>

LeaveConfig ==
  /\ Click("config") /\ Idle /\ provider_configured
  /\ UNCHANGED <<char_vars, store_vars>>
  /\ Route(queue)

\* save_config_form of a form that is valid: the language first, which keeps
\* the selection, then the server.
SaveConfig ==
  /\ Click("config") /\ Idle
  /\ Begin("saving_config", "request", selected, queue)
  /\ UNCHANGED <<page, char_vars, store_vars>>

ResetDefaultWorkspace ==
  /\ Click("config") /\ Idle /\ ready /\ character # NoPack
  /\ Begin("resetting", "request", character, queue)
  /\ UNCHANGED <<page, char_vars, store_vars>>

\* import_mod, its staging directory cleared: otherwise it ends there.
ImportMod ==
  /\ Click("mod_manager") /\ Idle /\ ready
  /\ Begin("importing", "picker", NoPack, queue)
  /\ UNCHANGED <<page, char_vars, store_vars>>

\* remove_mod, once confirmed.  When the removal fails the package stays listed.
RemoveMod ==
  /\ Click("mod_manager") /\ Idle
  /\ \E m \in (characters \cap Mods) \ {character} :
       \/ /\ characters' = characters \ {m}
          /\ selected' = IF assistant = m THEN NoPack ELSE selected
          /\ assistant' = IF assistant = m THEN NoPack ELSE assistant
       \/ UNCHANGED <<characters, selected, assistant>>
  /\ UNCHANGED <<page, op_vars, character, provider_configured, prefs, credentials>>

Button ==
  /\ \/ GoCharacterSelect \/ GoModManager \/ GoConfig \/ SelectCharacter \/ LeaveConfig
     \/ SaveConfig \/ ResetDefaultWorkspace \/ ImportMod \/ RemoveMod
  /\ UNCHANGED <<main, queue, load_vars, pair_vars, turn_vars, thread_vars>>

\* The process dies, or quits, and is launched again with or without a link.
Restart ==
  /\ page' = "loading" /\ operation' = NoOperation /\ operation_id' = 0
  /\ starting' = FALSE /\ ready' = FALSE /\ error' = FALSE /\ loading_recovery' = ""
  /\ characters' = {} /\ character' = NoPack /\ assistant' = NoPack
  /\ provider_configured' = FALSE
  /\ server' = "local"
  /\ pending_pairing' \in BOOLEAN /\ spent' = FALSE
  /\ busy' = FALSE /\ active_turn_id' = NoTurn
  /\ main' = "launch" /\ queue' = <<>>
  /\ worker' = "idle" /\ subject' = NoPack
  /\ reader' = [t \in Turns |-> "idle"]
  /\ response' = [t \in Turns |-> "none"]
  /\ cancelled' = {}
  /\ UNCHANGED store_vars

Next ==
  \/ Launch \/ Retry \/ ResetServerConfig \/ ResetAssistantConfig
  \/ Work \/ Pick
  \/ RunCallback
  \/ Send \/ Cancel \/ CloseResponse
  \/ \E t \in Turns : Read(t)
  \/ Button
  \/ Restart

Spec == Init /\ [][Next]_vars

\* The threads run, and so does the main thread; requests and reads have
\* timeouts.  A close gets the buffer's lock if the reader leaves it again and
\* again.  Nothing is said of the user, who may leave the picker open.
Fairness ==
  /\ WF_vars(Launch) /\ SF_vars(RunCallback)
  /\ WF_vars(Work)
  /\ \A t \in Turns : WF_vars(Read(t))
  /\ SF_vars(CloseResponse)

FairSpec == Spec /\ Fairness

-----------------------------------------------------------------------------
\* Main is shown only with everything a turn needs in place: loading done, a
\* provider, no operation, a server that is local or the one saved, and the
\* character that is applied is the one selected, saved and in the catalog.
\* A turn runs on Main only (app.py:126, 285, 722-739, 801-816, 891).
MainReady ==
  /\ page = "main" =>
       /\ ready /\ provider_configured /\ operation = NoOperation
       /\ character \in characters
       /\ character = assistant /\ assistant = selected
       /\ server = "remote" => credentials = "paired"
  /\ busy => page = "main"
  /\ busy <=> active_turn_id # NoTurn

\* A turn leaves Main's hands only when its own reader has read all of it, or
\* it has been cancelled: no callback of another turn ends it (app.py:927-945).
TurnEndIsReal ==
  [][busy /\ ~busy' /\ main' # "launch" =>
       active_turn_id \in cancelled \/ reader[active_turn_id] = "idle"]_vars

\* Once the click on Cancel has returned, the response of the turn is closed,
\* or its reader will close it when it attaches it: the server is told in
\* either order of the two threads (client.py:54-65).
CancelReachesServer ==
  main = "free" => \A t \in cancelled : response[t] # "open"

\* A cancelled turn ends: the page gets its Send button back.
CancelEnds ==
  (busy /\ active_turn_id \in cancelled) ~> ~(busy /\ active_turn_id \in cancelled)

\* Every operation ends, whatever the server answers, once the picker has.
OperationEnds ==
  (operation # NoOperation /\ worker # "picker") ~>
    (operation = NoOperation \/ worker = "picker")
=============================================================================
