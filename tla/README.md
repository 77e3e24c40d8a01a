# A TLA+ verification of Amnesia Agent

Amnesia Agent runs an LLM with a shell tool over a workspace directory. A
Python *kernel* executes one user turn as an asynchronous generator, a FastAPI
*server* gives each workspace at most one turn at a time and streams it to its
client, a Ren'Py *client* drives the server from a UI thread and a few worker
threads, and a small Go *launcher* starts and stops the two processes. The
modules here model the protocol logic of that code, TLC checks them on small
instances, and TLAPS proves the safety properties TLC checks for all values of the
constants. Line numbers refer to the files under `src/`.

## 1. The system

| Component | State it keeps | Operations | Hard behaviour |
| --- | --- | --- | --- |
| Kernel turn, `kernel/.../agent.py`, `streaming.py` | text and tool-call slots of the current provider response, the messages of the turn | one generator: start, read a stream, yield, run tools, loop, fail, be cancelled or closed | it can be cancelled at every await and closed at every yield, and keeps three accounts of one conversation: what is in the history, what the consumer has seen, what the provider will be sent |
| Shell tool, `tools.py` | two reader tasks, a waiter, a bounded collector, a process group | `run_shell`, and `execute_tool_calls` over it | overflow, timeout, cancellation and end of output race; background processes outlive the shell and hold its pipes |
| History, `workspace/history.py` | one JSONL file per UTC day, one lock per root | append, read, list, update, reset | crash in an append, midnight, concurrent writers |
| Workspace files, `workspace/files.py`, `__init__.py` | prompt, memory, temporary files | read, write by replacement, repair, create, hard reset | every session repairs the workspace on opening, beside running writers |
| Turn slots, `server/.../session.py`, `routes/turn.py`, `routes/shutdown.py` | `_active`: path to generator, `None` until it starts | start a turn, stream it, disconnect, shut down, check before a write | three nested coroutines per response, closed from three sides; writes run in threads |
| Configuration, `server/.../config.py` | `config.json` and a temporary file with a fixed name | load (and lazily create), merge, save, reset | concurrent read-merge-save, shared temporary file |
| Pairing, `server/.../pairing.py` | the active code and its expiry, the file of token hashes | show, consume, rotate, authenticate | one-time use against failures in the middle, expiry against rotation |
| Client state, `renpy-client/game/state/app.py`, `api/client.py`, `home_config/store.py` | page, operation id, turn id, turn handle, characters; in persistent data the selected character and the server's credentials | load, recover, pair, choose a character, import and remove packages, send, cancel, change the configuration, quit | results of worker and reader threads arrive after the user has gone elsewhere; closing a response blocks on its reader |
| Character packages, `characters/mod_store.py` | installed packages, staging and backup directories | install, remove, list | crash between two renames |
| Launcher, `cmd/local-renpy-launcher/main.go` | two child processes | start, wait for health, stop, kill | stop races the server's own end |

Provider adapter, prompt construction, wire encoding, manifest validation, request
plumbing, audio and the platforms' file dialogs keep no protocol state.

How they interact: the client posts a turn and reads an SSE stream; the server's
route takes the slot of the path, wraps the kernel's generator in
`_stream_turn`, and drives that from `stream_sse`; the kernel appends to the
history before each complete message it yields; a disconnect travels back as a
task cancellation or a chain of `aclose` calls; shutdown closes the kernel's
generators directly; workspace and configuration writes look at `_active` and
then write, in threads of their own.

What makes each correct:

- kernel turn: nothing is shown that is not recorded, no text is recorded twice or
  lost, what is replayed is what is recorded, every ending leaves its marker, an
  interrupt stops the turn;
- shell tool: the output reported is the output written, the shell never outlives
  the call, the call ends once its processes have;
- slots: one turn per path, a slot held exactly as long as its turn, released
  whatever the client does, truthful final frames, shutdown that ends;
- stores: a file is its old or its new content, what a call has recorded stays until it is
  replaced, a crash costs at most the last record (two partial configuration updates at once can lose the
  change of one: section 3);
- pairing: a code pairs one device, a paired device stays paired;
- client: only the current operation or turn changes the state, and every one of
  them ends;
- packages: an installed package is complete, and survives a crash of its update.

`PROJECT.json` lists the components with what is and is not modelled, and under
`hazards` the places in the code where these can go wrong, with the properties
that cover them.

## 2. Modules

| Module | Models |
| --- | --- |
| `AgentTurn` | `agent_turn` of the kernel with `assistant_message` and the two recording helpers |
| `SessionManager` | turn slots, the response coroutines, shutdown and the idle check of writes |
| `TurnSlots` | the abstract promise of the slots; `SessionManager` implements it |
| `ShellTool` | `run_shell`, its readers, collector, timer, cancellation and process group |
| `Workspace` | the day files of the histories and the text files of one workspace, under concurrent calls |
| `ServerStores` | `config.json` and `device-tokens.json` of the server, their shared writing code, the pairing code and the requests on them |
| `AppState` | the client: pages, operations, worker threads, the turn with its reader thread, preferences |
| `ModStore` | the installed packages of the client and the renames that replace them |
| `MC` and the name of a module | the instance of it TLC checks |
| `_proofs` after the name of a module | the theorems about it |

The modules meet at their edges rather than in one composition, whose states would multiply
beyond TLC. `SessionManager` sees of a turn what `AgentTurn` does to its caller; its writers are
the updates of `Workspace` and `ServerStores`; `AppState` takes from the server any answer
or stream end those allow, and from `ModStore` any catalog; `ModStore` relies on `AppState`
for one installation or removal at a time.

### AgentTurn

`pc` is the await or yield the generator is suspended at; an action runs it from one
to the next, with every append on the way. `history` is what this turn wrote to the
day's file, `turn_messages` what the next request will replay, `delivered` and
`heard` what the consumer has received: complete messages and, per pass, text
deltas. The text of a pass is a number of deltas; a streamed tool call is the set of
fields its slot has received, so that a slot without an ID or a name is an error as in
`assistant_message`. A chunk that carries text and a tool call is yielded before
the tool call is looked at, as in the code, so a close can fall between the two. An
append may fail, before or after its record reached the file (fsync follows the
write); a failing append in a handler, in the body or in the interrupt handler has
its three different consequences.

Left out: the content of messages, the validation of `response_format`, records
that cannot be serialised, and what the commands do (`ShellTool`). Closing before the
first iteration runs nothing of the generator, which the model says explicitly.

### SessionManager and TurnSlots

For each request, `sse` is the route handler with `stream()` and `stream_sse`, `gen`
the `_stream_turn` generator, `envelope` what `gen` is suspended at, `kern` the
kernel's generator seen from outside and `ending` how its turn ended. `active` is
`_active`. The turn side runs on one event loop: an action is one task's run from an
await or yield to the next. Writes run in the thread pool, so their check and their
effect are two actions. Two things happen outside the documented paths and are in the
model because Python does them: a generator that never started runs no `finally` when it
is closed (`AbortStart`), and a generator that yields while it is being closed stays
suspended until the event loop's finalizer closes it (`CloseGenRaises`,
`FinalizeGen`). Closing the kernel raises when shutdown is closing it already, or when the
kernel fails while it unwinds. A kernel that is `"closing"` still works: it records its interrupt.
`received` is the last frame the client was sent.

Left out: heartbeats (they change no state here), a second shutdown request, the 503
and 403 answers of the shutdown route, forced exit. What the envelopes carry is reduced
to which of them are final.

`TurnSlots` has only paths, holders and the stage of each turn: admit or refuse in one
step, run, stop, release. `ImplementsTurnSlots` maps `_active` to its holders and reads a
turn's stage off the three coroutines (`SlotState`).

### ShellTool

The process group is the shell (`leader`) and, as `others`, anything it started, with
the pipes they hold. Pipes are bounded; output is counted in units. `pc` is the await
of `run_shell`; `reader` the state of the two reader tasks; `kill` what
`_signal_process_group` did. The group's own steps, the pipes and asyncio's `Process`
are external and modelled from how the code uses them; where Python versions differ
(the end of `Process.wait`, an error that replaces a cancellation) the model allows
both. The POSIX branch is modelled, `taskkill` is not, and neither are processes that leave the
group (`setsid`): no signal of the code would reach them.

### Workspace

Each call is a thread; `pc` is its next step on the file system, `op` what it was called
for, `target` the day or text file it works on. `day` holds the lines of each day's file: a
line is the records on it, whether it parses, and whether its newline was written, so that a
record can be torn by a kill and another glued to it. `present`, `dir`, `root`, `temps` and
`text` are the rest of the tree; `linked` says that an open file is still in it. `lock` is the
history lock, shared by every store of a root; the text files and the server's static
repair, create and reset take none. Any disk step may fail, the removal of the temporary file
after a failure included, and the process may be killed once, after which new calls may come.

A removal deletes entries one by one, in any order, and may also delete what was created
after it listed the directory: a little more than `rmtree` does. A kill loses what is not
written; power loss, which the fsyncs are for, is not modelled. Content that cannot be
serialised, dates that do not parse and the calls that only read text are left out.

### ServerStores

A call is a request in its thread, `pc` its next step on the disk or at the lock. `file` and
`temp` are the two files and their temporary files; `where` says what a call that has
one open for writing would write to by now, since another call may have renamed the file under
it. A configuration is a function from fields to the call that set each; the token file is the set
of calls that were paired. `code` and `expires` are the active pairing code, `arrival` the clock as
`consume` read it before it took the lock. `overlapped`, `unread` and `held` are
history: two writers were in `_atomic_write_json` for one file at once; the token file could not be
read when it was needed; what the configuration has been since a request began. The first two are
conditions under which the code may lose something, and the properties say that
it loses nothing otherwise.

Any disk step may fail, an operator may remove `config.json` once, and the process may be killed
once. Left out: which values a configuration may have, the redaction of secrets in its public
view, pairing links and QR codes.

### AppState

Everything on `AppState` happens on Ren'Py's main thread: an action is a click or a callback,
with all it calls. `worker` is the step of the thread of the current operation, `reader[t]` that of
the thread of turn `t`; both end by appending to `queue`, which the main thread runs in order.
Operation and turn ids grow for ever in the code; here one may be used again once no thread and no
queued callback has it, which is the most hostile use of them that keeps the ids
of what is alive apart. What the server answers is any of the outcomes the client
distinguishes. `TurnHandle.cancel` is two steps, the flag and the closing of the response, which
waits while the reader is blocked inside it. A reader looks at the flag as it
reads an event and queues it in a later step, so that a cancel may fall in between; its last event, the closing of its
response and the callback it ends with are one step. Processes may end at any step and be launched again,
with or without a pairing link; preferences may be corrupt at the first launch.

The overlay that covers the buttons during an operation is not relied upon: every button of the
shown page may be clicked, and the handlers' own guards decide. Left out: what is shown (stage,
choices, status lines, media), `recovery_busy` and `mod_import_ready`, which guard nothing
the model has; `connect_server`, its callbacks and `reset_server_url`, which no screen calls.
Confirmations are part of the click, and saving persistent data does not fail.

### ModStore

`target` and `backup` are the two directories of each package, as a version, absent or
torn; `step` is where `install_selected_archive` is. Every rename and every `rmtree` may
fail, the latter half-way, and the process may die anywhere. `kept` and `interrupted` are
history: what was installed and not removed, and where an installation ended between its renames.
`_activate` also removes a live directory when the second rename has failed, but a failed
rename leaves none. Unpacking and validation are one step that refuses or goes on.

## 3. Runs

| Run | Instance | Distinct states | Shows |
| --- | --- | --- | --- |
| `agent_turn` | 3 passes, 2 deltas and 2 tool calls a pass | 71,877 | the kernel's properties below |
| `turn_slots` | 2 requests, 2 paths, 1 writer, 1 shutdown | 601,760 | the properties of the slots below and the refinement, with fairness |
| `shell_command` | limit 2, pipes of 2, 5 units of output | 63,240 | the command properties below, with fairness |
| `workspace` | 3 calls: an append, a read, any; 1 text file, 2 days, 1 kill | 121,928 | the workspace properties below, with fairness |
| `server_stores` | 3 calls: an update, an update or a reset, a read; or 2 pairings and a paired device's request; 2 fields, a lifetime of 1 and 1 tick | 893,117 | the store and pairing properties below |
| `app_state` | 1 bundled character, 1 package, 2 operation ids, 2 turns, any number of relaunches | 443,192 | the client properties below, with fairness |
| `mod_store` | 2 packages, 2 versions, any number of crashes | 6,699 | the package property below |
| `repair_keeps_content` | 3 calls: a repair, an update, a third | | as the next |
| `slot_on_disconnect`, `shutdown_succeeds`, `writes_exclude_turns`, `group_terminated` | as above | | one documented promise each that the code does not keep |

Why the bounds suffice. Three passes are the least in which a turn replays the
results of one pass and records another before it ends; two deltas distinguish losing
text from losing a part of it; two calls have an order. The last pass a bound allows
calls no tool, so that a run never ends for the bound's sake. Two requests are a
conflict; both initial choices, on one path and on two, are explored. A limit of 2 with
5 units of output has a chunk end at, before and across it, and leaves a pipe of 2 with more than its
reader takes by itself. Output beyond `MaxOutput` would fill the pipes the same way. In `workspace`
a torn append, an append glued to it and a read that meets both are three calls; the third
call takes each operation there is, against an append and against a read that repairs on
opening. One text file stands for both, which are handled one after the other in the same way;
two days have one midnight between them. In `server_stores` a lost update takes two writers
and a field only one of them sets, and a lazily created file a reader beside them; the same code pairing twice takes
two pairings, and one tick passes a code's expiry. In `app_state` two turns are
needed for callbacks of an old one beside a new one; two characters, one of which may come and go, for
a selection that is not in the catalog; a queue with one more callback from each reader than
the bound lets a callback wait behind another. In `mod_store` an update to a newer, an equal
and an older version is possible, and the second package shows that the first's failures are its own.

What is checked of `AgentTurn`: `PersistedBeforeShown`, `TextRecordedOnce`,
`ReplayMatchesHistory`, `ReplayWellFormed`, `OutcomeRecorded`, `InterruptEndsTurn`. Of
`SessionManager`: `SlotHeldUntilFinished`, `OneLiveTurnPerPath`, `NoOrphanTurn`,
`DoneMeansCompleted`, `FinalFrameIsLast`, `DisconnectFreesSlot`, `ShutdownAnswers`,
`ImplementsTurnSlots`. Of `ShellTool`: `OutputAccounted`, `ShellNeverOutlivesCall`,
`StatusKnown`, `ReturnsOnceGroupGone`. Of `Workspace`: `RecordsKept`,
`MalformedOnlyIfTorn`, `NeverFiledEarly`, `WholeOrNothing`, `CallsReturn`, and in `TypeOK` that
the files form a tree. Of `ServerStores`:
`TornOnlyIfOverlapped`, `NothingOlderRestored`, `PairedStaysPaired`, `CodePairsOnce`. Of
`AppState`: `MainReady`, `TurnEndIsReal`, `CancelReachesServer`, `CancelEnds`,
`OperationEnds`. Of `ModStore`: `PackageKept`. Each is stated in words above its definition.
Definitions marked as mutants are plausible bugs of the definition that follows them, one
for each property; TLC finds the property violated with the mutant in place, so
none of the properties holds of whatever the code might do.

Some of these properties say how far a promise is kept that the code does not keep whole; the promise itself is
in the list of disagreements below. `InterruptEndsTurn`: an interrupt stops the turn in every phase, though it may
end as another error. `OneLiveTurnPerPath`: the one overlap of two turns in a workspace is with a
turn that shutdown is closing and whose client has gone. `ReturnsOnceGroupGone`: the one wait that
outlasts the command's processes is for a shell with a pipe nobody reads any more.
`NothingOlderRestored`: an update may revert a field it omits, but only to what the configuration
had while the request was on its way. `PackageKept` excepts a package whose update was cut between its two renames, by a
crash or because putting the old one back failed as well.

### Fairness

`AgentTurn` has only safety properties: nothing bounds a provider or a
consumer. In `SessionManager` the steps of tasks that wait for nothing outside the server are
weakly fair: starting or abandoning a response, noticing a disconnect (the heartbeat
timer sees to it), unwinding, finalizing, and shutdown. The kernel's progress, the
client and the writers owe nothing. In `ShellTool` the event loop's own steps are
weakly fair: reaping, reading, reacting. The command, the timer and the canceller owe
nothing, so `ReturnsOnceGroupGone` starts from the end of the command's processes. In
`Workspace` a thread that can take a step does: a call on the disk returns or fails. The lock is
not fair, but finitely many calls cannot keep one waiting for ever. That run ends when its
calls have, so it does not check for deadlock; a call stuck at the lock violates
`CallsReturn`. In `AppState` the threads of workers and readers run, and requests and reads have
timeouts (`api/client.py:139`, `:225`), so each step of theirs is weakly fair. The main thread runs
queued callbacks between clicks, so a user who clicks for ever cannot hold one up: strong
fairness of `RunCallback`. `close` and the reader contend for the buffer's lock, which the
reader gives up between two reads: strong fairness of `CloseResponse`; were that lock unfair
for ever, heartbeats could keep the main thread waiting. The user owes nothing, and neither does an open picker, which
`OperationEnds` therefore excepts. `ServerStores` and `ModStore` have safety properties only; the
former stops when its calls have, and does not check for deadlock.

### Where code and documentation disagree

- `SlotFreedOnDisconnect`: a response dropped before its first iteration leaves its path
  busy for ever, because the slot is taken outside the generator that releases it
  (`session.py:242`, `:293`).
- `ShutdownSucceeds`: shutdown during a turn that awaits the provider or a command
  raises `RuntimeError` from `aclose` and never sets `should_exit`
  (`session.py:301`, `routes/shutdown.py:24`).
- `WritesExcludeTurns`: a write checked when the path was idle lands in the turn that has
  started since (`session.py:122` and the writes of 150-214).
- `RepairKeepsContent`: repairing a workspace tests for a missing file and then creates it with a
  truncating write; an update that landed in between, and returned, is emptied
  (`files.py:62`).
- `ProcessGroupTerminated`: once the shell is reaped its group is not signalled, so a timeout
  leaves background processes running, and waits for them if they hold the pipes
  (`tools.py:58`).

Four more promises that the properties above keep only in part. Stated without their exceptions, TLC violates
them in these models; they have no run of their own.

- "One active turn per resolved workspace path" (`session.py:67`): a client that disconnects while shutdown is
  closing its turn gives the slot back before the kernel has recorded the interrupt (`session.py:293`), and the
  next turn of the path runs beside it (`OneLiveTurnPerPath`).
- "In all phases [...] persisted best-effort, then the cancel is re-raised" (`agent.py:88-90`,
  `kernel/README.md:111-113`): a response stream whose own close raises while an interrupt unwinds it replaces the
  interrupt by a `ProviderError`, and its marker by an error (`agent.py:172`; `InterruptEndsTurn`).
- "Omitted values retain their current values" (`routes/config.py:15`, `server/README.md:146`): of two partial
  updates that loaded the same file the second to save puts back what the first changed and it omitted
  (`session.py:153`; `NothingOlderRestored`).
- "Command timeout [...] failures are returned as tool-result text" (`kernel/README.md:100-101`): a timer that fires
  while the limit is being handled waits for the shell with nobody reading its pipes, and before Python 3.12.4 that
  wait does not end when the processes do (`tools.py:162`; `ReturnsOnceGroupGone`).

Six more things the models contain and no run singles out. A failed setup of the selected
character at boot leaves the loading page without an error and so without the Retry button that
`renpy-client/README.md:33` describes (`app.py:818`). A pairing code whose acceptance was lost is presented again by
every Retry, in vain (`app.py:207`). Overlapping configuration writes can leave a torn
`config.json`, which no load repairs (`config.py:82`). A token file that could not be read once is written back
without its devices (`pairing.py:82`). A crash between the two renames of an update leaves a package as
a backup only, which the next import of it deletes (`mod_store.py:316`). Around midnight a record can be
filed under the day before its timestamp (`history.py:236`); `NeverFiledEarly` excludes only the other way.

## 4. Proofs

All theorems hold for every value of the constants. They assume only the named
assumptions of the modules: the bounds of `AgentTurn` are naturals and at least
one pass is allowed (`BoundsAssumption`); `NoTurn` is no request and `AllPaths` no path
(`NamesAssumption`); there is a version (`ModAssumption`); `AppAssumption` gives
`AppState` a bundled character, and at least two ids of each kind; `LimitsAssumption` gives `ShellTool` a limit
and pipes that hold something; `StoresAssumption` gives a code of `ServerStores` a lifetime and `CallsAssumption`
gives `Workspace` a text file and a day, and both keep the names of calls apart from the marks of none and of
old content. The sets of requests, calls, paths, characters, packages and fields may be infinite.

Every safety invariant and every action property of the passing runs is a theorem. TLC found
each inductive invariant below to hold on the runs' instances before it was proved.

`SessionManager_proofs`. `SlotHeldUntilFinished` alone is not inductive: that a disconnect
gives the slot back needs to know which states of the three coroutines occur together. `Inv`
adds that for each request (`StageOK`), with what a final frame implies (`FrameOK`) and what
entitles a response to say `done` (`EndingOK`), and that shutdown closes one turn at a time (`ClosingOK`).
`TypeStep`, `SlotStep`, `RequestStep` and `ClosingStep` preserve its four parts, one step per action. From `Invariance` follow `SlotsCorrect`,
`MutualExclusion` (two turns of a path would both hold its slot, unless one is the turn
that is being closed, whose response is then over), `NoOrphans`,
`DoneIsTrue` and the action property `FinalIsLast`. `Refinement` maps every action to a step of
`TurnSlots` or to a stutter: starting admits or refuses, beginning the body runs, the
end or the closing of the kernel stops, finishing the generator releases.

`AgentTurn_proofs`. `ReplayMatchesHistory` speaks of the states in which a provider is
involved. To be inductive it needs where the history stands in each of the
others (`ReplayOK`): behind the replayed messages by the assistant message after it was
recorded, or by the tool results yielded so far. Types need that a pass that calls tools is
not the last (`RoundOK`) and that text heard never exceeds a pass's deltas (`HeardOK`).
`InterruptOK` is the strengthening for `InterruptStops`: an interrupted turn is closing its
stream or closed. A second invariant on top of this one, `RecordInv`, is about the other two accounts of the conversation. While the turn runs the history is the
input and then exactly what the consumer has (`ShownOK`), so that an append between two shown messages
can only be the last. `message_persisted` says whether the text of this pass is on record and
`parts` is what was heard of it (`PartsOK`); hence no pass has its text on record twice, and
none that is over lacks it (`TextOK`). The results yielded so far are those of the calls no longer left, in call
order (`ResultsOK`), which closes the group the last assistant message opened (`ConversationOK`).

`ModStore_proofs`. `PackageKept` and the types are inductive with one addition,
`NothingLive`: between the two renames the place of the package is empty, so that what the failed
second rename puts back is the backup or nothing.

`AppState_proofs`. `IInv` has the turn on the page and its threads (`TurnOK`), whose response may be
open although it is cancelled (`CloseOK`: only that of the turn whose cancel has yet to close it)
and that a callback which may end a turn was queued once its reader had read it all (`QueueOK`). A new turn keeps the latter
because its id is one nothing is left of. Queues are treated as the sets of their elements,
of unknown type. From `Invariance` follow `CancelReaches` and the action property
`TurnsEndByTheirOwn`. `MainReady` needs `OpInv`: an operation has a worker or, once that is done, one callback in the
queue, never both or two (`CallsOK`); what either carries is what was selected when the
operation began (`SubjectOK`, `CallbackOK`), because no click selects or saves during an operation; and
once loading is done the character that is applied is the saved one (`LoadedOK`). No callback of an operation is
left when the next begins, so two ids are enough for operations.

`ServerStores_proofs`. The token file has one writer at a time: a call that pairs holds the
manager's lock from the code to the end of its write (`LockOK`), its temporary file is its own and what it
renames is what it listed and itself (`TokenWriteOK`). A device in the file, or the holder, presented a code
that has been rotated away (`SpentOK`), which is `CodesPairOnce`. The configuration has no such lock:
`ConfigWriteOK` says what the one writer finds at its rename while writers have not
overlapped, which may be nothing, if a failed call before it unlinks the temporary file; `HeldOK` that what a
call is to write agrees, on the fields it does not set, with something the file has held since the call began.

`ShellTool_proofs`. What is reported is decided well after the facts it speaks of. `LeaderOK` carries
the shell's life from the signal to the return, `ReaderOK` that an end of output means an empty pipe
nobody holds, `CountOK` that every unit written is kept, unread or, after the limit, dropped, and `WhyOK`
why collecting stopped. Text without a remark then is everything, on each stream by itself.

`Workspace_proofs`. `StageOK` and `TargetOK` say what a call that is at a step was called for and on which
day; `LockOK` that the steps on a history hold its lock; `HoldOK` that open day files, and the temporary files of
calls that go on, are those of calls at the steps that have them; `PlacedOK` that nothing of an update is in the
tree before its rename, from which `UpdatesAtomic` follows. With the lock, a line without its newline has
one author, at its next step (`LinesOK`), so that a read under the lock meets none unless an append
was torn. `WrittenStays` is proved from what each step may do to the lines of a day (`DayStep`):
start one, end the last one, replace, unlink or remove the day. Only the last three, the ones `Replaces` names,
take a line that is ended, also where an append glues its record to a torn one. The static reset takes no lock, so the
invariant speaks of an append's open file only while it is still in the tree.

Only model-checked is liveness (`DisconnectFreesSlot`, `ShutdownAnswers`,
`ReturnsOnceGroupGone`, `CallsReturn`, `CancelEnds`, `OperationEnds`): fairness and `ENABLED` are beyond the
prover. The five disagreements with a run are counterexamples, found by TLC.

## 5. Plan

The modules of the first plan are written, except for `ToolCalls` (concurrent commands over
`ShellTool`: how they end is in `AgentTurn`) and `Launcher`, and their safety properties are
proved. What would add most now are abstract specifications beside `TurnSlots`, with the proof that a
module implements them:

1. `Workspace`: a log per day, to which calls append at one moment each, and which they replace or remove.
2. `ServerStores`: a set of paired devices and a code, where pairing is one step.
3. `ModStore`: a package that is there in one version or not, updated in one step or, after a crash between the
   renames, set aside.

## 6. Not modelled

What a provider answers, the text of prompts and of commands' output, JSON and SSE encoding,
manifest, image and URL validation, authentication headers and origins, the redaction of
secrets, the Windows branches, how the screens look, the JSON preference store that only tests use.
They carry no state that interacts with the rest, or are libraries the code only calls.

The launcher is a sequence: start the server, wait for its health, start the client, wait for it
to end, ask for shutdown, kill after three seconds. What is hard about it is what it does to a
running turn, and that is in `SessionManager` (`ShutdownSucceeds`) and the crashes of `Workspace`.
