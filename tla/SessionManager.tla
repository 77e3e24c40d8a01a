--------------------------- MODULE SessionManager ---------------------------
(***************************************************************************)
(* The server's turn slots and everything that takes, holds or depends on  *)
(* them: SessionManager.start_turn, _stream_turn and cancel_active_turn of *)
(* server/amnesia_agent_server/session.py, the turn route and its          *)
(* stream_sse loop (routes/turn.py), the shutdown route, and the           *)
(* check-then-write operations of the workspace and config routes.         *)
(*                                                                         *)
(* Turn requests, their SSE loops and shutdown are tasks of one event      *)
(* loop: an action runs one of them from an await or yield to the next.    *)
(* Writes are plain functions that FastAPI runs in its thread pool, so an  *)
(* action may fall between a write's idle check and the write itself.      *)
(*                                                                         *)
(* The kernel's generator (AgentTurn) is seen from outside: it awaits, it  *)
(* has yielded, it is being closed by shutdown, it is closed.  Heartbeats  *)
(* change no state that is modelled here and are left out.                 *)
(***************************************************************************)

CONSTANTS
  Requests,   \* POST /v1/turn requests
  Paths,      \* resolved workspace paths
  Writers,    \* workspace and config write requests
  NoTurn,     \* a path absent from `_active`
  AllPaths    \* the target of a config change

ASSUME NamesAssumption == NoTurn \notin Requests /\ AllPaths \notin Paths

VARIABLES
  path,        \* workspace each request asks for
  active,      \* the `_active` dict: path -> request holding its slot
  connected,   \* the client has not gone away
  sse,         \* the request's response: route handler, stream() and stream_sse
  gen,         \* the `_stream_turn` generator
  envelope,    \* the envelope `gen` is suspended at, "none" while it is not
  kern,        \* the kernel's turn generator
  ending,      \* how the kernel's turn ended: "interrupted" if it was cancelled or
               \* closed, also when that made it raise
  received,    \* the last frame written to the client, "none" before the first
  shutdown,    \* the POST /v1/shutdown request
  to_close,    \* iterators cancel_active_turn has still to close
  writer,      \* how far each write request is
  target       \* what it writes

turn_vars == <<gen, envelope, kern, ending>>
client_vars == <<connected, sse, received>>
shutdown_vars == <<shutdown, to_close>>
writer_vars == <<writer, target>>
vars == <<path, active, turn_vars, client_vars, shutdown_vars, writer_vars>>

Frames == {"none", "event", "done", "error"}

Init ==
  /\ path \in [Requests -> Paths]
  /\ active = [p \in Paths |-> NoTurn]
  /\ connected = [r \in Requests |-> TRUE]
  /\ sse = [r \in Requests |-> "idle"]
  /\ gen = [r \in Requests |-> "none"]
  /\ envelope = [r \in Requests |-> "none"]
  /\ kern = [r \in Requests |-> "none"]
  /\ ending = [r \in Requests |-> "open"]
  /\ received = [r \in Requests |-> "none"]
  /\ shutdown = "up"
  /\ to_close = {}
  /\ writer = [w \in Writers |-> "idle"]
  /\ target = [w \in Writers |-> AllPaths]

Set(f, r, v) == [f EXCEPT ![r] = v]

-----------------------------------------------------------------------------
(* The route handler and the start of the response.                        *)

\* Mutant: the guard looks for a turn that has started, not for the key.
BusyIfStarted(p) == \E r \in Requests : active[p] = r /\ kern[r] # "none"

\* require_idle_for_path and the guard of start_turn.
Busy(p) == active[p] # NoTurn

\* POST /v1/turn: start_turn takes the slot, without awaiting, or raises
\* TurnBusyError, answered 409.  The generator it returns has not run yet.
StartTurn(r) ==
  /\ sse[r] = "idle"
  /\ shutdown # "stopped"
  /\ IF Busy(path[r])
       THEN /\ sse' = Set(sse, r, "rejected")
            /\ UNCHANGED <<active, gen>>
       ELSE /\ active' = Set(active, path[r], r)
            /\ gen' = Set(gen, r, "unstarted")
            /\ sse' = Set(sse, r, "starting")
  /\ UNCHANGED <<path, envelope, kern, ending, connected, received, shutdown_vars,
                 writer_vars>>

\* stream() is iterated: the first next_event task runs _stream_turn up to the
\* kernel's first await, or up to the error envelope when the session cannot
\* be built from the config or the workspace.
BeginBody(r) ==
  /\ sse[r] = "starting"
  /\ sse' = Set(sse, r, "waiting")
  /\ \/ /\ gen' = Set(gen, r, "running")
        /\ kern' = Set(kern, r, "awaiting")
        /\ UNCHANGED envelope
     \/ /\ gen' = Set(gen, r, "suspended")
        /\ envelope' = Set(envelope, r, "error")
        /\ UNCHANGED kern
  /\ UNCHANGED <<path, active, ending, connected, received, shutdown_vars, writer_vars>>

\* The client is gone while the response head waits for a paused transport, so
\* stream() is never iterated; or another caller of start_turn closes the
\* generator at once.  A generator that never started runs no `finally`.
AbortStart(r) ==
  /\ sse[r] = "starting"
  /\ ~connected[r]
  /\ sse' = Set(sse, r, "ended")
  /\ gen' = Set(gen, r, "dropped")
  /\ UNCHANGED <<path, active, envelope, kern, ending, connected, received,
                 shutdown_vars, writer_vars>>

-----------------------------------------------------------------------------
(* The kernel's generator, driven by the pending next_event task.          *)

\* _stream_turn stops at `yield` with this envelope.
SuspendAt(r, e) ==
  /\ gen' = Set(gen, r, "suspended")
  /\ envelope' = Set(envelope, r, e)

KernelDriven(r) == gen[r] = "running" /\ sse[r] # "closing"

\* The kernel yields a delta or a message.
KernelYields(r) ==
  /\ KernelDriven(r)
  /\ kern' = Set(kern, r, "yielded")
  /\ SuspendAt(r, "event")
  /\ UNCHANGED <<path, active, ending, client_vars, shutdown_vars, writer_vars>>

\* The kernel's turn returns, and `done` follows its last event.
KernelReturns(r) ==
  /\ KernelDriven(r)
  /\ kern' = Set(kern, r, "closed")
  /\ ending' = Set(ending, r, "completed")
  /\ SuspendAt(r, "done")
  /\ UNCHANGED <<path, active, client_vars, shutdown_vars, writer_vars>>

\* Mutant: `done` is sent whether or not the kernel raised.
KernelRaisesAsDone(r) ==
  /\ KernelDriven(r)
  /\ kern' = Set(kern, r, "closed")
  /\ ending' = Set(ending, r, "failed")
  /\ SuspendAt(r, "done")
  /\ UNCHANGED <<path, active, client_vars, shutdown_vars, writer_vars>>

\* The kernel's turn raises: every exception becomes an error envelope.
KernelRaises(r) ==
  /\ KernelDriven(r)
  /\ kern' = Set(kern, r, "closed")
  /\ ending' = Set(ending, r, "failed")
  /\ SuspendAt(r, "error")
  /\ UNCHANGED <<path, active, client_vars, shutdown_vars, writer_vars>>

-----------------------------------------------------------------------------
(* The SSE loop.                                                           *)

\* next_event has an envelope and the client is there: the frame is written,
\* and stream() stays suspended at its yield while it is sent.
WriteFrame(r) ==
  /\ sse[r] = "waiting"
  /\ gen[r] = "suspended"
  /\ connected[r]
  /\ received' = Set(received, r, envelope[r])
  /\ sse' = Set(sse, r, "sending")
  /\ UNCHANGED <<path, active, turn_vars, connected, shutdown_vars, writer_vars>>

\* Mutant: the slot is popped only when the kernel's turn ended by itself.
FinishGenIfCompleted(r) ==
  /\ gen' = Set(gen, r, "finished")
  /\ envelope' = Set(envelope, r, "none")
  /\ active' = IF ending[r] = "completed" THEN Set(active, path[r], NoTurn) ELSE active

\* `finally: self._active.pop(key, None)`, and the generator is over.
FinishGen(r) ==
  /\ gen' = Set(gen, r, "finished")
  /\ envelope' = Set(envelope, r, "none")
  /\ active' = Set(active, path[r], NoTurn)

\* Mutant: `done` is yielded after the `try`, so that it follows an error too.
ResumeGenDoneAfterError(r) ==
  /\ sse[r] = "sending"
  /\ IF envelope[r] = "error"
       THEN SuspendAt(r, "done") /\ sse' = Set(sse, r, "waiting") /\ UNCHANGED <<active, kern>>
       ELSE /\ envelope[r] = "done"
            /\ FinishGen(r)
            /\ sse' = Set(sse, r, "ended")
            /\ UNCHANGED kern
  /\ UNCHANGED <<path, ending, connected, received, shutdown_vars, writer_vars>>

\* The frame is sent and a new next_event task resumes _stream_turn.  After an
\* event the kernel goes on; if shutdown closed it meanwhile, its iterator is
\* exhausted and `done` follows, and if shutdown is still closing it, iterating
\* it raises.  After a final envelope the generator finishes.
ResumeGen(r) ==
  /\ sse[r] = "sending"
  /\ \/ /\ envelope[r] = "event"
        /\ sse' = Set(sse, r, "waiting")
        /\ \/ /\ kern[r] = "yielded"
              /\ kern' = Set(kern, r, "awaiting")
              /\ gen' = Set(gen, r, "running")
              /\ envelope' = Set(envelope, r, "none")
           \/ /\ kern[r] = "closed"
              /\ SuspendAt(r, "done")
              /\ UNCHANGED kern
           \/ /\ kern[r] = "closing"
              /\ SuspendAt(r, "error")
              /\ UNCHANGED kern
        /\ UNCHANGED active
     \/ /\ envelope[r] \in {"done", "error"}
        /\ FinishGen(r)
        /\ sse' = Set(sse, r, "ended")
        /\ UNCHANGED kern
  /\ UNCHANGED <<path, ending, connected, received, shutdown_vars, writer_vars>>

\* The client goes away; the server learns of it at its next step.
Disconnect(r) ==
  /\ connected[r]
  /\ sse[r] \in {"starting", "waiting", "sending"}
  /\ connected' = Set(connected, r, FALSE)
  /\ UNCHANGED <<path, active, turn_vars, sse, received, shutdown_vars, writer_vars>>

\* Mutant: the loop is left without the closing that `finally` and `aclosing` do.
NoticeDisconnectOnly(r) ==
  /\ ~connected[r]
  /\ sse[r] \in {"waiting", "sending"}
  /\ sse' = Set(sse, r, "ended")
  /\ UNCHANGED <<path, active, turn_vars, connected, received, shutdown_vars, writer_vars>>

\* is_disconnected is true at a heartbeat or before a frame, or the response
\* task is cancelled: stream_sse leaves its loop.
NoticeDisconnect(r) ==
  /\ ~connected[r]
  /\ sse[r] \in {"waiting", "sending"}
  /\ sse' = Set(sse, r, "closing")
  /\ UNCHANGED <<path, active, turn_vars, connected, received, shutdown_vars, writer_vars>>

\* Mutant: the kernel's generator is left open, as without `aclosing(turn_events)`.
InterruptedNot(r) == UNCHANGED <<kern, ending>>

\* How a kernel turn that is cancelled or closed here ends.
Interrupted(r) ==
  IF kern[r] \in {"awaiting", "yielded"}
    THEN /\ kern' = Set(kern, r, "closed")
         /\ ending' = Set(ending, r, "interrupted")
    ELSE UNCHANGED <<kern, ending>>

\* _stream_turn is inside the kernel's generator while shutdown closes that one.
InClosingKernel(r) == kern[r] = "closing" /\ envelope[r] = "event"

\* stream_sse's `finally` cancels a pending next_event, and `aclosing(events)`
\* closes a suspended generator; either way _stream_turn unwinds and finishes.
CloseGen(r) ==
  /\ sse[r] = "closing"
  /\ gen[r] \in {"running", "suspended"}
  /\ ~InClosingKernel(r)
  /\ Interrupted(r)
  /\ FinishGen(r)
  /\ sse' = Set(sse, r, "ended")
  /\ UNCHANGED <<path, connected, received, shutdown_vars, writer_vars>>

\* Closing the kernel's generator raises, because shutdown is closing it already
\* or because it fails while it unwinds; _stream_turn yields that error where it
\* should end, and is left suspended there by the response.
CloseGenRaises(r) ==
  /\ sse[r] = "closing"
  /\ envelope[r] = "event"
  /\ kern[r] \in {"yielded", "closing"}
  /\ Interrupted(r)
  /\ SuspendAt(r, "error")
  /\ sse' = Set(sse, r, "ended")
  /\ UNCHANGED <<path, active, connected, received, shutdown_vars, writer_vars>>

\* The event loop closes a suspended generator that nothing refers to any more.
FinalizeGen(r) ==
  /\ sse[r] = "ended"
  /\ gen[r] = "suspended"
  /\ FinishGen(r)
  /\ UNCHANGED <<path, kern, ending, client_vars, shutdown_vars, writer_vars>>

\* The cancellation of next_event is replaced by an error on its way out of
\* the kernel; _stream_turn yields it, and is then closed as above.
CancelReplaced(r) ==
  /\ sse[r] = "closing"
  /\ gen[r] = "running"
  /\ Interrupted(r)
  /\ SuspendAt(r, "error")
  /\ UNCHANGED <<path, active, client_vars, shutdown_vars, writer_vars>>

-----------------------------------------------------------------------------
(* POST /v1/shutdown.                                                      *)

\* Mutant: the values of `_active` are taken without the test for None.
RequestShutdownUnchecked ==
  /\ shutdown = "up"
  /\ shutdown' = "closing"
  /\ to_close' = {active[p] : p \in Paths}
  /\ UNCHANGED <<path, active, turn_vars, client_vars, writer_vars>>

\* cancel_active_turn takes the iterators `_active` holds at this moment; a
\* slot whose kernel turn has not started holds None.
RequestShutdown ==
  /\ shutdown = "up"
  /\ shutdown' = "closing"
  /\ to_close' = {r \in Requests : active[path[r]] = r /\ kern[r] # "none"}
  /\ UNCHANGED <<path, active, turn_vars, client_vars, writer_vars>>

\* Mutant: shutdown waits for a pending __anext__ to be over before it closes.
ShutdownTurnWaiting(r) ==
  /\ shutdown = "closing"
  /\ r \in to_close
  /\ kern[r] = "closed"
  /\ to_close' = to_close \ {r}
  /\ UNCHANGED <<path, active, turn_vars, client_vars, shutdown, writer_vars>>

\* One `await aclose()`.  Only a generator suspended at its own yield can be
\* closed; one whose __anext__ is pending raises RuntimeError, and the route
\* answers 500 before it sets should_exit.
ShutdownTurn(r) ==
  /\ shutdown = "closing"
  /\ r \in to_close
  /\ \A s \in Requests : kern[s] # "closing"
  /\ \/ /\ kern[r] = "awaiting"
        /\ shutdown' = "failed"
        /\ to_close' = {}
        /\ UNCHANGED <<kern, ending>>
     \/ /\ kern[r] = "yielded"
        /\ kern' = Set(kern, r, "closing")
        /\ ending' = Set(ending, r, "interrupted")
        /\ UNCHANGED <<shutdown, to_close>>
     \/ /\ kern[r] = "closed"
        /\ to_close' = to_close \ {r}
        /\ UNCHANGED <<shutdown, kern, ending>>
  /\ UNCHANGED <<path, active, gen, envelope, client_vars, writer_vars>>

\* That aclose() returns, the kernel having recorded the interrupt; or it raises
\* what the kernel met while unwinding, and the route answers 500.
ShutdownTurnClosed(r) ==
  /\ kern[r] = "closing"
  /\ kern' = Set(kern, r, "closed")
  /\ \/ to_close' = to_close \ {r} /\ UNCHANGED shutdown
     \/ to_close' = {} /\ shutdown' = "failed"
  /\ UNCHANGED <<path, active, gen, envelope, ending, client_vars, writer_vars>>

\* should_exit is set and {"shutting_down": true} returned.
ShutdownExits ==
  /\ shutdown = "closing"
  /\ to_close = {}
  /\ shutdown' = "exiting"
  /\ UNCHANGED <<path, active, turn_vars, client_vars, to_close, writer_vars>>

\* uvicorn's main loop sees should_exit and closes its listeners; until then a
\* turn can still be started.
ListenersClose ==
  /\ shutdown = "exiting"
  /\ shutdown' = "stopped"
  /\ UNCHANGED <<path, active, turn_vars, client_vars, to_close, writer_vars>>

-----------------------------------------------------------------------------
(* Writes, in a thread of their own.                                       *)

\* require_idle_for_path, or require_no_active_turns for a config change:
\* TurnBusyError ends the request, otherwise the thread goes on to write.
CheckIdle(w) ==
  /\ writer[w] = "idle"
  /\ \/ \E t \in Paths \cup {AllPaths} :
          /\ IF t = AllPaths THEN \A p \in Paths : ~Busy(p) ELSE ~Busy(t)
          /\ writer' = Set(writer, w, "checked")
          /\ target' = Set(target, w, t)
     \/ /\ \E p \in Paths : Busy(p)
        /\ writer' = Set(writer, w, "answered")
        /\ UNCHANGED target
  /\ UNCHANGED <<path, active, turn_vars, client_vars, shutdown_vars>>

\* The write itself lands, whatever has happened since the check.
ApplyWrite(w) ==
  /\ writer[w] = "checked"
  /\ writer' = Set(writer, w, "answered")
  /\ target' = Set(target, w, AllPaths)
  /\ UNCHANGED <<path, active, turn_vars, client_vars, shutdown_vars>>

-----------------------------------------------------------------------------
\* Every request has been answered and the server may stay idle for ever.
Quiet ==
  /\ \A r \in Requests :
       \/ sse[r] = "rejected" \/ (sse[r] = "ended" /\ gen[r] # "suspended")
       \/ (sse[r] = "idle" /\ shutdown = "stopped")
  /\ \A w \in Writers : writer[w] = "answered"
  /\ shutdown \in {"failed", "stopped"}
  /\ UNCHANGED vars

TurnStep(r) ==
  \/ StartTurn(r) \/ BeginBody(r) \/ AbortStart(r)
  \/ KernelYields(r) \/ KernelReturns(r) \/ KernelRaises(r)
  \/ WriteFrame(r) \/ ResumeGen(r)
  \/ Disconnect(r) \/ NoticeDisconnect(r) \/ CloseGen(r) \/ CloseGenRaises(r)
  \/ CancelReplaced(r) \/ FinalizeGen(r)
  \/ ShutdownTurn(r) \/ ShutdownTurnClosed(r)

Next ==
  \/ \E r \in Requests : TurnStep(r)
  \/ RequestShutdown \/ ShutdownExits \/ ListenersClose
  \/ \E w \in Writers : CheckIdle(w) \/ ApplyWrite(w)
  \/ Quiet

Spec == Init /\ [][Next]_vars

\* The event loop runs every task that is ready, so the steps that wait for
\* nothing outside the server are weakly fair.  The kernel's own progress, the
\* client's and the writers' are not.
Fairness ==
  /\ \A r \in Requests :
       /\ WF_vars(BeginBody(r) \/ AbortStart(r))
       /\ WF_vars(NoticeDisconnect(r))
       /\ WF_vars(CloseGen(r))
       /\ WF_vars(CloseGenRaises(r))
       /\ WF_vars(FinalizeGen(r))
       /\ WF_vars(ShutdownTurn(r))
       /\ WF_vars(ShutdownTurnClosed(r))
  /\ WF_vars(ShutdownExits)

FairSpec == Spec /\ Fairness
-----------------------------------------------------------------------------
(* Properties.                                                             *)

\* Every variable ranges over the values the code can give it.
TypeOK ==
  /\ path \in [Requests -> Paths]
  /\ active \in [Paths -> Requests \cup {NoTurn}]
  /\ connected \in [Requests -> BOOLEAN]
  /\ sse \in [Requests -> {"idle", "rejected", "starting", "waiting", "sending",
                           "closing", "ended"}]
  /\ gen \in [Requests -> {"none", "unstarted", "running", "suspended", "finished",
                           "dropped"}]
  /\ envelope \in [Requests -> Frames]
  /\ kern \in [Requests -> {"none", "awaiting", "yielded", "closing", "closed"}]
  /\ ending \in [Requests -> {"open", "completed", "failed", "interrupted"}]
  /\ received \in [Requests -> Frames]
  /\ shutdown \in {"up", "closing", "failed", "exiting", "stopped"}
  /\ to_close \in SUBSET Requests
  /\ writer \in [Writers -> {"idle", "checked", "answered"}]
  /\ target \in [Writers -> Paths \cup {AllPaths}]

HoldsSlot == {"unstarted", "running", "suspended", "dropped"}

\* A path's key is in `_active` exactly as long as the generator that put it
\* there has not run its `finally`: no turn loses its slot to another turn, to
\* a disconnect or to shutdown, and none keeps it once it has finished
\* (session.py:240-242 and 292-293).
SlotHeldUntilFinished ==
  \A r \in Requests : active[path[r]] = r <=> gen[r] \in HoldsSlot

\* The kernel runs a turn of this request and was not told by shutdown to stop;
\* it works for the request until that has unwound and recorded the interrupt.
Live(r) == kern[r] \in {"awaiting", "yielded"}
Working(r) == Live(r) \/ kern[r] = "closing"

\* The kernel works in one workspace for two requests at no time but one: while
\* shutdown is closing a turn, its client can go away and free its slot, and one
\* other turn can begin in the workspace (session.py:240-242 and 292-301).
ClosingWithoutSlot(r) ==
  kern[r] = "closing" /\ shutdown = "closing" /\ sse[r] = "ended" /\ active[path[r]] # r
OneLiveTurnPerPath ==
  \A r, s \in Requests :
    Working(r) /\ Working(s) /\ path[r] = path[s] /\ r # s =>
      \/ Live(r) /\ ClosingWithoutSlot(s)
      \/ Live(s) /\ ClosingWithoutSlot(r)

\* When a response is over, for whatever reason, its kernel turn is closed or
\* being closed: no turn goes on running commands for a client that is gone
\* (the aclosing chain of routes/turn.py:42 and session.py:272).
NoOrphanTurn == \A r \in Requests : sse[r] = "ended" => ~Live(r)

\* A client that is told `done` saw a turn that completed, unless shutdown
\* closed the turn under it (session.py:272-275 and 297-301).
DoneMeansCompleted ==
  \A r \in Requests :
    received[r] = "done" =>
      \/ ending[r] = "completed"
      \/ ending[r] = "interrupted" /\ shutdown # "up"

\* `done` and `error` are final: no frame is written after one of them, neither an
\* event nor a second final one (session.py:275-291).
FinalFrameIsLast ==
  [][\A r \in Requests :
       received[r] \in {"done", "error"} =>
         /\ received'[r] = received[r]
         /\ ~(sse[r] = "waiting" /\ sse'[r] = "sending")]_vars

\* Once the generator has started, a disconnect frees the path's slot, in
\* whichever state it finds the stream (routes/turn.py:84-88).
DisconnectFreesSlot ==
  \A r \in Requests :
    (~connected[r] /\ gen[r] \in {"running", "suspended"}) ~> (active[path[r]] # r)

\* A shutdown request is answered: cancel_active_turn waits for no turn to
\* end by itself (session.py:295-301).
ShutdownAnswers == (shutdown = "closing") ~> (shutdown \in {"failed", "exiting"})

\* The slots behave as TurnSlots promises, whatever else the server does.
SlotState(r) ==
  IF sse[r] = "idle" THEN "new"
  ELSE IF sse[r] = "rejected" THEN "refused"
  ELSE IF gen[r] = "finished" THEN "released"
  ELSE IF Live(r) THEN "running"
  ELSE IF kern[r] = "none" THEN "admitted"
  ELSE "stopped"

Slots == INSTANCE TurnSlots WITH
  Turns <- Requests, holder <- active, state <- [r \in Requests |-> SlotState(r)]

ImplementsTurnSlots == Slots!Spec

-----------------------------------------------------------------------------
(* What the documentation says of the server, and the code does not do.    *)

\* "On disconnect, the server `aclose`s the turn generator chain [and]
\* releases that path's busy slot" (server/README.md:204-206).
SlotFreedOnDisconnect ==
  \A r \in Requests : ~connected[r] ~> (active[path[r]] # r)

\* "On success it best-effort cancels all in-flight turns [...] and sets
\* uvicorn should_exit so the process can exit instead of waiting forever on
\* an open LLM stream" (server/README.md:287-289).
ShutdownSucceeds == (shutdown = "closing") ~> (shutdown = "exiting")

\* "While a turn is active on a resolved path, workspace writes for that path
\* return 409"; "Config update/reset returns 409 if any workspace has an active
\* turn" (server/README.md:268-273).
WritesExcludeTurns ==
  [][\A w \in Writers :
       writer[w] = "checked" /\ writer'[w] = "answered" =>
         IF target[w] = AllPaths THEN \A p \in Paths : ~Busy(p) ELSE ~Busy(target[w])]_vars
=============================================================================
