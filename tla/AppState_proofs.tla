--------------------------- MODULE AppState_proofs ---------------------------
(***************************************************************************)
(* The safety properties of AppState, for any characters, any number of    *)
(* turns alive at once and queues of any length.                           *)
(*                                                                         *)
(* IInv is about the turn: a callback that ends one must be its own        *)
(* reader's last, although ids are used again, and a response must not     *)
(* stay open past the click on Cancel, whichever thread comes first.       *)
(* OpInv is about operations: a worker or one queued callback carries what *)
(* was selected when the operation began, until Main may be shown with it. *)
(***************************************************************************)
EXTENDS AppState, SequenceTheorems, TLAPS

\* Queues are sequences of anything; what is known of the callbacks in one.
IsSeq(s) == \E S : s \in Seq(S)
Elements(s) == {s[i] : i \in DOMAIN s}

\* The turn on the page is there, and only it is being cancelled.
TurnOK ==
  /\ busy \in BOOLEAN
  /\ active_turn_id \in Turns \cup {NoTurn}
  /\ busy <=> active_turn_id # NoTurn
  /\ main \in {"launch", "free", "cancel"}
  /\ main = "cancel" => busy
  /\ cancelled \subseteq Turns
  /\ reader \in [Turns -> {"idle", "connecting", "attaching", "next", "reading", "got"}]
  /\ response \in [Turns -> {"none", "open", "closed"}]

\* Between its two steps, cancel may still find the response open.
CloseOK ==
  \A t \in cancelled : response[t] = "open" => main = "cancel" /\ active_turn_id = t

\* A callback that may end a turn was its reader's last word.
Last(c) == c.to \in TurnHandlers /\ (c.to = "on_event" => c.what # "progress")

QueueOK ==
  /\ IsSeq(queue)
  /\ \A c \in Elements(queue) : Last(c) => reader[c.id] = "idle"

IInv == TurnOK /\ CloseOK /\ QueueOK

-----------------------------------------------------------------------------
\* Queueing a callback adds it, and nothing else.
LEMMA ElementsOfAppend ==
  ASSUME NEW s, NEW e, IsSeq(s)
  PROVE  IsSeq(Append(s, e)) /\ Elements(Append(s, e)) = Elements(s) \cup {e}
<1>1. PICK S : s \in Seq(S)
  BY DEF IsSeq
<1> DEFINE T == S \cup {e}
<1>2. s \in Seq(T)
  BY <1>1, SeqMonotonic
<1>3. Append(s, e) \in Seq(T) /\ Len(s) \in Nat
  BY <1>2
<1>4. DOMAIN s = 1..Len(s) /\ DOMAIN Append(s, e) = 1..(Len(s) + 1)
  BY <1>2
<1>5. \A i \in 1..Len(s) : Append(s, e)[i] = s[i]
  BY <1>2
<1>6. Append(s, e)[Len(s) + 1] = e
  BY <1>2
<1>7. Elements(Append(s, e)) = Elements(s) \cup {e}
  BY <1>3, <1>4, <1>5, <1>6 DEF Elements
<1> QED
  BY <1>3, <1>7 DEF IsSeq

\* Running the oldest callback takes it from the queue.
LEMMA ElementsOfTail ==
  ASSUME NEW s, IsSeq(s), s # <<>>
  PROVE  IsSeq(Tail(s)) /\ Elements(Tail(s)) \subseteq Elements(s) /\ Head(s) \in Elements(s)
<1>1. PICK S : s \in Seq(S)
  BY DEF IsSeq
<1>2. /\ Tail(s) \in Seq(S) /\ Len(s) \in Nat /\ Len(s) # 0
      /\ Len(Tail(s)) = Len(s) - 1
      /\ \A i \in 1..Len(Tail(s)) : Tail(s)[i] = s[i + 1]
  BY <1>1, HeadTailProperties, EmptySeq
<1>3. DOMAIN s = 1..Len(s) /\ DOMAIN Tail(s) = 1..(Len(s) - 1)
  BY <1>1, <1>2
<1>4. Head(s) = s[1]
  BY <1>1
<1> QED
  BY <1>2, <1>3, <1>4 DEF IsSeq, Elements

\* What operations and turns queue: only a reader queues callbacks of turns.
LEMMA Handlers ==
  ASSUME NEW h \in {"loading_ok", "loading_failed", "recovered", "recovery_failed", "failed",
                    "character_ready", "reset_ok", "config_loaded", "config_saved", "picked",
                    "import_finished"}
  PROVE  h \notin TurnHandlers
  BY DEF TurnHandlers

\* A callback of an operation leaves what is known of the queue.
LEMMA FinishQueue ==
  ASSUME QueueOK, NEW c, c.to \notin TurnHandlers, Finish(c), UNCHANGED reader
  PROVE  QueueOK'
  BY ElementsOfAppend DEF QueueOK, Finish, Last

\* Whatever a worker answers goes to a handler of operations.
LEMMA WorkQueue ==
  ASSUME QueueOK, Work \/ Pick
  PROVE  QueueOK'
<1>1. ASSUME UNCHANGED queue, UNCHANGED reader PROVE QueueOK'
  BY <1>1 DEF QueueOK
<1>2. UNCHANGED reader
  BY DEF Work, Pick, thread_vars
<1>3. ASSUME NEW recovery, LoadFails(recovery) PROVE QueueOK'
  <2>1. LoadingFailure(recovery).to \notin TurnHandlers
    BY Handlers DEF LoadingFailure, Answer, Callback
  <2> QED
    BY <1>2, <1>3, <2>1, FinishQueue DEF LoadFails
<1>4. ASSUME NEW to, Proceed(to) PROVE QueueOK'
  BY <1>1, <1>2, <1>4 DEF Proceed
<1>5. CASE CheckLocal
  BY <1>3, <1>4, <1>5 DEF CheckLocal
<1>6. CASE Pair
  BY <1>3, <1>4, <1>6 DEF Pair
<1>7. CASE Verify
  BY <1>3, <1>4, <1>7 DEF Verify
<1>8. CASE ReadCatalog
  <2>1. ASSUME NEW mods \in SUBSET Mods, NEW configured \in BOOLEAN,
               Finish([Answer("loading_ok") EXCEPT !.pack = subject, !.packs = Bundled \cup mods,
                                                   !.ok = configured])
        PROVE  QueueOK'
    <3> DEFINE c == [Answer("loading_ok") EXCEPT !.pack = subject, !.packs = Bundled \cup mods,
                                                 !.ok = configured]
    <3>1. c.to \notin TurnHandlers
      BY Handlers DEF Answer, Callback
    <3> QED
      BY <1>2, <2>1, <3>1, FinishQueue
  <2> QED
    BY <1>3, <1>8, <2>1 DEF ReadCatalog
<1>9. CASE Request
  <2>1. \A op \in DOMAIN Handler : Handler[op][1] \notin TurnHandlers
                                     /\ Handler[op][2] \notin TurnHandlers
    BY Handlers DEF Handler
  <2>2. ASSUME NEW configured \in BOOLEAN, operation \in DOMAIN Handler,
               Finish([Answer(Handler[operation][1]) EXCEPT !.pack = subject, !.ok = configured])
        PROVE  QueueOK'
    <3> DEFINE c == [Answer(Handler[operation][1]) EXCEPT !.pack = subject, !.ok = configured]
    <3>1. c.to \notin TurnHandlers
      BY <2>1, <2>2 DEF Answer, Callback
    <3> QED
      BY <1>2, <2>2, <3>1, FinishQueue
  <2>3. ASSUME operation \in DOMAIN Handler, Finish(Answer(Handler[operation][2]))
        PROVE  QueueOK'
    <3>1. Answer(Handler[operation][2]).to \notin TurnHandlers
      BY <2>1, <2>3 DEF Answer, Callback
    <3> QED
      BY <1>2, <2>3, <3>1, FinishQueue
  <2> QED
    BY <1>9, <2>2, <2>3 DEF Request
<1>10. CASE Install
  <2>1. ASSUME NEW mods \in SUBSET Mods,
               Finish([Answer("import_finished") EXCEPT !.packs = Bundled \cup mods])
        PROVE  QueueOK'
    <3> DEFINE c == [Answer("import_finished") EXCEPT !.packs = Bundled \cup mods]
    <3>1. c.to \notin TurnHandlers
      BY Handlers DEF Answer, Callback
    <3> QED
      BY <1>2, <2>1, <3>1, FinishQueue
  <2>2. ASSUME Finish(Answer("failed")) PROVE QueueOK'
    <3>1. Answer("failed").to \notin TurnHandlers
      BY Handlers DEF Answer, Callback
    <3> QED
      BY <1>2, <2>2, <3>1, FinishQueue
  <2> QED
    BY <1>10, <2>1, <2>2 DEF Install
<1>11. CASE Pick
  <2>1. PICK staged \in BOOLEAN : Finish([Answer("picked") EXCEPT !.ok = staged])
    BY <1>11 DEF Pick
  <2> DEFINE c == [Answer("picked") EXCEPT !.ok = staged]
  <2>2. c.to \notin TurnHandlers
    BY Handlers DEF Answer, Callback
  <2> QED
    BY <1>2, <2>1, <2>2, FinishQueue
<1> QED
  BY <1>5, <1>6, <1>7, <1>8, <1>9, <1>10, <1>11 DEF Work

-----------------------------------------------------------------------------
\* A launched client has no turn and an empty queue.
LEMMA InitIInv == Init => IInv
<1> SUFFICES ASSUME Init PROVE IInv
  OBVIOUS
<1>1. <<>> \in Seq({}) /\ Elements(<<>>) = {}
  BY EmptySeq DEF Elements
<1> QED
  BY <1>1 DEF Init, Memory, IInv, TurnOK, CloseOK, QueueOK, IsSeq

\* A step that leaves the turn, its threads and the queue alone.
LEMMA QuietIInv ==
  ASSUME IInv, UNCHANGED <<queue, turn_vars, thread_vars>>,
         main' = main \/ (main = "launch" /\ main' = "free")
  PROVE  IInv'
  BY DEF IInv, TurnOK, CloseOK, QueueOK, turn_vars, thread_vars

\* A callback may end the turn; main is free, so that no response is open that
\* should not be.
LEMMA RunCallbackIInv ==
  ASSUME IInv, RunCallback
  PROVE  IInv'
<1>1. UNCHANGED <<main, reader, response>> /\ main = "free"
  BY DEF RunCallback
<1>2. QueueOK'
  BY <1>1, ElementsOfTail DEF IInv, QueueOK, RunCallback
<1>3. /\ UNCHANGED <<busy, active_turn_id>> \/ (busy' = FALSE /\ active_turn_id' = NoTurn)
      /\ cancelled' \subseteq cancelled
  <2>1. CASE OnOperation(Head(queue))
    BY <2>1 DEF OnOperation
  <2>2. CASE OnTurn(Head(queue))
    BY <2>2 DEF OnTurn, OnEvent, EndTurn
  <2> QED
    BY <2>1, <2>2 DEF RunCallback
<1>4. TurnOK'
  <2>1. busy' \in BOOLEAN /\ active_turn_id' \in Turns \cup {NoTurn}
    BY <1>3 DEF IInv, TurnOK
  <2>2. busy' <=> active_turn_id' # NoTurn
    BY <1>3 DEF IInv, TurnOK
  <2> QED
    BY <1>1, <1>3, <2>1, <2>2 DEF IInv, TurnOK
<1>5. CloseOK'
  BY <1>1, <1>3 DEF IInv, CloseOK
<1> QED
  BY <1>2, <1>4, <1>5 DEF IInv

\* A new turn takes an id nothing is left of.
LEMMA SendIInv ==
  ASSUME IInv, Send
  PROVE  IInv'
<1>1. CASE ForceConfig
  <2>1. UNCHANGED <<queue, turn_vars, thread_vars>> /\ main' = main
    BY <1>1 DEF Send, ForceConfig
  <2> QED
    BY <2>1, QuietIInv
<1>2. CASE StreamTurn(NextTurn)
  <2>1. NextTurn \in Turns /\ Free(NextTurn)
    BY DEF Send, NextTurn
  <2>2. NextTurn # NoTurn
    BY <2>1, AppAssumption DEF Turns, NoTurn
  <2>3. TurnOK' /\ CloseOK'
    BY <1>2, <2>1, <2>2 DEF Send, StreamTurn, Click, IInv, TurnOK, CloseOK
  <2>4. QueueOK'
    <3>1. UNCHANGED queue /\ reader' = [reader EXCEPT ![NextTurn] = "connecting"]
      BY <1>2 DEF Send, StreamTurn
    <3>2. \A c \in Elements(queue) : Last(c) => c.id # NextTurn
      BY <2>1 DEF Free, Over, Elements, Last
    <3> QED
      BY <3>1, <3>2 DEF IInv, QueueOK, TurnOK
  <2> QED
    BY <2>3, <2>4 DEF IInv
<1> QED
  BY <1>1, <1>2 DEF Send

\* The flag, then the response.
LEMMA CancelIInv ==
  ASSUME IInv, Cancel
  PROVE  IInv'
  BY DEF IInv, TurnOK, CloseOK, QueueOK, Cancel, Click, turn_vars

\* Once the click on Cancel returns, the response it closed is closed.
LEMMA CloseIInv ==
  ASSUME IInv, CloseResponse
  PROVE  IInv'
<1>1. active_turn_id \in Turns
  BY DEF IInv, TurnOK, CloseResponse
<1>2. TurnOK'
  BY <1>1 DEF IInv, TurnOK, CloseResponse, turn_vars
<1>3. CloseOK' /\ QueueOK'
  BY <1>1 DEF IInv, TurnOK, CloseOK, QueueOK, CloseResponse
<1> QED
  BY <1>2, <1>3 DEF IInv

-----------------------------------------------------------------------------
\* A reader that goes on, its response as it was or attached: it was not idle.
LEMMA GoingOn ==
  ASSUME IInv, NEW t \in Turns, reader[t] # "idle",
         NEW to \in {"attaching", "next", "reading", "got"},
         reader' = [reader EXCEPT ![t] = to],
         response' \in {response, [response EXCEPT ![t] = AttachedAs(t)]},
         IsSeq(queue'), \A c \in Elements(queue') : c \in Elements(queue) \/ ~Last(c),
         UNCHANGED <<main, turn_vars, cancelled>>
  PROVE  IInv'
<1>1. AttachedAs(t) \in {"open", "closed"} /\ (t \in cancelled => AttachedAs(t) = "closed")
  BY DEF AttachedAs
<1>2. TurnOK'
  BY <1>1 DEF IInv, TurnOK, turn_vars
<1>3. CloseOK'
  BY <1>1 DEF IInv, TurnOK, CloseOK, turn_vars
<1>4. QueueOK'
  BY DEF IInv, TurnOK, QueueOK
<1> QED
  BY <1>2, <1>3, <1>4 DEF IInv

\* A reader that ends, with one or two callbacks.
LEMMA Ending ==
  ASSUME IInv, NEW t \in Turns, NEW calls,
         reader' = [reader EXCEPT ![t] = "idle"],
         response' = [response EXCEPT ![t] = "none"],
         IsSeq(queue'), \A c \in Elements(queue') : c \in Elements(queue) \/ c.id = t,
         UNCHANGED <<main, turn_vars, cancelled>>
  PROVE  IInv'
<1>1. TurnOK' /\ CloseOK'
  BY DEF IInv, TurnOK, CloseOK, turn_vars
<1>2. QueueOK'
  BY DEF IInv, TurnOK, QueueOK
<1> QED
  BY <1>1, <1>2 DEF IInv

\* The callbacks of a turn carry its id; progress ends nothing.
LEMMA CallsOfTurn ==
  ASSUME NEW t
  PROVE  /\ Callback("on_complete", t).id = t /\ Callback("on_error", t).id = t
         /\ \A e : OnEventOf(t, e).id = t
         /\ ~Last(OnEventOf(t, "progress"))
  BY Zenon DEF Callback, OnEventOf, Last

\* A reader that goes on queues nothing that ends its turn.
LEMMA GotoIInv ==
  ASSUME IInv, NEW t \in Turns, reader[t] # "idle",
         NEW to \in {"attaching", "next", "reading", "got"}, Goto(t, to),
         UNCHANGED <<main, turn_vars>>
  PROVE  IInv'
<1>1. IsSeq(queue') /\ Elements(queue') = Elements(queue)
  BY DEF IInv, QueueOK, Goto
<1> QED
  BY <1>1, GoingOn DEF Goto

\* run ends with one callback or two.
LEMMA EndOneIInv ==
  ASSUME IInv, NEW t \in Turns, NEW c, c.id = t, EndReader(t, <<c>>),
         UNCHANGED <<main, turn_vars>>
  PROVE  IInv'
<1>1. queue' = Append(queue, c)
  <2>1. PICK S : queue \in Seq(S)
    BY DEF IInv, QueueOK, IsSeq
  <2>2. queue \in Seq(S \cup {c})
    BY <2>1, SeqMonotonic
  <2> QED
    BY <2>2 DEF EndReader
<1>2. IsSeq(queue') /\ Elements(queue') = Elements(queue) \cup {c}
  BY <1>1, ElementsOfAppend DEF IInv, QueueOK
<1> QED
  BY <1>2, Ending DEF EndReader

\* A reader that ends may queue a progress before its last callback.
LEMMA EndTwoIInv ==
  ASSUME IInv, NEW t \in Turns, NEW c, NEW d, c.id = t, d.id = t, EndReader(t, <<c, d>>),
         UNCHANGED <<main, turn_vars>>
  PROVE  IInv'
<1>1. queue' = Append(Append(queue, c), d)
  <2>1. PICK S : queue \in Seq(S)
    BY DEF IInv, QueueOK, IsSeq
  <2>2. queue \in Seq(S \cup {c, d})
    BY <2>1, SeqMonotonic
  <2> QED
    BY <2>2 DEF EndReader
<1>2. IsSeq(Append(queue, c)) /\ Elements(Append(queue, c)) = Elements(queue) \cup {c}
  BY ElementsOfAppend DEF IInv, QueueOK
<1>3. IsSeq(queue') /\ Elements(queue') = Elements(queue) \cup {c, d}
  BY <1>1, <1>2, ElementsOfAppend
<1> QED
  BY <1>3, Ending DEF EndReader

\* A reader that fails ends with one callback.
LEMMA FailIInv ==
  ASSUME IInv, NEW t \in Turns, FailReader(t), UNCHANGED <<main, turn_vars>>
  PROVE  IInv'
<1>1. CASE t \in cancelled
  BY <1>1, CallsOfTurn, EndOneIInv DEF FailReader
<1>2. CASE t \notin cancelled
  BY <1>2, CallsOfTurn, EndOneIInv DEF FailReader
<1> QED
  BY <1>1, <1>2

\* Every step of a reader.
LEMMA ReadIInv ==
  ASSUME IInv, NEW t \in Turns, Read(t)
  PROVE  IInv'
<1>1. UNCHANGED <<main, turn_vars>>
  BY DEF Read
<1>2. CASE Connect(t)
  BY <1>1, <1>2, GotoIInv, FailIInv DEF Connect
<1>3. CASE Attach(t)
  <2>1. IsSeq(queue') /\ Elements(queue') = Elements(queue)
    BY <1>3 DEF IInv, QueueOK, Attach
  <2> QED
    BY <1>1, <1>3, <2>1, GoingOn DEF Attach
<1>4. CASE BeginRead(t)
  BY <1>1, <1>4, GotoIInv, FailIInv DEF BeginRead
<1>5. CASE EndRead(t)
  BY <1>1, <1>5, GotoIInv, FailIInv DEF EndRead
<1>6. CASE Deliver(t)
  <2>1. CASE EndReader(t, <<OnEventOf(t, "done"), Callback("on_complete", t)>>)
    BY <1>1, <2>1, CallsOfTurn, EndTwoIInv
  <2>2. CASE EndReader(t, <<OnEventOf(t, "error")>>)
    BY <1>1, <2>2, CallsOfTurn, EndOneIInv
  <2>3. CASE /\ reader' = [reader EXCEPT ![t] = "next"]
             /\ queue' = Append(queue, OnEventOf(t, "progress"))
             /\ UNCHANGED <<response, cancelled>>
    <3>1. /\ IsSeq(queue')
          /\ Elements(queue') = Elements(queue) \cup {OnEventOf(t, "progress")}
      BY <2>3, ElementsOfAppend DEF IInv, QueueOK
    <3>2. \A c \in Elements(queue') : c \in Elements(queue) \/ ~Last(c)
      BY <3>1, CallsOfTurn
    <3>3. reader[t] # "idle"
      BY <1>6 DEF Deliver
    <3> QED
      BY <1>1, <2>3, <3>1, <3>2, <3>3, GoingOn
  <2> QED
    BY <1>6, <2>1, <2>2, <2>3 DEF Deliver
<1> QED
  BY <1>2, <1>3, <1>4, <1>5, <1>6 DEF Read

\* The end of the process leaves no thread and no callback.
LEMMA RestartIInv ==
  ASSUME Restart
  PROVE  IInv'
<1>1. <<>> \in Seq({}) /\ Elements(<<>>) = {}
  BY EmptySeq DEF Elements
<1> QED
  BY <1>1 DEF Restart, IInv, TurnOK, CloseOK, QueueOK, IsSeq

\* Every step keeps the invariant of the turn.
LEMMA NextIInv == IInv /\ [Next]_vars => IInv'
<1> SUFFICES ASSUME IInv, [Next]_vars PROVE IInv'
  OBVIOUS
<1>1. CASE Launch \/ Retry \/ ResetServerConfig \/ ResetAssistantConfig \/ Button
  <2>1. UNCHANGED <<queue, turn_vars, thread_vars>>
    BY <1>1 DEF Launch, Retry, ResetServerConfig, ResetAssistantConfig, Button
  <2>2. main' = main \/ (main = "launch" /\ main' = "free")
    BY <1>1 DEF Launch, Retry, ResetServerConfig, ResetAssistantConfig, Button
  <2> QED
    BY <2>1, <2>2, QuietIInv
<1>2. CASE Work \/ Pick
  <2>1. UNCHANGED <<main, turn_vars, thread_vars>>
    BY <1>2 DEF Work, Pick
  <2>2. TurnOK' /\ CloseOK'
    BY <2>1 DEF IInv, TurnOK, CloseOK, turn_vars, thread_vars
  <2>3. QueueOK'
    BY <1>2, WorkQueue DEF IInv
  <2> QED
    BY <2>2, <2>3 DEF IInv
<1>3. CASE RunCallback
  BY <1>3, RunCallbackIInv
<1>4. CASE Send
  BY <1>4, SendIInv
<1>5. CASE Cancel
  BY <1>5, CancelIInv
<1>6. CASE CloseResponse
  BY <1>6, CloseIInv
<1>7. ASSUME NEW t \in Turns, Read(t) PROVE IInv'
  BY <1>7, ReadIInv
<1>8. CASE Restart
  BY <1>8, RestartIInv
<1>9. CASE UNCHANGED vars
  BY <1>9, QuietIInv DEF vars
<1> QED
  BY <1>1, <1>2, <1>3, <1>4, <1>5, <1>6, <1>7, <1>8, <1>9 DEF Next

\* The invariant of the turn and its threads: who may be cancelled, whose
\* response may be open, and whose last callbacks may be queued.
THEOREM Invariance == Spec => []IInv
  BY InitIInv, NextIInv, PTL DEF Spec

-----------------------------------------------------------------------------
\* A cancelled turn keeps no response open once the click has returned, however
\* the reader and the main thread interleave (client.py:54-65).
THEOREM CancelReaches == Spec => []CancelReachesServer
<1>1. IInv => CancelReachesServer
  BY DEF IInv, CloseOK, CancelReachesServer
<1> QED
  BY <1>1, Invariance, PTL

\* The step of TurnEndIsReal.
LEMMA EndIsReal ==
  ASSUME IInv, [Next]_vars, busy, ~busy', main' # "launch"
  PROVE  active_turn_id \in cancelled \/ reader[active_turn_id] = "idle"
<1>1. ASSUME UNCHANGED turn_vars PROVE FALSE
  BY <1>1 DEF turn_vars
<1>2. RunCallback
  <2>1. ~Restart
    BY DEF Restart
  <2>2. ~Send
    BY DEF Send
  <2>3. \A t \in Turns : ~Read(t)
    BY <1>1 DEF Read
  <2>4. ~UNCHANGED vars
    BY <1>1 DEF vars
  <2> QED
    BY <1>1, <2>1, <2>2, <2>3, <2>4
    DEF Next, Launch, Retry, ResetServerConfig, ResetAssistantConfig, Work, Pick, Cancel,
        CloseResponse, Button
<1> DEFINE c == Head(queue)
<1>3. OnTurn(c)
  BY <1>2 DEF RunCallback, OnOperation
<1>4. c \in Elements(queue)
  BY <1>2, ElementsOfTail DEF RunCallback, IInv, QueueOK
<1>5. active_turn_id = c.id /\ c.to \in TurnHandlers
  BY <1>2, <1>3 DEF RunCallback, OnTurn, OnOperation, TurnIsCurrent
<1>6. c.id \in cancelled \/ Last(c)
  BY <1>3, <1>5 DEF OnTurn, OnEvent, Last
<1> QED
  BY <1>4, <1>5, <1>6 DEF IInv, QueueOK

\* A turn ends by its own reader's last callback or after a cancellation, never
\* by what is left of another, though ids are used again (app.py:927-1048).
THEOREM TurnsEndByTheirOwn == Spec => TurnEndIsReal
<1>1. IInv /\ [Next]_vars =>
        [busy /\ ~busy' /\ main' # "launch" =>
           active_turn_id \in cancelled \/ reader[active_turn_id] = "idle"]_vars
  BY EndIsReal
<1> QED
  BY <1>1, Invariance, PTL DEF Spec, TurnEndIsReal

-----------------------------------------------------------------------------
(* Operations: the invariant under MainReady.                              *)

\* One operation at a time: it has a worker, or its only callback is queued.
OneCall(calls) ==
  \A i, j \in DOMAIN calls :
    calls[i].to \notin TurnHandlers /\ calls[j].to \notin TurnHandlers => i = j

\* The step of the worker is one of its operation, and the operation one that
\* the page and what is loaded allow.
WorkOK ==
  /\ main = "launch" => page = "loading" /\ operation = NoOperation
  /\ operation = NoOperation => worker = "idle"
  /\ worker \in {"local", "pair", "verify", "catalog"} => operation = "starting"
  /\ worker = "request" => operation \in DOMAIN Handler
  /\ worker \in {"picker", "install"} => operation = "importing"
  /\ operation = "starting" => page = "loading" /\ ~ready
  /\ operation = "recovering" => ~ready
  /\ operation = "applying" => ready /\ provider_configured /\ assistant \in characters
  /\ operation = "saving_config" => ready

Trusted == server = "remote" => credentials = "paired"

\* What the worker captured is still what is selected.
SubjectOK ==
  worker # "idle" =>
    /\ operation \in {"starting", "saving_config"} => subject = selected
    /\ operation = "applying" => subject = assistant
    /\ worker = "catalog" => Trusted

\* Once loading is done the selection is the saved one, and the server too.
LoadedOK ==
  /\ page # "loading" => ready
  /\ ready => assistant = selected /\ Trusted

\* A callback carries what its operation was begun with.
CallbackOK(c) ==
  /\ worker = "idle" /\ operation # NoOperation
  /\ c.pack \in Packs \cup {NoPack} /\ c.ok \in BOOLEAN
  /\ c.to = "loading_ok" => operation = "starting" /\ c.pack = selected /\ Trusted
  /\ c.to = "loading_failed" => operation = "starting" /\ c.what \in Recoveries
  /\ c.to = "recovered" => operation = "recovering"
  /\ c.to = "character_ready" => operation = "applying" /\ c.pack = assistant
  /\ c.to = "config_saved" => operation = "saving_config" /\ c.pack = selected
  /\ c.to = "picked" => operation = "importing"

CallsOK ==
  OneCall(queue) /\ \A c \in Elements(queue) : c.to \notin TurnHandlers => CallbackOK(c)

\* The types of what the main thread's operations work on.
StateTyped ==
  /\ page \in Pages
  /\ operation \in Operations \cup {NoOperation} /\ operation_id \in 0..Ids
  /\ starting \in BOOLEAN /\ ready \in BOOLEAN /\ error \in BOOLEAN
  /\ loading_recovery \in Recoveries
  /\ worker \in {"idle", "local", "pair", "verify", "catalog", "request", "picker", "install"}
  /\ subject \in Packs \cup {NoPack}

DataTyped ==
  /\ characters \in SUBSET Packs
  /\ character \in Packs \cup {NoPack} /\ assistant \in Packs \cup {NoPack}
  /\ provider_configured \in BOOLEAN
  /\ server \in {"local", "remote"} /\ pending_pairing \in BOOLEAN /\ spent \in BOOLEAN
  /\ prefs \in {"ok", "bad", "bad_url"}
  /\ selected \in Packs \cup {NoPack} /\ credentials \in {"default", "paired"}

OpTyped == StateTyped /\ DataTyped

QueueTyped(calls) == \A c \in Elements(calls) : c.id \in Nat /\ c.packs \in SUBSET Packs

Core == OpTyped /\ WorkOK /\ SubjectOK /\ LoadedOK /\ MainReady

OpInv == IInv /\ Core /\ QueueTyped(queue) /\ CallsOK

\* The type invariant is shared between the two invariants.
LEMMA TypeFromParts == IInv /\ OpTyped /\ QueueTyped(queue) => TypeOK
  BY DEF IInv, TurnOK, OpTyped, StateTyped, DataTyped, QueueTyped, Elements, TypeOK

-----------------------------------------------------------------------------
\* Only callbacks of turns are queued.
NoCalls(calls) == \A c \in Elements(calls) : c.to \in TurnHandlers

\* Where no operation awaits a callback, none is queued.
LEMMA NoneQueued ==
  ASSUME CallsOK, operation = NoOperation \/ worker # "idle"
  PROVE  NoCalls(queue)
  BY DEF CallsOK, NoCalls, CallbackOK

\* A queue without callbacks of operations is in order.
LEMMA NoCallsOK ==
  ASSUME NoCalls(queue)
  PROVE  CallsOK
  BY DEF NoCalls, CallsOK, OneCall, Elements

\* An operation's only callback leaves none behind.
LEMMA LastCall ==
  ASSUME IsSeq(queue), queue # <<>>, CallsOK, Head(queue).to \notin TurnHandlers
  PROVE  NoCalls(Tail(queue)) /\ CallbackOK(Head(queue))
<1>1. PICK S : queue \in Seq(S)
  BY DEF IsSeq
<1>2. /\ Len(queue) \in Nat \ {0} /\ DOMAIN queue = 1..Len(queue) /\ Head(queue) = queue[1]
      /\ DOMAIN Tail(queue) = 1..(Len(queue) - 1)
      /\ \A i \in 1..(Len(queue) - 1) : Tail(queue)[i] = queue[i + 1]
  BY <1>1, HeadTailProperties, EmptySeq
<1>3. \A i \in DOMAIN Tail(queue) : Tail(queue)[i].to \in TurnHandlers
  <2> SUFFICES ASSUME NEW i \in DOMAIN Tail(queue), Tail(queue)[i].to \notin TurnHandlers
               PROVE  FALSE
    OBVIOUS
  <2>1. 1 \in DOMAIN queue /\ i + 1 \in DOMAIN queue /\ i + 1 # 1 /\ Tail(queue)[i] = queue[i + 1]
    BY <1>2
  <2> QED
    BY <1>2, <2>1 DEF CallsOK, OneCall
<1>4. Head(queue) \in Elements(queue)
  BY ElementsOfTail
<1> QED
  BY <1>3, <1>4 DEF NoCalls, Elements, CallsOK

\* A callback of a turn joins or leaves the queue.
LEMMA TurnCallAdded ==
  ASSUME NEW s, IsSeq(s), OneCall(s), NEW e, e.to \in TurnHandlers
  PROVE  OneCall(Append(s, e))
<1>1. PICK S : s \in Seq(S)
  BY DEF IsSeq
<1>2. s \in Seq(S \cup {e})
  BY <1>1, SeqMonotonic
<1>3. /\ Len(s) \in Nat /\ DOMAIN s = 1..Len(s) /\ DOMAIN Append(s, e) = 1..(Len(s) + 1)
      /\ \A i \in 1..Len(s) : Append(s, e)[i] = s[i]
      /\ Append(s, e)[Len(s) + 1] = e
  BY <1>2
<1> QED
  BY <1>3 DEF OneCall

\* Taking one off leaves what operations have queued.
LEMMA TurnCallTaken ==
  ASSUME NEW s, IsSeq(s), s # <<>>, OneCall(s)
  PROVE  OneCall(Tail(s))
<1>1. PICK S : s \in Seq(S)
  BY DEF IsSeq
<1>2. /\ Len(s) \in Nat \ {0} /\ DOMAIN s = 1..Len(s) /\ DOMAIN Tail(s) = 1..(Len(s) - 1)
      /\ \A i \in 1..(Len(s) - 1) : Tail(s)[i] = s[i + 1]
  BY <1>1, HeadTailProperties, EmptySeq
<1>3. \A i \in DOMAIN Tail(s) : i \in Nat /\ i + 1 \in DOMAIN s /\ Tail(s)[i] = s[i + 1]
  BY <1>2
<1>4. ASSUME NEW i \in DOMAIN Tail(s), NEW j \in DOMAIN Tail(s),
             Tail(s)[i].to \notin TurnHandlers, Tail(s)[j].to \notin TurnHandlers
      PROVE  i = j
  <2>1. i + 1 = j + 1
    BY <1>3, <1>4 DEF OneCall
  <2> QED
    BY <1>3, <2>1
<1> QED
  BY <1>4 DEF OneCall

\* The callback of an operation joins a queue that has none.
LEMMA OperationCallAdded ==
  ASSUME NEW s, IsSeq(s), NoCalls(s), NEW e
  PROVE  OneCall(Append(s, e))
<1>1. PICK S : s \in Seq(S)
  BY DEF IsSeq
<1>2. s \in Seq(S \cup {e})
  BY <1>1, SeqMonotonic
<1>3. /\ Len(s) \in Nat /\ DOMAIN s = 1..Len(s) /\ DOMAIN Append(s, e) = 1..(Len(s) + 1)
      /\ \A i \in 1..Len(s) : Append(s, e)[i] = s[i]
  BY <1>2
<1> QED
  BY <1>3 DEF OneCall, NoCalls, Elements

\* There is an operation id that no queued callback has.
LEMMA FreshId ==
  ASSUME NEW calls, NoCalls(calls)
  PROVE  NextId(calls) \in 0..Ids
<1>1. 1 \in 1..Ids /\ \A i \in DOMAIN calls : calls[i].to \notin TurnHandlers => calls[i].id # 1
  BY AppAssumption DEF NoCalls, Elements
<1>2. NextId(calls) \in 1..Ids
  BY <1>1 DEF NextId
<1> QED
  BY <1>2, AppAssumption

-----------------------------------------------------------------------------
(* Every step keeps it.                                                    *)

\* No operation is under way while a turn is, nor before the launch.
LEMMA NotBusy ==
  ASSUME Core, page # "main" \/ operation # NoOperation
  PROVE  ~busy /\ page # "main" /\ active_turn_id = NoTurn
  BY DEF Core, MainReady

\* A step of the main thread that leaves no callback of an operation queued.
LEMMA Settled ==
  ASSUME IInv', Core', QueueTyped(queue'), NoCalls(queue')
  PROVE  OpInv'
<1>1. CallsOK'
  BY DEF NoCalls, CallsOK, OneCall, Elements
<1> QED
  BY <1>1 DEF OpInv, QueueTyped, Elements

\* Loading starts anew.
LEMMA StartLoadingCore ==
  ASSUME Core, NEW calls, NoCalls(calls), StartLoading(calls), page # "main",
         UNCHANGED <<pair_vars, char_vars, turn_vars, store_vars>>, main' = "free"
  PROVE  Core'
<1>1. operation_id' \in 0..Ids
  BY FreshId DEF StartLoading
<1>2. OpTyped'
  <2>1. StateTyped /\ DataTyped /\ DataTyped'
    BY DEF Core, OpTyped, DataTyped, pair_vars, char_vars, turn_vars, store_vars
  <2>2. StateTyped'
    <3>1. CASE prefs = "ok"
      BY <1>1, <2>1, <3>1 DEF StateTyped, DataTyped, StartLoading, Pages, Operations, Recoveries
    <3>2. CASE prefs # "ok"
      BY <1>1, <2>1, <3>2 DEF StateTyped, DataTyped, StartLoading, Pages, Operations, Recoveries
    <3> QED
      BY <3>1, <3>2
  <2> QED
    BY <2>1, <2>2 DEF OpTyped
<1>3. WorkOK' /\ SubjectOK'
  BY DEF StartLoading, WorkOK, SubjectOK, store_vars, NoOperation
<1>4. LoadedOK'
  BY DEF StartLoading, LoadedOK
<1>5. MainReady'
  <2>1. ~busy /\ active_turn_id = NoTurn
    BY NotBusy
  <2> QED
    BY <2>1 DEF MainReady, StartLoading, turn_vars
<1> QED
  BY <1>2, <1>3, <1>4, <1>5 DEF Core

\* Loading is started only where no operation is active (app.py:152).
LEMMA LaunchStep ==
  ASSUME OpInv, IInv', Launch \/ Retry \/ ResetServerConfig \/ ResetAssistantConfig
  PROVE  OpInv'
<1>1. Core /\ queue' = queue /\ QueueTyped(queue)
  BY DEF OpInv, Launch, Retry, ResetServerConfig, ResetAssistantConfig
<1>2. operation = NoOperation /\ page # "main" /\ page = "loading"
  BY DEF OpInv, Core, WorkOK, Launch, Retry, ResetServerConfig, ResetAssistantConfig, Click, CanLoad
<1>3. NoCalls(queue)
  BY <1>2, NoneQueued DEF OpInv
<1>4. Core'
  <2>1. CASE Launch \/ Retry
    BY <1>1, <1>2, <1>3, <2>1, StartLoadingCore DEF Launch, Retry, Click
  <2>2. CASE ResetServerConfig
    <3>1. operation_id' \in 0..Ids
      BY <1>3, <2>2, FreshId DEF ResetServerConfig, Begin
    <3>2. OpTyped'
      <4>1. DataTyped'
        BY <1>1, <2>2 DEF Core, OpTyped, DataTyped, ResetServerConfig, pair_vars, char_vars,
                          turn_vars, store_vars
      <4>2. StateTyped'
        BY <1>1, <2>2, <3>1 DEF Core, OpTyped, StateTyped, ResetServerConfig, Begin, Operations
      <4> QED
        BY <4>1, <4>2 DEF OpTyped
    <3>3. WorkOK' /\ SubjectOK'
      BY <1>1, <2>2 DEF Core, WorkOK, SubjectOK, ResetServerConfig, Begin, CanLoad, Click,
                        NoOperation, Handler
    <3>4. LoadedOK' /\ MainReady'
      BY <1>1, <1>2, <2>2 DEF Core, LoadedOK, MainReady, Trusted, ResetServerConfig, Begin,
                              pair_vars, char_vars, turn_vars, store_vars
    <3> QED
      BY <3>2, <3>3, <3>4 DEF Core
  <2>3. CASE ResetAssistantConfig
    <3>1. operation_id' \in 0..Ids
      BY <1>3, <2>3, FreshId DEF ResetAssistantConfig
    <3>2. OpTyped'
      <4>1. DataTyped'
        BY <1>1, <2>3 DEF Core, OpTyped, DataTyped, ResetAssistantConfig, ResetPreferences,
                          pair_vars, char_vars, turn_vars
      <4>2. StateTyped'
        BY <1>1, <2>3, <3>1 DEF Core, OpTyped, StateTyped, ResetAssistantConfig, Operations, Pages,
                                Recoveries
      <4> QED
        BY <4>1, <4>2 DEF OpTyped
    <3>3. WorkOK' /\ SubjectOK'
      BY <1>1, <2>3 DEF Core, WorkOK, SubjectOK, ResetAssistantConfig, ResetPreferences, CanLoad,
                        Click, NoOperation
    <3>4. LoadedOK' /\ MainReady'
      BY <1>1, <1>2, <2>3 DEF Core, LoadedOK, MainReady, ResetAssistantConfig, CanLoad, turn_vars
    <3> QED
      BY <3>2, <3>3, <3>4 DEF Core
  <2> QED
    BY <2>1, <2>2, <2>3
<1> QED
  BY <1>1, <1>3, <1>4, Settled

\* A turn and its threads leave the operations alone.
LEMMA TurnStep ==
  ASSUME OpInv, IInv',
         UNCHANGED <<page, op_vars, load_vars, pair_vars, char_vars, store_vars>>,
         main' = "launch" => main = "launch",
         busy' => page = "main", (busy' <=> active_turn_id' # NoTurn),
         OneCall(queue'),
         \A c \in Elements(queue') :
           c \in Elements(queue) \/ (c.to \in TurnHandlers /\ c.id \in Nat /\ c.packs \in SUBSET Packs)
  PROVE  OpInv'
<1>1. OpTyped'
  BY DEF OpInv, Core, OpTyped, StateTyped, DataTyped, op_vars, load_vars, pair_vars, char_vars,
         store_vars
<1>2. WorkOK' /\ SubjectOK'
  BY DEF OpInv, Core, WorkOK, SubjectOK, Trusted, op_vars, load_vars, pair_vars, char_vars, store_vars
<1>3. LoadedOK' /\ MainReady'
  BY DEF OpInv, Core, LoadedOK, MainReady, Trusted, op_vars, load_vars, pair_vars, char_vars, store_vars
<1>4. QueueTyped(queue)'
  BY DEF OpInv, QueueTyped, Elements
<1>5. CallsOK'
  BY DEF OpInv, CallsOK, CallbackOK, Trusted, Elements, op_vars, load_vars, pair_vars, char_vars,
         store_vars
<1> QED
  BY <1>1, <1>2, <1>3, <1>4, <1>5 DEF OpInv, Core

\* The worker of an operation under way: only that of loading changes what the
\* client uses of the server.
Working ==
  /\ worker # "idle" /\ operation # NoOperation
  /\ UNCHANGED <<page, main, load_vars, char_vars, turn_vars, prefs, selected, operation,
                 operation_id>>
  /\ server' \in {"local", "remote"} /\ credentials' \in {"default", "paired"}
  /\ pending_pairing' \in BOOLEAN /\ spent' \in BOOLEAN
  /\ operation # "starting" => UNCHANGED <<server, credentials>>

\* A worker that goes on changes what loading may change, and only that.
LEMMA WorkingCore ==
  ASSUME Core, Working,
         \/ worker' = "idle" /\ subject' = NoPack
         \/ /\ worker' \in {"pair", "verify", "catalog"} /\ subject' = subject
            /\ operation = "starting" /\ (worker' = "catalog" => Trusted')
  PROVE  Core'
<1>1. operation' = operation /\ page' = page /\ ready' = ready /\ page # "main" /\ ~busy'
      /\ active_turn_id' = NoTurn
  BY NotBusy DEF Working, load_vars, turn_vars
<1>2. OpTyped'
  <2>1. DataTyped'
    BY DEF Core, OpTyped, DataTyped, Working, char_vars, turn_vars
  <2>2. StateTyped'
    BY DEF Core, OpTyped, StateTyped, Working, load_vars
  <2> QED
    BY <2>1, <2>2 DEF OpTyped
<1>3. WorkOK' /\ SubjectOK'
  BY DEF Core, WorkOK, SubjectOK, Working, load_vars, char_vars
<1>4. LoadedOK'
  <2>1. CASE operation = "starting"
    BY <1>1, <2>1 DEF Core, WorkOK, LoadedOK
  <2>2. CASE operation # "starting"
    BY <2>2 DEF Core, LoadedOK, Trusted, Working, load_vars, char_vars
  <2> QED
    BY <2>1, <2>2
<1>5. MainReady'
  BY <1>1 DEF MainReady
<1> QED
  BY <1>2, <1>3, <1>4, <1>5 DEF Core

\* The worker goes on: it has queued nothing.
LEMMA ProceedStep ==
  ASSUME OpInv, IInv', Working, NEW to \in {"pair", "verify", "catalog"}, Proceed(to),
         operation = "starting", to = "catalog" => Trusted'
  PROVE  OpInv'
<1>1. Core'
  BY WorkingCore DEF OpInv, Proceed
<1>2. NoCalls(queue') /\ QueueTyped(queue')
  BY NoneQueued DEF OpInv, Working, Proceed
<1> QED
  BY <1>1, <1>2, Settled

\* Or it answers, and is done.
LEMMA FinishStep ==
  ASSUME OpInv, IInv', Working, NEW c, Finish(c), c.id \in Nat, c.packs \in SUBSET Packs,
         CallbackOK(c)'
  PROVE  OpInv'
<1>1. Core'
  BY WorkingCore DEF OpInv, Finish
<1>2. NoCalls(queue) /\ IsSeq(queue)
  BY NoneQueued DEF OpInv, Working, IInv, QueueOK
<1>3. queue' = Append(queue, c) /\ OneCall(queue') /\ Elements(queue') = Elements(queue) \cup {c}
  BY <1>2, OperationCallAdded, ElementsOfAppend DEF Finish
<1>4. QueueTyped(queue)'
  BY <1>3 DEF OpInv, QueueTyped, Elements
<1>5. CallsOK'
  BY <1>2, <1>3 DEF CallsOK, NoCalls, Elements
<1> QED
  BY <1>1, <1>4, <1>5 DEF OpInv

\* What a callback is made of.
LEMMA Answers ==
  ASSUME OpInv, NEW to, NEW pack, NEW packs, NEW ok, NEW what
  PROVE  /\ Answer(to).id \in Nat /\ Answer(to).to = to /\ Answer(to).pack = NoPack
         /\ Answer(to).packs = {} /\ Answer(to).ok = FALSE
         /\ LoadingFailure(what).id \in Nat /\ LoadingFailure(what).to = "loading_failed"
         /\ LoadingFailure(what).pack = NoPack /\ LoadingFailure(what).packs = {}
         /\ LoadingFailure(what).ok = FALSE /\ LoadingFailure(what).what = what
<1>1. operation_id \in Nat
  BY AppAssumption DEF OpInv, Core, OpTyped, StateTyped
<1> QED
  BY <1>1 DEF Answer, Callback, LoadingFailure

\* A loading that fails queues the one callback of its operation.
LEMMA LoadFailsStep ==
  ASSUME OpInv, IInv', Working, operation = "starting",
         NEW recovery \in Recoveries, LoadFails(recovery)
  PROVE  OpInv'
<1>0. PICK c : c = LoadingFailure(recovery)
  OBVIOUS
<1>1. /\ c.id \in Nat /\ c.to = "loading_failed" /\ c.pack = NoPack /\ c.packs = {} /\ c.ok = FALSE
      /\ c.what = recovery
  BY <1>0, Answers
<1>2. Finish(c)
  BY <1>0 DEF LoadFails
<1>3. worker' = "idle" /\ operation' = operation
  BY <1>2 DEF Finish
<1>4. CallbackOK(c)'
  BY <1>1, <1>3 DEF CallbackOK, Working
<1> QED
  BY <1>1, <1>2, <1>4, FinishStep

\* Every step of a worker.
LEMMA WorkStep ==
  ASSUME OpInv, IInv', Work \/ Pick
  PROVE  OpInv'
<1> USE DEF Recoveries
<1>1. /\ OpTyped /\ WorkOK /\ SubjectOK
      /\ server \in {"local", "remote"} /\ credentials \in {"default", "paired"}
      /\ pending_pairing \in BOOLEAN /\ spent \in BOOLEAN
  BY DEF OpInv, Core, OpTyped, DataTyped
<1>2. UNCHANGED <<page, main, load_vars, char_vars, turn_vars>>
  BY DEF Work, Pick
<1>3. CASE CheckLocal
  <2>1. operation = "starting" /\ worker # "idle" /\ server' = "local"
        /\ UNCHANGED <<pending_pairing, spent, prefs, selected, credentials>>
    BY <1>1, <1>3 DEF CheckLocal, WorkOK, store_vars
  <2>2. ASSUME UNCHANGED <<operation, operation_id>> PROVE Working
    BY <1>1, <1>2, <2>1, <2>2 DEF Working, NoOperation
  <2>3. ASSUME NEW to \in {"pair", "verify", "catalog"}, Proceed(to) PROVE OpInv'
    BY <2>1, <2>2, <2>3, ProceedStep DEF Proceed, Trusted
  <2>4. ASSUME NEW recovery \in Recoveries, LoadFails(recovery) PROVE OpInv'
    BY <2>1, <2>2, <2>4, LoadFailsStep DEF LoadFails, Finish
  <2> QED
    BY <1>3, <2>3, <2>4 DEF CheckLocal
<1>4. CASE Pair
  <2>1. operation = "starting" /\ worker # "idle"
        /\ UNCHANGED <<pending_pairing, server, prefs, selected, credentials>>
    BY <1>1, <1>4 DEF Pair, WorkOK, store_vars
  <2>2. spent' \in BOOLEAN
    BY <1>1, <1>4 DEF Pair
  <2>3. ASSUME UNCHANGED <<operation, operation_id>> PROVE Working
    BY <1>1, <1>2, <2>1, <2>2, <2>3 DEF Working, NoOperation
  <2>4. ASSUME Proceed("verify") PROVE OpInv'
    BY <2>1, <2>3, <2>4, ProceedStep DEF Proceed
  <2>5. ASSUME NEW recovery \in Recoveries, LoadFails(recovery) PROVE OpInv'
    BY <2>1, <2>3, <2>5, LoadFailsStep DEF LoadFails, Finish
  <2> QED
    BY <1>4, <2>4, <2>5 DEF Pair
<1>5. CASE Verify
  <2>1. operation = "starting" /\ worker # "idle" /\ UNCHANGED <<prefs, selected>>
        /\ server' = IF pending_pairing \/ credentials = "paired" THEN "remote" ELSE "local"
    BY <1>1, <1>5 DEF Verify, WorkOK
  <2>2. CASE /\ Proceed("catalog")
             /\ spent' = FALSE
             /\ credentials' = IF pending_pairing THEN "paired" ELSE credentials
             /\ pending_pairing' = FALSE
    <3>1. Working
      BY <1>1, <1>2, <2>1, <2>2 DEF Working, NoOperation, Proceed
    <3>2. Trusted'
      BY <2>1, <2>2 DEF Trusted
    <3> QED
      BY <2>1, <2>2, <3>1, <3>2, ProceedStep
  <2>3. CASE /\ \E recovery \in {"", "server_connection"} : LoadFails(recovery)
             /\ UNCHANGED <<spent, pending_pairing, credentials>>
    <3>1. Working
      BY <1>1, <1>2, <2>1, <2>3 DEF Working, NoOperation, LoadFails, Finish
    <3> QED
      BY <2>1, <2>3, <3>1, LoadFailsStep
  <2> QED
    BY <1>5, <2>2, <2>3 DEF Verify
<1>6. ASSUME UNCHANGED <<pair_vars, store_vars>>, UNCHANGED <<operation, operation_id>>,
             worker # "idle"
      PROVE  Working
  BY <1>1, <1>2, <1>6 DEF Working, WorkOK, pair_vars, store_vars
<1>7. CASE ReadCatalog
  <2>1. operation = "starting" /\ subject = selected /\ Trusted
    BY <1>1, <1>7 DEF ReadCatalog, WorkOK, SubjectOK
  <2>2. ASSUME LoadFails("") PROVE OpInv'
    BY <1>6, <1>7, <2>1, <2>2, LoadFailsStep DEF LoadFails, Finish, ReadCatalog
  <2>3. ASSUME NEW mods \in SUBSET Mods, NEW configured \in BOOLEAN,
               Finish([Answer("loading_ok") EXCEPT !.pack = subject, !.packs = Bundled \cup mods,
                                                   !.ok = configured])
        PROVE  OpInv'
    <3>0. PICK c : c = [Answer("loading_ok") EXCEPT !.pack = subject,
                                                    !.packs = Bundled \cup mods,
                                                    !.ok = configured]
      OBVIOUS
    <3>1. /\ c.id \in Nat /\ c.to = "loading_ok" /\ c.pack = selected
          /\ c.packs = Bundled \cup mods /\ c.ok = configured
      BY <2>1, <3>0, Answers DEF Answer, Callback
    <3>2. Finish(c)
      BY <2>3, <3>0
    <3>3. worker' = "idle" /\ operation' = operation /\ Working /\ Trusted' /\ selected' = selected
      BY <1>6, <1>7, <2>1, <3>2 DEF Finish, ReadCatalog, Trusted, pair_vars, store_vars
    <3>4. selected \in Packs \cup {NoPack}
      BY <1>1 DEF OpTyped, DataTyped
    <3>5. CallbackOK(c)'
      BY <2>1, <3>1, <3>3, <3>4 DEF CallbackOK, NoOperation
    <3>6. c.packs \in SUBSET Packs
      BY <3>1 DEF Packs
    <3> QED
      BY <3>1, <3>2, <3>3, <3>5, <3>6, FinishStep
  <2> QED
    BY <1>7, <2>2, <2>3 DEF ReadCatalog
<1>8. ASSUME NEW c, Finish(c), c.id \in Nat, c.packs \in SUBSET Packs, worker # "idle",
             UNCHANGED <<pair_vars, store_vars>>, c.pack \in Packs \cup {NoPack}, c.ok \in BOOLEAN,
             c.to \notin {"loading_ok", "loading_failed"},
             c.to = "recovered" => operation = "recovering",
             c.to = "character_ready" => operation = "applying" /\ c.pack = assistant,
             c.to = "config_saved" => operation = "saving_config" /\ c.pack = selected,
             c.to = "picked" => operation = "importing"
      PROVE  OpInv'
  <2>1. worker' = "idle" /\ operation' = operation /\ Working
    BY <1>6, <1>8 DEF Finish
  <2>2. operation' # NoOperation /\ assistant' = assistant /\ selected' = selected
    BY <1>2, <1>8, <2>1 DEF Working, char_vars, store_vars
  <2>3. CallbackOK(c)'
    BY <1>8, <2>1, <2>2 DEF CallbackOK
  <2> QED
    BY <1>8, <2>1, <2>3, FinishStep
<1>9. CASE Request
  <2>1. /\ worker # "idle" /\ operation \in DOMAIN Handler /\ UNCHANGED <<pair_vars, store_vars>>
        /\ subject \in Packs \cup {NoPack}
    BY <1>1, <1>9 DEF Request, OpTyped, StateTyped
  <2>2. operation \in {"recovering", "applying", "resetting", "loading_config", "saving_config"}
    BY <2>1 DEF Handler
  <2> DEFINE to == Handler[operation][1]
             no == Handler[operation][2]
  <2>3. /\ to \in {"recovered", "character_ready", "reset_ok", "config_loaded", "config_saved"}
        /\ to = "recovered" => operation = "recovering"
        /\ to = "character_ready" => operation = "applying"
        /\ to = "config_saved" => operation = "saving_config"
        /\ no \in {"recovery_failed", "failed"}
    BY <2>2 DEF Handler
  <2> HIDE DEF to, no
  <2>4. ASSUME NEW configured \in BOOLEAN,
               Finish([Answer(to) EXCEPT !.pack = subject, !.ok = configured])
        PROVE  OpInv'
    <3> DEFINE c == [Answer(to) EXCEPT !.pack = subject, !.ok = configured]
    <3>1. c.id \in Nat /\ c.to = to /\ c.pack = subject /\ c.packs = {} /\ c.ok = configured
      BY Answers DEF Answer, Callback
    <3>2. Finish(c)
      BY <2>4
    <3> HIDE DEF c
    <3>3. /\ operation = "applying" => subject = assistant
          /\ operation = "saving_config" => subject = selected
      BY <1>1, <2>1 DEF SubjectOK
    <3> QED
      BY <1>8, <2>1, <2>3, <3>1, <3>2, <3>3
  <2>5. ASSUME Finish(Answer(no)) PROVE OpInv'
    <3>1. Answer(no).id \in Nat /\ Answer(no).to = no /\ Answer(no).pack = NoPack
          /\ Answer(no).packs = {} /\ Answer(no).ok = FALSE
      BY Answers
    <3> QED
      BY <1>8, <2>1, <2>3, <2>5, <3>1
  <2> QED
    BY <1>9, <2>4, <2>5 DEF Request, to, no
<1>10. CASE Install
  <2>1. worker # "idle" /\ UNCHANGED <<pair_vars, store_vars>>
    BY <1>10 DEF Install
  <2>2. ASSUME NEW mods \in SUBSET Mods,
               Finish([Answer("import_finished") EXCEPT !.packs = Bundled \cup mods])
        PROVE  OpInv'
    <3> DEFINE c == [Answer("import_finished") EXCEPT !.packs = Bundled \cup mods]
    <3>1. /\ c.id \in Nat /\ c.to = "import_finished" /\ c.pack = NoPack /\ c.ok = FALSE
          /\ c.packs \in SUBSET Packs
      BY Answers DEF Answer, Callback, Packs
    <3>2. Finish(c)
      BY <2>2
    <3> HIDE DEF c
    <3> QED
      BY <1>8, <2>1, <3>1, <3>2
  <2>3. ASSUME Finish(Answer("failed")) PROVE OpInv'
    <3>1. Answer("failed").id \in Nat /\ Answer("failed").to = "failed"
          /\ Answer("failed").pack = NoPack /\ Answer("failed").packs = {}
          /\ Answer("failed").ok = FALSE
      BY Answers
    <3> QED
      BY <1>8, <2>1, <2>3, <3>1
  <2> QED
    BY <1>10, <2>2, <2>3 DEF Install
<1>11. CASE Pick
  <2>1. worker # "idle" /\ UNCHANGED <<pair_vars, store_vars>> /\ operation = "importing"
    BY <1>1, <1>11 DEF Pick, WorkOK
  <2>2. PICK staged \in BOOLEAN : Finish([Answer("picked") EXCEPT !.ok = staged])
    BY <1>11 DEF Pick
  <2> DEFINE c == [Answer("picked") EXCEPT !.ok = staged]
  <2>3. c.id \in Nat /\ c.to = "picked" /\ c.pack = NoPack /\ c.ok = staged /\ c.packs = {}
    BY Answers DEF Answer, Callback
  <2>4. Finish(c)
    BY <2>2
  <2> HIDE DEF c
  <2> QED
    BY <1>8, <2>1, <2>3, <2>4
<1> QED
  BY <1>3, <1>4, <1>5, <1>7, <1>9, <1>10, <1>11 DEF Work

\* No operation is left: the page and what is loaded say the rest.
LEMMA EndedCore ==
  ASSUME worker' = "idle", operation' = NoOperation, main' = "free",
         StateTyped', DataTyped', LoadedOK', MainReady'
  PROVE  Core'
  BY DEF Core, OpTyped, WorkOK, SubjectOK, NoOperation

\* Where readiness leads once everything is loaded: to Main, if the character
\* that is selected is applied; to apply it; or to what is missing.
LEMMA RouteCore ==
  ASSUME Core, NEW calls, NoCalls(calls), Route(calls), worker = "idle", page # "main",
         DataTyped', starting' \in BOOLEAN, ready' = TRUE, error' \in BOOLEAN,
         loading_recovery' \in Recoveries, assistant' = selected', Trusted',
         UNCHANGED turn_vars, main' = "free"
  PROVE  Core'
<1> DEFINE set_up == provider_configured' /\ assistant' \in characters'
<1>1. ~busy' /\ active_turn_id' = NoTurn
  BY NotBusy DEF turn_vars
<1>2. LoadedOK'
  BY DEF LoadedOK
<1>3. CASE set_up /\ Applied
  <2>1. page' = "main" /\ EndOperation
    BY <1>3 DEF Route
  <2>2. operation' = NoOperation /\ worker' = "idle"
    BY <2>1 DEF EndOperation
  <2>3. StateTyped'
    BY <2>1 DEF Core, OpTyped, StateTyped, EndOperation, Pages
  <2>4. MainReady'
    BY <1>1, <1>3, <2>2 DEF MainReady, Applied, Trusted
  <2> QED
    BY <1>2, <2>2, <2>3, <2>4, EndedCore
<1>4. CASE set_up /\ ~Applied
  <2>1. page' = page /\ Begin("applying", "request", assistant', calls)
    BY <1>4 DEF Route
  <2>2. operation_id' \in 0..Ids
    BY <2>1, FreshId DEF Begin
  <2>3. operation' = "applying" /\ worker' = "request" /\ subject' = assistant'
    BY <2>1 DEF Begin
  <2>4. StateTyped'
    BY <2>1, <2>2, <2>3 DEF Core, OpTyped, StateTyped, DataTyped, Operations
  <2>5. WorkOK' /\ SubjectOK'
    BY <1>4, <2>3 DEF WorkOK, SubjectOK, Handler, NoOperation
  <2>6. MainReady'
    BY <1>1, <2>1 DEF MainReady
  <2> QED
    BY <1>2, <2>4, <2>5, <2>6 DEF Core, OpTyped
<1>5. CASE ~set_up
  <2>1. page' \in {"config", "character_select"} /\ EndOperation
    <3>1. EndOperation
      BY <1>5 DEF Route
    <3>2. CASE ~provider_configured'
      BY <1>5, <3>1, <3>2 DEF Route
    <3>3. CASE provider_configured'
      BY <1>5, <3>1, <3>3 DEF Route
    <3> QED
      BY <3>2, <3>3
  <2>2. operation' = NoOperation /\ worker' = "idle"
    BY <2>1 DEF EndOperation
  <2>3. StateTyped'
    BY <2>1 DEF Core, OpTyped, StateTyped, EndOperation, Pages
  <2>4. MainReady'
    BY <1>1, <2>1 DEF MainReady
  <2> QED
    BY <1>2, <2>2, <2>3, <2>4, EndedCore
<1> QED
  BY <1>3, <1>4, <1>5

\* An operation that is begun from a page where everything is loaded, and that
\* leaves it as it is.
LEMMA BeginCore ==
  ASSUME Core, NEW o \in {"loading_config", "saving_config", "resetting", "importing"},
         NEW step \in {"request", "picker"}, NEW pack \in Packs \cup {NoPack},
         Begin(o, step, pack, queue), NoCalls(queue),
         step = "picker" <=> o = "importing", o = "saving_config" => pack = selected,
         page # "loading", page' \in {page, "config"}, page' # "main", main' = "free",
         ~busy, UNCHANGED <<load_vars, pair_vars, char_vars, turn_vars, store_vars>>
  PROVE  Core'
<1>1. operation' = o /\ worker' = step /\ subject' = pack /\ operation_id' \in 0..Ids
  BY FreshId DEF Begin
<1>2. DataTyped'
  BY DEF Core, OpTyped, DataTyped, pair_vars, char_vars, turn_vars, store_vars
<1>3. StateTyped'
  BY <1>1 DEF Core, OpTyped, StateTyped, load_vars, Operations, Pages
<1>4. ready /\ ready' = ready
  BY DEF Core, LoadedOK, load_vars
<1>5. WorkOK'
  BY <1>1, <1>4 DEF WorkOK, Handler, NoOperation
<1>6. SubjectOK'
  BY <1>1 DEF SubjectOK, store_vars
<1>7. LoadedOK'
  BY <1>4 DEF Core, LoadedOK, Trusted, pair_vars, char_vars, store_vars
<1>8. MainReady'
  BY DEF Core, MainReady, turn_vars
<1> QED
  BY <1>2, <1>3, <1>5, <1>6, <1>7, <1>8 DEF Core, OpTyped

\* The callbacks of operations.
LEMMA OnOperationStep ==
  ASSUME OpInv, IInv', RunCallback, Head(queue).to \notin TurnHandlers
  PROVE  OpInv'
<1>0. PICK c : c = Head(queue)
  OBVIOUS
<1>1. IsSeq(queue) /\ queue # <<>> /\ CallsOK /\ Core
  BY DEF OpInv, IInv, QueueOK, RunCallback
<1>2. /\ CallbackOK(c) /\ c.packs \in SUBSET Packs
      /\ NoCalls(Tail(queue)) /\ IsSeq(Tail(queue)) /\ QueueTyped(Tail(queue))
  BY <1>0, <1>1, LastCall, ElementsOfTail DEF OpInv, QueueTyped
<1>3. /\ queue' = Tail(queue) /\ main = "free" /\ main' = "free"
      /\ UNCHANGED <<pair_vars, store_vars, turn_vars>> /\ OnOperation(c)
  BY <1>0 DEF RunCallback, OnOperation, turn_vars
<1>4. /\ ~busy /\ page # "main" /\ worker = "idle" /\ active_turn_id = NoTurn
      /\ c.pack \in Packs \cup {NoPack} /\ c.ok \in BOOLEAN
  BY <1>1, <1>2, NotBusy DEF CallbackOK
<1>5. ~busy' /\ active_turn_id' = NoTurn
  BY <1>3, <1>4 DEF turn_vars
<1>6. StateTyped /\ DataTyped /\ WorkOK /\ SubjectOK /\ LoadedOK
  BY <1>1 DEF Core, OpTyped
<1>7. ASSUME UNCHANGED char_vars PROVE DataTyped'
  BY <1>3, <1>6, <1>7 DEF DataTyped, char_vars, pair_vars, store_vars, turn_vars
<1>8. ASSUME EndOperation PROVE operation' = NoOperation /\ worker' = "idle" /\ operation_id' \in 0..Ids
                                /\ subject' \in Packs \cup {NoPack}
  BY <1>4, <1>6, <1>8 DEF EndOperation, StateTyped
<1>9. ASSUME page' # "main" PROVE MainReady'
  BY <1>5, <1>9 DEF MainReady
<1>10. Core'
  <2>1. CASE Ignored
    <3>1. OpTyped'
      BY <1>3, <1>6, <2>1 DEF OpTyped, StateTyped, DataTyped, Ignored, op_vars, load_vars,
                              char_vars, pair_vars, store_vars, turn_vars
    <3>2. WorkOK' /\ SubjectOK' /\ LoadedOK'
      BY <1>3, <1>6, <2>1 DEF WorkOK, SubjectOK, LoadedOK, Trusted, Ignored, op_vars, load_vars,
                              char_vars, pair_vars, store_vars
    <3> QED
      BY <1>4, <1>9, <2>1, <3>1, <3>2 DEF Core, Ignored
  <2>2. CASE c.to = "loading_ok" /\ LoadingOk(c)
    <3>1. operation = "starting" /\ c.pack = selected /\ Trusted
      BY <1>2, <2>2 DEF CallbackOK
    <3>2. DataTyped'
      BY <1>2, <1>3, <1>4, <1>6, <2>2 DEF DataTyped, LoadingOk, pair_vars, store_vars, turn_vars
    <3>3. Trusted' /\ assistant' = selected' /\ Route(Tail(queue))
      BY <1>3, <2>2, <3>1 DEF LoadingOk, Trusted, pair_vars, store_vars
    <3>4. starting' \in BOOLEAN /\ ready' = TRUE /\ error' \in BOOLEAN /\ loading_recovery' \in Recoveries
      BY <2>2 DEF LoadingOk, Recoveries
    <3> QED
      BY <1>1, <1>2, <1>3, <1>4, <3>2, <3>3, <3>4, RouteCore
  <2>3. CASE c.to = "loading_failed" /\ LoadingFailed(c)
    <3>1. operation = "starting" /\ c.what \in Recoveries /\ page = "loading"
      BY <1>2, <1>6, <2>3 DEF CallbackOK, WorkOK
    <3>2. DataTyped'
      BY <1>7, <2>3 DEF LoadingFailed
    <3>3. StateTyped'
      BY <1>6, <1>8, <2>3, <3>1 DEF StateTyped, LoadingFailed
    <3>4. LoadedOK' /\ MainReady'
      BY <1>4, <1>9, <2>3, <3>1 DEF LoadedOK, LoadingFailed
    <3> QED
      BY <1>3, <1>8, <2>3, <3>2, <3>3, <3>4, EndedCore DEF LoadingFailed
  <2>4. CASE c.to = "recovered" /\ Recovered(c)
    BY <1>1, <1>2, <1>3, <1>4, <2>4, StartLoadingCore DEF Recovered
  <2>5. CASE RecoveryFailed(c) \/ Failed(c)
    <3>1. EndOperation /\ page' = page /\ UNCHANGED char_vars /\ ready' = ready
      BY <2>5 DEF RecoveryFailed, Failed, load_vars
    <3>2. StateTyped'
      BY <1>6, <1>8, <2>5, <3>1 DEF StateTyped, RecoveryFailed, Failed, load_vars
    <3>3. LoadedOK'
      BY <1>3, <1>6, <3>1 DEF LoadedOK, Trusted, char_vars, pair_vars, store_vars
    <3> QED
      BY <1>3, <1>4, <1>7, <1>8, <1>9, <3>1, <3>2, <3>3, EndedCore
  <2>6. CASE c.to = "character_ready" /\ CharacterReady(c)
    <3>1. operation = "applying" /\ c.pack = assistant
      BY <1>2, <2>6 DEF CallbackOK
    <3>2. ready /\ provider_configured /\ assistant \in characters
      BY <1>6, <3>1 DEF WorkOK
    <3>3. EndOperation /\ page' = "main" /\ character' = assistant
          /\ UNCHANGED <<load_vars, characters, assistant, provider_configured>>
      BY <2>6, <3>1 DEF CharacterReady
    <3>4. StateTyped'
      BY <1>6, <1>8, <3>3 DEF StateTyped, load_vars, Pages
    <3>5. DataTyped'
      BY <1>3, <1>6, <3>3 DEF DataTyped, pair_vars, store_vars, turn_vars
    <3>6. LoadedOK'
      BY <1>3, <1>6, <3>2, <3>3 DEF LoadedOK, Trusted, load_vars, pair_vars, store_vars
    <3>7. MainReady'
      BY <1>3, <1>5, <1>6, <1>8, <3>2, <3>3 DEF MainReady, LoadedOK, Trusted, load_vars, pair_vars,
                                                store_vars
    <3> QED
      BY <1>3, <1>8, <3>3, <3>4, <3>5, <3>6, <3>7, EndedCore
  <2>7. CASE ResetOk(c) \/ ConfigLoaded(c) \/ ImportFinished(c)
    <3>1. EndOperation /\ page' = page /\ UNCHANGED <<load_vars, assistant>>
      BY <2>7 DEF ResetOk, ConfigLoaded, ImportFinished
    <3>2. StateTyped'
      BY <1>6, <1>8, <3>1 DEF StateTyped, load_vars
    <3>3. DataTyped'
      BY <1>2, <1>3, <1>4, <1>6, <2>7 DEF DataTyped, ResetOk, ConfigLoaded, ImportFinished,
                                          pair_vars, store_vars, turn_vars
    <3>4. LoadedOK'
      BY <1>3, <1>6, <3>1 DEF LoadedOK, Trusted, load_vars, pair_vars, store_vars
    <3> QED
      BY <1>3, <1>4, <1>8, <1>9, <3>1, <3>2, <3>3, <3>4, EndedCore
  <2>8. CASE c.to = "config_saved" /\ ConfigSaved(c)
    <3>1. operation = "saving_config" /\ c.pack = selected /\ ready /\ Trusted
      BY <1>2, <1>6, <2>8 DEF CallbackOK, WorkOK, LoadedOK
    <3>2. DataTyped'
      BY <1>2, <1>3, <1>4, <1>6, <2>8 DEF DataTyped, ConfigSaved, pair_vars, store_vars, turn_vars
    <3>3. Trusted' /\ assistant' = selected' /\ Route(Tail(queue))
      BY <1>3, <2>8, <3>1 DEF ConfigSaved, Trusted, pair_vars, store_vars
    <3>4. starting' \in BOOLEAN /\ ready' = TRUE /\ error' \in BOOLEAN /\ loading_recovery' \in Recoveries
      BY <1>6, <2>8, <3>1 DEF ConfigSaved, StateTyped, load_vars
    <3> QED
      BY <1>1, <1>2, <1>3, <1>4, <3>2, <3>3, <3>4, RouteCore
  <2>9. CASE c.to = "picked" /\ Picked(c)
    <3>1. UNCHANGED <<page, load_vars, char_vars>> /\ operation = "importing"
      BY <1>2, <2>9 DEF Picked, CallbackOK
    <3>2. LoadedOK' /\ MainReady' /\ DataTyped'
      BY <1>3, <1>4, <1>6, <1>7, <1>9, <3>1 DEF LoadedOK, Trusted, load_vars, char_vars, pair_vars,
                                                store_vars
    <3>3. CASE c.ok
      <4>1. worker' = "install" /\ UNCHANGED <<operation, operation_id, subject>>
        BY <2>9, <3>3 DEF Picked
      <4>2. StateTyped'
        BY <1>6, <3>1, <4>1 DEF StateTyped, load_vars
      <4>3. WorkOK' /\ SubjectOK'
        BY <1>3, <3>1, <4>1 DEF WorkOK, SubjectOK, NoOperation
      <4> QED
        BY <3>2, <4>2, <4>3 DEF Core, OpTyped
    <3>4. CASE ~c.ok
      <4>1. EndOperation
        BY <2>9, <3>4 DEF Picked
      <4>2. StateTyped'
        BY <1>6, <1>8, <3>1, <4>1 DEF StateTyped, load_vars
      <4> QED
        BY <1>3, <1>8, <3>2, <4>1, <4>2, EndedCore
    <3> QED
      BY <3>3, <3>4
  <2> QED
    BY <1>3, <2>1, <2>2, <2>3, <2>4, <2>5, <2>6, <2>7, <2>8, <2>9 DEF OnOperation
<1> QED
  BY <1>2, <1>3, <1>10, Settled

\* The callbacks of turns.
LEMMA OnTurnStep ==
  ASSUME OpInv, IInv', RunCallback, Head(queue).to \in TurnHandlers
  PROVE  OpInv'
<1>1. IsSeq(queue) /\ queue # <<>> /\ OneCall(queue) /\ queue' = Tail(queue) /\ OnTurn(Head(queue))
  BY DEF OpInv, IInv, QueueOK, CallsOK, RunCallback
<1>2. OneCall(queue') /\ Elements(queue') \subseteq Elements(queue)
  BY <1>1, TurnCallTaken, ElementsOfTail
<1>3. /\ UNCHANGED <<page, op_vars, load_vars, pair_vars, char_vars, store_vars, main>>
      /\ UNCHANGED <<busy, active_turn_id>> \/ (busy' = FALSE /\ active_turn_id' = NoTurn)
  BY <1>1 DEF RunCallback, OnTurn, OnEvent, EndTurn
<1>4. /\ busy => page = "main"
      /\ busy <=> active_turn_id # NoTurn
  BY DEF OpInv, Core, OpTyped, DataTyped, MainReady
<1>5. (busy' => page = "main") /\ (busy' <=> active_turn_id' # NoTurn)
  BY <1>3, <1>4
<1> QED
  BY <1>2, <1>3, <1>4, <1>5, TurnStep

\* send, cancel, and what the reader of a turn queues.
LEMMA TurnThreadStep ==
  ASSUME OpInv, IInv', Cancel \/ CloseResponse \/ (\E t \in Turns : Read(t))
  PROVE  OpInv'
<1>1. /\ UNCHANGED <<page, op_vars, load_vars, pair_vars, char_vars, store_vars, turn_vars>>
      /\ main' = "launch" => main = "launch"
  BY DEF Cancel, CloseResponse, Read
<1>2. /\ busy => page = "main"
      /\ busy <=> active_turn_id # NoTurn
  BY DEF OpInv, Core, OpTyped, DataTyped, MainReady
<1>3. IsSeq(queue) /\ OneCall(queue) /\ queue = queue
  BY DEF OpInv, IInv, QueueOK, CallsOK
<1>4. ASSUME OneCall(queue'),
             \A c \in Elements(queue') :
               c \in Elements(queue) \/ (c.to \in TurnHandlers /\ c.id \in Nat /\ c.packs \in SUBSET Packs)
      PROVE  OpInv'
  BY <1>1, <1>2, <1>4, TurnStep DEF turn_vars
<1>5. CASE Cancel \/ CloseResponse
  <2>1. queue' = queue
    BY <1>5 DEF Cancel, CloseResponse
  <2> QED
    BY <1>3, <1>4, <2>1 DEF OneCall, Elements
<1>6. ASSUME NEW t \in Turns, Read(t) PROVE OpInv'
  <2>1. t \in Nat
    BY AppAssumption DEF Turns
  <2>2. ASSUME UNCHANGED queue PROVE OpInv'
    BY <1>3, <1>4, <2>2 DEF OneCall, Elements
  <2>3. ASSUME NEW c, queue' = Append(queue, c), c.to \in TurnHandlers, c.id = t, c.packs = {}
        PROVE  OpInv'
    <3>1. OneCall(queue') /\ Elements(queue') = Elements(queue) \cup {c}
      BY <1>3, <2>3, TurnCallAdded, ElementsOfAppend
    <3> QED
      BY <1>4, <2>1, <2>3, <3>1
  <2>4. \A h \in TurnHandlers : Callback(h, t).to = h /\ Callback(h, t).id = t /\ Callback(h, t).packs = {}
    BY DEF Callback
  <2>5. \A e : /\ OnEventOf(t, e).to = "on_event" /\ OnEventOf(t, e).id = t
               /\ OnEventOf(t, e).packs = {}
    BY Zenon DEF OnEventOf, Callback
  <2>6. ASSUME NEW c, EndReader(t, <<c>>) PROVE queue' = Append(queue, c)
    <3>1. PICK S : queue \in Seq(S)
      BY <1>3 DEF IsSeq
    <3>2. queue \in Seq(S \cup {c})
      BY <3>1, SeqMonotonic
    <3> QED
      BY <2>6, <3>2 DEF EndReader
  <2>7. ASSUME FailReader(t) PROVE OpInv'
    <3>1. CASE t \in cancelled
      <4>1. queue' = Append(queue, Callback("on_complete", t))
        BY <2>6, <2>7, <3>1 DEF FailReader
      <4> QED
        BY <2>3, <2>4, <4>1 DEF TurnHandlers
    <3>2. CASE t \notin cancelled
      <4>1. queue' = Append(queue, Callback("on_error", t))
        BY <2>6, <2>7, <3>2 DEF FailReader
      <4> QED
        BY <2>3, <2>4, <4>1 DEF TurnHandlers
    <3> QED
      BY <3>1, <3>2
  <2>8. CASE Connect(t) \/ Attach(t) \/ BeginRead(t) \/ EndRead(t)
    BY <2>2, <2>7, <2>8 DEF Connect, Attach, BeginRead, EndRead, Goto
  <2>9. CASE Deliver(t)
    <3>1. CASE EndReader(t, <<OnEventOf(t, "done"), Callback("on_complete", t)>>)
      <4>1. PICK c, d : c = OnEventOf(t, "done") /\ d = Callback("on_complete", t)
        OBVIOUS
      <4>2. /\ c.to \in TurnHandlers /\ c.id = t /\ c.packs = {}
            /\ d.to \in TurnHandlers /\ d.id = t /\ d.packs = {}
        BY <2>4, <2>5, <4>1 DEF TurnHandlers
      <4>3. queue' = Append(Append(queue, c), d)
        <5>1. PICK S : queue \in Seq(S)
          BY <1>3 DEF IsSeq
        <5>2. queue \in Seq(S \cup {c, d})
          BY <5>1, SeqMonotonic
        <5> QED
          BY <3>1, <4>1, <5>2 DEF EndReader
      <4>4. /\ IsSeq(Append(queue, c)) /\ OneCall(Append(queue, c))
            /\ Elements(Append(queue, c)) = Elements(queue) \cup {c}
        BY <1>3, <4>2, TurnCallAdded, ElementsOfAppend
      <4>5. OneCall(queue') /\ Elements(queue') = Elements(queue) \cup {c, d}
        BY <4>2, <4>3, <4>4, TurnCallAdded, ElementsOfAppend
      <4> QED
        BY <1>4, <2>1, <4>2, <4>5
    <3>2. CASE EndReader(t, <<OnEventOf(t, "error")>>)
      <4>1. queue' = Append(queue, OnEventOf(t, "error"))
        BY <2>6, <3>2
      <4> QED
        BY <2>3, <2>5, <4>1 DEF TurnHandlers
    <3>3. CASE queue' = Append(queue, OnEventOf(t, "progress"))
      BY <2>3, <2>5, <3>3 DEF TurnHandlers
    <3> QED
      BY <2>9, <3>1, <3>2, <3>3 DEF Deliver
  <2> QED
    BY <1>6, <2>8, <2>9 DEF Read
<1> QED
  BY <1>5, <1>6

\* Sending a turn leaves the operations alone, and Main where it was.
LEMMA SendStep ==
  ASSUME OpInv, IInv', Send
  PROVE  OpInv'
<1>1. /\ page = "main" /\ main = "free" /\ ready /\ ~busy /\ queue' = queue /\ main' = main
      /\ UNCHANGED <<load_vars, pair_vars, char_vars, store_vars>>
      /\ Core /\ OneCall(queue) /\ QueueTyped(queue)
  BY DEF Send, Click, OpInv, CallsOK
<1>2. provider_configured
  BY <1>1 DEF Core, MainReady
<1>3. StreamTurn(NextTurn) /\ NextTurn # NoTurn
  BY <1>2, AppAssumption DEF Send, NextTurn, Turns, NoTurn
<1>4. /\ busy' => page = "main"
      /\ busy' <=> active_turn_id' # NoTurn
      /\ UNCHANGED <<page, op_vars>>
  BY <1>1, <1>3 DEF StreamTurn
<1> QED
  BY <1>1, <1>4, TurnStep DEF OneCall, Elements

-----------------------------------------------------------------------------
\* The buttons: no page is left for Main but by Route, and what Main relies on
\* is changed on other pages only.
LEMMA ButtonStep ==
  ASSUME OpInv, IInv', Button
  PROVE  OpInv'
<1>1. /\ UNCHANGED <<main, queue, load_vars, pair_vars, turn_vars, thread_vars>>
      /\ Core /\ QueueTyped(queue')
  BY DEF Button, OpInv
<1>2. ~busy /\ operation = NoOperation /\ main = "free" /\ page # "loading"
  BY DEF Button, GoCharacterSelect, GoModManager, GoConfig, SelectCharacter, LeaveConfig,
         SaveConfig, ResetDefaultWorkspace, ImportMod, RemoveMod, Click, Idle
<1>3. /\ worker = "idle" /\ ready /\ assistant = selected /\ Trusted /\ active_turn_id = NoTurn
      /\ StateTyped /\ DataTyped
  BY <1>1, <1>2 DEF Core, OpTyped, WorkOK, LoadedOK, MainReady
<1>4. NoCalls(queue)
  BY <1>2, NoneQueued DEF OpInv
<1>5. ready' = ready /\ server' = server /\ ~busy' /\ active_turn_id' = NoTurn /\ main' = "free"
  BY <1>1, <1>2, <1>3 DEF load_vars, pair_vars, turn_vars
<1>6. Core'
  <2>1. CASE GoCharacterSelect \/ GoModManager
    <3>1. /\ page' \in {"character_select", "mod_manager"}
          /\ UNCHANGED <<op_vars, char_vars, store_vars>>
      BY <2>1 DEF GoCharacterSelect, GoModManager
    <3>2. StateTyped'
      BY <1>1, <1>3, <3>1 DEF StateTyped, op_vars, load_vars, Pages
    <3>3. DataTyped'
      BY <1>1, <1>3, <3>1 DEF DataTyped, pair_vars, char_vars, turn_vars, store_vars
    <3>4. LoadedOK' /\ MainReady'
      BY <1>3, <1>5, <3>1 DEF LoadedOK, MainReady, Trusted, char_vars, store_vars
    <3> QED
      BY <1>2, <1>3, <1>5, <3>1, <3>2, <3>3, <3>4, EndedCore DEF op_vars
  <2>2. CASE GoConfig
    BY <1>1, <1>2, <1>4, <1>5, <2>2, BeginCore DEF GoConfig
  <2>3. CASE SaveConfig
    <3>1. selected \in Packs \cup {NoPack} /\ page = "config"
      BY <1>3, <2>3 DEF DataTyped, SaveConfig, Click
    <3> QED
      BY <1>1, <1>2, <1>4, <1>5, <2>3, <3>1, BeginCore DEF SaveConfig
  <2>4. CASE ResetDefaultWorkspace
    <3>1. character \in Packs \cup {NoPack} /\ page = "config"
      BY <1>3, <2>4 DEF DataTyped, ResetDefaultWorkspace, Click
    <3> QED
      BY <1>1, <1>2, <1>4, <1>5, <2>4, <3>1, BeginCore DEF ResetDefaultWorkspace
  <2>5. CASE ImportMod
    <3>1. page = "mod_manager"
      BY <2>5 DEF ImportMod, Click
    <3> QED
      BY <1>1, <1>2, <1>4, <1>5, <2>5, <3>1, BeginCore DEF ImportMod
  <2>6. CASE LeaveConfig
    <3>1. page = "config" /\ UNCHANGED <<char_vars, store_vars>> /\ Route(queue)
      BY <2>6 DEF LeaveConfig, Click
    <3>2. DataTyped'
      BY <1>1, <1>3, <3>1 DEF DataTyped, pair_vars, char_vars, turn_vars, store_vars
    <3>3. /\ starting' \in BOOLEAN /\ ready' = TRUE /\ error' \in BOOLEAN
          /\ loading_recovery' \in Recoveries /\ UNCHANGED turn_vars
      BY <1>1, <1>3 DEF StateTyped, load_vars
    <3>4. assistant' = selected' /\ Trusted'
      BY <1>3, <1>5, <3>1 DEF Trusted, char_vars, store_vars
    <3> QED
      BY <1>1, <1>3, <1>4, <1>5, <3>1, <3>2, <3>3, <3>4, RouteCore
  <2>7. CASE SelectCharacter
    <3>1. PICK p \in characters :
            /\ selected' = p /\ assistant' = p
            /\ IF provider_configured THEN UNCHANGED page /\ Begin("applying", "request", p, queue)
               ELSE page' = "config" /\ UNCHANGED op_vars
      BY <2>7 DEF SelectCharacter
    <3>2. /\ page = "character_select"
          /\ UNCHANGED <<characters, character, provider_configured, prefs, credentials>>
      BY <2>7 DEF SelectCharacter, Click
    <3>3. p \in Packs
      BY <1>3 DEF DataTyped
    <3>4. DataTyped'
      BY <1>1, <1>3, <3>1, <3>2, <3>3 DEF DataTyped, pair_vars, turn_vars
    <3>5. LoadedOK'
      BY <1>3, <1>5, <3>1, <3>2 DEF LoadedOK, Trusted
    <3>6. CASE provider_configured
      <4>1. page' = page /\ operation' = "applying" /\ worker' = "request" /\ subject' = p
            /\ operation_id' \in 0..Ids
        BY <1>4, <3>1, <3>6, FreshId DEF Begin
      <4>2. StateTyped'
        BY <1>1, <1>3, <3>3, <4>1 DEF StateTyped, load_vars, Operations
      <4>3. WorkOK' /\ SubjectOK'
        BY <1>3, <1>5, <3>1, <3>2, <3>6, <4>1 DEF WorkOK, SubjectOK, Handler, NoOperation
      <4>4. MainReady'
        BY <1>5, <3>2, <4>1 DEF MainReady
      <4> QED
        BY <3>4, <3>5, <4>2, <4>3, <4>4 DEF Core, OpTyped
    <3>7. CASE ~provider_configured
      <4>1. page' = "config" /\ UNCHANGED op_vars
        BY <3>1, <3>7
      <4>2. StateTyped'
        BY <1>1, <1>3, <4>1 DEF StateTyped, op_vars, load_vars, Pages
      <4>3. MainReady'
        BY <1>5, <4>1 DEF MainReady
      <4> QED
        BY <1>2, <1>3, <1>5, <3>4, <3>5, <4>1, <4>2, <4>3, EndedCore DEF op_vars
    <3> QED
      BY <3>6, <3>7
  <2>8. CASE RemoveMod
    <3>1. page = "mod_manager"
          /\ UNCHANGED <<page, op_vars, character, provider_configured, prefs, credentials>>
      BY <2>8 DEF RemoveMod, Click
    <3>2. /\ characters' \subseteq characters /\ selected' = assistant'
          /\ assistant' \in {assistant, NoPack}
      BY <1>3, <2>8 DEF RemoveMod
    <3>3. DataTyped'
      BY <1>1, <1>3, <3>1, <3>2 DEF DataTyped, pair_vars, turn_vars
    <3>4. StateTyped'
      BY <1>1, <1>3, <3>1 DEF StateTyped, op_vars, load_vars
    <3>5. LoadedOK' /\ MainReady'
      BY <1>3, <1>5, <3>1, <3>2 DEF LoadedOK, MainReady, Trusted
    <3> QED
      BY <1>2, <1>3, <1>5, <3>1, <3>3, <3>4, <3>5, EndedCore DEF op_vars
  <2> QED
    BY <2>1, <2>2, <2>3, <2>4, <2>5, <2>6, <2>7, <2>8 DEF Button
<1> QED
  BY <1>1, <1>4, <1>6, Settled

-----------------------------------------------------------------------------
\* A process that starts has nothing under way.
LEMMA EmptyQueue == NoCalls(<<>>) /\ QueueTyped(<<>>)
<1>1. <<>> \in Seq({}) /\ Elements(<<>>) = {}
  BY EmptySeq DEF Elements
<1> QED
  BY <1>1 DEF NoCalls, QueueTyped

\* A launched client has no operation, and Main is not shown.
LEMMA InitOpInv == Init => OpInv
<1> SUFFICES ASSUME Init PROVE OpInv
  OBVIOUS
<1>1. NoCalls(queue) /\ QueueTyped(queue)
  BY EmptyQueue DEF Init, Memory
<1>2. IInv
  BY InitIInv
<1>3. OpTyped
  <2>1. StateTyped
    <3>1. 0 \in 0..Ids
      BY AppAssumption
    <3> QED
      BY <3>1 DEF Init, Memory, StateTyped, Pages, Recoveries
  <2>2. DataTyped
    BY DEF Init, Memory, DataTyped
  <2> QED
    BY <2>1, <2>2 DEF OpTyped
<1>4. WorkOK /\ SubjectOK /\ LoadedOK /\ MainReady
  BY DEF Init, Memory, WorkOK, SubjectOK, LoadedOK, MainReady, NoOperation
<1> QED
  BY <1>1, <1>2, <1>3, <1>4, NoCallsOK DEF OpInv, Core

\* So has a relaunched one, whatever the last process left in the preferences.
LEMMA RestartStep ==
  ASSUME OpInv, IInv', Restart
  PROVE  OpInv'
<1>1. NoCalls(queue') /\ QueueTyped(queue')
  BY EmptyQueue DEF Restart
<1>2. OpTyped'
  <2>1. StateTyped'
    <3>1. 0 \in 0..Ids
      BY AppAssumption
    <3> QED
      BY <3>1 DEF Restart, StateTyped, Pages, Recoveries
  <2>2. DataTyped'
    BY DEF Restart, OpInv, Core, OpTyped, DataTyped, store_vars
  <2> QED
    BY <2>1, <2>2 DEF OpTyped
<1>3. WorkOK' /\ SubjectOK' /\ LoadedOK' /\ MainReady'
  BY DEF Restart, WorkOK, SubjectOK, LoadedOK, MainReady, NoOperation
<1> QED
  BY <1>1, <1>2, <1>3, Settled DEF Core

\* Every step keeps the invariant of the operations.
LEMMA NextOpInv == OpInv /\ IInv' /\ [Next]_vars => OpInv'
<1> SUFFICES ASSUME OpInv, IInv', [Next]_vars PROVE OpInv'
  OBVIOUS
<1>1. CASE RunCallback
  BY <1>1, OnOperationStep, OnTurnStep
<1>2. CASE UNCHANGED vars
  <2>1. /\ UNCHANGED <<page, op_vars, load_vars, pair_vars, char_vars, store_vars, turn_vars, main>>
        /\ queue' = queue
    BY <1>2 DEF vars
  <2>2. /\ busy => page = "main"
        /\ busy <=> active_turn_id # NoTurn
        /\ OneCall(queue)
    BY DEF OpInv, Core, OpTyped, DataTyped, MainReady, CallsOK
  <2> QED
    BY <2>1, <2>2, TurnStep DEF turn_vars, OneCall, Elements
<1> QED
  BY <1>1, <1>2, LaunchStep, WorkStep, SendStep, TurnThreadStep, ButtonStep, RestartStep DEF Next

\* The invariant of operations: one at a time, its worker or its one callback
\* knowing what was selected when it was begun.
THEOREM OperationInvariance == Spec => []OpInv
<1>1. OpInv => IInv
  BY DEF OpInv
<1> QED
  BY <1>1, InitOpInv, NextOpInv, NextIInv, PTL DEF Spec

\* Every variable keeps its type, whatever is queued.
THEOREM TypeCorrect == Spec => []TypeOK
<1>1. OpInv => TypeOK
  BY TypeFromParts DEF OpInv, Core
<1> QED
  BY <1>1, OperationInvariance, PTL

\* Main is shown only when a turn can be sent from it: all is loaded, no
\* operation is under way, the applied character is the selected one, saved and
\* in the catalog, and the server one the user trusted; and a turn is under way
\* on Main only (app.py:126, 285, 722-739, 801-816, 891).
THEOREM MainIsReady == Spec => []MainReady
<1>1. OpInv => MainReady
  BY DEF OpInv, Core
<1> QED
  BY <1>1, OperationInvariance, PTL
=============================================================================
