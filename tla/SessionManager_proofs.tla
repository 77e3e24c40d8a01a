----------------------- MODULE SessionManager_proofs -----------------------
(***************************************************************************)
(* Theorems about SessionManager for every set of requests, paths and      *)
(* writers.  The inductive invariant ties the three coroutines that serve  *)
(* a request to each other: which states of the SSE loop, of _stream_turn  *)
(* and of the kernel's generator occur together.                           *)
(***************************************************************************)
EXTENDS SessionManager, TLAPS

\* The states of a request's coroutines that occur together.
StageOK(r) ==
  /\ sse[r] \in {"idle", "rejected"} => gen[r] = "none"
  /\ sse[r] = "starting" => gen[r] = "unstarted"
  /\ sse[r] \in {"waiting", "closing"} => gen[r] \in {"running", "suspended"}
  /\ sse[r] = "sending" => gen[r] = "suspended"
  /\ sse[r] = "ended" =>
       \/ gen[r] \in {"finished", "dropped"}
       \/ gen[r] = "suspended" /\ envelope[r] = "error"
  /\ gen[r] \in {"none", "unstarted", "dropped"} => kern[r] = "none"
  /\ gen[r] = "running" => kern[r] = "awaiting"
  /\ gen[r] = "suspended" =>
       IF envelope[r] = "event"
         THEN kern[r] \in {"yielded", "closing", "closed"}
         ELSE kern[r] \in {"none", "closing", "closed"}
  /\ gen[r] = "finished" => kern[r] \in {"none", "closing", "closed"}
  /\ envelope[r] # "none" => gen[r] = "suspended"

\* A final frame is written only when the kernel is done with the request.
FrameOK(r) ==
  received[r] \in {"done", "error"} =>
    /\ sse[r] \in {"sending", "closing", "ended"}
    /\ ~Live(r)
    /\ envelope[r] # "event"

\* What entitles a response to say `done`.
MayBeDone(r) ==
  \/ ending[r] = "completed"
  \/ ending[r] = "interrupted" /\ shutdown # "up"

EndingOK(r) ==
  /\ envelope[r] = "done" \/ received[r] = "done" => MayBeDone(r)
  /\ kern[r] = "closing" => MayBeDone(r)
  /\ envelope[r] = "event" /\ kern[r] = "closed" => MayBeDone(r)

RequestOK(r) == StageOK(r) /\ FrameOK(r) /\ EndingOK(r)

\* Shutdown closes one kernel turn at a time and waits for it.
ClosingOK ==
  \A r \in Requests :
    kern[r] = "closing" =>
      /\ shutdown = "closing"
      /\ r \in to_close
      /\ \A s \in Requests : kern[s] = "closing" => s = r

Inv ==
  /\ TypeOK
  /\ SlotHeldUntilFinished
  /\ \A r \in Requests : RequestOK(r)
  /\ ClosingOK

-----------------------------------------------------------------------------
(* Type correctness needs nothing else.                                    *)

\* No step takes a variable out of its type.
LEMMA TypeStep == TypeOK /\ [Next]_vars => TypeOK'
<1> SUFFICES ASSUME TypeOK, [Next]_vars PROVE TypeOK'
  OBVIOUS
<1> USE DEF TypeOK, Frames, Set, turn_vars, client_vars, shutdown_vars, writer_vars
<1>1. ASSUME NEW r \in Requests, StartTurn(r) PROVE TypeOK'
  BY <1>1 DEF StartTurn, Busy
<1>2. ASSUME NEW r \in Requests, BeginBody(r) PROVE TypeOK'
  BY <1>2 DEF BeginBody
<1>3. ASSUME NEW r \in Requests, AbortStart(r) PROVE TypeOK'
  BY <1>3 DEF AbortStart
<1>4. ASSUME NEW r \in Requests, KernelYields(r) PROVE TypeOK'
  BY <1>4 DEF KernelYields, KernelDriven, SuspendAt
<1>5. ASSUME NEW r \in Requests, KernelReturns(r) PROVE TypeOK'
  BY <1>5 DEF KernelReturns, KernelDriven, SuspendAt
<1>6. ASSUME NEW r \in Requests, KernelRaises(r) PROVE TypeOK'
  BY <1>6 DEF KernelRaises, KernelDriven, SuspendAt
<1>7. ASSUME NEW r \in Requests, WriteFrame(r) PROVE TypeOK'
  BY <1>7 DEF WriteFrame
<1>8. ASSUME NEW r \in Requests, ResumeGen(r) PROVE TypeOK'
  BY <1>8 DEF ResumeGen, FinishGen, SuspendAt
<1>9. ASSUME NEW r \in Requests, Disconnect(r) PROVE TypeOK'
  BY <1>9 DEF Disconnect
<1>10. ASSUME NEW r \in Requests, NoticeDisconnect(r) PROVE TypeOK'
  BY <1>10 DEF NoticeDisconnect
<1>11. ASSUME NEW r \in Requests, CloseGen(r) PROVE TypeOK'
  BY <1>11 DEF CloseGen, Interrupted, FinishGen
<1>12. ASSUME NEW r \in Requests, CancelReplaced(r) PROVE TypeOK'
  BY <1>12 DEF CancelReplaced, Interrupted, SuspendAt
<1>13. ASSUME NEW r \in Requests, ShutdownTurn(r) PROVE TypeOK'
  BY <1>13 DEF ShutdownTurn
<1>14. ASSUME NEW r \in Requests, ShutdownTurnClosed(r) PROVE TypeOK'
  BY <1>14 DEF ShutdownTurnClosed
<1>15. ASSUME NEW r \in Requests, CloseGenRaises(r) PROVE TypeOK'
  BY <1>15 DEF CloseGenRaises, Interrupted, SuspendAt
<1>16. ASSUME NEW r \in Requests, FinalizeGen(r) PROVE TypeOK'
  BY <1>16 DEF FinalizeGen, FinishGen
<1>17. CASE RequestShutdown
  BY <1>17 DEF RequestShutdown
<1>18. CASE ShutdownExits
  BY <1>18 DEF ShutdownExits
<1>19. CASE ListenersClose
  BY <1>19 DEF ListenersClose
<1>20. ASSUME NEW w \in Writers, CheckIdle(w) PROVE TypeOK'
  BY <1>20 DEF CheckIdle, Busy
<1>21. ASSUME NEW w \in Writers, ApplyWrite(w) PROVE TypeOK'
  BY <1>21 DEF ApplyWrite
<1>22. CASE Quiet
  BY <1>22 DEF Quiet, vars
<1>23. CASE UNCHANGED vars
  BY <1>23 DEF vars
<1>24. QED
  BY <1>1, <1>2, <1>3, <1>4, <1>5, <1>6, <1>7, <1>8, <1>9, <1>10, <1>11, <1>12,
     <1>13, <1>14, <1>15, <1>16, <1>17, <1>18, <1>19, <1>20, <1>21, <1>22,
     <1>23 DEF Next, TurnStep

\* Every variable keeps the values the code can give it (TypeOK), whatever the
\* requests, paths and writers are.
THEOREM TypeCorrect == Spec => []TypeOK
<1>1. Init => TypeOK
  BY DEF Init, TypeOK, Frames
<1>2. QED
  BY <1>1, TypeStep, PTL DEF Spec

-----------------------------------------------------------------------------
(* The slots and the stages of a request.                                  *)

\* It holds of an idle server.
LEMMA InitInv == Init => Inv
  BY NamesAssumption
  DEF Init, Inv, TypeOK, SlotHeldUntilFinished, HoldsSlot, RequestOK, StageOK, FrameOK,
      EndingOK, MayBeDone, Live, Frames, ClosingOK

\* No step breaks the correspondence between the slots and the generators that
\* hold them.  Only StartTurn takes a slot, and only FinishGen gives one back.
LEMMA SlotStep == Inv /\ [Next]_vars => SlotHeldUntilFinished'
<1> SUFFICES ASSUME Inv, [Next]_vars PROVE SlotHeldUntilFinished'
  OBVIOUS
<1> USE NamesAssumption DEF Inv, TypeOK, SlotHeldUntilFinished, HoldsSlot, Set, turn_vars
<1>1. ASSUME NEW r \in Requests, StartTurn(r) PROVE SlotHeldUntilFinished'
  BY <1>1 DEF StartTurn, Busy, RequestOK, StageOK
<1>2. ASSUME NEW r \in Requests, BeginBody(r) PROVE SlotHeldUntilFinished'
  BY <1>2 DEF BeginBody, RequestOK, StageOK
<1>3. ASSUME NEW r \in Requests, AbortStart(r) PROVE SlotHeldUntilFinished'
  BY <1>3 DEF AbortStart, RequestOK, StageOK
<1>4. ASSUME NEW r \in Requests, KernelYields(r) PROVE SlotHeldUntilFinished'
  BY <1>4 DEF KernelYields, KernelDriven, SuspendAt
<1>5. ASSUME NEW r \in Requests, KernelReturns(r) PROVE SlotHeldUntilFinished'
  BY <1>5 DEF KernelReturns, KernelDriven, SuspendAt
<1>6. ASSUME NEW r \in Requests, KernelRaises(r) PROVE SlotHeldUntilFinished'
  BY <1>6 DEF KernelRaises, KernelDriven, SuspendAt
<1>7. ASSUME NEW r \in Requests, WriteFrame(r) PROVE SlotHeldUntilFinished'
  BY <1>7 DEF WriteFrame
<1>8. ASSUME NEW r \in Requests, ResumeGen(r) PROVE SlotHeldUntilFinished'
  BY <1>8 DEF ResumeGen, FinishGen, SuspendAt, RequestOK, StageOK
<1>9. ASSUME NEW r \in Requests, Disconnect(r) PROVE SlotHeldUntilFinished'
  BY <1>9 DEF Disconnect
<1>10. ASSUME NEW r \in Requests, NoticeDisconnect(r) PROVE SlotHeldUntilFinished'
  BY <1>10 DEF NoticeDisconnect
<1>11. ASSUME NEW r \in Requests, CloseGen(r) PROVE SlotHeldUntilFinished'
  BY <1>11 DEF CloseGen, Interrupted, FinishGen, RequestOK, StageOK
<1>12. ASSUME NEW r \in Requests, CancelReplaced(r) PROVE SlotHeldUntilFinished'
  BY <1>12 DEF CancelReplaced, Interrupted, SuspendAt
<1>13. ASSUME NEW r \in Requests, ShutdownTurn(r) PROVE SlotHeldUntilFinished'
  BY <1>13 DEF ShutdownTurn
<1>14. ASSUME NEW r \in Requests, ShutdownTurnClosed(r) PROVE SlotHeldUntilFinished'
  BY <1>14 DEF ShutdownTurnClosed
<1>15. ASSUME NEW r \in Requests, CloseGenRaises(r) PROVE SlotHeldUntilFinished'
  BY <1>15 DEF CloseGenRaises, Interrupted, SuspendAt, RequestOK, StageOK
<1>16. ASSUME NEW r \in Requests, FinalizeGen(r) PROVE SlotHeldUntilFinished'
  BY <1>16 DEF FinalizeGen, FinishGen
<1>17. CASE RequestShutdown
  BY <1>17 DEF RequestShutdown
<1>18. CASE ShutdownExits
  BY <1>18 DEF ShutdownExits
<1>19. CASE ListenersClose
  BY <1>19 DEF ListenersClose
<1>20. ASSUME NEW w \in Writers, CheckIdle(w) PROVE SlotHeldUntilFinished'
  BY <1>20 DEF CheckIdle, Busy
<1>21. ASSUME NEW w \in Writers, ApplyWrite(w) PROVE SlotHeldUntilFinished'
  BY <1>21 DEF ApplyWrite
<1>22. CASE Quiet
  BY <1>22 DEF Quiet, vars
<1>23. CASE UNCHANGED vars
  BY <1>23 DEF vars
<1>24. QED
  BY <1>1, <1>2, <1>3, <1>4, <1>5, <1>6, <1>7, <1>8, <1>9, <1>10, <1>11, <1>12,
     <1>13, <1>14, <1>15, <1>16, <1>17, <1>18, <1>19, <1>20, <1>21, <1>22,
     <1>23 DEF Next, TurnStep

\* No step breaks what is known of a request's coroutines.
LEMMA RequestStep == Inv /\ [Next]_vars => \A q \in Requests : RequestOK(q)'
<1> SUFFICES ASSUME Inv, [Next]_vars, NEW q \in Requests PROVE RequestOK(q)'
  OBVIOUS
<1> USE DEF Inv, TypeOK, RequestOK, StageOK, FrameOK, EndingOK, MayBeDone, Live, Set,
            turn_vars, client_vars, shutdown_vars
<1>1. ASSUME NEW r \in Requests, StartTurn(r) PROVE RequestOK(q)'
  BY <1>1 DEF StartTurn, Busy
<1>2. ASSUME NEW r \in Requests, BeginBody(r) PROVE RequestOK(q)'
  BY <1>2 DEF BeginBody
<1>3. ASSUME NEW r \in Requests, AbortStart(r) PROVE RequestOK(q)'
  BY <1>3 DEF AbortStart
<1>4. ASSUME NEW r \in Requests, KernelYields(r) PROVE RequestOK(q)'
  BY <1>4 DEF KernelYields, KernelDriven, SuspendAt
<1>5. ASSUME NEW r \in Requests, KernelReturns(r) PROVE RequestOK(q)'
  BY <1>5 DEF KernelReturns, KernelDriven, SuspendAt
<1>6. ASSUME NEW r \in Requests, KernelRaises(r) PROVE RequestOK(q)'
  BY <1>6 DEF KernelRaises, KernelDriven, SuspendAt
<1>7. ASSUME NEW r \in Requests, WriteFrame(r) PROVE RequestOK(q)'
  BY <1>7 DEF WriteFrame
<1>8. ASSUME NEW r \in Requests, ResumeGen(r) PROVE RequestOK(q)'
  BY <1>8 DEF ResumeGen, FinishGen, SuspendAt
<1>9. ASSUME NEW r \in Requests, Disconnect(r) PROVE RequestOK(q)'
  BY <1>9 DEF Disconnect
<1>10. ASSUME NEW r \in Requests, NoticeDisconnect(r) PROVE RequestOK(q)'
  BY <1>10 DEF NoticeDisconnect
<1>11. ASSUME NEW r \in Requests, CloseGen(r) PROVE RequestOK(q)'
  BY <1>11 DEF CloseGen, Interrupted, FinishGen
<1>12. ASSUME NEW r \in Requests, CancelReplaced(r) PROVE RequestOK(q)'
  BY <1>12 DEF CancelReplaced, Interrupted, SuspendAt
<1>13. ASSUME NEW r \in Requests, ShutdownTurn(r) PROVE RequestOK(q)'
  BY <1>13 DEF ShutdownTurn
<1>14. ASSUME NEW r \in Requests, ShutdownTurnClosed(r) PROVE RequestOK(q)'
  BY <1>14 DEF ShutdownTurnClosed
<1>15. ASSUME NEW r \in Requests, CloseGenRaises(r) PROVE RequestOK(q)'
  BY <1>15 DEF CloseGenRaises, Interrupted, SuspendAt
<1>16. ASSUME NEW r \in Requests, FinalizeGen(r) PROVE RequestOK(q)'
  BY <1>16 DEF FinalizeGen, FinishGen
<1>17. CASE RequestShutdown
  BY <1>17 DEF RequestShutdown
<1>18. CASE ShutdownExits
  BY <1>18 DEF ShutdownExits
<1>19. CASE ListenersClose
  BY <1>19 DEF ListenersClose
<1>20. ASSUME NEW w \in Writers, CheckIdle(w) PROVE RequestOK(q)'
  BY <1>20 DEF CheckIdle, Busy
<1>21. ASSUME NEW w \in Writers, ApplyWrite(w) PROVE RequestOK(q)'
  BY <1>21 DEF ApplyWrite
<1>22. CASE Quiet
  BY <1>22 DEF Quiet, vars
<1>23. CASE UNCHANGED vars
  BY <1>23 DEF vars
<1>24. QED
  BY <1>1, <1>2, <1>3, <1>4, <1>5, <1>6, <1>7, <1>8, <1>9, <1>10, <1>11, <1>12,
     <1>13, <1>14, <1>15, <1>16, <1>17, <1>18, <1>19, <1>20, <1>21, <1>22,
     <1>23 DEF Next, TurnStep

\* Shutdown closes one kernel turn at a time: it starts on one when no other is
\* being closed, and goes on when that aclose() is over.
LEMMA ClosingStep == Inv /\ [Next]_vars => ClosingOK'
<1> SUFFICES ASSUME Inv, [Next]_vars PROVE ClosingOK'
  OBVIOUS
<1> USE DEF Inv, TypeOK, ClosingOK, Set, turn_vars, client_vars, shutdown_vars
<1>1. ASSUME NEW r \in Requests, ShutdownTurn(r) PROVE ClosingOK'
  BY <1>1 DEF ShutdownTurn
<1>2. ASSUME NEW r \in Requests, ShutdownTurnClosed(r) PROVE ClosingOK'
  BY <1>2 DEF ShutdownTurnClosed
<1>3. CASE RequestShutdown
  BY <1>3 DEF RequestShutdown
<1>4. CASE ShutdownExits
  BY <1>4 DEF ShutdownExits
<1>5. CASE ListenersClose
  BY <1>5 DEF ListenersClose
<1>6. ASSUME UNCHANGED <<shutdown, to_close>>,
             \A q \in Requests : kern'[q] = "closing" => kern[q] = "closing"
      PROVE  ClosingOK'
  BY <1>6
<1>7. ASSUME NEW r \in Requests,
             \/ StartTurn(r) \/ BeginBody(r) \/ AbortStart(r) \/ KernelYields(r)
             \/ KernelReturns(r) \/ KernelRaises(r) \/ WriteFrame(r) \/ ResumeGen(r)
      PROVE  ClosingOK'
  BY <1>6, <1>7 DEF StartTurn, BeginBody, AbortStart, KernelYields, KernelReturns,
     KernelRaises, WriteFrame, ResumeGen
<1>8. ASSUME NEW r \in Requests,
             \/ Disconnect(r) \/ NoticeDisconnect(r) \/ CloseGen(r) \/ CloseGenRaises(r)
             \/ CancelReplaced(r) \/ FinalizeGen(r)
      PROVE  ClosingOK'
  BY <1>6, <1>8 DEF Disconnect, NoticeDisconnect, CloseGen, CloseGenRaises,
     CancelReplaced, FinalizeGen, Interrupted
<1>9. CASE \/ \E w \in Writers : CheckIdle(w) \/ ApplyWrite(w)
           \/ Quiet \/ UNCHANGED vars
  BY <1>6, <1>9 DEF CheckIdle, ApplyWrite, Quiet, vars
<1>10. QED
  BY <1>1, <1>2, <1>3, <1>4, <1>5, <1>7, <1>8, <1>9 DEF Next, TurnStep

\* The inductive invariant.
THEOREM Invariance == Spec => []Inv
<1>1. Inv /\ [Next]_vars => Inv'
  BY TypeStep, SlotStep, RequestStep, ClosingStep DEF Inv
<1>2. QED
  BY InitInv, <1>1, PTL DEF Spec

\* A path's slot is held by exactly the request whose generator has not run
\* its `finally`.
THEOREM SlotsCorrect == Spec => []SlotHeldUntilFinished
<1>1. Inv => SlotHeldUntilFinished
  BY DEF Inv
<1>2. QED
  BY <1>1, Invariance, PTL

\* The kernel works in one workspace for two requests only while shutdown closes
\* one of them, whose response is over and whose slot is given back: two that
\* hold their slots are one, and a turn that was not told to stop holds its slot.
THEOREM MutualExclusion == Spec => []OneLiveTurnPerPath
<1>1. Inv => OneLiveTurnPerPath
  <2> SUFFICES ASSUME Inv, NEW r \in Requests, NEW s \in Requests,
                      Working(r), Working(s), path[r] = path[s], r # s
               PROVE  \/ Live(r) /\ ClosingWithoutSlot(s)
                      \/ Live(s) /\ ClosingWithoutSlot(r)
    BY DEF OneLiveTurnPerPath
  <2>1. ASSUME NEW q \in Requests, Working(q)
        PROVE  \/ gen[q] \in HoldsSlot /\ active[path[q]] = q
               \/ ClosingWithoutSlot(q)
    <3>1. CASE gen[q] \in HoldsSlot
      BY <3>1 DEF Inv, SlotHeldUntilFinished
    <3>2. CASE gen[q] \notin HoldsSlot
      <4>1. gen[q] \in {"none", "finished"}
        BY <3>2 DEF Inv, TypeOK, HoldsSlot
      <4>2. gen[q] = "finished" /\ kern[q] = "closing"
        BY <2>1, <4>1 DEF Inv, RequestOK, StageOK, Working, Live
      <4>3. sse[q] = "ended"
        BY <4>2 DEF Inv, TypeOK, RequestOK, StageOK
      <4>4. active[path[q]] # q
        BY <3>2 DEF Inv, SlotHeldUntilFinished
      <4> QED
        BY <4>2, <4>3, <4>4 DEF Inv, ClosingOK, ClosingWithoutSlot
    <3> QED
      BY <3>1, <3>2
  <2>2. ClosingWithoutSlot(r) \/ ClosingWithoutSlot(s)
    BY <2>1
  <2>3. ~(kern[r] = "closing" /\ kern[s] = "closing")
    BY DEF Inv, ClosingOK
  <2> QED
    BY <2>2, <2>3 DEF ClosingWithoutSlot, Working
<1>2. QED
  BY <1>1, Invariance, PTL

\* No kernel turn goes on for a response that is over.
THEOREM NoOrphans == Spec => []NoOrphanTurn
<1>1. Inv => NoOrphanTurn
  BY DEF Inv, RequestOK, StageOK, Live, NoOrphanTurn
<1>2. QED
  BY <1>1, Invariance, PTL

\* `done` is told of a turn that completed, or that shutdown closed.
THEOREM DoneIsTrue == Spec => []DoneMeansCompleted
<1>1. Inv => DoneMeansCompleted
  BY DEF Inv, RequestOK, EndingOK, MayBeDone, DoneMeansCompleted
<1>2. QED
  BY <1>1, Invariance, PTL

\* No frame is written after a final one: the response that has one neither writes
\* nor waits for another.
THEOREM FinalIsLast == Spec => FinalFrameIsLast
<1> DEFINE Last(q) == /\ received'[q] = received[q]
                      /\ ~(sse[q] = "waiting" /\ sse'[q] = "sending")
<1>1. ASSUME Inv, [Next]_vars, NEW q \in Requests, received[q] \in {"done", "error"}
      PROVE  Last(q)
  <2>1. sse[q] \in {"sending", "closing", "ended"}
    BY <1>1 DEF Inv, RequestOK, FrameOK
  <2>2. ASSUME NEW r \in Requests, WriteFrame(r) PROVE received'[q] = received[q]
    BY <2>1, <2>2 DEF WriteFrame, Set, Inv, TypeOK
  <2>3. ASSUME NEW r \in Requests,
               \/ StartTurn(r) \/ BeginBody(r) \/ AbortStart(r) \/ KernelYields(r)
               \/ KernelReturns(r) \/ KernelRaises(r) \/ ResumeGen(r) \/ Disconnect(r)
        PROVE  UNCHANGED received
    BY <2>3
    DEF StartTurn, BeginBody, AbortStart, KernelYields, KernelReturns, KernelRaises,
       ResumeGen, Disconnect, client_vars
  <2>4. ASSUME NEW r \in Requests,
               \/ NoticeDisconnect(r) \/ CloseGen(r) \/ CloseGenRaises(r)
               \/ CancelReplaced(r) \/ FinalizeGen(r)
               \/ ShutdownTurn(r) \/ ShutdownTurnClosed(r)
        PROVE  UNCHANGED received
    BY <2>4 DEF NoticeDisconnect, CloseGen, CloseGenRaises, CancelReplaced,
       FinalizeGen, ShutdownTurn, ShutdownTurnClosed, client_vars
  <2>5. ASSUME \/ RequestShutdown \/ ShutdownExits \/ ListenersClose \/ Quiet
               \/ \E w \in Writers : CheckIdle(w) \/ ApplyWrite(w)
               \/ UNCHANGED vars
        PROVE  UNCHANGED received
    BY <2>5 DEF RequestShutdown, ShutdownExits, ListenersClose, Quiet, CheckIdle,
       ApplyWrite, vars, client_vars
  <2>6. received'[q] = received[q]
    BY <1>1, <2>2, <2>3, <2>4, <2>5 DEF Next, TurnStep
  <2>7. QED
    BY <2>1, <2>6
<1>2. Inv /\ [Next]_vars =>
        [\A r \in Requests : received[r] \in {"done", "error"} => Last(r)]_vars
  BY <1>1
<1>3. QED
  BY <1>2, Invariance, PTL DEF Spec, FinalFrameIsLast

-----------------------------------------------------------------------------
(* The server implements TurnSlots: holder is `_active`, and a request's   *)
(* abstract state is read off its coroutines by SlotState.                 *)

SlotStates == [q \in Requests |-> SlotState(q)]

\* A step that changes the abstract state of one request, and of no other.
Moves(r, from, to) ==
  /\ SlotState(r) = from
  /\ SlotStates' = [SlotStates EXCEPT ![r] = to]

\* A step of TurnSlots that gives one turn a new state is one of the server
\* that does so and leaves every other turn alone.
LEMMA MovesIf ==
  ASSUME NEW r \in Requests, NEW from, NEW to,
         SlotState(r) = from, SlotState(r)' = to,
         \A q \in Requests \ {r} : SlotState(q)' = SlotState(q)
  PROVE  Moves(r, from, to)
  BY DEF SlotStates, Moves

\* A step that changes no slot and the state of no turn is a stutter there.
LEMMA StaysIf ==
  ASSUME \A q \in Requests : SlotState(q)' = SlotState(q), UNCHANGED <<path, active>>
  PROVE  UNCHANGED Slots!vars
  BY DEF Slots!vars

\* An idle server has every slot free.
LEMMA SlotsInit == Init => Slots!Init
  BY DEF Init, Slots!Init, SlotState

\* Every step of the server is a step of TurnSlots or leaves the slots alone.
LEMMA SlotsStep == Inv /\ Inv' /\ [Next]_vars => [Slots!Next]_(Slots!vars)
<1> SUFFICES ASSUME Inv, Inv', [Next]_vars PROVE [Slots!Next]_(Slots!vars)
  OBVIOUS
<1> USE DEF Inv, TypeOK, RequestOK, StageOK, Live, Set, turn_vars, client_vars
<1>1. ASSUME NEW r \in Requests, StartTurn(r) PROVE [Slots!Next]_(Slots!vars)
  <2>1. CASE Busy(path[r])
    <3>1. SlotState(r)' = "refused" /\ \A q \in Requests \ {r} : SlotState(q)' = SlotState(q)
      BY <1>1, <2>1 DEF StartTurn, Busy, SlotState
    <3>2. SlotState(r) = "new"
      BY <1>1, <2>1 DEF StartTurn, Busy, SlotState
    <3>3. Slots!Refuse(r)
      BY <1>1, <2>1, <3>1, <3>2, MovesIf
      DEF StartTurn, Busy, Moves, SlotStates, Slots!Refuse, Slots!Become
    <3>4. QED
      BY <3>3 DEF Slots!Next
  <2>2. CASE ~Busy(path[r])
    <3>1. SlotState(r)' = "admitted" /\ \A q \in Requests \ {r} : SlotState(q)' = SlotState(q)
      BY <1>1, <2>2 DEF StartTurn, Busy, SlotState
    <3>2. SlotState(r) = "new"
      BY <1>1, <2>2 DEF StartTurn, Busy, SlotState
    <3>3. /\ active[path[r]] = NoTurn
          /\ active' = [active EXCEPT ![path[r]] = r]
          /\ path' = path
      BY <1>1, <2>2 DEF StartTurn, Busy
    <3>4. Moves(r, "new", "admitted")
      BY <3>1, <3>2, MovesIf
    <3>5. Slots!Admit(r)
      BY <3>3, <3>4 DEF Moves, SlotStates, Slots!Admit, Slots!Become
    <3>6. QED
      BY <3>5 DEF Slots!Next
  <2>3. QED
    BY <1>1, <2>1, <2>2 DEF StartTurn, Busy
<1>2. ASSUME NEW r \in Requests, BeginBody(r) PROVE [Slots!Next]_(Slots!vars)
  <2>1. CASE kern[r]' = "awaiting"
    <3>1. SlotState(r)' = "running" /\ \A q \in Requests \ {r} : SlotState(q)' = SlotState(q)
      BY <1>2, <2>1 DEF BeginBody, SlotState
    <3>2. SlotState(r) = "admitted"
      BY <1>2, <2>1 DEF BeginBody, SlotState
    <3>3. Slots!Run(r)
      BY <1>2, <2>1, <3>1, <3>2, MovesIf
      DEF BeginBody, Moves, SlotStates, Slots!Run, Slots!Become
    <3>4. QED
      BY <3>3 DEF Slots!Next
  <2>2. CASE kern' = kern
    <3>1. \A q \in Requests : SlotState(q)' = SlotState(q)
      BY <1>2, <2>2 DEF BeginBody, SlotState
    <3>2. UNCHANGED <<path, active>>
      BY <1>2, <2>2 DEF BeginBody
    <3>3. QED
      BY <3>1, <3>2, StaysIf
  <2>3. QED
    BY <1>2, <2>1, <2>2 DEF BeginBody
<1>3. ASSUME NEW r \in Requests, AbortStart(r) PROVE [Slots!Next]_(Slots!vars)
  <2>1. \A q \in Requests : SlotState(q)' = SlotState(q)
    BY <1>3 DEF AbortStart, SlotState
  <2>2. UNCHANGED <<path, active>>
    BY <1>3 DEF AbortStart
  <2>3. QED
    BY <2>1, <2>2, StaysIf
<1>4. ASSUME NEW r \in Requests, KernelYields(r) PROVE [Slots!Next]_(Slots!vars)
  <2>1. \A q \in Requests : SlotState(q)' = SlotState(q)
    BY <1>4 DEF KernelYields, KernelDriven, SuspendAt, SlotState
  <2>2. UNCHANGED <<path, active>>
    BY <1>4 DEF KernelYields, KernelDriven, SuspendAt
  <2>3. QED
    BY <2>1, <2>2, StaysIf
<1>5. ASSUME NEW r \in Requests, KernelReturns(r) PROVE [Slots!Next]_(Slots!vars)
  <2>1. SlotState(r)' = "stopped" /\ \A q \in Requests \ {r} : SlotState(q)' = SlotState(q)
    BY <1>5 DEF KernelReturns, KernelDriven, SuspendAt, SlotState
  <2>2. SlotState(r) = "running"
    BY <1>5 DEF KernelReturns, KernelDriven, SuspendAt, SlotState
  <2>3. Slots!Stop(r)
    BY <1>5, <2>1, <2>2, MovesIf
    DEF KernelReturns, KernelDriven, SuspendAt, Moves, SlotStates, Slots!Stop,
        Slots!Become
  <2>4. QED
    BY <2>3 DEF Slots!Next
<1>6. ASSUME NEW r \in Requests, KernelRaises(r) PROVE [Slots!Next]_(Slots!vars)
  <2>1. SlotState(r)' = "stopped" /\ \A q \in Requests \ {r} : SlotState(q)' = SlotState(q)
    BY <1>6 DEF KernelRaises, KernelDriven, SuspendAt, SlotState
  <2>2. SlotState(r) = "running"
    BY <1>6 DEF KernelRaises, KernelDriven, SuspendAt, SlotState
  <2>3. Slots!Stop(r)
    BY <1>6, <2>1, <2>2, MovesIf
    DEF KernelRaises, KernelDriven, SuspendAt, Moves, SlotStates, Slots!Stop,
        Slots!Become
  <2>4. QED
    BY <2>3 DEF Slots!Next
<1>7. ASSUME NEW r \in Requests, WriteFrame(r) PROVE [Slots!Next]_(Slots!vars)
  <2>1. \A q \in Requests : SlotState(q)' = SlotState(q)
    BY <1>7 DEF WriteFrame, SlotState
  <2>2. UNCHANGED <<path, active>>
    BY <1>7 DEF WriteFrame
  <2>3. QED
    BY <2>1, <2>2, StaysIf
<1>8. ASSUME NEW r \in Requests, ResumeGen(r) PROVE [Slots!Next]_(Slots!vars)
  <2>1. CASE envelope[r] = "event"
    <3>1. \A q \in Requests : SlotState(q)' = SlotState(q)
      BY <1>8, <2>1 DEF ResumeGen, FinishGen, SuspendAt, SlotState
    <3>2. UNCHANGED <<path, active>>
      BY <1>8, <2>1 DEF ResumeGen, FinishGen, SuspendAt
    <3>3. QED
      BY <3>1, <3>2, StaysIf
  <2>2. CASE envelope[r] # "event"
    <3>1. SlotState(r)' = "released" /\ \A q \in Requests \ {r} : SlotState(q)' = SlotState(q)
      BY <1>8, <2>2 DEF ResumeGen, FinishGen, SuspendAt, SlotState
    <3>2. SlotState(r) \in {"admitted", "running", "stopped"}
      BY <1>8, <2>2 DEF ResumeGen, FinishGen, SuspendAt, SlotState
    <3>3. active' = [active EXCEPT ![path[r]] = NoTurn] /\ path' = path
      BY <1>8, <2>2 DEF ResumeGen, FinishGen
    <3>4. Moves(r, SlotState(r), "released")
      BY <3>1, MovesIf
    <3>5. Slots!Release(r)
      BY <3>2, <3>3, <3>4 DEF Moves, SlotStates, Slots!Release, Slots!Become
    <3>6. QED
      BY <3>5 DEF Slots!Next
  <2>3. QED
    BY <1>8, <2>1, <2>2 DEF ResumeGen, FinishGen, SuspendAt
<1>9. ASSUME NEW r \in Requests, Disconnect(r) PROVE [Slots!Next]_(Slots!vars)
  <2>1. \A q \in Requests : SlotState(q)' = SlotState(q)
    BY <1>9 DEF Disconnect, SlotState
  <2>2. UNCHANGED <<path, active>>
    BY <1>9 DEF Disconnect
  <2>3. QED
    BY <2>1, <2>2, StaysIf
<1>10. ASSUME NEW r \in Requests, NoticeDisconnect(r) PROVE [Slots!Next]_(Slots!vars)
  <2>1. \A q \in Requests : SlotState(q)' = SlotState(q)
    BY <1>10 DEF NoticeDisconnect, SlotState
  <2>2. UNCHANGED <<path, active>>
    BY <1>10 DEF NoticeDisconnect
  <2>3. QED
    BY <2>1, <2>2, StaysIf
<1>11. ASSUME NEW r \in Requests, CloseGen(r) PROVE [Slots!Next]_(Slots!vars)
  <2>1. SlotState(r)' = "released" /\ \A q \in Requests \ {r} : SlotState(q)' = SlotState(q)
    BY <1>11 DEF CloseGen, Interrupted, FinishGen, SlotState
  <2>2. SlotState(r) \in {"admitted", "running", "stopped"}
    BY <1>11 DEF CloseGen, Interrupted, FinishGen, SlotState
  <2>3. Slots!Release(r)
    BY <1>11, <2>1, <2>2, MovesIf
    DEF CloseGen, Interrupted, FinishGen, Moves, SlotStates, Slots!Release,
        Slots!Become
  <2>4. QED
    BY <2>3 DEF Slots!Next
<1>12. ASSUME NEW r \in Requests, CancelReplaced(r) PROVE [Slots!Next]_(Slots!vars)
  <2>1. SlotState(r)' = "stopped" /\ \A q \in Requests \ {r} : SlotState(q)' = SlotState(q)
    BY <1>12 DEF CancelReplaced, Interrupted, SuspendAt, SlotState
  <2>2. SlotState(r) = "running"
    BY <1>12 DEF CancelReplaced, Interrupted, SuspendAt, SlotState
  <2>3. Slots!Stop(r)
    BY <1>12, <2>1, <2>2, MovesIf
    DEF CancelReplaced, Interrupted, SuspendAt, Moves, SlotStates, Slots!Stop, Slots!Become
  <2>4. QED
    BY <2>3 DEF Slots!Next
<1>13. ASSUME NEW r \in Requests, ShutdownTurn(r) PROVE [Slots!Next]_(Slots!vars)
  <2>1. CASE kern[r] = "yielded"
    <3>1. SlotState(r)' = "stopped" /\ \A q \in Requests \ {r} : SlotState(q)' = SlotState(q)
      BY <1>13, <2>1 DEF ShutdownTurn, SlotState
    <3>2. SlotState(r) = "running"
      BY <1>13, <2>1 DEF ShutdownTurn, SlotState
    <3>3. UNCHANGED <<path, active>>
      BY <1>13, <2>1 DEF ShutdownTurn
    <3>4. Moves(r, "running", "stopped")
      BY <3>1, <3>2, MovesIf
    <3>5. Slots!Stop(r)
      BY <3>3, <3>4 DEF Moves, SlotStates, Slots!Stop, Slots!Become
    <3>6. QED
      BY <3>5 DEF Slots!Next
  <2>2. CASE kern[r] # "yielded"
    <3>1. \A q \in Requests : SlotState(q)' = SlotState(q)
      BY <1>13, <2>2 DEF ShutdownTurn, SlotState
    <3>2. UNCHANGED <<path, active>>
      BY <1>13, <2>2 DEF ShutdownTurn
    <3>3. QED
      BY <3>1, <3>2, StaysIf
  <2>3. QED
    BY <1>13, <2>1, <2>2 DEF ShutdownTurn
<1>14. ASSUME NEW r \in Requests, ShutdownTurnClosed(r) PROVE [Slots!Next]_(Slots!vars)
  <2>1. \A q \in Requests : SlotState(q)' = SlotState(q)
    BY <1>14 DEF ShutdownTurnClosed, SlotState
  <2>2. UNCHANGED <<path, active>>
    BY <1>14 DEF ShutdownTurnClosed
  <2>3. QED
    BY <2>1, <2>2, StaysIf
<1>15. ASSUME NEW r \in Requests, CloseGenRaises(r) PROVE [Slots!Next]_(Slots!vars)
  <2>1. CASE kern[r] = "yielded"
    <3>1. SlotState(r)' = "stopped" /\ \A q \in Requests \ {r} : SlotState(q)' = SlotState(q)
      BY <1>15, <2>1 DEF CloseGenRaises, Interrupted, SuspendAt, SlotState
    <3>2. SlotState(r) = "running"
      BY <1>15, <2>1 DEF CloseGenRaises, SlotState
    <3>3. Slots!Stop(r)
      BY <1>15, <3>1, <3>2, MovesIf
      DEF CloseGenRaises, Moves, SlotStates, Slots!Stop, Slots!Become
    <3> QED
      BY <3>3 DEF Slots!Next
  <2>2. CASE kern[r] = "closing"
    <3>1. \A q \in Requests : SlotState(q)' = SlotState(q)
      BY <1>15, <2>2 DEF CloseGenRaises, Interrupted, SuspendAt, SlotState
    <3>2. UNCHANGED <<path, active>>
      BY <1>15 DEF CloseGenRaises
    <3> QED
      BY <3>1, <3>2, StaysIf
  <2> QED
    BY <1>15, <2>1, <2>2 DEF CloseGenRaises
<1>16. ASSUME NEW r \in Requests, FinalizeGen(r) PROVE [Slots!Next]_(Slots!vars)
  <2>1. SlotState(r)' = "released" /\ \A q \in Requests \ {r} : SlotState(q)' = SlotState(q)
    BY <1>16 DEF FinalizeGen, FinishGen, SlotState
  <2>2. SlotState(r) \in {"admitted", "running", "stopped"}
    BY <1>16 DEF FinalizeGen, FinishGen, SlotState
  <2>3. Slots!Release(r)
    BY <1>16, <2>1, <2>2, MovesIf
    DEF FinalizeGen, FinishGen, Moves, SlotStates, Slots!Release, Slots!Become
  <2>4. QED
    BY <2>3 DEF Slots!Next
<1>17. CASE RequestShutdown
  <2>1. \A q \in Requests : SlotState(q)' = SlotState(q)
    BY <1>17 DEF RequestShutdown, SlotState
  <2>2. UNCHANGED <<path, active>>
    BY <1>17 DEF RequestShutdown
  <2>3. QED
    BY <2>1, <2>2, StaysIf
<1>18. CASE ShutdownExits
  <2>1. \A q \in Requests : SlotState(q)' = SlotState(q)
    BY <1>18 DEF ShutdownExits, SlotState
  <2>2. UNCHANGED <<path, active>>
    BY <1>18 DEF ShutdownExits
  <2>3. QED
    BY <2>1, <2>2, StaysIf
<1>19. CASE ListenersClose
  <2>1. \A q \in Requests : SlotState(q)' = SlotState(q)
    BY <1>19 DEF ListenersClose, SlotState
  <2>2. UNCHANGED <<path, active>>
    BY <1>19 DEF ListenersClose
  <2>3. QED
    BY <2>1, <2>2, StaysIf
<1>20. ASSUME NEW w \in Writers, CheckIdle(w) PROVE [Slots!Next]_(Slots!vars)
  <2>1. \A q \in Requests : SlotState(q)' = SlotState(q)
    BY <1>20 DEF CheckIdle, Busy, SlotState
  <2>2. UNCHANGED <<path, active>>
    BY <1>20 DEF CheckIdle, Busy
  <2>3. QED
    BY <2>1, <2>2, StaysIf
<1>21. ASSUME NEW w \in Writers, ApplyWrite(w) PROVE [Slots!Next]_(Slots!vars)
  <2>1. \A q \in Requests : SlotState(q)' = SlotState(q)
    BY <1>21 DEF ApplyWrite, SlotState
  <2>2. UNCHANGED <<path, active>>
    BY <1>21 DEF ApplyWrite
  <2>3. QED
    BY <2>1, <2>2, StaysIf
<1>22. CASE Quiet
  <2>1. \A q \in Requests : SlotState(q)' = SlotState(q)
    BY <1>22 DEF Quiet, vars, SlotState
  <2>2. UNCHANGED <<path, active>>
    BY <1>22 DEF Quiet, vars
  <2>3. QED
    BY <2>1, <2>2, StaysIf
<1>23. CASE UNCHANGED vars
  <2>1. \A q \in Requests : SlotState(q)' = SlotState(q)
    BY <1>23 DEF vars, SlotState
  <2>2. UNCHANGED <<path, active>>
    BY <1>23 DEF vars
  <2>3. QED
    BY <2>1, <2>2, StaysIf
<1>24. QED
  BY <1>1, <1>2, <1>3, <1>4, <1>5, <1>6, <1>7, <1>8, <1>9, <1>10, <1>11,
     <1>12, <1>13, <1>14, <1>15, <1>16, <1>17, <1>18, <1>19, <1>20, <1>21, <1>22,
     <1>23 DEF Next, TurnStep

\* The server implements TurnSlots: slots taken synchronously, one turn in each
\* workspace, given back by their own turns only.
THEOREM Refinement == Spec => ImplementsTurnSlots
  BY SlotsInit, SlotsStep, Invariance, PTL DEF Spec, ImplementsTurnSlots, Slots!Spec
=============================================================================
