-------------------------- MODULE AgentTurn_proofs --------------------------
(***************************************************************************)
(* The safety properties of AgentTurn for all bounds.  Inv relates the     *)
(* messages replayed to the provider to those on record and has an         *)
(* interrupt end the turn; RecordInv, on top of it, relates the record to  *)
(* what the consumer has seen and to how the turn ended.                   *)
(***************************************************************************)
EXTENDS AgentTurn, SequenceTheorems, FiniteSetTheorems, TLAPS

-----------------------------------------------------------------------------
(* What a turn appends, and what an append leaves.                         *)

\* A marker of a failure or an interrupt (_record_user_failure, agent.py:32-33)
\* is a record.
LEMMA MarkerType ==
  ASSUME TypeOK, NEW kind \in {"error", "interrupt"}
  PROVE  Marker(kind) \in Record
  BY BoundsAssumption DEF TypeOK, Marker, Record

\* So is the partial text of a pass (agent.py:36-56).
LEMMA PartialType == TypeOK => PartialText \in Record
  BY BoundsAssumption DEF TypeOK, PartialText, Record

\* So is the user's input (agent.py:97).
LEMMA InputType == Input \in Record
  BY BoundsAssumption DEF Input, Record

\* What assistant_message returns (streaming.py:20-48) is a message of a pass.
LEMMA AssistantType ==
  ASSUME TypeOK, round \in Rounds PROVE AssistantMessage \in Message
  BY BoundsAssumption DEF TypeOK, AssistantMessage, OpenSlots, Message

\* So is a tool result (agent.py:203-205).
LEMMA ToolType ==
  ASSUME TypeOK, round \in Rounds, NEW i \in Index PROVE ToolMessage(i) \in Message
  BY BoundsAssumption DEF TypeOK, ToolMessage, Message

\* Appending records keeps the history a sequence of records, however many of
\* them reach the file (history.py:234-254).
LEMMA AppendType ==
  ASSUME history \in Seq(Record), disk_failed \in BOOLEAN,
         NEW records \in Seq(Record),
         AppendAll(records) \/ AppendFails(records)
  PROVE  history' \in Seq(Record) /\ disk_failed' \in BOOLEAN
<1>1. CASE AppendAll(records)
  BY <1>1 DEF AppendAll
<1>2. CASE AppendFails(records)
  <2>1. PICK n \in 0..Len(records) : history' = history \o SubSeq(records, 1, n)
    BY <1>2 DEF AppendFails
  <2>2. SubSeq(records, 1, n) \in Seq(Record)
    BY <2>1
  <2>3. QED
    BY <1>2, <2>1, <2>2 DEF AppendFails
<1>3. QED
  BY <1>1, <1>2

\* The store and the end of the turn after a failure or an interrupt.
EndTyped ==
  /\ history' \in Seq(Record)
  /\ disk_failed' \in BOOLEAN
  /\ pc' = "closed"
  /\ outcome' \in {"workspace", "provider", "tool", "cancelled"}

\* Recording a failure and raising it keeps the types (agent.py:36-46).
LEMMA FailWithType ==
  ASSUME TypeOK, NEW records \in Seq(Record),
         NEW how \in {"provider", "tool", "cancelled"}, FailWith(records, how)
  PROVE  EndTyped
  BY AppendType DEF TypeOK, FailWith, EndTurn, EndTyped

\* _persist_provider_failure keeps the types (agent.py:36-46).
LEMMA FailProviderType ==
  ASSUME TypeOK, FailProvider PROVE EndTyped
<1>1. PartialIf(parts > 0) \o <<Marker("error")>> \in Seq(Record)
  BY MarkerType, PartialType DEF PartialIf
<1>2. QED
  BY <1>1, FailWithType DEF FailProvider

\* _persist_interrupt keeps the types (agent.py:49-56).
LEMMA PersistInterruptType ==
  ASSUME TypeOK, PersistInterrupt PROVE EndTyped
<1> DEFINE records == PartialIf(parts > 0 /\ ~message_persisted) \o <<Marker("interrupt")>>
<1>1. records \in Seq(Record)
  BY MarkerType, PartialType DEF PartialIf
<1>2. AppendAll(records) \/ AppendFails(records)
  BY DEF PersistInterrupt
<1>3. QED
  BY <1>1, <1>2, AppendType DEF TypeOK, PersistInterrupt, EndTurn, EndTyped

-----------------------------------------------------------------------------
(* The inductive invariant.                                                *)

\* A pass that has tool calls is followed by another, which the bound allows.
RoundOK ==
  /\ pc = "unstarted" => round = 0
  /\ pc \notin {"unstarted", "closed"} => round \in Rounds
  /\ pc \in {"stream", "yield_delta", "closing", "yield_assistant"} /\ OpenSlots # {} =>
       round < MaxRounds
  /\ pc = "yield_delta" /\ fragment.kind = "call" => round < MaxRounds
  /\ pc \in {"tools", "yield_tool"} => round < MaxRounds

\* The consumer has heard what this pass accumulated, and nothing of later ones.
HeardOK ==
  /\ \A r \in Rounds : r > round => heard[r] = 0
  /\ pc \in {"provider", "stream", "yield_delta"} => heard[round] = parts

\* Where the history stands relative to the turn's messages.
ReplayOK ==
  /\ pc = "unstarted" => history = <<>> /\ turn_messages = <<>>
  /\ pc \in {"provider", "stream", "yield_delta", "closing"} =>
       history = <<Input>> \o turn_messages
  /\ pc = "yield_assistant" =>
       history = (<<Input>> \o turn_messages) \o <<AssistantMessage>>
  /\ pc = "tools" => history = <<Input>> \o turn_messages /\ tool_messages = <<>>
  /\ pc = "yield_tool" => history = (<<Input>> \o turn_messages) \o tool_messages

\* The turn has no outcome before it is closed; once interrupted it is closing its
\* stream or closed, and never completed.
InterruptOK ==
  /\ pc # "closed" => outcome = "open"
  /\ interrupted =>
       \/ pc = "closing" /\ cause = "interrupted"
       \/ pc = "closed" /\ outcome # "completed"

Inv == TypeOK /\ RoundOK /\ HeardOK /\ ReplayOK /\ InterruptOK

\* The invariant holds before the generator first runs.
LEMMA InitInv == Init => Inv
<1> SUFFICES ASSUME Init PROVE Inv
  OBVIOUS
<1> USE BoundsAssumption DEF Init
<1>1. TypeOK
  <2>1. calls \in [Index -> SUBSET SlotField] /\ heard \in [Rounds -> 0..MaxChunks]
    OBVIOUS
  <2>2. fragment \in Fragment /\ tools_left \in SUBSET Index
    BY DEF Fragment
  <2>3. history \in Seq(Record) /\ turn_messages \in Seq(Message)
        /\ tool_messages \in Seq(Message) /\ delivered \in Seq(Message)
    BY EmptySeq
  <2>4. message_persisted \in BOOLEAN /\ disk_failed \in BOOLEAN /\ interrupted \in BOOLEAN
    BY Zenon
  <2>5. round \in 0..MaxRounds /\ parts \in 0..MaxChunks
    OBVIOUS
  <2>6. QED
    BY <2>1, <2>2, <2>3, <2>4, <2>5 DEF TypeOK
<1>2. RoundOK
  BY DEF RoundOK
<1>3. HeardOK
  BY DEF HeardOK
<1>4. ReplayOK /\ InterruptOK
  BY DEF ReplayOK, InterruptOK
<1>5. QED
  BY <1>1, <1>2, <1>3, <1>4 DEF Inv

-----------------------------------------------------------------------------
(* Each action keeps the types, given what is known of the rounds.         *)

\* The head of the loop keeps the types if a pass is left (agent.py:98-112).
LEMMA BeginRoundType ==
  ASSUME TypeOK, round < MaxRounds, BeginRound
  PROVE  /\ round' \in Rounds /\ parts' = 0 /\ message_persisted' = FALSE
         /\ round' = round + 1
         /\ pc' \in {"provider", "closed"}
         /\ outcome' \in {outcome, "workspace"}
  BY BoundsAssumption DEF TypeOK, BeginRound, EndTurn, Rounds

\* The tool-call part of a chunk keeps the types (agent.py:141-170).
LEMMA ApplyFragmentType ==
  ASSUME TypeOK, NEW f \in Fragment, ApplyFragment(f)
  PROVE  /\ calls' \in [Index -> SUBSET SlotField]
         /\ fragment' = NoCall
         /\ cause' \in {cause, "failed"}
         /\ pc' \in {"stream", "closing"}
<1>1. ASSUME f.kind = "call" PROVE f.index \in Index /\ f.fields \subseteq SlotField
  <2>1. f \in CallFragment
    BY <1>1 DEF Fragment, NoCall, Malformed
  <2>2. f.index \in Index /\ f.fields \in {{"slot"} \cup g : g \in SUBSET {"id", "name"}}
    BY <2>1 DEF CallFragment
  <2>3. QED
    BY <2>2 DEF SlotField
<1>2. CASE f.kind = "call"
  BY <1>1, <1>2 DEF TypeOK, ApplyFragment, CloseStream
<1>3. CASE f.kind # "call"
  BY <1>3 DEF TypeOK, ApplyFragment, CloseStream
<1>4. QED
  BY <1>2, <1>3

\* Yielding a tool result keeps the types (agent.py:203-205).
LEMMA ToolMessageStep ==
  ASSUME TypeOK, round \in Rounds, YieldToolMessage,
         UNCHANGED <<round, parts, message_persisted, stream_vars, turn_messages,
                     interrupted, heard>>
  PROVE  TypeOK'
<1>1. PICK i \in tools_left :
        \/ /\ AppendAll(<<ToolMessage(i)>>)
           /\ delivered' = Append(delivered, ToolMessage(i))
           /\ tool_messages' = Append(tool_messages, ToolMessage(i))
           /\ tools_left' = tools_left \ {i}
           /\ pc' = "yield_tool"
           /\ UNCHANGED outcome
        \/ /\ AppendFails(<<ToolMessage(i)>>)
           /\ EndTurn("workspace")
           /\ UNCHANGED <<delivered, tool_messages, tools_left>>
  BY DEF YieldToolMessage
<1>2. ToolMessage(i) \in Message /\ <<ToolMessage(i)>> \in Seq(Record)
  BY ToolType DEF TypeOK, Record
<1>3. history' \in Seq(Record) /\ disk_failed' \in BOOLEAN
  BY <1>1, <1>2, AppendType DEF TypeOK
<1>4. /\ Append(delivered, ToolMessage(i)) \in Seq(Message)
      /\ Append(tool_messages, ToolMessage(i)) \in Seq(Message)
  BY <1>2, AppendProperties DEF TypeOK
<1>5. delivered' \in Seq(Message) /\ tool_messages' \in Seq(Message)
      /\ tools_left' \in SUBSET Index
  BY <1>1, <1>4 DEF TypeOK
<1>6. pc' \in {"yield_tool", "closed"} /\ outcome' \in {outcome, "workspace"}
  BY <1>1 DEF EndTurn
<1>7. QED
  BY <1>3, <1>5, <1>6 DEF TypeOK, stream_vars

\* No step of the generator takes a variable out of its type.
LEMMA TypeStep == Inv /\ [Next]_vars => TypeOK'
<1> SUFFICES ASSUME Inv, [Next]_vars PROVE TypeOK'
  OBVIOUS
<1> USE BoundsAssumption
    DEF Inv, RoundOK, stream_vars, message_vars, store_vars, consumer_vars
<1>1. CASE RejectInput
  BY <1>1 DEF TypeOK, RejectInput, EndTurn
<1>2. CASE Start
  <2>1. <<Input>> \in Seq(Record)
    BY InputType
  <2>2. history' \in Seq(Record) /\ disk_failed' \in BOOLEAN
    BY <1>2, <2>1, AppendType DEF Start, TypeOK
  <2>3. CASE BeginRound
    <3>1. TypeOK /\ round < MaxRounds
      BY <1>2 DEF Start
    <3>2. /\ round' \in 0..MaxRounds /\ parts' \in 0..MaxChunks
          /\ pc' \in {"provider", "closed"} /\ outcome' \in {outcome, "workspace"}
      BY <2>3, <3>1, BeginRoundType DEF Rounds
    <3>3. message_persisted' \in BOOLEAN
      BY <2>3, Zenon DEF BeginRound
    <3>4. QED
      BY <1>2, <2>2, <3>1, <3>2, <3>3 DEF Start, TypeOK
  <2>4. CASE EndTurn("workspace") /\ UNCHANGED <<round, parts, message_persisted>>
    BY <1>2, <2>2, <2>4 DEF Start, TypeOK, EndTurn
  <2>5. QED
    BY <1>2, <2>3, <2>4 DEF Start
<1>3. CASE ProviderFails
  <2>1. <<Marker("error")>> \in Seq(Record)
    BY MarkerType
  <2>2. EndTyped
    BY <1>3, <2>1, FailWithType DEF ProviderFails
  <2>3. QED
    BY <1>3, <2>2 DEF ProviderFails, TypeOK, EndTyped
<1>4. CASE ProviderAnswers
  BY <1>4 DEF TypeOK, ProviderAnswers, SlotField
<1>5. CASE ReceiveChunk
  <2>1. PICK f \in Fragment :
          \/ ApplyFragment(f) /\ UNCHANGED <<parts, heard>>
          \/ /\ parts < MaxChunks
             /\ parts' = parts + 1
             /\ heard' = [heard EXCEPT ![round] = @ + 1]
             /\ fragment' = f
             /\ pc' = "yield_delta"
             /\ UNCHANGED <<calls, cause>>
    BY <1>5 DEF ReceiveChunk
  <2>2. CASE ApplyFragment(f) /\ UNCHANGED <<parts, heard>>
    BY <1>5, <2>2, ApplyFragmentType DEF ReceiveChunk, TypeOK, Fragment
  <2>3. CASE /\ parts < MaxChunks
             /\ parts' = parts + 1
             /\ heard' = [heard EXCEPT ![round] = @ + 1]
             /\ fragment' = f
             /\ pc' = "yield_delta"
             /\ UNCHANGED <<calls, cause>>
    <3>1. round \in Rounds /\ heard[round] = parts
      BY <1>5 DEF ReceiveChunk, HeardOK
    <3>2. heard' \in [Rounds -> 0..MaxChunks] /\ parts' \in 0..MaxChunks
      BY <2>3, <3>1 DEF TypeOK
    <3>3. QED
      BY <1>5, <2>3, <3>2 DEF ReceiveChunk, TypeOK
  <2>4. QED
    BY <2>1, <2>2, <2>3
<1>6. CASE StreamBreaks
  BY <1>6 DEF TypeOK, StreamBreaks, CloseStream
<1>7. CASE StreamEnds
  BY <1>7 DEF TypeOK, StreamEnds, CloseStream
<1>8. CASE ResumeDelta
  BY <1>8, ApplyFragmentType DEF ResumeDelta, TypeOK, Fragment
<1>9. CASE StreamClosed
  <2>1. CASE YieldAssistant
    <3>1. AssistantMessage \in Message /\ <<AssistantMessage>> \in Seq(Record)
      BY <1>9, AssistantType DEF StreamClosed, Record
    <3>2. history' \in Seq(Record) /\ disk_failed' \in BOOLEAN
      BY <2>1, <3>1, AppendType DEF YieldAssistant, TypeOK
    <3>3. Append(delivered, AssistantMessage) \in Seq(Message)
      BY <3>1, AppendProperties DEF TypeOK
    <3>4. /\ delivered' \in Seq(Message)
          /\ pc' \in {"yield_assistant", "closed"}
          /\ outcome' \in {outcome, "workspace"}
      BY <2>1, <3>3 DEF YieldAssistant, EndTurn, TypeOK
    <3>5. message_persisted' \in BOOLEAN
      BY <2>1, Zenon DEF YieldAssistant, TypeOK
    <3>6. QED
      BY <1>9, <3>2, <3>4, <3>5 DEF StreamClosed, TypeOK
  <2>2. CASE (FailProvider \/ PersistInterrupt) /\ UNCHANGED <<message_persisted, delivered>>
    <3>1. EndTyped
      BY <2>2, FailProviderType, PersistInterruptType
    <3>2. QED
      BY <1>9, <2>2, <3>1 DEF StreamClosed, EndTyped, TypeOK
  <2>3. QED
    BY <1>9, <2>1, <2>2 DEF StreamClosed
<1>10. CASE StreamCloseFails
  <2>1. EndTyped
    BY <1>10, FailProviderType DEF StreamCloseFails
  <2>2. QED
    BY <1>10, <2>1 DEF StreamCloseFails, TypeOK, EndTyped
<1>11. CASE ResumeAssistant
  <2>1. AssistantMessage \in Message
    BY <1>11, AssistantType DEF ResumeAssistant
  <2>2. CASE OpenSlots = {}
    BY <1>11, <2>2 DEF ResumeAssistant, TypeOK, EndTurn
  <2>3. CASE OpenSlots # {}
    <3>1. Append(turn_messages, AssistantMessage) \in Seq(Message)
      BY <2>1, AppendProperties DEF TypeOK
    <3>2. turn_messages' \in Seq(Message) /\ tool_messages' \in Seq(Message)
      BY <1>11, <2>3, <3>1, EmptySeq DEF ResumeAssistant
    <3>3. tools_left' \in SUBSET Index
      BY <1>11, <2>3 DEF ResumeAssistant, OpenSlots
    <3>4. QED
      BY <1>11, <2>3, <3>2, <3>3 DEF ResumeAssistant, TypeOK
  <2>4. QED
    BY <2>2, <2>3
<1>12. CASE ToolsFail
  <2>1. <<Marker("error")>> \in Seq(Record)
    BY MarkerType
  <2>2. EndTyped
    BY <1>12, <2>1, FailWithType DEF ToolsFail
  <2>3. QED
    BY <1>12, <2>2 DEF ToolsFail, TypeOK, EndTyped
<1>13. CASE ToolsFinish
  BY <1>13, ToolMessageStep DEF ToolsFinish
<1>14. CASE ResumeTool
  BY <1>14, ToolMessageStep DEF ResumeTool
<1>15. CASE NextRound
  <2>1. TypeOK /\ round < MaxRounds /\ BeginRound
    BY <1>15 DEF NextRound
  <2>2. /\ round' \in 0..MaxRounds /\ parts' \in 0..MaxChunks
        /\ pc' \in {"provider", "closed"} /\ outcome' \in {outcome, "workspace"}
    BY <2>1, BeginRoundType DEF Rounds
  <2>3. turn_messages' \in Seq(Message)
    BY <1>15 DEF NextRound, TypeOK
  <2>4. message_persisted' \in BOOLEAN
    BY <1>15, Zenon DEF NextRound, BeginRound
  <2>5. QED
    BY <1>15, <2>2, <2>3, <2>4 DEF NextRound, TypeOK
<1>16. CASE Cancel
  <2>1. CASE PersistInterrupt /\ UNCHANGED cause
    BY <1>16, <2>1, PersistInterruptType DEF Cancel, TypeOK, EndTyped
  <2>2. CASE CloseStream("interrupted") /\ UNCHANGED <<store_vars, outcome>>
    BY <1>16, <2>2 DEF Cancel, TypeOK, CloseStream
  <2>3. QED
    BY <1>16, <2>1, <2>2 DEF Cancel
<1>17. CASE Close
  <2>1. CASE PersistInterrupt /\ UNCHANGED cause
    BY <1>17, <2>1, PersistInterruptType DEF Close, TypeOK, EndTyped
  <2>2. CASE CloseStream("interrupted") /\ UNCHANGED <<store_vars, outcome>>
    BY <1>17, <2>2 DEF Close, TypeOK, CloseStream
  <2>3. CASE EndTurn("unrun") /\ UNCHANGED <<store_vars, cause>>
    BY <1>17, <2>3 DEF Close, TypeOK, EndTurn
  <2>4. QED
    BY <1>17, <2>1, <2>2, <2>3 DEF Close
<1>18. CASE Ended
  BY <1>18 DEF Ended, vars, TypeOK
<1>19. CASE UNCHANGED vars
  BY <1>19 DEF vars, TypeOK
<1>20. QED
  BY <1>1, <1>2, <1>3, <1>4, <1>5, <1>6, <1>7, <1>8, <1>9, <1>10, <1>11, <1>12, <1>13,
     <1>14, <1>15, <1>16, <1>17, <1>18, <1>19 DEF Next

-----------------------------------------------------------------------------
(* The rounds, what was heard, and what is replayed.                       *)

\* The actions that end the turn whatever they append.
LEMMA Ending ==
  ASSUME Inv, \/ RejectInput \/ ProviderFails \/ StreamCloseFails \/ ToolsFail \/ Ended
  PROVE  /\ pc' = "closed" /\ UNCHANGED <<round, parts, calls, fragment, cause, heard>>
<1>1. CASE RejectInput
  BY <1>1 DEF RejectInput, EndTurn, stream_vars, consumer_vars
<1>2. CASE ProviderFails
  BY <1>2 DEF ProviderFails, FailWith, EndTurn, stream_vars, consumer_vars
<1>3. CASE StreamCloseFails
  BY <1>3 DEF StreamCloseFails, FailProvider, FailWith, EndTurn, stream_vars, consumer_vars
<1>4. CASE ToolsFail
  BY <1>4 DEF ToolsFail, FailWith, EndTurn, stream_vars, consumer_vars
<1>5. CASE Ended
  BY <1>5 DEF Ended, vars, stream_vars, consumer_vars
<1>6. QED
  BY <1>1, <1>2, <1>3, <1>4, <1>5

\* A pass that calls tools is never the last the bound allows.
LEMMA RoundStep == Inv /\ [Next]_vars => RoundOK'
<1> SUFFICES ASSUME Inv, [Next]_vars PROVE RoundOK'
  OBVIOUS
<1> USE BoundsAssumption DEF Inv, RoundOK, OpenSlots, Rounds, TypeOK, stream_vars, consumer_vars
<1>1. CASE RejectInput \/ ProviderFails \/ StreamCloseFails \/ ToolsFail \/ Ended
  BY <1>1, Ending
<1>2. CASE Start
  BY <1>2 DEF Start, BeginRound, EndTurn
<1>3. CASE ProviderAnswers
  BY <1>3 DEF ProviderAnswers
<1>4. CASE ReceiveChunk
  <2>1. PICK f \in Fragment :
          /\ f.kind = "call" => round < MaxRounds
          /\ \/ ApplyFragment(f)
             \/ UNCHANGED calls /\ fragment' = f /\ pc' = "yield_delta"
    BY <1>4 DEF ReceiveChunk
  <2>2. CASE ApplyFragment(f)
    BY <1>4, <2>1, <2>2 DEF ReceiveChunk, ApplyFragment, CloseStream
  <2>3. CASE UNCHANGED calls /\ fragment' = f /\ pc' = "yield_delta"
    BY <1>4, <2>1, <2>3 DEF ReceiveChunk
  <2>4. QED
    BY <2>1, <2>2, <2>3
<1>5. CASE StreamBreaks \/ StreamEnds
  BY <1>5 DEF StreamBreaks, StreamEnds, CloseStream
<1>6. CASE ResumeDelta
  BY <1>6 DEF ResumeDelta, ApplyFragment, CloseStream
<1>7. CASE StreamClosed
  BY <1>7 DEF StreamClosed, YieldAssistant, FailProvider, FailWith, PersistInterrupt, EndTurn
<1>8. CASE ResumeAssistant
  BY <1>8 DEF ResumeAssistant, EndTurn
<1>9. CASE ToolsFinish \/ ResumeTool
  BY <1>9 DEF ToolsFinish, ResumeTool, YieldToolMessage, EndTurn
<1>10. CASE NextRound
  BY <1>10 DEF NextRound, BeginRound, EndTurn
<1>11. CASE Cancel \/ Close
  BY <1>11 DEF Cancel, Close, PersistInterrupt, CloseStream, EndTurn
<1>12. CASE UNCHANGED vars
  BY <1>12 DEF vars, stream_vars, message_vars, store_vars, consumer_vars
<1>13. QED
  BY <1>1, <1>2, <1>3, <1>4, <1>5, <1>6, <1>7, <1>8, <1>9, <1>10, <1>11,
     <1>12 DEF Next

\* The consumer has heard the text of this pass and of no later one.
LEMMA HeardStep == Inv /\ [Next]_vars => HeardOK'
<1> SUFFICES ASSUME Inv, [Next]_vars PROVE HeardOK'
  OBVIOUS
<1> USE BoundsAssumption DEF Inv, RoundOK, HeardOK, Rounds, TypeOK, stream_vars, consumer_vars
<1>1. CASE RejectInput \/ ProviderFails \/ StreamCloseFails \/ ToolsFail \/ Ended
  BY <1>1, Ending
<1>2. CASE Start
  BY <1>2 DEF Start, BeginRound, EndTurn
<1>3. CASE ProviderAnswers
  BY <1>3 DEF ProviderAnswers
<1>4. CASE ReceiveChunk
  <2>1. CASE UNCHANGED <<parts, heard>>
    BY <1>4, <2>1 DEF ReceiveChunk
  <2>2. CASE parts' = parts + 1 /\ heard' = [heard EXCEPT ![round] = @ + 1]
    BY <1>4, <2>2 DEF ReceiveChunk, TypeOK
  <2>3. QED
    BY <1>4, <2>1, <2>2 DEF ReceiveChunk
<1>5. CASE StreamBreaks \/ StreamEnds
  BY <1>5 DEF StreamBreaks, StreamEnds, CloseStream
<1>6. CASE ResumeDelta
  BY <1>6 DEF ResumeDelta, ApplyFragment, CloseStream
<1>7. CASE StreamClosed
  BY <1>7 DEF StreamClosed, YieldAssistant, FailProvider, FailWith, PersistInterrupt, EndTurn
<1>8. CASE ResumeAssistant
  BY <1>8 DEF ResumeAssistant, EndTurn
<1>9. CASE ToolsFinish \/ ResumeTool
  BY <1>9 DEF ToolsFinish, ResumeTool, YieldToolMessage, EndTurn
<1>10. CASE NextRound
  BY <1>10 DEF NextRound, BeginRound, EndTurn
<1>11. CASE Cancel \/ Close
  BY <1>11 DEF Cancel, Close, PersistInterrupt, CloseStream, EndTurn
<1>12. CASE UNCHANGED vars
  BY <1>12 DEF vars, stream_vars, message_vars, store_vars, consumer_vars
<1>13. QED
  BY <1>1, <1>2, <1>3, <1>4, <1>5, <1>6, <1>7, <1>8, <1>9, <1>10, <1>11,
     <1>12 DEF Next

\* An interrupted turn does nothing but close its stream and end.
LEMMA InterruptStep == Inv /\ [Next]_vars => InterruptOK'
<1> SUFFICES ASSUME Inv, [Next]_vars PROVE InterruptOK'
  OBVIOUS
<1> USE BoundsAssumption DEF Inv, InterruptOK, stream_vars
<1>1. CASE RejectInput \/ ProviderFails \/ StreamCloseFails \/ ToolsFail \/ Ended
  <2>1. CASE StreamCloseFails
    BY <2>1 DEF StreamCloseFails, FailProvider, FailWith, EndTurn
  <2>2. CASE RejectInput \/ ProviderFails \/ ToolsFail
    <3>1. pc' = "closed" /\ pc \notin {"closing", "closed"} /\ interrupted' = interrupted
      BY <2>2, Ending DEF RejectInput, ProviderFails, ToolsFail
    <3> QED
      BY <3>1
  <2>3. CASE Ended
    BY <2>3 DEF Ended, vars
  <2> QED
    BY <1>1, <2>1, <2>2, <2>3
<1>2. CASE Start
  BY <1>2 DEF Start, BeginRound, EndTurn
<1>3. CASE ProviderAnswers
  BY <1>3 DEF ProviderAnswers
<1>4. CASE ReceiveChunk
  BY <1>4 DEF ReceiveChunk, ApplyFragment, CloseStream
<1>5. CASE StreamBreaks \/ StreamEnds
  BY <1>5 DEF StreamBreaks, StreamEnds, CloseStream
<1>6. CASE ResumeDelta
  BY <1>6 DEF ResumeDelta, ApplyFragment, CloseStream
<1>7. CASE StreamClosed
  BY <1>7 DEF StreamClosed, YieldAssistant, FailProvider, FailWith, PersistInterrupt, EndTurn
<1>8. CASE ResumeAssistant
  BY <1>8 DEF ResumeAssistant, EndTurn
<1>9. CASE ToolsFinish \/ ResumeTool
  <2>1. pc \in {"tools", "yield_tool"} /\ interrupted' = interrupted
    BY <1>9 DEF ToolsFinish, ResumeTool
  <2>2. \/ pc' = "yield_tool" /\ outcome' = outcome
        \/ pc' = "closed"
    BY <1>9 DEF ToolsFinish, ResumeTool, YieldToolMessage, EndTurn
  <2> QED
    BY <2>1, <2>2
<1>10. CASE NextRound
  BY <1>10 DEF NextRound, BeginRound, EndTurn
<1>11. CASE Cancel \/ Close
  BY <1>11 DEF Cancel, Close, PersistInterrupt, CloseStream, EndTurn
<1>12. CASE UNCHANGED vars
  BY <1>12 DEF vars, stream_vars, message_vars, store_vars, consumer_vars
<1>13. QED
  BY <1>1, <1>2, <1>3, <1>4, <1>5, <1>6, <1>7, <1>8, <1>9, <1>10, <1>11,
     <1>12 DEF Next

\* Messages are records, and a record may be appended on either side.
LEMMA ReplayAppend ==
  ASSUME NEW q \in Seq(Message), NEW t \in Seq(Message), NEW m \in Message
  PROVE  /\ (<<Input>> \o q) \o <<m>> = <<Input>> \o Append(q, m)
         /\ ((<<Input>> \o q) \o t) \o <<m>> = (<<Input>> \o q) \o Append(t, m)
<1>1. Message \subseteq Record
  BY DEF Record
<1>2. q \in Seq(Record) /\ t \in Seq(Record) /\ m \in Record
  BY <1>1, SeqMonotonic
<1>3. <<Input>> \in Seq(Record) /\ <<m>> \in Seq(Record)
  BY <1>2, InputType
<1>4. <<Input>> \o q \in Seq(Record)
  BY <1>2, <1>3, ConcatProperties
<1>5. (<<Input>> \o q) \o <<m>> = <<Input>> \o Append(q, m)
  BY <1>2, <1>3, ConcatAssociative, AppendIsConcat
<1>6. ((<<Input>> \o q) \o t) \o <<m>> = (<<Input>> \o q) \o Append(t, m)
  <2>1. ((<<Input>> \o q) \o t) \o <<m>> = (<<Input>> \o q) \o (t \o <<m>>)
    BY <1>2, <1>3, <1>4, ConcatAssociative
  <2>2. t \o <<m>> = Append(t, m)
    BY <1>2, AppendIsConcat
  <2>3. QED
    BY <2>1, <2>2
<1>7. QED
  BY <1>5, <1>6

\* The same of the results that join the turn in one go (agent.py:206).
LEMMA ReplayConcat ==
  ASSUME NEW q \in Seq(Message), NEW t \in Seq(Message)
  PROVE  (<<Input>> \o q) \o t = <<Input>> \o (q \o t)
<1>1. q \in Seq(Record) /\ t \in Seq(Record) /\ <<Input>> \in Seq(Record)
  BY SeqMonotonic, InputType DEF Record
<1>2. QED
  BY <1>1, ConcatAssociative

\* Yielding a tool result keeps what is recorded and what will be replayed in
\* step (agent.py:203-206).
LEMMA ReplayToolMessage ==
  ASSUME Inv, round \in Rounds, YieldToolMessage, UNCHANGED turn_messages,
         history = (<<Input>> \o turn_messages) \o tool_messages
  PROVE  ReplayOK'
<1>1. CASE pc' = "closed"
  BY <1>1 DEF ReplayOK
<1>2. CASE pc' # "closed"
  <2>1. PICK i \in tools_left :
          /\ history' = history \o <<ToolMessage(i)>>
          /\ tool_messages' = Append(tool_messages, ToolMessage(i))
          /\ pc' = "yield_tool"
    BY <1>2 DEF YieldToolMessage, AppendAll, EndTurn
  <2>2. ToolMessage(i) \in Message
    BY ToolType DEF Inv, TypeOK
  <2>3. history' = (<<Input>> \o turn_messages) \o tool_messages'
    BY <2>1, <2>2, ReplayAppend DEF Inv, TypeOK
  <2>4. QED
    BY <2>1, <2>3 DEF ReplayOK
<1>3. QED
  BY <1>1, <1>2

\* Every append is matched by what the next request will replay.
LEMMA ReplayStep == Inv /\ [Next]_vars => ReplayOK'
<1> SUFFICES ASSUME Inv, [Next]_vars PROVE ReplayOK'
  OBVIOUS
<1> USE DEF Inv, stream_vars, message_vars, store_vars
<1>1. CASE RejectInput \/ ProviderFails \/ StreamCloseFails \/ ToolsFail \/ Ended
  BY <1>1, Ending DEF ReplayOK
<1>2. CASE Start
  <2>1. CASE pc' = "closed"
    BY <2>1 DEF ReplayOK
  <2>2. CASE pc' # "closed"
    <3>1. history' = <<>> \o <<Input>> /\ turn_messages' = <<>> /\ pc' = "provider"
      BY <1>2, <2>2 DEF Start, AppendAll, BeginRound, EndTurn, ReplayOK
    <3>2. <<>> \o <<Input>> = <<Input>> \o <<>>
      BY InputType, ConcatEmptySeq
    <3>3. QED
      BY <3>1, <3>2 DEF ReplayOK
  <2>3. QED
    BY <2>1, <2>2
<1>3. CASE ProviderAnswers \/ StreamBreaks \/ StreamEnds
  BY <1>3 DEF ProviderAnswers, StreamBreaks, StreamEnds, CloseStream, ReplayOK
<1>4. CASE ReceiveChunk \/ ResumeDelta
  BY <1>4 DEF ReceiveChunk, ResumeDelta, ApplyFragment, CloseStream, ReplayOK
<1>5. CASE StreamClosed
  <2>1. CASE pc' = "closed"
    BY <2>1 DEF ReplayOK
  <2>2. CASE pc' # "closed"
    <3>1. /\ history' = history \o <<AssistantMessage>>
          /\ pc' = "yield_assistant"
      BY <1>5, <2>2 DEF StreamClosed, YieldAssistant, FailProvider, FailWith,
         PersistInterrupt, EndTurn, AppendAll
    <3>2. history = <<Input>> \o turn_messages
      BY <1>5 DEF StreamClosed, ReplayOK
    <3>3. AssistantMessage' = AssistantMessage /\ turn_messages' = turn_messages
      BY <1>5 DEF StreamClosed, AssistantMessage, OpenSlots
    <3>4. QED
      BY <3>1, <3>2, <3>3 DEF ReplayOK
  <2>3. QED
    BY <2>1, <2>2
<1>6. CASE ResumeAssistant
  <2>1. AssistantMessage \in Message
    BY <1>6, AssistantType DEF ResumeAssistant, RoundOK
  <2>2. CASE OpenSlots = {}
    BY <1>6, <2>2 DEF ResumeAssistant, EndTurn, ReplayOK
  <2>3. CASE OpenSlots # {}
    <3>1. /\ pc' = "tools" /\ history' = history /\ tool_messages' = <<>>
          /\ turn_messages' = Append(turn_messages, AssistantMessage)
      BY <1>6, <2>3 DEF ResumeAssistant
    <3>2. history = (<<Input>> \o turn_messages) \o <<AssistantMessage>>
      BY <1>6 DEF ResumeAssistant, ReplayOK
    <3>3. history = <<Input>> \o Append(turn_messages, AssistantMessage)
      BY <2>1, <3>2, ReplayAppend DEF TypeOK
    <3>4. QED
      BY <3>1, <3>3 DEF ReplayOK
  <2>4. QED
    BY <2>2, <2>3
<1>7. CASE ToolsFinish
  <2>1. history = <<Input>> \o turn_messages /\ tool_messages = <<>>
    BY <1>7 DEF ToolsFinish, ReplayOK
  <2>2. turn_messages \in Seq(Record)
    BY SeqMonotonic DEF TypeOK, Record
  <2>3. history = (<<Input>> \o turn_messages) \o tool_messages
    BY <2>1, <2>2, InputType, ConcatProperties, ConcatEmptySeq
  <2>4. QED
    BY <1>7, <2>3, ReplayToolMessage DEF ToolsFinish, RoundOK
<1>8. CASE ResumeTool
  <2>1. history = (<<Input>> \o turn_messages) \o tool_messages
    BY <1>8 DEF ResumeTool, ReplayOK
  <2>2. QED
    BY <1>8, <2>1, ReplayToolMessage DEF ResumeTool, RoundOK
<1>9. CASE NextRound
  <2>1. history = (<<Input>> \o turn_messages) \o tool_messages
    BY <1>9 DEF NextRound, ReplayOK
  <2>2. (<<Input>> \o turn_messages) \o tool_messages
          = <<Input>> \o (turn_messages \o tool_messages)
    BY ReplayConcat DEF TypeOK
  <2>3. history' = <<Input>> \o turn_messages'
    BY <1>9, <2>1, <2>2 DEF NextRound
  <2>4. pc' \in {"provider", "closed"}
    BY <1>9 DEF NextRound, BeginRound, EndTurn
  <2>5. QED
    BY <2>3, <2>4 DEF ReplayOK
<1>10. CASE Cancel \/ Close
  BY <1>10 DEF Cancel, Close, PersistInterrupt, CloseStream, EndTurn, ReplayOK
<1>11. CASE UNCHANGED vars
  BY <1>11 DEF vars, ReplayOK, AssistantMessage, OpenSlots
<1>12. QED
  BY <1>1, <1>2, <1>3, <1>4, <1>5, <1>6, <1>7, <1>8, <1>9, <1>10, <1>11 DEF Next

-----------------------------------------------------------------------------
(* The theorems.                                                           *)

\* The inductive invariant.
THEOREM Invariance == Spec => []Inv
<1>1. Inv /\ [Next]_vars => Inv'
  BY TypeStep, RoundStep, HeardStep, ReplayStep, InterruptStep DEF Inv
<1>2. QED
  BY InitInv, <1>1, PTL DEF Spec

\* Every variable keeps the values the code can give it, for all bounds.
THEOREM TypeCorrect == Spec => []TypeOK
<1>1. Inv => TypeOK
  BY DEF Inv
<1>2. QED
  BY <1>1, Invariance, PTL

\* While the provider is asked and answers, the history holds exactly the input
\* and the messages the provider is sent (agent.py:97-112, 181-187, 204-206).
THEOREM ReplayIsHistory == Spec => []ReplayMatchesHistory
<1>1. Inv => ReplayMatchesHistory
  BY DEF Inv, ReplayOK, ReplayMatchesHistory
<1>2. QED
  BY <1>1, Invariance, PTL

-----------------------------------------------------------------------------
(* What is on record: a second invariant on top of the first.              *)

Running == pc \notin {"unstarted", "closed"}

\* While the turn runs, the history is the input and what the consumer has.
ShownOK ==
  /\ pc = "unstarted" => history = <<>> /\ delivered = <<>>
  /\ Running => history = <<Input>> \o delivered
  /\ PersistedBeforeShown

IsText(record) == record.kind \in TextKinds

\* `parts` is the text of this pass, and the flag says whether it is on record.
PartsOK ==
  /\ pc \in {"provider", "stream", "yield_delta", "closing"} => ~message_persisted
  /\ pc \in {"yield_assistant", "tools", "yield_tool"} => message_persisted
  /\ pc = "provider" => parts = 0
  /\ Running => heard[round] = parts

\* The text of pass r is on record.
OnRecord(r) ==
  \E i \in DOMAIN history :
    IsText(history[i]) /\ history[i].round = r /\ history[i].text = heard[r]

\* Records belong to passes that have begun, and the text of this pass is on
\* record only once the flag is set or the turn is over.
TextPlaced ==
  \A i \in DOMAIN history :
    /\ history[i].round <= round
    /\ IsText(history[i]) /\ history[i].round = round => message_persisted \/ pc = "closed"

\* No pass has its text on record twice.
TextUnique ==
  \A i, j \in DOMAIN history :
    IsText(history[i]) /\ IsText(history[j]) /\ history[i].round = history[j].round => i = j

\* On a working disk the text of no pass that is over is missing.
TextComplete ==
  ~disk_failed =>
    \A r \in Rounds :
      heard[r] > 0 /\ (r < round \/ message_persisted \/ pc = "closed") => OnRecord(r)

TextOK == TextPlaced /\ TextUnique /\ TextComplete

\* The message at k is an assistant's, followed by the results of its n calls.
AnsweredAt(q, k, n) ==
  /\ q[k].kind = "assistant"
  /\ n > 0
  /\ k + n <= Len(q)
  /\ \A d \in 1..n : q[k + d].kind = "tool"
  /\ q[k].calls = UNION {q[k + d].calls : d \in 1..n}
  /\ k + n < Len(q) => q[k + n + 1].kind = "assistant"

\* The message at k is a result, after the results of earlier calls.
ResultAt(q, k) ==
  /\ q[k].kind = "tool"
  /\ k > 1
  /\ q[k - 1].kind = "tool" => \A i \in q[k - 1].calls, j \in q[k].calls : i < j

\* What ReplayWellFormed says of a sequence of messages.
WellFormed(q) ==
  \A k \in DOMAIN q : AnsweredAt(q, k, Cardinality(q[k].calls)) \/ ResultAt(q, k)

\* The results yielded so far: one per call that is not left, in call order.
ResultsOK ==
  LET done == OpenSlots \ tools_left
  IN  /\ tools_left \subseteq OpenSlots
      /\ Cardinality(done) = Len(tool_messages)
      /\ \A k \in DOMAIN tool_messages : \E i \in done : tool_messages[k] = ToolMessage(i)
      /\ \A i \in done : \E k \in DOMAIN tool_messages : tool_messages[k] = ToolMessage(i)
      /\ \A k \in DOMAIN tool_messages : k > 1 =>
           \A i \in tool_messages[k - 1].calls, j \in tool_messages[k].calls : i < j
      /\ \A i \in done, j \in tools_left : i < j

\* The turn's messages are a conversation, but for the results of this pass.
ConversationOK ==
  /\ Running /\ pc \notin {"tools", "yield_tool"} => WellFormed(turn_messages)
  /\ pc \in {"tools", "yield_tool"} =>
       /\ ResultsOK
       /\ OpenSlots # {}
       /\ turn_messages # <<>>
       /\ turn_messages[Len(turn_messages)] = AssistantMessage
       /\ WellFormed(SubSeq(turn_messages, 1, Len(turn_messages) - 1))
  /\ ReplayWellFormed

RecordInv == ShownOK /\ PartsOK /\ TextOK /\ OutcomeRecorded /\ ConversationOK


\* The records a failure or an interrupt leaves: the pass's text, unless it is
\* on record already, and the marker (agent.py:36-56).
EndRecords(kind) == PartialIf(parts > 0 /\ ~message_persisted) \o <<Marker(kind)>>

\* They are one record or two, all of this pass.
LEMMA EndRecordsShape ==
  ASSUME TypeOK, NEW kind \in {"error", "interrupt"}
  PROVE  /\ EndRecords(kind) = IF parts > 0 /\ ~message_persisted
                                 THEN <<PartialText, Marker(kind)>> ELSE <<Marker(kind)>>
         /\ EndRecords(kind) \in Seq(Record)
<1>1. Marker(kind) \in Record /\ PartialText \in Record
  BY MarkerType, PartialType
<1>2. <<>> \o <<Marker(kind)>> = <<Marker(kind)>>
  BY <1>1, ConcatEmptySeq
<1>3. <<PartialText>> \o <<Marker(kind)>> = <<PartialText, Marker(kind)>>
  <2> DEFINE s == <<PartialText>> \o <<Marker(kind)>>
             t == <<PartialText, Marker(kind)>>
  <2>1. <<PartialText>> \in Seq(Record) /\ <<Marker(kind)>> \in Seq(Record) /\ t \in Seq(Record)
    BY <1>1
  <2>2. /\ s \in Seq(Record) /\ Len(s) = Len(t)
        /\ \A i \in 1..Len(s) : s[i] = t[i]
    BY <2>1, ConcatProperties
  <2> QED
    BY <2>1, <2>2, SeqEqual
<1>4. <<PartialText, Marker(kind)>> \in Seq(Record) /\ <<Marker(kind)>> \in Seq(Record)
  BY <1>1
<1>5. CASE parts > 0 /\ ~message_persisted
  BY <1>3, <1>4, <1>5 DEF EndRecords, PartialIf
<1>6. CASE ~(parts > 0 /\ ~message_persisted)
  BY <1>2, <1>4, <1>6 DEF EndRecords, PartialIf
<1> QED
  BY <1>5, <1>6

\* However an append ends, some of the records are in the file, and all of them
\* if no append has failed (history.py:234-254).
LEMMA Appended ==
  ASSUME NEW records \in Seq(Record), disk_failed \in BOOLEAN,
         AppendAll(records) \/ AppendFails(records)
  PROVE  \E n \in 0..Len(records) :
           /\ history' = history \o SubSeq(records, 1, n)
           /\ ~disk_failed' => n = Len(records) /\ ~disk_failed
<1>1. CASE AppendAll(records)
  <2>1. SubSeq(records, 1, Len(records)) = records /\ Len(records) \in 0..Len(records)
    BY LenProperties
  <2> QED
    BY <1>1, <2>1 DEF AppendAll
<1>2. CASE AppendFails(records)
  BY <1>2 DEF AppendFails
<1> QED
  BY <1>1, <1>2

\* A step that ends a running turn with the records of a failure or interrupt.
Ends(kind) ==
  /\ Running
  /\ pc' = "closed"
  /\ kind = "interrupt" => outcome' = "cancelled"
  /\ kind = "error" => outcome' \in {"provider", "tool", "workspace"}
  /\ UNCHANGED <<round, parts, message_persisted, delivered, heard>>
  /\ \E n \in 0..Len(EndRecords(kind)) :
       /\ history' = history \o SubSeq(EndRecords(kind), 1, n)
       /\ ~disk_failed' =>
            n = Len(EndRecords(kind)) /\ ~disk_failed /\ outcome' # "workspace"

\* Failing with those records is such a step (agent.py:36-46).
LEMMA FailEnds ==
  ASSUME TypeOK, Running, NEW how \in {"provider", "tool"},
         FailWith(EndRecords("error"), how),
         UNCHANGED <<round, parts, message_persisted, delivered, heard>>
  PROVE  Ends("error")
<1> DEFINE records == EndRecords("error")
<1>1. records \in Seq(Record) /\ disk_failed \in BOOLEAN
  BY EndRecordsShape DEF TypeOK
<1>2. CASE AppendAll(records) /\ EndTurn(how)
  <2>1. SubSeq(records, 1, Len(records)) = records /\ Len(records) \in 0..Len(records)
    BY <1>1, LenProperties
  <2> QED
    BY <1>2, <2>1 DEF AppendAll, EndTurn, Ends
<1>3. CASE AppendFails(records) /\ EndTurn("workspace")
  BY <1>3 DEF AppendFails, EndTurn, Ends
<1> QED
  BY <1>2, <1>3 DEF FailWith

\* So is persisting an interrupt (agent.py:49-56).
LEMMA InterruptEnds ==
  ASSUME TypeOK, Running, PersistInterrupt,
         UNCHANGED <<round, parts, message_persisted, delivered, heard>>
  PROVE  Ends("interrupt")
<1> DEFINE records == EndRecords("interrupt")
<1>1. records \in Seq(Record) /\ disk_failed \in BOOLEAN
  BY EndRecordsShape DEF TypeOK
<1>2. AppendAll(records) \/ AppendFails(records)
  BY DEF PersistInterrupt, EndRecords
<1>3. PICK n \in 0..Len(records) :
        /\ history' = history \o SubSeq(records, 1, n)
        /\ ~disk_failed' => n = Len(records) /\ ~disk_failed
  BY <1>1, <1>2, Appended
<1>4. pc' = "closed" /\ outcome' = "cancelled"
  BY DEF PersistInterrupt, EndTurn
<1> QED
  BY <1>3, <1>4 DEF Ends

\* The steps that end a running turn other than by completing it: each leaves
\* the same records, given what is known of the text (agent.py:108-127, 172-212).
LEMMA EndingSteps ==
  ASSUME Inv, RecordInv,
         \/ ProviderFails \/ StreamCloseFails \/ ToolsFail
         \/ StreamClosed /\ cause # "complete"
         \/ (Cancel \/ Close) /\ PersistInterrupt
  PROVE  Ends("error") \/ Ends("interrupt")
<1> USE DEF Inv, RecordInv, stream_vars, consumer_vars
<1>1. CASE ProviderFails
  <2>1. parts = 0 /\ Running
    BY <1>1 DEF ProviderFails, PartsOK, Running
  <2>2. EndRecords("error") = <<Marker("error")>>
    BY <2>1, EndRecordsShape
  <2>3. FailWith(EndRecords("error"), "provider")
        /\ UNCHANGED <<round, parts, message_persisted, delivered, heard>>
    BY <1>1, <2>2 DEF ProviderFails
  <2> QED
    BY <2>1, <2>3, FailEnds
<1>2. CASE ToolsFail
  <2>1. message_persisted /\ Running
    BY <1>2 DEF ToolsFail, PartsOK, Running
  <2>2. EndRecords("error") = <<Marker("error")>>
    BY <2>1, EndRecordsShape
  <2>3. FailWith(EndRecords("error"), "tool")
        /\ UNCHANGED <<round, parts, message_persisted, delivered, heard>>
    BY <1>2, <2>2 DEF ToolsFail
  <2> QED
    BY <2>1, <2>3, FailEnds
<1>3. ASSUME pc = "closing", FailProvider,
             UNCHANGED <<round, parts, message_persisted, delivered, heard>>
      PROVE  Ends("error")
  <2>1. ~message_persisted /\ Running
    BY <1>3 DEF PartsOK, Running
  <2>2. EndRecords("error") = PartialIf(parts > 0) \o <<Marker("error")>>
    BY <2>1 DEF EndRecords
  <2>3. FailWith(EndRecords("error"), "provider")
    BY <1>3, <2>2 DEF FailProvider
  <2> QED
    BY <1>3, <2>1, <2>3, FailEnds
<1>4. CASE StreamCloseFails
  <2>1. pc = "closing" /\ FailProvider
        /\ UNCHANGED <<round, parts, message_persisted, delivered, heard>>
    BY <1>4 DEF StreamCloseFails
  <2> QED
    BY <1>3, <2>1
<1>5. CASE StreamClosed /\ cause # "complete"
  <2>1. /\ pc = "closing" /\ Running
        /\ UNCHANGED <<round, parts, message_persisted, delivered, heard>>
        /\ FailProvider \/ PersistInterrupt
    BY <1>5 DEF StreamClosed, Running
  <2> QED
    BY <1>3, <2>1, InterruptEnds
<1>6. CASE (Cancel \/ Close) /\ PersistInterrupt
  <2>1. Running /\ UNCHANGED <<round, parts, message_persisted, delivered, heard>>
    BY <1>6 DEF Cancel, Close, PersistInterrupt, EndTurn, CloseStream, Running, TypeOK
  <2> QED
    BY <1>6, <2>1, InterruptEnds
<1> QED
  BY <1>1, <1>2, <1>4, <1>5, <1>6


\* An append leaves what was shown on record (history.py:234-254).
LEMMA KeepsShown ==
  ASSUME TypeOK, PersistedBeforeShown, NEW q \in Seq(Record),
         history' = history \o q, delivered' = delivered
  PROVE  PersistedBeforeShown'
<1>1. history \in Seq(Record)
  BY DEF TypeOK
<1>2. \A i \in DOMAIN history : i \in DOMAIN history' /\ history'[i] = history[i]
  BY <1>1, ConcatProperties, LenProperties
<1> QED
  BY <1>2 DEF PersistedBeforeShown

\* A history that is the input and the messages shown has them in their places.
LEMMA ShownPlaces ==
  ASSUME NEW d \in Seq(Message), NEW h, h = <<Input>> \o d
  PROVE  \A k \in DOMAIN d : k + 1 \in DOMAIN h /\ h[k + 1] = d[k]
<1>1. <<Input>> \in Seq(Record) /\ d \in Seq(Record)
  BY InputType, SeqMonotonic DEF Record
<1>2. /\ Len(h) = 1 + Len(d)
      /\ \A i \in 1..Len(h) : h[i] = IF i <= 1 THEN <<Input>>[i] ELSE d[i - 1]
      /\ h \in Seq(Record)
  BY <1>1, ConcatProperties
<1>3. DOMAIN h = 1..Len(h) /\ DOMAIN d = 1..Len(d) /\ Len(d) \in Nat
  BY <1>1, <1>2, LenProperties
<1> QED
  BY <1>2, <1>3

\* A message that is appended and then yielded is both shown and on record
\* (agent.py:180-182 and 204-205).
LEMMA AppendShown ==
  ASSUME Inv, ShownOK, Running, NEW m \in Message, history' = history \o <<m>>,
         delivered' = Append(delivered, m), pc' # "unstarted"
  PROVE  ShownOK'
<1>1. delivered \in Seq(Message) /\ history = <<Input>> \o delivered
  BY DEF Inv, TypeOK, ShownOK
<1>2. <<>> \in Seq(Message)
  BY EmptySeq
<1>3. history' = <<Input>> \o delivered' /\ delivered' \in Seq(Message)
  BY <1>1, <1>2, ReplayAppend, AppendProperties
<1>4. PersistedBeforeShown'
  BY <1>3, ShownPlaces DEF PersistedBeforeShown
<1> QED
  BY <1>3, <1>4 DEF ShownOK

\* What part of a single record may reach the file.
LEMMA SingleSubSeq ==
  ASSUME NEW x PROVE SubSeq(<<x>>, 1, 0) = <<>> /\ SubSeq(<<x>>, 1, 1) = <<x>>
<1>1. <<x>> \in Seq({x}) /\ Len(<<x>>) = 1
  OBVIOUS
<1>2. SubSeq(<<x>>, 1, 1) = <<x>>
  BY <1>1, SubSeqFull
<1>3. SubSeq(<<x>>, 1, 0) = <<>>
  BY <1>1, SubSeqEmpty
<1> QED
  BY <1>2, <1>3

\* The actions that write nothing and yield no message.
LEMMA QuietSteps ==
  ASSUME Inv,
         \/ RejectInput \/ ProviderAnswers \/ ReceiveChunk \/ StreamBreaks \/ StreamEnds
         \/ ResumeDelta \/ ResumeAssistant \/ ((Cancel \/ Close) /\ ~PersistInterrupt)
         \/ Ended \/ UNCHANGED vars
  PROVE  /\ UNCHANGED <<history, disk_failed, delivered, round, message_persisted>>
         /\ pc' = pc \/ pc' = "closed" \/ (Running /\ Running')
         /\ pc = "closed" => pc' = "closed"
<1> USE DEF stream_vars, message_vars, store_vars, consumer_vars, Running
<1>1. CASE RejectInput
  BY <1>1 DEF RejectInput, EndTurn
<1>2. CASE ProviderAnswers
  BY <1>2 DEF ProviderAnswers
<1>3. CASE ReceiveChunk
  BY <1>3 DEF ReceiveChunk, ApplyFragment, CloseStream
<1>4. CASE StreamBreaks \/ StreamEnds
  BY <1>4 DEF StreamBreaks, StreamEnds, CloseStream
<1>5. CASE ResumeDelta
  BY <1>5 DEF ResumeDelta, ApplyFragment, CloseStream
<1>6. CASE ResumeAssistant
  BY <1>6 DEF ResumeAssistant, EndTurn
<1>7. CASE (Cancel \/ Close) /\ ~PersistInterrupt
  BY <1>7 DEF Cancel, Close, CloseStream, EndTurn
<1>8. CASE Ended \/ UNCHANGED vars
  BY <1>8 DEF Ended, vars
<1> QED
  BY <1>1, <1>2, <1>3, <1>4, <1>5, <1>6, <1>7, <1>8

\* YieldAssistant, as two cases (agent.py:180-182).
LEMMA AssistantStep ==
  ASSUME Inv, StreamClosed, cause = "complete"
  PROVE  /\ pc = "closing" /\ AssistantMessage \in Message
         /\ UNCHANGED <<round, parts, heard, turn_messages, calls>>
         /\ \/ /\ history' = history \o <<AssistantMessage>>
               /\ delivered' = Append(delivered, AssistantMessage)
               /\ pc' = "yield_assistant" /\ message_persisted' = TRUE
               /\ UNCHANGED <<outcome, disk_failed>>
            \/ /\ \E n \in 0..1 : history' = history \o SubSeq(<<AssistantMessage>>, 1, n)
               /\ pc' = "closed" /\ outcome' = "workspace" /\ disk_failed' = TRUE
               /\ UNCHANGED <<delivered, message_persisted>>
<1>1. pc = "closing" /\ YieldAssistant
      /\ UNCHANGED <<round, parts, heard, turn_messages, calls>>
  BY DEF StreamClosed, stream_vars, message_vars
<1>2. AssistantMessage \in Message
  BY <1>1, AssistantType DEF Inv, RoundOK
<1> QED
  BY <1>1, <1>2 DEF YieldAssistant, AppendAll, AppendFails, EndTurn

\* YieldToolMessage, as two cases (agent.py:203-205).
LEMMA ResultStep ==
  ASSUME Inv, ToolsFinish \/ ResumeTool
  PROVE  /\ pc \in {"tools", "yield_tool"}
         /\ UNCHANGED <<round, parts, message_persisted, heard, turn_messages, calls>>
         /\ \E i \in tools_left :
              /\ \A j \in tools_left : i <= j
              /\ ToolMessage(i) \in Message
              /\ \/ /\ history' = history \o <<ToolMessage(i)>>
                    /\ delivered' = Append(delivered, ToolMessage(i))
                    /\ tool_messages' = Append(tool_messages, ToolMessage(i))
                    /\ tools_left' = tools_left \ {i}
                    /\ pc' = "yield_tool"
                    /\ UNCHANGED <<outcome, disk_failed>>
                 \/ /\ \E n \in 0..1 : history' = history \o SubSeq(<<ToolMessage(i)>>, 1, n)
                    /\ pc' = "closed" /\ outcome' = "workspace" /\ disk_failed' = TRUE
                    /\ UNCHANGED delivered
<1>1. /\ pc \in {"tools", "yield_tool"} /\ YieldToolMessage
      /\ UNCHANGED <<round, parts, message_persisted, heard, turn_messages, calls>>
  BY DEF ToolsFinish, ResumeTool, stream_vars
<1>2. \A i \in tools_left : ToolMessage(i) \in Message
  BY <1>1, ToolType DEF Inv, RoundOK, TypeOK
<1> QED
  BY <1>1, <1>2 DEF YieldToolMessage, AppendAll, AppendFails, EndTurn

\* Start, as two cases (agent.py:97-112).
LEMMA StartStep ==
  ASSUME Inv, Start
  PROVE  /\ pc = "unstarted" /\ round = 0 /\ history = <<>> /\ turn_messages = <<>>
         /\ UNCHANGED <<delivered, heard, turn_messages>>
         /\ \/ /\ history' = <<Input>> /\ UNCHANGED disk_failed
               /\ round' = 1 /\ parts' = 0 /\ message_persisted' = FALSE
               /\ \/ pc' = "provider" /\ UNCHANGED outcome
                  \/ pc' = "closed" /\ outcome' = "workspace"
            \/ /\ history' \in {<<>>, <<Input>>} /\ disk_failed' = TRUE
               /\ pc' = "closed" /\ outcome' = "workspace"
               /\ UNCHANGED <<round, parts, message_persisted>>
<1>1. /\ pc = "unstarted" /\ round = 0 /\ history = <<>> /\ turn_messages = <<>>
      /\ UNCHANGED <<delivered, heard, turn_messages>>
  BY DEF Start, Inv, RoundOK, ReplayOK, message_vars, consumer_vars
<1>2. <<>> \o <<Input>> = <<Input>> /\ <<>> \o <<>> = <<>>
  BY InputType, ConcatEmptySeq, EmptySeq
<1>3. CASE AppendAll(<<Input>>) /\ BeginRound
  BY <1>1, <1>2, <1>3 DEF AppendAll, BeginRound, EndTurn
<1>4. CASE /\ AppendFails(<<Input>>) /\ EndTurn("workspace")
           /\ UNCHANGED <<round, parts, message_persisted>>
  <2>1. PICK n \in 0..1 : history' = <<>> \o SubSeq(<<Input>>, 1, n)
    BY <1>1, <1>4 DEF AppendFails
  <2>2. SubSeq(<<Input>>, 1, 0) = <<>> /\ SubSeq(<<Input>>, 1, 1) = <<Input>>
    BY SingleSubSeq
  <2>3. history' \in {<<>>, <<Input>>}
    BY <1>2, <2>1, <2>2
  <2> QED
    BY <1>1, <1>4, <2>3 DEF AppendFails, EndTurn
<1> QED
  BY <1>1, <1>3, <1>4 DEF Start


\* NextRound, as two cases (agent.py:98-112 and 206).
LEMMA NextRoundStep ==
  ASSUME NextRound
  PROVE  /\ pc = "yield_tool" /\ tools_left = {}
         /\ UNCHANGED <<history, disk_failed, delivered, heard, calls>>
         /\ turn_messages' = turn_messages \o tool_messages
         /\ round' = round + 1 /\ parts' = 0 /\ message_persisted' = FALSE
         /\ \/ pc' = "provider" /\ UNCHANGED outcome
            \/ pc' = "closed" /\ outcome' = "workspace"
  BY DEF NextRound, BeginRound, EndTurn, stream_vars, store_vars, consumer_vars

\* What the consumer is shown is on record after every step.
LEMMA ShownStep == Inv /\ RecordInv /\ [Next]_vars => ShownOK'
<1> SUFFICES ASSUME Inv, RecordInv, [Next]_vars PROVE ShownOK'
  OBVIOUS
<1> USE DEF Running
<1>1. ShownOK /\ PersistedBeforeShown /\ TypeOK
  BY DEF RecordInv, ShownOK, Inv
<1>2. CASE \/ RejectInput \/ ProviderAnswers \/ ReceiveChunk \/ StreamBreaks \/ StreamEnds
           \/ ResumeDelta \/ ResumeAssistant \/ ((Cancel \/ Close) /\ ~PersistInterrupt)
           \/ Ended \/ UNCHANGED vars
  <2>1. /\ UNCHANGED <<history, delivered>>
        /\ pc' = pc \/ pc' = "closed" \/ (Running /\ Running')
    BY <1>2, QuietSteps
  <2> QED
    BY <1>1, <2>1 DEF ShownOK, PersistedBeforeShown
<1>3. CASE \/ ProviderFails \/ StreamCloseFails \/ ToolsFail
           \/ StreamClosed /\ cause # "complete"
           \/ (Cancel \/ Close) /\ PersistInterrupt
  <2>1. PICK kind \in {"error", "interrupt"} : Ends(kind)
    BY <1>3, EndingSteps
  <2>2. PICK n \in 0..Len(EndRecords(kind)) :
          history' = history \o SubSeq(EndRecords(kind), 1, n)
    BY <2>1 DEF Ends
  <2>3. SubSeq(EndRecords(kind), 1, n) \in Seq(Record)
    BY <1>1, EndRecordsShape
  <2>4. pc' = "closed" /\ delivered' = delivered
    BY <2>1 DEF Ends
  <2> QED
    BY <1>1, <2>2, <2>3, <2>4, KeepsShown DEF ShownOK
<1>4. ASSUME NEW m \in Message, delivered' = delivered, pc' = "closed",
             \E n \in 0..1 : history' = history \o SubSeq(<<m>>, 1, n)
      PROVE  ShownOK'
  <2>1. PICK n \in 0..1 : history' = history \o SubSeq(<<m>>, 1, n)
    BY <1>4
  <2>2. SubSeq(<<m>>, 1, n) \in Seq(Record)
    BY DEF Record
  <2> QED
    BY <1>1, <1>4, <2>1, <2>2, KeepsShown DEF ShownOK
<1>5. CASE StreamClosed /\ cause = "complete"
  <2>1. pc = "closing" /\ AssistantMessage \in Message
    BY <1>5, AssistantStep
  <2>2. \/ /\ history' = history \o <<AssistantMessage>>
           /\ delivered' = Append(delivered, AssistantMessage)
           /\ pc' = "yield_assistant"
        \/ /\ \E n \in 0..1 : history' = history \o SubSeq(<<AssistantMessage>>, 1, n)
           /\ pc' = "closed" /\ delivered' = delivered
    BY <1>5, AssistantStep
  <2> QED
    BY <1>1, <1>4, <2>1, <2>2, AppendShown
<1>6. CASE ToolsFinish \/ ResumeTool
  <2>1. PICK i \in tools_left :
          /\ ToolMessage(i) \in Message
          /\ \/ /\ history' = history \o <<ToolMessage(i)>>
                /\ delivered' = Append(delivered, ToolMessage(i))
                /\ pc' = "yield_tool"
             \/ /\ \E n \in 0..1 : history' = history \o SubSeq(<<ToolMessage(i)>>, 1, n)
                /\ pc' = "closed" /\ delivered' = delivered
    BY <1>6, ResultStep
  <2>2. Running
    BY <1>6, ResultStep
  <2> QED
    BY <1>1, <1>4, <2>1, <2>2, AppendShown
<1>7. CASE Start
  <2>1. /\ delivered = <<>> /\ delivered' = <<>>
        /\ pc' \in {"provider", "closed"} /\ (pc' # "closed" => history' = <<Input>>)
    BY <1>1, <1>7, StartStep DEF ShownOK
  <2>2. <<Input>> = <<Input>> \o <<>>
    BY InputType, ConcatEmptySeq
  <2>3. DOMAIN delivered' = {}
    BY <2>1
  <2>4. PersistedBeforeShown'
    BY <2>3 DEF PersistedBeforeShown
  <2> QED
    BY <2>1, <2>2, <2>4 DEF ShownOK
<1>8. CASE NextRound
  BY <1>1, <1>8, NextRoundStep DEF ShownOK, PersistedBeforeShown
<1> QED
  BY <1>2, <1>3, <1>5, <1>6, <1>7, <1>8 DEF Next

\* The last record of a turn that failed or was interrupted is its marker.
LEMMA MarkerLast ==
  ASSUME Inv, RecordInv, NEW kind \in {"error", "interrupt"}, Ends(kind), ~disk_failed'
  PROVE  Len(history') > 1 /\ history'[Len(history')].kind = kind
<1> DEFINE records == EndRecords(kind)
<1>1. /\ records \in Seq(Record) /\ Len(records) \in Nat \ {0}
      /\ records[Len(records)] = Marker(kind)
  <2>1. /\ records = IF parts > 0 /\ ~message_persisted
                       THEN <<PartialText, Marker(kind)>> ELSE <<Marker(kind)>>
        /\ records \in Seq(Record)
    BY EndRecordsShape DEF Inv
  <2> QED
    BY <2>1
<1>2. history \in Seq(Record) /\ Len(history) \in Nat \ {0}
  <2>1. history = <<Input>> \o delivered
    BY DEF Ends, RecordInv, ShownOK
  <2>2. <<Input>> \in Seq(Record) /\ delivered \in Seq(Record)
    BY InputType, SeqMonotonic DEF Inv, TypeOK, Record
  <2> QED
    BY <2>1, <2>2, ConcatProperties, LenProperties
<1>3. history' = history \o records
  <2>1. history' = history \o SubSeq(records, 1, Len(records))
    BY DEF Ends
  <2> QED
    BY <1>1, <2>1, SubSeqFull
<1>4. Marker(kind).kind = kind
  BY DEF Marker
<1> QED
  BY <1>1, <1>2, <1>3, <1>4, ConcatProperties

\* A turn that was open and still is has nothing to show for its outcome.
LEMMA OpenOutcome == (outcome = "open" => OutcomeRecorded) /\ ((outcome = "open")' => OutcomeRecorded')
  BY DEF OutcomeRecorded

\* The record of how a turn ended says so after every step.
LEMMA OutcomeStep == Inv /\ RecordInv /\ [Next]_vars => OutcomeRecorded'
<1> SUFFICES ASSUME Inv, RecordInv, [Next]_vars PROVE OutcomeRecorded'
  OBVIOUS
<1>1. OutcomeRecorded /\ TypeOK /\ (pc # "closed" => outcome = "open")
  BY DEF RecordInv, Inv, InterruptOK
<1>2. CASE pc' # "closed"
  <2>1. outcome' = "open"
    BY InterruptStep, <1>2 DEF InterruptOK
  <2> QED
    BY <2>1, OpenOutcome
<1>3. CASE /\ \/ ProviderFails \/ StreamCloseFails \/ ToolsFail
              \/ StreamClosed /\ cause # "complete"
              \/ (Cancel \/ Close) /\ PersistInterrupt
           /\ ~disk_failed'
  <2>1. PICK kind \in {"error", "interrupt"} : Ends(kind)
    BY <1>3, EndingSteps
  <2>2. Len(history') > 1 /\ history'[Len(history')].kind = kind
    BY <1>3, <2>1, MarkerLast
  <2>3. \/ kind = "interrupt" /\ outcome' = "cancelled"
        \/ kind = "error" /\ outcome' \in {"provider", "tool"}
    BY <1>3, <2>1 DEF Ends
  <2> QED
    BY <2>2, <2>3 DEF OutcomeRecorded
<1>4. CASE disk_failed'
  BY <1>4 DEF OutcomeRecorded
<1>5. CASE RejectInput
  <2>1. history' = <<>> /\ outcome' = "config"
    BY <1>5 DEF RejectInput, EndTurn, store_vars, Inv, ReplayOK
  <2> QED
    BY <2>1 DEF OutcomeRecorded
<1>6. CASE (Cancel \/ Close) /\ ~PersistInterrupt /\ pc' = "closed"
  <2>1. history' = <<>> /\ outcome' = "unrun"
    BY <1>6 DEF Cancel, Close, CloseStream, EndTurn, store_vars, Inv, ReplayOK
  <2> QED
    BY <2>1 DEF OutcomeRecorded
<1>7. CASE ResumeAssistant /\ pc' = "closed"
  <2>1. /\ pc = "yield_assistant" /\ OpenSlots = {} /\ outcome' = "completed"
        /\ UNCHANGED <<history, turn_messages, round, parts, calls>>
    BY <1>7 DEF ResumeAssistant, EndTurn, message_vars, store_vars, stream_vars
  <2>2. history = (<<Input>> \o turn_messages) \o <<AssistantMessage>>
    BY <2>1 DEF Inv, ReplayOK
  <2>3. AssistantMessage \in Record /\ <<Input>> \o turn_messages \in Seq(Record)
    <3>1. AssistantMessage \in Message
      BY <2>1, AssistantType DEF Inv, RoundOK
    <3>2. turn_messages \in Seq(Record) /\ <<Input>> \in Seq(Record)
      BY InputType, SeqMonotonic DEF Inv, TypeOK, Record
    <3> QED
      BY <3>1, <3>2, ConcatProperties DEF Record
  <2>4. history = Append(<<Input>> \o turn_messages, AssistantMessage)
    BY <2>2, <2>3, AppendIsConcat
  <2>5. history[Len(history)] = AssistantMessage
    BY <2>3, <2>4, AppendProperties
  <2>6. AssistantMessage' = AssistantMessage
    BY <2>1 DEF AssistantMessage, OpenSlots
  <2>7. [AssistantMessage EXCEPT !.calls = {}] = AssistantMessage
    BY <2>1 DEF AssistantMessage
  <2>8. history' = history /\ turn_messages' = turn_messages
    BY <2>1
  <2> QED
    BY <2>1, <2>4, <2>5, <2>6, <2>7, <2>8 DEF OutcomeRecorded
<1>8. CASE StreamClosed /\ cause = "complete" /\ pc' = "closed"
  BY <1>4, <1>8, AssistantStep
<1>9. CASE (ToolsFinish \/ ResumeTool) /\ pc' = "closed"
  BY <1>4, <1>9, ResultStep
<1>10. CASE Start /\ pc' = "closed" /\ ~disk_failed'
  <2>1. history' = <<Input>> /\ turn_messages' = <<>> /\ outcome' = "workspace"
    BY <1>10, StartStep
  <2>2. <<Input>> = <<Input>> \o <<>>
    BY InputType, ConcatEmptySeq
  <2> QED
    BY <2>1, <2>2 DEF OutcomeRecorded
<1>11. CASE NextRound /\ pc' = "closed"
  <2>1. /\ pc = "yield_tool" /\ history' = history /\ outcome' = "workspace"
        /\ turn_messages' = turn_messages \o tool_messages
    BY <1>11, NextRoundStep
  <2>2. history = (<<Input>> \o turn_messages) \o tool_messages
    BY <2>1 DEF Inv, ReplayOK
  <2>3. history' = <<Input>> \o turn_messages'
    BY <2>1, <2>2, ReplayConcat DEF Inv, TypeOK
  <2> QED
    BY <2>1, <2>3 DEF OutcomeRecorded
<1>12. CASE Ended \/ UNCHANGED vars
  <2>1. UNCHANGED vars
    BY <1>12 DEF Ended
  <2>2. /\ UNCHANGED <<disk_failed, history, outcome, turn_messages>>
        /\ AssistantMessage' = AssistantMessage
    BY <2>1 DEF vars, stream_vars, message_vars, store_vars, AssistantMessage, OpenSlots
  <2> QED
    BY <1>1, <2>2 DEF OutcomeRecorded
<1>13. CASE ProviderAnswers \/ ReceiveChunk \/ StreamBreaks \/ StreamEnds \/ ResumeDelta
  BY <1>2, <1>13 DEF ProviderAnswers, ReceiveChunk, StreamBreaks, StreamEnds, ResumeDelta,
                     ApplyFragment, CloseStream
<1> QED
  BY <1>2, <1>3, <1>4, <1>5, <1>6, <1>7, <1>8, <1>9, <1>10, <1>11, <1>12, <1>13 DEF Next


-----------------------------------------------------------------------------
(* The text of the passes.                                                 *)

\* The flag and the text follow the pass from its head to its end.
LEMMA PartsStep == Inv /\ RecordInv /\ [Next]_vars => PartsOK'
<1> SUFFICES ASSUME Inv, RecordInv, [Next]_vars PROVE PartsOK'
  OBVIOUS
<1> USE BoundsAssumption
    DEF Inv, RecordInv, RoundOK, HeardOK, PartsOK, Rounds, Running, TypeOK, stream_vars,
        consumer_vars
<1>1. CASE RejectInput \/ ProviderFails \/ StreamCloseFails \/ ToolsFail \/ Ended
  BY <1>1, Ending
<1>2. CASE Start
  BY <1>2 DEF Start, BeginRound, EndTurn
<1>3. CASE ProviderAnswers
  BY <1>3 DEF ProviderAnswers
<1>4. CASE ReceiveChunk
  <2>1. CASE UNCHANGED <<parts, heard>>
    BY <1>4, <2>1 DEF ReceiveChunk, ApplyFragment, CloseStream
  <2>2. CASE parts' = parts + 1 /\ heard' = [heard EXCEPT ![round] = @ + 1]
    BY <1>4, <2>2 DEF ReceiveChunk, ApplyFragment, CloseStream
  <2> QED
    BY <1>4, <2>1, <2>2 DEF ReceiveChunk
<1>5. CASE StreamBreaks \/ StreamEnds
  BY <1>5 DEF StreamBreaks, StreamEnds, CloseStream
<1>6. CASE ResumeDelta
  BY <1>6 DEF ResumeDelta, ApplyFragment, CloseStream
<1>7. CASE StreamClosed
  BY <1>7 DEF StreamClosed, YieldAssistant, FailProvider, FailWith, PersistInterrupt, EndTurn
<1>8. CASE ResumeAssistant
  BY <1>8 DEF ResumeAssistant, EndTurn
<1>9. CASE ToolsFinish \/ ResumeTool
  BY <1>9 DEF ToolsFinish, ResumeTool, YieldToolMessage, EndTurn
<1>10. CASE NextRound
  BY <1>10 DEF NextRound, BeginRound, EndTurn
<1>11. CASE Cancel \/ Close
  BY <1>11 DEF Cancel, Close, PersistInterrupt, CloseStream, EndTurn
<1>12. CASE UNCHANGED vars
  BY <1>12 DEF vars
<1> QED
  BY <1>1, <1>2, <1>3, <1>4, <1>5, <1>6, <1>7, <1>8, <1>9, <1>10, <1>11,
     <1>12 DEF Next

\* Records of this pass with at most one text, appended while the pass has none
\* on record, keep one text for each pass (agent.py:36-56 and 180-184).
LEMMA TextAppend ==
  ASSUME TypeOK, TextPlaced, TextUnique, NEW q \in Seq(Record), history' = history \o q,
         round' = round,
         \A i \in DOMAIN q : q[i].round = round /\ (IsText(q[i]) => ~message_persisted),
         \A i, j \in DOMAIN q : IsText(q[i]) /\ IsText(q[j]) => i = j,
         pc # "closed", message_persisted' \/ pc' = "closed"
  PROVE  TextPlaced' /\ TextUnique'
<1>1. history \in Seq(Record) /\ Len(history) \in Nat /\ Len(q) \in Nat
  BY DEF TypeOK
<1>2. /\ DOMAIN history = 1..Len(history) /\ DOMAIN q = 1..Len(q)
      /\ DOMAIN history' = 1..(Len(history) + Len(q))
      /\ \A i \in DOMAIN history' :
           history'[i] = IF i <= Len(history) THEN history[i] ELSE q[i - Len(history)]
  BY <1>1, ConcatProperties, LenProperties
<1>3. ASSUME NEW i \in DOMAIN history'
      PROVE  \/ i \in DOMAIN history /\ history'[i] = history[i]
             \/ /\ i - Len(history) \in DOMAIN q /\ i > Len(history)
                /\ history'[i] = q[i - Len(history)]
  BY <1>1, <1>2, <1>3
<1>4. TextPlaced'
  <2>1. round \in Nat
    BY BoundsAssumption DEF TypeOK
  <2>2. \A i \in DOMAIN history' : history'[i].round <= round
    BY <1>3, <2>1 DEF TextPlaced
  <2> QED
    BY <2>2 DEF TextPlaced
<1>5. TextUnique'
  <2> SUFFICES ASSUME NEW i \in DOMAIN history', NEW j \in DOMAIN history',
                      IsText(history'[i]), IsText(history'[j]),
                      history'[i].round = history'[j].round
               PROVE  i = j
    BY DEF TextUnique, IsText
  <2>1. CASE i \in DOMAIN history /\ j \in DOMAIN history
    BY <1>1, <1>2, <1>3, <2>1 DEF TextUnique
  <2>2. CASE i \notin DOMAIN history /\ j \notin DOMAIN history
    BY <1>1, <1>2, <1>3, <2>2
  <2>3. CASE i \in DOMAIN history /\ j \notin DOMAIN history
    BY <1>1, <1>2, <1>3, <2>3 DEF TextPlaced
  <2>4. CASE i \notin DOMAIN history /\ j \in DOMAIN history
    BY <1>1, <1>2, <1>3, <2>4 DEF TextPlaced
  <2> QED
    BY <2>1, <2>2, <2>3, <2>4
<1> QED
  BY <1>4, <1>5

\* A text on record stays on record, and an appended one is on record.
LEMMA OnRecordAppend ==
  ASSUME TypeOK, NEW q \in Seq(Record), history' = history \o q, heard' = heard, NEW r,
         \/ OnRecord(r)
         \/ \E i \in DOMAIN q : IsText(q[i]) /\ q[i].round = r /\ q[i].text = heard[r]
  PROVE  OnRecord(r)'
<1>1. history \in Seq(Record) /\ Len(history) \in Nat /\ Len(q) \in Nat
  BY DEF TypeOK
<1>2. /\ DOMAIN history = 1..Len(history) /\ DOMAIN q = 1..Len(q)
      /\ DOMAIN history' = 1..(Len(history) + Len(q))
      /\ \A i \in DOMAIN history' :
           history'[i] = IF i <= Len(history) THEN history[i] ELSE q[i - Len(history)]
  BY <1>1, ConcatProperties, LenProperties
<1>3. CASE OnRecord(r)
  <2>1. PICK i \in DOMAIN history :
          IsText(history[i]) /\ history[i].round = r /\ history[i].text = heard[r]
    BY <1>3 DEF OnRecord
  <2>2. i \in DOMAIN history' /\ history'[i] = history[i]
    BY <1>1, <1>2
  <2> QED
    BY <2>1, <2>2 DEF OnRecord, IsText
<1>4. CASE \E i \in DOMAIN q : IsText(q[i]) /\ q[i].round = r /\ q[i].text = heard[r]
  <2>1. PICK i \in DOMAIN q : IsText(q[i]) /\ q[i].round = r /\ q[i].text = heard[r]
    BY <1>4
  <2>2. Len(history) + i \in DOMAIN history' /\ history'[Len(history) + i] = q[i]
    BY <1>1, <1>2
  <2> QED
    BY <2>1, <2>2 DEF OnRecord, IsText
<1> QED
  BY <1>3, <1>4


\* The texts of the passes keep their places when nothing is written.
LEMMA TextKept ==
  ASSUME TypeOK, TextOK, round' \in Nat, UNCHANGED <<history, disk_failed>>,
         \/ /\ round' = round
            /\ message_persisted' = message_persisted \/ pc' = "closed"
            /\ pc = "closed" => pc' = "closed"
         \/ round' > round,
         \A r \in Rounds :
           heard'[r] > 0 /\ (r < round' \/ message_persisted' \/ pc' = "closed") =>
             /\ heard'[r] = heard[r]
             /\ r < round \/ message_persisted \/ pc = "closed"
  PROVE  TextOK'
<1>1. round \in Nat /\ history \in Seq(Record)
  BY BoundsAssumption DEF TypeOK
<1>2. TextPlaced'
  <2>1. \A i \in DOMAIN history : history[i].round \in Nat
    BY <1>1, BoundsAssumption DEF Record, Message, Rounds
  <2> QED
    BY <1>1, <2>1 DEF TextOK, TextPlaced, IsText
<1>3. TextUnique'
  BY DEF TextOK, TextUnique, IsText
<1>4. TextComplete'
  BY DEF TextOK, TextComplete, OnRecord, IsText
<1> QED
  BY <1>2, <1>3, <1>4 DEF TextOK

\* The records of a failure or an interrupt hold at most one text, that of a
\* pass that has none on record; on a working disk they hold it if there is one.
LEMMA EndsText ==
  ASSUME Inv, RecordInv, NEW kind \in {"error", "interrupt"}, Ends(kind)
  PROVE  TextOK'
<1> DEFINE records == EndRecords(kind)
<1>1. TypeOK /\ TextOK /\ PartsOK /\ HeardOK /\ Running
  BY DEF Inv, RecordInv, Ends
<1>2. PICK n \in 0..Len(records) :
        /\ history' = history \o SubSeq(records, 1, n)
        /\ ~disk_failed' => n = Len(records) /\ ~disk_failed
  BY DEF Ends
<1>3. UNCHANGED <<round, heard, message_persisted>> /\ pc' = "closed"
  BY DEF Ends
<1>4. /\ records = IF parts > 0 /\ ~message_persisted
                     THEN <<PartialText, Marker(kind)>> ELSE <<Marker(kind)>>
      /\ records \in Seq(Record)
  BY <1>1, EndRecordsShape
<1>5. DOMAIN records = 1..Len(records)
      /\ \A i \in DOMAIN records :
           /\ records[i].round = round
           /\ IsText(records[i]) => ~message_persisted /\ i = 1
  <2> USE DEF IsText, TextKinds
  <2>1. /\ ~IsText(Marker(kind)) /\ Marker(kind).round = round
        /\ PartialText.round = round
    BY DEF Marker, PartialText
  <2>2. CASE parts > 0 /\ ~message_persisted
    <3>1. /\ Len(records) = 2 /\ records[1] = PartialText /\ records[2] = Marker(kind)
          /\ DOMAIN records = 1..Len(records)
      BY <1>4, <2>2
    <3> HIDE DEF records
    <3>2. \A i \in DOMAIN records : i = 1 \/ i = 2
      BY <3>1
    <3> QED
      BY <2>1, <2>2, <3>1, <3>2
  <2>3. CASE ~(parts > 0 /\ ~message_persisted)
    <3>1. Len(records) = 1 /\ records[1] = Marker(kind) /\ DOMAIN records = 1..Len(records)
      <4>1. records = <<Marker(kind)>>
        BY <1>4, <2>3
      <4> QED
        BY <4>1
    <3> HIDE DEF records
    <3>2. \A i \in DOMAIN records : i = 1
      BY <3>1
    <3> QED
      BY <2>1, <3>1, <3>2
  <2> QED
    BY <2>2, <2>3
<1> DEFINE q == SubSeq(records, 1, n)
<1>6. /\ q \in Seq(Record) /\ DOMAIN q = 1..n
      /\ \A i \in DOMAIN q : i \in DOMAIN records /\ q[i] = records[i]
  BY <1>4, <1>5, SubSeqProperties
<1> HIDE DEF q, records
<1>7. TextPlaced' /\ TextUnique'
  <2>1. /\ \A i \in DOMAIN q : q[i].round = round /\ (IsText(q[i]) => ~message_persisted)
        /\ \A i, j \in DOMAIN q : IsText(q[i]) /\ IsText(q[j]) => i = j
    BY <1>5, <1>6
  <2>2. pc # "closed" /\ history' = history \o q
    BY <1>1, <1>2 DEF Running, q
  <2> QED
    BY <1>1, <1>3, <1>6, <2>1, <2>2, TextAppend DEF TextOK
<1>8. TextComplete'
  <2> SUFFICES ASSUME ~disk_failed', NEW r \in Rounds, heard'[r] > 0
               PROVE  OnRecord(r)'
    BY DEF TextComplete
  <2>1. history' = history \o q /\ heard' = heard /\ heard[r] > 0
    BY <1>2, <1>3 DEF q
  <2>2. CASE OnRecord(r)
    BY <1>1, <1>6, <2>1, <2>2, OnRecordAppend
  <2>3. CASE ~OnRecord(r)
    <3>1. ~(r < round \/ message_persisted)
      BY <1>1, <1>2, <2>1, <2>3 DEF TextOK, TextComplete
    <3>2. r = round
      BY <1>1, <2>1, <3>1, BoundsAssumption DEF HeardOK, Rounds, TypeOK
    <3>3. parts = heard[r] /\ parts > 0
      BY <1>1, <2>1, <3>2 DEF PartsOK
    <3>4. Len(records) = 2 /\ records[1] = PartialText
      BY <1>4, <3>1, <3>3
    <3>5. 1 \in DOMAIN q /\ q[1] = PartialText
      BY <1>2, <1>6, <3>4
    <3>6. IsText(q[1]) /\ q[1].round = r /\ q[1].text = heard[r]
      BY <3>2, <3>3, <3>5 DEF PartialText, IsText, TextKinds
    <3> QED
      BY <1>1, <1>6, <2>1, <3>5, <3>6, OnRecordAppend
  <2> QED
    BY <2>2, <2>3
<1> QED
  BY <1>7, <1>8 DEF TextOK


\* However appending one record ends, it is the only one that reaches the file.
LEMMA SingleAppend ==
  ASSUME NEW x \in Record,
         \/ history' = history \o <<x>>
         \/ \E n \in 0..1 : history' = history \o SubSeq(<<x>>, 1, n)
  PROVE  \E q \in Seq(Record) :
           /\ history' = history \o q
           /\ \A i \in DOMAIN q : i = 1 /\ q[i] = x
           /\ history' = history \o <<x>> => 1 \in DOMAIN q
<1>1. <<x>> \in Seq(Record) /\ DOMAIN <<x>> = {1} /\ <<x>>[1] = x
  OBVIOUS
<1>2. CASE history' = history \o <<x>>
  BY <1>1, <1>2
<1>3. CASE history' # history \o <<x>>
  <2>1. PICK n \in 0..1 : history' = history \o SubSeq(<<x>>, 1, n)
    BY <1>3
  <2>2. history' = history \o <<>>
    <3>1. CASE n = 0
      BY <2>1, <3>1, SingleSubSeq
    <3>2. CASE n = 1
      BY <1>3, <2>1, <3>2, SingleSubSeq
    <3> QED
      BY <3>1, <3>2
  <2>3. <<>> \in Seq(Record) /\ DOMAIN <<>> = {}
    BY EmptySeq
  <2> QED
    BY <1>3, <2>2, <2>3
<1> QED
  BY <1>2, <1>3

\* The text of every pass is recorded once after every step.
LEMMA TextStep == Inv /\ RecordInv /\ [Next]_vars => TextOK'
<1> SUFFICES ASSUME Inv, RecordInv, [Next]_vars PROVE TextOK'
  OBVIOUS
<1> USE DEF Running
<1>1. TypeOK /\ TextOK /\ PartsOK /\ HeardOK /\ round \in Nat
  BY BoundsAssumption DEF RecordInv, Inv, TypeOK
<1>2. CASE \/ RejectInput \/ ProviderAnswers \/ StreamBreaks \/ StreamEnds
           \/ ResumeDelta \/ ResumeAssistant \/ ((Cancel \/ Close) /\ ~PersistInterrupt)
           \/ Ended \/ UNCHANGED vars
  <2>1. /\ UNCHANGED <<history, disk_failed, round, message_persisted>>
        /\ pc' = pc \/ pc' = "closed" \/ (Running /\ Running')
        /\ pc = "closed" => pc' = "closed"
    BY <1>2, QuietSteps
  <2>2. heard' = heard
    BY <1>2 DEF RejectInput, ProviderAnswers, StreamBreaks, StreamEnds, ResumeDelta,
                ResumeAssistant, Cancel, Close, Ended, vars, consumer_vars
  <2>3. ASSUME NEW r \in Rounds, heard[r] > 0, pc' = "closed", pc # "closed"
        PROVE  r < round \/ message_persisted
    <3>1. pc \in {"unstarted", "yield_assistant"}
      BY <1>2, <2>3 DEF RejectInput, ProviderAnswers, StreamBreaks, StreamEnds, ResumeDelta,
           ApplyFragment, ResumeAssistant, Cancel, Close, CloseStream, Ended, vars
    <3>2. pc # "unstarted"
      <4>1. pc = "unstarted" => round = 0
        BY DEF Inv, RoundOK
      <4> QED
        BY <1>1, <2>3, <4>1, BoundsAssumption DEF HeardOK, Rounds
    <3> QED
      BY <1>1, <3>1, <3>2 DEF PartsOK
  <2>4. \A r \in Rounds :
          heard'[r] > 0 /\ (r < round' \/ message_persisted' \/ pc' = "closed") =>
            heard'[r] = heard[r] /\ (r < round \/ message_persisted \/ pc = "closed")
    BY <2>1, <2>2, <2>3
  <2> QED
    BY <1>1, <2>1, <2>4, TextKept
<1>3. CASE ReceiveChunk
  <2>1. /\ UNCHANGED <<history, disk_failed, round, message_persisted>>
        /\ pc = "stream" /\ pc' # "closed"
    BY <1>3 DEF ReceiveChunk, store_vars, ApplyFragment, CloseStream
  <2>2. ~message_persisted
    BY <1>1, <2>1 DEF PartsOK
  <2>3. heard' = heard \/ heard' = [heard EXCEPT ![round] = @ + 1]
    BY <1>3 DEF ReceiveChunk
  <2>4. \A r \in Rounds : r < round => heard'[r] = heard[r]
    BY <1>1, <2>3 DEF TypeOK
  <2>5. \A r \in Rounds :
          heard'[r] > 0 /\ (r < round' \/ message_persisted' \/ pc' = "closed") =>
            heard'[r] = heard[r] /\ (r < round \/ message_persisted \/ pc = "closed")
    BY <2>1, <2>2, <2>4
  <2> QED
    BY <1>1, <2>1, <2>5, TextKept
<1>4. CASE \/ ProviderFails \/ StreamCloseFails \/ ToolsFail
           \/ StreamClosed /\ cause # "complete"
           \/ (Cancel \/ Close) /\ PersistInterrupt
  BY <1>4, EndingSteps, EndsText
<1>5. CASE StreamClosed /\ cause = "complete"
  <2>1. /\ pc = "closing" /\ AssistantMessage \in Message
        /\ UNCHANGED <<round, heard>>
    BY <1>5, AssistantStep
  <2>2. ~message_persisted /\ heard[round] = parts
    BY <1>1, <2>1 DEF PartsOK
  <2>3. /\ AssistantMessage \in Record /\ AssistantMessage.round = round
        /\ AssistantMessage.text = parts /\ IsText(AssistantMessage)
    BY <2>1 DEF Record, AssistantMessage, IsText, TextKinds
  <2>4. PICK q \in Seq(Record) :
          /\ history' = history \o q
          /\ \A i \in DOMAIN q : i = 1 /\ q[i] = AssistantMessage
          /\ ~disk_failed' => ~disk_failed /\ 1 \in DOMAIN q
    <3>1. \/ /\ history' = history \o <<AssistantMessage>>
             /\ disk_failed' = disk_failed
          \/ /\ \E n \in 0..1 : history' = history \o SubSeq(<<AssistantMessage>>, 1, n)
             /\ disk_failed' = TRUE
      BY <1>5, AssistantStep
    <3>2. PICK q \in Seq(Record) :
            /\ history' = history \o q
            /\ \A i \in DOMAIN q : i = 1 /\ q[i] = AssistantMessage
            /\ history' = history \o <<AssistantMessage>> => 1 \in DOMAIN q
      BY <2>3, <3>1, SingleAppend
    <3>3. ~disk_failed' => ~disk_failed /\ history' = history \o <<AssistantMessage>>
      BY <3>1, Zenon
    <3> QED
      BY <3>2, <3>3
  <2>5. message_persisted' \/ pc' = "closed"
    BY <1>5, AssistantStep
  <2>6. /\ q \in Seq(Record)
        /\ \A i \in DOMAIN q : q[i].round = round /\ (IsText(q[i]) => ~message_persisted)
        /\ \A i, j \in DOMAIN q : IsText(q[i]) /\ IsText(q[j]) => i = j
    BY <2>2, <2>3, <2>4
  <2>7. TextPlaced' /\ TextUnique'
    BY <1>1, <2>1, <2>4, <2>5, <2>6, TextAppend DEF TextOK
  <2>8. TextComplete'
    <3> SUFFICES ASSUME ~disk_failed', NEW r \in Rounds, heard'[r] > 0 PROVE OnRecord(r)'
      BY DEF TextComplete
    <3>1. CASE r < round
      <4>1. OnRecord(r)
        BY <1>1, <2>1, <2>4, <3>1 DEF TextOK, TextComplete
      <4> QED
        BY <1>1, <2>1, <2>4, <2>6, <4>1, OnRecordAppend
    <3>2. CASE ~(r < round)
      <4>1. r = round
        BY <1>1, <2>1, <3>2, BoundsAssumption DEF HeardOK, Rounds, TypeOK
      <4>2. 1 \in DOMAIN q /\ q[1] = AssistantMessage
        BY <2>4
      <4>3. IsText(q[1]) /\ q[1].round = r /\ q[1].text = heard[r]
        BY <2>2, <2>3, <4>1, <4>2
      <4> QED
        BY <1>1, <2>1, <2>4, <2>6, <4>2, <4>3, OnRecordAppend
    <3> QED
      BY <3>1, <3>2
  <2> QED
    BY <2>7, <2>8 DEF TextOK
<1>6. CASE ToolsFinish \/ ResumeTool
  <2>1. /\ pc \in {"tools", "yield_tool"}
        /\ UNCHANGED <<round, message_persisted, heard>>
    BY <1>6, ResultStep
  <2>2. message_persisted
    BY <1>1, <2>1 DEF PartsOK
  <2>3. PICK i \in tools_left :
          /\ ToolMessage(i) \in Message
          /\ \/ /\ history' = history \o <<ToolMessage(i)>>
                /\ disk_failed' = disk_failed
             \/ /\ \E n \in 0..1 : history' = history \o SubSeq(<<ToolMessage(i)>>, 1, n)
                /\ disk_failed' = TRUE
    BY <1>6, ResultStep
  <2>4. PICK q \in Seq(Record) :
          /\ history' = history \o q
          /\ \A k \in DOMAIN q : q[k].round = round /\ ~IsText(q[k])
    <3>1. ToolMessage(i).round = round /\ ~IsText(ToolMessage(i))
      BY DEF ToolMessage, IsText, TextKinds
    <3>2. ToolMessage(i) \in Record
      BY <2>3 DEF Record
    <3>3. PICK q \in Seq(Record) :
            history' = history \o q /\ \A k \in DOMAIN q : q[k] = ToolMessage(i)
      BY <2>3, <3>2, SingleAppend
    <3> QED
      BY <3>1, <3>3
  <2>5. TextPlaced' /\ TextUnique'
    BY <1>1, <2>1, <2>2, <2>3, <2>4, TextAppend DEF TextOK
  <2>6. TextComplete'
    <3> SUFFICES ASSUME ~disk_failed', NEW r \in Rounds, heard'[r] > 0 PROVE OnRecord(r)'
      BY DEF TextComplete
    <3>1. OnRecord(r)
      BY <1>1, <2>1, <2>2, <2>3 DEF TextOK, TextComplete
    <3> QED
      BY <1>1, <2>1, <2>3, <2>4, <3>1, OnRecordAppend
  <2> QED
    BY <2>5, <2>6 DEF TextOK
<1>7. CASE Start
  <2>1. /\ heard' = heard /\ round = 0 /\ round' \in {0, 1}
        /\ history' = <<>> \/ history' = <<Input>>
    <3>1. history' \in {<<>>, <<Input>>} => history' = <<>> \/ history' = <<Input>>
      OBVIOUS
    <3> QED
      BY <1>7, <3>1, StartStep
  <2>2. Input.round = 0 /\ ~IsText(Input)
    BY DEF Input, IsText, TextKinds
  <2>3. \A i \in DOMAIN history' : history'[i] = Input
    BY <2>1
  <2>4. TextPlaced' /\ TextUnique'
    BY <2>1, <2>2, <2>3 DEF TextPlaced, TextUnique, IsText
  <2>5. \A r \in Rounds : heard'[r] = 0
    BY <1>1, <2>1, BoundsAssumption DEF HeardOK, Rounds
  <2>6. TextComplete'
    BY <2>5 DEF TextComplete
  <2> QED
    BY <2>4, <2>6 DEF TextOK
<1>8. CASE NextRound
  <2>1. /\ pc = "yield_tool" /\ UNCHANGED <<history, heard>>
        /\ round' = round + 1
    BY <1>8, NextRoundStep
  <2>2. disk_failed' = disk_failed
    BY <1>8 DEF NextRound, store_vars
  <2>3. message_persisted
    BY <1>1, <2>1 DEF PartsOK
  <2>4. round' \in Nat /\ round' > round
    BY <1>1, <2>1
  <2>5. \A r \in Rounds :
          heard'[r] > 0 /\ (r < round' \/ message_persisted' \/ pc' = "closed") =>
            heard'[r] = heard[r] /\ (r < round \/ message_persisted \/ pc = "closed")
    BY <2>1, <2>3
  <2> QED
    BY <1>1, <2>1, <2>2, <2>4, <2>5, TextKept
<1> QED
  BY <1>2, <1>3, <1>4, <1>5, <1>6, <1>7, <1>8 DEF Next


-----------------------------------------------------------------------------
(* The conversation that is replayed.                                      *)

\* The calls of a message are finite in number, and none only if there are none.
LEMMA CallsFinite ==
  ASSUME NEW calls_of \in SUBSET Index
  PROVE  /\ IsFiniteSet(calls_of) /\ Cardinality(calls_of) \in Nat
         /\ Cardinality(calls_of) = 0 <=> calls_of = {}
<1>1. IsFiniteSet(Index)
  BY BoundsAssumption, FS_Interval DEF Index
<1>2. IsFiniteSet(calls_of)
  BY <1>1, FS_Subset
<1> QED
  BY <1>2, FS_CardinalityType, FS_EmptySet

\* A sequence of messages that is not empty is its front and its last message.
LEMMA FrontLast ==
  ASSUME NEW s \in Seq(Message), s # <<>>
  PROVE  /\ SubSeq(s, 1, Len(s) - 1) \in Seq(Message)
         /\ s = Append(SubSeq(s, 1, Len(s) - 1), s[Len(s)])
<1>1. Len(s) \in Nat \ {0} /\ s[Len(s)] \in Message
  BY EmptySeq
<1> DEFINE f == SubSeq(s, 1, Len(s) - 1)
           t == Append(f, s[Len(s)])
<1>2. /\ f \in Seq(Message) /\ Len(f) = Len(s) - 1
      /\ \A i \in 1..(Len(s) - 1) : f[i] = s[i]
  <2> DEFINE n == Len(s) - 1
  <2>1. n \in Nat /\ n \in (1 - 1)..Len(s) /\ 1 \in 1..(Len(s) + 1) /\ Len(s) = n + 1
    BY <1>1
  <2> HIDE DEF n
  <2>2. /\ SubSeq(s, 1, n) \in Seq(Message) /\ Len(SubSeq(s, 1, n)) = n
        /\ \A i \in 1..n : SubSeq(s, 1, n)[i] = s[i]
    BY <2>1, SubSeqProperties
  <2> QED
    BY <2>2 DEF n
<1> HIDE DEF f
<1>3. /\ t \in Seq(Message) /\ Len(t) = Len(s)
      /\ \A i \in 1..(Len(s) - 1) : t[i] = s[i]
      /\ t[Len(s)] = s[Len(s)]
  BY <1>1, <1>2, AppendProperties
<1> HIDE DEF t
<1>4. \A i \in 1..Len(s) : s[i] = t[i]
  BY <1>1, <1>3
<1>5. s = t
  BY <1>3, <1>4, SeqEqual
<1> QED
  BY <1>2, <1>5 DEF f, t

\* Taking the last message away leaves what it was appended to.
LEMMA FrontOfAppend ==
  ASSUME NEW q \in Seq(Message), NEW m \in Message
  PROVE  LET s == Append(q, m)
         IN  s # <<>> /\ s[Len(s)] = m /\ SubSeq(s, 1, Len(s) - 1) = q
<1> DEFINE s == Append(q, m)
           f == SubSeq(s, 1, Len(s) - 1)
<1>1. /\ s \in Seq(Message) /\ s # <<>> /\ Len(s) = Len(q) + 1 /\ Len(q) \in Nat
      /\ \A i \in 1..Len(q) : s[i] = q[i]
      /\ s[Len(q) + 1] = m
  BY AppendProperties, LenProperties
<1> HIDE DEF s
<1>2. f \in Seq(Message) /\ Len(f) = Len(q) /\ \A i \in 1..Len(q) : f[i] = q[i]
  BY <1>1, SubSeqProperties
<1> HIDE DEF f
<1>3. f = q
  BY <1>2, SeqEqual
<1> QED
  BY <1>1, <1>3 DEF s, f

\* Where the messages of two sequences are when one follows the other.
LEMMA ConcatMessages ==
  ASSUME NEW p \in Seq(Message), NEW t \in Seq(Message)
  PROVE  /\ p \o t \in Seq(Message)
         /\ Len(p \o t) = Len(p) + Len(t)
         /\ \A i \in 1..(Len(p) + Len(t)) :
              (p \o t)[i] = IF i <= Len(p) THEN p[i] ELSE t[i - Len(p)]
  BY ConcatProperties

\* A conversation, an assistant message with calls, and one result for each of
\* them in call order make a conversation (agent.py:186-206).
LEMMA ExtendConversation ==
  ASSUME NEW q \in Seq(Message), WellFormed(q),
         NEW a \in Message, a.kind = "assistant",
         NEW t \in Seq(Message), Len(t) = Cardinality(a.calls), Len(t) > 0,
         \A k \in DOMAIN t : t[k].kind = "tool",
         \A i : i \in a.calls <=> \E k \in DOMAIN t : i \in t[k].calls,
         \A k \in DOMAIN t : k > 1 => \A i \in t[k - 1].calls, j \in t[k].calls : i < j
  PROVE  WellFormed(Append(q, a) \o t)
<1> DEFINE p == Append(q, a)
           s == p \o t
<1>1. /\ Len(q) \in Nat /\ Len(t) \in Nat
      /\ DOMAIN q = 1..Len(q) /\ DOMAIN t = 1..Len(t)
      /\ p \in Seq(Message) /\ Len(p) = Len(q) + 1
      /\ \A i \in 1..Len(q) : p[i] = q[i]
      /\ p[Len(q) + 1] = a
  BY AppendProperties, LenProperties
<1> HIDE DEF p
<1>2. /\ Len(s) = Len(q) + 1 + Len(t) /\ DOMAIN s = 1..Len(s)
      /\ \A i \in 1..Len(q) : s[i] = q[i]
      /\ s[Len(q) + 1] = a
      /\ \A j \in 1..Len(t) : s[Len(q) + 1 + j] = t[j]
  <2>1. /\ s \in Seq(Message)
        /\ Len(s) = Len(q) + 1 + Len(t)
        /\ \A i \in 1..Len(s) :
             s[i] = IF i <= Len(q) + 1 THEN p[i] ELSE t[i - (Len(q) + 1)]
    <3>1. p \in Seq(Message)
      BY <1>1
    <3>2. /\ s \in Seq(Message)
          /\ Len(s) = Len(p) + Len(t)
          /\ \A i \in 1..(Len(p) + Len(t)) : s[i] = IF i <= Len(p) THEN p[i] ELSE t[i - Len(p)]
      BY <3>1, ConcatMessages, Zenon
    <3> HIDE DEF s
    <3> QED
      BY <1>1, <3>2
  <2> HIDE DEF s
  <2>2. DOMAIN s = 1..Len(s)
    BY <2>1, LenProperties
  <2>3. \A j \in 1..Len(t) : s[Len(q) + 1 + j] = t[j]
    BY <1>1, <2>1
  <2> QED
    BY <1>1, <2>1, <2>2, <2>3
<1> HIDE DEF s
<1> SUFFICES ASSUME NEW k \in DOMAIN s
             PROVE  AnsweredAt(s, k, Cardinality(s[k].calls)) \/ ResultAt(s, k)
  BY DEF p, s, WellFormed
<1>3. CASE k <= Len(q)
  <2> DEFINE n == Cardinality(q[k].calls)
  <2>1. k \in 1..Len(q) /\ s[k] = q[k] /\ q[k] \in Message
    BY <1>1, <1>2, <1>3
  <2>2. n \in Nat
    BY <2>1, CallsFinite DEF Message
  <2>3. AnsweredAt(q, k, n) \/ ResultAt(q, k)
    BY <1>1, <2>1 DEF WellFormed
  <2>4. Cardinality(s[k].calls) = n
    BY <2>1
  <2> HIDE DEF n
  <2>5. ASSUME AnsweredAt(q, k, n) PROVE AnsweredAt(s, k, n)
    <3>1. k + n <= Len(q) /\ n > 0 /\ k + n < Len(s)
      BY <1>1, <1>2, <2>1, <2>2, <2>5 DEF AnsweredAt
    <3>2. \A d \in 1..n : s[k + d] = q[k + d]
      BY <1>1, <1>2, <2>1, <2>2, <3>1
    <3>3. UNION {s[k + d].calls : d \in 1..n} = UNION {q[k + d].calls : d \in 1..n}
      BY <3>2
    <3>4. s[k + n + 1].kind = "assistant"
      <4>1. CASE k + n < Len(q)
        BY <1>1, <1>2, <2>1, <2>2, <2>5, <4>1 DEF AnsweredAt
      <4>2. CASE k + n = Len(q)
        BY <1>1, <1>2, <4>2
      <4> QED
        BY <1>1, <2>1, <2>2, <3>1, <4>1, <4>2
    <3>5. s[k].calls = UNION {s[k + d].calls : d \in 1..n}
      BY <2>1, <2>5, <3>3, Zenon DEF AnsweredAt
    <3>6. \A d \in 1..n : s[k + d].kind = "tool"
      BY <2>5, <3>2, Zenon DEF AnsweredAt
    <3>7. s[k].kind = "assistant" /\ k + n <= Len(s)
      BY <1>1, <1>2, <2>1, <2>2, <2>5, <3>1 DEF AnsweredAt
    <3> QED
      BY <3>1, <3>4, <3>5, <3>6, <3>7, Zenon DEF AnsweredAt
  <2>6. ASSUME ResultAt(q, k) PROVE ResultAt(s, k)
    <3>1. s[k - 1] = q[k - 1]
      BY <1>1, <1>2, <2>1, <2>6 DEF ResultAt
    <3> QED
      BY <2>1, <2>6, <3>1 DEF ResultAt
  <2> QED
    BY <2>3, <2>4, <2>5, <2>6
<1>4. CASE k = Len(q) + 1
  <2>1. s[k] = a /\ k + Len(t) = Len(s)
    BY <1>1, <1>2, <1>4
  <2>2. \A d \in 1..Len(t) : s[k + d] = t[d]
    BY <1>1, <1>2, <1>4
  <2>3. a.calls = UNION {s[k + d].calls : d \in 1..Len(t)}
    <3>1. UNION {s[k + d].calls : d \in 1..Len(t)} = UNION {t[d].calls : d \in 1..Len(t)}
      BY <2>2
    <3>2. a.calls = UNION {t[d].calls : d \in 1..Len(t)}
      BY <1>1
    <3> QED
      BY <3>1, <3>2
  <2>4. Len(t) = Cardinality(s[k].calls)
    BY <2>1
  <2>5. AnsweredAt(s, k, Len(t))
    <3>1. s[k].calls = UNION {s[k + d].calls : d \in 1..Len(t)} /\ s[k].kind = "assistant"
      BY <2>1, <2>3, Zenon
    <3>2. \A d \in 1..Len(t) : s[k + d].kind = "tool"
      BY <1>1, <2>2
    <3>3. Len(t) > 0 /\ k + Len(t) <= Len(s) /\ ~(k + Len(t) < Len(s))
      BY <1>1, <1>2, <2>1
    <3> QED
      BY <3>1, <3>2, <3>3, Zenon DEF AnsweredAt
  <2> QED
    BY <2>4, <2>5
<1>5. CASE k > Len(q) + 1
  <2>1. PICK d \in 1..Len(t) : k = Len(q) + 1 + d
    <3>1. k - (Len(q) + 1) \in 1..Len(t)
      BY <1>1, <1>2, <1>5
    <3> QED
      BY <1>1, <1>2, <1>5, <3>1
  <2>2. s[k] = t[d] /\ s[k].kind = "tool" /\ k > 1
    <3>1. s[Len(q) + 1 + d] = t[d]
      BY <1>2
    <3>2. t[d].kind = "tool"
      BY <1>1
    <3>3. k > 1
      BY <1>1, <2>1
    <3> QED
      BY <2>1, <3>1, <3>2, <3>3
  <2>3. CASE d = 1
    <3>1. s[k - 1] = a
      BY <1>1, <1>2, <2>1, <2>3
    <3> QED
      BY <2>2, <3>1 DEF ResultAt
  <2>4. CASE d > 1
    <3>1. s[k - 1] = t[d - 1]
      <4>1. d - 1 \in 1..Len(t) /\ k - 1 = Len(q) + 1 + (d - 1)
        BY <1>1, <2>1, <2>4
      <4> QED
        BY <1>2, <4>1
    <3> QED
      BY <1>1, <2>2, <2>4, <3>1 DEF ResultAt
  <2> QED
    BY <2>1, <2>3, <2>4
<1> QED
  BY <1>1, <1>2, <1>3, <1>4, <1>5


\* Yielding the first result that is left keeps the results one per call and in
\* call order (agent.py:203-205).
LEMMA ResultsAppend ==
  ASSUME Inv, ResultsOK, UNCHANGED <<calls, round>>, NEW i \in tools_left,
         \A j \in tools_left : i <= j,
         tool_messages' = Append(tool_messages, ToolMessage(i)),
         ToolMessage(i) \in Message, tools_left' = tools_left \ {i}
  PROVE  ResultsOK'
<1> DEFINE done == OpenSlots \ tools_left
<1>1. /\ tools_left \subseteq OpenSlots
      /\ Cardinality(done) = Len(tool_messages)
      /\ \A k \in DOMAIN tool_messages : \E c \in done : tool_messages[k] = ToolMessage(c)
      /\ \A c \in done : \E k \in DOMAIN tool_messages : tool_messages[k] = ToolMessage(c)
      /\ \A k \in DOMAIN tool_messages : k > 1 =>
           \A b \in tool_messages[k - 1].calls, c \in tool_messages[k].calls : b < c
      /\ \A c \in done, j \in tools_left : c < j
  BY DEF ResultsOK
<1>2. OpenSlots' = OpenSlots /\ (\A c : ToolMessage(c)' = ToolMessage(c))
  BY DEF OpenSlots, ToolMessage
<1>3. OpenSlots \ tools_left' = done \cup {i} /\ i \notin done
  BY <1>1
<1>4. done \in SUBSET Index /\ OpenSlots \subseteq Int
  BY DEF OpenSlots, Index
<1>5. /\ Len(tool_messages') = Len(tool_messages) + 1 /\ Len(tool_messages) \in Nat
      /\ DOMAIN tool_messages = 1..Len(tool_messages)
      /\ DOMAIN tool_messages' = 1..(Len(tool_messages) + 1)
      /\ \A k \in DOMAIN tool_messages : tool_messages'[k] = tool_messages[k]
      /\ tool_messages'[Len(tool_messages) + 1] = ToolMessage(i)
  BY AppendProperties, LenProperties DEF Inv, TypeOK
<1> HIDE DEF done
<1>6. Cardinality(done \cup {i}) = Len(tool_messages')
  <2>1. IsFiniteSet(done)
    BY <1>4, CallsFinite
  <2>2. Cardinality(done \cup {i}) = Cardinality(done) + 1
    BY <1>3, <2>1, FS_AddElement
  <2> QED
    BY <1>1, <1>5, <2>2
<1>7. \A k \in DOMAIN tool_messages' :
        \E c \in done \cup {i} : tool_messages'[k] = ToolMessage(c)
  BY <1>1, <1>5
<1>8. \A c \in done \cup {i} :
        \E k \in DOMAIN tool_messages' : tool_messages'[k] = ToolMessage(c)
  BY <1>1, <1>5
<1>9. ASSUME NEW k \in DOMAIN tool_messages', k > 1,
             NEW b \in tool_messages'[k - 1].calls, NEW c \in tool_messages'[k].calls
      PROVE  b < c
  <2>1. CASE k \in DOMAIN tool_messages
    <3>1. k - 1 \in DOMAIN tool_messages
      BY <1>5, <1>9, <2>1
    <3> QED
      BY <1>1, <1>5, <1>9, <2>1, <3>1
  <2>2. CASE k = Len(tool_messages) + 1
    <3>1. k - 1 \in DOMAIN tool_messages /\ tool_messages'[k - 1] = tool_messages[k - 1]
      <4>1. Len(tool_messages) \in Nat
        BY <1>5
      <4>2. k - 1 = Len(tool_messages)
        BY <2>2, <4>1
      <4>3. Len(tool_messages) >= 1
        BY <1>9, <2>2, <4>1
      <4> QED
        BY <1>5, <4>2, <4>3
    <3>2. PICK d \in done : tool_messages[k - 1] = ToolMessage(d)
      BY <1>1, <3>1
    <3>3. b = d /\ c = i
      BY <1>5, <1>9, <2>2, <3>1, <3>2 DEF ToolMessage
    <3> QED
      BY <1>1, <3>3
  <2> QED
    BY <1>5, <2>1, <2>2
<1>10. \A c \in done \cup {i}, j \in tools_left' : c < j
  BY <1>1, <1>4
<1>11. tools_left' \subseteq OpenSlots
  BY <1>1
<1> QED
  BY <1>2, <1>3, <1>6, <1>7, <1>8, <1>9, <1>10, <1>11 DEF ResultsOK

\* When no result is left the conversation has them all (agent.py:206).
LEMMA ResultsComplete ==
  ASSUME Inv, ConversationOK, pc = "yield_tool", tools_left = {}
  PROVE  WellFormed(turn_messages \o tool_messages)
<1> DEFINE q == SubSeq(turn_messages, 1, Len(turn_messages) - 1)
           a == AssistantMessage
<1>1. ResultsOK /\ OpenSlots # {} /\ turn_messages # <<>>
      /\ turn_messages[Len(turn_messages)] = a /\ WellFormed(q)
  BY DEF ConversationOK
<1>2. q \in Seq(Message) /\ turn_messages = Append(q, a)
  BY <1>1, FrontLast DEF Inv, TypeOK
<1>3. a \in Message /\ a.kind = "assistant" /\ a.calls = OpenSlots
  <2>1. a \in Message
    BY AssistantType DEF Inv, RoundOK
  <2> QED
    BY <2>1 DEF AssistantMessage
<1>4. OpenSlots \ tools_left = OpenSlots /\ OpenSlots \in SUBSET Index
  BY DEF OpenSlots
<1>5. Len(tool_messages) = Cardinality(a.calls) /\ Len(tool_messages) > 0
  BY <1>1, <1>3, <1>4, CallsFinite DEF ResultsOK
<1>6. \A c : ToolMessage(c).kind = "tool" /\ ToolMessage(c).calls = {c}
  BY DEF ToolMessage
<1>7. \A k \in DOMAIN tool_messages :
        tool_messages[k].kind = "tool" /\ tool_messages[k].calls \subseteq OpenSlots
  BY <1>1, <1>4, <1>6 DEF ResultsOK
<1>8. \A i \in OpenSlots : \E k \in DOMAIN tool_messages : i \in tool_messages[k].calls
  BY <1>1, <1>4, <1>6 DEF ResultsOK
<1>9. \A k \in DOMAIN tool_messages : k > 1 =>
        \A i \in tool_messages[k - 1].calls, j \in tool_messages[k].calls : i < j
  BY <1>1 DEF ResultsOK
<1>10. tool_messages \in Seq(Message)
  BY DEF Inv, TypeOK
<1> HIDE DEF q, a
<1>11. \A i : i \in a.calls <=> \E k \in DOMAIN tool_messages : i \in tool_messages[k].calls
  BY <1>3, <1>7, <1>8
<1>12. WellFormed(Append(q, a) \o tool_messages)
  BY <1>1, <1>2, <1>3, <1>5, <1>7, <1>9, <1>10, <1>11, ExtendConversation
<1> QED
  BY <1>2, <1>12

\* What is replayed is a conversation after every step.
LEMMA ConversationStep == Inv /\ RecordInv /\ [Next]_vars => ConversationOK'
<1> SUFFICES ASSUME Inv, RecordInv, [Next]_vars PROVE ConversationOK'
  OBVIOUS
<1> USE DEF Running
<1>1. ConversationOK /\ TypeOK
  BY DEF RecordInv, Inv
<1>2. ASSUME WellFormed(turn_messages'), pc' \notin {"tools", "yield_tool"}
      PROVE  ConversationOK'
  <2>1. ReplayWellFormed'
    BY <1>2, Zenon DEF ReplayWellFormed, WellFormed, AnsweredAt, ResultAt
  <2> QED
    BY <1>2, <2>1 DEF ConversationOK
<1>3. CASE pc' = "closed"
  BY <1>3 DEF ConversationOK, ReplayWellFormed
<1>4. CASE UNCHANGED vars
  <2>1. UNCHANGED <<pc, round, parts, calls, turn_messages, tool_messages, tools_left>>
    BY <1>4 DEF vars, stream_vars, message_vars
  <2>2. AssistantMessage' = AssistantMessage /\ OpenSlots' = OpenSlots
        /\ \A c : ToolMessage(c)' = ToolMessage(c)
    BY <2>1 DEF AssistantMessage, OpenSlots, ToolMessage
  <2>3. ResultsOK => ResultsOK'
    BY <2>1, <2>2 DEF ResultsOK
  <2>4. ReplayWellFormed'
    BY <1>1, <2>1 DEF ConversationOK, ReplayWellFormed
  <2> QED
    BY <1>1, <2>1, <2>2, <2>3, <2>4 DEF ConversationOK
<1>5. CASE /\ \/ ProviderAnswers \/ ReceiveChunk \/ StreamBreaks \/ StreamEnds \/ ResumeDelta
              \/ StreamClosed \/ Cancel \/ Close
           /\ pc' # "closed"
  <2>1. /\ Running /\ pc \notin {"tools", "yield_tool"}
        /\ pc' \notin {"tools", "yield_tool"} /\ turn_messages' = turn_messages
    BY <1>5 DEF ProviderAnswers, ReceiveChunk, StreamBreaks, StreamEnds, ResumeDelta,
         StreamClosed, YieldAssistant, FailProvider, FailWith, PersistInterrupt, EndTurn,
         ApplyFragment, CloseStream, Cancel, Close, message_vars
  <2>2. WellFormed(turn_messages)
    BY <1>1, <2>1 DEF ConversationOK
  <2> QED
    BY <1>2, <2>1, <2>2
<1>6. CASE ResumeAssistant /\ pc' # "closed"
  <2>1. /\ pc = "yield_assistant" /\ pc' = "tools" /\ OpenSlots # {}
        /\ turn_messages' = Append(turn_messages, AssistantMessage)
        /\ tool_messages' = <<>> /\ tools_left' = OpenSlots /\ UNCHANGED <<round, parts, calls>>
    BY <1>6 DEF ResumeAssistant, EndTurn, stream_vars
  <2>2. AssistantMessage \in Message
    BY <2>1, AssistantType DEF Inv, RoundOK
  <2>3. WellFormed(turn_messages)
    BY <1>1, <2>1 DEF ConversationOK
  <2>4. /\ turn_messages' # <<>>
        /\ turn_messages'[Len(turn_messages')] = AssistantMessage
        /\ SubSeq(turn_messages', 1, Len(turn_messages') - 1) = turn_messages
    BY <1>1, <2>1, <2>2, FrontOfAppend DEF TypeOK
  <2>5. OpenSlots' = OpenSlots /\ AssistantMessage' = AssistantMessage
    BY <2>1 DEF OpenSlots, AssistantMessage
  <2>6. OpenSlots \ OpenSlots = {} /\ Cardinality({}) = 0 /\ Len(<<>>) = 0 /\ DOMAIN <<>> = {}
    BY FS_EmptySet
  <2>7. ResultsOK'
    BY <2>1, <2>5, <2>6 DEF ResultsOK
  <2> QED
    BY <2>1, <2>3, <2>4, <2>5, <2>7 DEF ConversationOK, ReplayWellFormed
<1>7. CASE (ToolsFinish \/ ResumeTool) /\ pc' # "closed"
  <2>1. /\ pc \in {"tools", "yield_tool"}
        /\ UNCHANGED <<round, parts, turn_messages, calls>>
    BY <1>7, ResultStep
  <2>2. PICK i \in tools_left :
          /\ \A j \in tools_left : i <= j
          /\ ToolMessage(i) \in Message
          /\ tool_messages' = Append(tool_messages, ToolMessage(i))
          /\ tools_left' = tools_left \ {i}
          /\ pc' = "yield_tool"
    BY <1>7, ResultStep
  <2>3. OpenSlots' = OpenSlots /\ AssistantMessage' = AssistantMessage
    BY <2>1 DEF OpenSlots, AssistantMessage
  <2>4. /\ ResultsOK /\ OpenSlots # {} /\ turn_messages # <<>>
        /\ turn_messages[Len(turn_messages)] = AssistantMessage
        /\ WellFormed(SubSeq(turn_messages, 1, Len(turn_messages) - 1))
    BY <1>1, <2>1 DEF ConversationOK
  <2>5. ResultsOK'
    BY <2>1, <2>2, <2>4, ResultsAppend
  <2> QED
    BY <2>1, <2>2, <2>3, <2>4, <2>5 DEF ConversationOK, ReplayWellFormed
<1>8. CASE Start /\ pc' # "closed"
  <2>1. pc' = "provider" /\ turn_messages' = <<>>
    BY <1>8, StartStep
  <2>2. DOMAIN turn_messages' = {}
    BY <2>1
  <2> QED
    BY <1>2, <2>1, <2>2 DEF WellFormed
<1>9. CASE NextRound /\ pc' # "closed"
  <2>1. /\ pc = "yield_tool" /\ tools_left = {} /\ pc' = "provider"
        /\ turn_messages' = turn_messages \o tool_messages
    BY <1>9, NextRoundStep
  <2> QED
    BY <1>1, <1>2, <2>1, ResultsComplete
<1>10. CASE RejectInput \/ ProviderFails \/ StreamCloseFails \/ ToolsFail \/ Ended
  BY <1>3, <1>10, Ending
<1> QED
  BY <1>3, <1>4, <1>5, <1>6, <1>7, <1>8, <1>9, <1>10 DEF Next

\* Nothing is on record or replayed before the generator first runs.
LEMMA InitRecordInv == Init => RecordInv
<1> SUFFICES ASSUME Init PROVE RecordInv
  OBVIOUS
<1>1. DOMAIN history = {} /\ DOMAIN delivered = {} /\ DOMAIN turn_messages = {}
  BY DEF Init
<1>2. ShownOK /\ PartsOK
  BY <1>1 DEF Init, ShownOK, PartsOK, PersistedBeforeShown, Running
<1>3. TextOK
  BY <1>1 DEF Init, TextOK, TextPlaced, TextUnique, TextComplete
<1>4. OutcomeRecorded
  BY DEF Init, OutcomeRecorded
<1>5. ConversationOK
  BY DEF Init, ConversationOK, ReplayWellFormed, Running
<1> QED
  BY <1>2, <1>3, <1>4, <1>5 DEF RecordInv

\* The second invariant, on top of the first.
THEOREM RecordInvariance == Spec => []RecordInv
<1>1. Inv /\ RecordInv /\ [Next]_vars => RecordInv'
  BY ShownStep, PartsStep, TextStep, OutcomeStep, ConversationStep DEF RecordInv
<1> QED
  BY InitRecordInv, Invariance, <1>1, PTL DEF Spec

\* Whatever the disk does, the consumer is shown a message only after it is in
\* the history, in order and with nothing between (agent.py:180-182, 204-205).
THEOREM ShownIsRecorded == Spec => []PersistedBeforeShown
<1>1. RecordInv => PersistedBeforeShown
  BY DEF RecordInv, ShownOK
<1> QED
  BY <1>1, RecordInvariance, PTL

\* The text of a pass is recorded once, and none the consumer heard is missing
\* when the turn has ended on a working disk (agent.py:36-56 and 99-104).
THEOREM TextOnRecord == Spec => []TextRecordedOnce
<1>1. Inv /\ RecordInv => TextRecordedOnce
  <2> SUFFICES ASSUME Inv, RecordInv PROVE TextRecordedOnce
    OBVIOUS
  <2>1. TextUnique /\ TextComplete /\ (outcome # "open" => pc = "closed")
    BY DEF RecordInv, TextOK, Inv, InterruptOK
  <2> QED
    BY <2>1 DEF TextUnique, TextComplete, OnRecord, IsText, TextRecordedOnce
<1> QED
  BY <1>1, Invariance, RecordInvariance, PTL

\* On a working disk the history says how the turn ended (agent.py:32-56, 180-185
\* and 207-212).
THEOREM EndIsRecorded == Spec => []OutcomeRecorded
<1>1. RecordInv => OutcomeRecorded
  BY DEF RecordInv
<1> QED
  BY <1>1, RecordInvariance, PTL

\* The provider is asked to continue a conversation in which each call has its
\* result, in call order, before the next message (agent.py:186-206).
THEOREM ReplayIsConversation == Spec => []ReplayWellFormed
<1>1. RecordInv => ReplayWellFormed
  BY DEF RecordInv, ConversationOK
<1> QED
  BY <1>1, RecordInvariance, PTL

\* The records a failure or an interrupt leaves are of those kinds.
LEMMA EndKinds ==
  ASSUME TypeOK, NEW kind \in {"error", "interrupt"},
         NEW n \in 0..Len(EndRecords(kind)),
         history' = history \o SubSeq(EndRecords(kind), 1, n),
         NEW k \in DOMAIN history', k > Len(history)
  PROVE  history'[k].kind \in {"partial", "error", "interrupt"}
<1> DEFINE records == EndRecords(kind)
<1>1. /\ records \in Seq(Record)
      /\ \A i \in 1..Len(records) : records[i].kind \in {"partial", "error", "interrupt"}
  <2>1. PartialText.kind = "partial" /\ Marker(kind).kind = kind
    BY DEF PartialText, Marker
  <2>2. CASE parts > 0 /\ ~message_persisted
    BY <2>1, <2>2, EndRecordsShape
  <2>3. CASE ~(parts > 0 /\ ~message_persisted)
    BY <2>1, <2>3, EndRecordsShape
  <2> QED
    BY <2>2, <2>3
<1> HIDE DEF records
<1>2. history \in Seq(Record)
  BY DEF TypeOK
<1>3. /\ k - Len(history) \in 1..Len(records)
      /\ history'[k] = records[k - Len(history)]
  BY <1>1, <1>2 DEF records
<1> QED
  BY <1>1, <1>3

\* An interrupt stops the turn at once: nothing more is shown, asked or run, and
\* it never ends as completed (agent.py:131-182 and 207-212).
THEOREM InterruptStops == Spec => InterruptEndsTurn
<1> DEFINE Stops ==
      /\ pc' \in {"closing", "closed"}
      /\ UNCHANGED <<delivered, heard, turn_messages>>
      /\ outcome' # "completed"
      /\ \A k \in DOMAIN history' :
           k > Len(history) => history'[k].kind \in {"partial", "error", "interrupt"}
<1>1. Inv /\ RecordInv /\ [Next]_vars => (interrupted => Stops)
  <2> SUFFICES ASSUME Inv, RecordInv, [Next]_vars, interrupted PROVE Stops
    OBVIOUS
  <2>1. TypeOK /\ history \in Seq(Record)
    BY DEF Inv, TypeOK
  <2>2. ASSUME UNCHANGED vars PROVE Stops
    BY <2>1, <2>2 DEF Inv, InterruptOK, vars, store_vars, consumer_vars, message_vars
  <2>3. CASE pc = "closed"
    <3>1. UNCHANGED vars
      BY <2>3 DEF Next, RejectInput, Start, ProviderFails, ProviderAnswers, ReceiveChunk,
         StreamBreaks, StreamEnds, ResumeDelta, StreamClosed, StreamCloseFails,
         ResumeAssistant, ToolsFail, ToolsFinish, ResumeTool, NextRound, Cancel, Close, Ended
    <3> QED
      BY <2>2, <3>1
  <2>4. CASE pc = "closing"
    <3>1. cause = "interrupted"
      BY <2>4 DEF Inv, InterruptOK
    <3>2. StreamClosed \/ StreamCloseFails \/ (Cancel /\ PersistInterrupt) \/ UNCHANGED vars
      BY <2>4 DEF Next, RejectInput, Start, ProviderFails, ProviderAnswers, ReceiveChunk,
         StreamBreaks, StreamEnds, ResumeDelta, ResumeAssistant, ToolsFail, ToolsFinish,
         ResumeTool, NextRound, Cancel, Close, Ended
    <3>3. ASSUME StreamClosed \/ StreamCloseFails \/ (Cancel /\ PersistInterrupt) PROVE Stops
      <4>1. PICK kind \in {"error", "interrupt"} : Ends(kind)
        BY <3>1, <3>3, EndingSteps
      <4>2. turn_messages' = turn_messages
        BY <3>3 DEF StreamClosed, StreamCloseFails, Cancel, message_vars
      <4>3. pc' = "closed" /\ outcome' # "completed" /\ UNCHANGED <<delivered, heard>>
        BY <4>1 DEF Ends
      <4>4. \A k \in DOMAIN history' :
              k > Len(history) => history'[k].kind \in {"partial", "error", "interrupt"}
        BY <2>1, <4>1, EndKinds DEF Ends
      <4> QED
        BY <4>2, <4>3, <4>4
    <3> QED
      BY <2>2, <3>2, <3>3
  <2> QED
    BY <2>3, <2>4 DEF Inv, InterruptOK
<1>2. Inv /\ RecordInv /\ [Next]_vars => [interrupted => Stops]_vars
  BY <1>1
<1> QED
  BY <1>2, Invariance, RecordInvariance, PTL DEF Spec, InterruptEndsTurn
=============================================================================
