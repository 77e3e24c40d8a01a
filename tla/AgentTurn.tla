------------------------------ MODULE AgentTurn ------------------------------
(***************************************************************************)
(* One user turn of the kernel: the async generator agent_turn of          *)
(* kernel/amnesia_agent_kernel/agent.py, seen between two points at which  *)
(* it can be suspended.  It is suspended either at an await, where its     *)
(* task can be cancelled, or at a yield, where its consumer can resume it  *)
(* or close it.  Each action runs the generator from one such point to the *)
(* next and makes every history append on the way.                         *)
(*                                                                         *)
(* Text is counted in deltas, not spelled out; a tool call is its index in *)
(* the provider's stream; the provider, the disk and the consumer are      *)
(* nondeterministic.                                                       *)
(***************************************************************************)
EXTENDS Naturals, Sequences, FiniteSets

CONSTANTS
  MaxRounds,   \* bound on the provider requests of one turn
  MaxChunks,   \* bound on the text deltas of one provider response
  MaxCalls     \* bound on the tool calls of one provider response

ASSUME BoundsAssumption ==
  /\ MaxRounds \in Nat \ {0}
  /\ MaxChunks \in Nat
  /\ MaxCalls \in Nat

VARIABLES
  pc,                 \* the await or yield the generator is suspended at
  round,              \* passes through the `while True` loop, 0 before the first
  parts,              \* text deltas accumulated in this pass
  message_persisted,  \* this pass's assistant message is in the history
  calls,              \* slot fields seen so far, for each streamed tool call index
  fragment,           \* tool-call part of the chunk whose text was just yielded
  cause,              \* why the response stream is being closed
  turn_messages,      \* this turn's messages, replayed to the provider each pass
  tool_messages,      \* tool results of this pass yielded so far
  tools_left,         \* calls of this pass whose result is not yet yielded
  history,            \* records this turn wrote to the day's file
  disk_failed,        \* some append_history of this turn raised WorkspaceError
  interrupted,        \* the consumer has cancelled or closed the running turn
  delivered,          \* complete messages the consumer has received
  heard,              \* text deltas the consumer has received, for each pass
  outcome             \* how the generator ended, "open" until it does

stream_vars == <<calls, fragment, cause>>
message_vars == <<turn_messages, tool_messages, tools_left>>
store_vars == <<history, disk_failed>>
consumer_vars == <<delivered, heard>>
vars == <<pc, round, parts, message_persisted, stream_vars, message_vars,
          store_vars, interrupted, consumer_vars, outcome>>

Rounds == 1..MaxRounds
Index == 1..MaxCalls

\* A slot of the `calls` dict by the fields it has received: {} is a slot that
\* does not exist, {"slot"} one opened by a fragment with no ID and no name.
SlotField == {"slot", "id", "name"}

NoCall == [kind |-> "none", index |-> 0, fields |-> {}]
Malformed == [kind |-> "malformed", index |-> 0, fields |-> {}]
CallFragment ==
  [kind: {"call"}, index: Index, fields: {{"slot"} \cup f : f \in SUBSET {"id", "name"}}]
Fragment == {NoCall, Malformed} \cup CallFragment

-----------------------------------------------------------------------------
(* Records of the daily history, and what the provider is sent.            *)

Message == [kind: {"assistant", "tool"}, round: Rounds,
            text: 0..MaxChunks, calls: SUBSET Index]
Record == Message \cup
          [kind: {"input", "partial", "error", "interrupt"}, round: 0..MaxRounds,
           text: 0..MaxChunks, calls: {{}}]

Input == [kind |-> "input", round |-> 0, text |-> 0, calls |-> {}]
\* Mutant: the marker is filed under the pass that would come next.
MarkerOfNextRound(kind) == [kind |-> kind, round |-> round + 1, text |-> 0, calls |-> {}]
Marker(kind) == [kind |-> kind, round |-> round, text |-> 0, calls |-> {}]
PartialText == [kind |-> "partial", round |-> round, text |-> parts, calls |-> {}]

\* assistant_message: the slots that exist become the message's tool calls.
OpenSlots == {i \in Index : calls[i] # {}}
AssistantMessage ==
  [kind |-> "assistant", round |-> round, text |-> parts, calls |-> OpenSlots]
ToolMessage(i) == [kind |-> "tool", round |-> round, text |-> 0, calls |-> {i}]

\* It raises ProviderError for a slot without an ID or without a name.
SlotsComplete == \A i \in OpenSlots : calls[i] = SlotField

-----------------------------------------------------------------------------
(* Steps the actions share.                                                *)

\* workspace.append_history of each record in turn.
AppendAll(records) ==
  /\ history' = history \o records
  /\ UNCHANGED disk_failed

\* One of those appends raises WorkspaceError and the later ones are not made.
\* The failing record may have reached the file: fsync comes after the write.
AppendFails(records) ==
  /\ \E n \in 0..Len(records) : history' = history \o SubSeq(records, 1, n)
  /\ disk_failed' = TRUE

EndTurn(how) == pc' = "closed" /\ outcome' = how

\* Append the records of a failure, then raise it; a WorkspaceError met on the
\* way replaces it.
FailWith(records, how) ==
  \/ AppendAll(records) /\ EndTurn(how)
  \/ AppendFails(records) /\ EndTurn("workspace")

PartialIf(condition) == IF condition THEN <<PartialText>> ELSE <<>>

\* _persist_provider_failure: the text so far, then the error, then raise.
FailProvider == FailWith(PartialIf(parts > 0) \o <<Marker("error")>>, "provider")

\* Mutant: the handler persists the partial text and leaves the marker out.
PersistInterruptUnmarked ==
  /\ LET records == PartialIf(parts > 0 /\ ~message_persisted)
     IN  AppendAll(records) \/ AppendFails(records)
  /\ EndTurn("cancelled")

\* The handler of CancelledError and GeneratorExit: a WorkspaceError is only
\* logged and the cancellation is raised again.
PersistInterrupt ==
  /\ LET records == PartialIf(parts > 0 /\ ~message_persisted) \o <<Marker("interrupt")>>
     IN  AppendAll(records) \/ AppendFails(records)
  /\ EndTurn("cancelled")

\* Mutant: `parts = []` is missing at the head of the loop.
BeginRoundKeepingParts ==
  /\ round' = round + 1
  /\ parts' = parts
  /\ message_persisted' = FALSE
  /\ \/ pc' = "provider" /\ UNCHANGED outcome
     \/ EndTurn("workspace")

\* The head of the loop up to `await acompletion`: an unreadable prompt or
\* memory file raises WorkspaceError, which no handler records.
BeginRound ==
  /\ round' = round + 1
  /\ parts' = 0
  /\ message_persisted' = FALSE
  /\ \/ pc' = "provider" /\ UNCHANGED outcome
     \/ EndTurn("workspace")

CloseStream(why) == pc' = "closing" /\ cause' = why

-----------------------------------------------------------------------------
Init ==
  /\ pc = "unstarted"
  /\ round = 0
  /\ parts = 0
  /\ message_persisted = FALSE
  /\ calls = [i \in Index |-> {}]
  /\ fragment = NoCall
  /\ cause = "none"
  /\ turn_messages = <<>>
  /\ tool_messages = <<>>
  /\ tools_left = {}
  /\ history = <<>>
  /\ disk_failed = FALSE
  /\ interrupted = FALSE
  /\ delivered = <<>>
  /\ heard = [r \in Rounds |-> 0]
  /\ outcome = "open"

\* The first __anext__ with an input that fails validation: ConfigError.
RejectInput ==
  /\ pc = "unstarted"
  /\ EndTurn("config")
  /\ UNCHANGED <<round, parts, message_persisted, stream_vars, message_vars,
                 store_vars, interrupted, consumer_vars>>

\* The first __anext__: the input is recorded before the try block opens.
Start ==
  /\ pc = "unstarted"
  /\ \/ AppendAll(<<Input>>) /\ BeginRound
     \/ /\ AppendFails(<<Input>>) /\ EndTurn("workspace")
        /\ UNCHANGED <<round, parts, message_persisted>>
  /\ UNCHANGED <<stream_vars, message_vars, interrupted, consumer_vars>>

\* acompletion raises.
ProviderFails ==
  /\ pc = "provider"
  /\ FailWith(<<Marker("error")>>, "provider")
  /\ UNCHANGED <<round, parts, message_persisted, stream_vars, message_vars,
                 interrupted, consumer_vars>>

\* acompletion returns a stream; the slots start empty.
ProviderAnswers ==
  /\ pc = "provider"
  /\ pc' = "stream"
  /\ calls' = [i \in Index |-> {}]
  /\ UNCHANGED <<round, parts, message_persisted, fragment, cause, message_vars,
                 store_vars, interrupted, consumer_vars, outcome>>

\* The rest of the loop body over one chunk: a malformed tool call raises
\* ProviderError inside the `async with`, anything else waits for more.
ApplyFragment(f) ==
  /\ IF f.kind = "call"
       THEN calls' = [calls EXCEPT ![f.index] = @ \cup f.fields]
       ELSE UNCHANGED calls
  /\ fragment' = NoCall
  /\ IF f.kind = "malformed"
       THEN CloseStream("failed")
       ELSE pc' = "stream" /\ UNCHANGED cause

\* A chunk with text is yielded before its tool-call part is looked at.  The
\* last pass the bound allows calls no tool, so that the turn fits in it.
ReceiveChunk ==
  /\ pc = "stream"
  /\ \E f \in Fragment :
       /\ f.kind = "call" => round < MaxRounds
       /\ \/ ApplyFragment(f) /\ UNCHANGED <<parts, heard>>
          \/ /\ parts < MaxChunks
             /\ parts' = parts + 1
             /\ heard' = [heard EXCEPT ![round] = @ + 1]
             /\ fragment' = f
             /\ pc' = "yield_delta"
             /\ UNCHANGED <<calls, cause>>
  /\ UNCHANGED <<round, message_persisted, message_vars, store_vars, interrupted,
                 delivered, outcome>>

\* The stream raises, or a chunk has no choices, no delta or non-text content.
StreamBreaks ==
  /\ pc = "stream"
  /\ CloseStream("failed")
  /\ UNCHANGED <<round, parts, message_persisted, calls, fragment, message_vars,
                 store_vars, interrupted, consumer_vars, outcome>>

\* The stream is exhausted; assistant_message accepts its slots or raises.
StreamEnds ==
  /\ pc = "stream"
  /\ CloseStream(IF SlotsComplete THEN "complete" ELSE "failed")
  /\ UNCHANGED <<round, parts, message_persisted, calls, fragment, message_vars,
                 store_vars, interrupted, consumer_vars, outcome>>

\* The consumer asks for the next event after a delta.
ResumeDelta ==
  /\ pc = "yield_delta"
  /\ ApplyFragment(fragment)
  /\ UNCHANGED <<round, parts, message_persisted, message_vars, store_vars,
                 interrupted, consumer_vars, outcome>>

\* Mutant: the assistant message is yielded before it is appended.
YieldAssistantFirst ==
  /\ delivered' = Append(delivered, AssistantMessage)
  /\ \/ AppendAll(<<AssistantMessage>>) /\ message_persisted' = TRUE
        /\ pc' = "yield_assistant" /\ UNCHANGED outcome
     \/ AppendFails(<<AssistantMessage>>) /\ EndTurn("workspace")
        /\ UNCHANGED message_persisted

\* The assistant message is appended and only then yielded; an append that
\* fails here is not recorded by any handler.
YieldAssistant ==
  \/ /\ AppendAll(<<AssistantMessage>>)
     /\ message_persisted' = TRUE
     /\ delivered' = Append(delivered, AssistantMessage)
     /\ pc' = "yield_assistant"
     /\ UNCHANGED outcome
  \/ /\ AppendFails(<<AssistantMessage>>)
     /\ EndTurn("workspace")
     /\ UNCHANGED <<message_persisted, delivered>>

\* Mutant: leaving the `async with` swallows the interrupt.
StreamClosedSwallowing ==
  /\ pc = "closing"
  /\ \/ cause # "failed" /\ YieldAssistant
     \/ /\ cause = "failed" /\ FailProvider
        /\ UNCHANGED <<message_persisted, delivered>>
  /\ UNCHANGED <<round, parts, stream_vars, message_vars, interrupted, heard>>

\* response.aclose() returns, on the way out of the `async with`.
StreamClosed ==
  /\ pc = "closing"
  /\ \/ cause = "complete" /\ YieldAssistant
     \/ /\ cause = "failed" /\ FailProvider
        /\ UNCHANGED <<message_persisted, delivered>>
     \/ /\ cause = "interrupted" /\ PersistInterrupt
        /\ UNCHANGED <<message_persisted, delivered>>
  /\ UNCHANGED <<round, parts, stream_vars, message_vars, interrupted, heard>>

\* response.aclose() raises: whatever it interrupted, a cancellation included,
\* becomes a provider failure.
StreamCloseFails ==
  /\ pc = "closing"
  /\ FailProvider
  /\ UNCHANGED <<round, parts, message_persisted, stream_vars, message_vars,
                 interrupted, consumer_vars>>

\* The consumer asks for the next event after the assistant message.
ResumeAssistant ==
  /\ pc = "yield_assistant"
  /\ \/ /\ OpenSlots = {}
        /\ EndTurn("completed")
        /\ UNCHANGED message_vars
     \/ /\ OpenSlots # {}
        /\ pc' = "tools"
        /\ turn_messages' = Append(turn_messages, AssistantMessage)
        /\ tool_messages' = <<>>
        /\ tools_left' = OpenSlots
        /\ UNCHANGED outcome
  /\ UNCHANGED <<round, parts, message_persisted, stream_vars, store_vars,
                 interrupted, consumer_vars>>

\* execute_tool_calls raises ToolError.
ToolsFail ==
  /\ pc = "tools"
  /\ FailWith(<<Marker("error")>>, "tool")
  /\ UNCHANGED <<round, parts, message_persisted, stream_vars, message_vars,
                 interrupted, consumer_vars>>

\* Mutant: results are yielded as commands finish, not in call order.
YieldToolMessageUnordered ==
  \E i \in tools_left :
    /\ AppendAll(<<ToolMessage(i)>>)
    /\ delivered' = Append(delivered, ToolMessage(i))
    /\ tool_messages' = Append(tool_messages, ToolMessage(i))
    /\ tools_left' = tools_left \ {i}
    /\ pc' = "yield_tool"
    /\ UNCHANGED outcome

\* The next tool result in call order is appended, then yielded.
YieldToolMessage ==
  \E i \in tools_left :
    /\ \A j \in tools_left : i <= j
    /\ \/ /\ AppendAll(<<ToolMessage(i)>>)
          /\ delivered' = Append(delivered, ToolMessage(i))
          /\ tool_messages' = Append(tool_messages, ToolMessage(i))
          /\ tools_left' = tools_left \ {i}
          /\ pc' = "yield_tool"
          /\ UNCHANGED outcome
       \/ /\ AppendFails(<<ToolMessage(i)>>)
          /\ EndTurn("workspace")
          /\ UNCHANGED <<delivered, tool_messages, tools_left>>

\* execute_tool_calls returns: every command has run, the results are ordered.
ToolsFinish ==
  /\ pc = "tools"
  /\ YieldToolMessage
  /\ UNCHANGED <<round, parts, message_persisted, stream_vars, turn_messages,
                 interrupted, heard>>

\* The consumer asks for the next event after a tool result that is not the last.
ResumeTool ==
  /\ pc = "yield_tool"
  /\ YieldToolMessage
  /\ UNCHANGED <<round, parts, message_persisted, stream_vars, turn_messages,
                 interrupted, heard>>

\* Mutant: the results never join the turn's messages.
NextRoundForgettingResults ==
  /\ pc = "yield_tool"
  /\ tools_left = {}
  /\ BeginRound
  /\ UNCHANGED <<stream_vars, message_vars, store_vars, interrupted, consumer_vars>>

\* The consumer asks for the next event after the last tool result: the
\* results join the turn's messages and the loop starts over.
NextRound ==
  /\ pc = "yield_tool"
  /\ tools_left = {}
  /\ turn_messages' = turn_messages \o tool_messages
  /\ BeginRound
  /\ UNCHANGED <<stream_vars, tool_messages, tools_left, store_vars, interrupted,
                 consumer_vars>>

\* The consumer's task is cancelled at an await.  While the stream is being
\* read, the `async with` closes it first; while it is being closed, or before
\* and after it exists, the handler runs at once.
Cancel ==
  /\ \/ /\ pc = "stream"
        /\ CloseStream("interrupted")
        /\ UNCHANGED <<store_vars, outcome>>
     \/ /\ pc \in {"provider", "closing", "tools"}
        /\ PersistInterrupt
        /\ UNCHANGED cause
  /\ interrupted' = TRUE
  /\ UNCHANGED <<round, parts, message_persisted, calls, fragment, message_vars,
                 consumer_vars>>

\* The consumer closes the generator at a yield, or before it ever ran, in
\* which case nothing in it executes.
Close ==
  /\ \/ /\ pc = "unstarted"
        /\ EndTurn("unrun")
        /\ UNCHANGED <<store_vars, cause>>
     \/ /\ pc = "yield_delta"
        /\ CloseStream("interrupted")
        /\ UNCHANGED <<store_vars, outcome>>
     \/ /\ pc \in {"yield_assistant", "yield_tool"}
        /\ PersistInterrupt
        /\ UNCHANGED cause
  /\ interrupted' = (pc # "unstarted")
  /\ UNCHANGED <<round, parts, message_persisted, calls, fragment, message_vars,
                 consumer_vars>>

\* The generator has ended; its caller may hold on to it for ever.
Ended == pc = "closed" /\ UNCHANGED vars

Next ==
  \/ RejectInput \/ Start
  \/ ProviderFails \/ ProviderAnswers
  \/ ReceiveChunk \/ StreamBreaks \/ StreamEnds \/ ResumeDelta
  \/ StreamClosed \/ StreamCloseFails \/ ResumeAssistant
  \/ ToolsFail \/ ToolsFinish \/ ResumeTool \/ NextRound
  \/ Cancel \/ Close \/ Ended

Spec == Init /\ [][Next]_vars
-----------------------------------------------------------------------------
(* Properties.                                                             *)

\* Every variable ranges over the values the code can give it.
TypeOK ==
  /\ pc \in {"unstarted", "provider", "stream", "yield_delta", "closing",
             "yield_assistant", "tools", "yield_tool", "closed"}
  /\ round \in 0..MaxRounds
  /\ parts \in 0..MaxChunks
  /\ message_persisted \in BOOLEAN
  /\ calls \in [Index -> SUBSET SlotField]
  /\ fragment \in Fragment
  /\ cause \in {"none", "complete", "failed", "interrupted"}
  /\ turn_messages \in Seq(Message)
  /\ tool_messages \in Seq(Message)
  /\ tools_left \in SUBSET Index
  /\ history \in Seq(Record)
  /\ disk_failed \in BOOLEAN
  /\ interrupted \in BOOLEAN
  /\ delivered \in Seq(Message)
  /\ heard \in [Rounds -> 0..MaxChunks]
  /\ outcome \in {"open", "completed", "config", "workspace", "provider", "tool",
                  "cancelled", "unrun"}

TextKinds == {"assistant", "partial"}

\* Whatever the disk does, a complete message reaches the consumer only after
\* it is in the history, in the same order and with nothing between two of them:
\* the consumer never acts on a message that a restart would not find
\* (agent.py:180-182 and 204-205).
PersistedBeforeShown ==
  \A k \in DOMAIN delivered :
    k + 1 \in DOMAIN history /\ history[k + 1] = delivered[k]

\* The text of a pass is recorded at most once, as the full message or as the
\* partial text of a failure or interrupt; and when the turn has ended on a
\* working disk, all the text the consumer saw is on record, however the turn
\* ended (the parts/message_persisted bookkeeping, agent.py:36-56 and 99-104).
TextRecordedOnce ==
  /\ \A i, j \in DOMAIN history :
       /\ history[i].kind \in TextKinds
       /\ history[j].kind \in TextKinds
       /\ history[i].round = history[j].round
       => i = j
  /\ outcome # "open" /\ ~disk_failed =>
       \A r \in Rounds : heard[r] > 0 =>
         \E i \in DOMAIN history :
           /\ history[i].kind \in TextKinds
           /\ history[i].round = r
           /\ history[i].text = heard[r]

\* What the provider is asked to continue from is exactly what the history
\* recorded of this turn: nothing replayed that was not persisted, nothing
\* persisted that is not replayed (turn_messages against append_history).
ReplayMatchesHistory ==
  pc \in {"provider", "stream", "yield_delta"} => history = <<Input>> \o turn_messages

\* The replayed messages are a conversation a provider accepts: each assistant
\* message has tool calls, and is followed by one result for each of them, in
\* call order, before the next assistant message (agent.py:186-206).
ReplayWellFormed ==
  pc = "provider" =>
    \A k \in DOMAIN turn_messages :
      LET m == turn_messages[k]
          n == Cardinality(m.calls)
      IN  \/ /\ m.kind = "assistant"
             /\ n > 0
             /\ k + n <= Len(turn_messages)
             /\ \A d \in 1..n : turn_messages[k + d].kind = "tool"
             /\ m.calls = UNION {turn_messages[k + d].calls : d \in 1..n}
             /\ k + n < Len(turn_messages) =>
                  turn_messages[k + n + 1].kind = "assistant"
          \/ /\ m.kind = "tool"
             /\ k > 1
             /\ turn_messages[k - 1].kind = "tool" =>
                  \A i \in turn_messages[k - 1].calls, j \in m.calls : i < j

\* On a working disk the last record says how the turn ended: a whole
\* conversation with an answer that calls no tool when it completed, the error
\* or the interrupt marker when it did not, and nothing at all when it never
\* got to run (agent.py:32-56, 180-185 and 207-212).
OutcomeRecorded ==
  ~disk_failed =>
    LET last == history[Len(history)]
    IN  /\ outcome = "completed" =>
             /\ history = Append(<<Input>> \o turn_messages, last)
             /\ last = [AssistantMessage EXCEPT !.calls = {}]
        /\ outcome = "cancelled" => Len(history) > 1 /\ last.kind = "interrupt"
        /\ outcome \in {"provider", "tool"} => Len(history) > 1 /\ last.kind = "error"
        /\ outcome \in {"config", "unrun"} => history = <<>>
        /\ outcome = "workspace" => history = <<Input>> \o turn_messages

\* An interrupt stops the turn at once, in every phase and whatever fails on the
\* way out: the consumer is shown nothing more, the provider is asked nothing and
\* no command is run; all that is still recorded is the text so far and how the
\* turn ended, and that is never as completed (agent.py:131-182 and 207-212).
InterruptEndsTurn ==
  [][interrupted =>
       /\ pc' \in {"closing", "closed"}
       /\ UNCHANGED <<delivered, heard, turn_messages>>
       /\ outcome' # "completed"
       /\ \A k \in DOMAIN history' :
            k > Len(history) => history'[k].kind \in {"partial", "error", "interrupt"}]_vars
=============================================================================
