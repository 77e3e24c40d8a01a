----------------------------- MODULE ShellTool -----------------------------
(***************************************************************************)
(* One shell command of a turn: run_shell and what it is made of in        *)
(* kernel/amnesia_agent_kernel/tools.py, against the process group it      *)
(* starts.  run_shell reads two bounded pipes with two tasks, and stops    *)
(* when they are exhausted, when the output exceeds its limit, when the    *)
(* timer fires, or when its own task is cancelled.  The group is the shell *)
(* and, as `others`, whatever it started, which may outlive it and hold    *)
(* its pipes.  Bytes are counted in units.                                 *)
(*                                                                         *)
(* asyncio's Process is external: `returncode` is set when the loop reaps  *)
(* the shell; Process.wait() returns at once when it is set, and otherwise *)
(* when the shell is reaped or, before Python 3.12.4, only after both      *)
(* pipes are at their end as well.  The POSIX branch is modelled.          *)
(***************************************************************************)
EXTENDS Naturals, FiniteSets

CONSTANTS
  Limit,         \* max_output_bytes
  PipeCapacity,  \* what a pipe and its StreamReader hold before a writer blocks
  Buffer,        \* what a StreamReader takes from the pipe when nobody reads it
  MaxOutput      \* bound on what one process group writes

ASSUME LimitsAssumption ==
  /\ Limit \in Nat \ {0}
  /\ PipeCapacity \in Nat \ {0}
  /\ Buffer \in 0..PipeCapacity
  /\ MaxOutput \in Nat

Streams == {"stdout", "stderr"}

VARIABLES
  leader,      \* the shell: its returncode is set when it is "reaped"
  others,      \* the other processes of its group
  held,        \* the pipes they have open
  written,     \* what the group has written to each pipe
  unread,      \* what of it run_shell has not read
  pc,          \* the await run_shell is suspended at
  reader,      \* the _read_output task of each pipe
  kept,        \* what the collector keeps of each stream
  overflowed,  \* the collector refused a byte
  why,         \* why the collection was stopped
  kill,        \* what _signal_process_group did
  result       \* how run_shell ended

group_vars == <<leader, others, held, written>>
output_vars == <<reader, kept, overflowed>>
vars == <<group_vars, unread, pc, output_vars, why, kill, result>>

Total(f) == f["stdout"] + f["stderr"]
Min2(a, b) == IF a <= b THEN a ELSE b

\* Somebody can still write to the pipe.
HeldOpen(s) == leader = "running" \/ (others = "running" /\ s \in held)
GroupGone == leader # "running" /\ others # "running"

Init ==
  /\ leader = "unborn"
  /\ others = "none"
  /\ held = {}
  /\ written = [s \in Streams |-> 0]
  /\ unread = [s \in Streams |-> 0]
  /\ pc = "start"
  /\ reader = [s \in Streams |-> "off"]
  /\ kept = [s \in Streams |-> 0]
  /\ overflowed = FALSE
  /\ why = "none"
  /\ kill = "none"
  /\ result = "none"

-----------------------------------------------------------------------------
(* The process group.                                                      *)

Write(s) ==
  /\ HeldOpen(s)
  /\ unread[s] < PipeCapacity
  /\ Total(written) < MaxOutput
  /\ written' = [written EXCEPT ![s] = @ + 1]
  /\ unread' = [unread EXCEPT ![s] = @ + 1]
  /\ UNCHANGED <<leader, others, held, pc, output_vars, why, kill, result>>

\* The shell starts another process, with the pipes its redirections leave it.
Fork ==
  /\ leader = "running"
  /\ others = "none"
  /\ others' = "running"
  /\ \E pipes \in SUBSET Streams : held' = pipes
  /\ UNCHANGED <<leader, written, unread, pc, output_vars, why, kill, result>>

LeaderExits ==
  /\ leader = "running"
  /\ leader' = "exited"
  /\ UNCHANGED <<others, held, written, unread, pc, output_vars, why, kill, result>>

OthersExit ==
  /\ others = "running"
  /\ others' = "gone"
  /\ UNCHANGED <<leader, held, written, unread, pc, output_vars, why, kill, result>>

\* The event loop's child watcher sets returncode.
Reap ==
  /\ leader = "exited"
  /\ leader' = "reaped"
  /\ UNCHANGED <<others, held, written, unread, pc, output_vars, why, kill, result>>

-----------------------------------------------------------------------------
(* Starting, reading.                                                      *)

End(how) == pc' = "done" /\ result' = how

\* create_subprocess_shell forks the shell and connects its pipes.
Spawn ==
  /\ pc = "start"
  /\ pc' = "connecting"
  /\ leader' = "running"
  /\ UNCHANGED <<others, held, written, unread, output_vars, why, kill, result>>

\* The arguments are refused or the shell cannot be started: ToolError.
SpawnFails ==
  /\ pc = "start"
  /\ End("error")
  /\ UNCHANGED <<group_vars, unread, output_vars, why, kill>>

\* _collect_output starts a reader for each pipe and a waiter.
Connected ==
  /\ pc = "connecting"
  /\ pc' = "collect"
  /\ reader' = [s \in Streams |-> "reading"]
  /\ UNCHANGED <<group_vars, unread, kept, overflowed, why, kill, result>>

\* Mutant: a chunk that straddles the limit is kept whole.
AddWhole(s, n) ==
  /\ kept' = [kept EXCEPT ![s] = IF Total(kept) < Limit THEN @ + n ELSE @]
  /\ overflowed' = (overflowed \/ Total(kept) + n > Limit)

\* _OutputCollector.add: a prefix of the chunk fills what remains of the limit.
Add(s, n) ==
  /\ kept' = [kept EXCEPT ![s] = @ + Min2(n, Limit - Total(kept))]
  /\ overflowed' = (overflowed \/ n > Limit - Total(kept))

\* stream.read returns some of what is there.
ReadChunk(s) ==
  /\ reader[s] = "reading"
  /\ \E n \in 1..unread[s] :
       /\ unread' = [unread EXCEPT ![s] = @ - n]
       /\ Add(s, n)
       /\ reader' = [reader EXCEPT ![s] = IF overflowed' THEN "full" ELSE @]
  /\ UNCHANGED <<group_vars, pc, why, kill, result>>

ReadEnd(s) ==
  /\ reader[s] = "reading"
  /\ unread[s] = 0
  /\ leader # "unborn" /\ ~HeldOpen(s)
  /\ reader' = [reader EXCEPT ![s] = "eof"]
  /\ UNCHANGED <<group_vars, unread, pc, kept, overflowed, why, kill, result>>

ReadersOff == reader' = [s \in Streams |-> IF reader[s] = "reading" THEN "off" ELSE reader[s]]

\* Mutant: collection ends with the shell, not with the last pipe.
CollectedOnExit ==
  /\ pc = "collect"
  /\ leader = "reaped"
  /\ \A s \in Streams : reader[s] # "full"
  /\ pc' = "draining"
  /\ ReadersOff
  /\ UNCHANGED <<group_vars, unread, kept, overflowed, why, kill, result>>

\* Both readers met the end of their pipe and the waiter returned.
Collected ==
  /\ pc = "collect"
  /\ \A s \in Streams : reader[s] = "eof"
  /\ leader = "reaped"
  /\ pc' = "draining"
  /\ UNCHANGED <<group_vars, unread, output_vars, why, kill, result>>

-----------------------------------------------------------------------------
(* Stopping the group.                                                     *)

\* Mutant: only the shell is killed, as by Process.kill.
SignalGroupLeaderOnly ==
  /\ kill' = IF leader = "reaped" THEN "skipped" ELSE "sent"
  /\ leader' = IF leader = "running" THEN "exited" ELSE leader
  /\ UNCHANGED others

\* _signal_process_group: nothing once returncode is set, otherwise SIGKILL to
\* the whole group, which the system may refuse (ToolError).
SignalGroup ==
  IF leader = "reaped"
    THEN kill' = "skipped" /\ UNCHANGED <<leader, others>>
    ELSE \/ /\ kill' = "sent"
            /\ leader' = "exited"
            /\ others' = IF others = "running" THEN "gone" ELSE others
         \/ kill' = "refused" /\ UNCHANGED <<leader, others>>

\* A reader reports overflow: signal the group, cancel the other tasks and
\* await them.  A refused signal is raised as the command's error.
Overflow ==
  /\ pc = "collect"
  /\ \E s \in Streams : reader[s] = "full"
  /\ why' = "overflow"
  /\ SignalGroup
  /\ IF kill' = "refused" THEN End("error") ELSE pc' = "unwinding" /\ UNCHANGED result
  /\ ReadersOff
  /\ UNCHANGED <<held, written, unread, kept, overflowed>>

\* The cancelled tasks are over and _collect_output returns.
Unwound ==
  /\ pc = "unwinding"
  /\ pc' = "draining"
  /\ UNCHANGED <<group_vars, unread, output_vars, why, kill, result>>

\* _terminate_process in the handler of CancelledError; the readers go on
\* while it waits.  If the signal is refused, ToolError takes the place of the
\* timeout, and from Python 3.12 of the cancellation too.
Timeout ==
  /\ pc \in {"collect", "unwinding"}
  /\ why' = "timeout"
  /\ SignalGroup
  /\ IF kill' = "refused"
       THEN End("error") /\ ReadersOff
       ELSE pc' = "stopping" /\ UNCHANGED <<result, reader>>
  /\ UNCHANGED <<held, written, unread, kept, overflowed>>

CancelCollection ==
  /\ pc \in {"collect", "unwinding"}
  /\ why' = "cancel"
  /\ SignalGroup
  /\ IF kill' = "refused"
       THEN ReadersOff /\ \E how \in {"cancelled", "error"} : End(how)
       ELSE pc' = "stopping" /\ UNCHANGED <<result, reader>>
  /\ UNCHANGED <<held, written, unread, kept, overflowed>>

\* A reader raises: its siblings are cancelled, then run_shell terminates.
ReadingFails ==
  /\ pc = "collect"
  /\ why' = "error"
  /\ SignalGroup
  /\ IF kill' = "refused" THEN End("error") ELSE pc' = "stopping" /\ UNCHANGED result
  /\ ReadersOff
  /\ UNCHANGED <<held, written, unread, kept, overflowed>>

\* Mutant: the timeout branch reports without having waited for the shell.
WaitReturnsEarly ==
  /\ pc = "stopping"
  /\ IF why = "timeout" THEN End("timed_out") ELSE End("cancelled")
  /\ ReadersOff
  /\ UNCHANGED <<group_vars, unread, kept, overflowed, why, kill>>

\* proc.wait() returns and the handler re-raises.  After a timeout run_shell
\* terminates once more, to no effect, and drains the pipes.
WaitReturns ==
  /\ pc = "stopping"
  /\ leader = "reaped"
  /\ \/ why = "timeout" /\ pc' = "draining" /\ UNCHANGED result
     \/ why = "cancel" /\ End("cancelled")
     \/ why = "error" /\ End("error")
  /\ ReadersOff
  /\ UNCHANGED <<group_vars, unread, kept, overflowed, why, kill>>

\* A cancellation at any other await.  While the pipes are being connected,
\* asyncio kills the shell alone.
CancelElsewhere ==
  /\ pc \in {"start", "connecting", "stopping", "draining"}
  /\ why' = "cancel"
  /\ End("cancelled")
  /\ IF pc = "connecting" /\ leader = "running"
       THEN leader' = "exited"
       ELSE UNCHANGED leader
  /\ ReadersOff
  /\ UNCHANGED <<others, held, written, unread, kept, overflowed, kill>>

-----------------------------------------------------------------------------
(* _close_pipes and the result.                                            *)

\* Mutant: only stdout is read to its end.
DrainStdout(s) ==
  /\ pc = "draining"
  /\ s = "stdout"
  /\ unread[s] > 0
  /\ unread' = [unread EXCEPT ![s] = 0]
  /\ UNCHANGED <<group_vars, pc, output_vars, why, kill, result>>

\* communicate() reads what is left, without a limit, and discards it.
Drain(s) ==
  /\ pc = "draining"
  /\ unread[s] > 0
  /\ unread' = [unread EXCEPT ![s] = 0]
  /\ UNCHANGED <<group_vars, pc, output_vars, why, kill, result>>

\* _format_output.
FormatOutput ==
  End(IF why = "timeout" THEN "timed_out" ELSE IF overflowed THEN "truncated" ELSE "text")

\* communicate() ends when both pipes are at their end and the shell is reaped;
\* an error of its own is only logged.
PipesClosed ==
  /\ pc = "draining"
  /\ \A s \in Streams : unread[s] = 0 /\ ~HeldOpen(s)
  /\ leader = "reaped"
  /\ FormatOutput
  /\ UNCHANGED <<group_vars, unread, output_vars, why, kill>>

CloseFails ==
  /\ pc = "draining"
  /\ FormatOutput
  /\ UNCHANGED <<group_vars, unread, output_vars, why, kill>>

\* run_shell is over, whatever its group goes on doing.
Returned == pc = "done" /\ UNCHANGED vars

Group == Fork \/ LeaderExits \/ OthersExit \/ Reap \/ \E s \in Streams : Write(s)
Collect == Connected \/ Collected \/ \E s \in Streams : ReadChunk(s) \/ ReadEnd(s)
Stop ==
  \/ Overflow \/ Unwound \/ Timeout \/ CancelCollection \/ ReadingFails
  \/ WaitReturns \/ CancelElsewhere
Close == PipesClosed \/ CloseFails \/ \E s \in Streams : Drain(s)

Next == Spawn \/ SpawnFails \/ Group \/ Collect \/ Stop \/ Close \/ Returned

Spec == Init /\ [][Next]_vars

\* A StreamReader has the end of its pipe without anybody reading it.
AtEnd(s) == ~HeldOpen(s) /\ unread[s] <= Buffer

\* The event loop reaps the shell and runs the tasks that are ready.  Waiting
\* for the shell is over at the latest once both pipes are at their end.  The
\* group, the timer and the canceller owe nothing.
Fairness ==
  /\ WF_vars(Reap)
  /\ WF_vars(Connected)
  /\ WF_vars(Collected)
  /\ WF_vars(Overflow)
  /\ WF_vars(Unwound)
  /\ WF_vars(WaitReturns /\ (kill = "skipped" \/ \A s \in Streams : AtEnd(s)))
  /\ WF_vars(PipesClosed)
  /\ \A s \in Streams : WF_vars(ReadChunk(s)) /\ WF_vars(ReadEnd(s)) /\ WF_vars(Drain(s))

FairSpec == Spec /\ Fairness
-----------------------------------------------------------------------------
(* Properties.                                                             *)

\* Every variable ranges over the values the code can give it.
TypeOK ==
  /\ leader \in {"unborn", "running", "exited", "reaped"}
  /\ others \in {"none", "running", "gone"}
  /\ held \in SUBSET Streams
  /\ written \in [Streams -> 0..MaxOutput]
  /\ unread \in [Streams -> 0..PipeCapacity]
  /\ pc \in {"start", "connecting", "collect", "unwinding", "stopping", "draining", "done"}
  /\ reader \in [Streams -> {"reading", "eof", "full", "off"}]
  /\ kept \in [Streams -> 0..Limit]
  /\ overflowed \in BOOLEAN
  /\ why \in {"none", "timeout", "cancel", "overflow", "error"}
  /\ kill \in {"none", "sent", "skipped", "refused"}
  /\ result \in {"none", "text", "timed_out", "truncated", "error", "cancelled"}

\* The model is told the truth about a command's output: text without a
\* remark is everything the group wrote, a background process included; the
\* remark about truncation comes with exactly the limit's worth; and the two
\* streams together never exceed it (tools.py:102-113 and 187-195).
OutputAccounted ==
  /\ Total(kept) <= Limit
  /\ result = "text" => kept = written
  /\ result = "truncated" => Total(kept) = Limit /\ Total(written) > Limit

\* However run_shell ends, the shell itself is not left running, and neither
\* is anything it started if the signal reached the group; only a signal the
\* system refuses excuses it (tools.py:56-88, 155, 162, 240 and 249).
ShellNeverOutlivesCall ==
  pc = "done" /\ kill # "refused" =>
    /\ leader # "running"
    /\ kill = "sent" => others # "running"

\* A result that speaks of a finished command is given only when the shell has
\* an exit status to report (tools.py:189 and 195).
StatusKnown ==
  result \in {"text", "timed_out"} => leader = "reaped"

\* Once its processes are gone the call returns, whatever it was doing: reading,
\* being stopped or draining.  The one wait that may last is for the exit of a
\* shell with more output in a pipe than a StreamReader takes by itself, when the
\* reader of that pipe was over before the stop (tools.py:127-165 and 174-179).
PipeUnread ==
  /\ pc = "stopping"
  /\ kill = "sent"
  /\ \E s \in Streams : reader[s] \in {"full", "off"} /\ unread[s] > Buffer
ReturnsOnceGroupGone == (pc # "start" /\ GroupGone) ~> (pc = "done" \/ PipeUnread)

-----------------------------------------------------------------------------
(* What the documentation says, and the code does not do.                  *)

\* "The process group is terminated on timeout, output overflow, or cancel
\* during tool execution" (kernel/README.md:101-102), unless the system refuses.
ProcessGroupTerminated ==
  pc = "done" /\ why \in {"timeout", "overflow", "cancel"} /\ kill \in {"sent", "skipped"} =>
    others # "running"
=============================================================================
