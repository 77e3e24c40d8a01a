--------------------------- MODULE ShellTool_proofs ---------------------------
(***************************************************************************)
(* The safety properties of ShellTool, for any limit, any pipes and any    *)
(* amount of output.                                                       *)
(*                                                                         *)
(* What run_shell reports is decided well after the facts it speaks of:    *)
(* the invariant carries them from the reader that met the end of its pipe *)
(* or the limit, and from the signal, to the return.                       *)
(***************************************************************************)
EXTENDS ShellTool, TLAPS

-----------------------------------------------------------------------------
(* The inductive invariant.                                                *)

\* The shell's life: not before it is spawned, and over once it was signalled or
\* waited for.
LeaderOK ==
  /\ pc = "start" => leader = "unborn" /\ kill = "none"
  /\ leader = "unborn" => others = "none" /\ pc \in {"start", "done"}
  /\ kill = "sent" => leader \in {"exited", "reaped"} /\ others # "running"
  /\ kill = "skipped" => leader = "reaped"
  /\ kill = "refused" => pc = "done"
  /\ pc \in {"unwinding", "stopping"} => kill \in {"sent", "skipped"}
  /\ pc = "draining" => leader \in {"exited", "reaped"}
  /\ pc = "done" /\ kill # "refused" => leader # "running"

\* What the readers know of their pipes.
ReaderOK ==
  /\ \A s \in Streams :
       /\ reader[s] = "reading" => pc \in {"collect", "stopping"}
       /\ reader[s] = "eof" => leader \in {"exited", "reaped"} /\ ~HeldOpen(s) /\ unread[s] = 0
       /\ pc \in {"start", "connecting"} => reader[s] = "off"
  /\ overflowed <=> \E s \in Streams : reader[s] = "full"

\* Every unit that was written is kept, unread or was dropped at the limit; after
\* that, what is drained is dropped too.
CountOK ==
  /\ \A s \in Streams :
       /\ kept[s] + unread[s] <= written[s]
       /\ ~overflowed /\ pc \notin {"draining", "done"} => kept[s] + unread[s] = written[s]
  /\ Total(kept) <= Limit
  /\ overflowed => Total(kept) = Limit /\ Total(written) > Limit
  /\ Total(written) <= MaxOutput

\* Why run_shell stopped collecting, until it returns.
Complete == \A s \in Streams : ~HeldOpen(s) /\ kept[s] = written[s]
WhyOK ==
  /\ pc \in {"start", "connecting", "collect"} => why = "none"
  /\ pc = "unwinding" => why = "overflow" /\ overflowed
  /\ pc = "stopping" => why \in {"timeout", "cancel", "error"}
  /\ pc = "draining" =>
       \/ why = "overflow" /\ overflowed
       \/ why \in {"none", "timeout"} /\ leader = "reaped"
  /\ pc = "draining" /\ why = "none" => Complete
  /\ why = "overflow" => overflowed

ResultOK ==
  /\ result # "none" => pc = "done"
  /\ result = "text" => Complete
  /\ result = "truncated" => overflowed
  /\ result \in {"text", "timed_out"} => leader = "reaped"

IInv == TypeOK /\ LeaderOK /\ ReaderOK /\ CountOK /\ WhyOK /\ ResultOK

-----------------------------------------------------------------------------
(* The steps the actions share.                                            *)

\* Both streams, one by one.
LEMMA TwoStreams ==
  /\ "stdout" \in Streams /\ "stderr" \in Streams
  /\ \A s \in Streams : s = "stdout" \/ s = "stderr"
  BY DEF Streams

\* What is counted is a number of units, and either stream is part of the total.
LEMMA TotalType ==
  ASSUME NEW f \in [Streams -> Nat]
  PROVE  Total(f) \in Nat /\ \A s \in Streams : f[s] \in Nat /\ f[s] <= Total(f)
  BY TwoStreams DEF Total

\* Adding units to one stream adds them to the total.
LEMMA TotalAdd ==
  ASSUME NEW f \in [Streams -> Nat], NEW s \in Streams, NEW n \in Nat
  PROVE  Total([f EXCEPT ![s] = @ + n]) = Total(f) + n
<1>1. CASE s = "stdout"
  BY <1>1, TwoStreams DEF Total
<1>2. CASE s = "stderr"
  BY <1>2, TwoStreams DEF Total
<1> QED
  BY <1>1, <1>2, TwoStreams

\* More in either stream is more in total.
LEMMA TotalMonotone ==
  ASSUME NEW f \in [Streams -> Nat], NEW g \in [Streams -> Nat],
         \A s \in Streams : f[s] <= g[s]
  PROVE  Total(f) <= Total(g)
  BY TwoStreams DEF Total

\* _signal_process_group (tools.py:56-61): the shell is over unless the system refuses.
LEMMA Signalled ==
  ASSUME TypeOK, LeaderOK, SignalGroup, leader # "unborn"
  PROVE  /\ kill' \in {"sent", "skipped", "refused"}
         /\ leader' \in {"running", "exited", "reaped"}
         /\ others' \in {others, "gone"}
         /\ leader' = leader \/ (leader # "reaped" /\ leader' = "exited")
         /\ others' = others \/ others' = "gone"
         /\ kill' = "sent" => leader' \in {"exited", "reaped"} /\ others' # "running"
         /\ kill' = "skipped" => leader' = "reaped"
  BY DEF SignalGroup, TypeOK

\* The readers that are still reading are cancelled.
LEMMA Off ==
  ASSUME TypeOK, ReadersOff
  PROVE  /\ reader' \in [Streams -> {"reading", "eof", "full", "off"}]
         /\ \A s \in Streams :
              /\ reader'[s] # "reading"
              /\ reader'[s] = "full" <=> reader[s] = "full"
              /\ reader'[s] = "eof" <=> reader[s] = "eof"
  BY DEF ReadersOff, TypeOK

-----------------------------------------------------------------------------
(* Types.                                                                  *)

\* _OutputCollector.add (tools.py:98-113): never more than the limit, and exactly the limit
\* once it refused a unit.
LEMMA AddType ==
  ASSUME TypeOK, Total(kept) <= Limit, NEW s \in Streams, NEW n \in Nat, Add(s, n)
  PROVE  /\ kept' \in [Streams -> 0..Limit] /\ overflowed' \in BOOLEAN
         /\ Total(kept') <= Limit
         /\ \A t \in Streams \ {s} : kept'[t] = kept[t]
         /\ kept'[s] <= kept[s] + n
         /\ n <= Limit - Total(kept) => kept'[s] = kept[s] + n
         /\ n > Limit - Total(kept) => Total(kept') = Limit
<1> DEFINE m == Min2(n, Limit - Total(kept))
<1>1. kept \in [Streams -> Nat] /\ Limit \in Nat
  BY LimitsAssumption DEF TypeOK
<1>2. Total(kept) \in Nat
  BY <1>1, TotalType
<1>3. m \in Nat /\ m <= n /\ m <= Limit - Total(kept)
      /\ (n <= Limit - Total(kept) => m = n) /\ (n > Limit - Total(kept) => m = Limit - Total(kept))
  BY <1>1, <1>2 DEF Min2
<1>4. kept' = [kept EXCEPT ![s] = @ + m]
  BY DEF Add
<1>5. Total(kept') = Total(kept) + m
  BY <1>1, <1>3, <1>4, TotalAdd
<1>6. kept' \in [Streams -> Nat]
  BY <1>1, <1>3, <1>4
<1>7. \A t \in Streams : kept'[t] \in Nat /\ kept'[t] <= Limit
  BY <1>1, <1>2, <1>3, <1>5, <1>6, TotalType
<1>8. kept' \in [Streams -> 0..Limit]
  BY <1>1, <1>6, <1>7
<1>9. overflowed' \in BOOLEAN
  BY DEF Add, TypeOK
<1> QED
  BY <1>1, <1>2, <1>3, <1>4, <1>5, <1>8, <1>9

\* A pipe holds what is in it, and the group writes no more than the bound.
LEMMA WriteType ==
  ASSUME TypeOK, CountOK, NEW s \in Streams, Write(s)
  PROVE  /\ written' \in [Streams -> 0..MaxOutput] /\ unread' \in [Streams -> 0..PipeCapacity]
         /\ Total(written') = Total(written) + 1 /\ Total(written') <= MaxOutput
<1>1. written \in [Streams -> Nat] /\ PipeCapacity \in Nat /\ MaxOutput \in Nat
  BY LimitsAssumption DEF TypeOK
<1>2. Total(written) \in Nat
  BY <1>1, TotalType
<1>3. written' = [written EXCEPT ![s] = @ + 1] /\ Total(written) < MaxOutput
  BY DEF Write
<1>4. Total(written') = Total(written) + 1
  BY <1>1, <1>3, TotalAdd
<1>5. written' \in [Streams -> Nat]
  BY <1>1, <1>3
<1>6. \A t \in Streams : written'[t] \in Nat /\ written'[t] <= MaxOutput
  BY <1>1, <1>2, <1>3, <1>4, <1>5, TotalType
<1>7. written' \in [Streams -> 0..MaxOutput]
  BY <1>1, <1>3, <1>6
<1>8. unread' \in [Streams -> 0..PipeCapacity]
  BY <1>1 DEF Write, TypeOK
<1> QED
  BY <1>1, <1>2, <1>3, <1>4, <1>7, <1>8

\* No step takes a variable out of its type.
LEMMA TypeStep == TypeOK /\ LeaderOK /\ CountOK /\ [Next]_vars => TypeOK'
<1> SUFFICES ASSUME TypeOK, LeaderOK, CountOK, [Next]_vars PROVE TypeOK'
  OBVIOUS
<1> USE DEF group_vars, output_vars
<1>1. CASE Spawn \/ SpawnFails
  BY <1>1 DEF Spawn, SpawnFails, End, TypeOK
<1>2. CASE Fork \/ LeaderExits \/ OthersExit \/ Reap
  BY <1>2 DEF Fork, LeaderExits, OthersExit, Reap, TypeOK
<1>3. ASSUME NEW s \in Streams, Write(s) PROVE TypeOK'
  <2>1. written' \in [Streams -> 0..MaxOutput] /\ unread' \in [Streams -> 0..PipeCapacity]
    BY <1>3, WriteType
  <2> QED
    BY <1>3, <2>1 DEF Write, TypeOK
<1>4. CASE Connected \/ Collected
  BY <1>4 DEF Connected, Collected, TypeOK
<1>5. ASSUME NEW s \in Streams, ReadChunk(s) PROVE TypeOK'
  <2>1. PICK n \in 1..unread[s] :
          /\ unread' = [unread EXCEPT ![s] = @ - n]
          /\ Add(s, n)
          /\ reader' = [reader EXCEPT ![s] = IF overflowed' THEN "full" ELSE @]
    BY <1>5 DEF ReadChunk
  <2>2. n \in Nat /\ unread[s] \in 0..PipeCapacity
    BY DEF TypeOK
  <2>3. kept' \in [Streams -> 0..Limit] /\ overflowed' \in BOOLEAN
    BY <2>1, <2>2, AddType DEF CountOK
  <2>4. unread' \in [Streams -> 0..PipeCapacity]
    BY <2>1, <2>2, LimitsAssumption DEF TypeOK
  <2>5. reader' \in [Streams -> {"reading", "eof", "full", "off"}]
    BY <2>1 DEF TypeOK
  <2> QED
    BY <1>5, <2>3, <2>4, <2>5 DEF ReadChunk, TypeOK
<1>6. ASSUME NEW s \in Streams, ReadEnd(s) PROVE TypeOK'
  BY <1>6 DEF ReadEnd, TypeOK
<1>7. CASE Overflow \/ Timeout \/ CancelCollection \/ ReadingFails
  <2>1. SignalGroup /\ leader # "unborn"
    BY <1>7 DEF Overflow, Timeout, CancelCollection, ReadingFails, LeaderOK
  <2>2. /\ kill' \in {"none", "sent", "skipped", "refused"}
        /\ leader' \in {"unborn", "running", "exited", "reaped"}
        /\ others' \in {"none", "running", "gone"}
    BY <2>1, Signalled DEF TypeOK
  <2>3. reader' \in [Streams -> {"reading", "eof", "full", "off"}]
    BY <1>7, Off DEF Overflow, Timeout, CancelCollection, ReadingFails, TypeOK
  <2>4. /\ pc' \in {"done", "unwinding", "stopping"}
        /\ result' \in {result, "error", "cancelled"}
        /\ why' \in {"overflow", "timeout", "cancel", "error"}
        /\ UNCHANGED <<held, written, unread, kept, overflowed>>
    BY <1>7 DEF Overflow, Timeout, CancelCollection, ReadingFails, End
  <2> QED
    BY <2>2, <2>3, <2>4 DEF TypeOK
<1>8. CASE Unwound
  BY <1>8 DEF Unwound, TypeOK
<1>9. CASE WaitReturns \/ CancelElsewhere
  BY <1>9, Off DEF WaitReturns, CancelElsewhere, End, TypeOK
<1>10. ASSUME NEW s \in Streams, Drain(s) PROVE TypeOK'
  BY <1>10, LimitsAssumption DEF Drain, TypeOK
<1>11. CASE PipesClosed \/ CloseFails
  BY <1>11 DEF PipesClosed, CloseFails, FormatOutput, End, TypeOK
<1>12. CASE Returned \/ UNCHANGED vars
  BY <1>12 DEF Returned, vars, TypeOK
<1> QED
  BY <1>1, <1>2, <1>3, <1>4, <1>5, <1>6, <1>7, <1>8, <1>9, <1>10, <1>11, <1>12
     DEF Next, Group, Collect, Stop, Close

-----------------------------------------------------------------------------
(* The shell, the readers, the counts.                                     *)

\* What a step that stops the collection does (tools.py:73-88, 143-155, 236-250).
LEMMA Stopping ==
  ASSUME TypeOK, LeaderOK, Overflow \/ Timeout \/ CancelCollection \/ ReadingFails
  PROVE  /\ SignalGroup /\ leader # "unborn"
         /\ pc \in {"collect", "unwinding"}
         /\ \/ kill' = "refused" /\ pc' = "done" /\ result' \in {"error", "cancelled"} /\ ReadersOff
            \/ /\ kill' # "refused" /\ result' = result
               /\ \/ pc' = "unwinding" /\ why' = "overflow" /\ ReadersOff
                     /\ \E s \in Streams : reader[s] = "full"
                  \/ pc' = "stopping" /\ why' \in {"timeout", "cancel", "error"}
                     /\ (ReadersOff \/ UNCHANGED reader)
         /\ why' = "overflow" => \E s \in Streams : reader[s] = "full"
         /\ UNCHANGED <<held, written, unread, kept, overflowed>>
  BY DEF Overflow, Timeout, CancelCollection, ReadingFails, LeaderOK, End

\* A pipe nobody holds open stays so: the shell does not come back, nor does it start
\* anything once it is over.
LEMMA StaysClosed ==
  ASSUME TypeOK, LeaderOK, [Next]_vars, leader \in {"exited", "reaped"}
  PROVE  /\ leader' \in {"exited", "reaped"}
         /\ leader = "reaped" => leader' = "reaped"
         /\ others' = "running" => others = "running" /\ held' = held
         /\ \A s \in Streams : ~HeldOpen(s) => ~HeldOpen(s)' /\ written'[s] = written[s]
<1> USE DEF group_vars, output_vars
<1>1. CASE Spawn \/ SpawnFails \/ Fork \/ LeaderExits
  BY <1>1 DEF Spawn, SpawnFails, Fork, LeaderExits, LeaderOK, HeldOpen
<1>2. CASE OthersExit \/ Reap
  BY <1>2 DEF OthersExit, Reap, HeldOpen
<1>3. ASSUME NEW s \in Streams, Write(s)
      PROVE  UNCHANGED <<leader, others, held>> /\ \A t \in Streams : ~HeldOpen(t) => written'[t] = written[t]
  BY <1>3 DEF Write, TypeOK
<1>4. ASSUME NEW s \in Streams, ReadChunk(s) \/ ReadEnd(s) \/ Drain(s)
      PROVE  UNCHANGED <<leader, others, held, written>>
  BY <1>4 DEF ReadChunk, ReadEnd, Drain
<1>5. CASE Overflow \/ Timeout \/ CancelCollection \/ ReadingFails
  <2>1. SignalGroup /\ leader # "unborn" /\ UNCHANGED <<held, written>>
    BY <1>5, Stopping
  <2>2. /\ leader' = leader \/ (leader # "reaped" /\ leader' = "exited")
        /\ others' = others \/ others' = "gone"
    BY <2>1, Signalled
  <2> QED
    BY <2>1, <2>2 DEF HeldOpen
<1>6. CASE Connected \/ Collected \/ Unwound \/ WaitReturns \/ PipesClosed \/ CloseFails \/ Returned
           \/ UNCHANGED vars
  BY <1>6 DEF Connected, Collected, Unwound, WaitReturns, PipesClosed, CloseFails, Returned, vars,
     HeldOpen
<1>7. CASE CancelElsewhere
  BY <1>7 DEF CancelElsewhere, HeldOpen
<1> QED
  BY <1>1, <1>2, <1>3, <1>4, <1>5, <1>6, <1>7 DEF Next, Group, Collect, Stop, Close, HeldOpen

\* Every step keeps what is known of the shell.
LEMMA LeaderStep == TypeOK /\ LeaderOK /\ [Next]_vars => LeaderOK'
<1> SUFFICES ASSUME TypeOK, LeaderOK, [Next]_vars PROVE LeaderOK'
  OBVIOUS
<1> USE DEF group_vars, output_vars, LeaderOK, TypeOK
<1>1. CASE Spawn \/ SpawnFails
  BY <1>1 DEF Spawn, SpawnFails, End
<1>2. CASE Fork \/ LeaderExits \/ OthersExit \/ Reap
  BY <1>2 DEF Fork, LeaderExits, OthersExit, Reap
<1>3. ASSUME NEW s \in Streams, Write(s) \/ ReadChunk(s) \/ ReadEnd(s) \/ Drain(s)
      PROVE  UNCHANGED <<leader, others, pc, kill>>
  BY <1>3 DEF Write, ReadChunk, ReadEnd, Drain
<1>4. CASE Connected \/ Collected \/ Unwound \/ Returned \/ UNCHANGED vars
  BY <1>4 DEF Connected, Collected, Unwound, Returned, vars
<1>5. CASE Overflow \/ Timeout \/ CancelCollection \/ ReadingFails
  <2>1. /\ SignalGroup /\ leader # "unborn"
        /\ \/ kill' = "refused" /\ pc' = "done"
           \/ kill' # "refused" /\ pc' \in {"unwinding", "stopping"}
    BY <1>5, Stopping
  <2>2. /\ kill' \in {"sent", "skipped", "refused"}
        /\ leader' \in {"running", "exited", "reaped"}
        /\ kill' = "sent" => leader' \in {"exited", "reaped"} /\ others' # "running"
        /\ kill' = "skipped" => leader' = "reaped"
    BY <2>1, Signalled
  <2> QED
    BY <2>1, <2>2
<1>6. CASE WaitReturns \/ CancelElsewhere
  BY <1>6 DEF WaitReturns, CancelElsewhere, End
<1>7. CASE PipesClosed \/ CloseFails
  BY <1>7 DEF PipesClosed, CloseFails, FormatOutput, End
<1> QED
  BY <1>1, <1>2, <1>3, <1>4, <1>5, <1>6, <1>7 DEF Next, Group, Collect, Stop, Close

\* Every step keeps what is known of the readers.
LEMMA ReaderStep == TypeOK /\ LeaderOK /\ ReaderOK /\ CountOK /\ [Next]_vars => ReaderOK'
<1> SUFFICES ASSUME TypeOK, LeaderOK, ReaderOK, CountOK, [Next]_vars PROVE ReaderOK'
  OBVIOUS
<1> USE DEF group_vars, output_vars
<1>1. \A s \in Streams : reader[s] = "eof" =>
        leader' \in {"exited", "reaped"} /\ ~HeldOpen(s)'
  BY StaysClosed DEF ReaderOK
<1>2. CASE Spawn \/ SpawnFails \/ Fork \/ LeaderExits \/ OthersExit \/ Reap
  BY <1>1, <1>2 DEF Spawn, SpawnFails, Fork, LeaderExits, OthersExit, Reap, End, ReaderOK
<1>3. ASSUME NEW s \in Streams, Write(s) PROVE ReaderOK'
  BY <1>1, <1>3 DEF Write, ReaderOK, TypeOK
<1>4. ASSUME NEW s \in Streams, ReadChunk(s) PROVE ReaderOK'
  <2>1. PICK n \in 1..unread[s] :
          /\ unread' = [unread EXCEPT ![s] = @ - n]
          /\ Add(s, n)
          /\ reader' = [reader EXCEPT ![s] = IF overflowed' THEN "full" ELSE @]
    BY <1>4 DEF ReadChunk
  <2>2. overflowed => overflowed'
    BY <2>1 DEF Add
  <2>3. pc' = pc /\ reader[s] = "reading"
    BY <1>4 DEF ReadChunk
  <2>4. \A t \in Streams \ {s} : reader'[t] = reader[t] /\ unread'[t] = unread[t]
    BY <2>1 DEF TypeOK
  <2>5. reader'[s] = IF overflowed' THEN "full" ELSE "reading"
    BY <2>1, <2>3 DEF TypeOK
  <2>6. overflowed' <=> \E t \in Streams : reader'[t] = "full"
    BY <2>2, <2>4, <2>5 DEF ReaderOK
  <2> QED
    BY <1>1, <2>3, <2>4, <2>5, <2>6 DEF ReaderOK
<1>5. ASSUME NEW s \in Streams, ReadEnd(s) PROVE ReaderOK'
  BY <1>1, <1>5 DEF ReadEnd, ReaderOK, TypeOK, HeldOpen
<1>6. CASE Connected \/ Collected \/ Unwound \/ Returned \/ UNCHANGED vars
  BY <1>1, <1>6 DEF Connected, Collected, Unwound, Returned, vars, ReaderOK, TypeOK
<1>7. CASE Overflow \/ Timeout \/ CancelCollection \/ ReadingFails
  <2>1. /\ UNCHANGED <<unread, overflowed>>
        /\ pc' \in {"done", "unwinding", "stopping"}
        /\ ReadersOff \/ (UNCHANGED reader /\ pc' = "stopping")
    BY <1>7, Stopping
  <2>2. CASE ReadersOff
    BY <1>1, <2>1, <2>2, Off DEF ReaderOK
  <2>3. CASE UNCHANGED reader /\ pc' = "stopping"
    BY <1>1, <2>1, <2>3 DEF ReaderOK
  <2> QED
    BY <2>1, <2>2, <2>3
<1>8. CASE WaitReturns \/ CancelElsewhere
  <2>1. UNCHANGED <<unread, overflowed>> /\ pc' \in {"draining", "done"} /\ ReadersOff
    BY <1>8 DEF WaitReturns, CancelElsewhere, End
  <2> QED
    BY <1>1, <2>1, Off DEF ReaderOK
<1>9. ASSUME NEW s \in Streams, Drain(s) PROVE ReaderOK'
  BY <1>1, <1>9 DEF Drain, ReaderOK, TypeOK
<1>10. CASE PipesClosed \/ CloseFails
  BY <1>1, <1>10 DEF PipesClosed, CloseFails, FormatOutput, End, ReaderOK
<1> QED
  BY <1>2, <1>3, <1>4, <1>5, <1>6, <1>7, <1>8, <1>9, <1>10 DEF Next, Group, Collect, Stop, Close

\* Every step keeps the accounts.
LEMMA CountStep == TypeOK /\ LeaderOK /\ CountOK /\ [Next]_vars => CountOK'
<1> SUFFICES ASSUME TypeOK, LeaderOK, CountOK, [Next]_vars PROVE CountOK'
  OBVIOUS
<1> USE DEF group_vars, output_vars
<1> DEFINE Same == UNCHANGED <<kept, unread, written, overflowed>>
           NoLessOver == pc \in {"draining", "done"} => pc' \in {"draining", "done"}
<1>1. ASSUME Same, NoLessOver PROVE CountOK'
  <2>1. Total(kept)' = Total(kept) /\ Total(written)' = Total(written)
    BY <1>1 DEF Total
  <2> QED
    BY <1>1, <2>1 DEF CountOK
<1>2. CASE Spawn \/ SpawnFails \/ Fork \/ LeaderExits \/ OthersExit \/ Reap
  BY <1>1, <1>2 DEF Spawn, SpawnFails, Fork, LeaderExits, OthersExit, Reap, End
<1>3. ASSUME NEW s \in Streams, Write(s) PROVE CountOK'
  <2>1. Total(written') = Total(written) + 1 /\ Total(written') <= MaxOutput
    BY <1>3, WriteType
  <2>2. /\ written' = [written EXCEPT ![s] = @ + 1]
        /\ unread' = [unread EXCEPT ![s] = @ + 1]
        /\ UNCHANGED <<kept, overflowed, pc>>
    BY <1>3 DEF Write
  <2>3. written \in [Streams -> Nat] /\ unread \in [Streams -> Nat] /\ kept \in [Streams -> Nat]
        /\ Limit \in Nat
    BY LimitsAssumption DEF TypeOK
  <2>4. \A t \in Streams :
          /\ kept[t] + unread[t] <= written[t] => kept'[t] + unread'[t] <= written'[t]
          /\ kept[t] + unread[t] = written[t] => kept'[t] + unread'[t] = written'[t]
    BY <2>2, <2>3
  <2>5. Total(written) \in Nat /\ Total(kept') = Total(kept)
    BY <2>2, <2>3, TotalType
  <2> QED
    BY <2>1, <2>2, <2>3, <2>4, <2>5 DEF CountOK
<1>4. ASSUME NEW s \in Streams, ReadChunk(s) PROVE CountOK'
  <2>1. PICK n \in 1..unread[s] :
          /\ unread' = [unread EXCEPT ![s] = @ - n]
          /\ Add(s, n)
    BY <1>4 DEF ReadChunk
  <2>2. written \in [Streams -> Nat] /\ unread \in [Streams -> Nat] /\ kept \in [Streams -> Nat]
        /\ Limit \in Nat /\ n \in Nat
    BY LimitsAssumption DEF TypeOK
  <2>3. Total(kept) \in Nat /\ Total(kept) <= Limit
    BY <2>2, TotalType DEF CountOK
  <2>4. /\ kept' \in [Streams -> 0..Limit]
        /\ Total(kept') <= Limit
        /\ \A t \in Streams \ {s} : kept'[t] = kept[t]
        /\ kept'[s] <= kept[s] + n
        /\ n <= Limit - Total(kept) => kept'[s] = kept[s] + n
        /\ n > Limit - Total(kept) => Total(kept') = Limit
    BY <2>1, <2>2, <2>3, AddType
  <2>5. overflowed' <=> overflowed \/ n > Limit - Total(kept)
    BY <2>1 DEF Add
  <2>6. UNCHANGED <<written, pc>> /\ unread'[s] = unread[s] - n
        /\ \A t \in Streams \ {s} : unread'[t] = unread[t]
    BY <1>4, <2>1, <2>2 DEF ReadChunk
  <2>7. \A t \in Streams :
          /\ kept'[t] + unread'[t] <= written'[t]
          /\ ~overflowed' /\ pc' \notin {"draining", "done"} => kept'[t] + unread'[t] = written'[t]
    BY <2>2, <2>3, <2>4, <2>5, <2>6 DEF CountOK
  <2>8. overflowed' => Total(kept') = Limit
    <3>1. CASE overflowed
      BY <2>2, <2>3, <2>4, <3>1 DEF CountOK
    <3>2. CASE ~overflowed
      BY <2>2, <2>3, <2>4, <2>5, <3>2
    <3> QED
      BY <3>1, <3>2
  <2>9. overflowed' => Total(written') > Limit
    <3>1. CASE overflowed
      BY <2>6, <3>1 DEF CountOK
    <3>2. CASE overflowed' /\ ~overflowed
      <4> DEFINE seen == [kept EXCEPT ![s] = @ + n]
      <4>1. seen \in [Streams -> Nat]
        BY <2>2
      <4>2. \A t \in Streams : seen[t] <= written[t]
        BY <2>2 DEF CountOK
      <4>3. Total(seen) <= Total(written) /\ Total(written) \in Nat
        <5> HIDE DEF seen
        <5> QED
          BY <2>2, <4>1, <4>2, TotalMonotone, TotalType
      <4>4. Total(seen) = Total(kept) + n
        BY <2>2, TotalAdd
      <4>5. Total(seen) > Limit
        BY <2>2, <2>3, <2>5, <3>2, <4>4
      <4>6. Total(seen) \in Nat
        BY <2>2, <2>3, <4>4
      <4>7. written' = written
        BY <2>6
      <4> HIDE DEF seen
      <4>8. Total(written) > Limit
        BY <2>2, <4>3, <4>5, <4>6
      <4> QED
        BY <4>7, <4>8
    <3> QED
      BY <3>1, <3>2
  <2> QED
    BY <2>4, <2>6, <2>7, <2>8, <2>9 DEF CountOK
<1>5. ASSUME NEW s \in Streams, ReadEnd(s) PROVE CountOK'
  BY <1>1, <1>5 DEF ReadEnd
<1>6. CASE Connected \/ Collected \/ Unwound \/ Returned \/ UNCHANGED vars
  BY <1>1, <1>6 DEF Connected, Collected, Unwound, Returned, vars
<1>7. CASE Overflow \/ Timeout \/ CancelCollection \/ ReadingFails
  <2>1. pc \in {"collect", "unwinding"} /\ UNCHANGED <<written, kept, overflowed>>
    BY <1>7, Stopping
  <2>2. UNCHANGED unread
    BY <1>7, Stopping
  <2> QED
    BY <1>1, <2>1, <2>2
<1>8. CASE WaitReturns \/ CancelElsewhere
  BY <1>1, <1>8 DEF WaitReturns, CancelElsewhere, End
<1>9. ASSUME NEW s \in Streams, Drain(s) PROVE CountOK'
  <2>1. /\ unread' = [unread EXCEPT ![s] = 0] /\ pc' = "draining"
        /\ UNCHANGED <<kept, written, overflowed>>
    BY <1>9 DEF Drain
  <2>2. Total(kept)' = Total(kept) /\ Total(written)' = Total(written)
    BY <2>1 DEF Total
  <2>3. \A t \in Streams : kept'[t] + unread'[t] <= written'[t]
    BY <2>1, LimitsAssumption DEF CountOK, TypeOK
  <2> QED
    BY <2>1, <2>2, <2>3 DEF CountOK
<1>10. CASE PipesClosed \/ CloseFails
  BY <1>1, <1>10 DEF PipesClosed, CloseFails, FormatOutput, End
<1> QED
  BY <1>2, <1>3, <1>4, <1>5, <1>6, <1>7, <1>8, <1>9, <1>10 DEF Next, Group, Collect, Stop, Close

-----------------------------------------------------------------------------
(* Why it stopped, and what it says.                                       *)

\* A complete output stays complete: nobody can write any more, and nobody reads.
LEMMA StaysComplete ==
  ASSUME TypeOK, LeaderOK, [Next]_vars, Complete, leader \in {"exited", "reaped"}, kept' = kept
  PROVE  Complete'
  BY StaysClosed DEF Complete

\* Every step keeps the reason.
LEMMA WhyStep ==
  TypeOK /\ LeaderOK /\ ReaderOK /\ CountOK /\ WhyOK /\ [Next]_vars => WhyOK'
<1> SUFFICES ASSUME TypeOK, LeaderOK, ReaderOK, CountOK, WhyOK, [Next]_vars PROVE WhyOK'
  OBVIOUS
<1> USE DEF group_vars, output_vars
<1>1. ASSUME kept' = kept, overflowed' = overflowed, pc' = pc, why' = why PROVE WhyOK'
  <2>1. pc = "draining" => leader \in {"exited", "reaped"}
    BY DEF LeaderOK
  <2>2. pc = "draining" /\ leader = "reaped" => leader' = "reaped"
    BY StaysClosed
  <2>3. pc = "draining" /\ why = "none" => Complete'
    BY <1>1, <2>1, StaysComplete DEF WhyOK
  <2> QED
    BY <1>1, <2>2, <2>3 DEF WhyOK
<1>2. CASE Spawn \/ SpawnFails
  BY <1>2 DEF Spawn, SpawnFails, End, WhyOK
<1>3. CASE Fork \/ LeaderExits \/ OthersExit \/ Reap
  BY <1>1, <1>3 DEF Fork, LeaderExits, OthersExit, Reap
<1>4. ASSUME NEW s \in Streams, Write(s) \/ ReadEnd(s) \/ Drain(s) PROVE WhyOK'
  BY <1>1, <1>4 DEF Write, ReadEnd, Drain
<1>5. ASSUME NEW s \in Streams, ReadChunk(s) PROVE WhyOK'
  <2>1. pc' = pc /\ why' = why /\ pc \in {"collect", "stopping"} /\ (overflowed => overflowed')
    BY <1>5 DEF ReadChunk, Add, ReaderOK
  <2> QED
    BY <2>1 DEF WhyOK
<1>6. CASE Connected \/ Returned \/ UNCHANGED vars
  BY <1>1, <1>6 DEF Connected, Returned, vars, WhyOK
<1>7. CASE Collected
  <2>1. ~overflowed
    BY <1>7, TwoStreams DEF Collected, ReaderOK
  <2>2. Complete
    <3>1. \A s \in Streams : ~HeldOpen(s) /\ unread[s] = 0 /\ kept[s] + unread[s] = written[s]
      BY <1>7, <2>1 DEF Collected, ReaderOK, CountOK
    <3> QED
      BY <3>1, LimitsAssumption DEF Complete, TypeOK
  <2>3. Complete'
    BY <1>7, <2>2 DEF Collected, Complete, HeldOpen
  <2> QED
    BY <1>7, <2>3 DEF Collected, WhyOK
<1>8. CASE Unwound
  BY <1>8 DEF Unwound, WhyOK
<1>9. CASE Overflow \/ Timeout \/ CancelCollection \/ ReadingFails
  <2>1. /\ \/ pc' = "done"
           \/ pc' = "unwinding" /\ why' = "overflow"
           \/ pc' = "stopping" /\ why' \in {"timeout", "cancel", "error"}
        /\ why' = "overflow" => overflowed
        /\ overflowed' = overflowed
    BY <1>9, Stopping DEF ReaderOK
  <2> QED
    BY <2>1 DEF WhyOK
<1>10. CASE WaitReturns \/ CancelElsewhere
  BY <1>10 DEF WaitReturns, CancelElsewhere, End, WhyOK
<1>11. CASE PipesClosed \/ CloseFails
  BY <1>11 DEF PipesClosed, CloseFails, FormatOutput, End, WhyOK
<1> QED
  BY <1>2, <1>3, <1>4, <1>5, <1>6, <1>7, <1>8, <1>9, <1>10, <1>11 DEF Next, Group, Collect, Stop, Close

\* Every step keeps the result true to what happened.
LEMMA ResultStep == IInv /\ [Next]_vars => ResultOK'
<1> SUFFICES ASSUME IInv, [Next]_vars PROVE ResultOK'
  OBVIOUS
<1> USE DEF group_vars, output_vars, IInv
<1>1. ASSUME result' = result, kept' = kept, overflowed' = overflowed,
             pc' = pc \/ pc # "done"
      PROVE  ResultOK'
  <2>1. result \in {"text", "timed_out"} => leader' = "reaped"
    BY StaysClosed DEF ResultOK
  <2>2. result = "text" => Complete'
    BY <1>1, StaysComplete DEF ResultOK
  <2> QED
    BY <1>1, <2>1, <2>2 DEF ResultOK
<1>2. ASSUME result' \in {"error", "cancelled"}, pc' = "done" PROVE ResultOK'
  BY <1>2 DEF ResultOK
<1>3. CASE Spawn \/ Connected \/ Collected \/ Unwound \/ Fork \/ LeaderExits \/ OthersExit \/ Reap
           \/ Returned \/ UNCHANGED vars
  BY <1>1, <1>3 DEF Spawn, Connected, Collected, Unwound, Fork, LeaderExits, OthersExit, Reap,
     Returned, vars
<1>4. CASE SpawnFails \/ CancelElsewhere
  BY <1>2, <1>4 DEF SpawnFails, CancelElsewhere, End
<1>5. ASSUME NEW s \in Streams, Write(s) \/ ReadEnd(s) \/ Drain(s) PROVE ResultOK'
  BY <1>1, <1>5 DEF Write, ReadEnd, Drain
<1>6. ASSUME NEW s \in Streams, ReadChunk(s) PROVE ResultOK'
  <2>1. pc' = pc /\ result' = result /\ pc # "done"
    BY <1>6 DEF ReadChunk, ReaderOK
  <2> QED
    BY <2>1 DEF ResultOK
<1>7. CASE Overflow \/ Timeout \/ CancelCollection \/ ReadingFails
  <2>1. /\ pc # "done" /\ UNCHANGED <<kept, overflowed>>
        /\ result' = result \/ (result' \in {"error", "cancelled"} /\ pc' = "done")
    BY <1>7, Stopping
  <2> QED
    BY <1>1, <1>2, <2>1
<1>8. CASE WaitReturns
  BY <1>1, <1>2, <1>8 DEF WaitReturns, End
<1>9. CASE PipesClosed \/ CloseFails
  <2>1. /\ pc = "draining" /\ pc' = "done" /\ UNCHANGED <<leader, others, held, written, kept, overflowed>>
        /\ result' = IF why = "timeout" THEN "timed_out" ELSE IF overflowed THEN "truncated" ELSE "text"
    BY <1>9 DEF PipesClosed, CloseFails, FormatOutput, End
  <2>2. Complete' <=> Complete
    BY <2>1 DEF Complete, HeldOpen
  <2> QED
    BY <2>1, <2>2 DEF WhyOK, ResultOK
<1> QED
  BY <1>3, <1>4, <1>5, <1>6, <1>7, <1>8, <1>9 DEF Next, Group, Collect, Stop, Close

-----------------------------------------------------------------------------
(* The theorems.                                                           *)

\* run_shell starts with nothing started.
LEMMA InitInv == Init => IInv
<1> SUFFICES ASSUME Init PROVE IInv
  OBVIOUS
<1> USE LimitsAssumption DEF Init
<1>1. TypeOK
  <2>1. overflowed \in BOOLEAN
    BY Zenon
  <2> QED
    BY <2>1 DEF TypeOK
<1>2. Total(kept) = 0 /\ Total(written) = 0
  BY TwoStreams DEF Total
<1>3. LeaderOK /\ ReaderOK /\ WhyOK /\ ResultOK
  BY DEF LeaderOK, ReaderOK, WhyOK, ResultOK
<1>4. CountOK
  BY <1>2 DEF CountOK
<1> QED
  BY <1>1, <1>3, <1>4 DEF IInv

\* The inductive invariant.
THEOREM Invariance == Spec => []IInv
<1>1. IInv /\ [Next]_vars => IInv'
  BY TypeStep, LeaderStep, ReaderStep, CountStep, WhyStep, ResultStep DEF IInv
<1> QED
  BY InitInv, <1>1, PTL DEF Spec

\* Every variable keeps the values the code can give it, for all limits.
THEOREM TypeCorrect == Spec => []TypeOK
<1>1. IInv => TypeOK
  BY DEF IInv
<1> QED
  BY <1>1, Invariance, PTL

\* The model is told the truth about a command's output (tools.py:102-113, 187-195).
THEOREM OutputIsAccounted == Spec => []OutputAccounted
<1>1. IInv => OutputAccounted
  <2> SUFFICES ASSUME IInv PROVE OutputAccounted
    OBVIOUS
  <2>1. Total(kept) <= Limit
    BY DEF IInv, CountOK
  <2>2. ASSUME result = "text" PROVE kept = written
    <3>1. kept \in [Streams -> 0..Limit] /\ written \in [Streams -> 0..MaxOutput]
      BY DEF IInv, TypeOK
    <3>2. \A s \in Streams : kept[s] = written[s]
      BY <2>2 DEF IInv, ResultOK, Complete
    <3> QED
      BY <3>1, <3>2
  <2>3. result = "truncated" => Total(kept) = Limit /\ Total(written) > Limit
    BY DEF IInv, ResultOK, CountOK
  <2> QED
    BY <2>1, <2>2, <2>3 DEF OutputAccounted
<1> QED
  BY <1>1, Invariance, PTL

\* run_shell leaves no shell behind, nor a group it signalled (tools.py:56-88).
THEOREM NothingOutlives == Spec => []ShellNeverOutlivesCall
<1>1. IInv => ShellNeverOutlivesCall
  BY DEF IInv, LeaderOK, ShellNeverOutlivesCall
<1> QED
  BY <1>1, Invariance, PTL

\* A result with an exit status is given when there is one (tools.py:189 and 195).
THEOREM StatusIsKnown == Spec => []StatusKnown
<1>1. IInv => StatusKnown
  BY DEF IInv, ResultOK, StatusKnown
<1> QED
  BY <1>1, Invariance, PTL
=============================================================================
