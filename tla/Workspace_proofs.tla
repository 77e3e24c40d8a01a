--------------------------- MODULE Workspace_proofs ---------------------------
(***************************************************************************)
(* Theorems about Workspace for any number of calls, files and days.  The  *)
(* inductive invariant says what each step of a call was reached for, that *)
(* the steps on a history hold the lock, where a temporary file or an open *)
(* day file can come from, and what half a line looks like.                *)
(***************************************************************************)
EXTENDS Workspace, SequenceTheorems, TLAPS

-----------------------------------------------------------------------------
(* The inductive invariant.                                                *)

Stages ==
  {"new", "setup", "exists", "seed", "mktemp", "rename", "day", "stamp", "date", "lock",
   "mkdir", "open", "write", "rest", "fsync", "mkstemp", "replace", "unlink", "rmdir",
   "rmtree", "read", "inspect", "wipe", "done", "lost"}

\* The steps taken under the history lock.
Locked ==
  {"mkdir", "open", "write", "rest", "fsync", "mkstemp", "replace", "unlink", "rmdir",
   "rmtree", "read"}

\* What a call that is at a step was called for.
StageOK(c) ==
  /\ pc[c] \in {"day", "stamp", "open", "write", "rest", "fsync"} => op[c] = "append"
  /\ pc[c] = "date" => op[c] \in {"update", "clear"}
  /\ pc[c] = "lock" => op[c] \in HistoryOps
  /\ pc[c] = "mkdir" => op[c] \in {"append", "update"}
  /\ pc[c] \in {"mkstemp", "replace"} => op[c] = "update"
  /\ pc[c] \in {"unlink", "rmdir"} => op[c] = "clear"
  /\ pc[c] = "rmtree" => op[c] = "reset_history"
  /\ pc[c] = "read" => op[c] = "read_history"
  /\ pc[c] \in {"mktemp", "rename"} => op[c] \in TextOps
  /\ pc[c] = "inspect" => op[c] \in {"create", "reset"}
  /\ pc[c] = "wipe" => op[c] = "reset"
  /\ pc[c] \in {"setup", "exists", "seed"} => op[c] # "append"

\* What it works on: a text file, or a day that is not after its timestamp.
Dated == {"append", "update", "clear"}
TargetOK(c) ==
  /\ pc[c] \in {"exists", "seed", "rename"} => target[c] \in DOMAIN Files
  /\ op[c] \in Dated /\ pc[c] \in Locked \cup {"stamp", "lock"} => target[c] \in Days
  /\ op[c] \in {"append", "update"} /\ result[c] = "ok" => target[c] \in Days
  /\ pc[c] = "stamp" => target[c] <= today
  /\ op[c] = "append" /\ pc[c] \in Locked \cup {"lock"} => target[c] <= stamp[c]

\* A result is that of a call that is over.
ResultOK(c) == result[c] # "none" => pc[c] = "done"

\* Steps on a history hold the lock.
LockOK(c) == pc[c] \in Locked => lock = c

\* Whose temporary files and open day files there are.
HoldOK(c) ==
  /\ c \in temps => pc[c] \in {"rename", "replace", "lost"} \/ result[c] = "error"
  /\ c \in linked => pc[c] \in {"write", "rest", "fsync"}

\* What is in the tree is an append's, or of a call that returned.
Placed(c) == pc[c] # "new" /\ (op[c] = "append" \/ result[c] = "ok")
PlacedOK == \A c \in Calls : InTree(c) => Placed(c)

\* The files of the history directory are in it.
TreeOK == HistoryTemps # {} => dir

\* An append half way leaves a line without its newline at the end.
RestOK(c) ==
  pc[c] = "rest" /\ c \in linked =>
    day[target[c]] # <<>> /\ ~LastLine(day[target[c]]).ended

\* Unless an append was torn, every line is whole, but for the last one of a
\* day that an append is writing now.
LineOK(d, i) ==
  \/ day[d][i].whole /\ day[d][i].ended
  \/ \E c \in Calls :
       /\ pc[c] = "rest" /\ c \in linked /\ target[c] = d
       /\ i = Len(day[d]) /\ day[d][i].records = <<c>>

LinesOK == TornAppend \/ \A d \in Days : \A i \in DOMAIN day[d] : LineOK(d, i)

CallOK(c) == StageOK(c) /\ TargetOK(c) /\ ResultOK(c) /\ LockOK(c) /\ HoldOK(c) /\ RestOK(c)

Inv ==
  /\ TypeOK
  /\ \A c \in Calls : CallOK(c)
  /\ TreeOK
  /\ LinesOK
  /\ MalformedOnlyIfTorn
  /\ NeverFiledEarly
  /\ PlacedOK

-----------------------------------------------------------------------------
(* Where a call goes.                                                      *)

\* What each operation does once the workspace is open.
LEMMA FirstSteps ==
  /\ FirstStep("append") = "day"
  /\ \A o \in {"update", "clear"} : FirstStep(o) = "date"
  /\ \A o \in {"reset_history", "read_history"} : FirstStep(o) = "lock"
  /\ \A o \in TextOps : FirstStep(o) = "mktemp"
  BY DEF FirstStep, TextOps

\* What each does once it has the lock.
LEMMA LockedSteps ==
  /\ \A o \in {"append", "update"} : LockedStep(o) = "mkdir"
  /\ LockedStep("clear") = "unlink"
  /\ LockedStep("reset_history") = "rmtree"
  /\ LockedStep("read_history") = "read"
  BY DEF LockedStep

\* The variables of the calls are functions of the calls.
Typed ==
  /\ pc \in [Calls -> Stages]
  /\ op \in [Calls -> Ops]
  /\ target \in [Calls -> Days \cup DOMAIN Files]
  /\ stamp \in [Calls -> Days]
  /\ result \in [Calls -> {"none", "ok", "error", "malformed"}]
  /\ linked \subseteq Calls
  /\ lock \in Calls \cup {NoCall}
  /\ today \in Days

\* They are part of the types.
LEMMA TypeTyped == TypeOK => Typed
  BY DEF TypeOK, Typed, Stages

\* Setting one entry of a function keeps its type and the other entries.
LEMMA SetType ==
  ASSUME NEW D, NEW R, NEW f \in [D -> R], NEW c \in D, NEW v \in R
  PROVE  /\ Set(f, c, v) \in [D -> R]
         /\ Set(f, c, v)[c] = v
         /\ \A b \in D \ {c} : Set(f, c, v)[b] = f[b]
  BY DEF Set

\* A call that begins starts to append, to look at the workspace, or to set it up.
LEMMA BeginStep ==
  ASSUME Typed, NEW c \in Calls, Begin(c)
  PROVE  /\ pc[c] = "new"
         /\ \E o \in Ops :
              /\ op' = Set(op, c, o)
              /\ \/ o = "append" /\ pc' = Set(pc, c, "day")
                 \/ o \in {"create", "reset"} /\ pc' = Set(pc, c, "inspect")
                 \/ o # "append" /\ pc' = Set(pc, c, "setup")
         /\ UNCHANGED <<today, root, text, dir, present, day, temps, lock, target, stamp,
                        linked, result, crashed>>
<1>1. PICK o \in OpsOf[c] :
        /\ op' = Set(op, c, o)
        /\ Goto(c, CASE o = "append"               -> FirstStep(o)
                     [] o \in {"create", "reset"} -> "inspect"
                     [] OTHER                    -> "setup")
  BY DEF Begin
<1>2. o \in Ops
  BY CallsAssumption
<1>3. pc[c] = "new" /\ UNCHANGED <<today, root, text, dir, present, day, temps, lock, target,
                                   stamp, linked, result, crashed>>
  BY DEF Begin, tree_vars
<1>4. CASE o = "append"
  BY <1>1, <1>2, <1>3, <1>4, FirstSteps DEF Goto
<1>5. CASE o \in {"create", "reset"}
  BY <1>1, <1>2, <1>3, <1>5 DEF Goto
<1>6. CASE o # "append" /\ o \notin {"create", "reset"}
  <2>1. pc' = Set(pc, c, "setup")
    BY <1>1, <1>6 DEF Goto
  <2> QED
    BY <1>1, <1>2, <1>3, <1>6, <2>1
<1> QED
  BY <1>4, <1>5, <1>6

\* The loop over the files goes on, or the call returns or starts its work.
LEMMA NextFileStep ==
  ASSUME Typed, NEW c \in Calls, op[c] # "append", NEW i \in DOMAIN Files, NextFile(c, i)
  PROVE  \/ /\ i + 1 \in DOMAIN Files
            /\ target' = Set(target, c, i + 1) /\ pc' = Set(pc, c, "exists")
            /\ UNCHANGED <<lock, linked, result>>
         \/ op[c] \in StaticOps /\ target' = target /\ Return(c, "ok")
         \/ /\ target' = target
            /\ \/ op[c] \in {"update", "clear"} /\ pc' = Set(pc, c, "date")
               \/ op[c] \in {"reset_history", "read_history"} /\ pc' = Set(pc, c, "lock")
               \/ op[c] \in TextOps /\ pc' = Set(pc, c, "mktemp")
            /\ UNCHANGED <<lock, linked, result>>
<1>1. CASE i < Len(Files)
  BY <1>1, CallsAssumption DEF NextFile, Goto
<1>2. CASE ~(i < Len(Files))
  <2>1. target' = target /\ AfterSetup(c)
    BY <1>2 DEF NextFile
  <2>2. CASE op[c] \in StaticOps
    BY <2>1, <2>2 DEF AfterSetup
  <2>3. CASE op[c] \notin StaticOps
    <3>1. pc' = Set(pc, c, FirstStep(op[c])) /\ UNCHANGED <<lock, linked, result>>
      BY <2>1, <2>3 DEF AfterSetup, Goto
    <3>2. op[c] \in {"update", "clear", "reset_history", "read_history"} \cup TextOps
      BY <2>3 DEF Typed, Ops, HistoryOps
    <3> QED
      BY <2>1, <3>1, <3>2, FirstSteps
  <2> QED
    BY <2>2, <2>3
<1> QED
  BY <1>1, <1>2

-----------------------------------------------------------------------------
(* What a step of one call leaves of the others.                           *)

\* What a call has of its own.
Kept(b) ==
  /\ pc'[b] = pc[b] /\ op'[b] = op[b] /\ target'[b] = target[b] /\ stamp'[b] = stamp[b]
  /\ result'[b] = result[b]
  /\ b \in temps' => b \in temps
  /\ b \in linked' => b \in linked
  /\ lock = b => lock' = b

\* A step of one call leaves the others where they are.
LEMMA OthersKept ==
  ASSUME TypeOK, NEW c \in Calls, NEW b \in Calls, b # c, Begin(c) \/ Step(c),
         op[c] = "append" => pc[c] \notin {"setup", "exists", "seed"},
         pc[c] \in {"exists", "seed"} => target[c] \in DOMAIN Files
  PROVE  Kept(b) /\ today' = today
<1> USE CallsAssumption DEF Typed, Kept, Set, Goto
<1>1. Typed
  BY TypeTyped
<1>2. CASE Begin(c)
  BY <1>1, <1>2, BeginStep
<1>3. CASE Fail(c)
  BY <1>1, <1>3 DEF Fail, Return
<1>4. CASE Setup(c)
  BY <1>1, <1>4 DEF Setup
<1>5. ASSUME NextFile(c, target[c]), pc[c] \in {"exists", "seed"}
      PROVE  /\ pc'[b] = pc[b] /\ target'[b] = target[b] /\ result'[b] = result[b]
             /\ b \in linked' => b \in linked
             /\ lock = b => lock' = b
  <2>1. target[c] \in DOMAIN Files /\ op[c] # "append"
    BY <1>5
  <2> HIDE DEF Set
  <2>2. \/ /\ target' = Set(target, c, target[c] + 1) /\ pc' = Set(pc, c, "exists")
           /\ target[c] + 1 \in DOMAIN Files
           /\ UNCHANGED <<lock, linked, result>>
        \/ target' = target /\ Return(c, "ok")
        \/ /\ target' = target
           /\ \E s \in Stages : pc' = Set(pc, c, s)
           /\ UNCHANGED <<lock, linked, result>>
    BY <1>1, <1>5, <2>1, NextFileStep DEF Stages
  <2> QED
    BY <1>1, <2>2 DEF Return, Set
<1>6. CASE SeedCheck(c)
  <2>1. UNCHANGED <<op, stamp, temps, today>>
    BY <1>6 DEF SeedCheck, tree_vars
  <2>2. CASE NextFile(c, target[c])
    BY <1>5, <1>6, <2>1, <2>2 DEF SeedCheck
  <2>3. CASE Goto(c, "seed") /\ UNCHANGED <<target, lock, linked, result>>
    BY <1>1, <2>1, <2>3
  <2> QED
    BY <1>6, <2>2, <2>3 DEF SeedCheck
<1>7. CASE SeedFile(c)
  <2>1. UNCHANGED <<op, stamp, temps, today>> /\ NextFile(c, target[c]) /\ pc[c] = "seed"
    BY <1>7 DEF SeedFile
  <2> QED
    BY <1>5, <2>1
<1>8. CASE MakeTemp(c)
  BY <1>1, <1>8 DEF MakeTemp
<1>9. CASE RenameText(c)
  BY <1>1, <1>9 DEF RenameText, Return
<1>10. CASE PickDay(c) \/ StampRecord(c) \/ PickDate(c)
  BY <1>1, <1>10 DEF PickDay, StampRecord, PickDate, tree_vars
<1>11. CASE Acquire(c)
  BY <1>1, <1>11 DEF Acquire, tree_vars
<1>12. CASE MakeDir(c) \/ OpenDay(c) \/ WriteStart(c) \/ WriteRest(c)
  BY <1>1, <1>12 DEF MakeDir, OpenDay, WriteStart, WriteRest
<1>13. CASE Fsync(c) \/ RemoveEmptyDir(c) \/ ReadHistory(c)
  BY <1>1, <1>13 DEF Fsync, RemoveEmptyDir, ReadHistory, Return, tree_vars
<1>14. CASE MakeHistoryTemp(c) \/ UnlinkDay(c)
  BY <1>1, <1>14 DEF MakeHistoryTemp, UnlinkDay
<1>15. CASE ReplaceDay(c)
  BY <1>1, <1>15 DEF ReplaceDay, Return
<1>16. CASE RemoveHistory(c)
  BY <1>1, <1>16 DEF RemoveHistory, RemoveHistoryEntry, Return
<1>17. CASE Inspect(c)
  BY <1>1, <1>17 DEF Inspect, Return, tree_vars
<1>18. CASE Wipe(c)
  BY <1>1, <1>18 DEF Wipe, RemoveHistoryEntry
<1> QED
  BY <1>2, <1>3, <1>4, <1>6, <1>7, <1>8, <1>9, <1>10, <1>11, <1>12, <1>13, <1>14,
     <1>15, <1>16, <1>17, <1>18 DEF Step

-----------------------------------------------------------------------------
(* The lines of a day.                                                     *)

\* Replacing the last line leaves the others and their number.
LEMMA SetLast ==
  ASSUME NEW lines \in Seq(Line), lines # <<>>, NEW v \in Line
  PROVE  LET s == [lines EXCEPT ![Len(lines)] = v]
         IN  /\ s \in Seq(Line) /\ s # <<>> /\ Len(s) = Len(lines) /\ DOMAIN s = DOMAIN lines
             /\ LastLine(s) = v
             /\ \A i \in DOMAIN lines : i # Len(lines) => s[i] = lines[i]
<1>1. Len(lines) \in Nat \ {0} /\ DOMAIN lines = 1..Len(lines)
  BY EmptySeq, LenProperties
<1> DEFINE s == [lines EXCEPT ![Len(lines)] = v]
<1>2. s \in [1..Len(lines) -> Line]
  BY <1>1
<1>3. s \in Seq(Line) /\ Len(s) = Len(lines)
  BY <1>1, <1>2
<1> QED
  BY <1>1, <1>2, <1>3 DEF LastLine

\* What a day's lines become with the first bytes of c's record.
Started(lines, c, s) ==
  /\ s \in Seq(Line) /\ s # <<>> /\ ~LastLine(s).ended
  /\ \A i \in DOMAIN lines : lines[i].ended => i \in DOMAIN s /\ s[i] = lines[i]
  /\ (\A i \in DOMAIN lines : lines[i].ended) =>
       /\ LastLine(s).records = <<c>> /\ Len(s) = Len(lines) + 1
       /\ DOMAIN s = DOMAIN lines \cup {Len(s)}

\* The first bytes of a record make a line of their own, or make a line that is
\* already torn longer (history.py:246-254).
LEMMA StartShape ==
  ASSUME NEW lines \in Seq(Line), NEW c \in Calls, NEW whole \in BOOLEAN
  PROVE  Started(lines, c, WithStart(lines, c, whole))
<1> USE DEF Started
<1>1. Len(lines) \in Nat /\ DOMAIN lines = 1..Len(lines)
      /\ (lines # <<>> => Len(lines) \in DOMAIN lines)
  BY EmptySeq, LenProperties
<1>2. CASE lines # <<>> /\ ~LastLine(lines).ended
  <2> DEFINE v == [records |-> Append(lines[Len(lines)].records, c), whole |-> FALSE,
                   ended |-> FALSE]
  <2>1. v \in Line
    <3>1. lines[Len(lines)] \in Line
      BY <1>1, <1>2
    <3>2. lines[Len(lines)].records \in Seq(Calls)
      BY <3>1 DEF Line
    <3>3. Append(lines[Len(lines)].records, c) \in Seq(Calls)
      BY <3>2, AppendProperties
    <3> QED
      BY <3>3 DEF Line
  <2>2. WithStart(lines, c, whole) = [lines EXCEPT ![Len(lines)] = v]
    BY <1>2 DEF WithStart
  <2>3. ~v.ended
    OBVIOUS
  <2> HIDE DEF v
  <2>4. Len(lines) \in DOMAIN lines /\ ~lines[Len(lines)].ended
    BY <1>1, <1>2 DEF LastLine
  <2> DEFINE s == [lines EXCEPT ![Len(lines)] = v]
  <2>5. /\ s \in Seq(Line) /\ s # <<>> /\ DOMAIN s = DOMAIN lines /\ LastLine(s) = v
        /\ \A i \in DOMAIN lines : i # Len(lines) => s[i] = lines[i]
    BY <1>2, <2>1, SetLast
  <2> HIDE DEF s
  <2>6. \A i \in DOMAIN lines : lines[i].ended => i \in DOMAIN s /\ s[i] = lines[i]
    BY <2>4, <2>5
  <2> QED
    BY <2>2, <2>3, <2>4, <2>5, <2>6 DEF s
<1>3. CASE ~(lines # <<>> /\ ~LastLine(lines).ended)
  <2> DEFINE v == [records |-> <<c>>, whole |-> whole, ended |-> FALSE]
             s == Append(lines, v)
  <2>1. v \in Line /\ ~v.ended /\ v.records = <<c>>
    BY DEF Line
  <2>2. WithStart(lines, c, whole) = s
    BY <1>3 DEF WithStart
  <2> HIDE DEF v
  <2>3. /\ s \in Seq(Line) /\ s # <<>> /\ Len(s) = Len(lines) + 1 /\ DOMAIN s = 1..Len(s)
        /\ \A i \in DOMAIN lines : i \in DOMAIN s /\ s[i] = lines[i]
        /\ LastLine(s) = v
    BY <1>1, <2>1, AppendProperties, LenProperties DEF LastLine
  <2> HIDE DEF s
  <2>4. DOMAIN s = DOMAIN lines \cup {Len(s)}
    BY <1>1, <2>3
  <2> QED
    BY <2>1, <2>2, <2>3, <2>4
<1> QED
  BY <1>2, <1>3

\* The rest of a record ends the last line, which is whole if the record is the
\* only one on it (history.py:246-254).
LEMMA RestShape ==
  ASSUME NEW lines \in Seq(Line), lines # <<>>
  PROVE  LET s == WithRest(lines)
         IN  /\ s \in Seq(Line) /\ s # <<>> /\ Len(s) = Len(lines) /\ DOMAIN s = DOMAIN lines
             /\ LastLine(s).ended
             /\ LastLine(s).records = LastLine(lines).records
             /\ LastLine(s).whole <=> Len(LastLine(lines).records) = 1
             /\ \A i \in DOMAIN lines : i # Len(lines) => s[i] = lines[i]
<1> DEFINE l == lines[Len(lines)]
           v == [records |-> l.records, whole |-> Len(l.records) = 1, ended |-> TRUE]
<1>1. l \in Line /\ l = LastLine(lines)
  BY EmptySeq, LenProperties DEF LastLine
<1>2. WithRest(lines) = [lines EXCEPT ![Len(lines)] = v]
  BY DEF WithRest
<1>3. l.records \in Seq(Calls)
  BY <1>1 DEF Line
<1>4. v \in Line
  BY <1>3, Zenon DEF Line
<1>5. v.ended /\ v.records = LastLine(lines).records
      /\ (v.whole <=> Len(LastLine(lines).records) = 1)
  BY <1>1
<1> HIDE DEF v, l
<1> DEFINE s == [lines EXCEPT ![Len(lines)] = v]
<1>6. /\ s \in Seq(Line) /\ s # <<>> /\ Len(s) = Len(lines) /\ DOMAIN s = DOMAIN lines
      /\ LastLine(s) = v
      /\ \A i \in DOMAIN lines : i # Len(lines) => s[i] = lines[i]
  BY <1>4, SetLast
<1>7. WithRest(lines) = s
  BY <1>2
<1> HIDE DEF s
<1> QED
  BY <1>5, <1>6, <1>7

-----------------------------------------------------------------------------
(* Types.                                                                  *)

\* What TypeOK says of the tree.
TreeTyped ==
  /\ root \in BOOLEAN
  /\ text \in [FileNames -> {"absent", "empty", "old"} \cup Calls]
  /\ dir \in BOOLEAN
  /\ present \subseteq Days
  /\ day \in [Days -> Seq(Line)]
  /\ temps \subseteq Calls
  /\ present # {} => dir
  /\ dir => root

\* The types are those of the calls and those of the tree.
LEMMA TypeParts == TypeOK <=> Typed /\ TreeTyped /\ crashed \in BOOLEAN
  BY DEF TypeOK, Typed, TreeTyped, Stages

\* A call that returns keeps the types of the calls.
LEMMA ReturnTyped ==
  ASSUME Typed, NEW c \in Calls, NEW value \in {"ok", "error", "malformed"}, Return(c, value),
         UNCHANGED <<today, op, target, stamp>>
  PROVE  Typed'
  BY DEF Typed, Return, Goto, Set, Stages

\* A call that goes to another step does.
LEMMA GotoTyped ==
  ASSUME Typed, NEW c \in Calls, NEW s \in Stages, Goto(c, s),
         UNCHANGED <<today, op, result>>,
         stamp' = stamp \/ stamp' = Set(stamp, c, today),
         target' \in [Calls -> Days \cup DOMAIN Files],
         linked' \subseteq Calls, lock' \in Calls \cup {NoCall}
  PROVE  Typed'
  BY DEF Typed, Goto, Set

\* Setting the target of a call.
LEMMA TargetTyped ==
  ASSUME Typed, NEW c \in Calls, NEW t \in Days \cup DOMAIN Files
  PROVE  Set(target, c, t) \in [Calls -> Days \cup DOMAIN Files]
  BY DEF Typed, Set

\* The loop over the files keeps the types.
LEMMA NextFileTyped ==
  ASSUME Typed, NEW c \in Calls, op[c] # "append", target[c] \in DOMAIN Files,
         NextFile(c, target[c]), UNCHANGED <<today, op, stamp>>
  PROVE  Typed'
<1>1. \/ /\ target[c] + 1 \in DOMAIN Files
         /\ target' = Set(target, c, target[c] + 1) /\ pc' = Set(pc, c, "exists")
         /\ UNCHANGED <<lock, linked, result>>
      \/ target' = target /\ Return(c, "ok")
      \/ /\ target' = target
         /\ \E s \in Stages : pc' = Set(pc, c, s)
         /\ UNCHANGED <<lock, linked, result>>
  BY NextFileStep DEF Stages
<1>2. CASE /\ target[c] + 1 \in DOMAIN Files
           /\ target' = Set(target, c, target[c] + 1) /\ pc' = Set(pc, c, "exists")
           /\ UNCHANGED <<lock, linked, result>>
  <2>1. target' \in [Calls -> Days \cup DOMAIN Files]
    BY <1>2, TargetTyped
  <2>2. Goto(c, "exists") /\ "exists" \in Stages
    BY <1>2 DEF Goto, Stages
  <2>3. linked' \subseteq Calls /\ lock' \in Calls \cup {NoCall}
    BY <1>2 DEF Typed
  <2> QED
    BY <1>2, <2>1, <2>2, <2>3, GotoTyped
<1>3. CASE target' = target /\ Return(c, "ok")
  BY <1>3, ReturnTyped
<1>4. CASE /\ target' = target
           /\ \E s \in Stages : pc' = Set(pc, c, s)
           /\ UNCHANGED <<lock, linked, result>>
  BY <1>4, GotoTyped DEF Typed, Goto
<1> QED
  BY <1>1, <1>2, <1>3, <1>4

\* The types of the calls after every step of one of them.
LEMMA CallTypes ==
  ASSUME Inv, NEW c \in Calls, Begin(c) \/ Step(c)
  PROVE  Typed'
<1> USE CallsAssumption
<1>1. Typed /\ StageOK(c) /\ TargetOK(c) /\ DOMAIN Files \subseteq Nat
  BY TypeTyped DEF Inv, CallOK
<1>2. CASE Begin(c)
  <2>1. UNCHANGED <<today, target, stamp, linked, result, lock>>
    BY <1>1, <1>2, BeginStep
  <2>2. /\ \E o \in Ops : op' = Set(op, c, o)
        /\ \E s \in Stages : pc' = Set(pc, c, s)
    BY <1>1, <1>2, BeginStep DEF Stages
  <2>3. op' \in [Calls -> Ops] /\ pc' \in [Calls -> Stages]
    BY <1>1, <2>2 DEF Typed, Set
  <2> QED
    BY <1>1, <2>1, <2>3 DEF Typed
<1>3. CASE Fail(c) \/ RenameText(c) \/ Fsync(c) \/ ReplaceDay(c) \/ RemoveEmptyDir(c)
           \/ ReadHistory(c)
  <2>1. /\ UNCHANGED <<today, op, target, stamp>>
        /\ \E value \in {"ok", "error", "malformed"} : Return(c, value)
    BY <1>3 DEF Fail, RenameText, Fsync, ReplaceDay, RemoveEmptyDir, ReadHistory
  <2> QED
    BY <1>1, <2>1, ReturnTyped
<1>4. CASE Setup(c)
  <2>1. 1 \in Days
    BY DEF Days
  <2>2. target' \in [Calls -> Days \cup DOMAIN Files]
    BY <1>1, <1>4, <2>1, TargetTyped DEF Setup
  <2> QED
    BY <1>1, <1>4, <2>2, GotoTyped DEF Setup, Stages, Typed
<1>5. CASE SeedCheck(c) \/ SeedFile(c)
  <2>1. target[c] \in DOMAIN Files /\ op[c] # "append" /\ UNCHANGED <<today, op, stamp>>
    BY <1>1, <1>5 DEF SeedCheck, SeedFile, StageOK, TargetOK
  <2>2. CASE NextFile(c, target[c])
    BY <1>1, <2>1, <2>2, NextFileTyped
  <2>3. CASE Goto(c, "seed") /\ UNCHANGED <<target, lock, linked, result>>
    BY <1>1, <2>1, <2>3, GotoTyped DEF Stages, Typed
  <2> QED
    BY <1>5, <2>2, <2>3 DEF SeedCheck, SeedFile
<1>6. CASE MakeTemp(c) \/ PickDay(c) \/ PickDate(c)
  <2>1. PICK t \in Days \cup DOMAIN Files : target' = Set(target, c, t)
    BY <1>1, <1>6 DEF MakeTemp, PickDay, PickDate, Typed
  <2>2. target' \in [Calls -> Days \cup DOMAIN Files]
    BY <1>1, <2>1, TargetTyped
  <2> QED
    BY <1>1, <1>6, <2>2, GotoTyped DEF MakeTemp, PickDay, PickDate, Stages, Typed
<1>7. CASE StampRecord(c)
  BY <1>1, <1>7, GotoTyped DEF StampRecord, Stages, Typed
<1>8. CASE Acquire(c)
  <2>1. LockedStep(op[c]) \in Stages
    BY <1>1, <1>8, LockedSteps DEF Acquire, StageOK, HistoryOps, Stages
  <2> QED
    BY <1>1, <1>8, <2>1, GotoTyped DEF Acquire, Typed
<1>9. CASE MakeDir(c)
  <2>1. (IF op[c] = "append" THEN "open" ELSE "mkstemp") \in Stages
    BY DEF Stages
  <2> QED
    BY <1>1, <1>9, <2>1, GotoTyped DEF MakeDir, Typed
<1>10. CASE OpenDay(c) \/ WriteStart(c) \/ WriteRest(c) \/ MakeHistoryTemp(c) \/ UnlinkDay(c)
  BY <1>1, <1>10, GotoTyped DEF OpenDay, WriteStart, WriteRest, MakeHistoryTemp, UnlinkDay,
                                Stages, Typed
<1>11. CASE RemoveHistory(c)
  <2>1. CASE Return(c, "ok")
    BY <1>1, <1>11, <2>1, ReturnTyped DEF RemoveHistory
  <2>2. CASE RemoveHistoryEntry /\ UNCHANGED <<lock, pc, result>>
    BY <1>1, <1>11, <2>2 DEF RemoveHistory, RemoveHistoryEntry, Typed
  <2> QED
    BY <1>11, <2>1, <2>2 DEF RemoveHistory
<1>12. CASE Inspect(c)
  <2>1. CASE Return(c, "error")
    BY <1>1, <1>12, <2>1, ReturnTyped DEF Inspect, tree_vars
  <2>2. CASE (Goto(c, "setup") \/ Goto(c, "wipe")) /\ UNCHANGED <<lock, linked, result>>
    BY <1>1, <1>12, <2>2, GotoTyped DEF Inspect, tree_vars, Stages, Typed
  <2> QED
    BY <1>12, <2>1, <2>2 DEF Inspect
<1>13. CASE Wipe(c)
  <2>1. pc' = pc \/ Goto(c, "setup")
    BY <1>13 DEF Wipe
  <2>2. UNCHANGED <<today, lock, op, target, stamp, result>> /\ linked' \subseteq linked
    BY <1>13 DEF Wipe, RemoveHistoryEntry
  <2> QED
    BY <1>1, <2>1, <2>2 DEF Typed, Goto, Set, Stages
<1> QED
  BY <1>2, <1>3, <1>4, <1>5, <1>6, <1>7, <1>8, <1>9, <1>10, <1>11, <1>12, <1>13 DEF Step

-----------------------------------------------------------------------------
(* Where a call is after a step of its own.                                *)

Local(b) == StageOK(b) /\ TargetOK(b) /\ ResultOK(b) /\ LockOK(b) /\ HoldOK(b)

\* A call that returns, without a temporary file of its own unless it failed.
LEMMA ReturnLocal ==
  ASSUME Typed, NEW c \in Calls, Local(c), NEW value \in {"ok", "error", "malformed"},
         Return(c, value), UNCHANGED <<today, op, target, stamp>>,
         c \in temps' => value = "error",
         op[c] \in {"append", "update"} /\ value = "ok" => target[c] \in Days
  PROVE  Local(c)'
<1>1. pc'[c] = "done" /\ result'[c] = value /\ c \notin linked'
  BY DEF Typed, Return, Goto, Set
<1> QED
  BY <1>1 DEF Local, StageOK, TargetOK, ResultOK, LockOK, HoldOK, Locked

\* The loop over the files leaves the call where its operation goes on.
LEMMA NextFileLocal ==
  ASSUME Typed, NEW c \in Calls, Local(c), pc[c] \in {"exists", "seed"},
         NextFile(c, target[c]), UNCHANGED <<today, op, stamp, temps>>
  PROVE  Local(c)'
<1> USE CallsAssumption
<1>1. op[c] # "append" /\ target[c] \in DOMAIN Files /\ c \notin temps /\ c \notin linked
      /\ result[c] = "none"
  BY DEF Local, StageOK, TargetOK, HoldOK, ResultOK
<1>2. \/ /\ target[c] + 1 \in DOMAIN Files
         /\ target' = Set(target, c, target[c] + 1) /\ pc' = Set(pc, c, "exists")
         /\ UNCHANGED <<lock, linked, result>>
      \/ op[c] \in StaticOps /\ target' = target /\ Return(c, "ok")
      \/ /\ target' = target
         /\ \/ op[c] \in {"update", "clear"} /\ pc' = Set(pc, c, "date")
            \/ op[c] \in {"reset_history", "read_history"} /\ pc' = Set(pc, c, "lock")
            \/ op[c] \in TextOps /\ pc' = Set(pc, c, "mktemp")
         /\ UNCHANGED <<lock, linked, result>>
  BY <1>1, NextFileStep
<1>3. CASE op[c] \in StaticOps /\ target' = target /\ Return(c, "ok")
  BY <1>1, <1>3, ReturnLocal DEF StaticOps
<1>4. CASE /\ target[c] + 1 \in DOMAIN Files
           /\ target' = Set(target, c, target[c] + 1) /\ pc' = Set(pc, c, "exists")
           /\ UNCHANGED <<lock, linked, result>>
  <2>1. pc'[c] = "exists" /\ target'[c] = target[c] + 1
    BY <1>4 DEF Typed, Set
  <2> QED
    BY <1>1, <1>4, <2>1 DEF Local, StageOK, TargetOK, ResultOK, LockOK, HoldOK, Locked
<1>5. CASE /\ target' = target
           /\ \/ op[c] \in {"update", "clear"} /\ pc' = Set(pc, c, "date")
              \/ op[c] \in {"reset_history", "read_history"} /\ pc' = Set(pc, c, "lock")
              \/ op[c] \in TextOps /\ pc' = Set(pc, c, "mktemp")
           /\ UNCHANGED <<lock, linked, result>>
  <2>1. \/ op[c] \in {"update", "clear"} /\ pc'[c] = "date"
        \/ op[c] \in {"reset_history", "read_history"} /\ pc'[c] = "lock"
        \/ op[c] \in TextOps /\ pc'[c] = "mktemp"
    BY <1>5 DEF Typed, Set
  <2> QED
    BY <1>1, <1>5, <2>1 DEF Local, StageOK, TargetOK, ResultOK, LockOK, HoldOK, Locked, Dated,
                            HistoryOps, TextOps
<1> QED
  BY <1>2, <1>3, <1>4, <1>5

\* Every step leaves its call at a stage that its operation comes to, with the
\* lock if the step after needs it.
LEMMA OwnStep ==
  ASSUME TypeOK, NEW c \in Calls, Local(c), Begin(c) \/ Step(c)
  PROVE  Local(c)'
<1> USE CallsAssumption DEF Locked, Dated
<1>1. Typed /\ target[c] \in Nat /\ today \in Nat /\ Days \subseteq Nat /\ 1 \in Days
  BY TypeTyped DEF Typed, Days
<1>2. StageOK(c) /\ TargetOK(c) /\ ResultOK(c) /\ LockOK(c) /\ HoldOK(c)
  BY DEF Local
<1>3. ASSUME NEW s \in Stages, Goto(c, s) PROVE pc'[c] = s
  BY <1>1, <1>3 DEF Goto, Set, Typed
<1>4. CASE Begin(c)
  <2>1. PICK o \in Ops :
          /\ op' = Set(op, c, o)
          /\ \/ o = "append" /\ pc' = Set(pc, c, "day")
             \/ o \in {"create", "reset"} /\ pc' = Set(pc, c, "inspect")
             \/ o # "append" /\ pc' = Set(pc, c, "setup")
    BY <1>1, <1>4, BeginStep
  <2>2. /\ op'[c] = o
        /\ \/ o = "append" /\ pc'[c] = "day"
           \/ o \in {"create", "reset"} /\ pc'[c] = "inspect"
           \/ o # "append" /\ pc'[c] = "setup"
    BY <1>1, <2>1 DEF Typed, Set
  <2>3. pc[c] = "new" /\ UNCHANGED <<temps, result, linked>>
    BY <1>1, <1>4, BeginStep
  <2> QED
    BY <1>2, <2>2, <2>3 DEF Local, StageOK, TargetOK, ResultOK, LockOK, HoldOK
<1>5. CASE Fail(c)
  BY <1>1, <1>5, ReturnLocal DEF Fail
<1>6. CASE Setup(c)
  <2>1. pc'[c] = "exists" /\ target'[c] = 1 /\ 1 \in DOMAIN Files
    BY <1>1, <1>6 DEF Setup, Goto, Set, Typed
  <2> QED
    BY <1>2, <1>6, <2>1 DEF Setup, Local, StageOK, TargetOK, ResultOK, LockOK, HoldOK
<1>7. CASE SeedCheck(c) \/ SeedFile(c)
  <2>1. pc[c] \in {"exists", "seed"} /\ UNCHANGED <<today, op, stamp, temps>>
    BY <1>7 DEF SeedCheck, SeedFile, tree_vars
  <2>2. CASE NextFile(c, target[c])
    BY <1>1, <2>1, <2>2, NextFileLocal
  <2>3. CASE Goto(c, "seed") /\ UNCHANGED <<target, lock, linked, result>>
    <3>1. pc'[c] = "seed"
      BY <1>3, <2>3 DEF Stages
    <3> QED
      BY <1>2, <2>1, <2>3, <3>1 DEF Local, StageOK, TargetOK, ResultOK, LockOK, HoldOK
  <2> QED
    BY <1>7, <2>2, <2>3 DEF SeedCheck, SeedFile
<1>8. CASE MakeTemp(c)
  <2>1. pc'[c] = "rename" /\ target'[c] \in DOMAIN Files
    BY <1>1, <1>8 DEF MakeTemp, Goto, Set, Typed
  <2> QED
    BY <1>2, <1>8, <2>1 DEF MakeTemp, Local, StageOK, TargetOK, ResultOK, LockOK, HoldOK, TextOps
<1>9. CASE RenameText(c)
  <2>1. op[c] \notin {"append", "update"} /\ c \notin temps'
    BY <1>2, <1>9 DEF RenameText, StageOK, TextOps
  <2> QED
    BY <1>1, <1>9, <2>1, ReturnLocal DEF RenameText
<1>10. CASE PickDay(c)
  <2>1. pc'[c] = "stamp" /\ target'[c] = today /\ today \in Days
    BY <1>1, <1>10 DEF PickDay, Goto, Set, Typed
  <2> QED
    BY <1>1, <1>2, <1>10, <2>1 DEF PickDay, tree_vars, Local, StageOK, TargetOK, ResultOK, LockOK, HoldOK
<1>11. CASE StampRecord(c)
  <2>1. pc'[c] = "lock" /\ stamp'[c] = today
    BY <1>1, <1>11 DEF StampRecord, Goto, Set, Typed
  <2> QED
    BY <1>1, <1>2, <1>11, <2>1 DEF StampRecord, tree_vars, Local, StageOK, TargetOK, ResultOK, LockOK,
                                   HoldOK, HistoryOps
<1>12. CASE PickDate(c)
  <2>1. pc'[c] = "lock" /\ target'[c] \in Days
    BY <1>1, <1>12 DEF PickDate, Goto, Set, Typed
  <2> QED
    BY <1>1, <1>2, <1>12, <2>1 DEF PickDate, tree_vars, Local, StageOK, TargetOK, ResultOK, LockOK,
                                   HoldOK, HistoryOps
<1>13. CASE Acquire(c)
  <2>1. \/ op[c] \in {"append", "update"} /\ pc'[c] = "mkdir"
        \/ op[c] = "clear" /\ pc'[c] = "unlink"
        \/ op[c] = "reset_history" /\ pc'[c] = "rmtree"
        \/ op[c] = "read_history" /\ pc'[c] = "read"
    BY <1>1, <1>2, <1>13, LockedSteps DEF Acquire, Goto, Set, Typed, StageOK, HistoryOps
  <2>2. lock' = c /\ pc[c] = "lock" /\ UNCHANGED <<op, target, stamp, temps, linked, result, today>>
    BY <1>13 DEF Acquire, tree_vars
  <2> QED
    BY <1>2, <2>1, <2>2 DEF Local, StageOK, TargetOK, ResultOK, LockOK, HoldOK
<1>14. CASE MakeDir(c)
  <2>1. \/ op[c] = "append" /\ pc'[c] = "open"
        \/ op[c] = "update" /\ pc'[c] = "mkstemp"
    BY <1>1, <1>2, <1>14 DEF MakeDir, Goto, Set, Typed, StageOK
  <2> QED
    BY <1>2, <1>14, <2>1 DEF MakeDir, Local, StageOK, TargetOK, ResultOK, LockOK, HoldOK
<1>15. CASE OpenDay(c)
  <2>1. pc'[c] = "write"
    BY <1>1, <1>15 DEF OpenDay, Goto, Set, Typed
  <2> QED
    BY <1>2, <1>15, <2>1 DEF OpenDay, Local, StageOK, TargetOK, ResultOK, LockOK, HoldOK
<1>16. CASE WriteStart(c)
  <2>1. pc'[c] = "rest"
    BY <1>1, <1>16 DEF WriteStart, Goto, Set, Typed
  <2> QED
    BY <1>2, <1>16, <2>1 DEF WriteStart, Local, StageOK, TargetOK, ResultOK, LockOK, HoldOK
<1>17. CASE WriteRest(c)
  <2>1. pc'[c] = "fsync"
    BY <1>1, <1>17 DEF WriteRest, Goto, Set, Typed
  <2> QED
    BY <1>2, <1>17, <2>1 DEF WriteRest, Local, StageOK, TargetOK, ResultOK, LockOK, HoldOK
<1>18. CASE Fsync(c) \/ ReplaceDay(c) \/ RemoveEmptyDir(c) \/ ReadHistory(c)
  <2>1. /\ UNCHANGED <<today, op, target, stamp>> /\ c \notin temps'
        /\ \E value \in {"ok", "error", "malformed"} : Return(c, value)
    BY <1>2, <1>18 DEF Fsync, ReplaceDay, RemoveEmptyDir, ReadHistory, HoldOK, ResultOK,
                            tree_vars
  <2>2. op[c] \in {"append", "update"} => target[c] \in Days
    BY <1>2, <1>18 DEF Fsync, ReplaceDay, RemoveEmptyDir, ReadHistory, StageOK, TargetOK
  <2> QED
    BY <1>1, <2>1, <2>2, ReturnLocal
<1>19. CASE MakeHistoryTemp(c)
  <2>1. pc'[c] = "replace"
    BY <1>1, <1>19 DEF MakeHistoryTemp, Goto, Set, Typed
  <2> QED
    BY <1>2, <1>19, <2>1 DEF MakeHistoryTemp, Local, StageOK, TargetOK, ResultOK, LockOK, HoldOK
<1>20. CASE UnlinkDay(c)
  <2>1. pc'[c] = "rmdir"
    BY <1>1, <1>20 DEF UnlinkDay, Goto, Set, Typed
  <2> QED
    BY <1>2, <1>20, <2>1 DEF UnlinkDay, Local, StageOK, TargetOK, ResultOK, LockOK, HoldOK
<1>21. CASE RemoveHistory(c)
  <2>1. pc[c] = "rmtree" /\ UNCHANGED <<today, op, target, stamp>> /\ c \notin temps'
    BY <1>2, <1>21 DEF RemoveHistory, RemoveHistoryEntry, HoldOK, ResultOK
  <2>2. CASE Return(c, "ok")
    BY <1>1, <1>2, <2>1, <2>2, ReturnLocal DEF StageOK
  <2>3. CASE RemoveHistoryEntry /\ UNCHANGED <<lock, pc, result>>
    BY <1>2, <2>1, <2>3 DEF RemoveHistoryEntry, Local, StageOK, TargetOK, ResultOK, LockOK, HoldOK
  <2> QED
    BY <1>21, <2>2, <2>3 DEF RemoveHistory
<1>22. CASE Inspect(c)
  <2>1. pc[c] = "inspect" /\ UNCHANGED <<today, op, target, stamp, temps>>
        /\ op[c] \in {"create", "reset"} /\ c \notin temps
    BY <1>2, <1>22 DEF Inspect, tree_vars, StageOK, HoldOK, ResultOK
  <2>2. CASE Return(c, "error")
    BY <1>1, <2>1, <2>2, ReturnLocal
  <2>3. CASE (Goto(c, "setup") \/ (Goto(c, "wipe") /\ op[c] = "reset"))
             /\ UNCHANGED <<lock, linked, result>>
    <3>1. pc'[c] = "setup" \/ (pc'[c] = "wipe" /\ op[c] = "reset")
      BY <1>3, <2>3 DEF Stages
    <3> QED
      BY <1>2, <2>1, <2>3, <3>1 DEF Local, StageOK, TargetOK, ResultOK, LockOK, HoldOK
  <2> QED
    BY <1>22, <2>2, <2>3 DEF Inspect
<1>23. CASE Wipe(c)
  <2>1. pc[c] = "wipe" /\ pc'[c] \in {"wipe", "setup"} /\ c \notin temps' /\ c \notin linked'
        /\ UNCHANGED <<today, lock, op, target, stamp, result>>
    BY <1>1, <1>2, <1>23 DEF Wipe, RemoveHistoryEntry, HoldOK, ResultOK, Goto, Set,
                                  Typed
  <2> QED
    BY <1>2, <2>1 DEF Local, StageOK, TargetOK, ResultOK, LockOK, HoldOK
<1> QED
  BY <1>4, <1>5, <1>6, <1>7, <1>8, <1>9, <1>10, <1>11, <1>12, <1>13, <1>14, <1>15, <1>16,
     <1>17, <1>18, <1>19, <1>20, <1>21, <1>22, <1>23 DEF Step

-----------------------------------------------------------------------------
(* What a step does to the tree.                                           *)

\* A step that changes a day writes to it, replaces it, unlinks it, or removes
\* it with the history directory or the workspace.
DayStarted(c) ==
  /\ pc[c] = "write" /\ pc'[c] = "rest" /\ c \in linked
  /\ target' = target /\ linked' = linked
  /\ \E whole \in BOOLEAN : day' = Set(day, target[c], WithStart(day[target[c]], c, whole))

DayEnded(c) ==
  /\ pc[c] = "rest" /\ pc'[c] = "fsync" /\ c \in linked
  /\ target' = target /\ linked' = linked
  /\ day' = Set(day, target[c], WithRest(day[target[c]]))

DayReplaced(c) ==
  /\ pc[c] = "replace" /\ result'[c] = "ok"
  /\ day' = Set(day, target[c], <<LineOf(c)>>)

DayUnlinked(c) ==
  pc[c] = "unlink" /\ day' = Set(day, target[c], <<>>)

DayRemoved(c) ==
  /\ pc[c] \in {"rmtree", "wipe"}
  /\ \E d \in present : day' = Set(day, d, <<>>) /\ linked' = {l \in linked : target[l] # d}

\* A step leaves the lines of every day alone or does one of these to one day.
LEMMA DayStep ==
  ASSUME Typed, NEW c \in Calls, op[c] # "append" \/ pc[c] \notin {"exists", "seed"},
         pc[c] \in {"exists", "seed"} => target[c] \in DOMAIN Files, Begin(c) \/ Step(c)
  PROVE  \/ day' = day /\ linked \ {c} \subseteq linked'
         \/ DayStarted(c) \/ DayEnded(c) \/ DayReplaced(c) \/ DayUnlinked(c) \/ DayRemoved(c)
<1>1. CASE Begin(c)
  BY <1>1, BeginStep
<1>2. CASE SeedCheck(c) \/ SeedFile(c)
  <2>1. day' = day
    BY <1>2 DEF SeedCheck, SeedFile, tree_vars
  <2>2. CASE NextFile(c, target[c])
    BY <1>2, <2>1, <2>2, NextFileStep DEF SeedCheck, SeedFile, Return
  <2>3. CASE linked' = linked
    BY <2>1, <2>3
  <2> QED
    BY <1>2, <2>2, <2>3 DEF SeedCheck, SeedFile
<1>3. CASE Fail(c) \/ Setup(c) \/ MakeTemp(c) \/ RenameText(c)
  BY <1>3 DEF Fail, Setup, MakeTemp, RenameText, Return
<1>4. CASE \/ PickDay(c) \/ StampRecord(c) \/ PickDate(c) \/ Acquire(c) \/ MakeDir(c)
           \/ OpenDay(c) \/ MakeHistoryTemp(c)
  BY <1>4 DEF PickDay, StampRecord, PickDate, Acquire, MakeDir, OpenDay, MakeHistoryTemp, tree_vars
<1>5. CASE Fsync(c) \/ RemoveEmptyDir(c) \/ ReadHistory(c) \/ Inspect(c)
  BY <1>5 DEF Fsync, RemoveEmptyDir, ReadHistory, Inspect, Return, tree_vars
<1>6. CASE WriteStart(c)
  <2>1. pc[c] = "write" /\ pc'[c] = "rest" /\ linked' = linked /\ target' = target
    BY <1>6 DEF WriteStart, Goto, Set, Typed
  <2> QED
    BY <1>6, <2>1 DEF WriteStart, DayStarted
<1>7. CASE WriteRest(c)
  <2>1. pc[c] = "rest" /\ pc'[c] = "fsync" /\ linked' = linked /\ target' = target
    BY <1>7 DEF WriteRest, Goto, Set, Typed
  <2> QED
    BY <1>7, <2>1 DEF WriteRest, DayEnded
<1>8. CASE ReplaceDay(c)
  BY <1>8 DEF ReplaceDay, DayReplaced, Return, Set, Typed
<1>9. CASE UnlinkDay(c)
  BY <1>9 DEF UnlinkDay, DayUnlinked
<1>10. CASE RemoveHistory(c)
  BY <1>10 DEF RemoveHistory, RemoveHistoryEntry, DayRemoved, Return
<1>11. CASE Wipe(c)
  BY <1>11 DEF Wipe, RemoveHistoryEntry, DayRemoved
<1> QED
  BY <1>1, <1>2, <1>3, <1>4, <1>5, <1>6, <1>7, <1>8, <1>9, <1>10, <1>11 DEF Step

\* The days keep their type.
LEMMA DayTypes ==
  ASSUME Inv, NEW c \in Calls, Begin(c) \/ Step(c)
  PROVE  day' \in [Days -> Seq(Line)]
<1>1. Typed /\ day \in [Days -> Seq(Line)] /\ present \subseteq Days
  BY TypeParts DEF Inv, TreeTyped
<1>2. StageOK(c) /\ TargetOK(c) /\ RestOK(c)
  BY DEF Inv, CallOK
<1>3. ASSUME NEW d \in Days, NEW v \in Seq(Line), day' = Set(day, d, v)
      PROVE  day' \in [Days -> Seq(Line)]
  BY <1>1, <1>3 DEF Set
<1>4. <<>> \in Seq(Line) /\ <<LineOf(c)>> \in Seq(Line)
  <2>1. <<c>> \in Seq(Calls)
    OBVIOUS
  <2>2. LineOf(c) \in Line
    BY <2>1 DEF LineOf, Line
  <2> QED
    BY <2>2
<1>5. /\ pc[c] \in {"write", "rest", "replace", "unlink"} => target[c] \in Days
      /\ op[c] # "append" \/ pc[c] \notin {"exists", "seed"}
      /\ pc[c] \in {"exists", "seed"} => target[c] \in DOMAIN Files
  BY <1>2 DEF StageOK, TargetOK, Locked, Dated
<1>6. CASE day' = day
  BY <1>1, <1>6
<1>7. CASE DayStarted(c)
  <2>1. PICK whole \in BOOLEAN : day' = Set(day, target[c], WithStart(day[target[c]], c, whole))
    BY <1>7 DEF DayStarted
  <2>2. target[c] \in Days /\ day[target[c]] \in Seq(Line)
    BY <1>1, <1>5, <1>7 DEF DayStarted
  <2>3. WithStart(day[target[c]], c, whole) \in Seq(Line)
    BY <2>2, StartShape DEF Started
  <2> QED
    BY <1>3, <2>1, <2>2, <2>3
<1>8. CASE DayEnded(c)
  <2>1. target[c] \in Days /\ day[target[c]] \in Seq(Line) /\ day[target[c]] # <<>>
    BY <1>1, <1>2, <1>5, <1>8 DEF DayEnded, RestOK
  <2>2. WithRest(day[target[c]]) \in Seq(Line)
    BY <2>1, RestShape
  <2> QED
    BY <1>3, <1>8, <2>1, <2>2 DEF DayEnded
<1>9. CASE DayReplaced(c) \/ DayUnlinked(c)
  BY <1>3, <1>4, <1>5, <1>9 DEF DayReplaced, DayUnlinked
<1>10. CASE DayRemoved(c)
  BY <1>1, <1>3, <1>4, <1>10 DEF DayRemoved
<1> QED
  BY <1>1, <1>5, <1>6, <1>7, <1>8, <1>9, <1>10, DayStep

\* What the history directory holds is in it, and it is in the workspace.
LEMMA TreeStep ==
  ASSUME Inv, NEW c \in Calls, Begin(c) \/ Step(c)
  PROVE  TreeTyped' /\ TreeOK'
<1> USE CallsAssumption DEF HistoryTemps, TextOps
<1>1. Typed /\ TreeTyped /\ TreeOK
  BY TypeParts DEF Inv
<1>2. StageOK(c) /\ TargetOK(c) /\ ResultOK(c) /\ HoldOK(c)
  BY DEF Inv, CallOK
<1>3. day' \in [Days -> Seq(Line)]
  BY DayTypes
<1>4. /\ \A f \in FileNames, v \in {"absent", "empty", "old"} \cup Calls :
           Set(text, f, v) \in [FileNames -> {"absent", "empty", "old"} \cup Calls]
      /\ \A i \in DOMAIN Files : Files[i] \in FileNames
  BY <1>1 DEF TreeTyped, Set, FileNames
<1>5. ASSUME UNCHANGED <<root, text, dir, present, temps, op>> PROVE TreeTyped' /\ TreeOK'
  BY <1>1, <1>3, <1>5 DEF TreeTyped, TreeOK
<1>6. CASE Begin(c)
  <2>1. PICK o \in Ops : op' = Set(op, c, o)
    BY <1>1, <1>6, BeginStep
  <2>2. UNCHANGED <<root, text, dir, present, temps>> /\ c \notin temps
    BY <1>1, <1>2, <1>6, BeginStep DEF HoldOK, ResultOK
  <2>3. HistoryTemps' = HistoryTemps
    BY <1>1, <2>1, <2>2 DEF Typed, TreeTyped, Set
  <2> QED
    BY <1>1, <1>3, <2>2, <2>3 DEF TreeTyped, TreeOK
<1>7. CASE Fail(c)
  BY <1>1, <1>3, <1>7 DEF Fail, TreeTyped, TreeOK
<1>8. CASE Setup(c)
  BY <1>1, <1>3, <1>8 DEF Setup, TreeTyped, TreeOK
<1>9. CASE SeedFile(c)
  <2>1. text' \in [FileNames -> {"absent", "empty", "old"} \cup Calls]
    BY <1>2, <1>4, <1>9 DEF SeedFile, TargetOK
  <2> QED
    BY <1>1, <1>3, <1>9, <2>1 DEF SeedFile, TreeTyped, TreeOK
<1>10. CASE MakeTemp(c)
  BY <1>1, <1>2, <1>3, <1>10 DEF MakeTemp, TreeTyped, TreeOK, StageOK
<1>11. CASE RenameText(c)
  <2>1. text' \in [FileNames -> {"absent", "empty", "old"} \cup Calls]
    BY <1>2, <1>4, <1>11 DEF RenameText, TargetOK
  <2> QED
    BY <1>1, <1>3, <1>11, <2>1 DEF RenameText, TreeTyped, TreeOK
<1>12. CASE \/ SeedCheck(c) \/ PickDay(c) \/ StampRecord(c) \/ PickDate(c) \/ Acquire(c)
            \/ Fsync(c) \/ ReadHistory(c) \/ Inspect(c)
  BY <1>5, <1>12 DEF SeedCheck, PickDay, StampRecord, PickDate, Acquire, Fsync, ReadHistory,
                     Inspect, tree_vars
<1>13. CASE WriteStart(c) \/ WriteRest(c)
  BY <1>5, <1>13 DEF WriteStart, WriteRest
<1>14. CASE MakeDir(c)
  BY <1>1, <1>3, <1>14 DEF MakeDir, TreeTyped, TreeOK
<1>15. CASE OpenDay(c)
  <2>1. target[c] \in Days
    BY <1>2, <1>15 DEF OpenDay, StageOK, TargetOK, Locked, Dated
  <2> QED
    BY <1>1, <1>3, <1>15, <2>1 DEF OpenDay, TreeTyped, TreeOK
<1>16. CASE MakeHistoryTemp(c)
  BY <1>1, <1>3, <1>16 DEF MakeHistoryTemp, TreeTyped, TreeOK
<1>17. CASE ReplaceDay(c)
  <2>1. target[c] \in Days /\ op[c] = "update" /\ dir
    BY <1>1, <1>2, <1>17 DEF ReplaceDay, StageOK, TargetOK, Locked, Dated, TreeOK
  <2> QED
    BY <1>1, <1>3, <1>17, <2>1 DEF ReplaceDay, TreeTyped, TreeOK
<1>18. CASE UnlinkDay(c)
  BY <1>1, <1>3, <1>18 DEF UnlinkDay, TreeTyped, TreeOK
<1>19. CASE RemoveEmptyDir(c)
  BY <1>1, <1>3, <1>19 DEF RemoveEmptyDir, TreeTyped, TreeOK
<1>20. ASSUME RemoveHistoryEntry, UNCHANGED <<root, text, op>> PROVE TreeTyped' /\ TreeOK'
  BY <1>1, <1>3, <1>20 DEF RemoveHistoryEntry, TreeTyped, TreeOK
<1>21. CASE RemoveHistory(c)
  BY <1>5, <1>20, <1>21 DEF RemoveHistory
<1>22. CASE Wipe(c)
  <2>1. op' = op
    BY <1>22 DEF Wipe
  <2>2. CASE RemoveHistoryEntry /\ UNCHANGED <<root, text>>
    BY <1>20, <2>1, <2>2
  <2>3. CASE /\ \E f \in FileNames : text' = Set(text, f, "absent")
             /\ UNCHANGED <<root, dir, present, temps>>
    BY <1>1, <1>3, <1>4, <2>1, <2>3 DEF TreeTyped, TreeOK
  <2>4. CASE \E t \in temps : temps' = temps \ {t} /\ UNCHANGED <<root, text, dir, present>>
    BY <1>1, <1>3, <2>1, <2>4 DEF TreeTyped, TreeOK
  <2>5. CASE EmptyRoot /\ root' = FALSE /\ UNCHANGED <<text, dir, present, temps>>
    BY <1>1, <1>3, <2>1, <2>5 DEF EmptyRoot, TreeTyped, TreeOK
  <2> QED
    BY <1>22, <2>2, <2>3, <2>4, <2>5 DEF Wipe
<1> QED
  BY <1>6, <1>7, <1>8, <1>9, <1>10, <1>11, <1>12, <1>13, <1>14, <1>15, <1>16, <1>17, <1>18,
     <1>19, <1>21, <1>22 DEF Step

-----------------------------------------------------------------------------
(* Torn lines.                                                             *)

\* A call that takes a step is not over.
LEMMA StepsBeforeEnd ==
  ASSUME Typed, NEW c \in Calls, Begin(c) \/ Step(c)
  PROVE  pc[c] \notin {"done", "lost"}
  BY DEF Begin, Step, Fail, Working, Setup, SeedCheck, SeedFile, MakeTemp, RenameText, PickDay,
         StampRecord, PickDate, Acquire, MakeDir, OpenDay, WriteStart, WriteRest, Fsync,
         MakeHistoryTemp, ReplaceDay, UnlinkDay, RemoveEmptyDir, RemoveHistory, ReadHistory,
         Inspect, Wipe

\* A call that took a step has begun, and was called for what it was.
LEMMA NewLeft ==
  ASSUME Inv, NEW c \in Calls, Begin(c) \/ Step(c)
  PROVE  pc'[c] # "new" /\ (pc[c] # "new" => op' = op)
<1> USE CallsAssumption DEF Goto, Set
<1>1. Typed /\ (pc[c] \in {"exists", "seed"} => target[c] \in DOMAIN Files /\ op[c] # "append")
  BY TypeTyped DEF Inv, CallOK, StageOK, TargetOK
<1>2. CASE Begin(c)
  BY <1>1, <1>2, BeginStep DEF Typed
<1>3. CASE SeedCheck(c) \/ SeedFile(c)
  <2>1. op' = op /\ pc[c] \in {"exists", "seed"}
    BY <1>3 DEF SeedCheck, SeedFile
  <2>2. CASE NextFile(c, target[c])
    BY <1>1, <2>1, <2>2, NextFileStep DEF Typed, Return, Stages
  <2>3. CASE Goto(c, "seed")
    BY <1>1, <2>1, <2>3 DEF Typed
  <2> QED
    BY <1>3, <2>1, <2>2, <2>3 DEF SeedCheck, SeedFile
<1>4. CASE Acquire(c)
  BY <1>1, <1>4, LockedSteps DEF Acquire, Typed, Inv, CallOK, StageOK, HistoryOps
<1>5. CASE Step(c) /\ ~(SeedCheck(c) \/ SeedFile(c) \/ Acquire(c))
  BY <1>1, <1>5 DEF Typed, Step, Fail, Working, Return, Setup, MakeTemp, RenameText, PickDay,
         StampRecord, PickDate, MakeDir, OpenDay, WriteStart, WriteRest, Fsync,
         MakeHistoryTemp, ReplaceDay, UnlinkDay, RemoveEmptyDir, RemoveHistory, ReadHistory,
         Inspect, Wipe
<1> QED
  BY <1>2, <1>3, <1>4, <1>5

\* An append that is half way fails or writes the rest.
LEMMA RestSteps ==
  ASSUME NEW c \in Calls, pc[c] = "rest", Begin(c) \/ Step(c)
  PROVE  Fail(c) \/ WriteRest(c)
  BY DEF Begin, Step, Setup, SeedCheck, SeedFile, MakeTemp, RenameText, PickDay,
         StampRecord, PickDate, Acquire, MakeDir, OpenDay, WriteStart, Fsync,
         MakeHistoryTemp, ReplaceDay, UnlinkDay, RemoveEmptyDir, RemoveHistory, ReadHistory,
         Inspect, Wipe

\* What the invariant gives a step: what it leaves of the others, and what it
\* does to a day.
LEMMA StepFacts ==
  ASSUME Inv, NEW c \in Calls, Begin(c) \/ Step(c)
  PROVE  /\ Typed /\ day \in [Days -> Seq(Line)] /\ present \subseteq Days
         /\ \A b \in Calls \ {c} : Kept(b)
         /\ today' = today
         /\ \/ day' = day /\ linked \ {c} \subseteq linked'
            \/ DayStarted(c) \/ DayEnded(c) \/ DayReplaced(c) \/ DayUnlinked(c) \/ DayRemoved(c)
<1>1. TypeOK /\ Typed /\ day \in [Days -> Seq(Line)] /\ present \subseteq Days
  BY TypeParts DEF Inv, TreeTyped
<1>2. /\ op[c] = "append" => pc[c] \notin {"setup", "exists", "seed"}
      /\ pc[c] \in {"exists", "seed"} => target[c] \in DOMAIN Files
  BY DEF Inv, CallOK, StageOK, TargetOK
<1>3. \A b \in Calls \ {c} : Kept(b) /\ today' = today
  BY <1>1, <1>2, OthersKept
<1>4. \/ day' = day /\ linked \ {c} \subseteq linked'
      \/ DayStarted(c) \/ DayEnded(c) \/ DayReplaced(c) \/ DayUnlinked(c) \/ DayRemoved(c)
  BY <1>1, <1>2, DayStep
<1>5. today' = today
  BY DEF Begin, Step, Fail, Setup, SeedCheck, SeedFile, MakeTemp, RenameText, PickDay,
         StampRecord, PickDate, Acquire, MakeDir, OpenDay, WriteStart, WriteRest, Fsync,
         MakeHistoryTemp, ReplaceDay, UnlinkDay, RemoveEmptyDir, RemoveHistory, ReadHistory,
         Inspect, Wipe
<1> QED
  BY <1>1, <1>3, <1>4, <1>5

\* An append that was torn stays so.
LEMMA TornKept ==
  ASSUME Inv, NEW c \in Calls, Begin(c) \/ Step(c), TornAppend
  PROVE  TornAppend'
<1>1. PICK b \in Calls : op[b] = "append" /\ (pc[b] = "lost" \/ result[b] = "error")
  BY DEF TornAppend
<1>2. pc[b] \in {"lost", "done"}
  BY <1>1 DEF Inv, CallOK, ResultOK
<1>3. b # c
  BY <1>2, StepFacts, StepsBeforeEnd
<1>4. Kept(b)
  BY <1>3, StepFacts
<1> QED
  BY <1>1, <1>4 DEF Kept, TornAppend

\* An append that fails half way is torn.
LEMMA FailTears ==
  ASSUME Inv, NEW c \in Calls, pc[c] = "rest", Fail(c)
  PROVE  TornAppend'
<1>1. op[c] = "append" /\ op' = op
  BY DEF Fail, Inv, CallOK, StageOK
<1>2. result'[c] = "error"
  BY StepFacts DEF Fail, Return, Set, Typed, Step
<1> QED
  BY <1>1, <1>2 DEF TornAppend

\* No other call is half way while one holds the lock.
LEMMA OneAtRest ==
  ASSUME Inv, NEW b \in Calls, NEW c \in Calls, pc[b] = "rest", pc[c] \in Locked
  PROVE  b = c
  BY DEF Inv, CallOK, LockOK, Locked

\* Only the start of a write brings a call half way.
LEMMA RestReached ==
  ASSUME Inv, NEW c \in Calls, Begin(c) \/ Step(c), pc'[c] = "rest"
  PROVE  WriteStart(c)
<1> USE CallsAssumption
<1>1. Typed /\ StageOK(c) /\ TargetOK(c)
  BY TypeTyped DEF Inv, CallOK
<1>2. ASSUME NEW s, Goto(c, s), s # "rest" PROVE FALSE
  BY <1>1, <1>2 DEF Goto, Set, Typed
<1>3. ~Begin(c)
  BY <1>1, BeginStep DEF Set, Typed
<1>4. ~(Fail(c) \/ RenameText(c) \/ Fsync(c) \/ ReplaceDay(c) \/ RemoveEmptyDir(c))
  BY <1>2 DEF Fail, RenameText, Fsync, ReplaceDay, RemoveEmptyDir, Return
<1>5. ~(ReadHistory(c) \/ Inspect(c))
  BY <1>2 DEF ReadHistory, Inspect, Return
<1>6. ~(Setup(c) \/ MakeTemp(c) \/ PickDay(c) \/ StampRecord(c) \/ PickDate(c) \/ OpenDay(c))
  BY <1>2 DEF Setup, MakeTemp, PickDay, StampRecord, PickDate, OpenDay
<1>7. ~(WriteRest(c) \/ MakeHistoryTemp(c) \/ UnlinkDay(c) \/ MakeDir(c))
  BY <1>2 DEF WriteRest, MakeHistoryTemp, UnlinkDay, MakeDir
<1>8. ~Acquire(c)
  <2>1. ASSUME Acquire(c) PROVE LockedStep(op[c]) # "rest"
    BY <1>1, <2>1, LockedSteps DEF Acquire, StageOK, HistoryOps
  <2> QED
    BY <1>2, <2>1 DEF Acquire
<1>9. ~(SeedCheck(c) \/ SeedFile(c))
  <2>1. ASSUME NextFile(c, target[c]), pc[c] \in {"exists", "seed"} PROVE FALSE
    BY <1>1, <2>1, NextFileStep DEF StageOK, TargetOK, Return, Goto, Set, Typed
  <2> QED
    BY <1>2, <2>1 DEF SeedCheck, SeedFile
<1>10. ~(RemoveHistory(c) \/ Wipe(c))
  BY <1>2 DEF RemoveHistory, Wipe, Return
<1> QED
  BY <1>3, <1>4, <1>5, <1>6, <1>7, <1>8, <1>9, <1>10 DEF Step

\* The line of an append that is half way stays the last of its day.
LEMMA RestStep ==
  ASSUME Inv, NEW c \in Calls, Begin(c) \/ Step(c), NEW b \in Calls
  PROVE  RestOK(b)'
<1> USE DEF Locked
<1>1. /\ Typed /\ day \in [Days -> Seq(Line)] /\ RestOK(b)
      /\ b # c => Kept(b)
      /\ \/ day' = day /\ linked \ {c} \subseteq linked'
         \/ DayStarted(c) \/ DayEnded(c) \/ DayReplaced(c) \/ DayUnlinked(c) \/ DayRemoved(c)
  BY StepFacts DEF Inv, CallOK
<1> SUFFICES ASSUME pc'[b] = "rest", b \in linked'
             PROVE  day'[target'[b]] # <<>> /\ ~LastLine(day'[target'[b]]).ended
  BY DEF RestOK, LastLine
<1>2. CASE b # c
  <2>1. pc[b] = "rest" /\ b \in linked /\ target'[b] = target[b]
    BY <1>1, <1>2 DEF Kept
  <2>2. target[b] \in Days
    BY <2>1 DEF Inv, CallOK, StageOK, TargetOK, Dated
  <2>3. pc[c] \notin Locked
    BY <1>2, <2>1, OneAtRest
  <2>4. day'[target[b]] = day[target[b]]
    <3>1. CASE day' = day
      BY <3>1
    <3>2. CASE DayRemoved(c)
      BY <1>1, <2>2, <3>2 DEF DayRemoved, Set
    <3> QED
      BY <1>1, <2>3, <3>1, <3>2 DEF DayStarted, DayEnded, DayReplaced, DayUnlinked
  <2> QED
    BY <1>1, <2>1, <2>4 DEF RestOK
<1>3. CASE b = c
  <2>1. WriteStart(c) /\ pc[c] = "write"
    BY <1>3, RestReached DEF WriteStart
  <2>2. PICK whole \in BOOLEAN : day' = Set(day, target[c], WithStart(day[target[c]], c, whole))
    BY <1>3, <2>1 DEF WriteStart
  <2>3. target[c] \in Days
    BY <2>1 DEF Inv, CallOK, StageOK, TargetOK, Dated
  <2>4. day'[target'[c]] = WithStart(day[target[c]], c, whole)
    BY <1>1, <2>1, <2>2, <2>3 DEF WriteStart, Set
  <2>5. day[target[c]] \in Seq(Line)
    BY <1>1, <2>3
  <2> DEFINE s == WithStart(day[target[c]], c, whole)
  <2>6. Started(day[target[c]], c, s)
    BY <2>5, StartShape
  <2>7. day'[target'[b]] = s
    BY <1>3, <2>4
  <2> HIDE DEF s
  <2> QED
    BY <2>6, <2>7 DEF Started
<1> QED
  BY <1>2, <1>3

-----------------------------------------------------------------------------
(* Every line is whole unless an append was torn.                          *)

\* A day that is not the one a call works on keeps its lines as they are.
LEMMA LineKept ==
  ASSUME Inv, NEW c \in Calls, Begin(c) \/ Step(c), NEW d \in Days, NEW i \in DOMAIN day[d],
         LineOK(d, i), day'[d] = day[d], pc[c] # "rest",
         \A b \in Calls \ {c} : b \in linked /\ target[b] = d => b \in linked'
  PROVE  LineOK(d, i)'
<1>1. CASE day[d][i].whole /\ day[d][i].ended
  BY <1>1 DEF LineOK
<1>2. CASE \E b \in Calls :
             /\ pc[b] = "rest" /\ b \in linked /\ target[b] = d
             /\ i = Len(day[d]) /\ day[d][i].records = <<b>>
  <2>1. PICK b \in Calls :
          /\ pc[b] = "rest" /\ b \in linked /\ target[b] = d
          /\ i = Len(day[d]) /\ day[d][i].records = <<b>>
    BY <1>2
  <2>2. b # c /\ Kept(b)
    BY <2>1, StepFacts
  <2>3. pc'[b] = "rest" /\ b \in linked' /\ target'[b] = d
    BY <2>1, <2>2 DEF Kept
  <2> QED
    BY <2>1, <2>3 DEF LineOK
<1> QED
  BY <1>1, <1>2 DEF LineOK

\* Where no append is half way on a day, its lines are whole.
LEMMA AllWhole ==
  ASSUME Inv, ~TornAppend, NEW d \in Days,
         \A b \in Calls : ~(pc[b] = "rest" /\ target[b] = d)
  PROVE  \A i \in DOMAIN day[d] : day[d][i].whole /\ day[d][i].ended
  BY DEF Inv, LinesOK, LineOK

\* Unless an append was torn, every step leaves lines whole, but for the one in writing.
LEMMA LinesStep ==
  ASSUME Inv, NEW c \in Calls, Begin(c) \/ Step(c)
  PROVE  LinesOK'
<1> USE DEF Locked
<1>1. /\ Typed /\ day \in [Days -> Seq(Line)] /\ present \subseteq Days
      /\ \A b \in Calls \ {c} : Kept(b)
      /\ \/ day' = day /\ linked \ {c} \subseteq linked'
         \/ DayStarted(c) \/ DayEnded(c) \/ DayReplaced(c) \/ DayUnlinked(c) \/ DayRemoved(c)
  BY StepFacts
<1>2. /\ pc[c] \in {"write", "rest", "replace", "unlink"} => target[c] \in Days
      /\ RestOK(c)
  BY DEF Inv, CallOK, StageOK, TargetOK, Dated
<1> SUFFICES ASSUME ~TornAppend', NEW d \in Days, NEW i \in DOMAIN day'[d]
             PROVE  LineOK(d, i)'
  BY DEF LinesOK
<1>3. ~TornAppend /\ \A e \in Days : \A j \in DOMAIN day[e] : LineOK(e, j)
  BY TornKept DEF Inv, LinesOK
<1>4. ASSUME day'[d] = day[d], pc[c] # "rest",
             \A b \in Calls \ {c} : b \in linked /\ target[b] = d => b \in linked'
      PROVE  LineOK(d, i)'
  BY <1>3, <1>4, LineKept
<1>5. ASSUME day'[d] = day[d], \A b \in Calls : ~(pc[b] = "rest" /\ target[b] = d)
      PROVE  LineOK(d, i)'
  <2>1. day[d][i].whole /\ day[d][i].ended
    BY <1>3, <1>5, AllWhole
  <2> QED
    BY <1>5, <2>1 DEF LineOK
<1>6. CASE pc[c] = "rest" /\ ~DayEnded(c)
  <2>1. WriteRest(c)
    BY <1>6, RestSteps, FailTears
  <2>2. day' = day /\ linked' = linked /\ c \notin linked
    BY <1>1, <1>6, <2>1 DEF WriteRest, DayEnded, Goto, Set, Typed
  <2>3. \A b \in Calls : pc[b] = "rest" => b = c
    BY <1>6, OneAtRest
  <2>4. day[d][i].whole /\ day[d][i].ended
    BY <1>3, <2>2, <2>3 DEF LineOK
  <2> QED
    BY <2>2, <2>4 DEF LineOK
<1>7. CASE pc[c] # "rest" /\ day' = day /\ linked \ {c} \subseteq linked'
  BY <1>4, <1>7
<1>8. CASE DayStarted(c)
  <2>1. \A b \in Calls : pc[b] # "rest"
    BY <1>8, OneAtRest DEF DayStarted
  <2>2. CASE d # target[c]
    <3>1. day'[d] = day[d]
      BY <1>1, <1>2, <1>8, <2>2 DEF DayStarted, Set
    <3> QED
      BY <1>5, <2>1, <3>1
  <2>3. CASE d = target[c]
    <3>1. PICK whole \in BOOLEAN : day' = Set(day, d, WithStart(day[d], c, whole))
      BY <1>8, <2>3 DEF DayStarted
    <3> DEFINE s == WithStart(day[d], c, whole)
    <3>2. day'[d] = s /\ day[d] \in Seq(Line)
      BY <1>1, <3>1 DEF Set
    <3>3. \A j \in DOMAIN day[d] : day[d][j].whole /\ day[d][j].ended
      BY <1>3, <2>1, AllWhole
    <3>4. /\ \A j \in DOMAIN day[d] : s[j] = day[d][j]
          /\ LastLine(s).records = <<c>> /\ DOMAIN s = DOMAIN day[d] \cup {Len(s)}
      <4>1. Started(day[d], c, s)
        BY <3>2, StartShape
      <4>2. \A j \in DOMAIN day[d] : day[d][j].ended
        BY <3>3
      <4> HIDE DEF s
      <4> QED
        BY <4>1, <4>2 DEF Started
    <3> HIDE DEF s
    <3>5. CASE i \in DOMAIN day[d]
      BY <3>2, <3>3, <3>4, <3>5 DEF LineOK
    <3>6. CASE i = Len(s)
      <4>1. day'[d][i].records = <<c>> /\ i = Len(day'[d])
        BY <3>2, <3>4, <3>6 DEF LastLine
      <4>2. pc'[c] = "rest" /\ c \in linked' /\ target'[c] = d
        BY <1>8, <2>3 DEF DayStarted
      <4> QED
        BY <4>1, <4>2 DEF LineOK
    <3> QED
      BY <3>2, <3>4, <3>5, <3>6
  <2> QED
    BY <2>2, <2>3
<1>9. CASE DayEnded(c)
  <2>1. \A b \in Calls : pc[b] = "rest" => b = c
    BY <1>9, OneAtRest DEF DayEnded
  <2>2. CASE d # target[c]
    <3>1. day'[d] = day[d]
      BY <1>1, <1>2, <1>9, <2>2 DEF DayEnded, Set
    <3> QED
      BY <1>5, <2>1, <2>2, <3>1
  <2>3. CASE d = target[c]
    <3> DEFINE s == WithRest(day[d])
    <3>1. day'[d] = s /\ day[d] \in Seq(Line)
      BY <1>1, <1>9, <2>3 DEF DayEnded, Set
    <3>2. day[d] # <<>> /\ ~LastLine(day[d]).ended
      BY <1>2, <1>9, <2>3 DEF DayEnded, RestOK
    <3>3. /\ Len(s) = Len(day[d]) /\ DOMAIN s = DOMAIN day[d] /\ LastLine(s).ended
          /\ LastLine(s).whole <=> Len(LastLine(day[d]).records) = 1
          /\ \A j \in DOMAIN day[d] : j # Len(day[d]) => s[j] = day[d][j]
      BY <3>1, <3>2, RestShape
    <3> HIDE DEF s
    <3>4. i \in DOMAIN day[d]
      BY <3>1, <3>3
    <3>5. CASE i # Len(day[d])
      <4>1. day[d][i].whole /\ day[d][i].ended
        BY <1>3, <3>4, <3>5 DEF LineOK
      <4> QED
        BY <3>1, <3>3, <3>4, <3>5, <4>1 DEF LineOK
    <3>6. CASE i = Len(day[d])
      <4>1. LastLine(day[d]).records = <<c>>
        BY <1>3, <2>1, <3>2, <3>4, <3>6 DEF LineOK, LastLine
      <4>2. Len(<<c>>) = 1
        OBVIOUS
      <4>3. LastLine(s) = s[i] /\ s[i].whole /\ s[i].ended
        BY <3>3, <3>6, <4>1, <4>2 DEF LastLine
      <4> QED
        BY <3>1, <4>3 DEF LineOK
    <3> QED
      BY <3>5, <3>6
  <2> QED
    BY <2>2, <2>3
<1>10. CASE DayReplaced(c) \/ DayUnlinked(c)
  <2>1. \A b \in Calls : pc[b] # "rest"
    BY <1>10, OneAtRest DEF DayReplaced, DayUnlinked
  <2>2. CASE d # target[c]
    <3>1. day'[d] = day[d]
      BY <1>1, <1>2, <1>10, <2>2 DEF DayReplaced, DayUnlinked, Set
    <3> QED
      BY <1>5, <2>1, <3>1
  <2>3. CASE d = target[c]
    <3>1. day'[d] = <<LineOf(c)>> \/ day'[d] = <<>>
      BY <1>1, <1>10, <2>3 DEF DayReplaced, DayUnlinked, Set
    <3>2. day'[d][i] = LineOf(c)
      BY <3>1
    <3> QED
      BY <3>2 DEF LineOK, LineOf
  <2> QED
    BY <2>2, <2>3
<1>11. CASE DayRemoved(c)
  <2>1. PICK e \in present : day' = Set(day, e, <<>>) /\ linked' = {l \in linked : target[l] # e}
    BY <1>11 DEF DayRemoved
  <2>2. d # e
    BY <1>1, <2>1 DEF Set
  <2>3. day'[d] = day[d]
    BY <1>1, <2>1, <2>2 DEF Set
  <2> QED
    BY <1>4, <1>11, <2>1, <2>2, <2>3 DEF DayRemoved
<1> QED
  BY <1>1, <1>6, <1>7, <1>8, <1>9, <1>10, <1>11 DEF DayReplaced, DayUnlinked, DayRemoved

-----------------------------------------------------------------------------
(* What a call returns.                                                    *)

\* A call that returns reports what it did; only a read finds a malformed line.
LEMMA ResultStep ==
  ASSUME Inv, NEW c \in Calls, Begin(c) \/ Step(c)
  PROVE  \/ result' = result /\ (op' = op \/ result[c] = "none")
         \/ result' = Set(result, c, "error") /\ op' = op
         \/ /\ result' = Set(result, c, "ok") /\ op' = op
            /\ op[c] = "append" => pc[c] = "fsync" /\ target' = target /\ stamp' = stamp
         \/ ReadHistory(c)
<1> USE CallsAssumption
<1>1. Typed /\ StageOK(c) /\ TargetOK(c) /\ ResultOK(c)
  BY TypeTyped DEF Inv, CallOK
<1>2. CASE Begin(c)
  BY <1>1, <1>2, BeginStep DEF ResultOK
<1>3. CASE Fail(c)
  BY <1>3 DEF Fail, Return
<1>4. CASE SeedCheck(c) \/ SeedFile(c)
  <2>1. op' = op /\ op[c] # "append" /\ target[c] \in DOMAIN Files
    BY <1>1, <1>4 DEF SeedCheck, SeedFile, StageOK, TargetOK
  <2>2. CASE NextFile(c, target[c])
    BY <1>1, <2>1, <2>2, NextFileStep DEF Return
  <2>3. CASE result' = result
    BY <2>1, <2>3
  <2> QED
    BY <1>4, <2>2, <2>3 DEF SeedCheck, SeedFile
<1>5. CASE RenameText(c) \/ ReplaceDay(c) \/ RemoveEmptyDir(c) \/ Fsync(c)
  BY <1>1, <1>5 DEF RenameText, ReplaceDay, RemoveEmptyDir, Fsync, Return, StageOK, TextOps
<1>6. CASE ReadHistory(c)
  BY <1>6
<1>7. CASE Inspect(c)
  BY <1>7 DEF Inspect, Return
<1>8. CASE RemoveHistory(c)
  BY <1>1, <1>8 DEF RemoveHistory, Return, StageOK
<1>9. CASE \/ Setup(c) \/ MakeTemp(c) \/ PickDay(c) \/ StampRecord(c) \/ PickDate(c)
           \/ Acquire(c) \/ MakeDir(c)
  BY <1>9 DEF Setup, MakeTemp, PickDay, StampRecord, PickDate, Acquire, MakeDir
<1>10. CASE \/ OpenDay(c) \/ WriteStart(c) \/ WriteRest(c) \/ MakeHistoryTemp(c)
            \/ UnlinkDay(c) \/ Wipe(c)
  BY <1>10 DEF OpenDay, WriteStart, WriteRest, MakeHistoryTemp, UnlinkDay, Wipe
<1> QED
  BY <1>2, <1>3, <1>4, <1>5, <1>6, <1>7, <1>8, <1>9, <1>10 DEF Step

\* A read holds the lock, so no line is half way while it parses.
LEMMA MalformedStep ==
  ASSUME Inv, NEW c \in Calls, Begin(c) \/ Step(c)
  PROVE  MalformedOnlyIfTorn'
<1>1. Typed /\ \A b \in Calls \ {c} : Kept(b)
  BY StepFacts
<1> SUFFICES ASSUME ~TornAppend', NEW b \in Calls, result'[b] = "malformed" PROVE FALSE
  BY DEF MalformedOnlyIfTorn
<1>2. ~TornAppend /\ result[b] # "malformed"
  BY TornKept DEF Inv, MalformedOnlyIfTorn
<1>3. b = c
  BY <1>1, <1>2 DEF Kept
<1>4. ReadHistory(c)
  BY <1>1, <1>2, <1>3, ResultStep DEF Typed, Set
<1>5. PICK d \in Days : Return(c, IF \A i \in DOMAIN day[d] : day[d][i].whole
                                    THEN "ok" ELSE "malformed")
  BY <1>4 DEF ReadHistory
<1>6. pc[c] = "read"
  BY <1>4 DEF ReadHistory
<1>7. \A e \in Calls : pc[e] # "rest"
  BY <1>6, OneAtRest DEF Locked
<1>8. \A i \in DOMAIN day[d] : day[d][i].whole
  BY <1>2, <1>7, AllWhole
<1>9. result' = Set(result, c, "ok")
  BY <1>5, <1>8 DEF Return
<1> QED
  BY <1>1, <1>3, <1>9 DEF Typed, Set

\* The file is named before the timestamp is read, and the clock goes forward.
LEMMA FiledStep ==
  ASSUME Inv, NEW c \in Calls, Begin(c) \/ Step(c)
  PROVE  NeverFiledEarly'
<1>1. Typed /\ \A b \in Calls \ {c} : Kept(b)
  BY StepFacts
<1>2. pc[c] # "done" /\ result[c] = "none" /\ TargetOK(c)
  BY <1>1, StepsBeforeEnd DEF Inv, CallOK, ResultOK
<1> SUFFICES ASSUME NEW b \in Calls, op'[b] = "append", result'[b] = "ok"
             PROVE  target'[b] <= stamp'[b]
  BY DEF NeverFiledEarly
<1>3. CASE b # c
  BY <1>1, <1>3 DEF Kept, Inv, NeverFiledEarly
<1>4. CASE b = c
  <2>1. ~ReadHistory(c)
    <3>1. ASSUME ReadHistory(c) PROVE op'[c] = "read_history"
      BY <3>1 DEF ReadHistory, Inv, CallOK, StageOK
    <3> QED
      BY <1>4, <3>1
  <2>2. /\ result' = Set(result, c, "ok") /\ op' = op
        /\ op[c] = "append" => pc[c] = "fsync" /\ target' = target /\ stamp' = stamp
    BY <1>1, <1>2, <1>4, <2>1, ResultStep DEF Typed, Set
  <2> QED
    BY <1>2, <1>4, <2>2 DEF TargetOK, Locked
<1> QED
  BY <1>3, <1>4

-----------------------------------------------------------------------------
(* What is in the tree.                                                    *)

\* The first bytes of c's record put nothing else on the lines.
LEMMA StartHolds ==
  ASSUME NEW lines \in Seq(Line), NEW c \in Calls, NEW b \in Calls, NEW whole \in BOOLEAN,
         Holds(WithStart(lines, c, whole), b)
  PROVE  b = c \/ Holds(lines, b)
<1>1. Len(lines) \in Nat /\ DOMAIN lines = 1..Len(lines)
      /\ (lines # <<>> => Len(lines) \in DOMAIN lines)
  BY EmptySeq, LenProperties
<1>2. CASE lines # <<>> /\ ~LastLine(lines).ended
  <2> DEFINE v == [records |-> Append(lines[Len(lines)].records, c), whole |-> FALSE,
                   ended |-> FALSE]
             s == [lines EXCEPT ![Len(lines)] = v]
  <2>1. WithStart(lines, c, whole) = s
    BY <1>2 DEF WithStart
  <2>2. lines[Len(lines)].records \in Seq(Calls)
    <3>1. lines[Len(lines)] \in Line
      BY <1>1, <1>2
    <3> QED
      BY <3>1 DEF Line
  <2>3. PICK i \in DOMAIN s : \E k \in DOMAIN s[i].records : s[i].records[k] = b
    BY <2>1 DEF Holds
  <2>4. i \in DOMAIN lines
    BY <2>3
  <2>5. CASE i = Len(lines)
    <3>1. s[i].records = Append(lines[i].records, c)
      BY <2>4, <2>5
    <3>2. PICK k \in DOMAIN Append(lines[i].records, c) : Append(lines[i].records, c)[k] = b
      BY <2>3, <3>1
    <3>3. b = c \/ (k \in DOMAIN lines[i].records /\ lines[i].records[k] = b)
      BY <2>2, <2>5, <3>2, AppendProperties, LenProperties
    <3> QED
      BY <2>4, <3>3 DEF Holds
  <2>6. CASE i # Len(lines)
    BY <2>3, <2>4, <2>6 DEF Holds
  <2> QED
    BY <2>5, <2>6
<1>3. CASE ~(lines # <<>> /\ ~LastLine(lines).ended)
  <2> DEFINE v == [records |-> <<c>>, whole |-> whole, ended |-> FALSE]
             s == Append(lines, v)
  <2>1. WithStart(lines, c, whole) = s
    BY <1>3 DEF WithStart
  <2>2. v \in Line /\ v.records = <<c>>
    BY DEF Line
  <2> HIDE DEF v
  <2>3. PICK i \in DOMAIN s : \E k \in DOMAIN s[i].records : s[i].records[k] = b
    BY <2>1 DEF Holds
  <2>4. s[i] = v \/ (i \in DOMAIN lines /\ s[i] = lines[i])
    BY <1>1, <2>2, <2>3, AppendProperties
  <2>5. CASE s[i] = v
    BY <2>2, <2>3, <2>5
  <2>6. CASE i \in DOMAIN lines /\ s[i] = lines[i]
    BY <2>3, <2>6 DEF Holds
  <2> QED
    BY <2>4, <2>5, <2>6
<1> QED
  BY <1>2, <1>3

\* Nor does the rest of it.
LEMMA RestHolds ==
  ASSUME NEW lines \in Seq(Line), NEW b \in Calls, Holds(WithRest(lines), b)
  PROVE  Holds(lines, b)
  BY DEF Holds, WithRest

\* A text file is emptied or removed, or a call that returns has put its text there.
LEMMA TextStep ==
  ASSUME Inv, NEW c \in Calls, Begin(c) \/ Step(c)
  PROVE  \/ text' = text
         \/ \E f \in FileNames, v \in {"absent", "empty"} : text' = Set(text, f, v)
         \/ \E f \in FileNames : text' = Set(text, f, c) /\ result'[c] = "ok"
<1>1. Typed /\ \A i \in DOMAIN Files : Files[i] \in FileNames
  BY TypeTyped DEF Inv, FileNames
<1>2. pc[c] \in {"seed", "rename"} => target[c] \in DOMAIN Files
  BY DEF Inv, CallOK, TargetOK
<1>3. CASE Begin(c)
  BY <1>3 DEF Begin, tree_vars
<1>4. CASE SeedFile(c)
  BY <1>1, <1>2, <1>4 DEF SeedFile
<1>5. CASE RenameText(c)
  BY <1>1, <1>2, <1>5 DEF RenameText, Return, Typed, Set
<1>6. CASE Wipe(c)
  BY <1>6 DEF Wipe
<1>7. CASE Step(c) /\ ~(SeedFile(c) \/ RenameText(c) \/ Wipe(c))
  BY <1>7 DEF Step, Fail, Setup, SeedCheck, MakeTemp, PickDay, StampRecord, PickDate, Acquire,
         MakeDir, OpenDay, WriteStart, WriteRest, Fsync, MakeHistoryTemp, ReplaceDay, UnlinkDay,
         RemoveEmptyDir, RemoveHistory, ReadHistory, Inspect, tree_vars
<1> QED
  BY <1>3, <1>4, <1>5, <1>6, <1>7

\* What a step puts in the tree is its own call's.
LEMMA InTreeStep ==
  ASSUME Inv, NEW c \in Calls, Begin(c) \/ Step(c), NEW b \in Calls, InTree(b)'
  PROVE  InTree(b) \/ (b = c /\ (result'[c] = "ok" \/ pc[c] = "write"))
<1>1. /\ Typed /\ day \in [Days -> Seq(Line)]
      /\ \/ day' = day
         \/ DayStarted(c) \/ DayEnded(c) \/ DayReplaced(c) \/ DayUnlinked(c) \/ DayRemoved(c)
  BY StepFacts
<1>2. text \in [FileNames -> {"absent", "empty", "old"} \cup Calls]
  BY DEF Inv, TypeOK
<1>3. CASE \E f \in FileNames : text'[f] = b
  <2>1. ASSUME NEW f \in FileNames, NEW g \in FileNames, NEW v
        PROVE  Set(text, f, v)[g] \in {v, text[g]}
    BY <1>2 DEF Set
  <2>2. b \notin {"absent", "empty"}
    BY CallsAssumption
  <2> QED
    BY <1>3, <2>1, <2>2, TextStep DEF InTree
<1>4. ASSUME NEW d \in Days, Holds(day'[d], b)
      PROVE  InTree(b) \/ (b = c /\ (result'[c] = "ok" \/ pc[c] = "write"))
  <2>1. CASE day'[d] = day[d]
    BY <1>4, <2>1 DEF InTree
  <2>2. CASE day'[d] = <<>>
    BY <1>4, <2>2 DEF Holds
  <2>3. CASE DayStarted(c) /\ d = target[c]
    <3>1. PICK whole \in BOOLEAN : day'[d] = WithStart(day[d], c, whole)
      BY <1>1, <2>3 DEF DayStarted, Set
    <3>2. b = c \/ Holds(day[d], b)
      BY <1>1, <1>4, <3>1, StartHolds
    <3> QED
      BY <2>3, <3>2 DEF DayStarted, InTree
  <2>4. CASE DayEnded(c) /\ d = target[c]
    <3>1. day'[d] = WithRest(day[d])
      BY <1>1, <2>4 DEF DayEnded, Set
    <3> QED
      BY <1>1, <1>4, <3>1, RestHolds DEF InTree
  <2>5. CASE DayReplaced(c) /\ d = target[c]
    <3>1. day'[d] = <<LineOf(c)>>
      BY <1>1, <2>5 DEF DayReplaced, Set
    <3>2. b = c
      BY <1>4, <3>1 DEF Holds, LineOf
    <3> QED
      BY <2>5, <3>2 DEF DayReplaced
  <2> QED
    BY <1>1, <2>1, <2>2, <2>3, <2>4, <2>5
       DEF DayStarted, DayEnded, DayReplaced, DayUnlinked, DayRemoved, Set
<1> QED
  BY <1>3, <1>4 DEF InTree

\* So what is there stays an append's, or of a call that returned.
LEMMA PlacedStep ==
  ASSUME Inv, NEW c \in Calls, Begin(c) \/ Step(c)
  PROVE  PlacedOK'
<1> SUFFICES ASSUME NEW b \in Calls, InTree(b)' PROVE Placed(b)'
  BY DEF PlacedOK
<1>1. Typed /\ (b # c => Kept(b)) /\ (InTree(b) => Placed(b))
  BY StepFacts DEF Inv, PlacedOK
<1>2. CASE b # c
  BY <1>1, <1>2, InTreeStep DEF Kept, Placed
<1>3. CASE b = c
  <2>1. pc'[c] # "new" /\ (pc[c] # "new" => op' = op)
    BY <1>1, NewLeft
  <2>2. result[c] # "ok"
    BY <1>1, StepsBeforeEnd DEF Inv, CallOK, ResultOK
  <2>3. pc[c] = "write" => op[c] = "append"
    BY DEF Inv, CallOK, StageOK
  <2> QED
    BY <1>1, <1>3, <2>1, <2>2, <2>3, InTreeStep DEF Placed
<1> QED
  BY <1>2, <1>3

-----------------------------------------------------------------------------
(* The invariant.                                                          *)

\* At first no call has begun and every day is empty.
LEMMA InitInv == Init => Inv
<1> SUFFICES ASSUME Init PROVE Inv
  OBVIOUS
<1> USE CallsAssumption
<1>1. 1 \in Days /\ DOMAIN Files \subseteq Nat
  BY DEF Days
<1>2. Typed
  BY <1>1 DEF Init, Typed, Stages, Ops, StaticOps
<1>3. TreeTyped
  <2>1. [d \in Days |-> <<>>] \in [Days -> Seq(Line)]
    OBVIOUS
  <2> QED
    BY <2>1 DEF Init, TreeTyped
<1>4. TypeOK
  BY <1>2, <1>3, TypeParts DEF Init
<1>5. \A c \in Calls : CallOK(c)
  BY DEF Init, CallOK, StageOK, TargetOK, ResultOK, LockOK, HoldOK, RestOK, Locked
<1>6. TreeOK /\ MalformedOnlyIfTorn /\ NeverFiledEarly
  BY DEF Init, TreeOK, HistoryTemps, MalformedOnlyIfTorn, NeverFiledEarly
<1>7. LinesOK
  BY DEF Init, LinesOK
<1>8. PlacedOK
  BY DEF Init, PlacedOK, InTree, Holds
<1> QED
  BY <1>4, <1>5, <1>6, <1>7, <1>8 DEF Inv

\* A step of a call.
LEMMA CallStep ==
  ASSUME Inv, NEW c \in Calls, Begin(c) \/ Step(c)
  PROVE  Inv'
<1>1. TypeOK /\ Typed /\ Local(c)
  BY TypeTyped DEF Inv, CallOK, Local
<1>2. Typed' /\ TreeTyped' /\ TreeOK'
  BY CallTypes, TreeStep
<1>3. crashed' = crashed
  BY DEF Begin, Step, Fail, Setup, SeedCheck, SeedFile, MakeTemp, RenameText, PickDay,
         StampRecord, PickDate, Acquire, MakeDir, OpenDay, WriteStart, WriteRest, Fsync,
         MakeHistoryTemp, ReplaceDay, UnlinkDay, RemoveEmptyDir, RemoveHistory, ReadHistory,
         Inspect, Wipe
<1>4. TypeOK'
  <2>1. Typed' /\ TreeTyped' /\ crashed' \in BOOLEAN
    BY <1>1, <1>2, <1>3 DEF TypeOK
  <2> QED
    BY <2>1 DEF TypeOK, Typed, TreeTyped, Stages
<1>5. ASSUME NEW b \in Calls PROVE CallOK(b)'
  <2>1. Local(b)'
    <3>1. CASE b = c
      BY <1>1, <3>1, OwnStep
    <3>2. CASE b # c
      <4>1. Kept(b) /\ today' = today /\ Local(b)
        BY <3>2, StepFacts DEF Inv, CallOK, Local
      <4> QED
        BY <4>1 DEF Kept, Local, StageOK, TargetOK, ResultOK, LockOK, HoldOK
    <3> QED
      BY <3>1, <3>2
  <2> QED
    BY <2>1, RestStep DEF CallOK, Local
<1> QED
  BY <1>2, <1>4, <1>5, LinesStep, MalformedStep, FiledStep, PlacedStep DEF Inv

\* The process is killed: an append that was half way is torn.
LEMMA CrashStep ==
  ASSUME Inv, Crash
  PROVE  Inv'
<1> USE DEF Locked
<1>1. Typed /\ TreeTyped
  BY TypeParts DEF Inv
<1>2. /\ \A c \in Calls : pc'[c] = IF Working(c) THEN "lost" ELSE pc[c]
      /\ pc' \in [Calls -> Stages]
      /\ lock' = NoCall /\ linked' = {} /\ crashed' = TRUE
      /\ UNCHANGED <<today, root, text, dir, present, day, temps, op, target, stamp, result>>
  BY <1>1 DEF Crash, tree_vars, Typed, Stages
<1>3. TypeOK'
  <2>1. Typed' /\ TreeTyped' /\ crashed' \in BOOLEAN
    BY <1>1, <1>2 DEF Typed, TreeTyped
  <2> QED
    BY <2>1 DEF TypeOK, Typed, TreeTyped, Stages
<1>4. ASSUME NEW c \in Calls PROVE CallOK(c)'
  <2>1. pc'[c] \in {"new", "done", "lost"} /\ (pc[c] = "done" => pc'[c] = "done")
        /\ (pc[c] \in {"rename", "replace", "lost"} => pc'[c] = "lost")
    BY <1>2 DEF Working
  <2>2. CallOK(c)
    BY DEF Inv
  <2> QED
    BY <1>2, <2>1, <2>2 DEF CallOK, StageOK, TargetOK, ResultOK, LockOK, HoldOK, RestOK
<1>5. TreeOK' /\ NeverFiledEarly'
  BY <1>2 DEF Inv, TreeOK, HistoryTemps, NeverFiledEarly
<1>6. TornAppend => TornAppend'
  <2>1. \A c \in Calls : pc[c] = "lost" => pc'[c] = "lost"
    BY <1>2 DEF Working
  <2> QED
    BY <1>2, <2>1 DEF TornAppend
<1>7. MalformedOnlyIfTorn'
  BY <1>2, <1>6 DEF Inv, MalformedOnlyIfTorn
<1>8. LinesOK'
  <2> SUFFICES ASSUME ~TornAppend', NEW d \in Days, NEW i \in DOMAIN day[d]
               PROVE  LineOK(d, i)'
    BY <1>2 DEF LinesOK
  <2>1. \A c \in Calls : pc[c] # "rest"
    <3>1. ASSUME NEW c \in Calls, pc[c] = "rest" PROVE FALSE
      <4>1. op'[c] = "append" /\ pc'[c] = "lost"
        BY <1>2, <3>1 DEF Inv, CallOK, StageOK, Working
      <4> QED
        BY <4>1 DEF TornAppend
    <3> QED
      BY <3>1
  <2>2. day[d][i].whole /\ day[d][i].ended
    BY <1>6, <2>1, AllWhole
  <2> QED
    BY <1>2, <2>2 DEF LineOK
<1>9. PlacedOK'
  BY <1>2 DEF Inv, PlacedOK, Placed, InTree, Holds, Working
<1> QED
  BY <1>3, <1>4, <1>5, <1>7, <1>8, <1>9 DEF Inv

\* The clock passes midnight.
LEMMA MidnightStep ==
  ASSUME Inv, Midnight
  PROVE  Inv'
<1>1. Typed /\ TreeTyped
  BY TypeParts DEF Inv
<1>2. /\ today' = today + 1 /\ today < LastDay
      /\ UNCHANGED <<root, text, dir, present, day, temps, lock, pc, op, target, stamp, linked,
                     result, crashed>>
  BY DEF Midnight, tree_vars, call_vars
<1>3. today' \in Days /\ today \in Nat
  BY <1>1, <1>2, CallsAssumption DEF Typed, Days
<1>4. TypeOK'
  BY <1>2, <1>3 DEF Inv, TypeOK
<1>5. ASSUME NEW c \in Calls PROVE CallOK(c)'
  <2>1. CallOK(c) /\ (pc[c] = "stamp" => target[c] \in Nat)
    BY <1>1 DEF Inv, CallOK, TargetOK, StageOK, Dated, Days
  <2> QED
    BY <1>2, <1>3, <2>1 DEF CallOK, StageOK, TargetOK, ResultOK, LockOK, HoldOK, RestOK, LastLine
<1>6. TreeOK' /\ NeverFiledEarly' /\ MalformedOnlyIfTorn' /\ LinesOK'
  BY <1>2 DEF Inv, TreeOK, HistoryTemps, NeverFiledEarly, MalformedOnlyIfTorn, TornAppend,
              LinesOK, LineOK
<1>7. PlacedOK'
  BY <1>2 DEF Inv, PlacedOK, Placed, InTree, Holds
<1> QED
  BY <1>4, <1>5, <1>6, <1>7 DEF Inv

\* A step that changes nothing keeps it.
LEMMA StutterStep == ASSUME Inv, UNCHANGED vars PROVE Inv'
<1>1. UNCHANGED <<today, root, text, dir, present, day, temps, lock, pc, op, target, stamp,
                  linked, result, crashed>>
  BY DEF vars, tree_vars, call_vars
<1>2. TypeOK' /\ TreeOK' /\ NeverFiledEarly' /\ MalformedOnlyIfTorn' /\ LinesOK'
  BY <1>1 DEF Inv, TypeOK, TreeOK, HistoryTemps, NeverFiledEarly, MalformedOnlyIfTorn,
              TornAppend, LinesOK, LineOK
<1>3. ASSUME NEW c \in Calls PROVE CallOK(c)'
  BY <1>1 DEF Inv, CallOK, StageOK, TargetOK, ResultOK, LockOK, HoldOK, RestOK, LastLine
<1>4. PlacedOK'
  BY <1>1 DEF Inv, PlacedOK, Placed, InTree, Holds
<1> QED
  BY <1>2, <1>3, <1>4 DEF Inv

\* The invariant holds in every reachable state, whatever fails, is killed or
\* interleaves with what.
THEOREM Invariance == Spec => []Inv
<1>1. Inv /\ [Next]_vars => Inv'
  BY CallStep, CrashStep, MidnightStep, StutterStep DEF Next
<1> QED
  BY InitInv, <1>1, PTL DEF Spec

\* Every variable keeps its type, and the files a tree: no day without its
\* directory and no directory without the workspace.
THEOREM TypeCorrect == Spec => []TypeOK
<1>1. Inv => TypeOK
  BY DEF Inv
<1> QED
  BY <1>1, Invariance, PTL

\* A read fails on a line only if an append was killed or failed half way:
\* whatever else is written, replaced or removed meanwhile leaves whole lines
\* (history.py:136-159 against 246-254).
THEOREM ReadsWholeLines == Spec => []MalformedOnlyIfTorn
<1>1. Inv => MalformedOnlyIfTorn
  BY DEF Inv
<1> QED
  BY <1>1, Invariance, PTL

\* A record is filed under a day its timestamp has reached (history.py:236 and
\* 239).
THEOREM FiledInTime == Spec => []NeverFiledEarly
<1>1. Inv => NeverFiledEarly
  BY DEF Inv
<1> QED
  BY <1>1, Invariance, PTL

\* An update that failed or was killed has changed nothing, and one that
\* returned leaves no temporary file (files.py:20-40 and history.py:216-232).
THEOREM UpdatesAtomic == Spec => []WholeOrNothing
<1>1. Inv => WholeOrNothing
  <2> SUFFICES ASSUME Inv, NEW c \in Calls, op[c] \in {"update", "write_text"}
               PROVE  IF result[c] = "ok" THEN c \notin temps ELSE ~InTree(c)
    BY DEF WholeOrNothing
  <2>1. CASE result[c] = "ok"
    BY <2>1 DEF Inv, CallOK, HoldOK, ResultOK
  <2>2. CASE result[c] # "ok"
    BY <2>2 DEF Inv, PlacedOK, Placed
  <2> QED
    BY <2>1, <2>2
<1> QED
  BY <1>1, Invariance, PTL

-----------------------------------------------------------------------------
(* What was written stays.                                                 *)

\* A line that has its newline stays where it is, unless the step is one of a
\* call that is there to replace or remove the file.
LEMMA EndedLineStays ==
  ASSUME Inv, NEW b \in Calls, Begin(b) \/ Step(b), NEW d \in Days, ~Replaces(b, d),
         NEW i \in DOMAIN day[d], day[d][i].ended
  PROVE  i \in DOMAIN day'[d] /\ day'[d][i] = day[d][i]
<1>1. /\ Typed /\ day \in [Days -> Seq(Line)] /\ present \subseteq Days
      /\ \/ day' = day
         \/ DayStarted(b) \/ DayEnded(b) \/ DayReplaced(b) \/ DayUnlinked(b) \/ DayRemoved(b)
  BY StepFacts
<1>2. RestOK(b) /\ (pc[b] \in {"write", "rest", "replace", "unlink"} => target[b] \in Days)
  BY DEF Inv, CallOK, StageOK, TargetOK, Locked, Dated
<1>3. CASE day'[d] = day[d]
  BY <1>3
<1>4. CASE DayStarted(b) /\ target[b] = d
  <2>1. PICK whole \in BOOLEAN : day' = Set(day, d, WithStart(day[d], b, whole))
    BY <1>4 DEF DayStarted
  <2>2. day'[d] = WithStart(day[d], b, whole) /\ day[d] \in Seq(Line)
    BY <1>1, <2>1 DEF Set
  <2>3. Started(day[d], b, day'[d])
    BY <2>2, StartShape
  <2> QED
    BY <2>3 DEF Started
<1>5. CASE DayEnded(b) /\ target[b] = d
  <2>1. day'[d] = WithRest(day[d]) /\ day[d] \in Seq(Line)
    BY <1>1, <1>5 DEF DayEnded, Set
  <2>2. day[d] # <<>> /\ ~LastLine(day[d]).ended
    BY <1>2, <1>5 DEF DayEnded, RestOK
  <2>3. i # Len(day[d])
    BY <2>2 DEF LastLine
  <2> DEFINE s == WithRest(day[d])
  <2>4. DOMAIN s = DOMAIN day[d] /\ \A j \in DOMAIN day[d] : j # Len(day[d]) => s[j] = day[d][j]
    BY <2>1, <2>2, RestShape
  <2> HIDE DEF s
  <2>5. day'[d] = s
    BY <2>1 DEF s
  <2> QED
    BY <2>3, <2>4, <2>5
<1>6. CASE (DayStarted(b) \/ DayEnded(b) \/ DayReplaced(b) \/ DayUnlinked(b)) /\ target[b] # d
  <2>1. day'[d] = day[d]
    BY <1>1, <1>2, <1>6 DEF DayStarted, DayEnded, DayReplaced, DayUnlinked, Set
  <2> QED
    BY <2>1
<1> QED
  BY <1>1, <1>3, <1>4, <1>5, <1>6 DEF Replaces, DayReplaced, DayUnlinked, DayRemoved

\* A record whose call returned is on its line until a call replaces or removes
\* the day: no crash, failure or torn line of another takes it along
\* (history.py:193-276).
THEOREM WrittenStays == Spec => RecordsKept
<1>1. ASSUME Inv, [Next]_vars,
             NEW c \in Calls, Written(c), LineOf(c) \in LinesOf(target[c]),
             LineOf(c) \notin LinesOf(target[c])'
      PROVE  \E b \in Calls : Replaces(b, target[c])
  <2>1. pc[c] = "done" /\ target[c] \in Days
    BY <1>1 DEF Written, Inv, CallOK, ResultOK, TargetOK
  <2>2. PICK i \in DOMAIN day[target[c]] : day[target[c]][i] = LineOf(c)
    BY <1>1 DEF LinesOf
  <2>3. ~(target' = target /\ day' = day)
    BY <1>1 DEF LinesOf
  <2>4. PICK b \in Calls : Begin(b) \/ Step(b)
    BY <1>1, <2>3 DEF Next, Crash, Midnight, tree_vars, call_vars, vars
  <2>5. target'[c] = target[c]
    BY <1>1, <2>1, <2>4, StepFacts, StepsBeforeEnd DEF Kept
  <2>6. Replaces(b, target[c])
    <3>1. SUFFICES ASSUME ~Replaces(b, target[c]) PROVE FALSE
      OBVIOUS
    <3>2. day[target[c]][i].ended
      BY <2>2 DEF LineOf
    <3>3. i \in DOMAIN day'[target[c]] /\ day'[target[c]][i] = LineOf(c)
      BY <1>1, <2>1, <2>2, <2>4, <3>1, <3>2, EndedLineStays
    <3> QED
      BY <1>1, <2>5, <3>3 DEF LinesOf
  <2> QED
    BY <2>6
<1>2. Inv /\ [Next]_vars =>
        [\A c \in Calls :
           Written(c) /\ LineOf(c) \in LinesOf(target[c]) /\ LineOf(c) \notin LinesOf(target[c])' =>
             \E b \in Calls : Replaces(b, target[c])]_vars
  BY <1>1
<1> QED
  BY <1>2, Invariance, PTL DEF Spec, RecordsKept
=============================================================================
