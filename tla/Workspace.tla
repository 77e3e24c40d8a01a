------------------------------ MODULE Workspace ------------------------------
(***************************************************************************)
(* The files of one workspace and the calls made on them at once: the      *)
(* daily histories of kernel/amnesia_agent_kernel/workspace/history.py,    *)
(* the prompt and memory files of workspace/files.py, and the repair,      *)
(* creation and hard reset of workspace/__init__.py.                       *)
(*                                                                         *)
(* Every call runs in a thread of its own and an action is one of its      *)
(* steps on the file system.  Histories share a lock; the text files, and  *)
(* the static functions the server repairs and resets with, take none.     *)
(* The static functions and an append, whose turn opened the workspace     *)
(* long before, go straight to work; every other call opens the workspace  *)
(* first, which repairs it.                                                *)
(* Any step on the disk may fail, and the process may be killed between    *)
(* two steps; what it wrote until then stays.                              *)
(***************************************************************************)
EXTENDS Naturals, Sequences

CONSTANTS
  Calls,      \* calls on the workspace
  OpsOf,      \* what each of them may be for
  Files,      \* WORKSPACE_FILES, in the order they are repaired in
  LastDay,    \* bound on the days the clock passes
  NoCall      \* the holder of a free lock

HistoryOps == {"append", "update", "clear", "reset_history", "read_history"}
TextOps == {"write_text"}
StaticOps == {"repair", "create", "reset"}
Ops == HistoryOps \cup TextOps \cup StaticOps

ASSUME CallsAssumption ==
  /\ OpsOf \in [Calls -> SUBSET Ops]
  /\ Files \in Seq(STRING) \ {<<>>}
  /\ LastDay \in Nat \ {0}
  /\ NoCall \notin Calls
  /\ Calls \cap {"absent", "empty", "old"} = {}

Days == 1..LastDay

FileNames == {Files[i] : i \in DOMAIN Files}

VARIABLES
  today,     \* the UTC date
  root,      \* the workspace directory exists
  text,      \* each text file: "absent", "empty", "old", or the call it is from
  dir,       \* the history directory exists
  present,   \* days that have a file
  day,       \* the lines of each day's file, none while it has no file
  temps,     \* calls whose temporary file exists
  lock,      \* the call that holds the history lock
  pc,        \* the step each call is at
  op,        \* what it was called for
  target,    \* the day or text file it works on
  stamp,     \* the day of the timestamp its record was given
  linked,    \* calls whose open day file is still in the tree
  result,    \* what it returned
  crashed    \* the process was killed

tree_vars == <<root, text, dir, present, day, temps>>
call_vars == <<pc, op, target, stamp, linked, result>>
vars == <<today, tree_vars, lock, call_vars, crashed>>

\* A line by the records on it, whether it is the whole of one, and whether it
\* has its newline.
Line == [records: Seq(Calls), whole: BOOLEAN, ended: BOOLEAN]
LineOf(c) == [records |-> <<c>>, whole |-> TRUE, ended |-> TRUE]

Set(f, c, v) == [f EXCEPT ![c] = v]
Goto(c, step) == pc' = Set(pc, c, step)

Init ==
  /\ today = 1
  /\ root = TRUE
  /\ text = [f \in FileNames |-> "old"]
  /\ dir = FALSE
  /\ present = {}
  /\ day = [d \in Days |-> <<>>]
  /\ temps = {}
  /\ lock = NoCall
  /\ pc = [c \in Calls |-> "new"]
  /\ op = [c \in Calls |-> "repair"]
  /\ target = [c \in Calls |-> 1]
  /\ stamp = [c \in Calls |-> 1]
  /\ linked = {}
  /\ result = [c \in Calls |-> "none"]
  /\ crashed = FALSE

-----------------------------------------------------------------------------
(* How a call begins and ends.                                             *)

\* What a call does once it has opened the workspace, or found it open.
FirstStep(o) ==
  CASE o = "append"                           -> "day"
    [] o \in {"update", "clear"}              -> "date"
    [] o \in {"reset_history", "read_history"} -> "lock"
    [] o \in TextOps                          -> "mktemp"

Begin(c) ==
  /\ pc[c] = "new"
  /\ \E o \in OpsOf[c] :
       /\ op' = Set(op, c, o)
       /\ Goto(c, CASE o = "append"               -> FirstStep(o)
                    [] o \in {"create", "reset"} -> "inspect"
                    [] OTHER                    -> "setup")
  /\ UNCHANGED <<today, tree_vars, lock, target, stamp, linked, result, crashed>>

\* Mutant: the lock is released on success only.
ReturnHoldingLock(c, value) ==
  /\ Goto(c, "done")
  /\ result' = Set(result, c, value)
  /\ lock' = IF lock = c /\ value # "error" THEN NoCall ELSE lock
  /\ linked' = linked \ {c}

\* The call returns or raises; `with self._history_lock` lets go.
Return(c, value) ==
  /\ Goto(c, "done")
  /\ result' = Set(result, c, value)
  /\ lock' = IF lock = c THEN NoCall ELSE lock
  /\ linked' = linked \ {c}

Working(c) == pc[c] \notin {"new", "done", "lost"}

\* A step on the disk raises: WorkspaceError, and `finally` unlinks the
\* temporary file, unless that fails too: `except OSError: pass`.
Fail(c) ==
  /\ Working(c) /\ pc[c] # "lock"
  /\ temps' \in {temps, temps \ {c}}
  /\ Return(c, "error")
  /\ UNCHANGED <<today, root, text, dir, present, day, op, target, stamp, crashed>>

\* The process is killed: locks go, files stay.
Crash ==
  /\ ~crashed
  /\ crashed' = TRUE
  /\ pc' = [c \in Calls |-> IF Working(c) THEN "lost" ELSE pc[c]]
  /\ lock' = NoCall
  /\ linked' = {}
  /\ UNCHANGED <<today, tree_vars, op, target, stamp, result>>

Midnight ==
  /\ today < LastDay
  /\ today' = today + 1
  /\ UNCHANGED <<tree_vars, lock, call_vars, crashed>>

-----------------------------------------------------------------------------
(* setup_workspace_files.                                                  *)

\* What follows once the files are there.
AfterSetup(c) ==
  IF op[c] \in StaticOps
    THEN Return(c, "ok")
    ELSE Goto(c, FirstStep(op[c])) /\ UNCHANGED <<lock, linked, result>>

\* root.mkdir, then _cleanup_stale_temps.
Setup(c) ==
  /\ pc[c] = "setup"
  /\ root' = TRUE
  /\ temps' = {t \in temps : op[t] \notin TextOps}
  /\ target' = Set(target, c, 1)
  /\ Goto(c, "exists")
  /\ UNCHANGED <<today, text, dir, present, day, lock, op, stamp, linked, result, crashed>>

\* The loop over the files is past file i.
NextFile(c, i) ==
  IF i < Len(Files)
    THEN target' = Set(target, c, i + 1) /\ Goto(c, "exists")
         /\ UNCHANGED <<lock, linked, result>>
    ELSE UNCHANGED target /\ AfterSetup(c)

\* `if not path.exists()`.
SeedCheck(c) ==
  /\ pc[c] = "exists"
  /\ IF text[Files[target[c]]] = "absent"
       THEN Goto(c, "seed") /\ UNCHANGED <<target, lock, linked, result>>
       ELSE NextFile(c, target[c])
  /\ UNCHANGED <<today, tree_vars, op, stamp, crashed>>

\* path.write_text(""), which truncates whatever is there by now.
SeedFile(c) ==
  /\ pc[c] = "seed"
  /\ root
  /\ text' = Set(text, Files[target[c]], "empty")
  /\ NextFile(c, target[c])
  /\ UNCHANGED <<today, root, dir, present, day, temps, op, stamp, crashed>>

-----------------------------------------------------------------------------
(* write_text.                                                             *)

\* Mutant: the content goes to the file itself, and a close follows.
MakeTempInPlace(c) ==
  /\ pc[c] = "mktemp"
  /\ root
  /\ \E i \in DOMAIN Files :
       target' = Set(target, c, i) /\ text' = Set(text, Files[i], c)
  /\ temps' = temps \cup {c}
  /\ Goto(c, "rename")
  /\ UNCHANGED <<today, root, dir, present, day, lock, op, stamp, linked, result, crashed>>

\* mkstemp beside the file, and the content written to it.
MakeTemp(c) ==
  /\ pc[c] = "mktemp"
  /\ root
  /\ \E i \in DOMAIN Files : target' = Set(target, c, i)
  /\ temps' = temps \cup {c}
  /\ Goto(c, "rename")
  /\ UNCHANGED <<today, root, text, dir, present, day, lock, op, stamp, linked, result, crashed>>

\* os.replace, if nobody removed the temporary file.
RenameText(c) ==
  /\ pc[c] = "rename"
  /\ c \in temps
  /\ text' = Set(text, Files[target[c]], c)
  /\ temps' = temps \ {c}
  /\ Return(c, "ok")
  /\ UNCHANGED <<today, root, dir, present, day, op, target, stamp, crashed>>

-----------------------------------------------------------------------------
(* Histories.                                                              *)

\* Mutant: the file is named by the local date, a day ahead of UTC.
PickDayLocal(c) ==
  /\ pc[c] = "day"
  /\ target' = Set(target, c, IF today < LastDay THEN today + 1 ELSE today)
  /\ Goto(c, "stamp")
  /\ UNCHANGED <<today, tree_vars, lock, op, stamp, linked, result, crashed>>

\* append_history names the file first, and reads the clock again for the
\* timestamp; both before it takes the lock.
PickDay(c) ==
  /\ pc[c] = "day"
  /\ target' = Set(target, c, today)
  /\ Goto(c, "stamp")
  /\ UNCHANGED <<today, tree_vars, lock, op, stamp, linked, result, crashed>>

StampRecord(c) ==
  /\ pc[c] = "stamp"
  /\ stamp' = Set(stamp, c, today)
  /\ Goto(c, "lock")
  /\ UNCHANGED <<today, tree_vars, lock, op, target, linked, result, crashed>>

\* update_history works on the date it is given, or on today's.
PickDate(c) ==
  /\ pc[c] = "date"
  /\ \E d \in Days : target' = Set(target, c, d)
  /\ Goto(c, "lock")
  /\ UNCHANGED <<today, tree_vars, lock, op, stamp, linked, result, crashed>>

\* What each operation does under the lock.
LockedStep(o) ==
  CASE o \in {"append", "update"} -> "mkdir"
    [] o = "clear"                -> "unlink"
    [] o = "reset_history"        -> "rmtree"
    [] o = "read_history"         -> "read"

\* Mutant: a read does not take the lock.
AcquireForWriting(c) ==
  /\ pc[c] = "lock"
  /\ lock = NoCall \/ op[c] = "read_history"
  /\ lock' = IF op[c] = "read_history" THEN lock ELSE c
  /\ Goto(c, LockedStep(op[c]))
  /\ UNCHANGED <<today, tree_vars, op, target, stamp, linked, result, crashed>>

Acquire(c) ==
  /\ pc[c] = "lock"
  /\ lock = NoCall
  /\ lock' = c
  /\ Goto(c, LockedStep(op[c]))
  /\ UNCHANGED <<today, tree_vars, op, target, stamp, linked, result, crashed>>

MakeDir(c) ==
  /\ pc[c] = "mkdir"
  /\ root' = TRUE
  /\ dir' = TRUE
  /\ Goto(c, IF op[c] = "append" THEN "open" ELSE "mkstemp")
  /\ UNCHANGED <<today, text, present, day, temps, lock, op, target, stamp, linked, result,
                 crashed>>

\* Mutant: the file is opened with mode "w".
OpenDayTruncating(c) ==
  /\ pc[c] = "open"
  /\ dir
  /\ present' = present \cup {target[c]}
  /\ day' = Set(day, target[c], <<>>)
  /\ linked' = linked \cup {c}
  /\ Goto(c, "write")
  /\ UNCHANGED <<today, root, text, dir, temps, lock, op, target, stamp, result, crashed>>

\* path.open("a") creates the file, unless the directory has gone again.
OpenDay(c) ==
  /\ pc[c] = "open"
  /\ dir
  /\ present' = present \cup {target[c]}
  /\ linked' = linked \cup {c}
  /\ Goto(c, "write")
  /\ UNCHANGED <<today, root, text, dir, day, temps, lock, op, target, stamp, result, crashed>>

LastLine(lines) == lines[Len(lines)]

\* What the file holds after the first bytes of c's record: a line of its own,
\* or more of a line whose newline was never written.
WithStart(lines, c, whole) ==
  IF lines # <<>> /\ ~LastLine(lines).ended
    THEN [lines EXCEPT ![Len(lines)] =
            [records |-> Append(@.records, c), whole |-> FALSE, ended |-> FALSE]]
    ELSE Append(lines, [records |-> <<c>>, whole |-> whole, ended |-> FALSE])

\* The rest of it, up to the newline.
WithRest(lines) ==
  [lines EXCEPT ![Len(lines)] =
     [records |-> @.records, whole |-> Len(@.records) = 1, ended |-> TRUE]]

\* A prefix of the line reaches the file: part of the record, or all of it but
\* the newline.  A file that was removed meanwhile takes it with it.
WriteStart(c) ==
  /\ pc[c] = "write"
  /\ \E whole \in BOOLEAN :
       day' = IF c \in linked
                THEN Set(day, target[c], WithStart(day[target[c]], c, whole))
                ELSE day
  /\ Goto(c, "rest")
  /\ UNCHANGED <<today, root, text, dir, present, temps, lock, op, target, stamp, linked, result,
                 crashed>>

WriteRest(c) ==
  /\ pc[c] = "rest"
  /\ day' = IF c \in linked THEN Set(day, target[c], WithRest(day[target[c]])) ELSE day
  /\ Goto(c, "fsync")
  /\ UNCHANGED <<today, root, text, dir, present, temps, lock, op, target, stamp, linked, result,
                 crashed>>

Fsync(c) ==
  /\ pc[c] = "fsync"
  /\ Return(c, "ok")
  /\ UNCHANGED <<today, tree_vars, op, target, stamp, crashed>>

\* update_history with messages: mkstemp in the history directory, write, fsync.
MakeHistoryTemp(c) ==
  /\ pc[c] = "mkstemp"
  /\ dir
  /\ temps' = temps \cup {c}
  /\ Goto(c, "replace")
  /\ UNCHANGED <<today, root, text, dir, present, day, lock, op, target, stamp, linked, result,
                 crashed>>

\* os.replace.
ReplaceDay(c) ==
  /\ pc[c] = "replace"
  /\ c \in temps
  /\ temps' = temps \ {c}
  /\ present' = present \cup {target[c]}
  /\ day' = Set(day, target[c], <<LineOf(c)>>)
  /\ Return(c, "ok")
  /\ UNCHANGED <<today, root, text, dir, op, target, stamp, crashed>>

HistoryTemps == {t \in temps : op[t] = "update"}

\* update_history without messages: unlink, then rmdir if nothing is left.
UnlinkDay(c) ==
  /\ pc[c] = "unlink"
  /\ present' = present \ {target[c]}
  /\ day' = Set(day, target[c], <<>>)
  /\ Goto(c, "rmdir")
  /\ UNCHANGED <<today, root, text, dir, temps, lock, op, target, stamp, linked, result, crashed>>

\* Mutant: the directory goes whatever is in it.
RemoveAnyDir(c) ==
  /\ pc[c] = "rmdir"
  /\ dir' = FALSE
  /\ Return(c, "ok")
  /\ UNCHANGED <<today, root, text, present, day, temps, op, target, stamp, crashed>>

RemoveEmptyDir(c) ==
  /\ pc[c] = "rmdir"
  /\ dir' = (dir /\ (present # {} \/ HistoryTemps # {}))
  /\ Return(c, "ok")
  /\ UNCHANGED <<today, root, text, present, day, temps, op, target, stamp, crashed>>

\* One step of a removal: a day's file goes, with the end of it that another
\* call has open; or a temporary file; or the directory once it is empty.
RemoveHistoryEntry ==
  \/ \E d \in present :
       /\ present' = present \ {d}
       /\ day' = Set(day, d, <<>>)
       /\ linked' = {l \in linked : target[l] # d}
       /\ UNCHANGED <<dir, temps>>
  \/ \E t \in HistoryTemps : temps' = temps \ {t} /\ UNCHANGED <<present, day, linked, dir>>
  \/ /\ dir /\ present = {} /\ HistoryTemps = {}
     /\ dir' = FALSE
     /\ UNCHANGED <<present, day, linked, temps>>

\* reset_history: rmtree of the history directory.
RemoveHistory(c) ==
  /\ pc[c] = "rmtree"
  /\ \/ /\ dir /\ RemoveHistoryEntry
        /\ UNCHANGED <<lock, pc, result>>
     \/ /\ ~dir /\ Return(c, "ok")
        /\ UNCHANGED <<present, day, dir, temps>>
  /\ UNCHANGED <<today, root, text, op, target, stamp, crashed>>

\* The lines are parsed one by one; one that is not a message fails them all.
ReadHistory(c) ==
  /\ pc[c] = "read"
  /\ \E d \in Days :
       Return(c, IF \A i \in DOMAIN day[d] : day[d][i].whole THEN "ok" ELSE "malformed")
  /\ UNCHANGED <<today, tree_vars, op, target, stamp, crashed>>

-----------------------------------------------------------------------------
(* create_workspace and create_or_reset_workspace.                         *)

EmptyRoot == (\A f \in FileNames : text[f] = "absent") /\ ~dir /\ temps = {}

Inspect(c) ==
  /\ pc[c] = "inspect"
  /\ \/ /\ ~root \/ (op[c] = "create" /\ EmptyRoot)
        /\ Goto(c, "setup")
        /\ UNCHANGED <<lock, linked, result>>
     \/ /\ root /\ op[c] = "create" /\ ~EmptyRoot
        /\ Return(c, "error")
     \/ /\ root /\ op[c] = "reset"
        /\ Goto(c, "wipe")
        /\ UNCHANGED <<lock, linked, result>>
  /\ UNCHANGED <<today, tree_vars, op, target, stamp, crashed>>

\* rmtree of the whole workspace, without the lock; then setup.
Wipe(c) ==
  /\ pc[c] = "wipe"
  /\ \/ RemoveHistoryEntry /\ UNCHANGED <<root, text, pc>>
     \/ /\ \E f \in FileNames : text[f] # "absent" /\ text' = Set(text, f, "absent")
        /\ UNCHANGED <<root, dir, present, day, temps, linked, pc>>
     \/ /\ \E t \in temps \ HistoryTemps : temps' = temps \ {t}
        /\ UNCHANGED <<root, text, dir, present, day, linked, pc>>
     \/ /\ root /\ EmptyRoot
        /\ root' = FALSE
        /\ Goto(c, "setup")
        /\ UNCHANGED <<text, dir, present, day, temps, linked>>
  /\ UNCHANGED <<today, lock, op, target, stamp, result, crashed>>

-----------------------------------------------------------------------------
Step(c) ==
  \/ Fail(c) \/ Setup(c) \/ SeedCheck(c) \/ SeedFile(c)
  \/ MakeTemp(c) \/ RenameText(c)
  \/ PickDay(c) \/ StampRecord(c) \/ PickDate(c) \/ Acquire(c) \/ MakeDir(c)
  \/ OpenDay(c) \/ WriteStart(c) \/ WriteRest(c) \/ Fsync(c)
  \/ MakeHistoryTemp(c) \/ ReplaceDay(c) \/ UnlinkDay(c) \/ RemoveEmptyDir(c)
  \/ RemoveHistory(c) \/ ReadHistory(c) \/ Inspect(c) \/ Wipe(c)

Next == Crash \/ Midnight \/ \E c \in Calls : Begin(c) \/ Step(c)

Spec == Init /\ [][Next]_vars

\* A thread that can go on does; a file system call returns.
Fairness == \A c \in Calls : WF_vars(Step(c))

FairSpec == Spec /\ Fairness
-----------------------------------------------------------------------------
(* Properties.                                                             *)

\* Every variable ranges over the values the code can give it, and the files
\* form a tree.
TypeOK ==
  /\ today \in Days
  /\ root \in BOOLEAN
  /\ text \in [FileNames -> {"absent", "empty", "old"} \cup Calls]
  /\ dir \in BOOLEAN
  /\ present \subseteq Days
  /\ day \in [Days -> Seq(Line)]
  /\ temps \subseteq Calls
  /\ lock \in Calls \cup {NoCall}
  /\ pc \in [Calls -> {"new", "setup", "exists", "seed", "mktemp", "rename", "day", "stamp",
                       "date", "lock", "mkdir", "open", "write", "rest", "fsync", "mkstemp",
                       "replace", "unlink", "rmdir", "rmtree", "read", "inspect", "wipe", "done", "lost"}]
  /\ op \in [Calls -> Ops]
  /\ target \in [Calls -> Days \cup DOMAIN Files]
  /\ stamp \in [Calls -> Days]
  /\ linked \subseteq Calls
  /\ result \in [Calls -> {"none", "ok", "error", "malformed"}]
  /\ crashed \in BOOLEAN
  /\ present # {} => dir
  /\ dir => root

LinesOf(d) == {day[d][i] : i \in DOMAIN day[d]}

Written(c) == op[c] \in {"append", "update"} /\ result[c] = "ok"

Replaces(b, d) ==
  pc[b] \in {"rmtree", "wipe"} \/ (pc[b] \in {"replace", "unlink"} /\ target[b] = d)

\* The line of a record whose call returned stays in its day's file as it is,
\* whatever crashes, fails or is torn after it, until a call that is there to
\* replace or remove that file does so (history.py:193-276).
RecordsKept ==
  [][\A c \in Calls :
       Written(c) /\ LineOf(c) \in LinesOf(target[c]) /\ LineOf(c) \notin LinesOf(target[c])' =>
         \E b \in Calls : Replaces(b, target[c])]_vars

\* A day can be unreadable only because an append was killed or failed half
\* way: no read sees another call's half-written line (history.py:136-159
\* against 246-254).
TornAppend == \E c \in Calls : op[c] = "append" /\ (pc[c] = "lost" \/ result[c] = "error")
MalformedOnlyIfTorn == (\E c \in Calls : result[c] = "malformed") => TornAppend

\* No record is filed under a day that its timestamp has not reached, though
\* the two come from two readings of the clock (history.py:236 and 239).
NeverFiledEarly ==
  \A c \in Calls : op[c] = "append" /\ result[c] = "ok" => target[c] <= stamp[c]

\* Something of call c's is in a text file or on a line of a day.
Holds(lines, c) ==
  \E i \in DOMAIN lines : \E k \in DOMAIN lines[i].records : lines[i].records[k] = c
InTree(c) == (\E f \in FileNames : text[f] = c) \/ \E d \in Days : Holds(day[d], c)

\* An update of a file or of a day is done or it is not: before it returns
\* nothing of it can be read, and nothing ever if it failed or was killed at
\* any step; and one that returned leaves no temporary file, which a failed or
\* killed one may (files.py:20-40 and history.py:216-232).
WholeOrNothing ==
  \A c \in Calls :
    op[c] \in {"update", "write_text"} =>
      IF result[c] = "ok" THEN c \notin temps ELSE ~InTree(c)

\* Every call ends: the lock is given back on every path.
CallsReturn == \A c \in Calls : Working(c) ~> ~Working(c)

-----------------------------------------------------------------------------
(* What the documentation says, and the code does not do.                  *)

\* setup_or_repair_workspace "Does not wipe existing file content"
\* (workspace/__init__.py:42): a file that is there is not emptied.
RepairKeepsContent ==
  [][\A c \in Calls, f \in FileNames :
       op[c] = "repair" /\ SeedFile(c) /\ text[f] \in Calls \cup {"old"} => text'[f] = text[f]]_vars
=============================================================================
