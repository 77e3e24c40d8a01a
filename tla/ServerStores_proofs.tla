------------------------- MODULE ServerStores_proofs -------------------------
(***************************************************************************)
(* The safety properties of ServerStores, for any requests beside each     *)
(* other, any fields and any lifetime of a code.                           *)
(*                                                                         *)
(* The two files are kept by different means.  The token file has one      *)
(* writer at a time, which holds the manager's lock from the code to the   *)
(* end of the write; the configuration has as many as there are requests,  *)
(* and what is true of it is true while they have not overlapped.          *)
(***************************************************************************)
EXTENDS ServerStores, TLAPS

-----------------------------------------------------------------------------
(* The inductive invariant.                                                *)

Writing == {"truncate", "write", "rename"}
Section == WriteSteps \cup {"devices", "unlink"}
Pairing(c) == op[c] = "pair"

\* Which operations get to which steps, and who has a file open.
StepOK ==
  \A c \in Calls :
    /\ pc[c] \in {"exists", "load"} => op[c] \in ConfigOps
    /\ pc[c] \in {"lock", "devices"} => Pairing(c)
    /\ op[c] = "authenticate" => pc[c] \in {"new", "done", "lost"}
    /\ where[c] # "closed" <=> pc[c] = "write"
    /\ out[c].state = "whole"
    /\ pc[c] \in {"new", "exists"} => out[c] = Blank("whole")

\* A call that pairs holds the lock from the code to the end of its write.
LockOK == \A c \in Calls : holder = c <=> Pairing(c) /\ pc[c] \in Section

\* The holder's temporary file is its own, and becomes what it is to write.
TokenWriteOK ==
  \A c \in Calls : Pairing(c) =>
    /\ pc[c] = "write" => where[c] = "temp" /\ temp["tokens"] = Blank("empty")
    /\ pc[c] = "rename" => temp["tokens"] = out[c]
    /\ pc[c] \in Writing =>
         /\ c \in out[c].devices
         /\ out[c].devices \subseteq Listed \cup {c}
         /\ ~unread => Listed \subseteq out[c].devices
    /\ pc[c] = "chmod" => c \in Listed

\* As long as writers did not overlap, the one there is has its temporary file to
\* itself, unless a failed call that came before it unlinks it.
ConfigWriteOK ==
  ~overlapped => \A c \in Calls : ~Pairing(c) =>
    /\ pc[c] \in {"write", "rename"} =>
         \A b \in Calls \ {c} : ~Pairing(b) => pc[b] \notin {"write", "rename"}
    /\ pc[c] = "write" =>
         \/ where[c] = "temp" /\ temp["config"] = Blank("empty")
         \/ where[c] = "gone" /\ temp["config"] = Blank("absent")
    /\ pc[c] = "rename" => temp["config"] \in {out[c], Blank("absent")}

\* What there is now, a request on its way has seen; and what one is to write of the
\* fields it was not given, it has seen together.
HeldOK ==
  \A c \in Calls : op[c] \in ConfigOps /\ Working(c) =>
    /\ Held(file["config"]) \subseteq held[c]
    /\ op[c] # "reset" /\ pc[c] \in Writing =>
         \E h \in held[c] : \A f \in Fields \ sets[c] : out[c].fields[f] = h[f]

\* A device in the file, or about to be, presented a code that is no longer it.
Spent == Listed \cup {c \in Calls : holder = c}
SpentOK ==
  /\ \A c \in Spent : pc[c] # "new" /\ presented[c] < code
  /\ \A b, c \in Spent : presented[b] = presented[c] => b = c

IInv ==
  /\ TypeOK /\ StepOK /\ LockOK
  /\ TokenWriteOK /\ ConfigWriteOK /\ HeldOK /\ SpentOK
  /\ TornOnlyIfOverlapped /\ PairedStaysPaired

-----------------------------------------------------------------------------
(* What is written.                                                        *)

\* Contents are contents: a blank one, a configuration, a list of devices.
LEMMA ContentType ==
  /\ \A state \in {"absent", "empty", "torn", "whole"} : Blank(state) \in Content
  /\ \A fields \in [Fields -> Setter] : Config(fields) \in Content
  /\ \A devices \in SUBSET Calls : Devices(devices) \in Content
  BY DEF Blank, Config, Devices, Content, DEFAULTS, Setter

\* What tells them apart.
LEMMA ContentFields ==
  /\ \A state \in {"absent", "empty", "torn", "whole"} :
       Blank(state).state = state /\ Blank(state).fields = DEFAULTS /\ Blank(state).devices = {}
  /\ \A fields \in [Fields -> Setter] :
       Config(fields).state = "whole" /\ Config(fields).fields = fields
  /\ \A devices \in SUBSET Calls :
       Devices(devices).state = "whole" /\ Devices(devices).devices = devices
<1>1. \A state \in {"absent", "empty", "torn", "whole"} :
        Blank(state).state = state /\ Blank(state).fields = DEFAULTS /\ Blank(state).devices = {}
  BY DEF Blank
<1>2. ASSUME NEW b \in Content
      PROVE  /\ \A fields \in [Fields -> Setter] :
                  LET d == [b EXCEPT !.fields = fields]
                  IN  d.state = b.state /\ d.fields = fields
             /\ \A devices \in SUBSET Calls :
                  LET d == [b EXCEPT !.devices = devices]
                  IN  d.state = b.state /\ d.devices = devices
  BY DEF Content
<1>3. Blank("whole") \in Content
  BY ContentType
<1> QED
  BY <1>1, <1>2, <1>3 DEF Config, Devices

\* A call that returns keeps the types (the end of every request).
LEMMA ReturnType ==
  ASSUME TypeOK, NEW c \in Calls, NEW value \in {"ok", "error", "malformed", "refused"},
         Return(c, value)
  PROVE  /\ pc' \in [Calls -> WriteSteps \cup {"new", "unlink", "exists", "load", "lock",
                                               "devices", "done", "lost"}]
         /\ result' \in [Calls -> {"none", "ok", "error", "malformed", "refused"}]
         /\ out' \in [Calls -> Content]
         /\ holder' \in Calls \cup {NoCall}
         /\ held' \in [Calls -> SUBSET [Fields -> Setter]]
  BY ContentType DEF TypeOK, Return, Goto, Set

\* What a file holds is a configuration, if it is one; and so is all that was seen.
LEMMA HeldType ==
  ASSUME TypeOK
  PROVE  /\ \A x \in Content : Held(x) \subseteq [Fields -> Setter]
         /\ file' \in [Names -> Content] /\ Observe => held' \in [Calls -> SUBSET [Fields -> Setter]]
<1>1. \A x \in Content : Held(x) \subseteq [Fields -> Setter]
  BY DEF Held, Content, DEFAULTS, Setter
<1>2. ASSUME file' \in [Names -> Content], Observe
      PROVE  held' \in [Calls -> SUBSET [Fields -> Setter]]
  <2>1. Held(file'["config"]) \subseteq [Fields -> Setter]
    BY <1>1, <1>2 DEF Names
  <2> QED
    BY <1>2, <2>1 DEF Observe, TypeOK
<1> QED
  BY <1>1, <1>2

\* Bytes that reach a file make a content of it (config.py:82-90).
LEMMA PutBytesType ==
  ASSUME TypeOK, NEW c \in Calls, NEW fails \in BOOLEAN, PutBytes(c, fails)
  PROVE  /\ file' \in [Names -> Content] /\ temp' \in [Names -> Content]
         /\ where' \in [Calls -> {"closed", "temp", "file", "gone"}]
         /\ held' \in [Calls -> SUBSET [Fields -> Setter]]
<1>1. ASSUME NEW x \in Content PROVE After(x, c, fails) \subseteq Content
  BY <1>1, ContentType DEF After, TypeOK
<1>2. NameOf(c) \in Names
  BY DEF NameOf, Names
<1>3. /\ file' \in [Names -> Content] /\ temp' \in [Names -> Content]
      /\ where' \in [Calls -> {"closed", "temp", "file", "gone"}]
  BY <1>1, <1>2 DEF PutBytes, TypeOK, Set
<1>4. held' \in [Calls -> SUBSET [Fields -> Setter]]
  BY <1>3, HeldType DEF PutBytes, TypeOK
<1> QED
  BY <1>3, <1>4

\* Rotating the code lets the clock be behind its expiry by a lifetime at most.
LEMMA RotateType ==
  ASSUME TypeOK, NEW at \in 0..now, Rotate(at)
  PROVE  /\ code' \in Nat /\ expires' \in 0..(now + TTL) /\ code' > code
  BY StoresAssumption DEF Rotate, TypeOK

\* No step takes a variable out of its type.
LEMMA TypeStep == TypeOK /\ [Next]_vars => TypeOK'
<1> SUFFICES ASSUME TypeOK, [Next]_vars PROVE TypeOK'
  OBVIOUS
<1> USE DEF disk_vars, code_vars, input_vars, once_vars
<1>1. ASSUME NEW c \in Calls, BeginConfig(c) PROVE TypeOK'
  <2>1. sets' \in [Calls -> SUBSET Fields] /\ held' \in [Calls -> SUBSET [Fields -> Setter]]
    BY <1>1, HeldType DEF BeginConfig, TypeOK, Set, Names
  <2> QED
    BY <1>1, <2>1 DEF BeginConfig, TypeOK, Goto, Set, WriteSteps
<1>2. ASSUME NEW c \in Calls, BeginPair(c) PROVE TypeOK'
  BY <1>2 DEF BeginPair, TypeOK, Goto, Set
<1>3. ASSUME NEW c \in Calls, Authenticate(c) PROVE TypeOK'
  BY <1>3 DEF Authenticate, TypeOK, Goto, Set
<1>4. ASSUME NEW c \in Calls, Truncate(c) PROVE TypeOK'
  BY <1>4, ContentType DEF Truncate, TypeOK, Goto, Set, WriteSteps, NameOf, Names
<1>5. ASSUME NEW c \in Calls, WriteText(c) PROVE TypeOK'
  BY <1>5, PutBytesType DEF WriteText, TypeOK, Goto, Set, WriteSteps
<1>6. ASSUME NEW c \in Calls, Rename(c) PROVE TypeOK'
  <2>1. file' \in [Names -> Content]
    BY <1>6 DEF Rename, TypeOK, Set, NameOf, Names
  <2>2. held' \in [Calls -> SUBSET [Fields -> Setter]]
    BY <1>6, <2>1, HeldType DEF Rename
  <2> QED
    BY <1>6, <2>1, <2>2, ContentType DEF Rename, TypeOK, Goto, Set, WriteSteps, NameOf, Names
<1>7. ASSUME NEW c \in Calls, Chmod(c) PROVE TypeOK'
  BY <1>7, ReturnType DEF Chmod, TypeOK, Goto, Set
<1>8. ASSUME NEW c \in Calls, FailWrite(c) PROVE TypeOK'
  BY <1>8, PutBytesType DEF FailWrite, TypeOK, Goto, Set
<1>9. ASSUME NEW c \in Calls, Unlink(c) PROVE TypeOK'
  BY <1>9, ReturnType, ContentType DEF Unlink, TypeOK, Set, NameOf, Names
<1>10. ASSUME NEW c \in Calls, Exists(c) PROVE TypeOK'
  BY <1>10 DEF Exists, TypeOK, Goto, Set, WriteSteps
<1>11. ASSUME NEW c \in Calls, Load(c) PROVE TypeOK'
  <2>1. Merge(c) \in [Fields -> Setter]
    BY DEF Merge, TypeOK, Content, Names, Setter
  <2>2. CASE \E value \in {"error", "malformed", "ok"} : Return(c, value)
    BY <1>11, <2>2, ReturnType DEF Load, TypeOK
  <2>3. CASE /\ out' = Set(out, c, Config(Merge(c)))
             /\ Goto(c, "truncate")
             /\ UNCHANGED <<held, result, holder>>
    BY <1>11, <2>1, <2>3, ContentType DEF Load, TypeOK, Goto, Set, WriteSteps
  <2> QED
    BY <1>11, <2>2, <2>3 DEF Load
<1>12. ASSUME NEW c \in Calls, Consume(c) PROVE TypeOK'
  <2>1. arrival[c] \in 0..now
    BY DEF TypeOK
  <2>2. code' \in Nat /\ expires' \in 0..(now + TTL) /\ code' >= code
    BY <1>12, <2>1, RotateType DEF Consume, TypeOK
  <2>3. presented' \in [Calls -> 0..code'] /\ arrival' \in [Calls -> 0..now']
    BY <1>12, <2>2 DEF Consume, TypeOK, Set
  <2>4. /\ pc' \in [Calls -> WriteSteps \cup {"new", "unlink", "exists", "load", "lock",
                                              "devices", "done", "lost"}]
        /\ result' \in [Calls -> {"none", "ok", "error", "malformed", "refused"}]
        /\ out' \in [Calls -> Content]
        /\ held' \in [Calls -> SUBSET [Fields -> Setter]]
        /\ holder' \in Calls \cup {NoCall}
    BY <1>12, ReturnType DEF Consume, TypeOK, Goto, Set
  <2> QED
    BY <1>12, <2>2, <2>3, <2>4 DEF Consume, TypeOK
<1>13. ASSUME NEW c \in Calls, Issue(c) PROVE TypeOK'
  <2>1. Listed \subseteq Calls
    BY DEF Listed, TypeOK, Content, Names
  <2>2. Devices(Listed \cup {c}) \in Content /\ Devices({c}) \in Content
    BY <2>1, ContentType
  <2>3. out' \in [Calls -> Content] /\ unread' \in BOOLEAN
    <3>1. out \in [Calls -> Content] /\ unread \in BOOLEAN
      BY DEF TypeOK
    <3>2. /\ \E content \in Content : out' = Set(out, c, content)
          /\ unread' = unread \/ unread' = TRUE
      BY <1>13, <2>2 DEF Issue
    <3> QED
      BY <3>1, <3>2 DEF Set
  <2> QED
    BY <1>13, <2>3 DEF Issue, TypeOK, Goto, Set, WriteSteps
<1>14. CASE RotateExpired
  <2>1. now \in 0..now
    BY DEF TypeOK
  <2>2. code' \in Nat /\ expires' \in 0..(now + TTL) /\ code' > code
    BY <1>14, <2>1, RotateType DEF RotateExpired
  <2>3. presented' \in [Calls -> 0..code']
    BY <1>14, <2>2 DEF RotateExpired, TypeOK
  <2> QED
    BY <1>14, <2>2, <2>3 DEF RotateExpired, TypeOK
<1>15. CASE Tick
  BY <1>15, StoresAssumption DEF Tick, TypeOK
<1>16. CASE RemoveConfig
  <2>1. file' \in [Names -> Content]
    BY <1>16, ContentType DEF RemoveConfig, TypeOK, Names
  <2>2. held' \in [Calls -> SUBSET [Fields -> Setter]]
    BY <1>16, <2>1, HeldType DEF RemoveConfig
  <2> QED
    BY <1>16, <2>1, <2>2 DEF RemoveConfig, TypeOK
<1>17. CASE Restart
  BY <1>17, ContentType, StoresAssumption DEF Restart, TypeOK, Names
<1>18. CASE UNCHANGED vars
  BY <1>18 DEF vars, TypeOK
<1> QED
  BY <1>1, <1>2, <1>3, <1>4, <1>5, <1>6, <1>7, <1>8, <1>9, <1>10, <1>11, <1>12, <1>13, <1>14,
     <1>15, <1>16, <1>17, <1>18 DEF Next, Step

-----------------------------------------------------------------------------
(* Where the calls are, and who holds the lock.                            *)

\* A call that returns lets go of the lock, if it has it.
LEMMA ReturnLock ==
  ASSUME TypeOK, StepOK, LockOK, NEW c \in Calls, pc[c] # "write", NEW value, Return(c, value),
         \A b \in Calls \ {c} : where'[b] # "closed" <=> where[b] # "closed",
         where'[c] = "closed", UNCHANGED op
  PROVE  StepOK' /\ LockOK'
<1>1. \A b \in Calls : pc'[b] = IF b = c THEN "done" ELSE pc[b]
  BY DEF Return, Goto, Set, TypeOK
<1>2. \A b \in Calls : out'[b] = IF b = c THEN Blank("whole") ELSE out[b]
  BY DEF Return, Goto, Set, TypeOK
<1>3. StepOK'
  BY <1>1, <1>2, ContentFields DEF StepOK, Pairing
<1>4. LockOK'
  BY <1>1, StoresAssumption DEF LockOK, Pairing, Return, Section, WriteSteps
<1> QED
  BY <1>3, <1>4

\* Every step keeps them.
LEMMA LockStep == TypeOK /\ StepOK /\ LockOK /\ [Next]_vars => StepOK' /\ LockOK'
<1> SUFFICES ASSUME TypeOK, StepOK, LockOK, [Next]_vars PROVE StepOK' /\ LockOK'
  OBVIOUS
<1> USE DEF disk_vars, code_vars, input_vars, once_vars
<1>1. ASSUME NEW c \in Calls, BeginConfig(c) PROVE StepOK' /\ LockOK'
  BY <1>1 DEF BeginConfig, TypeOK, Goto, Set, StepOK, LockOK, Pairing, Section, WriteSteps,
     ConfigOps
<1>2. ASSUME NEW c \in Calls, BeginPair(c) PROVE StepOK' /\ LockOK'
  BY <1>2 DEF BeginPair, TypeOK, Goto, Set, StepOK, LockOK, Pairing, Section, WriteSteps
<1>3. ASSUME NEW c \in Calls, Authenticate(c) PROVE StepOK' /\ LockOK'
  BY <1>3 DEF Authenticate, TypeOK, Goto, Set, StepOK, LockOK, Pairing, Section, WriteSteps
<1>4. ASSUME NEW c \in Calls, Truncate(c) PROVE StepOK' /\ LockOK'
  BY <1>4 DEF Truncate, TypeOK, Goto, Set, StepOK, LockOK, Pairing, Section, WriteSteps
<1>5. ASSUME NEW c \in Calls, WriteText(c) PROVE StepOK' /\ LockOK'
  <2>1. where' = [where EXCEPT ![c] = "closed"]
    BY <1>5 DEF WriteText, PutBytes, Set
  <2> QED
    BY <1>5, <2>1 DEF WriteText, TypeOK, Goto, Set, StepOK, LockOK, Pairing, Section, WriteSteps
<1>6. ASSUME NEW c \in Calls, Rename(c) PROVE StepOK' /\ LockOK'
  BY <1>6 DEF Rename, TypeOK, Goto, Set, StepOK, LockOK, Pairing, Section, WriteSteps
<1>7. ASSUME NEW c \in Calls, Chmod(c) PROVE StepOK' /\ LockOK'
  <2>1. CASE Return(c, "ok")
    BY <1>7, <2>1, ReturnLock DEF Chmod, StepOK
  <2>2. CASE Goto(c, "load") /\ ~Pairing(c) /\ UNCHANGED <<out, result, holder>>
    BY <1>7, <2>2 DEF Chmod, TypeOK, Goto, Set, StepOK, LockOK, Pairing, Section, WriteSteps,
       ConfigOps, Ops
  <2> QED
    BY <1>7, <2>1, <2>2 DEF Chmod, Pairing
<1>8. ASSUME NEW c \in Calls, FailWrite(c) PROVE StepOK' /\ LockOK'
  <2>1. where' = IF pc[c] = "write" THEN [where EXCEPT ![c] = "closed"] ELSE where
    BY <1>8 DEF FailWrite, PutBytes, Set
  <2> QED
    BY <1>8, <2>1 DEF FailWrite, TypeOK, Goto, Set, StepOK, LockOK, Pairing, Section, WriteSteps
<1>9. ASSUME NEW c \in Calls, Unlink(c) PROVE StepOK' /\ LockOK'
  <2>1. /\ where'[c] = "closed"
        /\ \A b \in Calls \ {c} : where'[b] # "closed" <=> where[b] # "closed"
    BY <1>9 DEF Unlink, StepOK, TypeOK
  <2> QED
    BY <1>9, <2>1, ReturnLock DEF Unlink
<1>10. ASSUME NEW c \in Calls, Exists(c) PROVE StepOK' /\ LockOK'
  BY <1>10 DEF Exists, TypeOK, Goto, Set, StepOK, LockOK, Pairing, Section, WriteSteps, ConfigOps
<1>11. ASSUME NEW c \in Calls, Load(c) PROVE StepOK' /\ LockOK'
  <2>1. CASE \E value \in {"error", "malformed", "ok"} : Return(c, value)
    BY <1>11, <2>1, ReturnLock DEF Load, StepOK
  <2>2. CASE /\ out' = Set(out, c, Config(Merge(c)))
             /\ op[c] = "update"
             /\ Goto(c, "truncate")
             /\ UNCHANGED holder
    <3>1. Merge(c) \in [Fields -> Setter]
      BY DEF Merge, TypeOK, Content, Names, Setter
    <3>2. Config(Merge(c)).state = "whole"
      BY <3>1, ContentFields
    <3> QED
      BY <1>11, <2>2, <3>2 DEF Load, TypeOK, Goto, Set, StepOK, LockOK, Pairing, Section, WriteSteps
  <2> QED
    BY <1>11, <2>1, <2>2 DEF Load
<1>12. ASSUME NEW c \in Calls, Consume(c) PROVE StepOK' /\ LockOK'
  <2>1. CASE Return(c, "error")
    BY <1>12, <2>1, ReturnLock DEF Consume, StepOK
  <2>2. CASE holder' = c /\ Goto(c, "devices") /\ UNCHANGED out
    BY <1>12, <2>2, StoresAssumption DEF Consume, TypeOK, Goto, Set, StepOK, LockOK, Pairing,
       Section, WriteSteps
  <2> QED
    BY <1>12, <2>1, <2>2 DEF Consume
<1>13. ASSUME NEW c \in Calls, Issue(c) PROVE StepOK' /\ LockOK'
  <2>1. Listed \subseteq Calls
    BY DEF Listed, TypeOK, Content, Names
  <2>2. Devices(Listed \cup {c}).state = "whole" /\ Devices({c}).state = "whole"
    BY <2>1, ContentFields
  <2> QED
    BY <1>13, <2>2 DEF Issue, TypeOK, Goto, Set, StepOK, LockOK, Pairing, Section, WriteSteps
<1>14. CASE RotateExpired \/ Tick
  BY <1>14 DEF RotateExpired, Tick, StepOK, LockOK, Pairing
<1>15. CASE RemoveConfig
  BY <1>15 DEF RemoveConfig, TypeOK, StepOK, LockOK, Pairing
<1>16. CASE Restart
  BY <1>16, StoresAssumption DEF Restart, TypeOK, StepOK, LockOK, Pairing, Working, Section, WriteSteps
<1>17. CASE UNCHANGED vars
  BY <1>17 DEF vars, StepOK, LockOK, Pairing
<1> QED
  BY <1>1, <1>2, <1>3, <1>4, <1>5, <1>6, <1>7, <1>8, <1>9, <1>10, <1>11, <1>12, <1>13, <1>14,
     <1>15, <1>16, <1>17 DEF Next, Step

-----------------------------------------------------------------------------
(* The token file.                                                         *)

TokensWhole == file["tokens"].state \in {"absent", "whole"}
TokenInv == TokenWriteOK /\ TokensWhole /\ PairedStaysPaired

\* Only the holder of the lock is between the code and the end of its write.
LEMMA OneSection ==
  ASSUME LockOK, NEW b \in Calls, NEW c \in Calls, Pairing(b), Pairing(c),
         pc[b] \in Section, pc[c] \in Section
  PROVE  b = c
  BY DEF LockOK

\* A step that writes nothing to the token file and pairs nobody.
LEMMA QuietStep ==
  ASSUME TokenInv,
         file'["tokens"] = file["tokens"],
         op' = op,
         unread => unread',
         \A b \in Calls : Pairing(b) /\ pc'[b] \in Writing \cup {"chmod"} =>
           /\ pc'[b] = pc[b] /\ where'[b] = where[b] /\ out'[b] = out[b]
           /\ temp'["tokens"] = temp["tokens"],
         \A b \in Calls : Paired(b)' => Paired(b),
         ~unread' => \A b \in Calls : result'[b] # "refused"
  PROVE  TokenInv'
<1>1. Listed' = Listed
  BY DEF Listed
<1>2. TokenWriteOK'
  BY <1>1 DEF TokenInv, TokenWriteOK, Pairing, Writing
<1>3. TokensWhole' /\ PairedStaysPaired'
  BY <1>1 DEF TokenInv, TokensWhole, PairedStaysPaired
<1> QED
  BY <1>2, <1>3 DEF TokenInv

\* What a call that does not pair leaves alone on the disk: it names another file.
LEMMA OtherFile ==
  ASSUME TypeOK, StepOK, NEW c \in Calls, ~Pairing(c), Step(c)
  PROVE  /\ file'["tokens"] = file["tokens"] /\ temp'["tokens"] = temp["tokens"]
         /\ \A b \in Calls : Pairing(b) => where'[b] = where[b]
<1>1. NameOf(c) = "config" /\ \A b \in Calls : Pairing(b) => NameOf(b) = "tokens" /\ b # c
  BY DEF NameOf, Pairing
<1>2. CASE Truncate(c) \/ WriteText(c) \/ FailWrite(c)
  BY <1>1, <1>2 DEF Truncate, WriteText, FailWrite, PutBytes, TypeOK, Set, Names
<1>3. CASE Rename(c) \/ Unlink(c)
  BY <1>1, <1>3 DEF Rename, Unlink, TypeOK, Set, Names
<1>4. CASE Chmod(c) \/ Exists(c) \/ Load(c) \/ Consume(c) \/ Issue(c)
  BY <1>4 DEF Chmod, Exists, Load, Consume, Issue, disk_vars
<1> QED
  BY <1>2, <1>3, <1>4 DEF Step

\* And in memory.
LEMMA OtherCall ==
  ASSUME TypeOK, StepOK, NEW c \in Calls, Step(c)
  PROVE  /\ op' = op
         /\ \A b \in Calls \ {c} : pc'[b] = pc[b] /\ out'[b] = out[b] /\ result'[b] = result[b]
         /\ unread => unread'
         /\ result'[c] \in {result[c], "ok", "error", "malformed"}
<1> USE DEF Step, input_vars, disk_vars, TypeOK, Goto, Set
<1>1. CASE Truncate(c) \/ WriteText(c) \/ Rename(c) \/ FailWrite(c) \/ Exists(c)
  BY <1>1 DEF Truncate, WriteText, Rename, FailWrite, Exists
<1>2. CASE Chmod(c) \/ Unlink(c) \/ Consume(c)
  BY <1>2 DEF Chmod, Unlink, Consume, Return
<1>3. CASE Load(c)
  BY <1>3 DEF Load, Return
<1>4. CASE Issue(c)
  BY <1>4 DEF Issue, StepOK
<1> QED
  BY <1>1, <1>2, <1>3, <1>4

\* Every step keeps the token file whole, with every device that was paired.
LEMMA TokenStep ==
  TypeOK /\ StepOK /\ LockOK /\ TokenInv /\ [Next]_vars => TokenInv'
<1> SUFFICES ASSUME TypeOK, StepOK, LockOK, TokenInv, [Next]_vars PROVE TokenInv'
  OBVIOUS
<1> USE DEF disk_vars, code_vars, input_vars, once_vars
<1>1. ASSUME NEW c \in Calls, Step(c), ~Pairing(c) PROVE TokenInv'
  <2>1. \A b \in Calls : Pairing(b) => b # c /\ pc'[b] = pc[b] /\ out'[b] = out[b] /\ where'[b] = where[b]
    BY <1>1, OtherCall, OtherFile
  <2>2. \A b \in Calls : Paired(b)' => Paired(b)
    BY <1>1, OtherCall DEF Paired, Pairing
  <2>3. ~unread' => \A b \in Calls : result'[b] # "refused"
    BY <1>1, OtherCall DEF TokenInv, PairedStaysPaired
  <2> QED
    BY <1>1, <2>1, <2>2, <2>3, OtherCall, OtherFile, QuietStep
<1>2. ASSUME NEW c \in Calls, BeginConfig(c) \/ BeginPair(c) PROVE TokenInv'
  <2>1. \A b \in Calls : pc'[b] = pc[b] \/ pc'[b] \in {"truncate", "exists", "lock"}
    BY <1>2 DEF BeginConfig, BeginPair, TypeOK, Goto, Set
  <2>2. \A b \in Calls : Pairing(b) /\ pc'[b] = "truncate" => pc'[b] = pc[b]
    BY <1>2 DEF BeginConfig, BeginPair, TypeOK, Goto, Set, Pairing, ConfigOps
  <2>3. QED
    BY <1>2, <2>1, <2>2, QuietStep DEF BeginConfig, BeginPair, Writing, Paired, TokenInv,
       PairedStaysPaired
<1>3. ASSUME NEW c \in Calls, Authenticate(c) PROVE TokenInv'
  <2>1. /\ op' = op /\ UNCHANGED <<file, temp, where, out>>
        /\ unread => unread'
        /\ \A b \in Calls : pc'[b] = pc[b] \/ pc'[b] = "done"
    BY <1>3 DEF Authenticate, TypeOK, Goto, Set
  <2>2. \A b \in Calls : Paired(b)' => Paired(b)
    BY <1>3 DEF Authenticate, Paired, TypeOK, Set
  <2>3. ~unread' => \A b \in Calls : result'[b] # "refused"
    BY <1>3 DEF Authenticate, TypeOK, Set, TokenInv, PairedStaysPaired
  <2> QED
    BY <2>1, <2>2, <2>3, QuietStep DEF Writing
<1>4. ASSUME NEW c \in Calls, Step(c), Pairing(c) PROVE TokenInv'
  <2>1. NameOf(c) = "tokens"
    BY <1>4 DEF NameOf, Pairing
  <2>2. \A b \in Calls : Pairing(b) /\ pc[b] \in Section /\ pc[c] \in Section => b = c
    BY <1>4, OneSection
  <2>3. /\ op' = op
        /\ unread => unread'
        /\ \A b \in Calls \ {c} : pc'[b] = pc[b] /\ out'[b] = out[b] /\ result'[b] = result[b]
    BY <1>4, OtherCall
  <2>4. CASE Truncate(c)
    <3>1. /\ pc'[c] = "write" /\ where'[c] = "temp" /\ temp'["tokens"] = Blank("empty")
          /\ file' = file /\ out' = out /\ result' = result /\ unread' = unread
      BY <2>1, <2>4 DEF Truncate, TypeOK, Goto, Set, Names
    <3>2. \A b \in Calls \ {c} : Pairing(b) => pc'[b] \notin Writing \cup {"chmod"}
      BY <2>2, <2>3, <2>4 DEF Truncate, Section, WriteSteps, Writing
    <3>3. Listed' = Listed
      BY <3>1 DEF Listed
    <3>4. TokenWriteOK'
      BY <1>4, <2>3, <2>4, <3>1, <3>2, <3>3 DEF TokenInv, TokenWriteOK, Pairing, Writing, Truncate
    <3>5. TokensWhole' /\ PairedStaysPaired'
      BY <2>3, <3>1, <3>3 DEF TokenInv, TokensWhole, PairedStaysPaired, Paired
    <3> QED
      BY <3>4, <3>5 DEF TokenInv
  <2>5. CASE WriteText(c)
    <3>1. where[c] = "temp" /\ temp["tokens"] = Blank("empty")
      BY <1>4, <2>5 DEF WriteText, TokenInv, TokenWriteOK
    <3>2. After(temp["tokens"], c, FALSE) = {out[c]}
      BY <3>1, ContentFields DEF After
    <3>3. /\ pc'[c] = "rename" /\ temp'["tokens"] = out[c]
          /\ file' = file /\ out' = out /\ result' = result /\ unread' = unread
      BY <2>1, <2>5, <3>1, <3>2 DEF WriteText, PutBytes, TypeOK, Goto, Set, Names
    <3>4. \A b \in Calls \ {c} : Pairing(b) => pc'[b] \notin Writing \cup {"chmod"}
      BY <2>2, <2>3, <2>5 DEF WriteText, Section, WriteSteps, Writing
    <3>5. Listed' = Listed
      BY <3>3 DEF Listed
    <3>6. TokenWriteOK'
      BY <1>4, <2>3, <2>5, <3>3, <3>4, <3>5 DEF TokenInv, TokenWriteOK, Pairing, Writing, WriteText
    <3>7. TokensWhole' /\ PairedStaysPaired'
      BY <2>3, <3>3, <3>5 DEF TokenInv, TokensWhole, PairedStaysPaired, Paired
    <3> QED
      BY <3>6, <3>7 DEF TokenInv
  <2>6. CASE Rename(c)
    <3>1. temp["tokens"] = out[c] /\ out[c].state = "whole"
      BY <1>4, <2>6 DEF Rename, TokenInv, TokenWriteOK, StepOK
    <3>2. /\ pc'[c] = "chmod" /\ file'["tokens"] = out[c]
          /\ out' = out /\ result' = result /\ unread' = unread
      BY <2>1, <2>6, <3>1 DEF Rename, TypeOK, Goto, Set, Names
    <3>3. \A b \in Calls \ {c} : Pairing(b) => pc'[b] \notin Writing \cup {"chmod"}
      BY <2>2, <2>3, <2>6 DEF Rename, Section, WriteSteps, Writing
    <3>4. Listed' = out[c].devices
      BY <3>1, <3>2 DEF Listed
    <3>5. c \in out[c].devices /\ (~unread => Listed \subseteq out[c].devices)
      BY <1>4, <2>6 DEF Rename, TokenInv, TokenWriteOK, Writing
    <3>6. TokenWriteOK'
      BY <2>3, <3>2, <3>3, <3>4, <3>5 DEF TokenWriteOK, Pairing, Writing
    <3>7. TokensWhole'
      BY <3>1, <3>2 DEF TokensWhole
    <3>8. PairedStaysPaired'
      BY <2>3, <3>2, <3>4, <3>5 DEF TokenInv, PairedStaysPaired, Paired
    <3> QED
      BY <3>6, <3>7, <3>8 DEF TokenInv
  <2>7. CASE Chmod(c)
    <3>1. c \in Listed
      BY <1>4, <2>7 DEF Chmod, TokenInv, TokenWriteOK
    <3>2. /\ pc'[c] = "done" /\ result'[c] = "ok"
          /\ file' = file /\ temp' = temp /\ where' = where /\ unread' = unread
      BY <1>4, <2>7 DEF Chmod, Return, TypeOK, Goto, Set, Pairing
    <3>3. Listed' = Listed
      BY <3>2 DEF Listed
    <3>4. TokenWriteOK'
      BY <2>3, <3>2, <3>3 DEF TokenInv, TokenWriteOK, Pairing, Writing
    <3>5. TokensWhole'
      BY <3>2 DEF TokenInv, TokensWhole
    <3>6. PairedStaysPaired'
      BY <2>3, <3>1, <3>2, <3>3 DEF TokenInv, PairedStaysPaired, Paired
    <3> QED
      BY <3>4, <3>5, <3>6 DEF TokenInv
  <2>8. CASE Issue(c)
    <3>1. Listed \subseteq Calls
      BY DEF Listed, TypeOK, Content, Names
    <3>2. /\ Devices(Listed \cup {c}).devices = Listed \cup {c}
          /\ Devices({c}).devices = {c}
      BY <3>1, ContentFields
    <3>3. /\ pc'[c] = "truncate" /\ file' = file /\ result' = result
          /\ out'[c] = Devices(Listed \cup {c}) \/ (out'[c] = Devices({c}) /\ unread')
      BY <2>8 DEF Issue, TypeOK, Goto, Set
    <3>4. \A b \in Calls \ {c} : Pairing(b) => pc'[b] \notin Writing \cup {"chmod"}
      BY <1>4, <2>2, <2>3, <2>8 DEF Issue, Section, WriteSteps, Writing
    <3>5. Listed' = Listed
      BY <3>3 DEF Listed
    <3>6. TokenWriteOK'
      BY <2>3, <3>2, <3>3, <3>4, <3>5 DEF TokenWriteOK, Pairing, Writing
    <3>7. TokensWhole' /\ PairedStaysPaired'
      BY <2>3, <3>3, <3>5 DEF TokenInv, TokensWhole, PairedStaysPaired, Paired
    <3> QED
      BY <3>6, <3>7 DEF TokenInv
  <2>9. CASE FailWrite(c) \/ Unlink(c) \/ Consume(c)
    <3>1. file' = file
      BY <1>4, <2>9 DEF FailWrite, Unlink, Consume, PutBytes, TokenInv, TokenWriteOK
    <3>2. pc'[c] \in {"unlink", "done", "devices"} /\ result'[c] \in {result[c], "error"}
      BY <2>9 DEF FailWrite, Unlink, Consume, Return, Goto, Set, TypeOK
    <3>3. \A b \in Calls : Pairing(b) /\ pc'[b] \in Writing \cup {"chmod"} =>
            b # c /\ where'[b] = where[b] /\ temp'["tokens"] = temp["tokens"]
      BY <2>2, <2>3, <2>9, <3>2 DEF FailWrite, Unlink, Consume, PutBytes, Section, WriteSteps,
         Writing, TypeOK, Set
    <3>4. \A b \in Calls : Paired(b)' => Paired(b)
      BY <2>3, <3>2 DEF Paired
    <3>5. ~unread' => \A b \in Calls : result'[b] # "refused"
      BY <2>3, <3>2 DEF TokenInv, PairedStaysPaired
    <3> QED
      BY <2>3, <3>1, <3>3, <3>4, <3>5, QuietStep
  <2>10. CASE Exists(c) \/ Load(c)
    BY <1>4, <2>10 DEF Exists, Load, StepOK, Pairing, ConfigOps
  <2> QED
    BY <1>4, <2>4, <2>5, <2>6, <2>7, <2>8, <2>9, <2>10 DEF Step
<1>5. CASE RotateExpired \/ Tick \/ UNCHANGED vars
  BY <1>5, QuietStep DEF RotateExpired, Tick, vars, TokenInv, PairedStaysPaired, Paired
<1>6. CASE RemoveConfig
  <2>1. file'["tokens"] = file["tokens"]
    BY <1>6 DEF RemoveConfig, TypeOK, Names
  <2>2. \A b \in Calls : Pairing(b) => where'[b] = where[b]
    BY <1>6 DEF RemoveConfig, TypeOK, NameOf, Pairing
  <2> QED
    BY <1>6, <2>1, <2>2, QuietStep DEF RemoveConfig, TokenInv, PairedStaysPaired, Paired
<1>7. CASE Restart
  <2>1. file'["tokens"] = file["tokens"]
    BY <1>7 DEF Restart, TypeOK, Names
  <2>2. \A b \in Calls : pc'[b] \notin Writing \cup {"chmod"}
    BY <1>7 DEF Restart, TypeOK, Working, Writing
  <2> QED
    BY <1>7, <2>1, <2>2, QuietStep DEF Restart, TokenInv, PairedStaysPaired, Paired
<1> QED
  BY <1>1, <1>2, <1>3, <1>4, <1>5, <1>6, <1>7 DEF Next, Step

-----------------------------------------------------------------------------
(* The codes that are spent.                                               *)

\* A step that adds no device, and no code in use.
LEMMA NothingSpent ==
  ASSUME TypeOK, SpentOK, Spent' \subseteq Spent, code' \in Nat, code' >= code,
         \A c \in Spent : presented'[c] = presented[c] /\ pc'[c] # "new"
  PROVE  SpentOK'
<1>1. Spent \subseteq Calls
  BY DEF Spent, Listed, TypeOK, Content, Names
<1>2. \A c \in Spent : presented[c] \in Nat
  BY <1>1 DEF TypeOK
<1> QED
  BY <1>2 DEF SpentOK, TypeOK

\* No call begins again, and codes only go on.
LEMMA Onwards ==
  ASSUME TypeOK, [Next]_vars
  PROVE  /\ code' \in Nat /\ code' >= code
         /\ \A c \in Calls : pc[c] # "new" => presented'[c] = presented[c] /\ pc'[c] # "new"
<1> USE DEF disk_vars, code_vars, input_vars, once_vars, TypeOK, Goto, Set
<1>1. ASSUME NEW c \in Calls, BeginConfig(c) \/ BeginPair(c) \/ Authenticate(c)
      PROVE  /\ code' = code
             /\ \A b \in Calls : pc[b] # "new" => presented'[b] = presented[b] /\ pc'[b] # "new"
  BY <1>1 DEF BeginConfig, BeginPair, Authenticate
<1>2. ASSUME NEW c \in Calls, Truncate(c) \/ WriteText(c) \/ Rename(c) \/ FailWrite(c) \/ Exists(c)
                              \/ Issue(c)
      PROVE  code' = code /\ presented' = presented
             /\ \A b \in Calls : pc[b] # "new" => pc'[b] # "new"
  BY <1>2 DEF Truncate, WriteText, Rename, FailWrite, Exists, Issue
<1>3. ASSUME NEW c \in Calls, Chmod(c) \/ Unlink(c) \/ Load(c)
      PROVE  code' = code /\ presented' = presented
             /\ \A b \in Calls : pc[b] # "new" => pc'[b] # "new"
  BY <1>3 DEF Chmod, Unlink, Load, Return
<1>4. ASSUME NEW c \in Calls, Consume(c)
      PROVE  code' \in Nat /\ code' >= code /\ presented' = presented
             /\ \A b \in Calls : pc[b] # "new" => pc'[b] # "new"
  <2>1. arrival[c] \in 0..now
    OBVIOUS
  <2>2. code' \in Nat /\ code' >= code
    BY <1>4, <2>1, RotateType DEF Consume
  <2> QED
    BY <1>4, <2>2 DEF Consume, Return
<1>5. CASE RotateExpired
  <2>1. now \in 0..now
    OBVIOUS
  <2> QED
    BY <1>5, <2>1, RotateType DEF RotateExpired
<1>6. CASE Tick \/ RemoveConfig \/ Restart \/ UNCHANGED vars
  BY <1>6 DEF Tick, RemoveConfig, Restart, vars
<1> QED
  BY <1>1, <1>2, <1>3, <1>4, <1>5, <1>6 DEF Next, Step

\* The holder changes only when a code is accepted.
LEMMA HolderStep ==
  ASSUME TypeOK, [Next]_vars
  PROVE  \/ holder' \in {holder, NoCall}
         \/ \E c \in Calls :
              /\ Consume(c) /\ holder' = c
              /\ presented[c] = code /\ Rotate(arrival[c])
<1> USE DEF disk_vars, code_vars, input_vars, once_vars
<1>1. ASSUME NEW c \in Calls, BeginConfig(c) \/ BeginPair(c) \/ Authenticate(c)
      PROVE  holder' = holder
  BY <1>1 DEF BeginConfig, BeginPair, Authenticate
<1>2. ASSUME NEW c \in Calls, Step(c), ~Consume(c)
      PROVE  holder' \in {holder, NoCall}
  BY <1>2 DEF Step, Truncate, WriteText, Rename, FailWrite, Exists, Issue, Chmod, Unlink, Load,
     Return
<1>3. ASSUME NEW c \in Calls, Consume(c)
      PROVE  \/ holder' \in {holder, NoCall}
             \/ holder' = c /\ presented[c] = code /\ Rotate(arrival[c])
  BY <1>3 DEF Consume, Return
<1>4. CASE RotateExpired \/ Tick \/ RemoveConfig \/ Restart \/ UNCHANGED vars
  BY <1>4 DEF RotateExpired, Tick, RemoveConfig, Restart, vars
<1> QED
  BY <1>1, <1>2, <1>3, <1>4 DEF Next

\* A device gets into the file by the holder's hand.
LEMMA ListedStep ==
  ASSUME TypeOK, StepOK, LockOK, TokenInv, [Next]_vars
  PROVE  Listed' \subseteq Spent
<1> USE DEF disk_vars, code_vars, input_vars, once_vars
<1>1. ASSUME file'["tokens"] = file["tokens"] PROVE Listed' \subseteq Spent
  BY <1>1 DEF Listed, Spent
<1>2. ASSUME NEW c \in Calls, Step(c), ~Pairing(c) PROVE Listed' \subseteq Spent
  BY <1>1, <1>2, OtherFile
<1>3. ASSUME NEW c \in Calls, Rename(c), Pairing(c) PROVE Listed' \subseteq Spent
  <2>1. temp["tokens"] = out[c] /\ out[c].devices \subseteq Listed \cup {c} /\ holder = c
    BY <1>3 DEF Rename, TokenInv, TokenWriteOK, LockOK, Writing, Section, WriteSteps
  <2>2. file'["tokens"] = out[c]
    BY <1>3, <2>1 DEF Rename, NameOf, Pairing, TypeOK, Set, Names
  <2> QED
    BY <2>1, <2>2 DEF Listed, Spent
<1>4. ASSUME NEW c \in Calls, Step(c), ~Rename(c), Pairing(c) PROVE Listed' \subseteq Spent
  <2>1. pc[c] = "write" => where[c] = "temp"
    BY <1>4 DEF TokenInv, TokenWriteOK
  <2>2. file' = file
    BY <1>4, <2>1 DEF Step, Truncate, WriteText, FailWrite, PutBytes, Exists, Issue, Chmod, Unlink,
       Load, Consume
  <2> QED
    BY <1>1, <2>2
<1>5. ASSUME NEW c \in Calls, BeginConfig(c) \/ BeginPair(c) \/ Authenticate(c)
      PROVE  Listed' \subseteq Spent
  BY <1>1, <1>5 DEF BeginConfig, BeginPair, Authenticate
<1>6. CASE RotateExpired \/ Tick \/ RemoveConfig \/ Restart \/ UNCHANGED vars
  BY <1>1, <1>6 DEF RotateExpired, Tick, RemoveConfig, Restart, vars, TypeOK, Names
<1> QED
  BY <1>2, <1>3, <1>4, <1>5, <1>6 DEF Next

\* Every step keeps each code to one device.
LEMMA SpentStep ==
  TypeOK /\ StepOK /\ LockOK /\ TokenInv /\ SpentOK /\ [Next]_vars => SpentOK'
<1> SUFFICES ASSUME TypeOK, StepOK, LockOK, TokenInv, SpentOK, [Next]_vars PROVE SpentOK'
  OBVIOUS
<1>1. Spent \subseteq Calls
  BY DEF Spent, Listed, TypeOK, Content, Names
<1>2. \A c \in Spent : presented'[c] = presented[c] /\ pc'[c] # "new"
  BY <1>1, Onwards DEF SpentOK
<1>3. CASE holder' \in {holder, NoCall}
  <2>1. Spent' \subseteq Spent
    BY <1>3, ListedStep, StoresAssumption DEF Spent
  <2> QED
    BY <1>2, <2>1, Onwards, NothingSpent
<1>4. ASSUME NEW c \in Calls, Consume(c), holder' = c, presented[c] = code, Rotate(arrival[c])
      PROVE  SpentOK'
  <2>1. arrival[c] \in 0..now /\ code \in Nat
    BY DEF TypeOK
  <2>2. code' \in Nat /\ code' > code
    BY <1>4, <2>1, RotateType
  <2>3. Spent' \subseteq Spent \cup {c}
    BY <1>4, ListedStep DEF Spent
  <2>4. \A b \in Spent : presented[b] \in Nat /\ presented[b] < code
    BY <1>1 DEF SpentOK, TypeOK
  <2>5. presented'[c] = code /\ pc'[c] # "new"
    BY <1>4, Onwards DEF Consume
  <2> QED
    BY <1>2, <2>1, <2>2, <2>3, <2>4, <2>5 DEF SpentOK
<1> QED
  BY <1>3, <1>4, HolderStep

-----------------------------------------------------------------------------
(* The configuration.                                                      *)

ConfigWhole == file["config"].state \in {"empty", "torn"} => overlapped
ConfigInv == ConfigWriteOK /\ ConfigWhole

\* Nothing is claimed once writers have overlapped, and that is for ever.
LEMMA OverlappedStep ==
  ASSUME TypeOK, [Next]_vars, overlapped PROVE overlapped' /\ ConfigInv'
<1> USE DEF disk_vars, code_vars, input_vars, once_vars
<1>1. ASSUME NEW c \in Calls, Step(c) PROVE overlapped'
  BY <1>1 DEF Step, Truncate, WriteText, Rename, FailWrite, Exists, Issue, Chmod, Unlink, Load,
     Consume
<1>2. ASSUME NEW c \in Calls, BeginConfig(c) \/ BeginPair(c) \/ Authenticate(c) PROVE overlapped'
  BY <1>2 DEF BeginConfig, BeginPair, Authenticate
<1>3. ASSUME RotateExpired \/ Tick \/ RemoveConfig \/ Restart \/ UNCHANGED vars PROVE overlapped'
  BY <1>3 DEF RotateExpired, Tick, RemoveConfig, Restart, vars
<1>4. overlapped'
  BY <1>1, <1>2, <1>3 DEF Next
<1>5. ConfigWriteOK'
  BY <1>4, Zenon DEF ConfigWriteOK
<1>6. ConfigWhole'
  BY <1>4, Zenon DEF ConfigWhole
<1> QED
  BY <1>4, <1>5, <1>6 DEF ConfigInv

\* A step that writes nothing to the configuration.
LEMMA QuietConfigStep ==
  ASSUME ConfigInv, ~overlapped,
         file'["config"] = file["config"],
         op' = op,
         \A b \in Calls : ~Pairing(b) /\ pc'[b] \in {"write", "rename"} =>
           /\ pc'[b] = pc[b] /\ where'[b] = where[b] /\ out'[b] = out[b]
           /\ temp'["config"] = temp["config"]
  PROVE  ConfigInv'
<1>1. ConfigWriteOK'
  BY DEF ConfigInv, ConfigWriteOK, Pairing
<1>2. ConfigWhole'
  BY DEF ConfigInv, ConfigWhole
<1> QED
  BY <1>1, <1>2 DEF ConfigInv

\* What a call that pairs leaves alone on the disk: it names another file.
LEMMA PairingFile ==
  ASSUME TypeOK, StepOK, NEW c \in Calls, Pairing(c), Step(c)
  PROVE  /\ file'["config"] = file["config"] /\ temp'["config"] = temp["config"]
         /\ \A b \in Calls : ~Pairing(b) => where'[b] = where[b]
<1> USE DEF disk_vars
<1>1. NameOf(c) = "tokens" /\ \A b \in Calls : ~Pairing(b) => NameOf(b) = "config" /\ b # c
  BY DEF NameOf, Pairing
<1>2. CASE Truncate(c) \/ WriteText(c) \/ FailWrite(c)
  BY <1>1, <1>2 DEF Truncate, WriteText, FailWrite, PutBytes, TypeOK, Set, Names
<1>3. CASE Rename(c) \/ Unlink(c)
  BY <1>1, <1>3 DEF Rename, Unlink, TypeOK, Set, Names
<1>4. CASE Chmod(c) \/ Consume(c) \/ Issue(c)
  BY <1>4 DEF Chmod, Consume, Issue
<1>5. CASE Exists(c) \/ Load(c)
  BY <1>5 DEF Exists, Load, StepOK, Pairing, ConfigOps
<1> QED
  BY <1>2, <1>3, <1>4, <1>5 DEF Step

\* Opening the temporary file while nobody else has it open.
LEMMA ConfigTruncate ==
  ASSUME TypeOK, StepOK, ConfigInv, ~overlapped, NEW c \in Calls, ~Pairing(c), Truncate(c)
  PROVE  ConfigInv'
<1>1. /\ pc'[c] = "write" /\ where'[c] = "temp" /\ temp'["config"] = Blank("empty")
      /\ UNCHANGED <<file, out, op>>
      /\ \A b \in Calls \ {c} : pc'[b] = pc[b]
      /\ ~overlapped' => \A b \in Calls \ {c} : ~Pairing(b) => pc[b] \notin {"write", "rename"}
  BY DEF Truncate, TypeOK, Goto, Set, Names, NameOf, Pairing, input_vars
<1>2. ConfigWriteOK'
  BY <1>1 DEF ConfigWriteOK, Pairing
<1>3. ConfigWhole'
  BY <1>1 DEF ConfigInv, ConfigWhole, Truncate
<1> QED
  BY <1>2, <1>3 DEF ConfigInv

\* Writing to it, or to a file that has no name any more.
LEMMA ConfigWriteText ==
  ASSUME TypeOK, StepOK, ConfigInv, ~overlapped, NEW c \in Calls, ~Pairing(c), WriteText(c)
  PROVE  ConfigInv'
<1>1. /\ \/ where[c] = "temp" /\ temp["config"] = Blank("empty")
         \/ where[c] = "gone" /\ temp["config"] = Blank("absent")
      /\ \A b \in Calls \ {c} : ~Pairing(b) => pc[b] \notin {"write", "rename"}
  BY DEF WriteText, ConfigInv, ConfigWriteOK
<1>2. After(Blank("empty"), c, FALSE) = {out[c]}
  BY ContentFields DEF After
<1>3. /\ pc'[c] = "rename" /\ temp'["config"] \in {out[c], Blank("absent")}
      /\ UNCHANGED <<file, out, op, overlapped>>
      /\ \A b \in Calls \ {c} : pc'[b] = pc[b]
  BY <1>1, <1>2 DEF WriteText, PutBytes, TypeOK, Goto, Set, Names, NameOf, Pairing, input_vars
<1>4. ConfigWriteOK'
  BY <1>1, <1>3 DEF ConfigWriteOK, Pairing
<1>5. ConfigWhole'
  BY <1>3 DEF ConfigInv, ConfigWhole
<1> QED
  BY <1>4, <1>5 DEF ConfigInv

\* Renaming it, if it is still there: then it is what the call wrote.
LEMMA ConfigRename ==
  ASSUME TypeOK, StepOK, ConfigInv, ~overlapped, NEW c \in Calls, ~Pairing(c), Rename(c)
  PROVE  ConfigInv' /\ temp["config"] = out[c] /\ file'["config"] = out[c]
<1>1. /\ temp["config"] = out[c] /\ out[c].state = "whole"
      /\ \A b \in Calls \ {c} : ~Pairing(b) => pc[b] \notin {"write", "rename"}
  BY ContentFields DEF Rename, ConfigInv, ConfigWriteOK, StepOK, NameOf, Pairing
<1>2. /\ pc'[c] = "chmod" /\ file'["config"] = out[c]
      /\ UNCHANGED <<op, out>>
      /\ \A b \in Calls \ {c} : pc'[b] = pc[b]
  BY <1>1 DEF Rename, TypeOK, Goto, Set, Names, NameOf, Pairing, input_vars
<1>3. ConfigWriteOK'
  BY <1>1, <1>2 DEF ConfigWriteOK, Pairing
<1>4. ConfigWhole'
  BY <1>1, <1>2 DEF ConfigWhole
<1> QED
  BY <1>1, <1>2, <1>3, <1>4 DEF ConfigInv

\* A write that fails, before or in the middle of the bytes.
LEMMA ConfigFailWrite ==
  ASSUME TypeOK, StepOK, ConfigInv, ~overlapped, NEW c \in Calls, ~Pairing(c), FailWrite(c)
  PROVE  ConfigInv'
<1>1. pc[c] = "write" =>
        /\ where[c] \in {"temp", "gone"}
        /\ \A b \in Calls \ {c} : ~Pairing(b) => pc[b] \notin {"write", "rename"}
  BY DEF ConfigInv, ConfigWriteOK
<1>2. /\ pc'[c] = "unlink"
      /\ UNCHANGED <<file, out, op>>
      /\ \A b \in Calls \ {c} : pc'[b] = pc[b] /\ where'[b] = where[b]
      /\ pc[c] # "write" => temp' = temp
  BY <1>1 DEF FailWrite, PutBytes, TypeOK, Goto, Set, input_vars
<1> QED
  BY <1>1, <1>2, QuietConfigStep DEF TypeOK, Writing

\* The unlinking of the temporary file, whoever's it is.
LEMMA ConfigUnlink ==
  ASSUME TypeOK, StepOK, ConfigInv, ~overlapped, NEW c \in Calls, ~Pairing(c), Unlink(c)
  PROVE  ConfigInv'
<1>1. /\ pc'[c] = "done"
      /\ UNCHANGED <<file, op, overlapped>>
      /\ \A b \in Calls \ {c} : pc'[b] = pc[b] /\ out'[b] = out[b]
      /\ \/ UNCHANGED <<temp, where>>
         \/ /\ temp'["config"] = Blank("absent")
            /\ \A b \in Calls : ~Pairing(b) /\ where[b] = "temp" => where'[b] = "gone"
            /\ \A b \in Calls : where[b] = "gone" => where'[b] = "gone"
  BY DEF Unlink, Return, TypeOK, Goto, Set, Names, NameOf, Pairing, input_vars
<1>2. ConfigWriteOK'
  BY <1>1 DEF ConfigInv, ConfigWriteOK, Pairing
<1>3. ConfigWhole'
  BY <1>1 DEF ConfigInv, ConfigWhole
<1> QED
  BY <1>2, <1>3 DEF ConfigInv

\* Loading writes nothing, whatever it is for.
LEMMA ConfigLoad ==
  ASSUME TypeOK, StepOK, ConfigInv, ~overlapped, NEW c \in Calls, Load(c)
  PROVE  ConfigInv'
<1>1. /\ pc'[c] \in {"done", "truncate"} /\ UNCHANGED <<file, temp, where, op>>
      /\ \A b \in Calls \ {c} : pc'[b] = pc[b] /\ out'[b] = out[b]
  BY DEF Load, Return, TypeOK, Goto, Set, disk_vars, input_vars
<1> QED
  BY <1>1, QuietConfigStep DEF TypeOK

\* Every step keeps the configuration whole until writers overlap.
LEMMA ConfigStep == TypeOK /\ StepOK /\ ConfigInv /\ [Next]_vars => ConfigInv'
<1> SUFFICES ASSUME TypeOK, StepOK, ConfigInv, [Next]_vars, ~overlapped PROVE ConfigInv'
  BY OverlappedStep
<1> USE DEF disk_vars, code_vars, input_vars, once_vars
<1>1. ASSUME NEW c \in Calls, Step(c), Pairing(c) PROVE ConfigInv'
  <2>1. \A b \in Calls : ~Pairing(b) => pc'[b] = pc[b] /\ out'[b] = out[b]
    BY <1>1, OtherCall
  <2>2. op' = op
    BY <1>1, OtherCall
  <2>3. /\ file'["config"] = file["config"] /\ temp'["config"] = temp["config"]
        /\ \A b \in Calls : ~Pairing(b) => where'[b] = where[b]
    BY <1>1, PairingFile
  <2> QED
    BY <2>1, <2>2, <2>3, QuietConfigStep DEF TypeOK
<1>2. ASSUME NEW c \in Calls, Step(c), ~Pairing(c) PROVE ConfigInv'
  <2>1. CASE Truncate(c) \/ WriteText(c) \/ Rename(c) \/ FailWrite(c) \/ Unlink(c) \/ Load(c)
    BY <1>2, <2>1, ConfigTruncate, ConfigWriteText, ConfigRename, ConfigFailWrite, ConfigUnlink,
       ConfigLoad
  <2>2. CASE Chmod(c)
    <3>1. /\ pc'[c] \in {"done", "load"}
          /\ UNCHANGED <<file, temp, where, op>>
          /\ \A b \in Calls \ {c} : pc'[b] = pc[b] /\ out'[b] = out[b]
      BY <2>2 DEF Chmod, Return, TypeOK, Goto, Set
    <3> QED
      BY <3>1, QuietConfigStep DEF TypeOK, Writing
  <2>3. CASE Exists(c)
    <3>1. /\ pc'[c] \in {"truncate", "load"}
          /\ UNCHANGED <<file, temp, where, op, out>>
          /\ \A b \in Calls \ {c} : pc'[b] = pc[b]
      BY <2>3 DEF Exists, TypeOK, Goto, Set
    <3> QED
      BY <3>1, QuietConfigStep DEF TypeOK, Writing
  <2>4. CASE Consume(c) \/ Issue(c)
    BY <1>2, <2>4 DEF Consume, Issue, StepOK
  <2> QED
    BY <1>2, <2>1, <2>2, <2>3, <2>4 DEF Step
<1>3. ASSUME NEW c \in Calls, BeginConfig(c) PROVE ConfigInv'
  <2>1. /\ pc'[c] \in {"truncate", "exists"}
        /\ UNCHANGED <<file, temp, where, op, out>>
        /\ \A b \in Calls \ {c} : pc'[b] = pc[b]
    BY <1>3 DEF BeginConfig, TypeOK, Goto, Set
  <2> QED
    BY <2>1, QuietConfigStep DEF TypeOK, Writing
<1>4. ASSUME NEW c \in Calls, BeginPair(c) \/ Authenticate(c) PROVE ConfigInv'
  <2>1. /\ pc'[c] \in {"lock", "done"}
        /\ UNCHANGED <<file, temp, where, op, out>>
        /\ \A b \in Calls \ {c} : pc'[b] = pc[b]
    BY <1>4 DEF BeginPair, Authenticate, TypeOK, Goto, Set
  <2> QED
    BY <2>1, QuietConfigStep DEF TypeOK, Writing
<1>5. CASE RotateExpired \/ Tick \/ UNCHANGED vars
  BY <1>5, QuietConfigStep DEF RotateExpired, Tick, vars, TypeOK
<1>6. CASE RemoveConfig
  <2>1. /\ file'["config"] = Blank("absent")
        /\ UNCHANGED <<temp, op, out, pc>>
        /\ \A b \in Calls : where[b] # "file" => where'[b] = where[b]
    BY <1>6 DEF RemoveConfig, TypeOK, Names
  <2>2. ConfigWriteOK'
    BY <2>1 DEF ConfigInv, ConfigWriteOK, Pairing
  <2>3. ConfigWhole'
    BY <2>1, ContentFields DEF ConfigWhole
  <2> QED
    BY <2>2, <2>3 DEF ConfigInv
<1>7. CASE Restart
  <2>1. /\ file'["config"] \in {file["config"], Blank("whole")}
        /\ \A b \in Calls : pc'[b] \notin {"write", "rename"}
        /\ overlapped' = overlapped
    BY <1>7 DEF Restart, TypeOK, Names, Working
  <2>2. ConfigWriteOK'
    BY <2>1 DEF ConfigWriteOK
  <2>3. ConfigWhole'
    BY <2>1, ContentFields DEF ConfigInv, ConfigWhole
  <2> QED
    BY <2>2, <2>3 DEF ConfigInv
<1> QED
  BY <1>1, <1>2, <1>3, <1>4, <1>5, <1>6, <1>7 DEF Next

-----------------------------------------------------------------------------
(* What a request has seen of the configuration.                           *)

\* While a request is on its way it misses no configuration and forgets none.
LEMMA HeldKept ==
  ASSUME TypeOK, StepOK, HeldOK, [Next]_vars, NEW b \in Calls, op[b] \in ConfigOps,
         Working(b), Working(b)'
  PROVE  held[b] \subseteq held'[b] /\ Held(file'["config"]) \subseteq held'[b]
<1> USE DEF disk_vars
<1>1. pc'[b] # "done" /\ pc'[b] # "lost" /\ pc[b] # "new" /\ Held(file["config"]) \subseteq held[b]
  BY DEF Working, HeldOK
<1>2. CASE Observe
  BY <1>2 DEF Observe, TypeOK
<1>3. CASE file'["config"] = file["config"] /\ held'[b] = held[b]
  BY <1>1, <1>3
<1>4. ASSUME NEW c \in Calls, NEW value, Return(c, value), file'["config"] = file["config"]
      PROVE  file'["config"] = file["config"] /\ held'[b] = held[b]
  BY <1>1, <1>4 DEF Return, Goto, Set, TypeOK
<1>5. ASSUME NEW c \in Calls, Step(c)
      PROVE  Observe \/ (file'["config"] = file["config"] /\ held'[b] = held[b])
  <2>1. CASE Truncate(c) \/ Exists(c) \/ Issue(c)
    BY <2>1 DEF Truncate, Exists, Issue
  <2>2. CASE WriteText(c) \/ FailWrite(c) \/ Rename(c)
    BY <2>2 DEF WriteText, FailWrite, PutBytes, Rename
  <2>3. CASE Chmod(c) \/ Unlink(c)
    BY <1>4, <2>3 DEF Chmod, Unlink
  <2>4. CASE Load(c) \/ Consume(c)
    BY <1>4, <2>4 DEF Load, Consume
  <2> QED
    BY <1>5, <2>1, <2>2, <2>3, <2>4 DEF Step
<1>6. ASSUME NEW c \in Calls, BeginConfig(c) \/ BeginPair(c) \/ Authenticate(c)
      PROVE  file'["config"] = file["config"] /\ held'[b] = held[b]
  BY <1>1, <1>6 DEF BeginConfig, BeginPair, Authenticate, Set, TypeOK
<1>7. CASE RotateExpired \/ Tick \/ RemoveConfig \/ UNCHANGED vars
  BY <1>2, <1>3, <1>7 DEF RotateExpired, Tick, RemoveConfig, vars
<1>8. ~Restart
  BY <1>1 DEF Restart, Working, TypeOK
<1> QED
  BY <1>2, <1>3, <1>5, <1>6, <1>7, <1>8 DEF Next

\* A request that is to write has been, has found no file, or has merged.
LEMMA WritingReached ==
  ASSUME TypeOK, StepOK, [Next]_vars, NEW b \in Calls, op[b] \in {"read", "update"},
         pc'[b] \in Writing
  PROVE  \/ pc[b] \in Writing /\ out'[b] = out[b] /\ sets'[b] = sets[b]
         \/ /\ pc[b] = "exists" /\ file["config"].state = "absent"
            /\ out'[b] = Blank("whole")
         \/ /\ pc[b] = "load" /\ file["config"].state = "whole"
            /\ out'[b].fields = Merge(b) /\ sets'[b] = sets[b]
<1> USE DEF Writing, disk_vars, input_vars
<1>1. ASSUME NEW c \in Calls, Step(c), c # b
      PROVE  pc[b] \in Writing /\ out'[b] = out[b] /\ sets'[b] = sets[b]
  <2>1. pc'[b] = pc[b] /\ out'[b] = out[b]
    BY <1>1, OtherCall
  <2>2. sets' = sets
    BY <1>1 DEF Step, Truncate, WriteText, Rename, Chmod, FailWrite, Unlink, Exists, Load,
       Consume, Issue
  <2> QED
    BY <2>1, <2>2
<1>2. CASE Truncate(b) \/ WriteText(b)
  BY <1>2 DEF Truncate, WriteText
<1>3. CASE Rename(b) \/ Chmod(b) \/ FailWrite(b) \/ Unlink(b)
  BY <1>3 DEF Rename, Chmod, FailWrite, Unlink, Return, Goto, Set, TypeOK
<1>4. CASE Exists(b)
  BY <1>4 DEF Exists, Goto, Set, TypeOK, StepOK
<1>5. CASE Load(b)
  <2>1. Merge(b) \in [Fields -> Setter]
    BY DEF Merge, TypeOK, Content, Names, Setter
  <2> QED
    BY <1>5, <2>1, ContentFields DEF Load, Return, Goto, Set, TypeOK
<1>6. CASE Consume(b) \/ Issue(b)
  BY <1>6 DEF Consume, Issue, StepOK, Pairing
<1>7. ASSUME NEW c \in Calls, BeginConfig(c) \/ BeginPair(c) \/ Authenticate(c)
      PROVE  pc[b] \in Writing /\ out'[b] = out[b] /\ sets'[b] = sets[b]
  BY <1>7 DEF BeginConfig, BeginPair, Authenticate, Goto, Set, TypeOK
<1>8. CASE RotateExpired \/ Tick \/ RemoveConfig \/ UNCHANGED vars
  BY <1>8 DEF RotateExpired, Tick, RemoveConfig, vars
<1>9. CASE Restart
  BY <1>9 DEF Restart, Working, TypeOK
<1> QED
  BY <1>1, <1>2, <1>3, <1>4, <1>5, <1>6, <1>7, <1>8, <1>9 DEF Next, Step

\* A request comes on its way by beginning, and looks at the file.
LEMMA WorkingReached ==
  ASSUME TypeOK, [Next]_vars, NEW b \in Calls, op[b] \in ConfigOps, ~Working(b), Working(b)'
  PROVE  /\ pc'[b] \in Writing => op[b] = "reset"
         /\ Held(file'["config"]) \subseteq held'[b]
<1> USE DEF disk_vars
<1>1. pc'[b] # pc[b] /\ pc[b] \in {"new", "done", "lost"}
  BY DEF Working
<1>2. CASE BeginConfig(b)
  BY <1>2 DEF BeginConfig, Goto, Set, TypeOK, Writing
<1>3. ASSUME NEW c \in Calls, BeginConfig(c) \/ BeginPair(c) \/ Authenticate(c), ~BeginConfig(b)
      PROVE  FALSE
  BY <1>1, <1>3 DEF BeginConfig, BeginPair, Authenticate, Goto, Set, TypeOK, ConfigOps
<1>4. ASSUME NEW c \in Calls, Step(c) PROVE FALSE
  BY <1>1, <1>4 DEF Step, Truncate, WriteText, Rename, Chmod, FailWrite, Unlink, Exists, Load,
     Consume, Issue, Return, Goto, Set, TypeOK, WriteSteps
<1>5. CASE RotateExpired \/ Tick \/ RemoveConfig \/ UNCHANGED vars
  BY <1>1, <1>5 DEF RotateExpired, Tick, RemoveConfig, vars
<1>6. CASE Restart
  BY <1>1, <1>6 DEF Restart, Working, TypeOK
<1> QED
  BY <1>2, <1>3, <1>4, <1>5, <1>6 DEF Next

\* So what it is to write, it has seen.
LEMMA HeldStep == TypeOK /\ StepOK /\ HeldOK /\ [Next]_vars => HeldOK'
<1> SUFFICES ASSUME TypeOK, StepOK, HeldOK, [Next]_vars, NEW b \in Calls,
                    op'[b] \in ConfigOps, Working(b)'
             PROVE  /\ Held(file'["config"]) \subseteq held'[b]
                    /\ op'[b] # "reset" /\ pc'[b] \in Writing =>
                         \E h \in held'[b] : \A f \in Fields \ sets'[b] : out'[b].fields[f] = h[f]
  BY DEF HeldOK
<1>1. op' = op
  BY DEF Next, Step, BeginConfig, BeginPair, Authenticate, Truncate, WriteText, Rename, Chmod,
     FailWrite, Unlink, Exists, Load, Consume, Issue, RotateExpired, Tick, RemoveConfig, Restart,
     vars, input_vars
<1>2. CASE ~Working(b)
  BY <1>1, <1>2, WorkingReached
<1>3. CASE Working(b)
  <2>1. held[b] \subseteq held'[b] /\ Held(file'["config"]) \subseteq held'[b]
    BY <1>1, <1>3, HeldKept
  <2> SUFFICES ASSUME op[b] \in {"read", "update"}, pc'[b] \in Writing
               PROVE  \E h \in held[b] : \A f \in Fields \ sets'[b] : out'[b].fields[f] = h[f]
    BY <1>1, <2>1 DEF ConfigOps
  <2>2. Held(file["config"]) \subseteq held[b]
    BY <1>1, <1>3 DEF HeldOK
  <2>3. CASE pc[b] \in Writing /\ out'[b] = out[b] /\ sets'[b] = sets[b]
    BY <1>1, <1>3, <2>3 DEF HeldOK
  <2>4. CASE file["config"].state = "absent" /\ out'[b] = Blank("whole")
    <3>1. DEFAULTS \in held[b] /\ out'[b].fields = DEFAULTS
      BY <2>2, <2>4, ContentFields DEF Held
    <3> QED
      BY <3>1
  <2>5. CASE file["config"].state = "whole" /\ out'[b].fields = Merge(b) /\ sets'[b] = sets[b]
    <3>1. file["config"].fields \in held[b]
      BY <2>2, <2>5 DEF Held
    <3>2. \A f \in Fields \ sets'[b] : out'[b].fields[f] = file["config"].fields[f]
      BY <2>5 DEF Merge
    <3> QED
      BY <3>1, <3>2
  <2> QED
    BY <2>3, <2>4, <2>5, WritingReached
<1> QED
  BY <1>2, <1>3

-----------------------------------------------------------------------------
(* The theorems.                                                           *)

\* The server starts with a whole configuration and nobody at work.
LEMMA InitInv == Init => IInv
<1> SUFFICES ASSUME Init PROVE IInv
  OBVIOUS
<1> USE StoresAssumption, ContentType, ContentFields DEF Init
<1>1. TypeOK
  <2>1. file \in [Names -> Content] /\ temp \in [Names -> Content] /\ out \in [Calls -> Content]
    OBVIOUS
  <2>2. op \in [Calls -> Ops]
    OBVIOUS
  <2>3. overlapped \in BOOLEAN /\ unread \in BOOLEAN /\ removed \in BOOLEAN /\ restarted \in BOOLEAN
    BY Zenon
  <2>4. /\ where \in [Calls -> {"closed", "temp", "file", "gone"}]
        /\ pc \in [Calls -> WriteSteps \cup {"new", "unlink", "exists", "load", "lock", "devices",
                                             "done", "lost"}]
        /\ result \in [Calls -> {"none", "ok", "error", "malformed", "refused"}]
        /\ sets \in [Calls -> SUBSET Fields]
    OBVIOUS
  <2>5. /\ presented \in [Calls -> 0..code] /\ arrival \in [Calls -> 0..now]
        /\ code \in Nat /\ expires \in 0..(now + TTL) /\ now \in 0..MaxTime
        /\ held \in [Calls -> SUBSET [Fields -> Setter]] /\ holder \in Calls \cup {NoCall}
    OBVIOUS
  <2> QED
    BY <2>1, <2>2, <2>3, <2>4, <2>5 DEF TypeOK
<1>2. StepOK /\ LockOK
  BY <1>1 DEF StepOK, LockOK, Section, WriteSteps
<1>3. TokenWriteOK /\ ConfigWriteOK /\ HeldOK
  BY DEF TokenWriteOK, ConfigWriteOK, HeldOK, Writing, Working
<1>4. file["config"] = Blank("whole") /\ file["tokens"] = Blank("absent")
  BY DEF Names
<1>5. Spent = {}
  BY <1>4 DEF Spent, Listed
<1>6. SpentOK
  BY <1>5 DEF SpentOK
<1>7. TornOnlyIfOverlapped /\ PairedStaysPaired
  BY <1>4 DEF TornOnlyIfOverlapped, PairedStaysPaired, Paired
<1> QED
  BY <1>1, <1>2, <1>3, <1>6, <1>7 DEF IInv

\* The inductive invariant.
THEOREM Invariance == Spec => []IInv
<1>1. IInv <=> TypeOK /\ StepOK /\ LockOK /\ TokenInv /\ ConfigInv /\ HeldOK /\ SpentOK
  BY DEF IInv, TokenInv, ConfigInv, TornOnlyIfOverlapped, TokensWhole, ConfigWhole
<1>2. IInv /\ [Next]_vars => IInv'
  <2> SUFFICES ASSUME IInv, [Next]_vars PROVE IInv'
    OBVIOUS
  <2>1. TypeOK' /\ StepOK' /\ LockOK' /\ TokenInv' /\ ConfigInv' /\ HeldOK' /\ SpentOK'
    BY <1>1, TypeStep, LockStep, TokenStep, ConfigStep, HeldStep, SpentStep
  <2> QED
    BY <2>1 DEF IInv, TokenInv, ConfigInv, TornOnlyIfOverlapped, TokensWhole, ConfigWhole
<1> QED
  BY InitInv, <1>2, PTL DEF Spec

\* Every variable keeps the values the code can give it, for all requests.
THEOREM TypeCorrect == Spec => []TypeOK
<1>1. IInv => TypeOK
  BY DEF IInv
<1> QED
  BY <1>1, Invariance, PTL

\* The token file is whole always, and the configuration until two writers share
\* its temporary file (config.py:82-90 and pairing.py:131).
THEOREM FilesWhole == Spec => []TornOnlyIfOverlapped
<1>1. IInv => TornOnlyIfOverlapped
  BY DEF IInv
<1> QED
  BY <1>1, Invariance, PTL

\* A device that was paired stays so, whatever fails and whoever pairs after it
\* (pairing.py:59-86).
THEOREM DevicesStay == Spec => []PairedStaysPaired
<1>1. IInv => PairedStaysPaired
  BY DEF IInv
<1> QED
  BY <1>1, Invariance, PTL

\* A code pairs one device at most (pairing.py:119-132).
THEOREM CodesPairOnce == Spec => []CodePairsOnce
<1>1. IInv => CodePairsOnce
  BY DEF IInv, SpentOK, Spent, CodePairsOnce
<1> QED
  BY <1>1, Invariance, PTL

\* What a request writes of the fields it was not given is what the file held at one
\* moment since the request began (session.py:153-155, config.py:121-135 and 165-166).
THEOREM NothingOlder == Spec => NothingOlderRestored
<1> DEFINE Seen ==
      \A c \in Calls :
        Rename(c) /\ op[c] \in {"read", "update"} /\ ~overlapped =>
          \E h \in held[c] :
            \A f \in Fields \ sets[c] : file'["config"].fields[f] = h[f]
<1>1. IInv => Seen
  <2> SUFFICES ASSUME IInv, NEW c \in Calls, Rename(c), op[c] \in {"read", "update"}, ~overlapped
               PROVE  \E h \in held[c] :
                        \A f \in Fields \ sets[c] : file'["config"].fields[f] = h[f]
    OBVIOUS
  <2>1. ConfigInv
    BY DEF IInv, ConfigInv, TornOnlyIfOverlapped, ConfigWhole
  <2>2. file'["config"] = out[c]
    BY <2>1, ConfigRename DEF IInv, Pairing
  <2>3. pc[c] = "rename"
    BY DEF Rename
  <2> QED
    BY <2>2, <2>3 DEF IInv, HeldOK, Writing, Working, ConfigOps
<1>2. IInv /\ [Next]_vars => [Seen]_vars
  BY <1>1
<1>3. Spec => [][Seen]_vars
  BY <1>2, Invariance, PTL DEF Spec
<1> QED
  BY <1>3 DEF NothingOlderRestored
=============================================================================
