---------------------------- MODULE ServerStores ----------------------------
(***************************************************************************)
(* The two files the server keeps, config.json of config.py and            *)
(* device-tokens.json of pairing.py, the pairing code in its memory, and   *)
(* the requests that read and change them.  Both files are written by      *)
(* _atomic_write_json, through a temporary file with a fixed name.         *)
(*                                                                         *)
(* The routes are synchronous, so that each request runs in a thread; an   *)
(* action is one step on the disk.  Nothing but the manager's lock, which  *)
(* pairing holds, orders them.  The configuration is a function from       *)
(* fields to the call that set each; the token file is the set of calls    *)
(* that were paired by it.  Any step on the disk may fail, and the process *)
(* may be killed and started again.                                        *)
(***************************************************************************)
EXTENDS Naturals

CONSTANTS
  Calls,     \* requests
  Mixes,     \* the assignments of operations to them to look at
  Fields,    \* CONFIG_FIELDS
  TTL,       \* PAIRING_TTL_SECONDS, in ticks
  MaxTime,   \* bound on the ticks that pass
  NoCall     \* the holder of a free lock

ConfigOps == {"read", "update", "reset"}
Ops == ConfigOps \cup {"pair", "authenticate"}

ASSUME StoresAssumption ==
  /\ Mixes \subseteq [Calls -> Ops]
  /\ TTL \in Nat \ {0}
  /\ MaxTime \in Nat
  /\ NoCall \notin Calls
  /\ "default" \notin Calls

Names == {"config", "tokens"}

\* What a file may hold.
Setter == Calls \cup {"default"}
Content == [state: {"absent", "empty", "torn", "whole"},
            fields: [Fields -> Setter],
            devices: SUBSET Calls]

DEFAULTS == [f \in Fields |-> "default"]
Blank(state) == [state |-> state, fields |-> DEFAULTS, devices |-> {}]
Config(fields) == [Blank("whole") EXCEPT !.fields = fields]
Devices(devices) == [Blank("whole") EXCEPT !.devices = devices]

VARIABLES
  file, temp,   \* each file and its temporary file
  where,        \* what the file a call has open for writing is by now
  out,          \* what the call is to write
  pc, op, result,
  sets,         \* the fields an update was given
  presented,    \* the code a pair request carries
  arrival,      \* when consume read the clock
  held,         \* the configurations there have been since a request that is
                \* on its way began
  code,         \* the last code generated
  expires,      \* expires_at of it; 0 while there is none
  holder,       \* who holds the PairingManager's lock
  now,
  overlapped,   \* two calls have been between opening and renaming one file
  unread,       \* the token file could not be read when it was needed
  removed, restarted

disk_vars == <<file, temp, where, overlapped>>
code_vars == <<code, expires>>
input_vars == <<op, sets, presented, arrival>>
once_vars == <<removed, restarted>>
vars == <<disk_vars, held, out, pc, input_vars, result, code_vars, holder, now, unread, once_vars>>

Set(f, c, v) == [f EXCEPT ![c] = v]
Goto(c, step) == pc' = Set(pc, c, step)
NameOf(c) == IF op[c] = "pair" THEN "tokens" ELSE "config"

Init ==
  /\ file = [n \in Names |-> IF n = "config" THEN Blank("whole") ELSE Blank("absent")]
  /\ temp = [n \in Names |-> Blank("absent")]
  /\ where = [c \in Calls |-> "closed"]
  /\ out = [c \in Calls |-> Blank("whole")]
  /\ pc = [c \in Calls |-> "new"]
  /\ op \in Mixes
  /\ result = [c \in Calls |-> "none"]
  /\ sets = [c \in Calls |-> {}]
  /\ presented = [c \in Calls |-> 0]
  /\ arrival = [c \in Calls |-> 0]
  /\ held = [c \in Calls |-> {}]
  /\ code = 0
  /\ expires = 0
  /\ holder = NoCall
  /\ now = 0
  /\ overlapped = FALSE
  /\ unread = FALSE
  /\ removed = FALSE
  /\ restarted = FALSE

-----------------------------------------------------------------------------
(* How a request begins and ends.                                          *)

Working(c) == pc[c] \notin {"new", "done", "lost"}

\* The configuration a file is: a missing one counts as the defaults.
Held(x) ==
  CASE x.state = "absent" -> {DEFAULTS}
    [] x.state = "whole"  -> {x.fields}
    [] OTHER              -> {}

\* What is there now is seen by everyone on the way.
Observe == held' = [b \in Calls |-> IF Working(b) THEN held[b] \cup Held(file'["config"])
                                                ELSE held[b]]

BeginConfig(c) ==
  /\ pc[c] = "new" /\ op[c] \in ConfigOps
  /\ Goto(c, IF op[c] = "reset" THEN "truncate" ELSE "exists")
  /\ IF op[c] = "update" THEN \E s \in SUBSET Fields \ {{}} : sets' = Set(sets, c, s)
                         ELSE UNCHANGED sets
  /\ held' = Set(held, c, Held(file["config"]))
  /\ UNCHANGED <<disk_vars, out, op, presented, arrival, result, code_vars, holder, now, unread,
                 once_vars>>

\* consume reads the clock before it takes the lock.  The code is one that was
\* shown at some time.
BeginPair(c) ==
  /\ pc[c] = "new" /\ op[c] = "pair"
  /\ \E k \in 1..code : presented' = Set(presented, c, k)
  /\ arrival' = Set(arrival, c, now)
  /\ Goto(c, "lock")
  /\ UNCHANGED <<disk_vars, held, out, op, sets, result, code_vars, holder, now, unread, once_vars>>

\* The request is answered; its locals go.
Return(c, value) ==
  /\ Goto(c, "done")
  /\ result' = Set(result, c, value)
  /\ out' = Set(out, c, Blank("whole"))
  /\ held' = Set(held, c, {})
  /\ holder' = IF holder = c THEN NoCall ELSE holder

-----------------------------------------------------------------------------
(* _atomic_write_json.                                                     *)

WriteSteps == {"truncate", "write", "rename", "chmod"}

\* Mutant: the file itself is opened for writing.
TruncateInPlace(c) ==
  /\ pc[c] = "truncate"
  /\ file' = Set(file, NameOf(c), Blank("empty"))
  /\ temp' = Set(temp, NameOf(c), Blank("whole"))
  /\ where' = Set(where, c, "file")
  /\ Goto(c, "write")
  /\ UNCHANGED <<held, overlapped, out, input_vars, result, code_vars, holder, now, unread,
                 once_vars>>

\* write_text opens the temporary file, empties it, and shares it with
\* whoever has it open.
Truncate(c) ==
  /\ pc[c] = "truncate"
  /\ temp' = Set(temp, NameOf(c), Blank("empty"))
  /\ where' = Set(where, c, "temp")
  /\ overlapped' = (overlapped \/ \E b \in Calls \ {c} :
                      NameOf(b) = NameOf(c) /\ pc[b] \in {"write", "rename"})
  /\ Goto(c, "write")
  /\ UNCHANGED <<file, held, out, input_vars, result, code_vars, holder, now, unread, once_vars>>

\* What a file that held x holds after bytes of c's text: the text, with the end
\* of a longer one it did not cover, or a part of it if the write fails.
After(x, c, fails) ==
  IF fails THEN {x, Blank("torn")}
  ELSE IF x.state = "empty" THEN {out[c]} ELSE {out[c], Blank("torn")}

\* The bytes reach what c has open: the temporary file, the file itself if another
\* call renamed it meanwhile, or a file without a name.
PutBytes(c, fails) ==
  LET n == NameOf(c) IN
  /\ where' = Set(where, c, "closed")
  /\ \/ /\ where[c] = "temp"
        /\ \E x \in After(temp[n], c, fails) : temp' = Set(temp, n, x)
        /\ UNCHANGED <<file, held>>
     \/ /\ where[c] = "file"
        /\ \E x \in After(file[n], c, fails) : file' = Set(file, n, x)
        /\ Observe
        /\ UNCHANGED temp
     \/ /\ where[c] = "gone"
        /\ UNCHANGED <<file, temp, held>>

WriteText(c) ==
  /\ pc[c] = "write"
  /\ PutBytes(c, FALSE)
  /\ Goto(c, "rename")
  /\ UNCHANGED <<out, input_vars, result, code_vars, holder, now, overlapped, unread, once_vars>>

\* temporary.replace(path): what had the name before has none now.
Rename(c) ==
  LET n == NameOf(c) IN
  /\ pc[c] = "rename"
  /\ temp[n].state # "absent"
  /\ file' = Set(file, n, temp[n])
  /\ temp' = Set(temp, n, Blank("absent"))
  /\ where' = [b \in Calls |-> IF NameOf(b) # n THEN where[b]
                               ELSE IF where[b] = "temp" THEN "file"
                               ELSE IF where[b] = "file" THEN "gone" ELSE where[b]]
  /\ Observe
  /\ Goto(c, "chmod")
  /\ UNCHANGED <<out, input_vars, result, code_vars, holder, now, overlapped, unread, once_vars>>

\* What c writes is a configuration of its own, not the defaults.
Saving(c) == \E f \in sets[c] : out[c].fields[f] = c

\* A load that had to create the file goes on to read it, as reset does.
Chmod(c) ==
  /\ pc[c] = "chmod"
  /\ IF op[c] = "pair" \/ Saving(c)
       THEN Return(c, "ok")
       ELSE Goto(c, "load") /\ UNCHANGED <<held, out, result, holder>>
  /\ UNCHANGED <<disk_vars, input_vars, code_vars, now, unread, once_vars>>

\* A step raises OSError, in the middle of the bytes or without any effect; a
\* rename does when the temporary file has gone.
FailWrite(c) ==
  /\ pc[c] \in WriteSteps
  /\ IF pc[c] = "write"
       THEN PutBytes(c, TRUE)
       ELSE UNCHANGED <<file, temp, where, held>>
  /\ Goto(c, "unlink")
  /\ UNCHANGED <<out, input_vars, result, code_vars, holder, now, overlapped, unread, once_vars>>

\* The handler unlinks the temporary file, whoever's it is by now, and raises.
Unlink(c) ==
  LET n == NameOf(c) IN
  /\ pc[c] = "unlink"
  /\ \/ /\ temp' = Set(temp, n, Blank("absent"))
        /\ where' = [b \in Calls |-> IF NameOf(b) = n /\ where[b] = "temp" THEN "gone" ELSE where[b]]
     \/ UNCHANGED <<temp, where>>
  /\ Return(c, "error")
  /\ UNCHANGED <<file, overlapped, input_vars, code_vars, now, unread, once_vars>>

-----------------------------------------------------------------------------
(* ConfigStore.                                                            *)

\* load: `if not self.path.exists(): self.write_defaults()`.
Exists(c) ==
  /\ pc[c] = "exists"
  /\ Goto(c, IF file["config"].state = "absent" THEN "truncate" ELSE "load")
  /\ UNCHANGED <<disk_vars, held, out, input_vars, result, code_vars, holder, now, unread, once_vars>>

\* Mutant: a blank means an omitted field too, so the default takes its place.
MergeWithDefaults(c) == [f \in Fields |-> IF f \in sets[c] THEN c ELSE "default"]

\* _merge_config: what an update omits keeps the value that was loaded.
Merge(c) == [f \in Fields |-> IF f \in sets[c] THEN c ELSE file["config"].fields[f]]

\* load reads and parses the file.  update goes on to merge and save, unless
\* the result is invalid.
Load(c) ==
  /\ pc[c] = "load"
  /\ \/ Return(c, "error")
     \/ /\ file["config"].state \in {"empty", "torn"}
        /\ Return(c, "malformed")
     \/ /\ file["config"].state = "whole" /\ op[c] \in {"read", "reset"}
        /\ Return(c, "ok")
     \/ /\ file["config"].state = "whole" /\ op[c] = "update"
        /\ out' = Set(out, c, Config(Merge(c)))
        /\ Goto(c, "truncate")
        /\ UNCHANGED <<held, result, holder>>
  /\ UNCHANGED <<disk_vars, input_vars, code_vars, now, unread, once_vars>>

\* Somebody removes config.json while the server runs: why load creates it.
RemoveConfig ==
  /\ ~removed
  /\ removed' = TRUE
  /\ file' = [file EXCEPT !["config"] = Blank("absent")]
  /\ where' = [b \in Calls |-> IF NameOf(b) = "config" /\ where[b] = "file" THEN "gone" ELSE where[b]]
  /\ Observe
  /\ UNCHANGED <<temp, overlapped, out, pc, input_vars, result, code_vars, holder, now, unread,
                 restarted>>

-----------------------------------------------------------------------------
(* PairingManager and DeviceTokenStore.                                    *)

\* Mutant: the lifetime is counted from the end of that of the last code.
RotateOn(at) == code' = code + 1 /\ expires' = (IF expires > at THEN expires ELSE at) + TTL

\* _rotate_locked at a time that was read earlier, and on_rotate, which prints
\* the code: if it has expired by then, printing rotates once more.
Rotate(at) ==
  IF at + TTL > now
    THEN code' = code + 1 /\ expires' = at + TTL
    ELSE code' = code + 2 /\ expires' = now + TTL

\* Mutant: the code stays in use until it expires.
ConsumeKeepingCode(c) ==
  /\ pc[c] = "lock"
  /\ holder = NoCall
  /\ expires > arrival[c]
  /\ presented[c] = code
  /\ holder' = c
  /\ Goto(c, "devices")
  /\ UNCHANGED <<disk_vars, held, out, input_vars, result, code_vars, now, unread, once_vars>>

\* consume, up to issue: the code is rotated before the token is issued.
Consume(c) ==
  /\ pc[c] = "lock"
  /\ holder = NoCall
  /\ \/ /\ expires <= arrival[c]
        /\ Rotate(arrival[c])
        /\ Return(c, "error")
     \/ /\ expires > arrival[c] /\ presented[c] # code
        /\ Return(c, "error")
        /\ UNCHANGED code_vars
     \/ /\ expires > arrival[c] /\ presented[c] = code
        /\ Rotate(arrival[c])
        /\ holder' = c
        /\ Goto(c, "devices")
        /\ UNCHANGED <<held, out, result>>
  /\ arrival' = Set(arrival, c, 0)
  /\ UNCHANGED <<disk_vars, op, sets, presented, now, unread, once_vars>>

\* What _read makes of the token file.
Listed == IF file["tokens"].state = "whole" THEN file["tokens"].devices ELSE {}

\* Mutant: issue writes the new record without those that were there.
IssueAfresh(c) ==
  /\ pc[c] = "devices"
  /\ out' = Set(out, c, Devices({c}))
  /\ Goto(c, "truncate")
  /\ UNCHANGED <<disk_vars, held, input_vars, result, code_vars, holder, now, unread, once_vars>>

\* issue: a file that cannot be read counts as empty.
Issue(c) ==
  /\ pc[c] = "devices"
  /\ \/ out' = Set(out, c, Devices(Listed \cup {c})) /\ UNCHANGED unread
     \/ out' = Set(out, c, Devices({c})) /\ unread' = TRUE
  /\ Goto(c, "truncate")
  /\ UNCHANGED <<disk_vars, held, input_vars, result, code_vars, holder, now, once_vars>>

Paired(c) == op[c] = "pair" /\ result[c] = "ok"

\* A request with the token of a paired device: the middleware reads the file,
\* under the lock of another DeviceTokenStore than the one that issues.
Authenticate(c) ==
  /\ pc[c] = "new" /\ op[c] = "authenticate"
  /\ Goto(c, "done")
  /\ \E d \in Calls :
       /\ Paired(d)
       /\ \/ /\ result' = Set(result, c, IF d \in Listed THEN "ok" ELSE "refused")
             /\ UNCHANGED unread
          \/ result' = Set(result, c, "refused") /\ unread' = TRUE
  /\ UNCHANGED <<disk_vars, held, out, input_vars, code_vars, holder, now, once_vars>>

\* Pairing and its requests are there in remote mode only.
Remote == \E c \in Calls : op[c] \in {"pair", "authenticate"}

\* _pairing_rotation wakes up after the expiry it slept on.
RotateExpired ==
  /\ Remote
  /\ holder = NoCall
  /\ expires <= now
  /\ Rotate(now)
  /\ UNCHANGED <<disk_vars, held, out, pc, input_vars, result, holder, now, unread, once_vars>>

Tick ==
  /\ Remote
  /\ now < MaxTime
  /\ now' = now + 1
  /\ UNCHANGED <<disk_vars, held, out, pc, input_vars, result, code_vars, holder, unread, once_vars>>

\* The process is killed; the next one seeds a missing configuration (setup) and
\* has no code yet.
Restart ==
  /\ ~restarted
  /\ restarted' = TRUE
  /\ pc' = [c \in Calls |-> IF Working(c) THEN "lost" ELSE pc[c]]
  /\ where' = [c \in Calls |-> "closed"]
  /\ holder' = NoCall
  /\ expires' = 0
  /\ held' = [c \in Calls |-> {}]
  /\ file' = IF file["config"].state = "absent"
               THEN [file EXCEPT !["config"] = Blank("whole")] ELSE file
  /\ UNCHANGED <<temp, overlapped, out, input_vars, result, code, now, unread, removed>>

-----------------------------------------------------------------------------
Step(c) ==
  \/ Truncate(c) \/ WriteText(c) \/ Rename(c) \/ Chmod(c) \/ FailWrite(c) \/ Unlink(c)
  \/ Exists(c) \/ Load(c) \/ Consume(c) \/ Issue(c)

Next ==
  \/ \E c \in Calls : BeginConfig(c) \/ BeginPair(c) \/ Authenticate(c) \/ Step(c)
  \/ RotateExpired \/ Tick \/ RemoveConfig \/ Restart

Spec == Init /\ [][Next]_vars
-----------------------------------------------------------------------------
(* Properties.                                                             *)

\* Every variable ranges over the values the code can give it.
TypeOK ==
  /\ file \in [Names -> Content]
  /\ temp \in [Names -> Content]
  /\ where \in [Calls -> {"closed", "temp", "file", "gone"}]
  /\ out \in [Calls -> Content]
  /\ pc \in [Calls -> WriteSteps \cup {"new", "unlink", "exists", "load", "lock", "devices",
                                       "done", "lost"}]
  /\ op \in [Calls -> Ops]
  /\ result \in [Calls -> {"none", "ok", "error", "malformed", "refused"}]
  /\ sets \in [Calls -> SUBSET Fields]
  /\ presented \in [Calls -> 0..code]
  /\ arrival \in [Calls -> 0..now]
  /\ held \in [Calls -> SUBSET [Fields -> Setter]]
  /\ code \in Nat
  /\ expires \in 0..(now + TTL)
  /\ holder \in Calls \cup {NoCall}
  /\ now \in 0..MaxTime
  /\ overlapped \in BOOLEAN
  /\ unread \in BOOLEAN
  /\ removed \in BOOLEAN
  /\ restarted \in BOOLEAN

\* Writing through a temporary file, config.json is whole whatever fails or is
\* killed, as long as no two writers were in _atomic_write_json at once; if they
\* were, they shared the temporary file (config.py:82).  And the token file,
\* which is written under the manager's lock, is whole always (pairing.py:131).
TornOnlyIfOverlapped ==
  /\ file["config"].state \in {"empty", "torn"} => overlapped
  /\ file["tokens"].state \in {"absent", "whole"}

\* What a request writes of the fields it was not given, config.json held as a whole
\* at some moment since the request began: no value that had been replaced before
\* comes back, no two states are mixed, and defaults are written over a file only by a
\* request that found none, unless two writers shared the temporary file
\* (session.py:153-155, config.py:121-135 and 165-166).
NothingOlderRestored ==
  [][\A c \in Calls :
       Rename(c) /\ op[c] \in {"read", "update"} /\ ~overlapped =>
         \E h \in held[c] :
           \A f \in Fields \ sets[c] : file'["config"].fields[f] = h[f]]_vars

\* A device that was given its token stays in the file and is let in, across failed
\* requests, later pairings and restarts, unless the file could once not be read, which
\* counts as empty and is written back like that (pairing.py:59-86).
PairedStaysPaired ==
  ~unread =>
    /\ \A c \in Calls : Paired(c) => c \in Listed
    /\ \A c \in Calls : result[c] # "refused"

\* No code pairs two devices, also if issuing to the first of them failed after
\* its token reached the file, or the server was restarted (pairing.py:119-132).
CodePairsOnce ==
  \A b, c \in Listed : presented[b] = presented[c] => b = c
=============================================================================
