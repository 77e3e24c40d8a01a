----------------------------- MODULE TurnSlots -----------------------------
(***************************************************************************)
(* What the server promises about turns: one slot for each workspace path, *)
(* taken synchronously or refused, under which the kernel runs at most     *)
(* once, and which only its own turn gives back.  The docstring of         *)
(* SessionManager (server/amnesia_agent_server/session.py) states it: "one *)
(* active turn per resolved workspace path.  Different paths may run turns *)
(* in parallel."  Nothing is promised about a slot that is never released. *)
(* A turn counts as stopped from the moment it is told to stop: what it    *)
(* still records while it unwinds is left out here.                        *)
(***************************************************************************)

CONSTANTS
  Turns,    \* turn requests
  Paths,    \* resolved workspace paths
  NoTurn    \* the holder of a free slot

VARIABLES
  path,     \* the workspace each turn asks for
  holder,   \* the turn that holds each path's slot
  state     \* how far each turn has come

vars == <<path, holder, state>>

TypeOK ==
  /\ path \in [Turns -> Paths]
  /\ holder \in [Paths -> Turns \cup {NoTurn}]
  /\ state \in [Turns -> {"new", "refused", "admitted", "running", "stopped", "released"}]

Init ==
  /\ path \in [Turns -> Paths]
  /\ holder = [p \in Paths |-> NoTurn]
  /\ state = [t \in Turns |-> "new"]

Become(t, s) == state' = [state EXCEPT ![t] = s]

Admit(t) ==
  /\ state[t] = "new"
  /\ holder[path[t]] = NoTurn
  /\ holder' = [holder EXCEPT ![path[t]] = t]
  /\ Become(t, "admitted")
  /\ UNCHANGED path

Refuse(t) ==
  /\ state[t] = "new"
  /\ holder[path[t]] # NoTurn
  /\ Become(t, "refused")
  /\ UNCHANGED <<path, holder>>

\* The kernel runs under the slot.
Run(t) ==
  /\ state[t] = "admitted"
  /\ Become(t, "running")
  /\ UNCHANGED <<path, holder>>

\* The kernel has stopped, or was told to; the slot is still held.
Stop(t) ==
  /\ state[t] = "running"
  /\ Become(t, "stopped")
  /\ UNCHANGED <<path, holder>>

Release(t) ==
  /\ state[t] \in {"admitted", "running", "stopped"}
  /\ holder' = [holder EXCEPT ![path[t]] = NoTurn]
  /\ Become(t, "released")
  /\ UNCHANGED path

Next == \E t \in Turns : Admit(t) \/ Refuse(t) \/ Run(t) \/ Stop(t) \/ Release(t)

Spec == Init /\ [][Next]_vars

\* A path's slot is held by exactly the turn on that path that was admitted
\* and has not released it.
SlotHeldByItsTurn ==
  \A t \in Turns :
    holder[path[t]] = t <=> state[t] \in {"admitted", "running", "stopped"}

\* Two turns never run in one workspace at a time.
OneRunningTurnPerPath ==
  \A t, u \in Turns :
    state[t] = "running" /\ state[u] = "running" /\ path[t] = path[u] => t = u
=============================================================================
