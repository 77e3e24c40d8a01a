----------------------------- MODULE MCWorkspace -----------------------------
(* The instances of Workspace that TLC checks: an append, a read and a third  *)
(* call of any kind; and a repair beside the update of a text file.           *)
EXTENDS Workspace, TLC

CONSTANTS c1, c2, c3

const_Calls == {c1, c2, c3}
const_Files == <<"memory.md">>
const_OpsOf == (c1 :> {"append"}) @@ (c2 :> {"read_history"}) @@ (c3 :> Ops)
const_OpsOfFiles ==
  (c1 :> {"repair"}) @@ (c2 :> {"write_text"}) @@ (c3 :> {"write_text", "repair", "reset"})
const_LastDay == 2
=============================================================================
