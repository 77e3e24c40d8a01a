--------------------------- MODULE MCServerStores ---------------------------
(* The instance of ServerStores that TLC checks: an update beside another   *)
(* update or a reset and a read; and two pairings beside a request of a    *)
(* paired device.                                                        *)
EXTENDS ServerStores, TLC

CONSTANTS c1, c2, c3, key, url

const_Calls == {c1, c2, c3}
const_Mixes ==
  {c1 :> "update" @@ c2 :> o @@ c3 :> "read" : o \in {"update", "reset"}}
    \cup {c1 :> "pair" @@ c2 :> "pair" @@ c3 :> "authenticate"}
const_Fields == {key, url}
symm_Fields == Permutations(const_Fields)
const_TTL == 1
const_MaxTime == 1
=============================================================================
