-------------------------- MODULE MCSessionManager --------------------------
(* The instance of SessionManager that TLC checks. *)
EXTENDS SessionManager, TLC

CONSTANTS r1, r2, p1, p2, w1

const_Requests == {r1, r2}
const_Paths == {p1, p2}
const_Writers == {w1}
=============================================================================
