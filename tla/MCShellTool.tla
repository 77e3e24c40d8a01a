----------------------------- MODULE MCShellTool -----------------------------
(* The instance of ShellTool that TLC checks. *)
EXTENDS ShellTool

const_Limit == 2
const_PipeCapacity == 2
const_Buffer == 1
const_MaxOutput == 5
=============================================================================
