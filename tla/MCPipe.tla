------------------------------- MODULE MCPipe -------------------------------
(* Small instances of Pipe for TLC. *)
EXTENDS Pipe

CONSTANTS x, y

(* A call that may fit, and one that is longer than the pipe. *)
MCText == {<<y>>, <<x, y, x>>}
=============================================================================
