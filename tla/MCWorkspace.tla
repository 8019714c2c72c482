---------------------------- MODULE MCWorkspace ----------------------------
(* The workspace server and two machines, for TLC: a session runs on the   *)
(* one, and on the other its user uploads by hand.                         *)
EXTENDS Workspace

CONSTANTS a, b

OneOfEach == {<<a, "loop">>, <<b, "hand">>}
=============================================================================
