----------------------------- MODULE MCTurnLoop -----------------------------
(* TurnLoop on small instances. *)
EXTENDS TurnLoop

\* The first prompt is a slash command, the others are text.
FirstIsCommand == {1}

NoCommands == {}

=============================================================================
