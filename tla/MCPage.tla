------------------------------- MODULE MCPage -------------------------------
(* Instance of Page for TLC. *)
EXTENDS Page

CONSTANTS a, b
TwoSessions == {a, b}

FewKinds == {"permission", "bypass", "history"}
=============================================================================
