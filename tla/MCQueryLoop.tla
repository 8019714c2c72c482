---------------------------- MODULE MCQueryLoop ----------------------------
(* The query loop with its surroundings bounded, for TLC.                  *)
EXTENDS QueryLoop

CONSTANT MaxTroubles

BothArms == {"anthropic", "provider"}
AllExits == {0, 1, 2}

One(b) == IF b THEN 1 ELSE 0

\* The number of things that got in the way of a plain run so far.
Troubles ==
  (Retries - retriesLeft) + One(usedFallback) + recoveries + (ProseBudget - proseLeft)
    + goalTurns + failures + raised + mailed + One(cancelled)

\* Bounds how many of them are combined in one behaviour.
FewTroubles == Troubles <= MaxTroubles

\* A hook speaks once in a history.
HooksSpeakOnce ==
  \A i, j \in 1..Len(history) : history[i].kind = "hook" /\ history[j].kind = "hook" => i = j

\* Apart from a hook's words and the results of tools, what a message says makes
\* no difference to the pairing; neither does the number of requests sent so far.
Said(m) == IF m.kind \in {"prompt", "note", "rule", "mail", "goal", "recovery", "limit", "summary"}
           THEN [m EXCEPT !.kind = "said"] ELSE m

View ==
  <<[i \in 1..Len(history) |-> Said(history[i])], pc, arm, loopVars, summaryTurn, failures,
    toolVars, advisorVars, mailVars, cancelled, queries>>
=============================================================================
