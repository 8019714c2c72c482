-------------------------------- MODULE MCAcp --------------------------------
(***************************************************************************)
(* The ACP server on a small instance.  Session ids are interchangeable;    *)
(* what a handler that has ended was about, and what a disturbed session    *)
(* was promised, no longer matters.                                         *)
(***************************************************************************)
EXTENDS AcpServer, TLC

Symmetry == Permutations(Ids)

\* The sessions that no fork has made.
Origins == {i \in named : ~\E r \in Requests : kind[r] = "fork" /\ held[r] = i}

\* Permissions and the end of stdin have nothing to do with saves and restarts,
\* nor has a session with another that is not its fork; the last message meets
\* no two of them.
OneTrouble ==
  /\ asked > 0 \/ eof => failures = 0 /\ crashes = 0 /\ received < MaxRequests
  /\ failures > 0 /\ crashes > 0 => received < MaxRequests
  /\ crashes = 0 /\ Cardinality(Origins) > 1 => received < MaxRequests

View ==
  LET live(f, gone) == [r \in Requests |-> IF pc[r] = "done" THEN gone ELSE f[r]]
  IN  <<sessions, inFlight, token, cancelled \cap InTurn, disk, received, pc, held,
        live(kind, "cancel"), live(target, None), live(after, "done"),
        [r \in Requests |-> IF pc[r] = "done"
                            THEN IF r \in ToSet(copy[r]) /\ IsPrompt(r) THEN <<r>> ELSE <<>>
                            ELSE copy[r]],
        asking, process, [i \in Undisturbed |-> <<promised[i], promised[i] \cap unfiled[i]>>],
        disturbed, struck \cap InTurn>>
=============================================================================
