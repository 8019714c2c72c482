------------------------------ MODULE MCRelay ------------------------------
(* Relay on small instances.  Handlers of one kind are alike, so a run that *)
(* checks safety alone may permute them.                                    *)
EXTENDS Relay, TLC

PollSymmetry == Permutations(Polls)

StreamSymmetry == Permutations(Streams)

=============================================================================
