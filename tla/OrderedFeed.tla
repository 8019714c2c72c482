---------------------------- MODULE OrderedFeed ----------------------------
(***************************************************************************)
(* What each direction of Remote Control promises its readers: items are   *)
(* numbered as they are sent; a reader gets each at most once and in the   *)
(* order they were sent.  Items may be lost on the way, and a reader that  *)
(* may forget can start again from nothing.                                *)
(***************************************************************************)
EXTENDS Integers, Sequences

CONSTANTS
  Readers,
  Forgetful   \* those of them that may start again

VARIABLES
  sent,  \* how many items have been sent
  seen   \* what each reader has got, in the order it got it

Extends(s, t) == Len(s) <= Len(t) /\ \A i \in 1 .. Len(s) : t[i] = s[i]

InOrder(s) == \A i, j \in 1 .. Len(s) : i < j => s[i] < s[j]

AllSent(s) == \A i \in 1 .. Len(s) : s[i] \in 1 .. sent

Init == sent = 0 /\ seen = [r \in Readers |-> <<>>]

Send ==
  /\ sent' > sent
  /\ UNCHANGED seen

Deliver(r) ==
  /\ Extends(seen[r], seen'[r])
  /\ InOrder(seen'[r])
  /\ AllSent(seen'[r])
  /\ \A q \in Readers \ {r} : seen'[q] = seen[q]
  /\ UNCHANGED sent

Forget(r) ==
  /\ seen' = [seen EXCEPT ![r] = <<>>]
  /\ UNCHANGED sent

Next ==
  \/ Send
  \/ \E r \in Readers : Deliver(r)
  \/ \E r \in Forgetful : Forget(r)

Spec == Init /\ [][Next]_<<sent, seen>>

=============================================================================
