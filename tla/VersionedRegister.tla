-------------------------- MODULE VersionedRegister --------------------------
(***************************************************************************)
(* What the settings backup on a workspace server promises its writers: a  *)
(* register with a version.  A write names the version it replaces, and is *)
(* stored at one moment at which that is the version, or is refused at one *)
(* at which it is not.  Clearing the register starts the versions again.   *)
(***************************************************************************)
EXTENDS Naturals

CONSTANTS
  Writes,  \* identities of writes
  Values,  \* what may be stored
  Nothing  \* what an empty register holds

VARIABLES
  version, value,  \* the register
  asked            \* write -> what it asks for and how far it is

Fresh == [state |-> "new", expected |-> 0, value |-> Nothing]

\* Only the outcome of a write that is over is remembered.
Over(outcome) == [state |-> outcome, expected |-> 0, value |-> Nothing]

Init == version = 0 /\ value = Nothing /\ asked = [w \in Writes |-> Fresh]

Ask(w) ==
  /\ asked[w] = Fresh
  /\ asked' = [asked EXCEPT ![w] = [state |-> "asked", expected |-> asked'[w].expected,
                                   value |-> asked'[w].value]]
  /\ asked'[w].expected \in Nat /\ asked'[w].value \in Values
  /\ UNCHANGED <<version, value>>

Store(w) ==
  /\ asked[w].state = "asked" /\ asked[w].expected = version
  /\ version' = version + 1
  /\ value' = asked[w].value
  /\ asked' = [asked EXCEPT ![w] = Over("stored")]

Refuse(w) ==
  /\ asked[w].state = "asked" /\ asked[w].expected # version
  /\ asked' = [asked EXCEPT ![w] = Over("refused")]
  /\ UNCHANGED <<version, value>>

Clear ==
  /\ version' = 0 /\ value' = Nothing
  /\ UNCHANGED asked

Next == Clear \/ \E w \in Writes : Ask(w) \/ Store(w) \/ Refuse(w)

Spec == Init /\ [][Next]_<<version, value, asked>>

=============================================================================
