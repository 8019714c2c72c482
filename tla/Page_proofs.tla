---------------------------- MODULE Page_proofs ----------------------------
(***************************************************************************)
(* What the page shows and answers, for any number of sessions and any      *)
(* number of failures.  The invariant says which links may have to do with   *)
(* the session on screen: the live one, and no other.                       *)
(***************************************************************************)
EXTENDS Page, TLAPS

\* The live link, if it does anything, is for the session on screen.
LiveIsOpen ==
  /\ open = None => live = None
  /\ \A k \in Links : k = live /\ links[k].stage # "free" =>
       links[k].session = open

\* Every source that is not closed is the live one, and no callback of another
\* link is about the session on screen.
OthersAreStale ==
  \A k \in Links : k # live =>
    /\ links[k].stage \notin Attached
    /\ links[k].session # open \/ links[k].stage = "free"

\* A source that is not closed has got to where the page has.
SourcesContinue ==
  \A k \in Links : links[k].stage \in Attached => links[k].at = lastSeq

\* What is on screen is of one session and in order, up to the cursor.
PaneInOrder ==
  /\ \A i \in 1..Len(pane) : pane[i].session = open
  /\ \A i, j \in 1..Len(pane) : i < j => pane[i].n < pane[j].n
  /\ lastSeq = IF pane = <<>> THEN 0 ELSE pane[Len(pane)].n

\* The cards that are up belong to the session on screen.
CardsOfThePane ==
  /\ \A c \in Cards \ {"bypass"} : card[c] \in {None, open}
  /\ astray \subseteq {"bypass"}

\* What holds as long as no callback of an earlier visit can meet its session
\* on screen again.
Undisturbed == OthersAreStale /\ SourcesContinue /\ PaneInOrder /\ CardsOfThePane

IInv == TypeOK /\ LiveIsOpen /\ (~revisited => Undisturbed) /\ DisconnectedIsFinal

-----------------------------------------------------------------------------
(* Types, in three parts: the links, the rest of the page, and the relay.   *)

\* What a link can be, what the relay retains, and what is on screen.
Entries == [n : Nat \ {0}, kind : EventKinds]
OnScreen == [session : Sessions, n : Nat]
LinkRecords == {FreeLink} \cup [session : Sessions, at : Nat, stage : Attached \cup Pending]

LinksTyped == links \in [Links -> LinkRecords]

PageTyped ==
  /\ open \in Sessions \cup {None} /\ live \in Links \cup {None}
  /\ lastSeq \in Nat
  /\ card \in [Cards -> Sessions \cup {None}]
  /\ status \in {<<>>} \cup ({"reconnecting", "disconnected"} \X Sessions)
  /\ pane \in Seq(OnScreen)
  /\ astray \subseteq Cards /\ revisited \in BOOLEAN

RelayTyped ==
  /\ listed \subseteq Sessions
  /\ ring \in [Sessions -> Seq(Entries)]
  /\ next \in [Sessions -> Nat \ {0}]
  /\ visits \in 0..MaxVisits /\ troubles \in 0..MaxTroubles

LEMMA TypeParts == TypeOK <=> LinksTyped /\ PageTyped /\ RelayTyped
BY DEF TypeOK, LinksTyped, PageTyped, RelayTyped, LinkRecords, Entries, OnScreen

LEMMA EventAt ==
  ASSUME RelayTyped, NEW s \in Sessions, NEW i \in 1..Len(ring[s])
  PROVE  ring[s][i] \in Entries /\ ring[s][i].n \in Nat \ {0}
<1>1. ring[s] \in Seq(Entries)
  BY DEF RelayTyped
<1>2. ring[s][i] \in Entries
  BY <1>1
<1>3. QED
  BY <1>2 DEF Entries

\* A link that does something has a session and a cursor.
LEMMA BusyLink ==
  ASSUME LinksTyped, NEW k \in Links, links[k].stage # "free"
  PROVE  links[k] \in [session : Sessions, at : Nat, stage : Attached \cup Pending]
BY DEF LinksTyped, LinkRecords, FreeLink

LEMMA LinkStages ==
  ASSUME LinksTyped, NEW k \in Links
  PROVE  /\ links[k].stage \in Attached \cup Pending \cup {"free"}
         /\ links[k].session \in Sessions \cup {None}
         /\ links[k].stage = "free" <=> links[k] = FreeLink
BY DEF LinksTyped, LinkRecords, FreeLink, Attached, Pending

\* The links after live.source.close() are typed as before.
LEMMA ClosedTyped ==
  ASSUME LinksTyped
  PROVE  SourceClosed \in [Links -> LinkRecords]
BY DEF LinksTyped, SourceClosed, LinkRecords

\* Moving a link that does something to another stage keeps the links typed.
LEMMA StageTyped ==
  ASSUME LinksTyped, NEW k \in Links, NEW t \in Attached \cup Pending,
         links[k].stage # "free", Stage(k, t)
  PROVE  LinksTyped'
<1>1. links[k] \in [session : Sessions, at : Nat, stage : Attached \cup Pending]
  BY BusyLink
<1>2. [links[k] EXCEPT !.stage = t] \in LinkRecords
  BY <1>1 DEF LinkRecords
<1>3. QED
  BY <1>2 DEF Stage, LinksTyped, LinkRecords

\* Every step keeps the links typed; that a source which fails has a session on
\* screen to ask about is what LiveIsOpen says.
LEMMA LinksStep ==
  ASSUME TypeOK, LiveIsOpen, [Next]_vars
  PROVE  LinksTyped'
<1>t. LinksTyped /\ PageTyped /\ RelayTyped
  BY TypeParts
<1>1. ASSUME NEW s \in Sessions, Forget(s)
      PROVE  LinksTyped'
  <2>1. ASSUME NEW k \in Links, links[k].stage = "open"
        PROVE  [links[k] EXCEPT !.stage = "ended"] \in LinkRecords
    <3>1. links[k] \in [session : Sessions, at : Nat, stage : Attached \cup Pending]
      BY <1>t, <2>1, BusyLink
    <3>2. QED
      BY <3>1 DEF LinkRecords, Attached
  <2>2. \A k \in Links : links'[k] \in LinkRecords
    BY <1>1, <1>t, <2>1 DEF Forget, LinksTyped
  <2>3. QED
    BY <1>1, <2>2 DEF Forget, LinksTyped
<1>2. ASSUME NEW s \in Sessions, OpenSession(s)
      PROVE  LinksTyped'
  <2>1. Source(s, 0) \in LinkRecords
    BY DEF Source, LinkRecords, Attached
  <2>2. SourceClosed \in [Links -> LinkRecords]
    BY <1>t, ClosedTyped
  <2>3. PICK k \in Links : links' = [SourceClosed EXCEPT ![k] = Source(s, 0)]
    BY <1>2 DEF OpenSession
  <2>4. QED
    BY <2>1, <2>2, <2>3 DEF LinksTyped
<1>3. ASSUME Refused
      PROVE  LinksTyped'
  BY <1>3, <1>t, ClosedTyped DEF Refused, Leave, LinksTyped
<1>4. ASSUME NEW k \in Links, Message(k)
      PROVE  LinksTyped'
  <2>1. links[k] \in [session : Sessions, at : Nat, stage : Attached \cup Pending]
    BY <1>4, <1>t, BusyLink DEF Message
  <2>2. PICK i \in 1..Len(ring[links[k].session]) :
          links' = [links EXCEPT ![k].at = ring[links[k].session][i].n]
    BY <1>4 DEF Message
  <2>3. ring[links[k].session][i].n \in Nat
    BY <1>t, <2>1, EventAt
  <2>4. [links[k] EXCEPT !.at = ring[links[k].session][i].n] \in LinkRecords
    BY <2>1, <2>3 DEF LinkRecords
  <2>5. QED
    BY <1>t, <2>2, <2>4 DEF LinksTyped
<1>5. ASSUME NEW k \in Links, Error(k)
      PROVE  LinksTyped'
  <2>1. links[k] \in [session : Sessions, at : Nat, stage : Attached \cup Pending]
    BY <1>5, <1>t, BusyLink DEF Error
  <2>2. open \in Sessions \/ k # live
    BY <1>5, <1>t, <2>1 DEF Error, LiveIsOpen, PageTyped
  <2>3. k = live => [session |-> open, at |-> 0, stage |-> "probing"] \in LinkRecords
    BY <2>2 DEF LinkRecords, Pending
  <2>4. FreeLink \in LinkRecords
    BY DEF LinkRecords
  <2>5. QED
    BY <1>5, <1>t, <2>3, <2>4 DEF Error, LinksTyped
<1>6. ASSUME NEW k \in Links,
             Opens(k) \/ NotFound(k) \/ Breaks(k) \/ ProbeAnswered(k)
               \/ ProbePresent(k) \/ ProbeFails(k)
      PROVE  LinksTyped'
  <2>1. PICK t \in Attached \cup Pending : Stage(k, t)
    BY <1>6 DEF Opens, NotFound, Breaks, ProbeAnswered, ProbePresent, ProbeFails,
                Schedule, Attached, Pending
  <2>2. links[k].stage # "free"
    BY <1>6 DEF Opens, NotFound, Breaks, ProbeAnswered, ProbePresent, ProbeFails
  <2>3. QED
    BY <1>t, <2>1, <2>2, StageTyped
<1>7. ASSUME NEW k \in Links, ProbeStale(k) \/ ProbeAbsent(k)
      PROVE  LinksTyped'
  BY <1>7, <1>t DEF ProbeStale, ProbeAbsent, LinksTyped, LinkRecords
<1>8. ASSUME NEW k \in Links, ProbeRefused(k)
      PROVE  LinksTyped'
  <2>1. links[k] \in [session : Sessions, at : Nat, stage : Attached \cup Pending]
    BY <1>8, <1>t, BusyLink DEF ProbeRefused
  <2>2. SourceClosed \in [Links -> LinkRecords] /\ SourceClosed[k] = links[k]
    BY <1>8, <1>t, ClosedTyped DEF ProbeRefused, SourceClosed, Attached
  <2>3. [SourceClosed[k] EXCEPT !.stage = "waiting"] \in LinkRecords
    BY <2>1, <2>2 DEF LinkRecords, Pending
  <2>4. QED
    BY <1>8, <2>2, <2>3 DEF ProbeRefused, LinksTyped
<1>9. ASSUME NEW k \in Links, Timer(k)
      PROVE  LinksTyped'
  <2>1. links[k] \in [session : Sessions, at : Nat, stage : Attached \cup Pending]
    BY <1>9, <1>t, BusyLink DEF Timer
  <2>2. open = links[k].session => Source(open, lastSeq) \in LinkRecords
    BY <1>t, <2>1 DEF Source, LinkRecords, Attached, PageTyped
  <2>3. FreeLink \in LinkRecords
    BY DEF LinkRecords
  <2>4. QED
    BY <1>9, <1>t, <2>2, <2>3 DEF Timer, LinksTyped
<1>10. ASSUME UNCHANGED links
       PROVE  LinksTyped'
  BY <1>10, <1>t DEF LinksTyped
<1>11. ASSUME NEW s \in Sessions, Relist(s) \/ \E kind \in Kinds : Produce(s, kind)
       PROVE  UNCHANGED links
  BY <1>11 DEF Relist, Produce, page
<1>12. ASSUME CallFails \/ (\E c \in Cards : Answer(c)) \/ UNCHANGED vars
       PROVE  UNCHANGED links
  BY <1>12 DEF CallFails, Answer, vars, page
<1>13. QED
  BY <1>1, <1>2, <1>3, <1>4, <1>5, <1>6, <1>7, <1>8, <1>9, <1>10, <1>11, <1>12
  DEF Next, Progress

LEMMA RelayStep ==
  ASSUME PageAssumption, TypeOK, [Next]_vars
  PROVE  RelayTyped'
<1>t. RelayTyped
  BY TypeParts
<1> USE DEF RelayTyped
<1>1. ASSUME Trouble
      PROVE  troubles' \in 0..MaxTroubles
  BY <1>1, <1>t, PageAssumption DEF Trouble, PageAssumption
<1>2. ASSUME NEW s \in Sessions, NEW kind \in Kinds, Produce(s, kind)
      PROVE  RelayTyped'
  <2> DEFINE longer == Append(ring[s], [n |-> next[s], kind |-> kind])
  <2>e. [n |-> next[s], kind |-> kind] \in Entries
    BY <1>t, PageAssumption DEF PageAssumption, Entries
  <2>1. longer \in Seq(Entries)
    BY <1>t, <2>e
  <2>2. Len(longer) > RingLimit => Tail(longer) \in Seq(Entries)
    BY <2>1, PageAssumption DEF PageAssumption
  <2>3. ring' \in [Sessions -> Seq(Entries)]
    BY <1>2, <1>t, <2>1, <2>2 DEF Produce
  <2>4. next' \in [Sessions -> Nat \ {0}]
    BY <1>2, <1>t DEF Produce
  <2>5. QED
    BY <1>2, <1>t, <2>3, <2>4 DEF Produce
<1>3. ASSUME NEW s \in Sessions, Forget(s)
      PROVE  RelayTyped'
  <2>1. ring' \in [Sessions -> Seq(Entries)]
    BY <1>3, <1>t DEF Forget
  <2>2. next' \in [Sessions -> Nat \ {0}] /\ listed' \subseteq Sessions
    BY <1>3, <1>t DEF Forget
  <2>3. troubles' \in 0..MaxTroubles /\ visits' = visits
    BY <1>3, <1>1 DEF Forget
  <2>4. QED
    BY <1>t, <2>1, <2>2, <2>3
<1>4. ASSUME NEW s \in Sessions, Relist(s)
      PROVE  RelayTyped'
  BY <1>4, <1>t DEF Relist
<1>5. ASSUME NEW s \in Sessions, OpenSession(s)
      PROVE  RelayTyped'
  <2>1. visits' \in 0..MaxVisits
    BY <1>5, <1>t, PageAssumption DEF OpenSession, PageAssumption
  <2>2. UNCHANGED <<listed, ring, next, troubles>>
    BY <1>5 DEF OpenSession, relay
  <2>3. QED
    BY <1>t, <2>1, <2>2
<1>6. ASSUME Refused \/ CallFails
      PROVE  RelayTyped'
  BY <1>6, <1>t, <1>1 DEF Refused, CallFails, relay
<1>7. ASSUME NEW k \in Links, Breaks(k) \/ ProbeFails(k) \/ ProbeRefused(k)
      PROVE  RelayTyped'
  BY <1>7, <1>t, <1>1 DEF Breaks, ProbeFails, ProbeRefused, relay
<1>8. ASSUME NEW k \in Links, Progress(k) \/ Message(k)
      PROVE  UNCHANGED <<relay, visits, troubles>>
  <2>1. CASE Opens(k) \/ NotFound(k) \/ Error(k) \/ Timer(k)
    BY <2>1, Zenon DEF Opens, NotFound, Error, Timer
  <2>2. CASE ProbeAnswered(k) \/ ProbeStale(k) \/ ProbePresent(k) \/ ProbeAbsent(k)
    BY <2>2, Zenon DEF ProbeAnswered, ProbeStale, ProbePresent, ProbeAbsent
  <2>3. CASE Message(k)
    BY <2>3, Zenon DEF Message
  <2>4. QED
    BY <1>8, <2>1, <2>2, <2>3, Zenon DEF Progress
<1>9. ASSUME (\E c \in Cards : Answer(c)) \/ UNCHANGED vars
      PROVE  UNCHANGED <<relay, visits, troubles>>
  BY <1>9, Zenon DEF Answer, vars
<1>10. ASSUME UNCHANGED <<relay, visits, troubles>>
       PROVE  RelayTyped'
  BY <1>10, <1>t DEF relay
<1>11. QED
  BY <1>2, <1>3, <1>4, <1>5, <1>6, <1>7, <1>8, <1>9, <1>10 DEF Next

LEMMA CardsLeftTyped ==
  ASSUME PageTyped
  PROVE  CardsLeft \in [Cards -> Sessions \cup {None}]
BY DEF PageTyped, CardsLeft

LEMMA PageStep ==
  ASSUME TypeOK, [Next]_vars
  PROVE  PageTyped'
<1>t. LinksTyped /\ PageTyped /\ RelayTyped
  BY TypeParts
<1>n. None \in Sessions \cup {None} /\ None \in Links \cup {None}
  OBVIOUS
<1> USE DEF PageTyped
<1>1. ASSUME NEW s \in Sessions, OpenSession(s)
      PROVE  PageTyped'
  BY <1>1, <1>t, CardsLeftTyped DEF OpenSession
<1>2. ASSUME Refused
      PROVE  PageTyped'
  <2>1. /\ open' = None /\ live' = None /\ lastSeq' = 0 /\ card' = CardsLeft
        /\ status' = <<>> /\ pane' = <<>> /\ UNCHANGED <<astray, revisited>>
    BY <1>2, Zenon DEF Refused, Leave
  <2>2. QED
    BY <1>t, <2>1, CardsLeftTyped
<1>3. ASSUME NEW k \in Links, Message(k)
      PROVE  PageTyped'
  <2> DEFINE s == links[k].session
  <2>0. links[k].stage # "free"
    BY <1>3 DEF Message
  <2>1. s \in Sessions
    <3>1. LinksTyped
      BY <1>t, Zenon
    <3>2. links[k] \in [session : Sessions, at : Nat, stage : Attached \cup Pending]
      BY <2>0, <3>1, BusyLink, Zenon
    <3>3. QED
      BY <3>2
  <2>2. PICK i \in 1..Len(ring[s]) :
          /\ lastSeq' = ring[s][i].n
          /\ card' = CardsAfter(s, ring[s][i].kind)
          /\ pane' = IF ring[s][i].kind = "history"
                       THEN <<[session |-> s, n |-> ring[s][i].n]>>
                     ELSE Append(pane, [session |-> s, n |-> ring[s][i].n])
          /\ status' = IF ring[s][i].kind = "state" THEN <<>> ELSE status
    BY <1>3 DEF Message
  <2>3. ring[s][i].n \in Nat
    BY <1>t, <2>1, EventAt
  <2>4. card' \in [Cards -> Sessions \cup {None}]
    BY <1>t, <2>1, <2>2 DEF CardsAfter, Cards
  <2>5. [session |-> s, n |-> ring[s][i].n] \in OnScreen
    BY <2>1, <2>3 DEF OnScreen
  <2>6. pane' \in Seq(OnScreen)
    BY <1>t, <2>2, <2>5
  <2>7. UNCHANGED <<open, live, astray, revisited>>
    BY <1>3 DEF Message
  <2>8. QED
    BY <1>t, <2>2, <2>3, <2>4, <2>6, <2>7
<1>4. ASSUME NEW k \in Links, ProbePresent(k) \/ ProbeFails(k)
      PROVE  PageTyped'
  <2>1. links[k].session \in Sessions
    BY <1>4, <1>t, BusyLink DEF ProbePresent, ProbeFails
  <2>2. status' = <<"reconnecting", links[k].session>>
    BY <1>4 DEF ProbePresent, ProbeFails, Schedule
  <2>3. UNCHANGED <<open, live, lastSeq, card, pane, astray, revisited>>
    BY <1>4 DEF ProbePresent, ProbeFails
  <2>4. QED
    BY <1>t, <2>1, <2>2, <2>3
<1>5. ASSUME NEW k \in Links, ProbeAbsent(k)
      PROVE  PageTyped'
  <2>1. links[k].session \in Sessions
    BY <1>5, <1>t, BusyLink DEF ProbeAbsent
  <2>2. QED
    BY <1>5, <1>t, <2>1 DEF ProbeAbsent
<1>6. ASSUME NEW k \in Links, ProbeRefused(k)
      PROVE  PageTyped'
  <2>1. links[k].session \in Sessions
    BY <1>6, <1>t, BusyLink DEF ProbeRefused
  <2>2. QED
    BY <1>6, <1>t, <2>1, CardsLeftTyped DEF ProbeRefused
<1>7. ASSUME NEW k \in Links, Timer(k)
      PROVE  PageTyped'
  BY <1>7, <1>t DEF Timer
<1>8. ASSUME NEW c \in Cards, Answer(c)
      PROVE  PageTyped'
  BY <1>8, <1>t DEF Answer
<1>9. ASSUME NEW k \in Links, Opens(k)
      PROVE  PageTyped'
  BY <1>9, <1>t DEF Opens
<1>10. ASSUME CallFails
       PROVE  PageTyped'
  BY <1>10, <1>t DEF CallFails
<1>11. ASSUME NEW s \in Sessions,
              Forget(s) \/ Relist(s) \/ \E kind \in Kinds : Produce(s, kind)
       PROVE  UNCHANGED <<open, live, lastSeq, card, status, pane, astray, revisited>>
  BY <1>11 DEF Forget, Relist, Produce, page
<1>12. ASSUME NEW k \in Links,
              NotFound(k) \/ Breaks(k) \/ Error(k) \/ ProbeAnswered(k) \/ ProbeStale(k)
       PROVE  UNCHANGED <<open, live, lastSeq, card, status, pane, astray, revisited>>
  BY <1>12 DEF NotFound, Breaks, Error, ProbeAnswered, ProbeStale
<1>13. ASSUME UNCHANGED vars
       PROVE  UNCHANGED <<open, live, lastSeq, card, status, pane, astray, revisited>>
  BY <1>13 DEF vars, page
<1>14. ASSUME UNCHANGED <<open, live, lastSeq, card, status, pane, astray, revisited>>
       PROVE  PageTyped'
  BY <1>14, <1>t
<1>15. QED
  BY <1>1, <1>2, <1>3, <1>4, <1>5, <1>6, <1>7, <1>8, <1>9, <1>10, <1>11, <1>12, <1>13, <1>14
  DEF Next, Progress

LEMMA TypeStep ==
  ASSUME PageAssumption, TypeOK, LiveIsOpen, [Next]_vars
  PROVE  TypeOK'
<1>1. LinksTyped' /\ PageTyped' /\ RelayTyped'
  BY LinksStep, PageStep, RelayStep
<1>2. QED
  BY <1>1 DEF TypeOK, LinksTyped, PageTyped, RelayTyped, LinkRecords, Entries, OnScreen

-----------------------------------------------------------------------------
(* The live link.                                                          *)

LEMMA StageKeeps ==
  ASSUME LinksTyped, NEW k \in Links, NEW t \in Attached \cup Pending,
         links[k].stage # "free", Stage(k, t)
  PROVE  \A j \in Links : /\ links'[j].session = links[j].session
                          /\ links'[j].at = links[j].at
                          /\ links'[j].stage = IF j = k THEN t ELSE links[j].stage
<1>1. links[k] \in [session : Sessions, at : Nat, stage : Attached \cup Pending]
  BY BusyLink
<1>2. links' = [links EXCEPT ![k] = [links[k] EXCEPT !.stage = t]]
  BY DEF Stage
<1>3. \A j \in Links : links'[j] = IF j = k THEN [links[k] EXCEPT !.stage = t] ELSE links[j]
  BY <1>2 DEF LinksTyped
<1>4. QED
  BY <1>1, <1>3

LEMMA ClosedLinks ==
  ASSUME NEW k \in Links
  PROVE  SourceClosed[k] = IF k = live /\ links[k].stage \in Attached
                             THEN FreeLink ELSE links[k]
BY DEF SourceClosed

\* Steps that move one link from stage to stage without closing or opening a
\* source, and leave the rest of the page alone.
Moves(k) == \/ Opens(k) \/ NotFound(k) \/ Breaks(k) \/ ProbeAnswered(k)
            \/ ProbePresent(k) \/ ProbeFails(k)

LEMMA MovesKeep ==
  ASSUME LinksTyped, NEW k \in Links, Moves(k)
  PROVE  /\ UNCHANGED <<open, live, lastSeq, card, pane, astray, revisited>>
         /\ \A j \in Links :
              /\ links'[j].session = links[j].session
              /\ links'[j].at = links[j].at
              /\ links'[j].stage \in Attached <=> links[j].stage \in Attached
              /\ links'[j].stage = "free" <=> links[j].stage = "free"
<1>1. PICK t \in Attached \cup Pending :
        Stage(k, t) /\ (t \in Attached <=> links[k].stage \in Attached)
  BY DEF Moves, Opens, NotFound, Breaks, ProbeAnswered, ProbePresent, ProbeFails,
         Schedule, Attached, Pending
<1>2. links[k].stage # "free"
  BY DEF Moves, Opens, NotFound, Breaks, ProbeAnswered, ProbePresent, ProbeFails
<1>3. \A j \in Links : /\ links'[j].session = links[j].session
                       /\ links'[j].at = links[j].at
                       /\ links'[j].stage = IF j = k THEN t ELSE links[j].stage
  BY <1>1, <1>2, StageKeeps
<1>4. t # "free"
  BY DEF Attached, Pending
<1>5. UNCHANGED <<open, live, lastSeq, card, pane, astray, revisited>>
  BY DEF Moves, Opens, NotFound, Breaks, ProbeAnswered, ProbePresent, ProbeFails
<1>6. QED
  BY <1>1, <1>2, <1>3, <1>4, <1>5

\* So does a relay that forgets a session.
LEMMA ForgetKeeps ==
  ASSUME LinksTyped, NEW s \in Sessions, Forget(s)
  PROVE  /\ UNCHANGED <<open, live, lastSeq, card, pane, astray, revisited>>
         /\ \A j \in Links :
              /\ links'[j].session = links[j].session
              /\ links'[j].at = links[j].at
              /\ links'[j].stage \in Attached <=> links[j].stage \in Attached
              /\ links'[j].stage = "free" <=> links[j].stage = "free"
<1>1. ASSUME NEW j \in Links, links[j].stage = "open"
      PROVE  LET l == [links[j] EXCEPT !.stage = "ended"]
             IN /\ l.session = links[j].session /\ l.at = links[j].at
                /\ l.stage = "ended"
  <2>1. links[j] \in [session : Sessions, at : Nat, stage : Attached \cup Pending]
    BY <1>1, BusyLink
  <2>2. QED
    BY <2>1
<1>2. QED
  BY <1>1 DEF Forget, Attached

LEMMA LiveStep ==
  ASSUME PageAssumption, TypeOK, LiveIsOpen, [Next]_vars
  PROVE  LiveIsOpen'
<1>t. LinksTyped /\ PageTyped
  BY TypeParts
<1>a. None \notin Sessions /\ None \notin Links
  BY PageAssumption DEF PageAssumption, Links
<1>1. ASSUME NEW s \in Sessions, OpenSession(s)
      PROVE  LiveIsOpen'
  <2>1. PICK k \in Links : links' = [SourceClosed EXCEPT ![k] = Source(s, 0)] /\ live' = k
    BY <1>1 DEF OpenSession
  <2>2. links'[k] = Source(s, 0)
    BY <2>1 DEF SourceClosed
  <2>3. QED
    BY <1>1, <1>a, <2>1, <2>2 DEF OpenSession, LiveIsOpen, Source
<1>2. ASSUME Refused \/ \E k \in Links : ProbeRefused(k)
      PROVE  LiveIsOpen'
  BY <1>2, <1>a DEF Refused, Leave, ProbeRefused, LiveIsOpen
<1>3. ASSUME NEW k \in Links, Message(k)
      PROVE  LiveIsOpen'
  <2>1. PICK n : links' = [links EXCEPT ![k].at = n]
    BY <1>3 DEF Message
  <2>2. links[k] \in [session : Sessions, at : Nat, stage : Attached \cup Pending]
    BY <1>3, <1>t, BusyLink DEF Message
  <2>3. links'[k].session = links[k].session /\ links'[k].stage = links[k].stage
    BY <1>t, <2>1, <2>2 DEF LinksTyped
  <2>4. \A j \in Links : j # k => links'[j] = links[j]
    BY <1>t, <2>1 DEF LinksTyped
  <2>5. UNCHANGED <<open, live>>
    BY <1>3 DEF Message
  <2>6. QED
    BY <2>3, <2>4, <2>5 DEF LiveIsOpen
<1>4. ASSUME NEW k \in Links, Error(k) \/ ProbeStale(k) \/ ProbeAbsent(k)
      PROVE  LiveIsOpen'
  BY <1>4, <1>t DEF Error, ProbeStale, ProbeAbsent, LiveIsOpen, LinksTyped, FreeLink
<1>5. ASSUME NEW k \in Links, Moves(k)
      PROVE  LiveIsOpen'
  BY <1>5, <1>t, MovesKeep DEF LiveIsOpen
<1>6. ASSUME NEW s \in Sessions, Forget(s)
      PROVE  LiveIsOpen'
  BY <1>6, <1>t, ForgetKeeps DEF LiveIsOpen
<1>7. ASSUME NEW k \in Links, Timer(k)
      PROVE  LiveIsOpen'
  <2>1. links[k].session \in Sessions
    BY <1>7, <1>t, BusyLink DEF Timer
  <2>2. CASE open = links[k].session
    BY <1>7, <1>t, <1>a, <2>1, <2>2 DEF Timer, LiveIsOpen, LinksTyped, Source
  <2>3. CASE open # links[k].session
    BY <1>7, <1>t, <2>3 DEF Timer, LiveIsOpen, LinksTyped, FreeLink
  <2>4. QED
    BY <2>2, <2>3
<1>8. ASSUME NEW s \in Sessions, Relist(s) \/ \E kind \in Kinds : Produce(s, kind)
      PROVE  UNCHANGED <<open, live, links>>
  BY <1>8 DEF Relist, Produce, page
<1>9. ASSUME CallFails \/ (\E c \in Cards : Answer(c)) \/ UNCHANGED vars
      PROVE  UNCHANGED <<open, live, links>>
  BY <1>9 DEF CallFails, Answer, vars, page
<1>10. ASSUME UNCHANGED <<open, live, links>>
       PROVE  LiveIsOpen'
  BY <1>10 DEF LiveIsOpen
<1>11. QED
  BY <1>1, <1>2, <1>3, <1>4, <1>5, <1>6, <1>7, <1>8, <1>9, <1>10
  DEF Next, Progress, Moves

-----------------------------------------------------------------------------
(* What is undisturbed stays so.                                           *)

\* Where only the stages of links move, and no source is opened or closed.
LEMMA SameShape ==
  ASSUME Undisturbed, UNCHANGED <<open, live, lastSeq, card, pane, astray>>,
         \A j \in Links :
           /\ links'[j].session = links[j].session
           /\ links'[j].at = links[j].at
           /\ links'[j].stage \in Attached <=> links[j].stage \in Attached
           /\ links'[j].stage = "free" <=> links[j].stage = "free"
  PROVE  Undisturbed'
<1>1. OthersAreStale' /\ SourcesContinue'
  BY DEF Undisturbed, OthersAreStale, SourcesContinue
<1>2. PaneInOrder' /\ CardsOfThePane'
  BY DEF Undisturbed, PaneInOrder, CardsOfThePane
<1>3. QED
  BY <1>1, <1>2 DEF Undisturbed

\* A link that ends its work disturbs nothing.
LEMMA LinkFreed ==
  ASSUME LinksTyped, Undisturbed, UNCHANGED <<open, live, lastSeq, card, pane, astray>>,
         NEW k \in Links, links' = [links EXCEPT ![k] = FreeLink]
  PROVE  Undisturbed'
<1>1. OthersAreStale' /\ SourcesContinue'
  BY DEF Undisturbed, OthersAreStale, SourcesContinue, LinksTyped, FreeLink, Attached
<1>2. PaneInOrder' /\ CardsOfThePane'
  BY DEF Undisturbed, PaneInOrder, CardsOfThePane
<1>3. QED
  BY <1>1, <1>2 DEF Undisturbed

\* A pane that has just been cleared is in order, and its cards are down.
LEMMA FreshPane ==
  ASSUME CardsOfThePane, UNCHANGED astray, pane' = <<>>, lastSeq' = 0, card' = CardsLeft
  PROVE  PaneInOrder' /\ CardsOfThePane'
<1>1. Len(pane') = 0
  OBVIOUS
<1>2. PaneInOrder'
  BY <1>1 DEF PaneInOrder
<1>3. CardsOfThePane'
  BY DEF CardsOfThePane, CardsLeft
<1>4. QED
  BY <1>2, <1>3

\* After live.source.close() no source is open.
LEMMA NoSourceLeft ==
  ASSUME LinksTyped, OthersAreStale, NEW k \in Links
  PROVE  SourceClosed[k].stage \notin Attached
BY ClosedLinks DEF OthersAreStale, FreeLink, Attached

LEMMA OpenUndisturbed ==
  ASSUME PageAssumption, TypeOK, Undisturbed, ~revisited',
         NEW s \in Sessions, OpenSession(s)
  PROVE  Undisturbed'
<1>t. LinksTyped
  BY TypeParts
<1>1. PICK k \in Links : links' = [SourceClosed EXCEPT ![k] = Source(s, 0)] /\ live' = k
  BY DEF OpenSession
<1>2. links'[k] = Source(s, 0)
  BY <1>1 DEF SourceClosed
<1>3. ASSUME NEW j \in Links, j # k
      PROVE  /\ links'[j].stage \notin Attached
             /\ links'[j].session # s \/ links'[j].stage = "free"
  <2>1. links'[j] = SourceClosed[j]
    BY <1>1, <1>3 DEF SourceClosed
  <2>2. links'[j].stage \notin Attached
    BY <1>t, <2>1, NoSourceLeft DEF Undisturbed
  <2>3. ~(links[j].session = s /\ links[j].stage \in Pending)
    BY DEF OpenSession
  <2>4. links[j].stage \in Attached \cup Pending \cup {"free"}
    BY <1>t, LinkStages
  <2>5. QED
    BY <2>1, <2>2, <2>3, <2>4, ClosedLinks DEF FreeLink
<1>4. OthersAreStale'
  BY <1>1, <1>3 DEF OthersAreStale, OpenSession
<1>5. SourcesContinue'
  BY <1>1, <1>2, <1>3 DEF SourcesContinue, OpenSession, Source
<1>6. PaneInOrder' /\ CardsOfThePane'
  BY FreshPane DEF Undisturbed, OpenSession
<1>7. QED
  BY <1>4, <1>5, <1>6 DEF Undisturbed

LEMMA LeaveUndisturbed ==
  ASSUME PageAssumption, TypeOK, Undisturbed,
         Refused \/ \E k \in Links : ProbeRefused(k)
  PROVE  Undisturbed'
<1>t. LinksTyped
  BY TypeParts
<1>0. UNCHANGED astray /\ pane' = <<>> /\ lastSeq' = 0 /\ card' = CardsLeft /\ open' = None
  BY DEF Refused, Leave, ProbeRefused
<1>1. ASSUME NEW j \in Links
      PROVE  /\ links'[j].stage \notin Attached
             /\ links'[j].session # None \/ links'[j].stage = "free"
  <2>1. SourceClosed[j].stage \notin Attached
    BY <1>t, NoSourceLeft DEF Undisturbed
  <2>2. SourceClosed[j].session # None \/ SourceClosed[j].stage = "free"
    <3>1. CASE links[j].stage = "free"
      BY <3>1, ClosedLinks DEF FreeLink
    <3>2. CASE links[j].stage # "free"
      <4>1. links[j].session \in Sessions
        BY <1>t, <3>2, BusyLink
      <4>2. QED
        BY <4>1, ClosedLinks, PageAssumption DEF FreeLink, PageAssumption
    <3>3. QED
      BY <3>1, <3>2
  <2>3. CASE Refused
    BY <2>1, <2>2, <2>3 DEF Refused, Leave
  <2>4. ASSUME NEW k \in Links, ProbeRefused(k)
        PROVE  /\ links'[j].stage \notin Attached
               /\ links'[j].session # None \/ links'[j].stage = "free"
    <3>1. links' = [SourceClosed EXCEPT ![k].stage = "waiting"]
      BY <2>4 DEF ProbeRefused
    <3>2. CASE j # k
      BY <2>1, <2>2, <3>1, <3>2 DEF SourceClosed
    <3>3. CASE j = k
      <4>1. SourceClosed[k] = links[k]
        BY <2>4, ClosedLinks DEF ProbeRefused, Attached
      <4>2. links[k] \in [session : Sessions, at : Nat, stage : Attached \cup Pending]
        BY <2>4, <1>t, BusyLink DEF ProbeRefused
      <4>3. links'[k] = [links[k] EXCEPT !.stage = "waiting"]
        BY <3>1, <4>1 DEF SourceClosed
      <4>4. links'[k].stage = "waiting" /\ links'[k].session \in Sessions
        BY <4>2, <4>3
      <4>5. QED
        BY <3>3, <4>4, PageAssumption DEF Attached, PageAssumption
    <3>4. QED
      BY <3>2, <3>3
  <2>5. QED
    BY <2>3, <2>4
<1>2. OthersAreStale' /\ SourcesContinue'
  BY <1>0, <1>1 DEF OthersAreStale, SourcesContinue
<1>3. PaneInOrder' /\ CardsOfThePane'
  BY <1>0, FreshPane DEF Undisturbed
<1>4. QED
  BY <1>2, <1>3 DEF Undisturbed

LEMMA MessageUndisturbed ==
  ASSUME PageAssumption, TypeOK, LiveIsOpen, Undisturbed, NEW k \in Links, Message(k)
  PROVE  Undisturbed'
<1>t. LinksTyped /\ PageTyped /\ RelayTyped
  BY TypeParts
<1>1. links[k] \in [session : Sessions, at : Nat, stage : Attached \cup Pending]
  BY <1>t, BusyLink DEF Message
<1>2. k = live /\ links[k].session = open /\ links[k].at = lastSeq /\ links[k].stage = "open"
  BY DEF Message, Attached, LiveIsOpen, Undisturbed, OthersAreStale, SourcesContinue
<1>3. PICK i \in 1..Len(ring[open]) :
        /\ ring[open][i].n > lastSeq
        /\ links' = [links EXCEPT ![k].at = ring[open][i].n]
        /\ lastSeq' = ring[open][i].n
        /\ card' = CardsAfter(open, ring[open][i].kind)
        /\ pane' = IF ring[open][i].kind = "history"
                     THEN <<[session |-> open, n |-> ring[open][i].n]>>
                   ELSE Append(pane, [session |-> open, n |-> ring[open][i].n])
  BY <1>2 DEF Message
<1>4. UNCHANGED <<open, live, astray>> /\ open \in Sessions
  BY <1>1, <1>2 DEF Message
<1> DEFINE n == ring[open][i].n
<1>5. n \in Nat \ {0}
  BY <1>t, <1>3, <1>4, EventAt
<1>6. \A j \in Links : /\ links'[j].session = links[j].session
                       /\ links'[j].stage = links[j].stage
                       /\ links'[j].at = IF j = k THEN n ELSE links[j].at
  BY <1>t, <1>1, <1>3 DEF LinksTyped
<1>7. OthersAreStale'
  BY <1>4, <1>6 DEF Undisturbed, OthersAreStale
<1>8. SourcesContinue'
  BY <1>2, <1>3, <1>6 DEF Undisturbed, OthersAreStale, SourcesContinue
<1>9. PaneInOrder'
  <2>1. CASE ring[open][i].kind = "history"
    BY <1>3, <1>4, <2>1 DEF PaneInOrder
  <2>2. CASE ring[open][i].kind # "history"
    <3>1. pane \in Seq(OnScreen) /\ [session |-> open, n |-> n] \in OnScreen
      BY <1>t, <1>4, <1>5 DEF PageTyped, OnScreen
    <3>2. pane' = Append(pane, [session |-> open, n |-> n])
      BY <1>3, <2>2
    <3>3. /\ Len(pane') = Len(pane) + 1 /\ Len(pane) \in Nat
          /\ \A j \in 1..Len(pane) : pane'[j] = pane[j]
          /\ pane'[Len(pane) + 1] = [session |-> open, n |-> n]
      BY <3>1, <3>2
    <3>4. \A j \in 1..Len(pane) : pane[j].n \in Nat /\ pane[j].n <= lastSeq
      <4>1. ASSUME NEW j \in 1..Len(pane)
            PROVE  pane[j].n \in Nat
        <5>1. pane[j] \in OnScreen
          BY <3>1
        <5>2. QED
          BY <5>1 DEF OnScreen
      <4>2. ASSUME NEW j \in 1..Len(pane)
            PROVE  pane[j].n <= lastSeq
        <5>1. pane # <<>> /\ Len(pane) \in 1..Len(pane)
          BY <3>1, <3>3
        <5>2. lastSeq = pane[Len(pane)].n
          BY <5>1 DEF Undisturbed, PaneInOrder
        <5>3. j = Len(pane) \/ j < Len(pane)
          BY <3>3
        <5>4. j < Len(pane) => pane[j].n < pane[Len(pane)].n
          BY <5>1 DEF Undisturbed, PaneInOrder
        <5>5. QED
          BY <4>1, <5>1, <5>2, <5>3, <5>4
      <4>3. QED
        BY <4>1, <4>2
    <3>5. \A j \in 1..Len(pane') : pane'[j].session = open
      BY <3>3 DEF Undisturbed, PaneInOrder
    <3>6. ASSUME NEW j \in 1..Len(pane'), NEW l \in 1..Len(pane'), j < l
          PROVE  pane'[j].n < pane'[l].n
      <4>1. j \in 1..Len(pane)
        BY <3>3, <3>6
      <4>2. CASE l \in 1..Len(pane)
        BY <3>3, <3>6, <4>1, <4>2 DEF Undisturbed, PaneInOrder
      <4>3. CASE l = Len(pane) + 1
        <5>1. pane'[l].n = n /\ pane'[j].n = pane[j].n
          BY <3>3, <4>1, <4>3
        <5>2. lastSeq \in Nat /\ n > lastSeq
          BY <1>t, <1>3 DEF PageTyped
        <5>3. QED
          BY <1>5, <3>4, <4>1, <5>1, <5>2
      <4>4. QED
        BY <3>3, <4>2, <4>3
    <3>7. lastSeq' = n /\ pane' # <<>> /\ pane'[Len(pane')].n = n
      BY <1>3, <3>3
    <3>8. QED
      BY <1>4, <3>5, <3>6, <3>7 DEF PaneInOrder
  <2>3. QED
    BY <2>1, <2>2
<1>10. CardsOfThePane'
  BY <1>t, <1>3, <1>4 DEF Undisturbed, CardsOfThePane, CardsAfter, PageTyped
<1>11. QED
  BY <1>7, <1>8, <1>9, <1>10 DEF Undisturbed

\* Only the live source can fail, and what follows is about the same session.
LEMMA ErrorUndisturbed ==
  ASSUME TypeOK, Undisturbed, NEW k \in Links, Error(k)
  PROVE  Undisturbed'
<1>t. LinksTyped
  BY TypeParts
<1>1. k = live /\ UNCHANGED <<open, live, lastSeq, card, pane, astray>>
  BY DEF Error, Attached, Undisturbed, OthersAreStale
<1>2. links' = [links EXCEPT ![k] = [session |-> open, at |-> 0, stage |-> "probing"]]
  BY <1>1 DEF Error
<1>3. OthersAreStale' /\ SourcesContinue'
  BY <1>t, <1>1, <1>2 DEF Undisturbed, OthersAreStale, SourcesContinue, LinksTyped, Attached
<1>4. PaneInOrder' /\ CardsOfThePane'
  BY <1>1 DEF Undisturbed, PaneInOrder, CardsOfThePane
<1>5. QED
  BY <1>3, <1>4 DEF Undisturbed

\* A timer that connects is the live link's.
LEMMA TimerUndisturbed ==
  ASSUME TypeOK, Undisturbed, NEW k \in Links, Timer(k)
  PROVE  Undisturbed'
<1>t. LinksTyped
  BY TypeParts
<1>1. UNCHANGED <<open, lastSeq, card, pane, astray>>
  BY DEF Timer
<1>2. CASE open # links[k].session
  BY <1>t, <1>1, <1>2, LinkFreed DEF Timer
<1>3. CASE open = links[k].session
  <2>1. k = live
    BY <1>3 DEF Timer, Undisturbed, OthersAreStale
  <2>2. live' = live /\ links' = [links EXCEPT ![k] = Source(open, lastSeq)]
    BY <1>3, <2>1 DEF Timer
  <2>3. OthersAreStale'
    BY <1>t, <1>1, <2>1, <2>2 DEF Undisturbed, OthersAreStale, LinksTyped
  <2>4. SourcesContinue'
    BY <1>t, <1>1, <2>1, <2>2 DEF Undisturbed, SourcesContinue, LinksTyped, Source
  <2>5. PaneInOrder' /\ CardsOfThePane'
    BY <1>1 DEF Undisturbed, PaneInOrder, CardsOfThePane
  <2>6. QED
    BY <2>3, <2>4, <2>5 DEF Undisturbed
<1>4. QED
  BY <1>2, <1>3

LEMMA AnswerUndisturbed ==
  ASSUME TypeOK, Undisturbed, NEW c \in Cards, Answer(c)
  PROVE  Undisturbed'
<1>t. PageTyped
  BY TypeParts
<1>1. UNCHANGED <<open, live, lastSeq, links, pane>>
  BY DEF Answer
<1>2. OthersAreStale' /\ SourcesContinue' /\ PaneInOrder'
  BY <1>1 DEF Undisturbed, OthersAreStale, SourcesContinue, PaneInOrder
<1>3. c # "bypass" => card[c] = open
  BY DEF Answer, Undisturbed, CardsOfThePane
<1>4. CardsOfThePane'
  BY <1>t, <1>1, <1>3 DEF Answer, Undisturbed, CardsOfThePane, PageTyped
<1>5. QED
  BY <1>2, <1>4 DEF Undisturbed

LEMMA UndisturbedStep ==
  ASSUME PageAssumption, TypeOK, LiveIsOpen, Undisturbed, ~revisited', [Next]_vars
  PROVE  Undisturbed'
<1>t. LinksTyped
  BY TypeParts
<1>1. ASSUME NEW k \in Links, Moves(k)
      PROVE  Undisturbed'
  BY <1>1, <1>t, MovesKeep, SameShape
<1>2. ASSUME NEW s \in Sessions, Forget(s)
      PROVE  Undisturbed'
  BY <1>2, <1>t, ForgetKeeps, SameShape
<1>3. ASSUME NEW k \in Links, ProbeStale(k) \/ ProbeAbsent(k)
      PROVE  Undisturbed'
  BY <1>3, <1>t, LinkFreed DEF ProbeStale, ProbeAbsent
<1>4. ASSUME NEW s \in Sessions, Relist(s) \/ \E kind \in Kinds : Produce(s, kind)
      PROVE  UNCHANGED <<open, live, lastSeq, links, card, pane, astray>>
  BY <1>4 DEF Relist, Produce, page
<1>5. ASSUME CallFails \/ UNCHANGED vars
      PROVE  UNCHANGED <<open, live, lastSeq, links, card, pane, astray>>
  BY <1>5 DEF CallFails, vars, page
<1>6. ASSUME UNCHANGED <<open, live, lastSeq, links, card, pane, astray>>
      PROVE  Undisturbed'
  BY <1>6, SameShape
<1>7. QED
  BY <1>1, <1>2, <1>3, <1>4, <1>5, <1>6, OpenUndisturbed, LeaveUndisturbed,
     MessageUndisturbed, ErrorUndisturbed, TimerUndisturbed, AnswerUndisturbed
  DEF Next, Progress, Moves

-----------------------------------------------------------------------------
(* The status line.                                                        *)

\* While the page says that a session is gone, no step makes a link for it
\* other than opening it again, which takes the words away.
LEMMA DisconnectedStep ==
  ASSUME PageAssumption, TypeOK, LiveIsOpen, ~revisited => Undisturbed,
         DisconnectedIsFinal, [Next]_vars,
         NEW s \in Sessions, status' = <<"disconnected", s>>
  PROVE  open' = s /\ (~revisited' => \A k \in Links : links'[k].session # s)
<1> DEFINE Final == open' = s /\ (~revisited' => \A k \in Links : links'[k].session # s)
<1>t. LinksTyped /\ PageTyped
  BY TypeParts
<1>a. None # s
  BY PageAssumption DEF PageAssumption
<1>1. ASSUME NEW k \in Links, ProbeAbsent(k)
      PROVE  Final
  <2>1. open = s /\ links[k].session = s /\ links[k].stage = "absent"
    BY <1>1 DEF ProbeAbsent
  <2>2. UNCHANGED <<open, revisited>> /\ links' = [links EXCEPT ![k] = FreeLink]
    BY <1>1 DEF ProbeAbsent
  <2>3. ASSUME ~revisited, NEW j \in Links, j # k
        PROVE  links[j].session # s
    <3>1. k = live
      BY <2>1, <2>3 DEF Undisturbed, OthersAreStale
    <3>2. links[j].session # s \/ links[j].stage = "free"
      BY <2>1, <2>3, <3>1 DEF Undisturbed, OthersAreStale
    <3>3. QED
      BY <1>t, <1>a, <3>2, LinkStages DEF FreeLink
  <2>4. QED
    BY <1>t, <1>a, <2>1, <2>2, <2>3 DEF FreeLink, LinksTyped
<1>2. ASSUME (\E r \in Sessions : OpenSession(r)) \/ Refused \/ CallFails
      PROVE  FALSE
  BY <1>2 DEF OpenSession, Refused, Leave, CallFails
<1>3. ASSUME NEW k \in Links,
             Opens(k) \/ ProbePresent(k) \/ ProbeFails(k) \/ ProbeRefused(k)
      PROVE  FALSE
  BY <1>3 DEF Opens, ProbePresent, ProbeFails, ProbeRefused, Schedule
<1>4. ASSUME UNCHANGED <<open, status, revisited>>,
             \A j \in Links : \/ links'[j].session = links[j].session
                             \/ links'[j].session = None
      PROVE  Final
  BY <1>4, <1>a DEF DisconnectedIsFinal
<1>5. ASSUME NEW k \in Links, Message(k)
      PROVE  Final
  <2>1. UNCHANGED <<open, status, revisited>>
    BY <1>5 DEF Message
  <2>2. links[k] \in [session : Sessions, at : Nat, stage : Attached \cup Pending]
    BY <1>5, <1>t, BusyLink DEF Message
  <2>3. PICK n : links' = [links EXCEPT ![k].at = n]
    BY <1>5 DEF Message
  <2>4. \A j \in Links : links'[j].session = links[j].session
    BY <1>t, <2>2, <2>3 DEF LinksTyped
  <2>5. QED
    BY <1>4, <2>1, <2>4
<1>6. ASSUME NEW k \in Links, Error(k) \/ Timer(k)
      PROVE  Final
  <2>1. UNCHANGED <<open, status, revisited>> /\ open = s
    BY <1>6 DEF Error, Timer, DisconnectedIsFinal
  <2>2. CASE revisited
    BY <2>1, <2>2
  <2>3. CASE ~revisited
    <3>1. \A j \in Links : links[j].session # s
      BY <2>1, <2>3 DEF DisconnectedIsFinal
    <3>2. links' = [links EXCEPT ![k] = FreeLink]
      BY <1>6, <2>1, <3>1 DEF Error, Timer, LiveIsOpen
    <3>3. QED
      BY <1>t, <1>a, <2>1, <3>1, <3>2 DEF LinksTyped, FreeLink
  <2>4. QED
    BY <2>2, <2>3
<1>7. ASSUME NEW k \in Links, ProbeStale(k)
      PROVE  Final
  BY <1>7, <1>t, <1>4 DEF ProbeStale, LinksTyped, FreeLink
<1>8. ASSUME NEW k \in Links, NotFound(k) \/ Breaks(k) \/ ProbeAnswered(k)
      PROVE  Final
  <2>1. UNCHANGED <<open, status, revisited>>
    BY <1>8 DEF NotFound, Breaks, ProbeAnswered
  <2>2. QED
    BY <1>8, <1>t, <1>4, <2>1, MovesKeep DEF Moves
<1>9. ASSUME NEW r \in Sessions, Forget(r)
      PROVE  Final
  <2>1. UNCHANGED <<open, status, revisited>>
    BY <1>9 DEF Forget
  <2>2. QED
    BY <1>9, <1>t, <1>4, <2>1, ForgetKeeps
<1>10. ASSUME NEW r \in Sessions, Relist(r) \/ \E kind \in Kinds : Produce(r, kind)
       PROVE  Final
  BY <1>10, <1>4 DEF Relist, Produce, page
<1>11. ASSUME (\E c \in Cards : Answer(c)) \/ UNCHANGED vars
       PROVE  Final
  BY <1>11, <1>4 DEF Answer, vars, page
<1>12. QED
  BY <1>1, <1>2, <1>3, <1>5, <1>6, <1>7, <1>8, <1>9, <1>10, <1>11 DEF Next, Progress

-----------------------------------------------------------------------------
(* The invariant and what follows from it.                                 *)

LEMMA InvInit ==
  ASSUME PageAssumption, Init
  PROVE  IInv
<1>1. \A k \in Links : links[k] = FreeLink
  BY DEF Init
<1>2. TypeOK
  <2>1. LinksTyped
    BY DEF Init, LinksTyped, LinkRecords
  <2>2. PageTyped
    <3>1. pane \in Seq(OnScreen)
      BY DEF Init
    <3>2. card \in [Cards -> Sessions \cup {None}]
      BY DEF Init
    <3>3. open = None /\ live = None /\ lastSeq = 0 /\ status = <<>>
          /\ astray = {} /\ revisited = FALSE
      BY DEF Init
    <3>4. QED
      BY <3>1, <3>2, <3>3 DEF PageTyped
  <2>3. RelayTyped
    <3>1. <<>> \in Seq(Entries)
      OBVIOUS
    <3>2. QED
      BY <3>1, PageAssumption DEF Init, RelayTyped, PageAssumption
  <2>4. QED
    BY <2>1, <2>2, <2>3, TypeParts
<1>3. LiveIsOpen
  BY <1>1 DEF Init, LiveIsOpen, FreeLink
<1>4. OthersAreStale /\ SourcesContinue
  BY <1>1 DEF OthersAreStale, SourcesContinue, FreeLink, Attached
<1>5. PaneInOrder
  BY DEF Init, PaneInOrder
<1>6. CardsOfThePane
  BY DEF Init, CardsOfThePane
<1>7. DisconnectedIsFinal
  BY DEF Init, DisconnectedIsFinal
<1>8. QED
  BY <1>2, <1>3, <1>4, <1>5, <1>6, <1>7 DEF IInv, Undisturbed

LEMMA InvStep ==
  ASSUME PageAssumption, IInv, [Next]_vars
  PROVE  IInv'
<1>1. TypeOK /\ LiveIsOpen /\ (~revisited => Undisturbed) /\ DisconnectedIsFinal
  BY DEF IInv
<1>2. TypeOK' /\ LiveIsOpen'
  BY <1>1, TypeStep, LiveStep
\* revisited is never taken back.
<1>3. revisited => revisited'
  <2>1. ASSUME NEW s \in Sessions, OpenSession(s) PROVE revisited => revisited'
    BY <2>1, Zenon DEF OpenSession
  <2>2. ASSUME NEW s \in Sessions,
               Forget(s) \/ Relist(s) \/ \E kind \in Kinds : Produce(s, kind)
        PROVE  revisited' = revisited
    BY <2>2, Zenon DEF Forget, Relist, Produce, page
  <2>3. ASSUME NEW k \in Links, Progress(k) PROVE revisited' = revisited
    <3>1. CASE Opens(k) \/ NotFound(k) \/ Error(k) \/ Timer(k)
      BY <3>1, Zenon DEF Opens, NotFound, Error, Timer
    <3>2. CASE ProbeAnswered(k) \/ ProbeStale(k) \/ ProbePresent(k) \/ ProbeAbsent(k)
      BY <3>2, Zenon DEF ProbeAnswered, ProbeStale, ProbePresent, ProbeAbsent
    <3>3. QED
      BY <2>3, <3>1, <3>2, Zenon DEF Progress
  <2>4. ASSUME NEW k \in Links, Breaks(k) \/ Message(k) \/ ProbeFails(k) \/ ProbeRefused(k)
        PROVE  revisited' = revisited
    BY <2>4, Zenon DEF Breaks, Message, ProbeFails, ProbeRefused
  <2>5. ASSUME Refused \/ CallFails \/ (\E c \in Cards : Answer(c)) \/ UNCHANGED vars
        PROVE  revisited' = revisited
    BY <2>5, Zenon DEF Refused, CallFails, Answer, vars
  <2>6. QED
    BY <2>1, <2>2, <2>3, <2>4, <2>5, Zenon DEF Next
<1>4. ~revisited' => Undisturbed'
  BY <1>1, <1>3, UndisturbedStep, Zenon
<1>5. DisconnectedIsFinal'
  BY <1>1, DisconnectedStep, SMTT(20) DEF DisconnectedIsFinal
<1>6. QED
  BY <1>2, <1>4, <1>5 DEF IInv

LEMMA Invariant == ASSUME PageAssumption PROVE Spec => []IInv
<1>1. Init => IInv
  BY InvInit, PageAssumption
<1>2. IInv /\ [Next]_vars => IInv'
  BY InvStep, PageAssumption
<1>3. QED
  BY <1>1, <1>2, PTL DEF Spec

\* The page's state, its links and what it believes of the relay keep their
\* types; in particular a link that does something has a session.
THEOREM TypeCorrect == Spec => []TypeOK
<1>1. IInv => TypeOK
  BY DEF IInv
<1>2. QED
  BY <1>1, Invariant, PageAssumption, PTL

\* The pane shows the open session's events, each once and in order, and
\* resumes from the last one shown, however often its stream breaks.
THEOREM PaneStaysInOrder == Spec => []ShownInOrder
<1>1. IInv => ShownInOrder
  BY DEF IInv, ShownInOrder, Undisturbed, PaneInOrder
<1>2. QED
  BY <1>1, Invariant, PageAssumption, PTL

\* Permissions, questions and trust prompts are answered to whoever asked.
THEOREM AnswersStayHome == Spec => []AnswersGoHome
<1>1. IInv => AnswersGoHome
  BY DEF IInv, AnswersGoHome, Undisturbed, CardsOfThePane
<1>2. QED
  BY <1>1, Invariant, PageAssumption, PTL

\* "The machine disconnected." is about the session on screen, and nothing
\* that could bring it back is under way.
THEOREM DisconnectedStaysFinal == Spec => []DisconnectedIsFinal
<1>1. IInv => DisconnectedIsFinal
  BY DEF IInv
<1>2. QED
  BY <1>1, Invariant, PageAssumption, PTL
=============================================================================
