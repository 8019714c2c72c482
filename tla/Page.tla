-------------------------------- MODULE Page --------------------------------
(***************************************************************************)
(* The web page of Remote Control (relay/static/app.js): one pane that      *)
(* shows one session at a time, the EventSource it is fed by, the cards     *)
(* whose answers go back, and what the page does when the stream breaks.    *)
(* Callbacks of sources, calls and timers arrive whenever the browser       *)
(* delivers them, so they may belong to a session that has been left.       *)
(*                                                                          *)
(* A link is one EventSource with the callbacks that follow its failure:    *)
(* the probe of the session list, the reconnect timer, the next source.     *)
(***************************************************************************)
EXTENDS Naturals, Sequences

CONSTANTS Sessions,    \* session ids the relay may list
          None,        \* no session, no link
          Kinds,       \* kinds of events the runners send
          MaxLinks,    \* bound on the links alive at once
          RingLimit,   \* events the relay retains of a session
          MaxVisits,   \* bound on the sessions opened
          MaxEvents,   \* bound on the events of a session
          MaxTroubles  \* bound on broken streams, lost and refused calls
                       \* and sessions forgotten

Cards == {"permission", "mcp", "question", "bypass"}
\* "local" is a permission request that can be answered at the machine only,
\* "state" stands for what sets or hides the status line, "text" for the rest.
EventKinds == Cards \cup {"local", "history", "state", "text"}

ASSUME PageAssumption == /\ Kinds \subseteq EventKinds
                         /\ MaxLinks \in Nat /\ RingLimit \in Nat \ {0}
                         /\ MaxVisits \in Nat /\ MaxEvents \in Nat
                         /\ MaxTroubles \in Nat
                         /\ None \notin Sessions /\ None \notin Nat

Links == 1..MaxLinks

VARIABLES
  open,      \* live.sessionId
  live,      \* live.source: the link whose source it is
  lastSeq,   \* live.lastSeq
  links,     \* link -> session, the relay's cursor for it, and its stage
  card,      \* live.permission, .mcp, .question, .bypass: who asks, or None
  status,    \* the status line: what it says and of which session, or
             \* <<>> where it says something else or nothing
  pane,      \* the events on screen: session and number
  listed,    \* the sessions the relay has
  ring,      \* session -> the events the relay retains of it
  next,      \* session -> number of its next event
  visits, troubles,
  astray,    \* history: cards answered to another session than asked
  revisited  \* history: a session was opened again while a callback of an
             \* earlier visit was still to come

page  == <<open, live, lastSeq, links, card, status, pane>>
relay == <<listed, ring, next>>
vars  == <<page, relay, visits, troubles, astray, revisited>>

\* Stages in which the source is not closed, and in which a callback that
\* follows its failure is still to come.
Attached == {"connecting", "open", "ended"}
Pending  == {"probing", "present", "absent", "waiting"}
FreeLink == [session |-> None, at |-> 0, stage |-> "free"]

Init ==
  /\ open = None /\ live = None /\ lastSeq = 0
  /\ links = [k \in Links |-> FreeLink]
  /\ card = [c \in Cards |-> None]
  /\ status = <<>> /\ pane = <<>>
  /\ listed = Sessions
  /\ ring = [s \in Sessions |-> <<>>]
  /\ next = [s \in Sessions |-> 1]
  /\ visits = 0 /\ troubles = 0
  /\ astray = {} /\ revisited = FALSE

Trouble == troubles < MaxTroubles /\ troubles' = troubles + 1

-----------------------------------------------------------------------------
(* The relay and the machines, as far as the page sees them.               *)

\* The runner uploads an event; the ring drops its oldest.
Produce(s, kind) ==
  /\ s \in listed /\ next[s] <= MaxEvents
  /\ LET longer == Append(ring[s], [n |-> next[s], kind |-> kind])
     IN ring' = [ring EXCEPT ![s] =
                   IF Len(longer) > RingLimit THEN Tail(longer) ELSE longer]
  /\ next' = [next EXCEPT ![s] = @ + 1]
  /\ UNCHANGED <<page, listed, visits, troubles, astray, revisited>>

\* The session is deregistered, swept, or lost with the relay's process: its
\* streams end.
Forget(s) ==
  /\ s \in listed /\ Trouble
  /\ listed' = listed \ {s}
  /\ ring' = [ring EXCEPT ![s] = <<>>]
  /\ next' = [next EXCEPT ![s] = 1]
  /\ links' = [k \in Links |->
                 IF links[k].session = s /\ links[k].stage = "open"
                   THEN [links[k] EXCEPT !.stage = "ended"] ELSE links[k]]
  /\ UNCHANGED <<open, live, lastSeq, card, status, pane, visits, astray, revisited>>

\* A poll of its runner makes the relay list the session again.
Relist(s) ==
  /\ s \notin listed
  /\ listed' = listed \cup {s}
  /\ UNCHANGED <<page, ring, next, visits, troubles, astray, revisited>>

-----------------------------------------------------------------------------
(* Opening and leaving.                                                    *)

\* live.source.close(): a closed source delivers nothing any more.
SourceClosed ==
  [k \in Links |-> IF k = live /\ links[k].stage \in Attached
                     THEN FreeLink ELSE links[k]]

\* Mutant: leaving hides no card.
CardsKept == card

\* leaveSession resets the cards; live.bypass and its card stay.
CardsLeft == [c \in Cards |-> IF c = "bypass" THEN card[c] ELSE None]

\* leaveSession.
Leave ==
  /\ links' = SourceClosed
  /\ live' = None /\ open' = None /\ lastSeq' = 0
  /\ card' = CardsLeft
  /\ status' = <<>> /\ pane' = <<>>

\* Mutant: every source asks for the whole buffer.
SourceFromTheStart(s, since) == [session |-> s, at |-> 0, stage |-> "connecting"]

\* connectStream: a source that resumes after the last event seen.
Source(s, since) == [session |-> s, at |-> since, stage |-> "connecting"]

\* A tap on a card of the list, which may be out of date.  Opening the open
\* session again changes nothing.
OpenSession(s) ==
  /\ s # open /\ visits < MaxVisits
  /\ visits' = visits + 1
  /\ \E k \in Links :
       /\ SourceClosed[k].stage = "free"
       /\ \A j \in 1..(k-1) : SourceClosed[j].stage # "free"
       /\ links' = [SourceClosed EXCEPT ![k] = Source(s, 0)]
       /\ live' = k
  /\ open' = s /\ lastSeq' = 0
  /\ card' = CardsLeft
  /\ status' = <<>> /\ pane' = <<>>
  /\ revisited' = (revisited \/ \E k \in Links : links[k].session = s
                                             /\ links[k].stage \in Pending)
  /\ UNCHANGED <<relay, troubles, astray>>

\* A call of the page is answered 401 or 403.
Refused ==
  /\ Trouble
  /\ Leave
  /\ UNCHANGED <<relay, visits, astray, revisited>>

\* A call of the page fails: reportFailure takes the status line.
CallFails ==
  /\ status # <<>> /\ Trouble
  /\ status' = <<>>
  /\ UNCHANGED <<open, live, lastSeq, links, card, pane, relay, visits, astray, revisited>>

-----------------------------------------------------------------------------
(* The source.                                                             *)

Stage(k, stage) == links' = [links EXCEPT ![k].stage = stage]

Opens(k) ==
  /\ links[k].stage = "connecting" /\ links[k].session \in listed
  /\ Stage(k, "open")
  /\ status' = <<>>
  /\ UNCHANGED <<open, live, lastSeq, card, pane, relay, visits, troubles, astray, revisited>>

\* The relay does not know the session: 404.
NotFound(k) ==
  /\ links[k].stage = "connecting" /\ links[k].session \notin listed
  /\ Stage(k, "ended")
  /\ UNCHANGED <<open, live, lastSeq, card, status, pane, relay, visits, troubles, astray, revisited>>

\* The network breaks.
Breaks(k) ==
  /\ links[k].stage \in {"connecting", "open"} /\ Trouble
  /\ Stage(k, "ended")
  /\ UNCHANGED <<open, live, lastSeq, card, status, pane, relay, visits, astray, revisited>>

\* What render does to the cards.
CardsAfter(s, kind) ==
  IF kind \in Cards THEN [card EXCEPT ![kind] = s]
  ELSE IF kind = "local" THEN [card EXCEPT !["permission"] = None]
  ELSE card

\* The next event the relay retains reaches the page.  The handler does not
\* ask whether its source is still the page's.
Message(k) ==
  /\ links[k].stage = "open"
  /\ LET s == links[k].session
     IN \E i \in 1..Len(ring[s]) :
          LET e == ring[s][i]
          IN /\ e.n > links[k].at
             /\ \A j \in 1..(i-1) : ring[s][j].n <= links[k].at
             /\ links' = [links EXCEPT ![k].at = e.n]
             /\ lastSeq' = e.n
             /\ card' = CardsAfter(s, e.kind)
             /\ pane' = IF e.kind = "history" THEN <<[session |-> s, n |-> e.n]>>
                        ELSE Append(pane, [session |-> s, n |-> e.n])
             /\ status' = IF e.kind = "state" THEN <<>> ELSE status
  /\ UNCHANGED <<open, live, relay, visits, troubles, astray, revisited>>

\* The error handler: the source is closed, and the page's own is looked into.
Error(k) ==
  /\ links[k].stage = "ended"
  /\ links' = [links EXCEPT ![k] =
                 IF k = live THEN [session |-> open, at |-> 0, stage |-> "probing"]
                 ELSE FreeLink]
  /\ UNCHANGED <<open, live, lastSeq, card, status, pane, relay, visits, troubles, astray, revisited>>

-----------------------------------------------------------------------------
(* handleStreamDrop and scheduleReconnect.                                 *)

\* The relay answers the probe; the answer is on its way.
ProbeAnswered(k) ==
  /\ links[k].stage = "probing"
  /\ Stage(k, IF links[k].session \in listed THEN "present" ELSE "absent")
  /\ UNCHANGED <<open, live, lastSeq, card, status, pane, relay, visits, troubles, astray, revisited>>

\* Mutant: a failed probe is the end of it.
ScheduleNothing(k) ==
  /\ links' = [links EXCEPT ![k] = FreeLink]
  /\ status' = <<"reconnecting", links[k].session>>

\* scheduleReconnect, whose countdown takes the status line.
Schedule(k) ==
  /\ Stage(k, "waiting")
  /\ status' = <<"reconnecting", links[k].session>>

\* The answer is about a session that is no longer on screen.
ProbeStale(k) ==
  /\ links[k].stage \in {"present", "absent"} /\ open # links[k].session
  /\ links' = [links EXCEPT ![k] = FreeLink]
  /\ UNCHANGED <<open, live, lastSeq, card, status, pane, relay, visits, troubles, astray, revisited>>

ProbePresent(k) ==
  /\ links[k].stage = "present" /\ open = links[k].session
  /\ Schedule(k)
  /\ UNCHANGED <<open, live, lastSeq, card, pane, relay, visits, troubles, astray, revisited>>

\* Mutant: the answer is taken to be about the session on screen.
ProbeAbsentUnchecked(k) ==
  /\ links[k].stage = "absent"
  /\ links' = [links EXCEPT ![k] = FreeLink]
  /\ status' = <<"disconnected", links[k].session>>
  /\ UNCHANGED <<open, live, lastSeq, card, pane, relay, visits, troubles, astray, revisited>>

\* No reconnect is tried; the transcript stays.
ProbeAbsent(k) ==
  /\ links[k].stage = "absent" /\ open = links[k].session
  /\ links' = [links EXCEPT ![k] = FreeLink]
  /\ status' = <<"disconnected", links[k].session>>
  /\ UNCHANGED <<open, live, lastSeq, card, pane, relay, visits, troubles, astray, revisited>>

\* The probe or its answer is lost: the session on screen is not asked about.
ProbeFails(k) ==
  /\ links[k].stage \in {"probing", "present", "absent"} /\ Trouble
  /\ Schedule(k)
  /\ UNCHANGED <<open, live, lastSeq, card, pane, relay, visits, astray, revisited>>

\* The probe is refused: the page leaves whatever is open, and the timer is
\* set all the same.
ProbeRefused(k) ==
  /\ links[k].stage = "probing" /\ Trouble
  /\ links' = [SourceClosed EXCEPT ![k].stage = "waiting"]
  /\ live' = None /\ open' = None /\ lastSeq' = 0
  /\ card' = CardsLeft
  /\ status' = <<"reconnecting", links[k].session>> /\ pane' = <<>>
  /\ UNCHANGED <<relay, visits, astray, revisited>>

\* Mutant: the timer connects whatever is on screen by now.
TimerUnchecked(k) ==
  /\ links[k].stage = "waiting"
  /\ links' = [links EXCEPT ![k] = Source(open, lastSeq)]
  /\ live' = k
  /\ UNCHANGED <<open, lastSeq, card, status, pane, relay, visits, troubles, astray, revisited>>

\* The timer fires: it connects if its session is the one on screen.
Timer(k) ==
  /\ links[k].stage = "waiting"
  /\ IF open = links[k].session
       THEN /\ links' = [links EXCEPT ![k] = Source(open, lastSeq)]
            /\ live' = k
       ELSE /\ links' = [links EXCEPT ![k] = FreeLink]
            /\ live' = live
  /\ UNCHANGED <<open, lastSeq, card, status, pane, relay, visits, troubles, astray, revisited>>

-----------------------------------------------------------------------------
(* The cards.                                                              *)

\* The card is cleared first; the answer goes to the session on screen.
Answer(c) ==
  /\ card[c] # None
  /\ card' = [card EXCEPT ![c] = None]
  /\ astray' = IF card[c] = open THEN astray ELSE astray \cup {c}
  /\ UNCHANGED <<open, live, lastSeq, links, status, pane, relay, visits, troubles, revisited>>

-----------------------------------------------------------------------------
Progress(k) == \/ Opens(k) \/ NotFound(k) \/ Error(k)
               \/ ProbeAnswered(k) \/ ProbeStale(k) \/ ProbePresent(k)
               \/ ProbeAbsent(k) \/ Timer(k)

Next ==
  \/ \E s \in Sessions : \/ Forget(s) \/ Relist(s) \/ OpenSession(s)
                         \/ \E kind \in Kinds : Produce(s, kind)
  \/ Refused \/ CallFails
  \/ \E k \in Links : \/ Progress(k) \/ Breaks(k) \/ Message(k)
                      \/ ProbeFails(k) \/ ProbeRefused(k)
  \/ \E c \in Cards : Answer(c)

Spec == Init /\ [][Next]_vars

\* The browser delivers the events and answers it has and fires its timers,
\* and the relay answers what reaches it.
Fairness == \A k \in Links : WF_vars(Progress(k))
FairSpec == Spec /\ Fairness

-----------------------------------------------------------------------------
TypeOK ==
  /\ open \in Sessions \cup {None}
  /\ live \in Links \cup {None}
  /\ lastSeq \in Nat
  /\ links \in [Links -> {FreeLink} \cup [session : Sessions, at : Nat,
                                         stage : Attached \cup Pending]]
  /\ card \in [Cards -> Sessions \cup {None}]
  /\ status \in {<<>>} \cup ({"reconnecting", "disconnected"} \X Sessions)
  /\ pane \in Seq([session : Sessions, n : Nat])
  /\ listed \subseteq Sessions
  /\ ring \in [Sessions -> Seq([n : Nat \ {0}, kind : EventKinds])]
  /\ next \in [Sessions -> Nat \ {0}]
  /\ visits \in 0..MaxVisits /\ troubles \in 0..MaxTroubles
  /\ astray \subseteq Cards /\ revisited \in BOOLEAN

\* The pane shows the events of the open session only, each once and in
\* order, and the cursor a reconnect resumes from is the last one shown --
\* although sources of sessions that were left may still fail, be probed and
\* come back.  (Not when a session is opened again meanwhile: then two sources
\* feed the page.)
ShownInOrder ==
  ~revisited =>
    /\ \A i \in 1..Len(pane) : pane[i].session = open
    /\ \A i, j \in 1..Len(pane) : i < j => pane[i].n < pane[j].n
    /\ lastSeq = IF pane = <<>> THEN 0 ELSE pane[Len(pane)].n

\* An answer goes to the session that asked: no card outlives the pane it was
\* shown in, but the bypass warning, which leaveSession forgets.
AnswersGoHome == ~revisited => astray \subseteq {"bypass"}

\* "The machine disconnected." is said of the session on screen, never of one
\* that was left while the relay was asked, and only when nothing that could
\* bring the session back is still under way.
DisconnectedIsFinal ==
  \A s \in Sessions :
    status = <<"disconnected", s>> =>
      /\ open = s
      /\ ~revisited => \A k \in Links : links[k].session # s

\* A pane whose stream has failed is attached again, told that its machine is
\* gone, or left.
PanesComeBack ==
  \A s \in Sessions :
    (open = s /\ \E k \in Links : links[k].session = s /\ links[k].stage \in Pending)
      ~> \/ open # s
         \/ \E k \in Links : links[k].session = s /\ links[k].stage = "open"
         \/ status = <<"disconnected", s>>

\* Every answer goes to the session that asked.
EveryAnswerGoesHome == astray = {}
=============================================================================
