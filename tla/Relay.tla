------------------------------- MODULE Relay -------------------------------
(***************************************************************************)
(* One session of the Remote Control relay (src/relay), with every request *)
(* handler that touches it.                                                *)
(*                                                                         *)
(* The relay keeps a map from session ids to `Session` records behind one  *)
(* RwLock.  A handler names one session, and the sweeper treats each on    *)
(* its own, so one session is modelled.  An action is what a handler does  *)
(* under one acquisition of the lock, or between two of them: the gaps     *)
(* between those actions are where handlers of the runner (the CLI) and of *)
(* the clients (web pages) interleave.                                     *)
(*                                                                         *)
(* `Notify` of tokio is modelled by its waiters.  notify_waiters() wakes   *)
(* the futures that exist when it is called and leaves no permit for a     *)
(* later one, so a notification moves the parked handlers on and nothing   *)
(* else remembers it.                                                      *)
(***************************************************************************)
EXTENDS Integers, Sequences

CONSTANTS
  Polls,         \* handlers of the runner's long poll
  Streams,       \* handlers of a client's event stream, one per page
  NoPoll,        \* the runner waits for no poll
  EventBuffer,   \* Limits.event_buffer
  InboundQueue,  \* Limits.inbound_queue
  MaxBatch,      \* bound: events in one upload
  MaxEvents,     \* bound: events the runner produces
  MaxMessages,   \* bound: messages queued for the runner
  MaxEpoch       \* bound: incarnations of the session

\* env_usize replaces a zero limit by the default.
ASSUME RelayAssumption ==
  /\ NoPoll \notin Polls
  /\ EventBuffer  \in Nat \ {0}
  /\ InboundQueue \in Nat \ {0}
  /\ MaxBatch     \in Nat \ {0}
  /\ MaxEvents    \in Nat
  /\ MaxMessages  \in Nat
  /\ MaxEpoch     \in Nat

VARIABLES
  \* The session record.
  live,       \* the id is in the map
  epoch,      \* which Session record, and so which Notify, the id names
  queue,      \* to_runner
  events,     \* the ring of SeqEvents, oldest first
  nextSeq,
  \* The long polls and the runner that sends them.
  pollPc,
  pollHandle, \* the Notify the handler holds
  batch,      \* the messages of its response
  current,    \* the poll whose response the runner waits for
  gone,       \* the runner has deregistered and ended
  \* The event streams and the pages that read them.
  streamPc,
  streamHandle,
  pending,
  cursor,     \* last_seq of the stream, and live.lastSeq of the page
  openedIn,   \* history: the epoch in which the page was opened from nothing
  \* History.
  accepted,   \* messages queued so far; they are numbered in that order
  received,   \* messages the runner has got, in order
  lost,       \* messages dropped on the way
  produced,   \* events the runner has produced; numbered in that order
  got         \* events each page has got since it was opened, in order

session == <<live, epoch, queue, events, nextSeq>>
polls   == <<pollPc, pollHandle, batch, current, gone>>
streams == <<streamPc, streamHandle, pending, cursor, openedIn>>
history == <<accepted, received, lost, produced, got>>
vars    == <<session, polls, streams, history>>

NoHandle == 0

SeqEvent == [seq : Nat \ {0}, ev : Nat \ {0}]

Elems(s) == {s[i] : i \in DOMAIN s}

LastN(s, n) == SubSeq(s, IF Len(s) > n THEN Len(s) - n + 1 ELSE 1, Len(s))

Increasing(s) == \A i, j \in DOMAIN s : i < j => s[i] < s[j]

-----------------------------------------------------------------------------
Init ==
  /\ live = FALSE /\ epoch = 0
  /\ queue = <<>> /\ events = <<>> /\ nextSeq = 1
  /\ pollPc = [p \in Polls |-> "off"]
  /\ pollHandle = [p \in Polls |-> NoHandle]
  /\ batch = [p \in Polls |-> <<>>]
  /\ current = NoPoll /\ gone = FALSE
  /\ streamPc = [c \in Streams |-> "off"]
  /\ streamHandle = [c \in Streams |-> NoHandle]
  /\ pending = [c \in Streams |-> <<>>]
  /\ cursor = [c \in Streams |-> 0]
  /\ openedIn = [c \in Streams |-> 0]
  /\ accepted = 0 /\ received = <<>> /\ lost = {}
  /\ produced = 0 /\ got = [c \in Streams |-> <<>>]

-----------------------------------------------------------------------------
(* What the operations of state.rs do under the lock.                      *)

\* The record the id names once entry().or_insert_with() has run.
EntryEpoch == IF live THEN epoch ELSE epoch + 1

\* entry(id).or_insert_with(Session::new).
OrInsert ==
  /\ live' = TRUE
  /\ epoch' = EntryEpoch

\* notify_waiters() of the Notify of record e.
NotifyWaiters(e) ==
  /\ pollPc' = [p \in Polls |->
       IF pollPc[p] = "parked" /\ pollHandle[p] = e THEN "again" ELSE pollPc[p]]
  /\ streamPc' = [c \in Streams |->
       IF streamPc[c] = "parked" /\ streamHandle[c] = e THEN "loop"
       ELSE streamPc[c]]

\* The id names no record; the next one starts like Session::new.
NoRecord ==
  /\ live' = FALSE
  /\ queue' = <<>> /\ events' = <<>> /\ nextSeq' = 1

\* The record leaves the map with everything it buffers.
DropSession ==
  /\ NoRecord
  /\ lost' = lost \cup Elems(queue)

\* The queue as push_inbound leaves room for one more message.
RoomInQueue == IF Len(queue) >= InboundQueue THEN Tail(queue) ELSE queue

\* Mutant of PushInbound: the message goes to the front of the queue.
PushInboundFront ==
  /\ accepted < MaxMessages
  /\ accepted' = accepted + 1
  /\ queue' = <<accepted + 1>> \o RoomInQueue
  /\ lost' = lost \cup (Elems(queue) \ Elems(RoomInQueue))

\* push_inbound of a live session, but for its notification.
PushInbound ==
  /\ accepted < MaxMessages
  /\ accepted' = accepted + 1
  /\ queue' = Append(RoomInQueue, accepted + 1)
  /\ lost' = lost \cup (Elems(queue) \ Elems(RoomInQueue))

\* Mutants of EventsSince: one event too few, and one too many.
EventsAfterNext(since) ==
  SelectSeq(events, LAMBDA e : e.seq > since + 1)

EventsFrom(since) ==
  SelectSeq(events, LAMBDA e : e.seq >= since)

\* The ring is ordered by seq, so what lies above `since` is a suffix.
EventsSince(since) ==
  LET k == CHOOSE k \in 0 .. Len(events) :
             \A i \in 1 .. Len(events) : events[i].seq > since <=> i > k
  IN  SubSeq(events, k + 1, Len(events))

\* Mutant of Uploaded: the number is one less than the counter.
UploadedLate(n) ==
  [i \in 1 .. n |-> [seq |-> nextSeq + i - 2, ev |-> produced + i]]

\* The n next events of the runner as push_events numbers them.
Uploaded(n) ==
  [i \in 1 .. n |-> [seq |-> nextSeq + i - 1, ev |-> produced + i]]

-----------------------------------------------------------------------------
(* The runner.                                                             *)

\* POST /sessions: the first registration, or a refresh of the metadata.
Register ==
  /\ ~gone
  /\ OrInsert
  /\ UNCHANGED <<queue, events, nextSeq, polls, streams, history>>

\* DELETE /sessions/{id}: the poll loop has ended.
Deregister ==
  /\ ~gone /\ current = NoPoll
  /\ gone' = TRUE
  /\ IF live
     THEN DropSession /\ NotifyWaiters(epoch)
     ELSE UNCHANGED <<live, queue, events, nextSeq, lost,
                      pollPc, streamPc>>
  /\ UNCHANGED <<epoch, pollHandle, batch, current, streamHandle, pending,
                 cursor, openedIn, accepted, received, produced, got>>

\* The DELETE fails, which the runner ignores.
DeregisterLost ==
  /\ ~gone /\ current = NoPoll
  /\ gone' = TRUE
  /\ UNCHANGED <<session, pollPc, pollHandle, batch, current, streams, history>>

\* The runner polls; the handler drains the queue for the first time.
RunnerPoll(p) ==
  /\ ~gone /\ current = NoPoll
  /\ pollPc[p] = "off"
  /\ current' = p
  /\ OrInsert
  /\ queue' = <<>>
  /\ batch' = [batch EXCEPT ![p] = queue]
  /\ pollPc' = [pollPc EXCEPT ![p] = IF queue = <<>> THEN "drained" ELSE "reply"]
  /\ UNCHANGED <<events, nextSeq, pollHandle, gone, streams, history>>

\* relay.notifier(id): a clone of the record's Notify, if there is a record.
PollNotifier(p) ==
  /\ pollPc[p] = "drained"
  /\ pollHandle' = [pollHandle EXCEPT ![p] = IF live THEN epoch ELSE NoHandle]
  /\ pollPc' = [pollPc EXCEPT ![p] = IF live THEN "named" ELSE "again"]
  /\ UNCHANGED <<session, batch, current, gone, streams, history>>

\* notify.notified(): from here on a notification reaches the handler.
PollArm(p) ==
  /\ pollPc[p] = "named"
  /\ pollPc' = [pollPc EXCEPT ![p] = "parked"]
  /\ UNCHANGED <<session, pollHandle, batch, current, gone, streams, history>>

\* Mutant of PollHold: the handler waits for a notification only.
PollHoldNever(p) == FALSE /\ UNCHANGED vars

\* POLL_HOLD passes.
PollHold(p) ==
  /\ pollPc[p] = "parked"
  /\ pollPc' = [pollPc EXCEPT ![p] = "again"]
  /\ UNCHANGED <<session, pollHandle, batch, current, gone, streams, history>>

\* Mutant of PollAgain: the queue is drained, the response stays empty.
PollAgainEmpty(p) ==
  /\ pollPc[p] = "again"
  /\ OrInsert
  /\ queue' = <<>>
  /\ pollPc' = [pollPc EXCEPT ![p] = "reply"]
  /\ UNCHANGED <<events, nextSeq, pollHandle, batch, current, gone, streams, history>>

\* The second drain, whatever woke the handler.
PollAgain(p) ==
  /\ pollPc[p] = "again"
  /\ OrInsert
  /\ queue' = <<>>
  /\ batch' = [batch EXCEPT ![p] = queue]
  /\ pollPc' = [pollPc EXCEPT ![p] = "reply"]
  /\ UNCHANGED <<events, nextSeq, pollHandle, current, gone, streams, history>>

\* The response reaches the runner.
PollReply(p) ==
  /\ pollPc[p] = "reply" /\ current = p
  /\ received' = received \o batch[p]
  /\ batch' = [batch EXCEPT ![p] = <<>>]
  /\ pollPc' = [pollPc EXCEPT ![p] = "off"]
  /\ current' = NoPoll
  /\ UNCHANGED <<session, pollHandle, gone, streams, accepted, lost, produced, got>>

\* The runner's request fails or times out; the handler does not know yet.
RunnerAbandon ==
  /\ current # NoPoll
  /\ current' = NoPoll
  /\ UNCHANGED <<session, pollPc, pollHandle, batch, gone, streams, history>>

\* The server drops a handler, or its response, nobody waits for.
PollDropped(p) ==
  /\ pollPc[p] # "off" /\ current # p
  /\ lost' = lost \cup Elems(batch[p])
  /\ batch' = [batch EXCEPT ![p] = <<>>]
  /\ pollPc' = [pollPc EXCEPT ![p] = "off"]
  /\ UNCHANGED <<session, pollHandle, current, gone, streams,
                 accepted, received, produced, got>>

\* POST /sessions/{id}/events with a batch of n.
UploadEvents(n) ==
  /\ ~gone
  /\ produced + n <= MaxEvents
  /\ OrInsert
  /\ events' = LastN(events \o Uploaded(n), EventBuffer)
  /\ nextSeq' = nextSeq + n
  /\ produced' = produced + n
  /\ NotifyWaiters(EntryEpoch)
  /\ UNCHANGED <<queue, pollHandle, batch, current, gone, streamHandle, pending,
                 cursor, openedIn, accepted, received, lost, got>>

\* The POST fails before the relay handles it; the uploader drops the batch.
UploadLost(n) ==
  /\ ~gone
  /\ produced + n <= MaxEvents
  /\ produced' = produced + n
  /\ UNCHANGED <<session, polls, streams, accepted, received, lost, got>>

-----------------------------------------------------------------------------
(* The clients.                                                            *)

\* POST prompt, permission, answer, cancel...: refused when ~live.
ClientPost ==
  /\ live
  /\ PushInbound
  /\ NotifyWaiters(epoch)
  /\ UNCHANGED <<live, epoch, events, nextSeq, pollHandle, batch, current,
                 gone, streamHandle, pending, cursor, openedIn,
                 received, produced, got>>

\* A page opens the session with since = 0; 404 when ~live.
StreamOpen(c) ==
  /\ streamPc[c] = "off" /\ live
  /\ streamPc' = [streamPc EXCEPT ![c] = "attach"]
  /\ cursor' = [cursor EXCEPT ![c] = 0]
  /\ got' = [got EXCEPT ![c] = <<>>]
  /\ openedIn' = [openedIn EXCEPT ![c] = epoch]
  /\ UNCHANGED <<session, polls, streamHandle, pending,
                 accepted, received, lost, produced>>

\* A page whose stream dropped comes back with the last number it saw.
StreamResume(c) ==
  /\ streamPc[c] = "off" /\ live /\ openedIn[c] # 0
  /\ streamPc' = [streamPc EXCEPT ![c] = "attach"]
  /\ UNCHANGED <<session, polls, streamHandle, pending, cursor, openedIn, history>>

\* push_inbound(ClientAttached); its result is ignored.
StreamAttach(c) ==
  /\ streamPc[c] = "attach"
  /\ IF live
     THEN /\ PushInbound
          /\ pollPc' = [p \in Polls |->
               IF pollPc[p] = "parked" /\ pollHandle[p] = epoch THEN "again"
               ELSE pollPc[p]]
          /\ streamPc' = [d \in Streams |->
               IF d = c \/ (streamPc[d] = "parked" /\ streamHandle[d] = epoch)
               THEN "loop" ELSE streamPc[d]]
     ELSE /\ streamPc' = [streamPc EXCEPT ![c] = "loop"]
          /\ UNCHANGED <<queue, accepted, lost, pollPc>>
  /\ UNCHANGED <<live, epoch, events, nextSeq, pollHandle, batch, current,
                 gone, streamHandle, pending, cursor, openedIn,
                 received, produced, got>>

\* One pending event goes out and reaches the page.
StreamEmit(c) ==
  /\ streamPc[c] = "loop" /\ pending[c] # <<>>
  /\ cursor' = [cursor EXCEPT ![c] = Head(pending[c]).seq]
  /\ got' = [got EXCEPT ![c] = Append(@, Head(pending[c]).ev)]
  /\ pending' = [pending EXCEPT ![c] = Tail(@)]
  /\ UNCHANGED <<session, polls, streamPc, streamHandle, openedIn,
                 accepted, received, lost, produced>>

\* relay.notifier(id).
StreamNotifier(c) ==
  /\ streamPc[c] = "loop" /\ pending[c] = <<>>
  /\ streamHandle' = [streamHandle EXCEPT ![c] = IF live THEN epoch ELSE NoHandle]
  /\ streamPc' = [streamPc EXCEPT ![c] = "named"]
  /\ UNCHANGED <<session, polls, pending, cursor, openedIn, history>>

\* events_since(last_seq) finds something.
StreamRead(c) ==
  /\ streamPc[c] = "named" /\ live
  /\ EventsSince(cursor[c]) # <<>>
  /\ pending' = [pending EXCEPT ![c] = EventsSince(cursor[c])]
  /\ streamPc' = [streamPc EXCEPT ![c] = "loop"]
  /\ UNCHANGED <<session, polls, streamHandle, cursor, openedIn, history>>

\* events_since finds nothing, and there is a Notify to wait on.
StreamNothingNew(c) ==
  /\ streamPc[c] = "named" /\ live
  /\ EventsSince(cursor[c]) = <<>> /\ streamHandle[c] # NoHandle
  /\ streamPc' = [streamPc EXCEPT ![c] = "read"]
  /\ UNCHANGED <<session, polls, streamHandle, pending, cursor, openedIn, history>>

\* The session is gone, or was when the handler asked for its Notify.
StreamEnd(c) ==
  /\ streamPc[c] = "named"
  /\ ~live \/ (streamHandle[c] = NoHandle /\ EventsSince(cursor[c]) = <<>>)
  /\ streamPc' = [streamPc EXCEPT ![c] = "off"]
  /\ UNCHANGED <<session, polls, streamHandle, pending, cursor, openedIn, history>>

\* notify.notified(), inside the select.
StreamArm(c) ==
  /\ streamPc[c] = "read"
  /\ streamPc' = [streamPc EXCEPT ![c] = "parked"]
  /\ UNCHANGED <<session, polls, streamHandle, pending, cursor, openedIn, history>>

\* Mutant of StreamTick: the stream waits for a notification only.
StreamTickNever(c) == FALSE /\ UNCHANGED vars

\* STREAM_TICK passes.
StreamTick(c) ==
  /\ streamPc[c] = "parked"
  /\ streamPc' = [streamPc EXCEPT ![c] = "loop"]
  /\ UNCHANGED <<session, polls, streamHandle, pending, cursor, openedIn, history>>

\* The connection breaks; what the handler had not sent goes with it.
StreamDrop(c) ==
  /\ streamPc[c] # "off"
  /\ streamPc' = [streamPc EXCEPT ![c] = "off"]
  /\ pending' = [pending EXCEPT ![c] = <<>>]
  /\ UNCHANGED <<session, polls, streamHandle, cursor, openedIn, history>>

-----------------------------------------------------------------------------
(* The relay on its own.                                                   *)

\* sweep_expired.  Any amount of time may pass before any step, so a session
\* may have been quiet for the TTL whenever the sweeper looks.
Sweep ==
  /\ live /\ epoch < MaxEpoch
  /\ DropSession
  /\ NotifyWaiters(epoch)
  /\ UNCHANGED <<epoch, pollHandle, batch, current, gone, streamHandle, pending,
                 cursor, openedIn, accepted, received, produced, got>>

\* The relay process ends and starts again: nothing survives.
Restart ==
  /\ epoch < MaxEpoch
  /\ NoRecord
  /\ lost' = lost \cup Elems(queue) \cup UNION {Elems(batch[p]) : p \in Polls}
  /\ pollPc' = [p \in Polls |-> "off"]
  /\ batch' = [p \in Polls |-> <<>>]
  /\ current' = NoPoll
  /\ streamPc' = [c \in Streams |-> "off"]
  /\ pending' = [c \in Streams |-> <<>>]
  /\ UNCHANGED <<epoch, pollHandle, gone, streamHandle, cursor, openedIn,
                 accepted, received, produced, got>>

-----------------------------------------------------------------------------
PollStep(p) ==
  \/ RunnerPoll(p) \/ PollNotifier(p) \/ PollArm(p) \/ PollHold(p)
  \/ PollAgain(p) \/ PollReply(p) \/ PollDropped(p)

StreamStep(c) ==
  \/ StreamOpen(c) \/ StreamResume(c) \/ StreamAttach(c) \/ StreamEmit(c)
  \/ StreamNotifier(c) \/ StreamRead(c) \/ StreamNothingNew(c) \/ StreamEnd(c)
  \/ StreamArm(c) \/ StreamTick(c) \/ StreamDrop(c)

RunnerStep ==
  \/ Register \/ Deregister \/ DeregisterLost \/ RunnerAbandon
  \/ \E n \in 1 .. MaxBatch : UploadEvents(n) \/ UploadLost(n)

Next ==
  \/ RunnerStep \/ ClientPost \/ Sweep \/ Restart
  \/ \E p \in Polls : PollStep(p)
  \/ \E c \in Streams : StreamStep(c)

Spec == Init /\ [][Next]_vars

(* The timers of tokio fire, its tasks are scheduled, and the runner polls *)
(* again as long as it runs (run_poll_loop).  Nothing obliges a client to  *)
(* post or to open a stream, or the sweeper or the network to interfere.   *)
PollProgress(p) ==
  \/ PollNotifier(p) \/ PollArm(p) \/ PollHold(p) \/ PollAgain(p)
  \/ PollReply(p) \/ PollDropped(p)

StreamProgress(c) ==
  \/ StreamAttach(c) \/ StreamEmit(c) \/ StreamNotifier(c) \/ StreamRead(c)
  \/ StreamNothingNew(c) \/ StreamEnd(c) \/ StreamArm(c) \/ StreamTick(c)

Fairness ==
  /\ WF_vars(\E p \in Polls : RunnerPoll(p))
  /\ \A p \in Polls : WF_vars(PollProgress(p))
  /\ \A c \in Streams : WF_vars(StreamProgress(c))

FairSpec == Spec /\ Fairness

-----------------------------------------------------------------------------
(* Properties.                                                             *)

SessionType ==
  /\ live \in BOOLEAN /\ epoch \in Nat /\ nextSeq \in Nat \ {0}
  /\ queue \in Seq(Nat) /\ events \in Seq(SeqEvent)

PollType ==
  /\ pollPc \in [Polls -> {"off", "drained", "named", "parked", "again", "reply"}]
  /\ pollHandle \in [Polls -> Nat]
  /\ batch \in [Polls -> Seq(Nat)]
  /\ current \in Polls \cup {NoPoll} /\ gone \in BOOLEAN

StreamType ==
  /\ streamPc \in [Streams -> {"off", "attach", "loop", "named", "read", "parked"}]
  /\ streamHandle \in [Streams -> Nat]
  /\ pending \in [Streams -> Seq(SeqEvent)]
  /\ cursor \in [Streams -> Nat] /\ openedIn \in [Streams -> Nat]

HistoryType ==
  /\ accepted \in Nat /\ produced \in Nat
  /\ received \in Seq(Nat) /\ lost \in SUBSET Nat
  /\ got \in [Streams -> Seq(Nat)]

(* The variables keep their types: queues and rings hold numbered items,   *)
(* every handler is at a point its code has.                               *)
TypeOK == SessionType /\ PollType /\ StreamType /\ HistoryType

(* A page that was opened against the session the relay now holds, however *)
(* often its stream dropped and resumed since, has every event the ring    *)
(* still holds at or below its cursor: state.rs keeps a ring and a         *)
(* counter, client.rs a cursor, the page another, and resuming never jumps *)
(* over what could still be sent.                                          *)
NothingRetainedIsSkipped ==
  \A c \in Streams : live /\ openedIn[c] = epoch =>
    \A i \in DOMAIN events :
      events[i].seq <= cursor[c] => events[i].ev \in Elems(got[c])

(* The same without the condition that the session is still the one the    *)
(* page was opened against: what "resumes from there" in remote-control.md *)
(* says of any browser that comes back with its last number.               *)
ResumeSkipsNothing ==
  \A c \in Streams : live /\ openedIn[c] # 0 =>
    \A i \in DOMAIN events :
      events[i].seq <= cursor[c] => events[i].ev \in Elems(got[c])

(* A message push_inbound accepted is queued, in a response, with the      *)
(* runner, or was dropped by one of the ways that drop: overflow, the end  *)
(* of the session, a response nobody waits for.                            *)
NoMessageVanishes ==
  \A m \in 1 .. accepted :
    \/ m \in Elems(queue) \cup Elems(received) \cup lost
    \/ \E p \in Polls : m \in Elems(batch[p])

(* "a message queued between the drain above and here is not missed"       *)
(* (runner.rs): a handler parked on the session's Notify has not been      *)
(* passed by a message.                                                    *)
NoMissedMessage ==
  \A p \in Polls : live /\ pollPc[p] = "parked" /\ pollHandle[p] = epoch
                     => queue = <<>>

(* A message does not wait for ever for a runner that keeps polling: the   *)
(* notification may miss the handler, but POLL_HOLD ends every wait.       *)
Waiting(m) == m \in Elems(queue) /\ ~gone

EveryMessageIsFetched == \A m \in 1 .. MaxMessages : Waiting(m) ~> ~Waiting(m)

(* An event does not stay ahead of a connected page for ever: STREAM_TICK  *)
(* makes up for a notification that missed the stream.                     *)
Ahead(c, e) ==
  /\ streamPc[c] \in {"loop", "named", "read", "parked"}
  /\ \E i \in DOMAIN events : events[i].ev = e /\ events[i].seq > cursor[c]

EveryStreamCatchesUp ==
  \A c \in Streams, e \in 1 .. MaxEvents : Ahead(c, e) ~> ~Ahead(c, e)

(* Messages reach the runner at most once and in the order the relay       *)
(* accepted them, whatever clients, overflow, abandoned polls, sweeps and  *)
(* restarts do in between.                                                 *)
MessageFeed == INSTANCE OrderedFeed
  WITH Readers <- {"runner"}, Forgetful <- {}, sent <- accepted,
       seen <- [r \in {"runner"} |-> received]

MessagesInOrder == MessageFeed!Spec

(* Events reach each page at most once and in the order the runner         *)
(* produced them, across dropped streams and restarts of the numbering.    *)
EventFeed == INSTANCE OrderedFeed
  WITH Readers <- Streams, Forgetful <- Streams, sent <- produced, seen <- got

EventsInOrder == EventFeed!Spec

=============================================================================
