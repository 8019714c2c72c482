---------------------------- MODULE Relay_proofs ----------------------------
(***************************************************************************)
(* What holds of Relay for any number of handlers and any limits.          *)
(***************************************************************************)
EXTENDS Relay, SequenceTheorems, TLAPS

-----------------------------------------------------------------------------
(* The operators of the module.                                            *)

LEMMA ElemsType ==
  ASSUME NEW S, NEW s \in Seq(S)
  PROVE  Elems(s) \subseteq S
  BY DEF Elems

LEMMA RoomInQueueType == SessionType => RoomInQueue \in Seq(Nat)
<1> SUFFICES ASSUME SessionType PROVE RoomInQueue \in Seq(Nat)
  OBVIOUS
<1>1. CASE Len(queue) >= InboundQueue
  <2>1. queue \in Seq(Nat) /\ queue # <<>>
    BY <1>1, RelayAssumption DEF SessionType
  <2> QED
    BY <1>1, <2>1, HeadTailProperties DEF RoomInQueue
<1>2. CASE ~ (Len(queue) >= InboundQueue)
  BY <1>2 DEF RoomInQueue, SessionType
<1> QED
  BY <1>1, <1>2

(* Whatever leaves a queue is a set of messages.                           *)
LEMMA LossType ==
  ASSUME SessionType, PollType
  PROVE  /\ Elems(queue) \subseteq Nat
         /\ \A p \in Polls : Elems(batch[p]) \subseteq Nat
         /\ UNION {Elems(batch[p]) : p \in Polls} \subseteq Nat
<1>1. Elems(queue) \subseteq Nat
  BY ElemsType DEF SessionType
<1>2. ASSUME NEW p \in Polls PROVE Elems(batch[p]) \subseteq Nat
  <2>1. batch[p] \in Seq(Nat)
    BY DEF PollType
  <2> QED
    BY <2>1, ElemsType
<1> QED
  BY <1>1, <1>2

(* A batch is numbered from the counter of the session.                    *)
LEMMA UploadedSeq ==
  ASSUME NEW n \in Nat, SessionType, HistoryType
  PROVE  /\ Uploaded(n) \in Seq(SeqEvent)
         /\ Len(Uploaded(n)) = n
         /\ \A i \in 1 .. n :
              Uploaded(n)[i] = [seq |-> nextSeq + i - 1, ev |-> produced + i]
  BY DEF Uploaded, SessionType, HistoryType, SeqEvent

LEMMA ConcatShape ==
  ASSUME NEW S, NEW s \in Seq(S), NEW t \in Seq(S)
  PROVE  /\ s \o t \in Seq(S) /\ Len(s \o t) = Len(s) + Len(t)
         /\ \A i \in 1 .. Len(s) : (s \o t)[i] = s[i]
         /\ \A i \in 1 .. Len(t) : (s \o t)[Len(s) + i] = t[i]
  OBVIOUS

(* The last entries of a sequence are a suffix of it.                      *)
LEMMA LastNSuffix ==
  ASSUME NEW S, NEW s \in Seq(S), NEW n \in Nat
  PROVE  /\ LastN(s, n) \in Seq(S)
         /\ \E d \in Nat : /\ Len(s) = d + Len(LastN(s, n))
                           /\ \A i \in 1 .. Len(LastN(s, n)) : LastN(s, n)[i] = s[d + i]
<1> DEFINE m == IF Len(s) > n THEN Len(s) - n + 1 ELSE 1
<1>1. /\ Len(s) \in Nat /\ m \in Int
      /\ m - 1 \in Nat /\ m <= Len(s) + 1
      /\ LastN(s, n) = SubSeq(s, m, Len(s))
  BY DEF LastN
<1> HIDE DEF m
<1>2. \A i \in m .. Len(s) : s[i] \in S
  BY <1>1
<1>3. /\ LastN(s, n) \in Seq(S)
      /\ Len(LastN(s, n)) = Len(s) - (m - 1)
      /\ \A i \in 1 .. Len(LastN(s, n)) : LastN(s, n)[i] = s[m - 1 + i]
  BY <1>1, <1>2, SubSeqProperties
<1>4. \E d \in Nat : /\ Len(s) = d + Len(LastN(s, n))
                     /\ \A i \in 1 .. Len(LastN(s, n)) : LastN(s, n)[i] = s[d + i]
  <2>1. m - 1 \in Nat
    BY <1>1
  <2> WITNESS m - 1 \in Nat
  <2> QED
    BY <1>1, <1>3
<1> QED
  BY <1>3, <1>4

(* The ring is numbered without gaps up to the counter of the session.     *)
Ring ==
  \A i \in 1 .. Len(events) : events[i].seq = nextSeq - Len(events) + i - 1

LEMMA SinceCut ==
  ASSUME SessionType, Ring, NEW since \in Nat
  PROVE  \E k \in 0 .. Len(events) :
           /\ \A i \in 1 .. Len(events) : events[i].seq > since <=> i > k
           /\ EventsSince(since) = SubSeq(events, k + 1, Len(events))
<1> DEFINE Cut(k) == \A i \in 1 .. Len(events) : events[i].seq > since <=> i > k
<1>1. \E k \in 0 .. Len(events) : Cut(k)
  <2> DEFINE d == since - nextSeq + Len(events) + 1
             k == IF d < 0 THEN 0 ELSE IF d > Len(events) THEN Len(events) ELSE d
  <2>1. k \in 0 .. Len(events) /\ d \in Int
    BY DEF SessionType
  <2>2. \A i \in 1 .. Len(events) : events[i].seq > since <=> i > d
    BY DEF SessionType, Ring
  <2>3. \A i \in 1 .. Len(events) : i > d <=> i > k
    BY <2>1 DEF SessionType
  <2> HIDE DEF d, k
  <2>4. Cut(k)
    BY <2>2, <2>3
  <2> QED
    BY <2>1, <2>4
<1> DEFINE K == CHOOSE k \in 0 .. Len(events) : Cut(k)
<1>2. K \in 0 .. Len(events) /\ Cut(K)
  BY <1>1
<1>3. EventsSince(since) = SubSeq(events, K + 1, Len(events))
  BY DEF EventsSince
<1> HIDE DEF K
<1> QED
  BY <1>2, <1>3

(* events_since returns the suffix of the ring above `since`.              *)
LEMMA SinceSuffix ==
  ASSUME SessionType, Ring, NEW since \in Nat
  PROVE  /\ EventsSince(since) \in Seq(SeqEvent)
         /\ \E d \in Nat :
              /\ Len(events) = d + Len(EventsSince(since))
              /\ \A i \in 1 .. Len(EventsSince(since)) :
                   /\ EventsSince(since)[i] = events[d + i]
                   /\ events[d + i].seq > since
<1>1. PICK k \in 0 .. Len(events) :
        /\ \A i \in 1 .. Len(events) : events[i].seq > since <=> i > k
        /\ EventsSince(since) = SubSeq(events, k + 1, Len(events))
  BY SinceCut
<1>2. Len(events) \in Nat /\ \A i \in k + 1 .. Len(events) : events[i] \in SeqEvent
  BY DEF SessionType
<1>3. /\ EventsSince(since) \in Seq(SeqEvent)
      /\ Len(EventsSince(since)) = Len(events) - k
      /\ \A i \in 1 .. Len(events) - k : EventsSince(since)[i] = events[k + i]
  BY <1>1, <1>2, SubSeqProperties
<1>4. \E d \in Nat :
        /\ Len(events) = d + Len(EventsSince(since))
        /\ \A i \in 1 .. Len(EventsSince(since)) :
             /\ EventsSince(since)[i] = events[d + i]
             /\ events[d + i].seq > since
  <2>1. k \in Nat
    OBVIOUS
  <2>2. Len(events) = k + Len(EventsSince(since))
    BY <1>2, <1>3
  <2>3. ASSUME NEW i \in 1 .. Len(EventsSince(since))
        PROVE  EventsSince(since)[i] = events[k + i] /\ events[k + i].seq > since
    <3>1. i \in 1 .. Len(events) - k /\ k + i \in 1 .. Len(events) /\ k + i > k
      BY <1>2, <2>2
    <3> QED
      BY <1>1, <1>3, <3>1
  <2> WITNESS k \in Nat
  <2> QED
    BY <2>2, <2>3
<1> QED
  BY <1>3, <1>4

(* An upload drops the d oldest entries of the ring and its own batch, and *)
(* keeps the rest in order.                                                *)
UploadCut(n, d) ==
  /\ events' \in Seq(SeqEvent)
  /\ Len(events) + n = d + Len(events')
  /\ \A i \in 1 .. Len(events') :
       IF d + i <= Len(events)
       THEN events'[i] = events[d + i]
       ELSE events'[i] = [seq |-> nextSeq + (d + i - Len(events)) - 1,
                          ev |-> produced + (d + i - Len(events))]

LEMMA UploadRing ==
  ASSUME SessionType, HistoryType, NEW n \in 1 .. MaxBatch, UploadEvents(n)
  PROVE  \E d \in Nat : UploadCut(n, d)
<1> DEFINE all == events \o Uploaded(n)
<1>1. n \in Nat /\ nextSeq \in Nat /\ Len(events) \in Nat /\ EventBuffer \in Nat
  BY RelayAssumption DEF SessionType
<1>2. events \in Seq(SeqEvent)
  BY DEF SessionType
<1>3. /\ Uploaded(n) \in Seq(SeqEvent)
      /\ Len(Uploaded(n)) = n
      /\ \A i \in 1 .. n :
           Uploaded(n)[i] = [seq |-> nextSeq + i - 1, ev |-> produced + i]
  BY <1>1, UploadedSeq
<1>4. /\ all \in Seq(SeqEvent) /\ Len(all) = Len(events) + n
      /\ \A i \in 1 .. Len(events) : all[i] = events[i]
      /\ \A i \in 1 .. n : all[Len(events) + i] = Uploaded(n)[i]
  <2>1. Uploaded(n) \in Seq(SeqEvent)
    BY <1>3
  <2>2. /\ all \in Seq(SeqEvent) /\ Len(all) = Len(events) + Len(Uploaded(n))
        /\ \A i \in 1 .. Len(events) : all[i] = events[i]
        /\ \A i \in 1 .. Len(Uploaded(n)) : all[Len(events) + i] = Uploaded(n)[i]
    BY <1>2, <2>1, ConcatShape
  <2> QED
    BY <1>3, <2>2
<1>5. events' = LastN(all, EventBuffer)
  BY DEF UploadEvents
<1> HIDE DEF all
<1>6. all \in Seq(SeqEvent) /\ EventBuffer \in Nat
  BY <1>1, <1>4
<1>7. PICK d \in Nat :
         /\ events' \in Seq(SeqEvent)
         /\ Len(all) = d + Len(events')
         /\ \A i \in 1 .. Len(events') : events'[i] = all[d + i]
  BY <1>5, <1>6, LastNSuffix
<1>8. Len(events) + n = d + Len(events') /\ Len(events') \in Nat
  <2>1. Len(all) = Len(events) + n
    BY <1>4
  <2>2. Len(all) = d + Len(events')
    BY <1>7
  <2>3. Len(events') \in Nat
    BY <1>7
  <2> QED
    BY <2>1, <2>2, <2>3
<1>9. ASSUME NEW i \in 1 .. Len(events'), d + i <= Len(events)
      PROVE  events'[i] = events[d + i]
  BY <1>1, <1>4, <1>7, <1>9
<1>10. ASSUME NEW i \in 1 .. Len(events'), d + i > Len(events)
       PROVE  events'[i] = [seq |-> nextSeq + (d + i - Len(events)) - 1,
                            ev |-> produced + (d + i - Len(events))]
  <2>1. /\ d + i - Len(events) \in 1 .. n
        /\ d + i = Len(events) + (d + i - Len(events))
    BY <1>1, <1>8, <1>10
  <2>2. events'[i] = Uploaded(n)[d + i - Len(events)]
    BY <1>4, <1>7, <2>1
  <2> QED
    BY <1>3, <2>1, <2>2
<1>11. UploadCut(n, d)
  BY <1>1, <1>7, <1>8, <1>9, <1>10 DEF UploadCut
<1> QED
  BY <1>11

-----------------------------------------------------------------------------
(* Types, with the numbering of the ring that events_since relies on.      *)

TypedRing == TypeOK /\ Ring

LEMMA InitTypedRing == Init => TypedRing
<1> SUFFICES ASSUME Init PROVE TypedRing
  OBVIOUS
<1>1. SessionType /\ Ring
  <2>1. live \in BOOLEAN
    BY DEF Init
  <2>2. queue \in Seq(Nat)
    BY DEF Init
  <2>3. events \in Seq(SeqEvent) /\ Ring
    BY DEF Init, Ring
  <2>4. epoch \in Nat /\ nextSeq \in Nat \ {0}
    BY DEF Init
  <2> QED
    BY <2>1, <2>2, <2>3, <2>4 DEF SessionType
<1>2. PollType
  <2>1. pollPc \in [Polls -> {"off", "drained", "named", "parked", "again", "reply"}]
    BY DEF Init
  <2>2. pollHandle \in [Polls -> Nat] /\ current \in Polls \cup {NoPoll} /\ gone \in BOOLEAN
    BY DEF Init, NoHandle
  <2>3. batch \in [Polls -> Seq(Nat)]
    BY DEF Init
  <2> QED
    BY <2>1, <2>2, <2>3 DEF PollType
<1>3. StreamType
  BY DEF Init, StreamType, NoHandle
<1>4. HistoryType
  BY DEF Init, HistoryType
<1> QED
  BY <1>1, <1>2, <1>3, <1>4 DEF TypedRing, TypeOK

(* What a step leaves alone keeps its type.                                *)
LEMMA Untouched ==
  ASSUME TypeOK, Ring
  PROVE  /\ UNCHANGED session => SessionType' /\ Ring'
         /\ UNCHANGED polls => PollType'
         /\ UNCHANGED streams => StreamType'
         /\ UNCHANGED history => HistoryType'
         /\ UNCHANGED <<events, nextSeq>> => Ring'
  BY DEF TypeOK, SessionType, PollType, StreamType, HistoryType, Ring,
         session, polls, streams, history

(* Without a record nothing is queued and the numbering starts over.       *)
LEMMA NoRecordTyped ==
  ASSUME SessionType, NoRecord, UNCHANGED epoch
  PROVE  SessionType' /\ Ring'
<1>1. live' \in BOOLEAN
  BY DEF NoRecord
<1>2. queue' \in Seq(Nat)
  BY DEF NoRecord
<1>3. events' \in Seq(SeqEvent) /\ Ring'
  BY DEF NoRecord, Ring
<1>4. epoch' \in Nat /\ nextSeq' \in Nat \ {0}
  BY DEF NoRecord, SessionType
<1> QED
  BY <1>1, <1>2, <1>3, <1>4 DEF SessionType

(* The queue of push_inbound holds messages.                               *)
LEMMA PushInboundTyped ==
  ASSUME SessionType, HistoryType, PushInbound
  PROVE  queue' \in Seq(Nat) /\ accepted' \in Nat /\ lost' \in SUBSET Nat
<1>1. accepted + 1 \in Nat /\ RoomInQueue \in Seq(Nat)
  BY RoomInQueueType DEF HistoryType
<1>2. queue' \in Seq(Nat) /\ accepted' \in Nat
  BY <1>1, AppendProperties DEF PushInbound
<1>3. Elems(queue) \subseteq Nat
  BY ElemsType DEF SessionType
<1>4. lost' \in SUBSET Nat
  BY <1>3 DEF PushInbound, HistoryType
<1> QED
  BY <1>2, <1>4

LEMMA RunnerTypedRing ==
  ASSUME TypeOK, Ring, RunnerStep
  PROVE  TypedRing'
<1> USE DEF TypeOK
<1>1. CASE Register
  BY <1>1, Untouched DEF Register, OrInsert, EntryEpoch, TypedRing, SessionType
<1>2. CASE Deregister
  <2>1. SessionType' /\ Ring'
    <3>1. CASE live
      BY <1>2, <3>1, NoRecordTyped DEF Deregister, DropSession
    <3>2. CASE ~live
      BY <1>2, <3>2, Untouched DEF Deregister, session
    <3> QED
      BY <3>1, <3>2
  <2>2. PollType' /\ StreamType'
    BY <1>2 DEF Deregister, NotifyWaiters, PollType, StreamType
  <2>3. HistoryType'
    BY <1>2, LossType DEF Deregister, DropSession, HistoryType
  <2> QED
    BY <2>1, <2>2, <2>3 DEF TypedRing
<1>3. CASE DeregisterLost
  BY <1>3, Untouched DEF DeregisterLost, TypedRing, PollType
<1>4. CASE RunnerAbandon
  BY <1>4, Untouched DEF RunnerAbandon, TypedRing, PollType
<1>5. ASSUME NEW n \in 1 .. MaxBatch, UploadEvents(n)
      PROVE  TypedRing'
  <2>1. n \in Nat /\ nextSeq \in Nat /\ Len(events) \in Nat
    BY DEF SessionType
  <2>2. PICK d \in Nat : UploadCut(n, d)
    BY <1>5, UploadRing
  <2>3. /\ events' \in Seq(SeqEvent) /\ nextSeq' = nextSeq + n
        /\ Len(events') \in Nat /\ d = Len(events) + n - Len(events')
    BY <1>5, <2>1, <2>2 DEF UploadCut, UploadEvents
  <2>4. Ring'
    <3> SUFFICES ASSUME NEW i \in 1 .. Len(events')
                 PROVE  events'[i].seq = nextSeq' - Len(events') + i - 1
      BY DEF Ring
    <3>1. CASE d + i <= Len(events)
      <4>1. d + i \in 1 .. Len(events)
        BY <2>1, <2>3, <3>1
      <4>2. events'[i] = events[d + i]
        BY <2>2, <3>1 DEF UploadCut
      <4>3. events'[i].seq = nextSeq - Len(events) + (d + i) - 1
        BY <4>1, <4>2 DEF Ring
      <4> QED
        BY <2>1, <2>3, <4>3
    <3>2. CASE d + i > Len(events)
      <4>1. ~ (d + i <= Len(events))
        BY <2>1, <3>2
      <4>2. events'[i] = [seq |-> nextSeq + (d + i - Len(events)) - 1,
                          ev |-> produced + (d + i - Len(events))]
        BY <2>2, <4>1 DEF UploadCut
      <4>3. events'[i].seq = nextSeq + (d + i - Len(events)) - 1
        BY <4>2
      <4> QED
        BY <2>1, <2>3, <4>3
    <3> QED
      BY <2>1, <2>3, <3>1, <3>2
  <2>5. SessionType'
    BY <1>5, <2>1, <2>3 DEF UploadEvents, OrInsert, EntryEpoch, SessionType
  <2>6. PollType' /\ StreamType'
    BY <1>5 DEF UploadEvents, NotifyWaiters, PollType, StreamType
  <2>7. HistoryType'
    BY <1>5, <2>1 DEF UploadEvents, HistoryType
  <2> QED
    BY <2>4, <2>5, <2>6, <2>7 DEF TypedRing
<1>6. ASSUME NEW n \in 1 .. MaxBatch, UploadLost(n)
      PROVE  TypedRing'
  BY <1>6, Untouched DEF UploadLost, TypedRing, HistoryType
<1> QED
  BY <1>1, <1>2, <1>3, <1>4, <1>5, <1>6 DEF RunnerStep

LEMMA PollTypedRing ==
  ASSUME TypeOK, Ring, NEW p \in Polls, PollStep(p)
  PROVE  TypedRing'
<1> USE DEF TypeOK
<1>1. CASE RunnerPoll(p)
  BY <1>1, Untouched
     DEF RunnerPoll, OrInsert, EntryEpoch, TypedRing, SessionType, PollType
<1>2. CASE PollNotifier(p)
  BY <1>2, Untouched DEF PollNotifier, NoHandle, TypedRing, SessionType, PollType
<1>3. CASE PollArm(p)
  BY <1>3, Untouched DEF PollArm, TypedRing, PollType
<1>4. CASE PollHold(p)
  BY <1>4, Untouched DEF PollHold, TypedRing, PollType
<1>5. CASE PollAgain(p)
  BY <1>5, Untouched
     DEF PollAgain, OrInsert, EntryEpoch, TypedRing, SessionType, PollType
<1>6. CASE PollReply(p)
  <2>1. batch[p] \in Seq(Nat) /\ received \in Seq(Nat)
    BY DEF PollType, HistoryType
  <2>2. received \o batch[p] \in Seq(Nat)
    BY <2>1, ConcatShape
  <2>3. PollType'
    BY <1>6 DEF PollReply, PollType
  <2>4. HistoryType'
    BY <1>6, <2>2 DEF PollReply, HistoryType
  <2> QED
    BY <1>6, <2>3, <2>4, Untouched DEF PollReply, TypedRing
<1>7. CASE PollDropped(p)
  <2>1. PollType'
    BY <1>7 DEF PollDropped, PollType
  <2>2. HistoryType'
    BY <1>7, LossType DEF PollDropped, HistoryType
  <2> QED
    BY <1>7, <2>1, <2>2, Untouched DEF PollDropped, TypedRing
<1> QED
  BY <1>1, <1>2, <1>3, <1>4, <1>5, <1>6, <1>7 DEF PollStep

LEMMA StreamTypedRing ==
  ASSUME TypeOK, Ring, NEW c \in Streams, StreamStep(c)
  PROVE  TypedRing'
<1> USE DEF TypeOK
<1>1. CASE StreamOpen(c)
  <2>1. StreamType'
    BY <1>1 DEF StreamOpen, StreamType, SessionType
  <2>2. got' \in [Streams -> Seq(Nat)]
    BY <1>1 DEF StreamOpen, HistoryType
  <2>3. HistoryType'
    BY <1>1, <2>2 DEF StreamOpen, HistoryType
  <2> QED
    BY <1>1, <2>1, <2>3, Untouched DEF StreamOpen, TypedRing
<1>2. CASE StreamResume(c)
  BY <1>2, Untouched DEF StreamResume, TypedRing, StreamType
<1>3. CASE StreamAttach(c)
  <2>1. SessionType' /\ Ring'
    <3>1. CASE live
      BY <1>3, <3>1, PushInboundTyped, Untouched DEF StreamAttach, SessionType
    <3>2. CASE ~live
      BY <1>3, <3>2, Untouched DEF StreamAttach, session
    <3> QED
      BY <3>1, <3>2
  <2>2. PollType' /\ StreamType'
    BY <1>3 DEF StreamAttach, PollType, StreamType
  <2>3. HistoryType'
    BY <1>3, PushInboundTyped DEF StreamAttach, HistoryType
  <2> QED
    BY <2>1, <2>2, <2>3 DEF TypedRing
<1>4. CASE StreamEmit(c)
  <2>1. pending[c] \in Seq(SeqEvent) /\ pending[c] # <<>>
    BY <1>4 DEF StreamEmit, StreamType
  <2>2. Head(pending[c]) \in SeqEvent /\ Tail(pending[c]) \in Seq(SeqEvent)
    BY <2>1
  <2>3. Head(pending[c]).seq \in Nat /\ Head(pending[c]).ev \in Nat
    BY <2>2 DEF SeqEvent
  <2>4. got[c] \in Seq(Nat)
    BY DEF HistoryType
  <2>5. Append(got[c], Head(pending[c]).ev) \in Seq(Nat)
    BY <2>3, <2>4
  <2>6. StreamType'
    BY <1>4, <2>2, <2>3 DEF StreamEmit, StreamType
  <2>7. HistoryType'
    BY <1>4, <2>5 DEF StreamEmit, HistoryType
  <2> QED
    BY <1>4, <2>6, <2>7, Untouched DEF StreamEmit, TypedRing
<1>5. CASE StreamNotifier(c)
  BY <1>5, Untouched
     DEF StreamNotifier, NoHandle, TypedRing, StreamType, SessionType
<1>6. CASE StreamRead(c)
  <2>1. cursor[c] \in Nat
    BY DEF StreamType
  <2>2. EventsSince(cursor[c]) \in Seq(SeqEvent)
    BY <2>1, SinceSuffix
  <2> QED
    BY <1>6, <2>2, Untouched DEF StreamRead, TypedRing, StreamType
<1>7. CASE StreamNothingNew(c)
  BY <1>7, Untouched DEF StreamNothingNew, TypedRing, StreamType
<1>8. CASE StreamEnd(c)
  BY <1>8, Untouched DEF StreamEnd, TypedRing, StreamType
<1>9. CASE StreamArm(c)
  BY <1>9, Untouched DEF StreamArm, TypedRing, StreamType
<1>10. CASE StreamTick(c)
  BY <1>10, Untouched DEF StreamTick, TypedRing, StreamType
<1>11. CASE StreamDrop(c)
  BY <1>11, Untouched DEF StreamDrop, TypedRing, StreamType
<1> QED
  BY <1>1, <1>2, <1>3, <1>4, <1>5, <1>6, <1>7, <1>8, <1>9, <1>10, <1>11
     DEF StreamStep

LEMMA NextTypedRing == TypedRing /\ [Next]_vars => TypedRing'
<1> SUFFICES ASSUME TypeOK, Ring, [Next]_vars PROVE TypedRing'
  BY DEF TypedRing
<1> USE DEF TypeOK
<1>1. CASE RunnerStep
  BY <1>1, RunnerTypedRing
<1>2. CASE ClientPost
  <2>1. SessionType' /\ Ring'
    BY <1>2, PushInboundTyped, Untouched DEF ClientPost, SessionType
  <2>2. PollType' /\ StreamType'
    BY <1>2 DEF ClientPost, NotifyWaiters, PollType, StreamType
  <2>3. HistoryType'
    BY <1>2, PushInboundTyped DEF ClientPost, HistoryType
  <2> QED
    BY <2>1, <2>2, <2>3 DEF TypedRing
<1>3. CASE Sweep
  <2>1. SessionType' /\ Ring'
    BY <1>3, NoRecordTyped DEF Sweep, DropSession
  <2>2. PollType' /\ StreamType'
    BY <1>3 DEF Sweep, NotifyWaiters, PollType, StreamType
  <2>3. HistoryType'
    BY <1>3, LossType DEF Sweep, DropSession, HistoryType
  <2> QED
    BY <2>1, <2>2, <2>3 DEF TypedRing
<1>4. CASE Restart
  <2>1. SessionType' /\ Ring'
    BY <1>4, NoRecordTyped DEF Restart
  <2>2. PollType' /\ StreamType'
    BY <1>4 DEF Restart, PollType, StreamType
  <2>3. HistoryType'
    <3>1. Elems(queue) \subseteq Nat /\ UNION {Elems(batch[p]) : p \in Polls} \subseteq Nat
      BY LossType
    <3>2. lost' = (lost \cup Elems(queue)) \cup UNION {Elems(batch[p]) : p \in Polls}
      BY <1>4 DEF Restart
    <3>3. lost' \in SUBSET Nat
      BY <3>1, <3>2 DEF HistoryType
    <3> QED
      BY <1>4, <3>3 DEF Restart, HistoryType
  <2> QED
    BY <2>1, <2>2, <2>3 DEF TypedRing
<1>5. CASE \E p \in Polls : PollStep(p)
  BY <1>5, PollTypedRing
<1>6. CASE \E c \in Streams : StreamStep(c)
  BY <1>6, StreamTypedRing
<1>7. CASE UNCHANGED vars
  BY <1>7, Untouched DEF TypedRing, vars
<1> QED
  BY <1>1, <1>2, <1>3, <1>4, <1>5, <1>6, <1>7 DEF Next

LEMMA TypedRingInvariant == Spec => []TypedRing
  BY InitTypedRing, NextTypedRing, PTL DEF Spec

(* The relay keeps its types whatever its handlers do: TypeOK, for any     *)
(* limits and any number of polls and streams.                             *)
THEOREM TypeCorrect == Spec => []TypeOK
<1>1. TypedRing => TypeOK
  BY DEF TypedRing
<1> QED
  BY <1>1, TypedRingInvariant, PTL

-----------------------------------------------------------------------------
(* Messages, in order from push_inbound to the runner.                     *)

Ascending(s) == \A i, j \in 1 .. Len(s) : i < j => s[i] < s[j]

Within(s, n) == \A i \in 1 .. Len(s) : s[i] \in 1 .. n

Below(s, t) == \A i \in 1 .. Len(s), j \in 1 .. Len(t) : s[i] < t[j]

Numbered(s, n) == Ascending(s) /\ Within(s, n)

(* What the runner has got comes before the response it waits for, and     *)
(* both come before the queue.  A response nobody waits for is only        *)
(* dropped, so nothing is said of where it stands.                         *)
MessageOrder ==
  /\ Numbered(queue, accepted)
  /\ Numbered(received, accepted)
  /\ Below(received, queue)
  /\ \A p \in Polls : Numbered(batch[p], accepted)
  /\ \A p \in Polls : current = p => /\ Below(received, batch[p])
                                     /\ Below(batch[p], queue)

LEMMA EmptyNumbered ==
  ASSUME NEW n \in Nat, NEW s \in Seq(Nat)
  PROVE  Numbered(<<>>, n) /\ Below(s, <<>>) /\ Below(<<>>, s)
  BY DEF Numbered, Ascending, Within, Below

(* Appending what comes later keeps the order.                             *)
LEMMA ConcatNumbered ==
  ASSUME NEW n \in Nat, NEW s \in Seq(Nat), NEW t \in Seq(Nat),
         Numbered(s, n), Numbered(t, n), Below(s, t)
  PROVE  Numbered(s \o t, n)
<1> DEFINE u == s \o t
<1>1. /\ u \in Seq(Nat) /\ Len(u) = Len(s) + Len(t)
      /\ Len(s) \in Nat /\ Len(t) \in Nat
      /\ \A i \in 1 .. Len(s) : u[i] = s[i]
      /\ \A i \in 1 .. Len(t) : u[Len(s) + i] = t[i]
  BY ConcatShape
<1> HIDE DEF u
<1>2. \A i \in 1 .. Len(u) : i > Len(s) =>
        i - Len(s) \in 1 .. Len(t) /\ u[i] = t[i - Len(s)]
  <2> SUFFICES ASSUME NEW i \in 1 .. Len(u), i > Len(s)
               PROVE  i - Len(s) \in 1 .. Len(t) /\ u[i] = t[i - Len(s)]
    OBVIOUS
  <2>1. i - Len(s) \in 1 .. Len(t) /\ i = Len(s) + (i - Len(s))
    BY <1>1
  <2> QED
    BY <1>1, <2>1
<1>3. \A i \in 1 .. Len(u) : i <= Len(s) => i \in 1 .. Len(s) /\ u[i] = s[i]
  BY <1>1
<1>4. Within(u, n)
  <2> SUFFICES ASSUME NEW i \in 1 .. Len(u) PROVE u[i] \in 1 .. n
    BY DEF Within
  <2>1. CASE i <= Len(s)
    BY <1>3, <2>1 DEF Numbered, Within
  <2>2. CASE i > Len(s)
    BY <1>2, <2>2 DEF Numbered, Within
  <2> QED
    BY <1>1, <2>1, <2>2
<1>5. Ascending(u)
  <2> SUFFICES ASSUME NEW i \in 1 .. Len(u), NEW j \in 1 .. Len(u), i < j
               PROVE  u[i] < u[j]
    BY DEF Ascending
  <2>1. CASE j <= Len(s)
    <3>1. i <= Len(s)
      BY <1>1, <2>1
    <3> QED
      BY <1>3, <2>1, <3>1 DEF Numbered, Ascending
  <2>2. CASE i <= Len(s) /\ j > Len(s)
    <3>1. i \in 1 .. Len(s) /\ u[i] = s[i]
      BY <1>3, <2>2
    <3>2. j - Len(s) \in 1 .. Len(t) /\ u[j] = t[j - Len(s)]
      BY <1>2, <2>2
    <3> QED
      BY <3>1, <3>2 DEF Below
  <2>3. CASE i > Len(s)
    <3>1. i - Len(s) < j - Len(s) /\ j > Len(s)
      BY <1>1, <2>3
    <3> QED
      BY <1>2, <2>3, <3>1 DEF Numbered, Ascending
  <2> QED
    BY <1>1, <2>1, <2>2, <2>3
<1> QED
  BY <1>4, <1>5 DEF Numbered, u

LEMMA ConcatBelow ==
  ASSUME NEW s \in Seq(Nat), NEW t \in Seq(Nat), NEW u \in Seq(Nat),
         Below(s, u), Below(t, u)
  PROVE  Below(s \o t, u)
<1> DEFINE w == s \o t
<1>1. /\ Len(w) = Len(s) + Len(t) /\ Len(s) \in Nat /\ Len(t) \in Nat
      /\ \A i \in 1 .. Len(s) : w[i] = s[i]
      /\ \A i \in 1 .. Len(t) : w[Len(s) + i] = t[i]
  BY ConcatShape
<1> HIDE DEF w
<1>2. ASSUME NEW i \in 1 .. Len(w), NEW j \in 1 .. Len(u)
      PROVE  w[i] < u[j]
  <2>1. CASE i <= Len(s)
    <3>1. i \in 1 .. Len(s) /\ w[i] = s[i]
      BY <1>1, <2>1
    <3> QED
      BY <3>1 DEF Below
  <2>2. CASE i > Len(s)
    <3>1. i - Len(s) \in 1 .. Len(t) /\ i = Len(s) + (i - Len(s))
      BY <1>1, <2>2
    <3>2. w[i] = t[i - Len(s)]
      BY <1>1, <3>1
    <3> QED
      BY <3>1, <3>2 DEF Below
  <2> QED
    BY <1>1, <2>1, <2>2
<1>3. Below(w, u)
  BY <1>2 DEF Below
<1> QED
  BY <1>3 DEF w

(* A message that push_inbound accepts is newer than all before it.        *)
LEMMA PushInboundOrder ==
  ASSUME TypeOK, MessageOrder, PushInbound,
         UNCHANGED <<received, batch, current>>
  PROVE  MessageOrder'
<1> USE DEF TypeOK
<1> DEFINE q == RoomInQueue
<1>1. /\ queue \in Seq(Nat) /\ q \in Seq(Nat) /\ accepted \in Nat
      /\ received \in Seq(Nat)
  BY RoomInQueueType DEF SessionType, HistoryType
<1>2. \E d \in {0, 1} : /\ Len(queue) = Len(q) + d
                        /\ \A i \in 1 .. Len(q) : q[i] = queue[i + d]
  <2>1. CASE Len(queue) >= InboundQueue
    <3>1. queue # <<>>
      BY <1>1, <2>1, RelayAssumption
    <3>2. Len(queue) = Len(q) + 1 /\ \A i \in 1 .. Len(q) : q[i] = queue[i + 1]
      BY <1>1, <2>1, <3>1, HeadTailProperties DEF RoomInQueue
    <3> QED
      BY <3>2
  <2>2. CASE ~ (Len(queue) >= InboundQueue)
    BY <1>1, <2>2 DEF RoomInQueue
  <2> QED
    BY <2>1, <2>2
<1>3. /\ queue' \in Seq(Nat) /\ Len(queue') = Len(q) + 1 /\ Len(q) \in Nat
      /\ \A i \in 1 .. Len(q) : queue'[i] = q[i]
      /\ queue'[Len(q) + 1] = accepted + 1
      /\ accepted' = accepted + 1
  BY <1>1, AppendProperties DEF PushInbound
<1> HIDE DEF q
<1>4. ASSUME NEW i \in 1 .. Len(queue'), i # Len(queue')
      PROVE  /\ i \in 1 .. Len(q) /\ queue'[i] = q[i]
             /\ \E k \in 1 .. Len(queue) : queue'[i] = queue[k]
  <2>1. i \in 1 .. Len(q) /\ queue'[i] = q[i]
    BY <1>3, <1>4
  <2>2. PICK d \in {0, 1} : /\ Len(queue) = Len(q) + d
                            /\ \A k \in 1 .. Len(q) : q[k] = queue[k + d]
    BY <1>2
  <2>3. i + d \in 1 .. Len(queue)
    BY <1>3, <2>1, <2>2
  <2>4. queue'[i] = queue[i + d]
    BY <2>1, <2>2
  <2> QED
    BY <2>1, <2>3, <2>4
<1>5. Numbered(queue', accepted')
  <2>1. Within(queue', accepted')
    <3> SUFFICES ASSUME NEW i \in 1 .. Len(queue') PROVE queue'[i] \in 1 .. accepted'
      BY DEF Within
    <3>1. CASE i = Len(queue')
      BY <1>1, <1>3, <3>1
    <3>2. CASE i # Len(queue')
      <4>1. PICK k \in 1 .. Len(queue) : queue'[i] = queue[k]
        BY <1>4, <3>2
      <4>2. queue[k] \in 1 .. accepted
        BY DEF MessageOrder, Numbered, Within
      <4> QED
        BY <1>1, <1>3, <4>1, <4>2
    <3> QED
      BY <3>1, <3>2
  <2>2. Ascending(queue')
    <3> SUFFICES ASSUME NEW i \in 1 .. Len(queue'), NEW j \in 1 .. Len(queue'), i < j
                 PROVE  queue'[i] < queue'[j]
      BY DEF Ascending
    <3>1. CASE j = Len(queue')
      <4>1. i # Len(queue') /\ queue'[j] = accepted + 1
        BY <1>3, <3>1
      <4>2. PICK k \in 1 .. Len(queue) : queue'[i] = queue[k]
        BY <1>4, <4>1
      <4>3. queue[k] \in 1 .. accepted
        BY DEF MessageOrder, Numbered, Within
      <4> QED
        BY <1>1, <4>1, <4>2, <4>3
    <3>2. CASE j # Len(queue')
      <4>1. i # Len(queue')
        BY <1>3, <3>2
      <4>2. /\ i \in 1 .. Len(q) /\ queue'[i] = q[i]
            /\ j \in 1 .. Len(q) /\ queue'[j] = q[j]
        BY <1>4, <3>2, <4>1
      <4>3. PICK d \in {0, 1} : /\ Len(queue) = Len(q) + d
                                /\ \A k \in 1 .. Len(q) : q[k] = queue[k + d]
        BY <1>2
      <4>4. i + d \in 1 .. Len(queue) /\ j + d \in 1 .. Len(queue) /\ i + d < j + d
        BY <1>3, <4>2, <4>3
      <4>5. queue'[i] = queue[i + d] /\ queue'[j] = queue[j + d]
        BY <4>2, <4>3
      <4> QED
        BY <4>4, <4>5 DEF MessageOrder, Numbered, Ascending
    <3> QED
      BY <3>1, <3>2
  <2> QED
    BY <2>1, <2>2 DEF Numbered
<1>6. ASSUME NEW s \in Seq(Nat), Within(s, accepted), Below(s, queue)
      PROVE  Below(s, queue')
  <2> SUFFICES ASSUME NEW i \in 1 .. Len(s), NEW j \in 1 .. Len(queue')
               PROVE  s[i] < queue'[j]
    BY DEF Below
  <2>1. CASE j = Len(queue')
    <3>1. s[i] \in 1 .. accepted
      BY <1>6 DEF Within
    <3> QED
      BY <1>1, <1>3, <2>1, <3>1
  <2>2. CASE j # Len(queue')
    <3>1. PICK k \in 1 .. Len(queue) : queue'[j] = queue[k]
      BY <1>4, <2>2
    <3> QED
      BY <1>6, <3>1 DEF Below
  <2> QED
    BY <2>1, <2>2
<1>7. ASSUME NEW s \in Seq(Nat), Numbered(s, accepted)
      PROVE  Numbered(s, accepted')
  BY <1>1, <1>3, <1>7 DEF Numbered, Within
<1>8. Below(received, queue') /\ Numbered(received, accepted')
  BY <1>1, <1>6, <1>7 DEF MessageOrder, Numbered
<1>9. ASSUME NEW p \in Polls
      PROVE  /\ Numbered(batch[p], accepted')
             /\ current = p => Below(received, batch[p]) /\ Below(batch[p], queue')
  <2>1. batch[p] \in Seq(Nat)
    BY DEF PollType
  <2> QED
    BY <1>6, <1>7, <2>1 DEF MessageOrder, Numbered
<1> QED
  BY <1>5, <1>8, <1>9 DEF MessageOrder

LEMMA InitMessageOrder == Init => MessageOrder
<1> SUFFICES ASSUME Init PROVE MessageOrder
  OBVIOUS
<1>1. /\ queue = <<>> /\ received = <<>> /\ accepted = 0
      /\ \A p \in Polls : batch[p] = <<>>
      /\ \A p \in Polls : current # p
  BY RelayAssumption DEF Init
<1>2. Numbered(<<>>, 0) /\ Below(<<>>, <<>>)
  BY DEF Numbered, Ascending, Within, Below
<1> QED
  BY <1>1, <1>2 DEF MessageOrder

(* The steps that lose the queue, and with it perhaps the responses.       *)
LEMMA EmptiedOrder ==
  ASSUME TypeOK, MessageOrder, queue' = <<>>, UNCHANGED <<accepted, received>>,
         \/ UNCHANGED <<batch, current>>
         \/ batch' = [p \in Polls |-> <<>>] /\ current' = NoPoll
  PROVE  MessageOrder'
<1>1. /\ accepted \in Nat /\ received \in Seq(Nat)
      /\ \A p \in Polls : batch[p] \in Seq(Nat)
  BY DEF TypeOK, HistoryType, PollType
<1>2. Numbered(queue', accepted') /\ Below(received', queue')
  BY <1>1, EmptyNumbered
<1>3. ASSUME NEW p \in Polls
      PROVE  /\ Numbered(batch'[p], accepted')
             /\ current' = p => Below(received', batch'[p]) /\ Below(batch'[p], queue')
  <2>1. CASE UNCHANGED <<batch, current>>
    <3>1. Below(batch[p], <<>>)
      BY <1>1, EmptyNumbered
    <3> QED
      BY <2>1, <3>1 DEF MessageOrder
  <2>2. CASE batch' = [r \in Polls |-> <<>>] /\ current' = NoPoll
    BY <1>1, <2>2, EmptyNumbered, RelayAssumption
  <2> QED
    BY <2>1, <2>2
<1> QED
  BY <1>2, <1>3 DEF MessageOrder

(* A drain moves the queue into the response of p.                         *)
LEMMA DrainOrder ==
  ASSUME TypeOK, MessageOrder, NEW p \in Polls,
         queue' = <<>>, batch' = [batch EXCEPT ![p] = queue],
         current' \in {current, p}, UNCHANGED <<accepted, received>>
  PROVE  MessageOrder'
<1>1. /\ accepted \in Nat /\ received \in Seq(Nat) /\ queue \in Seq(Nat)
      /\ batch \in [Polls -> Seq(Nat)]
  BY DEF TypeOK, HistoryType, PollType, SessionType
<1>2. Numbered(queue', accepted') /\ Below(received', queue')
  BY <1>1, EmptyNumbered
<1>3. ASSUME NEW r \in Polls
      PROVE  /\ Numbered(batch'[r], accepted')
             /\ current' = r => Below(received', batch'[r]) /\ Below(batch'[r], queue')
  <2>1. CASE r = p
    <3>1. batch'[r] = queue
      BY <1>1, <2>1
    <3>2. Below(queue, <<>>)
      BY <1>1, EmptyNumbered
    <3> QED
      BY <3>1, <3>2 DEF MessageOrder
  <2>2. CASE r # p
    <3>1. batch'[r] = batch[r] /\ batch[r] \in Seq(Nat)
      BY <1>1, <2>2
    <3>2. Below(batch[r], <<>>)
      BY <3>1, EmptyNumbered
    <3> QED
      BY <2>2, <3>1, <3>2 DEF MessageOrder
  <2> QED
    BY <2>1, <2>2
<1> QED
  BY <1>2, <1>3 DEF MessageOrder

LEMMA PollMessageOrder ==
  ASSUME TypeOK, MessageOrder, NEW p \in Polls, PollStep(p)
  PROVE  MessageOrder'
<1> USE DEF TypeOK
<1>1. CASE RunnerPoll(p)
  BY <1>1, DrainOrder DEF RunnerPoll, history
<1>2. CASE PollNotifier(p) \/ PollArm(p) \/ PollHold(p)
  BY <1>2 DEF PollNotifier, PollArm, PollHold, session, history, MessageOrder
<1>3. CASE PollAgain(p)
  BY <1>3, DrainOrder DEF PollAgain, history
<1>4. CASE PollReply(p)
  <2>1. /\ accepted \in Nat /\ received \in Seq(Nat) /\ batch[p] \in Seq(Nat)
        /\ queue \in Seq(Nat) /\ batch \in [Polls -> Seq(Nat)]
    BY DEF HistoryType, PollType, SessionType
  <2>2. /\ current = p /\ received' = received \o batch[p]
        /\ batch' = [batch EXCEPT ![p] = <<>>] /\ current' = NoPoll
        /\ UNCHANGED <<accepted, queue>>
    BY <1>4 DEF PollReply, session
  <2>3. Numbered(received', accepted')
    BY <2>1, <2>2, ConcatNumbered DEF MessageOrder
  <2>4. Below(received', queue')
    BY <2>1, <2>2, ConcatBelow DEF MessageOrder
  <2>5. \A r \in Polls : Numbered(batch'[r], accepted') /\ current' # r
    BY <2>1, <2>2, EmptyNumbered, RelayAssumption DEF MessageOrder
  <2> QED
    BY <2>2, <2>3, <2>4, <2>5 DEF MessageOrder
<1>5. CASE PollDropped(p)
  <2>1. /\ current # p /\ batch' = [batch EXCEPT ![p] = <<>>]
        /\ UNCHANGED <<accepted, queue, received, current>>
    BY <1>5 DEF PollDropped, session
  <2>2. accepted \in Nat /\ batch \in [Polls -> Seq(Nat)]
    BY DEF HistoryType, PollType
  <2>3. \A r \in Polls : Numbered(batch'[r], accepted)
    BY <2>1, <2>2, EmptyNumbered DEF MessageOrder
  <2>4. \A r \in Polls : r # p => batch'[r] = batch[r]
    BY <2>1, <2>2
  <2> QED
    BY <2>1, <2>3, <2>4 DEF MessageOrder
<1> QED
  BY <1>1, <1>2, <1>3, <1>4, <1>5 DEF PollStep

LEMMA NextMessageOrder == TypeOK /\ MessageOrder /\ [Next]_vars => MessageOrder'
<1> SUFFICES ASSUME TypeOK, MessageOrder, [Next]_vars PROVE MessageOrder'
  OBVIOUS
<1>1. CASE Register \/ DeregisterLost
  BY <1>1 DEF Register, DeregisterLost, session, polls, history, MessageOrder
<1>2. CASE Deregister
  <2>1. CASE live
    BY <1>2, <2>1, EmptiedOrder DEF Deregister, DropSession, NoRecord
  <2>2. CASE ~live
    BY <1>2, <2>2 DEF Deregister, MessageOrder
  <2> QED
    BY <2>1, <2>2
<1>3. CASE RunnerAbandon
  BY <1>3, RelayAssumption DEF RunnerAbandon, session, history, MessageOrder
<1>4. ASSUME NEW n \in 1 .. MaxBatch, UploadEvents(n) \/ UploadLost(n)
      PROVE  MessageOrder'
  BY <1>4 DEF UploadEvents, UploadLost, session, polls, MessageOrder
<1>5. CASE ClientPost
  BY <1>5, PushInboundOrder DEF ClientPost
<1>6. CASE Sweep
  BY <1>6, EmptiedOrder DEF Sweep, DropSession, NoRecord
<1>7. CASE Restart
  BY <1>7, EmptiedOrder DEF Restart, NoRecord
<1>8. CASE \E p \in Polls : PollStep(p)
  BY <1>8, PollMessageOrder
<1>9. ASSUME NEW c \in Streams, StreamStep(c) PROVE MessageOrder'
  <2>1. CASE StreamAttach(c)
    <3>1. CASE live
      BY <2>1, <3>1, PushInboundOrder DEF StreamAttach
    <3>2. CASE ~live
      BY <2>1, <3>2 DEF StreamAttach, MessageOrder
    <3> QED
      BY <3>1, <3>2
  <2>2. CASE ~StreamAttach(c)
    BY <1>9, <2>2
       DEF StreamStep, StreamOpen, StreamResume, StreamEmit, StreamNotifier,
           StreamRead, StreamNothingNew, StreamEnd, StreamArm, StreamTick,
           StreamDrop, session, polls, history, MessageOrder
  <2> QED
    BY <2>1, <2>2
<1>10. CASE UNCHANGED vars
  BY <1>10 DEF vars, session, polls, history, MessageOrder
<1> QED
  BY <1>1, <1>2, <1>3, <1>4, <1>5, <1>6, <1>7, <1>8, <1>9, <1>10
     DEF Next, RunnerStep

(* Each step of the relay sends, delivers, or does nothing to the feed.    *)
LEMMA MessageFeedStep ==
  ASSUME TypeOK, MessageOrder, MessageOrder', [Next]_vars
  PROVE  [MessageFeed!Next]_<<accepted, [r \in {"runner"} |-> received]>>
<1> USE DEF TypeOK
<1>1. ASSUME PushInbound, UNCHANGED received
      PROVE  MessageFeed!Next
  BY <1>1 DEF PushInbound, HistoryType, MessageFeed!Next, MessageFeed!Send
<1>2. ASSUME NEW p \in Polls, PollReply(p)
      PROVE  MessageFeed!Next
  <2> DEFINE seen == [r \in {"runner"} |-> received]
  <2>1. /\ received' = received \o batch[p] /\ accepted' = accepted
        /\ received \in Seq(Nat) /\ batch[p] \in Seq(Nat)
    BY <1>2 DEF PollReply, HistoryType, PollType
  <2>2. MessageFeed!Extends(received, received')
    BY <2>1, ConcatShape DEF MessageFeed!Extends
  <2>3. MessageFeed!InOrder(received')
    BY DEF MessageOrder, Numbered, Ascending, MessageFeed!InOrder
  <2>4. \A i \in 1 .. Len(received') : received'[i] \in 1 .. accepted
    BY <2>1 DEF MessageOrder, Numbered, Within
  <2>5. MessageFeed!Deliver("runner")
    BY <2>1, <2>2, <2>3, <2>4 DEF MessageFeed!Deliver, MessageFeed!AllSent
  <2> QED
    BY <2>5 DEF MessageFeed!Next
<1>3. ASSUME UNCHANGED <<accepted, received>>
      PROVE  UNCHANGED <<accepted, [r \in {"runner"} |-> received]>>
  BY <1>3
<1>4. CASE RunnerStep \/ Sweep \/ Restart
  <2>1. UNCHANGED <<accepted, received>>
    BY <1>4 DEF RunnerStep, Register, Deregister, DeregisterLost, RunnerAbandon,
       UploadEvents, UploadLost, Sweep, Restart, history
  <2> QED
    BY <1>3, <2>1
<1>5. CASE ClientPost
  BY <1>1, <1>5 DEF ClientPost
<1>6. ASSUME NEW p \in Polls, PollStep(p), ~PollReply(p)
      PROVE  UNCHANGED <<accepted, received>>
  BY <1>6 DEF PollStep, RunnerPoll, PollNotifier, PollArm, PollHold, PollAgain,
     PollDropped, history
<1>7. ASSUME NEW c \in Streams, StreamStep(c)
      PROVE  \/ PushInbound /\ UNCHANGED received
             \/ UNCHANGED <<accepted, received>>
  BY <1>7 DEF StreamStep, StreamOpen, StreamResume, StreamAttach, StreamEmit,
     StreamNotifier, StreamRead, StreamNothingNew, StreamEnd, StreamArm,
     StreamTick, StreamDrop, history
<1>8. CASE UNCHANGED vars
  BY <1>3, <1>8 DEF vars, history
<1> QED
  BY <1>1, <1>2, <1>3, <1>4, <1>5, <1>6, <1>7, <1>8 DEF Next

(* Messages reach the runner at most once and in the order the relay       *)
(* accepted them: the relay implements an ordered feed.                    *)
THEOREM MessagesStayInOrder == Spec => MessagesInOrder
<1>1. Init => MessageFeed!Init
  BY DEF Init, MessageFeed!Init
<1>2. TypedRing => TypeOK
  BY DEF TypedRing
<1>3. Spec => []MessageOrder
  BY <1>2, TypedRingInvariant, InitMessageOrder, NextMessageOrder, PTL DEF Spec
<1> QED
  BY <1>1, <1>2, <1>3, TypedRingInvariant, MessageFeedStep, PTL
     DEF Spec, MessagesInOrder, MessageFeed!Spec

-----------------------------------------------------------------------------
(* Messages, none of them unaccounted for.                                 *)

(* A response holds messages only while it waits to be sent: the second    *)
(* drain of a poll overwrites a response that is empty.                    *)
Answering == \A p \in Polls : pollPc[p] # "reply" => batch[p] = <<>>

Kept == Answering /\ NoMessageVanishes

LEMMA ElemsEmpty == Elems(<<>>) = {}
  BY DEF Elems

LEMMA ElemsConcat ==
  ASSUME NEW S, NEW s \in Seq(S), NEW t \in Seq(S)
  PROVE  Elems(s \o t) = Elems(s) \cup Elems(t)
<1>1. /\ s \o t \in Seq(S) /\ Len(s \o t) = Len(s) + Len(t)
      /\ \A i \in 1 .. Len(s) : (s \o t)[i] = s[i]
      /\ \A i \in 1 .. Len(t) : (s \o t)[Len(s) + i] = t[i]
  BY ConcatShape
<1>2. /\ Len(s) \in Nat /\ Len(t) \in Nat
      /\ DOMAIN s = 1 .. Len(s) /\ DOMAIN t = 1 .. Len(t)
      /\ DOMAIN (s \o t) = 1 .. Len(s) + Len(t)
  BY <1>1
<1>3. ASSUME NEW x \in Elems(s) PROVE x \in Elems(s \o t)
  <2>1. PICK i \in 1 .. Len(s) : x = s[i]
    BY <1>2 DEF Elems
  <2> QED
    BY <1>1, <1>2, <2>1 DEF Elems
<1>4. ASSUME NEW x \in Elems(t) PROVE x \in Elems(s \o t)
  <2>1. PICK i \in 1 .. Len(t) : x = t[i]
    BY <1>2 DEF Elems
  <2>2. Len(s) + i \in DOMAIN (s \o t) /\ x = (s \o t)[Len(s) + i]
    BY <1>1, <1>2, <2>1
  <2> QED
    BY <2>2 DEF Elems
<1>5. ASSUME NEW x \in Elems(s \o t) PROVE x \in Elems(s) \cup Elems(t)
  <2>1. PICK i \in 1 .. Len(s) + Len(t) : x = (s \o t)[i]
    BY <1>2 DEF Elems
  <2>2. CASE i <= Len(s)
    <3>1. i \in 1 .. Len(s)
      BY <1>2, <2>2
    <3> QED
      BY <1>1, <1>2, <2>1, <3>1 DEF Elems
  <2>3. CASE i > Len(s)
    <3>1. i - Len(s) \in 1 .. Len(t) /\ i = Len(s) + (i - Len(s))
      BY <1>2, <2>3
    <3>2. x = t[i - Len(s)]
      BY <1>1, <2>1, <3>1
    <3> QED
      BY <1>2, <3>1, <3>2 DEF Elems
  <2> QED
    BY <1>2, <2>2, <2>3
<1> QED
  BY <1>3, <1>4, <1>5

LEMMA ElemsAppend ==
  ASSUME NEW S, NEW s \in Seq(S), NEW e \in S
  PROVE  Elems(Append(s, e)) = Elems(s) \cup {e}
<1>1. Append(s, e) = s \o <<e>> /\ <<e>> \in Seq(S)
  OBVIOUS
<1>2. Elems(<<e>>) = {e}
  BY DEF Elems
<1> DEFINE last == <<e>>
<1>3. last \in Seq(S)
  BY <1>1
<1> HIDE DEF last
<1>4. Elems(s \o last) = Elems(s) \cup Elems(last)
  BY <1>3, ElemsConcat
<1> QED
  BY <1>1, <1>2, <1>4 DEF last

\* A message is with the relay or the runner, or is known to be lost.
Known(m) ==
  \/ m \in Elems(queue) \cup Elems(received) \cup lost
  \/ \E p \in Polls : m \in Elems(batch[p])

(* A step that takes no message away from where it is known keeps all.     *)
LEMMA StillKnown ==
  ASSUME NoMessageVanishes, UNCHANGED accepted,
         \A m : Known(m) => Known(m)'
  PROVE  NoMessageVanishes'
  BY DEF NoMessageVanishes, Known

LEMMA SameKnown ==
  ASSUME NoMessageVanishes, UNCHANGED <<accepted, queue, received, lost, batch>>
  PROVE  NoMessageVanishes'
  BY DEF NoMessageVanishes

(* What push_inbound drops for want of room is counted as lost.            *)
LEMMA PushInboundKnown ==
  ASSUME TypeOK, NoMessageVanishes, PushInbound, UNCHANGED <<received, batch>>
  PROVE  NoMessageVanishes'
<1>1. /\ accepted \in Nat /\ accepted' = accepted + 1
      /\ RoomInQueue \in Seq(Nat) /\ accepted + 1 \in Nat
  BY RoomInQueueType DEF TypeOK, HistoryType, PushInbound
<1>2. Elems(queue') = Elems(RoomInQueue) \cup {accepted + 1}
  BY <1>1, ElemsAppend DEF PushInbound
<1>3. lost' = lost \cup (Elems(queue) \ Elems(RoomInQueue))
  BY DEF PushInbound
<1>4. ASSUME NEW m \in 1 .. accepted'
      PROVE  Known(m)'
  <2>1. CASE m = accepted + 1
    BY <1>2, <2>1 DEF Known
  <2>2. CASE m # accepted + 1
    <3>1. m \in 1 .. accepted
      BY <1>1, <2>2
    <3>2. Known(m)
      BY <3>1 DEF NoMessageVanishes, Known
    <3> QED
      BY <1>2, <1>3, <3>2 DEF Known
  <2> QED
    BY <2>1, <2>2
<1> QED
  BY <1>4 DEF NoMessageVanishes, Known

(* A drain finds an empty response and puts the queue there.               *)
LEMMA DrainKnown ==
  ASSUME TypeOK, Answering, NoMessageVanishes, NEW p \in Polls,
         pollPc[p] # "reply", queue' = <<>>,
         batch' = [batch EXCEPT ![p] = queue],
         UNCHANGED <<accepted, received, lost>>
  PROVE  NoMessageVanishes'
<1>1. /\ batch \in [Polls -> Seq(Nat)] /\ batch[p] = <<>>
      /\ batch'[p] = queue /\ \A r \in Polls : r # p => batch'[r] = batch[r]
  BY DEF TypeOK, PollType, Answering
<1>2. ASSUME NEW m, Known(m)
      PROVE  Known(m)'
  <2>1. CASE m \in Elems(queue)
    BY <1>1, <2>1 DEF Known
  <2>2. CASE m \in Elems(received) \cup lost
    BY <2>2 DEF Known
  <2>3. ASSUME NEW r \in Polls, m \in Elems(batch[r])
        PROVE  Known(m)'
    <3>1. r # p
      BY <1>1, <2>3, ElemsEmpty
    <3> QED
      BY <1>1, <2>3, <3>1 DEF Known
  <2> QED
    BY <1>2, <2>1, <2>2, <2>3 DEF Known
<1> QED
  BY <1>2, StillKnown

(* Whatever a response holds when it goes is received or lost.             *)
LEMMA SentKnown ==
  ASSUME TypeOK, NoMessageVanishes, NEW p \in Polls, PollReply(p) \/ PollDropped(p)
  PROVE  NoMessageVanishes'
<1>1. /\ batch \in [Polls -> Seq(Nat)] /\ received \in Seq(Nat)
      /\ batch[p] \in Seq(Nat)
  BY DEF TypeOK, PollType, HistoryType
<1>2. /\ \A r \in Polls : r # p => batch'[r] = batch[r]
      /\ queue' = queue /\ accepted' = accepted
  BY <1>1 DEF PollReply, PollDropped, session
<1>3. /\ Elems(received) \subseteq Elems(received') /\ lost \subseteq lost'
      /\ Elems(batch[p]) \subseteq Elems(received') \cup lost'
  <2>1. CASE PollReply(p)
    <3>1. Elems(received') = Elems(received) \cup Elems(batch[p])
      BY <1>1, <2>1, ElemsConcat DEF PollReply
    <3> QED
      BY <2>1, <3>1 DEF PollReply
  <2>2. CASE PollDropped(p)
    BY <2>2 DEF PollDropped
  <2> QED
    BY <2>1, <2>2
<1>4. ASSUME NEW m, Known(m)
      PROVE  Known(m)'
  <2>1. ASSUME NEW r \in Polls, m \in Elems(batch[r])
        PROVE  Known(m)'
    <3>1. CASE r = p
      BY <1>3, <2>1, <3>1 DEF Known
    <3>2. CASE r # p
      BY <1>2, <2>1, <3>2 DEF Known
    <3> QED
      BY <3>1, <3>2
  <2> QED
    BY <1>2, <1>3, <1>4, <2>1 DEF Known
<1> QED
  BY <1>2, <1>4, StillKnown

LEMMA InitKept == Init => Kept
<1> SUFFICES ASSUME Init PROVE Kept
  OBVIOUS
<1>1. accepted = 0 /\ \A p \in Polls : batch[p] = <<>>
  BY DEF Init
<1> QED
  BY <1>1 DEF Kept, Answering, NoMessageVanishes

LEMMA NextAnswering == TypeOK /\ Answering /\ [Next]_vars => Answering'
<1> SUFFICES ASSUME TypeOK, Answering, [Next]_vars PROVE Answering'
  OBVIOUS
<1>1. batch \in [Polls -> Seq(Nat)] /\ DOMAIN pollPc = Polls
  BY DEF TypeOK, PollType
<1>2. ASSUME UNCHANGED batch,
             \A r \in Polls : pollPc'[r] # "reply" => pollPc[r] # "reply"
      PROVE  Answering'
  BY <1>2 DEF Answering
<1>3. CASE RunnerStep \/ ClientPost \/ Sweep
  BY <1>1, <1>2, <1>3
     DEF RunnerStep, Register, Deregister, DeregisterLost, RunnerAbandon,
         UploadEvents, UploadLost, ClientPost, Sweep, NotifyWaiters, polls
<1>4. CASE Restart
  BY <1>4 DEF Restart, Answering
<1>5. ASSUME NEW p \in Polls, PollStep(p) PROVE Answering'
  <2>1. CASE PollNotifier(p) \/ PollArm(p) \/ PollHold(p)
    BY <1>1, <1>2, <2>1 DEF PollNotifier, PollArm, PollHold
  <2>2. CASE RunnerPoll(p) \/ PollAgain(p) \/ PollReply(p) \/ PollDropped(p)
    <3>1. pollPc'[p] # "reply" => batch'[p] = <<>>
      BY <1>1, <2>2 DEF RunnerPoll, PollAgain, PollReply, PollDropped, TypeOK, PollType
    <3>2. ASSUME NEW r \in Polls, r # p
          PROVE  batch'[r] = batch[r] /\ pollPc'[r] = pollPc[r]
      BY <1>1, <2>2, <3>2 DEF RunnerPoll, PollAgain, PollReply, PollDropped
    <3> QED
      BY <3>1, <3>2 DEF Answering
  <2> QED
    BY <1>5, <2>1, <2>2 DEF PollStep
<1>6. ASSUME NEW c \in Streams, StreamStep(c) PROVE Answering'
  <2>1. CASE StreamAttach(c)
    BY <1>1, <1>2, <2>1 DEF StreamAttach
  <2>2. CASE ~StreamAttach(c)
    BY <1>2, <1>6, <2>2
       DEF StreamStep, StreamOpen, StreamResume, StreamEmit, StreamNotifier,
           StreamRead, StreamNothingNew, StreamEnd, StreamArm, StreamTick,
           StreamDrop, polls
  <2> QED
    BY <2>1, <2>2
<1>7. CASE UNCHANGED vars
  BY <1>2, <1>7 DEF vars, polls
<1> QED
  BY <1>3, <1>4, <1>5, <1>6, <1>7 DEF Next

LEMMA NextKept == TypeOK /\ Kept /\ [Next]_vars => Kept'
<1> SUFFICES ASSUME TypeOK, Answering, NoMessageVanishes, [Next]_vars
             PROVE  NoMessageVanishes'
  BY NextAnswering DEF Kept
<1>1. CASE Register \/ DeregisterLost \/ RunnerAbandon
  BY <1>1, SameKnown DEF Register, DeregisterLost, RunnerAbandon, session, polls, history
<1>2. ASSUME DropSession, UNCHANGED <<accepted, received, batch>>
      PROVE  NoMessageVanishes'
  <2>1. \A m : Known(m) => Known(m)'
    BY <1>2 DEF DropSession, Known
  <2> QED
    BY <1>2, <2>1, StillKnown
<1>3. CASE Deregister
  <2>1. CASE live
    BY <1>2, <1>3, <2>1 DEF Deregister
  <2>2. CASE ~live
    BY <1>3, <2>2, SameKnown DEF Deregister
  <2> QED
    BY <2>1, <2>2
<1>4. ASSUME NEW n \in 1 .. MaxBatch, UploadEvents(n) \/ UploadLost(n)
      PROVE  NoMessageVanishes'
  BY <1>4, SameKnown DEF UploadEvents, UploadLost, session, polls
<1>5. CASE ClientPost
  BY <1>5, PushInboundKnown DEF ClientPost
<1>6. CASE Sweep
  BY <1>2, <1>6 DEF Sweep
<1>7. CASE Restart
  <2>1. ASSUME NEW m, Known(m)
        PROVE  Known(m)'
    <3>1. lost' = lost \cup Elems(queue) \cup UNION {Elems(batch[p]) : p \in Polls}
      BY <1>7 DEF Restart
    <3>2. ASSUME NEW p \in Polls, m \in Elems(batch[p])
          PROVE  m \in lost'
      BY <3>1, <3>2
    <3> QED
      BY <1>7, <2>1, <3>1, <3>2 DEF Restart, Known
  <2> QED
    BY <1>7, <2>1, StillKnown DEF Restart
<1>8. ASSUME NEW p \in Polls, PollStep(p) PROVE NoMessageVanishes'
  <2>1. CASE RunnerPoll(p)
    <3>1. pollPc[p] # "reply"
      BY <2>1 DEF RunnerPoll
    <3> QED
      BY <2>1, <3>1, DrainKnown DEF RunnerPoll, history
  <2>2. CASE PollAgain(p)
    <3>1. pollPc[p] # "reply"
      BY <2>2 DEF PollAgain
    <3> QED
      BY <2>2, <3>1, DrainKnown DEF PollAgain, history
  <2>3. CASE PollReply(p) \/ PollDropped(p)
    BY <2>3, SentKnown
  <2>4. CASE PollNotifier(p) \/ PollArm(p) \/ PollHold(p)
    BY <2>4, SameKnown DEF PollNotifier, PollArm, PollHold, session, history
  <2> QED
    BY <1>8, <2>1, <2>2, <2>3, <2>4 DEF PollStep
<1>9. ASSUME NEW c \in Streams, StreamStep(c) PROVE NoMessageVanishes'
  <2>1. CASE StreamAttach(c)
    <3>1. CASE live
      BY <2>1, <3>1, PushInboundKnown DEF StreamAttach
    <3>2. CASE ~live
      BY <2>1, <3>2, SameKnown DEF StreamAttach
    <3> QED
      BY <3>1, <3>2
  <2>2. CASE ~StreamAttach(c)
    BY <1>9, <2>2, SameKnown
       DEF StreamStep, StreamOpen, StreamResume, StreamEmit, StreamNotifier,
           StreamRead, StreamNothingNew, StreamEnd, StreamArm, StreamTick,
           StreamDrop, session, polls, history
  <2> QED
    BY <2>1, <2>2
<1>10. CASE UNCHANGED vars
  BY <1>10, SameKnown DEF vars, session, polls, history
<1> QED
  BY <1>1, <1>3, <1>4, <1>5, <1>6, <1>7, <1>8, <1>9, <1>10 DEF Next, RunnerStep

(* No message that push_inbound accepted vanishes without a trace: it is   *)
(* queued, in a response, with the runner, or dropped by one of the ways   *)
(* that drop, for any number of polls and any limit of the queue.          *)
THEOREM MessagesAccountedFor == Spec => []NoMessageVanishes
<1>1. TypedRing => TypeOK
  BY DEF TypedRing
<1>2. Spec => []Kept
  BY <1>1, TypedRingInvariant, InitKept, NextKept, PTL DEF Spec
<1>3. Kept => NoMessageVanishes
  BY DEF Kept
<1> QED
  BY <1>2, <1>3, PTL

-----------------------------------------------------------------------------
(* Events, in order from the runner to each page.                          *)

\* The order of the numbers is the order of the events.
Follows(x, y) == x.seq > y.seq => x.ev > y.ev

RingOrder ==
  \A i \in 1 .. Len(events) :
    /\ events[i].ev \in 1 .. produced
    /\ \A j \in 1 .. Len(events) : Follows(events[i], events[j])

\* Event e comes after all that page c has got.
NewTo(c, e) == \A k \in 1 .. Len(got[c]) : got[c][k] < e

\* What a stream still has to send is above its cursor, new and in order.
PendingOrder(c) ==
  \A j \in 1 .. Len(pending[c]) :
    /\ pending[c][j].ev \in 1 .. produced
    /\ pending[c][j].seq > cursor[c]
    /\ NewTo(c, pending[c][j].ev)
    /\ \A i \in 1 .. Len(pending[c]) :
         i < j => /\ pending[c][i].seq < pending[c][j].seq
                  /\ pending[c][i].ev < pending[c][j].ev

\* So is what the ring holds for it.
RingAhead(c) ==
  \A i \in 1 .. Len(events) :
    /\ events[i].seq > cursor[c] => NewTo(c, events[i].ev)
    /\ \A j \in 1 .. Len(pending[c]) : Follows(events[i], pending[c][j])

(* A cursor outlives the record it was read from, and the numbering starts *)
(* over with a new record: an entry above the cursor of a page is new to   *)
(* it all the same, which is what keeps a resumed stream in order.         *)
EventOrder ==
  /\ RingOrder
  /\ \A c \in Streams : /\ Numbered(got[c], produced)
                        /\ PendingOrder(c) /\ RingAhead(c)

LEMMA InitEventOrder == Init => EventOrder
<1> SUFFICES ASSUME Init PROVE EventOrder
  OBVIOUS
<1>1. events = <<>> /\ \A c \in Streams : pending[c] = <<>> /\ got[c] = <<>>
  BY DEF Init
<1> QED
  BY <1>1 DEF EventOrder, RingOrder, Numbered, Ascending, Within, PendingOrder,
     RingAhead

(* Most steps leave the events alone.                                      *)
LEMMA SameEvents ==
  ASSUME EventOrder, UNCHANGED <<events, pending, cursor, produced, got>>
  PROVE  EventOrder'
  BY DEF EventOrder, RingOrder, PendingOrder, RingAhead, NewTo

(* An empty ring has nothing to disturb.                                   *)
LEMMA EmptyRing ==
  ASSUME TypeOK, EventOrder, events' = <<>>, UNCHANGED <<cursor, produced, got>>,
         UNCHANGED pending \/ pending' = [c \in Streams |-> <<>>]
  PROVE  EventOrder'
<1>1. RingOrder' /\ \A c \in Streams : RingAhead(c)'
  BY DEF RingOrder, RingAhead
<1>2. ASSUME NEW c \in Streams
      PROVE  Numbered(got[c], produced)' /\ PendingOrder(c)'
  BY DEF EventOrder, PendingOrder, NewTo
<1> QED
  BY <1>1, <1>2 DEF EventOrder

(* Events that are produced are newer than all before them.                *)
LEMMA ProducedMore ==
  ASSUME TypeOK, EventOrder, NEW n \in Nat, produced' = produced + n,
         UNCHANGED <<pending, cursor, got>>
  PROVE  /\ \A c \in Streams : Numbered(got[c], produced)' /\ PendingOrder(c)'
         /\ UNCHANGED events => EventOrder'
<1>1. produced \in Nat /\ \A m : m \in 1 .. produced => m \in 1 .. produced'
  BY DEF TypeOK, HistoryType
<1>2. ASSUME NEW c \in Streams
      PROVE  Numbered(got[c], produced)' /\ PendingOrder(c)'
  <2>1. Numbered(got[c], produced)'
    BY <1>1 DEF EventOrder, Numbered, Ascending, Within
  <2>2. PendingOrder(c)'
    BY <1>1 DEF EventOrder, PendingOrder, NewTo
  <2> QED
    BY <2>1, <2>2
<1>3. ASSUME UNCHANGED events
      PROVE  RingOrder' /\ \A c \in Streams : RingAhead(c)'
  BY <1>1, <1>3 DEF EventOrder, RingOrder, RingAhead, NewTo
<1> QED
  BY <1>2, <1>3 DEF EventOrder

LEMMA UploadEventOrder ==
  ASSUME TypeOK, Ring, EventOrder, NEW n \in 1 .. MaxBatch, UploadEvents(n)
  PROVE  EventOrder'
<1> USE DEF TypeOK
<1>1. PICK d \in Nat : UploadCut(n, d)
  BY UploadRing
<1>2. /\ n \in Nat /\ produced \in Nat /\ nextSeq \in Nat
      /\ Len(events) \in Nat /\ Len(events') \in Nat
      /\ events' \in Seq(SeqEvent) /\ Len(events) + n = d + Len(events')
      /\ produced' = produced + n
  BY <1>1 DEF SessionType, HistoryType, UploadEvents, UploadCut
<1>3. UNCHANGED <<pending, cursor, got>>
  BY DEF UploadEvents
<1> DEFINE Old(i) == /\ d + i \in 1 .. Len(events)
                     /\ events'[i] = events[d + i]
           New(i) == /\ d + i > Len(events)
                     /\ events'[i].seq = nextSeq + (d + i - Len(events)) - 1
                     /\ events'[i].ev = produced + (d + i - Len(events))
<1>4. ASSUME NEW i \in 1 .. Len(events')
      PROVE  Old(i) \/ New(i)
  <2>1. CASE d + i <= Len(events)
    <3>1. events'[i] = events[d + i]
      BY <1>1, <2>1 DEF UploadCut
    <3>2. d + i \in 1 .. Len(events)
      BY <1>2, <2>1
    <3> QED
      BY <3>1, <3>2
  <2>2. CASE ~ (d + i <= Len(events))
    <3>1. events'[i] = [seq |-> nextSeq + (d + i - Len(events)) - 1,
                        ev |-> produced + (d + i - Len(events))]
      BY <1>1, <2>2 DEF UploadCut
    <3>2. d + i > Len(events)
      BY <1>2, <2>2
    <3> QED
      BY <3>1, <3>2
  <2> QED
    BY <2>1, <2>2
<1> DEFINE e(i) == events'[i]
<1>5. ASSUME NEW i \in 1 .. Len(events'), Old(i)
      PROVE  /\ e(i).ev \in 1 .. produced
             /\ e(i).seq \in Nat /\ e(i).seq < nextSeq
  <2>1. e(i).ev \in 1 .. produced
    BY <1>5 DEF EventOrder, RingOrder
  <2>2. e(i).seq = nextSeq - Len(events) + (d + i) - 1
    BY <1>5 DEF Ring
  <2>3. e(i).seq \in Nat
    <3>1. events[d + i] \in SeqEvent
      BY <1>5 DEF SessionType
    <3> QED
      BY <1>5, <3>1 DEF SeqEvent
  <2> QED
    BY <1>2, <1>5, <2>1, <2>2, <2>3
<1>6. ASSUME NEW i \in 1 .. Len(events'), New(i)
      PROVE  /\ e(i).ev \in 1 .. produced' /\ e(i).ev > produced
             /\ e(i).seq \in Nat /\ e(i).seq >= nextSeq
             /\ e(i).ev - produced = e(i).seq - nextSeq + 1
  <2>1. d + i - Len(events) \in 1 .. n
    BY <1>2, <1>6
  <2> QED
    BY <1>2, <1>6, <2>1
<1>7. RingOrder'
  <2> SUFFICES ASSUME NEW i \in 1 .. Len(events'), NEW j \in 1 .. Len(events')
               PROVE  e(i).ev \in 1 .. produced' /\ Follows(e(i), e(j))
    BY DEF RingOrder
  <2>1. ASSUME Old(i), Old(j) PROVE Follows(e(i), e(j))
    <3>1. /\ d + i \in 1 .. Len(events) /\ e(i) = events[d + i]
          /\ d + j \in 1 .. Len(events) /\ e(j) = events[d + j]
      BY <2>1
    <3>2. Follows(events[d + i], events[d + j])
      BY <3>1 DEF EventOrder, RingOrder
    <3> QED
      BY <3>1, <3>2
  <2> HIDE DEF Old, New, e
  <2>2. e(i).ev \in 1 .. produced'
    <3>1. CASE Old(i)
      <4>1. e(i).ev \in 1 .. produced
        BY <1>5, <3>1
      <4> QED
        BY <1>2, <4>1
    <3>2. CASE New(i)
      BY <1>6, <3>2
    <3> QED
      BY <1>4, <3>1, <3>2
  <2>3. ASSUME Old(i), New(j) PROVE Follows(e(i), e(j))
    BY <1>2, <1>5, <1>6, <2>3 DEF Follows
  <2>4. ASSUME New(i), Old(j) PROVE Follows(e(i), e(j))
    BY <1>2, <1>5, <1>6, <2>4 DEF Follows
  <2>5. ASSUME New(i), New(j) PROVE Follows(e(i), e(j))
    <3>1. /\ e(i).ev - produced = e(i).seq - nextSeq + 1
          /\ e(i).seq \in Nat /\ e(i).ev \in 1 .. produced'
      BY <1>6, <2>5
    <3>2. /\ e(j).ev - produced = e(j).seq - nextSeq + 1
          /\ e(j).seq \in Nat /\ e(j).ev \in 1 .. produced'
      BY <1>6, <2>5
    <3>3. e(i).ev \in Int /\ e(j).ev \in Int
      BY <1>2, <3>1, <3>2
    <3> DEFINE si == e(i).seq  sj == e(j).seq  vi == e(i).ev  vj == e(j).ev
    <3>4. /\ vi \in Int /\ vj \in Int /\ si \in Nat /\ sj \in Nat
          /\ vi - produced = si - nextSeq + 1 /\ vj - produced = sj - nextSeq + 1
      BY <3>1, <3>2, <3>3
    <3>5. produced \in Nat /\ nextSeq \in Nat
      BY <1>2
    <3> HIDE DEF si, sj, vi, vj
    <3>6. si > sj => vi > vj
      BY <3>4, <3>5
    <3> QED
      BY <3>6 DEF Follows, si, sj, vi, vj
  <2> QED
    BY <1>4, <2>1, <2>2, <2>3, <2>4, <2>5
<1>8. ASSUME NEW c \in Streams
      PROVE  RingAhead(c)'
  <2> SUFFICES ASSUME NEW i \in 1 .. Len(events')
               PROVE  /\ e(i).seq > cursor[c] => NewTo(c, e(i).ev)
                      /\ \A j \in 1 .. Len(pending[c]) : Follows(e(i), pending[c][j])
    BY <1>3 DEF RingAhead, NewTo
  <2>1. CASE Old(i)
    BY <2>1 DEF EventOrder, RingAhead
  <2>2. CASE New(i)
    <3>1. e(i).ev \in Nat /\ e(i).ev > produced
      BY <1>2, <1>6, <2>2
    <3> HIDE DEF e
    <3>2. NewTo(c, e(i).ev)
      BY <1>2, <3>1 DEF EventOrder, Numbered, Within, NewTo
    <3>3. \A j \in 1 .. Len(pending[c]) : Follows(e(i), pending[c][j])
      BY <1>2, <3>1 DEF EventOrder, PendingOrder, Follows
    <3> QED
      BY <3>2, <3>3
  <2> QED
    BY <1>4, <2>1, <2>2
<1>9. \A c \in Streams : Numbered(got[c], produced)' /\ PendingOrder(c)'
  BY <1>2, <1>3, ProducedMore
<1> QED
  BY <1>7, <1>8, <1>9 DEF EventOrder

(* The read hands the stream what lies above its cursor, in order.         *)
LEMMA StreamReadOrder ==
  ASSUME TypeOK, Ring, EventOrder, NEW c \in Streams, StreamRead(c)
  PROVE  EventOrder'
<1> DEFINE new == EventsSince(cursor[c])
<1>1. cursor[c] \in Nat
  BY DEF TypeOK, StreamType
<1>2. PICK d \in Nat :
        /\ Len(events) = d + Len(new)
        /\ \A i \in 1 .. Len(new) : /\ new[i] = events[d + i]
                                    /\ events[d + i].seq > cursor[c]
  BY <1>1, SinceSuffix DEF TypeOK
<1>3. new \in Seq(SeqEvent) /\ Len(new) \in Nat /\ Len(events) \in Nat
  <2>1. SessionType
    BY DEF TypeOK
  <2>2. new \in Seq(SeqEvent)
    BY <1>1, <2>1, SinceSuffix
  <2>3. Len(events) \in Nat
    BY <2>1 DEF SessionType
  <2> QED
    BY <2>2, <2>3
<1>4. pending' = [pending EXCEPT ![c] = new] /\ pending \in [Streams -> Seq(SeqEvent)]
  BY DEF StreamRead, TypeOK, StreamType
<1>5. UNCHANGED <<events, cursor, produced, got>>
  BY DEF StreamRead, session, history
<1> HIDE DEF new
<1>6. pending'[c] = new /\ \A b \in Streams : b # c => pending'[b] = pending[b]
  BY <1>4
<1>7. ASSUME NEW i \in 1 .. Len(new)
      PROVE  /\ d + i \in 1 .. Len(events) /\ new[i] = events[d + i]
             /\ new[i].seq > cursor[c] /\ new[i].ev \in 1 .. produced
             /\ NewTo(c, new[i].ev)
  <2>1. d + i \in 1 .. Len(events)
    BY <1>2, <1>3
  <2>2. new[i] = events[d + i] /\ new[i].seq > cursor[c]
    BY <1>2
  <2> QED
    BY <2>1, <2>2 DEF EventOrder, RingOrder, RingAhead
<1>8. ASSUME NEW i \in 1 .. Len(new), NEW j \in 1 .. Len(new), i < j
      PROVE  new[i].seq < new[j].seq /\ new[i].ev < new[j].ev
  <2>1. /\ new[i].seq = nextSeq - Len(events) + (d + i) - 1
        /\ new[j].seq = nextSeq - Len(events) + (d + j) - 1
    BY <1>7 DEF Ring
  <2>2. new[j].seq > new[i].seq /\ new[i].seq < new[j].seq
    BY <1>3, <1>8, <2>1 DEF TypeOK, SessionType
  <2>3. Follows(new[j], new[i])
    BY <1>7 DEF EventOrder, RingOrder
  <2>4. new[i].ev \in 1 .. produced /\ new[j].ev \in 1 .. produced
    BY <1>7
  <2>5. produced \in Nat
    BY DEF TypeOK, HistoryType
  <2> QED
    BY <2>2, <2>3, <2>4, <2>5 DEF Follows
<1>9. PendingOrder(c)'
  BY <1>5, <1>6, <1>7, <1>8 DEF PendingOrder, NewTo
<1>10. RingAhead(c)'
  <2> SUFFICES ASSUME NEW i \in 1 .. Len(events)
               PROVE  /\ events[i].seq > cursor[c] => NewTo(c, events[i].ev)
                      /\ \A j \in 1 .. Len(new) : Follows(events[i], new[j])
    BY <1>5, <1>6 DEF RingAhead, NewTo
  <2>1. events[i].seq > cursor[c] => NewTo(c, events[i].ev)
    BY DEF EventOrder, RingAhead
  <2>2. \A j \in 1 .. Len(new) : Follows(events[i], new[j])
    BY <1>7 DEF EventOrder, RingOrder
  <2> QED
    BY <2>1, <2>2
<1>11. ASSUME NEW b \in Streams, b # c
       PROVE  PendingOrder(b)' /\ RingAhead(b)'
  BY <1>5, <1>6, <1>11 DEF EventOrder, PendingOrder, RingAhead, NewTo
<1>12. RingOrder' /\ \A b \in Streams : Numbered(got[b], produced)'
  BY <1>5 DEF EventOrder, RingOrder
<1> QED
  BY <1>9, <1>10, <1>11, <1>12 DEF EventOrder

(* Sending the oldest pending entry moves the cursor and the page alike.   *)
LEMMA StreamEmitOrder ==
  ASSUME TypeOK, EventOrder, NEW c \in Streams, StreamEmit(c)
  PROVE  EventOrder'
<1> DEFINE p == pending[c]
           h == Head(p)
           NewToNext(e) == \A k \in 1 .. Len(got'[c]) : got'[c][k] < e
<1>1. /\ p \in Seq(SeqEvent) /\ p # <<>> /\ got[c] \in Seq(Nat)
      /\ pending \in [Streams -> Seq(SeqEvent)]
      /\ cursor \in [Streams -> Nat] /\ got \in [Streams -> Seq(Nat)]
      /\ produced \in Nat
  BY DEF TypeOK, StreamType, HistoryType, StreamEmit
<1>2. /\ cursor' = [cursor EXCEPT ![c] = h.seq]
      /\ got' = [got EXCEPT ![c] = Append(got[c], h.ev)]
      /\ pending' = [pending EXCEPT ![c] = Tail(p)]
      /\ UNCHANGED <<events, produced>>
  BY DEF StreamEmit, session
<1>3. /\ 1 \in 1 .. Len(p) /\ h = p[1] /\ Len(p) \in Nat
      /\ Len(Tail(p)) = Len(p) - 1
      /\ \A i \in 1 .. Len(Tail(p)) : Tail(p)[i] = p[i + 1]
  BY <1>1
<1> HIDE DEF p, h
<1>4. /\ cursor'[c] = h.seq /\ pending'[c] = Tail(p)
      /\ got'[c] = Append(got[c], h.ev)
  BY <1>1, <1>2
<1>5. \A b \in Streams : b # c =>
        cursor'[b] = cursor[b] /\ pending'[b] = pending[b] /\ got'[b] = got[b]
  BY <1>1, <1>2
<1>6. /\ h.ev \in 1 .. produced /\ h.seq > cursor[c] /\ NewTo(c, h.ev)
      /\ \A j \in 1 .. Len(p) : 1 < j => p[j].seq > h.seq /\ p[j].ev > h.ev
  <2>1. PendingOrder(c) /\ p = pending[c]
    BY DEF EventOrder, p
  <2>2. h.ev \in 1 .. produced /\ h.seq > cursor[c] /\ NewTo(c, h.ev)
    BY <1>3, <2>1 DEF PendingOrder
  <2>3. ASSUME NEW j \in 1 .. Len(p), 1 < j
        PROVE  p[j].seq > h.seq /\ p[j].ev > h.ev
    <3>1. p[1].seq < p[j].seq /\ p[1].ev < p[j].ev
      BY <1>3, <2>1, <2>3 DEF PendingOrder
    <3>2. p[1] \in SeqEvent /\ p[j] \in SeqEvent
      BY <1>1, <1>3
    <3>3. /\ p[1].seq \in Nat /\ p[j].seq \in Nat
          /\ p[1].ev \in Nat /\ p[j].ev \in Nat
      BY <3>2 DEF SeqEvent
    <3> QED
      BY <1>3, <3>1, <3>3
  <2> QED
    BY <2>2, <2>3
<1>7. /\ Len(got'[c]) = Len(got[c]) + 1 /\ Len(got[c]) \in Nat
      /\ \A k \in 1 .. Len(got[c]) : got'[c][k] = got[c][k]
      /\ got'[c][Len(got[c]) + 1] = h.ev
  <2>1. h.ev \in Nat
    BY <1>1, <1>6
  <2> QED
    BY <1>1, <1>4, <2>1, AppendProperties
<1>8. Numbered(got'[c], produced)
  <2>1. Numbered(got[c], produced)
    BY DEF EventOrder
  <2>2. Within(got'[c], produced)
    <3> SUFFICES ASSUME NEW i \in 1 .. Len(got'[c]) PROVE got'[c][i] \in 1 .. produced
      BY DEF Within
    <3>1. CASE i \in 1 .. Len(got[c])
      BY <1>7, <2>1, <3>1 DEF Numbered, Within
    <3>2. CASE i = Len(got[c]) + 1
      BY <1>6, <1>7, <3>2
    <3> QED
      BY <1>7, <3>1, <3>2
  <2>3. Ascending(got'[c])
    <3> SUFFICES ASSUME NEW i \in 1 .. Len(got'[c]), NEW j \in 1 .. Len(got'[c]), i < j
                 PROVE  got'[c][i] < got'[c][j]
      BY DEF Ascending
    <3>1. i \in 1 .. Len(got[c]) /\ got'[c][i] = got[c][i]
      BY <1>7
    <3>2. CASE j \in 1 .. Len(got[c])
      BY <1>7, <2>1, <3>1, <3>2 DEF Numbered, Ascending
    <3>3. CASE j = Len(got[c]) + 1
      BY <1>6, <1>7, <3>1, <3>3 DEF NewTo
    <3> QED
      BY <1>7, <3>2, <3>3
  <2> QED
    BY <2>2, <2>3 DEF Numbered
<1>9. ASSUME NEW e \in Nat, NewTo(c, e), e > h.ev
      PROVE  NewToNext(e)
  <2> SUFFICES ASSUME NEW k \in 1 .. Len(got'[c]) PROVE got'[c][k] < e
    OBVIOUS
  <2>1. CASE k \in 1 .. Len(got[c])
    BY <1>7, <1>9, <2>1 DEF NewTo
  <2>2. CASE k = Len(got[c]) + 1
    <3>1. h.ev \in Nat
      BY <1>1, <1>6
    <3> QED
      BY <1>7, <1>9, <2>2, <3>1
  <2> QED
    BY <1>7, <2>1, <2>2
<1>10. PendingOrder(c)'
  <2> SUFFICES ASSUME NEW j \in 1 .. Len(Tail(p))
               PROVE  /\ Tail(p)[j].ev \in 1 .. produced
                      /\ Tail(p)[j].seq > h.seq
                      /\ NewToNext(Tail(p)[j].ev)
                      /\ \A i \in 1 .. Len(Tail(p)) : i < j =>
                           /\ Tail(p)[i].seq < Tail(p)[j].seq
                           /\ Tail(p)[i].ev < Tail(p)[j].ev
    BY <1>2, <1>4 DEF PendingOrder, NewTo
  <2>1. j + 1 \in 1 .. Len(p) /\ 1 < j + 1 /\ Tail(p)[j] = p[j + 1]
    BY <1>3
  <2>2. PendingOrder(c) /\ p = pending[c]
    BY DEF EventOrder, p
  <2>3. p[j + 1].ev \in 1 .. produced /\ NewTo(c, p[j + 1].ev)
    BY <2>1, <2>2 DEF PendingOrder
  <2>4. p[j + 1].ev > h.ev /\ p[j + 1].seq > h.seq
    BY <1>6, <2>1
  <2>5. NewToNext(p[j + 1].ev)
    <3>1. p[j + 1].ev \in Nat
      BY <1>1, <2>3
    <3> HIDE DEF NewToNext
    <3> QED
      BY <1>9, <2>3, <2>4, <3>1
  <2>6. ASSUME NEW i \in 1 .. Len(Tail(p)), i < j
        PROVE  p[i + 1].seq < p[j + 1].seq /\ p[i + 1].ev < p[j + 1].ev
    <3>1. i + 1 \in 1 .. Len(p) /\ i + 1 < j + 1
      BY <1>3, <2>1, <2>6
    <3> QED
      BY <2>1, <2>2, <3>1 DEF PendingOrder
  <2>7. \A i \in 1 .. Len(Tail(p)) : Tail(p)[i] = p[i + 1]
    BY <1>3
  <2> HIDE DEF NewToNext
  <2> QED
    BY <2>1, <2>3, <2>4, <2>5, <2>6, <2>7
<1>11. RingAhead(c)'
  <2> SUFFICES ASSUME NEW i \in 1 .. Len(events)
               PROVE  /\ events[i].seq > h.seq => NewToNext(events[i].ev)
                      /\ \A j \in 1 .. Len(Tail(p)) : Follows(events[i], Tail(p)[j])
    BY <1>2, <1>4 DEF RingAhead, NewTo
  <2>1. RingAhead(c) /\ p = pending[c]
    BY DEF EventOrder, p
  <2>2. ASSUME events[i].seq > h.seq PROVE NewToNext(events[i].ev)
    <3>1. Follows(events[i], h)
      BY <1>3, <2>1 DEF RingAhead
    <3>2. events[i].ev > h.ev
      BY <2>2, <3>1 DEF Follows
    <3>3. events[i] \in SeqEvent /\ h \in SeqEvent
      BY <1>1, <1>3 DEF TypeOK, SessionType
    <3>4. /\ events[i].seq \in Nat /\ h.seq \in Nat /\ cursor[c] \in Nat
          /\ events[i].ev \in Nat
      BY <1>1, <3>3 DEF SeqEvent
    <3>5. events[i].seq > cursor[c]
      BY <1>6, <2>2, <3>4
    <3>6. NewTo(c, events[i].ev)
      BY <2>1, <3>5 DEF RingAhead
    <3> HIDE DEF NewToNext
    <3> QED
      BY <1>9, <3>2, <3>4, <3>6
  <2>3. ASSUME NEW j \in 1 .. Len(Tail(p)) PROVE Follows(events[i], Tail(p)[j])
    <3>1. j + 1 \in 1 .. Len(p) /\ Tail(p)[j] = p[j + 1]
      BY <1>3
    <3> QED
      BY <2>1, <3>1 DEF RingAhead
  <2> QED
    BY <2>2, <2>3
<1>12. ASSUME NEW b \in Streams, b # c
       PROVE  Numbered(got[b], produced)' /\ PendingOrder(b)' /\ RingAhead(b)'
  BY <1>2, <1>5, <1>12 DEF EventOrder, PendingOrder, RingAhead, NewTo
<1>13. RingOrder'
  BY <1>2 DEF EventOrder, RingOrder
<1> QED
  BY <1>2, <1>8, <1>10, <1>11, <1>12, <1>13 DEF EventOrder

(* Clearing what a page has got, or what a stream still has to send,       *)
(* leaves less to order.                                                   *)
LEMMA ClearOrder ==
  ASSUME TypeOK, EventOrder, NEW c \in Streams, UNCHANGED <<events, produced>>,
         \/ StreamOpen(c)
         \/ StreamDrop(c)
  PROVE  EventOrder'
<1>1. RingOrder'
  BY DEF EventOrder, RingOrder
<1>2. ASSUME NEW b \in Streams
      PROVE  Numbered(got[b], produced)' /\ PendingOrder(b)' /\ RingAhead(b)'
  <2>1. /\ pending \in [Streams -> Seq(SeqEvent)]
        /\ cursor \in [Streams -> Nat] /\ got \in [Streams -> Seq(Nat)]
    BY DEF TypeOK, StreamType, HistoryType
  <2>2. Numbered(got[b], produced) /\ PendingOrder(b) /\ RingAhead(b)
    BY DEF EventOrder
  <2>3. CASE b # c
    <3>1. cursor'[b] = cursor[b] /\ pending'[b] = pending[b] /\ got'[b] = got[b]
      BY <2>1, <2>3 DEF StreamOpen, StreamDrop, history
    <3> QED
      BY <2>2, <3>1 DEF PendingOrder, RingAhead, NewTo
  <2>4. CASE b = c /\ StreamOpen(c)
    <3>1. cursor'[b] = 0 /\ pending'[b] = pending[b] /\ got'[b] = <<>>
      BY <2>1, <2>4 DEF StreamOpen
    <3>2. Numbered(got[b], produced)'
      BY <3>1 DEF Numbered, Ascending, Within
    <3>3. \A e : NewTo(b, e)'
      BY <3>1 DEF NewTo
    <3>4. \A j \in 1 .. Len(pending[b]) : pending[b][j].seq > 0
      <4> SUFFICES ASSUME NEW j \in 1 .. Len(pending[b]) PROVE pending[b][j].seq > 0
        OBVIOUS
      <4>1. pending[b] \in Seq(SeqEvent)
        BY <2>1
      <4>2. pending[b][j] \in SeqEvent
        BY <4>1
      <4>3. pending[b][j].seq \in Nat \ {0}
        BY <4>2 DEF SeqEvent
      <4> QED
        BY <4>3
    <3>5. PendingOrder(b)'
      BY <2>2, <3>1, <3>3, <3>4 DEF PendingOrder
    <3>6. RingAhead(b)'
      BY <2>2, <3>1, <3>3 DEF RingAhead
    <3> QED
      BY <3>2, <3>5, <3>6
  <2>5. CASE b = c /\ StreamDrop(c)
    <3>1. cursor'[b] = cursor[b] /\ pending'[b] = <<>> /\ got'[b] = got[b]
      BY <2>1, <2>5 DEF StreamDrop, history
    <3> QED
      BY <2>2, <3>1 DEF PendingOrder, RingAhead, NewTo
  <2> QED
    BY <2>3, <2>4, <2>5
<1> QED
  BY <1>1, <1>2 DEF EventOrder

LEMMA NextEventOrder == TypeOK /\ Ring /\ EventOrder /\ [Next]_vars => EventOrder'
<1> SUFFICES ASSUME TypeOK, Ring, EventOrder, [Next]_vars PROVE EventOrder'
  OBVIOUS
<1>1. CASE Register \/ DeregisterLost \/ RunnerAbandon
  BY <1>1, SameEvents
     DEF Register, DeregisterLost, RunnerAbandon, session, streams, history
<1>2. CASE Deregister
  <2>1. CASE live
    BY <1>2, <2>1, EmptyRing DEF Deregister, DropSession, NoRecord
  <2>2. CASE ~live
    BY <1>2, <2>2, SameEvents DEF Deregister
  <2> QED
    BY <2>1, <2>2
<1>3. ASSUME NEW n \in 1 .. MaxBatch, UploadEvents(n)
      PROVE  EventOrder'
  BY <1>3, UploadEventOrder
<1>4. ASSUME NEW n \in 1 .. MaxBatch, UploadLost(n)
      PROVE  EventOrder'
  <2>1. n \in Nat
    OBVIOUS
  <2> QED
    BY <1>4, <2>1, ProducedMore DEF UploadLost, session, streams
<1>5. CASE ClientPost
  BY <1>5, SameEvents DEF ClientPost
<1>6. CASE Sweep
  BY <1>6, EmptyRing DEF Sweep, DropSession, NoRecord
<1>7. CASE Restart
  BY <1>7, EmptyRing DEF Restart, NoRecord
<1>8. CASE \E p \in Polls : PollStep(p)
  BY <1>8, SameEvents
     DEF PollStep, RunnerPoll, PollNotifier, PollArm, PollHold, PollAgain,
         PollReply, PollDropped, session, streams, history
<1>9. ASSUME NEW c \in Streams, StreamStep(c) PROVE EventOrder'
  <2>1. CASE StreamOpen(c) \/ StreamDrop(c)
    <3>1. UNCHANGED <<events, produced>>
      BY <2>1 DEF StreamOpen, StreamDrop, session, history
    <3> QED
      BY <2>1, <3>1, ClearOrder
  <2>2. CASE StreamEmit(c)
    BY <2>2, StreamEmitOrder
  <2>3. CASE StreamRead(c)
    BY <2>3, StreamReadOrder
  <2>4. CASE StreamAttach(c)
    BY <2>4, SameEvents DEF StreamAttach
  <2>5. CASE \/ StreamResume(c) \/ StreamNotifier(c) \/ StreamNothingNew(c)
             \/ StreamEnd(c) \/ StreamArm(c) \/ StreamTick(c)
    BY <2>5, SameEvents
       DEF StreamResume, StreamNotifier, StreamNothingNew, StreamEnd, StreamArm,
           StreamTick, session, history
  <2> QED
    BY <1>9, <2>1, <2>2, <2>3, <2>4, <2>5 DEF StreamStep
<1>10. CASE UNCHANGED vars
  BY <1>10, SameEvents DEF vars, session, streams, history
<1> QED
  BY <1>1, <1>2, <1>3, <1>4, <1>5, <1>6, <1>7, <1>8, <1>9, <1>10
     DEF Next, RunnerStep

(* Each step of the relay sends, delivers, starts a page again, or does    *)
(* nothing to the feed of events.                                          *)
LEMMA EventFeedStep ==
  ASSUME TypeOK, EventOrder, EventOrder', [Next]_vars
  PROVE  [EventFeed!Next]_<<produced, got>>
<1> USE DEF TypeOK
<1>1. ASSUME NEW n \in 1 .. MaxBatch, UploadEvents(n) \/ UploadLost(n)
      PROVE  EventFeed!Next
  <2>1. produced' = produced + n /\ UNCHANGED got /\ produced \in Nat
    BY <1>1 DEF UploadEvents, UploadLost, HistoryType
  <2> QED
    BY <2>1 DEF EventFeed!Next, EventFeed!Send
<1>2. ASSUME NEW c \in Streams, StreamEmit(c)
      PROVE  EventFeed!Next
  <2> DEFINE e == Head(pending[c]).ev
  <2>1. /\ got' = [got EXCEPT ![c] = Append(got[c], e)] /\ produced' = produced
        /\ got \in [Streams -> Seq(Nat)] /\ pending[c] \in Seq(SeqEvent)
        /\ pending[c] # <<>>
    BY <1>2 DEF StreamEmit, HistoryType, StreamType
  <2>2. e \in Nat
    <3>1. Head(pending[c]) \in SeqEvent
      BY <2>1
    <3> QED
      BY <3>1 DEF SeqEvent
  <2> HIDE DEF e
  <2>3. got'[c] = Append(got[c], e) /\ got[c] \in Seq(Nat)
    BY <2>1
  <2>4. EventFeed!Extends(got[c], got'[c])
    BY <2>2, <2>3, AppendProperties DEF EventFeed!Extends
  <2>5. EventFeed!InOrder(got'[c])
    BY DEF EventOrder, Numbered, Ascending, EventFeed!InOrder
  <2>6. EventFeed!AllSent(got'[c])
    BY <2>1 DEF EventOrder, Numbered, Within, EventFeed!AllSent
  <2>7. \A b \in Streams \ {c} : got'[b] = got[b]
    BY <2>1
  <2>8. EventFeed!Deliver(c)
    BY <2>1, <2>4, <2>5, <2>6, <2>7 DEF EventFeed!Deliver
  <2> QED
    BY <2>8 DEF EventFeed!Next
<1>3. ASSUME NEW c \in Streams, StreamOpen(c)
      PROVE  EventFeed!Next
  BY <1>3 DEF StreamOpen, EventFeed!Next, EventFeed!Forget
<1>4. CASE Register \/ Deregister \/ DeregisterLost \/ RunnerAbandon \/ ClientPost
           \/ Sweep \/ Restart
  BY <1>4 DEF Register, Deregister, DeregisterLost, RunnerAbandon, ClientPost,
     Sweep, Restart, history
<1>5. ASSUME NEW p \in Polls, PollStep(p)
      PROVE  UNCHANGED <<produced, got>>
  BY <1>5 DEF PollStep, RunnerPoll, PollNotifier, PollArm, PollHold, PollAgain,
     PollReply, PollDropped, history
<1>6. ASSUME NEW c \in Streams, StreamStep(c), ~StreamEmit(c), ~StreamOpen(c)
      PROVE  UNCHANGED <<produced, got>>
  BY <1>6 DEF StreamStep, StreamResume, StreamAttach, StreamNotifier, StreamRead,
     StreamNothingNew, StreamEnd, StreamArm, StreamTick, StreamDrop, history
<1>7. CASE UNCHANGED vars
  BY <1>7 DEF vars, history
<1> QED
  BY <1>1, <1>2, <1>3, <1>4, <1>5, <1>6, <1>7 DEF Next, RunnerStep

(* Events reach each page at most once and in the order the runner         *)
(* produced them: whatever happens to streams, sessions and the relay      *)
(* itself, resuming by number implements an ordered feed.                  *)
THEOREM EventsStayInOrder == Spec => EventsInOrder
<1>1. Init => EventFeed!Init
  BY DEF Init, EventFeed!Init
<1>2. TypedRing => TypeOK /\ Ring
  BY DEF TypedRing
<1>3. Spec => []EventOrder
  BY <1>2, TypedRingInvariant, InitEventOrder, NextEventOrder, PTL DEF Spec
<1> QED
  BY <1>1, <1>2, <1>3, TypedRingInvariant, EventFeedStep, PTL
     DEF Spec, EventsInOrder, EventFeed!Spec

-----------------------------------------------------------------------------
(* Nothing the ring still holds is skipped by a page that resumes.         *)

\* Only a handler that is sending has something left to send.
Sending ==
  \A c \in Streams : streamPc[c] # "loop" => pending[c] = <<>>

\* What of the ring lies at or below the cursor, the page has got; what lies
\* between the cursor and an entry still to be sent is still to be sent; and
\* the record numbers no new event at or below either.
Covered(c) ==
  /\ \A i \in 1 .. Len(events) :
       events[i].seq <= cursor[c] => events[i].ev \in Elems(got[c])
  /\ \A j \in 1 .. Len(pending[c]), i \in 1 .. Len(events) :
       events[i].seq > cursor[c] /\ events[i].seq <= pending[c][j].seq =>
         \E k \in 1 .. Len(pending[c]) : pending[c][k] = events[i]
  /\ cursor[c] < nextSeq
  /\ \A j \in 1 .. Len(pending[c]) : pending[c][j].seq < nextSeq

(* The cursor of a page means something only to the record the page was    *)
(* opened against; a page is opened against a record there has been.       *)
Placed ==
  \A c \in Streams : /\ openedIn[c] <= epoch
                     /\ live /\ openedIn[c] = epoch => Covered(c)

LEMMA InitPlaced == Init => Sending /\ Placed
<1> SUFFICES ASSUME Init PROVE Sending /\ Placed
  OBVIOUS
<1>1. /\ live = FALSE /\ epoch = 0
      /\ \A c \in Streams : openedIn[c] = 0 /\ pending[c] = <<>>
  BY DEF Init
<1> QED
  BY <1>1 DEF Sending, Placed

LEMMA NextSending == TypeOK /\ Sending /\ [Next]_vars => Sending'
<1> SUFFICES ASSUME TypeOK, Sending, [Next]_vars PROVE Sending'
  OBVIOUS
<1>1. pending \in [Streams -> Seq(SeqEvent)] /\ DOMAIN streamPc = Streams
  BY DEF TypeOK, StreamType
<1>2. ASSUME UNCHANGED pending,
             \A b \in Streams : streamPc[b] = "loop" => streamPc'[b] = "loop"
      PROVE  Sending'
  BY <1>2 DEF Sending
<1>3. CASE RunnerStep \/ ClientPost \/ Sweep
  BY <1>1, <1>2, <1>3
     DEF RunnerStep, Register, Deregister, DeregisterLost, RunnerAbandon,
         UploadEvents, UploadLost, ClientPost, Sweep, NotifyWaiters, streams
<1>4. CASE Restart
  BY <1>4 DEF Restart, Sending
<1>5. ASSUME NEW p \in Polls, PollStep(p) PROVE Sending'
  BY <1>2, <1>5
     DEF PollStep, RunnerPoll, PollNotifier, PollArm, PollHold, PollAgain,
         PollReply, PollDropped, streams
<1>6. ASSUME NEW c \in Streams, StreamStep(c) PROVE Sending'
  <2>1. CASE StreamAttach(c)
    BY <1>1, <1>2, <2>1 DEF StreamAttach
  <2>2. CASE StreamEmit(c) \/ StreamRead(c)
    <3>1. streamPc'[c] = "loop"
      BY <1>1, <2>2 DEF StreamEmit, StreamRead
    <3>2. ASSUME NEW b \in Streams, b # c
          PROVE  streamPc'[b] = streamPc[b] /\ pending'[b] = pending[b]
      BY <1>1, <2>2, <3>2 DEF StreamEmit, StreamRead
    <3> QED
      BY <3>1, <3>2 DEF Sending
  <2>3. CASE \/ StreamOpen(c) \/ StreamResume(c) \/ StreamNotifier(c)
             \/ StreamNothingNew(c) \/ StreamEnd(c) \/ StreamArm(c)
             \/ StreamTick(c) \/ StreamDrop(c)
    <3>1. pending'[c] = <<>>
      BY <1>1, <2>3
         DEF StreamOpen, StreamResume, StreamNotifier, StreamNothingNew,
             StreamEnd, StreamArm, StreamTick, StreamDrop, Sending
    <3>2. ASSUME NEW b \in Streams, b # c
          PROVE  streamPc'[b] = streamPc[b] /\ pending'[b] = pending[b]
      BY <1>1, <2>3, <3>2
         DEF StreamOpen, StreamResume, StreamNotifier, StreamNothingNew,
             StreamEnd, StreamArm, StreamTick, StreamDrop
    <3> QED
      BY <3>1, <3>2 DEF Sending
  <2> QED
    BY <1>6, <2>1, <2>2, <2>3 DEF StreamStep
<1>7. CASE UNCHANGED vars
  BY <1>2, <1>7 DEF vars, streams
<1> QED
  BY <1>3, <1>4, <1>5, <1>6, <1>7 DEF Next

(* Most steps leave the ring and the pages alone, or put a new record in   *)
(* the place of one that is gone.                                          *)
LEMMA SamePlace ==
  ASSUME TypeOK, Placed, UNCHANGED <<pending, cursor, openedIn, got>>,
         \/ UNCHANGED <<live, epoch, events, nextSeq>>
         \/ OrInsert /\ UNCHANGED <<events, nextSeq>>
  PROVE  Placed'
<1>1. epoch \in Nat /\ \A c \in Streams : openedIn[c] \in Nat
  BY DEF TypeOK, SessionType, StreamType
<1>2. epoch' >= epoch /\ (live' /\ ~live => epoch' = epoch + 1)
  BY <1>1 DEF OrInsert, EntryEpoch
<1>3. live => live' /\ epoch' = epoch
  BY <1>1 DEF OrInsert, EntryEpoch
<1>4. UNCHANGED <<events, nextSeq>> /\ epoch' \in Nat
  BY <1>1 DEF OrInsert, EntryEpoch
<1> SUFFICES ASSUME NEW c \in Streams
             PROVE  /\ openedIn[c] <= epoch'
                    /\ live' /\ openedIn[c] = epoch' => Covered(c)'
  BY DEF Placed
<1>5. openedIn[c] <= epoch
  BY DEF Placed
<1>6. openedIn[c] <= epoch'
  BY <1>1, <1>2, <1>4, <1>5
<1>7. ASSUME live', openedIn[c] = epoch' PROVE Covered(c)'
  <2>1. live /\ openedIn[c] = epoch
    BY <1>1, <1>2, <1>3, <1>5, <1>7
  <2>2. Covered(c)
    BY <2>1 DEF Placed
  <2> QED
    BY <1>4, <2>2 DEF Covered
<1> QED
  BY <1>6, <1>7

(* Without a record there is nothing to skip.                              *)
LEMMA NoPlace ==
  ASSUME Placed, ~live', UNCHANGED <<epoch, openedIn>>
  PROVE  Placed'
  BY DEF Placed

(* An upload numbers its events above every cursor of its record.          *)
LEMMA UploadPlaced ==
  ASSUME TypeOK, Placed, NEW n \in 1 .. MaxBatch, UploadEvents(n)
  PROVE  Placed'
<1> USE DEF TypeOK
<1>1. /\ n \in Nat /\ nextSeq \in Nat /\ Len(events) \in Nat /\ epoch \in Nat
      /\ nextSeq' = nextSeq + n /\ live' = TRUE
      /\ epoch' = IF live THEN epoch ELSE epoch + 1
      /\ UNCHANGED <<pending, cursor, openedIn, got>>
  BY DEF SessionType, UploadEvents, OrInsert, EntryEpoch
<1>2. PICK d \in Nat : UploadCut(n, d)
  BY UploadRing
<1> SUFFICES ASSUME NEW c \in Streams
             PROVE  /\ openedIn[c] <= epoch'
                    /\ openedIn[c] = epoch' => Covered(c)'
  BY <1>1 DEF Placed
<1>3. /\ openedIn[c] \in Nat /\ openedIn[c] <= epoch /\ cursor[c] \in Nat
      /\ pending[c] \in Seq(SeqEvent)
  BY DEF StreamType, Placed
<1>4. openedIn[c] <= epoch'
  BY <1>1, <1>3
<1>5. ASSUME openedIn[c] = epoch' PROVE Covered(c)'
  <2>1. live /\ openedIn[c] = epoch
    BY <1>1, <1>3, <1>5
  <2>2. Covered(c)
    BY <2>1 DEF Placed
  <2>3. \A j \in 1 .. Len(pending[c]) : pending[c][j].seq \in Nat
    <3>1. ASSUME NEW j \in 1 .. Len(pending[c]) PROVE pending[c][j] \in SeqEvent
      BY <1>3
    <3> QED
      BY <3>1 DEF SeqEvent
  <2>4. ASSUME NEW i \in 1 .. Len(events')
        PROVE  \/ \E k \in 1 .. Len(events) : events'[i] = events[k]
               \/ events'[i].seq >= nextSeq /\ events'[i].seq \in Nat
    <3>1. Len(events') \in Nat /\ Len(events) + n = d + Len(events')
      BY <1>2 DEF UploadCut
    <3>2. CASE d + i <= Len(events)
      <4>1. d + i \in 1 .. Len(events)
        BY <1>1, <3>1, <3>2
      <4>2. events'[i] = events[d + i]
        BY <1>2, <3>2 DEF UploadCut
      <4> QED
        BY <4>1, <4>2
    <3>3. CASE ~ (d + i <= Len(events))
      <4>1. events'[i] = [seq |-> nextSeq + (d + i - Len(events)) - 1,
                          ev |-> produced + (d + i - Len(events))]
        BY <1>2, <3>3 DEF UploadCut
      <4> QED
        BY <1>1, <3>1, <3>3, <4>1
    <3> QED
      BY <3>2, <3>3
  <2>5. ASSUME NEW i \in 1 .. Len(events'), events'[i].seq <= cursor[c]
        PROVE  events'[i].ev \in Elems(got[c])
    <3>1. ~ (events'[i].seq >= nextSeq /\ events'[i].seq \in Nat)
      BY <1>1, <1>3, <2>2, <2>5 DEF Covered
    <3>2. PICK k \in 1 .. Len(events) : events'[i] = events[k]
      BY <2>4, <3>1
    <3> QED
      BY <2>2, <2>5, <3>2 DEF Covered
  <2>6. ASSUME NEW j \in 1 .. Len(pending[c]), NEW i \in 1 .. Len(events'),
               events'[i].seq > cursor[c], events'[i].seq <= pending[c][j].seq
        PROVE  \E k \in 1 .. Len(pending[c]) : pending[c][k] = events'[i]
    <3> DEFINE x == events'[i].seq
               y == pending[c][j].seq
    <3>3. x <= y /\ y \in Nat /\ y < nextSeq
      BY <2>2, <2>3, <2>6 DEF Covered
    <3> HIDE DEF x, y
    <3>4. ~ (x >= nextSeq /\ x \in Nat)
      BY <1>1, <3>3
    <3>1. ~ (events'[i].seq >= nextSeq /\ events'[i].seq \in Nat)
      BY <3>4 DEF x
    <3>2. PICK k \in 1 .. Len(events) : events'[i] = events[k]
      BY <2>4, <3>1
    <3> QED
      BY <2>2, <2>6, <3>2 DEF Covered
  <2>7. cursor[c] < nextSeq' /\ \A j \in 1 .. Len(pending[c]) : pending[c][j].seq < nextSeq'
    BY <1>1, <1>3, <2>2, <2>3 DEF Covered
  <2> QED
    BY <1>1, <2>5, <2>6, <2>7 DEF Covered
<1> QED
  BY <1>4, <1>5

(* A read takes the whole of the ring above the cursor.                    *)
LEMMA ReadPlaced ==
  ASSUME TypeOK, Ring, Placed, NEW c \in Streams, StreamRead(c)
  PROVE  Placed'
<1> USE DEF TypeOK
<1> DEFINE new == EventsSince(cursor[c])
<1>1. /\ cursor[c] \in Nat /\ Len(events) \in Nat /\ nextSeq \in Nat
      /\ events \in Seq(SeqEvent)
  BY DEF SessionType, StreamType
<1>2. PICK k \in 0 .. Len(events) :
        /\ \A i \in 1 .. Len(events) : events[i].seq > cursor[c] <=> i > k
        /\ new = SubSeq(events, k + 1, Len(events))
  BY <1>1, SinceCut
<1>3. \A i \in k + 1 .. Len(events) : events[i] \in SeqEvent
  BY <1>1
<1>4. Len(new) = Len(events) - k /\ \A i \in 1 .. Len(events) - k : new[i] = events[k + i]
  BY <1>1, <1>2, <1>3, SubSeqProperties
<1>5. /\ pending' = [pending EXCEPT ![c] = new] /\ pending \in [Streams -> Seq(SeqEvent)]
      /\ UNCHANGED <<live, epoch, events, nextSeq, cursor, openedIn, got>>
  BY DEF StreamRead, StreamType, session, history
<1> HIDE DEF new
<1>6. pending'[c] = new /\ \A b \in Streams : b # c => pending'[b] = pending[b]
  BY <1>5
<1>7. ASSUME Covered(c) PROVE Covered(c)'
  <2>1. ASSUME NEW i \in 1 .. Len(events), events[i].seq > cursor[c]
        PROVE  \E j \in 1 .. Len(new) : new[j] = events[i]
    <3>1. i > k
      BY <1>2, <2>1
    <3>2. i - k \in 1 .. Len(events) - k /\ k + (i - k) = i
      BY <1>1, <3>1
    <3>3. new[i - k] = events[i]
      BY <1>4, <3>2
    <3> QED
      BY <1>4, <3>2, <3>3
  <2>2. ASSUME NEW j \in 1 .. Len(new) PROVE new[j].seq < nextSeq
    <3>1. k + j \in 1 .. Len(events) /\ new[j] = events[k + j]
      BY <1>1, <1>4
    <3>2. new[j].seq = nextSeq - Len(events) + (k + j) - 1
      BY <3>1 DEF Ring
    <3> QED
      BY <1>1, <3>1, <3>2
  <2> QED
    BY <1>5, <1>6, <1>7, <2>1, <2>2 DEF Covered
<1>8. ASSUME NEW b \in Streams, b # c, Covered(b) PROVE Covered(b)'
  BY <1>5, <1>6, <1>8 DEF Covered
<1> QED
  BY <1>5, <1>7, <1>8 DEF Placed

(* Sending the oldest entry moves the cursor past that entry and no other. *)
LEMMA EmitPlaced ==
  ASSUME TypeOK, EventOrder, Placed, NEW c \in Streams, StreamEmit(c)
  PROVE  Placed'
<1> USE DEF TypeOK
<1> DEFINE p == pending[c]
           h == Head(p)
<1>1. /\ p \in Seq(SeqEvent) /\ p # <<>> /\ got[c] \in Seq(Nat)
      /\ pending \in [Streams -> Seq(SeqEvent)]
      /\ cursor \in [Streams -> Nat] /\ got \in [Streams -> Seq(Nat)]
  BY DEF StreamType, HistoryType, StreamEmit
<1>2. /\ cursor' = [cursor EXCEPT ![c] = h.seq]
      /\ got' = [got EXCEPT ![c] = Append(got[c], h.ev)]
      /\ pending' = [pending EXCEPT ![c] = Tail(p)]
      /\ UNCHANGED <<live, epoch, events, nextSeq, openedIn>>
  BY DEF StreamEmit, session
<1>3. /\ 1 \in 1 .. Len(p) /\ h = p[1] /\ Len(p) \in Nat
      /\ Len(Tail(p)) = Len(p) - 1
      /\ \A i \in 1 .. Len(Tail(p)) : Tail(p)[i] = p[i + 1]
  BY <1>1
<1>4. ASSUME NEW j \in 1 .. Len(p)
      PROVE  /\ p[j].seq \in Nat /\ p[j].ev \in Nat
             /\ j = 1 \/ p[1].seq < p[j].seq
  <2>1. p[j] \in SeqEvent
    BY <1>1
  <2>2. PendingOrder(c)
    BY DEF EventOrder
  <2> QED
    BY <1>3, <2>1, <2>2 DEF PendingOrder, SeqEvent
<1>5. \A i \in 1 .. Len(events) : events[i].seq \in Nat
  <2>1. ASSUME NEW i \in 1 .. Len(events) PROVE events[i] \in SeqEvent
    BY DEF SessionType
  <2> QED
    BY <2>1 DEF SeqEvent
<1> HIDE DEF p, h
<1>6. /\ cursor'[c] = h.seq /\ pending'[c] = Tail(p)
      /\ got'[c] = Append(got[c], h.ev) /\ cursor[c] \in Nat
      /\ \A b \in Streams : b # c =>
           cursor'[b] = cursor[b] /\ pending'[b] = pending[b] /\ got'[b] = got[b]
  BY <1>1, <1>2
<1>7. h.seq \in Nat /\ h.ev \in Nat
  BY <1>3, <1>4
<1>8. Elems(got'[c]) = Elems(got[c]) \cup {h.ev}
  <2> DEFINE g == got[c]
             e == h.ev
  <2>1. g \in Seq(Nat) /\ e \in Nat
    BY <1>1, <1>7
  <2> HIDE DEF g, e
  <2>2. Elems(Append(g, e)) = Elems(g) \cup {e}
    BY <2>1, ElemsAppend
  <2> QED
    BY <1>6, <2>2 DEF g, e
<1>9. ASSUME Covered(c) PROVE Covered(c)'
  <2>1. ASSUME NEW i \in 1 .. Len(events), NEW j \in 1 .. Len(p),
               events[i].seq > cursor[c], events[i].seq <= p[j].seq
        PROVE  \E k \in 1 .. Len(p) : p[k] = events[i]
    BY <1>9, <2>1 DEF Covered, p
  <2>2. ASSUME NEW i \in 1 .. Len(events), events[i].seq <= h.seq
        PROVE  events[i].ev \in Elems(got'[c])
    <3>1. CASE events[i].seq <= cursor[c]
      BY <1>8, <1>9, <3>1 DEF Covered
    <3>2. CASE ~ (events[i].seq <= cursor[c])
      <4>1. events[i].seq > cursor[c] /\ events[i].seq <= p[1].seq
        BY <1>3, <1>5, <1>6, <2>2, <3>2
      <4>2. PICK k \in 1 .. Len(p) : p[k] = events[i]
        BY <1>3, <2>1, <4>1
      <4>3. k = 1
        <5>1. /\ p[k].seq \in Nat /\ p[1].seq \in Nat
              /\ k = 1 \/ p[1].seq < p[k].seq
          BY <1>3, <1>4
        <5> QED
          BY <4>1, <4>2, <5>1
      <4> QED
        BY <1>3, <1>8, <4>2, <4>3
    <3> QED
      BY <3>1, <3>2
  <2>3. ASSUME NEW j \in 1 .. Len(Tail(p)), NEW i \in 1 .. Len(events),
               events[i].seq > h.seq, events[i].seq <= Tail(p)[j].seq
        PROVE  \E k \in 1 .. Len(Tail(p)) : Tail(p)[k] = events[i]
    <3>1. j + 1 \in 1 .. Len(p) /\ Tail(p)[j] = p[j + 1]
      BY <1>3
    <3>2. h.seq > cursor[c]
      BY <1>3 DEF EventOrder, PendingOrder, p
    <3>3. events[i].seq > cursor[c]
      BY <1>5, <1>6, <1>7, <2>3, <3>2
    <3>4. PICK k \in 1 .. Len(p) : p[k] = events[i]
      BY <2>1, <2>3, <3>1, <3>3
    <3>5. k # 1
      BY <1>3, <1>7, <2>3, <3>4
    <3>6. k - 1 \in 1 .. Len(Tail(p)) /\ (k - 1) + 1 = k
      BY <1>3, <3>5
    <3>7. Tail(p)[k - 1] = events[i]
      BY <1>3, <3>4, <3>6
    <3> QED
      BY <3>6, <3>7
  <2>4. h.seq < nextSeq
    BY <1>3, <1>9 DEF Covered, p
  <2>5. ASSUME NEW j \in 1 .. Len(Tail(p)) PROVE Tail(p)[j].seq < nextSeq
    <3>1. j + 1 \in 1 .. Len(p) /\ Tail(p)[j] = p[j + 1]
      BY <1>3
    <3> QED
      BY <1>9, <3>1 DEF Covered, p
  <2> DEFINE t == Tail(p)
             g == Elems(got'[c])
  <2>6. /\ cursor'[c] = h.seq /\ pending'[c] = t
        /\ events' = events /\ nextSeq' = nextSeq
    BY <1>2, <1>6
  <2>7. /\ \A i \in 1 .. Len(events) : events[i].seq <= h.seq => events[i].ev \in g
        /\ \A j \in 1 .. Len(t), i \in 1 .. Len(events) :
             events[i].seq > h.seq /\ events[i].seq <= t[j].seq =>
               \E k \in 1 .. Len(t) : t[k] = events[i]
        /\ h.seq < nextSeq
        /\ \A j \in 1 .. Len(t) : t[j].seq < nextSeq
    BY <2>2, <2>3, <2>4, <2>5
  <2> HIDE DEF t
  <2> QED
    BY <2>6, <2>7 DEF Covered
<1>10. ASSUME NEW b \in Streams, b # c, Covered(b) PROVE Covered(b)'
  BY <1>2, <1>6, <1>10 DEF Covered
<1> QED
  BY <1>2, <1>9, <1>10 DEF Placed

(* A page that starts again has got nothing and skips nothing; a stream    *)
(* that drops forgets what it had still to send.                           *)
LEMMA ClearPlaced ==
  ASSUME TypeOK, Sending, Placed, NEW c \in Streams, StreamOpen(c) \/ StreamDrop(c)
  PROVE  Placed'
<1> USE DEF TypeOK
<1>1. /\ pending \in [Streams -> Seq(SeqEvent)] /\ cursor \in [Streams -> Nat]
      /\ got \in [Streams -> Seq(Nat)] /\ openedIn \in [Streams -> Nat]
      /\ epoch \in Nat /\ nextSeq \in Nat \ {0}
  BY DEF SessionType, StreamType, HistoryType
<1>2. UNCHANGED <<live, epoch, events, nextSeq>>
  BY DEF StreamOpen, StreamDrop, session
<1>3. ASSUME NEW b \in Streams, b # c
      PROVE  /\ cursor'[b] = cursor[b] /\ pending'[b] = pending[b]
             /\ got'[b] = got[b] /\ openedIn'[b] = openedIn[b]
  BY <1>1, <1>3 DEF StreamOpen, StreamDrop, history
<1>4. ASSUME NEW b \in Streams, b # c, Covered(b) PROVE Covered(b)'
  BY <1>2, <1>3, <1>4 DEF Covered
<1>5. CASE StreamOpen(c)
  <2>1. /\ cursor'[c] = 0 /\ got'[c] = <<>> /\ openedIn'[c] = epoch
        /\ pending'[c] = <<>>
    BY <1>1, <1>5 DEF StreamOpen, Sending
  <2>2. \A i \in 1 .. Len(events) : ~ (events[i].seq <= 0)
    <3>1. ASSUME NEW i \in 1 .. Len(events) PROVE events[i] \in SeqEvent
      BY DEF SessionType
    <3> QED
      BY <3>1 DEF SeqEvent
  <2>3. Covered(c)'
    BY <1>1, <1>2, <2>1, <2>2 DEF Covered
  <2>4. ASSUME NEW b \in Streams
        PROVE  /\ openedIn'[b] <= epoch
               /\ live /\ openedIn'[b] = epoch => Covered(b)'
    <3>1. CASE b = c
      BY <1>1, <2>1, <2>3, <3>1
    <3>2. CASE b # c
      <4>1. openedIn'[b] = openedIn[b]
        BY <1>3, <3>2
      <4>2. Covered(b) => Covered(b)'
        BY <1>4, <3>2
      <4> QED
        BY <4>1, <4>2 DEF Placed
    <3> QED
      BY <3>1, <3>2
  <2> QED
    BY <1>2, <2>4 DEF Placed
<1>6. CASE StreamDrop(c)
  <2>1. /\ pending'[c] = <<>>
        /\ UNCHANGED <<cursor, got, openedIn>>
    BY <1>1, <1>6 DEF StreamDrop, history
  <2>2. Covered(c) => Covered(c)'
    BY <1>2, <2>1 DEF Covered
  <2> QED
    BY <1>2, <1>4, <2>1, <2>2 DEF Placed
<1> QED
  BY <1>5, <1>6

LEMMA NextPlaced ==
  TypeOK /\ Ring /\ EventOrder /\ Sending /\ Placed /\ [Next]_vars => Placed'
<1> SUFFICES ASSUME TypeOK, Ring, EventOrder, Sending, Placed, [Next]_vars
             PROVE  Placed'
  OBVIOUS
<1>1. CASE Register \/ DeregisterLost \/ RunnerAbandon
  BY <1>1, SamePlace
     DEF Register, DeregisterLost, RunnerAbandon, session, streams, history
<1>2. CASE Deregister
  <2>1. CASE live
    BY <1>2, <2>1, NoPlace DEF Deregister, DropSession, NoRecord
  <2>2. CASE ~live
    BY <1>2, <2>2, SamePlace DEF Deregister
  <2> QED
    BY <2>1, <2>2
<1>3. ASSUME NEW n \in 1 .. MaxBatch, UploadEvents(n)
      PROVE  Placed'
  BY <1>3, UploadPlaced
<1>4. ASSUME NEW n \in 1 .. MaxBatch, UploadLost(n)
      PROVE  Placed'
  BY <1>4, SamePlace DEF UploadLost, session, streams
<1>5. CASE ClientPost
  BY <1>5, SamePlace DEF ClientPost
<1>6. CASE Sweep
  BY <1>6, NoPlace DEF Sweep, DropSession, NoRecord
<1>7. CASE Restart
  BY <1>7, NoPlace DEF Restart, NoRecord
<1>8. ASSUME NEW p \in Polls, PollStep(p) PROVE Placed'
  BY <1>8, SamePlace
     DEF PollStep, RunnerPoll, PollNotifier, PollArm, PollHold, PollAgain,
         PollReply, PollDropped, session, streams, history
<1>9. ASSUME NEW c \in Streams, StreamStep(c) PROVE Placed'
  <2>1. CASE StreamOpen(c) \/ StreamDrop(c)
    BY <2>1, ClearPlaced
  <2>2. CASE StreamEmit(c)
    BY <2>2, EmitPlaced
  <2>3. CASE StreamRead(c)
    BY <2>3, ReadPlaced
  <2>4. CASE StreamAttach(c)
    BY <2>4, SamePlace DEF StreamAttach
  <2>5. CASE \/ StreamResume(c) \/ StreamNotifier(c) \/ StreamNothingNew(c)
             \/ StreamEnd(c) \/ StreamArm(c) \/ StreamTick(c)
    BY <2>5, SamePlace
       DEF StreamResume, StreamNotifier, StreamNothingNew, StreamEnd, StreamArm,
           StreamTick, session, history
  <2> QED
    BY <1>9, <2>1, <2>2, <2>3, <2>4, <2>5 DEF StreamStep
<1>10. CASE UNCHANGED vars
  BY <1>10, SamePlace DEF vars, session, streams, history
<1> QED
  BY <1>1, <1>2, <1>3, <1>4, <1>5, <1>6, <1>7, <1>8, <1>9, <1>10
     DEF Next, RunnerStep

(* A page that was opened against the record the relay holds has every     *)
(* event the ring still holds at or below its cursor, however often it     *)
(* dropped and resumed: for any buffer, batch and number of pages.         *)
THEOREM ResumingSkipsNothing == Spec => []NothingRetainedIsSkipped
<1>1. TypedRing => TypeOK /\ Ring
  BY DEF TypedRing
<1>2. Spec => []EventOrder
  BY <1>1, TypedRingInvariant, InitEventOrder, NextEventOrder, PTL DEF Spec
<1>3. Spec => [](Sending /\ Placed)
  BY <1>1, <1>2, TypedRingInvariant, InitPlaced, NextSending, NextPlaced, PTL
     DEF Spec
<1>4. TypedRing /\ Sending /\ Placed => NothingRetainedIsSkipped
  <2> SUFFICES ASSUME TypedRing, Placed, NEW c \in Streams, live, openedIn[c] = epoch
               PROVE  \A i \in DOMAIN events :
                        events[i].seq <= cursor[c] => events[i].ev \in Elems(got[c])
    BY DEF NothingRetainedIsSkipped
  <2>1. DOMAIN events = 1 .. Len(events)
    BY DEF TypedRing, TypeOK, SessionType
  <2>2. Covered(c)
    BY DEF Placed
  <2> QED
    BY <2>1, <2>2 DEF Covered
<1> QED
  BY <1>3, <1>4, TypedRingInvariant, PTL

=============================================================================
