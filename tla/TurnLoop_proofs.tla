-------------------------- MODULE TurnLoop_proofs --------------------------
(***************************************************************************)
(* What holds of TurnLoop for any number of queries, agents, requests and  *)
(* prompts.                                                                *)
(***************************************************************************)
EXTENDS TurnLoop, SequenceTheorems, FiniteSetTheorems, TLAPS

-----------------------------------------------------------------------------
(* Types, as far as the proofs need them.  The bound on the queries is left *)
(* out: it follows from counting messages, and nothing here depends on it.  *)

TaskTypes ==
  /\ pc \in [Tasks -> Places] /\ turn \in [Tasks -> Nat] /\ counter \in Nat
  /\ launched \in Nat

StoreTypes ==
  /\ asked \in Nat
  /\ queue \in Seq(Request) /\ waiting \subseteq Request
  /\ announced \subseteq Request

PromptTypes ==
  /\ sent \in Nat /\ started \in Seq(Nat) /\ deferred \in Seq(Nat)
  /\ inbox \in Seq(Messages)

Typed == TaskTypes /\ StoreTypes /\ PromptTypes

(* Sequences.                                                              *)
LEMMA Popped ==
  ASSUME NEW S, NEW s \in Seq(S), s # <<>>
  PROVE  /\ Head(s) \in S /\ Head(s) = s[1]
         /\ Tail(s) \in Seq(S) /\ Len(Tail(s)) = Len(s) - 1 /\ Len(s) \in Nat \ {0}
         /\ \A i \in 1 .. Len(Tail(s)) : Tail(s)[i] = s[i + 1]
  BY HeadTailProperties

LEMMA Pushed ==
  ASSUME NEW S, NEW s \in Seq(S), NEW e \in S
  PROVE  /\ Append(s, e) \in Seq(S) /\ Len(Append(s, e)) = Len(s) + 1
         /\ Append(s, e)[Len(s) + 1] = e /\ Len(s) \in Nat
         /\ \A i \in 1 .. Len(s) : Append(s, e)[i] = s[i]
  BY AppendProperties

LEMMA InitTyped == Init => Typed
  BY DEF Init, Typed, TaskTypes, StoreTypes, PromptTypes, Places

(* What the loop does to the tasks.                                        *)
LEMMA ExceptTypes ==
  ASSUME NEW S, NEW T, NEW f \in [S -> T], NEW x, NEW v \in T
  PROVE  [f EXCEPT ![x] = v] \in [S -> T]
  OBVIOUS

LEMMA LaunchTypes ==
  ASSUME TaskTypes, Launch
  PROVE  pc' \in [Tasks -> Places] /\ launched' \in Nat
<1> DEFINE q == launched + 1
<1>1. launched \in Nat /\ launched' = q /\ pc' = [pc EXCEPT ![q] = "turn"]
  BY DEF TaskTypes, Launch
<1>2. q \in Nat
  BY <1>1
<1> HIDE DEF q
<1>3. pc \in [Tasks -> Places] /\ "turn" \in Places
  BY DEF TaskTypes, Places
<1> QED
  BY <1>1, <1>2, <1>3, ExceptTypes

LEMMA AnswerDialogTypes ==
  ASSUME Typed, AnswerDialog
  PROVE  pc' \in [Tasks -> Places] /\ waiting' \subseteq Request
  BY DEF Typed, TaskTypes, StoreTypes, AnswerDialog, Decide, Places

LEMMA SubmitTypes ==
  ASSUME TaskTypes, Submit
  PROVE  pc' \in [Tasks -> Places] /\ launched' \in Nat
  BY LaunchTypes DEF TaskTypes, Submit, SubmitQueued, SubmitNothing, SubmitTurn

LEMMA KeyTyped ==
  ASSUME Typed,
         NoKey \/ TypeMessage \/ AnswerKey \/ EnterKey \/ SynthesizedEnter \/ CtrlC
           \/ EscKey
  PROVE  Typed'
<1> USE DEF Typed, TaskTypes, StoreTypes, PromptTypes, Places
<1>1. CASE NoKey \/ TypeMessage \/ CtrlC \/ EscKey
  BY <1>1 DEF NoKey, TypeMessage, CtrlC, EscKey, store, tasks, bridge, history
<1>2. CASE AnswerKey
  BY <1>2, AnswerDialogTypes DEF AnswerKey, bridge
<1>3. CASE EnterKey
  BY <1>3, SubmitTypes DEF EnterKey, store, bridge
<1>4. CASE SynthesizedEnter
  BY <1>4, SubmitTypes, AnswerDialogTypes DEF SynthesizedEnter, bridge
<1> QED
  BY <1>1, <1>2, <1>3, <1>4

LEMMA SectionTyped ==
  ASSUME Typed,
         PermissionsDone \/ PopDecided \/ PopShown \/ DrainEvents \/ BridgeDone
           \/ HandlePrompt \/ HandleCancel \/ HandleAnswer
           \/ StartDeferred \/ PromptsDone \/ FinishQuery \/ NothingFinished
  PROVE  Typed'
<1> USE DEF Typed, TaskTypes, StoreTypes, PromptTypes, Places
<1>1. CASE PermissionsDone \/ DrainEvents \/ BridgeDone \/ PromptsDone
             \/ FinishQuery \/ NothingFinished
  BY <1>1 DEF PermissionsDone, DrainEvents, BridgeDone, PromptsDone, FinishQuery,
              NothingFinished, store, tasks, bridge, history
<1>2. CASE PopDecided
  BY <1>2, Popped DEF PopDecided, Decide, loop, bridge
<1>3. CASE PopShown
  BY <1>3, Popped DEF PopShown, Inserted, tasks, history
<1>4. CASE HandlePrompt
  <2>1. Head(inbox) \in Messages /\ Tail(inbox) \in Seq(Messages)
    BY <1>4, Popped DEF HandlePrompt
  <2>2. Head(inbox).prompt \in Nat
    BY <1>4, <2>1, TurnLoopAssumption DEF HandlePrompt, Messages
  <2>3. deferred' \in Seq(Nat)
    BY <1>4, <2>2, Pushed DEF HandlePrompt
  <2> QED
    BY <1>4, <2>1, <2>3 DEF HandlePrompt, store, tasks, history
<1>5. CASE HandleCancel
  BY <1>5, Popped DEF HandleCancel, store
<1>6. CASE HandleAnswer
  BY <1>6, Popped DEF HandleAnswer, Decide
<1>7. CASE StartDeferred
  <2>1. Head(deferred) \in Nat /\ Tail(deferred) \in Seq(Nat)
    BY <1>7, Popped DEF StartDeferred
  <2>2. started' \in Seq(Nat) /\ deferred' \in Seq(Nat)
    BY <1>7, <2>1, Pushed DEF StartDeferred
  <2>3. pc' \in [Tasks -> Places] /\ launched' \in Nat
    BY <1>7, LaunchTypes DEF StartDeferred
  <2> QED
    BY <1>7, <2>2, <2>3 DEF StartDeferred, store, bridge
<1> QED
  BY <1>1, <1>2, <1>3, <1>4, <1>5, <1>6, <1>7

LEMMA TaskTyped ==
  ASSUME Typed, NEW t \in Tasks, Delta(t) \/ TaskProgress(t)
  PROVE  Typed'
<1> USE DEF Typed, TaskTypes, StoreTypes, PromptTypes, Places
<1>1. CASE Delta(t)
  BY <1>1 DEF Delta, loop, store, bridge, history
<1>2. CASE TurnCancelled(t)
  BY <1>2 DEF TurnCancelled, loop, store, bridge, history
<1>3. CASE TurnBegin(t)
  BY <1>3 DEF TurnBegin, loop, store, bridge, history
<1>4. CASE QueryGoesOn(t)
  BY <1>4 DEF QueryGoesOn, loop, store, bridge, history
<1>5. CASE ModelBreaks(t) \/ QueryReturns(t) \/ ToolRuns(t) \/ ToolAbandoned(t)
  BY <1>5 DEF ModelBreaks, QueryReturns, ToolRuns, ToolAbandoned,
              loop, store, bridge, history
<1>6. CASE ModelCallsTools(t) \/ ModelEnds(t) \/ ToolStart(t)
  BY <1>6 DEF ModelCallsTools, ModelEnds, ToolStart, loop, store, bridge, history
<1>7. CASE \E a \in Agents : ToolSpawns(t, a)
  BY <1>7 DEF ToolSpawns, loop, store, bridge, history
<1>8. CASE ToolAsks(t)
  <2>1. [id |-> counter, num |-> asked + 1, task |-> t] \in Request
    BY <1>8, TurnLoopAssumption DEF ToolAsks, Request
  <2>2. queue' \in Seq(Request)
    BY <1>8, <2>1, Pushed DEF ToolAsks
  <2> QED
    BY <1>8, <2>2 DEF ToolAsks, loop, bridge
<1> QED
  BY <1>1, <1>2, <1>3, <1>4, <1>5, <1>6, <1>7, <1>8 DEF TaskProgress

LEMMA RemoteTyped ==
  ASSUME Typed, RemoteStep
  PROVE  Typed'
<1> USE DEF Typed, TaskTypes, StoreTypes, PromptTypes, Places
<1>1. CASE RemotePrompt
  <2>1. [kind |-> "prompt", prompt |-> sent + 1] \in Messages
    BY <1>1, TurnLoopAssumption DEF RemotePrompt, Messages
  <2> QED
    BY <1>1, <2>1, Pushed DEF RemotePrompt, loop, store, tasks
<1>2. CASE RemoteCancel
  <2>1. [kind |-> "cancel"] \in Messages
    BY DEF Messages
  <2> QED
    BY <1>2, <2>1, Pushed DEF RemoteCancel, loop, store, tasks
<1>3. ASSUME NEW r \in announced, RemoteAnswer(r) PROVE Typed'
  <2>1. [kind |-> "answer", request |-> r] \in Messages
    BY DEF Messages
  <2> QED
    BY <1>3, <2>1, Pushed DEF RemoteAnswer, loop, store, tasks, history
<1> QED
  BY <1>1, <1>2, <1>3 DEF RemoteStep

LEMMA NextTyped == Typed /\ [Next]_vars => Typed'
<1> SUFFICES ASSUME Typed, [Next]_vars PROVE Typed'
  OBVIOUS
<1>1. CASE LoopStep
  BY <1>1, KeyTyped, SectionTyped DEF LoopStep
<1>2. CASE RemoteStep
  BY <1>2, RemoteTyped
<1>3. CASE \E t \in Tasks : Delta(t) \/ TaskProgress(t)
  BY <1>3, TaskTyped
<1>4. CASE UNCHANGED vars
  BY <1>4 DEF vars, loop, store, tasks, bridge, history, Typed, TaskTypes,
              StoreTypes, PromptTypes
<1> QED
  BY <1>1, <1>2, <1>3, <1>4 DEF Next

LEMMA TypedInvariant == Spec => []Typed
  BY InitTyped, NextTyped, PTL DEF Spec

-----------------------------------------------------------------------------
(* EveryAskIsOpen.  Requests are told apart by their numbers and by the    *)
(* task that is blocked on them, wherever they stand; the numbers given so *)
(* far bound them, so that the next one is new.                            *)

OpenIn(n, places, r) == r.num \in 1 .. n /\ places[r.task] = "blocked"

Open(r) == OpenIn(asked, pc, r)

Apart(q, r) == q.num # r.num /\ q.task # r.task

QueueOpen ==
  /\ \A i \in 1 .. Len(queue) : Open(queue[i])
  /\ \A i, j \in 1 .. Len(queue) : i # j => Apart(queue[i], queue[j])

DialogOpen ==
  /\ dialog # NoRequest => /\ Open(dialog)
                           /\ \A i \in 1 .. Len(queue) : Apart(queue[i], dialog)
  /\ waiting = IF dialog = NoRequest THEN {} ELSE {dialog}

BlockedAsked ==
  \A t \in Tasks : pc[t] = "blocked" =>
    \/ \E i \in 1 .. Len(queue) : queue[i].task = t
    \/ dialog # NoRequest /\ dialog.task = t

Undecided ==
  \A v \in verdicts :
    /\ v.num \in 1 .. asked
    /\ \A i \in 1 .. Len(queue) : v.num # queue[i].num
    /\ dialog # NoRequest => v.num # dialog.num

DecidedOnce == \A v, w \in verdicts : v.num = w.num => v = w

Asks == QueueOpen /\ DialogOpen /\ BlockedAsked /\ Undecided /\ DecidedOnce

NotLaunched == \A q \in Queries : q > launched => pc[q] = "idle"

LEMMA AsksAreOpen ==
  ASSUME Typed, Asks
  PROVE  EveryAskIsOpen
<1> DEFINE open == InQueue \cup waiting
<1>1. \A r \in open : (\E i \in 1 .. Len(queue) : r = queue[i])
                       \/ (dialog # NoRequest /\ r = dialog)
  BY DEF Asks, DialogOpen, InQueue
<1>2. \A t \in Tasks : pc[t] = "blocked" => \E r \in open : r.task = t
  BY DEF Asks, BlockedAsked, DialogOpen, InQueue
<1>3. ASSUME NEW r \in open PROVE pc[r.task] = "blocked"
  BY <1>1 DEF Asks, QueueOpen, DialogOpen, Open, OpenIn
<1>4. ASSUME NEW r \in open, NEW q \in open, q.task = r.task PROVE q = r
  BY <1>1, <1>4 DEF Asks, QueueOpen, DialogOpen, Apart
<1>5. ASSUME NEW r \in open, NEW v \in verdicts PROVE v.num # r.num
  BY <1>1 DEF Asks, Undecided
<1>6. waiting = IF dialog = NoRequest THEN {} ELSE {dialog}
  BY DEF Asks, DialogOpen
<1>7. \A v, w \in verdicts : v.num = w.num => v = w
  BY DEF Asks, DecidedOnce
<1> QED
  BY <1>2, <1>3, <1>4, <1>5, <1>6, <1>7 DEF EveryAskIsOpen

LEMMA InitAsks == Init => Asks /\ NotLaunched
<1> SUFFICES ASSUME Init PROVE Asks /\ NotLaunched
  OBVIOUS
<1>1. /\ queue = <<>> /\ dialog = NoRequest /\ waiting = {} /\ verdicts = {}
      /\ \A t \in Tasks : pc[t] = "idle"
  BY DEF Init
<1> QED
  BY <1>1
     DEF Asks, QueueOpen, DialogOpen, BlockedAsked, Undecided, DecidedOnce, NotLaunched, Tasks

(* Steps that touch no request and block or unblock nobody.                *)
LEMMA QuietAsks ==
  ASSUME Typed, Asks, UNCHANGED <<queue, waiting, dialog, asked, verdicts>>,
         \A t \in Tasks : pc'[t] = "blocked" <=> pc[t] = "blocked"
  PROVE  Asks'
<1>1. \A i \in 1 .. Len(queue) : queue[i] \in Request
  BY DEF Typed, StoreTypes
<1>2. dialog # NoRequest => dialog \in Request
  BY DEF Typed, StoreTypes, Asks, DialogOpen
<1>3. \A r \in Request : Open(r) => OpenIn(asked', pc', r)
  BY DEF Open, OpenIn, Request
<1>4. QueueOpen'
  BY <1>1, <1>3 DEF Open, Asks, QueueOpen, Apart
<1>5. DialogOpen'
  BY <1>2, <1>3 DEF Open, Asks, DialogOpen, Apart
<1>6. BlockedAsked'
  BY DEF Asks, BlockedAsked
<1>7. Undecided' /\ DecidedOnce'
  BY DEF Asks, Undecided, DecidedOnce
<1> QED
  BY <1>4, <1>5, <1>6, <1>7 DEF Asks

(* A request that no verdict is about is decided.                          *)
LEMMA DecidedKept ==
  ASSUME DecidedOnce, NEW n, NEW g, \A v \in verdicts : v.num # n,
         verdicts' = verdicts \cup {[num |-> n, given |-> g]}
  PROVE  DecidedOnce'
  BY DEF DecidedOnce

(* The dialog's request is decided and the dialog goes.                    *)
LEMMA SettledAsks ==
  ASSUME Typed, Asks, dialog # NoRequest, NEW g,
         dialog' = NoRequest, waiting' = {}, Decide(dialog, g),
         UNCHANGED <<queue, asked>>
  PROVE  Asks'
<1>1. \A i \in 1 .. Len(queue) : queue[i] \in Request
  BY DEF Typed, StoreTypes
<1>2. dialog \in Request
  BY DEF Typed, StoreTypes, Asks, DialogOpen
<1>3. pc \in [Tasks -> Places] /\ pc' = [pc EXCEPT ![dialog.task] = "tool"]
  BY DEF Typed, TaskTypes, Decide
<1>4. /\ pc'[dialog.task] = "tool"
      /\ \A t \in Tasks : t # dialog.task => pc'[t] = pc[t]
  BY <1>2, <1>3 DEF Request
<1>5. \A i \in 1 .. Len(queue) : OpenIn(asked', pc', queue[i]) /\ queue[i].num # dialog.num
  BY <1>1, <1>4 DEF Asks, QueueOpen, DialogOpen, Open, OpenIn, Apart, Request
<1>6. QueueOpen'
  BY <1>5 DEF Open, Asks, QueueOpen, Apart
<1>7. DialogOpen'
  BY DEF DialogOpen
<1>8. BlockedAsked'
  BY <1>4 DEF Asks, BlockedAsked
<1>9. ASSUME NEW v \in verdicts'
      PROVE  v.num \in 1 .. asked /\ \A i \in 1 .. Len(queue) : v.num # queue[i].num
  <2>1. CASE v \in verdicts
    BY <2>1 DEF Asks, Undecided
  <2>2. CASE v = [num |-> dialog.num, given |-> g]
    BY <2>2, <1>5 DEF Asks, DialogOpen, Open, OpenIn
  <2> QED
    BY <2>1, <2>2 DEF Decide
<1>10. Undecided'
  BY <1>9 DEF Undecided
<1>11. DecidedOnce'
  BY DecidedKept DEF Asks, Undecided, Decide
<1> QED
  BY <1>6, <1>7, <1>8, <1>10, <1>11 DEF Asks

LEMMA AnswerDialogAsks ==
  ASSUME Typed, Asks, AnswerDialog, dialog # NoRequest, UNCHANGED <<queue, asked>>
  PROVE  Asks'
<1>1. waiting = {dialog}
  BY DEF Asks, DialogOpen
<1>2. waiting' = {} /\ Decide(dialog, dialog.num) /\ dialog' = NoRequest
  BY <1>1 DEF AnswerDialog
<1> QED
  BY <1>2, SettledAsks

(* The request at the head of the queue is decided without a dialog.       *)
LEMMA PopDecidedAsks ==
  ASSUME Typed, Asks, PopDecided
  PROVE  Asks'
<1> DEFINE r == Head(queue)
<1>1. /\ queue \in Seq(Request) /\ queue # <<>> /\ queue' = Tail(queue)
      /\ dialog = NoRequest /\ UNCHANGED <<dialog, waiting, asked>>
  BY DEF Typed, StoreTypes, PopDecided, loop
<1>2. /\ r \in Request /\ r = queue[1] /\ Len(queue) \in Nat \ {0}
      /\ Len(queue') = Len(queue) - 1
      /\ \A i \in 1 .. Len(queue') : queue'[i] = queue[i + 1] /\ i + 1 \in 1 .. Len(queue)
  BY <1>1, Popped
<1>3. \A i \in 1 .. Len(queue') : /\ queue'[i] \in Request /\ Open(queue'[i])
                                  /\ Apart(queue'[i], r)
  BY <1>1, <1>2 DEF Asks, QueueOpen
<1>4. pc \in [Tasks -> Places] /\ pc' = [pc EXCEPT ![r.task] = "tool"]
      /\ verdicts' = verdicts \cup {[num |-> r.num, given |-> r.num]}
  BY DEF Typed, TaskTypes, PopDecided, Decide
<1> HIDE DEF r
<1>5. pc'[r.task] = "tool" /\ \A t \in Tasks : t # r.task => pc'[t] = pc[t]
  BY <1>2, <1>4 DEF Request
<1>6. QueueOpen'
  <2>1. \A i \in 1 .. Len(queue') : OpenIn(asked', pc', queue'[i])
    BY <1>1, <1>3, <1>5 DEF Open, OpenIn, Apart, Request
  <2>2. \A i, j \in 1 .. Len(queue') : i # j => Apart(queue'[i], queue'[j])
    BY <1>2 DEF Asks, QueueOpen
  <2> QED
    BY <2>1, <2>2 DEF Open, QueueOpen, Apart
<1>7. DialogOpen'
  BY <1>1 DEF Asks, DialogOpen
<1>8. ASSUME NEW t \in Tasks, pc'[t] = "blocked"
      PROVE  \E i \in 1 .. Len(queue') : queue'[i].task = t
  <2>1. t # r.task /\ pc[t] = "blocked"
    BY <1>5, <1>8
  <2>2. PICK j \in 1 .. Len(queue) : queue[j].task = t
    BY <1>1, <2>1 DEF Asks, BlockedAsked
  <2>3. j - 1 \in 1 .. Len(queue') /\ queue'[j - 1] = queue[j]
    BY <1>2, <2>1, <2>2
  <2> QED
    BY <2>2, <2>3
<1>9. BlockedAsked'
  BY <1>8 DEF BlockedAsked
<1>10. ASSUME NEW v \in verdicts'
       PROVE  v.num \in 1 .. asked /\ \A i \in 1 .. Len(queue') : v.num # queue'[i].num
  <2>1. CASE v \in verdicts
    BY <2>1, <1>2 DEF Asks, Undecided
  <2>2. CASE v = [num |-> r.num, given |-> r.num]
    BY <2>2, <1>2, <1>3 DEF Asks, QueueOpen, Open, OpenIn, Apart
  <2> QED
    BY <1>4, <2>1, <2>2
<1>11. Undecided'
  BY <1>1, <1>10 DEF Undecided
<1>12. DecidedOnce'
  <2>1. \A v \in verdicts : v.num # r.num
    BY <1>2 DEF Asks, Undecided
  <2> QED
    BY <1>4, <2>1, DecidedKept DEF Asks
<1> QED
  BY <1>6, <1>7, <1>9, <1>11, <1>12 DEF Asks

(* The request at the head of the queue gets the dialog.                   *)
LEMMA PopShownAsks ==
  ASSUME Typed, Asks, PopShown
  PROVE  Asks'
<1> DEFINE r == Head(queue)
<1>1. /\ queue \in Seq(Request) /\ queue # <<>> /\ queue' = Tail(queue)
      /\ dialog = NoRequest /\ dialog' = r /\ waiting' = Inserted(r)
      /\ UNCHANGED <<pc, asked, verdicts>>
  BY DEF Typed, StoreTypes, PopShown, tasks, history
<1>2. /\ r \in Request /\ r = queue[1] /\ Len(queue) \in Nat \ {0}
      /\ Len(queue') = Len(queue) - 1
      /\ \A i \in 1 .. Len(queue') : queue'[i] = queue[i + 1] /\ i + 1 \in 1 .. Len(queue)
  BY <1>1, Popped
<1> HIDE DEF r
<1>3. r # NoRequest /\ Open(r)
  BY <1>2, RequestAssumption DEF Asks, QueueOpen
<1>4. \A i \in 1 .. Len(queue') : Open(queue'[i]) /\ Apart(queue'[i], r)
  BY <1>1, <1>2 DEF Asks, QueueOpen
<1>5. QueueOpen'
  <2>1. \A i, j \in 1 .. Len(queue') : i # j => Apart(queue'[i], queue'[j])
    BY <1>2 DEF Asks, QueueOpen
  <2> QED
    BY <1>1, <1>4, <2>1 DEF QueueOpen, Open, OpenIn, Apart
<1>6. DialogOpen'
  <2>1. waiting = {}
    BY <1>1 DEF Asks, DialogOpen
  <2>2. waiting' = {r}
    BY <1>1, <2>1 DEF Inserted
  <2> QED
    BY <1>1, <1>3, <1>4, <2>2 DEF DialogOpen, Open, OpenIn, Apart
<1>7. ASSUME NEW t \in Tasks, pc'[t] = "blocked"
      PROVE  (\E i \in 1 .. Len(queue') : queue'[i].task = t) \/ r.task = t
  <2>1. PICK j \in 1 .. Len(queue) : queue[j].task = t
    BY <1>1, <1>7 DEF Asks, BlockedAsked
  <2>2. CASE j = 1
    BY <1>2, <2>1, <2>2
  <2>3. CASE j # 1
    <3>1. j - 1 \in 1 .. Len(queue') /\ queue'[j - 1] = queue[j]
      BY <1>2, <2>1, <2>3
    <3> QED
      BY <2>1, <3>1
  <2> QED
    BY <2>2, <2>3
<1>8. BlockedAsked'
  BY <1>1, <1>3, <1>7 DEF BlockedAsked
<1>9. Undecided' /\ DecidedOnce'
  BY <1>1, <1>2 DEF Asks, Undecided, DecidedOnce
<1> QED
  BY <1>5, <1>6, <1>8, <1>9 DEF Asks

(* A tool asks: its request is the newest.                                 *)
LEMMA ToolAsksAsks ==
  ASSUME Typed, Asks, NEW t \in Tasks, ToolAsks(t)
  PROVE  Asks'
<1> DEFINE r == [id |-> counter, num |-> asked + 1, task |-> t]
<1>1. /\ queue \in Seq(Request) /\ asked \in Nat /\ pc \in [Tasks -> Places]
      /\ pc[t] = "tool" /\ asked' = asked + 1 /\ queue' = Append(queue, r)
      /\ pc' = [pc EXCEPT ![t] = "blocked"]
      /\ UNCHANGED <<dialog, waiting, verdicts>>
  BY DEF Typed, StoreTypes, TaskTypes, ToolAsks, loop
<1>2. r \in Request /\ r.num = asked + 1 /\ r.task = t
  BY TurnLoopAssumption DEF Typed, StoreTypes, TaskTypes, ToolAsks, Request
<1> HIDE DEF r
<1>3. /\ Len(queue') = Len(queue) + 1 /\ Len(queue) \in Nat
      /\ queue'[Len(queue) + 1] = r
      /\ \A i \in 1 .. Len(queue) : queue'[i] = queue[i] /\ queue[i] \in Request
  BY <1>1, <1>2, Pushed
<1>4. pc'[t] = "blocked" /\ \A u \in Tasks : u # t => pc'[u] = pc[u]
  BY <1>1
<1>5. \A q \in Request : Open(q) => OpenIn(asked', pc', q) /\ Apart(q, r) /\ Apart(r, q)
  BY <1>1, <1>2, <1>4 DEF Open, OpenIn, Apart, Request
<1>6. OpenIn(asked', pc', r)
  BY <1>1, <1>2, <1>4 DEF Open, OpenIn
<1>7. QueueOpen'
  <2>1. \A i \in 1 .. Len(queue') : i \in 1 .. Len(queue) \/ i = Len(queue) + 1
    BY <1>3
  <2>2. \A i \in 1 .. Len(queue') : OpenIn(asked', pc', queue'[i])
    BY <1>3, <1>5, <1>6, <2>1 DEF Asks, QueueOpen
  <2>3. ASSUME NEW i \in 1 .. Len(queue'), NEW j \in 1 .. Len(queue'), i # j
        PROVE  Apart(queue'[i], queue'[j])
    BY <1>3, <1>5, <2>1, <2>3 DEF Asks, QueueOpen
  <2> QED
    BY <2>2, <2>3 DEF Open, QueueOpen, Apart
<1>8. DialogOpen'
  <2>1. ASSUME dialog # NoRequest
        PROVE  OpenIn(asked', pc', dialog) /\ \A i \in 1 .. Len(queue') : Apart(queue'[i], dialog)
    <3>1. dialog \in Request /\ Open(dialog)
      BY <2>1 DEF Typed, StoreTypes, Asks, DialogOpen
    <3> QED
      BY <1>3, <1>5, <2>1, <3>1 DEF Asks, DialogOpen
  <2> QED
    BY <1>1, <2>1 DEF Asks, DialogOpen, Open, OpenIn, Apart
<1>9. ASSUME NEW u \in Tasks, pc'[u] = "blocked"
      PROVE  \/ \E i \in 1 .. Len(queue') : queue'[i].task = u
             \/ dialog' # NoRequest /\ dialog'.task = u
  <2>1. CASE u = t
    BY <1>2, <1>3, <2>1
  <2>2. CASE u # t
    BY <1>1, <1>3, <1>4, <1>9, <2>2 DEF Asks, BlockedAsked
  <2> QED
    BY <2>1, <2>2
<1>10. BlockedAsked'
  BY <1>9 DEF BlockedAsked
<1>11. Undecided' /\ DecidedOnce'
  BY <1>1, <1>2, <1>3 DEF Asks, Undecided, DecidedOnce
<1> QED
  BY <1>7, <1>8, <1>10, <1>11 DEF Asks

-----------------------------------------------------------------------------
(* Every other step neither asks nor answers.                              *)

Unasked == UNCHANGED <<queue, waiting, dialog, asked, verdicts>>

(* Nobody starts to run who did not, and no query is launched.             *)
NobodyStarts ==
  /\ launched' = launched
  /\ \A q \in Queries : pc[q] \in {"idle", "done"} => pc'[q] = pc[q]

LEMMA StillNotLaunched ==
  ASSUME NotLaunched, NobodyStarts
  PROVE  NotLaunched'
  BY DEF NotLaunched, NobodyStarts

(* A task that is not blocked goes from one place to another.              *)
LEMMA MovedQuietly ==
  ASSUME Typed, Asks, Unasked, launched' = launched,
         NEW t \in Tasks, NEW p, p # "blocked",
         pc[t] \notin {"blocked", "idle", "done"},
         pc' = [pc EXCEPT ![t] = p]
  PROVE  Asks' /\ NobodyStarts
<1>1. pc \in [Tasks -> Places]
  BY DEF Typed, TaskTypes
<1>2. \A u \in Tasks : pc'[u] = IF u = t THEN p ELSE pc[u]
  BY <1>1
<1>3. Asks'
  BY <1>2, QuietAsks DEF Unasked
<1>4. NobodyStarts
  BY <1>2 DEF NobodyStarts, Tasks
<1> QED
  BY <1>3, <1>4

(* The query that is launched was not running, and no agent is a number.   *)
LEMMA LaunchedQuietly ==
  ASSUME Typed, Asks, NotLaunched, Unasked, Launch
  PROVE  /\ Asks' /\ NotLaunched'
         /\ \A q \in Queries : q # launched + 1 => pc'[q] = pc[q]
<1> DEFINE n == launched + 1
<1>1. /\ pc \in [Tasks -> Places] /\ launched \in Nat /\ launched' = n
      /\ pc' = [pc EXCEPT ![n] = "turn"]
  BY DEF Typed, TaskTypes, Launch
<1>2. n \in Nat \ {0} /\ n > launched /\ \A q \in Queries : q > n => q > launched
  BY <1>1, TurnLoopAssumption DEF Queries
<1> HIDE DEF n
<1>3. \A t \in Tasks : t # n => pc'[t] = pc[t]
  BY <1>1
<1>4. n \in Tasks => n \in Queries /\ pc[n] = "idle" /\ pc'[n] = "turn"
  BY <1>1, <1>2, TaskAssumption DEF Tasks, NotLaunched
<1>5. Asks'
  BY <1>3, <1>4, QuietAsks DEF Unasked
<1>6. NotLaunched'
  BY <1>1, <1>2, <1>3 DEF NotLaunched, Tasks, Queries
<1>7. \A q \in Queries : q # n => pc'[q] = pc[q]
  BY <1>3 DEF Tasks
<1> QED
  BY <1>5, <1>6, <1>7 DEF n

(* The task of a decided request was blocked on it.                        *)
LEMMA DecidedStartsNobody ==
  ASSUME Typed, NEW r \in Request, NEW g, Open(r), Decide(r, g), launched' = launched
  PROVE  NobodyStarts
<1>1. pc \in [Tasks -> Places] /\ pc' = [pc EXCEPT ![r.task] = "tool"]
      /\ pc[r.task] = "blocked"
  BY DEF Typed, TaskTypes, Decide, Open, OpenIn
<1> QED
  BY <1>1 DEF NobodyStarts, Tasks

LEMMA AnswerDialogQuietly ==
  ASSUME Typed, Asks, AnswerDialog, dialog # NoRequest,
         UNCHANGED <<queue, asked, launched>>
  PROVE  Asks' /\ NobodyStarts
<1>1. waiting = {dialog} /\ dialog \in Request /\ Open(dialog)
  BY DEF Typed, StoreTypes, Asks, DialogOpen
<1>2. Decide(dialog, dialog.num)
  BY <1>1 DEF AnswerDialog
<1>3. NobodyStarts
  BY <1>1, <1>2, DecidedStartsNobody
<1> QED
  BY <1>3, AnswerDialogAsks

-----------------------------------------------------------------------------
(* The inductive invariant: besides the requests, where the queries are.   *)

Held == Typed /\ Asks /\ NotLaunched /\ RemoteTurnsNeverDisplace

LEMMA InitHeld == Init => Held
<1> SUFFICES ASSUME Init PROVE Held
  OBVIOUS
<1>1. \A q \in Queries : pc[q] = "idle"
  BY DEF Init, Tasks
<1>2. RemoteTurnsNeverDisplace
  BY <1>1 DEF RemoteTurnsNeverDisplace, Running
<1> QED
  BY <1>2, InitTyped, InitAsks DEF Held

LEMMA StillNotDisplaced ==
  ASSUME RemoteTurnsNeverDisplace, NobodyStarts, UNCHANGED <<current, displaced>>
  PROVE  RemoteTurnsNeverDisplace'
  BY DEF RemoteTurnsNeverDisplace, Running, NobodyStarts, Known

(* The steps that only move a task on, and those that do not touch tasks.  *)
LEMMA MovedHeld ==
  ASSUME Held, Unasked, UNCHANGED <<launched, current, displaced>>,
         NEW t \in Tasks, NEW p, p # "blocked",
         pc[t] \notin {"blocked", "idle", "done"},
         pc' = [pc EXCEPT ![t] = p]
  PROVE  Asks' /\ NotLaunched' /\ RemoteTurnsNeverDisplace'
  BY MovedQuietly, StillNotLaunched, StillNotDisplaced DEF Held

LEMMA IdleHeld ==
  ASSUME Held, Unasked, UNCHANGED <<launched, pc, current, displaced>>
  PROVE  Asks' /\ NotLaunched' /\ RemoteTurnsNeverDisplace'
<1>1. NobodyStarts
  BY DEF NobodyStarts
<1>2. Asks'
  BY QuietAsks DEF Held, Unasked
<1> QED
  BY <1>1, <1>2, StillNotLaunched, StillNotDisplaced DEF Held

(* A query starts, over another one only if that is noted as displaced.    *)
LEMMA LaunchHeld ==
  ASSUME Held, Unasked, Launch, displaced' = displaced \cup Known(current)
  PROVE  Asks' /\ NotLaunched' /\ RemoteTurnsNeverDisplace'
<1>1. /\ Asks' /\ NotLaunched'
      /\ \A q \in Queries : q # launched + 1 => pc'[q] = pc[q]
  BY LaunchedQuietly DEF Held
<1>2. current' = launched + 1 /\ launched \in Nat
  BY DEF Launch, Held, Typed, TaskTypes
<1>3. launched + 1 # NoTask
  BY <1>2, TaskAssumption
<1>4. RemoteTurnsNeverDisplace'
  BY <1>1, <1>2, <1>3 DEF Held, RemoteTurnsNeverDisplace, Running, Known
<1> QED
  BY <1>1, <1>4

LEMMA SubmitHeld ==
  ASSUME Held, Unasked, Submit
  PROVE  Asks' /\ NotLaunched' /\ RemoteTurnsNeverDisplace'
<1>1. CASE SubmitQueued
  BY <1>1, IdleHeld DEF SubmitQueued
<1>2. CASE SubmitNothing
  BY <1>2, IdleHeld DEF SubmitNothing
<1>3. CASE SubmitTurn
  BY <1>3, LaunchHeld DEF SubmitTurn
<1> QED
  BY <1>1, <1>2, <1>3 DEF Submit

LEMMA DialogHeld ==
  ASSUME Held, AnswerDialog, dialog # NoRequest,
         UNCHANGED <<queue, asked, launched, current, displaced>>
  PROVE  Asks' /\ NotLaunched' /\ RemoteTurnsNeverDisplace'
  BY AnswerDialogQuietly, StillNotLaunched, StillNotDisplaced DEF Held

LEMMA KeyHeld ==
  ASSUME Held,
         NoKey \/ TypeMessage \/ AnswerKey \/ EnterKey \/ SynthesizedEnter \/ CtrlC
           \/ EscKey
  PROVE  Asks' /\ NotLaunched' /\ RemoteTurnsNeverDisplace'
<1>1. CASE NoKey \/ TypeMessage \/ CtrlC \/ EscKey
  BY <1>1, IdleHeld
     DEF NoKey, TypeMessage, CtrlC, EscKey, Unasked, store, tasks, bridge, history
<1>2. CASE AnswerKey
  BY <1>2, DialogHeld DEF AnswerKey
<1>3. CASE EnterKey
  BY <1>3, SubmitHeld DEF EnterKey, Unasked, store
<1>4. CASE SynthesizedEnter
  BY <1>4, SubmitHeld, DialogHeld DEF SynthesizedEnter, Unasked
<1> QED
  BY <1>1, <1>2, <1>3, <1>4

LEMMA SectionHeld ==
  ASSUME Held,
         PermissionsDone \/ PopDecided \/ PopShown \/ DrainEvents \/ BridgeDone
           \/ HandlePrompt \/ HandleCancel \/ HandleAnswer
           \/ StartDeferred \/ PromptsDone \/ FinishQuery \/ NothingFinished
  PROVE  Asks' /\ NotLaunched' /\ RemoteTurnsNeverDisplace'
<1>1. CASE PermissionsDone \/ DrainEvents \/ BridgeDone \/ HandlePrompt \/ HandleCancel
             \/ PromptsDone \/ NothingFinished
  BY <1>1, IdleHeld
     DEF PermissionsDone, DrainEvents, BridgeDone, HandlePrompt, HandleCancel, PromptsDone,
         NothingFinished, Unasked, store, tasks, bridge, history
<1>2. CASE PopDecided
  <2>1. Asks' /\ queue \in Seq(Request) /\ queue # <<>>
    BY <1>2, PopDecidedAsks DEF Held, Typed, StoreTypes, PopDecided
  <2>2. Head(queue) \in Request /\ Open(Head(queue))
    BY <2>1, Popped DEF Held, Asks, QueueOpen
  <2>3. NobodyStarts /\ UNCHANGED <<current, displaced>>
    BY <1>2, <2>2, DecidedStartsNobody DEF PopDecided, Held, loop
  <2> QED
    BY <2>1, <2>3, StillNotLaunched, StillNotDisplaced DEF Held
<1>3. CASE PopShown
  <2>1. NobodyStarts /\ UNCHANGED <<current, displaced>>
    BY <1>3 DEF PopShown, tasks, history, NobodyStarts
  <2> QED
    BY <1>3, <2>1, PopShownAsks, StillNotLaunched, StillNotDisplaced DEF Held
<1>4. CASE HandleAnswer
  <2> DEFINE a == Head(inbox).request
             match == {r \in waiting : r.id = a.id}
  <2>1. CASE match = {}
    BY <1>4, <2>1, IdleHeld DEF HandleAnswer, Unasked
  <2>2. CASE match # {}
    <3>1. waiting = {dialog} /\ dialog \in Request /\ dialog # NoRequest /\ Open(dialog)
      BY <2>2 DEF Held, Typed, StoreTypes, Asks, DialogOpen
    <3>2. dialog.id = a.id /\ match = {dialog}
      BY <2>2, <3>1
    <3>3. /\ waiting' = {} /\ Decide(dialog, a.num) /\ dialog' = NoRequest
          /\ UNCHANGED <<queue, asked, launched, current, displaced>>
      BY <1>4, <3>1, <3>2 DEF HandleAnswer
    <3>4. Asks'
      BY <3>1, <3>3, SettledAsks DEF Held
    <3>5. NobodyStarts
      BY <3>1, <3>3, DecidedStartsNobody DEF Held
    <3> QED
      BY <3>3, <3>4, <3>5, StillNotLaunched, StillNotDisplaced DEF Held
  <2> QED
    BY <2>1, <2>2
<1>5. CASE StartDeferred
  <2>1. CASE Launch
    <3>1. displaced' = displaced \cup Known(current) /\ Unasked
      BY <1>5 DEF StartDeferred, RemoteTurnCanStart, Known, Unasked, store
    <3> QED
      BY <2>1, <3>1, LaunchHeld
  <2>2. CASE UNCHANGED <<pc, launched, current>>
    BY <1>5, <2>2, IdleHeld DEF StartDeferred, Unasked, store
  <2> QED
    BY <1>5, <2>1, <2>2 DEF StartDeferred
<1>6. CASE FinishQuery
  <2>1. Unasked /\ UNCHANGED <<pc, launched, displaced>> /\ pc[current] = "done"
    BY <1>6 DEF FinishQuery, Unasked, store, tasks, history
  <2>2. Asks'
    BY <2>1, QuietAsks DEF Held, Unasked
  <2>3. NotLaunched'
    BY <2>1 DEF Held, NotLaunched
  <2>4. RemoteTurnsNeverDisplace'
    BY <2>1 DEF Held, RemoteTurnsNeverDisplace, Running, Known
  <2> QED
    BY <2>2, <2>3, <2>4
<1> QED
  BY <1>1, <1>2, <1>3, <1>4, <1>5, <1>6

LEMMA TaskHeld ==
  ASSUME Held, NEW t \in Tasks, Delta(t) \/ TaskProgress(t)
  PROVE  Asks' /\ NotLaunched' /\ RemoteTurnsNeverDisplace'
<1>1. CASE Delta(t)
  BY <1>1, IdleHeld DEF Delta, Unasked, loop, store, bridge, history
<1>2. CASE TurnCancelled(t) \/ TurnBegin(t)
  BY <1>2, MovedHeld
     DEF TurnCancelled, TurnBegin, Unasked, loop, store, bridge, history
<1>3. CASE ModelBreaks(t) \/ ModelCallsTools(t) \/ ModelEnds(t)
  BY <1>3, MovedHeld
     DEF ModelBreaks, ModelCallsTools, ModelEnds, Unasked, loop, store, bridge, history
<1>4. CASE QueryReturns(t) \/ QueryGoesOn(t)
  BY <1>4, MovedHeld DEF QueryReturns, QueryGoesOn, Unasked, loop, store, bridge, history
<1>5. CASE ToolStart(t) \/ ToolRuns(t) \/ ToolAbandoned(t)
  BY <1>5, MovedHeld
     DEF ToolStart, ToolRuns, ToolAbandoned, Unasked, loop, store, bridge, history
<1>6. CASE ToolAsks(t)
  <2>1. pc \in [Tasks -> Places] /\ pc[t] = "tool" /\ pc' = [pc EXCEPT ![t] = "blocked"]
        /\ UNCHANGED <<launched, current, displaced>>
    BY <1>6 DEF ToolAsks, Held, Typed, TaskTypes, loop
  <2>2. NobodyStarts
    BY <2>1 DEF NobodyStarts, Tasks
  <2> QED
    BY <1>6, <2>1, <2>2, ToolAsksAsks, StillNotLaunched, StillNotDisplaced DEF Held
<1>7. ASSUME NEW a \in Agents, ToolSpawns(t, a)
      PROVE  Asks' /\ NotLaunched' /\ RemoteTurnsNeverDisplace'
  <2>1. /\ pc \in [Tasks -> Places] /\ pc[t] = "tool" /\ pc[a] = "idle"
        /\ pc' = [pc EXCEPT ![t] = "turn", ![a] = "turn"]
        /\ Unasked /\ UNCHANGED <<launched, current, displaced>>
    BY <1>7 DEF ToolSpawns, Held, Typed, TaskTypes, Unasked, loop, store, bridge, history
  <2>2. \A u \in Tasks : pc'[u] = IF u = t \/ u = a THEN "turn" ELSE pc[u]
    BY <2>1
  <2>3. Asks'
    BY <2>1, <2>2, QuietAsks DEF Held, Unasked
  <2>4. NobodyStarts
    BY <2>1, <2>2, TaskAssumption DEF NobodyStarts, Tasks, Queries
  <2> QED
    BY <2>1, <2>3, <2>4, StillNotLaunched, StillNotDisplaced DEF Held
<1> QED
  BY <1>1, <1>2, <1>3, <1>4, <1>5, <1>6, <1>7 DEF TaskProgress

LEMMA NextHeld == Held /\ [Next]_vars => Held'
<1> SUFFICES ASSUME Held, [Next]_vars PROVE Held'
  OBVIOUS
<1>1. Typed'
  BY NextTyped DEF Held
<1>2. CASE LoopStep
  BY <1>1, <1>2, KeyHeld, SectionHeld DEF LoopStep, Held
<1>3. CASE \E t \in Tasks : Delta(t) \/ TaskProgress(t)
  BY <1>1, <1>3, TaskHeld DEF Held
<1>4. CASE RemoteStep
  <2>1. Unasked /\ UNCHANGED <<launched, pc, current, displaced>>
    BY <1>4 DEF RemoteStep, RemotePrompt, RemoteCancel, RemoteAnswer, Unasked,
                loop, store, tasks, history
  <2> QED
    BY <1>1, <2>1, IdleHeld DEF Held
<1>5. CASE UNCHANGED vars
  <2>1. Unasked /\ UNCHANGED <<launched, pc, current, displaced>>
    BY <1>5 DEF vars, Unasked, loop, store, tasks, history
  <2> QED
    BY <1>1, <2>1, IdleHeld DEF Held
<1> QED
  BY <1>2, <1>3, <1>4, <1>5 DEF Next

(* A blocked tool's request is in the store, undecided, and the one that   *)
(* left the queue is the one on screen; whoever answers, no tool is left   *)
(* with a request nobody can answer (main.rs, PendingPermissionStore).     *)
THEOREM BlockedToolsAreAsked == Spec => []EveryAskIsOpen
<1>1. Held => EveryAskIsOpen
  BY AsksAreOpen DEF Held
<1> QED
  BY <1>1, InitHeld, NextHeld, PTL DEF Spec

(* A query runs unheld only if a typed message displaced it: a prompt from *)
(* the bridge never does (main.rs, remote_turn_can_start).                 *)
THEOREM RemoteTurnsDisplaceNobody == Spec => []RemoteTurnsNeverDisplace
<1>1. Held => RemoteTurnsNeverDisplace
  BY DEF Held
<1> QED
  BY <1>1, InitHeld, NextHeld, PTL DEF Spec

-----------------------------------------------------------------------------
(* PromptsInOrder.  The prompts that were started, those set aside and those *)
(* still on their way are numbered upwards, in that order.                   *)

Ascending(s) == \A i, j \in 1 .. Len(s) : i < j => s[i] < s[j]

SentSoFar(s) == \A i \in 1 .. Len(s) : s[i] \in 1 .. sent

AllBelow(s, p) == \A i \in 1 .. Len(s) : s[i] < p

InboxOrder ==
  /\ \A i \in 1 .. Len(inbox) : inbox[i].kind = "prompt" =>
       /\ inbox[i].prompt \in 1 .. sent
       /\ AllBelow(started, inbox[i].prompt) /\ AllBelow(deferred, inbox[i].prompt)
  /\ \A i, j \in 1 .. Len(inbox) :
       i < j /\ inbox[i].kind = "prompt" /\ inbox[j].kind = "prompt"
         => inbox[i].prompt < inbox[j].prompt

PromptOrder ==
  /\ Ascending(started) /\ SentSoFar(started)
  /\ Ascending(deferred) /\ SentSoFar(deferred)
  /\ \A i \in 1 .. Len(deferred) : AllBelow(started, deferred[i])
  /\ InboxOrder

LEMMA InitPromptOrder == Init => PromptOrder
  BY DEF Init, PromptOrder, Ascending, SentSoFar, AllBelow, InboxOrder

(* A message that is no prompt leaves the inbox, or comes to it.           *)
LEMMA InboxPopped ==
  ASSUME Typed, PromptOrder, inbox # <<>>, inbox' = Tail(inbox),
         UNCHANGED <<started, deferred, sent>>
  PROVE  PromptOrder'
<1>1. /\ Len(inbox') = Len(inbox) - 1 /\ Len(inbox) \in Nat
      /\ \A i \in 1 .. Len(inbox') : inbox'[i] = inbox[i + 1] /\ i + 1 \in 1 .. Len(inbox)
  BY Popped DEF Typed, PromptTypes
<1>2. InboxOrder'
  BY <1>1 DEF PromptOrder, InboxOrder, AllBelow
<1> QED
  BY <1>2 DEF PromptOrder, Ascending, SentSoFar, AllBelow

LEMMA InboxPushed ==
  ASSUME Typed, PromptOrder, NEW m \in Messages, m.kind # "prompt",
         inbox' = Append(inbox, m), UNCHANGED <<started, deferred, sent>>
  PROVE  PromptOrder'
<1>1. /\ Len(inbox') = Len(inbox) + 1 /\ Len(inbox) \in Nat
      /\ inbox'[Len(inbox) + 1] = m
      /\ \A i \in 1 .. Len(inbox) : inbox'[i] = inbox[i]
  BY Pushed DEF Typed, PromptTypes
<1>2. \A i \in 1 .. Len(inbox') : inbox'[i].kind = "prompt" => i \in 1 .. Len(inbox)
  BY <1>1
<1>3. InboxOrder'
  BY <1>1, <1>2 DEF PromptOrder, InboxOrder, AllBelow
<1> QED
  BY <1>3 DEF PromptOrder, Ascending, SentSoFar, AllBelow

(* A prompt is sent: its number is new.                                    *)
LEMMA PromptSent ==
  ASSUME Typed, PromptOrder, RemotePrompt
  PROVE  PromptOrder'
<1> DEFINE m == [kind |-> "prompt", prompt |-> sent + 1]
<1>1. /\ inbox' = Append(inbox, m) /\ sent' = sent + 1 /\ sent \in Nat
      /\ UNCHANGED <<started, deferred>>
  BY DEF Typed, PromptTypes, RemotePrompt, loop
<1>2. m \in Messages
  BY TurnLoopAssumption, <1>1 DEF RemotePrompt, Messages
<1>3. /\ Len(inbox') = Len(inbox) + 1 /\ Len(inbox) \in Nat
      /\ inbox'[Len(inbox) + 1] = m
      /\ \A i \in 1 .. Len(inbox) : inbox'[i] = inbox[i]
  BY <1>1, <1>2, Pushed DEF Typed, PromptTypes
<1>4. SentSoFar(started)' /\ SentSoFar(deferred)'
  BY <1>1 DEF PromptOrder, SentSoFar
<1>5. AllBelow(started, sent + 1) /\ AllBelow(deferred, sent + 1)
  BY <1>1 DEF PromptOrder, SentSoFar, AllBelow
<1>6. \A i \in 1 .. Len(inbox') : i \in 1 .. Len(inbox) \/ i = Len(inbox) + 1
  BY <1>3
<1>7. ASSUME NEW i \in 1 .. Len(inbox'), inbox'[i].kind = "prompt"
      PROVE  /\ inbox'[i].prompt \in 1 .. sent'
             /\ AllBelow(started, inbox'[i].prompt) /\ AllBelow(deferred, inbox'[i].prompt)
  BY <1>1, <1>3, <1>5, <1>6, <1>7 DEF PromptOrder, InboxOrder
<1>8. ASSUME NEW i \in 1 .. Len(inbox'), NEW j \in 1 .. Len(inbox'), i < j,
             inbox'[i].kind = "prompt", inbox'[j].kind = "prompt"
      PROVE  inbox'[i].prompt < inbox'[j].prompt
  <2>1. i \in 1 .. Len(inbox) /\ inbox[i].prompt \in 1 .. sent
    BY <1>3, <1>6, <1>8 DEF PromptOrder, InboxOrder
  <2>2. CASE j \in 1 .. Len(inbox)
    BY <1>3, <1>8, <2>1, <2>2 DEF PromptOrder, InboxOrder
  <2>3. CASE j = Len(inbox) + 1
    BY <1>1, <1>3, <2>1, <2>3
  <2> QED
    BY <1>6, <2>2, <2>3
<1>9. InboxOrder'
  BY <1>1, <1>7, <1>8 DEF InboxOrder, AllBelow
<1> QED
  BY <1>1, <1>4, <1>9 DEF PromptOrder, Ascending, AllBelow

(* The loop sets a prompt aside, behind the others.                        *)
LEMMA PromptSetAside ==
  ASSUME Typed, PromptOrder, HandlePrompt
  PROVE  PromptOrder'
<1> DEFINE p == Head(inbox).prompt
<1>1. /\ inbox \in Seq(Messages) /\ inbox # <<>> /\ Head(inbox).kind = "prompt"
      /\ inbox' = Tail(inbox) /\ deferred' = Append(deferred, p)
      /\ UNCHANGED <<started, sent>> /\ sent \in Nat /\ deferred \in Seq(Nat)
  BY DEF Typed, PromptTypes, HandlePrompt, history
<1>2. /\ Head(inbox) = inbox[1] /\ Len(inbox) \in Nat \ {0}
      /\ Len(inbox') = Len(inbox) - 1
      /\ \A i \in 1 .. Len(inbox') : inbox'[i] = inbox[i + 1] /\ i + 1 \in 1 .. Len(inbox)
  BY <1>1, Popped
<1>3. p \in 1 .. sent /\ AllBelow(started, p) /\ AllBelow(deferred, p)
  BY <1>1, <1>2 DEF PromptOrder, InboxOrder
<1>4. \A i \in 1 .. Len(inbox') : inbox'[i].kind = "prompt" => p < inbox'[i].prompt
  BY <1>1, <1>2 DEF PromptOrder, InboxOrder
<1> HIDE DEF p
<1>5. /\ Len(deferred') = Len(deferred) + 1 /\ Len(deferred) \in Nat
      /\ deferred'[Len(deferred) + 1] = p
      /\ \A i \in 1 .. Len(deferred) : deferred'[i] = deferred[i]
      /\ \A i \in 1 .. Len(deferred') : i \in 1 .. Len(deferred) \/ i = Len(deferred) + 1
  <2>1. p \in Nat
    BY <1>1, <1>3
  <2> QED
    BY <1>1, <2>1, Pushed
<1>6. Ascending(deferred)'
  BY <1>3, <1>5 DEF PromptOrder, Ascending, AllBelow
<1>7. SentSoFar(deferred)' /\ \A i \in 1 .. Len(deferred') : AllBelow(started, deferred'[i])
  BY <1>1, <1>3, <1>5 DEF PromptOrder, SentSoFar
<1>8. ASSUME NEW i \in 1 .. Len(inbox'), inbox'[i].kind = "prompt"
      PROVE  /\ inbox'[i].prompt \in 1 .. sent
             /\ AllBelow(started, inbox'[i].prompt) /\ AllBelow(deferred', inbox'[i].prompt)
  <2>1. /\ inbox'[i].prompt \in 1 .. sent /\ AllBelow(started, inbox'[i].prompt)
        /\ AllBelow(deferred, inbox'[i].prompt)
    BY <1>2, <1>8 DEF PromptOrder, InboxOrder
  <2>2. AllBelow(deferred', inbox'[i].prompt)
    BY <1>4, <1>5, <1>8, <2>1 DEF AllBelow
  <2> QED
    BY <2>1, <2>2
<1>9. \A i, j \in 1 .. Len(inbox') :
        i < j /\ inbox'[i].kind = "prompt" /\ inbox'[j].kind = "prompt"
          => inbox'[i].prompt < inbox'[j].prompt
  BY <1>2 DEF PromptOrder, InboxOrder
<1>10. InboxOrder'
  BY <1>1, <1>8, <1>9 DEF InboxOrder, AllBelow
<1> QED
  BY <1>1, <1>6, <1>7, <1>10 DEF PromptOrder, Ascending, SentSoFar, AllBelow

(* The first of the prompts set aside is started.                          *)
LEMMA PromptStarted ==
  ASSUME Typed, PromptOrder, StartDeferred
  PROVE  /\ PromptOrder'
         /\ Feed!Extends(started, started') /\ sent' = sent
<1> DEFINE p == Head(deferred)
<1>1. /\ deferred \in Seq(Nat) /\ deferred # <<>> /\ deferred' = Tail(deferred)
      /\ started' = Append(started, p) /\ started \in Seq(Nat)
      /\ UNCHANGED <<inbox, sent>>
  BY DEF Typed, PromptTypes, StartDeferred, bridge
<1>2. /\ p = deferred[1] /\ p \in Nat /\ Len(deferred) \in Nat \ {0}
      /\ Len(deferred') = Len(deferred) - 1
      /\ \A i \in 1 .. Len(deferred') :
           deferred'[i] = deferred[i + 1] /\ i + 1 \in 1 .. Len(deferred)
  BY <1>1, Popped
<1>3. p \in 1 .. sent /\ AllBelow(started, p)
      /\ \A i \in 1 .. Len(deferred') : p < deferred'[i]
  BY <1>1, <1>2 DEF PromptOrder, SentSoFar, Ascending
<1>4. \A i \in 1 .. Len(inbox) : inbox[i].kind = "prompt" =>
        p < inbox[i].prompt /\ AllBelow(deferred', inbox[i].prompt)
  BY <1>2 DEF PromptOrder, InboxOrder, AllBelow
<1> HIDE DEF p
<1>5. /\ Len(started') = Len(started) + 1 /\ Len(started) \in Nat
      /\ started'[Len(started) + 1] = p
      /\ \A i \in 1 .. Len(started) : started'[i] = started[i]
      /\ \A i \in 1 .. Len(started') : i \in 1 .. Len(started) \/ i = Len(started) + 1
  BY <1>1, <1>2, Pushed
<1>6. Ascending(started)' /\ SentSoFar(started)'
  BY <1>1, <1>3, <1>5 DEF PromptOrder, Ascending, SentSoFar, AllBelow
<1>7. Ascending(deferred)' /\ SentSoFar(deferred)'
  BY <1>1, <1>2 DEF PromptOrder, Ascending, SentSoFar
<1>8. \A i \in 1 .. Len(deferred') : AllBelow(started', deferred'[i])
  BY <1>2, <1>3, <1>5 DEF PromptOrder, AllBelow
<1>9. \A i \in 1 .. Len(inbox) : inbox[i].kind = "prompt" =>
        AllBelow(started', inbox[i].prompt)
  BY <1>4, <1>5 DEF PromptOrder, InboxOrder, AllBelow
<1>10. InboxOrder'
  BY <1>1, <1>4, <1>9 DEF PromptOrder, InboxOrder, AllBelow
<1>11. Feed!Extends(started, started')
  BY <1>5 DEF Feed!Extends
<1> QED
  BY <1>1, <1>6, <1>7, <1>8, <1>10, <1>11 DEF PromptOrder, AllBelow

PromptFed ==
  /\ PromptOrder'
  /\ [Feed!Next]_<<sent, [r \in {"loop"} |-> started]>>

LEMMA FedByStutter ==
  ASSUME Typed, PromptOrder, UNCHANGED <<started, deferred, inbox, sent>>
  PROVE  PromptFed
  BY DEF PromptFed, PromptOrder, InboxOrder, Ascending, SentSoFar, AllBelow

LEMMA PromptStep ==
  ASSUME Typed, PromptOrder, [Next]_vars
  PROVE  PromptFed
<1>1. CASE HandlePrompt
  <2>1. UNCHANGED <<sent, started>>
    BY <1>1 DEF HandlePrompt, history
  <2> QED
    BY <1>1, <2>1, PromptSetAside DEF PromptFed
<1>2. CASE HandleCancel \/ HandleAnswer
  <2>1. inbox # <<>> /\ inbox' = Tail(inbox) /\ UNCHANGED <<started, deferred, sent>>
    BY <1>2 DEF HandleCancel, HandleAnswer
  <2> QED
    BY <2>1, InboxPopped DEF PromptFed
<1>3. CASE StartDeferred
  <2>1. PromptOrder' /\ Feed!Extends(started, started') /\ sent' = sent
    BY <1>3, PromptStarted
  <2>2. Feed!InOrder(started') /\ Feed!AllSent(started')
    BY <2>1 DEF PromptOrder, Ascending, SentSoFar, Feed!InOrder, Feed!AllSent
  <2>3. Feed!Deliver("loop")
    BY <2>1, <2>2 DEF Feed!Deliver
  <2> QED
    BY <2>1, <2>3 DEF PromptFed, Feed!Next
<1>4. CASE RemotePrompt
  <2>1. sent' > sent /\ UNCHANGED started
    BY <1>4 DEF RemotePrompt, Typed, PromptTypes
  <2>2. Feed!Send
    BY <2>1 DEF Feed!Send
  <2> QED
    BY <1>4, <2>2, PromptSent DEF PromptFed, Feed!Next
<1>5. CASE RemoteCancel \/ \E r \in announced : RemoteAnswer(r)
  <2>1. PICK m \in Messages : m.kind # "prompt" /\ inbox' = Append(inbox, m)
    BY <1>5 DEF RemoteCancel, RemoteAnswer, Messages, Typed, StoreTypes
  <2>2. UNCHANGED <<started, deferred, sent>>
    BY <1>5 DEF RemoteCancel, RemoteAnswer, loop, history
  <2> QED
    BY <2>1, <2>2, InboxPushed DEF PromptFed
<1>6. CASE NoKey \/ TypeMessage \/ AnswerKey \/ EnterKey \/ SynthesizedEnter
             \/ CtrlC \/ EscKey
  BY <1>6, FedByStutter
     DEF NoKey, TypeMessage, AnswerKey, EnterKey, SynthesizedEnter, CtrlC, EscKey,
         bridge, history
<1>7. CASE PermissionsDone \/ PopDecided \/ PopShown \/ DrainEvents \/ BridgeDone
             \/ PromptsDone \/ FinishQuery \/ NothingFinished
  BY <1>7, FedByStutter
     DEF PermissionsDone, PopDecided, PopShown, DrainEvents, BridgeDone, PromptsDone,
         FinishQuery, NothingFinished, loop, bridge, history
<1>8. ASSUME NEW t \in Tasks, Delta(t) \/ TaskProgress(t) PROVE PromptFed
  <2>1. UNCHANGED <<started, deferred, inbox, sent>>
    BY <1>8 DEF Delta, TaskProgress, TurnCancelled, TurnBegin, ModelBreaks,
       ModelCallsTools, ModelEnds, QueryReturns, QueryGoesOn, ToolStart, ToolRuns,
       ToolAbandoned, ToolAsks, ToolSpawns, loop, bridge, history
  <2> QED
    BY <2>1, FedByStutter
<1>9. CASE UNCHANGED vars
  BY <1>9, FedByStutter DEF vars, loop, bridge, history
<1> QED
  BY <1>1, <1>2, <1>3, <1>4, <1>5, <1>6, <1>7, <1>8, <1>9
     DEF Next, LoopStep, RemoteStep

(* Remote prompts are started at most once, in the order they were sent    *)
(* (main.rs, deferred_remote_prompts): the loop implements the feed.       *)
THEOREM PromptsReachTheLoopInOrder == Spec => PromptsInOrder
<1>1. Init => Feed!Init
  BY DEF Init, Feed!Init
<1>2. Typed /\ PromptOrder /\ [Next]_vars => PromptOrder'
  BY PromptStep DEF PromptFed
<1>3. Typed /\ PromptOrder /\ [Next]_vars
        => [Feed!Next]_<<sent, [r \in {"loop"} |-> started]>>
  BY PromptStep DEF PromptFed
<1> QED
  BY <1>1, <1>2, <1>3, InitPromptOrder, TypedInvariant, PTL
     DEF Spec, PromptsInOrder, Feed!Spec

-----------------------------------------------------------------------------
(* StopsEndWhatRan: what is stopped begins no turn.                        *)

LEMMA StoppedStep ==
  ASSUME Typed, [Next]_vars, NEW t \in Tasks, Stopped(t)
  PROVE  turn'[t] <= turn[t]
<1> USE DEF Typed, TaskTypes
<1>1. turn[t] \in Nat
  OBVIOUS
<1>2. CASE turn' = turn
  BY <1>1, <1>2
<1>3. CASE LoopStep
  <2>1. turn' = turn
    BY <1>3 DEF LoopStep, NoKey, TypeMessage, AnswerKey, EnterKey, SynthesizedEnter,
       CtrlC, EscKey, PermissionsDone, PopDecided, PopShown, DrainEvents, BridgeDone,
       HandlePrompt, HandleCancel, HandleAnswer, StartDeferred, PromptsDone,
       FinishQuery, NothingFinished, tasks
  <2> QED
    BY <1>2, <2>1
<1>4. CASE RemoteStep
  <2>1. turn' = turn
    BY <1>4 DEF RemoteStep, RemotePrompt, RemoteCancel, RemoteAnswer, tasks
  <2> QED
    BY <1>2, <2>1
<1>5. ASSUME NEW u \in Tasks, Delta(u) \/ TaskProgress(u)
      PROVE  turn'[t] <= turn[t]
  <2>1. CASE TurnBegin(u)
    <3>1. u # t /\ turn' = [turn EXCEPT ![u] = @ + 1]
      BY <2>1 DEF TurnBegin
    <3> QED
      BY <1>1, <3>1
  <2>2. CASE QueryGoesOn(u)
    BY <1>1, <2>2 DEF QueryGoesOn
  <2>3. CASE turn' = turn
    BY <1>2, <2>3
  <2> QED
    BY <1>5, <2>1, <2>2, <2>3
       DEF Delta, TaskProgress, TurnCancelled, ModelBreaks, ModelCallsTools, ModelEnds,
           QueryReturns, ToolStart, ToolRuns, ToolAbandoned, ToolAsks, ToolSpawns
<1>6. CASE UNCHANGED vars
  BY <1>2, <1>6 DEF vars, tasks
<1> QED
  BY <1>3, <1>4, <1>5, <1>6 DEF Next

(* The token the loop keeps is that of the query it keeps, so that a stop  *)
(* reaches the query that runs; and what a stop found running is cancelled. *)
Tokens ==
  /\ current # NoTask => token = current
  /\ struck \subseteq cancelled

LEMMA InitTokens == Init => Tokens
  BY DEF Init, Tokens

LEMMA SameTokens ==
  ASSUME Tokens, UNCHANGED <<current, token, struck>>, cancelled \subseteq cancelled'
  PROVE  Tokens'
  BY DEF Tokens

LEMMA LaunchTogether ==
  ASSUME Tokens, Launch, UNCHANGED <<struck, cancelled>>
  PROVE  Tokens'
  BY DEF Tokens, Launch

LEMMA SubmitTogether ==
  ASSUME Tokens, Submit, UNCHANGED <<struck, cancelled>>
  PROVE  Tokens'
<1>1. CASE SubmitQueued \/ SubmitNothing
  BY <1>1, SameTokens DEF SubmitQueued, SubmitNothing
<1>2. CASE SubmitTurn
  BY <1>2, LaunchTogether DEF SubmitTurn
<1> QED
  BY <1>1, <1>2 DEF Submit

(* A stop: all that runs and is not displaced is the query of the token.   *)
LEMMA StopReaches ==
  ASSUME Tokens, RemoteTurnsNeverDisplace, UNCHANGED <<current, token>>,
         cancelled' = IF streaming THEN cancelled \cup Known(token) ELSE cancelled,
         struck' = IF streaming THEN struck \cup (Running \ displaced) ELSE struck
  PROVE  Tokens'
<1>1. Running \ displaced \subseteq Known(current)
  BY DEF RemoteTurnsNeverDisplace
<1>2. Known(current) \subseteq Known(token)
  BY DEF Tokens, Known
<1>3. struck' \subseteq cancelled'
  BY <1>1, <1>2 DEF Tokens
<1> QED
  BY <1>3 DEF Tokens

LEMMA TokensStep ==
  ASSUME Held, Tokens, [Next]_vars
  PROVE  Tokens'
<1>1. CASE CtrlC \/ HandleCancel
  <2>1. /\ UNCHANGED <<current, token>>
        /\ cancelled' = IF streaming THEN cancelled \cup Known(token) ELSE cancelled
        /\ struck' = IF streaming THEN struck \cup (Running \ displaced) ELSE struck
    BY <1>1 DEF CtrlC, HandleCancel
  <2> QED
    BY <2>1, StopReaches DEF Held
<1>2. CASE EnterKey \/ SynthesizedEnter
  <2>1. UNCHANGED <<struck, cancelled>> /\ (Submit \/ UNCHANGED <<current, token>>)
    BY <1>2 DEF EnterKey, SynthesizedEnter
  <2> QED
    BY <2>1, SubmitTogether, SameTokens
<1>3. CASE StartDeferred
  <2>1. UNCHANGED <<struck, cancelled>> /\ (Launch \/ UNCHANGED <<current, token>>)
    BY <1>3 DEF StartDeferred
  <2> QED
    BY <2>1, LaunchTogether, SameTokens
<1>4. CASE FinishQuery
  BY <1>4 DEF FinishQuery, Tokens, tasks, history
<1>5. CASE NoKey \/ TypeMessage \/ AnswerKey \/ EscKey
  BY <1>5, SameTokens DEF NoKey, TypeMessage, AnswerKey, EscKey, tasks, history
<1>6. CASE PermissionsDone \/ PopDecided \/ PopShown \/ DrainEvents \/ BridgeDone
             \/ HandlePrompt \/ HandleAnswer \/ PromptsDone \/ NothingFinished
  BY <1>6, SameTokens
     DEF PermissionsDone, PopDecided, PopShown, DrainEvents, BridgeDone, HandlePrompt,
         HandleAnswer, PromptsDone, NothingFinished, loop, tasks, history
<1>7. CASE RemoteStep
  BY <1>7, SameTokens
     DEF RemoteStep, RemotePrompt, RemoteCancel, RemoteAnswer, loop, tasks, history
<1>8. ASSUME NEW t \in Tasks, Delta(t) \/ TaskProgress(t) PROVE Tokens'
  <2>1. UNCHANGED <<current, token, struck, cancelled>>
    BY <1>8
       DEF Delta, TaskProgress, TurnCancelled, TurnBegin, ModelBreaks, ModelCallsTools,
           ModelEnds, QueryReturns, QueryGoesOn, ToolStart, ToolRuns, ToolAbandoned,
           ToolAsks, ToolSpawns, loop, history
  <2> QED
    BY <2>1, SameTokens
<1>9. CASE UNCHANGED vars
  BY <1>9, SameTokens DEF vars, loop, tasks, history
<1> QED
  BY <1>1, <1>2, <1>3, <1>4, <1>5, <1>6, <1>7, <1>8, <1>9 DEF Next, LoopStep

(* A Ctrl-C or a remote cancel that finds the loop streaming reaches the   *)
(* query that runs, though the loop knows it only by the token it keeps:   *)
(* neither that query nor an agent of its begins another model turn        *)
(* (main.rs, handle_exit_key and TuiBridgeEvent::Cancelled).               *)
THEOREM StopsReachTheirQuery == Spec => StopsEndWhatRan
<1>1. Tokens => \A t \in Tasks :
        t \in struck \/ (t \in Agents /\ parent[t] \in struck) => Stopped(t)
  BY DEF Tokens, Stopped
<1>2. Typed /\ Tokens /\ [Next]_vars =>
        [\A t \in Tasks :
           t \in struck \/ (t \in Agents /\ parent[t] \in struck)
             => turn'[t] <= turn[t]]_vars
  BY <1>1, StoppedStep
<1>3. Held /\ Tokens /\ [Next]_vars => Tokens'
  BY TokensStep
<1> QED
  BY <1>2, <1>3, InitTokens, InitHeld, NextHeld, TypedInvariant, PTL DEF Spec, StopsEndWhatRan

-----------------------------------------------------------------------------
(* TypeOK.  A query is launched for a message: typed, or from a prompt that   *)
(* was started and is no command.  Wherever a typed message waits, in the   *)
(* box or behind the running turn, its query is still to come.              *)

Texts(s) == {i \in 1 .. Len(s) : s[i] = "text"}

StartedTexts(s) == {s[i] : i \in 1 .. Len(s)} \ Commands

One(if) == IF if THEN 1 ELSE 0

Counted ==
  launched + Cardinality(Texts(queued)) + One(box = "text")
    <= typed + Cardinality(StartedTexts(started))

(* A task that may still begin a turn has one left.                         *)
TurnsLeft ==
  \A t \in Tasks :
    pc[t] \in {"idle", "turn", "tools", "tool", "blocked"} => turn[t] < MaxTurns

Complete == Held /\ PromptOrder /\ TypeOK /\ Counted /\ TurnsLeft

LEMMA TextsFinite ==
  ASSUME NEW S, NEW s \in Seq(S)
  PROVE  IsFiniteSet(Texts(s)) /\ Cardinality(Texts(s)) \in Nat
<1>1. Len(s) \in Nat /\ Texts(s) \in SUBSET (1 .. Len(s))
  BY DEF Texts
<1>2. IsFiniteSet(1 .. Len(s))
  BY <1>1, FS_Interval
<1> QED
  BY <1>1, <1>2, FS_Subset, FS_CardinalityType

LEMMA TextsPushed ==
  ASSUME NEW s \in Seq(Inputs), NEW e \in Inputs
  PROVE  Cardinality(Texts(Append(s, e))) = Cardinality(Texts(s)) + One(e = "text")
<1>1. /\ Len(Append(s, e)) = Len(s) + 1 /\ Append(s, e)[Len(s) + 1] = e /\ Len(s) \in Nat
      /\ \A i \in 1 .. Len(s) : Append(s, e)[i] = s[i]
  BY Pushed
<1>2. Texts(Append(s, e)) = Texts(s) \cup (IF e = "text" THEN {Len(s) + 1} ELSE {})
  BY <1>1 DEF Texts
<1>3. Len(s) + 1 \notin Texts(s) /\ IsFiniteSet(Texts(s)) /\ Cardinality(Texts(s)) \in Nat
  BY <1>1, TextsFinite DEF Texts
<1>4. CASE e = "text"
  BY <1>2, <1>3, <1>4, FS_AddElement DEF One
<1>5. CASE e # "text"
  BY <1>2, <1>3, <1>5 DEF One
<1> QED
  BY <1>4, <1>5

LEMMA TextsPopped ==
  ASSUME NEW s \in Seq(Inputs), s # <<>>
  PROVE  Cardinality(Texts(Tail(s))) + One(Head(s) = "text") <= Cardinality(Texts(s))
<1> DEFINE T == Texts(Tail(s))
           S == Texts(s) \ {1}
           f == [i \in T |-> i + 1]
<1>1. /\ Head(s) = s[1] /\ Tail(s) \in Seq(Inputs) /\ Len(Tail(s)) = Len(s) - 1
      /\ Len(s) \in Nat \ {0} /\ \A i \in 1 .. Len(Tail(s)) : Tail(s)[i] = s[i + 1]
  BY Popped
<1>2. f \in [T -> S]
  BY <1>1 DEF Texts
<1>3. f \in Injection(T, S)
  <2>1. \A i, j \in T : f[i] = f[j] => i = j
    BY <1>1 DEF Texts
  <2> QED
    BY <1>2, <2>1 DEF Injection, IsInjective
<1>4. IsFiniteSet(Texts(s)) /\ Cardinality(Texts(s)) \in Nat /\ Cardinality(T) \in Nat
  BY <1>1, TextsFinite
<1>5. IsFiniteSet(S) /\ Cardinality(S) = Cardinality(Texts(s)) - One(1 \in Texts(s))
  BY <1>4, FS_RemoveElement DEF One
<1>6. 1 \in Texts(s) <=> Head(s) = "text"
  BY <1>1 DEF Texts
<1> HIDE DEF T, S, f
<1>7. Cardinality(T) <= Cardinality(S)
  BY <1>3, <1>5, FS_Injection
<1> QED
  BY <1>4, <1>5, <1>6, <1>7 DEF One, T

LEMMA CommandsFinite ==
  /\ MaxPrompts \in Nat /\ Commands \in SUBSET (1 .. MaxPrompts)
  /\ IsFiniteSet(1 .. MaxPrompts) /\ Cardinality(1 .. MaxPrompts) = MaxPrompts
  /\ IsFiniteSet(Commands) /\ Cardinality(Commands) \in Nat
<1>1. /\ MaxPrompts \in Nat /\ Commands \in SUBSET (1 .. MaxPrompts)
      /\ IsFiniteSet(1 .. MaxPrompts) /\ Cardinality(1 .. MaxPrompts) = MaxPrompts
  BY TurnLoopAssumption, FS_Interval
<1>2. IsFiniteSet(Commands)
  BY <1>1, FS_Subset
<1> QED
  BY <1>1, <1>2, FS_CardinalityType

LEMMA StartedFinite ==
  ASSUME NEW s \in Seq(1 .. MaxPrompts)
  PROVE  /\ IsFiniteSet(StartedTexts(s)) /\ Cardinality(StartedTexts(s)) \in Nat
         /\ Cardinality(StartedTexts(s)) + Cardinality(Commands) <= MaxPrompts
<1>1. /\ Commands \in SUBSET (1 .. MaxPrompts)
      /\ \A i \in 1 .. Len(s) : s[i] \in 1 .. MaxPrompts
  BY CommandsFinite
<1>2. /\ StartedTexts(s) \in SUBSET (1 .. MaxPrompts)
      /\ StartedTexts(s) \cap Commands = {}
      /\ StartedTexts(s) \cup Commands \in SUBSET (1 .. MaxPrompts)
  BY <1>1 DEF StartedTexts
<1>3. /\ IsFiniteSet(StartedTexts(s)) /\ Cardinality(StartedTexts(s)) \in Nat
      /\ Cardinality(StartedTexts(s) \cup Commands) <= MaxPrompts
  BY <1>2, CommandsFinite, FS_Subset, FS_CardinalityType
<1>4. Cardinality(StartedTexts(s) \cup Commands)
        = Cardinality(StartedTexts(s)) + Cardinality(Commands) - Cardinality({})
  BY <1>2, <1>3, CommandsFinite, FS_Union
<1> QED
  BY <1>3, <1>4, CommandsFinite, FS_EmptySet

(* There is a query for every message.                                     *)
LEMMA QueriesSuffice ==
  ASSUME NEW l \in Nat, NEW q \in Seq(Inputs), NEW w \in Nat, NEW n \in 0 .. MaxTyped,
         NEW s \in Seq(1 .. MaxPrompts),
         l + Cardinality(Texts(q)) + w <= n + Cardinality(StartedTexts(s))
  PROVE  l <= MaxQueries
<1>1. /\ Cardinality(StartedTexts(s)) \in Nat
      /\ Cardinality(StartedTexts(s)) + Cardinality(Commands) <= MaxPrompts
      /\ Cardinality(Texts(q)) \in Nat
  BY StartedFinite, TextsFinite
<1>2. l + Cardinality(Commands) <= MaxTyped + MaxPrompts
  <2>1. l <= n + Cardinality(StartedTexts(s)) /\ Cardinality(Commands) \in Nat /\ MaxPrompts \in Nat
    BY <1>1, CommandsFinite
  <2>2. MaxTyped \in Nat
    BY TurnLoopAssumption
  <2> QED
    BY <1>1, <2>1, <2>2
<1>3. /\ MaxQueries + Cardinality(Commands) >= MaxPrompts + MaxTyped
      /\ MaxQueries \in Nat /\ MaxPrompts \in Nat /\ MaxTyped \in Nat
  BY TurnLoopAssumption
<1>4. Cardinality(Commands) \in Nat
  BY CommandsFinite
<1> QED
  BY <1>2, <1>3, <1>4

LEMMA StillCounted ==
  ASSUME Typed, TypeOK, Counted, UNCHANGED <<launched, queued, typed, started>>,
         box' = "text" => box = "text"
  PROVE  Counted'
<1>1. launched \in Nat /\ typed \in Nat
  BY TurnLoopAssumption DEF TypeOK
<1>2. Cardinality(Texts(queued)) \in Nat /\ Cardinality(StartedTexts(started)) \in Nat
  BY TextsFinite, StartedFinite DEF TypeOK
<1> QED
  BY <1>1, <1>2 DEF Counted, One

LEMMA SubmitCounted ==
  ASSUME Typed, TypeOK, Counted, Submit, streaming => box # "empty",
         UNCHANGED <<typed, started>>
  PROVE  Counted'
<1>1. /\ launched \in Nat /\ typed \in Nat /\ queued \in Seq(Inputs)
      /\ Cardinality(Texts(queued)) \in Nat /\ Cardinality(StartedTexts(started)) \in Nat
  BY TextsFinite, StartedFinite, TurnLoopAssumption DEF TypeOK
<1>2. CASE SubmitQueued
  <2>1. /\ box \in Inputs /\ box' = "empty" /\ queued' = Append(queued, box)
        /\ UNCHANGED launched
    BY <1>2 DEF SubmitQueued, TypeOK
  <2>2. Cardinality(Texts(queued')) = Cardinality(Texts(queued)) + One(box = "text")
    BY <1>1, <2>1, TextsPushed
  <2> QED
    BY <1>1, <2>1, <2>2 DEF Counted, One
<1>3. CASE SubmitNothing
  BY <1>3, StillCounted DEF SubmitNothing
<1>4. CASE SubmitTurn
  BY <1>1, <1>4 DEF SubmitTurn, Launch, Counted, One
<1> QED
  BY <1>2, <1>3, <1>4 DEF Submit

(* A prompt is started once: the numbers of those before it are lower.      *)
LEMMA StartedOneMore ==
  ASSUME Typed, PromptOrder, TypeOK, StartDeferred
  PROVE  /\ Head(deferred) \in 1 .. MaxPrompts
         /\ started' \in Seq(1 .. MaxPrompts) /\ deferred' \in Seq(1 .. MaxPrompts)
         /\ Cardinality(StartedTexts(started'))
              = Cardinality(StartedTexts(started)) + One(Head(deferred) \notin Commands)
<1> DEFINE p == Head(deferred)
<1>1. /\ deferred \in Seq(1 .. MaxPrompts) /\ deferred # <<>> /\ deferred' = Tail(deferred)
      /\ started \in Seq(1 .. MaxPrompts) /\ started' = Append(started, p)
  BY DEF StartDeferred, TypeOK
<1>2. p \in 1 .. MaxPrompts /\ deferred' \in Seq(1 .. MaxPrompts)
      /\ p = deferred[1] /\ Len(deferred) \in Nat \ {0}
  BY <1>1, Popped
<1> HIDE DEF p
<1>3. ASSUME NEW i \in 1 .. Len(started) PROVE started[i] # p
  <2>1. started[i] < p
    BY <1>2 DEF PromptOrder, AllBelow
  <2>2. started[i] \in 1 .. MaxPrompts
    BY <1>1, ElementOfSeq
  <2>3. started[i] \in Int /\ p \in Int
    BY <1>2, <2>2
  <2> QED
    BY <2>1, <2>3
<1>4. p \notin StartedTexts(started) /\ IsFiniteSet(StartedTexts(started))
      /\ Cardinality(StartedTexts(started)) \in Nat
  <2>1. p \notin StartedTexts(started)
    BY <1>3 DEF StartedTexts
  <2> QED
    BY <1>1, <2>1, StartedFinite
<1>5. /\ started' \in Seq(1 .. MaxPrompts) /\ Len(started') = Len(started) + 1
      /\ started'[Len(started) + 1] = p /\ Len(started) \in Nat
      /\ \A i \in 1 .. Len(started) : started'[i] = started[i]
  BY <1>1, <1>2, Pushed
<1>6. StartedTexts(started') = StartedTexts(started) \cup ({p} \ Commands)
  BY <1>5 DEF StartedTexts
<1>7. Cardinality(StartedTexts(started'))
        = Cardinality(StartedTexts(started)) + One(p \notin Commands)
  <2>1. CASE p \in Commands
    <3>1. StartedTexts(started') = StartedTexts(started)
      BY <1>6, <2>1
    <3> QED
      BY <1>4, <2>1, <3>1 DEF One
  <2>2. CASE p \notin Commands
    BY <1>4, <1>6, <2>2, FS_AddElement DEF One
  <2> QED
    BY <2>1, <2>2
<1> QED
  BY <1>2, <1>5, <1>7 DEF p

LEMMA CountedKept ==
  ASSUME Typed, PromptOrder, TypeOK, Counted, [Next]_vars
  PROVE  Counted'
<1>1. /\ launched \in Nat /\ typed \in Nat /\ queued \in Seq(Inputs)
      /\ Cardinality(Texts(queued)) \in Nat /\ Cardinality(StartedTexts(started)) \in Nat
  BY TextsFinite, StartedFinite, TurnLoopAssumption DEF TypeOK
<1>2. CASE NoKey \/ AnswerKey \/ CtrlC \/ EscKey
  BY <1>2, StillCounted DEF NoKey, AnswerKey, CtrlC, EscKey, history
<1>3. CASE TypeMessage
  BY <1>1, <1>3 DEF TypeMessage, Counted, One
<1>4. CASE EnterKey
  BY <1>4, SubmitCounted DEF EnterKey
<1>5. CASE SynthesizedEnter
  <2>1. ~streaming /\ UNCHANGED <<typed, started>>
    BY <1>5 DEF SynthesizedEnter, Synthesized
  <2>2. Submit \/ UNCHANGED <<launched, queued, box>>
    BY <1>5 DEF SynthesizedEnter
  <2> QED
    BY <2>1, <2>2, SubmitCounted, StillCounted
<1>6. CASE PermissionsDone \/ PopDecided \/ PopShown \/ DrainEvents \/ BridgeDone
             \/ HandlePrompt \/ HandleCancel \/ HandleAnswer \/ PromptsDone \/ NothingFinished
  BY <1>6, StillCounted
     DEF PermissionsDone, PopDecided, PopShown, DrainEvents, BridgeDone, HandlePrompt,
         HandleCancel, HandleAnswer, PromptsDone, NothingFinished, loop, history
<1>7. CASE StartDeferred
  <2>1. Cardinality(StartedTexts(started'))
          = Cardinality(StartedTexts(started)) + One(Head(deferred) \notin Commands)
    BY <1>7, StartedOneMore
  <2>2. UNCHANGED <<typed, queued>> /\ box = "empty"
    BY <1>7 DEF StartDeferred, RemoteTurnCanStart
  <2>3. CASE Head(deferred) \in Commands
    <3>1. launched' = launched /\ box' = "command"
      BY <1>7, <2>3 DEF StartDeferred
    <3> QED
      BY <1>1, <2>1, <2>2, <2>3, <3>1 DEF Counted, One
  <2>4. CASE Head(deferred) \notin Commands
    <3>1. launched' = launched + 1 /\ box' = box
      BY <1>7, <2>4 DEF StartDeferred, Launch
    <3> QED
      BY <1>1, <2>1, <2>2, <2>4, <3>1 DEF Counted, One
  <2> QED
    BY <2>3, <2>4
<1>8. CASE FinishQuery
  <2>1. UNCHANGED <<launched, typed, started>>
    BY <1>8 DEF FinishQuery, history
  <2>2. CASE queued = <<>>
    BY <1>8, <2>1, <2>2, StillCounted DEF FinishQuery
  <2>3. CASE queued # <<>>
    <3>1. box' = Head(queued) /\ queued' = Tail(queued)
      BY <1>8, <2>3 DEF FinishQuery
    <3>2. Cardinality(Texts(queued')) + One(box' = "text") <= Cardinality(Texts(queued))
      BY <1>1, <2>3, <3>1, TextsPopped
    <3>3. Cardinality(Texts(queued')) \in Nat /\ One(box' = "text") \in Nat
             /\ One(box = "text") \in Nat
      <4>1. queued' \in Seq(Inputs)
        BY <1>1, <2>3, <3>1, Popped
      <4> QED
        BY <4>1, TextsFinite DEF One
    <3> QED
      BY <1>1, <2>1, <3>2, <3>3 DEF Counted
  <2> QED
    BY <2>2, <2>3
<1>9. CASE RemoteStep
  BY <1>9, StillCounted DEF RemoteStep, RemotePrompt, RemoteCancel, RemoteAnswer, loop, history
<1>10. ASSUME NEW t \in Tasks, Delta(t) \/ TaskProgress(t) PROVE Counted'
  BY <1>10, StillCounted
     DEF Delta, TaskProgress, TurnCancelled, TurnBegin, ModelBreaks, ModelCallsTools, ModelEnds,
         QueryReturns, QueryGoesOn, ToolStart, ToolRuns, ToolAbandoned, ToolAsks, ToolSpawns,
         loop, history
<1>11. CASE UNCHANGED vars
  BY <1>11, StillCounted DEF vars, loop, history
<1> QED
  BY <1>2, <1>3, <1>4, <1>5, <1>6, <1>7, <1>8, <1>9, <1>10, <1>11 DEF Next, LoopStep

(* What is typed and sent, and where it waits.                              *)
InputTypes ==
  /\ phase \in {"keys", "permissions", "events", "bridge", "prompts", "finish"}
  /\ streaming \in BOOLEAN /\ auto \in BOOLEAN
  /\ box \in Inputs \cup {"empty"} /\ queued \in Seq(Inputs)
  /\ deferred \in Seq(1 .. MaxPrompts) /\ started \in Seq(1 .. MaxPrompts)
  /\ typed \in 0 .. MaxTyped /\ sent \in 0 .. MaxPrompts /\ stops \in 0 .. MaxStops

(* Queries, tokens and requests.                                            *)
TokenTypes ==
  /\ current \in Queries \cup {NoTask} /\ token \in Queries \cup {NoTask}
  /\ cancelled \subseteq Queries /\ displaced \subseteq Queries
  /\ told \subseteq Queries /\ struck \subseteq Queries
  /\ parent \in [Agents -> Queries \cup {NoTask}]

RequestTypes ==
  /\ dialog \in Request \cup {NoRequest} /\ verdicts \subseteq Verdicts
  /\ asked \in 0 .. MaxRequests /\ events \in {"none", "busy", "idle"}

LEMMA SubmitInputs ==
  ASSUME TypeOK, Submit, streaming => box # "empty"
  PROVE  /\ box' \in Inputs \cup {"empty"} /\ queued' \in Seq(Inputs)
         /\ streaming' \in BOOLEAN
<1>1. CASE SubmitQueued
  <2>1. box \in Inputs /\ queued' = Append(queued, box) /\ queued \in Seq(Inputs)
    BY <1>1 DEF SubmitQueued, TypeOK
  <2> QED
    BY <1>1, <2>1, Pushed DEF SubmitQueued, TypeOK
<1>2. CASE SubmitNothing \/ SubmitTurn
  BY <1>2 DEF SubmitNothing, SubmitTurn, Launch, TypeOK
<1> QED
  BY <1>1, <1>2 DEF Submit

LEMMA InputsKept ==
  ASSUME Typed, PromptOrder, TypeOK, [Next]_vars
  PROVE  InputTypes'
<1> USE DEF InputTypes
<1>1. InputTypes /\ MaxTyped \in Nat /\ MaxPrompts \in Nat /\ MaxStops \in Nat
  BY TurnLoopAssumption DEF TypeOK
<1>2. CASE NoKey \/ TypeMessage \/ AnswerKey \/ CtrlC \/ EscKey
  <2>1. /\ UNCHANGED <<auto, queued, deferred, started, sent, stops>>
        /\ phase' \in {"keys", "permissions"} /\ streaming' \in {streaming, FALSE}
        /\ box' \in {box, "text", "empty"}
    BY <1>2 DEF NoKey, TypeMessage, AnswerKey, CtrlC, EscKey, FromKeys, AtKeys, bridge, history
  <2>2. typed' = typed \/ (typed < MaxTyped /\ typed' = typed + 1)
    BY <1>2 DEF NoKey, TypeMessage, AnswerKey, CtrlC, EscKey, history
  <2>3. typed' \in 0 .. MaxTyped
    BY <1>1, <2>2
  <2>4. box' \in Inputs \cup {"empty"}
    BY <1>1, <2>1 DEF Inputs
  <2> QED
    BY <1>1, <2>1, <2>3, <2>4
<1>3. CASE EnterKey
  BY <1>1, <1>3, SubmitInputs DEF EnterKey, AtKeys
<1>4. CASE SynthesizedEnter
  <2>1. ~streaming /\ phase' = "keys" /\ auto' = FALSE
        /\ UNCHANGED <<deferred, started, typed, sent, stops>>
    BY <1>4 DEF SynthesizedEnter, Synthesized, AtKeys
  <2>2. CASE Submit
    BY <1>1, <2>1, <2>2, SubmitInputs
  <2>3. CASE UNCHANGED <<streaming, box, queued>>
    BY <1>1, <2>1, <2>3
  <2> QED
    BY <1>4, <2>2, <2>3 DEF SynthesizedEnter
<1>5. CASE PermissionsDone \/ PopDecided \/ PopShown \/ DrainEvents \/ BridgeDone
             \/ HandleCancel \/ HandleAnswer \/ PromptsDone \/ NothingFinished
  BY <1>1, <1>5
     DEF PermissionsDone, PopDecided, PopShown, DrainEvents, BridgeDone,
         HandleCancel, HandleAnswer, PromptsDone, NothingFinished, loop, history
<1>6. CASE HandlePrompt
  <2>1. Head(inbox) \in Messages
    BY <1>6, Popped DEF HandlePrompt, Typed, PromptTypes
  <2>2. Head(inbox).prompt \in 1 .. MaxPrompts
    BY <1>6, <2>1 DEF HandlePrompt, Messages
  <2>3. deferred' \in Seq(1 .. MaxPrompts)
    BY <1>1, <1>6, <2>2, Pushed DEF HandlePrompt
  <2> QED
    BY <1>1, <1>6, <2>3 DEF HandlePrompt, history
<1>7. CASE StartDeferred
  <2>1. started' \in Seq(1 .. MaxPrompts) /\ deferred' \in Seq(1 .. MaxPrompts)
    BY <1>7, StartedOneMore
  <2>2. /\ UNCHANGED <<queued, typed, sent, stops>> /\ phase' = "finish"
        /\ box' \in Inputs \cup {"empty"} /\ auto' \in BOOLEAN /\ streaming' \in BOOLEAN
    BY <1>1, <1>7 DEF StartDeferred, Launch, Inputs
  <2> QED
    BY <1>1, <2>1, <2>2
<1>8. CASE FinishQuery
  <2>1. queued # <<>> => Head(queued) \in Inputs /\ Tail(queued) \in Seq(Inputs)
    BY <1>1, Popped
  <2> QED
    BY <1>1, <1>8, <2>1 DEF FinishQuery, history
<1>9. CASE RemoteStep
  <2>1. UNCHANGED <<phase, streaming, auto, box, queued, deferred, started, typed>>
    BY <1>9 DEF RemoteStep, RemotePrompt, RemoteCancel, RemoteAnswer, loop, history
  <2>2. /\ sent' = sent \/ (sent < MaxPrompts /\ sent' = sent + 1)
        /\ stops' = stops \/ (stops < MaxStops /\ stops' = stops + 1)
    BY <1>9 DEF RemoteStep, RemotePrompt, RemoteCancel, RemoteAnswer, history
  <2> QED
    BY <1>1, <2>1, <2>2
<1>10. ASSUME NEW t \in Tasks, Delta(t) \/ TaskProgress(t) PROVE InputTypes'
  <2>1. UNCHANGED <<phase, streaming, auto, box, queued, deferred, started, typed, sent, stops>>
    BY <1>10
       DEF Delta, TaskProgress, TurnCancelled, TurnBegin, ModelBreaks, ModelCallsTools,
           ModelEnds, QueryReturns, QueryGoesOn, ToolStart, ToolRuns, ToolAbandoned, ToolAsks,
           ToolSpawns, loop, history
  <2> QED
    BY <1>1, <2>1
<1>11. CASE UNCHANGED vars
  BY <1>1, <1>11 DEF vars, loop, history
<1> QED
  BY <1>2, <1>3, <1>4, <1>5, <1>6, <1>7, <1>8, <1>9, <1>10, <1>11 DEF Next, LoopStep

LEMMA LaunchTokens ==
  ASSUME TokenTypes, Launch, launched \in Nat, launched' \in 0 .. MaxQueries
  PROVE  current' \in Queries /\ token' \in Queries
  BY TurnLoopAssumption DEF Launch, Queries

LEMMA SubmitTokens ==
  ASSUME TokenTypes, Submit, launched \in Nat, launched' \in 0 .. MaxQueries
  PROVE  /\ current' \in Queries \cup {NoTask} /\ token' \in Queries \cup {NoTask}
         /\ displaced' \subseteq Queries
  BY LaunchTokens DEF TokenTypes, Submit, SubmitQueued, SubmitNothing, SubmitTurn, Known

LEMMA TokensKept ==
  ASSUME TypeOK, launched' \in 0 .. MaxQueries, [Next]_vars
  PROVE  TokenTypes'
<1>1. TokenTypes /\ launched \in Nat
  BY TurnLoopAssumption DEF TypeOK, TokenTypes
<1>2. CASE NoKey \/ TypeMessage \/ AnswerKey \/ CtrlC \/ EscKey
  BY <1>1, <1>2 DEF NoKey, TypeMessage, AnswerKey, CtrlC, EscKey, tasks, history, TokenTypes,
     Known, Running
<1>3. CASE EnterKey
  BY <1>1, <1>3, SubmitTokens DEF EnterKey, TokenTypes
<1>4. CASE SynthesizedEnter
  BY <1>1, <1>4, SubmitTokens DEF SynthesizedEnter, TokenTypes
<1>5. CASE PermissionsDone \/ PopDecided \/ PopShown \/ DrainEvents \/ BridgeDone
             \/ HandlePrompt \/ HandleCancel \/ HandleAnswer \/ PromptsDone \/ NothingFinished
  BY <1>1, <1>5
     DEF PermissionsDone, PopDecided, PopShown, DrainEvents, BridgeDone, HandlePrompt,
         HandleCancel, HandleAnswer, PromptsDone, NothingFinished, loop, tasks, history,
         TokenTypes, Known, Running
<1>6. CASE StartDeferred
  BY <1>1, <1>6, LaunchTokens DEF StartDeferred, TokenTypes
<1>7. CASE FinishQuery
  BY <1>1, <1>7 DEF FinishQuery, tasks, history, TokenTypes
<1>8. CASE RemoteStep
  BY <1>1, <1>8 DEF RemoteStep, RemotePrompt, RemoteCancel, RemoteAnswer, loop, tasks, history,
     TokenTypes
<1>9. ASSUME NEW t \in Tasks, Delta(t) \/ TaskProgress(t) PROVE TokenTypes'
  <2>1. UNCHANGED <<current, token, cancelled, displaced, told, struck>>
    BY <1>9
       DEF Delta, TaskProgress, TurnCancelled, TurnBegin, ModelBreaks, ModelCallsTools,
           ModelEnds, QueryReturns, QueryGoesOn, ToolStart, ToolRuns, ToolAbandoned, ToolAsks,
           ToolSpawns, loop, history
  <2>2. parent' = parent \/ \E a \in Agents : t \in Queries /\ parent' = [parent EXCEPT ![a] = t]
    BY <1>9
       DEF Delta, TaskProgress, TurnCancelled, TurnBegin, ModelBreaks, ModelCallsTools,
           ModelEnds, QueryReturns, QueryGoesOn, ToolStart, ToolRuns, ToolAbandoned, ToolAsks,
           ToolSpawns, Foreground
  <2> QED
    BY <1>1, <2>1, <2>2 DEF TokenTypes
<1>10. CASE UNCHANGED vars
  BY <1>1, <1>10 DEF vars, loop, tasks, history, TokenTypes
<1> QED
  BY <1>2, <1>3, <1>4, <1>5, <1>6, <1>7, <1>8, <1>9, <1>10 DEF Next, LoopStep

LEMMA AnswerDialogRequests ==
  ASSUME TypeOK, AnswerDialog, dialog # NoRequest
  PROVE  dialog' = NoRequest /\ verdicts' \subseteq Verdicts
<1>1. dialog \in Request /\ waiting \subseteq Request /\ verdicts \subseteq Verdicts
  BY DEF TypeOK
<1> QED
  BY <1>1 DEF AnswerDialog, Decide, Request, Verdicts

LEMMA RequestsKept ==
  ASSUME Typed, TypeOK, [Next]_vars
  PROVE  RequestTypes'
<1> USE DEF RequestTypes
<1>1. RequestTypes /\ MaxRequests \in Nat
  BY TurnLoopAssumption DEF TypeOK
<1>2. CASE NoKey \/ TypeMessage \/ EnterKey \/ CtrlC \/ EscKey
  BY <1>1, <1>2 DEF NoKey, TypeMessage, EnterKey, CtrlC, EscKey, tasks, history
<1>3. CASE AnswerKey \/ SynthesizedEnter
  BY <1>1, <1>3, AnswerDialogRequests DEF AnswerKey, SynthesizedEnter
<1>4. CASE PopDecided \/ PopShown
  <2>1. Head(queue) \in Request
    BY <1>4, Popped DEF PopDecided, PopShown, TypeOK
  <2>2. /\ dialog' \in {dialog, Head(queue)} /\ asked' = asked /\ events' = events
        /\ verdicts' \subseteq verdicts \cup {[num |-> Head(queue).num, given |-> Head(queue).num]}
    BY <1>4 DEF PopDecided, PopShown, Decide, loop, tasks, history
  <2>3. [num |-> Head(queue).num, given |-> Head(queue).num] \in Verdicts
    BY <2>1 DEF Request, Verdicts
  <2> QED
    BY <1>1, <2>1, <2>2, <2>3
<1>5. CASE HandleAnswer
  <2>1. Head(inbox) \in Messages
    BY <1>5, Popped DEF HandleAnswer, TypeOK
  <2>2. Head(inbox).request \in Request
    BY <1>5, <2>1 DEF HandleAnswer, Messages
  <2>3. waiting \subseteq Request
    BY DEF TypeOK
  <2> QED
    BY <1>1, <1>5, <2>2, <2>3 DEF HandleAnswer, Decide, Request, Verdicts
<1>6. CASE PermissionsDone \/ DrainEvents \/ BridgeDone \/ HandlePrompt \/ HandleCancel
             \/ StartDeferred \/ PromptsDone \/ FinishQuery \/ NothingFinished
  BY <1>1, <1>6
     DEF PermissionsDone, DrainEvents, BridgeDone, HandlePrompt, HandleCancel, StartDeferred,
         PromptsDone, FinishQuery, NothingFinished, loop, tasks, history
<1>7. CASE RemoteStep
  BY <1>1, <1>7 DEF RemoteStep, RemotePrompt, RemoteCancel, RemoteAnswer, loop, tasks, history
<1>8. ASSUME NEW t \in Tasks, Delta(t) \/ TaskProgress(t) PROVE RequestTypes'
  <2>1. UNCHANGED <<dialog, verdicts>>
    BY <1>8
       DEF Delta, TaskProgress, TurnCancelled, TurnBegin, ModelBreaks, ModelCallsTools,
           ModelEnds, QueryReturns, QueryGoesOn, ToolStart, ToolRuns, ToolAbandoned, ToolAsks,
           ToolSpawns, loop, history
  <2>2. events' \in {events, "busy", "idle"}
    BY <1>8
       DEF Delta, TaskProgress, TurnCancelled, TurnBegin, ModelBreaks, ModelCallsTools,
           ModelEnds, QueryReturns, QueryGoesOn, ToolStart, ToolRuns, ToolAbandoned, ToolAsks,
           ToolSpawns, Emit
  <2>3. asked' = asked \/ (asked < MaxRequests /\ asked' = asked + 1)
    BY <1>8
       DEF Delta, TaskProgress, TurnCancelled, TurnBegin, ModelBreaks, ModelCallsTools,
           ModelEnds, QueryReturns, QueryGoesOn, ToolStart, ToolRuns, ToolAbandoned, ToolAsks,
           ToolSpawns, history
  <2> QED
    BY <1>1, <2>1, <2>2, <2>3
<1>9. CASE UNCHANGED vars
  BY <1>1, <1>9 DEF vars, loop, tasks, history
<1> QED
  BY <1>2, <1>3, <1>4, <1>5, <1>6, <1>7, <1>8, <1>9 DEF Next, LoopStep

LEMMA TurnsKept ==
  ASSUME Held, TypeOK, TurnsLeft, [Next]_vars
  PROVE  turn' \in [Tasks -> 0 .. MaxTurns] /\ TurnsLeft'
<1> DEFINE Left == {"idle", "turn", "tools", "tool", "blocked"}
<1>1. /\ turn \in [Tasks -> 0 .. MaxTurns] /\ MaxTurns \in Nat \ {0}
      /\ pc \in [Tasks -> Places]
  BY TurnLoopAssumption DEF TypeOK
<1>2. ASSUME turn' = turn, \A t \in Tasks : pc'[t] \in Left => pc[t] \in Left
      PROVE  turn' \in [Tasks -> 0 .. MaxTurns] /\ TurnsLeft'
  BY <1>1, <1>2 DEF TurnsLeft
<1>3. CASE pc' = pc /\ turn' = turn
  BY <1>2, <1>3
<1>4. CASE Launch /\ turn' = turn
  <2>1. launched \in Nat /\ pc' = [pc EXCEPT ![launched + 1] = "turn"]
    BY <1>4 DEF Launch, TypeOK
  <2>2. ASSUME NEW t \in Tasks, pc'[t] \in Left PROVE pc[t] \in Left
    <3>1. CASE t = launched + 1
      <4>1. t \in Queries
        BY <2>1, <3>1, TaskAssumption DEF Tasks
      <4> QED
        BY <2>1, <3>1, <4>1 DEF Held, NotLaunched
    <3>2. CASE t # launched + 1
      BY <1>1, <2>1, <2>2, <3>2
    <3> QED
      BY <3>1, <3>2
  <2> QED
    BY <1>2, <1>4, <2>2
<1>5. ASSUME NEW r \in Request, pc[r.task] = "blocked", pc' = [pc EXCEPT ![r.task] = "tool"],
             turn' = turn
      PROVE  turn' \in [Tasks -> 0 .. MaxTurns] /\ TurnsLeft'
  BY <1>1, <1>2, <1>5
<1>6. waiting = IF dialog = NoRequest THEN {} ELSE {dialog}
  BY DEF Held, Asks, DialogOpen
<1>7. dialog # NoRequest => dialog \in Request /\ pc[dialog.task] = "blocked"
  BY DEF Held, Asks, DialogOpen, Open, OpenIn, TypeOK
<1>8. CASE NoKey \/ TypeMessage \/ CtrlC \/ EscKey \/ PermissionsDone \/ PopShown \/ DrainEvents
             \/ BridgeDone \/ HandlePrompt \/ HandleCancel \/ PromptsDone \/ FinishQuery
             \/ NothingFinished \/ RemoteStep \/ UNCHANGED vars
  BY <1>3, <1>8
     DEF NoKey, TypeMessage, CtrlC, EscKey, PermissionsDone, PopShown, DrainEvents, BridgeDone,
         HandlePrompt, HandleCancel, PromptsDone, FinishQuery, NothingFinished, RemoteStep,
         RemotePrompt, RemoteCancel, RemoteAnswer, tasks, vars
<1>9. CASE EnterKey \/ StartDeferred
  <2>1. turn' = turn /\ (pc' = pc \/ Launch)
    BY <1>9 DEF EnterKey, StartDeferred, Submit, SubmitQueued, SubmitNothing, SubmitTurn
  <2> QED
    BY <1>3, <1>4, <2>1
<1>10. CASE AnswerKey \/ SynthesizedEnter
  <2>1. turn' = turn /\ ((dialog # NoRequest /\ AnswerDialog) \/ Submit)
    BY <1>10 DEF AnswerKey, SynthesizedEnter
  <2>2. CASE dialog # NoRequest /\ AnswerDialog
    <3>1. pc' = [pc EXCEPT ![dialog.task] = "tool"]
      BY <1>6, <2>2 DEF AnswerDialog, Decide
    <3> QED
      BY <1>5, <1>7, <2>1, <2>2, <3>1
  <2>3. CASE Submit
    <3>1. pc' = pc \/ Launch
      BY <1>10, <2>3
         DEF AnswerKey, SynthesizedEnter, Submit, SubmitQueued, SubmitNothing, SubmitTurn
    <3> QED
      BY <1>3, <1>4, <2>1, <3>1
  <2> QED
    BY <2>1, <2>2, <2>3
<1>11. CASE PopDecided
  <2>1. Head(queue) \in Request /\ Head(queue) = queue[1] /\ Len(queue) \in Nat \ {0}
    BY <1>11, Popped DEF PopDecided, TypeOK
  <2>2. pc[Head(queue).task] = "blocked"
    BY <2>1 DEF Held, Asks, QueueOpen, Open, OpenIn
  <2> QED
    BY <1>5, <1>11, <2>1, <2>2 DEF PopDecided, Decide
<1>12. CASE HandleAnswer
  <2>1. turn' = turn
        /\ (pc' = pc \/ \E r \in waiting : pc' = [pc EXCEPT ![r.task] = "tool"])
    BY <1>12 DEF HandleAnswer, Decide
  <2> QED
    BY <1>3, <1>5, <1>6, <1>7, <2>1
<1>13. ASSUME NEW t \in Tasks, Delta(t) \/ TaskProgress(t)
       PROVE  turn' \in [Tasks -> 0 .. MaxTurns] /\ TurnsLeft'
  <2>1. CASE Delta(t)
    BY <1>3, <2>1 DEF Delta
  <2>2. CASE TurnCancelled(t) \/ ModelBreaks(t) \/ ModelEnds(t) \/ QueryReturns(t)
               \/ ToolAbandoned(t)
    BY <1>1, <1>2, <2>2 DEF TurnCancelled, ModelBreaks, ModelEnds, QueryReturns, ToolAbandoned
  <2>3. CASE ToolStart(t) \/ ToolRuns(t) \/ ToolAsks(t)
    BY <1>1, <1>2, <2>3 DEF ToolStart, ToolRuns, ToolAsks
  <2>4. CASE \E a \in Agents : ToolSpawns(t, a)
    BY <1>1, <1>2, <2>4 DEF ToolSpawns
  <2>5. CASE ModelCallsTools(t)
    BY <1>1, <2>5 DEF ModelCallsTools, TurnsLeft
  <2>6. CASE TurnBegin(t)
    <3>1. turn[t] < MaxTurns /\ turn[t] \in Nat
      BY <1>1, <2>6 DEF TurnBegin, TurnsLeft
    <3> QED
      BY <1>1, <2>6, <3>1 DEF TurnBegin, TurnsLeft
  <2>7. CASE QueryGoesOn(t)
    BY <1>1, <2>7 DEF QueryGoesOn, TurnsLeft
  <2> QED
    BY <1>13, <2>1, <2>2, <2>3, <2>4, <2>5, <2>6, <2>7 DEF TaskProgress
<1> QED
  BY <1>8, <1>9, <1>10, <1>11, <1>12, <1>13 DEF Next, LoopStep

LEMMA InitComplete == Init => Complete
<1> SUFFICES ASSUME Init PROVE Complete
  OBVIOUS
<1>1. Held /\ PromptOrder
  BY InitHeld, InitPromptOrder
<1>2. TypeOK
  <2>1. /\ queued \in Seq(Inputs) /\ deferred \in Seq(1 .. MaxPrompts)
        /\ started \in Seq(1 .. MaxPrompts) /\ queue \in Seq(Request)
        /\ inbox \in Seq(Messages)
    BY DEF Init
  <2>2. /\ turn \in [Tasks -> 0 .. MaxTurns] /\ pc \in [Tasks -> Places]
        /\ parent \in [Agents -> Queries \cup {NoTask}]
    BY TurnLoopAssumption DEF Init, Places
  <2>3. /\ typed \in 0 .. MaxTyped /\ sent \in 0 .. MaxPrompts /\ launched \in 0 .. MaxQueries
        /\ stops \in 0 .. MaxStops /\ asked \in 0 .. MaxRequests /\ counter \in Nat
    BY TurnLoopAssumption DEF Init
  <2> QED
    BY <2>1, <2>2, <2>3 DEF Init, TypeOK
<1>3. TurnsLeft
  BY TurnLoopAssumption DEF Init, TurnsLeft
<1>4. Counted
  <2>1. Texts(queued) = {} /\ StartedTexts(started) = {} /\ One(box = "text") = 0
        /\ launched = 0 /\ typed = 0
    BY DEF Init, Texts, StartedTexts, One
  <2> QED
    BY <2>1, FS_EmptySet DEF Counted
<1> QED
  BY <1>1, <1>2, <1>3, <1>4 DEF Complete

LEMMA CompleteKept == Complete /\ [Next]_vars => Complete'
<1> SUFFICES ASSUME Complete, [Next]_vars PROVE Complete'
  OBVIOUS
<1>1. Held' /\ Held /\ Typed /\ Typed'
  BY NextHeld DEF Complete, Held
<1>2. PromptOrder'
  BY <1>1, PromptStep DEF Complete, PromptFed
<1>3. Counted' /\ InputTypes'
  BY <1>1, CountedKept, InputsKept DEF Complete
<1>4. turn' \in [Tasks -> 0 .. MaxTurns] /\ TurnsLeft'
  BY <1>1, TurnsKept DEF Complete
<1>5. launched' \in 0 .. MaxQueries
  <2>1. launched' \in Nat /\ MaxQueries \in Nat
    BY <1>1, TurnLoopAssumption DEF Typed, TaskTypes
  <2>2. /\ started' \in Seq(1 .. MaxPrompts) /\ typed' \in 0 .. MaxTyped
        /\ queued' \in Seq(Inputs) /\ One(box' = "text") \in Nat
    BY <1>3 DEF InputTypes, One
  <2>3. launched' + Cardinality(Texts(queued')) + One(box' = "text")
          <= typed' + Cardinality(StartedTexts(started'))
    BY <1>3 DEF Counted
  <2>4. launched' <= MaxQueries
    BY <2>1, <2>2, <2>3, QueriesSuffice
  <2> QED
    BY <2>1, <2>4
<1>6. TokenTypes' /\ RequestTypes'
  BY <1>1, <1>5, TokensKept, RequestsKept DEF Complete
<1>7. TypeOK'
  BY <1>1, <1>3, <1>4, <1>5, <1>6
     DEF TypeOK, Typed, TaskTypes, StoreTypes, PromptTypes, InputTypes, TokenTypes, RequestTypes
<1> QED
  BY <1>1, <1>2, <1>3, <1>4, <1>7 DEF Complete

(* Every variable keeps its type.  That a query which is launched is one of  *)
(* Queries takes the count of the messages: each query is launched for one,  *)
(* wherever it has waited, and no prompt is started twice.                  *)
THEOREM TypeCorrect == Spec => []TypeOK
<1>1. Complete => TypeOK
  BY DEF Complete
<1> QED
  BY <1>1, InitComplete, CompleteKept, PTL DEF Spec

=============================================================================
