------------------------------ MODULE TurnLoop ------------------------------
(***************************************************************************)
(* The main loop of the interactive CLI (crates/cli/src/main.rs) with the  *)
(* tasks it shares state with: the query of the running turn, an agent     *)
(* that works in the background, and the bridge of Remote Control.         *)
(*                                                                         *)
(* The loop is one thread that visits its sections in a fixed order;       *)
(* `phase` is the section it is about to execute.  A query is a tokio      *)
(* task: it reports through an event channel, asks for permission through  *)
(* a store behind a mutex and blocks until somebody answers, and is told   *)
(* to stop through a cancellation token.  Tasks and the bridge take steps  *)
(* between any two sections.                                               *)
(*                                                                         *)
(* The dialogs for questions, MCP trust and the bypass warning, and the    *)
(* slash commands' own effects, are left out.                              *)
(***************************************************************************)
EXTENDS Integers, Sequences, FiniteSets

CONSTANTS
  Agents,       \* background agents
  NoTask,
  NoRequest,
  Commands,     \* the remote prompts that are slash commands
  GoalActive,   \* a goal keeps queries going after their last answer
  MaxQueries,   \* bound: queries started
  MaxTurns,     \* bound: model turns of a task
  MaxRequests,  \* bound: permission requests
  MaxPrompts,   \* bound: prompts from the remote client
  MaxTyped,     \* bound: messages typed at the terminal
  MaxStops      \* bound: cancels from the remote client

\* Every message that is not a command can become a query.
ASSUME TurnLoopAssumption ==
  /\ MaxQueries \in Nat /\ MaxPrompts \in Nat /\ MaxTyped \in Nat
  /\ MaxQueries + Cardinality(Commands) >= MaxPrompts + MaxTyped
  /\ GoalActive \in BOOLEAN
  /\ MaxTurns \in Nat \ {0} /\ MaxRequests \in Nat /\ MaxStops \in Nat
  /\ Commands \subseteq 1 .. MaxPrompts

Queries == 1 .. MaxQueries

Tasks == Queries \cup Agents

ASSUME TaskAssumption ==
  /\ Agents \cap Nat = {} /\ NoTask \notin Tasks \cup Nat

\* What the prompt box, a queued message or a remote prompt holds.
Inputs == {"text", "command"}

\* A PendingPermissionRequest.  `id` is its tool_use_id, `num` tells requests
\* apart whatever ids they have.
Request == [id : Nat, num : 1 .. MaxRequests, task : Tasks]

ASSUME RequestAssumption == NoRequest \notin Request

VARIABLES
  \* The loop's own state.
  phase, streaming, current, token, box, auto, queued, deferred, dialog,
  \* PendingPermissionStore.
  queue, waiting,
  \* The tasks: program counters, turns, who spawned an agent, the queries whose
  \* token is cancelled, ToolContext.current_turn, and the event channel.
  pc, turn, parent, cancelled, counter, events,
  \* The bridge: messages on their way to the loop, requests a page can answer.
  inbox, announced,
  \* History.
  typed, sent, started, launched, stops, asked, verdicts, displaced, told, struck

loop    == <<phase, streaming, current, token, box, auto, queued, deferred, dialog>>
store   == <<queue, waiting>>
tasks   == <<pc, turn, parent, cancelled, counter, events>>
bridge  == <<inbox, announced>>
history == <<typed, sent, started, launched, stops, asked, verdicts, displaced, told, struck>>
vars    == <<loop, store, tasks, bridge, history>>

\* The events differ in what they do to is_streaming.  A drain takes all of
\* them, so the last one that sets the flag stands for the channel's content.
Foreground(t) == t \in Queries

\* An agent's token is a child of its parent's.
Stopped(t) == t \in cancelled \/ (t \in Agents /\ parent[t] \in cancelled)

Emit(t, e) == events' = IF Foreground(t) THEN e ELSE events

Init ==
  /\ phase = "keys" /\ streaming = FALSE /\ current = NoTask /\ token = NoTask
  /\ box = "empty" /\ auto = FALSE /\ queued = <<>> /\ deferred = <<>>
  /\ dialog = NoRequest
  /\ queue = <<>> /\ waiting = {}
  /\ pc = [t \in Tasks |-> "idle"] /\ turn = [t \in Tasks |-> 0]
  /\ parent = [a \in Agents |-> NoTask]
  /\ cancelled = {} /\ counter = 0 /\ events = "none"
  /\ inbox = <<>> /\ announced = {}
  /\ typed = 0 /\ sent = 0 /\ started = <<>> /\ launched = 0 /\ stops = 0
  /\ asked = 0 /\ verdicts = {} /\ displaced = {} /\ told = {} /\ struck = {}

-----------------------------------------------------------------------------
(* The pieces several sections share.                                      *)

\* Queries that have been started and have not returned.
Running == {q \in Queries : pc[q] \notin {"idle", "done"}}

KnownEvenIfNone(t) == {t}

Known(t) == {t} \ {NoTask}

\* Mutant: the loop keeps the first token it made.
LaunchWithOldToken ==
  /\ launched' = launched + 1
  /\ streaming' = TRUE
  /\ current' = launched + 1
  /\ token' = IF token = NoTask THEN launched + 1 ELSE token
  /\ pc' = [pc EXCEPT ![launched + 1] = "turn"]

\* A turn starts: the flag, a new token, a new task in current_query.
Launch ==
  /\ launched' = launched + 1
  /\ streaming' = TRUE
  /\ current' = launched + 1
  /\ token' = launched + 1
  /\ pc' = [pc EXCEPT ![launched + 1] = "turn"]

\* The oneshot fires: request r is decided and its tool goes on.
Decide(r, given) ==
  /\ verdicts' = verdicts \cup {[num |-> r.num, given |-> given]}
  /\ pc' = [pc EXCEPT ![r.task] = "tool"]

AnswerDialogOnly == dialog' = NoRequest /\ UNCHANGED <<waiting, verdicts, pc>>

\* settle_pending_permission of the dialog on screen, which is cleared first.
AnswerDialog ==
  /\ dialog' = NoRequest
  /\ IF \E r \in waiting : r.id = dialog.id
     THEN \E r \in waiting :
            /\ r.id = dialog.id
            /\ waiting' = waiting \ {r}
            /\ Decide(r, dialog.num)
     ELSE UNCHANGED <<waiting, verdicts, pc>>

-----------------------------------------------------------------------------
(* The keyboard.                                                           *)

\* An auto-submit takes the place of the next key.
Synthesized == auto /\ ~streaming

\* Most keys end in `continue`: the loop starts over without visiting the
\* sections that follow.  The others fall through to them.
AtKeys == phase = "keys" /\ phase' = "keys"

FromKeys == phase = "keys" /\ phase' = "permissions"

NoKey ==
  /\ FromKeys /\ ~Synthesized
  /\ UNCHANGED <<streaming, current, token, box, auto, queued, deferred, dialog,
                 store, tasks, bridge, history>>

TypeMessage ==
  /\ FromKeys /\ ~Synthesized
  /\ dialog = NoRequest /\ box = "empty" /\ typed < MaxTyped
  /\ typed' = typed + 1
  /\ box' = "text"
  /\ UNCHANGED <<streaming, current, token, auto, queued, deferred, dialog, store,
                 tasks, bridge, sent, started, launched, stops, asked, verdicts,
                 displaced, told, struck>>

\* A dialog takes every key; its shortcuts and Enter confirm.
AnswerKey ==
  /\ AtKeys /\ ~Synthesized
  /\ dialog # NoRequest
  /\ AnswerDialog
  /\ UNCHANGED <<streaming, current, token, box, auto, queued, deferred, queue,
                 turn, parent, cancelled, counter, events, bridge, typed, sent, started,
                 launched, stops, asked, displaced, told, struck>>

\* Enter with no dialog open: queue the message, run the command, or start a turn.
SubmitQueued ==
  /\ streaming
  /\ box' = "empty"
  /\ queued' = Append(queued, box)
  /\ UNCHANGED <<streaming, current, token, pc, launched, displaced>>

SubmitNothing ==
  /\ ~streaming /\ box # "text"
  /\ box' = "empty"
  /\ UNCHANGED <<streaming, current, token, queued, pc, launched, displaced>>

SubmitTurn ==
  /\ ~streaming /\ box = "text"
  /\ box' = "empty"
  /\ displaced' = displaced \cup Known(current)
  /\ Launch
  /\ UNCHANGED queued

Submit == SubmitQueued \/ SubmitNothing \/ SubmitTurn

EnterKey ==
  /\ AtKeys /\ ~Synthesized
  /\ dialog = NoRequest /\ box # "empty"
  /\ Submit
  /\ UNCHANGED <<auto, deferred, dialog, store, turn, parent, cancelled, counter, events,
                 bridge, typed, sent, started, stops, asked, verdicts, told, struck>>

\* The Enter of an auto-submit; a dialog takes it like any other.
SynthesizedEnter ==
  /\ AtKeys /\ Synthesized
  /\ auto' = FALSE
  /\ \/ /\ dialog = NoRequest
        /\ Submit
        /\ UNCHANGED <<dialog, waiting, verdicts>>
     \/ /\ dialog # NoRequest
        /\ AnswerDialog
        /\ UNCHANGED <<streaming, current, token, box, queued, launched, displaced>>
  /\ UNCHANGED <<deferred, queue, turn, parent, cancelled, counter, events, bridge, typed,
                 sent, started, stops, asked, told, struck>>

\* handle_exit_key: a running turn is cancelled, else the box is emptied.
CtrlC ==
  /\ AtKeys /\ ~Synthesized
  /\ cancelled' = IF streaming THEN cancelled \cup Known(token) ELSE cancelled
  /\ told' = IF streaming THEN told \cup Known(current) ELSE told
  /\ struck' = IF streaming THEN struck \cup (Running \ displaced) ELSE struck
  /\ IF dialog # NoRequest
     THEN UNCHANGED <<streaming, box>>
     ELSE /\ streaming' = FALSE
          /\ box' = IF streaming THEN box ELSE "empty"
  /\ UNCHANGED <<current, token, auto, queued, deferred, dialog, store, pc, turn, parent,
                 counter, events, bridge, typed, sent, started, launched, stops,
                 asked, verdicts, displaced>>

\* Esc reaches the app, which clears its flag; the token stays as it is.
EscKey ==
  /\ FromKeys /\ ~Synthesized
  /\ dialog = NoRequest /\ streaming
  /\ streaming' = FALSE
  /\ told' = told \cup Known(current)
  /\ UNCHANGED <<current, token, box, auto, queued, deferred, dialog, store, tasks,
                 bridge, typed, sent, started, launched, stops, asked, verdicts,
                 displaced, struck>>

-----------------------------------------------------------------------------
(* The permission queue.                                                   *)

PermissionsWhenIdle ==
  /\ phase = "permissions" /\ phase' = "events"
  /\ dialog # NoRequest \/ queue = <<>> \/ streaming
  /\ UNCHANGED <<streaming, current, token, box, auto, queued, deferred, dialog,
                 store, tasks, bridge, history>>

\* Nothing to show, or a dialog is open.
PermissionsDone ==
  /\ phase = "permissions" /\ phase' = "events"
  /\ dialog # NoRequest \/ queue = <<>>
  /\ UNCHANGED <<streaming, current, token, box, auto, queued, deferred, dialog,
                 store, tasks, bridge, history>>

\* The policy, evaluated again, decides the request by itself; the loop goes on.
PopDecided ==
  /\ phase = "permissions"
  /\ dialog = NoRequest /\ queue # <<>>
  /\ queue' = Tail(queue)
  /\ Decide(Head(queue), Head(queue).num)
  /\ UNCHANGED <<loop, waiting, turn, parent, cancelled, counter, events, bridge, typed,
                 sent, started, launched, stops, asked, displaced, told, struck>>

\* The HashMap holds one request per id: an insert replaces.
Inserted(r) == {w \in waiting : w.id # r.id} \cup {r}

\* The request is announced, shown and kept under its id.
PopShown ==
  /\ phase = "permissions" /\ phase' = "events"
  /\ dialog = NoRequest /\ queue # <<>>
  /\ queue' = Tail(queue)
  /\ dialog' = Head(queue)
  /\ waiting' = Inserted(Head(queue))
  /\ announced' = announced \cup {Head(queue)}
  /\ UNCHANGED <<streaming, current, token, box, auto, queued, deferred, tasks,
                 inbox, history>>

-----------------------------------------------------------------------------
(* The query's events.                                                     *)

DrainEvents ==
  /\ phase = "events" /\ phase' = "bridge"
  /\ streaming' = CASE events = "busy" -> TRUE
                    [] events = "idle" -> FALSE
                    [] OTHER           -> streaming
  /\ events' = "none"
  /\ UNCHANGED <<current, token, box, auto, queued, deferred, dialog, store,
                 pc, turn, parent, cancelled, counter, bridge, history>>

-----------------------------------------------------------------------------
(* The bridge's messages, one at a time until there are none.              *)

BridgeDone ==
  /\ phase = "bridge" /\ phase' = "prompts"
  /\ inbox = <<>>
  /\ UNCHANGED <<streaming, current, token, box, auto, queued, deferred, dialog,
                 store, tasks, bridge, history>>

HandlePromptFirst ==
  /\ phase = "bridge" /\ inbox # <<>> /\ Head(inbox).kind = "prompt"
  /\ inbox' = Tail(inbox)
  /\ deferred' = <<Head(inbox).prompt>> \o deferred
  /\ UNCHANGED <<phase, streaming, current, token, box, auto, queued, dialog,
                 store, tasks, announced, history>>

HandlePrompt ==
  /\ phase = "bridge" /\ inbox # <<>> /\ Head(inbox).kind = "prompt"
  /\ inbox' = Tail(inbox)
  /\ deferred' = Append(deferred, Head(inbox).prompt)
  /\ UNCHANGED <<phase, streaming, current, token, box, auto, queued, dialog,
                 store, tasks, announced, history>>

HandleCancel ==
  /\ phase = "bridge" /\ inbox # <<>> /\ Head(inbox).kind = "cancel"
  /\ inbox' = Tail(inbox)
  /\ cancelled' = IF streaming THEN cancelled \cup Known(token) ELSE cancelled
  /\ told' = IF streaming THEN told \cup Known(current) ELSE told
  /\ struck' = IF streaming THEN struck \cup (Running \ displaced) ELSE struck
  /\ streaming' = FALSE
  /\ UNCHANGED <<phase, current, token, box, auto, queued, deferred, dialog, store,
                 pc, turn, parent, counter, events, announced, typed, sent, started,
                 launched, stops, asked, verdicts, displaced>>

\* Settle by id, and close the dialog if it is the one with that id.
HandleAnswer ==
  /\ phase = "bridge" /\ inbox # <<>> /\ Head(inbox).kind = "answer"
  /\ inbox' = Tail(inbox)
  /\ LET a == Head(inbox).request
         match == {r \in waiting : r.id = a.id}
     IN  IF match = {}
         THEN UNCHANGED <<waiting, verdicts, pc, dialog>>
         ELSE \E r \in match :
                /\ waiting' = waiting \ {r}
                /\ Decide(r, a.num)
                /\ dialog' = IF dialog # NoRequest /\ dialog.id = a.id
                             THEN NoRequest ELSE dialog
  /\ UNCHANGED <<phase, streaming, current, token, box, auto, queued, deferred,
                 queue, turn, parent, cancelled, counter, events, announced, typed, sent,
                 started, launched, stops, asked, displaced, told, struck>>

-----------------------------------------------------------------------------
(* Remote prompts, and the end of a turn.                                  *)

RemoteTurnByFlagAlone == ~streaming /\ dialog = NoRequest /\ box = "empty"

RemoteTurnCanStart ==
  /\ ~streaming /\ current = NoTask
  /\ dialog = NoRequest /\ box = "empty"

StartDeferred ==
  /\ phase = "prompts" /\ phase' = "finish"
  /\ deferred # <<>> /\ RemoteTurnCanStart
  /\ deferred' = Tail(deferred)
  /\ started' = Append(started, Head(deferred))
  /\ \/ /\ Head(deferred) \in Commands
        /\ box' = "command" /\ auto' = TRUE
        /\ UNCHANGED <<streaming, current, token, pc, launched>>
     \/ /\ Head(deferred) \notin Commands
        /\ Launch
        /\ UNCHANGED <<box, auto>>
  /\ UNCHANGED <<queued, dialog, store, turn, parent, cancelled, counter, events, bridge,
                 typed, sent, stops, asked, verdicts, displaced, told, struck>>

PromptsDone ==
  /\ phase = "prompts" /\ phase' = "finish"
  /\ ~(deferred # <<>> /\ RemoteTurnCanStart)
  /\ UNCHANGED <<streaming, current, token, box, auto, queued, deferred, dialog,
                 store, tasks, bridge, history>>

\* The task has finished: its handle is joined, a queued message takes the box.
FinishQuery ==
  /\ phase = "finish" /\ phase' = "keys"
  /\ current # NoTask /\ pc[current] = "done"
  /\ current' = NoTask
  /\ streaming' = FALSE
  /\ IF queued = <<>>
     THEN UNCHANGED <<box, auto, queued>>
     ELSE box' = Head(queued) /\ auto' = TRUE /\ queued' = Tail(queued)
  /\ UNCHANGED <<token, deferred, dialog, store, tasks, bridge, history>>

NothingFinished ==
  /\ phase = "finish" /\ phase' = "keys"
  /\ ~(current # NoTask /\ pc[current] = "done")
  /\ UNCHANGED <<streaming, current, token, box, auto, queued, deferred, dialog,
                 store, tasks, bridge, history>>

-----------------------------------------------------------------------------
(* run_query_loop, of the foreground or of a background agent.             *)

\* The top of the loop: publish the turn's number, then notice a cancel or begin.
TurnCancelled(t) ==
  /\ pc[t] = "turn" /\ Stopped(t)
  /\ counter' = turn[t] + 1
  /\ pc' = [pc EXCEPT ![t] = "done"]
  /\ UNCHANGED <<loop, store, turn, parent, cancelled, events, bridge, history>>

TurnBegin(t) ==
  /\ pc[t] = "turn" /\ ~Stopped(t)
  /\ turn' = [turn EXCEPT ![t] = @ + 1]
  /\ counter' = turn[t] + 1
  /\ pc' = [pc EXCEPT ![t] = "model"]
  /\ UNCHANGED <<loop, store, parent, cancelled, events, bridge, history>>

\* A piece of the model's answer.
Delta(t) ==
  /\ pc[t] = "model" /\ Foreground(t)
  /\ events' = "busy"
  /\ UNCHANGED <<loop, store, pc, turn, parent, cancelled, counter, bridge, history>>

\* The stream ends early: a cancel, or an error with no retries left.
ModelBreaks(t) ==
  /\ pc[t] = "model"
  /\ pc' = [pc EXCEPT ![t] = "done"]
  /\ UNCHANGED <<loop, store, turn, parent, cancelled, counter, events, bridge, history>>

\* MessageStop and TurnComplete; the answer calls tools, or the query ends.
ModelCallsTools(t) ==
  /\ pc[t] = "model" /\ turn[t] < MaxTurns
  /\ Emit(t, "idle")
  /\ pc' = [pc EXCEPT ![t] = "tools"]
  /\ UNCHANGED <<loop, store, turn, parent, cancelled, counter, bridge, history>>

ModelEnds(t) ==
  /\ pc[t] = "model"
  /\ Emit(t, "idle")
  /\ pc' = [pc EXCEPT ![t] = "ending"]
  /\ UNCHANGED <<loop, store, turn, parent, cancelled, counter, bridge, history>>

\* Hooks and snapshots behind it, the task returns.
QueryReturns(t) ==
  /\ pc[t] = "ending"
  /\ pc' = [pc EXCEPT ![t] = "done"]
  /\ UNCHANGED <<loop, store, turn, parent, cancelled, counter, events, bridge, history>>

\* The continuation policy sends the goal's next message; turns count from 0.
QueryGoesOn(t) ==
  /\ GoalActive /\ pc[t] = "ending"
  /\ turn' = [turn EXCEPT ![t] = 0]
  /\ pc' = [pc EXCEPT ![t] = "turn"]
  /\ UNCHANGED <<loop, store, parent, cancelled, counter, events, bridge, history>>

\* ToolStart, then the tool.
ToolStart(t) ==
  /\ pc[t] = "tools"
  /\ Emit(t, "busy")
  /\ pc' = [pc EXCEPT ![t] = "tool"]
  /\ UNCHANGED <<loop, store, turn, parent, cancelled, counter, bridge, history>>

\* The tools need no (further) permission; one may start a background agent.
ToolRuns(t) ==
  /\ pc[t] = "tool"
  /\ pc' = [pc EXCEPT ![t] = "turn"]
  /\ UNCHANGED <<loop, store, turn, parent, cancelled, counter, events, bridge, history>>

\* run_tool_batch races the tools against the token.
ToolAbandoned(t) ==
  /\ pc[t] = "tool" /\ Stopped(t)
  /\ pc' = [pc EXCEPT ![t] = "done"]
  /\ UNCHANGED <<loop, store, turn, parent, cancelled, counter, events, bridge, history>>

ToolSpawns(t, a) ==
  /\ pc[t] = "tool" /\ Foreground(t) /\ pc[a] = "idle"
  /\ pc' = [pc EXCEPT ![t] = "turn", ![a] = "turn"]
  /\ parent' = [parent EXCEPT ![a] = t]
  /\ UNCHANGED <<loop, store, turn, cancelled, counter, events, bridge, history>>

\* request_permission_inner: the id is taken from current_turn.
ToolAsks(t) ==
  /\ pc[t] = "tool" /\ asked < MaxRequests
  /\ asked' = asked + 1
  /\ queue' = Append(queue, [id |-> counter, num |-> asked + 1, task |-> t])
  /\ counter' = counter + 1
  /\ pc' = [pc EXCEPT ![t] = "blocked"]
  /\ UNCHANGED <<loop, waiting, turn, parent, cancelled, events, bridge, typed, sent,
                 started, launched, stops, verdicts, displaced, told, struck>>

-----------------------------------------------------------------------------
(* The remote client.                                                      *)

RemotePrompt ==
  /\ sent < MaxPrompts
  /\ sent' = sent + 1
  /\ inbox' = Append(inbox, [kind |-> "prompt", prompt |-> sent + 1])
  /\ UNCHANGED <<loop, store, tasks, announced, typed, started, launched, stops,
                 asked, verdicts, displaced, told, struck>>

RemoteCancel ==
  /\ stops < MaxStops
  /\ stops' = stops + 1
  /\ inbox' = Append(inbox, [kind |-> "cancel"])
  /\ UNCHANGED <<loop, store, tasks, announced, typed, sent, started, launched,
                 asked, verdicts, displaced, told, struck>>

RemoteAnswer(r) ==
  /\ announced' = announced \ {r}
  /\ inbox' = Append(inbox, [kind |-> "answer", request |-> r])
  /\ UNCHANGED <<loop, store, tasks, history>>

-----------------------------------------------------------------------------
LoopStep ==
  \/ NoKey \/ TypeMessage \/ AnswerKey \/ EnterKey \/ SynthesizedEnter
  \/ CtrlC \/ EscKey
  \/ PermissionsDone \/ PopDecided \/ PopShown
  \/ DrainEvents
  \/ BridgeDone \/ HandlePrompt \/ HandleCancel \/ HandleAnswer
  \/ StartDeferred \/ PromptsDone \/ FinishQuery \/ NothingFinished

TaskProgress(t) ==
  \/ TurnCancelled(t) \/ TurnBegin(t)
  \/ ModelBreaks(t) \/ ModelCallsTools(t) \/ ModelEnds(t)
  \/ QueryReturns(t) \/ QueryGoesOn(t)
  \/ ToolStart(t) \/ ToolRuns(t) \/ ToolAbandoned(t) \/ ToolAsks(t)
  \/ \E a \in Agents : ToolSpawns(t, a)

RemoteStep ==
  \/ RemotePrompt \/ RemoteCancel
  \/ \E r \in announced : RemoteAnswer(r)

Next ==
  \/ LoopStep \/ RemoteStep
  \/ \E t \in Tasks : Delta(t) \/ TaskProgress(t)

Spec == Init /\ [][Next]_vars

(* The loop polls its sources with a timeout and goes round; a task that   *)
(* can take a step is scheduled, and a model's answer ends (the stream has *)
(* a stall timeout).  A user who keeps being shown a dialog answers it.    *)
Fairness ==
  /\ WF_vars(LoopStep)
  /\ \A t \in Tasks : WF_vars(TaskProgress(t))

FairSpec == Spec /\ Fairness /\ SF_vars(AnswerKey)

-----------------------------------------------------------------------------
(* The properties.                                                         *)

Messages ==
  [kind : {"prompt"}, prompt : 1 .. MaxPrompts] \cup [kind : {"cancel"}]
    \cup [kind : {"answer"}, request : Request]

\* Where a task can be.
Places == {"idle", "turn", "model", "tools", "tool", "blocked", "ending", "done"}

Verdicts == [num : 1 .. MaxRequests, given : 1 .. MaxRequests]

\* Every variable keeps its type; an empty message is never queued.
TypeOK ==
  /\ phase \in {"keys", "permissions", "events", "bridge", "prompts", "finish"}
  /\ streaming \in BOOLEAN /\ auto \in BOOLEAN
  /\ current \in Queries \cup {NoTask} /\ token \in Queries \cup {NoTask}
  /\ box \in Inputs \cup {"empty"} /\ queued \in Seq(Inputs)
  /\ deferred \in Seq(1 .. MaxPrompts) /\ started \in Seq(1 .. MaxPrompts)
  /\ dialog \in Request \cup {NoRequest}
  /\ queue \in Seq(Request) /\ waiting \subseteq Request
  /\ pc \in [Tasks -> Places]
  /\ turn \in [Tasks -> 0 .. MaxTurns] /\ parent \in [Agents -> Queries \cup {NoTask}]
  /\ counter \in Nat
  /\ events \in {"none", "busy", "idle"}
  /\ inbox \in Seq(Messages) /\ announced \subseteq Request
  /\ typed \in 0 .. MaxTyped /\ sent \in 0 .. MaxPrompts
  /\ launched \in 0 .. MaxQueries
  /\ stops \in 0 .. MaxStops /\ asked \in 0 .. MaxRequests
  /\ verdicts \subseteq Verdicts
  /\ cancelled \subseteq Queries /\ displaced \subseteq Queries
  /\ told \subseteq Queries /\ struck \subseteq Queries

InQueue == {queue[i] : i \in 1 .. Len(queue)}

\* A tool that is blocked on a permission has exactly one request in the
\* store, undecided, and a stored request has its tool blocked on it; the
\* request that left the queue is the one whose dialog is on screen.  So
\* whoever answers, no tool is left waiting for an answer nobody can give,
\* no dialog asks about a tool that has already gone on, and no request is
\* decided twice.
EveryAskIsOpen ==
  LET open == InQueue \cup waiting IN
  /\ \A t \in Tasks : pc[t] = "blocked" => \E r \in open : r.task = t
  /\ \A r \in open : /\ pc[r.task] = "blocked"
                     /\ \A q \in open : q.task = r.task => q = r
                     /\ \A v \in verdicts : v.num # r.num
  /\ \A v, w \in verdicts : v.num = w.num => v = w
  /\ waiting = IF dialog = NoRequest THEN {} ELSE {dialog}

\* A query runs without the loop holding its handle only when a message typed
\* at the keyboard displaced it: a remote prompt never starts a second query
\* (remote_turn_can_start).
RemoteTurnsNeverDisplace == Running \subseteq Known(current) \cup displaced

\* A Ctrl-C or a remote cancel that finds the loop streaming ends whatever
\* query it finds running, unless that has been displaced: neither it nor an
\* agent it started, then or before, begins another model turn.  The loop
\* goes by its flag and by the token it keeps, not by the task, so the token
\* has to be that of the query in flight whatever was started, joined, hidden
\* behind Esc or cancelled before.
StopsEndWhatRan ==
  [][\A t \in Tasks :
       t \in struck \/ (t \in Agents /\ parent[t] \in struck) => turn'[t] <= turn[t]]_vars

\* Remote prompts become turns (or commands) at most once and in the order
\* they were sent, whatever the loop is busy with (deferred_remote_prompts).
Feed == INSTANCE OrderedFeed
          WITH Readers <- {"loop"}, Forgetful <- {},
               seen <- [r \in {"loop"} |-> started]

PromptsInOrder == Feed!Spec

\* A permission request leaves the queue, shown to the user or settled by the
\* policy, however many dialogs and turns are ahead of it.
AskedIsShown ==
  \A n \in 1 .. MaxRequests :
    (\E r \in InQueue : r.num = n) ~> (\A r \in InQueue : r.num # n)

\* A cancelled query returns, so that its handle is joined and the next turn
\* can start, even if it is waiting for a permission when it is cancelled.
CancelledQueriesReturn ==
  \A q \in Queries : q \in cancelled ~> pc[q] = "done"

-----------------------------------------------------------------------------
(* What docs, comments and tests say, which the code does not do.          *)

\* An answer settles the request it was given to, or nothing: main.rs
\* 3462-3463 and the test answering_twice_is_reported_rather_than_silently_ignored.
AnswersReachTheirRequest == \A v \in verdicts : v.given = v.num

\* No turn starts over one that is still in flight: main.rs 3141-3143.
NoQueryDisplaced == displaced = {}

\* A turn the user has told to stop begins no further model turn: keybindings.md 391.
StopMeansStop == [][\A t \in told : turn'[t] <= turn[t]]_vars

\* With the keyboard left alone and every dialog answered, a prompt queued
\* behind a turn runs when the turn ends: remote-control.md 160.
QueuedPromptRuns ==
  <>[](dialog = NoRequest /\ box = "empty") =>
    \A p \in 1 .. MaxPrompts :
      (\E i \in 1 .. Len(deferred) : deferred[i] = p)
        ~> (\E i \in 1 .. Len(started) : started[i] = p)

=============================================================================
