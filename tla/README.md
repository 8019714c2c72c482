# A verification of mikmik

mikmik is a coding agent for the terminal, written in Rust. One process runs the
conversation: a main loop draws the terminal and reads keys, query tasks talk to
a model and run tools, and agents run in the background. The session can also be
driven from a phone: a relay on the network keeps a queue and an event buffer,
a bridge in the CLI polls the one and fills the other, and a web page does the
opposite. Editors drive the same query loop through ACP; a workspace server
keeps accounts, policies and synchronised settings.

This directory holds TLA+ models of the parts in which several actors share
state, the TLC configurations that check them on small instances, and proofs
that hold for every instance. `PROJECT.json` lists, for every definition, the
lines of the source that it stands for.

## 1. Inventory

### Remote Control relay (`src/relay`)

*State.* A map from session ids to records behind one `RwLock`: a bounded queue
of messages for the runner, a bounded ring of numbered events for the pages, the
next sequence number, and a `Notify` on which both kinds of long-lived handler
wait. *Operations.* The runner registers, polls (held up to `POLL_HOLD`, 25 s),
uploads events, deregisters; a page opens an event stream (which also queues
`ClientAttached`), posts prompts, answers and cancels; a sweeper drops silent
sessions; a poll that names an unknown session creates it. *Hard.* A handler
takes the lock several times and other handlers run in between; a wake-up that
finds no waiter is lost; queue and ring drop their oldest entries; sessions are
recreated and number their events from 1 again; requests are abandoned while
their handlers live on. *Correct when* messages arrive in order and at most
once, nothing is lost but by the ways the design names, a page that resumes
skips nothing still retained, and neither side waits for ever.

### Main loop of the CLI (`cli/src/main.rs`, `tui/src/app.rs`)

*State.* `app.is_streaming`, `current_query` (handle and messages of the running
query), `cancel` (its token), the prompt box, `queued_messages`,
`pending_auto_submit`, `deferred_remote_prompts`, the permission dialog and the
other dialogs. *Operations.* One thread visits its sections in a fixed order:
keyboard, permission queue, query events, bridge messages, deferred prompts,
finished tasks. *Hard.* The flag follows the query's events and the handle its
task, so they disagree for moments of every turn; a stop, a submit or an answer
can come from two sides; a queued prompt must not be forgotten. *Correct when*
one query runs at a time, prompts start in order, a stop stops, and whatever
waits for the turn to end is served.

### Permission queue (`tools/src/lib.rs`)

*State.* A FIFO of requests and a map of those shown, by `tool_use_id`.
*Operations.* A tool enqueues a request and blocks a worker thread on its
answer; the loop evaluates the policy again, settles or shows the request;
keyboard and remote client settle by id. *Hard.* Two answers to one request;
agents that ask behind an open dialog; a task that is cancelled while blocked;
ids that repeat. *Correct when* every blocked tool has exactly one open request
and gets the decision that was given to it.

### Query loop and sub-agents (`query/src`)

*State.* The message history, the turn number, retry and recovery counters, the
cancellation token, `ToolContext.current_turn`, the agents' registry and
inboxes. *Operations.* Model turns with streaming on two dispatch arms (the raw
Anthropic client, the provider registry), tool batches that race the token,
retries, fallback models, recovery from a reply that was cut, rule and advisor
interrupts, hooks, mail, goal continuation, the last turn without tools,
compaction (`compact.rs`), sanitising the history before a request
(`sanitize.rs`), background agents. *Hard.* Cancels in every phase, errors after
part of a stream, messages pushed while a batch of calls is unanswered, seven
ways round the loop that do not count as turns, agents that outlive their
parents. *Correct when* what goes to the model is a well-formed history, what a
tool said reaches it, limits bound the requests, and a query ends.

### Bridge (`bridge/src/lib.rs`)

*State.* Session, poll cursor, upload batch, back-off. *Operations.* Poll,
acknowledge by polling again, upload in batches, reconnect, deregister at
shutdown. *Hard.* A held poll does not see the shutdown token; an upload that
fails drops its batch; a registration repeated for new metadata can overtake the
deregistration.

### Web page (`src/relay/static/app.js`)

*State.* The joined session, the `EventSource` and its cursor, the reconnect
timer, the cards (permission, question, MCP trust, bypass), the busy flag.
*Operations.* Join, leave, reconnect with back-off, probe the session list,
send, answer a card. *Hard.* Callbacks of a session that has been left; a card
of one session shown in another; two sources open at once; a session the relay
forgot. *Correct when* what the page shows and answers belongs to the session on
screen, once and in order, and a pane whose stream fails comes back or says why
it does not.

### ACP server (`acp/src`)

*State.* The registry of sessions; in each its transcript, the flag of a running
turn, the token a cancel takes, its permission queue; the session files; the
requests the editor has yet to answer. *Operations.* `session/new`, load, fork,
prompt (slash commands included), cancel, close, permission round trips, and the
end of stdin. *Hard.* Every inbound message is a task of its own, so a cancel
can overtake its prompt, two loads can build two objects for one id, and a close
files a session whose turn is on its way back; a file is truncated and rewritten
in place, and a save that fails is logged and swallowed; a tool waits for an answer its own turn forwards. *Correct when* a
session runs one turn at a time, a cancel ends the turn that runs and no other,
an answered turn is in the session and in its file, unless a failed save left it
out, which the next save makes good; and every prompt is answered.

### MCP client (`mcp/src`)

*State.* Status and client of each server, tool lists. *Operations.* Connect,
disconnect, authorise, list, call; `start_reconnect_loop` is exported and called
by nobody. *Hard.* Stale tool lists; a server that dies under a call.

### Workspace server and sync client (`src/server`, `core/src/workspace_server`)

*State.* On the server the accounts a user is entitled to, his login sessions,
and one row with a version and a backup of his settings; on a machine
`settings.json` (entries, some marked as managed) and `auth.json` (keys), and
the trigger that watches the first. *Operations.* Log in and out, pull the
accounts, upload on change or by hand, restore, clear. *Hard.* A put checks the
version under one lock and writes under another; an upload spans several calls
while the files change; who owns an account follows from marks in two files.
*Correct when* a backup behaves as a register with versions, a company key stays
home and ends with its entitlement or the session, the user's own keys survive,
and every change is followed by an upload.

### Everything else

Session storage, prompt history, snapshots, settings; tools (files, shells, web,
agents, messages between agents, schedules); accounts and OAuth; language
servers; model providers; terminal drawing; slash commands; plugins; the VS Code
extension; vendored coreutils. `PROJECT.json` names each with the reason why it
is not modelled or what of it is planned.

## 2. Modules

| module | what it is |
| --- | --- |
| `OrderedFeed` | abstract specification: numbered items reach each reader at most once and in order |
| `VersionedRegister` | abstract specification: a register whose writes name the version they replace |
| `Relay` | the relay with every handler, the runner and the pages at its two ends |
| `TurnLoop` | the main loop, the permission queue, the query tasks and the bridge's messages |
| `QueryLoop` | one query loop with its message history, and all that adds to it |
| `AcpServer` | the ACP server's concurrent handlers, its turns and the session files |
| `Workspace` | the workspace server and the machines of one user |
| `Page` | the web page, its event sources and their callbacks |
| `Relay_proofs`, `TurnLoop_proofs`, `QueryLoop_proofs`, `AcpServer_proofs`, `Workspace_proofs`, `Page_proofs` | the theorems |
| `SequenceLemmas` | induction over the naturals, and what the library's `FlattenSeq` computes, for the proofs |
| `MCRelay`, `MCTurnLoop`, `MCQueryLoop`, `MCAcp`, `MCWorkspace`, `MCPage` | instances for TLC |

`OrderedFeed` is what three different parts promise: the relay to the runner
(messages), the relay to each page (events), the main loop to whoever sends
prompts. Each is shown to implement it by a refinement mapping in its module
(`MessageFeed`, `EventFeed`, `Feed`). `Workspace` implements `VersionedRegister`
(`Register`): a put that takes two locks behaves as one step. The models meet at
these interfaces: `Relay` treats a page as a reader that may go and resume, and
`Page` treats the relay as a ring with numbers; `TurnLoop` treats a turn as a
few program points, and `QueryLoop` opens them up.

### `Relay`

One session is modelled, since handlers name one session and the sweeper treats
each on its own. An action is what a handler does under one acquisition of the
lock, or between two of them. Each long poll and each event stream has a program
counter:

* poll: `RunnerPoll` (first `take_inbound`), `PollNotifier` (clone the session's
  `Notify`), `PollArm` (create the future and park), a wake-up or `PollHold`,
  `PollAgain` (second `take_inbound`), `PollReply`;
* stream: `StreamOpen`/`StreamResume`, `StreamAttach` (queue `ClientAttached`),
  `StreamEmit`, `StreamNotifier`, `StreamRead`, `StreamArm`, `StreamTick`.

`Notify` is modelled by its waiters: `notify_waiters` moves on the handlers that
are parked on that incarnation's `Notify` and leaves nothing behind. `epoch`
tells incarnations of the session apart, as `Arc` identities do in the code.

Abstractions. Messages and events are numbered in the order in which they are
produced. A request the runner has given up on is not handled later by the
relay. What a stream emits reaches its page in one step, and a broken stream
loses the rest of what it had read. The page's cursor is the stream's
`last_seq`. Session metadata is left out, and so is the loss of a message
between the response of a poll and the CLI.

### `TurnLoop`

`phase` is the section the loop is about to execute. Keys that end in `continue`
lead back to `keys`, the others on to `permissions`, as in the code. A task has
a program counter: `turn` (top of `run_query_loop`), `model` (streaming),
`tools` (the answer has calls), `tool` (a batch runs), `blocked` (in
`blocking_recv`), `ending` (hooks, continuation policy), `done`. The tasks are
the queries, in the order in which they are launched, and background agents.

The event channel is reduced to what its events do to `is_streaming`: a drain
takes all of them, so the last one that sets the flag stands for the content.
Agents have no event channel, as in the code. `cancelled` holds the queries
whose token is cancelled; an agent's token is a child of its parent's
(`Stopped`). The history variable `struck` holds the queries that a Ctrl-C or a
remote cancel found running while the loop was streaming and that no typed
message had displaced; the loop cancels the token it keeps and knows no task, so
that these are the queries it ought to reach has to be shown. `counter` is `ToolContext.current_turn`, which every query loop
stores to and every permission request increments.

A request record carries its id and a number that exists in the model only, to
tell whether an answer reached the request it was given to.

Left out: the dialogs for questions, plans, MCP trust and the bypass warning,
session switching, what a slash command does (it empties the prompt box), and
leaving the program. A tool batch shows one prompt at a time, which is what
`join_all` on one task does.

### `QueryLoop`

One query loop, prompt after prompt, over one `history`. A message is told apart
by who wrote it, its kind, the tool calls it makes (`uses`) and the calls it
answers, really (`answers`) or with a stand-in (`blanks`). `pc` follows
`run_query_loop`: `idle`, `top` (budget, mail, compaction), `ready` (the request
is built, the history sanitised), `sampling` (the stream), `tools` (a batch
runs), `closing` (what follows a reply without calls). The two arms differ where
the code does: what a stall, an error in mid-stream or a stream that just ends
leaves behind, which blocks of a broken stream become calls, and what a stop
reason that does not fit the blocks leads to.

Around the loop: `Review` (the advisor's task, which leaves a note and empties
the inbox its context names), `MailArrives`, `Cancel`, and the exits 0 to 2 of
`PostModelTurn` hooks. `sanitize_history` and `snap_to_pairing_boundary` are
operators over the history, translated case by case; `compact_conversation` is
the set of histories they lead to for every budget. Left out: text, token
counts (a budget is any place to cut), the cursor arm, the tool budget's
shortening of results, and the reactive collapse.

### `AcpServer`

Every message the editor sends is a request with a program counter (`pc`), a
`kind` and a `target`, and an action is what its handler does between two
awaits. A `SessionState` is named by what built it, `session/new` or the request
that reopened or forked a session, so that an id may have several. A turn works
on `copy`, the transcript it cloned, and writes it back; a transcript is the
sequence of the prompts it holds. The `disk` holds a file per id, absent, empty,
garbled or whole: `tokio::fs::write` truncates and writes, and two writers can
mix. A save may fail before the file is emptied (`SaveCannotOpen`) or after it
(`SaveCannotWrite`, which leaves an empty or a garbled file), up to `MaxFailures`
times; the handler goes on and answers, as `persist.rs` says. `/retry` cuts at the
last message with the user's role, which may be tool results: then it answers
"Nothing to retry." with the transcript already cut, and saves it. `process` ends
and starts again with `Crash`; `Eof` closes stdin.

History variables: `promised` (prompts answered since the last `/clear`; a death
of the process takes those that are `unfiled` and those whose file is
`HalfWritten`), `unfiled` (prompts of a session that failed saves left out of its
file, until a save succeeds), `disturbed` (ids that were closed, or opened twice in one process) and `struck`
(turns a cancel or a close found running). Left out: authentication, modes and
models, MCP servers of a session, the wording of a replay.

### `Workspace`

The server's row (`version`, `backup`), its list of entitled accounts and the
sessions it accepts; each machine's two files as a map from names to who owns
the `entry` and who the `key`. A put is `Check` under the first lock and `Write`
under the second; its answer may be lost (`UploadEnds`). Uploads come from the
loop of a session (`Poll`, which waits for the timestamp to settle) or by hand
(`SyncNow`). A machine runs one command at a time: a pull, a restore, a login or
a logout, whose answers are fetched in one step and applied in another. Both
files are saved in one step. Left out: policies, fields of a backup that name
something to run, users and groups, audit, the admin pages.

### `Page`

A link is one `EventSource` with the callbacks that follow its failure:
`connecting`, `open`, `ended` (the error is on its way), `probing` (the session
list was asked for), `present` or `absent` (its answer), `waiting` (the
reconnect timer), `free`. A link keeps the session it was made for, as the
closures do; the code compares it with the open session at some of its steps and
not at others, and so does the model. The relay is what a page sees of it: the
sessions `listed`, a `ring` and the `next` number of each. A runner's event is
told apart by what the page does with it: show a card, hide one, set the status
line, replace the pane's history, or append.

History variables: `astray` (cards answered to another session than asked) and
`revisited` (a session was opened again while a callback of it was pending; then
two sources feed the page). Left out: the composer with its attachments and its
disabled button, the rename field, the token form, drawing.

## 3. Runs

| run | checks | instance |
| --- | --- | --- |
| `relay_messages` | `NoMessageVanishes`, `MessagesInOrder`, `EveryMessageIsFetched` | 2 polls, queue of 2, 3 messages, 2 incarnations |
| `relay_events` | `TypeOK`, `NothingRetainedIsSkipped`, `EventsInOrder`, `EveryStreamCatchesUp` | 1 stream, ring of 2, 4 events in batches of 1 or 2, 3 incarnations |
| `turn_safety` | `TypeOK`, `RemoteTurnsNeverDisplace`, `StopsEndWhatRan`, `PromptsInOrder` | 2 queries of 2 model turns under a goal, no agents, 2 remote prompts (one a command), 1 typed message, 1 request, 1 remote cancel |
| `turn_liveness` | `EveryAskIsOpen`, `AskedIsShown`, `CancelledQueriesReturn` | 1 query and the agent it starts, 2 requests |
| `query_safety` | `TypeOK`, `RequestsArePaired`, `CutsKeepPairs`, `RunsAreReported` | both arms, all hook exits, 2 prompts, 2 calls, 1 thing going wrong |
| `query_liveness` | `RequestsAreBounded`, `QueryEnds` | the same with 1 prompt and 2 things going wrong |
| `acp_safety` | `TypeOK`, `OneTurnPerSession`, `UndisturbedTurnsAreFiled`, `CancelsReachRunningTurns`, `BlockedAreAsked` | 2 ids, 3 messages with 1 restart or 1 failing save, 2 with both or with 1 permission request |
| `acp_liveness` | `PromptsAreAnswered` | 2 ids, 2 messages, 2 permission requests, 1 failing save |
| `workspace` | `TypeOK`, `ModelKeysStayHome`, `ModelKeysEndWithTheirEntitlement`, `LogoutForgets`, `ServesARegister`, `OwnAccountsSurvive`, `ChangesAreTried` | 2 machines (one uploads on change, one by hand), 1 model and 1 search account, 3 puts, 1 edit, 2 grants, 2 commands, 1 clear |
| `page` | `TypeOK`, `ShownInOrder`, `AnswersGoHome`, `DisconnectedIsFinal`, `PanesComeBack` | 2 sessions, 2 visits, 3 links, ring of 1, 2 events of 3 kinds per session, 2 failures |
| `acp_filed` | `EveryTurnIsFiled` is violated | 2 ids, 3 messages |
| `query_torn` | `NoTornCallRuns` is violated | 1 prompt, 1 thing going wrong |

*Why the bounds are enough to be interesting.*

* Relay: two polls are one that was abandoned and the one that replaced it.
  Three messages overflow a queue of two. Four events in batches of two overflow
  a ring of two while a stream has a batch pending. Three incarnations let a
  page resume after two restarts.
* Main loop: two queries are one running and one that could displace it; two
  model turns give a query a moment between turns in which the flag is false;
  two requests are one on screen and one behind it, with the same id. The safety
  run has no agents, which would make it too large; that a stop also ends the
  agents of the query it strikes is left to the theorem.
* Query loop: every budget of the code (`Retries`, `RecoveryLimit`,
  `ProseBudget`, `MaxFailures`, `GoalLimit`, `Cooldown`) is 1, so that each is
  used up and met again. `MCQueryLoop` counts what goes wrong in a behaviour
  (retries, fallback, recoveries, interrupts, goal turns, notes, mail, a cancel)
  and its constraint `FewTroubles` cuts behaviours with more than `MaxTroubles`.
  Two prompts carry the damage of the first into the second; two troubles show
  any pair of them together. In the safety run a history holds one hook's words at
  a time (`HooksSpeakOnce`), and its view tells messages apart by calls, results
  and hooks, which is what the pairing looks at. A reply makes up to two calls, so a batch can be
  half done.
* ACP: three messages are a prompt, what disturbs it and what comes after (a
  reopening, a second prompt); two ids let a fork exist beside its origin. The
  constraint `OneTrouble` of `MCAcp` keeps the safety run within minutes:
  permission requests and the end of stdin meet neither a failing save nor a
  restart (what a save does looks at neither), and the third message is sent only
  where at most one of a restart and a failing save has happened, nothing was
  asked, and a second session, if there is one, is a fork of the first or was
  opened by a later process. The theorems have no such restriction. The view of `MCAcp` forgets what a handler that has ended was about, which no
  action and no property looks at, and ids are interchangeable.
* Workspace: of three puts one is between its locks, one overtakes it and one is
  made with what the other left. Two grants are one handed out and one
  withdrawn; two commands are what it takes to bring a key back (a pull and a
  restore). The user of one machine uploads by hand, so that both kinds of
  uploader race.
* Page: two visits leave one session for another or the same one twice; two
  failures break a stream and what follows it (a probe that fails, a session
  that is forgotten). A ring of one drops an event a page has not read. Three
  links are a source, one of a session that was left, and one that its
  reconnect opened. The three kinds are a card the page takes down when a
  session is left, one it does not, and a replay of the history.

Bounds appear in guards only for the environment (what is sent, asked, typed,
broken, restarted) and for what is a parameter of the code; those of the query
loop's surroundings and of the ACP server's failing saves also in the constraints
named above.

*Deadlock.* Only the turn runs check for it: the loop always goes round. The
others set `CHECK_DEADLOCK FALSE`, because their systems do stop once a bounded
environment has nothing left to send and every handler has ended: a session that
was deregistered, an editor that closed stdin, a query that is over, machines
whose users do nothing, a page left alone.

*Fairness.* In `Relay`, handlers that can run are scheduled (weak fairness of
`PollProgress` and `StreamProgress`), which includes the timeouts `POLL_HOLD` and
`STREAM_TICK`; and the runner polls again, as `run_poll_loop` does, until it
deregisters. Nothing is assumed of pages, uploads, sweeps or restarts. In
`TurnLoop`, the loop goes round because it polls the keyboard with a timeout
(weak fairness of `LoopStep`), and a task that can take a step takes one,
because the tokio runtime schedules it and a stream that falls silent has a
stall timeout (weak fairness of `TaskProgress`). Strong fairness of `AnswerKey`
is an assumption about the user: one who is shown dialogs again and again
answers one. In `QueryLoop`, the loop is one task whose requests are answered,
refused or time out, and whose tools return (weak fairness of `LoopStep`);
nothing is assumed of the advisor, mail or the user. In `AcpServer`, handlers
are tokio tasks (weak fairness of `Handler`), and an editor answers what it was
asked while it stays (weak fairness of `ClientAnswers`). In `Workspace`, the
timer of a session ticks (`Poll`) and a request has a timeout (`UploadEnds`). In
`Page`, the browser delivers the events and answers it has, fires timers, and
the relay answers what reaches it (weak fairness of `Progress`); breaking,
failing and being refused are never fair.

### What does not hold

Two disagreements between the code and what it says of itself have a run of
their own. `acp_filed`: `session/close` files the transcript before the turn it
cancels has come back, and its write may land after the turn's. `query_torn`: on
the registry arm a stream that just ends, or stalls with no retry left, is
assembled as far as it came, and a call whose arguments never arrived runs with `{}`.

The others have a configuration to be run by hand; each ends in a
counterexample.

| configuration | property | the words it contradicts |
| --- | --- | --- |
| `MCRelayMissed.cfg` | `NoMissedMessage` | `src/relay/src/runner.rs:90`: "`notified()` is created before the wait so a message queued between the drain above and here is not missed." The future is created after the drain, and `notify_waiters` stores no permit; the message waits for `POLL_HOLD`. |
| `MCRelayResume.cfg` | `ResumeSkipsNothing` | `src/docs/remote-control.md:193`: "A browser that lost its connection reconnects with the last sequence number it saw and resumes from there." A recreated session numbers from 1 and the new events are filtered out. |
| `MCTurnStale.cfg` | `AnswersReachTheirRequest` | `src/src-rust/crates/cli/src/main.rs:3462`: false "when no request was waiting under that id, which happens if the same request was already answered from the other side." Ids repeat, and a late answer decides a request that came after. |
| `MCTurnDisplaced.cfg` | `NoQueryDisplaced` | `src/src-rust/crates/cli/src/main.rs:3141`: "starting a turn in that window would leak the handle." The keyboard's submit starts one in that window. |
| `MCTurnStop.cfg` | `StopMeansStop` | `src/docs/keybindings.md:391`: "`Escape` while the model is streaming cancels the turn." Esc cancels no token. |
| `MCTurnStuck.cfg` | `QueuedPromptRuns` | `src/docs/remote-control.md:160`: "A command sent while a turn is running is queued and runs when the turn ends". An event drained after the completion leaves `is_streaming` set. |
| `MCAcpEof.cfg` | `EofEndsTheServer` | `src/src-rust/crates/acp/src/lib.rs:47`: "Returns when stdin reaches EOF". A turn that waits for the editor's answer is never woken. |
| `MCWorkspaceKeys.cfg` | `KeysEndWithTheirEntitlement` | `src/src-rust/crates/core/src/workspace_server/sync.rs:35`: "handing them back would let a user keep a key after the entitlement is gone." A web-search key has no settings entry, so `build` does not see that it is the company's. |
| `MCPageAnswers.cfg` | `EveryAnswerGoesHome` | `src/relay/static/app.js:63`: "Reset whenever a session is opened or left." `leaveSession` keeps the bypass warning, and its answer goes to the next session. |

Seen while modelling, and in the models unless the list of what is left out
names it:

* A `PostModelTurn` hook that exits with 1 puts its message between the calls of
  a reply and their results; the sanitiser then replaces the real results.
* A save that fails is logged and swallowed (`acp/src/persist.rs:15`): the turn is
  answered and stands in no file until the session's next save succeeds, and a
  failed write leaves an emptied or partial file where a whole one was.
  `UndisturbedTurnsAreFiled` excepts what such saves left out.
* `/retry` after a turn that ended with tool results cuts the transcript at these
  results and answers "Nothing to retry." (`acp/src/commands.rs:255`), against its
  comment "drop it from the user prompt onward".
* A query that meets its turn limit returns the last message of the history as
  its answer (`query/src/lib.rs:839`), which may be a batch of tool results or
  the request for a summary.
* The advisor's reviewer runs on a clone of the context whose inbox is still the
  main agent's, and takes the mail meant for it.
* An upload asks for the server's version after it has read its files, so it
  replaces a backup of another machine that it has never seen.
* A key the user has without an entry is replaced when the company hands out a
  model account of that name; `OwnAccountsSurvive` speaks of configured ones.
* An upload that fails is not tried again until the file changes again, which is
  why `ChangesAreTried` says "tried".
* A page that leaves a session and opens it again under its pending reconnect
  has two sources; a probe that fails writes "Reconnecting in" over the pane of
  another session.
* A page that probes a restarted relay before the runner's next poll is told
  "The machine disconnected." for good, and a tap on the session's card does
  nothing (`app.js:281`), against the advice of `src/docs/remote-control.md:230`
  to "Go back to the session list and reopen it."
* Outside the model of the page: a file being read when the session changes is
  attached in the next one, and the send button is disabled from a submit to the
  end of the turn, against the comment of `setBusy` (`app.js:470`).

## 4. Proofs

Every invariant, action property and refinement that the passing runs check is
also a theorem, for every value of the constants that the modules' assumptions
allow. The runs still say what a theorem cannot: that the interesting states are
reached, and that everything waited for happens.

`Relay_proofs` proves, for any sets of polls and streams and any limits, and from
`RelayAssumption` alone:

* `TypeCorrect` (`TypeOK`). Typing the ring needs its numbering: the invariant
  `TypedRing` adds that events are numbered consecutively up to `nextSeq - 1`
  and that the streams' pending events and cursors are typed alongside.
* `MessagesStayInOrder` (`MessagesInOrder`). `MessageOrder` says that what the
  runner has received, what the poll responses hold and what the queue holds are
  each increasing, within `accepted`, and lie one below the other where one is
  delivered before the other. Every step then maps to `Send`, `Deliver` or a
  stutter of `OrderedFeed`.
* `EventsStayInOrder` (`EventsInOrder`). `EventOrder` relates ring, pending
  events and what each page has got (`RingOrder`, `PendingOrder`, `RingAhead`).
  It has to survive a numbering that starts over: what a page of an earlier
  incarnation gets from a later ring is still newer than what it has, because
  events are produced in order even when their numbers are not.
* `MessagesAccountedFor` (`NoMessageVanishes`). Inductive with `Answering`: a
  response holds messages only while it waits to be sent. A poll that drains
  twice would otherwise overwrite what it took the first time.
* `ResumingSkipsNothing` (`NothingRetainedIsSkipped`). `Placed` says, of every
  stream whose page was opened against the present record, that what the ring
  holds at or below its cursor the page has got, that what the ring holds
  between the cursor and a pending event is pending too, and that the cursor is
  below the next number. `Sending` adds that only a stream in its loop has
  events pending, so that a dropped stream resumes from its cursor with nothing
  in hand. It rests on `EventOrder`. The end of a record ends what `Placed`
  says, which is where `ResumeSkipsNothing` fails.

`TurnLoop_proofs` proves, for any number of queries, agents, requests, prompts
and keys, from `TurnLoopAssumption`, `TaskAssumption` (agents are no numbers, as
queries are) and `RequestAssumption`:

* `BlockedToolsAreAsked` (`EveryAskIsOpen`). The property says that whoever is
  blocked has a request in the store; on its own it is not inductive, because a
  pop keeps it only if requests are told apart wherever they stand. `Asks` adds
  that: stored requests differ in number and in task, numbers are at most
  `asked` (so that the next one is new), a decided number is in the store no
  more and was decided once (`DecidedOnce`), and the request that left the queue is the dialog's. Each step then
  asks (`ToolAsksAsks`), pops (`PopDecidedAsks`, `PopShownAsks`), settles the
  dialog (`SettledAsks`), or leaves the requests alone (`QuietAsks`).
* `RemoteTurnsDisplaceNobody` (`RemoteTurnsNeverDisplace`). Needs `Asks` too:
  settling a request must wake a blocked task and not revive one that is done.
  `NotLaunched` says that queries not launched yet are idle, so that a launch
  disturbs no running one. Together with the types this is `Held`.
* `PromptsReachTheLoopInOrder` (`PromptsInOrder`). `PromptOrder`: the prompts
  started, set aside and in the inbox are each increasing, at most `sent`, and
  lie one below the other. Every step maps to `Send`, `Deliver` or a stutter.
* `StopsReachTheirQuery` (`StopsEndWhatRan`). The loop cancels the token it keeps
  and goes by its flag, so the theorem is about a relation between the two and
  the tasks. `Tokens` says that while the loop holds a query's handle its token is
  that query's, through launches, joins, and queries that Esc has hidden, and that
  what was struck is cancelled. By `RemoteTurnsNeverDisplace` a query that runs and
  is not displaced is the one whose handle is held; so the token that a stop
  cancels is that of the query it found running, and the query's agents hold its
  children.
* `TypeCorrect` (`TypeOK`). That launched queries stay within `MaxQueries` is a
  count over several variables (`Counted`): queries launched, texts queued and a
  text in the prompt box are together at most the messages typed and the remote
  prompts started that are no commands. Every step moves a message from one
  place to the next, and `TurnLoopAssumption` makes room for all of them.
  `TurnsLeft` does the same for the model turns of a task. The other theorems of
  the module need the weaker `Typed` only.

`QueryLoop_proofs` proves, for any budgets, arms, hook exits, and histories of any
length, from `ArmsAssumption`, `LimitsAssumption`, `SwitchesAssumption` and
`HooksAssumption`, with one inductive invariant (`IInv`):

* `TypeCorrect` (`TypeOK`), from `Typed`, which also says what tells a model's
  message from a user's: only replies make calls, and only users' messages hold
  results.
* `RequestsPaired` (`RequestsArePaired`) and `RunsReported` (`RunsAreReported`).
  `Sound(f, open)` says that a history is well paired but for the calls of its
  last message when `open`; `Told(f, open, R)` that each call of `R` has its
  result behind it, with the same exception. The sanitiser emits a piece for
  each message, and `SanitizedIsHealed` shows by induction over the messages it
  has read (`Healed`) that what it has emitted is sound and tells what its input
  told, open exactly when the next message answers the last. `Tracked` carries
  `Told` through the loop: while a batch runs, its calls are those of the last
  reply and the exception covers them (`IsLastReply`: a hook may have spoken
  since), and when it is over its results come right behind.
* `CutsAreSafe` (`CutsKeepPairs`). Wherever the walk back from the budget's cut
  ends, the first message kept holds no results, so every result that is kept
  still follows its call.
* `RequestsBounded` (`RequestsAreBounded`), through `SendsPaid`: requests sent are
  at most the turn number and what has been paid in retries, the fallback,
  interruptions and notes; before a request goes out one more has been paid.

The inductions use no induction schema, since the library's take an operator as
a parameter. `SequenceLemmas` derives from the well-foundedness of `<` on the
naturals that a set of naturals that holds 0 and successors is all of them
(`Induction`), with the set in place of the predicate; the existence and the
equations of the function `FlattenSeq` chooses follow from it.

`AcpServer_proofs` proves, for any ids, messages, restarts and failing saves,
from `AcpAssumption`, with one inductive invariant (`IInv`):

* `TypeCorrect` (`TypeOK`), `OneTurn` (`OneTurnPerSession`) and `CancelsReachTurns`
  (`CancelsReachRunningTurns`). That no two turns share a session is not
  inductive: `TurnsHold` adds that a turn under way holds an object whose flag
  is up and whose token is its own, `HandlersHold` that a handler past its
  start holds an object that exists, and `TurnsAsk` that a question of a turn
  stands in the store of its own session or with the editor, so that an answer
  wakes a turn that is blocked. `ObjectsHaveIds` relates objects, ids and the
  registry: two objects share an id only where `disturbed` says so. A turn's
  end lowers the flag of an object that no other turn holds.
* `BlockedHaveAsked` (`BlockedAreAsked`). The property counts; `AskedOnce` says the
  same by positions: a question stands at one position of one store or is with
  the editor, and it does as long as whoever asked it waits.
* `TurnsFiled` (`UndisturbedTurnsAreFiled`). `Filed` follows what was promised
  through its copies: the object of an undisturbed session has it
  (`ObjectsKeep`), its file has it when it can be read (`FilesKeep`), a turn past
  its claim works on a copy that has it and writes what the object holds into a
  file it has emptied (`OwnerCopies`), a load that has read the file while nobody
  else opened the session has it (`ReaderKnows`), a fork in progress is known to
  nobody (`CopierApart`), and whoever is closing a session has disturbed it
  (`CloserDisturbs`). `OneOwner` is the step to the writes: an undisturbed
  session has at most one handler that changes it. Saves may fail at any moment.
  `FilesKeep` is therefore about what is promised and not `unfiled`, at a moment
  when no handler is between emptying the file and writing it (`Settled`). A save
  that succeeds settles every debt, because what it writes is a copy of the whole
  session; a session that is opened from its file starts with none
  (`OrphansFiled`).

`Workspace_proofs` proves, for any machines, names, uploaders and bounds, from
the module's five assumptions:

* `TypeCorrect` (`TypeOK`), and from it `BackupIsARegister` (`ServesARegister`):
  `Check` and all of the machines' steps stutter, `Write` is the register's
  write or its refusal, and a clear is a clear.
* `ModelKeysNeverLeave` (`ModelKeysStayHome`). Inductive with `KeysAreMarked`: a
  machine with a company key of a model account has the entry that marks it,
  which is what `build` looks at.
* `ModelKeysAreHanded` (`ModelKeysEndWithTheirEntitlement`), which rests on the
  former: a restore brings no company key because no backup has one.
* `LogoutsForget` (`LogoutForgets`), through `SignedOutIsFree`: a machine without
  a session runs no command, so nothing fetched before the logout is applied
  after it.
* `OwnKeysSurvive` (`OwnAccountsSurvive`), from the types alone.

`Page_proofs` proves, for any sessions, kinds, links and bounds, from
`PageAssumption`, with one inductive invariant (`IInv`):

* `TypeCorrect` (`TypeOK`), which needs `LiveIsOpen`: without an open session the
  page has no source, and the live one is for the session on screen, so no
  reconnect is made for none.
* `PaneStaysInOrder` (`ShownInOrder`) and `AnswersStayHome` (`AnswersGoHome`).
  Both hold until a session is opened again under a pending callback. Until
  then `OthersAreStale` (every link but the live one belongs to a session that
  is not open), `SourcesContinue` (the relay's cursor for the live source is
  the page's), `PaneInOrder` and `CardsOfThePane` are kept together; a stale
  callback changes nothing but its own link and, where a probe fails, the
  status line.
* `DisconnectedStaysFinal` (`DisconnectedIsFinal`).

Only model-checked, for the bounds of the runs: `EveryMessageIsFetched`,
`EveryStreamCatchesUp`, `AskedIsShown`, `CancelledQueriesReturn`, `QueryEnds`,
`PromptsAreAnswered`, `ChangesAreTried` and `PanesComeBack`. All are liveness
properties under fairness, and neither those nor `ENABLED` are in the prover's
reach. Some have a safety side that is proved: `EveryAskIsOpen` and
`BlockedAreAsked` say that what is waited for can still be answered, and
`RequestsAreBounded` that a query has no requests left to go on with. The
properties of the violation runs and of the configurations above are refuted,
not proved.

### Not modelled

* Crashes between the two saves of a machine (`settings.json`, then `auth.json`),
  and two commands on one machine at once (a `mikmik sync` beside a session,
  `cli/src/workspace_cli.rs:373`): `Workspace` saves both files in one step and
  runs a command after the other. The interval trigger of an upload, and the
  policy with its cache.
* The cursor arm of the query loop, the tool budget, the reactive collapse, and
  token estimates.
* The dialogs of the main loop other than the permission dialog; session
  switching; the text of commands.
* The bridge's own back-off and shutdown; the composer, attachments, rename and
  token forms of the page.
* MCP: its reconnect loop is called by nobody, and what is left is request and
  response over a library.
* Storage formats, drawing, providers' wire formats, shells, plugins, vendored
  code: no state that several actors share, or a system outside this code.

## 5. Plan

Done: the relay, the main loop with the permission queue, the query loop with
its history, the ACP server, the workspace with its backup, the page.

Next, in this order:

1. `Bridge` composed with `Relay`: batches that fail, the shutdown under a held
   poll, a registration that overtakes the deregistration.
2. The edit guard: whether a file that changed since it was read can be
   overwritten by an edit.
3. Due schedules against missed ticks and deletion; the policy cache.
4. The transcript and its index under crashes; the consolidation lock.

Theorems worth having: the weakened forms of what does not hold, such as that
`AnswersReachTheirRequest` holds as long as ids do not repeat, and that a close
which finds no turn loses none; `ChangesAreTried`'s safety part, that a change
not yet tried is always noticed, waited for or newer than every upload; and
those of the modules above.
