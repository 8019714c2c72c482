------------------------------ MODULE AcpServer ------------------------------
(***************************************************************************)
(* The ACP server, which editors drive over stdin and stdout               *)
(* (src-rust/crates/acp/src).  Every inbound message is handled by a task   *)
(* of its own, so handlers interleave wherever they wait.  A session lives  *)
(* as a SessionState in the registry and as a file of transcripts; a turn   *)
(* runs on a copy of the transcript and writes it back; a tool that needs   *)
(* permission blocks until the editor has answered.                         *)
(*                                                                          *)
(* A transcript is the sequence of the prompts whose turns it holds; the    *)
(* number of a prompt is the number of the request that carried it.         *)
(***************************************************************************)
EXTENDS Naturals, Sequences, FiniteSets, SequencesExt

CONSTANTS Ids,          \* session ids
          MaxRequests,  \* bound on the messages the editor sends
          MaxAsks,      \* bound on the permission requests of tools
          MaxCrashes,   \* bound on the restarts of the process
          MaxFailures   \* bound on the saves that fail

ASSUME AcpAssumption == /\ MaxRequests \in Nat /\ MaxAsks \in Nat
                        /\ MaxCrashes \in Nat /\ MaxFailures \in Nat
                        /\ Ids \cap Nat = {}

Requests == 1..MaxRequests

\* A SessionState is named by what built it: session/new, or the request
\* that reopened or forked a session.
Objects == Ids \cup Requests
None == 0

Kinds == {"prompt", "clear", "retry", "cancel", "close", "load", "fork"}
Steps == {"idle", "start", "command", "running", "blocked", "open", "write",
          "claimed", "cancelled", "reading", "read", "opened", "remove", "done"}

\* Who may wait for a permission: the turn of a prompt, or the agent it left
\* running in the background.
Askers == Requests \X {"turn", "agent"}

VARIABLES
  registry,   \* SessionRegistry: id -> the object registered, or None
  home,       \* object -> its session id, or None when it does not exist
  messages,   \* object -> transcript
  inFlight,   \* object -> turn_in_flight
  token,      \* object -> the prompt whose token the session holds, or None
  queue,      \* object -> the requests in its PendingPermissionStore
  disk,       \* id -> the session's file
  received,   \* number of messages read from stdin
  kind, target,       \* request -> what it asks for, and of which session
  pc, held, copy, after,  \* request -> where its handler is, and its locals
  cancelled,  \* the prompts whose token is cancelled
  waiting,    \* the prompts whose turn left an agent that waits for permission
  forwarded,  \* who waits for an answer of the editor
  eof,        \* stdin has ended
  asked, crashes, failures,
  named,      \* the ids handed out so far: Uuid::new_v4 repeats none
  promised,   \* id -> history: prompts answered since the last /clear
  unfiled,    \* id -> history: those of them that failed saves left out
  disturbed,  \* history: ids closed, or opened twice in one process
  struck      \* history: prompts a cancel or a close found running

sessions == <<registry, home, messages>>
turns    == <<inFlight, token, cancelled>>
handlers == <<received, kind, target>>
locals   == <<pc, held, copy, after>>
asking   == <<queue, waiting, forwarded, asked>>
process  == <<eof, crashes, failures, named>>
history  == <<promised, unfiled, disturbed, struck>>
vars     == <<sessions, turns, disk, handlers, locals, asking, process, history>>

-----------------------------------------------------------------------------
(* The session file.                                                       *)

Absent      == [state |-> "absent",  text |-> <<>>]
Empty       == [state |-> "empty",   text |-> <<>>]
Garbled     == [state |-> "garbled", text |-> <<>>]
Whole(text) == [state |-> "whole",   text |-> text]
Files       == [state : {"absent", "empty", "garbled", "whole"}, text : Seq(Requests)]

\* tokio::fs::write truncates and then writes from the start, so what another
\* writer has put there in between stays where it is longer.
Outcomes(file, text) ==
  IF file.state # "garbled" /\ IsPrefix(file.text, text) THEN {Whole(text)}
  ELSE IF file.state # "garbled" /\ IsPrefix(text, file.text) THEN {Garbled}
  ELSE {Whole(text), Garbled}

-----------------------------------------------------------------------------
Init ==
  /\ registry = [i \in Ids |-> None]
  /\ home = [o \in Objects |-> None]
  /\ messages = [o \in Objects |-> <<>>]
  /\ inFlight = [o \in Objects |-> FALSE]
  /\ token = [o \in Objects |-> None]
  /\ queue = [o \in Objects |-> <<>>]
  /\ disk = [i \in Ids |-> Absent]
  /\ received = 0
  /\ kind = [r \in Requests |-> "cancel"]
  /\ target = [r \in Requests |-> None]
  /\ pc = [r \in Requests |-> "idle"]
  /\ held = [r \in Requests |-> None]
  /\ copy = [r \in Requests |-> <<>>]
  /\ after = [r \in Requests |-> "done"]
  /\ cancelled = {}
  /\ waiting = {}
  /\ forwarded = {}
  /\ eof = FALSE
  /\ asked = 0 /\ crashes = 0 /\ failures = 0 /\ named = {}
  /\ promised = [i \in Ids |-> {}] /\ unfiled = [i \in Ids |-> {}]
  /\ disturbed = {} /\ struck = {}

-----------------------------------------------------------------------------
(* Helpers.                                                                *)

Unnamed(i) == i \notin named /\ named' = named \cup {i}

Goto(r, step) == pc' = [pc EXCEPT ![r] = step]

\* SessionState::build and SessionRegistry::insert.
Register(o, i, text) ==
  /\ home' = [home EXCEPT ![o] = i]
  /\ messages' = [messages EXCEPT ![o] = text]
  /\ registry' = [registry EXCEPT ![i] = o]

\* TurnGuard is dropped and the request answered.
Answered(r) ==
  /\ Goto(r, "done")
  /\ inFlight' = [inFlight EXCEPT ![held[r]] = FALSE]

IsPrompt(r) == kind[r] \in {"prompt", "clear", "retry"}

\* The prompts whose handlers own a turn: they hold a TurnGuard.
InTurn == {r \in Requests : /\ IsPrompt(r)
                            /\ pc[r] \in {"claimed", "running", "blocked", "open", "write"}}

\* Mutant: an object's first token, which no turn holds, counts as a prompt's.
StrikeWhateverIsHeld(o) ==
  /\ cancelled' = cancelled \cup {token[o]}
  /\ struck' = struck \cup {r \in InTurn : held[r] = o}

\* SessionState::cancel: the token that the session holds, whose turn may be
\* over.
Strike(o) ==
  /\ cancelled' = cancelled \cup ({token[o]} \cap Requests)
  /\ struck' = struck \cup {r \in InTurn : held[r] = o}

-----------------------------------------------------------------------------
(* The editor.                                                             *)

\* session/new: the editor learns the id from the answer, so nothing happens
\* to the session before that.
NewSession(i) ==
  /\ ~eof /\ Unnamed(i)
  /\ Register(i, i, <<>>)
  /\ UNCHANGED <<turns, disk, handlers, locals, asking, eof, crashes, failures, history>>

\* A fork whose request has not been answered: its id comes with the answer.
Untold(i) == \E r \in Requests : /\ kind[r] = "fork" /\ held[r] = i /\ target[r] # i
                                 /\ pc[r] # "done"

\* The editor knows the sessions on file, and those it has been told of.
Known(i) == disk[i].state = "whole" \/ (registry[i] # None /\ ~Untold(i))

\* The reader hands a message to dispatch, which spawns its task.
Receive(k, i) ==
  /\ ~eof /\ received < MaxRequests /\ Known(i)
  /\ received' = received + 1
  /\ kind' = [kind EXCEPT ![received + 1] = k]
  /\ target' = [target EXCEPT ![received + 1] = i]
  /\ pc' = [pc EXCEPT ![received + 1] = "start"]
  /\ UNCHANGED <<sessions, turns, disk, held, copy, after, asking, process, history>>

\* The editor answers session/request_permission, or refuses it: either way
\* forward_pending sends a decision and the tool goes on.
ClientAnswers(q) ==
  /\ ~eof /\ q \in forwarded
  /\ forwarded' = forwarded \ {q}
  /\ IF q[2] = "turn"
     THEN Goto(q[1], "running") /\ UNCHANGED waiting
     ELSE waiting' = waiting \ {q[1]} /\ UNCHANGED pc
  /\ UNCHANGED <<sessions, turns, disk, handlers, held, copy, after, queue, asked,
                 process, history>>

\* The editor closes the agent's stdin.
Eof ==
  /\ ~eof
  /\ eof' = TRUE
  /\ UNCHANGED <<sessions, turns, disk, handlers, locals, asking, crashes, failures, named, history>>

\* The ids whose file a handler has truncated and not written yet.
HalfWritten == {home[held[r]] : r \in {s \in Requests : pc[s] = "write"}}

\* The process is killed and a new one started: only the files remain, and of
\* the promises what the files can keep.
Crash ==
  /\ crashes < MaxCrashes
  /\ crashes' = crashes + 1
  /\ registry' = [i \in Ids |-> None]
  /\ home' = [o \in Objects |-> None]
  /\ messages' = [o \in Objects |-> <<>>]
  /\ inFlight' = [o \in Objects |-> FALSE]
  /\ token' = [o \in Objects |-> None]
  /\ queue' = [o \in Objects |-> <<>>]
  /\ pc' = [r \in Requests |-> IF pc[r] = "idle" THEN "idle" ELSE "done"]
  /\ held' = [r \in Requests |-> None]
  /\ waiting' = {}
  /\ forwarded' = {}
  /\ eof' = FALSE
  /\ promised' = [i \in Ids |-> IF i \in HalfWritten THEN {} ELSE promised[i] \ unfiled[i]]
  /\ unfiled' = [i \in Ids |-> {}]
  /\ UNCHANGED <<named, failures, disk, handlers, copy, after, cancelled, asked,
                 disturbed, struck>>

-----------------------------------------------------------------------------
(* session/prompt.                                                         *)

\* Mutant: the flag is not looked at.
FreeWhenOpen(i) == registry[i] # None

Free(i) == registry[i] # None /\ ~inFlight[registry[i]]

\* on_prompt: an unknown session, or one with a turn in flight.
PromptRefused(r) ==
  /\ pc[r] = "start" /\ IsPrompt(r) /\ ~Free(target[r])
  /\ Goto(r, "done")
  /\ UNCHANGED <<sessions, turns, disk, handlers, held, copy, after, asking,
                 process, history>>

\* Mutant: a session keeps one token for its lifetime.
BeginTurnWithOldToken(r) ==
  LET o == registry[target[r]] IN
  /\ pc[r] = "start" /\ IsPrompt(r) /\ Free(target[r])
  /\ inFlight' = [inFlight EXCEPT ![o] = TRUE]
  /\ token' = [token EXCEPT ![o] = IF @ = None THEN r ELSE @]
  /\ held' = [held EXCEPT ![r] = o]
  /\ Goto(r, "claimed")
  /\ UNCHANGED <<sessions, cancelled, disk, handlers, copy, after, asking,
                 process, history>>

\* begin_turn: the flag, and a token of its own for the turn.
BeginTurn(r) ==
  LET o == registry[target[r]] IN
  /\ pc[r] = "start" /\ IsPrompt(r) /\ Free(target[r])
  /\ inFlight' = [inFlight EXCEPT ![o] = TRUE]
  /\ token' = [token EXCEPT ![o] = r]
  /\ held' = [held EXCEPT ![r] = o]
  /\ Goto(r, "claimed")
  /\ UNCHANGED <<sessions, cancelled, disk, handlers, copy, after, asking,
                 process, history>>

\* handle refuses a prompt without content, after it has claimed the turn.
PromptEmpty(r) ==
  /\ pc[r] = "claimed" /\ kind[r] = "prompt"
  /\ Answered(r)
  /\ UNCHANGED <<sessions, token, cancelled, disk, handlers, held, copy, after,
                 asking, process, history>>

\* The turn runs on a copy of the transcript with the prompt appended.
StartQuery(r) ==
  /\ pc[r] = "claimed" /\ kind[r] = "prompt"
  /\ copy' = [copy EXCEPT ![r] = Append(messages[held[r]], r)]
  /\ Goto(r, "running")
  /\ UNCHANGED <<sessions, turns, disk, handlers, held, after, asking, process, history>>

\* The command leaves `text` of the session's transcript, which is filed, and
\* no longer has the turns of `dropped` in full.
Leave(r, text, dropped, next) ==
  /\ messages' = [messages EXCEPT ![held[r]] = text]
  /\ copy' = [copy EXCEPT ![r] = text]
  /\ after' = [after EXCEPT ![r] = next]
  /\ promised' = [promised EXCEPT ![home[held[r]]] = @ \ dropped]

\* run_command, for the commands that change the transcript.  /clear stands
\* for those that replace it.  /retry cuts at the last message with the
\* user's role: the last prompt, which is handed back to be run again, or the
\* results of its turn's tools, which have no text: the tail of the turn is
\* gone and there is "nothing to retry".
RunCommand(r) ==
  LET text == messages[held[r]] IN
  /\ pc[r] = "claimed"
  /\ \/ kind[r] = "clear" /\ Leave(r, <<>>, ToSet(text), "done")
     \/ kind[r] = "retry" /\ text = <<>> /\ Leave(r, <<>>, {}, "done")
     \/ kind[r] = "retry" /\ text # <<>> /\ Leave(r, Front(text), {Last(text)}, "running")
     \/ kind[r] = "retry" /\ text # <<>> /\ Leave(r, text, {Last(text)}, "done")
  /\ Goto(r, "open")
  /\ UNCHANGED <<registry, home, turns, disk, handlers, held, asking, process,
                 unfiled, disturbed, struck>>

\* A tool of the turn needs permission: it enqueues its request and blocks.
TurnAsks(r) ==
  /\ pc[r] = "running" /\ asked < MaxAsks
  /\ asked' = asked + 1
  /\ queue' = [queue EXCEPT ![held[r]] = Append(@, <<r, "turn">>)]
  /\ Goto(r, "blocked")
  /\ UNCHANGED <<sessions, turns, disk, handlers, held, copy, after, waiting,
                 forwarded, process, history>>

\* An agent that the turn left in the background shares the session's store
\* and asks for permission at any time, the turn being over or not.
AgentAsks(r) ==
  /\ IsPrompt(r) /\ held[r] # None /\ r \in ToSet(copy[r]) /\ r \notin waiting
  /\ asked < MaxAsks
  /\ asked' = asked + 1
  /\ waiting' = waiting \cup {r}
  /\ queue' = [queue EXCEPT ![held[r]] = Append(@, <<r, "agent">>)]
  /\ UNCHANGED <<sessions, turns, disk, handlers, locals, forwarded, process, history>>

\* Mutant: the queue is read and not drained.
DrainACopy(r) ==
  /\ pc[r] \in {"running", "blocked"}
  /\ queue[held[r]] # <<>>
  /\ forwarded' = forwarded \cup ToSet(queue[held[r]])
  /\ UNCHANGED <<sessions, turns, disk, handlers, locals, queue, waiting, asked, process, history>>

\* Mutant: the turn that waits drains nothing.
DrainBetweenTools(r) ==
  /\ pc[r] = "running"
  /\ queue[held[r]] # <<>>
  /\ forwarded' = forwarded \cup ToSet(queue[held[r]])
  /\ queue' = [queue EXCEPT ![held[r]] = <<>>]
  /\ UNCHANGED <<sessions, turns, disk, handlers, locals, waiting, asked, process, history>>

\* spawn_drainer: while a turn runs, whatever is queued goes to the editor.
Drain(r) ==
  /\ pc[r] \in {"running", "blocked"}
  /\ queue[held[r]] # <<>>
  /\ forwarded' = forwarded \cup ToSet(queue[held[r]])
  /\ queue' = [queue EXCEPT ![held[r]] = <<>>]
  /\ UNCHANGED <<sessions, turns, disk, handlers, locals, waiting, asked, process, history>>

\* Once the editor is gone the write may fail, and every request is denied.
DrainUnheard(r) ==
  LET denied == ToSet(queue[held[r]]) IN
  /\ eof /\ pc[r] \in {"running", "blocked"}
  /\ queue[held[r]] # <<>>
  /\ queue' = [queue EXCEPT ![held[r]] = <<>>]
  /\ waiting' = {a \in waiting : <<a, "agent">> \notin denied}
  /\ IF <<r, "turn">> \in denied THEN Goto(r, "running") ELSE UNCHANGED pc
  /\ UNCHANGED <<sessions, turns, disk, handlers, held, copy, after, forwarded, asked,
                 process, history>>

\* Mutant: the transcript is filed and not written back to the session.
QueryReturnsToFile(r) ==
  /\ pc[r] = "running"
  /\ after' = [after EXCEPT ![r] = "done"]
  /\ Goto(r, "open")
  /\ UNCHANGED <<sessions, turns, disk, handlers, held, copy, asking,
                 process, history>>

\* run_query_loop returns, with or without a cancel: the drainer is stopped
\* and the copy becomes the session's transcript.
QueryReturns(r) ==
  /\ pc[r] = "running"
  /\ messages' = [messages EXCEPT ![held[r]] = copy[r]]
  /\ after' = [after EXCEPT ![r] = "done"]
  /\ Goto(r, "open")
  /\ UNCHANGED <<registry, home, turns, disk, handlers, held, copy, asking,
                 process, history>>

-----------------------------------------------------------------------------
(* persist::save, in every handler that saves.  A failure is logged and     *)
(* swallowed: the handler goes on as if the session had been filed.         *)

\* The prompts that are answered by the message that saves: that of the turn,
\* and those whose turns a fork hands out.
AtStake(r) == IF after[r] = "opened" THEN ToSet(copy[r]) ELSE {r} \cap ToSet(copy[r])

AfterSave(r) ==
  /\ promised' = [promised EXCEPT ![home[held[r]]] = @ \cup AtStake(r)]
  /\ CASE after[r] = "done" ->
            Answered(r) /\ UNCHANGED copy
       [] after[r] = "running" ->
            /\ copy' = [copy EXCEPT ![r] = Append(@, r)]
            /\ Goto(r, "running")
            /\ UNCHANGED inFlight
       [] after[r] \in {"remove", "opened"} ->
            Goto(r, after[r]) /\ UNCHANGED <<inFlight, copy>>
  /\ UNCHANGED <<sessions, token, cancelled, handlers, held, after, asking, eof, crashes,
                 named, disturbed, struck>>

SaveOpen(r) ==
  /\ pc[r] = "open"
  /\ disk' = [disk EXCEPT ![home[held[r]]] = Empty]
  /\ Goto(r, "write")
  /\ UNCHANGED <<sessions, turns, handlers, held, copy, after, asking, process, history>>

\* The directory or the file cannot be had: the file stays as it is.
SaveCannotOpen(r) ==
  /\ pc[r] = "open" /\ failures < MaxFailures
  /\ failures' = failures + 1
  /\ unfiled' = [unfiled EXCEPT ![home[held[r]]] = @ \cup AtStake(r)]
  /\ AfterSave(r)
  /\ UNCHANGED disk

SaveWrite(r) ==
  LET i == home[held[r]] IN
  /\ pc[r] = "write"
  /\ \E file \in Outcomes(disk[i], copy[r]) : disk' = [disk EXCEPT ![i] = file]
  /\ unfiled' = [unfiled EXCEPT ![i] = @ \ ToSet(copy[r])]
  /\ AfterSave(r)
  /\ UNCHANGED failures

\* The disk is full: nothing or a part of the text is written, and none of
\* the session's turns is on file.
SaveCannotWrite(r) ==
  LET i == home[held[r]] IN
  /\ pc[r] = "write" /\ failures < MaxFailures
  /\ failures' = failures + 1
  /\ \E file \in {disk[i], Garbled} : disk' = [disk EXCEPT ![i] = file]
  /\ unfiled' = [unfiled EXCEPT ![i] = promised[i] \cup AtStake(r)]
  /\ AfterSave(r)

-----------------------------------------------------------------------------
(* session/cancel and session/close.                                       *)

CancelRuns(r) ==
  LET o == registry[target[r]] IN
  /\ pc[r] = "start" /\ kind[r] = "cancel"
  /\ IF o # None THEN Strike(o) ELSE UNCHANGED <<cancelled, struck>>
  /\ Goto(r, "done")
  /\ UNCHANGED <<sessions, inFlight, token, disk, handlers, held, copy, after, asking,
                 process, promised, unfiled, disturbed>>

CloseRefused(r) ==
  /\ pc[r] = "start" /\ kind[r] = "close" /\ registry[target[r]] = None
  /\ Goto(r, "done")
  /\ UNCHANGED <<sessions, turns, disk, handlers, held, copy, after, asking,
                 process, history>>

CloseCancels(r) ==
  LET o == registry[target[r]] IN
  /\ pc[r] = "start" /\ kind[r] = "close" /\ o # None
  /\ Strike(o)
  /\ disturbed' = disturbed \cup {target[r]}
  /\ held' = [held EXCEPT ![r] = o]
  /\ Goto(r, "cancelled")
  /\ UNCHANGED <<sessions, inFlight, token, disk, handlers, copy, after, asking,
                 process, promised, unfiled>>

\* The snapshot is taken before the file is opened, from the transcript the
\* running turn has not written back to yet.
CloseSnapshot(r) ==
  /\ pc[r] = "cancelled"
  /\ copy' = [copy EXCEPT ![r] = messages[held[r]]]
  /\ after' = [after EXCEPT ![r] = "remove"]
  /\ Goto(r, "open")
  /\ UNCHANGED <<sessions, turns, disk, handlers, held, asking, process, history>>

\* SessionRegistry::remove goes by the id, whichever object is there.
CloseRemoves(r) ==
  /\ pc[r] = "remove"
  /\ registry' = [registry EXCEPT ![target[r]] = None]
  /\ Goto(r, "done")
  /\ UNCHANGED <<home, messages, turns, disk, handlers, held, copy, after, asking,
                 process, history>>

-----------------------------------------------------------------------------
(* session/load, session/resume and session/fork.                          *)

IsReopen(r) == kind[r] \in {"load", "fork"}

ReopenLive(r) ==
  LET o == registry[target[r]] IN
  /\ pc[r] = "start" /\ IsReopen(r) /\ o # None
  /\ held' = [held EXCEPT ![r] = o]
  /\ Goto(r, "opened")
  /\ UNCHANGED <<sessions, turns, disk, handlers, copy, after, asking, process, history>>

ReopenMissed(r) ==
  /\ pc[r] = "start" /\ IsReopen(r) /\ registry[target[r]] = None
  /\ Goto(r, "reading")
  /\ UNCHANGED <<sessions, turns, disk, handlers, held, copy, after, asking,
                 process, history>>

\* A file that does not parse is an unknown session.
ReopenRead(r) ==
  LET file == disk[target[r]] IN
  /\ pc[r] = "reading"
  /\ copy' = [copy EXCEPT ![r] = file.text]
  /\ Goto(r, IF file.state = "whole" THEN "read" ELSE "done")
  /\ UNCHANGED <<sessions, turns, disk, handlers, held, after, asking, process, history>>

\* The registry is not looked at again.
ReopenInsert(r) ==
  LET i == target[r] IN
  /\ pc[r] = "read"
  /\ Register(r, i, copy[r])
  /\ held' = [held EXCEPT ![r] = r]
  /\ disturbed' = IF \E o \in Objects : home[o] = i THEN disturbed \cup {i} ELSE disturbed
  /\ Goto(r, "opened")
  /\ UNCHANGED <<turns, disk, handlers, copy, after, asking, process, promised, unfiled, struck>>

\* load replays the transcript and answers, resume just answers; a fork that
\* has been saved is answered too.
ReopenAnswers(r) ==
  /\ pc[r] = "opened"
  /\ kind[r] = "load" \/ home[held[r]] # target[r]
  /\ Goto(r, "done")
  /\ UNCHANGED <<sessions, turns, disk, handlers, held, copy, after, asking,
                 process, history>>

\* fork_from: a session of its own with a copy of the transcript, registered
\* and then saved.
Fork(r, i) ==
  /\ pc[r] = "opened" /\ kind[r] = "fork" /\ home[held[r]] = target[r]
  /\ Unnamed(i)
  /\ Register(i, i, messages[held[r]])
  /\ held' = [held EXCEPT ![r] = i]
  /\ copy' = [copy EXCEPT ![r] = messages[held[r]]]
  /\ after' = [after EXCEPT ![r] = "opened"]
  /\ Goto(r, "open")
  /\ UNCHANGED <<turns, disk, handlers, asking, eof, crashes, failures, history>>

-----------------------------------------------------------------------------
Handler(r) ==
  \/ PromptRefused(r) \/ BeginTurn(r) \/ PromptEmpty(r) \/ StartQuery(r)
  \/ RunCommand(r) \/ TurnAsks(r) \/ Drain(r) \/ DrainUnheard(r) \/ QueryReturns(r)
  \/ SaveOpen(r) \/ SaveCannotOpen(r) \/ SaveWrite(r) \/ SaveCannotWrite(r)
  \/ CancelRuns(r) \/ CloseRefused(r) \/ CloseCancels(r) \/ CloseSnapshot(r)
  \/ CloseRemoves(r)
  \/ ReopenLive(r) \/ ReopenMissed(r) \/ ReopenRead(r) \/ ReopenInsert(r)
  \/ ReopenAnswers(r) \/ \E i \in Ids : Fork(r, i)

Next ==
  \/ \E r \in Requests : Handler(r) \/ AgentAsks(r)
  \/ \E i \in Ids : NewSession(i)
  \/ \E k \in Kinds, i \in Ids : Receive(k, i)
  \/ \E q \in Askers : ClientAnswers(q)
  \/ Eof \/ Crash

Spec == Init /\ [][Next]_vars

\* Tasks that can run are scheduled, a query returns (its streams and tools
\* have timeouts), and an editor that is there answers what it is asked.
Fairness == /\ \A r \in Requests : WF_vars(Handler(r))
            /\ \A q \in Askers : WF_vars(ClientAnswers(q))

FairSpec == Spec /\ Fairness

-----------------------------------------------------------------------------
(* Properties.                                                             *)

TypeOK ==
  /\ registry \in [Ids -> Objects \cup {None}]
  /\ home \in [Objects -> Ids \cup {None}]
  /\ messages \in [Objects -> Seq(Requests)]
  /\ inFlight \in [Objects -> BOOLEAN]
  /\ token \in [Objects -> Requests \cup {None}]
  /\ queue \in [Objects -> Seq(Askers)]
  /\ disk \in [Ids -> Files]
  /\ received \in 0..MaxRequests
  /\ kind \in [Requests -> Kinds] /\ target \in [Requests -> Ids \cup {None}]
  /\ pc \in [Requests -> Steps]
  /\ held \in [Requests -> Objects \cup {None}]
  /\ copy \in [Requests -> Seq(Requests)]
  /\ after \in [Requests -> {"done", "running", "remove", "opened"}]
  /\ cancelled \subseteq Requests
  /\ waiting \subseteq Requests
  /\ forwarded \subseteq Askers
  /\ eof \in BOOLEAN /\ named \subseteq Ids
  /\ asked \in 0..MaxAsks /\ crashes \in 0..MaxCrashes /\ failures \in 0..MaxFailures
  /\ promised \in [Ids -> SUBSET Requests] /\ unfiled \in [Ids -> SUBSET Requests]
  /\ disturbed \subseteq Ids /\ struck \subseteq Requests

Undisturbed == Ids \ disturbed

\* on_prompt promises one turn at a time per session.  The flag is the
\* object's, so it takes more than the flag: as long as no close has begun and
\* the session has not been opened twice, no second object can hold it.
OneTurnPerSession ==
  \A r, s \in InTurn : target[r] = target[s] /\ target[r] \in Undisturbed => r = s

\* Every turn that has been answered is in the session's transcript, and on
\* file whenever no write is under way, except those that a failed save left
\* out, which the next save that succeeds files too: a swallowed failure
\* costs no turn before a death of the process, and a death none that was
\* filed, unless it falls into the middle of a write.
UndisturbedTurnsAreFiled ==
  \A i \in Undisturbed :
    /\ registry[i] # None => promised[i] \subseteq ToSet(messages[registry[i]])
    /\ i \notin HalfWritten => promised[i] \ unfiled[i] \subseteq ToSet(disk[i].text)

\* A cancel or a close reaches the turn it finds running and no other: one
\* that starts later has a token of its own, whatever the session held before.
CancelsReachRunningTurns == InTurn \cap cancelled = InTurn \cap struck

\* Whoever is blocked on a permission has one request, in the store of its
\* session or with the editor, and nobody else has any.
BlockedAreAsked ==
  \A q \in Askers :
    LET blocked == IF q[2] = "turn" THEN pc[q[1]] = "blocked" ELSE q[1] \in waiting
        stored  == Cardinality({at \in Objects \X (1..MaxAsks) :
                                  at[2] <= Len(queue[at[1]]) /\ queue[at[1]][at[2]] = q})
    IN  stored + (IF q \in forwarded THEN 1 ELSE 0) = IF blocked THEN 1 ELSE 0

\* Every prompt is answered, as long as the editor stays and answers what it
\* is asked: the drainer runs while a tool of the turn is blocked.
PromptsAreAnswered ==
  \A r \in Requests : (pc[r] = "start" /\ IsPrompt(r)) ~> (pc[r] = "done" \/ eof)

\* "Every turn is filed, so a session outlives the process and can be handed
\* back in full" (server.rs, on_initialize): when nothing is going on in a
\* session, its file has the turns that were answered.
EveryTurnIsFiled ==
  \A i \in Ids :
    (\A r \in Requests : i \in {target[r], held[r]} => pc[r] \in {"idle", "done"})
      => promised[i] = {} \/ (disk[i].state = "whole" /\ promised[i] \subseteq ToSet(disk[i].text))

\* "Returns when stdin reaches EOF" (lib.rs, run_acp_server): once stdin has
\* ended, the turns whose handlers the server waits for come to an end.
EofEndsTheServer == eof ~> InTurn = {}

=============================================================================
