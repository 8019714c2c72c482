----------------------------- MODULE QueryLoop -----------------------------
(***************************************************************************)
(* The query loop of the query crate: one prompt becomes a sequence of     *)
(* requests to a model, tool runs and follow-up messages, all of them kept *)
(* in one history.  A request goes out on one of two dispatch arms, the    *)
(* raw Anthropic client and the provider registry, which treat a reply     *)
(* differently.  Around the loop: a user who cancels, other agents that    *)
(* leave mail, a watching advisor that reviews each round in a task of its *)
(* own, hooks that run after every reply, and a summariser that replaces   *)
(* the head of a long history.                                             *)
(*                                                                         *)
(* A message is told apart by who wrote it, why it is in the history, the  *)
(* tool calls it makes and the calls it answers, really ("answers") or     *)
(* with a stand-in ("blanks").  Text is left out.                          *)
(***************************************************************************)
EXTENDS Naturals, Sequences, SequencesExt, FiniteSets, FiniteSetsExt

CONSTANTS
  Arms,          \* the dispatch arms a route may choose
  MaxTurns,      \* effective_max_turns
  Retries,       \* what retries_left starts from
  RecoveryLimit, \* MAX_TOKENS_RECOVERY_LIMIT
  ProseBudget,   \* MAX_PROSE_INTERRUPTS
  MaxFailures,   \* MAX_CONSECUTIVE_FAILURES of the compaction breaker
  GoalLimit,     \* MAX_GOAL_TURNS
  Advisor,       \* whether a watching advisor runs
  Cooldown,      \* the advisor's immune_turns
  Fallback,      \* whether a fallback model is configured
  Summary,       \* degradation_summary
  HookExits,     \* what the PostModelTurn hooks may exit with
  MaxQueries, MaxCalls, MaxNotes, MaxMail, MaxPerReply  \* bounds on the surroundings

ASSUME ArmsAssumption == Arms # {} /\ Arms \subseteq {"anthropic", "provider"}
ASSUME LimitsAssumption ==
  /\ MaxTurns \in Nat \ {0}
  /\ \A n \in {Retries, RecoveryLimit, ProseBudget, MaxFailures, GoalLimit, Cooldown,
               MaxQueries, MaxCalls, MaxNotes, MaxMail, MaxPerReply} : n \in Nat
ASSUME SwitchesAssumption == 
  Fallback \in BOOLEAN /\ Summary \in BOOLEAN /\ Advisor \in BOOLEAN
ASSUME HooksAssumption == HookExits # {} /\ HookExits \subseteq 0..2

VARIABLES
  history,       \* messages
  pc,            \* where the loop stands
  arm,           \* the arm this turn's route chose
  turn, retriesLeft, usedFallback, recoveries, proseLeft,
  summaryDone,   \* degradation_done
  summaryTurn,   \* degradation_turn
  goalTurns,     \* the goal's turns_used
  failures,      \* consecutive_failures of the session's compaction breaker
  reply,         \* the calls of the reply being worked on
  finished,      \* those of them whose tool has finished
  delta, note, immuneFrom, raised,   \* the advisor: work to review, its note, its cooldown
  inbox, mailed, \* mail waiting for this agent, mail sent to it so far
  cancelled,     \* the query's cancel token
  nextCall,      \* calls made so far
  ran,           \* every call whose tool ran to its end
  queries, sent  \* prompts so far; requests since the prompt or the last goal turn

loopVars == <<turn, retriesLeft, usedFallback, recoveries, proseLeft, summaryDone, goalTurns>>
advisorVars == <<delta, note, immuneFrom, raised>>
mailVars == <<inbox, mailed>>
toolVars == <<reply, finished, nextCall, ran>>
vars == <<history, pc, arm, loopVars, summaryTurn, failures, toolVars, advisorVars, mailVars,
          cancelled, queries, sent>>

\* A call remembers whether the stream carried all of its arguments, broke off
\* inside them, or ended before any arrived.
Call == [n : 1..MaxCalls, args : {"whole", "broken", "none"}]
UserKinds == {"prompt", "note", "rule", "mail", "hook", "results", "cancelled", "goal",
              "recovery", "limit", "summary", "healed"}
Message == [role : {"user", "assistant"}, kind : UserKinds \cup {"reply"},
            uses : SUBSET Call, answers : SUBSET Call, blanks : SUBSET Call]

-----------------------------------------------------------------------------
(* Messages, pairing and the sanitiser.                                     *)

FromUser(kind) ==
  [role |-> "user", kind |-> kind, uses |-> {}, answers |-> {}, blanks |-> {}]
FromModel(calls) ==
  [role |-> "assistant", kind |-> "reply", uses |-> calls, answers |-> {}, blanks |-> {}]

Results(m) == m.answers \cup m.blanks
HasCalls(m) == m.role = "assistant" /\ m.uses # {}

\* The user message right behind a message with calls is the one that must answer them.
IsAnswer(h, i) == i > 1 /\ h[i].role = "user" /\ HasCalls(h[i - 1])
IsAnswered(h, i) == i < Len(h) /\ h[i + 1].role = "user"

\* What the provider accepts: every call is answered in the next message, and
\* nothing else is.
Paired(h) ==
  \A i \in 1..Len(h) :
    /\ HasCalls(h[i]) => IsAnswered(h, i) /\ Results(h[i + 1]) = h[i].uses
    /\ Results(h[i]) # {} => IsAnswer(h, i)

\* answer_user_message: results of other calls go, missing ones get a placeholder.
Answering(m, calls) ==
  [m EXCEPT !.answers = @ \cap calls,
            !.blanks = (@ \cap calls) \cup (calls \ Results(m))]

\* Mutant: results of calls that are not there go out with the request.
PieceKeepsOrphans(h, i) ==
  CASE HasCalls(h[i]) /\ ~IsAnswered(h, i) ->
         <<h[i], [FromUser("healed") EXCEPT !.blanks = h[i].uses]>>
    [] IsAnswer(h, i) -> <<Answering(h[i], h[i - 1].uses)>>
    [] OTHER -> <<h[i]>>

\* What sanitize_history emits for the message at place i.
Piece(h, i) ==
  CASE HasCalls(h[i]) /\ ~IsAnswered(h, i) ->
         <<h[i], [FromUser("healed") EXCEPT !.blanks = h[i].uses]>>
    [] IsAnswer(h, i) -> <<Answering(h[i], h[i - 1].uses)>>
    [] h[i].role = "user" /\ ~IsAnswer(h, i) /\ Results(h[i]) # {} ->
         IF h[i].kind \in {"results", "cancelled", "healed"} THEN <<>>
         ELSE <<[h[i] EXCEPT !.answers = {}, !.blanks = {}]>>
    [] OTHER -> <<h[i]>>

sanitize_history(h) == FlattenSeq([i \in 1..Len(h) |-> Piece(h, i)])

-----------------------------------------------------------------------------
(* Compaction: where a cut may fall and what it leaves.                     *)

\* Mutant: the cut falls where the budget says.
CutAnywhere(h, k) == IF k >= Len(h) THEN Len(h) ELSE k

\* A cut at k keeps the messages behind the first k.
snap_to_pairing_boundary(h, k) ==
  IF k >= Len(h) THEN Len(h)
  ELSE Max({j \in 0..k : j = 0 \/ Results(h[j + 1]) = {}})

SummarisedAt(h, k) == <<FromUser("summary")>> \o SubSeq(h, k + 1, Len(h))

Cuts(h) == {snap_to_pairing_boundary(h, k) : k \in 0..Len(h)}

\* A summary of nothing, or of one message, changes no length and is thrown away.
compact_conversation(h) ==
  {IF k > 1 THEN SummarisedAt(h, k) ELSE h : k \in Cuts(h)}

-----------------------------------------------------------------------------
Init ==
  /\ history = <<>> /\ pc = "idle" /\ arm = "none"
  /\ turn = 0 /\ retriesLeft = Retries /\ usedFallback = FALSE /\ recoveries = 0
  /\ proseLeft = ProseBudget /\ summaryDone = FALSE /\ summaryTurn = FALSE
  /\ goalTurns = 0 /\ failures = 0
  /\ reply = <<>> /\ finished = {} /\ nextCall = 0 /\ ran = {}
  /\ delta = FALSE /\ note = "none" /\ immuneFrom = 0 /\ raised = 0
  /\ inbox = 0 /\ mailed = 0
  /\ cancelled = FALSE /\ queries = 0 /\ sent = 0

\* The locals of the loop, as they are before it is entered and once it is left.
Locals ==
  /\ turn' = 0 /\ retriesLeft' = Retries /\ usedFallback' = FALSE /\ recoveries' = 0
  /\ proseLeft' = ProseBudget /\ summaryDone' = FALSE /\ summaryTurn' = FALSE
  /\ reply' = <<>> /\ finished' = {}
  /\ cancelled' = FALSE /\ sent' = 0

\* A caller appends the user's prompt and enters the loop.
Prompt ==
  /\ pc = "idle" /\ queries < MaxQueries
  /\ queries' = queries + 1
  /\ history' = Append(history, FromUser("prompt"))
  /\ pc' = "top"
  /\ arm' \in Arms
  /\ Locals
  /\ UNCHANGED <<goalTurns, failures, nextCall, ran, advisorVars, mailVars>>

\* Leaving the loop drops the advisor's session and, with the inbox guard, unread mail.
Return ==
  /\ pc' = "idle" /\ arm' = "none"
  /\ Locals
  /\ delta' = FALSE /\ note' = "none" /\ immuneFrom' = 0
  /\ inbox' = 0
  /\ UNCHANGED <<goalTurns, raised, mailed, queries>>

-----------------------------------------------------------------------------
(* The top of the loop.                                                     *)

\* What the advisor said since the last boundary is put before the request.
WithNotes(h) == IF note = "none" THEN h ELSE Append(h, FromUser("note"))

TurnTop ==
  /\ pc = "top"
  /\ turn' = turn + 1
  /\ history' = WithNotes(history)
  /\ note' = "none"
  /\ turn + 1 <= MaxTurns
  /\ summaryTurn' = FALSE
  /\ pc' = "ready"
  /\ UNCHANGED <<arm, retriesLeft, usedFallback, recoveries, proseLeft, summaryDone, goalTurns,
                 failures, toolVars, delta, immuneFrom, raised, mailVars, cancelled,
                 queries, sent>>

\* The first turn over the limit asks for a summary, with no tools declared.
SummaryTop ==
  /\ pc = "top" /\ turn + 1 > MaxTurns /\ Summary /\ ~summaryDone
  /\ turn' = turn + 1
  /\ history' = Append(WithNotes(history), FromUser("limit"))
  /\ note' = "none"
  /\ summaryDone' = TRUE /\ summaryTurn' = TRUE
  /\ pc' = "ready"
  /\ UNCHANGED <<arm, retriesLeft, usedFallback, recoveries, proseLeft, goalTurns,
                 failures, toolVars, delta, immuneFrom, raised, mailVars, cancelled,
                 queries, sent>>

\* Without a summary, or after it, the loop returns whatever stands last.
LimitReached ==
  /\ pc = "top" /\ turn + 1 > MaxTurns /\ (~Summary \/ summaryDone)
  /\ history' = WithNotes(history)
  /\ Return
  /\ UNCHANGED <<failures, nextCall, ran>>

CancelSeen ==
  /\ pc = "ready" /\ cancelled
  /\ Return
  /\ UNCHANGED <<history, failures, nextCall, ran>>

-----------------------------------------------------------------------------
(* Building a request and opening its stream.                               *)

deliver_inbox(h) == IF inbox = 0 THEN h ELSE Append(h, FromUser("mail"))

\* More requests than any budget pays for; the count stops here.
SentCap == MaxTurns + Retries + ProseBudget + MaxNotes + 3

Send(h) ==
  /\ pc = "ready" /\ ~cancelled
  /\ history' = sanitize_history(h)
  /\ inbox' = 0
  /\ pc' = "sampling"
  /\ sent' = Min({sent + 1, SentCap})
  /\ UNCHANGED <<arm, loopVars, summaryTurn, toolVars, delta, note, raised, mailed, cancelled,
                 queries>>

\* There is room, auto-compaction is off, or the breaker is open.
SendWhole ==
  Send(deliver_inbox(history)) /\ UNCHANGED <<failures, immuneFrom>>

\* The summariser answers: the advisor forgets its place and its cooldown.
SendCompacted ==
  /\ failures < MaxFailures
  /\ \E c \in compact_conversation(deliver_inbox(history)) :
       /\ Send(c)
       /\ immuneFrom' = IF c = deliver_inbox(history) THEN immuneFrom ELSE 0
  /\ failures' = 0

\* Mutant: the open breaker is not asked.
SendUncompactedForEver ==
  /\ \E k \in Cuts(deliver_inbox(history)) : k > 0
  /\ Send(deliver_inbox(history))
  /\ failures' = failures + 1
  /\ UNCHANGED immuneFrom

\* It does not answer, and the conversation goes out as it is.
SendUncompacted ==
  /\ failures < MaxFailures
  /\ \E k \in Cuts(deliver_inbox(history)) : k > 0
  /\ Send(deliver_inbox(history))
  /\ failures' = failures + 1
  /\ UNCHANGED immuneFrom

BuildRequest == SendWhole \/ SendCompacted \/ SendUncompacted

\* An attempt that is not charged to max_turns.
Again == turn' = turn - 1 /\ pc' = "top"

UncountedVars == <<arm, recoveries, summaryDone, summaryTurn, goalTurns, failures, toolVars, delta,
                   mailVars, cancelled, queries, sent>>

\* The request is refused with an error another model could serve.
FallBack ==
  /\ pc = "sampling" /\ Fallback /\ ~usedFallback
  /\ usedFallback' = TRUE
  /\ arm' \in Arms
  /\ Again
  /\ UNCHANGED <<history, retriesLeft, recoveries, proseLeft, summaryDone, summaryTurn, goalTurns,
                 failures, toolVars, advisorVars, mailVars, cancelled, queries, sent>>

\* It is refused for good, or its stream breaks once too often.
RequestFails ==
  /\ pc = "sampling"
  /\ Return
  /\ UNCHANGED <<history, failures, nextCall, ran>>

\* Mutant: a retry is not charged to retries_left.
StreamRetriedFreely ==
  /\ pc = "sampling" /\ retriesLeft > 0
  /\ Again
  /\ UNCHANGED <<UncountedVars, history, usedFallback, retriesLeft, proseLeft, note, immuneFrom,
                 raised>>

\* A stall of 45 s and a broken stream share the retries.
StreamRetried ==
  /\ pc = "sampling" /\ retriesLeft > 0
  /\ retriesLeft' = retriesLeft - 1
  /\ Again
  /\ UNCHANGED <<UncountedVars, history, usedFallback, proseLeft, note, immuneFrom, raised>>

StreamCancelled ==
  /\ pc = "sampling" /\ cancelled
  /\ Return
  /\ UNCHANGED <<history, failures, nextCall, ran>>

\* A rule matched what the model was writing: the half answer goes, the rule stays.
ProseInterrupt ==
  /\ pc = "sampling" /\ proseLeft > 0
  /\ proseLeft' = proseLeft - 1
  /\ history' = Append(history, FromUser("rule"))
  /\ Again
  /\ UNCHANGED <<UncountedVars, retriesLeft, usedFallback, note, immuneFrom, raised>>

is_immune == immuneFrom > 0 /\ Cooldown > 0 /\ turn < immuneFrom + Cooldown

\* poll_interrupt: a blocker always stops the turn, a concern when nothing did lately.
AdvisorInterrupt ==
  /\ pc = "sampling"
  /\ note = "blocker" \/ (note = "concern" /\ ~is_immune)
  /\ note' = "none"
  /\ immuneFrom' = turn
  /\ history' = Append(history, FromUser("note"))
  /\ Again
  /\ UNCHANGED <<UncountedVars, retriesLeft, usedFallback, proseLeft, raised>>


-----------------------------------------------------------------------------
(* The reply.                                                               *)

\* The calls of one reply; the stream can only have broken off in the last one.
Calls(k, last) ==
  [i \in 1..k |-> [n |-> nextCall + i, args |-> IF i = k THEN last ELSE "whole"]]

\* The reply goes into the history, and what a failing PostModelTurn hook says behind it.
Replied(calls, exit) ==
  LET h == Append(history, FromModel(Range(calls)))
  IN IF exit = 0 THEN h ELSE Append(h, FromUser("hook"))

Record(calls, exit) ==
  /\ nextCall + Len(calls) <= MaxCalls
  /\ summaryTurn => calls = <<>>
  /\ nextCall' = nextCall + Len(calls)
  /\ history' = Replied(calls, exit)

\* The query ends with the reply: a hook exited above 1, or the reply stopped for
\* tools it does not call.
ReplyEnds ==
  /\ Return
  /\ UNCHANGED <<failures, ran>>

ToTools(calls) ==
  /\ reply' = calls /\ finished' = {} /\ pc' = "tools"
  /\ UNCHANGED <<arm, turn, retriesLeft, usedFallback, proseLeft, summaryDone, goalTurns,
                 summaryTurn, failures, ran, advisorVars, mailVars, cancelled, queries, sent>>

\* finish_turn hands the advisor the finished work before the turn is closed.
ToClosing ==
  /\ pc' = "closing"
  /\ delta' = (Advisor /\ ~summaryTurn)
  /\ UNCHANGED <<arm, loopVars, summaryTurn, failures, reply, finished, ran, note, immuneFrom, raised,
                 mailVars, cancelled, queries, sent>>

\* The registry arm: any call in the reply is run, whatever the stop reason, and a
\* stream that just ends, or stalls with no retry left, is assembled as far as it came.
ProviderReply ==
  /\ pc = "sampling" /\ arm = "provider"
  /\ \E k \in 0..MaxPerReply, last \in {"whole", "broken", "none"}, exit \in HookExits :
       /\ Record(Calls(k, last), exit)
       /\ \/ exit = 2 /\ ReplyEnds
          \/ exit # 2 /\ k > 0 /\ ToTools(Calls(k, last)) /\ UNCHANGED recoveries
          \/ exit # 2 /\ k = 0 /\ ToClosing

\* max_tokens: the model is told to go on, a bounded number of times.
CutShort(k, exit) ==
  /\ nextCall + k <= MaxCalls
  /\ summaryTurn => k = 0
  /\ nextCall' = nextCall + k
  /\ \/ /\ recoveries < RecoveryLimit
        /\ history' = Append(Replied(Calls(k, "whole"), exit), FromUser("recovery"))
        /\ recoveries' = recoveries + 1
        /\ pc' = "top"
        /\ UNCHANGED <<arm, turn, retriesLeft, usedFallback, proseLeft, summaryDone, goalTurns,
                       summaryTurn, failures, reply, finished, ran, advisorVars, mailVars,
                       cancelled, queries, sent>>
     \/ /\ recoveries >= RecoveryLimit
        /\ history' = Replied(Calls(k, "whole"), exit)
        /\ Return
        /\ UNCHANGED <<failures, ran>>

\* The Anthropic arm: blocks the stream did not close are dropped, so every call is
\* whole, and only a reply that stops for its tools has them run.  A reply that ends
\* with calls in it is one whose stream broke off before the stop reason came.
AnthropicReply ==
  /\ pc = "sampling" /\ arm = "anthropic"
  /\ \E k \in 0..MaxPerReply, stop \in {"end_turn", "max_tokens", "tool_use"}, exit \in HookExits :
       LET calls == Calls(k, "whole") IN
       \/ /\ exit = 2 \/ (stop = "tool_use" /\ k = 0)
          /\ Record(calls, exit) /\ ReplyEnds
       \/ exit # 2 /\ stop = "end_turn" /\ Record(calls, exit) /\ ToClosing
       \/ /\ exit # 2 /\ stop = "tool_use" /\ k > 0
          /\ Record(calls, exit) /\ ToTools(calls) /\ recoveries' = 0
       \/ exit # 2 /\ stop = "max_tokens" /\ CutShort(k, exit)

\* max_budget_usd is spent: the reply is dropped.
OverBudget ==
  /\ pc = "sampling" /\ arm = "anthropic"
  /\ Return
  /\ UNCHANGED <<history, failures, nextCall, ran>>

-----------------------------------------------------------------------------
(* Tools.                                                                   *)

\* One after the other on the registry arm, side by side on the other.  A call whose
\* arguments do not parse, or that a PreToolUse hook blocks, is answered with an error
\* and not run; one without any arguments is run with none.
RunTool ==
  /\ pc = "tools"
  /\ \E i \in 1..Len(reply) :
       /\ reply[i] \notin finished
       /\ arm = "provider" => \A j \in 1..(i - 1) : reply[j] \in finished
       /\ finished' = finished \cup {reply[i]}
       /\ \/ UNCHANGED ran
          \/ reply[i].args # "broken" /\ ran' = ran \cup {reply[i]}
  /\ UNCHANGED <<history, pc, arm, loopVars, summaryTurn, failures, reply, nextCall, advisorVars,
                 mailVars, cancelled, queries, sent>>

\* Mutant: the batch is over when all its tools have run.
ToolsDoneWhenAllRan ==
  /\ pc = "tools" /\ Range(reply) \subseteq ran
  /\ history' = Append(history, [FromUser("results") EXCEPT !.answers = Range(reply)])
  /\ delta' = Advisor
  /\ reply' = <<>> /\ finished' = {}
  /\ pc' = "top"
  /\ UNCHANGED <<arm, loopVars, summaryTurn, failures, nextCall, ran, note, immuneFrom, raised,
                 mailVars, cancelled, queries, sent>>

\* Mutant: mail is delivered as the tools return, in front of their results.
ToolsDoneBehindMail ==
  /\ pc = "tools" /\ finished = Range(reply)
  /\ history' = Append(deliver_inbox(history), [FromUser("results") EXCEPT !.answers = Range(reply)])
  /\ delta' = Advisor
  /\ inbox' = 0
  /\ reply' = <<>> /\ finished' = {}
  /\ pc' = "top"
  /\ UNCHANGED <<arm, loopVars, summaryTurn, failures, nextCall, ran, note, immuneFrom, raised,
                 mailed, cancelled, queries, sent>>

ToolsDone ==
  /\ pc = "tools" /\ finished = Range(reply)
  /\ history' = Append(history, [FromUser("results") EXCEPT !.answers = Range(reply)])
  /\ delta' = Advisor
  /\ reply' = <<>> /\ finished' = {}
  /\ pc' = "top"
  /\ UNCHANGED <<arm, loopVars, summaryTurn, failures, nextCall, ran, note, immuneFrom, raised,
                 mailVars, cancelled, queries, sent>>

\* run_tool_batch races the batch against the token; every call is answered with a
\* stand-in, finished or not.
ToolsCancelled ==
  /\ pc = "tools" /\ arm = "anthropic" /\ cancelled
  /\ history' = Append(history, [FromUser("cancelled") EXCEPT !.blanks = Range(reply)])
  /\ Return
  /\ UNCHANGED <<failures, nextCall, ran>>

-----------------------------------------------------------------------------
(* continue_or_end.                                                         *)

\* Only a blocker wakes a turn that was about to end.
Woken ==
  /\ pc = "closing" /\ ~summaryTurn /\ note = "blocker"
  /\ history' = WithNotes(history)
  /\ note' = "none"
  /\ Again
  /\ UNCHANGED <<UncountedVars, retriesLeft, usedFallback, proseLeft, immuneFrom, raised>>

\* GoalPolicy: the goal is active and below its runaway limit.
GoalContinues ==
  /\ pc = "closing" /\ ~summaryTurn /\ note # "blocker" /\ goalTurns < GoalLimit
  /\ goalTurns' = goalTurns + 1
  /\ history' = Append(WithNotes(history), FromUser("goal"))
  /\ note' = "none"
  /\ turn' = 0 /\ recoveries' = 0 /\ retriesLeft' = Retries /\ sent' = 0
  /\ pc' = "top"
  /\ UNCHANGED <<arm, usedFallback, proseLeft, summaryDone, summaryTurn, failures, toolVars, delta,
                 immuneFrom, raised, mailVars, cancelled, queries>>

TurnEnds ==
  /\ pc = "closing" /\ (summaryTurn \/ note # "blocker")
  /\ history' = IF summaryTurn THEN history ELSE WithNotes(history)
  /\ Return
  /\ UNCHANGED <<failures, nextCall, ran>>

-----------------------------------------------------------------------------
(* The surroundings.                                                        *)

\* The advisor's task reads a round in a query loop of its own, whose context still
\* carries this agent's address, so it drains this agent's inbox.
Review ==
  /\ delta /\ ~cancelled
  /\ delta' = FALSE
  /\ inbox' = 0
  /\ \/ UNCHANGED <<note, raised>>
     \/ /\ note = "none" /\ raised < MaxNotes
        /\ note' \in {"concern", "blocker"}
        /\ raised' = raised + 1
  /\ UNCHANGED <<history, pc, arm, loopVars, summaryTurn, failures, toolVars, immuneFrom, mailed,
                 cancelled, queries, sent>>

\* Another agent sends mail; the address lives as long as the loop does.
MailArrives ==
  /\ pc # "idle" /\ mailed < MaxMail
  /\ inbox' = inbox + 1 /\ mailed' = mailed + 1
  /\ UNCHANGED <<history, pc, arm, loopVars, summaryTurn, failures, toolVars, advisorVars,
                 cancelled, queries, sent>>

Cancel ==
  /\ pc # "idle" /\ ~cancelled
  /\ cancelled' = TRUE
  /\ UNCHANGED <<history, pc, arm, loopVars, summaryTurn, failures, toolVars, advisorVars,
                 mailVars, queries, sent>>

LoopStep ==
  \/ TurnTop \/ SummaryTop \/ LimitReached \/ CancelSeen \/ BuildRequest
  \/ FallBack \/ RequestFails \/ StreamRetried \/ StreamCancelled
  \/ ProseInterrupt \/ AdvisorInterrupt
  \/ ProviderReply \/ AnthropicReply \/ OverBudget
  \/ RunTool \/ ToolsDone \/ ToolsCancelled
  \/ Woken \/ GoalContinues \/ TurnEnds

Next == Prompt \/ LoopStep \/ Review \/ MailArrives \/ Cancel

\* The loop is one task: a request is answered, refused or stalls, and a tool returns.
Spec == Init /\ [][Next]_vars /\ WF_vars(LoopStep)

-----------------------------------------------------------------------------
(* Properties.                                                              *)

TypeOK ==
  /\ \A i \in 1..Len(history) : history[i] \in Message
  /\ pc \in {"idle", "top", "ready", "sampling", "tools", "closing"}
  /\ arm \in Arms \cup {"none"} /\ turn \in 0..(MaxTurns + 1)
  /\ retriesLeft \in 0..Retries /\ usedFallback \in BOOLEAN /\ recoveries \in 0..RecoveryLimit
  /\ proseLeft \in 0..ProseBudget /\ summaryDone \in BOOLEAN /\ summaryTurn \in BOOLEAN
  /\ goalTurns \in 0..GoalLimit /\ failures \in 0..MaxFailures
  /\ Range(reply) \subseteq Call /\ finished \subseteq Range(reply)
  /\ nextCall \in 0..MaxCalls /\ ran \subseteq Call
  /\ delta \in BOOLEAN /\ note \in {"none", "concern", "blocker"} /\ raised \in 0..MaxNotes
  /\ inbox \in 0..MaxMail /\ mailed \in 0..MaxMail /\ cancelled \in BOOLEAN

\* Whatever came before - a cancel, a veto, a broken stream, a compaction, a
\* message put between a call and its answer - a request never goes out with a
\* call unanswered or a result without its call, which a provider refuses.
RequestsArePaired == pc = "sampling" => Paired(history)

\* A cut is safe by itself, without the sanitiser behind it: compacting a
\* well-formed history at any budget leaves a well-formed one.
CutsKeepPairs ==
  pc = "ready" /\ Paired(history) =>
    \A c \in compact_conversation(history) : Paired(c)

\* What a tool that ran has to say reaches the model: as long as its call is in
\* the history its own result stands right behind it, unless the user cancelled
\* the batch or a hook spoke between the two.
RunsAreReported ==
  pc \in {"ready", "sampling", "idle"} =>
    \A i \in 1..Len(history) : \A c \in history[i].uses \cap ran :
      /\ i < Len(history)
      /\ history[i + 1].kind \in {"hook", "cancelled"} \/ c \in history[i + 1].answers

\* Every request that does not count against max_turns is paid for by a retry, the
\* fallback, a rule's interruption or an advisor's note, each of them bounded.
RequestsAreBounded ==
  sent <= MaxTurns + 1 + Retries + 1 + ProseBudget + raised

\* A query ends: no mix of retries, fallbacks, interruptions, recoveries, goal
\* turns and tool rounds keeps the loop going for ever.
QueryEnds == pc # "idle" ~> pc = "idle"

\* A tool never runs on arguments the stream did not deliver: "a truncated stream
\* must never cause a tool to run with empty arguments" (parse_tool_args).
NoTornCallRuns == \A c \in ran : c.args = "whole"

=============================================================================
