-------------------------- MODULE AcpServer_proofs --------------------------
(***************************************************************************)
(* What holds of AcpServer for any number of sessions, messages, questions *)
(* and restarts.                                                           *)
(***************************************************************************)
EXTENDS AcpServer, SequenceTheorems, FiniteSetTheorems, TLAPS

-----------------------------------------------------------------------------
(* The inductive invariant.                                                *)

Unread == {"idle", "start", "reading", "read"}
Begun == {"open", "write", "cancelled", "opened", "remove"}

(* A handler that has got somewhere holds a session; what it saves for       *)
(* belongs to the message it handles.                                      *)
HandlersHold ==
  \A r \in Requests :
    /\ pc[r] = "idle" <=> r > received
    /\ pc[r] # "idle" => target[r] \in named
    /\ pc[r] \in Begun => held[r] \in Objects
    /\ pc[r] \in {"claimed", "running", "blocked"} => IsPrompt(r)
    /\ pc[r] = "cancelled" => ~IsPrompt(r)
    /\ pc[r] \in {"open", "write"} => (IsPrompt(r) <=> after[r] \in {"done", "running"})

(* The turn of an object is the one its token was made for.                *)
TurnsHold ==
  /\ \A r \in InTurn : held[r] \in Objects /\ inFlight[held[r]] /\ token[held[r]] = r
  /\ \A o \in Objects : token[o] # None =>
       pc[token[o]] \notin {"idle", "start"} /\ (token[o] \in InTurn => held[token[o]] = o)
  /\ \A r \in cancelled \cup struck : pc[r] \notin {"idle", "start"}

(* The question of a turn is with the editor or in the store of the turn's  *)
(* session, and the turn waits for it.                                     *)
InStore(q, o) == \E n \in 1 .. Len(queue[o]) : queue[o][n] = q

TurnsAsk ==
  \A r \in Requests :
    /\ <<r, "turn">> \in forwarded =>
         pc[r] = "blocked" /\ \A o \in Objects : ~InStore(<<r, "turn">>, o)
    /\ \A o \in Objects : InStore(<<r, "turn">>, o) => pc[r] = "blocked" /\ held[r] = o

(* An id belongs to one object, unless it is disturbed.                    *)
ObjectsHaveIds ==
  /\ \A o \in Objects : home[o] # None => home[o] \in named
  /\ \A i \in Ids : home[i] \in {None, i}
  /\ \A r \in Requests : home[r] # None => pc[r] \notin Unread
  /\ \A i \in Ids : registry[i] # None => home[registry[i]] = i
  /\ \A i \in Ids : disk[i].state # "absent" => i \in named
  /\ \A o, p \in Objects : home[o] = home[p] /\ home[o] # None /\ o # p => home[o] \in disturbed
  /\ \A r \in InTurn : home[held[r]] = target[r]

IInv ==
  /\ TypeOK /\ HandlersHold /\ TurnsHold /\ CancelsReachRunningTurns
  /\ TurnsAsk /\ ObjectsHaveIds

-----------------------------------------------------------------------------
(* Names and sequences.                                                    *)

LEMMA NamesDiffer ==
  /\ None \notin Requests /\ None \notin Ids /\ Ids \cap Requests = {}
  /\ None \notin Objects
  /\ received \in Nat /\ received < MaxRequests => received + 1 \in Requests
  BY AcpAssumption DEF None, Requests, Objects

LEMMA ElementsOf ==
  ASSUME NEW S, NEW s \in Seq(S)
  PROVE  ToSet(s) \subseteq S
  BY DEF ToSet

LEMMA FrontOf ==
  ASSUME NEW S, NEW s \in Seq(S), s # <<>>
  PROVE  Front(s) \in Seq(S)
<1>1. Len(s) \in Nat /\ Len(s) # 0
  BY EmptySeq
<1> QED
  BY <1>1 DEF Front

LEMMA OutcomesAreFiles ==
  ASSUME NEW file, NEW text \in Seq(Requests), NEW new \in Outcomes(file, text)
  PROVE  new \in Files /\ new.state # "absent"
<1>1. Whole(text) \in Files /\ Whole(text).state = "whole"
  BY DEF Whole, Files
<1>2. Garbled \in Files /\ Garbled.state = "garbled"
  <2>1. <<>> \in Seq(Requests)
    OBVIOUS
  <2> QED
    BY <2>1 DEF Garbled, Files
<1>3. new \in {Whole(text), Garbled}
  BY DEF Outcomes
<1> QED
  BY <1>1, <1>2, <1>3

(* What a command leaves of the transcript has all that it does not drop.    *)
LEMMA CommandLeaves ==
  ASSUME NEW r \in Requests, RunCommand(r), messages[held[r]] \in Seq(Requests)
  PROVE  \E text, dropped, next :
           /\ Leave(r, text, dropped, next)
           /\ text \in Seq(Requests) /\ next \in {"done", "running"}
           /\ ToSet(messages[held[r]]) \ dropped \subseteq ToSet(text)
<1> DEFINE all == messages[held[r]]
           Leaves(text, dropped, next) ==
             /\ Leave(r, text, dropped, next)
             /\ text \in Seq(Requests) /\ next \in {"done", "running"}
             /\ ToSet(all) \ dropped \subseteq ToSet(text)
<1>1. <<>> \in Seq(Requests)
  OBVIOUS
<1>2. CASE Leave(r, <<>>, ToSet(all), "done")
  <2>1. Leaves(<<>>, ToSet(all), "done")
    BY <1>1, <1>2
  <2> QED
    BY <2>1
<1>3. CASE all = <<>> /\ Leave(r, <<>>, {}, "done")
  <2>1. Leaves(<<>>, {}, "done")
    BY <1>1, <1>3
  <2> QED
    BY <2>1
<1>4. CASE all # <<>> /\ Leave(r, Front(all), {Last(all)}, "running")
  <2>1. Front(all) \in Seq(Requests)
    BY <1>4, FrontOf
  <2>2. Len(all) \in Nat /\ Len(all) # 0
    BY <1>4, EmptySeq
  <2>3. ToSet(all) \ {Last(all)} \subseteq ToSet(Front(all))
    <3>1. ASSUME NEW e \in ToSet(all), e # Last(all) PROVE e \in ToSet(Front(all))
      <4>1. PICK n \in 1 .. Len(all) : all[n] = e
        BY SMTT(20) DEF ToSet
      <4>2. n # Len(all)
        BY <3>1, <4>1 DEF Last
      <4>3. n \in 1 .. Len(Front(all)) /\ Front(all)[n] = e
        BY <2>2, <4>1, <4>2 DEF Front
      <4> QED
        BY <4>3 DEF ToSet
    <3> QED
      BY <3>1
  <2>4. Leaves(Front(all), {Last(all)}, "running")
    BY <1>4, <2>1, <2>3
  <2> QED
    BY <2>4
<1>5. CASE Leave(r, all, {Last(all)}, "done")
  <2>1. Leaves(all, {Last(all)}, "done")
    BY <1>5
  <2> QED
    BY <2>1
<1> QED
  BY <1>2, <1>3, <1>4, <1>5 DEF RunCommand

(* One item more at the end of a store, and none other.                    *)
LEMMA StoredOneMore ==
  ASSUME NEW S, NEW s \in Seq(S), NEW e \in S
  PROVE  /\ Append(s, e) \in Seq(S)
         /\ \A q : (\E n \in 1 .. Len(Append(s, e)) : Append(s, e)[n] = q)
                     <=> (q = e \/ \E n \in 1 .. Len(s) : s[n] = q)
<1>1. /\ Append(s, e) \in Seq(S) /\ Len(Append(s, e)) = Len(s) + 1 /\ Len(s) \in Nat
      /\ Append(s, e)[Len(s) + 1] = e
      /\ \A i \in 1 .. Len(s) : Append(s, e)[i] = s[i]
  BY AppendProperties
<1> QED
  BY <1>1

-----------------------------------------------------------------------------
(* Types.                                                                  *)

SessionTypes ==
  /\ registry \in [Ids -> Objects \cup {None}]
  /\ home \in [Objects -> Ids \cup {None}]
  /\ messages \in [Objects -> Seq(Requests)]

TurnTypes ==
  /\ inFlight \in [Objects -> BOOLEAN]
  /\ token \in [Objects -> Requests \cup {None}]
  /\ cancelled \subseteq Requests

HandlerTypes ==
  /\ received \in 0..MaxRequests
  /\ kind \in [Requests -> Kinds] /\ target \in [Requests -> Ids \cup {None}]

LocalTypes ==
  /\ pc \in [Requests -> Steps]
  /\ held \in [Requests -> Objects \cup {None}]
  /\ copy \in [Requests -> Seq(Requests)]
  /\ after \in [Requests -> {"done", "running", "remove", "opened"}]

AskingTypes ==
  /\ queue \in [Objects -> Seq(Askers)]
  /\ waiting \subseteq Requests
  /\ forwarded \subseteq Askers
  /\ asked \in 0..MaxAsks

ProcessTypes ==
  /\ eof \in BOOLEAN /\ named \subseteq Ids
  /\ crashes \in 0..MaxCrashes /\ failures \in 0..MaxFailures

HistoryTypes ==
  /\ promised \in [Ids -> SUBSET Requests] /\ unfiled \in [Ids -> SUBSET Requests]
  /\ disturbed \subseteq Ids /\ struck \subseteq Requests

FileTypes == disk \in [Ids -> Files]

LEMMA TypeParts ==
  TypeOK <=> /\ SessionTypes /\ TurnTypes /\ HandlerTypes /\ LocalTypes
             /\ AskingTypes /\ ProcessTypes /\ HistoryTypes /\ FileTypes
  BY DEF TypeOK, SessionTypes, TurnTypes, HandlerTypes, LocalTypes, AskingTypes, ProcessTypes,
     HistoryTypes, FileTypes

LEMMA TypePartsNext ==
  /\ SessionTypes' /\ TurnTypes' /\ HandlerTypes' /\ LocalTypes'
  /\ AskingTypes' /\ ProcessTypes' /\ HistoryTypes' /\ FileTypes'
  => TypeOK'
  BY DEF TypeOK, SessionTypes, TurnTypes, HandlerTypes, LocalTypes, AskingTypes, ProcessTypes,
     HistoryTypes, FileTypes

LEMMA InitHolds == Init => IInv
<1> SUFFICES ASSUME Init PROVE IInv
  OBVIOUS
<1> USE NamesDiffer DEF Init
<1>1. <<>> \in Seq(Requests) /\ <<>> \in Seq(Askers) /\ Absent \in Files /\ Len(<<>>) = 0
  BY DEF Absent, Files
<1>2. TypeOK
  <2>1. SessionTypes /\ TurnTypes /\ FileTypes /\ LocalTypes
    BY <1>1 DEF SessionTypes, TurnTypes, FileTypes, LocalTypes, Steps
  <2>2. HandlerTypes
    BY AcpAssumption DEF HandlerTypes, Kinds
  <2>3. AskingTypes
    BY <1>1, AcpAssumption DEF AskingTypes
  <2>4. ProcessTypes
    <3>1. 0 \in 0..MaxCrashes /\ 0 \in 0..MaxFailures
      BY AcpAssumption
    <3> QED
      BY <3>1 DEF ProcessTypes
  <2>5. HistoryTypes
    <3>1. [i \in Ids |-> {}] \in [Ids -> SUBSET Requests]
      OBVIOUS
    <3> QED
      BY <3>1 DEF HistoryTypes
  <2> QED
    BY <2>1, <2>2, <2>3, <2>4, <2>5, TypeParts
<1>3. InTurn = {}
  BY DEF InTurn
<1>4. HandlersHold
  BY DEF HandlersHold, Begun, Requests
<1>5. TurnsHold /\ CancelsReachRunningTurns
  BY <1>3 DEF TurnsHold, CancelsReachRunningTurns
<1>6. TurnsAsk
  BY <1>1 DEF TurnsAsk, InStore
<1>7. ObjectsHaveIds
  <2>1. Absent.state = "absent"
    BY DEF Absent
  <2>2. \A i \in Ids : i \in Objects /\ home[i] = None
    BY DEF Objects
  <2>3. \A r \in Requests : r \in Objects /\ home[r] = None
    BY DEF Objects
  <2> QED
    BY <1>3, <2>1, <2>2, <2>3 DEF ObjectsHaveIds
<1> QED
  BY <1>2, <1>4, <1>5, <1>6, <1>7 DEF IInv

(* The step of a handler and the object it registers.                      *)
LEMMA GotoTypes ==
  ASSUME NEW r \in Requests, NEW step \in Steps, LocalTypes, Goto(r, step)
  PROVE  pc' \in [Requests -> Steps]
  BY DEF Goto, LocalTypes

LEMMA RegisterTypes ==
  ASSUME NEW o \in Objects, NEW i \in Ids, NEW text \in Seq(Requests), SessionTypes,
         Register(o, i, text)
  PROVE  SessionTypes'
  BY DEF Register, SessionTypes

LEMMA StrikeTypes ==
  ASSUME NEW o \in Objects, TypeOK, Strike(o)
  PROVE  cancelled' \subseteq Requests /\ struck' \subseteq Requests
  BY DEF Strike, TypeOK, InTurn

LEMMA PromptStepTypes ==
  ASSUME IInv, NEW r \in Requests,
         PromptRefused(r) \/ BeginTurn(r) \/ PromptEmpty(r) \/ StartQuery(r) \/ RunCommand(r)
           \/ TurnAsks(r) \/ Drain(r) \/ DrainUnheard(r) \/ QueryReturns(r) \/ AgentAsks(r)
  PROVE  TypeOK'
<1> USE TypeParts DEF IInv
<1>1. HandlerTypes' /\ ProcessTypes' /\ FileTypes'
  BY DEF PromptRefused, BeginTurn, PromptEmpty, StartQuery, RunCommand, TurnAsks, Drain,
     DrainUnheard, QueryReturns, AgentAsks, handlers, process, HandlerTypes, ProcessTypes,
     FileTypes
<1>2. CASE PromptRefused(r)
  BY <1>1, <1>2, GotoTypes, TypePartsNext DEF PromptRefused, sessions, turns, asking, history,
     SessionTypes, TurnTypes, LocalTypes, AskingTypes, HistoryTypes, Steps
<1>3. CASE BeginTurn(r)
  <2>1. target[r] \in Ids
    BY <1>3 DEF BeginTurn, HandlersHold, ProcessTypes
  <2>2. registry[target[r]] \in Objects
    BY <1>3, <2>1 DEF BeginTurn, Free, SessionTypes
  <2>3. TurnTypes' /\ LocalTypes'
    BY <1>3, <2>2, GotoTypes DEF BeginTurn, TurnTypes, LocalTypes, Steps
  <2> QED
    BY <1>1, <1>3, <2>3, TypePartsNext DEF BeginTurn, sessions, asking, history, SessionTypes,
       AskingTypes, HistoryTypes
<1>4. CASE PromptEmpty(r)
  <2>1. TurnTypes' /\ LocalTypes'
    BY <1>4, GotoTypes DEF PromptEmpty, Answered, TurnTypes, LocalTypes, Steps
  <2> QED
    BY <1>1, <1>4, <2>1, TypePartsNext DEF PromptEmpty, sessions, asking, history, SessionTypes,
       AskingTypes, HistoryTypes
<1>5. CASE StartQuery(r)
  <2>1. r \in InTurn
    BY <1>5 DEF StartQuery, InTurn, IsPrompt
  <2>2. Append(messages[held[r]], r) \in Seq(Requests)
    BY <2>1, AppendProperties DEF TurnsHold, SessionTypes
  <2>3. LocalTypes'
    BY <1>5, <2>2, GotoTypes DEF StartQuery, LocalTypes, Steps
  <2> QED
    BY <1>1, <1>5, <2>3, TypePartsNext DEF StartQuery, sessions, turns, asking, history,
       SessionTypes, TurnTypes, AskingTypes, HistoryTypes
<1>6. CASE RunCommand(r)
  <2>1. r \in InTurn
    BY <1>6 DEF RunCommand, InTurn, IsPrompt
  <2>2. messages[held[r]] \in Seq(Requests) /\ <<>> \in Seq(Requests)
    BY <2>1 DEF TurnsHold, SessionTypes
  <2>3. PICK text, dropped, next :
          /\ Leave(r, text, dropped, next)
          /\ text \in Seq(Requests) /\ next \in {"done", "running"}
    BY <1>6, <2>2, CommandLeaves
  <2>4. SessionTypes'
    BY <1>6, <2>3 DEF RunCommand, Leave, SessionTypes
  <2>5. LocalTypes'
    BY <1>6, <2>3, GotoTypes DEF RunCommand, Leave, LocalTypes, Steps
  <2>6. HistoryTypes'
    <3>1. promised' = [promised EXCEPT ![home[held[r]]] = @ \ dropped]
      BY <2>3 DEF Leave
    <3>2. UNCHANGED <<unfiled, disturbed, struck>>
      BY <1>6 DEF RunCommand
    <3> QED
      BY <3>1, <3>2 DEF HistoryTypes
  <2> QED
    BY <1>1, <1>6, <2>4, <2>5, <2>6, TypePartsNext DEF RunCommand, turns, asking, TurnTypes,
       AskingTypes
<1>7. CASE TurnAsks(r)
  <2>1. <<r, "turn">> \in Askers
    BY DEF Askers
  <2>2. queue' \in [Objects -> Seq(Askers)]
    BY <1>7, <2>1, AppendProperties DEF TurnAsks, AskingTypes
  <2>3. AskingTypes'
    BY <1>7, <2>2, AcpAssumption DEF TurnAsks, AskingTypes
  <2>4. LocalTypes'
    BY <1>7, GotoTypes DEF TurnAsks, LocalTypes, Steps
  <2> QED
    BY <1>1, <1>7, <2>3, <2>4, TypePartsNext DEF TurnAsks, sessions, turns, history,
       SessionTypes, TurnTypes, HistoryTypes
<1>8. CASE AgentAsks(r)
  <2>1. <<r, "agent">> \in Askers
    BY DEF Askers
  <2>2. queue' \in [Objects -> Seq(Askers)]
    BY <1>8, <2>1, AppendProperties DEF AgentAsks, AskingTypes
  <2>3. AskingTypes'
    BY <1>8, <2>2, AcpAssumption DEF AgentAsks, AskingTypes
  <2> QED
    BY <1>1, <1>8, <2>3, TypePartsNext DEF AgentAsks, sessions, turns, locals, history,
       SessionTypes, TurnTypes, LocalTypes, HistoryTypes
<1>9. CASE Drain(r) \/ DrainUnheard(r)
  <2>1. r \in InTurn
    BY <1>9 DEF Drain, DrainUnheard, InTurn, HandlersHold
  <2>2. queue[held[r]] \in Seq(Askers)
    BY <2>1 DEF TurnsHold, AskingTypes
  <2>3. ToSet(queue[held[r]]) \subseteq Askers
    BY <2>2, ElementsOf
  <2>4. <<>> \in Seq(Askers)
    OBVIOUS
  <2>5. AskingTypes'
    BY <1>9, <2>3, <2>4 DEF Drain, DrainUnheard, AskingTypes
  <2>6. LocalTypes'
    BY <1>9, GotoTypes DEF Drain, DrainUnheard, locals, LocalTypes, Steps
  <2> QED
    BY <1>1, <1>9, <2>5, <2>6, TypePartsNext DEF Drain, DrainUnheard, sessions, turns, history,
       SessionTypes, TurnTypes, HistoryTypes
<1>10. CASE QueryReturns(r)
  <2>1. SessionTypes' /\ LocalTypes'
    BY <1>10, GotoTypes DEF QueryReturns, SessionTypes, LocalTypes, Steps
  <2> QED
    BY <1>1, <1>10, <2>1, TypePartsNext DEF QueryReturns, turns, asking, history,
       TurnTypes, AskingTypes, HistoryTypes
<1> QED
  BY <1>2, <1>3, <1>4, <1>5, <1>6, <1>7, <1>8, <1>9, <1>10

(* The ways a save can end: those that fail look like the one that does not. *)
SaveEnds(r) == SaveCannotOpen(r) \/ SaveWrite(r) \/ SaveCannotWrite(r)

LEMMA SaveEndsSo ==
  ASSUME TypeOK, NEW r \in Requests, SaveEnds(r)
  PROVE  /\ pc[r] \in {"open", "write"} /\ AfterSave(r) /\ Goto(r, after[r])
         /\ after[r] \in {"done", "running", "remove", "opened"}
         /\ IF after[r] = "done" THEN Answered(r) ELSE inFlight' = inFlight
         /\ copy' = [copy EXCEPT ![r] = IF after[r] = "running" THEN Append(@, r) ELSE @]
         /\ disk' \in [Ids -> Files]
         /\ \A j \in Ids : j # home[held[r]] =>
              disk'[j] = disk[j] /\ unfiled'[j] = unfiled[j]
<1>1. pc[r] \in {"open", "write"} /\ AfterSave(r)
  BY DEF SaveEnds, SaveCannotOpen, SaveWrite, SaveCannotWrite
<1>2. after[r] \in {"done", "running", "remove", "opened"} /\ copy \in [Requests -> Seq(Requests)]
  BY DEF TypeOK
<1>3. /\ Goto(r, after[r])
      /\ IF after[r] = "done" THEN Answered(r) ELSE inFlight' = inFlight
      /\ copy' = [copy EXCEPT ![r] = IF after[r] = "running" THEN Append(@, r) ELSE @]
  <2>1. CASE after[r] = "done"
    BY <1>1, <1>2, <2>1 DEF AfterSave, Answered
  <2>2. CASE after[r] = "running"
    BY <1>1, <1>2, <2>2 DEF AfterSave
  <2>3. CASE after[r] \in {"remove", "opened"}
    BY <1>1, <1>2, <2>3 DEF AfterSave
  <2> QED
    BY <1>2, <2>1, <2>2, <2>3
<1>4. disk \in [Ids -> Files] /\ unfiled \in [Ids -> SUBSET Requests]
  BY DEF TypeOK
<1>5. \A j \in Ids : j # home[held[r]] => unfiled'[j] = unfiled[j]
  BY <1>4 DEF SaveEnds, SaveCannotOpen, SaveWrite, SaveCannotWrite
<1>6. disk' \in [Ids -> Files] /\ \A j \in Ids : j # home[held[r]] => disk'[j] = disk[j]
  <2>1. CASE disk' = disk
    BY <1>4, <2>1
  <2>2. ASSUME NEW file, disk' = [disk EXCEPT ![home[held[r]]] = file],
               home[held[r]] \in Ids => file \in Files
        PROVE  disk' \in [Ids -> Files] /\ \A j \in Ids : j # home[held[r]] => disk'[j] = disk[j]
    BY <1>4, <2>2
  <2>3. CASE SaveWrite(r)
    <3>1. PICK file \in Outcomes(disk[home[held[r]]], copy[r]) :
            disk' = [disk EXCEPT ![home[held[r]]] = file]
      BY <2>3 DEF SaveWrite
    <3> QED
      BY <1>2, <2>2, <3>1, OutcomesAreFiles
  <2>4. CASE SaveCannotWrite(r)
    <3>1. PICK file \in {disk[home[held[r]]], Garbled} :
            disk' = [disk EXCEPT ![home[held[r]]] = file]
      BY <2>4 DEF SaveCannotWrite
    <3>2. Garbled \in Files
      <4>1. <<>> \in Seq(Requests)
        OBVIOUS
      <4> QED
        BY <4>1 DEF Garbled, Files
    <3>3. home[held[r]] \in Ids => file \in Files
      BY <1>4, <3>1, <3>2
    <3> QED
      BY <2>2, <3>1, <3>3
  <2> QED
    BY <2>1, <2>3, <2>4 DEF SaveEnds, SaveCannotOpen
<1> QED
  BY <1>1, <1>2, <1>3, <1>5, <1>6

LEMMA SaveStepTypes ==
  ASSUME IInv, NEW r \in Requests, SaveOpen(r) \/ SaveEnds(r)
  PROVE  TypeOK'
<1> USE TypeParts DEF IInv
<1>1. CASE SaveOpen(r)
  <2>1. Empty \in Files
    <3>1. <<>> \in Seq(Requests)
      OBVIOUS
    <3> QED
      BY <3>1 DEF Empty, Files
  <2>2. FileTypes' /\ LocalTypes'
    BY <1>1, <2>1, GotoTypes DEF SaveOpen, FileTypes, LocalTypes, Steps
  <2> QED
    BY <1>1, <2>2, TypePartsNext DEF SaveOpen, sessions, turns, handlers, asking, process,
       history, SessionTypes, TurnTypes, HandlerTypes, AskingTypes, ProcessTypes, HistoryTypes
<1>2. CASE SaveEnds(r)
  <2>1. /\ AfterSave(r) /\ Goto(r, after[r])
        /\ after[r] \in {"done", "running", "remove", "opened"}
        /\ IF after[r] = "done" THEN Answered(r) ELSE inFlight' = inFlight
        /\ copy' = [copy EXCEPT ![r] = IF after[r] = "running" THEN Append(@, r) ELSE @]
        /\ disk' \in [Ids -> Files]
    BY <1>2, SaveEndsSo
  <2>2. UNCHANGED <<sessions, token, cancelled, handlers, held, after, asking, eof, crashes,
                    named, disturbed, struck>>
    BY <2>1 DEF AfterSave
  <2>3. SessionTypes' /\ HandlerTypes' /\ AskingTypes' /\ FileTypes'
    BY <2>1, <2>2 DEF sessions, handlers, asking, SessionTypes, HandlerTypes, AskingTypes,
       FileTypes
  <2>4. copy[r] \in Seq(Requests) /\ Append(copy[r], r) \in Seq(Requests)
    BY AppendProperties DEF LocalTypes
  <2>5. LocalTypes' /\ TurnTypes'
    BY <2>1, <2>2, <2>4, GotoTypes DEF Answered, LocalTypes, TurnTypes, Steps
  <2>6. failures' \in 0..MaxFailures
    <3>1. CASE failures' = failures
      BY <3>1 DEF ProcessTypes
    <3>2. CASE failures < MaxFailures /\ failures' = failures + 1
      BY <3>2, AcpAssumption DEF ProcessTypes
    <3> QED
      BY <1>2, <3>1, <3>2 DEF SaveEnds, SaveCannotOpen, SaveWrite, SaveCannotWrite
  <2>7. ProcessTypes'
    BY <2>2, <2>6 DEF ProcessTypes
  <2>8. AtStake(r) \subseteq Requests
    BY <2>4, ElementsOf DEF AtStake
  <2>9. promised' \in [Ids -> SUBSET Requests]
    BY <2>1, <2>8 DEF AfterSave, HistoryTypes
  <2>10. unfiled' \in [Ids -> SUBSET Requests]
    <3>1. \E lost : /\ home[held[r]] \in Ids => lost \subseteq Requests
                    /\ unfiled' = [unfiled EXCEPT ![home[held[r]]] = lost]
      <4>1. CASE SaveCannotOpen(r)
        <5> WITNESS unfiled[home[held[r]]] \cup AtStake(r)
        <5> QED
          BY <2>8, <4>1 DEF SaveCannotOpen, HistoryTypes
      <4>2. CASE SaveWrite(r)
        <5> WITNESS unfiled[home[held[r]]] \ ToSet(copy[r])
        <5> QED
          BY <4>2 DEF SaveWrite, HistoryTypes
      <4>3. CASE SaveCannotWrite(r)
        <5> WITNESS promised[home[held[r]]] \cup AtStake(r)
        <5> QED
          BY <2>8, <4>3 DEF SaveCannotWrite, HistoryTypes
      <4> QED
        BY <1>2, <4>1, <4>2, <4>3 DEF SaveEnds
    <3> QED
      BY <3>1 DEF HistoryTypes
  <2>11. HistoryTypes'
    BY <2>2, <2>9, <2>10 DEF HistoryTypes
  <2> QED
    BY <2>3, <2>5, <2>7, <2>11, TypePartsNext
<1> QED
  BY <1>1, <1>2

LEMMA CloseStepTypes ==
  ASSUME IInv, NEW r \in Requests,
         CancelRuns(r) \/ CloseRefused(r) \/ CloseCancels(r) \/ CloseSnapshot(r) \/ CloseRemoves(r)
  PROVE  TypeOK'
<1> USE TypeParts DEF IInv
<1>1. HandlerTypes' /\ ProcessTypes' /\ AskingTypes' /\ FileTypes'
  BY DEF CancelRuns, CloseRefused, CloseCancels, CloseSnapshot, CloseRemoves, handlers, process,
     asking, HandlerTypes, ProcessTypes, AskingTypes, FileTypes
<1>2. SessionTypes'
  BY DEF CancelRuns, CloseRefused, CloseCancels, CloseSnapshot, CloseRemoves, sessions,
     SessionTypes
<1>3. pc[r] = "start" => target[r] \in Ids
  BY DEF HandlersHold, ProcessTypes
<1>4. CASE CancelRuns(r)
  <2>1. TurnTypes' /\ struck' \subseteq Requests
    BY <1>3, <1>4, StrikeTypes DEF CancelRuns, TurnTypes, HistoryTypes, SessionTypes
  <2>2. LocalTypes'
    BY <1>4, GotoTypes DEF CancelRuns, LocalTypes, Steps
  <2> QED
    BY <1>1, <1>2, <1>4, <2>1, <2>2, TypePartsNext DEF CancelRuns, HistoryTypes
<1>5. CASE CloseRefused(r)
  BY <1>1, <1>2, <1>5, GotoTypes, TypePartsNext DEF CloseRefused, turns, history, TurnTypes,
     LocalTypes, HistoryTypes, Steps
<1>6. CASE CloseCancels(r)
  <2>1. registry[target[r]] \in Objects
    BY <1>3, <1>6 DEF CloseCancels, SessionTypes
  <2>2. TurnTypes' /\ struck' \subseteq Requests
    BY <1>6, <2>1, StrikeTypes DEF CloseCancels, TurnTypes
  <2>3. LocalTypes'
    BY <1>6, <2>1, GotoTypes DEF CloseCancels, LocalTypes, Steps
  <2> QED
    BY <1>1, <1>2, <1>3, <1>6, <2>2, <2>3, TypePartsNext DEF CloseCancels, HistoryTypes
<1>7. CASE CloseSnapshot(r)
  <2>1. messages[held[r]] \in Seq(Requests)
    BY <1>7 DEF CloseSnapshot, HandlersHold, Begun, SessionTypes
  <2>2. LocalTypes'
    BY <1>7, <2>1, GotoTypes DEF CloseSnapshot, LocalTypes, Steps
  <2> QED
    BY <1>1, <1>2, <1>7, <2>2, TypePartsNext DEF CloseSnapshot, turns, history, TurnTypes,
       HistoryTypes
<1>8. CASE CloseRemoves(r)
  BY <1>1, <1>2, <1>8, GotoTypes, TypePartsNext DEF CloseRemoves, turns, history, TurnTypes,
     LocalTypes, HistoryTypes, Steps
<1> QED
  BY <1>4, <1>5, <1>6, <1>7, <1>8

LEMMA ReopenStepTypes ==
  ASSUME IInv, NEW r \in Requests,
         ReopenLive(r) \/ ReopenMissed(r) \/ ReopenRead(r) \/ ReopenInsert(r) \/ ReopenAnswers(r)
           \/ \E i \in Ids : Fork(r, i)
  PROVE  TypeOK'
<1> USE TypeParts DEF IInv
<1>1. HandlerTypes' /\ AskingTypes' /\ TurnTypes' /\ FileTypes'
  BY DEF ReopenLive, ReopenMissed, ReopenRead, ReopenInsert, ReopenAnswers, Fork, handlers,
     asking, turns, HandlerTypes, AskingTypes, TurnTypes, FileTypes
<1>2. pc[r] # "idle" => target[r] \in Ids
  BY DEF HandlersHold, ProcessTypes
<1>3. CASE ReopenLive(r)
  <2>1. registry[target[r]] \in Objects
    BY <1>2, <1>3 DEF ReopenLive, SessionTypes
  <2>2. LocalTypes'
    BY <1>3, <2>1, GotoTypes DEF ReopenLive, LocalTypes, Steps
  <2> QED
    BY <1>1, <1>3, <2>2, TypePartsNext DEF ReopenLive, sessions, process, history, SessionTypes,
       ProcessTypes, HistoryTypes
<1>4. CASE ReopenMissed(r) \/ ReopenAnswers(r)
  <2>1. LocalTypes'
    BY <1>4, GotoTypes DEF ReopenMissed, ReopenAnswers, LocalTypes, Steps
  <2> QED
    BY <1>1, <1>4, <2>1, TypePartsNext DEF ReopenMissed, ReopenAnswers, sessions, process,
       history, SessionTypes, ProcessTypes, HistoryTypes
<1>5. CASE ReopenRead(r)
  <2>1. disk[target[r]] \in Files
    BY <1>2, <1>5 DEF ReopenRead, FileTypes
  <2>2. disk[target[r]].text \in Seq(Requests)
    BY <2>1 DEF Files
  <2>3. LocalTypes'
    BY <1>5, <2>2, GotoTypes DEF ReopenRead, LocalTypes, Steps
  <2> QED
    BY <1>1, <1>5, <2>3, TypePartsNext DEF ReopenRead, sessions, process, history, SessionTypes,
       ProcessTypes, HistoryTypes
<1>6. CASE ReopenInsert(r)
  <2>1. r \in Objects /\ target[r] \in Ids /\ copy[r] \in Seq(Requests)
    BY <1>2, <1>6 DEF ReopenInsert, Objects, LocalTypes
  <2>2. SessionTypes'
    BY <1>6, <2>1, RegisterTypes DEF ReopenInsert
  <2>3. LocalTypes'
    BY <1>6, <2>1, GotoTypes DEF ReopenInsert, LocalTypes, Steps
  <2> QED
    BY <1>1, <1>6, <2>1, <2>2, <2>3, TypePartsNext DEF ReopenInsert, process, ProcessTypes,
       HistoryTypes
<1>7. ASSUME NEW i \in Ids, Fork(r, i) PROVE TypeOK'
  <2>1. i \in Objects /\ held[r] \in Objects
    BY <1>7 DEF Fork, Objects, HandlersHold, Begun
  <2>2. messages[held[r]] \in Seq(Requests)
    BY <2>1 DEF SessionTypes
  <2>3. SessionTypes'
    BY <1>7, <2>1, <2>2, RegisterTypes DEF Fork
  <2>4. LocalTypes'
    BY <1>7, <2>1, <2>2, GotoTypes DEF Fork, LocalTypes, Steps
  <2>5. HistoryTypes'
    BY <1>7 DEF Fork, history, HistoryTypes
  <2> QED
    BY <1>1, <1>7, <2>3, <2>4, <2>5, TypePartsNext DEF Fork, Unnamed, ProcessTypes
<1> QED
  BY <1>3, <1>4, <1>5, <1>6, <1>7

LEMMA EditorStepTypes ==
  ASSUME IInv,
         \/ \E i \in Ids : NewSession(i)
         \/ \E k \in Kinds, i \in Ids : Receive(k, i)
         \/ \E q \in Askers : ClientAnswers(q)
         \/ Eof \/ Crash \/ UNCHANGED vars
  PROVE  TypeOK'
<1> USE TypeParts DEF IInv
<1>1. ASSUME NEW i \in Ids, NewSession(i) PROVE TypeOK'
  <2>1. SessionTypes'
    BY <1>1, RegisterTypes, EmptySeq DEF NewSession, Objects
  <2> QED
    BY <1>1, <2>1, TypePartsNext DEF NewSession, Unnamed, turns, handlers, locals, asking, history,
       TurnTypes, HandlerTypes, LocalTypes, AskingTypes, ProcessTypes, HistoryTypes, FileTypes
<1>2. ASSUME NEW k \in Kinds, NEW i \in Ids, Receive(k, i) PROVE TypeOK'
  <2>1. received + 1 \in Requests /\ received + 1 \in 0..MaxRequests
    BY <1>2, NamesDiffer, AcpAssumption DEF Receive, Requests, HandlerTypes
  <2>2. HandlerTypes'
    BY <1>2, <2>1 DEF Receive, HandlerTypes
  <2>3. LocalTypes'
    BY <1>2, <2>1 DEF Receive, LocalTypes, Steps
  <2> QED
    BY <1>2, <2>2, <2>3, TypePartsNext DEF Receive, sessions, turns, asking, process, history,
       SessionTypes, TurnTypes, AskingTypes, ProcessTypes, HistoryTypes, FileTypes
<1>3. ASSUME NEW q \in Askers, ClientAnswers(q) PROVE TypeOK'
  <2>1. q[1] \in Requests
    BY DEF Askers
  <2>2. LocalTypes'
    BY <1>3, <2>1, GotoTypes DEF ClientAnswers, LocalTypes, Steps
  <2>3. AskingTypes'
    BY <1>3 DEF ClientAnswers, AskingTypes
  <2> QED
    BY <1>3, <2>2, <2>3, TypePartsNext DEF ClientAnswers, sessions, turns, handlers, process,
       history, SessionTypes, TurnTypes, HandlerTypes, ProcessTypes, HistoryTypes, FileTypes
<1>4. CASE Eof
  BY <1>4, TypePartsNext DEF Eof, sessions, turns, handlers, locals, asking, history,
     SessionTypes, TurnTypes, HandlerTypes, LocalTypes, AskingTypes, ProcessTypes, HistoryTypes,
     FileTypes
<1>5. CASE Crash
  <2>1. <<>> \in Seq(Requests) /\ <<>> \in Seq(Askers)
    OBVIOUS
  <2>2. SessionTypes' /\ TurnTypes' /\ FileTypes' /\ HandlerTypes'
    BY <1>5, <2>1 DEF Crash, handlers, SessionTypes, TurnTypes, FileTypes, HandlerTypes
  <2>3. LocalTypes'
    BY <1>5 DEF Crash, LocalTypes, Steps
  <2>4. AskingTypes' /\ HistoryTypes'
    <3>1. promised' \in [Ids -> SUBSET Requests] /\ unfiled' \in [Ids -> SUBSET Requests]
      BY <1>5 DEF Crash, HistoryTypes
    <3> QED
      BY <1>5, <2>1, <3>1 DEF Crash, AskingTypes, HistoryTypes
  <2>5. ProcessTypes'
    <3>1. crashes + 1 \in 0..MaxCrashes
      BY <1>5, AcpAssumption DEF Crash, ProcessTypes
    <3> QED
      BY <1>5, <3>1 DEF Crash, ProcessTypes
  <2> QED
    BY <2>2, <2>3, <2>4, <2>5, TypePartsNext
<1>6. CASE UNCHANGED vars
  BY <1>6 DEF TypeOK, vars, sessions, turns, handlers, locals, asking, process, history
<1> QED
  BY <1>1, <1>2, <1>3, <1>4, <1>5, <1>6
-----------------------------------------------------------------------------
(* HandlersHold.                                                           *)

(* One handler moves on.                                                   *)
LEMMA MoveKeepsHandlers ==
  ASSUME TypeOK, HandlersHold, NEW r \in Requests, NEW step \in Steps \ {"idle"}, Goto(r, step),
         pc[r] # "idle", named \subseteq named', UNCHANGED handlers,
         \A s \in Requests \ {r} : held'[s] = held[s] /\ after'[s] = after[s],
         step \in Begun => held'[r] \in Objects,
         step \in {"claimed", "running", "blocked"} => IsPrompt(r),
         step = "cancelled" => ~IsPrompt(r),
         step \in {"open", "write"} => (IsPrompt(r) <=> after'[r] \in {"done", "running"})
  PROVE  HandlersHold'
<1>1. pc' = [pc EXCEPT ![r] = step] /\ pc \in [Requests -> Steps]
  BY DEF Goto, TypeOK
<1>2. kind' = kind /\ target' = target /\ received' = received
  BY DEF handlers
<1>3. \A s \in Requests : IsPrompt(s)' <=> IsPrompt(s)
  BY <1>2 DEF IsPrompt
<1>4. ASSUME NEW s \in Requests
      PROVE  /\ pc'[s] = "idle" <=> s > received'
             /\ pc'[s] # "idle" => target'[s] \in named'
             /\ pc'[s] \in Begun => held'[s] \in Objects
             /\ pc'[s] \in {"claimed", "running", "blocked"} => IsPrompt(s)'
             /\ pc'[s] = "cancelled" => ~IsPrompt(s)'
             /\ pc'[s] \in {"open", "write"} =>
                  (IsPrompt(s)' <=> after'[s] \in {"done", "running"})
  <2>1. CASE s = r
    BY <1>1, <1>2, <1>3, <2>1 DEF HandlersHold
  <2>2. CASE s # r
    BY <1>1, <1>2, <1>3, <2>2 DEF HandlersHold
  <2> QED
    BY <2>1, <2>2
<1> QED
  BY <1>4 DEF HandlersHold, Begun

(* The handler that runs has been received, and is not idle.               *)
LEMMA HandlersHoldKept == IInv /\ [Next]_vars => HandlersHold'
<1> SUFFICES ASSUME IInv, [Next]_vars PROVE HandlersHold'
  OBVIOUS
<1> USE DEF IInv
<1>1. ASSUME NEW r \in Requests, Handler(r) PROVE HandlersHold'
  <2> USE <1>1, MoveKeepsHandlers DEF Steps, Begun, sessions, process, history, locals
  <2>1. CASE PromptRefused(r)
    BY <2>1 DEF PromptRefused
  <2>2. CASE BeginTurn(r)
    BY <2>2 DEF BeginTurn, TypeOK
  <2>3. CASE PromptEmpty(r)
    BY <2>3 DEF PromptEmpty, Answered
  <2>4. CASE StartQuery(r)
    BY <2>4 DEF StartQuery, IsPrompt
  <2>5. CASE RunCommand(r)
    <3>1. r \in InTurn /\ IsPrompt(r)
      BY <2>5 DEF RunCommand, InTurn, IsPrompt
    <3>2. after'[r] \in {"done", "running"} /\ \A s \in Requests \ {r} : after'[s] = after[s]
      BY <2>5 DEF RunCommand, Leave, TypeOK
    <3> QED
      BY <2>5, <3>1, <3>2 DEF RunCommand, TurnsHold
  <2>6. CASE TurnAsks(r)
    BY <2>6 DEF TurnAsks, HandlersHold
  <2>7. CASE Drain(r)
    BY <2>7 DEF Drain, HandlersHold, handlers, IsPrompt
  <2>8. CASE DrainUnheard(r)
    <3>1. IsPrompt(r) /\ pc[r] # "idle"
      BY <2>8 DEF DrainUnheard, HandlersHold
    <3>2. Goto(r, "running") \/ Goto(r, pc[r])
      BY <2>8 DEF DrainUnheard, Goto, TypeOK
    <3>3. pc[r] \in {"running", "blocked"}
      BY <2>8 DEF DrainUnheard
    <3> QED
      BY <2>8, <3>1, <3>2, <3>3 DEF DrainUnheard
  <2>9. CASE QueryReturns(r)
    <3>1. r \in InTurn /\ IsPrompt(r)
      BY <2>9 DEF QueryReturns, InTurn, HandlersHold
    <3>2. after'[r] = "done" /\ \A s \in Requests \ {r} : after'[s] = after[s]
      BY <2>9 DEF QueryReturns, TypeOK
    <3> QED
      BY <2>9, <3>1, <3>2 DEF QueryReturns, TurnsHold
  <2>10. CASE SaveOpen(r)
    BY <2>10 DEF SaveOpen, HandlersHold
  <2>11. CASE SaveEnds(r)
    <3>1. pc[r] \in {"open", "write"} /\ AfterSave(r) /\ Goto(r, after[r])
          /\ after[r] \in {"done", "running", "remove", "opened"}
      BY <2>11, SaveEndsSo
    <3>2. held[r] \in Objects /\ (IsPrompt(r) <=> after[r] \in {"done", "running"})
      BY <3>1 DEF HandlersHold
    <3> QED
      BY <3>1, <3>2 DEF AfterSave
  <2>12. CASE CancelRuns(r)
    BY <2>12 DEF CancelRuns
  <2>13. CASE CloseRefused(r)
    BY <2>13 DEF CloseRefused
  <2>14. CASE CloseCancels(r)
    <3>1. target[r] \in Ids
      BY <2>14 DEF CloseCancels, HandlersHold, TypeOK
    <3>2. held'[r] \in Objects /\ ~IsPrompt(r)
      BY <2>14, <3>1 DEF CloseCancels, TypeOK, IsPrompt
    <3> QED
      BY <2>14, <3>2 DEF CloseCancels, TypeOK
  <2>15. CASE CloseSnapshot(r)
    <3>1. held[r] \in Objects
      BY <2>15 DEF CloseSnapshot, HandlersHold
    <3>2. ~IsPrompt(r)
      BY <2>15 DEF CloseSnapshot, HandlersHold
    <3> QED
      BY <2>15, <3>1, <3>2 DEF CloseSnapshot, TypeOK
  <2>16. CASE CloseRemoves(r)
    BY <2>16 DEF CloseRemoves
  <2>17. CASE ReopenLive(r)
    <3>1. target[r] \in Ids
      BY <2>17 DEF ReopenLive, HandlersHold, TypeOK
    <3>2. held'[r] \in Objects
      BY <2>17, <3>1 DEF ReopenLive, TypeOK
    <3> QED
      BY <2>17, <3>2 DEF ReopenLive, TypeOK
  <2>18. CASE ReopenMissed(r) \/ ReopenAnswers(r)
    BY <2>18 DEF ReopenMissed, ReopenAnswers
  <2>19. CASE ReopenRead(r)
    BY <2>19 DEF ReopenRead
  <2>20. CASE ReopenInsert(r)
    BY <2>20 DEF ReopenInsert, TypeOK, Objects
  <2>21. ASSUME NEW i \in Ids, Fork(r, i) PROVE HandlersHold'
    <3>1. ~IsPrompt(r)
      BY <2>21 DEF Fork, IsPrompt
    <3>2. after'[r] = "opened" /\ held'[r] \in Objects
      BY <2>21 DEF Fork, TypeOK, Objects
    <3> QED
      BY <2>21, <3>1, <3>2 DEF Fork, Unnamed, TypeOK
  <2> QED
    BY <1>1, <2>1, <2>2, <2>3, <2>4, <2>5, <2>6, <2>7, <2>8, <2>9, <2>10, <2>11, <2>12, <2>13,
       <2>14, <2>15, <2>16, <2>17, <2>18, <2>19, <2>20, <2>21 DEF Handler, SaveEnds
<1>2. ASSUME NEW r \in Requests, AgentAsks(r) PROVE HandlersHold'
  BY <1>2 DEF AgentAsks, HandlersHold, handlers, locals, process, IsPrompt, Begun
<1>3. ASSUME NEW i \in Ids, NewSession(i) PROVE HandlersHold'
  BY <1>3 DEF NewSession, Unnamed, HandlersHold, handlers, locals, IsPrompt, Begun
<1>4. ASSUME NEW k \in Kinds, NEW i \in Ids, Receive(k, i) PROVE HandlersHold'
  <2>1. i \in named
    BY <1>4, NamesDiffer DEF Receive, Known, ObjectsHaveIds, TypeOK
  <2>2. received \in Nat /\ received + 1 \in Requests
    BY <1>4, NamesDiffer, AcpAssumption DEF Receive, TypeOK
  <2>3. ASSUME NEW s \in Requests
        PROVE  /\ pc'[s] = "idle" <=> s > received'
               /\ pc'[s] # "idle" => target'[s] \in named'
               /\ pc'[s] \in Begun => held'[s] \in Objects
               /\ pc'[s] \in {"claimed", "running", "blocked"} => IsPrompt(s)'
               /\ pc'[s] = "cancelled" => ~IsPrompt(s)'
               /\ pc'[s] \in {"open", "write"} =>
                    (IsPrompt(s)' <=> after'[s] \in {"done", "running"})
    <3>1. CASE s = received + 1
      BY <1>4, <2>1, <2>2, <3>1 DEF Receive, process, TypeOK, Begun
    <3>2. CASE s # received + 1
      <4>1. /\ pc'[s] = pc[s] /\ target'[s] = target[s] /\ kind'[s] = kind[s]
            /\ held' = held /\ after' = after /\ named' = named /\ received' = received + 1
        BY <1>4, <3>2 DEF Receive, process, TypeOK
      <4>2. s > received' <=> s > received
        BY <2>2, <3>2, <4>1, AcpAssumption DEF Requests
      <4> QED
        BY <4>1, <4>2 DEF HandlersHold, IsPrompt
    <3> QED
      BY <3>1, <3>2
  <2> QED
    BY <2>3 DEF HandlersHold, Begun
<1>5. ASSUME NEW q \in Askers, ClientAnswers(q) PROVE HandlersHold'
  <2>1. q[1] \in Requests /\ q = <<q[1], q[2]>>
    BY DEF Askers
  <2>2. CASE q[2] = "turn"
    <3>1. pc[q[1]] = "blocked"
      BY <1>5, <2>1, <2>2 DEF ClientAnswers, TurnsAsk
    <3>2. IsPrompt(q[1])
      BY <2>1, <3>1 DEF HandlersHold
    <3> QED
      BY <1>5, <2>1, <2>2, <3>1, <3>2, MoveKeepsHandlers
         DEF ClientAnswers, Steps, Begun, process
  <2>3. CASE q[2] # "turn"
    BY <1>5, <2>3 DEF ClientAnswers, HandlersHold, handlers, process, IsPrompt, Begun
  <2> QED
    BY <2>2, <2>3
<1>6. CASE Eof
  BY <1>6 DEF Eof, HandlersHold, handlers, locals, IsPrompt, Begun
<1>7. CASE Crash
  BY <1>7 DEF Crash, HandlersHold, handlers, IsPrompt, Begun, TypeOK
<1>8. CASE UNCHANGED vars
  BY <1>8 DEF vars, HandlersHold, handlers, locals, process, IsPrompt, Begun
<1> QED
  BY <1>1, <1>2, <1>3, <1>4, <1>5, <1>6, <1>7, <1>8 DEF Next

-----------------------------------------------------------------------------
(* TurnsHold and CancelsReachRunningTurns.                                 *)

TurnSteps == {"claimed", "running", "blocked", "open", "write"}

LEMMA MoveInTurn ==
  ASSUME TypeOK, NEW r \in Requests, NEW step \in Steps, Goto(r, step), UNCHANGED handlers
  PROVE  /\ \A s \in Requests \ {r} : s \in InTurn' <=> s \in InTurn
         /\ r \in InTurn' <=> IsPrompt(r) /\ step \in TurnSteps
         /\ pc'[r] = step /\ \A s \in Requests \ {r} : pc'[s] = pc[s]
<1>1. pc' = [pc EXCEPT ![r] = step] /\ pc \in [Requests -> Steps]
  BY DEF Goto, TypeOK
<1>2. kind' = kind
  BY DEF handlers
<1> QED
  BY <1>1, <1>2 DEF InTurn, IsPrompt, TurnSteps

(* A handler moves on, without taking up or handing back a turn.            *)
LEMMA MoveKeepsTurns ==
  ASSUME TypeOK, TurnsHold, CancelsReachRunningTurns, NEW r \in Requests,
         NEW step \in Steps \ {"idle", "start"}, Goto(r, step),
         UNCHANGED <<handlers, turns, struck>>,
         \A s \in Requests \ {r} : held'[s] = held[s],
         IsPrompt(r) /\ step \in TurnSteps => r \in InTurn,
         r \in InTurn => held'[r] = held[r]
  PROVE  TurnsHold' /\ CancelsReachRunningTurns'
<1>1. /\ InTurn' \subseteq InTurn
      /\ \A s \in InTurn : s \in Requests /\ held'[s] = held[s]
      /\ \A s \in Requests : pc[s] \notin {"idle", "start"} => pc'[s] \notin {"idle", "start"}
  BY MoveInTurn DEF InTurn
<1>2. inFlight' = inFlight /\ token' = token /\ cancelled' = cancelled /\ struck' = struck
  BY DEF turns
<1>3. cancelled \subseteq Requests /\ struck \subseteq Requests
      /\ token \in [Objects -> Requests \cup {None}]
  BY DEF TypeOK
<1>4. TurnsHold'
  BY <1>1, <1>2, <1>3 DEF TurnsHold
<1>5. CancelsReachRunningTurns'
  BY <1>1, <1>2 DEF CancelsReachRunningTurns
<1> QED
  BY <1>4, <1>5

(* A turn is handed back: the objects of the others keep their flags.       *)
LEMMA AnswerKeepsTurns ==
  ASSUME TypeOK, TurnsHold, CancelsReachRunningTurns, NEW r \in Requests, r \in InTurn,
         Answered(r), UNCHANGED <<handlers, token, cancelled, struck, held>>
  PROVE  TurnsHold' /\ CancelsReachRunningTurns'
<1>1. Goto(r, "done") /\ "done" \in Steps
  BY DEF Answered, Steps
<1>2. /\ InTurn' \subseteq InTurn \ {r}
      /\ \A s \in Requests : pc[s] \notin {"idle", "start"} => pc'[s] \notin {"idle", "start"}
  BY <1>1, MoveInTurn DEF InTurn, TurnSteps
<1>3. inFlight' = [inFlight EXCEPT ![held[r]] = FALSE] /\ inFlight \in [Objects -> BOOLEAN]
  BY DEF Answered, TypeOK
<1>4. ASSUME NEW s \in InTurn' PROVE inFlight'[held[s]] = inFlight[held[s]]
  <2>1. s \in InTurn /\ s # r
    BY <1>2
  <2>2. held[s] \in Objects /\ held[s] # held[r]
    BY <2>1 DEF TurnsHold
  <2> QED
    BY <1>3, <2>2
<1>5. cancelled \subseteq Requests /\ struck \subseteq Requests
      /\ token \in [Objects -> Requests \cup {None}]
  BY DEF TypeOK
<1>6. TurnsHold'
  BY <1>2, <1>4, <1>5 DEF TurnsHold
<1>7. CancelsReachRunningTurns'
  BY <1>2 DEF CancelsReachRunningTurns
<1> QED
  BY <1>6, <1>7

(* A cancel strikes the turn of the object, if it has one: its token is that *)
(* turn's, and no other turn has it.                                       *)
LEMMA StrikeKeepsTurns ==
  ASSUME TypeOK, TurnsHold, CancelsReachRunningTurns, NEW r \in Requests, NEW o \in Objects,
         NEW step \in {"done", "cancelled"}, Goto(r, step), Strike(o), r \notin InTurn,
         UNCHANGED <<handlers, inFlight, token>>, \A s \in Requests \ {r} : held'[s] = held[s]
  PROVE  TurnsHold' /\ CancelsReachRunningTurns'
<1>1. /\ InTurn' = InTurn /\ InTurn \subseteq Requests
      /\ \A s \in InTurn : held'[s] = held[s]
      /\ \A s \in Requests : pc[s] \notin {"idle", "start"} => pc'[s] \notin {"idle", "start"}
  BY MoveInTurn DEF InTurn, TurnSteps, Steps
<1>2. /\ cancelled' = cancelled \cup ({token[o]} \cap Requests)
      /\ struck' = struck \cup {s \in InTurn : held[s] = o}
  BY DEF Strike
<1>3. cancelled \subseteq Requests /\ struck \subseteq Requests
      /\ token \in [Objects -> Requests \cup {None}]
  BY DEF TypeOK
<1>4. \A s \in InTurn : s = token[o] <=> held[s] = o
  BY NamesDiffer, <1>1 DEF TurnsHold
<1>5. \A s \in cancelled' \cup struck' : pc[s] \notin {"idle", "start"} /\ s \in Requests
  BY <1>1, <1>2, <1>3, NamesDiffer DEF TurnsHold, InTurn
<1>6. TurnsHold'
  BY <1>1, <1>3, <1>5 DEF TurnsHold
<1>7. CancelsReachRunningTurns'
  BY <1>1, <1>2, <1>4 DEF CancelsReachRunningTurns
<1> QED
  BY <1>6, <1>7

LEMMA BeginKeepsTurns ==
  ASSUME IInv, NEW r \in Requests, BeginTurn(r)
  PROVE  TurnsHold' /\ CancelsReachRunningTurns'
<1> DEFINE o == registry[target[r]]
<1> USE DEF IInv
<1>1. target[r] \in Ids /\ o \in Objects /\ ~inFlight[o] /\ pc[r] = "start"
  <2>1. target[r] \in Ids
    BY DEF BeginTurn, HandlersHold, TypeOK
  <2> QED
    BY <2>1 DEF BeginTurn, Free, TypeOK
<1>2. /\ inFlight' = [inFlight EXCEPT ![o] = TRUE] /\ token' = [token EXCEPT ![o] = r]
      /\ held' = [held EXCEPT ![r] = o] /\ cancelled' = cancelled /\ struck' = struck
  BY DEF BeginTurn, history
<1>3. /\ InTurn' = InTurn \cup {r} /\ r \notin InTurn /\ InTurn \subseteq Requests
      /\ \A s \in Requests : pc[s] \notin {"idle", "start"} => pc'[s] \notin {"idle", "start"}
      /\ pc'[r] = "claimed"
  BY MoveInTurn DEF BeginTurn, InTurn, TurnSteps, Steps
<1>4. /\ inFlight \in [Objects -> BOOLEAN] /\ token \in [Objects -> Requests \cup {None}]
      /\ held \in [Requests -> Objects \cup {None}]
      /\ cancelled \subseteq Requests /\ struck \subseteq Requests
  BY DEF TypeOK
<1>5. \A s \in InTurn : held[s] # o
  BY <1>1 DEF TurnsHold
<1>6. \A p \in Objects : token[p] # r
  BY <1>1, NamesDiffer DEF TurnsHold
<1>7. \A s \in InTurn' : held'[s] \in Objects /\ inFlight'[held'[s]] /\ token'[held'[s]] = s
  BY <1>1, <1>2, <1>3, <1>4, <1>5 DEF TurnsHold
<1>8. ASSUME NEW p \in Objects, token'[p] # None
      PROVE  /\ pc'[token'[p]] \notin {"idle", "start"}
             /\ token'[p] \in InTurn' => held'[token'[p]] = p
  <2>1. CASE p = o
    BY <1>1, <1>2, <1>3, <1>4, <2>1
  <2>2. CASE p # o
    BY <1>2, <1>3, <1>4, <1>6, <1>8, <2>2 DEF TurnsHold
  <2> QED
    BY <2>1, <2>2
<1>9. \A s \in cancelled' \cup struck' : pc'[s] \notin {"idle", "start"} /\ s # r
  BY <1>1, <1>2, <1>3, <1>4 DEF TurnsHold
<1>10. TurnsHold'
  BY <1>7, <1>8, <1>9 DEF TurnsHold
<1>11. CancelsReachRunningTurns'
  BY <1>2, <1>3, <1>9 DEF CancelsReachRunningTurns
<1> QED
  BY <1>10, <1>11

LEMMA TurnsHoldKept == IInv /\ [Next]_vars => TurnsHold' /\ CancelsReachRunningTurns'
<1> SUFFICES ASSUME IInv, [Next]_vars PROVE TurnsHold' /\ CancelsReachRunningTurns'
  OBVIOUS
<1> USE DEF IInv
<1>1. ASSUME NEW r \in Requests, Handler(r) PROVE TurnsHold' /\ CancelsReachRunningTurns'
  <2>1. CASE PromptRefused(r)
    BY <2>1, MoveKeepsTurns DEF PromptRefused, history, Steps, TurnSteps
  <2>2. CASE BeginTurn(r)
    BY <2>2, BeginKeepsTurns
  <2>3. CASE PromptEmpty(r)
    BY <2>3, AnswerKeepsTurns DEF PromptEmpty, InTurn, IsPrompt, history
  <2>4. CASE StartQuery(r) \/ RunCommand(r) \/ QueryReturns(r) \/ TurnAsks(r)
    <3>1. r \in InTurn /\ held' = held
      BY <2>4 DEF StartQuery, RunCommand, QueryReturns, TurnAsks, InTurn, IsPrompt, HandlersHold
    <3> QED
      BY <2>4, <3>1, MoveKeepsTurns
         DEF StartQuery, RunCommand, QueryReturns, TurnAsks, history, Steps
  <2>5. CASE Drain(r)
    BY <2>5 DEF Drain, turns, handlers, locals, history, TurnsHold, CancelsReachRunningTurns,
       InTurn, IsPrompt
  <2>6. CASE DrainUnheard(r)
    <3>1. r \in InTurn /\ pc[r] \in TurnSteps
      BY <2>6 DEF DrainUnheard, HandlersHold, InTurn, TurnSteps
    <3>2. Goto(r, "running") \/ Goto(r, pc[r])
      BY <2>6 DEF DrainUnheard, Goto, TypeOK
    <3> QED
      BY <2>6, <3>1, <3>2, MoveKeepsTurns DEF DrainUnheard, history, Steps, TurnSteps
  <2>7. CASE SaveOpen(r)
    <3>1. IsPrompt(r) => r \in InTurn
      BY <2>7 DEF SaveOpen, InTurn
    <3> QED
      BY <2>7, <3>1, MoveKeepsTurns DEF SaveOpen, history, Steps
  <2>8. CASE SaveEnds(r)
    <3>1. /\ pc[r] \in {"open", "write"} /\ Goto(r, after[r])
          /\ IF after[r] = "done" THEN Answered(r) ELSE inFlight' = inFlight
          /\ UNCHANGED <<handlers, token, cancelled, struck, held>>
      BY <2>8, SaveEndsSo DEF AfterSave
    <3>2. IsPrompt(r) <=> r \in InTurn
      BY <3>1 DEF InTurn
    <3>3. CASE after[r] = "done"
      BY <3>1, <3>2, <3>3, AnswerKeepsTurns DEF HandlersHold
    <3>4. CASE after[r] # "done"
      <4>1. after[r] \in Steps \ {"idle", "start"}
        BY DEF TypeOK, Steps
      <4> QED
        BY <3>1, <3>2, <3>4, <4>1, MoveKeepsTurns DEF turns
    <3> QED
      BY <3>3, <3>4
  <2>9. CASE CancelRuns(r)
    <3>1. r \notin InTurn /\ ~IsPrompt(r) /\ target[r] \in Ids
      BY <2>9 DEF CancelRuns, InTurn, IsPrompt, HandlersHold, TypeOK
    <3>2. CASE registry[target[r]] # None
      <4>1. registry[target[r]] \in Objects
        BY <3>1, <3>2 DEF TypeOK
      <4> QED
        BY <2>9, <3>1, <4>1, StrikeKeepsTurns, NamesDiffer DEF CancelRuns
    <3>3. CASE registry[target[r]] = None
      BY <2>9, <3>1, <3>3, MoveKeepsTurns DEF CancelRuns, turns, Steps
    <3> QED
      BY <3>2, <3>3
  <2>10. CASE CloseCancels(r)
    <3>1. r \notin InTurn /\ target[r] \in Ids
      BY <2>10 DEF CloseCancels, InTurn, IsPrompt, HandlersHold, TypeOK
    <3>2. registry[target[r]] \in Objects
      BY <2>10, <3>1 DEF CloseCancels, TypeOK
    <3>3. held' = [held EXCEPT ![r] = registry[target[r]]]
      BY <2>10 DEF CloseCancels
    <3>4. \A s \in Requests \ {r} : held'[s] = held[s]
      BY <3>3 DEF TypeOK
    <3> QED
      BY <2>10, <3>1, <3>2, <3>4, StrikeKeepsTurns DEF CloseCancels
  <2>11. CASE CloseRefused(r) \/ CloseSnapshot(r) \/ CloseRemoves(r)
    <3>1. r \notin InTurn /\ held' = held
      BY <2>11 DEF CloseRefused, CloseSnapshot, CloseRemoves, InTurn
    <3>2. CloseSnapshot(r) => ~IsPrompt(r)
      BY <2>11 DEF CloseSnapshot, HandlersHold
    <3> QED
      BY <2>11, <3>1, <3>2, MoveKeepsTurns
         DEF CloseRefused, CloseSnapshot, CloseRemoves, history, Steps, TurnSteps
  <2>12. CASE ReopenLive(r) \/ ReopenMissed(r) \/ ReopenAnswers(r) \/ ReopenInsert(r)
    <3>1. r \notin InTurn
      BY <2>12 DEF ReopenLive, ReopenMissed, ReopenAnswers, ReopenInsert, InTurn
    <3>2. \A s \in Requests \ {r} : held'[s] = held[s]
      BY <2>12 DEF ReopenLive, ReopenMissed, ReopenAnswers, ReopenInsert, TypeOK
    <3> QED
      BY <2>12, <3>1, <3>2, MoveKeepsTurns
         DEF ReopenLive, ReopenMissed, ReopenAnswers, ReopenInsert, history, Steps, TurnSteps
  <2>13. CASE ReopenRead(r)
    <3>1. r \notin InTurn
      BY <2>13 DEF ReopenRead, InTurn
    <3> QED
      BY <2>13, <3>1, MoveKeepsTurns DEF ReopenRead, history, Steps, TurnSteps
  <2>14. ASSUME NEW i \in Ids, Fork(r, i) PROVE TurnsHold' /\ CancelsReachRunningTurns'
    <3>1. r \notin InTurn /\ ~IsPrompt(r)
      BY <2>14 DEF Fork, InTurn, IsPrompt
    <3>2. \A s \in Requests \ {r} : held'[s] = held[s]
      BY <2>14 DEF Fork, TypeOK
    <3> QED
      BY <2>14, <3>1, <3>2, MoveKeepsTurns DEF Fork, history, Steps, TurnSteps
  <2> QED
    BY <1>1, <2>1, <2>2, <2>3, <2>4, <2>5, <2>6, <2>7, <2>8, <2>9, <2>10, <2>11, <2>12, <2>13,
       <2>14 DEF Handler, SaveEnds
<1>2. CASE \/ \E r \in Requests : AgentAsks(r)
           \/ \E i \in Ids : NewSession(i)
           \/ Eof \/ UNCHANGED vars
  BY <1>2 DEF AgentAsks, NewSession, Eof, vars, turns, handlers, locals, history, TurnsHold,
     CancelsReachRunningTurns, InTurn, IsPrompt
<1>3. ASSUME NEW k \in Kinds, NEW i \in Ids, Receive(k, i)
      PROVE  TurnsHold' /\ CancelsReachRunningTurns'
  <2>1. received + 1 \in Requests /\ received \in Nat
    BY <1>3, NamesDiffer, AcpAssumption DEF Receive, TypeOK
  <2>2. pc[received + 1] = "idle"
    BY <2>1 DEF HandlersHold
  <2>3. /\ pc' = [pc EXCEPT ![received + 1] = "start"]
        /\ kind' = [kind EXCEPT ![received + 1] = k]
        /\ pc \in [Requests -> Steps] /\ kind \in [Requests -> Kinds]
    BY <1>3 DEF Receive, TypeOK
  <2>4. /\ InTurn' = InTurn
        /\ \A s \in Requests : pc[s] \notin {"idle", "start"} => pc'[s] \notin {"idle", "start"}
    BY <2>1, <2>2, <2>3 DEF InTurn, IsPrompt
  <2>5. cancelled \subseteq Requests /\ struck \subseteq Requests
        /\ token \in [Objects -> Requests \cup {None}] /\ InTurn \subseteq Requests
    BY DEF TypeOK, InTurn
  <2>6. UNCHANGED <<inFlight, token, cancelled, held, struck>>
    BY <1>3 DEF Receive, turns, history
  <2> QED
    BY <2>4, <2>5, <2>6 DEF TurnsHold, CancelsReachRunningTurns
<1>4. ASSUME NEW q \in Askers, ClientAnswers(q) PROVE TurnsHold' /\ CancelsReachRunningTurns'
  <2>1. q[1] \in Requests /\ q = <<q[1], q[2]>>
    BY DEF Askers
  <2>2. CASE q[2] = "turn"
    <3>1. pc[q[1]] = "blocked"
      BY <1>4, <2>1, <2>2 DEF ClientAnswers, TurnsAsk
    <3>2. q[1] \in InTurn
      BY <2>1, <3>1 DEF HandlersHold, InTurn
    <3> QED
      BY <1>4, <2>1, <2>2, <3>2, MoveKeepsTurns DEF ClientAnswers, Steps, history
  <2>3. CASE q[2] # "turn"
    BY <1>4, <2>3 DEF ClientAnswers, turns, handlers, history, TurnsHold,
       CancelsReachRunningTurns, InTurn, IsPrompt
  <2> QED
    BY <2>2, <2>3
<1>5. CASE Crash
  <2>1. InTurn' = {}
    BY <1>5 DEF Crash, InTurn
  <2>2. \A o \in Objects : token'[o] = None
    BY <1>5 DEF Crash
  <2>3. \A s \in cancelled \cup struck : pc'[s] \notin {"idle", "start"}
    BY <1>5 DEF Crash, TurnsHold, TypeOK
  <2>4. cancelled' = cancelled /\ struck' = struck
    BY <1>5 DEF Crash, history
  <2> QED
    BY <2>1, <2>2, <2>3, <2>4 DEF TurnsHold, CancelsReachRunningTurns
<1> QED
  BY <1>1, <1>2, <1>3, <1>4, <1>5 DEF Next

-----------------------------------------------------------------------------
(* TurnsAsk.                                                               *)

(* Whoever is blocked stays so, and asks nothing else.                      *)
LEMMA MoveKeepsAsking ==
  ASSUME TypeOK, TurnsAsk, UNCHANGED <<queue, forwarded>>,
         \A s \in Requests : pc[s] = "blocked" => pc'[s] = "blocked" /\ held'[s] = held[s]
  PROVE  TurnsAsk'
  BY Zenon DEF TurnsAsk, InStore

(* A question is put at the end of the store of an object.                  *)
LEMMA AskKeepsAsking ==
  ASSUME TypeOK, TurnsAsk, NEW o \in Objects, NEW q \in Askers,
         queue' = [queue EXCEPT ![o] = Append(@, q)], UNCHANGED forwarded,
         \A s \in Requests : pc[s] = "blocked" => pc'[s] = "blocked" /\ held'[s] = held[s],
         q[2] = "turn" => /\ pc[q[1]] = "running"
                          /\ pc'[q[1]] = "blocked" /\ held'[q[1]] = o
  PROVE  TurnsAsk'
<1>1. queue \in [Objects -> Seq(Askers)]
  BY DEF TypeOK
<1>2. ASSUME NEW p \in Objects, NEW a
      PROVE  InStore(a, p)' <=> (InStore(a, p) \/ (p = o /\ a = q))
  <2>1. CASE p = o
    <3>1. queue'[p] = Append(queue[p], q) /\ queue[p] \in Seq(Askers)
      BY <1>1, <2>1
    <3> QED
      BY <2>1, <3>1, StoredOneMore DEF InStore
  <2>2. CASE p # o
    BY <1>1, <2>2 DEF InStore
  <2> QED
    BY <2>1, <2>2
<1>3. ASSUME NEW s \in Requests, <<s, "turn">> \in forwarded'
      PROVE  pc'[s] = "blocked" /\ \A p \in Objects : ~InStore(<<s, "turn">>, p)'
  <2>1. pc[s] = "blocked" /\ \A p \in Objects : ~InStore(<<s, "turn">>, p)
    BY <1>3 DEF TurnsAsk
  <2>2. <<s, "turn">> # q
    BY <2>1
  <2> QED
    BY <1>2, <2>1, <2>2
<1>4. ASSUME NEW s \in Requests, NEW p \in Objects, InStore(<<s, "turn">>, p)'
      PROVE  pc'[s] = "blocked" /\ held'[s] = p
  <2>1. CASE InStore(<<s, "turn">>, p)
    BY <2>1 DEF TurnsAsk
  <2>2. CASE p = o /\ <<s, "turn">> = q
    BY <2>2
  <2> QED
    BY <1>2, <1>4, <2>1, <2>2
<1> QED
  BY <1>3, <1>4 DEF TurnsAsk

(* The store of an object is emptied.  A turn whose question was there is     *)
(* blocked still, unless it is told at once.                               *)
LEMMA DrainKeepsAsking ==
  ASSUME IInv, NEW r \in Requests, Drain(r) \/ DrainUnheard(r)
  PROVE  TurnsAsk'
<1> DEFINE o == held[r]
<1> USE DEF IInv
<1>1. o \in Objects /\ queue \in [Objects -> Seq(Askers)]
  <2>1. r \in InTurn
    BY DEF Drain, DrainUnheard, InTurn, HandlersHold
  <2> QED
    BY <2>1 DEF TurnsHold, TypeOK
<1>2. queue' = [queue EXCEPT ![o] = <<>>] /\ held' = held
  BY DEF Drain, DrainUnheard, locals
<1>3. ASSUME NEW p \in Objects, NEW a
      PROVE  InStore(a, p)' <=> (InStore(a, p) /\ p # o)
  <2>1. CASE p = o
    <3>1. queue'[p] = <<>> /\ Len(<<>>) = 0
      BY <1>1, <1>2, <2>1
    <3> QED
      BY <2>1, <3>1 DEF InStore
  <2>2. CASE p # o
    BY <1>1, <1>2, <2>2 DEF InStore
  <2> QED
    BY <2>1, <2>2
<1>4. \A a : a \in ToSet(queue[o]) <=> InStore(a, o)
  BY SMTT(20) DEF ToSet, InStore
<1>5. CASE Drain(r)
  <2>1. pc' = pc /\ forwarded' = forwarded \cup ToSet(queue[o])
    BY <1>5 DEF Drain, locals
  <2>2. ASSUME NEW s \in Requests, <<s, "turn">> \in forwarded'
        PROVE  pc'[s] = "blocked" /\ \A p \in Objects : ~InStore(<<s, "turn">>, p)'
    <3>1. CASE <<s, "turn">> \in forwarded
      BY <1>3, <2>1, <3>1 DEF TurnsAsk
    <3>2. CASE InStore(<<s, "turn">>, o)
      <4>1. pc[s] = "blocked" /\ held[s] = o
        BY <1>1, <3>2 DEF TurnsAsk
      <4>2. ASSUME NEW p \in Objects PROVE ~InStore(<<s, "turn">>, p)'
        BY <1>3, <4>1 DEF TurnsAsk
      <4> QED
        BY <2>1, <4>1, <4>2
    <3> QED
      BY <1>4, <2>1, <2>2, <3>1, <3>2
  <2>3. ASSUME NEW s \in Requests, NEW p \in Objects, InStore(<<s, "turn">>, p)'
        PROVE  pc'[s] = "blocked" /\ held'[s] = p
    <3>1. InStore(<<s, "turn">>, p)
      BY <1>3, <2>3
    <3> QED
      BY <1>2, <2>1, <3>1 DEF TurnsAsk
  <2> QED
    BY <2>2, <2>3 DEF TurnsAsk
<1>6. CASE DrainUnheard(r)
  <2>1. forwarded' = forwarded
    BY <1>6 DEF DrainUnheard
  <2>2. /\ \A s \in Requests \ {r} : pc'[s] = pc[s]
        /\ pc'[r] = pc[r] \/ InStore(<<r, "turn">>, o)
    BY <1>4, <1>6 DEF DrainUnheard, Goto, TypeOK
  <2>3. ASSUME NEW s \in Requests, <<s, "turn">> \in forwarded'
        PROVE  pc'[s] = "blocked" /\ \A p \in Objects : ~InStore(<<s, "turn">>, p)'
    <3>1. pc[s] = "blocked" /\ \A p \in Objects : ~InStore(<<s, "turn">>, p)
      BY <2>1, <2>3 DEF TurnsAsk
    <3>2. pc'[s] = pc[s]
      BY <1>1, <2>2, <3>1
    <3> QED
      BY <1>3, <3>1, <3>2
  <2>4. ASSUME NEW s \in Requests, NEW p \in Objects, InStore(<<s, "turn">>, p)'
        PROVE  pc'[s] = "blocked" /\ held'[s] = p
    <3>1. InStore(<<s, "turn">>, p) /\ p # o
      BY <1>3, <2>4
    <3>2. pc[s] = "blocked" /\ held[s] = p
      BY <3>1 DEF TurnsAsk
    <3> QED
      BY <1>2, <2>2, <3>1, <3>2
  <2> QED
    BY <2>3, <2>4 DEF TurnsAsk
<1> QED
  BY <1>5, <1>6

LEMMA TurnsAskKept == IInv /\ [Next]_vars => TurnsAsk'
<1> SUFFICES ASSUME IInv, [Next]_vars PROVE TurnsAsk'
  OBVIOUS
<1> USE DEF IInv
<1>1. ASSUME NEW r \in Requests, Handler(r) PROVE TurnsAsk'
  <2> DEFINE Kept == \A s \in Requests :
                       pc[s] = "blocked" => pc'[s] = "blocked" /\ held'[s] = held[s]
  <2>0. pc \in [Requests -> Steps] /\ held \in [Requests -> Objects \cup {None}]
    BY DEF TypeOK
  <2>1. CASE PromptRefused(r) \/ BeginTurn(r) \/ PromptEmpty(r) \/ StartQuery(r) \/ RunCommand(r)
               \/ QueryReturns(r)
    <3>1. UNCHANGED <<queue, forwarded>>
      BY <2>1
         DEF PromptRefused, BeginTurn, PromptEmpty, StartQuery, RunCommand, QueryReturns, asking
    <3>2. Kept
      BY <2>0, <2>1
         DEF PromptRefused, BeginTurn, PromptEmpty, StartQuery, RunCommand, QueryReturns, Answered,
             Goto
    <3> QED
      BY <3>1, <3>2, MoveKeepsAsking
  <2>2. CASE TurnAsks(r)
    <3>1. r \in InTurn
      BY <2>2 DEF TurnAsks, InTurn, HandlersHold
    <3>2. held[r] \in Objects /\ <<r, "turn">> \in Askers
      BY <3>1 DEF TurnsHold, Askers
    <3> QED
      BY <2>2, <3>2, AskKeepsAsking DEF TurnAsks, Goto, TypeOK
  <2>3. CASE Drain(r) \/ DrainUnheard(r)
    BY <2>3, DrainKeepsAsking
  <2>4. CASE SaveOpen(r) \/ SaveEnds(r)
    <3>1. UNCHANGED <<queue, forwarded>>
      BY <2>4, SaveEndsSo DEF SaveOpen, AfterSave, asking
    <3>2. pc[r] \in {"open", "write"} /\ held' = held
      BY <2>4, SaveEndsSo DEF SaveOpen, AfterSave
    <3>3. \A s \in Requests \ {r} : pc'[s] = pc[s]
      <4>1. Goto(r, "write") \/ Goto(r, after[r])
        BY <2>4, SaveEndsSo DEF SaveOpen
      <4> QED
        BY <2>0, <4>1 DEF Goto
    <3>4. Kept
      BY <3>2, <3>3
    <3> QED
      BY <3>1, <3>4, MoveKeepsAsking
  <2>5. CASE CancelRuns(r) \/ CloseRefused(r) \/ CloseCancels(r) \/ CloseSnapshot(r)
               \/ CloseRemoves(r)
    <3>1. UNCHANGED <<queue, forwarded>>
      BY <2>5 DEF CancelRuns, CloseRefused, CloseCancels, CloseSnapshot, CloseRemoves, asking
    <3>2. Kept
      BY <2>0, <2>5 DEF CancelRuns, CloseRefused, CloseCancels, CloseSnapshot, CloseRemoves, Goto
    <3> QED
      BY <3>1, <3>2, MoveKeepsAsking
  <2>6. CASE ReopenLive(r) \/ ReopenMissed(r) \/ ReopenRead(r) \/ ReopenInsert(r)
               \/ ReopenAnswers(r) \/ \E i \in Ids : Fork(r, i)
    <3>1. UNCHANGED <<queue, forwarded>>
      BY <2>6
         DEF ReopenLive, ReopenMissed, ReopenRead, ReopenInsert, ReopenAnswers, Fork, asking
    <3>2. Kept
      BY <2>0, <2>6
         DEF ReopenLive, ReopenMissed, ReopenRead, ReopenInsert, ReopenAnswers, Fork, Goto
    <3> QED
      BY <3>1, <3>2, MoveKeepsAsking
  <2> QED
    BY <1>1, <2>1, <2>2, <2>3, <2>4, <2>5, <2>6 DEF Handler, SaveEnds
<1>2. ASSUME NEW r \in Requests, AgentAsks(r) PROVE TurnsAsk'
  <2>1. held[r] \in Objects /\ <<r, "agent">> \in Askers
    BY <1>2 DEF AgentAsks, TypeOK, Askers
  <2> QED
    BY <1>2, <2>1, AskKeepsAsking DEF AgentAsks, locals
<1>3. CASE (\E i \in Ids : NewSession(i)) \/ Eof \/ UNCHANGED vars
  BY <1>3, MoveKeepsAsking DEF NewSession, Eof, vars, asking, locals
<1>4. ASSUME NEW k \in Kinds, NEW i \in Ids, Receive(k, i) PROVE TurnsAsk'
  <2>1. received + 1 \in Requests
    BY <1>4, NamesDiffer, AcpAssumption DEF Receive, TypeOK
  <2>2. pc[received + 1] = "idle"
    BY <2>1, NamesDiffer, AcpAssumption DEF HandlersHold, TypeOK
  <2> QED
    BY <1>4, <2>2, MoveKeepsAsking DEF Receive, asking, TypeOK
<1>5. ASSUME NEW q \in Askers, ClientAnswers(q) PROVE TurnsAsk'
  <2>1. q[1] \in Requests /\ q = <<q[1], q[2]>>
    BY DEF Askers
  <2>2. /\ forwarded' = forwarded \ {q} /\ q \in forwarded /\ queue' = queue /\ held' = held
        /\ \A s \in Requests : pc'[s] = pc[s] \/ (s = q[1] /\ q[2] = "turn")
    BY <1>5 DEF ClientAnswers, Goto, TypeOK
  <2>3. ASSUME NEW s \in Requests, <<s, "turn">> \in forwarded'
        PROVE  pc'[s] = "blocked" /\ \A o \in Objects : ~InStore(<<s, "turn">>, o)'
    BY <2>1, <2>2, <2>3 DEF TurnsAsk, InStore
  <2>4. ASSUME NEW s \in Requests, NEW o \in Objects, InStore(<<s, "turn">>, o)'
        PROVE  pc'[s] = "blocked" /\ held'[s] = o
    <3>1. InStore(<<s, "turn">>, o)
      BY <2>2, <2>4 DEF InStore
    <3>2. <<s, "turn">> \notin forwarded /\ pc[s] = "blocked" /\ held[s] = o
      BY <3>1 DEF TurnsAsk
    <3>3. <<s, "turn">> # q
      BY <2>2, <3>2
    <3> QED
      BY <2>1, <2>2, <3>2, <3>3
  <2> QED
    BY <2>3, <2>4 DEF TurnsAsk
<1>6. CASE Crash
  <2>1. forwarded' = {} /\ \A o \in Objects : queue'[o] = <<>>
    BY <1>6 DEF Crash
  <2>2. Len(<<>>) = 0
    OBVIOUS
  <2> QED
    BY <2>1, <2>2 DEF TurnsAsk, InStore
<1> QED
  BY <1>1, <1>2, <1>3, <1>4, <1>5, <1>6 DEF Next

-----------------------------------------------------------------------------
(* ObjectsHaveIds.                                                         *)

(* A step that registers nothing: no turn begins, none changes its object.  *)
LEMMA MoveKeepsObjects ==
  ASSUME TypeOK, ObjectsHaveIds, UNCHANGED <<home, target>>,
         named \subseteq named', disturbed \subseteq disturbed',
         \A i \in Ids : registry'[i] \in {registry[i], None},
         \A i \in Ids : disk'[i].state # "absent" => disk[i].state # "absent" \/ i \in named,
         \A r \in Requests : pc'[r] \in Unread => pc[r] \in Unread,
         \A r \in InTurn' : r \in InTurn /\ held'[r] = held[r]
  PROVE  ObjectsHaveIds'
<1>1. \A i \in Ids : registry'[i] # None => registry'[i] = registry[i]
  OBVIOUS
<1>2. \A r \in Requests : home'[r] # None => pc'[r] \notin Unread
  BY DEF ObjectsHaveIds
<1>3. \A i \in Ids : disk'[i].state # "absent" => i \in named'
  BY DEF ObjectsHaveIds
<1>4. \A r \in InTurn' : home'[held'[r]] = target'[r]
  BY DEF ObjectsHaveIds
<1>5. \A o \in Objects : home'[o] # None => home'[o] \in named'
  BY DEF ObjectsHaveIds
<1>6. \A i \in Ids : registry'[i] # None => home'[registry'[i]] = i
  BY <1>1 DEF ObjectsHaveIds
<1>7. \A o, p \in Objects : home'[o] = home'[p] /\ home'[o] # None /\ o # p
                              => home'[o] \in disturbed'
  BY DEF ObjectsHaveIds
<1>8. \A i \in Ids : home'[i] \in {None, i}
  BY DEF ObjectsHaveIds
<1> QED
  BY <1>2, <1>3, <1>4, <1>5, <1>6, <1>7, <1>8 DEF ObjectsHaveIds, Unread

(* A new object is registered under an id; if the id has another, it is       *)
(* disturbed.                                                              *)
LEMMA RegisterKeepsObjects ==
  ASSUME IInv, NEW o \in Objects, NEW i \in Ids, NEW text, Register(o, i, text),
         home[o] = None, i \in named', named \subseteq named', disturbed \subseteq disturbed',
         o \in Ids => o = i, (\E p \in Objects : home[p] = i) => i \in disturbed',
         UNCHANGED <<disk, target>>,
         \A r \in Requests : pc'[r] \in Unread => pc[r] \in Unread /\ r # o,
         \A r \in InTurn' : r \in InTurn /\ held'[r] = held[r]
  PROVE  ObjectsHaveIds'
<1> USE NamesDiffer DEF IInv
<1>1. /\ home' = [home EXCEPT ![o] = i] /\ registry' = [registry EXCEPT ![i] = o]
      /\ home \in [Objects -> Ids \cup {None}] /\ registry \in [Ids -> Objects \cup {None}]
  BY DEF Register, TypeOK
<1>2. \A p \in Objects : home'[p] # None => home'[p] \in named'
  BY <1>1 DEF ObjectsHaveIds
<1>3. ASSUME NEW j \in Ids PROVE home'[j] \in {None, j}
  <2>1. j \in Objects
    BY DEF Objects
  <2> QED
    BY <1>1, <2>1 DEF ObjectsHaveIds
<1>4. ASSUME NEW r \in Requests, home'[r] # None PROVE pc'[r] \notin Unread
  <2>1. r \in Objects
    BY DEF Objects
  <2> QED
    BY <1>1, <1>4, <2>1 DEF ObjectsHaveIds
<1>5. ASSUME NEW j \in Ids, registry'[j] # None PROVE home'[registry'[j]] = j
  <2>1. CASE j = i
    BY <1>1, <2>1
  <2>2. CASE j # i
    <3>1. registry'[j] = registry[j] /\ registry[j] \in Objects
      BY <1>1, <1>5, <2>2
    <3>2. home[registry[j]] = j
      BY <1>5, <3>1 DEF ObjectsHaveIds
    <3> QED
      BY <1>1, <3>1, <3>2
  <2> QED
    BY <2>1, <2>2
<1>6. \A j \in Ids : disk'[j].state # "absent" => j \in named'
  BY DEF ObjectsHaveIds
<1>7. ASSUME NEW p \in Objects, NEW q \in Objects, home'[p] = home'[q], home'[p] # None, p # q
      PROVE  home'[p] \in disturbed'
  <2>1. CASE p # o /\ q # o
    BY <1>1, <1>7, <2>1 DEF ObjectsHaveIds
  <2>2. CASE p = o \/ q = o
    BY <1>1, <1>7, <2>2
  <2> QED
    BY <2>1, <2>2
<1>8. ASSUME NEW r \in InTurn' PROVE home'[held'[r]] = target'[r]
  <2>1. r \in InTurn /\ held'[r] = held[r] /\ r \in Requests
    BY DEF InTurn
  <2>2. home[held[r]] = target[r] /\ target[r] \in named /\ held[r] \in Objects
    BY <2>1 DEF ObjectsHaveIds, HandlersHold, InTurn, TurnsHold
  <2>3. home[held[r]] # None
    BY <2>2 DEF TypeOK
  <2> QED
    BY <1>1, <2>1, <2>2, <2>3
<1> QED
  BY <1>2, <1>3, <1>4, <1>5, <1>6, <1>7, <1>8 DEF ObjectsHaveIds, Unread

LEMMA ObjectsHaveIdsKept == IInv /\ [Next]_vars => ObjectsHaveIds'
<1> SUFFICES ASSUME IInv, [Next]_vars PROVE ObjectsHaveIds'
  OBVIOUS
<1> USE DEF IInv
<1>1. ASSUME NEW r \in Requests, Handler(r) PROVE ObjectsHaveIds'
  <2>1. CASE \/ PromptRefused(r) \/ PromptEmpty(r) \/ StartQuery(r) \/ RunCommand(r)
             \/ TurnAsks(r) \/ QueryReturns(r) \/ CancelRuns(r) \/ CloseRefused(r)
             \/ CloseSnapshot(r) \/ CloseRemoves(r) \/ ReopenMissed(r) \/ ReopenAnswers(r)
    <3>1. PICK step \in Steps \ {"idle", "start"} :
            /\ Goto(r, step)
            /\ IsPrompt(r) /\ step \in TurnSteps => r \in InTurn
            /\ step \in Unread => pc[r] \in Unread
      <4>1. CloseSnapshot(r) => ~IsPrompt(r)
        BY DEF CloseSnapshot, HandlersHold
      <4> QED
        BY <2>1, <4>1
           DEF PromptRefused, PromptEmpty, StartQuery, RunCommand, TurnAsks, QueryReturns,
               CancelRuns, CloseRefused, CloseSnapshot, CloseRemoves, ReopenMissed,
               ReopenAnswers, Answered, Steps, TurnSteps, Unread, InTurn, HandlersHold
    <3>2. /\ UNCHANGED <<handlers, home, named, disk, held, disturbed>>
          /\ \A i \in Ids : registry'[i] \in {registry[i], None}
      BY <2>1
         DEF PromptRefused, PromptEmpty, StartQuery, RunCommand, TurnAsks, QueryReturns,
             CancelRuns, CloseRefused, CloseSnapshot, CloseRemoves, ReopenMissed, ReopenAnswers,
             Answered, sessions, process, history, TypeOK
    <3>3. \A s \in InTurn' : s \in InTurn
      BY <3>1, <3>2, MoveInTurn DEF InTurn
    <3>4. \A s \in Requests : pc'[s] \in Unread => pc[s] \in Unread
      BY <3>1, <3>2, MoveInTurn
    <3> QED
      BY <3>2, <3>3, <3>4, MoveKeepsObjects DEF handlers
  <2>2. CASE BeginTurn(r)
    <3>1. /\ target[r] \in Ids /\ registry[target[r]] # None
          /\ held' = [held EXCEPT ![r] = registry[target[r]]]
      BY <2>2 DEF BeginTurn, Free, HandlersHold, TypeOK
    <3>2. home[held'[r]] = target[r]
      BY <3>1 DEF ObjectsHaveIds, TypeOK
    <3>3. \A s \in InTurn' : s = r \/ (s \in InTurn /\ held'[s] = held[s])
      BY <2>2, <3>1, MoveInTurn DEF BeginTurn, InTurn, Steps, TypeOK
    <3>4. \A s \in Requests : pc'[s] \in Unread => pc[s] \in Unread
      BY <2>2, MoveInTurn DEF BeginTurn, Steps, Unread
    <3>5. UNCHANGED <<home, target, named, registry, disk, disturbed>>
      BY <2>2 DEF BeginTurn, sessions, handlers, process, history
    <3> QED
      BY <3>2, <3>3, <3>4, <3>5 DEF ObjectsHaveIds
  <2>3. CASE Drain(r)
    BY <2>3 DEF Drain, sessions, handlers, locals, process, history, ObjectsHaveIds, InTurn,
       IsPrompt
  <2>4. CASE DrainUnheard(r)
    <3>1. r \in InTurn
      BY <2>4 DEF DrainUnheard, HandlersHold, InTurn
    <3>2. Goto(r, "running") \/ Goto(r, pc[r])
      BY <2>4 DEF DrainUnheard, Goto, TypeOK
    <3>3. pc[r] \in {"running", "blocked"} /\ UNCHANGED <<handlers, held>>
      BY <2>4 DEF DrainUnheard
    <3>4. \A s \in InTurn' : s \in InTurn
      BY <3>1, <3>2, <3>3, MoveInTurn DEF InTurn, Steps
    <3>5. \A s \in Requests : pc'[s] \in Unread => pc[s] \in Unread
      BY <3>2, <3>3, MoveInTurn DEF Unread, Steps
    <3> QED
      BY <2>4, <3>3, <3>4, <3>5, MoveKeepsObjects
         DEF DrainUnheard, sessions, handlers, process, history
  <2>5. CASE SaveOpen(r) \/ SaveEnds(r)
    <3>1. PICK step \in Steps \ {"idle", "start", "reading", "read"} :
            /\ Goto(r, step)
            /\ IsPrompt(r) /\ step \in TurnSteps => r \in InTurn
      <4>1. Goto(r, "write") \/ Goto(r, after[r])
        BY <2>5, SaveEndsSo DEF SaveOpen
      <4>2. after[r] \in Steps \ {"idle", "start", "reading", "read"}
        BY DEF TypeOK, Steps
      <4>3. IsPrompt(r) => r \in InTurn
        BY <2>5, SaveEndsSo DEF SaveOpen, InTurn
      <4> QED
        BY <4>1, <4>2, <4>3 DEF Steps
    <3>2. UNCHANGED <<handlers, home, named, registry, held, disturbed>>
      BY <2>5, SaveEndsSo DEF SaveOpen, AfterSave, sessions, process, history
    <3>3. \A s \in InTurn' : s \in InTurn
      BY <3>1, <3>2, MoveInTurn DEF InTurn
    <3>4. \A s \in Requests : pc'[s] \in Unread => pc[s] \in Unread
      BY <3>1, <3>2, MoveInTurn DEF Unread
    <3>5. ASSUME NEW i \in Ids, disk'[i].state # "absent"
          PROVE  disk[i].state # "absent" \/ i \in named
      <4>1. held[r] \in Objects
        BY <2>5, SaveEndsSo DEF SaveOpen, HandlersHold, Begun
      <4>2. i # home[held[r]] => disk'[i] = disk[i]
        BY <2>5, SaveEndsSo DEF SaveOpen, TypeOK
      <4>3. CASE i = home[held[r]]
        BY <4>1, <4>3, NamesDiffer DEF ObjectsHaveIds
      <4>4. CASE i # home[held[r]]
        BY <3>5, <4>2, <4>4
      <4> QED
        BY <4>3, <4>4
    <3> QED
      BY <3>2, <3>3, <3>4, <3>5, MoveKeepsObjects DEF handlers
  <2>6. CASE CloseCancels(r) \/ ReopenLive(r)
    <3>1. r \notin InTurn /\ held' = [held EXCEPT ![r] = registry[target[r]]]
      BY <2>6 DEF CloseCancels, ReopenLive, InTurn
    <3>2. PICK step \in {"cancelled", "opened"} : Goto(r, step)
      BY <2>6 DEF CloseCancels, ReopenLive
    <3>3. UNCHANGED <<handlers, home, named, registry, disk>> /\ disturbed \subseteq disturbed'
      BY <2>6 DEF CloseCancels, ReopenLive, sessions, process, history
    <3>4. \A s \in InTurn' : s \in InTurn /\ held'[s] = held[s]
      BY <3>1, <3>2, <3>3, MoveInTurn DEF InTurn, Steps, TurnSteps, TypeOK
    <3>5. \A s \in Requests : pc'[s] \in Unread => pc[s] \in Unread
      BY <3>2, <3>3, MoveInTurn DEF Unread, Steps
    <3> QED
      BY <3>3, <3>4, <3>5, MoveKeepsObjects DEF handlers
  <2>7. CASE ReopenRead(r)
    <3>1. PICK step \in {"read", "done"} : Goto(r, step)
      BY <2>7 DEF ReopenRead
    <3>2. UNCHANGED <<handlers, home, named, registry, disk, held, disturbed>> /\ pc[r] \in Unread
      BY <2>7 DEF ReopenRead, sessions, process, history, Unread
    <3>3. \A s \in InTurn' : s \in InTurn
      BY <3>1, <3>2, MoveInTurn DEF InTurn, Steps, TurnSteps
    <3>4. \A s \in Requests : pc'[s] \in Unread => pc[s] \in Unread
      BY <3>1, <3>2, MoveInTurn DEF Steps
    <3> QED
      BY <3>2, <3>3, <3>4, MoveKeepsObjects DEF handlers
  <2>8. CASE ReopenInsert(r)
    <3>1. /\ r \in Objects /\ target[r] \in Ids /\ target[r] \in named /\ r \notin Ids
          /\ r \notin InTurn
      BY <2>8, NamesDiffer DEF ReopenInsert, Objects, HandlersHold, TypeOK, InTurn
    <3>2. home[r] = None
      BY <2>8 DEF ReopenInsert, ObjectsHaveIds, Unread
    <3>3. held' = [held EXCEPT ![r] = r] /\ UNCHANGED <<handlers, named, disk>>
      BY <2>8 DEF ReopenInsert, process
    <3>4. \A s \in InTurn' : s \in InTurn /\ held'[s] = held[s]
      BY <2>8, <3>1, <3>3, MoveInTurn DEF ReopenInsert, InTurn, Steps, TurnSteps, TypeOK
    <3>5. \A s \in Requests : pc'[s] \in Unread => pc[s] \in Unread /\ s # r
      BY <2>8, <3>3, MoveInTurn DEF ReopenInsert, Unread, Steps
    <3>6. /\ disturbed \subseteq disturbed'
          /\ (\E p \in Objects : home[p] = target[r]) => target[r] \in disturbed'
      BY <2>8 DEF ReopenInsert
    <3>7. Register(r, target[r], copy[r])
      BY <2>8 DEF ReopenInsert
    <3> QED
      BY <3>1, <3>2, <3>3, <3>4, <3>5, <3>6, <3>7, RegisterKeepsObjects DEF handlers
  <2>9. ASSUME NEW i \in Ids, Fork(r, i) PROVE ObjectsHaveIds'
    <3>1. i \notin named /\ named' = named \cup {i} /\ i \in Objects /\ i \notin Requests
      BY <2>9, NamesDiffer DEF Fork, Unnamed, Objects
    <3>2. home[i] = None /\ \A p \in Objects : home[p] # i
      BY <3>1, NamesDiffer DEF ObjectsHaveIds
    <3>3. /\ held' = [held EXCEPT ![r] = i] /\ UNCHANGED <<handlers, disk, disturbed>>
          /\ r \notin InTurn /\ ~IsPrompt(r)
      BY <2>9 DEF Fork, InTurn, IsPrompt, history
    <3>4. \A s \in InTurn' : s \in InTurn /\ held'[s] = held[s]
      BY <2>9, <3>3, MoveInTurn DEF Fork, InTurn, Steps, TypeOK
    <3>5. \A s \in Requests : pc'[s] \in Unread => pc[s] \in Unread /\ s # i
      BY <2>9, <3>1, <3>3, MoveInTurn DEF Fork, Unread, Steps
    <3>6. Register(i, i, messages[held[r]])
      BY <2>9 DEF Fork
    <3> QED
      BY <3>1, <3>2, <3>3, <3>4, <3>5, <3>6, RegisterKeepsObjects DEF handlers
  <2> QED
    BY <1>1, <2>1, <2>2, <2>3, <2>4, <2>5, <2>6, <2>7, <2>8, <2>9 DEF Handler, SaveEnds
<1>2. CASE (\E r \in Requests : AgentAsks(r)) \/ Eof \/ UNCHANGED vars
  BY <1>2 DEF AgentAsks, Eof, vars, sessions, handlers, locals, process, history,
     ObjectsHaveIds, InTurn, IsPrompt
<1>3. ASSUME NEW i \in Ids, NewSession(i) PROVE ObjectsHaveIds'
  <2>1. i \notin named /\ named' = named \cup {i} /\ i \in Objects /\ i \notin Requests
    BY <1>3, NamesDiffer DEF NewSession, Unnamed, Objects
  <2>2. home[i] = None /\ \A p \in Objects : home[p] # i
    BY <2>1, NamesDiffer DEF ObjectsHaveIds
  <2>3. UNCHANGED <<handlers, locals, disk, disturbed>> /\ Register(i, i, <<>>)
    BY <1>3 DEF NewSession, history
  <2>4. \A s \in InTurn' : s \in InTurn /\ held'[s] = held[s]
    BY <2>3 DEF InTurn, IsPrompt, handlers, locals
  <2>5. \A s \in Requests : pc'[s] \in Unread => pc[s] \in Unread /\ s # i
    BY <2>1, <2>3 DEF locals
  <2> QED
    BY <2>1, <2>2, <2>3, <2>4, <2>5, RegisterKeepsObjects DEF handlers
<1>4. ASSUME NEW k \in Kinds, NEW i \in Ids, Receive(k, i) PROVE ObjectsHaveIds'
  <2> DEFINE m == received + 1
  <2>1. m \in Requests
    BY <1>4, NamesDiffer, AcpAssumption DEF Receive, TypeOK
  <2>2. pc[m] = "idle" /\ received \in Nat
    BY <2>1, NamesDiffer, AcpAssumption DEF HandlersHold, TypeOK
  <2>3. /\ pc' = [pc EXCEPT ![m] = "start"] /\ kind' = [kind EXCEPT ![m] = k]
        /\ target' = [target EXCEPT ![m] = i]
        /\ pc \in [Requests -> Steps] /\ kind \in [Requests -> Kinds]
    BY <1>4 DEF Receive, TypeOK
  <2>4. InTurn' = InTurn /\ m \notin InTurn /\ InTurn \subseteq Requests
    BY <2>1, <2>2, <2>3 DEF InTurn, IsPrompt
  <2>5. \A s \in InTurn : target'[s] = target[s]
    BY <2>3, <2>4 DEF TypeOK
  <2>6. \A s \in Requests : pc'[s] \in Unread => pc[s] \in Unread
    BY <2>2, <2>3 DEF Unread
  <2>7. UNCHANGED <<home, registry, disk, named, disturbed, held>>
    BY <1>4 DEF Receive, sessions, process, history
  <2> QED
    BY <2>4, <2>5, <2>6, <2>7 DEF ObjectsHaveIds
<1>5. ASSUME NEW q \in Askers, ClientAnswers(q) PROVE ObjectsHaveIds'
  <2>1. q[1] \in Requests /\ q = <<q[1], q[2]>>
    BY DEF Askers
  <2>2. UNCHANGED <<handlers, home, registry, disk, named, disturbed, held>>
    BY <1>5 DEF ClientAnswers, sessions, process, history
  <2>3. CASE q[2] = "turn"
    <3>1. pc[q[1]] = "blocked"
      BY <1>5, <2>1, <2>3 DEF ClientAnswers, TurnsAsk
    <3>2. q[1] \in InTurn /\ Goto(q[1], "running")
      BY <1>5, <2>1, <2>3, <3>1 DEF ClientAnswers, HandlersHold, InTurn
    <3>3. \A s \in InTurn' : s \in InTurn
      BY <2>1, <2>2, <3>2, MoveInTurn DEF InTurn, Steps
    <3>4. \A s \in Requests : pc'[s] \in Unread => pc[s] \in Unread
      BY <2>1, <2>2, <3>2, MoveInTurn DEF Unread, Steps
    <3> QED
      BY <2>2, <3>3, <3>4, MoveKeepsObjects DEF handlers
  <2>4. CASE q[2] # "turn"
    BY <1>5, <2>2, <2>4 DEF ClientAnswers, handlers, ObjectsHaveIds, InTurn, IsPrompt
  <2> QED
    BY <2>3, <2>4
<1>6. CASE Crash
  <2>1. InTurn' = {}
    BY <1>6 DEF Crash, InTurn
  <2>2. /\ \A o \in Objects : home'[o] = None
        /\ \A i \in Ids : registry'[i] = None
        /\ UNCHANGED <<named, disk, disturbed>>
    BY <1>6 DEF Crash, history
  <2>3. /\ \A i \in Ids : i \in Objects
        /\ \A r \in Requests : r \in Objects
    BY DEF Objects
  <2> QED
    BY <2>1, <2>2, <2>3 DEF ObjectsHaveIds
<1> QED
  BY <1>1, <1>2, <1>3, <1>4, <1>5, <1>6 DEF Next

-----------------------------------------------------------------------------
(* Who waits for a permission has asked for it once.                       *)

Blocked(q) == IF q[2] = "turn" THEN pc[q[1]] = "blocked" ELSE q[1] \in waiting

(* A question is at one place: at one position of one store, or with the     *)
(* editor; and it is at one as long as whoever asked it waits.             *)
AskedOnce ==
  /\ \A o \in Objects : Len(queue[o]) <= asked
  /\ \A q \in Askers :
       Blocked(q) <=> q \in forwarded \/ \E o \in Objects : InStore(q, o)
  /\ \A q \in forwarded, o \in Objects : ~InStore(q, o)
  /\ \A o, p \in Objects : \A m \in 1 .. Len(queue[o]), n \in 1 .. Len(queue[p]) :
       queue[o][m] = queue[p][n] => o = p /\ m = n

LEMMA AskerIs ==
  ASSUME NEW q \in Askers
  PROVE  /\ q[1] \in Requests /\ q[2] \in {"turn", "agent"}
         /\ q = <<q[1], q[2]>>
  BY DEF Askers

(* Whoever waits goes on waiting, and nobody begins to.                     *)
LEMMA MoveKeepsOnce ==
  ASSUME AskedOnce, UNCHANGED <<queue, forwarded, waiting, asked>>,
         \A s \in Requests : pc'[s] = "blocked" <=> pc[s] = "blocked"
  PROVE  AskedOnce'
<1>1. ASSUME NEW q \in Askers PROVE Blocked(q)' <=> Blocked(q)
  BY AskerIs DEF Blocked
<1>2. \A q, o : InStore(q, o)' <=> InStore(q, o)
  BY DEF InStore
<1> QED
  BY <1>1, <1>2 DEF AskedOnce

(* A question that stands nowhere is put at the end of the store of an        *)
(* object, and whoever asks it waits.                                      *)
LEMMA AskKeepsOnce ==
  ASSUME TypeOK, AskedOnce, NEW o \in Objects, NEW q \in Askers,
         queue' = [queue EXCEPT ![o] = Append(@, q)], UNCHANGED forwarded,
         asked' = asked + 1, ~Blocked(q), Blocked(q)',
         \A a \in Askers : a # q => (Blocked(a)' <=> Blocked(a))
  PROVE  AskedOnce'
<1>1. queue \in [Objects -> Seq(Askers)] /\ asked \in Nat
  BY AcpAssumption DEF TypeOK
<1>2. /\ queue[o] \in Seq(Askers) /\ queue'[o] = Append(queue[o], q)
      /\ \A p \in Objects : p # o => queue'[p] = queue[p]
  BY <1>1
<1>3. /\ Len(queue'[o]) = Len(queue[o]) + 1 /\ Len(queue[o]) \in Nat
      /\ queue'[o][Len(queue[o]) + 1] = q
      /\ \A n \in 1 .. Len(queue[o]) : queue'[o][n] = queue[o][n]
  BY <1>2, AppendProperties
<1>4. ASSUME NEW p \in Objects, NEW n \in 1 .. Len(queue'[p])
      PROVE  \/ n \in 1 .. Len(queue[p]) /\ queue'[p][n] = queue[p][n]
             \/ p = o /\ n = Len(queue[o]) + 1 /\ queue'[p][n] = q
  <2>1. CASE p = o
    BY <1>3, <2>1
  <2>2. CASE p # o
    BY <1>2, <2>2
  <2> QED
    BY <2>1, <2>2
<1>5. ASSUME NEW p \in Objects, NEW a
      PROVE  InStore(a, p)' <=> (InStore(a, p) \/ (p = o /\ a = q))
  <2>1. CASE p = o
    BY <1>2, <2>1, StoredOneMore DEF InStore
  <2>2. CASE p # o
    BY <1>2, <2>2 DEF InStore
  <2> QED
    BY <2>1, <2>2
<1>6. q \notin forwarded /\ \A p \in Objects : ~InStore(q, p)
  BY DEF AskedOnce
<1>7. ASSUME NEW p \in Objects PROVE Len(queue'[p]) <= asked'
  <2>1. Len(queue[p]) <= asked /\ Len(queue[o]) <= asked
    BY DEF AskedOnce
  <2>2. queue[p] \in Seq(Askers)
    BY <1>1
  <2>3. Len(queue[p]) \in Nat
    BY <2>2
  <2>4. Len(queue'[p]) \in {Len(queue[p]), Len(queue[p]) + 1}
    BY <1>2, <1>3
  <2> QED
    BY <1>1, <2>1, <2>3, <2>4
<1>8. ASSUME NEW a \in Askers
      PROVE  Blocked(a)' <=> a \in forwarded' \/ \E p \in Objects : InStore(a, p)'
  <2>1. CASE a = q
    BY <1>5, <2>1
  <2>2. CASE a # q
    BY <1>5, <2>2 DEF AskedOnce
  <2> QED
    BY <2>1, <2>2
<1>9. ASSUME NEW a \in forwarded', NEW p \in Objects PROVE ~InStore(a, p)'
  BY <1>5, <1>6 DEF AskedOnce
<1>10. ASSUME NEW p \in Objects, NEW u \in Objects, NEW m \in 1 .. Len(queue'[p]),
              NEW n \in 1 .. Len(queue'[u]), queue'[p][m] = queue'[u][n]
       PROVE  p = u /\ m = n
  <2> DEFINE Old(w, k) == k \in 1 .. Len(queue[w]) /\ queue'[w][k] = queue[w][k]
             End(w, k) == w = o /\ k = Len(queue[o]) + 1 /\ queue'[w][k] = q
  <2>1. /\ Old(p, m) \/ End(p, m)
        /\ Old(u, n) \/ End(u, n)
    BY <1>4
  <2>2. CASE Old(p, m) /\ Old(u, n)
    BY <1>10, <2>2 DEF AskedOnce
  <2>3. CASE End(p, m) /\ End(u, n)
    BY <2>3
  <2>4. CASE Old(p, m) /\ End(u, n)
    BY <1>6, <1>10, <2>4 DEF InStore
  <2>5. CASE End(p, m) /\ Old(u, n)
    BY <1>6, <1>10, <2>5 DEF InStore
  <2> QED
    BY <2>1, <2>2, <2>3, <2>4, <2>5
<1> QED
  BY <1>7, <1>8, <1>9, <1>10 DEF AskedOnce

(* A store is emptied, and whoever waited for a question in it has it with    *)
(* the editor now or waits no more.                                        *)
LEMMA DrainKeepsOnce ==
  ASSUME IInv, AskedOnce, NEW r \in Requests, Drain(r) \/ DrainUnheard(r)
  PROVE  AskedOnce'
<1> DEFINE o == held[r]
<1> USE DEF IInv
<1>1. o \in Objects /\ queue \in [Objects -> Seq(Askers)] /\ r \in InTurn
      /\ pc \in [Requests -> Steps] /\ waiting \subseteq Requests /\ asked \in Nat
  <2>1. r \in InTurn
    BY DEF Drain, DrainUnheard, InTurn, HandlersHold
  <2> QED
    BY <2>1, AcpAssumption DEF TurnsHold, TypeOK
<1>2. queue' = [queue EXCEPT ![o] = <<>>] /\ asked' = asked
  BY DEF Drain, DrainUnheard
<1>3. queue'[o] = <<>> /\ \A p \in Objects : p # o => queue'[p] = queue[p]
  BY <1>1, <1>2
<1>4. ASSUME NEW p \in Objects, NEW a
      PROVE  InStore(a, p)' <=> (InStore(a, p) /\ p # o)
  <2>1. Len(<<>>) = 0
    OBVIOUS
  <2> QED
    BY <1>3, <2>1 DEF InStore
<1>5. \A a : a \in ToSet(queue[o]) <=> InStore(a, o)
  BY SMTT(20) DEF ToSet, InStore
<1>6. ASSUME NEW a, NEW p \in Objects, InStore(a, o), InStore(a, p)
      PROVE  p = o
  BY <1>1, <1>6 DEF AskedOnce, InStore
<1>7. \A p \in Objects : Len(queue'[p]) <= asked'
  <2>1. Len(<<>>) = 0
    OBVIOUS
  <2> QED
    BY <1>1, <1>2, <1>3, <2>1 DEF AskedOnce
<1>8. ASSUME NEW p \in Objects, NEW u \in Objects, NEW m \in 1 .. Len(queue'[p]),
             NEW n \in 1 .. Len(queue'[u]), queue'[p][m] = queue'[u][n]
      PROVE  p = u /\ m = n
  <2>1. Len(<<>>) = 0
    OBVIOUS
  <2>2. p # o /\ u # o
    BY <1>3, <2>1
  <2>3. queue'[p] = queue[p] /\ queue'[u] = queue[u]
    BY <1>3, <2>2
  <2> QED
    BY <1>8, <2>3 DEF AskedOnce
<1>9. CASE Drain(r)
  <2>1. UNCHANGED <<pc, waiting>> /\ forwarded' = forwarded \cup ToSet(queue[o])
    BY <1>9 DEF Drain, locals
  <2>2. ASSUME NEW a \in Askers
        PROVE  Blocked(a)' <=> a \in forwarded' \/ \E p \in Objects : InStore(a, p)'
    <3>1. Blocked(a)' <=> Blocked(a)
      BY <2>1 DEF Blocked
    <3>2. a \in forwarded' <=> a \in forwarded \/ InStore(a, o)
      BY <1>5, <2>1
    <3> QED
      BY <1>1, <1>4, <3>1, <3>2 DEF AskedOnce
  <2>3. ASSUME NEW a \in forwarded', NEW p \in Objects PROVE ~InStore(a, p)'
    <3>1. CASE a \in forwarded
      BY <1>4, <3>1 DEF AskedOnce
    <3>2. CASE InStore(a, o)
      BY <1>4, <1>6, <3>2
    <3> QED
      BY <1>5, <2>1, <2>3, <3>1, <3>2
  <2> QED
    BY <1>7, <1>8, <2>2, <2>3 DEF AskedOnce
<1>10. CASE DrainUnheard(r)
  <2>1. /\ forwarded' = forwarded
        /\ waiting' = {a \in waiting : <<a, "agent">> \notin ToSet(queue[o])}
        /\ IF <<r, "turn">> \in ToSet(queue[o])
           THEN pc' = [pc EXCEPT ![r] = "running"] ELSE pc' = pc
    BY <1>10 DEF DrainUnheard, Goto
  <2>2. ASSUME NEW a \in Askers
        PROVE  Blocked(a)' <=> Blocked(a) /\ ~InStore(a, o)
    <3>1. CASE a[2] = "agent"
      <4>1. a = <<a[1], "agent">> /\ a[2] # "turn"
        BY <3>1, AskerIs
      <4> QED
        BY <1>5, <2>1, <4>1 DEF Blocked
    <3>2. CASE a[2] = "turn"
      <4> DEFINE s == a[1]
      <4>1. s \in Requests /\ a = <<s, "turn">>
        BY <3>2, AskerIs
      <4>2. Blocked(a) <=> pc[s] = "blocked"
        BY <3>2 DEF Blocked
      <4>3. Blocked(a)' <=> pc'[s] = "blocked"
        BY <3>2 DEF Blocked
      <4>4. ASSUME InStore(a, o) PROVE s = r
        <5>1. pc[s] = "blocked" /\ held[s] = o
          BY <1>1, <4>1, <4>4 DEF TurnsAsk
        <5>2. s \in InTurn
          BY <4>1, <5>1 DEF InTurn, HandlersHold
        <5> QED
          BY <1>1, <5>1, <5>2 DEF TurnsHold
      <4> HIDE DEF s
      <4>5. CASE s = r
        BY <1>1, <1>5, <2>1, <4>1, <4>2, <4>3, <4>5
      <4>6. CASE s # r
        BY <1>1, <2>1, <4>1, <4>2, <4>3, <4>4, <4>6
      <4> QED
        BY <4>5, <4>6
    <3> QED
      BY <3>1, <3>2, AskerIs
  <2>3. ASSUME NEW a \in Askers
        PROVE  Blocked(a)' <=> a \in forwarded' \/ \E p \in Objects : InStore(a, p)'
    <3>1. Blocked(a) <=> a \in forwarded \/ \E p \in Objects : InStore(a, p)
      BY DEF AskedOnce
    <3>2. a \in forwarded => ~InStore(a, o)
      BY <1>1 DEF AskedOnce
    <3> QED
      BY <1>4, <1>6, <2>1, <2>2, <3>1, <3>2
  <2>4. ASSUME NEW a \in forwarded', NEW p \in Objects PROVE ~InStore(a, p)'
    BY <1>4, <2>1 DEF AskedOnce
  <2> QED
    BY <1>7, <1>8, <2>3, <2>4 DEF AskedOnce
<1> QED
  BY <1>9, <1>10

(* The editor's answer takes away the one question it is for.               *)
LEMMA AnswerKeepsOnce ==
  ASSUME IInv, AskedOnce, NEW q \in Askers, ClientAnswers(q)
  PROVE  AskedOnce'
<1> USE DEF IInv
<1>1. /\ q[1] \in Requests /\ q = <<q[1], q[2]>> /\ q[2] \in {"turn", "agent"}
      /\ pc \in [Requests -> Steps] /\ waiting \subseteq Requests
  BY AskerIs DEF TypeOK
<1>2. /\ forwarded' = forwarded \ {q} /\ q \in forwarded /\ UNCHANGED <<queue, asked>>
      /\ IF q[2] = "turn"
         THEN pc' = [pc EXCEPT ![q[1]] = "running"] /\ UNCHANGED waiting
         ELSE waiting' = waiting \ {q[1]} /\ UNCHANGED pc
  BY DEF ClientAnswers, Goto
<1>3. \A a, o : InStore(a, o)' <=> InStore(a, o)
  BY <1>2 DEF InStore
<1>4. ASSUME NEW a \in Askers
      PROVE  Blocked(a)' <=> Blocked(a) /\ a # q
  <2>1. /\ a[1] \in Requests /\ a = <<a[1], a[2]>> /\ a[2] \in {"turn", "agent"}
    BY AskerIs
  <2>2. a = q <=> a[1] = q[1] /\ a[2] = q[2]
    BY <1>1, <2>1
  <2>3. CASE q[2] = "turn"
    BY <1>1, <1>2, <2>1, <2>2, <2>3 DEF Blocked
  <2>4. CASE q[2] = "agent"
    BY <1>1, <1>2, <2>1, <2>2, <2>4 DEF Blocked
  <2> QED
    BY <1>1, <2>3, <2>4
<1>5. \A o \in Objects : ~InStore(q, o)
  BY <1>2 DEF AskedOnce
<1>6. ASSUME NEW a \in Askers
      PROVE  Blocked(a)' <=> a \in forwarded' \/ \E o \in Objects : InStore(a, o)'
  <2>1. Blocked(a) <=> a \in forwarded \/ \E o \in Objects : InStore(a, o)
    BY DEF AskedOnce
  <2> QED
    BY <1>2, <1>3, <1>4, <1>5, <2>1
<1>7. \A a \in forwarded', o \in Objects : ~InStore(a, o)'
  BY <1>2, <1>3 DEF AskedOnce
<1> QED
  BY <1>2, <1>6, <1>7 DEF AskedOnce

LEMMA InitAskedOnce == Init => AskedOnce
<1> SUFFICES ASSUME Init PROVE AskedOnce
  OBVIOUS
<1>1. /\ \A o \in Objects : queue[o] = <<>>
      /\ Len(<<>>) = 0 /\ asked = 0 /\ forwarded = {} /\ waiting = {}
      /\ \A r \in Requests : pc[r] = "idle"
  BY DEF Init
<1>2. \A q : \A o \in Objects : ~InStore(q, o)
  BY <1>1 DEF InStore
<1>3. \A q \in Askers : ~Blocked(q)
  BY <1>1, AskerIs DEF Blocked
<1> QED
  BY <1>1, <1>2, <1>3 DEF AskedOnce

LEMMA AskedOnceKept == IInv /\ AskedOnce /\ [Next]_vars => AskedOnce'
<1> SUFFICES ASSUME IInv, AskedOnce, [Next]_vars PROVE AskedOnce'
  OBVIOUS
<1> USE DEF IInv
<1>0. pc \in [Requests -> Steps]
  BY DEF TypeOK
<1> DEFINE Same == \A s \in Requests : pc'[s] = "blocked" <=> pc[s] = "blocked"
<1>1. ASSUME NEW r \in Requests, Handler(r) PROVE AskedOnce'
  <2>1. CASE PromptRefused(r) \/ BeginTurn(r) \/ PromptEmpty(r) \/ StartQuery(r)
               \/ RunCommand(r) \/ QueryReturns(r)
    <3>1. UNCHANGED <<queue, forwarded, waiting, asked>>
      BY <2>1
         DEF PromptRefused, BeginTurn, PromptEmpty, StartQuery, RunCommand, QueryReturns, asking
    <3>2. Same
      BY <1>0, <2>1
         DEF PromptRefused, BeginTurn, PromptEmpty, StartQuery, RunCommand, QueryReturns,
             Answered, Goto
    <3> QED
      BY <3>1, <3>2, MoveKeepsOnce
  <2>2. CASE TurnAsks(r)
    <3> DEFINE q == <<r, "turn">>
    <3>1. r \in InTurn
      BY <2>2 DEF TurnAsks, InTurn, HandlersHold
    <3>2. held[r] \in Objects /\ q \in Askers /\ q[1] = r /\ q[2] = "turn"
      BY <3>1 DEF TurnsHold, Askers
    <3>3. pc[r] = "running" /\ pc' = [pc EXCEPT ![r] = "blocked"] /\ UNCHANGED waiting
      BY <2>2 DEF TurnAsks, Goto
    <3>4. ~Blocked(q) /\ Blocked(q)'
      BY <1>0, <3>2, <3>3 DEF Blocked
    <3>5. ASSUME NEW a \in Askers, a # q PROVE Blocked(a)' <=> Blocked(a)
      <4>1. a[2] = "turn" => a[1] # r
        BY <3>5, AskerIs
      <4> QED
        BY <1>0, <3>3, <4>1, AskerIs DEF Blocked
    <3>6. /\ queue' = [queue EXCEPT ![held[r]] = Append(@, q)] /\ UNCHANGED forwarded
          /\ asked' = asked + 1
      BY <2>2 DEF TurnAsks
    <3> HIDE DEF q
    <3> QED
      BY <3>2, <3>4, <3>5, <3>6, AskKeepsOnce
  <2>3. CASE Drain(r) \/ DrainUnheard(r)
    BY <2>3, DrainKeepsOnce
  <2>4. CASE SaveOpen(r) \/ SaveEnds(r)
    <3>1. UNCHANGED <<queue, forwarded, waiting, asked>>
      BY <2>4, SaveEndsSo DEF SaveOpen, AfterSave, asking
    <3>2. pc[r] \in {"open", "write"}
      BY <2>4, SaveEndsSo DEF SaveOpen
    <3>3. \E to \in {"write", "done", "running", "remove", "opened"} : pc' = [pc EXCEPT ![r] = to]
      BY <2>4, SaveEndsSo DEF SaveOpen, Goto
    <3>4. Same
      BY <1>0, <3>2, <3>3
    <3> QED
      BY <3>1, <3>4, MoveKeepsOnce
  <2>5. CASE CancelRuns(r) \/ CloseRefused(r) \/ CloseCancels(r) \/ CloseSnapshot(r)
               \/ CloseRemoves(r)
    <3>1. UNCHANGED <<queue, forwarded, waiting, asked>>
      BY <2>5 DEF CancelRuns, CloseRefused, CloseCancels, CloseSnapshot, CloseRemoves, asking
    <3>2. Same
      BY <1>0, <2>5 DEF CancelRuns, CloseRefused, CloseCancels, CloseSnapshot, CloseRemoves, Goto
    <3> QED
      BY <3>1, <3>2, MoveKeepsOnce
  <2>6. CASE ReopenLive(r) \/ ReopenMissed(r) \/ ReopenRead(r) \/ ReopenInsert(r)
               \/ ReopenAnswers(r) \/ \E i \in Ids : Fork(r, i)
    <3>1. UNCHANGED <<queue, forwarded, waiting, asked>>
      BY <2>6
         DEF ReopenLive, ReopenMissed, ReopenRead, ReopenInsert, ReopenAnswers, Fork, asking
    <3>2. Same
      BY <1>0, <2>6
         DEF ReopenLive, ReopenMissed, ReopenRead, ReopenInsert, ReopenAnswers, Fork, Goto
    <3> QED
      BY <3>1, <3>2, MoveKeepsOnce
  <2> QED
    BY <1>1, <2>1, <2>2, <2>3, <2>4, <2>5, <2>6 DEF Handler, SaveEnds
<1>2. ASSUME NEW r \in Requests, AgentAsks(r) PROVE AskedOnce'
  <2> DEFINE q == <<r, "agent">>
  <2>1. held[r] \in Objects /\ q \in Askers /\ q[1] = r /\ q[2] = "agent"
    BY <1>2 DEF AgentAsks, TypeOK, Askers
  <2>2. r \notin waiting /\ waiting' = waiting \cup {r} /\ UNCHANGED pc
    BY <1>2 DEF AgentAsks, locals
  <2>3. ~Blocked(q) /\ Blocked(q)'
    BY <2>1, <2>2 DEF Blocked
  <2>4. ASSUME NEW a \in Askers, a # q PROVE Blocked(a)' <=> Blocked(a)
    <3>1. a[2] # "turn" => a[1] # r
      BY <2>4, AskerIs
    <3> QED
      BY <2>2, <3>1 DEF Blocked
  <2>5. /\ queue' = [queue EXCEPT ![held[r]] = Append(@, q)] /\ UNCHANGED forwarded
        /\ asked' = asked + 1
    BY <1>2 DEF AgentAsks
  <2> HIDE DEF q
  <2> QED
    BY <2>1, <2>3, <2>4, <2>5, AskKeepsOnce
<1>3. CASE (\E i \in Ids : NewSession(i)) \/ Eof \/ UNCHANGED vars
  BY <1>3, MoveKeepsOnce DEF NewSession, Eof, vars, asking, locals
<1>4. ASSUME NEW k \in Kinds, NEW i \in Ids, Receive(k, i) PROVE AskedOnce'
  <2>1. received + 1 \in Requests
    BY <1>4, NamesDiffer, AcpAssumption DEF Receive, TypeOK
  <2>2. pc[received + 1] = "idle"
    BY <2>1, NamesDiffer, AcpAssumption DEF HandlersHold, TypeOK
  <2> QED
    BY <1>0, <1>4, <2>2, MoveKeepsOnce DEF Receive, asking
<1>5. ASSUME NEW q \in Askers, ClientAnswers(q) PROVE AskedOnce'
  BY <1>5, AnswerKeepsOnce
<1>6. CASE Crash
  <2>1. /\ forwarded' = {} /\ waiting' = {} /\ asked' = asked /\ asked \in Nat
        /\ \A o \in Objects : queue'[o] = <<>>
        /\ \A r \in Requests : pc'[r] # "blocked"
    BY <1>6, AcpAssumption DEF Crash, TypeOK
  <2>2. Len(<<>>) = 0
    OBVIOUS
  <2>3. \A q : \A o \in Objects : ~InStore(q, o)'
    BY <2>1, <2>2 DEF InStore
  <2>4. \A q \in Askers : ~Blocked(q)'
    BY <2>1, AskerIs DEF Blocked
  <2> QED
    BY <2>1, <2>2, <2>3, <2>4 DEF AskedOnce
<1> QED
  BY <1>1, <1>2, <1>3, <1>4, <1>5, <1>6 DEF Next

-----------------------------------------------------------------------------
(* The turns that were answered are in the transcript and on file.          *)

\* A close past its cancel, and a fork that saves its new session.
Closing(r) ==
  \/ pc[r] \in {"cancelled", "remove"}
  \/ pc[r] \in {"open", "write"} /\ after[r] = "remove"

Copying(r) == pc[r] \in {"open", "write"} /\ after[r] = "opened"

\* The handlers that may change what a session holds.
Owns(r) == r \in InTurn \/ Copying(r)

CloserDisturbs(r) ==
  Closing(r) => /\ target[r] \in disturbed
                /\ pc[r] # "remove" => home[held[r]] = target[r]

(* The session a fork still saves is known to no one else.                  *)
CopierApart(r) ==
  Copying(r) =>
    /\ kind[r] = "fork" /\ held[r] \in Ids \ disturbed /\ home[held[r]] = held[r]
    /\ disk[held[r]].state \in {"absent", "empty"}
    /\ \A s \in Requests : /\ pc[s] # "idle" => target[s] # held[r]
                           /\ Copying(s) /\ held[s] = held[r] => s = r

(* A turn works on a copy that has all that was promised, and saves what the *)
(* session holds, into a file it has emptied.                              *)
OwnerCopies(r) ==
  Owns(r) /\ home[held[r]] \notin disturbed =>
    /\ pc[r] # "claimed" => promised[home[held[r]]] \subseteq ToSet(copy[r])
    /\ pc[r] \in {"open", "write"} => copy[r] = messages[held[r]]
    /\ pc[r] = "write" => disk[home[held[r]]] = Empty

(* A handler that has read a file has all that was promised, as long as      *)
(* nobody else has opened the session.                                     *)
ReaderKnows(r) ==
  pc[r] = "read" /\ target[r] \notin disturbed
    /\ (\A o \in Objects : home[o] # target[r])
  => promised[target[r]] \subseteq ToSet(copy[r])

ObjectsKeep ==
  \A o \in Objects : home[o] \in Undisturbed =>
    registry[home[o]] = o /\ promised[home[o]] \subseteq ToSet(messages[o])

\* No handler is about to write the file of i.
Settled(i) == \A r \in Requests : pc[r] = "write" => home[held[r]] # i

FilesKeep ==
  \A i \in Undisturbed : Settled(i) => promised[i] \ unfiled[i] \subseteq ToSet(disk[i].text)

(* What a failed save left out is in an object of the session still.        *)
OrphansFiled ==
  \A i \in Ids : (\A o \in Objects : home[o] # i) => unfiled[i] = {}

UnnamedUnpromised == \A i \in Ids \ named : promised[i] = {} /\ i \notin disturbed

HandlersFile ==
  \A r \in Requests : /\ CloserDisturbs(r) /\ CopierApart(r)
                      /\ OwnerCopies(r) /\ ReaderKnows(r)

Filed == HandlersFile /\ ObjectsKeep /\ FilesKeep /\ OrphansFiled /\ UnnamedUnpromised

(* Whoever owns a session has an object of it.                              *)
LEMMA OwnerHolds ==
  ASSUME IInv, HandlersFile, NEW r \in Requests, Owns(r)
  PROVE  /\ held[r] \in Objects /\ home[held[r]] \in Ids
         /\ home[held[r]] \in named /\ home[held[r]] # None
         /\ r \in InTurn => home[held[r]] = target[r]
<1> USE DEF IInv
<1>1. held[r] \in Objects
  <2>1. CASE r \in InTurn
    BY <2>1 DEF TurnsHold
  <2>2. CASE Copying(r)
    BY <2>2 DEF HandlersFile, CopierApart, Objects
  <2> QED
    BY <2>1, <2>2 DEF Owns
<1>2. home[held[r]] \in Ids \cup {None}
  BY <1>1 DEF TypeOK
<1>3. r \in InTurn => home[held[r]] = target[r] /\ pc[r] # "idle"
  BY DEF ObjectsHaveIds, InTurn
<1>4. home[held[r]] # None
  <2>1. CASE r \in InTurn
    BY <1>3, <2>1, NamesDiffer DEF HandlersHold, TypeOK
  <2>2. CASE Copying(r)
    BY <2>2, NamesDiffer DEF HandlersFile, CopierApart
  <2> QED
    BY <2>1, <2>2 DEF Owns
<1>5. home[held[r]] \in named
  BY <1>1, <1>4 DEF ObjectsHaveIds
<1> QED
  BY <1>1, <1>2, <1>3, <1>4, <1>5

(* A session that is undisturbed has one owner at most.                     *)
LEMMA OneOwner ==
  ASSUME IInv, HandlersFile, NEW r \in Requests, NEW s \in Requests, Owns(r), Owns(s),
         home[held[r]] = home[held[s]], home[held[r]] \notin disturbed
  PROVE  r = s
<1> USE DEF IInv
<1>1. /\ held[r] \in Objects /\ held[s] \in Objects /\ home[held[r]] # None
      /\ r \in InTurn => home[held[r]] = target[r] /\ pc[r] # "idle"
      /\ s \in InTurn => home[held[s]] = target[s] /\ pc[s] # "idle"
  BY OwnerHolds DEF InTurn
<1>2. held[r] = held[s]
  BY <1>1 DEF ObjectsHaveIds
<1>3. CASE r \in InTurn /\ s \in InTurn
  <2>1. token[held[r]] = r /\ token[held[s]] = s
    BY <1>3 DEF TurnsHold
  <2> QED
    BY <1>2, <2>1
<1>4. CASE Copying(r)
  <2>1. /\ home[held[r]] = held[r]
        /\ pc[s] # "idle" => target[s] # held[r]
        /\ Copying(s) /\ held[s] = held[r] => s = r
    BY <1>4 DEF HandlersFile, CopierApart
  <2> QED
    BY <1>1, <1>2, <2>1 DEF Owns
<1>5. CASE Copying(s)
  <2>1. /\ home[held[s]] = held[s]
        /\ pc[r] # "idle" => target[r] # held[s]
        /\ Copying(r) /\ held[r] = held[s] => r = s
    BY <1>5 DEF HandlersFile, CopierApart
  <2> QED
    BY <1>1, <1>2, <2>1 DEF Owns
<1> QED
  BY <1>3, <1>4, <1>5 DEF Owns

(* Whoever saves owns the session or closes it.                             *)
LEMMA SaverIs ==
  ASSUME IInv, HandlersFile, NEW r \in Requests, pc[r] \in {"open", "write"}
  PROVE  /\ Owns(r) \/ Closing(r)
         /\ home[held[r]] \notin disturbed => Owns(r)
         /\ held[r] \in Objects
<1> USE DEF IInv
<1>1. after[r] \in {"done", "running", "remove", "opened"}
  BY DEF TypeOK
<1>2. after[r] \in {"done", "running"} => r \in InTurn
  BY DEF HandlersHold, InTurn
<1>3. Owns(r) \/ Closing(r)
  BY <1>1, <1>2 DEF Owns, Copying, Closing
<1>4. Closing(r) => home[held[r]] \in disturbed
  BY DEF HandlersFile, CloserDisturbs
<1>5. held[r] \in Objects
  BY DEF HandlersHold, Begun
<1> QED
  BY <1>3, <1>4, <1>5

\* What a step leaves of the handler of s.
SameLocals(s) ==
  pc'[s] = pc[s] /\ held'[s] = held[s] /\ copy'[s] = copy[s] /\ after'[s] = after[s]

LEMMA SameLocalsSame ==
  ASSUME NEW s \in Requests, SameLocals(s), kind'[s] = kind[s]
  PROVE  /\ Closing(s)' <=> Closing(s)
         /\ Copying(s)' <=> Copying(s)
         /\ s \in InTurn' <=> s \in InTurn
         /\ Owns(s)' <=> Owns(s)
  BY DEF SameLocals, Closing, Copying, Owns, InTurn, IsPrompt

LEMMA SettledBefore ==
  ASSUME NEW i, Settled(i)', NEW r \in Requests, pc[r] # "write", UNCHANGED home,
         \A s \in Requests \ {r} : SameLocals(s)
  PROVE  Settled(i)
  BY DEF Settled, SameLocals

(* A handler moves on, and leaves transcripts and files alone.              *)
LEMMA MoveKeepsFiled ==
  ASSUME IInv, Filed, NEW r \in Requests, pc[r] \notin {"idle", "write"},
         UNCHANGED <<sessions, handlers, disk, promised, unfiled, named>>,
         disturbed \subseteq disturbed', disturbed' \subseteq disturbed \cup {target[r]},
         \A s \in Requests \ {r} : SameLocals(s),
         ~Copying(r)', CloserDisturbs(r)', OwnerCopies(r)', ReaderKnows(r)'
  PROVE  Filed'
<1>1. ASSUME NEW s \in Requests, s # r
      PROVE  /\ CloserDisturbs(s)' /\ CopierApart(s)'
             /\ OwnerCopies(s)' /\ ReaderKnows(s)'
  <2>1. SameLocals(s) /\ kind' = kind /\ target' = target
    BY <1>1 DEF handlers
  <2>2. /\ Closing(s)' <=> Closing(s)
        /\ Copying(s)' <=> Copying(s)
        /\ Owns(s)' <=> Owns(s)
    BY <2>1, SameLocalsSame
  <2>3. /\ CloserDisturbs(s) /\ CopierApart(s) /\ OwnerCopies(s) /\ ReaderKnows(s)
    BY DEF Filed, HandlersFile
  <2>4. CloserDisturbs(s)'
    BY <2>1, <2>2, <2>3 DEF CloserDisturbs, SameLocals, sessions
  <2>5. CopierApart(s)'
    <3> SUFFICES ASSUME Copying(s)'
                 PROVE  /\ kind[s] = "fork" /\ held[s] \in Ids \ disturbed' /\ home[held[s]] = held[s]
                        /\ disk[held[s]].state \in {"absent", "empty"}
                        /\ \A q \in Requests : /\ pc'[q] # "idle" => target[q] # held[s]
                                               /\ Copying(q)' /\ held'[q] = held[s] => q = s
      BY <2>1 DEF CopierApart, SameLocals, sessions
    <3>1. /\ kind[s] = "fork" /\ held[s] \in Ids \ disturbed /\ home[held[s]] = held[s]
          /\ disk[held[s]].state \in {"absent", "empty"}
          /\ \A q \in Requests : /\ pc[q] # "idle" => target[q] # held[s]
                                 /\ Copying(q) /\ held[q] = held[s] => q = s
      BY <2>2, <2>3 DEF CopierApart
    <3>2. held[s] \notin disturbed'
      BY <3>1
    <3>3. ASSUME NEW q \in Requests
          PROVE  /\ pc'[q] # "idle" => target[q] # held[s]
                 /\ Copying(q)' /\ held'[q] = held[s] => q = s
      <4>1. CASE q = r
        BY <3>1, <4>1
      <4>2. CASE q # r
        <5>1. SameLocals(q) /\ (Copying(q)' <=> Copying(q))
          BY <2>1, <4>2, SameLocalsSame
        <5> QED
          BY <3>1, <5>1 DEF SameLocals
      <4> QED
        BY <4>1, <4>2
    <3> QED
      BY <3>1, <3>2, <3>3
  <2>6. OwnerCopies(s)'
    BY <2>1, <2>2, <2>3 DEF OwnerCopies, SameLocals, sessions
  <2>7. ReaderKnows(s)'
    BY <2>1, <2>3 DEF ReaderKnows, SameLocals, sessions
  <2> QED
    BY <2>4, <2>5, <2>6, <2>7
<1>2. CopierApart(r)'
  BY DEF CopierApart
<1>3. HandlersFile'
  BY <1>1, <1>2 DEF HandlersFile
<1>4. ObjectsKeep' /\ OrphansFiled'
  BY DEF Filed, ObjectsKeep, OrphansFiled, Undisturbed, sessions
<1>5. FilesKeep'
  <2>1. \A i \in Ids : Settled(i)' => Settled(i)
    BY SettledBefore DEF sessions
  <2> QED
    BY <2>1 DEF Filed, FilesKeep, Undisturbed
<1>6. UnnamedUnpromised'
  <2>1. target[r] \in named
    BY DEF IInv, HandlersHold
  <2> QED
    BY <2>1 DEF Filed, UnnamedUnpromised
<1> QED
  BY <1>3, <1>4, <1>5, <1>6 DEF Filed

(* Nothing moves that the files depend on.                                  *)
LEMMA StillFiled ==
  ASSUME Filed,
         UNCHANGED <<sessions, handlers, locals, disk, promised, unfiled, named, disturbed>>
  PROVE  Filed'
<1>1. \A s \in Requests :
        /\ Closing(s)' <=> Closing(s)
        /\ Copying(s)' <=> Copying(s)
        /\ Owns(s)' <=> Owns(s)
  BY DEF handlers, locals, Closing, Copying, Owns, InTurn, IsPrompt
<1>2. ASSUME NEW s \in Requests
      PROVE  /\ CloserDisturbs(s)' /\ CopierApart(s)'
             /\ OwnerCopies(s)' /\ ReaderKnows(s)'
  <2>1. /\ CloserDisturbs(s) /\ CopierApart(s) /\ OwnerCopies(s) /\ ReaderKnows(s)
    BY DEF Filed, HandlersFile
  <2> QED
    BY <1>1, <2>1 DEF CloserDisturbs, CopierApart, OwnerCopies, ReaderKnows, sessions,
       handlers, locals
<1>3. ObjectsKeep' /\ FilesKeep' /\ OrphansFiled' /\ UnnamedUnpromised'
  BY DEF Filed, ObjectsKeep, FilesKeep, OrphansFiled, UnnamedUnpromised, Undisturbed, Settled,
     sessions, locals
<1> QED
  BY <1>2, <1>3 DEF Filed, HandlersFile

(* A turn gives its session a transcript that has all that is promised, and  *)
(* goes on to save it.                                                     *)
LEMMA TextKeepsFiled ==
  ASSUME IInv, Filed, NEW r \in InTurn, NEW text,
         messages' = [messages EXCEPT ![held[r]] = text],
         copy'[r] = text, held' = held, pc'[r] = "open", after'[r] \in {"done", "running"},
         pc[r] # "write", UNCHANGED <<registry, home, handlers, disk, unfiled, named, disturbed>>,
         \A s \in Requests \ {r} : SameLocals(s),
         \A i \in Ids : promised'[i] \subseteq promised[i],
         home[held[r]] \notin disturbed => promised'[home[held[r]]] \subseteq ToSet(text)
  PROVE  Filed'
<1> DEFINE o == held[r]
           i == home[o]
<1>1. r \in Requests /\ Owns(r) /\ HandlersFile
  BY DEF Owns, InTurn, Filed
<1>2. /\ o \in Objects /\ i \in Ids /\ i # None /\ i \in named
      /\ DOMAIN messages = Objects
  BY <1>1, OwnerHolds DEF IInv, TypeOK
<1>3. messages'[o] = text /\ \A p \in Objects : p # o => messages'[p] = messages[p]
  BY <1>2
<1>4. ASSUME NEW s \in Requests, s # r
      PROVE  /\ CloserDisturbs(s)' /\ CopierApart(s)'
             /\ OwnerCopies(s)' /\ ReaderKnows(s)'
  <2>1. SameLocals(s) /\ kind' = kind /\ target' = target
    BY <1>4 DEF handlers
  <2>2. /\ Closing(s)' <=> Closing(s)
        /\ Copying(s)' <=> Copying(s)
        /\ Owns(s)' <=> Owns(s)
    BY <2>1, SameLocalsSame
  <2>3. /\ CloserDisturbs(s) /\ CopierApart(s) /\ OwnerCopies(s) /\ ReaderKnows(s)
    BY <1>1 DEF HandlersFile
  <2>4. CloserDisturbs(s)'
    BY <2>1, <2>2, <2>3 DEF CloserDisturbs, SameLocals
  <2>5. CopierApart(s)'
    <3>1. ASSUME NEW q \in Requests
          PROVE  /\ pc[q] = "idle" => pc'[q] = "idle"
                 /\ Copying(q)' => Copying(q)
      <4>1. CASE q = r
        BY <4>1 DEF InTurn, Copying
      <4>2. CASE q # r
        BY <2>1, <4>2, SameLocalsSame DEF SameLocals
      <4> QED
        BY <4>1, <4>2
    <3> QED
      BY <2>1, <2>2, <2>3, <3>1 DEF CopierApart
  <2>6. OwnerCopies(s)'
    <3> SUFFICES ASSUME Owns(s), home[held[s]] \notin disturbed
                 PROVE  /\ pc[s] # "claimed" => promised'[home[held[s]]] \subseteq ToSet(copy[s])
                        /\ pc[s] \in {"open", "write"} => copy[s] = messages'[held[s]]
                        /\ pc[s] = "write" => disk[home[held[s]]] = Empty
      BY <2>1, <2>2 DEF OwnerCopies, SameLocals
    <3>1. held[s] \in Objects /\ home[held[s]] \in Ids
      BY <1>1, OwnerHolds
    <3>2. held[s] # o
      BY <1>1, <1>4, OneOwner
    <3>3. messages'[held[s]] = messages[held[s]]
      BY <1>3, <3>1, <3>2
    <3> QED
      BY <2>3, <3>1, <3>3 DEF OwnerCopies
  <2>7. ReaderKnows(s)'
    <3>1. pc[s] = "read" => target[s] \in Ids
      BY DEF IInv, HandlersHold, TypeOK
    <3> QED
      BY <2>1, <2>3, <3>1 DEF ReaderKnows, SameLocals
  <2> QED
    BY <2>4, <2>5, <2>6, <2>7
<1>5. /\ CloserDisturbs(r)' /\ CopierApart(r)' /\ ReaderKnows(r)'
  BY DEF CloserDisturbs, Closing, CopierApart, Copying, ReaderKnows
<1>6. OwnerCopies(r)'
  BY <1>3 DEF OwnerCopies
<1>7. HandlersFile'
  BY <1>1, <1>4, <1>5, <1>6 DEF HandlersFile
<1>8. ObjectsKeep'
  <2> SUFFICES ASSUME NEW p \in Objects, home[p] \in Undisturbed
               PROVE  /\ registry[home[p]] = p
                      /\ promised'[home[p]] \subseteq ToSet(messages'[p])
    BY DEF ObjectsKeep, Undisturbed
  <2>1. registry[home[p]] = p /\ promised[home[p]] \subseteq ToSet(messages[p])
    BY DEF Filed, ObjectsKeep
  <2>2. CASE p = o
    BY <1>3, <2>1, <2>2 DEF Undisturbed
  <2>3. CASE p # o
    BY <1>3, <2>1, <2>3 DEF Undisturbed
  <2> QED
    BY <2>2, <2>3
<1>9. FilesKeep'
  <2>1. \A j \in Undisturbed : promised'[j] \subseteq promised[j] /\ (Settled(j)' => Settled(j))
    BY <1>1, SettledBefore DEF Undisturbed
  <2> QED
    BY <2>1 DEF Filed, FilesKeep, Undisturbed
<1>10. UnnamedUnpromised' /\ OrphansFiled'
  BY DEF Filed, UnnamedUnpromised, OrphansFiled
<1> QED
  BY <1>7, <1>8, <1>9, <1>10 DEF Filed

(* The file is opened: whatever it held is gone until it is written.        *)
LEMMA SaveOpenKeepsFiled ==
  ASSUME IInv, Filed, NEW r \in Requests, SaveOpen(r)
  PROVE  Filed'
<1> DEFINE i == home[held[r]]
<1> USE DEF IInv
<1>1. /\ pc[r] = "open" /\ pc' = [pc EXCEPT ![r] = "write"]
      /\ disk' = [disk EXCEPT ![i] = Empty]
      /\ UNCHANGED <<sessions, handlers, held, copy, after, promised, unfiled, disturbed, named>>
      /\ pc \in [Requests -> Steps] /\ DOMAIN disk = Ids
  BY DEF SaveOpen, Goto, process, history, TypeOK
<1>2. /\ \A s \in Requests : s # r => pc'[s] = pc[s]
      /\ pc'[r] = "write"
      /\ \A j \in Ids : disk'[j] = IF j = i THEN Empty ELSE disk[j]
  BY <1>1
<1>3. \A s \in Requests :
        /\ Closing(s)' <=> Closing(s)
        /\ Copying(s)' <=> Copying(s)
        /\ Owns(s)' <=> Owns(s)
  BY <1>1, <1>2 DEF Closing, Copying, Owns, InTurn, IsPrompt, handlers
<1>4. HandlersFile
  BY DEF Filed
<1>5. Empty.state = "empty"
  BY DEF Empty
<1>6. ASSUME NEW s \in Requests PROVE CloserDisturbs(s)' /\ ReaderKnows(s)'
  <2>1. CloserDisturbs(s) /\ ReaderKnows(s)
    BY <1>4 DEF HandlersFile
  <2>2. /\ pc'[s] = "remove" <=> pc[s] = "remove"
        /\ pc'[s] = "read" <=> pc[s] = "read"
    BY <1>1, <1>2
  <2> QED
    BY <1>1, <1>3, <2>1, <2>2 DEF CloserDisturbs, ReaderKnows, sessions, handlers
<1>7. ASSUME NEW s \in Requests PROVE CopierApart(s)'
  <2> SUFFICES ASSUME Copying(s)
               PROVE  /\ kind[s] = "fork" /\ held[s] \in Ids \ disturbed /\ home[held[s]] = held[s]
                      /\ disk'[held[s]].state \in {"absent", "empty"}
                      /\ \A q \in Requests : /\ pc'[q] # "idle" => target[q] # held[s]
                                             /\ Copying(q)' /\ held[q] = held[s] => q = s
    BY <1>1, <1>3 DEF CopierApart, sessions, handlers
  <2>1. /\ kind[s] = "fork" /\ held[s] \in Ids \ disturbed /\ home[held[s]] = held[s]
        /\ disk[held[s]].state \in {"absent", "empty"}
        /\ \A q \in Requests : /\ pc[q] # "idle" => target[q] # held[s]
                               /\ Copying(q) /\ held[q] = held[s] => q = s
    BY <1>4 DEF HandlersFile, CopierApart
  <2>2. \A q \in Requests : pc'[q] = "idle" <=> pc[q] = "idle"
    BY <1>1, <1>2
  <2> QED
    BY <1>2, <1>3, <1>5, <2>1, <2>2
<1>8. ASSUME NEW s \in Requests PROVE OwnerCopies(s)'
  <2> SUFFICES ASSUME Owns(s), home[held[s]] \notin disturbed
               PROVE  /\ pc'[s] # "claimed" => promised[home[held[s]]] \subseteq ToSet(copy[s])
                      /\ pc'[s] \in {"open", "write"} => copy[s] = messages[held[s]]
                      /\ pc'[s] = "write" => disk'[home[held[s]]] = Empty
    BY <1>1, <1>3 DEF OwnerCopies, sessions
  <2>1. home[held[s]] \in Ids
    BY <1>4, OwnerHolds
  <2>2. OwnerCopies(s)
    BY <1>4 DEF HandlersFile
  <2>3. CASE s = r
    BY <1>1, <1>2, <2>1, <2>2, <2>3 DEF OwnerCopies
  <2>4. CASE s # r
    <3>1. home[held[s]] # i
      <4> SUFFICES ASSUME home[held[s]] = i PROVE FALSE
        OBVIOUS
      <4>1. Owns(r)
        BY <1>1, <1>4, SaverIs
      <4> QED
        BY <1>4, <2>4, <4>1, OneOwner
    <3> QED
      BY <1>2, <2>1, <2>2, <2>4, <3>1 DEF OwnerCopies
  <2> QED
    BY <2>3, <2>4
<1>9. ObjectsKeep' /\ OrphansFiled' /\ UnnamedUnpromised'
  BY <1>1 DEF Filed, ObjectsKeep, OrphansFiled, UnnamedUnpromised, Undisturbed, sessions
<1>10. FilesKeep'
  <2>1. ASSUME NEW j \in Ids, Settled(j)' PROVE j # i /\ Settled(j)
    BY <1>1, <1>2, <2>1 DEF Settled, sessions
  <2> QED
    BY <1>1, <1>2, <2>1 DEF Filed, FilesKeep, Undisturbed
<1> QED
  BY <1>6, <1>7, <1>8, <1>9, <1>10 DEF Filed, HandlersFile

(* An emptied file takes the whole of what is written.                      *)
LEMMA OutcomeOfEmpty ==
  ASSUME NEW text \in Seq(Requests), NEW file \in Outcomes(Empty, text)
  PROVE  file = Whole(text)
<1>1. Empty.state # "garbled" /\ Empty.text = <<>>
  BY DEF Empty
<1>2. IsPrefix(<<>>, text)
  BY DEF IsPrefix
<1> QED
  BY <1>1, <1>2 DEF Outcomes

(* The save ends.  A session whose file somebody else had open at the same   *)
(* time is disturbed, so the file holds what the session holds, or the save  *)
(* has failed and what the file lacks is known to be unfiled.               *)
LEMMA SaveEndsKeepsFiled ==
  ASSUME IInv, Filed, NEW r \in Requests, SaveEnds(r)
  PROVE  Filed'
<1> DEFINE i == home[held[r]]
<1> USE DEF IInv
<1>1. HandlersFile /\ pc[r] \in {"open", "write"}
  BY SaveEndsSo DEF Filed
<1>2. /\ Owns(r) \/ Closing(r)
      /\ i \notin disturbed => Owns(r)
      /\ held[r] \in Objects
  BY <1>1, SaverIs
<1>3. /\ pc \in [Requests -> Steps] /\ copy \in [Requests -> Seq(Requests)]
      /\ after[r] \in {"done", "running", "remove", "opened"}
      /\ promised \in [Ids -> SUBSET Requests] /\ DOMAIN disk = Ids
  BY DEF TypeOK
<1>4. /\ pc' = [pc EXCEPT ![r] = after[r]]
      /\ UNCHANGED <<sessions, handlers, held, after, disturbed, named>>
      /\ copy' = [copy EXCEPT ![r] = IF after[r] = "running" THEN Append(@, r) ELSE @]
      /\ promised' = [promised EXCEPT ![i] = @ \cup AtStake(r)]
  BY SaveEndsSo DEF AfterSave, Goto
<1>5. AtStake(r) \subseteq ToSet(copy[r])
  BY DEF AtStake
<1>6. /\ \A s \in Requests : s # r => SameLocals(s)
      /\ pc'[r] = after[r]
      /\ copy'[r] = IF after[r] = "running" THEN Append(copy[r], r) ELSE copy[r]
      /\ \A j \in Ids : j # i => /\ disk'[j] = disk[j] /\ promised'[j] = promised[j]
                                /\ unfiled'[j] = unfiled[j]
  BY <1>3, <1>4, SaveEndsSo DEF SameLocals
<1>7. i \in Ids /\ i \in named
  <2>1. CASE Owns(r)
    BY <1>1, <2>1, OwnerHolds
  <2>2. CASE Closing(r)
    <3>1. i = target[r] /\ target[r] \in named
      BY <1>1, <2>2 DEF HandlersFile, CloserDisturbs, HandlersHold
    <3> QED
      BY <3>1 DEF TypeOK
  <2> QED
    BY <1>2, <2>1, <2>2
<1>8. ASSUME i \notin disturbed
      PROVE  /\ pc[r] = "write" => disk[i] = Empty
             /\ copy[r] = messages[held[r]]
             /\ promised'[i] \subseteq ToSet(copy[r])
             /\ promised'[i] \subseteq ToSet(copy'[r])
  <2>1. OwnerCopies(r) /\ Owns(r)
    BY <1>1, <1>2, <1>8 DEF HandlersFile
  <2>2. /\ pc[r] = "write" => disk[i] = Empty
        /\ copy[r] = messages[held[r]]
        /\ promised[i] \subseteq ToSet(copy[r])
    BY <1>1, <1>8, <2>1 DEF OwnerCopies
  <2>3. copy[r] \in Seq(Requests)
    BY <1>3
  <2>4. promised'[i] \subseteq ToSet(copy[r])
    BY <1>3, <1>4, <1>5, <1>7, <2>2
  <2>5. ToSet(copy[r]) \subseteq ToSet(copy'[r])
    <3>1. CASE after[r] = "running"
      <4>1. copy'[r] = Append(copy[r], r)
        BY <1>6, <3>1
      <4> QED
        BY <2>3, <4>1, StoredOneMore DEF ToSet
    <3>2. CASE after[r] # "running"
      BY <1>6, <3>2
    <3> QED
      BY <3>1, <3>2
  <2> QED
    BY <2>2, <2>4, <2>5
<1>9. ASSUME NEW s \in Requests, s # r
      PROVE  /\ CloserDisturbs(s)' /\ CopierApart(s)'
             /\ OwnerCopies(s)' /\ ReaderKnows(s)'
  <2>1. SameLocals(s) /\ kind' = kind /\ target' = target
    BY <1>4, <1>6, <1>9 DEF handlers
  <2>2. /\ Closing(s)' <=> Closing(s)
        /\ Copying(s)' <=> Copying(s)
        /\ Owns(s)' <=> Owns(s)
    BY <2>1, SameLocalsSame
  <2>3. /\ CloserDisturbs(s) /\ CopierApart(s) /\ OwnerCopies(s) /\ ReaderKnows(s)
    BY <1>1 DEF HandlersFile
  <2>4. ASSUME Owns(s), home[held[s]] \notin disturbed
        PROVE  home[held[s]] \in Ids /\ home[held[s]] # i
    <3>1. home[held[s]] \in Ids
      BY <1>1, <2>4, OwnerHolds
    <3>2. home[held[s]] # i
      BY <1>1, <1>2, <1>9, <2>4, OneOwner
    <3> QED
      BY <3>1, <3>2
  <2>5. CloserDisturbs(s)'
    BY <1>4, <2>1, <2>2, <2>3 DEF CloserDisturbs, SameLocals, sessions
  <2>6. CopierApart(s)'
    <3> SUFFICES ASSUME Copying(s)
                 PROVE  /\ kind[s] = "fork" /\ held[s] \in Ids \ disturbed /\ home[held[s]] = held[s]
                        /\ disk'[held[s]].state \in {"absent", "empty"}
                        /\ \A q \in Requests : /\ pc'[q] # "idle" => target[q] # held[s]
                                               /\ Copying(q)' /\ held[q] = held[s] => q = s
      BY <1>4, <2>1, <2>2 DEF CopierApart, sessions
    <3>1. /\ kind[s] = "fork" /\ held[s] \in Ids \ disturbed /\ home[held[s]] = held[s]
          /\ disk[held[s]].state \in {"absent", "empty"}
          /\ \A q \in Requests : /\ pc[q] # "idle" => target[q] # held[s]
                                 /\ Copying(q) /\ held[q] = held[s] => q = s
      BY <2>3 DEF CopierApart
    <3>2. held[s] # i
      BY <2>4, <3>1 DEF Owns
    <3>3. ASSUME NEW q \in Requests
          PROVE  /\ pc[q] = "idle" => pc'[q] = "idle"
                 /\ Copying(q)' => Copying(q)
      <4>1. CASE q = r
        BY <1>1, <1>3, <1>6, <4>1 DEF Copying
      <4>2. CASE q # r
        BY <1>6, <2>1, <4>2, SameLocalsSame DEF SameLocals
      <4> QED
        BY <4>1, <4>2
    <3> QED
      BY <1>6, <3>1, <3>2, <3>3
  <2>7. OwnerCopies(s)'
    <3> SUFFICES ASSUME Owns(s), home[held[s]] \notin disturbed
                 PROVE  /\ pc[s] # "claimed" => promised'[home[held[s]]] \subseteq ToSet(copy[s])
                        /\ pc[s] \in {"open", "write"} => copy[s] = messages[held[s]]
                        /\ pc[s] = "write" => disk'[home[held[s]]] = Empty
      BY <1>4, <2>1, <2>2 DEF OwnerCopies, SameLocals, sessions
    <3> QED
      BY <1>6, <2>3, <2>4 DEF OwnerCopies
  <2>8. ReaderKnows(s)'
    <3> SUFFICES ASSUME pc[s] = "read", target[s] \notin disturbed,
                        \A p \in Objects : home[p] # target[s]
                 PROVE  promised'[target[s]] \subseteq ToSet(copy[s])
      BY <1>4, <2>1 DEF ReaderKnows, SameLocals, sessions
    <3>1. target[s] # i /\ target[s] \in Ids
      BY <1>2 DEF HandlersHold, TypeOK
    <3> QED
      BY <1>6, <2>3, <3>1 DEF ReaderKnows
  <2> QED
    BY <2>5, <2>6, <2>7, <2>8
<1>10. CloserDisturbs(r)'
  <2> SUFFICES ASSUME Closing(r)'
               PROVE  target[r] \in disturbed /\ pc'[r] = "remove"
    BY <1>4 DEF CloserDisturbs, handlers
  <2>1. pc'[r] = "remove" /\ after[r] = "remove"
    BY <1>3, <1>6 DEF Closing
  <2>2. Closing(r)
    BY <1>1, <2>1 DEF Closing
  <2> QED
    BY <1>1, <2>1, <2>2 DEF HandlersFile, CloserDisturbs
<1>11. CopierApart(r)' /\ ReaderKnows(r)'
  BY <1>3, <1>6 DEF CopierApart, Copying, ReaderKnows
<1>12. OwnerCopies(r)'
  <2>1. pc'[r] \notin {"claimed", "open", "write"}
    BY <1>3, <1>6
  <2>2. i \notin disturbed => promised'[i] \subseteq ToSet(copy'[r])
    BY <1>8
  <2> QED
    BY <1>4, <2>1, <2>2 DEF OwnerCopies, sessions
<1>13. ObjectsKeep'
  <2> SUFFICES ASSUME NEW p \in Objects, home[p] \in Undisturbed
               PROVE  /\ registry[home[p]] = p
                      /\ promised'[home[p]] \subseteq ToSet(messages[p])
    BY <1>4 DEF ObjectsKeep, Undisturbed, sessions
  <2>1. /\ registry[home[p]] = p /\ promised[home[p]] \subseteq ToSet(messages[p])
        /\ home[p] \in Ids /\ home[p] \notin disturbed
    BY DEF Filed, ObjectsKeep, Undisturbed
  <2>2. CASE home[p] = i
    <3>1. p = held[r]
      BY <1>2, <1>7, <2>1, <2>2, NamesDiffer DEF ObjectsHaveIds
    <3> QED
      BY <1>8, <2>1, <2>2, <3>1
  <2>3. CASE home[p] # i
    BY <1>6, <2>1, <2>3
  <2> QED
    BY <2>2, <2>3
<1>14. FilesKeep'
  <2> SUFFICES ASSUME NEW j \in Undisturbed, Settled(j)'
               PROVE  promised'[j] \ unfiled'[j] \subseteq ToSet(disk'[j].text)
    BY <1>4 DEF FilesKeep, Undisturbed
  <2>1. j # i \/ pc[r] # "write" => Settled(j)
    BY <1>4, <1>6 DEF Settled, SameLocals, sessions
  <2>2. Settled(j) => promised[j] \ unfiled[j] \subseteq ToSet(disk[j].text)
    BY DEF Filed, FilesKeep
  <2>3. CASE j # i
    BY <1>6, <2>1, <2>2, <2>3 DEF Undisturbed
  <2>4. CASE j = i
    <3> DEFINE kept == promised'[i] \ unfiled'[i]
    <3>1. /\ promised'[i] = promised[i] \cup AtStake(r) /\ unfiled \in [Ids -> SUBSET Requests]
          /\ promised'[i] \subseteq ToSet(copy[r]) /\ (pc[r] = "write" => disk[i] = Empty)
      BY <1>3, <1>4, <1>7, <1>8, <2>4 DEF Undisturbed, TypeOK
    <3>2. CASE SaveCannotOpen(r)
      <4>1. /\ unfiled'[i] = unfiled[i] \cup AtStake(r) /\ disk' = disk
            /\ pc[r] = "open"
        BY <1>7, <3>1, <3>2 DEF SaveCannotOpen
      <4> QED
        BY <2>1, <2>2, <2>4, <3>1, <4>1
    <3>3. CASE SaveWrite(r)
      <4>1. PICK file \in Outcomes(disk[i], copy[r]) : disk' = [disk EXCEPT ![i] = file]
        BY <3>3 DEF SaveWrite
      <4>2. disk[i] = Empty /\ copy[r] \in Seq(Requests)
        BY <1>3, <3>1, <3>3 DEF SaveWrite
      <4>3. disk'[i] = Whole(copy[r])
        BY <1>3, <1>7, <4>1, <4>2, OutcomeOfEmpty
      <4> QED
        BY <2>4, <3>1, <4>3 DEF Whole
    <3>4. CASE SaveCannotWrite(r)
      <4>1. unfiled'[i] = promised'[i]
        BY <1>7, <3>1, <3>4 DEF SaveCannotWrite
      <4> QED
        BY <2>4, <4>1
    <3> QED
      BY <3>2, <3>3, <3>4 DEF SaveEnds
  <2> QED
    BY <2>3, <2>4
<1>15. UnnamedUnpromised' /\ OrphansFiled'
  BY <1>2, <1>4, <1>6, <1>7 DEF Filed, UnnamedUnpromised, OrphansFiled, sessions
<1> QED
  BY <1>9, <1>10, <1>11, <1>12, <1>13, <1>14, <1>15 DEF Filed, HandlersFile

(* The registry forgets a session that is closed.                           *)
LEMMA RemoveKeepsFiled ==
  ASSUME IInv, Filed, NEW r \in Requests, CloseRemoves(r)
  PROVE  Filed'
<1> USE DEF IInv
<1>1. /\ pc[r] = "remove" /\ pc' = [pc EXCEPT ![r] = "done"]
      /\ registry' = [registry EXCEPT ![target[r]] = None]
      /\ UNCHANGED <<home, messages, disk, handlers, held, copy, after, promised, unfiled,
                     disturbed, named>>
      /\ pc \in [Requests -> Steps] /\ DOMAIN registry = Ids
  BY DEF CloseRemoves, Goto, process, history, TypeOK
<1>2. /\ \A s \in Requests : s # r => SameLocals(s)
      /\ pc'[r] = "done" /\ kind' = kind /\ target' = target
  BY <1>1 DEF SameLocals, handlers
<1>3. HandlersFile /\ target[r] \in disturbed
  BY <1>1 DEF Filed, HandlersFile, CloserDisturbs, Closing
<1>4. \A s \in Requests :
        /\ Closing(s)' => Closing(s)
        /\ Copying(s)' <=> Copying(s)
        /\ Owns(s)' <=> Owns(s)
  BY <1>1, <1>2, SameLocalsSame DEF Closing, Copying, Owns, InTurn
<1>5. ASSUME NEW s \in Requests
      PROVE  /\ CloserDisturbs(s)' /\ CopierApart(s)'
             /\ OwnerCopies(s)' /\ ReaderKnows(s)'
  <2>1. /\ CloserDisturbs(s) /\ CopierApart(s) /\ OwnerCopies(s) /\ ReaderKnows(s)
    BY <1>3 DEF HandlersFile
  <2>2. /\ pc'[s] = pc[s] \/ (s = r /\ pc'[s] = "done" /\ pc[s] = "remove")
        /\ \A q \in Requests : pc[q] = "idle" => pc'[q] = "idle"
    BY <1>1, <1>2 DEF SameLocals
  <2>3. CloserDisturbs(s)'
    <3>1. CASE s = r
      BY <1>2, <3>1 DEF CloserDisturbs, Closing
    <3>2. CASE s # r
      BY <1>1, <1>2, <1>4, <2>1, <3>2 DEF CloserDisturbs, SameLocals
    <3> QED
      BY <3>1, <3>2
  <2>4. CopierApart(s)'
    BY <1>1, <1>2, <1>4, <2>1, <2>2 DEF CopierApart
  <2>5. OwnerCopies(s)'
    <3>1. Owns(s) => s # r
      BY <1>1 DEF Owns, Copying, InTurn
    <3> QED
      BY <1>1, <1>2, <1>4, <2>1, <3>1 DEF OwnerCopies, SameLocals
  <2>6. ReaderKnows(s)'
    BY <1>1, <1>2, <2>1, <2>2 DEF ReaderKnows
  <2> QED
    BY <2>3, <2>4, <2>5, <2>6
<1>6. ObjectsKeep'
  BY <1>1, <1>3 DEF Filed, ObjectsKeep, Undisturbed
<1>7. FilesKeep' /\ OrphansFiled' /\ UnnamedUnpromised'
  <2>1. \A i \in Ids : Settled(i)' => Settled(i)
    BY <1>1, <1>2, SettledBefore
  <2> QED
    BY <1>1, <2>1 DEF Filed, FilesKeep, OrphansFiled, UnnamedUnpromised, Undisturbed
<1> QED
  BY <1>5, <1>6, <1>7 DEF Filed, HandlersFile

(* A new object is registered with a transcript that has all that is promised *)
(* of its id; an id that has another object is disturbed by it.             *)
LEMMA RegisterKeepsFiled ==
  ASSUME IInv, Filed, NEW o \in Objects, NEW i \in Ids, NEW text, Register(o, i, text),
         home[o] = None, i \in named', named \subseteq named',
         UNCHANGED <<disk, handlers, promised, unfiled>>,
         disturbed \subseteq disturbed', disturbed' \subseteq disturbed \cup {i},
         (\E p \in Objects : home[p] = i) => i \in disturbed',
         i \notin disturbed' => promised[i] \subseteq ToSet(text),
         \A s \in Requests : Copying(s) => held[s] # i,
         NEW Moved \in SUBSET Requests,
         \A s \in Requests \ Moved : SameLocals(s),
         \A s \in Moved : /\ pc[s] \notin {"idle", "write"} /\ (Copying(s)' => held'[s] = i)
                          /\ CloserDisturbs(s)' /\ CopierApart(s)'
                          /\ OwnerCopies(s)' /\ ReaderKnows(s)'
  PROVE  Filed'
<1> USE DEF IInv
<1>1. /\ home' = [home EXCEPT ![o] = i] /\ registry' = [registry EXCEPT ![i] = o]
      /\ messages' = [messages EXCEPT ![o] = text]
      /\ home \in [Objects -> Ids \cup {None}] /\ registry \in [Ids -> Objects \cup {None}]
      /\ messages \in [Objects -> Seq(Requests)]
  BY DEF Register, TypeOK
<1>2. /\ home'[o] = i /\ messages'[o] = text /\ registry'[i] = o
      /\ \A p \in Objects : p # o => home'[p] = home[p] /\ messages'[p] = messages[p]
      /\ \A j \in Ids : j # i => registry'[j] = registry[j]
  BY <1>1
<1>3. HandlersFile /\ kind' = kind /\ target' = target
  BY DEF Filed, handlers
<1>4. ASSUME NEW s \in Requests \ Moved
      PROVE  /\ CloserDisturbs(s)' /\ CopierApart(s)'
             /\ OwnerCopies(s)' /\ ReaderKnows(s)'
  <2>1. s \in Requests /\ SameLocals(s)
    OBVIOUS
  <2>2. /\ Closing(s)' <=> Closing(s)
        /\ Copying(s)' <=> Copying(s)
        /\ Owns(s)' <=> Owns(s)
    BY <1>3, <2>1, SameLocalsSame
  <2>3. /\ CloserDisturbs(s) /\ CopierApart(s) /\ OwnerCopies(s) /\ ReaderKnows(s)
    BY <1>3, <2>1 DEF HandlersFile
  <2>4. CloserDisturbs(s)'
    <3> SUFFICES ASSUME Closing(s)
                 PROVE  /\ target[s] \in disturbed'
                        /\ pc[s] # "remove" => home'[held[s]] = target[s]
      BY <1>3, <2>1, <2>2 DEF CloserDisturbs, SameLocals
    <3>1. /\ target[s] \in disturbed
          /\ pc[s] # "remove" => home[held[s]] = target[s]
      BY <2>3 DEF CloserDisturbs
    <3>2. ASSUME pc[s] # "remove" PROVE held[s] \in Objects
      BY <2>1, <3>2 DEF Closing, HandlersHold, Begun
    <3>3. disturbed \subseteq Ids
      BY DEF TypeOK
    <3> QED
      BY <1>2, <3>1, <3>2, <3>3, NamesDiffer
  <2>5. CopierApart(s)'
    <3> SUFFICES ASSUME Copying(s)
                 PROVE  /\ kind[s] = "fork" /\ held[s] \in Ids \ disturbed' /\ home'[held[s]] = held[s]
                        /\ disk[held[s]].state \in {"absent", "empty"}
                        /\ \A q \in Requests : /\ pc'[q] # "idle" => target[q] # held[s]
                                               /\ Copying(q)' /\ held'[q] = held[s] => q = s
      BY <1>3, <2>1, <2>2 DEF CopierApart, SameLocals
    <3>1. /\ kind[s] = "fork" /\ held[s] \in Ids \ disturbed /\ home[held[s]] = held[s]
          /\ disk[held[s]].state \in {"absent", "empty"}
          /\ \A q \in Requests : /\ pc[q] # "idle" => target[q] # held[s]
                                 /\ Copying(q) /\ held[q] = held[s] => q = s
      BY <2>3 DEF CopierApart
    <3>2. held[s] # i
      BY <2>1
    <3>3. held[s] \in Ids \ disturbed'
      BY <3>1, <3>2
    <3>4. home'[held[s]] = held[s]
      <4>1. held[s] \in Objects /\ held[s] # o
        BY <3>1, NamesDiffer DEF Objects
      <4> QED
        BY <1>2, <3>1, <4>1
    <3>5. ASSUME NEW q \in Requests
          PROVE  /\ pc'[q] # "idle" => target[q] # held[s]
                 /\ Copying(q)' /\ held'[q] = held[s] => q = s
      <4>1. CASE q \in Moved
        BY <3>1, <3>2, <4>1
      <4>2. CASE q \notin Moved
        <5>1. SameLocals(q)
          BY <4>2
        <5>2. Copying(q)' <=> Copying(q)
          BY <1>3, <5>1, SameLocalsSame
        <5> QED
          BY <3>1, <5>1, <5>2 DEF SameLocals
      <4> QED
        BY <4>1, <4>2
    <3> QED
      BY <3>1, <3>3, <3>4, <3>5
  <2>6. OwnerCopies(s)'
    <3> SUFFICES ASSUME Owns(s), home'[held[s]] \notin disturbed'
                 PROVE  /\ pc[s] # "claimed" => promised'[home'[held[s]]] \subseteq ToSet(copy[s])
                        /\ pc[s] \in {"open", "write"} => copy[s] = messages'[held[s]]
                        /\ pc[s] = "write" => disk[home'[held[s]]] = Empty
      BY <2>1, <2>2 DEF OwnerCopies, SameLocals
    <3>1. held[s] \in Objects /\ home[held[s]] \in Ids /\ home[held[s]] # None
      BY <1>3, <2>1, OwnerHolds
    <3>2. held[s] # o
      BY <3>1
    <3>3. home'[held[s]] = home[held[s]] /\ messages'[held[s]] = messages[held[s]]
      BY <1>2, <3>1, <3>2
    <3>4. home[held[s]] # i /\ home[held[s]] \notin disturbed
      BY <3>1, <3>3
    <3>5. promised'[home[held[s]]] = promised[home[held[s]]]
      BY <3>1, <3>4
    <3> QED
      BY <2>3, <3>3, <3>4, <3>5 DEF OwnerCopies
  <2>7. ReaderKnows(s)'
    <3> SUFFICES ASSUME pc[s] = "read", target[s] \notin disturbed',
                        \A p \in Objects : home'[p] # target[s]
                 PROVE  promised'[target[s]] \subseteq ToSet(copy[s])
      BY <1>3, <2>1 DEF ReaderKnows, SameLocals
    <3>1. target[s] \in Ids /\ target[s] # None
      BY <2>1, NamesDiffer DEF HandlersHold, TypeOK
    <3>2. target[s] # i
      BY <1>2
    <3>3. \A p \in Objects : home[p] # target[s]
      BY <1>2, <3>1
    <3>4. target[s] \notin disturbed
      OBVIOUS
    <3> QED
      BY <2>3, <3>1, <3>2, <3>3, <3>4 DEF ReaderKnows
  <2> QED
    BY <2>4, <2>5, <2>6, <2>7
<1>5. HandlersFile'
  BY <1>4 DEF HandlersFile
<1>6. ObjectsKeep'
  <2> SUFFICES ASSUME NEW p \in Objects, home'[p] \in Ids \ disturbed'
               PROVE  /\ registry'[home'[p]] = p
                      /\ promised'[home'[p]] \subseteq ToSet(messages'[p])
    BY DEF ObjectsKeep, Undisturbed
  <2>1. CASE p = o
    BY <1>2, <2>1
  <2>2. CASE p # o
    <3>1. home'[p] = home[p] /\ home[p] # i /\ home[p] \in Undisturbed
      BY <1>2, <2>2 DEF Undisturbed
    <3>2. registry[home[p]] = p /\ promised[home[p]] \subseteq ToSet(messages[p])
      BY <3>1 DEF Filed, ObjectsKeep
    <3> QED
      BY <1>2, <2>2, <3>1, <3>2 DEF Undisturbed
  <2> QED
    BY <2>1, <2>2
<1>7. FilesKeep'
  <2>1. ASSUME NEW j \in Ids, Settled(j)', NEW s \in Requests, pc[s] = "write"
        PROVE  home[held[s]] # j
    <3>1. SameLocals(s) /\ held[s] \in Objects
      BY <2>1 DEF HandlersHold, Begun
    <3>2. home'[held[s]] # j
      BY <2>1, <3>1 DEF Settled, SameLocals
    <3> QED
      BY <1>2, <3>1, <3>2, NamesDiffer
  <2>2. \A j \in Ids : Settled(j)' => Settled(j)
    BY <2>1 DEF Settled
  <2> QED
    BY <2>2 DEF Filed, FilesKeep, Undisturbed
<1>8. OrphansFiled'
  <2>1. \A j \in Ids : (\A p \in Objects : home'[p] # j) => \A p \in Objects : home[p] # j
    BY <1>2, NamesDiffer
  <2> QED
    BY <2>1 DEF Filed, OrphansFiled
<1>9. UnnamedUnpromised'
  BY DEF Filed, UnnamedUnpromised
<1> QED
  BY <1>5, <1>6, <1>7, <1>8, <1>9 DEF Filed

(* No object, file or message has an id that has not been handed out.       *)
LEMMA UnnamedIsNew ==
  ASSUME IInv, Filed, NEW i \in Ids, i \notin named
  PROVE  /\ i \in Objects /\ home[i] = None /\ \A o \in Objects : home[o] # i
         /\ disk[i].state = "absent" /\ promised[i] = {} /\ i \notin disturbed
         /\ \A s \in Requests : /\ pc[s] # "idle" => target[s] # i
                                /\ Copying(s) => held[s] # i
<1>1. i \in Objects
  BY DEF Objects
<1>2. ASSUME NEW s \in Requests, Copying(s) PROVE held[s] # i
  <2>1. held[s] \in Ids /\ home[held[s]] = held[s]
    BY <1>2 DEF Filed, HandlersFile, CopierApart
  <2> QED
    BY <2>1, NamesDiffer DEF IInv, ObjectsHaveIds, Objects
<1> QED
  BY <1>1, <1>2, NamesDiffer DEF IInv, ObjectsHaveIds, HandlersHold, Filed, UnnamedUnpromised

LEMMA NewKeepsFiled ==
  ASSUME IInv, Filed, NEW i \in Ids, NewSession(i)
  PROVE  Filed'
<1>1. i \notin named /\ named' = named \cup {i} /\ Register(i, i, <<>>)
  BY DEF NewSession, Unnamed
<1>2. UNCHANGED <<handlers, locals, disk, promised, unfiled, disturbed>>
  BY DEF NewSession, history
<1>3. \A s \in Requests \ {} : SameLocals(s)
  BY <1>2 DEF locals, SameLocals
<1>4. /\ i \in Objects /\ home[i] = None /\ \A o \in Objects : home[o] # i
      /\ promised[i] = {} /\ \A s \in Requests : Copying(s) => held[s] # i
  BY <1>1, UnnamedIsNew
<1>5. {} \in SUBSET Requests
  OBVIOUS
<1> QED
  BY <1>1, <1>2, <1>3, <1>4, <1>5, RegisterKeepsFiled

LEMMA InsertKeepsFiled ==
  ASSUME IInv, Filed, NEW r \in Requests, ReopenInsert(r)
  PROVE  Filed'
<1> DEFINE i == target[r]
<1> USE DEF IInv
<1>1. /\ pc[r] = "read" /\ pc' = [pc EXCEPT ![r] = "opened"] /\ Register(r, i, copy[r])
      /\ held' = [held EXCEPT ![r] = r]
      /\ disturbed' = IF \E o \in Objects : home[o] = i THEN disturbed \cup {i} ELSE disturbed
      /\ UNCHANGED <<disk, handlers, copy, after, named, promised, unfiled>>
      /\ pc \in [Requests -> Steps] /\ held \in [Requests -> Objects \cup {None}]
  BY DEF ReopenInsert, Goto, process, TypeOK
<1>2. r \in Objects /\ i \in Ids /\ i \in named
  BY <1>1 DEF Objects, HandlersHold, TypeOK
<1>3. home[r] = None
  BY <1>1 DEF ObjectsHaveIds, Unread
<1>4. HandlersFile
  BY DEF Filed
<1>5. i \notin disturbed' => promised[i] \subseteq ToSet(copy[r])
  BY <1>1, <1>4 DEF HandlersFile, ReaderKnows
<1>6. \A s \in Requests : Copying(s) => held[s] # i
  BY <1>1, <1>4 DEF HandlersFile, CopierApart
<1>7. \A s \in Requests \ {r} : SameLocals(s)
  BY <1>1 DEF SameLocals
<1>8. /\ ~Closing(r)' /\ ~Copying(r)' /\ ~Owns(r)' /\ pc'[r] = "opened"
  BY <1>1 DEF Closing, Copying, Owns, InTurn
<1>9. CloserDisturbs(r)' /\ CopierApart(r)' /\ OwnerCopies(r)' /\ ReaderKnows(r)'
  BY <1>8 DEF CloserDisturbs, CopierApart, OwnerCopies, ReaderKnows
<1>10. /\ disturbed \subseteq disturbed' /\ disturbed' \subseteq disturbed \cup {i}
       /\ (\E p \in Objects : home[p] = i) => i \in disturbed'
  BY <1>1
<1>11. {r} \in SUBSET Requests
  OBVIOUS
<1> HIDE DEF i, IInv
<1> QED
  BY <1>1, <1>2, <1>3, <1>5, <1>6, <1>7, <1>8, <1>9, <1>10, <1>11, RegisterKeepsFiled

LEMMA ForkKeepsFiled ==
  ASSUME IInv, Filed, NEW r \in Requests, NEW i \in Ids, Fork(r, i)
  PROVE  Filed'
<1> DEFINE text == messages[held[r]]
<1> USE DEF IInv
<1>1. /\ pc[r] = "opened" /\ pc' = [pc EXCEPT ![r] = "open"] /\ Register(i, i, text)
      /\ kind[r] = "fork" /\ i \notin named /\ named' = named \cup {i}
      /\ held' = [held EXCEPT ![r] = i] /\ copy' = [copy EXCEPT ![r] = text]
      /\ after' = [after EXCEPT ![r] = "opened"]
      /\ UNCHANGED <<disk, handlers, promised, unfiled, disturbed>>
      /\ pc \in [Requests -> Steps] /\ held \in [Requests -> Objects \cup {None}]
      /\ copy \in [Requests -> Seq(Requests)]
      /\ DOMAIN after = Requests /\ DOMAIN home = Objects /\ DOMAIN messages = Objects
  BY DEF Fork, Goto, Unnamed, history, TypeOK
<1>2. /\ i \in Objects /\ home[i] = None /\ \A o \in Objects : home[o] # i
      /\ disk[i].state = "absent" /\ promised[i] = {} /\ i \notin disturbed
      /\ \A s \in Requests : /\ pc[s] # "idle" => target[s] # i
                             /\ Copying(s) => held[s] # i
  BY <1>1, UnnamedIsNew
<1>3. /\ pc'[r] = "open" /\ held'[r] = i /\ copy'[r] = text /\ after'[r] = "opened"
      /\ home'[i] = i /\ messages'[i] = text
      /\ kind' = kind /\ target' = target
  BY <1>1, <1>2 DEF Register, handlers
<1>4. \A s \in Requests \ {r} : SameLocals(s)
  BY <1>1 DEF SameLocals
<1>5. CopierApart(r)'
  <2> SUFFICES ASSUME NEW q \in Requests
               PROVE  /\ pc'[q] # "idle" => target[q] # i
                      /\ Copying(q)' /\ held'[q] = i => q = r
    BY <1>1, <1>2, <1>3 DEF CopierApart
  <2>1. pc'[q] # "idle" => target[q] # i
    BY <1>1, <1>2
  <2>2. ASSUME q # r PROVE Copying(q)' /\ held'[q] = i => q = r
    <3>1. SameLocals(q) /\ (Copying(q)' <=> Copying(q))
      BY <1>3, <1>4, <2>2, SameLocalsSame
    <3> QED
      BY <1>2, <3>1 DEF SameLocals
  <2> QED
    BY <2>1, <2>2
<1>6. CloserDisturbs(r)' /\ ReaderKnows(r)'
  BY <1>3 DEF CloserDisturbs, Closing, ReaderKnows
<1>7. OwnerCopies(r)'
  BY <1>1, <1>2, <1>3 DEF OwnerCopies
<1>8. \A s \in Requests : Copying(s) => held[s] # i
  BY <1>2
<1>9. {r} \in SUBSET Requests
  OBVIOUS
<1>10. /\ named \subseteq named' /\ i \in named' /\ Register(i, i, text)
       /\ i \in Objects /\ home[i] = None
       /\ disturbed \subseteq disturbed' /\ disturbed' \subseteq disturbed \cup {i}
       /\ (\E p \in Objects : home[p] = i) => i \in disturbed'
       /\ promised[i] \subseteq ToSet(text) /\ UNCHANGED <<disk, handlers, promised, unfiled>>
  BY <1>1, <1>2
<1>11. \A s \in {r} : /\ pc[s] \notin {"idle", "write"} /\ (Copying(s)' => held'[s] = i)
                       /\ CloserDisturbs(s)' /\ CopierApart(s)'
                       /\ OwnerCopies(s)' /\ ReaderKnows(s)'
  <2>1. pc[r] \notin {"idle", "write"} /\ (Copying(r)' => held'[r] = i)
    BY <1>1, <1>3
  <2> QED
    BY <1>5, <1>6, <1>7, <2>1
<1> HIDE DEF text, IInv
<1> QED
  BY <1>4, <1>8, <1>9, <1>10, <1>11, RegisterKeepsFiled

(* A message comes in: its handler has done nothing yet, and the session a     *)
(* fork still saves is not known to the editor.                             *)
LEMMA ReceiveKeepsFiled ==
  ASSUME IInv, Filed, NEW k \in Kinds, NEW i \in Ids, Receive(k, i)
  PROVE  Filed'
<1> USE DEF IInv
<1>1. PICK n \in Requests : n = received + 1
  BY NamesDiffer, AcpAssumption DEF Receive, TypeOK
<1>2. /\ kind' = [kind EXCEPT ![n] = k] /\ target' = [target EXCEPT ![n] = i]
      /\ pc' = [pc EXCEPT ![n] = "start"] /\ Known(i)
      /\ UNCHANGED <<sessions, disk, held, copy, after, named, promised, unfiled, disturbed>>
      /\ pc \in [Requests -> Steps] /\ DOMAIN kind = Requests /\ DOMAIN target = Requests
  BY <1>1 DEF Receive, process, history, TypeOK
<1>3. /\ pc'[n] = "start" /\ target'[n] = i
      /\ \A s \in Requests : s # n => SameLocals(s) /\ kind'[s] = kind[s] /\ target'[s] = target[s]
  BY <1>1, <1>2 DEF SameLocals
<1>4. HandlersFile
  BY DEF Filed
<1>5. /\ ~Closing(n)' /\ ~Copying(n)' /\ ~Owns(n)'
  BY <1>3 DEF Closing, Copying, Owns, InTurn
<1>6. ASSUME NEW s \in Requests, Copying(s) PROVE held[s] # i
  <2>1. /\ disk[held[s]].state \in {"absent", "empty"} /\ kind[s] = "fork"
        /\ target[s] # held[s] /\ pc[s] # "done"
    BY <1>4, <1>6 DEF HandlersFile, CopierApart, Copying
  <2> QED
    BY <1>2, <2>1 DEF Known, Untold
<1>7. ASSUME NEW s \in Requests, s # n
      PROVE  /\ CloserDisturbs(s)' /\ CopierApart(s)'
             /\ OwnerCopies(s)' /\ ReaderKnows(s)'
  <2>1. SameLocals(s) /\ kind'[s] = kind[s] /\ target'[s] = target[s]
    BY <1>3, <1>7
  <2>2. /\ Closing(s)' <=> Closing(s)
        /\ Copying(s)' <=> Copying(s)
        /\ Owns(s)' <=> Owns(s)
    BY <2>1, SameLocalsSame
  <2>3. /\ CloserDisturbs(s) /\ CopierApart(s) /\ OwnerCopies(s) /\ ReaderKnows(s)
    BY <1>4 DEF HandlersFile
  <2>4. CloserDisturbs(s)' /\ OwnerCopies(s)' /\ ReaderKnows(s)'
    BY <1>2, <2>1, <2>2, <2>3 DEF CloserDisturbs, OwnerCopies, ReaderKnows, SameLocals, sessions
  <2>5. CopierApart(s)'
    <3>1. ASSUME NEW q \in Requests, Copying(s)
          PROVE  /\ pc'[q] # "idle" => target'[q] # held[s]
                 /\ Copying(q)' /\ held'[q] = held[s] => q = s
      <4>1. CASE q = n
        BY <1>3, <1>5, <1>6, <3>1, <4>1
      <4>2. CASE q # n
        <5>1. SameLocals(q) /\ target'[q] = target[q] /\ (Copying(q)' <=> Copying(q))
          BY <1>3, <4>2, SameLocalsSame
        <5> QED
          BY <2>3, <3>1, <5>1 DEF CopierApart, SameLocals
      <4> QED
        BY <4>1, <4>2
    <3> QED
      BY <1>2, <2>1, <2>2, <2>3, <3>1 DEF CopierApart, SameLocals, sessions
  <2> QED
    BY <2>4, <2>5
<1>8. CloserDisturbs(n)' /\ CopierApart(n)' /\ OwnerCopies(n)' /\ ReaderKnows(n)'
  BY <1>3, <1>5 DEF CloserDisturbs, CopierApart, OwnerCopies, ReaderKnows
<1>9. HandlersFile'
  BY <1>7, <1>8 DEF HandlersFile
<1>10. ObjectsKeep' /\ OrphansFiled' /\ UnnamedUnpromised'
  BY <1>2 DEF Filed, ObjectsKeep, OrphansFiled, UnnamedUnpromised, Undisturbed, sessions
<1>11. FilesKeep'
  <2>1. pc[n] # "write"
    <3>1. received \in Nat /\ n > received
      BY <1>1, AcpAssumption DEF TypeOK
    <3> QED
      BY <3>1 DEF HandlersHold
  <2>2. \A s \in Requests \ {n} : SameLocals(s)
    BY <1>3
  <2>3. UNCHANGED home
    BY <1>2 DEF sessions
  <2>4. \A j \in Ids : Settled(j)' => Settled(j)
    BY <2>1, <2>2, <2>3, SettledBefore
  <2> QED
    BY <1>2, <2>4 DEF Filed, FilesKeep, Undisturbed
<1> QED
  BY <1>9, <1>10, <1>11 DEF Filed

(* A restart leaves the files, nobody who could hold less, and of the        *)
(* promises what is on file.                                               *)
LEMMA CrashKeepsFiled ==
  ASSUME IInv, Filed, Crash
  PROVE  Filed'
<1>1. /\ \A s \in Requests : pc'[s] \in {"idle", "done"}
      /\ \A o \in Objects : home'[o] = None
      /\ UNCHANGED <<disk, named, disturbed>>
      /\ \A i \in Ids : /\ unfiled'[i] = {} /\ promised'[i] \subseteq promised[i]
                        /\ i \in HalfWritten => promised'[i] = {}
                        /\ promised'[i] \subseteq promised[i] \ unfiled[i]
  BY DEF Crash
<1>2. \A s \in Requests : ~Closing(s)' /\ ~Copying(s)' /\ ~Owns(s)'
  BY <1>1 DEF Closing, Copying, Owns, InTurn
<1>3. HandlersFile'
  BY <1>1, <1>2 DEF HandlersFile, CloserDisturbs, CopierApart, OwnerCopies, ReaderKnows
<1>4. ObjectsKeep'
  BY <1>1, NamesDiffer DEF ObjectsKeep, Undisturbed
<1>5. OrphansFiled' /\ UnnamedUnpromised'
  BY <1>1 DEF Filed, OrphansFiled, UnnamedUnpromised
<1>6. FilesKeep'
  <2>1. \A i \in Ids : i \notin HalfWritten => Settled(i)
    BY DEF HalfWritten, Settled
  <2> QED
    BY <1>1, <2>1 DEF Filed, FilesKeep, Undisturbed
<1> QED
  BY <1>3, <1>4, <1>5, <1>6 DEF Filed

(* The handler of r moves, and what it did not know before it need not know   *)
(* now.                                                                    *)
LEMMA StepKeepsFiled ==
  ASSUME IInv, Filed, NEW r \in Requests, pc[r] \notin {"idle", "write"},
         NEW to \in Steps, Goto(r, to),
         to \notin {"open", "write", "remove", "cancelled", "read"},
         to \in {"running", "blocked"} => r \in InTurn /\ pc[r] # "claimed",
         \A s \in Requests \ {r} : held'[s] = held[s],
         to # "claimed" => held' = held,
         UNCHANGED <<sessions, handlers, disk, promised, unfiled, named, disturbed, copy, after>>
  PROVE  Filed'
<1>1. pc' = [pc EXCEPT ![r] = to] /\ pc \in [Requests -> Steps]
  BY DEF Goto, IInv, TypeOK
<1>2. \A s \in Requests \ {r} : SameLocals(s)
  BY <1>1 DEF SameLocals
<1>3. ~Closing(r)' /\ ~Copying(r)' /\ CloserDisturbs(r)' /\ ReaderKnows(r)'
  BY <1>1 DEF Closing, Copying, CloserDisturbs, ReaderKnows
<1>4. OwnerCopies(r)'
  <2> SUFFICES ASSUME Owns(r)', to # "claimed", home[held[r]] \notin disturbed
               PROVE  promised[home[held[r]]] \subseteq ToSet(copy[r])
    BY <1>1 DEF OwnerCopies, sessions
  <2>1. Owns(r) /\ pc[r] # "claimed"
    BY <1>1, <1>3 DEF Owns, InTurn
  <2> QED
    BY <2>1 DEF Filed, HandlersFile, OwnerCopies
<1> QED
  BY <1>2, <1>3, <1>4, MoveKeepsFiled

LEMMA TurnKeepsFiled ==
  ASSUME IInv, Filed, NEW r \in Requests,
         StartQuery(r) \/ RunCommand(r) \/ QueryReturns(r)
  PROVE  Filed'
<1> USE DEF IInv
<1>1. r \in InTurn /\ Owns(r) /\ HandlersFile /\ pc[r] \in {"claimed", "running"}
  BY DEF StartQuery, RunCommand, QueryReturns, InTurn, HandlersHold, Owns, Filed
<1>2. /\ held[r] \in Objects /\ home[held[r]] \in Ids
  BY <1>1, OwnerHolds
<1>3. /\ pc \in [Requests -> Steps] /\ messages \in [Objects -> Seq(Requests)]
      /\ copy \in [Requests -> Seq(Requests)] /\ DOMAIN promised = Ids
      /\ DOMAIN after = Requests /\ messages[held[r]] \in Seq(Requests)
  BY <1>2 DEF TypeOK
<1>4. home[held[r]] \notin disturbed =>
        promised[home[held[r]]] \subseteq ToSet(messages[held[r]])
  BY <1>2 DEF Filed, ObjectsKeep, Undisturbed
<1>5. CASE StartQuery(r)
  <2>1. /\ copy' = [copy EXCEPT ![r] = Append(messages[held[r]], r)]
        /\ pc' = [pc EXCEPT ![r] = "running"]
        /\ UNCHANGED <<sessions, handlers, disk, promised, unfiled, named, disturbed, held, after>>
    BY <1>5 DEF StartQuery, Goto, process, history
  <2>2. ToSet(messages[held[r]]) \subseteq ToSet(copy'[r])
    <3>1. copy'[r] = Append(messages[held[r]], r)
      BY <1>3, <2>1
    <3>2. ASSUME NEW e \in ToSet(messages[held[r]]) PROVE e \in ToSet(copy'[r])
      <4>1. PICK n \in 1 .. Len(messages[held[r]]) : messages[held[r]][n] = e
        BY SMTT(20) DEF ToSet
      <4>2. n \in 1 .. Len(copy'[r]) /\ copy'[r][n] = e
        BY <1>3, <3>1, <4>1, AppendProperties
      <4> QED
        BY <4>2 DEF ToSet
    <3> QED
      BY <3>2
  <2>3. \A s \in Requests \ {r} : SameLocals(s)
    BY <1>3, <2>1 DEF SameLocals
  <2>4. ~Copying(r)' /\ CloserDisturbs(r)' /\ ReaderKnows(r)'
    BY <1>3, <2>1 DEF Copying, CloserDisturbs, Closing, ReaderKnows
  <2>5. OwnerCopies(r)'
    BY <1>3, <1>4, <2>1, <2>2 DEF OwnerCopies, sessions
  <2> QED
    BY <1>1, <2>1, <2>3, <2>4, <2>5, MoveKeepsFiled
<1>6. CASE RunCommand(r)
  <2>1. PICK text, dropped, next :
          /\ Leave(r, text, dropped, next) /\ next \in {"done", "running"}
          /\ ToSet(messages[held[r]]) \ dropped \subseteq ToSet(text)
    BY <1>3, <1>6, CommandLeaves
  <2>2. /\ messages' = [messages EXCEPT ![held[r]] = text]
        /\ copy' = [copy EXCEPT ![r] = text] /\ pc' = [pc EXCEPT ![r] = "open"]
        /\ after' = [after EXCEPT ![r] = next]
        /\ promised' = [promised EXCEPT ![home[held[r]]] = @ \ dropped]
        /\ UNCHANGED <<registry, home, handlers, disk, unfiled, named, disturbed, held>>
    BY <1>6, <2>1 DEF RunCommand, Leave, Goto, process
  <2>3. home[held[r]] \notin disturbed => promised'[home[held[r]]] \subseteq ToSet(text)
    <3>1. promised'[home[held[r]]] = promised[home[held[r]]] \ dropped
      BY <1>2, <1>3, <2>2
    <3> QED
      BY <1>4, <2>1, <3>1
  <2>4. \A i \in Ids : promised'[i] \subseteq promised[i]
    BY <1>3, <2>2
  <2>5. \A s \in Requests \ {r} : SameLocals(s)
    BY <1>3, <2>2 DEF SameLocals
  <2>6. copy'[r] = text /\ pc'[r] = "open" /\ after'[r] \in {"done", "running"}
    BY <1>3, <2>1, <2>2
  <2> QED
    BY <1>1, <2>2, <2>3, <2>4, <2>5, <2>6, TextKeepsFiled
<1>7. CASE QueryReturns(r)
  <2>1. /\ messages' = [messages EXCEPT ![held[r]] = copy[r]]
        /\ pc' = [pc EXCEPT ![r] = "open"] /\ after' = [after EXCEPT ![r] = "done"]
        /\ UNCHANGED <<registry, home, handlers, disk, unfiled, named, disturbed, held, copy,
                       promised>>
        /\ pc[r] = "running"
    BY <1>7 DEF QueryReturns, Goto, process, history
  <2>2. home[held[r]] \notin disturbed => promised'[home[held[r]]] \subseteq ToSet(copy[r])
    BY <1>1, <2>1 DEF HandlersFile, OwnerCopies
  <2>3. \A s \in Requests \ {r} : SameLocals(s)
    BY <1>3, <2>1 DEF SameLocals
  <2>4. copy'[r] = copy[r] /\ pc'[r] = "open" /\ after'[r] \in {"done", "running"}
    BY <1>3, <2>1
  <2>5. \A i \in Ids : promised'[i] \subseteq promised[i]
    BY <2>1
  <2> QED
    BY <1>1, <2>1, <2>2, <2>3, <2>4, <2>5, TextKeepsFiled
<1> QED
  BY <1>5, <1>6, <1>7

LEMMA CloseKeepsFiled ==
  ASSUME IInv, Filed, NEW r \in Requests, CloseCancels(r) \/ CloseSnapshot(r)
  PROVE  Filed'
<1> USE DEF IInv
<1>1. /\ pc \in [Requests -> Steps] /\ held \in [Requests -> Objects \cup {None}]
      /\ DOMAIN copy = Requests /\ DOMAIN after = Requests
  BY DEF TypeOK
<1>2. CASE CloseCancels(r)
  <2>1. /\ pc[r] = "start" /\ kind[r] = "close" /\ registry[target[r]] # None
        /\ disturbed' = disturbed \cup {target[r]}
        /\ held' = [held EXCEPT ![r] = registry[target[r]]]
        /\ pc' = [pc EXCEPT ![r] = "cancelled"]
        /\ UNCHANGED <<sessions, handlers, disk, promised, unfiled, named, copy, after>>
    BY <1>2 DEF CloseCancels, Goto, process
  <2>2. target[r] \in Ids
    BY <2>1 DEF HandlersHold, TypeOK
  <2>3. home[held'[r]] = target[r]
    BY <1>1, <2>1, <2>2 DEF ObjectsHaveIds
  <2>4. \A s \in Requests \ {r} : SameLocals(s)
    BY <1>1, <2>1 DEF SameLocals
  <2>5. CloserDisturbs(r)'
    BY <2>1, <2>3 DEF CloserDisturbs, sessions, handlers
  <2>6. ~Copying(r)' /\ OwnerCopies(r)' /\ ReaderKnows(r)'
    BY <1>1, <2>1 DEF Copying, OwnerCopies, Owns, InTurn, ReaderKnows
  <2>7. pc[r] \notin {"idle", "write"} /\ disturbed \subseteq disturbed'
    BY <2>1
  <2> QED
    BY <2>1, <2>4, <2>5, <2>6, <2>7, MoveKeepsFiled
<1>3. CASE CloseSnapshot(r)
  <2>1. /\ pc[r] = "cancelled" /\ pc' = [pc EXCEPT ![r] = "open"]
        /\ copy' = [copy EXCEPT ![r] = messages[held[r]]]
        /\ after' = [after EXCEPT ![r] = "remove"]
        /\ UNCHANGED <<sessions, handlers, disk, promised, unfiled, named, disturbed, held>>
    BY <1>3 DEF CloseSnapshot, Goto, process, history
  <2>2. ~IsPrompt(r)
    BY <2>1 DEF HandlersHold
  <2>3. \A s \in Requests \ {r} : SameLocals(s)
    BY <1>1, <2>1 DEF SameLocals
  <2>4. target[r] \in disturbed /\ home[held[r]] = target[r]
    BY <2>1 DEF Filed, HandlersFile, CloserDisturbs, Closing
  <2>5. CloserDisturbs(r)'
    BY <2>1, <2>4 DEF CloserDisturbs, sessions, handlers
  <2>6. ~Copying(r)' /\ ReaderKnows(r)'
    BY <1>1, <2>1 DEF Copying, ReaderKnows
  <2>7. OwnerCopies(r)'
    BY <2>1, <2>2, <2>6 DEF OwnerCopies, Owns, InTurn, IsPrompt, handlers
  <2> QED
    BY <2>1, <2>3, <2>5, <2>6, <2>7, MoveKeepsFiled
<1> QED
  BY <1>2, <1>3

(* The file of a session that nobody has has all that was promised of it.    *)
LEMMA ReadKeepsFiled ==
  ASSUME IInv, Filed, NEW r \in Requests, ReopenRead(r)
  PROVE  Filed'
<1> USE DEF IInv
<1>1. /\ pc \in [Requests -> Steps] /\ DOMAIN copy = Requests
      /\ pc[r] = "reading"
      /\ pc' = [pc EXCEPT ![r] = IF disk[target[r]].state = "whole" THEN "read" ELSE "done"]
      /\ copy' = [copy EXCEPT ![r] = disk[target[r]].text]
      /\ UNCHANGED <<sessions, handlers, disk, promised, unfiled, named, disturbed, held, after>>
  BY DEF ReopenRead, Goto, process, history, TypeOK
<1>2. target[r] \in Ids
  BY <1>1 DEF HandlersHold, TypeOK
<1>3. \A s \in Requests \ {r} : SameLocals(s)
  BY <1>1 DEF SameLocals
<1>4. pc'[r] \in {"read", "done"} /\ copy'[r] = disk[target[r]].text
      /\ (pc'[r] = "read" => disk[target[r]].state = "whole")
  BY <1>1
<1>5. ~Copying(r)' /\ CloserDisturbs(r)' /\ OwnerCopies(r)'
  BY <1>4 DEF Copying, CloserDisturbs, Closing, OwnerCopies, Owns, InTurn
<1>6. ReaderKnows(r)'
  <2> SUFFICES ASSUME target[r] \notin disturbed, \A o \in Objects : home[o] # target[r]
               PROVE  promised[target[r]] \subseteq ToSet(disk[target[r]].text)
    BY <1>1, <1>4 DEF ReaderKnows, sessions, handlers
  <2>1. Settled(target[r])
    BY DEF Settled, HandlersHold, Begun
  <2>2. unfiled[target[r]] = {}
    BY <1>2 DEF Filed, OrphansFiled
  <2> QED
    BY <1>2, <2>1, <2>2 DEF Filed, FilesKeep, Undisturbed
<1> QED
  BY <1>1, <1>3, <1>5, <1>6, MoveKeepsFiled

LEMMA InitFiled == Init => Filed
<1> SUFFICES ASSUME Init PROVE Filed
  OBVIOUS
<1>1. /\ \A r \in Requests : pc[r] = "idle"
      /\ \A o \in Objects : home[o] = None
      /\ \A i \in Ids : disk[i].state = "absent" /\ promised[i] = {} /\ unfiled[i] = {}
      /\ disturbed = {}
  BY DEF Init, Absent
<1>2. HandlersFile
  BY <1>1 DEF HandlersFile, CloserDisturbs, Closing, CopierApart, Copying, OwnerCopies, Owns,
     InTurn, ReaderKnows
<1>3. ObjectsKeep
  BY <1>1, NamesDiffer DEF ObjectsKeep, Undisturbed
<1> QED
  BY <1>1, <1>2, <1>3 DEF Filed, FilesKeep, OrphansFiled, Undisturbed, UnnamedUnpromised

LEMMA FiledKept == IInv /\ Filed /\ [Next]_vars => Filed'
<1> SUFFICES ASSUME IInv, Filed, [Next]_vars PROVE Filed'
  OBVIOUS
<1> USE DEF IInv
<1>1. ASSUME NEW r \in Requests, Handler(r) PROVE Filed'
  <2>1. CASE PromptRefused(r) \/ PromptEmpty(r) \/ CancelRuns(r) \/ CloseRefused(r)
               \/ ReopenMissed(r) \/ ReopenAnswers(r)
    <3>1. /\ pc[r] \notin {"idle", "write"}
          /\ UNCHANGED <<sessions, handlers, disk, promised, unfiled, named, disturbed, held, copy, after>>
      BY <2>1 DEF PromptRefused, PromptEmpty, CancelRuns, CloseRefused, ReopenMissed,
         ReopenAnswers, process, history
    <3>2. PICK to \in {"done", "reading"} : Goto(r, to)
      BY <2>1 DEF PromptRefused, PromptEmpty, CancelRuns, CloseRefused, ReopenMissed,
         ReopenAnswers, Answered
    <3> QED
      BY <3>1, <3>2, StepKeepsFiled DEF Steps
  <2>2. CASE BeginTurn(r) \/ ReopenLive(r)
    <3>1. /\ pc[r] \notin {"idle", "write"} /\ held' = [held EXCEPT ![r] = registry[target[r]]]
          /\ UNCHANGED <<sessions, handlers, disk, promised, unfiled, named, disturbed, copy, after>>
      BY <2>2 DEF BeginTurn, ReopenLive, process, history
    <3>2. \A s \in Requests \ {r} : SameLocals(s)
      BY <2>2, <3>1 DEF SameLocals, BeginTurn, ReopenLive, Goto, TypeOK
    <3>3. pc'[r] \in {"claimed", "opened"}
      BY <2>2 DEF BeginTurn, ReopenLive, Goto, TypeOK
    <3>4. (pc'[r] = "opened" => ~Owns(r)') /\ ~Copying(r)'
      BY <3>3 DEF Owns, Copying, InTurn
    <3>5. CloserDisturbs(r)' /\ OwnerCopies(r)' /\ ReaderKnows(r)'
      BY <3>3, <3>4 DEF CloserDisturbs, Closing, OwnerCopies, ReaderKnows
    <3> QED
      BY <3>1, <3>2, <3>4, <3>5, MoveKeepsFiled
  <2>3. CASE StartQuery(r) \/ RunCommand(r) \/ QueryReturns(r)
    BY <2>3, TurnKeepsFiled
  <2>4. CASE TurnAsks(r) \/ DrainUnheard(r)
    <3>1. /\ pc[r] \in {"running", "blocked"} /\ r \in InTurn
          /\ UNCHANGED <<sessions, handlers, disk, promised, unfiled, named, disturbed, held, copy, after>>
      BY <2>4 DEF TurnAsks, DrainUnheard, process, history, InTurn, HandlersHold
    <3>2. PICK to \in {"running", "blocked"} : Goto(r, to)
      BY <2>4, <3>1 DEF TurnAsks, DrainUnheard, Goto, TypeOK
    <3> QED
      BY <3>1, <3>2, StepKeepsFiled DEF Steps
  <2>5. CASE Drain(r)
    BY <2>5, StillFiled DEF Drain, process, history
  <2>6. CASE CloseCancels(r) \/ CloseSnapshot(r)
    BY <2>6, CloseKeepsFiled
  <2> QED
    BY <1>1, <2>1, <2>2, <2>3, <2>4, <2>5, <2>6, SaveOpenKeepsFiled, SaveEndsKeepsFiled,
       RemoveKeepsFiled, ReadKeepsFiled, InsertKeepsFiled, ForkKeepsFiled DEF Handler, SaveEnds
<1>2. ASSUME NEW r \in Requests, AgentAsks(r) PROVE Filed'
  BY <1>2, StillFiled DEF AgentAsks, process, history
<1>3. CASE Eof \/ UNCHANGED vars
  BY <1>3, StillFiled DEF Eof, vars, history, process
<1>4. ASSUME NEW q \in Askers, ClientAnswers(q) PROVE Filed'
  <2>1. PICK r \in Requests : q = <<r, "turn">> \/ q = <<r, "agent">>
    BY DEF Askers
  <2>2. UNCHANGED <<sessions, handlers, disk, promised, unfiled, named, disturbed, held, copy, after>>
    BY <1>4 DEF ClientAnswers, process, history
  <2>3. CASE q = <<r, "turn">>
    <3>1. q[1] = r /\ q[2] = "turn" /\ q \in forwarded /\ Goto(r, "running")
      BY <1>4, <2>3 DEF ClientAnswers
    <3>2. pc[r] = "blocked"
      BY <2>3, <3>1 DEF TurnsAsk
    <3>3. r \in InTurn
      BY <3>2 DEF InTurn, HandlersHold
    <3> QED
      BY <2>2, <3>1, <3>2, <3>3, StepKeepsFiled DEF Steps
  <2>4. CASE q = <<r, "agent">>
    <3>1. UNCHANGED locals
      BY <1>4, <2>4 DEF ClientAnswers, locals
    <3> QED
      BY <2>2, <3>1, StillFiled
  <2> QED
    BY <2>1, <2>3, <2>4
<1> QED
  BY <1>1, <1>2, <1>3, <1>4, NewKeepsFiled, ReceiveKeepsFiled, CrashKeepsFiled DEF Next

-----------------------------------------------------------------------------
(* The theorems.                                                           *)

LEMMA TypesKept == IInv /\ [Next]_vars => TypeOK'
  BY PromptStepTypes, SaveStepTypes, CloseStepTypes, ReopenStepTypes, EditorStepTypes
     DEF Next, Handler, SaveEnds

LEMMA Invariance == Spec => []IInv
<1>1. IInv /\ [Next]_vars => IInv'
  BY TypesKept, HandlersHoldKept, TurnsHoldKept, TurnsAskKept, ObjectsHaveIdsKept DEF IInv
<1> QED
  BY InitHolds, <1>1, PTL DEF Spec

(* Every variable keeps to its type.                                       *)
THEOREM TypeCorrect == Spec => []TypeOK
<1>1. IInv => TypeOK
  BY DEF IInv
<1> QED
  BY Invariance, <1>1, PTL

(* A session that has neither been closed nor opened twice runs one turn at   *)
(* a time: its id stands for one object, and an object's token is the token  *)
(* of the one turn that holds it.                                          *)
THEOREM OneTurn == Spec => []OneTurnPerSession
<1>1. IInv => OneTurnPerSession
  <2> SUFFICES ASSUME IInv, NEW r \in InTurn, NEW s \in InTurn, target[r] = target[s],
                      target[r] \in Undisturbed
               PROVE  r = s
    BY DEF OneTurnPerSession
  <2>1. /\ held[r] \in Objects /\ token[held[r]] = r /\ home[held[r]] = target[r]
        /\ held[s] \in Objects /\ token[held[s]] = s /\ home[held[s]] = target[s]
    BY DEF IInv, TurnsHold, ObjectsHaveIds
  <2>2. target[r] # None /\ target[r] \notin disturbed
    BY NamesDiffer DEF Undisturbed
  <2>3. held[r] = held[s]
    BY <2>1, <2>2 DEF IInv, ObjectsHaveIds
  <2> QED
    BY <2>1, <2>3
<1> QED
  BY Invariance, <1>1, PTL

(* The running turns whose token is cancelled are those that a cancel or a   *)
(* close has found running: none is missed and no other is hit, whichever    *)
(* turns of the session came before.                                       *)
THEOREM CancelsReachTurns == Spec => []CancelsReachRunningTurns
<1>1. IInv => CancelsReachRunningTurns
  BY DEF IInv
<1> QED
  BY Invariance, <1>1, PTL

(* A session that has neither been closed nor opened twice has every prompt  *)
(* that was answered, in its transcript and, whenever no write is under way, *)
(* on file, save for those a failed save left out: a turn saves what the     *)
(* session holds and nobody else writes, so the next save that succeeds      *)
(* files those too, and a death of the process takes no prompt that was      *)
(* filed, unless it comes between the emptying of the file and its writing.  *)
THEOREM TurnsFiled == Spec => []UndisturbedTurnsAreFiled
<1>1. Spec => []Filed
  BY InitFiled, FiledKept, Invariance, PTL DEF Spec
<1>2. IInv /\ Filed => UndisturbedTurnsAreFiled
  <2> SUFFICES ASSUME IInv, Filed, NEW i \in Undisturbed
               PROVE  /\ registry[i] # None => promised[i] \subseteq ToSet(messages[registry[i]])
                      /\ i \notin HalfWritten =>
                           promised[i] \ unfiled[i] \subseteq ToSet(disk[i].text)
    BY DEF UndisturbedTurnsAreFiled
  <2>1. ASSUME registry[i] # None PROVE promised[i] \subseteq ToSet(messages[registry[i]])
    <3>1. i \in Ids /\ registry[i] \in Objects /\ home[registry[i]] = i
      BY <2>1 DEF Undisturbed, IInv, TypeOK, ObjectsHaveIds
    <3> QED
      BY <3>1 DEF Filed, ObjectsKeep
  <2>2. i \notin HalfWritten => Settled(i)
    BY DEF HalfWritten, Settled
  <2> QED
    BY <2>1, <2>2 DEF Filed, FilesKeep
<1> QED
  BY <1>1, <1>2, Invariance, PTL

(* Whoever is blocked on a permission, a turn or an agent it left behind,    *)
(* has one request, in one store or with the editor, and nobody else has    *)
(* any: whatever is drained, answered, denied or lost with the process.      *)
THEOREM BlockedHaveAsked == Spec => []BlockedAreAsked
<1>1. Spec => []AskedOnce
  BY InitAskedOnce, AskedOnceKept, Invariance, PTL DEF Spec
<1>2. TypeOK /\ AskedOnce => BlockedAreAsked
  <2> SUFFICES ASSUME TypeOK, AskedOnce, NEW q \in Askers
               PROVE  LET blocked == IF q[2] = "turn" THEN pc[q[1]] = "blocked"
                                     ELSE q[1] \in waiting
                          stored  == Cardinality({at \in Objects \X (1..MaxAsks) :
                                       at[2] <= Len(queue[at[1]]) /\ queue[at[1]][at[2]] = q})
                      IN  stored + (IF q \in forwarded THEN 1 ELSE 0) = IF blocked THEN 1 ELSE 0
    BY Zenon DEF BlockedAreAsked
  <2> DEFINE Slots == {at \in Objects \X (1..MaxAsks) :
                         at[2] <= Len(queue[at[1]]) /\ queue[at[1]][at[2]] = q}
  <2>1. Blocked(q) <=> q \in forwarded \/ \E o \in Objects : InStore(q, o)
    BY DEF AskedOnce
  <2>2. q \in forwarded => \A o \in Objects : ~InStore(q, o)
    BY DEF AskedOnce
  <2>3. ASSUME NEW o \in Objects, InStore(q, o) PROVE Cardinality(Slots) = 1
    <3>1. PICK n \in 1 .. Len(queue[o]) : queue[o][n] = q
      BY <2>3 DEF InStore
    <3>2. queue[o] \in Seq(Askers) /\ asked \in 0 .. MaxAsks /\ MaxAsks \in Nat
      BY AcpAssumption DEF TypeOK
    <3>3. n \in 1 .. MaxAsks /\ n <= Len(queue[o])
      BY <3>2 DEF AskedOnce
    <3>4. <<o, n>> \in Slots
      BY <3>1, <3>3
    <3>5. ASSUME NEW at \in Slots PROVE at = <<o, n>>
      <4>1. PICK p \in Objects, m \in 1 .. MaxAsks : at = <<p, m>>
        OBVIOUS
      <4>2. m \in 1 .. Len(queue[p]) /\ queue[p][m] = q
        BY <4>1
      <4> QED
        BY <3>1, <4>1, <4>2 DEF AskedOnce
    <3>6. Slots = {<<o, n>>}
      BY <3>4, <3>5
    <3> QED
      BY <3>6, FS_Singleton
  <2>4. ASSUME \A o \in Objects : ~InStore(q, o) PROVE Cardinality(Slots) = 0
    <3>1. ASSUME NEW at \in Slots PROVE FALSE
      <4>1. PICK p \in Objects, m \in 1 .. MaxAsks : at = <<p, m>>
        OBVIOUS
      <4>2. m \in 1 .. Len(queue[p]) /\ queue[p][m] = q
        BY <4>1
      <4> QED
        BY <2>4, <4>2 DEF InStore
    <3>2. Slots = {}
      BY <3>1
    <3> QED
      BY <3>2, FS_EmptySet
  <2> HIDE DEF Slots
  <2>5. Cardinality(Slots) + (IF q \in forwarded THEN 1 ELSE 0) = IF Blocked(q) THEN 1 ELSE 0
    BY <2>1, <2>2, <2>3, <2>4
  <2> QED
    BY <2>5 DEF Slots, Blocked
<1>3. IInv => TypeOK
  BY DEF IInv
<1> QED
  BY <1>1, <1>2, <1>3, Invariance, PTL

=============================================================================
