-------------------------- MODULE QueryLoop_proofs --------------------------
(***************************************************************************)
(* Proofs about the query loop, for every value of its constants.          *)
(*                                                                         *)
(* A history is a sequence of well-formed messages.  The sanitiser is      *)
(* followed from one message of its input to the next: what it has emitted *)
(* so far is well paired but for a last message whose answer comes next.   *)
(***************************************************************************)
EXTENDS QueryLoop, SequenceLemmas

-----------------------------------------------------------------------------
(* Messages.                                                                *)

\* What the loop writes into its history: results come from the user's side,
\* and only the model makes calls.
Chat ==
  {m \in Message : /\ m.role = "user" => m.kind \in UserKinds /\ m.uses = {}
                   /\ m.role = "assistant" => m.kind = "reply" /\ Results(m) = {}}

LEMMA ChatIsMessage ==
  ASSUME NEW m \in Chat
  PROVE  /\ m \in Message /\ m.role \in {"user", "assistant"}
         /\ m.uses \subseteq Call /\ m.answers \subseteq Call /\ m.blanks \subseteq Call
         /\ m.role = "user" => m.kind # "reply" /\ m.uses = {}
         /\ m.role = "assistant" => m.kind = "reply" /\ m.answers = {} /\ m.blanks = {}
  BY DEF Chat, Message, UserKinds, Results

LEMMA FromUserIsChat ==
  ASSUME NEW kind \in UserKinds
  PROVE  /\ FromUser(kind) \in Chat /\ ~HasCalls(FromUser(kind)) /\ Results(FromUser(kind)) = {}
         /\ FromUser(kind).uses = {} /\ FromUser(kind).kind = kind
         /\ FromUser(kind).role = "user" /\ FromUser(kind).answers = {}
  BY DEF FromUser, Chat, Message, Results, HasCalls

LEMMA FromModelIsChat ==
  ASSUME NEW calls \in SUBSET Call
  PROVE  /\ FromModel(calls) \in Chat /\ FromModel(calls).uses = calls
  BY DEF FromModel, Chat, Message, Results

\* answer_user_message leaves exactly one result for each of the calls.
LEMMA AnsweringIsChat ==
  ASSUME NEW m \in Chat, m.role = "user", NEW calls \in SUBSET Call
  PROVE  /\ Answering(m, calls) \in Chat
         /\ Answering(m, calls).role = "user" /\ Answering(m, calls).kind = m.kind
         /\ Answering(m, calls).uses = {}
         /\ Answering(m, calls).answers = m.answers \cap calls
         /\ Results(Answering(m, calls)) = calls
<1>1. m \in Message /\ m.kind \in UserKinds /\ m.uses = {}
  BY DEF Chat
<1>2. Answering(m, calls) \in Message
  BY <1>1 DEF Answering, Message, Results
<1>3. /\ Answering(m, calls).role = m.role /\ Answering(m, calls).kind = m.kind
      /\ Answering(m, calls).uses = m.uses
      /\ Answering(m, calls).answers = m.answers \cap calls
      /\ Answering(m, calls).blanks = (m.blanks \cap calls) \cup (calls \ Results(m))
  BY <1>1 DEF Answering, Message
<1>4. Results(Answering(m, calls)) = calls
  BY <1>3 DEF Results
<1>5. QED
  BY <1>1, <1>2, <1>3, <1>4 DEF Chat

\* A user message with its results taken out.
LEMMA StrippedIsChat ==
  ASSUME NEW m \in Chat, m.role = "user"
  PROVE  /\ [m EXCEPT !.answers = {}, !.blanks = {}] \in Chat
         /\ Results([m EXCEPT !.answers = {}, !.blanks = {}]) = {}
         /\ [m EXCEPT !.answers = {}, !.blanks = {}].uses = {}
         /\ ~HasCalls([m EXCEPT !.answers = {}, !.blanks = {}])
  BY DEF Chat, Message, Results, HasCalls

-----------------------------------------------------------------------------
(* Histories that grow by one message.                                      *)

\* A history is in order, but for the calls of its last message when it is open.
Sound(f, open) ==
  /\ \A i \in 1..Len(f) :
       HasCalls(f[i]) => \/ IsAnswered(f, i) /\ Results(f[i + 1]) = f[i].uses
                         \/ open /\ i = Len(f)
  /\ \A i \in 1..Len(f) : Results(f[i]) # {} => IsAnswer(f, i)

\* What a tool had to say about the call c of message i stands behind it.
Reported(f, i, c) ==
  /\ i < Len(f)
  /\ f[i + 1].kind \in {"hook", "cancelled"} \/ c \in f[i + 1].answers

\* Every call of the set R is reported, but for those of an open last message.
Told(f, open, R) ==
  \A i \in 1..Len(f) : \A c \in f[i].uses \cap R : Reported(f, i, c) \/ (open /\ i = Len(f))

\* No call of the history is numbered above n.
Known(f, n) == \A i \in 1..Len(f) : \A c \in f[i].uses : c.n <= n

LEMMA AppendIs ==
  ASSUME NEW f \in Seq(Chat), NEW m \in Chat
  PROVE  /\ Append(f, m) \in Seq(Chat) /\ Len(Append(f, m)) = Len(f) + 1 /\ Len(f) \in Nat
         /\ \A i \in 1..Len(f) : Append(f, m)[i] = f[i]
         /\ Append(f, m)[Len(f) + 1] = m
         /\ \A i \in 1..(Len(f) + 1) : i \in 1..Len(f) \/ i = Len(f) + 1
  BY AppendProperties

\* A message without calls or results closes nothing and opens nothing.
LEMMA SoundPlain ==
  ASSUME NEW f \in Seq(Chat), NEW m \in Chat, Sound(f, FALSE), ~HasCalls(m), Results(m) = {}
  PROVE  Sound(Append(f, m), FALSE)
<1> DEFINE g == Append(f, m)
<1>1. /\ g \in Seq(Chat) /\ Len(g) = Len(f) + 1 /\ Len(f) \in Nat
      /\ \A i \in 1..Len(f) : g[i] = f[i]
      /\ g[Len(f) + 1] = m
      /\ \A i \in 1..Len(g) : i \in 1..Len(f) \/ i = Len(f) + 1
  BY AppendIs
<1> HIDE DEF g
<1>2. ASSUME NEW i \in 1..Len(g), HasCalls(g[i])
      PROVE  IsAnswered(g, i) /\ Results(g[i + 1]) = g[i].uses
  <2>1. i \in 1..Len(f) /\ HasCalls(f[i])
    BY <1>1, <1>2
  <2>2. IsAnswered(f, i) /\ Results(f[i + 1]) = f[i].uses
    BY <2>1 DEF Sound
  <2>3. i + 1 \in 1..Len(f)
    BY <1>1, <2>1, <2>2 DEF IsAnswered
  <2>4. QED
    BY <1>1, <2>1, <2>2, <2>3 DEF IsAnswered
<1>3. ASSUME NEW i \in 1..Len(g), Results(g[i]) # {}
      PROVE  IsAnswer(g, i)
  <2>1. i \in 1..Len(f) /\ Results(f[i]) # {}
    BY <1>1, <1>3
  <2>2. IsAnswer(f, i)
    BY <2>1 DEF Sound
  <2>3. i - 1 \in 1..Len(f)
    BY <1>1, <2>1, <2>2 DEF IsAnswer
  <2>4. QED
    BY <1>1, <2>1, <2>2, <2>3 DEF IsAnswer
<1>4. QED
  BY <1>2, <1>3 DEF Sound, g

\* A message with calls leaves the history open.
LEMMA SoundCalls ==
  ASSUME NEW f \in Seq(Chat), NEW m \in Chat, Sound(f, FALSE), m.role = "assistant"
  PROVE  Sound(Append(f, m), TRUE)
<1> DEFINE g == Append(f, m)
<1>1. /\ g \in Seq(Chat) /\ Len(g) = Len(f) + 1 /\ Len(f) \in Nat
      /\ \A i \in 1..Len(f) : g[i] = f[i]
      /\ g[Len(f) + 1] = m
      /\ \A i \in 1..Len(g) : i \in 1..Len(f) \/ i = Len(f) + 1
  BY AppendIs
<1> HIDE DEF g
<1>2. Results(m) = {}
  BY ChatIsMessage DEF Results
<1>3. ASSUME NEW i \in 1..Len(g), HasCalls(g[i]), i # Len(g)
      PROVE  IsAnswered(g, i) /\ Results(g[i + 1]) = g[i].uses
  <2>1. i \in 1..Len(f) /\ HasCalls(f[i])
    BY <1>1, <1>3
  <2>2. IsAnswered(f, i) /\ Results(f[i + 1]) = f[i].uses
    BY <2>1 DEF Sound
  <2>3. i + 1 \in 1..Len(f)
    BY <1>1, <2>1, <2>2 DEF IsAnswered
  <2>4. QED
    BY <1>1, <2>1, <2>2, <2>3 DEF IsAnswered
<1>4. ASSUME NEW i \in 1..Len(g), Results(g[i]) # {}
      PROVE  IsAnswer(g, i)
  <2>1. i \in 1..Len(f) /\ Results(f[i]) # {}
    BY <1>1, <1>2, <1>4
  <2>2. IsAnswer(f, i)
    BY <2>1 DEF Sound
  <2>3. i - 1 \in 1..Len(f)
    BY <1>1, <2>1, <2>2 DEF IsAnswer
  <2>4. QED
    BY <1>1, <2>1, <2>2, <2>3 DEF IsAnswer
<1>5. QED
  BY <1>3, <1>4 DEF Sound, g

\* An answer to exactly its calls closes an open history.
LEMMA SoundAnswer ==
  ASSUME NEW f \in Seq(Chat), NEW m \in Chat, Sound(f, TRUE), f # <<>>, HasCalls(f[Len(f)]),
         m.role = "user", Results(m) = f[Len(f)].uses
  PROVE  Sound(Append(f, m), FALSE)
<1> DEFINE g == Append(f, m)
<1>1. /\ g \in Seq(Chat) /\ Len(g) = Len(f) + 1 /\ Len(f) \in Nat
      /\ \A i \in 1..Len(f) : g[i] = f[i]
      /\ g[Len(f) + 1] = m
      /\ \A i \in 1..Len(g) : i \in 1..Len(f) \/ i = Len(f) + 1
  BY AppendIs
<1>2. Len(f) \in 1..Len(f) /\ g[Len(f)] = f[Len(f)]
  BY <1>1
<1> HIDE DEF g
<1>3. ~HasCalls(m)
  BY ChatIsMessage DEF HasCalls
<1>4. ASSUME NEW i \in 1..Len(g), HasCalls(g[i])
      PROVE  IsAnswered(g, i) /\ Results(g[i + 1]) = g[i].uses
  <2>1. i \in 1..Len(f) /\ HasCalls(f[i]) /\ g[i] = f[i]
    BY <1>1, <1>3, <1>4
  <2>2. CASE i = Len(f)
    BY <1>1, <1>2, <2>1, <2>2 DEF IsAnswered
  <2>3. CASE i # Len(f)
    <3>1. IsAnswered(f, i) /\ Results(f[i + 1]) = f[i].uses
      BY <2>1, <2>3 DEF Sound
    <3>2. i + 1 \in 1..Len(f)
      BY <1>1, <2>1, <3>1 DEF IsAnswered
    <3>3. QED
      BY <1>1, <2>1, <3>1, <3>2 DEF IsAnswered
  <2>4. QED
    BY <2>2, <2>3
<1>5. ASSUME NEW i \in 1..Len(g), Results(g[i]) # {}
      PROVE  IsAnswer(g, i)
  <2>1. CASE i = Len(f) + 1
    BY <1>1, <1>2, <2>1 DEF IsAnswer
  <2>2. CASE i # Len(f) + 1
    <3>1. i \in 1..Len(f) /\ Results(f[i]) # {}
      BY <1>1, <1>5, <2>2
    <3>2. IsAnswer(f, i)
      BY <3>1 DEF Sound
    <3>3. i - 1 \in 1..Len(f)
      BY <1>1, <3>1, <3>2 DEF IsAnswer
    <3>4. QED
      BY <1>1, <3>1, <3>2, <3>3 DEF IsAnswer
  <2>3. QED
    BY <2>1, <2>2
<1>6. QED
  BY <1>4, <1>5 DEF Sound, g

\* Messages in front of the last keep what stands behind them.
LEMMA ReportedAppend ==
  ASSUME NEW f \in Seq(Chat), NEW m \in Chat, NEW i \in 1..Len(f), NEW c, Reported(f, i, c)
  PROVE  Reported(Append(f, m), i, c)
<1>1. i + 1 \in 1..Len(f)
  BY DEF Reported
<1>2. QED
  BY <1>1, AppendIs DEF Reported

\* A message whose calls are not in R, behind a history that is not open.
LEMMA ToldPlain ==
  ASSUME NEW f \in Seq(Chat), NEW m \in Chat, NEW R, Told(f, FALSE, R), m.uses \cap R = {}
  PROVE  Told(Append(f, m), FALSE, R)
<1> DEFINE g == Append(f, m)
<1>1. ASSUME NEW i \in 1..Len(g), NEW c \in g[i].uses \cap R
      PROVE  Reported(g, i, c)
  <2>1. i \in 1..Len(f) /\ c \in f[i].uses \cap R
    BY <1>1, AppendIs
  <2>2. Reported(f, i, c)
    BY <2>1 DEF Told
  <2>3. QED
    BY <2>1, <2>2, ReportedAppend
<1>2. QED
  BY <1>1 DEF Told

LEMMA ToldCalls ==
  ASSUME NEW f \in Seq(Chat), NEW m \in Chat, NEW R, Told(f, FALSE, R)
  PROVE  Told(Append(f, m), TRUE, R)
<1> DEFINE g == Append(f, m)
<1>1. ASSUME NEW i \in 1..Len(g), NEW c \in g[i].uses \cap R, i # Len(g)
      PROVE  Reported(g, i, c)
  <2>1. i \in 1..Len(f) /\ c \in f[i].uses \cap R
    BY <1>1, AppendIs
  <2>2. Reported(f, i, c)
    BY <2>1 DEF Told
  <2>3. QED
    BY <2>1, <2>2, ReportedAppend
<1>2. QED
  BY <1>1 DEF Told

LEMMA ToldAnswer ==
  ASSUME NEW f \in Seq(Chat), NEW m \in Chat, NEW R, Told(f, TRUE, R), f # <<>>,
         m.uses \cap R = {},
         \A c \in f[Len(f)].uses \cap R : m.kind \in {"hook", "cancelled"} \/ c \in m.answers
  PROVE  Told(Append(f, m), FALSE, R)
<1> DEFINE g == Append(f, m)
<1>1. ASSUME NEW i \in 1..Len(g), NEW c \in g[i].uses \cap R
      PROVE  Reported(g, i, c)
  <2>1. i \in 1..Len(f) /\ c \in f[i].uses \cap R
    BY <1>1, AppendIs
  <2>2. CASE i = Len(f)
    BY <2>1, <2>2, AppendIs DEF Reported
  <2>3. CASE i # Len(f)
    <3>1. Reported(f, i, c)
      BY <2>1, <2>3 DEF Told
    <3>2. QED
      BY <2>1, <3>1, ReportedAppend
  <2>4. QED
    BY <2>2, <2>3
<1>2. QED
  BY <1>1 DEF Told

LEMMA KnownAppend ==
  ASSUME NEW f \in Seq(Chat), NEW m \in Chat, NEW n \in Nat, Known(f, n),
         \A c \in m.uses : c.n <= n
  PROVE  Known(Append(f, m), n)
  BY AppendIs DEF Known

-----------------------------------------------------------------------------
(* The sanitiser, one message of its input after the other.                 *)

\* What the first k messages of h have become.
Emitted(h, k) == FlattenSeq([i \in 1..k |-> Piece(h, i)])

\* The calls of message k are answered by the next one.
Open(h, k) == k > 0 /\ HasCalls(h[k]) /\ IsAnswered(h, k)

LEMMA OpenBefore ==
  ASSUME NEW h \in Seq(Chat), NEW k \in Nat, k < Len(h)
  PROVE  IsAnswer(h, k + 1) <=> Open(h, k) 
<1>1. Len(h) \in Nat /\ (k + 1) - 1 = k /\ (k + 1 > 1 <=> k > 0)
  OBVIOUS
<1>2. IsAnswer(h, k + 1) <=> k > 0 /\ h[k + 1].role = "user" /\ HasCalls(h[k])
  BY <1>1 DEF IsAnswer
<1>3. IsAnswered(h, k) <=> h[k + 1].role = "user"
  BY DEF IsAnswered
<1>4. QED
  BY <1>2, <1>3 DEF Open

\* The five things the sanitiser does with a message.
LEMMA PieceCases ==
  ASSUME NEW h \in Seq(Chat), NEW i \in 1..Len(h)
  PROVE  \/ /\ HasCalls(h[i]) /\ ~IsAnswered(h, i)
            /\ Piece(h, i) = <<h[i], [FromUser("healed") EXCEPT !.blanks = h[i].uses]>>
         \/ /\ HasCalls(h[i]) /\ IsAnswered(h, i)
            /\ Piece(h, i) = <<h[i]>>
         \/ /\ IsAnswer(h, i) /\ h[i].role = "user"
            /\ Piece(h, i) = <<Answering(h[i], h[i - 1].uses)>>
         \/ /\ ~IsAnswer(h, i) /\ ~HasCalls(h[i]) /\ h[i].role = "user"
            /\ \/ Piece(h, i) = <<>>
               \/ Piece(h, i) = <<[h[i] EXCEPT !.answers = {}, !.blanks = {}]>>
         \/ /\ ~IsAnswer(h, i) /\ ~HasCalls(h[i]) /\ Results(h[i]) = {}
            /\ Piece(h, i) = <<h[i]>>
<1>1. h[i] \in Chat
  OBVIOUS
<1>2. h[i].role \in {"user", "assistant"} /\ (h[i].role = "assistant" => Results(h[i]) = {})
  BY <1>1, ChatIsMessage DEF Results
<1>3. CASE HasCalls(h[i]) /\ ~IsAnswered(h, i)
  <2>1. h[i].role = "assistant" /\ ~IsAnswer(h, i)
    BY <1>3 DEF HasCalls, IsAnswer
  <2>2. QED
    BY <1>3, <2>1 DEF Piece
<1>4. CASE HasCalls(h[i]) /\ IsAnswered(h, i)
  <2>1. h[i].role = "assistant" /\ ~IsAnswer(h, i)
    BY <1>4 DEF HasCalls, IsAnswer
  <2>2. QED
    BY <1>4, <2>1 DEF Piece
<1>5. CASE IsAnswer(h, i)
  <2>1. h[i].role = "user" /\ ~HasCalls(h[i])
    BY <1>5 DEF IsAnswer, HasCalls
  <2>2. QED
    BY <1>5, <2>1 DEF Piece
<1>6. CASE ~IsAnswer(h, i) /\ ~HasCalls(h[i]) /\ Results(h[i]) # {}
  <2>1. h[i].role = "user"
    BY <1>2, <1>6
  <2>2. QED
    BY <1>6, <2>1 DEF Piece
<1>7. CASE ~IsAnswer(h, i) /\ ~HasCalls(h[i]) /\ Results(h[i]) = {}
  BY <1>7 DEF Piece
<1>8. QED
  BY <1>3, <1>4, <1>5, <1>6, <1>7

LEMMA PieceIsChat ==
  ASSUME NEW h \in Seq(Chat), NEW i \in 1..Len(h)
  PROVE  Piece(h, i) \in Seq(Chat)
<1>1. h[i] \in Chat /\ h[i].uses \in SUBSET Call
  BY ChatIsMessage
<1>2. [FromUser("healed") EXCEPT !.blanks = h[i].uses] \in Chat
  BY <1>1 DEF FromUser, Chat, Message, Results, UserKinds
<1>3. ASSUME IsAnswer(h, i), h[i].role = "user"
      PROVE  Answering(h[i], h[i - 1].uses) \in Chat
  <2>1. i - 1 \in 1..Len(h)
    BY <1>3 DEF IsAnswer
  <2>2. h[i - 1].uses \in SUBSET Call
    BY <2>1, ChatIsMessage
  <2>3. QED
    BY <1>1, <1>3, <2>2, AnsweringIsChat
<1>4. h[i].role = "user" => [h[i] EXCEPT !.answers = {}, !.blanks = {}] \in Chat
  BY <1>1, StrippedIsChat
<1>5. \A m \in Chat : <<m>> \in Seq(Chat)
  OBVIOUS
<1>6. \A m \in Chat, n \in Chat : <<m, n>> \in Seq(Chat)
  OBVIOUS
<1>7. <<>> \in Seq(Chat)
  OBVIOUS
<1>8. QED
  BY <1>1, <1>2, <1>3, <1>4, <1>5, <1>6, <1>7, PieceCases, Zenon

LEMMA EmittedNothing == \A h : Emitted(h, 0) = <<>>
<1>1. ASSUME NEW h PROVE [i \in 1..0 |-> Piece(h, i)] = <<>>
  OBVIOUS
<1>2. QED
  BY <1>1, FlattenSeqEmpty DEF Emitted

LEMMA EmittedStep ==
  ASSUME NEW h \in Seq(Chat), NEW k \in Nat, k < Len(h)
  PROVE  Emitted(h, k + 1) = Emitted(h, k) \o Piece(h, k + 1)
<1> DEFINE ss == [i \in 1..k |-> Piece(h, i)]
<1> DEFINE tt == [i \in 1..(k + 1) |-> Piece(h, i)]
<1>1. \A i \in 1..(k + 1) : Piece(h, i) \in Seq(Chat)
  <2>1. \A i \in 1..(k + 1) : i \in 1..Len(h)
    OBVIOUS
  <2>2. QED
    BY <2>1, PieceIsChat
<1> HIDE DEF Piece
<1>2. ss \in Seq(Seq(Chat)) /\ Len(ss) = k
  <2>1. ss \in [1..k -> Seq(Chat)]
    BY <1>1
  <2>2. QED
    BY <2>1
<1>3. tt = Append(ss, Piece(h, k + 1))
  <2>1. tt \in [1..(k + 1) -> Seq(Chat)]
    BY <1>1
  <2>2. tt \in Seq(Seq(Chat)) /\ Len(tt) = k + 1
    BY <2>1
  <2>3. Piece(h, k + 1) \in Seq(Chat)
    BY <1>1
  <2> DEFINE uu == Append(ss, Piece(h, k + 1))
  <2>4. uu \in Seq(Seq(Chat)) /\ Len(uu) = k + 1
    BY <1>2, <2>3, AppendProperties
  <2>5. \A i \in 1..k : uu[i] = ss[i]
    BY <1>2, <2>3, AppendProperties
  <2>6. uu[k + 1] = Piece(h, k + 1)
    BY <1>2, <2>3, AppendProperties
  <2>7. \A i \in 1..(k + 1) : uu[i] = tt[i]
    BY <2>5, <2>6
  <2> HIDE DEF uu, tt, ss
  <2>8. QED
    BY <2>2, <2>4, <2>7, SeqEqual DEF uu
<1>4. FlattenSeq(tt) = FlattenSeq(ss) \o Piece(h, k + 1)
  <2>1. Piece(h, k + 1) \in Seq(Chat)
    BY <1>1
  <2> HIDE DEF ss, tt
  <2>2. QED
    BY <1>2, <1>3, <2>1, FlattenSeqAppend
<1>5. QED
  BY <1>4 DEF Emitted

LEMMA SanitizedIsEmitted ==
  ASSUME NEW h \in Seq(Chat)
  PROVE  sanitize_history(h) = Emitted(h, Len(h))
  BY DEF sanitize_history, Emitted

\* Concatenating a piece of one or two messages appends them.
LEMMA ConcatIsAppend ==
  ASSUME NEW f \in Seq(Chat), NEW m \in Chat, NEW n \in Chat
  PROVE  /\ f \o <<>> = f
         /\ f \o <<m>> = Append(f, m)
         /\ f \o <<m, n>> = Append(Append(f, m), n)
<1>1. f \o <<m>> = Append(f, m) /\ f \o <<>> = f
  BY AppendIsConcat, ConcatEmptySeq
<1>2. Append(Append(f, m), n) = (f \o <<m>>) \o <<n>>
  <2>1. Append(f, m) \in Seq(Chat)
    BY AppendProperties
  <2>2. Append(Append(f, m), n) = Append(f, m) \o <<n>>
    BY <2>1, AppendIsConcat
  <2>3. QED
    BY <1>1, <2>2
<1>3. <<m>> \in Seq(Chat) /\ <<n>> \in Seq(Chat) /\ <<m>> \o <<n>> = <<m, n>>
  <2>1. <<m>> \in Seq(Chat) /\ <<n>> \in Seq(Chat)
    OBVIOUS
  <2>2. Append(<<m>>, n) = <<m, n>>
    <3>1. Append(<<m>>, n) \in Seq(Chat) /\ <<m, n>> \in Seq(Chat)
      BY <2>1, AppendProperties
    <3>2. Len(Append(<<m>>, n)) = 2 /\ Len(<<m, n>>) = 2
      BY <2>1, AppendProperties
    <3>3. Append(<<m>>, n)[1] = m /\ Append(<<m>>, n)[2] = n
      BY <2>1, AppendProperties
    <3>4. \A i \in 1..2 : Append(<<m>>, n)[i] = <<m, n>>[i]
      BY <3>3
    <3>5. QED
      BY <3>1, <3>2, <3>4, SeqEqual
  <2>3. Append(<<m>>, n) = <<m>> \o <<n>>
    BY <2>1, AppendIsConcat
  <2>4. QED
    BY <2>1, <2>2, <2>3
<1>4. (f \o <<m>>) \o <<n>> = f \o (<<m>> \o <<n>>)
  BY <1>3, ConcatAssociative
<1>5. QED
  BY <1>1, <1>2, <1>3, <1>4

\* A piece of one or two messages is appended to what came before.
LEMMA EmittedAppends ==
  ASSUME NEW h \in Seq(Chat), NEW k \in Nat, k < Len(h), Emitted(h, k) \in Seq(Chat),
         NEW m \in Chat, NEW n \in Chat
  PROVE  /\ Piece(h, k + 1) = <<>> => Emitted(h, k + 1) = Emitted(h, k)
         /\ Piece(h, k + 1) = <<m>> => Emitted(h, k + 1) = Append(Emitted(h, k), m)
         /\ Piece(h, k + 1) = <<m, n>> => Emitted(h, k + 1) = Append(Append(Emitted(h, k), m), n)
<1>1. Emitted(h, k + 1) = Emitted(h, k) \o Piece(h, k + 1)
  BY EmittedStep
<1>2. /\ Emitted(h, k) \o <<>> = Emitted(h, k)
      /\ Emitted(h, k) \o <<m>> = Append(Emitted(h, k), m)
      /\ Emitted(h, k) \o <<m, n>> = Append(Append(Emitted(h, k), m), n)
  BY ConcatIsAppend
<1>3. QED
  BY <1>1, <1>2, Zenon

\* Calls that nothing behind them answers leave nothing open, and no more does a
\* message without calls.
LEMMA NotOpen ==
  ASSUME NEW h \in Seq(Chat), NEW k \in Nat, k < Len(h)
  PROVE  /\ ~IsAnswer(h, k + 1) => ~Open(h, k)
         /\ ~HasCalls(h[k + 1]) \/ ~IsAnswered(h, k + 1) => ~Open(h, k + 1)
         /\ HasCalls(h[k + 1]) => ~IsAnswer(h, k + 1)
         /\ HasCalls(h[k + 1]) /\ IsAnswered(h, k + 1) => Open(h, k + 1)
<1>1. Open(h, k) => IsAnswer(h, k + 1)
  BY OpenBefore
<1>2. HasCalls(h[k + 1]) => ~IsAnswer(h, k + 1)
  BY DEF HasCalls, IsAnswer
<1>3. k + 1 > 0
  OBVIOUS
<1>4. QED
  BY <1>1, <1>2, <1>3 DEF Open

\* What the sanitiser has made of the first k messages is in order, reports every
\* call of R that its input reports, and makes no calls of its own.
Healed(h, k, R) ==
  /\ Emitted(h, k) \in Seq(Chat)
  /\ ~Open(h, k) => Sound(Emitted(h, k), FALSE) /\ Told(Emitted(h, k), FALSE, R)
  /\ Open(h, k) => /\ Sound(Emitted(h, k), TRUE) /\ Told(Emitted(h, k), TRUE, R)
                   /\ Emitted(h, k) # <<>> /\ Emitted(h, k)[Len(Emitted(h, k))] = h[k]
  /\ \A n \in Nat : Known(h, n) => Known(Emitted(h, k), n)

\* The next message is the answer that the last one is waiting for.
LEMMA HealedAnswer ==
  ASSUME NEW h \in Seq(Chat), NEW k \in Nat, k < Len(h), NEW R, Healed(h, k, R),
         Told(h, FALSE, R), IsAnswer(h, k + 1),
         Piece(h, k + 1) = <<Answering(h[k + 1], h[k].uses)>>
  PROVE  Healed(h, k + 1, R)
<1> DEFINE f == Emitted(h, k)
<1> DEFINE a == Answering(h[k + 1], h[k].uses)
<1>1. k \in 1..Len(h) /\ k + 1 \in 1..Len(h) /\ Open(h, k)
  BY OpenBefore DEF Open, IsAnswer
<1>2. h[k] \in Chat /\ h[k + 1] \in Chat /\ h[k].uses \in SUBSET Call
  BY <1>1, ChatIsMessage
<1>3. HasCalls(h[k]) /\ h[k + 1].role = "user"
  BY <1>1 DEF Open, IsAnswered
<1>4. /\ a \in Chat /\ a.role = "user" /\ a.kind = h[k + 1].kind /\ a.uses = {}
      /\ a.answers = h[k + 1].answers \cap h[k].uses /\ Results(a) = h[k].uses
  BY <1>2, <1>3, AnsweringIsChat
<1> HIDE DEF a
<1>5. f \in Seq(Chat) /\ Sound(f, TRUE) /\ Told(f, TRUE, R) /\ f # <<>> /\ f[Len(f)] = h[k]
  BY <1>1 DEF Healed
<1>6. \A n \in Nat : Known(h, n) => Known(f, n)
  BY DEF Healed
<1>7. Emitted(h, k + 1) = Append(f, a)
  <2>1. Piece(h, k + 1) = <<a>>
    BY DEF a
  <2>2. QED
    BY <1>4, <1>5, <2>1, EmittedAppends
<1> HIDE DEF f
<1>8. ~HasCalls(h[k + 1]) /\ ~Open(h, k + 1)
  BY <1>2, <1>3 DEF Open, HasCalls
<1>9. Append(f, a) \in Seq(Chat)
  BY <1>4, <1>5, AppendIs
<1>10. Sound(Append(f, a), FALSE)
  BY <1>3, <1>4, <1>5, SoundAnswer
<1>11. Told(Append(f, a), FALSE, R)
  <2>1. ASSUME NEW c \in f[Len(f)].uses \cap R
        PROVE  a.kind \in {"hook", "cancelled"} \/ c \in a.answers
    <3>1. Reported(h, k, c)
      BY <1>1, <1>5 DEF Told
    <3>2. QED
      BY <1>4, <1>5, <3>1 DEF Reported
  <2>2. QED
    BY <1>4, <1>5, <2>1, ToldAnswer
<1>12. ASSUME NEW n \in Nat, Known(h, n) PROVE Known(Append(f, a), n)
  <2>1. Known(f, n) /\ \A c \in a.uses : c.n <= n
    BY <1>4, <1>6, <1>12
  <2>2. QED
    BY <1>4, <1>5, <2>1, KnownAppend
<1>13. QED
  BY <1>7, <1>8, <1>9, <1>10, <1>11, <1>12 DEF Healed

\* The next message makes calls that the one behind it answers.
LEMMA HealedCalls ==
  ASSUME NEW h \in Seq(Chat), NEW k \in Nat, k < Len(h), NEW R, Healed(h, k, R),
         HasCalls(h[k + 1]), IsAnswered(h, k + 1), Piece(h, k + 1) = <<h[k + 1]>>
  PROVE  Healed(h, k + 1, R)
<1> DEFINE f == Emitted(h, k)
<1> DEFINE m == h[k + 1]
<1>1. m \in Chat /\ k + 1 \in 1..Len(h) /\ m.role = "assistant"
  BY DEF HasCalls
<1>2. ~IsAnswer(h, k + 1)
  BY NotOpen
<1>3. ~Open(h, k) /\ Open(h, k + 1)
  BY <1>2, NotOpen
<1>4. f \in Seq(Chat) /\ Sound(f, FALSE) /\ Told(f, FALSE, R)
  BY <1>3 DEF Healed
<1>5. \A n \in Nat : Known(h, n) => Known(f, n)
  BY DEF Healed
<1>6. Emitted(h, k + 1) = Append(f, m)
  BY <1>1, <1>4, EmittedAppends
<1> HIDE DEF f, m
<1>7. Append(f, m) \in Seq(Chat) /\ Append(f, m)[Len(Append(f, m))] = m /\ Append(f, m) # <<>>
  BY <1>1, <1>4, AppendProperties
<1>8. Sound(Append(f, m), TRUE) /\ Told(Append(f, m), TRUE, R)
  BY <1>1, <1>4, SoundCalls, ToldCalls
<1>9. ASSUME NEW n \in Nat, Known(h, n) PROVE Known(Append(f, m), n)
  <2>1. Known(f, n) /\ \A c \in m.uses : c.n <= n
    BY <1>1, <1>5, <1>9 DEF Known, m
  <2>2. QED
    BY <1>1, <1>4, <2>1, KnownAppend
<1>10. QED
  BY <1>3, <1>6, <1>7, <1>8, <1>9 DEF Healed, m

\* The next message makes calls that nothing answers: a stand-in follows.
LEMMA HealedUnanswered ==
  ASSUME NEW h \in Seq(Chat), NEW k \in Nat, k < Len(h), NEW R, Healed(h, k, R),
         Told(h, FALSE, R), HasCalls(h[k + 1]), ~IsAnswered(h, k + 1),
         Piece(h, k + 1) = <<h[k + 1], [FromUser("healed") EXCEPT !.blanks = h[k + 1].uses]>>
  PROVE  Healed(h, k + 1, R)
<1> DEFINE f == Emitted(h, k)
<1> DEFINE m == h[k + 1]
<1> DEFINE b == [FromUser("healed") EXCEPT !.blanks = h[k + 1].uses]
<1>1. m \in Chat /\ k + 1 \in 1..Len(h) /\ m.role = "assistant" /\ m.uses \in SUBSET Call
  BY ChatIsMessage DEF HasCalls
<1>2. b \in Chat /\ b.role = "user" /\ b.uses = {} /\ Results(b) = m.uses
  <2>1. "healed" \in UserKinds
    BY DEF UserKinds
  <2>2. h[k + 1].uses \in SUBSET Call
    BY <1>1
  <2>3. \A calls \in SUBSET Call :
           LET r == [FromUser("healed") EXCEPT !.blanks = calls]
           IN  r \in Chat /\ r.role = "user" /\ r.uses = {} /\ Results(r) = calls
    BY <2>1 DEF FromUser, Chat, Message, Results
  <2>4. QED
    BY <2>2, <2>3
<1>3. ~IsAnswer(h, k + 1)
  BY NotOpen
<1>4. ~Open(h, k) /\ ~Open(h, k + 1)
  BY <1>3, NotOpen
<1>5. f \in Seq(Chat) /\ Sound(f, FALSE) /\ Told(f, FALSE, R)
  BY <1>4 DEF Healed
<1>6. \A n \in Nat : Known(h, n) => Known(f, n)
  BY DEF Healed
\* None of its calls is in R: nothing stands behind it that could report one.
<1>7. m.uses \cap R = {}
  <2>1. ASSUME NEW c \in m.uses \cap R PROVE FALSE
    <3>1. Reported(h, k + 1, c)
      BY <1>1, <2>1 DEF Told
    <3>2. k + 2 \in 1..Len(h) /\ h[k + 2] \in Chat /\ (k + 1) + 1 = k + 2
      BY <1>1, <3>1 DEF Reported
    <3>3. h[k + 2].role # "user"
      BY <3>1, <3>2 DEF Reported, IsAnswered
    <3>4. h[k + 2].kind = "reply" /\ h[k + 2].answers = {}
      BY <3>2, <3>3, ChatIsMessage
    <3>5. QED
      BY <3>1, <3>2, <3>4 DEF Reported
  <2>2. QED
    BY <2>1
<1>8. Emitted(h, k + 1) = Append(Append(f, m), b)
  BY <1>1, <1>2, <1>5, EmittedAppends
<1>9. HasCalls(m)
  OBVIOUS
<1>10. \A n \in Nat : Known(h, n) => \A c \in m.uses : c.n <= n
  BY <1>1 DEF Known
<1> HIDE DEF f, m, b
<1> DEFINE g == Append(f, m)
<1>11. g \in Seq(Chat) /\ g[Len(g)] = m /\ g # <<>>
  BY <1>1, <1>5, AppendProperties
<1>12. Sound(g, TRUE) /\ Told(g, FALSE, R)
  BY <1>1, <1>5, <1>7, SoundCalls, ToldPlain
<1>13. \A n \in Nat : Known(h, n) => Known(g, n)
  BY <1>1, <1>5, <1>6, <1>10, KnownAppend
<1> HIDE DEF g
<1>14. Append(g, b) \in Seq(Chat)
  BY <1>2, <1>11, AppendIs
<1>15. Sound(Append(g, b), FALSE)
  BY <1>2, <1>9, <1>11, <1>12, SoundAnswer
<1>16. Told(Append(g, b), FALSE, R)
  BY <1>2, <1>11, <1>12, ToldPlain
<1>17. ASSUME NEW n \in Nat, Known(h, n) PROVE Known(Append(g, b), n)
  <2>1. Known(g, n) /\ \A c \in b.uses : c.n <= n
    BY <1>2, <1>13, <1>17
  <2>2. QED
    BY <1>2, <1>11, <2>1, KnownAppend
<1>18. QED
  BY <1>4, <1>8, <1>14, <1>15, <1>16, <1>17 DEF Healed, g

\* The next message makes no calls and keeps no results.
LEMMA HealedPlain ==
  ASSUME NEW h \in Seq(Chat), NEW k \in Nat, k < Len(h), NEW R, Healed(h, k, R),
         ~HasCalls(h[k + 1]), ~IsAnswer(h, k + 1), NEW m \in Chat,
         ~HasCalls(m), m.uses = {}, Results(m) = {}, Piece(h, k + 1) = <<m>>
  PROVE  Healed(h, k + 1, R)
<1> DEFINE f == Emitted(h, k)
<1>1. ~Open(h, k) /\ ~Open(h, k + 1)
  BY NotOpen
<1>2. f \in Seq(Chat) /\ Sound(f, FALSE) /\ Told(f, FALSE, R)
  BY <1>1 DEF Healed
<1>3. \A n \in Nat : Known(h, n) => Known(f, n)
  BY DEF Healed
<1>4. Emitted(h, k + 1) = Append(f, m)
  BY <1>2, EmittedAppends
<1> HIDE DEF f
<1>5. Append(f, m) \in Seq(Chat)
  BY <1>2, AppendIs
<1>6. Sound(Append(f, m), FALSE) /\ Told(Append(f, m), FALSE, R)
  BY <1>2, SoundPlain, ToldPlain
<1>7. \A n \in Nat : Known(h, n) => Known(Append(f, m), n)
  BY <1>2, <1>3, KnownAppend
<1>8. QED
  BY <1>1, <1>4, <1>5, <1>6, <1>7 DEF Healed

\* The next message is dropped.
LEMMA HealedDropped ==
  ASSUME NEW h \in Seq(Chat), NEW k \in Nat, k < Len(h), NEW R, Healed(h, k, R),
         ~HasCalls(h[k + 1]), ~IsAnswer(h, k + 1), Piece(h, k + 1) = <<>>
  PROVE  Healed(h, k + 1, R)
<1>1. ~Open(h, k) /\ ~Open(h, k + 1)
  BY NotOpen
<1>2. Emitted(h, k) \in Seq(Chat)
  BY DEF Healed
<1>3. Emitted(h, k + 1) = Emitted(h, k)
  <2>1. h[k + 1] \in Chat
    OBVIOUS
  <2>2. QED
    BY <1>2, <2>1, EmittedAppends
<1>4. QED
  BY <1>1, <1>3 DEF Healed

LEMMA HealedStep ==
  ASSUME NEW h \in Seq(Chat), NEW k \in Nat, k < Len(h), NEW R, Healed(h, k, R),
         Told(h, FALSE, R)
  PROVE  Healed(h, k + 1, R)
<1>1. k + 1 \in 1..Len(h) /\ (k + 1) - 1 = k /\ h[k + 1] \in Chat
  OBVIOUS
<1>2. CASE /\ HasCalls(h[k + 1]) /\ ~IsAnswered(h, k + 1)
           /\ Piece(h, k + 1) = <<h[k + 1], [FromUser("healed") EXCEPT !.blanks = h[k + 1].uses]>>
  BY <1>2, HealedUnanswered
<1>3. CASE HasCalls(h[k + 1]) /\ IsAnswered(h, k + 1) /\ Piece(h, k + 1) = <<h[k + 1]>>
  BY <1>3, HealedCalls
<1>4. CASE /\ IsAnswer(h, k + 1) /\ h[k + 1].role = "user"
           /\ Piece(h, k + 1) = <<Answering(h[k + 1], h[(k + 1) - 1].uses)>>
  BY <1>1, <1>4, HealedAnswer
<1>5. CASE ~IsAnswer(h, k + 1) /\ ~HasCalls(h[k + 1]) /\ Piece(h, k + 1) = <<>>
  BY <1>5, HealedDropped
<1>6. CASE /\ ~IsAnswer(h, k + 1) /\ ~HasCalls(h[k + 1]) /\ h[k + 1].role = "user"
           /\ Piece(h, k + 1) = <<[h[k + 1] EXCEPT !.answers = {}, !.blanks = {}]>>
  <2> DEFINE m == [h[k + 1] EXCEPT !.answers = {}, !.blanks = {}]
  <2>1. m \in Chat /\ ~HasCalls(m) /\ m.uses = {} /\ Results(m) = {}
    BY <1>1, <1>6, StrippedIsChat
  <2> HIDE DEF m
  <2>2. Piece(h, k + 1) = <<m>>
    BY <1>6 DEF m
  <2>3. QED
    BY <1>6, <2>1, <2>2, HealedPlain
<1>7. CASE /\ ~IsAnswer(h, k + 1) /\ ~HasCalls(h[k + 1]) /\ Results(h[k + 1]) = {}
           /\ Piece(h, k + 1) = <<h[k + 1]>>
  <2>1. h[k + 1].uses = {}
    BY <1>1, <1>7, ChatIsMessage DEF HasCalls
  <2>2. QED
    BY <1>1, <1>7, <2>1, HealedPlain
<1>8. QED
  BY <1>1, <1>2, <1>3, <1>4, <1>5, <1>6, <1>7, PieceCases

LEMMA HealedStart ==
  ASSUME NEW h \in Seq(Chat), NEW R
  PROVE  Healed(h, 0, R)
<1>1. Emitted(h, 0) = <<>> /\ ~Open(h, 0)
  BY EmittedNothing DEF Open
<1>2. <<>> \in Seq(Chat) /\ Len(<<>>) = 0
  OBVIOUS
<1>3. Sound(<<>>, FALSE) /\ Told(<<>>, FALSE, R) /\ \A n \in Nat : Known(<<>>, n)
  BY <1>2 DEF Sound, Told, Known
<1>4. QED
  BY <1>1, <1>2, <1>3 DEF Healed

\* Whatever the history was, what the sanitiser makes of it is in order: every call
\* is answered by the next message and nothing else is.  It loses no report and
\* makes no calls.
LEMMA SanitizedIsHealed ==
  ASSUME NEW h \in Seq(Chat), NEW R, Told(h, FALSE, R)
  PROVE  /\ sanitize_history(h) \in Seq(Chat)
         /\ Sound(sanitize_history(h), FALSE)
         /\ Told(sanitize_history(h), FALSE, R)
         /\ \A n \in Nat : Known(h, n) => Known(sanitize_history(h), n)
<1> DEFINE K == {k \in Nat : k <= Len(h) => Healed(h, k, R)}
<1>1. 0 \in K
  BY HealedStart
<1>2. ASSUME NEW k \in K PROVE k + 1 \in K
  <2>1. ASSUME k + 1 <= Len(h) PROVE Healed(h, k + 1, R)
    <3>1. k < Len(h) /\ Healed(h, k, R)
      BY <2>1
    <3>2. QED
      BY <3>1, HealedStep
  <2>2. QED
    BY <2>1
<1>3. K = Nat
  <2> HIDE DEF K
  <2>1. K \in SUBSET Nat
    BY DEF K
  <2>2. QED
    BY <1>1, <1>2, <2>1, Induction
<1>4. Healed(h, Len(h), R)
  BY <1>3
<1>5. ~Open(h, Len(h))
  BY DEF Open, IsAnswered
<1>6. QED
  BY <1>4, <1>5, SanitizedIsEmitted DEF Healed

\* In order is what the provider asks for.
LEMMA SoundIsPaired ==
  ASSUME NEW f
  PROVE  Sound(f, FALSE) <=> Paired(f)
  BY DEF Sound, Paired

-----------------------------------------------------------------------------
(* Compaction.                                                              *)

\* A cut falls at the ends of the history or in front of a message without results.
LEMMA BoundaryIs ==
  ASSUME NEW h \in Seq(Chat), NEW k \in 0..Len(h)
  PROVE  /\ snap_to_pairing_boundary(h, k) \in 0..Len(h)
         /\ \/ snap_to_pairing_boundary(h, k) \in {0, Len(h)}
            \/ Results(h[snap_to_pairing_boundary(h, k) + 1]) = {}
<1>1. Len(h) \in Nat /\ k \in Nat
  OBVIOUS
<1>2. CASE k >= Len(h)
  BY <1>1, <1>2 DEF snap_to_pairing_boundary
<1>3. CASE ~(k >= Len(h))
  <2> DEFINE S == {j \in 0..k : j = 0 \/ Results(h[j + 1]) = {}}
  <2>1. S \in SUBSET Nat /\ S # {} /\ \A j \in S : j <= k
    <3>1. 0 \in S
      BY <1>1
    <3>2. QED
      BY <3>1
  <2>2. snap_to_pairing_boundary(h, k) = Max(S)
    BY <1>3 DEF snap_to_pairing_boundary
  <2>3. Max(S) \in S
    <3> HIDE DEF S
    <3>1. QED
      BY <1>1, <2>1, MaxOfBounded
  <2>4. Max(S) \in 0..k /\ (Max(S) = 0 \/ Results(h[Max(S) + 1]) = {})
    BY <2>3
  <2> HIDE DEF S
  <2>5. QED
    BY <1>1, <1>3, <2>2, <2>4
<1>4. QED
  BY <1>2, <1>3

\* A cut behind the first k messages leaves a summary and the rest.
LEMMA SummarisedIs ==
  ASSUME NEW h \in Seq(Chat), NEW k \in 0..Len(h)
  PROVE  /\ SummarisedAt(h, k) \in Seq(Chat)
         /\ Len(SummarisedAt(h, k)) = Len(h) - k + 1
         /\ SummarisedAt(h, k)[1] = FromUser("summary")
         /\ \A i \in 1..(Len(h) - k) : SummarisedAt(h, k)[i + 1] = h[k + i]
<1> DEFINE t == SubSeq(h, k + 1, Len(h))
<1> DEFINE s == <<FromUser("summary")>>
<1>1. s \in Seq(Chat) /\ Len(s) = 1 /\ s[1] = FromUser("summary")
  <2>1. FromUser("summary") \in Chat
    BY FromUserIsChat DEF UserKinds
  <2>2. QED
    BY <2>1
<1>2. /\ t \in Seq(Chat) /\ Len(t) = Len(h) - k
      /\ \A i \in 1..(Len(h) - k) : t[i] = h[k + i]
  <2>1. k + 1 \in Int /\ Len(h) \in Int /\ \A i \in (k + 1)..Len(h) : h[i] \in Chat
    OBVIOUS
  <2>2. /\ t \in Seq(Chat)
        /\ Len(t) = IF k + 1 <= Len(h) THEN Len(h) - (k + 1) + 1 ELSE 0
        /\ \A i \in 1..(Len(h) - (k + 1) + 1) : t[i] = h[(k + 1) + i - 1]
    BY <2>1, SubSeqProperties
  <2>3. Len(h) - (k + 1) + 1 = Len(h) - k /\ \A i \in Nat : (k + 1) + i - 1 = k + i
    OBVIOUS
  <2> HIDE DEF t
  <2>4. Len(h) \in Nat /\ k \in Nat /\ k <= Len(h)
    OBVIOUS
  <2>5. Len(t) = Len(h) - k
    <3>1. CASE k + 1 <= Len(h)
      BY <2>2, <2>3, <3>1
    <3>2. CASE ~(k + 1 <= Len(h))
      BY <2>2, <2>4, <3>2
    <3>3. QED
      BY <3>1, <3>2
  <2>6. ASSUME NEW i \in 1..(Len(h) - k) PROVE t[i] = h[k + i]
    <3>1. i \in 1..(Len(h) - (k + 1) + 1) /\ (k + 1) + i - 1 = k + i
      BY <2>3, <2>4
    <3>2. QED
      BY <2>2, <3>1
  <2>7. QED
    BY <2>2, <2>5, <2>6
<1>3. SummarisedAt(h, k) = s \o t
  BY DEF SummarisedAt
<1> HIDE DEF s, t
<1>4. /\ s \o t \in Seq(Chat) /\ Len(s \o t) = Len(s) + Len(t)
      /\ \A i \in 1..(Len(s) + Len(t)) : (s \o t)[i] = IF i <= Len(s) THEN s[i] ELSE t[i - Len(s)]
  BY <1>1, <1>2, ConcatProperties
<1>5. Len(s) + Len(t) = Len(h) - k + 1 /\ Len(h) \in Nat /\ k \in Nat
  BY <1>1, <1>2
<1>6. (s \o t)[1] = FromUser("summary")
  BY <1>1, <1>4, <1>5
<1>7. ASSUME NEW i \in 1..(Len(h) - k) PROVE (s \o t)[i + 1] = h[k + i]
  <2>1. i + 1 \in 1..(Len(s) + Len(t)) /\ ~(i + 1 <= Len(s)) /\ (i + 1) - Len(s) = i
    BY <1>1, <1>5
  <2>2. (s \o t)[i + 1] = t[i]
    BY <1>4, <2>1
  <2>3. QED
    BY <1>2, <2>2
<1>8. QED
  BY <1>3, <1>4, <1>5, <1>6, <1>7, Zenon

\* What compaction returns is the history, or a summary and a tail of it that does
\* not begin with results.
LEMMA CompactedIs ==
  ASSUME NEW h \in Seq(Chat), NEW c \in compact_conversation(h)
  PROVE  \/ c = h
         \/ \E k \in 1..Len(h) : /\ c = SummarisedAt(h, k)
                                 /\ k < Len(h) => Results(h[k + 1]) = {}
<1>1. PICK k \in Cuts(h) : c = IF k > 1 THEN SummarisedAt(h, k) ELSE h
  BY DEF compact_conversation
<1>2. PICK b \in 0..Len(h) : k = snap_to_pairing_boundary(h, b)
  BY DEF Cuts
<1>3. k \in 0..Len(h) /\ (k \in {0, Len(h)} \/ Results(h[k + 1]) = {})
  BY <1>2, BoundaryIs
<1>4. CASE k > 1
  BY <1>1, <1>3, <1>4
<1>5. CASE ~(k > 1)
  BY <1>1, <1>5
<1>6. QED
  BY <1>4, <1>5

\* A tail that does not begin with results is in order when the whole was.
LEMMA SummarisedIsSound ==
  ASSUME NEW h \in Seq(Chat), NEW k \in 1..Len(h), k < Len(h) => Results(h[k + 1]) = {},
         Sound(h, FALSE)
  PROVE  Sound(SummarisedAt(h, k), FALSE)
<1> DEFINE c == SummarisedAt(h, k)
<1>1. /\ c \in Seq(Chat) /\ Len(c) = Len(h) - k + 1 /\ c[1] = FromUser("summary")
      /\ \A i \in 1..(Len(h) - k) : c[i + 1] = h[k + i]
  <2>1. k \in 0..Len(h)
    OBVIOUS
  <2>2. QED
    BY <2>1, SummarisedIs
<1>2. Len(h) \in Nat /\ k \in Nat /\ k > 0
  OBVIOUS
<1>3. ~HasCalls(c[1]) /\ Results(c[1]) = {}
  BY <1>1, FromUserIsChat DEF UserKinds
<1> HIDE DEF c
<1>4. \A i \in 2..Len(c) : c[i] = h[k + i - 1] /\ k + i - 1 \in 1..Len(h)
  <2>1. ASSUME NEW i \in 2..Len(c)
        PROVE  c[i] = h[k + i - 1] /\ k + i - 1 \in 1..Len(h)
    <3>1. i - 1 \in 1..(Len(h) - k) /\ (i - 1) + 1 = i /\ k + (i - 1) = k + i - 1
      BY <1>1, <1>2
    <3>2. c[(i - 1) + 1] = h[k + (i - 1)]
      BY <1>1, <3>1
    <3>3. QED
      BY <1>2, <3>1, <3>2
  <2>2. QED
    BY <2>1
<1>5. ASSUME NEW i \in 1..Len(c), HasCalls(c[i])
      PROVE  IsAnswered(c, i) /\ Results(c[i + 1]) = c[i].uses
  <2>1. i \in 2..Len(c)
    BY <1>1, <1>2, <1>3, <1>5
  <2>2. c[i] = h[k + i - 1] /\ k + i - 1 \in 1..Len(h)
    BY <1>4, <2>1
  <2>3. IsAnswered(h, k + i - 1) /\ Results(h[(k + i - 1) + 1]) = h[k + i - 1].uses
    BY <1>5, <2>2 DEF Sound
  <2>4. (k + i - 1) + 1 = k + (i + 1) - 1
    BY <1>2, <2>1
  <2>5. i + 1 \in 2..Len(c) /\ i < Len(c)
    BY <1>1, <1>2, <2>1, <2>3 DEF IsAnswered
  <2>6. c[i + 1] = h[k + (i + 1) - 1]
    BY <1>4, <2>5
  <2>7. QED
    BY <2>2, <2>3, <2>4, <2>5, <2>6 DEF IsAnswered
<1>6. ASSUME NEW i \in 1..Len(c), Results(c[i]) # {}
      PROVE  IsAnswer(c, i)
  <2>1. i \in 2..Len(c)
    BY <1>1, <1>2, <1>3, <1>6
  <2>2. c[i] = h[k + i - 1] /\ k + i - 1 \in 1..Len(h)
    BY <1>4, <2>1
  <2>3. i # 2
    <3>1. ASSUME i = 2 PROVE FALSE
      <4>1. k + i - 1 = k + 1 /\ k < Len(h)
        BY <1>1, <1>2, <2>1, <3>1
      <4>2. QED
        BY <1>6, <2>2, <4>1
    <3>2. QED
      BY <3>1
  <2>4. IsAnswer(h, k + i - 1)
    BY <1>6, <2>2 DEF Sound
  <2>5. (k + i - 1) - 1 = k + (i - 1) - 1 /\ i - 1 \in 2..Len(c) /\ i > 1
    BY <1>2, <2>1, <2>3
  <2>6. c[i - 1] = h[k + (i - 1) - 1]
    BY <1>4, <2>5
  <2>7. QED
    BY <2>2, <2>4, <2>5, <2>6 DEF IsAnswer
<1>7. QED
  BY <1>5, <1>6 DEF Sound, c

\* The tail reports what the whole did, and knows no other calls.
LEMMA SummarisedIsTold ==
  ASSUME NEW h \in Seq(Chat), NEW k \in 1..Len(h), NEW R, Told(h, FALSE, R)
  PROVE  /\ Told(SummarisedAt(h, k), FALSE, R)
         /\ \A n \in Nat : Known(h, n) => Known(SummarisedAt(h, k), n)
<1> DEFINE c == SummarisedAt(h, k)
<1>1. /\ c \in Seq(Chat) /\ Len(c) = Len(h) - k + 1 /\ c[1] = FromUser("summary")
      /\ \A i \in 1..(Len(h) - k) : c[i + 1] = h[k + i]
  <2>1. k \in 0..Len(h)
    OBVIOUS
  <2>2. QED
    BY <2>1, SummarisedIs
<1>2. Len(h) \in Nat /\ k \in Nat /\ k > 0
  OBVIOUS
<1>3. c[1].uses = {}
  BY <1>1, FromUserIsChat DEF UserKinds
<1> HIDE DEF c
<1>4. ASSUME NEW i \in 1..Len(c), i # 1
      PROVE  c[i] = h[k + i - 1] /\ k + i - 1 \in 1..Len(h)
  <2>1. i - 1 \in 1..(Len(h) - k) /\ (i - 1) + 1 = i /\ k + (i - 1) = k + i - 1
    BY <1>1, <1>2, <1>4
  <2>2. c[(i - 1) + 1] = h[k + (i - 1)]
    BY <1>1, <2>1
  <2>3. QED
    BY <1>2, <2>1, <2>2
<1>5. ASSUME NEW i \in 1..Len(c), NEW x \in c[i].uses \cap R
      PROVE  Reported(c, i, x)
  <2>1. i # 1
    BY <1>3, <1>5
  <2>2. c[i] = h[k + i - 1] /\ k + i - 1 \in 1..Len(h)
    BY <1>4, <2>1
  <2>3. Reported(h, k + i - 1, x)
    BY <1>5, <2>2 DEF Told
  <2>4. (k + i - 1) + 1 = k + (i + 1) - 1 /\ k + i - 1 < Len(h)
    BY <1>2, <2>3 DEF Reported
  <2>5. i + 1 \in 1..Len(c) /\ i + 1 # 1 /\ i < Len(c)
    BY <1>1, <1>2, <2>1, <2>4
  <2>6. c[i + 1] = h[k + (i + 1) - 1]
    BY <1>4, <2>5
  <2>7. QED
    BY <2>3, <2>4, <2>5, <2>6 DEF Reported
<1>6. ASSUME NEW n \in Nat, Known(h, n) PROVE Known(c, n)
  <2>1. ASSUME NEW i \in 1..Len(c), NEW x \in c[i].uses PROVE x.n <= n
    <3>1. i # 1
      BY <1>3, <2>1
    <3>2. QED
      BY <1>4, <1>6, <2>1, <3>1 DEF Known
  <2>2. QED
    BY <2>1 DEF Known
<1>7. QED
  BY <1>5, <1>6 DEF Told, c

\* Compaction as a whole.
LEMMA CompactedIsChat ==
  ASSUME NEW h \in Seq(Chat), NEW c \in compact_conversation(h)
  PROVE  /\ c \in Seq(Chat)
         /\ Sound(h, FALSE) => Sound(c, FALSE)
         /\ \A R : Told(h, FALSE, R) => Told(c, FALSE, R)
         /\ \A n \in Nat : Known(h, n) => Known(c, n)
<1>1. CASE c = h
  BY <1>1
<1>2. CASE \E k \in 1..Len(h) : /\ c = SummarisedAt(h, k)
                                /\ k < Len(h) => Results(h[k + 1]) = {}
  <2>1. PICK k \in 1..Len(h) : c = SummarisedAt(h, k) /\ (k < Len(h) => Results(h[k + 1]) = {})
    BY <1>2
  <2>2. k \in 0..Len(h)
    OBVIOUS
  <2>3. c \in Seq(Chat)
    BY <2>1, <2>2, SummarisedIs
  <2>4. Sound(h, FALSE) => Sound(c, FALSE)
    BY <2>1, SummarisedIsSound
  <2>5. \A R : Told(h, FALSE, R) => Told(c, FALSE, R)
    BY <2>1, SummarisedIsTold
  <2>6. \A n \in Nat : Known(h, n) => Known(c, n)
    <3>1. Told(h, FALSE, {})
      BY DEF Told
    <3>2. QED
      BY <2>1, <3>1, SummarisedIsTold
  <2>7. QED
    BY <2>3, <2>4, <2>5, <2>6
<1>3. QED
  BY <1>1, <1>2, CompactedIs

-----------------------------------------------------------------------------
(* Type correctness.                                                        *)

LEMMA LimitsAreNat ==
  /\ MaxTurns \in Nat /\ MaxTurns > 0 /\ Retries \in Nat /\ RecoveryLimit \in Nat
  /\ ProseBudget \in Nat /\ MaxFailures \in Nat /\ GoalLimit \in Nat /\ Cooldown \in Nat
  /\ MaxQueries \in Nat /\ MaxCalls \in Nat /\ MaxNotes \in Nat /\ MaxMail \in Nat
  /\ MaxPerReply \in Nat
  BY LimitsAssumption

\* The calls of one reply are new ones.
LEMMA CallsAre ==
  ASSUME nextCall \in Nat, NEW k \in Nat, nextCall + k <= MaxCalls,
         NEW last \in {"whole", "broken", "none"}
  PROVE  /\ Calls(k, last) \in Seq(Call) /\ Len(Calls(k, last)) = k
         /\ Range(Calls(k, last)) \subseteq Call
         /\ \A c \in Range(Calls(k, last)) : c.n > nextCall /\ c.n <= nextCall + k
<1>1. ASSUME NEW i \in 1..k
      PROVE  [n |-> nextCall + i, args |-> IF i = k THEN last ELSE "whole"] \in Call
  BY LimitsAreNat DEF Call
<1>2. Calls(k, last) \in [1..k -> Call]
  BY <1>1 DEF Calls
<1>3. Calls(k, last) \in Seq(Call) /\ Len(Calls(k, last)) = k
  BY <1>2
<1>4. \A i \in 1..k : Calls(k, last)[i].n = nextCall + i
  BY DEF Calls
<1>5. Range(Calls(k, last)) = {Calls(k, last)[i] : i \in 1..k}
  BY <1>2 DEF Range
<1>6. QED
  BY <1>2, <1>3, <1>4, <1>5

\* Appending one of the loop's own messages.
LEMMA AppendUser ==
  ASSUME NEW h \in Seq(Chat), NEW kind \in UserKinds
  PROVE  /\ Append(h, FromUser(kind)) \in Seq(Chat)
         /\ \A R : Told(h, FALSE, R) => Told(Append(h, FromUser(kind)), FALSE, R)
         /\ \A n \in Nat : Known(h, n) => Known(Append(h, FromUser(kind)), n)
<1>1. FromUser(kind) \in Chat /\ FromUser(kind).uses = {}
  BY FromUserIsChat
<1>2. QED
  BY <1>1, AppendIs, ToldPlain, KnownAppend

\* Notes and mail are put behind the history.
LEMMA WithNotesIs ==
  ASSUME NEW h \in Seq(Chat)
  PROVE  /\ WithNotes(h) \in Seq(Chat)
         /\ \A R : Told(h, FALSE, R) => Told(WithNotes(h), FALSE, R)
         /\ \A n \in Nat : Known(h, n) => Known(WithNotes(h), n)
<1>1. "note" \in UserKinds
  BY DEF UserKinds
<1>2. QED
  BY <1>1, AppendUser DEF WithNotes

LEMMA DeliveredIs ==
  ASSUME NEW h \in Seq(Chat)
  PROVE  /\ deliver_inbox(h) \in Seq(Chat)
         /\ \A R : Told(h, FALSE, R) => Told(deliver_inbox(h), FALSE, R)
         /\ \A n \in Nat : Known(h, n) => Known(deliver_inbox(h), n)
<1>1. "mail" \in UserKinds
  BY DEF UserKinds
<1>2. QED
  BY <1>1, AppendUser DEF deliver_inbox

\* The reply is the last message, or the last but what a hook says behind it.
LEMMA RepliedIs ==
  ASSUME history \in Seq(Chat), NEW calls, Range(calls) \in SUBSET Call, NEW exit
  PROVE  Replied(calls, exit) \in Seq(Chat)
<1>1. FromModel(Range(calls)) \in Chat /\ FromUser("hook") \in Chat
  BY FromModelIsChat, FromUserIsChat DEF UserKinds
<1>2. Append(history, FromModel(Range(calls))) \in Seq(Chat)
  BY <1>1, AppendIs
<1>3. QED
  BY <1>1, <1>2, AppendIs DEF Replied

\* Where the loop stands, and its flags.
FlagsOK ==
  /\ pc \in {"idle", "top", "ready", "sampling", "tools", "closing"}
  /\ arm \in Arms \cup {"none"} /\ note \in {"none", "concern", "blocker"}
  /\ usedFallback \in BOOLEAN /\ summaryDone \in BOOLEAN /\ summaryTurn \in BOOLEAN
  /\ delta \in BOOLEAN /\ cancelled \in BOOLEAN

\* The counters of the loop and its surroundings.
CountersOK ==
  /\ turn \in 0..(MaxTurns + 1) /\ retriesLeft \in 0..Retries /\ recoveries \in 0..RecoveryLimit
  /\ proseLeft \in 0..ProseBudget /\ goalTurns \in 0..GoalLimit /\ failures \in 0..MaxFailures
  /\ raised \in 0..MaxNotes /\ inbox \in 0..MaxMail /\ mailed \in 0..MaxMail
  /\ inbox <= mailed
\* Only the turn that asks for a summary is over the limit, and it comes once.
  /\ turn > MaxTurns => summaryDone
\* A turn is counted when it begins, so that an attempt can be taken back.
  /\ pc \in {"ready", "sampling", "tools", "closing"} => turn > 0

BatchOK ==
  /\ reply \in Seq(Call) /\ Range(reply) \subseteq Call /\ finished \subseteq Range(reply)
  /\ nextCall \in 0..MaxCalls /\ ran \subseteq Call

Typed == history \in Seq(Chat) /\ FlagsOK /\ CountersOK /\ BatchOK

LEMMA InitTyped == Init => Typed
<1> SUFFICES ASSUME Init PROVE Typed
  OBVIOUS
<1>1. <<>> \in Seq(Chat) /\ <<>> \in Seq(Call) /\ Range(<<>>) = {}
  BY DEF Range
<1>2. FlagsOK
  BY DEF Init, FlagsOK
<1>3. CountersOK
  BY LimitsAreNat DEF Init, CountersOK
<1>4. QED
  BY <1>1, <1>2, <1>3, LimitsAreNat DEF Init, Typed, BatchOK

\* No step of the loop but a reply and a tool touches the batch, except to drop it.
LEMMA BatchDropped ==
  ASSUME BatchOK, reply' = <<>>, finished' = {}, nextCall' = nextCall, ran' = ran
  PROVE  BatchOK'
<1>1. <<>> \in Seq(Call) /\ Range(<<>>) = {}
  BY DEF Range
<1>2. QED
  BY <1>1 DEF BatchOK

LEMMA BatchKept ==
  ASSUME BatchOK, UNCHANGED toolVars
  PROVE  BatchOK'
  BY DEF BatchOK, toolVars

\* How the loop goes on from a reply: it is left, runs the calls, closes the turn
\* or asks the model to go on.
Leaves == Return /\ UNCHANGED <<failures, ran>>

Recovers ==
  /\ recoveries < RecoveryLimit /\ recoveries' = recoveries + 1 /\ pc' = "top"
  /\ UNCHANGED <<arm, turn, retriesLeft, usedFallback, proseLeft, summaryDone, goalTurns,
                 summaryTurn, failures, reply, finished, ran, advisorVars, mailVars,
                 cancelled, queries, sent>>

\* Both arms record the reply and go on in one of those ways.
LEMMA ReplyCases ==
  ASSUME ProviderReply \/ AnthropicReply
  PROVE  \E k \in 0..MaxPerReply, last \in {"whole", "broken", "none"}, exit \in HookExits :
           /\ pc = "sampling" /\ nextCall + k <= MaxCalls
           /\ nextCall' = nextCall + Len(Calls(k, last))
           /\ \/ /\ history' = Replied(Calls(k, last), exit)
                 /\ \/ Leaves
                    \/ ToTools(Calls(k, last)) /\ recoveries' \in {0, recoveries}
                    \/ ToClosing
              \/ /\ history' = Append(Replied(Calls(k, last), exit), FromUser("recovery"))
                 /\ Recovers
<1>1. \A k \in 0..MaxPerReply, last \in {"whole", "broken", "none"} : Len(Calls(k, last)) = k
  BY LimitsAreNat DEF Calls
<1>2. CASE ProviderReply
  <2>1. PICK k \in 0..MaxPerReply, last \in {"whole", "broken", "none"}, exit \in HookExits :
          /\ pc = "sampling" /\ Record(Calls(k, last), exit)
          /\ Leaves \/ (ToTools(Calls(k, last)) /\ UNCHANGED recoveries) \/ ToClosing
    BY <1>2, Zenon DEF ProviderReply, ReplyEnds, Leaves
  <2>2. /\ nextCall + k <= MaxCalls /\ nextCall' = nextCall + Len(Calls(k, last))
        /\ history' = Replied(Calls(k, last), exit)
    BY <1>1, <2>1 DEF Record
  <2>3. QED
    BY <2>1, <2>2, Zenon
<1>3. CASE AnthropicReply
  <2>1. PICK k \in 0..MaxPerReply, stop \in {"end_turn", "max_tokens", "tool_use"},
             exit \in HookExits :
          /\ pc = "sampling"
          /\ \/ Record(Calls(k, "whole"), exit) /\ ReplyEnds
             \/ Record(Calls(k, "whole"), exit) /\ ToClosing
             \/ /\ Record(Calls(k, "whole"), exit)
                /\ ToTools(Calls(k, "whole")) /\ recoveries' = 0
             \/ CutShort(k, exit)
    BY <1>3, ZenonT(30) DEF AnthropicReply
  <2>2. CASE Record(Calls(k, "whole"), exit)
               /\ (ReplyEnds \/ ToClosing
                     \/ (ToTools(Calls(k, "whole")) /\ recoveries' = 0))
    <3>1. /\ nextCall + k <= MaxCalls /\ nextCall' = nextCall + Len(Calls(k, "whole"))
          /\ history' = Replied(Calls(k, "whole"), exit)
      BY <1>1, <2>2 DEF Record
    <3>2. \/ Leaves
          \/ ToTools(Calls(k, "whole")) /\ recoveries' \in {0, recoveries}
          \/ ToClosing
      BY <2>2 DEF ReplyEnds, Leaves
    <3>3. QED
      BY <2>1, <3>1, <3>2, Zenon
  <2>3. CASE CutShort(k, exit)
    <3>1. nextCall + k <= MaxCalls /\ nextCall' = nextCall + Len(Calls(k, "whole"))
      BY <1>1, <2>3 DEF CutShort
    <3>2. \/ history' = Replied(Calls(k, "whole"), exit) /\ Leaves
          \/ /\ history' = Append(Replied(Calls(k, "whole"), exit), FromUser("recovery"))
             /\ Recovers
      BY <2>3, Zenon DEF CutShort, Leaves, Recovers
    <3>3. QED
      BY <2>1, <3>1, <3>2, Zenon
  <2>4. QED
    BY <2>1, <2>2, <2>3
<1>4. QED
  BY <1>2, <1>3

LEMMA FlagsReply ==
  ASSUME FlagsOK, ProviderReply \/ AnthropicReply
  PROVE  FlagsOK'
<1> USE SwitchesAssumption DEF FlagsOK, loopVars, advisorVars, mailVars
<1>1. CASE pc = "sampling" /\ Leaves
  BY <1>1 DEF Leaves, Return, Locals
<1>2. CASE \E calls : pc = "sampling" /\ ToTools(calls) /\ recoveries' \in {0, recoveries}
  BY <1>2 DEF ToTools
<1>3. CASE pc = "sampling" /\ ToClosing
  BY <1>3 DEF ToClosing
<1>4. CASE pc = "sampling" /\ Recovers
  BY <1>4 DEF Recovers
<1>5. QED
  BY <1>1, <1>2, <1>3, <1>4, ReplyCases, Zenon

LEMMA FlagsStep ==
  ASSUME FlagsOK, [Next]_vars
  PROVE  FlagsOK'
<1> USE SwitchesAssumption DEF FlagsOK, loopVars, advisorVars, mailVars, toolVars
<1>1. CASE Prompt
  BY <1>1 DEF Prompt, Locals
<1>2. CASE TurnTop
  BY <1>2 DEF TurnTop
<1>3. CASE SummaryTop
  BY <1>3 DEF SummaryTop
<1>4. CASE LimitReached
  BY <1>4 DEF LimitReached, Return, Locals
<1>5. CASE CancelSeen
  BY <1>5 DEF CancelSeen, Return, Locals
<1>6. CASE SendWhole
  BY <1>6 DEF SendWhole, Send
<1>7. CASE SendCompacted
  BY <1>7 DEF SendCompacted, Send
<1>8. CASE SendUncompacted
  BY <1>8 DEF SendUncompacted, Send
<1>9. CASE FallBack
  BY <1>9 DEF FallBack, Again
<1>10. CASE RequestFails
  BY <1>10 DEF RequestFails, Return, Locals
<1>11. CASE StreamRetried
  BY <1>11 DEF StreamRetried, Again, UncountedVars
<1>12. CASE StreamCancelled
  BY <1>12 DEF StreamCancelled, Return, Locals
<1>13. CASE ProseInterrupt
  BY <1>13 DEF ProseInterrupt, Again, UncountedVars
<1>14. CASE AdvisorInterrupt
  BY <1>14 DEF AdvisorInterrupt, Again, UncountedVars
<1>15. CASE ProviderReply
  BY <1>15, FlagsReply
<1>16. CASE AnthropicReply
  BY <1>16, FlagsReply
<1>17. CASE OverBudget
  BY <1>17 DEF OverBudget, Return, Locals
<1>18. CASE RunTool
  BY <1>18 DEF RunTool
<1>19. CASE ToolsDone
  BY <1>19 DEF ToolsDone
<1>20. CASE ToolsCancelled
  BY <1>20 DEF ToolsCancelled, Return, Locals
<1>21. CASE Woken
  BY <1>21 DEF Woken, Again, UncountedVars
<1>22. CASE GoalContinues
  BY <1>22 DEF GoalContinues
<1>23. CASE TurnEnds
  BY <1>23 DEF TurnEnds, Return, Locals
<1>24. CASE Review
  BY <1>24 DEF Review
<1>25. CASE MailArrives
  BY <1>25 DEF MailArrives
<1>26. CASE Cancel
  BY <1>26 DEF Cancel
<1>27. CASE UNCHANGED vars
  BY <1>27 DEF vars
<1>28. QED
  BY <1>1, <1>2, <1>3, <1>4, <1>5, <1>6, <1>7, <1>8, <1>9, <1>10, <1>11, <1>12, <1>13,
     <1>14, <1>15, <1>16, <1>17, <1>18, <1>19, <1>20, <1>21, <1>22, <1>23, <1>24, <1>25,
     <1>26, <1>27
     DEF Next, LoopStep, BuildRequest

LEMMA CountersReply ==
  ASSUME CountersOK, ProviderReply \/ AnthropicReply
  PROVE  CountersOK'
<1> USE LimitsAreNat DEF CountersOK, loopVars, advisorVars, mailVars
<1>1. CASE pc = "sampling" /\ Leaves
  BY <1>1 DEF Leaves, Return, Locals
<1>2. CASE \E calls : pc = "sampling" /\ ToTools(calls) /\ recoveries' \in {0, recoveries}
  BY <1>2 DEF ToTools
<1>3. CASE pc = "sampling" /\ ToClosing
  BY <1>3 DEF ToClosing
<1>4. CASE pc = "sampling" /\ Recovers
  BY <1>4 DEF Recovers
<1>5. QED
  BY <1>1, <1>2, <1>3, <1>4, ReplyCases, Zenon

LEMMA CountersStep ==
  ASSUME CountersOK, FlagsOK, [Next]_vars
  PROVE  CountersOK'
<1> USE LimitsAreNat DEF CountersOK, loopVars, advisorVars, mailVars, toolVars
<1>1. CASE Prompt
  BY <1>1 DEF Prompt, Locals
<1>2. CASE TurnTop
  BY <1>2 DEF TurnTop
<1>3. CASE SummaryTop
  BY <1>3 DEF SummaryTop
<1>4. CASE LimitReached
  BY <1>4 DEF LimitReached, Return, Locals
<1>5. CASE CancelSeen
  BY <1>5 DEF CancelSeen, Return, Locals
<1>6. CASE SendWhole
  BY <1>6 DEF SendWhole, Send
<1>7. CASE SendCompacted
  BY <1>7 DEF SendCompacted, Send
<1>8. CASE SendUncompacted
  BY <1>8 DEF SendUncompacted, Send
<1>9. CASE FallBack
  BY <1>9 DEF FallBack, Again
<1>10. CASE RequestFails
  BY <1>10 DEF RequestFails, Return, Locals
<1>11. CASE StreamRetried
  BY <1>11 DEF StreamRetried, Again, UncountedVars
<1>12. CASE StreamCancelled
  BY <1>12 DEF StreamCancelled, Return, Locals
<1>13. CASE ProseInterrupt
  BY <1>13 DEF ProseInterrupt, Again, UncountedVars
<1>14. CASE AdvisorInterrupt
  BY <1>14 DEF AdvisorInterrupt, Again, UncountedVars
<1>15. CASE ProviderReply
  BY <1>15, CountersReply
<1>16. CASE AnthropicReply
  BY <1>16, CountersReply
<1>17. CASE OverBudget
  BY <1>17 DEF OverBudget, Return, Locals
<1>18. CASE RunTool
  BY <1>18 DEF RunTool
<1>19. CASE ToolsDone
  BY <1>19 DEF ToolsDone
<1>20. CASE ToolsCancelled
  BY <1>20 DEF ToolsCancelled, Return, Locals
<1>21. CASE Woken
  BY <1>21 DEF Woken, Again, UncountedVars
<1>22. CASE GoalContinues
  BY <1>22 DEF GoalContinues
<1>23. CASE TurnEnds
  BY <1>23 DEF TurnEnds, Return, Locals
<1>24. CASE Review
  BY <1>24 DEF Review
<1>25. CASE MailArrives
  BY <1>25 DEF MailArrives
<1>26. CASE Cancel
  BY <1>26 DEF Cancel
<1>27. CASE UNCHANGED vars
  BY <1>27 DEF vars
<1>28. QED
  BY <1>1, <1>2, <1>3, <1>4, <1>5, <1>6, <1>7, <1>8, <1>9, <1>10, <1>11, <1>12, <1>13,
     <1>14, <1>15, <1>16, <1>17, <1>18, <1>19, <1>20, <1>21, <1>22, <1>23, <1>24, <1>25,
     <1>26, <1>27
     DEF Next, LoopStep, BuildRequest

-----------------------------------------------------------------------------
(* The history, step by step.                                               *)

\* g is a history that tells of every call at least what h does, and knows no others.
Spoken(h, g) ==
  /\ g \in Seq(Chat)
  /\ \A R : Told(h, FALSE, R) => Told(g, FALSE, R)
  /\ \A n \in Nat : Known(h, n) => Known(g, n)

LEMMA SpokenThrough ==
  ASSUME NEW h, NEW f, NEW g, Spoken(h, f), Spoken(f, g)
  PROVE  Spoken(h, g)
  BY DEF Spoken

LEMMA SpokenSame ==
  ASSUME NEW h \in Seq(Chat)
  PROVE  Spoken(h, h)
  BY DEF Spoken

LEMMA SpokenAppend ==
  ASSUME NEW h \in Seq(Chat), NEW kind \in UserKinds
  PROVE  Spoken(h, Append(h, FromUser(kind)))
  BY AppendUser DEF Spoken

LEMMA SpokenNotes ==
  ASSUME NEW h \in Seq(Chat)
  PROVE  Spoken(h, WithNotes(h))
  BY WithNotesIs DEF Spoken

LEMMA SpokenDelivered ==
  ASSUME NEW h \in Seq(Chat)
  PROVE  Spoken(h, deliver_inbox(h))
  BY DeliveredIs DEF Spoken

LEMMA SpokenCompacted ==
  ASSUME NEW h \in Seq(Chat), NEW c \in compact_conversation(h)
  PROVE  Spoken(h, c)
  BY CompactedIsChat DEF Spoken

LEMMA SpokenSanitized ==
  ASSUME NEW h \in Seq(Chat)
  PROVE  Spoken(h, sanitize_history(h)) /\ Sound(sanitize_history(h), FALSE)
<1>1. Told(h, FALSE, {})
  BY DEF Told
<1>2. /\ sanitize_history(h) \in Seq(Chat) /\ Sound(sanitize_history(h), FALSE)
      /\ \A n \in Nat : Known(h, n) => Known(sanitize_history(h), n)
  BY <1>1, SanitizedIsHealed
<1>3. \A R : Told(h, FALSE, R) => Told(sanitize_history(h), FALSE, R)
  BY SanitizedIsHealed
<1>4. QED
  BY <1>2, <1>3 DEF Spoken

\* A request goes out with a history that is in order.
LEMMA SendsSound ==
  ASSUME history \in Seq(Chat), BuildRequest
  PROVE  /\ Spoken(history, history') /\ Sound(history', FALSE)
         /\ pc = "ready" /\ pc' = "sampling" /\ UNCHANGED toolVars
<1> DEFINE d == deliver_inbox(history)
<1>1. Spoken(history, d) /\ d \in Seq(Chat)
  BY SpokenDelivered DEF Spoken
<1>2. PICK h : Send(h) /\ (h = d \/ h \in compact_conversation(d))
  BY DEF BuildRequest, SendWhole, SendCompacted, SendUncompacted
<1>3. Spoken(d, h)
  <2> HIDE DEF d
  <2>1. QED
    BY <1>1, <1>2, SpokenSame, SpokenCompacted
<1>4. h \in Seq(Chat)
  BY <1>3 DEF Spoken
<1>5. Spoken(h, sanitize_history(h)) /\ Sound(sanitize_history(h), FALSE)
  BY <1>4, SpokenSanitized
<1>6. /\ history' = sanitize_history(h) /\ pc = "ready" /\ pc' = "sampling"
      /\ UNCHANGED toolVars
  BY <1>2 DEF Send
<1>7. Spoken(history, sanitize_history(h))
  BY <1>1, <1>3, <1>5, SpokenThrough
<1>8. QED
  BY <1>5, <1>6, <1>7

\* The steps that only add messages of the loop's own, or none.
Speaks ==
  \/ Prompt \/ TurnTop \/ SummaryTop \/ LimitReached \/ CancelSeen
  \/ FallBack \/ RequestFails \/ StreamRetried \/ StreamCancelled
  \/ ProseInterrupt \/ AdvisorInterrupt \/ OverBudget
  \/ Woken \/ GoalContinues \/ TurnEnds

LEMMA SpeaksIs ==
  ASSUME history \in Seq(Chat), Speaks
  PROVE  /\ Spoken(history, history')
         /\ pc \notin {"tools"} /\ pc' \notin {"tools", "sampling"}
         /\ UNCHANGED <<nextCall, ran>>
<1> USE DEF Again, Return, UncountedVars, toolVars
<1>1. Spoken(history, history) /\ Spoken(history, WithNotes(history))
  BY SpokenSame, SpokenNotes
<1>2. \A kind \in UserKinds : /\ Spoken(history, Append(history, FromUser(kind)))
                              /\ Spoken(history, Append(WithNotes(history), FromUser(kind)))
  <2>1. WithNotes(history) \in Seq(Chat)
    BY <1>1 DEF Spoken
  <2>2. QED
    BY <1>1, <2>1, SpokenAppend, SpokenThrough
<1>3. "prompt" \in UserKinds /\ "limit" \in UserKinds /\ "rule" \in UserKinds
      /\ "note" \in UserKinds /\ "goal" \in UserKinds
  BY DEF UserKinds
<1>4. CASE Prompt
  BY <1>2, <1>3, <1>4 DEF Prompt
<1>5. CASE TurnTop
  BY <1>1, <1>5 DEF TurnTop
<1>6. CASE SummaryTop
  BY <1>2, <1>3, <1>6 DEF SummaryTop
<1>7. CASE LimitReached
  BY <1>1, <1>7 DEF LimitReached
<1>8. CASE CancelSeen
  BY <1>1, <1>8 DEF CancelSeen
<1>9. CASE FallBack
  BY <1>1, <1>9 DEF FallBack
<1>10. CASE RequestFails
  BY <1>1, <1>10 DEF RequestFails
<1>11. CASE StreamRetried
  BY <1>1, <1>11 DEF StreamRetried
<1>12. CASE StreamCancelled
  BY <1>1, <1>12 DEF StreamCancelled
<1>13. CASE ProseInterrupt
  BY <1>2, <1>3, <1>13 DEF ProseInterrupt
<1>14. CASE AdvisorInterrupt
  BY <1>2, <1>3, <1>14 DEF AdvisorInterrupt
<1>15. CASE OverBudget
  BY <1>1, <1>15 DEF OverBudget
<1>16. CASE Woken
  BY <1>1, <1>16 DEF Woken
<1>17. CASE GoalContinues
  BY <1>2, <1>3, <1>17 DEF GoalContinues
<1>18. CASE TurnEnds
  BY <1>1, <1>18 DEF TurnEnds
<1>19. QED
  BY <1>4, <1>5, <1>6, <1>7, <1>8, <1>9, <1>10, <1>11, <1>12, <1>13, <1>14, <1>15, <1>16, <1>17,
     <1>18 DEF Speaks

\* What the surroundings do leaves the history and the batch alone.
LEMMA SurroundingsKeep ==
  ASSUME Review \/ MailArrives \/ Cancel \/ UNCHANGED vars
  PROVE  UNCHANGED <<history, pc, reply, finished, nextCall, ran>>
<1>1. CASE Review
  BY <1>1 DEF Review, toolVars
<1>2. CASE MailArrives
  BY <1>2 DEF MailArrives, toolVars
<1>3. CASE Cancel
  BY <1>3 DEF Cancel, toolVars
<1>4. CASE UNCHANGED vars
  BY <1>4 DEF vars, toolVars
<1>5. QED
  BY <1>1, <1>2, <1>3, <1>4

\* The six kinds of steps.
LEMMA NextCases ==
  ASSUME [Next]_vars
  PROVE  \/ Speaks \/ BuildRequest \/ (ProviderReply \/ AnthropicReply)
         \/ RunTool \/ ToolsDone \/ ToolsCancelled
         \/ (Review \/ MailArrives \/ Cancel \/ UNCHANGED vars)
  BY DEF Next, LoopStep, Speaks

\* A reply puts its calls, which are new, behind the history.
LEMMA RepliedTells ==
  ASSUME history \in Seq(Chat), Known(history, nextCall), nextCall \in Nat,
         Told(history, FALSE, ran), \A c \in ran : c.n <= nextCall,
         NEW k \in Nat, nextCall + k <= MaxCalls, NEW last \in {"whole", "broken", "none"},
         NEW exit
  PROVE  /\ Replied(Calls(k, last), exit) \in Seq(Chat)
         /\ Told(Replied(Calls(k, last), exit), FALSE, ran)
         /\ Known(Replied(Calls(k, last), exit), nextCall + k)
<1> DEFINE calls == Range(Calls(k, last))
<1> DEFINE h == Append(history, FromModel(calls))
<1>1. calls \in SUBSET Call /\ \A c \in calls : c.n > nextCall /\ c.n <= nextCall + k
  BY CallsAre
<1> HIDE DEF calls
<1>2. FromModel(calls) \in Chat /\ FromModel(calls).uses = calls
  BY <1>1, FromModelIsChat
<1>3. \A c \in calls : c.n \in Nat
  BY <1>1 DEF Call
<1>4. calls \cap ran = {}
  <2>1. ASSUME NEW c \in calls, c \in ran PROVE FALSE
    <3>1. c.n > nextCall /\ c.n <= nextCall /\ c.n \in Nat
      BY <1>1, <1>3, <2>1
    <3>2. QED
      BY <3>1
  <2>2. QED
    BY <2>1
<1>5. h \in Seq(Chat) /\ Told(h, FALSE, ran)
  BY <1>2, <1>4, AppendIs, ToldPlain
<1>6. Known(h, nextCall + k)
  <2>1. Known(history, nextCall + k)
    <3>1. ASSUME NEW i \in 1..Len(history), NEW c \in history[i].uses
          PROVE  c.n <= nextCall + k
      <4>1. c.n <= nextCall /\ c \in Call
        BY ChatIsMessage DEF Known
      <4>2. c.n \in Nat
        BY <4>1 DEF Call
      <4>3. QED
        BY <4>1, <4>2
    <3>2. QED
      BY <3>1 DEF Known
  <2>2. nextCall + k \in Nat
    OBVIOUS
  <2>3. \A c \in FromModel(calls).uses : c.n <= nextCall + k
    BY <1>1, <1>2
  <2>4. QED
    BY <1>2, <2>1, <2>2, <2>3, KnownAppend
<1>7. Replied(Calls(k, last), exit) = IF exit = 0 THEN h ELSE Append(h, FromUser("hook"))
  BY DEF Replied, calls
<1> HIDE DEF h
<1>8. "hook" \in UserKinds /\ nextCall + k \in Nat
  BY DEF UserKinds
<1>9. /\ Append(h, FromUser("hook")) \in Seq(Chat)
      /\ Told(Append(h, FromUser("hook")), FALSE, ran)
      /\ Known(Append(h, FromUser("hook")), nextCall + k)
  BY <1>5, <1>6, <1>8, AppendUser
<1>10. QED
  BY <1>5, <1>6, <1>7, <1>9

\* The message of the batch is the last one, or the last but what a hook said.
IsLastReply(h, i) == i = Len(h) \/ (i + 1 = Len(h) /\ h[i + 1].kind = "hook")

LEMMA RepliedEnds ==
  ASSUME history \in Seq(Chat), Known(history, nextCall), nextCall \in Nat,
         NEW k \in Nat, nextCall + k <= MaxCalls, NEW last \in {"whole", "broken", "none"},
         NEW exit, NEW i \in 1..Len(Replied(Calls(k, last), exit)),
         Replied(Calls(k, last), exit)[i].uses \cap Range(Calls(k, last)) # {}
  PROVE  IsLastReply(Replied(Calls(k, last), exit), i)
<1> DEFINE calls == Range(Calls(k, last))
<1> DEFINE h == Append(history, FromModel(calls))
<1> DEFINE g == Append(h, FromUser("hook"))
<1>1. calls \in SUBSET Call /\ \A c \in calls : c.n > nextCall
  BY CallsAre
<1> HIDE DEF calls
<1>2. FromModel(calls) \in Chat
  BY <1>1, FromModelIsChat
<1>3. /\ h \in Seq(Chat) /\ Len(h) = Len(history) + 1 /\ Len(history) \in Nat
      /\ \A j \in 1..Len(history) : h[j] = history[j]
  BY <1>2, AppendIs
<1>4. ASSUME NEW j \in 1..Len(history) PROVE h[j].uses \cap calls = {}
  <2>1. ASSUME NEW c \in h[j].uses, c \in calls PROVE FALSE
    <3>1. c.n <= nextCall /\ c.n > nextCall
      BY <1>1, <1>3, <2>1 DEF Known
    <3>2. c.n \in Nat
      BY <1>1, <2>1 DEF Call
    <3>3. QED
      BY <3>1, <3>2
  <2>2. QED
    BY <2>1
<1> HIDE DEF h
<1>5. FromUser("hook") \in Chat /\ FromUser("hook").uses = {} /\ FromUser("hook").kind = "hook"
  BY FromUserIsChat DEF UserKinds
<1>6. /\ Len(g) = Len(h) + 1 /\ g[Len(h) + 1] = FromUser("hook")
      /\ \A j \in 1..Len(h) : g[j] = h[j]
  BY <1>3, <1>5, AppendIs
<1>7. Replied(Calls(k, last), exit) = IF exit = 0 THEN h ELSE g
  BY DEF Replied, calls, h
<1> HIDE DEF g
<1>8. CASE exit = 0
  <2>1. Replied(Calls(k, last), exit) = h
    BY <1>7, <1>8
  <2>2. i \in 1..Len(h) /\ h[i].uses \cap calls # {}
    BY <2>1 DEF calls
  <2>3. i = Len(h)
    BY <1>3, <1>4, <2>2
  <2>4. QED
    BY <2>1, <2>3 DEF IsLastReply
<1>9. CASE exit # 0
  <2>1. Replied(Calls(k, last), exit) = g
    BY <1>7, <1>9
  <2>2. i \in 1..Len(g) /\ g[i].uses \cap calls # {}
    BY <2>1 DEF calls
  <2>3. i # Len(h) + 1
    BY <1>5, <1>6, <2>2
  <2>4. i \in 1..Len(h) /\ h[i].uses \cap calls # {}
    BY <1>3, <1>6, <2>2, <2>3
  <2>5. i = Len(h)
    BY <1>3, <1>4, <2>4
  <2>6. QED
    BY <1>5, <1>6, <2>1, <2>5 DEF IsLastReply
<1>10. QED
  BY <1>8, <1>9

\* A batch is closed by a message with a result for each of its calls, or that says
\* the user cancelled it.
LEMMA BatchTold ==
  ASSUME history \in Seq(Chat), NEW m \in Chat, m.uses = {}, NEW B,
         m.kind = "cancelled" \/ B \subseteq m.answers,
         Told(history, FALSE, ran \ B),
         \A i \in 1..Len(history) : history[i].uses \cap B # {} => IsLastReply(history, i)
  PROVE  Told(Append(history, m), FALSE, ran)
<1> DEFINE g == Append(history, m)
<1>1. /\ Len(g) = Len(history) + 1 /\ Len(history) \in Nat /\ g[Len(history) + 1] = m
      /\ \A i \in 1..Len(history) : g[i] = history[i]
      /\ \A i \in 1..Len(g) : i \in 1..Len(history) \/ i = Len(history) + 1
  BY AppendIs
<1>2. ASSUME NEW i \in 1..Len(g), NEW c \in g[i].uses \cap ran
      PROVE  Reported(g, i, c)
  <2>1. i \in 1..Len(history) /\ c \in history[i].uses
    BY <1>1, <1>2
  <2>2. CASE c \notin B
    <3>1. Reported(history, i, c)
      BY <1>2, <2>1, <2>2 DEF Told
    <3>2. QED
      BY <2>1, <3>1, ReportedAppend
  <2>3. CASE c \in B
    <3>1. IsLastReply(history, i)
      BY <2>1, <2>3
    <3>2. CASE i = Len(history)
      <4>1. i < Len(g) /\ g[i + 1] = m
        BY <1>1, <3>2
      <4>2. QED
        BY <2>3, <4>1 DEF Reported
    <3>3. CASE i + 1 = Len(history) /\ history[i + 1].kind = "hook"
      BY <1>1, <2>1, <3>3 DEF Reported
    <3>4. QED
      BY <3>1, <3>2, <3>3 DEF IsLastReply
  <2>4. QED
    BY <2>2, <2>3
<1>3. QED
  BY <1>2 DEF Told

\* Every call whose tool ran is reported behind the message that made it, but for
\* the batch that is being run; that one is the last in the history.
Tracked ==
  /\ Known(history, nextCall)
  /\ \A c \in ran : c.n <= nextCall
  /\ pc # "tools" => Told(history, FALSE, ran)
  /\ pc = "tools" =>
       /\ \A c \in Range(reply) : c.n <= nextCall
       /\ Told(history, FALSE, ran \ Range(reply))
       /\ \A i \in 1..Len(history) :
            history[i].uses \cap Range(reply) # {} => IsLastReply(history, i)

LEMMA InitTracked == Init => Tracked
  BY DEF Init, Tracked, Known, Told

\* What a reply leaves: new calls, and a batch of all of them or of none.
LEMMA ReplyTracked ==
  ASSUME Typed, Tracked, ProviderReply \/ AnthropicReply
  PROVE  history' \in Seq(Chat) /\ BatchOK' /\ Tracked'
<1>1. PICK k \in 0..MaxPerReply, last \in {"whole", "broken", "none"}, exit \in HookExits :
           /\ pc = "sampling" /\ nextCall + k <= MaxCalls
           /\ nextCall' = nextCall + Len(Calls(k, last))
           /\ \/ /\ history' = Replied(Calls(k, last), exit)
                 /\ \/ Leaves
                    \/ ToTools(Calls(k, last)) /\ recoveries' \in {0, recoveries}
                    \/ ToClosing
              \/ /\ history' = Append(Replied(Calls(k, last), exit), FromUser("recovery"))
                 /\ Recovers
  BY ReplyCases, Zenon
<1>2. k \in Nat /\ nextCall \in Nat /\ history \in Seq(Chat) /\ ran \subseteq Call
  BY LimitsAreNat DEF Typed, BatchOK
<1>3. /\ Calls(k, last) \in Seq(Call) /\ Len(Calls(k, last)) = k
      /\ Range(Calls(k, last)) \subseteq Call
      /\ \A c \in Range(Calls(k, last)) : c.n > nextCall /\ c.n <= nextCall + k
  BY <1>1, <1>2, CallsAre
<1>4. nextCall' = nextCall + k /\ nextCall' \in 0..MaxCalls
  BY <1>1, <1>2, <1>3, LimitsAreNat
<1> DEFINE h == Replied(Calls(k, last), exit)
<1>5. Known(history, nextCall) /\ Told(history, FALSE, ran) /\ \A c \in ran : c.n <= nextCall
  BY <1>1 DEF Tracked
<1>6. h \in Seq(Chat) /\ Told(h, FALSE, ran) /\ Known(h, nextCall')
  BY <1>1, <1>2, <1>4, <1>5, RepliedTells
<1>7. \A i \in 1..Len(h) : h[i].uses \cap Range(Calls(k, last)) # {} => IsLastReply(h, i)
  BY <1>1, <1>2, <1>5, RepliedEnds
<1>8. \A c \in ran : c.n <= nextCall'
  <2>1. \A c \in ran : c.n \in Nat /\ c.n <= nextCall
    BY <1>2, <1>5 DEF Call
  <2>2. QED
    BY <1>2, <1>4, <2>1
<1> HIDE DEF h
<1>9. CASE history' = h /\ Leaves
  <2>1. reply' = <<>> /\ finished' = {} /\ ran' = ran /\ pc' = "idle"
    BY <1>9 DEF Leaves, Return, Locals
  <2>2. BatchOK'
    <3>1. <<>> \in Seq(Call) /\ Range(<<>>) = {}
      BY DEF Range
    <3>2. QED
      BY <1>2, <1>4, <2>1, <3>1 DEF BatchOK
  <2>3. QED
    BY <1>6, <1>8, <1>9, <2>1, <2>2 DEF Tracked
<1>10. CASE history' = h /\ ToTools(Calls(k, last))
  <2>1. reply' = Calls(k, last) /\ finished' = {} /\ ran' = ran /\ pc' = "tools"
    BY <1>10 DEF ToTools
  <2>2. BatchOK'
    BY <1>2, <1>3, <1>4, <2>1 DEF BatchOK
  <2>3. Told(h, FALSE, ran \ Range(Calls(k, last)))
    BY <1>6 DEF Told
  <2>4. \A c \in Range(Calls(k, last)) : c.n <= nextCall'
    BY <1>3, <1>4
  <2>5. QED
    BY <1>6, <1>7, <1>8, <1>10, <2>1, <2>2, <2>3, <2>4 DEF Tracked
<1>11. CASE history' = h /\ ToClosing
  <2>1. reply' = reply /\ finished' = finished /\ ran' = ran /\ pc' = "closing"
    BY <1>11 DEF ToClosing
  <2>2. BatchOK'
    BY <1>4, <2>1 DEF BatchOK, Typed
  <2>3. QED
    BY <1>6, <1>8, <1>11, <2>1, <2>2 DEF Tracked
<1>12. CASE history' = Append(h, FromUser("recovery")) /\ Recovers
  <2>1. reply' = reply /\ finished' = finished /\ ran' = ran /\ pc' = "top"
    BY <1>12 DEF Recovers
  <2>2. BatchOK'
    BY <1>4, <2>1 DEF BatchOK, Typed
  <2>3. "recovery" \in UserKinds /\ nextCall' \in Nat
    BY <1>4 DEF UserKinds
  <2>4. /\ history' \in Seq(Chat) /\ Told(history', FALSE, ran) /\ Known(history', nextCall')
    BY <1>6, <1>12, <2>3, AppendUser
  <2>5. QED
    BY <1>8, <2>1, <2>2, <2>4 DEF Tracked
<1>13. QED
  BY <1>1, <1>9, <1>10, <1>11, <1>12 DEF h

\* What a step of the loop does to the history and to what is known of its calls.
LEMMA TrackedStep ==
  ASSUME Typed, Tracked, [Next]_vars
  PROVE  history' \in Seq(Chat) /\ BatchOK' /\ Tracked'
<1>1. history \in Seq(Chat) /\ BatchOK /\ nextCall \in Nat /\ ran \subseteq Call
  BY DEF Typed, BatchOK
<1>2. CASE Speaks
  <2>1. /\ Spoken(history, history') /\ pc # "tools" /\ pc' # "tools"
        /\ nextCall' = nextCall /\ ran' = ran
    BY <1>1, <1>2, SpeaksIs
  <2>2. (reply' = <<>> /\ finished' = {}) \/ (reply' = reply /\ finished' = finished)
    BY <1>2, Zenon DEF Speaks, Prompt, TurnTop, SummaryTop, LimitReached, CancelSeen, FallBack,
      RequestFails, StreamRetried, StreamCancelled, ProseInterrupt, AdvisorInterrupt, OverBudget,
      Woken, GoalContinues, TurnEnds, Return, Locals, UncountedVars, toolVars
  <2>3. BatchOK'
    BY <1>1, <2>1, <2>2, BatchDropped, BatchKept DEF toolVars
  <2>4. history' \in Seq(Chat) /\ Told(history', FALSE, ran) /\ Known(history', nextCall)
    BY <1>1, <2>1 DEF Tracked, Spoken
  <2>5. QED
    BY <2>1, <2>3, <2>4 DEF Tracked
<1>3. CASE BuildRequest
  <2>1. /\ Spoken(history, history') /\ pc # "tools" /\ pc' # "tools" /\ UNCHANGED toolVars
    BY <1>1, <1>3, SendsSound
  <2>2. BatchOK' /\ nextCall' = nextCall /\ ran' = ran
    BY <1>1, <2>1, BatchKept DEF toolVars
  <2>3. history' \in Seq(Chat) /\ Told(history', FALSE, ran) /\ Known(history', nextCall)
    BY <1>1, <2>1 DEF Tracked, Spoken
  <2>4. QED
    BY <2>1, <2>2, <2>3 DEF Tracked
<1>4. CASE ProviderReply \/ AnthropicReply
  BY <1>4, ReplyTracked
<1>5. CASE RunTool
  <2>1. /\ pc = "tools" /\ pc' = pc /\ history' = history /\ reply' = reply /\ nextCall' = nextCall
    BY <1>5 DEF RunTool
  <2>2. PICK i \in 1..Len(reply) : /\ finished' = finished \cup {reply[i]}
                                   /\ ran' = ran \/ ran' = ran \cup {reply[i]}
    BY <1>5 DEF RunTool
  <2>3. reply[i] \in Range(reply)
    BY <1>1, <2>2 DEF Range, BatchOK
  <2>4. BatchOK'
    BY <1>1, <2>1, <2>2, <2>3 DEF BatchOK
  <2>5. \A c \in ran' : c.n <= nextCall'
    BY <2>1, <2>2, <2>3 DEF Tracked
  <2>6. ran' \ Range(reply) = ran \ Range(reply)
    BY <2>2, <2>3
  <2>7. QED
    BY <1>1, <2>1, <2>4, <2>5, <2>6 DEF Tracked
<1>6. CASE ToolsDone
  <2> DEFINE m == [FromUser("results") EXCEPT !.answers = Range(reply)]
  <2>1. /\ pc = "tools" /\ pc' = "top" /\ history' = Append(history, m)
        /\ reply' = <<>> /\ finished' = {} /\ nextCall' = nextCall /\ ran' = ran
    BY <1>6 DEF ToolsDone
  <2>2. m \in Chat /\ m.answers = Range(reply) /\ m.uses = {}
    <3>1. Range(reply) \subseteq Call /\ "results" \in UserKinds
      BY <1>1 DEF UserKinds, BatchOK
    <3>2. QED
      BY <3>1 DEF FromUser, Chat, Message, Results
  <2> HIDE DEF m
  <2>3. Told(history', FALSE, ran)
    BY <1>1, <2>1, <2>2, BatchTold DEF Tracked
  <2>4. history' \in Seq(Chat) /\ Known(history', nextCall)
    BY <1>1, <2>1, <2>2, AppendIs, KnownAppend DEF Tracked
  <2>5. BatchOK'
    BY <1>1, <2>1, BatchDropped
  <2>6. QED
    BY <2>1, <2>3, <2>4, <2>5 DEF Tracked
<1>7. CASE ToolsCancelled
  <2> DEFINE m == [FromUser("cancelled") EXCEPT !.blanks = Range(reply)]
  <2>1. /\ pc = "tools" /\ pc' = "idle" /\ history' = Append(history, m)
        /\ reply' = <<>> /\ finished' = {} /\ nextCall' = nextCall /\ ran' = ran
    BY <1>7 DEF ToolsCancelled, Return, Locals
  <2>2. m \in Chat /\ m.kind = "cancelled" /\ m.uses = {}
    <3>1. Range(reply) \subseteq Call /\ "cancelled" \in UserKinds
      BY <1>1 DEF UserKinds, BatchOK
    <3>2. QED
      BY <3>1 DEF FromUser, Chat, Message, Results
  <2> HIDE DEF m
  <2>3. Told(history', FALSE, ran)
    BY <1>1, <2>1, <2>2, BatchTold DEF Tracked
  <2>4. history' \in Seq(Chat) /\ Known(history', nextCall)
    BY <1>1, <2>1, <2>2, AppendIs, KnownAppend DEF Tracked
  <2>5. BatchOK'
    BY <1>1, <2>1, BatchDropped
  <2>6. QED
    BY <2>1, <2>3, <2>4, <2>5 DEF Tracked
<1>8. CASE Review \/ MailArrives \/ Cancel \/ UNCHANGED vars
  <2>1. UNCHANGED <<history, pc, reply, finished, nextCall, ran>>
    BY <1>8, SurroundingsKeep
  <2>2. QED
    BY <1>1, <2>1, BatchKept DEF Tracked, toolVars
<1>9. QED
  BY <1>2, <1>3, <1>4, <1>5, <1>6, <1>7, <1>8, NextCases, Zenon

LEMMA TypedStep ==
  ASSUME Typed, Tracked, [Next]_vars
  PROVE  Typed' /\ Tracked'
<1>1. FlagsOK' /\ CountersOK'
  BY FlagsStep, CountersStep DEF Typed
<1>2. history' \in Seq(Chat) /\ BatchOK' /\ Tracked'
  BY TrackedStep
<1>3. QED
  BY <1>1, <1>2 DEF Typed

\* A history is in order from the moment it is sent.
SentSound == pc = "sampling" => Sound(history, FALSE)

LEMMA SentSoundStep ==
  ASSUME Typed, Tracked, SentSound, [Next]_vars
  PROVE  SentSound'
<1>1. history \in Seq(Chat)
  BY DEF Typed
<1>2. CASE Speaks
  BY <1>1, <1>2, SpeaksIs DEF SentSound
<1>3. CASE BuildRequest
  BY <1>1, <1>3, SendsSound DEF SentSound
<1>4. CASE ProviderReply \/ AnthropicReply
  <2>1. pc' # "sampling"
    BY <1>4, ReplyCases DEF Leaves, Return, ToTools, ToClosing, Recovers
  <2>2. QED
    BY <2>1 DEF SentSound
<1>5. CASE RunTool
  BY <1>5 DEF RunTool, SentSound
<1>6. CASE ToolsDone
  BY <1>6 DEF ToolsDone, SentSound
<1>7. CASE ToolsCancelled
  BY <1>7 DEF ToolsCancelled, Return, SentSound
<1>8. CASE Review \/ MailArrives \/ Cancel \/ UNCHANGED vars
  <2>1. UNCHANGED <<history, pc, reply, finished, nextCall, ran>>
    BY <1>8, SurroundingsKeep
  <2>2. QED
    BY <2>1 DEF SentSound
<1>9. QED
  BY <1>2, <1>3, <1>4, <1>5, <1>6, <1>7, <1>8, NextCases, Zenon

-----------------------------------------------------------------------------
(* The requests of a query.                                                 *)

\* What has been paid for requests that do not count against max_turns: retries,
\* the fallback, interruptions by a rule, and notes that are no longer waiting.
Free ==
  (Retries - retriesLeft) + (IF usedFallback THEN 1 ELSE 0) + (ProseBudget - proseLeft)
    + (raised - (IF note = "none" THEN 0 ELSE 1))

\* Every request is paid for by a turn or by one of those, before it goes out.
SendsPaid ==
  /\ sent \in Nat
  /\ note # "none" => raised > 0
  /\ sent <= turn + Free
  /\ pc = "ready" => sent + 1 <= turn + Free

\* The least of two numbers.
LEMMA MinOfTwo ==
  ASSUME NEW a \in Nat, NEW b \in Nat
  PROVE  Min({a, b}) \in Nat /\ Min({a, b}) <= a /\ Min({a, b}) <= b
<1>1. \E x \in {a, b} : \A y \in {a, b} : x <= y
  OBVIOUS
<1>2. Min({a, b}) \in {a, b} /\ \A y \in {a, b} : Min({a, b}) <= y
  BY <1>1 DEF Min
<1>3. QED
  BY <1>2

LEMMA InitPaid == Init => SendsPaid
  BY LimitsAreNat DEF Init, SendsPaid, Free

\* Leaving the loop starts a new account; the notes of the past stay on it.
LEMMA PaidOnReturn ==
  ASSUME CountersOK, FlagsOK, SendsPaid, Return
  PROVE  SendsPaid'
  BY LimitsAreNat DEF CountersOK, FlagsOK, SendsPaid, Free, Return, Locals

LEMMA PaidStep ==
  ASSUME CountersOK, FlagsOK, SendsPaid, [Next]_vars
  PROVE  SendsPaid'
<1> USE LimitsAreNat DEF CountersOK, FlagsOK, SendsPaid, Free, loopVars, advisorVars, mailVars
<1>1. CASE Prompt
  BY <1>1 DEF Prompt, Locals
<1>2. CASE TurnTop
  BY <1>2 DEF TurnTop
<1>3. CASE SummaryTop
  BY <1>3 DEF SummaryTop
<1>4. CASE LimitReached
  BY <1>4, PaidOnReturn DEF LimitReached
<1>5. CASE CancelSeen
  BY <1>5, PaidOnReturn DEF CancelSeen
<1>6. CASE BuildRequest
  <2>1. /\ pc = "ready" /\ pc' = "sampling" /\ sent' = Min({sent + 1, SentCap})
        /\ UNCHANGED <<loopVars, note, raised>>
    BY <1>6 DEF BuildRequest, SendWhole, SendCompacted, SendUncompacted, Send
  <2>2. SentCap \in Nat /\ sent + 1 \in Nat
    BY DEF SentCap
  <2>3. sent' \in Nat /\ sent' <= sent + 1
    BY <2>1, <2>2, MinOfTwo
  <2>4. QED
    BY <2>1, <2>3
<1>7. CASE FallBack
  BY <1>7 DEF FallBack, Again
<1>8. CASE RequestFails
  BY <1>8, PaidOnReturn DEF RequestFails
<1>9. CASE StreamRetried
  BY <1>9 DEF StreamRetried, Again, UncountedVars
<1>10. CASE StreamCancelled
  BY <1>10, PaidOnReturn DEF StreamCancelled
<1>11. CASE ProseInterrupt
  BY <1>11 DEF ProseInterrupt, Again, UncountedVars
<1>12. CASE AdvisorInterrupt
  BY <1>12 DEF AdvisorInterrupt, Again, UncountedVars
<1>13. CASE ProviderReply \/ AnthropicReply
  <2>1. CASE Leaves
    BY <2>1, PaidOnReturn DEF Leaves
  <2>2. CASE \E calls : ToTools(calls)
    BY <2>2 DEF ToTools
  <2>3. CASE ToClosing
    BY <2>3 DEF ToClosing
  <2>4. CASE Recovers
    BY <2>4 DEF Recovers
  <2>5. QED
    BY <1>13, <2>1, <2>2, <2>3, <2>4, ReplyCases, Zenon
<1>14. CASE OverBudget
  BY <1>14, PaidOnReturn DEF OverBudget
<1>15. CASE RunTool
  BY <1>15 DEF RunTool
<1>16. CASE ToolsDone
  BY <1>16 DEF ToolsDone
<1>17. CASE ToolsCancelled
  BY <1>17, PaidOnReturn DEF ToolsCancelled
<1>18. CASE Woken
  BY <1>18 DEF Woken, Again, UncountedVars
<1>19. CASE GoalContinues
  BY <1>19 DEF GoalContinues
<1>20. CASE TurnEnds
  BY <1>20, PaidOnReturn DEF TurnEnds
<1>21. CASE Review
  BY <1>21 DEF Review
<1>22. CASE MailArrives
  BY <1>22 DEF MailArrives
<1>23. CASE Cancel
  BY <1>23 DEF Cancel
<1>24. CASE UNCHANGED vars
  BY <1>24 DEF vars
<1>25. QED
  BY <1>1, <1>2, <1>3, <1>4, <1>5, <1>6, <1>7, <1>8, <1>9, <1>10, <1>11, <1>12, <1>13,
     <1>14, <1>15, <1>16, <1>17, <1>18, <1>19, <1>20, <1>21, <1>22, <1>23, <1>24
     DEF Next, LoopStep

-----------------------------------------------------------------------------
(* The theorems.                                                            *)

\* The inductive invariant: types and counters, the reports of the calls that ran,
\* the order of what was sent, and the account of requests.
IInv == Typed /\ Tracked /\ SentSound /\ SendsPaid

LEMMA InitIInv == Init => IInv
<1>1. Init => SentSound
  BY DEF Init, SentSound
<1>2. QED
  BY <1>1, InitTyped, InitTracked, InitPaid DEF IInv

LEMMA StepIInv == IInv /\ [Next]_vars => IInv'
<1> SUFFICES ASSUME IInv, [Next]_vars PROVE IInv'
  OBVIOUS
<1>1. Typed' /\ Tracked'
  BY TypedStep DEF IInv
<1>2. SentSound'
  BY SentSoundStep DEF IInv
<1>3. SendsPaid'
  BY PaidStep DEF IInv, Typed
<1>4. QED
  BY <1>1, <1>2, <1>3 DEF IInv

\* Every behaviour of the query loop stays inside its inductive invariant.
THEOREM Invariant == Spec => []IInv
<1>1. Init => IInv
  BY InitIInv
<1>2. IInv /\ [Next]_vars => IInv'
  BY StepIInv
<1>3. QED
  BY <1>1, <1>2, PTL DEF Spec

\* Every variable of the loop keeps its type: no message is malformed, no counter
\* leaves its range, and only the turn that asks for a summary exceeds max_turns.
THEOREM TypeCorrect == Spec => []TypeOK
<1>1. IInv => TypeOK
  <2> SUFFICES ASSUME IInv PROVE TypeOK
    OBVIOUS
  <2>1. \A i \in 1..Len(history) : history[i] \in Message
    BY ChatIsMessage DEF IInv, Typed
  <2>2. QED
    BY <2>1 DEF IInv, Typed, FlagsOK, CountersOK, BatchOK, TypeOK
<1>2. QED
  BY <1>1, Invariant, PTL

\* sanitize_history: whatever the history has been through, no request goes out
\* with a call unanswered or a result without its call.
THEOREM RequestsPaired == Spec => []RequestsArePaired
<1>1. IInv => RequestsArePaired
  BY SoundIsPaired DEF IInv, SentSound, RequestsArePaired
<1>2. QED
  BY <1>1, Invariant, PTL

\* snap_to_pairing_boundary: compacting a well-formed history, at any budget, leaves
\* a well-formed one without the help of the sanitiser.
THEOREM CutsAreSafe == Spec => []CutsKeepPairs
<1>1. IInv => CutsKeepPairs
  <2> SUFFICES ASSUME IInv, Paired(history), NEW c \in compact_conversation(history)
               PROVE  Paired(c)
    BY DEF CutsKeepPairs
  <2>1. history \in Seq(Chat) /\ Sound(history, FALSE)
    BY SoundIsPaired DEF IInv, Typed
  <2>2. Sound(c, FALSE)
    BY <2>1, CompactedIsChat
  <2>3. QED
    BY <2>2, SoundIsPaired
<1>2. QED
  BY <1>1, Invariant, PTL

\* What a tool that ran has to say stands behind the message that called it, through
\* compaction, sanitising and everything that is put into the history.
THEOREM RunsReported == Spec => []RunsAreReported
<1>1. IInv => RunsAreReported
  <2> SUFFICES ASSUME IInv, pc \in {"ready", "sampling", "idle"} PROVE RunsAreReported
    BY DEF RunsAreReported
  <2>1. Told(history, FALSE, ran)
    BY DEF IInv, Tracked
  <2>2. QED
    BY <2>1 DEF Told, Reported, RunsAreReported
<1>2. QED
  BY <1>1, Invariant, PTL

\* run_query_loop: no mix of retries, fallbacks, interruptions and notes makes more
\* requests than max_turns and their budgets pay for.
THEOREM RequestsBounded == Spec => []RequestsAreBounded
<1>1. IInv => RequestsAreBounded
  <2> SUFFICES ASSUME IInv PROVE RequestsAreBounded
    OBVIOUS
  <2>1. CountersOK /\ FlagsOK /\ SendsPaid
    BY DEF IInv, Typed
  <2>2. QED
    BY <2>1, LimitsAreNat DEF CountersOK, FlagsOK, SendsPaid, Free, RequestsAreBounded
<1>2. QED
  BY <1>1, Invariant, PTL

=============================================================================
