----------------------------- MODULE AgentProofs ----------------------------
(***************************************************************************)
(* What is sent to a provider is allowed and makes sense, for all          *)
(* providers, windows of history, rounds and calls.                        *)
(***************************************************************************)
EXTENDS Agent, SequenceTheorems, TLAPS

Turn == [role : {"user", "assistant", "tool"}, n : Nat]

\* Questions and replies in turn.
Whole(ms) ==
    /\ ms \in Seq(Turn)
    /\ Len(ms) % 2 = 0
    /\ \A i \in 1..Len(ms) : ms[i] = IF i % 2 = 1 THEN User ELSE Assistant(0)

Talk == [kind : {"plain", "tools", "chat", "help"}, messages : Seq(Turn),
         left : SUBSET Providers, asking : Providers \cup {Nobody}, round : Nat]

\* What is left to try never grows past what is allowed, and who is asked comes from it.
TalkInv ==
    talk # Silence =>
        /\ talk \in Talk
        /\ talk.left \subseteq ToTry(talk.kind)
        /\ talk.asking # Nobody => talk.asking \in talk.left /\ CanSend(talk.kind, talk.asking)
        /\ Sound(talk.messages)

AgentInv ==
    /\ said = [agent |-> said.agent, help |-> said.help]
    /\ Whole(said.agent) /\ Whole(said.help)
    /\ TalkInv

------------------------------------------------------------------------------
(* Conversations. *)

LEMMA TurnTypes == User \in Turn /\ \A n \in Nat : Assistant(n) \in Turn /\ Result(n) \in Turn
BY DEF Turn, User, Assistant, Result

\* A window of an even number of turns starts with a question.
LEMMA WindowWhole ==
    ASSUME NEW ms, Whole(ms), NEW n \in Nat \ {0}, n % 2 = 0
    PROVE  Whole(LastTurns(ms, n))
<1>1. CASE Len(ms) > n
  <2> DEFINE win == SubSeq(ms, Len(ms) - n + 1, Len(ms))
  <2>1. ms \in Seq(Turn) /\ Len(ms) \in Nat /\ Len(ms) % 2 = 0
    BY DEF Whole
  <2>2. win \in Seq(Turn) /\ Len(win) = n /\ \A i \in 1..n : win[i] = ms[Len(ms) - n + i]
    BY <1>1, <2>1, SubSeqProperties
  <2>3. \A i \in 1..n : (Len(ms) - n + i) % 2 = i % 2 /\ Len(ms) - n + i \in 1..Len(ms)
    BY <1>1, <2>1
  <2>4. Whole(win)
    BY <2>2, <2>3 DEF Whole
  <2> QED BY <1>1, <2>4 DEF LastTurns
<1>2. CASE ~(Len(ms) > n)
  <2>1. ms \in Seq(Turn)
    BY DEF Whole
  <2>2. SubSeq(ms, 1, Len(ms)) = ms
    BY <2>1, SubSeqFull
  <2> QED BY <1>2, <2>2 DEF LastTurns
<1> QED BY <1>1, <1>2

\* What a client keeps is whole turns.
LEMMA KeptWhole == \A n \in Nat : Whole(Kept(n))
<1> SUFFICES ASSUME NEW n \in Nat PROVE Whole(Kept(n))
  OBVIOUS
<1>1. Kept(n) \in Seq(Turn) /\ Len(Kept(n)) = 2 * n
  BY TurnTypes DEF Kept
<1>2. (2 * n) % 2 = 0
  OBVIOUS
<1> QED BY <1>1, <1>2 DEF Whole, Kept

\* The history stays one of whole turns.
LEMMA ReplyWhole ==
    ASSUME NEW ms, Whole(ms), NEW n \in Nat \ {0}, n % 2 = 0
    PROVE  Whole(WithReply(ms, n))
<1> DEFINE turn == <<User, Assistant(0)>>
           all  == ms \o turn
<1>1. ms \in Seq(Turn) /\ Len(ms) \in Nat /\ Len(ms) % 2 = 0
  BY DEF Whole
<1>2. turn \in Seq(Turn) /\ Len(turn) = 2 /\ turn[1] = User /\ turn[2] = Assistant(0)
  BY TurnTypes
<1>3. /\ all \in Seq(Turn) /\ Len(all) = Len(ms) + 2
      /\ \A i \in 1..(Len(ms) + 2) : all[i] = IF i <= Len(ms) THEN ms[i] ELSE turn[i - Len(ms)]
  BY <1>1, <1>2, ConcatProperties
<1>4. ASSUME NEW i \in 1..(Len(ms) + 2)
      PROVE  all[i] = IF i % 2 = 1 THEN User ELSE Assistant(0)
  <2>1. CASE i <= Len(ms)
    BY <1>3, <2>1 DEF Whole
  <2>2. CASE i = Len(ms) + 1
    <3>1. i % 2 = 1 /\ i - Len(ms) = 1
      BY <1>1, <2>2
    <3> QED BY <1>1, <1>2, <1>3, <2>2, <3>1
  <2>3. CASE i = Len(ms) + 2
    <3>1. i % 2 = 0 /\ i - Len(ms) = 2
      BY <1>1, <2>3
    <3> QED BY <1>1, <1>2, <1>3, <2>3, <3>1
  <2> QED BY <1>1, <2>1, <2>2, <2>3
<1>5. Whole(all)
  BY <1>1, <1>3, <1>4 DEF Whole
<1> HIDE DEF all
<1>6. Whole(LastTurns(all, n))
  BY <1>5, WindowWhole
<1> QED BY <1>6 DEF WithReply, all

\* A question after whole turns is a conversation.
LEMMA QuestionSound ==
    ASSUME NEW ms, Whole(ms)
    PROVE  Append(ms, User) \in Seq(Turn) /\ Sound(Append(ms, User))
<1> DEFINE as == Append(ms, User)
<1>1. ms \in Seq(Turn) /\ Len(ms) \in Nat /\ Len(ms) % 2 = 0
  BY DEF Whole
<1>2. as \in Seq(Turn) /\ Len(as) = Len(ms) + 1
  BY <1>1, TurnTypes, AppendProperties
<1>3. \A i \in 1..Len(as) : as[i] = IF i % 2 = 1 THEN User ELSE Assistant(0)
  <2>1. as[Len(ms) + 1] = User /\ (Len(ms) + 1) % 2 = 1
    BY <1>1, TurnTypes, AppendProperties
  <2>2. \A i \in 1..Len(ms) : as[i] = ms[i]
    BY <1>1, TurnTypes, AppendProperties
  <2> QED BY <1>1, <1>2, <2>1, <2>2 DEF Whole
<1> HIDE DEF as
<1>4. Sound(as)
  <2>1. \A i \in 1..(Len(as) - 1) : (i % 2 = 1 => (i + 1) % 2 = 0) /\ (i % 2 = 0 => (i + 1) % 2 = 1)
    BY <1>1, <1>2
  <2>2. Len(as) > 0 /\ as[1] = User /\ as[Len(as)] = User
    <3>1. Len(as) \in Nat /\ Len(as) % 2 = 1 /\ 1 % 2 = 1
      BY <1>1, <1>2
    <3>2. Len(as) > 0 /\ 1 \in 1..Len(as) /\ Len(as) \in 1..Len(as)
      BY <1>1, <1>2
    <3> QED BY <1>3, <3>1, <3>2
  <2>3. /\ User.role = "user" /\ Assistant(0).role = "assistant" /\ Assistant(0).n = 0
        /\ User # Assistant(0)
    BY DEF User, Assistant
  <2>4. ASSUME NEW i \in 1..(Len(as) - 1)
        PROVE  /\ as[i].role = "user" => as[i + 1].role = "assistant"
               /\ as[i] = Assistant(0) => as[i + 1] = User
               /\ as[i].role = "tool" => as[i + 1].role # "user"
    <3>1. i \in 1..Len(as) /\ i + 1 \in 1..Len(as)
      BY <1>1, <1>2
    <3>2. CASE i % 2 = 1
      <4>1. as[i] = User
        BY <1>3, <3>1, <3>2
      <4>2. (i + 1) % 2 # 1
        BY <2>1, <3>2
      <4>3. as[i + 1] = Assistant(0)
        BY <1>3, <3>1, <4>2
      <4> QED BY <2>3, <4>1, <4>3
    <3>3. CASE i % 2 # 1
      <4>1. as[i] = Assistant(0)
        BY <1>3, <3>1, <3>3
      <4>2. i % 2 = 0
        BY <3>3
      <4>3. as[i + 1] = User
        BY <1>3, <2>1, <3>1, <4>2
      <4> QED BY <2>3, <4>1, <4>3
    <3> QED BY <3>2, <3>3
  <2>5. ASSUME NEW i \in 1..Len(as)
        PROVE  /\ as[i].role = "assistant" =>
                     \A k \in 1..as[i].n : i + k <= Len(as) /\ as[i + k] = Result(k)
               /\ as[i].role # "tool"
    <3>1. as[i] \in {User, Assistant(0)}
      BY <1>3
    <3>2. as[i].role = "assistant" => as[i].n = 0
      BY <2>3, <3>1
    <3>3. as[i].role # "tool"
      BY <2>3, <3>1
    <3>4. ASSUME as[i].role = "assistant", NEW k \in 1..as[i].n PROVE FALSE
      <4>1. as[i].n = 0
        BY <3>2, <3>4
      <4> DEFINE m == as[i].n
      <4>2. m = 0 /\ k \in 1..m
        BY <4>1
      <4> HIDE DEF m
      <4> QED BY <4>2
    <3> QED BY <3>3, <3>4
  <2> QED BY <2>2, <2>3, <2>4, <2>5 DEF Sound
<1> QED BY <1>2, <1>4 DEF as

\* The results follow their calls, however many.
LEMMA RoundSound ==
    ASSUME NEW ms \in Seq(Turn), Sound(ms), NEW n \in Nat \ {0}
    PROVE  ms \o Round(n) \in Seq(Turn) /\ Sound(ms \o Round(n))
<1> DEFINE L   == Len(ms)
           rd  == Round(n)
           all == ms \o rd
<1>1. L \in Nat \ {0} /\ ms[L] \in Turn /\ ms[L].role \in {"user", "tool"}
  <2>1. L \in Nat \ {0} /\ ms[L] \in Turn /\ ms[L].role # "assistant"
    BY LenProperties, ElementOfSeq DEF Sound
  <2> QED BY <2>1 DEF Turn
<1>2. rd \in Seq(Turn) /\ Len(rd) = n + 1 /\ rd[1] = Assistant(n) /\ \A k \in 1..n : rd[k + 1] = Result(k)
  <2>1. rd = [i \in 1..(n + 1) |-> IF i = 1 THEN Assistant(n) ELSE Result(i - 1)]
    BY DEF Round
  <2>2. \A i \in 1..(n + 1) : rd[i] \in Turn
    BY <2>1, TurnTypes
  <2> QED BY <2>1, <2>2
<1>3. /\ all \in Seq(Turn) /\ Len(all) = L + n + 1
      /\ \A i \in 1..L : all[i] = ms[i]
      /\ all[L + 1] = Assistant(n)
      /\ \A k \in 1..n : all[L + 1 + k] = Result(k)
  <2> HIDE DEF rd
  <2>1. /\ all \in Seq(Turn) /\ Len(all) = L + n + 1
        /\ \A i \in 1..(L + n + 1) : all[i] = IF i <= L THEN ms[i] ELSE rd[i - L]
    BY <1>1, <1>2, ConcatProperties
  <2>2. all[L + 1] = rd[1]
    <3>1. L + 1 - L = 1 /\ L + 1 \in 1..(L + n + 1) /\ ~(L + 1 <= L)
      BY <1>1
    <3> QED BY <2>1, <3>1
  <2>3. ASSUME NEW k \in 1..n PROVE all[L + 1 + k] = rd[k + 1]
    <3>1. L + 1 + k - L = k + 1 /\ L + 1 + k \in 1..(L + n + 1) /\ ~(L + 1 + k <= L)
      BY <1>1
    <3> QED BY <2>1, <3>1
  <2>4. \A i \in 1..L : all[i] = ms[i]
    BY <1>1, <2>1
  <2> QED BY <1>2, <2>1, <2>2, <2>3, <2>4
<1> HIDE DEF all, rd
<1>4. Len(all) > 0 /\ all[1] = User /\ all[Len(all)].role # "assistant"
  <2>1. all[L + 1 + n] = Result(n) /\ L + 1 + n = Len(all)
    BY <1>1, <1>3
  <2> QED BY <1>1, <1>3, <2>1 DEF Sound, Result
<1>5. ASSUME NEW i \in 1..(Len(all) - 1)
      PROVE  /\ all[i].role = "user" => all[i + 1].role = "assistant"
             /\ all[i] = Assistant(0) => all[i + 1] = User
             /\ all[i].role = "tool" => all[i + 1].role # "user"
  <2>1. CASE i < L
    <3>1. i \in 1..(L - 1) /\ all[i] = ms[i] /\ all[i + 1] = ms[i + 1]
      BY <1>1, <1>3, <2>1
    <3> QED BY <3>1 DEF Sound
  <2>2. CASE i = L
    <3>1. all[i] = ms[L] /\ all[i + 1] = Assistant(n)
      BY <1>1, <1>3, <2>2
    <3> QED BY <1>1, <3>1 DEF Assistant
  <2>3. CASE i = L + 1
    <3>1. all[i] = Assistant(n)
      BY <1>3, <2>3
    <3>2. n # 0
      OBVIOUS
    <3> QED BY <3>1, <3>2 DEF Assistant
  <2>4. CASE i > L + 1
    <3> DEFINE k == i - L - 1
    <3>1. k \in 1..n /\ k + 1 \in 1..n /\ L + 1 + k = i /\ L + 1 + (k + 1) = i + 1
      BY <1>1, <1>3, <2>4
    <3>2. all[i] = Result(k) /\ all[i + 1] = Result(k + 1)
      BY <1>3, <3>1
    <3> QED BY <3>2 DEF Result, Assistant
  <2> QED BY <1>1, <1>3, <2>1, <2>2, <2>3, <2>4
<1>6. ASSUME NEW i \in 1..Len(all)
      PROVE  /\ all[i].role = "assistant" =>
                   \A k \in 1..all[i].n : i + k <= Len(all) /\ all[i + k] = Result(k)
             /\ all[i].role = "tool" =>
                   i > all[i].n /\ all[i - all[i].n].role = "assistant" /\ all[i].n <= all[i - all[i].n].n
  <2>1. CASE i <= L
    <3>1. i \in 1..L /\ all[i] = ms[i] /\ ms[i] \in Turn
      BY <1>1, <1>3, <2>1, ElementOfSeq
    <3>2. ms[i].n \in Nat
      BY <3>1 DEF Turn
    <3>3. ASSUME ms[i].role = "assistant", NEW k \in 1..ms[i].n
          PROVE  i + k <= Len(all) /\ all[i + k] = Result(k)
      <4>1. i + k <= L /\ ms[i + k] = Result(k)
        BY <3>1, <3>3 DEF Sound
      <4>2. i + k \in 1..L
        BY <1>1, <3>1, <3>2, <4>1
      <4> QED BY <1>1, <1>3, <4>1, <4>2
    <3>4. ASSUME ms[i].role = "tool"
          PROVE  i > ms[i].n /\ all[i - ms[i].n].role = "assistant" /\ ms[i].n <= all[i - ms[i].n].n
      <4>1. i > ms[i].n /\ ms[i - ms[i].n].role = "assistant" /\ ms[i].n <= ms[i - ms[i].n].n
        BY <3>1, <3>4 DEF Sound
      <4>2. i - ms[i].n \in 1..L
        BY <1>1, <3>1, <3>2, <4>1
      <4> QED BY <1>3, <4>1, <4>2
    <3> QED BY <3>1, <3>3, <3>4
  <2>2. CASE i = L + 1
    <3>1. all[i].role = "assistant" /\ all[i].n = n
      BY <1>3, <2>2 DEF Assistant
    <3> QED BY <1>1, <1>3, <2>2, <3>1
  <2>3. CASE i > L + 1
    <3> DEFINE k == i - L - 1
    <3>1. k \in 1..n /\ L + 1 + k = i
      BY <1>1, <1>3, <2>3
    <3>2. all[i] = Result(k)
      BY <1>3, <3>1
    <3>3. all[i].role = "tool" /\ all[i].n = k /\ i - k = L + 1
      BY <1>1, <3>1, <3>2 DEF Result
    <3>4. all[L + 1].role = "assistant" /\ all[L + 1].n = n
      BY <1>3 DEF Assistant
    <3> QED BY <1>1, <3>1, <3>3, <3>4
  <2> QED BY <1>1, <1>3, <2>1, <2>2, <2>3
<1>7. Sound(all)
  BY <1>4, <1>5, <1>6 DEF Sound
<1> QED BY <1>3, <1>7 DEF all, rd

------------------------------------------------------------------------------
(* The specification. *)

LEMMA AgentInitInv == AgentInit => AgentInv
<1> SUFFICES ASSUME AgentInit PROVE AgentInv
  OBVIOUS
<1>1. Whole(<<>>)
  BY DEF Whole
<1> QED BY <1>1 DEF AgentInit, AgentInv, TalkInv

\* A question starts with whoever may be tried, and asks nobody yet.
LEMMA AskedInv ==
    ASSUME NEW kind \in {"plain", "tools", "chat", "help"}, NEW ms, Whole(ms),
           talk' = Asked(kind, Append(ms, User)), UNCHANGED <<loaded, dpaOnly>>
    PROVE  TalkInv'
<1>1. Append(ms, User) \in Seq(Turn) /\ Sound(Append(ms, User))
  BY QuestionSound
<1>2. ToTry(kind) \subseteq Providers /\ ToTry(kind)' = ToTry(kind)
  BY AgentAssumption DEF ToTry, Governed
<1> DEFINE t == Asked(kind, Append(ms, User))
<1>3. /\ t \in Talk /\ t.left = ToTry(kind) /\ t.kind = kind /\ t.asking = Nobody
      /\ t.messages = Append(ms, User)
  BY <1>1, <1>2 DEF Asked, Talk
<1> HIDE DEF t
<1>4. talk' = t
  BY DEF t
<1>5. Sound(talk'.messages)
  BY <1>1, <1>3, <1>4
<1> QED BY <1>2, <1>3, <1>4, <1>5 DEF TalkInv

\* A reply leaves whole turns behind.
LEMMA ReplyInv == ASSUME AgentInv, Reply PROVE AgentInv'
<1>1. TalkInv'
  BY DEF Reply, TalkInv
<1>2. Whole(WithReply(said.agent, HistoryTurns)) /\ Whole(WithReply(said.help, HelpTurns))
  BY ReplyWhole, AgentAssumption DEF AgentInv
<1>3. /\ said' = [agent |-> said'.agent, help |-> said'.help]
      /\ said'.agent \in {said.agent, WithReply(said.agent, HistoryTurns)}
      /\ said'.help \in {said.help, WithReply(said.help, HelpTurns)}
  <2>1. CASE talk.kind = "chat"
    BY <2>1 DEF Reply, AgentInv
  <2>2. CASE talk.kind = "help"
    BY <2>2 DEF Reply, AgentInv
  <2>3. CASE talk.kind \notin {"chat", "help"}
    <3>1. said' = [said EXCEPT !.agent = WithReply(@, HistoryTurns)]
      BY <2>3 DEF Reply
    <3> QED BY <3>1 DEF AgentInv
  <2> QED BY <2>1, <2>2, <2>3
<1>4. Whole(said'.agent) /\ Whole(said'.help)
  BY <1>2, <1>3 DEF AgentInv
<1> QED BY <1>1, <1>3, <1>4 DEF AgentInv

LEMMA AgentNextInv == AgentInv /\ [AgentNext]_agentVars => AgentInv'
<1> SUFFICES ASSUME AgentInv, [AgentNext]_agentVars PROVE AgentInv'
  OBVIOUS
<1>a. said = [agent |-> said.agent, help |-> said.help] /\ Whole(said.agent) /\ Whole(said.help)
  BY DEF AgentInv
<1>1. CASE AgentChat
  <2>1. KindOf \in {"plain", "tools", "chat", "help"}
    BY DEF KindOf
  <2>2. TalkInv'
    BY <1>1, <1>a, <2>1, AskedInv DEF AgentChat
  <2> QED BY <1>1, <1>a, <2>2 DEF AgentChat, AgentInv
<1>2. CASE Chat
  <2>1. PICK n \in 0..HelpTurns :
            talk' = Asked("chat", Append(LastTurns(Kept(n), HelpTurns), User))
    BY <1>2 DEF Chat
  <2>2. Whole(LastTurns(Kept(n), HelpTurns))
    BY <2>1, KeptWhole, WindowWhole, AgentAssumption
  <2>3. UNCHANGED <<loaded, dpaOnly>>
    BY <1>2 DEF Chat
  <2>4. TalkInv'
    BY <2>1, <2>2, <2>3, AskedInv
  <2> QED BY <1>2, <1>a, <2>4 DEF Chat, AgentInv
<1>3. CASE HelpChat
  <2>1. Whole(LastTurns(said.help, HelpTurns))
    BY <1>a, WindowWhole, AgentAssumption
  <2>2. TalkInv'
    BY <1>3, <2>1, AskedInv DEF HelpChat
  <2> QED BY <1>3, <1>a, <2>2 DEF HelpChat, AgentInv
<1>4. CASE HelpRefused
  <2>1. Whole(WithReply(said.help, HelpTurns))
    BY <1>a, ReplyWhole, AgentAssumption
  <2>2. said' = [agent |-> said.agent, help |-> WithReply(said.help, HelpTurns)]
    BY <1>4, <1>a DEF HelpRefused
  <2> QED BY <1>4, <1>a, <2>1, <2>2 DEF HelpRefused, AgentInv, TalkInv
<1>5. CASE LeavePage
  <2>1. Whole(<<>>)
    BY DEF Whole
  <2>2. said' = [agent |-> said.agent, help |-> <<>>]
    BY <1>5, <1>a DEF LeavePage
  <2> QED BY <1>5, <1>a, <2>1, <2>2 DEF LeavePage, AgentInv, TalkInv
<1>6. CASE AskProvider
  <2>1. PICK p \in talk.left :
             talk' = IF CanSend(talk.kind, p) THEN [talk EXCEPT !.asking = p]
                     ELSE [talk EXCEPT !.left = @ \ {p}]
    BY <1>6 DEF AskProvider
  <2>2. talk \in Talk /\ talk.left \subseteq ToTry(talk.kind) /\ Sound(talk.messages) /\ talk.asking = Nobody
    BY <1>6 DEF AskProvider, AgentInv, TalkInv
  <2>3. /\ talk' \in Talk /\ talk'.left \subseteq talk.left /\ talk'.kind = talk.kind
        /\ talk'.messages = talk.messages
        /\ talk'.asking # Nobody => talk'.asking \in talk'.left /\ CanSend(talk.kind, talk'.asking)
    BY <2>1, <2>2 DEF Talk
  <2>4. loaded' = loaded /\ dpaOnly' = dpaOnly /\ said' = said
    BY <1>6 DEF AskProvider
  <2>5. TalkInv'
    BY <2>2, <2>3, <2>4 DEF TalkInv, ToTry, Governed, CanSend
  <2> QED BY <1>a, <2>4, <2>5 DEF AgentInv
<1>7. CASE ProviderFails
  <2>1. talk \in Talk /\ talk.left \subseteq ToTry(talk.kind) /\ Sound(talk.messages)
    BY <1>7 DEF ProviderFails, AgentInv, TalkInv
  <2>2. /\ talk' \in Talk /\ talk'.left \subseteq talk.left /\ talk'.kind = talk.kind
        /\ talk'.messages = talk.messages /\ talk'.asking = Nobody
    BY <1>7, <2>1 DEF ProviderFails, Talk
  <2>3. loaded' = loaded /\ dpaOnly' = dpaOnly /\ said' = said
    BY <1>7 DEF ProviderFails
  <2>4. TalkInv'
    BY <2>1, <2>2, <2>3 DEF TalkInv, ToTry, Governed
  <2> QED BY <1>a, <2>3, <2>4 DEF AgentInv
<1>8. CASE NobodyAnswers \/ ProviderAnswers
  BY <1>8, ReplyInv DEF NobodyAnswers, ProviderAnswers
<1>9. CASE CallTools
  <2>1. CASE Reply
    BY <2>1, ReplyInv
  <2>2. CASE ~Reply
    <3>1. PICK n \in 1..MaxCalls :
               talk' = [talk EXCEPT !.messages = @ \o Round(n),
                            !.left = ToTry("tools"), !.asking = Nobody, !.round = @ + 1]
      BY <1>9, <2>2 DEF CallTools
    <3>2. talk \in Talk /\ Sound(talk.messages) /\ talk.kind = "tools"
      BY <1>9 DEF CallTools, AgentInv, TalkInv
    <3>3. talk.messages \in Seq(Turn) /\ n \in Nat \ {0}
      BY <3>2, AgentAssumption DEF Talk
    <3>4. talk.messages \o Round(n) \in Seq(Turn) /\ Sound(talk.messages \o Round(n))
      BY <3>2, <3>3, RoundSound
    <3>5. ToTry("tools") \subseteq Providers
      BY AgentAssumption DEF ToTry, Governed
    <3>6. /\ talk' \in Talk /\ talk'.left = ToTry("tools") /\ talk'.kind = "tools"
          /\ talk'.messages = talk.messages \o Round(n) /\ talk'.asking = Nobody
      <4> DEFINE ms == talk.messages \o Round(n)
      <4>1. talk.round + 1 \in Nat
        BY <3>2 DEF Talk
      <4>2. talk' = [kind |-> "tools", messages |-> ms, left |-> ToTry("tools"),
                     asking |-> Nobody, round |-> talk.round + 1]
        BY <3>1, <3>2 DEF Talk
      <4>3. ms \in Seq(Turn)
        BY <3>4
      <4> HIDE DEF ms
      <4>4. talk' \in Talk
        BY <3>5, <4>1, <4>2, <4>3 DEF Talk
      <4>5. talk'.left = ToTry("tools") /\ talk'.kind = "tools" /\ talk'.messages = ms /\ talk'.asking = Nobody
        BY <4>2
      <4> QED BY <4>4, <4>5 DEF ms
    <3>7. loaded' = loaded /\ dpaOnly' = dpaOnly /\ said' = said
      BY <1>9, <2>2 DEF CallTools
    <3>8. Sound(talk'.messages)
      BY <3>4, <3>6
    <3>9. TalkInv'
      BY <3>6, <3>7, <3>8 DEF TalkInv, ToTry, Governed
    <3> QED BY <1>a, <3>7, <3>9 DEF AgentInv
  <2> QED BY <2>1, <2>2
<1>10. CASE BreakDown
  BY <1>10, <1>a DEF BreakDown, AgentInv, TalkInv
<1>11. CASE SaveSettings \/ UNCHANGED agentVars
  <2>1. UNCHANGED <<loaded, dpaOnly, said, talk>>
    BY <1>11 DEF SaveSettings, agentVars
  <2> QED BY <2>1 DEF AgentInv, TalkInv, ToTry, Governed, CanSend
<1>12. CASE RestartAgent
  <2>1. Whole(<<>>)
    BY DEF Whole
  <2>2. said' = [agent |-> <<>>, help |-> said.help]
    BY <1>12, <1>a DEF RestartAgent
  <2> QED BY <1>12, <1>a, <2>1, <2>2 DEF RestartAgent, AgentInv, TalkInv
<1> QED BY <1>1, <1>2, <1>3, <1>4, <1>5, <1>6, <1>7, <1>8, <1>9, <1>10, <1>11, <1>12 DEF AgentNext

\* SentAsAllowed for all providers, windows, rounds and calls: no question reaches a
\* provider without an agreement when DPA_ONLY is on, nor a keyless one, and what is sent
\* is a conversation (_governed, ask, ask_with_tools, run_agent).
THEOREM SentAlwaysAsAllowed == AgentSpec => []SentAsAllowed
<1>1. AgentInv => SentAsAllowed
  <2> SUFFICES ASSUME TalkInv, talk # Silence, talk.asking # Nobody PROVE SentAsAllowed
    BY DEF AgentInv, SentAsAllowed
  <2>1. /\ talk.asking \in ToTry(talk.kind) /\ CanSend(talk.kind, talk.asking)
        /\ Sound(talk.messages)
    BY DEF TalkInv
  <2> QED BY <2>1 DEF SentAsAllowed, ToTry, Governed, CanSend
<1> QED BY <1>1, AgentInitInv, AgentNextInv, PTL DEF AgentSpec
=============================================================================
