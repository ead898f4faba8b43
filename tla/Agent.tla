------------------------------- MODULE Agent -------------------------------
(***************************************************************************)
(* The AI Copilot and its language models: run_agent of agent/executor.py, *)
(* the providers of agent/llm.py, the endpoints /agent-chat, /chat and     *)
(* /help-chat and the settings of main.py.  /agent-chat answers on the     *)
(* event loop, so nothing else is done meanwhile; a question of the others *)
(* shares nothing with any other and is asked alone here.  What the tools  *)
(* return is one result, an error included.                                *)
(*                                                                         *)
(* settings the .env file: the provider selected, and those with a key    *)
(* loaded   the same as the process knows it, read when it starts          *)
(* dpaOnly  DPA_ONLY, which no page changes                                *)
(* said     the turns of the session, and those a page of the user guide   *)
(*          keeps and sends with its next question                         *)
(* talk     the question being answered                                    *)
(***************************************************************************)
EXTENDS Naturals, Sequences

CONSTANTS
    FallbackOrder,  \* all providers, as they are tried
    DpaProviders,   \* those under a data-processing agreement
    ToolProviders,  \* those that can call tools
    Nobody,         \* no provider is being asked
    Silence,        \* no question is being answered
    HistoryTurns,   \* 12 for a session
    HelpTurns,      \* 8 for a page or another client
    MaxRounds,      \* MAX_ITERATIONS
    MaxCalls        \* bound on the tools called in one round, for model checking

Providers == {FallbackOrder[i] : i \in DOMAIN FallbackOrder}

ASSUME AgentAssumption ==
    /\ DpaProviders \subseteq Providers /\ ToolProviders \subseteq Providers
    /\ Nobody \notin Providers
    /\ MaxRounds \in Nat \ {0} /\ MaxCalls \in Nat
    /\ HistoryTurns \in Nat \ {0} /\ HistoryTurns % 2 = 0
    /\ HelpTurns \in Nat \ {0} /\ HelpTurns % 2 = 0

VARIABLES settings, loaded, dpaOnly, said, talk

agentVars == <<settings, loaded, dpaOnly, said, talk>>

AgentInit ==
    /\ settings \in [provider : Providers, withKey : SUBSET Providers]
    /\ loaded = settings
    /\ dpaOnly \in BOOLEAN
    /\ said = [agent |-> <<>>, help |-> <<>>]
    /\ talk = Silence

\* A turn of a user, one of the assistant with n calls, and the result of call n.
User         == [role |-> "user", n |-> 0]
Assistant(n) == [role |-> "assistant", n |-> n]
Result(n)    == [role |-> "tool", n |-> n]

------------------------------------------------------------------------------
(* Providers. *)

\* Mutant: the one selected is not governed.
M_Governed(ps) == IF dpaOnly THEN ps \cap (DpaProviders \cup {loaded.provider}) ELSE ps

\* Only those under an agreement, if these are asked for.
Governed(ps) == IF dpaOnly THEN ps \cap DpaProviders ELSE ps

\* Those that may be tried for a kind of question.
ToTry(kind) == Governed(IF kind = "tools" THEN ToolProviders ELSE Providers)

\* The one selected is tried first, the others in their order.
Foremost(p, left) ==
    \/ p = loaded.provider
    \/ /\ loaded.provider \notin left
       /\ \E i \in DOMAIN FallbackOrder :
             /\ FallbackOrder[i] = p
             /\ \A j \in 1..(i - 1) : FallbackOrder[j] \notin left

\* Without a key nothing is sent; main.py takes Bedrock to have a model in any case.
CanSend(kind, p) == p \in loaded.withKey \/ (kind \in {"chat", "help"} /\ p = "bedrock")

------------------------------------------------------------------------------
(* Questions. *)

\* The loop is entered only if some provider can call tools, under an agreement or not.
KindOf == IF loaded.withKey \cap ToolProviders # {} THEN "tools" ELSE "plain"

M_LastTurns(turns, n) == SubSeq(turns, IF Len(turns) >= n THEN Len(turns) - n + 2 ELSE 1, Len(turns))

LastTurns(turns, n) == SubSeq(turns, IF Len(turns) > n THEN Len(turns) - n + 1 ELSE 1, Len(turns))

Asked(kind, messages) ==
    [kind |-> kind, messages |-> messages, left |-> ToTry(kind), asking |-> Nobody, round |-> 0]

AgentChat ==
    /\ talk = Silence
    /\ talk' = Asked(KindOf, Append(said.agent, User))
    /\ UNCHANGED <<settings, loaded, dpaOnly, said>>

\* The turns a client of /chat has kept.
Kept(n) == [i \in 1..(2 * n) |-> IF i % 2 = 1 THEN User ELSE Assistant(0)]

\* A window of what the client sends of them goes before the question; the page of the
\* program sends none.
Chat ==
    /\ talk = Silence
    /\ \E n \in 0..HelpTurns :
          talk' = Asked("chat", Append(LastTurns(Kept(n), HelpTurns), User))
    /\ UNCHANGED <<settings, loaded, dpaOnly, said>>

HelpChat ==
    /\ talk = Silence
    /\ talk' = Asked("help", Append(LastTurns(said.help, HelpTurns), User))
    /\ UNCHANGED <<settings, loaded, dpaOnly, said>>

\* The next provider is asked, or passed over.
AskProvider ==
    /\ talk # Silence /\ talk.asking = Nobody
    /\ \E p \in talk.left :
          /\ Foremost(p, talk.left)
          /\ talk' = IF CanSend(talk.kind, p) THEN [talk EXCEPT !.asking = p]
                     ELSE [talk EXCEPT !.left = @ \ {p}]
    /\ UNCHANGED <<settings, loaded, dpaOnly, said>>

ProviderFails ==
    /\ talk # Silence /\ talk.asking # Nobody
    /\ talk' = [talk EXCEPT !.asking = Nobody, !.left = @ \ {talk.asking}]
    /\ UNCHANGED <<settings, loaded, dpaOnly, said>>

\* The question and its reply, an apology included.
WithReply(turns, n) == LastTurns(turns \o <<User, Assistant(0)>>, n)

Reply ==
    /\ talk' = Silence
    /\ said' = CASE talk.kind = "chat" -> said
                    [] talk.kind = "help" -> [said EXCEPT !.help = WithReply(@, HelpTurns)]
                    [] OTHER -> [said EXCEPT !.agent = WithReply(@, HistoryTurns)]
    /\ UNCHANGED <<settings, loaded, dpaOnly>>

NobodyAnswers == talk # Silence /\ talk.asking = Nobody /\ talk.left = {} /\ Reply
ProviderAnswers == talk # Silence /\ talk.asking # Nobody /\ Reply

Round(n) == [i \in 1..(n + 1) |-> IF i = 1 THEN Assistant(n) ELSE Result(i - 1)]

\* The calls of one answer, each with its result, and the next round; after the last of
\* them there is no answer, and a reply says so.
CallTools ==
    /\ talk # Silence /\ talk.asking # Nobody /\ talk.kind = "tools"
    /\ \/ talk.round + 1 = MaxRounds /\ Reply
       \/ /\ talk.round + 1 < MaxRounds
          /\ \E n \in 1..MaxCalls :
                talk' = [talk EXCEPT !.messages = @ \o Round(n),
                            !.left = ToTry("tools"), !.asking = Nobody, !.round = @ + 1]
          /\ UNCHANGED <<settings, loaded, dpaOnly, said>>

\* A result that cannot be written as JSON ends the question without a trace.
BreakDown ==
    /\ talk # Silence /\ talk.asking # Nobody /\ talk.kind = "tools"
    /\ talk' = Silence
    /\ UNCHANGED <<settings, loaded, dpaOnly, said>>

\* Too many questions in a minute: the page takes the refusal for the reply.
HelpRefused ==
    /\ talk = Silence
    /\ said' = [said EXCEPT !.help = WithReply(@, HelpTurns)]
    /\ UNCHANGED <<settings, loaded, dpaOnly, talk>>

LeavePage ==
    /\ talk = Silence
    /\ said' = [said EXCEPT !.help = <<>>]
    /\ UNCHANGED <<settings, loaded, dpaOnly, talk>>

------------------------------------------------------------------------------
(* Settings. *)

\* The page writes .settings: another provider, another key.  Keys never go.
SaveSettings ==
    /\ talk # Silence => talk.kind \in {"chat", "help"}
    /\ \E p \in Providers, q \in Providers :
          settings' = [provider |-> p, withKey |-> settings.withKey \cup {q}]
    /\ UNCHANGED <<loaded, dpaOnly, said, talk>>

RestartAgent ==
    /\ loaded' = settings
    /\ said' = [said EXCEPT !.agent = <<>>]
    /\ talk' = Silence
    /\ UNCHANGED <<settings, dpaOnly>>

AgentNext ==
    \/ AgentChat \/ Chat \/ HelpChat \/ HelpRefused \/ LeavePage
    \/ AskProvider \/ ProviderFails \/ NobodyAnswers \/ ProviderAnswers
    \/ CallTools \/ BreakDown \/ SaveSettings \/ RestartAgent

AgentSpec == AgentInit /\ [][AgentNext]_agentVars

------------------------------------------------------------------------------
(* Properties. *)

\* A conversation a provider can make sense of: the user begins, and has the last word or
\* leaves it to the tools; a question has an answer before the next one; every call has
\* its result, at its place, and every result its call.
Sound(ms) ==
    /\ Len(ms) > 0 /\ ms[1] = User /\ ms[Len(ms)].role # "assistant"
    /\ \A i \in 1..(Len(ms) - 1) :
          /\ ms[i].role = "user" => ms[i + 1].role = "assistant"
          /\ ms[i] = Assistant(0) => ms[i + 1] = User
          /\ ms[i].role = "tool" => ms[i + 1].role # "user"
    /\ \A i \in 1..Len(ms) :
          /\ ms[i].role = "assistant" =>
                \A k \in 1..ms[i].n : i + k <= Len(ms) /\ ms[i + k] = Result(k)
          /\ ms[i].role = "tool" =>
                i > ms[i].n /\ ms[i - ms[i].n].role = "assistant" /\ ms[i].n <= ms[i - ms[i].n].n

\* Whatever is sent, is sent where it may be and makes sense there: never to a provider
\* without an agreement when these are asked for, "regardless of what LLM_PROVIDER or the
\* Settings page selects" (DATA_GOVERNANCE.md, _governed), never to one without a key, and
\* as a conversation in which every tool call has its result (run_agent), over rounds,
\* fallbacks, windows of history (of whole turns, so that a user speaks first), and restarts.
SentAsAllowed ==
    talk # Silence /\ talk.asking # Nobody =>
        /\ dpaOnly => talk.asking \in DpaProviders
        /\ talk.asking \in loaded.withKey \cup {"bedrock"}
        /\ talk.kind = "tools" => talk.asking \in ToolProviders
        /\ Sound(talk.messages)
=============================================================================
