---------------------------- MODULE ContextAssembly ----------------------------
(***************************************************************************)
(* ContextAssembler.assemble, packages/ai/context_assembly.py: the system  *)
(* prompt, the messages of the session, the retrieved chunks and the tool  *)
(* results, fitted each into its share of the token budget.                *)
(*                                                                         *)
(* A text is its number of characters, and a token is four of them.  The   *)
(* material of a call is a record: the system prompt, the messages         *)
(* (whether of the system, and the text), the chunks (their relevance and  *)
(* text) and the tool results, each as the text it is printed as.          *)
(***************************************************************************)
EXTENDS Lists

CONSTANT
    MaxTokens   \* max_tokens, the whole budget

ASSUME ContextAssumption == MaxTokens \in Nat

\* _allocate_budgets: int() rounds down.
Share(percent) == (MaxTokens * percent) \div 100

PromptBudget == Share(15)
HistoryBudget == Share(15)
KnowledgeBudget == Share(40)
ToolBudget == Share(20)
Reserve == Share(10)

TokensIn(text) == text \div 4

TokensOf(items) == Sum([i \in DOMAIN items |-> TokensIn(items[i].text)])

\* _truncate_to_budget
Truncated(text, budget) == IF text <= 4 * budget THEN text ELSE 4 * budget

\* The texts joined with a separator of the given length.
Joined(texts, separator) == Sum(texts) + (IF texts = <<>> THEN 0 ELSE separator * (Len(texts) - 1))

FitsBarely(item, room) == room > 0

Fits(item, room) == TokensIn(item.text) <= room

\* The loop of both prunings: from the first item on, until one does not fit.
KeptWithin(items, budget) ==
    LET step(s, item) ==
          IF s.open /\ Fits(item, s.room)
            THEN [s EXCEPT !.kept = Append(@, item), !.room = @ - TokensIn(item.text)]
            ELSE [s EXCEPT !.open = FALSE]
    IN  FoldLeft(step, [kept |-> <<>>, room |-> budget, open |-> TRUE], items).kept

SystemOnly(messages) == Kept(messages, {i \in DOMAIN messages : messages[i].system})
Spoken(messages) == Kept(messages, {i \in DOMAIN messages : ~messages[i].system})

\* _prune_conversation_history: the system's messages first, then the newest others.
History(messages) ==
    LET room == HistoryBudget - TokensOf(SystemOnly(messages)) IN
    IF room <= 0
      THEN SystemOnly(messages)
      ELSE SystemOnly(messages) \o Reverse(KeptWithin(Reverse(Spoken(messages)), room))

\* sorted(reverse=True): the most relevant first, those of one score in the order they came in.
Ranked(chunks) == SortedBy(chunks, [i \in DOMAIN chunks |-> -chunks[i].relevance])

\* _rank_and_truncate_knowledge
Knowledge(chunks) == KeptWithin(Ranked(chunks), KnowledgeBudget)

Texts(items) == [i \in DOMAIN items |-> items[i].text]

Assembled(material) ==
    [prompt    |-> Truncated(material.prompt, PromptBudget),
     messages  |-> History(material.messages),
     knowledge |-> Truncated(Joined(Texts(Knowledge(material.chunks)), 7), KnowledgeBudget),
     tools     |-> Truncated(Joined(material.tools, 2), ToolBudget)]

\* total_tokens
TotalTokens(context) ==
    TokensIn(context.prompt) + TokensOf(context.messages) + TokensIn(context.knowledge)
        + TokensIn(context.tools)

------------------------------------------------------------------------------
(* Properties. *)

AtMost(n, m) == IF n < m THEN n ELSE m
AtLeast(n, m) == IF n < m THEN m ELSE n

\* How far the system's messages alone go beyond the share of the history.
Excess(messages) == AtLeast(0, TokensOf(SystemOnly(messages)) - HistoryBudget)

Newest(list, n) == SubSeq(list, Len(list) - n + 1, Len(list))

\* The whole context leaves the reserve free, unless the system's messages, which are never
\* dropped, are themselves too long, and then by that excess and no more.
WithinBudget(material) ==
    TotalTokens(Assembled(material)) <= MaxTokens - Reserve + Excess(material.messages)

\* The history is all system messages, then as many of the newest others as their tokens allow,
\* in the order they were said.  Short messages have no tokens: they are dropped only where
\* nothing is left for the history.
KeepsTheNewest(messages) ==
    LET spoken == Spoken(messages)
        room   == HistoryBudget - TokensOf(SystemOnly(messages))
        n      == Len(Spoken(History(messages)))
    IN  /\ History(messages) = SystemOnly(messages) \o Newest(spoken, n)
        /\ n < Len(spoken) => room <= 0 \/ TokensOf(Newest(spoken, n + 1)) > room

\* No chunk is left out for a less relevant one, and of those chosen the final cut takes only
\* what the rounding and the separators have added.
KeepsTheBest(chunks) ==
    LET kept == Knowledge(chunks)
        text == Joined(Texts(kept), 7)
    IN  /\ IsPrefix(kept, Ranked(chunks))
        /\ \A i \in DOMAIN Ranked(chunks), j \in DOMAIN kept :
              i > Len(kept) => Ranked(chunks)[i].relevance <= kept[j].relevance
        /\ text - Truncated(text, KnowledgeBudget) <= AtLeast(0, 10 * Len(kept) - 7)

\* Whatever is put together, every section keeps to its share and gives up the right part.
SectionsFit(material) ==
    /\ WithinBudget(material)
    /\ KeepsTheNewest(material.messages)
    /\ KeepsTheBest(material.chunks)
================================================================================
