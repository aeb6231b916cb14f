----------------------------- MODULE MCAssistant -----------------------------
(* Small instance of Assistant for TLC.  Two halves share one run: without an API key
   two versions of one prompt are registered and promoted three times while a query
   looks its prompt up; with a key the query goes through two rounds of up to two tool
   calls and the registry, which a query reads once and before its first model call,
   stays still (the product of the two only repeats the parts). *)
EXTENDS Assistant

CONSTANTS p1, p2, a, b, c, q1, tool, stray

MCNameOf == [p \in Prompts |-> "copilot"]
MCSlotOf == [p \in Prompts |-> "qa"]
MCGiven == [p \in Prompts |-> 0]

NoCtx == NoInput.ctx

\* A plain query, one that matches an injection pattern, one for a tool the tenant lacks.
MCInputs == {[text |-> {}, ctx |-> NoCtx],
             [text |-> {"forget"}, ctx |-> NoCtx],
             [text |-> {}, ctx |-> [NoCtx EXCEPT !.tools = {"t"}, !.allowed = {{}}]]}

MCTexts == {{}, {"ssn"}}

MCNext == (keyed => UNCHANGED registryVars) /\ Next

MCSpec == Init /\ [][MCNext]_vars /\ Fairness

==============================================================================
