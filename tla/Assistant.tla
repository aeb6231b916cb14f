------------------------------- MODULE Assistant -------------------------------
(***************************************************************************)
(* packages/ai/ai_service.py: a query on its way through the guards, the   *)
(* prompt registry, the model and the tools (tool_coordinator.py), while   *)
(* prompts are being registered and promoted (PromptRegistry).             *)
(*                                                                         *)
(* The model and the tool servers are outside: a model call answers with   *)
(* text, asks for tools or raises; a tool returns, raises or runs into the *)
(* coordinator's timeout; a server's listing of its tools can be put into  *)
(* the model's format or not.  A text is the set of the guards' markers in *)
(* it.  Semantic search and conversation history are stubs that return     *)
(* nothing, so the first message is the query itself.                      *)
(***************************************************************************)
EXTENDS PromptRegistry, PolicyGuard, Sequences

CONSTANTS
    Queries,        \* AIService.query calls
    Inputs,         \* what may be asked: records [text, ctx]
    AnswerSlot,     \* task_type question_answering, model_family anthropic
    Tools,          \* the tools of the registered servers
    Stray,          \* tool names no registered server answers to
    Texts,          \* texts a response may contain
    Ends,           \* how a call to a registered server may end (see Outcomes)
    MaxUses,        \* bound: tool_use blocks in one response
    MaxToolRounds   \* _MAX_TOOL_ROUNDS

ASSUME AssistantAssumption ==
    /\ AnswerSlot \in Slots
    /\ Texts \subseteq SUBSET Markers
    /\ Tools \cap Stray = {}
    /\ Ends \subseteq {"data", "opaque", "failed", "nothing", "raised", "late"}
    /\ MaxUses \in Nat
    /\ MaxToolRounds \in Nat

VARIABLES
    keyed,     \* whether an API key is set (and the SDK installed)
    at,        \* at[q]: where query q is
    input,     \* input[q]: what it asks
    prompt,    \* prompt[q]: the system prompt it uses, NoPrompt for the fallback
    offered,   \* offered[q]: the tools the model was told of
    rounds,    \* rounds[q]: tool_use_rounds
    asked,     \* asked[q]: model calls made
    uses,      \* uses[q]: the tool_use blocks of the last response
    outcome,   \* outcome[q][i]: what became of the i-th of them
    messages,  \* messages[q]: the messages list
    said,      \* said[q]: the text blocks of the last response: none, or one text
    reply,     \* reply[q]: the response text
    served,    \* history: served[q]: the prompt promoted last when q looked it up
    ended      \* history: ended[q]: each tool call of q (by its block's id) with its end

conversation == <<at, input, prompt, offered, rounds, asked, uses, outcome, messages,
                  said, reply, served, ended>>
assistantVars == <<keyed, conversation>>
vars == <<registryVars, assistantVars>>

\* "raised": the query ended with an exception and its caller got no reply.
Phases == {"new", "prompt", "asking", "tools", "guard", "done", "raised"}

\* "opaque" is a value that JSON has no form for (a UUID, a datetime, an object), "failed" a
\* ToolResult with success=False, "nothing" a None or an empty dict, "noserver" a server
\* name nobody registered, "late" the timeout.
Outcomes == {"data", "opaque", "failed", "nothing", "raised", "late", "noserver"}

Fixed(kind) == [kind |-> kind, text |-> {}]
NoReply == Fixed("none")
FromModel(text) == [kind |-> "model", text |-> text]

NoInput == [text |-> {}, ctx |-> [model |-> {}, models |-> {}, tools |-> {},
                                  allowed |-> {}, docs |-> {}]]

Init ==
    /\ RegistryInit
    /\ keyed \in BOOLEAN
    /\ at = [q \in Queries |-> "new"]
    /\ input = [q \in Queries |-> NoInput]
    /\ prompt = [q \in Queries |-> NoPrompt]
    /\ offered = [q \in Queries |-> {}]
    /\ rounds = [q \in Queries |-> 0]
    /\ asked = [q \in Queries |-> 0]
    /\ uses = [q \in Queries |-> <<>>]
    /\ outcome = [q \in Queries |-> <<>>]
    /\ messages = [q \in Queries |-> <<>>]
    /\ said = [q \in Queries |-> {}]
    /\ reply = [q \in Queries |-> NoReply]
    /\ served = [q \in Queries |-> NoPrompt]
    /\ ended = [q \in Queries |-> {}]

------------------------------------------------------------------------------
(* The tool coordinator. *)

AnySuccess(o) ==
    [success |-> o # "noserver",
     result  |-> IF o \in {"data", "opaque", "failed"} THEN o ELSE "none",
     error   |-> IF o \in {"raised", "late", "noserver"} THEN o ELSE "none"]

\* What execute_tools returns for a call that ended as o: a server's answer is a success
\* whatever its ToolResult says, and an answer of None has no result.
CallResult(o) ==
    [success |-> o \in {"data", "opaque", "failed", "nothing"},
     result  |-> IF o \in {"data", "opaque", "failed"} THEN o ELSE "none",
     error   |-> IF o \in {"raised", "late", "noserver"} THEN o ELSE "none"]

\* The tool_result block made of it: the result, or else {"error": ...}.
ToolResultBlock(id, r) ==
    [id |-> id,
     content |-> IF r.result # "none" THEN <<"result", r.result>> ELSE <<"error", r.error>>,
     is_error |-> ~r.success]

------------------------------------------------------------------------------
(* A query. *)

Moves(q, p) == at' = [at EXCEPT ![q] = p]

UserMessage(results) == [role |-> "user", uses |-> <<>>, results |-> results]
AssistantMessage(blocks) == [role |-> "assistant", uses |-> blocks, results |-> <<>>]

\* The input guard: a violation ends the query.
Submit(q, i) ==
    /\ at[q] = "new"
    /\ input' = [input EXCEPT ![q] = i]
    /\ IF InputCheck(i.text, i.ctx).allowed
         THEN Moves(q, "prompt") /\ UNCHANGED reply
         ELSE Moves(q, "done") /\ reply' = [reply EXCEPT ![q] = Fixed("restricted")]
    /\ UNCHANGED <<registryVars, keyed, prompt, offered, rounds, asked, uses, outcome,
                   messages, said, served, ended>>

\* _get_system_prompt: no active prompt and a database error (lost) alike give the fallback.
LooksUp(q) ==
    \E lost \in BOOLEAN, p \in Prompts \cup {NoPrompt} :
        /\ IF lost THEN p = NoPrompt ELSE GetActivePrompt(AnswerSlot, p)
        /\ prompt' = [prompt EXCEPT ![q] = p]
        /\ served' = [served EXCEPT ![q] = IF lost THEN NoPrompt ELSE latest[AnswerSlot]]

\* Between the guard and the first model call: the prompt, the stubs, the routing, and
\* get_available_tools.  It leaves out the servers whose listing raises, but formats the
\* listings outside the try: an entry that is not an object with a name and a description
\* (a dict, which is what MCPServer.list_tools returns) ends the query.
Prepare(q) ==
    /\ at[q] = "prompt"
    /\ LooksUp(q)
    /\ \/ /\ ~keyed
          /\ Moves(q, "guard")
          /\ reply' = [reply EXCEPT ![q] = Fixed("placeholder")]
          /\ UNCHANGED <<offered, messages>>
       \/ /\ keyed
          /\ Moves(q, "asking")
          /\ \E names \in {{}, Tools} : offered' = [offered EXCEPT ![q] = names]
          /\ messages' = [messages EXCEPT ![q] = <<UserMessage(<<>>)>>]
          /\ UNCHANGED reply
       \/ /\ keyed
          /\ Moves(q, "raised")
          /\ UNCHANGED <<offered, messages, reply>>
    /\ UNCHANGED <<registryVars, keyed, input, rounds, asked, uses, outcome, said, ended>>

Asks(q) == at[q] = "asking" /\ asked' = [asked EXCEPT ![q] = @ + 1]

\* messages.create raises, its own timeout included.
CallFails(q) ==
    /\ Asks(q)
    /\ reply' = [reply EXCEPT ![q] = Fixed("error")]
    /\ Moves(q, "guard")
    /\ UNCHANGED <<registryVars, keyed, input, prompt, offered, rounds, uses, outcome,
                   messages, said, served, ended>>

\* A response that does not ask for tools: its text blocks, joined.
CallAnswers(q, text) ==
    /\ Asks(q)
    /\ reply' = [reply EXCEPT ![q] = FromModel(UNION text)]
    /\ said' = [said EXCEPT ![q] = text]
    /\ Moves(q, "guard")
    /\ UNCHANGED <<registryVars, keyed, input, prompt, offered, rounds, uses, outcome,
                   messages, served, ended>>

\* After the loop: the text of the last response, or the fixed apology.
Exhausted(text) == IF text = {} THEN Fixed("unable") ELSE FromModel(UNION text)

\* A tool_use response: its blocks become tool calls, which run in parallel; a call to a
\* server that is not registered ends at once.  Without any block the loop is left.
CallWantsTools(q, text, names) ==
    /\ Asks(q) /\ offered[q] # {}
    /\ rounds' = [rounds EXCEPT ![q] = @ + 1]
    /\ said' = [said EXCEPT ![q] = text]
    /\ uses' = [uses EXCEPT ![q] = [i \in DOMAIN names |->
                                      [id |-> <<rounds[q] + 1, i>>, name |-> names[i]]]]
    /\ outcome' = [outcome EXCEPT ![q] = [i \in DOMAIN names |->
                     IF names[i] \in Stray THEN "noserver" ELSE "running"]]
    /\ ended' = [ended EXCEPT ![q] = @ \cup {<< <<rounds[q] + 1, i>>, "noserver">> :
                     i \in {j \in DOMAIN names : names[j] \in Stray}}]
    /\ IF names = <<>>
         THEN Moves(q, "guard") /\ reply' = [reply EXCEPT ![q] = Exhausted(text)]
         ELSE Moves(q, "tools") /\ UNCHANGED reply
    /\ UNCHANGED <<registryVars, keyed, input, prompt, offered, messages, served>>

\* One of the parallel tool calls ends: its server answers (with data, with nothing, with a
\* ToolResult that says it failed), raises, or is cut off by wait_for.
ToolEnds(q, i, o) ==
    /\ at[q] = "tools" /\ i \in DOMAIN uses[q] /\ outcome[q][i] = "running"
    /\ outcome' = [outcome EXCEPT ![q][i] = o]
    /\ ended' = [ended EXCEPT ![q] = @ \cup {<<uses[q][i].id, o>>}]
    /\ UNCHANGED <<registryVars, keyed, at, input, prompt, offered, rounds, asked, uses,
                   messages, said, reply, served>>

\* gather returns the results in the order of the calls, and zip pairs them with the blocks.
Results(q) ==
    [i \in DOMAIN uses[q] |-> ToolResultBlock(uses[q][i].id, CallResult(outcome[q][i]))]

WaitsForever(o) == o \notin {"running", "late"}

\* wait_for gives up on a call after its timeout.
Finished(o) == o # "running"

OneTooMany(q) == asked[q] <= MaxToolRounds + 1

\* range(_MAX_TOOL_ROUNDS + 1).
GoesOn(q) == asked[q] < MaxToolRounds + 1

Opaque(q) == \E i \in DOMAIN uses[q] : outcome[q][i] = "opaque"

\* All have ended: both messages are appended, and the loop goes on if it may.  json.dumps
\* of a result it has no form for raises, outside any try, and the query's list of messages
\* is lost with it.
Gathered(q) ==
    /\ at[q] = "tools"
    /\ \A i \in DOMAIN uses[q] : Finished(outcome[q][i])
    /\ \/ /\ Opaque(q)
          /\ Moves(q, "raised")
          /\ UNCHANGED <<messages, reply>>
       \/ /\ ~Opaque(q)
          /\ messages' = [messages EXCEPT ![q] =
                            @ \o <<AssistantMessage(uses[q]), UserMessage(Results(q))>>]
          /\ IF GoesOn(q)
               THEN Moves(q, "asking") /\ UNCHANGED reply
               ELSE Moves(q, "guard") /\ reply' = [reply EXCEPT ![q] = Exhausted(said[q])]
    /\ UNCHANGED <<registryVars, keyed, input, prompt, offered, rounds, asked, uses,
                   outcome, said, served, ended>>

\* The output guard replaces a text with violations; telemetry never fails the query.
Guard(q) ==
    /\ at[q] = "guard"
    /\ reply' = [reply EXCEPT ![q] = IF OutputCheck(@.text).allowed THEN @ ELSE Fixed("flagged")]
    /\ Moves(q, "done")
    /\ UNCHANGED <<registryVars, keyed, input, prompt, offered, rounds, asked, uses, outcome,
                   messages, said, served, ended>>

------------------------------------------------------------------------------
UseNames == UNION {[1 .. n -> Tools \cup Stray] : n \in 0 .. MaxUses}
Said == {{}} \cup {{t} : t \in Texts}

ModelAnswers(q) ==
    \/ CallFails(q)
    \/ \E text \in Said : CallAnswers(q, text)
    \/ \E text \in Said, names \in UseNames : CallWantsTools(q, text, names)

SomeToolEnds(q) == \E i \in 1 .. MaxUses, o \in Ends : ToolEnds(q, i, o)

Registry == RegistryNext /\ UNCHANGED assistantVars

\* Every query has been answered, or has ended with an exception.
Terminated == (\A q \in Queries : at[q] \in {"done", "raised"}) /\ UNCHANGED vars

Next ==
    \/ Registry
    \/ \E q \in Queries :
          \/ \E i \in Inputs : Submit(q, i)
          \/ Prepare(q) \/ ModelAnswers(q) \/ SomeToolEnds(q) \/ Gathered(q) \/ Guard(q)
    \/ Terminated

\* The event loop runs what is ready; the API client and wait_for bound the two waits.
Fairness ==
    \A q \in Queries :
        /\ WF_vars(Prepare(q)) /\ WF_vars(ModelAnswers(q)) /\ WF_vars(SomeToolEnds(q))
        /\ WF_vars(Gathered(q)) /\ WF_vars(Guard(q))

Spec == Init /\ [][Next]_vars /\ Fairness

------------------------------------------------------------------------------
(* Properties. *)

TypeOK ==
    /\ RegistryTypeOK
    /\ keyed \in BOOLEAN
    /\ at \in [Queries -> Phases]
    /\ input \in [Queries -> Inputs \cup {NoInput}]
    /\ prompt \in [Queries -> Prompts \cup {NoPrompt}]
    /\ offered \in [Queries -> SUBSET Tools]
    /\ rounds \in [Queries -> 0 .. MaxToolRounds + 1]
    /\ asked \in [Queries -> 0 .. MaxToolRounds + 1]
    /\ \A q \in Queries :
          /\ Len(uses[q]) <= MaxUses /\ DOMAIN outcome[q] = DOMAIN uses[q]
          /\ \A i \in DOMAIN uses[q] : /\ uses[q][i].name \in Tools \cup Stray
                                       /\ outcome[q][i] \in Outcomes \cup {"running"}
          /\ said[q] \in Said
          /\ reply[q].kind \in {"none", "restricted", "placeholder", "error", "unable",
                                "flagged", "model"}
          /\ reply[q].text \subseteq Markers
    /\ served \in [Queries -> Prompts \cup {NoPrompt}]

\* Unless promotions for its slot overlapped, a query is put to the model with the prompt
\* promoted last when it looked; the hard-coded fallback, which the registry's docstring
\* rules out, serves only a slot nothing was ever promoted for, or a failing database.
AnswersUsePromoted ==
    AnswerSlot \notin clashed => \A q \in Queries : prompt[q] = served[q]

PromptsConsistent == OneActivePerSlot /\ VersionsDistinct /\ AnswersUsePromoted

\* In the messages sent back to the model every tool_use block is answered, in the user
\* message that follows and at its own place, by the result of its own call: gather's and
\* zip's orders agree although the tools finish in any order, an unregistered server or a
\* timeout among them takes nobody else's place, and a call that was cut off, raised or
\* found no server is never passed on as a success.
ResultsMatchCalls ==
    \A q \in Queries : \A k \in DOMAIN messages[q] :
        messages[q][k].role = "assistant" =>
            /\ k + 1 \in DOMAIN messages[q] /\ messages[q][k + 1].role = "user"
            /\ LET blocks == messages[q][k].uses
                   results == messages[q][k + 1].results
               IN  /\ DOMAIN results = DOMAIN blocks
                   /\ \A i \in DOMAIN blocks : \E o \in Outcomes :
                         /\ <<blocks[i].id, o>> \in ended[q]
                         /\ results[i].id = blocks[i].id
                         /\ results[i].is_error <=> o \in {"raised", "late", "noserver"}
                         /\ o \in {"data", "failed"} => results[i].content = <<"result", o>>

\* A query that ended with an exception, and one of the two causes for which it may: no model
\* call had been made (the listing of the tools could not be formatted), or every tool call
\* of the last response had ended and one with a result that JSON has no form for.
Raised(q) ==
    /\ at[q] = "raised"
    /\ \/ asked[q] = 0
       \/ Opaque(q) /\ \A i \in DOMAIN uses[q] : Finished(outcome[q][i])

\* Every query comes to an end, whatever the model, the tools and the database do: the tool
\* loop ends, and no tool call is waited for beyond its timeout.  It ends with a reply, and
\* that reply stays, unless it raised; and an error of the model, a tool call that raises,
\* runs out of time or finds no server, or a database that fails never makes it raise: only a
\* listing that cannot be formatted or a result that cannot be written as JSON does.
EveryQueryAnswered ==
    \A q \in Queries :
        at[q] = "prompt" ~> [](\/ at[q] = "done" /\ reply[q].kind # "none"
                              \/ Raised(q))
==============================================================================
