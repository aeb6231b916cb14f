----------------------------- MODULE MCOperations -----------------------------
(* Small instances of the parts that share no state, and every short list of *)
(* lexemes as an expression of the rule language, grown by one at a time.    *)
EXTENDS Operations, Expressions, TLC

CONSTANTS a1, a2, a3, r1, r2, r3, e1, e2

VARIABLE expression    \* the expression given to the parser

------------------------------------------------------------------------------
(* Bounds. *)

CONSTANT MaxLexemes

Lexeme(k, t, v) == [kind |-> k, text |-> t, value |-> v]
Text(p, f) == [type |-> "text", place |-> p, float |-> f]

MCLexemes ==
    {Lexeme("FIELD", "a", {}), Lexeme("MINUS", "-1", {Number(-1)}), Lexeme("STRING", "s", {Text(1, {1})}),
     Lexeme("AND", "and", {}), Lexeme("OR", "or", {}), Lexeme("NOT", "not", {}),
     Lexeme("LPAREN", "(", {}), Lexeme("RPAREN", ")", {}), Lexeme("<", "<", {}), Lexeme("==", "==", {})}

MCContexts ==
    {<<>>} \cup {("a" :> v) : v \in {Number(0), Number(1), Boolean(TRUE), Text(0, {}), Text(2, {}), None}}

StepOf(t, c, a, s) == [type |-> t, timeout |-> 1, wait |-> 1, condition |-> c, abort |-> a, sound |-> s]

StepKinds ==
    {StepOf("api_call", "none", TRUE, TRUE), StepOf("api_call", "last_failed", FALSE, TRUE),
     StepOf("notify", "none", FALSE, FALSE), StepOf("notify", "trigger_not_met", FALSE, TRUE),
     StepOf("notify", "trigger_unknown", FALSE, TRUE), StepOf("unknown", "last_succeeded", TRUE, TRUE),
     StepOf("delay", "last_failed", FALSE, TRUE), StepOf("approve", "trigger_met", TRUE, TRUE)}

MCWorkflows == Templates \cup UNION {[1 .. n -> StepKinds] : n \in 0 .. 3}

ChannelOf(t, has, s) == [type |-> t, has |-> has, sendable |-> s]

ChannelKinds ==
    {ChannelOf("slack", {"webhook_url"}, TRUE), ChannelOf("slack", {"webhook_url"}, FALSE), ChannelOf("slack", {}, TRUE),
     ChannelOf("email", {"to", "smtp_config", "host"}, TRUE), ChannelOf("email", {"to", "smtp_config", "host"}, FALSE),
     ChannelOf("email", {"to", "smtp_config"}, TRUE), ChannelOf("email", {"to"}, TRUE),
     ChannelOf("sms", {"to", "twilio_config", "twilio_keys"}, TRUE), ChannelOf("sms", {"to", "twilio_config"}, TRUE),
     ChannelOf("pagerduty", {"routing_key"}, TRUE), ChannelOf("teams", {"webhook_url"}, TRUE),
     ChannelOf("unknown", {"webhook_url"}, TRUE)}

MCChannelLists == UNION {[1 .. n -> ChannelKinds] : n \in 0 .. 2}

MCPolicy == <<2, 0, 1>>

EventKind(e, related, signals, comparable) ==
    [entity |-> e, related |-> related, signals |-> signals, comparable |-> comparable]

MCEventKinds ==
    {EventKind("x", {"y"}, {"error"}, TRUE), EventKind("x", {}, {"error", "flagged"}, FALSE),
     EventKind("x", {}, {"status"}, TRUE), EventKind("x", {}, {"scored", "status"}, TRUE),
     EventKind("x", {"x"}, {}, FALSE), EventKind("y", {}, {"error"}, TRUE)}

\* In thousandths, of 0, 24 and 48 hours.
MCDecay == <<1000, 135, 18>>

Calm(e) ==
    [entity |-> e, flagged |-> FALSE, comparable |-> TRUE, delay |-> {}, progress |-> {}, garbled |-> FALSE,
     deadline |-> {}, zoned |-> TRUE]

MCLogEvents ==
    {[Calm("x") EXCEPT !.delay = {60}], [Calm("x") EXCEPT !.delay = {-60}],
     [Calm("x") EXCEPT !.delay = {120}, !.flagged = TRUE],
     [Calm("x") EXCEPT !.progress = {20}, !.deadline = {4}], [Calm("x") EXCEPT !.progress = {60}],
     [Calm("x") EXCEPT !.progress = {40}, !.deadline = {9}], [Calm("x") EXCEPT !.progress = {100}],
     [Calm("x") EXCEPT !.garbled = TRUE, !.deadline = {5}], [Calm("x") EXCEPT !.deadline = {6}, !.zoned = FALSE],
     [Calm("x") EXCEPT !.comparable = FALSE], [Calm("y") EXCEPT !.flagged = TRUE, !.comparable = FALSE]}

MCMessages == [system : BOOLEAN, text : {3, 10, 14}]

MCChunks == [relevance : {0, 1}, text : {3, 31}]

MCSymmetry == Permutations(Alerts) \cup Permutations(Entities)

------------------------------------------------------------------------------
MCInit == subject \in Parts \cup {"expression"} /\ Begin /\ expression = <<>>

Writes ==
    /\ subject = "expression" /\ Len(expression) < MaxLexemes
    /\ \E l \in Lexemes : expression' = Append(expression, l)
    /\ UNCHANGED operationsVars

MCNext == (Next /\ UNCHANGED expression) \/ Writes

MCSpec == MCInit /\ [][MCNext]_<<expression, operationsVars>>

------------------------------------------------------------------------------
\* ExpressionParser.validate accepts the expression if and only if the documented grammar has it,
\* and evaluate gives it its meaning in every context.
ExpressionsMeanWhatTheySay == FollowsGrammar(expression) /\ MeansWhatItSays(expression)
================================================================================
