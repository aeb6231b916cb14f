------------------------------ MODULE PolicyGuard ------------------------------
(***************************************************************************)
(* packages/ai/policy_guard.py: what the input and the output guard find,  *)
(* and the risk score they give.  A text is the set of the markers that    *)
(* occur in it: which patterns of the guards match and which phrases it    *)
(* contains.  Risk is in hundredths.                                       *)
(***************************************************************************)
EXTENDS Integers, FiniteSets

\* _INJECTION_PATTERNS, one marker each.
InjectionPatterns == {"ignore previous", "disregard prior", "extract prompt", "you are now",
                      "act as", "jailbreak", "forget", "system tag"}

\* _PII_PATTERNS.
PiiPatterns == {"ssn", "nine digits", "card", "email", "phone"}

\* _POLICY_VIOLATION_KEYWORDS, looked for in the lower-cased response.
PolicyKeywords == {"bypass security", "hack into", "exploit vulnerability", "unauthorized access"}

\* _UNSUPPORTED_CLAIM_MARKERS, compared in lower case.
ClaimMarkers == {"i guarantee", "this is guaranteed", "100% certain", "absolutely certain",
                 "i promise", "legally binding"}

Markers == InjectionPatterns \cup PiiPatterns \cup PolicyKeywords \cup ClaimMarkers

Cap(risk) == IF risk > 100 THEN 100 ELSE risk

------------------------------------------------------------------------------
(* InputPolicyGuard.  The context of a query holds four optional entries, each *)
(* the set of its value, empty when the key is absent: model (requested_model) *)
(* and models (the set tenant_allowed_models), tools (the requested ones) and  *)
(* allowed (the set tenant_allowed_tools), and docs, the documents' records.   *)

CheckInjection(text) == text \cap InjectionPatterns

\* A requested model the tenant may not use; no list of models permits every one.
ForbiddenModels(ctx) == {m \in ctx.model : \E models \in ctx.models : m \notin models}

ForbiddenTools(ctx) == {t \in ctx.tools : \E allowed \in ctx.allowed : t \notin allowed}

SensitiveDocs(ctx) == {d \in ctx.docs : d.sensitivity \in {"SECRET", "TOP_SECRET"}}

\* check(): every violation adds its risk, capped after each, which is capped once.
InputCheck(text, ctx) ==
    LET hits == Cardinality(CheckInjection(text))
        models == Cardinality(ForbiddenModels(ctx))
        tools == Cardinality(ForbiddenTools(ctx))
        docs == Cardinality(SensitiveDocs(ctx))
    IN  [allowed |-> hits + models + tools + docs = 0,
         risk |-> Cap(30 * hits + 40 * models + 20 * tools + 50 * docs)]

------------------------------------------------------------------------------
(* OutputPolicyGuard. *)

CheckPii(text) == text \cap PiiPatterns

CheckPolicyKeywords(text) == text \cap PolicyKeywords

CheckUnsupportedClaims(text) == text \cap ClaimMarkers

OutputCheck(text) ==
    LET pii == Cardinality(CheckPii(text))
        keywords == Cardinality(CheckPolicyKeywords(text))
        claims == Cardinality(CheckUnsupportedClaims(text))
    IN  [allowed |-> pii + keywords + claims = 0,
         risk |-> Cap(40 * pii + 30 * keywords + 15 * claims)]
==============================================================================
