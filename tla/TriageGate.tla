------------------------------ MODULE TriageGate ------------------------------
(***************************************************************************)
(* triage_trace: what the words of a message or an event, who said it and  *)
(* the intent of the user decide.  A text is the set of the keywords found *)
(* in it; one keyword stands for each set of tables it would be found in.  *)
(* The boilerplate guard, which sees the shape of a text, is an input.     *)
(***************************************************************************)
EXTENDS Naturals

Always == "always"          \* explicit, and a preference
Decision == "decision"      \* explicit, and a decision
Rule == "rule"              \* explicit
Schema == "schema"          \* durable
FactMark == "fact:"         \* a declared fact
PlanMark == "plan:"         \* a declared plan
Todo == "todo"              \* a plan
Error == "error"            \* a failure
Fixed == "fixed"            \* a failure, and its fix
Pass == "pass"              \* a fix
Verify == "verify"          \* a procedure
Instead == "instead"        \* a correction
Keywords == {Always, Decision, Rule, Schema, FactMark, PlanMark, Todo, Error, Fixed, Pass, Verify, Instead}

Explicit(text) == text \cap {Always, Decision, Rule} # {}
Durable(text) == Schema \in text
Failure(text) == text \cap {Error, Fixed} # {}
Fix(text) == Failure(text) /\ text \cap {Fixed, Pass} # {}
Procedure(text) == Verify \in text
Correction(text) == Instead \in text

\* Mutant: steps count before the explicit word of a user does.
ReasonStepsFirst(text, item) ==
    LET steps == /\ Procedure(text)
                 /\ Durable(text) \/ Explicit(text) \/ Failure(text)
    IN  IF item.manual THEN "manual_intent"
        ELSE IF Fix(text) \/ steps THEN "failure_fix_or_procedure"
        ELSE IF (Explicit(text) /\ item.role = "user") \/ Correction(text) THEN "explicit_decision_or_rule"
        ELSE IF Durable(text) /\ Explicit(text) THEN "durable_change_with_intent"
        ELSE IF Durable(text) /\ FactMark \in text THEN "declared_durable_fact"
        ELSE IF Durable(text) /\ PlanMark \in text /\ ~item.event THEN "declared_durable_plan"
        ELSE "weak_context_only"

\* The first reason that holds decides.
Reason(text, item) ==
    LET steps == /\ Procedure(text) /\ ~item.event
                 /\ Durable(text) \/ Explicit(text) \/ Failure(text)
    IN  IF item.manual THEN "manual_intent"
        ELSE IF (Explicit(text) /\ item.role = "user") \/ Correction(text) THEN "explicit_decision_or_rule"
        ELSE IF Fix(text) \/ steps THEN "failure_fix_or_procedure"
        ELSE IF Durable(text) /\ Explicit(text) THEN "durable_change_with_intent"
        ELSE IF Durable(text) /\ FactMark \in text THEN "declared_durable_fact"
        ELSE IF Durable(text) /\ PlanMark \in text /\ ~item.event THEN "declared_durable_plan"
        ELSE "weak_context_only"

\* In percent.
Importance(reason) ==
    CASE reason = "manual_intent" -> 90
      [] reason = "explicit_decision_or_rule" -> 80
      [] reason \in {"failure_fix_or_procedure", "durable_change_with_intent", "declared_durable_fact"} -> 65
      [] reason = "declared_durable_plan" -> 55
      [] reason = "weak_context_only" -> 35
      [] reason = "boilerplate_content" -> 0

Confidence(reason) ==
    CASE reason = "manual_intent" -> 85
      [] reason = "explicit_decision_or_rule" -> 75
      [] reason = "failure_fix_or_procedure" -> 65
      [] reason \in {"durable_change_with_intent", "declared_durable_fact"} -> 60
      [] reason = "declared_durable_plan" -> 55
      [] reason = "weak_context_only" -> 50
      [] reason = "boilerplate_content" -> 0

UnitType(text) ==
    IF Failure(text) /\ (Procedure(text) \/ Fix(text)) THEN IF Procedure(text) THEN "procedure" ELSE "learning"
    ELSE IF Correction(text) THEN "decision"
    ELSE IF Always \in text THEN "preference"
    ELSE IF Decision \in text THEN "decision"
    ELSE IF Procedure(text) THEN "procedure"
    ELSE IF FactMark \in text THEN "fact"
    ELSE IF text \cap {PlanMark, Todo} # {} THEN "plan"
    ELSE IF Durable(text) THEN "fact"
    ELSE "context"

Decided(text, item, reason) ==
    [extract |-> reason \notin {"weak_context_only", "boilerplate_content"}, reason |-> reason,
     type |-> IF reason = "boilerplate_content" THEN "context" ELSE UnitType(text),
     importance |-> Importance(reason), confidence |-> Confidence(reason), manual |-> item.manual]

TriageTrace(text, item) ==
    Decided(text, item, IF item.boilerplate THEN "boilerplate_content" ELSE Reason(text, item))

\* Labels come from the closed table, so they always pass.
ActivationPasses(d, hasSource) ==
    /\ hasSource /\ d.confidence >= 50
    /\ d.importance >= 45 \/ d.manual
=============================================================================
