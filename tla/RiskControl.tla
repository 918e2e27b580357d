------------------------------ MODULE RiskControl ------------------------------
(***************************************************************************)
(* What the control layer decides about a plan, from what its text         *)
(* mentions and the paths it touches: carry on, ask a person, or stop.     *)
(* A path is the set of rules of PATH_RISK_RULES whose pattern it matches, *)
(* by their place in the list; a plan's text is the set of things the      *)
(* keyword tests find in it.                                               *)
(* Source: src/ralph/risk-paths.js, risk-evaluator.js,                     *)
(* production-change-policy.js, ultraplan-runner.js.                       *)
(***************************************************************************)
EXTENDS Integers

Rules == 1..20
Paths == SUBSET Rules

\* PATH_RISK_RULES: secrets files, then legal documents, keyword list and workflows,
\* then rls, pii, auth and migrations, then src/ and scripts/, then tests and lint
\* configuration, then documents.
RuleScore(i) ==
    IF i <= 3 THEN 5 ELSE IF i <= 6 THEN 4 ELSE IF i <= 12 THEN 3
    ELSE IF i <= 14 THEN 2 ELSE IF i <= 17 THEN 1 ELSE 0

\* riskForPath: the first rule that matches.  A path no rule matches counts 2.
FirstRule(p) == CHOOSE i \in p : \A j \in p : i <= j
PathRisk(p) == IF p = {} THEN 2 ELSE RuleScore(FirstRule(p))

\* riskForPaths: the highest; 0 for no paths.
PathsRisk(P) ==
    IF P = {} THEN 0
    ELSE CHOOSE n \in 0..5 : (\E p \in P : PathRisk(p) = n) /\ \A p \in P : PathRisk(p) <= n

\* What the keyword tests of the two evaluators look for; both read the same text.
Mentions == {"migration", "auth", "rls", "api", "secrets", "destructive",
             "blocked_sql", "secret_permission", "deploy"}

ContentRisk(text, production) ==
    IF "destructive" \in text THEN 5
    ELSE IF "secrets" \in text \/ ("migration" \in text /\ production) THEN 4
    ELSE IF text \cap {"migration", "auth", "rls", "api"} # {} THEN 3 ELSE 0

DocsOnly(content, P) == P # {} /\ PathsRisk(P) = 0 /\ content < 5
SafeScope(content, P) == P # {} /\ PathsRisk(P) \in 1..2 /\ content \in 3..4

\* evaluateRisk: the two downgrades, and the higher of both scores otherwise.
Risk(content, P) ==
    IF (DocsOnly(content, P) /\ content >= 2) \/ SafeScope(content, P) THEN PathsRisk(P)
    ELSE IF content >= PathsRisk(P) THEN content ELSE PathsRisk(P)

\* decideControlAction for a plan: no diff, mode change or resume is being decided.
ControlAction(risk, mode, production) ==
    IF risk >= 5 THEN "stop"
    ELSE IF \/ production /\ risk >= 3
            \/ mode = "approval" /\ risk >= 2
            \/ mode = "fullauto" /\ risk >= 4
         THEN "require_plan_approval" ELSE "auto_execute"

ProductionChanges(text) ==
    text \cap {"migration", "blocked_sql", "rls", "auth", "secret_permission", "deploy"}

\* decideProductionChangePolicy before there is a diff.
ProductionAction(text, production) ==
    IF ~ production \/ ProductionChanges(text) = {} THEN "auto_execute"
    ELSE IF "blocked_sql" \in text THEN "stop" ELSE "require_diff_approval"

\* evaluatePlanControls: production policy first, the risk where it has no objection.
PlanControl(text, P, mode, production) ==
    IF ProductionAction(text, production) # "auto_execute"
    THEN ProductionAction(text, production)
    ELSE ControlAction(Risk(ContentRisk(text, production), P), mode, production)
=============================================================================
