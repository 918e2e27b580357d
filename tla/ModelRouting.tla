----------------------------- MODULE ModelRouting -----------------------------
(***************************************************************************)
(* The NemoClaw brain and the learning store it reads in CI: which rung of *)
(* the model ladder an attempt runs on, and what the store makes of the    *)
(* attempts recorded so far.  A rung stands for its model, a context       *)
(* bucket for the base tier its difficulty label was derived from (the     *)
(* bucket's other parts do not change between runs for one issue).  The    *)
(* resolver never passes a cost, so the store's tie-break by cost per      *)
(* success leaves equal rates in no particular order.                      *)
(* Source: src/ralph/nemoclaw-brain.js, d1-learning-store.js,              *)
(* scripts/ralph/ci-select-model.js, scripts/ralph/d1-schema.sql.          *)
(***************************************************************************)
EXTENDS Integers, FiniteSets, FiniteSetsExt

CONSTANTS
    Top,         \* last rung of the ladder
    Signals,     \* what the classifier may make of a text: a tier, or
    NoSignal,    \* nothing, when it fails
    Stories,     \* rows of tasks
    MinSamples   \* executions a recommendation needs

ASSUME RoutingAssumption ==
    /\ Top \in Nat /\ Signals \subseteq (0..Top) \cup {NoSignal} /\ Signals # {}
    /\ MinSamples \in Nat \ {0}

Tiers == 0..Top

\* The difficulty of a text nobody could classify is easy.
BaseTier(signal) == IF signal = NoSignal THEN 0 ELSE signal

VARIABLES
    bucket,      \* context_bucket of each task row, or -1 for no row
    executions   \* of each story and model: the attempts recorded, and those that succeeded

storeVars == <<bucket, executions>>

NoExecutions == [m \in Tiers |-> [tries |-> 0, wins |-> 0]]

\* success_rate_by_bucket: executions are counted in their story's present bucket.
InBucket(b, m, field) ==
    MapThenSumSet(LAMBDA s : executions[s][m][field], {s \in Stories : bucket[s] = b})

\* recommendForBucket, and the confidence selectModel asks for (0.6 of the tries).
\* Ordering by rate: a/b >= c/d for positive b and d.
Learned(b) ==
    LET tries(m) == InBucket(b, m, "tries")
        wins(m)  == InBucket(b, m, "wins")
        eligible == {m \in Tiers : tries(m) >= MinSamples /\ wins(m) > 0}
    IN  {m \in eligible :
            /\ \A n \in eligible : wins(m) * tries(n) >= wins(n) * tries(m)
            /\ 5 * wins(m) >= 3 * tries(m)}

\* A transient failure retries on the rung it failed on.
\* The variant takes every failure for one.
StepsAlwaysBehind(attempt, transient) == IF attempt > 0 THEN attempt - 1 ELSE attempt
Steps(attempt, transient) == IF transient /\ attempt > 0 THEN attempt - 1 ELSE attempt
TransientFailures == {"provider_rate_limited", "provider_unavailable", "network_timeout"}

WantedTier(base, attempt, failure) == base + Steps(attempt, failure \in TransientFailures)

\* selectModel without an operator's model: a first attempt on a confident
\* recommendation, if the store answers; the ladder from the base tier otherwise.
\* last is ci-select-model's exit code 3.
Selections(base, attempt, failure) ==
    LET wanted == WantedTier(base, attempt, failure)
        ladder == [tier |-> IF wanted > Top THEN Top ELSE wanted, last |-> wanted > Top]
    IN  {ladder} \cup
        {[tier |-> m, last |-> FALSE] : m \in IF attempt = 0 THEN Learned(base) ELSE {}}

\* recordOutcome: the task row, then the execution; either query may fail.
Record(s, b, m, won) ==
    \/ UNCHANGED storeVars
    \/ /\ bucket' = [bucket EXCEPT ![s] = b]
       /\ \/ UNCHANGED executions
          \/ executions' = [executions EXCEPT
                ![s][m].tries = @ + 1, ![s][m].wins = @ + (IF won THEN 1 ELSE 0)]

===============================================================================
