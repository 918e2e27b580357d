----------------------------- MODULE AiderResolver -----------------------------
(***************************************************************************)
(* The CI resolver of labelled issues.  A label or a comment starts a run; *)
(* runs for one issue are not kept apart, and share its branch and its     *)
(* pull request.  A run climbs the model ladder until an attempt passes    *)
(* the tests, force-pushes that attempt, opens a pull request, has the     *)
(* diff reviewed and asks GitHub to merge.  The job can die anywhere.      *)
(* Source: .github/workflows/aider-resolver.yml,                           *)
(* scripts/ralph/ci-select-model.js, ci-record-outcome.js, ci-review.js.   *)
(***************************************************************************)
EXTENDS ModelRouting

CONSTANTS
    Runs, Issues,   \* workflow runs, and the issues they are started for
    Past,           \* a story resolved before
    MaxAttempts     \* attempts of a run

ASSUME ResolverAssumption ==
    /\ Stories = Issues \cup {Past} /\ Past \notin Issues /\ Issues # {}
    /\ MaxAttempts \in Nat \ {0}

Attempts == 0..(MaxAttempts - 1)
Works == Runs \X Attempts   \* the commits of an attempt
NoWork == <<>>
Unrouted == -1   \* the rung of an attempt for which no model was chosen

VARIABLES
    at, issue,     \* of each run: the step it is at, its issue
    base, attempt, tier, last, failure, work,
    left,          \* and whether its checkout has changes that are not committed
    reply,         \* what the run told people at its end
    tip, pr,       \* of each issue: origin's branch, whether a pull request is open
    auto,          \* pull requests GitHub merges once their checks pass
    merged,        \* works that reached the default branch
    passed, mixed,     \* observed: works that passed the tests, alone or with such changes
    topTried, unrouted \* observed: runs that ran the last rung, or no rung at the end

runVars == <<base, attempt, tier, last, failure, work, left>>
hubVars == <<tip, pr, auto, merged>>
seenVars == <<passed, mixed, topTried, unrouted>>
vars == <<storeVars, at, issue, runVars, reply, hubVars, seenVars>>

Replies == {"none", "halted", "asked", "blocked", "pending", "merged", "unmerged"}

TypeOK ==
    /\ bucket \in [Stories -> Tiers \cup {-1}]
    /\ \A s \in Stories, m \in Tiers : executions[s][m].wins \in 0..executions[s][m].tries
    /\ at \in [Runs -> {"idle", "preflight", "select", "aider", "gate", "record",
                        "push", "create", "review", "merge", "ended", "killed"}]
    /\ issue \in [Runs -> Issues]
    /\ base \in [Runs -> Tiers] /\ attempt \in [Runs -> 0..MaxAttempts]
    /\ tier \in [Runs -> Tiers \cup {Unrouted}] /\ last \in [Runs -> BOOLEAN]
    /\ failure \in [Runs -> {"", "no_diff", "gate_failure"}]
    /\ work \in [Runs -> Works \cup {NoWork}] /\ left \in [Runs -> BOOLEAN] /\ reply \in [Runs -> Replies]
    /\ tip \in [Issues -> Works \cup {NoWork}] /\ pr \in [Issues -> BOOLEAN]
    /\ auto \subseteq Issues /\ merged \subseteq Works
    /\ passed \cup mixed \subseteq Works /\ topTried \cup unrouted \subseteq Runs

\* The store may know of an issue resolved before, on one model, MinSamples times.
Init ==
    /\ \E b \in {BaseTier(x) : x \in Signals}, m \in Tiers, n \in {0, MinSamples} :
        /\ bucket = [s \in Stories |-> IF s = Past /\ n > 0 THEN b ELSE -1]
        /\ executions = [s \in Stories |->
              [NoExecutions EXCEPT ![m] = IF s = Past THEN [tries |-> n, wins |-> n] ELSE @]]
    /\ at = [r \in Runs |-> "idle"] /\ issue = [r \in Runs |-> CHOOSE i \in Issues : TRUE]
    /\ base = [r \in Runs |-> 0] /\ attempt = [r \in Runs |-> 0]
    /\ tier = [r \in Runs |-> 0] /\ last = [r \in Runs |-> FALSE]
    /\ failure = [r \in Runs |-> ""] /\ work = [r \in Runs |-> NoWork]
    /\ left = [r \in Runs |-> FALSE] /\ reply = [r \in Runs |-> "none"]
    /\ tip = [i \in Issues |-> NoWork] /\ pr = [i \in Issues |-> FALSE]
    /\ auto = {} /\ merged = {}
    /\ passed = {} /\ mixed = {} /\ topTried = {} /\ unrouted = {}

Goto(r, step) == at' = [at EXCEPT ![r] = step]

\* The loop's variables; work is the run's checkout.
Forget(r) ==
    /\ base' = [base EXCEPT ![r] = 0] /\ attempt' = [attempt EXCEPT ![r] = 0]
    /\ tier' = [tier EXCEPT ![r] = 0] /\ last' = [last EXCEPT ![r] = FALSE]
    /\ failure' = [failure EXCEPT ![r] = ""] /\ left' = [left EXCEPT ![r] = FALSE]

End(r, words) == Goto(r, "ended") /\ reply' = [reply EXCEPT ![r] = words]

\* A label or a comment.
Start(r) ==
    /\ at[r] = "idle" /\ Goto(r, "preflight")
    /\ issue' \in {[issue EXCEPT ![r] = i] : i \in Issues}
    /\ UNCHANGED <<storeVars, runVars, reply, hubVars, seenVars>>

\* Spending cap and balance.
CostCheck(r) ==
    /\ at[r] = "preflight"
    /\ \/ End(r, "halted")
       \/ Goto(r, "select") /\ UNCHANGED reply
    /\ UNCHANGED <<storeVars, issue, runVars, hubVars, seenVars>>

\* checkout -B from the default branch.  It takes uncommitted changes along, or git
\* refuses because of them and the last attempt's commits stay.
Checkout(r) ==
    \/ work' = [work EXCEPT ![r] = NoWork]
    \/ left[r] /\ UNCHANGED work

\* ci-select-model: the text is classified anew at every attempt.  When it dies
\* without an answer the attempt goes on with no model named.
Select(r) ==
    /\ at[r] = "select"
    /\ \/ \E x \in Signals : \E s \in Selections(BaseTier(x), attempt[r], failure[r]) :
             /\ base' = [base EXCEPT ![r] = BaseTier(x)]
             /\ tier' = [tier EXCEPT ![r] = s.tier]
             /\ last' = [last EXCEPT ![r] = s.last]
       \/ /\ tier' = [tier EXCEPT ![r] = Unrouted] /\ last' = [last EXCEPT ![r] = FALSE]
          /\ UNCHANGED base
    /\ Checkout(r)
    /\ Goto(r, "aider")
    /\ UNCHANGED <<storeVars, issue, attempt, failure, left, reply, hubVars, seenVars>>

\* The agent commits or not, and may leave changes uncommitted; a diff is what the
\* branch is ahead of the default branch.
Aider(r) ==
    /\ at[r] = "aider"
    /\ topTried' = IF tier[r] = Top THEN topTried \cup {r} ELSE topTried
    /\ unrouted' = IF tier[r] = Unrouted /\ attempt[r] + 1 >= MaxAttempts
                   THEN unrouted \cup {r} ELSE unrouted
    /\ left' \in {[left EXCEPT ![r] = b] : b \in BOOLEAN}
    /\ work' \in {work, [work EXCEPT ![r] = <<r, attempt[r]>>]}
    /\ \/ work'[r] # NoWork /\ Goto(r, "gate") /\ UNCHANGED failure
       \/ /\ work'[r] = NoWork /\ Goto(r, "record")
          /\ failure' = [failure EXCEPT ![r] = "no_diff"]
    /\ UNCHANGED <<storeVars, issue, base, attempt, tier, last, reply, hubVars, passed, mixed>>

\* What the run makes of the test command's answer; the variant ignores it.
AfterGateIgnored(ok) == ""
AfterGate(ok) == IF ok THEN "" ELSE "gate_failure"

\* The tests run in the checkout, on what is committed and what is not.
Gate(r) ==
    /\ at[r] = "gate"
    /\ \E ok \in BOOLEAN :
        /\ passed' = IF ok /\ ~ left[r] THEN passed \cup {work[r]} ELSE passed
        /\ mixed' = IF ok /\ left[r] THEN mixed \cup {work[r]} ELSE mixed
        /\ failure' = [failure EXCEPT ![r] = AfterGate(ok)]
    /\ Goto(r, "record")
    /\ UNCHANGED <<storeVars, issue, base, attempt, tier, last, work, left, reply, hubVars,
                   topTried, unrouted>>

\* The outcome goes to the store, unless no model is named; then the next attempt,
\* the push, or a person.
Recorded(r) ==
    /\ at[r] = "record"
    /\ IF tier[r] = Unrouted THEN UNCHANGED storeVars
       ELSE Record(issue[r], base[r], tier[r], failure[r] = "")
    /\ LET next == attempt[r] + 1
           done == last[r] \/ next >= MaxAttempts
       IN  \/ failure[r] = "" /\ Goto(r, "push") /\ Forget(r) /\ UNCHANGED <<reply, work>>
           \/ /\ failure[r] # "" /\ ~ done /\ Goto(r, "select")
              /\ attempt' = [attempt EXCEPT ![r] = next]
              /\ UNCHANGED <<reply, base, tier, last, failure, work, left>>
           \/ /\ failure[r] # "" /\ done /\ End(r, "asked") /\ Forget(r)
              /\ work' = [work EXCEPT ![r] = NoWork]
    /\ UNCHANGED <<issue, hubVars, seenVars>>

\* push --force, whose failure stops nothing.
Push(r) ==
    /\ at[r] = "push" /\ Goto(r, "create")
    /\ \/ tip' = [tip EXCEPT ![issue[r]] = work[r]]
       \/ UNCHANGED tip
    /\ UNCHANGED <<storeVars, issue, runVars, reply, pr, auto, merged, seenVars>>

\* Creation fails when the pull request exists or there is no branch.
CreatePr(r) ==
    /\ at[r] = "create" /\ Goto(r, "review")
    /\ \/ tip[issue[r]] # NoWork /\ pr' = [pr EXCEPT ![issue[r]] = TRUE]
       \/ UNCHANGED pr
    /\ UNCHANGED <<storeVars, issue, runVars, reply, tip, auto, merged, seenVars>>

\* The review is of the run's own diff.
Review(r) ==
    /\ at[r] = "review"
    /\ \/ Goto(r, "merge") /\ UNCHANGED reply
       \/ End(r, "blocked")
    /\ UNCHANGED <<storeVars, issue, runVars, hubVars, seenVars>>

\* Squash-merge of whatever the branch holds, deleting it.
MergeBranch(i) ==
    /\ merged' = merged \cup {tip[i]}
    /\ tip' = [tip EXCEPT ![i] = NoWork] /\ pr' = [pr EXCEPT ![i] = FALSE]
    /\ auto' = auto \ {i}

\* gh pr merge on the branch's pull request, with --auto and then without.
Merge(r) ==
    /\ at[r] = "merge"
    /\ \/ /\ pr[issue[r]] /\ auto' = auto \cup {issue[r]} /\ End(r, "pending")
          /\ UNCHANGED <<tip, pr, merged>>
       \/ pr[issue[r]] /\ MergeBranch(issue[r]) /\ End(r, "merged")
       \/ End(r, "unmerged") /\ UNCHANGED hubVars
    /\ UNCHANGED <<storeVars, issue, runVars, seenVars>>

\* GitHub, when the checks of a pull request it was asked to merge pass.
AutoMerge(i) ==
    /\ i \in auto /\ MergeBranch(i)
    /\ UNCHANGED <<storeVars, at, issue, runVars, reply, seenVars>>

\* Time limit, cancelled job, lost runner, an answer that cannot be posted.
Killed(r) ==
    /\ at[r] \notin {"idle", "ended", "killed"} /\ Goto(r, "killed") /\ Forget(r)
    /\ work' = [work EXCEPT ![r] = NoWork]
    /\ UNCHANGED <<storeVars, issue, reply, hubVars, seenVars>>

RunStep(r) ==
    \/ CostCheck(r) \/ Select(r) \/ Aider(r) \/ Gate(r) \/ Recorded(r)
    \/ Push(r) \/ CreatePr(r) \/ Review(r) \/ Merge(r)

Next ==
    \/ \E r \in Runs : Start(r) \/ RunStep(r) \/ Killed(r)
    \/ \E i \in Issues : AutoMerge(i)

Spec == Init /\ [][Next]_vars

-------------------------------------------------------------------------------
(* What reaches the default branch is an attempt whose own tests passed in the    *)
(* checkout it was made in, although runs overwrite each other's branch and merge  *)
(* by branch (aider-resolver.yml:191-216).                                         *)
MergedGreen == merged \subseteq passed \cup mixed

(* "Success -> push the winning attempt, open PR, auto-merge (gate already green)": *)
(* the commits that reach the default branch passed the tests.  The code does not  *)
(* keep this: it tests them with what is not committed.                            *)
MergedAsTested == merged \subseteq passed

(* A run asks for a person only after it ran the last rung, whatever the classifier *)
(* and the store said at each attempt, or could choose no model for its last one    *)
(* ("Escalation exhausted (tried up to Opus)").                                     *)
TopTried == \A r \in Runs : reply[r] = "asked" => r \in topTried \cup unrouted

(* "A block leaves the PR open for a human (never merges)": no work a review *)
(* blocked reaches the default branch.  The code does not keep this.         *)
NeverMergeBlocked == \A r \in Runs : reply[r] = "blocked" => work[r] \notin merged

===============================================================================
