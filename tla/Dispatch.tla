------------------------------ MODULE Dispatch ------------------------------
(***************************************************************************)
(* One dispatch of a candidate patch: preflight, budget, a detached git    *)
(* worktree, the coding agent, the diff taken from the worktree, the       *)
(* candidate.patch file, the cost ledger, and what the loop then does with *)
(* the story.  A dispatch is a row of file and git operations; the process *)
(* may die between any two, and /ralph tick may run a dispatch beside the  *)
(* daemon's.                                                               *)
(* Source: src/ralph/opencode-kimi-dispatcher.js, story-worktree.js,       *)
(* kimi-cost-tracker.js, pr-reviewer.js,                                   *)
(* deterministic-candidate-patch-fallback.js,                              *)
(* autonomous-loop.js, autonomous-loop-wired.js,                           *)
(* src/telegram/opencode-sandbox-preflight.js.                             *)
(***************************************************************************)
EXTENDS Naturals, FiniteSets, Functions

CONSTANTS
    Stories,
    Simple,        \* stories the deterministic fallback may answer
    Daemon,        \* the process with the cycles
    Guests,        \* processes that run a single /ralph tick
    NoStory,
    Attempts,      \* a story's max_attempts
    Cap,           \* RALPH_KIMI_DAILY_BUDGET_USD
    Dear,          \* the most the ledger reckons for one call
    CallsPerCycle, \* bound on the ticks of a cycle that may pay for a call
    ReviewCalls,   \* the calls of one review, its retries included
    MaxCrashes, MaxLost, Days

Tickers == {Daemon} \cup Guests

ASSUME DispatchAssumption ==
    /\ Simple \subseteq Stories /\ NoStory \notin Stories /\ Daemon \notin Guests
    /\ IsFiniteSet(Guests)
    /\ Attempts \in Nat \ {0} /\ Cap \in Nat /\ Dear \in Nat \ {0}
    /\ CallsPerCycle \in Nat \ {0} /\ ReviewCalls \in Nat \ {0}
    /\ MaxCrashes \in Nat /\ MaxLost \in Nat /\ Days \in Nat \ {0}

VARIABLES
    phase, tries,      \* of each story: current_phase and attempts
    ran,               \* how often the daemon has run the agent for each story
    patch, author,     \* whose edits candidate.patch holds; who moved the story on
    dir, edits, reg,   \* the worktree directory, its edits, its registration in .git
    left,              \* the stories whose worktree a dispatch failed to remove
    at, on, id, got,   \* of each ticker: next step, story, dispatch, the diff taken
    reason, cost,      \* why the dispatch failed; what its call cost
    calls,             \* ticks left in the daemon's cycle
    since,             \* of each ticker: the day its tick or cycle began
    spent,             \* of each day: the ledger's entries
    paid,              \* what the calls would come to at the ledger's rates
    lost,              \* calls of reviews that no entry was made for
    day, crashes

storyVars == <<phase, tries, author>>
treeVars == <<dir, edits, reg, left>>
jobVars == <<on, id, got, reason, cost>>
cycleVars == <<calls, since>>
moneyVars == <<spent, paid, lost, ran>>
clockVars == <<day, crashes>>
dispatchVars == <<storyVars, patch, treeVars, at, jobVars, cycleVars, moneyVars, clockVars>>

FALLBACK == [by |-> "fallback", nr |-> 0]
Eligible == {"provider_rate_limited", "candidate_patch_missing"}
Goes(t, label) == at' = [at EXCEPT ![t] = label]

-----------------------------------------------------------------------------
(* Budget                                                                  *)

\* isOverBudget, over readDailySpend.  The variant reads the day before.
OverBefore(d) == d > 1 /\ spent[d - 1] > Cap
Over(d) == spent[d] > Cap

\* evaluateBudgetGuard: a cycle whose day is over budget does no scheduler tick.
StartCycle ==
    /\ at[Daemon] = "idle" /\ calls = 0
    /\ ~Over(day)
    /\ calls' = CallsPerCycle /\ since' = [since EXCEPT ![Daemon] = day]
    /\ UNCHANGED <<storyVars, patch, treeVars, at, jobVars, moneyVars, clockVars>>

EndCycle ==
    /\ at[Daemon] = "idle" /\ calls > 0 /\ calls' = 0
    /\ UNCHANGED <<storyVars, patch, treeVars, at, jobVars, since, moneyVars, clockVars>>

\* reviewPullRequest in a tick of the cycle, without a look at the budget: n calls
\* are paid, and the last one alone is entered, if its answer was valid and the
\* ledger could be written.
Review(n, c, entered) ==
    /\ at[Daemon] = "idle" /\ calls > 0
    /\ calls' = calls - 1
    /\ paid' = paid + n * c
    /\ IF entered
       THEN /\ n > 0 /\ lost' = lost + n - 1
            /\ spent' = [spent EXCEPT ![since[Daemon]] = @ + c]
       ELSE /\ lost' = lost + n /\ UNCHANGED spent
    /\ lost' <= MaxLost
    /\ UNCHANGED <<storyVars, patch, treeVars, at, jobVars, since, ran, clockVars>>

-----------------------------------------------------------------------------
(* The start of a dispatch                                                 *)

\* What opencodeSandboxRunnerPreflight and the checks before the worktree refuse:
\* approval, branch, requested paths, secret scan, missing runtime or key.
Refusals == {"preflight_failed", "opencode_runtime_not_installed",
             "opencode_kimi_api_key_missing"}

Refused(t, s, why) ==
    /\ Goes(t, "settle")
    /\ reason' = [reason EXCEPT ![t] = why]
    /\ UNCHANGED cost

Admitted(t) ==
    /\ Goes(t, "clear")
    /\ reason' = [reason EXCEPT ![t] = "none"]
    /\ UNCHANGED cost

Begin(t, s) ==
    /\ at[t] = "idle" /\ phase[s] = "OPENCODE_RUNNING"
    /\ t = Daemon => calls > 0
    /\ IF t = Daemon THEN calls' = calls - 1 /\ UNCHANGED since
                     ELSE since' = [since EXCEPT ![t] = day] /\ UNCHANGED calls
    /\ on' = [on EXCEPT ![t] = s]
    /\ id' = [id EXCEPT ![t] = [by |-> t, nr |-> tries[s] + crashes]]
    /\ got' = [got EXCEPT ![t] = {}]
    /\ \/ \E why \in Refusals : Refused(t, s, why)
       \/ Over(day) /\ Refused(t, s, "kimi_daily_budget_exceeded")
       \/ ~Over(day) /\ Admitted(t)
    /\ UNCHANGED <<storyVars, patch, treeVars, moneyVars, clockVars>>

-----------------------------------------------------------------------------
(* The worktree                                                            *)

\* The directory of a story and what is in it are removed.
NoDir(s) ==
    /\ dir' = [dir EXCEPT ![s] = FALSE]
    /\ edits' = [edits EXCEPT ![s] = {}]

\* createStoryWorktree, cleaning: git worktree remove, and when that fails the
\* directory alone, which may fail too.  A locked registration (an add that never
\* ended) stays.
ClearDir(s) ==
    /\ UNCHANGED left
    /\ \/ NoDir(s) /\ dir[s] /\ reg[s] = "registered" /\ reg' = [reg EXCEPT ![s] = "none"]
       \/ NoDir(s) /\ UNCHANGED reg
       \/ dir[s] /\ UNCHANGED <<dir, edits, reg>>

Clear(t) ==
    /\ at[t] = "clear" /\ ClearDir(on[t])
    /\ Goes(t, "add")
    /\ UNCHANGED <<storyVars, patch, jobVars, cycleVars, moneyVars, clockVars>>

\* git worktree add --detach refuses a path that is there or registered.
Add(t) ==
    LET s == on[t] IN
    /\ at[t] = "add"
    /\ IF ~dir[s] /\ reg[s] = "none"
       THEN /\ dir' = [dir EXCEPT ![s] = TRUE]
            /\ reg' = [reg EXCEPT ![s] = "locked"]
            /\ Goes(t, "checkout") /\ UNCHANGED reason
       ELSE /\ Goes(t, "settle")
            /\ reason' = [reason EXCEPT ![t] = "worktree_create_failed"]
            /\ UNCHANGED <<dir, reg>>
    /\ UNCHANGED <<storyVars, patch, edits, left, on, id, got, cost, cycleVars, moneyVars, clockVars>>

\* The add ends: unlocked, or failed and cleaned up by git.
Checkout(t) ==
    LET s == on[t] IN
    /\ at[t] = "checkout"
    /\ \/ /\ dir[s] /\ reg' = [reg EXCEPT ![s] = "registered"]
          /\ Goes(t, "agent") /\ UNCHANGED <<dir, reason>>
       \/ /\ reg' = [reg EXCEPT ![s] = "none"] /\ dir' = [dir EXCEPT ![s] = FALSE]
          /\ Goes(t, "settle")
          /\ reason' = [reason EXCEPT ![t] = "worktree_create_failed"]
    /\ UNCHANGED <<storyVars, patch, edits, left, on, id, got, cost, cycleVars, moneyVars, clockVars>>

-----------------------------------------------------------------------------
(* The agent and its diff                                                  *)

\* The agent runs, and is paid for; it edits the directory at its path, if any.
Agent(t, c) ==
    LET s == on[t] IN
    /\ at[t] = "agent"
    /\ cost' = [cost EXCEPT ![t] = c]
    /\ paid' = paid + c
    /\ ran' = IF t = Daemon THEN [ran EXCEPT ![s] = @ + 1] ELSE ran
    /\ \/ dir[s] /\ edits' = [edits EXCEPT ![s] = @ \cup {id[t]}]
       \/ UNCHANGED edits
    /\ Goes(t, "capture")
    /\ UNCHANGED <<storyVars, patch, dir, reg, left, on, id, got, reason, cycleVars, spent,
                   lost, clockVars>>

\* classifyFailure, in its order, and the soft timeout: a diff that validates is
\* taken after a timeout too, but not after another failure of the agent.
\* The variant asks the agent's exit code alone.
VerdictsUnchecked(diff, fits) == {"none", "opencode_kimi_runtime_timeout"}
Verdicts(diff, fits) ==
    IF diff # {} /\ fits
    THEN {"none", "provider_rate_limited", "opencode_kimi_runtime_failed"}
    ELSE {"opencode_kimi_runtime_timeout"} \cup
         (IF diff # {} THEN {"candidate_patch_unrequested_path"}
                       ELSE {"provider_rate_limited", "candidate_patch_missing"})

\* patchFromWorktree; without a directory, or when git fails in it, the agent's
\* output is searched for a diff instead.
Diffs(t) == {{}, {id[t]}} \cup (IF dir[on[t]] THEN {edits[on[t]]} ELSE {})

\* What is left of a diff is what will be written.
Capture(t) ==
    /\ at[t] = "capture"
    /\ \E diff \in Diffs(t) : \E fits \in BOOLEAN : \E verdict \in Verdicts(diff, fits) :
         /\ got' = [got EXCEPT ![t] = IF fits THEN diff ELSE {}]
         /\ reason' = [reason EXCEPT ![t] = verdict]
    /\ Goes(t, "write")
    /\ UNCHANGED <<storyVars, patch, treeVars, on, id, cost, cycleVars, moneyVars, clockVars>>

WritePatch(t) ==
    /\ at[t] = "write"
    /\ patch' = IF got[t] # {} THEN [patch EXCEPT ![on[t]] = got[t]]
                ELSE patch
    /\ Goes(t, "destroy")
    /\ UNCHANGED <<storyVars, treeVars, jobVars, cycleVars, moneyVars, clockVars>>

\* git worktree prune: the registrations of the directories that are gone, but for
\* the locked ones.  The variant leaves registrations alone.
Unpruned(gone) == reg
Pruned(gone) ==
    [q \in Stories |-> IF q \in gone /\ reg[q] = "registered" THEN "none" ELSE reg[q]]
Absent == {q \in Stories : ~dir[q]}

\* destroyStoryWorktree: git removes the worktree, or the directory is deleted and
\* its registration pruned.
Removes(s) ==
    /\ NoDir(s) /\ left' = left \ {s}
    /\ \/ reg[s] = "registered" /\ reg' = [reg EXCEPT ![s] = "none"]
       \/ reg' = Pruned(Absent \cup {s})

\* The directory cannot be deleted, or the prune fails.
LeavesBehind(s) ==
    /\ left' = left \cup {s}
    /\ \/ UNCHANGED <<dir, edits>> /\ reg' \in {reg, Pruned(Absent)}
       \/ NoDir(s) /\ UNCHANGED reg

\* An absent directory is no error, and a failed removal is only noted in the
\* result's list of commands.
Destroy(t) ==
    LET s == on[t] IN
    /\ at[t] = "destroy"
    /\ \/ ~dir[s] /\ UNCHANGED treeVars
       \/ dir[s] /\ (Removes(s) \/ LeavesBehind(s))
    /\ Goes(t, "record")
    /\ UNCHANGED <<storyVars, patch, jobVars, cycleVars, moneyVars, clockVars>>

\* recordKimiCall, whatever came of the call, dated when the dispatch began: its own
\* estimate from prompt and output, at the rates of its table.  An append that
\* throws ends the process (Crash).  The variant records successes only.
ChargeIfOk(t) == IF reason[t] = "none" THEN cost[t] ELSE 0
Charge(t) == cost[t]
Record(t) ==
    /\ at[t] = "record"
    /\ spent' = [spent EXCEPT ![since[t]] = @ + Charge(t)]
    /\ cost' = [cost EXCEPT ![t] = 0]
    /\ Goes(t, "settle")
    /\ UNCHANGED <<storyVars, patch, treeVars, on, id, got, reason, cycleVars, paid, lost, ran,
                   clockVars>>

-----------------------------------------------------------------------------
(* The loop's answer                                                       *)

\* The ticker's tick is over; what it held is gone with it.
Done(t) ==
    /\ Goes(t, "idle")
    /\ on' = [on EXCEPT ![t] = NoStory] /\ id' = [id EXCEPT ![t] = FALLBACK]
    /\ got' = [got EXCEPT ![t] = {}] /\ reason' = [reason EXCEPT ![t] = "none"]
    /\ cost' = [cost EXCEPT ![t] = 0]

Preview(s, who) ==
    /\ phase' = [phase EXCEPT ![s] = "PATCH_PREVIEW"]
    /\ author' = [author EXCEPT ![s] = who]
    /\ UNCHANGED tries

\* advanceOpenCodeRunningPhase, and what the wired tick does after a failure.
Succeed(t) ==
    /\ at[t] = "settle" /\ reason[t] = "none"
    /\ Preview(on[t], id[t])
    /\ Done(t)
    /\ UNCHANGED <<patch, treeVars, cycleVars, moneyVars, clockVars>>

\* eligibleForDeterministicFallback.
MayFallBack(t) == t = Daemon /\ reason[t] \in Eligible /\ on[t] \in Simple

\* writeDeterministicCandidatePatch, then the story moves on with it.
WriteFallback(t) ==
    /\ at[t] = "settle" /\ MayFallBack(t)
    /\ patch' = [patch EXCEPT ![on[t]] = {FALLBACK}]
    /\ Goes(t, "fallback")
    /\ UNCHANGED <<storyVars, treeVars, jobVars, cycleVars, moneyVars, clockVars>>

TakeFallback(t) ==
    /\ at[t] = "fallback"
    /\ Preview(on[t], FALLBACK)
    /\ Done(t)
    /\ UNCHANGED <<patch, treeVars, cycleVars, moneyVars, clockVars>>

\* escalateStuckOpenCodeRunning.  The variant does not count the attempt.
Uncounted(s) == tries[s]
Counted(s) == tries[s] + 1
Tries(n) == n < Attempts

Fail(t) ==
    LET s == on[t] IN
    /\ at[t] = "settle" /\ reason[t] # "none" /\ ~MayFallBack(t)
    /\ IF t = Daemon
       THEN /\ tries' = [tries EXCEPT ![s] = Counted(s)]
            /\ phase' = [phase EXCEPT ![s] = IF Tries(Counted(s))
                                             THEN "OPENCODE_RUNNING" ELSE "ESCALATED"]
       ELSE UNCHANGED tries /\ phase' = [phase EXCEPT ![s] = "OPENCODE_RUNNING"]
    /\ Done(t)
    /\ UNCHANGED <<author, patch, treeVars, cycleVars, moneyVars, clockVars>>

-----------------------------------------------------------------------------
\* A process dies; the daemon is started again and begins a cycle of its own.
Crash(t) ==
    /\ at[t] # "idle" /\ crashes < MaxCrashes
    /\ crashes' = crashes + 1
    /\ Done(t)
    /\ calls' = IF t = Daemon THEN 0 ELSE calls
    /\ UNCHANGED <<storyVars, patch, treeVars, since, moneyVars, day>>

Midnight ==
    /\ day < Days /\ day' = day + 1
    /\ UNCHANGED <<storyVars, patch, treeVars, at, jobVars, cycleVars, moneyVars, crashes>>

Init ==
    /\ phase = [s \in Stories |-> "OPENCODE_RUNNING"]
    /\ tries = [s \in Stories |-> 0] /\ ran = [s \in Stories |-> 0]
    /\ author = [s \in Stories |-> FALLBACK]
    /\ patch = [s \in Stories |-> {}]
    /\ dir = [s \in Stories |-> FALSE] /\ edits = [s \in Stories |-> {}]
    /\ reg = [s \in Stories |-> "none"] /\ left = {}
    /\ at = [t \in Tickers |-> "idle"] /\ on = [t \in Tickers |-> NoStory]
    /\ id = [t \in Tickers |-> FALLBACK] /\ got = [t \in Tickers |-> {}]
    /\ reason = [t \in Tickers |-> "none"] /\ cost = [t \in Tickers |-> 0]
    /\ calls = 0 /\ since = [t \in Tickers |-> 1] /\ day = 1 /\ crashes = 0
    /\ spent = [d \in 1..Days |-> 0] /\ paid = 0 /\ lost = 0

Works(t) ==
    \/ \E s \in Stories : Begin(t, s)
    \/ Clear(t) \/ Add(t) \/ Checkout(t)
    \/ \E c \in 1..Dear : Agent(t, c)
    \/ Capture(t) \/ WritePatch(t) \/ Destroy(t) \/ Record(t)
    \/ Succeed(t) \/ WriteFallback(t) \/ TakeFallback(t) \/ Fail(t)

Next ==
    \/ StartCycle \/ EndCycle \/ Midnight
    \/ \E n \in 0..ReviewCalls, c \in 1..Dear, entered \in BOOLEAN : Review(n, c, entered)
    \/ \E t \in Tickers : Works(t) \/ Crash(t)

Spec == Init /\ [][Next]_dispatchVars

-----------------------------------------------------------------------------
Reasons == {"none", "opencode_kimi_runtime_timeout", "opencode_kimi_runtime_failed",
            "candidate_patch_unrequested_path", "worktree_create_failed",
            "kimi_daily_budget_exceeded"} \cup Eligible \cup Refusals
Dispatches == [by : Tickers, nr : 0..(Attempts + MaxCrashes)] \cup {FALLBACK}

\* Shapes; a story is given up exactly when its attempts are used up.
TypeOK ==
    /\ phase \in [Stories -> {"OPENCODE_RUNNING", "PATCH_PREVIEW", "ESCALATED"}]
    /\ tries \in [Stories -> 0..Attempts]
    /\ \A s \in Stories : tries[s] = Attempts => Guests # {} \/ phase[s] = "ESCALATED"
    /\ patch \in [Stories -> SUBSET Dispatches] /\ author \in [Stories -> Dispatches]
    /\ dir \in [Stories -> BOOLEAN] /\ edits \in [Stories -> SUBSET Dispatches]
    /\ reg \in [Stories -> {"none", "registered", "locked"}] /\ left \subseteq Stories
    /\ at \in [Tickers -> {"idle", "clear", "add", "checkout", "agent", "capture",
                           "write", "destroy", "record", "settle", "fallback"}]
    /\ on \in [Tickers -> Stories \cup {NoStory}]
    /\ \A t \in Tickers : on[t] = NoStory <=> at[t] = "idle"
    /\ id \in [Tickers -> Dispatches] /\ got \in [Tickers -> SUBSET Dispatches]
    /\ reason \in [Tickers -> Reasons] /\ cost \in [Tickers -> 0..Dear]
    /\ calls \in 0..CallsPerCycle /\ since \in [Tickers -> 1..Days]
    /\ spent \in [1..Days -> Nat] /\ paid \in Nat /\ lost \in 0..MaxLost
    /\ ran \in [Stories -> Nat]
    /\ day \in 1..Days /\ crashes \in 0..MaxCrashes

\* The candidate a person is shown was written by the dispatch, or the fallback,
\* that moved the story to PATCH_PREVIEW, and by that one alone: nothing of an
\* attempt that failed or died is left in it (autonomous-loop.js:88,
\* opencode-kimi-dispatcher.js:252-450).
PreviewOwn ==
    \A s \in Stories : phase[s] = "PATCH_PREVIEW" => patch[s] = {author[s]}

\* A diff holds the edits of its own dispatch only, for the worktree is created
\* anew each time (opencode-sandbox-preflight.js:206-208, "creates a detached
\* worktree from HEAD for every dispatch").
OwnEdits ==
    \A t \in Tickers :
        at[t] \in {"write", "destroy", "record", "settle"} => got[t] \subseteq {id[t]}

\* Once a story has its candidate neither a worktree nor git's registration of one
\* is left of it (docs/ralph-detailed-design-v0.2.md:357-359), except where a step
\* of the last removal itself failed: nothing of an earlier attempt, of a crash or
\* of another story's prune stays (story-worktree.js:57-62,94-107).
NoStrayWorktree ==
    \A s \in Stories :
        phase[s] = "PATCH_PREVIEW" => (~dir[s] /\ reg[s] = "none") \/ s \in left

\* The ledger of a day exceeds the cap by what one cycle and one tick of each
\* guest can spend, even when a cycle crosses midnight with its old date
\* (autonomous-daemon.js:138-163, opencode-kimi-dispatcher.js:297).
SpendBounded ==
    \A d \in 1..Days : spent[d] <= Cap + Dear * (CallsPerCycle + Cardinality(Guests))

\* What the ledger the budget reads may miss: the call that is running, one call per
\* crash, and the calls of reviews that were retried, failed or could not be
\* entered.  Every other call is in it, at the ledger's rates, failed and refused
\* dispatches included (opencode-kimi-dispatcher.js:405-412, pr-reviewer.js:193-234).
LedgerComplete ==
    paid <= SumFunction(spent) + SumFunction(cost) + Dear * (crashes + lost)

\* The daemon runs the agent for a story at most as often as it has attempts, and
\* once more for each crash: no failure, refusal, fallback or leftover worktree
\* gives a story a run that is not counted (autonomous-loop-wired.js:350-400).
AttemptsPaid == \A s \in Stories : ran[s] <= Attempts + crashes
=============================================================================
