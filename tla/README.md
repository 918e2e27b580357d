# Ralph, verified: TLA+ models of the autonomous development loop

Ralph takes *stories* (small change requests) from a queue of JSON files and
drives each one through planning, a candidate patch written by a coding agent,
approval, `git apply`, gates, commit, push and pull request. A daemon ticks the
stories; humans approve, refuse, pause and resume them through Telegram or the CLI
while it runs. There is one repository working tree for all of them. Around the
loop there is an intake (a Telegram worker that refines ideas into a backlog, a
supplier that files issues, an import that makes stories of them) and a second,
independent way from an issue to a merge: a resolver that runs in CI.

This directory models that machinery, model-checks it with TLC and proves its
central guarantees with TLAPS. Paths below are relative to the repository root.

## 1. Inventory

| Component | State it keeps | Operations | Talks to |
|---|---|---|---|
| Autonomous loop, `src/ralph/autonomous-loop{,-wired}.js` | none of its own; a story's `current_phase`, `status`, `attempts`, `current_approval_id`, `retry_after_at` | one handler per phase; one tick = read story, effects, write story | all of the below |
| Scheduler, `autonomous-scheduler.js`, `story-priority.js` | none | select the stories of a cycle, tick each up to `ticks_per_story` times | story queue, resume records, loop |
| Story queue, `story-queue.js` | `.ralph/stories/*.json` | create, read, list (100 newest files), update (merge into the file) | files |
| Approval records, `approval-manager.js`, `approval-validator.js`, `telegram/approval-adapter.js` | `.ralph/approval-pending/*.json` | create, approve, deny, supersede, expire | files, audit log |
| Fullauto auto-approver, `fullauto-auto-approver.js` | none | approve a pending record if the mode allows | mode, records |
| Mode manager, `mode-manager.js` | `.ralph/mode.json`, mode-change requests | request, confirm, set, expire | files |
| Resume, `resume-after-security-stop.js` | RESUME records | request, find, consume | records, story queue |
| Working tree: `telegram/opencode-{apply,gates,commit}*.js`, `apply-rollback.js`, `hash.js`, `feature-branch-promote.js` | git tree, index, trunk, branches | apply, roll back, stage, commit, promote, rewind | git |
| Delivery: `telegram/opencode-{push,pr}*.js`, `github-pr-client.js` | origin, pull requests | push, open or reuse a pull request | git, GitHub |
| Repair, `repair-strategy.js`, `requested-paths-coverage.js` | none | retry or escalate | loop |
| Dispatcher and fallback, `opencode-kimi-dispatcher.js`, `story-worktree.js`, `deterministic-candidate-patch-fallback.js` | worktrees and git's registrations, `candidate.patch`, cost ledger | clear and add a worktree, run the agent, take the diff, write, remove, record | git, coding agents, ledger |
| Daemon, `scripts/ralph/autonomous-daemon.js` | pid lock file | acquire, cycle, release | scheduler, budget, watchdog |
| Telegram runtime and handlers, `telegram/runtime.js`, `handlers.js` | polling offset | poll, handle, answer, save the offset; the commands of operators | Telegram, records, mode, working tree, loop |
| External agents, `nemoclaw-opencode-gateway.js`, `external-agent-{gateway,adapter,jobs}.js` | job files, the sandbox of NemoClaw | start, turn, fetch, validate, land, close, abort | agents, story |
| OpenCode jobs | job files | create, list | operators |
| Telegram worker, `telegram-worker/` | conversations and project bindings in a key-value store | analyse, decompose, commit a plan to the backlog file | Telegram, language models, GitHub |
| Cost tracker, `kimi-cost-tracker.js`; stuck watchdog | spend ledger by day; none | account, guard; notify | daemon, dispatcher |
| Routing and learning, `nemoclaw-brain.js`, `d1-learning-store.js` | tasks and executions in a database | classify, recommend, escalate, record | loop, resolver |
| Aider resolver (CI), `.github/workflows/aider-resolver.yml` | a run's checkout; branch and pull request of an issue | select a model, implement, test, record, push, review, merge | GitHub, learning store |
| Ultraplan and risk control, `risk-evaluator.js`, `risk-paths.js`, `production-change-policy.js` | none | decide on a plan | loop |
| Issue supply, `backlog-supplier.js`, `issue-supplier.yml`, `github-issue-*.js` | the backlog file, GitHub's issues, stories | select, file, import | GitHub, story queue |
| Utilities (`utils/pool.js`, `queue.js`, `retry-with-backoff.js`, ...) | in memory | run, retry, debounce | anyone |
| Legacy state machine, shell executors, reporting | phase of a run; none; none | transition; check and launch; format | CLI |

What makes it hard:

* **Interleaving.** A tick reads the story, takes seconds to minutes of effects
  and then writes the file back by merging its patch into whatever is there.
  Operators write the same files, and nothing locks them.
* **One working tree.** Stories share it; the only protection is the scheduler's
  selection rule.
* **Partial failure.** Apply, gates, commit, branch, rewind, push and pull request
  each fail on their own, some after having had their effect.
* **Crashes** between any two of these; only files and git remain.
* **Waiting.** Stories wait for approvals that may be denied, expire, arrive in
  the middle of a tick, or be given by the loop itself under fullauto.
* **Counters.** Attempts are counted in three places against one maximum.

What each component must guarantee, and where that is stated. Some of it the code
does not keep (section 3, "What the code does not keep"):

* scheduler: at most one story in APPLY .. COMMIT (`MutualExclusion`);
* loop: attempts bounded (`AttemptsBounded`), every story ends, escalates or parks
  (`EventuallySettled`), a stop is not undone (`StopSticks`), a resumed story is
  planned again (`ResumeReplans`);
* working tree: a story whose retry starts from a dirty tree says so
  (`TreeAccounted`), a commit left on trunk belongs to a story that did not go on
  (`TrunkAccounted`), branches carry their own story only (`BranchOnlyOwn`), trunk
  is rewound (`TrunkRewound`);
* approvals: only the reviewed candidate is applied (`ApplyReviewed`), a request
  resumes once (`OneResumePerRequest`), a refusal stands (`RefusalStands`), a stop
  ends by a decision made in it (`FreshResume`);
* daemon: no second daemon ticks (`OneTicker`, `RunsUnderLock`), and it leaves no
  lock behind (`LeavesNoLock`);
* delivery: DONE means pushed and in a pull request (`DoneHasPr`), review repairs
  land (`ReviewRepairLands`);
* dispatcher: the preview shows the diff of the dispatch that produced it
  (`PreviewOwn`), no worktree is left over but where its removal failed
  (`NoStrayWorktree`), the agent runs no more often than the attempts allow
  (`AttemptsPaid`);
* cost tracker: a day's ledger is bounded (`SpendBounded`), and what it misses is
  accounted for (`LedgerComplete`);
* operators' commands: only what a person was shown and approved is applied,
  committed and pushed (`OnlyShownApplied`, `CommitsApproved`, `OriginApproved`);
* mode manager: approvals by the daemon itself happen in a granted window only
  (`AutoWithinGrant`); runtime: no update is skipped and the queue moves
  (`NoneSkipped`, `QueueMoves`);
* external agents: a preview has a patch and a record of where it came from
  (`PreviewBacked`), only a crash leaves a job record that says running
  (`StrayRecords`);
* intake: plans enter the backlog whole (`PlansWhole`), nothing in it is lost
  (`NothingLost`), issues are filed once while one listing holds them all
  (`FiledOnce`) and in the order of their dependencies (`BuildOrder`), an import
  leaves known stories alone (`ImportKeeps`);
* resolver: what is merged passed its tests in its checkout (`MergedGreen`), a
  person is asked only after the strongest model was tried or none was named
  (`TopTried`);
* risk control: protected paths always ask, and neither padding nor leaving paths
  out changes a decision in the wrong direction (section 4).

## 2. Modules

| Module | Models |
|---|---|
| `LoopPhases` | phases, statuses, and where an approved waiting story goes (two tables: the wired loop's and the inner loop's) |
| `SharedRepository` | working tree, index, trunk, feature branches, origin, pull requests, and the git commands as operators |
| `RalphLoop` | the daemon's cycle, the scheduler, every phase handler, operators, time, crashes |
| `CriticalSection` | abstract: a holder enters when nobody holds, and leaves |
| `RalphLoopProperties` | what is claimed of `RalphLoop`, and the refinement mapping to `CriticalSection` |
| `MCRalphLoop` | the instances TLC checks |
| `RalphLoopProofs` | proved of the loop: types, mutual exclusion and the refinement, what story files, records and tree agree on, deliveries and commits; proved of the risk decision: `RiskControl`'s functions are monotone |
| `DaemonLock`, `MCDaemonLock` | the daemon's pid lock file among several processes, at the granularity of file operations |
| `ApprovalRecords`, `MCApprovalRecords` | resume records as files: requests, decisions through Telegram and CLI, expiry, consumption, each read and write a step |
| `SharedFileProofs` | what the lock file guarantees, what a resume request is good for and when a refusal stands, proved: the two files that processes share without a lock |
| `Dispatch`, `MCDispatch` | one dispatch through a git worktree as a row of file and git operations, the budget and the ledger |
| `DispatchProofs` | what a day can cost, what the ledger misses, whose the candidate at the preview is, which worktrees stay and how often an agent runs, proved |
| `OperatorChain`, `MCOperatorChain` | the manual chain of Telegram commands from candidate to push; uses `SharedRepository` |
| `ModeControl` | approval and fullauto mode: tokens, confirmation, window, revert |
| `TelegramBot`, `MCTelegramBot` | the polling runtime delivering mode commands; composes with `ModeControl` |
| `TelegramProofs` | what is proved of the three modules above: the chain, the mode's window, the queue of updates |
| `AgentJobs`, `MCAgentJobs`, `AgentJobsProofs` | dispatch through NemoClaw's shared sandbox and through the adapter, with job records, and what is proved of it |
| `RefineSession` | the Telegram worker: conversations and the commit to the backlog |
| `IssueSupply`, `MCIssueSupply` | backlog to issues to stories; composes with `RefineSession` |
| `IssueSupplyProofs` | order and uniqueness of issues, whole plans, fresh numbers, a backlog that loses nothing and stories that an import leaves alone, proved |
| `ModelRouting` | the model ladder and the learning store |
| `AiderResolver`, `MCAiderResolver` | the CI resolver; composes with `ModelRouting` |
| `AiderResolverProofs` | what is merged, what a blocking review stops and when a person is asked, proved |
| `FoldLemmas` | induction without operator parameters; what a fold, a sum and a filtered sequence are, for the proofs about ledgers and backlogs |
| `RiskControl` | the control decision about a plan as functions (proofs in `RalphLoopProofs`) |

### How `RalphLoop` corresponds to the code

The story files are the functions `phase`, `status`, `attempts`, `repairs`
(`review_repair_count`), `backoff` (`retry_after_at` in the future) and `appr`
(the record named by `current_approval_id`: its action, status, expiry and the
diff hash it is bound to). `newer` orders the files by their last write, which is
both what `listStories` sorts by and what breaks ties of priority. `resume` is the
story's RESUME record. `unrolled`: its `last_apply_rollback` has a bad verdict.
`wt`, `idx`, `trunk`, `branch`, `pushed`, `prs` are the repository. `pc`, `queue`,
`left`, `upd` belong to the running daemon and are lost in a crash; `upd` is the
patch a tick has computed and not yet saved.

A tick is one handler of the code, cut where another process can interfere:
effects first (`Tick...`, `Commit`, `Promote`, `Rewind`), then `Save`, which is
`updateStory`: it re-reads the file and merges, so fields a tick does not name
keep what was written meanwhile and the fields it names win. `TickBoundary` and
`InnerBoundary` are the two looks at the approval record that a tick at a PUSH or
PR boundary takes. `git add`, `git commit`, `git branch` and `git reset` are
separate steps.

Abstractions, and why they are safe here:

* a patch is its story; the files of different stories are disjoint, and a story
  in `NewFile` only creates files (git treats untracked files differently);
* gates, agents, reviewers, git and GitHub answer nondeterministically where
  `Faults` allows it; a push, or an apply, that reports failure may have had its
  effect; a rollback may leave the tree as it is, or clean it and report a failure
  all the same (`Rollbacks`), and the story goes on whatever its verdict; `git
  reset` after a promotion may fail and leave the commit on trunk;
* an approval record appears under its id when the story's save names it; denied,
  superseded, expired-by-sweep and failed-verification records are one status,
  `rejected`: no reader tells them apart; a record that the story no longer names
  is never read again;
* the dispatcher is the default one, isolated in a git worktree, which switches
  the clean-tree checks of the push and pull-request preflights off;
* a dispatcher that succeeds leaves a candidate patch for the preview, but with
  the fault `preview` it is missing or empty there: the story then waits at
  DIFF_APPROVAL_PENDING with the dispatch's own record, the apply has nothing to
  do (`NothingToApply`), and gates fail on that record;
* from PLAN the story may be sent to a waiting phase without any record: it is
  parked there (`Parked`), as in the code;
* one resume per story, `MaxCrashes` crashes.

### How `DaemonLock` corresponds to the code

`RalphLoop` has one daemon; `DaemonLock` is why it may. A process (one pid) opens
the lock file exclusively (`Open`), writes its pid (`Write`), or finds a file,
reads it (`Read`), asks whether that pid lives (`Probe`) and removes a stale one
(`Unlink`), then starts over. It runs its cycles (`Head`, `Pulled`, `Ticked`,
`Wake`) and ends. `schedulerTick` is synchronous, so a signal handler runs only
where the process awaits something: the issue pull or the sleep (`Awaits`). The
handler sets the flag and releases the lock in two steps (`CheckOwn`,
`UnlinkOwn`), and the end of the process releases it again. A pid is not reused.

### How `ApprovalRecords` corresponds to the code

`RalphLoop` takes one decision as one step. Here a decision is what it is in the
code: Telegram's dry run (`DryRun`), a read with its judgement (`Load`, `CliLoad`,
`SweepLoad`), and a write of the whole record (`Store`), with nothing that notices
a write in between. Approving through the CLI's `approve` takes a record that is
already approved and compares the plan hash; denying and modifying look at
nothing. The records are the resume records of one story: a request checks that
the story is stopped (`RequestCheck`) and creates the file (`Create`), whose name
is stamped to the second, so that a request in the same second replaces it. The
consumer finds an approved record in time (`Find`), marks it executed (`Mark`) and
re-arms the story (`Rearm`). Any actor may die at any step. `requested` and `used`
count the requests of a record and the resumes made with it, `spent` holds the
records that were marked executed, and `late` counts the approvals that were read
before such a mark and written after it; `asked` remembers the stop a record was
requested in.

### How `Dispatch` corresponds to the code

`Begin` is the tick at OPENCODE_RUNNING up to the worktree: the sandbox
preflight's refusals and the budget. Then one step per operation that leaves a
trace: the worktree's path is cleared (`Clear`, which may fail), `git worktree
add` registers and locks it (`Add`) and unlocks it at its end (`Checkout`), the
agent is paid and edits (`Agent`), the diff is taken from the worktree or else
from the agent's output (`Diffs`) and judged (`Capture`, with `classifyFailure`'s
order in `Verdicts`), `candidate.patch` is written (`WritePatch`), the worktree is
removed (`Destroy`: git removes it, or the directory is deleted and git's
registrations pruned), the call is recorded (`Record`). The story moves in
`Succeed`, `Fail` or, through the deterministic fallback, in `WriteFallback` and
`TakeFallback`. `reg` is what git remembers of a worktree whose directory may be
gone; a locked registration is what an interrupted `add` leaves. A removal that
fails is only noted in the result, and the story goes on: `left` holds the stories
it happened to last. An edit is the dispatch that made it. `Guests` are processes
that run one `/ralph tick` beside the daemon.

Money is in the ledger's own unit: `cost` is what `recordKimiCall` will reckon for
the call, which `kimi-cost-tracker.js:11-18` calls an estimate; what a provider
charges is outside the model. `spent` is the ledger by day; every dispatch and
review is dated when its tick or cycle began (`since`), as in the code, so a cycle
that crosses midnight writes to the day before. A review is up to `ReviewCalls`
calls, of which at most the last is entered: the calls of a review that was
retried, that gave no valid answer or whose entry failed are counted in `lost`.

The model shows where a mistake would be costly without being visible: git refuses
to add a worktree at a path that is registered, so one leftover would fail every
later dispatch of the story. It does not come to that: the failed dispatch is an
attempt and the story is given up in the end, so no leftover or failure gives a
story an agent run that is not counted, and a crash one at most (`AttemptsPaid`),
and a story that reaches its preview has left nothing, unless its last removal
failed (`NoStrayWorktree`).

### How `OperatorChain` corresponds to the code

A Telegram command is one synchronous handler call and hence one action: patch
approval, apply, gates, commit approval, commit, push approval, push. Guards are
the preflights: each re-reads the approval record and compares the hash the record
is bound to with the file as it is now. A patch is its sandbox and its version; a
`Redispatch` by the daemon replaces the version. `shown` is the one variable the
code does not have: what people read in the records they approved. Record ids are
stamped to the second, so an id may come again (`CommitIds`) and its record is
then replaced. `git commit` takes the whole index and may fail after `git add`. A
command that is refused is no step.

### How `ModeControl` and `TelegramBot` correspond to the code

`ModeControl` has `mode.json`, the token files and time. A confirmation is two
writes, the window (`OpenWindow`) and the token's mark (`MarkConfirmed`), from
either of two processes; the revert of an expired window reads (`BeginRevert`) and
saves later (`EndRevert`). `Effective` is what the auto-approver looks at.
`TelegramBot` drives it: `waiting` is what Telegram holds, `Poll` asks from an
offset and thereby makes Telegram forget what is below, `Handle` raises the offset
in memory and runs the handler, `Mark` and `Answer` finish and save the offset.
`Die` is a crash, or a reply or poll that fails, which rejects `runPolling` and
ends the process; `Start` begins again at the saved offset. An update whose
handler throws, or whose reply Telegram refuses, each time it is tried is a
`hopeless` command: its handler's effect is had and `Refused` ends the process
before the offset is saved, as often as the bot is started. Offsets are counted
from the oldest update Telegram holds, which keeps them small. Roles are part of a
command (`by`).

### How `AgentJobs` corresponds to the code

A dispatch is `Start` (policy, job record, and for NemoClaw the removal of the
task's old patch), one or two turns of the agent (`Turn`; the adapter's is
`AdapterTurn`), the fetch of `candidate.patch` after each (`Cat`), the write of a
validated patch to the task's directory (`Land`), of the job record (`Close`) and
of the story (`Save`, `SaveFailed`). A dispatch that the policy refuses, or that
finds no runtime, writes no record (`Refuse`), so that an older one stays as it
was. After a failure the wired loop may write a patch of its own, whatever the job
record says (`Serve`, then `SaveServed`): for a missing runtime, a rate limit, a
timeout or a missing file, on a story of low risk with one requested path that is
not there yet (`Excuses`, `Eligible`). NemoClaw's sandbox, `box`, is one directory
for all dispatches and is never cleaned: an agent given up for its time, or whose
dispatcher died, may still write there (`LateWrite`), and an earlier dispatch's
file is found by a later one. What protects a task is the validation alone
(`Fits`). A patch carries its author (`by`), which the code does not have.
`AbortRead` and `AbortWrite` are the operator's abort; the dispatch's last write
replaces it.

### How `RefineSession` and `IssueSupply` correspond to the code

Each message a chat sends starts a task that runs beside the others: it reads the
conversation, calls a model to analyse (`Analyze`) or decompose (`Decompose`) and
keeps the conversation it began with, changed; an approved plan is committed by
reading the backlog file (`GetBacklog`), merging, and a write that names the blob
it replaces (`PutBacklog`). The write may be taken and its answer lost. With
`MayLackContent` GitHub may send the blob's name without a content that can be
decoded, and the worker then writes the file anew under that name. The model's
answer is one of `Plans`, where two items may have one name: of these the last
gives both their number. People edit the file (`Edit`), prune it, or leave it
unreadable, in which case the worker writes it anew. `IssueSupply` adds the
supplier workflow, which decides on a checkout and a listing (`Select`) and files
later (`File`, which may fail; an item that names labels is filed with these, any
other with `aider-fix`). A listing holds the latest `ListLimit` issues (500 in the
workflow). Then there are pull requests, closing and people's own issues; and the
import, which fetches issues and later writes stories for those it does not know
within the window it lists (`FetchIssues`, `ImportIssues`).

### How `ModelRouting` and `AiderResolver` correspond to the code

A run goes through the steps of the workflow's job: money check, then per attempt
model selection, Aider, tests and the outcome's record, then force-push, pull
request, review and merge. The shell runs with errors ignored (`set +e`), so a
failed push, creation, `git checkout -B` (`Checkout`) or model selection stops
nothing; an attempt for which no model was named goes on without one (`Unrouted`)
and is not recorded. Runs for one issue share its branch `auto/issue-<n>` and its
pull request, nothing keeps them apart, and GitHub may merge by itself later what
a run has armed (`AutoMerge`). `Select` uses `ModelRouting`: the text's tier is
classified anew at every attempt, a first attempt may take a learned
recommendation instead, later ones climb. A work is the run and attempt that made
it. The gate runs in the checkout: with changes the attempt has not committed
(`left`) it tests them along. `passed`, `mixed`, `topTried` and `unrouted`
observe: works whose tests passed alone, works whose tests passed together with
such changes, runs that used the last rung, and runs whose last attempt had no
model.

### How `RiskControl` corresponds to the code

The decision about a plan has no state, so it is a function. A path is the set of
the rules of `PATH_RISK_RULES` it matches, by place in the list; `FirstRule` is
`riskForPath`'s loop. A text is the set of things the keyword tests of the two
evaluators find. `Risk` is `evaluateRisk` with its two downgrades, `PlanControl`
`evaluatePlanControls`, which asks the production policy first and the risk only
where the policy has no objection.

## 3. Runs

`CHECK_DEADLOCK FALSE` throughout, because each of these systems rightly stops
somewhere: nothing runnable, processes ended, every bound used up.

| Run | Module | Kind | Shows |
|---|---|---|---|
| `faults` | `RalphLoop` | pass | dispatch, coverage, apply, gates, rollback, commit, promotion, reset, push, pull request and the creation of approvals may each fail, one crash anywhere, fullauto: `TypeOK`, `TreeAccounted`, `TrunkAccounted`, `AttemptsBounded`, `EventuallySettled` |
| `operators` | `RalphLoop` | pass | approve, refuse, pause, resume and mode switches at any moment: `MutualExclusion`, `ApplyReviewed` |
| `delivery` | `RalphLoop` | pass | two ticks per cycle, three attempts, missing candidates, records that lapse, pause and resume: `BranchOnlyOwn`, `TrunkRewound`, `DoneHasPr` |
| `review_repair` | `RalphLoop` | violation | `ReviewRepairLands`: the repair round cannot be promoted, for its branch already exists |
| `daemons` | `DaemonLock` | pass | two processes, signals, a kill at any step: `LockTypeOK`, `RunsUnderLock`, `LeavesNoLock` |
| `approvals` | `ApprovalRecords` | pass | one person, a sweep, a requester and the daemon on two resume records, any of them killed at any step: `TypeOK`, `OneResumePerRequest`, `RefusalStands` |
| `dispatch` | `Dispatch` | pass | two stories, two attempts each, two days, failing removals, one unrecorded review call, one crash: `PreviewOwn`, `NoStrayWorktree`, `SpendBounded`, `LedgerComplete`, `AttemptsPaid` |
| `chain` | `OperatorChain` | pass | two sandboxes, one rewritten and one that creates its file, one commit id used for both, two commits: `ChainTypeOK`, `OnlyShownApplied`, `CommitsApproved`, `OriginApproved` |
| `bot` | `TelegramBot` | pass | one token, two updates waiting at a time, one of which may be unanswerable, one death, four ticks of time, the CLI beside it: `TypeOK`, `AutoWithinGrant`, `NoneSkipped`, `QueueMoves` |
| `agents` | `AgentJobs` | pass | a story through NemoClaw with three attempts and the fallback, a dispatch through the adapter, one crash, one abort at a time: `TypeOK`, `PreviewBacked`, `StrayRecords` |
| `intake` | `IssueSupply` | pass | two messages to one chat, one edit by a person, one supplier, one issue of a person's own: `BuildOrder`, `FiledOnce`, `PlansWhole`, `NothingLost`, `ImportKeeps` |
| `resolver` | `AiderResolver` | pass | two runs of two attempts on two rungs, one issue, one resolved before: `MergedGreen`, `TopTried` |

### Bounds

The runs of `RalphLoop` have two stories, `a` and `b`; `b`'s patch creates files.
Two stories are what it takes to share a tree, to take over a branch's content,
and to starve. `MaxAttempts` 2 or 3: one retry and the last attempt, or two
retries; `RepairCap` 1: one review round; `ListLimit` 2: all stories listed;
`TicksPerStory` 1, 2 or 3: the budget ends a cycle, or a tick chain does.
`MaxCrashes` 1: a crash at every point of the daemon, followed by a recovery that
runs to the end. The missing candidate is a fault of `delivery` and not of
`faults`: where it comes together with a failing rollback the tree can be dirty
and no file say so (below).

`DaemonLock` has two processes, either of which may be killed. Two is a bound that
hides something: with three, two starters may read the same stale pid, and the
slower one then removes the lock the faster one has just taken. TLC finds that in
seconds, and `RivalKeepsOut` (section 4) says that two is exactly where the
guarantee ends.

`ApprovalRecords` has two records, two stops (a record must survive its stop to be
misused), three requests, which is one for each record and one that replaces an
earlier, and one late approval of each record. With a second person deciding at
the same moment a refusal may be overwritten by an approval that was judged before
it; with a second consumer (`resume-consume` on the command line) one approval may
resume twice. `RefusalsStand` and `RequestsCount` assume exactly the absence of
these.

`Dispatch`: a cap of 0 and calls that cost 1 put the ledger at and above the cap;
two ticks a cycle let one cycle overshoot; two days give one midnight, inside a
cycle or between two. A review of two calls is one that is retried once; one call
of all reviews may go unrecorded (`MaxLost`). `s1` may be answered by the
fallback, `s2` not.

`OperatorChain`: a second version of one candidate is enough to be another one
than approved, one shared commit id enough to be asked for twice, two commits
enough to have one between a push's approval and the push.

`TelegramBot`: `MaxDeaths` bounds deaths and replies that fail once; a refusal
that repeats is not bounded. One death is enough to see every update again that
was not answered, and two waiting updates to have one behind it. Time runs to 4,
with a token and a window of one tick each, so both lapse well before the end.

`AgentJobs`: three attempts are what it takes for a failed dispatch, or one that a
crash cut short, a refused one and a last one to follow each other. The files are
one the repository has and one it has not; the diffs an agent may answer with
change the one, create the other, or wrongly create the one. Both tasks ask for
the new file, which the fallback may write for the story. One process dispatches
both tasks: a second one would add agents that write to the sandbox meanwhile,
which `LateWrite` does already.

`IssueSupply`: the chat has been shown a plan of two items, the second depending
on the first, so two messages suffice for two commits at once; a second plan has
two items under one name. `FiledOnce` is for runs that do not overlap (`Suppliers`
has one), listings that do not fail, and no more issues than one listing holds,
which the run never exceeds. `ImportKeeps` is for a window that covers the
stories, and `NothingLost` and `PlansWhole` for a GitHub that sends the file's
content. Beyond each of these limits TLC finds the property broken: `FiledOnce`
with `Suppliers = {run1, run2}` or with `ListFails = TRUE`, `NeverRefiled`, which
is the same without its condition on the listing, with `ListLimit = 1`,
`ImportKeeps` with `Window = 1` and `OwnIssues = 2`, `NothingLost` with
`MayLackContent = TRUE`.

`AiderResolver`: two runs and two attempts are what it takes to overwrite a branch
and to climb a ladder of two rungs from its foot; the theorems are for a ladder of
any length. The last rung is reached by climbing, by classification, or by a
learned pick. Runs differ by name only, hence the symmetry.

### What the passing runs leave out

Where the code does not guarantee a property in general, the run leaves out what
breaks it, and the next section says how to see it break. `delivery` has no
failing rollback, commit, promotion or reset, no crash between commit and rewind,
and no person approving during a tick; what these leave behind is `faults`'
question (`TreeAccounted`, `TrunkAccounted`). `faults` has no story parked before
a record exists: with one, a limit of one story per cycle lets the parked story,
never rewritten and hence always the oldest, fill the selection for ever; the same
holds for a story whose approval was denied, which nothing escalates although the
design document says so (docs/ralph-detailed-design-v0.2.md:220). `dispatch` has
no `/ralph tick` beside the daemon, and its budget guard always answers: the
daemon can be started with the guard skipped (`skip_budget_guard`), and when the
guard itself fails the cycle goes on without it (`budget_guard_error`,
`autonomous-daemon.js`). A cycle that ran in either of these ways is not bounded
by `SpendBounded`.

### What the code does not keep

`review_repair` is a run: what it shows is in `PROJECT.json`, with the line that
says otherwise. The other disagreements between the code and what a comment or a
document says of it, and guarantees one would expect, are properties of the
modules that no passing run can check. Each is seen by putting the property into a
copy of the named configuration, alone, with the constants given. For most of them
section 4 proves where the limit lies: `OneTicker` holds for two daemons that pull
no issues, `OwnEdits` for the daemon as the only dispatcher, `FreshIds` where
nothing leaves a backlog, `NeverMergeBlocked` without a second run for an issue,
`NothingLost` where contents are sent, `TreeAccounted` where rollbacks and
previews do not both fail, and `TrunkRewound` becomes one commit per crash.

| Property | Configuration | What happens |
|---|---|---|
| `StopSticks` | `faults` with `Faults = {}`, `Moves = {"pause"}`, `MaxCrashes = 0`, `FallbackStories = {}`, `ReviewEnabled = FALSE`, `RepairCap = 0` | a stop issued during a tick is overwritten by the tick's save (`story-queue.js:243`; "auto-resume is impossible", docs/ralph-detailed-design-v0.2.md:430) |
| `ResumeReplans` | the same with `Moves = {"pause", "resume"}`, `InitialModes = {FALSE}` | a resumed story waits in PLAN_APPROVAL_PENDING for a record nobody creates (`resume-after-security-stop.js:196`; the comment at `autonomous-loop-wired.js:825-829`) |
| `DoneHasPr` | the same with `SPECIFICATION Spec`, `Moves = {"approve"}`, `InitialModes = {FALSE}` | an approval between the two looks of one tick: DONE without a pull request (`autonomous-loop-wired.js:864`, against its comment at 849-854) |
| `BranchOnlyOwn` | `delivery` with `Faults = {"commit"}`, `Moves = {}` | a failed `git commit` leaves its files staged and the next story's branch carries them (`apply-rollback.js:64`, against `autonomous-loop.js:294-298`) |
| `OneTicker` | `daemons` with `MaxCrashes = 0` | a signal during the issue pull releases the lock, the rest of the cycle overlaps with the next daemon's (`autonomous-daemon.js:177`, against its lines 14-15) |
| `FreshResume` | `approvals` with `Sweepers = {}`, `MaxLate = 0`, `MaxRequests = 2` | of two records approved in one stop the second undoes the next stop by itself (`resume-after-security-stop.js:144`) |
| `NotReused` | `approvals` | an approval typed while the daemon consumes the record is written over the executed one, which then resumes the story out of its next stop (`approval-manager.js:139`, against the comment at `resume-after-security-stop.js:178`, "so it cannot be reused") |
| `OwnEdits` | `dispatch` with `Guests = {tick}`, `MaxCrashes = 0`, `Days = 1` | a `/ralph tick` beside the daemon shares its worktree, and a diff holds both agents' edits (`autonomous-command.js:113`, against `opencode-sandbox-preflight.js:206-208`) |
| `CommitsGated` | `chain` with `Rewritten = {}` | a commit is approved and made without the gates (`opencode-commit-approval.js:46-66`, against docs/opencode-external-agent-gateway-boundary.md:71) |
| `TokenUsedOnce` | `bot` | a confirmation repeated between the two writes of the first opens a second window (`mode-manager.js:92`, against docs/ralph-detailed-design-v0.2.md:99); `AutoWithinGrant` holds all the same |
| `FreshIds` | `intake` | after the last item is pruned its id is given out again, and the supplier takes the new item for filed (`refine-session.mjs:100-101`) |
| `NothingLost` | `intake` with `MayLackContent = TRUE` | a backlog whose content GitHub does not send (over a megabyte) or that does not decode is replaced by the new items alone (`telegram-worker/index.mjs:221-225`) |
| `NeverRefiled` | `intake` with `ListLimit = 1` | an item whose issue is older than the listing goes back is filed again, by one run alone; the limit of 1 stands for 500 (`issue-supplier.yml:77`, against `backlog-supplier.js:30-32`, "a filed item must never be re-filed") |
| `OwnPatch` | `agents` with `Mediated = {story, smoke}` | the file in the shared sandbox is never removed, so a dispatch whose agent wrote none takes another story's patch for its own where the paths agree (`nemoclaw-opencode-gateway.js:334` removes another file) |
| `TreeAccounted` | `delivery` with `Faults = {"preview", "rollback", "coverage"}`, `Moves = {}` | after a rollback that failed, a dispatch whose candidate is missing has nothing to apply; its gates fail, the rollback without paths calls itself done, and the file no longer says that the tree is dirty (`apply-rollback.js:66-69`) |
| `NeverMergeBlocked` | `resolver` | a run whose push failed, or an armed auto-merge, merges what another run's review has blocked (`aider-resolver.yml:225-227`, "never merges") |
| `MergedAsTested` | `resolver` with `Runs = {r1}` | the gate tests the checkout with what the attempt left uncommitted, `git push` sends the commits alone, and they are merged (`aider-resolver.yml:192`; its line 4, "only if the test gate is GREEN", holds of the checkout) |

More, seen while translating and not stated as properties. The polling bot has no
way past an update it cannot answer: a reply that Telegram refuses for another
reason than its markup, or a handler that throws, ends the process before the
offset is saved, and the next start meets the same update first
(`telegram/runtime.js:97, 144-152`); `QueueMoves` has this as a case of its own.
Of two items that the model's answer gives one name only one gets an issue, for
both get one number (`refine-session.mjs:107-110`). A failing rollback does not
keep a story from being tried again on the dirty tree
(`autonomous-loop.js:150-185`): `TreeAccounted` says that its file tells. A plan
with an unrecognised story mode runs at risk 4 without asking
(`risk-evaluator.js`). A production plan that mentions something destructive
together with another production change, but no blocked SQL, is sent to diff
approval where the risk alone would stop it, because the policy is consulted first
(`ultraplan-runner.js:147-151`). And the resolver's "escalating one rung per
failed attempt" (`aider-resolver.yml:7-8`) is not so after a learned first pick,
which the ladder then starts again from the text's own tier.

### Fairness

`RalphLoop`'s `FairSpec` assumes weak fairness of the daemon's steps (its loop
runs until it is stopped, and each step terminates: external commands have
timeouts) and of the passing of `retry_after_at`. `TelegramBot` assumes that a
living bot goes on polling; nothing in the repository starts it again after a
death, so nothing is assumed of `Start`, and `QueueMoves` says that the queue
moves unless the bot stays down or its first update cannot be answered. Nothing is
assumed of operators, agents in the sandbox, other processes or crashes.

`Dispatch` and `AgentJobs` assume no fairness and state no liveness. A story is
dispatched when the scheduler selects it, and with one holder or a limit of one
other stories may be selected instead for ever (above); a smoke test is a person's
single command. What matters of their ends is a bound: agent runs by attempts
(`AttemptsPaid`), stray job records by crashes (`StrayRecords`). `AiderResolver`
states no liveness either: a job may be cancelled at any step and nothing starts
it again.

## 4. Proofs

Every theorem is about the specification for all values of the constants that
satisfy the module's assumption; where a theorem needs more, the hypothesis is in
its statement and explained here. Each invariant below was checked by TLC on the
instance of its run, under the theorem's hypotheses, before it was proved.

### The loop (`RalphLoopProofs`)

`TypeCorrect` (`TypeOK`) has one lemma per action group; `Selections` needs a
lemma that the selection of a cycle is a sequence of stories.

`SectionIsExclusive` (`MutualExclusion`) and `LoopImplementsSection`, that the
loop implements `CriticalSection` with the mapping of `RalphLoopProperties`,
assume `Limit = 1` and `ListLimit >= Cardinality(Stories)`. The refinement is
proved and has no run of its own: it follows from mutual exclusion and from steps
that move one story each. `MutualExclusion` is not inductive: between a tick's
effects and its save the story file still shows the old phase, and an operator can
move it away meanwhile. `SectionInv` adds that the queue of a cycle has at most
one story, that while the daemon works on one no other story is in the section,
and which patches can be pending at which point of a tick. Both assumptions are
needed: with a limit of two (the default is one, `--limit` allows 25) both
selected stories enter the section in one cycle, and a smaller window may hide the
holder.

`AttemptsStayBounded` (`AttemptsBounded`), `TreeIsAccounted` (`TreeAccounted`) and
`AppliedWereReviewed` (`ApplyReviewed`) share one invariant, `StoryInv`, in three
parts for the three moments at which file, record and tree have to agree:

* on disk (`FilesFit`): no record exists before the plan, an apply approval the
  story can still act on is for the candidate on disk, the last attempt ends the
  story, and a change is in the tree or the index only in the phases that account
  for it or with a file that says its rollback failed;
* at a label inside a tick (`MidTickFits`): the file still has the phase the tick
  started from, unless it was paused, and the tree is already as far as the label
  says;
* with a patch pending (`OutcomeFits`): the file as it will be once the patch is
  merged agrees with the tree as it is, whatever an operator wrote to the fields
  the patch leaves alone.

The third part is why the properties survive an operator between read and save:
none of them is inductive without it, since the tree is changed before the file.
`AttemptsStayBounded` and `AppliedWereReviewed` need no assumption.
`TreeIsAccounted` assumes that rollbacks and previews do not both fail: with both,
a rollback that has no paths to roll back overwrites the verdict of one that
failed (section 3). `TrunkAccounted` is model-checked only.

`DoneStoriesHavePrs` (`DoneHasPr`) rests on `LandedInv`, and assumes that nobody
approves or switches the mode (`Moves`) while the daemon runs. A tick at a push or
pull-request boundary looks at the record twice; an approval that falls between
the two looks lets the inner loop complete the story without a pull request. That
is the code's behaviour, so the theorem excludes those two moves and no others.

`TrunkReturnsToBase` (`TrunkRewound`) rests on `TrunkInv`: trunk has one commit
exactly between commit and rewind, and a story that was not promoted has no
branch. It assumes no crash, no repair round and no failing `git branch` or `git
reset`, and each is needed: a crash between commit and rewind leaves the commit on
trunk, so does a failing promotion or reset, and a story that comes back for a
repair finds its branch already there, so that its second promotion fails
(`review_repair`). `BranchesCarryTheirStory` (`BranchOnlyOwn`) adds `OwnInv`, that
the index holds the ticked story's change only while it commits, and also assumes
that `git commit` does not fail: a change that stays staged enters the next
story's commit. The run `delivery` checks both under these assumptions, and with
every other fault.

`CrashesBoundTrunk` (`TrunkLeftover`) is what remains of `TrunkRewound` when the
daemon may die at any step: between ticks trunk keeps at most one commit per
crash, for any limit of stories per cycle and whatever operators do. `OwedInv` is
an account: a crash pays for one commit, the one left on trunk or the one that
what it leaves in the index will become, and a change that is staged needs the pay
only if its story has a branch already, since `git branch` then fails and the
commit stays. `CutShortInv` says who can have a branch before its promotion: a
story cut short after `git branch`, which has nothing of its own left to commit.
Repair rounds, failing promotions and failing resets are excluded as above; a
failing `git commit` too, because with two stories per cycle the change it leaves
staged can become a second commit of the story that a crash has cut short. TLC
checked both invariants on an instance with two crashes and two stories per cycle
before they were proved.

The module's last section is about `RiskControl`, whose theorems are about
functions and have no temporal part. `HighestRuleWins`: the loop that stops at the
first matching rule never misses a higher one, because the rules are listed from
the highest score down; it rests on `FirstRuleLeast`, that the rules a path
matches have a least one. `PaddingNeverLowers` and `FewerPathsStillRun` say that
score and decision are monotone in the set of paths, although two of
`evaluateRisk`'s branches lower the score: those branches look at the highest path
risk, which only grows (`PathsRiskGrows`). `ProtectedPathsAsk` follows through
`PathFloor`: a path of score 3 or more is a floor that neither downgrade
undercuts. The theorems hold for plans with at least one path; a plan without
paths is judged by its text alone.

### Dispatch and budget (`DispatchProofs`)

`DaysAreBounded` (`SpendBounded`) holds for any number of stories, crashes and
`/ralph tick` processes beside the daemon. The ledger alone says nothing about
calls that were admitted and not yet charged, so `SpendInv` counts them: for each
day, what is spent and what the calls still open for that day can cost together
stay within the bound. A call is open from its admission, when the day is read, to
its record, which may be after midnight; the daemon's remaining calls of a cycle
belong to the day the cycle began.

`LedgersAreComplete` (`LedgerComplete`) holds in the same generality: what was
paid is what the ledger sums up, plus what the calls between agent and record
cost, plus at most one call per crash, plus the calls of reviews that were not
entered. The last are no small matter in practice: a review that is retried is
paid each time, and one whose answer is invalid has no entry at all. `LedgerInv`
says where a call can be that is paid and not recorded (`Unrecorded`). Ledger and
costs are functions, and the property compares sums over them, so each step needs
to know what a sum becomes when one summand changes (`SumUpdated`, below).

`DispatchTyped` (`TypeOK`), `PreviewsAreOwn` (`PreviewOwn`), `WorktreesAreGone`
(`NoStrayWorktree`) and `RunsAreCounted` (`AttemptsPaid`) assume `Guests = {}`,
the daemon as the only dispatcher. `DispatchFits` follows one dispatch step by
step: from the add to the destroy the worktree is its own, the diff is captured
before the destroy and holds its edits only, and a reason that comes of a dispatch
which had its worktree leaves none behind but where the removal failed. `RunsInv`
counts an agent run from its start to the attempt it becomes. A second ticker on
the same story shares the worktree's path and the candidate's file with the first,
and the properties are then false. `EditsAreOwn` (`OwnEdits`) is read off the same
invariant: what the sandbox preflight's comment promises of a fresh worktree is
true of the daemon, and of the daemon alone.

### Locks and records

`SharedFileProofs`, first part, the lock: `LockTypeCorrect` (`LockTypeOK`).
`EndsUnlocked` (`LeavesNoLock`, for any number of processes and crashes) rests on
`Creator`: whose file is at the lock's path says where that process can be.
`RivalKeepsOut` (`RunsUnderLock`) assumes `TwoPids` and adds `Rivals`: a process
that has read a pid read its only rival's, so it finds the lock stale only when
the rival is gone, and then nobody else can have taken it. `UnpulledTickAlone`
(`OneTicker`) adds to `TwoPids` that no daemon pulls issues (`Unpulled`):
`StopsFirst` says that a daemon which was told to stop, and has given its lock
away, begins no other tick. With a pull in the cycle the signal comes while the
tick is still ahead.

Second part, the records: `RequestsCount` (`OneResumePerRequest`) assumes one
consumer. The property is not inductive: a record may be found, overwritten and
then marked. `Credit` says that a record which was asked for and is not spent, and
one between its mark and the resume, still has a resume to its credit. Only an
approval written after the mark gives a spent record a second one, and `late`
counts it. `RefusalsStand` (`RefusalStands`) assumes one decider; `Unrefused` says
that an approval about to be written has not been refused meanwhile. Both rest on
`RecordsTyped` (`TypeOK`), whose strengthening `Backed` says that actors work on
existing files only.

### Telegram (`TelegramProofs`)

`ChainTyped` (`ChainTypeOK`), `AppliedWereShown` (`OnlyShownApplied`),
`CommitsWereApproved` (`CommitsApproved`) and `OriginWasApproved`
(`OriginApproved`), for any number of sandboxes, commits and commit ids given out
again. None is inductive: a record can be replaced under its id between approval
and use. `Vouched` says that an approved record was shown as it stands, and
`StagedApproved` that what is staged belongs to a commit that was approved; the
preflights' comparison of hashes does the rest (`AppliedIsEdit`). The assumption
is that ids of different commands differ, which their prefixes ensure.

`NoneIsSkipped` (`NoneSkipped`) rests on `QueueInv`: saved and remembered offset
never pass an update that was not handled, and a process that polls has saved what
it did. `AutoWithinGrants` (`AutoWithinGrant`) rests on `ModeInv`, which says it
of the stored window instead of the present moment; a token's times never change
once it is used, so neither a second confirmation nor a revert in between can
lengthen a window. `BotTyped` (`TypeOK`) takes the offsets' bounds from `QueueInv`
and the window's from `ModeInv`; `BoundsInv` adds what the guards cap.

### External agents (`AgentJobsProofs`)

`AgentsTyped` (`TypeOK`), `StraysAreCounted` (`StrayRecords`) and `PreviewsBacked`
(`PreviewBacked`), for any number of tasks, dispatchers, agents given up, aborts
and crashes. They rest on `AgentInv`: a process works on its own task, whose story
waits, and a story dispatched again has attempts left. `StrayInv` counts the
records that say running with no dispatch between its first and its last write
(`Unworked`): a dispatch that is refused afterwards works on the task and leaves
the record so, which is why the property's own set would not be inductive.
`BackedInv` adds that a dispatch about to be called a success has an agent's patch
in place and then a record that says so, one about to be served the fallback's
(`Landed`), and that nothing an agent leaves is the fallback's (`Signed`).

### Intake (`IssueSupplyProofs`)

`IssuesInOrder` (`BuildOrder`) holds for any number of overlapping supplier runs,
failing listings and edits of the backlog. A run selects and files in two steps;
`OrderInv` says that what it is about to file was in order when it was selected,
which stays so because an issue that is closed stays closed under its id.

`FiledAtMostOnce` (`FiledOnce`) assumes `Alone`: runs do not overlap and no
listing fails; the property itself ends where a listing cannot hold all issues.
Without a concurrency group the workflow guarantees neither, and a run that sees
an empty list, or an old one, files an item again. `FreshInv` says that what a run
is about to file has no issue yet.

`NothingIsLost` (`NothingLost`) is an action property, assumes that GitHub sends a
file's content (`~ MayLackContent`), and rests on `FilesInv`: what a task holds of
a backlog file is a list or one of the two unreadable forms. The write that GitHub
accepts names the file it was merged with, so the merged list contains the file's.
`ListsApart` says that a list is not one of the two model values; TLA+ leaves that
open. The theorems are about `Spec`. The instance starts the conversations at the
plan's approval; the step lemmas start from any state of the invariants, those
included.

`PlansStayWhole` (`PlansWhole`) has the same hypothesis. `DraftInv` says that what
a conversation or a task holds is a plan the model answered with or none, whose
items depend on items of its own (`PlansAssumption`: the parser drops every other
dependency). What is left to show is about lists: the merge leaves out the items
whose id the file has, and none of the new ids is one (`MintedFresh`, since
numbers continue after the highest), so it leaves out nothing (`MissingAll`).

`UnprunedIdsAreFresh` (`FreshIds`) assumes `Unpruned`: people add to backlog files
but neither take items out nor make a file unreadable, and contents are sent.
`HomeInv` says that the id of every issue, and of every item about to become one,
is in the backlog still; a number after the highest of the backlog is then new
among the issues too.

`StoriesAreKept` (`ImportKeeps`) assumes `Window >= OwnIssues`, and that no item
of a backlog names a label the daemon looks for (`NoneReady`). `StoryInv` bounds
the stories by the ready issues and these by what people opened (the supplier's
own label is another), so the window is the whole list (`WindowCovers`) and an
import finds every story it would write anew.

### Resolver (`AiderResolverProofs`)

`OnlyGreenMerges` (`MergedGreen`) holds for any number of runs that share an
issue's branch and pull request and are killed anywhere. `GreenInv` says of each
place a work can be on its way (a run past its tests, the issue's branch, a pull
request with the merge asked for) that it passed, alone or with what its attempt
had not committed; a push replaces a branch only with another that did.

`PersonAfterTop` (`TopTried`) assumes `LongEnough`, an attempt for each rung, as
the workflow has (five and five). `ClimbInv` says that an attempt that may be the
run's last is on the last rung, or has no rung because no model was named; it
rests on `RungOf`, the rung that ladder, store and classifier give to an attempt.

`BlockedStaysOut` (`NeverMergeBlocked`) is proved for behaviours in which no issue
is ever given to a second run (`Apart`), not even after the first has ended: what
its branch holds and GitHub was asked to merge outlives the run. `OwnWorkInv`
follows a work from the agent to the default branch: the branch of an issue holds
a work of its run, and GitHub waits with a merge only for a run that said so and
thus was not blocked. A push that fails unnoticed then leaves no work but the
run's own.

### Folds (`FoldLemmas`)

Sums, and the largest number of a backlog, are folds of the libraries: functions
that call themselves on smaller sets. The library's induction theorems take the
property as an operator and cannot be used here, so the module has its own with
the property as a set of numbers (`Inductive`) or of subsets (`SubsetsInductive`),
proved from the least element that would be missing. `FoldExists` and
`FoldUptoExists` say that such a function exists, which is what allows its
equation to be used; from it follow the value of a sum after one summand has
changed (`SumUpdated`) and that the largest element is one and bounds the others
(`MaxIn`, `MaxUpto`).

### Only model-checked

Every invariant and action property of the passing runs but `TrunkAccounted` is
stated by a theorem. TLC alone checks:

* liveness (`EventuallySettled`, `QueueMoves`): out of the prover's reach, as is
  `ENABLED`;
* `TrunkAccounted`, which is about a crash or a failure at every step of a commit;
* `ReviewRepairLands`, which is false (section 3);
* what the hypotheses above exclude: two consumers or deciders of one record,
  three pids at the lock, two dispatchers of one story, failing promotions, a
  second run for an issue. TLC finds the counterexamples where the properties end
  there.

## 5. Plan

Done: the loop with its scheduler and working tree, the daemon's lock, the resume
records, dispatch, the operators' chain, mode control under redelivery, external
agents, the intake from Telegram to story, the CI resolver, and the risk decision
(sections 2 and 3), and the proofs of all their safety properties (section 4).
Next, in this order:

1. Weaker hypotheses: `BranchOnlyOwn` with crashes, which needs a statement of its
   own as `TrunkRewound` did; `PreviewOwn` for stories that no guest ticks.
2. `ApprovalRecords` for the records a story waits for, with the auto-approver as
   one more writer.
3. `Dispatch` composed with `RalphLoop`, with `AgentJobs` as the other way to a
   candidate.
4. The composition of the resolver with the issue supplier: both look at the same
   issues and pull requests.

## 6. Not modelled

Formatting, prompts, logging, dashboards and Telegram wording; the content of
patches, scanners and gate commands; the language models; the regular expressions
of the risk rules; the database migration; shell wrappers around external tools.
The small concurrency helpers (`utils/pool.js`, `queue.js`,
`retry-with-backoff.js` and their like) are called by nothing else in the system,
the legacy state machine is one process's phase file, and the watchdog only
notifies. `PROJECT.json` lists every component with its status.
