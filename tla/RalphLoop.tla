------------------------------ MODULE RalphLoop -----------------------------
(***************************************************************************)
(* The autonomous loop: a daemon that, cycle after cycle, selects stories  *)
(* and ticks each of them through planning, dispatch, approval, apply,     *)
(* gates, commit, push and pull request, while operators approve, reject,  *)
(* pause and resume.  A tick reads the story file, performs its effects on *)
(* the repository, and only then writes the story file back: every such    *)
(* point is a step of its own, so operators and crashes come in between.   *)
(* Sources: autonomous-daemon.js, autonomous-scheduler.js, story-queue.js, *)
(* story-priority.js, autonomous-loop.js, autonomous-loop-wired.js,        *)
(* fullauto-auto-approver.js, resume-after-security-stop.js.               *)
(***************************************************************************)
EXTENDS LoopPhases, SharedRepository

CONSTANTS
    Limit,           \* stories ticked per cycle (RALPH_DAEMON_LIMIT)
    TicksPerStory,   \* ticks per story and cycle
    ListLimit,       \* story files the scheduler reads per cycle (100)
    MaxAttempts,     \* max_attempts of a story
    RepairCap,       \* review_repair_cap
    BaseScore,       \* [Stories -> Nat]: explicit or label score of a story
    Explicit,        \* stories whose priority is an explicit number
    ReviewEnabled,   \* RALPH_PR_REVIEW_ENABLED
    FallbackStories, \* stories a deterministic candidate patch exists for
    PlanDecisions,   \* phases the control decision may choose at PLAN
    Faults,          \* kinds of effect that may fail
    Moves,           \* kinds of operator move that may happen
    InitialModes,    \* whether mode.json may start as fullauto
    MaxCrashes       \* bound on daemon crashes

ASSUME LoopAssumption ==
    /\ IsFiniteSet(Stories)
    /\ NewFile \subseteq Stories /\ Explicit \subseteq Stories
    /\ {Limit, TicksPerStory, ListLimit, MaxAttempts} \subseteq Nat \ {0}
    /\ {RepairCap, MaxCrashes} \subseteq Nat
    /\ BaseScore \in [Stories -> Nat]
    /\ ReviewEnabled \in BOOLEAN /\ InitialModes \subseteq BOOLEAN
    /\ PlanDecisions \subseteq {"ESCALATED", "PLAN_APPROVAL_PENDING",
                                "DIFF_APPROVAL_PENDING", "OPENCODE_RUNNING"}

VARIABLES
    phase, status, attempts, repairs,   \* fields of the story files
    backoff,     \* retry_after_at lies in the future
    unrolled,    \* last_apply_rollback of the story's file is not ok
    appr,        \* the record the story's current_approval_id names
    resume,      \* the story's RESUME_AFTER_SECURITY_STOP record
    newer,       \* newer[s]: the stories written after s (mtime, updated_at)
    reviewed,    \* history: the candidate on disk was approved for apply
    fullauto,    \* mode.json says fullauto and it has not expired
    pc, queue, left, upd,   \* the daemon's cycle: not persisted
    crashes

storyVars  == <<phase, status, attempts, repairs, backoff, unrolled, newer>>
gateVars   == <<appr, resume, reviewed, fullauto>>
daemonVars == <<pc, queue, left, upd>>
vars == <<repoVars, storyVars, gateVars, daemonVars, crashes>>

-----------------------------------------------------------------------------
(* Approval records and the patch a tick writes back.                      *)

Actions == {"none", "keep", "patch", "apply", "commit", "push", "pr"}

Record(act, st, fresh, diff) ==
    [act |-> act, st |-> st, fresh |-> fresh, diff |-> diff]

Records == [act : Actions, st : {"none", "pending", "approved", "rejected"},
            fresh : BOOLEAN, diff : SUBSET Stories]

NoRecord == Record("none", "none", FALSE, {})
Kept     == Record("keep", "none", FALSE, {})    \* id not in the patch
Pending(act) == Record(act, "pending", TRUE, {})

\* approvalIsApproved, persistedApprovalIsApproved: status and expiry.
ApprovedIfFresh(s) == appr[s].fresh    \* variant: expiry alone
Approved(s) == appr[s].st = "approved" /\ appr[s].fresh

\* maybeAutoApproveForFullauto approves a pending, unexpired record.
AutoApproves(s) ==
    fullauto /\ appr[s].st = "pending" /\ appr[s].fresh

AutoApprove(s) ==
    IF AutoApproves(s)
    THEN /\ appr' = [appr EXCEPT ![s].st = "approved"]
         /\ reviewed' = [reviewed EXCEPT ![s] = @ \/ appr[s].act = "apply"]
    ELSE UNCHANGED <<appr, reviewed>>

\* updateStoryForPhase: phase and status always, other fields if named.
ToPhase(s, p) ==
    [phase |-> p, status |-> StatusOf(p), attempts |-> attempts[s],
     repairs |-> repairs[s], backoff |-> backoff[s],
     unrolled |-> unrolled[s], appr |-> Kept,
     then |-> IF p \in WaitingPhases \cup {"ESCALATED", "FIX_LOOP"}
              THEN "break" ELSE "go"]

Unblocked(s, p) == [ToPhase(s, p) EXCEPT !.backoff = FALSE]

Patches == [phase : Phases \cup {"keep"}, status : Statuses \cup {"keep"},
            attempts : Nat, repairs : Nat, backoff : BOOLEAN,
            unrolled : BOOLEAN, appr : Records, then : {"break", "go", "fallback", "push"}]

NoPatch == [phase |-> "keep", status |-> "keep", attempts |-> 0,
            repairs |-> 0, backoff |-> FALSE, unrolled |-> FALSE,
            appr |-> Kept,
            then |-> "break"]

\* Whether an effect that may fail succeeds.
Succeeds(kind) == IF kind \in Faults THEN BOOLEAN ELSE {TRUE}

-----------------------------------------------------------------------------
(* The scheduler.                                                          *)

InCritical(s) == phase[s] \in CriticalPhases

Runnable(s) ==
    /\ status[s] \in RunnableStatuses
    /\ phase[s] \notin {"STOPPED", "ESCALATED", "DONE"}
    /\ ~backoff[s]

Halted(s) == phase[s] = "STOPPED" \/ status[s] \in {"failed", "stopped"}

ResumeWaiting(s) == Halted(s) /\ resume[s] = "approved"

\* listStories: the ListLimit most recently written story files.
Listed == {s \in Stories : Cardinality(newer[s]) < ListLimit}

Selectable == {s \in Listed : Runnable(s) \/ ResumeWaiting(s)}

NoHolders == {}    \* variant: the critical section is not serialized
Holders == {s \in Selectable : InCritical(s)}

Score(s) ==
    IF s \in Explicit THEN BaseScore[s]
    ELSE BaseScore[s]
         + (IF status[s] = "waiting_approval" THEN 200 ELSE 0)
         + (IF status[s] = "failed" \/ phase[s] = "ESCALATED"
            THEN 900 ELSE 0)

\* sortStoriesByPriority: lower score first, then the one written longest ago.
Before(s, t) ==
    \/ Score(s) < Score(t)
    \/ Score(s) = Score(t) /\ t \in newer[s]

\* One holder of the critical section alone, else up to Limit stories.
SelectionSize ==
    LET cap  == IF Holders # {} THEN 1 ELSE Limit
        pool == Cardinality(IF Holders # {} THEN Holders ELSE Selectable)
    IN  IF pool < cap THEN pool ELSE cap

Selections ==
    LET pool == IF Holders # {} THEN Holders ELSE Selectable
    IN  {q \in [1..SelectionSize -> pool] :
           \A i \in 1..SelectionSize :
             /\ \A j \in 1..(i - 1) : Before(q[j], q[i])
             /\ \A t \in pool : Before(t, q[i]) => \E j \in 1..i : q[j] = t}

-----------------------------------------------------------------------------
(* The cycle: what every tick has in common.                               *)

Current == queue[1]

\* Variant: the tick budget of the story is never used up.
ContinueUnbounded(again) ==
    /\ IF again
       THEN left' = left - 1 /\ queue' = queue /\ pc' = "tick"
       ELSE /\ left' = TicksPerStory
            /\ queue' = Tail(queue)
            /\ pc' = IF Len(queue) > 1 THEN "tick" ELSE "idle"
    /\ upd' = NoPatch

\* A tick is done: again the same story, the next one, or the cycle is over.
Continue(again) ==
    /\ IF again /\ left > 1
       THEN left' = left - 1 /\ queue' = queue /\ pc' = "tick"
       ELSE /\ left' = TicksPerStory
            /\ queue' = Tail(queue)
            /\ pc' = IF Len(queue) > 1 THEN "tick" ELSE "idle"
    /\ upd' = NoPatch

\* The tick wrote nothing: from_phase = to_phase, so the inner loop breaks.
NoProgress == Continue(FALSE) /\ UNCHANGED <<storyVars, crashes>>

\* The tick has done its effects and computed its patch.
ThenSave(u) ==
    /\ upd' = u /\ pc' = "save"
    /\ UNCHANGED <<queue, left, storyVars, crashes>>

Goto(label) ==
    /\ pc' = label
    /\ UNCHANGED <<queue, left, upd, storyVars, crashes>>

\* Tick of a story in one of the phases ps.
Ticking(ps) == pc = "tick" /\ phase[Current] \in ps /\ ~Halted(Current)

\* updateStory moves the file to the front of both orders.
Touched(s) == [t \in Stories |-> IF t = s THEN {}
                                 ELSE newer[t] \cup {s}]

StartCycle ==
    /\ pc = "idle"
    /\ Selectable # {}
    /\ queue' \in Selections
    /\ pc' = "tick"
    /\ left' = TicksPerStory
    /\ UNCHANGED <<upd, repoVars, storyVars, gateVars, crashes>>

\* updateStory: merge the patch into the file as it is on disk by now.
Save ==
    LET s == Current IN
    /\ pc = "save"
    /\ phase' = IF upd.phase = "keep" THEN phase
                ELSE [phase EXCEPT ![s] = upd.phase]
    /\ status' = IF upd.status = "keep" THEN status
                 ELSE [status EXCEPT ![s] = upd.status]
    /\ attempts' = [attempts EXCEPT ![s] = upd.attempts]
    /\ repairs' = [repairs EXCEPT ![s] = upd.repairs]
    /\ backoff' = [backoff EXCEPT ![s] = upd.backoff]
    /\ unrolled' = [unrolled EXCEPT ![s] = upd.unrolled]
    /\ appr' = IF upd.appr.act = "keep" THEN appr
               ELSE [appr EXCEPT ![s] = upd.appr]
    /\ newer' = Touched(s)
    /\ IF upd.then \in {"fallback", "push"}
       THEN pc' = upd.then /\ UNCHANGED <<queue, left>> /\ upd' = NoPatch
       ELSE Continue(upd.then = "go")
    /\ UNCHANGED <<repoVars, resume, reviewed, fullauto, crashes>>

-----------------------------------------------------------------------------
(* Ticks that need no repository.                                          *)

\* The inner loop answers story_terminal; nothing is written.
TickTerminal ==
    /\ pc = "tick"
    /\ Halted(Current) \/ phase[Current] = "DONE"
    /\ ~ResumeWaiting(Current)
    /\ NoProgress
    /\ UNCHANGED <<repoVars, gateVars>>

\* consumeApprovedResume: the record is spent before the story is rewritten.
ConsumeResume ==
    /\ pc = "tick"
    /\ ResumeWaiting(Current)
    /\ resume' = [resume EXCEPT ![Current] = "executed"]
    /\ ThenSave([Unblocked(Current, "PLAN_APPROVAL_PENDING") EXCEPT
                   !.status = "queued", !.attempts = 0, !.appr = NoRecord])
    /\ UNCHANGED <<repoVars, appr, reviewed, fullauto>>

\* advancePlanPhase: the control decision of the ultraplan.
TickPlan ==
    /\ Ticking({"PLAN"})
    /\ \E p \in PlanDecisions : ThenSave(Unblocked(Current, p))
    /\ UNCHANGED <<repoVars, gateVars>>

\* advanceWaitingApprovalPhase, after the wired loop's own auto-approval.
TickWaiting ==
    /\ Ticking({"PLAN_APPROVAL_PENDING", "DIFF_APPROVAL_PENDING",
                "COMMIT_APPROVAL_PENDING"})
    /\ AutoApprove(Current)
    /\ IF Approved(Current) \/ AutoApproves(Current)
       THEN ThenSave(Unblocked(Current, InnerResume(phase[Current])))
       ELSE NoProgress
    /\ UNCHANGED <<repoVars, resume, fullauto>>

\* resumeApprovalToExecutionPhase; if it declines, the inner loop is next.
TickBoundary ==
    /\ Ticking({"PUSH_APPROVAL_PENDING", "PR_APPROVAL_PENDING"})
    /\ AutoApprove(Current)
    /\ IF Approved(Current) \/ AutoApproves(Current)
       THEN ThenSave(Unblocked(Current, WiredResume(phase[Current])))
       ELSE Goto("inner")
    /\ UNCHANGED <<repoVars, resume, fullauto>>

\* The inner loop reads story, mode and approval again.
InnerBoundary ==
    /\ pc = "inner"
    /\ IF Halted(Current)
       THEN NoProgress /\ UNCHANGED <<appr, reviewed>>
       ELSE /\ AutoApprove(Current)
            /\ IF Approved(Current) \/ AutoApproves(Current)
               THEN ThenSave(Unblocked(Current, InnerResume(phase[Current])))
               ELSE NoProgress
    /\ UNCHANGED <<repoVars, resume, fullauto>>

\* ensureOpenCodeApprovalRecord: the loop approves its own dispatch.
DispatchApproval == Record("patch", "approved", TRUE, {})

\* advanceOpenCodeRunningPhase: overwrites the current record with one the
\* loop approves itself, then asks the executor for a candidate patch.
TickDispatch ==
    /\ Ticking({"OPENCODE_RUNNING"})
    /\ \E ok \in Succeeds("dispatch"), wait \in BOOLEAN :
         /\ ThenSave(IF ok
                     THEN [Unblocked(Current, "PATCH_PREVIEW") EXCEPT
                             !.appr = DispatchApproval]
                     ELSE [ToPhase(Current, "OPENCODE_RUNNING") EXCEPT
                             !.backoff = wait, !.appr = DispatchApproval,
                             !.then = "fallback"])
         /\ reviewed' = [reviewed EXCEPT ![Current] = ~ok /\ @]
    /\ UNCHANGED <<repoVars, appr, resume, fullauto>>

\* maybeFallbackAfterOpenCodeFailure, then escalateStuckOpenCodeRunning.
AfterDispatchFailure ==
    LET s == Current
        n == attempts[s] + 1
    IN
    /\ pc = "fallback"
    /\ \/ /\ s \in FallbackStories
          /\ ThenSave(Unblocked(s, "PATCH_PREVIEW"))
          /\ reviewed' = [reviewed EXCEPT ![s] = FALSE]
       \/ /\ n < MaxAttempts
          /\ ThenSave([ToPhase(s, "keep") EXCEPT
                         !.status = "keep", !.attempts = n, !.then = "break"])
          /\ UNCHANGED reviewed
       \/ /\ n >= MaxAttempts
          /\ ThenSave([Unblocked(s, "ESCALATED") EXCEPT !.attempts = n])
          /\ UNCHANGED reviewed
    /\ UNCHANGED <<repoVars, appr, resume, fullauto>>

\* createOpenCodePatchApproval: bound to the candidate on disk.
PatchApproval == Pending("apply")

\* advancePatchPreviewPhase: a fresh apply approval for this candidate.  With
\* the candidate missing or empty the dispatch's record stays the current one.
TickPreview ==
    /\ Ticking({"PATCH_PREVIEW"})
    /\ \/ ThenSave([Unblocked(Current, "DIFF_APPROVAL_PENDING") EXCEPT
                      !.appr = PatchApproval])
       \/ /\ "approval" \in Faults
          /\ ThenSave(ToPhase(Current, "ESCALATED"))
       \/ /\ "preview" \in Faults
          /\ ThenSave(Unblocked(Current, "DIFF_APPROVAL_PENDING"))
    /\ UNCHANGED <<repoVars, gateVars>>

\* advanceFixLoopPhase
TickFixLoop ==
    /\ Ticking({"FIX_LOOP"})
    /\ ThenSave(Unblocked(Current, "OPENCODE_RUNNING"))
    /\ UNCHANGED <<repoVars, gateVars>>

-----------------------------------------------------------------------------
(* Ticks inside the critical section.                                      *)

\* What rollbackAppliedFiles may leave in the tree, and whether its verdict is
\* bad: an action failed, or git status still shows a change of any story.
Rollbacks(tree, s) ==
    LET failing == "rollback" \in Faults
        trees == {RolledBack(tree, s)} \cup (IF failing THEN {tree} ELSE {})
    IN  {r \in [tree : trees, bad : BOOLEAN] :
           IF r.tree \cup idx = {} THEN r.bad => failing ELSE r.bad}

\* Variants of Retry: one attempt too many, attempts that are not counted, and
\* a rollback whose verdict is not written down.
RetryOnceMore(s, bad) ==
    /\ attempts[s] < MaxAttempts
    /\ ThenSave([ToPhase(s, "FIX_LOOP") EXCEPT
                   !.attempts = @ + 1, !.unrolled = bad])
RetryUncounted(s, bad) ==
    ThenSave([ToPhase(s, "FIX_LOOP") EXCEPT !.unrolled = bad])
RetryUnrecorded(s, bad) ==
    /\ attempts[s] + 1 < MaxAttempts
    /\ ThenSave([ToPhase(s, "FIX_LOOP") EXCEPT !.attempts = @ + 1])

\* After a failed attempt inside the section: try again, or give up.  Either
\* is taken whatever the rollback's verdict, which the file records.
Retry(s, bad) ==
    /\ attempts[s] + 1 < MaxAttempts
    /\ ThenSave([ToPhase(s, "FIX_LOOP") EXCEPT
                   !.attempts = @ + 1, !.unrolled = bad])

GiveUp(s, bad) ==
    ThenSave([ToPhase(s, "ESCALATED") EXCEPT
                !.attempts = @ + 1, !.unrolled = bad])

\* requestedPathsCoverage escalates at the cap only ...
RetryOrEscalate(s, bad) ==
    Retry(s, bad) \/ (attempts[s] + 1 >= MaxAttempts /\ GiveUp(s, bad))

\* ... buildRepairDecision also at once, or at the cap of the failure type.
RepairDecision(s, bad) == Retry(s, bad) \/ GiveUp(s, bad)

\* approvedOpenCodeApplyPreflight, the one preflight that checks the expiry.
ApplyAllowed(s) == Approved(s) /\ appr[s].act = "apply"

\* Nothing to apply: no candidate, or no patch hash of an apply approval.
NothingToApply(s) == "preview" \in Faults /\ appr[s].act = "patch"

\* advanceApplyPhase: preflight, git apply, coverage of the requested paths.  A
\* git apply that reports failure (a timeout) may have changed the tree.
TickApply ==
    LET s == Current IN
    /\ Ticking({"APPLY"})
    /\ \/ /\ ApplyAllowed(s)
          /\ wt' = wt \cup {s}
          /\ ThenSave(Unblocked(s, "GATES"))
       \/ /\ ApplyAllowed(s) /\ "coverage" \in Faults
          /\ \E r \in Rollbacks(wt \cup {s}, s) :
               wt' = r.tree /\ RetryOrEscalate(s, r.bad)
       \/ /\ ~ApplyAllowed(s) \/ ~AppliesCleanly(s) \/ "apply" \in Faults
          /\ wt' = wt \/ (ApplyAllowed(s) /\ "apply" \in Faults /\ wt' = wt \cup {s})
          /\ ThenSave(ToPhase(s, "ESCALATED"))
       \/ /\ NothingToApply(s)
          /\ wt' = wt
          /\ ThenSave(Unblocked(s, "GATES"))
    /\ UNCHANGED <<idx, trunk, branch, pushed, prs, gateVars>>

\* opencodeGatesPreflight
GatesReady(s) ==
    appr[s].st = "approved" /\ appr[s].act = "apply" /\ FilesPresent(s)

\* createOpenCodeCommitApproval: bound to the tree's diff hash.
CommitApproval == Record("commit", "pending", TRUE, DiffHash)

\* advanceGatesPhase: gates, then the commit approval bound to the diff hash;
\* if that cannot be created the change stays in the tree.  A failing gates
\* preflight counts like failing gates.  After an apply that was skipped the
\* rollback has no paths and calls itself done.
TickGates ==
    LET s == Current IN
    /\ Ticking({"GATES"})
    /\ \/ /\ GatesReady(s)
          /\ ThenSave([Unblocked(s, "COMMIT_APPROVAL_PENDING") EXCEPT
                         !.appr = CommitApproval])
          /\ wt' = wt
       \/ /\ GatesReady(s) /\ "approval" \in Faults
          /\ ThenSave(ToPhase(s, "ESCALATED"))
          /\ wt' = wt
       \/ /\ ~GatesReady(s) \/ "gates" \in Faults
          /\ \/ /\ ~NothingToApply(s)
                /\ \E r \in Rollbacks(wt, s) :
                     wt' = r.tree /\ RepairDecision(s, r.bad)
             \/ NothingToApply(s) /\ wt' = wt /\ RepairDecision(s, FALSE)
    /\ UNCHANGED <<idx, trunk, branch, pushed, prs, gateVars>>

\* advanceCommitPhase on a failed commit: roll the applied files back.
CommitFailed(s) ==
    /\ \E r \in Rollbacks(wt, s) :
         /\ wt' = r.tree
         /\ ThenSave([ToPhase(s, "ESCALATED") EXCEPT !.unrolled = r.bad])
    /\ UNCHANGED <<idx, trunk, branch>>

\* opencodeCommitPreflight
CommitAllowed(s) ==
    /\ appr[s].st = "approved" /\ appr[s].act = "commit"
    /\ appr[s].diff = DiffHash
    /\ FilesPresent(s)

\* commitOpenCodeAppliedPatch up to git add.
TickCommit ==
    LET s == Current IN
    /\ Ticking({"COMMIT"})
    /\ IF CommitAllowed(s)
       THEN idx' = Staged(s) /\ Goto("staged") /\ UNCHANGED <<wt, trunk, branch>>
       ELSE CommitFailed(s)
    /\ UNCHANGED <<pushed, prs, gateVars>>

\* git commit: fails by itself, or because nothing is staged.
Commit ==
    /\ pc = "staged"
    /\ \/ idx # {} /\ CommitIndex /\ Goto("committed") /\ UNCHANGED branch
       \/ (idx = {} \/ "commit" \in Faults) /\ CommitFailed(Current)
    /\ UNCHANGED <<pushed, prs, gateVars>>

\* promoteCommitToFeatureBranch up to the ref; a failure leaves the commit
\* on trunk, where the rollback of the applied files finds nothing to do.
Promote ==
    /\ pc = "committed"
    /\ \/ /\ branch[Current] = {}
          /\ CreateBranch(Current)
          /\ Goto("branched")
          /\ UNCHANGED treeVars
       \/ /\ branch[Current] # {} \/ "promote" \in Faults
          /\ CommitFailed(Current)
    /\ UNCHANGED <<pushed, prs, gateVars>>

\* The patch of a promotion names no approval yet: the commit approval stays
\* current until the push approval is created.
Promoted(s) ==
    ThenSave([Unblocked(s, "PUSH_APPROVAL_PENDING") EXCEPT !.then = "push"])

\* Variant of Rewind: the exit status of git reset is not looked at.
RewindUnchecked ==
    /\ pc = "branched"
    /\ \/ ResetToParent
       \/ "reset" \in Faults /\ UNCHANGED treeVars
    /\ Promoted(Current)
    /\ UNCHANGED <<branch, pushed, prs, gateVars>>

\* The rewind of trunk; a failing git reset leaves the branch and the commit.
Rewind ==
    /\ pc = "branched"
    /\ \/ ResetToParent /\ Promoted(Current) /\ UNCHANGED branch
       \/ "reset" \in Faults /\ CommitFailed(Current)
    /\ UNCHANGED <<pushed, prs, gateVars>>

\* createOpenCodePushApproval: the branch tip is the commit just promoted.
PushApproval == Pending("push")

\* ensurePushApprovalAfterCommit
EnsurePushApproval ==
    /\ pc = "push"
    /\ \E ok \in Succeeds("approval") :
         ThenSave(IF ok
                  THEN [Unblocked(Current, "PUSH_APPROVAL_PENDING") EXCEPT
                          !.appr = PushApproval]
                  ELSE ToPhase(Current, "ESCALATED"))
    /\ UNCHANGED <<repoVars, gateVars>>

-----------------------------------------------------------------------------
(* Ticks that reach GitHub.                                                *)

\* opencodePushPreflight
PushAllowed(s) ==
    appr[s].st = "approved" /\ appr[s].act = "push" /\ branch[s] # {}

\* pushOpenCodeCommit: the story's branch, to the branch of that name.
PushBranch(s) == pushed' = pushed \cup {s}

\* createOpenCodePrApproval
PrApproval == Pending("pr")

\* advancePushPhase: preflight, git push, then the PR approval.  A push that
\* reports failure (a timeout) may have reached origin.
TickPush ==
    LET s == Current
        escalate == ThenSave(ToPhase(s, "ESCALATED"))
    IN
    /\ Ticking({"PUSH"})
    /\ \/ /\ PushAllowed(s)
          /\ PushBranch(s)
          /\ \/ ThenSave([Unblocked(s, "PR_APPROVAL_PENDING") EXCEPT
                            !.appr = PrApproval])
             \/ {"push", "approval"} \cap Faults # {} /\ escalate
       \/ /\ ~PushAllowed(s) \/ "push" \in Faults
          /\ pushed' = pushed /\ escalate
    /\ UNCHANGED <<wt, idx, trunk, branch, prs, gateVars>>

\* opencodePrPreflight, and the head branch GitHub has to know.
PrAllowed(s) ==
    /\ appr[s].st = "approved" /\ appr[s].act = "pr" /\ branch[s] # {}
    /\ s \in pushed

\* createGhPullRequest reuses a pull request that exists.
OpenPr(s) == prs' = prs \cup {s}

\* advancePrPhase
TickPr ==
    LET s == Current IN
    /\ Ticking({"PR"})
    /\ \/ /\ PrAllowed(s)
          /\ OpenPr(s)
          /\ ThenSave(Unblocked(s, IF ReviewEnabled THEN "PR_REVIEW"
                                                    ELSE "DONE"))
       \/ /\ ~PrAllowed(s) \/ "pr" \in Faults
          /\ prs' = prs
          /\ ThenSave(ToPhase(s, "ESCALATED"))
    /\ UNCHANGED <<wt, idx, trunk, branch, pushed, gateVars>>

\* advancePrReviewPhase: request_changes may send the story round once more.
TickReview ==
    LET s == Current IN
    /\ Ticking({"PR_REVIEW"})
    /\ \/ ThenSave(Unblocked(s, "DONE"))
       \/ /\ repairs[s] < RepairCap
          /\ ThenSave([Unblocked(s, "FIX_LOOP") EXCEPT
                         !.repairs = @ + 1, !.then = "go"])
    /\ UNCHANGED <<repoVars, gateVars>>

-----------------------------------------------------------------------------
(* Operators, time and crashes: between any two steps of the daemon.       *)

\* approveApprovalRecordOnly behind the dry run: pending and unexpired only.
Approve(s) ==
    /\ "approve" \in Moves
    /\ appr[s].st = "pending" /\ appr[s].fresh
    /\ appr' = [appr EXCEPT ![s].st = "approved"]
    /\ reviewed' = [reviewed EXCEPT ![s] = @ \/ appr[s].act = "apply"]
    /\ UNCHANGED <<repoVars, storyVars, resume, fullauto, daemonVars, crashes>>

\* denyApproval and supersedeApprovalForModify: whatever status the record has,
\* and nothing but the record changes.
Reject(s) ==
    /\ "reject" \in Moves
    /\ appr[s] # NoRecord
    /\ appr' = [appr EXCEPT ![s].st = "rejected"]
    /\ UNCHANGED <<repoVars, storyVars, resume, reviewed, fullauto,
                   daemonVars, crashes>>

\* expires_at passes: approved records lapse too, for readers that look.
Lapse(s) ==
    /\ "lapse" \in Moves
    /\ appr[s].fresh
    /\ appr' = [appr EXCEPT ![s].fresh = FALSE]
    /\ UNCHANGED <<repoVars, storyVars, resume, reviewed, fullauto,
                   daemonVars, crashes>>

\* pauseStory (/ralph pause and /ralph stop): in whatever phase the story is.
Pause(s) ==
    /\ "pause" \in Moves
    /\ phase[s] # "STOPPED"
    /\ phase' = [phase EXCEPT ![s] = "STOPPED"]
    /\ status' = [status EXCEPT ![s] = "stopped"]
    /\ newer' = Touched(s)
    /\ UNCHANGED <<repoVars, attempts, repairs, backoff, unrolled, gateVars,
                   daemonVars, crashes>>

\* requestResumeApproval and its approval by an administrator, once a story.
GrantResume(s) ==
    /\ "resume" \in Moves
    /\ Halted(s) /\ resume[s] = "none"
    /\ resume' = [resume EXCEPT ![s] = "approved"]
    /\ UNCHANGED <<repoVars, storyVars, appr, reviewed, fullauto,
                   daemonVars, crashes>>

\* set-mode, or the mode's effective_until passing.
SwitchMode ==
    /\ "mode" \in Moves
    /\ fullauto' = ~fullauto
    /\ UNCHANGED <<repoVars, storyVars, appr, resume, reviewed,
                   daemonVars, crashes>>

\* retry_after_at passes.
BackoffOver(s) ==
    /\ backoff[s]
    /\ backoff' = [backoff EXCEPT ![s] = FALSE]
    /\ UNCHANGED <<repoVars, phase, status, attempts, repairs, unrolled, newer,
                   gateVars, daemonVars, crashes>>

\* The daemon dies and is started again: only files and the repository remain.
Crash ==
    /\ pc # "idle" /\ crashes < MaxCrashes
    /\ crashes' = crashes + 1
    /\ pc' = "idle" /\ queue' = <<>> /\ left' = TicksPerStory
    /\ upd' = NoPatch
    /\ UNCHANGED <<repoVars, storyVars, gateVars>>

-----------------------------------------------------------------------------
Init ==
    /\ RepoInit
    /\ phase = [s \in Stories |-> "PLAN"]
    /\ status = [s \in Stories |-> "queued"]
    /\ attempts = [s \in Stories |-> 0]
    /\ repairs = [s \in Stories |-> 0]
    /\ backoff = [s \in Stories |-> FALSE]
    /\ unrolled = [s \in Stories |-> FALSE]
    /\ \E rank \in [Stories -> 1..Cardinality(Stories)] :
         /\ \A s, t \in Stories : s # t => rank[s] # rank[t]
         /\ newer = [s \in Stories |-> {t \in Stories : rank[t] > rank[s]}]
    /\ appr = [s \in Stories |-> NoRecord]
    /\ resume = [s \in Stories |-> "none"]
    /\ reviewed = [s \in Stories |-> FALSE]
    /\ fullauto \in InitialModes
    /\ pc = "idle" /\ queue = <<>> /\ left = TicksPerStory /\ upd = NoPatch
    /\ crashes = 0

TickStep ==
    \/ TickTerminal \/ ConsumeResume \/ TickPlan \/ TickWaiting
    \/ TickBoundary \/ InnerBoundary \/ TickDispatch \/ AfterDispatchFailure
    \/ TickPreview \/ TickFixLoop \/ TickApply \/ TickGates \/ TickCommit
    \/ Commit \/ Promote \/ Rewind \/ EnsurePushApproval \/ TickPush
    \/ TickPr \/ TickReview

DaemonStep == StartCycle \/ TickStep \/ Save

OperatorStep ==
    \/ \E s \in Stories :
         Approve(s) \/ Reject(s) \/ Lapse(s) \/ Pause(s) \/ GrantResume(s)
    \/ SwitchMode

Next ==
    \/ DaemonStep
    \/ OperatorStep
    \/ \E s \in Stories : BackoffOver(s)
    \/ Crash

Spec == Init /\ [][Next]_vars

\* The daemon's while loop keeps taking steps, and time passes.
FairSpec ==
    Spec /\ WF_vars(DaemonStep) /\ \A s \in Stories : WF_vars(BackoffOver(s))

-----------------------------------------------------------------------------
(* Types: the shape of the story files, the records and the daemon state.  *)

Labels == {"idle", "tick", "inner", "fallback", "staged", "committed",
           "branched", "push", "save"}

StoryTypeOK ==
    /\ phase \in [Stories -> Phases]
    /\ status \in [Stories -> Statuses]
    /\ attempts \in [Stories -> Nat]
    /\ repairs \in [Stories -> Nat]
    /\ backoff \in [Stories -> BOOLEAN]
    /\ unrolled \in [Stories -> BOOLEAN]
    /\ newer \in [Stories -> SUBSET Stories]

GateTypeOK ==
    /\ appr \in [Stories -> Records]
    /\ resume \in [Stories -> {"none", "approved", "executed"}]
    /\ reviewed \in [Stories -> BOOLEAN]
    /\ fullauto \in BOOLEAN

DaemonTypeOK ==
    /\ pc \in Labels
    /\ queue \in Seq(Stories)
    /\ left \in 1..TicksPerStory
    /\ upd \in Patches
    /\ pc = "idle" <=> queue = <<>>

\* Story files, records, repository and daemon keep their shapes, and the daemon
\* has stories left to tick exactly while it is inside a cycle.
TypeOK ==
    /\ RepoTypeOK
    /\ StoryTypeOK
    /\ GateTypeOK
    /\ DaemonTypeOK
    /\ crashes \in 0..MaxCrashes
=============================================================================
