----------------------------- MODULE LoopPhases -----------------------------
(***************************************************************************)
(* The vocabulary shared by the autonomous loop, its scheduler and its     *)
(* approval gates: phases of a story, the queue status each phase implies, *)
(* and the phases in which a story owns the shared working tree.           *)
(* Source: autonomous-loop.js, autonomous-loop-wired.js (PUSH and PR are   *)
(* literals there), autonomous-scheduler.js, story-queue.js.               *)
(***************************************************************************)

\* The phases that park a story until an approval record is decided.
WaitingPhases ==
    {"PLAN_APPROVAL_PENDING", "DIFF_APPROVAL_PENDING",
     "COMMIT_APPROVAL_PENDING", "PUSH_APPROVAL_PENDING",
     "PR_APPROVAL_PENDING"}

\* APPLY .. COMMIT: the phases that use the repository's working tree.
CriticalPhases == {"APPLY", "GATES", "COMMIT_APPROVAL_PENDING", "COMMIT"}

TerminalPhases == {"DONE", "STOPPED", "ESCALATED"}

Phases == WaitingPhases \cup CriticalPhases \cup TerminalPhases \cup
    {"PLAN", "OPENCODE_RUNNING", "PATCH_PREVIEW", "FIX_LOOP",
     "PUSH", "PR", "PR_REVIEW"}

Statuses == {"queued", "running", "waiting_approval",
             "failed", "completed", "stopped"}

\* The only statuses the scheduler considers.
RunnableStatuses == {"queued", "running", "waiting_approval"}

\* The status written together with a phase.
StatusOf(p) ==
    CASE p \in WaitingPhases -> "waiting_approval"
      [] p = "DONE"          -> "completed"
      [] p = "STOPPED"       -> "stopped"
      [] p = "ESCALATED"     -> "failed"
      [] OTHER               -> "running"

\* Where the inner loop sends a waiting story whose approval is approved.
\* It completes a PR_APPROVAL_PENDING story without opening a pull request
\* and skips the push of a PUSH_APPROVAL_PENDING one.
InnerResume(p) ==
    CASE p = "PLAN_APPROVAL_PENDING"   -> "OPENCODE_RUNNING"
      [] p = "DIFF_APPROVAL_PENDING"   -> "APPLY"
      [] p = "COMMIT_APPROVAL_PENDING" -> "COMMIT"
      [] p = "PUSH_APPROVAL_PENDING"   -> "PR_APPROVAL_PENDING"
      [] OTHER                         -> "DONE"

\* Where the wired loop sends a story at an execution boundary instead.
WiredResumeNoPr(p) == IF p = "PUSH_APPROVAL_PENDING" THEN "PUSH" ELSE "DONE"
WiredResume(p) == IF p = "PUSH_APPROVAL_PENDING" THEN "PUSH" ELSE "PR"
=============================================================================
