------------------------ MODULE RalphLoopProperties ------------------------
(* What the loop is meant to guarantee, stated over RalphLoop.             *)
EXTENDS RalphLoop

CONSTANT Nobody    \* the working tree has no holder

ASSUME NobodyAssumption == Nobody \notin Stories

\* At most one story is in APPLY .. COMMIT: the scheduler serializes the
\* section around the shared working tree (autonomous-scheduler.js:9-25).
MutualExclusion ==
    \A s, t \in Stories : InCritical(s) /\ InCritical(t) => s = t

\* The same promise as a specification of its own, and who holds the tree.
Holder == IF \E s \in Stories : InCritical(s)
          THEN CHOOSE s \in Stories : InCritical(s)
          ELSE Nobody

Section == INSTANCE CriticalSection WITH holder <- Holder

\* The loop implements the critical section: the tree is left before another
\* story enters it, across pauses, crashes, resumes and lost updates.
ImplementsSection == Section!Spec

\* A story's change is in the tree only while it owns the tree, after it was
\* stopped or given up, or when its own file says that the last rollback left
\* the tree dirty: a retry (FIX_LOOP, dispatch, preview) that starts from a dirty
\* tree can be told from the story file, whatever failed and wherever the daemon
\* died, and nothing is left behind by a story that moved on to PUSH.
TreeAccounted ==
    \A s \in wt \cup idx :
        \/ phase[s] \in CriticalPhases \cup
                          {"STOPPED", "ESCALATED", "PLAN_APPROVAL_PENDING"}
        \/ unrolled[s]

\* A commit that a crash, a failed promotion or a failed reset leaves on trunk is
\* one of a story that is still in COMMIT, was stopped there, or escalated: no
\* story goes on to its push as if its commit had been moved to a branch.
TrunkAccounted ==
    pc \in {"idle", "tick"} =>
        \A s \in InTrunk :
            phase[s] \in {"COMMIT", "STOPPED", "ESCALATED", "PLAN_APPROVAL_PENDING"}

\* A candidate patch reaches the tree only if that very candidate, not an
\* earlier one of the story, was approved for apply.
ApplyReviewed ==
    [][\A s \in wt' \ wt : reviewed[s]]_vars

\* The three places that count attempts never exceed the story's maximum.
AttemptsBounded == \A s \in Stories : attempts[s] <= MaxAttempts

\* A feature branch, and with it the pull request, carries the files of its
\* own story and of no other.
BranchOnlyOwn == \A s \in Stories : branch[s] \subseteq {s}

\* Between ticks trunk is back at its base: commits live on feature branches.
TrunkRewound == pc \in {"idle", "tick"} => trunk = <<>>

\* With crashes, trunk has at most one commit left of each promotion that a crash has
\* cut short (opencode-commit.js:158, feature-branch-promote.js:105).
TrunkLeftover == pc \in {"idle", "tick"} => Len(trunk) <= crashes

\* A story that says it is done has its branch on origin in a pull request.
DoneHasPr == \A s \in Stories : phase[s] = "DONE" => s \in prs /\ s \in pushed

\* A stop is left only through a resume that an administrator approved.
StopSticks ==
    [][\A s \in Stories : phase[s] = "STOPPED" /\ phase'[s] # "STOPPED"
                          => resume[s] = "executed"]_vars

\* Parked before any approval exists: no record can ever release the story.
Parked(s) ==
    /\ phase[s] \in {"PLAN_APPROVAL_PENDING", "DIFF_APPROVAL_PENDING"}
    /\ appr[s] = NoRecord

\* Under fullauto no story circles for ever: each ends, escalates or parks.
EventuallySettled ==
    \A s \in Stories : <>[](phase[s] \in TerminalPhases \/ Parked(s))

\* A resumed story is planned again.
ResumeReplans ==
    \A s \in Stories :
        (resume[s] = "executed" /\ phase[s] = "PLAN_APPROVAL_PENDING")
            ~> (phase[s] # "PLAN_APPROVAL_PENDING")

\* Review findings land as a follow-up commit and the story completes.
ReviewRepairLands ==
    \A s \in Stories : (repairs[s] > 0) ~> (phase[s] = "DONE")
=============================================================================
