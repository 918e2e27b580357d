-------------------------- MODULE SharedRepository --------------------------
(***************************************************************************)
(* The one git working tree every story is applied to, committed in and    *)
(* promoted from.  A story stands for the files its patch touches; patches *)
(* of different stories touch different files.  Sources: apply-rollback.js *)
(* feature-branch-promote.js, hash.js and the git commands issued by       *)
(* opencode-apply.js and opencode-commit.js.                               *)
(***************************************************************************)
EXTENDS Naturals, Sequences, FiniteSets

CONSTANTS
    Stories,
    NewFile      \* stories whose patch only creates files HEAD does not have

VARIABLES
    wt,          \* stories whose uncommitted change is in the working tree
    idx,         \* those of them already staged by `git add`
    trunk,       \* commits on trunk above the base: the stories in each
    branch,      \* contents of auto/<story>, {} while the ref does not exist
    pushed,      \* stories whose feature branch is on origin
    prs          \* stories with an open pull request

repoVars == <<wt, idx, trunk, branch, pushed, prs>>
treeVars == <<wt, idx, trunk>>

InTrunk == UNION {trunk[i] : i \in 1..Len(trunk)}

\* A created file git does not know yet: neither staged nor committed.
Untracked(s) == s \in NewFile \ (idx \cup InTrunk)

\* What `git diff` shows, hence what calculateDiffHash can tell apart: the
\* unstaged changes of tracked files, and nothing that is already staged.
DiffHash == {s \in wt : s \notin idx /\ ~Untracked(s)}

\* changedFilesFromTouched: the files of s exist on disk.
FilesPresent(s) == s \in NewFile => s \in wt \cup InTrunk

\* git apply takes the patch of s on a tree that does not carry a change of s;
\* on what an earlier candidate left there it may or may not.
AppliesCleanly(s) == s \notin wt

\* The actions of rollbackAppliedFiles, when all succeed: `git ls-files` reads
\* the index, and `git checkout --` restores from it, so a change that is
\* already staged is left in place.
RolledBack(tree, s) == IF s \in idx THEN tree ELSE tree \ {s}

\* git add -- <files of s>: stages the change if there is one.
Staged(s) == idx \cup ({s} \cap wt)

\* git commit -m without a pathspec: everything staged becomes one commit.
CommitIndex ==
    /\ trunk' = Append(trunk, idx)
    /\ wt' = wt \ idx
    /\ idx' = {}

\* git branch auto/<s> HEAD: the branch carries all that trunk carries.
CreateBranch(s) == branch' = [branch EXCEPT ![s] = InTrunk]

\* Variant of ResetToParent: git reset --hard HEAD, the commit stays on trunk.
ResetToHead ==
    /\ trunk' = trunk
    /\ wt' = {s \in wt : Untracked(s)}
    /\ idx' = {}

\* git reset --hard HEAD^: drops the last commit and every tracked change.
ResetToParent ==
    /\ trunk' = SubSeq(trunk, 1, Len(trunk) - 1)
    /\ wt' = {s \in wt : Untracked(s)}
    /\ idx' = {}

RepoTypeOK ==
    /\ wt \subseteq Stories
    /\ idx \subseteq Stories
    /\ trunk \in Seq(SUBSET Stories)
    /\ branch \in [Stories -> SUBSET Stories]
    /\ pushed \subseteq Stories
    /\ prs \subseteq Stories

RepoInit ==
    /\ wt = {} /\ idx = {} /\ trunk = <<>>
    /\ branch = [s \in Stories |-> {}]
    /\ pushed = {} /\ prs = {}
=============================================================================
