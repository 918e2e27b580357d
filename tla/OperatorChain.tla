---------------------------- MODULE OperatorChain ----------------------------
(***************************************************************************)
(* What the Telegram commands do to candidate patches, approval records    *)
(* and the git working tree.  A command is one synchronous handler call;   *)
(* candidate.patch files are rewritten by dispatches at any moment.  Each  *)
(* sandbox's patches touch a file of its own; an edit is a sandbox with    *)
(* the version of its candidate.                                           *)
(* Source: src/telegram/handlers.js, opencode-patch-preview.js,            *)
(* opencode-patch-approval.js, opencode-apply*.js, opencode-gates.js,      *)
(* opencode-commit*.js, opencode-push*.js, approval-adapter.js.            *)
(***************************************************************************)
EXTENDS Naturals, Sequences, FiniteSets

CONSTANTS
    Boxes,
    NewFile,       \* boxes whose patches create their file
    Rewritten,     \* boxes whose candidate a second dispatch writes anew
    CommitIds,     \* ids of commit approvals; they may come again, for ids are
                   \* stamped to the second.  A patch approval's id is its box:
                   \* the operator may pass it
    MaxCommits

Edits == Boxes \X {1, 2}

VARIABLES
    candidate,     \* the version in each sandbox's candidate.patch, 0 for none
    record,        \* approval records by id
    tree, idx,     \* edits in the working tree; those of them that are staged
    trunk,         \* the commits made, as sets of edits
    origin,        \* commits on origin's branch
    shown,         \* what people read in a record when they approved it
    gated          \* edits the gates have passed on

gitVars == <<tree, idx, trunk>>
chainVars == <<candidate, record, gitVars, origin, shown, gated>>

Git == INSTANCE SharedRepository WITH
    Stories <- Edits, NewFile <- NewFile \X {1, 2}, wt <- tree,
    branch <- [e \in Edits |-> {}], pushed <- {}, prs <- {}

PushId == "push"
Ids == Boxes \cup CommitIds \cup {PushId}

\* APR-OPENCODE-COMMIT-, APR-OPENCODE-PUSH-; an operator's own id is neither.
ASSUME ChainAssumption ==
    /\ NewFile \subseteq Boxes /\ Rewritten \subseteq Boxes /\ MaxCommits \in Nat
    /\ Boxes \cap CommitIds = {} /\ PushId \notin Boxes \cup CommitIds

Asked(kind, what, hash) ==
    [status |-> "pending", kind |-> kind, what |-> what, hash |-> hash]

FileOf(box, edits) == {e \in edits : e[1] = box}
Candidate(box) == <<box, candidate[box]>>

-----------------------------------------------------------------------------
(* Approvals                                                               *)

\* A dispatch of the daemon writes the sandbox's candidate anew.
Redispatch(box) ==
    /\ candidate[box] < IF box \in Rewritten THEN 2 ELSE 1
    /\ candidate' = [candidate EXCEPT ![box] = @ + 1]
    /\ UNCHANGED <<record, gitVars, origin, shown, gated>>

\* previewOpenCodeCandidatePatch, then createOpenCodePatchPreviewApproval.
PatchApproval(box) ==
    /\ candidate[box] > 0
    /\ record' = [record EXCEPT ![box] = Asked("patch", Candidate(box), {})]
    /\ UNCHANGED <<candidate, gitVars, origin, shown, gated>>

\* approveFromTelegram, denyFromTelegram and modifyFromTelegram: a pending record
\* gets its status; whoever decides is shown the record of that moment.
Decide(id, verdict) ==
    /\ record[id].status = "pending"
    /\ record' = [record EXCEPT ![id].status = verdict]
    /\ shown' = IF verdict = "approved"
                THEN shown \cup {<<record[id].kind, record[id].what>>} ELSE shown
    /\ UNCHANGED <<candidate, gitVars, origin, gated>>

Approved(id) == record[id].status = "approved"

-----------------------------------------------------------------------------
(* Apply and gates                                                         *)

\* Two versions of a candidate edit the same lines; a created file may not exist.
\* The variant looks at the commits alone.
AppliesToHead(e) == e \notin Git!InTrunk
AppliesCleanly(e) ==
    /\ FileOf(e[1], tree) = {} /\ e \notin Git!InTrunk
    /\ e[1] \in NewFile => FileOf(e[1], Git!InTrunk) = {}

\* The candidate is still the approved one.  The variant trusts the approval.
AnyCandidate(box) == candidate[box] > 0
SameCandidate(box) == record[box].what = Candidate(box)

Apply(box) ==
    /\ Approved(box) /\ SameCandidate(box)
    /\ AppliesCleanly(Candidate(box))
    /\ tree' = tree \cup {Candidate(box)}
    /\ UNCHANGED <<candidate, record, idx, trunk, origin, shown, gated>>

\* changedFilesFromTouched: the touched file exists, applied or not.
FilesPresent(box) ==
    box \in NewFile => FileOf(box, tree \cup Git!InTrunk) # {}

\* runOpenCodeAppliedPatchGates: what passes leaves no trace but the reply.
Gates(box) ==
    /\ Approved(box) /\ SameCandidate(box) /\ FilesPresent(box)
    /\ gated' = gated \cup tree
    /\ UNCHANGED <<candidate, record, gitVars, origin, shown>>

-----------------------------------------------------------------------------
(* Commit                                                                  *)

CommitApproval(box, id) ==
    /\ Approved(box) /\ SameCandidate(box) /\ FilesPresent(box)
    /\ record' = [record EXCEPT ![id] = Asked("commit", box, Git!DiffHash)]
    /\ UNCHANGED <<candidate, gitVars, origin, shown, gated>>

\* git add -- <approved files>.  The variant stages everything.
StagedAll(box) == tree
Staged(box) == idx \cup FileOf(box, tree)

\* opencodeCommitPreflight, git add, then git commit of the whole index, which may
\* fail, or find nothing, and leave the files staged.
Commit(id) ==
    /\ Approved(id)
    /\ record[id].hash = Git!DiffHash /\ FilesPresent(record[id].what)
    /\ LET staged == Staged(record[id].what) IN
       \/ /\ staged # {} /\ Len(trunk) < MaxCommits
          /\ trunk' = Append(trunk, staged)
          /\ tree' = tree \ staged /\ idx' = {}
       \/ idx' = staged /\ UNCHANGED <<tree, trunk>>
    /\ UNCHANGED <<candidate, record, origin, shown, gated>>

-----------------------------------------------------------------------------
(* Push                                                                    *)

Clean == tree = {}

PushApproval ==
    /\ trunk # <<>> /\ Clean
    /\ record' = [record EXCEPT ![PushId] = Asked("push", Len(trunk), {})]
    /\ UNCHANGED <<candidate, gitVars, origin, shown, gated>>

\* opencodePushPreflight resolves the branch again.  The variant pushes whatever
\* the branch has become.
AnyTip == trunk # <<>>
ApprovedTip == record[PushId].what = Len(trunk)

\* A push may reach origin although it reports a failure.
Push ==
    /\ Approved(PushId) /\ ApprovedTip /\ Clean
    /\ origin' \in {origin, Len(trunk)}
    /\ UNCHANGED <<candidate, record, gitVars, shown, gated>>

-----------------------------------------------------------------------------
ChainInit ==
    /\ candidate = [b \in Boxes |-> 0]
    /\ record = [i \in Ids |-> [status |-> "none"]]
    /\ tree = {} /\ idx = {} /\ trunk = <<>>
    /\ origin = 0 /\ shown = {} /\ gated = {}

\* Any command at any moment, and again: Telegram delivers an update a second time
\* when the bot dies before it saves its offset (TelegramBot).  A command that is
\* refused, or whose tool fails before it changes anything, is no step.
ChainNext ==
    \/ \E b \in Boxes :
         Redispatch(b) \/ PatchApproval(b) \/ Apply(b) \/ Gates(b)
         \/ \E id \in CommitIds : CommitApproval(b, id)
    \/ \E id \in Ids, verdict \in {"approved", "denied", "superseded"} : Decide(id, verdict)
    \/ \E id \in CommitIds : Commit(id)
    \/ PushApproval \/ Push

ChainSpec == ChainInit /\ [][ChainNext]_chainVars

-----------------------------------------------------------------------------
Committed == Git!InTrunk

\* Shapes; at most one version of a candidate is in the working tree, and what is
\* staged is there.
ChainTypeOK ==
    /\ candidate \in [Boxes -> 0..2]
    /\ tree \subseteq Edits /\ idx \subseteq tree
    /\ \A e, f \in tree : e[1] = f[1] => e = f
    /\ trunk \in Seq(SUBSET Edits) /\ origin \in 0..Len(trunk)
    /\ gated \subseteq Edits

\* Every edit in the working tree or in a commit is one that a person was shown
\* and approved for apply, whatever dispatches, repeated commands and re-used
\* record ids did meanwhile (opencode-apply-preflight.js:65-110).
OnlyShownApplied == \A e \in tree \cup Committed : <<"patch", e>> \in shown

\* No commit carries an edit of a sandbox whose commit nobody approved, although
\* git commit takes the whole index (opencode-commit.js:119-158).
CommitsApproved == \A e \in Committed : <<"commit", e[1]>> \in shown

\* Origin's branch is at a commit that was approved for push, though commits go on
\* between approval and push (opencode-push.js:62-105).
OriginApproved == origin > 0 => <<"push", origin>> \in shown

\* No edit is committed before the gates passed on it
\* (docs/opencode-external-agent-gateway-boundary.md:71, "local gates required
\* before commit").
CommitsGated == Committed \subseteq gated
=============================================================================
