--------------------------- MODULE RalphLoopProofs ---------------------------
(***************************************************************************)
(* Proofs about the autonomous loop for every set of stories and every     *)
(* choice of faults, operator moves, modes and crashes: the types of its   *)
(* state; the critical section around the working tree; how a story's      *)
(* phase, approval, attempts and tree stay in step; and, for every plan,   *)
(* the risk decision that starts a story.                                  *)
(***************************************************************************)
EXTENDS RalphLoopProperties, RiskControl, FiniteSetTheorems, SequenceTheorems,
        WellFoundedInduction, TLAPS

-----------------------------------------------------------------------------
(* Shapes of patches, records and selections.                              *)

LEMMA StatusType ==
    ASSUME NEW p \in Phases
    PROVE  StatusOf(p) \in Statuses
  BY DEF StatusOf, Statuses

LEMMA PatchType ==
    ASSUME StoryTypeOK, NEW s \in Stories, NEW p \in Phases
    PROVE  /\ ToPhase(s, p) \in Patches
           /\ Unblocked(s, p) \in Patches
  <1>1. Kept \in Records
    BY DEF Kept, Record, Records, Actions
  <1>2. /\ attempts[s] \in Nat /\ repairs[s] \in Nat
        /\ backoff[s] \in BOOLEAN /\ unrolled[s] \in BOOLEAN
    BY DEF StoryTypeOK
  <1>3. StatusOf(p) \in Statuses
    BY StatusType
  <1>4. ToPhase(s, p) \in Patches
    BY <1>1, <1>2, <1>3 DEF ToPhase, Patches
  <1>5. QED
    BY <1>4 DEF Unblocked, Patches

LEMMA NoPatchType == NoPatch \in Patches
  BY DEF NoPatch, Patches, Kept, Record, Records, Actions

LEMMA RecordType ==
    /\ {NoRecord, DispatchApproval, PatchApproval, PushApproval, PrApproval}
         \subseteq Records
    /\ DiffHash \in SUBSET Stories => CommitApproval \in Records
  BY DEF NoRecord, DispatchApproval, PatchApproval, PushApproval, PrApproval,
     CommitApproval, Pending, Record, Records, Actions

LEMMA CurrentType ==
    ASSUME DaemonTypeOK, pc # "idle"
    PROVE  Current \in Stories /\ Len(queue) \in Nat \ {0}
  BY DEF DaemonTypeOK, Current

LEMMA PoolFinite ==
    /\ IsFiniteSet(Selectable)
    /\ Cardinality(Selectable) \in Nat
    /\ Selectable # {} => Cardinality(Selectable) > 0
    /\ IsFiniteSet(Holders)
    /\ Cardinality(Holders) \in Nat
    /\ Holders # {} => Cardinality(Holders) > 0
  <1>1. IsFiniteSet(Stories)
    BY LoopAssumption
  <1>2. Selectable \in SUBSET Stories /\ Holders \in SUBSET Stories
    BY DEF Holders, Selectable, Listed
  <1>3. IsFiniteSet(Selectable) /\ IsFiniteSet(Holders)
    BY <1>1, <1>2, FS_Subset
  <1>4. QED
    BY <1>3, FS_CardinalityType, FS_EmptySet

LEMMA SelectionType ==
    ASSUME Selectable # {}, NEW q \in Selections
    PROVE  /\ q \in Seq(Stories) /\ q # <<>>
           /\ Len(q) = SelectionSize
           /\ Holders # {} => SelectionSize = 1 /\ q[1] \in Holders
           /\ SelectionSize <= Limit
  <1>1. Limit \in Nat \ {0}
    BY LoopAssumption
  <1>2. /\ SelectionSize \in Nat \ {0} /\ SelectionSize <= Limit
        /\ Holders # {} => SelectionSize = 1
    BY <1>1, PoolFinite DEF SelectionSize
  <1>3. q \in [1..SelectionSize -> Stories]
    BY DEF Selections, Holders, Selectable, Listed
  <1>4. q \in Seq(Stories) /\ Len(q) = SelectionSize
    BY <1>2, <1>3
  <1>5. Holders # {} => q \in [1..SelectionSize -> Holders]
    BY DEF Selections
  <1>6. QED
    BY <1>2, <1>4, <1>5

-----------------------------------------------------------------------------
(* What the common parts of the ticks do to the types.                     *)

LEMMA ThenSaveType ==
    ASSUME StoryTypeOK, DaemonTypeOK, pc # "idle",
           NEW u \in Patches, ThenSave(u)
    PROVE  StoryTypeOK' /\ DaemonTypeOK' /\ UNCHANGED crashes
  BY DEF StoryTypeOK, DaemonTypeOK, ThenSave, storyVars, Labels

LEMMA GotoType ==
    ASSUME StoryTypeOK, DaemonTypeOK, pc # "idle",
           NEW label \in Labels \ {"idle"}, Goto(label)
    PROVE  StoryTypeOK' /\ DaemonTypeOK' /\ UNCHANGED crashes
  BY DEF StoryTypeOK, DaemonTypeOK, Goto, storyVars

LEMMA ContinueType ==
    ASSUME DaemonTypeOK, pc # "idle", NEW again \in BOOLEAN, Continue(again)
    PROVE  DaemonTypeOK'
  <1>1. /\ queue \in Seq(Stories) /\ queue # <<>>
        /\ Len(queue) \in Nat \ {0}
        /\ Tail(queue) \in Seq(Stories)
        /\ Len(queue) > 1 <=> Tail(queue) # <<>>
    <2>1. queue \in Seq(Stories) /\ queue # <<>>
      BY DEF DaemonTypeOK
    <2>2. /\ Tail(queue) \in Seq(Stories)
          /\ Len(Tail(queue)) = Len(queue) - 1
      BY <2>1, HeadTailProperties
    <2>3. Len(queue) \in Nat \ {0}
      BY <2>1, EmptySeq
    <2>4. Tail(queue) = <<>> <=> Len(Tail(queue)) = 0
      BY <2>2, EmptySeq
    <2>5. Len(queue) > 1 <=> Len(Tail(queue)) # 0
      BY <2>2, <2>3
    <2>6. QED
      BY <2>1, <2>2, <2>3, <2>4, <2>5
  <1>2. TicksPerStory \in Nat \ {0}
    BY LoopAssumption
  <1>3. upd' \in Patches
    BY NoPatchType DEF Continue
  <1>4. CASE again /\ left > 1
    BY <1>1, <1>2, <1>3, <1>4 DEF Continue, DaemonTypeOK, Labels
  <1>5. CASE ~(again /\ left > 1)
    <2>1. /\ queue' = Tail(queue) /\ left' = TicksPerStory
          /\ pc' = IF Len(queue) > 1 THEN "tick" ELSE "idle"
      BY <1>5 DEF Continue
    <2>2. pc' \in {"tick", "idle"} /\ (pc' = "idle" <=> queue' = <<>>)
      BY <1>1, <2>1
    <2>3. QED
      BY <1>1, <1>2, <1>3, <2>1, <2>2 DEF DaemonTypeOK, Labels
  <1>6. QED
    BY <1>4, <1>5

LEMMA NoProgressType ==
    ASSUME StoryTypeOK, DaemonTypeOK, pc # "idle", NoProgress
    PROVE  StoryTypeOK' /\ DaemonTypeOK' /\ UNCHANGED crashes
  <1>1. DaemonTypeOK'
    BY ContinueType DEF NoProgress
  <1>2. StoryTypeOK' /\ UNCHANGED crashes
    BY DEF NoProgress, StoryTypeOK, storyVars
  <1>3. QED
    BY <1>1, <1>2

LEMMA AutoApproveType ==
    ASSUME GateTypeOK, NEW s \in Stories, AutoApprove(s),
           UNCHANGED <<resume, fullauto>>
    PROVE  GateTypeOK'
  <1>1. appr' \in [Stories -> Records]
    BY DEF GateTypeOK, AutoApprove, Records
  <1>2. reviewed' \in [Stories -> BOOLEAN]
    BY DEF GateTypeOK, AutoApprove
  <1>3. QED
    BY <1>1, <1>2 DEF GateTypeOK

LEMMA TouchedType ==
    ASSUME StoryTypeOK, NEW s \in Stories
    PROVE  Touched(s) \in [Stories -> SUBSET Stories]
  BY DEF StoryTypeOK, Touched

LEMMA GatesUnchanged ==
    ASSUME GateTypeOK, UNCHANGED gateVars
    PROVE  GateTypeOK'
  BY DEF GateTypeOK, gateVars

LEMMA RepoUnchanged ==
    ASSUME RepoTypeOK, UNCHANGED repoVars
    PROVE  RepoTypeOK'
  BY DEF RepoTypeOK, repoVars

LEMMA SavePatchType ==
    ASSUME TypeOK, pc # "idle", NEW u \in Patches, ThenSave(u),
           RepoTypeOK', GateTypeOK'
    PROVE  TypeOK'
  BY ThenSaveType DEF TypeOK

-----------------------------------------------------------------------------
(* One lemma per group of actions: types are preserved.                    *)

LEMMA InitType == Init => TypeOK
  <1> SUFFICES ASSUME Init PROVE TypeOK
    OBVIOUS
  <1>1. RepoTypeOK
    BY EmptySeq DEF Init, RepoInit, RepoTypeOK
  <1>2. newer \in [Stories -> SUBSET Stories]
    BY DEF Init
  <1>3. StoryTypeOK
    BY <1>2 DEF Init, StoryTypeOK, Phases, Statuses
  <1>4. GateTypeOK
    <2>1. NoRecord \in Records
      BY RecordType
    <2>2. fullauto \in BOOLEAN
      BY LoopAssumption DEF Init
    <2>3. QED
      BY <2>1, <2>2 DEF Init, GateTypeOK
  <1>5. DaemonTypeOK
    BY EmptySeq, NoPatchType, LoopAssumption DEF Init, DaemonTypeOK, Labels
  <1>6. crashes \in 0..MaxCrashes
    BY LoopAssumption DEF Init
  <1>7. QED
    BY <1>1, <1>3, <1>4, <1>5, <1>6 DEF TypeOK

LEMMA StartCycleType == TypeOK /\ StartCycle => TypeOK'
  <1> SUFFICES ASSUME TypeOK, StartCycle PROVE TypeOK'
    OBVIOUS
  <1>1. queue' \in Seq(Stories) /\ queue' # <<>>
    BY SelectionType DEF StartCycle
  <1>2. DaemonTypeOK'
    BY <1>1, LoopAssumption DEF StartCycle, TypeOK, DaemonTypeOK, Labels
  <1>3. RepoTypeOK' /\ GateTypeOK'
    BY RepoUnchanged, GatesUnchanged DEF StartCycle, TypeOK
  <1>4. StoryTypeOK' /\ crashes' \in 0..MaxCrashes
    BY DEF StartCycle, TypeOK, StoryTypeOK, storyVars
  <1>5. QED
    BY <1>2, <1>3, <1>4 DEF TypeOK

LEMMA SaveType == TypeOK /\ Save => TypeOK'
  <1> SUFFICES ASSUME TypeOK, Save PROVE TypeOK'
    OBVIOUS
  <1>1. pc # "idle" /\ Current \in Stories
    BY CurrentType DEF Save, TypeOK
  <1>2. upd \in Patches
    BY DEF TypeOK, DaemonTypeOK
  <1>3. StoryTypeOK'
    BY <1>1, <1>2, TouchedType DEF Save, TypeOK, StoryTypeOK, Patches
  <1>4. GateTypeOK'
    BY <1>1, <1>2 DEF Save, TypeOK, GateTypeOK, Patches
  <1>5. RepoTypeOK'
    BY RepoUnchanged DEF Save, TypeOK
  <1>6. DaemonTypeOK'
    <2>1. CASE upd.then \in {"fallback", "push"}
      BY <1>1, <2>1, NoPatchType DEF Save, TypeOK, DaemonTypeOK, Labels
    <2>2. CASE upd.then \notin {"fallback", "push"}
      BY <1>1, <2>2, ContinueType DEF Save, TypeOK
    <2>3. QED
      BY <2>1, <2>2
  <1>7. QED
    BY <1>3, <1>4, <1>5, <1>6 DEF Save, TypeOK

LEMMA QuietTickType ==
    TypeOK /\ (TickTerminal \/ ConsumeResume \/ TickPlan \/ TickWaiting
               \/ TickBoundary \/ InnerBoundary) => TypeOK'
  <1> SUFFICES ASSUME TypeOK,
                      TickTerminal \/ ConsumeResume \/ TickPlan
                      \/ TickWaiting \/ TickBoundary \/ InnerBoundary
               PROVE  TypeOK'
    OBVIOUS
  <1>1. pc # "idle" /\ Current \in Stories
    BY CurrentType DEF TypeOK, TickTerminal, ConsumeResume, TickPlan,
       TickWaiting, TickBoundary, InnerBoundary, Ticking
  <1>2. RepoTypeOK'
    BY RepoUnchanged DEF TypeOK, TickTerminal, ConsumeResume, TickPlan,
       TickWaiting, TickBoundary, InnerBoundary
  <1>3. \A p : InnerResume(p) \in Phases /\ WiredResume(p) \in Phases
    BY DEF InnerResume, WiredResume, Phases, WaitingPhases, CriticalPhases,
       TerminalPhases
  <1>4. CASE TickTerminal
    BY <1>1, <1>2, <1>4, NoProgressType, GatesUnchanged
    DEF TickTerminal, TypeOK
  <1>5. CASE ConsumeResume
    <2> DEFINE u == [Unblocked(Current, "PLAN_APPROVAL_PENDING") EXCEPT
                       !.status = "queued", !.attempts = 0, !.appr = NoRecord]
    <2>1. Unblocked(Current, "PLAN_APPROVAL_PENDING") \in Patches
      BY <1>1, PatchType DEF TypeOK, Phases, WaitingPhases
    <2>2. u \in Patches
      BY <2>1, RecordType DEF Patches, Statuses
    <2>3. GateTypeOK'
      BY <1>1, <1>5 DEF ConsumeResume, TypeOK, GateTypeOK
    <2>4. QED
      BY <1>1, <1>2, <1>5, <2>2, <2>3, SavePatchType DEF ConsumeResume
  <1>6. CASE TickPlan
    <2>1. PICK p \in PlanDecisions : ThenSave(Unblocked(Current, p))
      BY <1>6 DEF TickPlan
    <2>2. Unblocked(Current, p) \in Patches
      BY <1>1, PatchType, LoopAssumption
      DEF TypeOK, Phases, WaitingPhases, TerminalPhases
    <2>3. GateTypeOK'
      BY <1>6, GatesUnchanged DEF TickPlan, TypeOK
    <2>4. QED
      BY <1>1, <1>2, <2>1, <2>2, <2>3, SavePatchType
  <1>7. ASSUME AutoApprove(Current), UNCHANGED <<resume, fullauto>>,
               NEW p \in Phases,
               \/ ThenSave(Unblocked(Current, p))
               \/ NoProgress
               \/ Goto("inner")
        PROVE  TypeOK'
    <2>1. GateTypeOK'
      BY <1>1, <1>7, AutoApproveType DEF TypeOK
    <2>2. Unblocked(Current, p) \in Patches
      BY <1>1, PatchType DEF TypeOK
    <2>3. StoryTypeOK' /\ DaemonTypeOK' /\ UNCHANGED crashes
      BY <1>1, <1>7, <2>2, ThenSaveType, NoProgressType, GotoType
      DEF TypeOK, Labels
    <2>4. QED
      BY <1>2, <2>1, <2>3 DEF TypeOK
  <1>8. CASE TickWaiting
    BY <1>3, <1>7, <1>8 DEF TickWaiting
  <1>9. CASE TickBoundary
    BY <1>3, <1>7, <1>9 DEF TickBoundary
  <1>10. CASE InnerBoundary
    <2>1. CASE Halted(Current)
      BY <1>1, <1>2, <1>10, <2>1, NoProgressType
      DEF InnerBoundary, TypeOK, GateTypeOK
    <2>2. CASE ~Halted(Current)
      BY <1>3, <1>7, <1>10, <2>2 DEF InnerBoundary
    <2>3. QED
      BY <2>1, <2>2
  <1>11. QED
    BY <1>4, <1>5, <1>6, <1>8, <1>9, <1>10

LEMMA DispatchType ==
    TypeOK /\ (TickDispatch \/ AfterDispatchFailure \/ TickPreview
               \/ TickFixLoop) => TypeOK'
  <1> SUFFICES ASSUME TypeOK,
                      TickDispatch \/ AfterDispatchFailure \/ TickPreview
                      \/ TickFixLoop
               PROVE  TypeOK'
    OBVIOUS
  <1>1. pc # "idle" /\ Current \in Stories
    BY CurrentType
    DEF TypeOK, TickDispatch, AfterDispatchFailure, TickPreview, TickFixLoop,
        Ticking
  <1>2. RepoTypeOK'
    BY RepoUnchanged
    DEF TypeOK, TickDispatch, AfterDispatchFailure, TickPreview, TickFixLoop
  <1>3. \A p \in Phases : /\ ToPhase(Current, p) \in Patches
                          /\ Unblocked(Current, p) \in Patches
    BY <1>1, PatchType DEF TypeOK
  <1>4. {"PATCH_PREVIEW", "OPENCODE_RUNNING", "ESCALATED",
         "DIFF_APPROVAL_PENDING"} \subseteq Phases
    BY DEF Phases, WaitingPhases, TerminalPhases
  <1>5. CASE TickDispatch
    <2>1. PICK ok \in Succeeds("dispatch"), wait \in BOOLEAN :
            /\ ThenSave(IF ok
                        THEN [Unblocked(Current, "PATCH_PREVIEW") EXCEPT
                                !.appr = DispatchApproval]
                        ELSE [ToPhase(Current, "OPENCODE_RUNNING") EXCEPT
                                !.backoff = wait, !.appr = DispatchApproval,
                                !.then = "fallback"])
            /\ reviewed' = [reviewed EXCEPT ![Current] = ~ok /\ @]
      BY <1>5 DEF TickDispatch
    <2>2. DispatchApproval \in Records
      BY RecordType
    <2>3. [Unblocked(Current, "PATCH_PREVIEW") EXCEPT !.appr = DispatchApproval] \in Patches
      <3>1. Unblocked(Current, "PATCH_PREVIEW") \in Patches
        BY <1>3, <1>4
      <3>2. QED
        BY <2>2, <3>1 DEF Patches
    <2>4. [ToPhase(Current, "OPENCODE_RUNNING") EXCEPT
             !.backoff = wait, !.appr = DispatchApproval, !.then = "fallback"] \in Patches
      <3>1. ToPhase(Current, "OPENCODE_RUNNING") \in Patches
        BY <1>3, <1>4
      <3>2. QED
        BY <2>2, <3>1 DEF Patches
    <2>5. GateTypeOK'
      BY <1>1, <1>5, <2>1 DEF TickDispatch, TypeOK, GateTypeOK
    <2>6. QED
      BY <1>1, <1>2, <2>1, <2>3, <2>4, <2>5, SavePatchType
  <1>6. CASE AfterDispatchFailure
    <2> DEFINE n == attempts[Current] + 1
    <2>1. n \in Nat
      BY <1>1 DEF TypeOK, StoryTypeOK
    <2>2. attempts[Current] \in Nat /\ repairs[Current] \in Nat
          /\ backoff[Current] \in BOOLEAN /\ unrolled[Current] \in BOOLEAN
      BY <1>1 DEF TypeOK, StoryTypeOK
    <2>3. [ToPhase(Current, "keep") EXCEPT
             !.status = "keep", !.attempts = n, !.then = "break"] \in Patches
      BY <2>1, <2>2 DEF ToPhase, Patches, Kept, Record, Records, Actions
    <2>4. [Unblocked(Current, "ESCALATED") EXCEPT !.attempts = n] \in Patches
      BY <1>3, <1>4, <2>1 DEF Patches
    <2>5. GateTypeOK'
      BY <1>1, <1>6 DEF AfterDispatchFailure, TypeOK, GateTypeOK
    <2>6. QED
      BY <1>1, <1>2, <1>3, <1>4, <1>6, <2>3, <2>4, <2>5, SavePatchType
      DEF AfterDispatchFailure
  <1>7. CASE TickPreview
    <2>1. PatchApproval \in Records
      BY RecordType
    <2>2. [Unblocked(Current, "DIFF_APPROVAL_PENDING") EXCEPT
             !.appr = PatchApproval] \in Patches
      BY <1>3, <1>4, <2>1 DEF Patches
    <2>3. GateTypeOK'
      BY <1>7, GatesUnchanged DEF TickPreview, TypeOK
    <2>4. QED
      BY <1>1, <1>2, <1>3, <1>4, <1>7, <2>2, <2>3, SavePatchType
      DEF TickPreview
  <1>8. CASE TickFixLoop
    <2>1. GateTypeOK'
      BY <1>8, GatesUnchanged DEF TickFixLoop, TypeOK
    <2>2. QED
      BY <1>1, <1>2, <1>3, <1>4, <1>8, <2>1, SavePatchType DEF TickFixLoop
  <1>9. QED
    BY <1>5, <1>6, <1>7, <1>8

\* The effects on the repository keep its shape.
LEMMA TreeEffects ==
    ASSUME RepoTypeOK, NEW s \in Stories, NEW tree \in SUBSET Stories
    PROVE  /\ \A b \in Rollbacks(tree, s) :
                b.tree \in SUBSET Stories /\ b.bad \in BOOLEAN
           /\ Staged(s) \in SUBSET Stories
           /\ InTrunk \in SUBSET Stories
           /\ DiffHash \in SUBSET Stories
           /\ CommitIndex => trunk' \in Seq(SUBSET Stories)
           /\ ResetToParent => trunk' \in Seq(SUBSET Stories)
  <1>1. trunk \in Seq(SUBSET Stories) /\ idx \in SUBSET Stories
    BY DEF RepoTypeOK
  <1>2. \A i \in 1..Len(trunk) : trunk[i] \in SUBSET Stories
    BY <1>1, ElementOfSeq
  <1>3. InTrunk \in SUBSET Stories
    BY <1>2 DEF InTrunk
  <1>4. CommitIndex => trunk' \in Seq(SUBSET Stories)
    BY <1>1, AppendProperties DEF CommitIndex
  <1>5. SubSeq(trunk, 1, Len(trunk) - 1) \in Seq(SUBSET Stories)
    BY <1>1, <1>2, LenProperties, SubSeqProperties
  <1>6. QED
    BY <1>1, <1>3, <1>4, <1>5
    DEF Rollbacks, RolledBack, Staged, DiffHash, ResetToParent, RepoTypeOK

\* A rollback takes files out of the tree, however it ends.
LEMMA TreeShrinks ==
    /\ \A s : CommitFailed(s) => wt' \subseteq wt
    /\ TickGates => wt' \subseteq wt
  <1>1. \A tree, s : \A r \in Rollbacks(tree, s) : r.tree \subseteq tree
    BY DEF Rollbacks, RolledBack
  <1>2. \A s : CommitFailed(s) => wt' \subseteq wt
    BY <1>1 DEF CommitFailed
  <1>3. ASSUME TickGates PROVE wt' \subseteq wt
    BY <1>1, <1>3 DEF TickGates
  <1>4. QED
    BY <1>2, <1>3

LEMMA RetryType ==
    ASSUME TypeOK, pc # "idle", NEW s \in Stories, NEW bad \in BOOLEAN,
           RepoTypeOK', GateTypeOK', Retry(s, bad) \/ GiveUp(s, bad)
    PROVE  TypeOK'
  <1>1. /\ ToPhase(s, "FIX_LOOP") \in Patches
        /\ ToPhase(s, "ESCALATED") \in Patches
    BY PatchType DEF TypeOK, Phases, TerminalPhases
  <1>2. ASSUME NEW u \in Patches
        PROVE  [u EXCEPT !.attempts = @ + 1, !.unrolled = bad] \in Patches
    <2>1. u.attempts + 1 \in Nat
      BY DEF Patches
    <2>2. QED
      BY <2>1 DEF Patches
  <1>3. QED
    BY <1>1, <1>2, SavePatchType DEF Retry, GiveUp

LEMMA TreeTickType ==
    TypeOK /\ (TickApply \/ TickGates \/ TickCommit \/ Commit \/ Promote
               \/ Rewind \/ EnsurePushApproval) => TypeOK'
  <1> SUFFICES ASSUME TypeOK,
                      TickApply \/ TickGates \/ TickCommit \/ Commit
                      \/ Promote \/ Rewind \/ EnsurePushApproval
               PROVE  TypeOK'
    OBVIOUS
  <1> DEFINE s == Current
  <1>1. pc # "idle" /\ s \in Stories
    BY CurrentType
    DEF TypeOK, TickApply, TickGates, TickCommit, Commit, Promote, Rewind,
        EnsurePushApproval, Ticking
  <1>2. GateTypeOK'
    BY GatesUnchanged
    DEF TypeOK, TickApply, TickGates, TickCommit, Commit, CommitFailed,
        Promote, Rewind, EnsurePushApproval
  <1>3. \A p \in Phases : /\ ToPhase(s, p) \in Patches
                          /\ Unblocked(s, p) \in Patches
    BY <1>1, PatchType DEF TypeOK
  <1>4. {"GATES", "ESCALATED", "COMMIT_APPROVAL_PENDING",
         "PUSH_APPROVAL_PENDING"} \subseteq Phases
    BY DEF Phases, WaitingPhases, TerminalPhases, CriticalPhases
  <1>5. /\ wt \in SUBSET Stories /\ wt \cup {s} \in SUBSET Stories
        /\ RepoTypeOK
    BY <1>1 DEF TypeOK, RepoTypeOK
  <1>r. \A tree \in SUBSET Stories : \A r \in Rollbacks(tree, s) :
          r.tree \in SUBSET Stories /\ r.bad \in BOOLEAN
    BY <1>1, <1>5, TreeEffects
  <1>6. CASE TickApply
    <2>1. wt' \in SUBSET Stories
      BY <1>5, <1>r, <1>6 DEF TickApply
    <2>2. RepoTypeOK'
      BY <1>5, <1>6, <2>1 DEF TickApply, RepoTypeOK
    <2>3. ASSUME NEW bad \in BOOLEAN, RetryOrEscalate(s, bad)
          PROVE  TypeOK'
      BY <1>1, <1>2, <2>2, <2>3, RetryType DEF RetryOrEscalate
    <2>4. QED
      BY <1>1, <1>2, <1>3, <1>4, <1>5, <1>r, <1>6, <2>2, <2>3, SavePatchType
      DEF TickApply
  <1>7. CASE TickGates
    <2>c. \/ /\ ThenSave([Unblocked(s, "COMMIT_APPROVAL_PENDING") EXCEPT
                            !.appr = CommitApproval])
             /\ wt' = wt
          \/ ThenSave(ToPhase(s, "ESCALATED")) /\ wt' = wt
          \/ \E r \in Rollbacks(wt, s) : wt' = r.tree /\ RepairDecision(s, r.bad)
          \/ wt' = wt /\ RepairDecision(s, FALSE)
      BY <1>7 DEF TickGates
    <2>d. wt' \in SUBSET Stories
      BY <1>5, <1>r, <2>c
    <2>1. RepoTypeOK'
      BY <1>5, <1>7, <2>d DEF TickGates, RepoTypeOK
    <2>2. CommitApproval \in Records
      BY <1>1, <1>5, TreeEffects, RecordType
    <2>3. [Unblocked(s, "COMMIT_APPROVAL_PENDING") EXCEPT
             !.appr = CommitApproval] \in Patches
      BY <1>3, <1>4, <2>2 DEF Patches
    <2>4. ASSUME NEW bad \in BOOLEAN, RepairDecision(s, bad)
          PROVE  TypeOK'
      BY <1>1, <1>2, <2>1, <2>4, RetryType DEF RepairDecision
    <2>5. CASE \/ ThenSave([Unblocked(s, "COMMIT_APPROVAL_PENDING") EXCEPT
                              !.appr = CommitApproval])
               \/ ThenSave(ToPhase(s, "ESCALATED"))
      BY <1>1, <1>2, <1>3, <1>4, <2>1, <2>3, <2>5, SavePatchType
    <2>6. CASE \/ \E r \in Rollbacks(wt, s) : RepairDecision(s, r.bad)
               \/ RepairDecision(s, FALSE)
      BY <1>5, <1>r, <2>4, <2>6
    <2>7. QED
      BY <2>c, <2>5, <2>6
  <1>8. ASSUME CommitFailed(s), UNCHANGED <<pushed, prs>>
        PROVE  TypeOK'
    <2>1. PICK r \in Rollbacks(wt, s) :
            /\ wt' = r.tree
            /\ ThenSave([ToPhase(s, "ESCALATED") EXCEPT !.unrolled = r.bad])
      BY <1>8 DEF CommitFailed
    <2>2. r.tree \in SUBSET Stories /\ r.bad \in BOOLEAN
      BY <1>5, <1>r
    <2>3. RepoTypeOK'
      BY <1>5, <1>8, <2>1, <2>2 DEF CommitFailed, RepoTypeOK
    <2>4. [ToPhase(s, "ESCALATED") EXCEPT !.unrolled = r.bad] \in Patches
      BY <1>3, <1>4, <2>2 DEF Patches
    <2>5. QED
      BY <1>1, <1>2, <2>1, <2>3, <2>4, SavePatchType
  <1>9. ASSUME NEW label \in Labels \ {"idle"}, Goto(label), RepoTypeOK'
        PROVE  TypeOK'
    BY <1>1, <1>2, <1>9, GotoType DEF TypeOK
  <1>10. CASE TickCommit
    <2>1. CASE CommitFailed(s)
      BY <1>8, <1>10, <2>1 DEF TickCommit
    <2>2. CASE idx' = Staged(s) /\ Goto("staged") /\ UNCHANGED <<wt, trunk, branch>>
      <3>1. RepoTypeOK'
        BY <1>1, <1>5, <1>10, <2>2, TreeEffects DEF TickCommit, RepoTypeOK
      <3>2. QED
        BY <1>9, <2>2, <3>1 DEF Labels
    <2>3. QED
      BY <1>10, <2>1, <2>2 DEF TickCommit
  <1>11. CASE Commit
    <2>1. CASE CommitFailed(s)
      BY <1>8, <1>11, <2>1 DEF Commit
    <2>2. CASE CommitIndex /\ Goto("committed") /\ UNCHANGED branch
      <3>1. RepoTypeOK'
        BY <1>1, <1>5, <1>11, <2>2, TreeEffects
        DEF Commit, CommitIndex, RepoTypeOK
      <3>2. QED
        BY <1>9, <2>2, <3>1 DEF Labels
    <2>3. QED
      BY <1>11, <2>1, <2>2 DEF Commit
  <1>12. CASE Promote
    <2>1. CASE CommitFailed(s)
      BY <1>8, <1>12, <2>1 DEF Promote
    <2>2. CASE CreateBranch(s) /\ Goto("branched") /\ UNCHANGED treeVars
      <3>1. RepoTypeOK'
        BY <1>1, <1>5, <1>12, <2>2, TreeEffects
        DEF Promote, CreateBranch, RepoTypeOK, treeVars
      <3>2. QED
        BY <1>9, <2>2, <3>1 DEF Labels
    <2>3. QED
      BY <1>12, <2>1, <2>2 DEF Promote
  <1>13. CASE Rewind
    <2>1. CASE CommitFailed(s)
      BY <1>8, <1>13, <2>1 DEF Rewind
    <2>2. CASE ResetToParent /\ Promoted(s) /\ UNCHANGED branch
      <3>1. RepoTypeOK'
        BY <1>1, <1>5, <1>13, <2>2, TreeEffects DEF Rewind, ResetToParent, RepoTypeOK
      <3>2. [Unblocked(s, "PUSH_APPROVAL_PENDING") EXCEPT !.then = "push"]
              \in Patches
        BY <1>3, <1>4 DEF Patches
      <3>3. QED
        BY <1>1, <1>2, <2>2, <3>1, <3>2, SavePatchType DEF Promoted
    <2>3. QED
      BY <1>13, <2>1, <2>2 DEF Rewind
  <1>14. CASE EnsurePushApproval
    <2>1. [Unblocked(s, "PUSH_APPROVAL_PENDING") EXCEPT
             !.appr = PushApproval] \in Patches
      BY <1>3, <1>4, RecordType DEF Patches
    <2>2. RepoTypeOK'
      BY <1>14, RepoUnchanged DEF EnsurePushApproval, TypeOK
    <2>3. QED
      BY <1>1, <1>2, <1>3, <1>4, <1>14, <2>1, <2>2, SavePatchType
      DEF EnsurePushApproval
  <1>15. QED
    BY <1>6, <1>7, <1>10, <1>11, <1>12, <1>13, <1>14

LEMMA GitHubType ==
    TypeOK /\ (TickPush \/ TickPr \/ TickReview) => TypeOK'
  <1> SUFFICES ASSUME TypeOK, TickPush \/ TickPr \/ TickReview
               PROVE  TypeOK'
    OBVIOUS
  <1> DEFINE s == Current
  <1>1. pc # "idle" /\ s \in Stories
    BY CurrentType DEF TypeOK, TickPush, TickPr, TickReview, Ticking
  <1>2. GateTypeOK'
    BY GatesUnchanged DEF TypeOK, TickPush, TickPr, TickReview
  <1>3. \A p \in Phases : /\ ToPhase(s, p) \in Patches
                          /\ Unblocked(s, p) \in Patches
    BY <1>1, PatchType DEF TypeOK
  <1>4. {"ESCALATED", "PR_APPROVAL_PENDING", "PR_REVIEW", "DONE", "FIX_LOOP"}
          \subseteq Phases
    BY DEF Phases, WaitingPhases, TerminalPhases
  <1>5. CASE TickPush
    <2>1. RepoTypeOK'
      BY <1>1, <1>5 DEF TickPush, PushBranch, TypeOK, RepoTypeOK
    <2>2. [Unblocked(s, "PR_APPROVAL_PENDING") EXCEPT !.appr = PrApproval]
            \in Patches
      BY <1>3, <1>4, RecordType DEF Patches
    <2>3. QED
      BY <1>1, <1>2, <1>3, <1>4, <1>5, <2>1, <2>2, SavePatchType
      DEF TickPush
  <1>6. CASE TickPr
    <2>1. RepoTypeOK'
      BY <1>1, <1>6 DEF TickPr, OpenPr, TypeOK, RepoTypeOK
    <2>2. QED
      BY <1>1, <1>2, <1>3, <1>4, <1>6, <2>1, SavePatchType DEF TickPr
  <1>7. CASE TickReview
    <2>1. RepoTypeOK'
      BY <1>7, RepoUnchanged DEF TickReview, TypeOK
    <2>2. Unblocked(s, "FIX_LOOP") \in Patches
      BY <1>3, <1>4
    <2>3. [Unblocked(s, "FIX_LOOP") EXCEPT !.repairs = @ + 1, !.then = "go"]
            \in Patches
      <3>1. ASSUME NEW u \in Patches
            PROVE  [u EXCEPT !.repairs = @ + 1, !.then = "go"] \in Patches
        <4>1. u.repairs + 1 \in Nat
          BY DEF Patches
        <4>2. QED
          BY <4>1 DEF Patches
      <3>2. QED
        BY <2>2, <3>1
    <2>4. QED
      BY <1>1, <1>2, <1>3, <1>4, <1>7, <2>1, <2>3, SavePatchType
      DEF TickReview
  <1>8. QED
    BY <1>5, <1>6, <1>7

LEMMA OperatorType ==
    TypeOK /\ (OperatorStep \/ \E s \in Stories : BackoffOver(s)) => TypeOK'
  <1> SUFFICES ASSUME TypeOK,
                      OperatorStep \/ \E s \in Stories : BackoffOver(s)
               PROVE  TypeOK'
    OBVIOUS
  <1>1. RepoTypeOK' /\ DaemonTypeOK' /\ crashes' \in 0..MaxCrashes
    <2>1. UNCHANGED <<repoVars, daemonVars, crashes>>
      BY DEF OperatorStep, Approve, Reject, Lapse, Pause, GrantResume,
         SwitchMode, BackoffOver
    <2>2. QED
      BY <2>1, RepoUnchanged DEF TypeOK, DaemonTypeOK, daemonVars
  <1>2. StoryTypeOK'
    <2>1. CASE UNCHANGED storyVars
      BY <2>1 DEF TypeOK, StoryTypeOK, storyVars
    <2>2. ASSUME NEW s \in Stories, Pause(s) PROVE StoryTypeOK'
      BY <2>2, TouchedType
      DEF Pause, TypeOK, StoryTypeOK, Phases, TerminalPhases, Statuses
    <2>3. ASSUME NEW s \in Stories, BackoffOver(s) PROVE StoryTypeOK'
      BY <2>3 DEF BackoffOver, TypeOK, StoryTypeOK
    <2>4. QED
      BY <2>1, <2>2, <2>3
      DEF OperatorStep, Approve, Reject, Lapse, GrantResume, SwitchMode
  <1>3. GateTypeOK'
    <2>1. CASE UNCHANGED gateVars
      BY <2>1, GatesUnchanged DEF TypeOK
    <2>2. ASSUME NEW s \in Stories, Approve(s) PROVE GateTypeOK'
      <3>1. appr[s] \in Records
        BY DEF TypeOK, GateTypeOK
      <3>2. [appr[s] EXCEPT !.st = "approved"] \in Records
        BY <3>1 DEF Records
      <3>3. QED
        BY <2>2, <3>2 DEF Approve, TypeOK, GateTypeOK
    <2>3. ASSUME NEW s \in Stories, Reject(s) \/ Lapse(s) PROVE GateTypeOK'
      <3>1. appr[s] \in Records
        BY DEF TypeOK, GateTypeOK
      <3>2. /\ [appr[s] EXCEPT !.st = "rejected"] \in Records
            /\ [appr[s] EXCEPT !.fresh = FALSE] \in Records
        BY <3>1 DEF Records
      <3>3. QED
        BY <2>3, <3>2 DEF Reject, Lapse, TypeOK, GateTypeOK
    <2>4. ASSUME NEW s \in Stories, GrantResume(s) PROVE GateTypeOK'
      BY <2>4 DEF GrantResume, TypeOK, GateTypeOK
    <2>5. CASE SwitchMode
      BY <2>5 DEF SwitchMode, TypeOK, GateTypeOK
    <2>6. QED
      BY <2>1, <2>2, <2>3, <2>4, <2>5 DEF OperatorStep, Pause, BackoffOver
  <1>4. QED
    BY <1>1, <1>2, <1>3 DEF TypeOK

LEMMA CrashType == TypeOK /\ Crash => TypeOK'
  <1> SUFFICES ASSUME TypeOK, Crash PROVE TypeOK'
    OBVIOUS
  <1>1. DaemonTypeOK'
    BY EmptySeq, NoPatchType, LoopAssumption DEF Crash, DaemonTypeOK, Labels
  <1>2. RepoTypeOK' /\ GateTypeOK' /\ StoryTypeOK'
    BY RepoUnchanged, GatesUnchanged
    DEF Crash, TypeOK, StoryTypeOK, storyVars
  <1>3. crashes' \in 0..MaxCrashes
    BY LoopAssumption DEF Crash, TypeOK
  <1>4. QED
    BY <1>1, <1>2, <1>3 DEF TypeOK

LEMMA StutterType == TypeOK /\ UNCHANGED vars => TypeOK'
  BY RepoUnchanged, GatesUnchanged
  DEF vars, TypeOK, StoryTypeOK, storyVars, DaemonTypeOK, daemonVars

LEMMA NextType == TypeOK /\ [Next]_vars => TypeOK'
  BY StartCycleType, SaveType, QuietTickType, DispatchType, TreeTickType,
     GitHubType, OperatorType, CrashType, StutterType
  DEF Next, DaemonStep, TickStep

\* Every reachable state of the loop has the shape the code relies on: the
\* story files, the approval records, the repository, and a queue that is
\* empty exactly between two cycles.
THEOREM TypeCorrect == Spec => []TypeOK
  <1>1. Init => TypeOK
    BY InitType
  <1>2. TypeOK /\ [Next]_vars => TypeOK'
    BY NextType
  <1>3. QED
    BY <1>1, <1>2, PTL DEF Spec

-----------------------------------------------------------------------------
(* The critical section around the working tree.  With one story per cycle *)
(* and a story list that fits the scheduler's window, the tree has one     *)
(* holder.  CRITICAL_SECTION_PHASES alone do not give that: the argument   *)
(* needs that a holder can always be selected and that a tick which runs   *)
(* is its own.                                                             *)

-----------------------------------------------------------------------------
(* The inductive invariant.                                                *)

\* What every patch a tick computes keeps true once it is written: a story
\* enters the section with a status and a backoff the scheduler selects, and
\* only a story outside the section is written without a phase.
PatchSafe(u) ==
    /\ u.phase \in CriticalPhases =>
         u.status \in RunnableStatuses /\ ~u.backoff
    /\ u.phase = "keep" => ~InCritical(Current)
    /\ u.then = "fallback" => u.phase \notin CriticalPhases \cup {"keep"}

\* A holder is selectable: it has a runnable status and is not backing off.
HolderRunnable ==
    \A s \in Stories :
        InCritical(s) => status[s] \in RunnableStatuses /\ ~backoff[s]

\* While a cycle runs, the story it ticks is the holder if there is one.
HolderTicked ==
    pc # "idle" => \A s \in Stories : InCritical(s) => s = Current

\* No story file is newer than itself, so a complete listing is possible.
NewerIrreflexive == \A s \in Stories : s \notin newer[s]

SectionInv ==
    /\ MutualExclusion
    /\ HolderRunnable
    /\ HolderTicked
    /\ NewerIrreflexive
    /\ Len(queue) <= 1
    /\ pc = "save" => PatchSafe(upd)
    /\ pc = "fallback" => ~InCritical(Current)

-----------------------------------------------------------------------------
(* What the common parts of the ticks do to it.                            *)

LEMMA UnblockedSafe ==
    ASSUME NEW s, NEW p \in Phases
    PROVE  PatchSafe(Unblocked(s, p))
  BY DEF PatchSafe, Unblocked, ToPhase, StatusOf, RunnableStatuses, Phases,
     WaitingPhases, CriticalPhases, TerminalPhases

LEMMA ToPhaseSafe ==
    ASSUME NEW s, NEW p \in Phases \ CriticalPhases
    PROVE  PatchSafe(ToPhase(s, p))
  BY DEF PatchSafe, ToPhase, Phases, WaitingPhases, TerminalPhases

LEMMA ThenSaveSection ==
    ASSUME SectionInv, pc # "idle", NEW u, PatchSafe(u), ThenSave(u)
    PROVE  SectionInv'
  BY DEF SectionInv, MutualExclusion, HolderRunnable, HolderTicked,
     NewerIrreflexive, PatchSafe, InCritical, Current, ThenSave, storyVars

LEMMA GotoSection ==
    ASSUME SectionInv, pc # "idle",
           NEW label \in Labels \ {"idle", "save", "fallback"}, Goto(label)
    PROVE  SectionInv'
  BY DEF SectionInv, MutualExclusion, HolderRunnable, HolderTicked,
     NewerIrreflexive, InCritical, Current, Goto, storyVars

LEMMA ContinueSection ==
    ASSUME DaemonTypeOK, pc # "idle", Len(queue) <= 1,
           NEW again \in BOOLEAN, Continue(again)
    PROVE  /\ Len(queue') <= 1
           /\ pc' \in {"idle", "tick"}
           /\ pc' = "tick" => queue' = queue
  <1>1. /\ queue \in Seq(Stories) /\ queue # <<>>
        /\ Len(queue) = 1
    <2>1. queue \in Seq(Stories) /\ queue # <<>>
      BY DEF DaemonTypeOK
    <2>2. Len(queue) \in Nat \ {0}
      BY <2>1, EmptySeq
    <2>3. QED
      BY <2>1, <2>2
  <1>2. Len(Tail(queue)) = 0
    BY <1>1, HeadTailProperties
  <1>3. CASE again /\ left > 1
    BY <1>1, <1>3 DEF Continue
  <1>4. CASE ~(again /\ left > 1)
    <2>1. queue' = Tail(queue) /\ pc' = "idle"
      BY <1>1, <1>4 DEF Continue
    <2>2. QED
      BY <1>2, <2>1
  <1>5. QED
    BY <1>3, <1>4

LEMMA NoProgressSection ==
    ASSUME SectionInv, DaemonTypeOK, pc # "idle", NoProgress
    PROVE  SectionInv'
  <1>1. /\ Len(queue') <= 1 /\ pc' \in {"idle", "tick"}
        /\ pc' = "tick" => queue' = queue
    BY ContinueSection DEF SectionInv, NoProgress
  <1>2. UNCHANGED storyVars
    BY DEF NoProgress
  <1>3. QED
    BY <1>1, <1>2
    DEF SectionInv, MutualExclusion, HolderRunnable, HolderTicked,
        NewerIrreflexive, InCritical, Current, storyVars

-----------------------------------------------------------------------------
(* The actions.                                                            *)

LEMMA InitSection == Init => SectionInv
  <1> SUFFICES ASSUME Init PROVE SectionInv
    OBVIOUS
  <1>1. \A s \in Stories : ~InCritical(s)
    BY DEF Init, InCritical, CriticalPhases
  <1>2. NewerIrreflexive
    <2>1. PICK rank \in [Stories -> 1..Cardinality(Stories)] :
            newer = [s \in Stories |-> {t \in Stories : rank[t] > rank[s]}]
      BY DEF Init
    <2>2. \A s \in Stories : rank[s] \in Int
      BY LoopAssumption, FS_CardinalityType, <2>1
    <2>3. QED
      BY <2>1, <2>2 DEF NewerIrreflexive
  <1>3. QED
    BY <1>1, <1>2, EmptySeq
    DEF Init, SectionInv, MutualExclusion, HolderRunnable, HolderTicked

\* Whoever holds the section is on the list and is the one story selected.
LEMMA HolderSelected ==
    ASSUME TypeOK, SectionInv, ListLimit >= Cardinality(Stories),
           NEW s \in Stories, InCritical(s)
    PROVE  Holders = {s}
  <1>1. /\ IsFiniteSet(Stories) /\ Cardinality(Stories) \in Nat
        /\ ListLimit \in Nat
    BY LoopAssumption, FS_CardinalityType
  <1>2. newer[s] \in SUBSET (Stories \ {s})
    BY DEF TypeOK, StoryTypeOK, SectionInv, NewerIrreflexive
  <1>3. /\ IsFiniteSet(Stories \ {s})
        /\ Cardinality(Stories \ {s}) = Cardinality(Stories) - 1
    BY <1>1, FS_RemoveElement
  <1>4. Cardinality(newer[s]) \in Nat
        /\ Cardinality(newer[s]) <= Cardinality(Stories \ {s})
    BY <1>2, <1>3, FS_Subset, FS_CardinalityType
  <1>5. s \in Listed
    BY <1>1, <1>3, <1>4 DEF Listed
  <1>6. s \in Selectable
    BY <1>5 DEF Selectable, Runnable, SectionInv, HolderRunnable,
       InCritical, CriticalPhases
  <1>7. QED
    BY <1>6 DEF Holders, Selectable, Listed, SectionInv, MutualExclusion

LEMMA StartCycleSection ==
    ASSUME Limit = 1, ListLimit >= Cardinality(Stories),
           TypeOK, SectionInv, StartCycle
    PROVE  SectionInv'
  <1>1. /\ queue' \in Seq(Stories) /\ Len(queue') = SelectionSize
        /\ Holders # {} => queue'[1] \in Holders
        /\ SelectionSize <= Limit
    BY SelectionType DEF StartCycle
  <1>2. UNCHANGED storyVars /\ pc' = "tick"
    BY DEF StartCycle
  <1>3. \A s \in Stories : InCritical(s) => s = queue'[1]
    BY <1>1, HolderSelected
  <1>4. QED
    BY <1>1, <1>2, <1>3
    DEF SectionInv, MutualExclusion, HolderRunnable, HolderTicked,
        NewerIrreflexive, InCritical, Current, storyVars

LEMMA SaveSection ==
    ASSUME TypeOK, SectionInv, Save
    PROVE  SectionInv'
  <1> DEFINE s == Current
  <1>1. pc = "save" /\ pc # "idle" /\ s \in Stories /\ upd \in Patches
    BY CurrentType DEF Save, TypeOK, DaemonTypeOK
  <1>2. PatchSafe(upd)
    BY <1>1 DEF SectionInv
  <1>3. /\ Len(queue') <= 1
        /\ pc' \in {"idle", "tick", "fallback", "push"}
        /\ pc' # "idle" => queue' = queue
        /\ pc' = "fallback" => upd.then = "fallback"
    <2>1. CASE upd.then \in {"fallback", "push"}
      BY <2>1 DEF Save, SectionInv
    <2>2. CASE upd.then \notin {"fallback", "push"}
      BY <1>1, <2>2, ContinueSection DEF Save, TypeOK, SectionInv
    <2>3. QED
      BY <2>1, <2>2
  <1>4. \A t \in Stories \ {s} : /\ phase'[t] = phase[t]
                                 /\ status'[t] = status[t]
                                 /\ backoff'[t] = backoff[t]
    BY <1>1 DEF Save, TypeOK, StoryTypeOK
  <1>5. /\ phase'[s] = IF upd.phase = "keep" THEN phase[s] ELSE upd.phase
        /\ upd.status # "keep" => status'[s] = upd.status
        /\ backoff'[s] = upd.backoff
    BY <1>1 DEF Save, TypeOK, StoryTypeOK
  <1>6. phase'[s] \in CriticalPhases => /\ status'[s] \in RunnableStatuses
                                        /\ ~backoff'[s]
    <2>1. SUFFICES ASSUME phase'[s] \in CriticalPhases
                   PROVE  status'[s] \in RunnableStatuses /\ ~backoff'[s]
      OBVIOUS
    <2>2. upd.phase \in CriticalPhases
      BY <1>2, <1>5, <2>1 DEF PatchSafe, InCritical
    <2>3. upd.status \in RunnableStatuses /\ ~upd.backoff
      BY <1>2, <2>2 DEF PatchSafe
    <2>4. upd.status # "keep"
      BY <2>3 DEF RunnableStatuses
    <2>5. QED
      BY <1>5, <2>3, <2>4
  <1>7. \A t \in Stories : InCritical(t)' => t = s
    <2>1. \A t \in Stories : phase[t] \in CriticalPhases => t = s
      BY <1>1 DEF SectionInv, HolderTicked, InCritical
    <2>2. SUFFICES ASSUME NEW t \in Stories, t # s,
                          phase'[t] \in CriticalPhases
                   PROVE  FALSE
      BY DEF InCritical
    <2>3. phase'[t] = phase[t]
      BY <1>4, <2>2
    <2>4. QED
      BY <2>1, <2>2, <2>3
  <1>8. MutualExclusion' /\ HolderRunnable'
    BY <1>6, <1>7 DEF MutualExclusion, HolderRunnable, InCritical
  <1>9. HolderTicked'
    BY <1>3, <1>7 DEF HolderTicked, Current
  <1>10. NewerIrreflexive'
    BY <1>1 DEF Save, Touched, SectionInv, NewerIrreflexive
  <1>11. pc' = "fallback" => ~InCritical(Current)'
    BY <1>2, <1>3, <1>5 DEF PatchSafe, InCritical, Current
  <1>12. QED
    BY <1>3, <1>8, <1>9, <1>10, <1>11 DEF SectionInv

LEMMA TickSection == TypeOK /\ SectionInv /\ TickStep => SectionInv'
  <1> SUFFICES ASSUME TypeOK, SectionInv, TickStep PROVE SectionInv'
    OBVIOUS
  <1> DEFINE s == Current
  <1>1. pc # "idle" /\ s \in Stories /\ DaemonTypeOK
    BY CurrentType
    DEF TypeOK, TickStep, TickTerminal, ConsumeResume, TickPlan, TickWaiting,
        TickBoundary, InnerBoundary, TickDispatch, AfterDispatchFailure,
        TickPreview, TickFixLoop, TickApply, TickGates, TickCommit, Commit,
        Promote, Rewind, EnsurePushApproval, TickPush, TickPr, TickReview,
        Ticking
  <1>2. \A u : PatchSafe(u) /\ ThenSave(u) => SectionInv'
    BY <1>1, ThenSaveSection
  <1>3. \A p \in Phases : PatchSafe(Unblocked(s, p))
    BY UnblockedSafe
  <1>4. \A p \in Phases \ CriticalPhases : PatchSafe(ToPhase(s, p))
    BY ToPhaseSafe
  <1>5. /\ WaitingPhases \subseteq Phases
        /\ {"PLAN", "OPENCODE_RUNNING", "PATCH_PREVIEW", "FIX_LOOP", "PUSH",
            "PR", "PR_REVIEW", "DONE", "ESCALATED", "GATES",
            "PLAN_APPROVAL_PENDING", "DIFF_APPROVAL_PENDING",
            "COMMIT_APPROVAL_PENDING", "PUSH_APPROVAL_PENDING",
            "PR_APPROVAL_PENDING"} \subseteq Phases
        /\ {"OPENCODE_RUNNING", "FIX_LOOP", "ESCALATED", "PUSH_APPROVAL_PENDING"}
             \cap CriticalPhases = {}
        /\ \A p : InnerResume(p) \in Phases /\ WiredResume(p) \in Phases
    BY DEF Phases, WaitingPhases, CriticalPhases, TerminalPhases,
       InnerResume, WiredResume
  <1>6. NoProgress => SectionInv'
    BY <1>1, NoProgressSection
  <1>7. \A label \in {"inner", "staged", "committed", "branched"} :
          Goto(label) => SectionInv'
    BY <1>1, GotoSection DEF Labels
  <1>9. /\ \A bad : Retry(s, bad) \/ GiveUp(s, bad) => SectionInv'
        /\ CommitFailed(s) => SectionInv'
    <2>1. \A bad : PatchSafe([ToPhase(s, "FIX_LOOP") EXCEPT
                                !.attempts = @ + 1, !.unrolled = bad])
      BY <1>5 DEF PatchSafe, ToPhase, StatusOf
    <2>2. \A bad : PatchSafe([ToPhase(s, "ESCALATED") EXCEPT
                                !.attempts = @ + 1, !.unrolled = bad])
      BY <1>5 DEF PatchSafe, ToPhase, StatusOf
    <2>3. \A bad : PatchSafe([ToPhase(s, "ESCALATED") EXCEPT !.unrolled = bad])
      BY <1>5 DEF PatchSafe, ToPhase, StatusOf
    <2>4. QED
      BY <1>2, <2>1, <2>2, <2>3 DEF Retry, GiveUp, CommitFailed
  <1>10. CASE TickTerminal \/ TickPlan \/ TickWaiting \/ TickBoundary
              \/ InnerBoundary \/ TickFixLoop
    <2>1. PlanDecisions \subseteq Phases
      BY <1>5, LoopAssumption
    <2>2. QED
      BY <1>2, <1>3, <1>5, <1>6, <1>7, <1>10, <2>1
      DEF TickTerminal, TickPlan, TickWaiting, TickBoundary, InnerBoundary,
          TickFixLoop
  <1>11. CASE ConsumeResume
    <2>1. PatchSafe([Unblocked(s, "PLAN_APPROVAL_PENDING") EXCEPT
                       !.status = "queued", !.attempts = 0, !.appr = NoRecord])
      BY <1>5 DEF PatchSafe, Unblocked, ToPhase, CriticalPhases, WaitingPhases
    <2>2. QED
      BY <1>2, <1>11, <2>1 DEF ConsumeResume
  <1>12. CASE TickDispatch
    <2>1. PatchSafe([Unblocked(s, "PATCH_PREVIEW") EXCEPT !.appr = DispatchApproval])
      BY <1>5 DEF PatchSafe, Unblocked, ToPhase, CriticalPhases, WaitingPhases
    <2>2. ASSUME NEW wait \in BOOLEAN
          PROVE  PatchSafe([ToPhase(s, "OPENCODE_RUNNING") EXCEPT
                              !.backoff = wait, !.appr = DispatchApproval,
                              !.then = "fallback"])
      BY <1>5 DEF PatchSafe, ToPhase
    <2>3. QED
      BY <1>2, <1>12, <2>1, <2>2 DEF TickDispatch
  <1>13. CASE AfterDispatchFailure
    <2> DEFINE n == attempts[s] + 1
    <2>1. ~InCritical(Current)
      BY <1>13 DEF AfterDispatchFailure, SectionInv
    <2>2. PatchSafe([ToPhase(s, "keep") EXCEPT
                       !.status = "keep", !.attempts = n, !.then = "break"])
      BY <2>1 DEF PatchSafe, ToPhase, CriticalPhases
    <2>3. PatchSafe([Unblocked(s, "ESCALATED") EXCEPT !.attempts = n])
      BY <1>5 DEF PatchSafe, Unblocked, ToPhase
    <2>4. QED
      BY <1>2, <1>3, <1>5, <1>13, <2>2, <2>3 DEF AfterDispatchFailure
  <1>14. CASE TickPreview \/ EnsurePushApproval
    <2>1. PatchSafe([Unblocked(s, "DIFF_APPROVAL_PENDING") EXCEPT
                       !.appr = PatchApproval])
      BY <1>5 DEF PatchSafe, Unblocked, ToPhase, CriticalPhases, WaitingPhases
    <2>2. PatchSafe([Unblocked(s, "PUSH_APPROVAL_PENDING") EXCEPT
                       !.appr = PushApproval])
      BY <1>5 DEF PatchSafe, Unblocked, ToPhase, CriticalPhases, WaitingPhases
    <2>3. QED
      BY <1>2, <1>3, <1>4, <1>5, <1>14, <2>1, <2>2
      DEF TickPreview, EnsurePushApproval
  <1>15. CASE TickApply
    BY <1>2, <1>3, <1>4, <1>5, <1>9, <1>15 DEF TickApply, RetryOrEscalate
  <1>16. CASE TickGates
    <2>1. PatchSafe([Unblocked(s, "COMMIT_APPROVAL_PENDING") EXCEPT
                       !.appr = CommitApproval])
      BY DEF PatchSafe, Unblocked, ToPhase, StatusOf, WaitingPhases,
             RunnableStatuses
    <2>2. QED
      BY <1>2, <1>4, <1>5, <1>9, <1>16, <2>1 DEF TickGates, RepairDecision
  <1>17. CASE TickCommit \/ Commit \/ Promote
    BY <1>7, <1>9, <1>17 DEF TickCommit, Commit, Promote
  <1>18. CASE Rewind
    <2>1. PatchSafe([Unblocked(s, "PUSH_APPROVAL_PENDING") EXCEPT
                       !.then = "push"])
      BY <1>5 DEF PatchSafe, Unblocked, ToPhase
    <2>2. QED
      BY <1>2, <1>9, <1>18, <2>1 DEF Rewind, Promoted
  <1>19. CASE TickPush
    <2>1. PatchSafe([Unblocked(s, "PR_APPROVAL_PENDING") EXCEPT
                       !.appr = PrApproval])
      BY DEF PatchSafe, Unblocked, ToPhase, CriticalPhases, WaitingPhases
    <2>2. QED
      BY <1>2, <1>4, <1>5, <1>19, <2>1 DEF TickPush
  <1>20. CASE TickPr
    BY <1>2, <1>3, <1>4, <1>5, <1>20 DEF TickPr
  <1>21. CASE TickReview
    <2>1. PatchSafe([Unblocked(s, "FIX_LOOP") EXCEPT
                       !.repairs = @ + 1, !.then = "go"])
      BY <1>5 DEF PatchSafe, Unblocked, ToPhase
    <2>2. QED
      BY <1>2, <1>3, <1>5, <1>21, <2>1 DEF TickReview
  <1>22. QED
    BY <1>10, <1>11, <1>12, <1>13, <1>14, <1>15, <1>16, <1>17, <1>18, <1>19,
       <1>20, <1>21
    DEF TickStep

LEMMA EnvironmentSection ==
    /\ TypeOK /\ SectionInv
    /\ OperatorStep \/ Crash \/ \E s \in Stories : BackoffOver(s)
    => SectionInv'
  <1> SUFFICES ASSUME TypeOK, SectionInv,
                      OperatorStep \/ Crash \/ \E s \in Stories : BackoffOver(s)
               PROVE  SectionInv'
    OBVIOUS
  <1>1. CASE UNCHANGED <<storyVars, daemonVars>>
    BY <1>1
    DEF SectionInv, MutualExclusion, HolderRunnable, HolderTicked,
        NewerIrreflexive, PatchSafe, InCritical, Current, storyVars, daemonVars
  <1>2. ASSUME NEW s \in Stories, Pause(s)
        PROVE  SectionInv'
    <2>1. /\ phase' = [phase EXCEPT ![s] = "STOPPED"]
          /\ status' = [status EXCEPT ![s] = "stopped"]
          /\ newer' = Touched(s)
          /\ UNCHANGED <<backoff, pc, queue, upd>>
      BY <1>2 DEF Pause, daemonVars
    <2>2. \A t \in Stories : InCritical(t)' =>
            t # s /\ InCritical(t) /\ status'[t] = status[t]
      BY <2>1 DEF TypeOK, StoryTypeOK, InCritical, CriticalPhases
    <2>3. MutualExclusion' /\ HolderRunnable' /\ HolderTicked'
      BY <2>1, <2>2
      DEF SectionInv, MutualExclusion, HolderRunnable, HolderTicked, Current
    <2>4. NewerIrreflexive'
      BY <2>1 DEF Touched, SectionInv, NewerIrreflexive
    <2>5. pc # "idle" => Current \in Stories /\ Current' = Current
      BY <2>1, CurrentType DEF TypeOK, Current
    <2>6. pc # "idle" /\ ~InCritical(Current) => ~InCritical(Current)'
      BY <2>2, <2>5 DEF InCritical
    <2>7. /\ pc' = "save" => PatchSafe(upd)'
          /\ pc' = "fallback" => ~InCritical(Current)'
      BY <2>1, <2>6 DEF SectionInv, PatchSafe
    <2>8. QED
      BY <2>1, <2>3, <2>4, <2>7 DEF SectionInv
  <1>3. ASSUME NEW s \in Stories, BackoffOver(s)
        PROVE  SectionInv'
    <2>1. /\ backoff' = [backoff EXCEPT ![s] = FALSE]
          /\ UNCHANGED <<phase, status, newer, pc, queue, upd>>
      BY <1>3 DEF BackoffOver, daemonVars
    <2>2. \A t \in Stories : backoff'[t] => backoff[t]
      BY <2>1 DEF TypeOK, StoryTypeOK
    <2>3. QED
      BY <2>1, <2>2
      DEF SectionInv, MutualExclusion, HolderRunnable, HolderTicked,
          NewerIrreflexive, PatchSafe, InCritical, Current
  <1>4. CASE Crash
    BY <1>4, EmptySeq
    DEF Crash, SectionInv, MutualExclusion, HolderRunnable, HolderTicked,
        NewerIrreflexive, InCritical, storyVars
  <1>5. QED
    BY <1>1, <1>2, <1>3, <1>4
    DEF OperatorStep, Approve, Reject, Lapse, GrantResume, SwitchMode,
        storyVars

LEMMA NextSection ==
    ASSUME Limit = 1, ListLimit >= Cardinality(Stories)
    PROVE  TypeOK /\ SectionInv /\ [Next]_vars => SectionInv'
  <1>1. TypeOK /\ SectionInv /\ UNCHANGED vars => SectionInv'
    BY DEF vars, SectionInv, MutualExclusion, HolderRunnable, HolderTicked,
       NewerIrreflexive, PatchSafe, InCritical, Current, storyVars, daemonVars
  <1>2. QED
    BY <1>1, StartCycleSection, SaveSection, TickSection, EnvironmentSection
    DEF Next, DaemonStep

LEMMA SectionInvariant ==
    ASSUME Limit = 1, ListLimit >= Cardinality(Stories)
    PROVE  Spec => [](TypeOK /\ SectionInv)
  <1>1. Init => TypeOK /\ SectionInv
    BY InitType, InitSection
  <1>2. TypeOK /\ SectionInv /\ [Next]_vars => (TypeOK /\ SectionInv)'
    BY NextType, NextSection
  <1>3. QED
    BY <1>1, <1>2, PTL DEF Spec

-----------------------------------------------------------------------------
(* The theorems.                                                           *)

\* With the daemon's default of one story per cycle, and no more story files
\* than the scheduler lists, two stories are never in APPLY .. COMMIT at once,
\* whatever fails, is refused, paused, resumed or lost in a crash.
THEOREM SectionIsExclusive ==
    ASSUME Limit = 1, ListLimit >= Cardinality(Stories)
    PROVE  Spec => []MutualExclusion
  <1>1. TypeOK /\ SectionInv => MutualExclusion
    BY DEF SectionInv
  <1>2. QED
    BY <1>1, SectionInvariant, PTL

LEMMA HolderValue ==
    ASSUME MutualExclusion
    PROVE  /\ \A s \in Stories : InCritical(s) => Holder = s
           /\ (\A s \in Stories : ~InCritical(s)) => Holder = Nobody
  BY DEF MutualExclusion, Holder

\* A step that lets a story in only while nobody is in implements the section.
LEMMA HandOver ==
    ASSUME MutualExclusion, MutualExclusion',
           \A t \in Stories : InCritical(t)' /\ ~InCritical(t) =>
               \A s \in Stories : ~InCritical(s)
    PROVE  [Section!Next]_Holder
  <1>1. /\ \A s \in Stories : InCritical(s)' => Holder' = s
        /\ (\A s \in Stories : ~InCritical(s)') => Holder' = Nobody
    BY DEF MutualExclusion, Holder
  <1>2. CASE \A s \in Stories : ~InCritical(s)
    <2>1. Holder = Nobody
      BY <1>2, HolderValue
    <2>2. CASE \A s \in Stories : ~InCritical(s)'
      BY <1>1, <2>1, <2>2
    <2>3. ASSUME NEW t \in Stories, InCritical(t)'
          PROVE  Section!Enter(t)
      BY <1>1, <2>1, <2>3 DEF Section!Enter
    <2>4. QED
      BY <2>2, <2>3 DEF Section!Next
  <1>3. ASSUME NEW s \in Stories, InCritical(s)
        PROVE  [Section!Next]_Holder
    <2>1. Holder = s /\ s # Nobody
      BY <1>3, HolderValue, NobodyAssumption
    <2>2. \A t \in Stories : InCritical(t)' => InCritical(t)
      BY <1>3
    <2>3. \A t \in Stories : InCritical(t)' => t = s
      BY <1>3, <2>2 DEF MutualExclusion
    <2>4. CASE InCritical(s)'
      BY <1>1, <2>1, <2>4
    <2>5. CASE ~InCritical(s)'
      <3>1. Holder' = Nobody
        BY <1>1, <2>3, <2>5
      <3>2. QED
        BY <2>1, <3>1 DEF Section!Leave, Section!Next
    <2>6. QED
      BY <2>4, <2>5
  <1>4. QED
    BY <1>2, <1>3

\* Only a save and a pause change a phase: a save that of the ticked story,
\* which is the holder if there is one; a pause only leaves the section.
LEMMA EntryWhenFree ==
    ASSUME TypeOK, SectionInv, [Next]_vars, NEW t \in Stories,
           InCritical(t)', ~InCritical(t)
    PROVE  \A s \in Stories : ~InCritical(s)
  <1>1. CASE UNCHANGED phase
    BY <1>1 DEF InCritical
  <1>2. CASE Save
    <2>1. pc # "idle" /\ Current \in Stories
      BY <1>2, CurrentType DEF Save, TypeOK
    <2>2. t = Current
      BY <1>2, <2>1 DEF Save, InCritical, TypeOK, StoryTypeOK
    <2>3. QED
      BY <2>1, <2>2 DEF SectionInv, HolderTicked
  <1>3. ASSUME NEW s \in Stories, Pause(s) PROVE FALSE
    BY <1>3 DEF Pause, InCritical, CriticalPhases, TypeOK, StoryTypeOK
  <1>4. TickStep => UNCHANGED phase
    BY DEF TickStep, TickTerminal, ConsumeResume, TickPlan, TickWaiting,
       TickBoundary, InnerBoundary, TickDispatch, AfterDispatchFailure,
       TickPreview, TickFixLoop, TickApply, TickGates, TickCommit, Commit,
       Promote, Rewind, EnsurePushApproval, TickPush, TickPr, TickReview,
       RetryOrEscalate, RepairDecision, Retry, GiveUp, CommitFailed, Promoted,
       ThenSave, NoProgress, Goto, storyVars
  <1>5. QED
    BY <1>1, <1>2, <1>3, <1>4
    DEF Next, DaemonStep, OperatorStep, StartCycle, Approve, Reject, Lapse,
        GrantResume, SwitchMode, BackoffOver, Crash, vars, storyVars

\* Under the same conditions the loop implements the critical section: the
\* tree is free at first, and changes hands only by being left in between.
THEOREM LoopImplementsSection ==
    ASSUME Limit = 1, ListLimit >= Cardinality(Stories)
    PROVE  Spec => ImplementsSection
  <1>1. Init => Section!Init
    BY InitSection, HolderValue
    DEF Section!Init, SectionInv, Init, InCritical, CriticalPhases
  <1>2. /\ TypeOK /\ SectionInv /\ [Next]_vars /\ (TypeOK /\ SectionInv)'
        => [Section!Next]_Holder
    BY EntryWhenFree, HandOver DEF SectionInv
  <1>3. QED
    BY <1>1, <1>2, SectionInvariant, PTL
    DEF Spec, ImplementsSection, Section!Spec

-----------------------------------------------------------------------------
(* The phase of a story, its approval record, its attempts and the tree.   *)
(* A tick reads the story file, changes the repository and the records,    *)
(* and writes the file last; operators act in between.                     *)

-----------------------------------------------------------------------------
(* What has to agree, for a story file in phase p with record r and n      *)
(* attempts; seen: the candidate was approved for apply; dirty, staged:    *)
(* the tree, the index holds the story's change; un: the file says that    *)
(* the last rollback left the tree dirty.                                  *)

TreePhases ==
    CriticalPhases \cup {"STOPPED", "ESCALATED", "PLAN_APPROVAL_PENDING"}
StagedPhases == {"COMMIT", "STOPPED", "ESCALATED", "PLAN_APPROVAL_PENDING"}
RetryPhases == {"FIX_LOOP", "OPENCODE_RUNNING", "PATCH_PREVIEW", "DIFF_APPROVAL_PENDING"}

\* A retry on a dirty tree: a rollback failed, and the file says so, unless a later
\* rollback had nothing to roll back and called itself done.
RetryFits(dirty, un) ==
    dirty => "rollback" \in Faults /\ (un \/ "preview" \in Faults)

\* No approval precedes the plan, a candidate comes with its dispatch's record, and
\* an apply approval the story can still act on is one for the candidate on disk.
ReviewFits(p, r, seen) ==
    /\ p = "PATCH_PREVIEW" => r.act = "patch"
    /\ p \in {"PLAN", "PLAN_APPROVAL_PENDING"} => r = NoRecord
    /\ /\ p \in {"DIFF_APPROVAL_PENDING", "APPLY"}
       /\ r.act = "apply" /\ r.st = "approved"
       => seen

\* The last attempt ends the story.
AttemptsFit(p, n) ==
    n <= MaxAttempts /\ (n = MaxAttempts => p \in {"ESCALATED", "STOPPED"})

TreeFits(p, r, dirty, staged, un) ==
    /\ dirty => p \in TreePhases \cup RetryPhases
    /\ staged => p \in StagedPhases
    /\ p \in RetryPhases => RetryFits(dirty, un)
    /\ p \in {"APPLY", "GATES"} /\ r.act = "patch" /\ dirty => "rollback" \in Faults

Fits(p, r, n, seen, dirty, staged, un) ==
    ReviewFits(p, r, seen) /\ AttemptsFit(p, n) /\ TreeFits(p, r, dirty, staged, un)

\* The story files as they are on disk.
FilesFit ==
    \A s \in Stories :
        Fits(phase[s], appr[s], attempts[s], reviewed[s], s \in wt, s \in idx,
             unrolled[s])

\* The ticked story's file once patch u is written, r being its record before.
OutcomeFits(u, r, seen, dirty, staged) ==
    /\ Fits(IF u.phase = "keep" THEN phase[Current] ELSE u.phase,
            IF u.appr.act = "keep" THEN r ELSE u.appr,
            u.attempts, seen, dirty, staged, u.unrolled)
    /\ u.then = "fallback" => u.phase = "OPENCODE_RUNNING" /\ u.appr.act = "patch"
    /\ u.then = "push" => u.phase = "PUSH_APPROVAL_PENDING"

\* Inside a tick the file still says what the tick read, unless it was paused.
PhaseAt(label) ==
    CASE label = "inner" -> {"PUSH_APPROVAL_PENDING", "PR_APPROVAL_PENDING"}
      [] label = "fallback" -> {"OPENCODE_RUNNING"}
      [] label = "push" -> {"PUSH_APPROVAL_PENDING"}
      [] OTHER -> {"COMMIT"}

MidTick == {"inner", "fallback", "staged", "committed", "branched", "push"}

TickedTree(label, dirty, staged, un) ==
    CASE label = "staged" -> dirty => staged
      [] label = "fallback" -> ~staged /\ RetryFits(dirty, un)
      [] OTHER -> ~dirty /\ ~staged

MidTickFits ==
    /\ phase[Current] \in PhaseAt(pc) \cup {"STOPPED"}
    /\ attempts[Current] < MaxAttempts
    /\ pc = "fallback" => appr[Current].act = "patch"
    /\ TickedTree(pc, Current \in wt, Current \in idx, unrolled[Current])

StoryInv ==
    /\ FilesFit
    /\ pc \in MidTick => MidTickFits
    /\ pc = "save" => OutcomeFits(upd, appr[Current], reviewed[Current],
                                  Current \in wt, Current \in idx)

-----------------------------------------------------------------------------
(* What the common parts of the ticks do to it.                            *)

LEMMA ThenSaveStory ==
    ASSUME FilesFit', NEW u, ThenSave(u),
           OutcomeFits(u, appr'[Current], reviewed'[Current],
                       Current \in wt', Current \in idx')
    PROVE  StoryInv'
  BY DEF StoryInv, ThenSave, storyVars, OutcomeFits, Current, MidTick

LEMMA GotoStory ==
    ASSUME FilesFit', NEW label \in MidTick, Goto(label),
           phase[Current] \in PhaseAt(label) \cup {"STOPPED"},
           attempts[Current] < MaxAttempts, label # "fallback",
           TickedTree(label, Current \in wt', Current \in idx', unrolled[Current])
    PROVE  StoryInv'
  BY DEF StoryInv, Goto, storyVars, MidTickFits, Current, MidTick

LEMMA NoProgressStory ==
    ASSUME FilesFit', NoProgress
    PROVE  StoryInv'
  BY DEF StoryInv, NoProgress, Continue, MidTick

\* A tick changes the tree for its own story only, or takes changes out of it.
LEMMA TreeChange ==
    ASSUME FilesFit, UNCHANGED <<phase, attempts, appr, reviewed, unrolled>>,
           NEW s \in Stories,
           wt' \subseteq wt \cup {s}, idx' \subseteq idx \cup {s},
           s \in wt' => s \in wt \/ (phase[s] \in TreePhases /\ appr[s].act # "patch"),
           s \in idx' => s \in idx \/ phase[s] \in StagedPhases
    PROVE  FilesFit'
  <1>1. TreePhases \cap RetryPhases = {}
    BY DEF TreePhases, RetryPhases, CriticalPhases
  <1>2. ASSUME NEW z \in Stories
        PROVE  TreeFits(phase[z], appr[z], z \in wt', z \in idx', unrolled[z])
    BY <1>1, <1>2 DEF FilesFit, Fits, TreeFits, RetryFits
  <1>3. QED
    BY <1>2 DEF FilesFit, Fits

LEMMA AutoApproveFits ==
    ASSUME TypeOK, FilesFit, NEW s \in Stories, AutoApprove(s),
           UNCHANGED <<phase, attempts, wt, idx, unrolled>>
    PROVE  FilesFit'
  <1>1. CASE ~AutoApproves(s)
    BY <1>1 DEF AutoApprove, FilesFit
  <1>2. CASE AutoApproves(s)
    <2>1. /\ appr' = [appr EXCEPT ![s] = [appr[s] EXCEPT !.st = "approved"]]
          /\ reviewed' = [reviewed EXCEPT ![s] = @ \/ appr[s].act = "apply"]
      BY <1>2 DEF AutoApprove
    <2>2. \A t \in Stories \ {s} : appr'[t] = appr[t] /\ reviewed'[t] = reviewed[t]
      BY <2>1 DEF TypeOK, GateTypeOK
    <2>3. /\ appr'[s].act = appr[s].act
          /\ reviewed'[s] <=> reviewed[s] \/ appr[s].act = "apply"
          /\ appr[s] # NoRecord
      BY <1>2, <2>1 DEF TypeOK, GateTypeOK, Records, AutoApproves, NoRecord, Record
    <2>4. ReviewFits(phase[s], appr'[s], reviewed'[s])
      BY <2>3 DEF FilesFit, Fits, ReviewFits
    <2>5. TreeFits(phase[s], appr'[s], s \in wt, s \in idx, unrolled[s])
      BY <2>3 DEF FilesFit, Fits, TreeFits
    <2>6. QED
      BY <2>2, <2>4, <2>5 DEF FilesFit, Fits
  <1>3. QED
    BY <1>1, <1>2

-----------------------------------------------------------------------------
(* The actions.                                                            *)

LEMMA InitStory == Init => StoryInv
  BY LoopAssumption
  DEF Init, RepoInit, StoryInv, FilesFit, Fits, ReviewFits, AttemptsFit,
      TreeFits, RetryFits, MidTick

LEMMA SaveStory == TypeOK /\ StoryInv /\ Save => StoryInv'
  <1> SUFFICES ASSUME TypeOK, StoryInv, Save PROVE StoryInv'
    OBVIOUS
  <1> DEFINE s == Current
  <1>1. pc = "save" /\ s \in Stories /\ upd \in Patches
    BY CurrentType DEF Save, TypeOK, DaemonTypeOK
  <1>2. OutcomeFits(upd, appr[s], reviewed[s], s \in wt, s \in idx)
    BY <1>1 DEF StoryInv
  <1>3. /\ phase'[s] = IF upd.phase = "keep" THEN phase[s] ELSE upd.phase
        /\ appr'[s] = IF upd.appr.act = "keep" THEN appr[s] ELSE upd.appr
        /\ attempts'[s] = upd.attempts
        /\ unrolled'[s] = upd.unrolled
        /\ UNCHANGED <<reviewed, wt, idx>>
    BY <1>1 DEF Save, TypeOK, StoryTypeOK, GateTypeOK, repoVars
  <1>4. \A t \in Stories \ {s} : /\ phase'[t] = phase[t]
                                 /\ appr'[t] = appr[t]
                                 /\ attempts'[t] = attempts[t]
                                 /\ unrolled'[t] = unrolled[t]
    BY <1>1 DEF Save, TypeOK, StoryTypeOK, GateTypeOK
  <1>5. FilesFit'
    <2>1. Fits(phase'[s], appr'[s], attempts'[s], reviewed'[s], s \in wt', s \in idx',
               unrolled'[s])
      BY <1>2, <1>3 DEF OutcomeFits
    <2>2. QED
      BY <1>3, <1>4, <2>1 DEF StoryInv, FilesFit
  <1>6. CASE upd.then \in {"fallback", "push"}
    <2>1. /\ pc' = upd.then /\ queue' = queue
          /\ phase'[s] \in PhaseAt(pc')
      BY <1>2, <1>3, <1>6 DEF Save, OutcomeFits, PhaseAt
    <2>t. TickedTree(pc', s \in wt', s \in idx', unrolled'[s])
      BY <1>1, <1>5, <1>6, <2>1
      DEF FilesFit, Fits, TreeFits, TreePhases, StagedPhases, RetryPhases,
          CriticalPhases, PhaseAt, TickedTree
    <2>2. attempts'[s] < MaxAttempts
      <3>1. phase'[s] \notin {"ESCALATED", "STOPPED"}
        BY <1>6, <2>1 DEF PhaseAt
      <3>2. attempts'[s] <= MaxAttempts /\ attempts'[s] # MaxAttempts
        BY <1>1, <1>5, <3>1 DEF FilesFit, Fits, AttemptsFit
      <3>3. attempts'[s] \in Nat /\ MaxAttempts \in Nat
        BY <1>1, <1>3, LoopAssumption DEF Patches
      <3>4. QED
        BY <3>2, <3>3
    <2>a. pc' = "fallback" => appr'[s].act = "patch"
      BY <1>2, <1>3, <1>6, <2>1 DEF OutcomeFits
    <2>3. QED
      BY <1>5, <1>6, <2>1, <2>2, <2>t, <2>a DEF StoryInv, MidTickFits, Current
  <1>7. CASE upd.then \notin {"fallback", "push"}
    BY <1>5, <1>7 DEF Save, Continue, StoryInv, MidTick
  <1>8. QED
    BY <1>6, <1>7

\* An approval moves a story to a phase its file fits as well.
LEMMA ApprovedMove ==
    ASSUME NEW p, NEW q, NEW r, NEW n, NEW seen, NEW dirty, NEW staged,
           NEW un, Fits(p, r, n, seen, dirty, staged, un), p # "STOPPED",
           \/ p = "DIFF_APPROVAL_PENDING" /\ q = "APPLY"
           \/ p = "COMMIT_APPROVAL_PENDING" /\ q = "COMMIT"
           \/ /\ p \in {"PUSH_APPROVAL_PENDING", "PR_APPROVAL_PENDING"}
              /\ q \in {"PUSH", "PR", "PR_APPROVAL_PENDING", "DONE"}
    PROVE  Fits(q, r, n, seen, dirty, staged, un)
  BY DEF Fits, ReviewFits, AttemptsFit, TreeFits, RetryFits, TreePhases,
     StagedPhases, RetryPhases, CriticalPhases

\* Ticks that touch neither the repository nor, except to approve, a record.
LEMMA QuietTickStory ==
    TypeOK /\ StoryInv /\ (TickTerminal \/ ConsumeResume \/ TickPlan \/ TickWaiting
               \/ TickBoundary \/ InnerBoundary) => StoryInv'
  <1> SUFFICES ASSUME TypeOK, StoryInv,
                      TickTerminal \/ ConsumeResume \/ TickPlan \/ TickWaiting
                      \/ TickBoundary \/ InnerBoundary
               PROVE  StoryInv'
    OBVIOUS
  <1> DEFINE s == Current
  <1>1. pc # "idle" /\ s \in Stories
    BY CurrentType
    DEF TypeOK, TickTerminal, ConsumeResume, TickPlan, TickWaiting,
        TickBoundary, InnerBoundary, Ticking
  <1>2. /\ UNCHANGED <<wt, idx>>
        /\ FilesFit
        /\ Fits(phase[s], appr[s], attempts[s], reviewed[s], s \in wt, s \in idx,
             unrolled[s])
        /\ attempts[s] \in Nat /\ MaxAttempts \in Nat \ {0}
    BY <1>1, LoopAssumption
    DEF TickTerminal, ConsumeResume, TickPlan, TickWaiting, TickBoundary,
        InnerBoundary, repoVars, StoryInv, FilesFit, TypeOK, StoryTypeOK
  <1>3. CASE TickTerminal
    <2>1. FilesFit'
      BY <1>2, <1>3 DEF TickTerminal, NoProgress, FilesFit, storyVars, gateVars
    <2>2. QED
      BY <1>3, <2>1, NoProgressStory DEF TickTerminal
  <1>4. CASE ConsumeResume
    <2> DEFINE u == [Unblocked(s, "PLAN_APPROVAL_PENDING") EXCEPT
                       !.status = "queued", !.attempts = 0, !.appr = NoRecord]
    <2>1. FilesFit'
      BY <1>2, <1>4 DEF ConsumeResume, ThenSave, FilesFit, storyVars
    <2>2. OutcomeFits(u, appr'[s], reviewed'[s], s \in wt', s \in idx')
      BY <1>2
      DEF OutcomeFits, Fits, ReviewFits, AttemptsFit, TreeFits, TreePhases,
          StagedPhases, RetryPhases, CriticalPhases, Unblocked, ToPhase,
          WaitingPhases, NoRecord, Record
    <2>3. QED
      BY <1>4, <2>1, <2>2, ThenSaveStory DEF ConsumeResume
  <1>5. CASE TickPlan
    <2>1. PICK p \in PlanDecisions : ThenSave(Unblocked(s, p))
      BY <1>5 DEF TickPlan
    <2>2. FilesFit' /\ UNCHANGED <<appr, reviewed>> /\ phase[s] = "PLAN"
      BY <1>2, <1>5, <2>1
      DEF TickPlan, ThenSave, FilesFit, storyVars, gateVars, Ticking
    <2>3. p \in {"ESCALATED", "PLAN_APPROVAL_PENDING", "DIFF_APPROVAL_PENDING",
                 "OPENCODE_RUNNING"}
      BY LoopAssumption
    <2>4. /\ appr[s] = NoRecord /\ s \notin wt /\ s \notin idx
          /\ attempts[s] < MaxAttempts
      BY <1>2, <2>2
      DEF Fits, ReviewFits, AttemptsFit, TreeFits, TreePhases, StagedPhases,
          RetryPhases, CriticalPhases
    <2>5. OutcomeFits(Unblocked(s, p), appr'[s], reviewed'[s], s \in wt', s \in idx')
      BY <1>2, <2>2, <2>3, <2>4
      DEF OutcomeFits, Fits, ReviewFits, AttemptsFit, TreeFits, RetryFits, Unblocked,
          ToPhase, Kept, NoRecord, Record
    <2>6. QED
      BY <2>1, <2>2, <2>5, ThenSaveStory
  <1>6. ASSUME AutoApprove(s), NEW p, ThenSave(Unblocked(s, p)), p # "keep",
               phase[s] # "STOPPED",
               \/ phase[s] = "DIFF_APPROVAL_PENDING" /\ p = "APPLY"
               \/ phase[s] = "COMMIT_APPROVAL_PENDING" /\ p = "COMMIT"
               \/ /\ phase[s] \in {"PUSH_APPROVAL_PENDING", "PR_APPROVAL_PENDING"}
                  /\ p \in {"PUSH", "PR", "PR_APPROVAL_PENDING", "DONE"}
        PROVE  StoryInv'
    <2>1. FilesFit' /\ UNCHANGED <<phase, attempts, unrolled>>
      BY <1>1, <1>2, <1>6, AutoApproveFits DEF ThenSave, storyVars
    <2>2. Fits(phase[s], appr'[s], attempts[s], reviewed'[s], s \in wt', s \in idx',
               unrolled[s])
      BY <1>1, <2>1 DEF FilesFit
    <2>3. Fits(p, appr'[s], attempts[s], reviewed'[s], s \in wt', s \in idx',
               unrolled[s])
      BY <1>6, <2>2, ApprovedMove
    <2>4. OutcomeFits(Unblocked(s, p), appr'[s], reviewed'[s], s \in wt', s \in idx')
      BY <1>6, <2>3 DEF OutcomeFits, Unblocked, ToPhase, Kept, Record
    <2>5. QED
      BY <1>6, <2>1, <2>4, ThenSaveStory
  <1>7. ASSUME AutoApprove(s), NoProgress
        PROVE  StoryInv'
    <2>1. FilesFit'
      BY <1>1, <1>2, <1>7, AutoApproveFits DEF NoProgress, storyVars
    <2>2. QED
      BY <1>7, <2>1, NoProgressStory
  <1>8. CASE TickWaiting
    <2>1. CASE Approved(s) \/ AutoApproves(s)
      <3>1. phase[s] # "PLAN_APPROVAL_PENDING"
        BY <1>2, <2>1
        DEF Fits, ReviewFits, Approved, AutoApproves, NoRecord, Record
      <3>2. phase[s] \in {"DIFF_APPROVAL_PENDING", "COMMIT_APPROVAL_PENDING"}
        BY <1>8, <3>1 DEF TickWaiting, Ticking
      <3>3. QED
        BY <1>6, <1>8, <2>1, <3>2 DEF TickWaiting, InnerResume
    <2>2. CASE ~(Approved(s) \/ AutoApproves(s))
      BY <1>7, <1>8, <2>2 DEF TickWaiting
    <2>3. QED
      BY <2>1, <2>2
  <1>9. CASE TickBoundary
    <2>1. /\ phase[s] \in {"PUSH_APPROVAL_PENDING", "PR_APPROVAL_PENDING"}
          /\ AutoApprove(s)
      BY <1>9 DEF TickBoundary, Ticking
    <2>2. CASE Approved(s) \/ AutoApproves(s)
      BY <1>6, <1>9, <2>1, <2>2 DEF TickBoundary, WiredResume
    <2>3. CASE ~(Approved(s) \/ AutoApproves(s))
      <3>1. Goto("inner")
        BY <1>9, <2>3 DEF TickBoundary
      <3>2. FilesFit'
        BY <1>1, <1>2, <2>1, <3>1, AutoApproveFits DEF Goto, storyVars
      <3>3. /\ attempts[s] < MaxAttempts
            /\ s \notin wt /\ s \notin idx
        BY <1>2, <2>1
        DEF Fits, AttemptsFit, TreeFits, TreePhases, StagedPhases, RetryPhases,
            CriticalPhases
      <3>4. QED
        BY <1>2, <2>1, <3>1, <3>2, <3>3, GotoStory DEF PhaseAt, MidTick, TickedTree
    <2>4. QED
      BY <2>2, <2>3
  <1>10. CASE InnerBoundary
    <2>1. CASE Halted(s)
      <3>1. FilesFit'
        BY <1>2, <1>10, <2>1 DEF InnerBoundary, NoProgress, FilesFit, storyVars
      <3>2. QED
        BY <1>10, <2>1, <3>1, NoProgressStory DEF InnerBoundary
    <2>2. CASE ~Halted(s)
      <3>1. phase[s] \in {"PUSH_APPROVAL_PENDING", "PR_APPROVAL_PENDING"}
        BY <1>10, <2>2
        DEF InnerBoundary, StoryInv, MidTick, MidTickFits, PhaseAt, Halted
      <3>2. InnerResume(phase[s]) \in {"PR_APPROVAL_PENDING", "DONE"}
        BY <3>1 DEF InnerResume
      <3>3. QED
        BY <1>6, <1>7, <1>10, <2>2, <3>1, <3>2 DEF InnerBoundary
    <2>3. QED
      BY <2>1, <2>2
  <1>11. QED
    BY <1>3, <1>4, <1>5, <1>8, <1>9, <1>10

\* The dispatch of a candidate, its fallback and its preview.
LEMMA DispatchStory ==
    TypeOK /\ StoryInv /\ (TickDispatch \/ AfterDispatchFailure \/ TickPreview
                           \/ TickFixLoop) => StoryInv'
  <1> SUFFICES ASSUME TypeOK, StoryInv,
                      TickDispatch \/ AfterDispatchFailure \/ TickPreview
                      \/ TickFixLoop
               PROVE  StoryInv'
    OBVIOUS
  <1> DEFINE s == Current
  <1>1. pc # "idle" /\ s \in Stories
    BY CurrentType
    DEF TypeOK, TickDispatch, AfterDispatchFailure, TickPreview, TickFixLoop,
        Ticking
  <1>2. /\ UNCHANGED <<wt, idx, appr>>
        /\ FilesFit
        /\ Fits(phase[s], appr[s], attempts[s], reviewed[s], s \in wt, s \in idx,
             unrolled[s])
        /\ attempts[s] \in Nat /\ MaxAttempts \in Nat \ {0}
    BY <1>1, LoopAssumption
    DEF TickDispatch, AfterDispatchFailure, TickPreview, TickFixLoop,
        repoVars, gateVars, StoryInv, FilesFit, TypeOK, StoryTypeOK
  <1>3. phase[s] \in {"OPENCODE_RUNNING", "PATCH_PREVIEW", "FIX_LOOP", "STOPPED"}
    BY DEF TickDispatch, AfterDispatchFailure, TickPreview, TickFixLoop, Ticking,
           StoryInv, MidTick, MidTickFits, PhaseAt
  <1>4. attempts[s] < MaxAttempts /\ s \notin idx /\ RetryFits(s \in wt, unrolled[s])
    <2>1. CASE AfterDispatchFailure
      BY <2>1 DEF AfterDispatchFailure, StoryInv, MidTick, MidTickFits, TickedTree
    <2>2. CASE TickDispatch \/ TickPreview \/ TickFixLoop
      <3>1. phase[s] \in {"OPENCODE_RUNNING", "PATCH_PREVIEW", "FIX_LOOP"}
        BY <2>2 DEF TickDispatch, TickPreview, TickFixLoop, Ticking
      <3>2. QED
        BY <1>2, <3>1
        DEF Fits, AttemptsFit, TreeFits, TreePhases, StagedPhases, RetryPhases,
            CriticalPhases
    <2>3. QED
      BY <2>1, <2>2
  \* A new candidate takes back the review of the old one, of no other story.
  <1>5. ASSUME UNCHANGED storyVars, NEW b \in BOOLEAN,
               reviewed' = [reviewed EXCEPT ![s] = b]
        PROVE  FilesFit'
    <2>1. \A t \in Stories \ {s} : reviewed'[t] = reviewed[t]
      BY <1>5 DEF TypeOK, GateTypeOK
    <2>2. Fits(phase[s], appr[s], attempts[s], reviewed'[s], s \in wt, s \in idx,
               unrolled[s])
      BY <1>2, <1>3 DEF Fits, ReviewFits
    <2>3. QED
      BY <1>2, <1>5, <2>1, <2>2 DEF FilesFit, storyVars
  <1>6. ASSUME UNCHANGED <<storyVars, reviewed>>
        PROVE  FilesFit'
    BY <1>2, <1>6 DEF FilesFit, storyVars
  \* Outside APPLY .. COMMIT and before any decision every record fits.
  <1>7. ASSUME NEW u, ThenSave(u), FilesFit',
               u.phase \in {"PATCH_PREVIEW", "OPENCODE_RUNNING", "ESCALATED",
                            "FIX_LOOP"},
               u.attempts <= MaxAttempts,
               u.attempts = MaxAttempts => u.phase = "ESCALATED",
               u.unrolled = unrolled[s],
               u.phase = "PATCH_PREVIEW" =>
                   u.appr.act = "patch" \/ (u.appr.act = "keep" /\ appr[s].act = "patch"),
               u.then = "fallback" => u.appr.act = "patch",
               u.then = "fallback" => u.phase = "OPENCODE_RUNNING",
               u.then # "push"
        PROVE  StoryInv'
    <2>1. OutcomeFits(u, appr'[s], reviewed'[s], s \in wt', s \in idx')
      BY <1>2, <1>4, <1>7
      DEF OutcomeFits, Fits, ReviewFits, AttemptsFit, TreeFits, TreePhases,
          RetryPhases
    <2>2. QED
      BY <1>7, <2>1, ThenSaveStory
  <1>8. CASE TickDispatch
    <2>1. PICK ok \in Succeeds("dispatch"), wait \in BOOLEAN :
            /\ ThenSave(IF ok
                        THEN [Unblocked(s, "PATCH_PREVIEW") EXCEPT
                                !.appr = DispatchApproval]
                        ELSE [ToPhase(s, "OPENCODE_RUNNING") EXCEPT
                                !.backoff = wait, !.appr = DispatchApproval,
                                !.then = "fallback"])
            /\ reviewed' = [reviewed EXCEPT ![s] = ~ok /\ @]
      BY <1>8 DEF TickDispatch
    <2>2. FilesFit'
      BY <1>5, <2>1 DEF ThenSave
    <2>3. CASE ok
      <3> DEFINE u == [Unblocked(s, "PATCH_PREVIEW") EXCEPT
                         !.appr = DispatchApproval]
      <3>1. /\ u.phase = "PATCH_PREVIEW" /\ u.attempts = attempts[s]
            /\ u.then = "go" /\ u.unrolled = unrolled[s]
            /\ u.appr.act = "patch"
        BY DEF Unblocked, ToPhase, WaitingPhases, DispatchApproval, Record
      <3>2. ThenSave(u)
        BY <2>1, <2>3
      <3> HIDE DEF u
      <3>3. QED
        BY <1>2, <1>4, <1>7, <2>2, <3>1, <3>2
    <2>4. CASE ~ok
      <3> DEFINE u == [ToPhase(s, "OPENCODE_RUNNING") EXCEPT
                         !.backoff = wait, !.appr = DispatchApproval,
                         !.then = "fallback"]
      <3>1. /\ u.phase = "OPENCODE_RUNNING" /\ u.attempts = attempts[s]
            /\ u.then = "fallback" /\ u.unrolled = unrolled[s]
            /\ u.appr.act = "patch"
        BY DEF ToPhase, DispatchApproval, Record
      <3>2. ThenSave(u)
        BY <2>1, <2>4
      <3> HIDE DEF u
      <3>3. QED
        BY <1>2, <1>4, <1>7, <2>2, <3>1, <3>2
    <2>5. QED
      BY <2>3, <2>4
  <1>9. CASE AfterDispatchFailure
    <2> DEFINE n == attempts[s] + 1
    <2>1. FilesFit'
      <3>1. UNCHANGED storyVars
        BY <1>9 DEF AfterDispatchFailure, ThenSave
      <3>2. reviewed' = [reviewed EXCEPT ![s] = FALSE] \/ UNCHANGED reviewed
        BY <1>9 DEF AfterDispatchFailure
      <3>3. QED
        BY <1>5, <1>6, <3>1, <3>2
    <2>2. CASE ThenSave(Unblocked(s, "PATCH_PREVIEW"))
      <3> DEFINE u == Unblocked(s, "PATCH_PREVIEW")
      <3>1. /\ u.phase = "PATCH_PREVIEW" /\ u.attempts = attempts[s]
            /\ u.then = "go" /\ u.unrolled = unrolled[s]
            /\ u.appr.act = "keep" /\ appr[s].act = "patch"
        BY <1>9
        DEF Unblocked, ToPhase, WaitingPhases, Kept, Record, AfterDispatchFailure,
            StoryInv, MidTick, MidTickFits
      <3>2. ThenSave(u)
        BY <2>2
      <3> HIDE DEF u
      <3>3. QED
        BY <1>2, <1>4, <1>7, <2>1, <3>1, <3>2
    <2>3. CASE n >= MaxAttempts /\ ThenSave([Unblocked(s, "ESCALATED") EXCEPT !.attempts = n])
      <3> DEFINE u == [Unblocked(s, "ESCALATED") EXCEPT !.attempts = n]
      <3>1. /\ u.phase = "ESCALATED" /\ u.attempts = n /\ u.then = "break"
            /\ u.unrolled = unrolled[s]
        BY DEF Unblocked, ToPhase, WaitingPhases
      <3>2. ThenSave(u)
        BY <2>3
      <3>3. n <= MaxAttempts
        BY <1>2, <1>4
      <3> HIDE DEF u, n
      <3>4. QED
        BY <1>7, <2>1, <3>1, <3>2, <3>3
    <2>4. CASE /\ n < MaxAttempts
               /\ ThenSave([ToPhase(s, "keep") EXCEPT
                              !.status = "keep", !.attempts = n, !.then = "break"])
      <3> DEFINE u == [ToPhase(s, "keep") EXCEPT
                         !.status = "keep", !.attempts = n, !.then = "break"]
      <3>1. /\ u.phase = "keep" /\ u.appr.act = "keep" /\ u.attempts = n
            /\ u.then = "break" /\ u.unrolled = unrolled[s]
        BY DEF ToPhase, Kept, Record
      <3>2. phase[s] \in {"OPENCODE_RUNNING", "STOPPED"}
        BY <1>9
        DEF AfterDispatchFailure, StoryInv, MidTick, MidTickFits, PhaseAt
      <3>3. OutcomeFits(u, appr'[s], reviewed'[s], s \in wt', s \in idx')
        BY <1>2, <1>4, <2>4, <3>1, <3>2
        DEF OutcomeFits, Fits, ReviewFits, AttemptsFit, TreeFits
      <3>4. QED
        BY <2>1, <2>4, <3>3, ThenSaveStory
    <2>5. QED
      BY <1>9, <2>2, <2>3, <2>4 DEF AfterDispatchFailure
  <1>10. CASE TickPreview
    <2>1. FilesFit'
      BY <1>6, <1>10 DEF TickPreview, ThenSave, gateVars
    <2>2. CASE ThenSave([Unblocked(s, "DIFF_APPROVAL_PENDING") EXCEPT
                           !.appr = PatchApproval])
      <3> DEFINE u == [Unblocked(s, "DIFF_APPROVAL_PENDING") EXCEPT
                         !.appr = PatchApproval]
      <3>1. /\ u.phase = "DIFF_APPROVAL_PENDING" /\ u.attempts = attempts[s]
            /\ u.then = "break" /\ u.unrolled = unrolled[s]
            /\ u.appr = PatchApproval
            /\ PatchApproval.act = "apply" /\ PatchApproval.st = "pending"
        BY DEF Unblocked, ToPhase, WaitingPhases, PatchApproval, Pending, Record
      <3> HIDE DEF u
      <3>2. OutcomeFits(u, appr'[s], reviewed'[s], s \in wt', s \in idx')
        BY <1>2, <1>4, <3>1
        DEF OutcomeFits, Fits, ReviewFits, AttemptsFit, TreeFits, RetryPhases
      <3>3. QED
        BY <2>1, <2>2, <3>2, ThenSaveStory DEF u
    <2>3. CASE ThenSave(ToPhase(s, "ESCALATED"))
      BY <1>2, <1>4, <1>7, <2>1, <2>3 DEF ToPhase, WaitingPhases
    <2>4. CASE ThenSave(Unblocked(s, "DIFF_APPROVAL_PENDING"))
      <3> DEFINE u == Unblocked(s, "DIFF_APPROVAL_PENDING")
      <3>1. /\ u.phase = "DIFF_APPROVAL_PENDING" /\ u.attempts = attempts[s]
            /\ u.then = "break" /\ u.unrolled = unrolled[s]
            /\ u.appr.act = "keep"
        BY DEF Unblocked, ToPhase, WaitingPhases, Kept, Record
      <3>2. appr[s].act = "apply" /\ appr[s].st = "approved" => reviewed[s]
        BY <1>2, <1>10 DEF TickPreview, Ticking, Fits, ReviewFits
      <3> HIDE DEF u
      <3>3. appr' = appr /\ reviewed' = reviewed /\ wt' = wt /\ idx' = idx
        BY <1>10 DEF TickPreview, repoVars, gateVars
      <3>4. /\ ReviewFits(u.phase, appr[s], reviewed[s])
            /\ AttemptsFit(u.phase, u.attempts)
            /\ TreeFits(u.phase, appr[s], s \in wt, s \in idx, u.unrolled)
        BY <1>2, <1>4, <3>1, <3>2 DEF ReviewFits, AttemptsFit, TreeFits, RetryPhases
      <3>5. OutcomeFits(u, appr'[s], reviewed'[s], s \in wt', s \in idx')
        BY <3>1, <3>3, <3>4 DEF OutcomeFits, Fits
      <3>6. QED
        BY <2>1, <2>4, <3>5, ThenSaveStory DEF u
    <2>5. QED
      BY <1>10, <2>2, <2>3, <2>4 DEF TickPreview
  <1>11. CASE TickFixLoop
    <2>1. ThenSave(Unblocked(s, "OPENCODE_RUNNING"))
      BY <1>11 DEF TickFixLoop
    <2>2. FilesFit'
      BY <1>6, <1>11, <2>1 DEF TickFixLoop, ThenSave, gateVars
    <2>3. QED
      BY <1>2, <1>4, <1>7, <2>1, <2>2 DEF Unblocked, ToPhase, WaitingPhases
  <1>12. QED
    BY <1>8, <1>9, <1>10, <1>11

\* After a failed attempt the change has left the tree, or the rollback's verdict is
\* bad, or the story gives up.
LEMMA RetryStory ==
    ASSUME StoryTypeOK, FilesFit', Current \in Stories, NEW bad \in BOOLEAN,
           attempts[Current] < MaxAttempts, Current \notin idx',
           \/ RetryFits(Current \in wt', bad) /\ Retry(Current, bad)
           \/ GiveUp(Current, bad)
    PROVE  StoryInv'
  <1> DEFINE s == Current
  <1>1. /\ attempts[s] \in Nat /\ MaxAttempts \in Nat
    BY LoopAssumption DEF StoryTypeOK
  <1>2. CASE RetryFits(s \in wt', bad) /\ Retry(s, bad)
    <2> DEFINE u == [ToPhase(s, "FIX_LOOP") EXCEPT !.attempts = @ + 1, !.unrolled = bad]
    <2>1. /\ u.phase = "FIX_LOOP" /\ u.attempts = attempts[s] + 1
          /\ u.then = "break" /\ u.appr.act = "keep" /\ u.unrolled = bad
      BY DEF ToPhase, Kept, Record
    <2>2. ThenSave(u) /\ attempts[s] + 1 < MaxAttempts
      BY <1>2 DEF Retry
    <2> HIDE DEF u
    <2>3. OutcomeFits(u, appr'[s], reviewed'[s], s \in wt', s \in idx')
      BY <1>1, <1>2, <2>1, <2>2
      DEF OutcomeFits, Fits, ReviewFits, AttemptsFit, TreeFits, RetryPhases
    <2>4. QED
      BY <2>2, <2>3, ThenSaveStory
  <1>3. CASE GiveUp(s, bad)
    <2> DEFINE u == [ToPhase(s, "ESCALATED") EXCEPT !.attempts = @ + 1, !.unrolled = bad]
    <2>1. /\ u.phase = "ESCALATED" /\ u.attempts = attempts[s] + 1
          /\ u.then = "break" /\ u.appr.act = "keep"
      BY DEF ToPhase, Kept, Record
    <2>2. ThenSave(u)
      BY <1>3 DEF GiveUp
    <2> HIDE DEF u
    <2>3. OutcomeFits(u, appr'[s], reviewed'[s], s \in wt', s \in idx')
      BY <1>1, <2>1
      DEF OutcomeFits, Fits, ReviewFits, AttemptsFit, TreeFits, TreePhases,
          StagedPhases, RetryPhases
    <2>4. QED
      BY <2>2, <2>3, ThenSaveStory
  <1>4. QED
    BY <1>2, <1>3

\* Escalation fits whatever the tree holds.
LEMMA EscalateStory ==
    ASSUME StoryTypeOK, FilesFit', Current \in Stories,
           attempts[Current] < MaxAttempts,
           NEW u, ThenSave(u),
           \/ u = ToPhase(Current, "ESCALATED")
           \/ \E bad : u = [ToPhase(Current, "ESCALATED") EXCEPT !.unrolled = bad]
    PROVE  StoryInv'
  <1> DEFINE s == Current
  <1>1. /\ u.phase = "ESCALATED" /\ u.attempts = attempts[s]
        /\ u.then = "break" /\ u.appr.act = "keep"
    BY DEF ToPhase, Kept, Record, WaitingPhases
  <1>2. attempts[s] \in Nat /\ MaxAttempts \in Nat
    BY LoopAssumption DEF StoryTypeOK
  <1>4. OutcomeFits(u, appr'[s], reviewed'[s], s \in wt', s \in idx')
    BY <1>1, <1>2
    DEF OutcomeFits, Fits, ReviewFits, AttemptsFit, TreeFits, TreePhases,
        StagedPhases, RetryPhases
  <1>5. QED
    BY <1>4, ThenSaveStory

\* What a rollback leaves of the story's own change, when nothing of it is staged.
LEMMA RollbackFits ==
    ASSUME NEW s, NEW tree, s \notin idx, NEW r \in Rollbacks(tree, s)
    PROVE  /\ r.tree \subseteq tree /\ r.bad \in BOOLEAN
           /\ RetryFits(s \in r.tree, r.bad)
  <1>1. /\ r.tree \in {RolledBack(tree, s), tree} /\ r.bad \in BOOLEAN
        /\ r.tree = RolledBack(tree, s) \/ "rollback" \in Faults
        /\ r.tree \cup idx # {} => r.bad
    BY DEF Rollbacks
  <1>2. RolledBack(tree, s) = tree \ {s}
    BY DEF RolledBack
  <1>3. s \in r.tree => "rollback" \in Faults /\ r.bad
    BY <1>1, <1>2
  <1>4. QED
    BY <1>1, <1>2, <1>3 DEF RetryFits

LEMMA TreeTickStory ==
    TypeOK /\ StoryInv /\ (TickApply \/ TickGates \/ TickCommit \/ Commit
                           \/ Promote \/ Rewind \/ EnsurePushApproval)
    => StoryInv'
  <1> SUFFICES ASSUME TypeOK, StoryInv,
                      TickApply \/ TickGates \/ TickCommit \/ Commit
                      \/ Promote \/ Rewind \/ EnsurePushApproval
               PROVE  StoryInv'
    OBVIOUS
  <1> DEFINE s == Current
  <1>1. pc # "idle" /\ s \in Stories /\ StoryTypeOK
    BY CurrentType
    DEF TypeOK, TickApply, TickGates, TickCommit, Commit, Promote, Rewind,
        EnsurePushApproval, Ticking
  <1>2. /\ UNCHANGED <<phase, attempts, appr, reviewed, unrolled>>
        /\ FilesFit
        /\ Fits(phase[s], appr[s], attempts[s], reviewed[s], s \in wt, s \in idx,
             unrolled[s])
        /\ attempts[s] \in Nat /\ MaxAttempts \in Nat \ {0}
    <2>1. UNCHANGED <<storyVars, gateVars>>
      BY DEF TickApply, TickGates, TickCommit, Commit, Promote, Rewind,
             EnsurePushApproval, RetryOrEscalate, RepairDecision, Retry, GiveUp,
             CommitFailed, Promoted, ThenSave, Goto
    <2>2. QED
      BY <1>1, <2>1, LoopAssumption
      DEF storyVars, gateVars, StoryInv, FilesFit, StoryTypeOK
  <1>3. attempts[s] < MaxAttempts
    <2>1. CASE Ticking({"APPLY", "GATES", "COMMIT"})
      BY <1>2, <2>1 DEF Ticking, Fits, AttemptsFit
    <2>2. CASE pc \in MidTick
      BY <2>2 DEF StoryInv, MidTickFits
    <2>3. QED
      BY <2>1, <2>2
      DEF TickApply, TickGates, TickCommit, Commit, Promote, Rewind,
          EnsurePushApproval, Ticking, MidTick
  <1>4. \A tree : \A r \in Rollbacks(tree, s) : r.tree \subseteq tree /\ r.bad \in BOOLEAN
    BY DEF Rollbacks, RolledBack
  <1>5. CASE TickApply
    <2>1. phase[s] = "APPLY" /\ s \notin idx /\ idx' = idx
      BY <1>2, <1>5 DEF TickApply, Ticking, Fits, TreeFits, StagedPhases
    <2>2. FilesFit'
      <3>1. wt' \subseteq wt \cup {s} /\ "APPLY" \in TreePhases
        BY <1>4, <1>5 DEF TickApply, TreePhases, CriticalPhases
      <3>2. s \in wt' => s \in wt \/ appr[s].act # "patch"
        BY <1>5 DEF TickApply, ApplyAllowed
      <3>3. QED
        BY <1>1, <1>2, <2>1, <3>1, <3>2, TreeChange
    <2>p. appr[s].act = "patch" /\ s \in wt => "rollback" \in Faults
      BY <1>2, <2>1 DEF Fits, TreeFits
    <2>3. CASE /\ ThenSave(Unblocked(s, "GATES"))
               /\ ApplyAllowed(s) \/ wt' = wt
      <3> DEFINE u == Unblocked(s, "GATES")
      <3>1. /\ u.phase = "GATES" /\ u.attempts = attempts[s]
            /\ u.then = "go" /\ u.appr.act = "keep"
        BY DEF Unblocked, ToPhase, Kept, Record, WaitingPhases
      <3>2. ThenSave(u)
        BY <2>3
      <3> HIDE DEF u
      <3>3. OutcomeFits(u, appr'[s], reviewed'[s], s \in wt', s \in idx')
        BY <1>3, <1>2, <2>1, <2>3, <2>p, <3>1
        DEF OutcomeFits, Fits, ReviewFits, AttemptsFit, TreeFits, TreePhases,
            StagedPhases, RetryPhases, CriticalPhases, ApplyAllowed
      <3>4. QED
        BY <2>2, <3>2, <3>3, ThenSaveStory
    <2>4. ASSUME NEW r \in Rollbacks(wt \cup {s}, s), wt' = r.tree,
                 RetryOrEscalate(s, r.bad)
          PROVE  StoryInv'
      <3>1. r.bad \in BOOLEAN /\ RetryFits(s \in wt', r.bad)
        BY <2>1, <2>4, RollbackFits
      <3>2. QED
        BY <1>1, <1>3, <2>1, <2>2, <2>4, <3>1, RetryStory DEF RetryOrEscalate
    <2>5. CASE ThenSave(ToPhase(s, "ESCALATED"))
      BY <1>1, <1>3, <2>2, <2>5, EscalateStory
    <2>6. QED
      BY <1>5, <2>3, <2>4, <2>5 DEF TickApply
  <1>6. CASE TickGates
    <2>1. phase[s] = "GATES" /\ s \notin idx /\ idx' = idx
      BY <1>2, <1>6 DEF TickGates, Ticking, Fits, TreeFits, StagedPhases
    <2>2. FilesFit'
      <3>1. wt' \subseteq wt
        BY <1>4, <1>6 DEF TickGates
      <3>2. QED
        BY <1>1, <1>2, <2>1, <3>1, TreeChange
    <2>3. CASE ThenSave([Unblocked(s, "COMMIT_APPROVAL_PENDING") EXCEPT
                           !.appr = CommitApproval])
      <3> DEFINE u == [Unblocked(s, "COMMIT_APPROVAL_PENDING") EXCEPT
                         !.appr = CommitApproval]
      <3>1. /\ u.phase = "COMMIT_APPROVAL_PENDING" /\ u.attempts = attempts[s]
            /\ u.then = "break"
        BY DEF Unblocked, ToPhase, WaitingPhases
      <3>2. ThenSave(u)
        BY <2>3
      <3> HIDE DEF u
      <3>3. OutcomeFits(u, appr'[s], reviewed'[s], s \in wt', s \in idx')
        BY <1>3, <1>2, <2>1, <3>1
        DEF OutcomeFits, Fits, ReviewFits, AttemptsFit, TreeFits, TreePhases,
            RetryPhases, CriticalPhases
      <3>4. QED
        BY <2>2, <3>2, <3>3, ThenSaveStory
    <2>4. CASE ThenSave(ToPhase(s, "ESCALATED"))
      BY <1>1, <1>3, <2>2, <2>4, EscalateStory
    <2>5. ASSUME NEW bad \in BOOLEAN, RetryFits(s \in wt', bad), RepairDecision(s, bad)
          PROVE  StoryInv'
      BY <1>1, <1>3, <2>1, <2>2, <2>5, RetryStory DEF RepairDecision
    <2>6. ASSUME NEW r \in Rollbacks(wt, s), wt' = r.tree, RepairDecision(s, r.bad)
          PROVE  StoryInv'
      <3>1. r.bad \in BOOLEAN /\ RetryFits(s \in wt', r.bad)
        BY <2>1, <2>6, RollbackFits
      <3>2. QED
        BY <2>5, <2>6, <3>1
    <2>7. ASSUME NothingToApply(s), wt' = wt, RepairDecision(s, FALSE)
          PROVE  StoryInv'
      <3>1. RetryFits(s \in wt', FALSE)
        BY <1>2, <2>1, <2>7 DEF NothingToApply, Fits, TreeFits, RetryFits
      <3>2. QED
        BY <2>5, <2>7, <3>1
    <2>8. \/ ThenSave([Unblocked(s, "COMMIT_APPROVAL_PENDING") EXCEPT
                         !.appr = CommitApproval])
          \/ ThenSave(ToPhase(s, "ESCALATED"))
          \/ \E r \in Rollbacks(wt, s) : wt' = r.tree /\ RepairDecision(s, r.bad)
          \/ NothingToApply(s) /\ wt' = wt /\ RepairDecision(s, FALSE)
      BY <1>6 DEF TickGates
    <2>9. QED
      BY <2>3, <2>4, <2>6, <2>7, <2>8
  <1>7. ASSUME CommitFailed(s) PROVE StoryInv'
    <2>1. PICK r \in Rollbacks(wt, s) :
            /\ wt' = r.tree
            /\ ThenSave([ToPhase(s, "ESCALATED") EXCEPT !.unrolled = r.bad])
      BY <1>7 DEF CommitFailed
    <2>2. wt' \subseteq wt /\ idx' = idx
      BY <1>4, <1>7, <2>1 DEF CommitFailed
    <2>3. FilesFit'
      BY <1>1, <1>2, <2>2, TreeChange
    <2>4. QED
      BY <1>1, <1>3, <2>1, <2>3, EscalateStory
  <1>8. CASE TickCommit
    <2>1. phase[s] = "COMMIT"
      BY <1>8 DEF TickCommit, Ticking
    <2>2. CASE idx' = Staged(s) /\ Goto("staged") /\ UNCHANGED wt
      <3>1. idx' \subseteq idx \cup {s} /\ (s \in wt' => s \in idx')
        BY <2>2 DEF Staged
      <3>2. FilesFit'
        BY <1>1, <1>2, <2>1, <2>2, <3>1, TreeChange DEF StagedPhases
      <3>3. QED
        BY <1>3, <2>1, <2>2, <3>1, <3>2, GotoStory DEF MidTick, PhaseAt, TickedTree
    <2>3. QED
      BY <1>7, <1>8, <2>2 DEF TickCommit
  <1>9. CASE Commit
    <2>1. CASE CommitIndex /\ Goto("committed")
      <3>1. /\ wt' = wt \ idx /\ idx' = {}
            /\ s \in wt => s \in idx
            /\ phase[s] \in {"COMMIT", "STOPPED"}
        BY <1>9, <2>1
        DEF Commit, CommitIndex, StoryInv, MidTick, MidTickFits, PhaseAt, TickedTree
      <3>2. FilesFit'
        BY <1>1, <1>2, <3>1, TreeChange
      <3>3. s \notin wt' \cup idx'
        BY <3>1
      <3>4. QED
        BY <1>3, <2>1, <3>1, <3>2, <3>3, GotoStory DEF MidTick, PhaseAt, TickedTree
    <2>2. QED
      BY <1>7, <1>9, <2>1 DEF Commit
  <1>10. CASE Promote
    <2>1. CASE Goto("branched") /\ UNCHANGED treeVars
      <3>1. /\ s \notin wt' \cup idx'
            /\ phase[s] \in {"COMMIT", "STOPPED"}
            /\ UNCHANGED <<wt, idx>>
        BY <1>10, <2>1
        DEF Promote, treeVars, StoryInv, MidTick, MidTickFits, PhaseAt, TickedTree
      <3>2. FilesFit'
        BY <1>1, <1>2, <3>1, TreeChange
      <3>3. QED
        BY <1>3, <2>1, <3>1, <3>2, GotoStory DEF MidTick, PhaseAt, TickedTree
    <2>2. QED
      BY <1>7, <1>10, <2>1 DEF Promote
  <1>11. CASE Rewind
    <2>1. CASE ResetToParent /\ Promoted(s)
      <3> DEFINE u == [Unblocked(s, "PUSH_APPROVAL_PENDING") EXCEPT !.then = "push"]
      <3>1. /\ wt' \subseteq wt /\ idx' = {}
            /\ s \notin wt
        BY <1>11, <2>1
        DEF Rewind, ResetToParent, StoryInv, MidTick, MidTickFits, TickedTree
      <3>2. FilesFit'
        BY <1>1, <1>2, <3>1, TreeChange
      <3>3. /\ u.phase = "PUSH_APPROVAL_PENDING" /\ u.attempts = attempts[s]
            /\ u.then = "push"
        BY DEF Unblocked, ToPhase
      <3>4. ThenSave(u)
        BY <2>1 DEF Promoted
      <3> HIDE DEF u
      <3>5. OutcomeFits(u, appr'[s], reviewed'[s], s \in wt', s \in idx')
        BY <1>2, <1>3, <3>1, <3>3
        DEF OutcomeFits, Fits, ReviewFits, AttemptsFit, TreeFits, RetryPhases
      <3>6. QED
        BY <3>2, <3>4, <3>5, ThenSaveStory
    <2>2. QED
      BY <1>7, <1>11, <2>1 DEF Rewind
  <1>12. CASE EnsurePushApproval
    <2> DEFINE u == [Unblocked(s, "PUSH_APPROVAL_PENDING") EXCEPT
                       !.appr = PushApproval]
    <2>1. s \notin wt /\ s \notin idx /\ UNCHANGED <<wt, idx>>
      BY <1>12
      DEF EnsurePushApproval, repoVars, StoryInv, MidTick, MidTickFits, TickedTree
    <2>2. FilesFit'
      BY <1>1, <1>2, <2>1, TreeChange
    <2>3. /\ u.phase = "PUSH_APPROVAL_PENDING" /\ u.attempts = attempts[s]
          /\ u.then = "break"
      BY DEF Unblocked, ToPhase, WaitingPhases
    <2>4. ThenSave(u) \/ ThenSave(ToPhase(s, "ESCALATED"))
      BY <1>12 DEF EnsurePushApproval
    <2> HIDE DEF u
    <2>5. OutcomeFits(u, appr'[s], reviewed'[s], s \in wt', s \in idx')
      BY <1>2, <1>3, <2>1, <2>3
      DEF OutcomeFits, Fits, ReviewFits, AttemptsFit, TreeFits, RetryPhases
    <2>6. QED
      BY <1>1, <1>3, <2>2, <2>4, <2>5, ThenSaveStory, EscalateStory
  <1>13. QED
    BY <1>5, <1>6, <1>8, <1>9, <1>10, <1>11, <1>12

LEMMA GitHubStory ==
    TypeOK /\ StoryInv /\ (TickPush \/ TickPr \/ TickReview) => StoryInv'
  <1> SUFFICES ASSUME TypeOK, StoryInv, TickPush \/ TickPr \/ TickReview
               PROVE  StoryInv'
    OBVIOUS
  <1> DEFINE s == Current
  <1>1. pc # "idle" /\ s \in Stories /\ StoryTypeOK
    BY CurrentType DEF TypeOK, TickPush, TickPr, TickReview, Ticking
  <1>2. UNCHANGED <<storyVars, gateVars, wt, idx>>
    BY DEF TickPush, TickPr, TickReview, ThenSave, repoVars
  <1>3. /\ FilesFit'
        /\ Fits(phase[s], appr[s], attempts[s], reviewed[s], s \in wt, s \in idx,
             unrolled[s])
        /\ attempts[s] \in Nat /\ MaxAttempts \in Nat \ {0}
    BY <1>1, <1>2, LoopAssumption
    DEF storyVars, gateVars, StoryInv, FilesFit, StoryTypeOK
  <1>4. phase[s] \in {"PUSH", "PR", "PR_REVIEW"}
    BY DEF TickPush, TickPr, TickReview, Ticking
  <1>5. attempts[s] < MaxAttempts /\ s \notin wt /\ s \notin idx
    BY <1>3, <1>4
    DEF Fits, AttemptsFit, TreeFits, TreePhases, StagedPhases, RetryPhases,
        CriticalPhases
  <1>6. ASSUME NEW u, ThenSave(u), u.attempts = attempts[s],
               u.phase \in {"PR_APPROVAL_PENDING", "PR_REVIEW", "DONE", "FIX_LOOP"},
               u.then \in {"go", "break"}
        PROVE  StoryInv'
    <2>1. OutcomeFits(u, appr'[s], reviewed'[s], s \in wt', s \in idx')
      BY <1>2, <1>3, <1>5, <1>6
      DEF OutcomeFits, Fits, ReviewFits, AttemptsFit, TreeFits, RetryFits
    <2>2. QED
      BY <1>3, <1>6, <2>1, ThenSaveStory
  <1>7. ThenSave(ToPhase(s, "ESCALATED")) => StoryInv'
    BY <1>1, <1>3, <1>5, EscalateStory
  <1>8. \A p : /\ Unblocked(s, p).phase = p
               /\ Unblocked(s, p).attempts = attempts[s]
               /\ Unblocked(s, p).then \in {"go", "break"}
    BY DEF Unblocked, ToPhase
  <1>9. CASE TickPush
    <2> DEFINE u == [Unblocked(s, "PR_APPROVAL_PENDING") EXCEPT
                       !.appr = PrApproval]
    <2>1. /\ u.phase = "PR_APPROVAL_PENDING" /\ u.attempts = attempts[s]
          /\ u.then \in {"go", "break"}
      BY DEF Unblocked, ToPhase
    <2>2. ThenSave(u) \/ ThenSave(ToPhase(s, "ESCALATED"))
      BY <1>9 DEF TickPush
    <2> HIDE DEF u
    <2>3. QED
      BY <1>6, <1>7, <2>1, <2>2
  <1>10. CASE TickPr
    BY <1>6, <1>7, <1>8, <1>10 DEF TickPr
  <1>11. CASE TickReview
    <2> DEFINE u == [Unblocked(s, "FIX_LOOP") EXCEPT
                       !.repairs = @ + 1, !.then = "go"]
    <2>1. /\ u.phase = "FIX_LOOP" /\ u.attempts = attempts[s]
          /\ u.then = "go"
      BY DEF Unblocked, ToPhase
    <2>2. ThenSave(u) \/ ThenSave(Unblocked(s, "DONE"))
      BY <1>11 DEF TickReview
    <2> HIDE DEF u
    <2>3. QED
      BY <1>6, <1>8, <2>1, <2>2
  <1>12. QED
    BY <1>9, <1>10, <1>11

LEMMA TickStory == TypeOK /\ StoryInv /\ TickStep => StoryInv'
  BY QuietTickStory, DispatchStory, TreeTickStory, GitHubStory DEF TickStep

\* Approving a pending record reviews the candidate it stands for.
LEMMA DecisionStory ==
    ASSUME TypeOK, StoryInv, NEW s \in Stories,
           Approve(s) \/ Reject(s) \/ Lapse(s)
    PROVE  StoryInv'
  <1>1. /\ UNCHANGED <<phase, attempts, unrolled, wt, idx, pc, queue, upd>>
        /\ \A t \in Stories \ {s} : appr'[t] = appr[t] /\ reviewed'[t] = reviewed[t]
    BY DEF Approve, Reject, Lapse, repoVars, storyVars, daemonVars, TypeOK,
       GateTypeOK
  <1>2. /\ appr[s] # NoRecord
        /\ appr'[s].act = appr[s].act
        /\ reviewed[s] => reviewed'[s]
        /\ appr'[s].act = "apply" /\ appr'[s].st = "approved"
             => reviewed'[s] \/ appr[s].st = "approved"
    BY DEF Approve, Reject, Lapse, TypeOK, GateTypeOK, Records, NoRecord, Record
  <1>3. \A p : ReviewFits(p, appr[s], reviewed[s])
                 => ReviewFits(p, appr'[s], reviewed'[s])
    BY <1>2 DEF ReviewFits
  <1>4. FilesFit'
    <2>1. \A p, dirty, staged, un : TreeFits(p, appr[s], dirty, staged, un)
                                     => TreeFits(p, appr'[s], dirty, staged, un)
      BY <1>2 DEF TreeFits
    <2>2. QED
      BY <1>1, <1>3, <2>1 DEF StoryInv, FilesFit, Fits
  <1>5. pc' \in MidTick => MidTickFits'
    <2>1. pc \in MidTick => Current \in Stories
      BY CurrentType DEF TypeOK, MidTick
    <2>2. pc \in MidTick => appr'[Current].act = appr[Current].act
      BY <1>1, <1>2, <2>1
    <2>3. QED
      BY <1>1, <2>2 DEF StoryInv, MidTickFits, Current
  <1>6. CASE pc = "save"
    <2>1. OutcomeFits(upd, appr[Current], reviewed[Current],
                      Current \in wt, Current \in idx)
      BY <1>6 DEF StoryInv
    <2>2. CASE Current = s
      <3>1. \A p, r : ReviewFits(p, r, reviewed[s]) => ReviewFits(p, r, reviewed'[s])
        BY <1>2 DEF ReviewFits
      <3>2. OutcomeFits(upd, appr'[Current], reviewed'[Current],
                        Current \in wt, Current \in idx)
        BY <1>2, <1>3, <2>1, <2>2, <3>1 DEF OutcomeFits, Fits, TreeFits
      <3>3. QED
        BY <1>1, <1>4, <1>5, <3>2 DEF StoryInv, OutcomeFits, Current
    <2>3. CASE Current # s
      <3>1. Current \in Stories
        BY <1>6, CurrentType DEF TypeOK
      <3>2. appr'[Current] = appr[Current] /\ reviewed'[Current] = reviewed[Current]
        BY <1>1, <2>3, <3>1
      <3>3. QED
        BY <1>1, <1>4, <1>5, <2>1, <3>2 DEF StoryInv, OutcomeFits, Current
    <2>4. QED
      BY <2>2, <2>3
  <1>7. QED
    BY <1>1, <1>4, <1>5, <1>6 DEF StoryInv

\* A stopped story fits wherever it was stopped.
LEMMA PauseStory ==
    ASSUME TypeOK, StoryInv, NEW s \in Stories, Pause(s)
    PROVE  StoryInv'
  <1>1. /\ phase' = [phase EXCEPT ![s] = "STOPPED"]
        /\ UNCHANGED <<attempts, unrolled, wt, idx, appr, reviewed, pc, queue, upd>>
    BY DEF Pause, repoVars, gateVars, daemonVars
  <1>2. \A p, r, n, seen, dirty, staged, un :
          Fits(p, r, n, seen, dirty, staged, un) =>
            Fits("STOPPED", r, n, seen, dirty, staged, un)
    BY DEF Fits, ReviewFits, AttemptsFit, TreeFits, TreePhases, StagedPhases,
       RetryPhases
  <1>3. /\ phase'[s] = "STOPPED"
        /\ \A t \in Stories \ {s} : phase'[t] = phase[t]
    BY <1>1 DEF TypeOK, StoryTypeOK
  <1>4. FilesFit'
    BY <1>1, <1>2, <1>3 DEF StoryInv, FilesFit
  <1>5. pc # "idle" => phase'[Current] \in {phase[Current], "STOPPED"}
    BY <1>3, CurrentType DEF TypeOK
  <1>6. pc' \in MidTick => MidTickFits'
    BY <1>1, <1>5 DEF StoryInv, MidTickFits, MidTick, Current
  <1>7. CASE pc = "save"
    BY <1>1, <1>2, <1>4, <1>5, <1>6, <1>7 DEF StoryInv, OutcomeFits, Current
  <1>8. QED
    BY <1>1, <1>4, <1>6, <1>7 DEF StoryInv

LEMMA EnvironmentStory ==
    ASSUME TypeOK, StoryInv,
           OperatorStep \/ Crash \/ StartCycle \/ UNCHANGED vars
           \/ \E s \in Stories : BackoffOver(s)
    PROVE  StoryInv'
  <1>1. CASE /\ UNCHANGED <<phase, attempts, unrolled, appr, reviewed, wt, idx>>
             /\ UNCHANGED <<pc, queue, upd>> \/ pc' \in {"idle", "tick"}
    <2>1. FilesFit'
      BY <1>1 DEF StoryInv, FilesFit
    <2>2. QED
      BY <1>1, <2>1 DEF StoryInv, MidTick, MidTickFits, OutcomeFits, Current
  <1>2. ASSUME NEW s \in Stories, GrantResume(s) \/ BackoffOver(s)
        PROVE  StoryInv'
    BY <1>1, <1>2
    DEF GrantResume, BackoffOver, repoVars, storyVars, gateVars, daemonVars
  <1>3. CASE SwitchMode \/ Crash \/ StartCycle \/ UNCHANGED vars
    BY <1>1, <1>3
    DEF SwitchMode, Crash, StartCycle, vars, repoVars, storyVars, gateVars,
        daemonVars
  <1>4. QED
    BY <1>2, <1>3, DecisionStory, PauseStory DEF OperatorStep

LEMMA NextStory == TypeOK /\ StoryInv /\ [Next]_vars => StoryInv'
  BY TickStory, SaveStory, EnvironmentStory DEF Next, DaemonStep

LEMMA StoryInvariant == Spec => [](TypeOK /\ StoryInv)
  <1>1. Init => TypeOK /\ StoryInv
    BY InitType, InitStory
  <1>2. TypeOK /\ StoryInv /\ [Next]_vars => (TypeOK /\ StoryInv)'
    BY NextType, NextStory
  <1>3. QED
    BY <1>1, <1>2, PTL DEF Spec

-----------------------------------------------------------------------------
(* The theorems that need nothing but the invariant.                       *)

\* The three places that count attempts stop at the story's maximum, wherever
\* the story is paused, resumed or the daemon dies between count and check.
THEOREM AttemptsStayBounded == Spec => []AttemptsBounded
  <1>1. StoryInv => AttemptsBounded
    BY DEF StoryInv, FilesFit, Fits, AttemptsFit, AttemptsBounded
  <1>2. QED
    BY <1>1, StoryInvariant, PTL

\* A change lies in the tree only while its story owns the tree, was stopped there,
\* given up or resumed, or says in its file that a rollback failed: unless rollbacks
\* fail and candidates vanish as well (a rollback without paths calls itself done).
THEOREM TreeIsAccounted ==
    ASSUME ~({"rollback", "preview"} \subseteq Faults)
    PROVE  Spec => []TreeAccounted
  <1>1. TypeOK /\ StoryInv => TreeAccounted
    BY DEF TypeOK, RepoTypeOK, StoryInv, FilesFit, Fits, TreeFits, RetryFits,
       TreePhases, StagedPhases, RetryPhases, TreeAccounted, CriticalPhases
  <1>2. QED
    BY <1>1, StoryInvariant, PTL

\* What enters the tree was approved for apply, that very candidate and not an
\* earlier one: only TickApply adds to the tree.
THEOREM AppliedWereReviewed == Spec => ApplyReviewed
  <1>1. TypeOK /\ StoryInv /\ [Next]_vars
          => [\A s \in wt' \ wt : reviewed[s]]_vars
    <2> SUFFICES ASSUME TypeOK, StoryInv, [Next]_vars, NEW s \in wt' \ wt
                 PROVE  reviewed[s]
      OBVIOUS
    <2>1. CASE TickApply
      <3>1. s = Current /\ ApplyAllowed(s) /\ phase[s] = "APPLY"
        BY <2>1 DEF TickApply, Ticking, Rollbacks, RolledBack
      <3>2. s \in Stories
        BY <2>1, <3>1, CurrentType DEF TickApply, Ticking, TypeOK
      <3>3. QED
        BY <3>1, <3>2
        DEF ApplyAllowed, Approved, StoryInv, FilesFit, Fits, ReviewFits
    <2>2. CASE ~TickApply
      <3>1. wt' \subseteq wt
        BY <2>2, TreeShrinks
        DEF Next, vars, repoVars, DaemonStep, StartCycle, TickStep, Save,
            TickTerminal, ConsumeResume, TickPlan, TickWaiting, TickBoundary,
            InnerBoundary, TickDispatch, AfterDispatchFailure, TickPreview,
            TickFixLoop, TickCommit, Commit, CommitIndex, Promote, treeVars,
            Rewind, ResetToParent, EnsurePushApproval, TickPush, TickPr,
            TickReview, OperatorStep, Approve, Reject, Lapse, Pause, GrantResume,
            SwitchMode, BackoffOver, Crash
      <3>2. QED
        BY <3>1
    <2>3. QED
      BY <2>1, <2>2
  <1>2. QED
    BY <1>1, StoryInvariant, PTL DEF Spec, ApplyReviewed

-----------------------------------------------------------------------------
(* Where a tick may send the story it ticks.                               *)

\* The phases before a story's commit is promoted to its branch.
Unpromoted ==
    {"PLAN", "DIFF_APPROVAL_PENDING", "OPENCODE_RUNNING", "PATCH_PREVIEW",
     "FIX_LOOP", "APPLY", "GATES", "COMMIT_APPROVAL_PENDING", "COMMIT"}

LEMMA TickTarget ==
    ASSUME TypeOK, StoryInv, TickStep, pc' = "save"
    PROVE  \/ /\ Ticking(Unpromoted)
              /\ upd'.phase \in Unpromoted
           \/ pc = "fallback" /\ upd'.phase \in {"PATCH_PREVIEW", "keep"}
           \/ upd'.phase \in {"PLAN_APPROVAL_PENDING", "ESCALATED",
                              "PUSH_APPROVAL_PENDING", "PUSH",
                              "PR_APPROVAL_PENDING", "PR"}
           \/ /\ TickPr /\ PrAllowed(Current) /\ OpenPr(Current)
              /\ upd'.phase \in {"PR_REVIEW", "DONE"}
           \/ /\ TickReview
              /\ \/ upd'.phase = "DONE"
                 \/ upd'.phase = "FIX_LOOP" /\ repairs[Current] < RepairCap
           \/ /\ InnerBoundary /\ upd'.phase = "DONE"
              /\ Approved(Current) \/ AutoApproves(Current)
  <1> DEFINE s == Current
  <1>1. \A p : ToPhase(s, p).phase = p /\ Unblocked(s, p).phase = p
    BY DEF Unblocked, ToPhase
  <1>3. ~NoProgress /\ \A label \in MidTick : ~Goto(label)
    BY DEF NoProgress, Continue, Goto, MidTick
  <1>4. /\ \A bad : Retry(s, bad) \/ GiveUp(s, bad)
                      => upd'.phase \in {"FIX_LOOP", "ESCALATED"}
        /\ CommitFailed(s) => upd'.phase = "ESCALATED"
        /\ Promoted(s) => upd'.phase = "PUSH_APPROVAL_PENDING"
    BY DEF Retry, GiveUp, CommitFailed, Promoted, ThenSave, Unblocked, ToPhase
  <1>5. CASE TickTerminal
    BY <1>3, <1>5 DEF TickTerminal
  <1>6. CASE ConsumeResume
    BY <1>6 DEF ConsumeResume, ThenSave, Unblocked, ToPhase
  <1>7. CASE TickPlan
    <2>1. upd'.phase \in PlanDecisions
      BY <1>1, <1>7 DEF TickPlan, ThenSave
    <2>2. QED
      BY <1>7, <2>1, LoopAssumption DEF TickPlan, Ticking, Unpromoted
  <1>8. CASE TickWaiting
    <2>1. upd'.phase = InnerResume(phase[s]) /\ (Approved(s) \/ AutoApproves(s))
      BY <1>1, <1>3, <1>8 DEF TickWaiting, ThenSave
    <2>2. appr[s] # NoRecord
      BY <2>1 DEF Approved, AutoApproves, NoRecord, Record
    <2>3. phase[s] # "PLAN_APPROVAL_PENDING"
      BY <1>8, <2>2, CurrentType
      DEF TickWaiting, Ticking, TypeOK, StoryInv, FilesFit, Fits, ReviewFits
    <2>4. QED
      BY <1>8, <2>1, <2>3 DEF TickWaiting, Ticking, InnerResume, Unpromoted
  <1>9. CASE TickBoundary
    <2>1. upd'.phase = WiredResume(phase[s])
      BY <1>1, <1>3, <1>9 DEF TickBoundary, ThenSave, MidTick
    <2>2. QED
      BY <2>1 DEF WiredResume
  <1>10. CASE InnerBoundary
    <2>1. /\ upd'.phase = InnerResume(phase[s])
          /\ ~Halted(s) /\ (Approved(s) \/ AutoApproves(s))
      BY <1>1, <1>3, <1>10 DEF InnerBoundary, ThenSave
    <2>2. phase[s] \in {"PUSH_APPROVAL_PENDING", "PR_APPROVAL_PENDING"}
      BY <1>10, <2>1
      DEF InnerBoundary, Halted, StoryInv, MidTick, MidTickFits, PhaseAt
    <2>3. QED
      BY <1>10, <2>1, <2>2 DEF InnerResume
  <1>11. CASE TickDispatch
    <2>1. upd'.phase \in {"PATCH_PREVIEW", "OPENCODE_RUNNING"}
      BY <1>11 DEF TickDispatch, ThenSave, Unblocked, ToPhase
    <2>2. QED
      BY <1>11, <2>1 DEF TickDispatch, Ticking, Unpromoted
  <1>12. CASE AfterDispatchFailure
    BY <1>12 DEF AfterDispatchFailure, ThenSave, Unblocked, ToPhase
  <1>13. CASE TickPreview
    <2> DEFINE asked == [Unblocked(s, "DIFF_APPROVAL_PENDING") EXCEPT
                           !.appr = PatchApproval]
    <2>a. asked.phase = "DIFF_APPROVAL_PENDING"
      BY DEF Unblocked, ToPhase
    <2>b. upd' \in {asked, ToPhase(s, "ESCALATED"),
                    Unblocked(s, "DIFF_APPROVAL_PENDING")}
      BY <1>13 DEF TickPreview, ThenSave
    <2> HIDE DEF asked
    <2>1. upd'.phase \in {"DIFF_APPROVAL_PENDING", "ESCALATED"}
      BY <1>1, <2>a, <2>b
    <2>2. QED
      BY <1>13, <2>1 DEF TickPreview, Ticking, Unpromoted
  <1>14. CASE TickFixLoop
    BY <1>14 DEF TickFixLoop, ThenSave, Unblocked, ToPhase, Ticking, Unpromoted
  <1>15. CASE TickApply
    <2>1. upd'.phase \in {"GATES", "FIX_LOOP", "ESCALATED"}
      BY <1>1, <1>4, <1>15 DEF TickApply, RetryOrEscalate, ThenSave
    <2>2. QED
      BY <1>15, <2>1 DEF TickApply, Ticking, Unpromoted
  <1>16. CASE TickGates
    <2>1. upd'.phase \in {"COMMIT_APPROVAL_PENDING", "FIX_LOOP", "ESCALATED"}
      BY <1>1, <1>4, <1>16
      DEF TickGates, RepairDecision, ThenSave, Unblocked, ToPhase
    <2>2. QED
      BY <1>16, <2>1 DEF TickGates, Ticking, Unpromoted
  <1>17. CASE TickCommit \/ Commit \/ Promote
    BY <1>3, <1>4, <1>17 DEF TickCommit, Commit, Promote, MidTick
  <1>18. CASE Rewind \/ EnsurePushApproval
    <2> DEFINE asked == [Unblocked(s, "PUSH_APPROVAL_PENDING") EXCEPT
                           !.appr = PushApproval]
               refused == ToPhase(s, "ESCALATED")
    <2>1. asked.phase = "PUSH_APPROVAL_PENDING" /\ refused.phase = "ESCALATED"
      BY DEF Unblocked, ToPhase
    <2>2. EnsurePushApproval => upd' \in {asked, refused}
      BY DEF EnsurePushApproval, ThenSave
    <2> HIDE DEF asked, refused
    <2>3. QED
      BY <1>4, <1>18, <2>1, <2>2 DEF Rewind
  <1>19. CASE TickPush
    <2> DEFINE asked == [Unblocked(s, "PR_APPROVAL_PENDING") EXCEPT
                           !.appr = PrApproval]
               refused == ToPhase(s, "ESCALATED")
    <2>1. asked.phase = "PR_APPROVAL_PENDING" /\ refused.phase = "ESCALATED"
      BY DEF Unblocked, ToPhase
    <2>2. upd' \in {asked, refused}
      BY <1>19 DEF TickPush, ThenSave
    <2> HIDE DEF asked, refused
    <2>3. QED
      BY <2>1, <2>2
  <1>20. CASE TickPr
    BY <1>1, <1>20 DEF TickPr, ThenSave
  <1>21. CASE TickReview
    BY <1>21 DEF TickReview, ThenSave, Unblocked, ToPhase
  <1>22. QED
    BY <1>5, <1>6, <1>7, <1>8, <1>9, <1>10, <1>11, <1>12, <1>13, <1>14, <1>15,
       <1>16, <1>17, <1>18, <1>19, <1>20, <1>21
    DEF TickStep

-----------------------------------------------------------------------------
(* Deliveries: a story that is done has its pull request.                  *)

Landed(s, p) == p \in {"PR_REVIEW", "DONE"} => s \in pushed /\ s \in prs

PhaseAfterSave == IF upd.phase = "keep" THEN phase[Current] ELSE upd.phase

\* Needs that no approval comes between the wired loop's look at a record and
\* the inner loop's, which completes the story without a pull request.
LandedInv ==
    /\ \A s \in Stories : Landed(s, phase[s])
    /\ pc = "save" => Landed(Current, PhaseAfterSave)
    /\ pc = "inner" => ~Approved(Current) /\ ~AutoApproves(Current)

LEMMA RepoGrows ==
    ASSUME Next
    PROVE  pushed \subseteq pushed' /\ prs \subseteq prs'
  BY DEF Next, repoVars, DaemonStep, StartCycle, TickStep, Save, TickTerminal,
     ConsumeResume, TickPlan, TickWaiting, TickBoundary, InnerBoundary,
     TickDispatch, AfterDispatchFailure, TickPreview, TickFixLoop, TickApply,
     TickGates, TickCommit, Commit, Promote, Rewind, EnsurePushApproval,
     TickPush, PushBranch, TickPr, OpenPr, TickReview, OperatorStep, Approve,
     Reject, Lapse, Pause, GrantResume, SwitchMode, BackoffOver, Crash

\* A tick leaves story files and queue alone, or moves on without a patch.
LEMMA TickLeaves ==
    ASSUME TickStep
    PROVE  /\ UNCHANGED <<storyVars, crashes>>
           /\ pc' \in {"idle", "tick"} \/ UNCHANGED queue
  BY DEF TickStep, TickTerminal, ConsumeResume, TickPlan, TickWaiting,
     TickBoundary, InnerBoundary, TickDispatch, AfterDispatchFailure,
     TickPreview, TickFixLoop, TickApply, RetryOrEscalate, TickGates,
     RepairDecision, Retry, GiveUp, TickCommit, Commit, CommitFailed, Promote,
     Promoted, Rewind, EnsurePushApproval, TickPush, TickPr, TickReview,
     ThenSave, Goto, NoProgress, Continue

LEMMA NextLanded ==
    ASSUME Moves \cap {"approve", "mode"} = {},
           TypeOK, StoryInv, LandedInv, [Next]_vars
    PROVE  LandedInv'
  <1>1. CASE UNCHANGED vars
    BY <1>1
    DEF vars, LandedInv, Landed, PhaseAfterSave, Approved, AutoApproves,
        Current, repoVars, storyVars, gateVars, daemonVars
  <1>2. CASE TickStep
    <2>1. UNCHANGED storyVars /\ pushed \subseteq pushed' /\ prs \subseteq prs'
      BY <1>2, TickLeaves, RepoGrows DEF Next, DaemonStep
    <2>2. (\A s \in Stories : Landed(s, phase[s]))'
      BY <2>1 DEF LandedInv, Landed, storyVars
    <2>3. pc' \in {"save", "inner"} => Current' = Current /\ Current \in Stories
      BY <1>2, TickLeaves, CurrentType
      DEF Current, TypeOK, TickStep, TickTerminal, ConsumeResume, TickPlan,
          TickWaiting, TickBoundary, InnerBoundary, TickDispatch,
          AfterDispatchFailure, TickPreview, TickFixLoop, TickApply, TickGates,
          TickCommit, Commit, Promote, Rewind, EnsurePushApproval, TickPush,
          TickPr, TickReview, Ticking
    <2>4. pc' = "save" => Landed(Current, PhaseAfterSave)'
      <3>1. SUFFICES ASSUME pc' = "save" PROVE Landed(Current, PhaseAfterSave)'
        OBVIOUS
      <3>2. CASE upd'.phase \in {"PR_REVIEW", "DONE"}
        <4>1. ~InnerBoundary \/ ~(Approved(Current) \/ AutoApproves(Current))
          BY DEF InnerBoundary, LandedInv
        <4>2. (TickPr /\ PrAllowed(Current) /\ OpenPr(Current)) \/ TickReview
          BY <1>2, <3>1, <3>2, <4>1, TickTarget DEF Unpromoted
        <4>3. CASE TickPr /\ PrAllowed(Current) /\ OpenPr(Current)
          BY <2>1, <2>3, <3>1, <4>3 DEF PrAllowed, OpenPr, Landed
        <4>4. CASE TickReview
          BY <2>1, <2>3, <3>1, <4>4 DEF TickReview, Ticking, LandedInv, Landed
        <4>5. QED
          BY <4>2, <4>3, <4>4
      <3>3. CASE upd'.phase \notin {"PR_REVIEW", "DONE"}
        BY <2>1, <2>2, <2>3, <3>1, <3>3
        DEF Landed, PhaseAfterSave, storyVars
      <3>4. QED
        BY <3>2, <3>3
    <2>5. pc' = "inner" => (~Approved(Current) /\ ~AutoApproves(Current))'
      <3>1. SUFFICES ASSUME pc' = "inner"
                     PROVE  (~Approved(Current) /\ ~AutoApproves(Current))'
        OBVIOUS
      <3>2. TickBoundary /\ Goto("inner")
        BY <1>2, <3>1
        DEF TickStep, TickTerminal, ConsumeResume, TickPlan, TickWaiting,
            TickBoundary, InnerBoundary, TickDispatch, AfterDispatchFailure,
            TickPreview, TickFixLoop, TickApply, RetryOrEscalate, TickGates,
            RepairDecision, Retry, GiveUp, TickCommit, Commit, CommitFailed,
            Promote, Promoted, Rewind, EnsurePushApproval, TickPush, TickPr,
            TickReview, ThenSave, Goto, NoProgress, Continue
      <3>3. ~Approved(Current) /\ ~AutoApproves(Current)
        BY <3>2 DEF TickBoundary, Goto, ThenSave
      <3>4. UNCHANGED <<appr, fullauto>>
        BY <3>2, <3>3 DEF TickBoundary, AutoApprove
      <3>5. QED
        BY <2>3, <3>1, <3>3, <3>4 DEF Approved, AutoApproves
    <2>6. QED
      BY <2>2, <2>4, <2>5 DEF LandedInv
  <1>3. CASE Save
    <2>1. pc = "save" /\ Current \in Stories /\ UNCHANGED <<pushed, prs>>
      BY <1>3, CurrentType DEF Save, TypeOK, repoVars
    <2>2. /\ phase'[Current] = PhaseAfterSave
          /\ \A s \in Stories \ {Current} : phase'[s] = phase[s]
      BY <1>3, <2>1 DEF Save, PhaseAfterSave, TypeOK, StoryTypeOK
    <2>3. (\A s \in Stories : Landed(s, phase[s]))'
      BY <2>1, <2>2 DEF LandedInv, Landed
    <2>4. pc' \notin {"save", "inner"}
      BY <1>3 DEF Save, Continue
    <2>5. QED
      BY <2>3, <2>4 DEF LandedInv
  <1>4. ASSUME NEW s \in Stories, Pause(s)
        PROVE  LandedInv'
    <2>1. /\ phase' = [phase EXCEPT ![s] = "STOPPED"]
          /\ UNCHANGED <<pushed, prs, appr, fullauto, pc, queue, upd>>
      BY <1>4 DEF Pause, repoVars, gateVars, daemonVars
    <2>2. \A t \in Stories : phase'[t] \in {phase[t], "STOPPED"}
      BY <2>1 DEF TypeOK, StoryTypeOK
    <2>3. (\A t \in Stories : Landed(t, phase[t]))'
      BY <2>1, <2>2 DEF LandedInv, Landed
    <2>4. pc = "save" => Landed(Current, PhaseAfterSave)'
      <3>1. pc = "save" => Current \in Stories
        BY CurrentType DEF TypeOK
      <3>2. QED
        BY <2>1, <2>2, <3>1 DEF LandedInv, Landed, PhaseAfterSave, Current
    <2>5. QED
      BY <2>1, <2>3, <2>4 DEF LandedInv, Approved, AutoApproves, Current
  <1>5. ASSUME NEW s \in Stories, Reject(s) \/ Lapse(s)
        PROVE  LandedInv'
    <2>1. /\ UNCHANGED <<phase, pushed, prs, fullauto, pc, queue, upd>>
          /\ \A t \in Stories \ {s} : appr'[t] = appr[t]
          /\ appr'[s].st # "approved" \/ ~appr'[s].fresh
          /\ appr'[s].st # "pending" \/ ~appr'[s].fresh
      BY <1>5
      DEF Reject, Lapse, repoVars, storyVars, daemonVars, TypeOK, GateTypeOK, Records
    <2>2. pc # "idle" => Current \in Stories
      BY CurrentType DEF TypeOK
    <2>3. pc = "inner" => (~Approved(Current) /\ ~AutoApproves(Current))'
      BY <2>1, <2>2 DEF LandedInv, Approved, AutoApproves, Current
    <2>4. QED
      BY <2>1, <2>3 DEF LandedInv, Landed, PhaseAfterSave, Current
  <1>6. ASSUME NEW s \in Stories, GrantResume(s) \/ BackoffOver(s)
        PROVE  LandedInv'
    BY <1>6
    DEF GrantResume, BackoffOver, repoVars, storyVars, gateVars, daemonVars,
        LandedInv, Landed, PhaseAfterSave, Approved, AutoApproves, Current
  <1>7. CASE Crash \/ StartCycle
    BY <1>7
    DEF Crash, StartCycle, repoVars, storyVars, LandedInv, Landed
  <1>8. ~SwitchMode /\ \A s \in Stories : ~Approve(s)
    BY DEF SwitchMode, Approve
  <1>9. QED
    BY <1>1, <1>2, <1>3, <1>4, <1>5, <1>6, <1>7, <1>8
    DEF Next, DaemonStep, OperatorStep

\* When the loop's own auto-approval is the only one, a story that says it is
\* done is on origin and has a pull request, whatever fails, lapses, is paused,
\* resumed or lost in a crash.
THEOREM DoneStoriesHavePrs ==
    ASSUME Moves \cap {"approve", "mode"} = {}
    PROVE  Spec => []DoneHasPr
  <1>1. Init => LandedInv
    BY DEF Init, LandedInv, Landed
  <1>2. TypeOK /\ StoryInv /\ LandedInv /\ [Next]_vars => LandedInv'
    BY NextLanded
  <1>3. LandedInv => DoneHasPr
    BY DEF LandedInv, Landed, DoneHasPr
  <1>4. QED
    BY <1>1, <1>2, <1>3, StoryInvariant, PTL DEF Spec

-----------------------------------------------------------------------------
(* Commits: where the one commit of a promotion is, and whose files it has. *)

\* Needs a promotion that succeeds and is not cut short, and stories that come
\* to it once: a commit that stays on trunk is carried by every later branch.
TrunkInv ==
    /\ IF pc \in {"committed", "branched"} THEN Len(trunk) = 1
                                           ELSE trunk = <<>>
    /\ \A s \in Stories :
         phase[s] \in Unpromoted /\ (pc \in {"branched", "save"} => s # Current)
           => branch[s] = {}
    /\ pc \in {"fallback", "staged", "committed"} => branch[Current] = {}
    /\ pc = "save" /\ PhaseAfterSave \in Unpromoted => branch[Current] = {}

OwnInv ==
    /\ pc \in {"committed", "branched"} => trunk = <<{Current}>>
    /\ idx \subseteq IF pc = "staged" THEN {Current} ELSE {}
    /\ BranchOnlyOwn

\* Every other tick leaves index, trunk and branches alone.
PromotionStep == TickCommit \/ Commit \/ Promote \/ Rewind

LEMMA TickTree ==
    ASSUME TickStep, ~PromotionStep
    PROVE  /\ UNCHANGED <<idx, trunk, branch>>
           /\ pc \in {"tick", "inner", "fallback", "push"}
           /\ pc' \in {"idle", "tick", "inner", "save"}
           /\ pc' \in {"inner", "save"} => queue' = queue
  BY DEF PromotionStep, TickStep, TickTerminal, ConsumeResume, TickPlan,
     TickWaiting, TickBoundary, InnerBoundary, TickDispatch,
     AfterDispatchFailure, TickPreview, TickFixLoop, TickApply,
     RetryOrEscalate, TickGates, RepairDecision, Retry, GiveUp,
     EnsurePushApproval, TickPush, TickPr, TickReview, ThenSave, Goto,
     NoProgress, Continue, Ticking, repoVars

LEMMA TrunkTick ==
    ASSUME RepairCap = 0, {"promote", "reset"} \cap Faults = {},
           TypeOK, StoryInv, TrunkInv, TickStep
    PROVE  TrunkInv'
  <1> DEFINE s == Current
  <1>1. s \in Stories /\ UNCHANGED phase
    BY CurrentType, TickLeaves
    DEF TypeOK, storyVars, TickStep, TickTerminal, ConsumeResume, TickPlan,
        TickWaiting, TickBoundary, InnerBoundary, TickDispatch,
        AfterDispatchFailure, TickPreview, TickFixLoop, TickApply, TickGates,
        TickCommit, Commit, Promote, Rewind, EnsurePushApproval, TickPush,
        TickPr, TickReview, Ticking
  <1>2. trunk \in Seq(SUBSET Stories) /\ branch \in [Stories -> SUBSET Stories]
    BY DEF TypeOK, RepoTypeOK
  <1>3. ASSUME CommitFailed(s)
        PROVE  pc' = "save" /\ PhaseAfterSave' = "ESCALATED"
    BY <1>3 DEF CommitFailed, ThenSave, ToPhase, PhaseAfterSave
  <1>4. CASE TickCommit
    <2>1. /\ pc = "tick" /\ phase[s] = "COMMIT" /\ UNCHANGED <<trunk, branch, queue>>
          /\ pc' = "staged" \/ (pc' = "save" /\ PhaseAfterSave' = "ESCALATED")
      BY <1>3, <1>4 DEF TickCommit, Ticking, CommitFailed, Goto, ThenSave
    <2>2. QED
      BY <1>1, <2>1 DEF TrunkInv, Unpromoted, Current
  <1>5. CASE Commit
    <2>1. pc = "staged" /\ UNCHANGED <<branch, queue>> /\ trunk = <<>>
      BY <1>5 DEF Commit, CommitFailed, Goto, ThenSave, TrunkInv
    <2>2. \/ pc' = "committed" /\ trunk' = <<idx>>
          \/ pc' = "save" /\ PhaseAfterSave' = "ESCALATED" /\ trunk' = <<>>
      BY <1>3, <1>5, <2>1 DEF Commit, CommitIndex, CommitFailed, Goto, ThenSave
    <2>3. QED
      BY <1>1, <2>1, <2>2 DEF TrunkInv, Unpromoted, Current
  <1>6. CASE Promote
    <2>1. pc = "committed" /\ branch[s] = {} /\ Len(trunk) = 1
      BY <1>6 DEF Promote, TrunkInv
    <2>2. /\ pc' = "branched" /\ UNCHANGED <<trunk, queue>>
          /\ branch' = [branch EXCEPT ![s] = InTrunk]
      BY <1>6, <2>1 DEF Promote, CreateBranch, Goto, treeVars
    <2>3. QED
      BY <1>1, <1>2, <2>1, <2>2 DEF TrunkInv, Current
  <1>7. CASE Rewind
    <2>1. pc = "branched" /\ Len(trunk) = 1
      BY <1>7 DEF Rewind, TrunkInv
    <2>2. pc' = "save" /\ UNCHANGED <<branch, queue>> /\ trunk' = SubSeq(trunk, 1, 0)
      BY <1>7, <2>1 DEF Rewind, Promoted, ResetToParent, ThenSave
    <2>3. trunk' = <<>>
      BY <1>2, <2>2
    <2>4. PhaseAfterSave' = "PUSH_APPROVAL_PENDING"
      BY <1>7 DEF Rewind, Promoted, ThenSave, Unblocked, ToPhase, PhaseAfterSave
    <2>5. QED
      BY <1>1, <2>1, <2>2, <2>3, <2>4 DEF TrunkInv, Unpromoted, Current
  <1>8. CASE ~PromotionStep
    <2>1. /\ trunk' = <<>> /\ UNCHANGED branch
          /\ pc' \in {"idle", "tick", "inner", "save"}
          /\ pc' = "save" => Current' = s
          /\ \A t \in Stories : phase[t] \in Unpromoted => branch[t] = {}
      BY <1>8, TickTree DEF TrunkInv, Current
    <2>2. ASSUME pc' = "save", PhaseAfterSave' \in Unpromoted
          PROVE  branch[s] = {}
      <3>1. Ticking(Unpromoted) \/ pc = "fallback"
        <4>1. upd'.phase \notin {"PLAN_APPROVAL_PENDING", "ESCALATED",
                "PUSH_APPROVAL_PENDING", "PUSH", "PR_APPROVAL_PENDING", "PR",
                "PR_REVIEW", "DONE"}
          BY <2>2 DEF PhaseAfterSave, Unpromoted
        <4>2. ~(repairs[s] < RepairCap)
          BY <1>1 DEF TypeOK, StoryTypeOK
        <4>3. QED
          BY <2>2, <4>1, <4>2, TickTarget
      <3>2. QED
        BY <1>1, <2>1, <3>1 DEF Ticking, TrunkInv
    <2>3. QED
      BY <1>1, <2>1, <2>2 DEF TrunkInv
  <1>9. QED
    BY <1>4, <1>5, <1>6, <1>7, <1>8 DEF PromotionStep

LEMMA NextTrunk ==
    ASSUME MaxCrashes = 0, RepairCap = 0, {"promote", "reset"} \cap Faults = {},
           TypeOK, StoryInv, TrunkInv, [Next]_vars
    PROVE  TrunkInv'
  <1>1. CASE TickStep
    BY <1>1, TrunkTick
  <1>2. CASE Save
    <2>1. /\ pc = "save" /\ Current \in Stories
          /\ UNCHANGED <<trunk, branch>>
          /\ trunk = <<>>
      BY <1>2, CurrentType DEF Save, TypeOK, repoVars, TrunkInv
    <2>2. /\ phase'[Current] = PhaseAfterSave
          /\ \A s \in Stories \ {Current} : phase'[s] = phase[s]
      BY <1>2, <2>1 DEF Save, PhaseAfterSave, TypeOK, StoryTypeOK
    <2>3. /\ pc' \in {"fallback", "push", "tick", "idle"}
          /\ pc' = "fallback" => Current' = Current /\ upd.phase = "OPENCODE_RUNNING"
      BY <1>2 DEF Save, Continue, StoryInv, OutcomeFits, Current
    <2>4. pc' = "fallback" => branch[Current] = {}
      BY <2>1, <2>3 DEF TrunkInv, PhaseAfterSave, Unpromoted
    <2>5. QED
      BY <2>1, <2>2, <2>3, <2>4 DEF TrunkInv
  <1>3. CASE StartCycle
    BY <1>3 DEF StartCycle, repoVars, storyVars, TrunkInv
  <1>4. ASSUME NEW s \in Stories, Pause(s)
        PROVE  TrunkInv'
    <2>1. /\ UNCHANGED <<trunk, branch, pc, queue, upd>>
          /\ \A t \in Stories : phase'[t] \in {phase[t], "STOPPED"}
      BY <1>4 DEF Pause, repoVars, daemonVars, TypeOK, StoryTypeOK
    <2>2. pc = "save" => Current \in Stories
      BY CurrentType DEF TypeOK
    <2>3. QED
      BY <2>1, <2>2 DEF TrunkInv, PhaseAfterSave, Unpromoted, Current
  <1>5. ASSUME UNCHANGED <<trunk, branch, phase, pc, queue, upd>>
        PROVE  TrunkInv'
    BY <1>5 DEF TrunkInv, PhaseAfterSave, Current
  <1>6. ~Crash
    BY DEF Crash, TypeOK
  <1>7. QED
    BY <1>1, <1>2, <1>3, <1>4, <1>5, <1>6
    DEF Next, DaemonStep, OperatorStep, vars, Approve, Reject, Lapse,
        GrantResume, SwitchMode, BackoffOver, repoVars, storyVars, daemonVars

LEMMA NextOwn ==
    ASSUME MaxCrashes = 0, "commit" \notin Faults,
           TypeOK, TrunkInv, OwnInv, [Next]_vars
    PROVE  OwnInv'
  <1> DEFINE s == Current
  <1>1. CASE TickCommit
    <2>1. /\ UNCHANGED <<trunk, branch, queue>> /\ idx = {}
          /\ \/ pc' = "staged" /\ idx' \subseteq {s}
             \/ pc' = "save" /\ idx' = {}
      BY <1>1
      DEF TickCommit, Ticking, CommitFailed, Goto, ThenSave, OwnInv, Staged
    <2>2. QED
      BY <2>1 DEF OwnInv, BranchOnlyOwn, Current
  <1>2. CASE Commit
    <2>1. /\ pc = "staged" /\ trunk = <<>> /\ idx \subseteq {s}
          /\ UNCHANGED <<branch, queue>>
      BY <1>2 DEF Commit, CommitFailed, Goto, ThenSave, OwnInv, TrunkInv
    <2>2. CASE idx # {} /\ CommitIndex /\ Goto("committed")
      <3>1. idx = {s} /\ trunk' = <<idx>> /\ idx' = {} /\ pc' = "committed"
        BY <2>1, <2>2 DEF CommitIndex, Goto
      <3>2. QED
        BY <2>1, <3>1, <1>2 DEF OwnInv, BranchOnlyOwn, Current
    <2>3. CASE idx = {} /\ CommitFailed(s)
      BY <2>1, <2>3 DEF CommitFailed, ThenSave, OwnInv, BranchOnlyOwn, Current
    <2>4. QED
      BY <1>2, <2>2, <2>3 DEF Commit
  <1>3. CASE Promote
    <2>1. /\ pc = "committed" /\ trunk = <<{s}>> /\ idx = {}
          /\ UNCHANGED <<trunk, idx, queue>>
          /\ pc' \in {"branched", "save"}
          /\ branch' \in {branch, [branch EXCEPT ![s] = InTrunk]}
      BY <1>3
      DEF Promote, CreateBranch, CommitFailed, Goto, ThenSave, treeVars, OwnInv
    <2>2. InTrunk = {s}
      <3>1. Len(trunk) = 1 /\ trunk[1] = {s}
        BY <2>1
      <3>2. 1..Len(trunk) = {1}
        BY <3>1
      <3>3. QED
        BY <3>1, <3>2 DEF InTrunk
    <2>3. BranchOnlyOwn'
      BY <2>1, <2>2 DEF OwnInv, BranchOnlyOwn, TypeOK, RepoTypeOK
    <2>4. QED
      BY <2>1, <2>3 DEF OwnInv, Current
  <1>4. CASE Rewind
    BY <1>4
    DEF Rewind, Promoted, ResetToParent, CommitFailed, ThenSave, OwnInv,
        BranchOnlyOwn
  <1>5. CASE TickStep /\ ~PromotionStep
    BY <1>5, TickTree DEF OwnInv, BranchOnlyOwn
  <1>6. CASE Save \/ StartCycle
    <2>1. /\ UNCHANGED <<idx, trunk, branch>> /\ pc # "staged"
          /\ pc' \in {"fallback", "push", "tick", "idle"}
      BY <1>6 DEF Save, Continue, StartCycle, repoVars
    <2>2. QED
      BY <2>1 DEF OwnInv, BranchOnlyOwn
  <1>7. ASSUME UNCHANGED <<idx, trunk, branch, pc, queue>>
        PROVE  OwnInv'
    BY <1>7 DEF OwnInv, BranchOnlyOwn, Current
  <1>8. ~Crash
    BY DEF Crash, TypeOK
  <1>9. QED
    BY <1>1, <1>2, <1>3, <1>4, <1>5, <1>6, <1>7, <1>8
    DEF PromotionStep, Next, DaemonStep, OperatorStep, vars, Approve, Reject,
        Lapse, Pause, GrantResume, SwitchMode, BackoffOver, repoVars, daemonVars

\* While no crash, failing branch or failing reset cuts a promotion short and
\* no reviewed story comes back to it,
\* trunk is at its base again whenever a tick has ended, whoever approves,
\* pauses or resumes what in between.
THEOREM TrunkReturnsToBase ==
    ASSUME MaxCrashes = 0, RepairCap = 0, {"promote", "reset"} \cap Faults = {}
    PROVE  Spec => []TrunkRewound
  <1>1. Init => TrunkInv
    BY DEF Init, RepoInit, TrunkInv
  <1>2. TypeOK /\ StoryInv /\ TrunkInv /\ [Next]_vars => TrunkInv'
    BY NextTrunk
  <1>3. TrunkInv => TrunkRewound
    BY DEF TrunkInv, TrunkRewound
  <1>4. QED
    BY <1>1, <1>2, <1>3, StoryInvariant, PTL DEF Spec

\* If, besides, git commit does not fail on a staged change, a feature branch
\* carries the files of its own story and of no other.
THEOREM BranchesCarryTheirStory ==
    ASSUME MaxCrashes = 0, RepairCap = 0,
           {"promote", "reset", "commit"} \cap Faults = {}
    PROVE  Spec => []BranchOnlyOwn
  <1>1. Init => TrunkInv /\ OwnInv
    BY DEF Init, RepoInit, TrunkInv, OwnInv, BranchOnlyOwn
  <1>2. TypeOK /\ StoryInv /\ TrunkInv /\ [Next]_vars => TrunkInv'
    BY NextTrunk
  <1>3. TypeOK /\ TrunkInv /\ OwnInv /\ [Next]_vars => OwnInv'
    BY NextOwn
  <1>4. OwnInv => BranchOnlyOwn
    BY DEF OwnInv
  <1>5. QED
    BY <1>1, <1>2, <1>3, <1>4, StoryInvariant, PTL DEF Spec

-----------------------------------------------------------------------------
(* Trunk with crashes.                                                     *)

One(yes) == IF yes THEN 1 ELSE 0

\* A crash pays for one commit: the one it leaves on trunk, or the one that what
\* it leaves in the index will become.  A staged index needs that pay only if the
\* story has its branch already, since its promotion then fails.
OwedInv ==
    /\ pc = "staged" =>
         Len(trunk) + (IF branch[Current] = {} THEN 0 ELSE One(idx # {})) <= crashes
    /\ pc = "committed" =>
         idx = {} /\ Len(trunk) <= crashes + One(branch[Current] = {})
    /\ pc = "branched" => idx = {} /\ Len(trunk) <= crashes + 1
    /\ pc \notin {"staged", "committed", "branched"} =>
         Len(trunk) + One(idx # {}) <= crashes

\* A story that comes back to a branch of its own was cut short in its commit and
\* has nothing left to commit.
CutShortInv ==
    /\ \A s \in Stories :
         phase[s] \in Unpromoted /\ branch[s] # {} => phase[s] = "COMMIT" /\ s \notin wt
    /\ pc = "fallback" => branch[Current] = {}
    /\ pc = "save" /\ PhaseAfterSave \in Unpromoted => branch[Current] = {}

\* Outside a promotion only an apply adds to the tree.
LEMMA TickAdds ==
    ASSUME TickStep
    PROVE  wt' \subseteq wt \/ (Ticking({"APPLY"}) /\ wt' \subseteq wt \cup {Current})
  <1>1. CASE TickApply
    <2>1. \A r \in Rollbacks(wt \cup {Current}, Current) :
            r.tree \subseteq wt \cup {Current}
      BY DEF Rollbacks, RolledBack
    <2>2. QED
      BY <1>1, <2>1 DEF TickApply
  <1>2. CASE ~TickApply
    BY <1>2, TreeShrinks
    DEF TickStep, TickTerminal, ConsumeResume, TickPlan, TickWaiting,
        TickBoundary, InnerBoundary, TickDispatch, AfterDispatchFailure,
        TickPreview, TickFixLoop, TickCommit, Commit, CommitIndex, Promote,
        Rewind, ResetToParent, EnsurePushApproval, TickPush, TickPr, TickReview,
        repoVars, treeVars
  <1>3. QED
    BY <1>1, <1>2

LEMMA CommitTick ==
    ASSUME TickStep, Ticking({"COMMIT"})
    PROVE  TickCommit
  BY DEF TickStep, TickTerminal, ConsumeResume, ResumeWaiting, TickPlan, TickWaiting,
     TickBoundary, InnerBoundary, TickDispatch, AfterDispatchFailure,
     TickPreview, TickFixLoop, TickApply, TickGates, Commit, Promote, Rewind,
     EnsurePushApproval, TickPush, TickPr, TickReview, Ticking

LEMMA TickCutShort ==
    ASSUME RepairCap = 0, TypeOK, StoryInv, CutShortInv, TickStep
    PROVE  CutShortInv'
  <1> DEFINE s == Current
  <1>1. s \in Stories /\ UNCHANGED phase
    BY CurrentType, TickLeaves
    DEF TypeOK, storyVars, TickStep, TickTerminal, ConsumeResume, TickPlan,
        TickWaiting, TickBoundary, InnerBoundary, TickDispatch,
        AfterDispatchFailure, TickPreview, TickFixLoop, TickApply, TickGates,
        TickCommit, Commit, Promote, Rewind, EnsurePushApproval, TickPush,
        TickPr, TickReview, Ticking
  <1>2. CASE Promote
    <2>1. pc = "committed" /\ s \notin wt /\ phase[s] \in {"COMMIT", "STOPPED"}
      BY <1>2 DEF Promote, StoryInv, MidTick, MidTickFits, TickedTree, PhaseAt
    <2>2. \A t \in Stories \ {s} : branch'[t] = branch[t]
      BY <1>2 DEF Promote, CreateBranch, CommitFailed, TypeOK, RepoTypeOK
    <2>3. wt' \subseteq wt
      BY <1>2, TreeShrinks DEF Promote, treeVars
    <2>4. pc' = "branched" \/ (pc' = "save" /\ PhaseAfterSave' = "ESCALATED")
      BY <1>2
      DEF Promote, CommitFailed, Goto, ThenSave, ToPhase, PhaseAfterSave
    <2>5. QED
      BY <1>1, <2>1, <2>2, <2>3, <2>4 DEF CutShortInv, Unpromoted
  <1>3. CASE TickCommit \/ Commit \/ Rewind
    <2>1. UNCHANGED branch /\ wt' \subseteq wt
      BY <1>3, TreeShrinks
      DEF TickCommit, Commit, CommitIndex, Rewind, ResetToParent, CommitFailed
    <2>2. \/ pc' \in {"staged", "committed"}
          \/ pc' = "save" /\ PhaseAfterSave' \in {"ESCALATED", "PUSH_APPROVAL_PENDING"}
      <3>1. CASE CommitFailed(s)
        BY <3>1 DEF CommitFailed, ThenSave, ToPhase, PhaseAfterSave
      <3>2. CASE Promoted(s)
        BY <3>2 DEF Promoted, ThenSave, Unblocked, ToPhase, PhaseAfterSave
      <3>3. CASE Goto("staged") \/ Goto("committed")
        BY <3>3 DEF Goto
      <3>4. QED
        BY <1>3, <3>1, <3>2, <3>3 DEF TickCommit, Commit, Rewind
    <2>3. QED
      BY <1>1, <2>1, <2>2 DEF CutShortInv, Unpromoted
  <1>4. CASE ~PromotionStep
    <2>1. /\ UNCHANGED branch
          /\ pc' \in {"idle", "tick", "inner", "save"}
          /\ pc' = "save" => Current' = s
      BY <1>4, TickTree DEF Current
    <2>2. \A t \in Stories :
             phase[t] \in Unpromoted /\ branch[t] # {} => phase[t] = "COMMIT" /\ t \notin wt'
      BY TickAdds DEF CutShortInv, Ticking
    <2>3. ASSUME pc' = "save", PhaseAfterSave' \in Unpromoted
          PROVE  branch[s] = {}
      <3>1. Ticking(Unpromoted) \/ pc = "fallback"
        <4>1. upd'.phase \notin {"PLAN_APPROVAL_PENDING", "ESCALATED",
                "PUSH_APPROVAL_PENDING", "PUSH", "PR_APPROVAL_PENDING", "PR",
                "PR_REVIEW", "DONE"}
          BY <2>3 DEF PhaseAfterSave, Unpromoted
        <4>2. ~(repairs[s] < RepairCap)
          BY <1>1 DEF TypeOK, StoryTypeOK
        <4>3. QED
          BY <2>3, <4>1, <4>2, TickTarget
      <3>2. ~Ticking({"COMMIT"})
        BY <1>4, CommitTick DEF PromotionStep
      <3>3. QED
        BY <1>1, <3>1, <3>2 DEF Ticking, CutShortInv
    <2>4. QED
      BY <1>1, <2>1, <2>2, <2>3 DEF CutShortInv
  <1>5. QED
    BY <1>2, <1>3, <1>4 DEF PromotionStep

LEMMA NextCutShort ==
    ASSUME RepairCap = 0, TypeOK, StoryInv, CutShortInv, [Next]_vars
    PROVE  CutShortInv'
  <1>1. CASE TickStep
    BY <1>1, TickCutShort
  <1>2. CASE Save
    <2>1. /\ pc = "save" /\ Current \in Stories
          /\ UNCHANGED <<wt, branch>>
      BY <1>2, CurrentType DEF Save, TypeOK, repoVars
    <2>2. /\ phase'[Current] = PhaseAfterSave
          /\ \A s \in Stories \ {Current} : phase'[s] = phase[s]
      BY <1>2, <2>1 DEF Save, PhaseAfterSave, TypeOK, StoryTypeOK
    <2>3. /\ pc' \in {"fallback", "push", "tick", "idle"}
          /\ pc' = "fallback" => Current' = Current /\ upd.phase = "OPENCODE_RUNNING"
      BY <1>2 DEF Save, Continue, StoryInv, OutcomeFits, Current
    <2>4. pc' = "fallback" => branch[Current] = {}
      BY <2>1, <2>3 DEF CutShortInv, PhaseAfterSave, Unpromoted
    <2>5. QED
      BY <2>1, <2>2, <2>3, <2>4 DEF CutShortInv
  <1>3. CASE StartCycle \/ Crash
    BY <1>3 DEF StartCycle, Crash, repoVars, storyVars, CutShortInv
  <1>4. ASSUME NEW s \in Stories, Pause(s)
        PROVE  CutShortInv'
    <2>1. /\ UNCHANGED <<wt, branch, pc, queue, upd>>
          /\ \A t \in Stories : phase'[t] \in {phase[t], "STOPPED"}
      BY <1>4 DEF Pause, repoVars, daemonVars, TypeOK, StoryTypeOK
    <2>2. pc = "save" => Current \in Stories
      BY CurrentType DEF TypeOK
    <2>3. QED
      BY <2>1, <2>2 DEF CutShortInv, PhaseAfterSave, Unpromoted, Current
  <1>5. ASSUME UNCHANGED <<wt, branch, phase, pc, queue, upd>>
        PROVE  CutShortInv'
    BY <1>5 DEF CutShortInv, PhaseAfterSave, Current
  <1>6. QED
    BY <1>1, <1>2, <1>3, <1>4, <1>5
    DEF Next, DaemonStep, OperatorStep, vars, Approve, Reject, Lapse,
        GrantResume, SwitchMode, BackoffOver, repoVars, storyVars, daemonVars

LEMMA NextOwed ==
    ASSUME {"promote", "reset", "commit"} \cap Faults = {},
           TypeOK, CutShortInv, OwedInv, [Next]_vars
    PROVE  OwedInv'
  <1> DEFINE s == Current
  <1>1. Len(trunk) \in Nat /\ crashes \in Nat /\ trunk \in Seq(SUBSET Stories)
    BY DEF TypeOK, RepoTypeOK
  <1>2. CASE TickCommit
    <2>1. /\ pc = "tick" /\ phase[s] = "COMMIT" /\ s \in Stories
          /\ UNCHANGED <<trunk, branch, queue, crashes>>
          /\ \/ pc' = "staged" /\ idx' = Staged(s)
             \/ pc' = "save" /\ idx' = idx
      BY <1>2, CurrentType
      DEF TickCommit, Ticking, CommitFailed, Goto, ThenSave, TypeOK
    <2>2. branch[s] # {} => Staged(s) = idx
      BY <2>1 DEF CutShortInv, Unpromoted, Staged
    <2>3. Len(trunk) + One(idx # {}) <= crashes
      BY <2>1 DEF OwedInv
    <2>4. QED
      BY <1>1, <2>1, <2>2, <2>3 DEF OwedInv, One, Current
  <1>3. CASE Commit
    <2>1. pc = "staged" /\ UNCHANGED <<branch, queue, crashes>>
      BY <1>3 DEF Commit, CommitFailed, Goto, ThenSave
    <2>2. CASE idx # {} /\ CommitIndex /\ Goto("committed")
      <3>1. idx' = {} /\ pc' = "committed" /\ Len(trunk') = Len(trunk) + 1
        BY <1>1, <2>2 DEF CommitIndex, Goto
      <3>2. QED
        BY <1>1, <2>1, <2>2, <3>1 DEF OwedInv, One, Current
    <2>3. CASE idx = {} /\ CommitFailed(s)
      <3>1. idx' = {} /\ pc' = "save" /\ trunk' = trunk
        BY <2>3 DEF CommitFailed, ThenSave
      <3>2. QED
        BY <1>1, <2>1, <2>3, <3>1 DEF OwedInv, One
    <2>4. QED
      BY <1>3, <2>2, <2>3 DEF Commit
  <1>4. CASE Promote
    <2>1. pc = "committed" /\ UNCHANGED <<idx, trunk, queue, crashes>>
      BY <1>4 DEF Promote, CommitFailed, Goto, ThenSave, treeVars
    <2>2. pc' = "branched" \/ (pc' = "save" /\ branch[s] # {})
      BY <1>4 DEF Promote, CommitFailed, Goto, ThenSave
    <2>3. QED
      BY <1>1, <2>1, <2>2 DEF OwedInv, One
  <1>5. CASE Rewind
    <2>1. /\ pc = "branched" /\ pc' = "save" /\ idx' = {} /\ crashes' = crashes
          /\ trunk' = SubSeq(trunk, 1, Len(trunk) - 1)
      BY <1>5 DEF Rewind, Promoted, ResetToParent, ThenSave
    <2>2. Len(trunk') = IF Len(trunk) = 0 THEN 0 ELSE Len(trunk) - 1
      BY <1>1, <2>1
    <2>3. QED
      BY <1>1, <2>1, <2>2 DEF OwedInv, One
  <1>6. CASE TickStep /\ ~PromotionStep
    BY <1>6, TickTree, TickLeaves DEF OwedInv
  <1>7. CASE Save \/ StartCycle
    <2>1. /\ UNCHANGED <<idx, trunk, branch, crashes>> /\ pc \in {"save", "idle"}
          /\ pc' \in {"fallback", "push", "tick", "idle"}
      BY <1>7 DEF Save, Continue, StartCycle, repoVars
    <2>2. QED
      BY <2>1 DEF OwedInv
  <1>8. CASE Crash
    <2>1. UNCHANGED <<idx, trunk>> /\ pc' = "idle" /\ crashes' = crashes + 1
      BY <1>8 DEF Crash, repoVars
    <2>2. QED
      BY <1>1, <2>1 DEF OwedInv, One
  <1>9. ASSUME UNCHANGED <<idx, trunk, branch, pc, queue, crashes>>
        PROVE  OwedInv'
    BY <1>9 DEF OwedInv, Current
  <1>10. QED
    BY <1>2, <1>3, <1>4, <1>5, <1>6, <1>7, <1>8, <1>9
    DEF PromotionStep, Next, DaemonStep, OperatorStep, vars, Approve, Reject,
        Lapse, Pause, GrantResume, SwitchMode, BackoffOver, repoVars, daemonVars

\* Crashes may come at any step: trunk then keeps at most one commit for each of
\* them, whichever of the stories is cut short, restarted, paused or given up, for
\* any number of stories and however many of them share the section (opencode-
\* commit.js:158, feature-branch-promote.js:105).
THEOREM CrashesBoundTrunk ==
    ASSUME RepairCap = 0, {"promote", "reset", "commit"} \cap Faults = {}
    PROVE  Spec => []TrunkLeftover
  <1>1. Init => CutShortInv /\ OwedInv
    BY DEF Init, RepoInit, CutShortInv, OwedInv, One
  <1>2. TypeOK /\ StoryInv /\ CutShortInv /\ [Next]_vars => CutShortInv'
    BY NextCutShort
  <1>3. TypeOK /\ CutShortInv /\ OwedInv /\ [Next]_vars => OwedInv'
    BY NextOwed
  <1>4. TypeOK /\ OwedInv => TrunkLeftover
    BY DEF TypeOK, RepoTypeOK, OwedInv, TrunkLeftover, One
  <1>5. QED
    BY <1>1, <1>2, <1>3, <1>4, StoryInvariant, PTL DEF Spec

-----------------------------------------------------------------------------
(* The control decision of a plan.  The rule list is in an order that      *)
(* loses nothing, more paths never lower a plan's risk, and no wording     *)
(* takes a protected path past a person.                                   *)

(* The first rule a path matches, all that riskForPath looks at, is one of *)
(* its rules and the least of them.                                        *)
LEMMA FirstRuleLeast ==
    ASSUME NEW p \in Paths, p # {}
    PROVE  FirstRule(p) \in p /\ \A j \in p : FirstRule(p) <= j
  <1>1. p \in SUBSET Nat
    BY DEF Paths, Rules
  <1>2. \E i \in p : \A j \in p : i <= j
    <2> DEFINE R == OpToRel(<, Nat)
    <2>1. IsWellFoundedOn(R, Nat)
      BY NatLessThanWellFounded
    <2>2. PICK i \in p : \A j \in p : ~ (<<j, i>> \in R)
      BY <1>1, <2>1, WFMin
    <2>3. \A j \in p : ~ (j < i)
      BY <1>1, <2>2 DEF OpToRel
    <2> QED
      BY <1>1, <2>3
  <1> QED
    BY <1>2 DEF FirstRule

(* The score of a path is one of the list's. *)
LEMMA PathRiskType ==
    ASSUME NEW p \in Paths
    PROVE  PathRisk(p) \in 0..5
  BY DEF PathRisk, RuleScore

(* riskForPath loses nothing by stopping at the first match: no rule of the *)
(* path, matched or shadowed, scores more.                                  *)
THEOREM HighestRuleWins ==
    ASSUME NEW p \in Paths, NEW i \in p
    PROVE  RuleScore(i) <= PathRisk(p)
  <1>1. FirstRule(p) \in p /\ FirstRule(p) <= i
    BY FirstRuleLeast
  <1>2. FirstRule(p) \in Rules /\ i \in Rules
    BY <1>1 DEF Paths
  <1>3. \A j, k \in Rules : j <= k => RuleScore(k) <= RuleScore(j)
    BY DEF Rules, RuleScore
  <1> QED
    BY <1>1, <1>2, <1>3 DEF PathRisk

(* riskForPaths answers the highest score of the plan's paths. *)
LEMMA PathsRiskHighest ==
    ASSUME NEW P \in SUBSET Paths, P # {}
    PROVE  /\ PathsRisk(P) \in 0..5
           /\ \E p \in P : PathRisk(p) = PathsRisk(P)
           /\ \A p \in P : PathRisk(p) <= PathsRisk(P)
  <1> DEFINE Top(n) == (\E p \in P : PathRisk(p) = n) /\ \A p \in P : PathRisk(p) <= n
  <1>1. \A p \in P : PathRisk(p) \in 0..5
    BY PathRiskType
  <1>2. \E n \in 0..5 : Top(n)
    <2>1. CASE \E p \in P : PathRisk(p) = 5
      BY <1>1, <2>1
    <2>2. CASE (\E p \in P : PathRisk(p) = 4) /\ \A p \in P : PathRisk(p) <= 4
      BY <2>2
    <2>3. CASE (\E p \in P : PathRisk(p) = 3) /\ \A p \in P : PathRisk(p) <= 3
      BY <2>3
    <2>4. CASE (\E p \in P : PathRisk(p) = 2) /\ \A p \in P : PathRisk(p) <= 2
      BY <2>4
    <2>5. CASE (\E p \in P : PathRisk(p) = 1) /\ \A p \in P : PathRisk(p) <= 1
      BY <2>5
    <2>6. CASE \A p \in P : PathRisk(p) <= 0
      BY <1>1, <2>6
    <2> QED
      BY <1>1, <2>1, <2>2, <2>3, <2>4, <2>5, <2>6
  <1> HIDE DEF Top
  <1>3. PathsRisk(P) = CHOOSE n \in 0..5 : Top(n)
    BY DEF PathsRisk, Top
  <1>4. PathsRisk(P) \in 0..5 /\ Top(PathsRisk(P))
    BY <1>2, <1>3
  <1> QED
    BY <1>4 DEF Top

(* Path scores only grow with the set of paths. *)
LEMMA PathsRiskGrows ==
    ASSUME NEW P \in SUBSET Paths, NEW Q \in SUBSET Paths, P # {}, P \subseteq Q
    PROVE  PathsRisk(P) <= PathsRisk(Q)
  <1>1. PICK p \in P : PathRisk(p) = PathsRisk(P)
    BY PathsRiskHighest
  <1>2. Q # {} /\ PathRisk(p) <= PathsRisk(Q)
    BY PathsRiskHighest
  <1> QED
    BY <1>1, <1>2

(* What the wording of a plan scores. *)
LEMMA ContentRiskType ==
    ASSUME NEW text, NEW production
    PROVE  ContentRisk(text, production) \in {0, 3, 4, 5}
  BY DEF ContentRisk

(* Padding a plan with more paths never lowers its risk: the downgrades of   *)
(* evaluateRisk (documents only, safe scope) cannot be bought by also        *)
(* touching a harmless file.                                                 *)
THEOREM PaddingNeverLowers ==
    ASSUME NEW P \in SUBSET Paths, NEW Q \in SUBSET Paths, P # {}, P \subseteq Q,
           NEW content \in {0, 3, 4, 5}
    PROVE  Risk(content, P) <= Risk(content, Q)
  <1>1. PathsRisk(P) \in 0..5 /\ PathsRisk(Q) \in 0..5 /\ Q # {}
    BY PathsRiskHighest
  <1>2. PathsRisk(P) <= PathsRisk(Q)
    BY PathsRiskGrows
  <1> QED
    BY <1>1, <1>2 DEF Risk, DocsOnly, SafeScope

(* A path that scores 3 or more bounds the plan's risk from below, whatever  *)
(* the plan says and whatever else it touches.                               *)
LEMMA PathFloor ==
    ASSUME NEW P \in SUBSET Paths, NEW p \in P, PathRisk(p) >= 3,
           NEW content \in {0, 3, 4, 5}
    PROVE  Risk(content, P) \in 3..5 /\ PathRisk(p) <= Risk(content, P)
  <1>1. PathsRisk(P) \in 0..5 /\ PathRisk(p) <= PathsRisk(P)
    BY PathsRiskHighest
  <1>2. PathRisk(p) \in 0..5
    BY PathRiskType
  <1> QED
    BY <1>1, <1>2 DEF Risk, DocsOnly, SafeScope

(* A plan that touches a secrets file, a legal document, the keyword list or *)
(* a workflow is never executed without a person, whatever its wording, its  *)
(* other paths and the rules that path matches besides: in both modes, in    *)
(* production and elsewhere.                                                 *)
THEOREM ProtectedPathsAsk ==
    ASSUME NEW P \in SUBSET Paths, NEW p \in P, NEW i \in p, i <= 6,
           NEW text \in SUBSET Mentions, NEW mode \in {"approval", "fullauto"},
           NEW production \in BOOLEAN
    PROVE  PlanControl(text, P, mode, production) # "auto_execute"
  <1> DEFINE content == ContentRisk(text, production)
  <1>1. i \in 1..6
    BY DEF Paths, Rules
  <1>2. PathRisk(p) >= 4
    <2>1. RuleScore(i) \in 4..5
      BY <1>1 DEF RuleScore
    <2> QED
      BY <2>1, HighestRuleWins, PathRiskType
  <1>3. Risk(content, P) >= 4 /\ Risk(content, P) \in 3..5
    BY <1>2, PathFloor, ContentRiskType, PathRiskType
  <1>4. ControlAction(Risk(content, P), mode, production) # "auto_execute"
    BY <1>3 DEF ControlAction
  <1> QED
    BY <1>4 DEF PlanControl

(* If a plan may run by itself, so may every plan with the same wording that *)
(* touches some of its paths: splitting a plan never asks for more.          *)
THEOREM FewerPathsStillRun ==
    ASSUME NEW P \in SUBSET Paths, NEW Q \in SUBSET Paths, P # {}, P \subseteq Q,
           NEW text \in SUBSET Mentions, NEW mode \in {"approval", "fullauto"},
           NEW production \in BOOLEAN,
           PlanControl(text, Q, mode, production) = "auto_execute"
    PROVE  PlanControl(text, P, mode, production) = "auto_execute"
  <1> DEFINE content == ContentRisk(text, production)
  <1>1. /\ ProductionAction(text, production) = "auto_execute"
        /\ ControlAction(Risk(content, Q), mode, production) = "auto_execute"
    BY DEF PlanControl
  <1>2. Risk(content, P) <= Risk(content, Q)
    BY PaddingNeverLowers, ContentRiskType
  <1>3. Risk(content, P) \in 0..5 /\ Risk(content, Q) \in 0..5
    <2>1. PathsRisk(P) \in 0..5 /\ PathsRisk(Q) \in 0..5
      BY PathsRiskHighest
    <2> QED
      BY <2>1, ContentRiskType DEF Risk
  <1>4. ControlAction(Risk(content, P), mode, production) = "auto_execute"
    BY <1>1, <1>2, <1>3 DEF ControlAction
  <1> QED
    BY <1>1, <1>4 DEF PlanControl
=============================================================================
